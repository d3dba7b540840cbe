----------------------------- MODULE Interrupts -----------------------------
(***************************************************************************)
(* Interrupt delivery and acknowledgement: the 8259 masks kept by i8259.c, *)
(* the request (IRR) and in-service (ISR) registers of the PICs, the      *)
(* interrupt gates init_idt installs (the CPU clears IF on entry), the    *)
(* handlers pit_handler (with the scheduler's boot path), keyboard_handler *)
(* and rtc_handler, and the one process below them: the kernel before the *)
(* first shell, then a shell in user mode or in terminal_read or rtc_read  *)
(* spinning until an interrupt lets it go on.                              *)
(*                                                                         *)
(* send_eoi writes EOI | irq; the model takes EOI to be the specific-EOI   *)
(* command, which clears the in-service bit of that level.  The PICs are  *)
(* in fully nested mode: a request is served only above every level in    *)
(* service, and the slave's requests come in on the master's IRQ 2.        *)
(* Terminal t has a shell once the boot path has started t + 1 shells:    *)
(* the scheduler starts them in the order 0, 1, 2 (Kernel.tla checks the  *)
(* rotation itself).                                                       *)
(***************************************************************************)
EXTENDS Integers, Sequences, Bitwise, Functions

CONSTANTS
    MaxShells,   \* TERMINAL_COUNT: shells the scheduler's boot path starts
    RtcNeed,     \* 1024 / virt_freq: interrupts rtc_read waits for
    MaxNest,     \* bound on the handler frames on the CPU
    SyscallSti   \* IF inside a system call (the int 0x80 linkage is not in src/)

PIT == 0   \* PIT_IRQ_NUM
KBD == 1   \* KEYBOARD_IRQ_NUM
RTC == 8   \* RTC_IRQ_NUM
Irqs == {PIT, KBD, RTC}
Terminals == 0..(MaxShells - 1)
NoKey == "none"
KeyCodes == {"char", "enter"}

VARIABLES
    pic,          \* [master |-> master_mask, slave |-> slave_mask]
    irr,          \* requests raised and not yet taken
    isr,          \* levels in service; 2 is the master's cascade input
    iflag,        \* the CPU's interrupt flag
    stack,        \* handler frames on the CPU, innermost last: [irq, pc]
    ctx,          \* what the process below the handlers is doing
    user_if,      \* IF in the saved EFLAGS of the process in user mode
    key,          \* the scan code the keyboard controller holds
    ready,        \* allow_terminal_read of each terminal
    disp,         \* display_terminal_id
    rtc_flag,     \* RTC register C holds an unread interrupt flag
    rtc_count,    \* rtc_inter_count, saturated at RtcNeed
    pit_i,        \* pit.c's terminal counter i
    bootup_flag,  \* scheduler.c's bootup_flag
    booted        \* shells the scheduler's boot path has started

vars == << pic, irr, isr, iflag, stack, ctx, user_if, key, ready, disp,
           rtc_flag, rtc_count, pit_i, bootup_flag, booted >>

Ctxs == {"kernel", "user", "trd_spin", "trd_ret", "rtc_spin"}
Pcs == {"entry", "sti", "iret"}

TypeOK ==
    /\ pic \in [master : 0..255, slave : 0..255]
    /\ irr \subseteq Irqs /\ isr \subseteq (Irqs \cup {2})
    /\ iflag \in BOOLEAN /\ user_if \in BOOLEAN
    /\ stack \in Seq([irq : Irqs, pc : Pcs]) /\ Len(stack) <= MaxNest
    /\ ctx \in Ctxs
    /\ key \in KeyCodes \cup {NoKey}
    /\ ready \in [Terminals -> BOOLEAN] /\ disp \in Terminals
    /\ rtc_flag \in BOOLEAN /\ rtc_count \in 0..RtcNeed
    /\ pit_i \in Terminals /\ bootup_flag \in BOOLEAN
    /\ booted \in 0..MaxShells

----------------------------------------------------------------------------
(* i8259.c                                                                 *)

\* Mutant: the slave's bit is shifted by irq_num, not irq_num - 8; in
\* uint8_t, 0xFF - (1 << 8) is 0xFF and the mask is unchanged.
enable_irq_noshift(p, irq) ==
    IF irq < 8 THEN [p EXCEPT !.master = @ & (255 - 2^irq)]
    ELSE IF irq < 16 THEN [p EXCEPT !.slave = @ & ((255 - 2^irq) % 256)]
    ELSE p

\* enable_irq: clear the irq's bit in its PIC's mask.
enable_irq(p, irq) ==
    IF irq < 8 THEN [p EXCEPT !.master = @ & (255 - 2^irq)]
    ELSE IF irq < 16 THEN [p EXCEPT !.slave = @ & (255 - 2^(irq - 8))]
    ELSE p

\* master_mask = 0xFB (the cascade open) and slave_mask = 0xFF, then
\* pit_init, keyboard_init and rtc_init each enable their line.
InitialMasks == [master |-> 251, slave |-> 255]
DriverMasks == enable_irq(enable_irq(enable_irq(InitialMasks, PIT), KBD), RTC)

\* send_eoi on the in-service set: a master irq to the master; a slave irq
\* to the slave and IRQ 2 to the master.
send_eoi(s, irq) ==
    IF irq < 8 THEN s \ {irq} ELSE IF irq < 16 THEN s \ {irq, 2} ELSE s

\* The PIC hardware: an irq passes its mask (a slave irq also the master's
\* IRQ 2 bit); priority is 0 > 1 > 2 (the slave's 8..15) > 3 .. 7.
Unmasked(irq) ==
    IF irq < 8 THEN (pic.master \div 2^irq) % 2 = 0
    ELSE (pic.slave \div 2^(irq - 8)) % 2 = 0 /\ (pic.master \div 4) % 2 = 0
Prio(irq) == IF irq < 8 THEN 8 * irq ELSE 16 + (irq - 8)
Servable(irq) ==
    /\ irq \in irr /\ Unmasked(irq)
    /\ \A j \in isr : Prio(j) > Prio(irq)
InService(irq) == IF irq < 8 THEN {irq} ELSE {irq, 2}

----------------------------------------------------------------------------
(* Devices: the PIT and the RTC interrupt periodically, the RTC only after *)
(* register C was read; the user presses a key when the controller's byte *)
(* has been read.  The PIT (RELOAD_VAL 23863: about 20 ms), the RTC (1024  *)
(* Hz) and a typist are all slow next to the handlers: time passes, and a  *)
(* request is raised, only while the process runs.                         *)

\* IF is set and a request the PIC would pass is pending: the CPU takes it
\* before the next instruction.
Pending == iflag /\ \E q \in irr : Servable(q)

\* The process is on the CPU: no handler frame, no interrupt about to be
\* taken.
Running == stack = << >> /\ ~Pending

PitRaise == /\ PIT \notin irr /\ Running
            /\ irr' = irr \cup {PIT}
            /\ UNCHANGED << pic, isr, iflag, stack, ctx, user_if, key, ready,
                            disp, rtc_flag, rtc_count, pit_i, bootup_flag, booted >>

RtcRaise == /\ ~rtc_flag /\ Running
            /\ irr' = irr \cup {RTC}
            /\ rtc_flag' = TRUE
            /\ UNCHANGED << pic, isr, iflag, stack, ctx, user_if, key, ready,
                            disp, rtc_count, pit_i, bootup_flag, booted >>

KeyPress(k) == /\ key = NoKey /\ Running
               /\ key' = k
               /\ irr' = irr \cup {KBD}
               /\ UNCHANGED << pic, isr, iflag, stack, ctx, user_if, ready, disp,
                               rtc_flag, rtc_count, pit_i, bootup_flag, booted >>

(***************************************************************************)
(* The CPU takes the highest-priority servable request when IF is set.    *)
(* Vectors 0x20, 0x21 and 0x28 are interrupt gates (init_idt: entries     *)
(* above 31), so IF is clear in the handler.                               *)
(***************************************************************************)
Deliver(irq) ==
    /\ iflag /\ Servable(irq) /\ Len(stack) < MaxNest
    /\ \A q \in irr : Servable(q) => Prio(irq) <= Prio(q)
    /\ irr' = irr \ {irq}
    /\ isr' = isr \cup InService(irq)
    /\ iflag' = FALSE
    /\ stack' = Append(stack, [irq |-> irq, pc |-> "entry"])
    /\ UNCHANGED << pic, ctx, user_if, key, ready, disp, rtc_flag, rtc_count,
                    pit_i, bootup_flag, booted >>

AtTop(irq, pc) == stack # << >> /\ stack[Len(stack)] = [irq |-> irq, pc |-> pc]
SetPc(pc) == stack' = [stack EXCEPT ![Len(stack)].pc = pc]
\* iret: the frame is popped and the interrupted code's IF (set) restored.
Iret == stack' = SubSeq(stack, 1, Len(stack) - 1) /\ iflag' = TRUE

----------------------------------------------------------------------------
(* pit.c and scheduler.c                                                   *)

\* Mutant: the counter wraps one terminal late.
NextTerminal_offbyone(i) == IF i + 1 > MaxShells THEN 0 ELSE i + 1

\* i++; if (i > 2) i = 0;
NextTerminal(i) == IF i + 1 > MaxShells - 1 THEN 0 ELSE i + 1

\* find_bottom_task(t) != -1
HasTask(t) == t < booted

\* The terminal scheduler(i) looks at: 0 once all shells have started.
SchedTerminal == IF bootup_flag THEN 0 ELSE pit_i

\* Mutant: the boot path starts the shell without acknowledging the tick.
PitBoot_noeoi ==
    LET t == SchedTerminal
    IN /\ AtTop(PIT, "entry") /\ ~HasTask(t)
       /\ booted' = booted + 1
       /\ bootup_flag' = (t = MaxShells - 1)
       /\ disp' = t
       /\ stack' = << >> /\ ctx' = "user" /\ user_if' = iflag
       /\ UNCHANGED << pic, irr, isr, iflag, key, ready, rtc_flag, rtc_count, pit_i >>

(***************************************************************************)
(* pit_handler's cli and scheduler(i) on a terminal without a task:        *)
(* send_eoi(0), the bootup_flag for the last terminal, the display switch *)
(* and syscall_execute("shell"), whose iret enters the shell and never     *)
(* comes back: the handler's frame and whatever it interrupted are left,   *)
(* and the shell's EFLAGS are pushf'd under the cli.                      *)
(***************************************************************************)
PitBoot ==
    LET t == SchedTerminal
    IN /\ AtTop(PIT, "entry") /\ ~HasTask(t)
       /\ isr' = send_eoi(isr, PIT)
       /\ booted' = booted + 1
       /\ bootup_flag' = (t = MaxShells - 1)
       /\ disp' = t
       /\ stack' = << >> /\ ctx' = "user" /\ user_if' = iflag
       /\ UNCHANGED << pic, irr, iflag, key, ready, rtc_flag, rtc_count, pit_i >>

\* Mutant: pit_handler sends its EOI before its sti.
PitSchedule_eoifirst ==
    /\ AtTop(PIT, "entry") /\ HasTask(SchedTerminal)
    /\ isr' = send_eoi(isr, PIT)
    /\ bootup_flag' = FALSE
    /\ disp' = IF bootup_flag THEN 0 ELSE disp
    /\ pit_i' = NextTerminal(pit_i)
    /\ SetPc("sti") /\ iflag' = TRUE
    /\ UNCHANGED << pic, irr, ctx, user_if, key, ready, rtc_flag, rtc_count,
                    booted >>

\* scheduler(i) on a terminal with a task: the re-home to terminal 0 after
\* the last boot, then return; pit_handler advances i and does sti.
PitSchedule ==
    /\ AtTop(PIT, "entry") /\ HasTask(SchedTerminal)
    /\ bootup_flag' = FALSE
    /\ disp' = IF bootup_flag THEN 0 ELSE disp
    /\ pit_i' = NextTerminal(pit_i)
    /\ SetPc("sti") /\ iflag' = TRUE
    /\ UNCHANGED << pic, irr, isr, ctx, user_if, key, ready, rtc_flag, rtc_count,
                    booted >>

\* Mutant: pit_handler leaves the acknowledgement to the scheduler.
PitEoi_skipped ==
    /\ AtTop(PIT, "sti")
    /\ SetPc("iret")
    /\ UNCHANGED << pic, irr, isr, iflag, ctx, user_if, key, ready, disp,
                    rtc_flag, rtc_count, pit_i, bootup_flag, booted >>

\* send_eoi(PIT_IRQ_NUM) after the sti.
PitEoi ==
    /\ AtTop(PIT, "sti")
    /\ isr' = send_eoi(isr, PIT)
    /\ SetPc("iret")
    /\ UNCHANGED << pic, irr, iflag, ctx, user_if, key, ready, disp,
                    rtc_flag, rtc_count, pit_i, bootup_flag, booted >>

PitIret ==
    /\ AtTop(PIT, "iret") /\ ~Pending /\ Iret
    /\ UNCHANGED << pic, irr, isr, ctx, user_if, key, ready, disp,
                    rtc_flag, rtc_count, pit_i, bootup_flag, booted >>

(***************************************************************************)
(* keyboard_handler with IF clear throughout: the code is read from the   *)
(* port, an Enter sets allow_terminal_read of the displayed terminal       *)
(* (unless terminal_buf_add finds the buffer full, which Terminal.tla      *)
(* models), send_eoi(1) and iret.                                          *)
(***************************************************************************)
KeyboardIrq ==
    /\ AtTop(KBD, "entry")
    /\ key' = NoKey
    /\ \E added \in BOOLEAN :
          ready' = IF key = "enter" /\ added
                   THEN [ready EXCEPT ![disp] = TRUE] ELSE ready
    /\ isr' = send_eoi(isr, KBD)
    /\ Iret
    /\ UNCHANGED << pic, irr, ctx, user_if, disp, rtc_flag, rtc_count,
                    pit_i, bootup_flag, booted >>

\* rtc_handler: rtc_inter_count++, read register C, send_eoi(8), iret.
RtcIrq ==
    /\ AtTop(RTC, "entry")
    /\ rtc_count' = IF rtc_count < RtcNeed THEN rtc_count + 1 ELSE RtcNeed
    /\ rtc_flag' = FALSE
    /\ isr' = send_eoi(isr, RTC)
    /\ Iret
    /\ UNCHANGED << pic, irr, ctx, user_if, key, ready, disp, pit_i,
                    bootup_flag, booted >>

----------------------------------------------------------------------------
(* The process's steps, taken while it is Running.  A read enters the     *)
(* kernel by int 0x80 with IF as the linkage leaves it, and its iret      *)
(* restores the EFLAGS the shell was started with.                         *)

\* terminal_read until its spin: the syscall entry.
SysReadTerminal ==
    /\ Running /\ ctx = "user"
    /\ ctx' = "trd_spin" /\ iflag' = SyscallSti
    /\ UNCHANGED << pic, irr, isr, stack, user_if, key, ready, disp,
                    rtc_flag, rtc_count, pit_i, bootup_flag, booted >>

\* rtc_read: the syscall entry and rtc_inter_count = 0.
SysReadRtc ==
    /\ Running /\ ctx = "user"
    /\ ctx' = "rtc_spin" /\ iflag' = SyscallSti /\ rtc_count' = 0
    /\ UNCHANGED << pic, irr, isr, stack, user_if, key, ready, disp,
                    rtc_flag, pit_i, bootup_flag, booted >>

\* terminal_read's spin ends on allow_terminal_read of the displayed
\* terminal: cli, the copy, the flag cleared, sti.
TerminalReadCopy ==
    /\ Running /\ ctx = "trd_spin" /\ ready[disp]
    /\ ready' = [ready EXCEPT ![disp] = FALSE]
    /\ ctx' = "trd_ret" /\ iflag' = TRUE
    /\ UNCHANGED << pic, irr, isr, stack, user_if, key, disp,
                    rtc_flag, rtc_count, pit_i, bootup_flag, booted >>

\* The iret back to user mode after terminal_read's sti.
SyscallReturn ==
    /\ Running /\ ctx = "trd_ret"
    /\ ctx' = "user" /\ iflag' = user_if
    /\ UNCHANGED << pic, irr, isr, stack, user_if, key, ready, disp,
                    rtc_flag, rtc_count, pit_i, bootup_flag, booted >>

\* rtc_read's spin ends once 1024 / virt_freq interrupts were counted;
\* it returns 0 to user mode.
RtcReadDone ==
    /\ Running /\ ctx = "rtc_spin" /\ rtc_count >= RtcNeed
    /\ ctx' = "user" /\ iflag' = user_if
    /\ UNCHANGED << pic, irr, isr, stack, user_if, key, ready, disp,
                    rtc_flag, rtc_count, pit_i, bootup_flag, booted >>

----------------------------------------------------------------------------
(* After i8259_init and the three driver inits (the order kernel.c calls   *)
(* them in is not in src/; each line is enabled before the first tick is   *)
(* taken) the kernel runs with IF set and no shell.                        *)
Init ==
    /\ pic = DriverMasks
    /\ irr = {} /\ isr = {} /\ iflag = TRUE /\ stack = << >>
    /\ ctx = "kernel" /\ user_if = TRUE
    /\ key = NoKey /\ ready = [t \in Terminals |-> FALSE] /\ disp = 0
    /\ rtc_flag = FALSE /\ rtc_count = 0
    /\ pit_i = 0 /\ bootup_flag = FALSE /\ booted = 0

HandlerStep == PitBoot \/ PitSchedule \/ PitEoi \/ PitIret \/ KeyboardIrq \/ RtcIrq
ProcessStep == TerminalReadCopy \/ SyscallReturn \/ RtcReadDone
SysRead == SysReadTerminal \/ SysReadRtc

Next ==
    \/ PitRaise \/ RtcRaise \/ \E k \in KeyCodes : KeyPress(k)
    \/ \E irq \in Irqs : Deliver(irq)
    \/ HandlerStep \/ ProcessStep \/ SysRead

(***************************************************************************)
(* The PIT and the RTC keep interrupting (at a moment the process runs).  *)
(* A pending request is taken at once, and a handler runs to its iret, so *)
(* weak fairness suffices for them; the process runs again and again but  *)
(* not always (strong fairness).  In user mode it is a shell or a program *)
(* of its, which read again and again.  The user need not type.           *)
(***************************************************************************)
Spec == /\ Init /\ [][Next]_vars
        /\ SF_vars(PitRaise) /\ SF_vars(RtcRaise)
        /\ WF_vars(\E irq \in Irqs : Deliver(irq)) /\ WF_vars(HandlerStep)
        /\ SF_vars(ProcessStep) /\ SF_vars(SysRead)

----------------------------------------------------------------------------
(***************************************************************************)
(* A level is in service exactly while its handler runs before its EOI:   *)
(* every handler acknowledges its interrupt once, the scheduler's boot    *)
(* path before it leaves the handler for good, and a slave EOI also       *)
(* acknowledges the master's cascade input.                                *)
(***************************************************************************)
InServiceHasHandler ==
    isr = UNION {InService(f.irq) : f \in {g \in Range(stack) : g.pc # "iret"}}

(***************************************************************************)
(* A handler is interrupted only after it has acknowledged its level: the *)
(* gates clear IF, and the one sti in a handler, pit_handler's, comes     *)
(* while the PIT, the highest level, is still in service, so only the few *)
(* instructions between its send_eoi and its iret can be interrupted.      *)
(***************************************************************************)
NestOnlyAfterEoi ==
    \A k \in 1..(Len(stack) - 1) : stack[k] = [irq |-> PIT, pc |-> "iret"]

(***************************************************************************)
(* The scheduler starts a shell in every terminal: each tick it takes is   *)
(* acknowledged, so the PIT keeps interrupting the reads of the shells    *)
(* the earlier ticks started.                                               *)
(***************************************************************************)
BootCompletes == <>(booted = MaxShells)

(***************************************************************************)
(* An rtc_read returns (or its shell is left by the boot path): the RTC    *)
(* line is unmasked on the slave and its handler reads register C, so the *)
(* interrupts it counts keep coming.                                       *)
(***************************************************************************)
RtcWaitEnds == ctx = "rtc_spin" ~> ctx # "rtc_spin"

====
