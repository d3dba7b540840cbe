------------------------------ MODULE MCDevices ------------------------------
(* The descriptor layer and the interrupt path, each in behaviours of its *)
(* own (unit), so that the state space is the sum of theirs.              *)
(* FdTable: one slot's descriptors (fds 2, 3) over the rtc, the directory *)
(* and a file shorter than a block, with 4-byte blocks and 8-bit words.   *)
(* Interrupts: three terminals, an rtc_read that waits for two ticks, and *)
(* handlers nested at most two deep.                                      *)
EXTENDS TLC

CONSTANTS StdinName, StdoutName, Rtc, Dot, Frame, Missing, Crash

VARIABLES fd, live, virt_freq, rtc_inter_count, rtc_wait, last

VARIABLES pic, irr, isr, iflag, stack, ctx, user_if, key, ready, disp,
          rtc_flag, rtc_count, pit_i, bootup_flag, booted

VARIABLE unit   \* the component a behaviour exercises

MCNames    == {StdinName, StdoutName, Rtc, Dot, Frame, Missing}
MCDentry   == (Rtc :> [type |-> 0, inode |-> 0]) @@
              (Dot :> [type |-> 1, inode |-> 0]) @@
              (Frame :> [type |-> 2, inode |-> 1])
MCInodeLen == (0 :> 0) @@ (1 :> 3)

\* Four descriptors; reads of a whole block; writes of an invalid and a
\* valid rate to an rtc of base rate 8.
F == INSTANCE FdTable WITH FdCount <- 4, Names <- MCNames, Dentry <- MCDentry,
                           InodeLen <- MCInodeLen, DirEntries <- 2,
                           ReadLens <- {4}, RtcValues <- {3, 8}, RtcBase <- 8,
                           BlockSize <- 4, Width <- 8

\* Three shells, as the scheduler starts; the syscall linkage enables
\* interrupts (system_call_linkage is not in the sources).
I == INSTANCE Interrupts WITH MaxShells <- 3, RtcNeed <- 2, MaxNest <- 2,
                              SyscallSti <- TRUE

fdvars  == << fd, live, virt_freq, rtc_inter_count, rtc_wait, last >>
irqvars == << pic, irr, isr, iflag, stack, ctx, user_if, key, ready, disp,
              rtc_flag, rtc_count, pit_i, bootup_flag, booted >>
mcvars  == << fdvars, irqvars, unit >>

MCInit == F!Init /\ I!Init /\ unit \in {"fd", "irq"}

\* A step of one component, the other unchanged.
FdStep(A)  == unit = "fd" /\ A /\ UNCHANGED << irqvars, unit >>
IrqStep(A) == unit = "irq" /\ A /\ UNCHANGED << fdvars, unit >>

MCNext == FdStep(F!Next) \/ IrqStep(I!Next)

\* Each component's fairness, on its own steps.
MCSpec ==
    /\ MCInit /\ [][MCNext]_mcvars
    /\ WF_mcvars(FdStep(F!RtcInterrupt)) /\ WF_mcvars(FdStep(F!RtcReadDone))
    /\ SF_mcvars(IrqStep(I!PitRaise)) /\ SF_mcvars(IrqStep(I!RtcRaise))
    /\ WF_mcvars(IrqStep(\E irq \in I!Irqs : I!Deliver(irq)))
    /\ WF_mcvars(IrqStep(I!HandlerStep))
    /\ SF_mcvars(IrqStep(I!ProcessStep)) /\ SF_mcvars(IrqStep(I!SysRead))

\* FdTable's type invariant: descriptors, rtc state, the latest call.
FdTypeOK == F!TypeOK

(* Every descriptor a process can hold open above fd 1 can be closed: open *)
(* only marks an fd after binding it to the rtc, dir or file table, so     *)
(* halt's close loop never leaves an fd bound to a console table open.     *)
ClosableDescriptors == F!ClosableDescriptors

(* A free descriptor has offset 0, so the next open of it reads from the   *)
(* start: close and fda_init reset it and open does not.                   *)
FreeDescriptorAtStart == F!FreeDescriptorAtStart

(* rtc_read returns: once it has zeroed the count, rtc_handler counts the  *)
(* periodic interrupts until 1024 / virt_freq of them have arrived.        *)
RtcReadReturns == F!RtcReadReturns

\* The interrupt path's type invariant: PIC registers, handler stack, flags.
IrqTypeOK == I!TypeOK

(* A level is in service in the PIC exactly while a handler for it runs   *)
(* before its EOI: no handler path, the scheduler's boot path included,    *)
(* leaves a level in service and so masks it and every lower priority.     *)
InServiceHasHandler == I!InServiceHasHandler

(* Handlers nest only on pit_handler after its send_eoi: with every gate  *)
(* an interrupt gate and no sti before the EOI in the keyboard and rtc     *)
(* handlers, the window between pit_handler's EOI and iret is the only one *)
(* in which another interrupt is taken.                                    *)
NestOnlyAfterEoi == I!NestOnlyAfterEoi

(* The scheduler starts the shell of every terminal: the PIT keeps ticking *)
(* through each boot-path execute, whose EOI lets the next tick in.        *)
ShellsStart == unit = "irq" => I!BootCompletes

(* An rtc_read waiting for RTC interrupts returns: rtc_handler acknowledges *)
(* each one, so the RTC keeps interrupting through the PIT's scheduling.    *)
RtcWaitEnds == I!RtcWaitEnds

=============================================================================
