------------------------------- MODULE Kernel -------------------------------
(***************************************************************************)
(* The process table, execute/halt, fault-driven process death, the user   *)
(* page mapping, the PIT-driven scheduler and the display-terminal switch  *)
(* of src/student-distrib (system_call.c, scheduler.c, pit.c, paging.c and *)
(* switch_display_terminal in keyboard.c).                                 *)
(*                                                                         *)
(* Besides the kernel's own variables the model keeps cpu: the slot whose  *)
(* saved stack the processor is running on.  execute records the caller's *)
(* esp/ebp (old_esp/old_ebp) in the new PCB, and halt jumps to the esp/ebp *)
(* stored in the PCB of tasks_running; cpu is that stack.  -1 is the boot  *)
(* stack of the kernel's idle loop.                                        *)
(***************************************************************************)
EXTENDS Integers, Sequences, FiniteSetsExt

CONSTANTS
    MaxTasks,       \* length of task_slots[] (6)
    TerminalCount,  \* TERMINAL_COUNT (3)
    Shell,          \* the program the scheduler executes in a new terminal
    Programs,       \* executables a running process may pass to execute
    NotPresent      \* the 128MB page-directory entry is not present

ASSUME /\ TerminalCount \in 1..MaxTasks
       /\ Shell \in Programs

Slots     == 0..(MaxTasks - 1)
Terminals == 0..(TerminalCount - 1)
NoTask    == -1      \* task id -1: no task / no parent / no child
\* syscall_paging_setup(eightM + fourM * find_bottom_task(tid)) with -1
\* maps the kernel's own 4MB frame; a page value is the slot whose frame
\* is mapped, so the kernel frame is slot -1.
KernelFrame == -1

VARIABLES
    task_slots,          \* task_slots[]: slot occupied
    tasks_running,       \* tasks_running: slot the kernel treats as running
    pcb,                 \* get_pcb(s): parent, child, saved stack, program
    cpu,                 \* whose saved stack the processor runs on (ghost)
    spinning,            \* cpu is stuck in an exception handler's while(1)
    exception_death,     \* exception_death
    user_page,           \* page_directory[128MB/4MB]: mapped frame
    vid_mapped,          \* page_directory[148MB/4MB] present
    vid_owner,           \* the process that called vidmap (ghost)
    display_terminal_id, \* display_terminal_id
    bootup_flag,         \* bootup_flag (scheduler.c)
    pit_i                \* i (pit.c): terminal the next tick schedules

vars == << task_slots, tasks_running, pcb, cpu, spinning, exception_death,
           user_page, vid_mapped, vid_owner, display_terminal_id,
           bootup_flag, pit_i >>

PcbRec == [parent : Slots \cup {NoTask}, child : Slots \cup {NoTask},
           ctx : Slots \cup {NoTask}, prog : Programs]

TypeOK ==
    /\ task_slots \in [Slots -> BOOLEAN]
    /\ tasks_running \in Slots \cup {NoTask}
    /\ pcb \in [Slots -> PcbRec]
    /\ cpu \in Slots \cup {NoTask}
    /\ spinning \in BOOLEAN
    /\ exception_death \in {0, 1}
    /\ user_page \in Slots \cup {KernelFrame, NotPresent}
    /\ vid_mapped \in BOOLEAN
    /\ vid_owner \in Slots \cup {NoTask}
    /\ display_terminal_id \in Terminals
    /\ bootup_flag \in BOOLEAN
    /\ pit_i \in Terminals

(***************************************************************************)
(* Kernel state the composed handlers pass from one call to the next.      *)
(***************************************************************************)
K == [slots |-> task_slots, running |-> tasks_running, cpu |-> cpu,
      page |-> user_page, display |-> display_terminal_id, pcb |-> pcb]

Commit(k) ==
    /\ task_slots' = k.slots
    /\ tasks_running' = k.running
    /\ cpu' = k.cpu
    /\ user_page' = k.page
    /\ display_terminal_id' = k.display
    /\ pcb' = k.pcb

\* syscall_paging_setup(eightM + fourM * s): the 128MB directory entry maps
\* slot s's 4MB frame (s = -1 is the kernel frame), then the TLB is flushed.
syscall_paging_setup(k, s) == [k EXCEPT !.page = s]

\* find_bottom_task's loop: follow task_id_child until it is -1.
RECURSIVE Bottom(_, _, _)
Bottom(p, s, fuel) ==
    IF p[s].child = NoTask \/ fuel = 0 THEN s
    ELSE Bottom(p, p[s].child, fuel - 1)

\* Mutant: the bottom task is taken to be the terminal's root.
find_bottom_task_root(k, t) ==
    IF k.slots[t] THEN t ELSE NoTask

find_bottom_task(k, t) ==
    IF k.slots[t] THEN Bottom(k.pcb, t, MaxTasks) ELSE NoTask

\* Mutant: a full table returns the loop's end index instead of -1.
find_open_task_noerr(k) ==
    IF \A s \in Slots : k.slots[s] THEN MaxTasks
    ELSE Min({s \in Slots : ~k.slots[s]})

find_open_task(k) ==
    IF \A s \in Slots : k.slots[s] THEN NoTask
    ELSE Min({s \in Slots : ~k.slots[s]})

\* Mutant: tasks_running := the terminal's root rather than its bottom task.
switch_running_task_root(k, tid) ==
    IF k.slots[tid] THEN [k EXCEPT !.running = tid] ELSE k

\* switch_running_task(tid): tasks_running := the bottom task, unless -1.
switch_running_task(k, tid) ==
    LET b == find_bottom_task(k, tid)
    IN IF b = NoTask THEN k ELSE [k EXCEPT !.running = b]

(***************************************************************************)
(* switch_display_terminal(tid): remap the user page to the bottom task of *)
(* tid, switch the display and switch_running_task(tid).  The esp/ebp it  *)
(* then stores into the PCBs of slots display_terminal_id and tid are the  *)
(* saved stacks of parentless tasks (slots < TERMINAL_COUNT), which halt   *)
(* never reads, and the asm that loads esp/ebp is taken to leave the       *)
(* processor on its own stack.                                             *)
(***************************************************************************)
switch_display_terminal(k, tid) ==
    IF k.display = tid THEN k
    ELSE switch_running_task(
             [syscall_paging_setup(k, find_bottom_task(k, tid))
                  EXCEPT !.display = tid], tid)

(***************************************************************************)
(* syscall_execute(prog) past its argument and ELF checks: take the lowest *)
(* free slot, map its frame, fill the PCB (a parent only for slots >= 3,   *)
(* the caller's stack as the saved context) and iret into the program.    *)
(* The saved stack of a parentless task is never read: halt re-enters it  *)
(* at old_eip, so the model keeps it as -1.                                *)
(***************************************************************************)
\* Mutant: the parent is recorded but not told it has a child.
syscall_execute_nolink(k, prog) ==
    LET new == find_open_task(k)
        root == new < TerminalCount
    IN IF new = NoTask THEN k
       ELSE [k EXCEPT
               !.slots   = [k.slots EXCEPT ![new] = TRUE],
               !.running = new, !.page = new, !.cpu = new,
               !.pcb     = [k.pcb EXCEPT ![new] =
                   [parent |-> IF root THEN NoTask ELSE k.running,
                    child |-> NoTask, ctx |-> IF root THEN NoTask ELSE k.cpu,
                    prog |-> prog]]]

syscall_execute(k, prog) ==
    LET new == find_open_task(k)
        old == k.running
        root == new < TerminalCount
    IN IF new = NoTask THEN k
       ELSE [syscall_paging_setup(k, new) EXCEPT
               !.slots   = [k.slots EXCEPT ![new] = TRUE],
               !.running = new,
               !.cpu     = new,
               !.pcb     = [s \in Slots |->
                   IF s = new
                   THEN [parent |-> IF root THEN NoTask ELSE old,
                         child |-> NoTask,
                         ctx |-> IF root THEN NoTask ELSE k.cpu,
                         prog |-> prog]
                   ELSE IF s = old /\ ~root
                        THEN [k.pcb[s] EXCEPT !.child = new]
                        ELSE k.pcb[s]]]

UserRunning == cpu # NoTask /\ ~spinning

----------------------------------------------------------------------------
(***************************************************************************)
(* Actions                                                                 *)
(***************************************************************************)

\* The running process executes prog and there is a free slot (a full
\* table, a blank or unknown name and a non-ELF file return -1 unchanged).
Execute(prog) ==
    /\ UserRunning
    /\ find_open_task(K) # NoTask
    /\ Commit(syscall_execute(K, prog))
    /\ UNCHANGED << spinning, exception_death, vid_mapped, vid_owner,
                    bootup_flag, pit_i >>

\* videomem_map / videomem_unmap: the present bit of the 148MB directory
\* entry (the video page table's first entry follows it).
videomem_map   == TRUE
videomem_unmap == FALSE

(***************************************************************************)
(* syscall_halt(status) with exception_death = death.  The status only    *)
(* becomes execute's return value (256 if death is set), which no state    *)
(* keeps, so it is left out.  A parentless task is re-entered at its      *)
(* old_eip on its own stack; otherwise the parent's                        *)
(* child link is cleared, its frame remapped, the video page unmapped, the *)
(* fds closed, the slot freed, and control jumps to the saved old_esp.     *)
(***************************************************************************)
\* Mutant: halt does not unmap the video page.
HaltWith_keepvid(death) ==
    LET p == tasks_running  par == pcb[p].parent
    IN IF par = NoTask
       THEN /\ cpu' = p /\ spinning' = FALSE /\ exception_death' = death
            /\ UNCHANGED << task_slots, tasks_running, pcb, user_page,
                            vid_mapped, vid_owner >>
       ELSE /\ pcb' = [pcb EXCEPT ![par].child = NoTask]
            /\ user_page' = par
            /\ UNCHANGED << vid_mapped, vid_owner >>
            /\ task_slots' = [task_slots EXCEPT ![p] = FALSE]
            /\ tasks_running' = par /\ cpu' = pcb[p].ctx
            /\ spinning' = FALSE /\ exception_death' = 0

HaltWith(death) ==
    LET p   == tasks_running
        par == pcb[p].parent
    IN IF par = NoTask
       THEN /\ cpu' = p
            /\ spinning' = FALSE
            /\ exception_death' = death
            /\ UNCHANGED << task_slots, tasks_running, pcb, user_page,
                            vid_mapped, vid_owner >>
       ELSE /\ pcb' = [pcb EXCEPT ![par].child = NoTask]
            /\ user_page' = par
            /\ vid_mapped' = videomem_unmap
            /\ vid_owner' = NoTask
            /\ task_slots' = [task_slots EXCEPT ![p] = FALSE]
            /\ tasks_running' = par
            /\ cpu' = pcb[p].ctx
            /\ spinning' = FALSE
            /\ exception_death' = 0

Halt ==
    /\ UserRunning
    /\ tasks_running # NoTask
    /\ HaltWith(exception_death)
    /\ UNCHANGED << display_terminal_id, bootup_flag, pit_i >>

(***************************************************************************)
(* HANDLE_EXCEPTION: if get_tasks_running() is non-zero, set exception_    *)
(* death and halt(0); with task 0 running the handler spins in while(1).   *)
(***************************************************************************)
Fault ==
    /\ UserRunning
    /\ IF tasks_running # 0
       THEN HaltWith(1)
       ELSE /\ spinning' = TRUE
            /\ UNCHANGED << task_slots, tasks_running, pcb, cpu,
                            exception_death, user_page, vid_mapped,
                            vid_owner >>
    /\ UNCHANGED << display_terminal_id, bootup_flag, pit_i >>

\* syscall_vidmap with a valid pointer: map the video page at 148MB.
Vidmap ==
    /\ UserRunning
    /\ vid_mapped' = videomem_map
    /\ vid_owner' = tasks_running
    /\ UNCHANGED << task_slots, tasks_running, pcb, cpu, spinning,
                    exception_death, user_page, display_terminal_id,
                    bootup_flag, pit_i >>

\* keyboard_handler on Alt+F(tid+1): switch_display_terminal(tid).
SwitchTerminal(tid) ==
    /\ Commit(switch_display_terminal(K, tid))
    /\ UNCHANGED << spinning, exception_death, vid_mapped, vid_owner,
                    bootup_flag, pit_i >>

\* Mutant: i wraps after terminal 1 (if(i > 1) i = 0).
NextTerminal_wrap2(i) == (i + 1) % (TerminalCount - 1)

\* pit_handler after scheduler(i) returns: i++, and 0 after the last terminal.
NextTerminal(i) == (i + 1) % TerminalCount

(***************************************************************************)
(* pit_handler: scheduler(i), then i++ with wrap to 0.  scheduler first    *)
(* re-homes the display to terminal 0 if bootup_flag is set; a terminal    *)
(* with no task gets its display and a shell, and execute does not return, *)
(* so i only advances when no shell was started.                           *)
(***************************************************************************)
PitTick ==
    LET t  == IF bootup_flag THEN 0 ELSE pit_i
        k1 == IF bootup_flag THEN switch_display_terminal(K, 0) ELSE K
        boot == find_bottom_task(k1, t) = NoTask
        k2 == IF boot THEN switch_display_terminal(k1, t) ELSE k1
        started == boot /\ find_open_task(k2) # NoTask
        k3 == IF started THEN syscall_execute(k2, Shell) ELSE k2
    IN /\ Commit(k3)
       /\ bootup_flag' = (boot /\ t = TerminalCount - 1)
       /\ pit_i' = IF started THEN pit_i ELSE NextTerminal(pit_i)
       /\ spinning' = (spinning /\ ~started)
       /\ UNCHANGED << exception_death, vid_mapped, vid_owner >>

----------------------------------------------------------------------------
Init ==
    /\ task_slots = [s \in Slots |-> FALSE]
    /\ tasks_running = NoTask
    /\ pcb = [s \in Slots |-> [parent |-> NoTask, child |-> NoTask,
                               ctx |-> NoTask, prog |-> Shell]]
    /\ cpu = NoTask
    /\ spinning = FALSE
    /\ exception_death = 0
    /\ user_page = NotPresent
    /\ vid_mapped = FALSE
    /\ vid_owner = NoTask
    /\ display_terminal_id = 0
    /\ bootup_flag = FALSE
    /\ pit_i = 0

Next ==
    \/ \E prog \in Programs : Execute(prog)
    \/ Halt
    \/ Fault
    \/ Vidmap
    \/ \E tid \in Terminals : SwitchTerminal(tid)
    \/ PitTick

\* The PIT fires at a fixed rate whatever the processes do.
Spec == Init /\ [][Next]_vars /\ WF_vars(PitTick)

----------------------------------------------------------------------------
(***************************************************************************)
(* Properties                                                              *)
(***************************************************************************)

(* The parent and child links of live PCBs agree: execute links the new    *)
(* task only under the running task, and halt only frees a task that has   *)
(* no child, so no live task is orphaned or points at a freed slot.        *)
ChainConsistent ==
    \A s \in Slots : task_slots[s] =>
        /\ pcb[s].child # NoTask =>
               task_slots[pcb[s].child] /\ pcb[pcb[s].child].parent = s
        /\ pcb[s].parent # NoTask =>
               task_slots[pcb[s].parent] /\ pcb[pcb[s].parent].child = s

(* The task the kernel treats as running is live and has no child: the     *)
(* display switch picks find_bottom_task of the terminal and halt hands    *)
(* the identity to the parent only after clearing its child link, so an    *)
(* execute never overwrites the child link of a task that has one.         *)
RunningIsLeaf ==
    tasks_running # NoTask =>
        task_slots[tasks_running] /\ pcb[tasks_running].child = NoTask

(* The video page mapped by vidmap never outlives the process that mapped  *)
(* it: halt unmaps it before the slot is freed.                            *)
NoStaleWindow ==
    vid_mapped => vid_owner # NoTask /\ task_slots[vid_owner]

(* Every terminal eventually has a task: the PIT keeps ticking and the     *)
(* scheduler starts a shell in each terminal it finds empty.               *)
BootCompletes == <>(\A t \in Terminals : task_slots[t])

(* Spec 3 and 4.4: each terminal owns one chain rooted at a shell.         *)
(* execute makes a task parentless when its slot is below TERMINAL_COUNT,  *)
(* not when the scheduler starts it, so every parentless task should still *)
(* be a shell.                                                             *)
RootsAreShells ==
    \A s \in Slots : task_slots[s] /\ pcb[s].parent = NoTask =>
        pcb[s].prog = Shell

(* Spec 4.1: the user page maps the frame reserved for a process slot; the *)
(* kernel's own frame is never mapped user-accessible while user code runs *)
(* (switch_display_terminal maps find_bottom_task(tid), which is -1 for a  *)
(* terminal without a task).                                               *)
KernelFrameNeverMapped ==
    UserRunning => user_page # KernelFrame

(* Spec 5: the running process is the one whose saved context the          *)
(* processor resumed; tasks_running, which execute, halt and every fd call *)
(* use, names the process whose stack the processor is on.                 *)
RunsOnOwnStack ==
    UserRunning => cpu = tasks_running

(* Spec 4.3: the exception-death marker set by HANDLE_EXCEPTION is         *)
(* consumed by the halt it forces, so a later halt of another process      *)
(* returns its own status, not 256.                                        *)
ExceptionDeathConsumed ==
    exception_death = 0

(* Spec 4.4 and 5: the timer rotation resumes the leaf of every terminal   *)
(* infinitely often, so no terminal starves.                               *)
EveryTerminalRuns ==
    \A t \in Terminals : []<>(UserRunning /\ cpu = find_bottom_task(K, t))

----------------------------------------------------------------------------
(***************************************************************************)
(* Refinement of ProcessChains.  The chain of terminal t is the walk of   *)
(* task_id_child links from slot t (its root, present iff task_slots[t]), *)
(* the same walk find_bottom_task makes; the running chain is the one     *)
(* holding tasks_running.  A process is named by its slot, the pid the     *)
(* kernel itself uses.                                                     *)
(***************************************************************************)
RECURSIVE ChainFrom(_, _)
ChainFrom(s, fuel) ==
    IF fuel = 0 THEN << >>
    ELSE << s >> \o (IF pcb[s].child = NoTask THEN << >>
                     ELSE ChainFrom(pcb[s].child, fuel - 1))

ChainSlots(t) == IF task_slots[t] THEN ChainFrom(t, MaxTasks) ELSE << >>

RunningChain ==
    IF \E t \in Terminals : \E i \in 1..Len(ChainSlots(t)) :
                               ChainSlots(t)[i] = tasks_running
    THEN CHOOSE t \in Terminals : \E i \in 1..Len(ChainSlots(t)) :
                                    ChainSlots(t)[i] = tasks_running
    ELSE -1

PC == INSTANCE ProcessChains WITH Pids <- Slots, chains <- [t \in Terminals |-> ChainSlots(t)],
                                  active <- RunningChain

(* The process table implements per-terminal program stacks: every step   *)
(* of execute, halt, a fault, the display switch and the scheduler is a    *)
(* push or pop on the running chain, the start of an empty terminal's      *)
(* chain, a switch to a non-empty chain, or changes no chain.              *)
ChainRefinement == PC!Spec

=============================================================================
