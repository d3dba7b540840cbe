--------------------------- MODULE ProcessChains ---------------------------
(***************************************************************************)
(* What the process table promises, without links or saved stacks: each  *)
(* terminal owns a stack of processes (its chain), a process id is in at  *)
(* most one chain, and one chain is the running one.  The running process *)
(* may push a new process onto its own chain (execute) or pop itself      *)
(* (halt); the bottom process of a chain is never popped, it restarts.    *)
(* A chain starts in an empty terminal, and the display switch makes a    *)
(* non-empty chain the running one.                                       *)
(*                                                                         *)
(* Start is not tied to the scheduler: execute gives a new task no parent *)
(* whenever its slot is below TERMINAL_COUNT, so a chain may begin from   *)
(* any running process.  RootsAreShells (kernel_roots) is about that.     *)
(***************************************************************************)
EXTENDS Integers, Sequences, SequencesExt

CONSTANTS TerminalCount, Pids

VARIABLES chains, active

vars == << chains, active >>

Terminals == 0..(TerminalCount - 1)
NoTerm    == -1

\* The processes that exist; a new one takes an id outside this set.
Used == UNION {ToSet(chains[t]) : t \in Terminals}

TypeOK ==
    /\ chains \in [Terminals -> Seq(Pids)]
    /\ active \in Terminals \cup {NoTerm}

Init ==
    /\ chains = [t \in Terminals |-> << >>]
    /\ active = NoTerm

\* A new process p begins the chain of the empty terminal t and runs.
Start(t, p) ==
    /\ chains[t] = << >>
    /\ p \notin Used
    /\ chains' = [chains EXCEPT ![t] = << p >>]
    /\ active' = t

\* The running process executes a new process p on top of its own chain.
Push(p) ==
    /\ active # NoTerm
    /\ p \notin Used
    /\ chains' = [chains EXCEPT ![active] = Append(@, p)]
    /\ UNCHANGED active

\* The running process halts and its caller resumes.
Pop ==
    /\ active # NoTerm
    /\ Len(chains[active]) > 1
    /\ chains' = [chains EXCEPT ![active] = SubSeq(@, 1, Len(@) - 1)]
    /\ UNCHANGED active

\* The display switch to a terminal with a chain runs that chain's top.
Switch(t) ==
    /\ chains[t] # << >>
    /\ active' = t
    /\ UNCHANGED chains

Next ==
    \/ \E t \in Terminals, p \in Pids : Start(t, p)
    \/ \E p \in Pids : Push(p)
    \/ Pop
    \/ \E t \in Terminals : Switch(t)

Spec == Init /\ [][Next]_vars

=============================================================================
