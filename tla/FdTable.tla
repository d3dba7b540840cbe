------------------------------ MODULE FdTable ------------------------------
(***************************************************************************)
(* The file-descriptor layer of one task slot: fda_init (execute), the     *)
(* open/close/read/write system calls of system_call.c dispatching through *)
(* the fops tables of fs_module.c, rtc.c and keyboard.c, and the close     *)
(* loop of syscall_halt.  The read-only file system is a constant.         *)
(***************************************************************************)
EXTENDS Integers, FiniteSets, Bitwise

CONSTANTS
    FdCount,      \* descriptors per PCB (8)
    Names,        \* file names a process passes to open
    StdinName,    \* "stdin"
    StdoutName,   \* "stdout"
    Dentry,       \* read_dentry_by_name: name -> [type, inode], if found
    InodeLen,     \* inode -> length in bytes
    DirEntries,   \* directory entries with a non-empty name
    ReadLens,     \* nbytes passed to read
    RtcValues,    \* the uint32 a process writes to the rtc
    RtcBase,      \* 1024: the rtc's base rate, divided by virt_freq in rtc_read
    BlockSize, Width, Crash

ASSUME /\ FdCount >= 3
       /\ {StdinName, StdoutName} \subseteq Names
       /\ \A n \in DOMAIN Dentry : Dentry[n].type \in {0, 1, 2}
       /\ RtcBase >= 2

RD == INSTANCE ReadData WITH flen <- 0, offset <- 0, length <- 0,
                             FileLens <- {}, Offsets <- {}, Lengths <- {}

Fds     == 0..(FdCount - 1)
General == 2..(FdCount - 1)
NULL    == "null"
Fops    == {"stdin", "stdout", "rtc", "dir", "file"}
\* The entries of each fops table that are NULL.
NoClose == {"stdin", "stdout"}
NoRead  == {"stdout"}
NoWrite == {"stdin"}
\* dentry.type -> fops table chosen by syscall_open
OpsOfType == [t \in {0, 1, 2} |-> CASE t = 0 -> "rtc"
                                    [] t = 1 -> "dir"
                                    [] t = 2 -> "file"]

VARIABLES
    fd,          \* pcb->fd[]
    live,        \* the slot holds a process (between execute and halt)
    virt_freq,   \* rtc.c virt_freq
    rtc_inter_count, \* rtc.c rtc_inter_count, saturated at RtcCap
    rtc_wait,    \* the fd whose rtc_read is spinning, or NoWait
    last         \* the latest call, its argument and return value (ghost)

vars == << fd, live, virt_freq, rtc_inter_count, rtc_wait, last >>

FdRec == [flags : BOOLEAN, fops : Fops \cup {NULL}, inode : Nat, pos : Nat]

\* The frequencies rtc_write accepts; rtc_read divides RtcBase by virt_freq.
Freqs == {v \in 2..RtcBase : \E k \in 1..RtcBase : v = 2^k}
NoWait == -1
\* The largest count rtc_read waits for (at 2 Hz); counting further changes
\* no comparison, so the counter saturates here.
RtcCap == RtcBase \div 2

TypeOK ==
    /\ fd \in [Fds -> FdRec]
    /\ live \in BOOLEAN
    /\ virt_freq \in Freqs
    /\ rtc_inter_count \in 0..RtcCap
    /\ rtc_wait \in Fds \cup {NoWait}
    /\ last \in [op : {"none", "open", "close", "read", "write"},
                 arg : Names \cup Fds, ret : Int]

Called(op, arg, r) == last' = [op |-> op, arg |-> arg, ret |-> r]

\* The loop of syscall_open: the lowest free descriptor from 2, or FdCount if all are taken.
FreeFd == IF \A i \in General : fd[i].flags THEN FdCount
          ELSE CHOOSE i \in General : ~fd[i].flags /\
                                      \A j \in 2..(i - 1) : fd[j].flags

\* Mutant: the power-of-two test is left out.
PowerOfTwoFreq_range(v) == v <= RtcBase /\ v >= 2

\* rtc_write's check: 2 <= v <= 1024 and v & (v - 1) = 0.
PowerOfTwoFreq(v) == v <= RtcBase /\ v >= 2 /\ (v & (v - 1)) = 0

\* The slot's process is on the CPU and not spinning in rtc_read.
Running == live /\ rtc_wait = NoWait

----------------------------------------------------------------------------
\* fda_init(), called by execute for the new process.
FdaInit ==
    /\ ~live
    /\ live' = TRUE
    /\ fd' = [i \in Fds |->
                CASE i = 0 -> [flags |-> TRUE, fops |-> "stdin", inode |-> 0, pos |-> 0]
                  [] i = 1 -> [flags |-> TRUE, fops |-> "stdout", inode |-> 0, pos |-> 0]
                  [] OTHER -> [flags |-> FALSE, fops |-> NULL, inode |-> 0, pos |-> 0]]
    /\ UNCHANGED << virt_freq, rtc_inter_count, rtc_wait, last >>

\* Mutant: a name with no directory entry is not rejected.
Open_noexistcheck(name) ==
    LET i == FreeFd
    IN /\ Running
       /\ IF i = FdCount
          THEN /\ Called("open", name, -1)
               /\ UNCHANGED << fd, virt_freq >>
          ELSE LET ops == IF name \in DOMAIN Dentry
                          THEN OpsOfType[Dentry[name].type] ELSE fd[i].fops
               IN /\ fd' = [fd EXCEPT ![i].fops = ops, ![i].flags = TRUE]
                  /\ UNCHANGED virt_freq
                  /\ Called("open", name, i)
    /\ UNCHANGED << live, rtc_inter_count, rtc_wait >>

\* The open hooks: file_open and dir_open look the name up again and store
\* the dentry's inode; rtc_open sets virt_freq to 2 Hz and leaves the fd.
file_open(name) == Dentry[name].inode
dir_open(name)  == Dentry[name].inode
rtc_open        == 2

(***************************************************************************)
(* syscall_open(name): the lowest free fd; "stdin"/"stdout" select the     *)
(* console tables, then the directory entry's type overrides them; a name  *)
(* with no entry fails after the table was set; the open hook runs (rtc    *)
(* resets virt_freq, file and dir store the inode) and the fd is marked.   *)
(***************************************************************************)
Open(name) ==
    LET i    == FreeFd
        ops1 == CASE name = StdinName  -> "stdin"
                  [] name = StdoutName -> "stdout"
                  [] OTHER             -> fd[i].fops
    IN /\ Running
       /\ IF i = FdCount
          THEN /\ Called("open", name, -1)
               /\ UNCHANGED << fd, virt_freq >>
          ELSE IF name \notin DOMAIN Dentry
          THEN /\ fd' = [fd EXCEPT ![i].fops = ops1]
               /\ Called("open", name, -1)
               /\ UNCHANGED virt_freq
          ELSE LET ops == OpsOfType[Dentry[name].type]
               IN /\ fd' = [fd EXCEPT ![i].fops = ops,
                                      ![i].inode = CASE ops = "file" -> file_open(name)
                                                     [] ops = "dir"  -> dir_open(name)
                                                     [] OTHER        -> @,
                                      ![i].flags = TRUE]
                  /\ virt_freq' = IF ops = "rtc" THEN rtc_open ELSE virt_freq
                  /\ Called("open", name, i)
    /\ UNCHANGED << live, rtc_inter_count, rtc_wait >>

\* Mutant: close does not reset the file offset.
CloseFd_keeppos(f, i) ==
    IF i \notin General \/ ~f[i].flags \/ f[i].fops \in NoClose THEN f
    ELSE [f EXCEPT ![i].inode = IF f[i].fops = "rtc" THEN @ ELSE 0,
                   ![i].flags = FALSE]

(***************************************************************************)
(* syscall_close(fd): fds 2..7 only, an open fd whose table has a close;   *)
(* file_close and dir_close zero the inode; the offset is reset.           *)
(***************************************************************************)
CloseFd(f, i) ==
    IF i \notin General \/ ~f[i].flags \/ f[i].fops \in NoClose THEN f
    ELSE [f EXCEPT ![i].inode = IF f[i].fops = "rtc" THEN @ ELSE 0,
                   ![i].pos = 0, ![i].flags = FALSE]

CloseRet(f, i) ==
    IF i \notin General \/ ~f[i].flags \/ f[i].fops \in NoClose THEN -1 ELSE 0

Close(i) ==
    /\ Running
    /\ fd' = CloseFd(fd, i)
    /\ Called("close", i, CloseRet(fd, i))
    /\ UNCHANGED << live, virt_freq, rtc_inter_count, rtc_wait >>

\* file_read: read_data at the fd's offset, advanced by a positive result.
file_read(e, n) ==
    LET r == RD!read_data(InodeLen[e.inode], e.pos, n)
    IN [ret |-> r, pos |-> IF r > 0 THEN e.pos + r ELSE e.pos]

\* directory_read: the length of entry off's name, abstracted to 1 for a
\* named entry and 0 for the empty entries after the last one.
directory_read(off) == IF off < DirEntries THEN 1 ELSE 0

\* dir_read: the next entry's name; the offset advances by one entry.
dir_read(e) ==
    LET r == directory_read(e.pos)
    IN [ret |-> r, pos |-> IF r > 0 THEN e.pos + 1 ELSE e.pos]

(***************************************************************************)
(* syscall_read(fd, nbytes): not fd 1, an open fd whose table has a read,  *)
(* dispatched to file_read or dir_read; rtc_read zeroes the interrupt     *)
(* count and spins (RtcReadDone returns); terminal_read waits for a line  *)
(* (Terminal.tla) and returns without touching the fd.                    *)
(***************************************************************************)
Read(i, n) ==
    /\ Running
    /\ IF i = 1 \/ ~fd[i].flags \/ fd[i].fops \in NoRead
       THEN /\ Called("read", i, -1)
            /\ UNCHANGED << fd, rtc_inter_count, rtc_wait >>
       ELSE IF fd[i].fops \in {"file", "dir"}
       THEN LET x == IF fd[i].fops = "file" THEN file_read(fd[i], n)
                     ELSE dir_read(fd[i])
            IN /\ fd' = [fd EXCEPT ![i].pos = x.pos]
               /\ Called("read", i, x.ret)
               /\ UNCHANGED << rtc_inter_count, rtc_wait >>
       ELSE IF fd[i].fops = "rtc"
       THEN /\ rtc_inter_count' = 0
            /\ rtc_wait' = i
            /\ UNCHANGED << fd, last >>
       ELSE /\ Called("read", i, 0)
            /\ UNCHANGED << fd, rtc_inter_count, rtc_wait >>
    /\ UNCHANGED << live, virt_freq >>

\* while (rtc_inter_count < 1024 / virt_freq) {} ends; rtc_read returns 0.
RtcReadDone ==
    /\ rtc_wait # NoWait
    /\ rtc_inter_count >= RtcBase \div virt_freq
    /\ rtc_wait' = NoWait
    /\ Called("read", rtc_wait, 0)
    /\ UNCHANGED << fd, live, virt_freq, rtc_inter_count >>

\* Mutant: the handler acknowledges the interrupt but does not count it.
RtcInterrupt_nocount ==
    UNCHANGED vars

\* rtc_handler: one periodic interrupt, counted (register C read, EOI sent).
RtcInterrupt ==
    /\ rtc_inter_count' = IF rtc_inter_count < RtcCap THEN rtc_inter_count + 1
                          ELSE rtc_inter_count
    /\ UNCHANGED << fd, live, virt_freq, rtc_wait, last >>

(***************************************************************************)
(* syscall_write(fd, buf, 4) with buf holding the uint32 v: not fd 0, an  *)
(* open fd whose table has a write.  file and dir writes fail; rtc_write   *)
(* takes a valid frequency; terminal_write prints the four bytes.          *)
(***************************************************************************)
\* terminal_write: putc each of the nbytes bytes, counting those not '\n'.
terminal_write(v) ==
    Cardinality({k \in 0..3 : (v \div 2^(8 * k)) % 256 # 10})

RtcState == << virt_freq, rtc_inter_count >>

Write(i, v) ==
    /\ Running
    /\ IF i = 0 \/ ~fd[i].flags \/ fd[i].fops \in NoWrite
       THEN Called("write", i, -1) /\ UNCHANGED RtcState
       ELSE CASE fd[i].fops \in {"file", "dir"} ->
                   Called("write", i, -1) /\ UNCHANGED RtcState
              [] fd[i].fops = "rtc" ->
                   IF PowerOfTwoFreq(v)
                   THEN /\ virt_freq' = v /\ rtc_inter_count' = 0
                        /\ Called("write", i, 0)
                   ELSE Called("write", i, -1) /\ UNCHANGED RtcState
              [] OTHER -> Called("write", i, terminal_write(v)) /\ UNCHANGED RtcState
    /\ UNCHANGED << fd, live, rtc_wait >>

\* The loop of syscall_halt: syscall_close(i) for every fd with flags set.
RECURSIVE CloseAll(_, _)
CloseAll(f, i) == IF i = FdCount THEN f
                  ELSE CloseAll(IF f[i].flags THEN CloseFd(f, i) ELSE f, i + 1)

HaltCloseFds ==
    /\ Running
    /\ fd' = CloseAll(fd, 0)
    /\ live' = FALSE
    /\ UNCHANGED << virt_freq, rtc_inter_count, rtc_wait, last >>

----------------------------------------------------------------------------
\* Slot memory before the first execute is not read: fda_init overwrites it.
Init ==
    /\ fd = [i \in Fds |-> [flags |-> FALSE, fops |-> NULL, inode |-> 0, pos |-> 0]]
    /\ live = FALSE
    /\ virt_freq = 2
    /\ rtc_inter_count = 0
    /\ rtc_wait = NoWait
    /\ last = [op |-> "none", arg |-> 0, ret |-> 0]

Next ==
    \/ FdaInit
    \/ \E name \in Names : Open(name)
    \/ \E i \in Fds : Close(i)
    \/ \E i \in Fds, n \in ReadLens : Read(i, n)
    \/ \E i \in Fds, v \in RtcValues : Write(i, v)
    \/ HaltCloseFds
    \/ RtcReadDone
    \/ RtcInterrupt

\* The RTC interrupts periodically once rtc_init has enabled IRQ 8, and a
\* spinning rtc_read keeps the CPU, so it sees the count it waits for.
Spec == Init /\ [][Next]_vars /\ WF_vars(RtcInterrupt) /\ WF_vars(RtcReadDone)

----------------------------------------------------------------------------
(* Every descriptor a process can hold open above fd 1 can be closed: open *)
(* only marks an fd after binding it to the rtc, dir or file table, so     *)
(* halt's close loop never leaves an fd bound to a console table open.     *)
ClosableDescriptors ==
    \A i \in General : fd[i].flags => fd[i].fops \notin NoClose \cup {NULL}

(* A free descriptor has offset 0, so the next open of it reads from the   *)
(* start: close and fda_init reset it and open does not.                   *)
FreeDescriptorAtStart ==
    \A i \in General : ~fd[i].flags => fd[i].pos = 0

(* Spec 4.2: read advances a file's offset by the bytes read, so an open   *)
(* file's offset never passes the end of the file.                         *)
FileOffsetWithinFile ==
    \A i \in Fds : fd[i].flags /\ fd[i].fops = "file" =>
        fd[i].pos <= InodeLen[fd[i].inode]

(* rtc_read returns: once it has zeroed the count, rtc_handler counts the  *)
(* periodic interrupts until 1024 / virt_freq of them have arrived.        *)
RtcReadReturns == rtc_wait # NoWait ~> rtc_wait = NoWait

=============================================================================
