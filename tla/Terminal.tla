------------------------------ MODULE Terminal ------------------------------
(***************************************************************************)
(* The keyboard line discipline of keyboard.c: per-terminal input buffers  *)
(* filled by the keyboard interrupt (terminal_buf_add, terminal_backspace) *)
(* on the displayed terminal, and terminal_read, the read of fd 0, which   *)
(* spins until the displayed terminal's line is submitted and then copies  *)
(* and clears it with interrupts off.                                      *)
(*                                                                         *)
(* typed is a ghost: the line the user sees on each terminal's screen,    *)
(* which is what a read of that terminal's buffer should return.  Which   *)
(* process is on the CPU is Kernel's concern; here it is one reader.      *)
(***************************************************************************)
EXTENDS Integers, Sequences, FiniteSetsExt

CONSTANTS
    TerminalCount,  \* TERMINAL_COUNT (3)
    MaxBuf,         \* KEYBOARD_MAX_BUFFER (128)
    Letters,        \* printable characters a key press may produce
    NL,             \* '\n' (Enter)
    NUL,            \* '\0'
    ReadLens        \* nbytes passed to read(0, buf, nbytes)

ASSUME /\ MaxBuf >= 3
       /\ NL \notin Letters /\ NUL \notin Letters \cup {NL}

Terms == 0..(TerminalCount - 1)
Chars == Letters \cup {NL}
Idx   == 0..(MaxBuf - 1)

VARIABLES
    keyboard_buffer,      \* terminal[t].keyboard_buffer
    keyboard_buffer_size, \* terminal[t].keyboard_buffer_size
    allow_terminal_read,  \* terminal[t].allow_terminal_read
    display_terminal_id,  \* display_terminal_id
    reader,               \* the running process's read: phase, nbytes
    typed,                \* the line shown on each terminal (ghost)
    last_read             \* bytes the last read returned and should have (ghost)

vars == << keyboard_buffer, keyboard_buffer_size, allow_terminal_read,
           display_terminal_id, reader, typed, last_read >>

TypeOK ==
    /\ keyboard_buffer \in [Terms -> [Idx -> Chars \cup {NUL}]]
    /\ keyboard_buffer_size \in [Terms -> 0..(MaxBuf - 2)]
    /\ allow_terminal_read \in [Terms -> BOOLEAN]
    /\ display_terminal_id \in Terms
    /\ reader \in [phase : {"idle", "spin", "copy"}, n : ReadLens \cup {0}]
    /\ \A t \in Terms : typed[t] \in Seq(Chars) /\ Len(typed[t]) <= MaxBuf
    /\ last_read.overrun \in BOOLEAN

\* The first n characters of a line.
Prefix(s, n) == SubSeq(s, 1, IF n < Len(s) THEN n ELSE Len(s))

----------------------------------------------------------------------------
(***************************************************************************)
(* keyboard_handler, per key: a printable character or Enter goes to      *)
(* terminal_buf_add on the displayed terminal; 0x0E to terminal_backspace; *)
(* Alt+F1..F3 to switch_display_terminal.  Modifier, release and unmapped  *)
(* scan codes change no buffer and are left out.                           *)
(***************************************************************************)
\* Mutant: the bound is the array size, not KEYBOARD_MAX_BUFFER - 2.
Full_nomargin(t) == keyboard_buffer_size[t] >= MaxBuf

\* terminal_buf_add's early return.
Full(t) == keyboard_buffer_size[t] >= MaxBuf - 2

\* terminal_buf_add(c): store at size, count it, and Enter submits the line.
terminal_buf_add(c) ==
    LET t == display_terminal_id
        s == keyboard_buffer_size[t]
    IN /\ ~Full(t)
       /\ keyboard_buffer' = [keyboard_buffer EXCEPT ![t][s] = c]
       /\ keyboard_buffer_size' = [keyboard_buffer_size EXCEPT ![t] = s + 1]
       /\ allow_terminal_read' = IF c = NL
                                 THEN [allow_terminal_read EXCEPT ![t] = TRUE]
                                 ELSE allow_terminal_read
       /\ typed' = [typed EXCEPT ![t] = Append(@, c)]

\* A key press that reaches terminal_buf_add; on a full buffer it is lost.
KeyChar(c) ==
    /\ terminal_buf_add(c)
    /\ UNCHANGED << display_terminal_id, reader, last_read >>

\* Mutant: terminal_backspace without its size == 0 early return.
KeyBackspace_noguard ==
    LET t == display_terminal_id
        s == keyboard_buffer_size[t]
    IN /\ keyboard_buffer' = [keyboard_buffer EXCEPT ![t][s] = NUL]
       /\ keyboard_buffer_size' = [keyboard_buffer_size EXCEPT ![t] = s - 1]
       /\ typed' = [typed EXCEPT ![t] = SubSeq(@, 1, Len(@) - 1)]
       /\ UNCHANGED << allow_terminal_read, display_terminal_id, reader,
                       last_read >>

\* terminal_backspace: erase the last character on screen, clear the slot
\* at size and count one fewer.
KeyBackspace ==
    LET t == display_terminal_id
        s == keyboard_buffer_size[t]
    IN /\ s > 0
       /\ keyboard_buffer' = [keyboard_buffer EXCEPT ![t][s] = NUL]
       /\ keyboard_buffer_size' = [keyboard_buffer_size EXCEPT ![t] = s - 1]
       /\ typed' = [typed EXCEPT ![t] = SubSeq(@, 1, Len(@) - 1)]
       /\ UNCHANGED << allow_terminal_read, display_terminal_id, reader,
                       last_read >>

\* Alt+F(t+1): switch_display_terminal changes the displayed terminal; the
\* input buffers stay with their terminals.
KeySwitch(t) ==
    /\ t # display_terminal_id
    /\ display_terminal_id' = t
    /\ UNCHANGED << keyboard_buffer, keyboard_buffer_size,
                    allow_terminal_read, reader, typed, last_read >>

----------------------------------------------------------------------------
\* The running process calls read(0, buf, n): terminal_read starts.
ReadStart(n) ==
    /\ reader.phase = "idle"
    /\ reader' = [phase |-> "spin", n |-> n]
    /\ UNCHANGED << keyboard_buffer, keyboard_buffer_size, allow_terminal_read,
                    display_terminal_id, typed, last_read >>

\* while (!terminal[display_terminal_id].allow_terminal_read); ends.  The
\* keyboard interrupt may still fire before the cli() that follows.
ReadSpin ==
    /\ reader.phase = "spin"
    /\ allow_terminal_read[display_terminal_id]
    /\ reader' = [reader EXCEPT !.phase = "copy"]
    /\ UNCHANGED << keyboard_buffer, keyboard_buffer_size, allow_terminal_read,
                    display_terminal_id, typed, last_read >>

(***************************************************************************)
(* The copy loop under cli(): for i < nbytes copy keyboard_buffer[i] and  *)
(* clear it, stopping after the first '\0'; then size := 0 and allow := 0 *)
(* on the displayed terminal.  With no '\0' in the array and nbytes past  *)
(* its end the loop reads past keyboard_buffer (overrun).                 *)
(***************************************************************************)
FirstNul(b) == LET z == {i \in Idx : b[i] = NUL}
               IN IF z = {} THEN MaxBuf ELSE Min(z)

ReadCopy ==
    LET t    == display_terminal_id
        b    == keyboard_buffer[t]
        n    == reader.n
        stop == FirstNul(b)
        cnt  == IF n <= stop THEN n ELSE stop
    IN /\ reader.phase = "copy"
       /\ keyboard_buffer' = [keyboard_buffer EXCEPT ![t] =
                                [i \in Idx |-> IF i < n /\ i <= stop THEN NUL
                                               ELSE b[i]]]
       /\ keyboard_buffer_size' = [keyboard_buffer_size EXCEPT ![t] = 0]
       /\ allow_terminal_read' = [allow_terminal_read EXCEPT ![t] = FALSE]
       /\ typed' = [typed EXCEPT ![t] = << >>]
       /\ last_read' = [got |-> [i \in 1..cnt |-> b[i - 1]],
                        want |-> Prefix(typed[t], n),
                        overrun |-> stop = MaxBuf /\ n > MaxBuf]
       /\ reader' = [phase |-> "idle", n |-> 0]
       /\ UNCHANGED display_terminal_id

----------------------------------------------------------------------------
\* The buffers are zeroed (bss); terminal_open is never called.
Init ==
    /\ keyboard_buffer = [t \in Terms |-> [i \in Idx |-> NUL]]
    /\ keyboard_buffer_size = [t \in Terms |-> 0]
    /\ allow_terminal_read = [t \in Terms |-> FALSE]
    /\ display_terminal_id = 0
    /\ reader = [phase |-> "idle", n |-> 0]
    /\ typed = [t \in Terms |-> << >>]
    /\ last_read = [got |-> << >>, want |-> << >>, overrun |-> FALSE]

Next ==
    \/ \E c \in Chars : KeyChar(c)
    \/ KeyBackspace
    \/ \E t \in Terms : KeySwitch(t)
    \/ \E n \in ReadLens : ReadStart(n)
    \/ ReadSpin
    \/ ReadCopy

\* The reading process runs whenever the keyboard is idle.
Spec == Init /\ [][Next]_vars /\ WF_vars(ReadSpin) /\ WF_vars(ReadCopy)

----------------------------------------------------------------------------
(* terminal_read never reads past keyboard_buffer, whatever nbytes is:     *)
(* terminal_buf_add stops two short of KEYBOARD_MAX_BUFFER, so a '\0'      *)
(* always ends the copy loop inside the array.                             *)
ReadStaysInBuffer == ~last_read.overrun

(* A read of fd 0 returns the line shown on the terminal it reads, at most *)
(* nbytes of it: what was typed there since the last read, without the    *)
(* characters erased by backspace and without bytes of earlier lines.     *)
ReadReturnsTypedLine == last_read.got = last_read.want

====
