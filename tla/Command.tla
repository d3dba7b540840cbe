------------------------------ MODULE Command ------------------------------
(***************************************************************************)
(* The parse at the head of syscall_execute: leading spaces, the program   *)
(* name (at most TASKNAME_SIZE - 1 characters, longer is an error), the    *)
(* spaces after it, and the argument (at most ARGUMENT_SIZE - 1, longer is *)
(* cut), each loop stopping at '\n' or the NUL of the command.  Checked    *)
(* against the parse of a command line as the specification states it.    *)
(***************************************************************************)
EXTENDS Dentry

CONSTANTS
    NameMax,   \* TASKNAME_SIZE - 1 (32)
    ArgMax,    \* ARGUMENT_SIZE - 1 (128)
    SP,        \* ' '
    NL         \* '\n'

\* What execute does with the command: fail, return 0 at once, or go on to
\* load the program name with argument arg.
Failed   == [ret |-> -1]
Blank    == [ret |-> 0]
Load(name, arg) == [ret |-> 1, name |-> name, arg |-> arg]

\* while (command[i] == SPACE_CHAR) i++;
RECURSIVE SkipSpaces(_, _)
SkipSpaces(c, i) == IF CharAt(c, i) = SP THEN SkipSpaces(c, i + 1) ELSE i

\* The end of a copy loop from i: it stops at a character in stop, at NUL,
\* or after max characters.
RECURSIVE CopyEnd(_, _, _, _)
CopyEnd(c, i, stop, max) ==
    IF CharAt(c, i) \in stop \cup {NUL} \/ max = 0 THEN i
    ELSE CopyEnd(c, i + 1, stop, max - 1)

\* Characters i .. e - 1 of c.
Chunk(c, i, e) == [k \in 1..(e - i) |-> c[i + k]]

\* The blank check: no character of the name other than a space.
IsBlank(name) == \A k \in DOMAIN name : name[k] = SP

\* Mutant: a name that fills task_name is accepted whatever follows it.
ParseCommand_nooverflow(c) ==
    LET i0 == SkipSpaces(c, 0)
        i1 == CopyEnd(c, i0, {SP, NL}, NameMax)
        i2 == SkipSpaces(c, i1)
        i3 == CopyEnd(c, i2, {NL}, ArgMax)
    IN IF IsBlank(Chunk(c, i0, i1)) THEN Blank
       ELSE Load(Chunk(c, i0, i1), Chunk(c, i2, i3))

(***************************************************************************)
(* syscall_execute's parse.  The name loop stops at a space, '\n', NUL or  *)
(* after NameMax characters; if it stopped on the limit with the next     *)
(* character none of those, execute fails.  The space loop after the name *)
(* stops at '\n' and NUL too, and the argument loop at '\n', NUL or        *)
(* ArgMax characters.  A blank name returns 0 before any file check.       *)
(***************************************************************************)
ParseCommand(c) ==
    LET i0 == SkipSpaces(c, 0)
        i1 == CopyEnd(c, i0, {SP, NL}, NameMax)
        i2 == SkipSpaces(c, i1)
        i3 == CopyEnd(c, i2, {NL}, ArgMax)
    IN IF i1 - i0 = NameMax /\ CharAt(c, i1) \notin {NL, SP, NUL} THEN Failed
       ELSE IF IsBlank(Chunk(c, i0, i1)) THEN Blank
       ELSE Load(Chunk(c, i0, i1), Chunk(c, i2, i3))

----------------------------------------------------------------------------
(***************************************************************************)
(* The command line as the specification reads it: the line ends at the  *)
(* first '\n'; after leading whitespace the program token runs to the     *)
(* next space; a token over the name limit is an error, an empty one       *)
(* spawns nothing; the rest after its spaces is the one argument, cut to   *)
(* the argument limit.                                                     *)
(***************************************************************************)
LineOf(c) ==
    IF \E k \in DOMAIN c : c[k] = NL
    THEN SubSeq(c, 1, (CHOOSE k \in DOMAIN c : c[k] = NL /\
                          \A m \in 1..(k - 1) : c[m] # NL) - 1)
    ELSE c

\* The length of the longest prefix of s with no character in bad.
PrefixLen(s, bad) ==
    CHOOSE n \in 0..Len(s) : (\A k \in 1..n : s[k] \notin bad) /\
                             (n = Len(s) \/ s[n + 1] \in bad)

DropSpaces(s) == SubSeq(s, PrefixLen(s, Chars \cup {NL}) + 1, Len(s))

SpecParse(c) ==
    LET rest1 == DropSpaces(LineOf(c))
        token == SubSeq(rest1, 1, PrefixLen(rest1, {SP}))
        rest2 == DropSpaces(SubSeq(rest1, Len(token) + 1, Len(rest1)))
    IN IF Len(token) > NameMax THEN Failed
       ELSE IF token = << >> THEN Blank
       ELSE Load(token, SubSeq(rest2, 1, IF Len(rest2) > ArgMax THEN ArgMax
                                          ELSE Len(rest2)))

\* Command lines of up to k characters.
CommandsUpTo(k) == UNION {[1..n -> Chars \cup {SP, NL}] : n \in 0..k}

----------------------------------------------------------------------------
(* One execute per state: the command line passed.                         *)
VARIABLE command

(***************************************************************************)
(* execute takes from every command line the program name and argument    *)
(* the specification gives it, fails exactly on a name over the limit and *)
(* spawns nothing for an all-space line: leading and inner spaces, a name *)
(* that fills task_name exactly, an argument cut at ARGUMENT_SIZE - 1 and  *)
(* a '\n' anywhere in the line.                                            *)
(***************************************************************************)
ExecuteParseMatchesSpec == ParseCommand(command) = SpecParse(command)

----------------------------------------------------------------------------
(***************************************************************************)
(* syscall_getargs(buf, nbytes) on the argument execute stored in the PCB. *)
(* argument_buf holds the argument, its NUL, then whatever the rest of    *)
(* execute's uninitialised local argument[] held; those bytes come after  *)
(* the NUL and never change the string the caller reads, so the result is *)
(* that string, or Unterminated when no NUL lies within the bytes copied.  *)
(***************************************************************************)
ArgSize == ArgMax + 1    \* ARGUMENT_SIZE

GetargsFail      == [ret |-> -1]
GetargsFault     == [died |-> 256]   \* the page fault kills the caller
GetargsOk(str)   == [ret |-> 0, str |-> str]
Unterminated     == "unterminated"

\* strlen(argument_buf) > nbytes: the int32_t nbytes is converted to the
\* unsigned size_t, so a negative nbytes is above every length.
StrlenExceeds(len, n) == n >= 0 /\ len > n

\* The C string read from the first k bytes of argument_buf.
CopiedString(arg, k) == IF Len(arg) < k THEN arg ELSE Unterminated

(***************************************************************************)
(* The two checks, then memset(buf, 0, nbytes): for a negative nbytes that *)
(* is a write of about 4GB from buf, which faults.  memcpy copies nbytes   *)
(* bytes, or ARGUMENT_SIZE when nbytes is larger.                          *)
(***************************************************************************)
syscall_getargs(arg, n) ==
    IF StrlenExceeds(Len(arg), n) THEN GetargsFail
    ELSE IF arg = << >> THEN GetargsFail
    ELSE IF n < 0 THEN GetargsFault
    ELSE GetargsOk(CopiedString(arg, IF n > ArgSize THEN ArgSize ELSE n))

\* get_arguments as the specification states it: it fails when there is no
\* argument or the argument with its terminator does not fit in n bytes,
\* and otherwise the caller's buffer holds the argument string.
SpecGetargs(arg, n) ==
    IF arg = << >> \/ Len(arg) + 1 > n THEN GetargsFail ELSE GetargsOk(arg)

\* The nbytes of the getargs call made by the program command started.
VARIABLE getargs_n

(***************************************************************************)
(* A program started by execute reads back with getargs the argument the  *)
(* specification gives it, or getargs fails as the specification says:    *)
(* nbytes exactly the argument's length, no room for the NUL, and a       *)
(* negative nbytes are the cases at the edge.                              *)
(***************************************************************************)
GetargsMatchesSpec ==
    LET p == ParseCommand(command)
    IN p.ret = 1 => syscall_getargs(p.arg, getargs_n) = SpecGetargs(p.arg, getargs_n)

=============================================================================
