----------------------------- MODULE MCRoutines ------------------------------
(* The kernel's pure routines and the keyboard and terminal input, each   *)
(* component in behaviours of its own (unit), so that the state space is  *)
(* the sum of theirs, not their product.                                  *)
(* Routines, one call per initial state:                                  *)
(* read_data with 4-byte blocks and 6-bit words: files of up to three     *)
(* blocks, every offset up to past the end, lengths up to past the end    *)
(* and the uint32 images of the negative nbytes -1 and -3.                *)
(* Dentry lookups with 2-character name fields and 3 dentries over two    *)
(* letters: full-length names, prefixes, overlong names, unused entries.  *)
(* Command lines of up to 6 characters with a 2-character name limit and  *)
(* a 2-character argument limit, so each limit is met and passed, each    *)
(* with a getargs of every nbytes from -1 to past ARGUMENT_SIZE.          *)
(* Keyboard: the handler from the idle state over every sequence of       *)
(* presses, releases and stray codes.                                      *)
(* Terminal: two terminals with 4-byte buffers, one letter, reads shorter *)
(* than a line and longer than the buffer.                                 *)
EXTENDS ReadData, Command, Keyboard, TLC

VARIABLES keyboard_buffer, keyboard_buffer_size, allow_terminal_read,
          display_terminal_id, reader, typed, last_read

T == INSTANCE Terminal WITH TerminalCount <- 2, MaxBuf <- 4, Letters <- {"a"},
                            ReadLens <- {1, 5}

VARIABLE unit   \* the component a behaviour exercises

MCFileLens == {0, 3, 4, 6, 9}
MCOffsets  == 0..10
MCLengths  == (0..12) \cup {2^Width - 1, 2^Width - 3}
MCChars == {"a", "b"}
GetargsLens == -1..(ArgSize + 1)

routinevars == << flen, offset, length, lookup_name, boot_block, command,
                  getargs_n >>
termvars == << keyboard_buffer, keyboard_buffer_size, allow_terminal_read,
              display_terminal_id, reader, typed, last_read >>
mcvars == << routinevars, kbvars, termvars, unit >>

\* The boot block of an empty directory, the input of the idle lookup.
EmptyBootBlock == [dir_entries |-> 0,
                   entries |-> [i \in 1..MaxFileCount |-> << >>]]

ReadIdle    == flen = 0 /\ offset = 0 /\ length = 0
LookupIdle  == lookup_name = << >> /\ boot_block = EmptyBootBlock
CommandIdle == command = << >> /\ getargs_n = 0

\* Each routine state is one call of one routine, the others idle.
RoutineInit ==
    \/ Init /\ LookupIdle /\ CommandIdle
    \/ /\ ReadIdle /\ CommandIdle
       /\ lookup_name \in LookupNames
       /\ boot_block \in BootBlocks
    \/ /\ ReadIdle /\ LookupIdle
       /\ command \in CommandsUpTo(NameMax + ArgMax + 2)
       /\ getargs_n \in GetargsLens

MCInit ==
    /\ KbInit
    /\ T!Init
    /\ \/ unit = "routine" /\ RoutineInit
       \/ unit \in {"keyboard", "terminal"} /\ ReadIdle /\ LookupIdle /\ CommandIdle

MCNext ==
    \/ unit = "routine" /\ UNCHANGED mcvars
    \/ unit = "keyboard" /\ KbNext /\ UNCHANGED << routinevars, termvars, unit >>
    \/ unit = "terminal" /\ T!Next /\ UNCHANGED << routinevars, kbvars, unit >>

\* Only invariants are checked here, so no fairness is needed.
MCSpec == MCInit /\ [][MCNext]_mcvars

(* Terminal's invariant: terminal_read never reads past keyboard_buffer,  *)
(* whatever nbytes is: terminal_buf_add stops two short of                 *)
(* KEYBOARD_MAX_BUFFER, so a '\0' always ends the copy loop inside it.      *)
ReadStaysInBuffer == T!ReadStaysInBuffer

\* Terminal's type invariant: buffers, sizes, flags, the reader.
TermTypeOK == T!TypeOK

=============================================================================
