------------------------------ MODULE Keyboard ------------------------------
(***************************************************************************)
(* The scan-code decoding of keyboard_handler (keyboard.c): the key-down  *)
(* column scan_codes[k][3] it keeps for every key, the CapsLock toggle,    *)
(* the choice of a row's character by Shift and CapsLock, and the dispatch *)
(* to clear_screen (Ctrl+L), terminal_backspace, switch_display_terminal   *)
(* (Alt+F1..F3) or terminal_buf_add.  What those calls do is modelled in   *)
(* Terminal.tla and Kernel.tla; here the call made is a ghost.            *)
(*                                                                         *)
(* The keys are the rows of scan_codes that matter to the modifiers and   *)
(* commands, and two letters.  F3's code 0x3D indexes row 61 of a table  *)
(* of rows 0..60: the model gives that byte past the array its own cell,  *)
(* which holds only as long as nothing else in memory writes it.          *)
(***************************************************************************)
EXTENDS Integers, FiniteSets

\* keyboard.h: the scan codes the handler tests by name.
leftshift      == 42    \* 0x2A
rightshift     == 54    \* 0x36
leftCtrl       == 29    \* 0x1D
leftAlt        == 56    \* 0x38
CapsLock       == 58    \* 0x3A
function1_key  == 59    \* 0x3B
function2_key  == 60    \* 0x3C
function3_key  == 61    \* 0x3D
press_release_offset == 128   \* 0x80
Backspace      == 14    \* 0x0E
KeyA           == 30    \* 0x1E, 'a'
KeyL           == 38    \* 0x26, 'l'

\* The rows of scan_codes modelled: { lowercase, Shift, CapsLock } of each.
NoChar == "nul"
ScanTable ==
    [k \in {leftshift, rightshift, leftCtrl, leftAlt, CapsLock,
            function1_key, function2_key, function3_key, Backspace, KeyA, KeyL} |->
        CASE k = KeyA -> << "a", "A", "A" >>
          [] k = KeyL -> << "l", "L", "L" >>
          [] OTHER    -> << NoChar, NoChar, NoChar >>]

Keys == DOMAIN ScanTable

\* The codes the controller sends: a press, its release (press + 0x80),
\* and codes outside the table's range, which the handler ignores.
Releases == {k + press_release_offset : k \in Keys}
Junk     == {80, 190}   \* 0x50, 0xBE

VARIABLES
    down,        \* scan_codes[k][3] for each modelled key
    held,        \* the keys physically held down (ghost)
    last_code,   \* the code of the latest interrupt (ghost)
    dispatched   \* the call the latest interrupt made (ghost)

kbvars == << down, held, last_code, dispatched >>

Call(op, arg) == [op |-> op, arg |-> arg]
NoCall == Call("none", NoChar)

KbInit ==
    /\ down = [k \in Keys |-> 0]
    /\ held = {}
    /\ last_code = 0
    /\ dispatched = NoCall

\* Mutant: one code too few is accepted at the top of the release range.
InRange_offbyone(code) == ~(code > 188) /\ ~(code > 61 /\ code < 129)

\* The two range checks: codes above 0xBD and between 0x3D and 0x81 are
\* acknowledged and nothing else.
InRange(code) == ~(code > 189) /\ ~(code > 61 /\ code < 129)

\* Record a press (code <= F3) or a release, except CapsLock's (0xBA).
Record(d, code) ==
    IF code <= function3_key THEN [d EXCEPT ![code] = 1]
    ELSE IF code # CapsLock + press_release_offset
         THEN [d EXCEPT ![code - press_release_offset] = 0]
    ELSE d

\* After the record, a CapsLock press flips its cell.
Toggle(d, code) ==
    IF code = CapsLock THEN [d EXCEPT ![CapsLock] = 1 - @] ELSE d

ShiftOn(d) == d[leftshift] = 1 \/ d[rightshift] = 1

\* The character of a press up to CapsLock: the Shift column with CapsLock
\* off, the CapsLock column with it on, and with both the lowercase of a
\* letter (a row whose Shift and CapsLock columns agree).
CharOf(d, code) ==
    IF code > CapsLock THEN NoChar
    ELSE LET row == IF code \in Keys THEN ScanTable[code] ELSE << NoChar, NoChar, NoChar >>
         IN IF d[CapsLock] = 0
            THEN IF ShiftOn(d) THEN row[2] ELSE row[1]
            ELSE IF ShiftOn(d)
                 THEN IF row[2] = row[3] THEN row[1] ELSE row[2]
                 ELSE row[3]

\* The if/else-if chain after the character is chosen.
Dispatch(d, code, c) ==
    CASE d[leftCtrl] = 1 /\ d[KeyL] = 1              -> Call("clear", NoChar)
      [] code = Backspace                            -> Call("backspace", NoChar)
      [] d[leftAlt] = 1 /\ d[function1_key] = 1      -> Call("switch", 0)
      [] d[leftAlt] = 1 /\ d[function2_key] = 1      -> Call("switch", 1)
      [] d[leftAlt] = 1 /\ d[function3_key] = 1      -> Call("switch", 2)
      [] c # NoChar                                     -> Call("add", c)
      [] OTHER                                       -> NoCall

(***************************************************************************)
(* keyboard_handler for one code: out-of-range codes only get their EOI;  *)
(* otherwise the press or release is recorded, CapsLock toggled, the      *)
(* character chosen from the updated table and one call dispatched.      *)
(***************************************************************************)
keyboard_handler(code) ==
    /\ last_code' = code
    /\ IF ~InRange(code)
       THEN /\ dispatched' = NoCall
            /\ UNCHANGED down
       ELSE LET d == Toggle(Record(down, code), code)
            IN /\ down' = d
               /\ dispatched' = Dispatch(d, code, CharOf(d, code))

\* The keyboard: any key may be pressed (again, by typematic repeat), a
\* held key released, or a stray code sent.
Press(k)   == /\ held' = held \cup {k}
              /\ keyboard_handler(k)
Release(k) == /\ k \in held
              /\ held' = held \ {k}
              /\ keyboard_handler(k + press_release_offset)
Stray(code) == /\ UNCHANGED held
               /\ keyboard_handler(code)

KbNext ==
    \/ \E k \in Keys : Press(k)
    \/ \E k \in Keys : Release(k)
    \/ \E code \in Junk : Stray(code)

----------------------------------------------------------------------------
(***************************************************************************)
(* The key-down table agrees with the keys the user holds, for every key   *)
(* but CapsLock (whose cell is a toggle): every release, F3's among them,  *)
(* is within the accepted range and clears the row its press set.         *)
(***************************************************************************)
KeyDownMatchesHeld ==
    \A k \in Keys \ {CapsLock} : down[k] = 1 <=> k \in held

=============================================================================
