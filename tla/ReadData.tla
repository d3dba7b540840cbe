------------------------------ MODULE ReadData ------------------------------
(***************************************************************************)
(* read_data(inode, offset, buf, length) of fs_module.c as an operator,    *)
(* checked against the reference meaning of a file read: the bytes from    *)
(* offset up to the end of the file, at most length of them.               *)
(*                                                                         *)
(* The source works on uint32 with 4096-byte blocks; the model keeps the   *)
(* same arithmetic with BlockSize and 2^Width scaled down (BlockSize      *)
(* divides 2^Width in both), so block indices, the clamp at end of file    *)
(* and the uint32 wrap of offset + length behave as in the source.         *)
(***************************************************************************)
EXTENDS Integers

CONSTANTS
    BlockSize,   \* bytes per data block (4096)
    Width,       \* bits of uint32_t (32)
    FileLens,    \* inode lengths of the files read
    Offsets,     \* offsets (file_position) passed in
    Lengths,     \* lengths (nbytes as uint32) passed in
    Crash        \* outcome of memcpy with a negative int length

ASSUME /\ BlockSize \in Nat \ {0}
       /\ (2^Width) % BlockSize = 0

Word == 2^Width
U(x) == x % Word          \* uint32_t arithmetic

\* The uint32_t bytes_copied returned as int32_t.
Signed(x) == IF x >= Word \div 2 THEN x - Word ELSE x

\* Mutant: the first block is copied from its start, not from offset.
RECURSIVE CopyBlocks_nostart(_, _, _, _, _, _, _)
CopyBlocks_nostart(i, first, last, offset, length, flen, copied) ==
    IF i > last THEN copied
    ELSE IF i = last /\ last * BlockSize > flen THEN copied
    ELSE LET end == IF i = last THEN U(offset + length) % BlockSize
                    ELSE BlockSize
         IN CopyBlocks_nostart(i + 1, first, last, offset, length, flen,
                               U(copied + end))

(***************************************************************************)
(* The block loop: for each block from first to last copy end - start      *)
(* bytes; the last block breaks out when it starts past the file's end.   *)
(* A negative length (int len) is a memcpy of (size_t)len: a crash.        *)
(***************************************************************************)
RECURSIVE CopyBlocks(_, _, _, _, _, _, _)
CopyBlocks(i, first, last, offset, length, flen, copied) ==
    IF i > last THEN copied
    ELSE IF i = last /\ last * BlockSize > flen THEN copied
    ELSE LET start == IF i = first THEN offset % BlockSize ELSE 0
             end   == IF i = last THEN U(offset + length) % BlockSize
                      ELSE BlockSize
         IN IF end - start < 0 THEN Crash
            ELSE CopyBlocks(i + 1, first, last, offset, length, flen,
                            U(copied + end - start))

\* read_data: first and last block are computed before the end-of-file clamp.
read_data(flen, offset, length) ==
    LET first   == offset \div BlockSize
        last    == U(offset + length) \div BlockSize
        clamped == IF U(offset + length) > flen THEN U(flen - offset)
                   ELSE length
        copied  == CopyBlocks(first, first, last, offset, clamped, flen, 0)
    IN IF offset >= flen THEN 0
       ELSE IF copied = Crash THEN Crash ELSE Signed(copied)

\* What a read of length bytes at offset returns for a file of flen bytes.
ReferenceRead(flen, offset, length) ==
    IF offset >= flen THEN 0
    ELSE IF length < flen - offset THEN length ELSE flen - offset

----------------------------------------------------------------------------
(* One read_data call per state: the inputs are fixed by Init.             *)
VARIABLES flen, offset, length

Init ==
    /\ flen \in FileLens
    /\ offset \in Offsets
    /\ length \in Lengths

Next == UNCHANGED << flen, offset, length >>

Spec == Init /\ [][Next]_<< flen, offset, length >>

(* A read that ends inside the file copies exactly length bytes from       *)
(* offset: the block loop's start and end offsets cover the range once.   *)
InFileReadExact ==
    offset + length <= flen =>
        read_data(flen, offset, length) = ReferenceRead(flen, offset, length)

(* read_data never hands memcpy a negative len: end_offset - start_offset *)
(* of every block it copies is at least 0, for every uint32 length         *)
(* syscall_read passes on, a negative int32 nbytes included.               *)
CopyLengthNonNegative == read_data(flen, offset, length) # Crash

=============================================================================
