------------------------------- MODULE Dentry -------------------------------
(***************************************************************************)
(* read_dentry_by_name and read_dentry_by_index of fs_module.c as          *)
(* operators over the boot block, checked against the meaning of a lookup  *)
(* by name: the first directory entry whose name is fname.                 *)
(*                                                                         *)
(* A name is a C string: the sequence of its characters, NUL after the     *)
(* last.  A dentry's name field holds MaxFilename characters, NUL-padded, *)
(* with no NUL when the name fills it.  Entries past dir_entries are all   *)
(* zero in the image, so their names are empty.  MAX_FILENAME (32) and     *)
(* MAX_FILECOUNT (63) are scaled down.                                     *)
(***************************************************************************)
EXTENDS Integers, Sequences

CONSTANTS
    MaxFilename,   \* MAX_FILENAME: bytes of dentry_t.name (32)
    MaxFileCount,  \* MAX_FILECOUNT: dentries in the boot block (63)
    Chars,         \* the non-NUL characters of names
    NUL            \* the byte 0

\* Character i (from 0) of a NUL-terminated or NUL-padded name.
CharAt(s, i) == IF i < Len(s) THEN s[i + 1] ELSE NUL

(***************************************************************************)
(* strncmp(a, b, n) = 0: the first n characters agree, or they agree up to *)
(* a NUL that both have.                                                   *)
(***************************************************************************)
RECURSIVE StrNEqFrom(_, _, _, _)
StrNEqFrom(a, b, n, i) ==
    IF i >= n THEN TRUE
    ELSE IF CharAt(a, i) # CharAt(b, i) THEN FALSE
    ELSE IF CharAt(a, i) = NUL THEN TRUE
    ELSE StrNEqFrom(a, b, n, i + 1)

strncmp_eq(a, b, n) == StrNEqFrom(a, b, n, 0)

\* Names of 1..k characters.
NamesUpTo(k) == UNION {[1..n -> Chars] : n \in 1..k}

\* boot_block_t: dir_entries and the MAX_FILECOUNT dentry names, the ones
\* from dir_entries on zeroed; the names in use are distinct.
BootBlocks ==
    UNION { { [dir_entries |-> n,
               entries |-> [i \in 1..MaxFileCount |->
                               IF i <= n THEN e[i] ELSE << >>]] :
              e \in {f \in [1..n -> NamesUpTo(MaxFilename)] :
                        \A i, j \in 1..n : i # j => f[i] # f[j]} } :
            n \in 0..MaxFileCount }

\* Mutant: the length is not grown to take in the terminating NUL.
RECURSIVE Scan_noterm(_, _, _, _)
Scan_noterm(fname, bb, len, i) ==
    IF i >= MaxFileCount THEN -1
    ELSE IF strncmp_eq(fname, bb.entries[i + 1], len) THEN i
    ELSE Scan_noterm(fname, bb, len, i + 1)

(***************************************************************************)
(* The loop over all MAX_FILECOUNT entries (not dir_entries): before each  *)
(* comparison fname_length grows by one, up to MAX_FILENAME, so that the   *)
(* NUL of fname is compared as well.  The first match is copied out.      *)
(***************************************************************************)
RECURSIVE Scan(_, _, _, _)
Scan(fname, bb, len, i) ==
    IF i >= MaxFileCount THEN -1
    ELSE LET len2 == IF len < MaxFilename THEN len + 1 ELSE len
         IN IF strncmp_eq(fname, bb.entries[i + 1], len2) THEN i
            ELSE Scan(fname, bb, len2, i + 1)

\* The index of the dentry copied out, or -1.
read_dentry_by_name(fname, bb) ==
    IF Len(fname) > MaxFilename THEN -1
    ELSE Scan(fname, bb, Len(fname), 0)

\* The index of the dentry copied out, or -1 past dir_entries.
read_dentry_by_index(index, bb) ==
    IF index >= bb.dir_entries THEN -1 ELSE index

\* The first entry read_dentry_by_index gives whose name is fname, or -1.
ReferenceLookup(fname, bb) ==
    LET hits == {i \in 0..(MaxFileCount - 1) :
                    /\ read_dentry_by_index(i, bb) # -1
                    /\ bb.entries[i + 1] = fname}
    IN IF hits = {} THEN -1
       ELSE CHOOSE i \in hits : \A j \in hits : i <= j

----------------------------------------------------------------------------
(* One lookup per state: the name passed and the boot block it is looked  *)
(* up in.                                                                  *)
VARIABLES lookup_name, boot_block

\* The names a lookup is asked for: up to one character past MAX_FILENAME.
LookupNames == NamesUpTo(MaxFilename + 1)

(***************************************************************************)
(* read_dentry_by_name finds exactly the file named lookup_name, for every *)
(* non-empty name (syscall_open and execute never pass an empty one): a    *)
(* prefix of a longer name, a longer name than one in the directory, a     *)
(* name that fills the field without a NUL, a name past MAX_FILENAME and   *)
(* the zeroed entries past dir_entries all behave as a lookup should.      *)
(***************************************************************************)
DentryLookupExact ==
    lookup_name # << >> =>
        read_dentry_by_name(lookup_name, boot_block)
            = ReferenceLookup(lookup_name, boot_block)

=============================================================================
