------------------------------ MODULE MCFdTable ------------------------------
(* One slot's descriptor table with two general descriptors (fds 2, 3)    *)
(* over a file system of the rtc, the directory and a file shorter than a *)
(* block, with 4-byte blocks and 8-bit words.                             *)
EXTENDS FdTable, TLC

CONSTANTS Rtc, Dot, Frame, Missing

MCNames    == {StdinName, StdoutName, Rtc, Dot, Frame, Missing}
MCDentry   == (Rtc :> [type |-> 0, inode |-> 0]) @@
              (Dot :> [type |-> 1, inode |-> 0]) @@
              (Frame :> [type |-> 2, inode |-> 1])
MCInodeLen == (0 :> 0) @@ (1 :> 3)
MCReadLens == {4}
MCRtcValues == {3, 8}
=============================================================================
