--------------------------- MODULE MCLibraryScan ---------------------------
(***************************************************************************)
(* LibraryScan for TLC.  Two files are enough to separate two chunks and to *)
(* rename one into the other, and they are interchangeable; two versions   *)
(* let a file change and be restored; two tokens let an interrupted scan   *)
(* be followed by one that completes and by any number that skip.          *)
(***************************************************************************)
EXTENDS LibraryScan, TLC

FileSymmetry == Permutations(Files)
=============================================================================
