----------------------------- MODULE MCFileRead -----------------------------
EXTENDS FileRead, TLC

(* A file of three blocks that lie apart and out of order; the word after   *)
(* the inode is somebody else's.                                            *)
Scattered == (0 :> 4) @@ (1 :> 1) @@ (2 :> 3) @@ (3 :> 9)

=============================================================================
