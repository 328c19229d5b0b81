--------------------------- MODULE MCCommandLine ---------------------------
(***************************************************************************)
(* Three slots, two terminals, and every line of up to four characters of  *)
(* a program's name, a data file's name and the space.                     *)
(***************************************************************************)
EXTENDS CommandLine

Symmetry == Permutations(Slot)

MCAscii == (NUL :> 0) @@ (SPACE :> 32) @@ ("c" :> 99) @@ ("t" :> 116) @@ ("s" :> 115)
MCDir == <<[name |-> <<"c">>, file_type |-> STANDARD, inode_num |-> 1],
           [name |-> <<"t">>, file_type |-> STANDARD, inode_num |-> 2],
           [name |-> <<"s">>, file_type |-> STANDARD, inode_num |-> 3]>>
MCShellName == <<"s">>
MCExitLine == <<"e">>
MCLines == BoundedSeq({"c", "t", SPACE}, 4) \cup {<<"s">>, MCExitLine}

=============================================================================
