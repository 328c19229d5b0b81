-------------------------- MODULE MCFileDescriptors --------------------------
(***************************************************************************)
(* Two slots, two terminals and two descriptors to open.  One name fills   *)
(* its field, one is the beginning of the name before it.  <<"r">> is the   *)
(* beginning of a name and no name itself.                                 *)
(***************************************************************************)
EXTENDS FileDescriptors

Symmetry == Permutations(Slot)

MCDir == <<[name |-> <<".">>,      file_type |-> DIRECTORY, inode_num |-> 0],
           [name |-> <<"f", "a">>, file_type |-> STANDARD,  inode_num |-> 1],
           [name |-> <<"f">>,      file_type |-> STANDARD,  inode_num |-> 2],
           [name |-> <<"r", "t">>, file_type |-> RTC,       inode_num |-> 0]>>
MCFileLength == (1 :> 1) @@ (2 :> 0)
MCNames == {Dir[i].name : i \in DOMAIN Dir}
              \cup {<<>>, <<"r">>, <<"f", "a", "a">>, STDIN_ID, STDOUT_ID}

=============================================================================
