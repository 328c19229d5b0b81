----------------------------- MODULE Directory -----------------------------
(***************************************************************************)
(* The directory of the boot block (filesysobjs.c): looking a name up, and *)
(* listing the names one read at a time.                                   *)
(***************************************************************************)
EXTENDS Naturals, Sequences, SequencesExt, FiniteSetsExt

CONSTANTS
    NAME_SIZE,   \* characters of a name in an entry (32)
    Dir          \* the entries: [name, file_type, inode_num]

(* File types.                                                              *)
RTC == 0
DIRECTORY == 1
STANDARD == 2

dentry_t == [name : Seq(STRING), file_type : {RTC, DIRECTORY, STANDARD}, inode_num : Nat]

ASSUME DirectoryAssumption ==
    /\ NAME_SIZE \in Nat \ {0}
    /\ Dir \in Seq(dentry_t)
    /\ \A i \in DOMAIN Dir : Len(Dir[i].name) \in 1 .. NAME_SIZE

NotFound == 0

(* strncmp(name of e, fname, strlen(fname)) = 0: the entry's name begins    *)
(* with what was asked for.                                                 *)
Matches(e, fname) == IsPrefix(fname, e.name)

(* read_dentry_by_name: the number of the first entry that matches.         *)
read_dentry_by_name(fname) ==
    LET found == {n \in DOMAIN Dir : Matches(Dir[n], fname)}
    IN  IF fname = <<>> \/ found = {} THEN NotFound ELSE Min(found)

(* read_dentry_by_index counts from 0.                                      *)
read_dentry_by_index(index) == IF index >= Len(Dir) THEN NotFound ELSE index + 1

(* strlen of the name field: the byte after a name of NAME_SIZE characters  *)
(* is the low byte of the file type.                                        *)
NameLength(e) ==
    IF Len(e.name) = NAME_SIZE /\ e.file_type # 0 THEN NAME_SIZE + 1 ELSE Len(e.name)

(* Mutant: the name is not clipped.                                         *)
Unclipped(e) == [count |-> NameLength(e), name |-> e.name]

(* What dir_read copies and returns for an entry.                           *)
Listed(e) ==
    [count |-> Min({NameLength(e), NAME_SIZE}), name |-> e.name]

=============================================================================
