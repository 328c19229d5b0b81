----------------------------- MODULE OpenFiles -----------------------------
(***************************************************************************)
(* What the system calls promise a program about its open files: they are  *)
(* its own, a program starts with exactly stdin and stdout, open adds one  *)
(* that was not there, at its beginning, close takes one away, a read only *)
(* moves its own position forward, and nothing outlives the program.       *)
(***************************************************************************)
EXTENDS Naturals

CONSTANTS
    Process,
    Descriptor,
    Stream,      \* what can be opened
    Terminal     \* what stdin and stdout stand for

VARIABLES
    alive,       \* the programs that have started and not ended
    files        \* files[p]: from descriptors to streams and positions

StdFiles == [fd \in {0, 1} |-> [stream |-> Terminal, pos |-> 0]]
Nothing  == [fd \in {} |-> 0]

Init ==
    /\ alive = {}
    /\ files = [p \in Process |-> Nothing]

Begin(p) ==
    /\ p \notin alive
    /\ alive' = alive \cup {p}
    /\ files' = [files EXCEPT ![p] = StdFiles]

(* A first shell that ends is at once replaced by a new one.                *)
End(p) ==
    \/ alive' = alive \ {p} /\ files' = [files EXCEPT ![p] = Nothing]
    \/ alive' = alive       /\ files' = [files EXCEPT ![p] = StdFiles]

(* What is opened, and at which descriptor, is not said.                    *)
Open(p) == \E fd \in Descriptor \ DOMAIN files[p] :
    /\ DOMAIN files'[p] = DOMAIN files[p] \cup {fd}
    /\ files'[p][fd].stream \in Stream /\ files'[p][fd].pos = 0
    /\ files' = [files EXCEPT ![p] =
           [d \in DOMAIN @ \cup {fd} |-> IF d = fd THEN files'[p][fd] ELSE @[d]]]
    /\ UNCHANGED alive

Close(p) == \E fd \in DOMAIN files[p] \ {0, 1} :
    /\ files' = [files EXCEPT ![p] = [d \in DOMAIN @ \ {fd} |-> @[d]]]
    /\ UNCHANGED alive

(* The new position is any that is no smaller.                              *)
Read(p) ==
    /\ DOMAIN files'[p] = DOMAIN files[p]
    /\ \E fd \in DOMAIN files[p] :
          /\ files'[p][fd].pos >= files[p][fd].pos
          /\ files' = [files EXCEPT ![p][fd].pos = files'[p][fd].pos]
    /\ UNCHANGED alive

Next == \E p \in Process :
    \/ Begin(p)
    \/ p \in alive /\ (End(p) \/ Open(p) \/ Close(p) \/ Read(p))

Spec == Init /\ [][Next]_<<alive, files>>

=============================================================================
