----------------------------- MODULE FileStream -----------------------------
(***************************************************************************)
(* What an open file promises a program: its reads return, one after the   *)
(* other, the bytes of the file from the first to the last, each read as   *)
(* many as it asks for while there are that many.                          *)
(***************************************************************************)
EXTENDS Integers

CONSTANTS
    Length,       \* bytes in the file
    Byte(_),      \* byte k of the file, k from 0
    MaxRequest    \* the most bytes a read asks for

VARIABLE stream   \* the bytes read since the file was opened

Prefix(n) == [k \in 0 .. n - 1 |-> Byte(k)]

Init == stream = Prefix(0)

Reopen == stream' = Prefix(0)

(* A read of n bytes when m have been read already.                         *)
Read == \E m \in 0 .. Length, n \in 0 .. MaxRequest :
    /\ stream = Prefix(m)
    /\ stream' = Prefix(IF m + n < Length THEN m + n ELSE Length)

Next == Reopen \/ Read

Spec == Init /\ [][Next]_stream

=============================================================================
