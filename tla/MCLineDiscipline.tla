-------------------------- MODULE MCLineDiscipline --------------------------
EXTENDS LineDiscipline, TLC

Careful == {}
FullLines == {"full_line"}
MidLine == {"switch_mid_line"}
AnyTime == {"type_ahead", "switch_mid_line"}

(* The letters are interchangeable. *)
LetterSymmetry == Permutations(Letters)

=============================================================================
