----------------------------- MODULE MCDisplay -----------------------------
(***************************************************************************)
(* Two terminals, a screen of two rows and three columns, one cell of      *)
(* slack behind it.                                                        *)
(***************************************************************************)
EXTENDS Display, TLC

MCPages == 0 .. NUM_TERMS
Symmetry == Permutations(Slot)

=============================================================================
