----------------------------- MODULE MCLibrary -----------------------------
(***************************************************************************)
(* Integers of 8 bits, blocks that begin at each alignment and hold up to  *)
(* two units of 4 bytes with bytes on both sides, files of up to 7         *)
(* characters for a buffer of 3.                                           *)
(***************************************************************************)
EXTENDS Library

MCAscii == (NUL :> 0) @@ (NL :> 10) @@ ("a" :> 97) @@ ("b" :> 98) @@ ("x" :> 120) @@ ("%" :> 37)
MCWords == BoundedSeq({"a", "b"}, 3)
MCMemory == 0 .. 30
MCBlock == 8 .. 21
MCFillers == {258, 16909060}
MCValues == 0 .. 255
MCPrinted == {0, 10, 127, 128, 255}
MCFiles == BoundedSeq({"a", "b", NL}, 7)
MCPatterns == {<<"a">>, <<"a", "b">>}

=============================================================================
