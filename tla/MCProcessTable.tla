--------------------------- MODULE MCProcessTable ---------------------------
(* Model-checking instances of ProcessTable: named sets of admitted events. *)
EXTENDS ProcessTableRefinement

NoEvents     == {}
AllEvents    == Events
RootExit     == {"exit_root"}
OpenWhenFull == {"open_when_full"}
SwitchInHalt == {"switch_in_halt"}

=============================================================================
