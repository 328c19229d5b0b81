---------------------------- MODULE MCInterrupts ----------------------------
EXTENDS Interrupts

(* Every frequency rtc_write knows, and some it does not.                   *)
AllFrequencies == Supported \cup {0, 3, 2048}

=============================================================================
