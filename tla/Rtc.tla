-------------------------------- MODULE Rtc --------------------------------
(***************************************************************************)
(* The real-time clock and its driver (rtc.c): one chip with one rate, and *)
(* one flag by which its interrupt wakes whoever waits in rtc_read.  The   *)
(* chip requests line 8 and then stays silent until its register C is      *)
(* read.                                                                   *)
(***************************************************************************)
EXTENDS Naturals

VARIABLES
    periodic,                \* bit 6 of register B: the chip ticks
    rate,                    \* the low four bits of register A
    register_C,              \* a tick is recorded there and not yet read
    rtc_interrupt_happened,
    asked                    \* history: the frequency asked for last

rtcVars == <<periodic, rate, register_C, rtc_interrupt_happened, asked>>

(* Mutant: one divider too far.                                             *)
SlowestRate == 16
BASE_RATE == 15

(* What the chip does with a rate.                                          *)
Frequency(r) == 32768 \div 2 ^ (r - 1)

Supported == {2, 4, 8, 16, 32, 64, 128, 256, 512, 1024}

(* Mutant: every supported frequency is one power of two too high.          *)
RateOneLow(hz) ==
    IF hz \in Supported
    THEN CHOOSE r \in 5 .. 14 : Frequency(r) = 2 * hz ELSE BASE_RATE

(* The chain of comparisons in rtc_write.                                   *)
RateFor(hz) ==
    CASE hz = 2 -> 15 [] hz = 4 -> 14 [] hz = 8 -> 13 [] hz = 16 -> 12
      [] hz = 32 -> 11 [] hz = 64 -> 10 [] hz = 128 -> 9 [] hz = 256 -> 8
      [] hz = 512 -> 7 [] hz = 1024 -> 6
      [] OTHER -> BASE_RATE

RtcTypeOK ==
    /\ periodic \in BOOLEAN
    /\ rate \in 6 .. 15
    /\ register_C \in BOOLEAN
    /\ rtc_interrupt_happened \in BOOLEAN
    /\ asked \in Nat

RtcInit ==
    /\ periodic = FALSE
    /\ rate = 6      \* the BIOS's 1024 Hz
    /\ register_C = FALSE
    /\ rtc_interrupt_happened = FALSE
    /\ asked = Frequency(6)

SetRate(hz) ==
    /\ rate' = RateFor(hz)
    /\ asked' = hz

rtc_write(hz) ==
    /\ SetRate(hz)
    /\ UNCHANGED <<periodic, register_C, rtc_interrupt_happened>>

rtc_open ==
    /\ periodic' = TRUE
    /\ SetRate(2)
    /\ UNCHANGED <<register_C, rtc_interrupt_happened>>

=============================================================================
