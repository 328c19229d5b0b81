----------------------------- MODULE Interrupts -----------------------------
(***************************************************************************)
(* Interrupt controller, clock, keyboard and the programs of the terminals *)
(* together: who is interrupted where, who acknowledges what, and who      *)
(* waits for a tick.                                                       *)
(*                                                                         *)
(* Every terminal has one thread of control: its program, perhaps inside   *)
(* rtc_read, under the frames of the interrupt handlers that stopped it.   *)
(* Ctrl+n leaves the whole of it where it is and continues another's.  The *)
(* keyboard's gate turns interrupts off, so its handler is one step; the   *)
(* clock's gate is a trap gate, so the clock's handler can be interrupted  *)
(* between any two of its steps.                                           *)
(***************************************************************************)
EXTENDS Pic, Rtc, Sequences, SequencesExt

CONSTANTS
    NUM_TERMS,     \* terminals (3)
    Frequencies    \* what programs write to the clock

ASSUME ConstantsAssumption ==
    /\ NUM_TERMS \in Nat \ {0}
    /\ Frequencies \subseteq Nat

Terms    == 0 .. NUM_TERMS - 1
Keyboard == 1
Clock    == 8

(* initialize_idt: interrupts get an interrupt gate, which clears IF;       *)
(* exceptions keep the trap gate they are given first, and so does 0x28.    *)
TOTAL_EXCEPTIONS == 32
Vector(irq)      == 32 + irq
ClearsIF(v)      == ~(v < TOTAL_EXCEPTIONS \/ v = 40)
Handled          == {irq \in MasterLines \cup SlaveLines : Vector(irq) \in {33, 40}}

(* rtc_test, by what it does next.                                          *)
ClockSteps == {"set_flag", "send_eoi", "read_C"}

VARIABLES
    boot,              \* how far entry() has come
    current_terminal,
    opened,            \* been_here of each terminal
    program,           \* each terminal's program: in user mode or rtc_read
    frames,            \* the unfinished clock handlers above it
    clients,           \* terminals whose program has the clock open
    ticked,            \* history: programs that saw a tick since they cleared the flag
    warned             \* history: the Ctrl+F3 warning was given

historyVars == <<ticked, warned>>
cpuVars     == <<boot, current_terminal, opened, program, frames, clients>>
vars        == <<picVars, rtcVars, cpuVars, historyVars>>

TypeOK ==
    /\ PicTypeOK /\ RtcTypeOK
    /\ boot \in {"idt", "pic", "keyboard", "clock", "sti", "running"}
    /\ current_terminal \in Terms
    /\ opened \subseteq Terms
    /\ program \in [Terms -> {"user", "clear_flag", "spin"}]
    /\ frames \in [Terms -> Seq(ClockSteps)]
    /\ clients \subseteq Terms
    /\ ticked \subseteq Terms
    /\ warned \in BOOLEAN

Init ==
    /\ PicInit /\ RtcInit
    /\ boot = "idt"
    /\ current_terminal = 0
    /\ opened = {0}
    /\ program = [t \in Terms |-> "user"]
    /\ frames = [t \in Terms |-> <<>>]
    /\ clients = {}
    /\ ticked = {}
    /\ warned = FALSE

-----------------------------------------------------------------------------
(* entry(): interrupts stay off until the sti.                              *)

BootStep(from, to) ==
    /\ boot = from
    /\ boot' = to
    /\ UNCHANGED <<rtcVars, current_terminal, opened, program, frames,
                   clients, historyVars>>

Boot ==
    \/ BootStep("idt", "pic") /\ UNCHANGED picVars
    \/ BootStep("pic", "keyboard") /\ i8259_init
    \/ BootStep("keyboard", "clock") /\ enable_irq(Keyboard)
    \/ BootStep("clock", "sti") /\ enable_irq(Clock)
    \/ BootStep("sti", "running") /\ UNCHANGED picVars

-----------------------------------------------------------------------------
(* The devices.                                                             *)

KeyPress ==
    /\ boot = "running"
    /\ Keyboard \notin irr
    /\ irr' = irr \cup {Keyboard}
    /\ UNCHANGED <<master_mask, slave_mask, imr, isr, rtcVars, cpuVars, historyVars>>

Tick ==
    /\ periodic
    /\ ~register_C
    /\ register_C' = TRUE
    /\ irr' = irr \cup {Clock}
    /\ UNCHANGED <<master_mask, slave_mask, imr, isr, cpuVars, historyVars,
                   periodic, rate, rtc_interrupt_happened, asked>>

-----------------------------------------------------------------------------
(* The processor.                                                           *)

Running == frames[current_terminal]

InterruptsOn ==
    /\ boot = "running"
    /\ Running # <<>> => ~ClearsIF(Vector(Clock))

(* The keyboard handler: accepted, acknowledged up to `served`, and back in *)
(* terminal t.                                                              *)
KeyboardHandler(t, served) ==
    /\ InterruptsOn
    /\ Accepted(Keyboard)
    /\ irr' = irr \ {Keyboard}
    /\ isr' = served
    /\ current_terminal' = t
    /\ opened' = opened \cup {t}
    /\ UNCHANGED <<master_mask, slave_mask, imr, rtcVars, boot, program, frames,
                   clients, ticked>>

OrdinaryKey ==
    /\ KeyboardHandler(current_terminal, send_eoi(InService(Keyboard), Keyboard))
    /\ UNCHANGED warned

(* Mutant: a new terminal's shell starts without the acknowledgement.       *)
SwitchUnacknowledged == \E t \in Terms \ {current_terminal} :
    LET late == InService(Keyboard)
    IN  /\ KeyboardHandler(t, IF t \in opened THEN send_eoi(late, Keyboard) ELSE late)
        /\ UNCHANGED warned

(* Ctrl+n acknowledges before it changes terminals.  An open terminal goes  *)
(* on where it was left, inside this same handler, which acknowledges once  *)
(* more at its end; a new one starts its shell.                             *)
SwitchKey == \E t \in Terms \ {current_terminal} :
    LET early == send_eoi(InService(Keyboard), Keyboard)
    IN  /\ KeyboardHandler(t, IF t \in opened THEN send_eoi(early, Keyboard) ELSE early)
        /\ UNCHANGED warned

(* Ctrl+F3 with the process table full prints a warning and returns without *)
(* acknowledging.                                                           *)
WarningKey ==
    /\ KeyboardHandler(current_terminal, InService(Keyboard))
    /\ warned' = TRUE

ClockInterrupt ==
    /\ InterruptsOn
    /\ Accepted(Clock)
    /\ irr' = irr \ {Clock}
    /\ isr' = InService(Clock)
    /\ frames' = [frames EXCEPT ![current_terminal] = Append(@, "set_flag")]
    /\ UNCHANGED <<master_mask, slave_mask, imr, rtcVars, boot, current_terminal,
                   opened, program, clients, historyVars>>

(* The running frame goes from one step to the next.                        *)
ClockHandler(step, next) ==
    /\ Running # <<>> /\ Last(Running) = step
    /\ frames' = [frames EXCEPT ![current_terminal] = Front(@) \o next]
    /\ UNCHANGED <<master_mask, slave_mask, imr, irr, periodic, rate, asked,
                   boot, current_terminal, opened, program, clients, warned>>

SetFlag ==
    /\ ClockHandler("set_flag", <<"send_eoi">>)
    /\ rtc_interrupt_happened' = TRUE
    /\ ticked' = Terms
    /\ UNCHANGED <<isr, register_C>>

AcknowledgeClock ==
    /\ ClockHandler("send_eoi", <<"read_C">>)
    /\ isr' = send_eoi(isr, Clock)
    /\ UNCHANGED <<rtc_interrupt_happened, register_C, ticked>>

(* Mutant: register C is not read.                                          *)
CNotRead ==
    /\ ClockHandler("read_C", <<>>)
    /\ UNCHANGED <<register_C, isr, rtc_interrupt_happened, ticked>>

ReadC ==
    /\ ClockHandler("read_C", <<>>)
    /\ register_C' = FALSE
    /\ UNCHANGED <<isr, rtc_interrupt_happened, ticked>>

HandlerStep == SetFlag \/ AcknowledgeClock \/ ReadC

-----------------------------------------------------------------------------
(* Programs: the one on the screen runs when no handler is above it.        *)

Executing ==
    /\ boot = "running"
    /\ Running = <<>>

(* A system call of the clock's driver by a program in user mode.           *)
Call(allowed, open) ==
    /\ Executing
    /\ program[current_terminal] = "user"
    /\ allowed
    /\ clients' = open
    /\ UNCHANGED <<picVars, boot, current_terminal, opened, frames, historyVars>>

OpenClock ==
    /\ Call(TRUE, clients \cup {current_terminal})
    /\ rtc_open
    /\ UNCHANGED program

WriteClock == \E hz \in Frequencies :
    /\ Call(current_terminal \in clients, clients)
    /\ rtc_write(hz)
    /\ UNCHANGED program

CloseClock ==
    /\ Call(current_terminal \in clients, clients \ {current_terminal})
    /\ UNCHANGED <<rtcVars, program>>

(* rtc_read: interrupts on, clear the flag, spin until it is set.           *)
ReadClock ==
    /\ Call(current_terminal \in clients, clients)
    /\ program' = [program EXCEPT ![current_terminal] = "clear_flag"]
    /\ UNCHANGED rtcVars

ReadStep(from, to) ==
    /\ Executing
    /\ program[current_terminal] = from
    /\ program' = [program EXCEPT ![current_terminal] = to]
    /\ UNCHANGED <<picVars, periodic, rate, register_C, asked,
                   boot, current_terminal, opened, frames, clients, warned>>

(* Mutant: the flag is not cleared.                                         *)
FlagNotCleared ==
    /\ ReadStep("clear_flag", "spin")
    /\ ticked' = ticked \ {current_terminal}
    /\ UNCHANGED rtc_interrupt_happened

ClearFlag ==
    /\ ReadStep("clear_flag", "spin")
    /\ rtc_interrupt_happened' = FALSE
    /\ ticked' = ticked \ {current_terminal}

ReadReturns ==
    /\ ReadStep("spin", "user")
    /\ rtc_interrupt_happened
    /\ UNCHANGED <<rtc_interrupt_happened, ticked>>

RtcRead == ClearFlag \/ ReadReturns

Next ==
    \/ Boot
    \/ KeyPress \/ Tick
    \/ OrdinaryKey \/ SwitchKey \/ WarningKey
    \/ ClockInterrupt \/ HandlerStep
    \/ OpenClock \/ WriteClock \/ CloseClock \/ ReadClock \/ RtcRead

Spec == Init /\ [][Next]_vars

(* The chip ticks, requests are accepted and the processor executes.  A     *)
(* program gets to run between two interrupts, and the clock's turn comes   *)
(* between two keys, again and again: hence the strong fairness.  Nothing   *)
(* is assumed of the user.                                                  *)
Fairness ==
    /\ WF_vars(Boot) /\ WF_vars(Tick)
    /\ WF_vars(OrdinaryKey \/ SwitchKey \/ WarningKey)
    /\ SF_vars(ClockInterrupt)
    /\ WF_vars(HandlerStep)
    /\ SF_vars(RtcRead)

FairSpec == Spec /\ Fairness

-----------------------------------------------------------------------------
(* Properties.                                                              *)

(* Once interrupts are on, the lines that can come through are exactly      *)
(* those with a handler, and the line that carries the slave's: no toggled  *)
(* mask bit went the wrong way (i8259.c:58, idt.c:295, kernel.c:170).       *)
ServedLines ==
    boot = "running" =>
        (MasterLines \cup SlaveLines) \ imr = Handled \cup {SLAVE_IRQ_NUM}

(* A tick is always somebody's to finish.  While register C is unread no    *)
(* tick follows, so either its request waits in the controller or exactly   *)
(* one terminal holds a handler that will read it; the clock is in service  *)
(* just while that handler has not acknowledged.  The keyboard stays in     *)
(* service only after the warning (unit_tests.c:87, i8259.c:110).           *)
Handlers == {t \in Terms : frames[t] # <<>>}

TickAccounted ==
    /\ Cardinality(Handlers) <= 1
    /\ \A t \in Handlers : Len(frames[t]) = 1
    /\ register_C <=> (Clock \in irr \/ Handlers # {})
    /\ Clock \in irr => Handlers = {}
    /\ Clock \in isr <=> \E t \in Handlers : Last(frames[t]) # "read_C"
    /\ Clock \in isr <=> SLAVE_IRQ_NUM \in isr
    /\ Keyboard \in isr <=> warned

(* rtc_read never returns without a tick since it cleared the flag, however *)
(* many readers in other terminals clear the same flag (rtc.c:100).         *)
ReturnMeansTick ==
    [][\A t \in Terms :
          program[t] = "spin" /\ program'[t] = "user" => t \in ticked]_vars

(* The chip runs at the frequency asked for last, and at 2 Hz if it was not *)
(* a supported one (rtc.c:58).                                              *)
ClockRunsAtRequest ==
    Frequency(rate) = IF asked \in Supported THEN asked ELSE 2

(* As long as the Ctrl+F3 warning is not raised, every key is taken, also   *)
(* while the clock's handler of some terminal is suspended                  *)
(* (keyboard_driver.c:312, syscalls.c:789, 813).                            *)
KeysServed == []~warned => (Keyboard \in irr ~> Keyboard \notin irr)

(* If from some time on terminal t stays on the screen, a program there     *)
(* that waits for the clock is woken, provided no warning was raised and no *)
(* other terminal was left inside the clock's handler (rtc.c:100).          *)
ReaderWakes ==
    \A t \in Terms :
        <>[](current_terminal = t /\ ~warned /\ Handlers \subseteq {t})
            => (program[t] = "spin" ~> program[t] = "user")

-----------------------------------------------------------------------------
(* A property the source states and the code breaks: TLC refutes it in the  *)
(* instance of the run (README, section 5).                                 *)

(* The same without the last proviso: "Wait for RTC tick"                   *)
(* (ece391pingpong.c:56) is a wait that ends.  Broken when Ctrl+n leaves    *)
(* the clock's handler, which interrupts can stop although only the entries *)
(* "0 - 31" are meant to have a gate that lets them (idt.c:260).            *)
TicksReachTheScreen ==
    \A t \in Terms :
        <>[](current_terminal = t /\ ~warned)
            => (program[t] = "spin" ~> program[t] = "user")

=============================================================================
