-------------------------- MODULE InterruptsProofs --------------------------
(***************************************************************************)
(* Proofs about Interrupts, for any number of terminals and whatever       *)
(* programs ask of the clock: the masks, who owes the controller and the   *)
(* clock what, the rate, and that no read returns without a tick.          *)
(***************************************************************************)
EXTENDS Interrupts, FiniteSetTheorems, TLAPS

USE ConstantsAssumption

-----------------------------------------------------------------------------
(* Handlers' frames.                                                        *)

(* The last step of a handler makes way for the next.                       *)
LEMMA NextStep ==
    ASSUME NEW f \in Seq(ClockSteps), Len(f) = 1, NEW n \in Seq(ClockSteps)
    PROVE  Front(f) \o n = n
<1>1. Front(f) = <<>>
  BY DEF Front
<1> QED
  BY <1>1

LEMMA FramesType ==
    ASSUME NEW f \in Seq(ClockSteps), f # <<>>, NEW n \in Seq(ClockSteps)
    PROVE  Front(f) \o n \in Seq(ClockSteps)
<1>1. Front(f) \in Seq(ClockSteps)
  BY DEF Front
<1> QED
  BY <1>1

(* The steps of a handler are steps.                                        *)
LEMMA StepsType ==
    /\ <<>> \in Seq(ClockSteps)
    /\ \A s \in ClockSteps : <<s>> \in Seq(ClockSteps)
    /\ {"set_flag", "send_eoi", "read_C"} = ClockSteps
BY DEF ClockSteps

(* A step that only changes the frame of the terminal on the screen.        *)
LEMMA HandlerTypes ==
    ASSUME TypeOK, NEW step, NEW next \in Seq(ClockSteps), ClockHandler(step, next)
    PROVE  frames' \in [Terms -> Seq(ClockSteps)]
<1>1. frames[current_terminal] \in Seq(ClockSteps) /\ frames[current_terminal] # <<>>
  BY DEF TypeOK, ClockHandler, Running
<1>2. Front(frames[current_terminal]) \o next \in Seq(ClockSteps)
  BY <1>1, FramesType
<1> QED
  BY <1>2 DEF TypeOK, ClockHandler

-----------------------------------------------------------------------------
(* Types.                                                                   *)

LEMMA RateType == \A hz : RateFor(hz) \in 6 .. 15
BY DEF RateFor, BASE_RATE

LEMMA LinesType ==
    /\ Keyboard \in MasterLines /\ SLAVE_IRQ_NUM \in MasterLines
    /\ Clock \in SlaveLines
    /\ MasterLine(Keyboard) = Keyboard
    /\ MasterLine(Clock) = SLAVE_IRQ_NUM
BY DEF Keyboard, Clock, SLAVE_IRQ_NUM, MasterLines, SlaveLines, MasterLine

LEMMA TypeInit == Init => TypeOK
BY DEF Init, TypeOK, PicInit, RtcInit, PicTypeOK, RtcTypeOK, Terms, Frequency

LEMMA BootType == TypeOK /\ Boot => TypeOK'
<1> SUFFICES ASSUME TypeOK, Boot PROVE TypeOK'
  OBVIOUS
<1> USE DEF TypeOK, PicTypeOK, RtcTypeOK, BootStep, rtcVars, picVars, historyVars
<1>1. CASE BootStep("idt", "pic") /\ UNCHANGED picVars
  BY <1>1
<1>2. CASE BootStep("pic", "keyboard") /\ i8259_init
  BY <1>2 DEF i8259_init
<1>3. CASE BootStep("keyboard", "clock") /\ enable_irq(Keyboard)
  BY <1>3, LinesType DEF enable_irq, SymDiff
<1>4. CASE BootStep("clock", "sti") /\ enable_irq(Clock)
  BY <1>4, LinesType DEF enable_irq, SymDiff
<1>5. CASE BootStep("sti", "running") /\ UNCHANGED picVars
  BY <1>5
<1> QED
  BY <1>1, <1>2, <1>3, <1>4, <1>5 DEF Boot

LEMMA KeyboardType ==
    ASSUME TypeOK, NEW t \in Terms, NEW served \in SUBSET (MasterLines \cup SlaveLines),
           KeyboardHandler(t, served), warned' \in BOOLEAN
    PROVE  TypeOK'
BY DEF TypeOK, PicTypeOK, RtcTypeOK, KeyboardHandler, rtcVars

LEMMA TypeStep == TypeOK /\ [Next]_vars => TypeOK'
<1> SUFFICES ASSUME TypeOK, [Next]_vars PROVE TypeOK'
  OBVIOUS
<1>1. CASE Boot
  BY <1>1, BootType
<1>2. CASE KeyPress
  BY <1>2, LinesType DEF KeyPress, TypeOK, PicTypeOK, RtcTypeOK, rtcVars, cpuVars, historyVars
<1>3. CASE Tick
  BY <1>3, LinesType DEF Tick, TypeOK, PicTypeOK, RtcTypeOK, cpuVars, historyVars
<1>4. /\ InService(Keyboard) \subseteq MasterLines \cup SlaveLines
      /\ InService(Clock) \subseteq MasterLines \cup SlaveLines
      /\ \A s \in SUBSET (MasterLines \cup SlaveLines), irq \in {Keyboard, Clock} :
            send_eoi(s, irq) \subseteq MasterLines \cup SlaveLines
  BY LinesType DEF InService, send_eoi, TypeOK, PicTypeOK
<1>5. CASE OrdinaryKey
  <2>1. current_terminal \in Terms /\ warned' \in BOOLEAN
    BY <1>5 DEF OrdinaryKey, TypeOK
  <2> QED
    BY <1>4, <1>5, <2>1, KeyboardType DEF OrdinaryKey
<1>6. CASE SwitchKey
  <2>1. PICK t \in Terms : KeyboardHandler(t,
            LET early == send_eoi(InService(Keyboard), Keyboard)
            IN  IF t \in opened THEN send_eoi(early, Keyboard) ELSE early)
    BY <1>6 DEF SwitchKey
  <2>2. warned' \in BOOLEAN
    BY <1>6 DEF SwitchKey, TypeOK
  <2> QED
    BY <1>4, <2>1, <2>2, KeyboardType
<1>7. CASE WarningKey
  <2>1. current_terminal \in Terms /\ warned' \in BOOLEAN
    BY <1>7 DEF WarningKey, TypeOK
  <2> QED
    BY <1>4, <1>7, <2>1, KeyboardType DEF WarningKey
<1>8. CASE ClockInterrupt
  <2>1. Append(frames[current_terminal], "set_flag") \in Seq(ClockSteps)
    BY DEF TypeOK, ClockSteps
  <2>2. frames' \in [Terms -> Seq(ClockSteps)]
    BY <1>8, <2>1 DEF ClockInterrupt, TypeOK
  <2> QED
    BY <1>4, <1>8, <2>2 DEF ClockInterrupt, TypeOK, PicTypeOK, RtcTypeOK, rtcVars, historyVars
<1>9. CASE HandlerStep
  <2>1. PICK step \in ClockSteps, next \in Seq(ClockSteps) : ClockHandler(step, next)
    BY <1>9, StepsType DEF HandlerStep, SetFlag, AcknowledgeClock, ReadC
  <2>2. frames' \in [Terms -> Seq(ClockSteps)]
    BY <2>1, HandlerTypes
  <2>3. isr' \subseteq MasterLines \cup SlaveLines
    BY <1>4, <1>9 DEF HandlerStep, SetFlag, AcknowledgeClock, ReadC, TypeOK, PicTypeOK
  <2>4. /\ register_C' \in BOOLEAN /\ rtc_interrupt_happened' \in BOOLEAN
        /\ ticked' \subseteq Terms
    BY <1>9 DEF HandlerStep, SetFlag, AcknowledgeClock, ReadC, TypeOK, RtcTypeOK
  <2> QED
    BY <2>1, <2>2, <2>3, <2>4 DEF ClockHandler, TypeOK, PicTypeOK, RtcTypeOK
<1>10. CASE OpenClock
  BY <1>10, RateType DEF OpenClock, Call, rtc_open, SetRate, TypeOK, PicTypeOK, RtcTypeOK, picVars, historyVars
<1>11. CASE WriteClock
  BY <1>11, RateType DEF WriteClock, Call, rtc_write, SetRate, TypeOK, PicTypeOK, RtcTypeOK, picVars, historyVars
<1>12. CASE CloseClock \/ ReadClock
  BY <1>12 DEF CloseClock, ReadClock, Call, TypeOK, PicTypeOK, RtcTypeOK, picVars, rtcVars, historyVars
<1>13. CASE RtcRead
  BY <1>13 DEF RtcRead, ClearFlag, ReadReturns, ReadStep, TypeOK, PicTypeOK, RtcTypeOK, picVars
<1>14. CASE UNCHANGED vars
  BY <1>14 DEF vars, TypeOK, PicTypeOK, RtcTypeOK, picVars, rtcVars, cpuVars, historyVars
<1> QED
  BY <1>1, <1>2, <1>3, <1>5, <1>6, <1>7, <1>8, <1>9, <1>10, <1>11, <1>12, <1>13, <1>14 DEF Next

(* Whatever is interrupted where, every variable keeps its type; in         *)
(* particular the driver sets only rates the chip has (rtc_write).          *)
THEOREM TypeCorrect == Spec => []TypeOK
BY TypeInit, TypeStep, PTL DEF Spec

-----------------------------------------------------------------------------
(* The masks.                                                               *)

(* How far the initialization has come, in the driver's masks; once enabled *)
(* the lines are also open in the chips.                                    *)
MaskInv ==
    /\ boot = "keyboard" => master_mask = MasterLines /\ slave_mask = SlaveLines
    /\ boot = "clock" =>
          master_mask = MasterLines \ {Keyboard} /\ slave_mask = SlaveLines
    /\ boot \in {"sti", "running"} =>
          /\ master_mask = MasterLines \ {Keyboard, SLAVE_IRQ_NUM}
          /\ slave_mask = SlaveLines \ {Clock}
          /\ imr = master_mask \cup slave_mask

(* Nothing but the initialization writes a mask.                            *)
LEMMA MasksStay ==
    [Next]_vars => Boot \/ UNCHANGED <<boot, master_mask, slave_mask, imr>>
BY DEF Next, KeyPress, Tick, OrdinaryKey, SwitchKey, WarningKey, KeyboardHandler,
       ClockInterrupt, HandlerStep, SetFlag, AcknowledgeClock, ReadC, ClockHandler,
       OpenClock, WriteClock, CloseClock, ReadClock, Call, RtcRead, ClearFlag,
       ReadReturns, ReadStep, vars, picVars, cpuVars

LEMMA MaskStep == MaskInv /\ [Next]_vars => MaskInv'
<1> SUFFICES ASSUME MaskInv, [Next]_vars PROVE MaskInv'
  OBVIOUS
<1> USE DEF MaskInv, BootStep
<1>1. CASE BootStep("idt", "pic") /\ UNCHANGED picVars
  BY <1>1
<1>2. CASE BootStep("pic", "keyboard") /\ i8259_init
  BY <1>2 DEF i8259_init
<1>3. CASE BootStep("keyboard", "clock") /\ enable_irq(Keyboard)
  <2>1. SymDiff(MasterLines, {Keyboard}) = MasterLines \ {Keyboard}
    BY LinesType DEF SymDiff
  <2>2. SymDiff(SlaveLines, {Keyboard} \cap SlaveLines) = SlaveLines
    BY DEF SymDiff, Keyboard, SlaveLines
  <2> QED
    BY <1>3, <2>1, <2>2, LinesType DEF enable_irq
<1>4. CASE BootStep("clock", "sti") /\ enable_irq(Clock)
  <2>1. SymDiff(MasterLines \ {Keyboard}, {SLAVE_IRQ_NUM})
           = MasterLines \ {Keyboard, SLAVE_IRQ_NUM}
    BY LinesType DEF SymDiff, Keyboard, SLAVE_IRQ_NUM
  <2>2. SymDiff(SlaveLines, {Clock} \cap SlaveLines) = SlaveLines \ {Clock}
    BY LinesType DEF SymDiff
  <2> QED
    BY <1>4, <2>1, <2>2, LinesType DEF enable_irq
<1>5. CASE BootStep("sti", "running") /\ UNCHANGED picVars
  BY <1>5 DEF picVars
<1>6. CASE UNCHANGED <<boot, master_mask, slave_mask, imr>>
  BY <1>6
<1> QED
  BY <1>1, <1>2, <1>3, <1>4, <1>5, <1>6, MasksStay DEF Boot

LEMMA MaskInit == Init => MaskInv
BY DEF Init, MaskInv

(* Once interrupts are on, exactly the lines with a handler and the slave's *)
(* line come through: toggling the mask bits never masks what it meant to   *)
(* enable.                                                                  *)
THEOREM LinesServed == Spec => []ServedLines
<1>1. MaskInv => ServedLines
  <2> SUFFICES ASSUME MaskInv, boot = "running"
               PROVE  (MasterLines \cup SlaveLines) \ imr = Handled \cup {SLAVE_IRQ_NUM}
    BY DEF ServedLines
  <2>1. imr = (MasterLines \ {Keyboard, SLAVE_IRQ_NUM}) \cup (SlaveLines \ {Clock})
    BY DEF MaskInv
  <2>2. Handled = {Keyboard, Clock}
    BY DEF Handled, Vector, Keyboard, Clock, MasterLines, SlaveLines
  <2> QED
    BY <2>1, <2>2 DEF MasterLines, SlaveLines, Keyboard, Clock, SLAVE_IRQ_NUM
<1> QED
  BY <1>1, MaskInit, MaskStep, PTL DEF Spec

-----------------------------------------------------------------------------
(* The rate.                                                                *)

LEMMA RateIsRight ==
    \A hz \in Nat : Frequency(RateFor(hz)) = IF hz \in Supported THEN hz ELSE 2
<1> SUFFICES ASSUME NEW hz \in Nat
             PROVE  Frequency(RateFor(hz)) = IF hz \in Supported THEN hz ELSE 2
  OBVIOUS
<1>1. CASE hz \in Supported
  <2>1. /\ RateFor(2) = 15 /\ RateFor(4) = 14 /\ RateFor(8) = 13 /\ RateFor(16) = 12
        /\ RateFor(32) = 11 /\ RateFor(64) = 10 /\ RateFor(128) = 9
        /\ RateFor(256) = 8 /\ RateFor(512) = 7 /\ RateFor(1024) = 6
    BY DEF RateFor
  <2>2. /\ Frequency(15) = 2 /\ Frequency(14) = 4 /\ Frequency(13) = 8
        /\ Frequency(12) = 16 /\ Frequency(11) = 32 /\ Frequency(10) = 64
        /\ Frequency(9) = 128 /\ Frequency(8) = 256 /\ Frequency(7) = 512
        /\ Frequency(6) = 1024
    BY Z3 DEF Frequency
  <2> QED
    BY <1>1, <2>1, <2>2 DEF Supported
<1>2. CASE hz \notin Supported
  <2>1. RateFor(hz) = 15
    BY <1>2 DEF RateFor, Supported, BASE_RATE
  <2> QED
    BY <1>2, <2>1, Z3 DEF Frequency
<1> QED
  BY <1>1, <1>2

(* Only the driver's open and write touch the rate.                         *)
LEMMA RateStays ==
    [Next]_vars => \/ UNCHANGED <<rate, asked>>
                   \/ \E hz \in Nat : SetRate(hz)
<1>1. OpenClock => SetRate(2)
  BY DEF OpenClock, rtc_open
<1>2. WriteClock => \E hz \in Nat : SetRate(hz)
  BY DEF WriteClock, rtc_write
<1> QED
  BY <1>1, <1>2 DEF Next, Boot, BootStep, KeyPress, Tick, OrdinaryKey, SwitchKey,
     WarningKey, KeyboardHandler, ClockInterrupt, HandlerStep, SetFlag,
     AcknowledgeClock, ReadC, ClockHandler, CloseClock, ReadClock, Call, RtcRead,
     ClearFlag, ReadReturns, ReadStep, vars, rtcVars

(* The clock always runs at the frequency asked for last by anybody, or at  *)
(* 2 Hz if the chip has no such frequency.                                  *)
THEOREM ClockRuns == Spec => []ClockRunsAtRequest
<1>1. Init => ClockRunsAtRequest
  BY Z3 DEF Init, RtcInit, ClockRunsAtRequest, Frequency, Supported
<1>2. ClockRunsAtRequest /\ [Next]_vars => ClockRunsAtRequest'
  <2> SUFFICES ASSUME ClockRunsAtRequest, [Next]_vars PROVE ClockRunsAtRequest'
    OBVIOUS
  <2>1. CASE UNCHANGED <<rate, asked>>
    BY <2>1 DEF ClockRunsAtRequest
  <2>2. ASSUME NEW hz \in Nat, SetRate(hz) PROVE ClockRunsAtRequest'
    BY <2>2, RateIsRight DEF SetRate, ClockRunsAtRequest
  <2> QED
    BY <2>1, <2>2, RateStays
<1> QED
  BY <1>1, <1>2, PTL DEF Spec

-----------------------------------------------------------------------------
(* Who owes the controller and the clock what.                              *)

(* TickAccounted without the cardinality, and what it rests on: before      *)
(* interrupts are on nothing is requested, in service or under way.         *)
TickInv ==
    /\ boot # "running" => /\ irr = {} /\ isr = {} /\ ~periodic /\ ~register_C
                           /\ ~warned /\ frames = [t \in Terms |-> <<>>]
    /\ \A t, u \in Handlers : t = u
    /\ \A t \in Handlers : Len(frames[t]) = 1
    /\ register_C <=> (Clock \in irr \/ Handlers # {})
    /\ Clock \in irr => Handlers = {}
    /\ Clock \in isr <=> \E t \in Handlers : Last(frames[t]) # "read_C"
    /\ Clock \in isr <=> SLAVE_IRQ_NUM \in isr
    /\ Keyboard \in isr <=> warned

(* The lines concerned are different.                                       *)
LEMMA LinesDiffer ==
    /\ Keyboard # Clock /\ Keyboard # SLAVE_IRQ_NUM /\ Clock # SLAVE_IRQ_NUM
    /\ InService(Keyboard) = isr \cup {Keyboard}
    /\ InService(Clock) = isr \cup {Clock, SLAVE_IRQ_NUM}
    /\ \A s : send_eoi(s, Keyboard) = s \ {Keyboard}
    /\ \A s : send_eoi(s, Clock) = s \ {Clock, SLAVE_IRQ_NUM}
BY LinesType DEF InService, send_eoi, Keyboard, Clock, SLAVE_IRQ_NUM

(* A key is taken only if the last one was acknowledged.                    *)
LEMMA KeyAcknowledged ==
    ASSUME TickInv, NEW t, NEW served, KeyboardHandler(t, served)
    PROVE  /\ Keyboard \notin isr /\ ~warned
           /\ send_eoi(InService(Keyboard), Keyboard) = isr
           /\ send_eoi(isr, Keyboard) = isr
<1>1. Keyboard \in isr => MasterLine(Keyboard) < Keyboard
  BY LinesType DEF KeyboardHandler, Accepted, Deliverable
<1>2. Keyboard \notin isr /\ ~warned
  BY <1>1, LinesType DEF Keyboard, TickInv
<1> QED
  BY <1>2, LinesDiffer

(* What is in service after its handler is what was before, unless it       *)
(* warned.                                                                  *)
LEMMA KeyboardTick ==
    ASSUME TypeOK, TickInv, NEW t \in Terms, NEW served, KeyboardHandler(t, served),
           \/ served = isr /\ ~warned'
           \/ served = isr \cup {Keyboard} /\ warned'
    PROVE  TickInv'
<1>1. boot = "running" /\ UNCHANGED <<boot, frames, register_C>>
  BY DEF KeyboardHandler, InterruptsOn, rtcVars
<1>2. Handlers' = Handlers
  BY <1>1 DEF Handlers
<1>3. Clock \in irr' <=> Clock \in irr
  BY LinesDiffer DEF KeyboardHandler
<1>4. Keyboard \notin isr
  BY KeyAcknowledged
<1>5. /\ Clock \in isr' <=> Clock \in isr
      /\ SLAVE_IRQ_NUM \in isr' <=> SLAVE_IRQ_NUM \in isr
      /\ Keyboard \in isr' <=> warned'
  BY <1>4, LinesDiffer DEF KeyboardHandler
<1> QED
  BY <1>1, <1>2, <1>3, <1>5 DEF TickInv

(* A step of the handler on the screen, whose frame is its only one.        *)
LEMMA HandlerTick ==
    ASSUME TypeOK, TickInv, NEW step \in ClockSteps, NEW next \in Seq(ClockSteps),
           ClockHandler(step, next)
    PROVE  /\ boot = "running" /\ boot' = "running"
           /\ Handlers = {current_terminal}
           /\ Last(frames[current_terminal]) = step
           /\ frames' = [frames EXCEPT ![current_terminal] = next]
           /\ register_C /\ Clock \notin irr
<1>1. current_terminal \in Terms /\ frames[current_terminal] # <<>>
  BY DEF ClockHandler, Running, TypeOK
<1>2. current_terminal \in Handlers
  BY <1>1 DEF Handlers
<1>3. Len(frames[current_terminal]) = 1 /\ Handlers = {current_terminal}
  BY <1>2 DEF TickInv
<1>4. Front(frames[current_terminal]) \o next = next
  BY <1>1, <1>3, NextStep DEF TypeOK
<1> QED
  BY <1>1, <1>2, <1>3, <1>4 DEF ClockHandler, Running, TickInv

LEMMA TickStep == TypeOK /\ TickInv /\ [Next]_vars => TickInv'
<1> SUFFICES ASSUME TypeOK, TickInv, [Next]_vars PROVE TickInv'
  OBVIOUS
<1>1. CASE Boot
  <2>1. boot # "running" /\ irr' = {} /\ isr' = {}
    BY <1>1 DEF Boot, BootStep, TickInv, i8259_init, enable_irq, picVars
  <2>2. UNCHANGED <<periodic, register_C, warned, frames>>
    BY <1>1 DEF Boot, BootStep, rtcVars, historyVars
  <2>3. Handlers = {} /\ Handlers' = {}
    BY <2>1, <2>2 DEF Handlers, TickInv
  <2> QED
    BY <2>1, <2>2, <2>3 DEF TickInv
<1>2. CASE KeyPress
  <2>1. Handlers' = Handlers
    BY <1>2 DEF KeyPress, Handlers, cpuVars
  <2>2. Clock \in irr' <=> Clock \in irr
    BY <1>2, LinesDiffer DEF KeyPress
  <2> QED
    BY <1>2, <2>1, <2>2 DEF KeyPress, TickInv, cpuVars, rtcVars, historyVars
<1>3. CASE Tick
  <2>1. Handlers' = Handlers /\ Handlers = {}
    BY <1>3 DEF Tick, Handlers, cpuVars, TickInv
  <2> QED
    BY <1>3, <2>1 DEF Tick, TickInv, cpuVars, historyVars
<1>4. CASE OrdinaryKey
  <2>1. KeyboardHandler(current_terminal, send_eoi(InService(Keyboard), Keyboard))
    BY <1>4 DEF OrdinaryKey
  <2>2. ~warned' /\ send_eoi(InService(Keyboard), Keyboard) = isr
    BY <1>4, <2>1, KeyAcknowledged DEF OrdinaryKey
  <2>3. current_terminal \in Terms
    BY DEF TypeOK
  <2> QED
    BY <2>1, <2>2, <2>3, KeyboardTick
<1>5. CASE SwitchKey
  <2>1. PICK t \in Terms : KeyboardHandler(t,
            LET early == send_eoi(InService(Keyboard), Keyboard)
            IN  IF t \in opened THEN send_eoi(early, Keyboard) ELSE early)
    BY <1>5 DEF SwitchKey
  <2>2. KeyboardHandler(t, isr) /\ ~warned'
    BY <1>5, <2>1, KeyAcknowledged DEF SwitchKey
  <2> QED
    BY <2>2, KeyboardTick
<1>6. CASE WarningKey
  <2>1. InService(Keyboard) = isr \cup {Keyboard} /\ current_terminal \in Terms
    BY LinesDiffer DEF TypeOK
  <2> QED
    BY <1>6, <2>1, KeyboardTick DEF WarningKey
<1>7. CASE ClockInterrupt
  <2>1. /\ boot = "running" /\ boot' = "running"
        /\ Clock \in irr /\ Handlers = {} /\ register_C
    BY <1>7 DEF ClockInterrupt, InterruptsOn, Accepted, Deliverable, TickInv
  <2>2. current_terminal \in Terms /\ frames[current_terminal] = <<>>
    BY <2>1 DEF TypeOK, Handlers
  <2>3. frames' = [frames EXCEPT ![current_terminal] = <<"set_flag">>]
    BY <1>7, <2>2 DEF ClockInterrupt
  <2>4. Handlers' = {current_terminal} /\ frames'[current_terminal] = <<"set_flag">>
    BY <2>1, <2>2, <2>3 DEF Handlers, TypeOK
  <2>5. Len(<<"set_flag">>) = 1 /\ Last(<<"set_flag">>) = "set_flag"
    BY DEF Last
  <2>6. /\ Clock \notin irr' /\ Clock \in isr' /\ SLAVE_IRQ_NUM \in isr'
        /\ Keyboard \in isr' <=> Keyboard \in isr
        /\ UNCHANGED <<register_C, warned>>
    BY <1>7, LinesDiffer DEF ClockInterrupt, rtcVars, historyVars
  <2> QED
    BY <2>1, <2>4, <2>5, <2>6 DEF TickInv
<1>8. CASE SetFlag
  <2>1. ClockHandler("set_flag", <<"send_eoi">>) /\ UNCHANGED <<isr, irr, register_C, warned>>
    BY <1>8 DEF SetFlag, ClockHandler
  <2>2. /\ boot' = "running" /\ Handlers = {current_terminal}
        /\ Last(frames[current_terminal]) = "set_flag"
        /\ frames' = [frames EXCEPT ![current_terminal] = <<"send_eoi">>]
    BY <2>1, HandlerTick, StepsType
  <2>3. Handlers' = {current_terminal} /\ frames'[current_terminal] = <<"send_eoi">>
    BY <2>2 DEF Handlers, TypeOK
  <2>4. Len(<<"send_eoi">>) = 1 /\ Last(<<"send_eoi">>) = "send_eoi"
    BY DEF Last
  <2> QED
    BY <2>1, <2>2, <2>3, <2>4 DEF TickInv
<1>9. CASE AcknowledgeClock
  <2>1. /\ ClockHandler("send_eoi", <<"read_C">>) /\ isr' = send_eoi(isr, Clock)
        /\ UNCHANGED <<irr, register_C, warned>>
    BY <1>9 DEF AcknowledgeClock, ClockHandler
  <2>2. /\ boot' = "running" /\ Handlers = {current_terminal}
        /\ frames' = [frames EXCEPT ![current_terminal] = <<"read_C">>]
    BY <2>1, HandlerTick, StepsType
  <2>3. Handlers' = {current_terminal} /\ frames'[current_terminal] = <<"read_C">>
    BY <2>2 DEF Handlers, TypeOK
  <2>4. Len(<<"read_C">>) = 1 /\ Last(<<"read_C">>) = "read_C"
    BY DEF Last
  <2>5. /\ Clock \notin isr' /\ SLAVE_IRQ_NUM \notin isr'
        /\ Keyboard \in isr' <=> Keyboard \in isr
    BY <2>1, LinesDiffer
  <2> QED
    BY <2>1, <2>2, <2>3, <2>4, <2>5 DEF TickInv
<1>10. CASE ReadC
  <2>1. /\ ClockHandler("read_C", <<>>) /\ ~register_C'
        /\ UNCHANGED <<isr, irr, warned>>
    BY <1>10 DEF ReadC, ClockHandler
  <2>2. /\ boot' = "running" /\ Handlers = {current_terminal}
        /\ Last(frames[current_terminal]) = "read_C"
        /\ frames' = [frames EXCEPT ![current_terminal] = <<>>]
        /\ Clock \notin irr
    BY <2>1, HandlerTick, StepsType
  <2>3. Handlers' = {}
    BY <2>2 DEF Handlers, TypeOK
  <2> QED
    BY <2>1, <2>2, <2>3 DEF TickInv
<1>11. CASE OpenClock \/ WriteClock \/ CloseClock \/ ReadClock \/ RtcRead
  <2>1. /\ boot = "running" /\ boot' = "running"
        /\ UNCHANGED <<irr, isr, register_C, frames, warned>>
    BY <1>11 DEF OpenClock, WriteClock, CloseClock, ReadClock, Call, Executing,
       rtc_open, rtc_write, SetRate, RtcRead, ClearFlag, ReadReturns, ReadStep,
       picVars, rtcVars, historyVars
  <2>2. Handlers' = Handlers
    BY <2>1 DEF Handlers
  <2> QED
    BY <2>1, <2>2 DEF TickInv
<1>12. CASE UNCHANGED vars
  <2>1. Handlers' = Handlers
    BY <1>12 DEF Handlers, vars, cpuVars
  <2> QED
    BY <1>12, <2>1 DEF TickInv, vars, picVars, rtcVars, cpuVars, historyVars
<1> QED
  BY <1>1, <1>2, <1>3, <1>4, <1>5, <1>6, <1>7, <1>8, <1>9, <1>10, <1>11, <1>12
  DEF Next, HandlerStep

LEMMA TickInit == Init => TickInv
<1> SUFFICES ASSUME Init PROVE TickInv
  OBVIOUS
<1>1. Handlers = {}
  BY DEF Handlers, Init
<1> QED
  BY <1>1 DEF TickInv, Init, PicInit, RtcInit

(* Of any number of terminals at most one is inside the clock's handler,    *)
(* and it owes what is outstanding: while register C is unread its request  *)
(* waits or that handler will read it, and the clock is in service just     *)
(* until the handler acknowledges; the keyboard stays in service only after *)
(* the warning.                                                             *)
THEOREM TicksAccounted == Spec => []TickAccounted
<1>1. TickInv => TickAccounted
  <2> SUFFICES ASSUME TickInv PROVE TickAccounted
    OBVIOUS
  <2>1. Cardinality(Handlers) <= 1
    <3>1. CASE Handlers = {}
      BY <3>1, FS_EmptySet
    <3>2. CASE Handlers # {}
      <4>1. PICK t \in Handlers : TRUE
        BY <3>2
      <4>2. Handlers = {t}
        BY <4>1 DEF TickInv
      <4>3. Cardinality({t}) = 1
        BY FS_Singleton
      <4> QED
        BY <4>2, <4>3
    <3> QED
      BY <3>1, <3>2
  <2> QED
    BY <2>1 DEF TickInv, TickAccounted
<1> QED
  BY <1>1, TickInit, TickStep, TypeInit, TypeStep, PTL DEF Spec

-----------------------------------------------------------------------------
(* Readers of the clock.                                                    *)

(* While the flag is set, whoever spins has seen a tick.                    *)
SpinInv ==
    rtc_interrupt_happened =>
        \A t \in Terms : program[t] = "spin" => t \in ticked

LEMMA SpinStep == TypeOK /\ SpinInv /\ [Next]_vars => SpinInv'
<1> SUFFICES ASSUME TypeOK, SpinInv, [Next]_vars PROVE SpinInv'
  OBVIOUS
<1>1. CASE UNCHANGED <<rtc_interrupt_happened, program, ticked>>
  BY <1>1 DEF SpinInv
<1>2. CASE SetFlag
  BY <1>2 DEF SetFlag, SpinInv
<1>3. CASE AcknowledgeClock \/ ReadC
  BY <1>3 DEF AcknowledgeClock, ReadC, ClockHandler, SpinInv
<1>4. CASE OpenClock \/ WriteClock \/ CloseClock
  BY <1>4 DEF OpenClock, WriteClock, CloseClock, Call, rtc_open, rtc_write,
              rtcVars, historyVars, SpinInv
<1>5. CASE ReadClock
  <2>1. /\ program' = [program EXCEPT ![current_terminal] = "clear_flag"]
        /\ UNCHANGED <<rtc_interrupt_happened, ticked>>
    BY <1>5 DEF ReadClock, Call, rtcVars, historyVars
  <2> QED
    BY <2>1 DEF SpinInv, TypeOK
<1>6. CASE ClearFlag
  BY <1>6 DEF ClearFlag, SpinInv
<1>7. CASE ReadReturns
  <2>1. /\ program' = [program EXCEPT ![current_terminal] = "user"]
        /\ UNCHANGED <<rtc_interrupt_happened, ticked>>
    BY <1>7 DEF ReadReturns, ReadStep
  <2> QED
    BY <2>1 DEF SpinInv, TypeOK
<1>8. Boot \/ KeyPress \/ Tick \/ OrdinaryKey \/ SwitchKey \/ WarningKey \/ ClockInterrupt
      \/ UNCHANGED vars => UNCHANGED <<rtc_interrupt_happened, program, ticked>>
  BY DEF Boot, BootStep, KeyPress, Tick, OrdinaryKey, SwitchKey, WarningKey,
         KeyboardHandler, ClockInterrupt, vars, rtcVars, cpuVars, historyVars
<1> QED
  BY <1>1, <1>2, <1>3, <1>4, <1>5, <1>6, <1>7, <1>8 DEF Next, HandlerStep, RtcRead

(* However many terminals clear and wait for the one flag, a read of the    *)
(* clock returns only after a tick that came since it cleared the flag.     *)
THEOREM ReadsWaitForTick == Spec => ReturnMeansTick
<1>1. Init => SpinInv
  BY DEF Init, RtcInit, SpinInv
<1>2. TypeOK /\ SpinInv /\ [Next]_vars =>
          [\A t \in Terms :
              program[t] = "spin" /\ program'[t] = "user" => t \in ticked]_vars
  <2> SUFFICES ASSUME TypeOK, SpinInv, Next, NEW t \in Terms,
                      program[t] = "spin", program'[t] = "user"
               PROVE  t \in ticked
    OBVIOUS
  <2>1. CASE ReadReturns
    BY <2>1 DEF ReadReturns, SpinInv
  <2>2. ~ReadClock /\ ~ClearFlag
    <3>1. ASSUME ReadClock PROVE FALSE
      BY <3>1 DEF ReadClock, Call, TypeOK
    <3>2. ASSUME ClearFlag PROVE FALSE
      BY <3>2 DEF ClearFlag, ReadStep, TypeOK
    <3> QED
      BY <3>1, <3>2
  <2>3. CASE UNCHANGED program
    BY <2>3
  <2>4. Next => ReadReturns \/ ReadClock \/ ClearFlag \/ UNCHANGED program
    BY DEF Next, Boot, BootStep, KeyPress, Tick, OrdinaryKey, SwitchKey, WarningKey,
           KeyboardHandler, ClockInterrupt, HandlerStep, SetFlag, AcknowledgeClock,
           ReadC, ClockHandler, OpenClock, WriteClock, CloseClock, Call, RtcRead,
           cpuVars
  <2> QED
    BY <2>1, <2>2, <2>3, <2>4
<1> QED
  BY <1>1, <1>2, SpinStep, TypeInit, TypeStep, PTL DEF Spec, ReturnMeansTick

=============================================================================
