-------------------------------- MODULE Pic --------------------------------
(***************************************************************************)
(* The two 8259 interrupt controllers as i8259.c drives them: the slave    *)
(* (lines 8 to 15) hangs on line 2 of the master.  A line is requested,    *)
(* accepted by the processor if nothing of the same or a higher priority   *)
(* is in service, and stays in service until an end-of-interrupt names it. *)
(* Masks are sets: a line is in a mask if its bit is 1.  The state of the  *)
(* chips themselves (imr, irr, isr) is external.                           *)
(***************************************************************************)
EXTENDS Naturals, FiniteSets, FiniteSetsExt

MasterLines   == 0 .. 7
SlaveLines    == 8 .. 15
SLAVE_IRQ_NUM == 2

VARIABLES
    master_mask, slave_mask,   \* the driver's copies
    imr,                       \* lines masked in the chips
    irr,                       \* lines requested and not yet accepted
    isr                        \* lines in service

picVars == <<master_mask, slave_mask, imr, irr, isr>>

PicTypeOK ==
    /\ master_mask \subseteq MasterLines
    /\ slave_mask \subseteq SlaveLines
    /\ imr \subseteq MasterLines \cup SlaveLines
    /\ irr \subseteq MasterLines \cup SlaveLines
    /\ isr \subseteq MasterLines \cup SlaveLines

(* Globals start at zero; the chips are as the BIOS left them.              *)
PicInit ==
    /\ master_mask = {} /\ slave_mask = {}
    /\ imr = MasterLines \cup SlaveLines
    /\ irr = {} /\ isr = {}

(* The initialization words clear the chips' masks; the driver's are set    *)
(* and not written out.                                                     *)
i8259_init ==
    /\ master_mask' = MasterLines
    /\ slave_mask' = SlaveLines
    /\ imr' = {}
    /\ irr' = {} /\ isr' = {}

(* "Enabling" flips the bit; for a line of the slave the call recurses for  *)
(* the line the slave hangs on.                                             *)
MasterLine(irq) == IF irq \in SlaveLines THEN SLAVE_IRQ_NUM ELSE irq

(* Mutant: no recursion.                                                    *)
EnableOneLine(irq) ==
    /\ master_mask' = SymDiff(master_mask, {irq} \cap MasterLines)
    /\ slave_mask' = SymDiff(slave_mask, {irq} \cap SlaveLines)
    /\ imr' = master_mask' \cup slave_mask'
    /\ UNCHANGED <<irr, isr>>

enable_irq(irq) ==
    /\ irq \in MasterLines \cup SlaveLines
    /\ master_mask' = SymDiff(master_mask, {MasterLine(irq)})
    /\ slave_mask' = SymDiff(slave_mask, {irq} \cap SlaveLines)
    /\ imr' = master_mask' \cup slave_mask'
    /\ UNCHANGED <<irr, isr>>

Deliverable(irq) ==
    /\ irq \in irr
    /\ {irq, MasterLine(irq)} \cap imr = {}
    /\ \A s \in isr \cap MasterLines : MasterLine(irq) < s
    /\ \A s \in isr \cap SlaveLines : irq \in SlaveLines => irq < s

(* What the processor accepts next when it accepts interrupts.              *)
Accepted(irq) ==
    /\ Deliverable(irq)
    /\ \A j \in irr : Deliverable(j) => MasterLine(irq) <= MasterLine(j)

InService(irq) == isr \cup {irq, MasterLine(irq)}

(* Mutant: the master is not told.                                          *)
EoiOfOneChip(s, irq) == s \ {irq}

(* The lines left in service of s after send_eoi(irq).                      *)
send_eoi(s, irq) == s \ {irq, MasterLine(irq)}

=============================================================================
