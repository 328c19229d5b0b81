------------------------- MODULE ProcessTableProofs -------------------------
(***************************************************************************)
(* Theorems about ProcessTable for any number of slots and terminals.      *)
(* First what holds whatever the user does (any Admitted), then what holds *)
(* when no other first shell exits ("exit_root" not admitted), then what   *)
(* holds when none of the three events is admitted.                        *)
(***************************************************************************)
EXTENDS ProcessTableRefinement, SequencesExt, SequenceTheorems, FiniteSetTheorems,
        WellFoundedInduction, TLAPS

USE DEF LoadContext, ParentLink, ClearBit

(* Start keeps the types of what it writes.                                 *)
LEMMA StartType ==
    ASSUME TypeOK, NEW t \in Terms, NEW procs \in SUBSET Slots,
           NEW p \in Slots, NEW by \in Callers, Start(t, procs, p, by)
    PROVE  /\ processes' \subseteq Slots
           /\ been_here' \in [Terms -> BOOLEAN]
           /\ running_pcb' \in [Terms -> Slots \cup {NULL}]
           /\ parent_pcb' \in [Slots -> Slots \cup {NULL}]
           /\ parent_frame' \in [Slots -> Frames]
           /\ term_start' \in [Slots -> BOOLEAN]
           /\ image' \in Slots \cup {NULL}
           /\ esp0' \in Slots \cup {NULL}
           /\ cpu' \in Slots \cup {NULL}
           /\ kstack' \in [Slots -> Modes]
<1>1. NoFrame \in Frames /\ [stack |-> cpu, by |-> by] \in Frames
  BY DEF TypeOK, NoFrame, Frames, Callers
<1>2. \A q \in Slots : ParkedMode(by, kstack[q]) \in Modes
  BY DEF TypeOK, ParkedMode, Modes
<1>3. kstack' \in [Slots -> Modes]
  BY <1>2 DEF TypeOK, Start, Modes
<1>4. parent_frame' \in [Slots -> Frames]
  BY <1>1 DEF TypeOK, Start
<1> QED
  BY <1>3, <1>4 DEF TypeOK, Start

(* SaveTerminal keeps the types of what it writes.                          *)
LEMMA SaveType ==
    ASSUME TypeOK, Interruptible, SaveTerminal
    PROVE  /\ saved' \in [Terms -> [stack : Slots \cup {NULL}, at : Modes]]
           /\ term_esp0' \in [Terms -> Slots \cup {NULL}]
<1>1. cpu \in Slots /\ kstack[cpu] \in Modes
  BY DEF TypeOK, Interruptible
<1> QED
  BY <1>1 DEF TypeOK, SaveTerminal

LEMMA TypeStep == TypeOK /\ [Next]_vars => TypeOK'
<1> SUFFICES ASSUME TypeOK, [Next]_vars PROVE TypeOK'
  OBVIOUS
<1>1. CASE Boot
  <2>1. PICK p \in Slots : Start(current_terminal, processes, p, "boot")
    BY <1>1 DEF Boot
  <2> QED
    BY <1>1, <2>1, StartType DEF Boot, TypeOK, Callers
<1>2. CASE Execute
  <2>1. PICK p \in Slots : Start(current_terminal, processes, p, "syscall")
    BY <1>2 DEF Execute
  <2> QED
    BY <1>2, <2>1, StartType DEF Execute, TypeOK, Callers
<1>3. CASE HaltFirstShell
  <2>1. PICK p \in Slots : Start(current_terminal, processes \ {Current}, p, "halt")
    BY <1>3 DEF HaltFirstShell
  <2>2. processes \ {Current} \in SUBSET Slots
    BY DEF TypeOK
  <2> QED
    BY <1>3, <2>1, <2>2, StartType DEF HaltFirstShell, TypeOK, Callers
<1>4. CASE HaltToParent
  <2>1. Current \in Slots
    BY <1>4 DEF HaltToParent, TypeOK, Current
  <2>2. parent_frame[Current] \in Frames /\ parent_pcb[Current] \in Slots \cup {NULL}
    BY <2>1 DEF TypeOK
  <2>3. kstack' \in [Slots -> Modes]
    BY <1>4, <2>2 DEF HaltToParent, TypeOK, Modes
  <2>4. lost' \in BOOLEAN
    BY <1>4 DEF HaltToParent, Intact
  <2> QED
    BY <1>4, <2>1, <2>2, <2>3, <2>4 DEF HaltToParent, TypeOK, Frames, pcbVars
<1>5. CASE Jump
  <2>1. kstack' \in [Slots -> Modes]
    BY <1>5 DEF Jump, TypeOK, Modes
  <2> QED
    BY <1>5, <2>1 DEF Jump, TypeOK, pcbVars, termVars, cpuVars
<1>6. CASE EnterWait \/ LeaveWait \/ Exception
  <2>1. kstack' \in [Slots -> Modes]
    BY <1>6 DEF EnterWait, LeaveWait, Exception, TypeOK, Modes
  <2> QED
    BY <1>6, <2>1 DEF EnterWait, LeaveWait, Exception, TypeOK, pcbVars, termVars, cpuVars
<1>7. ASSUME NEW t \in Terms, SwitchTo(t) PROVE TypeOK'
  <2>1. lost' \in BOOLEAN
    BY <1>7 DEF SwitchTo
  <2>2. saved[t].stack \in Slots \cup {NULL}
    BY DEF TypeOK
  <2> QED
    BY <1>7, <2>1, <2>2, SaveType DEF SwitchTo, TypeOK, pcbVars
<1>8. ASSUME NEW t \in Terms, OpenTerminal(t) PROVE TypeOK'
  <2>1. PICK p \in Slots : Start(t, processes, p, "switch")
    BY <1>8 DEF OpenTerminal
  <2> QED
    BY <1>8, <2>1, StartType, SaveType DEF OpenTerminal, TypeOK, Callers
<1>9. ASSUME NEW t \in Terms, OpenTerminalFull(t) PROVE TypeOK'
  BY <1>9, SaveType DEF OpenTerminalFull, TypeOK, pcbVars, cpuVars
<1>10. CASE UNCHANGED vars
  BY <1>10 DEF vars, pcbVars, termVars, cpuVars, TypeOK
<1> QED
  BY <1>1, <1>2, <1>3, <1>4, <1>5, <1>6, <1>7, <1>8, <1>9, <1>10 DEF Next

LEMMA TypeInit == Init => TypeOK
<1> SUFFICES ASSUME Init PROVE TypeOK
  OBVIOUS
<1>1. 0 \in Terms
  BY ConstantsAssumption DEF Terms
<1>2. NoFrame \in Frames
  BY DEF NoFrame, Frames, Callers
<1>3. "unused" \in Modes
  BY DEF Modes
<1>4. /\ been_here \in [Terms -> BOOLEAN]
      /\ term_start \in [Slots -> BOOLEAN]
      /\ lost \in BOOLEAN
  BY DEF Init
<1>5. /\ processes \subseteq Slots
      /\ current_terminal \in Terms
      /\ running_pcb \in [Terms -> Slots \cup {NULL}]
      /\ parent_pcb \in [Slots -> Slots \cup {NULL}]
      /\ term_esp0 \in [Terms -> Slots \cup {NULL}]
  BY <1>1 DEF Init
<1>6. /\ parent_frame \in [Slots -> Frames]
      /\ old_frame \in Frames
      /\ kstack \in [Slots -> Modes]
      /\ saved \in [Terms -> [stack : Slots \cup {NULL}, at : Modes]]
  BY <1>2, <1>3 DEF Init
<1> QED
  BY <1>4, <1>5, <1>6 DEF Init, TypeOK

(* Every reachable state has the declared types: in particular load and     *)
(* switch never install anything but a slot or "no process".                *)
THEOREM TypeCorrect == Spec => []TypeOK
BY TypeInit, TypeStep, PTL DEF Spec

-----------------------------------------------------------------------------
(* Some process ran in slot p.                                              *)
Known(p) == kstack[p] # "unused"

NothingBeforeBoot ==
    cpu = NULL /\ ~lost => processes = {} /\ \A t \in Terms : ~been_here[t]

OpenedTerminalsRun == \A t \in Terms :
    IF been_here[t] THEN running_pcb[t] # NULL /\ Known(running_pcb[t])
                    ELSE running_pcb[t] = NULL

(* halt of a known slot that is no first shell finds a parent PCB, and a    *)
(* frame recorded by a system call is on that parent's kernel stack.        *)
ParentsRecorded == \A p \in Slots : Known(p) /\ ~IsRoot(p) =>
    /\ parent_pcb[p] # NULL /\ Known(parent_pcb[p])
    /\ parent_frame[p].by = "syscall" => parent_frame[p].stack = parent_pcb[p]

(* The inductive invariant behind ContextFollowsTerminal.                   *)
ContextInv ==
    /\ TypeOK
    /\ ContextFollowsTerminal
    /\ BootShellImmortal
    /\ NothingBeforeBoot
    /\ OpenedTerminalsRun
    /\ ParentsRecorded

(* What execute does to the slots, whoever calls it.                        *)
LEMMA StartContext ==
    ASSUME ContextInv, NEW t \in Terms, NEW procs \in SUBSET Slots,
           NEW p \in Slots, NEW by \in Callers, Start(t, procs, p, by),
           by = "syscall" /\ been_here[t] => cpu = running_pcb[t],
           cpu # NULL => Known(cpu)
    PROVE  /\ OpenedTerminalsRun'
           /\ ParentsRecorded'
           /\ been_here'[t] /\ running_pcb'[t] = p
           /\ \A u \in Terms \ {t} : been_here'[u] = been_here[u] /\ running_pcb'[u] = running_pcb[u]
<1> USE DEF ContextInv
<1>1. /\ kstack' \in [Slots -> Modes] /\ kstack \in [Slots -> Modes]
      /\ been_here \in [Terms -> BOOLEAN] /\ been_here' \in [Terms -> BOOLEAN]
      /\ running_pcb \in [Terms -> Slots \cup {NULL}]
      /\ parent_pcb \in [Slots -> Slots \cup {NULL}]
      /\ parent_frame \in [Slots -> Frames]
      /\ term_start \in [Slots -> BOOLEAN]
  BY StartType DEF TypeOK
<1>2. \A q \in Slots : Known(q) => Known(q)'
  BY <1>1 DEF Known, Start, ParkedMode
<1>3. Known(p)'
  BY <1>1 DEF Known, Start
<1>4. /\ been_here'[t] /\ running_pcb'[t] = p
      /\ \A u \in Terms \ {t} : been_here'[u] = been_here[u] /\ running_pcb'[u] = running_pcb[u]
  BY <1>1 DEF Start
<1>5. p # NULL
  BY DEF Slots, NULL
<1>6. OpenedTerminalsRun'
  BY <1>1, <1>2, <1>3, <1>4, <1>5 DEF OpenedTerminalsRun
<1>7. \A q \in Slots \ {p} : /\ parent_pcb'[q] = parent_pcb[q]
                             /\ parent_frame'[q] = parent_frame[q]
                             /\ term_start'[q] = term_start[q]
  BY <1>1 DEF Start
<1>8. ASSUME NEW q \in Slots \ {p}, Known(q)', ~IsRoot(q)'
      PROVE  /\ parent_pcb'[q] # NULL /\ Known(parent_pcb[q])'
             /\ parent_frame'[q].by = "syscall" => parent_frame'[q].stack = parent_pcb'[q]
  <2>1. ~IsRoot(q)
    BY <1>7, <1>8 DEF IsRoot
  <2>2. CASE Known(q)
    <3>1. /\ parent_pcb[q] # NULL /\ Known(parent_pcb[q])
          /\ parent_frame[q].by = "syscall" => parent_frame[q].stack = parent_pcb[q]
      BY <2>1, <2>2 DEF ParentsRecorded
    <3>2. parent_pcb[q] \in Slots
      BY <1>1, <3>1
    <3> QED
      BY <1>2, <1>7, <3>1, <3>2 DEF Known
  <2>3. CASE ~Known(q)
    BY <1>1, <1>8, <2>3 DEF Known, Start, ParkedMode, Slots, NULL
  <2> QED
    BY <2>2, <2>3
<1>9. ASSUME ~IsRoot(p)'
      PROVE  /\ parent_pcb'[p] # NULL /\ Known(parent_pcb[p])'
             /\ parent_frame'[p].by = "syscall" => parent_frame'[p].stack = parent_pcb'[p]
  <2>1. p # 0 /\ been_here[t]
    BY <1>1, <1>9 DEF IsRoot, Start
  <2>2. parent_pcb'[p] = running_pcb[t] /\ parent_frame'[p] = [stack |-> cpu, by |-> by]
    BY <1>1, <2>1 DEF Start
  <2>3. running_pcb[t] \in Slots /\ Known(running_pcb[t]) /\ running_pcb[t] # NULL
    BY <1>1, <2>1 DEF OpenedTerminalsRun
  <2> QED
    BY <1>2, <2>1, <2>2, <2>3 DEF Known
<1>10. ParentsRecorded'
  BY <1>8, <1>9 DEF ParentsRecorded
<1> QED
  BY <1>4, <1>6, <1>10

LEMMA ContextStep == ContextInv /\ [Next]_vars => ContextInv'
<1> SUFFICES ASSUME ContextInv, [Next]_vars PROVE ContextInv'
  OBVIOUS
<1> USE DEF ContextInv
<1>0. TypeOK'
  BY TypeStep
<1>a. 0 \in Slots /\ 0 \in Terms /\ NULL \notin Slots
  BY ConstantsAssumption DEF Slots, Terms, NULL
<1>b. ASSUME NEW procs \in SUBSET Slots, NEW p \in Slots, LowestFree(procs, p), 0 \notin procs
      PROVE  p = 0
  BY <1>b, <1>a, ConstantsAssumption DEF LowestFree, Slots
<1>c. InUser => cpu \in Slots
  BY DEF InUser, TypeOK
<1>d. Interruptible => cpu \in Slots
  BY DEF Interruptible, TypeOK
<1>e. InUser \/ Interruptible \/ cpu = NULL => (cpu # NULL => Known(cpu))
  BY DEF InUser, Interruptible, Known
<1>f. ASSUME NEW t \in Terms, t = current_terminal, been_here[t], ~lost
      PROVE  cpu = running_pcb[t]
  BY <1>f DEF OpenedTerminalsRun, ContextFollowsTerminal, Current
<1>1. CASE Boot
  <2>1. PICK p \in Slots : Start(current_terminal, processes, p, "boot")
    BY <1>1 DEF Boot
  <2>2. processes = {} /\ \A t \in Terms : ~been_here[t]
    BY <1>1 DEF Boot, NothingBeforeBoot
  <2>3. p = 0
    BY <2>1, <2>2, <1>b DEF Start
  <2>4. OpenedTerminalsRun' /\ ParentsRecorded'
        /\ \A u \in Terms \ {current_terminal} : ~been_here'[u]
    BY <1>1, <1>e, <2>1, <2>2, StartContext DEF Boot, TypeOK, Callers
  <2> QED
    BY <1>0, <1>1, <1>a, <2>1, <2>3, <2>4
    DEF Boot, Start, ContextFollowsTerminal, BootShellImmortal, NothingBeforeBoot, Current, TypeOK
<1>2. CASE Execute
  <2>1. PICK p \in Slots : Start(current_terminal, processes, p, "syscall")
    BY <1>2 DEF Execute
  <2>2. been_here[current_terminal] => cpu = running_pcb[current_terminal]
    BY <1>2, <1>f DEF Execute, InUser, TypeOK
  <2>3. OpenedTerminalsRun' /\ ParentsRecorded' /\ running_pcb'[current_terminal] = p
        /\ \A u \in Terms \ {current_terminal} : been_here'[u] = been_here[u] /\ running_pcb'[u] = running_pcb[u]
    BY <1>2, <1>e, <2>1, <2>2, StartContext DEF Execute, TypeOK, Callers
  <2> QED
    BY <1>0, <1>2, <1>a, <1>c, <2>1, <2>3
    DEF Execute, Start, ContextFollowsTerminal, BootShellImmortal, NothingBeforeBoot, Current, TypeOK
<1>3. CASE HaltFirstShell
  <2>1. PICK p \in Slots : Start(current_terminal, processes \ {Current}, p, "halt")
    BY <1>3 DEF HaltFirstShell
  <2>2. processes \ {Current} \in SUBSET Slots
    BY DEF TypeOK
  <2>3. OpenedTerminalsRun' /\ ParentsRecorded' /\ running_pcb'[current_terminal] = p
        /\ \A u \in Terms \ {current_terminal} : been_here'[u] = been_here[u] /\ running_pcb'[u] = running_pcb[u]
    BY <1>3, <1>e, <2>1, <2>2, StartContext DEF HaltFirstShell, TypeOK, Callers
  <2>4. 0 \in processes'
    <3>1. CASE 0 \in processes \ {Current}
      BY <2>1, <3>1 DEF Start
    <3>2. CASE 0 \notin processes \ {Current}
      BY <2>1, <2>2, <3>2, <1>b DEF Start
    <3> QED
      BY <3>1, <3>2
  <2> QED
    BY <1>0, <1>3, <1>a, <1>c, <2>1, <2>3, <2>4
    DEF HaltFirstShell, Start, ContextFollowsTerminal, BootShellImmortal, NothingBeforeBoot, Current, TypeOK
<1>4. CASE HaltToParent
  <2> DEFINE s == Current  f == parent_frame[Current]
  <2>1. /\ s \in Slots /\ Known(s) /\ ~IsRoot(s) /\ been_here[current_terminal]
    BY <1>4 DEF HaltToParent, TypeOK, Current, OpenedTerminalsRun, IsRoot, IsFirstShell
  <2>2. /\ parent_pcb[s] \in Slots /\ Known(parent_pcb[s])
        /\ f.by = "syscall" => f.stack = parent_pcb[s]
    BY <2>1 DEF ParentsRecorded, TypeOK
  <2>3. \A q \in Slots : Known(q) => Known(q)'
    BY <1>4 DEF HaltToParent, TypeOK, Known
  <2>3a. \A q \in Slots : Known(q)' => Known(q)
    BY <1>4, <1>c DEF HaltToParent, TypeOK, Known, Intact, InUser
  <2>4. ~lost' => cpu' = parent_pcb[s]
    BY <1>4, <2>2 DEF HaltToParent, Intact
  <2>5. /\ running_pcb'[current_terminal] = parent_pcb[s]
        /\ \A u \in Terms \ {current_terminal} : running_pcb'[u] = running_pcb[u]
    BY <1>4 DEF HaltToParent, TypeOK
  <2>6. OpenedTerminalsRun'
    BY <1>4, <1>a, <2>1, <2>2, <2>3, <2>5 DEF HaltToParent, OpenedTerminalsRun, TypeOK, Known
  <2>7. ParentsRecorded'
    BY <1>4, <2>3, <2>3a DEF HaltToParent, ParentsRecorded, TypeOK, Known, IsRoot, pcbVars
  <2>8. ContextFollowsTerminal'
    BY <1>4, <2>4, <2>5 DEF HaltToParent, ContextFollowsTerminal, Current, TypeOK
  <2>9. 0 \in processes'
    BY <1>4, <2>1 DEF HaltToParent, BootShellImmortal, IsRoot, InUser
  <2>10. NothingBeforeBoot'
    BY <1>a, <2>2, <2>4 DEF NothingBeforeBoot
  <2> QED
    BY <1>0, <2>6, <2>7, <2>8, <2>9, <2>10 DEF BootShellImmortal
<1>5. CASE Jump \/ EnterWait \/ LeaveWait \/ Exception
  <2>1. UNCHANGED <<processes, pcbVars, termVars, cpuVars>>
    BY <1>5 DEF Jump, EnterWait, LeaveWait, Exception
  <2>2. cpu \in Slots
    BY <1>5, <1>c DEF Jump, EnterWait, LeaveWait, Exception, TypeOK
  <2>3. \A q \in Slots : Known(q)' <=> Known(q)
    BY <1>5, <2>2 DEF Jump, EnterWait, LeaveWait, Exception, TypeOK, Known, InUser
  <2>4. OpenedTerminalsRun'
    BY <2>1, <2>3 DEF OpenedTerminalsRun, TypeOK, termVars
  <2>5. ParentsRecorded'
    BY <2>1, <2>3 DEF ParentsRecorded, IsRoot, TypeOK, pcbVars
  <2> QED
    BY <1>0, <2>1, <2>4, <2>5
    DEF ContextFollowsTerminal, BootShellImmortal, NothingBeforeBoot, Current, termVars, cpuVars
<1>6. ASSUME NEW t \in Terms, SwitchTo(t) PROVE ContextInv'
  <2>1. /\ running_pcb[t] # NULL
        /\ term_esp0[t] = running_pcb[t] /\ saved[t].stack = running_pcb[t]
    BY <1>6 DEF SwitchTo, OpenedTerminalsRun, ContextFollowsTerminal
  <2>2. been_here[current_terminal] =>
           esp0 = running_pcb[current_terminal] /\ cpu = running_pcb[current_terminal]
    BY <1>6 DEF SwitchTo, Interruptible, OpenedTerminalsRun, ContextFollowsTerminal, Current, TypeOK
  <2>3. OpenedTerminalsRun' /\ ParentsRecorded'
    BY <1>6 DEF SwitchTo, OpenedTerminalsRun, ParentsRecorded, Known, IsRoot, pcbVars
  <2>4. ContextFollowsTerminal'
    BY <1>6, <2>1, <2>2 DEF SwitchTo, SaveTerminal, ContextFollowsTerminal, Current, TypeOK
  <2>5. BootShellImmortal' /\ NothingBeforeBoot'
    BY <1>6, <1>a, <1>d, <2>1 DEF SwitchTo, BootShellImmortal, NothingBeforeBoot
  <2> QED
    BY <1>0, <2>3, <2>4, <2>5
<1>7. ASSUME NEW t \in Terms, OpenTerminal(t) PROVE ContextInv'
  <2>1. PICK p \in Slots : Start(t, processes, p, "switch")
    BY <1>7 DEF OpenTerminal
  <2>2. OpenedTerminalsRun' /\ ParentsRecorded' /\ running_pcb'[t] = p
        /\ \A u \in Terms \ {t} : been_here'[u] = been_here[u] /\ running_pcb'[u] = running_pcb[u]
    BY <1>7, <1>e, <2>1, StartContext DEF OpenTerminal, TypeOK, Callers
  <2>3. been_here[current_terminal] =>
           esp0 = running_pcb[current_terminal] /\ cpu = running_pcb[current_terminal]
    BY <1>7 DEF OpenTerminal, Interruptible, OpenedTerminalsRun, ContextFollowsTerminal, Current, TypeOK
  <2>4. ContextFollowsTerminal'
    BY <1>7, <2>1, <2>2, <2>3 DEF OpenTerminal, SaveTerminal, Start, ContextFollowsTerminal, Current, TypeOK
  <2>5. BootShellImmortal' /\ NothingBeforeBoot'
    BY <1>7, <1>a, <1>d, <2>1 DEF OpenTerminal, Start, BootShellImmortal, NothingBeforeBoot
  <2> QED
    BY <1>0, <2>2, <2>4, <2>5
<1>8. ASSUME NEW t \in Terms, OpenTerminalFull(t) PROVE ContextInv'
  <2>1. been_here[current_terminal] =>
           esp0 = running_pcb[current_terminal] /\ cpu = running_pcb[current_terminal]
    BY <1>8 DEF OpenTerminalFull, Interruptible, OpenedTerminalsRun, ContextFollowsTerminal, Current, TypeOK
  <2>2. OpenedTerminalsRun' /\ ParentsRecorded' /\ running_pcb[t] = NULL
    BY <1>8 DEF OpenTerminalFull, OpenedTerminalsRun, ParentsRecorded, Known, IsRoot, pcbVars
  <2>3. ContextFollowsTerminal'
    BY <1>8, <2>1, <2>2 DEF OpenTerminalFull, SaveTerminal, ContextFollowsTerminal, Current, TypeOK
  <2>4. BootShellImmortal' /\ NothingBeforeBoot'
    BY <1>8 DEF OpenTerminalFull, BootShellImmortal, NothingBeforeBoot, cpuVars
  <2> QED
    BY <1>0, <2>2, <2>3, <2>4
<1>9. CASE UNCHANGED vars
  BY <1>9 DEF vars, pcbVars, termVars, cpuVars, TypeOK, ContextFollowsTerminal, Current,
     BootShellImmortal, NothingBeforeBoot, OpenedTerminalsRun, ParentsRecorded, Known, IsRoot
<1> QED
  BY <1>1, <1>2, <1>3, <1>4, <1>5, <1>6, <1>7, <1>8, <1>9 DEF Next

LEMMA ContextInit == Init => ContextInv
<1> SUFFICES ASSUME Init PROVE ContextInv
  OBVIOUS
<1>1. TypeOK
  BY TypeInit
<1> QED
  BY <1>1 DEF Init, ContextInv, ContextFollowsTerminal, Current, BootShellImmortal,
     NothingBeforeBoot, OpenedTerminalsRun, ParentsRecorded, Known, TypeOK

LEMMA ContextInductive == Spec => []ContextInv
BY ContextInit, ContextStep, PTL DEF Spec

(* Whatever is typed at the keyboard and whenever, the process a terminal   *)
(* shows runs in its own address space, on its own kernel stack, with its   *)
(* own tss.esp0, and every background terminal has saved its own.           *)
THEOREM ContextCorrect == Spec => []ContextFollowsTerminal
<1>1. ContextInv => ContextFollowsTerminal
  BY DEF ContextInv
<1> QED
  BY <1>1, ContextInductive, PTL

(* Slot 0 is never free after the boot shell started.                       *)
THEOREM BootShellStays == Spec => []BootShellImmortal
<1>1. ContextInv => BootShellImmortal
  BY DEF ContextInv
<1> QED
  BY <1>1, ContextInductive, PTL

-----------------------------------------------------------------------------
(* The kernel whose other terminals' first shells never exit.               *)
RootsStay == "exit_root" \notin Admitted

(* A slot once marked as a first shell is never freed, so a free slot is    *)
(* never marked: this is what the exit of a root breaks.                    *)
MarkedSlotsStay == \A s \in Slots : term_start[s] => s \in processes

(* The screen shows a terminal without a process only when all slots are    *)
(* taken, so such a terminal cannot start one.                              *)
NoProcessOnlyWhenFull == cpu # NULL /\ Current = NULL => processes = Slots

(* The inductive invariant behind the shape of the process tree.            *)
ForestInv ==
    /\ ContextInv
    /\ RunningIsAllocated
    /\ ParentWaits
    /\ NoLeakedSlot
    /\ MarkedSlotsStay
    /\ NoProcessOnlyWhenFull
    /\ \A s \in processes : Known(s)
    /\ parent_frame[0] = NoFrame

(* What Start(t, procs, p, by) leaves alone and what it writes, as facts    *)
(* about single slots.                                                      *)
StartEffect(t, procs, p, by) ==
    /\ p \notin procs /\ processes' = procs \cup {p}
    /\ \A q \in Slots \ {p} : /\ parent_pcb'[q] = parent_pcb[q]
                              /\ parent_frame'[q] = parent_frame[q]
                              /\ term_start'[q] = term_start[q]
                              /\ q # cpu => kstack'[q] = kstack[q]
                              /\ q = cpu => kstack'[q] = ParkedMode(by, kstack[q])
    /\ parent_pcb'[p] = IF p # 0 /\ been_here[t] THEN running_pcb[t] ELSE NULL
    /\ parent_frame'[p] = IF p = 0 THEN NoFrame ELSE [stack |-> cpu, by |-> by]
    /\ term_start'[p] <=> (term_start[p] \/ ~been_here[t])
    /\ kstack'[p] = "user"
    /\ running_pcb'[t] = p
    /\ \A u \in Terms \ {t} : running_pcb'[u] = running_pcb[u]
    /\ cpu' = p

LEMMA StartFacts ==
    ASSUME TypeOK, NEW t \in Terms, NEW procs \in SUBSET Slots,
           NEW p \in Slots, NEW by \in Callers, Start(t, procs, p, by)
    PROVE  StartEffect(t, procs, p, by)
BY DEF Start, TypeOK, LowestFree, StartEffect

(* A new first shell adds a tree of one process.                            *)
LEMMA OpenForest ==
    ASSUME ForestInv, NEW t \in Terms, NEW p \in Slots, NEW by \in {"boot", "switch"},
           Start(t, processes, p, by), ~been_here[t], current_terminal' = t
    PROVE  /\ RunningIsAllocated' /\ ParentWaits' /\ NoLeakedSlot'
           /\ MarkedSlotsStay' /\ NoProcessOnlyWhenFull'
           /\ \A s \in processes' : Known(s)'
<1> USE DEF ForestInv, ContextInv
<1>1. processes \in SUBSET Slots /\ by \in Callers /\ p # NULL
  BY DEF TypeOK, Callers, Slots, NULL
<1>2. /\ p \notin processes /\ processes' = processes \cup {p}
      /\ \A q \in Slots \ {p} : /\ parent_pcb'[q] = parent_pcb[q]
                                /\ parent_frame'[q] = parent_frame[q]
                                /\ term_start'[q] = term_start[q]
                                /\ kstack'[q] = kstack[q]
      /\ term_start'[p]
      /\ kstack'[p] = "user"
      /\ running_pcb'[t] = p
      /\ \A u \in Terms \ {t} : running_pcb'[u] = running_pcb[u]
  <2>1. StartEffect(t, processes, p, by)
    BY <1>1, StartFacts
  <2>2. \A q \in Slots : ParkedMode(by, kstack[q]) = kstack[q]
    <3>1. by # "syscall" /\ by # "halt"
      OBVIOUS
    <3> QED
      BY <3>1 DEF ParkedMode
  <2> QED
    BY <2>1, <2>2 DEF StartEffect
<1>3. \A q \in processes : q \in Slots \ {p} /\ (IsRoot(q)' <=> IsRoot(q))
  BY <1>1, <1>2 DEF IsRoot
<1>4. IsRoot(p)'
  BY <1>2 DEF IsRoot
<1>5. running_pcb[t] = NULL
  BY DEF OpenedTerminalsRun
<1>6. RunningIsAllocated'
  BY <1>1, <1>2, <1>5 DEF RunningIsAllocated
<1>7. ParentWaits'
  <2> SUFFICES ASSUME NEW s \in processes', ~IsRoot(s)'
               PROVE  /\ parent_pcb'[s] \in processes' \ {s}
                      /\ parent_frame'[s] = [stack |-> parent_pcb'[s], by |-> "syscall"]
                      /\ kstack'[parent_pcb'[s]] = "execute"
                      /\ \A u \in Terms : running_pcb'[u] # parent_pcb'[s]
                      /\ \A c \in processes' \ {s} : ~IsRoot(c)' => parent_pcb'[c] # parent_pcb'[s]
    BY DEF ParentWaits
  <2>1. s \in processes /\ ~IsRoot(s) /\ parent_pcb'[s] = parent_pcb[s]
    BY <1>2, <1>3, <1>4
  <2>2. /\ parent_pcb[s] \in processes \ {s}
        /\ parent_frame[s] = [stack |-> parent_pcb[s], by |-> "syscall"]
        /\ kstack[parent_pcb[s]] = "execute"
        /\ \A u \in Terms : running_pcb[u] # parent_pcb[s]
        /\ \A c \in processes \ {s} : ~IsRoot(c) => parent_pcb[c] # parent_pcb[s]
    BY <2>1 DEF ParentWaits
  <2>3. \A c \in processes' \ {s} : ~IsRoot(c)' => c \in processes /\ ~IsRoot(c) /\ parent_pcb'[c] = parent_pcb[c]
    BY <1>2, <1>3, <1>4
  <2> QED
    BY <1>2, <1>3, <2>1, <2>2, <2>3
<1>8. NoLeakedSlot'
  <2> SUFFICES ASSUME NEW s \in processes'
               PROVE  \/ \E u \in Terms : running_pcb'[u] = s
                      \/ \E c \in processes' : ~IsRoot(c)' /\ parent_pcb'[c] = s
    BY DEF NoLeakedSlot
  <2>1. CASE s = p
    BY <1>2, <2>1
  <2>2. CASE s \in processes /\ \E u \in Terms : running_pcb[u] = s
    BY <1>1, <1>2, <1>5, <2>2 DEF TypeOK, Slots, NULL
  <2>3. CASE s \in processes /\ \E c \in processes : ~IsRoot(c) /\ parent_pcb[c] = s
    BY <1>2, <1>3, <2>3
  <2> QED
    BY <1>2, <2>1, <2>2, <2>3 DEF NoLeakedSlot
<1>9. MarkedSlotsStay'
  <2> SUFFICES ASSUME NEW s \in Slots, term_start'[s] PROVE s \in processes'
    BY DEF MarkedSlotsStay
  <2>1. s = p \/ term_start[s]
    BY <1>2
  <2> QED
    BY <1>2, <2>1 DEF MarkedSlotsStay
<1>10. NoProcessOnlyWhenFull'
  BY <1>1, <1>2 DEF NoProcessOnlyWhenFull, Current
<1>11. \A s \in processes' : Known(s)'
  BY <1>2, <1>3 DEF Known
<1> QED
  BY <1>6, <1>7, <1>8, <1>9, <1>10, <1>11

(* A system call execute hangs a leaf below the running process.            *)
LEMMA ForkForest ==
    ASSUME ForestInv, RootsStay, Execute
    PROVE  ForestInv'
<1> USE DEF ForestInv, ContextInv
<1>1. PICK p \in Slots : Start(current_terminal, processes, p, "syscall")
  BY DEF Execute
<1>2. processes \in SUBSET Slots /\ "syscall" \in Callers /\ p # NULL /\ current_terminal \in Terms
  BY DEF TypeOK, Callers, Slots, NULL
<1>3. StartEffect(current_terminal, processes, p, "syscall")
  BY <1>1, <1>2, StartFacts
<1> DEFINE s == Current
<1>4. /\ s \in Slots /\ cpu = s /\ s \in processes /\ been_here[current_terminal]
      /\ s = running_pcb[current_terminal] /\ kstack[s] = "user" /\ s # NULL
  <2>1. cpu # NULL /\ kstack[cpu] = "user" /\ ~lost
    BY DEF Execute, InUser
  <2>2. Current # NULL
    BY <1>2, <1>3, <2>1 DEF NoProcessOnlyWhenFull, StartEffect
  <2> QED
    BY <2>1, <2>2 DEF TypeOK, Current, ContextFollowsTerminal, OpenedTerminalsRun, RunningIsAllocated
<1>5. 0 \in processes /\ p # 0 /\ p # s
  BY <1>3, <1>4, <1>2 DEF BootShellImmortal, StartEffect
<1>6. ~IsRoot(p)'
  BY <1>3, <1>4, <1>5 DEF IsRoot, StartEffect, MarkedSlotsStay
<1>7. /\ parent_pcb'[p] = s
      /\ parent_frame'[p] = [stack |-> s, by |-> "syscall"]
      /\ kstack'[p] = "user" /\ kstack'[s] = "execute"
      /\ \A q \in Slots \ {p, s} : kstack'[q] = kstack[q]
      /\ \A q \in Slots \ {p} : parent_pcb'[q] = parent_pcb[q] /\ parent_frame'[q] = parent_frame[q]
      /\ \A q \in Slots \ {p} : IsRoot(q)' <=> IsRoot(q)
      /\ running_pcb'[current_terminal] = p
      /\ \A u \in Terms \ {current_terminal} : running_pcb'[u] = running_pcb[u]
      /\ p \notin processes /\ processes' = processes \cup {p}
      /\ current_terminal' = current_terminal
  <2>1. /\ parent_pcb'[p] = s
        /\ parent_frame'[p] = [stack |-> s, by |-> "syscall"]
    BY <1>3, <1>4, <1>5 DEF StartEffect
  <2>2. kstack'[s] = "execute"
    BY <1>3, <1>4, <1>5 DEF StartEffect, ParkedMode
  <2>3. \A q \in Slots \ {p} : IsRoot(q)' <=> IsRoot(q)
    BY <1>3 DEF StartEffect, IsRoot
  <2> QED
    BY <1>3, <1>4, <2>1, <2>2, <2>3 DEF StartEffect, Execute
<1> HIDE DEF s
<1>8. RunningIsAllocated'
  <2>1. \A u \in Terms : running_pcb'[u] # NULL => running_pcb'[u] \in processes'
    BY <1>7 DEF RunningIsAllocated
  <2>2. ASSUME NEW u \in Terms, NEW v \in Terms, running_pcb'[u] # NULL, running_pcb'[u] = running_pcb'[v]
        PROVE  u = v
    <3>1. \A w \in Terms : running_pcb[w] # p
      BY <1>2, <1>7 DEF RunningIsAllocated
    <3> QED
      BY <1>7, <2>2, <3>1 DEF RunningIsAllocated
  <2> QED
    BY <2>1, <2>2 DEF RunningIsAllocated
<1>9. \A c \in processes : ~IsRoot(c) => /\ parent_pcb[c] \in processes /\ parent_pcb[c] # s /\ parent_pcb[c] # p
  BY <1>4, <1>7 DEF ParentWaits
<1>10. ParentWaits'
  <2> SUFFICES ASSUME NEW x \in processes', ~IsRoot(x)'
               PROVE  /\ parent_pcb'[x] \in processes' \ {x}
                      /\ parent_frame'[x] = [stack |-> parent_pcb'[x], by |-> "syscall"]
                      /\ kstack'[parent_pcb'[x]] = "execute"
                      /\ \A u \in Terms : running_pcb'[u] # parent_pcb'[x]
                      /\ \A c \in processes' \ {x} : ~IsRoot(c)' => parent_pcb'[c] # parent_pcb'[x]
    BY DEF ParentWaits
  <2>1. CASE x = p
    <3>1. \A u \in Terms : running_pcb'[u] # s
      BY <1>2, <1>4, <1>5, <1>7 DEF RunningIsAllocated
    <3>2. \A c \in processes' \ {p} : ~IsRoot(c)' => parent_pcb'[c] # s
      BY <1>2, <1>7, <1>9
    <3> QED
      BY <1>4, <1>5, <1>7, <2>1, <3>1, <3>2
  <2>2. CASE x \in processes
    <3>1. x \in Slots \ {p} /\ ~IsRoot(x) /\ parent_pcb'[x] = parent_pcb[x]
      BY <1>2, <1>7, <2>2
    <3>2. /\ parent_pcb[x] \in processes \ {x}
          /\ parent_frame[x] = [stack |-> parent_pcb[x], by |-> "syscall"]
          /\ kstack[parent_pcb[x]] = "execute"
          /\ \A u \in Terms : running_pcb[u] # parent_pcb[x]
          /\ \A c \in processes \ {x} : ~IsRoot(c) => parent_pcb[c] # parent_pcb[x]
      BY <2>2, <3>1 DEF ParentWaits
    <3>3. parent_pcb[x] \in Slots \ {p, s}
      BY <1>2, <1>9, <2>2, <3>1
    <3>4. \A c \in processes' \ {x} : ~IsRoot(c)' => parent_pcb'[c] # parent_pcb[x]
      BY <1>2, <1>7, <1>9, <2>2, <3>1, <3>2
    <3> QED
      BY <1>7, <3>1, <3>2, <3>3, <3>4
  <2> QED
    BY <1>7, <2>1, <2>2
<1>11. NoLeakedSlot'
  <2> SUFFICES ASSUME NEW x \in processes'
               PROVE  \/ \E u \in Terms : running_pcb'[u] = x
                      \/ \E c \in processes' : ~IsRoot(c)' /\ parent_pcb'[c] = x
    BY DEF NoLeakedSlot
  <2>1. CASE x = p
    BY <1>2, <1>7, <2>1
  <2>2. CASE x = s
    BY <1>6, <1>7, <2>2
  <2>3. CASE x \in processes \ {s} /\ \E u \in Terms : running_pcb[u] = x
    BY <1>4, <1>7, <2>3
  <2>4. CASE x \in processes /\ \E c \in processes : ~IsRoot(c) /\ parent_pcb[c] = x
    BY <1>2, <1>7, <2>4
  <2> QED
    BY <1>7, <2>1, <2>2, <2>3, <2>4 DEF NoLeakedSlot
<1>12. MarkedSlotsStay'
  <2> SUFFICES ASSUME NEW x \in Slots, term_start'[x] PROVE x \in processes'
    BY DEF MarkedSlotsStay
  <2>1. term_start[x]
    BY <1>3, <1>4 DEF StartEffect
  <2> QED
    BY <1>7, <2>1 DEF MarkedSlotsStay
<1>13. NoProcessOnlyWhenFull'
  BY <1>2, <1>7 DEF NoProcessOnlyWhenFull, Current
<1>14. \A x \in processes' : Known(x)'
  BY <1>2, <1>7 DEF Known
<1>15. parent_frame'[0] = NoFrame
  BY <1>2, <1>5, <1>7
<1>16. ContextInv'
  BY ContextStep DEF Next
<1> QED
  BY <1>8, <1>10, <1>11, <1>12, <1>13, <1>14, <1>15, <1>16

(* halt of a process that is no first shell removes a leaf, and finds its   *)
(* parent's frame in place.                                                 *)
LEMMA ReturnForest ==
    ASSUME ForestInv, HaltToParent
    PROVE  /\ ForestInv'
           /\ processes' = processes \ {Current}
           /\ running_pcb'[current_terminal] = parent_pcb[Current]
           /\ cpu' = parent_pcb[Current]
           /\ ~lost'
<1> USE DEF ForestInv, ContextInv
<1> DEFINE s == Current  q == parent_pcb[Current]
<1>1. /\ s \in processes /\ s \in Slots /\ ~IsRoot(s) /\ s = running_pcb[current_terminal]
      /\ current_terminal \in Terms /\ cpu = s /\ s # NULL
  BY DEF HaltToParent, InUser, TypeOK, Current, RunningIsAllocated, ContextFollowsTerminal, IsRoot, IsFirstShell
<1>2. /\ q \in processes \ {s} /\ q \in Slots
      /\ parent_frame[s] = [stack |-> q, by |-> "syscall"]
      /\ kstack[q] = "execute"
      /\ \A u \in Terms : running_pcb[u] # q
      /\ \A c \in processes \ {s} : ~IsRoot(c) => parent_pcb[c] # q
  BY <1>1 DEF ParentWaits, TypeOK
<1>3. q # NULL
  BY <1>2 DEF Slots, NULL
<1>4. Intact(parent_frame[s])
  BY <1>2, <1>3 DEF Intact
<1>5. /\ processes' = processes \ {s}
      /\ running_pcb'[current_terminal] = q
      /\ \A u \in Terms \ {current_terminal} : running_pcb'[u] = running_pcb[u]
      /\ cpu' = q /\ ~lost'
      /\ kstack'[q] = "jump" /\ \A x \in Slots \ {s, q} : kstack'[x] = kstack[x]
      /\ parent_pcb' = parent_pcb /\ parent_frame' = parent_frame /\ term_start' = term_start
      /\ current_terminal' = current_terminal
  <2>1. parent_frame[s].stack = q /\ q # s
    BY <1>2
  <2>2. kstack' = [x \in Slots |-> CASE x = s -> "dead"
                                     [] x = q /\ x # s -> "jump"
                                     [] OTHER -> kstack[x]]
    BY <1>1, <1>4, <2>1 DEF HaltToParent
  <2>3. kstack'[q] = "jump" /\ \A x \in Slots \ {s, q} : kstack'[x] = kstack[x]
    BY <1>2, <2>1, <2>2
  <2> QED
    BY <1>1, <1>4, <2>1, <2>3 DEF HaltToParent, TypeOK, pcbVars
<1>6. \A x \in Slots : IsRoot(x)' <=> IsRoot(x)
  BY <1>5 DEF IsRoot
<1>7. processes \subseteq Slots
  BY DEF TypeOK
<1> HIDE DEF s, q
<1>8. RunningIsAllocated'
  <2>1. \A u \in Terms : running_pcb'[u] # NULL => running_pcb'[u] \in processes'
    BY <1>1, <1>2, <1>5 DEF RunningIsAllocated
  <2>2. ASSUME NEW u \in Terms, NEW v \in Terms, running_pcb'[u] # NULL, running_pcb'[u] = running_pcb'[v]
        PROVE  u = v
    BY <1>2, <1>5, <2>2 DEF RunningIsAllocated
  <2> QED
    BY <2>1, <2>2 DEF RunningIsAllocated
<1>9. \A c \in processes : ~IsRoot(c) => parent_pcb[c] # s
  BY <1>1 DEF ParentWaits
<1>10. ParentWaits'
  <2> SUFFICES ASSUME NEW x \in processes \ {s}, ~IsRoot(x)
               PROVE  /\ parent_pcb[x] \in (processes \ {s}) \ {x}
                      /\ parent_frame[x] = [stack |-> parent_pcb[x], by |-> "syscall"]
                      /\ kstack'[parent_pcb[x]] = "execute"
                      /\ \A u \in Terms : running_pcb'[u] # parent_pcb[x]
                      /\ \A c \in (processes \ {s}) \ {x} : ~IsRoot(c) => parent_pcb[c] # parent_pcb[x]
    BY <1>5, <1>6, <1>7 DEF ParentWaits
  <2>1. /\ parent_pcb[x] \in processes \ {x}
        /\ parent_frame[x] = [stack |-> parent_pcb[x], by |-> "syscall"]
        /\ kstack[parent_pcb[x]] = "execute"
        /\ \A u \in Terms : running_pcb[u] # parent_pcb[x]
        /\ \A c \in processes \ {x} : ~IsRoot(c) => parent_pcb[c] # parent_pcb[x]
    BY DEF ParentWaits
  <2>2. parent_pcb[x] \in Slots \ {s, q}
    BY <1>2, <1>7, <1>9, <2>1
  <2> QED
    BY <1>5, <2>1, <2>2
<1>11. NoLeakedSlot'
  <2> SUFFICES ASSUME NEW x \in processes \ {s}
               PROVE  \/ \E u \in Terms : running_pcb'[u] = x
                      \/ \E c \in processes \ {s} : ~IsRoot(c) /\ parent_pcb[c] = x
    BY <1>5, <1>6, <1>7 DEF NoLeakedSlot
  <2>1. CASE x = q
    BY <1>1, <1>5, <2>1
  <2>2. CASE \E u \in Terms : running_pcb[u] = x
    BY <1>1, <1>5, <2>2
  <2>3. CASE x # q /\ \E c \in processes : ~IsRoot(c) /\ parent_pcb[c] = x
    <3>1. parent_pcb[s] = q
      BY DEF s, q
    <3> QED
      BY <2>3, <3>1
  <2> QED
    BY <2>1, <2>2, <2>3 DEF NoLeakedSlot
<1>12. MarkedSlotsStay'
  BY <1>1, <1>5 DEF MarkedSlotsStay, IsRoot
<1>13. NoProcessOnlyWhenFull'
  BY <1>3, <1>5 DEF NoProcessOnlyWhenFull, Current
<1>14. \A x \in processes' : Known(x)'
  BY <1>5, <1>7 DEF Known
<1>15. ContextInv'
  BY ContextStep DEF Next
<1> QED
  BY <1>5, <1>8, <1>10, <1>11, <1>12, <1>13, <1>14, <1>15 DEF s, q

(* Steps that leave the tree alone keep its invariants.                     *)
LEMMA ForestStable ==
    ASSUME ForestInv,
           processes' = processes, running_pcb' = running_pcb, term_start' = term_start,
           \A q \in Slots : q # 0 => parent_pcb'[q] = parent_pcb[q] /\ parent_frame'[q] = parent_frame[q],
           \A q \in Slots : Known(q) => Known(q)',
           \A q \in Slots : kstack[q] = "execute" => kstack'[q] = "execute"
    PROVE  /\ RunningIsAllocated' /\ ParentWaits' /\ NoLeakedSlot'
           /\ MarkedSlotsStay' /\ \A s \in processes' : Known(s)'
<1> USE DEF ForestInv, ContextInv
<1>1. processes \subseteq Slots
  BY DEF TypeOK
<1>2. \A q \in Slots : (IsRoot(q)' <=> IsRoot(q)) /\ (~IsRoot(q) => parent_pcb'[q] = parent_pcb[q] /\ parent_frame'[q] = parent_frame[q])
  BY DEF IsRoot
<1>3. RunningIsAllocated' /\ MarkedSlotsStay'
  BY DEF RunningIsAllocated, MarkedSlotsStay
<1>4. ParentWaits'
  <2> SUFFICES ASSUME NEW s \in processes, ~IsRoot(s)
               PROVE  /\ parent_pcb[s] \in processes \ {s}
                      /\ parent_frame[s] = [stack |-> parent_pcb[s], by |-> "syscall"]
                      /\ kstack'[parent_pcb[s]] = "execute"
                      /\ \A u \in Terms : running_pcb[u] # parent_pcb[s]
                      /\ \A c \in processes \ {s} : ~IsRoot(c) => parent_pcb[c] # parent_pcb[s]
    BY <1>1, <1>2 DEF ParentWaits
  <2> QED
    BY <1>1 DEF ParentWaits
<1>5. NoLeakedSlot'
  BY <1>1, <1>2 DEF NoLeakedSlot
<1>6. \A s \in processes' : Known(s)'
  BY <1>1
<1> QED
  BY <1>3, <1>4, <1>5, <1>6

(* With first shells that stay, only slot 0 is ever reloaded, into itself,  *)
(* and the tree stays as it is.                                             *)
LEMMA ReloadForest ==
    ASSUME RootsStay, ForestInv, HaltFirstShell
    PROVE  /\ processes' = processes /\ running_pcb' = running_pcb /\ term_start' = term_start
           /\ \A q \in Slots : q # 0 => parent_pcb'[q] = parent_pcb[q] /\ parent_frame'[q] = parent_frame[q]
           /\ parent_frame'[0] = NoFrame
           /\ \A q \in Slots : kstack'[q] = kstack[q]
           /\ current_terminal' = current_terminal
           /\ Current = 0
<1> USE DEF ForestInv, ContextInv
<1>a. 0 \in Slots /\ NULL \notin Slots /\ processes \in SUBSET Slots /\ current_terminal \in Terms
  BY ConstantsAssumption DEF Slots, NULL, TypeOK
<1>1. Current = 0 /\ cpu = 0
  BY DEF HaltFirstShell, RootsStay, ContextFollowsTerminal, InUser
<1>2. PICK p \in Slots : Start(current_terminal, processes \ {0}, p, "halt")
  BY <1>1 DEF HaltFirstShell
<1>3. p = 0
  BY <1>a, <1>2, ConstantsAssumption DEF Start, LowestFree, Slots
<1>4. processes \ {0} \in SUBSET Slots /\ "halt" \in Callers
  BY <1>a DEF Callers
<1>5. StartEffect(current_terminal, processes \ {0}, 0, "halt")
  BY <1>a, <1>2, <1>3, <1>4, StartFacts
<1>6. 0 \in processes /\ been_here[current_terminal] /\ running_pcb[current_terminal] = 0
  BY <1>a, <1>1 DEF BootShellImmortal, NULL, OpenedTerminalsRun, Current
<1>7. processes' = processes
  BY <1>5, <1>6 DEF StartEffect
<1>8. running_pcb' = running_pcb
  BY <1>2, <1>3, <1>6 DEF Start, TypeOK
<1>9. term_start' = term_start
  <2>1. term_start' = [term_start EXCEPT ![0] = @ \/ ~been_here[current_terminal]]
    BY <1>2, <1>3 DEF Start
  <2>2. term_start[0] \/ ~been_here[current_terminal] <=> term_start[0]
    BY <1>6
  <2> QED
    BY <1>a, <2>1, <2>2 DEF TypeOK
<1>10. \A q \in Slots : kstack'[q] = kstack[q]
  <2>1. kstack[0] = "user" /\ kstack'[0] = "user" /\ \A q \in Slots : q # 0 => kstack'[q] = kstack[q]
    BY <1>1, <1>5 DEF HaltFirstShell, InUser, StartEffect
  <2> QED
    BY <2>1
<1> QED
  BY <1>1, <1>5, <1>7, <1>8, <1>9, <1>10 DEF StartEffect, HaltFirstShell

LEMMA ForestStep == RootsStay /\ ForestInv /\ [Next]_vars => ForestInv'
<1> SUFFICES ASSUME RootsStay, ForestInv, [Next]_vars PROVE ForestInv'
  OBVIOUS
<1> USE DEF ForestInv, ContextInv
<1>0. ContextInv'
  BY ContextStep
<1>a. 0 \in Slots /\ 0 \in Terms /\ NULL \notin Slots /\ processes \in SUBSET Slots /\ current_terminal \in Terms
  BY ConstantsAssumption DEF Slots, Terms, NULL, TypeOK
<1>1. CASE Boot
  <2>1. PICK p \in Slots : Start(current_terminal, processes, p, "boot")
    BY <1>1 DEF Boot
  <2>2. ~been_here[current_terminal] /\ processes = {}
    BY <1>1, <1>a DEF Boot, NothingBeforeBoot
  <2>3. p = 0
    BY <1>a, <2>1, <2>2, ConstantsAssumption DEF Start, LowestFree, Slots
  <2>4. parent_frame'[0] = NoFrame
    BY <1>a, <2>1, <2>3 DEF Start, TypeOK
  <2> QED
    BY <1>0, <1>1, <1>a, <2>1, <2>2, <2>4, OpenForest DEF Boot
<1>2. CASE Execute
  BY <1>2, ForkForest
<1>3. CASE HaltToParent
  BY <1>3, ReturnForest
<1>4. CASE HaltFirstShell
  <2>1. /\ processes' = processes /\ running_pcb' = running_pcb /\ term_start' = term_start
        /\ \A q \in Slots : q # 0 => parent_pcb'[q] = parent_pcb[q] /\ parent_frame'[q] = parent_frame[q]
        /\ parent_frame'[0] = NoFrame
        /\ \A q \in Slots : kstack'[q] = kstack[q]
        /\ current_terminal' = current_terminal /\ Current = 0
    BY <1>4, ReloadForest
  <2>2. /\ RunningIsAllocated' /\ ParentWaits' /\ NoLeakedSlot'
        /\ MarkedSlotsStay' /\ \A s \in processes' : Known(s)'
    BY <2>1, ForestStable DEF Known
  <2>3. NoProcessOnlyWhenFull'
    BY <1>a, <2>1 DEF NoProcessOnlyWhenFull, Current
  <2> QED
    BY <1>0, <2>1, <2>2, <2>3
<1>5. CASE Jump \/ EnterWait \/ LeaveWait \/ Exception
  <2>1. /\ UNCHANGED <<processes, pcbVars, termVars, cpuVars>>
        /\ cpu \in Slots /\ kstack[cpu] # "execute"
    BY <1>5 DEF Jump, EnterWait, LeaveWait, Exception, InUser, TypeOK
  <2>2. \A q \in Slots : (Known(q) => Known(q)') /\ (kstack[q] = "execute" => kstack'[q] = "execute")
    BY <1>5, <2>1 DEF Jump, EnterWait, LeaveWait, Exception, InUser, TypeOK, Known
  <2>3. /\ RunningIsAllocated' /\ ParentWaits' /\ NoLeakedSlot'
        /\ MarkedSlotsStay' /\ \A s \in processes' : Known(s)'
    BY <2>1, <2>2, ForestStable DEF pcbVars, termVars
  <2> QED
    BY <1>0, <2>1, <2>3 DEF pcbVars, termVars, cpuVars, NoProcessOnlyWhenFull, Current
<1>6. ASSUME NEW t \in Terms, SwitchTo(t) \/ OpenTerminalFull(t) PROVE ForestInv'
  <2>1. UNCHANGED <<processes, running_pcb, pcbVars, kstack>>
    BY <1>6 DEF SwitchTo, OpenTerminalFull
  <2>2. /\ RunningIsAllocated' /\ ParentWaits' /\ NoLeakedSlot'
        /\ MarkedSlotsStay' /\ \A s \in processes' : Known(s)'
    BY <2>1, ForestStable DEF pcbVars, Known
  <2>3. NoProcessOnlyWhenFull'
    BY <1>6, <2>1 DEF SwitchTo, OpenTerminalFull, NoProcessOnlyWhenFull, Current, OpenedTerminalsRun
  <2> QED
    BY <1>0, <2>1, <2>2, <2>3 DEF pcbVars
<1>7. ASSUME NEW t \in Terms, OpenTerminal(t) PROVE ForestInv'
  <2>1. PICK p \in Slots : Start(t, processes, p, "switch")
    BY <1>7 DEF OpenTerminal
  <2>2. p # 0
    BY <1>7, <2>1 DEF OpenTerminal, Interruptible, BootShellImmortal, Start, LowestFree
  <2>3. parent_frame'[0] = NoFrame
    BY <1>a, <2>1, <2>2 DEF Start, TypeOK
  <2> QED
    BY <1>0, <1>7, <2>1, <2>3, OpenForest DEF OpenTerminal
<1>8. CASE UNCHANGED vars
  <2>1. UNCHANGED <<processes, running_pcb, pcbVars, kstack, current_terminal, cpu>>
    BY <1>8 DEF vars, termVars, cpuVars
  <2>2. /\ RunningIsAllocated' /\ ParentWaits' /\ NoLeakedSlot'
        /\ MarkedSlotsStay' /\ \A s \in processes' : Known(s)'
    BY <2>1, ForestStable DEF pcbVars, Known
  <2> QED
    BY <1>0, <2>1, <2>2 DEF pcbVars, NoProcessOnlyWhenFull, Current
<1> QED
  BY <1>1, <1>2, <1>3, <1>4, <1>5, <1>6, <1>7, <1>8 DEF Next

LEMMA ForestInit == Init => ForestInv
<1> SUFFICES ASSUME Init PROVE ForestInv
  OBVIOUS
<1>1. ContextInv
  BY ContextInit
<1>2. 0 \in Slots
  BY ConstantsAssumption DEF Slots
<1> QED
  BY <1>1, <1>2 DEF Init, ForestInv, RunningIsAllocated, ParentWaits, NoLeakedSlot,
     MarkedSlotsStay, NoProcessOnlyWhenFull

LEMMA ForestInductive == ASSUME RootsStay PROVE Spec => []ForestInv
<1>1. ForestInv /\ [Next]_vars => ForestInv'
  BY ForestStep
<1> QED
  BY <1>1, ForestInit, PTL DEF Spec

(* If the first shells of the other terminals never exit, the process of    *)
(* every terminal is allocated and no two terminals share one.              *)
THEOREM RunningStaysAllocated == ASSUME RootsStay PROVE Spec => []RunningIsAllocated
<1>1. ForestInv => RunningIsAllocated
  BY DEF ForestInv
<1> QED
  BY <1>1, ForestInductive, PTL

(* ... every process that is no first shell has a parent waiting for it     *)
(* alone, in execute, on the stack its frame names.                         *)
THEOREM ParentsWait == ASSUME RootsStay PROVE Spec => []ParentWaits
<1>1. ForestInv => ParentWaits
  BY DEF ForestInv
<1> QED
  BY <1>1, ForestInductive, PTL

(* ... and no slot is ever lost to the bit vector.                          *)
THEOREM NoSlotLeaks == ASSUME RootsStay PROVE Spec => []NoLeakedSlot
<1>1. ForestInv => NoLeakedSlot
  BY DEF ForestInv
<1> QED
  BY <1>1, ForestInductive, PTL

(* halt of a process started by another frees its slot and resumes that     *)
(* parent on the parent's own kernel stack, every time.                     *)
THEOREM HaltReturns == ASSUME RootsStay PROVE Spec => HaltReturnsToParent
<1>1. ASSUME ForestInv, HaltFirstShell
      PROVE  parent_frame[Current].by # "syscall"
  <2>1. Current = 0 /\ parent_frame[0] = NoFrame
    BY <1>1 DEF RootsStay, ForestInv, HaltFirstShell
  <2> QED
    BY <2>1 DEF NoFrame
<1>2. ForestInv /\ [Next]_vars =>
        [(HaltFirstShell \/ HaltToParent) /\ parent_frame[Current].by = "syscall"
         => /\ processes' = processes \ {Current}
            /\ running_pcb'[current_terminal] = parent_pcb[Current]
            /\ cpu' = parent_pcb[Current]
            /\ ~lost']_vars
  BY <1>1, ReturnForest
<1> QED
  BY <1>2, ForestInductive, PTL DEF Spec, HaltReturnsToParent

-----------------------------------------------------------------------------
(* The kernel to which none of the three events happens.                    *)
Quiet == Admitted = {}

(* A background terminal's process is where its terminal left it.           *)
BackgroundUndisturbed == \A t \in Terms \ {current_terminal} : been_here[t] =>
    /\ saved[t].at = kstack[running_pcb[t]]
    /\ saved[t].at \in {"user", "kernel", "fault"}

QuietInv ==
    /\ ForestInv
    /\ NeverLost
    /\ FramePointersAgree
    /\ ScreenHasProcess
    /\ BackgroundUndisturbed

(* Steps of the process on the screen leave the background alone.           *)
LEMMA BackgroundStable ==
    ASSUME QuietInv, saved' = saved, been_here' = been_here, current_terminal' = current_terminal,
           \A u \in Terms \ {current_terminal} : running_pcb'[u] = running_pcb[u],
           \A u \in Terms \ {current_terminal} :
              been_here[u] => kstack'[running_pcb[u]] = kstack[running_pcb[u]]
    PROVE  BackgroundUndisturbed'
BY DEF QuietInv, BackgroundUndisturbed

LEMMA QuietStep == Quiet /\ QuietInv /\ [Next]_vars => QuietInv'
<1> SUFFICES ASSUME Quiet, QuietInv, [Next]_vars PROVE QuietInv'
  OBVIOUS
<1> USE DEF QuietInv, ForestInv, ContextInv
<1>0. ForestInv'
  BY ForestStep DEF Quiet, RootsStay
<1>a. NULL \notin Slots /\ current_terminal \in Terms /\ processes \in SUBSET Slots
  BY DEF Slots, NULL, TypeOK
<1>b. \A u \in Terms \ {current_terminal} : been_here[u] =>
         running_pcb[u] \in processes /\ running_pcb[u] # Current
  BY <1>a DEF OpenedTerminalsRun, RunningIsAllocated, Current
<1>c. cpu # NULL => cpu = Current /\ cpu \in Slots /\ been_here[current_terminal]
  BY <1>a DEF NeverLost, ScreenHasProcess, ContextFollowsTerminal, TypeOK, Current, OpenedTerminalsRun
<1>1. ASSUME NEW t \in Terms, NEW p \in Slots, NEW procs \in SUBSET Slots, NEW by \in Callers,
             Start(t, procs, p, by), current_terminal' = t, lost' = lost
      PROVE  NeverLost' /\ FramePointersAgree' /\ ScreenHasProcess'
  <2>1. StartEffect(t, procs, p, by)
    BY <1>1, StartFacts
  <2> QED
    BY <1>1, <1>a, <2>1 DEF StartEffect, NeverLost, FramePointersAgree, ScreenHasProcess, Current
<1>2. CASE Boot
  <2>1. PICK p \in Slots : Start(current_terminal, processes, p, "boot")
    BY <1>2 DEF Boot
  <2>2. \A u \in Terms \ {current_terminal} : ~been_here'[u]
    BY <1>2, <2>1 DEF Boot, NothingBeforeBoot, Start, TypeOK
  <2> QED
    BY <1>0, <1>1, <1>2, <1>a, <2>1, <2>2 DEF Boot, BackgroundUndisturbed, Callers
<1>3. CASE Execute
  <2>1. PICK p \in Slots : Start(current_terminal, processes, p, "syscall")
    BY <1>3 DEF Execute
  <2>2. StartEffect(current_terminal, processes, p, "syscall")
    BY <1>a, <2>1, StartFacts DEF Callers
  <2>3. been_here' = been_here
    BY <1>3, <1>c, <2>1 DEF Execute, InUser, Start, TypeOK
  <2>4. \A u \in Terms \ {current_terminal} : been_here[u] => kstack'[running_pcb[u]] = kstack[running_pcb[u]]
    BY <1>3, <1>a, <1>b, <1>c, <2>2 DEF Execute, InUser, StartEffect
  <2>5. BackgroundUndisturbed'
    BY <1>3, <2>2, <2>3, <2>4, BackgroundStable DEF Execute, StartEffect
  <2> QED
    BY <1>0, <1>1, <1>3, <1>a, <2>1, <2>5 DEF Execute, Callers
<1>4. CASE HaltFirstShell
  <2>1. PICK p \in Slots : Start(current_terminal, processes \ {Current}, p, "halt")
    BY <1>4 DEF HaltFirstShell
  <2>2. /\ processes \ {Current} \in SUBSET Slots
        /\ StartEffect(current_terminal, processes \ {Current}, p, "halt")
    BY <1>a, <2>1, StartFacts DEF Callers
  <2>3. been_here' = been_here
    BY <1>4, <1>c, <2>1 DEF HaltFirstShell, InUser, Start, TypeOK
  <2>4. \A u \in Terms \ {current_terminal} : been_here[u] => kstack'[running_pcb[u]] = kstack[running_pcb[u]]
    BY <1>4, <1>a, <1>b, <1>c, <2>2 DEF HaltFirstShell, InUser, StartEffect
  <2>5. BackgroundUndisturbed'
    BY <1>4, <2>2, <2>3, <2>4, BackgroundStable DEF HaltFirstShell, StartEffect
  <2> QED
    BY <1>0, <1>1, <1>4, <1>a, <2>1, <2>2, <2>5 DEF HaltFirstShell, Callers
<1>5. CASE HaltToParent
  <2>1. /\ running_pcb'[current_terminal] = parent_pcb[Current]
        /\ cpu' = parent_pcb[Current] /\ ~lost'
    BY <1>5, ReturnForest
  <2>2. /\ Current \in processes /\ ~IsRoot(Current) /\ cpu = Current
    BY <1>5, <1>a, <1>c DEF HaltToParent, InUser, RunningIsAllocated, Current, IsRoot, IsFirstShell
  <2>3. /\ parent_frame[Current].stack = parent_pcb[Current]
        /\ \A u \in Terms : running_pcb[u] # parent_pcb[Current]
        /\ parent_pcb[Current] \in Slots
    <3>1. /\ parent_frame[Current] = [stack |-> parent_pcb[Current], by |-> "syscall"]
          /\ \A u \in Terms : running_pcb[u] # parent_pcb[Current]
          /\ parent_pcb[Current] \in processes
      BY <2>2 DEF ParentWaits
    <3> QED
      BY <3>1, <1>a
  <2>4. \A u \in Terms \ {current_terminal} : been_here[u] => kstack'[running_pcb[u]] = kstack[running_pcb[u]]
    BY <1>5, <1>a, <1>b, <2>2, <2>3 DEF HaltToParent
  <2>5. /\ old_frame'.stack = cpu' /\ current_terminal' = current_terminal
        /\ saved' = saved /\ been_here' = been_here
        /\ \A u \in Terms \ {current_terminal} : running_pcb'[u] = running_pcb[u]
    BY <1>5, <2>1, <2>3 DEF HaltToParent, TypeOK
  <2>6. BackgroundUndisturbed'
    BY <2>4, <2>5, BackgroundStable
  <2> QED
    BY <1>0, <1>a, <2>1, <2>3, <2>5, <2>6 DEF NeverLost, FramePointersAgree, ScreenHasProcess, Current
<1>6. CASE Jump \/ EnterWait \/ LeaveWait \/ Exception
  <2>1. /\ UNCHANGED <<processes, pcbVars, termVars, cpuVars>>
        /\ cpu \in Slots /\ cpu # NULL
    BY <1>6 DEF Jump, EnterWait, LeaveWait, Exception, InUser, TypeOK
  <2>2. \A q \in Slots \ {cpu} : kstack'[q] = kstack[q]
    BY <1>6, <2>1 DEF Jump, EnterWait, LeaveWait, Exception, TypeOK, FramePointersAgree, NeverLost
  <2>3. kstack'[cpu] # "jump"
    BY <1>6, <2>1 DEF Jump, EnterWait, LeaveWait, Exception, TypeOK
  <2>4. BackgroundUndisturbed'
    BY <1>a, <1>b, <1>c, <2>1, <2>2, BackgroundStable DEF termVars
  <2> QED
    BY <1>0, <2>1, <2>3, <2>4 DEF termVars, cpuVars, NeverLost, FramePointersAgree, ScreenHasProcess, Current
<1>7. ASSUME NEW t \in Terms, SwitchTo(t) PROVE QuietInv'
  <2>1. /\ saved[t].stack = running_pcb[t] /\ saved[t].at = kstack[running_pcb[t]]
        /\ saved[t].at \in {"user", "kernel", "fault"} /\ running_pcb[t] # NULL
    BY <1>7 DEF SwitchTo, BackgroundUndisturbed, ContextFollowsTerminal, OpenedTerminalsRun
  <2>2. NeverLost'
    BY <1>7, <2>1 DEF SwitchTo, NeverLost
  <2>3. kstack[cpu] \in {"user", "kernel", "fault"} /\ cpu = running_pcb[current_terminal]
    BY <1>7, <1>c DEF SwitchTo, Interruptible, Quiet, Current
  <2>4. BackgroundUndisturbed'
    <3> SUFFICES ASSUME NEW u \in Terms \ {t}, been_here[u]
                 PROVE  /\ saved'[u].at = kstack[running_pcb[u]]
                        /\ saved'[u].at \in {"user", "kernel", "fault"}
      BY <1>7 DEF SwitchTo, BackgroundUndisturbed
    <3>1. CASE u = current_terminal
      BY <1>7, <2>3, <3>1 DEF SwitchTo, SaveTerminal, TypeOK
    <3>2. CASE u # current_terminal
      BY <1>7, <3>2 DEF SwitchTo, SaveTerminal, BackgroundUndisturbed, TypeOK
    <3> QED
      BY <3>1, <3>2
  <2> QED
    BY <1>0, <1>7, <2>1, <2>2, <2>4 DEF SwitchTo, FramePointersAgree, ScreenHasProcess, Current
<1>8. ASSUME NEW t \in Terms, OpenTerminal(t) PROVE QuietInv'
  <2>1. PICK p \in Slots : Start(t, processes, p, "switch")
    BY <1>8 DEF OpenTerminal
  <2>2. StartEffect(t, processes, p, "switch") /\ "switch" \in Callers
    BY <1>a, <2>1, StartFacts DEF Callers
  <2>3. /\ kstack[cpu] \in {"user", "kernel", "fault"} /\ cpu = running_pcb[current_terminal]
        /\ cpu \in Slots /\ cpu # p
    BY <1>8, <1>a, <1>c, <2>2 DEF OpenTerminal, Interruptible, Quiet, Current, StartEffect, RunningIsAllocated
  <2>4. \A q \in Slots \ {p} : kstack'[q] = kstack[q]
    BY <2>2 DEF StartEffect, ParkedMode
  <2>5. \A u \in Terms \ {t} : been_here'[u] => been_here[u] /\ running_pcb[u] \in Slots \ {p}
    BY <2>1, <1>a, <2>2 DEF Start, TypeOK, OpenedTerminalsRun, RunningIsAllocated, StartEffect
  <2>6. BackgroundUndisturbed'
    <3> SUFFICES ASSUME NEW u \in Terms \ {t}, been_here'[u]
                 PROVE  /\ saved'[u].at = kstack'[running_pcb'[u]]
                        /\ saved'[u].at \in {"user", "kernel", "fault"}
      BY <1>8 DEF OpenTerminal, BackgroundUndisturbed
    <3>1. been_here[u] /\ running_pcb'[u] = running_pcb[u] /\ kstack'[running_pcb[u]] = kstack[running_pcb[u]]
      BY <2>2, <2>4, <2>5 DEF StartEffect
    <3>2. CASE u = current_terminal
      BY <1>8, <2>3, <3>1, <3>2 DEF OpenTerminal, SaveTerminal, TypeOK
    <3>3. CASE u # current_terminal
      BY <1>8, <3>1, <3>3 DEF OpenTerminal, SaveTerminal, BackgroundUndisturbed, TypeOK
    <3> QED
      BY <3>2, <3>3
  <2> QED
    BY <1>0, <1>1, <1>8, <1>a, <2>1, <2>2, <2>6 DEF OpenTerminal
<1>9. ASSUME NEW t \in Terms, OpenTerminalFull(t) PROVE QuietInv'
  BY <1>9 DEF OpenTerminalFull, Quiet
<1>10. CASE UNCHANGED vars
  BY <1>0, <1>10 DEF vars, termVars, cpuVars, NeverLost, FramePointersAgree, ScreenHasProcess, Current,
     BackgroundUndisturbed
<1> QED
  BY <1>2, <1>3, <1>4, <1>5, <1>6, <1>7, <1>8, <1>9, <1>10 DEF Next

LEMMA QuietInductive == ASSUME Quiet PROVE Spec => []QuietInv
<1>1. QuietInv /\ [Next]_vars => QuietInv'
  BY QuietStep
<1>2. Init => QuietInv
  BY ForestInit DEF Init, QuietInv, NeverLost, FramePointersAgree, ScreenHasProcess, BackgroundUndisturbed
<1> QED
  BY <1>1, <1>2, PTL DEF Spec

(* Without the three events no return of halt and no switch of terminals    *)
(* ever goes through a kernel stack that changed since it was left.         *)
THEOREM NeverLosesControl == ASSUME Quiet PROVE Spec => []NeverLost
<1>1. QuietInv => NeverLost
  BY DEF QuietInv
<1> QED
  BY <1>1, QuietInductive, PTL

(* ... and the terminal on the screen has a process.                        *)
THEOREM ScreenNeverEmpty == ASSUME Quiet PROVE Spec => []ScreenHasProcess
<1>1. QuietInv => ScreenHasProcess
  BY DEF QuietInv
<1> QED
  BY <1>1, QuietInductive, PTL

-----------------------------------------------------------------------------
(* The chains of parents that are the stacks of TerminalStacks.             *)

(* Induction over the natural numbers.                                      *)
Below == OpToRel(<, Nat)

LEMMA LeastNumber ==
    ASSUME NEW T \in SUBSET Nat, T # {}
    PROVE  \E x \in T : \A y \in T : x <= y
<1>1. IsWellFoundedOn(Below, Nat)
  BY NatLessThanWellFounded, Zenon DEF Below
<1>2. \A x, y \in Nat : x < y => <<x, y>> \in Below
  BY Zenon DEF Below, OpToRel
<1>3. PICK x \in T : \A y \in T : ~(<<y, x>> \in Below)
  BY <1>1, WFMin
<1>4. \A y \in T : ~(y < x)
  BY <1>2, <1>3
<1> QED
  BY <1>4

(* q leads from a root to top: each process but the first has the one       *)
(* before it as its parent.                                                 *)
IsChain(q, top, parent, roots) ==
    /\ q # <<>> /\ Len(q) <= MAX_PROCESSES_DEC
    /\ q[Len(q)] = top
    /\ \A i \in 1 .. Len(q) : q[i] \in roots <=> i = 1
    /\ \A i \in 2 .. Len(q) : parent[q[i]] = q[i - 1]

(* One step towards the root.                                               *)
Up(p, parent, roots) == IF p \in roots \/ parent[p] = NULL THEN p ELSE parent[p]

(* Along a chain the recursion of Above is well defined, ...                *)
LEMMA AboveUnfolds ==
    ASSUME NEW q \in Seq(Slots), NEW top, NEW parent, NEW roots, IsChain(q, top, parent, roots)
    PROVE  /\ Above(top, parent, roots)[0] = top
           /\ \A n \in 1 .. MAX_PROCESSES_DEC :
                 Above(top, parent, roots)[n] = Up(Above(top, parent, roots)[n - 1], parent, roots)
<1> DEFINE len == Len(q)
           F(f) == [n \in 0 .. MAX_PROCESSES_DEC |->
                      IF n = 0 THEN top
                      ELSE IF f[n - 1] \in roots \/ parent[f[n - 1]] = NULL
                           THEN f[n - 1]
                           ELSE parent[f[n - 1]]]
           g == [n \in 0 .. MAX_PROCESSES_DEC |-> IF n < len THEN q[len - n] ELSE q[1]]
<1>1. len \in Nat /\ len > 0 /\ MAX_PROCESSES_DEC \in Nat /\ len <= MAX_PROCESSES_DEC
  BY ConstantsAssumption, EmptySeq, LenProperties DEF IsChain
<1>2. \A i \in 1 .. len : q[i] \in Slots /\ q[i] # NULL
  <2>1. \A s \in Slots : s # NULL
    BY <1>1 DEF Slots, NULL
  <2>2. \A i \in 1 .. len : q[i] \in Slots
    BY ElementOfSeq
  <2> QED
    BY <2>1, <2>2
<1>3. g = F(g)
  <2>1. ASSUME NEW n \in 0 .. MAX_PROCESSES_DEC
        PROVE  g[n] = F(g)[n]
    <3>1. CASE n = 0
      BY <1>1, <3>1 DEF IsChain
    <3>2. CASE n > 0 /\ n < len
      <4>1. n - 1 \in 0 .. MAX_PROCESSES_DEC /\ n - 1 < len /\ len - n \in 1 .. len
            /\ len - (n - 1) \in 2 .. len /\ len - (n - 1) # 1 /\ (len - (n - 1)) - 1 = len - n
        BY <1>1, <3>2
      <4>2. g[n] = q[len - n] /\ g[n - 1] = q[len - (n - 1)]
        BY <3>2, <4>1
      <4>3. parent[g[n - 1]] = q[len - n] /\ g[n - 1] \notin roots
        BY <4>1, <4>2 DEF IsChain
      <4>4. q[len - n] # NULL
        BY <1>2, <4>1
      <4> HIDE DEF g
      <4> QED
        BY <3>2, <4>2, <4>3, <4>4
    <3>3. CASE n > 0 /\ n >= len
      <4>1. n - 1 \in 0 .. MAX_PROCESSES_DEC /\ ~(n < len)
        BY <1>1, <3>3
      <4>2. g[n] = q[1]
        BY <4>1
      <4>3. g[n - 1] = q[1]
        <5>1. CASE n = len
          <6>1. n - 1 < len /\ len - (n - 1) = 1
            BY <1>1, <5>1
          <6> QED
            BY <4>1, <6>1
        <5>2. CASE n # len
          <6>1. ~(n - 1 < len)
            BY <1>1, <3>3, <5>2
          <6> QED
            BY <4>1, <6>1
        <5> QED
          BY <5>1, <5>2
      <4>4. q[1] \in roots
        BY <1>1 DEF IsChain
      <4> HIDE DEF g
      <4> QED
        BY <3>3, <4>2, <4>3, <4>4
    <3> QED
      BY <1>1, <3>1, <3>2, <3>3
  <2>2. F(g) = [n \in 0 .. MAX_PROCESSES_DEC |-> F(g)[n]]
    OBVIOUS
  <2> QED
    BY <2>1
<1>4. \E f : f = F(f)
  BY <1>3
<1>5. Above(top, parent, roots) = CHOOSE f : f = F(f)
  BY DEF Above
<1> HIDE DEF F
<1>6. Above(top, parent, roots) = F(Above(top, parent, roots))
  BY <1>4, <1>5
<1>7. PICK h : h = Above(top, parent, roots)
  OBVIOUS
<1>8. h = [n \in 0 .. MAX_PROCESSES_DEC |->
             IF n = 0 THEN top
             ELSE IF h[n - 1] \in roots \/ parent[h[n - 1]] = NULL
                  THEN h[n - 1]
                  ELSE parent[h[n - 1]]]
  BY <1>6, <1>7 DEF F
<1>9. h[0] = top
  BY <1>1, <1>8
<1>10. ASSUME NEW n \in 1 .. MAX_PROCESSES_DEC
       PROVE  h[n] = Up(h[n - 1], parent, roots)
  <2>1. n \in 0 .. MAX_PROCESSES_DEC /\ n # 0
    BY <1>1
  <2> QED
    BY <1>8, <2>1 DEF Up
<1> QED
  BY <1>7, <1>9, <1>10

(* ... it climbs it, ...                                                    *)
LEMMA AboveClimbs ==
    ASSUME NEW q \in Seq(Slots), NEW top, NEW parent, NEW roots, IsChain(q, top, parent, roots)
    PROVE  \A n \in 0 .. Len(q) - 1 : Above(top, parent, roots)[n] = q[Len(q) - n]
<1> DEFINE len == Len(q)
           Missed == {n \in 0 .. len - 1 : Above(top, parent, roots)[n] # q[len - n]}
<1>1. len \in Nat /\ len > 0 /\ MAX_PROCESSES_DEC \in Nat /\ len <= MAX_PROCESSES_DEC
  BY ConstantsAssumption, EmptySeq, LenProperties DEF IsChain
<1>2. \A i \in 1 .. len : q[i] # NULL
  <2>1. \A s \in Slots : s # NULL
    BY <1>1 DEF Slots, NULL
  <2>2. \A i \in 1 .. len : q[i] \in Slots
    BY ElementOfSeq
  <2> QED
    BY <2>1, <2>2
<1>3. PICK h : h = Above(top, parent, roots)
  OBVIOUS
<1>4. h[0] = top /\ \A n \in 1 .. MAX_PROCESSES_DEC : h[n] = Up(h[n - 1], parent, roots)
  BY <1>3, AboveUnfolds
<1>5. ASSUME Missed # {}
      PROVE  FALSE
  <2>1. Missed \in SUBSET Nat
    BY <1>1
  <2>2. PICK n \in Missed : \A m \in Missed : n <= m
    BY <1>5, <2>1, LeastNumber
  <2>3. n \in 0 .. len - 1 /\ h[n] # q[len - n]
    BY <1>3, <2>2
  <2>4. n # 0
    BY <1>1, <1>4, <2>3 DEF IsChain
  <2>5. n - 1 \in 0 .. len - 1 /\ n - 1 \notin Missed /\ n \in 1 .. MAX_PROCESSES_DEC
    BY <1>1, <2>2, <2>3, <2>4
  <2>6. h[n - 1] = q[len - (n - 1)]
    BY <1>3, <2>5
  <2>7. /\ len - (n - 1) \in 2 .. len /\ len - (n - 1) \in 1 .. len /\ len - (n - 1) # 1
        /\ (len - (n - 1)) - 1 = len - n /\ len - n \in 1 .. len
    BY <1>1, <2>3, <2>4
  <2>8. q[len - (n - 1)] \notin roots /\ parent[q[len - (n - 1)]] = q[len - n]
    BY <2>7 DEF IsChain
  <2>9. h[n] = q[len - n]
    BY <1>2, <1>4, <2>5, <2>6, <2>7, <2>8 DEF Up
  <2> QED
    BY <2>3, <2>9
<1> QED
  BY <1>3, <1>5

(* ... and there is no other chain.                                         *)
LEMMA ChainIs ==
    ASSUME NEW q \in Seq(Slots), NEW top, NEW parent, NEW roots, IsChain(q, top, parent, roots)
    PROVE  Chain(top, parent, roots) = q
<1> DEFINE len == Len(q)
<1>1. len \in Nat /\ len > 0 /\ MAX_PROCESSES_DEC \in Nat /\ len <= MAX_PROCESSES_DEC
  BY ConstantsAssumption, EmptySeq, LenProperties DEF IsChain
<1>2. PICK h : h = Above(top, parent, roots)
  OBVIOUS
<1>3. \A n \in 0 .. len - 1 : h[n] = q[len - n]
  BY <1>2, AboveClimbs
<1>4. \A n \in 0 .. len - 1 : h[n] \in roots <=> n = len - 1
  <2>1. ASSUME NEW n \in 0 .. len - 1
        PROVE  h[n] \in roots <=> n = len - 1
    <3>1. len - n \in 1 .. len /\ (len - n = 1 <=> n = len - 1)
      BY <1>1
    <3>2. q[len - n] \in roots <=> len - n = 1
      BY <3>1 DEF IsChain
    <3> QED
      BY <1>3, <3>1, <3>2
  <2> QED
    BY <2>1
<1>5. Depth(h, roots) = len - 1
  <2> DEFINE Is(n) == /\ n = MAX_PROCESSES_DEC \/ h[n] \in roots
                      /\ \A m \in 0 .. n - 1 : h[m] \notin roots
  <2>1. len - 1 \in 0 .. MAX_PROCESSES_DEC /\ Is(len - 1)
    <3>1. len - 1 \in 0 .. len - 1 /\ \A m \in 0 .. (len - 1) - 1 : m \in 0 .. len - 1 /\ m # len - 1
      BY <1>1
    <3> QED
      BY <1>1, <1>4, <3>1
  <2>2. ASSUME NEW n \in 0 .. MAX_PROCESSES_DEC, Is(n), n < len - 1
        PROVE  FALSE
    <3>1. n # MAX_PROCESSES_DEC /\ n \in 0 .. len - 1
      BY <1>1, <2>2
    <3> QED
      BY <1>1, <1>4, <2>2, <3>1
  <2>3. ASSUME NEW n \in 0 .. MAX_PROCESSES_DEC, Is(n), n > len - 1
        PROVE  FALSE
    <3>1. len - 1 \in 0 .. n - 1 /\ len - 1 \in 0 .. len - 1
      BY <1>1, <2>3
    <3> QED
      BY <1>1, <1>4, <2>3, <3>1
  <2>4. \A n \in 0 .. MAX_PROCESSES_DEC : Is(n) => n = len - 1
    BY <1>1, <2>2, <2>3
  <2>5. Depth(h, roots) = CHOOSE n \in 0 .. MAX_PROCESSES_DEC : Is(n)
    BY DEF Depth
  <2> HIDE DEF Is
  <2> QED
    BY <2>1, <2>4, <2>5
<1>6. top # NULL
  <2>1. \A s \in Slots : s # NULL
    BY <1>1 DEF Slots, NULL
  <2>2. q[len] \in Slots
    BY <1>1, ElementOfSeq
  <2> QED
    BY <2>1, <2>2 DEF IsChain
<1>7. Chain(top, parent, roots) = Down(h, len - 1)
  BY <1>2, <1>5, <1>6 DEF Chain
<1>8. Down(h, len - 1) = [i \in 1 .. len |-> h[len - i]]
  <2>1. (len - 1) + 1 = len
    BY <1>1
  <2> QED
    BY <2>1 DEF Down
<1>9. \A i \in 1 .. len : h[len - i] = q[i]
  <2>1. \A i \in 1 .. len : len - i \in 0 .. len - 1 /\ len - (len - i) = i
    BY <1>1
  <2> QED
    BY <1>3, <2>1
<1>10. q = [i \in 1 .. len |-> q[i]]
  BY LenProperties
<1> QED
  BY <1>7, <1>8, <1>9, <1>10

(* A chain of allocated slots, none of them twice.                          *)
Own(q, top, parent, roots, procs) ==
    /\ q \in Seq(Slots)
    /\ IsChain(q, top, parent, roots)
    /\ \A i \in 1 .. Len(q) : q[i] \in procs
    /\ \A i, j \in 1 .. Len(q) : q[i] = q[j] => i = j

LEMMA OwnSizes ==
    ASSUME NEW q, NEW top, NEW parent, NEW roots, NEW procs, Own(q, top, parent, roots, procs)
    PROVE  /\ Len(q) \in Nat /\ Len(q) > 0 /\ Len(q) <= MAX_PROCESSES_DEC
           /\ MAX_PROCESSES_DEC \in Nat
           /\ \A i \in 1 .. Len(q) : q[i] \in Slots
           /\ top \in Slots /\ top # NULL /\ top \in procs
<1>1. MAX_PROCESSES_DEC \in Nat
  BY ConstantsAssumption
<1>2. Len(q) \in Nat /\ Len(q) > 0 /\ Len(q) <= MAX_PROCESSES_DEC
  BY EmptySeq, LenProperties DEF Own, IsChain
<1>3. \A i \in 1 .. Len(q) : q[i] \in Slots
  BY ElementOfSeq DEF Own
<1>4. Len(q) \in 1 .. Len(q) /\ q[Len(q)] = top
  BY <1>2 DEF Own, IsChain
<1>5. \A s \in Slots : s # NULL
  BY <1>1 DEF Slots, NULL
<1> QED
  BY <1>1, <1>2, <1>3, <1>4, <1>5 DEF Own

(* An arrangement of slots is no longer than there are slots.               *)
LEMMA Pigeons ==
    ASSUME NEW q \in Seq(Slots), \A i, j \in 1 .. Len(q) : q[i] = q[j] => i = j
    PROVE  Len(q) <= MAX_PROCESSES_DEC
<1>1. MAX_PROCESSES_DEC \in Nat /\ MAX_PROCESSES_DEC > 0 /\ Len(q) \in Nat
  BY ConstantsAssumption, LenProperties
<1>2. q \in [1 .. Len(q) -> Slots]
  BY LenProperties
<1>3. q \in Injection(1 .. Len(q), Slots)
  BY <1>2 DEF Injection, IsInjective
<1>4. IsFiniteSet(Slots) /\ Cardinality(Slots) = MAX_PROCESSES_DEC
  BY <1>1, FS_Interval DEF Slots
<1>5. Cardinality(1 .. Len(q)) = Len(q)
  <2>1. PICK n \in Nat : n = Len(q)
    BY <1>1
  <2>2. Cardinality(1 .. n) = IF 1 > n THEN 0 ELSE n - 1 + 1
    BY FS_Interval
  <2>3. Cardinality(1 .. n) = n
    BY <2>2
  <2> QED
    BY <2>1, <2>3
<1>6. Cardinality(1 .. Len(q)) <= Cardinality(Slots)
  BY <1>3, <1>4, FS_Injection
<1> QED
  BY <1>4, <1>5, <1>6

(* A chain none of whose slots is written stays one.                        *)
LEMMA ChainKept ==
    ASSUME NEW q, NEW top, NEW parent, NEW roots, NEW procs,
           NEW parent2, NEW roots2, NEW procs2,
           Own(q, top, parent, roots, procs),
           \A i \in 1 .. Len(q) :
              /\ q[i] \in procs2
              /\ q[i] \in roots2 <=> q[i] \in roots
              /\ q[i] \notin roots => parent2[q[i]] = parent[q[i]]
    PROVE  Own(q, top, parent2, roots2, procs2)
<1>1. Len(q) \in Nat
  BY OwnSizes
<1>2. \A i \in 2 .. Len(q) : i \in 1 .. Len(q) /\ i # 1
  BY <1>1
<1>3. \A i \in 1 .. Len(q) : q[i] \in roots2 <=> i = 1
  BY DEF Own, IsChain
<1>4. \A i \in 2 .. Len(q) : parent2[q[i]] = q[i - 1]
  BY <1>2 DEF Own, IsChain
<1> QED
  BY <1>3, <1>4 DEF Own, IsChain

(* A child on top of a chain.                                               *)
LEMMA ChainPushed ==
    ASSUME NEW q, NEW top, NEW parent, NEW roots, NEW procs, NEW p \in Slots,
           Own(q, top, parent, roots, procs),
           \A i \in 1 .. Len(q) : q[i] # p,
           p \in procs, p \notin roots, parent[p] = top
    PROVE  Own(Append(q, p), p, parent, roots, procs)
<1> DEFINE n == Len(q)
           r == Append(q, p)
<1>1. q \in Seq(Slots) /\ n \in Nat /\ n > 0 /\ q[n] = top
  BY OwnSizes DEF Own, IsChain
<1>2. /\ r \in Seq(Slots) /\ Len(r) = n + 1 /\ r[n + 1] = p
      /\ \A i \in 1 .. n : r[i] = q[i]
  BY <1>1, AppendProperties
<1> HIDE DEF r
<1>3. \A i \in 1 .. Len(r) : i \in 1 .. n \/ i = n + 1
  BY <1>1, <1>2
<1>4. \A i, j \in 1 .. Len(r) : r[i] = r[j] => i = j
  BY <1>2, <1>3 DEF Own
<1>5. Len(r) <= MAX_PROCESSES_DEC
  BY <1>2, <1>4, Pigeons
<1>6. r # <<>>
  BY <1>1, <1>2, EmptySeq
<1>7. \A i \in 1 .. Len(r) : r[i] \in procs /\ (r[i] \in roots <=> i = 1)
  <2>1. n + 1 # 1
    BY <1>1
  <2> QED
    BY <1>2, <1>3, <2>1 DEF Own, IsChain
<1>8. \A i \in 2 .. Len(r) : parent[r[i]] = r[i - 1]
  <2>1. ASSUME NEW i \in 2 .. Len(r) PROVE parent[r[i]] = r[i - 1]
    <3>1. CASE i = n + 1
      <4>1. i - 1 = n /\ n \in 1 .. n
        BY <1>1, <3>1
      <4> QED
        BY <1>1, <1>2, <3>1, <4>1
    <3>2. CASE i # n + 1
      <4>1. i \in 1 .. n /\ i \in 2 .. n /\ i - 1 \in 1 .. n
        BY <1>1, <1>2, <3>2
      <4>2. parent[q[i]] = q[i - 1]
        BY <4>1 DEF Own, IsChain
      <4> QED
        BY <1>2, <4>1, <4>2
    <3> QED
      BY <3>1, <3>2
  <2> QED
    BY <2>1
<1> QED
  BY <1>2, <1>4, <1>5, <1>6, <1>7, <1>8 DEF Own, IsChain, r

(* The top of a chain leaves.                                               *)
LEMMA ChainPopped ==
    ASSUME NEW q, NEW top, NEW parent, NEW roots, NEW procs,
           Own(q, top, parent, roots, procs), top \notin roots
    PROVE  Len(q) > 1 /\ Own(Front(q), parent[top], parent, roots, procs \ {top})
<1> DEFINE n == Len(q)
           r == Front(q)
<1>1. /\ q \in Seq(Slots) /\ n \in Nat /\ n > 0 /\ q[n] = top /\ n <= MAX_PROCESSES_DEC
      /\ \A i \in 1 .. n : q[i] \in Slots
      /\ MAX_PROCESSES_DEC \in Nat
  <2>1. q \in Seq(Slots) /\ q[n] = top
    BY DEF Own, IsChain
  <2> QED
    BY <2>1, OwnSizes
<1>2. n > 1
  <2>1. n \in 1 .. n
    BY <1>1
  <2>2. q[n] \in roots <=> n = 1
    BY <2>1 DEF Own, IsChain
  <2>3. n # 1
    BY <1>1, <2>2
  <2>4. n \in Nat /\ n > 0
    BY <1>1
  <2> HIDE DEF n
  <2> QED
    BY <2>3, <2>4
<1>3. r \in Seq(Slots) /\ Len(r) = n - 1 /\ \A i \in 1 .. n - 1 : r[i] = q[i]
  <2>1. \A i \in 1 .. n - 1 : q[i] \in Slots
    BY <1>1
  <2> QED
    BY <1>1, <1>2, <2>1, SubSeqProperties DEF Front
<1> HIDE DEF r
<1>4. \A i \in 1 .. n - 1 : i \in 1 .. n /\ i # n
  BY <1>1
<1>5. \A i \in 1 .. n - 1 : r[i] \in procs \ {top} /\ (r[i] \in roots <=> i = 1)
  <2>1. n \in 1 .. n
    BY <1>1
  <2> QED
    BY <1>1, <1>3, <1>4, <2>1 DEF Own, IsChain
<1>6. \A i \in 2 .. n - 1 : parent[r[i]] = r[i - 1]
  <2>1. \A i \in 2 .. n - 1 : i \in 2 .. n /\ i \in 1 .. n - 1 /\ i - 1 \in 1 .. n - 1
    BY <1>1
  <2> QED
    BY <1>3, <2>1 DEF Own, IsChain
<1>7. r[n - 1] = parent[top]
  <2>1. n \in 2 .. n /\ n - 1 \in 1 .. n - 1
    BY <1>1, <1>2
  <2> QED
    BY <1>1, <1>3, <2>1 DEF Own, IsChain
<1>8. \A i, j \in 1 .. n - 1 : r[i] = r[j] => i = j
  BY <1>3, <1>4 DEF Own
<1>9. r # <<>>
  BY <1>2, <1>1, <1>3, EmptySeq
<1>10. n - 1 <= MAX_PROCESSES_DEC
  BY <1>1
<1> QED
  BY <1>2, <1>3, <1>5, <1>6, <1>7, <1>8, <1>9, <1>10 DEF Own, IsChain, r

(* A root alone.                                                            *)
LEMMA ChainOfOne ==
    ASSUME NEW p \in Slots, NEW parent, NEW roots, NEW procs, p \in roots, p \in procs
    PROVE  Own(<<p>>, p, parent, roots, procs)
<1>1. MAX_PROCESSES_DEC \in Nat /\ MAX_PROCESSES_DEC >= 1
  BY ConstantsAssumption
<1>2. <<p>> \in Seq(Slots) /\ Len(<<p>>) = 1 /\ <<p>>[1] = p /\ <<p>> # <<>>
  OBVIOUS
<1>3. PICK q : q = <<p>>
  OBVIOUS
<1>4. q \in Seq(Slots) /\ Len(q) = 1 /\ q[1] = p /\ q # <<>>
  BY <1>2, <1>3
<1>5. (\A i \in 1 .. Len(q) : i = 1) /\ \A i \in 2 .. Len(q) : FALSE
  BY <1>4
<1>6. Own(q, p, parent, roots, procs)
  BY <1>1, <1>4, <1>5 DEF Own, IsChain
<1> QED
  BY <1>3, <1>6

-----------------------------------------------------------------------------
(* The kernel whose first shells stay and that is not asked for one shell   *)
(* more than it has slots implements TerminalStacks.                        *)
(* The inductive invariant behind the refinement: the stack of every        *)
(* terminal that runs a process is a chain of its own.                      *)
StacksInv ==
    /\ ForestInv
    /\ \A t \in Terms : running_pcb[t] # NULL =>
          Own(StackOf(t), running_pcb[t], parent_pcb, Roots, processes)

(* What the stack of terminal t has become.                                 *)
LEMMA StackBecomes ==
    ASSUME NEW t \in Terms, NEW q, Own(q, running_pcb'[t], parent_pcb', Roots', processes')
    PROVE  /\ StackOf(t)' = q
           /\ Own(StackOf(t)', running_pcb'[t], parent_pcb', Roots', processes')
<1>1. q \in Seq(Slots) /\ IsChain(q, running_pcb'[t], parent_pcb', Roots')
  BY DEF Own
<1>2. PICK top : top = running_pcb'[t]
  OBVIOUS
<1>3. PICK parent : parent = parent_pcb'
  OBVIOUS
<1>4. PICK roots : roots = Roots'
  OBVIOUS
<1>5. Chain(top, parent, roots) = q
  BY <1>1, <1>2, <1>3, <1>4, ChainIs
<1>6. StackOf(t)' = q
  BY <1>2, <1>3, <1>4, <1>5 DEF StackOf
<1> QED
  BY <1>6

(* A stack of which no slot is freed or given another parent.               *)
LEMMA SlotsKept ==
    ASSUME StacksInv, NEW t \in Terms, running_pcb[t] # NULL,
           NEW S \in SUBSET processes,
           \A i \in 1 .. Len(StackOf(t)) : StackOf(t)[i] \in S,
           \A s \in S : /\ s \in processes'
                        /\ IsRoot(s)' <=> IsRoot(s)
                        /\ s # 0 => parent_pcb'[s] = parent_pcb[s]
    PROVE  Own(StackOf(t), running_pcb[t], parent_pcb', Roots', processes')
<1>1. PICK q : q = StackOf(t)
  OBVIOUS
<1>2. Own(q, running_pcb[t], parent_pcb, Roots, processes)
  BY <1>1 DEF StacksInv
<1>3. S \subseteq Slots
  BY DEF StacksInv, ForestInv, ContextInv, TypeOK
<1>4. \A s \in S : /\ s \in Roots' <=> s \in Roots
                   /\ s \notin Roots => parent_pcb'[s] = parent_pcb[s]
  <2>1. \A s \in S : s \in Roots' <=> IsRoot(s)'
    BY <1>3 DEF Roots
  <2>2. \A s \in S : s \in Roots <=> IsRoot(s)
    BY <1>3 DEF Roots
  <2> QED
    BY <2>1, <2>2 DEF IsRoot
<1>5. \A i \in 1 .. Len(q) : /\ q[i] \in processes'
                             /\ q[i] \in Roots' <=> q[i] \in Roots
                             /\ q[i] \notin Roots => parent_pcb'[q[i]] = parent_pcb[q[i]]
  BY <1>1, <1>4
<1>6. Own(q, running_pcb[t], parent_pcb', Roots', processes')
  BY <1>2, <1>5, ChainKept
<1> QED
  BY <1>1, <1>6

LEMMA StackStays ==
    ASSUME StacksInv, NEW t \in Terms, running_pcb[t] # NULL, running_pcb'[t] = running_pcb[t],
           NEW S \in SUBSET processes,
           \A i \in 1 .. Len(StackOf(t)) : StackOf(t)[i] \in S,
           \A s \in S : /\ s \in processes'
                        /\ IsRoot(s)' <=> IsRoot(s)
                        /\ s # 0 => parent_pcb'[s] = parent_pcb[s]
    PROVE  /\ StackOf(t)' = StackOf(t)
           /\ Own(StackOf(t)', running_pcb'[t], parent_pcb', Roots', processes')
<1>1. Own(StackOf(t), running_pcb'[t], parent_pcb', Roots', processes')
  BY SlotsKept
<1> QED
  BY <1>1, StackBecomes

(* The elements of a stack are allocated, and only its top runs.            *)
LEMMA StackElements ==
    ASSUME StacksInv, NEW t \in Terms
    PROVE  /\ running_pcb[t] = NULL => StackOf(t) = <<>>
           /\ running_pcb[t] # NULL => StackOf(t) # <<>>
           /\ \A i \in 1 .. Len(StackOf(t)) :
                 /\ StackOf(t)[i] \in processes
                 /\ \A u \in Terms : StackOf(t)[i] = running_pcb[u] => u = t
<1>1. CASE running_pcb[t] = NULL
  BY <1>1 DEF StackOf, Chain
<1>2. CASE running_pcb[t] # NULL
  <2>1. PICK q : q = StackOf(t)
    OBVIOUS
  <2>2. Own(q, running_pcb[t], parent_pcb, Roots, processes)
    BY <1>2, <2>1 DEF StacksInv
  <2>3. q # <<>> /\ Len(q) \in Nat /\ Len(q) > 0
    BY <2>2, OwnSizes DEF Own, IsChain
  <2>4. ASSUME NEW i \in 1 .. Len(q), NEW u \in Terms, q[i] = running_pcb[u]
        PROVE  u = t
    <3>1. q[i] \in processes /\ q[i] \in Slots /\ q[i] # NULL
      <4>1. q[i] \in processes /\ processes \subseteq Slots
        BY <2>2 DEF Own, StacksInv, ForestInv, ContextInv, TypeOK
      <4>2. \A s \in Slots : s # NULL
        BY ConstantsAssumption DEF Slots, NULL
      <4> QED
        BY <4>1, <4>2
    <3>2. CASE i = Len(q)
      <4>1. q[i] = running_pcb[t]
        BY <2>2, <3>2 DEF Own, IsChain
      <4> QED
        BY <2>4, <3>1, <4>1 DEF StacksInv, ForestInv, RunningIsAllocated
    <3>3. CASE i # Len(q)
      <4>1. i + 1 \in 2 .. Len(q) /\ i + 1 \in 1 .. Len(q) /\ i + 1 # 1 /\ (i + 1) - 1 = i
        BY <2>3, <3>3
      <4>2. PICK c : c = q[i + 1]
        OBVIOUS
      <4>3. c \in processes /\ c \notin Roots /\ parent_pcb[c] = q[i]
        BY <2>2, <4>1, <4>2 DEF Own, IsChain
      <4>4. ~IsRoot(c)
        BY <4>3 DEF Roots, StacksInv, ForestInv, ContextInv, TypeOK
      <4>5. running_pcb[u] # parent_pcb[c]
        BY <4>3, <4>4 DEF StacksInv, ForestInv, ParentWaits
      <4> QED
        BY <2>4, <4>3, <4>5
    <3> QED
      BY <3>2, <3>3
  <2> QED
    BY <1>2, <2>1, <2>2, <2>3, <2>4 DEF Own
<1> QED
  BY <1>1, <1>2

(* A slot that is not allocated is in no stack.                             *)
LEMMA FreeSlot ==
    ASSUME StacksInv, NEW p \in Slots, p \notin processes
    PROVE  Stacks!Free(p)
<1>1. ASSUME NEW t \in Terms PROVE ~Stacks!Contains(StackOf(t), p)
  BY StackElements DEF Stacks!Contains
<1> QED
  BY <1>1 DEF Stacks!Free

(* The stacks as one function, and its update.                              *)
LEMMA OneStackWritten ==
    ASSUME NEW t \in Terms, NEW q, StackOf(t)' = q,
           \A u \in Terms \ {t} : StackOf(u)' = StackOf(u)
    PROVE  [u \in Terms |-> StackOf(u)]' = [[u \in Terms |-> StackOf(u)] EXCEPT ![t] = q]
OBVIOUS

LEMMA NoStackWritten ==
    ASSUME \A u \in Terms : StackOf(u)' = StackOf(u)
    PROVE  [u \in Terms |-> StackOf(u)]' = [u \in Terms |-> StackOf(u)]
OBVIOUS

(* Opening a terminal is Open, whether the boot code or Ctrl+n does it.     *)
LEMMA OpenIsOpen ==
    ASSUME StacksInv, ForestInv', NEW t \in Terms, NEW p \in Slots, NEW by \in {"boot", "switch"},
           Start(t, processes, p, by), ~been_here[t], current_terminal' = t
    PROVE  StacksInv' /\ Stacks!Open(t)
<1>1. processes \in SUBSET Slots /\ by \in Callers
  BY DEF StacksInv, ForestInv, ContextInv, TypeOK, Callers
<1>2. StartEffect(t, processes, p, by)
  BY <1>1, StartFacts DEF StacksInv, ForestInv, ContextInv
<1>3. running_pcb[t] = NULL
  BY DEF StacksInv, ForestInv, ContextInv, OpenedTerminalsRun
<1>4. \A s \in processes : /\ s \in processes' /\ s # p
                           /\ IsRoot(s)' <=> IsRoot(s)
                           /\ s # 0 => parent_pcb'[s] = parent_pcb[s]
  BY <1>1, <1>2 DEF StartEffect, IsRoot
<1>5. ASSUME NEW u \in Terms \ {t}
      PROVE  /\ StackOf(u)' = StackOf(u)
             /\ running_pcb'[u] # NULL => Own(StackOf(u)', running_pcb'[u], parent_pcb', Roots', processes')
  <2>1. running_pcb'[u] = running_pcb[u]
    BY <1>2 DEF StartEffect
  <2>2. CASE running_pcb[u] = NULL
    BY <2>1, <2>2 DEF StackOf, Chain
  <2>3. CASE running_pcb[u] # NULL
    BY <1>4, <2>1, <2>3, StackElements, StackStays
  <2> QED
    BY <2>1, <2>2, <2>3
<1>6. p \in Roots' /\ p \in processes' /\ running_pcb'[t] = p
  <2>1. IsRoot(p)'
    BY <1>2 DEF StartEffect, IsRoot
  <2> QED
    BY <1>2, <2>1 DEF Roots, StartEffect
<1>7. Own(<<p>>, running_pcb'[t], parent_pcb', Roots', processes')
  <2>1. PICK parent : parent = parent_pcb'
    OBVIOUS
  <2>2. PICK roots : roots = Roots'
    OBVIOUS
  <2>3. PICK procs : procs = processes'
    OBVIOUS
  <2> QED
    BY <1>6, <2>1, <2>2, <2>3, ChainOfOne
<1>8. StackOf(t)' = <<p>> /\ Own(StackOf(t)', running_pcb'[t], parent_pcb', Roots', processes')
  BY <1>7, StackBecomes
<1>9. StacksInv'
  BY <1>5, <1>8 DEF StacksInv
<1>10. StackOf(t) = <<>>
  BY <1>3, StackElements
<1>11. Stacks!Free(p)
  BY <1>2, FreeSlot DEF StartEffect
<1>12. [u \in Terms |-> StackOf(u)]' = [[u \in Terms |-> StackOf(u)] EXCEPT ![t] = <<p>>]
  BY <1>5, <1>8, OneStackWritten
<1> QED
  BY <1>9, <1>10, <1>11, <1>12 DEF Stacks!Open

(* execute is Run.                                                          *)
LEMMA ExecuteIsRun ==
    ASSUME StacksInv, ForestInv', Execute
    PROVE  StacksInv' /\ Stacks!Run
<1> USE DEF StacksInv, ForestInv, ContextInv
<1>0. PICK t \in Terms : t = current_terminal
  BY DEF TypeOK
<1>1. PICK p \in Slots : Start(current_terminal, processes, p, "syscall")
  BY DEF Execute
<1>2. processes \in SUBSET Slots /\ "syscall" \in Callers /\ t \in Terms
  BY DEF TypeOK, Callers
<1>3. StartEffect(t, processes, p, "syscall")
  BY <1>0, <1>1, <1>2, StartFacts
<1>4. cpu # NULL /\ running_pcb[t] # NULL /\ been_here[t]
  <2>1. cpu # NULL
    BY DEF Execute, InUser
  <2>2. Current # NULL
    BY <1>0, <1>2, <1>3, <2>1 DEF NoProcessOnlyWhenFull, StartEffect
  <2> QED
    BY <1>0, <1>2, <2>1, <2>2 DEF TypeOK, Current, OpenedTerminalsRun
<1>5. p # 0 /\ p \notin processes /\ ~term_start[p]
  BY <1>3, <1>4 DEF BootShellImmortal, StartEffect, MarkedSlotsStay
<1>6. /\ parent_pcb'[p] = running_pcb[t] /\ running_pcb'[t] = p /\ p \in processes'
      /\ p \notin Roots'
      /\ \A u \in Terms \ {t} : running_pcb'[u] = running_pcb[u]
  <2>1. ~IsRoot(p)'
    BY <1>3, <1>4, <1>5 DEF StartEffect, IsRoot
  <2> QED
    BY <1>3, <1>4, <1>5, <2>1 DEF StartEffect, Roots
<1>7. \A s \in processes : /\ s \in processes' /\ s # p
                           /\ IsRoot(s)' <=> IsRoot(s)
                           /\ s # 0 => parent_pcb'[s] = parent_pcb[s]
  BY <1>2, <1>3 DEF StartEffect, IsRoot
<1> HIDE DEF StacksInv, ForestInv, ContextInv
<1>8. ASSUME NEW u \in Terms \ {t}
      PROVE  /\ StackOf(u)' = StackOf(u)
             /\ running_pcb'[u] # NULL => Own(StackOf(u)', running_pcb'[u], parent_pcb', Roots', processes')
  <2>1. CASE running_pcb[u] = NULL
    BY <1>6, <2>1 DEF StackOf, Chain
  <2>2. CASE running_pcb[u] # NULL
    BY <1>6, <1>7, <2>2, StackElements, StackStays
  <2> QED
    BY <1>6, <2>1, <2>2
<1>9. PICK q : q = StackOf(t)
  OBVIOUS
<1>10. PICK parent : parent = parent_pcb'
  OBVIOUS
<1>11. PICK roots : roots = Roots'
  OBVIOUS
<1>12. PICK procs : procs = processes'
  OBVIOUS
<1>13. Own(q, running_pcb[t], parent_pcb, Roots, processes)
  BY <1>2, <1>4, <1>9 DEF StacksInv
<1>14. Own(q, running_pcb[t], parent, roots, procs)
  <2>1. Own(q, running_pcb[t], parent_pcb', Roots', processes')
    BY <1>2, <1>4, <1>7, <1>9, StackElements, SlotsKept
  <2> QED
    BY <1>10, <1>11, <1>12, <2>1
<1>15. Own(Append(q, p), p, parent, roots, procs)
  <2>1. \A i \in 1 .. Len(q) : q[i] # p
    BY <1>5, <1>13 DEF Own
  <2> QED
    BY <1>6, <1>10, <1>11, <1>12, <1>14, <2>1, ChainPushed
<1>16. StackOf(t)' = Append(q, p) /\ Own(StackOf(t)', running_pcb'[t], parent_pcb', Roots', processes')
  BY <1>2, <1>6, <1>10, <1>11, <1>12, <1>15, StackBecomes
<1>17. StacksInv'
  BY <1>8, <1>16 DEF StacksInv
<1>18. Stacks!Free(p)
  BY <1>5, FreeSlot
<1>19. [u \in Terms |-> StackOf(u)]' = [[u \in Terms |-> StackOf(u)] EXCEPT ![t] = Append(@, p)]
  <2>1. [u \in Terms |-> StackOf(u)]' = [[u \in Terms |-> StackOf(u)] EXCEPT ![t] = Append(q, p)]
    BY <1>2, <1>8, <1>16, OneStackWritten
  <2> QED
    BY <1>2, <1>9, <2>1
<1>20. StackOf(t) # <<>> /\ current_terminal' = current_terminal
  BY <1>0, <1>2, <1>4, StackElements DEF Execute
<1> QED
  BY <1>0, <1>2, <1>17, <1>18, <1>19, <1>20 DEF Stacks!Run

(* halt of a process that is no first shell is Exit.                        *)
LEMMA HaltIsExit ==
    ASSUME StacksInv, HaltToParent
    PROVE  StacksInv' /\ Stacks!Exit
<1>1. PICK t \in Terms : t = current_terminal
  BY DEF StacksInv, ForestInv, ContextInv, TypeOK
<1>2. PICK p : p = running_pcb[t]
  OBVIOUS
<1>3. /\ ForestInv'
      /\ processes' = processes \ {p}
      /\ running_pcb'[t] = parent_pcb[p]
  BY <1>1, <1>2, ReturnForest DEF StacksInv, Current
<1>4. /\ p # NULL /\ p \notin Roots
      /\ parent_pcb' = parent_pcb /\ Roots' = Roots /\ current_terminal' = current_terminal
      /\ \A u \in Terms \ {t} : running_pcb'[u] = running_pcb[u]
      /\ \A s \in Slots : IsRoot(s)' <=> IsRoot(s)
  <2>1. parent_pcb' = parent_pcb /\ term_start' = term_start /\ current_terminal' = current_terminal
    BY DEF HaltToParent, pcbVars
  <2>2. \A s \in Slots : IsRoot(s)' <=> IsRoot(s)
    BY <2>1 DEF IsRoot
  <2>3. p # NULL /\ ~IsRoot(p)
    BY <1>1, <1>2 DEF HaltToParent, Current, IsRoot, IsFirstShell
  <2>4. \A u \in Terms \ {t} : running_pcb'[u] = running_pcb[u]
    BY <1>1 DEF HaltToParent, StacksInv, ForestInv, ContextInv, TypeOK
  <2> QED
    BY <2>1, <2>2, <2>3, <2>4 DEF Roots
<1>5. PICK q : q = StackOf(t)
  OBVIOUS
<1>6. Own(q, p, parent_pcb, Roots, processes)
  BY <1>2, <1>4, <1>5 DEF StacksInv
<1>7. Len(q) > 1 /\ Own(Front(q), parent_pcb[p], parent_pcb, Roots, processes \ {p})
  BY <1>4, <1>6, ChainPopped
<1>8. Own(Front(q), running_pcb'[t], parent_pcb', Roots', processes')
  BY <1>3, <1>4, <1>7
<1>9. StackOf(t)' = Front(q) /\ Own(StackOf(t)', running_pcb'[t], parent_pcb', Roots', processes')
  BY <1>8, StackBecomes
<1>10. ASSUME NEW u \in Terms \ {t}
       PROVE  /\ StackOf(u)' = StackOf(u)
              /\ running_pcb'[u] # NULL => Own(StackOf(u)', running_pcb'[u], parent_pcb', Roots', processes')
  <2>1. CASE running_pcb[u] = NULL
    BY <1>4, <2>1 DEF StackOf, Chain
  <2>2. CASE running_pcb[u] # NULL
    <3>1. \A i \in 1 .. Len(StackOf(u)) : StackOf(u)[i] \in processes \ {p}
      BY <1>2, StackElements
    <3>2. processes \ {p} \in SUBSET processes /\ processes \subseteq Slots
      BY DEF StacksInv, ForestInv, ContextInv, TypeOK
    <3>3. \A s \in processes \ {p} : /\ s \in processes'
                                     /\ IsRoot(s)' <=> IsRoot(s)
                                     /\ s # 0 => parent_pcb'[s] = parent_pcb[s]
      BY <1>3, <1>4, <3>2
    <3> QED
      BY <1>4, <2>2, <3>1, <3>2, <3>3, StackStays
  <2> QED
    BY <1>4, <2>1, <2>2
<1>11. StacksInv'
  BY <1>3, <1>9, <1>10 DEF StacksInv
<1>12. Stacks!Front(q) = Front(q)
  BY DEF Stacks!Front, Front
<1>13. [u \in Terms |-> StackOf(u)]' = [[u \in Terms |-> StackOf(u)] EXCEPT ![t] = Stacks!Front(@)]
  <2>1. [u \in Terms |-> StackOf(u)]' = [[u \in Terms |-> StackOf(u)] EXCEPT ![t] = Front(q)]
    BY <1>9, <1>10, OneStackWritten
  <2> QED
    BY <1>5, <1>12, <2>1
<1> QED
  BY <1>1, <1>4, <1>5, <1>7, <1>11, <1>13 DEF Stacks!Exit

(* A step that touches neither the slots nor the links of their PCBs leaves *)
(* the stacks alone.                                                        *)
LEMMA LinksKept ==
    ASSUME StacksInv, ForestInv', processes' = processes, running_pcb' = running_pcb,
           term_start' = term_start, \A s \in Slots : s # 0 => parent_pcb'[s] = parent_pcb[s]
    PROVE  /\ StacksInv'
           /\ [u \in Terms |-> StackOf(u)]' = [u \in Terms |-> StackOf(u)]
<1>1. processes \in SUBSET processes /\ processes \subseteq Slots
  BY DEF StacksInv, ForestInv, ContextInv, TypeOK
<1>2. \A s \in processes : /\ s \in processes'
                           /\ IsRoot(s)' <=> IsRoot(s)
                           /\ s # 0 => parent_pcb'[s] = parent_pcb[s]
  BY <1>1 DEF IsRoot
<1>3. ASSUME NEW u \in Terms
      PROVE  /\ StackOf(u)' = StackOf(u)
             /\ running_pcb'[u] # NULL => Own(StackOf(u)', running_pcb'[u], parent_pcb', Roots', processes')
  <2>1. CASE running_pcb[u] = NULL
    BY <2>1 DEF StackOf, Chain
  <2>2. CASE running_pcb[u] # NULL
    BY <1>1, <1>2, <2>2, StackElements, StackStays
  <2> QED
    BY <2>1, <2>2
<1> QED
  BY <1>3, NoStackWritten DEF StacksInv

(* Full tables are not asked for one more shell.                            *)
NeverOpenFull == "open_when_full" \notin Admitted

LEMMA StacksSimulated ==
    ASSUME RootsStay, NeverOpenFull, StacksInv, [Next]_vars
    PROVE  /\ StacksInv'
           /\ [Stacks!Next]_<<[t \in Terms |-> StackOf(t)], current_terminal>>
<1>0. ForestInv'
  BY ForestStep DEF StacksInv
<1>a. current_terminal \in Terms /\ ForestInv /\ ContextInv
  BY DEF StacksInv, ForestInv, ContextInv, TypeOK
<1>1. CASE Boot
  <2>1. PICK p \in Slots : Start(current_terminal, processes, p, "boot")
    BY <1>1 DEF Boot
  <2>2. PICK t \in Terms : t = current_terminal /\ current_terminal' = t
    BY <1>a, <1>1 DEF Boot
  <2>3. ~been_here[t]
    BY <1>1, <1>a DEF Boot, ContextInv, NothingBeforeBoot
  <2> QED
    BY <1>0, <2>1, <2>2, <2>3, OpenIsOpen DEF Stacks!Next
<1>2. CASE Execute
  BY <1>0, <1>2, ExecuteIsRun DEF Stacks!Next
<1>3. CASE HaltToParent
  BY <1>3, HaltIsExit DEF Stacks!Next
<1>4. CASE HaltFirstShell
  <2>1. /\ processes' = processes /\ running_pcb' = running_pcb /\ term_start' = term_start
        /\ \A s \in Slots : s # 0 => parent_pcb'[s] = parent_pcb[s]
        /\ current_terminal' = current_terminal
    BY <1>a, <1>4, ReloadForest
  <2> QED
    BY <1>0, <2>1, LinksKept
<1>5. CASE Jump \/ EnterWait \/ LeaveWait \/ Exception \/ UNCHANGED vars
  <2>1. UNCHANGED <<processes, pcbVars, termVars>>
    BY <1>5 DEF Jump, EnterWait, LeaveWait, Exception, vars
  <2>2. /\ processes' = processes /\ running_pcb' = running_pcb /\ term_start' = term_start
        /\ parent_pcb' = parent_pcb /\ current_terminal' = current_terminal
    BY <2>1 DEF pcbVars, termVars
  <2> QED
    BY <1>0, <2>2, LinksKept
<1>6. ASSUME NEW t \in Terms, SwitchTo(t)
      PROVE  StacksInv' /\ Stacks!Show(t)
  <2>1. /\ processes' = processes /\ running_pcb' = running_pcb /\ term_start' = term_start
        /\ parent_pcb' = parent_pcb /\ current_terminal' = t /\ been_here[t]
    BY <1>6 DEF SwitchTo, pcbVars
  <2>2. StackOf(t) # <<>>
    BY <1>a, <2>1, StackElements DEF ContextInv, OpenedTerminalsRun
  <2> QED
    BY <1>0, <2>1, <2>2, LinksKept DEF Stacks!Show
<1>7. ASSUME NEW t \in Terms, OpenTerminal(t)
      PROVE  StacksInv' /\ Stacks!Open(t)
  <2>1. PICK p \in Slots : Start(t, processes, p, "switch")
    BY <1>7 DEF OpenTerminal
  <2>2. ~been_here[t] /\ current_terminal' = t
    BY <1>7 DEF OpenTerminal
  <2> QED
    BY <1>0, <2>1, <2>2, OpenIsOpen
<1>8. ASSUME NEW t \in Terms, OpenTerminalFull(t)
      PROVE  FALSE
  BY <1>8 DEF OpenTerminalFull, NeverOpenFull
<1> QED
  BY <1>1, <1>2, <1>3, <1>4, <1>5, <1>6, <1>7, <1>8 DEF Next, Stacks!Next

LEMMA StacksStart == Init => StacksInv /\ Stacks!Init
<1> SUFFICES ASSUME Init PROVE StacksInv /\ Stacks!Init
  OBVIOUS
<1>1. \A t \in Terms : running_pcb[t] = NULL
  BY DEF Init
<1>2. StacksInv
  BY <1>1, ForestInit DEF StacksInv
<1>3. \A t \in Terms : StackOf(t) = <<>>
  BY <1>1 DEF StackOf, Chain
<1> QED
  BY <1>2, <1>3 DEF Init, Stacks!Init

(* The kernel implements TerminalStacks, for any number of slots and        *)
(* terminals, also when Ctrl+n comes in the middle of halt: its PCBs,       *)
(* frames and saved stack pointers never show.                              *)
THEOREM TerminalsAreStacks ==
    ASSUME RootsStay, NeverOpenFull
    PROVE  Spec => ImplementsTerminalStacks
<1>1. StacksInv /\ [Next]_vars =>
         StacksInv' /\ [Stacks!Next]_<<[t \in Terms |-> StackOf(t)], current_terminal>>
  BY StacksSimulated
<1> QED
  BY <1>1, StacksStart, PTL DEF Spec, ImplementsTerminalStacks, Stacks!Spec

=============================================================================
