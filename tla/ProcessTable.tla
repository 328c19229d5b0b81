---------------------------- MODULE ProcessTable ----------------------------
(***************************************************************************)
(* The process table and the three terminals of the kernel in              *)
(* src/student-distrib: which of the process slots are allocated, which    *)
(* process each terminal runs, how execute and halt hand the processor     *)
(* from parent to child and back, and how Ctrl+1/2/3 moves it between      *)
(* terminals (syscalls.c, keyboard_driver.c, paging_handler.c).            *)
(*                                                                         *)
(* Every process slot p has a PCB and a kernel stack at a fixed address    *)
(* computed from p, so a slot, its PCB and its kernel stack share one      *)
(* name here.  The address of PCB p is modelled by p itself.               *)
(*                                                                         *)
(* System calls run with interrupts off from syscall_handler's cli, so     *)
(* each is one action, except where the code turns interrupts on again:    *)
(* in terminal_read and rtc_read (EnterWait .. LeaveWait) and between the  *)
(* load of esp and the load of ebp in halt (HaltToParent .. Jump).         *)
(***************************************************************************)
EXTENDS Integers

CONSTANTS
    MAX_PROCESSES_DEC,  \* process slots (6 in the code)
    NUM_TERMS,          \* terminals (3 in the code)
    Admitted            \* environment events this instance lets happen

(***************************************************************************)
(* The events a user can cause that the code does not cope with.  A run    *)
(* admits the ones it wants to study:                                      *)
(*   exit_root       the first shell of a terminal other than slot 0 exits *)
(*   open_when_full  Ctrl+n to an unopened terminal with all slots taken   *)
(*   switch_in_halt  Ctrl+n lands between halt's loads of esp and ebp      *)
(***************************************************************************)
Events == {"exit_root", "open_when_full", "switch_in_halt"}

ASSUME ConstantsAssumption ==
    /\ MAX_PROCESSES_DEC \in Nat \ {0}
    /\ NUM_TERMS \in Nat \ {0}
    /\ Admitted \subseteq Events

Slots == 0 .. MAX_PROCESSES_DEC - 1
Terms == 0 .. NUM_TERMS - 1
NULL  == -1

(***************************************************************************)
(* What the kernel stack of a slot holds.                                  *)
(*   unused   nothing yet: no process ever ran in the slot                 *)
(*   user     nothing: its process is in user mode, or was when a keyboard *)
(*            interrupt that switched terminals pushed its frame           *)
(*   kernel   a process spinning in terminal_read or rtc_read              *)
(*   fault    a process spinning in an exception handler of idt.c          *)
(*   execute  the frame of execute, whose child is running                 *)
(*   jump     the frame of execute, esp already reloaded by halt           *)
(*   dead     frames nothing may return through any more                   *)
(***************************************************************************)
Modes == {"unused", "user", "kernel", "fault", "execute", "jump", "dead"}

(* Who called execute: the boot code, a process, halt or a terminal switch. *)
Callers == {"boot", "syscall", "halt", "switch"}

Frames == [stack : Slots \cup {NULL}, by : Callers]
NoFrame == [stack |-> NULL, by |-> "boot"]

VARIABLES
    processes,         \* the slots whose bit is set in `processes`
    current_terminal,  \* the terminal on the screen
    been_here,         \* been_here[t]: terminal t has been opened
    running_pcb,       \* running_pcb[t]: the process terminal t runs
    parent_pcb,        \* PCB fields of each slot: the parent's PCB,
    parent_frame,      \*   parent_sp/parent_bp, and
    term_start,        \*   "first process of its terminal"
    image,             \* the process mapped at 128 MB (page_directory_set)
    esp0,              \* tss.esp0: the kernel stack of the next kernel entry
    cpu,               \* the kernel stack the processor is on, or returns to
    kstack,            \* kstack[p]: what kernel stack p holds
    saved,             \* current_esp/current_ebp of each terminal
    term_esp0,         \* esp0 field of each terminal
    old_frame,         \* globals old_esp/old_ebp, written by halt
    lost               \* control went through a frame that is not there

pcbVars  == <<parent_pcb, parent_frame, term_start>>
termVars == <<current_terminal, been_here, running_pcb, saved, term_esp0>>
cpuVars  == <<image, esp0, cpu, old_frame, lost>>
vars == <<processes, pcbVars, termVars, cpuVars, kstack>>

Current == running_pcb[current_terminal]

TypeOK ==
    /\ processes \subseteq Slots
    /\ current_terminal \in Terms
    /\ been_here \in [Terms -> BOOLEAN]
    /\ running_pcb \in [Terms -> Slots \cup {NULL}]
    /\ parent_pcb \in [Slots -> Slots \cup {NULL}]
    /\ parent_frame \in [Slots -> Frames]
    /\ term_start \in [Slots -> BOOLEAN]
    /\ image \in Slots \cup {NULL}
    /\ esp0 \in Slots \cup {NULL}
    /\ cpu \in Slots \cup {NULL}
    /\ kstack \in [Slots -> Modes]
    /\ saved \in [Terms -> [stack : Slots \cup {NULL}, at : Modes]]
    /\ term_esp0 \in [Terms -> Slots \cup {NULL}]
    /\ old_frame \in Frames
    /\ lost \in BOOLEAN

-----------------------------------------------------------------------------
(* Zeroed bss and PCB memory, the processor still on the boot stack.        *)
Init ==
    /\ processes = {}
    /\ current_terminal = 0
    /\ been_here = [t \in Terms |-> FALSE]
    /\ running_pcb = [t \in Terms |-> NULL]
    /\ parent_pcb = [p \in Slots |-> NULL]
    /\ parent_frame = [p \in Slots |-> NoFrame]
    /\ term_start = [p \in Slots |-> FALSE]
    /\ image = NULL
    /\ esp0 = NULL
    /\ cpu = NULL
    /\ kstack = [p \in Slots |-> "unused"]
    /\ saved = [t \in Terms |-> [stack |-> NULL, at |-> "unused"]]
    /\ term_esp0 = [t \in Terms |-> NULL]
    /\ old_frame = NoFrame
    /\ lost = FALSE

(* Mutants: the scan runs from the top; the scan does not test the bit.     *)
ScanFromTop(procs, p) ==
    /\ p \in Slots \ procs
    /\ \A q \in Slots \ procs : q <= p
ScanUntested(procs, p) == p \in Slots /\ \A q \in Slots \ procs : p <= q

(* The slot execute's scan of the bit vector stops at.                      *)
LowestFree(procs, p) ==
    /\ p \in Slots \ procs
    /\ \A q \in Slots \ procs : p <= q

InUser == cpu # NULL /\ kstack[cpu] = "user" /\ ~lost

(* Interrupts are on: a key can be handled now.                             *)
Interruptible ==
    /\ cpu # NULL /\ ~lost
    /\ \/ kstack[cpu] \in {"user", "kernel", "fault"}
       \/ kstack[cpu] = "jump" /\ "switch_in_halt" \in Admitted

(* What its caller's stack holds once execute leaves it for user mode:      *)
(* halt's is never returned to, a switch's keeps the interrupted work.      *)
ParkedMode(by, mode) ==
    CASE by = "syscall" -> "execute"
      [] by = "halt"    -> "dead"
      [] OTHER          -> mode

(* Mutants: tss.esp0 is not written; it is set to the stack of the next     *)
(* slot.                                                                    *)
LoadWithoutEsp0(p, stack) == image' = p /\ esp0' = esp0
LoadNextStack(p, stack) == image' = p /\ esp0' = stack + 1

(* load_new_process(p), and tss.esp0 := the given kernel stack.             *)
LoadContext(p, stack) == image' = p /\ esp0' = stack

(* Mutants: one global running_pcb for all terminals; a parent never set.   *)
GlobalParent(t, p) == IF p # 0 THEN running_pcb[0] ELSE NULL
NoParent(t, p) == NULL

(* The parent execute records in PCB p.                                     *)
ParentLink(t, p) == IF p # 0 /\ been_here[t] THEN running_pcb[t] ELSE NULL

(* execute, once the command is found to be an executable: slot p starts    *)
(* in terminal t, procs being the slots taken.  The first process of a      *)
(* terminal is marked term_start; nothing ever unmarks a slot.              *)
Start(t, procs, p, by) ==
    /\ LowestFree(procs, p)
    /\ processes' = procs \cup {p}
    /\ LoadContext(p, p)
    /\ parent_pcb' = [parent_pcb EXCEPT ![p] = ParentLink(t, p)]
    /\ running_pcb' = [running_pcb EXCEPT ![t] = p]
    /\ term_start' = [term_start EXCEPT ![p] = @ \/ ~been_here[t]]
    /\ been_here' = [been_here EXCEPT ![t] = TRUE]
    /\ parent_frame' = [parent_frame EXCEPT ![p] =
                          IF p = 0 THEN NoFrame
                                   ELSE [stack |-> cpu, by |-> by]]
    /\ cpu' = p
    /\ kstack' = [q \in Slots |-> CASE q = p   -> "user"
                                    [] q = cpu /\ q # p -> ParkedMode(by, kstack[q])
                                    [] OTHER   -> kstack[q]]

(* kernel.c runs the first shell.                                           *)
Boot ==
    /\ cpu = NULL /\ ~lost
    /\ \E p \in Slots : Start(current_terminal, processes, p, "boot")
    /\ UNCHANGED <<current_terminal, saved, term_esp0, old_frame, lost>>

(* System call execute.  Its failures (-1, and -10 when every slot is       *)
(* taken) leave all of this state alone.                                    *)
Execute ==
    /\ InUser
    /\ \E p \in Slots : Start(current_terminal, processes, p, "syscall")
    /\ UNCHANGED <<current_terminal, saved, term_esp0, old_frame, lost>>

-----------------------------------------------------------------------------
(* Mutants: the bit of the slot below is cleared; no bit is cleared.        *)
ClearBitBelow(s) == processes \ {s - 1}
ClearNoBit(s) == processes

(* processes &= process_clear_bitmasks[s]                                   *)
ClearBit(s) == processes \ {s}

(* halt's test for a shell that must be replaced, not returned from.        *)
IsFirstShell(s) == s = 0 \/ term_start[s]

(* System call halt of a first shell: its bit is cleared and a new shell    *)
(* takes the lowest free slot, which need not be the same one.              *)
HaltFirstShell ==
    /\ InUser
    /\ Current # NULL
    /\ IsFirstShell(Current)
    /\ Current # 0 => "exit_root" \in Admitted
    /\ \E p \in Slots :
          Start(current_terminal, ClearBit(Current), p, "halt")
    /\ UNCHANGED <<current_terminal, saved, term_esp0, old_frame, lost>>

(* The frame execute left on f.stack can be returned through.               *)
Intact(f) ==
    /\ f.by = "syscall" /\ f.stack # NULL
    /\ kstack[f.stack] = "execute"

(* System call halt of any other process, up to the load of esp: the        *)
(* parent's PCB, address space and kernel stack are current again and halt  *)
(* has left the child's stack.  A frame that is gone loses the processor.   *)
HaltToParent ==
    /\ InUser
    /\ Current # NULL
    /\ ~IsFirstShell(Current)
    /\ LET s == Current
           f == parent_frame[s]
       IN  /\ processes' = ClearBit(s)
           /\ old_frame' = f
           /\ running_pcb' = [running_pcb EXCEPT ![current_terminal] = parent_pcb[s]]
           /\ LoadContext(parent_pcb[s], parent_pcb[s])
           /\ cpu' = f.stack
           /\ lost' = ~Intact(f)
           /\ kstack' = [q \in Slots |-> CASE q = cpu -> "dead"
                                           [] q = f.stack /\ Intact(f) /\ q # cpu -> "jump"
                                           [] OTHER -> kstack[q]]
    /\ UNCHANGED <<current_terminal, been_here, pcbVars, saved, term_esp0>>

(* The rest of halt: load ebp from the global, jump into execute, return to *)
(* user mode through the frame esp points at.  execute's epilogue stores    *)
(* its result below ebp: when ebp is another stack's, the store lands in    *)
(* what that stack holds now.  In a frame of execute it is harmless; in the *)
(* frames of an interrupted process it may or may not hit something live.   *)
Jump ==
    /\ cpu # NULL /\ ~lost
    /\ kstack[cpu] = "jump"
    /\ \E smash \in SUBSET {"user", "kernel", "fault"} :
          kstack' = [q \in Slots |->
                       CASE q = cpu -> "user"
                         [] q = old_frame.stack /\ q # cpu /\ kstack[q] \in smash -> "dead"
                         [] OTHER -> kstack[q]]
    /\ UNCHANGED <<processes, pcbVars, termVars, cpuVars>>

-----------------------------------------------------------------------------
(* read of stdin or of the rtc: the kernel spins with interrupts on.        *)
EnterWait ==
    /\ InUser
    /\ Current # NULL
    /\ kstack' = [kstack EXCEPT ![cpu] = "kernel"]
    /\ UNCHANGED <<processes, pcbVars, termVars, cpuVars>>

LeaveWait ==
    /\ cpu # NULL /\ ~lost
    /\ kstack[cpu] = "kernel"
    /\ kstack' = [kstack EXCEPT ![cpu] = "user"]
    /\ UNCHANGED <<processes, pcbVars, termVars, cpuVars>>

(* A fault of the program, or of a system call that follows the NULL        *)
(* running_pcb of a terminal that failed to open: the handler spins.        *)
Exception ==
    /\ InUser
    /\ kstack' = [kstack EXCEPT ![cpu] = "fault"]
    /\ UNCHANGED <<processes, pcbVars, termVars, cpuVars>>

-----------------------------------------------------------------------------
(* Mutant: nothing is stored.                                               *)
SaveNothing == UNCHANGED <<saved, term_esp0>>

(* Both branches of switch_to_other_term save the terminal being left.      *)
SaveTerminal ==
    /\ saved' = [saved EXCEPT ![current_terminal] =
                    [stack |-> cpu, at |-> kstack[cpu]]]
    /\ term_esp0' = [term_esp0 EXCEPT ![current_terminal] = esp0]

(* Ctrl+n to a terminal that was opened before: its process comes back on   *)
(* the stack it was left on, if that still holds what it held then.         *)
SwitchTo(t) ==
    /\ Interruptible
    /\ t # current_terminal /\ been_here[t]
    /\ SaveTerminal
    /\ current_terminal' = t
    /\ LoadContext(running_pcb[t], term_esp0[t])
    /\ cpu' = saved[t].stack
    /\ lost' = (saved[t].stack = NULL \/ kstack[saved[t].stack] # saved[t].at)
    /\ UNCHANGED <<processes, been_here, running_pcb, pcbVars, kstack, old_frame>>

(* Ctrl+n to an unopened terminal: execute("shell") in the interrupt.       *)
OpenTerminal(t) ==
    /\ Interruptible
    /\ t # current_terminal /\ ~been_here[t]
    /\ SaveTerminal
    /\ current_terminal' = t
    /\ \E p \in Slots : Start(t, processes, p, "switch")
    /\ UNCHANGED <<old_frame, lost>>

(* The same with every slot taken: execute returns -10 after the switch,    *)
(* and the interrupted process goes on in a terminal that runs nothing.     *)
(* calc_processes reads an uninitialized count, so the keyboard handler's   *)
(* test for a full table may or may not stop the switch.                    *)
OpenTerminalFull(t) ==
    /\ "open_when_full" \in Admitted
    /\ Interruptible
    /\ t # current_terminal /\ ~been_here[t]
    /\ processes = Slots
    /\ SaveTerminal
    /\ current_terminal' = t
    /\ UNCHANGED <<processes, been_here, running_pcb, pcbVars, cpuVars, kstack>>

Next ==
    \/ Boot
    \/ Execute
    \/ HaltFirstShell
    \/ HaltToParent
    \/ Jump
    \/ EnterWait
    \/ LeaveWait
    \/ Exception
    \/ \E t \in Terms : SwitchTo(t) \/ OpenTerminal(t) \/ OpenTerminalFull(t)

Spec == Init /\ [][Next]_vars

-----------------------------------------------------------------------------
(* Properties that hold whatever the user does.                             *)

(* A terminal that runs a process runs it in that process's own address     *)
(* space, on its own kernel stack, with tss.esp0 set to that stack; and a   *)
(* terminal in the background has saved the stack and the esp0 of the       *)
(* process it runs.  execute, halt and both branches of                     *)
(* switch_to_other_term each move these registers one by one.               *)
ContextFollowsTerminal ==
    /\ Current # NULL /\ ~lost => image = Current /\ esp0 = Current /\ cpu = Current
    /\ \A t \in Terms \ {current_terminal} : been_here[t] =>
          term_esp0[t] = running_pcb[t] /\ saved[t].stack = running_pcb[t]

(* Once booted, slot 0 is never free: halt of slot 0 always reloads a shell *)
(* into slot 0 itself, so no later process can take the boot shell's place. *)
BootShellImmortal == cpu # NULL => 0 \in processes

-----------------------------------------------------------------------------
(* Properties of a kernel whose other terminals' first shells never exit.   *)

(* The running process of every terminal has its bit set in `processes`     *)
(* ("which indicates which of the processes is running", syscalls.h:116),   *)
(* and no two terminals run the same process.                               *)
RunningIsAllocated ==
    /\ \A t \in Terms : running_pcb[t] # NULL => running_pcb[t] \in processes
    /\ \A t, u \in Terms :
          running_pcb[t] # NULL /\ running_pcb[t] = running_pcb[u] => t = u

IsRoot(s) == s = 0 \/ term_start[s]

(* A process that is not the first of its terminal can go back: its parent  *)
(* is allocated, runs in no terminal, waits in execute on the very stack    *)
(* recorded in the child, and has no other child that would return there.   *)
ParentWaits ==
    \A s \in processes : ~IsRoot(s) =>
        /\ parent_pcb[s] \in processes \ {s}
        /\ parent_frame[s] = [stack |-> parent_pcb[s], by |-> "syscall"]
        /\ kstack[parent_pcb[s]] = "execute"
        /\ \A t \in Terms : running_pcb[t] # parent_pcb[s]
        /\ \A c \in processes \ {s} : ~IsRoot(c) => parent_pcb[c] # parent_pcb[s]

(* No slot leaks: an allocated slot is running in some terminal or waiting  *)
(* for a child that will return to it.  (The bit vector has six bits, and   *)
(* only halt clears one.)                                                   *)
NoLeakedSlot ==
    \A s \in processes :
        \/ \E t \in Terms : running_pcb[t] = s
        \/ \E c \in processes : ~IsRoot(c) /\ parent_pcb[c] = s

(* When a process that execute started for another process halts, its slot  *)
(* is freed and the processor goes back to that parent (syscalls.c:104).    *)
(* Once first shells exit it may not: term_start stays in the PCB of a      *)
(* reused slot.                                                             *)
HaltReturnsToParent ==
    [][(HaltFirstShell \/ HaltToParent) /\ parent_frame[Current].by = "syscall"
       => /\ processes' = processes \ {Current}
          /\ running_pcb'[current_terminal] = parent_pcb[Current]
          /\ cpu' = parent_pcb[Current]
          /\ ~lost']_vars

-----------------------------------------------------------------------------
(* Properties of a kernel to which none of the three events happens.        *)

(* Control never passes through a frame that is gone: every return of halt  *)
(* and every switch back to a terminal finds the stack as it was left.      *)
NeverLost == ~lost

(* Once booted, the terminal on the screen always runs a process.           *)
ScreenHasProcess == cpu # NULL => Current # NULL

-----------------------------------------------------------------------------
(* Properties the source states and one of the three events breaks: TLC     *)
(* refutes each when the event is admitted (README, section 5).             *)

(* halt restores the base and stack pointers "and then jump[s] to the       *)
(* parent process" (syscalls.c:129): when it is about to load ebp, the      *)
(* global it loads belongs to the stack esp points into.  Broken by a       *)
(* switch that cuts halt in two, if the other terminal halts a process too. *)
FramePointersAgree ==
    cpu # NULL /\ ~lost /\ kstack[cpu] = "jump" => old_frame.stack = cpu

(* "Max number of processes have been reached" (keyboard_driver.c:171): the *)
(* keyboard handler leaves before the switch when the table is full, so no  *)
(* terminal without a process comes to the screen.  Broken because the      *)
(* count it tests starts from an uninitialized variable.                    *)
NoneOpenedWhenFull ==
    [][processes = Slots =>
         current_terminal' = current_terminal \/ been_here[current_terminal']]_vars

=============================================================================
