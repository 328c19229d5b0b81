----------------------- MODULE ProcessTableRefinement -----------------------
(***************************************************************************)
(* ProcessTable implements TerminalStacks.  The stack of a terminal is the *)
(* chain of parent_pcb pointers from its running process to its first      *)
(* shell, read the other way round.                                        *)
(***************************************************************************)
EXTENDS ProcessTable, Sequences

(* above[n]: the n-th process above top, up to a root.                      *)
Above(top, parent, roots) ==
    LET above[n \in 0 .. MAX_PROCESSES_DEC] ==
          IF n = 0 THEN top
          ELSE IF above[n - 1] \in roots \/ parent[above[n - 1]] = NULL
               THEN above[n - 1]
               ELSE parent[above[n - 1]]
    IN  above

(* How many steps lead up to the first root.                                *)
Depth(above, roots) ==
    CHOOSE n \in 0 .. MAX_PROCESSES_DEC :
       /\ n = MAX_PROCESSES_DEC \/ above[n] \in roots
       /\ \A m \in 0 .. n - 1 : above[m] \notin roots

(* The processes n steps above, and down from there.                        *)
Down(above, n) == [i \in 1 .. n + 1 |-> above[n + 1 - i]]

(* The processes from the first root above top to top itself.               *)
Chain(top, parent, roots) ==
    LET above == Above(top, parent, roots)
    IN  IF top = NULL THEN <<>> ELSE Down(above, Depth(above, roots))

Roots == {s \in Slots : IsRoot(s)}

(* The processes from the first shell of terminal t up to the one it runs.  *)
StackOf(t) == Chain(running_pcb[t], parent_pcb, Roots)

Stacks == INSTANCE TerminalStacks WITH
    Slot <- Slots, Terminal <- Terms, FirstTerminal <- 0,
    stack <- [t \in Terms |-> StackOf(t)], focus <- current_terminal

(* Every execution of the kernel in which first shells stay and a full      *)
(* table is not asked for one more shell is an execution of TerminalStacks, *)
(* also when Ctrl+n cuts halt in two: execute pushes, halt pops, and a      *)
(* switch changes nothing but the screen.                                   *)
ImplementsTerminalStacks == Stacks!Spec

=============================================================================
