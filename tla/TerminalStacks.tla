--------------------------- MODULE TerminalStacks ---------------------------
(***************************************************************************)
(* What the kernel promises the person at the keyboard, without PCBs,      *)
(* kernel stacks or page tables: every terminal is a stack of processes of *)
(* which only the top one runs, a slot is in at most one stack, programs   *)
(* start and end at the top of the stack on the screen, and its first      *)
(* shell never goes away.                                                  *)
(***************************************************************************)
EXTENDS Naturals, Sequences, SequencesExt, SequenceTheorems, TLAPS

CONSTANTS Slot, Terminal, FirstTerminal

VARIABLES
    stack,   \* stack[t]: the processes of terminal t, the first shell first
    focus    \* the terminal on the screen

Free(s) == \A t \in Terminal : ~Contains(stack[t], s)

Init ==
    /\ stack = [t \in Terminal |-> <<>>]
    /\ focus = FirstTerminal

(* Show a terminal for the first time: a shell starts in it.                *)
Open(t) == \E s \in Slot :
    /\ stack[t] = <<>>
    /\ Free(s)
    /\ stack' = [stack EXCEPT ![t] = <<s>>]
    /\ focus' = t

Show(t) ==
    /\ stack[t] # <<>>
    /\ focus' = t
    /\ UNCHANGED stack

Run == \E s \in Slot :
    /\ stack[focus] # <<>>
    /\ Free(s)
    /\ stack' = [stack EXCEPT ![focus] = Append(@, s)]
    /\ UNCHANGED focus

Exit ==
    /\ Len(stack[focus]) > 1
    /\ stack' = [stack EXCEPT ![focus] = Front(@)]
    /\ UNCHANGED focus

Next ==
    \/ \E t \in Terminal : Open(t) \/ Show(t)
    \/ Run
    \/ Exit

Spec == Init /\ [][Next]_<<stack, focus>>

-----------------------------------------------------------------------------
(* The stacks hold slots, and no slot twice, in one stack or in two.        *)
StacksOK ==
    /\ stack \in [Terminal -> Seq(Slot)]
    /\ focus \in Terminal
    /\ \A t, u \in Terminal : \A i \in 1 .. Len(stack[t]), j \in 1 .. Len(stack[u]) :
          stack[t][i] = stack[u][j] => t = u /\ i = j

(* A stack that is pushed on.                                               *)
LEMMA PushStack ==
    ASSUME StacksOK, NEW t \in Terminal, NEW s \in Slot, Free(s),
           stack' = [stack EXCEPT ![t] = Append(@, s)], focus' \in Terminal
    PROVE  /\ StacksOK'
           /\ stack'[t] # <<>> /\ Last(stack'[t]) = s
           /\ \A q \in Slot : Free(q)' <=> Free(q) /\ q # s
<1> DEFINE n == Len(stack[t])
<1>1. stack[t] \in Seq(Slot) /\ n \in Nat
  BY LenProperties DEF StacksOK
<1>2. /\ Append(stack[t], s) \in Seq(Slot)
      /\ Len(Append(stack[t], s)) = n + 1
      /\ \A i \in 1 .. n : Append(stack[t], s)[i] = stack[t][i]
      /\ Append(stack[t], s)[n + 1] = s
  BY <1>1, AppendProperties
<1>3. /\ stack' \in [Terminal -> Seq(Slot)]
      /\ stack'[t] = Append(stack[t], s)
      /\ \A u \in Terminal : u # t => stack'[u] = stack[u]
  BY <1>2 DEF StacksOK
<1>4. \A u \in Terminal : \A i \in 1 .. Len(stack[u]) : stack[u][i] # s
  BY DEF Free, Contains
<1>5. \A u \in Terminal : Len(stack[u]) \in Nat
  BY LenProperties DEF StacksOK
<1>6. \A u \in Terminal : \A i \in 1 .. Len(stack'[u]) :
          \/ i \in 1 .. Len(stack[u]) /\ stack'[u][i] = stack[u][i]
          \/ u = t /\ i = n + 1 /\ stack'[u][i] = s
  BY <1>1, <1>2, <1>3
<1>7. StacksOK'
  <2>1. ASSUME NEW u \in Terminal, NEW v \in Terminal,
               NEW i \in 1 .. Len(stack'[u]), NEW j \in 1 .. Len(stack'[v]),
               stack'[u][i] = stack'[v][j]
        PROVE  u = v /\ i = j
    BY <2>1, <1>4, <1>6 DEF StacksOK
  <2> QED
    BY <2>1, <1>3 DEF StacksOK
<1>8. stack'[t] # <<>> /\ Last(stack'[t]) = s
  BY <1>1, <1>2, <1>3 DEF Last
<1>9. ASSUME NEW q \in Slot
      PROVE  Free(q)' <=> Free(q) /\ q # s
  <2>1. Free(q)' <=> \A u \in Terminal : \A i \in 1 .. Len(stack'[u]) : stack'[u][i] # q
    BY DEF Free, Contains
  <2>2. Free(q) <=> \A u \in Terminal : \A i \in 1 .. Len(stack[u]) : stack[u][i] # q
    BY DEF Free, Contains
  <2>3. ASSUME NEW u \in Terminal, NEW i \in 1 .. Len(stack[u])
        PROVE  i \in 1 .. Len(stack'[u]) /\ stack'[u][i] = stack[u][i]
    BY <1>1, <1>2, <1>3, <1>5
  <2>4. n + 1 \in 1 .. Len(stack'[t]) /\ stack'[t][n + 1] = s
    BY <1>1, <1>2, <1>3
  <2> QED
    BY <2>1, <2>2, <2>3, <2>4, <1>6
<1> QED
  BY <1>7, <1>8, <1>9

(* A stack that is popped.                                                  *)
LEMMA PopStack ==
    ASSUME StacksOK, Exit
    PROVE  /\ StacksOK'
           /\ focus' = focus
           /\ stack[focus] # <<>> /\ stack'[focus] # <<>>
           /\ Last(stack[focus]) \in Slot /\ ~Free(Last(stack[focus]))
           /\ \A q \in Slot : Free(q)' <=> Free(q) \/ q = Last(stack[focus])
<1> DEFINE n == Len(stack[focus])
           s == Last(stack[focus])
<1>1. focus \in Terminal /\ stack[focus] \in Seq(Slot) /\ n \in Nat /\ n > 1
  BY LenProperties DEF StacksOK, Exit
<1>2. /\ Front(stack[focus]) \in Seq(Slot)
      /\ Len(Front(stack[focus])) = n - 1
      /\ \A i \in 1 .. n - 1 : Front(stack[focus])[i] = stack[focus][i]
  <2>1. \A i \in 1 .. n - 1 : stack[focus][i] \in Slot
    BY <1>1, ElementOfSeq
  <2> QED
    BY <1>1, <2>1, SubSeqProperties DEF Front
<1>3. /\ stack' \in [Terminal -> Seq(Slot)]
      /\ stack'[focus] = Front(stack[focus])
      /\ \A u \in Terminal : u # focus => stack'[u] = stack[u]
      /\ focus' = focus
  BY <1>1, <1>2 DEF StacksOK, Exit
<1>4. \A u \in Terminal : Len(stack[u]) \in Nat
  BY LenProperties DEF StacksOK
<1>5. \A u \in Terminal : \A i \in 1 .. Len(stack'[u]) :
          i \in 1 .. Len(stack[u]) /\ stack'[u][i] = stack[u][i]
  BY <1>1, <1>2, <1>3, <1>4
<1>6. StacksOK'
  <2>1. ASSUME NEW u \in Terminal, NEW v \in Terminal,
               NEW i \in 1 .. Len(stack'[u]), NEW j \in 1 .. Len(stack'[v]),
               stack'[u][i] = stack'[v][j]
        PROVE  u = v /\ i = j
    BY <2>1, <1>5 DEF StacksOK
  <2> QED
    BY <2>1, <1>1, <1>3 DEF StacksOK
<1>7. n \in 1 .. Len(stack[focus]) /\ s = stack[focus][n] /\ s \in Slot
  BY <1>1, ElementOfSeq DEF Last
<1>8. stack[focus] # <<>> /\ stack'[focus] # <<>> /\ ~Free(s)
  BY <1>1, <1>2, <1>3, <1>7 DEF Free, Contains
<1>9. ASSUME NEW q \in Slot
      PROVE  Free(q)' <=> Free(q) \/ q = s
  <2>1. Free(q)' <=> \A u \in Terminal : \A i \in 1 .. Len(stack'[u]) : stack'[u][i] # q
    BY DEF Free, Contains
  <2>2. Free(q) <=> \A u \in Terminal : \A i \in 1 .. Len(stack[u]) : stack[u][i] # q
    BY DEF Free, Contains
  <2>3. ASSUME NEW u \in Terminal, NEW i \in 1 .. Len(stack[u]), stack[u][i] # s
        PROVE  i \in 1 .. Len(stack'[u]) /\ stack'[u][i] = stack[u][i]
    <3>1. ~(u = focus /\ i = n)
      BY <2>3, <1>7
    <3> QED
      BY <2>3, <3>1, <1>1, <1>2, <1>3, <1>4
  <2>4. ASSUME NEW u \in Terminal, NEW i \in 1 .. Len(stack'[u])
        PROVE  stack'[u][i] # s
    BY <2>4, <1>1, <1>2, <1>3, <1>5, <1>7 DEF StacksOK
  <2>5. CASE q = s
    BY <2>1, <2>4, <2>5
  <2>6. CASE q # s
    BY <2>1, <2>2, <2>3, <2>6, <1>5
  <2> QED
    BY <2>5, <2>6
<1> QED
  BY <1>3, <1>6, <1>7, <1>8, <1>9

(* What opening a terminal, and running a program, do to the stacks.        *)
LEMMA StartStack ==
    ASSUME StacksOK, Run \/ \E t \in Terminal : Open(t)
    PROVE  /\ StacksOK'
           /\ stack'[focus'] # <<>>
           /\ Last(stack'[focus']) \in Slot /\ Free(Last(stack'[focus']))
           /\ \A q \in Slot : Free(q)' <=> Free(q) /\ q # Last(stack'[focus'])
<1>1. CASE Run
  <2>1. PICK s \in Slot : /\ Free(s) /\ focus' = focus
                          /\ stack' = [stack EXCEPT ![focus] = Append(@, s)]
    BY <1>1 DEF Run
  <2> QED
    BY <2>1, PushStack DEF StacksOK
<1>2. ASSUME NEW t \in Terminal, Open(t)
      PROVE  /\ StacksOK'
             /\ stack'[focus'] # <<>>
             /\ Last(stack'[focus']) \in Slot /\ Free(Last(stack'[focus']))
             /\ \A q \in Slot : Free(q)' <=> Free(q) /\ q # Last(stack'[focus'])
  <2>1. PICK s \in Slot : /\ stack[t] = <<>> /\ Free(s) /\ focus' = t
                          /\ stack' = [stack EXCEPT ![t] = <<s>>]
    BY <1>2 DEF Open
  <2>2. stack' = [stack EXCEPT ![t] = Append(@, s)]
    <3>1. Append(<<>>, s) = <<s>>
      OBVIOUS
    <3> QED
      BY <2>1, <3>1 DEF StacksOK
  <2> QED
    BY <2>1, <2>2, PushStack
<1> QED
  BY <1>1, <1>2

(* The processes are in one stack each, whatever starts, ends and switches. *)
LEMMA StacksStep ==
    ASSUME StacksOK, [Next]_<<stack, focus>>
    PROVE  StacksOK'
<1>1. CASE \E t \in Terminal : Show(t)
  BY <1>1 DEF Show, StacksOK
<1>2. CASE UNCHANGED <<stack, focus>>
  BY <1>2 DEF StacksOK
<1> QED
  BY <1>1, <1>2, StartStack, PopStack DEF Next

(* A process runs in one terminal, at one place of its stack: no slot is    *)
(* given to a second program while the first one has not ended (the bit in  *)
(* processes and the chains of parent_pcb of syscalls.c agree).             *)
THEOREM SlotsInOneStack ==
    ASSUME FirstTerminal \in Terminal
    PROVE  Spec => []StacksOK
<1>1. Init => StacksOK
  <2>1. \A t \in Terminal : Init => stack[t] = <<>>
    BY DEF Init
  <2> QED
    BY <2>1, EmptySeq DEF Init, StacksOK
<1>2. StacksOK /\ [Next]_<<stack, focus>> => StacksOK'
  BY StacksStep
<1> QED
  BY <1>1, <1>2, PTL DEF Spec

=============================================================================
