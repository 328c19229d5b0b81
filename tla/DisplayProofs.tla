--------------------------- MODULE DisplayProofs ---------------------------
(***************************************************************************)
(* Theorems about Display for any size of the screen and any number of     *)
(* terminals and slots: what programs can reach, whatever the user does;   *)
(* and who writes where, when nobody types ahead or leaves a terminal      *)
(* with a line entered but not read.                                       *)
(***************************************************************************)
EXTENDS Display, SequenceTheorems, TLAPS

-----------------------------------------------------------------------------
(* The arithmetic of cells and pages.                                       *)
LEMMA Product == \A a, b \in Nat : a * b \in Nat
OBVIOUS

LEMMA Monotone ==
    ASSUME NEW a \in Nat, NEW b \in Nat, NEW n \in Nat, a < b
    PROVE  a * n + n <= b * n
<1>1. PICK k \in Nat : b = a + 1 + k
  <2>1. b - a - 1 \in Nat /\ b = a + 1 + (b - a - 1)
    OBVIOUS
  <2> QED
    BY <2>1
<1>2. b * n = a * n + n + k * n
  BY <1>1
<1>3. k * n \in Nat /\ a * n \in Nat
  BY Product
<1> QED
  BY <1>2, <1>3

(* Cells of the screen.                                                     *)
Cells == NUM_ROWS * NUM_COLS

LEMMA CellsType ==
    /\ Cells \in Nat /\ PAGE \in Nat /\ Cells < PAGE
    /\ 0 < NUM_COLS - 1 /\ NUM_COLS <= Cells
    /\ Screen = 0 .. Cells - 1 /\ PAGE = Cells + SLACK /\ SLACK \in Nat
<1>1. NUM_ROWS \in Nat /\ NUM_COLS \in Nat /\ SLACK \in Nat /\ SLACK > 0 /\ 1 < NUM_ROWS
      /\ 1 < NUM_COLS
  BY ConsoleAssumption
<1>2. Cells \in Nat
  BY <1>1, Product DEF Cells
<1>3. 1 * NUM_COLS + NUM_COLS <= NUM_ROWS * NUM_COLS
  BY <1>1, Monotone
<1> QED
  BY <1>1, <1>2, <1>3 DEF Cells, PAGE, Screen

LEMMA CellBound ==
    ASSUME NEW x \in Nat, NEW y \in Nat, x <= NUM_COLS, y <= NUM_ROWS,
           y = NUM_ROWS => x = 0
    PROVE  NUM_COLS * y + x \in 0 .. Cells
<1>1. NUM_ROWS \in Nat /\ NUM_COLS \in Nat
  BY ConsoleAssumption
<1>2. CASE y < NUM_ROWS
  <2>1. y * NUM_COLS + NUM_COLS <= Cells /\ y * NUM_COLS \in Nat
    BY <1>1, <1>2, Monotone, Product DEF Cells
  <2>2. NUM_COLS * y = y * NUM_COLS
    BY <1>1
  <2>3. \A p, q \in Nat : p + NUM_COLS <= q => p + x \in 0 .. q
    BY <1>1
  <2> QED
    BY <2>1, <2>2, <2>3, CellsType
<1>3. CASE y = NUM_ROWS
  <2>1. NUM_COLS * y = Cells
    BY <1>1, <1>3 DEF Cells
  <2> QED
    BY <1>3, <2>1, CellsType
<1> QED
  BY <1>1, <1>2, <1>3

(* The saved pages lie behind the page on the screen, one after another.    *)
LEMMA PageAt ==
    ASSUME NEW t \in Terms
    PROVE  /\ vid_mem(t) \in Nat /\ vid_mem(t) >= PAGE
           /\ vid_mem(t) .. vid_mem(t) + PAGE - 1 \subseteq Memory
<1>1. t \in Nat /\ NUM_TERMS \in Nat /\ t + 1 < NUM_TERMS + 1 /\ 0 < t + 1
  BY ConsoleAssumption DEF Terms
<1>2. 0 * PAGE + PAGE <= (t + 1) * PAGE
  BY <1>1, Monotone, CellsType
<1>3. (t + 1) * PAGE + PAGE <= (NUM_TERMS + 1) * PAGE
  BY <1>1, Monotone, CellsType
<1>4. (t + 1) * PAGE \in Nat /\ (NUM_TERMS + 1) * PAGE \in Nat /\ PAGE \in Nat
  BY <1>1, Product, CellsType
<1> QED
  BY <1>2, <1>3, <1>4 DEF vid_mem, Memory

LEMMA PagesApart ==
    ASSUME NEW t \in Terms, NEW u \in Terms, t # u,
           NEW i \in vid_mem(t) .. vid_mem(t) + PAGE - 1
    PROVE  i \notin vid_mem(u) .. vid_mem(u) + PAGE - 1
<1>1. t \in Nat /\ u \in Nat
  BY ConsoleAssumption DEF Terms
<1>2. t < u => vid_mem(t) + PAGE <= vid_mem(u)
  BY <1>1, Monotone, CellsType DEF vid_mem
<1>3. u < t => vid_mem(u) + PAGE <= vid_mem(t)
  BY <1>1, Monotone, CellsType DEF vid_mem
<1>4. vid_mem(t) \in Nat /\ vid_mem(u) \in Nat /\ PAGE \in Nat
  BY PageAt, CellsType
<1> QED
  BY <1>1, <1>2, <1>3, <1>4

LEMMA ScreenInMemory ==
    /\ Screen \subseteq Memory /\ 0 .. PAGE - 1 \subseteq Memory
    /\ Memory \subseteq Nat
<1>1. NUM_TERMS + 1 \in Nat /\ 0 < NUM_TERMS + 1
  BY ConsoleAssumption
<1>2. 0 * PAGE + PAGE <= (NUM_TERMS + 1) * PAGE /\ (NUM_TERMS + 1) * PAGE \in Nat
  BY <1>1, Monotone, Product, CellsType
<1> QED
  BY <1>2, CellsType DEF Memory

-----------------------------------------------------------------------------
(* What programs reach, whatever the user does.                             *)
Process == Last(stack[focus])

ImageEntry(s) == [user |-> TRUE, frames |-> {ImageFrame(s)}]
VideoEntry    == [user |-> TRUE, frames |-> {ScreenFrame}]

(* The processor remembers nothing of another program's image: set_control_ *)
(* registers comes with every change of the process on the screen.          *)
ReachInv ==
    /\ Procs!StacksOK
    /\ DOMAIN directory = Entries
    /\ directory["low"].user = FALSE /\ directory["kernel"].user = FALSE
    /\ directory["video"] \in {Absent, VideoEntry}
    /\ directory["image"] = IF Running THEN ImageEntry(Process) ELSE Absent
    /\ \A k \in tlb :
          /\ Running
          /\ \/ k = [entry |-> "image", frame |-> ImageFrame(Process)]
             \/ k = [entry |-> "video", frame |-> ScreenFrame]

LEMMA ReachedFrames ==
    ASSUME ReachInv
    PROVE  /\ Reached(directory, tlb, "low") = {} /\ Reached(directory, tlb, "kernel") = {}
           /\ Running => Reached(directory, tlb, "image") = {ImageFrame(Process)}
           /\ Reached(directory, tlb, "video") \subseteq {ScreenFrame}
           /\ \A e \in Entries : \A f : f \in Reached(directory, tlb, e) =>
                 \/ e = "image" /\ (Running => f = ImageFrame(Process))
                 \/ e = "video" /\ f = ScreenFrame
<1> DEFINE Known(e) == {k \in tlb : k.entry = e}
<1>1. Known("low") = {} /\ Known("kernel") = {}
  BY DEF ReachInv
<1>2. \A k \in Known("image") : k.frame = ImageFrame(Process)
  BY DEF ReachInv
<1>3. \A k \in Known("video") : k.frame = ScreenFrame
  BY DEF ReachInv
<1>4. Reached(directory, tlb, "low") = {} /\ Reached(directory, tlb, "kernel") = {}
  BY <1>1 DEF Reached, ReachInv
<1>5. Running => Reached(directory, tlb, "image") = {ImageFrame(Process)}
  BY <1>2 DEF Reached, ReachInv, ImageEntry
<1>6. Reached(directory, tlb, "video") \subseteq {ScreenFrame}
  BY <1>3 DEF Reached, ReachInv, VideoEntry, Absent
<1> QED
  BY <1>4, <1>5, <1>6 DEF Entries

(* execute, halt and a switch map the image of the process they go to.      *)
LEMMA MapImageReach ==
    ASSUME ReachInv, NEW s, MapImage(s), Procs!StacksOK',
           stack'[focus'] # <<>>, Last(stack'[focus']) = s
    PROVE  ReachInv'
<1>1. tlb' = {}
  BY DEF MapImage, set_control_registers
<1>2. /\ DOMAIN directory' = Entries
      /\ directory'["image"] = ImageEntry(s)
      /\ \A e \in Entries \ {"image"} : directory'[e] = directory[e]
  BY DEF MapImage, load_new_process, ReachInv, ImageEntry, Entries
<1>3. Running' /\ Process' = s
  BY DEF Running, Process
<1>4. directory'["image"] = IF Running' THEN ImageEntry(Process') ELSE Absent
  BY <1>2, <1>3
<1>5. /\ directory'["low"].user = FALSE /\ directory'["kernel"].user = FALSE
      /\ directory'["video"] \in {Absent, VideoEntry}
  BY <1>2 DEF ReachInv, Entries
<1> QED
  BY <1>1, <1>2, <1>4, <1>5 DEF ReachInv, Absent, VideoEntry, ImageEntry, ScreenFrame, ImageFrame, Frame

LEMMA ReachKept ==
    ASSUME ReachInv, UNCHANGED <<procVars, pagingVars>>
    PROVE  ReachInv'
BY DEF ReachInv, procVars, pagingVars, Running, Process, Procs!StacksOK

LEMMA ReachInit == Init => ReachInv
<1> SUFFICES ASSUME Init PROVE ReachInv
  OBVIOUS
<1>1. 0 \in Terms
  BY ConsoleAssumption DEF Terms
<1>2. \A t \in Terms : stack[t] = <<>>
  BY DEF Init, Procs!Init
<1>3. Procs!StacksOK
  BY <1>1, <1>2, EmptySeq DEF Init, Procs!Init, Procs!StacksOK
<1>4. ~Running
  BY <1>1, <1>2 DEF Init, Procs!Init, Running
<1>5. /\ DOMAIN enable_paging = Entries
      /\ enable_paging["low"].user = FALSE /\ enable_paging["kernel"].user = FALSE
      /\ enable_paging["video"] = Absent /\ enable_paging["image"] = Absent
  BY DEF enable_paging, Entries
<1> QED
  BY <1>3, <1>4, <1>5 DEF Init, ReachInv

LEMMA ReachStep == ReachInv /\ [Next]_vars => ReachInv'
<1> SUFFICES ASSUME ReachInv, [Next]_vars PROVE ReachInv'
  OBVIOUS
<1>a. Procs!StacksOK
  BY DEF ReachInv
<1>b. ASSUME Procs!Run \/ \E t \in Terms : Procs!Open(t)
      PROVE  Procs!StacksOK' /\ stack'[focus'] # <<>>
  BY <1>a, <1>b, Procs!StartStack
<1>1. CASE Boot
  <2>1. Procs!Open(0) /\ MapImage(Last(stack'[0]))
    BY <1>1 DEF Boot
  <2>2. 0 \in Terms
    BY ConsoleAssumption DEF Terms
  <2>3. focus' = 0
    BY <2>1 DEF Procs!Open
  <2> QED
    BY <2>1, <2>2, <2>3, <1>b, MapImageReach
<1>2. CASE Run
  <2>1. Procs!Run /\ focus' = focus /\ MapImage(Last(stack'[focus]))
    BY <1>2 DEF Run, Procs!Run
  <2> QED
    BY <2>1, <1>b, MapImageReach
<1>3. CASE Exit
  <2>1. Procs!Exit /\ focus' = focus /\ MapImage(Last(stack'[focus]))
    BY <1>3 DEF Exit, Procs!Exit
  <2>2. Procs!StacksOK' /\ stack'[focus] # <<>>
    BY <2>1, <1>a, Procs!PopStack
  <2> QED
    BY <2>1, <2>2, MapImageReach
<1>4. ASSUME NEW t \in Terms, OpenTerminal(t)
      PROVE  ReachInv'
  <2>1. Procs!Open(t) /\ focus' = t /\ MapImage(Last(stack'[t]))
    BY <1>4 DEF OpenTerminal, Procs!Open
  <2> QED
    BY <2>1, <1>b, MapImageReach
<1>5. ASSUME NEW t \in Terms, SwitchTo(t)
      PROVE  ReachInv'
  <2>1. stack[t] # <<>> /\ focus' = t /\ stack' = stack /\ MapImage(Last(stack[t]))
    BY <1>5 DEF SwitchTo, Procs!Show
  <2>2. Procs!StacksOK'
    BY <1>a, <2>1 DEF Procs!StacksOK
  <2> QED
    BY <2>1, <2>2, MapImageReach
<1>6. CASE vidmap
  <2>1. UNCHANGED procVars /\ tlb' = {}
    BY <1>6 DEF vidmap, set_control_registers
  <2>2. /\ DOMAIN directory' = Entries
        /\ directory'["video"] = VideoEntry
        /\ \A e \in Entries \ {"video"} : directory'[e] = directory[e]
    BY <1>6 DEF vidmap, load_video_mem, ReachInv, VideoEntry, Entries
  <2> QED
    BY <2>1, <2>2 DEF ReachInv, Entries, procVars, Running, Process, Procs!StacksOK
<1>7. ASSUME NEW e \in Entries, Touch(e)
      PROVE  ReachInv'
  <2>1. PICK f \in Reached(directory, tlb, e) :
            Running /\ tlb' = tlb \cup {[entry |-> e, frame |-> f]}
                    /\ UNCHANGED <<procVars, directory>>
    BY <1>7 DEF Touch, InUser
  <2>2. \/ e = "image" /\ f = ImageFrame(Process)
        \/ e = "video" /\ f = ScreenFrame
    BY <2>1, ReachedFrames
  <2> QED
    BY <2>1, <2>2 DEF ReachInv, procVars, Running, Process, Procs!StacksOK
<1>8. CASE \/ terminal_write \/ ReadCall \/ ReadReturns \/ Exception
           \/ \E e \in Entries : \E page \in VideoPages : UserStore(e, page)
           \/ PressLetter \/ PressEnter \/ PressBackspace \/ PressOther \/ ReleaseL
  <2>1. UNCHANGED <<procVars, pagingVars>>
    BY <1>8, Zenon DEF terminal_write, ReadCall, ReadReturns, Exception, UserStore,
                PressLetter, PressEnter, PressBackspace, PressOther, ReleaseL
  <2> QED
    BY <2>1, ReachKept
<1>9. CASE UNCHANGED vars
  BY <1>9, ReachKept DEF vars
<1> QED
  BY <1>1, <1>2, <1>3, <1>4, <1>5, <1>6, <1>7, <1>8, <1>9 DEF Next

(* A running program reaches its own image and the page on the screen only, *)
(* through the page directory and through all the processor remembers of    *)
(* it, whichever programs and terminals came before (load_new_process,      *)
(* load_video_mem and set_control_registers in paging_handler.c).           *)
THEOREM ReachIsOwn == Spec => []UserReach
<1>1. ReachInv => UserReach
  <2> SUFFICES ASSUME ReachInv, InUser PROVE UserReach
    BY DEF UserReach
  <2> DEFINE reach == UNION {Reached(directory, tlb, e) : e \in Entries}
  <2>1. Running
    BY DEF InUser
  <2>2. ImageFrame(Process) \in reach
    BY <2>1, ReachedFrames DEF Entries
  <2>3. \A f \in reach : f \in {ImageFrame(Process), ScreenFrame}
    BY <2>1, ReachedFrames
  <2> QED
    BY <2>2, <2>3 DEF UserReach, Process
<1>2. ReachInv /\ [Next]_vars => ReachInv'
  BY ReachStep
<1> QED
  BY <1>1, <1>2, ReachInit, PTL DEF Spec

-----------------------------------------------------------------------------
(* The routines that write the screen.                                      *)
DisplayType == [mem : [Memory -> Owners], x : Nat, y : Nat]

(* From d to r nothing but the page on the screen changed, and a screen     *)
(* that was terminal t's still is.                                          *)
Kept(d, r, t) ==
    /\ r \in DisplayType
    /\ \A i \in Memory \ (0 .. PAGE - 1) : r.mem[i] = d.mem[i]
    /\ (\A i \in Screen : d.mem[i] = t) => \A i \in Screen : r.mem[i] = t

(* Where the cursor may be, and where it is when no letter was just echoed  *)
(* in the last column.                                                      *)
CursorOK(c) ==
    /\ c.x \in 0 .. NUM_COLS /\ c.y \in 0 .. NUM_ROWS
    /\ c.y = NUM_ROWS => c.x = 0
Steady(c) == CursorOK(c) /\ c.x < NUM_COLS

LEMMA KeptSelf == \A d \in DisplayType : \A t : Kept(d, d, t)
BY DEF Kept

LEMMA KeptTwice ==
    ASSUME NEW d, NEW r, NEW q, NEW t, Kept(d, r, t), Kept(r, q, t)
    PROVE  Kept(d, q, t)
BY DEF Kept

LEMMA SizesType ==
    /\ NUM_COLS \in Nat /\ NUM_ROWS \in Nat /\ 1 < NUM_COLS /\ 1 < NUM_ROWS
    /\ Terms \subseteq Owners
BY ConsoleAssumption DEF Terms, Owners

LEMMA RecordExcept ==
    \A m, x, y, a :
       /\ [[mem |-> m, x |-> x, y |-> y] EXCEPT !.mem = a] = [mem |-> a, x |-> x, y |-> y]
       /\ [[mem |-> m, x |-> x, y |-> y] EXCEPT !.x = a] = [mem |-> m, x |-> a, y |-> y]
       /\ [[mem |-> m, x |-> x, y |-> y] EXCEPT !.y = a] = [mem |-> m, x |-> x, y |-> a]
OBVIOUS

MoveTo(d, x, y) == [d EXCEPT !.x = x, !.y = y]

LEMMA Moved ==
    ASSUME NEW d, NEW m, NEW x, NEW y, NEW a, NEW b, d = [mem |-> m, x |-> x, y |-> y]
    PROVE  MoveTo(d, a, b) = [mem |-> m, x |-> a, y |-> b]
<1> DEFINE q == [mem |-> m, x |-> a, y |-> y]
<1>1. [d EXCEPT !.x = a] = q
  BY RecordExcept
<1>2. [q EXCEPT !.y = b] = [mem |-> m, x |-> a, y |-> b]
  BY RecordExcept
<1>3. MoveTo(d, a, b) = [[d EXCEPT !.x = a] EXCEPT !.y = b]
  BY DEF MoveTo
<1> QED
  BY <1>1, <1>2, <1>3

LEMMA RecordOf == \A d \in DisplayType : d = [mem |-> d.mem, x |-> d.x, y |-> d.y]
BY DEF DisplayType

LEMMA StoreKept ==
    ASSUME NEW d \in DisplayType, NEW t \in Terms, NEW i \in 0 .. PAGE - 1
    PROVE  LET r == Store(d, i, t) IN Kept(d, r, t) /\ r.x = d.x /\ r.y = d.y
<1> DEFINE r == Store(d, i, t)
<1>1. r = [mem |-> [d.mem EXCEPT ![i] = t], x |-> d.x, y |-> d.y]
  BY DEF Store, DisplayType
<1>2. t \in Owners /\ i \in Memory
  BY SizesType, ScreenInMemory
<1>3. r.mem \in [Memory -> Owners] /\ \A j \in Memory : r.mem[j] = IF j = i THEN t ELSE d.mem[j]
  BY <1>1, <1>2 DEF DisplayType
<1>4. r \in DisplayType
  BY <1>1, <1>3 DEF DisplayType
<1> HIDE DEF r
<1>5. Kept(d, r, t)
  BY <1>3, <1>4, ScreenInMemory DEF Kept
<1> QED
  BY <1>1, <1>5 DEF r

LEMMA NewLineKept ==
    ASSUME NEW d \in DisplayType, NEW t
    PROVE  LET r == NewLine(d) IN Kept(d, r, t) /\ r.x = 0 /\ r.y = d.y + 1
<1>1. NewLine(d) = [mem |-> d.mem, x |-> 0, y |-> d.y + 1]
  <2>1. NewLine(d) = MoveTo(d, 0, d.y + 1)
    BY DEF NewLine, MoveTo
  <2> QED
    BY <2>1, RecordOf, Moved
<1> QED
  BY <1>1 DEF Kept, DisplayType

LEMMA ScrollKept ==
    ASSUME NEW d \in DisplayType, NEW t \in Terms
    PROVE  LET r == scroll_if_needed(d, t) IN
           /\ Kept(d, r, t)
           /\ d.y < NUM_ROWS => r.x = d.x /\ r.y = d.y
           /\ d.y >= NUM_ROWS => r.x = 0 /\ r.y = d.y - 1
<1> DEFINE mem == [i \in Memory |-> IF i + NUM_COLS \in Screen THEN d.mem[i + NUM_COLS]
                                    ELSE IF i \in Screen THEN t ELSE d.mem[i]]
           r == [mem |-> mem, x |-> 0, y |-> d.y - 1]
<1>1. CASE d.y < NUM_ROWS
  <2>1. scroll_if_needed(d, t) = d
    BY <1>1 DEF scroll_if_needed
  <2> QED
    BY <1>1, <2>1, KeptSelf, SizesType DEF DisplayType
<1>2. CASE d.y >= NUM_ROWS
  <2>1. scroll_if_needed(d, t) = r
    BY <1>2, SizesType DEF scroll_if_needed, DisplayType
  <2>2. mem \in [Memory -> Owners]
    BY SizesType, ScreenInMemory DEF DisplayType
  <2>3. \A i \in Memory \ (0 .. PAGE - 1) : mem[i] = d.mem[i]
    <3>1. ASSUME NEW i \in Memory, i \notin 0 .. PAGE - 1
          PROVE  i + NUM_COLS \notin Screen /\ i \notin Screen
      BY <3>1, CellsType, SizesType, ScreenInMemory
    <3> QED
      BY <3>1
  <2>4. (\A i \in Screen : d.mem[i] = t) => \A i \in Screen : mem[i] = t
    BY ScreenInMemory
  <2>5. r \in DisplayType /\ r.mem = mem /\ r.x = 0 /\ r.y = d.y - 1
    BY <1>2, <2>2, SizesType DEF DisplayType
  <2> HIDE DEF mem, r
  <2>6. Kept(d, r, t)
    BY <2>3, <2>4, <2>5 DEF Kept
  <2> QED
    BY <1>2, <2>1, <2>5, <2>6, SizesType DEF DisplayType
<1> QED
  BY <1>1, <1>2, SizesType DEF DisplayType

LEMMA ClearKept ==
    ASSUME NEW d \in DisplayType, NEW t \in Terms
    PROVE  LET r == clear_screen(d, t) IN
           /\ r \in DisplayType /\ r.x = 0 /\ r.y = 0
           /\ \A i \in Screen : r.mem[i] = t
           /\ \A i \in Memory \ Screen : r.mem[i] = d.mem[i]
           /\ Kept(d, r, t)
<1> DEFINE mem == [i \in Memory |-> IF i \in Screen THEN t ELSE d.mem[i]]
           r == clear_screen(d, t)
<1>1. r = [mem |-> mem, x |-> 0, y |-> 0]
  <2>1. clear(d, t) = [d EXCEPT !.mem = mem]
    BY DEF clear
  <2> HIDE DEF mem
  <2>2. clear(d, t) = [mem |-> mem, x |-> d.x, y |-> d.y]
    BY <2>1, RecordOf, RecordExcept, Zenon
  <2>3. clear_screen(d, t) = MoveTo(clear(d, t), 0, 0)
    BY DEF clear_screen, MoveTo
  <2> QED
    BY <2>2, <2>3, Moved
<1>2. mem \in [Memory -> Owners]
  BY SizesType DEF DisplayType
<1>3. r \in DisplayType /\ r.mem = mem /\ r.x = 0 /\ r.y = 0
  BY <1>1, <1>2 DEF DisplayType
<1>4. \A i \in Screen : mem[i] = t
  BY ScreenInMemory
<1>5. \A i \in Memory \ Screen : mem[i] = d.mem[i]
  OBVIOUS
<1>6. Screen \subseteq 0 .. PAGE - 1
  BY CellsType
<1> HIDE DEF mem, r
<1>7. Kept(d, r, t)
  BY <1>3, <1>4, <1>5, <1>6 DEF Kept
<1> QED
  BY <1>3, <1>4, <1>5, <1>7 DEF r

LEMMA CellInPage ==
    ASSUME NEW d \in DisplayType, CursorOK(d)
    PROVE  CellAt(d) \in 0 .. PAGE - 1 /\ CellAt(d) <= Cells
<1>1. NUM_COLS * d.y + d.x \in 0 .. Cells
  BY CellBound, SizesType DEF CursorOK, DisplayType
<1>2. CellAt(d) = NUM_COLS * d.y + d.x
  <2>1. \A p \in Nat, q \in Nat : 0 + p + q = p + q
    OBVIOUS
  <2>2. NUM_COLS * d.y \in Nat /\ d.x \in Nat
    BY Product, SizesType DEF DisplayType
  <2> QED
    BY <2>1, <2>2, Zenon DEF CellAt, VIDEO
<1> QED
  BY <1>1, <1>2, CellsType

LEMMA StepKept ==
    ASSUME NEW d \in DisplayType, NEW t, NEW n \in Nat
    PROVE  LET r == [d EXCEPT !.x = n] IN Kept(d, r, t) /\ r.x = n /\ r.y = d.y
<1>1. [d EXCEPT !.x = n] = [mem |-> d.mem, x |-> n, y |-> d.y]
  <2>1. PICK m \in [Memory -> Owners], x \in Nat, y \in Nat : d = [mem |-> m, x |-> x, y |-> y]
    BY DEF DisplayType
  <2>2. [[mem |-> m, x |-> x, y |-> y] EXCEPT !.x = n] = [mem |-> m, x |-> n, y |-> y]
    BY RecordExcept
  <2>3. d.mem = m /\ d.y = y
    BY <2>1
  <2> QED
    BY <2>1, <2>2, <2>3, Zenon
<1> QED
  BY <1>1 DEF Kept, DisplayType

(* A character that is printed where the cursor is.                         *)
LEMMA PrintKept ==
    ASSUME NEW d \in DisplayType, NEW t \in Terms, CursorOK(d)
    PROVE  LET w == Store(d, CellAt(d), t)
               r == [w EXCEPT !.x = @ + 1]
           IN  /\ Kept(d, w, t) /\ w.x = d.x /\ w.y = d.y
               /\ Kept(d, r, t) /\ r.x = d.x + 1 /\ r.y = d.y
<1> DEFINE w == Store(d, CellAt(d), t)
           r == [w EXCEPT !.x = @ + 1]
<1>1. Kept(d, w, t) /\ w.x = d.x /\ w.y = d.y
  BY CellInPage, StoreKept
<1>2. w \in DisplayType /\ w.x + 1 \in Nat
  BY <1>1 DEF Kept, DisplayType
<1> HIDE DEF w
<1>3. Kept(w, r, t) /\ r.x = w.x + 1 /\ r.y = w.y
  BY <1>2, StepKept
<1> HIDE DEF r
<1>4. Kept(d, r, t)
  BY <1>1, <1>3, KeptTwice
<1> QED
  BY <1>1, <1>3, <1>4 DEF w, r

LEMMA PutcPrintable ==
    ASSUME NEW d \in DisplayType, NEW t \in Terms, Steady(d), NEW c, c # "newline"
    PROVE  LET r == putc(d, c, t) IN Kept(d, r, t) /\ r.x < NUM_COLS /\ r.y < NUM_ROWS
<1> DEFINE w == Store(d, CellAt(d), t)
           right == [w EXCEPT !.x = @ + 1]
           moved == IF d.x = NUM_COLS - 1 THEN NewLine(w) ELSE right
           r == putc(d, c, t)
<1>1. r = scroll_if_needed(moved, t)
  BY DEF putc
<1>2. CursorOK(d) /\ d.x \in Nat /\ d.y \in Nat /\ d.x < NUM_COLS /\ d.y <= NUM_ROWS
      /\ (d.y = NUM_ROWS => d.x = 0)
  BY DEF Steady, CursorOK, DisplayType
<1>3. /\ Kept(d, w, t) /\ w.x = d.x /\ w.y = d.y
      /\ Kept(d, right, t) /\ right.x = d.x + 1 /\ right.y = d.y
  BY <1>2, PrintKept, Zenon
<1>4. w \in DisplayType
  BY <1>3 DEF Kept
<1> HIDE DEF w, right
<1>5. Kept(w, NewLine(w), t) /\ NewLine(w).x = 0 /\ NewLine(w).y = w.y + 1
  BY <1>4, NewLineKept
<1>6. Kept(d, NewLine(w), t)
  BY <1>3, <1>5, KeptTwice
<1>7. /\ Kept(d, moved, t)
      /\ moved.x \in Nat /\ moved.y \in Nat
      /\ moved.x < NUM_COLS /\ moved.y <= NUM_ROWS
  <2>1. CASE d.x = NUM_COLS - 1
    BY <2>1, <1>2, <1>3, <1>5, <1>6, SizesType
  <2>2. CASE d.x # NUM_COLS - 1
    BY <2>2, <1>2, <1>3, SizesType
  <2> QED
    BY <2>1, <2>2
<1>8. moved \in DisplayType
  BY <1>7 DEF Kept
<1> HIDE DEF moved
<1>9. /\ Kept(moved, r, t)
      /\ moved.y < NUM_ROWS => r.x = moved.x /\ r.y = moved.y
      /\ moved.y >= NUM_ROWS => r.x = 0 /\ r.y = moved.y - 1
  BY <1>1, <1>8, ScrollKept
<1>10. Kept(d, r, t)
  BY <1>7, <1>9, KeptTwice
<1> HIDE DEF r
<1>11. r.x < NUM_COLS /\ r.y < NUM_ROWS
  BY <1>7, <1>9, SizesType
<1> QED
  BY <1>10, <1>11 DEF r

(* After a scroll of a cursor at most one row below its place.              *)
LEMMA ScrollSteady ==
    ASSUME NEW d, NEW e \in DisplayType, NEW t \in Terms, Kept(d, e, t),
           e.x < NUM_COLS \/ (e.x = NUM_COLS /\ e.y >= NUM_ROWS),
           e.y <= NUM_ROWS \/ (e.x = 0 /\ e.y = NUM_ROWS + 1)
    PROVE  LET r == scroll_if_needed(e, t) IN Kept(d, r, t) /\ Steady(r)
<1> DEFINE r == scroll_if_needed(e, t)
<1>1. /\ Kept(e, r, t)
      /\ e.y < NUM_ROWS => r.x = e.x /\ r.y = e.y
      /\ e.y >= NUM_ROWS => r.x = 0 /\ r.y = e.y - 1
  BY ScrollKept
<1>2. Kept(d, r, t) /\ r \in DisplayType
  BY <1>1, KeptTwice DEF Kept
<1>3. e.x \in Nat /\ e.y \in Nat
  BY DEF DisplayType
<1> HIDE DEF r
<1>4. Steady(r)
  BY <1>1, <1>3, SizesType DEF Steady, CursorOK
<1> QED
  BY <1>2, <1>4 DEF r

LEMMA WriteCharOK ==
    ASSUME NEW d \in DisplayType, NEW t \in Terms, Steady(d), NEW c \in Outputs
    PROVE  LET r == WriteChar(d, c, t) IN Kept(d, r, t) /\ Steady(r)
<1>1. d.x \in Nat /\ d.y \in Nat /\ d.x < NUM_COLS /\ d.y <= NUM_ROWS
  BY DEF Steady, CursorOK, DisplayType
<1>2. CASE c = "control"
  <2>1. WriteChar(d, c, t) = scroll_if_needed(d, t)
    BY <1>2 DEF WriteChar
  <2> QED
    BY <2>1, <1>1, KeptSelf, ScrollSteady
<1>3. CASE c = "newline"
  <2> DEFINE e == NewLine(d)
  <2>1. WriteChar(d, c, t) = scroll_if_needed(e, t)
    BY <1>3 DEF WriteChar, putc
  <2>2. Kept(d, e, t) /\ e.x = 0 /\ e.y = d.y + 1
    BY NewLineKept
  <2>3. e \in DisplayType
    BY <2>2 DEF Kept
  <2> HIDE DEF e
  <2>4. e.x < NUM_COLS /\ (e.y <= NUM_ROWS \/ (e.x = 0 /\ e.y = NUM_ROWS + 1))
    BY <2>2, <1>1, SizesType
  <2> QED
    BY <2>1, <2>2, <2>3, <2>4, ScrollSteady
<1>4. CASE c = "printable"
  <2> DEFINE e == putc(d, c, t)
  <2>1. WriteChar(d, c, t) = scroll_if_needed(e, t)
    BY <1>4 DEF WriteChar
  <2>2. Kept(d, e, t) /\ e.x < NUM_COLS /\ e.y < NUM_ROWS
    BY <1>4, PutcPrintable
  <2>3. e \in DisplayType
    BY <2>2 DEF Kept
  <2> HIDE DEF e
  <2>4. e.y <= NUM_ROWS
    BY <2>2, <2>3, SizesType DEF DisplayType
  <2> QED
    BY <2>1, <2>2, <2>3, <2>4, ScrollSteady
<1> QED
  BY <1>2, <1>3, <1>4 DEF Outputs

(* The keys.                                                                *)
LEMMA WrappedSteady ==
    ASSUME NEW d \in DisplayType, NEW t, CursorOK(d)
    PROVE  LET w == Wrapped(d) IN Kept(d, w, t) /\ w \in DisplayType /\ Steady(w)
<1> DEFINE e == NewLine(d)
<1>1. d.x \in Nat /\ d.y \in Nat /\ d.x <= NUM_COLS /\ d.y <= NUM_ROWS
      /\ (d.y = NUM_ROWS => d.x = 0)
  BY DEF CursorOK, DisplayType
<1>2. Kept(d, e, t) /\ e.x = 0 /\ e.y = d.y + 1
  BY NewLineKept
<1>3. Wrapped(d) = IF d.x > NUM_COLS - 1 THEN e ELSE d
  BY DEF Wrapped
<1> HIDE DEF e
<1>4. CASE d.x > NUM_COLS - 1
  <2>1. Steady(e)
    BY <1>1, <1>2, <1>4, SizesType DEF Steady, CursorOK
  <2> QED
    BY <2>1, <1>2, <1>3, <1>4 DEF Kept
<1>5. CASE ~(d.x > NUM_COLS - 1)
  <2>1. Steady(d)
    BY <1>1, <1>5, SizesType DEF Steady, CursorOK
  <2> QED
    BY <2>1, <1>3, <1>5, KeptSelf
<1> QED
  BY <1>4, <1>5

LEMMA EchoOK ==
    ASSUME NEW d \in DisplayType, NEW t \in Terms, CursorOK(d)
    PROVE  LET r == Echo(d, t) IN Kept(d, r, t) /\ CursorOK(r)
<1> DEFINE w == Wrapped(d)
           e == [Store(w, CellAt(w), t) EXCEPT !.x = @ + 1]
           r == Echo(d, t)
<1>1. Kept(d, w, t) /\ w \in DisplayType /\ Steady(w)
  BY WrappedSteady
<1>2. r = scroll_if_needed(e, t)
  BY DEF Echo
<1> HIDE DEF w, r
<1>3. Kept(w, e, t) /\ e.x = w.x + 1 /\ e.y = w.y
  BY <1>1, PrintKept DEF Steady
<1>4. e \in DisplayType
  BY <1>3 DEF Kept
<1> HIDE DEF e
<1>5. /\ Kept(e, r, t)
      /\ e.y < NUM_ROWS => r.x = e.x /\ r.y = e.y
      /\ e.y >= NUM_ROWS => r.x = 0 /\ r.y = e.y - 1
  BY <1>2, <1>4, ScrollKept
<1>6. Kept(d, r, t)
  BY <1>1, <1>3, <1>5, KeptTwice
<1>7. w.x \in Nat /\ w.y \in Nat /\ w.x < NUM_COLS /\ w.y <= NUM_ROWS
  BY <1>1 DEF Steady, CursorOK, DisplayType
<1>8. CursorOK(r)
  BY <1>3, <1>5, <1>7, SizesType DEF CursorOK
<1> QED
  BY <1>6, <1>8 DEF r

LEMMA EnterOK ==
    ASSUME NEW d \in DisplayType, NEW t \in Terms, CursorOK(d)
    PROVE  LET r == Enter(d, t) IN Kept(d, r, t) /\ Steady(r)
<1> DEFINE w == Wrapped(d)
           e == NewLine(w)
<1>1. Kept(d, w, t) /\ w \in DisplayType /\ Steady(w)
  BY WrappedSteady
<1>2. Enter(d, t) = scroll_if_needed(e, t)
  BY DEF Enter
<1> HIDE DEF w
<1>3. Kept(w, e, t) /\ e.x = 0 /\ e.y = w.y + 1
  BY <1>1, NewLineKept
<1>4. Kept(d, e, t) /\ e \in DisplayType
  BY <1>1, <1>3, KeptTwice DEF Kept
<1> HIDE DEF e
<1>5. e.x < NUM_COLS /\ (e.y <= NUM_ROWS \/ (e.x = 0 /\ e.y = NUM_ROWS + 1))
  BY <1>1, <1>3, SizesType DEF Steady, CursorOK, DisplayType
<1> QED
  BY <1>2, <1>4, <1>5, ScrollSteady

LEMMA OtherKeyOK ==
    ASSUME NEW d \in DisplayType, NEW t \in Terms, CursorOK(d)
    PROVE  LET r == OtherKey(d, t) IN Kept(d, r, t) /\ Steady(r)
<1> DEFINE w == Wrapped(d)
<1>1. Kept(d, w, t) /\ w \in DisplayType /\ Steady(w)
  BY WrappedSteady
<1>2. OtherKey(d, t) = scroll_if_needed(w, t)
  BY DEF OtherKey
<1> HIDE DEF w
<1>3. w.x < NUM_COLS /\ w.y <= NUM_ROWS
  BY <1>1 DEF Steady, CursorOK
<1> QED
  BY <1>1, <1>2, <1>3, ScrollSteady

LEMMA BackSteady ==
    ASSUME NEW w \in DisplayType, NEW t, Steady(w)
    PROVE  LET b == Back(w) IN Kept(w, b, t) /\ b \in DisplayType /\ Steady(b)
<1>1. w.x \in Nat /\ w.y \in Nat /\ w.x < NUM_COLS /\ w.y <= NUM_ROWS
      /\ (w.y = NUM_ROWS => w.x = 0)
  BY DEF Steady, CursorOK, DisplayType
<1>2. CASE w.x # 0
  <2> DEFINE b == [w EXCEPT !.x = w.x - 1]
  <2>1. Back(w) = b
    BY <1>2 DEF Back
  <2>2. w.x - 1 \in Nat
    BY <1>1, <1>2
  <2>3. Kept(w, b, t) /\ b.x = w.x - 1 /\ b.y = w.y
    BY <2>2, StepKept
  <2> HIDE DEF b
  <2>4. Steady(b)
    BY <1>1, <1>2, <2>3, SizesType DEF Steady, CursorOK
  <2> QED
    BY <2>1, <2>3, <2>4 DEF Kept
<1>3. CASE w.x = 0 /\ w.y # 0
  <2> DEFINE b == MoveTo(w, NUM_COLS - 1, w.y - 1)
  <2>1. Back(w) = b
    BY <1>3 DEF Back, MoveTo
  <2>2. b = [mem |-> w.mem, x |-> NUM_COLS - 1, y |-> w.y - 1]
    BY RecordOf, Moved
  <2> HIDE DEF b
  <2>3. Kept(w, b, t)
    BY <1>1, <1>3, <2>2, SizesType DEF Kept, DisplayType
  <2>4. Steady(b)
    BY <1>1, <1>3, <2>2, SizesType DEF Steady, CursorOK
  <2> QED
    BY <2>1, <2>3, <2>4 DEF Kept
<1>4. CASE w.x = 0 /\ w.y = 0
  <2>1. Back(w) = w
    BY <1>4 DEF Back
  <2> QED
    BY <2>1, KeptSelf
<1> QED
  BY <1>2, <1>3, <1>4

LEMMA BackspaceOK ==
    ASSUME NEW d \in DisplayType, NEW t \in Terms, CursorOK(d)
    PROVE  LET r == Backspace(d, t) IN Kept(d, r, t) /\ Steady(r)
<1> DEFINE w == Wrapped(d)
           b == Back(w)
           e == Store(b, CellAt(b), t)
<1>1. Kept(d, w, t) /\ w \in DisplayType /\ Steady(w)
  BY WrappedSteady
<1>2. Backspace(d, t) = scroll_if_needed(e, t)
  BY DEF Backspace
<1> HIDE DEF w
<1>3. Kept(w, b, t) /\ b \in DisplayType /\ Steady(b)
  BY <1>1, BackSteady
<1> HIDE DEF b
<1>4. Kept(b, e, t) /\ e.x = b.x /\ e.y = b.y
  BY <1>3, CellInPage, StoreKept DEF Steady
<1>5. Kept(d, e, t) /\ e \in DisplayType
  BY <1>1, <1>3, <1>4, KeptTwice DEF Kept
<1> HIDE DEF e
<1>6. e.x < NUM_COLS /\ e.y <= NUM_ROWS
  BY <1>3, <1>4 DEF Steady, CursorOK
<1> QED
  BY <1>2, <1>5, <1>6, ScrollSteady

(* A handler's message, whose newline does not scroll.                      *)
LEMMA MessageOK ==
    ASSUME NEW d \in DisplayType, NEW t \in Terms, Steady(d)
    PROVE  LET r == putc(putc(d, "printable", t), "newline", t)
           IN  Kept(d, r, t) /\ Steady(r)
<1> DEFINE e == putc(d, "printable", t)
           r == NewLine(e)
<1>1. putc(e, "newline", t) = r
  BY DEF putc
<1>2. Kept(d, e, t) /\ e.x < NUM_COLS /\ e.y < NUM_ROWS
  BY PutcPrintable
<1>3. e \in DisplayType
  BY <1>2 DEF Kept
<1> HIDE DEF e
<1>4. Kept(e, r, t) /\ r.x = 0 /\ r.y = e.y + 1
  BY <1>3, NewLineKept
<1> HIDE DEF r
<1>5. Kept(d, r, t)
  BY <1>2, <1>4, KeptTwice
<1>6. Steady(r)
  BY <1>2, <1>3, <1>4, SizesType DEF Steady, CursorOK, DisplayType
<1> QED
  BY <1>1, <1>5, <1>6 DEF e

-----------------------------------------------------------------------------
(* What a switch copies.                                                    *)
Page(t) == vid_mem(t) .. vid_mem(t) + PAGE - 1

LEMMA CopyCells ==
    ASSUME NEW mem \in [Memory -> Owners], NEW to \in Nat, NEW from \in Nat,
           \A i \in Screen : to + i \in Memory /\ from + i \in Memory
    PROVE  LET r == CopyScreen(mem, to, from) IN
           /\ r \in [Memory -> Owners]
           /\ \A i \in Screen : r[to + i] = mem[from + i]
           /\ \A j \in Memory : (\A i \in Screen : j # to + i) => r[j] = mem[j]
<1> DEFINE r == CopyScreen(mem, to, from)
<1>1. r = [j \in Memory |-> IF j - to \in Screen THEN mem[from + (j - to)] ELSE mem[j]]
  BY DEF CopyScreen
<1>2. \A j \in Memory : j - to \in Screen => from + (j - to) \in Memory
  OBVIOUS
<1>3. r \in [Memory -> Owners]
  BY <1>1, <1>2
<1>4. ASSUME NEW i \in Screen
      PROVE  r[to + i] = mem[from + i]
  <2>1. to + i \in Memory /\ (to + i) - to = i
    BY ScreenInMemory
  <2> QED
    BY <1>1, <2>1
<1>5. ASSUME NEW j \in Memory, \A i \in Screen : j # to + i
      PROVE  r[j] = mem[j]
  <2>1. j - to \notin Screen
    <3>1. SUFFICES ASSUME j - to \in Screen PROVE FALSE
      OBVIOUS
    <3>2. j = to + (j - to)
      BY ScreenInMemory
    <3> QED
      BY <3>1, <3>2, <1>5
  <2> QED
    BY <1>1, <2>1
<1> QED
  BY <1>3, <1>4, <1>5

(* A terminal's saved page: its cells are its own, and not the screen's.    *)
LEMMA SavedCells ==
    ASSUME NEW t \in Terms, NEW i \in Screen
    PROVE  /\ vid_mem(t) + i \in Memory \ (0 .. PAGE - 1)
           /\ vid_mem(t) + i \in Page(t)
           /\ VIDEO + i = i /\ i \in Nat /\ i \in 0 .. PAGE - 1 /\ i \in Memory
<1>1. i \in 0 .. Cells - 1 /\ Cells \in Nat /\ Cells < PAGE /\ PAGE \in Nat
  BY CellsType
<1>2. vid_mem(t) \in Nat /\ vid_mem(t) >= PAGE
  BY PageAt
<1>3. vid_mem(t) + i \in Page(t)
  BY <1>1, <1>2 DEF Page
<1>4. vid_mem(t) + i \notin 0 .. PAGE - 1
  BY <1>1, <1>2
<1> QED
  BY <1>1, <1>3, <1>4, PageAt, ScreenInMemory DEF Page, VIDEO

LEMMA PageCells ==
    ASSUME NEW t \in Terms, NEW j \in Page(t)
    PROVE  j \in Memory \ (0 .. PAGE - 1) /\ \A u \in Terms \ {t} : j \notin Page(u)
<1>1. j \in Memory /\ j \notin 0 .. PAGE - 1
  BY PageAt, CellsType DEF Page
<1> QED
  BY <1>1, PagesApart DEF Page

(* From m to r the screen was saved in terminal f's page, and nothing else  *)
(* changed outside the screen.                                              *)
Saved(m, r, f) ==
    /\ r \in [Memory -> Owners]
    /\ \A i \in Screen : r[vid_mem(f) + i] = m[i]
    /\ \A j \in Memory \ (0 .. PAGE - 1) :
          (\A i \in Screen : j # vid_mem(f) + i) => r[j] = m[j]

LEMMA ScreenSaved ==
    ASSUME NEW m \in [Memory -> Owners], NEW f \in Terms
    PROVE  Saved(m, CopyScreen(m, vid_mem(f), VIDEO), f)
<1> DEFINE r == CopyScreen(m, vid_mem(f), VIDEO)
<1>1. \A i \in Screen : vid_mem(f) + i \in Memory /\ VIDEO + i \in Memory /\ VIDEO + i = i
  BY SavedCells
<1>2. vid_mem(f) \in Nat /\ VIDEO \in Nat
  BY PageAt DEF VIDEO
<1>3. /\ r \in [Memory -> Owners]
      /\ \A i \in Screen : r[vid_mem(f) + i] = m[VIDEO + i]
      /\ \A j \in Memory : (\A i \in Screen : j # vid_mem(f) + i) => r[j] = m[j]
  BY <1>1, <1>2, CopyCells
<1> HIDE DEF r
<1> QED
  BY <1>1, <1>3 DEF Saved, r

LEMMA ScreenRestored ==
    ASSUME NEW m \in [Memory -> Owners], NEW f \in Terms, NEW u \in Terms, u # f
    PROVE  LET r == CopyScreen(CopyScreen(m, vid_mem(f), VIDEO), VIDEO, vid_mem(u))
           IN  Saved(m, r, f) /\ \A i \in Screen : r[i] = m[vid_mem(u) + i]
<1> DEFINE s == CopyScreen(m, vid_mem(f), VIDEO)
           r == CopyScreen(s, VIDEO, vid_mem(u))
<1>1. Saved(m, s, f)
  BY ScreenSaved
<1>2. s \in [Memory -> Owners]
  BY <1>1 DEF Saved
<1> HIDE DEF s
<1>3. \A i \in Screen : VIDEO + i \in Memory /\ vid_mem(u) + i \in Memory /\ VIDEO + i = i
  BY SavedCells
<1>4. vid_mem(u) \in Nat /\ VIDEO \in Nat
  BY PageAt DEF VIDEO
<1>5. /\ r \in [Memory -> Owners]
      /\ \A i \in Screen : r[VIDEO + i] = s[vid_mem(u) + i]
      /\ \A j \in Memory : (\A i \in Screen : j # VIDEO + i) => r[j] = s[j]
  BY <1>2, <1>3, <1>4, CopyCells
<1> HIDE DEF r
<1>6. \A i \in Screen : r[i] = s[vid_mem(u) + i]
  BY <1>3, <1>5
<1>7. \A i \in Screen : s[vid_mem(u) + i] = m[vid_mem(u) + i]
  <2>1. ASSUME NEW i \in Screen PROVE s[vid_mem(u) + i] = m[vid_mem(u) + i]
    <3>1. vid_mem(u) + i \in Memory \ (0 .. PAGE - 1) /\ vid_mem(u) + i \in Page(u)
      BY SavedCells
    <3>2. \A k \in Screen : vid_mem(u) + i # vid_mem(f) + k
      <4>1. \A k \in Screen : vid_mem(f) + k \in Page(f)
        BY SavedCells
      <4>2. vid_mem(u) + i \notin Page(f)
        BY <3>1, PageCells
      <4> QED
        BY <4>1, <4>2
    <3> QED
      BY <1>1, <3>1, <3>2 DEF Saved
  <2> QED
    BY <2>1
<1>8. \A j \in Memory \ (0 .. PAGE - 1) : r[j] = s[j]
  <2>1. \A i \in Screen : VIDEO + i \in 0 .. PAGE - 1
    BY SavedCells
  <2> QED
    BY <1>5, <2>1
<1>9. Saved(m, r, f)
  <2>1. \A i \in Screen : vid_mem(f) + i \in Memory \ (0 .. PAGE - 1)
    BY SavedCells
  <2> QED
    BY <1>1, <1>5, <1>8, <2>1 DEF Saved
<1> QED
  BY <1>6, <1>7, <1>9 DEF r, s

-----------------------------------------------------------------------------
(* Nobody types ahead, or leaves a terminal with a line entered, not read.  *)
Careful == Admitted = {}

Programs == {"user", "reading", "stuck"}
Points   == [x : 0 .. NUM_COLS, y : 0 .. NUM_ROWS]

(* A cursor stands past the last column only while its terminal's program   *)
(* waits for a line that is not entered yet: only a letter leaves it there, *)
(* and only Enter, which moves it on, ends the wait.  This is what keeps    *)
(* terminal_write, which does not look, from writing there.                 *)
CursorInv ==
    /\ display \in DisplayType /\ CursorOK(display)
    /\ display.x = NUM_COLS => program[focus] = "reading" /\ ~can_read
    /\ term_cursor \in [Terms -> Points]
    /\ \A t \in Terms : CursorOK(term_cursor[t])
    /\ \A t \in Terms \ {focus} : term_cursor[t].x = NUM_COLS => program[t] = "reading"
    /\ program \in [Terms -> Programs]
    /\ length_typed \in 0 .. LINE_SIZE
    /\ can_read \in BOOLEAN

LEMMA CursorKept ==
    ASSUME CursorInv, focus' = focus, UNCHANGED <<screenVars, program, lineVars>>
    PROVE  CursorInv'
BY DEF CursorInv, screenVars, lineVars, CursorOK

(* A program that runs finds the cursor on the screen, or at the start of   *)
(* the row below it.                                                        *)
LEMMA UserSteady ==
    ASSUME CursorInv, InUser
    PROVE  display \in DisplayType /\ Steady(display)
BY SizesType DEF CursorInv, InUser, Steady, CursorOK, DisplayType

(* What happens on the screen while the terminals stay as they are: nothing *)
(* is written outside its page.                                             *)
LEMMA ScreenWork ==
    ASSUME ReachInv, CursorInv, Careful,
           \/ terminal_write \/ Exception
           \/ PressLetter \/ PressEnter \/ PressBackspace \/ PressOther \/ ReleaseL
           \/ \E e \in Entries : \E page \in VideoPages : UserStore(e, page)
    PROVE  /\ Kept(display, display', focus) /\ CursorOK(display')
           /\ PressLetter \/ Steady(display')
<1>1. focus \in Terms
  BY DEF ReachInv, Procs!StacksOK
<1>2. display \in DisplayType /\ CursorOK(display)
  BY DEF CursorInv
<1>3. CASE terminal_write
  <2>1. PICK c \in Outputs : InUser /\ display' = WriteChar(display, c, focus)
    BY <1>3 DEF terminal_write
  <2>2. Steady(display)
    BY <2>1, UserSteady
  <2>3. Kept(display, display', focus) /\ Steady(display')
    BY <2>1, <2>2, <1>1, <1>2, WriteCharOK
  <2> QED
    BY <2>3 DEF Steady
<1>4. CASE Exception
  <2>1. InUser /\ display' = putc(putc(display, "printable", focus), "newline", focus)
    BY <1>4 DEF Exception
  <2>2. Steady(display)
    BY <2>1, UserSteady
  <2>3. Kept(display, display', focus) /\ Steady(display')
    BY <2>1, <2>2, <1>1, <1>2, MessageOK
  <2> QED
    BY <2>3 DEF Steady
<1>5. CASE PressLetter
  <2>1. display' = Echo(display, focus)
    BY <1>5 DEF PressLetter
  <2> QED
    BY <2>1, <1>1, <1>2, <1>5, EchoOK
<1>6. CASE PressEnter
  <2>1. display' = Enter(display, focus)
    BY <1>6 DEF PressEnter
  <2> QED
    BY <2>1, <1>1, <1>2, EnterOK DEF Steady
<1>7. CASE PressBackspace
  <2>1. display' = Backspace(display, focus)
    BY <1>7 DEF PressBackspace
  <2> QED
    BY <2>1, <1>1, <1>2, BackspaceOK DEF Steady
<1>8. CASE PressOther
  <2>1. display' = OtherKey(display, focus)
    BY <1>8 DEF PressOther
  <2> QED
    BY <2>1, <1>1, <1>2, OtherKeyOK DEF Steady
<1>9. CASE ReleaseL
  <2>1. display' = clear_screen(display, focus)
    BY <1>9 DEF ReleaseL
  <2>2. Kept(display, display', focus) /\ display'.x = 0 /\ display'.y = 0
    BY <2>1, <1>1, <1>2, ClearKept
  <2>3. Steady(display')
    BY <2>2, SizesType DEF Steady, CursorOK
  <2> QED
    BY <2>2, <2>3 DEF Steady
<1>10. ASSUME NEW e \in Entries, NEW page \in VideoPages, UserStore(e, page)
       PROVE  /\ Kept(display, display', focus) /\ CursorOK(display')
              /\ Steady(display')
  <2>1. PICK i \in 0 .. PAGE - 1 :
            /\ Frame("video page", page) \in Reached(directory, tlb, e)
            /\ InUser /\ display' = Store(display, page * PAGE + i, focus)
    BY <1>10 DEF UserStore
  <2>2. Frame("video page", page) = ImageFrame(Process) \/ Frame("video page", page) = ScreenFrame
    BY <2>1, ReachedFrames DEF InUser
  <2>3. page = 0
    BY <2>2 DEF Frame, ImageFrame, ScreenFrame
  <2>4. page * PAGE + i = i
    BY <2>3, CellsType
  <2>5. Kept(display, display', focus) /\ display'.x = display.x /\ display'.y = display.y
    BY <2>1, <2>4, <1>1, <1>2, StoreKept
  <2>6. Steady(display)
    BY <2>1, UserSteady
  <2> QED
    BY <2>5, <2>6 DEF Steady, CursorOK
<1> QED
  BY <1>3, <1>4, <1>5, <1>6, <1>7, <1>8, <1>9, <1>10

LEMMA CursorInit == Init => CursorInv
<1> SUFFICES ASSUME Init PROVE CursorInv
  OBVIOUS
<1> DEFINE d == [mem |-> [i \in Memory |-> Nobody], x |-> 0, y |-> 0]
<1>1. 0 \in Terms /\ Nobody \in Owners
  BY ConsoleAssumption DEF Terms, Nobody, Owners
<1>2. d \in DisplayType
  BY <1>1 DEF DisplayType
<1>3. display = clear_screen(d, 0)
  BY DEF Init
<1> HIDE DEF d
<1>4. display \in DisplayType /\ display.x = 0 /\ display.y = 0
  BY <1>1, <1>2, <1>3, ClearKept
<1>5. LINE_SIZE \in Nat
  BY DisplayAssumption
<1>6. /\ term_cursor = [t \in Terms |-> [x |-> 0, y |-> 0]]
      /\ program = [t \in Terms |-> "user"]
      /\ length_typed = 0 /\ can_read = FALSE
  BY DEF Init
<1>7. [x |-> 0, y |-> 0] \in Points /\ CursorOK([x |-> 0, y |-> 0])
  BY SizesType DEF Points, CursorOK
<1>8. term_cursor \in [Terms -> Points] /\ program \in [Terms -> Programs]
  BY <1>6, <1>7 DEF Programs
<1>9. \A t \in Terms : term_cursor[t] = [x |-> 0, y |-> 0]
  BY <1>6
<1>10. display.x # NUM_COLS /\ \A t \in Terms : term_cursor[t].x # NUM_COLS
  BY <1>4, <1>9, SizesType
<1>11. CursorOK(display)
  BY <1>4, SizesType DEF CursorOK
<1>12. length_typed \in 0 .. LINE_SIZE /\ can_read \in BOOLEAN
  <2>1. length_typed \in 0 .. LINE_SIZE
    BY <1>5, <1>6
  <2>2. can_read \in BOOLEAN
    BY <1>6, Zenon
  <2> QED
    BY <2>1, <2>2
<1> QED
  BY <1>4, <1>7, <1>8, <1>9, <1>10, <1>11, <1>12, Zenon DEF CursorInv

LEMMA SteadyKept ==
    ASSUME CursorInv, focus \in Terms, focus' = focus,
           display' \in DisplayType, Steady(display'),
           \E p \in Programs : program' = [program EXCEPT ![focus] = p],
           \/ term_cursor' = term_cursor
           \/ term_cursor' = [term_cursor EXCEPT ![focus] = [x |-> display'.x, y |-> display'.y]],
           length_typed' \in 0 .. LINE_SIZE, can_read' \in BOOLEAN
    PROVE  CursorInv'
<1>1. CursorOK(display') /\ display'.x # NUM_COLS
  BY SizesType DEF Steady, CursorOK
<1>2. /\ program' \in [Terms -> Programs]
      /\ \A t \in Terms \ {focus} : program'[t] = program[t]
  BY DEF CursorInv
<1>3. /\ term_cursor' \in [Terms -> Points]
      /\ \A t \in Terms : CursorOK(term_cursor'[t])
      /\ \A t \in Terms \ {focus} : term_cursor'[t] = term_cursor[t]
  <2> DEFINE p == [x |-> display'.x, y |-> display'.y]
  <2>1. p \in Points /\ CursorOK(p)
    BY <1>1 DEF CursorOK, Points
  <2> HIDE DEF p
  <2>2. CASE term_cursor' = term_cursor
    BY <2>2 DEF CursorInv
  <2>3. CASE term_cursor' = [term_cursor EXCEPT ![focus] = p]
    BY <2>1, <2>3 DEF CursorInv
  <2> QED
    BY <2>2, <2>3 DEF p
<1>4. \A t \in Terms \ {focus'} : term_cursor'[t].x = NUM_COLS => program'[t] = "reading"
  BY <1>2, <1>3 DEF CursorInv
<1> QED
  BY <1>1, <1>2, <1>3, <1>4, Zenon DEF CursorInv

(* A switch leaves the cursor with the terminal it was in.                  *)
LEMMA SwitchCursor ==
    ASSUME CursorInv, focus \in Terms, NEW t \in Terms, t # focus, focus' = t, ~can_read,
           SaveCursor, UNCHANGED <<program, lineVars>>,
           display' \in DisplayType, CursorOK(display'),
           display'.x = NUM_COLS => program[t] = "reading"
    PROVE  CursorInv'
<1>1. term_cursor' = [term_cursor EXCEPT ![focus] = Cursor]
  BY DEF SaveCursor
<1>2. Cursor \in Points /\ CursorOK(Cursor) /\ Cursor.x = display.x
  BY DEF CursorInv, CursorOK, Cursor, Points
<1>3. /\ term_cursor' \in [Terms -> Points]
      /\ term_cursor'[focus] = Cursor
      /\ \A u \in Terms \ {focus} : term_cursor'[u] = term_cursor[u]
  BY <1>1, <1>2 DEF CursorInv
<1>4. \A u \in Terms : CursorOK(term_cursor'[u])
  BY <1>2, <1>3 DEF CursorInv
<1>5. \A u \in Terms : term_cursor'[u].x = NUM_COLS => u = t \/ program[u] = "reading"
  BY <1>2, <1>3 DEF CursorInv
<1>6. program' = program /\ length_typed' = length_typed /\ can_read' = can_read
  BY DEF lineVars
<1> QED
  BY <1>3, <1>4, <1>5, <1>6 DEF CursorInv

LEMMA SwitchScreen ==
    ASSUME CursorInv, focus \in Terms, NEW t \in Terms, SwitchTo(t) \/ OpenTerminal(t)
    PROVE  /\ t # focus /\ focus' = t /\ SaveCursor /\ UNCHANGED <<program, lineVars>>
           /\ display' \in DisplayType /\ CursorOK(display')
           /\ Saved(display.mem, display'.mem, focus)
           /\ SwitchTo(t) =>
                 /\ display'.x = term_cursor[t].x /\ display'.y = term_cursor[t].y
                 /\ \A i \in Screen : display'.mem[i] = display.mem[vid_mem(t) + i]
           /\ OpenTerminal(t) => display'.x = 0 /\ \A i \in Screen : display'.mem[i] = t
<1>1. t # focus /\ focus' = t /\ SaveCursor /\ UNCHANGED <<program, lineVars>>
  BY DEF SwitchTo, OpenTerminal, Switching, Procs!Show, Procs!Open
<1>2. display.mem \in [Memory -> Owners] /\ display.x \in Nat /\ display.y \in Nat
  BY DEF CursorInv, DisplayType
<1>3. SwitchTo(t) => stack[t] # <<>>
  BY DEF SwitchTo, Procs!Show
<1>4. OpenTerminal(t) => stack[t] = <<>>
  BY DEF OpenTerminal, Procs!Open
<1>5. CASE SwitchTo(t)
  <2> DEFINE r == CopyScreen(SaveScreen, VIDEO, vid_mem(t))
  <2>1. display' = [mem |-> r, x |-> term_cursor[t].x, y |-> term_cursor[t].y]
    BY <1>5 DEF SwitchTo
  <2>2. Saved(display.mem, r, focus) /\ \A i \in Screen : r[i] = display.mem[vid_mem(t) + i]
    BY <1>1, <1>2, ScreenRestored DEF SaveScreen
  <2>3. term_cursor[t] \in Points /\ CursorOK(term_cursor[t])
    BY DEF CursorInv
  <2> HIDE DEF r
  <2>4. display'.mem = r /\ display'.x = term_cursor[t].x /\ display'.y = term_cursor[t].y
    BY <2>1
  <2>5. display' \in DisplayType
    BY <2>1, <2>2, <2>3, SizesType DEF DisplayType, Saved, Points
  <2>6. CursorOK(display')
    BY <2>3, <2>4 DEF CursorOK
  <2> QED
    BY <1>1, <1>3, <1>4, <1>5, <2>2, <2>4, <2>5, <2>6
<1>6. CASE OpenTerminal(t)
  <2> DEFINE e == [display EXCEPT !.mem = SaveScreen]
             r == clear_screen(e, t)
  <2>1. display' = r
    BY <1>6 DEF OpenTerminal
  <2>2. Saved(display.mem, SaveScreen, focus)
    BY <1>2, ScreenSaved DEF SaveScreen
  <2>3. e = [mem |-> SaveScreen, x |-> display.x, y |-> display.y]
    BY DEF CursorInv, DisplayType
  <2>4. e \in DisplayType /\ e.mem = SaveScreen
    BY <1>2, <2>2, <2>3 DEF DisplayType, Saved
  <2> HIDE DEF e
  <2>5. /\ r \in DisplayType /\ r.x = 0 /\ r.y = 0
        /\ \A i \in Screen : r.mem[i] = t
        /\ \A i \in Memory \ Screen : r.mem[i] = e.mem[i]
    BY <2>4, ClearKept
  <2> HIDE DEF r
  <2>6. CursorOK(r)
    BY <2>5, SizesType DEF CursorOK
  <2>7. Saved(display.mem, r.mem, focus)
    <3>1. \A j \in Memory \ (0 .. PAGE - 1) : j \in Memory \ Screen
      BY CellsType
    <3>2. \A i \in Screen : vid_mem(focus) + i \in Memory \ Screen
      BY <3>1, SavedCells
    <3>3. r.mem \in [Memory -> Owners]
      BY <2>5 DEF DisplayType
    <3> QED
      BY <2>2, <2>4, <2>5, <3>1, <3>2, <3>3 DEF Saved
  <2> QED
    BY <1>1, <1>3, <1>4, <1>6, <2>1, <2>5, <2>6, <2>7
<1> QED
  BY <1>5, <1>6

LEMMA CursorStep ==
    ASSUME ReachInv, CursorInv, Careful, [Next]_vars
    PROVE  CursorInv'
<1>1. focus \in Terms
  BY DEF ReachInv, Procs!StacksOK
<1>2. CASE Boot \/ Run \/ Exit \/ vidmap \/ (\E e \in Entries : Touch(e)) \/ UNCHANGED vars
  <2>1. focus' = focus
    BY <1>2 DEF Boot, Run, Exit, vidmap, Touch, vars, procVars, Procs!Open, Procs!Run, Procs!Exit
  <2>2. UNCHANGED <<screenVars, program, lineVars>>
    BY <1>2 DEF Boot, Run, Exit, vidmap, Touch, vars
  <2> QED
    BY <2>1, <2>2, CursorKept
<1>3. \E p \in Programs : program = [program EXCEPT ![focus] = p]
  BY <1>1 DEF CursorInv
<1>4. LINE_SIZE \in Nat /\ length_typed \in 0 .. LINE_SIZE /\ can_read \in BOOLEAN
      /\ 0 \in 0 .. LINE_SIZE
  BY DisplayAssumption DEF CursorInv
<1>5. CASE PressLetter
  <2>1. program[focus] = "reading" /\ ~can_read /\ length_typed < LINE_SIZE
    BY <1>5 DEF PressLetter, Typing, Careful
  <2>2. /\ length_typed' = length_typed + 1
        /\ UNCHANGED <<procVars, term_cursor, program, can_read>>
    BY <1>5 DEF PressLetter
  <2>3. Kept(display, display', focus) /\ CursorOK(display')
    BY <1>5, ScreenWork
  <2>4. display' \in DisplayType
    BY <2>3 DEF Kept
  <2>5. length_typed' \in 0 .. LINE_SIZE
    BY <1>4, <2>1, <2>2
  <2> QED
    BY <2>1, <2>2, <2>3, <2>4, <2>5 DEF CursorInv, procVars
<1>6. CASE /\ \/ terminal_write \/ Exception \/ PressEnter \/ PressBackspace \/ PressOther \/ ReleaseL
              \/ \E e \in Entries : \E page \in VideoPages : UserStore(e, page)
           /\ ~PressLetter
  <2>1. Kept(display, display', focus) /\ Steady(display')
    BY <1>6, ScreenWork
  <2>2. display' \in DisplayType
    BY <2>1 DEF Kept
  <2>3. focus' = focus
    BY <1>6, Zenon DEF terminal_write, Exception, PressEnter, PressBackspace, PressOther, ReleaseL, UserStore, procVars
  <2>4. \E p \in Programs : program' = [program EXCEPT ![focus] = p]
    <3>1. "stuck" \in Programs
      BY DEF Programs
    <3>2. program' = program \/ program' = [program EXCEPT ![focus] = "stuck"]
      BY <1>6, Zenon DEF terminal_write, Exception, PressEnter, PressBackspace, PressOther, ReleaseL, UserStore
    <3> QED
      BY <1>3, <3>1, <3>2, Zenon
  <2>5. \/ term_cursor' = term_cursor
        \/ term_cursor' = [term_cursor EXCEPT ![focus] = [x |-> display'.x, y |-> display'.y]]
    BY <1>6, Zenon DEF terminal_write, Exception, PressEnter, PressBackspace, PressOther, ReleaseL, UserStore
  <2>6. can_read' \in BOOLEAN
    <3>1. can_read' = can_read \/ can_read' = TRUE
      BY <1>6, Zenon DEF terminal_write, Exception, PressEnter, PressBackspace, PressOther, ReleaseL, UserStore, lineVars
    <3> QED
      BY <1>4, <3>1, Zenon
  <2>7. length_typed' \in 0 .. LINE_SIZE
    <3>1. \/ length_typed' = length_typed
          \/ length_typed' = 0
          \/ length_typed > 0 /\ length_typed' = length_typed - 1
      BY <1>6 DEF terminal_write, Exception, PressEnter, PressBackspace, PressOther, ReleaseL, UserStore, lineVars
    <3> QED
      BY <1>4, <3>1
  <2> QED
    BY <1>1, <2>1, <2>2, <2>3, <2>4, <2>5, <2>6, <2>7, SteadyKept
<1>7. CASE ReadCall
  <2>1. /\ InUser /\ program' = [program EXCEPT ![focus] = "reading"]
        /\ UNCHANGED <<procVars, screenVars, lineVars>>
    BY <1>7 DEF ReadCall
  <2>2. focus' = focus /\ display' = display /\ term_cursor' = term_cursor
        /\ length_typed' = length_typed /\ can_read' = can_read
    BY <2>1 DEF procVars, screenVars, lineVars
  <2>3. display \in DisplayType /\ Steady(display)
    BY <2>1, UserSteady
  <2>4. "reading" \in Programs
    BY DEF Programs
  <2> QED
    BY <1>1, <1>4, <2>1, <2>2, <2>3, <2>4, SteadyKept
<1>8. CASE ReadReturns
  <2>1. /\ program[focus] = "reading" /\ can_read
        /\ program' = [program EXCEPT ![focus] = "user"]
        /\ can_read' = FALSE /\ length_typed' = 0
        /\ UNCHANGED <<procVars, screenVars>>
    BY <1>8 DEF ReadReturns
  <2>2. focus' = focus /\ display' = display /\ term_cursor' = term_cursor
    BY <2>1 DEF procVars, screenVars
  <2>3. display.x # NUM_COLS
    BY <2>1 DEF CursorInv
  <2>4. display \in DisplayType /\ Steady(display)
    BY <2>3, SizesType DEF CursorInv, Steady, CursorOK, DisplayType
  <2>5. "user" \in Programs /\ can_read' \in BOOLEAN
    BY <2>1 DEF Programs
  <2> QED
    BY <1>1, <1>4, <2>1, <2>2, <2>4, <2>5, SteadyKept
<1>9. ASSUME NEW t \in Terms, SwitchTo(t) \/ OpenTerminal(t)
      PROVE  CursorInv'
  <2>1. ~can_read
    BY <1>9 DEF SwitchTo, OpenTerminal, Switching, Careful
  <2>2. /\ t # focus /\ focus' = t /\ SaveCursor /\ UNCHANGED <<program, lineVars>>
        /\ display' \in DisplayType /\ CursorOK(display')
        /\ SwitchTo(t) => display'.x = term_cursor[t].x
        /\ OpenTerminal(t) => display'.x = 0
    BY <1>1, <1>9, SwitchScreen
  <2>3. display'.x = NUM_COLS => program[t] = "reading"
    <3>1. term_cursor[t].x = NUM_COLS => program[t] = "reading"
      BY <2>2 DEF CursorInv
    <3> QED
      BY <1>9, <2>2, <3>1, SizesType
  <2> QED
    BY <1>1, <2>1, <2>2, <2>3, SwitchCursor
<1> QED
  BY <1>2, <1>5, <1>6, <1>7, <1>8, <1>9 DEF Next

(* With careful typing every variable keeps its type: the cursor never      *)
(* leaves the screen by more than one row or one column, the line never     *)
(* outgrows its buffer, and no output is stored outside video memory (lib.c,*)
(* keyboard_driver.c, terminal_driver.c).                                   *)
THEOREM TypeCorrect == ASSUME Careful PROVE Spec => []TypeOK
<1>1. ReachInv /\ CursorInv => TypeOK
  <2> SUFFICES ASSUME ReachInv, CursorInv PROVE TypeOK
    OBVIOUS
  <2>1. display.mem \in [Memory -> Owners] /\ display.x \in 0 .. NUM_COLS /\ display.y \in 0 .. NUM_ROWS
    BY DEF CursorInv, CursorOK, DisplayType
  <2>2. \A e \in Entries : directory[e].user \in BOOLEAN
    <3>1. directory["low"].user = FALSE /\ directory["kernel"].user = FALSE
      BY DEF ReachInv
    <3>2. directory["video"].user = FALSE \/ directory["video"].user = TRUE
      BY DEF ReachInv, Absent, VideoEntry
    <3>3. directory["image"].user = FALSE \/ directory["image"].user = TRUE
      BY DEF ReachInv, Absent, ImageEntry
    <3>4. \A e \in Entries : directory[e].user = FALSE \/ directory[e].user = TRUE
      BY <3>1, <3>2, <3>3 DEF Entries
    <3> QED
      BY <3>4, Zenon
  <2>3. \A k \in tlb : k.entry \in Entries
    BY DEF ReachInv, Entries
  <2> QED
    BY <2>1, <2>2, <2>3 DEF CursorInv, TypeOK, Points, Programs
<1>2. Init => ReachInv /\ CursorInv
  BY ReachInit, CursorInit
<1>3. ReachInv /\ CursorInv /\ [Next]_vars => ReachInv' /\ CursorInv'
  BY ReachStep, CursorStep
<1> QED
  BY <1>1, <1>2, <1>3, PTL DEF Spec

(* No program and no careful typist moves the cursor further than the start *)
(* of the row below the screen, so that output stays in its page.           *)
THEOREM OutputStaysOnPage == ASSUME Careful PROVE Spec => []CursorNearScreen
<1>1. CursorInv => CursorNearScreen
  <2> SUFFICES ASSUME CursorInv PROVE CursorNearScreen
    OBVIOUS
  <2>1. display \in DisplayType /\ CursorOK(display)
    BY DEF CursorInv
  <2>2. CellAt(display) <= Cells
    BY <2>1, CellInPage
  <2> QED
    BY <2>1, <2>2 DEF CursorNearScreen, CursorOK, Cells
<1>2. Init => ReachInv /\ CursorInv
  BY ReachInit, CursorInit
<1>3. ReachInv /\ CursorInv /\ [Next]_vars => ReachInv' /\ CursorInv'
  BY ReachStep, CursorStep
<1> QED
  BY <1>1, <1>2, <1>3, PTL DEF Spec

-----------------------------------------------------------------------------
(* Who wrote what: a terminal's screen, shown or saved, holds its own       *)
(* output, and so does all of the page it is saved in.                      *)
MemInv ==
    /\ \A t \in Terms : Opened(t) \/ t = focus =>
          \A i \in Screen : Shown(display.mem, t, focus)[i] = t
    /\ \A t \in Terms : \A i \in Page(t) : display.mem[i] \in {t, Nobody}

LEMMA ShownCell ==
    ASSUME NEW mem, NEW t \in Terms, NEW f, NEW i \in Screen
    PROVE  Shown(mem, t, f)[i] = IF t = f THEN mem[i] ELSE mem[vid_mem(t) + i]
BY SavedCells DEF Shown

LEMMA MemInit == Init => MemInv
<1> SUFFICES ASSUME Init PROVE MemInv
  OBVIOUS
<1> DEFINE d == [mem |-> [i \in Memory |-> Nobody], x |-> 0, y |-> 0]
<1>1. 0 \in Terms /\ Nobody \in Owners
  BY ConsoleAssumption DEF Terms, Nobody, Owners
<1>2. d \in DisplayType
  BY <1>1 DEF DisplayType
<1>3. display = clear_screen(d, 0) /\ focus = 0
  BY DEF Init, Procs!Init
<1>4. \A i \in Memory : d.mem[i] = Nobody
  OBVIOUS
<1> HIDE DEF d
<1>5. /\ \A i \in Screen : display.mem[i] = 0
      /\ \A i \in Memory \ Screen : display.mem[i] = d.mem[i]
  BY <1>1, <1>2, <1>3, ClearKept
<1>6. \A t \in Terms : ~Opened(t)
  BY DEF Init, Procs!Init, Opened
<1>7. \A t \in Terms : \A i \in Page(t) : i \in Memory \ Screen
  BY PageCells, CellsType
<1> QED
  BY <1>1, <1>3, <1>4, <1>5, <1>6, <1>7, ShownCell DEF MemInv

(* Work on the screen does not reach the saved pages.                       *)
LEMMA MemKept ==
    ASSUME MemInv, focus \in Terms, focus' = focus,
           Kept(display, display', focus) \/ display' = display,
           \A t \in Terms \ {focus} : stack'[t] = stack[t]
    PROVE  MemInv'
<1>1. /\ \A i \in Memory \ (0 .. PAGE - 1) : display'.mem[i] = display.mem[i]
      /\ (\A i \in Screen : display.mem[i] = focus) => \A i \in Screen : display'.mem[i] = focus
  BY DEF Kept
<1>2. ASSUME NEW t \in Terms, Opened(t)' \/ t = focus', NEW i \in Screen
      PROVE  Shown(display'.mem, t, focus')[i] = t
  <2>1. CASE t = focus
    <3>1. \A j \in Screen : display.mem[j] = focus
      BY ShownCell DEF MemInv
    <3> QED
      BY <1>1, <2>1, <3>1, ShownCell
  <2>2. CASE t # focus
    <3>1. Opened(t)
      BY <1>2, <2>2 DEF Opened
    <3>2. display.mem[vid_mem(t) + i] = t
      BY <2>2, <3>1, ShownCell DEF MemInv
    <3>3. display'.mem[vid_mem(t) + i] = display.mem[vid_mem(t) + i]
      BY <1>1, SavedCells
    <3> QED
      BY <2>2, <3>2, <3>3, ShownCell
  <2> QED
    BY <2>1, <2>2
<1>3. ASSUME NEW t \in Terms, NEW i \in Page(t)
      PROVE  display'.mem[i] \in {t, Nobody}
  BY <1>1, PageCells DEF MemInv
<1> QED
  BY <1>2, <1>3 DEF MemInv, Opened

LEMMA MemSwitched ==
    ASSUME MemInv, CursorInv, Procs!StacksOK, focus \in Terms, NEW u \in Terms, SwitchTo(u) \/ OpenTerminal(u)
    PROVE  MemInv'
<1>1. /\ u # focus /\ focus' = u
      /\ Saved(display.mem, display'.mem, focus)
      /\ SwitchTo(u) => \A i \in Screen : display'.mem[i] = display.mem[vid_mem(u) + i]
      /\ OpenTerminal(u) => \A i \in Screen : display'.mem[i] = u
  BY SwitchScreen
<1>2. /\ SwitchTo(u) => stack' = stack /\ Opened(u)
      /\ OpenTerminal(u) => \E s \in Slot : stack' = [stack EXCEPT ![u] = <<s>>]
  BY DEF SwitchTo, OpenTerminal, Procs!Show, Procs!Open, Opened
<1>3. \A i \in Screen : display.mem[i] = focus
  BY ShownCell DEF MemInv
<1>4. \A i \in Screen : display'.mem[i] = u
  <2>1. SwitchTo(u) => \A i \in Screen : display.mem[vid_mem(u) + i] = u
    BY <1>1, <1>2, ShownCell DEF MemInv
  <2> QED
    BY <1>1, <2>1
<1>5. \A i \in Screen : display'.mem[vid_mem(focus) + i] = focus
  BY <1>1, <1>3 DEF Saved
<1>6. ASSUME NEW t \in Terms \ {focus}, NEW j \in Page(t)
      PROVE  display'.mem[j] = display.mem[j]
  <2>1. j \in Memory \ (0 .. PAGE - 1) /\ j \notin Page(focus)
    BY PageCells
  <2>2. \A i \in Screen : vid_mem(focus) + i \in Page(focus)
    BY SavedCells
  <2> QED
    BY <1>1, <2>1, <2>2 DEF Saved
<1>7. ASSUME NEW t \in Terms, Opened(t)' \/ t = focus', NEW i \in Screen
      PROVE  Shown(display'.mem, t, focus')[i] = t
  <2>1. CASE t = u
    BY <1>1, <1>4, <2>1, ShownCell
  <2>2. CASE t = focus
    BY <1>1, <1>5, <2>2, ShownCell
  <2>3. CASE t # u /\ t # focus
    <3>1. Opened(t)
      <4>1. stack'[t] = stack[t]
        BY <1>2, <2>3 DEF Procs!StacksOK
      <4> QED
        BY <1>1, <1>7, <2>3, <4>1 DEF Opened
    <3>2. display.mem[vid_mem(t) + i] = t
      BY <2>3, <3>1, ShownCell DEF MemInv
    <3>3. display'.mem[vid_mem(t) + i] = display.mem[vid_mem(t) + i]
      BY <1>6, <2>3, SavedCells
    <3> QED
      BY <1>1, <2>3, <3>2, <3>3, ShownCell
  <2> QED
    BY <2>1, <2>2, <2>3
<1>8. ASSUME NEW t \in Terms, NEW j \in Page(t)
      PROVE  display'.mem[j] \in {t, Nobody}
  <2>1. CASE t # focus
    BY <1>6, <2>1 DEF MemInv
  <2>2. CASE t = focus
    <3>1. CASE \E i \in Screen : j = vid_mem(focus) + i
      BY <1>5, <2>2, <3>1
    <3>2. CASE \A i \in Screen : j # vid_mem(focus) + i
      <4>1. display'.mem[j] = display.mem[j]
        BY <1>1, <3>2, PageCells DEF Saved
      <4> QED
        BY <4>1 DEF MemInv
    <3> QED
      BY <3>1, <3>2
  <2> QED
    BY <2>1, <2>2
<1> QED
  BY <1>7, <1>8 DEF MemInv, Opened

(* A step is a switch, or it stays on the terminal on the screen.           *)
LEMMA StepKinds ==
    ASSUME ReachInv, CursorInv, Careful, [Next]_vars
    PROVE  \/ \E u \in Terms : SwitchTo(u) \/ OpenTerminal(u)
           \/ /\ focus' = focus
              /\ Kept(display, display', focus) \/ display' = display
              /\ \A t \in Terms \ {focus} :
                    stack'[t] = stack[t] /\ term_cursor'[t] = term_cursor[t]
<1>1. CASE Boot \/ Run \/ Exit
  <2>1. focus' = focus /\ display' = display /\ term_cursor' = term_cursor
    BY <1>1 DEF Boot, Run, Exit, Procs!Open, Procs!Run, Procs!Exit, screenVars
  <2>2. \A t \in Terms \ {focus} : stack'[t] = stack[t]
    BY <1>1 DEF Boot, Run, Exit, Procs!Open, Procs!Run, Procs!Exit, ReachInv, Procs!StacksOK
  <2> QED
    BY <2>1, <2>2
<1>2. CASE vidmap \/ ReadCall \/ ReadReturns \/ (\E e \in Entries : Touch(e)) \/ UNCHANGED vars
  <2>1. UNCHANGED <<stack, focus, display, term_cursor>>
    BY <1>2 DEF vidmap, ReadCall, ReadReturns, Touch, vars, procVars, screenVars
  <2> QED
    BY <2>1
<1>3. CASE \/ terminal_write \/ Exception
           \/ PressLetter \/ PressEnter \/ PressBackspace \/ PressOther \/ ReleaseL
           \/ \E e \in Entries : \E page \in VideoPages : UserStore(e, page)
  <2>1. UNCHANGED <<stack, focus>>
    BY <1>3, Zenon DEF terminal_write, Exception, PressLetter, PressEnter, PressBackspace,
                PressOther, ReleaseL, UserStore, procVars
  <2>2. Kept(display, display', focus)
    BY <1>3, ScreenWork
  <2>3. \/ term_cursor' = term_cursor
        \/ term_cursor' = [term_cursor EXCEPT ![focus] = [x |-> display'.x, y |-> display'.y]]
    BY <1>3, Zenon DEF terminal_write, Exception, PressLetter, PressEnter, PressBackspace,
                PressOther, ReleaseL, UserStore
  <2>4. \A t \in Terms \ {focus} : term_cursor'[t] = term_cursor[t]
    BY <2>3 DEF CursorInv
  <2> QED
    BY <2>1, <2>2, <2>4
<1> QED
  BY <1>1, <1>2, <1>3 DEF Next

LEMMA MemStep ==
    ASSUME ReachInv, CursorInv, MemInv, Careful, [Next]_vars
    PROVE  MemInv'
<1>1. focus \in Terms /\ Procs!StacksOK
  BY DEF ReachInv, Procs!StacksOK
<1>2. CASE \E u \in Terms : SwitchTo(u) \/ OpenTerminal(u)
  BY <1>1, <1>2, MemSwitched
<1>3. CASE ~ \E u \in Terms : SwitchTo(u) \/ OpenTerminal(u)
  BY <1>1, <1>3, StepKinds, MemKept
<1> QED
  BY <1>2, <1>3

(* Every cell a user sees, or will see when the terminal is back, was put   *)
(* there by that terminal's own programs and keys, and no terminal's output *)
(* runs on into the page another is saved in (terminal_switch in            *)
(* terminal_driver.c; putc and scroll_if_needed in lib.c).                  *)
THEOREM ScreensArePrivate == ASSUME Careful PROVE Spec => []ScreensPrivate
<1>1. MemInv => ScreensPrivate
  BY DEF MemInv, ScreensPrivate, Page
<1>2. Init => ReachInv /\ CursorInv /\ MemInv
  BY ReachInit, CursorInit, MemInit
<1>3. ReachInv /\ CursorInv /\ MemInv /\ [Next]_vars => ReachInv' /\ CursorInv' /\ MemInv'
  BY ReachStep, CursorStep, MemStep
<1> QED
  BY <1>1, <1>2, <1>3, PTL DEF Spec

LEMMA ShownSame ==
    ASSUME NEW m, NEW n, NEW t, NEW f, NEW g,
           \A i \in Screen : Shown(m, t, f)[i] = Shown(n, t, g)[i]
    PROVE  Shown(m, t, f) = Shown(n, t, g)
BY DEF Shown

(* A switch and a switch back restore screen and cursor exactly, and between*)
(* them nothing another terminal does reaches either: the copies and the    *)
(* cursor tables of terminal_switch against everything that writes video    *)
(* memory.                                                                  *)
THEOREM SwitchesLoseNothing == ASSUME Careful PROVE Spec => TerminalsIndependent
<1>1. ASSUME ReachInv, CursorInv, [Next]_vars,
             NEW t \in Terms, Opened(t), t # focus \/ focus' # focus
      PROVE  /\ Shown(display.mem, t, focus)' = Shown(display.mem, t, focus)
             /\ CursorOf(t)' = CursorOf(t)
  <2>1. focus \in Terms
    BY <1>1 DEF ReachInv, Procs!StacksOK
  <2>2. CASE ~ \E u \in Terms : SwitchTo(u) \/ OpenTerminal(u)
    <3>1. /\ focus' = focus
          /\ Kept(display, display', focus) \/ display' = display
          /\ term_cursor'[t] = term_cursor[t]
      BY <1>1, <2>2, StepKinds
    <3>2. \A i \in Screen : display'.mem[vid_mem(t) + i] = display.mem[vid_mem(t) + i]
      BY <3>1, SavedCells DEF Kept
    <3>3. \A i \in Screen : Shown(display'.mem, t, focus')[i] = Shown(display.mem, t, focus)[i]
      BY <1>1, <3>1, <3>2, ShownCell
    <3>4. Shown(display.mem, t, focus)' = Shown(display.mem, t, focus)
      BY <3>3, ShownSame
    <3> QED
      BY <1>1, <3>1, <3>4 DEF CursorOf
  <2>3. ASSUME NEW u \in Terms, SwitchTo(u) \/ OpenTerminal(u)
        PROVE  /\ Shown(display.mem, t, focus)' = Shown(display.mem, t, focus)
               /\ CursorOf(t)' = CursorOf(t)
    <3>1. /\ u # focus /\ focus' = u /\ SaveCursor
          /\ Saved(display.mem, display'.mem, focus)
          /\ SwitchTo(u) => /\ display'.x = term_cursor[u].x /\ display'.y = term_cursor[u].y
                            /\ \A i \in Screen : display'.mem[i] = display.mem[vid_mem(u) + i]
      BY <1>1, <2>1, <2>3, SwitchScreen
    <3>2. OpenTerminal(u) => t # u
      BY <1>1 DEF OpenTerminal, Procs!Open, Opened
    <3>3. /\ term_cursor'[focus] = Cursor
          /\ \A v \in Terms \ {focus} : term_cursor'[v] = term_cursor[v]
      BY <1>1, <2>1, <3>1 DEF SaveCursor, CursorInv
    <3>4. t # focus => \A i \in Screen : t # u =>
              display'.mem[vid_mem(t) + i] = display.mem[vid_mem(t) + i]
      <4>1. ASSUME t # focus, NEW i \in Screen
            PROVE  display'.mem[vid_mem(t) + i] = display.mem[vid_mem(t) + i]
        <5>1. vid_mem(t) + i \in Memory \ (0 .. PAGE - 1) /\ vid_mem(t) + i \in Page(t)
          BY SavedCells
        <5>2. \A k \in Screen : vid_mem(focus) + k \in Page(focus)
          BY <2>1, SavedCells
        <5>3. vid_mem(t) + i \notin Page(focus)
          BY <2>1, <4>1, <5>1, PageCells
        <5> QED
          BY <3>1, <5>1, <5>2, <5>3 DEF Saved
      <4> QED
        BY <4>1
    <3>5. \A i \in Screen : Shown(display'.mem, t, focus')[i] = Shown(display.mem, t, focus)[i]
      <4>1. CASE t = focus
        BY <3>1, <4>1, ShownCell DEF Saved
      <4>2. CASE t = u
        BY <2>3, <3>1, <3>2, <4>2, ShownCell
      <4>3. CASE t # focus /\ t # u
        BY <3>1, <3>4, <4>3, ShownCell
      <4> QED
        BY <4>1, <4>2, <4>3
    <3>6. Shown(display.mem, t, focus)' = Shown(display.mem, t, focus)
      BY <3>5, ShownSame
    <3>7. CursorOf(t)' = CursorOf(t)
      <4>1. CASE t = focus
        BY <3>1, <3>3, <4>1 DEF CursorOf
      <4>2. CASE t = u
        <5>1. display'.x = term_cursor[u].x /\ display'.y = term_cursor[u].y
          BY <2>3, <3>1, <3>2, <4>2
        <5>2. term_cursor[u] = [x |-> term_cursor[u].x, y |-> term_cursor[u].y]
          BY <1>1 DEF CursorInv, Points
        <5>3. Cursor' = term_cursor[u]
          BY <5>1, <5>2 DEF Cursor
        <5> QED
          BY <3>1, <4>2, <5>3 DEF CursorOf
      <4>3. CASE t # focus /\ t # u
        BY <3>1, <3>3, <4>3 DEF CursorOf
      <4> QED
        BY <4>1, <4>2, <4>3
    <3> QED
      BY <3>6, <3>7
  <2> QED
    BY <2>2, <2>3
<1>2. Init => ReachInv /\ CursorInv
  BY ReachInit, CursorInit
<1>3. ReachInv /\ CursorInv /\ [Next]_vars => ReachInv' /\ CursorInv'
  BY ReachStep, CursorStep
<1> DEFINE Independent == \A t \in Terms :
               Opened(t) /\ (t # focus \/ focus' # focus) =>
                  /\ Shown(display.mem, t, focus)' = Shown(display.mem, t, focus)
                  /\ CursorOf(t)' = CursorOf(t)
<1>4. ReachInv /\ CursorInv /\ [Next]_vars => [Independent]_vars
  BY <1>1
<1>5. TerminalsIndependent <=> [][Independent]_vars
  BY DEF TerminalsIndependent
<1> HIDE DEF Independent
<1> QED
  BY <1>2, <1>3, <1>4, <1>5, PTL DEF Spec

=============================================================================
