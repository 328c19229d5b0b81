------------------------ MODULE LineDisciplineProofs ------------------------
(***************************************************************************)
(* Theorems about LineDiscipline for any buffer, screen and number of      *)
(* terminals, when the user types while somebody waits for the line and    *)
(* switches between lines, as long a line as the buffer holds included.    *)
(***************************************************************************)
EXTENDS LineDiscipline, SequenceTheorems, TLAPS

(* Typing and switching are careful.                                        *)
Careful == Admitted \subseteq {"full_line"}

-----------------------------------------------------------------------------
(* The cursor.  Place counts the cells before it, row by row: what          *)
(* backspace has left to go back over.                                      *)
Place(c) == NUM_COLS * c.y + c.x
CursorOK(c) == c \in Cells /\ (c.y = NUM_ROWS => c.x = 0)

LEMMA Product == \A a, b \in Nat : a * b \in Nat
OBVIOUS

LEMMA Times ==
    ASSUME NEW a \in Nat, NEW b \in Nat, NEW n \in Nat, a <= b
    PROVE  n * a <= n * b
<1>1. PICK k \in Nat : b = a + k
  <2>1. b - a \in Nat /\ b = a + (b - a)
    OBVIOUS
  <2> QED
    BY <2>1
<1>2. n * b = n * a + n * k
  BY <1>1
<1>3. n * k \in Nat /\ n * a \in Nat
  BY Product
<1> QED
  BY <1>2, <1>3

LEMMA ScreenSizes ==
    /\ LINE_SIZE \in Nat /\ LINE_SIZE > 0
    /\ NUM_COLS \in Nat /\ NUM_COLS > 0 /\ NUM_ROWS \in Nat /\ NUM_ROWS > 1
    /\ LINE_SIZE <= NUM_COLS * (NUM_ROWS - 1)
    /\ NUM_TERMS \in Nat /\ NUM_TERMS > 0
BY ConstantsAssumption

LEMMA NextRow == \A y \in Nat : NUM_COLS * (y + 1) = NUM_COLS * y + NUM_COLS /\ NUM_COLS * y \in Nat
BY ScreenSizes, Product

LEMMA CellRecord ==
    ASSUME NEW x \in 0 .. NUM_COLS, NEW y \in 0 .. NUM_ROWS, y = NUM_ROWS => x = 0
    PROVE  /\ CursorOK([x |-> x, y |-> y])
           /\ Place([x |-> x, y |-> y]) = NUM_COLS * y + x
           /\ Place([x |-> x, y |-> y]) \in Nat
<1>1. NUM_COLS * y \in Nat /\ x \in Nat
  BY ScreenSizes, NextRow
<1> QED
  BY <1>1 DEF CursorOK, Cells, Place

LEMMA WrappedPlace ==
    ASSUME NEW c, CursorOK(c)
    PROVE  /\ CursorOK(Wrapped(c)) /\ Wrapped(c).x < NUM_COLS
           /\ Place(Wrapped(c)) = Place(c) /\ Place(c) \in Nat
<1>1. PICK x \in 0 .. NUM_COLS, y \in 0 .. NUM_ROWS : c = [x |-> x, y |-> y] /\ (y = NUM_ROWS => x = 0)
  BY DEF CursorOK, Cells
<1>2. Place(c) = NUM_COLS * y + x /\ Place(c) \in Nat /\ c.x = x /\ c.y = y
  BY <1>1, CellRecord
<1>3. CASE x = NUM_COLS
  <2>1. Wrapped(c) = [x |-> 0, y |-> y + 1]
    BY <1>2, <1>3, ScreenSizes DEF Wrapped
  <2>2. y + 1 \in 0 .. NUM_ROWS /\ 0 \in 0 .. NUM_COLS
    BY <1>1, <1>3, ScreenSizes
  <2>3. CursorOK(Wrapped(c)) /\ Place(Wrapped(c)) = NUM_COLS * (y + 1) + 0
    BY <2>1, <2>2, CellRecord
  <2>4. NUM_COLS * (y + 1) + 0 = NUM_COLS * y + x
    BY <1>3, NextRow, ScreenSizes
  <2>5. Wrapped(c).x < NUM_COLS
    BY <2>1, ScreenSizes
  <2> QED
    BY <1>2, <2>3, <2>4, <2>5
<1>4. CASE x # NUM_COLS
  <2>1. Wrapped(c) = c
    BY <1>2, <1>4, ScreenSizes DEF Wrapped
  <2>2. x < NUM_COLS
    BY <1>4, ScreenSizes
  <2> QED
    BY <1>2, <2>1, <2>2
<1> QED
  BY <1>3, <1>4

LEMMA ScrollPlace ==
    ASSUME NEW x \in 0 .. NUM_COLS, NEW y \in 0 .. NUM_ROWS + 1, y = NUM_ROWS + 1 => x = 0
    PROVE  LET r == scroll_if_needed([x |-> x, y |-> y]) IN
           CursorOK(r) /\ Place(r) \in Nat
           /\ (Place(r) = NUM_COLS * y + x \/ LINE_SIZE <= Place(r))
<1>1. CASE y < NUM_ROWS
  <2>1. scroll_if_needed([x |-> x, y |-> y]) = [x |-> x, y |-> y]
    BY <1>1, ScreenSizes DEF scroll_if_needed
  <2>2. y \in 0 .. NUM_ROWS /\ (y = NUM_ROWS => x = 0)
    BY <1>1, ScreenSizes
  <2> QED
    BY <2>1, <2>2, CellRecord
<1>2. CASE y >= NUM_ROWS
  <2>1. scroll_if_needed([x |-> x, y |-> y]) = [x |-> 0, y |-> y - 1]
    BY <1>2 DEF scroll_if_needed
  <2>2. y - 1 \in 0 .. NUM_ROWS /\ 0 \in 0 .. NUM_COLS /\ NUM_ROWS - 1 \in Nat /\ NUM_ROWS - 1 <= y - 1
    BY <1>2, ScreenSizes
  <2>3. /\ CursorOK([x |-> 0, y |-> y - 1])
        /\ Place([x |-> 0, y |-> y - 1]) = NUM_COLS * (y - 1) + 0
        /\ Place([x |-> 0, y |-> y - 1]) \in Nat
    BY <2>2, CellRecord
  <2>4. NUM_COLS * (NUM_ROWS - 1) <= NUM_COLS * (y - 1)
    BY <2>2, Times, ScreenSizes
  <2>5. NUM_COLS * (NUM_ROWS - 1) \in Nat /\ NUM_COLS * (y - 1) \in Nat
    BY <2>2, Product, ScreenSizes
  <2>6. LINE_SIZE <= Place([x |-> 0, y |-> y - 1])
    BY <2>3, <2>4, <2>5, ScreenSizes
  <2> QED
    BY <2>1, <2>3, <2>6
<1> QED
  BY <1>1, <1>2, ScreenSizes

(* What each key does to a cursor: no line shorter than the buffer loses its*)
(* beginning, because scrolling leaves the whole screen but a row behind.   *)
Follows(r, n) == CursorOK(r) /\ Place(r) \in Nat /\ (Place(r) = n \/ LINE_SIZE <= Place(r))

LEMMA CursorParts ==
    ASSUME NEW c, CursorOK(c)
    PROVE  /\ c.x \in 0 .. NUM_COLS /\ c.y \in 0 .. NUM_ROWS /\ (c.y = NUM_ROWS => c.x = 0)
           /\ c = [x |-> c.x, y |-> c.y]
BY DEF CursorOK, Cells

LEMMA OtherKey ==
    ASSUME NEW c, CursorOK(c)
    PROVE  Follows(scroll_if_needed(Wrapped(c)), Place(c))
<1> DEFINE w == Wrapped(c)
<1>1. CursorOK(w) /\ Place(w) = Place(c)
  BY WrappedPlace
<1> HIDE DEF w
<1>2. PICK x \in 0 .. NUM_COLS, y \in 0 .. NUM_ROWS : w = [x |-> x, y |-> y] /\ (y = NUM_ROWS => x = 0)
  BY <1>1 DEF CursorOK, Cells
<1>3. y \in 0 .. NUM_ROWS + 1 /\ y # NUM_ROWS + 1
  BY ScreenSizes
<1>4. Place(w) = NUM_COLS * y + x
  BY <1>2, CellRecord
<1> QED
  BY <1>1, <1>2, <1>3, <1>4, ScrollPlace DEF Follows, w

LEMMA LetterKey ==
    ASSUME NEW c, CursorOK(c)
    PROVE  Follows(scroll_if_needed([Wrapped(c) EXCEPT !.x = @ + 1]), Place(c) + 1)
<1> DEFINE w == Wrapped(c)
<1>1. CursorOK(w) /\ Place(w) = Place(c) /\ w.x < NUM_COLS
  BY WrappedPlace
<1> HIDE DEF w
<1>2. PICK x \in 0 .. NUM_COLS, y \in 0 .. NUM_ROWS : w = [x |-> x, y |-> y] /\ (y = NUM_ROWS => x = 0)
  BY <1>1 DEF CursorOK, Cells
<1>3. x + 1 \in 0 .. NUM_COLS /\ y \in 0 .. NUM_ROWS + 1 /\ y # NUM_ROWS + 1
  BY <1>1, <1>2, ScreenSizes
<1>4. [w EXCEPT !.x = @ + 1] = [x |-> x + 1, y |-> y]
  BY <1>2
<1>5. Place(w) = NUM_COLS * y + x /\ NUM_COLS * y \in Nat
  BY <1>2, CellRecord, NextRow
<1>6. NUM_COLS * y + (x + 1) = Place(c) + 1
  BY <1>1, <1>5
<1>7. LET r == scroll_if_needed([x |-> x + 1, y |-> y]) IN
      CursorOK(r) /\ Place(r) \in Nat /\ (Place(r) = NUM_COLS * y + (x + 1) \/ LINE_SIZE <= Place(r))
  BY <1>3, ScrollPlace
<1> QED
  BY <1>4, <1>6, <1>7 DEF Follows, w

LEMMA EnterKey ==
    ASSUME NEW c, CursorOK(c)
    PROVE  CursorOK(scroll_if_needed([x |-> 0, y |-> Wrapped(c).y + 1]))
<1>1. Wrapped(c).y \in 0 .. NUM_ROWS
  BY WrappedPlace, CursorParts
<1>2. Wrapped(c).y + 1 \in 0 .. NUM_ROWS + 1 /\ 0 \in 0 .. NUM_COLS
  BY <1>1, ScreenSizes
<1> QED
  BY <1>2, ScrollPlace

LEMMA BackspaceKey ==
    ASSUME NEW c, CursorOK(c), Place(c) > 0
    PROVE  /\ Back(Wrapped(c)) # Wrapped(c)
           /\ Follows(scroll_if_needed(Back(Wrapped(c))), Place(c) - 1)
<1> DEFINE w == Wrapped(c)
<1>1. CursorOK(w) /\ Place(w) = Place(c) /\ w.x < NUM_COLS
  BY WrappedPlace
<1> HIDE DEF w
<1>2. PICK x \in 0 .. NUM_COLS, y \in 0 .. NUM_ROWS : w = [x |-> x, y |-> y] /\ (y = NUM_ROWS => x = 0)
  BY <1>1 DEF CursorOK, Cells
<1>3. Place(w) = NUM_COLS * y + x /\ NUM_COLS * y \in Nat /\ w.x = x /\ w.y = y
  BY <1>2, CellRecord, NextRow
<1>4. CASE x # 0
  <2>1. Back(w) = [x |-> x - 1, y |-> y]
    BY <1>2, <1>4 DEF Back
  <2>2. x - 1 \in 0 .. NUM_COLS /\ y \in 0 .. NUM_ROWS + 1 /\ y # NUM_ROWS + 1
    BY <1>4, ScreenSizes
  <2>3. LET r == scroll_if_needed([x |-> x - 1, y |-> y]) IN
        CursorOK(r) /\ Place(r) \in Nat /\ (Place(r) = NUM_COLS * y + (x - 1) \/ LINE_SIZE <= Place(r))
    BY <2>2, ScrollPlace
  <2>4. NUM_COLS * y + (x - 1) = Place(c) - 1
    BY <1>1, <1>3
  <2>5. Back(w).x # w.x
    BY <2>1, <1>3
  <2> QED
    BY <2>1, <2>3, <2>4, <2>5 DEF Follows, w
<1>5. CASE x = 0
  <2>1. y # 0
    <3>1. CASE y = 0
      BY <1>1, <1>3, <1>5, <3>1, ScreenSizes
    <3> QED
      BY <3>1
  <2>2. Back(w) = [x |-> NUM_COLS - 1, y |-> y - 1]
    BY <1>3, <1>5, <2>1 DEF Back
  <2>3. NUM_COLS - 1 \in 0 .. NUM_COLS /\ y - 1 \in Nat /\ y - 1 \in 0 .. NUM_ROWS + 1 /\ y - 1 # NUM_ROWS + 1
    BY <2>1, ScreenSizes
  <2>4. LET r == scroll_if_needed([x |-> NUM_COLS - 1, y |-> y - 1]) IN
        /\ CursorOK(r) /\ Place(r) \in Nat
        /\ Place(r) = NUM_COLS * (y - 1) + (NUM_COLS - 1) \/ LINE_SIZE <= Place(r)
    BY <2>3, ScrollPlace
  <2>5. NUM_COLS * (y - 1) + (NUM_COLS - 1) = Place(c) - 1
    <3>1. (y - 1) + 1 = y
      BY <2>1
    <3>2. NUM_COLS * y = NUM_COLS * (y - 1) + NUM_COLS /\ NUM_COLS * (y - 1) \in Nat
      BY <2>3, <3>1, NextRow
    <3> QED
      BY <1>1, <1>3, <1>5, <3>2, ScreenSizes
  <2>6. Back(w).y # w.y
    BY <2>2, <1>3
  <2> QED
    BY <2>2, <2>4, <2>5, <2>6 DEF Follows, w
<1> QED
  BY <1>4, <1>5

-----------------------------------------------------------------------------
(* Lines.                                                                   *)
LineOf(b, n) == [i \in 1 .. n |-> b[i - 1]]

LEMMA LineType ==
    ASSUME NEW S, NEW b, NEW n \in Nat, \A i \in 0 .. n - 1 : b[i] \in S
    PROVE  LineOf(b, n) \in Seq(S) /\ Len(LineOf(b, n)) = n
<1>1. \A i \in 1 .. n : i - 1 \in 0 .. n - 1
  OBVIOUS
<1>2. LineOf(b, n) \in [1 .. n -> S]
  BY <1>1 DEF LineOf
<1>3. LineOf(b, n) \in Seq(S)
  BY <1>2, SeqDef
<1>4. Len(LineOf(b, n)) = n
  <2>1. DOMAIN LineOf(b, n) = 1 .. n
    BY DEF LineOf
  <2>2. DOMAIN LineOf(b, n) = 1 .. Len(LineOf(b, n)) /\ Len(LineOf(b, n)) \in Nat
    BY <1>3, LenProperties
  <2> QED
    BY <2>1, <2>2
<1> QED
  BY <1>3, <1>4

LEMMA LineAt == \A b, n : \A i \in 1 .. n : LineOf(b, n)[i] = b[i - 1]
BY DEF LineOf

LEMMA NoLine == \A b : LineOf(b, 0) = <<>>
<1>1. \A b : LineOf(b, 0) = [i \in {} |-> b[i - 1]]
  BY DEF LineOf
<1> QED
  BY <1>1

LEMMA LineTyped ==
    ASSUME NEW b \in Lines, NEW n \in 0 .. LINE_SIZE - 1, NEW c \in Chars
    PROVE  Append(LineOf(b, n), c) = LineOf([b EXCEPT ![n] = c], n + 1)
<1> DEFINE d == [b EXCEPT ![n] = c]
<1>1. n \in Nat /\ n + 1 \in Nat /\ n < LINE_SIZE
  BY ScreenSizes
<1>2. d[n] = c /\ \A i \in 0 .. n - 1 : d[i] = b[i] /\ d[i] \in Chars
  BY <1>1, ScreenSizes DEF Lines
<1>3. \A i \in 0 .. (n + 1) - 1 : d[i] \in Chars
  BY <1>1, ScreenSizes DEF Lines
<1> HIDE DEF d
<1>4. LineOf(d, n + 1) \in Seq(Chars) /\ Len(LineOf(d, n + 1)) = n + 1
  BY <1>1, <1>3, LineType
<1>5. LineOf(b, n) \in Seq(Chars) /\ Len(LineOf(b, n)) = n
  <2>1. \A i \in 0 .. n - 1 : b[i] \in Chars
    BY <1>2
  <2> QED
    BY <1>1, <2>1, LineType
<1>6. /\ Append(LineOf(b, n), c) \in Seq(Chars)
      /\ Len(Append(LineOf(b, n), c)) = n + 1
      /\ \A i \in 1 .. n : Append(LineOf(b, n), c)[i] = LineOf(b, n)[i]
      /\ Append(LineOf(b, n), c)[n + 1] = c
  BY <1>5, AppendProperties
<1>7. \A i \in 1 .. n + 1 : (i \in 1 .. n /\ i - 1 \in 0 .. n - 1) \/ (i = n + 1 /\ i - 1 = n)
  BY <1>1
<1>8. \A i \in 1 .. n + 1 : Append(LineOf(b, n), c)[i] = LineOf(d, n + 1)[i]
  <2>1. ASSUME NEW i \in 1 .. n + 1
        PROVE  Append(LineOf(b, n), c)[i] = LineOf(d, n + 1)[i]
    <3>1. LineOf(d, n + 1)[i] = d[i - 1]
      BY LineAt
    <3>2. CASE i = n + 1 /\ i - 1 = n
      BY <1>2, <1>6, <3>1, <3>2
    <3>3. CASE i \in 1 .. n /\ i - 1 \in 0 .. n - 1
      <4>1. LineOf(b, n)[i] = b[i - 1]
        BY <3>3, LineAt
      <4> QED
        BY <1>2, <1>6, <3>1, <3>3, <4>1
    <3> QED
      BY <1>7, <3>2, <3>3
  <2> QED
    BY <2>1
<1> QED
  BY <1>4, <1>6, <1>8, SeqEqual DEF d

LEMMA LineErased ==
    ASSUME NEW S, NEW b, NEW n \in Nat, n > 0, \A i \in 0 .. n - 1 : b[i] \in S
    PROVE  Front(LineOf(b, n)) = LineOf(b, n - 1)
<1>1. LineOf(b, n) \in Seq(S) /\ Len(LineOf(b, n)) = n
  BY LineType
<1>2. LineOf(b, n - 1) \in Seq(S) /\ Len(LineOf(b, n - 1)) = n - 1
  <2>1. n - 1 \in Nat /\ \A i \in 0 .. (n - 1) - 1 : b[i] \in S
    OBVIOUS
  <2> QED
    BY <2>1, LineType
<1>3. Front(LineOf(b, n)) = SubSeq(LineOf(b, n), 1, n - 1)
  BY <1>1 DEF Front
<1>4. /\ SubSeq(LineOf(b, n), 1, n - 1) \in Seq(S)
      /\ Len(SubSeq(LineOf(b, n), 1, n - 1)) = n - 1
      /\ \A i \in 1 .. n - 1 : SubSeq(LineOf(b, n), 1, n - 1)[i] = LineOf(b, n)[i]
  BY <1>1
<1>5. \A i \in 1 .. n - 1 : LineOf(b, n)[i] = LineOf(b, n - 1)[i]
  BY DEF LineOf
<1> QED
  BY <1>2, <1>3, <1>4, <1>5, SeqEqual

-----------------------------------------------------------------------------
(* The invariant.                                                           *)
Here == current_terminal

(* Reads ask for one character, or for more than a line can have.           *)
WholeLines == \A n \in Sizes : n = 1 \/ n > LINE_SIZE

(* As many cells lie before the cursor as the line has characters, so       *)
(* backspace always finds one to go back to.                                *)
CursorInv ==
    /\ CursorOK(cursor)
    /\ \A t \in Terms : CursorOK(term_cursor[t])
    /\ length_typed <= Place(cursor)

(* One line at a time: a line is begun only while its terminal's process    *)
(* waits, and nobody leaves before it has been read.                        *)
TypingInv ==
    /\ typed[Here] = LineOf(input_buffer, length_typed)
    /\ \A t \in Terms \ {Here} : typed[t] = <<>> /\ pc[t] \in {"user", "spin"}
    /\ length_typed > 0 => pc[Here] = "spin" /\ ~can_read
    /\ can_read => pc[Here] \in {"spin", "terminate", "copy", "clear"}
    /\ pc[Here] \in {"terminate", "copy", "clear"} => can_read

(* What each step of terminal_read has in hand.                             *)
ReadInv ==
    /\ can_read =>
          /\ Len(entered[Here]) = old_length_typed
          /\ \A i \in 1 .. old_length_typed : temp_buffer[i - 1] = entered[Here][i]
    /\ \A t \in Terms : pc[t] # "user" => nbytes[t] \in Sizes
    /\ pc[Here] = "copy" =>
          temp_buffer[old_length_typed] = NL /\ whole[Here] = (1 < nbytes[Here])
    /\ WholeLines /\ pc[Here] \in {"clear", "flush"} =>
          buf[Here] = Delivered(entered[Here], nbytes[Here])

Inv == TypeOK /\ CursorInv /\ TypingInv /\ ReadInv

LEMMA Waiting ==
    ASSUME Inv, Careful
    PROVE  /\ Typing => pc[Here] = "spin" /\ ~can_read
           /\ Awaited \/ "type_ahead" \in Admitted => pc[Here] = "spin" /\ ~can_read
           /\ BetweenLines \/ "switch_mid_line" \in Admitted =>
                 /\ length_typed = 0 /\ ~can_read /\ pc[Here] \in {"user", "spin"}
                 /\ typed[Here] = <<>>
<1>1. "type_ahead" \notin Admitted /\ "switch_mid_line" \notin Admitted
  BY DEF Careful
<1>2. length_typed = 0 => typed[Here] = <<>>
  BY NoLine DEF Inv, TypingInv
<1> QED
  BY <1>1, <1>2 DEF Typing, Awaited, BetweenLines, Here

LEMMA CursorStep ==
    ASSUME Inv, Careful, [Next]_vars
    PROVE  CursorInv'
<1>1. /\ CursorOK(cursor) /\ \A t \in Terms : CursorOK(term_cursor[t])
      /\ length_typed <= Place(cursor)
      /\ length_typed \in 0 .. LINE_SIZE /\ LINE_SIZE \in Nat
      /\ Place(cursor) \in Nat /\ term_cursor \in [Terms -> Cells] /\ Here \in Terms
  BY WrappedPlace, ScreenSizes DEF Inv, CursorInv, TypeOK, Here
<1>2. ASSUME NEW r, NEW n \in Nat, Follows(r, n), cursor' = r,
             length_typed' <= n, length_typed' \in 0 .. LINE_SIZE, UNCHANGED term_cursor
      PROVE  CursorInv'
  BY <1>1, <1>2 DEF Follows, CursorInv
<1>3. CASE \E c \in Letters : PressLetter(c)
  <2>1. CASE length_typed < LINE_SIZE
    <3>1. /\ cursor' = scroll_if_needed([Wrapped(cursor) EXCEPT !.x = @ + 1])
          /\ length_typed' = length_typed + 1 /\ UNCHANGED term_cursor
      BY <1>3, <2>1 DEF PressLetter, savedVars
    <3>2. Follows(cursor', Place(cursor) + 1)
      BY <1>1, <3>1, LetterKey
    <3>3. length_typed' <= Place(cursor) + 1 /\ length_typed' \in 0 .. LINE_SIZE
      BY <1>1, <2>1, <3>1
    <3> QED
      BY <1>1, <1>2, <3>1, <3>2, <3>3
  <2>2. CASE ~(length_typed < LINE_SIZE)
    <3>1. /\ cursor' = scroll_if_needed(Wrapped(cursor))
          /\ length_typed' = length_typed /\ UNCHANGED term_cursor
      BY <1>3, <2>2 DEF PressLetter, savedVars
    <3>2. Follows(cursor', Place(cursor))
      BY <1>1, <3>1, OtherKey
    <3> QED
      BY <1>1, <1>2, <3>1, <3>2
  <2> QED
    BY <2>1, <2>2
<1>4. CASE PressEnter
  <2>1. /\ cursor' = scroll_if_needed([x |-> 0, y |-> Wrapped(cursor).y + 1])
        /\ length_typed' = 0 /\ UNCHANGED term_cursor
    BY <1>4 DEF PressEnter, flush, savedVars
  <2>2. CursorOK(cursor')
    BY <1>1, <2>1, EnterKey
  <2>3. Place(cursor') \in Nat
    BY <2>2, WrappedPlace
  <2> QED
    BY <1>1, <2>1, <2>2, <2>3 DEF CursorInv
<1>5. CASE PressBackspace
  <2>1. CASE length_typed > 0
    <3>1. /\ cursor' = scroll_if_needed(Back(Wrapped(cursor)))
          /\ length_typed' = Erased(Wrapped(cursor)) /\ UNCHANGED term_cursor
      BY <1>5, <2>1 DEF PressBackspace, savedVars
    <3>2. Place(cursor) > 0
      BY <1>1, <2>1
    <3>3. Follows(cursor', Place(cursor) - 1) /\ length_typed' = length_typed - 1
      BY <1>1, <3>1, <3>2, BackspaceKey DEF Erased
    <3>4. /\ Place(cursor) - 1 \in Nat /\ length_typed' <= Place(cursor) - 1
          /\ length_typed' \in 0 .. LINE_SIZE
      BY <1>1, <2>1, <3>2, <3>3
    <3> QED
      BY <1>2, <3>1, <3>3, <3>4
  <2>2. CASE ~(length_typed > 0)
    <3>1. /\ cursor' = scroll_if_needed(Wrapped(cursor))
          /\ length_typed' = length_typed /\ UNCHANGED term_cursor
      BY <1>5, <2>2 DEF PressBackspace, savedVars
    <3>2. Follows(cursor', Place(cursor))
      BY <1>1, <3>1, OtherKey
    <3> QED
      BY <1>1, <1>2, <3>1, <3>2
  <2> QED
    BY <2>1, <2>2
<1>6. CASE PressModifier
  <2>1. /\ cursor' = scroll_if_needed(Wrapped(cursor))
        /\ length_typed' = length_typed /\ UNCHANGED term_cursor
    BY <1>6 DEF PressModifier, savedVars
  <2>2. Follows(cursor', Place(cursor))
    BY <1>1, <2>1, OtherKey
  <2> QED
    BY <1>1, <1>2, <2>1, <2>2
<1>7. CASE ReleaseL
  <2>1. cursor' = [x |-> 0, y |-> 0] /\ length_typed' = 0 /\ UNCHANGED term_cursor
    BY <1>7 DEF ReleaseL, flush, savedVars
  <2>2. CursorOK(cursor') /\ Place(cursor') \in Nat
    BY <2>1, CellRecord, ScreenSizes
  <2> QED
    BY <1>1, <2>1, <2>2 DEF CursorInv
<1>8. ASSUME NEW t \in Terms, SwitchTo(t) \/ OpenTerminal(t)
      PROVE  CursorInv'
  <2>1. length_typed = 0
    BY <1>8, Waiting DEF SwitchTo, OpenTerminal
  <2>2. /\ length_typed' = length_typed
        /\ term_cursor' = [term_cursor EXCEPT ![Here] = cursor]
        /\ cursor' = term_cursor[t] \/ cursor' = [x |-> 0, y |-> 0]
    BY <1>8 DEF SwitchTo, OpenTerminal, SaveLine, Here
  <2>3. CursorOK([x |-> 0, y |-> 0])
    BY CellRecord, ScreenSizes
  <2>4. CursorOK(cursor') /\ \A u \in Terms : CursorOK(term_cursor'[u])
    BY <1>1, <2>2, <2>3
  <2>5. Place(cursor') \in Nat
    BY <2>4, WrappedPlace
  <2> QED
    BY <2>1, <2>2, <2>4, <2>5 DEF CursorInv
<1>9. CASE terminal_write
  <2>1. PICK c \in [x : 0 .. NUM_COLS - 1, y : 0 .. NUM_ROWS - 1] :
            cursor' = c /\ term_cursor' = [term_cursor EXCEPT ![Here] = c]
    BY <1>9 DEF terminal_write, Here
  <2>2. length_typed' = 0
    BY <1>9 DEF terminal_write, flush
  <2>3. CursorOK(c)
    BY ScreenSizes DEF CursorOK, Cells
  <2>4. Place(cursor') \in Nat
    BY <2>1, <2>3, WrappedPlace
  <2> QED
    BY <1>1, <2>1, <2>2, <2>3, <2>4 DEF CursorInv
<1>10. CASE Return
  <2>1. length_typed' = 0 /\ UNCHANGED <<cursor, term_cursor>>
    BY <1>10 DEF Return, flush, savedVars
  <2> QED
    BY <1>1, <2>1 DEF CursorInv
<1>11. CASE Release \/ ReadCall \/ SeeLine \/ Terminate \/ Copy \/ ClearCanRead \/ UNCHANGED vars
  <2>1. UNCHANGED <<length_typed, cursor, term_cursor>>
    BY <1>11, Zenon DEF Release, ReadCall, SeeLine, Terminate, Copy, ClearCanRead, vars, keyboardVars, savedVars
  <2> QED
    BY <1>1, <2>1 DEF CursorInv
<1> QED
  BY <1>3, <1>4, <1>5, <1>6, <1>7, <1>8, <1>9, <1>10, <1>11 DEF Next, ReadStep

(* What a backspace does to the line.                                       *)
LEMMA BackspaceErases ==
    ASSUME Inv, PressBackspace
    PROVE  length_typed' = IF length_typed > 0 THEN length_typed - 1 ELSE 0
<1>1. CursorOK(cursor) /\ length_typed <= Place(cursor) /\ length_typed \in Nat /\ Place(cursor) \in Nat
  BY WrappedPlace, ScreenSizes DEF Inv, CursorInv, TypeOK
<1>2. CASE length_typed > 0
  <2>1. length_typed' = Erased(Wrapped(cursor)) /\ Place(cursor) > 0
    BY <1>1, <1>2 DEF PressBackspace
  <2>2. Back(Wrapped(cursor)) # Wrapped(cursor)
    BY <1>1, <2>1, BackspaceKey
  <2> QED
    BY <1>2, <2>1, <2>2 DEF Erased
<1>3. CASE ~(length_typed > 0)
  BY <1>1, <1>3 DEF PressBackspace
<1> QED
  BY <1>2, <1>3

LEMMA TypingStep ==
    ASSUME Inv, Careful, [Next]_vars
    PROVE  TypingInv'
<1>1. /\ Here \in Terms /\ length_typed \in 0 .. LINE_SIZE /\ length_typed \in Nat
      /\ input_buffer \in [0 .. LINE_SIZE - 1 -> Chars]
      /\ typed \in [Terms -> Seq(Letters)] /\ pc \in [Terms -> ReadSteps]
      /\ typed[Here] = LineOf(input_buffer, length_typed)
      /\ LINE_SIZE \in Nat
  BY ScreenSizes DEF Inv, TypeOK, TypingInv, Here, Lines
<1>2. /\ \A t \in Terms \ {Here} : typed[t] = <<>> /\ pc[t] \in {"user", "spin"}
      /\ length_typed > 0 => pc[Here] = "spin" /\ ~can_read
      /\ can_read => pc[Here] \in {"spin", "terminate", "copy", "clear"}
      /\ pc[Here] \in {"terminate", "copy", "clear"} => can_read
  BY DEF Inv, TypingInv
<1>3. length_typed = 0 => typed[Here] = <<>>
  BY <1>1, NoLine
(* A key that changes the line while somebody waits for it.                 *)
<1>4. ASSUME pc[Here] = "spin", ~can_read, UNCHANGED <<current_terminal, can_read, pc>>,
             NEW s, typed' = [typed EXCEPT ![Here] = s], s = LineOf(input_buffer', length_typed')
      PROVE  TypingInv'
  BY <1>1, <1>2, <1>4 DEF TypingInv, Here
(* A step that leaves no line begun.                                        *)
<1>5. ASSUME length_typed' = 0, UNCHANGED current_terminal,
             typed' = [typed EXCEPT ![Here] = <<>>] \/ (typed' = typed /\ length_typed = 0),
             NEW q \in ReadSteps, pc' = [pc EXCEPT ![Here] = q],
             can_read' => q \in {"spin", "terminate", "copy", "clear"},
             q \in {"terminate", "copy", "clear"} => can_read'
      PROVE  TypingInv'
  <2>1. typed'[Here] = <<>> /\ \A t \in Terms \ {Here} : typed'[t] = typed[t]
    BY <1>1, <1>3, <1>5
  <2>2. typed'[Here] = LineOf(input_buffer', length_typed')
    BY <1>5, <2>1, NoLine
  <2>3. pc'[Here] = q /\ \A t \in Terms \ {Here} : pc'[t] = pc[t]
    BY <1>1, <1>5
  <2>4. Here' = Here /\ ~(length_typed' > 0)
    BY <1>5 DEF Here
  <2> QED
    BY <1>2, <1>5, <2>1, <2>2, <2>3, <2>4 DEF TypingInv
<1>6. pc = [pc EXCEPT ![Here] = pc[Here]] /\ pc[Here] \in ReadSteps
  BY <1>1
<1>7. CASE \E c \in Letters : PressLetter(c)
  <2>1. PICK c \in Letters : PressLetter(c)
    BY <1>7
  <2>2. /\ pc[Here] = "spin" /\ ~can_read
        /\ UNCHANGED <<current_terminal, can_read, pc>>
    BY <2>1, Waiting DEF PressLetter, lineVars, readVars
  <2>3. CASE length_typed < LINE_SIZE
    <3>1. /\ input_buffer' = [input_buffer EXCEPT ![length_typed] = c]
          /\ length_typed' = length_typed + 1
          /\ typed' = [typed EXCEPT ![Here] = Append(typed[Here], c)]
      BY <2>1, <2>3 DEF PressLetter, Here
    <3>2. length_typed \in 0 .. LINE_SIZE - 1 /\ c \in Chars
      BY <1>1, <2>3 DEF Chars
    <3>3. Append(LineOf(input_buffer, length_typed), c)
             = LineOf([input_buffer EXCEPT ![length_typed] = c], length_typed + 1)
      <4>1. input_buffer \in Lines
        BY <1>1 DEF Lines
      <4> QED
        BY <3>2, <4>1, LineTyped
    <3>4. Append(typed[Here], c) = LineOf(input_buffer', length_typed')
      BY <1>1, <3>1, <3>3, Zenon
    <3> QED
      BY <1>4, <2>2, <3>1, <3>4
  <2>4. CASE ~(length_typed < LINE_SIZE)
    <3>1. UNCHANGED <<input_buffer, length_typed, typed>>
      BY <2>1, <2>4 DEF PressLetter
    <3> QED
      BY <1>1, <1>2, <2>2, <3>1 DEF TypingInv, Here
  <2> QED
    BY <2>3, <2>4
<1>8. CASE PressEnter
  <2>1. /\ pc[Here] = "spin" /\ UNCHANGED <<current_terminal, pc>> /\ length_typed' = 0
        /\ typed' = [typed EXCEPT ![Here] = <<>>]
    BY <1>8, Waiting DEF PressEnter, flush, readVars, Here
  <2> QED
    BY <1>5, <1>6, <2>1
<1>9. CASE PressBackspace
  <2>1. /\ pc[Here] = "spin" /\ ~can_read
        /\ UNCHANGED <<current_terminal, can_read, pc, input_buffer>>
    BY <1>9, Waiting DEF PressBackspace, lineVars, readVars
  <2>2. typed' = [typed EXCEPT ![Here] = IF typed[Here] = <<>> THEN typed[Here] ELSE Front(typed[Here])]
    BY <1>9 DEF PressBackspace, Here
  <2>3. CASE length_typed > 0
    <3>1. length_typed' = length_typed - 1
      BY <1>9, <2>3, BackspaceErases
    <3>2. \A i \in 0 .. length_typed - 1 : input_buffer[i] \in Chars
      BY <1>1
    <3>3. Len(typed[Here]) = length_typed
      <4>1. Len(LineOf(input_buffer, length_typed)) = length_typed
        BY <1>1, <3>2, LineType
      <4> QED
        BY <1>1, <4>1
    <3>4. typed[Here] # <<>>
      BY <2>3, <3>3, EmptySeq
    <3>5. Front(typed[Here]) = LineOf(input_buffer', length_typed')
      BY <1>1, <2>1, <2>3, <3>1, <3>2, LineErased
    <3> QED
      BY <1>4, <2>1, <2>2, <3>4, <3>5
  <2>4. CASE ~(length_typed > 0)
    <3>1. length_typed = 0 /\ length_typed' = 0
      BY <1>1, <1>9, <2>4, BackspaceErases
    <3>2. typed[Here] = <<>>
      BY <1>3, <3>1
    <3> QED
      BY <1>4, <2>1, <2>2, <3>1, <3>2, NoLine
  <2> QED
    BY <2>3, <2>4
<1>10. CASE ReleaseL
  <2>1. /\ pc[Here] = "spin" /\ ~can_read
        /\ UNCHANGED <<current_terminal, can_read, pc>> /\ length_typed' = 0
        /\ typed' = [typed EXCEPT ![Here] = <<>>]
    BY <1>10, Waiting DEF ReleaseL, flush, lineVars, readVars, Here
  <2> QED
    BY <1>4, <2>1, NoLine
<1>11. ASSUME NEW t \in Terms, SwitchTo(t) \/ OpenTerminal(t)
       PROVE  TypingInv'
  <2>1. /\ length_typed = 0 /\ ~can_read /\ pc[Here] \in {"user", "spin"} /\ typed[Here] = <<>>
    BY <1>11, Waiting DEF SwitchTo, OpenTerminal
  <2>2. /\ current_terminal' = t /\ t # Here
        /\ UNCHANGED <<length_typed, can_read, pc, typed>>
    BY <1>11 DEF SwitchTo, OpenTerminal, lineVars, readVars, historyVars, Here
  <2>3. typed[t] = LineOf(input_buffer', 0)
    BY <1>2, <2>2, NoLine
  <2>4. \A u \in Terms \ {t} : typed[u] = <<>> /\ pc[u] \in {"user", "spin"}
    BY <1>2, <2>1
  <2> QED
    BY <1>2, <2>1, <2>2, <2>3, <2>4 DEF TypingInv, Here
<1>12. CASE terminal_write
  <2>1. /\ pc[Here] = "user" /\ UNCHANGED <<current_terminal, can_read, pc>> /\ length_typed' = 0
        /\ typed' = [typed EXCEPT ![Here] = <<>>]
    BY <1>12 DEF terminal_write, At, flush, lineVars, readVars, Here
  <2> QED
    BY <1>2, <1>5, <1>6, <2>1
<1>13. CASE ReadCall \/ SeeLine \/ Terminate \/ Copy \/ ClearCanRead \/ Return
  <2>1. \/ ReadCall /\ pc[Here] = "user" /\ pc' = [pc EXCEPT ![Here] = "spin"] /\ can_read' = can_read
        \/ SeeLine /\ can_read /\ pc' = [pc EXCEPT ![Here] = "terminate"] /\ can_read' = can_read
        \/ Terminate /\ pc[Here] = "terminate" /\ pc' = [pc EXCEPT ![Here] = "copy"] /\ can_read' = can_read
        \/ Copy /\ pc[Here] = "copy" /\ pc' = [pc EXCEPT ![Here] = "clear"] /\ can_read' = can_read
        \/ ClearCanRead /\ pc[Here] = "clear" /\ pc' = [pc EXCEPT ![Here] = "flush"] /\ can_read' = FALSE
        \/ Return /\ pc[Here] = "flush" /\ pc' = [pc EXCEPT ![Here] = "user"] /\ can_read' = can_read
    <3>1. ReadCall => pc[Here] = "user" /\ pc' = [pc EXCEPT ![Here] = "spin"] /\ can_read' = can_read
      BY DEF ReadCall, At, Goto, Here, lineVars
    <3>2. SeeLine => can_read /\ pc' = [pc EXCEPT ![Here] = "terminate"] /\ can_read' = can_read
      BY DEF SeeLine, At, Goto, Here, lineVars
    <3>3. Terminate => pc[Here] = "terminate" /\ pc' = [pc EXCEPT ![Here] = "copy"] /\ can_read' = can_read
      BY DEF Terminate, At, Goto, Here
    <3>4. Copy => pc[Here] = "copy" /\ pc' = [pc EXCEPT ![Here] = "clear"] /\ can_read' = can_read
      BY DEF Copy, At, Goto, Here, lineVars
    <3>5. ClearCanRead => pc[Here] = "clear" /\ pc' = [pc EXCEPT ![Here] = "flush"] /\ can_read' = FALSE
      BY DEF ClearCanRead, At, Goto, Here
    <3>6. Return => pc[Here] = "flush" /\ pc' = [pc EXCEPT ![Here] = "user"] /\ can_read' = can_read
      BY DEF Return, At, Goto, Here, lineVars
    <3> QED
      BY <1>13, <3>1, <3>2, <3>3, <3>4, <3>5, <3>6
  <2>2. UNCHANGED <<current_terminal, typed>> /\ (length_typed' = length_typed \/ length_typed' = 0)
    BY <1>13, Zenon DEF ReadCall, SeeLine, Terminate, Copy, ClearCanRead, Return, flush, keyboardVars, historyVars
  <2>3. ~(length_typed > 0)
    BY <1>2, <2>1
  <2>4. length_typed = 0 /\ length_typed' = 0
    BY <1>1, <2>2, <2>3
  <2>5. PICK q \in ReadSteps :
            /\ pc' = [pc EXCEPT ![Here] = q]
            /\ can_read' => q \in {"spin", "terminate", "copy", "clear"}
            /\ q \in {"terminate", "copy", "clear"} => can_read'
    BY <1>2, <2>1 DEF ReadSteps
  <2> QED
    BY <1>5, <2>2, <2>4, <2>5
<1>14. CASE PressModifier \/ Release \/ UNCHANGED vars
  <2>1. UNCHANGED <<current_terminal, typed, input_buffer, length_typed, can_read, pc>>
    BY <1>14, Zenon DEF PressModifier, Release, vars, keyboardVars, lineVars, readVars, historyVars
  <2> QED
    BY <1>1, <1>2, <2>1 DEF TypingInv, Here
<1> QED
  BY <1>7, <1>8, <1>9, <1>10, <1>11, <1>12, <1>13, <1>14 DEF Next, ReadStep

(* The line that is copied, with its newline, is the line delivered.        *)
LEMMA CopyDelivers ==
    ASSUME NEW b, NEW e \in Seq(Letters), NEW n \in Nat, NEW m \in Nat \ {0}, Len(e) = n,
           \A i \in 1 .. n : b[i - 1] = e[i], b[n] = NL
    PROVE  LineOf(b, IF m < n + 1 THEN m ELSE n + 1) = Delivered(e, m)
<1> DEFINE S   == Letters \cup {NL}
           all == Append(e, NL)
           k   == IF m < n + 1 THEN m ELSE n + 1
<1>1. /\ all \in Seq(S) /\ Len(all) = n + 1
      /\ \A i \in 1 .. n : all[i] = e[i]
      /\ all[n + 1] = NL
  <2>1. e \in Seq(S) /\ NL \in S
    OBVIOUS
  <2> HIDE DEF S
  <2> QED
    BY <2>1, AppendProperties
<1>2. k \in Nat /\ k <= n + 1
  OBVIOUS
<1>3. Delivered(e, m) = SubSeq(all, 1, k)
  BY <1>1 DEF Delivered
<1> HIDE DEF S, all, k
<1>4. \A i \in 1 .. n + 1 : all[i] = b[i - 1]
  <2>1. ASSUME NEW i \in 1 .. n + 1 PROVE all[i] = b[i - 1]
    <3>1. CASE i = n + 1
      <4>1. i - 1 = n
        BY <3>1
      <4> QED
        BY <1>1, <3>1, <4>1
    <3>2. CASE i \in 1 .. n
      BY <1>1, <3>2
    <3> QED
      BY <3>1, <3>2
  <2> QED
    BY <2>1
<1>5. \A i \in 1 .. k : i \in 1 .. n + 1 /\ all[i] \in S
  BY <1>1, <1>2, ElementOfSeq
<1>6. /\ SubSeq(all, 1, k) \in Seq(S) /\ Len(SubSeq(all, 1, k)) = k
      /\ \A i \in 1 .. k : SubSeq(all, 1, k)[i] = all[i]
  BY <1>1, <1>2
<1>7. LineOf(b, k) \in Seq(S) /\ Len(LineOf(b, k)) = k
  <2>1. \A i \in 0 .. k - 1 : b[i] \in S
    <3>1. ASSUME NEW i \in 0 .. k - 1 PROVE b[i] \in S
      <4>1. i + 1 \in 1 .. k /\ (i + 1) - 1 = i
        BY <1>2
      <4>2. all[i + 1] = b[(i + 1) - 1] /\ all[i + 1] \in S
        BY <1>4, <1>5, <4>1
      <4> QED
        BY <4>1, <4>2
    <3> QED
      BY <3>1
  <2> QED
    BY <1>2, <2>1, LineType
<1>8. \A i \in 1 .. k : LineOf(b, k)[i] = SubSeq(all, 1, k)[i]
  BY <1>4, <1>5, <1>6, LineAt
<1> QED
  BY <1>3, <1>6, <1>7, <1>8, SeqEqual DEF k

LEMMA ReadStepKeeps ==
    ASSUME Inv, Careful, [Next]_vars
    PROVE  ReadInv'
<1>1. /\ Here \in Terms /\ length_typed \in Nat /\ LINE_SIZE \in Nat /\ LINE_SIZE > 0
      /\ old_length_typed \in 0 .. LINE_SIZE /\ length_typed \in 0 .. LINE_SIZE
      /\ input_buffer \in Lines /\ pc \in [Terms -> ReadSteps]
      /\ temp_buffer \in [0 .. LINE_SIZE -> Chars \cup {NL, Beyond}]
      /\ nbytes \in [Terms -> Sizes \cup {0}] /\ whole \in [Terms -> BOOLEAN]
      /\ buf \in [Terms -> Seq(Chars \cup {NL, Beyond})]
      /\ typed \in [Terms -> Seq(Letters)] /\ entered \in [Terms -> Seq(Letters)]
      /\ Sizes \subseteq Nat \ {0}
  BY ScreenSizes, ConstantsAssumption DEF Inv, TypeOK, Here
<1>2. /\ length_typed > 0 => pc[Here] = "spin" /\ ~can_read
      /\ can_read => pc[Here] \in {"spin", "terminate", "copy", "clear"}
      /\ pc[Here] \in {"terminate", "copy", "clear"} => can_read
      /\ \A t \in Terms \ {Here} : pc[t] \in {"user", "spin"}
      /\ typed[Here] = LineOf(input_buffer, length_typed)
  BY DEF Inv, TypingInv
<1>3. /\ can_read => /\ Len(entered[Here]) = old_length_typed
                     /\ \A i \in 1 .. old_length_typed : temp_buffer[i - 1] = entered[Here][i]
      /\ \A t \in Terms : pc[t] # "user" => nbytes[t] \in Sizes
      /\ pc[Here] = "copy" => temp_buffer[old_length_typed] = NL /\ whole[Here] = (1 < nbytes[Here])
      /\ WholeLines /\ pc[Here] \in {"clear", "flush"} =>
            buf[Here] = Delivered(entered[Here], nbytes[Here])
  BY DEF Inv, ReadInv
<1>4. ASSUME UNCHANGED <<current_terminal, can_read, entered, temp_buffer, old_length_typed,
                         pc, nbytes, whole, buf>>
      PROVE  ReadInv'
  BY <1>3, <1>4 DEF ReadInv, Here
<1>5. CASE \/ (\E c \in Letters : PressLetter(c)) \/ PressBackspace \/ PressModifier
           \/ Release \/ ReleaseL \/ terminal_write \/ UNCHANGED vars
  <2>1. UNCHANGED <<current_terminal, can_read, entered, temp_buffer, old_length_typed,
                    pc, nbytes, whole, buf>>
    BY <1>5, Zenon DEF PressLetter, PressBackspace, PressModifier, Release, ReleaseL,
       terminal_write, vars, lineVars, readVars, historyVars
  <2> QED
    BY <1>4, <2>1
<1>6. CASE PressEnter
  <2>1. /\ pc[Here] = "spin" /\ UNCHANGED <<current_terminal, pc, nbytes, whole, buf>>
        /\ temp_buffer' = [i \in 0 .. LINE_SIZE |->
                               IF i < LINE_SIZE THEN input_buffer[i] ELSE temp_buffer[i]]
        /\ old_length_typed' = length_typed
        /\ entered' = [entered EXCEPT ![Here] = typed[Here]]
    BY <1>6, Waiting DEF PressEnter, FinishLine, readVars, Here
  <2>2. entered'[Here] = LineOf(input_buffer, length_typed)
    BY <1>1, <1>2, <2>1
  <2>3. Len(entered'[Here]) = old_length_typed'
    <3>1. \A i \in 0 .. length_typed - 1 : input_buffer[i] \in Chars
      BY <1>1 DEF Lines
    <3>2. Len(LineOf(input_buffer, length_typed)) = length_typed
      BY <1>1, <3>1, LineType
    <3> QED
      BY <2>1, <2>2, <3>2
  <2>4. ASSUME NEW i \in 1 .. old_length_typed'
        PROVE  temp_buffer'[i - 1] = entered'[Here][i]
    <3>1. entered'[Here][i] = input_buffer[i - 1]
      BY <2>1, <2>2, LineAt
    <3>2. temp_buffer'[i - 1] = input_buffer[i - 1]
      BY <1>1, <2>1
    <3> QED
      BY <3>1, <3>2
  <2>5. Here' = Here
    BY <2>1 DEF Here
  <2> QED
    BY <1>3, <2>1, <2>3, <2>4, <2>5 DEF ReadInv
<1>7. ASSUME NEW t \in Terms, SwitchTo(t) \/ OpenTerminal(t)
      PROVE  ReadInv'
  <2>1. ~can_read /\ pc[Here] \in {"user", "spin"}
    BY <1>7, Waiting DEF SwitchTo, OpenTerminal
  <2>2. current_terminal' = t /\ t # Here /\ UNCHANGED <<can_read, pc, nbytes>>
    BY <1>7 DEF SwitchTo, OpenTerminal, lineVars, readVars, Here
  <2>3. Here' = t /\ pc'[t] \in {"user", "spin"}
    BY <1>2, <2>2 DEF Here
  <2> QED
    BY <1>3, <2>1, <2>2, <2>3 DEF ReadInv
<1>8. CASE ReadCall
  <2>1. PICK n \in Sizes : nbytes' = [nbytes EXCEPT ![Here] = n]
    BY <1>8 DEF ReadCall, Here
  <2>2. /\ pc[Here] = "user" /\ pc' = [pc EXCEPT ![Here] = "spin"]
        /\ UNCHANGED <<current_terminal, can_read>>
    BY <1>8 DEF ReadCall, At, Goto, Here, lineVars
  <2>3. ~can_read' /\ pc'[Here] = "spin" /\ Here' = Here
    BY <1>1, <1>2, <2>2 DEF Here
  <2>4. \A t \in Terms : pc'[t] # "user" => nbytes'[t] \in Sizes
    BY <1>1, <1>3, <2>1, <2>2
  <2> QED
    BY <2>3, <2>4 DEF ReadInv
<1>9. CASE SeeLine
  <2>1. /\ pc[Here] = "spin" /\ pc' = [pc EXCEPT ![Here] = "terminate"]
        /\ UNCHANGED <<current_terminal, can_read, entered, temp_buffer, old_length_typed, nbytes>>
    BY <1>9 DEF SeeLine, At, Goto, Here, lineVars, historyVars
  <2>2. pc'[Here] = "terminate" /\ Here' = Here /\ \A t \in Terms : pc'[t] # "user" => pc[t] # "user"
    BY <1>1, <2>1 DEF Here
  <2> QED
    BY <1>3, <2>1, <2>2 DEF ReadInv
<1>10. CASE Terminate
  <2>1. /\ pc[Here] = "terminate" /\ pc' = [pc EXCEPT ![Here] = "copy"]
        /\ whole' = [whole EXCEPT ![Here] = length_typed + 1 < nbytes[Here]]
        /\ temp_buffer' = [temp_buffer EXCEPT ![old_length_typed] = NL]
        /\ UNCHANGED <<current_terminal, can_read, entered, old_length_typed, nbytes>>
    BY <1>10 DEF Terminate, At, Goto, Here, NewlineAt, historyVars
  <2>2. pc'[Here] = "copy" /\ Here' = Here /\ \A t \in Terms : pc'[t] # "user" => pc[t] # "user"
    BY <1>1, <2>1 DEF Here
  <2>3. length_typed = 0
    BY <1>1, <1>2, <2>1
  <2>4. whole'[Here] = (1 < nbytes[Here])
    <3>1. whole'[Here] = (length_typed + 1 < nbytes[Here])
      BY <1>1, <2>1
    <3>2. length_typed + 1 = 1
      BY <2>3
    <3> QED
      BY <3>1, <3>2
  <2>5. temp_buffer'[old_length_typed] = NL
    BY <1>1, <2>1
  <2>6. \A i \in 1 .. old_length_typed : temp_buffer'[i - 1] = temp_buffer[i - 1]
    BY <1>1, <2>1
  <2> QED
    BY <1>3, <2>1, <2>2, <2>4, <2>5, <2>6 DEF ReadInv
<1>11. CASE Copy
  <2>1. /\ pc[Here] = "copy" /\ pc' = [pc EXCEPT ![Here] = "clear"]
        /\ buf' = [buf EXCEPT ![Here] = LineOf(temp_buffer, Count)]
        /\ UNCHANGED <<current_terminal, can_read, entered, temp_buffer, old_length_typed, nbytes>>
    BY <1>11 DEF Copy, At, Goto, Here, lineVars, historyVars, LineOf
  <2>2. pc'[Here] = "clear" /\ Here' = Here /\ \A t \in Terms : pc'[t] # "user" => pc[t] # "user"
    BY <1>1, <2>1 DEF Here
  <2>3. can_read /\ nbytes[Here] \in Sizes
    BY <1>1, <1>2, <1>3, <2>1
  <2>4. ASSUME WholeLines
        PROVE  buf'[Here] = Delivered(entered[Here], nbytes[Here])
    <3> DEFINE n == old_length_typed
               m == nbytes[Here]
    <3>1. m \in Nat \ {0} /\ n \in Nat /\ n <= LINE_SIZE /\ (m = 1 \/ m > LINE_SIZE)
      <4>1. m = 1 \/ m > LINE_SIZE
        BY <2>3, <2>4, Zenon DEF WholeLines
      <4>2. m \in Nat \ {0}
        BY <1>1, <2>3, Zenon
      <4>3. n \in Nat /\ n <= LINE_SIZE
        BY <1>1
      <4> QED
        BY <4>1, <4>2, <4>3, Zenon
    <3>2. Count = IF m < n + 1 THEN m ELSE n + 1
      <4>1. whole[Here] <=> 1 < m
        BY <1>3, <2>1
      <4>2. Count = IF 1 < m THEN n + 1 ELSE m
        BY <4>1 DEF Count, Here
      <4> QED
        BY <1>1, <3>1, <4>2
    <3>3. LineOf(temp_buffer, IF m < n + 1 THEN m ELSE n + 1) = Delivered(entered[Here], m)
      <4>1. /\ entered[Here] \in Seq(Letters) /\ Len(entered[Here]) = n /\ temp_buffer[n] = NL
            /\ \A i \in 1 .. n : temp_buffer[i - 1] = entered[Here][i]
        BY <1>1, <1>3, <2>1, <2>3
      <4>2. PICK b, e : b = temp_buffer /\ e = entered[Here]
        OBVIOUS
      <4> HIDE DEF n, m
      <4>3. /\ e \in Seq(Letters) /\ Len(e) = n /\ b[n] = NL
            /\ \A i \in 1 .. n : b[i - 1] = e[i]
        BY <4>1, <4>2
      <4>4. LineOf(b, IF m < n + 1 THEN m ELSE n + 1) = Delivered(e, m)
        BY <3>1, <4>3, CopyDelivers
      <4> QED
        BY <4>2, <4>4
    <3>4. buf'[Here] = LineOf(temp_buffer, Count)
      BY <1>1, <2>1
    <3> QED
      BY <3>2, <3>3, <3>4, Zenon
  <2> QED
    BY <1>3, <2>1, <2>2, <2>4 DEF ReadInv
<1>12. CASE ClearCanRead
  <2>1. /\ pc[Here] = "clear" /\ pc' = [pc EXCEPT ![Here] = "flush"] /\ can_read' = FALSE
        /\ UNCHANGED <<current_terminal, entered, nbytes, buf>>
    BY <1>12 DEF ClearCanRead, At, Goto, Here
  <2>2. pc'[Here] = "flush" /\ Here' = Here /\ \A t \in Terms : pc'[t] # "user" => pc[t] # "user"
    BY <1>1, <2>1 DEF Here
  <2> QED
    BY <1>3, <2>1, <2>2 DEF ReadInv
<1>13. CASE Return
  <2>1. /\ pc[Here] = "flush" /\ pc' = [pc EXCEPT ![Here] = "user"]
        /\ nbytes' = [nbytes EXCEPT ![Here] = 0]
        /\ UNCHANGED <<current_terminal, can_read>>
    BY <1>13 DEF Return, At, Goto, Here, lineVars
  <2>2. pc'[Here] = "user" /\ Here' = Here /\ ~can_read'
    BY <1>1, <1>2, <2>1 DEF Here
  <2>3. \A t \in Terms : pc'[t] # "user" => nbytes'[t] \in Sizes
    BY <1>1, <1>3, <2>1
  <2> QED
    BY <2>2, <2>3 DEF ReadInv
<1> QED
  BY <1>5, <1>6, <1>7, <1>8, <1>9, <1>10, <1>11, <1>12, <1>13 DEF Next, ReadStep

LEMMA TypeStep ==
    ASSUME Inv, Careful, [Next]_vars
    PROVE  TypeOK'
<1> DEFINE Bytes == Chars \cup {NL, Beyond}
<1>1. TypeOK /\ Here \in Terms /\ LINE_SIZE \in Nat /\ LINE_SIZE > 0 /\ 0 \in 0 .. LINE_SIZE
  BY ScreenSizes DEF Inv, TypeOK, Here
<1>2. cursor' \in Cells
  BY CursorStep DEF CursorInv, CursorOK
<1>3. Blank \in Lines /\ Letters \subseteq Chars
  BY <1>1 DEF Blank, Lines, Chars
<1>4. CASE \E c \in Letters : PressLetter(c)
  <2>1. PICK c \in Letters : PressLetter(c)
    BY <1>4
  <2>2. /\ UNCHANGED <<current_terminal, ctrl_pressed, lineVars, savedVars, readVars, entered, unread>>
        /\ \/ /\ length_typed < LINE_SIZE
              /\ input_buffer' = [input_buffer EXCEPT ![length_typed] = c]
              /\ length_typed' = length_typed + 1
              /\ typed' = [typed EXCEPT ![Here] = Append(@, c)]
           \/ UNCHANGED <<input_buffer, length_typed, typed>>
    BY <2>1, Zenon DEF PressLetter, Here
  <2>3. input_buffer' \in Lines /\ length_typed' \in 0 .. LINE_SIZE
    <3>1. input_buffer \in [0 .. LINE_SIZE - 1 -> Chars] /\ length_typed \in 0 .. LINE_SIZE
      BY <1>1 DEF TypeOK, Lines
    <3>2. CASE UNCHANGED <<input_buffer, length_typed>>
      BY <3>1, <3>2 DEF Lines
    <3>3. CASE /\ length_typed < LINE_SIZE
               /\ input_buffer' = [input_buffer EXCEPT ![length_typed] = c]
               /\ length_typed' = length_typed + 1
      <4>1. c \in Chars
        BY <1>3
      <4>2. length_typed' \in 0 .. LINE_SIZE
        BY <1>1, <3>1, <3>3
      <4>3. input_buffer' \in [0 .. LINE_SIZE - 1 -> Chars]
        BY <3>1, <3>3, <4>1
      <4> QED
        BY <4>2, <4>3 DEF Lines
    <3> QED
      BY <2>2, <3>2, <3>3
  <2>4. typed' \in [Terms -> Seq(Letters)]
    <3>1. Append(typed[Here], c) \in Seq(Letters)
      BY <1>1, AppendProperties DEF TypeOK
    <3> QED
      BY <1>1, <2>2, <3>1 DEF TypeOK
  <2> QED
    BY <1>1, <1>2, <2>2, <2>3, <2>4 DEF TypeOK, lineVars, savedVars, readVars
<1>5. CASE PressEnter
  <2>1. temp_buffer' \in [0 .. LINE_SIZE -> Bytes]
    BY <1>1, <1>5 DEF PressEnter, FinishLine, TypeOK, Lines
  <2>2. entered' \in [Terms -> Seq(Letters)] /\ typed' \in [Terms -> Seq(Letters)]
    <3>1. <<>> \in Seq(Letters)
      OBVIOUS
    <3> QED
      BY <1>1, <1>5, <3>1 DEF PressEnter, TypeOK, Here
  <2>3. UNCHANGED <<current_terminal, ctrl_pressed, savedVars, readVars>>
    BY <1>5 DEF PressEnter
  <2>4. /\ input_buffer' \in Lines /\ length_typed' = 0 /\ old_length_typed' = length_typed
        /\ can_read' = TRUE /\ unread' = Here
    BY <1>3, <1>5 DEF PressEnter, FinishLine, flush, Here
  <2> QED
    BY <1>1, <1>2, <2>1, <2>2, <2>3, <2>4 DEF TypeOK, savedVars, readVars
<1>6. CASE PressBackspace
  <2>1. length_typed' \in 0 .. LINE_SIZE
    <3>1. CASE length_typed > 0
      BY <1>1, <1>6, <3>1, BackspaceErases DEF TypeOK
    <3>2. CASE ~(length_typed > 0)
      BY <1>1, <1>6, <3>2 DEF PressBackspace, TypeOK
    <3> QED
      BY <3>1, <3>2
  <2>2. typed' \in [Terms -> Seq(Letters)]
    <3>1. typed[Here] \in Seq(Letters)
      BY <1>1 DEF TypeOK
    <3>2. typed[Here] # <<>> => Front(typed[Here]) \in Seq(Letters)
      BY <3>1 DEF Front
    <3> QED
      BY <1>1, <1>6, <3>2 DEF PressBackspace, TypeOK, Here
  <2>3. UNCHANGED <<current_terminal, ctrl_pressed, input_buffer, lineVars, savedVars, readVars, entered, unread>>
    BY <1>6 DEF PressBackspace
  <2> QED
    BY <1>1, <1>2, <2>1, <2>2, <2>3 DEF TypeOK, lineVars, savedVars, readVars
<1>7. CASE PressModifier \/ Release
  <2>1. /\ UNCHANGED <<current_terminal, input_buffer, length_typed, lineVars, savedVars, readVars, historyVars>>
        /\ ctrl_pressed' \in BOOLEAN
    BY <1>7 DEF PressModifier, Release, keyboardVars
  <2> QED
    BY <1>1, <1>2, <2>1 DEF TypeOK, lineVars, savedVars, readVars, historyVars
<1>8. CASE ReleaseL
  <2>1. /\ UNCHANGED <<current_terminal, lineVars, savedVars, readVars, entered, unread>>
        /\ ctrl_pressed' = FALSE /\ input_buffer' \in Lines /\ length_typed' = 0
        /\ typed' = [typed EXCEPT ![Here] = <<>>]
    BY <1>3, <1>8 DEF ReleaseL, flush, Here
  <2>2. typed' \in [Terms -> Seq(Letters)]
    BY <1>1, <2>1 DEF TypeOK
  <2> QED
    BY <1>1, <1>2, <2>1, <2>2 DEF TypeOK, lineVars, savedVars, readVars
<1>9. CASE \E t \in Terms : SwitchTo(t) \/ OpenTerminal(t)
  <2>1. PICK t \in Terms : SwitchTo(t) \/ OpenTerminal(t)
    BY <1>9
  <2>2. /\ SaveLine /\ current_terminal' = t /\ ctrl_pressed' = FALSE
        /\ opened' = opened \/ opened' = [opened EXCEPT ![t] = TRUE]
        /\ input_buffer' = keyboard_buffer[t] \/ input_buffer' = input_buffer
        /\ UNCHANGED <<length_typed, lineVars, readVars, historyVars>>
    BY <2>1, Zenon DEF SwitchTo, OpenTerminal
  <2>3. keyboard_buffer' \in [Terms -> Lines] /\ term_cursor' \in [Terms -> Cells]
    BY <1>1, <2>2 DEF SaveLine, TypeOK, Here
  <2>4. opened' \in [Terms -> BOOLEAN]
    <3>1. opened \in [Terms -> BOOLEAN]
      BY <1>1 DEF TypeOK
    <3>2. CASE opened' = [opened EXCEPT ![t] = TRUE]
      BY <3>1, <3>2
    <3> QED
      BY <2>2, <3>1, <3>2
  <2>5. input_buffer' \in Lines
    BY <1>1, <2>2 DEF TypeOK
  <2> QED
    BY <1>1, <1>2, <2>2, <2>3, <2>4, <2>5 DEF TypeOK, lineVars, readVars, historyVars
<1>10. CASE terminal_write
  <2>1. PICK c \in [x : 0 .. NUM_COLS - 1, y : 0 .. NUM_ROWS - 1] :
            term_cursor' = [term_cursor EXCEPT ![Here] = c]
    BY <1>10 DEF terminal_write, Here
  <2>2. c \in Cells
    BY ScreenSizes DEF Cells
  <2>3. /\ UNCHANGED <<current_terminal, ctrl_pressed, lineVars, keyboard_buffer, opened, readVars, entered, unread>>
        /\ input_buffer' \in Lines /\ length_typed' = 0
        /\ typed' = [typed EXCEPT ![Here] = <<>>]
    BY <1>3, <1>10 DEF terminal_write, flush, Here
  <2>4. typed' \in [Terms -> Seq(Letters)] /\ term_cursor' \in [Terms -> Cells]
    BY <1>1, <2>1, <2>2, <2>3 DEF TypeOK
  <2> QED
    BY <1>1, <1>2, <2>3, <2>4 DEF TypeOK, lineVars, readVars
<1>11. CASE ReadCall
  <2>1. PICK n \in Sizes : nbytes' = [nbytes EXCEPT ![Here] = n]
    BY <1>11 DEF ReadCall, Here
  <2>2. /\ pc' = [pc EXCEPT ![Here] = "spin"]
        /\ UNCHANGED <<current_terminal, ctrl_pressed, keyboardVars, lineVars, savedVars, whole, buf, historyVars>>
    BY <1>11 DEF ReadCall, Goto, Here
  <2>3. pc' \in [Terms -> ReadSteps] /\ nbytes' \in [Terms -> Sizes \cup {0}]
    BY <1>1, <2>1, <2>2 DEF TypeOK, ReadSteps
  <2> QED
    BY <1>1, <1>2, <2>2, <2>3 DEF TypeOK, keyboardVars, lineVars, savedVars, historyVars
<1>12. CASE SeeLine
  <2>1. /\ pc' = [pc EXCEPT ![Here] = "terminate"]
        /\ UNCHANGED <<current_terminal, ctrl_pressed, keyboardVars, lineVars, savedVars, nbytes, whole, buf, historyVars>>
    BY <1>12 DEF SeeLine, Goto, Here
  <2>2. pc' \in [Terms -> ReadSteps]
    BY <1>1, <2>1 DEF TypeOK, ReadSteps
  <2> QED
    BY <1>1, <1>2, <2>1, <2>2 DEF TypeOK, keyboardVars, lineVars, savedVars, historyVars
<1>13. CASE Terminate
  <2>1. /\ pc' = [pc EXCEPT ![Here] = "copy"]
        /\ whole' = [whole EXCEPT ![Here] = length_typed + 1 < nbytes[Here]]
        /\ temp_buffer' = [temp_buffer EXCEPT ![old_length_typed] = NL]
        /\ UNCHANGED <<current_terminal, ctrl_pressed, keyboardVars, savedVars,
                       old_length_typed, can_read, nbytes, buf, historyVars>>
    BY <1>13 DEF Terminate, Goto, NewlineAt, Here
  <2>2. pc' \in [Terms -> ReadSteps] /\ temp_buffer' \in [0 .. LINE_SIZE -> Bytes]
    BY <1>1, <2>1 DEF TypeOK, ReadSteps
  <2>3. whole' \in [Terms -> BOOLEAN]
    BY <1>1, <2>1 DEF TypeOK
  <2> QED
    BY <1>1, <1>2, <2>1, <2>2, <2>3 DEF TypeOK, keyboardVars, savedVars, historyVars
<1>14. CASE Copy
  <2>1. /\ pc[Here] = "copy" /\ pc' = [pc EXCEPT ![Here] = "clear"]
        /\ buf' = [buf EXCEPT ![Here] = LineOf(temp_buffer, Count)]
        /\ UNCHANGED <<current_terminal, ctrl_pressed, keyboardVars, lineVars, savedVars, nbytes, whole, historyVars>>
    BY <1>14 DEF Copy, At, Goto, Here, LineOf
  <2>2. pc' \in [Terms -> ReadSteps]
    BY <1>1, <2>1 DEF TypeOK, ReadSteps
  <2>3. Count \in Nat /\ Count <= LINE_SIZE + 1
    <3>1. old_length_typed \in Nat /\ old_length_typed <= LINE_SIZE
      BY <1>1 DEF TypeOK
    <3>2. nbytes[Here] \in Sizes /\ whole[Here] = (1 < nbytes[Here])
      BY <1>1, <2>1 DEF Inv, ReadInv
    <3>3. nbytes[Here] \in Nat
      BY <3>2, ConstantsAssumption
    <3>4. CASE 1 < nbytes[Here]
      <4>1. Count = old_length_typed + 1
        BY <3>2, <3>4 DEF Count, Here
      <4> QED
        BY <1>1, <3>1, <4>1
    <3>5. CASE ~(1 < nbytes[Here])
      <4>1. Count = nbytes[Here]
        BY <3>2, <3>5 DEF Count, Here
      <4> QED
        BY <1>1, <3>3, <3>5, <4>1
    <3> QED
      BY <3>4, <3>5
  <2>4. LineOf(temp_buffer, Count) \in Seq(Bytes)
    <3>1. temp_buffer \in [0 .. LINE_SIZE -> Bytes]
      BY <1>1 DEF TypeOK
    <3> HIDE DEF Bytes
    <3>2. \A i \in 0 .. Count - 1 : temp_buffer[i] \in Bytes
      BY <1>1, <2>3, <3>1
    <3> QED
      BY <2>3, <3>2, LineType
  <2>5. buf' \in [Terms -> Seq(Bytes)]
    BY <1>1, <2>1, <2>4 DEF TypeOK
  <2> QED
    BY <1>1, <1>2, <2>1, <2>2, <2>5 DEF TypeOK, keyboardVars, lineVars, savedVars, historyVars
<1>15. CASE ClearCanRead
  <2>1. /\ pc' = [pc EXCEPT ![Here] = "flush"] /\ can_read' = FALSE /\ unread' = NoTerminal
        /\ UNCHANGED <<current_terminal, ctrl_pressed, keyboardVars, temp_buffer,
                       old_length_typed, savedVars, nbytes, whole, buf, typed, entered>>
    BY <1>15 DEF ClearCanRead, Goto, Here
  <2>2. pc' \in [Terms -> ReadSteps]
    BY <1>1, <2>1 DEF TypeOK, ReadSteps
  <2> QED
    BY <1>1, <1>2, <2>1, <2>2 DEF TypeOK, keyboardVars, savedVars
<1>16. CASE Return
  <2>1. /\ pc' = [pc EXCEPT ![Here] = "user"] /\ nbytes' = [nbytes EXCEPT ![Here] = 0]
        /\ whole' = [whole EXCEPT ![Here] = FALSE] /\ buf' = [buf EXCEPT ![Here] = <<>>]
        /\ entered' = [entered EXCEPT ![Here] = <<>>]
        /\ input_buffer' \in Lines /\ length_typed' = 0
        /\ UNCHANGED <<current_terminal, ctrl_pressed, cursor, lineVars, savedVars, typed, unread>>
    BY <1>3, <1>16 DEF Return, Goto, flush, Here
  <2>2. /\ pc' \in [Terms -> ReadSteps] /\ nbytes' \in [Terms -> Sizes \cup {0}]
        /\ whole' \in [Terms -> BOOLEAN]
    BY <1>1, <2>1 DEF TypeOK, ReadSteps
  <2>3. buf' \in [Terms -> Seq(Bytes)] /\ entered' \in [Terms -> Seq(Letters)]
    BY <1>1, <2>1 DEF TypeOK
  <2> QED
    BY <1>1, <1>2, <2>1, <2>2, <2>3 DEF TypeOK, lineVars, savedVars
<1>17. CASE UNCHANGED vars
  BY <1>1, <1>17 DEF TypeOK, vars, keyboardVars, lineVars, savedVars, readVars, historyVars
<1> QED
  BY <1>4, <1>5, <1>6, <1>7, <1>8, <1>9, <1>10, <1>11, <1>12, <1>13, <1>14, <1>15, <1>16, <1>17
  DEF Next, ReadStep

LEMMA LineInit == Init => Inv
<1> SUFFICES ASSUME Init PROVE Inv
  OBVIOUS
<1>1. /\ current_terminal = 0 /\ Here = 0 /\ 0 \in Terms /\ LINE_SIZE \in Nat /\ LINE_SIZE > 0
      /\ Blank \in Lines
  BY ScreenSizes DEF Init, Terms, Here, Blank, Lines, Chars
<1>2. /\ CursorOK(cursor) /\ Place(cursor) \in Nat /\ cursor \in Cells
      /\ \A t \in Terms : CursorOK(term_cursor[t])
  <2>1. CursorOK([x |-> 0, y |-> 0]) /\ Place([x |-> 0, y |-> 0]) \in Nat
    BY CellRecord, ScreenSizes
  <2> QED
    BY <2>1 DEF Init, CursorOK
<1>3. TypeOK
  <2>1. [x |-> 0, y |-> 0] \in Cells
    BY <1>2 DEF Init
  <2>2. temp_buffer \in [0 .. LINE_SIZE -> Chars \cup {NL, Beyond}]
    BY DEF Init, Chars
  <2>3. /\ opened \in [Terms -> BOOLEAN] /\ pc \in [Terms -> ReadSteps]
        /\ nbytes \in [Terms -> Sizes \cup {0}] /\ whole \in [Terms -> BOOLEAN]
    BY DEF Init, ReadSteps
  <2>4. /\ buf \in [Terms -> Seq(Chars \cup {NL, Beyond})] /\ typed \in [Terms -> Seq(Letters)]
        /\ entered \in [Terms -> Seq(Letters)]
    BY DEF Init
  <2>5. keyboard_buffer \in [Terms -> Lines] /\ term_cursor \in [Terms -> Cells]
    BY <1>1, <2>1 DEF Init
  <2>6. ctrl_pressed \in BOOLEAN /\ can_read \in BOOLEAN
    BY Zenon DEF Init
  <2>7. /\ input_buffer \in Lines /\ length_typed \in 0 .. LINE_SIZE
        /\ old_length_typed \in 0 .. LINE_SIZE /\ unread \in Terms \cup {NoTerminal}
    BY <1>1 DEF Init
  <2> QED
    BY <1>1, <1>2, <2>2, <2>3, <2>4, <2>5, <2>6, <2>7 DEF TypeOK
<1>4. CursorInv
  BY <1>1, <1>2 DEF CursorInv, Init
<1>5. TypingInv
  BY <1>1, NoLine DEF TypingInv, Init
<1>6. ReadInv
  BY <1>1 DEF ReadInv, Init
<1> QED
  BY <1>3, <1>4, <1>5, <1>6 DEF Inv

LEMMA LineStep == Inv /\ Careful /\ [Next]_vars => Inv'
BY TypeStep, CursorStep, TypingStep, ReadStepKeeps DEF Inv

LEMMA LineInvariant == ASSUME Careful PROVE Spec => []Inv
<1>1. Careful /\ Inv /\ [Next]_vars => Inv'
  BY LineStep
<1>2. Init => Inv
  BY LineInit
<1> QED
  BY <1>1, <1>2, PTL DEF Spec, Careful

-----------------------------------------------------------------------------
(* No key and no step of a read takes the kernel's variables out of their   *)
(* ranges: the input buffer is never written past its end, the cursor never *)
(* leaves the screen (keyboard_driver.c, terminal_driver.c).                *)
THEOREM TypeCorrect == ASSUME Careful PROVE Spec => []TypeOK
<1>1. Inv => TypeOK
  BY DEF Inv
<1> QED
  BY <1>1, LineInvariant, PTL

(* Whatever terminals were visited meanwhile, the input buffer holds the    *)
(* line begun on the terminal that is on the screen (keyboard_driver.c; the *)
(* switch of syscalls.c:819).                                               *)
THEOREM BufferHoldsLine == ASSUME Careful PROVE Spec => []BufferIsLine
<1>1. Inv => BufferIsLine
  BY DEF Inv, TypingInv, BufferIsLine, LineOf, Here
<1> QED
  BY <1>1, LineInvariant, PTL

(* A read of one character, or of more than a line can hold, returns the    *)
(* line its own user entered, cut at what it asked for (terminal_read).     *)
THEOREM LinesDelivered == ASSUME Careful, WholeLines PROVE Spec => LineDelivered
<1>1. ASSUME Inv, Return
      PROVE  buf[current_terminal] = Delivered(entered[current_terminal], nbytes[current_terminal])
  BY <1>1 DEF Inv, ReadInv, Return, At, Here
<1>2. Inv /\ [Next]_vars =>
        [Return => buf[current_terminal] =
                   Delivered(entered[current_terminal], nbytes[current_terminal])]_vars
  BY <1>1
<1> QED
  BY <1>2, LineInvariant, PTL DEF Spec, LineDelivered

=============================================================================
