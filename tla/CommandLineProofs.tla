-------------------------- MODULE CommandLineProofs --------------------------
(***************************************************************************)
(* Every process has the arguments of its own line, whatever the lines,    *)
(* and every call of the library is right.                                 *)
(*                                                                         *)
(* First what the operators on C strings leave in a buffer (Holds), then   *)
(* what execute's loop has seen of a line after i characters (Sees), and   *)
(* from both what it parses a line into (ParseIs).  The invariant          *)
(* CommandInv adds to the two properties that the stacks of processes are  *)
(* disjoint, so that filling and clearing one slot leaves the others be.   *)
(*                                                                         *)
(* Then the calls of the library that commands and kernel are written      *)
(* with, which stand on the same facts about C strings: what each does to  *)
(* memory or returns, for every argument, is what its callers expect.      *)
(***************************************************************************)
EXTENDS CommandLine, Library, SequenceTheorems, WellFoundedInduction, FiniteSetTheorems, TLAPS

-----------------------------------------------------------------------------
(***************************************************************************)
(* Strings in memory.                                                      *)
(***************************************************************************)
(* The characters of a string.                                              *)
Chars == STRING \ {NUL}

(* The buffer buf holds the characters of w and a NUL behind them.          *)
Holds(buf, w) ==
    /\ buf \in Seq(STRING) /\ w \in Seq(Chars) /\ Len(w) < Len(buf)
    /\ \A i \in 1 .. Len(w) : buf[i] = w[i]
    /\ buf[Len(w) + 1] = NUL

(* NUL is a character.                                                      *)
LEMMA NulIs == NUL \in STRING
<1>1. DOMAIN Ascii \subseteq STRING /\ NUL \in DOMAIN Ascii
  BY LibCAssumption
<1> HIDE DEF NUL
<1> QED
  BY <1>1

(* A function on the first numbers is a sequence.                           *)
LEMMA FunctionIsSeq ==
    ASSUME NEW n \in Nat, NEW f \in [1 .. n -> STRING]
    PROVE  f \in Seq(STRING) /\ Len(f) = n
<1>1. f \in Seq(STRING)
  BY SeqDef, Zenon
<1>2. DOMAIN f = 1 .. n
  OBVIOUS
<1> QED
  BY <1>1, <1>2, LenProperties

(* strlen and Text see just them, ...                                       *)
LEMMA HeldText ==
    ASSUME NEW buf, NEW w, Holds(buf, w)
    PROVE  strlen(buf) = Len(w) /\ Text(buf) = w
<1> DEFINE n == Len(w)
           Is(k) == buf[k + 1] = NUL /\ \A i \in 1 .. k : buf[i] # NUL
<1>1. buf \in Seq(STRING) /\ w \in Seq(Chars) /\ n \in Nat /\ Len(buf) \in Nat /\ n < Len(buf)
  BY LenProperties DEF Holds
<1>2. \A i \in 1 .. n : w[i] \in Chars /\ buf[i] = w[i]
  <2>1. \A i \in 1 .. n : w[i] \in Chars
    BY <1>1, ElementOfSeq
  <2> QED
    BY <2>1 DEF Holds
<1>3. n \in 0 .. Len(buf) - 1 /\ Is(n)
  <2>1. buf[n + 1] = NUL
    BY DEF Holds
  <2>2. \A i \in 1 .. n : buf[i] # NUL
    BY <1>2 DEF Chars
  <2> QED
    BY <1>1, <2>1, <2>2
<1>4. \A k \in 0 .. Len(buf) - 1 : Is(k) => k = n
  <2> SUFFICES ASSUME NEW k \in 0 .. Len(buf) - 1, Is(k), k # n PROVE FALSE
    OBVIOUS
  <2>1. CASE k < n
    <3>1. k + 1 \in 1 .. n
      BY <1>1, <2>1
    <3> QED
      BY <1>2, <3>1 DEF Chars
  <2>2. CASE k > n
    <3>1. n + 1 \in 1 .. k
      BY <1>1, <2>2
    <3> QED
      BY <1>3, <3>1
  <2> QED
    BY <1>1, <2>1, <2>2
<1>5. strlen(buf) = CHOOSE k \in 0 .. Len(buf) - 1 : Is(k)
  BY DEF strlen
<1>6. strlen(buf) = n
  <2> HIDE DEF Is, n
  <2> QED
    BY <1>3, <1>4, <1>5
<1>7. Text(buf) = SubSeq(buf, 1, n)
  BY <1>6 DEF Text
<1>8. SubSeq(buf, 1, n) = w
  <2>1. \A i \in 1 .. n : buf[i] \in STRING
    BY <1>2 DEF Chars
  <2>2. /\ SubSeq(buf, 1, n) \in Seq(STRING) /\ Len(SubSeq(buf, 1, n)) = n
        /\ \A i \in 1 .. n : SubSeq(buf, 1, n)[i] = buf[i]
    <3>1. /\ SubSeq(buf, 1, n) \in Seq(STRING)
          /\ Len(SubSeq(buf, 1, n)) = IF 1 <= n THEN n - 1 + 1 ELSE 0
          /\ \A i \in 1 .. n - 1 + 1 : SubSeq(buf, 1, n)[i] = buf[1 + i - 1]
      BY <1>1, <2>1, SubSeqProperties
    <3> HIDE DEF n
    <3> QED
      BY <1>1, <3>1
  <2>3. w \in Seq(STRING)
    BY <1>1, SeqMonotonic DEF Chars
  <2> QED
    BY <1>2, <2>2, <2>3, SeqEqual
<1> QED
  BY <1>6, <1>7, <1>8

(* ... a buffer that holds a NUL holds some string, ...                     *)
LEMMA EndedHolds ==
    ASSUME NEW buf, NEW w, Holds(buf, w)
    PROVE  Contains(buf, NUL) /\ (buf[1] = NUL <=> w = <<>>)
<1>1. w \in Seq(Chars) /\ Len(w) \in Nat /\ Len(buf) \in Nat /\ Len(w) < Len(buf)
  BY LenProperties DEF Holds
<1>2. Len(w) + 1 \in 1 .. Len(buf)
  BY <1>1
<1>3. Contains(buf, NUL)
  BY <1>2 DEF Holds, Contains
<1>4. CASE w = <<>>
  <2>1. Len(w) = 0
    BY <1>4
  <2> QED
    BY <1>3, <1>4, <2>1 DEF Holds
<1>5. CASE w # <<>>
  <2>1. Len(w) # 0
    BY <1>1, <1>5, EmptySeq
  <2>2. 1 \in 1 .. Len(w)
    BY <1>1, <2>1
  <2>3. w[1] \in Chars
    BY <1>1, <2>2, ElementOfSeq
  <2>4. buf[1] = w[1]
    BY <2>2 DEF Holds
  <2> QED
    BY <1>3, <1>5, <2>3, <2>4 DEF Chars
<1> QED
  BY <1>4, <1>5

(* ... and a cleared buffer in which characters were stored holds them.     *)
LEMMA FilledHolds ==
    ASSUME NEW size \in Nat, NEW w \in Seq(Chars), Len(w) < size
    PROVE  Holds(Filled(w, size), w) /\ Len(Filled(w, size)) = size
<1> DEFINE n == Len(w)
           m == size - n
           rest == [i \in 1 .. m |-> NUL]
<1>1. w \in Seq(STRING) /\ n \in Nat /\ m \in Nat /\ m > 0
  BY SeqMonotonic, LenProperties DEF Chars
<1>2. rest \in Seq(STRING) /\ Len(rest) = m
  <2>1. PICK k \in Nat : k = m
    BY <1>1
  <2>2. [i \in 1 .. k |-> NUL] \in [1 .. k -> STRING]
    BY NulIs, Zenon
  <2>3. [i \in 1 .. k |-> NUL] \in Seq(STRING) /\ Len([i \in 1 .. k |-> NUL]) = k
    BY <2>2, FunctionIsSeq
  <2> QED
    BY <2>1, <2>3
<1>3. PICK r : r = rest
  OBVIOUS
<1>4. r \in Seq(STRING) /\ Len(r) = m /\ r[1] = NUL
  BY <1>1, <1>2, <1>3
<1>5. /\ w \o r \in Seq(STRING)
      /\ Len(w \o r) = n + m
      /\ \A i \in 1 .. n + m : (w \o r)[i] = IF i <= n THEN w[i] ELSE r[i - n]
  BY <1>1, <1>4, ConcatProperties
<1>6. Filled(w, size) = w \o r
  BY <1>3 DEF Filled
<1>7. PICK b : b = w \o r
  OBVIOUS
<1>8. b \in Seq(STRING) /\ Len(b) = size
  BY <1>1, <1>5, <1>7
<1>9. \A i \in 1 .. n : b[i] = w[i]
  <2>1. \A i \in 1 .. n : i \in 1 .. n + m /\ i <= n
    BY <1>1
  <2> QED
    BY <1>5, <1>7, <2>1
<1>10. b[n + 1] = NUL
  <2>1. n + 1 \in 1 .. n + m /\ ~(n + 1 <= n) /\ (n + 1) - n = 1
    BY <1>1
  <2> QED
    BY <1>4, <1>5, <1>7, <2>1
<1> QED
  BY <1>6, <1>7, <1>8, <1>9, <1>10 DEF Holds

(* A cleared buffer holds the empty string, ...                             *)
LEMMA ClearedHolds ==
    ASSUME NEW size \in Nat, size > 0
    PROVE  Holds(Cleared(size), <<>>) /\ Len(Cleared(size)) = size
<1>1. PICK c : c = Cleared(size)
  OBVIOUS
<1>2. c \in Seq(STRING) /\ Len(c) = size /\ c[1] = NUL
  <2>1. c \in [1 .. size -> STRING]
    BY <1>1, NulIs, Zenon DEF Cleared
  <2>2. c[1] = NUL
    BY <1>1 DEF Cleared
  <2> QED
    BY <2>1, <2>2, FunctionIsSeq
<1>3. <<>> \in Seq(Chars) /\ Len(<<>>) = 0
  BY EmptySeq
<1> QED
  BY <1>1, <1>2, <1>3 DEF Holds

(* ... and that is what strncpy(buf, "\0", size) leaves, ...                *)
LEMMA ClearedIs ==
    ASSUME NEW size \in Nat, size > 0, NEW old \in Seq(STRING), Len(old) = size
    PROVE  Clear(size, old) = Cleared(size)
<1>1. Holds(CString(<<>>), <<>>)
  <2>1. PICK e : e = CString(<<>>)
    OBVIOUS
  <2>2. e = Append(<<>>, NUL)
    BY <2>1 DEF CString
  <2>3. e \in Seq(STRING) /\ Len(e) = 1 /\ e[1] = NUL
    <3>1. PICK S : S = STRING
      OBVIOUS
    <3>2. PICK s \in Seq(S) : s = <<>> /\ Len(s) = 0
      BY EmptySeq
    <3>3. PICK x \in S : x = NUL
      BY <3>1, NulIs
    <3>4. /\ Append(s, x) \in Seq(S) /\ Len(Append(s, x)) = Len(s) + 1
          /\ Append(s, x)[Len(s) + 1] = x
      BY AppendProperties
    <3>5. e = Append(s, x)
      BY <2>2, <3>2, <3>3
    <3>6. e \in Seq(STRING)
      BY <3>1, <3>4, <3>5, Zenon
    <3>7. Len(e) = 1 /\ e[1] = x
      BY <3>2, <3>4, <3>5
    <3> QED
      BY <3>3, <3>6, <3>7, Zenon
  <2>4. <<>> \in Seq(Chars) /\ Len(<<>>) = 0
    BY EmptySeq
  <2> QED
    BY <2>1, <2>3, <2>4 DEF Holds
<1>2. strlen(CString(<<>>)) = 0
  BY <1>1, HeldText
<1>3. DOMAIN old = 1 .. size
  BY LenProperties
<1>4. Clear(size, old) = [i \in 1 .. size |->
         IF i > size THEN old[i] ELSE IF i <= 0 THEN CString(<<>>)[i] ELSE NUL]
  BY <1>2, <1>3 DEF Clear, strncpy
<1> QED
  BY <1>4 DEF Cleared

(* ... into which the string of b is then copied.                           *)
LEMMA CopiedHolds ==
    ASSUME NEW size \in Nat, NEW w, NEW b, Holds(b, w), Len(b) = size,
           NEW old \in Seq(STRING), Len(old) = size,
           NEW c, \/ c = strncpy(Clear(size, old), b, size)
                  \/ c = strncpy(Clear(size, old), b, strlen(b))
    PROVE  Holds(c, w) /\ Len(c) = size
<1> DEFINE n == Len(w)
<1>1. b \in Seq(STRING) /\ w \in Seq(Chars) /\ n \in Nat /\ n < size /\ strlen(b) = n
  BY HeldText, LenProperties DEF Holds
<1>2. PICK d : d = Clear(size, old)
  OBVIOUS
<1>3. d = [i \in 1 .. size |-> NUL]
  BY <1>1, <1>2, ClearedIs DEF Cleared
<1>4. DOMAIN d = 1 .. size
  BY <1>3
<1>5. c = [i \in 1 .. size |-> IF i <= n THEN b[i] ELSE NUL]
  <2>1. CASE c = strncpy(d, b, size)
    <3>1. c = [i \in 1 .. size |-> IF i > size THEN d[i] ELSE IF i <= n THEN b[i] ELSE NUL]
      BY <1>1, <1>4, <2>1 DEF strncpy
    <3> QED
      BY <3>1
  <2>2. CASE c = strncpy(d, b, n)
    <3>1. c = [i \in 1 .. size |-> IF i > n THEN d[i] ELSE IF i <= n THEN b[i] ELSE NUL]
      BY <1>1, <1>4, <2>2 DEF strncpy
    <3>2. \A i \in 1 .. size : (IF i > n THEN d[i] ELSE IF i <= n THEN b[i] ELSE NUL)
                               = IF i <= n THEN b[i] ELSE NUL
      BY <1>1, <1>3
    <3> QED
      BY <3>1, <3>2
  <2> QED
    BY <1>1, <1>2, <2>1, <2>2
<1>6. \A i \in 1 .. n : b[i] = w[i] /\ b[i] \in STRING
  <2>1. \A i \in 1 .. n : i \in 1 .. Len(b)
    BY <1>1
  <2> QED
    BY <1>1, <2>1, ElementOfSeq DEF Holds
<1>7. c \in Seq(STRING) /\ Len(c) = size
  <2>1. \A i \in 1 .. size : (IF i <= n THEN b[i] ELSE NUL) \in STRING
    <3> SUFFICES ASSUME NEW i \in 1 .. size
                 PROVE  (IF i <= n THEN b[i] ELSE NUL) \in STRING
      OBVIOUS
    <3>1. i <= n => i \in 1 .. n
      BY <1>1
    <3> HIDE DEF NUL
    <3> QED
      BY <1>6, <3>1, NulIs
  <2>2. c \in [1 .. size -> STRING]
    BY <1>5, <2>1, Zenon
  <2> QED
    BY <2>2, FunctionIsSeq
<1>8. \A i \in 1 .. n : c[i] = w[i]
  <2>1. \A i \in 1 .. n : i \in 1 .. size /\ i <= n
    BY <1>1
  <2> QED
    BY <1>5, <1>6, <2>1
<1>9. c[n + 1] = NUL
  <2>1. n + 1 \in 1 .. size /\ ~(n + 1 <= n)
    BY <1>1
  <2> QED
    BY <1>5, <2>1
<1> QED
  BY <1>1, <1>7, <1>8, <1>9 DEF Holds

-----------------------------------------------------------------------------
(***************************************************************************)
(* The least of a set of numbers.                                          *)
(***************************************************************************)
Below == OpToRel(<, Nat)

(* Induction over the natural numbers, by a least counterexample.           *)
LEMMA LeastNumber ==
    ASSUME NEW T \in SUBSET Nat, T # {}
    PROVE  \E x \in T : \A y \in T : x <= y
<1>1. IsWellFoundedOn(Below, Nat)
  BY NatLessThanWellFounded, Zenon DEF Below
<1>2. \A x, y \in Nat : x < y => <<x, y>> \in Below
  BY Zenon DEF Below, OpToRel
<1>3. PICK x \in T : \A y \in T : ~(<<y, x>> \in Below)
  BY <1>1, WFMin
<1>4. \A y \in T : ~(y < x)
  BY <1>2, <1>3
<1> QED
  BY <1>4

(* Min of the community module is the least.                                *)
LEMMA MinIs ==
    ASSUME NEW T \in SUBSET Nat, T # {}
    PROVE  Min(T) \in T /\ \A y \in T : Min(T) <= y
BY LeastNumber DEF Min

(* The first place from i of n that is in T, or the one behind them all.    *)
FirstIn(T, i, n) == Min({j \in i .. n + 1 : j > n \/ j \in T})

(* It is one of them, and none before it is in T.                           *)
LEMMA FirstInIs ==
    ASSUME NEW n \in Nat, NEW i \in 1 .. n + 1, NEW T, NEW k, k = FirstIn(T, i, n)
    PROVE  /\ k \in i .. n + 1
           /\ k > n \/ k \in T
           /\ \A j \in i .. k - 1 : j \notin T
<1> DEFINE S == {j \in i .. n + 1 : j > n \/ j \in T}
<1>1. S \in SUBSET Nat /\ n + 1 \in S
  OBVIOUS
<1>2. k \in S /\ \A j \in S : k <= j
  <2> HIDE DEF S
  <2>1. k = Min(S)
    BY DEF S, FirstIn
  <2> QED
    BY <1>1, <2>1, MinIs
<1>3. ASSUME NEW j \in i .. k - 1, j \in T
      PROVE  FALSE
  <2>1. j \in i .. n + 1 /\ j < k
    BY <1>2
  <2>2. j \in S
    BY <1>3, <2>1
  <2> QED
    BY <1>2, <2>1, <2>2
<1> QED
  BY <1>2, <1>3

-----------------------------------------------------------------------------
(***************************************************************************)
(* The scan of a line.                                                     *)
(***************************************************************************)

(* b, e and a divide the line: spaces, the name, spaces, the arguments.     *)
Divided(line, b, e, a) ==
    /\ b \in 1 .. Len(line) + 1 /\ e \in b .. Len(line) + 1 /\ a \in e .. Len(line) + 1
    /\ \A j \in 1 .. b - 1 : line[j] = SPACE
    /\ b > Len(line) \/ line[b] # SPACE
    /\ \A j \in b .. e - 1 : line[j] # SPACE
    /\ e > Len(line) \/ line[e] = SPACE
    /\ \A j \in e .. a - 1 : line[j] = SPACE
    /\ a > Len(line) \/ line[a] # SPACE

(* What the scan has after i characters of such a line.                     *)
Sees(line, b, e, a, i) ==
    [handled_lz |-> IF (b <= i /\ i < e) \/ a <= i THEN TRUE ELSE FALSE,
     parsed_filename |-> IF e <= i THEN TRUE ELSE FALSE,
     file_name |-> SubSeq(line, b, IF i < e THEN i ELSE e - 1),
     arg_buffer |-> SubSeq(line, a, i)]

(* A character more.                                                        *)
LEMMA Grown ==
    ASSUME NEW line \in Seq(Chars), NEW m \in 1 .. Len(line), NEW n \in m .. Len(line)
    PROVE  SubSeq(line, m, n) = Append(SubSeq(line, m, n - 1), line[n])
<1>1. Len(line) \in Nat /\ m \in Nat /\ n \in Nat
  BY LenProperties
<1>2. \A i \in m .. n - 1 : line[i] \in Chars
  <2>1. \A i \in m .. n - 1 : i \in 1 .. Len(line)
    BY <1>1
  <2> QED
    BY <2>1, ElementOfSeq
<1>3. SubSeq(line, m, n - 1) \in Seq(Chars)
  <2>1. m \in Int /\ n - 1 \in Int
    BY <1>1
  <2> QED
    BY <1>2, <2>1, SubSeqProperties
<1>4. line[n] \in Chars
  <2>1. n \in 1 .. Len(line)
    BY <1>1
  <2> QED
    BY <2>1, ElementOfSeq
<1> QED
  BY <1>3, <1>4, SubSeqRecursiveSecond, AppendIsConcat

(* One turn of the loop.                                                    *)
LEMMA ScanStep ==
    ASSUME NEW line \in Seq(Chars), NEW b, NEW e, NEW a, Divided(line, b, e, a),
           NEW i \in 1 .. Len(line)
    PROVE  Scan(Sees(line, b, e, a, i - 1), line[i]) = Sees(line, b, e, a, i)
<1>1. /\ Len(line) \in Nat /\ b \in Nat /\ e \in Nat /\ a \in Nat
      /\ 1 <= b /\ b <= e /\ e <= a /\ a <= Len(line) + 1 /\ i \in Nat /\ 1 <= i
      /\ i <= Len(line)
  BY LenProperties DEF Divided
<1>2. /\ i - 1 \in Int /\ e - 1 \in Int /\ i \in Int
  BY <1>1
<1>3. CASE i < b
  <2>1. line[i] = SPACE
    BY <1>1, <1>3 DEF Divided
  <2>2. /\ (b <= i <=> FALSE) /\ (e <= i <=> FALSE) /\ (a <= i <=> FALSE) /\ (i < e <=> TRUE)
        /\ (b <= i - 1 <=> FALSE) /\ (e <= i - 1 <=> FALSE) /\ (a <= i - 1 <=> FALSE)
        /\ (i - 1 < e <=> TRUE) /\ i < a /\ i - 1 < a /\ i - 1 < b
    BY <1>1, <1>3
  <2>3. /\ SubSeq(line, b, i - 1) = <<>> /\ SubSeq(line, b, i) = <<>>
        /\ SubSeq(line, a, i - 1) = <<>> /\ SubSeq(line, a, i) = <<>>
    BY <1>1, <1>2, <1>3, <2>2, SubSeqEmpty
  <2>4. /\ Sees(line, b, e, a, i - 1) = Start
        /\ Sees(line, b, e, a, i) = Start
    BY <2>2, <2>3 DEF Sees, Start
  <2>5. Scan(Start, SPACE) = Start
    BY DEF Scan, Start
  <2> QED
    BY <2>1, <2>4, <2>5
<1>4. CASE b <= i /\ i < e
  <2>1. line[i] # SPACE
    BY <1>1, <1>4 DEF Divided
  <2>2. /\ (e <= i <=> FALSE) /\ (a <= i <=> FALSE) /\ (i < e <=> TRUE)
        /\ (e <= i - 1 <=> FALSE) /\ (a <= i - 1 <=> FALSE)
        /\ (i - 1 < e <=> TRUE) /\ i < a /\ i - 1 < a
    BY <1>1, <1>4
  <2>3. /\ SubSeq(line, a, i - 1) = <<>> /\ SubSeq(line, a, i) = <<>>
    BY <1>1, <1>2, <2>2, SubSeqEmpty
  <2>4. PICK w : w = SubSeq(line, b, i - 1)
    OBVIOUS
  <2>5. SubSeq(line, b, i) = Append(w, line[i])
    <3>1. b \in 1 .. Len(line) /\ i \in b .. Len(line)
      BY <1>1, <1>4
    <3> QED
      BY <2>4, <3>1, Grown
  <2>6. /\ Sees(line, b, e, a, i - 1) =
              [handled_lz |-> IF b <= i - 1 THEN TRUE ELSE FALSE, parsed_filename |-> FALSE,
               file_name |-> w, arg_buffer |-> <<>>]
        /\ Sees(line, b, e, a, i) =
              [handled_lz |-> TRUE, parsed_filename |-> FALSE,
               file_name |-> Append(w, line[i]), arg_buffer |-> <<>>]
    BY <1>4, <2>2, <2>3, <2>4, <2>5 DEF Sees
  <2>7. ASSUME NEW h \in BOOLEAN, NEW c, c # SPACE
        PROVE  Scan([handled_lz |-> h, parsed_filename |-> FALSE,
                     file_name |-> w, arg_buffer |-> <<>>], c)
                 = [handled_lz |-> TRUE, parsed_filename |-> FALSE,
                    file_name |-> Append(w, c), arg_buffer |-> <<>>]
    BY <2>7 DEF Scan
  <2>8. (IF b <= i - 1 THEN TRUE ELSE FALSE) \in BOOLEAN
    OBVIOUS
  <2> QED
    BY <2>1, <2>6, <2>7, <2>8
<1>5. CASE i = e
  <2>1. line[i] = SPACE /\ b < i /\ i < a
    BY <1>1, <1>5 DEF Divided
  <2>2. /\ ((b <= i - 1 /\ i - 1 < e) <=> TRUE) /\ (e <= i - 1 <=> FALSE)
        /\ (i - 1 < e <=> TRUE)
        /\ (i < e <=> FALSE) /\ (a <= i <=> FALSE) /\ (e <= i <=> TRUE) /\ i - 1 < a
        /\ i - 1 = e - 1
    BY <1>1, <1>5, <2>1
  <2>3. SubSeq(line, a, i - 1) = <<>> /\ SubSeq(line, a, i) = <<>>
    BY <1>1, <1>2, <2>1, <2>2, SubSeqEmpty
  <2>4. PICK w : w = SubSeq(line, b, e - 1)
    OBVIOUS
  <2>5. /\ Sees(line, b, e, a, i - 1) =
              [handled_lz |-> TRUE, parsed_filename |-> FALSE,
               file_name |-> w, arg_buffer |-> <<>>]
        /\ Sees(line, b, e, a, i) =
              [handled_lz |-> FALSE, parsed_filename |-> TRUE,
               file_name |-> w, arg_buffer |-> <<>>]
    BY <2>2, <2>3, <2>4 DEF Sees
  <2>6. Scan([handled_lz |-> TRUE, parsed_filename |-> FALSE,
              file_name |-> w, arg_buffer |-> <<>>], SPACE)
          = [handled_lz |-> FALSE, parsed_filename |-> TRUE,
             file_name |-> w, arg_buffer |-> <<>>]
    BY DEF Scan
  <2> QED
    BY <2>1, <2>5, <2>6
<1>6. CASE e < i /\ i < a
  <2>1. line[i] = SPACE
    BY <1>1, <1>6 DEF Divided
  <2>2. /\ (e <= i - 1 <=> TRUE) /\ (i - 1 < e <=> FALSE) /\ (a <= i - 1 <=> FALSE)
        /\ (e <= i <=> TRUE) /\ (i < e <=> FALSE) /\ (a <= i <=> FALSE) /\ i - 1 < a
    BY <1>1, <1>6
  <2>3. SubSeq(line, a, i - 1) = <<>> /\ SubSeq(line, a, i) = <<>>
    BY <1>1, <1>2, <1>6, <2>2, SubSeqEmpty
  <2>4. PICK w : w = SubSeq(line, b, e - 1)
    OBVIOUS
  <2>5. PICK p : p = [handled_lz |-> FALSE, parsed_filename |-> TRUE,
                      file_name |-> w, arg_buffer |-> <<>>]
    OBVIOUS
  <2>6. Sees(line, b, e, a, i - 1) = p /\ Sees(line, b, e, a, i) = p
    BY <2>2, <2>3, <2>4, <2>5 DEF Sees
  <2>7. Scan(p, SPACE) = p
    BY <2>5 DEF Scan
  <2> QED
    BY <2>1, <2>6, <2>7
<1>7. CASE e < i /\ a <= i
  <2>1. i = a => line[i] # SPACE
    BY <1>1, <1>7 DEF Divided
  <2>2. /\ (e <= i - 1 <=> TRUE) /\ (i - 1 < e <=> FALSE)
        /\ (e <= i <=> TRUE) /\ (i < e <=> FALSE) /\ (a <= i <=> TRUE)
        /\ (a <= i - 1 <=> i # a)
    BY <1>1, <1>7
  <2>3. PICK w : w = SubSeq(line, b, e - 1)
    OBVIOUS
  <2>4. PICK v : v = SubSeq(line, a, i - 1)
    OBVIOUS
  <2>5. SubSeq(line, a, i) = Append(v, line[i])
    <3>1. a \in 1 .. Len(line) /\ i \in a .. Len(line)
      BY <1>1, <1>7
    <3> QED
      BY <2>4, <3>1, Grown
  <2>6. /\ Sees(line, b, e, a, i - 1) =
              [handled_lz |-> IF i # a THEN TRUE ELSE FALSE, parsed_filename |-> TRUE,
               file_name |-> w, arg_buffer |-> v]
        /\ Sees(line, b, e, a, i) =
              [handled_lz |-> TRUE, parsed_filename |-> TRUE,
               file_name |-> w, arg_buffer |-> Append(v, line[i])]
    BY <2>2, <2>3, <2>4, <2>5 DEF Sees
  <2>7. ASSUME NEW h \in BOOLEAN, NEW c, h \/ c # SPACE
        PROVE  Scan([handled_lz |-> h, parsed_filename |-> TRUE,
                     file_name |-> w, arg_buffer |-> v], c)
                 = [handled_lz |-> TRUE, parsed_filename |-> TRUE,
                    file_name |-> w, arg_buffer |-> Append(v, c)]
    BY <2>7 DEF Scan
  <2>8. /\ (IF i # a THEN TRUE ELSE FALSE) \in BOOLEAN
        /\ (IF i # a THEN TRUE ELSE FALSE) \/ line[i] # SPACE
    BY <2>1
  <2> QED
    BY <2>6, <2>7, <2>8
<1> QED
  BY <1>1, <1>3, <1>4, <1>5, <1>6, <1>7

(* Before the first character.                                              *)
LEMMA SeesStart ==
    ASSUME NEW line \in Seq(Chars), NEW b, NEW e, NEW a, Divided(line, b, e, a)
    PROVE  Sees(line, b, e, a, 0) = Start
<1>1. /\ b \in Int /\ e \in Int /\ a \in Int /\ 0 < b /\ 0 < e /\ 0 < a
      /\ (b <= 0 <=> FALSE) /\ (e <= 0 <=> FALSE) /\ (a <= 0 <=> FALSE)
  BY LenProperties DEF Divided
<1>2. SubSeq(line, b, 0) = <<>> /\ SubSeq(line, a, 0) = <<>>
  BY <1>1, SubSeqEmpty
<1> QED
  BY <1>1, <1>2 DEF Sees, Start

(* The loop's recursion is well defined, ...                                *)
LEMMA ScannedUnfolds ==
    ASSUME NEW line \in Seq(Chars), NEW b, NEW e, NEW a, Divided(line, b, e, a)
    PROVE  /\ Scanned(line)[0] = Start
           /\ \A i \in 1 .. Len(line) :
                 Scanned(line)[i] = Scan(Scanned(line)[i - 1], line[i])
<1> DEFINE F(f) == [i \in 0 .. Len(line) |->
                      IF i = 0 THEN Start ELSE Scan(f[i - 1], line[i])]
           g == [i \in 0 .. Len(line) |-> Sees(line, b, e, a, i)]
<1>1. Len(line) \in Nat
  BY LenProperties
<1>2. Sees(line, b, e, a, 0) = Start
  BY SeesStart
<1>3. g = F(g)
  <2>1. ASSUME NEW i \in 0 .. Len(line)
        PROVE  g[i] = F(g)[i]
    <3>1. CASE i = 0
      BY <1>1, <1>2, <3>1
    <3>2. CASE i # 0
      <4>1. i \in 1 .. Len(line) /\ i - 1 \in 0 .. Len(line)
        BY <1>1, <3>2
      <4>2. g[i] = Sees(line, b, e, a, i) /\ g[i - 1] = Sees(line, b, e, a, i - 1)
        BY <4>1
      <4>3. g[i] = Scan(g[i - 1], line[i])
        BY <4>1, <4>2, ScanStep
      <4> HIDE DEF g
      <4> QED
        BY <3>2, <4>3
    <3> QED
      BY <3>1, <3>2
  <2>2. F(g) = [i \in 0 .. Len(line) |-> F(g)[i]]
    OBVIOUS
  <2> QED
    BY <2>1
<1>4. \E f : f = F(f)
  BY <1>3
<1>5. Scanned(line) = CHOOSE f : f = F(f)
  BY DEF Scanned
<1> HIDE DEF F
<1>6. Scanned(line) = F(Scanned(line))
  BY <1>4, <1>5
<1>7. PICK h : h = Scanned(line)
  OBVIOUS
<1>8. h = [i \in 0 .. Len(line) |-> IF i = 0 THEN Start ELSE Scan(h[i - 1], line[i])]
  BY <1>6, <1>7 DEF F
<1>9. h[0] = Start
  BY <1>1, <1>8
<1>10. ASSUME NEW i \in 1 .. Len(line)
       PROVE  h[i] = Scan(h[i - 1], line[i])
  <2>1. i \in 0 .. Len(line) /\ i # 0
    BY <1>1
  <2> QED
    BY <1>8, <2>1
<1> QED
  BY <1>2, <1>7, <1>9, <1>10

(* ... and ends in the state after the last character.                      *)
LEMMA ScannedIs ==
    ASSUME NEW line \in Seq(Chars), NEW b, NEW e, NEW a, Divided(line, b, e, a)
    PROVE  Scanned(line)[Len(line)] = Sees(line, b, e, a, Len(line))
<1>1. Len(line) \in Nat
  BY LenProperties
<1>2. PICK h : h = Scanned(line)
  OBVIOUS
<1>3. h[0] = Start /\ \A i \in 1 .. Len(line) : h[i] = Scan(h[i - 1], line[i])
  BY <1>2, ScannedUnfolds
<1>4. Sees(line, b, e, a, 0) = Start
  BY SeesStart
<1> DEFINE Missed == {i \in 0 .. Len(line) : h[i] # Sees(line, b, e, a, i)}
<1>5. ASSUME Missed # {}
      PROVE  FALSE
  <2>1. Missed \in SUBSET Nat
    BY <1>1
  <2>2. PICK i \in Missed : \A j \in Missed : i <= j
    BY <1>5, <2>1, LeastNumber
  <2>3. i \in 0 .. Len(line) /\ h[i] # Sees(line, b, e, a, i)
    BY <2>2
  <2>4. i # 0
    BY <1>3, <1>4, <2>3
  <2>5. i - 1 \in 0 .. Len(line) /\ i - 1 \notin Missed /\ i \in 1 .. Len(line)
    BY <1>1, <2>2, <2>3, <2>4
  <2>6. h[i - 1] = Sees(line, b, e, a, i - 1)
    BY <2>5
  <2>7. h[i] = Scan(h[i - 1], line[i])
    BY <1>3, <2>5
  <2> QED
    BY <2>3, <2>5, <2>6, <2>7, ScanStep
<1>6. Len(line) \in 0 .. Len(line)
  BY <1>1
<1> QED
  BY <1>2, <1>5, <1>6

(* Every line is divided, and its name and arguments lie between.           *)
LEMMA LineDivided ==
    ASSUME NEW line \in Seq(Chars)
    PROVE  \E b, e, a : /\ Divided(line, b, e, a)
                        /\ NameOf(line) = SubSeq(line, b, e - 1)
                        /\ ArgsOf(line) = SubSeq(line, a, Len(line))
<1> DEFINE n == Len(line)
           Spaces == {j \in 1 .. n : line[j] = SPACE}
           Others == {j \in 1 .. n : line[j] # SPACE}
<1>1. n \in Nat /\ 1 \in 1 .. n + 1
  BY LenProperties
<1>2. \A i \in 1 .. n + 1 :
         /\ {j \in i .. n + 1 : j > n \/ line[j] = SPACE}
              = {j \in i .. n + 1 : j > n \/ j \in Spaces}
         /\ {j \in i .. n + 1 : j > n \/ line[j] # SPACE}
              = {j \in i .. n + 1 : j > n \/ j \in Others}
  BY <1>1
<1>3. PICK b : b = Min({j \in 1 .. n + 1 : j > n \/ line[j] # SPACE})
  OBVIOUS
<1>4. b = FirstIn(Others, 1, n)
  BY <1>1, <1>2, <1>3 DEF FirstIn
<1>5. PICK e : e = Min({j \in b .. n + 1 : j > n \/ line[j] = SPACE})
  OBVIOUS
<1>6. PICK a : a = Min({j \in e .. n + 1 : j > n \/ line[j] # SPACE})
  OBVIOUS
<1>7. b \in 1 .. n + 1 /\ (b > n \/ b \in Others) /\ \A j \in 1 .. b - 1 : j \notin Others
  <2> HIDE DEF Others, n
  <2> QED
    BY <1>1, <1>4, FirstInIs
<1>8. e \in b .. n + 1 /\ (e > n \/ e \in Spaces) /\ \A j \in b .. e - 1 : j \notin Spaces
  <2>1. e = FirstIn(Spaces, b, n)
    BY <1>2, <1>5, <1>7 DEF FirstIn
  <2> HIDE DEF Spaces, n
  <2> QED
    BY <1>1, <1>7, <2>1, FirstInIs
<1>9. e \in 1 .. n + 1
  BY <1>1, <1>7, <1>8
<1>10. a \in e .. n + 1 /\ (a > n \/ a \in Others) /\ \A j \in e .. a - 1 : j \notin Others
  <2>1. a = FirstIn(Others, e, n)
    BY <1>2, <1>6, <1>9 DEF FirstIn
  <2> HIDE DEF Others, n
  <2> QED
    BY <1>1, <1>9, <2>1, FirstInIs
<1>11. Divided(line, b, e, a)
  <2>1. /\ \A j \in 1 .. b - 1 : j \in 1 .. n
        /\ \A j \in b .. e - 1 : j \in 1 .. n
        /\ \A j \in e .. a - 1 : j \in 1 .. n
    BY <1>1, <1>7, <1>8, <1>10
  <2> QED
    BY <1>7, <1>8, <1>10, <2>1 DEF Divided
<1>12. NameOf(line) = SubSeq(line, b, e - 1)
  BY <1>3, <1>5 DEF NameOf, FirstFrom
<1>13. ArgsOf(line) = SubSeq(line, a, n)
  BY <1>3, <1>5, <1>6 DEF ArgsOf, FirstFrom
<1> QED
  BY <1>11, <1>12, <1>13

(* execute takes a line apart as NameOf and ArgsOf say, ...                 *)
LEMMA ParseIs ==
    ASSUME NEW line \in Seq(Chars), Len(line) < FILENAME_SIZE, Len(line) < MAX_ARG_BUF_SIZE
    PROVE  /\ NameOf(line) \in Seq(Chars) /\ ArgsOf(line) \in Seq(Chars)
           /\ Len(ArgsOf(line)) < MAX_ARG_BUF_SIZE
           /\ Holds(Parse(line).file_name, NameOf(line))
           /\ Len(Parse(line).file_name) = FILENAME_SIZE
           /\ Holds(Parse(line).arg_buffer, ArgsOf(line))
           /\ Len(Parse(line).arg_buffer) = MAX_ARG_BUF_SIZE
<1> DEFINE n == Len(line)
<1>1. /\ n \in Nat
      /\ FILENAME_SIZE \in Nat /\ MAX_ARG_BUF_SIZE \in Nat
  BY LenProperties, CommandLineAssumption
<1>2. PICK b, e, a : /\ Divided(line, b, e, a)
                     /\ NameOf(line) = SubSeq(line, b, e - 1)
                     /\ ArgsOf(line) = SubSeq(line, a, n)
  BY LineDivided
<1>3. /\ b \in 1 .. n + 1 /\ e \in b .. n + 1 /\ a \in e .. n + 1
  BY <1>2 DEF Divided
<1>4. ASSUME NEW i \in 1 .. n + 1, NEW j \in i - 1 .. n
      PROVE  SubSeq(line, i, j) \in Seq(Chars) /\ Len(SubSeq(line, i, j)) <= n
  <2>1. \A k \in i .. j : line[k] \in Chars
    <3>1. \A k \in i .. j : k \in 1 .. n
      BY <1>1
    <3> QED
      BY <3>1, ElementOfSeq
  <2>2. i \in Int /\ j \in Int
    BY <1>1
  <2>3. /\ SubSeq(line, i, j) \in Seq(Chars)
        /\ Len(SubSeq(line, i, j)) = IF i <= j THEN j - i + 1 ELSE 0
    BY <2>1, <2>2, SubSeqProperties
  <2>4. (IF i <= j THEN j - i + 1 ELSE 0) <= n
    BY <1>1
  <2> QED
    BY <2>3, <2>4
<1>5. NameOf(line) \in Seq(Chars) /\ Len(NameOf(line)) <= n
  <2>1. e - 1 \in b - 1 .. n
    BY <1>1, <1>3
  <2> QED
    BY <1>2, <1>3, <1>4, <2>1
<1>6. ArgsOf(line) \in Seq(Chars) /\ Len(ArgsOf(line)) <= n
  <2>1. a \in 1 .. n + 1 /\ n \in a - 1 .. n
    BY <1>1, <1>3
  <2> QED
    BY <1>2, <1>4, <2>1
<1>7. PICK w \in Seq(Chars) : w = NameOf(line) /\ Len(w) < FILENAME_SIZE
  <2>1. Len(NameOf(line)) \in Nat
    BY <1>5, LenProperties
  <2> QED
    BY <1>1, <1>5, <2>1
<1>8. PICK v \in Seq(Chars) : v = ArgsOf(line) /\ Len(v) < MAX_ARG_BUF_SIZE
  <2>1. Len(ArgsOf(line)) \in Nat
    BY <1>6, LenProperties
  <2> QED
    BY <1>1, <1>6, <2>1
<1>9. PICK p : p = Scanned(line)[n]
  OBVIOUS
<1>10. p.file_name = w /\ p.arg_buffer = v
  <2>1. p = Sees(line, b, e, a, n)
    BY <1>2, <1>9, ScannedIs
  <2>2. p.file_name = SubSeq(line, b, IF n < e THEN n ELSE e - 1) /\ p.arg_buffer = SubSeq(line, a, n)
    BY <2>1 DEF Sees
  <2>3. (IF n < e THEN n ELSE e - 1) = e - 1
    BY <1>1, <1>3
  <2> QED
    BY <1>2, <1>7, <1>8, <2>2, <2>3
<1>11. /\ Parse(line).file_name = Filled(w, FILENAME_SIZE)
       /\ Parse(line).arg_buffer = Filled(v, MAX_ARG_BUF_SIZE)
  BY <1>9, <1>10 DEF Parse
<1> QED
  BY <1>1, <1>7, <1>8, <1>11, FilledHolds

-----------------------------------------------------------------------------
(***************************************************************************)
(* The inductive invariant.                                                *)
(***************************************************************************)
Commands == Lines \cup {ShellName}

(* A buffer of that size with a string in it.                               *)
Buffer(b, size) == Len(b) = size /\ Holds(b, Text(b))

(* The buffers of every slot, in use or not.                                *)
PcbsOK ==
    /\ filename \in [Slot -> Seq(STRING)] /\ args \in [Slot -> Seq(STRING)]
    /\ got \in [Slot -> Seq(STRING)] /\ DOMAIN given = Slot
    /\ asked \in [Slot -> Requests \cup {0}]
    /\ \A s \in Slot :
          /\ Buffer(filename[s], FILENAME_SIZE) /\ Buffer(args[s], MAX_ARG_BUF_SIZE)
          /\ got[s] # Nothing => Buffer(got[s], MAX_ARG_BUF_SIZE)

(* Slot s holds what its command was taken apart into.                      *)
Loaded(s) ==
    /\ given[s] \in Commands
    /\ Holds(filename[s], NameOf(given[s])) /\ Holds(args[s], ArgsOf(given[s]))
    /\ got[s] # Nothing => Holds(got[s], ArgsOf(given[s]))

(* Every process is at one place of one stack and has its own line.         *)
CommandInv ==
    /\ Procs!StacksOK
    /\ PcbsOK
    /\ rval \in [Slot -> {0, NoSuchCommand, TooMany}]
    /\ \A s \in Slot : ~Procs!Free(s) => Loaded(s)

(* A buffer that holds some string.                                         *)
LEMMA BufferIs ==
    ASSUME NEW b, NEW w, NEW size, Holds(b, w), Len(b) = size
    PROVE  b \in Seq(STRING) /\ Buffer(b, size)
BY HeldText DEF Buffer, Holds

(* There is room for the NUL behind the name of the shell.                  *)
LEMMA SizesPositive ==
    /\ FILENAME_SIZE \in Nat /\ FILENAME_SIZE > 0
    /\ MAX_ARG_BUF_SIZE \in Nat /\ MAX_ARG_BUF_SIZE > 0
<1>1. ShellName \in Seq(Chars) /\ Len(ShellName) < FILENAME_SIZE /\ Len(ShellName) < MAX_ARG_BUF_SIZE
  BY CommandLineAssumption DEF Chars
<1>2. Len(ShellName) \in Nat
  BY <1>1, LenProperties
<1> QED
  BY <1>1, <1>2, CommandLineAssumption

(* A slot that is filled for a command.                                     *)
LEMMA FillStep ==
    ASSUME PcbsOK, NEW s \in Slot, NEW command \in Commands, FillPcb(s, command)
    PROVE  /\ PcbsOK' /\ Loaded(s)'
           /\ \A q \in Slot \ {s} : /\ filename'[q] = filename[q] /\ args'[q] = args[q]
                                    /\ given'[q] = given[q] /\ got'[q] = got[q]
<1> DEFINE p == Parse(command)
           f == strncpy(Clear(FILENAME_SIZE, filename[s]), p.file_name, FILENAME_SIZE)
           g == Stored(args[s], p.arg_buffer)
<1>1. /\ command \in Seq(Chars)
      /\ Len(command) < FILENAME_SIZE /\ Len(command) < MAX_ARG_BUF_SIZE
  BY CommandLineAssumption DEF Commands, Chars
<1>2. /\ Holds(p.file_name, NameOf(command)) /\ Len(p.file_name) = FILENAME_SIZE
      /\ Holds(p.arg_buffer, ArgsOf(command)) /\ Len(p.arg_buffer) = MAX_ARG_BUF_SIZE
  BY <1>1, ParseIs
<1>3. /\ filename[s] \in Seq(STRING) /\ Len(filename[s]) = FILENAME_SIZE
      /\ args[s] \in Seq(STRING) /\ Len(args[s]) = MAX_ARG_BUF_SIZE
  BY DEF PcbsOK, Buffer
<1>4. Holds(f, NameOf(command)) /\ Len(f) = FILENAME_SIZE
  <2> HIDE DEF p
  <2> QED
    BY <1>2, <1>3, SizesPositive, CopiedHolds
<1>5. Holds(g, ArgsOf(command)) /\ Len(g) = MAX_ARG_BUF_SIZE
  <2> HIDE DEF p
  <2>1. g = strncpy(Clear(MAX_ARG_BUF_SIZE, args[s]), p.arg_buffer, strlen(p.arg_buffer))
    BY DEF Stored
  <2> QED
    BY <1>2, <1>3, <2>1, SizesPositive, CopiedHolds
<1>6. /\ filename' = [filename EXCEPT ![s] = f] /\ args' = [args EXCEPT ![s] = g]
      /\ given' = [given EXCEPT ![s] = command] /\ got' = [got EXCEPT ![s] = Nothing]
      /\ asked' = [asked EXCEPT ![s] = 0]
  BY DEF FillPcb
<1> HIDE DEF f, g, p
<1>7. /\ f \in Seq(STRING) /\ Buffer(f, FILENAME_SIZE)
      /\ g \in Seq(STRING) /\ Buffer(g, MAX_ARG_BUF_SIZE)
  BY <1>4, <1>5, BufferIs
<1>8. Nothing \in Seq(STRING)
  BY EmptySeq DEF Nothing
<1>9. /\ filename'[s] = f /\ args'[s] = g /\ given'[s] = command /\ got'[s] = Nothing
      /\ \A q \in Slot \ {s} : /\ filename'[q] = filename[q] /\ args'[q] = args[q]
                               /\ given'[q] = given[q] /\ got'[q] = got[q]
  BY <1>6 DEF PcbsOK
<1>10. PcbsOK'
  <2>1. /\ filename' \in [Slot -> Seq(STRING)] /\ args' \in [Slot -> Seq(STRING)]
        /\ got' \in [Slot -> Seq(STRING)] /\ DOMAIN given' = Slot
        /\ asked' \in [Slot -> Requests \cup {0}]
    BY <1>6, <1>7, <1>8 DEF PcbsOK
  <2>2. ASSUME NEW q \in Slot
        PROVE  /\ Buffer(filename'[q], FILENAME_SIZE) /\ Buffer(args'[q], MAX_ARG_BUF_SIZE)
               /\ got'[q] # Nothing => Buffer(got'[q], MAX_ARG_BUF_SIZE)
    BY <1>7, <1>9 DEF PcbsOK
  <2> QED
    BY <2>1, <2>2 DEF PcbsOK
<1>11. Loaded(s)'
  BY <1>4, <1>5, <1>9 DEF Loaded
<1> QED
  BY <1>9, <1>10, <1>11

(* A slot whose buffers halt clears.                                        *)
LEMMA ClearStep ==
    ASSUME PcbsOK, NEW s \in Slot,
           filename' = [filename EXCEPT ![s] = Clear(FILENAME_SIZE, @)],
           args' = [args EXCEPT ![s] = Clear(MAX_ARG_BUF_SIZE, @)],
           UNCHANGED <<given, got, asked>>
    PROVE  /\ PcbsOK'
           /\ \A q \in Slot \ {s} : filename'[q] = filename[q] /\ args'[q] = args[q]
<1>1. /\ filename[s] \in Seq(STRING) /\ Len(filename[s]) = FILENAME_SIZE
      /\ args[s] \in Seq(STRING) /\ Len(args[s]) = MAX_ARG_BUF_SIZE
  BY DEF PcbsOK, Buffer
<1>2. PICK f : f = Clear(FILENAME_SIZE, filename[s])
  OBVIOUS
<1>3. PICK g : g = Clear(MAX_ARG_BUF_SIZE, args[s])
  OBVIOUS
<1>4. /\ Holds(f, <<>>) /\ Len(f) = FILENAME_SIZE
      /\ Holds(g, <<>>) /\ Len(g) = MAX_ARG_BUF_SIZE
  BY <1>1, <1>2, <1>3, SizesPositive, ClearedIs, ClearedHolds
<1>5. /\ f \in Seq(STRING) /\ Buffer(f, FILENAME_SIZE)
      /\ g \in Seq(STRING) /\ Buffer(g, MAX_ARG_BUF_SIZE)
  BY <1>4, BufferIs
<1>6. /\ filename' = [filename EXCEPT ![s] = f] /\ args' = [args EXCEPT ![s] = g]
  BY <1>2, <1>3
<1>7. /\ filename'[s] = f /\ args'[s] = g
      /\ \A q \in Slot \ {s} : filename'[q] = filename[q] /\ args'[q] = args[q]
  BY <1>6 DEF PcbsOK
<1>8. /\ filename' \in [Slot -> Seq(STRING)] /\ args' \in [Slot -> Seq(STRING)]
  BY <1>5, <1>6 DEF PcbsOK
<1>9. ASSUME NEW q \in Slot
      PROVE  Buffer(filename'[q], FILENAME_SIZE) /\ Buffer(args'[q], MAX_ARG_BUF_SIZE)
  BY <1>5, <1>7 DEF PcbsOK
<1> QED
  BY <1>7, <1>8, <1>9 DEF PcbsOK

(* The process on the screen is in a slot.                                  *)
LEMMA CurrentAlive ==
    ASSUME Procs!StacksOK, Running
    PROVE  Current \in Slot /\ ~Procs!Free(Current)
<1> DEFINE n == Len(stack[focus])
<1>1. focus \in Terminal /\ stack[focus] \in Seq(Slot) /\ stack[focus] # <<>>
  BY DEF Procs!StacksOK, Running
<1>2. n \in 1 .. n /\ Current = stack[focus][n]
  <2>1. n \in Nat /\ n # 0
    BY <1>1, LenProperties, EmptySeq
  <2> QED
    BY <2>1 DEF Current, Last
<1>3. Current \in Slot
  BY <1>1, <1>2, ElementOfSeq
<1> QED
  BY <1>1, <1>2, <1>3 DEF Procs!Free, Procs!Contains, Contains

(* A terminal is opened or a program started.                               *)
LEMMA StartStep ==
    ASSUME CommandInv, Procs!Run \/ \E t \in Terminal : Procs!Open(t),
           NEW s, s = Last(stack'[focus']),
           NEW command \in Commands, FillPcb(s, command),
           rval' = [rval EXCEPT ![s] = 0]
    PROVE  CommandInv'
<1>1. Procs!StacksOK /\ PcbsOK
  BY DEF CommandInv
<1>2. /\ Procs!StacksOK' /\ s \in Slot
      /\ \A q \in Slot : Procs!Free(q)' <=> Procs!Free(q) /\ q # s
  BY <1>1, Procs!StartStack DEF Last, Procs!Last
<1>3. /\ PcbsOK' /\ Loaded(s)'
      /\ \A q \in Slot \ {s} : /\ filename'[q] = filename[q] /\ args'[q] = args[q]
                               /\ given'[q] = given[q] /\ got'[q] = got[q]
  BY <1>1, <1>2, FillStep
<1>4. rval' \in [Slot -> {0, NoSuchCommand, TooMany}]
  BY DEF CommandInv
<1>5. ASSUME NEW q \in Slot, ~Procs!Free(q)'
      PROVE  Loaded(q)'
  <2>1. CASE q = s
    BY <1>3, <2>1
  <2>2. CASE q # s
    <3>1. Loaded(q)
      BY <1>2, <1>5, <2>2 DEF CommandInv
    <3> QED
      BY <1>3, <2>2, <3>1 DEF Loaded
  <2> QED
    BY <2>1, <2>2
<1> QED
  BY <1>2, <1>3, <1>4, <1>5 DEF CommandInv

(* Steps that leave the PCBs alone.                                         *)
LEMMA OtherStep ==
    ASSUME CommandInv, Procs!StacksOK', stack' = stack,
           rval' \in [Slot -> {0, NoSuchCommand, TooMany}],
           UNCHANGED <<filename, args, given, got, asked>>
    PROVE  CommandInv'
<1>1. PcbsOK'
  BY DEF CommandInv, PcbsOK
<1>2. \A q \in Slot : (Procs!Free(q)' <=> Procs!Free(q)) /\ (Loaded(q)' <=> Loaded(q))
  BY DEF Procs!Free, Loaded
<1> QED
  BY <1>1, <1>2 DEF CommandInv

(* No process runs before the first terminal is opened.                     *)
LEMMA CommandInit == Init => CommandInv
<1> SUFFICES ASSUME Init PROVE CommandInv
  OBVIOUS
<1>1. \A t \in Terminal : stack[t] = <<>>
  BY DEF Init, Procs!Init
<1>2. Procs!StacksOK
  BY <1>1, EmptySeq, CommandLineAssumption DEF Init, Procs!Init, Procs!StacksOK
<1>3. \A s \in Slot : Procs!Free(s)
  BY <1>1 DEF Procs!Free, Procs!Contains
<1>4. PICK f : f = Cleared(FILENAME_SIZE)
  OBVIOUS
<1>5. PICK g : g = Cleared(MAX_ARG_BUF_SIZE)
  OBVIOUS
<1>6. /\ f \in Seq(STRING) /\ Buffer(f, FILENAME_SIZE)
      /\ g \in Seq(STRING) /\ Buffer(g, MAX_ARG_BUF_SIZE)
  BY <1>4, <1>5, SizesPositive, ClearedHolds, BufferIs
<1>7. /\ filename = [s \in Slot |-> f] /\ args = [s \in Slot |-> g]
      /\ got = [s \in Slot |-> Nothing] /\ DOMAIN given = Slot
      /\ asked = [s \in Slot |-> 0] /\ rval = [s \in Slot |-> 0]
  BY <1>4, <1>5 DEF Init
<1>8. Nothing \in Seq(STRING)
  BY EmptySeq DEF Nothing
<1>9. PcbsOK
  BY <1>6, <1>7, <1>8 DEF PcbsOK
<1> QED
  BY <1>2, <1>3, <1>7, <1>9 DEF CommandInv

(* One step per action.                                                     *)
LEMMA CommandStep == CommandInv /\ [Next]_vars => CommandInv'
<1> SUFFICES ASSUME CommandInv, [Next]_vars PROVE CommandInv'
  OBVIOUS
<1>1. /\ Procs!StacksOK /\ PcbsOK
      /\ rval \in [Slot -> {0, NoSuchCommand, TooMany}]
  BY DEF CommandInv
<1>2. CASE OpenTerminal
  <2>1. PICK s : s = Last(stack'[focus'])
    OBVIOUS
  <2>2. ShellName \in Commands
    BY DEF Commands
  <2> QED
    BY <1>2, <2>1, <2>2, StartStep DEF OpenTerminal
<1>3. CASE EnterCommand
  <2>1. PICK s : s = Last(stack'[focus'])
    OBVIOUS
  <2>2. PICK line \in Lines : /\ Procs!Run /\ FillPcb(s, line)
                              /\ rval' = [rval EXCEPT ![s] = 0]
    <3>1. Procs!Run => focus' = focus
      BY DEF Procs!Run
    <3> QED
      BY <1>3, <2>1, <3>1 DEF EnterCommand
  <2>3. line \in Commands
    BY DEF Commands
  <2> QED
    BY <2>1, <2>2, <2>3, StartStep
<1>4. CASE Switch
  <2>1. PICK t \in Terminal : Procs!Show(t)
    BY <1>4 DEF Switch
  <2>2. Procs!StacksOK' /\ stack' = stack
    BY <1>1, <2>1 DEF Procs!Show, Procs!StacksOK
  <2> QED
    BY <1>1, <1>4, <2>2, OtherStep DEF Switch
<1>5. CASE EnterUnknown \/ EnterWhenFull
  <2>1. PICK value \in {NoSuchCommand, TooMany} : Refused(value)
    BY <1>5 DEF EnterUnknown, EnterWhenFull
  <2>2. Procs!StacksOK'
    BY <1>1, <2>1 DEF Refused, Procs!StacksOK
  <2>3. rval' \in [Slot -> {0, NoSuchCommand, TooMany}]
    BY <1>1, <2>1 DEF Refused
  <2> QED
    BY <2>1, <2>2, <2>3, OtherStep DEF Refused
<1>6. CASE Getargs
  <2>1. PICK s : s = Current
    OBVIOUS
  <2>2. s \in Slot /\ ~Procs!Free(s) /\ Loaded(s)
    <3>1. Running
      BY <1>6 DEF Getargs
    <3> QED
      BY <1>1, <2>1, <3>1, CurrentAlive DEF CommandInv
  <2>3. PICK b : b = Copied(s)
    OBVIOUS
  <2>4. Holds(b, ArgsOf(given[s])) /\ Len(b) = MAX_ARG_BUF_SIZE
    <3>1. Text(args[s]) = ArgsOf(given[s])
      BY <2>2, HeldText DEF Loaded
    <3>2. ArgsOf(given[s]) \in Seq(Chars) /\ Len(ArgsOf(given[s])) < MAX_ARG_BUF_SIZE
      <4>1. /\ given[s] \in Seq(Chars)
            /\ Len(given[s]) < FILENAME_SIZE /\ Len(given[s]) < MAX_ARG_BUF_SIZE
        BY <2>2, CommandLineAssumption DEF Loaded, Commands, Chars
      <4> QED
        BY <4>1, ParseIs
    <3> QED
      BY <2>3, <3>1, <3>2, SizesPositive, FilledHolds DEF Copied
  <2>5. b \in Seq(STRING) /\ Buffer(b, MAX_ARG_BUF_SIZE)
    BY <2>4, BufferIs
  <2>6. PICK nbytes \in Requests :
           /\ got' = [got EXCEPT ![s] = b] /\ asked' = [asked EXCEPT ![s] = nbytes]
           /\ UNCHANGED <<stack, focus, filename, args, given, rval>>
    BY <1>6, <2>1, <2>3 DEF Getargs
  <2>7. PcbsOK'
    <3>1. got' \in [Slot -> Seq(STRING)]
      BY <2>5, <2>6 DEF PcbsOK, CommandInv
    <3>2. \A q \in Slot : got'[q] # Nothing => Buffer(got'[q], MAX_ARG_BUF_SIZE)
      BY <1>1, <2>5, <2>6 DEF PcbsOK
    <3>3. asked' \in [Slot -> Requests \cup {0}]
      BY <1>1, <2>6 DEF PcbsOK
    <3> QED
      BY <1>1, <2>6, <3>1, <3>2, <3>3 DEF PcbsOK
  <2>8. ASSUME NEW q \in Slot, ~Procs!Free(q)'
        PROVE  Loaded(q)'
    <3>1. Loaded(q)
      BY <2>6, <2>8 DEF CommandInv, Procs!Free
    <3>2. got'[q] # Nothing => Holds(got'[q], ArgsOf(given[q]))
      BY <1>1, <2>4, <2>6, <3>1 DEF Loaded, PcbsOK
    <3> QED
      BY <2>6, <3>1, <3>2 DEF Loaded
  <2>9. Procs!StacksOK'
    BY <1>1, <2>6 DEF Procs!StacksOK
  <2> QED
    BY <1>1, <2>6, <2>7, <2>8, <2>9 DEF CommandInv
<1>7. CASE Exit
  <2>1. PICK s : s = Current
    OBVIOUS
  <2>2. /\ Procs!Exit
        /\ filename' = [filename EXCEPT ![s] = Clear(FILENAME_SIZE, @)]
        /\ args' = [args EXCEPT ![s] = Clear(MAX_ARG_BUF_SIZE, @)]
        /\ UNCHANGED <<given, got, asked>>
    BY <1>7, <2>1 DEF Exit
  <2>3. /\ Procs!StacksOK' /\ s \in Slot
        /\ \A q \in Slot : Procs!Free(q)' <=> Procs!Free(q) \/ q = s
    BY <1>1, <2>1, <2>2, Procs!PopStack DEF Current, Last, Procs!Last
  <2>4. /\ PcbsOK'
        /\ \A q \in Slot \ {s} : filename'[q] = filename[q] /\ args'[q] = args[q]
    BY <1>1, <2>2, <2>3, ClearStep
  <2>5. rval' \in [Slot -> {0, NoSuchCommand, TooMany}]
    BY <1>1, <1>7 DEF Exit
  <2>6. ASSUME NEW q \in Slot, ~Procs!Free(q)'
        PROVE  Loaded(q)'
    <3>1. q # s /\ Loaded(q)
      BY <2>3, <2>6 DEF CommandInv
    <3> QED
      BY <2>2, <2>4, <3>1 DEF Loaded
  <2> QED
    BY <2>3, <2>4, <2>5, <2>6 DEF CommandInv
<1>8. CASE Restart
  <2>1. PICK s : s = Current
    OBVIOUS
  <2>2. s \in Slot
    <3>1. Running
      BY <1>8 DEF Restart, Ends
    <3> QED
      BY <1>1, <2>1, <3>1, CurrentAlive
  <2>3. FillPcb(s, ShellName) /\ rval' = [rval EXCEPT ![s] = 0] /\ UNCHANGED <<stack, focus>>
    BY <1>8, <2>1 DEF Restart
  <2>4. /\ PcbsOK' /\ Loaded(s)'
        /\ \A q \in Slot \ {s} : /\ filename'[q] = filename[q] /\ args'[q] = args[q]
                                 /\ given'[q] = given[q] /\ got'[q] = got[q]
    BY <1>1, <2>2, <2>3, FillStep DEF Commands
  <2>5. Procs!StacksOK' /\ rval' \in [Slot -> {0, NoSuchCommand, TooMany}]
    <3>1. Procs!StacksOK'
      BY <1>1, <2>3 DEF Procs!StacksOK
    <3>2. rval' \in [Slot -> {0, NoSuchCommand, TooMany}]
      BY <1>1, <2>3
    <3> QED
      BY <3>1, <3>2
  <2>6. ASSUME NEW q \in Slot, ~Procs!Free(q)'
        PROVE  Loaded(q)'
    <3>1. Loaded(q)
      BY <2>3, <2>6 DEF CommandInv, Procs!Free
    <3> QED
      BY <2>4, <3>1 DEF Loaded
  <2> QED
    BY <2>4, <2>5, <2>6 DEF CommandInv
<1>9. CASE UNCHANGED vars
  <2>1. Procs!StacksOK' /\ stack' = stack /\ rval' \in [Slot -> {0, NoSuchCommand, TooMany}]
    BY <1>1, <1>9 DEF Procs!StacksOK, vars
  <2> QED
    BY <1>9, <2>1, OtherStep DEF vars
<1> QED
  BY <1>2, <1>3, <1>4, <1>5, <1>6, <1>7, <1>8, <1>9 DEF Next

(* The invariant of every run.                                              *)
LEMMA CommandInductive == Spec => []CommandInv
BY CommandInit, CommandStep, PTL DEF Spec

(* Every buffer of a PCB, and what getargs filled, keeps its size and holds *)
(* a string that ends within it.                                            *)
THEOREM TypeCorrect == Spec => []TypeOK
<1>1. CommandInv => TypeOK
  <2> SUFFICES ASSUME CommandInv PROVE TypeOK
    OBVIOUS
  <2>1. ASSUME NEW b, NEW size, Buffer(b, size)
        PROVE  Len(b) = size /\ Contains(b, NUL)
    BY <2>1, EndedHolds DEF Buffer
  <2> QED
    BY <2>1 DEF CommandInv, PcbsOK, TypeOK
<1> QED
  BY <1>1, CommandInductive, PTL

(* Each process has the name and the arguments of its own line, and gets    *)
(* them into every buffer that is large enough (execute, halt, getargs).    *)
THEOREM ArgumentsArrive == Spec => []ArgsArrive
<1>1. CommandInv => ArgsArrive
  <2> SUFFICES ASSUME CommandInv, NEW s \in Alive
               PROVE  /\ Text(filename[s]) = NameOf(given[s])
                      /\ Text(args[s]) = ArgsOf(given[s])
                      /\ \A nbytes \in Requests : Fits(s, nbytes) =>
                            (Fails(s, nbytes) <=> ArgsOf(given[s]) = <<>>)
                      /\ got[s] # Nothing => Text(got[s]) = ArgsOf(given[s])
    BY DEF ArgsArrive
  <2>1. s \in Slot /\ ~Procs!Free(s)
    BY DEF Alive
  <2>2. Loaded(s)
    BY <2>1 DEF CommandInv
  <2>3. args[s][1] = NUL <=> ArgsOf(given[s]) = <<>>
    BY <2>2, EndedHolds DEF Loaded
  <2>4. ASSUME NEW nbytes \in Requests, Fits(s, nbytes)
        PROVE  Fails(s, nbytes) <=> args[s][1] = NUL
    <3>1. /\ given[s] \in Seq(Chars)
          /\ Len(given[s]) < FILENAME_SIZE /\ Len(given[s]) < MAX_ARG_BUF_SIZE
      BY <2>2, CommandLineAssumption DEF Loaded, Commands, Chars
    <3>2. ArgsOf(given[s]) \in Seq(Chars)
      BY <3>1, ParseIs
    <3>3. Len(ArgsOf(given[s])) \in Nat
      BY <3>2, LenProperties
    <3>4. nbytes \in Int /\ nbytes > 0
      BY <2>4, <3>3, CommandLineAssumption DEF Fits
    <3> QED
      BY <3>4 DEF Fails
  <2> QED
    BY <2>2, <2>3, <2>4, HeldText DEF Loaded
<1> QED
  BY <1>1, CommandInductive, PTL

-----------------------------------------------------------------------------
(***************************************************************************)
(* The library's calls, from here on.  First numbers, and memory: what the *)
(* string instructions do to rows of units.                                *)
(***************************************************************************)
(* What holds of 0, and of a number's successor with it, holds up to n.      *)
LEMMA UpTo ==
    ASSUME NEW n \in Nat, NEW T, 0 \in T, \A i \in 1 .. n : i - 1 \in T => i \in T
    PROVE  0 .. n \subseteq T
<1> DEFINE Missed == {i \in 0 .. n : i \notin T}
<1>1. ASSUME Missed # {}
      PROVE  FALSE
  <2>1. PICK i \in Missed : \A j \in Missed : i <= j
    <3>1. Missed \in SUBSET Nat
      OBVIOUS
    <3> HIDE DEF Missed
    <3> QED
      BY <1>1, <3>1, LeastNumber
  <2>2. i \in 1 .. n /\ i - 1 \in 0 .. n /\ i - 1 \notin Missed
    BY <2>1
  <2> QED
    BY <2>1, <2>2
<1> QED
  BY <1>1

-----------------------------------------------------------------------------
(* rep stos: bytes in a row, all of them at once.                           *)
LEMMA StosUp ==
    ASSUME NEW mem, DOMAIN mem \subseteq Int, NEW edi \in Int, NEW count \in Nat,
           NEW width \in {1, 2, 4}, NEW bytes
    PROVE  rep_stos(mem, edi, count, width, bytes, Up) =
             [a \in DOMAIN mem |-> IF a - edi \in 0 .. count * width - 1
                                   THEN bytes[(a - edi) % width] ELSE mem[a]]
<1> DEFINE Over(a) == {k \in 0 .. count - 1 : a - Unit(edi, k, width, Up) \in 0 .. width - 1}
           old(a) == IF Over(a) = {} THEN mem[a]
                     ELSE bytes[a - Unit(edi, Min(Over(a)), width, Up)]
           new(a) == IF a - edi \in 0 .. count * width - 1
                     THEN bytes[(a - edi) % width] ELSE mem[a]
<1>1. ASSUME NEW a \in Int
      PROVE  old(a) = new(a)
  <2>1. \A k \in 0 .. count - 1 : k \in Over(a) <=> a - (edi + k * width) \in 0 .. width - 1
    BY DEF Unit, Up, Down
  <2>2. CASE a - edi \in 0 .. count * width - 1
    <3>1. PICK k \in 0 .. count - 1 : a - (edi + k * width) = (a - edi) % width
      <4>1. CASE width = 1
        <5>1. a - edi \in 0 .. count - 1 /\ (a - edi) % 1 = 0 /\ a - (edi + (a - edi) * 1) = 0
          BY <2>2, <4>1
        <5> QED
          BY <4>1, <5>1
      <4>2. CASE width = 2
        <5>1. (a - edi) \div 2 \in 0 .. count - 1
              /\ a - (edi + ((a - edi) \div 2) * 2) = (a - edi) % 2
          BY <2>2, <4>2
        <5> QED
          BY <4>2, <5>1
      <4>3. CASE width = 4
        <5>1. (a - edi) \div 4 \in 0 .. count - 1
              /\ a - (edi + ((a - edi) \div 4) * 4) = (a - edi) % 4
          BY <2>2, <4>3
        <5> QED
          BY <4>3, <5>1
      <4> QED
        BY <4>1, <4>2, <4>3
    <3>2. (a - edi) % width \in 0 .. width - 1
      BY <2>2
    <3>3. k \in Over(a)
      BY <2>1, <3>1, <3>2
    <3>4. \A j \in Over(a) : j = k
      <4>1. \A j \in 0 .. count - 1 : a - (edi + j * width) \in 0 .. width - 1
                                      /\ a - (edi + k * width) \in 0 .. width - 1 => j = k
        OBVIOUS
      <4> QED
        BY <2>1, <3>3, <4>1
    <3>5. Min(Over(a)) = k
      <4> HIDE DEF Over
      <4>1. Over(a) = {k}
        BY <3>3, <3>4
      <4>2. Min({k}) \in {k}
        BY MinIs
      <4> QED
        BY <4>1, <4>2
    <3>6. Unit(edi, k, width, Up) = edi + k * width
      BY DEF Unit, Up, Down
    <3> HIDE DEF Over
    <3> QED
      BY <2>2, <3>1, <3>3, <3>5, <3>6
  <2>3. CASE a - edi \notin 0 .. count * width - 1
    <3>1. \A k \in 0 .. count - 1 : a - (edi + k * width) \notin 0 .. width - 1
      BY <2>3
    <3>2. Over(a) = {}
      BY <2>1, <3>1
    <3> HIDE DEF Over
    <3> QED
      BY <2>3, <3>2
  <2> QED
    BY <2>2, <2>3
<1>2. rep_stos(mem, edi, count, width, bytes, Up) = [a \in DOMAIN mem |-> old(a)]
  BY DEF rep_stos
<1> HIDE DEF old
<1> QED
  BY <1>1, <1>2

(* rep movs: one unit after the other.                                      *)
MovedOne(mem, d, s, width) ==
    [a \in DOMAIN mem |-> IF a - d \in 0 .. width - 1 THEN mem[s + (a - d)] ELSE mem[a]]

(* g[k] is the memory after k units.                                        *)
MovedBy(g, mem, esi, edi, count, width, dir) ==
    /\ g = [k \in 0 .. count |-> g[k]] /\ g[0] = mem
    /\ \A k \in 0 .. count : DOMAIN g[k] = DOMAIN mem
    /\ \A k \in 1 .. count :
          g[k] = MovedOne(g[k - 1], Unit(edi, k - 1, width, dir),
                            Unit(esi, k - 1, width, dir), width)

(* What a row of moves does is what any function of its steps does at its   *)
(* last.                                                                    *)
LEMMA Movs ==
    ASSUME NEW mem, NEW esi, NEW edi, NEW count \in Nat, NEW width, NEW dir,
           NEW g, MovedBy(g, mem, esi, edi, count, width, dir)
    PROVE  rep_movs(mem, esi, edi, count, width, dir) = g[count]
<1>0. /\ g = [k \in 0 .. count |-> g[k]] /\ g[0] = mem
      /\ \A k \in 0 .. count : DOMAIN g[k] = DOMAIN mem
      /\ \A k \in 1 .. count :
            g[k] = MovedOne(g[k - 1], Unit(edi, k - 1, width, dir),
                            Unit(esi, k - 1, width, dir), width)
  BY DEF MovedBy
<1> DEFINE D(k) == Unit(edi, k - 1, width, dir)
           S(k) == Unit(esi, k - 1, width, dir)
           F(f) == [k \in 0 .. count |-> IF k = 0 THEN mem
                      ELSE [a \in DOMAIN mem |-> IF a - D(k) \in 0 .. width - 1
                                                 THEN f[k - 1][S(k) + (a - D(k))]
                                                 ELSE f[k - 1][a]]]
<1>1. ASSUME NEW k \in 1 .. count
      PROVE  g[k] = [a \in DOMAIN mem |-> IF a - D(k) \in 0 .. width - 1
                                          THEN g[k - 1][S(k) + (a - D(k))]
                                          ELSE g[k - 1][a]]
  <2>1. k - 1 \in 0 .. count /\ DOMAIN g[k - 1] = DOMAIN mem
    BY <1>0
  <2> HIDE DEF D, S
  <2>2. g[k] = MovedOne(g[k - 1], D(k), S(k), width)
    BY <1>0 DEF D, S
  <2> QED
    BY <2>1, <2>2 DEF MovedOne
<1>2. g = F(g)
  <2> HIDE DEF D, S
  <2>1. ASSUME NEW k \in 0 .. count
        PROVE  g[k] = F(g)[k]
    <3>1. CASE k = 0
      BY <1>0, <3>1
    <3>2. CASE k # 0
      <4>1. k \in 1 .. count
        BY <3>2
      <4>2. F(g)[k] = [a \in DOMAIN mem |-> IF a - D(k) \in 0 .. width - 1
                                            THEN g[k - 1][S(k) + (a - D(k))]
                                            ELSE g[k - 1][a]]
        BY <3>2
      <4> QED
        BY <1>1, <4>1, <4>2
    <3> QED
      BY <3>1, <3>2
  <2> HIDE DEF F
  <2>3. F(g) = [k \in 0 .. count |-> F(g)[k]]
    BY DEF F
  <2> QED
    BY <1>0, <2>1, <2>3
<1>3. rep_movs(mem, esi, edi, count, width, dir) = (CHOOSE f : f = F(f))[count]
  BY DEF rep_movs
<1>4. PICK h : h = (CHOOSE f : f = F(f))
  OBVIOUS
<1> HIDE DEF F
<1>5. h = F(h)
  BY <1>2, <1>4
<1> HIDE DEF D, S
<1>6. h[0] = mem
  BY <1>5 DEF F
<1>7. ASSUME NEW k \in 1 .. count, h[k - 1] = g[k - 1]
      PROVE  h[k] = g[k]
  <2>1. k \in 0 .. count /\ k # 0
    OBVIOUS
  <2>2. h[k] = [a \in DOMAIN mem |-> IF a - D(k) \in 0 .. width - 1
                                     THEN h[k - 1][S(k) + (a - D(k))]
                                     ELSE h[k - 1][a]]
    BY <1>5, <2>1 DEF F
  <2> QED
    BY <1>1, <1>7, <2>2
<1>8. PICK T : T = {k \in 0 .. count : h[k] = g[k]}
  OBVIOUS
<1>9. 0 .. count \subseteq T
  <2>1. 0 \in T
    BY <1>0, <1>6, <1>8
  <2>2. \A k \in 1 .. count : k - 1 \in T => k \in T
    BY <1>7, <1>8
  <2> QED
    BY <2>1, <2>2, UpTo
<1>10. h[count] = g[count]
  BY <1>8, <1>9
<1> QED
  BY <1>3, <1>4, <1>10

(* n bytes of mem from src on, at dest; the rest is as it was.              *)
Placed(mem, dest, src, n) ==
    [a \in DOMAIN mem |-> IF a - dest \in 0 .. n - 1 THEN mem[src + (a - dest)] ELSE mem[a]]

(* Upwards a block is moved whole unless it overwrites what is still to be  *)
(* read.                                                                    *)
LEMMA MovsUp ==
    ASSUME NEW mem, mem = [a \in DOMAIN mem |-> mem[a]], DOMAIN mem \subseteq Int,
           NEW src \in Int, NEW dest \in Int,
           NEW count \in Nat, NEW width \in {1, 2, 4},
           \A j \in 0 .. count * width - 1 : src + j \in DOMAIN mem,
           dest <= src \/ src + count * width <= dest
    PROVE  rep_movs(mem, src, dest, count, width, Up) = Placed(mem, dest, src, count * width)
<1> DEFINE g == [k \in 0 .. count |-> Placed(mem, dest, src, k * width)]
<1>1. g[0] = mem
  <2>1. g[0] = Placed(mem, dest, src, 0)
    OBVIOUS
  <2>2. \A a \in DOMAIN mem : a - dest \notin 0 .. 0 - 1
    OBVIOUS
  <2> QED
    BY <2>1, <2>2 DEF Placed
<1>2. \A k \in 0 .. count : DOMAIN g[k] = DOMAIN mem
  BY DEF Placed
<1>3. ASSUME NEW k \in 1 .. count
      PROVE  g[k] = MovedOne(g[k - 1], Unit(dest, k - 1, width, Up),
                             Unit(src, k - 1, width, Up), width)
  <2>1. PICK p \in Int : p = (k - 1) * width
    OBVIOUS
  <2>2. /\ Unit(dest, k - 1, width, Up) = dest + p /\ Unit(src, k - 1, width, Up) = src + p
        /\ k * width = p + width /\ p >= 0 /\ p + width <= count * width
    BY <2>1 DEF Unit, Up, Down
  <2>3. PICK m : m = Placed(mem, dest, src, p)
    OBVIOUS
  <2>4. g[k - 1] = m /\ g[k] = Placed(mem, dest, src, p + width)
    BY <2>1, <2>2, <2>3
  <2>5. MovedOne(m, dest + p, src + p, width) =
          [a \in DOMAIN mem |-> IF a - (dest + p) \in 0 .. width - 1
                                THEN m[(src + p) + (a - (dest + p))] ELSE m[a]]
    BY <2>3 DEF MovedOne, Placed
  <2>6. ASSUME NEW a \in DOMAIN mem
        PROVE  (IF a - (dest + p) \in 0 .. width - 1
                THEN m[(src + p) + (a - (dest + p))] ELSE m[a])
               = IF a - dest \in 0 .. p + width - 1 THEN mem[src + (a - dest)] ELSE mem[a]
    <3>1. CASE a - (dest + p) \in 0 .. width - 1
      <4>1. (src + p) + (a - (dest + p)) = src + (a - dest)
        OBVIOUS
      <4>2. a - dest \in 0 .. p + width - 1 /\ a - dest \in 0 .. count * width - 1
        BY <2>2, <3>1
      <4>3. src + (a - dest) \in DOMAIN mem
        BY <4>2
      <4>4. (src + (a - dest)) - dest \notin 0 .. p - 1
        BY <2>2, <3>1, <4>2
      <4>5. m[src + (a - dest)] = mem[src + (a - dest)]
        BY <2>3, <4>3, <4>4 DEF Placed
      <4> QED
        BY <3>1, <4>1, <4>2, <4>5
    <3>2. CASE a - (dest + p) \notin 0 .. width - 1
      <4>1. a - dest \in 0 .. p + width - 1 <=> a - dest \in 0 .. p - 1
        BY <2>2, <3>2
      <4>2. m[a] = IF a - dest \in 0 .. p - 1 THEN mem[src + (a - dest)] ELSE mem[a]
        BY <2>3 DEF Placed
      <4> QED
        BY <3>2, <4>1, <4>2
    <3> QED
      BY <3>1, <3>2
  <2>7. MovedOne(m, dest + p, src + p, width) = Placed(mem, dest, src, p + width)
    BY <2>5, <2>6 DEF Placed
  <2> HIDE DEF g
  <2> QED
    BY <2>2, <2>4, <2>7
<1>4. g = [k \in 0 .. count |-> g[k]]
  OBVIOUS
<1>5. g[count] = Placed(mem, dest, src, count * width)
  OBVIOUS
<1> HIDE DEF g
<1>6. MovedBy(g, mem, src, dest, count, width, Up)
  BY <1>1, <1>2, <1>3, <1>4 DEF MovedBy
<1>7. rep_movs(mem, src, dest, count, width, Up) = g[count]
  BY <1>6, Movs
<1> QED
  BY <1>5, <1>7

(* From the last byte down.                                                 *)
PlacedFrom(mem, dest, src, i, n) ==
    [a \in DOMAIN mem |-> IF a - dest \in i .. n - 1 THEN mem[src + (a - dest)] ELSE mem[a]]

(* Downwards a block is moved whole onto the same place or one behind.      *)
LEMMA MovsDown ==
    ASSUME NEW mem, mem = [a \in DOMAIN mem |-> mem[a]], DOMAIN mem \subseteq Int,
           NEW src \in Int, NEW dest \in Int,
           NEW n \in Nat, \A j \in 0 .. n - 1 : src + j \in DOMAIN mem, src <= dest
    PROVE  rep_movs(mem, src + n - 1, dest + n - 1, n, 1, Down) = Placed(mem, dest, src, n)
<1> DEFINE g == [k \in 0 .. n |-> PlacedFrom(mem, dest, src, n - k, n)]
<1>1. g[0] = mem
  <2>1. g[0] = PlacedFrom(mem, dest, src, n, n)
    OBVIOUS
  <2>2. \A a \in DOMAIN mem : a - dest \notin n .. n - 1
    OBVIOUS
  <2> QED
    BY <2>1, <2>2 DEF PlacedFrom
<1>2. \A k \in 0 .. n : DOMAIN g[k] = DOMAIN mem
  BY DEF PlacedFrom
<1>3. ASSUME NEW k \in 1 .. n
      PROVE  g[k] = MovedOne(g[k - 1], Unit(dest + n - 1, k - 1, 1, Down),
                             Unit(src + n - 1, k - 1, 1, Down), 1)
  <2>1. PICK i \in 0 .. n - 1 : i = n - k
    OBVIOUS
  <2>2. /\ Unit(dest + n - 1, k - 1, 1, Down) = dest + i
        /\ Unit(src + n - 1, k - 1, 1, Down) = src + i
    BY <2>1 DEF Unit, Up, Down
  <2>3. PICK m : m = PlacedFrom(mem, dest, src, i + 1, n)
    OBVIOUS
  <2>4. g[k - 1] = m /\ g[k] = PlacedFrom(mem, dest, src, i, n)
    <3>1. n - (k - 1) = i + 1 /\ k - 1 \in 0 .. n /\ k \in 0 .. n
      BY <2>1
    <3> QED
      BY <2>1, <2>3, <3>1
  <2>5. MovedOne(m, dest + i, src + i, 1) =
          [a \in DOMAIN mem |-> IF a - (dest + i) \in 0 .. 1 - 1
                                THEN m[(src + i) + (a - (dest + i))] ELSE m[a]]
    BY <2>3 DEF MovedOne, PlacedFrom
  <2>6. ASSUME NEW a \in DOMAIN mem
        PROVE  (IF a - (dest + i) \in 0 .. 1 - 1
                THEN m[(src + i) + (a - (dest + i))] ELSE m[a])
               = IF a - dest \in i .. n - 1 THEN mem[src + (a - dest)] ELSE mem[a]
    <3>1. CASE a = dest + i
      <4>1. a - (dest + i) = 0 /\ (src + i) + (a - (dest + i)) = src + i /\ a - dest = i
            /\ a - dest \in i .. n - 1 /\ a - (dest + i) \in 0 .. 1 - 1
        BY <3>1
      <4>2. src + i \in DOMAIN mem
        OBVIOUS
      <4>3. (src + i) - dest \notin i + 1 .. n - 1
        OBVIOUS
      <4>4. m[src + i] = mem[src + i]
        BY <2>3, <4>2, <4>3 DEF PlacedFrom
      <4> QED
        BY <4>1, <4>4
    <3>2. CASE a # dest + i
      <4>1. /\ a - (dest + i) \notin 0 .. 1 - 1
            /\ a - dest \in i .. n - 1 <=> a - dest \in i + 1 .. n - 1
        BY <3>2
      <4>2. m[a] = IF a - dest \in i + 1 .. n - 1 THEN mem[src + (a - dest)] ELSE mem[a]
        BY <2>3 DEF PlacedFrom
      <4> QED
        BY <4>1, <4>2
    <3> QED
      BY <3>1, <3>2
  <2>7. MovedOne(m, dest + i, src + i, 1) = PlacedFrom(mem, dest, src, i, n)
    BY <2>5, <2>6 DEF PlacedFrom
  <2> HIDE DEF g
  <2> QED
    BY <2>2, <2>4, <2>7
<1>4. g = [k \in 0 .. n |-> g[k]]
  OBVIOUS
<1>5. g[n] = Placed(mem, dest, src, n)
  BY DEF Placed, PlacedFrom
<1> HIDE DEF g
<1>6. PICK e \in Int, d \in Int : e = src + n - 1 /\ d = dest + n - 1
  OBVIOUS
<1>7. MovedBy(g, mem, e, d, n, 1, Down)
  BY <1>1, <1>2, <1>3, <1>4, <1>6 DEF MovedBy
<1>8. rep_movs(mem, e, d, n, 1, Down) = g[n]
  BY <1>7, Movs
<1> QED
  BY <1>5, <1>6, <1>8

(* Two blocks that follow each other.                                       *)
LEMMA PlacedTwice ==
    ASSUME NEW mem, mem = [a \in DOMAIN mem |-> mem[a]], DOMAIN mem \subseteq Int,
           NEW src \in Int, NEW dest \in Int,
           NEW n \in Nat, NEW m \in Nat,
           \A j \in 0 .. n + m - 1 : src + j \in DOMAIN mem,
           dest <= src \/ src + n + m <= dest
    PROVE  Placed(Placed(mem, dest, src, n), dest + n, src + n, m) = Placed(mem, dest, src, n + m)
<1>1. PICK p : p = Placed(mem, dest, src, n)
  OBVIOUS
<1>2. Placed(p, dest + n, src + n, m) =
        [a \in DOMAIN mem |-> IF a - (dest + n) \in 0 .. m - 1
                              THEN p[(src + n) + (a - (dest + n))] ELSE p[a]]
  BY <1>1 DEF Placed
<1>3. ASSUME NEW a \in DOMAIN mem
      PROVE  (IF a - (dest + n) \in 0 .. m - 1 THEN p[(src + n) + (a - (dest + n))] ELSE p[a])
             = IF a - dest \in 0 .. n + m - 1 THEN mem[src + (a - dest)] ELSE mem[a]
  <2>1. CASE a - (dest + n) \in 0 .. m - 1
    <3>1. /\ (src + n) + (a - (dest + n)) = src + (a - dest)
          /\ a - dest \in 0 .. n + m - 1 /\ (src + (a - dest)) - dest \notin 0 .. n - 1
      BY <2>1
    <3>2. p[src + (a - dest)] = mem[src + (a - dest)]
      BY <1>1, <3>1 DEF Placed
    <3> QED
      BY <2>1, <3>1, <3>2
  <2>2. CASE a - (dest + n) \notin 0 .. m - 1
    <3>1. a - dest \in 0 .. n + m - 1 <=> a - dest \in 0 .. n - 1
      BY <2>2
    <3>2. p[a] = IF a - dest \in 0 .. n - 1 THEN mem[src + (a - dest)] ELSE mem[a]
      BY <1>1 DEF Placed
    <3> QED
      BY <2>2, <3>1, <3>2
  <2> QED
    BY <2>1, <2>2
<1> QED
  BY <1>1, <1>2, <1>3 DEF Placed

(* memset: head, words and tail are one row of bytes.                       *)
LEMMA UnalignedIs ==
    ASSUME NEW edi \in Int, NEW n \in Nat
    PROVE  Unaligned(edi, n) \in 0 .. n
<1>1. PICK k \in 0 .. 3 : k = (4 - (edi % 4)) % 4
  OBVIOUS
<1>2. Min({n, k}) \in {n, k} /\ \A y \in {n, k} : Min({n, k}) <= y
  <2>1. {n, k} \in SUBSET Nat /\ {n, k} # {}
    OBVIOUS
  <2> QED
    BY <2>1, MinIs
<1>3. Unaligned(edi, n) = Min({n, k})
  BY <1>1 DEF Unaligned
<1> QED
  BY <1>2, <1>3

Filled1(mem, s, n, c) ==
    [a \in DOMAIN mem |-> IF a - s \in 0 .. n - 1 THEN c % 256 ELSE mem[a]]

(* Of a filler that repeats one byte, words make the row that bytes make.   *)
LEMMA StosFills ==
    ASSUME NEW mem, DOMAIN mem \subseteq Int, NEW s \in Int, NEW c \in Nat,
           NEW count \in Nat, NEW width \in {1, 4}
    PROVE  rep_stos(mem, s, count, width, Filler(c), Up)
             = Filled1(mem, s, count * width, c)
<1>1. PICK f : f = Filler(c)
  OBVIOUS
<1>2. rep_stos(mem, s, count, width, f, Up) =
        [a \in DOMAIN mem |-> IF a - s \in 0 .. count * width - 1
                              THEN f[(a - s) % width] ELSE mem[a]]
  BY StosUp
<1>3. \A a \in DOMAIN mem : f[(a - s) % width] = c % 256
  <2>1. \A a \in DOMAIN mem : (a - s) % width \in 0 .. 3
    OBVIOUS
  <2> QED
    BY <1>1, <2>1 DEF Filler
<1> QED
  BY <1>1, <1>2, <1>3 DEF Filled1

(* Two rows that follow each other are one.                                 *)
LEMMA FilledTwice ==
    ASSUME NEW mem, DOMAIN mem \subseteq Int, NEW s \in Int, NEW c \in Nat,
           NEW n \in Nat, NEW m \in Nat
    PROVE  Filled1(Filled1(mem, s, n, c), s + n, m, c) = Filled1(mem, s, n + m, c)
<1>1. PICK p : p = Filled1(mem, s, n, c)
  OBVIOUS
<1>2. DOMAIN p = DOMAIN mem
  BY <1>1 DEF Filled1
<1>3. ASSUME NEW a \in DOMAIN mem
      PROVE  (IF a - (s + n) \in 0 .. m - 1 THEN c % 256 ELSE p[a])
             = IF a - s \in 0 .. n + m - 1 THEN c % 256 ELSE mem[a]
  BY <1>1 DEF Filled1
<1> QED
  BY <1>1, <1>2, <1>3 DEF Filled1

(* memset fills the block, at every alignment and length.                   *)
LEMMA MemsetFills ==
    ASSUME NEW mem, DOMAIN mem \subseteq Int, NEW s \in Int, NEW c \in Nat, NEW n \in Nat,
           NEW flag
    PROVE  memset(mem, flag, s, c, n).mem = Filled1(mem, s, n, c)
<1>1. PICK h \in 0 .. n : h = Unaligned(s, n)
  BY UnalignedIs
<1>2. PICK q \in Nat, r \in Nat : q = (n - h) \div 4 /\ r = (n - h) % 4 /\ h + q * 4 + r = n
  OBVIOUS
<1>3. PICK m1 : m1 = Filled1(mem, s, h, c)
  OBVIOUS
<1>4. PICK m2 : m2 = Filled1(m1, s + h, q * 4, c)
  OBVIOUS
<1>5. DOMAIN m1 = DOMAIN mem /\ DOMAIN m2 = DOMAIN mem
  BY <1>3, <1>4 DEF Filled1
<1>6. rep_stos(mem, s, h, 1, Filler(c), Up) = m1
  BY <1>3, StosFills
<1>7. rep_stos(m1, s + h, q, 4, Filler(c), Up) = m2
  BY <1>4, <1>5, StosFills
<1>8. rep_stos(m2, s + h + 4 * q, r, 1, Filler(c), Up) = Filled1(m2, s + h + 4 * q, r, c)
  BY <1>5, StosFills
<1>9. memset(mem, flag, s, c, n).mem = Filled1(m2, s + h + 4 * q, r, c)
  BY <1>1, <1>2, <1>6, <1>7, <1>8 DEF memset
<1>10. m2 = Filled1(mem, s, h + q * 4, c)
  BY <1>3, <1>4, FilledTwice
<1>11. Filled1(m2, s + (h + q * 4), r, c) = Filled1(mem, s, h + q * 4 + r, c)
  <2>1. PICK k \in Nat : k = h + q * 4
    OBVIOUS
  <2>2. Filled1(Filled1(mem, s, k, c), s + k, r, c) = Filled1(mem, s, k + r, c)
    BY FilledTwice
  <2> QED
    BY <1>10, <2>1, <2>2
<1>12. s + h + 4 * q = s + (h + q * 4)
  OBVIOUS
<1> QED
  BY <1>2, <1>9, <1>11, <1>12

(* memcpy moves the block unless it overwrites what is still to be read.    *)
LEMMA MemcpyCopies ==
    ASSUME NEW mem, mem = [a \in DOMAIN mem |-> mem[a]], DOMAIN mem \subseteq Int,
           NEW src \in Int, NEW dest \in Int, NEW n \in Nat, NEW flag,
           \A j \in 0 .. n - 1 : src + j \in DOMAIN mem,
           dest <= src \/ src + n <= dest
    PROVE  memcpy(mem, flag, dest, src, n).mem = Placed(mem, dest, src, n)
<1>1. PICK h \in 0 .. n : h = Unaligned(dest, n)
  BY UnalignedIs
<1>2. PICK q \in Nat, r \in Nat : q = (n - h) \div 4 /\ r = (n - h) % 4 /\ h + q * 4 + r = n
  OBVIOUS
<1>3. PICK m1 : m1 = Placed(mem, dest, src, h)
  OBVIOUS
<1>4. PICK m2 : m2 = Placed(m1, dest + h, src + h, q * 4)
  OBVIOUS
<1>5. /\ DOMAIN m1 = DOMAIN mem /\ m1 = [a \in DOMAIN m1 |-> m1[a]]
      /\ DOMAIN m2 = DOMAIN mem /\ m2 = [a \in DOMAIN m2 |-> m2[a]]
  BY <1>3, <1>4 DEF Placed
<1>6. rep_movs(mem, src, dest, h, 1, Up) = m1
  <2>1. \A j \in 0 .. h * 1 - 1 : src + j \in DOMAIN mem
    OBVIOUS
  <2>2. rep_movs(mem, src, dest, h, 1, Up) = Placed(mem, dest, src, h * 1)
    BY <2>1, MovsUp
  <2> QED
    BY <1>3, <2>2
<1>7. rep_movs(m1, src + h, dest + h, q, 4, Up) = m2
  <2>1. PICK s \in Int, d \in Int : s = src + h /\ d = dest + h
    OBVIOUS
  <2>2. ASSUME NEW j \in 0 .. q * 4 - 1
        PROVE  s + j \in DOMAIN m1
    <3>1. h + j \in 0 .. n - 1 /\ s + j = src + (h + j)
      BY <1>2, <2>1
    <3> QED
      BY <1>5, <3>1
  <2>3. d <= s \/ s + q * 4 <= d
    BY <1>2, <2>1
  <2>4. rep_movs(m1, s, d, q, 4, Up) = Placed(m1, d, s, q * 4)
    BY <1>5, <2>2, <2>3, MovsUp
  <2> QED
    BY <1>4, <2>1, <2>4
<1>8. PICK s \in Int, d \in Int : s = src + h + 4 * q /\ d = dest + h + 4 * q
  OBVIOUS
<1>9. rep_movs(m2, s, d, r, 1, Up) = Placed(m2, d, s, r)
  <2>1. ASSUME NEW j \in 0 .. r * 1 - 1
        PROVE  s + j \in DOMAIN m2
    <3>1. h + q * 4 + j \in 0 .. n - 1 /\ s + j = src + (h + q * 4 + j)
      BY <1>2, <1>8
    <3> QED
      BY <1>5, <3>1
  <2>2. d <= s \/ s + r * 1 <= d
    BY <1>2, <1>8
  <2>3. rep_movs(m2, s, d, r, 1, Up) = Placed(m2, d, s, r * 1)
    BY <1>5, <2>1, <2>2, MovsUp
  <2> QED
    BY <2>3
<1>10. memcpy(mem, flag, dest, src, n).mem = Placed(m2, d, s, r)
  BY <1>1, <1>2, <1>6, <1>7, <1>8, <1>9 DEF memcpy
<1>11. m2 = Placed(mem, dest, src, h + q * 4)
  <2>1. \A j \in 0 .. h + q * 4 - 1 : src + j \in DOMAIN mem
    BY <1>2
  <2>2. dest <= src \/ src + h + q * 4 <= dest
    BY <1>2
  <2>3. PICK k \in Nat : k = q * 4
    OBVIOUS
  <2>4. Placed(Placed(mem, dest, src, h), dest + h, src + h, k) = Placed(mem, dest, src, h + k)
    BY <2>1, <2>2, <2>3, PlacedTwice
  <2> QED
    BY <1>3, <1>4, <2>3, <2>4
<1>12. PICK k \in Nat : k = h + q * 4
  OBVIOUS
<1>13. Placed(m2, dest + k, src + k, r) = Placed(mem, dest, src, k + r)
  <2>1. \A j \in 0 .. k + r - 1 : src + j \in DOMAIN mem
    BY <1>2, <1>12
  <2>2. dest <= src \/ src + k + r <= dest
    BY <1>2, <1>12
  <2> QED
    BY <1>11, <1>12, <2>1, <2>2, PlacedTwice
<1> QED
  BY <1>2, <1>8, <1>10, <1>12, <1>13

(* memmove moves every block, wherever the two lie.                         *)
LEMMA MemmoveMoves ==
    ASSUME NEW mem, mem = [a \in DOMAIN mem |-> mem[a]], DOMAIN mem \subseteq Int,
           NEW src \in Int, NEW dest \in Int, NEW n \in Nat, NEW flag,
           \A j \in 0 .. n - 1 : src + j \in DOMAIN mem
    PROVE  memmove(mem, flag, dest, src, n).mem = Placed(mem, dest, src, n)
<1>1. CASE src >= dest
  <2>1. \A j \in 0 .. n * 1 - 1 : src + j \in DOMAIN mem
    OBVIOUS
  <2>2. rep_movs(mem, src, dest, n, 1, Up) = Placed(mem, dest, src, n * 1)
    BY <1>1, <2>1, MovsUp
  <2> QED
    BY <1>1, <2>2 DEF memmove
<1>2. CASE src < dest
  BY <1>2, MovsDown DEF memmove
<1> QED
  BY <1>1, <1>2

(* The memory a call finds holds at every address that address.             *)
LEMMA FreshIs == /\ DOMAIN Fresh = Memory /\ Memory \subseteq Int
                 /\ Fresh = [a \in DOMAIN Fresh |-> Fresh[a]]
                 /\ \A a \in Memory : Fresh[a] = a
BY LibraryAssumption DEF Fresh

(* Blocks have a length.                                                    *)
LEMMA LengthIs == Cardinality(Block) \in Nat
BY LibraryAssumption, FS_CardinalityType

(* A block is where it begins and how many units it has.                    *)
LEMMA BlockIs ==
    ASSUME NEW width, NEW b \in Blocks(width)
    PROVE  b[1] \in Int /\ b[2] \in Nat
<1>1. PICK m \in Nat : m = Cardinality(Block)
  BY LengthIs
<1>2. b \in Block \X (0 .. m)
  BY <1>1 DEF Blocks
<1>3. Block \subseteq Int
  BY LibraryAssumption
<1>4. PICK s \in Block, n \in 0 .. m : b = <<s, n>>
  BY <1>2
<1> QED
  BY <1>3, <1>4

(* memset is right.                                                         *)
LEMMA MemsetStep ==
    ASSUME Memset
    PROVE  BlocksRight' /\ call'.fn = "memset"
<1>1. PICK b \in Blocks(1), c \in Fillers : Set("memset", 1, b, c, memset(Fresh, df, b[1], c, b[2]))
  BY DEF Memset
<1>2. PICK s \in Int, n \in Nat : s = b[1] /\ n = b[2]
  BY BlockIs
<1>3. c \in Nat
  BY LibraryAssumption
<1>4. memset(Fresh, df, s, c, n).mem = Filled1(Fresh, s, n, c)
  BY <1>3, FreshIs, MemsetFills
<1>5. Filled1(Fresh, s, n, c) = BlockSet(s, n, 1, c)
  <2>1. \A a \in Memory : a \in Int /\ (a - s) % 1 = 0
    BY LibraryAssumption
  <2>2. Bytes(c, 1)[0] = c % 256
    BY <1>3 DEF Bytes
  <2>3. PICK f : f = Bytes(c, 1)
    OBVIOUS
  <2>4. BlockSet(s, n, 1, c) = [a \in Memory |-> IF a - s \in 0 .. n * 1 - 1 THEN f[(a - s) % 1] ELSE a]
    BY <2>3 DEF BlockSet
  <2> QED
    BY <2>1, <2>2, <2>3, <2>4, FreshIs DEF Filled1
<1>6. call' = [fn |-> "memset", s |-> s, n |-> n, c |-> c, width |-> 1,
               result |-> BlockSet(s, n, 1, c)]
  BY <1>1, <1>2, <1>4, <1>5 DEF Set
<1> QED
  BY <1>6 DEF BlocksRight

(* So is a memset of words.                                                 *)
LEMMA MemsetUnitsStep ==
    ASSUME NEW width \in {2, 4}, NEW b \in Blocks(width), NEW c \in Fillers,
           NEW fn \in {"memset_word", "memset_dword"},
           NEW r, r.mem = rep_stos(Fresh, b[1], b[2], width, Bytes(c, width), Up),
           Set(fn, width, b, c, r)
    PROVE  BlocksRight' /\ call'.fn = fn
<1>2. PICK s \in Int, n \in Nat : s = b[1] /\ n = b[2]
  BY BlockIs
<1>3. PICK f : f = Bytes(c, width)
  OBVIOUS
<1>4. rep_stos(Fresh, s, n, width, f, Up) =
        [a \in Memory |-> IF a - s \in 0 .. n * width - 1 THEN f[(a - s) % width] ELSE Fresh[a]]
  BY FreshIs, StosUp
<1>5. rep_stos(Fresh, s, n, width, f, Up) = BlockSet(s, n, width, c)
  BY <1>3, <1>4, FreshIs DEF BlockSet
<1>6. call' = [fn |-> fn, s |-> s, n |-> n, c |-> c, width |-> width,
               result |-> BlockSet(s, n, width, c)]
  BY <1>2, <1>3, <1>5 DEF Set
<1> QED
  BY <1>6 DEF BlocksRight

(* A block of that memory, moved, is the addresses it was read from.        *)
LEMMA PlacedIs ==
    ASSUME NEW src \in Int, NEW dest \in Int, NEW n \in Nat,
           \A j \in 0 .. n - 1 : src + j \in Memory
    PROVE  Placed(Fresh, dest, src, n) = Transferred(dest, src, n)
<1>1. \A a \in Memory : a - dest \in 0 .. n - 1 => Fresh[src + (a - dest)] = src + (a - dest)
  BY FreshIs
<1> QED
  BY <1>1, FreshIs DEF Placed, Transferred

(* Two blocks are where they begin and their length, and are in memory.     *)
LEMMA PairIs ==
    ASSUME NEW p \in Pairs
    PROVE  /\ p[1] \in Int /\ p[2] \in Int /\ p[3] \in Nat
           /\ \A j \in 0 .. p[3] - 1 : p[2] + j \in Memory
<1>1. PICK src \in Block, n \in Nat : src = p[2] /\ n = p[3] /\ (n = 0 \/ src + n - 1 \in Block)
  BY LengthIs DEF Pairs
<1>2. p[1] \in Int /\ src \in Int
  BY LibraryAssumption DEF Pairs
<1>3. ASSUME NEW j \in 0 .. n - 1
      PROVE  src + j \in Memory
  <2>1. PICK e \in Block : e = src + n - 1
    BY <1>1
  <2>2. src + j \in src .. e
    BY <1>2, <2>1
  <2>3. src .. e \subseteq Memory
    BY <2>1, LibraryAssumption
  <2> QED
    BY <2>2, <2>3
<1> QED
  BY <1>1, <1>2, <1>3

(* memcpy is right.                                                         *)
LEMMA MemcpyStep ==
    ASSUME Memcpy
    PROVE  BlocksRight' /\ call'.fn = "memcpy"
<1>1. PICK p \in Pairs : Copy("memcpy", p, memcpy(Fresh, df, p[1], p[2], p[3]))
  BY DEF Memcpy
<1>2. PICK dest \in Int, src \in Int, n \in Nat : dest = p[1] /\ src = p[2] /\ n = p[3]
  BY PairIs
<1>3. call' = [fn |-> "memcpy", dest |-> dest, src |-> src, n |-> n,
               result |-> memcpy(Fresh, df, dest, src, n).mem]
  BY <1>1, <1>2 DEF Copy
<1>4. ASSUME dest <= src \/ src + n <= dest
      PROVE  memcpy(Fresh, df, dest, src, n).mem = Transferred(dest, src, n)
  <2>1. \A j \in 0 .. n - 1 : src + j \in Memory
    BY <1>2, PairIs
  <2>2. memcpy(Fresh, df, dest, src, n).mem = Placed(Fresh, dest, src, n)
    BY <1>4, <2>1, FreshIs, MemcpyCopies
  <2> QED
    BY <2>1, <2>2, PlacedIs
<1> QED
  BY <1>3, <1>4 DEF BlocksRight

(* memmove is right.                                                        *)
LEMMA MemmoveStep ==
    ASSUME Memmove
    PROVE  BlocksRight' /\ call'.fn = "memmove"
<1>1. PICK p \in Pairs : Copy("memmove", p, memmove(Fresh, df, p[1], p[2], p[3]))
  BY DEF Memmove
<1>2. PICK dest \in Int, src \in Int, n \in Nat : dest = p[1] /\ src = p[2] /\ n = p[3]
  BY PairIs
<1>3. call' = [fn |-> "memmove", dest |-> dest, src |-> src, n |-> n,
               result |-> memmove(Fresh, df, dest, src, n).mem]
  BY <1>1, <1>2 DEF Copy
<1>4. memmove(Fresh, df, dest, src, n).mem = Transferred(dest, src, n)
  <2>1. \A j \in 0 .. n - 1 : src + j \in Memory
    BY <1>2, PairIs
  <2>2. memmove(Fresh, df, dest, src, n).mem = Placed(Fresh, dest, src, n)
    BY <2>1, FreshIs, MemmoveMoves
  <2> QED
    BY <2>1, <2>2, PlacedIs
<1> QED
  BY <1>3, <1>4 DEF BlocksRight

-----------------------------------------------------------------------------
(***************************************************************************)
(* Comparisons.                                                            *)
(***************************************************************************)
(* A search upwards ends at the first place where it can.                   *)
LEMMA FirstStop ==
    ASSUME NEW n \in Nat, NEW Stops \in SUBSET (1 .. n), n \in Stops
    PROVE  \E g \in [1 .. n -> Stops] :
               \A i \in 1 .. n : i <= g[i] /\ g[i] = (IF i \in Stops THEN i ELSE g[i + 1])
<1> DEFINE Ahead(i) == {j \in i .. n : j \in Stops}
           g == [i \in 1 .. n |-> Min(Ahead(i))]
<1>1. ASSUME NEW i \in 1 .. n
      PROVE  /\ Min(Ahead(i)) \in Ahead(i)
             /\ \A j \in Ahead(i) : Min(Ahead(i)) <= j
  <2>1. Ahead(i) \in SUBSET Nat /\ Ahead(i) # {}
    OBVIOUS
  <2> HIDE DEF Ahead
  <2> QED
    BY <2>1, MinIs
<1>2. ASSUME NEW i \in 1 .. n
      PROVE  i <= g[i] /\ g[i] = (IF i \in Stops THEN i ELSE g[i + 1]) /\ g[i] \in Stops
  <2>1. PICK a \in i .. n : a = Min(Ahead(i)) /\ a \in Stops /\ \A j \in i .. n : j \in Stops => a <= j
    BY <1>1
  <2>2. CASE i \in Stops
    BY <2>1, <2>2
  <2>3. CASE i \notin Stops
    <3>1. i + 1 \in 1 .. n
      BY <2>3
    <3>2. PICK b \in i + 1 .. n : /\ b = Min(Ahead(i + 1)) /\ b \in Stops
                                  /\ \A j \in i + 1 .. n : j \in Stops => b <= j
      BY <1>1, <3>1
    <3>3. a = b
      BY <2>1, <2>3, <3>2
    <3>4. g[i] = a /\ g[i + 1] = b
      BY <2>1, <3>1, <3>2
    <3> QED
      BY <2>1, <2>3, <3>3, <3>4
  <2> QED
    BY <2>2, <2>3
<1>3. g \in [1 .. n -> Stops]
  BY <1>2
<1> HIDE DEF g
<1> QED
  BY <1>2, <1>3

(* A recursion that goes on until it may stop returns what its first stop   *)
(* says.                                                                    *)
LEMMA StoppedAt ==
    ASSUME NEW n \in Nat, NEW Stops \in SUBSET (1 .. n), n \in Stops, NEW val, NEW h,
           \A i \in 1 .. n : h[i] = (IF i \in Stops THEN val[i] ELSE h[i + 1])
    PROVE  \E m \in Stops : h[1] = val[m] /\ \A i \in 1 .. m - 1 : i \notin Stops
<1>1. PICK m \in Stops : \A y \in Stops : m <= y
  <2>1. Stops \in SUBSET Nat /\ Stops # {}
    OBVIOUS
  <2> QED
    BY <2>1, LeastNumber
<1>2. PICK T : T = {k \in 0 .. m - 1 : h[k + 1] = h[1]}
  OBVIOUS
<1>3. m \in 1 .. n /\ m - 1 \in Nat
  OBVIOUS
<1>4. 0 .. m - 1 \subseteq T
  <2>1. 0 \in T
    BY <1>2, <1>3
  <2>2. ASSUME NEW k \in 1 .. m - 1, k - 1 \in T
        PROVE  k \in T
    <3>1. k \in 1 .. n /\ k \notin Stops
      BY <1>1, <1>3
    <3>2. h[(k - 1) + 1] = h[1] /\ (k - 1) + 1 = k
      BY <1>2, <2>2
    <3> QED
      BY <1>2, <3>1, <3>2
  <2> QED
    BY <1>3, <2>1, <2>2, UpTo
<1>5. h[m] = h[1]
  <2>1. m - 1 \in T /\ (m - 1) + 1 = m
    BY <1>3, <1>4
  <2> QED
    BY <1>2, <2>1
<1> QED
  BY <1>1, <1>3, <1>5

(* The function a recursion from a place to the next one defines.           *)
Onwards(g, n, Stops, val) ==
    g = [i \in 1 .. n |-> IF i \in Stops THEN val[i] ELSE g[i + 1]]

(* Such a recursion defines a function.                                     *)
LEMMA StoppingFunction ==
    ASSUME NEW n \in Nat, NEW Stops \in SUBSET (1 .. n), n \in Stops, NEW val
    PROVE  \E g : Onwards(g, n, Stops, val)
<1>1. PICK f \in [1 .. n -> Stops] :
          \A i \in 1 .. n : i <= f[i] /\ f[i] = (IF i \in Stops THEN i ELSE f[i + 1])
  BY FirstStop
<1>2. PICK g : g = [i \in 1 .. n |-> val[f[i]]]
  OBVIOUS
<1>3. ASSUME NEW i \in 1 .. n
      PROVE  val[f[i]] = IF i \in Stops THEN val[i] ELSE g[i + 1]
  <2>1. CASE i \in Stops
    BY <1>1, <2>1
  <2>2. CASE i \notin Stops
    <3>1. i + 1 \in 1 .. n
      BY <2>2
    <3> QED
      BY <1>1, <1>2, <2>2, <3>1
  <2> QED
    BY <2>1, <2>2
<1>4. Onwards(g, n, Stops, val)
  BY <1>2, <1>3 DEF Onwards
<1> QED
  BY <1>4

-----------------------------------------------------------------------------
(* Comparisons.                                                             *)
(* The comparison of at most n characters of s1 and s2 ends at the m-th and *)
(* returns r.                                                               *)
Compared(s1, s2, n, m, r) ==
    /\ \A i \in 1 .. m - 1 : s1[i] = s2[i] /\ s1[i] # NUL
    /\ \/ m = n + 1 /\ r = 0
       \/ m \in 1 .. n /\ s1[m] # s2[m] /\ r = Ascii[s1[m]] - Ascii[s2[m]]
       \/ m \in 1 .. n /\ s1[m] = s2[m] /\ s1[m] = NUL /\ r = 0

(* The kernel's strncmp ends at the first difference or NUL, or after n.    *)
LEMMA StrncmpIs ==
    ASSUME NEW s1, NEW s2, NEW n \in Nat
    PROVE  \E m \in 1 .. n + 1 : Compared(s1, s2, n, m, strncmp(s1, s2, n))
<1> DEFINE Stop(i) == i > n \/ s1[i] # s2[i] \/ s1[i] = NUL
           Diff(i) == Ascii[s1[i]] - Ascii[s2[i]]
           F(f) == [i \in 1 .. n + 1 |-> IF i > n THEN 0
                      ELSE IF s1[i] # s2[i] \/ s1[i] = NUL THEN Ascii[s1[i]] - Ascii[s2[i]]
                      ELSE f[i + 1]]
<1>1. PICK Stops \in SUBSET (1 .. n + 1) : Stops = {i \in 1 .. n + 1 : Stop(i)}
  OBVIOUS
<1>2. PICK val : val = [i \in 1 .. n + 1 |-> IF i > n THEN 0 ELSE Diff(i)]
  OBVIOUS
<1>3. \A f : F(f) = [i \in 1 .. n + 1 |-> IF i \in Stops THEN val[i] ELSE f[i + 1]]
  <2> SUFFICES ASSUME NEW f
               PROVE F(f) = [i \in 1 .. n + 1 |-> IF i \in Stops THEN val[i] ELSE f[i + 1]]
    OBVIOUS
  <2>1. ASSUME NEW i \in 1 .. n + 1
        PROVE  F(f)[i] = IF i \in Stops THEN val[i] ELSE f[i + 1]
    BY <1>1, <1>2
  <2> QED
    BY <2>1
<1>4. n + 1 \in Stops /\ n + 1 \in Nat
  BY <1>1
<1>5. strncmp(s1, s2, n) = (CHOOSE f : f = F(f))[1]
  BY DEF strncmp
<1>6. PICK h : h = CHOOSE f : f = F(f)
  OBVIOUS
<1>7. h = F(h)
  <2>1. PICK g : Onwards(g, n + 1, Stops, val)
    BY <1>4, StoppingFunction
  <2>2. g = F(g)
    BY <1>3, <2>1 DEF Onwards
  <2> HIDE DEF F
  <2> QED
    BY <1>6, <2>2
<1>8. h = [i \in 1 .. n + 1 |-> IF i \in Stops THEN val[i] ELSE h[i + 1]]
  BY <1>3, <1>7
<1>9. PICK m \in Stops : h[1] = val[m] /\ \A i \in 1 .. m - 1 : i \notin Stops
  <2>1. PICK k \in Nat : k = n + 1
    OBVIOUS
  <2>2. \A i \in 1 .. k : h[i] = IF i \in Stops THEN val[i] ELSE h[i + 1]
    BY <1>8, <2>1
  <2> QED
    BY <1>4, <2>1, <2>2, StoppedAt
<1>10. \A i \in 1 .. m - 1 : s1[i] = s2[i] /\ s1[i] # NUL
  BY <1>1, <1>9
<1>11. m \in 1 .. n + 1 /\ (m > n \/ s1[m] # s2[m] \/ s1[m] = NUL)
  BY <1>1
<1>12. strncmp(s1, s2, n) = IF m > n THEN 0 ELSE Diff(m)
  BY <1>2, <1>5, <1>6, <1>9, <1>11
<1> QED
  BY <1>10, <1>11, <1>12, LibraryAssumption DEF Compared
(* The programs' strncmp ends where the kernel's does.                      *)
LEMMA ProgramStrncmpIs ==
    ASSUME NEW s1, NEW s2, NEW n \in Nat
    PROVE  \E m \in 1 .. n + 1 : Compared(s1, s2, n, m, ece391_strncmp(s1, s2, n))
<1>a. CASE n = 0
  BY <1>a DEF ece391_strncmp, Compared
<1> SUFFICES ASSUME n # 0
             PROVE  \E m \in 1 .. n + 1 : Compared(s1, s2, n, m, ece391_strncmp(s1, s2, n))
  BY <1>a
<1>b. n # 0
  OBVIOUS
<1> DEFINE Stop(i) == i = n \/ s1[i] # s2[i] \/ s1[i] = NUL
           Diff(i) == Ascii[s1[i]] - Ascii[s2[i]]
           F(f) == [i \in 1 .. n |-> IF s1[i] # s2[i] THEN Ascii[s1[i]] - Ascii[s2[i]]
                              ELSE IF s1[i] = NUL \/ i = n THEN 0 ELSE f[i + 1]]
<1>1. PICK Stops \in SUBSET (1 .. n) : Stops = {i \in 1 .. n : Stop(i)}
  OBVIOUS
<1>2. PICK val : val = [i \in 1 .. n |-> IF s1[i] # s2[i] THEN Diff(i) ELSE 0]
  OBVIOUS
<1>3. \A f : F(f) = [i \in 1 .. n |-> IF i \in Stops THEN val[i] ELSE f[i + 1]]
  <2> SUFFICES ASSUME NEW f
               PROVE F(f) = [i \in 1 .. n |-> IF i \in Stops THEN val[i] ELSE f[i + 1]]
    OBVIOUS
  <2>1. ASSUME NEW i \in 1 .. n
        PROVE  F(f)[i] = IF i \in Stops THEN val[i] ELSE f[i + 1]
    BY <1>1, <1>2
  <2> QED
    BY <2>1
<1>4. n \in Stops
  BY <1>1, <1>b
<1>5. ece391_strncmp(s1, s2, n) = (CHOOSE f : f = F(f))[1]
  BY <1>b DEF ece391_strncmp
<1>6. PICK h : h = CHOOSE f : f = F(f)
  OBVIOUS
<1>7. h = F(h)
  <2>1. PICK g : Onwards(g, n, Stops, val)
    BY <1>4, StoppingFunction
  <2>2. g = F(g)
    BY <1>3, <2>1 DEF Onwards
  <2> HIDE DEF F
  <2> QED
    BY <1>6, <2>2
<1>8. h = [i \in 1 .. n |-> IF i \in Stops THEN val[i] ELSE h[i + 1]]
  BY <1>3, <1>7
<1>9. PICK m \in Stops : h[1] = val[m] /\ \A i \in 1 .. m - 1 : i \notin Stops
  <2>1. \A i \in 1 .. n : h[i] = IF i \in Stops THEN val[i] ELSE h[i + 1]
    BY <1>8
  <2> QED
    BY <1>4, <2>1, StoppedAt
<1>10. \A i \in 1 .. m - 1 : s1[i] = s2[i] /\ s1[i] # NUL
  BY <1>1, <1>9
<1>11. m \in 1 .. n /\ (m = n \/ s1[m] # s2[m] \/ s1[m] = NUL)
  BY <1>1
<1>12. ece391_strncmp(s1, s2, n) = IF s1[m] # s2[m] THEN Diff(m) ELSE 0
  BY <1>2, <1>5, <1>6, <1>9, <1>11
<1>13. CASE s1[m] # s2[m]
  BY <1>10, <1>11, <1>12, <1>13 DEF Compared
<1>14. CASE s1[m] = s2[m] /\ s1[m] = NUL
  <2>1. m \in 1 .. n + 1 /\ ece391_strncmp(s1, s2, n) = 0
    BY <1>12, <1>14
  <2>2. Compared(s1, s2, n, m, 0)
    BY <1>10, <1>14 DEF Compared
  <2> QED
    BY <2>1, <2>2
<1>15. CASE s1[m] = s2[m] /\ s1[m] # NUL
  <2>1. m = n /\ n + 1 \in 1 .. n + 1
    BY <1>11, <1>15
  <2>2. \A i \in 1 .. (n + 1) - 1 : s1[i] = s2[i] /\ s1[i] # NUL
    BY <1>10, <1>15, <2>1
  <2> QED
    BY <1>12, <1>15, <2>1, <2>2 DEF Compared
<1> QED
  BY <1>11, <1>13, <1>14, <1>15

(* Where the NUL is that ends s.                                            *)
End(s) == {k \in Nat \ {0} : strlen(s) + 1 = k /\ s[k] = NUL}

(* The programs' strcmp ends at the first difference or NUL.                *)
LEMMA ProgramStrcmpIs ==
    ASSUME NEW s1, NEW s2, NEW n \in Nat, n \in End(s1)
    PROVE  \E m \in 1 .. n : Compared(s1, s2, n, m, ece391_strcmp(s1, s2))
<1> DEFINE Stop(i) == s1[i] # s2[i] \/ s1[i] = NUL
           Diff(i) == Ascii[s1[i]] - Ascii[s2[i]]
           F(f) == [i \in 1 .. n |-> IF s1[i] # s2[i] THEN Ascii[s1[i]] - Ascii[s2[i]]
                              ELSE IF s1[i] = NUL THEN 0 ELSE f[i + 1]]
<1>1. PICK Stops \in SUBSET (1 .. n) : Stops = {i \in 1 .. n : Stop(i)}
  OBVIOUS
<1>2. PICK val : val = [i \in 1 .. n |-> IF s1[i] # s2[i] THEN Diff(i) ELSE 0]
  OBVIOUS
<1>3. \A f : F(f) = [i \in 1 .. n |-> IF i \in Stops THEN val[i] ELSE f[i + 1]]
  <2> SUFFICES ASSUME NEW f
               PROVE F(f) = [i \in 1 .. n |-> IF i \in Stops THEN val[i] ELSE f[i + 1]]
    OBVIOUS
  <2>1. ASSUME NEW i \in 1 .. n
        PROVE  F(f)[i] = IF i \in Stops THEN val[i] ELSE f[i + 1]
    BY <1>1, <1>2
  <2> QED
    BY <2>1
<1>4. n \in Stops
  BY <1>1 DEF End
<1>5. ece391_strcmp(s1, s2) = (CHOOSE f : f = F(f))[1]
  BY DEF End, ece391_strcmp
<1>6. PICK h : h = CHOOSE f : f = F(f)
  OBVIOUS
<1>7. h = F(h)
  <2> HIDE DEF F, Diff, Stop
  <2>1. PICK g : Onwards(g, n, Stops, val)
    BY <1>4, StoppingFunction
  <2>2. g = F(g)
    BY <1>3, <2>1 DEF Onwards
  <2> QED
    BY <1>6, <2>2
<1>8. h = [i \in 1 .. n |-> IF i \in Stops THEN val[i] ELSE h[i + 1]]
  BY <1>3, <1>7
<1>9. PICK m \in Stops : h[1] = val[m] /\ \A i \in 1 .. m - 1 : i \notin Stops
  <2>1. \A i \in 1 .. n : h[i] = IF i \in Stops THEN val[i] ELSE h[i + 1]
    BY <1>8
  <2> QED
    BY <1>4, <2>1, StoppedAt
<1>10. \A i \in 1 .. m - 1 : s1[i] = s2[i] /\ s1[i] # NUL
  BY <1>1, <1>9
<1>11. m \in 1 .. n /\ ( s1[m] # s2[m] \/ s1[m] = NUL)
  BY <1>1
<1>12. ece391_strcmp(s1, s2) = IF s1[m] # s2[m] THEN Diff(m) ELSE 0
  BY <1>2, <1>5, <1>6, <1>9, <1>11
<1> QED
  BY <1>10, <1>11, <1>12, LibraryAssumption DEF Compared

(* A character of a word is no NUL and is above it.                         *)
LEMMA LetterIs ==
    ASSUME NEW w \in Seq(Letters), NEW j \in 1 .. Len(w)
    PROVE  w[j] \in Letters /\ w[j] # NUL /\ Ascii[w[j]] \in Int /\ Ascii[w[j]] > Ascii[NUL]
<1>1. PICK c \in Letters : c = w[j]
  BY ElementOfSeq
<1>2. c \in DOMAIN Ascii /\ NUL \in DOMAIN Ascii /\ c # NUL
  BY LibCAssumption DEF Letters
<1>3. Ascii[c] \in 0 .. 127 /\ Ascii[NUL] = 0 /\ Ascii[c] # Ascii[NUL]
  BY <1>2, LibCAssumption, LibraryAssumption
<1>4. Ascii[c] \in Int /\ Ascii[c] > Ascii[NUL]
  <2>1. PICK x, y : x = Ascii[c] /\ y = Ascii[NUL]
    OBVIOUS
  <2>2. x \in 0 .. 127 /\ y = 0 /\ x # y
    BY <1>3, <2>1, Zenon
  <2>3. x \in Int /\ x > y
    BY <2>2
  <2> QED
    BY <2>1, <2>3, Zenon
<1> QED
  BY <1>1, <1>2, <1>4, Zenon

(* b is l characters, those w begins with.                                  *)
Heads(b, w, l) == b \in Seq(Letters) /\ Len(b) = l /\ \A i \in 1 .. l : b[i] = w[i]

(* The beginning of a word is the word's first characters.                  *)
LEMMA BeginningHeads ==
    ASSUME NEW w \in Seq(Letters), NEW k \in Nat
    PROVE  Heads(Beginning(w, k), w, IF k <= Len(w) THEN k ELSE Len(w))
<1>1. Len(w) \in Nat
  BY LenProperties
<1>2. PICK l \in Nat : l = (IF k <= Len(w) THEN k ELSE Len(w)) /\ l <= k /\ l <= Len(w)
  BY <1>1
<1>3. Min({k, Len(w)}) = l
  <2>1. {k, Len(w)} \in SUBSET Nat /\ {k, Len(w)} # {}
    BY <1>1
  <2>2. Min({k, Len(w)}) \in {k, Len(w)} /\ \A y \in {k, Len(w)} : Min({k, Len(w)}) <= y
    BY <2>1, MinIs
  <2> QED
    BY <1>1, <1>2, <2>2
<1>4. \A i \in 1 .. l : w[i] \in Letters
  <2>1. \A i \in 1 .. l : i \in 1 .. Len(w)
    BY <1>1, <1>2
  <2> QED
    BY <2>1, ElementOfSeq
<1>5. /\ SubSeq(w, 1, l) \in Seq(Letters)
      /\ Len(SubSeq(w, 1, l)) = IF 1 <= l THEN l - 1 + 1 ELSE 0
      /\ \A i \in 1 .. l - 1 + 1 : SubSeq(w, 1, l)[i] = w[1 + i - 1]
  BY <1>4, SubSeqProperties
<1>6. PICK b : b = SubSeq(w, 1, l)
  OBVIOUS
<1>7. Beginning(w, k) = b
  BY <1>3, <1>6 DEF Beginning
<1>8. b \in Seq(Letters) /\ Len(b) = l /\ \A i \in 1 .. l : b[i] = w[i]
  <2>1. l - 1 + 1 = l /\ (1 <= l \/ l = 0)
    BY <1>2
  <2> QED
    BY <1>5, <1>6, <2>1
<1> QED
  BY <1>2, <1>7, <1>8 DEF Heads

(* The same, said of each character.                                        *)
LEMMA BeginningIs ==
    ASSUME NEW w \in Seq(Letters), NEW k \in Nat, NEW l, l = IF k <= Len(w) THEN k ELSE Len(w)
    PROVE  /\ l \in Nat /\ l <= k /\ l <= Len(w)
           /\ Beginning(w, k) \in Seq(Letters) /\ Len(Beginning(w, k)) = l
           /\ \A i \in 1 .. l : Beginning(w, k)[i] = w[i]
<1>1. Len(w) \in Nat
  BY LenProperties
<1>2. Heads(Beginning(w, k), w, l)
  BY BeginningHeads
<1> QED
  BY <1>1, <1>2 DEF Heads

(* Two strings that begin alike, in terms of their characters.              *)
LEMMA BeginAlike ==
    ASSUME NEW a \in Seq(Letters), NEW b \in Seq(Letters), NEW k \in Nat, k <= Len(b)
    PROVE  Beginning(a, k) = Beginning(b, k)
             <=> k <= Len(a) /\ \A j \in 1 .. k : a[j] = b[j]
<1>1. Len(a) \in Nat /\ Len(b) \in Nat
  BY LenProperties
<1>2. PICK l : l = IF k <= Len(a) THEN k ELSE Len(a)
  OBVIOUS
<1>3. PICK u : u = Beginning(a, k)
  OBVIOUS
<1>4. PICK v : v = Beginning(b, k)
  OBVIOUS
<1>5. /\ l \in Nat /\ l <= k /\ l <= Len(a)
      /\ u \in Seq(Letters) /\ Len(u) = l /\ \A i \in 1 .. l : u[i] = a[i]
  <2>1. /\ l \in Nat /\ l <= k /\ l <= Len(a)
        /\ Beginning(a, k) \in Seq(Letters) /\ Len(Beginning(a, k)) = l
        /\ \A i \in 1 .. l : Beginning(a, k)[i] = a[i]
    BY <1>2, BeginningIs
  <2> QED
    BY <1>3, <2>1
<1>6. v \in Seq(Letters) /\ Len(v) = k /\ \A i \in 1 .. k : v[i] = b[i]
  <2>1. k = IF k <= Len(b) THEN k ELSE Len(b)
    OBVIOUS
  <2> QED
    BY <2>1, <1>4, BeginningIs
<1>7. ASSUME u = v
      PROVE  k <= Len(a) /\ \A j \in 1 .. k : a[j] = b[j]
  <2>1. l = k
    BY <1>5, <1>6, <1>7
  <2> QED
    BY <1>5, <1>6, <1>7, <2>1
<1>8. ASSUME k <= Len(a), \A j \in 1 .. k : a[j] = b[j]
      PROVE  u = v
  <2>1. l = k
    BY <1>2, <1>8
  <2>2. \A j \in 1 .. Len(u) : u[j] = v[j]
    BY <1>5, <1>6, <1>8, <2>1
  <2> QED
    BY <1>5, <1>6, <2>1, <2>2, SeqEqual
<1> QED
  BY <1>3, <1>4, <1>7, <1>8

(* The order of a dictionary, in terms of characters.                       *)
LEMMA PrecedesIs ==
    ASSUME NEW a \in Seq(Letters), NEW b \in Seq(Letters)
    PROVE  Precedes(a, b) <=>
             \E i \in 1 .. Len(b) :
                /\ i - 1 <= Len(a) /\ \A j \in 1 .. i - 1 : a[j] = b[j]
                /\ Len(a) < i \/ Ascii[a[i]] < Ascii[b[i]]
<1>1. Len(b) \in Nat
  BY LenProperties
<1>2. ASSUME NEW i \in 1 .. Len(b)
      PROVE  Beginning(a, i - 1) = Beginning(b, i - 1)
               <=> i - 1 <= Len(a) /\ \A j \in 1 .. i - 1 : a[j] = b[j]
  <2>1. PICK k \in Nat : k = i - 1 /\ k <= Len(b)
    BY <1>1
  <2>2. Beginning(a, k) = Beginning(b, k) <=> k <= Len(a) /\ \A j \in 1 .. k : a[j] = b[j]
    BY <2>1, BeginAlike
  <2> QED
    BY <2>1, <2>2
<1> QED
  BY <1>2 DEF Precedes

(* The first place where two strings differ decides about their order.      *)
LEMMA OrderIs ==
    ASSUME NEW a \in Seq(Letters), NEW b \in Seq(Letters), NEW m \in Nat, m > 0,
           m - 1 <= Len(a), m - 1 <= Len(b), \A j \in 1 .. m - 1 : a[j] = b[j]
    PROVE  /\ m = Len(a) + 1 /\ m = Len(b) + 1 => Order(a, b) = 0
           /\ m <= Len(b) /\ (m = Len(a) + 1 \/ (m <= Len(a) /\ Ascii[a[m]] < Ascii[b[m]]))
                => Order(a, b) = -1
           /\ m <= Len(a) /\ (m = Len(b) + 1 \/ (m <= Len(b) /\ Ascii[b[m]] < Ascii[a[m]]))
                => Order(a, b) = 1
<1>1. Len(a) \in Nat /\ Len(b) \in Nat
  BY LenProperties
<1>2. \A j \in 1 .. Len(a) : Ascii[a[j]] \in Int
  BY LetterIs
<1>3. \A j \in 1 .. Len(b) : Ascii[b[j]] \in Int
  BY LetterIs
<1>4. CASE m = Len(a) + 1 /\ m = Len(b) + 1
  <2>1. a = b
    BY <1>1, <1>4, SeqEqual
  <2> QED
    BY <1>1, <1>4, <2>1 DEF Order
<1>5. CASE m <= Len(b) /\ (m = Len(a) + 1 \/ (m <= Len(a) /\ Ascii[a[m]] < Ascii[b[m]]))
  <2>1. a # b
    BY <1>1, <1>2, <1>5
  <2>2. Precedes(a, b)
    <3>1. m \in 1 .. Len(b)
      BY <1>1, <1>5
    <3> QED
      BY <1>1, <1>5, <3>1, PrecedesIs
  <2> QED
    BY <1>1, <1>2, <1>3, <1>5, <2>1, <2>2 DEF Order
<1>6. CASE m <= Len(a) /\ (m = Len(b) + 1 \/ (m <= Len(b) /\ Ascii[b[m]] < Ascii[a[m]]))
  <2>1. a # b
    BY <1>1, <1>2, <1>6
  <2>2. ASSUME NEW i \in 1 .. Len(b), i - 1 <= Len(a), \A j \in 1 .. i - 1 : a[j] = b[j],
               Len(a) < i \/ Ascii[a[i]] < Ascii[b[i]]
        PROVE  FALSE
    <3>1. CASE i < m
      <4>1. i \in 1 .. m - 1 /\ i \in 1 .. Len(a)
        BY <1>1, <1>6, <3>1
      <4>2. a[i] = b[i] /\ Ascii[a[i]] \in Int
        BY <1>2, <4>1
      <4> QED
        BY <1>1, <2>2, <4>1, <4>2
    <3>2. CASE i = m
      <4>1. m \in 1 .. Len(a) /\ m \in 1 .. Len(b) /\ Ascii[b[m]] < Ascii[a[m]]
        BY <1>1, <1>6, <3>2
      <4>2. Ascii[a[m]] < Ascii[b[m]]
        BY <1>1, <2>2, <3>2, <4>1
      <4> QED
        BY <1>2, <1>3, <4>1, <4>2
    <3>3. CASE i > m
      <4>1. m \in 1 .. i - 1 /\ m \in 1 .. Len(b) /\ m \in 1 .. Len(a)
        BY <1>1, <1>6, <3>3
      <4>2. Ascii[b[m]] < Ascii[a[m]] /\ a[m] = b[m]
        BY <1>1, <1>6, <2>2, <4>1
      <4> QED
        BY <1>2, <1>3, <4>1, <4>2
    <3> QED
      BY <1>1, <3>1, <3>2, <3>3
  <2>3. ~Precedes(a, b)
    BY <2>2, PrecedesIs
  <2> QED
    BY <1>1, <1>2, <1>3, <1>6, <2>1, <2>3 DEF Order
<1> QED
  BY <1>4, <1>5, <1>6

-----------------------------------------------------------------------------
(* What a comparison returns is the order of what it compares.              *)
LEMMA ComparedIs ==
    ASSUME NEW u \in Seq(Letters), NEW v \in Seq(Letters), NEW s1, NEW s2,
           Holds(s1, u), Holds(s2, v), NEW n \in Nat, NEW m \in 1 .. n + 1, NEW r,
           Compared(s1, s2, n, m, r)
    PROVE  Sign(r) = Order(Beginning(u, n), Beginning(v, n))
<1>1. Len(u) \in Nat /\ Len(v) \in Nat
  BY LenProperties
<1>2. PICK k \in Nat : k = IF n <= Len(u) THEN n ELSE Len(u)
  BY <1>1
<1>3. PICK l \in Nat : l = IF n <= Len(v) THEN n ELSE Len(v)
  BY <1>1
<1>4. PICK a : a = Beginning(u, n)
  OBVIOUS
<1>5. PICK b : b = Beginning(v, n)
  OBVIOUS
<1>6. a \in Seq(Letters) /\ Len(a) = k /\ \A i \in 1 .. k : a[i] = u[i]
  <2>1. Heads(Beginning(u, n), u, k)
    BY <1>2, BeginningHeads
  <2> QED
    BY <1>4, <2>1 DEF Heads
<1>7. b \in Seq(Letters) /\ Len(b) = l /\ \A i \in 1 .. l : b[i] = v[i]
  <2>1. Heads(Beginning(v, n), v, l)
    BY <1>3, BeginningHeads
  <2> QED
    BY <1>5, <2>1 DEF Heads
<1>8. \A i \in 1 .. k : s1[i] = a[i] /\ s1[i] # NUL
  <2>1. ASSUME NEW i \in 1 .. k
        PROVE  s1[i] = a[i] /\ s1[i] # NUL
    <3>1. i \in 1 .. Len(u)
      BY <1>1, <1>2
    <3>2. s1[i] = u[i] /\ a[i] = u[i]
      BY <1>6, <3>1 DEF Holds
    <3>3. u[i] # NUL
      BY <3>1, LetterIs
    <3> QED
      BY <3>2, <3>3, Zenon
  <2> QED
    BY <2>1, Zenon
<1>9. \A i \in 1 .. l : s2[i] = b[i] /\ s2[i] # NUL
  <2>1. ASSUME NEW i \in 1 .. l
        PROVE  s2[i] = b[i] /\ s2[i] # NUL
    <3>1. i \in 1 .. Len(v)
      BY <1>1, <1>3
    <3>2. s2[i] = v[i] /\ b[i] = v[i]
      BY <1>7, <3>1 DEF Holds
    <3>3. v[i] # NUL
      BY <3>1, LetterIs
    <3> QED
      BY <3>2, <3>3, Zenon
  <2> QED
    BY <2>1, Zenon
<1>10. (k < n => s1[k + 1] = NUL) /\ (l < n => s2[l + 1] = NUL)
  <2>1. k < n => k = Len(u)
    BY <1>1, <1>2
  <2>2. l < n => l = Len(v)
    BY <1>1, <1>3
  <2> QED
    BY <2>1, <2>2 DEF Holds
<1>11. k <= n /\ l <= n
  BY <1>2, <1>3
<1>12. m - 1 <= k /\ m - 1 <= l
  <2>1. ASSUME m - 1 > k
        PROVE  FALSE
    <3>1. k + 1 \in 1 .. m - 1 /\ k < n
      BY <2>1, <1>11
    <3> QED
      BY <1>10, <3>1 DEF Compared
  <2>2. ASSUME m - 1 > l
        PROVE  FALSE
    <3>1. l + 1 \in 1 .. m - 1 /\ l < n
      BY <2>2, <1>11
    <3> QED
      BY <1>10, <3>1 DEF Compared
  <2> QED
    BY <2>1, <2>2
<1>13. \A j \in 1 .. m - 1 : a[j] = b[j]
  <2>1. \A j \in 1 .. m - 1 : s1[j] = s2[j] /\ j \in 1 .. k /\ j \in 1 .. l
    BY <1>12 DEF Compared
  <2> QED
    BY <1>8, <1>9, <2>1
<1>14. m \in Nat /\ m > 0
  OBVIOUS
<1>15. /\ m = k + 1 /\ m = l + 1 => Order(a, b) = 0
       /\ m <= l /\ (m = k + 1 \/ (m <= k /\ Ascii[a[m]] < Ascii[b[m]])) => Order(a, b) = -1
       /\ m <= k /\ (m = l + 1 \/ (m <= l /\ Ascii[b[m]] < Ascii[a[m]])) => Order(a, b) = 1
  BY <1>6, <1>7, <1>12, <1>13, <1>14, OrderIs
<1>16. CASE m = n + 1 /\ r = 0
  <2>1. m = k + 1 /\ m = l + 1
    BY <1>11, <1>12, <1>16
  <2> QED
    BY <1>4, <1>5, <1>15, <1>16, <2>1 DEF Sign
<1>17. CASE m \in 1 .. n /\ s1[m] = s2[m] /\ s1[m] = NUL /\ r = 0
  <2>1. m \notin 1 .. k /\ m \notin 1 .. l
    BY <1>8, <1>9, <1>17, Zenon
  <2>2. m = k + 1 /\ m = l + 1
    BY <1>12, <1>14, <2>1
  <2> QED
    BY <1>4, <1>5, <1>15, <1>17, <2>2 DEF Sign
<1>18. CASE m \in 1 .. n /\ s1[m] # s2[m] /\ r = Ascii[s1[m]] - Ascii[s2[m]]
  <2>1. CASE m <= k /\ m <= l
    <3>1. m \in 1 .. k /\ m \in 1 .. l
      BY <1>14, <2>1
    <3>2. s1[m] = a[m] /\ s2[m] = b[m]
      BY <1>8, <1>9, <3>1
    <3>3. Ascii[a[m]] \in Int /\ Ascii[b[m]] \in Int /\ a[m] \in Letters /\ b[m] \in Letters
      BY <1>6, <1>7, <3>1, LetterIs
    <3>4. Ascii[a[m]] # Ascii[b[m]]
      BY <1>18, <3>2, <3>3, LibCAssumption DEF Letters
    <3> QED
      BY <1>4, <1>5, <1>15, <1>18, <2>1, <3>2, <3>3, <3>4 DEF Sign
  <2>2. CASE m > k
    <3>1. m = k + 1 /\ k < n
      BY <1>12, <1>18, <2>2
    <3>2. s1[m] = NUL
      BY <1>10, <3>1
    <3>3. m <= l
      <4>1. l < n /\ m = l + 1 => s2[m] = NUL
        BY <1>10
      <4>2. m # l + 1
        BY <1>11, <1>18, <3>1, <3>2, <4>1
      <4> QED
        BY <1>12, <1>14, <4>2
    <3>4. m \in 1 .. l
      BY <1>14, <3>3
    <3>5. s2[m] = b[m] /\ Ascii[b[m]] \in Int /\ Ascii[b[m]] > Ascii[NUL]
      BY <1>7, <1>9, <3>4, LetterIs
    <3>6. r < 0 /\ r \in Int
      BY <1>18, <3>2, <3>5, LibraryAssumption
    <3> QED
      BY <1>4, <1>5, <1>15, <3>1, <3>3, <3>6 DEF Sign
  <2>3. CASE m > l /\ m <= k
    <3>1. m = l + 1 /\ l < n
      BY <1>12, <1>18, <2>3
    <3>2. s2[m] = NUL
      BY <1>10, <3>1
    <3>4. m \in 1 .. k
      BY <1>14, <2>3
    <3>5. s1[m] = a[m] /\ Ascii[a[m]] \in Int /\ Ascii[a[m]] > Ascii[NUL]
      BY <1>6, <1>8, <3>4, LetterIs
    <3>6. r > 0 /\ r \in Int
      BY <1>18, <3>2, <3>5, LibraryAssumption
    <3> QED
      BY <1>4, <1>5, <1>15, <2>3, <3>1, <3>6 DEF Sign
  <2> QED
    BY <2>1, <2>2, <2>3
<1> QED
  BY <1>16, <1>17, <1>18 DEF Compared

(* Two functions with the same beginning and the same steps end alike.      *)
LEMMA SameUpTo ==
    ASSUME NEW n \in Nat, NEW g, NEW h, h[0] = g[0],
           \A k \in 1 .. n : h[k - 1] = g[k - 1] => h[k] = g[k]
    PROVE  h[n] = g[n]
<1>1. PICK T : T = {k \in 0 .. n : h[k] = g[k]}
  OBVIOUS
<1>2. 0 \in T
  BY <1>1
<1>3. \A k \in 1 .. n : k - 1 \in T => k \in T
  BY <1>1
<1>4. 0 .. n \subseteq T
  BY <1>2, <1>3, UpTo
<1> QED
  BY <1>1, <1>4

(* A string of w, ...                                                       *)
LEMMA CStringHolds ==
    ASSUME NEW w \in Seq(Chars)
    PROVE  /\ Holds(CString(w), w) /\ Len(CString(w)) = Len(w) + 1
           /\ CString(w) = [i \in 1 .. Len(w) + 1 |-> IF i <= Len(w) THEN w[i] ELSE NUL]
<1>1. PICK S : S = STRING
  OBVIOUS
<1>2. w \in Seq(S)
  BY <1>1, SeqMonotonic, Zenon DEF Chars
<1>3. PICK x \in S : x = NUL
  BY <1>1, NulIs
<1>4. PICK e : e = Append(w, x)
  OBVIOUS
<1>5. /\ e \in Seq(S) /\ Len(e) = Len(w) + 1
      /\ \A i \in 1 .. Len(w) : e[i] = w[i]
      /\ e[Len(w) + 1] = x
  BY <1>2, <1>4, AppendProperties
<1>6. Len(w) \in Nat
  BY <1>2, LenProperties
<1>7. e = [i \in 1 .. Len(w) + 1 |-> IF i <= Len(w) THEN w[i] ELSE x]
  <2>1. DOMAIN e = 1 .. Len(w) + 1 /\ e = [i \in DOMAIN e |-> e[i]]
    BY <1>5, LenProperties
  <2>2. \A i \in 1 .. Len(w) + 1 : e[i] = IF i <= Len(w) THEN w[i] ELSE x
    BY <1>5, <1>6
  <2> QED
    BY <2>1, <2>2
<1>8. CString(w) = e
  BY <1>3, <1>4, Zenon DEF CString
<1>9. e \in Seq(STRING)
  BY <1>1, <1>5, Zenon
<1>10. Len(w) < Len(e)
  BY <1>5, <1>6
<1>11. Holds(e, w)
  BY <1>3, <1>5, <1>9, <1>10, Zenon DEF Holds
<1>12. e = [i \in 1 .. Len(w) + 1 |-> IF i <= Len(w) THEN w[i] ELSE NUL]
  BY <1>3, <1>7, Zenon
<1> QED
  BY <1>5, <1>8, <1>11, <1>12, Zenon

(* ... also with something behind it.                                       *)
LEMMA HeldAlso ==
    ASSUME NEW buf, NEW w, Holds(buf, w), NEW more \in Seq(STRING)
    PROVE  Holds(buf \o more, w)
<1>1. PICK S : S = STRING
  OBVIOUS
<1>2. buf \in Seq(S) /\ more \in Seq(S) /\ w \in Seq(Chars) /\ Len(w) < Len(buf)
  BY <1>1, Zenon DEF Holds
<1>3. Len(w) \in Nat /\ Len(buf) \in Nat /\ Len(more) \in Nat
  BY <1>2, LenProperties
<1>4. PICK e : e = buf \o more
  OBVIOUS
<1>5. /\ e \in Seq(S) /\ Len(e) = Len(buf) + Len(more)
      /\ \A i \in 1 .. Len(buf) + Len(more) :
            e[i] = IF i <= Len(buf) THEN buf[i] ELSE more[i - Len(buf)]
  BY <1>2, <1>4, ConcatProperties
<1>6. Len(w) < Len(e) /\ (\A i \in 1 .. Len(w) : e[i] = buf[i]) /\ e[Len(w) + 1] = buf[Len(w) + 1]
  BY <1>2, <1>3, <1>5
<1>7. e \in Seq(STRING)
  BY <1>1, <1>5, Zenon
<1> QED
  BY <1>2, <1>4, <1>6, <1>7, Zenon DEF Holds

(* Words are strings of characters.                                         *)
LEMMA LettersChars == Seq(Letters) \subseteq Seq(Chars)
<1>1. Letters \subseteq Chars
  BY LibCAssumption DEF Letters, Chars
<1> QED
  BY <1>1, SeqMonotonic

(* Memory holds the words.                                                  *)
LEMMA WordHolds ==
    ASSUME NEW w \in Words
    PROVE  w \in Seq(Letters) /\ Holds(InMemory(w), w)
<1>1. w \in Seq(Letters) /\ MaxCompared \in Nat
  BY LibraryAssumption
<1>2. PICK m : m = [i \in 1 .. MaxCompared |-> NL]
  OBVIOUS
<1>3. m \in [1 .. MaxCompared -> STRING]
  <2>1. PICK x \in STRING : x = NL
    <3> HIDE DEF NL
    <3> QED
      BY LibCAssumption, LibraryAssumption
  <2>2. m = [i \in 1 .. MaxCompared |-> x]
    BY <1>2, <2>1, Zenon
  <2> QED
    BY <2>2, Zenon
<1>4. m \in Seq(STRING)
  BY <1>1, <1>3, FunctionIsSeq
<1>5. Holds(CString(w), w)
  BY <1>1, LettersChars, CStringHolds
<1>6. Holds(CString(w) \o m, w)
  BY <1>4, <1>5, HeldAlso
<1> QED
  BY <1>1, <1>2, <1>6 DEF InMemory

(* The beginning of a word's length is the word.                            *)
LEMMA WholeBeginning ==
    ASSUME NEW w \in Seq(Letters), NEW n \in Nat, Len(w) <= n
    PROVE  Beginning(w, n) = w
<1>1. Len(w) \in Nat
  BY LenProperties
<1>2. PICK l : l = IF n <= Len(w) THEN n ELSE Len(w)
  OBVIOUS
<1>3. l = Len(w)
  BY <1>1, <1>2
<1>4. /\ Beginning(w, n) \in Seq(Letters) /\ Len(Beginning(w, n)) = l
      /\ \A i \in 1 .. l : Beginning(w, n)[i] = w[i]
  BY <1>2, BeginningIs
<1>5. PICK b : b = Beginning(w, n)
  OBVIOUS
<1> QED
  BY <1>3, <1>4, <1>5, SeqEqual

(* The three comparisons return the order of a dictionary.                  *)
LEMMA StringsCompared ==
    ASSUME NEW u \in Seq(Letters), NEW v \in Seq(Letters), NEW s1, NEW s2,
           Holds(s1, u), Holds(s2, v), NEW n \in Nat
    PROVE  /\ Sign(strncmp(s1, s2, n)) = Order(Beginning(u, n), Beginning(v, n))
           /\ Sign(ece391_strncmp(s1, s2, n)) = Order(Beginning(u, n), Beginning(v, n))
           /\ Sign(ece391_strcmp(s1, s2)) = Order(u, v)
<1>1. PICK m \in 1 .. n + 1 : Compared(s1, s2, n, m, strncmp(s1, s2, n))
  BY StrncmpIs
<1>2. PICK k \in 1 .. n + 1 : Compared(s1, s2, n, k, ece391_strncmp(s1, s2, n))
  BY ProgramStrncmpIs
<1>3. Sign(strncmp(s1, s2, n)) = Order(Beginning(u, n), Beginning(v, n))
  BY <1>1, ComparedIs
<1>4. Sign(ece391_strncmp(s1, s2, n)) = Order(Beginning(u, n), Beginning(v, n))
  BY <1>2, ComparedIs
<1>5. Len(u) \in Nat /\ Len(v) \in Nat
  BY LenProperties
<1>6. PICK e \in Nat : e = Len(u) + 1
  BY <1>5
<1>7. e \in End(s1)
  <2>1. strlen(s1) = Len(u)
    BY HeldText
  <2>2. s1[Len(u) + 1] = NUL
    BY DEF Holds
  <2>3. e # 0 /\ strlen(s1) + 1 = e /\ s1[e] = NUL
    BY <1>5, <1>6, <2>1, <2>2
  <2> QED
    BY <2>3 DEF End
<1>8. PICK i \in 1 .. e : Compared(s1, s2, e, i, ece391_strcmp(s1, s2))
  BY <1>7, ProgramStrcmpIs
<1>9. PICK big \in Nat : big = Len(u) + Len(v) + 1
  BY <1>5
<1>10. i \in 1 .. big + 1 /\ Compared(s1, s2, big, i, ece391_strcmp(s1, s2))
  <2>1. e <= big /\ i # e + 1
    BY <1>5, <1>6, <1>9
  <2> QED
    BY <1>8, <2>1 DEF Compared
<1>11. Sign(ece391_strcmp(s1, s2)) = Order(Beginning(u, big), Beginning(v, big))
  BY <1>10, ComparedIs
<1>12. Beginning(u, big) = u /\ Beginning(v, big) = v
  BY <1>5, <1>9, WholeBeginning
<1> QED
  BY <1>3, <1>4, <1>11, <1>12

(* The comparisons are right.                                               *)
LEMMA CompareStep ==
    ASSUME Compare
    PROVE  StringsRight' /\ call'.fn = "compare"
<1>1. PICK u \in Words, v \in Words, n \in 0 .. MaxCompared :
          call' = [fn |-> "compare", w1 |-> u, w2 |-> v, n |-> n,
                   strncmp |-> strncmp(InMemory(u), InMemory(v), n),
                   ece391_strncmp |-> ece391_strncmp(InMemory(u), InMemory(v), n),
                   ece391_strcmp |-> ece391_strcmp(InMemory(u), InMemory(v))]
  BY DEF Compare, Returns
<1>2. PICK s1, s2 : s1 = InMemory(u) /\ s2 = InMemory(v)
  OBVIOUS
<1>3. /\ Sign(strncmp(s1, s2, n)) = Order(Beginning(u, n), Beginning(v, n))
      /\ Sign(ece391_strncmp(s1, s2, n)) = Order(Beginning(u, n), Beginning(v, n))
      /\ Sign(ece391_strcmp(s1, s2)) = Order(u, v)
  <2>1. u \in Seq(Letters) /\ v \in Seq(Letters) /\ Holds(s1, u) /\ Holds(s2, v) /\ n \in Nat
    BY <1>2, WordHolds
  <2> QED
    BY <2>1, StringsCompared
<1> QED
  BY <1>1, <1>2, <1>3 DEF StringsRight

-----------------------------------------------------------------------------
(***************************************************************************)
(* strrev, and itoa, which collects the digits from the last on.           *)
(***************************************************************************)
(* A function on the first numbers is a sequence, of whatever it has values *)
(* in.                                                                      *)
LEMMA FunctionSeq ==
    ASSUME NEW S, NEW n \in Nat, NEW f \in [1 .. n -> S]
    PROVE  f \in Seq(S) /\ Len(f) = n
<1>1. f \in Seq(S)
  BY SeqDef, Zenon
<1>2. DOMAIN f = 1 .. Len(f) /\ Len(f) \in Nat
  BY <1>1, LenProperties
<1> QED
  BY <1>1, <1>2

(* The library's Reverse, place by place.                                   *)
LEMMA ReverseIs ==
    ASSUME NEW S, NEW w \in Seq(S)
    PROVE  /\ Reverse(w) \in Seq(S) /\ Len(Reverse(w)) = Len(w)
           /\ \A i \in 1 .. Len(w) : Reverse(w)[i] = w[Len(w) + 1 - i]
<1>1. PICK n \in Nat : n = Len(w)
  BY LenProperties
<1>2. PICK r : r = Reverse(w)
  OBVIOUS
<1>3. r = [i \in 1 .. n |-> w[(n - i) + 1]]
  BY <1>1, <1>2, Zenon DEF Reverse
<1>4. \A i \in 1 .. n : (n - i) + 1 \in 1 .. n /\ (n - i) + 1 = n + 1 - i
  OBVIOUS
<1>5. \A i \in 1 .. n : w[i] \in S
  BY <1>1, ElementOfSeq
<1>6. r \in [1 .. n -> S]
  BY <1>3, <1>4, <1>5
<1>7. r \in Seq(S) /\ Len(r) = n
  BY <1>6, FunctionSeq
<1>8. \A i \in 1 .. n : r[i] = w[n + 1 - i]
  BY <1>3, <1>4
<1> QED
  BY <1>1, <1>2, <1>7, <1>8

(* The ends up to the k-th are swapped.                                     *)
Swapped(s, n, k) ==
    [i \in 1 .. n + 1 |-> IF i <= n /\ (i <= k \/ i >= n + 1 - k) THEN s[n + 1 - i] ELSE s[i]]

(* One step of the loop.                                                    *)
SwapEnds(t, k, n) ==
    IF k < n - k + 1 THEN [t EXCEPT ![k] = t[n - k + 1], ![n - k + 1] = t[k]] ELSE t

(* The ends swapped up to k are those up to k - 1 and one pair more.        *)
LEMMA SwapStep ==
    ASSUME NEW n \in Nat, NEW s, s = [i \in 1 .. n + 1 |-> s[i]], NEW k \in 1 .. n, NEW t,
           t = Swapped(s, n, k - 1)
    PROVE  Swapped(s, n, k) = SwapEnds(t, k, n)
<1> DEFINE e == n - k + 1
           old(i) == IF i <= n /\ (i <= k - 1 \/ i >= n + 1 - (k - 1)) THEN s[n + 1 - i] ELSE s[i]
           new(i) == IF i <= n /\ (i <= k \/ i >= n + 1 - k) THEN s[n + 1 - i] ELSE s[i]
<1>1. t = [i \in 1 .. n + 1 |-> old(i)]
  BY DEF Swapped
<1>2. Swapped(s, n, k) = [i \in 1 .. n + 1 |-> new(i)]
  BY DEF Swapped
<1>3. CASE k < e
  <2>1. old(k) = s[k] /\ old(e) = s[e] /\ n + 1 - e = k /\ n + 1 - k = e
    BY <1>3
  <2>2. t[k] = s[k] /\ t[e] = s[e]
    <3>1. k \in 1 .. n + 1 /\ e \in 1 .. n + 1
      BY <1>3
    <3> HIDE DEF old, e
    <3> QED
      BY <1>1, <2>1, <3>1
  <2>3. \A i \in 1 .. n + 1 : i # k /\ i # e => new(i) = old(i)
    BY <1>3
  <2>4. new(k) = s[e] /\ new(e) = s[k]
    BY <1>3, <2>1
  <2>5. \A i \in 1 .. n + 1 : new(i) = IF i = e THEN t[k] ELSE IF i = k THEN t[e] ELSE t[i]
    <3>1. \A i \in 1 .. n + 1 : t[i] = old(i)
      BY <1>1
    <3> HIDE DEF old, new, e
    <3> QED
      BY <2>2, <2>3, <2>4, <3>1
  <2>6. [t EXCEPT ![k] = t[e], ![e] = t[k]]
          = [i \in 1 .. n + 1 |-> IF i = e THEN t[k] ELSE IF i = k THEN t[e] ELSE t[i]]
    <3> HIDE DEF e, old
    <3>1. DOMAIN t = 1 .. n + 1
      BY <1>1
    <3> QED
      BY <3>1
  <2> QED
    BY <1>2, <1>3, <2>5, <2>6 DEF SwapEnds
<1>4. CASE ~(k < e)
  <2>1. \A i \in 1 .. n + 1 : i # k /\ i # e => new(i) = old(i)
    BY <1>4
  <2>2. new(k) = old(k) /\ new(e) = old(e)
    <3>1. CASE k = e
      <4>1. n + 1 - k = k
        BY <3>1
      <4> QED
        BY <3>1, <4>1
    <3>2. CASE k > e
      BY <3>2
    <3> QED
      BY <1>4, <3>1, <3>2
  <2>3. \A i \in 1 .. n + 1 : new(i) = old(i)
    BY <2>1, <2>2
  <2> QED
    BY <1>1, <1>2, <1>4, <2>3 DEF SwapEnds
<1> QED
  BY <1>3, <1>4

(* strrev's loop swaps all the ends there are.                              *)
LEMMA StrrevIs ==
    ASSUME NEW s, NEW n \in Nat, strlen(s) = n, s = [i \in 1 .. n + 1 |-> s[i]]
    PROVE  strrev(s) = Swapped(s, n, n)
<1> DEFINE F(f) == [beg \in 0 .. n |-> IF beg = 0 THEN s ELSE SwapEnds(f[beg - 1], beg, n)]
<1>1. strrev(s) = (CHOOSE f : f = F(f))[n]
  BY DEF strrev, SwapEnds
<1>2. PICK g : g = [k \in 0 .. n |-> Swapped(s, n, k)]
  OBVIOUS
<1>3. Swapped(s, n, 0) = s
  <2>1. \A i \in 1 .. n + 1 : ~(i <= n /\ (i <= 0 \/ i >= n + 1 - 0))
    OBVIOUS
  <2> QED
    BY <2>1 DEF Swapped
<1>4. \A k \in 1 .. n : Swapped(s, n, k) = SwapEnds(Swapped(s, n, k - 1), k, n)
  <2> SUFFICES ASSUME NEW k \in 1 .. n
               PROVE  Swapped(s, n, k) = SwapEnds(Swapped(s, n, k - 1), k, n)
    OBVIOUS
  <2>1. PICK t : t = Swapped(s, n, k - 1)
    OBVIOUS
  <2> QED
    BY <2>1, SwapStep
<1>5. g = F(g)
  <2>1. ASSUME NEW k \in 0 .. n
        PROVE  g[k] = F(g)[k]
    <3>1. CASE k = 0
      BY <1>2, <1>3, <3>1
    <3>2. CASE k # 0
      <4>1. k \in 1 .. n /\ k - 1 \in 0 .. n
        BY <3>2
      <4>2. g[k] = Swapped(s, n, k) /\ g[k - 1] = Swapped(s, n, k - 1)
        BY <1>2, <4>1
      <4> QED
        BY <1>4, <3>2, <4>1, <4>2
    <3> QED
      BY <3>1, <3>2
  <2> QED
    BY <1>2, <2>1
<1>6. PICK h : h = CHOOSE f : f = F(f)
  OBVIOUS
<1>7. h = F(h)
  <2> HIDE DEF F
  <2> QED
    BY <1>5, <1>6
<1>8. h[0] = g[0]
  BY <1>5, <1>7
<1>9. ASSUME NEW k \in 1 .. n, h[k - 1] = g[k - 1]
      PROVE  h[k] = g[k]
  <2>1. k \in 0 .. n /\ k # 0
    OBVIOUS
  <2>2. h[k] = SwapEnds(h[k - 1], k, n) /\ g[k] = SwapEnds(g[k - 1], k, n)
    BY <1>5, <1>7, <2>1
  <2> QED
    BY <1>9, <2>2
<1>10. h[n] = g[n]
  BY <1>8, <1>9, SameUpTo
<1> QED
  BY <1>1, <1>2, <1>6, <1>10

(* strrev reverses what its buffer holds.                                   *)
LEMMA StrrevReverses ==
    ASSUME NEW w \in Seq(Chars)
    PROVE  strrev(CString(w)) = CString(Reverse(w)) /\ Reverse(w) \in Seq(Chars)
<1>1. PICK s : s = CString(w)
  OBVIOUS
<1>2. PICK r : r = Reverse(w)
  OBVIOUS
<1>3. PICK n \in Nat : n = Len(w)
  BY LenProperties
<1>4. r \in Seq(Chars) /\ Len(r) = n /\ \A i \in 1 .. n : r[i] = w[n + 1 - i]
  BY <1>2, <1>3, ReverseIs
<1>5. PICK z : z = NUL
  OBVIOUS
<1>6. /\ Holds(CString(w), w)
      /\ CString(w) = [i \in 1 .. Len(w) + 1 |-> IF i <= Len(w) THEN w[i] ELSE NUL]
  BY CStringHolds, Zenon
<1>7. /\ strlen(s) = n
      /\ s = [i \in 1 .. n + 1 |-> IF i <= n THEN w[i] ELSE z]
  <2>1. strlen(s) = Len(w)
    BY <1>1, <1>6, HeldText, Zenon
  <2> QED
    BY <1>1, <1>3, <1>5, <1>6, <2>1, Zenon
<1>8. CString(r) = [i \in 1 .. Len(r) + 1 |-> IF i <= Len(r) THEN r[i] ELSE NUL]
  BY <1>4, CStringHolds, Zenon
<1>9. CString(r) = [i \in 1 .. n + 1 |-> IF i <= n THEN r[i] ELSE z]
  BY <1>4, <1>5, <1>8, Zenon
<1>10. s = [i \in 1 .. n + 1 |-> s[i]]
  BY <1>7
<1>11. strrev(s) = Swapped(s, n, n)
  BY <1>7, <1>10, StrrevIs
<1>12. Swapped(s, n, n) = [i \in 1 .. n + 1 |-> IF i <= n THEN r[i] ELSE z]
  <2>1. ASSUME NEW i \in 1 .. n + 1
        PROVE  (IF i <= n /\ (i <= n \/ i >= n + 1 - n) THEN s[n + 1 - i] ELSE s[i])
                 = IF i <= n THEN r[i] ELSE z
    <3>1. CASE i <= n
      <4>1. i \in 1 .. n /\ n + 1 - i \in 1 .. n + 1 /\ n + 1 - i <= n
        BY <3>1
      <4>2. s[n + 1 - i] = w[n + 1 - i] /\ r[i] = w[n + 1 - i]
        BY <1>4, <1>7, <4>1
      <4> QED
        BY <3>1, <4>2
    <3>2. CASE ~(i <= n)
      BY <1>7, <3>2
    <3> QED
      BY <3>1, <3>2
  <2> QED
    BY <2>1 DEF Swapped
<1> QED
  BY <1>1, <1>2, <1>4, <1>9, <1>11, <1>12, Zenon

(* strrev is right.                                                         *)
LEMMA StringReversedStep ==
    ASSUME StringReversed
    PROVE  StringsRight' /\ call'.fn = "strrev"
<1>1. PICK w \in Words : call' = [fn |-> "strrev", w |-> w, result |-> strrev(CString(w))]
  BY DEF StringReversed, Returns
<1>2. strrev(CString(w)) = CString(Reverse(w))
  <2>1. w \in Seq(Chars)
    BY WordHolds, LettersChars
  <2> QED
    BY <2>1, StrrevReverses
<1> QED
  BY <1>1, <1>2 DEF StringsRight

(* What holds of a number when it holds of all below, holds up to n.        *)
LEMMA AllBelow ==
    ASSUME NEW n \in Nat, NEW T, \A i \in 0 .. n : (\A j \in 0 .. i - 1 : j \in T) => i \in T
    PROVE  0 .. n \subseteq T
<1> DEFINE Missed == {i \in 0 .. n : i \notin T}
<1>1. ASSUME Missed # {}
      PROVE  FALSE
  <2>1. PICK i \in Missed : \A j \in Missed : i <= j
    <3>1. Missed \in SUBSET Nat
      OBVIOUS
    <3> HIDE DEF Missed
    <3> QED
      BY <1>1, <3>1, LeastNumber
  <2>2. \A j \in 0 .. i - 1 : j \in T
    BY <2>1
  <2> QED
    BY <2>2
<1> QED
  BY <1>1

(* Two functions that agree at a number when they agree below, agree at n.  *)
LEMMA SameBelow ==
    ASSUME NEW n \in Nat, NEW g, NEW h,
           \A k \in 0 .. n : (\A j \in 0 .. k - 1 : h[j] = g[j]) => h[k] = g[k]
    PROVE  h[n] = g[n]
<1>1. PICK T : T = {k \in 0 .. n : h[k] = g[k]}
  OBVIOUS
<1>2. \A i \in 0 .. n : (\A j \in 0 .. i - 1 : j \in T) => i \in T
  BY <1>1
<1>3. 0 .. n \subseteq T
  BY <1>2, AllBelow
<1> QED
  BY <1>1, <1>3

-----------------------------------------------------------------------------
Radices == {2, 10, 16}

(* The last digit of a number and what is left of it.                       *)
LEMMA DigitsOf ==
    ASSUME NEW n \in Nat, NEW radix \in Radices
    PROVE  /\ radix \in 2 .. 16 /\ n % radix \in 0 .. radix - 1 /\ n \div radix \in Nat
           /\ n > 0 => n \div radix < n
           /\ n < radix => n \div radix = 0 /\ n % radix = n
           /\ n >= radix => n \div radix > 0
<1>1. CASE radix = 2
  BY <1>1
<1>2. CASE radix = 10
  BY <1>2
<1>3. CASE radix = 16
  BY <1>3
<1> QED
  BY <1>1, <1>2, <1>3 DEF Radices

(* A digit is a character.                                                  *)
LEMMA LookupIs == \A i \in 1 .. 16 : lookup[i] \in Chars
<1>1. lookup \in Seq(STRING)
  BY LibraryAssumption
<1>2. Len(lookup) = 16
  BY DEF lookup
<1>3. \A i \in 1 .. 16 : lookup[i] \in STRING
  <2> SUFFICES ASSUME NEW i \in 1 .. 16
               PROVE  lookup[i] \in STRING
    OBVIOUS
  <2>1. PICK S : S = STRING
    OBVIOUS
  <2>2. i \in 1 .. Len(lookup) /\ lookup \in Seq(S)
    BY <1>1, <1>2, <2>1
  <2> QED
    BY <2>1, <2>2, ElementOfSeq
<1>4. \A i \in 1 .. 16 : lookup[i] # NUL
  BY DEF lookup, NUL
<1> QED
  BY <1>3, <1>4, Zenon DEF Chars

(* f[n] is the numeral of each n up to i.                                   *)
Numerals(f, i, radix) ==
    f = [n \in 0 .. i |-> IF n < radix THEN <<lookup[n + 1]>>
                          ELSE Append(f[n \div radix], lookup[(n % radix) + 1])]

(* The recursion over the digits defines a function.                        *)
LEMMA NumeralsExist ==
    ASSUME NEW v \in Nat, NEW radix \in Radices
    PROVE  \E f : Numerals(f, v, radix)
<1> DEFINE E(i) == \E f : Numerals(f, i, radix)
           Next1(f, n) == IF n < radix THEN <<lookup[n + 1]>>
                          ELSE Append(f[n \div radix], lookup[(n % radix) + 1])
<1>1. PICK T : T = {i \in 0 .. v : E(i)}
  OBVIOUS
<1>2. 0 \in T
  <2>1. PICK f : f = [n \in 0 .. 0 |-> <<lookup[n + 1]>>]
    OBVIOUS
  <2>2. 0 < radix
    BY DigitsOf
  <2>3. Numerals(f, 0, radix)
    <3>1. \A n \in 0 .. 0 : n < radix
      BY <2>2
    <3> QED
      BY <2>1, <3>1 DEF Numerals
  <2> QED
    BY <1>1, <2>3
<1>3. ASSUME NEW i \in 1 .. v, i - 1 \in T
      PROVE  i \in T
  <2>1. PICK f : Numerals(f, i - 1, radix)
    BY <1>1, <1>3
  <2>2. PICK x : x = Next1(f, i)
    OBVIOUS
  <2>3. PICK g : g = [n \in 0 .. i |-> IF n = i THEN x ELSE f[n]]
    OBVIOUS
  <2>4. ASSUME NEW n \in 0 .. i
        PROVE  g[n] = Next1(g, n)
    <3>1. CASE n < radix
      <4>1. CASE n = i
        BY <2>2, <2>3, <3>1, <4>1
      <4>2. CASE n # i
        <5>1. n \in 0 .. i - 1
          BY <4>2
        <5>2. f[n] = <<lookup[n + 1]>>
          BY <2>1, <3>1, <5>1 DEF Numerals
        <5> QED
          BY <2>3, <3>1, <4>2, <5>2
      <4> QED
        BY <4>1, <4>2
    <3>2. CASE ~(n < radix)
      <4>1. PICK q : q = n \div radix
        OBVIOUS
      <4>2. q \in 0 .. i - 1
        BY <3>2, <4>1, DigitsOf
      <4>3. g[q] = f[q]
        BY <2>3, <4>2
      <4>4. PICK c : c = lookup[(n % radix) + 1]
        OBVIOUS
      <4>5. CASE n = i
        BY <2>2, <2>3, <3>2, <4>1, <4>3, <4>5
      <4>6. CASE n # i
        <5>1. n \in 0 .. i - 1
          BY <4>6
        <5>2. f[n] = Append(f[q], c)
          BY <2>1, <3>2, <4>1, <4>4, <5>1 DEF Numerals
        <5> QED
          BY <2>3, <3>2, <4>1, <4>3, <4>4, <4>6, <5>2
      <4> QED
        BY <4>5, <4>6
    <3> QED
      BY <3>1, <3>2
  <2>5. g = [n \in 0 .. i |-> Next1(g, n)]
    <3> HIDE DEF Next1
    <3> QED
      BY <2>3, <2>4
  <2>6. Numerals(g, i, radix)
    BY <2>5 DEF Numerals
  <2> QED
    BY <1>1, <2>6
<1>4. 0 .. v \subseteq T
  <2> HIDE DEF E
  <2> QED
    BY <1>2, <1>3, UpTo
<1>5. v \in T
  BY <1>4
<1> QED
  BY <1>1, <1>5

(* A numeral is made of digits, one at least.                               *)
LEMMA NumeralsAre ==
    ASSUME NEW v \in Nat, NEW radix \in Radices, NEW f, Numerals(f, v, radix)
    PROVE  \A n \in 0 .. v : f[n] \in Seq(Chars) /\ Len(f[n]) > 0
<1>1. PICK T : T = {n \in 0 .. v : f[n] \in Seq(Chars) /\ Len(f[n]) > 0}
  OBVIOUS
<1>2. ASSUME NEW i \in 0 .. v, \A j \in 0 .. i - 1 : j \in T
      PROVE  i \in T
  <2>1. CASE i < radix
    <3>1. PICK x : x = <<lookup[i + 1]>>
      OBVIOUS
    <3>2. f[i] = x
      BY <2>1, <3>1 DEF Numerals
    <3>3. x \in Seq(Chars) /\ Len(x) = 1
      <4>1. i + 1 \in 1 .. 16
        BY <2>1, DigitsOf
      <4> QED
        BY <3>1, <4>1, LookupIs
    <3>4. f[i] \in Seq(Chars) /\ Len(f[i]) > 0
      BY <3>2, <3>3
    <3> QED
      BY <1>1, <3>4, Zenon
  <2>2. CASE ~(i < radix)
    <3>1. PICK q : q = i \div radix
      OBVIOUS
    <3>2. PICK c : c = lookup[(i % radix) + 1]
      OBVIOUS
    <3>3. q \in 0 .. i - 1 /\ (i % radix) + 1 \in 1 .. 16
      <4>1. radix \in 2 .. 16
        BY DigitsOf
      <4>2. i > 0 /\ i \in Nat
        BY <2>2, <4>1
      <4>3. i % radix \in 0 .. radix - 1 /\ q \in Nat /\ q < i
        BY <3>1, <4>2, DigitsOf
      <4> QED
        BY <4>1, <4>2, <4>3
    <3>4. f[i] = Append(f[q], c)
      BY <2>2, <3>1, <3>2 DEF Numerals
    <3>5. f[q] \in Seq(Chars) /\ c \in Chars
      BY <1>1, <1>2, <3>2, <3>3, LookupIs
    <3>6. PICK y, z : y = f[q] /\ z = f[i]
      OBVIOUS
    <3>7. z \in Seq(Chars) /\ Len(z) = Len(y) + 1 /\ Len(y) \in Nat
      BY <3>4, <3>5, <3>6, AppendProperties, LenProperties
    <3> QED
      BY <1>1, <3>6, <3>7
  <2> QED
    BY <2>1, <2>2
<1>3. 0 .. v \subseteq T
  BY <1>2, AllBelow
<1> QED
  BY <1>1, <1>3

(* It is the one behind Numeral.                                            *)
LEMMA NumeralIs ==
    ASSUME NEW v \in Nat, NEW radix \in Radices
    PROVE  \E f : Numerals(f, v, radix) /\ Numeral(v, radix) = f[v]
<1> DEFINE F(f) == [n \in 0 .. v |-> IF n < radix THEN <<lookup[n + 1]>>
                          ELSE Append(f[n \div radix], lookup[(n % radix) + 1])]
<1>1. Numeral(v, radix) = (CHOOSE f : f = F(f))[v]
  BY DEF Numeral
<1>2. PICK h : h = CHOOSE f : f = F(f)
  OBVIOUS
<1>3. \A f : f = F(f) <=> Numerals(f, v, radix)
  BY DEF Numerals
<1>4. h = F(h)
  <2>1. PICK g : Numerals(g, v, radix)
    BY NumeralsExist
  <2>2. g = F(g)
    BY <1>3, <2>1
  <2> HIDE DEF F
  <2> QED
    BY <1>2, <2>2
<1>5. Numerals(h, v, radix)
  BY <1>3, <1>4
<1> HIDE DEF F
<1> QED
  BY <1>1, <1>2, <1>5

(* A numeral is a word.                                                     *)
LEMMA NumeralWord ==
    ASSUME NEW v \in Nat, NEW radix \in Radices
    PROVE  Numeral(v, radix) \in Seq(Chars) /\ Len(Numeral(v, radix)) > 0
BY NumeralIs, NumeralsAre

(* The last character reversed is the first.                                *)
LEMMA ReverseAppend ==
    ASSUME NEW S, NEW w \in Seq(S), NEW c \in S
    PROVE  Reverse(Append(w, c)) = <<c>> \o Reverse(w)
<1>1. PICK n \in Nat : n = Len(w)
  BY LenProperties
<1>2. PICK r : r = Reverse(w)
  OBVIOUS
<1>3. r \in Seq(S) /\ Len(r) = n /\ \A i \in 1 .. n : r[i] = w[n + 1 - i]
  BY <1>1, <1>2, ReverseIs
<1>4. PICK a : a = Append(w, c)
  OBVIOUS
<1>5. a \in Seq(S) /\ Len(a) = n + 1 /\ a[n + 1] = c /\ \A i \in 1 .. n : a[i] = w[i]
  BY <1>1, <1>4, AppendProperties
<1>6. PICK x : x = Reverse(a)
  OBVIOUS
<1>7. x \in Seq(S) /\ Len(x) = n + 1 /\ \A i \in 1 .. n + 1 : x[i] = a[(n + 1) + 1 - i]
  BY <1>5, <1>6, ReverseIs
<1>8. PICK o : o = <<c>>
  OBVIOUS
<1>9. o \in Seq(S) /\ Len(o) = 1 /\ o[1] = c
  BY <1>8
<1>10. PICK y : y = o \o r
  OBVIOUS
<1>11. /\ y \in Seq(S) /\ Len(y) = 1 + n
       /\ \A i \in 1 .. 1 + n : y[i] = IF i <= 1 THEN o[i] ELSE r[i - 1]
  <2>1. /\ y \in Seq(S) /\ Len(y) = Len(o) + Len(r)
        /\ \A i \in 1 .. Len(o) + Len(r) : y[i] = IF i <= Len(o) THEN o[i] ELSE r[i - Len(o)]
    BY <1>3, <1>9, <1>10, ConcatProperties
  <2> QED
    BY <1>3, <1>9, <2>1
<1>12. ASSUME NEW i \in 1 .. n + 1
       PROVE  x[i] = y[i]
  <2>1. CASE i = 1
    <3>1. x[i] = a[n + 1]
      BY <1>7, <2>1
    <3> QED
      BY <1>5, <1>9, <1>11, <2>1, <3>1
  <2>2. CASE i # 1
    <3>1. (n + 1) + 1 - i \in 1 .. n /\ i - 1 \in 1 .. n /\ n + 1 - (i - 1) = (n + 1) + 1 - i
      BY <2>2
    <3>2. x[i] = w[(n + 1) + 1 - i]
      BY <1>5, <1>7, <3>1
    <3>3. y[i] = r[i - 1]
      BY <1>11, <2>2
    <3> QED
      BY <1>3, <3>1, <3>2, <3>3
  <2> QED
    BY <2>1, <2>2
<1>13. x = y
  <2>1. Len(x) = n + 1 /\ Len(y) = n + 1
    BY <1>7, <1>11
  <2>2. Len(x) = Len(y) /\ \A i \in 1 .. Len(x) : x[i] = y[i]
    BY <1>12, <2>1
  <2> QED
    BY <1>7, <1>11, <2>2, SeqEqual
<1> QED
  BY <1>2, <1>4, <1>6, <1>8, <1>10, <1>13

(* Reversed twice, a sequence is what it was.                               *)
LEMMA ReverseTwice ==
    ASSUME NEW S, NEW w \in Seq(S)
    PROVE  Reverse(Reverse(w)) = w
<1>1. PICK n \in Nat : n = Len(w)
  BY LenProperties
<1>2. PICK r : r = Reverse(w)
  OBVIOUS
<1>3. r \in Seq(S) /\ Len(r) = n /\ \A i \in 1 .. n : r[i] = w[n + 1 - i]
  BY <1>1, <1>2, ReverseIs
<1>4. PICK x : x = Reverse(r)
  OBVIOUS
<1>5. x \in Seq(S) /\ Len(x) = n /\ \A i \in 1 .. n : x[i] = r[n + 1 - i]
  BY <1>3, <1>4, ReverseIs
<1>6. \A i \in 1 .. n : n + 1 - i \in 1 .. n /\ n + 1 - (n + 1 - i) = i
  OBVIOUS
<1>7. \A i \in 1 .. n : x[i] = w[i]
  BY <1>3, <1>5, <1>6
<1>8. x = w
  BY <1>1, <1>5, <1>7, SeqEqual
<1> QED
  BY <1>2, <1>4, <1>8

(* The digits itoa collects are those of the numeral from the last on.      *)
LEMMA ItoaIs ==
    ASSUME NEW v \in Nat, NEW radix \in Radices
    PROVE  itoa(v, radix) = CString(Numeral(v, radix))
<1>1. PICK N : Numerals(N, v, radix) /\ Numeral(v, radix) = N[v]
  BY NumeralIs
<1>2. \A n \in 0 .. v : N[n] \in Seq(Chars) /\ Len(N[n]) > 0
  BY <1>1, NumeralsAre
<1> DEFINE F(f) == [n \in 0 .. v |-> IF n = 0 THEN <<>>
                                     ELSE <<lookup[(n % radix) + 1]>> \o f[n \div radix]]
<1>3. CASE v = 0
  <2>1. N[0] = <<lookup[1]>>
    <3>1. 0 < radix
      BY DigitsOf
    <3> QED
      BY <1>1, <1>3, <3>1 DEF Numerals
  <2>2. lookup[1] = "0"
    BY DEF lookup
  <2>3. itoa(v, radix) = CString(<<"0">>)
    BY <1>3 DEF itoa
  <2> QED
    BY <1>1, <1>3, <2>1, <2>2, <2>3
<1>4. CASE v # 0
  <2>1. itoa(v, radix) = strrev(CString((CHOOSE f : f = F(f))[v]))
    BY <1>4 DEF itoa
  <2>2. PICK g : g = [n \in 0 .. v |-> IF n = 0 THEN <<>> ELSE Reverse(N[n])]
    OBVIOUS
  <2>3. ASSUME NEW n \in 0 .. v, n # 0
        PROVE  g[n] = <<lookup[(n % radix) + 1]>> \o g[n \div radix]
    <3>1. PICK q : q = n \div radix
      OBVIOUS
    <3>2. PICK c : c = lookup[(n % radix) + 1]
      OBVIOUS
    <3>3. q \in 0 .. n - 1 /\ (n % radix) + 1 \in 1 .. 16
      <4>1. n > 0 /\ n \in Nat
        BY <2>3
      <4>2. radix \in 2 .. 16 /\ n % radix \in 0 .. radix - 1 /\ q \in Nat /\ q < n
        BY <3>1, <4>1, DigitsOf
      <4> QED
        BY <4>1, <4>2
    <3>4. c \in Chars
      BY <3>2, <3>3, LookupIs
    <3>5. CASE n < radix
      <4>1. q = 0 /\ n % radix = n
        BY <3>1, <3>5, DigitsOf
      <4>2. N[n] = <<c>>
        BY <1>1, <3>2, <3>5, <4>1 DEF Numerals
      <4>3. Reverse(<<c>>) = <<c>> \o <<>>
        <5>1. PICK e : e = <<>>
          OBVIOUS
        <5>2. e \in Seq(Chars) /\ Len(e) = 0
          BY <5>1, EmptySeq
        <5>3. Reverse(Append(e, c)) = <<c>> \o Reverse(e)
          BY <3>4, <5>2, ReverseAppend
        <5>4. Append(e, c) = <<c>>
          BY <5>1
        <5>5. Reverse(e) = e
          <6>1. PICK z : z = Reverse(e)
            OBVIOUS
          <6>2. z \in Seq(Chars) /\ Len(z) = 0
            BY <5>2, <6>1, ReverseIs
          <6> QED
            BY <5>2, <6>1, <6>2, SeqEqual
        <5> QED
          BY <5>1, <5>3, <5>4, <5>5
      <4>4. g[n] = Reverse(<<c>>) /\ g[q] = <<>>
        BY <2>2, <2>3, <4>1, <4>2
      <4> QED
        BY <3>1, <3>2, <4>3, <4>4
    <3>6. CASE ~(n < radix)
      <4>1. q > 0
        BY <3>1, <3>6, DigitsOf
      <4>2. N[n] = Append(N[q], c)
        BY <1>1, <3>1, <3>2, <3>6 DEF Numerals
      <4>3. N[q] \in Seq(Chars)
        BY <1>2, <3>3
      <4>4. PICK y : y = N[q]
        OBVIOUS
      <4>5. Reverse(Append(y, c)) = <<c>> \o Reverse(y)
        BY <3>4, <4>3, <4>4, ReverseAppend
      <4>6. g[n] = Reverse(Append(y, c)) /\ g[q] = Reverse(y)
        BY <2>2, <2>3, <3>3, <4>1, <4>2, <4>4
      <4> QED
        BY <3>1, <3>2, <4>5, <4>6
    <3> QED
      BY <3>5, <3>6
  <2>4. g[0] = <<>>
    BY <2>2
  <2>5. g = F(g)
    <3>1. ASSUME NEW n \in 0 .. v
          PROVE  g[n] = F(g)[n]
      <4>1. CASE n = 0
        BY <2>4, <4>1
      <4>2. CASE n # 0
        BY <2>3, <4>2
      <4> QED
        BY <4>1, <4>2
    <3> QED
      BY <2>2, <3>1
  <2>6. PICK h : h = CHOOSE f : f = F(f)
    OBVIOUS
  <2>7. h = F(h)
    <3> HIDE DEF F
    <3> QED
      BY <2>5, <2>6
  <2>8. ASSUME NEW k \in 0 .. v, \A j \in 0 .. k - 1 : h[j] = g[j]
        PROVE  h[k] = g[k]
    <3>1. CASE k = 0
      BY <2>4, <2>7, <3>1
    <3>2. CASE k # 0
      <4>1. PICK q : q = k \div radix
        OBVIOUS
      <4>2. q \in 0 .. k - 1
        BY <3>2, <4>1, DigitsOf
      <4>3. h[k] = <<lookup[(k % radix) + 1]>> \o h[k \div radix]
        BY <2>7, <3>2
      <4>4. g[k] = <<lookup[(k % radix) + 1]>> \o g[k \div radix]
        BY <2>3, <3>2
      <4> QED
        BY <2>8, <4>1, <4>2, <4>3, <4>4
    <3> QED
      BY <3>1, <3>2
  <2>9. h[v] = g[v]
    BY <2>8, SameBelow
  <2>10. PICK y \in Seq(Chars) : y = N[v]
    BY <1>2
  <2>11. h[v] = Reverse(y)
    BY <1>4, <2>2, <2>9, <2>10
  <2>12. Reverse(y) \in Seq(Chars) /\ Reverse(Reverse(y)) = y
    BY ReverseIs, ReverseTwice
  <2>13. PICK r \in Seq(Chars) : r = Reverse(y)
    BY <2>12
  <2>14. strrev(CString(r)) = CString(Reverse(r))
    BY StrrevReverses
  <2> QED
    BY <1>1, <2>1, <2>6, <2>10, <2>11, <2>12, <2>13, <2>14, Zenon
<1> QED
  BY <1>3, <1>4

(* itoa is right.                                                           *)
LEMMA NumberStep ==
    ASSUME Number
    PROVE  NumbersRight' /\ call'.fn = "itoa"
<1>1. PICK v \in Values, radix \in Radices :
          call' = [fn |-> "itoa", v |-> v, radix |-> radix, result |-> itoa(v, radix)]
  BY DEF Number, Returns, Radices
<1>2. itoa(v, radix) = CString(Numeral(v, radix))
  <2>1. v \in Nat
    BY LibraryAssumption
  <2> QED
    BY <2>1, ItoaIs
<1> QED
  BY <1>1, <1>2 DEF NumbersRight

-----------------------------------------------------------------------------
(***************************************************************************)
(* printf: h[i][k] is what it puts out from the i-th character of its format *)
(* and its k-th argument on.                                               *)
(***************************************************************************)
(* The text of a C string is the word it was made of.                       *)
LEMMA TextIs ==
    ASSUME NEW w \in Seq(Chars)
    PROVE  Text(CString(w)) = w
BY CStringHolds, HeldText, Zenon

(* What is printed from the i-th character of a format on depends only on   *)
(* what is printed from later ones on.                                      *)
LEMMA SpecifierIs ==
    ASSUME NEW S, NEW format \in Seq(S), NEW i \in 1 .. Len(format)
    PROVE  /\ Specifier(format, i) \in i + 1 .. Len(format) + 1
           /\ \A j \in i + 1 .. Len(format) :
                 format[j] # "#" /\ (\A m \in i + 1 .. j - 1 : format[m] = "#")
                 => Specifier(format, i) = j
<1>1. PICK l \in Nat : l = Len(format)
  BY LenProperties
<1>2. PICK P : P = {n \in i + 1 .. l + 1 : n > l \/ format[n] # "#"}
  OBVIOUS
<1>3. P \in SUBSET Nat /\ l + 1 \in P
  BY <1>1, <1>2
<1>4. PICK s : s = Min(P)
  OBVIOUS
<1>5. s \in P /\ \A y \in P : s <= y
  BY <1>3, <1>4, MinIs
<1>6. Specifier(format, i) = s
  BY <1>1, <1>2, <1>4 DEF Specifier
<1>7. ASSUME NEW j \in i + 1 .. l, format[j] # "#", \A m \in i + 1 .. j - 1 : format[m] = "#"
      PROVE  s = j
  <2>1. j \in P /\ s <= j
    BY <1>2, <1>5, <1>7
  <2>2. s \notin i + 1 .. j - 1
    BY <1>1, <1>2, <1>5, <1>7
  <2> QED
    BY <1>1, <1>2, <1>5, <2>1, <2>2
<1> QED
  BY <1>1, <1>2, <1>5, <1>6, <1>7

(* It depends on them only.                                                 *)
LEMMA PutFromSame ==
    ASSUME NEW S, NEW format \in Seq(S), NEW av, NEW i \in 1 .. Len(format) + 1, NEW k \in Nat,
           NEW f, NEW g, \A j \in i + 1 .. Len(format) + 1 : f[j] = g[j]
    PROVE  PutFrom(format, av, f, i, k) = PutFrom(format, av, g, i, k)
<1>1. PICK l \in Nat : l = Len(format)
  BY LenProperties
<1>2. CASE i > l
  BY <1>1, <1>2 DEF PutFrom
<1>3. CASE i <= l
  <2>1. PICK j : j = Specifier(format, i)
    OBVIOUS
  <2>2. j \in i + 1 .. l + 1
    <3>1. i \in 1 .. Len(format)
      BY <1>1, <1>3
    <3> QED
      BY <1>1, <2>1, <3>1, SpecifierIs
  <2>3. f[i + 1] = g[i + 1]
    BY <1>1, <1>3
  <2>4. j <= l => f[j + 1] = g[j + 1]
    BY <1>1, <2>2
  <2> QED
    BY <1>1, <1>3, <2>1, <2>2, <2>3, <2>4 DEF PutFrom
<1> QED
  BY <1>1, <1>2, <1>3

(* h[i][k]: the characters from the i-th and the k-th argument on.          *)
Printing(h, format, av) ==
    \A i \in 1 .. Len(format) + 1, k \in Nat : h[i][k] = PutFrom(format, av, h, i, k)

(* The function printf's recursion defines.                                 *)
Rows(f, format, av) ==
    f = [i \in 1 .. Len(format) + 1 |-> [k \in Nat |-> PutFrom(format, av, f, i, k)]]

(* printf's recursion defines a function.                                   *)
LEMMA PrintingExists ==
    ASSUME NEW S, NEW format \in Seq(S), NEW av
    PROVE  \E f : Rows(f, format, av)
<1>1. PICK n \in Nat : n = Len(format) + 1 /\ n > 0
  BY LenProperties
<1> DEFINE Row(f, i) == [k \in Nat |-> PutFrom(format, av, f, i, k)]
           From(f, m) == f = [i \in m .. n |-> Row(f, i)]
<1>2. PICK T : T = {d \in 0 .. n : \E f : From(f, n + 1 - d)}
  OBVIOUS
<1>3. 0 \in T
  <2>1. PICK f : f = [i \in n + 1 .. n |-> 0]
    OBVIOUS
  <2>2. From(f, n + 1)
    <3>1. n + 1 .. n = {}
      OBVIOUS
    <3> HIDE DEF Row
    <3> QED
      BY <2>1, <3>1
  <2>3. n + 1 - 0 = n + 1
    OBVIOUS
  <2> HIDE DEF From
  <2> QED
    BY <1>2, <2>2, <2>3
<1>4. ASSUME NEW d \in 1 .. n, d - 1 \in T
      PROVE  d \in T
  <2>1. PICK m \in 1 .. n : m = n + 1 - d
    OBVIOUS
  <2>2. PICK f : From(f, m + 1)
    <3>1. n + 1 - (d - 1) = m + 1
      BY <2>1
    <3> HIDE DEF From
    <3> QED
      BY <1>2, <1>4, <3>1
  <2>3. PICK x : x = Row(f, m)
    OBVIOUS
  <2>4. PICK g : g = [i \in m .. n |-> IF i = m THEN x ELSE f[i]]
    OBVIOUS
  <2>5. \A i \in m + 1 .. n : g[i] = f[i]
    BY <2>4
  <2>6. ASSUME NEW i \in m .. n
        PROVE  g[i] = Row(g, i)
    <3>1. g[i] = Row(f, i)
      <4>1. CASE i = m
        BY <2>3, <2>4, <4>1
      <4>2. CASE i # m
        <5>1. i \in m + 1 .. n
          BY <4>2
        <5> HIDE DEF Row
        <5> QED
          BY <2>2, <2>5, <5>1
      <4> QED
        BY <4>1, <4>2
    <3>2. ASSUME NEW k \in Nat
          PROVE  PutFrom(format, av, f, i, k) = PutFrom(format, av, g, i, k)
      <4>1. i \in 1 .. Len(format) + 1
        BY <1>1
      <4>2. \A j \in i + 1 .. Len(format) + 1 : f[j] = g[j]
        BY <1>1, <2>5
      <4> QED
        BY <4>1, <4>2, PutFromSame
    <3> QED
      BY <3>1, <3>2
  <2>7. From(g, m)
    <3> HIDE DEF Row
    <3> QED
      BY <2>4, <2>6
  <2> HIDE DEF From
  <2> QED
    BY <1>2, <2>1, <2>7
<1>5. 0 .. n \subseteq T
  <2> HIDE DEF From
  <2> QED
    BY <1>3, <1>4, UpTo
<1>6. PICK f : From(f, 1)
  <2>1. n \in T /\ n + 1 - n = 1
    BY <1>5
  <2> HIDE DEF From
  <2> QED
    BY <1>2, <2>1
<1>7. Rows(f, format, av)
  BY <1>1, <1>6 DEF Rows
<1> QED
  BY <1>7

(* It is the one behind printf.                                             *)
LEMMA PrintfIs ==
    ASSUME NEW S, NEW format \in Seq(S), NEW av
    PROVE  \E h : Printing(h, format, av) /\ printf(format, av) = h[1][1]
<1> DEFINE F(f) == [i \in 1 .. Len(format) + 1 |-> [k \in Nat |-> PutFrom(format, av, f, i, k)]]
<1>1. printf(format, av) = (CHOOSE f : f = F(f))[1][1]
  BY DEF printf
<1>2. PICK h : h = CHOOSE f : f = F(f)
  OBVIOUS
<1>3. h = F(h)
  <2>1. PICK g : Rows(g, format, av)
    BY PrintingExists
  <2>2. g = F(g)
    BY <2>1 DEF Rows
  <2> HIDE DEF F
  <2> QED
    BY <1>2, <2>2
<1>4. Printing(h, format, av)
  <2>1. \A i \in 1 .. Len(format) + 1 : h[i] = [k \in Nat |-> PutFrom(format, av, h, i, k)]
    BY <1>3
  <2> QED
    BY <2>1 DEF Printing
<1> HIDE DEF F
<1> QED
  BY <1>1, <1>2, <1>4

-----------------------------------------------------------------------------
(* What a conversion c at j puts out, its % being the i-th.                 *)
Conversion(h, av, i, j, k, c) ==
    h[i][k] = IF c = "%" THEN <<"%">> \o h[j + 1][k]
              ELSE IF c \in {"x", "u", "d", "c", "s"}
              THEN Converted(c, j > i + 1, av[k]) \o h[j + 1][k + 1]
              ELSE h[j + 1][k]

(* At a % and any number of #, the conversion behind them is put out.       *)
LEMMA ConversionShown ==
    ASSUME NEW S, NEW format \in Seq(S), NEW av, NEW h, Printing(h, format, av),
           NEW i \in 1 .. Len(format), NEW k \in Nat, format[i] = "%",
           NEW j \in i + 1 .. Len(format), format[j] # "#",
           \A m \in i + 1 .. j - 1 : format[m] = "#"
    PROVE  Conversion(h, av, i, j, k, format[j])
<1>1. i \in 1 .. Len(format) + 1 /\ ~(i > Len(format)) /\ ~(j > Len(format))
  BY LenProperties
<1>2. h[i][k] = PutFrom(format, av, h, i, k)
  BY <1>1 DEF Printing
<1>3. Specifier(format, i) = j
  BY SpecifierIs
<1> QED
  BY <1>1, <1>2, <1>3 DEF PutFrom, Conversion

(* Behind the format nothing is put out.                                    *)
LEMMA EndShown ==
    ASSUME NEW S, NEW format \in Seq(S), NEW av, NEW h, Printing(h, format, av), NEW k \in Nat
    PROVE  h[Len(format) + 1][k] = <<>>
<1>1. Len(format) + 1 \in 1 .. Len(format) + 1 /\ Len(format) + 1 > Len(format)
  BY LenProperties
<1>2. h[Len(format) + 1][k] = PutFrom(format, av, h, Len(format) + 1, k)
  BY <1>1 DEF Printing
<1> QED
  BY <1>1, <1>2 DEF PutFrom

(* The text of itoa's result is the numeral.                                *)
LEMMA DigitsText ==
    ASSUME NEW v \in Nat, NEW radix \in Radices
    PROVE  Text(itoa(v, radix)) = Numeral(v, radix)
BY ItoaIs, NumeralWord, TextIs

(* A signed number: its sign, when its top bit is set, and its magnitude.   *)
LEMMA SignedIs ==
    ASSUME NEW v \in 0 .. Integers32 - 1
    PROVE  Signed(v) = IF v < Integers32 - v THEN Numeral(v, 10)
                       ELSE <<"-">> \o Numeral(Integers32 - v, 10)
<1>1. PICK M \in Nat : M = Integers32 /\ M % 2 = 0
  BY LibraryAssumption
<1>2. v \in Nat /\ v < M
  BY <1>1
<1>3. v >= M \div 2 <=> ~(v < M - v)
  BY <1>1, <1>2
<1>4. 10 \in Radices
  BY DEF Radices
<1>5. CASE v < M - v
  BY <1>1, <1>2, <1>3, <1>4, <1>5, DigitsText DEF Signed, Negative
<1>6. CASE ~(v < M - v)
  <2>1. PICK u \in Nat : u = M - v /\ u < M
    BY <1>2, <1>6
  <2>2. (M - v) % M = u
    BY <2>1
  <2>3. Text(itoa(u, 10)) = Numeral(u, 10)
    BY <1>4, DigitsText
  <2> QED
    BY <1>1, <1>3, <1>6, <2>1, <2>2, <2>3 DEF Signed, Negative
<1> QED
  BY <1>1, <1>5, <1>6

(* A number padded with zeros to eight digits.                              *)
LEMMA PaddedIs ==
    ASSUME NEW v \in Nat
    PROVE  Padded(v) = [i \in 1 .. HEX_DIGITS - Len(Numeral(v, 16)) |-> "0"] \o Numeral(v, 16)
<1>1. 16 \in Radices
  BY DEF Radices
<1> QED
  BY <1>1, DigitsText DEF Padded

-----------------------------------------------------------------------------
(* The characters printf puts out.                                          *)
Printable == STRING \cup {"%", "#", "x", "u", "d", "c", "s", "-", "0"}
Arguments == Letters \cup {InMemory(w) : w \in Words} \cup Printed

(* A conversion of two characters.                                          *)
LEMMA TwoShown ==
    ASSUME NEW S, NEW format \in Seq(S), NEW av, NEW h, Printing(h, format, av),
           NEW p \in Nat \ {0}, NEW k \in Nat, p + 2 <= Len(format) + 1, format[p] = "%",
           NEW c, c = format[p + 1], c # "#"
    PROVE  Conversion(h, av, p, p + 1, k, c)
<1>1. p \in 1 .. Len(format) /\ p + 1 \in p + 1 .. Len(format)
  BY LenProperties
<1>2. PICK j \in p + 1 .. Len(format) : j = p + 1
  BY <1>1
<1>3. format[j] # "#" /\ format[j] = c /\ \A m \in p + 1 .. j - 1 : format[m] = "#"
  BY <1>2
<1>4. Conversion(h, av, p, j, k, format[j])
  BY <1>1, <1>3, ConversionShown
<1> QED
  BY <1>2, <1>3, <1>4

(* An item lies in the format from p on and its argument is the k-th.       *)
ItemAt(format, av, item, p, k) ==
    /\ p + Len(item.text) <= Len(format) + 1
    /\ \A m \in 1 .. Len(item.text) : format[p + m - 1] = item.text[m]
    /\ \A m \in 1 .. Len(item.args) : av[k + m - 1] = item.args[m]

(* r is what is printed behind the item.                                    *)
Follows(h, p, k, item, r) == r = h[p + Len(item.text)][k + Len(item.args)]

(* An item puts out what it shows, and then what follows it does.           *)
LEMMA ItemShown ==
    ASSUME NEW S, NEW format \in Seq(S), NEW av, NEW h, Printing(h, format, av),
           NEW p \in Nat \ {0}, NEW k \in Nat \ {0}, NEW item \in Items,
           ItemAt(format, av, item, p, k),
           NEW r \in Seq(Printable), Follows(h, p, k, item, r)
    PROVE  h[p][k] = item.shows \o r
<1>0. k \in Nat /\ p \in Nat
  OBVIOUS
<1>1. ASSUME NEW c \in Letters \ {"%"}, item = Part(<<c>>, <<>>, <<c>>)
      PROVE  h[p][k] = item.shows \o r
  <2>1. p \in 1 .. Len(format) /\ format[p] = c /\ r = h[p + 1][k]
    BY <1>1, LenProperties DEF Part, ItemAt, Follows
  <2>2. h[p][k] = <<c>> \o h[p + 1][k]
    <3>1. c = format[p] /\ c # "%" /\ p \in 1 .. Len(format) + 1 /\ ~(p > Len(format))
      BY <1>1, <2>1, LenProperties
    <3>2. h[p][k] = PutFrom(format, av, h, p, k)
      BY <1>0, <3>1 DEF Printing
    <3> QED
      BY <3>1, <3>2 DEF PutFrom
  <2> QED
    BY <1>1, <2>1, <2>2 DEF Part
<1>2. ASSUME NEW c, NEW as, NEW w, item = Part(<<"%", c>>, as, w), c # "#"
      PROVE  /\ c = "%" => h[p][k] = <<"%">> \o h[p + 2][k]
             /\ c \in {"x", "u", "d", "c", "s"} =>
                   h[p][k] = Converted(c, p + 1 > p + 1, av[k]) \o h[p + 2][k + 1]
             /\ c \notin {"%", "x", "u", "d", "c", "s"} => h[p][k] = h[p + 2][k]
  <2>1. p + 2 <= Len(format) + 1 /\ format[p] = "%" /\ c = format[p + 1]
    BY <1>2 DEF Part, ItemAt
  <2>2. Conversion(h, av, p, p + 1, k, c)
    BY <1>0, <1>2, <2>1, TwoShown
  <2>3. p + 1 + 1 = p + 2
    OBVIOUS
  <2> QED
    BY <2>2, <2>3 DEF Conversion
<1>3. ASSUME item = Part(<<"%", "%">>, <<>>, <<"%">>)
      PROVE  h[p][k] = item.shows \o r
  <2>1. r = h[p + 2][k]
    BY <1>3 DEF Part, Follows
  <2>2. h[p][k] = <<"%">> \o h[p + 2][k]
    BY <1>2, <1>3
  <2> QED
    BY <1>3, <2>1, <2>2 DEF Part
<1>4. ASSUME NEW c \in Letters \ {"%", "#", "x", "u", "d", "c", "s"}, item = Part(<<"%", c>>, <<>>, <<>>)
      PROVE  h[p][k] = item.shows \o r
  <2>1. r = h[p + 2][k]
    BY <1>4 DEF Part, Follows
  <2>2. h[p][k] = h[p + 2][k]
    BY <1>2, <1>4
  <2>3. <<>> \o r = r
    BY ConcatEmptySeq
  <2> QED
    BY <1>4, <2>1, <2>2, <2>3 DEF Part
<1>5. ASSUME NEW c \in {"x", "u", "d", "c", "s"}, NEW a, NEW w, item = Part(<<"%", c>>, <<a>>, w)
      PROVE  av[k] = a /\ h[p][k] = Converted(c, p + 1 > p + 1, a) \o r
  <2>1. r = h[p + 2][k + 1] /\ av[k] = a
    BY <1>5 DEF Part, ItemAt, Follows
  <2> QED
    BY <1>2, <1>5, <2>1
<1>6. ASSUME NEW c \in Letters, item = Part(<<"%", "c">>, <<c>>, <<c>>)
      PROVE  h[p][k] = item.shows \o r
  <2>1. h[p][k] = Converted("c", p + 1 > p + 1, c) \o r
    BY <1>5, <1>6
  <2>2. Converted("c", p + 1 > p + 1, c) = <<c>>
    BY DEF Converted
  <2> QED
    BY <1>6, <2>1, <2>2 DEF Part
<1>7. ASSUME NEW w \in Words, item = Part(<<"%", "s">>, <<InMemory(w)>>, w)
      PROVE  h[p][k] = item.shows \o r
  <2>1. PICK m : m = InMemory(w)
    OBVIOUS
  <2>2. h[p][k] = Converted("s", p + 1 > p + 1, m) \o r
    BY <1>5, <1>7, <2>1
  <2>3. Converted("s", p + 1 > p + 1, m) = Text(m)
    BY DEF Converted
  <2>4. Text(m) = w
    BY <2>1, WordHolds, HeldText
  <2> QED
    BY <1>7, <2>2, <2>3, <2>4 DEF Part
<1>8. Printed \subseteq Nat /\ Printed \subseteq 0 .. Integers32 - 1
  BY LibraryAssumption
<1>9. ASSUME NEW v \in Printed, item = Part(<<"%", "x">>, <<v>>, Numeral(v, 16))
      PROVE  h[p][k] = item.shows \o r
  <2>1. h[p][k] = Converted("x", p + 1 > p + 1, v) \o r
    BY <1>5, <1>9
  <2>2. Converted("x", p + 1 > p + 1, v) = Text(itoa(v, 16))
    BY DEF Converted
  <2>3. Text(itoa(v, 16)) = Numeral(v, 16)
    BY <1>8, DigitsText DEF Radices
  <2> QED
    BY <1>9, <2>1, <2>2, <2>3 DEF Part
<1>10. ASSUME NEW v \in Printed, item = Part(<<"%", "u">>, <<v>>, Numeral(v, 10))
      PROVE  h[p][k] = item.shows \o r
  <2>1. h[p][k] = Converted("u", p + 1 > p + 1, v) \o r
    BY <1>5, <1>10
  <2>2. Converted("u", p + 1 > p + 1, v) = Text(itoa(v, 10))
    BY DEF Converted
  <2>3. Text(itoa(v, 10)) = Numeral(v, 10)
    BY <1>8, DigitsText DEF Radices
  <2> QED
    BY <1>10, <2>1, <2>2, <2>3 DEF Part
<1>11. ASSUME NEW v \in Printed,
              item = Part(<<"%", "d">>, <<v>>,
                          IF v < Integers32 - v THEN Numeral(v, 10)
                          ELSE <<"-">> \o Numeral(Integers32 - v, 10))
      PROVE  h[p][k] = item.shows \o r
  <2>1. h[p][k] = Converted("d", p + 1 > p + 1, v) \o r
    BY <1>5, <1>11
  <2>2. Converted("d", p + 1 > p + 1, v) = Signed(v)
    BY DEF Converted
  <2>3. Signed(v) = item.shows
    BY <1>8, <1>11, SignedIs DEF Part
  <2> QED
    BY <2>1, <2>2, <2>3
<1>12. ASSUME NEW v \in Printed,
              item = Part(<<"%", "#", "x">>, <<v>>,
                    [i \in 1 .. HEX_DIGITS - Len(Numeral(v, 16)) |-> "0"] \o Numeral(v, 16))
      PROVE  h[p][k] = item.shows \o r
  <2>1. /\ p + 3 <= Len(format) + 1 /\ format[p] = "%" /\ format[p + 1] = "#" /\ format[p + 2] = "x"
        /\ av[k] = v /\ r = h[p + 3][k + 1]
    BY <1>12 DEF Part, ItemAt, Follows
  <2>2. p \in 1 .. Len(format) /\ p + 2 \in p + 1 .. Len(format)
    BY <2>1, LenProperties
  <2>3. PICK j \in p + 1 .. Len(format) : j = p + 2
    BY <2>2
  <2>4. format[j] = "x" /\ j > p + 1 /\ j + 1 = p + 3 /\ \A m \in p + 1 .. j - 1 : format[m] = "#"
    BY <2>1, <2>3
  <2>5. Conversion(h, av, p, j, k, format[j])
    <3>1. format[j] # "#" /\ format[p] = "%" /\ p \in 1 .. Len(format)
      BY <2>1, <2>2, <2>4
    <3>2. \A m \in p + 1 .. j - 1 : format[m] = "#"
      BY <2>4
    <3> QED
      BY <1>0, <3>1, <3>2, ConversionShown
  <2>6. h[p][k] = Converted("x", j > p + 1, v) \o r
    BY <2>1, <2>4, <2>5 DEF Conversion
  <2>7. Converted("x", j > p + 1, v) = Padded(v)
    BY <2>4 DEF Converted
  <2>8. Padded(v) = item.shows
    BY <1>8, <1>12, PaddedIs DEF Part
  <2> QED
    BY <2>6, <2>7, <2>8
<1> QED
  BY <1>1, <1>3, <1>4, <1>6, <1>7, <1>9, <1>10, <1>11, <1>12 DEF Items

(* Whatever printf is given, it can put out.                                *)
LEMMA LettersPrintable == Letters \subseteq Printable /\ Chars \subseteq Printable
<1>1. Letters \subseteq STRING
  BY LibCAssumption DEF Letters
<1> QED
  BY <1>1 DEF Printable, Chars

(* A numeral can be put out.                                                *)
LEMMA NumeralPrintable ==
    ASSUME NEW v \in Nat, NEW radix \in Radices
    PROVE  Numeral(v, radix) \in Seq(Printable) /\ Len(Numeral(v, radix)) \in Nat
<1>1. PICK n \in Seq(Chars) : n = Numeral(v, radix)
  BY NumeralWord
<1>2. n \in Seq(Printable)
  BY LettersPrintable, SeqMonotonic
<1> QED
  BY <1>1, <1>2, LenProperties

(* The parts of an item are sequences.                                      *)
LEMMA ItemIs ==
    ASSUME NEW item \in Items
    PROVE  item.text \in Seq(Printable) /\ item.args \in Seq(Arguments) /\ item.shows \in Seq(Printable)
<1> DEFINE Fine == item.text \in Seq(Printable) /\ item.args \in Seq(Arguments)
                   /\ item.shows \in Seq(Printable)
<1>0. /\ {"%", "#", "x", "u", "d", "c", "s", "-", "0"} \subseteq Printable
      /\ Letters \subseteq Printable /\ Letters \subseteq Arguments
      /\ Printed \subseteq Arguments /\ \A w \in Words : InMemory(w) \in Arguments
  BY LettersPrintable DEF Printable, Arguments
<1>1. 10 \in Radices /\ 16 \in Radices /\ Printed \subseteq Nat /\ Printed \subseteq 0 .. Integers32 - 1
      /\ Integers32 \in Nat
  BY LibraryAssumption DEF Radices
<1>2. ASSUME NEW c \in Letters \ {"%"}, item = Part(<<c>>, <<>>, <<c>>)
      PROVE  Fine
  BY <1>0, <1>2 DEF Part
<1>3. ASSUME item = Part(<<"%", "%">>, <<>>, <<"%">>)
      PROVE  Fine
  BY <1>0, <1>3 DEF Part
<1>4. ASSUME NEW c \in Letters, item = Part(<<"%", c>>, <<>>, <<>>)
      PROVE  Fine
  BY <1>0, <1>4 DEF Part
<1>5. ASSUME NEW c \in Letters, item = Part(<<"%", "c">>, <<c>>, <<c>>)
      PROVE  Fine
  BY <1>0, <1>5 DEF Part
<1>6. ASSUME NEW w \in Words, item = Part(<<"%", "s">>, <<InMemory(w)>>, w)
      PROVE  Fine
  <2>1. PICK m \in Arguments : m = InMemory(w)
    BY <1>0
  <2>2. w \in Seq(Letters)
    BY WordHolds
  <2>3. w \in Seq(Printable)
    BY <1>0, <2>2, SeqMonotonic
  <2> QED
    BY <1>0, <1>6, <2>1, <2>3 DEF Part
<1>7. ASSUME NEW v \in Printed, NEW c \in {"x", "u"}, NEW radix \in Radices,
             item = Part(<<"%", c>>, <<v>>, Numeral(v, radix))
      PROVE  Fine
  <2>1. PICK n \in Seq(Printable) : n = Numeral(v, radix)
    BY <1>1, NumeralPrintable
  <2> QED
    BY <1>0, <1>7, <2>1 DEF Part
<1>8. ASSUME NEW v \in Printed,
              item = Part(<<"%", "d">>, <<v>>,
                          IF v < Integers32 - v THEN Numeral(v, 10)
                          ELSE <<"-">> \o Numeral(Integers32 - v, 10))
      PROVE  Fine
  <2>1. PICK u \in Nat : u = Integers32 - v
    BY <1>1
  <2>2. PICK n \in Seq(Printable) : n = Numeral(v, 10)
    BY <1>1, NumeralPrintable
  <2>3. PICK m \in Seq(Printable) : m = Numeral(u, 10)
    BY <1>1, NumeralPrintable
  <2>4. PICK o \in Seq(Printable) : o = <<"-">>
    <3>1. PICK x \in Printable : x = "-"
      BY <1>0, Zenon
    <3>2. <<x>> \in Seq(Printable)
      OBVIOUS
    <3> QED
      BY <3>1, <3>2, Zenon
  <2>5. PICK q \in Seq(Printable) : q = o \o m
    BY ConcatProperties
  <2>6. item.shows = IF v < u THEN n ELSE q
    BY <1>8, <2>1, <2>2, <2>3, <2>4, <2>5 DEF Part
  <2>10. item.text = <<"%", "d">> /\ item.args = <<v>>
    BY <1>8 DEF Part
  <2>11. PICK a \in Arguments : a = v
    BY <1>0
  <2>12. <<a>> \in Seq(Arguments)
    OBVIOUS
  <2>13. <<"%", "d">> \in Seq(Printable)
    <3>1. PICK x \in Printable, y \in Printable : x = "%" /\ y = "d"
      BY <1>0, Zenon
    <3>2. <<x, y>> \in Seq(Printable)
      OBVIOUS
    <3> QED
      BY <3>1, <3>2, Zenon
  <2>14. item.shows \in Seq(Printable)
    BY <2>6
  <2> QED
    BY <2>10, <2>11, <2>12, <2>13, <2>14, Zenon
<1>9. ASSUME NEW v \in Printed,
              item = Part(<<"%", "#", "x">>, <<v>>,
                    [i \in 1 .. HEX_DIGITS - Len(Numeral(v, 16)) |-> "0"] \o Numeral(v, 16))
      PROVE  Fine
  <2>1. PICK n \in Seq(Printable) : n = Numeral(v, 16) /\ Len(n) \in Nat
    BY <1>1, NumeralPrintable
  <2>2. PICK d \in Int : d = HEX_DIGITS - Len(n)
    BY <2>1, LibCAssumption
  <2>3. PICK e \in Nat : 1 .. e = 1 .. d
    <3>1. CASE d >= 0
      BY <3>1
    <3>2. CASE d < 0
      <4>1. 1 .. 0 = {} /\ 1 .. d = {}
        BY <3>2
      <4> QED
        BY <4>1
    <3> QED
      BY <3>1, <3>2
  <2>4. PICK z : z = [i \in 1 .. d |-> "0"]
    OBVIOUS
  <2>5. z \in [1 .. e -> Printable]
    <3>1. PICK x \in Printable : x = "0"
      BY <1>0
    <3>2. z = [i \in 1 .. e |-> x]
      BY <2>3, <2>4, <3>1, Zenon
    <3> QED
      BY <3>2, Zenon
  <2>6. z \in Seq(Printable)
    BY <2>5, FunctionSeq
  <2>7. PICK q \in Seq(Printable) : q = z \o n
    BY <2>6, ConcatProperties
  <2>8. item.shows = q
    BY <1>9, <2>1, <2>2, <2>4, <2>7 DEF Part
  <2>10. item.text = <<"%", "#", "x">> /\ item.args = <<v>>
    BY <1>9 DEF Part
  <2>11. PICK a \in Arguments : a = v
    BY <1>0
  <2>12. <<a>> \in Seq(Arguments)
    OBVIOUS
  <2>13. <<"%", "#", "x">> \in Seq(Printable)
    <3>1. PICK x \in Printable, y \in Printable, z1 \in Printable : x = "%" /\ y = "#" /\ z1 = "x"
      BY <1>0, Zenon
    <3>2. <<x, y, z1>> \in Seq(Printable)
      OBVIOUS
    <3> QED
      BY <3>1, <3>2, Zenon
  <2>14. item.shows \in Seq(Printable)
    BY <2>8
  <2> QED
    BY <2>10, <2>11, <2>12, <2>13, <2>14, Zenon
<1>10. Fine
  <2> HIDE DEF Fine
  <2>1. ASSUME NEW v \in Printed, item = Part(<<"%", "x">>, <<v>>, Numeral(v, 16))
        PROVE  Fine
    BY <1>1, <1>7, <2>1
  <2>2. ASSUME NEW v \in Printed, item = Part(<<"%", "u">>, <<v>>, Numeral(v, 10))
        PROVE  Fine
    BY <1>1, <1>7, <2>2
  <2> QED
    BY <1>2, <1>3, <1>4, <1>5, <1>6, <1>8, <1>9, <2>1, <2>2 DEF Items
<1> QED
  BY <1>10

(* Two items put out what they show, one behind the other.                  *)
LEMMA TwoItems ==
    ASSUME NEW i \in Items, NEW j \in Items
    PROVE  printf(i.text \o j.text, i.args \o j.args) = i.shows \o j.shows
<1>1. PICK t1 \in Seq(Printable), t2 \in Seq(Printable) : t1 = i.text /\ t2 = j.text
  BY ItemIs
<1>2. PICK a1 \in Seq(Arguments), a2 \in Seq(Arguments) : a1 = i.args /\ a2 = j.args
  BY ItemIs
<1>3. PICK format, av : format = t1 \o t2 /\ av = a1 \o a2
  OBVIOUS
<1>4. PICK m1 \in Nat, m2 \in Nat, n1 \in Nat, n2 \in Nat :
          m1 = Len(t1) /\ m2 = Len(t2) /\ n1 = Len(a1) /\ n2 = Len(a2)
  BY LenProperties
<1>5. /\ format \in Seq(Printable) /\ Len(format) = m1 + m2
      /\ \A m \in 1 .. m1 + m2 : format[m] = IF m <= m1 THEN t1[m] ELSE t2[m - m1]
  BY <1>3, <1>4, ConcatProperties
<1>6. \A m \in 1 .. n1 + n2 : av[m] = IF m <= n1 THEN a1[m] ELSE a2[m - n1]
  BY <1>3, <1>4, ConcatProperties
<1>7. PICK h : Printing(h, format, av) /\ printf(format, av) = h[1][1]
  BY <1>5, PrintfIs
<1>8. ItemAt(format, av, j, 1 + m1, 1 + n1)
  <2>1. 1 + m1 + m2 <= Len(format) + 1
    BY <1>5
  <2>2. ASSUME NEW m \in 1 .. m2
        PROVE  format[1 + m1 + m - 1] = t2[m]
    <3>1. m1 + m \in 1 .. m1 + m2 /\ ~(m1 + m <= m1) /\ m1 + m - m1 = m /\ 1 + m1 + m - 1 = m1 + m
      OBVIOUS
    <3>2. format[m1 + m] = t2[m1 + m - m1]
      BY <1>5, <3>1
    <3> QED
      BY <3>1, <3>2
  <2>3. ASSUME NEW m \in 1 .. n2
        PROVE  av[1 + n1 + m - 1] = a2[m]
    <3>1. n1 + m \in 1 .. n1 + n2 /\ ~(n1 + m <= n1) /\ n1 + m - n1 = m /\ 1 + n1 + m - 1 = n1 + m
      OBVIOUS
    <3>2. av[n1 + m] = a2[n1 + m - n1]
      BY <1>6, <3>1
    <3> QED
      BY <3>1, <3>2
  <2> QED
    BY <1>1, <1>2, <1>4, <2>1, <2>2, <2>3 DEF ItemAt
<1>9. ItemAt(format, av, i, 1, 1)
  <2>1. 1 + m1 <= Len(format) + 1
    BY <1>5
  <2>2. ASSUME NEW m \in 1 .. m1
        PROVE  format[1 + m - 1] = t1[m]
    <3>1. m \in 1 .. m1 + m2 /\ m <= m1 /\ 1 + m - 1 = m
      OBVIOUS
    <3> QED
      BY <1>5, <3>1
  <2>3. ASSUME NEW m \in 1 .. n1
        PROVE  av[1 + m - 1] = a1[m]
    <3>1. m \in 1 .. n1 + n2 /\ m <= n1 /\ 1 + m - 1 = m
      OBVIOUS
    <3> QED
      BY <1>6, <3>1
  <2> QED
    BY <1>1, <1>2, <1>4, <2>1, <2>2, <2>3 DEF ItemAt
<1>10. PICK e \in Seq(Printable) : e = <<>>
  BY EmptySeq
<1>11. PICK p \in Nat \ {0}, k \in Nat \ {0} : p = 1 + m1 /\ k = 1 + n1
  OBVIOUS
<1>12. h[p + m2][k + n2] = e
  <2>1. PICK q \in Nat : q = k + n2
    OBVIOUS
  <2>2. h[Len(format) + 1][q] = <<>>
    BY <1>5, <1>7, EndShown
  <2>3. Len(format) + 1 = p + m2
    BY <1>5, <1>11
  <2> QED
    BY <1>10, <2>1, <2>2, <2>3
<1>13. h[p][k] = j.shows \o e
  <2>1. Follows(h, p, k, j, e)
    BY <1>1, <1>2, <1>4, <1>12 DEF Follows
  <2>2. ItemAt(format, av, j, p, k)
    BY <1>8, <1>11
  <2> QED
    BY <1>5, <1>7, <2>1, <2>2, ItemShown
<1>14. PICK s \in Seq(Printable) : s = j.shows
  BY ItemIs
<1>15. h[p][k] = s
  BY <1>10, <1>13, <1>14, ConcatEmptySeq
<1>16. h[1][1] = i.shows \o s
  <2>1. PICK one \in Nat \ {0} : one = 1
    OBVIOUS
  <2>2. Follows(h, one, one, i, s)
    BY <1>1, <1>2, <1>4, <1>11, <1>15, <2>1 DEF Follows
  <2>4. ItemAt(format, av, i, one, one)
    BY <1>9, <2>1
  <2>3. h[one][one] = i.shows \o s
    BY <1>5, <1>7, <2>2, <2>4, ItemShown
  <2> QED
    BY <2>1, <2>3
<1> QED
  BY <1>1, <1>2, <1>3, <1>7, <1>14, <1>16

(* printf is right.                                                         *)
LEMMA FormatStep ==
    ASSUME Format
    PROVE  NumbersRight' /\ call'.fn = "printf"
<1>1. PICK i \in Items, j \in Items :
          call' = [fn |-> "printf", items |-> <<i, j>>,
                   result |-> printf(i.text \o j.text, i.args \o j.args)]
  BY DEF Format, Returns
<1>2. PICK x : x = i.shows \o j.shows
  OBVIOUS
<1>3. call' = [fn |-> "printf", items |-> <<i, j>>, result |-> x]
  BY <1>1, <1>2, TwoItems
<1> QED
  BY <1>2, <1>3 DEF NumbersRight

-----------------------------------------------------------------------------
(***************************************************************************)
(* grep.  U[i] are the lines to print that begin up to the i-th character of *)
(* the file.  The inner loop goes from edge to edge of the lines in the    *)
(* buffer (PieceRight), the outer one keeps, besides what is printed so far, *)
(* the beginning of the line that is not all there (Kept).                 *)
(***************************************************************************)
(* The lines of a file that hold a pattern: U[i] are those that begin up to *)
(* the i-th character.                                                      *)
HoldsAt(file, pat, i) == i \in Starts(file) /\ LineHolds(LineAt(file, i), pat)

Matched(U, file, pat, n) ==
    U = [i \in 0 .. n |-> IF i = 0 THEN <<>>
                          ELSE IF HoldsAt(file, pat, i) THEN Append(U[i - 1], LineAt(file, i))
                          ELSE U[i - 1]]

(* The recursion over the lines defines a function.                         *)
LEMMA MatchedExists ==
    ASSUME NEW file, NEW pat, NEW n \in Nat
    PROVE  \E U : Matched(U, file, pat, n)
<1> DEFINE E(i) == \E U : Matched(U, file, pat, i)
           Next1(U, i) == IF i = 0 THEN <<>>
                          ELSE IF HoldsAt(file, pat, i) THEN Append(U[i - 1], LineAt(file, i))
                          ELSE U[i - 1]
<1>1. PICK T : T = {i \in 0 .. n : E(i)}
  OBVIOUS
<1>2. 0 \in T
  <2>1. PICK U : U = [i \in 0 .. 0 |-> <<>>]
    OBVIOUS
  <2>2. Matched(U, file, pat, 0)
    BY <2>1 DEF Matched
  <2> QED
    BY <1>1, <2>2
<1>3. ASSUME NEW i \in 1 .. n, i - 1 \in T
      PROVE  i \in T
  <2>1. PICK U : Matched(U, file, pat, i - 1)
    BY <1>1, <1>3
  <2>2. PICK x : x = Next1(U, i)
    OBVIOUS
  <2>3. PICK V : V = [m \in 0 .. i |-> IF m = i THEN x ELSE U[m]]
    OBVIOUS
  <2>4. ASSUME NEW m \in 0 .. i
        PROVE  V[m] = Next1(V, m)
    <3>1. m # 0 => V[m - 1] = U[m - 1]
      BY <2>3
    <3>2. CASE m = i
      BY <2>2, <2>3, <3>1, <3>2
    <3>3. CASE m # i
      <4>1. m \in 0 .. i - 1
        BY <3>3
      <4>2. U[m] = Next1(U, m)
        BY <2>1, <4>1 DEF Matched
      <4> QED
        BY <2>3, <3>1, <3>3, <4>2
    <3> QED
      BY <3>2, <3>3
  <2>5. V = [m \in 0 .. i |-> Next1(V, m)]
    <3> HIDE DEF Next1
    <3> QED
      BY <2>3, <2>4
  <2>6. Matched(V, file, pat, i)
    BY <2>5 DEF Matched
  <2> QED
    BY <1>1, <2>6
<1>4. 0 .. n \subseteq T
  <2> HIDE DEF E
  <2> QED
    BY <1>2, <1>3, UpTo
<1>5. n \in T
  BY <1>4
<1> QED
  BY <1>1, <1>5

(* It is the one behind MatchingLines.                                      *)
LEMMA MatchingIs ==
    ASSUME NEW file \in Seq(Letters), NEW pat
    PROVE  \E U : Matched(U, file, pat, Len(file)) /\ MatchingLines(file, pat) = U[Len(file)]
<1>0. PICK n \in Nat : n = Len(file)
  BY LenProperties
<1> DEFINE F(U) == [i \in 0 .. n |-> IF i = 0 THEN <<>>
                      ELSE IF HoldsAt(file, pat, i) THEN Append(U[i - 1], LineAt(file, i))
                      ELSE U[i - 1]]
<1>1. MatchingLines(file, pat) = (CHOOSE f : f = F(f))[n]
  BY <1>0 DEF MatchingLines, HoldsAt
<1>2. PICK h : h = CHOOSE f : f = F(f)
  OBVIOUS
<1>3. \A f : f = F(f) <=> Matched(f, file, pat, n)
  BY DEF Matched
<1>4. h = F(h)
  <2>1. PICK g : Matched(g, file, pat, n)
    BY MatchedExists
  <2>2. g = F(g)
    BY <1>3, <2>1
  <2> HIDE DEF F
  <2> QED
    BY <1>2, <2>2
<1>5. Matched(h, file, pat, n)
  BY <1>3, <1>4
<1> HIDE DEF F
<1> QED
  BY <1>0, <1>1, <1>2, <1>5

(* A piece of the file that ends at a newline or at the end of the file.    *)
WholeTo(file, p, q) ==
    /\ p \in 0 .. q /\ q \in 0 .. Len(file)
    /\ \A i \in p + 1 .. q : file[i] # NL
    /\ q = Len(file) \/ file[q + 1] = NL

(* A line that begins at i ends somewhere.                                  *)
LEMMA LineEndsAt ==
    ASSUME NEW file \in Seq(Letters), NEW i \in 1 .. Len(file)
    PROVE  \E q \in i - 1 .. Len(file) : WholeTo(file, i - 1, q) /\ LineAt(file, i) = SubSeq(file, i, q)
<1>1. PICK l \in Nat : l = Len(file)
  BY LenProperties
<1>2. PICK P : P = {j \in i .. l + 1 : j > l \/ file[j] = NL}
  OBVIOUS
<1>3. P \in SUBSET Nat /\ l + 1 \in P
  BY <1>1, <1>2
<1>4. PICK m : m = Min(P)
  OBVIOUS
<1>5. m \in P /\ \A y \in P : m <= y
  BY <1>3, <1>4, MinIs
<1>6. PICK q \in i - 1 .. l : q = m - 1
  BY <1>1, <1>2, <1>5
<1>7. LineAt(file, i) = SubSeq(file, i, q)
  BY <1>1, <1>2, <1>4, <1>6 DEF LineAt
<1>8. \A j \in i .. q : file[j] # NL
  <2>1. \A j \in i .. q : j \in i .. l + 1 /\ j \notin P
    BY <1>1, <1>2, <1>5, <1>6
  <2> QED
    BY <1>2, <2>1
<1>9. q = l \/ file[q + 1] = NL
  BY <1>1, <1>2, <1>5, <1>6
<1>10. WholeTo(file, i - 1, q)
  <2>1. i - 1 + 1 = i /\ i - 1 \in 0 .. q /\ q \in 0 .. l
    BY <1>6
  <2> QED
    BY <1>1, <1>8, <1>9, <2>1 DEF WholeTo
<1> QED
  BY <1>1, <1>6, <1>7, <1>10

(* It is the piece that ends where the line does.                           *)
LEMMA WholeIs ==
    ASSUME NEW file \in Seq(Letters), NEW p, NEW q, WholeTo(file, p, q), p < Len(file)
    PROVE  LineAt(file, p + 1) = SubSeq(file, p + 1, q)
<1>1. PICK l \in Nat : l = Len(file)
  BY LenProperties
<1>2. p \in 0 .. q /\ q \in 0 .. l /\ p < l
  BY <1>1 DEF WholeTo
<1>3. PICK i \in 1 .. l : i = p + 1
  BY <1>2
<1>4. PICK r \in i - 1 .. l : WholeTo(file, i - 1, r) /\ LineAt(file, i) = SubSeq(file, i, r)
  BY <1>1, LineEndsAt
<1>5. r = q
  <2>1. /\ \A j \in p + 1 .. q : file[j] # NL
        /\ q = l \/ file[q + 1] = NL
    BY <1>1 DEF WholeTo
  <2>2. /\ \A j \in p + 1 .. r : file[j] # NL
        /\ r = l \/ file[r + 1] = NL
        /\ r \in p .. l
    <3>1. i - 1 + 1 = p + 1 /\ i - 1 = p
      BY <1>2, <1>3
    <3> QED
      BY <1>1, <1>4, <3>1 DEF WholeTo
  <2>3. ~(r < q)
    <3>1. r < q => r + 1 \in p + 1 .. q /\ r # l
      BY <1>2, <2>2
    <3> QED
      BY <2>1, <2>2, <3>1
  <2>4. ~(q < r)
    <3>1. q < r => q + 1 \in p + 1 .. r /\ q # l
      BY <1>2, <2>2
    <3> QED
      BY <2>1, <2>2, <3>1
  <2> QED
    BY <1>2, <2>2, <2>3, <2>4
<1> QED
  BY <1>3, <1>4, <1>5

(* What matches up to i, step by step.                                      *)
LEMMA MatchedAre ==
    ASSUME NEW file \in Seq(Letters), NEW pat, NEW U, Matched(U, file, pat, Len(file))
    PROVE  /\ U[0] = <<>>
           /\ \A i \in 1 .. Len(file) : U[i] = IF HoldsAt(file, pat, i)
                                              THEN Append(U[i - 1], LineAt(file, i)) ELSE U[i - 1]
           /\ \A i \in 0 .. Len(file) : U[i] \in Seq(Seq(Letters))
<1>1. PICK l \in Nat : l = Len(file)
  BY LenProperties
<1>2. U[0] = <<>>
  BY <1>1 DEF Matched
<1>3. \A i \in 1 .. l : U[i] = IF HoldsAt(file, pat, i)
                               THEN Append(U[i - 1], LineAt(file, i)) ELSE U[i - 1]
  <2>1. \A i \in 1 .. l : i \in 0 .. l /\ i # 0
    OBVIOUS
  <2> QED
    BY <1>1, <2>1 DEF Matched
<1>4. \A i \in 1 .. l : LineAt(file, i) \in Seq(Letters)
  <2> SUFFICES ASSUME NEW i \in 1 .. l
               PROVE  LineAt(file, i) \in Seq(Letters)
    OBVIOUS
  <2>1. PICK q \in i - 1 .. l : LineAt(file, i) = SubSeq(file, i, q)
    BY <1>1, LineEndsAt
  <2>2. \A j \in i .. q : file[j] \in Letters
    <3>1. \A j \in i .. q : j \in 1 .. Len(file)
      BY <1>1
    <3> QED
      BY <3>1, ElementOfSeq
  <2>3. SubSeq(file, i, q) \in Seq(Letters)
    BY <2>2, SubSeqProperties
  <2> QED
    BY <2>1, <2>3
<1>5. PICK T : T = {i \in 0 .. l : U[i] \in Seq(Seq(Letters))}
  OBVIOUS
<1>6. 0 \in T
  <2>1. PICK S : S = Seq(Letters)
    OBVIOUS
  <2>2. <<>> \in Seq(S)
    BY EmptySeq
  <2>3. U[0] \in Seq(Seq(Letters))
    BY <1>2, <2>1, <2>2, Zenon
  <2>4. 0 \in 0 .. l
    OBVIOUS
  <2> QED
    BY <1>5, <2>3, <2>4
<1>7. ASSUME NEW i \in 1 .. l, i - 1 \in T
      PROVE  i \in T
  <2>1. PICK a \in Seq(Seq(Letters)) : a = U[i - 1]
    BY <1>5, <1>7
  <2>2. PICK e \in Seq(Letters) : e = LineAt(file, i)
    BY <1>4
  <2>3. Append(a, e) \in Seq(Seq(Letters))
    BY AppendProperties
  <2>4. U[i] \in Seq(Seq(Letters))
    BY <1>3, <2>1, <2>2, <2>3
  <2> QED
    BY <1>5, <2>4
<1>8. 0 .. l \subseteq T
  BY <1>6, <1>7, UpTo
<1> QED
  BY <1>1, <1>2, <1>3, <1>5, <1>8

-----------------------------------------------------------------------------
(* What is printed of a line.                                               *)
IfHolds(line, pat) == IF LineHolds(line, pat) THEN <<line>> ELSE <<>>

(* A place where a line begins, or one is over.                             *)
Edge(file, p) == p = 0 \/ p = Len(file) \/ file[p] = NL \/ file[p + 1] = NL

(* An empty line holds no pattern.                                          *)
LEMMA NothingHolds ==
    ASSUME NEW pat
    PROVE  ~LineHolds(<<>>, pat)
BY DEF LineHolds

(* What the line from p to q adds to what is printed up to p; the newline   *)
(* behind it adds nothing.                                                  *)
Prints(file, U, pat, p, q) ==
    /\ U[q] = U[p] \o IfHolds(SubSeq(file, p + 1, q), pat)
    /\ q < Len(file) => U[q + 1] = U[q]

(* From an edge to the end of a line, that line is printed or is not.       *)
LEMMA LinePassed ==
    ASSUME NEW file \in Seq(Letters), NEW pat, NEW U, Matched(U, file, pat, Len(file)),
           NEW p \in Nat, NEW q \in Nat, WholeTo(file, p, q), Edge(file, p)
    PROVE  Prints(file, U, pat, p, q)
<1>1. PICK l \in Nat : l = Len(file)
  BY LenProperties
<1>2. /\ p <= q /\ q <= l /\ (\A i \in p + 1 .. q : file[i] # NL)
      /\ q = l \/ file[q + 1] = NL
  BY <1>1 DEF WholeTo
<1>3. /\ \A i \in 1 .. l : U[i] = IF HoldsAt(file, pat, i)
                               THEN Append(U[i - 1], LineAt(file, i)) ELSE U[i - 1]
      /\ \A i \in 0 .. l : U[i] \in Seq(Seq(Letters))
  BY <1>1, MatchedAre
<1>4. DOMAIN file = 1 .. l
  BY <1>1, LenProperties
<1>5. PICK a \in Seq(Seq(Letters)) : a = U[p]
  BY <1>2, <1>3
<1>6. a \o <<>> = a
  BY ConcatEmptySeq
<1>7. U[q] = U[p] \o IfHolds(SubSeq(file, p + 1, q), pat)
  <2>1. CASE p = q
    <3>1. SubSeq(file, p + 1, q) = <<>>
      BY <2>1, SubSeqEmpty
    <3>2. IfHolds(<<>>, pat) = <<>>
      BY NothingHolds DEF IfHolds
    <3> QED
      BY <1>5, <1>6, <2>1, <3>1, <3>2
  <2>2. CASE p < q
    <3>1. PICK line : line = SubSeq(file, p + 1, q)
      OBVIOUS
    <3>2. LineAt(file, p + 1) = line
      <4>1. LineAt(file, p + 1) = SubSeq(file, p + 1, q)
        <5>1. p < Len(file) /\ WholeTo(file, p, q)
          BY <1>1, <1>2, <2>2
        <5> QED
          BY <5>1, WholeIs, Zenon
      <4> QED
        BY <3>1, <4>1
    <3>3. PICK i \in 1 .. l : i = p + 1
      BY <1>2, <2>2
    <3>4. file[i] # NL /\ i \in DOMAIN file
      BY <1>2, <1>4, <2>2, <3>3
    <3>5. p = 0 \/ file[p] = NL
      BY <1>1, <1>2, <2>2, <3>3, <3>4 DEF Edge
    <3>6. i \in Starts(file)
      <4>1. i - 1 = p
        BY <3>3
      <4> QED
        BY <3>3, <3>4, <3>5, <4>1 DEF Starts
    <3>7. HoldsAt(file, pat, i) <=> LineHolds(line, pat)
      BY <3>2, <3>3, <3>6 DEF HoldsAt
    <3>8. U[i] = IF LineHolds(line, pat) THEN Append(a, line) ELSE a
      <4>1. i - 1 = p
        BY <3>3
      <4> QED
        BY <1>3, <1>5, <3>2, <3>3, <3>7, <4>1
    <3>9. U[i] = a \o IfHolds(line, pat)
      <4>1. line \in Seq(Letters)
        <5>1. \A j \in p + 1 .. q : file[j] \in Letters
          <6>1. \A j \in p + 1 .. q : j \in 1 .. Len(file)
            BY <1>1, <1>2
          <6> QED
            BY <6>1, ElementOfSeq
        <5> QED
          BY <1>2, <3>1, <5>1, SubSeqProperties
      <4>2. a \o <<line>> = Append(a, line)
        BY <4>1
      <4> QED
        BY <1>6, <3>8, <4>2 DEF IfHolds
    <3>10. PICK T : T = {d \in 0 .. q - i : U[i + d] = U[i]}
      OBVIOUS
    <3>11. q - i \in Nat /\ 0 \in T
      BY <1>2, <2>2, <3>3, <3>10
    <3>12. ASSUME NEW d \in 1 .. q - i, d - 1 \in T
           PROVE  d \in T
      <4>1. PICK j \in 2 .. l : j = i + d
        BY <1>2, <3>3
      <4>2. j - 1 \in p + 1 .. q /\ j - 1 = i + (d - 1) /\ j # 1
        BY <1>2, <3>3, <4>1
      <4>3. file[j - 1] # NL
        BY <1>2, <4>2
      <4>4. ~HoldsAt(file, pat, j)
        BY <4>2, <4>3 DEF HoldsAt, Starts
      <4>5. U[j] = U[j - 1]
        <5>1. j \in 1 .. l
          OBVIOUS
        <5> QED
          BY <1>3, <4>4, <5>1
      <4>6. U[j - 1] = U[i]
        BY <3>10, <3>12, <4>2
      <4> QED
        BY <3>10, <4>1, <4>5, <4>6
    <3>13. 0 .. q - i \subseteq T
      BY <3>11, <3>12, UpTo
    <3>14. U[q] = U[i]
      <4>1. q - i \in T /\ i + (q - i) = q
        BY <3>11, <3>13
      <4> QED
        BY <3>10, <4>1
    <3> QED
      BY <1>5, <3>1, <3>9, <3>14
  <2>3. p = q \/ p < q
    BY <1>2
  <2> QED
    BY <2>1, <2>2, <2>3, Zenon
<1>8. ASSUME q < l
      PROVE  U[q + 1] = U[q]
  <2>1. PICK i \in 1 .. l : i = q + 1 /\ i - 1 = q
    BY <1>8
  <2>2. file[i] = NL
    BY <1>2, <1>8, <2>1
  <2>3. WholeTo(file, q, q)
    BY <1>1, <1>2 DEF WholeTo
  <2>4. LineAt(file, i) = <<>>
    <3>1. LineAt(file, q + 1) = SubSeq(file, q + 1, q)
      BY <1>1, <1>8, <2>3, WholeIs
    <3>2. SubSeq(file, q + 1, q) = <<>>
      BY SubSeqEmpty
    <3> QED
      BY <2>1, <3>1, <3>2
  <2>5. ~HoldsAt(file, pat, i)
    BY <2>4, NothingHolds DEF HoldsAt
  <2> QED
    BY <1>3, <2>1, <2>5
<1> QED
  BY <1>1, <1>7, <1>8 DEF Prints

(* Where the line in the buffer ends: at a newline, or with the bytes read. *)
LEMMA LineEndIs ==
    ASSUME NEW data, NEW L \in Nat, NEW ls \in 0 .. L
    PROVE  /\ LineEnd(data, L, ls) \in ls .. L
           /\ LineEnd(data, L, ls) = L \/ data[LineEnd(data, L, ls) + 1] = NL
           /\ \A i \in ls + 1 .. LineEnd(data, L, ls) : data[i] # NL
<1>1. PICK P : P = {e \in ls .. L : e = L \/ data[e + 1] = NL}
  OBVIOUS
<1>2. P \in SUBSET Nat /\ L \in P
  BY <1>1
<1>3. PICK m : m = Min(P)
  OBVIOUS
<1>4. m \in P /\ \A y \in P : m <= y
  BY <1>2, <1>3, MinIs
<1>5. LineEnd(data, L, ls) = m
  BY <1>1, <1>3 DEF LineEnd
<1>6. ASSUME NEW i \in ls + 1 .. m
      PROVE  data[i] # NL
  <2>1. PICK e \in ls .. L : e = i - 1
    BY <1>1, <1>4
  <2>2. e \notin P /\ e # L /\ e + 1 = i
    BY <1>1, <1>4, <2>1
  <2> QED
    BY <1>1, <2>2
<1> QED
  BY <1>1, <1>4, <1>5, <1>6

(* The inner loop's body, given what the rest of it does.                   *)
Piece(s, data, last, cnt, rest, line_start) ==
    LET line_end == LineEnd(data, last, line_start)
        ended    == Ended(data, line_end)
        line     == Text(SubSeq(ended, line_start + 1, Len(data)))
        printed  == IF Found(s, ended, line_start, line_end) THEN <<line>> ELSE <<>>
    IN  IF data[line_end + 1] # NL /\ cnt # 0 /\ line_start # 0
        THEN [data |-> Moved(ended, line_start), last |-> last - line_start, out |-> <<>>]
        ELSE IF line_end + 1 >= last
        THEN [data |-> ended, last |-> 0, out |-> printed]
        ELSE [data |-> rest[line_end + 1].data, last |-> rest[line_end + 1].last,
              out |-> printed \o rest[line_end + 1].out]

Pieces(f, s, data, last, cnt) ==
    \A ls \in 0 .. last : f[ls] = Piece(s, data, last, cnt, f, ls)

(* The body depends on what is behind the line only.                        *)
LEMMA PieceSame ==
    ASSUME NEW s, NEW data, NEW last \in Nat, NEW cnt, NEW ls \in 0 .. last, NEW f, NEW g,
           \A j \in ls + 1 .. last : f[j] = g[j]
    PROVE  Piece(s, data, last, cnt, f, ls) = Piece(s, data, last, cnt, g, ls)
<1>1. PICK le : le = LineEnd(data, last, ls)
  OBVIOUS
<1>2. le \in ls .. last
  BY <1>1, LineEndIs
<1>3. PICK n : n = le + 1
  OBVIOUS
<1>4. n \in Nat /\ (~(n >= last) => f[n] = g[n])
  BY <1>2, <1>3
<1> DEFINE ended    == Ended(data, le)
           line     == Text(SubSeq(ended, ls + 1, Len(data)))
           printed  == IF Found(s, ended, ls, le) THEN <<line>> ELSE <<>>
           P(rest) == IF data[n] # NL /\ cnt # 0 /\ ls # 0
                      THEN [data |-> Moved(ended, ls), last |-> last - ls, out |-> <<>>]
                      ELSE IF n >= last
                      THEN [data |-> ended, last |-> 0, out |-> printed]
                      ELSE [data |-> rest[n].data, last |-> rest[n].last,
                            out |-> printed \o rest[n].out]
<1>5. Piece(s, data, last, cnt, f, ls) = P(f) /\ Piece(s, data, last, cnt, g, ls) = P(g)
  BY <1>1, <1>3 DEF Piece
<1>6. P(f) = P(g)
  <2> HIDE DEF ended, printed
  <2> QED
    BY <1>4
<1> QED
  BY <1>5, <1>6

(* The function the loop's recursion defines.                               *)
Searches(f, s, data, last, cnt, m) ==
    f = [ls \in m .. last |-> Piece(s, data, last, cnt, f, ls)]

(* The inner loop's recursion defines a function.                           *)
LEMMA SearchesExist ==
    ASSUME NEW s, NEW data, NEW last \in Nat, NEW cnt
    PROVE  \E f : Searches(f, s, data, last, cnt, 0)
<1> DEFINE From(f, m) == Searches(f, s, data, last, cnt, m)
<1>1. PICK n \in Nat : n = last + 1
  OBVIOUS
<1>2. PICK T : T = {d \in 0 .. n : \E f : From(f, n - d)}
  OBVIOUS
<1>3. 0 \in T
  <2>1. PICK f : f = [i \in n .. last |-> 0]
    OBVIOUS
  <2>2. From(f, n)
    <3>1. n .. last = {}
      BY <1>1
    <3> QED
      BY <2>1, <3>1 DEF Searches
  <2>3. n - 0 = n
    OBVIOUS
  <2> HIDE DEF From
  <2> QED
    BY <1>2, <2>2, <2>3
<1>4. ASSUME NEW d \in 1 .. n, d - 1 \in T
      PROVE  d \in T
  <2>1. PICK m \in 0 .. last : m = n - d
    BY <1>1
  <2>2. PICK f : From(f, m + 1)
    <3>1. n - (d - 1) = m + 1
      BY <2>1
    <3> HIDE DEF From
    <3> QED
      BY <1>2, <1>4, <3>1
  <2>3. PICK x : x = Piece(s, data, last, cnt, f, m)
    OBVIOUS
  <2>4. PICK g : g = [i \in m .. last |-> IF i = m THEN x ELSE f[i]]
    OBVIOUS
  <2>5. \A i \in m + 1 .. last : g[i] = f[i]
    BY <2>4
  <2>6. ASSUME NEW i \in m .. last
        PROVE  g[i] = Piece(s, data, last, cnt, g, i)
    <3>1. g[i] = Piece(s, data, last, cnt, f, i)
      <4>1. CASE i = m
        BY <2>3, <2>4, <4>1
      <4>2. CASE i # m
        <5>1. i \in m + 1 .. last
          BY <4>2
        <5> QED
          BY <2>2, <2>5, <5>1 DEF Searches
      <4> QED
        BY <4>1, <4>2
    <3>2. i \in 0 .. last /\ \A j \in i + 1 .. last : f[j] = g[j]
      BY <2>5
    <3>3. Piece(s, data, last, cnt, f, i) = Piece(s, data, last, cnt, g, i)
      BY <3>2, PieceSame
    <3> QED
      BY <3>1, <3>3
  <2>7. From(g, m)
    BY <2>4, <2>6 DEF Searches
  <2> HIDE DEF From
  <2> QED
    BY <1>2, <2>1, <2>7
<1>5. 0 .. n \subseteq T
  <2> HIDE DEF From
  <2> QED
    BY <1>3, <1>4, UpTo
<1>6. n \in T /\ n - n = 0
  BY <1>5
<1> QED
  BY <1>2, <1>6

(* It is the one behind Search.                                             *)
LEMMA SearchIs ==
    ASSUME NEW s, NEW data, NEW last \in Nat, NEW cnt
    PROVE  \E h : Pieces(h, s, data, last, cnt) /\ Search(s, data, last, cnt) = h[0]
<1> DEFINE F(f) == [ls \in 0 .. last |-> Piece(s, data, last, cnt, f, ls)]
<1>1. Search(s, data, last, cnt) = (CHOOSE f : f = F(f))[0]
  BY DEF Search, Piece
<1>2. PICK h : h = CHOOSE f : f = F(f)
  OBVIOUS
<1>3. h = F(h)
  <2>1. PICK g : Searches(g, s, data, last, cnt, 0)
    BY SearchesExist
  <2>2. g = F(g)
    BY <2>1 DEF Searches
  <2> HIDE DEF F
  <2> QED
    BY <1>2, <2>2
<1>4. Pieces(h, s, data, last, cnt)
  BY <1>3 DEF Pieces
<1> HIDE DEF F
<1> QED
  BY <1>1, <1>2, <1>4

Codes == DOMAIN Ascii

(* What a byte can hold.                                                    *)
LEMMA CodesAre ==
    /\ Letters \subseteq Codes /\ Codes \subseteq STRING /\ NUL \in Codes /\ NL \in Codes
    /\ Letters \subseteq Chars
<1>1. DOMAIN Ascii \subseteq STRING /\ NUL \in DOMAIN Ascii /\ NL \in DOMAIN Ascii
  BY LibCAssumption, LibraryAssumption
<1> HIDE DEF NUL, NL
<1> QED
  BY <1>1 DEF Codes, Letters, Chars

(* A newline ends no string.                                                *)
LEMMA NewlineNotNul == NL # NUL
BY DEF NL, NUL

(* Different characters have different codes.                               *)
LEMMA CodesApart ==
    ASSUME NEW a \in Codes, NEW b \in Codes, Ascii[a] - Ascii[b] = 0
    PROVE  a = b
<1>1. PICK x \in Int, y \in Int : x = Ascii[a] /\ y = Ascii[b]
  <2>1. Ascii[a] \in 0 .. 127 /\ Ascii[b] \in 0 .. 127
    BY LibraryAssumption, Zenon DEF Codes
  <2> QED
    BY <2>1
<1>2. x = y
  BY <1>1
<1>3. Ascii[a] = Ascii[b]
  BY <1>1, <1>2, Zenon
<1> QED
  BY <1>3, LibCAssumption DEF Codes

BufferOf(data) == data \in Seq(Codes) /\ Len(data) = BUFSIZE + 1

(* The buffer holds the characters of w from line_start to line_end.        *)
WordAt(e, ls, le, w) ==
    /\ BufferOf(e) /\ ls \in 0 .. le /\ le \in 0 .. BUFSIZE
    /\ w \in Seq(Letters) /\ Len(w) = le - ls
    /\ \A i \in 1 .. le - ls : e[ls + i] = w[i]
    /\ e[le + 1] = NUL

(* The bytes from a place in the buffer on.                                 *)
LEMMA BufferTail ==
    ASSUME NEW e, BufferOf(e), NEW c \in 0 .. BUFSIZE
    PROVE  /\ SubSeq(e, c + 1, Len(e)) \in Seq(Codes)
           /\ Len(SubSeq(e, c + 1, Len(e))) = BUFSIZE + 1 - c
           /\ \A i \in 1 .. BUFSIZE + 1 - c : SubSeq(e, c + 1, Len(e))[i] = e[c + i]
<1>1. PICK B \in Nat : B = BUFSIZE
  BY GrepAssumption
<1>2. e \in Seq(Codes) /\ Len(e) = B + 1 /\ c \in 0 .. B
  BY <1>1 DEF BufferOf
<1>3. PICK m \in Int, n \in Int : m = c + 1 /\ n = B + 1 /\ m <= n /\ n - m + 1 = B + 1 - c
  BY <1>2
<1>4. \A i \in m .. n : e[i] \in Codes
  <2>1. \A i \in m .. n : i \in 1 .. Len(e)
    BY <1>2, <1>3
  <2> QED
    BY <1>2, <2>1, ElementOfSeq
<1>5. PICK t : t = SubSeq(e, m, n)
  OBVIOUS
<1>6. t \in Seq(Codes) /\ Len(t) = n - m + 1 /\ \A i \in 1 .. n - m + 1 : t[i] = e[m + i - 1]
  BY <1>3, <1>4, <1>5, SubSeqProperties
<1>7. \A i \in 1 .. B + 1 - c : m + i - 1 = c + i
  BY <1>3
<1>8. t = SubSeq(e, c + 1, Len(e))
  BY <1>2, <1>3, <1>5
<1> QED
  BY <1>1, <1>3, <1>6, <1>7, <1>8

(* They are a string when a line lies there.                                *)
LEMMA TailHolds ==
    ASSUME NEW e, NEW ls, NEW le, NEW w, WordAt(e, ls, le, w)
    PROVE  Holds(SubSeq(e, ls + 1, Len(e)), w)
<1>1. PICK B \in Nat : B = BUFSIZE
  BY GrepAssumption
<1>2. /\ ls \in 0 .. le /\ le \in 0 .. B /\ Len(w) = le - ls
      /\ \A i \in 1 .. le - ls : e[ls + i] = w[i]
      /\ BufferOf(e) /\ w \in Seq(Letters) /\ e[le + 1] = NUL
  BY <1>1 DEF WordAt
<1>3. PICK t : t = SubSeq(e, ls + 1, Len(e))
  OBVIOUS
<1>4. t \in Seq(Codes) /\ Len(t) = B + 1 - ls /\ \A i \in 1 .. B + 1 - ls : t[i] = e[ls + i]
  <2>1. ls \in 0 .. BUFSIZE
    BY <1>1, <1>2
  <2> QED
    BY <1>1, <1>2, <1>3, <2>1, BufferTail
<1>5. Len(w) < Len(t)
  BY <1>2, <1>4
<1>6. \A i \in 1 .. Len(w) : t[i] = w[i]
  <2>1. \A i \in 1 .. Len(w) : i \in 1 .. le - ls /\ i \in 1 .. B + 1 - ls
    BY <1>2
  <2> QED
    BY <1>2, <1>4, <2>1
<1>7. t[Len(w) + 1] = NUL
  <2>1. Len(w) + 1 \in 1 .. B + 1 - ls /\ ls + (Len(w) + 1) = le + 1
    BY <1>2
  <2>2. t[Len(w) + 1] = e[ls + (Len(w) + 1)]
    BY <1>4, <2>1
  <2> QED
    BY <1>2, <2>1, <2>2, Zenon
<1>8. t \in Seq(STRING) /\ w \in Seq(Chars)
  BY <1>2, <1>4, CodesAre, SeqMonotonic
<1> QED
  BY <1>3, <1>5, <1>6, <1>7, <1>8, Zenon DEF Holds

(* pat begins at the i-th character of w.                                   *)
BeginsAt(pat, w, i) ==
    Len(pat) <= Len(w) - i + 1 /\ \A j \in 1 .. Len(pat) : pat[j] = w[i + j - 1]

(* A pattern is a prefix of the rest of w when it begins there.             *)
LEMMA PrefixIs ==
    ASSUME NEW S, NEW w \in Seq(S), NEW pat \in Seq(S), NEW i \in 1 .. Len(w)
    PROVE  IsPrefix(pat, SubSeq(w, i, Len(w))) <=> BeginsAt(pat, w, i)
<1>1. PICK l \in Nat, n \in Nat : l = Len(w) /\ n = Len(pat)
  BY LenProperties
<1>2. \A j \in i .. l : w[j] \in S
  <2>1. \A j \in i .. l : j \in 1 .. Len(w)
    BY <1>1
  <2> QED
    BY <2>1, ElementOfSeq
<1>3. PICK t : t = SubSeq(w, i, l)
  OBVIOUS
<1>4. t \in Seq(S) /\ Len(t) = l - i + 1 /\ \A j \in 1 .. l - i + 1 : t[j] = w[i + j - 1]
  <2>1. i <= l /\ i \in Int /\ l \in Int
    BY <1>1
  <2> QED
    BY <1>2, <1>3, <2>1, SubSeqProperties
<1>5. SubSeq(pat, 1, n) = pat
  BY <1>1, SubSeqFull
<1>6. IsPrefix(pat, t) <=> n <= l - i + 1 /\ pat = SubSeq(t, 1, n)
  BY <1>1, <1>4, <1>5 DEF IsPrefix
<1>7. ASSUME n <= l - i + 1
      PROVE  pat = SubSeq(t, 1, n) <=> \A j \in 1 .. n : pat[j] = w[i + j - 1]
  <2>1. \A j \in 1 .. n : j \in 1 .. Len(t) /\ j \in 1 .. l - i + 1
    BY <1>1, <1>4, <1>7
  <2>2. \A j \in 1 .. n : t[j] \in S
    BY <1>4, <2>1, ElementOfSeq
  <2>3. PICK u : u = SubSeq(t, 1, n)
    OBVIOUS
  <2>4. u \in Seq(S) /\ Len(u) = n /\ \A j \in 1 .. n : u[j] = t[j]
    <3>1. /\ SubSeq(t, 1, n) \in Seq(S) /\ Len(SubSeq(t, 1, n)) = IF 1 <= n THEN n - 1 + 1 ELSE 0
          /\ \A j \in 1 .. n - 1 + 1 : SubSeq(t, 1, n)[j] = t[1 + j - 1]
      BY <2>2, SubSeqProperties
    <3>2. n - 1 + 1 = n /\ (1 <= n \/ n = 0) /\ \A j \in 1 .. n : 1 + j - 1 = j
      OBVIOUS
    <3> QED
      BY <2>3, <3>1, <3>2
  <2>5. \A j \in 1 .. n : u[j] = w[i + j - 1]
    BY <1>4, <2>1, <2>4
  <2>6. pat = u <=> \A j \in 1 .. n : pat[j] = u[j]
    BY <1>1, <2>4, SeqEqual
  <2> QED
    BY <2>3, <2>5, <2>6
<1> QED
  BY <1>1, <1>3, <1>6, <1>7 DEF BeginsAt

(* The comparison with the pattern succeeds where the pattern begins.       *)
LEMMA ComparisonFinds ==
    ASSUME NEW e, NEW ls, NEW le, NEW w, WordAt(e, ls, le, w),
           NEW pat \in Seq(Letters), NEW n \in Nat, n = Len(pat), NEW check \in ls .. le - 1
    PROVE  ece391_strncmp(SubSeq(e, check + 1, Len(e)), CString(pat), n) = 0
             <=> n <= le - check /\ \A j \in 1 .. n : pat[j] = w[(check - ls) + j]
<1>1. PICK B \in Nat : B = BUFSIZE
  BY GrepAssumption
<1>2. /\ ls \in 0 .. le /\ le \in 0 .. B /\ Len(w) = le - ls
      /\ \A i \in 1 .. le - ls : e[ls + i] = w[i]
      /\ BufferOf(e) /\ w \in Seq(Letters) /\ e[le + 1] = NUL
  BY <1>1 DEF WordAt
<1>3. PICK s1 : s1 = SubSeq(e, check + 1, Len(e))
  OBVIOUS
<1>4. PICK k \in Nat : k = le - check /\ k > 0
  BY <1>2
<1>5. \A i \in 1 .. B + 1 - check : s1[i] = e[check + i]
  <2>1. check \in 0 .. BUFSIZE
    BY <1>1, <1>2
  <2> QED
    BY <1>1, <1>2, <1>3, <2>1, BufferTail
<1>6. \A i \in 1 .. k : s1[i] = w[(check - ls) + i] /\ s1[i] \in Letters
  <2> SUFFICES ASSUME NEW i \in 1 .. k
               PROVE  s1[i] = w[(check - ls) + i] /\ s1[i] \in Letters
    OBVIOUS
  <2>1. PICK j \in 1 .. le - ls : j = (check - ls) + i /\ ls + j = check + i
    BY <1>2, <1>4
  <2>2. i \in 1 .. B + 1 - check
    BY <1>2, <1>4
  <2>3. s1[i] = w[j]
    BY <1>2, <1>5, <2>1, <2>2
  <2>4. w[j] \in Letters
    BY <1>2, ElementOfSeq
  <2> QED
    BY <2>1, <2>3, <2>4
<1>7. s1[k + 1] = NUL
  <2>1. k + 1 \in 1 .. B + 1 - check /\ check + (k + 1) = le + 1
    BY <1>2, <1>4
  <2>2. s1[k + 1] = e[check + (k + 1)]
    BY <1>5, <2>1
  <2> QED
    BY <1>2, <2>1, <2>2, Zenon
<1>8. PICK s2 : s2 = CString(pat)
  OBVIOUS
<1>9. \A i \in 1 .. n : s2[i] = pat[i] /\ s2[i] \in Letters
  <2>1. pat \in Seq(Chars)
    BY LettersChars
  <2>2. Holds(CString(pat), pat)
    BY <2>1, CStringHolds
  <2>3. \A i \in 1 .. Len(pat) : s2[i] = pat[i]
    BY <1>8, <2>2 DEF Holds
  <2>4. \A i \in 1 .. Len(pat) : pat[i] \in Letters
    BY ElementOfSeq
  <2> QED
    BY <2>3, <2>4
<1>10. PICK r : r = ece391_strncmp(s1, s2, n)
  OBVIOUS
<1>11. PICK m \in 1 .. n + 1 : Compared(s1, s2, n, m, r)
  BY <1>10, ProgramStrncmpIs
<1>12. /\ \A i \in 1 .. m - 1 : s1[i] = s2[i] /\ s1[i] # NUL
       /\ \/ m = n + 1 /\ r = 0
          \/ m \in 1 .. n /\ s1[m] # s2[m] /\ r = Ascii[s1[m]] - Ascii[s2[m]]
          \/ m \in 1 .. n /\ s1[m] = s2[m] /\ s1[m] = NUL /\ r = 0
  BY <1>11 DEF Compared
<1>13. NUL \notin Letters
  BY DEF Letters
<1>14. m <= k + 1
  <2>1. m > k + 1 => k + 1 \in 1 .. m - 1
    OBVIOUS
  <2> QED
    BY <1>7, <1>12, <2>1
<1>15. ASSUME r = 0
       PROVE  n <= k /\ \A j \in 1 .. n : pat[j] = w[(check - ls) + j]
  <2>1. CASE m = n + 1
    <3>1. n <= k
      BY <1>14, <2>1
    <3>2. \A j \in 1 .. n : j \in 1 .. m - 1 /\ j \in 1 .. k
      BY <2>1, <3>1
    <3> QED
      BY <1>6, <1>9, <1>12, <3>1, <3>2
  <2>2. CASE m \in 1 .. n /\ s1[m] # s2[m] /\ r = Ascii[s1[m]] - Ascii[s2[m]]
    <3>1. PICK b \in Codes : b = s2[m]
      BY <1>9, <2>2, CodesAre
    <3>2. PICK a \in Codes : a = s1[m]
      <4>1. m \in 1 .. k => s1[m] \in Codes
        BY <1>6, CodesAre
      <4>2. m = k + 1 => s1[m] \in Codes
        BY <1>7, CodesAre
      <4>3. m \in 1 .. k \/ m = k + 1
        BY <1>14
      <4> QED
        BY <4>1, <4>2, <4>3
    <3>3. a # b /\ Ascii[a] - Ascii[b] = 0
      BY <1>15, <2>2, <3>1, <3>2
    <3> QED
      BY <3>3, CodesApart
  <2>3. CASE m \in 1 .. n /\ s1[m] = s2[m] /\ s1[m] = NUL
    BY <1>9, <1>13, <2>3
  <2> QED
    BY <1>12, <2>1, <2>2, <2>3
<1>16. ASSUME n <= k, \A j \in 1 .. n : pat[j] = w[(check - ls) + j]
       PROVE  r = 0
  <2>1. \A j \in 1 .. n : s1[j] = s2[j]
    BY <1>6, <1>9, <1>16
  <2> QED
    BY <1>12, <2>1
<1> QED
  BY <1>3, <1>4, <1>8, <1>10, <1>15, <1>16

(* The search finds the pattern in exactly the lines that hold it.          *)
LEMMA FoundIs ==
    ASSUME NEW e, NEW ls, NEW le, NEW w, WordAt(e, ls, le, w),
           NEW pat \in Seq(Letters), pat # <<>>
    PROVE  Found(CString(pat), e, ls, le) <=> LineHolds(w, pat)
<1>1. PICK n \in Nat : n = Len(pat) /\ n > 0
  BY EmptySeq
<1>2. /\ ls \in 0 .. le /\ le \in Nat /\ Len(w) = le - ls /\ w \in Seq(Letters)
      /\ \A i \in 1 .. le - ls : e[ls + i] = w[i]
  BY GrepAssumption DEF WordAt
<1>3. PICK s : s = CString(pat)
  OBVIOUS
<1>4. strlen(s) = n /\ s[1] = pat[1]
  <2>1. Holds(s, pat)
    BY <1>3, LettersChars, CStringHolds
  <2> QED
    BY <1>1, <2>1, HeldText DEF Holds
<1> DEFINE At(c) == n <= le - c /\ \A j \in 1 .. n : pat[j] = w[(c - ls) + j]
<1>5. Found(s, e, ls, le) <=> \E c \in ls .. le - 1 : At(c)
  <2>1. ASSUME NEW c \in ls .. le - 1
        PROVE  s[1] = e[c + 1] /\ ece391_strncmp(SubSeq(e, c + 1, Len(e)), s, strlen(s)) = 0 <=> At(c)
    <3>1. ece391_strncmp(SubSeq(e, c + 1, Len(e)), s, n) = 0 <=> At(c)
      BY <1>1, <1>3, ComparisonFinds
    <3>2. At(c) => s[1] = e[c + 1]
      <4>1. PICK i \in 1 .. le - ls : i = (c - ls) + 1 /\ ls + i = c + 1
        BY <1>2
      <4>2. At(c) => pat[1] = w[(c - ls) + 1]
        BY <1>1
      <4>3. e[ls + i] = w[i]
        BY <1>2
      <4> HIDE DEF At
      <4> QED
        BY <1>4, <4>1, <4>2, <4>3
    <3> HIDE DEF At
    <3> QED
      BY <1>4, <3>1, <3>2
  <2> HIDE DEF At
  <2> QED
    BY <2>1 DEF Found
<1>6. DOMAIN w = 1 .. le - ls
  BY <1>2, LenProperties
<1>7. LineHolds(w, pat) <=> \E i \in 1 .. le - ls : At(ls + i - 1)
  <2>1. ASSUME NEW i \in 1 .. le - ls
        PROVE  IsPrefix(pat, SubSeq(w, i, Len(w))) <=> At(ls + i - 1)
    <3>0. i \in 1 .. Len(w)
      BY <1>2
    <3>1. IsPrefix(pat, SubSeq(w, i, Len(w))) <=> BeginsAt(pat, w, i)
      BY <1>2, <3>0, PrefixIs
    <3>2. /\ le - (ls + i - 1) = Len(w) - i + 1
          /\ \A j \in 1 .. n : ((ls + i - 1) - ls) + j = i + j - 1
      BY <1>2
    <3> QED
      BY <1>1, <3>1, <3>2 DEF BeginsAt
  <2> HIDE DEF At
  <2> QED
    BY <1>6, <2>1 DEF LineHolds
<1>8. (\E c \in ls .. le - 1 : At(c)) <=> \E i \in 1 .. le - ls : At(ls + i - 1)
  <2> HIDE DEF At
  <2>1. ASSUME NEW c \in ls .. le - 1, At(c)
        PROVE  \E i \in 1 .. le - ls : At(ls + i - 1)
    <3>1. c - ls + 1 \in 1 .. le - ls /\ ls + (c - ls + 1) - 1 = c
      BY <1>2
    <3> QED
      BY <2>1, <3>1
  <2>2. ASSUME NEW i \in 1 .. le - ls, At(ls + i - 1)
        PROVE  \E c \in ls .. le - 1 : At(c)
    <3>1. ls + i - 1 \in ls .. le - 1
      BY <1>2
    <3> QED
      BY <2>2, <3>1
  <2> QED
    BY <2>1, <2>2
<1> QED
  BY <1>3, <1>5, <1>7, <1>8

(* What ending the lines changes in the buffer, and what it does not.       *)
LEMMA EndedIs ==
    ASSUME NEW data, BufferOf(data), NEW le \in 0 .. BUFSIZE, NEW e, e = Ended(data, le)
    PROVE  /\ BufferOf(e) /\ e[le + 1] = NUL
           /\ \A i \in 1 .. le : data[i] # NL => e[i] = data[i]
           /\ (\A i \in le + 2 .. BUFSIZE + 1 : data[i] # NL) => \A i \in 1 .. BUFSIZE + 1 : e[i] # NL
<1>1. PICK B \in Nat : B = BUFSIZE
  BY GrepAssumption
<1>2. PICK z \in Codes : z = NUL
  BY CodesAre
<1>3. z # NL
  BY <1>2, NewlineNotNul
<1>4. data \in Seq(Codes) /\ Len(data) = B + 1 /\ DOMAIN data = 1 .. B + 1
  BY <1>1, LenProperties DEF BufferOf
<1>5. e = [i \in 1 .. B + 1 |-> IF i = le + 1 \/ (i <= le /\ data[i] = NL) THEN z ELSE data[i]]
  BY <1>2, <1>4, Zenon DEF Ended
<1>6. \A i \in 1 .. B + 1 : data[i] \in Codes
  BY <1>4, ElementOfSeq
<1>7. e \in [1 .. B + 1 -> Codes]
  BY <1>5, <1>6
<1>8. e \in Seq(Codes) /\ Len(e) = B + 1
  <2>1. PICK n \in Nat : n = B + 1
    OBVIOUS
  <2> QED
    BY <1>7, <2>1, FunctionSeq
<1>9. e[le + 1] = z
  BY <1>1, <1>5
<1>10. \A i \in 1 .. le : data[i] # NL => e[i] = data[i]
  BY <1>1, <1>5
<1>11. ASSUME \A i \in le + 2 .. B + 1 : data[i] # NL, NEW i \in 1 .. B + 1
       PROVE  e[i] # NL
  <2>1. CASE i = le + 1 \/ (i <= le /\ data[i] = NL)
    BY <1>3, <1>5, <2>1
  <2>2. CASE ~(i = le + 1 \/ (i <= le /\ data[i] = NL))
    <3>1. data[i] # NL
      <4>1. i <= le \/ i \in le + 2 .. B + 1
        BY <1>1, <2>2
      <4> QED
        BY <1>11, <2>2, <4>1
    <3> QED
      BY <1>5, <2>2, <3>1
  <2> QED
    BY <2>1, <2>2
<1> QED
  BY <1>1, <1>2, <1>8, <1>9, <1>10, <1>11 DEF BufferOf

(* What is moved to the front is the line; no newline comes with it.        *)
LEMMA MovedIs ==
    ASSUME NEW e, NEW ls, NEW le, NEW w, WordAt(e, ls, le, w),
           \A i \in 1 .. BUFSIZE + 1 : e[i] # NL, NEW d, d = Moved(e, ls)
    PROVE  /\ BufferOf(d) /\ \A i \in 1 .. BUFSIZE + 1 : d[i] # NL
           /\ \A i \in 1 .. Len(w) : d[i] = w[i]
<1>1. PICK B \in Nat : B = BUFSIZE
  BY GrepAssumption
<1>2. /\ ls \in 0 .. le /\ le \in 0 .. B /\ Len(w) = le - ls
      /\ \A i \in 1 .. le - ls : e[ls + i] = w[i]
      /\ BufferOf(e) /\ w \in Seq(Letters)
  BY <1>1 DEF WordAt
<1>3. PICK t : t = SubSeq(e, ls + 1, Len(e))
  OBVIOUS
<1>4. t \in Seq(Codes) /\ Len(t) = B + 1 - ls /\ \A i \in 1 .. B + 1 - ls : t[i] = e[ls + i]
  <2>1. ls \in 0 .. BUFSIZE
    BY <1>1, <1>2
  <2> QED
    BY <1>1, <1>2, <1>3, <2>1, BufferTail
<1>5. PICK k \in Nat : k = le - ls
  BY <1>2
<1>6. strlen(t) = k
  BY <1>2, <1>3, <1>5, TailHolds, HeldText
<1>7. e \in Seq(Codes) /\ Len(e) = B + 1
  BY <1>1, <1>2 DEF BufferOf
<1>8. PICK a, b : a = SubSeq(t, 1, k + 1) /\ b = SubSeq(e, k + 2, Len(e))
  OBVIOUS
<1>9. d = a \o b
  BY <1>3, <1>6, <1>8 DEF Moved, strcpy
<1>10. a \in Seq(Codes) /\ Len(a) = k + 1 /\ \A i \in 1 .. k + 1 : a[i] = e[ls + i]
  <2>1. \A i \in 1 .. k + 1 : i \in 1 .. Len(t) /\ i \in 1 .. B + 1 - ls
    BY <1>2, <1>4, <1>5
  <2>2. \A i \in 1 .. k + 1 : t[i] \in Codes
    BY <1>4, <2>1, ElementOfSeq
  <2>3. PICK n \in Nat : n = k + 1 /\ n >= 1 /\ n - 1 + 1 = n
    OBVIOUS
  <2>4. /\ SubSeq(t, 1, n) \in Seq(Codes) /\ Len(SubSeq(t, 1, n)) = IF 1 <= n THEN n - 1 + 1 ELSE 0
        /\ \A i \in 1 .. n - 1 + 1 : SubSeq(t, 1, n)[i] = t[1 + i - 1]
    BY <2>2, <2>3, SubSeqProperties
  <2>5. a \in Seq(Codes) /\ Len(a) = k + 1 /\ \A i \in 1 .. k + 1 : a[i] = t[i]
    <3>1. \A i \in 1 .. n : 1 + i - 1 = i
      OBVIOUS
    <3> QED
      BY <1>8, <2>3, <2>4, <3>1
  <2> QED
    BY <1>4, <2>1, <2>5
<1>11. b \in Seq(Codes) /\ Len(b) = B - k /\ \A i \in 1 .. B - k : b[i] = e[(k + 1) + i]
  <2>1. CASE k = B
    <3>1. b = <<>>
      BY <1>7, <1>8, <2>1, SubSeqEmpty
    <3> QED
      BY <2>1, <3>1, EmptySeq
  <2>2. CASE k < B
    <3>1. PICK c \in 0 .. BUFSIZE : c = k + 1 /\ c + 1 = k + 2
      BY <1>1, <2>2
    <3>2. /\ SubSeq(e, c + 1, Len(e)) \in Seq(Codes)
          /\ Len(SubSeq(e, c + 1, Len(e))) = BUFSIZE + 1 - c
          /\ \A i \in 1 .. BUFSIZE + 1 - c : SubSeq(e, c + 1, Len(e))[i] = e[c + i]
      BY <1>2, BufferTail
    <3>3. BUFSIZE + 1 - c = B - k
      BY <1>1, <3>1
    <3> QED
      BY <1>8, <3>1, <3>2, <3>3
  <2> QED
    BY <1>2, <1>5, <2>1, <2>2
<1>12. /\ d \in Seq(Codes) /\ Len(d) = B + 1
       /\ \A i \in 1 .. B + 1 : d[i] = IF i <= k + 1 THEN a[i] ELSE b[i - (k + 1)]
  <2>1. /\ a \o b \in Seq(Codes) /\ Len(a \o b) = Len(a) + Len(b)
        /\ \A i \in 1 .. Len(a) + Len(b) : (a \o b)[i] = IF i <= Len(a) THEN a[i] ELSE b[i - Len(a)]
    BY <1>10, <1>11, ConcatProperties
  <2>2. Len(a) + Len(b) = B + 1
    BY <1>10, <1>11
  <2> QED
    BY <1>9, <1>10, <2>1, <2>2
<1>13. ASSUME NEW i \in 1 .. B + 1
       PROVE  d[i] # NL
  <2>1. CASE i <= k + 1
    <3>1. d[i] = e[ls + i] /\ ls + i \in 1 .. B + 1
      BY <1>2, <1>5, <1>10, <1>12, <2>1
    <3> QED
      BY <1>1, <3>1
  <2>2. CASE ~(i <= k + 1)
    <3>1. i - (k + 1) \in 1 .. B - k /\ (k + 1) + (i - (k + 1)) = i
      BY <2>2
    <3>2. d[i] = b[i - (k + 1)]
      BY <1>12, <2>2
    <3>3. d[i] = e[i]
      BY <1>11, <3>1, <3>2
    <3> QED
      BY <1>1, <3>3
  <2> QED
    BY <2>1, <2>2
<1>14. \A i \in 1 .. Len(w) : d[i] = w[i]
  <2>1. \A i \in 1 .. Len(w) : i \in 1 .. k + 1 /\ i \in 1 .. B + 1 /\ i <= k + 1 /\ i \in 1 .. le - ls
    BY <1>2, <1>5
  <2> QED
    BY <1>2, <1>10, <1>12, <2>1
<1> QED
  BY <1>1, <1>12, <1>13, <1>14 DEF BufferOf

-----------------------------------------------------------------------------
(* The buffer holds the L characters of the file behind the first base.     *)
InBuffer(data, file, base, L) ==
    /\ BufferOf(data) /\ L \in 0 .. BUFSIZE /\ base \in Nat /\ base + L <= Len(file)
    /\ \A i \in 1 .. L : data[i] = file[base + i]
    /\ \A i \in L + 1 .. BUFSIZE + 1 : data[i] # NL

(* What is left of the search of the file up to the at-th character, and    *)
(* what is printed, before the piece that r is about and by it.             *)
Left(r, file, U, at, before) ==
    /\ BufferOf(r.data) /\ \A i \in 1 .. BUFSIZE + 1 : r.data[i] # NL
    /\ r.last \in 0 .. BUFSIZE - 1 /\ r.last <= at
    /\ \A i \in 1 .. r.last : r.data[i] = file[(at - r.last) + i]
    /\ Edge(file, at - r.last)
    /\ r.out \in Seq(Seq(Letters)) /\ before \o r.out = U[at - r.last]

LinesFit(file) == \A i \in Starts(file) : Len(LineAt(file, i)) <= BUFSIZE

(* A line that fills the buffer from its beginning ends there.              *)
LEMMA FullLine ==
    ASSUME NEW file \in Seq(Letters), LinesFit(file), NEW p \in Nat, NEW q \in Nat,
           q = p + BUFSIZE, q < Len(file), Edge(file, p), \A i \in p + 1 .. q : file[i] # NL
    PROVE  WholeTo(file, p, q)
<1>1. PICK l \in Nat, B \in Nat : l = Len(file) /\ B = BUFSIZE /\ B > 0
  BY LenProperties, GrepAssumption
<1>2. PICK i \in 1 .. l : i = p + 1 /\ i - 1 = p
  BY <1>1
<1>3. file[p + 1] # NL /\ p # l
  BY <1>1
<1>4. i \in Starts(file)
  <2>1. p = 0 \/ file[p] = NL
    BY <1>1, <1>3 DEF Edge
  <2>2. i \in DOMAIN file
    BY <1>1, LenProperties
  <2>3. i = 1 \/ file[i - 1] = NL
    BY <1>2, <2>1
  <2> QED
    BY <2>2, <2>3 DEF Starts
<1>5. PICK r \in i - 1 .. l : WholeTo(file, i - 1, r) /\ LineAt(file, i) = SubSeq(file, i, r)
  BY <1>1, LineEndsAt
<1>6. r <= q
  <2>1. \A j \in i .. r : file[j] \in Letters
    <3>1. \A j \in i .. r : j \in 1 .. Len(file)
      BY <1>1, <1>2
    <3> QED
      BY <3>1, ElementOfSeq
  <2>2. Len(SubSeq(file, i, r)) = IF i <= r THEN r - i + 1 ELSE 0
    BY <2>1, SubSeqProperties
  <2>3. Len(LineAt(file, i)) <= B
    BY <1>1, <1>4 DEF LinesFit
  <2> QED
    BY <1>1, <1>2, <1>5, <2>2, <2>3
<1>7. r = l \/ file[r + 1] = NL
  BY <1>1, <1>5 DEF WholeTo
<1>8. ~(r < q)
  <2>1. r < q => r + 1 \in p + 1 .. q /\ r # l
    BY <1>1, <1>2
  <2> QED
    BY <1>7, <2>1
<1>9. r = q
  BY <1>6, <1>8, <1>2
<1> QED
  BY <1>2, <1>5, <1>9

(* The buffer after a read of cnt characters: full, or at the file's end.   *)
ReadInto(data, file, base, L, cnt) ==
    /\ InBuffer(data, file, base, L)
    /\ L = BUFSIZE \/ base + L = Len(file)
    /\ cnt = 0 => base + L = Len(file)

(* What the search from a place on does.                                    *)
Searched(r, file, U, at, p, cnt) == Left(r, file, U, at, U[p]) /\ (cnt = 0 => r.last = 0)

(* A piece, given its line's end, what ends the line, and what it prints.   *)
Unfolds(x, data, L, cnt, f, ls, le, e, pr) ==
    x = IF data[le + 1] # NL /\ cnt # 0 /\ ls # 0
        THEN [data |-> Moved(e, ls), last |-> L - ls, out |-> <<>>]
        ELSE IF le + 1 >= L THEN [data |-> e, last |-> 0, out |-> pr]
        ELSE [data |-> f[le + 1].data, last |-> f[le + 1].last, out |-> pr \o f[le + 1].out]

(* Which of the three ways a piece goes.                                    *)
LEMMA PieceUnfolds ==
    ASSUME NEW s, NEW data, NEW L, NEW cnt, NEW f, NEW ls
    PROVE  Unfolds(Piece(s, data, L, cnt, f, ls), data, L, cnt, f, ls, LineEnd(data, L, ls),
                   Ended(data, LineEnd(data, L, ls)),
                   IF Found(s, Ended(data, LineEnd(data, L, ls)), ls, LineEnd(data, L, ls))
                   THEN <<Text(SubSeq(Ended(data, LineEnd(data, L, ls)), ls + 1, Len(data)))>>
                   ELSE <<>>)
BY DEF Piece, Unfolds

(* The line of the file in a piece.                                         *)
LEMMA PieceWord ==
    ASSUME NEW file \in Seq(Letters), NEW data, NEW base, NEW L, InBuffer(data, file, base, L),
           NEW ls \in 0 .. L, NEW le \in ls .. L, \A i \in ls + 1 .. le : data[i] # NL,
           NEW e, e = Ended(data, le), NEW w, w = SubSeq(file, base + ls + 1, base + le)
    PROVE  WordAt(e, ls, le, w)
<1>1. PICK l \in Nat, B \in Nat : l = Len(file) /\ B = BUFSIZE
  BY LenProperties, GrepAssumption
<1>2. /\ BufferOf(data) /\ L \in 0 .. B /\ base \in Nat /\ base + L <= l
      /\ \A i \in 1 .. L : data[i] = file[base + i]
  BY <1>1 DEF InBuffer
<1>3. /\ BufferOf(e) /\ e[le + 1] = NUL
      /\ \A i \in 1 .. le : data[i] # NL => e[i] = data[i]
  <2>1. le \in 0 .. BUFSIZE
    BY <1>1, <1>2
  <2> QED
    BY <1>2, <2>1, EndedIs
<1>4. PICK m \in Int, n \in Int : m = base + ls + 1 /\ n = base + le
  BY <1>2
<1>5. \A i \in m .. n : file[i] \in Letters
  <2>1. \A i \in m .. n : i \in 1 .. Len(file)
    BY <1>1, <1>2, <1>4
  <2> QED
    BY <2>1, ElementOfSeq
<1>6. PICK t : t = SubSeq(file, m, n)
  OBVIOUS
<1>7. /\ w \in Seq(Letters) /\ Len(w) = IF m <= n THEN n - m + 1 ELSE 0
      /\ \A i \in 1 .. n - m + 1 : w[i] = file[m + i - 1]
  <2>1. /\ t \in Seq(Letters) /\ Len(t) = IF m <= n THEN n - m + 1 ELSE 0
        /\ \A i \in 1 .. n - m + 1 : t[i] = file[m + i - 1]
    BY <1>5, <1>6, SubSeqProperties
  <2>2. w = t
    BY <1>4, <1>6
  <2> QED
    BY <2>1, <2>2
<1>8. Len(w) = le - ls /\ n - m + 1 = le - ls
  BY <1>2, <1>4, <1>7
<1>9. \A i \in 1 .. le - ls : e[ls + i] = w[i]
  <2> SUFFICES ASSUME NEW i \in 1 .. le - ls
               PROVE  e[ls + i] = w[i]
    OBVIOUS
  <2>1. PICK j \in 1 .. L : j = ls + i
    BY <1>2
  <2>2. j \in ls + 1 .. le /\ j \in 1 .. le /\ m + i - 1 = base + j
    BY <1>2, <1>4, <2>1
  <2>3. e[j] = file[base + j]
    BY <1>2, <1>3, <2>2
  <2>4. w[i] = file[m + i - 1]
    BY <1>7, <1>8
  <2> QED
    BY <2>1, <2>2, <2>3, <2>4
<1>10. ls \in 0 .. le /\ le \in 0 .. BUFSIZE
  BY <1>1, <1>2
<1> QED
  BY <1>3, <1>7, <1>8, <1>9, <1>10 DEF WordAt

(* A piece prints its line when it is whole, and keeps it when it is not.   *)
LEMMA PieceRight ==
    ASSUME NEW file \in Seq(Letters), NEW pat \in Seq(Letters), pat # <<>>,
           NEW U, Matched(U, file, pat, Len(file)), LinesFit(file),
           NEW data, NEW base, NEW L, NEW cnt, ReadInto(data, file, base, L, cnt),
           NEW f, NEW ls \in 0 .. L, Edge(file, base + ls),
           f[ls] = Piece(CString(pat), data, L, cnt, f, ls),
           NEW at, at = base + L,
           \A j \in ls + 1 .. L : Edge(file, base + j) => Searched(f[j], file, U, at, base + j, cnt)
    PROVE  Searched(f[ls], file, U, at, base + ls, cnt)
<1>1. PICK l \in Nat, B \in Nat : l = Len(file) /\ B = BUFSIZE /\ B > 1
  BY LenProperties, GrepAssumption
<1>2. /\ BufferOf(data) /\ L \in 0 .. B /\ base \in Nat /\ base + L <= l
      /\ \A i \in 1 .. L : data[i] = file[base + i]
      /\ \A i \in L + 1 .. B + 1 : data[i] # NL
      /\ InBuffer(data, file, base, L)
      /\ L = B \/ base + L = l
      /\ cnt = 0 => base + L = l
  BY <1>1 DEF InBuffer, ReadInto
<1>3. at \in Nat /\ at <= l /\ L \in Nat
  BY <1>2
<1>4. PICK le : le = LineEnd(data, L, ls)
  OBVIOUS
<1>5. le \in ls .. L /\ (le = L \/ data[le + 1] = NL) /\ \A i \in ls + 1 .. le : data[i] # NL
  BY <1>3, <1>4, LineEndIs
<1>6. PICK e : e = Ended(data, le)
  OBVIOUS
<1>7. PICK p \in Nat, q \in Nat : p = base + ls /\ q = base + le /\ p <= q /\ q <= at
  BY <1>2, <1>5
<1>8. PICK w : w = SubSeq(file, p + 1, q)
  OBVIOUS
<1>9. WordAt(e, ls, le, w)
  <2>1. w = SubSeq(file, base + ls + 1, base + le)
    BY <1>7, <1>8
  <2> QED
    BY <1>2, <1>5, <1>6, <2>1, PieceWord
<1>10. w \in Seq(Letters) /\ Len(w) = le - ls
  BY <1>9 DEF WordAt
<1>11. Text(SubSeq(e, ls + 1, Len(data))) = w
  <2>1. Len(data) = Len(e)
    BY <1>2, <1>9 DEF WordAt, BufferOf
  <2>2. Holds(SubSeq(e, ls + 1, Len(e)), w)
    BY <1>9, TailHolds
  <2> QED
    BY <2>1, <2>2, HeldText
<1>12. PICK pr : pr = IfHolds(w, pat)
  OBVIOUS
<1>13. pr \in Seq(Seq(Letters))
  <2>1. PICK S : S = Seq(Letters)
    OBVIOUS
  <2>2. w \in S
    BY <1>10, <2>1
  <2>3. pr \in Seq(S)
    BY <1>12, <2>2 DEF IfHolds
  <2> QED
    BY <2>1, <2>3
<1>14. pr = IF Found(CString(pat), e, ls, le) THEN <<w>> ELSE <<>>
  BY <1>9, <1>12, FoundIs DEF IfHolds
<1>15. PICK n : n = le + 1
  OBVIOUS
<1>16. f[ls] = IF data[n] # NL /\ cnt # 0 /\ ls # 0
               THEN [data |-> Moved(e, ls), last |-> L - ls, out |-> <<>>]
               ELSE IF n >= L THEN [data |-> e, last |-> 0, out |-> pr]
               ELSE [data |-> f[n].data, last |-> f[n].last, out |-> pr \o f[n].out]
  <2>1. Unfolds(Piece(CString(pat), data, L, cnt, f, ls), data, L, cnt, f, ls, le, e,
                IF Found(CString(pat), e, ls, le)
                THEN <<Text(SubSeq(e, ls + 1, Len(data)))>> ELSE <<>>)
    BY <1>4, <1>6, PieceUnfolds
  <2>2. Unfolds(f[ls], data, L, cnt, f, ls, le, e, pr)
    BY <1>11, <1>14, <2>1
  <2> QED
    BY <1>15, <2>2 DEF Unfolds
<1>17. \A i \in p + 1 .. q : file[i] # NL
  <2> SUFFICES ASSUME NEW i \in p + 1 .. q
               PROVE  file[i] # NL
    OBVIOUS
  <2>1. PICK j \in ls + 1 .. le : j = i - base /\ j \in 1 .. L /\ base + j = i
    BY <1>2, <1>5, <1>7
  <2> QED
    BY <1>2, <1>5, <2>1
<1>18. Edge(file, p)
  BY <1>7
<1>19. \A i \in 0 .. l : U[i] \in Seq(Seq(Letters))
  BY <1>1, MatchedAre
<1>20. ASSUME WholeTo(file, p, q)
       PROVE  U[p] \o pr = U[q] /\ (q < l => U[q + 1] = U[q])
  <2>1. Prints(file, U, pat, p, q)
    BY <1>7, <1>18, <1>20, LinePassed
  <2> QED
    BY <1>1, <1>8, <1>12, <2>1 DEF Prints
<1>21. ASSUME n >= L
       PROVE  BufferOf(e) /\ \A i \in 1 .. B + 1 : e[i] # NL
  <2>1. \A i \in le + 2 .. BUFSIZE + 1 : data[i] # NL
    BY <1>1, <1>2, <1>5, <1>15, <1>21
  <2>2. le \in 0 .. BUFSIZE
    BY <1>1, <1>2, <1>5
  <2> QED
    BY <1>1, <1>2, <1>6, <2>1, <2>2, EndedIs
<1>22. ASSUME n >= L, U[p] \o pr = U[at], Edge(file, at),
              f[ls] = [data |-> e, last |-> 0, out |-> pr]
       PROVE  Searched(f[ls], file, U, at, base + ls, cnt)
  <2>1. PICK r : r = f[ls]
    OBVIOUS
  <2>2. r.data = e /\ r.last = 0 /\ r.out = pr
    BY <1>22, <2>1
  <2>3. at - r.last = at /\ r.last \in 0 .. BUFSIZE - 1 /\ r.last <= at /\ 1 .. r.last = {}
    BY <1>1, <1>3, <2>2
  <2>4. Left(r, file, U, at, U[p])
    BY <1>1, <1>13, <1>21, <1>22, <2>2, <2>3 DEF Left
  <2> QED
    BY <1>7, <2>1, <2>2, <2>4 DEF Searched
<1>23. CASE le < L
  <2>1. data[n] = NL /\ n \in 1 .. L /\ base + n = q + 1 /\ q < l
    BY <1>2, <1>5, <1>7, <1>15, <1>23
  <2>2. file[q + 1] = NL
    BY <1>2, <2>1
  <2>3. WholeTo(file, p, q)
    BY <1>1, <1>3, <1>7, <1>17, <2>2 DEF WholeTo
  <2>4. U[p] \o pr = U[q + 1]
    BY <1>20, <2>1, <2>3
  <2>5. CASE n >= L
    <3>1. at = q + 1
      BY <1>2, <1>15, <1>23, <2>1, <2>5
    <3>2. Edge(file, at)
      BY <2>2, <3>1 DEF Edge
    <3>3. f[ls] = [data |-> e, last |-> 0, out |-> pr]
      BY <1>16, <2>1, <2>5
    <3>4. U[p] \o pr = U[at]
      BY <2>4, <3>1
    <3> QED
      BY <1>22, <2>5, <3>2, <3>3, <3>4
  <2>6. CASE ~(n >= L)
    <3>1. n \in ls + 1 .. L
      BY <1>3, <1>5, <1>15, <2>6
    <3>2. Edge(file, base + n)
      BY <2>1, <2>2 DEF Edge
    <3>3. PICK g : g = f[n]
      OBVIOUS
    <3>4. Searched(g, file, U, at, base + n, cnt)
      BY <3>1, <3>2, <3>3
    <3>5. Left(g, file, U, at, U[q + 1]) /\ (cnt = 0 => g.last = 0)
      BY <2>1, <3>4 DEF Searched
    <3>6. PICK r : r = f[ls]
      OBVIOUS
    <3>7. r.data = g.data /\ r.last = g.last /\ r.out = pr \o g.out
      BY <1>16, <2>1, <2>6, <3>3, <3>6
    <3>8. PICK a \in Seq(Seq(Letters)) : a = U[p]
      BY <1>3, <1>7, <1>19
    <3>9. g.out \in Seq(Seq(Letters)) /\ U[q + 1] \o g.out = U[at - g.last]
      BY <3>5 DEF Left
    <3>10. r.out \in Seq(Seq(Letters)) /\ U[p] \o r.out = U[at - g.last]
      <4>1. PICK o \in Seq(Seq(Letters)) : o = g.out
        BY <3>9
      <4>2. pr \o o \in Seq(Seq(Letters)) /\ (a \o pr) \o o = a \o (pr \o o)
        BY <1>13, ConcatProperties, ConcatAssociative
      <4> QED
        BY <2>4, <3>7, <3>8, <3>9, <4>1, <4>2
    <3>11. Left(r, file, U, at, U[p])
      BY <3>5, <3>7, <3>10 DEF Left
    <3> QED
      BY <1>7, <3>5, <3>6, <3>7, <3>11 DEF Searched
  <2> QED
    BY <2>5, <2>6
<1>24. CASE le = L
  <2>1. data[n] # NL /\ n >= L /\ q = at
    BY <1>2, <1>7, <1>15, <1>24
  <2>2. CASE cnt # 0 /\ ls # 0
    <3>1. PICK d : d = Moved(e, ls)
      OBVIOUS
    <3>2. /\ BufferOf(d) /\ \A i \in 1 .. BUFSIZE + 1 : d[i] # NL
          /\ \A i \in 1 .. Len(w) : d[i] = w[i]
      <4>1. \A i \in 1 .. BUFSIZE + 1 : e[i] # NL
        BY <1>1, <1>21, <2>1
      <4> QED
        BY <1>9, <3>1, <4>1, MovedIs
    <3>3. PICK r : r = f[ls]
      OBVIOUS
    <3>4. r.data = d /\ r.last = L - ls /\ r.out = <<>>
      BY <1>16, <2>1, <2>2, <3>1, <3>3
    <3>5. r.last \in 0 .. BUFSIZE - 1 /\ r.last <= at /\ at - r.last = p
      BY <1>1, <1>2, <1>7, <2>2, <3>4
    <3>6. \A i \in 1 .. r.last : r.data[i] = file[(at - r.last) + i]
      <4> SUFFICES ASSUME NEW i \in 1 .. L - ls
                   PROVE  d[i] = file[p + i]
        BY <3>4, <3>5
      <4>1. i \in 1 .. Len(w) /\ i \in 1 .. le - ls
        BY <1>10, <1>24
      <4>2. d[i] = w[i]
        BY <3>2, <4>1
      <4>3. WordAt(e, ls, le, w) /\ e[ls + i] = w[i]
        BY <1>9, <4>1 DEF WordAt
      <4>4. PICK j \in 1 .. L : j = ls + i /\ j \in ls + 1 .. le /\ j \in 1 .. le /\ base + j = p + i
        BY <1>2, <1>5, <1>7, <1>24
      <4>5. le \in 0 .. BUFSIZE
        BY <1>1, <1>2, <1>5
      <4>6. e[j] = data[j]
        BY <1>2, <1>5, <1>6, <4>4, <4>5, EndedIs
      <4> QED
        BY <1>2, <4>2, <4>3, <4>4, <4>6
    <3>7. r.out \in Seq(Seq(Letters)) /\ U[p] \o r.out = U[p]
      <4>1. PICK S : S = Seq(Letters)
        OBVIOUS
      <4>2. PICK a \in Seq(S) : a = U[p]
        BY <1>3, <1>7, <1>19, <4>1
      <4>3. <<>> \in Seq(S) /\ a \o <<>> = a
        BY EmptySeq, ConcatEmptySeq
      <4> QED
        BY <3>4, <4>1, <4>2, <4>3
    <3>8. Left(r, file, U, at, U[p])
      BY <1>18, <3>2, <3>4, <3>5, <3>6, <3>7 DEF Left
    <3> QED
      BY <1>7, <2>2, <3>3, <3>8 DEF Searched
  <2>3. CASE ~(cnt # 0 /\ ls # 0)
    <3>1. f[ls] = [data |-> e, last |-> 0, out |-> pr]
      BY <1>16, <2>1, <2>3
    <3>2. WholeTo(file, p, q)
      <4>1. CASE q = l
        BY <1>1, <1>3, <1>7, <1>17, <4>1 DEF WholeTo
      <4>2. CASE q # l
        <5>1. L = B /\ q < l /\ ls = 0 /\ q = p + BUFSIZE
          BY <1>1, <1>2, <1>3, <1>7, <2>1, <2>3, <1>24, <4>2
        <5> QED
          BY <1>1, <1>17, <1>18, <5>1, FullLine
      <4> QED
        BY <4>1, <4>2
    <3>3. U[p] \o pr = U[at]
      BY <1>20, <2>1, <3>2
    <3>4. Edge(file, at)
      BY <2>1, <3>2 DEF WholeTo, Edge
    <3> QED
      BY <1>22, <2>1, <3>1, <3>3, <3>4
  <2> QED
    BY <2>2, <2>3
<1> QED
  BY <1>3, <1>5, <1>23, <1>24

(* So does the whole search of what was read.                               *)
LEMMA SearchRightly ==
    ASSUME NEW file \in Seq(Letters), NEW pat \in Seq(Letters), pat # <<>>,
           NEW U, Matched(U, file, pat, Len(file)), LinesFit(file),
           NEW data, NEW base, NEW L, NEW cnt, ReadInto(data, file, base, L, cnt),
           Edge(file, base), NEW at, at = base + L
    PROVE  Searched(Search(CString(pat), data, L, cnt), file, U, at, base, cnt)
<1>1. L \in Nat /\ base \in Nat
  BY GrepAssumption DEF ReadInto, InBuffer
<1>2. PICK s : s = CString(pat)
  OBVIOUS
<1>3. PICK f : Pieces(f, s, data, L, cnt) /\ Search(s, data, L, cnt) = f[0]
  BY <1>1, SearchIs
<1> DEFINE Fine(j) == Edge(file, base + j) => Searched(f[j], file, U, at, base + j, cnt)
<1>4. PICK T : T = {d \in 0 .. L : Fine(L - d)}
  OBVIOUS
<1>5. ASSUME NEW d \in 0 .. L, \A j \in 0 .. d - 1 : j \in T
      PROVE  d \in T
  <2>1. PICK ls \in 0 .. L : ls = L - d
    BY <1>1
  <2>2. ASSUME NEW j \in ls + 1 .. L
        PROVE  Fine(j)
    <3>1. L - j \in 0 .. d - 1 /\ L - (L - j) = j
      BY <1>1, <2>1
    <3> HIDE DEF Fine
    <3> QED
      BY <1>4, <1>5, <3>1
  <2>3. ASSUME Edge(file, base + ls)
        PROVE  Searched(f[ls], file, U, at, base + ls, cnt)
    <3>1. f[ls] = Piece(s, data, L, cnt, f, ls)
      BY <1>3 DEF Pieces
    <3>2. \A j \in ls + 1 .. L : Edge(file, base + j) => Searched(f[j], file, U, at, base + j, cnt)
      BY <2>2
    <3> QED
      BY <1>2, <2>3, <3>1, <3>2, PieceRight
  <2> QED
    BY <1>4, <2>1, <2>3
<1>6. 0 .. L \subseteq T
  <2> HIDE DEF Fine
  <2> QED
    BY <1>1, <1>5, AllBelow
<1>7. L \in T /\ L - L = 0 /\ base + 0 = base
  BY <1>1, <1>6
<1>8. Fine(0)
  <2> HIDE DEF Fine
  <2> QED
    BY <1>4, <1>7
<1> QED
  BY <1>2, <1>3, <1>7, <1>8

(* What is kept of the buffer stays, and the bytes read follow it.          *)
LEMMA RefilledIs ==
    ASSUME NEW data, BufferOf(data), \A i \in 1 .. BUFSIZE + 1 : data[i] # NL,
           NEW last \in 0 .. BUFSIZE, NEW chunk \in Seq(Letters),
           NEW n \in Nat, Len(chunk) = n, last + n <= BUFSIZE,
           NEW d, d = Refilled(data, last, chunk)
    PROVE  /\ BufferOf(d)
           /\ \A i \in 1 .. last : d[i] = data[i]
           /\ \A i \in 1 .. n : d[last + i] = chunk[i]
           /\ \A i \in last + n + 1 .. BUFSIZE + 1 : d[i] # NL
<1>1. PICK B \in Nat : B = BUFSIZE
  BY GrepAssumption
<1>2. data \in Seq(Codes) /\ Len(data) = B + 1
  BY <1>1 DEF BufferOf
<1>3. PICK m \in 0 .. BUFSIZE : m = last + n
  BY <1>1
<1>4. PICK a, b : a = SubSeq(data, 1, last) /\ b = SubSeq(data, m + 1, Len(data))
  OBVIOUS
<1>5. a \in Seq(Codes) /\ Len(a) = last /\ \A i \in 1 .. last : a[i] = data[i]
  <2>1. \A i \in 1 .. last : data[i] \in Codes
    <3>1. \A i \in 1 .. last : i \in 1 .. Len(data)
      BY <1>1, <1>2
    <3> QED
      BY <1>2, <3>1, ElementOfSeq
  <2>2. /\ SubSeq(data, 1, last) \in Seq(Codes)
        /\ Len(SubSeq(data, 1, last)) = IF 1 <= last THEN last - 1 + 1 ELSE 0
        /\ \A i \in 1 .. last - 1 + 1 : SubSeq(data, 1, last)[i] = data[1 + i - 1]
    <3>1. 1 \in Int /\ last \in Int
      BY <1>1
    <3> QED
      BY <2>1, <3>1, SubSeqProperties
  <2>3. last - 1 + 1 = last /\ (1 <= last \/ last = 0) /\ \A i \in 1 .. last : 1 + i - 1 = i
    BY <1>1
  <2> QED
    BY <1>4, <2>2, <2>3
<1>6. b \in Seq(Codes) /\ Len(b) = B + 1 - m /\ \A i \in 1 .. B + 1 - m : b[i] = data[m + i]
  BY <1>1, <1>4, BufferTail
<1>7. chunk \in Seq(Codes)
  BY CodesAre, SeqMonotonic
<1>8. PICK x : x = a \o chunk
  OBVIOUS
<1>9. /\ x \in Seq(Codes) /\ Len(x) = m
      /\ \A i \in 1 .. m : x[i] = IF i <= last THEN a[i] ELSE chunk[i - last]
  <2>1. /\ a \o chunk \in Seq(Codes) /\ Len(a \o chunk) = Len(a) + Len(chunk)
        /\ \A i \in 1 .. Len(a) + Len(chunk) :
               (a \o chunk)[i] = IF i <= Len(a) THEN a[i] ELSE chunk[i - Len(a)]
    BY <1>5, <1>7, ConcatProperties
  <2> QED
    BY <1>3, <1>5, <1>8, <2>1
<1>10. d = x \o b
  <2>1. last + Len(chunk) + 1 = m + 1
    BY <1>3
  <2> QED
    BY <1>4, <1>8, <2>1 DEF Refilled
<1>11. /\ d \in Seq(Codes) /\ Len(d) = B + 1
       /\ \A i \in 1 .. B + 1 : d[i] = IF i <= m THEN x[i] ELSE b[i - m]
  <2>1. /\ x \o b \in Seq(Codes) /\ Len(x \o b) = Len(x) + Len(b)
        /\ \A i \in 1 .. Len(x) + Len(b) : (x \o b)[i] = IF i <= Len(x) THEN x[i] ELSE b[i - Len(x)]
    BY <1>6, <1>9, ConcatProperties
  <2>2. Len(x) + Len(b) = B + 1
    BY <1>1, <1>6, <1>9
  <2> QED
    BY <1>9, <1>10, <2>1, <2>2
<1>12. \A i \in 1 .. last : d[i] = data[i]
  <2>1. \A i \in 1 .. last : i \in 1 .. m /\ i \in 1 .. B + 1 /\ i <= m /\ i <= last
    BY <1>1, <1>3
  <2> QED
    BY <1>5, <1>9, <1>11, <2>1
<1>13. ASSUME NEW i \in 1 .. n
       PROVE  d[last + i] = chunk[i]
  <2>1. PICK j \in 1 .. B + 1 : j = last + i /\ j \in 1 .. m /\ j <= m /\ ~(j <= last) /\ j - last = i
    BY <1>1, <1>3
  <2> QED
    BY <1>9, <1>11, <2>1
<1>14. ASSUME NEW i \in m + 1 .. B + 1
       PROVE  d[i] # NL
  <2>1. i \in 1 .. B + 1 /\ ~(i <= m) /\ i - m \in 1 .. B + 1 - m /\ m + (i - m) = i
    BY <1>1, <1>3
  <2>2. d[i] = data[i]
    BY <1>6, <1>11, <2>1
  <2> QED
    BY <1>1, <2>1, <2>2
<1> QED
  BY <1>1, <1>3, <1>11, <1>12, <1>13, <1>14 DEF BufferOf

(* What a round begins with, the k-th or an earlier one.                    *)
Kept(b, file, U, k) ==
    /\ Left(b, file, U, b.at, <<>>) /\ b.at \in 0 .. Len(file)
    /\ b.done => b.at = Len(file) /\ b.last = 0
    /\ ~b.done => b.at >= k

(* The read of a round.                                                     *)
LEMMA ReadRightly ==
    ASSUME NEW file \in Seq(Letters), NEW data, BufferOf(data),
           \A i \in 1 .. BUFSIZE + 1 : data[i] # NL,
           NEW last \in 0 .. BUFSIZE - 1, NEW at \in 0 .. Len(file), last <= at,
           \A i \in 1 .. last : data[i] = file[(at - last) + i],
           NEW cnt, cnt = Min({BUFSIZE - last, Len(file) - at}),
           NEW d, d = Refilled(data, last, SubSeq(file, at + 1, at + cnt))
    PROVE  cnt \in Nat /\ ReadInto(d, file, at - last, last + cnt, cnt)
<1>1. PICK l \in Nat, B \in Nat : l = Len(file) /\ B = BUFSIZE /\ B > 1
  BY LenProperties, GrepAssumption
<1>2. PICK P : P = {B - last, l - at}
  OBVIOUS
<1>3. P \in SUBSET Nat /\ P # {}
  BY <1>1, <1>2
<1>4. PICK n : n = cnt
  OBVIOUS
<1>5. n = Min(P)
  BY <1>1, <1>2, <1>4
<1>6. n \in P /\ \A y \in P : n <= y
  BY <1>3, <1>5, MinIs
<1>7. n \in Nat /\ n <= B - last /\ n <= l - at /\ (n = B - last \/ n = l - at)
  BY <1>2, <1>3, <1>6
<1>8. PICK p \in Int, q \in Int : p = at + 1 /\ q = at + n
  BY <1>1, <1>7
<1>9. PICK c : c = SubSeq(file, p, q)
  OBVIOUS
<1>10. c \in Seq(Letters) /\ Len(c) = n /\ \A i \in 1 .. n : c[i] = file[at + i]
  <2>1. \A i \in p .. q : file[i] \in Letters
    <3>1. \A i \in p .. q : i \in 1 .. Len(file)
      BY <1>1, <1>7, <1>8
    <3> QED
      BY <3>1, ElementOfSeq
  <2>2. /\ c \in Seq(Letters) /\ Len(c) = IF p <= q THEN q - p + 1 ELSE 0
        /\ \A i \in 1 .. q - p + 1 : c[i] = file[p + i - 1]
    BY <1>9, <2>1, SubSeqProperties
  <2>3. q - p + 1 = n /\ (p <= q \/ n = 0) /\ \A i \in 1 .. n : p + i - 1 = at + i
    BY <1>1, <1>7, <1>8
  <2> QED
    BY <2>2, <2>3
<1>11. PICK e : e = d
  OBVIOUS
<1>12. e = Refilled(data, last, c)
  BY <1>4, <1>8, <1>9, <1>11
<1>13. /\ BufferOf(e)
       /\ \A i \in 1 .. last : e[i] = data[i]
       /\ \A i \in 1 .. n : e[last + i] = c[i]
       /\ \A i \in last + n + 1 .. BUFSIZE + 1 : e[i] # NL
  <2>1. last \in 0 .. BUFSIZE /\ last + n <= BUFSIZE
    BY <1>1, <1>7
  <2> QED
    BY <1>7, <1>10, <1>12, <2>1, RefilledIs
<1>14. PICK base \in Nat, L \in Nat : base = at - last /\ L = last + n
  BY <1>1, <1>7
<1>15. ASSUME NEW i \in 1 .. L
       PROVE  e[i] = file[base + i]
  <2>1. CASE i <= last
    <3>1. i \in 1 .. last
      BY <2>1
    <3> QED
      BY <1>13, <1>14, <3>1
  <2>2. CASE ~(i <= last)
    <3>1. PICK j \in 1 .. n : j = i - last /\ last + j = i /\ at + j = base + i
      BY <1>1, <1>7, <1>14, <2>2
    <3> QED
      BY <1>10, <1>13, <3>1
  <2> QED
    BY <2>1, <2>2
<1>16. L \in 0 .. B /\ base + L <= l /\ (L = B \/ base + L = l) /\ (n = 0 => base + L = l)
  BY <1>1, <1>7, <1>14
<1>17. ReadInto(e, file, base, L, n)
  BY <1>1, <1>13, <1>14, <1>15, <1>16 DEF ReadInto, InBuffer
<1> QED
  BY <1>4, <1>7, <1>11, <1>14, <1>17

(* A round, given what its search does, leaves what the next begins with.   *)
LEMMA RoundKeeps ==
    ASSUME NEW file \in Seq(Letters), NEW pat \in Seq(Letters), pat # <<>>,
           NEW U, Matched(U, file, pat, Len(file)), LinesFit(file),
           NEW k \in Nat, NEW b, Kept(b, file, U, k), ~b.done
    PROVE  Kept(Round(CString(pat), file, b), file, U, k + 1)
<1>1. PICK l \in Nat, B \in Nat : l = Len(file) /\ B = BUFSIZE /\ B > 1
  BY LenProperties, GrepAssumption
<1>20. PICK data, out : data = b.data /\ out = b.out
  OBVIOUS
<1>2. PICK at \in 0 .. l, last \in 0 .. B - 1 :
          at = b.at /\ last = b.last /\ data = b.data /\ out = b.out
  BY <1>1, <1>20 DEF Kept, Left
<1>3. /\ BufferOf(data) /\ (\A i \in 1 .. BUFSIZE + 1 : data[i] # NL)
      /\ last <= at /\ (\A i \in 1 .. last : data[i] = file[(at - last) + i])
      /\ Edge(file, at - last) /\ out \in Seq(Seq(Letters))
      /\ <<>> \o out = U[at - last] /\ at >= k
  BY <1>2 DEF Kept, Left
<1>4. PICK base \in Nat : base = at - last /\ base <= l
  BY <1>1, <1>3
<1>5. PICK cnt : cnt = Min({BUFSIZE - last, Len(file) - at})
  OBVIOUS
<1>6. PICK d : d = Refilled(data, last, SubSeq(file, at + 1, at + cnt))
  OBVIOUS
<1>7. cnt \in Nat /\ ReadInto(d, file, base, last + cnt, cnt)
  <2>1. last \in 0 .. BUFSIZE - 1 /\ at \in 0 .. Len(file)
    BY <1>1
  <2> QED
    BY <1>3, <1>4, <1>5, <1>6, <2>1, ReadRightly
<1>8. PICK L \in Nat : L = last + cnt
  BY <1>1, <1>7
<1>9. ReadInto(d, file, base, L, cnt) /\ Edge(file, base)
  BY <1>3, <1>4, <1>7, <1>8
<1>10. PICK r : r = Search(CString(pat), d, L, cnt)
  OBVIOUS
<1>11. PICK end \in 0 .. l : end = at + cnt /\ end = base + L /\ (cnt = 0 => end = l)
  BY <1>1, <1>3, <1>4, <1>7, <1>8 DEF ReadInto, InBuffer
<1>12. Searched(r, file, U, end, base, cnt)
  BY <1>9, <1>10, <1>11, SearchRightly
<1>13. PICK n : n = Round(CString(pat), file, b)
  OBVIOUS
<1>14. /\ n.data = r.data /\ n.last = r.last /\ n.at = end /\ n.out = out \o r.out
       /\ n.done <=> cnt = 0
  BY <1>2, <1>5, <1>6, <1>8, <1>10, <1>11, <1>13 DEF Round
<1>15. Left(r, file, U, end, U[base]) /\ (cnt = 0 => r.last = 0)
  BY <1>12 DEF Searched
<1>16. n.out \in Seq(Seq(Letters)) /\ <<>> \o n.out = U[end - n.last]
  <2>1. PICK S : S = Seq(Letters)
    OBVIOUS
  <2>2. PICK o \in Seq(S), t \in Seq(S) : o = out /\ t = r.out
    BY <1>3, <1>15, <2>1 DEF Left
  <2>3. o = U[base]
    BY <1>3, <1>4, <2>2, ConcatEmptySeq
  <2>4. o \o t = U[end - n.last]
    BY <1>14, <1>15, <2>2, <2>3 DEF Left
  <2>5. o \o t \in Seq(S) /\ <<>> \o (o \o t) = o \o t
    <3>1. o \o t \in Seq(S)
      BY ConcatProperties
    <3> QED
      BY <3>1, ConcatEmptySeq
  <2> QED
    BY <1>14, <2>1, <2>2, <2>4, <2>5
<1>17. Left(n, file, U, end, <<>>)
  BY <1>14, <1>15, <1>16 DEF Left
<1>18. cnt # 0 => end >= k + 1
  BY <1>3, <1>7, <1>11
<1> QED
  BY <1>1, <1>11, <1>13, <1>14, <1>15, <1>17, <1>18 DEF Kept

(* The buffer before the first round.                                       *)
Begun(junk) == [data |-> [i \in 1 .. BUFSIZE + 1 |-> junk], last |-> 0, at |-> 0,
                out |-> <<>>, done |-> FALSE]

(* The rounds of the outer loop, up to the n-th.                            *)
AfterRound(f, s, file, junk, k) ==
    IF k = 0 THEN Begun(junk)
    ELSE IF f[k - 1].done THEN f[k - 1] ELSE Round(s, file, f[k - 1])

Rounds(f, s, file, junk, n) == f = [k \in 0 .. n |-> AfterRound(f, s, file, junk, k)]

(* The recursion over the rounds defines a function.                        *)
LEMMA RoundsExist ==
    ASSUME NEW s, NEW file, NEW junk, NEW n \in Nat
    PROVE  \E f : Rounds(f, s, file, junk, n)
<1> DEFINE E(i) == \E f : Rounds(f, s, file, junk, i)
<1>1. PICK T : T = {i \in 0 .. n : E(i)}
  OBVIOUS
<1>2. 0 \in T
  <2>1. PICK f : f = [k \in 0 .. 0 |-> Begun(junk)]
    OBVIOUS
  <2>2. \A k \in 0 .. 0 : AfterRound(f, s, file, junk, k) = Begun(junk)
    BY DEF AfterRound
  <2>3. Rounds(f, s, file, junk, 0)
    BY <2>1, <2>2 DEF Rounds
  <2> QED
    BY <1>1, <2>3
<1>3. ASSUME NEW i \in 1 .. n, i - 1 \in T
      PROVE  i \in T
  <2>1. PICK f : Rounds(f, s, file, junk, i - 1)
    BY <1>1, <1>3
  <2>2. PICK x : x = AfterRound(f, s, file, junk, i)
    OBVIOUS
  <2>3. PICK g : g = [m \in 0 .. i |-> IF m = i THEN x ELSE f[m]]
    OBVIOUS
  <2>4. ASSUME NEW m \in 0 .. i
        PROVE  g[m] = AfterRound(g, s, file, junk, m)
    <3>1. m # 0 => g[m - 1] = f[m - 1]
      BY <2>3
    <3>2. AfterRound(g, s, file, junk, m) = AfterRound(f, s, file, junk, m)
      BY <3>1 DEF AfterRound
    <3>3. CASE m = i
      BY <2>2, <2>3, <3>2, <3>3
    <3>4. CASE m # i
      <4>1. m \in 0 .. i - 1
        BY <3>4
      <4>2. f[m] = AfterRound(f, s, file, junk, m)
        BY <2>1, <4>1 DEF Rounds
      <4> QED
        BY <2>3, <3>2, <3>4, <4>2
    <3> QED
      BY <3>3, <3>4
  <2>5. g = [m \in 0 .. i |-> AfterRound(g, s, file, junk, m)]
    BY <2>3, <2>4
  <2>6. Rounds(g, s, file, junk, i)
    BY <2>5 DEF Rounds
  <2> QED
    BY <1>1, <2>6
<1>4. 0 .. n \subseteq T
  <2> HIDE DEF E
  <2> QED
    BY <1>2, <1>3, UpTo
<1>5. n \in T
  BY <1>4
<1> QED
  BY <1>1, <1>5

(* It is the one behind do_one_file.                                        *)
LEMMA OneFileIs ==
    ASSUME NEW s, NEW file \in Seq(Letters), NEW junk
    PROVE  \E f : Rounds(f, s, file, junk, Len(file) + 1)
                  /\ do_one_file(s, file, junk) = f[Len(file) + 1].out
<1>0. PICK n \in Nat : n = Len(file) + 1
  BY LenProperties
<1> DEFINE F(f) == [k \in 0 .. n |->
                      IF k = 0 THEN [data |-> [i \in 1 .. BUFSIZE + 1 |-> junk], last |-> 0,
                                     at |-> 0, out |-> <<>>, done |-> FALSE]
                      ELSE IF f[k - 1].done THEN f[k - 1] ELSE Round(s, file, f[k - 1])]
<1>1. do_one_file(s, file, junk) = (CHOOSE f : f = F(f))[n].out
  BY <1>0 DEF do_one_file
<1>2. PICK h : h = CHOOSE f : f = F(f)
  OBVIOUS
<1>3. \A f : f = F(f) <=> Rounds(f, s, file, junk, n)
  BY DEF Rounds, AfterRound, Begun
<1>4. h = F(h)
  <2>1. PICK g : Rounds(g, s, file, junk, n)
    BY RoundsExist
  <2>2. g = F(g)
    BY <1>3, <2>1
  <2> HIDE DEF F
  <2> QED
    BY <1>2, <2>2
<1>5. Rounds(h, s, file, junk, n)
  BY <1>3, <1>4
<1> HIDE DEF F
<1> QED
  BY <1>0, <1>1, <1>2, <1>5

(* The buffer of the stack's bytes.                                         *)
LEMMA BegunKept ==
    ASSUME NEW file \in Seq(Letters), NEW pat, NEW U, Matched(U, file, pat, Len(file)),
           NEW junk \in Codes, junk # NL
    PROVE  Kept(Begun(junk), file, U, 0)
<1>1. PICK l \in Nat, B \in Nat : l = Len(file) /\ B = BUFSIZE /\ B > 1
  BY LenProperties, GrepAssumption
<1>2. PICK n \in Nat : n = B + 1
  OBVIOUS
<1>3. PICK d : d = [i \in 1 .. n |-> junk]
  OBVIOUS
<1>4. d \in [1 .. n -> Codes]
  BY <1>3, Zenon
<1>5. d \in Seq(Codes) /\ Len(d) = n
  BY <1>4, FunctionSeq
<1>6. \A i \in 1 .. n : d[i] # NL
  BY <1>3
<1>7. PICK b : b = Begun(junk)
  OBVIOUS
<1>8. b.data = d /\ b.last = 0 /\ b.at = 0 /\ b.out = <<>> /\ ~b.done
  BY <1>1, <1>2, <1>3, <1>7 DEF Begun
<1>9. BufferOf(d) /\ \A i \in 1 .. BUFSIZE + 1 : d[i] # NL
  BY <1>1, <1>2, <1>5, <1>6 DEF BufferOf
<1>10. b.out \in Seq(Seq(Letters)) /\ <<>> \o b.out = U[0]
  <2>1. PICK S : S = Seq(Letters)
    OBVIOUS
  <2>2. PICK e \in Seq(S) : e = <<>>
    BY EmptySeq
  <2>3. e \o e = e
    BY <2>2, ConcatEmptySeq
  <2>4. U[0] = e
    BY <2>2, MatchedAre
  <2> QED
    BY <1>8, <2>1, <2>2, <2>3, <2>4
<1>11. Edge(file, 0)
  BY DEF Edge
<1>12. 0 - 0 = 0 /\ 0 \in 0 .. BUFSIZE - 1 /\ 1 .. 0 = {} /\ 0 \in 0 .. l
  BY <1>1
<1>13. Left(b, file, U, b.at, <<>>)
  BY <1>8, <1>9, <1>10, <1>11, <1>12 DEF Left
<1> QED
  BY <1>1, <1>7, <1>8, <1>12, <1>13 DEF Kept

(* The whole search prints the lines that hold the pattern.                 *)
LEMMA SearchesRight ==
    ASSUME NEW file \in Seq(Letters), NEW pat \in Seq(Letters), pat # <<>>, LinesFit(file),
           NEW junk \in Codes, junk # NL
    PROVE  do_one_file(CString(pat), file, junk) = MatchingLines(file, pat)
<1>1. PICK l \in Nat : l = Len(file)
  BY LenProperties
<1>2. PICK U : Matched(U, file, pat, Len(file)) /\ MatchingLines(file, pat) = U[Len(file)]
  BY MatchingIs
<1>3. PICK s : s = CString(pat)
  OBVIOUS
<1>4. PICK f : Rounds(f, s, file, junk, Len(file) + 1)
               /\ do_one_file(s, file, junk) = f[Len(file) + 1].out
  BY OneFileIs
<1>5. PICK n \in Nat : n = Len(file) + 1
  BY <1>1
<1>6. \A k \in 0 .. n : f[k] = AfterRound(f, s, file, junk, k)
  BY <1>4, <1>5 DEF Rounds
<1>7. PICK T : T = {k \in 0 .. n : Kept(f[k], file, U, k)}
  OBVIOUS
<1>8. 0 \in T
  <2>1. f[0] = Begun(junk)
    BY <1>6 DEF AfterRound
  <2> QED
    BY <1>2, <1>7, <2>1, BegunKept
<1>9. ASSUME NEW k \in 1 .. n, k - 1 \in T
      PROVE  k \in T
  <2>1. PICK j \in Nat : j = k - 1 /\ j + 1 = k
    OBVIOUS
  <2>2. PICK b : b = f[j]
    OBVIOUS
  <2>3. Kept(b, file, U, j)
    BY <1>7, <1>9, <2>1, <2>2
  <2>4. f[k] = IF b.done THEN b ELSE Round(s, file, b)
    BY <1>6, <2>1, <2>2 DEF AfterRound
  <2>5. CASE b.done
    BY <1>7, <2>3, <2>4, <2>5 DEF Kept
  <2>6. CASE ~b.done
    <3>1. Kept(Round(CString(pat), file, b), file, U, j + 1)
      BY <1>2, <2>3, <2>6, RoundKeeps
    <3> QED
      BY <1>3, <1>7, <2>1, <2>4, <2>6, <3>1
  <2> QED
    BY <2>5, <2>6
<1>10. n \in T
  <2>1. 0 .. n \subseteq T
    BY <1>8, <1>9, UpTo
  <2> QED
    BY <2>1
<1>11. PICK b : b = f[n]
  OBVIOUS
<1>12. Kept(b, file, U, n)
  BY <1>7, <1>10, <1>11
<1>13. b.done /\ b.at = l /\ b.last = 0
  BY <1>1, <1>5, <1>12 DEF Kept
<1>14. b.out = U[l]
  <2>1. PICK S : S = Seq(Letters)
    OBVIOUS
  <2>2. PICK o \in Seq(S) : o = b.out /\ <<>> \o o = U[b.at - b.last]
    BY <1>12, <2>1 DEF Kept, Left
  <2>3. b.at - b.last = l
    BY <1>13
  <2> QED
    BY <2>2, <2>3, ConcatEmptySeq
<1> QED
  BY <1>1, <1>2, <1>3, <1>4, <1>5, <1>11, <1>14

(* grep is right.                                                           *)
LEMMA FileSearchedStep ==
    ASSUME FileSearched
    PROVE  SearchRight' /\ call'.fn = "grep"
<1>1. PICK s \in Patterns, file \in Files, junk \in DOMAIN Ascii :
          call' = [fn |-> "grep", s |-> s, file |-> file, junk |-> junk,
                   result |-> do_one_file(CString(s), file, junk)]
  BY DEF FileSearched, Returns
<1>2. PICK r : r = do_one_file(CString(s), file, junk)
  OBVIOUS
<1>3. ASSUME junk # NL, LinesFit(file)
      PROVE  r = MatchingLines(file, s)
  <2>1. file \in Seq(Letters) /\ s \in Seq(Letters) /\ s # <<>>
    <3>1. PICK L : L = Letters
      OBVIOUS
    <3>2. PICK M : M = Letters \ {NL}
      OBVIOUS
    <3>3. M \subseteq L
      BY <3>1, <3>2
    <3>4. file \in Seq(L) /\ s \in Seq(M) \ {<<>>}
      BY <3>1, <3>2, LibraryAssumption
    <3>5. s \in Seq(L)
      BY <3>3, <3>4, SeqMonotonic
    <3> QED
      BY <3>1, <3>4, <3>5
  <2>2. junk \in Codes
    BY DEF Codes
  <2> QED
    BY <1>2, <1>3, <2>1, <2>2, SearchesRight
<1> QED
  BY <1>1, <1>2, <1>3 DEF SearchRight, LinesFit

-----------------------------------------------------------------------------
(***************************************************************************)
(* All calls.                                                              *)
(***************************************************************************)
(* A call is held to what its own function is meant to do, and to no other. *)
LEMMA OtherCalls ==
    /\ call'.fn \in {"none", "compare", "strrev", "itoa", "printf", "grep"} => BlocksRight'
    /\ call'.fn \in {"none", "memset", "memset_word", "memset_dword", "memcpy", "memmove",
                     "itoa", "printf", "grep"} => StringsRight'
    /\ call'.fn \in {"none", "memset", "memset_word", "memset_dword", "memcpy", "memmove",
                     "compare", "strrev", "grep"} => NumbersRight'
    /\ call'.fn \in {"none", "memset", "memset_word", "memset_dword", "memcpy", "memmove",
                     "compare", "strrev", "itoa", "printf"} => SearchRight'
BY DEF BlocksRight, StringsRight, NumbersRight, SearchRight

(* memset_word is right.                                                    *)
LEMMA MemsetWordStep ==
    ASSUME MemsetWord
    PROVE  BlocksRight' /\ call'.fn = "memset_word"
<1>1. PICK b \in Blocks(2), c \in Fillers :
          Set("memset_word", 2, b, c, memset_word(Fresh, df, b[1], c, b[2]))
  BY DEF MemsetWord
<1>2. PICK r : r = memset_word(Fresh, df, b[1], c, b[2])
  OBVIOUS
<1>3. r.mem = rep_stos(Fresh, b[1], b[2], 2, Bytes(c, 2), Up)
  BY <1>2 DEF memset_word
<1> QED
  BY <1>1, <1>2, <1>3, MemsetUnitsStep

(* memset_dword is right.                                                   *)
LEMMA MemsetDwordStep ==
    ASSUME MemsetDword
    PROVE  BlocksRight' /\ call'.fn = "memset_dword"
<1>1. PICK b \in Blocks(4), c \in Fillers :
          Set("memset_dword", 4, b, c, memset_dword(Fresh, df, b[1], c, b[2]))
  BY DEF MemsetDword
<1>2. PICK r : r = memset_dword(Fresh, df, b[1], c, b[2])
  OBVIOUS
<1>3. r.mem = rep_stos(Fresh, b[1], b[2], 4, Bytes(c, 4), Up)
  BY <1>2 DEF memset_dword
<1> QED
  BY <1>1, <1>2, <1>3, MemsetUnitsStep

(* Before the first call there is nothing to be right.                      *)
LEMMA CallsInit == LibraryInit => CallsAgree
BY DEF LibraryInit, NoCall, CallsAgree, BlocksRight, StringsRight, NumbersRight, SearchRight

(* Each call keeps the invariant.                                           *)
LEMMA CallsStep ==
    ASSUME CallsAgree, [LibraryNext]_libraryVars
    PROVE  CallsAgree'
<1>1. CASE Memset
  BY <1>1, MemsetStep, OtherCalls DEF CallsAgree
<1>2. CASE MemsetWord
  BY <1>2, MemsetWordStep, OtherCalls DEF CallsAgree
<1>3. CASE MemsetDword
  BY <1>3, MemsetDwordStep, OtherCalls DEF CallsAgree
<1>4. CASE Memcpy
  BY <1>4, MemcpyStep, OtherCalls DEF CallsAgree
<1>5. CASE Memmove
  BY <1>5, MemmoveStep, OtherCalls DEF CallsAgree
<1>6. CASE Compare
  BY <1>6, CompareStep, OtherCalls DEF CallsAgree
<1>7. CASE StringReversed
  BY <1>7, StringReversedStep, OtherCalls DEF CallsAgree
<1>8. CASE Number
  BY <1>8, NumberStep, OtherCalls DEF CallsAgree
<1>9. CASE Format
  BY <1>9, FormatStep, OtherCalls DEF CallsAgree
<1>10. CASE FileSearched
  BY <1>10, FileSearchedStep, OtherCalls DEF CallsAgree
<1>11. CASE Resume
  <2>1. call'.fn = "none"
    BY <1>11 DEF Resume, Returns, NoCall
  <2> QED
    BY <2>1, OtherCalls DEF CallsAgree
<1>12. CASE UNCHANGED libraryVars
  BY <1>12 DEF libraryVars, CallsAgree, BlocksRight, StringsRight, NumbersRight, SearchRight
<1> QED
  BY <1>1, <1>2, <1>3, <1>4, <1>5, <1>6, <1>7, <1>8, <1>9, <1>10, <1>11, <1>12 DEF LibraryNext

(* Every call of the library does what its callers expect of it, whatever   *)
(* was called before and whatever the direction flag holds.                 *)
THEOREM CallsRight == LibrarySpec => []CallsAgree
BY CallsInit, CallsStep, PTL DEF LibrarySpec

=============================================================================
