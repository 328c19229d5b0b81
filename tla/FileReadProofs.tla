--------------------------- MODULE FileReadProofs ---------------------------
(***************************************************************************)
(* Proofs about FileRead: for every block size, file and sequence of       *)
(* reads, read_data copies the bytes of the file from the descriptor's     *)
(* position on, and the reads together return the file in order.           *)
(***************************************************************************)
EXTENDS FileRead, TLAPS

USE ConstantsAssumption

-----------------------------------------------------------------------------
(* Arithmetic of blocks.                                                    *)

(* k is split into a block and a place in it.                               *)
LEMMA Split ==
    ASSUME NEW k \in Nat
    PROVE  /\ k \div BLOCK_SIZE \in Nat
           /\ k % BLOCK_SIZE \in 0 .. BLOCK_SIZE - 1
           /\ k = (k \div BLOCK_SIZE) * BLOCK_SIZE + (k % BLOCK_SIZE)
BY Z3

(* The split is unique, so it finds the byte.                               *)
LEMMA ByteAt ==
    ASSUME NEW q \in Nat, NEW r \in 0 .. BLOCK_SIZE - 1
    PROVE  Byte(q * BLOCK_SIZE + r) = Block[q] * BLOCK_SIZE + r
<1>1. (q * BLOCK_SIZE + r) \div BLOCK_SIZE = q /\ (q * BLOCK_SIZE + r) % BLOCK_SIZE = r
  BY Z3
<1>2. QED
  BY <1>1 DEF Byte

(* A byte before the end of block n lies in a block up to n.                *)
LEMMA BlockBelow ==
    ASSUME NEW q \in Nat, NEW n \in Nat, q * BLOCK_SIZE < n * BLOCK_SIZE
    PROVE  q < n
BY Z3

(* Products, one at a time.                                                 *)
LEMMA Times ==
    ASSUME NEW m \in Nat, NEW n \in Nat
    PROVE  m * n \in Nat /\ (m + 1) * n = m * n + n /\ m * n = n * m
BY Z3

(* Two-word sums do not wrap: the clip is the one of unbounded integers.    *)
LEMMA ClipIsMin ==
    ASSUME NEW n \in 0 .. MaxRequest, file_pos \in 0 .. length_in_bytes
    PROVE  Clipped(n) = IF file_pos + n < length_in_bytes
                        THEN n ELSE length_in_bytes - file_pos
<1>1. length_in_bytes \in Nat /\ file_pos \in Nat /\ n \in Nat
  OBVIOUS
<1>2. /\ n + file_pos \in 0 .. WORD - 1
      /\ length_in_bytes - file_pos \in 0 .. WORD - 1
  BY <1>1
<1>3. \A m \in 0 .. WORD - 1 : m % WORD = m
  BY Z3
<1>4. /\ (n + file_pos) % WORD = file_pos + n
      /\ (length_in_bytes - file_pos) % WORD = length_in_bytes - file_pos
  <2> HIDE ConstantsAssumption
  <2>1. (n + file_pos) % WORD = n + file_pos
    BY <1>2, <1>3
  <2>2. (length_in_bytes - file_pos) % WORD = length_in_bytes - file_pos
    BY <1>2, <1>3
  <2>3. QED
    BY <1>1, <2>1, <2>2
<1>5. CASE file_pos + n < length_in_bytes
  <2> HIDE ConstantsAssumption
  <2>1. ~((n + file_pos) % WORD >= length_in_bytes)
    BY <1>1, <1>4, <1>5
  <2>2. QED
    BY <1>5, <2>1 DEF Clipped
<1>6. CASE ~(file_pos + n < length_in_bytes)
  <2> HIDE ConstantsAssumption
  <2>1. (n + file_pos) % WORD >= length_in_bytes
    BY <1>1, <1>4, <1>6
  <2>2. QED
    BY <1>4, <1>6, <2>1 DEF Clipped
<1>7. QED
  BY <1>5, <1>6

-----------------------------------------------------------------------------
(* The inductive invariant: the loop's pointer, counter and address agree   *)
(* on the place file_pos + i of the file.                                   *)
Wanted == IF file_pos + nbytes < length_in_bytes
          THEN nbytes ELSE length_in_bytes - file_pos

InPlace ==
    /\ length = Wanted /\ i <= length
    /\ file_pos + i + block_size_counter = (data_block_ptr + 1) * BLOCK_SIZE
    /\ block_size_counter # 0 =>
          block_addr = Block[data_block_ptr] * BLOCK_SIZE
                       + (BLOCK_SIZE - block_size_counter)

ReadInv ==
    /\ TypeOK
    /\ pc = "idle" => i = 0
    /\ pc = "loop" => InPlace
    /\ \A k \in 0 .. i - 1 : buf[k] = Byte(file_pos + k)
    /\ stream = [k \in 0 .. file_pos - 1 |-> Byte(k)]

LEMMA InitInv == Init => ReadInv
BY DEF Init, ReadInv, TypeOK, Empty

LEMMA CallInv ==
    ASSUME ReadInv, NEW n \in 0 .. MaxRequest, Call(n)
    PROVE  ReadInv'
<1> USE DEF ReadInv, TypeOK
<1>1. file_pos \in Nat /\ length_in_bytes \in Nat /\ n \in Nat
  OBVIOUS
<1> DEFINE q == file_pos \div BLOCK_SIZE
           r == file_pos % BLOCK_SIZE
<1>2. q \in Nat /\ r \in 0 .. BLOCK_SIZE - 1 /\ file_pos = q * BLOCK_SIZE + r
  BY <1>1, Split
<1> HIDE DEF q, r
<1>3. q <= INODE_BLOCKS
  <2>1. q * BLOCK_SIZE < (INODE_BLOCKS + 1) * BLOCK_SIZE
    <3>1. q * BLOCK_SIZE \in Nat
      BY <1>2, Times
    <3>2. INODE_BLOCKS * BLOCK_SIZE \in Nat
          /\ (INODE_BLOCKS + 1) * BLOCK_SIZE = INODE_BLOCKS * BLOCK_SIZE + BLOCK_SIZE
          /\ BLOCK_SIZE * INODE_BLOCKS = INODE_BLOCKS * BLOCK_SIZE
      BY Times
    <3>3. file_pos <= INODE_BLOCKS * BLOCK_SIZE
      BY <1>1, <3>2
    <3>4. q * BLOCK_SIZE <= file_pos
      BY <1>1, <1>2, <3>1
    <3>5. INODE_BLOCKS * BLOCK_SIZE < (INODE_BLOCKS + 1) * BLOCK_SIZE
      BY <3>2
    <3>6. \A x, y, z, w \in Int : x <= y /\ y <= z /\ z < w => x < w
      OBVIOUS
    <3>7. (INODE_BLOCKS + 1) * BLOCK_SIZE \in Int
      BY <3>2
    <3>8. QED
      BY <1>1, <3>1, <3>2, <3>3, <3>4, <3>5, <3>6, <3>7
  <2>2. QED
    BY <2>1, <1>2, BlockBelow
<1>4. /\ pc' = "loop" /\ nbytes' = n /\ i' = 0 /\ buf' = Empty
      /\ length' = Clipped(n)
      /\ data_block_ptr' = q
      /\ block_size_counter' = BLOCK_SIZE - r
      /\ block_addr' = Block[q] * BLOCK_SIZE + r
      /\ file_pos' = file_pos /\ stream' = stream
  BY DEF Call, q, r
<1>5. length' = Wanted' /\ length' \in Nat
  BY <1>1, <1>4, ClipIsMin DEF Wanted
<1>6. InPlace'
  <2>1. (file_pos + i + block_size_counter = (data_block_ptr + 1) * BLOCK_SIZE)'
    BY <1>1, <1>2, <1>4, Z3
  <2>2. QED
    BY <1>2, <1>4, <1>5, <2>1 DEF InPlace
<1>7. block_addr' \in Nat
  <2>1. Block[q] \in Nat
    BY <1>2, <1>3
  <2>2. QED
    BY <1>2, <1>4, <2>1, Z3
<1>8. buf' \in [0 .. i' - 1 -> Nat] /\ \A k \in 0 .. i' - 1 : buf'[k] = Byte(file_pos' + k)
  BY <1>4 DEF Empty
<1>9. TypeOK'
  <2>1. (block_size_counter \in 0 .. BLOCK_SIZE)'
    BY <1>2, <1>4
  <2>2. (data_block_ptr \in 0 .. INODE_BLOCKS)'
    BY <1>2, <1>3, <1>4
  <2>3. (stream \in [0 .. file_pos - 1 -> Nat])'
    BY <1>4
  <2>4. (/\ pc \in {"idle", "loop"} /\ file_pos \in 0 .. length_in_bytes
         /\ nbytes \in 0 .. MaxRequest /\ i \in Nat)'
    BY <1>4
  <2>5. QED
    BY <1>5, <1>7, <1>8, <2>1, <2>2, <2>3, <2>4
<1>10. QED
  BY <1>4, <1>6, <1>8, <1>9

LEMMA IterateInv ==
    ASSUME ReadInv, Iterate
    PROVE  ReadInv'
<1> USE DEF ReadInv, TypeOK
<1> DEFINE p == Source.ptr
           a == Source.addr
           c == Source.left
<1>1. /\ pc = "loop" /\ i < length /\ InPlace
      /\ data_block_ptr' = p /\ buf' = Push(buf, i, a)
      /\ block_size_counter' = c - 1 /\ block_addr' = a + 1
      /\ i' = i + 1 /\ UNCHANGED <<pc, file_pos, nbytes, length, stream>>
  BY DEF Iterate
<1>2. file_pos + i < length_in_bytes /\ file_pos \in Nat /\ file_pos + i \in Nat
  BY <1>1 DEF InPlace, Wanted
<1>3. /\ p \in Nat /\ c \in 1 .. BLOCK_SIZE
      /\ file_pos + i + c = (p + 1) * BLOCK_SIZE
      /\ a = Block[p] * BLOCK_SIZE + (BLOCK_SIZE - c)
  <2>1. CASE block_size_counter = 0
    <3>1. p = data_block_ptr + 1 /\ c = BLOCK_SIZE /\ a = Block[p] * BLOCK_SIZE
      BY <2>1 DEF Source
    <3>2. file_pos + i = (data_block_ptr + 1) * BLOCK_SIZE
      BY <1>1, <1>2, <2>1 DEF InPlace
    <3>3. p * BLOCK_SIZE + BLOCK_SIZE = (p + 1) * BLOCK_SIZE
      BY <3>1, Times
    <3>4. Block[p] * BLOCK_SIZE \in Nat
      <4>1. p * BLOCK_SIZE < INODE_BLOCKS * BLOCK_SIZE
        <5>1. file_pos + i = p * BLOCK_SIZE
          BY <3>1, <3>2
        <5>2. BLOCK_SIZE * INODE_BLOCKS = INODE_BLOCKS * BLOCK_SIZE
              /\ INODE_BLOCKS * BLOCK_SIZE \in Nat
          BY Times
        <5>3. length_in_bytes <= INODE_BLOCKS * BLOCK_SIZE
          BY <5>2
        <5>4. file_pos + i < INODE_BLOCKS * BLOCK_SIZE
          BY <1>2, <5>2, <5>3
        <5>5. QED
          BY <5>1, <5>4
      <4>2. Block[p] \in Nat
        BY <3>1, <4>1, BlockBelow
      <4>3. QED
        BY <4>2, Times
    <3>5. p \in Nat /\ c \in 1 .. BLOCK_SIZE
      BY <3>1
    <3>6. file_pos + i + c = (p + 1) * BLOCK_SIZE
      BY <3>1, <3>2, <3>3
    <3>7. a = Block[p] * BLOCK_SIZE + (BLOCK_SIZE - c)
      BY <3>1, <3>4
    <3>8. QED
      BY <3>5, <3>6, <3>7
  <2>2. CASE block_size_counter # 0
    BY <1>1, <2>2 DEF Source, InPlace
  <2>3. QED
    BY <2>1, <2>2
<1> HIDE DEF p, a, c
<1>4. file_pos + i = p * BLOCK_SIZE + (BLOCK_SIZE - c)
  <2>1. (p + 1) * BLOCK_SIZE = p * BLOCK_SIZE + BLOCK_SIZE
    BY <1>3, Z3
  <2>2. p * BLOCK_SIZE \in Nat
    BY <1>3, Z3
  <2>3. QED
    BY <1>2, <1>3, <2>1, <2>2
<1>5. p < INODE_BLOCKS
  <2>1. p * BLOCK_SIZE \in Nat /\ BLOCK_SIZE * INODE_BLOCKS = INODE_BLOCKS * BLOCK_SIZE
        /\ BLOCK_SIZE * INODE_BLOCKS \in Nat
    BY <1>3, Z3
  <2>2. p * BLOCK_SIZE < INODE_BLOCKS * BLOCK_SIZE
    <3>1. p * BLOCK_SIZE <= file_pos + i
      BY <1>3, <1>4, <2>1
    <3>2. length_in_bytes <= INODE_BLOCKS * BLOCK_SIZE
      BY <2>1
    <3>3. INODE_BLOCKS * BLOCK_SIZE \in Nat /\ length_in_bytes \in Nat
      BY <2>1
    <3>4. QED
      BY <1>2, <2>1, <3>1, <3>2, <3>3
  <2>3. QED
    BY <1>3, <2>2, BlockBelow
<1>6. a = Byte(file_pos + i)
  <2>1. BLOCK_SIZE - c \in 0 .. BLOCK_SIZE - 1
    BY <1>3
  <2>2. QED
    BY <1>3, <1>4, <2>1, ByteAt
<1>7. a \in Nat
  <2>1. Block[p] \in Nat
    BY <1>3, <1>5
  <2>2. QED
    BY <1>3, <2>1, Z3
<1>8. /\ buf' \in [0 .. i' - 1 -> Nat]
      /\ \A k \in 0 .. i' - 1 : buf'[k] = Byte(file_pos' + k)
  <2>1. buf' = [k \in 0 .. i |-> IF k = i THEN a ELSE buf[k]] /\ i' - 1 = i
    BY <1>1 DEF Push
  <2>2. \A k \in 0 .. i : k # i => k \in 0 .. i - 1
    OBVIOUS
  <2>3. \A k \in 0 .. i : (IF k = i THEN a ELSE buf[k]) \in Nat
    BY <1>7, <2>2
  <2>4. \A k \in 0 .. i : (IF k = i THEN a ELSE buf[k]) = Byte(file_pos + k)
    BY <1>6, <2>2
  <2>5. QED
    BY <1>1, <2>1, <2>3, <2>4
<1>9. InPlace'
  <2>1. length' = Wanted' /\ i' <= length'
    BY <1>1 DEF InPlace, Wanted
  <2>2. (file_pos + i + block_size_counter = (data_block_ptr + 1) * BLOCK_SIZE)'
    <3>1. (p + 1) * BLOCK_SIZE \in Nat
      BY <1>3, Z3
    <3>2. QED
      BY <1>1, <1>2, <1>3, <3>1
  <2>3. (block_size_counter # 0 =>
           block_addr = Block[data_block_ptr] * BLOCK_SIZE
                        + (BLOCK_SIZE - block_size_counter))'
    <3>1. Block[p] * BLOCK_SIZE \in Nat
      <4>1. Block[p] \in Nat
        BY <1>3, <1>5
      <4>2. QED
        BY <4>1, Z3
    <3>2. BLOCK_SIZE \in Nat /\ c \in Nat
      BY <1>3
    <3>3. data_block_ptr' = p /\ block_size_counter' = c - 1 /\ block_addr' = a + 1
      BY <1>1
    <3> HIDE DEF TypeOK, ReadInv
    <3> HIDE ConstantsAssumption
    <3>4. a + 1 = Block[p] * BLOCK_SIZE + (BLOCK_SIZE - (c - 1))
      BY <1>3, <3>1, <3>2
    <3>5. QED
      BY <3>3, <3>4
  <2>4. QED
    BY <2>1, <2>2, <2>3 DEF InPlace
<1>10. TypeOK'
  <2>1. p \in 0 .. INODE_BLOCKS
    BY <1>3, <1>5
  <2>2. c - 1 \in 0 .. BLOCK_SIZE
    BY <1>3
  <2>3. a + 1 \in Nat /\ i + 1 \in Nat
    BY <1>7
  <2>4. (pc \in {"idle", "loop"} /\ file_pos \in 0 .. length_in_bytes
          /\ nbytes \in 0 .. MaxRequest /\ length \in Nat
          /\ stream \in [0 .. file_pos - 1 -> Nat])'
    BY <1>1
  <2>5. QED
    BY <1>1, <1>8, <2>1, <2>2, <2>3, <2>4
<1>11. stream' = [k \in 0 .. file_pos' - 1 |-> Byte(k)]
  BY <1>1
<1> HIDE DEF TypeOK
<1>12. QED
  BY <1>1, <1>8, <1>9, <1>10, <1>11

LEMMA ReturnInv ==
    ASSUME ReadInv, Return
    PROVE  /\ ReadInv'
           /\ i = Wanted
<1> USE DEF ReadInv, TypeOK
<1>1. /\ pc = "loop" /\ i >= length /\ InPlace
      /\ pc' = "idle" /\ file_pos' = file_pos + i
      /\ stream' = Extend(stream, file_pos, buf, i)
      /\ i' = 0 /\ buf' = Empty
      /\ UNCHANGED <<nbytes, length, data_block_ptr, block_size_counter, block_addr>>
  BY DEF Return
<1>2. i = Wanted /\ file_pos + i \in 0 .. length_in_bytes /\ file_pos \in Nat
  BY <1>1 DEF InPlace, Wanted
<1>3. stream' = [k \in 0 .. file_pos' - 1 |-> Byte(k)]
  <2>1. \A k \in 0 .. file_pos + i - 1 : k >= file_pos => buf[k - file_pos] = Byte(k)
    BY <1>2
  <2>2. QED
    BY <1>1, <1>2, <2>1 DEF Extend
<1>4. stream' \in [0 .. file_pos' - 1 -> Nat]
  BY <1>1, <1>2 DEF Extend
<1>5. QED
  BY <1>1, <1>2, <1>3, <1>4 DEF Empty

LEMMA ReopenInv ==
    ASSUME ReadInv, Reopen
    PROVE  ReadInv'
BY DEF ReadInv, TypeOK, Reopen, loopVars, Empty

LEMMA NextInv == ReadInv /\ [Next]_vars => ReadInv'
<1> SUFFICES ASSUME ReadInv, [Next]_vars PROVE ReadInv'
  OBVIOUS
<1>1. ASSUME NEW n \in 0 .. MaxRequest, Call(n) PROVE ReadInv'
  BY <1>1, CallInv
<1>2. CASE Iterate
  BY <1>2, IterateInv
<1>3. CASE Return
  BY <1>3, ReturnInv
<1>4. CASE Reopen
  BY <1>4, ReopenInv
<1>5. CASE UNCHANGED vars
  BY <1>5 DEF vars, loopVars, ReadInv, TypeOK, InPlace, Wanted
<1>6. QED
  BY <1>1, <1>2, <1>3, <1>4, <1>5 DEF Next

(* The invariant holds in every reachable state.                            *)
THEOREM InvHolds == Spec => []ReadInv
BY InitInv, NextInv, PTL DEF Spec

-----------------------------------------------------------------------------
(* The loop's variables keep their types: in particular the file position   *)
(* never passes the end of the file, which read_data's unsigned             *)
(* subtraction relies on.                                                   *)
THEOREM TypeCorrect == Spec => []TypeOK
<1>1. ReadInv => TypeOK
  BY DEF ReadInv
<1>2. QED
  BY <1>1, InvHolds, PTL

(* read_data copies the right bytes, for every block size and layout.       *)
THEOREM CopyCorrect == Spec => []CopiesTheFile
<1>1. ReadInv => CopiesTheFile
  BY DEF ReadInv, TypeOK, CopiesTheFile, InPlace, Wanted
<1>2. QED
  BY <1>1, InvHolds, PTL

(* A read stops early only at the end of the file.                          *)
THEOREM ReadComplete == Spec => ReadsAllItCan
<1>1. ReadInv /\ [Next]_vars => [Return => i = IF file_pos + nbytes < length_in_bytes
                     THEN nbytes ELSE length_in_bytes - file_pos]_vars
  BY ReturnInv DEF Wanted
<1>2. QED
  BY <1>1, InvHolds, PTL DEF Spec, ReadsAllItCan

(* The step by which a read returns is the stream's read of as many bytes.  *)
LEMMA ReturnReads ==
    ASSUME ReadInv, Return
    PROVE  Stream!Read
<1>1. /\ file_pos \in 0 .. length_in_bytes /\ nbytes \in 0 .. MaxRequest
      /\ stream = Stream!Prefix(file_pos)
  BY DEF ReadInv, TypeOK, Stream!Prefix
<1>2. ReadInv' /\ i = Wanted /\ file_pos' = file_pos + i
  BY ReturnInv DEF Return
<1>3. stream' = Stream!Prefix(file_pos')
  BY <1>2 DEF ReadInv, Stream!Prefix
<1>4. file_pos' = IF file_pos + nbytes < length_in_bytes
                  THEN file_pos + nbytes ELSE length_in_bytes
  BY <1>1, <1>2 DEF Wanted
<1>5. QED
  BY <1>1, <1>3, <1>4 DEF Stream!Read

(* Opening the file anew starts the stream anew.                            *)
LEMMA ReopenRewinds == Reopen => Stream!Reopen
BY DEF Reopen, Empty, Stream!Reopen, Stream!Prefix

(* Nothing else shows outside.                                              *)
LEMMA OthersStutter ==
    (\E n \in 0 .. MaxRequest : Call(n)) \/ Iterate \/ UNCHANGED vars => UNCHANGED stream
BY DEF Call, Iterate, vars

(* file_read and read_data implement FileStream: the reads of an open file  *)
(* return its bytes in order.                                               *)
THEOREM StreamImplemented == Spec => ImplementsFileStream
<1>1. Init => Stream!Init
  BY DEF Init, Empty, Stream!Init, Stream!Prefix
<1>2. ASSUME ReadInv, [Next]_vars
      PROVE  [Stream!Next]_stream
  BY <1>2, ReturnReads, ReopenRewinds, OthersStutter DEF Next, Stream!Next
<1>3. QED
  BY <1>1, <1>2, InvHolds, PTL DEF Spec, ImplementsFileStream, Stream!Spec

=============================================================================
