------------------------------ MODULE FileRead ------------------------------
(***************************************************************************)
(* Reading an open regular file: file_read and the loop of read_data in    *)
(* filesysobjs.c, one byte per step, from the file position of the         *)
(* descriptor.  A file's bytes lie in data blocks listed by its inode in   *)
(* any order; a byte is represented by its address, counted from the       *)
(* first data block.  Interrupts are off throughout.                       *)
(***************************************************************************)
EXTENDS Integers

CONSTANTS
    BLOCK_SIZE,        \* bytes of a data block (4096)
    INODE_BLOCKS,      \* data block numbers an inode has room for (1023)
    Block,             \* the inode's block numbers, and the word after them
    length_in_bytes,   \* the file's length
    WORD,              \* 2^32
    MaxRequest         \* bytes a program asks for: a read of more than its
                       \* memory dies in file_read's memset

ASSUME ConstantsAssumption ==
    /\ BLOCK_SIZE \in Nat \ {0}
    /\ INODE_BLOCKS \in Nat
    /\ Block \in [0 .. INODE_BLOCKS -> Nat]
    /\ length_in_bytes \in 0 .. BLOCK_SIZE * INODE_BLOCKS
    /\ MaxRequest \in Nat
    /\ WORD \in Nat
    /\ length_in_bytes + MaxRequest < WORD

VARIABLES
    pc,                 \* "idle", "loop"
    file_pos,           \* of the file descriptor
    nbytes,             \* the read's argument,
    length,             \*   and what read_data makes of it
    i,
    data_block_ptr,     \* index of the current block in the inode
    block_size_counter, \* bytes left in it
    block_addr,         \* the next byte
    buf,                \* the bytes copied so far
    stream              \* history: all bytes read since open

loopVars == <<i, data_block_ptr, block_size_counter, block_addr, buf>>
vars == <<pc, file_pos, nbytes, length, loopVars, stream>>

Empty == [k \in 0 .. -1 |-> 0]

(* f with v added at index n, g added from index n on.                      *)
Push(f, n, v) == [k \in 0 .. n |-> IF k = n THEN v ELSE f[k]]
Extend(f, n, g, m) == [k \in 0 .. n + m - 1 |-> IF k < n THEN f[k] ELSE g[k - n]]

(* Byte k of the file.                                                      *)
Byte(k) == Block[k \div BLOCK_SIZE] * BLOCK_SIZE + (k % BLOCK_SIZE)

TypeOK ==
    /\ pc \in {"idle", "loop"}
    /\ file_pos \in 0 .. length_in_bytes
    /\ nbytes \in 0 .. MaxRequest
    /\ length \in Nat
    /\ i \in Nat
    /\ data_block_ptr \in 0 .. INODE_BLOCKS
    /\ block_size_counter \in 0 .. BLOCK_SIZE
    /\ block_addr \in Nat
    /\ buf \in [0 .. i - 1 -> Nat]
    /\ stream \in [0 .. file_pos - 1 -> Nat]

(* The file has just been opened.                                           *)
Init ==
    /\ pc = "idle"
    /\ file_pos = 0
    /\ nbytes = 0
    /\ length = 0
    /\ i = 0
    /\ data_block_ptr = 0
    /\ block_size_counter = 0
    /\ block_addr = 0
    /\ buf = Empty
    /\ stream = Empty

(* Mutants: the sum is not tested; the clip is one too long.                *)
Unclipped(n) == n
ClippedLate(n) ==
    IF (n + file_pos) % WORD >= length_in_bytes
    THEN (length_in_bytes - file_pos + 1) % WORD ELSE n

(* The length read_data settles on, in 32-bit arithmetic.                   *)
Clipped(n) ==
    IF (n + file_pos) % WORD >= length_in_bytes
    THEN (length_in_bytes - file_pos) % WORD ELSE n

(* file_read and read_data up to the loop.                                  *)
Call(n) ==
    /\ pc = "idle"
    /\ length_in_bytes # 0
    /\ pc' = "loop"
    /\ nbytes' = n
    /\ length' = Clipped(n)
    /\ i' = 0
    /\ data_block_ptr' = file_pos \div BLOCK_SIZE
    /\ block_size_counter' = BLOCK_SIZE - (file_pos % BLOCK_SIZE)
    /\ block_addr' = Block[file_pos \div BLOCK_SIZE] * BLOCK_SIZE
                       + (file_pos % BLOCK_SIZE)
    /\ buf' = Empty
    /\ UNCHANGED <<file_pos, stream>>

(* Mutants: the next block is the next on the disk, not in the inode; the   *)
(* block is left one byte early.                                            *)
NextOnDisk ==
    [ptr  |-> data_block_ptr, addr |-> block_addr,
     left |-> IF block_size_counter = 0 THEN BLOCK_SIZE ELSE block_size_counter]
LeftEarly ==
    IF block_size_counter <= 1
    THEN [ptr  |-> data_block_ptr + 1,
          addr |-> Block[data_block_ptr + 1] * BLOCK_SIZE,
          left |-> BLOCK_SIZE]
    ELSE [ptr  |-> data_block_ptr, addr |-> block_addr,
          left |-> block_size_counter]

(* Where the byte of this iteration is: at the start of the next block of   *)
(* the inode when the current one is used up.                               *)
Source ==
    IF block_size_counter = 0
    THEN [ptr  |-> data_block_ptr + 1,
          addr |-> Block[data_block_ptr + 1] * BLOCK_SIZE,
          left |-> BLOCK_SIZE]
    ELSE [ptr  |-> data_block_ptr,
          addr |-> block_addr,
          left |-> block_size_counter]

(* One iteration.                                                           *)
Iterate ==
    /\ pc = "loop" /\ i < length
    /\ data_block_ptr' = Source.ptr
    /\ buf' = Push(buf, i, Source.addr)
    /\ block_size_counter' = Source.left - 1
    /\ block_addr' = Source.addr + 1
    /\ i' = i + 1
    /\ UNCHANGED <<pc, file_pos, nbytes, length, stream>>

Return ==
    /\ pc = "loop" /\ i >= length
    /\ pc' = "idle"
    /\ file_pos' = file_pos + i
    /\ stream' = Extend(stream, file_pos, buf, i)
    /\ i' = 0 /\ buf' = Empty
    /\ UNCHANGED <<nbytes, length, data_block_ptr, block_size_counter, block_addr>>

(* close, and open of the same file.                                        *)
Reopen ==
    /\ pc = "idle"
    /\ file_pos' = 0
    /\ stream' = Empty
    /\ UNCHANGED <<pc, nbytes, length, loopVars>>

Next ==
    \/ \E n \in 0 .. MaxRequest : Call(n)
    \/ Iterate
    \/ Return
    \/ Reopen

Spec == Init /\ [][Next]_vars

-----------------------------------------------------------------------------
(* The bytes copied so far are those of the file from the descriptor's      *)
(* position on, across block boundaries and wherever the blocks lie, and    *)
(* none is beyond the end of the file.                                      *)
CopiesTheFile ==
    /\ file_pos + i <= length_in_bytes
    /\ \A k \in 0 .. i - 1 : buf[k] = Byte(file_pos + k)

(* A read returns exactly what was asked for, or what is left.  cat and     *)
(* grep take a return of 0 for the end of the file.                         *)
ReadsAllItCan ==
    [][Return => i = IF file_pos + nbytes < length_in_bytes
                     THEN nbytes ELSE length_in_bytes - file_pos]_vars

(* The reads of an open file return its bytes in order, none twice and none *)
(* skipped.                                                                 *)
Stream == INSTANCE FileStream WITH Length <- length_in_bytes
ImplementsFileStream == Stream!Spec

=============================================================================
