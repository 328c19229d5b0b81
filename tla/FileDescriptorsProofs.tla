----------------------- MODULE FileDescriptorsProofs -----------------------
(***************************************************************************)
(* Theorems about FileDescriptors for any directory, any number of slots,  *)
(* terminals and descriptors.                                              *)
(***************************************************************************)
EXTENDS FileDescriptors, SequenceTheorems, WellFoundedInduction, TLAPS

LEMMA MinIsLeast ==
    ASSUME NEW S \in SUBSET Nat, S # {}
    PROVE  Min(S) \in S /\ \A y \in S : Min(S) <= y
<1>1. PICK x \in S : \A y \in S : ~(<<y, x>> \in OpToRel(<, Nat))
  BY NatLessThanWellFounded, WFMin
<1>2. ASSUME NEW y \in S PROVE ~(y < x)
  <2>1. <<y, x>> \in Nat \X Nat /\ <<y, x>>[1] = y /\ <<y, x>>[2] = x
    BY <1>2
  <2> QED
    BY <1>1, <1>2, <2>1, Zenon DEF OpToRel
<1>3. \A y \in S : x <= y
  BY <1>2
<1> QED
  BY <1>3 DEF Min

LEMMA PrefixOfItself ==
    ASSUME NEW S, NEW s \in Seq(S)
    PROVE  IsPrefix(s, s)
BY LenProperties DEF IsPrefix

(* The directory is a sequence of entries.                                  *)
LEMMA DirType ==
    /\ Len(Dir) \in Nat /\ DOMAIN Dir = 1 .. Len(Dir)
    /\ \A i \in DOMAIN Dir : /\ Dir[i] \in dentry_t
                             /\ Dir[i].name \in Seq(STRING)
                             /\ Dir[i].file_type \in {RTC, DIRECTORY, STANDARD}
                             /\ Dir[i].inode_num \in Nat
                             /\ Len(Dir[i].name) \in 1 .. NAME_SIZE
<1>1. Len(Dir) \in Nat /\ DOMAIN Dir = 1 .. Len(Dir)
  BY DirectoryAssumption, LenProperties
<1>2. ASSUME NEW i \in DOMAIN Dir PROVE Dir[i] \in dentry_t
  BY <1>1, DirectoryAssumption, ElementOfSeq
<1> QED
  BY <1>1, <1>2, DirectoryAssumption DEF dentry_t

(* read_dentry_by_name finds the first entry that begins with the name, if  *)
(* there is one.                                                            *)
LEMMA FirstMatch ==
    ASSUME NEW name, NEW n, n = read_dentry_by_name(name), n # NotFound
    PROVE  /\ n \in DOMAIN Dir
           /\ IsPrefix(name, Dir[n].name)
           /\ \A j \in 1 .. n - 1 : ~IsPrefix(name, Dir[j].name)
<1> DEFINE found == {k \in DOMAIN Dir : Matches(Dir[k], name)}
<1>1. found # {} /\ n = Min(found)
  BY Zenon DEF read_dentry_by_name
<1>2. found \in SUBSET Nat
  BY DirType
<1>3. n \in found /\ \A y \in found : n <= y
  BY <1>1, <1>2, MinIsLeast
<1>4. \A j \in 1 .. n - 1 : j \in DOMAIN Dir /\ j < n
  BY <1>3, DirType
<1> QED
  BY <1>3, <1>4, DirType DEF Matches

LEMMA NameIsFound ==
    ASSUME NEW i \in DOMAIN Dir
    PROVE  read_dentry_by_name(Dir[i].name) # NotFound
<1> DEFINE name == Dir[i].name
           found == {k \in DOMAIN Dir : Matches(Dir[k], name)}
<1>1. name # <<>>
  BY DirType, EmptySeq
<1>2. i \in found
  BY DirType, PrefixOfItself DEF Matches
<1>3. Min(found) \in DOMAIN Dir
  <2>1. found \in SUBSET Nat
    BY DirType
  <2> QED
    BY <1>2, <2>1, MinIsLeast
<1>4. Min(found) # 0
  BY <1>3, DirType
<1> QED
  BY <1>1, <1>2, <1>4, Zenon DEF read_dentry_by_name, NotFound

-----------------------------------------------------------------------------
(* The inductive invariant.  What a descriptor may hold, open or not:       *)
Descriptor == [in_use : BOOLEAN, table : Tables, info : Nat, file_pos : Nat]
StdOpen == [in_use |-> TRUE, table |-> "terminal_fops", info |-> NULL, file_pos |-> 0]
Infos   == {NULL} \cup {Dir[i].inode_num : i \in DOMAIN Dir}

DescriptorOK(f) ==
    /\ f.in_use => f.table # "none" /\ f.info \in Infos
    /\ f.table = "file_fops" => /\ FileLength[f.info] \in Nat
                                /\ f.file_pos <= FileLength[f.info]

(* stdin and stdout of a slot, once open, never change; the rest is closed  *)
(* while nobody has the slot.                                               *)
DescriptorsInv ==
    /\ Procs!StacksOK
    /\ fd_array \in [Slot -> [Fds -> Descriptor]]
    /\ \A s \in Slot : \A fd \in Fds : DescriptorOK(fd_array[s][fd])
    /\ \A s \in Slot : \A fd \in {STDIN, STDOUT} :
          fd_array[s][fd].in_use => fd_array[s][fd] = StdOpen
    /\ \A s \in Slot :
          IF Procs!Free(s) THEN \A fd \in Fds \ {STDIN, STDOUT} : ~fd_array[s][fd].in_use
          ELSE \A fd \in {STDIN, STDOUT} : fd_array[s][fd].in_use

LEMMA StdFds == STDIN \in Fds /\ STDOUT \in Fds /\ STDIN # STDOUT
  BY DescriptorsAssumption DEF Fds, STDIN, STDOUT

(* execute finds stdin and stdout closed or as it would open them.          *)
LEMMA PreparedFds ==
    ASSUME NEW fds \in [Fds -> Descriptor],
           \A fd \in {STDIN, STDOUT} : fds[fd].in_use => fds[fd] = StdOpen
    PROVE  Prepared(fds) = [fd \in Fds |-> IF fd \in {STDIN, STDOUT} THEN StdOpen
                                           ELSE fds[fd]]
<1>1. \A f : SetUp(f, "terminal_fops", NULL) = StdOpen
  BY DEF SetUp, StdOpen
<1>2. ASSUME NEW g \in [Fds -> Descriptor], NEW d \in {STDIN, STDOUT},
             g[d].in_use => g[d] = StdOpen
      PROVE  OpenStd(g, d) = [g EXCEPT ![d] = StdOpen]
  BY <1>1, <1>2, StdFds DEF OpenStd
<1>3. StdOpen \in Descriptor
  BY DEF StdOpen, Descriptor, Tables, NULL
<1> DEFINE one == [fds EXCEPT ![STDIN] = StdOpen]
<1>4. OpenStd(fds, STDIN) = one
  BY <1>2
<1>5. one \in [Fds -> Descriptor] /\ one[STDOUT] = fds[STDOUT]
  BY <1>3, StdFds
<1>6. OpenStd(one, STDOUT) = [one EXCEPT ![STDOUT] = StdOpen]
  BY <1>2, <1>5
<1>7. [one EXCEPT ![STDOUT] = StdOpen]
        = [fd \in Fds |-> IF fd \in {STDIN, STDOUT} THEN StdOpen ELSE fds[fd]]
  BY StdFds
<1> QED
  BY <1>4, <1>6, <1>7 DEF Prepared

(* Closing keeps what a descriptor holds, and clears in_use.                *)
LEMMA CloseFd ==
    ASSUME NEW f \in Descriptor, DescriptorOK(f)
    PROVE  LET g == [f EXCEPT !.in_use = FALSE] IN
           /\ g \in Descriptor /\ DescriptorOK(g)
           /\ ~g.in_use
           /\ g.table = f.table /\ g.info = f.info /\ g.file_pos = f.file_pos
BY DEF Descriptor, DescriptorOK

(* The running process is in its slot, with stdin and stdout open.          *)
LEMMA RunningSlot ==
    ASSUME Procs!StacksOK, Running
    PROVE  Current \in Slot /\ ~Procs!Free(Current)
<1>1. focus \in Terminal /\ stack[focus] \in Seq(Slot) /\ stack[focus] # <<>>
  BY DEF Procs!StacksOK, Running
<1>2. Len(stack[focus]) \in 1 .. Len(stack[focus])
  BY <1>1, EmptySeq
<1> QED
  BY <1>1, <1>2, ElementOfSeq DEF Current, Last, Procs!Free, Procs!Contains

LEMMA MineOK ==
    ASSUME DescriptorsInv, Running
    PROVE  /\ Current \in Slot /\ ~Procs!Free(Current)
           /\ Mine \in [Fds -> Descriptor]
           /\ \A fd \in Fds : DescriptorOK(Mine[fd])
           /\ Mine[STDIN] = StdOpen /\ Mine[STDOUT] = StdOpen
BY RunningSlot DEF DescriptorsInv, Mine

-----------------------------------------------------------------------------
(* What the system calls answer.                                            *)
LEMMA FreeFdsType == FreeFds \in SUBSET Nat /\ FreeFds \subseteq Fds \ {STDIN, STDOUT}
  BY DescriptorsAssumption DEF FreeFds, Fds

LEMMA TableForType ==
    /\ TableFor(RTC) = "rtc_fops"
    /\ TableFor(DIRECTORY) = "dir_fops"
    /\ TableFor(STANDARD) = "file_fops"
  BY DEF TableFor, RTC, DIRECTORY, STANDARD

(* What open writes.                                                        *)
Opened(n) == [in_use |-> TRUE, table |-> TableFor(Dir[n].file_type),
              info |-> Dir[n].inode_num, file_pos |-> 0]

LEMMA OpenedOK ==
    ASSUME NEW n \in DOMAIN Dir
    PROVE  Opened(n) \in Descriptor /\ DescriptorOK(Opened(n))
<1> DEFINE type == Dir[n].file_type
<1>1. Opened(n).in_use = TRUE /\ Opened(n).table = TableFor(type)
      /\ Opened(n).info = Dir[n].inode_num /\ Opened(n).file_pos = 0
  BY DEF Opened
<1>2. type \in {RTC, DIRECTORY, STANDARD} /\ Dir[n].inode_num \in Nat
  BY DirType
<1>3. TableFor(type) \in Tables \ {"none"}
  BY <1>2, TableForType DEF Tables
<1>4. TableFor(type) = "file_fops" => type = STANDARD
  BY <1>2, TableForType
<1>5. type = STANDARD => FileLength[Dir[n].inode_num] \in Nat
  BY DescriptorsAssumption
<1>6. Opened(n) \in Descriptor
  BY <1>2, <1>3 DEF Opened, Descriptor
<1> QED
  BY <1>1, <1>2, <1>3, <1>4, <1>5, <1>6 DEF DescriptorOK, Infos

LEMMA OpenStreamFails ==
    ASSUME DescriptorsInv, Running, NEW fd \in {STDIN, STDOUT}
    PROVE  OpenStream(fd) = Fails
BY MineOK DEF OpenStream, StdOpen

(* A name that is not that of a stream.                                     *)
Plain(name) == ~IsPrefix(STDIN_ID, name) /\ ~IsPrefix(STDOUT_ID, name)

LEMMA OpenPlain ==
    ASSUME NEW name, Plain(name)
    PROVE  open(name) = OpenEntry(read_dentry_by_name(name))
BY Zenon DEF open, Plain

LEMMA OpenStdName ==
    ASSUME DescriptorsInv, Running, NEW name, ~Plain(name)
    PROVE  open(name) = Fails
<1>1. OpenStream(STDIN) = Fails /\ OpenStream(STDOUT) = Fails
  BY OpenStreamFails
<1> QED
  BY Zenon, <1>1 DEF open, Plain

LEMMA OpenEntryAnswer ==
    ASSUME NEW n
    PROVE  OpenEntry(n) = IF n = NotFound \/ FreeFds = {} THEN Fails
                          ELSE Succeeds(Min(FreeFds), Opened(n))
BY DEF OpenEntry, SetUp, Opened

LEMMA OpenAnswer ==
    ASSUME DescriptorsInv, Running, NEW name
    PROVE  \/ open(name) = Fails
           \/ \E fd \in FreeFds, n \in DOMAIN Dir :
                 /\ Plain(name) /\ n = read_dentry_by_name(name) /\ n # NotFound
                 /\ open(name) = Succeeds(fd, Opened(n))
<1> SUFFICES ASSUME open(name) # Fails
             PROVE  \E fd \in FreeFds, n \in DOMAIN Dir :
                 /\ Plain(name) /\ n = read_dentry_by_name(name) /\ n # NotFound
                 /\ open(name) = Succeeds(fd, Opened(n))
  OBVIOUS
<1> DEFINE n == read_dentry_by_name(name)
<1>1. Plain(name)
  BY OpenStdName
<1>2. open(name) = OpenEntry(n)
  BY <1>1, OpenPlain
<1>3. n # NotFound /\ FreeFds # {} /\ open(name) = Succeeds(Min(FreeFds), Opened(n))
  BY <1>2, OpenEntryAnswer
<1>4. Min(FreeFds) \in FreeFds
  BY <1>3, FreeFdsType, MinIsLeast
<1>5. n \in DOMAIN Dir
  BY <1>3, FirstMatch
<1> QED
  BY <1>1, <1>3, <1>4, <1>5

LEMMA CloseAnswer ==
    ASSUME NEW fd
    PROVE  \/ close(fd) = Fails
           \/ /\ fd \in Fds \ {STDIN, STDOUT} /\ Mine[fd].in_use
              /\ close(fd) = Succeeds(fd, [Mine[fd] EXCEPT !.in_use = FALSE])
BY DEF close, Closable

LEMMA WriteAnswer ==
    ASSUME DescriptorsInv, Running, NEW fd, NEW buf
    PROVE  write(fd, buf).fds = Mine
<1>1. Fails.fds = Mine
  BY DEF Fails
<1>2. Usable(fd, buf) => Succeeds(fd, Mine[fd]).fds = Mine
  BY MineOK DEF Usable, Succeeds
<1> QED
  BY <1>1, <1>2 DEF write

(* file_read moves the position, within the file.                           *)
LEMMA FileReadMoves ==
    ASSUME DescriptorsInv, Running, NEW fd \in Fds, Mine[fd].table = "file_fops",
           NEW nbytes \in Nat
    PROVE  \E pos \in Nat :
              /\ pos >= Mine[fd].file_pos /\ pos <= FileLength[Mine[fd].info]
              /\ file_read(fd, nbytes) = Succeeds(fd, [Mine[fd] EXCEPT !.file_pos = pos])
<1> DEFINE left == FileLength[Mine[fd].info] - Mine[fd].file_pos
<1>1. /\ Mine[fd].file_pos \in Nat /\ FileLength[Mine[fd].info] \in Nat
      /\ Mine[fd].file_pos <= FileLength[Mine[fd].info]
  BY MineOK DEF DescriptorOK, Descriptor
<1>2. left \in Nat
  BY <1>1
<1>3. {nbytes, left} \in SUBSET Nat /\ {nbytes, left} # {}
  BY <1>2
<1>4. Min({nbytes, left}) \in Nat /\ Min({nbytes, left}) <= left
  BY <1>3, MinIsLeast
<1>5. Mine[fd].file_pos + Min({nbytes, left}) \in Nat
      /\ Mine[fd].file_pos + Min({nbytes, left}) >= Mine[fd].file_pos
      /\ Mine[fd].file_pos + Min({nbytes, left}) <= FileLength[Mine[fd].info]
  BY <1>1, <1>4
<1> QED
  BY <1>5 DEF file_read

LEMMA ReadAnswer ==
    ASSUME DescriptorsInv, Running, NEW fd, NEW buf, NEW nbytes \in Nat
    PROVE  \/ read(fd, buf, nbytes).fds = Mine
           \/ /\ fd \in Fds /\ Mine[fd].in_use /\ Mine[fd].table = "file_fops"
              /\ read(fd, buf, nbytes) = file_read(fd, nbytes)
<1>1. Fails.fds = Mine
  BY DEF Fails
<1>2. CASE ~Usable(fd, buf)
  BY <1>1, <1>2 DEF read
<1>3. CASE Usable(fd, buf)
  <2>1. fd \in Fds /\ Mine[fd].in_use /\ Mine[fd].table \in Tables \ {"none"}
    BY <1>3, MineOK DEF Usable, Descriptor, DescriptorOK
  <2>2. Succeeds(fd, Mine[fd]).fds = Mine
    BY <2>1, MineOK DEF Succeeds
  <2>3. CASE Mine[fd].table = "terminal_fops"
    BY <1>3, <2>3, <2>2, <1>1 DEF read
  <2>4. CASE Mine[fd].table \in {"rtc_fops", "dir_fops"}
    BY <1>3, <2>4, <2>2 DEF read
  <2>5. CASE Mine[fd].table = "file_fops"
    BY <1>3, <2>5, <2>1 DEF read
  <2> QED
    BY <2>1, <2>3, <2>4, <2>5 DEF Tables
<1> QED
  BY <1>2, <1>3

-----------------------------------------------------------------------------
(* A system call changes nothing of the descriptors or exactly one of the   *)
(* caller's, beyond stdout: it is opened, closed or its position moves.     *)
Changes(fd, f) ==
    \/ ~Mine[fd].in_use /\ f.in_use /\ f.file_pos = 0
    \/ Mine[fd].in_use /\ f = [Mine[fd] EXCEPT !.in_use = FALSE]
    \/ /\ Mine[fd].in_use
       /\ \E pos \in Nat : /\ pos >= Mine[fd].file_pos
                           /\ f = [Mine[fd] EXCEPT !.file_pos = pos]

LEMMA SucceedsFds == \A fd, f : Succeeds(fd, f).fds = [Mine EXCEPT ![fd] = f]
  BY DEF Succeeds

LEMMA CallSteps ==
    ASSUME DescriptorsInv, Call
    PROVE  /\ UNCHANGED <<stack, focus>>
           /\ \/ fd_array' = fd_array
              \/ \E fd \in Fds \ {STDIN, STDOUT}, f \in Descriptor :
                    /\ DescriptorOK(f) /\ Changes(fd, f)
                    /\ fd_array' = [fd_array EXCEPT ![Current] = [Mine EXCEPT ![fd] = f]]
<1> USE DEF Returns
<1>1. Running
  BY DEF Call
<1>2. Fails.fds = Mine
  BY DEF Fails
<1>3. [fd_array EXCEPT ![Current] = Mine] = fd_array
  BY <1>1, MineOK DEF Mine, DescriptorsInv
<1>4. CASE Open
  <2>1. PICK name \in Names : Returns(open(name))
    BY <1>4 DEF Open
  <2>2. CASE open(name) = Fails
    BY <2>1, <2>2, <1>2, <1>3
  <2>3. ASSUME NEW fd \in FreeFds, NEW n \in DOMAIN Dir, open(name) = Succeeds(fd, Opened(n))
        PROVE  /\ fd \in Fds \ {STDIN, STDOUT} /\ ~Mine[fd].in_use
               /\ Opened(n) \in Descriptor /\ DescriptorOK(Opened(n))
               /\ Opened(n).in_use /\ Opened(n).file_pos = 0
               /\ fd_array' = [fd_array EXCEPT ![Current] = [Mine EXCEPT ![fd] = Opened(n)]]
    <3>1. fd \in Fds \ {STDIN, STDOUT} /\ ~Mine[fd].in_use
      BY DEF FreeFds
    <3>2. Opened(n).in_use /\ Opened(n).file_pos = 0
      BY DEF Opened
    <3> QED
      BY <3>1, <3>2, <2>1, <2>3, OpenedOK, SucceedsFds
  <2>4. CASE \E fd \in FreeFds, n \in DOMAIN Dir : open(name) = Succeeds(fd, Opened(n))
    BY <2>1, <2>3, <2>4, Zenon DEF Changes
  <2> QED
    BY <2>1, <2>2, <2>4, <1>1, OpenAnswer
<1>5. CASE Close
  <2>1. PICK fd \in AnyFd : Returns(close(fd))
    BY <1>5 DEF Close
  <2>2. CASE close(fd) = Fails
    BY <2>1, <2>2, <1>2, <1>3
  <2>3. CASE /\ fd \in Fds \ {STDIN, STDOUT} /\ Mine[fd].in_use
             /\ close(fd) = Succeeds(fd, [Mine[fd] EXCEPT !.in_use = FALSE])
    <3> DEFINE f == [Mine[fd] EXCEPT !.in_use = FALSE]
    <3>1. Mine[fd] \in Descriptor /\ DescriptorOK(Mine[fd])
      BY <1>1, <2>3, MineOK
    <3>2. f \in Descriptor /\ DescriptorOK(f)
      BY <3>1, CloseFd, Zenon
    <3>3. fd_array' = [fd_array EXCEPT ![Current] = [Mine EXCEPT ![fd] = f]]
      <4>1. close(fd) = Succeeds(fd, f)
        BY <2>3
      <4> HIDE DEF f
      <4> QED
        BY <2>1, <4>1, SucceedsFds
    <3>4. Changes(fd, f)
      BY <2>3, Zenon DEF Changes
    <3> QED
      BY <2>1, <2>3, <3>2, <3>3, <3>4, Zenon
  <2> QED
    BY <2>2, <2>3, CloseAnswer
<1>6. CASE Write
  <2>1. PICK fd \in AnyFd, buf \in Buffers : Returns(write(fd, buf))
    BY <1>6 DEF Write
  <2> QED
    BY <2>1, <1>1, <1>3, WriteAnswer
<1>7. CASE Read
  <2>1. PICK fd \in AnyFd, buf \in Buffers, nbytes \in 0 .. MaxRead :
            Returns(read(fd, buf, nbytes))
    BY <1>7 DEF Read
  <2>2. nbytes \in Nat
    BY DescriptorsAssumption
  <2>3. CASE read(fd, buf, nbytes).fds = Mine
    BY <2>1, <2>3, <1>3
  <2>4. CASE /\ fd \in Fds /\ Mine[fd].in_use /\ Mine[fd].table = "file_fops"
             /\ read(fd, buf, nbytes) = file_read(fd, nbytes)
    <3>1. PICK pos \in Nat :
              /\ pos >= Mine[fd].file_pos /\ pos <= FileLength[Mine[fd].info]
              /\ file_read(fd, nbytes) = Succeeds(fd, [Mine[fd] EXCEPT !.file_pos = pos])
      BY <1>1, <2>2, <2>4, FileReadMoves
    <3> DEFINE f == [Mine[fd] EXCEPT !.file_pos = pos]
    <3>2. Mine[fd] \in Descriptor /\ DescriptorOK(Mine[fd])
      BY <1>1, <2>4, MineOK
    <3>3. /\ f.in_use = Mine[fd].in_use /\ f.table = Mine[fd].table
          /\ f.info = Mine[fd].info /\ f.file_pos = pos /\ f \in Descriptor
      BY <3>2 DEF Descriptor
    <3>4. DescriptorOK(f)
      BY <3>1, <3>2, <3>3 DEF DescriptorOK
    <3>5. fd \notin {STDIN, STDOUT}
      BY <1>1, <2>4, MineOK DEF StdOpen
    <3>6. fd_array' = [fd_array EXCEPT ![Current] = [Mine EXCEPT ![fd] = f]]
      <4>1. read(fd, buf, nbytes) = Succeeds(fd, f)
        BY <2>4, <3>1
      <4> HIDE DEF f
      <4> QED
        BY <2>1, <4>1, SucceedsFds
    <3>7. Changes(fd, f)
      BY <2>4, <3>1, Zenon DEF Changes
    <3> QED
      BY <2>1, <2>4, <3>3, <3>4, <3>5, <3>6, <3>7, Zenon
  <2> QED
    BY <2>2, <2>3, <2>4, <1>1, ReadAnswer
<1> QED
  BY <1>4, <1>5, <1>6, <1>7 DEF Call

-----------------------------------------------------------------------------
(* DescriptorsInv is inductive.                                             *)
LEMMA DescriptorsInit == Init => DescriptorsInv
<1> SUFFICES ASSUME Init PROVE DescriptorsInv
  OBVIOUS
<1>1. Procs!StacksOK
  <2>1. \A t \in Terminal : stack[t] = <<>>
    BY DEF Init, Procs!Init
  <2> QED
    BY <2>1, EmptySeq, DescriptorsAssumption DEF Init, Procs!Init, Procs!StacksOK
<1>2. Closed \in Descriptor /\ ~Closed.in_use /\ Closed.table = "none"
  BY DEF Closed, Descriptor, Tables, NULL
<1>3. \A s \in Slot : \A fd \in Fds : fd_array[s][fd] = Closed
  BY DEF Init
<1>4. \A s \in Slot : Procs!Free(s)
  <2>1. \A t \in Terminal : Len(stack[t]) = 0
    BY EmptySeq DEF Init, Procs!Init
  <2> QED
    BY <2>1 DEF Procs!Free, Procs!Contains
<1>5. fd_array \in [Slot -> [Fds -> Descriptor]]
  BY <1>2 DEF Init
<1>6. \A s \in Slot : \A fd \in Fds : DescriptorOK(fd_array[s][fd])
  BY <1>2, <1>3 DEF DescriptorOK
<1> QED
  BY <1>1, <1>2, <1>3, <1>4, <1>5, <1>6, StdFds DEF DescriptorsInv

(* A slot whose program starts, or is replaced by a new first shell.        *)
LEMMA PreparedOK ==
    ASSUME NEW fds \in [Fds -> Descriptor],
           \A fd \in Fds : DescriptorOK(fds[fd]),
           \A fd \in {STDIN, STDOUT} : fds[fd].in_use => fds[fd] = StdOpen
    PROVE  /\ Prepared(fds) \in [Fds -> Descriptor]
           /\ \A fd \in Fds : DescriptorOK(Prepared(fds)[fd])
           /\ \A fd \in {STDIN, STDOUT} : Prepared(fds)[fd] = StdOpen
           /\ \A fd \in Fds \ {STDIN, STDOUT} : Prepared(fds)[fd] = fds[fd]
<1>1. StdOpen \in Descriptor /\ DescriptorOK(StdOpen)
  BY DEF StdOpen, Descriptor, DescriptorOK, Tables, NULL, Infos
<1> QED
  BY <1>1, PreparedFds, StdFds

LEMMA CloseAllOK ==
    ASSUME NEW fds \in [Fds -> Descriptor],
           \A fd \in Fds : DescriptorOK(fds[fd])
    PROVE  /\ CloseAll(fds) \in [Fds -> Descriptor]
           /\ \A fd \in Fds : DescriptorOK(CloseAll(fds)[fd])
           /\ \A fd \in {STDIN, STDOUT} : CloseAll(fds)[fd] = fds[fd]
           /\ \A fd \in Fds \ {STDIN, STDOUT} : ~CloseAll(fds)[fd].in_use
<1>1. ASSUME NEW fd \in Fds
      PROVE  /\ CloseAll(fds)[fd] \in Descriptor /\ DescriptorOK(CloseAll(fds)[fd])
             /\ fd \in {STDIN, STDOUT} => CloseAll(fds)[fd] = fds[fd]
             /\ fd \notin {STDIN, STDOUT} => ~CloseAll(fds)[fd].in_use
  <2>1. CASE fd \in {STDIN, STDOUT}
    BY <2>1 DEF CloseAll
  <2>2. CASE fd \notin {STDIN, STDOUT}
    <3>1. CloseAll(fds)[fd] = [fds[fd] EXCEPT !.in_use = FALSE]
      BY <2>2 DEF CloseAll
    <3> QED
      BY <2>2, <3>1, CloseFd
  <2> QED
    BY <2>1, <2>2
<1>2. CloseAll(fds) \in [Fds -> Descriptor]
  BY <1>1 DEF CloseAll
<1> QED
  BY <1>1, <1>2, StdFds

(* The descriptors of one slot change, and who has a slot may change.       *)
LEMMA SlotStep ==
    ASSUME DescriptorsInv, Procs!StacksOK', NEW p \in Slot,
           NEW fds \in [Fds -> Descriptor], \A fd \in Fds : DescriptorOK(fds[fd]),
           \A fd \in {STDIN, STDOUT} : fds[fd] = StdOpen,
           fd_array' = [fd_array EXCEPT ![p] = fds],
           \A s \in Slot \ {p} : Procs!Free(s)' <=> Procs!Free(s),
           Procs!Free(p)' => \A fd \in Fds \ {STDIN, STDOUT} : ~fds[fd].in_use
    PROVE  DescriptorsInv'
<1>1. /\ fd_array' \in [Slot -> [Fds -> Descriptor]]
      /\ fd_array'[p] = fds
      /\ \A s \in Slot \ {p} : fd_array'[s] = fd_array[s]
  BY DEF DescriptorsInv
<1>2. \A s \in Slot : \A fd \in Fds : DescriptorOK(fd_array'[s][fd])
  BY <1>1 DEF DescriptorsInv
<1>3. \A s \in Slot : \A fd \in {STDIN, STDOUT} :
          fd_array'[s][fd].in_use => fd_array'[s][fd] = StdOpen
  BY <1>1 DEF DescriptorsInv
<1>4. StdOpen.in_use
  BY DEF StdOpen
<1>5. ASSUME NEW s \in Slot
      PROVE  IF Procs!Free(s)'
             THEN \A fd \in Fds \ {STDIN, STDOUT} : ~fd_array'[s][fd].in_use
             ELSE \A fd \in {STDIN, STDOUT} : fd_array'[s][fd].in_use
  <2>1. CASE s = p
    BY <1>1, <1>4, <2>1
  <2>2. CASE s # p
    BY <1>1, <2>2 DEF DescriptorsInv
  <2> QED
    BY <2>1, <2>2
<1> QED
  BY <1>1, <1>2, <1>3, <1>5 DEF DescriptorsInv, DescriptorOK, Infos

LEMMA DescriptorsStep == DescriptorsInv /\ [Next]_vars => DescriptorsInv'
<1> SUFFICES ASSUME DescriptorsInv, [Next]_vars PROVE DescriptorsInv'
  OBVIOUS
<1>a. Procs!StacksOK
  BY DEF DescriptorsInv
<1>1. CASE Launch
  <2> DEFINE p == Last(stack'[focus'])
  <2>1. /\ Procs!StacksOK' /\ p \in Slot /\ Procs!Free(p)
        /\ \A q \in Slot : Procs!Free(q)' <=> Procs!Free(q) /\ q # p
    BY <1>a, <1>1, Procs!StartStack DEF Launch, Last, Procs!Last
  <2>2. fd_array' = [fd_array EXCEPT ![p] = Prepared(fd_array[p])]
    BY <1>1 DEF Launch
  <2> HIDE DEF p
  <2>3. /\ Prepared(fd_array[p]) \in [Fds -> Descriptor]
        /\ \A fd \in Fds : DescriptorOK(Prepared(fd_array[p])[fd])
        /\ \A fd \in {STDIN, STDOUT} : Prepared(fd_array[p])[fd] = StdOpen
    BY <2>1, PreparedOK DEF DescriptorsInv
  <2> QED
    BY <2>1, <2>2, <2>3, SlotStep
<1>2. CASE Switch
  <2>1. Procs!StacksOK' /\ stack' = stack /\ fd_array' = fd_array
    BY <1>a, <1>2 DEF Switch, Procs!Show, Procs!StacksOK
  <2> QED
    BY <2>1 DEF DescriptorsInv, DescriptorOK, Infos, Procs!Free
<1>3. CASE Exit
  <2>1. /\ Procs!StacksOK' /\ Current \in Slot /\ Running
        /\ \A q \in Slot : Procs!Free(q)' <=> Procs!Free(q) \/ q = Current
    BY <1>a, <1>3, Procs!PopStack DEF Exit, Current, Last, Procs!Last, Running
  <2>2. fd_array' = [fd_array EXCEPT ![Current] = CloseAll(Mine)]
    BY <1>3 DEF Exit, Mine
  <2>3. /\ CloseAll(Mine) \in [Fds -> Descriptor]
        /\ \A fd \in Fds : DescriptorOK(CloseAll(Mine)[fd])
        /\ \A fd \in {STDIN, STDOUT} : CloseAll(Mine)[fd] = StdOpen
        /\ \A fd \in Fds \ {STDIN, STDOUT} : ~CloseAll(Mine)[fd].in_use
    BY <2>1, MineOK, CloseAllOK
  <2> QED
    BY <2>1, <2>2, <2>3, SlotStep
<1>4. CASE Restart
  <2>1. Running
    BY <1>4, EmptySeq DEF Restart, Running
  <2>2. fd_array' = [fd_array EXCEPT ![Current] = Prepared(CloseAll(Mine))]
    BY <1>4 DEF Restart, Mine
  <2>3. /\ CloseAll(Mine) \in [Fds -> Descriptor]
        /\ \A fd \in Fds : DescriptorOK(CloseAll(Mine)[fd])
        /\ \A fd \in {STDIN, STDOUT} : CloseAll(Mine)[fd] = StdOpen
    BY <2>1, MineOK, CloseAllOK
  <2>4. /\ Prepared(CloseAll(Mine)) \in [Fds -> Descriptor]
        /\ \A fd \in Fds : DescriptorOK(Prepared(CloseAll(Mine))[fd])
        /\ \A fd \in {STDIN, STDOUT} : Prepared(CloseAll(Mine))[fd] = StdOpen
    BY <2>3, PreparedOK
  <2>5. Procs!StacksOK' /\ \A q \in Slot : Procs!Free(q)' <=> Procs!Free(q)
    BY <1>a, <1>4 DEF Restart, Procs!StacksOK, Procs!Free
  <2>6. Current \in Slot /\ ~Procs!Free(Current)
    BY <2>1, MineOK
  <2> QED
    BY <2>2, <2>4, <2>5, <2>6, SlotStep
<1>5. CASE Call
  <2>1. stack' = stack /\ focus' = focus /\ Running
    BY <1>5, CallSteps DEF Call
  <2>2. Procs!StacksOK' /\ \A q \in Slot : Procs!Free(q)' <=> Procs!Free(q)
    BY <1>a, <2>1 DEF Procs!StacksOK, Procs!Free
  <2>3. CASE fd_array' = fd_array
    BY <2>2, <2>3 DEF DescriptorsInv, DescriptorOK, Infos
  <2>4. ASSUME NEW fd \in Fds \ {STDIN, STDOUT}, NEW f \in Descriptor, DescriptorOK(f),
               fd_array' = [fd_array EXCEPT ![Current] = [Mine EXCEPT ![fd] = f]]
        PROVE  DescriptorsInv'
    <3> DEFINE fds == [Mine EXCEPT ![fd] = f]
    <3>1. /\ fds \in [Fds -> Descriptor]
          /\ \A d \in Fds : DescriptorOK(fds[d])
          /\ \A d \in {STDIN, STDOUT} : fds[d] = StdOpen
      BY <2>1, <2>4, MineOK, StdFds
    <3>2. fd_array' = [fd_array EXCEPT ![Current] = fds]
      BY <2>4
    <3>3. Current \in Slot /\ ~Procs!Free(Current)
      BY <2>1, MineOK
    <3> HIDE DEF fds
    <3> QED
      BY <3>1, <3>2, <3>3, <2>2, SlotStep
  <2> QED
    BY <1>5, <2>3, <2>4, CallSteps
<1>6. CASE UNCHANGED vars
  BY <1>6 DEF vars, DescriptorsInv, DescriptorOK, Infos, Procs!StacksOK, Procs!Free
<1> QED
  BY <1>1, <1>2, <1>3, <1>4, <1>5, <1>6 DEF Next

-----------------------------------------------------------------------------
(* What was listed is the beginning of the directory, up to the index.      *)
ListedName == [count : Nat, name : Seq(STRING)]

ListingInv ==
    /\ directoryIndex \in 0 .. Len(Dir)
    /\ listed \in Seq(ListedName) /\ Len(listed) = directoryIndex
    /\ \A i \in 1 .. directoryIndex : listed[i] = Whole[i]

LEMMA WholeType ==
    /\ Whole \in Seq(ListedName) /\ Len(Whole) = Len(Dir)
    /\ \A i \in 1 .. Len(Dir) : Whole[i] = [count |-> Len(Dir[i].name), name |-> Dir[i].name]
<1>1. \A i \in 1 .. Len(Dir) :
         [count |-> Len(Dir[i].name), name |-> Dir[i].name] \in ListedName
  BY DirType DEF ListedName
<1> QED
  BY <1>1, DirType DEF Whole

LEMMA PrefixOfWhole ==
    ASSUME NEW l \in Seq(ListedName), Len(l) <= Len(Dir),
           \A i \in 1 .. Len(l) : l[i] = Whole[i]
    PROVE  IsPrefix(l, Whole)
<1> DEFINE n == Len(l)
<1>1. n \in Nat /\ n <= Len(Whole)
  BY WholeType, LenProperties
<1>2. \A i \in 1 .. n : l[i] \in ListedName /\ Whole[i] \in ListedName
  BY <1>1, WholeType, DirType, ElementOfSeq
<1>3. /\ SubSeq(l, 1, n) \in Seq(ListedName) /\ Len(SubSeq(l, 1, n)) = n
      /\ \A i \in 1 .. n : SubSeq(l, 1, n)[i] = l[i]
  BY <1>1, <1>2, SubSeqProperties
<1>4. /\ SubSeq(Whole, 1, n) \in Seq(ListedName) /\ Len(SubSeq(Whole, 1, n)) = n
      /\ \A i \in 1 .. n : SubSeq(Whole, 1, n)[i] = Whole[i]
  BY <1>1, <1>2, SubSeqProperties
<1>5. SubSeq(l, 1, n) = SubSeq(Whole, 1, n)
  BY <1>3, <1>4, SeqEqual
<1> QED
  BY <1>1, <1>5 DEF IsPrefix

(* dir_read hands out a name whole, also one that fills its field.          *)
LEMMA ListedWhole ==
    ASSUME NEW n \in 1 .. Len(Dir)
    PROVE  Listed(Dir[n]) = Whole[n]
<1> DEFINE e == Dir[n]
<1>1. NAME_SIZE \in Nat /\ Len(e.name) \in Nat /\ Len(e.name) <= NAME_SIZE
  BY DirType, DirectoryAssumption
<1>2. \/ NameLength(e) = Len(e.name)
      \/ NameLength(e) = NAME_SIZE + 1 /\ Len(e.name) = NAME_SIZE
  BY DEF NameLength
<1>3. {NameLength(e), NAME_SIZE} \in SUBSET Nat /\ {NameLength(e), NAME_SIZE} # {}
  BY <1>1, <1>2
<1>4. Min({NameLength(e), NAME_SIZE}) = Len(e.name)
  <2>1. /\ Min({NameLength(e), NAME_SIZE}) \in {NameLength(e), NAME_SIZE}
        /\ Min({NameLength(e), NAME_SIZE}) <= NameLength(e)
        /\ Min({NameLength(e), NAME_SIZE}) <= NAME_SIZE
    BY <1>3, MinIsLeast
  <2> QED
    BY <1>1, <1>2, <2>1
<1> QED
  BY <1>4, WholeType DEF Listed

LEMMA ListingInit == Init => ListingInv
BY DirType, EmptySeq DEF Init, ListingInv

(* A dir_read: at the end it starts again, else it gives the next name.     *)
LEMMA DirReadListing ==
    ASSUME ListingInv, DirRead
    PROVE  /\ ListingInv'
           /\ IsPrefix(listed', Whole)
           /\ listed # <<>> /\ listed' = <<>> => listed = Whole
<1>1. /\ Len(Dir) \in Nat /\ directoryIndex \in Nat /\ directoryIndex <= Len(Dir)
      /\ listed \in Seq(ListedName) /\ Len(listed) = directoryIndex
  BY DirType DEF ListingInv
<1>2. CASE directoryIndex = Len(Dir)
  <2>1. directoryIndex' = 0 /\ listed' = <<>>
    BY <1>2, <1>1 DEF DirRead, read_dentry_by_index
  <2>2. listed = Whole
    BY <1>1, <1>2, WholeType, SeqEqual DEF ListingInv
  <2>3. IsPrefix(listed', Whole)
    <3>1. listed' \in Seq(ListedName) /\ Len(listed') = 0
      BY <2>1, EmptySeq
    <3>2. Len(listed') <= Len(Dir) /\ \A i \in 1 .. Len(listed') : listed'[i] = Whole[i]
      BY <3>1, <1>1
    <3> QED
      BY <3>1, <3>2, PrefixOfWhole, Zenon
  <2> QED
    BY <2>1, <2>2, <2>3, <1>1, EmptySeq DEF ListingInv
<1>3. CASE directoryIndex < Len(Dir)
  <2> DEFINE n == directoryIndex + 1
  <2>1. n \in 1 .. Len(Dir)
    BY <1>1, <1>3
  <2>2. directoryIndex' = n /\ listed' = Append(listed, Whole[n])
    <3>1. read_dentry_by_index(directoryIndex) = n /\ n # NotFound
      BY <1>1, <1>3 DEF read_dentry_by_index, NotFound
    <3> QED
      BY <2>1, <3>1, ListedWhole DEF DirRead
  <2>3. Whole[n] \in ListedName
    BY <2>1, WholeType, ElementOfSeq
  <2>4. /\ listed' \in Seq(ListedName) /\ Len(listed') = n
        /\ \A i \in 1 .. n : listed'[i] = Whole[i]
    BY <1>1, <2>2, <2>3, AppendProperties DEF ListingInv
  <2>5. IsPrefix(listed', Whole)
    BY <2>1, <2>4, PrefixOfWhole
  <2>6. listed' # <<>>
    BY <2>1, <2>4, EmptySeq
  <2> QED
    BY <2>1, <2>2, <2>4, <2>5, <2>6 DEF ListingInv
<1> QED
  BY <1>1, <1>2, <1>3

LEMMA ListingOrNot ==
    [Next]_vars => DirRead \/ UNCHANGED <<directoryIndex, listed>>
BY DEF Next, vars, Launch, Switch, Exit, Restart, Call, Open, Close, Write, Read

LEMMA ListingStep == ListingInv /\ [Next]_vars => ListingInv'
<1>1. ListingInv /\ UNCHANGED <<directoryIndex, listed>> => ListingInv'
  BY DEF ListingInv, Whole
<1> QED
  BY <1>1, ListingOrNot, DirReadListing

LEMMA Invariants == Spec => [](DescriptorsInv /\ ListingInv)
<1>1. Init => DescriptorsInv /\ ListingInv
  BY DescriptorsInit, ListingInit
<1>2. DescriptorsInv /\ ListingInv /\ [Next]_vars => (DescriptorsInv /\ ListingInv)'
  BY DescriptorsStep, ListingStep
<1> QED
  BY <1>1, <1>2, PTL DEF Spec

-----------------------------------------------------------------------------
(* Every variable keeps its type; a descriptor in use has a table of        *)
(* operations to jump through, and a file's position is never behind its    *)
(* end, whatever a slot's earlier processes left in the PCB.                *)
THEOREM TypeCorrect == Spec => []TypeOK
<1>1. DescriptorsInv /\ ListingInv => TypeOK
  BY DEF DescriptorsInv, ListingInv, TypeOK, DescriptorOK, Descriptor
<1> QED
  BY <1>1, Invariants, PTL

(* dir_read lists the directory whole and in order, whoever reads, with the *)
(* one index that all descriptors of all processes share.                   *)
THEOREM ListsWholeDirectory == Spec => ListingIsWhole
<1> DEFINE A == /\ IsPrefix(listed', Whole)
                /\ listed # <<>> /\ listed' = <<>> => listed = Whole
<1>1. ListingInv /\ [Next]_vars => [A]_vars
  <2>1. SUFFICES ASSUME ListingInv, Next, UNCHANGED <<directoryIndex, listed>>
                 PROVE  A
    BY ListingOrNot, DirReadListing
  <2>2. IsPrefix(listed, Whole)
    BY <2>1, PrefixOfWhole, DirType DEF ListingInv
  <2> QED
    BY <2>1, <2>2
<1> QED
  BY <1>1, Invariants, PTL DEF Spec, ListingIsWhole

-----------------------------------------------------------------------------
(* No file is called as the streams are, or longer.                         *)
NoStreamNames == \A i \in DOMAIN Dir : Plain(Dir[i].name)

LEMMA SomeFdFree ==
    ASSUME DescriptorsInv, Running
    PROVE  FreeFds # {} <=> OpenFds(Mine) # Fds
<1>1. Mine[STDIN].in_use /\ Mine[STDOUT].in_use
  BY MineOK DEF StdOpen
<1>2. FreeFds = Fds \ OpenFds(Mine)
  BY <1>1 DEF FreeFds, OpenFds
<1>3. OpenFds(Mine) \subseteq Fds
  BY DEF OpenFds
<1> QED
  BY <1>2, <1>3

LEMMA BadCallsState ==
    ASSUME DescriptorsInv, NoStreamNames
    PROVE  BadCallsFail
<1> SUFFICES ASSUME Running PROVE BadCallsFail
  BY DEF BadCallsFail
<1>1. ~Fails.ok /\ \A fd, f : Succeeds(fd, f).ok
  BY DEF Fails, Succeeds
<1>2. \A fd : fd \in OpenFds(Mine) <=> fd \in Fds /\ Mine[fd].in_use
  BY DEF OpenFds
<1>3. ASSUME NEW fd \in AnyFd
      PROVE  close(fd).ok <=> fd \in OpenFds(Mine) /\ fd > STDOUT
  <2>1. Closable(fd) <=> fd \in Fds /\ fd > STDOUT
    BY <1>3, DescriptorsAssumption DEF Closable, AnyFd, Fds, STDIN, STDOUT
  <2> QED
    BY <1>1, <1>2, <2>1 DEF close
<1>4. ASSUME NEW fd \in AnyFd
      PROVE  write(fd, 1).ok => fd \in OpenFds(Mine) /\ fd # STDIN
  <2>1. Mine[STDIN].table = "terminal_fops"
    BY MineOK DEF StdOpen
  <2>2. Writable(fd) => fd # STDIN
    BY <2>1 DEF Writable, STDIN, STDOUT
  <2> QED
    BY <1>1, <1>2, <2>2 DEF write, Usable
<1>5. ASSUME NEW fd \in AnyFd, NEW n \in 0 .. MaxRead
      PROVE  read(fd, 1, n).ok => fd \in OpenFds(Mine) /\ fd # STDOUT
  <2>1. CASE ~Usable(fd, 1)
    BY <1>1, <2>1 DEF read
  <2>2. CASE Usable(fd, 1) /\ fd = STDOUT
    <3>1. Mine[fd].table = "terminal_fops"
      BY <2>2, MineOK DEF StdOpen
    <3>2. fd # STDIN
      BY <2>2 DEF STDIN, STDOUT
    <3>3. read(fd, 1, n) = Fails
      BY <2>2, <3>1, <3>2 DEF read
    <3> QED
      BY <1>1, <3>3
  <2>3. CASE Usable(fd, 1) /\ fd # STDOUT
    BY <1>2, <2>3 DEF Usable
  <2> QED
    BY <2>1, <2>2, <2>3
<1>6. ASSUME NEW i \in DOMAIN Dir
      PROVE  open(Dir[i].name).ok <=> OpenFds(Mine) # Fds
  <2> DEFINE n == read_dentry_by_name(Dir[i].name)
  <2>1. open(Dir[i].name) = OpenEntry(n)
    BY OpenPlain DEF NoStreamNames
  <2>2. n # NotFound
    BY NameIsFound
  <2> HIDE DEF n
  <2>3. open(Dir[i].name).ok <=> FreeFds # {}
    BY <1>1, <2>1, <2>2, OpenEntryAnswer
  <2> QED
    BY <2>3, SomeFdFree
<1> QED
  BY <1>3, <1>4, <1>5, <1>6, Zenon DEF BadCallsFail

(* Bad calls fail for every program at any time, as all tests of            *)
(* ece391syserr but err_open expect: closing and using a descriptor works   *)
(* exactly while it is open, stdin and stdout cannot be closed or used the  *)
(* wrong way round, and a name of the directory opens while a descriptor is *)
(* left (open, close, read, write).                                         *)
THEOREM BadCallsRefused ==
    ASSUME NoStreamNames
    PROVE  Spec => []BadCallsFail
<1>1. DescriptorsInv => BadCallsFail
  BY BadCallsState
<1> QED
  BY <1>1, Invariants, PTL

-----------------------------------------------------------------------------
(* The refinement.  The open files of a slot with descriptors fds:          *)
FileMap(fds) == [fd \in OpenFds(fds) |-> OpenFile(fds[fd])]

LEMMA FilesAt ==
    /\ DOMAIN Files = Slot
    /\ \A s \in Slot : Files[s] = IF s \in Alive THEN FileMap(fd_array[s])
                                  ELSE Promise!Nothing
<1>1. ASSUME NEW s \in Slot, s \in Alive PROVE Files[s] = FileMap(fd_array[s])
  BY <1>1 DEF Files, FileMap
<1>2. ASSUME NEW s \in Slot, s \notin Alive PROVE Files[s] = Promise!Nothing
  BY <1>2 DEF Files, Promise!Nothing
<1> QED
  BY <1>1, <1>2 DEF Files

(* The files of one slot change.                                            *)
LEMMA FilesStep ==
    ASSUME NEW p \in Slot, NEW fds,
           DOMAIN fd_array = Slot, fd_array' = [fd_array EXCEPT ![p] = fds],
           \A s \in Slot \ {p} : s \in Alive' <=> s \in Alive
    PROVE  Files' = [Files EXCEPT ![p] = IF p \in Alive' THEN FileMap(fds)
                                         ELSE Promise!Nothing]
<1> DEFINE new == IF p \in Alive' THEN FileMap(fds) ELSE Promise!Nothing
<1>1. /\ DOMAIN Files' = Slot
      /\ \A s \in Slot : Files'[s] = IF s \in Alive' THEN FileMap(fd_array'[s])
                                     ELSE Promise!Nothing
  <2>1. ASSUME NEW s \in Slot, s \in Alive' PROVE Files'[s] = FileMap(fd_array'[s])
    BY <2>1 DEF Files, FileMap
  <2>2. ASSUME NEW s \in Slot, s \notin Alive' PROVE Files'[s] = Promise!Nothing
    BY <2>2 DEF Files, Promise!Nothing
  <2> QED
    BY <2>1, <2>2 DEF Files
<1>2. fd_array'[p] = fds /\ \A s \in Slot \ {p} : fd_array'[s] = fd_array[s]
  OBVIOUS
<1>3. Files'[p] = new
  BY <1>1, <1>2
<1>4. \A s \in Slot \ {p} : Files'[s] = Files[s]
  BY <1>1, <1>2, FilesAt
<1>5. Files' = [s \in Slot |-> Files'[s]] /\ Files = [s \in Slot |-> Files[s]]
  BY DEF Files
<1> HIDE DEF new
<1>6. Files' = [Files EXCEPT ![p] = new]
  BY <1>3, <1>4, <1>5, FilesAt
<1> QED
  BY <1>6 DEF new

(* The files of a slot right after execute.                                 *)
LEMMA StdMap ==
    ASSUME NEW fds \in [Fds -> Descriptor],
           \A fd \in {STDIN, STDOUT} : fds[fd] = StdOpen,
           \A fd \in Fds \ {STDIN, STDOUT} : ~fds[fd].in_use
    PROVE  FileMap(fds) = Promise!StdFiles
<1>1. OpenFds(fds) = {0, 1}
  BY StdFds DEF OpenFds, StdOpen, STDIN, STDOUT
<1>2. \A fd \in {0, 1} : OpenFile(fds[fd])
         = [stream |-> [table |-> "terminal_fops", info |-> NULL], pos |-> 0]
  BY DEF OpenFile, StdOpen, STDIN, STDOUT
<1> QED
  BY <1>1, <1>2 DEF FileMap, Promise!StdFiles

LEMMA AliveFree == \A s \in Slot : s \in Alive <=> ~Procs!Free(s)
  BY DEF Alive

LEMMA RefinesInit == Init => Promise!Init
<1> SUFFICES ASSUME Init PROVE Promise!Init
  OBVIOUS
<1>1. \A s \in Slot : Procs!Free(s)
  <2>1. \A t \in Terminal : Len(stack[t]) = 0
    BY EmptySeq DEF Init, Procs!Init
  <2> QED
    BY <2>1 DEF Procs!Free, Procs!Contains
<1>2. Alive = {}
  BY <1>1 DEF Alive
<1>3. Files = [s \in Slot |-> Promise!Nothing]
  BY <1>2 DEF Files, Promise!Nothing
<1> QED
  BY <1>2, <1>3 DEF Promise!Init

(* The three ways a call changes a descriptor are those of OpenFiles.       *)
LEMMA CallRefines ==
    ASSUME DescriptorsInv, Running, UNCHANGED <<stack, focus>>,
           NEW fd \in Fds \ {STDIN, STDOUT}, NEW f \in Descriptor,
           DescriptorOK(f), Changes(fd, f),
           fd_array' = [fd_array EXCEPT ![Current] = [Mine EXCEPT ![fd] = f]]
    PROVE  Promise!Open(Current) \/ Promise!Close(Current) \/ Promise!Read(Current)
<1> DEFINE p   == Current
           fds == [Mine EXCEPT ![fd] = f]
<1>1. p \in Slot /\ p \in Alive /\ Mine \in [Fds -> Descriptor]
  BY MineOK, AliveFree
<1>2. Alive' = Alive
  BY DEF Alive, Procs!Free
<1>3. Files[p] = FileMap(Mine) /\ DOMAIN Files = Slot
  BY <1>1, FilesAt DEF Mine
<1>4. Files' = [Files EXCEPT ![p] = FileMap(fds)]
  BY <1>1, <1>2, FilesStep DEF DescriptorsInv
<1>5. Files'[p] = FileMap(fds)
  BY <1>1, <1>3, <1>4
<1>6. DOMAIN FileMap(Mine) = OpenFds(Mine) /\ DOMAIN FileMap(fds) = OpenFds(fds)
  BY DEF FileMap
<1>7. /\ fds[fd] = f /\ \A d \in Fds \ {fd} : fds[d] = Mine[d]
      /\ fds \in [Fds -> Descriptor]
  BY <1>1
<1> HIDE DEF fds
<1>8. /\ \A d \in OpenFds(Mine) : FileMap(Mine)[d] = OpenFile(Mine[d])
      /\ \A d \in OpenFds(fds) : FileMap(fds)[d] = OpenFile(fds[d])
  BY DEF FileMap
<1>9. CASE ~Mine[fd].in_use /\ f.in_use /\ f.file_pos = 0
  <2>1. fd \in Fds \ OpenFds(Mine) /\ OpenFds(fds) = OpenFds(Mine) \cup {fd}
    BY <1>7, <1>9 DEF OpenFds
  <2>2. FileMap(fds)[fd] = OpenFile(f)
    BY <2>1, <1>7, <1>8
  <2>3. OpenFile(f).stream \in Streams /\ OpenFile(f).pos = 0
    BY <1>9 DEF OpenFile, Streams, DescriptorOK, Descriptor, Infos
  <2>4. FileMap(fds) = [d \in OpenFds(Mine) \cup {fd} |->
                           IF d = fd THEN FileMap(fds)[fd] ELSE FileMap(Mine)[d]]
    <3>1. \A d \in OpenFds(Mine) : d # fd /\ d \in Fds
      BY <2>1 DEF OpenFds
    <3> QED
      BY <2>1, <3>1, <1>7, <1>8 DEF FileMap
  <2>5. Promise!Open(p)
    BY <1>2, <1>3, <1>4, <1>5, <1>6, <2>1, <2>2, <2>3, <2>4 DEF Promise!Open
  <2> QED
    BY <2>5
<1>10. CASE Mine[fd].in_use /\ f = [Mine[fd] EXCEPT !.in_use = FALSE]
  <2>1. ~f.in_use
    BY <1>1, <1>10 DEF Descriptor
  <2>2. fd \in OpenFds(Mine) \ {0, 1} /\ OpenFds(fds) = OpenFds(Mine) \ {fd}
    BY <1>7, <1>10, <2>1 DEF OpenFds, STDIN, STDOUT
  <2>3. FileMap(fds) = [d \in OpenFds(Mine) \ {fd} |-> FileMap(Mine)[d]]
    <3>1. \A d \in OpenFds(Mine) \ {fd} : d \in Fds
      BY DEF OpenFds
    <3> QED
      BY <2>2, <3>1, <1>7, <1>8 DEF FileMap
  <2>4. Promise!Close(p)
    BY <1>2, <1>3, <1>4, <1>6, <2>2, <2>3 DEF Promise!Close
  <2> QED
    BY <2>4
<1>11. ASSUME Mine[fd].in_use, NEW pos \in Nat, pos >= Mine[fd].file_pos,
              f = [Mine[fd] EXCEPT !.file_pos = pos]
       PROVE  Promise!Read(p)
  <2>1. /\ f.in_use = Mine[fd].in_use /\ f.table = Mine[fd].table
        /\ f.info = Mine[fd].info /\ f.file_pos = pos
    BY <1>1, <1>11 DEF Descriptor
  <2>2. OpenFds(fds) = OpenFds(Mine) /\ fd \in OpenFds(Mine)
    BY <1>7, <1>11, <2>1 DEF OpenFds
  <2>3. FileMap(fds)[fd] = OpenFile(f) /\ FileMap(Mine)[fd] = OpenFile(Mine[fd])
    BY <2>2, <1>7, <1>8
  <2>4. OpenFile(f) = [OpenFile(Mine[fd]) EXCEPT !.pos = pos]
    BY <2>1 DEF OpenFile
  <2>5. OpenFile(f).pos = pos /\ OpenFile(Mine[fd]).pos = Mine[fd].file_pos
    BY <2>1 DEF OpenFile
  <2>6. FileMap(fds) = [FileMap(Mine) EXCEPT ![fd].pos = pos]
    <3>1. \A d \in OpenFds(Mine) \ {fd} : FileMap(fds)[d] = FileMap(Mine)[d]
      BY <2>2, <1>7, <1>8 DEF OpenFds
    <3>2. /\ FileMap(fds) = [d \in OpenFds(Mine) |-> FileMap(fds)[d]]
          /\ FileMap(Mine) = [d \in OpenFds(Mine) |-> FileMap(Mine)[d]]
      BY <2>2 DEF FileMap
    <3>3. FileMap(fds)[fd] = [FileMap(Mine)[fd] EXCEPT !.pos = pos]
      BY <2>3, <2>4, Zenon
    <3> QED
      BY <3>1, <3>2, <3>3, <1>6, <2>2
  <2>7. Files' = [Files EXCEPT ![p][fd].pos = pos]
    BY <1>3, <1>4, <2>6
  <2>8. Files'[p][fd].pos = pos /\ Files[p][fd].pos = Mine[fd].file_pos
    BY <1>3, <1>5, <2>3, <2>5
  <2>9. DOMAIN Files'[p] = DOMAIN Files[p] /\ fd \in DOMAIN Files[p]
    BY <1>3, <1>5, <1>6, <2>2
  <2>10. Files' = [Files EXCEPT ![p][fd].pos = Files'[p][fd].pos]
    BY <2>7, <2>8
  <2> QED
    BY <1>2, <1>11, <2>8, <2>9, <2>10 DEF Promise!Read
<1> QED
  BY <1>9, <1>10, <1>11 DEF Changes

LEMMA RefinesStep ==
    DescriptorsInv /\ [Next]_vars => [Promise!Next]_<<Alive, Files>>
<1> SUFFICES ASSUME DescriptorsInv, [Next]_vars
             PROVE  Promise!Next \/ UNCHANGED <<Alive, Files>>
  BY Zenon
<1>a. Procs!StacksOK /\ DOMAIN fd_array = Slot
  BY DEF DescriptorsInv
<1>b. ASSUME UNCHANGED stack, UNCHANGED fd_array
      PROVE  UNCHANGED <<Alive, Files>>
  BY <1>b DEF Alive, Files, Procs!Free
<1>1. CASE Launch
  <2> DEFINE p == Last(stack'[focus'])
  <2>1. /\ p \in Slot /\ Procs!Free(p)
        /\ \A q \in Slot : Procs!Free(q)' <=> Procs!Free(q) /\ q # p
    BY <1>a, <1>1, Procs!StartStack DEF Launch, Last, Procs!Last
  <2>2. fd_array' = [fd_array EXCEPT ![p] = Prepared(fd_array[p])]
    BY <1>1 DEF Launch
  <2> HIDE DEF p
  <2>3. p \notin Alive /\ Alive' = Alive \cup {p}
    BY <2>1 DEF Alive
  <2>4. Files' = [Files EXCEPT ![p] = FileMap(Prepared(fd_array[p]))]
    BY <1>a, <2>1, <2>2, <2>3, FilesStep
  <2>5. FileMap(Prepared(fd_array[p])) = Promise!StdFiles
    <3>1. /\ fd_array[p] \in [Fds -> Descriptor]
          /\ \A fd \in Fds : DescriptorOK(fd_array[p][fd])
          /\ \A fd \in {STDIN, STDOUT} : fd_array[p][fd].in_use => fd_array[p][fd] = StdOpen
          /\ \A fd \in Fds \ {STDIN, STDOUT} : ~fd_array[p][fd].in_use
      BY <2>1 DEF DescriptorsInv
    <3> QED
      BY <3>1, PreparedOK, StdMap
  <2>6. Promise!Begin(p)
    BY <2>3, <2>4, <2>5 DEF Promise!Begin
  <2> QED
    BY <2>1, <2>6 DEF Promise!Next
<1>2. CASE Switch
  BY <1>2, <1>b DEF Switch, Procs!Show
<1>3. CASE Exit
  <2>1. /\ Running /\ Current \in Slot /\ ~Procs!Free(Current)
        /\ \A q \in Slot : Procs!Free(q)' <=> Procs!Free(q) \/ q = Current
    BY <1>a, <1>3, Procs!PopStack DEF Exit, Current, Last, Procs!Last, Running
  <2>2. Current \in Alive /\ Alive' = Alive \ {Current}
    BY <2>1 DEF Alive
  <2>3. Files' = [Files EXCEPT ![Current] = Promise!Nothing]
    BY <1>a, <1>3, <2>1, <2>2, FilesStep DEF Exit
  <2>4. Promise!End(Current)
    BY <2>2, <2>3 DEF Promise!End
  <2> QED
    BY <2>1, <2>2, <2>4 DEF Promise!Next
<1>4. CASE Restart
  <2>1. Running
    BY <1>4, EmptySeq DEF Restart, Running
  <2>2. Current \in Slot /\ Current \in Alive /\ Alive' = Alive
    BY <1>4, <2>1, MineOK, AliveFree DEF Restart, Alive, Procs!Free
  <2>3. fd_array' = [fd_array EXCEPT ![Current] = Prepared(CloseAll(Mine))]
    BY <1>4 DEF Restart, Mine
  <2>4. Files' = [Files EXCEPT ![Current] = FileMap(Prepared(CloseAll(Mine)))]
    BY <1>a, <2>2, <2>3, FilesStep
  <2>5. FileMap(Prepared(CloseAll(Mine))) = Promise!StdFiles
    <3>1. /\ CloseAll(Mine) \in [Fds -> Descriptor]
          /\ \A fd \in Fds : DescriptorOK(CloseAll(Mine)[fd])
          /\ \A fd \in {STDIN, STDOUT} : CloseAll(Mine)[fd] = StdOpen
          /\ \A fd \in Fds \ {STDIN, STDOUT} : ~CloseAll(Mine)[fd].in_use
      BY <2>1, MineOK, CloseAllOK
    <3> QED
      BY <3>1, PreparedOK, StdMap
  <2>6. Promise!End(Current)
    BY <2>2, <2>4, <2>5 DEF Promise!End
  <2> QED
    BY <2>2, <2>6 DEF Promise!Next
<1>5. CASE Call
  <2>1. Running /\ UNCHANGED <<stack, focus>>
    BY <1>5, CallSteps DEF Call
  <2>2. CASE fd_array' = fd_array
    BY <2>1, <2>2, <1>b
  <2>3. ASSUME NEW fd \in Fds \ {STDIN, STDOUT}, NEW f \in Descriptor,
               DescriptorOK(f), Changes(fd, f),
               fd_array' = [fd_array EXCEPT ![Current] = [Mine EXCEPT ![fd] = f]]
        PROVE  Promise!Next
    <3>1. Promise!Open(Current) \/ Promise!Close(Current) \/ Promise!Read(Current)
      BY <2>1, <2>3, CallRefines
    <3>2. Current \in Slot /\ Current \in Alive
      BY <2>1, MineOK, AliveFree
    <3> QED
      BY <3>1, <3>2, Zenon DEF Promise!Next
  <2> QED
    BY <1>5, <2>2, <2>3, CallSteps
<1>6. CASE UNCHANGED vars
  BY <1>6, <1>b DEF vars
<1> QED
  BY <1>1, <1>2, <1>3, <1>4, <1>5, <1>6 DEF Next

(* Every program has the open files OpenFiles promises, its own and no      *)
(* others: execute starts it with stdin and stdout only, whatever the slot  *)
(* was used for, a call changes one descriptor of its caller, and halt      *)
(* leaves none open (fd_array of the PCB in syscalls.c).                    *)
THEOREM ProgramsOwnTheirFiles == Spec => ImplementsOpenFiles
<1>1. DescriptorsInv /\ ListingInv /\ [Next]_vars => [Promise!Next]_<<Alive, Files>>
  BY RefinesStep
<1> QED
  BY <1>1, RefinesInit, Invariants, PTL DEF Spec, ImplementsOpenFiles, Promise!Spec

=============================================================================
