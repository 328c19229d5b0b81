--------------------------- MODULE FileDescriptors ---------------------------
(***************************************************************************)
(* The file descriptors of the processes in src/student-distrib: open,     *)
(* close, read and write through the tables of operations (syscalls.c),    *)
(* the directory driver with its one reading position (filesysobjs.c), and *)
(* what execute and halt do to the descriptors of a slot.                  *)
(*                                                                         *)
(* Which process makes the calls, and which starts or ends, is taken from  *)
(* TerminalStacks, which the process table implements.  A slot's fd_array  *)
(* outlives its process: close clears in_use and nothing else.             *)
(***************************************************************************)
EXTENDS Directory

CONSTANTS
    Slot, Terminal, FirstTerminal,
    NUM_DESCRIPTORS,   \* descriptors of a process (8)
    FileLength,        \* FileLength[i]: bytes of inode i
    Names,             \* the names programs open
    MaxRead            \* bound: bytes asked of one file read

STDIN == 0
STDOUT == 1
NULL == 0
STDIN_ID  == <<"s", "t", "d", "i", "n">>
STDOUT_ID == <<"s", "t", "d", "o", "u", "t">>

Fds == 0 .. NUM_DESCRIPTORS - 1
Tables == {"none", "terminal_fops", "rtc_fops", "dir_fops", "file_fops"}

ASSUME DescriptorsAssumption ==
    /\ FirstTerminal \in Terminal
    /\ NUM_DESCRIPTORS \in Nat /\ NUM_DESCRIPTORS > 2
    /\ MaxRead \in Nat
    /\ \A i \in DOMAIN Dir : Dir[i].file_type = STANDARD =>
          FileLength[Dir[i].inode_num] \in Nat

VARIABLES
    stack, focus,     \* as in TerminalStacks
    fd_array,         \* fd_array[s][fd] of the PCB of slot s
    directoryIndex,   \* the static variable of dir_read
    listed            \* history: what dir_read gave since it last said 0

vars == <<stack, focus, fd_array, directoryIndex, listed>>

Procs == INSTANCE TerminalStacks

(* The process that makes calls: the top one of the terminal on the screen. *)
Running == stack[focus] # <<>>
Current == Last(stack[focus])
Mine    == fd_array[Current]

Closed == [in_use |-> FALSE, table |-> "none", info |-> NULL, file_pos |-> 0]

Init ==
    /\ Procs!Init
    /\ fd_array = [s \in Slot |-> [fd \in Fds |-> Closed]]
    /\ directoryIndex = 0
    /\ listed = <<>>

TypeOK ==
    /\ fd_array \in [Slot -> [Fds -> [in_use : BOOLEAN, table : Tables,
                                      info : Nat, file_pos : Nat]]]
    /\ \A s \in Slot, fd \in Fds : LET f == fd_array[s][fd] IN
          /\ f.in_use => f.table # "none"
          /\ f.table = "file_fops" => f.file_pos <= FileLength[f.info]
    /\ directoryIndex \in 0 .. Len(Dir)

-----------------------------------------------------------------------------
(* What open writes into a descriptor f.                                    *)
SetUp(f, table, info) ==
    [in_use |-> TRUE, table |-> table, info |-> info, file_pos |-> 0]

OpenStd(fds, fd) ==
    IF fds[fd].in_use THEN fds
    ELSE [fds EXCEPT ![fd] = SetUp(@, "terminal_fops", NULL)]

(* Mutant: halt closes all descriptors but the last.                        *)
CloseMost(fds) ==
    [fd \in Fds |-> IF fd \in {STDIN, STDOUT, NUM_DESCRIPTORS - 1} THEN fds[fd]
                    ELSE [fds[fd] EXCEPT !.in_use = FALSE]]

(* halt's loop: close refuses stdin and stdout.                             *)
CloseAll(fds) ==
    [fd \in Fds |-> IF fd \in {STDIN, STDOUT} THEN fds[fd]
                    ELSE [fds[fd] EXCEPT !.in_use = FALSE]]

(* execute opens stdin and stdout of the process it starts.                 *)
Prepared(fds) == OpenStd(OpenStd(fds, STDIN), STDOUT)

(* A terminal opened by Ctrl+n, or a program run in the one on the screen.  *)
Launch ==
    /\ Procs!Run \/ \E t \in Terminal : Procs!Open(t)
    /\ fd_array' = [fd_array EXCEPT ![Last(stack'[focus'])] = Prepared(@)]
    /\ UNCHANGED <<directoryIndex, listed>>

Switch ==
    /\ \E t \in Terminal \ {focus} : Procs!Show(t)
    /\ UNCHANGED <<fd_array, directoryIndex, listed>>

(* halt, back to the parent.                                                *)
Exit ==
    /\ Procs!Exit
    /\ fd_array' = [fd_array EXCEPT ![Current] = CloseAll(@)]
    /\ UNCHANGED <<directoryIndex, listed>>

(* halt of the boot shell: a new one takes its slot at once.                *)
Restart ==
    /\ focus = FirstTerminal /\ Len(stack[focus]) = 1
    /\ fd_array' = [fd_array EXCEPT ![Current] = Prepared(CloseAll(@))]
    /\ UNCHANGED <<stack, focus, directoryIndex, listed>>

-----------------------------------------------------------------------------
(* What a system call answers: the caller's descriptors, and not -1.        *)
Fails == [fds |-> Mine, ok |-> FALSE]
Succeeds(fd, f) == [fds |-> [Mine EXCEPT ![fd] = f], ok |-> TRUE]

TableFor(type) == CASE type = RTC       -> "rtc_fops"
                    [] type = DIRECTORY -> "dir_fops"
                    [] type = STANDARD  -> "file_fops"

FreeFds == {fd \in Fds \ {STDIN, STDOUT} : ~Mine[fd].in_use}

OpenStream(fd) ==
    IF Mine[fd].in_use THEN Fails
    ELSE Succeeds(fd, SetUp(Mine[fd], "terminal_fops", NULL))

OpenEntry(n) ==
    IF n = NotFound \/ FreeFds = {} THEN Fails
    ELSE LET fd == Min(FreeFds) IN
         Succeeds(fd, SetUp(Mine[fd], TableFor(Dir[n].file_type), Dir[n].inode_num))

open(name) ==
    CASE IsPrefix(STDIN_ID, name)  -> OpenStream(STDIN)
      [] IsPrefix(STDOUT_ID, name) -> OpenStream(STDOUT)
      [] OTHER                     -> OpenEntry(read_dentry_by_name(name))

Closable(fd) == fd \in Fds \ {STDIN, STDOUT}

close(fd) ==
    IF ~Closable(fd) THEN Fails
    ELSE IF ~Mine[fd].in_use THEN Fails
    ELSE Succeeds(fd, [Mine[fd] EXCEPT !.in_use = FALSE])

-----------------------------------------------------------------------------
(* Mutant: a descriptor that was ever open is usable.                       *)
UsableUnopened(fd, buf) == fd \in Fds /\ buf # NULL /\ Mine[fd].table # "none"

(* The tests of read and write before they use the table of operations.     *)
Usable(fd, buf) == fd \in Fds /\ buf # NULL /\ Mine[fd].in_use

(* The write entries of the tables; only their answers matter here.         *)
Writable(fd) ==
    \/ Mine[fd].table = "terminal_fops" /\ fd = STDOUT
    \/ Mine[fd].table = "rtc_fops"

write(fd, buf) ==
    IF Usable(fd, buf) /\ Writable(fd) THEN Succeeds(fd, Mine[fd]) ELSE Fails

(* Mutant: the position moves by what was asked, not by what was read.      *)
MoveByAsked(fd, nbytes) == Succeeds(fd, [Mine[fd] EXCEPT !.file_pos = @ + nbytes])

(* file_read, which FileRead models byte by byte.                           *)
file_read(fd, nbytes) ==
    LET left == FileLength[Mine[fd].info] - Mine[fd].file_pos IN
    Succeeds(fd, [Mine[fd] EXCEPT !.file_pos = @ + Min({nbytes, left})])

Listing(fd, buf) == Usable(fd, buf) /\ Mine[fd].table = "dir_fops"

(* The read entries of the tables; what else dir_read does is DirRead.      *)
read(fd, buf, nbytes) ==
    IF ~Usable(fd, buf) THEN Fails
    ELSE CASE Mine[fd].table = "terminal_fops" ->
                  IF fd = STDIN THEN Succeeds(fd, Mine[fd]) ELSE Fails
           [] Mine[fd].table \in {"rtc_fops", "dir_fops"} -> Succeeds(fd, Mine[fd])
           [] Mine[fd].table = "file_fops" -> file_read(fd, nbytes)

(* dir_read, with the one index all descriptors of all processes share.     *)
DirRead ==
    LET n == read_dentry_by_index(directoryIndex) IN
    IF n = NotFound
    THEN directoryIndex' = 0 /\ listed' = <<>>
    ELSE /\ directoryIndex' = directoryIndex + 1
         /\ listed' = Append(listed, Listed(Dir[n]))

-----------------------------------------------------------------------------
Buffers == {NULL, 1}
AnyFd == 0 .. NUM_DESCRIPTORS   \* one of them too large

Returns(r) ==
    /\ fd_array' = [fd_array EXCEPT ![Current] = r.fds]
    /\ UNCHANGED <<stack, focus>>

Open ==
    /\ \E name \in Names : Returns(open(name))
    /\ UNCHANGED <<directoryIndex, listed>>

Close ==
    /\ \E fd \in AnyFd : Returns(close(fd))
    /\ UNCHANGED <<directoryIndex, listed>>

Write ==
    /\ \E fd \in AnyFd, buf \in Buffers : Returns(write(fd, buf))
    /\ UNCHANGED <<directoryIndex, listed>>

Read == \E fd \in AnyFd, buf \in Buffers, nbytes \in 0 .. MaxRead :
    /\ Returns(read(fd, buf, nbytes))
    /\ IF Listing(fd, buf) THEN DirRead ELSE UNCHANGED <<directoryIndex, listed>>

Call == Running /\ (Open \/ Close \/ Write \/ Read)

Next == Launch \/ Switch \/ Exit \/ Restart \/ Call

Spec == Init /\ [][Next]_vars

-----------------------------------------------------------------------------
Alive == {s \in Slot : ~Procs!Free(s)}

OpenFile(f) == [stream |-> [table |-> f.table, info |-> f.info], pos |-> f.file_pos]
OpenFds(fds) == {fd \in Fds : fds[fd].in_use}

Files == [s \in Slot |-> [fd \in IF s \in Alive THEN OpenFds(fd_array[s]) ELSE {} |->
                             OpenFile(fd_array[s][fd])]]

Streams == [table : Tables \ {"none"},
            info : {NULL} \cup {Dir[i].inode_num : i \in DOMAIN Dir}]

Promise == INSTANCE OpenFiles
    WITH Process <- Slot, Descriptor <- Fds, Stream <- Streams,
         Terminal <- [table |-> "terminal_fops", info |-> NULL],
         alive <- Alive, files <- Files

(* However slots are reused and calls of several programs interleave, every *)
(* program has exactly the open files OpenFiles promises: a new one only    *)
(* stdin and stdout, whatever the last process of its slot left in the PCB. *)
ImplementsOpenFiles == Promise!Spec

(* Bad calls fail for any program, at any time, as ece391syserr's           *)
(* err_neg_fd, err_big_fd, err_unopened and err_stdin_out expect: writing   *)
(* to stdin, reading from stdout, closing either, and any use of a          *)
(* descriptor that is not open or does not exist.  And as err_open_lots     *)
(* expects, a name of the directory opens something until the program has   *)
(* all its descriptors open.  What err_open expects is ErrOpenPasses.       *)
BadCallsFail == Running =>
    /\ \A fd \in AnyFd :
          LET open_fd == fd \in OpenFds(Mine) IN
          /\ close(fd).ok <=> open_fd /\ fd > STDOUT
          /\ write(fd, 1).ok => open_fd /\ fd # STDIN
          /\ \A n \in 0 .. MaxRead : read(fd, 1, n).ok => open_fd /\ fd # STDOUT
    /\ \A i \in DOMAIN Dir :
          open(Dir[i].name).ok <=> OpenFds(Mine) # Fds

(* The names dir_read hands out between two ends, to whoever asks, are all  *)
(* the names of the directory, each once, in order and whole, also one that *)
(* fills its field and runs into the file type behind it.  (Two programs    *)
(* that list at the same time share them: the index is one.)                *)
Whole == [i \in DOMAIN Dir |-> [count |-> Len(Dir[i].name), name |-> Dir[i].name]]
ListingIsWhole ==
    [][/\ IsPrefix(listed', Whole)
       /\ listed # <<>> /\ listed' = <<>> => listed = Whole]_vars

-----------------------------------------------------------------------------
(* A property a test of the repository states and the code breaks: TLC      *)
(* refutes it in the instance of the run (README, section 5).               *)

(* Only the name of an entry opens.  ece391syserr's err_open expects -1 for *)
(* a name with a character too many, "short of filename by one character"   *)
(* and the empty one (ece391syserr.c:133-151); the second opens the first   *)
(* entry that begins with it (filesysobjs.c:52).                            *)
ErrOpenPasses == Running => \A name \in Names :
    open(name).ok => \E i \in DOMAIN Dir : Dir[i].name = name

=============================================================================
