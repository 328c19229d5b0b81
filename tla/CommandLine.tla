----------------------------- MODULE CommandLine -----------------------------
(***************************************************************************)
(* From the line a user enters to the arguments a program gets: the shell  *)
(* (syscalls/ece391shell.c), execute's parsing of the line and the copy it *)
(* leaves in the PCB, halt's clearing of it, and getargs (syscalls.c).     *)
(*                                                                         *)
(* Which terminal is on the screen and which process runs in it is taken   *)
(* from TerminalStacks, the copying from LibC.  The buffers hold more than *)
(* any line: what execute does to memory with longer ones is not modelled. *)
(***************************************************************************)
EXTENDS Directory, LibC

CONSTANTS
    Slot, Terminal, FirstTerminal,
    Executable,          \* the inodes whose file begins with EXEC_BITS
    FILENAME_SIZE,       \* bytes of file_name (32)
    MAX_ARG_BUF_SIZE,    \* bytes of args and arg_buffer (95)
    ShellName, ExitLine, \* "shell" and "exit"
    Lines,               \* the lines users enter: a NUL would end one
    Requests             \* the nbytes programs pass to getargs

SPACE == " "

ASSUME CommandLineAssumption ==
    /\ FirstTerminal \in Terminal
    /\ FILENAME_SIZE \in Nat /\ MAX_ARG_BUF_SIZE \in Nat
    /\ Requests \subseteq Int
    /\ \A line \in Lines \cup {ShellName} :
          /\ line \in Seq(STRING \ {NUL})
          /\ Len(line) < FILENAME_SIZE /\ Len(line) < MAX_ARG_BUF_SIZE

VARIABLES
    stack, focus,   \* as in TerminalStacks
    filename,       \* filename[s] in the PCB of slot s: its program
    args,           \* args[s] in the PCB of slot s
    given,          \* history: the line the process of slot s was started with
    got,            \* the buffer of the process of slot s after its getargs,
    asked,          \*   and the nbytes it passed
    rval            \* what execute last returned to the shell of slot s

vars == <<stack, focus, filename, args, given, got, asked, rval>>

Procs == INSTANCE TerminalStacks

Running == stack[focus] # <<>>
Current == Last(stack[focus])
Alive == {s \in Slot : ~Procs!Free(s)}

Cleared(size) == [i \in 1 .. size |-> NUL]
Nothing == <<>>   \* a buffer getargs has not written

NoSuchCommand == -1
TooMany == -10

Init ==
    /\ Procs!Init
    /\ filename = [s \in Slot |-> Cleared(FILENAME_SIZE)]
    /\ args = [s \in Slot |-> Cleared(MAX_ARG_BUF_SIZE)]
    /\ given = [s \in Slot |-> <<>>]
    /\ got = [s \in Slot |-> Nothing]
    /\ asked = [s \in Slot |-> 0]
    /\ rval = [s \in Slot |-> 0]

-----------------------------------------------------------------------------
(* execute's loop over the command: what it has of the name and the         *)
(* arguments, and whether the spaces before the part it is at are behind.   *)
Scan(p, c) ==
    LET behind == p.handled_lz \/ c # SPACE IN
    CASE ~behind -> p
      [] behind /\ ~p.parsed_filename /\ c # SPACE ->
             [p EXCEPT !.handled_lz = TRUE, !.file_name = Append(@, c)]
      [] behind /\ ~p.parsed_filename /\ c = SPACE ->
             [p EXCEPT !.handled_lz = FALSE, !.parsed_filename = TRUE]
      [] behind /\ p.parsed_filename ->
             [p EXCEPT !.handled_lz = TRUE, !.arg_buffer = Append(@, c)]

Start == [handled_lz |-> FALSE, parsed_filename |-> FALSE,
          file_name |-> <<>>, arg_buffer |-> <<>>]

(* Scanned(command)[i]: after i characters.                                 *)
Scanned(command) ==
    LET scanned[i \in 0 .. Len(command)] ==
            IF i = 0 THEN Start ELSE Scan(scanned[i - 1], command[i])
    IN  scanned

(* A buffer that was cleared, with the characters w stored in it.           *)
Filled(w, size) == w \o [i \in 1 .. size - Len(w) |-> NUL]

(* The buffers after the loop.                                              *)
Parse(command) ==
    LET p == Scanned(command)[Len(command)]
    IN  [file_name  |-> Filled(p.file_name, FILENAME_SIZE),
         arg_buffer |-> Filled(p.arg_buffer, MAX_ARG_BUF_SIZE)]

(* Mutant: the rest of the bytes is not filled.                             *)
CopyOnly(size, buf) == strcpy(buf, CString(<<>>))

(* strncpy(buf, "\0", size)                                                 *)
Clear(size, buf) == strncpy(buf, CString(<<>>), size)

(* The arguments in a PCB: cleared, then copied without their NUL.          *)
Stored(old, arg_buffer) ==
    strncpy(Clear(MAX_ARG_BUF_SIZE, old), arg_buffer, strlen(arg_buffer))

(* read_dentry_by_name(file_name) and the test for EXEC_BITS.               *)
Entry(file_name) == read_dentry_by_name(Text(file_name))
Runs(file_name) == Entry(file_name) # NotFound
                   /\ Dir[Entry(file_name)].inode_num \in Executable

(* The PCB of slot s for a command that runs.                               *)
FillPcb(s, command) ==
    LET p == Parse(command) IN
    /\ filename' = [filename EXCEPT ![s] =
           strncpy(Clear(FILENAME_SIZE, @), p.file_name, FILENAME_SIZE)]
    /\ args' = [args EXCEPT ![s] = Stored(@, p.arg_buffer)]
    /\ given' = [given EXCEPT ![s] = command]
    /\ got' = [got EXCEPT ![s] = Nothing]
    /\ asked' = [asked EXCEPT ![s] = 0]

-----------------------------------------------------------------------------
(* Ctrl+n opens a terminal with a shell.                                    *)
OpenTerminal ==
    /\ \E t \in Terminal : Procs!Open(t)
    /\ FillPcb(Last(stack'[focus']), ShellName)
    /\ rval' = [rval EXCEPT ![Last(stack'[focus'])] = 0]

Switch ==
    /\ \E t \in Terminal \ {focus} : Procs!Show(t)
    /\ UNCHANGED <<filename, args, given, got, asked, rval>>

InShell == Running /\ Text(filename[Current]) = ShellName

(* The shell compares with "exit" and skips an empty line.                  *)
Executed(line) == line # ExitLine /\ line # <<>>

EnterCommand == \E line \in Lines :
    /\ InShell /\ Executed(line)
    /\ Runs(Parse(line).file_name)
    /\ Procs!Run
    /\ FillPcb(Last(stack'[focus]), line)
    /\ rval' = [rval EXCEPT ![Last(stack'[focus])] = 0]

Refused(value) ==
    /\ rval' = [rval EXCEPT ![Current] = value]
    /\ UNCHANGED <<stack, focus, filename, args, given, got, asked>>

EnterUnknown == \E line \in Lines :
    /\ InShell /\ Executed(line)
    /\ ~Runs(Parse(line).file_name)
    /\ Refused(NoSuchCommand)

EnterWhenFull == \E line \in Lines :
    /\ InShell /\ Executed(line)
    /\ Runs(Parse(line).file_name)
    /\ Alive = Slot
    /\ Refused(TooMany)

Ends == Running /\ (InShell => ExitLine \in Lines)

(* halt, which clears the PCB; execute returns 0 to the parent, whatever    *)
(* status the program gave.                                                 *)
Exit ==
    /\ Ends
    /\ Procs!Exit
    /\ filename' = [filename EXCEPT ![Current] = Clear(FILENAME_SIZE, @)]
    /\ args' = [args EXCEPT ![Current] = Clear(MAX_ARG_BUF_SIZE, @)]
    /\ rval' = [rval EXCEPT ![Last(stack'[focus])] = 0]
    /\ UNCHANGED <<given, got, asked>>

(* halt of the boot shell: another one takes its slot.                      *)
Restart ==
    /\ Ends /\ focus = FirstTerminal /\ Len(stack[focus]) = 1
    /\ FillPcb(Current, ShellName)
    /\ rval' = [rval EXCEPT ![Current] = 0]
    /\ UNCHANGED <<stack, focus>>

Fails(s, nbytes) == args[s][1] = NUL \/ nbytes <= 0

(* Mutant: nothing is written behind the arguments.                         *)
CopiedBare(s) == Text(args[s])

(* What getargs writes: MAX_ARG_BUF_SIZE bytes, whatever nbytes says.       *)
(* Left out is the clearing before it (syscalls.c:684): memcpy(buf, "\0",   *)
(* strlen(buf)) copies as many bytes as the caller's buffer held, from a    *)
(* literal of two; what lands behind the MAX_ARG_BUF_SIZE bytes, in a       *)
(* buffer that held a longer string, is whatever follows the literal.       *)
Copied(s) == Filled(Text(args[s]), MAX_ARG_BUF_SIZE)

Getargs == \E nbytes \in Requests :
    /\ Running
    /\ ~Fails(Current, nbytes)
    /\ got' = [got EXCEPT ![Current] = Copied(Current)]
    /\ asked' = [asked EXCEPT ![Current] = nbytes]
    /\ UNCHANGED <<stack, focus, filename, args, given, rval>>

Next ==
    \/ OpenTerminal \/ Switch
    \/ EnterCommand \/ EnterUnknown \/ EnterWhenFull
    \/ Getargs \/ Exit \/ Restart

Spec == Init /\ [][Next]_vars

-----------------------------------------------------------------------------
(* The words of a line: its name, and from the first character after the    *)
(* spaces behind it to the end of the line, spaces included.                *)
FirstFrom(line, i, Is(_)) ==
    Min({j \in i .. Len(line) + 1 : j > Len(line) \/ Is(line[j])})
NameOf(line) ==
    LET b == FirstFrom(line, 1, LAMBDA c : c # SPACE)
    IN  SubSeq(line, b, FirstFrom(line, b, LAMBDA c : c = SPACE) - 1)
ArgsOf(line) ==
    LET b == FirstFrom(line, 1, LAMBDA c : c # SPACE)
        e == FirstFrom(line, b, LAMBDA c : c = SPACE)
    IN  SubSeq(line, FirstFrom(line, e, LAMBDA c : c # SPACE), Len(line))

(* Every buffer keeps its size and holds a string that ends within it.      *)
TypeOK ==
    /\ \A s \in Slot :
          /\ Len(filename[s]) = FILENAME_SIZE /\ Contains(filename[s], NUL)
          /\ Len(args[s]) = MAX_ARG_BUF_SIZE /\ Contains(args[s], NUL)
          /\ got[s] # Nothing => Len(got[s]) = MAX_ARG_BUF_SIZE /\ Contains(got[s], NUL)
    /\ asked \in [Slot -> Requests \cup {0}]
    /\ rval \in [Slot -> {0, NoSuchCommand, TooMany}]

(* The arguments of s and their NUL fit in a buffer of nbytes.              *)
Fits(s, nbytes) == Len(ArgsOf(given[s])) + 1 <= nbytes

(* Every process, the one that runs and those that wait for their children  *)
(* or behind another terminal, has the name and exactly the arguments of    *)
(* the line it was started with, nothing of what its slot held before; and  *)
(* getargs into a buffer that is large enough gives it these, or fails for  *)
(* want of arguments and for no other reason.                               *)
ArgsArrive == \A s \in Alive :
    /\ Text(filename[s]) = NameOf(given[s])
    /\ Text(args[s]) = ArgsOf(given[s])
    /\ \A nbytes \in Requests :
          Fits(s, nbytes) => (Fails(s, nbytes) <=> ArgsOf(given[s]) = <<>>)
    /\ got[s] # Nothing /\ Fits(s, asked[s]) => Text(got[s]) = ArgsOf(given[s])

-----------------------------------------------------------------------------
(* A property the source states and the code breaks: TLC refutes it in the  *)
(* instance of the run (README, section 5).                                 *)

(* "If the arguments and a terminal NULL (0-byte) do not fit in the buffer, *)
(* simply return -1" (syscalls.c:665): what getargs filled was as large as  *)
(* that.  The test that compares them has an empty statement                *)
(* (syscalls.c:678).                                                        *)
SmallBufferRefused == \A s \in Alive : got[s] # Nothing => Fits(s, asked[s])

=============================================================================
