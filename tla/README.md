# A verification model of the ECE 391 student kernel

The repository is a teaching operating system for one x86 processor. This
directory holds TLA+ models of its kernel, the TLC configurations that check
them on small instances, and TLAPS proofs that hold for every instance. Paths
are relative to `src/student-distrib` unless they start with `src/`.

    tlc -config table_roots_stay.cfg MCProcessTable.tla     # a run
    tlapm ProcessTableProofs.tla                            # the proofs

`PROJECT.json` lists the runs, the theorems, the source lines every definition
stands for, and for every checked property a mutated definition that breaks it.

## 1. The system

One processor and no preemption: `scheduler.c` is never called. A program runs
in user mode until it makes a system call (`int 0x80`; `syscall_handler.S`
turns interrupts off first) or an interrupt arrives. Three text terminals,
chosen with Ctrl+1/2/3, share the screen and the keyboard. Only the process of
the terminal on the screen runs; the others are frozen on their kernel stacks,
inside the keyboard interrupt that switched away from them.

| component | state | operations | interacts with |
|---|---|---|---|
| process table (`syscalls.c`) | bit vector `processes`; per slot a PCB and a kernel stack at a fixed address (`parent_pcb`, `parent_sp`, `parent_bp`, `term_start`, `fd_array`, `filename`, `args`); globals `old_esp`, `old_ebp`; `tss.esp0` | `execute`, `halt` | terminals (`running_pcb`), paging (`load_new_process`), descriptors, file images |
| terminals (`syscalls.c`, `keyboard_driver.c`) | `terms[3]`: `been_here`, `running_pcb`, saved `esp`, `ebp`, `esp0`, cursor, keyboard buffer, screen; `current_terminal` | `switch_to_other_term`, called in the keyboard interrupt | runs `execute("shell")` in the interrupt; saves and restores what the other components keep globally |
| line discipline (`keyboard_driver.c`, `terminal_driver.c`) | `input_buffer`, `length_typed`, `temp_buffer`, `old_length_typed`, `can_read`, `ctrl_pressed`, cursor | key press, key release, `terminal_read`, `terminal_write` | `terminal_read` spins, interrupts on, on a flag the interrupt sets; a switch saves a part of the state |
| regular files (`filesysobjs.c`) | the position in a descriptor; the image is read-only | `file_read`, `read_data` | `read`; `execute` loads programs with `read_data` |
| directory (`filesysobjs.c`) | the static index of `dir_read` | `read_dentry_by_name`, `read_dentry_by_index`, `dir_read` | `open`, `execute` |
| file descriptors (`syscalls.c`) | `fd_array[8]` of the running PCB | `open`, `close`, `read`, `write` | dispatch to the drivers; `execute` sets up stdin and stdout, `halt` closes |
| command parser (`syscalls.c`) | `filename` and `args` of the PCB | the scan in `execute`, the clearing in `halt`, `getargs` | the shell calls `execute`, programs call `getargs` |
| console (`lib.c`, `keyboard_driver.c`) | video memory, cursor, one saved screen per terminal | `putc`, echo, scroll, clear | everything that prints; switches copy whole screens |
| real-time clock (`rtc.c`) | one rate, one tick flag | open, close, read, write, interrupt | readers in all terminals |
| interrupt controller (`i8259.c`) | two mask bytes | `enable_irq`, `disable_irq`, `send_eoi` | drivers, every handler |
| paging (`paging_handler.c`) | one page directory, one page table for video memory | `page_directory_set`, `load_new_process`, `vidmap` | `execute`, `halt`, switches |
| boot, IDT, exceptions (`kernel.c`, `idt.c`, `*.S`) | descriptor tables | initialisation; one handler per exception, which prints and spins | |
| scheduler (`scheduler.c`) | | none is called | dead code |
| library (`lib.c`, `src/syscalls/ece391support.c`) | the processor's direction flag | strings, numbers, `printf`, blocks of memory | used by all |
| user programs (`src/syscalls`), `src/fish`, prebuilt tools | | the environment | system calls |

What is hard in each, and what makes it correct:

* **Process table and terminals.** A switch is an interrupt that may find a
  process in user mode, spinning in the kernel, or in the tail of `halt`, and
  moves the processor by replacing `esp`, `ebp`, `esp0` and a page directory
  entry one by one. Correct means: registers and address space always belong to
  one process; a parent waits for exactly one child; slots neither leak nor get
  shared; no destroyed frame is ever returned through.
* **Line discipline.** Reader and interrupt share five globals with no lock; the
  three terminals share them too. Correct means: a read returns the line its own
  user entered, not more than it asked for, and it does return.
* **Files.** The copy loop steps through blocks that lie anywhere, from any
  offset, in 32-bit arithmetic. Correct means: successive reads return the file.
* **Directory.** Names are compared up to the length of the name asked for; one
  index serves all listings. Correct means: only an existing name opens (it is not
  so), and the listing hands out every entry once, whole.
* **File descriptors.** `fd_array` stays in the PCB when the slot is reused, and
  `halt` closes by calling `close`. Correct means: a process never finds a
  descriptor it did not open, and its position moves only by its own reads.
* **Command parser.** Fixed buffers, a terminator stored at the length of the
  whole command, `getargs` with two meanings of "no arguments".
* **Console.** Cursor at the edges; copies to and from saved screens must not mix
  terminals.
* **Clock.** One rate and one flag for all readers: a reader must return, and not
  before a tick; the chip must run at the rate asked for last.
* **Interrupt controller.** `enable_irq` toggles (XOR); every path out of a
  handler must acknowledge (the Ctrl+F3 path does not).
* **Paging.** One page directory for all: what `vidmap` maps stays mapped, and
  every change of program must make the processor forget the last one's pages.
* **Library.** The block functions split at alignments, and `grep` moves the rest of
  a line to the front of a full buffer. Correct means: each does what its name says
  at every length and alignment. (`memmove` leaves the direction flag set; nothing
  in the repository calls it.)

`hazards` in `PROJECT.json` lists these line by line, with the properties that
cover each or the reason none does.

## 2. The modules

| module | what it is |
|---|---|
| `ProcessTable` | process slots, terminals, `execute`, `halt`, terminal switches, down to kernel stacks and saved registers |
| `TerminalStacks` | abstract: every terminal is a stack of processes; with the lemmas about pushing and popping that the modules using it cite |
| `ProcessTableRefinement` | the stacks as chains of `parent_pcb`; `ProcessTable` implements `TerminalStacks` |
| `ProcessTableProofs` | theorems about `ProcessTable`, including that it implements `TerminalStacks` |
| `LineDiscipline` | keyboard interrupt and `terminal_read`, step by step |
| `LineDisciplineProofs` | theorems about `LineDiscipline` |
| `FileRead` | `file_read` and the loop of `read_data`, byte by byte |
| `FileStream` | abstract: an open file returns its bytes in order |
| `FileReadProofs` | theorems about `FileRead`, including that it implements `FileStream` |
| `Directory` | operators: `read_dentry_by_name`, `read_dentry_by_index`, the names `dir_read` hands out |
| `FileDescriptors` | `fd_array` of every slot, the four calls on it, `dir_read`'s index; extends `Directory`, instantiates `TerminalStacks` |
| `OpenFiles` | abstract: every process has open files of its own; `FileDescriptors` implements it |
| `FileDescriptorsProofs` | theorems about `FileDescriptors`, including that |
| `Pic` | the two 8259 chips and `i8259.c`'s masks |
| `Rtc` | the clock chip and its driver |
| `Interrupts` | composes `Pic`, `Rtc`, the two handlers, boot and the programs that use the clock |
| `InterruptsProofs` | theorems about `Interrupts` |
| `Console` | operators: `putc`, echo, scrolling, clearing, copies of screens |
| `Paging` | operators: the page directory, what it and the processor's memory of it let a program reach |
| `Display` | composes `Console` and `Paging` with programs, keys and switches; instantiates `TerminalStacks` |
| `DisplayProofs` | theorems about `Display`, `Console` and `Paging` |
| `LibC` | operators: the two libraries |
| `Grep` | operators: the search of `ece391grep.c` |
| `Library` | calls of `LibC` and `Grep` in any order |
| `CommandLine` | shell, `execute`'s parser, `halt`'s clearing, `getargs`; uses `Directory` and `LibC`, instantiates `TerminalStacks` |
| `CommandLineProofs` | theorems about `CommandLine`, and about `Library`, which stand on the same lemmas about C strings |
| `MC...` | named values of constants for the runs |

`TerminalStacks` is the joint between the modules: `ProcessTable` implements it, and
`FileDescriptors`, `Display` and `CommandLine` take from it who runs, starts and
ends. They inherit its condition: no first shell but slot 0's exits
(`root_exit`, section 5).

### ProcessTable

A slot, its PCB (at `8 MB - 8 KB * (p + 1)`) and its kernel stack share one name
`p`, because the code computes the addresses of both from `p`. What a kernel
stack *holds* is `kstack[p]`, one of seven modes: nothing (`user`), a process
spinning in `terminal_read` or `rtc_read` (`kernel`), one spinning in an
exception handler (`fault`), the frame of `execute` whose child runs
(`execute`), that frame once `halt` has loaded `esp` (`jump`), and frames nobody
may return through (`dead`). `cpu` is the stack `esp` points into, `esp0` the
field of the TSS, `image` the process whose page is mapped at 128 MB. `lost`
becomes true when control goes through a frame that is no longer there; after
that nothing is known and nothing happens.

| action | code |
|---|---|
| `Boot` | `kernel.c`: `execute("shell")` at the end of `entry` |
| `Execute` | system call `execute`; its failures change nothing here. The scan for a slot, the PCB fields, `running_pcb`, `been_here`, `esp0` are `Start` |
| `HaltFirstShell` | `halt` of slot 0 or of a process with `term_start`: bit cleared, `execute("shell")` |
| `HaltToParent` | any other `halt`, up to the load of `esp` |
| `Jump` | the rest: load of `ebp`, jump, return to user mode. Separate because `halt` executes `sti` before these loads |
| `EnterWait`, `LeaveWait` | `terminal_read`, `rtc_read`: spinning with interrupts on |
| `Exception` | the handlers of `idt.c` |
| `SwitchTo`, `OpenTerminal`, `OpenTerminalFull` | `switch_to_other_term`: a terminal seen before, a new one, a new one with every slot taken |

System calls run with interrupts off, so a call is one action except at the two
places where the code turns them on. `execute`'s epilogue stores its result
below `ebp`; if `ebp` is another stack's, the store lands in what that stack
holds, and `Jump` lets it hit or miss.

The environment is cut by `Admitted`, the set of user actions the code does not
survive that an instance lets happen: `exit_root` (the first shell of a terminal
other than slot 0 exits), `open_when_full` (a new terminal with every slot
taken), `switch_in_halt` (Ctrl+n between `halt`'s two loads). The properties
come in four groups: those that hold whatever is admitted, those that hold
without `exit_root`, those that hold with none of the three, and those that the
source states and one of the events breaks (section 5).

`halt`'s status byte is not modelled: `halt` stores it nowhere, and `execute`
returns 0 to the parent (`rval` in `CommandLine`).

### LineDiscipline

The state is the globals of the two drivers under their own names, the part of
`terms[]` a switch saves, and per terminal a program counter of
`terminal_read`: `spin` (line 108), `terminate` (110-114), `copy` (112, 115),
`clear` (121), `flush` (122). A key or a switch may fall between any two of
them. `temp_buffer` has one extra cell, the byte the linker put behind it; in the
repository's `bootimg` it is the global `processes`. The history variables
`typed`, `entered` and `unread` record what the user sees on the screen's last
line, the last line entered and whose it was; no action's guard reads them except
`LineBound`, which stops a user who has typed more than the buffer takes (a bound,
not code). `BetweenLines` and `Awaited` restrict the user, not the code:
`type_ahead`, `switch_mid_line` and `full_line` lift them. `terminal_write`
leaves the cursor at any cell: what it prints is not modelled. Of the screen only
the cursor is kept, because backspace shortens the line only if the cursor can
move back. Three properties at the end of the module are what the source states and
the code breaks (section 5).

The assumption `LINE_SIZE <= NUM_COLS * (NUM_ROWS - 1)` (128 <= 80 * 24 in the
code) is needed: a longer line would scroll its own beginning off the screen, the
cursor would meet the origin, and backspace would stop erasing while characters
remain.

### FileRead

A byte is represented by its address, `Block[b] * BLOCK_SIZE + offset`, so a copy
from a wrong block is visible. `Call` is `file_read` and `read_data` up to the
loop (the clip of the length is done modulo `WORD`, the block pointer and counter
are computed from the offset), `Iterate` is one iteration, `Return` adds the
number of bytes to `file_pos`, `Reopen` is `close` and `open` of the same file.
`Block` has one word more than the inode: a read at the end of a file that fills
its inode fetches it, and does not use it. `MaxRequest` bounds the argument: a
program that asks for more than its memory dies in `file_read`'s `memset`. An
empty file returns an error before the loop.

### FileDescriptors

`fd_array[s][fd]` is the array in the PCB of slot `s`. It outlives the process:
`close` and `halt` clear `in_use` and leave table, inode and position behind, and
the next process of the slot finds them. A descriptor's table of operations is its
name (`"file_fops"`). The calls `open`, `close`, `read`, `write` are operators that
return the new array and whether the call succeeded, so that a property can ask
what a call *would* answer in any state; the actions of the same names with a
capital apply them. `Launch`, `Exit` and `Restart` are `execute`'s and `halt`'s
part. `listed` is a history variable: the names `dir_read` has given since it last
reported the end. A name is a sequence of characters because `open` and
the directory compare prefixes. `BadCallsFail` is what `ece391syserr` expects of
descriptors, `ErrOpenPasses` what its `err_open` expects of names; the code breaks
the second.

The abstract `OpenFiles` knows processes with private maps from descriptors to
streams and positions. Its mapping is direct: the descriptors in use of the slots
that are taken.

### Interrupts

`Pic` keeps the driver's two mask bytes apart from the chips' mask, request and
in-service registers, which are external: the code writes them through ports.
`Rtc` keeps the rate, the periodic bit, register C and the flag that
`rtc_read` spins on. `Interrupts` runs `entry()` one initialisation at a time, lets
the devices request, and steps through the clock handler's three actions:
set the flag, acknowledge, read register C. These are separate because vector
0x28 keeps the trap gate the exceptions get (`idt.c:262` tests
`TOTAL_EXCEPTIONS` and `0x28` together), so the handler runs with interrupts on,
and Ctrl+n may leave a terminal in the middle of it. The keyboard handler and system calls have interrupts off
and are one action each; `rtc_read` turns them on and is
two (`ClearFlag`, `ReadReturns`). History variables: `asked`, the frequency asked
for last; `ticked`, the programs that saw a tick since they cleared the flag;
`warned`, that the Ctrl+F3 warning was given.

### Display

Memory is the page on the screen followed by one saved page per terminal, with the
addresses the code computes, so that output running off one page lands in the
next. Each page ends in `SLACK` cells (96 of 4096 bytes in the code). A cell holds
the terminal its content belongs to, not the character. `term_cursor` is the
cursor saved in `terms[]`. `WriteChar` is one character of `terminal_write`, the
keys are `PressLetter`, `PressEnter`, `PressBackspace`, `PressOther` and
`ReleaseL`, each with its wrap before and its scroll after. `directory` and `tlb`
are the page directory and what the processor remembers of it; `Touch` fills the
memory, `UserStore` is a store of a program into a page of video memory it can
reach. `Admitted` has the two events of the line discipline, `type_ahead` and
`switch_mid_line`; no run admits them here (section 5).

### CommandLine, LibC, Grep and Library

`Scan` is one turn of `execute`'s loop over the command, with the code's two flags,
`Scanned` the loop and `Parse` the buffers after it; `FillPcb` is the two copies into the PCB over what the slot's last process had,
`Copied` what `getargs` writes. `given`, `got` and `asked` are history: the line a process
was started with, what its `getargs` returned, and the `nbytes` it passed, one of
`Requests`. `Fits` says that the arguments and their NUL fit in that; `ArgsArrive`
speaks of requests they fit, `SmallBufferRefused` of the others. `CommandLineAssumption` keeps lines
shorter than the buffers, and free of NUL, which would end them.

In `LibC` a string is a sequence that contains a NUL and may go on behind it; the
block functions are compositions of `rep stos` and `rep movs` over a memory, an
address and the direction flag. `Library` makes one call after another; the flag
is all that passes between them. It copies blocks of bytes that are all different:
no function of the library looks at a byte it moves, so one filling stands for
all. `junk` is what the stack held in and behind `grep`'s buffer, which the program
never sets; the files are texts, without a NUL. `Search` is the inner loop of
`do_one_file`, `Round` one turn of the outer one: the read (`Refilled`), the search,
and what is moved to the front (`Moved`).
The returns of -1 after a failed `open`, `read` or `close` are left out: the name
comes from the directory, and `file_read` does not fail on an open file.

## 3. What is checked

Every run is exhaustive for its instance. Deadlock is not checked where the
system may really stop: after `lost`, when every terminal hangs in an exception
handler, at `LineBound`, and when the Ctrl+F3 warning has locked the keyboard
while the clock's handler hangs in a terminal that is not on the screen.

| run | instance | what it shows |
|---|---|---|
| `table_all_events` | 3 slots, 3 terminals, all three events | `ContextFollowsTerminal`: address space, kernel stack and `esp0` belong to the process of the terminal on the screen, and every background terminal has saved its own. `BootShellImmortal`: slot 0 is never free |
| `table_roots_stay` | 4 slots, 3 terminals, `switch_in_halt` | `RunningIsAllocated`, `ParentWaits`, `NoLeakedSlot`, `HaltReturnsToParent`, and `ImplementsTerminalStacks`: starting a program pushes, `halt` pops, a switch changes only what is on the screen, also when it cuts `halt` in two |
| `table_no_events` | 4 slots, 3 terminals, no event | `NeverLost`, `ScreenHasProcess` |
| `line_careful` | 2 terminals, 2 letters, buffer of 2, 2x2 screen, `full_line` | `LineDelivered`: a read returns the line entered in its own terminal, erased characters gone, whatever switches happened, for reads of one byte and of more than a line. `BufferIsLine` |
| `line_live` | 3 terminals, empty lines, `type_ahead` and `switch_mid_line` | `EnteredLineRead` |
| `file_read` | file of 9 bytes in blocks 4, 1, 3 of 3 bytes, requests 0 to 10, words of 32 | `CopiesTheFile`, `ReadsAllItCan`, `ImplementsFileStream` |
| `descriptors` | 2 slots, 2 terminals, 4 descriptors, a directory of 4 entries | `ImplementsOpenFiles`: a process has the open files it opened, whatever its slot's last process left. `BadCallsFail`: bad calls fail in every state. `ListingIsWhole`: what one listing, or several at once, give |
| `interrupts` | 2 terminals, every frequency and three wrong ones | `ServedLines`, `TickAccounted`: which lines are open, and who owes the controller and the clock what. `ClockRunsAtRequest`, `ReturnMeansTick`. `KeysServed`, `ReaderWakes`: liveness |
| `display` | 2 terminals, 3 slots, a screen of 2 rows of 3, lines of 4, 1 cell of slack | `ScreensPrivate`, `TerminalsIndependent`: no terminal's output, echo or cursor reaches another. `CursorNearScreen`: nothing is written further than one cell behind the screen. `UserReach`: a program reaches its own image and the screen's page only |
| `library` | strings of up to 3, blocks of up to 14 bytes, 8-bit integers, files of up to 7 with a buffer of 3 | `CallsAgree`: each call against a definition of what it is for, in either state of the direction flag |
| `command_line` | 3 slots, 2 terminals, every line of up to 4 characters of two letters and the space, requests of 0, 2 and 5 bytes | `ArgsArrive`: every process has the name and arguments of its own line, and gets them into a buffer they fit |
| `root_exit` | 3 slots, 2 terminals, `exit_root` | violation: section 5 |

Why the bounds are enough to be interesting:

* 3 slots and 3 terminals let every terminal be opened, and leave none for a
  program; 4 slots with 3 terminals let one terminal hold a parent and a child
  while the others run, or hold a chain of four. Two terminals with a child each
  are needed for the race in `halt`: 4 slots. No action mentions a number other
  than slot 0. What these runs check is proved for all bounds (section 4): their
  part is to find out what is worth proving, and to try the mutants.
* A line of two characters on a 2x2 screen is enough to wrap, to scroll, to
  backspace across a row, to fill the buffer, and to tell order. The screen has
  the smallest size the assumption allows. `Letters` is a symmetry set in
  `line_careful`, which has no liveness property. Requests of 1 and 3 bytes take
  both branches of the copy; the sizes between get the
  whole line (section 5).
* In `line_live` only ENTER, backspace, modifiers, Ctrl+L and switches matter:
  letters change neither `can_read` nor the program counter, so the buffer is
  one character and a letter would fill it.
* The file spans three blocks, ends exactly at a block boundary and fills its
  inode; every offset and every length meets every boundary.
* `descriptors`: two descriptors to open can be opened, closed and reopened in
  either order and used up; two slots are reused by other processes of either
  terminal. The directory has one name that begins another, one that fills its
  field and one that names the clock; names asked for include the empty one and
  one longer than a field. Slots are symmetric: nothing in the module orders them,
  and it has no liveness property; the same holds for `display` and
  `command_line`.
* `interrupts`: terminals differ only in who is on the screen, so two are enough to
  suspend a handler in one and read in the other. The rest of the state is
  complete: all 16 lines, all rates, every step of boot.
* `display`: three columns and two rows have a middle, an edge and a corner to
  wrap and scroll at; a line of 4 is longer than a row; the slack is one cell, so
  anything more than one cell off the screen lands in another page. A third slot
  gives a terminal a parent and a child.
* `library`: 14 bytes starting at each alignment hold a beginning, whole words and
  an end in every combination. `command_line`: four characters are enough for
  spaces before, between and after two words; a request of 2 bytes fits an argument
  of one character and not one of two.

**Fairness.** Two runs assume any. `line_live`: `WF_vars(ReadStep)`. The steps of
`terminal_read` are a loop and straight-line code run with interrupts on by the
only process that can run; interrupts return. `ReadStep` is enabled only for
the process of the terminal on the screen, so nothing is assumed about processes
in the background, and nothing about the user.

`interrupts`: weak fairness of boot, of the clock chip's tick, of taking a
requested key, and of the handler's steps: hardware delivers and the
processor executes. Strong fairness of taking the clock's interrupt and of
`rtc_read`'s steps, because keys interrupt both again and again: the
controller takes the clock between two keys, and the processor executes at least one
instruction of the program after a handler returns. Nothing is assumed of the
user, who may press keys and change terminals for ever or never.

## 4. What is proved

`tlapm` checks every step. Unless a theorem says otherwise it assumes only
`ConstantsAssumption` of its module.

`ProcessTableProofs`, any number of slots and terminals:

| theorem | states | assuming |
|---|---|---|
| `TypeCorrect` | `TypeOK` | |
| `ContextCorrect` | `ContextFollowsTerminal` | |
| `BootShellStays` | `BootShellImmortal` | |
| `RunningStaysAllocated`, `ParentsWait`, `NoSlotLeaks`, `HaltReturns` | `RunningIsAllocated`, `ParentWaits`, `NoLeakedSlot`, `HaltReturnsToParent` | `RootsStay`: `exit_root` not admitted |
| `NeverLosesControl`, `ScreenNeverEmpty` | `NeverLost`, `ScreenHasProcess` | `Quiet`: no event admitted |
| `TerminalsAreStacks` | `ImplementsTerminalStacks` | `RootsStay`, `NeverOpenFull` (`open_when_full` not admitted) |

Four invariants carry them: each of the first three is the one before plus what
the next group needs, and `StacksInv` builds on `ForestInv`.

* `ContextInv` adds to `ContextFollowsTerminal` that a process some terminal runs
  has a PCB that was filled in, and that a child's recorded frame is on its
  recorded parent's stack. Without the second part `halt` could leave the child
  for a stack that is not the parent's, and the property would not be inductive.
* `ForestInv` adds the three structural properties, that marked slots stay
  allocated, and that the screen is empty only when the table is full. `ParentWaits` and
  `NoLeakedSlot` need each other: a free slot is no one's parent because parents
  are allocated, and the slot a child leaves is not another child's parent
  because a parent runs in no terminal.
* `QuietInv` adds that the stack of every background terminal still holds what it
  held when the terminal left the screen. This is `NeverLost` made inductive:
  only the process on the screen changes a kernel stack, and no two terminals
  share one (`ForestInv`).

* `StacksInv` adds to `ForestInv` that from every running process the links
  `parent_pcb` lead to a first shell through allocated slots, no slot twice
  (`Own`). The mapping of the refinement is a recursive function (`Above`), so the
  proof needs an induction: `LeastNumber` (every set of naturals has a
  least member) gives it, `AboveClimbs` and `ChainIs` use it once, and from then on
  a stack is any sequence that satisfies `IsChain`. `ChainPushed`, `ChainPopped`
  and `ChainKept` are what `execute`, `halt` and everything else do to one.
  `execute` pushes because the slot it takes is in no chain and is not marked;
  `halt` leaves the other chains alone because a process that runs in one terminal
  is a parent in none (`ParentWaits`). `Pigeons` bounds a chain by the number of
  slots. Each action is then one step of `TerminalStacks` or a stutter
  (`OpenIsOpen`, `ExecuteIsRun`, `HaltIsExit`, `LinksKept`).

`TerminalStacks` itself: `SlotsInOneStack`, no slot is in two stacks or twice in
one, assuming `FirstTerminal \in Terminal`. `PushStack`, `PopStack` and `StartStack`
say the same of one step; the proofs about descriptors and display cite them.

`FileReadProofs`, any block size, inode, file, word size and sequence of requests
with `length_in_bytes + MaxRequest < WORD`: `TypeCorrect` (with the descriptor's position
never beyond the end, so the unsigned subtraction never wraps), `CopyCorrect`,
`ReadComplete`, and `StreamImplemented`, the refinement of `FileStream`.
`ReadInv` says that pointer, counter and address of the loop agree on the
place `file_pos + i`: `file_pos + i + block_size_counter = (data_block_ptr + 1) *
BLOCK_SIZE`. This is why the block pointer never leaves the inode while bytes
remain. The arithmetic of blocks is in the lemmas `Split`, `ByteAt`, `BlockBelow`
and `Times`; `ClipIsMin` turns the modular clip into a minimum.

`InterruptsProofs`, any number of terminals and any requests for frequencies:

| theorem | states | by |
|---|---|---|
| `TypeCorrect` | `TypeOK` | |
| `LinesServed` | `ServedLines` | `MaskInv`: the masks at each stage of boot. Each line is toggled once, so the exclusive or of `enable_irq` opens it |
| `ClockRuns` | `ClockRunsAtRequest` | itself: `Frequency` and `Supported` expanded for the ten rates of the chip |
| `TicksAccounted` | `TickAccounted` | `TickInv`: at most one clock handler is under way in all terminals together; register C is unread exactly when the clock requests or that handler has yet to read it; the clock's line is in service exactly while it has yet to acknowledge, and with it the cascade |
| `ReadsWaitForTick` | `ReturnMeansTick` | `SpinInv`: while the shared flag is set, whoever spins has seen a tick. A reader clears the flag for all, which makes others wait longer, never less |

`FileDescriptorsProofs`, any directory, number of slots, terminals and descriptors:

| theorem | states | assuming |
|---|---|---|
| `TypeCorrect`, `ListsWholeDirectory`, `ProgramsOwnTheirFiles` | `TypeOK`, `ListingIsWhole`, `ImplementsOpenFiles` | |
| `BadCallsRefused` | `BadCallsFail` | `NoStreamNames`: no file's name begins with `stdin` or `stdout`, which `open` refuses |

`DescriptorsInv`: in every slot stdin and stdout are closed or as `execute` opens
them; in a free slot nothing else is in use, in a taken one both are. The first
part is why `execute` may find them open and leave them so; the second why a new
process has exactly these two although `halt` closes through `close`, which
refuses them. `ListingInv`: what was listed is the directory up to the shared
index, whoever asked.

`DisplayProofs`, any screen, number of terminals, slots and line size:

| theorem | states | assuming |
|---|---|---|
| `ReachIsOwn` | `UserReach` | |
| `TypeCorrect`, `OutputStaysOnPage`, `ScreensArePrivate`, `SwitchesLoseNothing` | `TypeOK`, `CursorNearScreen`, `ScreensPrivate`, `TerminalsIndependent` | `Careful`: no event admitted |

`ReachInv`: the directory's image entry is the running process's, and all the
processor remembers is that image and the video page. `CursorInv` is the point of
the second group: a cursor past the last column belongs to a terminal whose program
waits for a line that has not been entered, so `terminal_write`, which tests for
exactly the last column, never meets it. Either event of section 5 breaks just
this, so `Careful` cannot be dropped. `MemInv` is `ScreensPrivate` extended to the
whole page a terminal is saved in; without it a switch could bring back another
terminal's cell. The assumption on the constants asks for two columns and one
cell of slack (the code has 80 and 48). With one column TLC finds a cursor outside
the screen; without slack the echo behind the last cell of the screen is the first
of the next terminal's page.

`LineDisciplineProofs`, any buffer, screen, letters and number of terminals
(with `LINE_SIZE <= NUM_COLS * (NUM_ROWS - 1)`, section 2):

| theorem | states | assuming |
|---|---|---|
| `TypeCorrect`, `BufferHoldsLine` | `TypeOK`, `BufferIsLine` | `Careful`: of the events at most `full_line` |
| `LinesDelivered` | `LineDelivered` | `Careful`, and `WholeLines`: a read asks for one byte, or for more than a line can hold |

The invariant has three parts. `CursorInv`: at least as many cells lie before the
cursor as characters were typed, so backspace, which shortens the line only when
the cursor can move back, always can. `TypingInv`: the buffer holds the line begun
in the terminal on the screen, and no other terminal has begun one. `ReadInv`: what
`temp_buffer`, the length and the reader's buffer hold at each step of
`terminal_read`.  `WholeLines` holds of the reads of the programs in `src/syscalls`
that ask for a line into a buffer of 1024 and of those that ask for one byte; `ece391syserr` reads 127
bytes of a line of up to 128 and is outside it (`CopyFits` in section 5 shows
such a read getting more than it asked for).

`CommandLineProofs`, any lines shorter than the buffers, any directory, slots and
terminals, any `nbytes`: `TypeCorrect` (`TypeOK`) and `ArgumentsArrive` (`ArgsArrive`,
so `getargs` is right for every request the arguments fit). `Holds(buf, w)`
says that a buffer holds the characters `w` and a NUL behind them; `HeldText`,
`ClearedIs`, `FilledHolds` and `CopiedHolds` say what `strlen`, `Text`, clearing,
the parser's stores and `strncpy` make of it. `ParseIs` is the parser, for every
line: three places divide a line into spaces, name, spaces and arguments
(`Divided`), `Sees` is the state of the scan after `i` characters in terms of
these, and `ScanStep` leads from one to the next. The recursion over the line is
again resolved by a least counterexample (`ScannedUnfolds`, `ScannedIs`).
`CommandInv` says that every slot in use holds its line taken apart, and that the
buffers of all slots, free ones included, are strings of their size: what an old
process left is what the next one is copied over. It needs the disjoint stacks of
`TerminalStacks`: if a slot were in two of them, `halt` in one terminal would clear
the arguments of a process of the other.

The second half of the module proves `CallsRight`: `CallsAgree` of `Library`, for
memory and blocks of any size, words, numbers and files of any length, any size of
`grep`'s buffer. The state is one flag, so there is no invariant beyond the
property; all of the proof is about what the operators of `LibC` and `Grep` compute,
each a recursion over its data. For each there is a lemma that names the function
the recursion defines (`StoppingFunction`, `NumeralsExist`, `PrintingExists`,
`MatchedExists`, `SearchesExist`, `RoundsExist`: it exists, by induction on how far it
is defined, `UpTo` and `AllBelow`), and a lemma about its values. The arguments are

* blocks: head, words and tail of `memset` and `memcpy` are one row of bytes
  (`FilledTwice`, `PlacedTwice`), whatever the alignment; moving upwards is right
  unless the block overwrites what is still to be read, moving downwards is right
  otherwise (`MovsUp`, `MovsDown`), so `memmove` always is (`MemmoveMoves`);
* strings: all three loops end at the first difference, the NUL or the limit
  (`Compared`), and that place decides about the order (`OrderIs`, `ComparedIs`);
  `strrev` after `k` swaps (`Swapped`);
* numbers: `itoa` collects the digits from the last on, and the numeral reversed is
  what it has collected (`ItoaIs`); `printf` at a place of its format shows the item
  that begins there and then what it would show behind it (`ItemShown`,
  `TwoItems`);
* `grep`: the inner loop starts at an edge of a line and leaves at one (`PieceRight`):
  a line is printed if it is whole and holds the pattern, and otherwise it is
  the rest of the buffer and kept. It is whole if a newline ends it, if the
  file ends there, or if it fills the buffer from the first byte, because lines fit
  (`FullLine`). `Kept` is the invariant of the outer loop: what is printed are the
  matching lines before the kept beginning, the kept beginning is the file's, and
  every round but the last reads a byte (`RoundKeeps`). No newline may be in the
  buffer behind the bytes read: that is the condition on `junk`, and the one thing about
  the buffer's unset bytes the proof needs.

`LibraryAssumption` names what these need of the constants, `lookup \in Seq(STRING)` and
`Integers32 % 2 = 0` among it: true of the literals, which TLC evaluates and the
provers do not.

Only model-checked are `EnteredLineRead`, `KeysServed` and `ReaderWakes`: liveness,
which the prover does not reach. Of the properties that section 5 refutes none is
proved under conditions that take the counterexample away, except the two of
`ProcessTable` that also hold, and are worth knowing, without `exit_root`.

## 5. Where the code and its documents disagree

The run `root_exit` ends in the first. For the others the last column of the
table names the instance in which TLC finds the counterexample: the cfg of a run
with the changes given, and the property alone.

| property | module | instance |
|---|---|---|
| `RunningIsAllocated` | `ProcessTable` | `root_exit` |
| `HaltReturnsToParent` | `ProcessTable` | `table_roots_stay`, `Admitted <- RootExit` |
| `FramePointersAgree` | `ProcessTable` | `table_no_events`, `Admitted <- SwitchInHalt` |
| `NoneOpenedWhenFull` | `ProcessTable` | `table_no_events`, 3 slots, `Admitted <- OpenWhenFull` |
| `CopyFits` | `LineDiscipline` | `line_careful`, `LINE_SIZE` and `NUM_COLS` 3, `Sizes = {2}`, `Admitted <- Careful` |
| `ProcessesUntouched` | `LineDiscipline` | `line_careful` |
| `SwitchRestoresLine` | `LineDiscipline` | `line_careful`, `Admitted <- MidLine` |
| `ErrOpenPasses` | `FileDescriptors` | `descriptors` |
| `SmallBufferRefused` | `CommandLine` | `command_line` |
| `TicksReachTheScreen` | `Interrupts` | `interrupts` |

* `RunningIsAllocated`: the first shell of terminal 2 or 3 exits. It is replaced by
  a shell in the lowest free slot, not its own, without the `term_start` mark and
  with the freed slot as parent. When the replacement exits, the terminal runs a
  slot that is not allocated (`syscalls.h:116`: `processes` "indicates which of the
  8 processes is running").
* `HaltReturnsToParent`: the old slot of such a shell keeps its mark. A program that
  gets it later is replaced by a shell when it exits, and its parent never resumes,
  where `syscalls.c:104` makes the parent current.
* `FramePointersAgree`: `halt` enables interrupts before it loads `esp` and `ebp`
  from two globals that all terminals share. A switch between the loads, a `halt`
  in the other terminal and a switch back, and `ebp` is not the parent's
  (`syscalls.c:129`).
* `NoneOpenedWhenFull`: `calc_processes` reads an uninitialised count, so the guard
  against a full table (`keyboard_driver.c:171`) does not guard; the screen then
  shows a terminal that runs nothing.
* `CopyFits`: the length test of `terminal_read` looks at the line being typed,
  which ENTER has emptied, instead of the line entered. A read of 2 to `LINE_SIZE`
  bytes gets the whole line and its newline, whatever "the number of bytes to be
  written" (`terminal_driver.c:94`) says; `src/syscalls/ece391syserr.c:303` asks
  for 127.
* `ProcessesUntouched`: a line of 128 characters puts its newline behind the buffer,
  into the bit vector of process slots.
* `SwitchRestoresLine`: a switch restores the characters of the line begun in a
  terminal (`syscalls.c:819`), but not `length_typed`.
* `ErrOpenPasses`: `open("shel")` opens `shell`, because names are compared up to
  the length of the name asked for; `src/syscalls/ece391syserr.c:141` expects -1.
* `SmallBufferRefused`: `getargs` does not compare `nbytes` with anything
  (`syscalls.c:678` has an empty statement), against the comment above it
  (`syscalls.c:665`).
* `TicksReachTheScreen`: Ctrl+n in the middle of the clock's handler leaves register
  C unread or the controller unacknowledged, and the clock silent for everybody
  until that terminal is shown again. The handler can be interrupted because
  `idt.c:262` gives its vector the gate meant for "entries, 0 - 31".

Two more have no property of their own:

* A program that prints with the cursor past the last column, where the echo of a
  letter leaves it, never meets `putc`'s test for exactly the last column and runs
  on to the right: when the user types while nobody reads (`type_ahead`), or
  leaves with a line entered that another terminal's read then takes
  (`switch_mid_line`). `TypeOK` of `display` fails with either admitted.
* `grep` prints a wrong line end if the byte behind its full buffer happens to be a
  newline (`CallsAgree` in `library` without the condition on `junk`).

Also seen, and plain from the code:

* A process in a background terminal does not run at all, where `src/README.md`
  speaks of processes that run concurrently.
* The status given to `halt` never reaches the shell, whose messages for it
  (`src/syscalls/ece391shell.c:31-33`) are never printed.
* `execute` ends `file_name` at the length of the whole command
  (`syscalls.c:254`).
* A listing cut short makes the next one, of any program, start in the middle:
  `ListingIsWhole` speaks of the names all programs get together. A program's clock
  rate is lost when another opens the clock. `vidmap`'s page is never unmapped, and
  reaches only the screen (`UserReach`). The Ctrl+F3 warning is never acknowledged
  (`KeysServed` is about runs without it). An echo may land in the cell behind the
  screen, and no further (`CursorNearScreen`).

## 6. Not modelled, and assumptions

* Memory the kernel never clears (PCBs, inodes) starts as zero: the PCBs are read
  before the first write only through `term_start`.
* A system call that follows `running_pcb = NULL` dereferences it; it is an
  `Exception` of the caller.
* Which character is on the screen, shift and caps lock: they choose a character
  and nothing else.
* Commands and arguments longer than their buffers: what is overwritten depends on
  the compiler's layout of `execute`'s locals.
* What `getargs` copies from behind the literal of `syscalls.c:684` when the caller's
  buffer holds a string already, and a failing call in `grep`.
* A `printf` format that ends in `%`, which reads behind its end.
* `disable_irq`, `test_interrupts` and the scheduler, which nothing calls;
  `unit_tests.c`.
* `boot.S`, segment descriptors, register saving: straight-line code. What matters
  of them (gate types, order of initialisation, interrupts off at a system call)
  is in `Interrupts`.
* The other programs of `src/syscalls`: they are the environment, which may make any
  system call at any time. What `ece391syserr` expects of descriptors is
  `BadCallsFail`; what its `err_open` expects is `ErrOpenPasses`, which fails. `fish` and the prebuilt host tools.

## 7. What is left

Every safety and action property of the passing runs is proved for every value of the
constants its assumptions admit. Not proved: the three liveness properties, and
`printf` for formats of more than two items, which `ItemShown` would carry item by
item. What could be modelled further is in section 6.
