------------------------------ MODULE Display ------------------------------
(***************************************************************************)
(* Three terminals on one screen: programs that print, wait for a line,    *)
(* map video memory and store to it, users who type and switch, and what   *)
(* of memory each program can reach (Console, Paging, syscalls.c).  Which  *)
(* programs run where is taken from TerminalStacks, which the process      *)
(* table implements.                                                       *)
(*                                                                         *)
(* System calls run with interrupts off and terminal_write's effect is     *)
(* that of its characters one by one, so an action writes one character.   *)
(***************************************************************************)
EXTENDS Console, Paging, Sequences, SequencesExt

CONSTANTS
    Slot,        \* process slots
    LINE_SIZE,   \* characters of the input buffer (128)
    Admitted     \* what this instance lets the user do beyond careful typing

(***************************************************************************)
(*   type_ahead       keys while nobody waits for a line, or one is ready  *)
(*   switch_mid_line  Ctrl+n with a line entered but not read yet          *)
(***************************************************************************)
Events == {"type_ahead", "switch_mid_line"}

ASSUME DisplayAssumption ==
    /\ LINE_SIZE \in Nat \ {0}
    /\ Admitted \subseteq Events
    /\ VideoPages = 0 .. NUM_TERMS

VARIABLES
    stack, focus,   \* as in TerminalStacks; focus is current_terminal
    display,        \* video memory, cursor_x, cursor_y
    term_cursor,    \* cursor_x, cursor_y of each terminal when it was left
    program,        \* what the running program of each terminal is doing
    length_typed,
    can_read,
    directory,      \* page_directory_set[0]
    tlb             \* the translations programs' accesses left behind

screenVars == <<display, term_cursor>>
lineVars   == <<length_typed, can_read>>
pagingVars == <<directory, tlb>>
procVars   == <<stack, focus>>
vars == <<procVars, screenVars, program, lineVars, pagingVars>>

Procs == INSTANCE TerminalStacks WITH Terminal <- Terms, FirstTerminal <- 0

Running == stack[focus] # <<>>
InUser == Running /\ program[focus] = "user"

(* Boot, up to the first execute.                                           *)
Init ==
    /\ Procs!Init
    /\ display = clear_screen([mem |-> [i \in Memory |-> Nobody], x |-> 0, y |-> 0], 0)
    /\ term_cursor = [t \in Terms |-> [x |-> 0, y |-> 0]]
    /\ program = [t \in Terms |-> "user"]
    /\ length_typed = 0
    /\ can_read = FALSE
    /\ directory = enable_paging
    /\ tlb = {}

TypeOK ==
    /\ display.mem \in [Memory -> Owners]
    /\ display.x \in 0 .. NUM_COLS /\ display.y \in 0 .. NUM_ROWS
    /\ term_cursor \in [Terms -> [x : 0 .. NUM_COLS, y : 0 .. NUM_ROWS]]
    /\ program \in [Terms -> {"user", "reading", "stuck"}]
    /\ length_typed \in 0 .. LINE_SIZE
    /\ can_read \in BOOLEAN
    /\ \A e \in Entries : directory[e].user \in BOOLEAN
    /\ \A k \in tlb : k.entry \in Entries

Cursor == [x |-> display.x, y |-> display.y]

-----------------------------------------------------------------------------
(* Programs.                                                                *)

(* execute and halt change what is mapped at 128 MB.                        *)
MapImage(s) ==
    /\ directory' = load_new_process(directory, s)
    /\ tlb' = set_control_registers(tlb)

Boot ==
    /\ stack[0] = <<>> /\ focus = 0
    /\ Procs!Open(0)
    /\ MapImage(Last(stack'[0]))
    /\ UNCHANGED <<screenVars, program, lineVars>>

Run ==
    /\ InUser
    /\ Procs!Run
    /\ MapImage(Last(stack'[focus]))
    /\ UNCHANGED <<screenVars, program, lineVars>>

Exit ==
    /\ InUser
    /\ Procs!Exit
    /\ MapImage(Last(stack'[focus]))
    /\ UNCHANGED <<screenVars, program, lineVars>>

(* One character of terminal_write, and how the call ends.                  *)
terminal_write == \E c \in Outputs :
    /\ InUser
    /\ display' = WriteChar(display, c, focus)
    /\ term_cursor' = [term_cursor EXCEPT ![focus] = [x |-> display'.x, y |-> display'.y]]
    /\ length_typed' = 0
    /\ UNCHANGED <<procVars, program, can_read, pagingVars>>

(* terminal_read: it waits, and takes the line.                             *)
ReadCall ==
    /\ InUser
    /\ program' = [program EXCEPT ![focus] = "reading"]
    /\ UNCHANGED <<procVars, screenVars, lineVars, pagingVars>>

ReadReturns ==
    /\ Running /\ program[focus] = "reading" /\ can_read
    /\ program' = [program EXCEPT ![focus] = "user"]
    /\ can_read' = FALSE
    /\ length_typed' = 0
    /\ UNCHANGED <<procVars, screenVars, pagingVars>>

(* An exception: the handler prints a line, whose newline does not scroll,  *)
(* and spins with interrupts on.                                            *)
Exception ==
    /\ InUser
    /\ display' = putc(putc(display, "printable", focus), "newline", focus)
    /\ program' = [program EXCEPT ![focus] = "stuck"]
    /\ UNCHANGED <<procVars, term_cursor, lineVars, pagingVars>>

(* vidmap with a pointer into the program's 4 MB; others are refused.       *)
vidmap ==
    /\ InUser
    /\ directory' = load_video_mem(directory)
    /\ tlb' = set_control_registers(tlb)
    /\ UNCHANGED <<procVars, screenVars, program, lineVars>>

(* The program uses one of its pages.                                       *)
Touch(e) == \E f \in Reached(directory, tlb, e) :
    /\ InUser
    /\ tlb' = tlb \cup {[entry |-> e, frame |-> f]}
    /\ UNCHANGED <<procVars, screenVars, program, lineVars, directory>>

(* It stores into a page of video memory it reaches.                        *)
UserStore(e, page) == \E i \in 0 .. PAGE - 1 :
    /\ InUser
    /\ Frame("video page", page) \in Reached(directory, tlb, e)
    /\ display' = Store(display, page * PAGE + i, focus)
    /\ UNCHANGED <<procVars, term_cursor, program, lineVars, pagingVars>>

-----------------------------------------------------------------------------
(* The keyboard.                                                            *)
Typing ==
    /\ Running
    /\ \/ program[focus] = "reading" /\ ~can_read
       \/ "type_ahead" \in Admitted

PressLetter ==
    /\ Typing /\ length_typed < LINE_SIZE
    /\ display' = Echo(display, focus)
    /\ length_typed' = length_typed + 1
    /\ UNCHANGED <<procVars, term_cursor, program, can_read, pagingVars>>

PressEnter ==
    /\ Typing
    /\ display' = Enter(display, focus)
    /\ length_typed' = 0
    /\ can_read' = TRUE
    /\ UNCHANGED <<procVars, term_cursor, program, pagingVars>>

(* At the first cell of the screen the character is blanked, not counted.   *)
PressBackspace ==
    /\ Typing /\ length_typed > 0
    /\ display' = Backspace(display, focus)
    /\ length_typed' = IF Back(Wrapped(display)) # Wrapped(display)
                       THEN length_typed - 1 ELSE length_typed
    /\ UNCHANGED <<procVars, term_cursor, program, can_read, pagingVars>>

(* A key that types nothing: Ctrl, shift, or a letter the line has no room  *)
(* for.                                                                     *)
PressOther ==
    /\ Running
    /\ display' = OtherKey(display, focus)
    /\ UNCHANGED <<procVars, term_cursor, program, lineVars, pagingVars>>

ReleaseL ==
    /\ Running
    /\ display' = clear_screen(display, focus)
    /\ length_typed' = 0
    /\ UNCHANGED <<procVars, term_cursor, program, can_read, pagingVars>>

-----------------------------------------------------------------------------
(* Terminal switches.                                                       *)
Switching(t) ==
    /\ Running /\ t # focus
    /\ ~can_read \/ "switch_mid_line" \in Admitted

(* Mutants: the screen is not saved; the cursor is not.                     *)
SaveNothing == display.mem
SaveNoCursor == UNCHANGED term_cursor

SaveScreen == CopyScreen(display.mem, vid_mem(focus), VIDEO)
SaveCursor == term_cursor' = [term_cursor EXCEPT ![focus] = Cursor]

SwitchTo(t) ==
    /\ Switching(t)
    /\ Procs!Show(t)
    /\ SaveCursor
    /\ display' = [mem |-> CopyScreen(SaveScreen, VIDEO, vid_mem(t)),
                   x |-> term_cursor[t].x, y |-> term_cursor[t].y]
    /\ MapImage(Last(stack[t]))
    /\ UNCHANGED <<program, lineVars>>

(* The first time, the screen is cleared, once it has been saved.           *)
OpenTerminal(t) ==
    /\ Switching(t)
    /\ Procs!Open(t)
    /\ SaveCursor
    /\ display' = clear_screen([display EXCEPT !.mem = SaveScreen], t)
    /\ MapImage(Last(stack'[t]))
    /\ UNCHANGED <<program, lineVars>>

Next ==
    \/ Boot \/ Run \/ Exit \/ terminal_write \/ ReadCall \/ ReadReturns
    \/ Exception \/ vidmap
    \/ \E e \in Entries : Touch(e) \/ \E page \in VideoPages : UserStore(e, page)
    \/ PressLetter \/ PressEnter \/ PressBackspace \/ PressOther \/ ReleaseL
    \/ \E t \in Terms : SwitchTo(t) \/ OpenTerminal(t)

Spec == Init /\ [][Next]_vars

-----------------------------------------------------------------------------
Opened(t) == stack[t] # <<>>
CursorOf(t) == IF t = focus THEN Cursor ELSE term_cursor[t]

(* What a terminal shows was put there by its own programs and user,        *)
(* whatever the others printed, echoed, scrolled or stored through vidmap,  *)
(* and no output of one terminal runs on into the saved page of another.    *)
ScreensPrivate == \A t \in Terms :
    /\ Opened(t) => \A i \in Screen : Shown(display.mem, t, focus)[i] = t
    /\ \A i \in vid_mem(t) .. vid_mem(t) + PAGE - 1 : display.mem[i] \in {t, Nobody}

(* A terminal keeps its screen and its cursor through everything that       *)
(* happens in the others, and through every switch, its own included.       *)
TerminalsIndependent == [][\A t \in Terms :
    Opened(t) /\ (t # focus \/ focus' # focus) =>
        /\ Shown(display.mem, t, focus)' = Shown(display.mem, t, focus)
        /\ CursorOf(t)' = CursorOf(t)]_vars

(* Output stays in the page on the screen: the cursor is at most one row    *)
(* below it and one column past it, never both, so at most one cell of the  *)
(* slack behind the screen is ever written.                                 *)
CursorNearScreen ==
    /\ display.y = NUM_ROWS => display.x = 0
    /\ CellAt(display) <= NUM_ROWS * NUM_COLS

(* A running program reaches its own image, and the page on the screen once *)
(* somebody asked for it; through no entry and no remembered translation    *)
(* anything else: another program's image, a terminal's saved page, the     *)
(* kernel.                                                                  *)
UserReach == InUser =>
    LET reach == UNION {Reached(directory, tlb, e) : e \in Entries} IN
    /\ ImageFrame(Last(stack[focus])) \in reach
    /\ reach \subseteq {ImageFrame(Last(stack[focus])), ScreenFrame}

=============================================================================
