--------------------------- MODULE LineDiscipline ---------------------------
(***************************************************************************)
(* Typing a line and reading it: the keyboard interrupt                    *)
(* (keyboard_driver.c), terminal_read and terminal_write                   *)
(* (terminal_driver.c), and what a terminal switch (syscalls.c) saves and  *)
(* restores of their state.                                                *)
(*                                                                         *)
(* The three terminals share one input buffer, one finished line and one   *)
(* can_read flag.  terminal_read waits and copies with interrupts on, so a *)
(* key can fall between any two of its steps; only the process of the      *)
(* terminal on the screen runs.  Shift and caps lock only choose the       *)
(* character a key gives; the screen's contents are left out, the cursor   *)
(* is kept because backspace looks at it.                                  *)
(***************************************************************************)
EXTENDS Integers, Sequences, SequencesExt

CONSTANTS
    LINE_SIZE,   \* characters of the input buffer (128 in the code)
    NUM_COLS,    \* width and height of the screen (80 and 25)
    NUM_ROWS,
    NUM_TERMS,   \* terminals (3)
    Letters,     \* the characters keys give
    Sizes,       \* the nbytes processes pass to read
    Admitted     \* what this instance lets the user do beyond careful typing

(***************************************************************************)
(*   type_ahead       keys while nobody waits for a line, or one is ready  *)
(*   switch_mid_line  Ctrl+n with a line begun or entered but not read     *)
(*   full_line        LINE_SIZE characters before Enter                    *)
(***************************************************************************)
Events == {"type_ahead", "switch_mid_line", "full_line"}

ASSUME ConstantsAssumption ==
    /\ LINE_SIZE \in Nat \ {0}
    /\ NUM_COLS \in Nat \ {0} /\ NUM_ROWS \in Nat \ {0, 1}
    /\ LINE_SIZE <= NUM_COLS * (NUM_ROWS - 1)
    /\ NUM_TERMS \in Nat \ {0}
    /\ Sizes \subseteq Nat \ {0}
    /\ Letters \cap {"NUL", "NL", "processes"} = {}
    /\ Admitted \subseteq Events

Terms == 0 .. NUM_TERMS - 1
NUL   == "NUL"
NL    == "NL"

(* The byte the linker put after temp_buffer: the kernel's `processes`.     *)
Beyond == "processes"

Cells == [x : 0 .. NUM_COLS, y : 0 .. NUM_ROWS]

(* terminal_read, by what it does next.  In "user" the terminal's process   *)
(* is not in terminal_read.                                                 *)
ReadSteps == {"user", "spin", "terminate", "copy", "clear", "flush"}

VARIABLES
    current_terminal,
    opened,            \* been_here of each terminal
    ctrl_pressed,
    input_buffer,      \* the line being typed, and
    length_typed,      \*   how much of it there is
    temp_buffer,       \* the line entered last, then the byte after it
    old_length_typed,
    can_read,
    cursor,            \* cursor_x, cursor_y
    keyboard_buffer,   \* input_buffer as each terminal was left
    term_cursor,       \* cursor as each terminal was left
    pc, nbytes,        \* terminal_read of each terminal's process,
    whole,             \*   which branch of its copy it takes,
    buf,               \*   and what it copied
    typed,             \* history: the line on each terminal's screen,
    entered,           \*   the last line entered there,
    unread             \*   and the terminal whose line waits to be read

keyboardVars == <<input_buffer, length_typed, cursor>>
lineVars     == <<temp_buffer, old_length_typed, can_read>>
savedVars    == <<keyboard_buffer, term_cursor, opened>>
readVars     == <<pc, nbytes, whole, buf>>
historyVars  == <<typed, entered, unread>>
vars == <<current_terminal, ctrl_pressed, keyboardVars, lineVars, savedVars,
          readVars, historyVars>>

Chars == Letters \cup {NUL}
Lines == [0 .. LINE_SIZE - 1 -> Chars]
Blank == [i \in 0 .. LINE_SIZE - 1 |-> NUL]
NoTerminal == -1

TypeOK ==
    /\ current_terminal \in Terms
    /\ opened \in [Terms -> BOOLEAN]
    /\ ctrl_pressed \in BOOLEAN
    /\ input_buffer \in Lines
    /\ length_typed \in 0 .. LINE_SIZE
    /\ temp_buffer \in [0 .. LINE_SIZE -> Chars \cup {NL, Beyond}]
    /\ old_length_typed \in 0 .. LINE_SIZE
    /\ can_read \in BOOLEAN
    /\ cursor \in Cells
    /\ keyboard_buffer \in [Terms -> Lines]
    /\ term_cursor \in [Terms -> Cells]
    /\ pc \in [Terms -> ReadSteps]
    /\ nbytes \in [Terms -> Sizes \cup {0}]
    /\ whole \in [Terms -> BOOLEAN]
    /\ buf \in [Terms -> Seq(Chars \cup {NL, Beyond})]
    /\ typed \in [Terms -> Seq(Letters)]
    /\ entered \in [Terms -> Seq(Letters)]
    /\ unread \in Terms \cup {NoTerminal}

Init ==
    /\ current_terminal = 0
    /\ opened = [t \in Terms |-> t = 0]
    /\ ctrl_pressed = FALSE
    /\ input_buffer = Blank
    /\ length_typed = 0
    /\ temp_buffer = [i \in 0 .. LINE_SIZE |-> IF i = LINE_SIZE THEN Beyond ELSE NUL]
    /\ old_length_typed = 0
    /\ can_read = FALSE
    /\ cursor = [x |-> 0, y |-> 0]
    /\ keyboard_buffer = [t \in Terms |-> Blank]
    /\ term_cursor = [t \in Terms |-> [x |-> 0, y |-> 0]]
    /\ pc = [t \in Terms |-> "user"]
    /\ nbytes = [t \in Terms |-> 0]
    /\ whole = [t \in Terms |-> FALSE]
    /\ buf = [t \in Terms |-> <<>>]
    /\ typed = [t \in Terms |-> <<>>]
    /\ entered = [t \in Terms |-> <<>>]
    /\ unread = NoTerminal

flush == input_buffer' = Blank /\ length_typed' = 0

-----------------------------------------------------------------------------
(* The cursor.  A key press first wraps a cursor past the last column, and  *)
(* last scrolls if the cursor has left the screen.                          *)
Wrapped(c) == IF c.x > NUM_COLS - 1 THEN [x |-> 0, y |-> c.y + 1] ELSE c

(* Mutant: the screen never scrolls.                                        *)
NoScroll(c) == c

scroll_if_needed(c) == IF c.y >= NUM_ROWS THEN [x |-> 0, y |-> c.y - 1] ELSE c

(* Where backspace moves the cursor; at the origin it stays.                *)
Back(c) ==
    CASE c.x # 0 -> [c EXCEPT !.x = @ - 1]
      [] c.x = 0 /\ c.y # 0 -> [x |-> NUM_COLS - 1, y |-> c.y - 1]
      [] OTHER -> c

(* Somebody waits for the line that is being typed.                         *)
Awaited == pc[current_terminal] = "spin" /\ ~can_read

(* A key that changes the line may be pressed now.                          *)
Typing == ~ctrl_pressed /\ (Awaited \/ "type_ahead" \in Admitted)

(* Bound: nobody goes on typing on a line of which the kernel has lost the  *)
(* beginning.                                                               *)
LineBound == Len(typed[current_terminal]) <= LINE_SIZE

PressLetter(c) ==
    /\ Typing /\ LineBound
    /\ length_typed + 1 < LINE_SIZE \/ "full_line" \in Admitted
    /\ LET at == Wrapped(cursor) IN
       IF length_typed < LINE_SIZE
       THEN /\ input_buffer' = [input_buffer EXCEPT ![length_typed] = c]
            /\ length_typed' = length_typed + 1
            /\ cursor' = scroll_if_needed([at EXCEPT !.x = @ + 1])
            /\ typed' = [typed EXCEPT ![current_terminal] = Append(@, c)]
       ELSE /\ cursor' = scroll_if_needed(at)
            /\ UNCHANGED <<input_buffer, length_typed, typed>>
    /\ UNCHANGED <<current_terminal, ctrl_pressed, lineVars, savedVars,
                   readVars, entered, unread>>

(* Mutants: old_length_typed is not set; can_read is not set.               *)
FinishKeepingLength ==
    /\ temp_buffer' = [i \in 0 .. LINE_SIZE |->
                          IF i < LINE_SIZE THEN input_buffer[i] ELSE temp_buffer[i]]
    /\ old_length_typed' = old_length_typed
    /\ can_read' = TRUE
FinishUnsignalled ==
    /\ temp_buffer' = [i \in 0 .. LINE_SIZE |->
                          IF i < LINE_SIZE THEN input_buffer[i] ELSE temp_buffer[i]]
    /\ old_length_typed' = length_typed
    /\ UNCHANGED can_read

(* ENTER hands the line over to terminal_read.                              *)
FinishLine ==
    /\ temp_buffer' = [i \in 0 .. LINE_SIZE |->
                          IF i < LINE_SIZE THEN input_buffer[i] ELSE temp_buffer[i]]
    /\ old_length_typed' = length_typed
    /\ can_read' = TRUE

PressEnter ==
    /\ Typing
    /\ FinishLine
    /\ flush
    /\ cursor' = scroll_if_needed([x |-> 0, y |-> Wrapped(cursor).y + 1])
    /\ entered' = [entered EXCEPT ![current_terminal] = typed[current_terminal]]
    /\ typed' = [typed EXCEPT ![current_terminal] = <<>>]
    /\ unread' = current_terminal
    /\ UNCHANGED <<current_terminal, ctrl_pressed, savedVars, readVars>>

(* Mutant: the character is left in the line.                               *)
ErasedNothing(c) == length_typed

(* The length after a backspace with the cursor at c.                       *)
Erased(c) == IF Back(c) # c THEN length_typed - 1 ELSE length_typed

PressBackspace ==
    /\ Typing
    /\ LET at == Wrapped(cursor) IN
       IF length_typed > 0
       THEN /\ length_typed' = Erased(at)
            /\ cursor' = scroll_if_needed(Back(at))
       ELSE /\ cursor' = scroll_if_needed(at)
            /\ UNCHANGED length_typed
    /\ typed' = [typed EXCEPT ![current_terminal] =
                    IF @ = <<>> THEN @ ELSE Front(@)]
    /\ UNCHANGED <<current_terminal, ctrl_pressed, input_buffer, lineVars,
                   savedVars, readVars, entered, unread>>

(* CTRL, and the keys that type nothing (shift, caps lock).                 *)
PressModifier ==
    /\ ~ctrl_pressed
    /\ ctrl_pressed' \in BOOLEAN
    /\ cursor' = scroll_if_needed(Wrapped(cursor))
    /\ UNCHANGED <<current_terminal, input_buffer, length_typed, lineVars,
                   savedVars, readVars, historyVars>>

(* Every release but shift's ends Ctrl.                                     *)
Release ==
    /\ ctrl_pressed
    /\ ctrl_pressed' = FALSE
    /\ UNCHANGED <<current_terminal, keyboardVars, lineVars, savedVars,
                   readVars, historyVars>>

(* Ctrl+L clears the line and the screen.                                   *)
ReleaseL ==
    /\ ctrl_pressed
    /\ Awaited \/ "type_ahead" \in Admitted
    /\ flush
    /\ cursor' = [x |-> 0, y |-> 0]
    /\ ctrl_pressed' = FALSE
    /\ typed' = [typed EXCEPT ![current_terminal] = <<>>]
    /\ UNCHANGED <<current_terminal, lineVars, savedVars, readVars, entered, unread>>

-----------------------------------------------------------------------------
(* A switch loses nothing now.                                              *)
BetweenLines ==
    /\ length_typed = 0 /\ ~can_read
    /\ pc[current_terminal] \in {"user", "spin"}

(* What a switch saves of the terminal being left.                          *)
SaveLine ==
    /\ keyboard_buffer' = [keyboard_buffer EXCEPT ![current_terminal] = input_buffer]
    /\ term_cursor' = [term_cursor EXCEPT ![current_terminal] = cursor]

(* Ctrl+n to a terminal opened before.  (The handler may also refuse: its   *)
(* test for a full process table counts with an uninitialized variable.)    *)
SwitchTo(t) ==
    /\ ctrl_pressed
    /\ t # current_terminal /\ opened[t]
    /\ BetweenLines \/ "switch_mid_line" \in Admitted
    /\ SaveLine
    /\ current_terminal' = t
    /\ input_buffer' = keyboard_buffer[t]
    /\ cursor' = term_cursor[t]
    /\ ctrl_pressed' = FALSE
    /\ UNCHANGED <<opened, length_typed, lineVars, readVars, historyVars>>

(* Ctrl+n to an unopened terminal: a cleared screen and a new shell.        *)
OpenTerminal(t) ==
    /\ ctrl_pressed
    /\ t # current_terminal /\ ~opened[t]
    /\ BetweenLines \/ "switch_mid_line" \in Admitted
    /\ SaveLine
    /\ current_terminal' = t
    /\ opened' = [opened EXCEPT ![t] = TRUE]
    /\ cursor' = [x |-> 0, y |-> 0]
    /\ ctrl_pressed' = FALSE
    /\ UNCHANGED <<input_buffer, length_typed, lineVars, readVars, historyVars>>

-----------------------------------------------------------------------------
(* terminal_read by the process of the terminal on the screen.              *)
At(step) == pc[current_terminal] = step
Goto(step) == pc' = [pc EXCEPT ![current_terminal] = step]

ReadCall ==
    /\ At("user") /\ Goto("spin")
    /\ \E n \in Sizes : nbytes' = [nbytes EXCEPT ![current_terminal] = n]
    /\ UNCHANGED <<current_terminal, ctrl_pressed, keyboardVars, lineVars,
                   savedVars, whole, buf, historyVars>>

SeeLine ==
    /\ At("spin") /\ can_read /\ Goto("terminate")
    /\ UNCHANGED <<current_terminal, ctrl_pressed, keyboardVars, lineVars,
                   savedVars, nbytes, whole, buf, historyVars>>

NewlineAt == old_length_typed

(* The branch is chosen with length_typed, the newline and the copy use     *)
(* old_length_typed; index LINE_SIZE is the byte after the buffer.          *)
Terminate ==
    /\ At("terminate") /\ Goto("copy")
    /\ whole' = [whole EXCEPT ![current_terminal] =
                    length_typed + 1 < nbytes[current_terminal]]
    /\ temp_buffer' = [temp_buffer EXCEPT ![NewlineAt] = NL]
    /\ UNCHANGED <<current_terminal, ctrl_pressed, keyboardVars, savedVars,
                   old_length_typed, can_read, nbytes, buf, historyVars>>

Count == IF whole[current_terminal] THEN old_length_typed + 1
                                    ELSE nbytes[current_terminal]

Copy ==
    /\ At("copy") /\ Goto("clear")
    /\ buf' = [buf EXCEPT ![current_terminal] =
                  [i \in 1 .. Count |-> temp_buffer[i - 1]]]
    /\ UNCHANGED <<current_terminal, ctrl_pressed, keyboardVars, lineVars,
                   savedVars, nbytes, whole, historyVars>>

ClearCanRead ==
    /\ At("clear") /\ Goto("flush")
    /\ can_read' = FALSE
    /\ unread' = NoTerminal
    /\ UNCHANGED <<current_terminal, ctrl_pressed, keyboardVars, temp_buffer,
                   old_length_typed, savedVars, nbytes, whole, buf, typed, entered>>

(* The copy and the call's arguments are the program's business from here.  *)
Return ==
    /\ At("flush") /\ Goto("user")
    /\ flush
    /\ nbytes' = [nbytes EXCEPT ![current_terminal] = 0]
    /\ whole' = [whole EXCEPT ![current_terminal] = FALSE]
    /\ buf' = [buf EXCEPT ![current_terminal] = <<>>]
    /\ entered' = [entered EXCEPT ![current_terminal] = <<>>]
    /\ UNCHANGED <<current_terminal, ctrl_pressed, cursor, lineVars, savedVars,
                   typed, unread>>

ReadStep == SeeLine \/ Terminate \/ Copy \/ ClearCanRead \/ Return

(* terminal_write: it drops what has been typed and leaves the cursor       *)
(* anywhere on the screen.                                                  *)
terminal_write ==
    /\ At("user")
    /\ flush
    /\ \E c \in [x : 0 .. NUM_COLS - 1, y : 0 .. NUM_ROWS - 1] :
          /\ cursor' = c
          /\ term_cursor' = [term_cursor EXCEPT ![current_terminal] = c]
    /\ typed' = [typed EXCEPT ![current_terminal] = <<>>]
    /\ UNCHANGED <<current_terminal, ctrl_pressed, lineVars, keyboard_buffer,
                   opened, readVars, entered, unread>>

Next ==
    \/ \E c \in Letters : PressLetter(c)
    \/ PressEnter \/ PressBackspace \/ PressModifier \/ Release \/ ReleaseL
    \/ \E t \in Terms : SwitchTo(t) \/ OpenTerminal(t)
    \/ ReadCall \/ ReadStep
    \/ terminal_write

Spec == Init /\ [][Next]_vars

(* The processor runs the process of the terminal on the screen.            *)
FairSpec == Spec /\ WF_vars(ReadStep)

-----------------------------------------------------------------------------
(* Properties of users who type while somebody waits for a line and switch  *)
(* between lines: at most full_line is admitted.                            *)

(* The line as the program should see it: at most n bytes of it and its     *)
(* newline.                                                                 *)
Delivered(line, n) ==
    LET all == Append(line, NL)
    IN  SubSeq(all, 1, IF n < Len(all) THEN n ELSE Len(all))

(* A read returns the line its own user entered, with every erased          *)
(* character gone and the newline that Enter is echoed as, whatever         *)
(* switches happened while it waited (terminal_read, keyboard_driver.c).    *)
(* The run has reads of one byte and of more than a line; of the sizes      *)
(* between, CopyFits below speaks.                                          *)
LineDelivered ==
    [][Return => buf[current_terminal] =
                 Delivered(entered[current_terminal], nbytes[current_terminal])]_vars

(* The kernel's input buffer holds the line the user of the terminal on     *)
(* the screen sees there; a switch is meant to restore it                   *)
(* (syscalls.c:819).                                                        *)
BufferIsLine ==
    ~can_read => typed[current_terminal] =
        [i \in 1 .. length_typed |-> input_buffer[i - 1]]

(* A line entered while the process of that terminal waits is read, unless  *)
(* the user leaves the terminal: terminal_read's spin ends.  Keys may come  *)
(* at any of its steps.  (After a switch the line may be taken by another   *)
(* terminal's reader: no document says whose it is then.)                   *)
EnteredLineRead ==
    \A t \in Terms :
        (unread = t /\ pc[t] = "spin") ~> (pc[t] = "user" \/ current_terminal # t)

-----------------------------------------------------------------------------
(* Properties the source states and the code breaks: TLC refutes each in an *)
(* instance README names (section 5).                                       *)

(* terminal_read copies no more than the nbytes it was asked for            *)
(* ("nbytes->  the number of bytes to be written", terminal_driver.c:94).   *)
(* Its test looks at the line being typed, which ENTER has just emptied, so *)
(* a read of 2 .. LINE_SIZE bytes gets the whole line.                      *)
CopyFits == [][Copy => Count <= nbytes[current_terminal]]_vars

(* Only execute and halt write `processes`, the "vector which indicates     *)
(* which of the 8 processes is running" (syscalls.h:116); it is the byte    *)
(* behind temp_buffer.  The newline after a line of LINE_SIZE characters    *)
(* lands in it (terminal_driver.c:111).                                     *)
ProcessesUntouched == temp_buffer[LINE_SIZE] = Beyond

(* A switch back to a terminal brings back the line begun there             *)
(* ("Resotring the state of the keyboard buffer", syscalls.c:819).  It      *)
(* brings back the characters, and whatever length the last terminal had.   *)
SwitchRestoresLine ==
    [][\A t \in Terms : SwitchTo(t) =>
         typed[t] = [i \in 1 .. length_typed' |-> input_buffer'[i - 1]]]_vars

=============================================================================
