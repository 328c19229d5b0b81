------------------------------ MODULE Console ------------------------------
(***************************************************************************)
(* Text-mode video memory and the routines that write it (lib.c,           *)
(* keyboard_driver.c, terminal_driver.c).                                  *)
(*                                                                         *)
(* Memory is the page the screen shows followed by the page each terminal  *)
(* is saved in: NUM_ROWS * NUM_COLS cells each, and SLACK cells up to the  *)
(* end of the page.  A cell is addressed by its distance from VIDEO, as    *)
(* the code does, so output that runs on past one page lands in the next.  *)
(* A cell holds the terminal its content belongs to; which character it is *)
(* nothing here depends on, except that a newline is none.                 *)
(***************************************************************************)
EXTENDS Naturals

CONSTANTS
    NUM_COLS, NUM_ROWS,   \* size of the screen (80 and 25)
    SLACK,                \* cells between its end and the next page (48)
    NUM_TERMS             \* terminals (3)

ASSUME ConsoleAssumption ==
    /\ NUM_COLS \in Nat \ {0, 1}
    /\ NUM_ROWS \in Nat \ {0, 1}
    /\ SLACK \in Nat \ {0}
    /\ NUM_TERMS \in Nat \ {0}

Terms  == 0 .. NUM_TERMS - 1
Screen == 0 .. NUM_ROWS * NUM_COLS - 1     \* SCREEN_BYTES, in cells
PAGE   == NUM_ROWS * NUM_COLS + SLACK
Memory == 0 .. (NUM_TERMS + 1) * PAGE - 1
VIDEO  == 0
vid_mem(t) == (t + 1) * PAGE

Nobody == NUM_TERMS       \* owner of memory nothing was written to
Owners == 0 .. NUM_TERMS

(* Output that is not a cell of its own: a newline; a control character,    *)
(* which putc never sees.                                                   *)
Outputs == {"printable", "newline", "control"}

-----------------------------------------------------------------------------
(* A display d is [mem, x, y]: memory, cursor_x and cursor_y.               *)
CellAt(d) == VIDEO + NUM_COLS * d.y + d.x
Store(d, i, t) == [d EXCEPT !.mem[i] = t]

clear(d, t) == [d EXCEPT !.mem = [i \in Memory |-> IF i \in Screen THEN t ELSE @[i]]]

(* clear_screen, and initialize_terminal.                                   *)
clear_screen(d, t) == [clear(d, t) EXCEPT !.x = 0, !.y = 0]

(* Mutant: the cursor stays in the row below the screen.                    *)
ScrollKeepingRow(d, t) ==
    IF d.y < NUM_ROWS THEN d
    ELSE [mem |-> [i \in Memory |-> IF i + NUM_COLS \in Screen
                                    THEN d.mem[i + NUM_COLS]
                                    ELSE IF i \in Screen THEN t ELSE d.mem[i]],
          x |-> 0, y |-> d.y]

(* One row up, and one only.                                                *)
scroll_if_needed(d, t) ==
    IF d.y < NUM_ROWS THEN d
    ELSE [mem |-> [i \in Memory |-> IF i + NUM_COLS \in Screen
                                    THEN d.mem[i + NUM_COLS]
                                    ELSE IF i \in Screen THEN t ELSE d.mem[i]],
          x |-> 0, y |-> d.y - 1]

NewLine(d) == [d EXCEPT !.x = 0, !.y = @ + 1]

(* putc wraps only if it writes exactly the last column; it does not scroll *)
(* after a newline.                                                         *)
putc(d, c, t) ==
    IF c = "newline" THEN NewLine(d)
    ELSE LET w == Store(d, CellAt(d), t)
         IN  scroll_if_needed(IF d.x = NUM_COLS - 1 THEN NewLine(w)
                              ELSE [w EXCEPT !.x = @ + 1], t)

(* One character of terminal_write.                                         *)
WriteChar(d, c, t) == scroll_if_needed(IF c = "control" THEN d ELSE putc(d, c, t), t)

-----------------------------------------------------------------------------
(* Mutant: a cursor past the last column stays there.                       *)
NeverWrapped(d) == d

(* The keys.  Echo advances the cursor past the last column; the next key   *)
(* moves it to the next row first.                                          *)
Wrapped(d) == IF d.x > NUM_COLS - 1 THEN NewLine(d) ELSE d

Echo(d, t) == LET w == Wrapped(d)
              IN  scroll_if_needed([Store(w, CellAt(w), t) EXCEPT !.x = @ + 1], t)

Enter(d, t) == scroll_if_needed(NewLine(Wrapped(d)), t)

(* Where backspace goes; from the first cell nowhere.                       *)
Back(d) == CASE d.x # 0 -> [d EXCEPT !.x = @ - 1]
             [] d.x = 0 /\ d.y # 0 -> [d EXCEPT !.x = NUM_COLS - 1, !.y = @ - 1]
             [] OTHER -> d

Backspace(d, t) == LET w == Back(Wrapped(d))
                   IN  scroll_if_needed(Store(w, CellAt(w), t), t)

OtherKey(d, t) == scroll_if_needed(Wrapped(d), t)

-----------------------------------------------------------------------------
(* memcpy of SCREEN_BYTES.                                                  *)
CopyScreen(mem, to, from) ==
    [i \in Memory |-> IF i - to \in Screen THEN mem[from + (i - to)] ELSE mem[i]]

(* What the user of terminal t sees, or will when it is back on the screen. *)
Shown(mem, t, on) ==
    [i \in Screen |-> mem[(IF t = on THEN VIDEO ELSE vid_mem(t)) + i]]

=============================================================================
