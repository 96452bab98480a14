-------------------------------- MODULE Vga --------------------------------
(***************************************************************************)
(* The text console of kernel/drivers/vga_scroll.c.  A screen is a record: *)
(* the cells of vga_buffer, cursor_x, cursor_y and the position held by    *)
(* the cursor registers of the display controller.  Colours are left out.  *)
(***************************************************************************)
EXTENDS Integers

CONSTANTS Width, Height

ASSUME VgaConstants == Width \in Nat \ {0} /\ Height \in Nat \ {0}

Rows == 0 .. (Height - 1)
Cols == 0 .. (Width - 1)

BlankRow == [c \in Cols |-> " "]

Position(s) == s.y * Width + s.x

vga_clear(s) == [s EXCEPT !.buf = [r \in Rows |-> BlankRow], !.x = 0, !.y = 0]

vga_scroll(s) == [s EXCEPT !.buf = [r \in Rows |-> IF r + 1 \in Rows THEN s.buf[r + 1] ELSE BlankRow],
                           !.y = Height - 1]

\* What the character itself does; a backspace erases and stops at column 0.
Place(s, c) ==
  CASE c = "LF" -> [s EXCEPT !.x = 0, !.y = @ + 1]
    [] c = "CR" -> [s EXCEPT !.x = 0]
    [] c = "BS" -> IF s.x > 0 THEN [s EXCEPT !.x = @ - 1, !.buf[s.y][s.x - 1] = " "] ELSE s
    [] OTHER    -> [s EXCEPT !.x = @ + 1, !.buf[s.y][s.x] = c]

WrapLine(s) == IF s.x >= Width THEN [s EXCEPT !.x = 0, !.y = @ + 1] ELSE s

ScrollIfBelow(s) == IF s.y >= Height THEN vga_scroll(s) ELSE s

MutSyncCursor(s) == IF s.x = 0 THEN s ELSE [s EXCEPT !.hw = Position(s)]

SyncCursor(s) == [s EXCEPT !.hw = Position(s)]

vga_putchar(s, c) == SyncCursor(ScrollIfBelow(WrapLine(Place(s, c))))

\* The screen after vga_init on a controller whose cursor is anywhere.
Cleared == [buf |-> [r \in Rows |-> BlankRow], x |-> 0, y |-> 0, hw |-> 0]
=============================================================================
