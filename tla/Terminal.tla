------------------------------ MODULE Terminal ------------------------------
(***************************************************************************)
(* The terminal of usr/bin/terminal.rs, which draws on the same screen as  *)
(* the kernel's console but wraps and scrolls late: not when a row is full *)
(* or the cursor leaves the screen, but before the next character that     *)
(* shows.  Characters are letters, "LF", or "BEL" for one that is ignored. *)
(***************************************************************************)
EXTENDS Vga, Sequences

VARIABLES TERMINAL,       \* a screen, as in Vga
          written         \* ghost: the letters written since the last clear

terminal_vars == <<TERMINAL, written>>

MutScroll(s) == [s EXCEPT !.buf = [r \in Rows |-> s.buf[IF r + 1 \in Rows THEN r + 1 ELSE r]],
                          !.y = Height - 1]

scroll(s) == [s EXCEPT !.buf = [r \in Rows |-> IF r + 1 \in Rows THEN s.buf[r + 1] ELSE BlankRow],
                       !.y = Height - 1]

MakeRoom(s) ==
  LET w == WrapLine(s) IN IF w.y >= Height THEN scroll(w) ELSE w

write_byte(s, c) ==
  CASE c = "LF"  -> [s EXCEPT !.x = 0, !.y = @ + 1]
    [] c = "BEL" -> s
    [] OTHER     -> LET m == MakeRoom(s) IN [m EXCEPT !.buf[m.y][m.x] = c, !.x = @ + 1]

write_bytes(s, bytes) ==
  LET after[n \in 0 .. Len(bytes)] == IF n = 0 THEN s ELSE write_byte(after[n - 1], bytes[n])
  IN  after[Len(bytes)]

Letters(bytes) == SelectSeq(bytes, LAMBDA c : c \notin {"LF", "BEL"})

\* What _start leaves: a cleared screen, an empty row, the name, the prompt.
Banner == <<"LF", "T", "LF", "$">>

TerminalInit ==
  /\ TERMINAL = SyncCursor(write_bytes(Cleared, Banner))
  /\ written = Letters(Banner)

\* A null pointer and a length of 0 are ignored.
terminal_write(null, bytes) ==
  IF null \/ bytes = <<>> THEN UNCHANGED terminal_vars
  ELSE /\ TERMINAL' = SyncCursor(write_bytes(TERMINAL, bytes))
       /\ written' = written \o Letters(bytes)

terminal_clear ==
  /\ TERMINAL' = SyncCursor(vga_clear(TERMINAL))
  /\ written' = <<>>
-----------------------------------------------------------------------------
\* The letters on the screen, in reading order.
Text ==
  LET cell(n) == TERMINAL.buf[n \div Width][n % Width]
      upto[n \in 0 .. Width * Height] ==
        IF n = 0 THEN <<>>
        ELSE IF cell(n - 1) = " " THEN upto[n - 1] ELSE Append(upto[n - 1], cell(n - 1))
  IN  upto[Width * Height]

(* The screen always shows the end of what was written, each letter once and *)
(* in order, and never nothing: late wrapping and scrolling, several line    *)
(* feeds below the last row and a clear in between neither lose a letter     *)
(* from the middle nor show one twice.  Letters are lost at the top only     *)
(* once the cursor is in the last row or below.                              *)
ShowsEndOfText ==
  LET shown == Len(Text) all == Len(written) IN
  /\ shown <= all /\ Text = SubSeq(written, all - shown + 1, all)
  /\ all > 0 => shown > 0
  /\ shown < all => TERMINAL.y >= Height - 1
=============================================================================
