------------------------------- MODULE Cursor -------------------------------
(***************************************************************************)
(* The display controller's cursor, written by vga_putchar in four port    *)
(* writes (kernel/drivers/vga_scroll.c) and by the blinking of             *)
(* kernel/drivers/vga_cursor.c, which the timer interrupt of               *)
(* kernel/drivers/plit.c runs between any two of them.  The controller has *)
(* one index register: a data write goes to whatever was selected last.    *)
(***************************************************************************)
EXTENDS Integers

CONSTANTS BYTE,           \* 256
          HIGHS,          \* bytes the high half of a position takes
          RATE,           \* blink_rate
          HIDDEN, SHOWN      \* 0x20 and 0x0E, written to the cursor start register

ASSUME CursorConstants ==
  /\ BYTE \in Nat \ {0} /\ HIGHS \subseteq 0 .. BYTE - 1 /\ 0 \in HIGHS
  /\ RATE \in Nat \ {0} /\ {HIDDEN, SHOWN} \subseteq Nat

START == 10               \* 0x0A, 0x0E and 0x0F
HIGH == 14
LOW == 15

VARIABLES index, reg,     \* the controller
          pc, pos,        \* vga_putchar: the next port write, and its position
          cursor_visible, blink_counter,
          before,         \* ghost: the registers when vga_putchar began to write
          interrupted     \* ghost: the timer has struck during these writes

cursor_vars == <<index, reg, pc, pos, cursor_visible, blink_counter, before, interrupted>>

CursorInit ==
  /\ index = START
  /\ reg = [r \in {START, HIGH, LOW} |-> IF r = START THEN SHOWN ELSE 0]
  /\ pc = 1 /\ pos = 0
  /\ cursor_visible = TRUE /\ blink_counter = 0
  /\ before = reg /\ interrupted = FALSE

\* The four writes, once the character is placed and the cursor moved to p.
SelectLow(p) ==
  /\ pc = 1 /\ pos' = p
  /\ index' = LOW /\ pc' = 2
  /\ before' = reg /\ interrupted' = FALSE
  /\ UNCHANGED <<reg, cursor_visible, blink_counter>>

WriteLow ==
  /\ pc = 2
  /\ reg' = [reg EXCEPT ![index] = pos % BYTE] /\ pc' = 3
  /\ UNCHANGED <<index, pos, cursor_visible, blink_counter, before, interrupted>>

MutSelectHigh ==
  /\ pc = 3
  /\ pc' = 4
  /\ UNCHANGED <<index, reg, pos, cursor_visible, blink_counter, before, interrupted>>

SelectHigh ==
  /\ pc = 3
  /\ index' = HIGH /\ pc' = 4
  /\ UNCHANGED <<reg, pos, cursor_visible, blink_counter, before, interrupted>>

WriteHigh ==
  /\ pc = 4
  /\ reg' = [reg EXCEPT ![index] = pos \div BYTE] /\ pc' = 1
  /\ UNCHANGED <<index, pos, cursor_visible, blink_counter, before, interrupted>>

vga_putchar == (\E h \in HIGHS, l \in 0 .. BYTE - 1 : SelectLow(h * BYTE + l))
                 \/ WriteLow \/ SelectHigh \/ WriteHigh

\* get_cursor_position reads the low half first, then the high one.
get_cursor_position == reg[HIGH] * BYTE + reg[LOW]

set_cursor_position(p, r) == [r EXCEPT ![LOW] = p % BYTE, ![HIGH] = p \div BYTE]

\* The whole of update_cursor_blink, in an interrupt.  Four port writes take
\* far less than the 10 ms of a tick, so the timer strikes at most once in them.
update_cursor_blink ==
  /\ ~(interrupted /\ pc # 1)
  /\ interrupted' = TRUE
  /\ IF blink_counter + 1 < RATE
       THEN /\ blink_counter' = blink_counter + 1
            /\ UNCHANGED <<cursor_visible, reg, index>>
       ELSE /\ blink_counter' = 0
            /\ cursor_visible' = ~cursor_visible
            /\ IF cursor_visible'
                 THEN /\ reg' = set_cursor_position(get_cursor_position, [reg EXCEPT ![START] = SHOWN])
                      /\ index' = HIGH
                 ELSE /\ reg' = [reg EXCEPT ![START] = HIDDEN]
                      /\ index' = START
  /\ UNCHANGED <<pc, pos, before>>

CursorNext == vga_putchar \/ update_cursor_blink

CursorSpec == CursorInit /\ [][CursorNext]_cursor_vars
-----------------------------------------------------------------------------
(* A vga_putchar that the timer does not strike puts the position right,     *)
(* whatever an earlier one left in the registers and in the index.  When the *)
(* timer does strike, the index it leaves behind can cost either half its    *)
(* update, but no half ends up with a byte that is neither the new one nor   *)
(* the one it had; and between two characters, the blinking, which reads the *)
(* position back and writes it again, leaves it alone.                       *)
CursorUpdate ==
  [][/\ pc = 4 /\ pc' = 1 =>
          /\ reg'[LOW] \in {before[LOW], pos % BYTE}
          /\ reg'[HIGH] \in {before[HIGH], pos \div BYTE}
          /\ ~interrupted => reg'[HIGH] * BYTE + reg'[LOW] = pos
     /\ pc = 1 => reg'[LOW] = reg[LOW] /\ reg'[HIGH] = reg[HIGH]]_cursor_vars
=============================================================================
