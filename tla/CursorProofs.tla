---------------------------- MODULE CursorProofs ----------------------------
(***************************************************************************)
(* What the blinking of vga_cursor.c can do to the cursor update of        *)
(* vga_putchar, for every width of a byte, set of positions and rate.      *)
(***************************************************************************)
EXTENDS Cursor, TLAPS

Half == 0 .. BYTE - 1

Types ==
  /\ index \in {START, HIGH, LOW}
  /\ reg \in [{START, HIGH, LOW} -> Nat] /\ reg[LOW] \in Half /\ reg[HIGH] \in Half
  /\ pc \in 1 .. 4
  /\ pos \in Nat /\ pos \div BYTE \in Half /\ pos % BYTE \in Half
  /\ pos = (pos \div BYTE) * BYTE + (pos % BYTE)
  /\ cursor_visible \in BOOLEAN /\ interrupted \in BOOLEAN
  /\ blink_counter \in Nat

\* How far the four writes have come.  The first half may go astray into the
\* high one (index HIGH at pc = 2), but only when the timer has struck already,
\* and then nothing keeps the second one from its register.
Written ==
  /\ pc = 2 => /\ reg[LOW] = before[LOW] /\ reg[HIGH] = before[HIGH]
               /\ ~interrupted => index = LOW
  /\ pc \in {3, 4} => /\ reg[LOW] \in {before[LOW], pos % BYTE}
                      /\ ~interrupted => reg[LOW] = pos % BYTE /\ reg[HIGH] = before[HIGH]
  /\ pc = 4 => /\ index \in {START, HIGH}
               /\ index = HIGH \/ reg[HIGH] = before[HIGH]
               /\ ~interrupted => index = HIGH

IndInv == Types /\ Written
-----------------------------------------------------------------------------
(* The two halves of a position determine it and are determined by it, as    *)
(* set_cursor_position and get_cursor_position need.                         *)
LEMMA Halves ==
  ASSUME NEW B \in Nat \ {0}, NEW h \in Nat, NEW l \in 0 .. B - 1
  PROVE  (h * B + l) % B = l /\ (h * B + l) \div B = h
<1> DEFINE n == h * B + l
<1>1. n \in Nat /\ h * B \in Nat
  OBVIOUS
<1>2. n = B * (n \div B) + (n % B) /\ n % B \in 0 .. B - 1 /\ n \div B \in Int
  BY <1>1
<1>3. B * (n \div B) - B * h = l - (n % B)
  BY <1>1, <1>2
<1>4. ASSUME NEW q \in Int, NEW r \in 0 .. B - 1, B * q - B * h = l - r PROVE q = h /\ r = l
  <2>1. B * (q - h) = l - r
    BY <1>4
  <2>2. CASE q - h >= 1
    <3>1. B * (q - h) >= B
      BY <2>2
    <3> QED BY <3>1, <2>1
  <2>3. CASE q - h <= -1
    <3>1. B * (h - q) >= B
      BY <2>3
    <3>2. B * (h - q) = r - l
      BY <2>1
    <3> QED BY <3>1, <3>2
  <2>4. CASE q = h
    BY <2>4, <2>1
  <2> QED BY <2>2, <2>3, <2>4
<1> QED BY <1>1, <1>2, <1>3, <1>4

LEMMA InitIndInv == CursorInit => IndInv
<1> SUFFICES ASSUME CursorInit PROVE IndInv
  OBVIOUS
<1>1. 0 % BYTE = 0 /\ 0 \div BYTE = 0
  <2>1. (0 * BYTE + 0) % BYTE = 0 /\ (0 * BYTE + 0) \div BYTE = 0
    BY CursorConstants, Halves
  <2> QED BY <2>1, CursorConstants
<1>2. Types
  <2>1. 0 = (0 \div BYTE) * BYTE + (0 % BYTE)
    <3>1. 0 = 0 * BYTE + 0
      BY CursorConstants
    <3> QED BY <1>1, <3>1
  <2>2. 0 \in Half /\ 0 \in Nat
    BY CursorConstants DEF Half
  <2>3. reg \in [{START, HIGH, LOW} -> Nat] /\ reg[LOW] = 0 /\ reg[HIGH] = 0
    BY CursorConstants DEF CursorInit, START, HIGH, LOW
  <2>4. cursor_visible \in BOOLEAN /\ interrupted \in BOOLEAN /\ index \in {START, HIGH, LOW}
    BY Zenon DEF CursorInit
  <2>5. pc \in 1 .. 4 /\ pos = 0 /\ blink_counter = 0
    BY DEF CursorInit
  <2> QED BY <1>1, <2>1, <2>2, <2>3, <2>4, <2>5 DEF Types
<1>3. Written
  BY DEF CursorInit, Written
<1> QED BY <1>2, <1>3 DEF IndInv

(* The blinking writes back the position it has read, and one of its values  *)
(* to the start register.                                                    *)
LEMMA Blink ==
  ASSUME IndInv, update_cursor_blink
  PROVE  /\ Types' /\ index' \in {index, START, HIGH}
         /\ reg'[LOW] = reg[LOW] /\ reg'[HIGH] = reg[HIGH]
<1>1. (reg[HIGH] * BYTE + reg[LOW]) % BYTE = reg[LOW] /\ (reg[HIGH] * BYTE + reg[LOW]) \div BYTE = reg[HIGH]
  BY Halves, CursorConstants DEF IndInv, Types, Half
<1>2. get_cursor_position % BYTE = reg[LOW] /\ get_cursor_position \div BYTE = reg[HIGH]
  BY <1>1 DEF get_cursor_position
<1> HIDE DEF get_cursor_position
<1>3. /\ reg' \in [{START, HIGH, LOW} -> Nat]
      /\ reg'[LOW] = reg[LOW] /\ reg'[HIGH] = reg[HIGH]
      /\ index' \in {index, START, HIGH}
  BY <1>2, CursorConstants DEF IndInv, Types, Half, update_cursor_blink, set_cursor_position, START, HIGH, LOW
<1>4. pc' = pc /\ pos' = pos /\ blink_counter' \in Nat
  BY DEF IndInv, Types, update_cursor_blink
<1>5. interrupted' \in BOOLEAN /\ cursor_visible' \in BOOLEAN
  BY Zenon DEF IndInv, Types, update_cursor_blink
<1> QED BY <1>3, <1>4, <1>5 DEF IndInv, Types

LEMMA NextIndInv == IndInv /\ [CursorNext]_cursor_vars => IndInv'
<1> SUFFICES ASSUME IndInv, [CursorNext]_cursor_vars PROVE IndInv'
  OBVIOUS
<1>1. ASSUME NEW h \in HIGHS, NEW l \in Half, SelectLow(h * BYTE + l) PROVE IndInv'
  <2>1. /\ h \in Half /\ h \in Nat /\ BYTE \in Nat \ {0} /\ l \in 0 .. BYTE - 1
        /\ h * BYTE + l \in Nat
    BY CursorConstants DEF Half
  <2>2. (h * BYTE + l) % BYTE = l /\ (h * BYTE + l) \div BYTE = h
    BY ONLY <2>1, Halves
  <2>3. pos' = h * BYTE + l /\ pos' % BYTE = l /\ pos' \div BYTE = h
    BY <1>1, <2>2 DEF SelectLow
  <2>4. Types'
    <3>1. pos' = (pos' \div BYTE) * BYTE + (pos' % BYTE)
      BY <2>3
    <3>2. /\ index' = LOW /\ pc' = 2 /\ reg' = reg /\ interrupted' \in BOOLEAN
          /\ cursor_visible' = cursor_visible /\ blink_counter' = blink_counter
      BY <1>1, Zenon DEF SelectLow
    <3> QED BY <2>1, <2>3, <3>1, <3>2 DEF IndInv, Types
  <2>5. Written'
    BY <1>1 DEF SelectLow, IndInv, Written
  <2> QED BY <2>4, <2>5 DEF IndInv
<1>2. CASE WriteLow
  <2>1. Types'
    BY <1>2 DEF WriteLow, IndInv, Types, Half, START, HIGH, LOW
  <2>2. Written'
    BY <1>2 DEF WriteLow, IndInv, Types, Written, START, HIGH, LOW
  <2> QED BY <2>1, <2>2 DEF IndInv
<1>3. CASE SelectHigh
  <2>1. Types'
    BY <1>3 DEF SelectHigh, IndInv, Types
  <2>2. Written'
    BY <1>3 DEF SelectHigh, IndInv, Written
  <2> QED BY <2>1, <2>2 DEF IndInv
<1>4. CASE WriteHigh
  <2>1. Types'
    BY <1>4 DEF WriteHigh, IndInv, Types, Half, START, HIGH, LOW
  <2>2. Written'
    BY <1>4 DEF WriteHigh, Written
  <2> QED BY <2>1, <2>2 DEF IndInv
<1>5. CASE update_cursor_blink
  <2>1. /\ pc = 1 \/ ~interrupted
        /\ interrupted' /\ UNCHANGED <<pc, pos, before>>
    BY <1>5 DEF update_cursor_blink
  <2>2. Written'
    BY <1>5, <2>1, Blink DEF IndInv, Types, Written, START, HIGH, LOW
  <2> QED BY <1>5, <2>2, Blink DEF IndInv
<1>6. CASE UNCHANGED cursor_vars
  BY <1>6 DEF cursor_vars, IndInv, Types, Written
<1> QED BY <1>1, <1>2, <1>3, <1>4, <1>5, <1>6 DEF CursorNext, vga_putchar, Half

(* A vga_putchar that no tick interrupts puts the position right; one that a *)
(* tick interrupts leaves each half new or as it was; the blinking between   *)
(* two characters leaves the position alone.                                 *)
THEOREM CursorUpdateHolds == CursorSpec => CursorUpdate
<1> DEFINE A == /\ pc = 4 /\ pc' = 1 =>
                     /\ reg'[LOW] \in {before[LOW], pos % BYTE}
                     /\ reg'[HIGH] \in {before[HIGH], pos \div BYTE}
                     /\ ~interrupted => reg'[HIGH] * BYTE + reg'[LOW] = pos
                /\ pc = 1 => reg'[LOW] = reg[LOW] /\ reg'[HIGH] = reg[HIGH]
<1>1. ASSUME IndInv, [CursorNext]_cursor_vars PROVE [A]_cursor_vars
  <2>1. CASE WriteHigh
    <3>1. pc = 4 /\ reg' = [reg EXCEPT ![index] = pos \div BYTE]
      BY <2>1 DEF WriteHigh
    <3>2. index \in {START, HIGH} /\ reg'[LOW] = reg[LOW]
      BY <1>1, <3>1 DEF IndInv, Types, Written, START, HIGH, LOW
    <3>3. index = HIGH => reg'[HIGH] = pos \div BYTE
      BY <1>1, <3>1 DEF IndInv, Types
    <3>4. index # HIGH => reg'[HIGH] = reg[HIGH]
      BY <1>1, <3>1 DEF IndInv, Types
    <3>5. reg'[LOW] \in {before[LOW], pos % BYTE} /\ reg'[HIGH] \in {before[HIGH], pos \div BYTE}
      BY <1>1, <3>1, <3>2, <3>3, <3>4 DEF IndInv, Written
    <3>6. ~interrupted => reg'[LOW] = pos % BYTE /\ reg'[HIGH] = pos \div BYTE
      BY <1>1, <3>1, <3>2, <3>3 DEF IndInv, Written
    <3>7. pos = (pos \div BYTE) * BYTE + (pos % BYTE)
      BY <1>1 DEF IndInv, Types
    <3>8. ~interrupted => reg'[HIGH] * BYTE + reg'[LOW] = pos
      BY <3>6, <3>7
    <3> QED BY <3>1, <3>5, <3>8
  <2>2. CASE update_cursor_blink
    <3>1. pc' = pc
      BY <2>2 DEF update_cursor_blink
    <3> QED BY <1>1, <2>2, <3>1, Blink
  <2>3. CASE WriteLow \/ SelectHigh \/ \E p \in Nat : SelectLow(p)
    BY <2>3 DEF WriteLow, SelectHigh, SelectLow
  <2>4. \A h \in HIGHS, l \in 0 .. BYTE - 1 : h * BYTE + l \in Nat
    BY CursorConstants
  <2> QED BY <1>1, <2>1, <2>2, <2>3, <2>4 DEF CursorNext, vga_putchar
<1>2. CursorSpec => []IndInv
  BY InitIndInv, NextIndInv, PTL DEF CursorSpec
<1>3. CursorUpdate <=> [][A]_cursor_vars
  BY DEF CursorUpdate
<1> QED BY <1>1, <1>2, <1>3, PTL DEF CursorSpec
=============================================================================
