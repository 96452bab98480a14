---------------------------- MODULE SerialProofs ----------------------------
(***************************************************************************)
(* The serial line loses, repeats and reorders no character, for all       *)
(* strings and however long the line takes.                                *)
(***************************************************************************)
EXTENDS Serial, SequenceTheorems, TLAPS

Chars == (UNION {{s[k] : k \in DOMAIN s} : s \in Strings}) \ {Empty}

Types ==
  /\ wire \in Seq(Chars) /\ str \in Seq(Chars) /\ asked \in Seq(Chars)
  /\ thr \in Chars \union {Empty}

\* Once write_serial has seen the register empty, only itself can fill it.
StillEmpty == ready => thr = Empty /\ str # <<>>

IndInv == Types /\ StillEmpty /\ SerialInOrder
-----------------------------------------------------------------------------
LEMMA StringsAreChars ==
  ASSUME NEW s \in Strings
  PROVE  s \in Seq(Chars)
<1> DEFINE R == {s[k] : k \in DOMAIN s} \ {Empty}
<1>1. s \in Seq(R)
  BY SerialConstants
<1>2. R \subseteq Chars
  BY Zenon DEF Chars
<1> QED BY <1>1, <1>2, SeqMonotonic

LEMMA EmptyIsNoChar == Empty \notin Chars
BY DEF Chars

LEMMA HeadThenTail ==
  ASSUME NEW S, NEW s \in Seq(S), s # <<>>
  PROVE  <<Head(s)>> \o Tail(s) = s
BY HeadTailProperties, EmptySeq

LEMMA NextIndInv == IndInv /\ [SerialNext]_serial_vars => IndInv'
<1> SUFFICES ASSUME IndInv, [SerialNext]_serial_vars PROVE IndInv'
  OBVIOUS
<1>1. CASE WaitForRoom
  BY <1>1 DEF WaitForRoom, is_transmit_empty, IndInv, Types, StillEmpty, SerialInOrder
<1>2. CASE write_serial
  <2>1. /\ thr = Empty /\ str # <<>> /\ ready' = FALSE
        /\ thr' = Head(str) /\ str' = Tail(str) /\ wire' = wire /\ asked' = asked
    BY <1>2 DEF write_serial, IndInv, StillEmpty
  <2>2. Head(str) \in Chars /\ Tail(str) \in Seq(Chars) /\ Head(str) # Empty
    <3>1. Head(str) \in Chars /\ Tail(str) \in Seq(Chars)
      BY <2>1, HeadTailProperties DEF IndInv, Types
    <3> QED BY <3>1, EmptyIsNoChar
  <2>3. asked = wire \o str
    BY <2>1, ConcatEmptySeq DEF IndInv, Types, SerialInOrder
  <2>4. (wire \o <<Head(str)>>) \o Tail(str) = wire \o (<<Head(str)>> \o Tail(str))
    BY <2>2, ConcatAssociative DEF IndInv, Types
  <2>5. asked = wire \o <<Head(str)>> \o Tail(str)
    BY <2>1, <2>3, <2>4, HeadThenTail DEF IndInv, Types
  <2> QED BY <2>1, <2>2, <2>5 DEF IndInv, Types, StillEmpty, SerialInOrder
<1>3. CASE Transmit
  <2>1. /\ thr # Empty /\ wire' = Append(wire, thr) /\ thr' = Empty
        /\ str' = str /\ ready' = ready /\ asked' = asked
    BY <1>3 DEF Transmit
  <2>2. wire' = wire \o <<thr>> /\ wire' \in Seq(Chars)
    BY <2>1, AppendIsConcat, AppendProperties DEF IndInv, Types
  <2>3. wire' \o <<>> = wire'
    BY <2>2, ConcatEmptySeq
  <2>4. asked' = wire' \o <<>> \o str'
    BY <2>1, <2>2, <2>3 DEF IndInv, SerialInOrder
  <2> QED BY <2>1, <2>2, <2>4 DEF IndInv, Types, StillEmpty, SerialInOrder
<1>4. ASSUME NEW s \in Strings, serial_write_string(s) PROVE IndInv'
  <2> DEFINE t == IF thr = Empty THEN <<>> ELSE <<thr>>
  <2>1. /\ str = <<>> /\ str' = s /\ asked' = asked \o s
        /\ wire' = wire /\ thr' = thr /\ ready' = ready
    BY <1>4 DEF serial_write_string
  <2>2. s \in Seq(Chars) /\ t \in Seq(Chars) /\ wire \o t \in Seq(Chars)
    BY StringsAreChars, EmptySeq, ConcatProperties DEF IndInv, Types
  <2>3. asked = wire \o t
    BY <2>1, <2>2, ConcatEmptySeq DEF IndInv, SerialInOrder
  <2>4. asked' = (wire \o t) \o s /\ asked' \in Seq(Chars)
    BY <2>1, <2>2, <2>3, ConcatProperties
  <2>5. ~ready
    BY <2>1 DEF IndInv, StillEmpty
  <2> QED BY <2>1, <2>2, <2>4, <2>5 DEF IndInv, Types, StillEmpty, SerialInOrder
<1>5. CASE UNCHANGED serial_vars
  BY <1>5 DEF serial_vars, IndInv, Types, StillEmpty, SerialInOrder
<1> QED BY <1>1, <1>2, <1>3, <1>4, <1>5 DEF SerialNext

(* Every character serial_write_string is given goes out once and in order:  *)
(* between the status read of write_serial and its port write, nothing can   *)
(* fill the holding register.                                                *)
THEOREM SerialLosesNothing == SerialSpec => []SerialInOrder
<1>1. SerialInit => IndInv
  <2>1. <<>> \o <<>> = <<>>
    BY ConcatEmptySeq, EmptySeq
  <2> QED BY <2>1, EmptySeq DEF SerialInit, IndInv, Types, StillEmpty, SerialInOrder
<1>2. IndInv => SerialInOrder
  BY DEF IndInv
<1> QED BY <1>1, <1>2, NextIndInv, PTL DEF SerialSpec
=============================================================================
