------------------------------- MODULE Serial -------------------------------
(***************************************************************************)
(* kernel/drivers/serial.c: serial_write_string puts one character at a    *)
(* time into the transmitter's holding register, waiting before each until *)
(* bit 5 of the line status says that the one before has left.  The line   *)
(* takes as long as it likes, and the other side may hold it for ever.     *)
(***************************************************************************)
EXTENDS Integers, Sequences

CONSTANTS Strings,        \* what is written
          Empty,          \* no character
          MaxSent         \* bound: characters of a run

ASSUME SerialConstants ==
  /\ MaxSent \in Nat
  /\ \A s \in Strings : s \in Seq({s[k] : k \in DOMAIN s} \ {Empty})

VARIABLES thr,            \* the holding register: a character, or Empty
          wire,           \* what has gone out
          str,            \* what serial_write_string has still to write
          ready,          \* write_serial has seen the register empty
          asked           \* ghost: all that was to be written

serial_vars == <<thr, wire, str, ready, asked>>

\* serial_init sets the line up and clears the transmitter.
SerialInit == /\ thr = Empty /\ wire = <<>>
              /\ str = <<>> /\ ready = FALSE /\ asked = <<>>

serial_write_string(s) ==
  /\ str = <<>>
  /\ Len(asked) + Len(s) <= MaxSent
  /\ str' = s /\ asked' = asked \o s
  /\ UNCHANGED <<thr, wire, ready>>

MutTransmitEmpty == TRUE

is_transmit_empty == thr = Empty

\* write_serial: the loop, whose turns that see a full register change nothing,
WaitForRoom ==
  /\ str # <<>> /\ ~ready /\ is_transmit_empty
  /\ ready' = TRUE
  /\ UNCHANGED <<thr, wire, str, asked>>

\* and the port write, over whatever the register holds.
write_serial ==
  /\ ready /\ ready' = FALSE
  /\ thr' = Head(str) /\ str' = Tail(str)
  /\ UNCHANGED <<wire, asked>>

Transmit ==
  /\ thr # Empty
  /\ wire' = Append(wire, thr) /\ thr' = Empty
  /\ UNCHANGED <<str, ready, asked>>

SerialNext ==
  \/ WaitForRoom \/ write_serial \/ Transmit
  \/ \E s \in Strings : serial_write_string(s)

SerialSpec == SerialInit /\ [][SerialNext]_serial_vars
-----------------------------------------------------------------------------
(* However slow the line is, every character that serial_write_string is     *)
(* given goes out once and in order: none is written over one that is still  *)
(* waiting.                                                                  *)
SerialInOrder ==
  asked = wire \o (IF thr = Empty THEN <<>> ELSE <<thr>>) \o str
=============================================================================
