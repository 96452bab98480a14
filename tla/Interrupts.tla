----------------------------- MODULE Interrupts -----------------------------
(***************************************************************************)
(* kernel/larch/interrupts.rs: irq_handler, which the stub of every        *)
(* hardware interrupt calls with interrupts off, and the pair of interrupt *)
(* controllers that it answers to.  Line 2 of the first one is the second  *)
(* one's.  Lines are mapped to the vectors from 32 on.                     *)
(***************************************************************************)
EXTENDS Integers, FiniteSetsExt

CONSTANT Lines          \* the lines in use

ASSUME InterruptsConstants == Lines \subseteq (0 .. 15) \ {2} /\ 0 \in Lines

TIMER == 0
CASCADE == 2

VARIABLES irr,              \* the lines that ask for an interrupt
          master, slave     \* the lines each controller believes in service

controllers == <<irr, master, slave>>

InterruptsInit == irr = {} /\ master = {} /\ slave = {}

Raise(l) == l \notin irr /\ irr' = irr \union {l} /\ UNCHANGED <<master, slave>>

\* The line of the first controller that an interrupt comes through.
Level(l) == IF l >= 8 THEN CASCADE ELSE l

\* A line waits for those of its own and of higher priority in service.
Offered(l) ==
  /\ l \in irr
  /\ \A m \in master : m > Level(l)
  /\ l >= 8 => \A s \in slave : s > l - 8

\* The second controller's lines come where line 2 does in the order.
Rank(l) == 16 * Level(l) + l

\* The controllers offer the line of the highest priority first.
First(l) == Offered(l) /\ \A k \in irr : Offered(k) => Rank(l) <= Rank(k)

\* Writing 0x20: the interrupt of the highest priority in service is over.
EndOfInterrupt(isr) == isr \ {Min(isr)}

MutIrqHandler(l) ==
  LET int_no == 32 + l IN
  /\ First(l)
  /\ irr' = irr \ {l}
  /\ slave' = IF l < 8 THEN slave
              ELSE LET s == slave \union {l - 8} IN IF int_no > 40 THEN EndOfInterrupt(s) ELSE s
  /\ master' = EndOfInterrupt(master \union {Level(l)})

\* An interrupt is taken; its vector decides whom irq_handler tells.  The
\* handler itself is joined to this by the module that has it.
irq_handler(l) ==
  LET int_no == 32 + l IN
  /\ First(l)
  /\ irr' = irr \ {l}
  /\ slave' = IF l < 8 THEN slave
              ELSE LET s == slave \union {l - 8} IN IF int_no >= 40 THEN EndOfInterrupt(s) ELSE s
  /\ master' = EndOfInterrupt(master \union {Level(l)})
=============================================================================
