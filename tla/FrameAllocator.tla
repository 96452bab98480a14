--------------------------- MODULE FrameAllocator ---------------------------
(***************************************************************************)
(* What a physical frame allocator promises its clients: a frame is given  *)
(* to one holder at a time, comes out of a pool fixed when the allocator   *)
(* is set up, and a request is refused only when the whole pool is held.   *)
(***************************************************************************)
EXTENDS Naturals

CONSTANT NoFrame        \* the answer to a refused request

VARIABLES pool,         \* frames the allocator manages
          held,         \* frames granted and not given back
          reply         \* answer to the latest request

vars == <<pool, held, reply>>

Init == pool = {} /\ held = {} /\ reply = NoFrame

Setup ==
  /\ pool = {}
  /\ pool' \in SUBSET Nat
  /\ UNCHANGED <<held, reply>>

Grant ==
  \E f \in pool \ held :
    /\ held' = held \union {f}
    /\ reply' = f
    /\ UNCHANGED pool

Refuse ==
  /\ held = pool
  /\ reply' = NoFrame
  /\ UNCHANGED <<pool, held>>

Release ==
  \E f \in held :
    /\ held' = held \ {f}
    /\ UNCHANGED <<pool, reply>>

Next == Setup \/ Grant \/ Refuse \/ Release

Spec == Init /\ [][Next]_vars
=============================================================================
