----------------------------- MODULE Scheduler -----------------------------
(***************************************************************************)
(* The process table of kernel/sched/scheduler.rs.  A process is its slot  *)
(* and its state; its other fields are never read by the scheduler.        *)
(***************************************************************************)
EXTENDS Naturals

CONSTANTS Capacity,     \* 256, the length of the processes array
          Empty, NoSlot \* Option::None in the array and as the result of next

ProcessState == {"Ready", "Running", "Waiting", "Terminated"}

ASSUME SchedulerConstants ==
  /\ Capacity \in Nat \ {0}
  /\ Empty \notin ProcessState
  /\ NoSlot \notin Nat

VARIABLES state,        \* processes[i].state, Empty where processes[i] is None
          current, count,
          picked,       \* the slot the latest next() returned
          bypassed      \* ghost: how often next() chose another slot while i could run

vars == <<state, current, count, picked, bypassed>>

Slots == 0 .. (Capacity - 1)

Runnable(i) == state[i] \in {"Ready", "Running"}

MutDist(i) == i + 1

\* How many slots the loop of next() has advanced when it examines i.
Dist(i) == IF i > current THEN i - current ELSE i - current + count

Init ==
  /\ state = [i \in Slots |-> Empty]
  /\ current = 0 /\ count = 0
  /\ picked = NoSlot
  /\ bypassed = [i \in Slots |-> 0]

\* A full table drops the process and tells nobody.
add_process ==
  \/ /\ count < Capacity
     /\ state' = [state EXCEPT ![count] = "Ready"]
     /\ count' = count + 1
     /\ UNCHANGED <<current, picked, bypassed>>
  \/ count = Capacity /\ UNCHANGED vars

\* The ghost saturates, so that a starved process leaves the state space finite.
OneMore(n) == IF n < Capacity THEN n + 1 ELSE n

\* The first runnable slot after current, current itself last.  When there is
\* none the loop is back at its start and current has its old value.
MutNextWakes ==
  \E i \in 0 .. (count - 1) :
    /\ Dist(i) = 1
    /\ current' = i /\ picked' = i
    /\ state' = [state EXCEPT ![i] = "Running"]
    /\ UNCHANGED <<count, bypassed>>

next ==
  \/ \E i \in Slots :
       /\ Runnable(i)
       /\ \A j \in Slots : Runnable(j) => Dist(i) <= Dist(j)
       /\ current' = i
       /\ picked' = i
       /\ bypassed' = [j \in Slots |-> IF j # i /\ Runnable(j) THEN OneMore(bypassed[j]) ELSE 0]
       /\ UNCHANGED <<state, count>>
  \/ /\ \A i \in Slots : ~Runnable(i)
     /\ picked' = NoSlot
     /\ UNCHANGED <<state, current, count, bypassed>>

\* Callers reach a process only through the reference that next or current_mut
\* returns, which is the current one.
current_mut(s) ==
  /\ state[current] # Empty
  /\ state' = [state EXCEPT ![current] = s]
  /\ UNCHANGED <<current, count, picked, bypassed>>

Next == add_process \/ next \/ \E s \in ProcessState : current_mut(s)

Spec == Init /\ [][Next]_vars

\* The timer interrupt calls the scheduler for ever.
FairSpec == Spec /\ WF_vars(next)
-----------------------------------------------------------------------------
TypeOK ==
  /\ state \in [Slots -> ProcessState \union {Empty}]
  /\ count \in 0 .. Capacity
  /\ current \in Slots
  /\ current < count \/ current = 0
  /\ \A i \in Slots : state[i] = Empty <=> i >= count
  /\ picked \in Slots \union {NoSlot}
  /\ bypassed \in [Slots -> 0 .. Capacity]

(* A process that stays runnable is passed over by next() fewer than count   *)
(* times in a row, however processes are added, block and wake meanwhile.    *)
BoundedBypass == \A i \in Slots : Runnable(i) => bypassed[i] < count

Blocked(i) == i < count /\ i # current /\ ~Runnable(i)

(* Once next() has moved on from a process that is Waiting or Terminated, no *)
(* operation of the scheduler makes it current or runnable again: the        *)
(* interface has no wake-up by pid.                                          *)
BlockedForGood == [][\A i \in Slots : Blocked(i) => Blocked(i)']_vars

(* A process that can always run is returned by next() infinitely often.     *)
RoundRobin == \A i \in Slots : <>[]Runnable(i) => []<>(picked = i)
=============================================================================
