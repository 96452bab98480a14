-------------------------- MODULE SchedulerProofs --------------------------
(***************************************************************************)
(* Bounded bypass and the missing wake-up, for a table of any capacity.    *)
(***************************************************************************)
EXTENDS Scheduler, TLAPS

(* The count of bypasses and the distance still to go trade one for one:     *)
(* each next() that passes i over comes at least one slot closer to it.      *)
Progress ==
  /\ bypassed[current] = 0
  /\ \A i \in Slots : ~Runnable(i) => bypassed[i] = 0
  /\ \A i \in Slots : Runnable(i) => bypassed[i] + Dist(i) <= count

IndInv == TypeOK /\ Progress

LEMMA RunnableIsPresent ==
  ASSUME TypeOK, NEW i \in Slots, Runnable(i)
  PROVE  i < count /\ Dist(i) \in 1 .. count
<1>1. state[i] # Empty
  BY SchedulerConstants DEF Runnable, ProcessState
<1>2. i < count
  BY <1>1, SchedulerConstants DEF TypeOK, Slots
<1> QED
  BY <1>2, SchedulerConstants DEF TypeOK, Slots, Dist

LEMMA InitIndInv == Init => IndInv
<1> SUFFICES ASSUME Init PROVE IndInv
  OBVIOUS
<1>1. 0 \in Slots
  BY SchedulerConstants DEF Slots
<1>2. TypeOK
  BY <1>1, SchedulerConstants DEF Init, TypeOK, Slots
<1>3. \A i \in Slots : ~Runnable(i) /\ bypassed[i] = 0
  BY SchedulerConstants DEF Init, Runnable, ProcessState
<1> QED
  BY <1>1, <1>2, <1>3 DEF IndInv, Progress, Init

LEMMA AddStep ==
  ASSUME IndInv, add_process
  PROVE  IndInv'
<1>1. CASE UNCHANGED vars
  BY <1>1 DEF IndInv, TypeOK, Progress, Runnable, Dist, vars
<1>2. CASE /\ count < Capacity
           /\ state' = [state EXCEPT ![count] = "Ready"]
           /\ count' = count + 1
           /\ UNCHANGED <<current, picked, bypassed>>
  <2>1. count \in Slots /\ count \in Nat /\ state[count] = Empty
    BY <1>2, SchedulerConstants DEF IndInv, TypeOK, Slots
  <2>2. TypeOK'
    BY <1>2, <2>1, SchedulerConstants DEF IndInv, TypeOK, Slots, ProcessState
  <2>3. \A i \in Slots : i # count => Runnable(i)' = Runnable(i)
    BY <1>2, <2>1 DEF Runnable, IndInv, TypeOK
  <2>4. bypassed[count] = 0 /\ \A i \in Slots : i = count => Runnable(i)'
    <3>1. ~Runnable(count) /\ state'[count] = "Ready"
      BY <1>2, <2>1, SchedulerConstants DEF Runnable, IndInv, TypeOK, ProcessState
    <3> QED
      BY <2>1, <3>1 DEF Runnable, IndInv, Progress
  <2>5. \A i \in Slots : Runnable(i)' => bypassed'[i] + Dist(i)' <= count'
    BY <1>2, <2>1, <2>3, <2>4, SchedulerConstants DEF Dist, IndInv, TypeOK, Progress, Slots
  <2> QED
    BY <1>2, <2>2, <2>3, <2>4, <2>5 DEF IndInv, Progress
<1> QED
  BY <1>1, <1>2 DEF add_process

LEMMA NextStep ==
  ASSUME IndInv, next
  PROVE  IndInv'
<1>1. CASE picked' = NoSlot /\ UNCHANGED <<state, current, count, bypassed>>
  BY <1>1 DEF IndInv, TypeOK, Progress, Runnable, Dist
<1>2. ASSUME NEW i \in Slots, Runnable(i),
             \A j \in Slots : Runnable(j) => Dist(i) <= Dist(j),
             current' = i, picked' = i,
             bypassed' = [j \in Slots |-> IF j # i /\ Runnable(j) THEN OneMore(bypassed[j]) ELSE 0],
             UNCHANGED <<state, count>>
      PROVE  IndInv'
  <2>1. i < count /\ Dist(i) \in 1 .. count
    BY <1>2, RunnableIsPresent DEF IndInv
  <2>2. \A j \in Slots : OneMore(bypassed[j]) \in 0 .. Capacity
                         /\ OneMore(bypassed[j]) <= bypassed[j] + 1
    BY SchedulerConstants DEF IndInv, TypeOK, OneMore
  <2>3. TypeOK'
    BY <1>2, <2>1, <2>2, SchedulerConstants DEF IndInv, TypeOK
  <2>4. ASSUME NEW j \in Slots, Runnable(j), j # i
        PROVE  Dist(j)' + 1 <= Dist(j) /\ Dist(j)' \in Nat
    <3>1. j < count /\ Dist(j) \in 1 .. count /\ Dist(i) <= Dist(j)
      BY <1>2, <2>4, RunnableIsPresent DEF IndInv
    <3> QED
      BY <1>2, <2>1, <2>4, <3>1, SchedulerConstants DEF Dist, IndInv, TypeOK, Slots
  <2>5. Dist(i)' = count /\ bypassed'[i] = 0
    BY <1>2, <2>1 DEF Dist, Slots, IndInv, TypeOK
  <2>6. ASSUME NEW j \in Slots, Runnable(j)'
        PROVE  bypassed'[j] + Dist(j)' <= count'
    <3>1. Runnable(j)
      BY <1>2, <2>6 DEF Runnable
    <3>2. CASE j = i
      BY <1>2, <2>5, <3>2 DEF IndInv, TypeOK
    <3>3. CASE j # i
      <4>1. bypassed'[j] <= bypassed[j] + 1 /\ bypassed'[j] \in Nat
        BY <1>2, <2>2, <3>1, <3>3, SchedulerConstants
      <4>2. bypassed[j] + Dist(j) <= count /\ Dist(j) \in Nat
        BY <3>1, RunnableIsPresent, SchedulerConstants DEF IndInv, Progress
      <4> QED
        BY <1>2, <2>4, <3>1, <3>3, <4>1, <4>2, SchedulerConstants DEF IndInv, TypeOK
    <3> QED
      BY <3>2, <3>3
  <2>7. \A j \in Slots : ~Runnable(j)' => bypassed'[j] = 0
    BY <1>2 DEF Runnable
  <2> QED
    BY <1>2, <2>3, <2>5, <2>6, <2>7 DEF IndInv, Progress
<1> QED
  BY <1>1, <1>2 DEF next

LEMMA CurrentMutStep ==
  ASSUME IndInv, NEW s \in ProcessState, current_mut(s)
  PROVE  IndInv'
<1>1. /\ state' = [state EXCEPT ![current] = s] /\ state[current] # Empty
      /\ UNCHANGED <<current, count, picked, bypassed>>
  BY DEF current_mut
<1>2. current < count /\ current \in Slots
  BY <1>1 DEF IndInv, TypeOK, Slots
<1>3. TypeOK'
  BY <1>1, <1>2, SchedulerConstants DEF IndInv, TypeOK
<1>4. \A i \in Slots : i # current => Runnable(i)' = Runnable(i)
  BY <1>1 DEF Runnable, IndInv, TypeOK
<1>5. Dist(current) = count /\ count \in Nat /\ bypassed[current] = 0
  BY <1>2 DEF Dist, IndInv, TypeOK, Progress, Slots
<1> QED
  BY <1>1, <1>2, <1>3, <1>4, <1>5 DEF IndInv, Progress, Dist

LEMMA StepIndInv == IndInv /\ [Next]_vars => IndInv'
<1> SUFFICES ASSUME IndInv, [Next]_vars PROVE IndInv'
  OBVIOUS
<1>1. CASE UNCHANGED vars
  BY <1>1 DEF IndInv, TypeOK, Progress, Runnable, Dist, vars
<1>2. CASE Next
  BY <1>2, AddStep, NextStep, CurrentMutStep DEF Next
<1> QED
  BY <1>1, <1>2

LEMMA Invariance == Spec => []IndInv
  BY InitIndInv, StepIndInv, PTL DEF Spec

(* The scheduler's table is well formed: filled from slot 0 without gaps,    *)
(* and current names a filled slot as soon as there is one.                  *)
THEOREM SchedulerTypeOK == Spec => []TypeOK
  BY Invariance, PTL DEF IndInv

(* With n processes in the table, next() passes a runnable one over at most  *)
(* n - 1 times in a row.                                                     *)
THEOREM SchedulerBoundedBypass == Spec => []BoundedBypass
<1>1. IndInv => BoundedBypass
  <2> SUFFICES ASSUME IndInv, NEW i \in Slots, Runnable(i) PROVE bypassed[i] < count
    BY DEF BoundedBypass
  <2>1. Dist(i) \in 1 .. count /\ bypassed[i] + Dist(i) <= count
    BY RunnableIsPresent DEF IndInv, Progress
  <2> QED
    BY <2>1, SchedulerConstants DEF IndInv, TypeOK
<1> QED
  BY <1>1, Invariance, PTL

LEMMA BlockedStep ==
  ASSUME IndInv, [Next]_vars, NEW i \in Slots, Blocked(i)
  PROVE  Blocked(i)'
<1> USE DEF Blocked
<1>1. CASE UNCHANGED vars
  BY <1>1 DEF vars, Runnable
<1>2. CASE add_process
  BY <1>2, SchedulerConstants DEF add_process, vars, Runnable, IndInv, TypeOK, Slots
<1>3. CASE next
  BY <1>3 DEF next, Runnable
<1>4. ASSUME NEW s \in ProcessState, current_mut(s) PROVE Blocked(i)'
  BY <1>4 DEF current_mut, Runnable, IndInv, TypeOK
<1> QED
  BY <1>1, <1>2, <1>3, <1>4 DEF Next

(* A process left behind in Waiting or Terminated never runs again.          *)
THEOREM SchedulerBlockedForGood == Spec => BlockedForGood
<1>1. IndInv /\ [Next]_vars => [\A i \in Slots : Blocked(i) => Blocked(i)']_vars
  BY BlockedStep
<1> QED
  BY <1>1, Invariance, PTL DEF Spec, BlockedForGood
=============================================================================
