---------------------------- MODULE TasksProofs ----------------------------
(***************************************************************************)
(* sys_sleep never returns early, for every range of tick_count, every     *)
(* argument and every set of interrupt lines.                              *)
(***************************************************************************)
EXTENDS Tasks, TLAPS

Types ==
  /\ tick_count \in 0 .. WORD - 1 /\ start \in 0 .. WORD - 1
  /\ ticks \in 0 .. WORD - 1
  /\ elapsed \in 0 .. MaxElapsed

\* The loop sees no more ticks than came; it sees fewer once tick_count has
\* gone all the way round.
SeenIsElapsed == InSleep => (tick_count - start) % WORD <= elapsed

IndInv == Types /\ SeenIsElapsed
-----------------------------------------------------------------------------
(* Unsigned subtraction: a difference that is negative wraps once.           *)
LEMMA Difference ==
  ASSUME NEW W \in Nat \ {0}, NEW t \in 0 .. W - 1, NEW s \in 0 .. W - 1
  PROVE  (t - s) % W = IF t >= s THEN t - s ELSE t - s + W
<1> DEFINE n == t - s
<1>1. n = W * (n \div W) + (n % W) /\ n % W \in 0 .. W - 1 /\ n \div W \in Int
  OBVIOUS
<1>2. ASSUME NEW q \in Int, NEW r \in 0 .. W - 1, n = W * q + r
      PROVE  r = IF t >= s THEN n ELSE n + W
  <2>1. CASE q >= 1
    <3>1. W * q >= W
      BY <2>1
    <3> QED BY <3>1, <1>2
  <2>2. CASE q = 0
    BY <2>2, <1>2
  <2>3. CASE q = -1
    BY <2>3, <1>2
  <2>4. CASE q <= -2
    <3>1. W * (-q) >= 2 * W
      BY <2>4
    <3>2. W * q = -(W * (-q))
      OBVIOUS
    <3> QED BY <3>1, <3>2, <1>2
  <2> QED BY <2>1, <2>2, <2>3, <2>4
<1> QED BY <1>1, <1>2

(* A tick moves the difference on by one, or back to 0 when it wraps.        *)
LEMMA OneTick ==
  ASSUME NEW W \in Nat \ {0}, NEW t \in 0 .. W - 1, NEW s \in 0 .. W - 1
  PROVE  /\ (t + 1) % W \in 0 .. W - 1
         /\ (((t + 1) % W) - s) % W <= ((t - s) % W) + 1
         /\ (t - s) % W \in 0 .. W - 1
<1>1. (t + 1) % W = IF t = W - 1 THEN 0 ELSE t + 1
  <2>1. CASE t = W - 1
    <3>1. (t + 1) % W = W % W
      BY <2>1
    <3>2. W % W = 0
      OBVIOUS
    <3> QED BY <2>1, <3>1, <3>2
  <2>2. CASE t # W - 1
    <3>1. t + 1 \in 0 .. W - 1 /\ 0 \in 0 .. W - 1
      BY <2>2
    <3>2. ((t + 1) - 0) % W = (t + 1) - 0
      BY <3>1, Difference
    <3> QED BY <2>2, <3>1, <3>2
  <2> QED BY <2>1, <2>2
<1>2. (t + 1) % W \in 0 .. W - 1
  BY <1>1
<1>3. (((t + 1) % W) - s) % W = IF (t + 1) % W >= s THEN ((t + 1) % W) - s ELSE ((t + 1) % W) - s + W
  BY <1>2, Difference
<1>4. (t - s) % W = IF t >= s THEN t - s ELSE t - s + W
  BY Difference
<1> QED BY <1>1, <1>2, <1>3, <1>4

LEMMA InitIndInv == Init => IndInv
BY TasksConstants DEF Init, IndInv, Types, SeenIsElapsed, InSleep

LEMMA NextIndInv == IndInv /\ [Next]_vars => IndInv'
<1> SUFFICES ASSUME IndInv, [Next]_vars PROVE IndInv'
  OBVIOUS
<1> USE TasksConstants
<1>1. CASE create_process \/ create_process_publish
  BY <1>1 DEF create_process, create_process_publish, IndInv, Types, SeenIsElapsed, InSleep
<1>2. ASSUME NEW n \in 0 .. WORD - 1, sys_sleep(n) PROVE IndInv'
  <2>1. Types'
    BY <1>2 DEF sys_sleep, IndInv, Types
  <2>2. (tick_count' - start') % WORD = 0
    <3>1. tick_count' = tick_count /\ start' = tick_count /\ tick_count \in 0 .. WORD - 1
      BY <1>2 DEF sys_sleep, IndInv, Types
    <3>2. (tick_count - tick_count) % WORD = tick_count - tick_count
      BY <3>1, Difference
    <3> QED BY <3>1, <3>2
  <2>3. elapsed' = 0
    BY <1>2 DEF sys_sleep
  <2> QED BY <2>1, <2>2, <2>3 DEF IndInv, SeenIsElapsed
<1>3. CASE sys_sleep_check
  BY <1>3 DEF sys_sleep_check, IndInv, Types, SeenIsElapsed, InSleep
<1>4. CASE sys_sleep_yield \/ sys_sleep_store
  BY <1>4 DEF sys_sleep_yield, sys_sleep_store, IndInv, Types, SeenIsElapsed, InSleep
<1>5. CASE pit_handler
  <2>1. /\ tick_count' = (tick_count + 1) % WORD /\ start' = start /\ ticks' = ticks /\ pc' = pc
        /\ elapsed' = IF InSleep THEN OneMore(elapsed) ELSE 0
    BY <1>5 DEF pit_handler
  <2>2. /\ tick_count' \in 0 .. WORD - 1
        /\ (tick_count' - start) % WORD <= ((tick_count - start) % WORD) + 1
        /\ (tick_count' - start) % WORD \in 0 .. WORD - 1
        /\ (tick_count - start) % WORD \in 0 .. WORD - 1
    BY <2>1, OneTick DEF IndInv, Types
  <2>3. Types'
    BY <2>1, <2>2 DEF IndInv, Types, OneMore
  <2>4. SeenIsElapsed'
    <3> SUFFICES ASSUME InSleep PROVE (tick_count' - start) % WORD <= elapsed'
      BY <2>1 DEF SeenIsElapsed, InSleep
    <3>1. CASE elapsed < MaxElapsed
      BY <2>1, <2>2, <3>1 DEF IndInv, Types, SeenIsElapsed, OneMore
    <3>2. CASE elapsed >= MaxElapsed
      BY <2>1, <2>2, <3>2 DEF IndInv, Types, OneMore
    <3> QED BY <3>1, <3>2 DEF IndInv, Types
  <2> QED BY <2>3, <2>4 DEF IndInv
<1>6. CASE UNCHANGED tasks
  BY <1>6 DEF tasks, IndInv, Types, SeenIsElapsed, InSleep
<1> QED
  BY <1>1, <1>2, <1>3, <1>4, <1>5, <1>6
  DEF Next, Mainline, Sleeping, Tick, Device, TimerIrq, DeviceIrq, vars

(* However the timer interrupts sys_sleep, and wherever tick_count wraps, a  *)
(* sleep of n ticks has had n timer interrupts when it returns.              *)
THEOREM TasksSleepNotEarly == Spec => SleepNotEarly
<1> DEFINE A == pc = "check" /\ pc' = "run" => elapsed >= ticks
<1>1. ASSUME IndInv, [Next]_vars PROVE [A]_vars
  <2>1. CASE sys_sleep_check
    <3>1. pc = "check" /\ (pc' = "run" => (tick_count - start) % WORD >= ticks)
      BY <2>1 DEF sys_sleep_check, SleepOver
    <3>2. (tick_count - start) % WORD <= elapsed
      BY <1>1, <3>1 DEF IndInv, SeenIsElapsed, InSleep
    <3>3. (tick_count - start) % WORD \in 0 .. WORD - 1
      BY <1>1, OneTick, TasksConstants DEF IndInv, Types
    <3> QED BY <1>1, <3>1, <3>2, <3>3, TasksConstants DEF IndInv, Types
  <2>2. CASE create_process \/ create_process_publish \/ (\E n \in 0 .. WORD - 1 : sys_sleep(n))
    BY <2>2 DEF create_process, create_process_publish, sys_sleep
  <2>3. CASE sys_sleep_yield \/ sys_sleep_store
    BY <2>3 DEF sys_sleep_yield, sys_sleep_store
  <2>4. CASE pit_handler \/ UNCHANGED tasks
    BY <2>4 DEF pit_handler, tasks
  <2> QED
    BY <1>1, <2>1, <2>2, <2>3, <2>4
    DEF Next, Mainline, Sleeping, Tick, Device, TimerIrq, DeviceIrq, vars
<1>2. Spec => []IndInv
  BY InitIndInv, NextIndInv, PTL DEF Spec
<1>3. SleepNotEarly <=> [][A]_vars
  BY DEF SleepNotEarly
<1> QED BY <1>1, <1>2, <1>3, PTL DEF Spec
=============================================================================
