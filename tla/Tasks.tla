------------------------------- MODULE Tasks -------------------------------
(***************************************************************************)
(* The C scheduler: kernel/sched/process.c, the timer interrupt of         *)
(* kernel/drivers/pit.c that calls it, dispatched by irq_handler, and      *)
(* sys_sleep of kernel/syscall/syscall_implementations.c.  The interrupt   *)
(* may arrive between any two steps of the mainline.  create_process       *)
(* places every process_t at address 0x100000, so there is one PCB.        *)
(***************************************************************************)
EXTENDS Interrupts

CONSTANTS WORD,         \* 2^32, the range of tick_count
          MaxPid,       \* bound: processes created in a run
          MaxElapsed    \* bound: where the count of ticks in a sleep saturates

ASSUME TasksConstants ==
  /\ WORD \in Nat \ {0} /\ MaxPid \in Nat /\ MaxElapsed \in Nat
  /\ MaxElapsed >= WORD     \* above every argument of sys_sleep

VARIABLES tick_count,
          current, ready_queue,   \* NULL or the PCB
          pcb,                    \* the process_t at 0x100000
          next_pid,
          pc,                     \* where the mainline is
          start, ticks,           \* locals of sys_sleep
          loaded,                 \* the value schedule() has read but not stored
          elapsed,                \* ghost: interrupts since sys_sleep read its start
          polled,                 \* ghost: sys_sleep has looked at the clock since the last tick
          slow                    \* ghost: the machine may take more than a tick between two looks

tasks == <<tick_count, current, ready_queue, pcb, next_pid, pc, start, ticks,
           loaded, elapsed, polled, slow>>
vars == <<tasks, controllers>>

Init ==
  /\ InterruptsInit
  /\ tick_count \in {0, WORD - 1}
  /\ current = "NULL" /\ ready_queue = "NULL"
  /\ pcb = [pid |-> 0, next |-> "NULL"]
  /\ next_pid = 1
  /\ pc = "run"
  /\ start = 0 /\ ticks = 0
  /\ loaded = "NULL"
  /\ elapsed = 0 /\ polled = TRUE /\ slow \in BOOLEAN

\* The pointer schedule() moves current to.
MutSuccessor == IF current = "PCB" THEN "NULL" ELSE current

Successor == IF current = "PCB" THEN pcb.next ELSE ready_queue

InSleep == pc \in {"check", "yield", "store"}

OneMore(n) == IF n < MaxElapsed THEN n + 1 ELSE n

\* HANDLERS[32]: what a tick does, in the interrupt.
pit_handler ==
  /\ tick_count' = (tick_count + 1) % WORD
  /\ current' = Successor
  /\ elapsed' = IF InSleep THEN OneMore(elapsed) ELSE 0
  /\ polled' = ~InSleep
  /\ UNCHANGED <<ready_queue, pcb, next_pid, pc, start, ticks, loaded, slow>>

\* create_process fills the PCB, then publishes it.
create_process ==
  /\ pc = "run" /\ next_pid <= MaxPid
  /\ pcb' = [pid |-> next_pid, next |-> ready_queue]
  /\ next_pid' = next_pid + 1
  /\ pc' = "publish"
  /\ UNCHANGED <<tick_count, current, ready_queue, start, ticks, loaded, elapsed, polled, slow>>

create_process_publish ==
  /\ pc = "publish"
  /\ ready_queue' = "PCB"
  /\ pc' = "run"
  /\ UNCHANGED <<tick_count, current, pcb, next_pid, start, ticks, loaded, elapsed, polled, slow>>

sys_sleep(n) ==
  /\ pc = "run"
  /\ start' = tick_count /\ ticks' = n
  /\ pc' = "check"
  /\ elapsed' = 0
  /\ UNCHANGED <<tick_count, current, ready_queue, pcb, next_pid, loaded, polled, slow>>

MutSleepOver == tick_count >= (start + ticks) % WORD

MutSleepForEver == (tick_count - start) % WORD > ticks

\* The loop condition, in unsigned arithmetic.
SleepOver == (tick_count - start) % WORD >= ticks

sys_sleep_check ==
  /\ pc = "check"
  /\ pc' = IF SleepOver THEN "run" ELSE "yield"
  /\ polled' = TRUE
  /\ elapsed' = IF SleepOver THEN 0 ELSE elapsed
  /\ UNCHANGED <<tick_count, current, ready_queue, pcb, next_pid, start, ticks, loaded, slow>>

\* schedule() called by the loop: the pointer is read, then stored.
sys_sleep_yield ==
  /\ pc = "yield"
  /\ loaded' = Successor
  /\ pc' = "store"
  /\ UNCHANGED <<tick_count, current, ready_queue, pcb, next_pid, start, ticks, elapsed, polled, slow>>

sys_sleep_store ==
  /\ pc = "store"
  /\ current' = loaded
  /\ pc' = "check"
  /\ UNCHANGED <<tick_count, ready_queue, pcb, next_pid, start, ticks, loaded, elapsed, polled, slow>>

Sleeping == sys_sleep_check \/ sys_sleep_yield \/ sys_sleep_store

Mainline ==
  \/ create_process
  \/ create_process_publish
  \/ \E n \in 0 .. WORD - 1 : sys_sleep(n)
  \/ Sleeping

\* The timer asks for an interrupt every 10 ms, another device at any time.
Tick == (polled \/ slow) /\ Raise(TIMER) /\ UNCHANGED tasks
Device == (\E l \in Lines \ {TIMER} : Raise(l)) /\ UNCHANGED tasks

TimerIrq == irq_handler(TIMER) /\ pit_handler
DeviceIrq(l) == irq_handler(l) /\ UNCHANGED tasks

Next ==
  \/ Mainline /\ UNCHANGED controllers
  \/ Tick \/ Device \/ TimerIrq
  \/ \E l \in Lines \ {TIMER} : DeviceIrq(l)

Spec == Init /\ [][Next]_vars

\* The timer never stops, calls that have begun go on, and the processor takes
\* the interrupts it is offered: a handler is much shorter than a tick.
FairSpec ==
  /\ Spec
  /\ WF_vars(Tick) /\ WF_vars(TimerIrq)
  /\ \A l \in Lines \ {TIMER} : SF_vars(DeviceIrq(l))
  /\ WF_vars((create_process_publish \/ Sleeping) /\ UNCHANGED controllers)
-----------------------------------------------------------------------------
(* sys_sleep(n) returns only after n timer interrupts, also when tick_count  *)
(* wraps and when the loop misses ticks.                                     *)
SleepNotEarly == [][pc = "check" /\ pc' = "run" => elapsed >= ticks]_vars

(* Between them, the interrupt's schedule() and the one that sys_sleep was   *)
(* in the middle of never leave a created process behind in the queue: it is *)
(* current again and again.                                                  *)
ReadyIsScheduled == (ready_queue = "PCB") ~> (current = "PCB")

(* Every sys_sleep returns, whatever the tick count at its start, on a       *)
(* machine that gets around its loop within the 10 ms of a tick.  (One that  *)
(* does not can miss the last tick before the difference wraps.)             *)
SleepReturns == (~slow /\ pc = "check") ~> (pc = "run")

(* Every interrupt that a device asks for is taken, however often devices    *)
(* ask: irq_handler tells each controller of the pair that the interrupt is  *)
(* over, so that none is left believing a handler still runs.                *)
EveryIrqTaken == \A l \in Lines : (l \in irr) ~> (l \notin irr)

(* README.MD:43, "Process Scheduler | Yes | Round-robin multitasking": each  *)
(* process that create_process returned a pid for gets to be current.        *)
EveryPidRuns ==
  \A p \in 1 .. MaxPid :
    (pc = "publish" /\ pcb.pid = p) ~> (current = "PCB" /\ pcb.pid = p)
=============================================================================
