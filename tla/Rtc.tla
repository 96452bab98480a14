-------------------------------- MODULE Rtc --------------------------------
(***************************************************************************)
(* rtc_get_time of kernel/drivers/rtc.c, used by the date command.  The    *)
(* clock chip runs on while the three registers are read one by one; the   *)
(* code neither waits for an update to end nor reads twice.                *)
(***************************************************************************)
EXTENDS Integers, Running

CONSTANTS SECS, MINS, HOURS,    \* 60, 60, 24
          MaxTicks              \* bound: seconds that pass during one call

ASSUME RtcConstants ==
  /\ SECS \in Nat \ {0} /\ MINS \in Nat \ {0} /\ HOURS \in Nat \ {0}
  /\ MaxTicks \in Nat

VARIABLES clock,                \* the chip: seconds since midnight
          bcd,                  \* status register B, bit 2 clear
          second, minute, hour,
          began,                \* ghost: clock when the call began
          ticks                 \* ghost: seconds passed during the call

rtc_vars == <<clock, bcd, second, minute, hour, began, ticks>>

Day == SECS * MINS * HOURS

\* The chip's registers, in the format status register B selects (24 hours).
Register(n) == IF bcd THEN 16 * (n \div 10) + (n % 10) ELSE n

SecondRegister == Register(clock % SECS)
MinuteRegister == Register((clock \div SECS) % MINS)
HourRegister   == Register(clock \div (SECS * MINS))

rtc_bcd_to_bin(v) == (v % 16) + (v \div 16) * 10

\* Outside a call the chip's time is nobody's concern.
RtcIdle ==
  /\ clock = 0 /\ bcd = FALSE
  /\ second = 0 /\ minute = 0 /\ hour = 0
  /\ began = 0 /\ ticks = 0

Tick ==
  /\ pc \in {"second", "minute", "hour"} /\ ticks < MaxTicks
  /\ clock' = (clock + 1) % Day
  /\ ticks' = ticks + 1
  /\ UNCHANGED <<pc, bcd, second, minute, hour, began>>

\* cmd_date at any time of day, with the chip in either format.
rtc_get_time(now, format) ==
  /\ pc = "idle" /\ pc' = "second"
  /\ clock' = now /\ began' = now /\ bcd' = format
  /\ UNCHANGED <<second, minute, hour, ticks>>

ReadSecond ==
  /\ pc = "second" /\ pc' = "minute"
  /\ second' = SecondRegister
  /\ UNCHANGED <<clock, bcd, minute, hour, began, ticks>>

\* The minute was fetched before the seconds.
MutReadMinute ==
  /\ pc = "minute" /\ pc' = "hour"
  /\ minute' = Register((began \div SECS) % MINS)
  /\ UNCHANGED <<clock, bcd, second, hour, began, ticks>>

ReadMinute ==
  /\ pc = "minute" /\ pc' = "hour"
  /\ minute' = MinuteRegister
  /\ UNCHANGED <<clock, bcd, second, hour, began, ticks>>

ReadHour ==
  /\ pc = "hour" /\ pc' = "bcd"
  /\ hour' = HourRegister
  /\ UNCHANGED <<clock, bcd, second, minute, began, ticks>>

Convert ==
  LET bin(v) == IF bcd THEN rtc_bcd_to_bin(v) ELSE v IN
  /\ pc = "bcd" /\ pc' = "done"
  /\ hour' = bin(hour) /\ minute' = bin(minute) /\ second' = bin(second)
  /\ UNCHANGED <<clock, bcd, began, ticks>>

\* cmd_date has printed the time.
cmd_date ==
  /\ pc = "done" /\ pc' = "idle"
  /\ clock' = 0 /\ bcd' = FALSE
  /\ second' = 0 /\ minute' = 0 /\ hour' = 0
  /\ began' = 0 /\ ticks' = 0

RtcCall == \E now \in 0 .. Day - 1, format \in BOOLEAN : rtc_get_time(now, format)

RtcStep == ReadSecond \/ ReadMinute \/ ReadHour \/ Convert \/ cmd_date
-----------------------------------------------------------------------------
Reading == (hour * MINS + minute) * SECS + second

(* Because the registers are read from the fastest to the slowest, the time  *)
(* rtc_get_time returns is never behind the moment it was called, and a      *)
(* carry that falls between two reads puts it less than an hour ahead        *)
(* (midnight during the call aside); without a tick it is exact.             *)
ReadingWithinAnHour ==
  pc = "done" /\ began + ticks < Day =>
    /\ began <= Reading
    /\ Reading < clock + SECS * MINS
    /\ ticks = 0 => Reading = clock
=============================================================================
