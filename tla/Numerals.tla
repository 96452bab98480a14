------------------------------ MODULE Numerals ------------------------------
(***************************************************************************)
(* The printing of numbers by cmd_mem, cmd_uptime, cmd_top and kprintf.    *)
(* Decimal digits go into a buffer, the last one first, and leave it       *)
(* backwards.  A command is a sequence of conversions and the arguments    *)
(* they take; text between them is left out.  cmd_uptime starts from       *)
(* pit_get_tick() / 100, which is below 2^32 / 100.                        *)
(***************************************************************************)
EXTENDS Integers, Sequences, SequencesExt, FiniteSets, Running

CONSTANTS UPTIME,               \* bound of the seconds: 2^32 / 100
          MEGABYTES,            \* bound of total_mb: 2^32 / 2^20
          LONG, SHORT,          \* buf[12]; digits[4] and cmd_uptime's buf[4]
          Seconds, Megabytes, Numbers,  \* what the commands are given
          Formats               \* the conversions of calls of kprintf

ASSUME NumeralsConstants ==
  /\ Seconds \subseteq 0 .. UPTIME /\ Megabytes \subseteq 0 .. MEGABYTES - 1
  /\ Numbers \subseteq Nat /\ {LONG, SHORT} \subseteq Nat \ {0}

VARIABLES command,              \* which command runs, and what it was given
          fmt, args,            \* the conversions and arguments still to come
          num, buf, size,       \* the digit loop; size is the buffer's length
          shown                 \* the numerals printed so far

numerals_vars == <<command, fmt, args, num, buf, size, shown>>

NoCommand == [name |-> "none", given |-> 0, fmt |-> <<>>, args |-> <<>>]

NumeralsIdle ==
  /\ command = NoCommand
  /\ fmt = <<>> /\ args = <<>> /\ num = 0 /\ buf = <<>> /\ size = LONG
  /\ shown = <<>>

Run(name, given, convs, values, length) ==
  /\ pc = "idle" /\ pc' = "convert"
  /\ command' = [name |-> name, given |-> given, fmt |-> convs, args |-> values]
  /\ fmt' = convs /\ args' = values /\ size' = length
  /\ UNCHANGED <<num, buf, shown>>

cmd_uptime(seconds) ==
  Run("uptime", seconds, <<"d", "d", "d">>,
      <<seconds \div 3600, (seconds \div 60) % 60, seconds % 60>>, SHORT)

MutMem(total_mb) == Run("mem", total_mb, <<"d">>, <<1024 * total_mb>>, SHORT)

cmd_mem(total_mb) == Run("mem", total_mb, <<"d">>, <<total_mb>>, SHORT)

cmd_top(ticks) == Run("top", ticks, <<"d">>, <<ticks>>, LONG)

\* Enough arguments for any format.
kprintf(convs, a, b) == Run("kprintf", 0, convs, <<a, b, a, b>>, LONG)

\* "s" stands for %s and %c, "d" for %d and %i, "x" for %x and %X; %% and an
\* unknown letter take no argument.
MutTakes(conv) == conv \in {"d", "x"}

Takes(conv) == conv \in {"d", "x", "s"}

print_hex(n) == [j \in 1 .. 8 |-> (n \div 16 ^ (8 - j)) % 16]

Conversion ==
  /\ pc = "convert" /\ fmt # <<>>
  /\ fmt' = Tail(fmt)
  /\ args' = IF Takes(Head(fmt)) THEN Tail(args) ELSE args
  /\ shown' = IF Head(fmt) = "x" THEN Append(shown, print_hex(Head(args))) ELSE shown
  /\ IF Head(fmt) = "d"
       THEN /\ num' = Head(args) /\ pc' = "digit"
            /\ buf' = IF num' = 0 THEN <<0>> ELSE <<>>
       ELSE UNCHANGED <<num, buf, pc>>
  /\ UNCHANGED <<command, size>>

\* A store past the end of the buffer is undefined; the run stops there.
Digit ==
  /\ pc = "digit" /\ num > 0
  /\ IF Len(buf) < size
       THEN buf' = Append(buf, num % 10) /\ num' = num \div 10 /\ UNCHANGED pc
       ELSE pc' = "overrun" /\ UNCHANGED <<buf, num>>
  /\ UNCHANGED <<command, fmt, args, size, shown>>

print_dec ==
  /\ pc = "digit" /\ num = 0
  /\ shown' = Append(shown, Reverse(buf)) /\ buf' = <<>>
  /\ pc' = "convert"
  /\ UNCHANGED <<command, fmt, args, num, size>>

Printed == pc = "convert" /\ fmt = <<>>

NumeralsReturn ==
  /\ Printed /\ pc' = "idle"
  /\ command' = NoCommand
  /\ size' = LONG /\ shown' = <<>> /\ fmt' = <<>> /\ args' = <<>>
  /\ UNCHANGED <<num, buf>>

NumeralsCall ==
  \/ \E s \in Seconds : cmd_uptime(s)
  \/ \E n \in Numbers : cmd_top(n)
  \/ \E m \in Megabytes : cmd_mem(m)
  \/ \E f \in Formats, a, b \in Numbers : kprintf(f, a, b)

NumeralsStep == Conversion \/ Digit \/ print_dec \/ NumeralsReturn
-----------------------------------------------------------------------------
Value(numeral, radix) == FoldLeft(LAMBDA n, d : radix * n + d, 0, numeral)

\* The argument a conversion at position i is meant for: the one after those
\* of the earlier conversions that have one.
ArgumentOf(i) == command.args[1 + Len(SelectSeq(SubSeq(command.fmt, 1, i - 1),
                                                LAMBDA c : c \in {"d", "x", "s"}))]
Numeric == {i \in DOMAIN command.fmt : command.fmt[i] \in {"d", "x"}}
Before(i) == {j \in Numeric : j < i}

(* A command that returns has printed, for each numeric conversion and in    *)
(* order, a numeral of the argument that belongs to it, whatever other       *)
(* conversions stand between: in decimal at least one digit and no leading   *)
(* zero, in hexadecimal all eight.                                           *)
NumeralsExact ==
  Printed =>
    /\ Len(shown) = Cardinality(Numeric)
    /\ \A i \in Numeric :
         LET s == shown[Cardinality(Before(i)) + 1] IN
         IF command.fmt[i] = "d"
           THEN /\ Value(s, 10) = ArgumentOf(i)
                /\ Len(s) > 0 /\ (Len(s) > 1 => s[1] # 0)
           ELSE Value(s, 16) = ArgumentOf(i) /\ Len(s) = 8

(* The buffers are long enough: a store past one happens in cmd_uptime only, *)
(* and there only for the hours, which need a fifth digit from 10000 on      *)
(* (416 days of ticks, before the counter wraps).                            *)
OverrunOnlyInHours ==
  pc = "overrun" =>
    command.name = "uptime" /\ shown = <<>> /\ command.args[1] >= 10 ^ SHORT

=============================================================================
