------------------------------ MODULE Commands ------------------------------
(***************************************************************************)
(* The commands shell_process_command calls (kernel/shell/shell_main.c):   *)
(* cat and hexdump, mem, uptime and top, date; and the kernel's own calls  *)
(* of kprintf.  One runs at a time, to its end.                            *)
(***************************************************************************)
EXTENDS Files, Numerals, Rtc

vars == <<pc, files_vars, numerals_vars, rtc_vars>>

Init ==
  /\ pc = "idle" /\ files \in Tables
  /\ FilesIdle /\ NumeralsIdle /\ RtcIdle

\* The command that a line selects.
shell_process_command ==
  \/ FilesCall /\ UNCHANGED <<numerals_vars, rtc_vars>>
  \/ NumeralsCall /\ UNCHANGED <<files_vars, rtc_vars>>
  \/ RtcCall /\ UNCHANGED <<files_vars, numerals_vars>>

Step ==
  \/ FilesStep /\ UNCHANGED <<numerals_vars, rtc_vars>>
  \/ NumeralsStep /\ UNCHANGED <<files_vars, rtc_vars>>
  \/ RtcStep /\ UNCHANGED <<files_vars, numerals_vars>>

Next ==
  \/ shell_process_command
  \/ Step
  \/ Tick /\ UNCHANGED <<files_vars, numerals_vars>>

Spec == Init /\ [][Next]_vars

\* The shell waits for the command, so its steps go on.
FairSpec == Spec /\ WF_vars(Step)
-----------------------------------------------------------------------------
(* Every command comes to its end and the shell to its next prompt, also     *)
(* when the last read of a file fills the buffer exactly; only a digit loop  *)
(* that has left its buffer is excepted.                                     *)
CommandsEnd == (pc # "idle") ~> (pc \in {"idle", "overrun"})
=============================================================================
