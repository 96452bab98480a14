------------------------------ MODULE Running ------------------------------
(* The shell runs one command at a time and waits for it: the commands'      *)
(* modules share the place where execution is.                               *)
VARIABLE pc     \* "idle" while no command runs
=============================================================================
