------------------------------ MODULE History ------------------------------
(***************************************************************************)
(* kernel/shell/command_history.c.  history[i] is entry i + 1 of the       *)
(* sequence and history_count its length.                                  *)
(***************************************************************************)
EXTENDS Integers, Sequences

CONSTANT MAX_HISTORY

ASSUME HistoryConstants == MAX_HISTORY \in Nat \ {0}

VARIABLES history, current_history_index

history_count == Len(history)

HistoryInit == history = <<>> /\ current_history_index = -1

\* A full history drops its oldest entry; browsing restarts at the end.
MutHistoryAdd(cmd) ==
  /\ history' = Append(IF history_count < MAX_HISTORY THEN history ELSE Tail(history), cmd)
  /\ UNCHANGED current_history_index

MutHistoryBehind(cmd) ==
  /\ history' = Append(IF history_count < MAX_HISTORY THEN history ELSE Tail(history), cmd)
  /\ current_history_index' = Len(history') - 1

history_add(cmd) ==
  /\ history' = Append(IF history_count < MAX_HISTORY THEN history ELSE Tail(history), cmd)
  /\ current_history_index' = Len(history')

\* The index history_prev moves to and the string it returns.
PrevIndex ==
  IF history_count > 0 /\ current_history_index > 0
    THEN current_history_index - 1 ELSE current_history_index

PrevEntry == IF history_count = 0 THEN <<>> ELSE history[PrevIndex + 1]

\* Past the newest entry history_next parks the index and returns "".
NextIndex ==
  CASE history_count = 0                             -> current_history_index
    [] current_history_index < history_count - 1     -> current_history_index + 1
    [] OTHER                                         -> history_count

MutNextEntry ==
  IF history_count = 0 \/ NextIndex = history_count THEN <<>> ELSE history[NextIndex]

NextEntry ==
  IF history_count = 0 \/ NextIndex = history_count THEN <<>> ELSE history[NextIndex + 1]
=============================================================================
