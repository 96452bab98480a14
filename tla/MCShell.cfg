CONSTANTS
  Width = 4
  Height = 2
  MAX_HISTORY = 2
  MAX_LINE = 3
  Prompt <- MCPrompt
  Outputs <- MCOutputs
SPECIFICATION Spec
INVARIANTS HistoryIndexInRange BrowsingShowsEntry UpRecallsLatest DisplayMatchesLine HwCursorAgrees
