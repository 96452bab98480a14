CONSTANTS
  Images <- MCImages
  Frames = {f1, f2, f3, f4}
  NoFrame = NoFrame
  Junk = Junk
  Zero = Zero
  Width = 2
  Height = 3
  Texts <- MCTexts
  Calls <- MCCalls
  MaxWritten = 7
  MaxRow = 6
  MaxForks = 1
  root = root
  home = home
  bare = bare
  MAX_MOUNTS = 3
  MAX_FDS = 2
  Targets <- MCTargets
  Paths <- MCPaths
  FileSystems <- MCFileSystems
  HasMount <- MCHasMount
  HasGetInode <- MCHasGetInode
  HasOpen <- MCHasOpen
  HasRead <- MCHasRead
  Known <- MCKnown
  MEMORY = 5
  Bytes = {0, 1, 200}
  WORD = 16
  Ids = {0, 1}
  Modes <- MCModes
SPECIFICATION Spec
INVARIANTS   ShowsEndOfText ResolveIsNewest   FirstClassDecides
SYMMETRY FrameSymmetry
CHECK_DEADLOCK FALSE
