CONSTANTS
  Frames = {f1, f2, f3, f4}
  Dirs = {d1, d2}
  PdIdx = {0, 1}
  PtIdx = {0, 1}
  None = None
  NoDir = NoDir
  Unset = Unset
SPECIFICATION Spec
INVARIANTS WalkIsLastMap FramePartition TlbCoherent
SYMMETRY FrameSymmetry
CHECK_DEADLOCK FALSE
