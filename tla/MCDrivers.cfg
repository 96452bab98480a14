CONSTANTS
  Keys = {29, 42, 54}
  Packets <- MCPackets
  XMAX = 3
  YMAX = 2
  NoByte = NoByte
  MaxEvents = 4
  BYTE = 4
  HIGHS = {0, 1, 3}
  RATE = 2
  HIDDEN = 32
  SHOWN = 14
  Strings <- MCStrings
  Empty = Empty
  MaxSent = 5
SPECIFICATION Spec
INVARIANTS  NoStuckModifier SerialInOrder
PROPERTIES CursorUpdate
CHECK_DEADLOCK FALSE
