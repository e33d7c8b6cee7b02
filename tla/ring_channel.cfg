SPECIFICATION RingFairSpec
CONSTANTS
  Cap = 4
  Lens = {1, 2}
  Words = {"a", "b"}
  Padding = "padding"
  MaxPos = 10
INVARIANTS
  NoOverrun
PROPERTIES
  IsChannel
  RoomInTheEnd
CHECK_DEADLOCK FALSE
