SPECIFICATION Spec
CONSTANTS
  SourceName = SourceName
  EpochDiff = 3
  NSecPerSec = 10
  Garbage = Garbage
  Buffers <- const_Buffers
  Plugins <- const_Plugins
  Capacity = 1
  Arrays <- const_Arrays
  Encode <- const_Plugin
  None = None
  p1 = p1
  p2 = p2
  i1 = i1
  i2 = i2
  i3 = i3
INVARIANTS
  ImageIsAsSent
\* A thread that has ended takes no more packets.
CHECK_DEADLOCK FALSE
