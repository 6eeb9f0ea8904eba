SPECIFICATION MCSpec
CONSTANTS
  MaxMessages = 1
  ImageCounts <- const_ImageCounts
  Topics <- const_Topics
  Brokers <- const_Brokers
  Groups <- const_Groups
  Intervals <- const_Intervals
  LogEnd = 1
  Written <- const_Written
  IntMax = 7
  None = None
  t1 = t1
  b1 = b1
  g1 = g1
INVARIANTS
  ConsumerIsSound
  OutlivesThread
PROPERTIES
  AbortOnlyInUpdate
  StopSilences
  ShutsDown
\* A driver that is destroyed, or whose process has aborted, does nothing more.
CHECK_DEADLOCK FALSE
