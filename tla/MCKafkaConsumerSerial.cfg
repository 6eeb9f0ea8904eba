SPECIFICATION Spec
CONSTANTS
  Serialised = TRUE
  Topics <- const_Topics
  Brokers <- const_Brokers
  Groups <- const_Groups
  Intervals <- const_Intervals
  Written <- const_ShortWritten
  LogEnd <- const_LongLog
  IntMax <- const_ShortInt
  None = None
  t1 = t1
  t2 = t2
  b1 = b1
  b2 = b2
  g1 = g1
INVARIANTS
  TypeOK
  PortConsistent
  HaltHolds
  StartHolds
  OffsetReadback
  ConnectedHasConsumer
PROPERTIES
  HaltedIsSilent
  AtLeastOnce
  OffsetApplied
\* A destroyed consumer takes no more calls.
CHECK_DEADLOCK FALSE
