SPECIFICATION Spec
CONSTANTS
  Serialised = FALSE
  Topics <- const_Topics
  Brokers <- const_Brokers
  Groups <- const_Groups
  Intervals <- const_Intervals
  Written <- const_Written
  LogEnd <- const_LogEnd
  IntMax <- const_IntMax
  None = None
  t1 = t1
  t2 = t2
  b1 = b1
  b2 = b2
  g1 = g1
INVARIANTS
  ConsumerOutlivesCall
\* A destroyed consumer takes no more calls.
CHECK_DEADLOCK FALSE
