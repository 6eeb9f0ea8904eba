SPECIFICATION Spec
CONSTANTS
  Senders <- const_Senders
  Port = Port
  PacketSizes <- const_PacketSizes
  WrittenSizes <- const_Written
  MinSize = 1
  MaxSize = 4
  StartSize = 2
  Brokers <- const_Brokers
  QueueLengths <- const_QueueLengths
  BufferSizes <- const_One
  Intervals <- const_One
  Topics <- const_Topics
  FlushSettings <- const_One
  None = None
  s1 = s1
  s2 = s2
  b1 = b1
  tp = tp
INVARIANTS
  TypeOK
  ProducerIsCurrent
  StatusTruthful
\* A destroyed producer takes no more calls, nor does a process that has crashed.
CHECK_DEADLOCK FALSE
