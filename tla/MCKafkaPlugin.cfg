SPECIFICATION PluginSpec
CONSTANTS
  Senders <- const_Senders
  Source = Source
  Worker = Worker
  Port = Port
  PacketSizes <- const_PacketSizes
  WrittenSizes <- const_Written
  MinSize = 1
  MaxSize = 4
  StartSize = 2
  Brokers <- const_Brokers
  QueueLengths <- const_One
  BufferSizes <- const_One
  Intervals <- const_One
  Topics <- const_Topics
  FlushSettings <- const_One
  QueueSize = 1
  MaxArrays = 2
  None = None
  b1 = b1
  tp = tp
INVARIANTS
  PluginTypeOK
  DropsCounted
  SizeInStep
  SizeShown
PROPERTIES
  SizeAccepted
  EveryArrayHandled
