SPECIFICATION Spec
CONSTANTS
  MaxMessages = 3
  ImageCounts <- const_ImageCounts
INVARIANTS
  TypeOK
  StopNeverLost
  StopIsPrompt
  IdleIsHalted
  CountsEveryImage
  StatusSettled
PROPERTIES
  ImplementsControl
  ServesRequests
  DestructorReturns
\* After ~KafkaDriver() has returned nothing is left to run.
CHECK_DEADLOCK FALSE
