SPECIFICATION Spec
CONSTANTS
  MaxMessages = 3
  ImageCounts <- const_ImageCounts
INVARIANT
  AcquireMeansRunning
CHECK_DEADLOCK FALSE
