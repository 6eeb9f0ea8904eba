SPECIFICATION Spec
CONSTANTS
  MaxMessages = 3
  ImageCounts <- const_ImageCounts
INVARIANT
  StopIsObeyed
CHECK_DEADLOCK FALSE
