\* A 400 is followed by another attempt.
CONSTANTS
  a = a
  b = b
  Calls = {a}
  FailFast = {}
  MaxRetries = 1
  RetryMaxDelay = 1
  AttemptTimeout = 0
  Replies <- EveryReply
SPECIFICATION FairSpec
PROPERTIES BadRequestIsFinal
CHECK_DEADLOCK FALSE
