\* An ordinary call and a credential check on one client, made with no number of
\* retries configured.
CONSTANTS
  a = a
  b = b
  Calls = {a, b}
  FailFast = {b}
  MaxRetries = 0
  RetryMaxDelay = 1
  AttemptTimeout = 0
  Replies <- FewReplies
SPECIFICATION FairSpec
INVARIANTS
  ExhaustionIsEarned
PROPERTIES
  ImplementsApiCall
CHECK_DEADLOCK FALSE
