\* One call, every class of answer, two retries, a timeout and hints that count.
CONSTANTS
  a = a
  b = b
  Calls = {a}
  FailFast = {}
  MaxRetries = 2
  RetryMaxDelay = 2
  AttemptTimeout = 1
  Replies <- EveryReply
SPECIFICATION FairSpec
INVARIANTS
  TypeOK
  LogTellsTheLadder
  OutcomeMatchesLog
  TimeBudget
  BodyDiscipline
PROPERTIES
  NoRequestAfterVerdict
  EveryCallReturns
CHECK_DEADLOCK FALSE
