\* One task of any kind, two calls of two attempts each, requests delivered late.
CONSTANTS
  t = t
  Tasks = {t}
  Kinds <- AllKinds
  MaxAttempts = 2
  MaxCalls = 2
SPECIFICATION Spec
INVARIANTS
  OncePerCallerKey
  OncePerCall
  RepetitionNeedsDoubt
  RejectionIsHonest
CHECK_DEADLOCK FALSE
