\* Up to two subscriptions, one event in two attempts, one fault.
SPECIFICATION Spec

CONSTANTS
  Triggers = {"credit", "refund", "unseen"}
  MaxSubs = 2
  MaxEvents = 1
  MaxFlaws = 1
  MaxAttempts = 2
  MaxFaults = 1

INVARIANT ActedIsSent

PROPERTY EventsAreActedOn

\* At its bounds, everything acknowledged or given up, there is nothing left to do.
CHECK_DEADLOCK FALSE
