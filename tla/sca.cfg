\* Two clearings of one token, one over SMS and one over the PIN "channel", every
\* kind of challenge list, the five rounds of the code.
CONSTANTS
  a = a
  b = b
  Clearers = {a, b}
  Channel <- SmsAndPin
  Offers <- MixedOffers
  ClearRounds = 5
  MaxAttempts = 2
SPECIFICATION FairSpec
INVARIANTS
  CodesAnswerTriggers
  ClearedIsTrue
  NoNeedlessTrigger
PROPERTIES
  TriggersAreUseful
  ClearingReturns
CHECK_DEADLOCK FALSE
