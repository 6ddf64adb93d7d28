\* The verify of the last round passes the last challenge.
CONSTANTS
  a = a
  b = b
  Clearers = {a}
  Channel <- OverSms
  Offers <- OneOffer
  ClearRounds = 5
  MaxAttempts = 2
SPECIFICATION Spec
INVARIANTS UnclearedIsTrue
CHECK_DEADLOCK FALSE
