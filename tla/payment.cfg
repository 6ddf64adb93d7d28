SPECIFICATION FairSpec
CONSTANTS
  OptionLists <- MCOptionLists
  OperationID = "operation"
  MaxQuotes = 2
  MaxTokens = 2
  MaxFaults = 2
INVARIANTS
  NothingIsLeftOver
  OneTrail
PROPERTIES
  ImplementsPayment
  EveryPaymentSettles
CHECK_DEADLOCK FALSE
