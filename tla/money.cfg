\* Ten bits of significand instead of 53, integers of twelve bits instead of 64.
SPECIFICATION MoneySpec

CONSTANTS
  Precision = 10
  Fraction = 17
  Width = 12
  MaxUnits = 20
  Amounts <- MCAmounts
  HugeAmounts <- MCHugeAmounts
  MaxQuotes = 4

INVARIANTS
  MoneyIsExact
  EntriesAreSigned
  TruncationLosesOneCent
  DriftIsBounded
  TextIsTheAmount

\* The last quote has been read.
CHECK_DEADLOCK FALSE
