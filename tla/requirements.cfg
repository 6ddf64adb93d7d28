\* Three keys, one of them requirements-only, in some hundred corridors.
CONSTANTS
  purpose = purpose
  sub = sub
  nature = nature
  a = a
  b = b
  Keys = {purpose, sub, nature}
  DetailKeys = {purpose, sub, nature}
  RequestKeys = {purpose, sub}
  Values = {a, b}
  Rules <- Corridors
  Empty = Empty
  NoKey = NoKey
SPECIFICATION Spec
INVARIANTS
  TypeOK
  CreatedIsComplete
  NoFalseAlarm
CHECK_DEADLOCK FALSE
