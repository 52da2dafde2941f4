SPECIFICATION FairSpec
CONSTANTS
  KEYS = {A, B}
  UNMAPPED = UNMAPPED
  A = A
  B = B
  MAX_CHARS = 2
  MAX_EVENTS = 1
INVARIANTS
  TypeOK
  JobsAgree
  BanksCounted
  ReleasedAtRest
  TypedExactly
  TypedInCase
PROPERTIES
  TypedInOrder
  TransfersEnd
CHECK_DEADLOCK FALSE
