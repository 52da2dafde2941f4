SPECIFICATION Spec
CONSTANTS
  MaxLength = 7
  BUF_LEN = 7
INVARIANTS CountsLines ScansAgree StaleItemTypesNothing
