SPECIFICATION Spec
CONSTANTS
  BLOCKS = {1, 2, 3, 4, 5, 6, 7}
  Malloc <- LowestFree
  NoBlock = 0
  PASSPHRASES = {p1, p2}
  NoPassphrase = NoPassphrase
  Unhandled = Unhandled
  PACKETS <- MCPackets
  MAX_PACKETS = 4
  LIST_LEN = 2
  right = p1
INVARIANTS
  TypeOK FreedOnce NothingLeaks FileClosed ListedIfReadable ListWhole
PROPERTY
  RefusedKeepsList
