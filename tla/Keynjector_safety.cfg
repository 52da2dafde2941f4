SPECIFICATION Spec
CONSTANTS
  good = good  other = other  dead = dead  empty = empty  key = key  first = first
  Cards = {good, other}
  NoCard = NoCard
  UnusableCards = {}
  EmptyCards = {}
  WellFormedCards = {good}
  FileKey <- GoodKey
  Passphrases = {key}
  NoPassphrase = NoPassphrase
  FirstPassphrase = key
  Digits = {1}
  PIN_BUFSIZE = 2
  Corrupt = Corrupt
  ANIMATION_TICKS = 1
  DEBOUNCE_TICKS = 1
  TIMER_SLACK = 1
  IoResults = {TRUE, FALSE}
INVARIANTS TypeOK KeyViewUnlocked CommandFitsView CardChangePending
  FlashConsistent
PROPERTIES LockoutDurable ImplementsScreen
