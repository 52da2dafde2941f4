SPECIFICATION Spec
CONSTANTS
  good = good  other = other  dead = dead  empty = empty  key = key  first = first
  Cards = {good, other}
  NoCard = NoCard
  UnusableCards = {}
  EmptyCards = {}
  WellFormedCards = {good, other}
  FileKey <- GoodKey
  Passphrases = {first, key}
  NoPassphrase = NoPassphrase
  FirstPassphrase = first
  Digits = {1}
  PIN_BUFSIZE = 2
  Corrupt = Corrupt
  ANIMATION_TICKS = 2
  DEBOUNCE_TICKS = 3
  TIMER_SLACK = 1
  IoResults = {TRUE}
INVARIANT ListFromCard
