SPECIFICATION FairSpec
CONSTANTS
  good = good  other = other  dead = dead  empty = empty  key = key  first = first
  Cards = {good, dead, empty}
  NoCard = NoCard
  UnusableCards = {dead}
  EmptyCards = {empty}
  WellFormedCards = {good}
  FileKey <- GoodKey
  Passphrases = {first, key}
  NoPassphrase = NoPassphrase
  FirstPassphrase = first
  Digits = {}
  PIN_BUFSIZE = 1
  Corrupt = Corrupt
  ANIMATION_TICKS = 2
  DEBOUNCE_TICKS = 3
  TIMER_SLACK = 1
  IoResults = {TRUE, FALSE}
PROPERTIES RemovalShown InsertionShown
