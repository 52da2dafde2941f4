CONSTANTS
  CHUNK = 5
  LENGTH_BYTES = 2
  SALT_LEN = 2
  PHRASE_LENS = {0, 1, 4}
  COUNTS = {0, 1, 3, 4, 6, 7, 8, 9, 13, 14}
  BLOCK = 3
  Junk = Junk
  FILE_SIZES = {3, 8, 10, 15}
  PACKET_LENS = {0, 3, 9}
  YIELDS <- Yields
  TEXT_LENS = {2, 99}
  READ_SIZES = {1, 3, 7}
  Z_BUF = 2
  Z_OUT_BUF = 4
SPECIFICATION Spec
INVARIANTS TypeOK KeyHashed
PROPERTY ImplementsByteSource
