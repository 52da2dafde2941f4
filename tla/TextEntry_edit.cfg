SPECIFICATION Spec
CONSTANTS
  A = A  B = B  C = C
  Charset <- Wheel
  NUL = NUL
  PASSPHRASE_BUFSIZE = 4
  Digits = {1, 2}
  PIN_BUFSIZE = 4
INVARIANTS TypeOK WheelShowsLast
PROPERTY ImplementsEditedText
