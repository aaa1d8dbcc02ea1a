\* Small buffers, so that tokens are cut at every place.
SPECIFICATION Spec
CONSTANTS
  Inputs <- MCInputs
  BufSizes = {1, 2, 5}
  YY_READ_BUF_SIZE = 3
INVARIANTS
  TypeOK
  TokensAreLongest
  NothingIsLost
  ReadsOnlyIfNeeded
PROPERTIES
  EverythingIsScanned
CHECK_DEADLOCK FALSE
