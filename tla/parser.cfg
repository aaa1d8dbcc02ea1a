\* Any tokens, in any order, for ever; conditions at most two to a line.
SPECIFICATION MCSpec
CONSTANTS
  Names = {"key", "value", "t"}
  Literals = {"5"}
  Blocks <- MCBlocks
  MaxConds = 2
INVARIANTS
  TypeOK
  LineIsAnswered
  WrongLinesAreReported
  HeapIsOwned
  StackIsShallow
PROPERTY
  Responds
CHECK_DEADLOCK FALSE
