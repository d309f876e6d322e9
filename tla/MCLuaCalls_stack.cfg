CONSTANTS
  Variants <- MCVariants
  Cells <- MCCells
  Push <- PushVariant
  Extract <- ExtractValue
  ToJson <- FromVariant
  PushCells <- CellsToPush
  ExtractCells <- CellsToExtract
  Arguments <- MCArguments
  Returns <- MCReturns
  Answers <- MCAnswers
  StackLimit = 15
SPECIFICATION Spec
INVARIANTS
  TypeOK
  StackHoldsFailedCalls
  EchoReturns
CHECK_DEADLOCK FALSE
