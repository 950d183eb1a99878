SPECIFICATION ConverterSpec
CONSTANTS
  Messages <- OddMessages
  MaxOutputs = 2
  Impls = {"torch", "tf", "trt", "py"}
  Places = {"first", "later"}
  MaxRequests = 3
  MaxRows = 2
  MaxOdd = 1
INVARIANTS
  OwnRows
  BatchWhole
  RowsMissing
CHECK_DEADLOCK FALSE
