SPECIFICATION ConverterSpec
CONSTANTS
  Messages <- OddMessages
  MaxOutputs = 2
  Impls = {"torch", "tf", "trt"}
  Places = {"later"}
  MaxRequests = 1
  MaxRows = 1
  MaxOdd = 0
INVARIANT OnlyOwnTensors
CHECK_DEADLOCK FALSE
