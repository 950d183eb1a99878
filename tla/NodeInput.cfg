CONSTANTS
  Pipelines <- AllPipelines
  Interfaces = {"unary"}
  MaxParts = 1
SPECIFICATION Spec
INVARIANT InputIsPredecessors
CHECK_DEADLOCK FALSE
