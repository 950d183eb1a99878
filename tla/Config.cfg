SPECIFICATION Spec
CONSTANTS
  Kinds = {"cpp", "py"}
  MaxOdd = 2
INVARIANTS
  CommandsAgree
  StartsUnlessListed
  OwnInstance
CHECK_DEADLOCK FALSE
