CONSTANTS
  Cases <- WalkCases
SPECIFICATION Spec
INVARIANTS NoOverrun
CHECK_DEADLOCK FALSE
