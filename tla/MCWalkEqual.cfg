CONSTANTS
  Cases <- WalkCases
SPECIFICATION Spec
INVARIANTS FindsEqual
CHECK_DEADLOCK FALSE
