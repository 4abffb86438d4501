CONSTANTS
  Cases <- WalkCases
SPECIFICATION Spec
INVARIANTS TypeOK CallersPrefixKept FindsGated LiteralChain
CHECK_DEADLOCK FALSE
