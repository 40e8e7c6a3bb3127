\* A page committed between the terminal snapshot and the token.
SPECIFICATION Spec
CONSTANTS
  Providers = {p1}
  Aggregators = {}
  MaxConcurrent = 1
  MaxPages = 1
PROPERTIES NoCommitAfterTerminal
CHECK_DEADLOCK FALSE
