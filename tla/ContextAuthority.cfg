SPECIFICATION SelectionSpec
CONSTANTS
  Scenarios <- MCChains
  StrictMin = 2
  MaxChosen = 3
  MaxDense = 2
  MaxRebalance = 1
CHECK_DEADLOCK FALSE
INVARIANT SupersededIsNotAuthoritative
