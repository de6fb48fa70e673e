SPECIFICATION Spec
CONSTANTS
  Items <- MCItems
  Content <- MCTwins
  Event <- MCEvent
  Rank <- MCRank
  LateRank <- MCLateRank
  Recent = {}
  Edits <- MCOneEdit
  MaxWrites = 0
  MaxCrashes = 1
  MaxSwitches = 0
CHECK_DEADLOCK FALSE
INVARIANT OneEffect
