SPECIFICATION FocusSpec
CONSTANTS
  Ops <- MCOps
  Desk <- MCDesk
  Tool <- MCTool
  Requests <- MCRequests
  Facts <- MCFacts
  Claims <- MCClaims
  Seeds <- MCSeeds
  MaxMemories = 3
  MaxManual = 2
  Items <- MCItems
  Content <- MCTwins
  Event <- MCEvent
  Rank <- MCRank
  LateRank <- MCLateRank
  Recent = {2}
  Edits <- MCEdits
  MaxWrites = 1
  MaxCrashes = 1
  MaxSwitches = 2
  Hooks = {g, h}
  g = g
  h = h
  Turns = {1}
  Bootstrap = 0
  MaxStoreWrites = 2
  MaxFaults = 1
  Scenarios <- MCScenarios
  StrictMin = 2
  MaxChosen = 2
  MaxDense = 2
  MaxRebalance = 1
CHECK_DEADLOCK FALSE
INVARIANTS OneActiveClaim ReceiptsAreSound AcceptedAsApplied IntentOutlivesEffect OneEffectUnlessCrash RefusedIsNotApplied DeliveryIsSound ContextIsFit
PROPERTIES NoLostWrite CommittedIsConfirmed DecisionIsFinal
