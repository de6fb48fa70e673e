SPECIFICATION MemorySpec
CONSTANTS
  Ops <- MCOps
  Desk <- MCDesk
  Tool <- MCTool
  Requests <- MCRequests
  Facts <- MCFacts
  Claims <- MCClaims
  Seeds <- MCSeeds
  MaxMemories = 3
  MaxManual = 2
CHECK_DEADLOCK FALSE
INVARIANT EvidenceKept
