SPECIFICATION FairSpec
CONSTANTS
  Jobs <- MCOneJob
  MaxAttempts = 1
  MaxQueued = 1
  MaxStamp = 1
  ErrorCodes <- MCErrorCodes
  Legacy <- MCNoLegacy
  MaxFaults = 1
  MaxRequeues = 1
PROPERTIES RequeuedIsClaimed
