SPECIFICATION FocusSpec
CONSTANTS
  j1 = j1
  j2 = j2
  Jobs <- MCJobs
  MaxAttempts = 2
  Messages = 1
  Kind <- MCPhase
  Item <- MCOwnItem
  Chunk = 1
  Modes = {"OFF", "ACTIVE"}
  MaxRevivals = 0
  Pids = {1, 2, 3}
  Asking = {"h", "i"}
  MaxStops = 2
CHECK_DEADLOCK FALSE
INVARIANT ServiceIsReachable
PROPERTIES SpokenIsHandled ServiceSettles
