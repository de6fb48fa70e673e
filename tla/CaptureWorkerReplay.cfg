SPECIFICATION Spec
CONSTANTS
  j1 = j1
  j2 = j2
  Jobs <- MCJobs
  MaxAttempts = 2
  Messages = 1
  Kind <- MCPhase
  Item <- MCOwnItem
  Chunk = 2
  Modes = {"ACTIVE"}
  MaxRevivals = 0
CHECK_DEADLOCK FALSE
INVARIANT CrashReplaysSafely
SYMMETRY MCSymmetry
