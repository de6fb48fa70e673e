SPECIFICATION FocusSpec
CONSTANTS
  j1 = j1
  j2 = j2
  Jobs <- MCJobs
  MaxAttempts = 2
  Messages = 5
  Kind <- MCKinds
  Item <- MCItem
  Chunk = 3
  Modes = {"APPROVAL", "ACTIVE"}
  MaxRevivals = 1
  Proposals = {1, 2}
  Records = {1, 2, 3, 4}
  Twin <- MCTwin
  Complete = {1}
  Sorters = {"service", "command"}
  Service = "service"
  Auditors = {"audit", "second audit"}
  Prober = "probation"
  Answers <- MCAnswers
  Copies <- MCCopies
  Machine = {2, 4}
  Junk = {2, 4}
  Outcome <- MCOutcome
  MaxHands = 2
  MaxRuns = 3
CHECK_DEADLOCK FALSE
INVARIANTS NothingSkipped CommittedIsCovered ExactlyOnce BuriedByFaultsOnly AuditIsRecorded
PROPERTY UpkeepIsGuarded
SYMMETRY MCSymmetry
