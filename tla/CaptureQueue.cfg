SPECIFICATION FairSpec
CONSTANTS
  Jobs <- MCJobs
  MaxAttempts = 2
  MaxQueued = 1
  MaxStamp = 2
  ErrorCodes <- MCErrorCodes
  Legacy <- MCSecond
  MaxFaults = 2
  MaxRequeues = 1
INVARIANTS FilesAreSound AcknowledgedOnce BoundedDelivery OwnerKeepsJob
PROPERTIES ImplementsDelivery AcceptedIsClosed
