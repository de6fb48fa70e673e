SPECIFICATION FocusSpec
CONSTANTS
  Projects <- MCProjects
  Memories <- MCMemories
  Writers <- MCWriters
  Identities <- MCIdentities
  Requests <- MCRequests
  MaxEvents = 2
  MaxRecords = 2
  MaxRevision = 3
  Servers = {s, t}
  Indexers = {s, t}
  Facts = {1, 2, 3}
  Texts = {1, 2}
  Owner <- MCOwner
  Topics <- MCTopics
  Matching = {1}
  Limit = 1
  TopK = 1
  CacheSize = 1
  Life <- MCLife
  MaxCommits = 2
  Callers = {s, t}
  Plans = {"x", "y"}
  RouterCacheSize = 1
  Retries = 1
  MaxChanges = 2
CHECK_DEADLOCK FALSE
INVARIANTS DocumentIsSound NoCircularWait GraphIsTrue AnswersAreSound RouteIsSound
PROPERTIES ChecksHoldAtCommit IndexIsMerged
SYMMETRY MCSymmetry
