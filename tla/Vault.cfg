SPECIFICATION FocusSpec
CONSTANTS
  ProjectIds = {p, q}
  Roots = {r, s}
  Clients = {c, d}
  NoId = NoId
  Settings = {"mode"}
  MaxCalls = 4
  Intents = {1, 2}
  Passes = {v, w}
  MaxTries = 2
  MaxSource = 2
  MaxFaults = 2
  Scopes = {p}
  MaxAttempts = 2
  MaxWrites = 3
  MaxCrashes = 1
INVARIANTS RegistryIsKept ConfigurationIsKept ReportsAreSound BackupIsWhole
PROPERTIES ReportIsFinal SessionEndIsSettled ArchiveIsFinal
CHECK_DEADLOCK FALSE
