SPECIFICATION FairSpec
CONSTANTS
  a = a
  b = b
  x = x
  Container = {a}
  Name = {a}
  NameOf <- MCNameOf
  Labelled = {}
  Excluded = {}
  QueueCap = 2
  None = None
  Cli <- NoFilter
  DeleteFromCloud = TRUE
  DeleteOrphans = TRUE
  RetryOn = TRUE
  ReconcileOn = FALSE
  MetricsOn = FALSE
  FaultyApi = {"cloud"}
  MaxFaults = 2
  MaxChanges = 1
  MaxBreaks = 1
  MaxPrompts = 1
PROPERTIES RetriesUntilSynced EventsSuffice NothingFallsBetween
CHECK_DEADLOCK FALSE
