SPECIFICATION FairSpec
CONSTANTS
  a = a
  b = b
  x = x
  Container = {a, x}
  Name = {a, x}
  NameOf <- MCNameOf
  Labelled = {}
  Excluded = {x}
  QueueCap = 1
  None = None
  Cli <- ClientFilter
  DeleteFromCloud = TRUE
  DeleteOrphans = TRUE
  RetryOn = FALSE
  ReconcileOn = TRUE
  MetricsOn = FALSE
  FaultyApi = {"thin-edge", "cloud"}
  MaxFaults = 1
  MaxChanges = 1
  MaxBreaks = 1
  MaxPrompts = 0
PROPERTY Converges
