SPECIFICATION Spec
CONSTANTS
  a = a
  b = b
  x = x
  Container = {a, b}
  Name = {a, b}
  NameOf <- MCNameOf
  Labelled = {}
  Excluded = {}
  QueueCap = 1
  None = None
  Cli <- NoFilter
  DeleteFromCloud = TRUE
  DeleteOrphans = TRUE
  RetryOn = FALSE
  ReconcileOn = FALSE
  MetricsOn = TRUE
  FaultyApi = {"thin-edge", "mqtt", "engine", "cloud"}
  MaxFaults = 1
  MaxChanges = 2
  MaxBreaks = 1
  MaxPrompts = 0
SYMMETRY Symmetry
PROPERTIES SparesListed KeepsRegistry NothingFallsBetween
CHECK_DEADLOCK FALSE
