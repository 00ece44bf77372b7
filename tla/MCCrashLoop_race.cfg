SPECIFICATION Spec
CONSTANTS
  c1 = c1
  p1 = p1
  p2 = p2
  Container = {c1}
  Checked = {c1}
  Threshold = 2
  DefaultThreshold = 3
  MaxAttempts = 2
  Reported = {}
  RetryOn = TRUE
  All = All
  None = None
  Publisher = {p1, p2}
  EvtCap = 2
  FaultyApi = {}
  MaxFaults = 0
  MaxChanges = 9
INVARIANT RecoveryClearsAlarm
