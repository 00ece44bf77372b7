SPECIFICATION FairSpec
CONSTANTS
  c1 = c1
  p1 = p1
  p2 = p2
  Container = {c1}
  Checked = {c1}
  Threshold = 2
  DefaultThreshold = 3
  MaxAttempts = 2
  Reported = {"destroy"}
  RetryOn = TRUE
  All = All
  None = None
  Publisher = {p1}
  EvtCap = 1
  FaultyApi = {"thin-edge", "mqtt", "engine", "cloud", "queue"}
  MaxFaults = 2
  MaxChanges = 6
INVARIANTS TypeOK MarkHasAlarm NoFalseAlarm
PROPERTIES MarksAreShown DownWhileLooping GoneIsGone
