CONSTANTS
  c1 = c1  c2 = c2  c3 = c3  c4 = c4
  Container = {c1, c2, c3, c4}
  Original = c1
  None = None
  WaitForExit = {FALSE, TRUE}
  HasCheck = FALSE
  MaxPolls = 3
  FaultyCall = {"update", "stop", "rename", "create", "start", "logs", "remove"}
  MaxFaults = 2
  MaxExits = 3
  MaxReboots = 1
  MaxRuns = 2
SPECIFICATION FairSpec
INVARIANT OneAtATime
PROPERTIES EndsInOrder RunsAgain
CHECK_DEADLOCK FALSE
