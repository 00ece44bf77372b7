CONSTANTS
  c1 = c1  c2 = c2  c3 = c3  c4 = c4
  Container = {c1, c2, c3}
  Original = c1
  None = None
  WaitForExit = {FALSE}
  HasCheck = TRUE
  MaxPolls = 0
  FaultyCall = {"stop", "rename"}
  MaxFaults = 1
  MaxExits = 1
  MaxReboots = 1
  MaxRuns = 2
  AlwaysPull = TRUE
  Lists <- MCLists
  ContainerFlag <- MCContainerFlag
  MaxRefused = 1
  MaxCrashes = 1
SPECIFICATION FairSpec
INVARIANTS NameHeld WorkingCopySurvives ConfigKept
PROPERTIES ImplementsClone OwnNotHandedOver Settles
CHECK_DEADLOCK FALSE
