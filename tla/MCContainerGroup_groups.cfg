SPECIFICATION Spec
CONSTANTS
  m1 = m1  m2 = m2  p1 = p1
  a1 = a1  a2 = a2  bad = bad  b1 = b1  torn = torn
  Module = {m1, m2}
  Project = {m1, m2, p1}
  Artifact = {a1, a2, bad, b1, torn}
  Torn = torn
  Versions <- MCVersions
  FileOf <- SameFile
  ProjectOf <- MCProjectOf
  Readable = {a1, a2, b1}
  None = None
  FaultyCall = {"mkdir", "write", "network", "up", "version", "list", "stop", "down", "rmdir"}
  MaxFaults = 2
  MaxKills = 2
INVARIANTS StillRemovable LogsFound
PROPERTIES VersionIsDeployed RemovedIsGone KeepsList
