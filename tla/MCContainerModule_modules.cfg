SPECIFICATION FairSpec
CONSTANTS
  m1 = m1
  m2 = m2
  b1 = b1
  b2 = b2
  a1 = a1
  a2 = a2
  Module = {m1, m2}
  Part <- PartDef
  PortPart = {"5000/app"}
  Latest = "latest"
  FullName <- FullNameDef
  Image <- ImageDef
  RepoTag <- RepoTagDef
  Build = {b1, b2}
  Stock <- StockDef
  Private <- PrivateDef
  Contents <- ContentsDef
  Containers <- ContainersDef
  Images <- AppRequestDef
  Tools <- AppRequestDef
  AlwaysPull = {TRUE, FALSE}
  Libpod = TRUE
  MaxAttempts = 2
  None = None
  FaultyCall = {"load", "read", "decode", "network", "inspect", "auth", "libpod", "docker", "stop", "remove", "create", "start", "untag", "prune"}
  MaxFaults = 1
  MaxChanges = 1
INVARIANTS ReplacedForImage ReportsTruly
PROPERTIES KeepsList RemovedIsUnlisted CommandsEnd
