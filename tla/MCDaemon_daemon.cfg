CONSTANTS
  Sockets = 1
  Podman = {1}
  ContainerHost = 0
  Attempts = 2
  Loop = {}
  Tick = {"tick"}
  QueueSize = 1
  Answer = {"sample", "end", "silence"}
SPECIFICATION FairSpec
INVARIANTS TypeOK HealthShown OneRequest
PROPERTIES GoesOn
