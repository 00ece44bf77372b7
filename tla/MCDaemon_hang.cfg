CONSTANTS
  Sockets = 1
  Podman = {}
  ContainerHost = 0
  Attempts = 1
  Loop = {}
  Tick = {"tick"}
  QueueSize = 1
  Answer = {"sample", "broken"}
SPECIFICATION FairSpec
PROPERTIES GroupIsReleased
