CONSTANTS
  EngagementTimeouts = {2}
  Clients = {"FireControlConsole"}
  MaxTick = 4
  MaxSequence = 0
  MaxChurn = 1
  MaxRejections = 2
  MaxTrackUpdates = 2
SPECIFICATION Spec
CHECK_DEADLOCK FALSE
INVARIANTS
  TimeoutAlwaysObserved
