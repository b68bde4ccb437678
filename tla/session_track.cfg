CONSTANTS
  EngagementTimeouts = {5}
  Clients = {"FireControlConsole"}
  MaxTick = 17
  MaxSequence = 0
  MaxChurn = 1
  MaxRejections = 1
  MaxTrackUpdates = 2
SPECIFICATION FairSpec
CHECK_DEADLOCK FALSE
INVARIANTS
  TrackFresh
PROPERTIES
  OrderSettles
