SPECIFICATION ReportSpec
CONSTANTS
  EngagementTimeouts = {1, 3}
  Clients = {"FireControlConsole"}
  MaxTick = 5
  MaxSequence = 3
  MaxChurn = 1
  MaxRejections = 1
  MaxTrackUpdates = 2
CHECK_DEADLOCK FALSE
INVARIANTS
  PhaseConsistent
  EngagementTimely
  SeekerLockNeedsTrack
  ProfileMatchesTrack
  ReportsTellTheRun
