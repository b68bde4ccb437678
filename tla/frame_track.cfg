SPECIFICATION ReportSpec
CONSTANTS
    EngagementTimeouts = {1}
    Clients = {"FireControlConsole"}
    MaxTick = 3
    MaxSequence = 3
    MaxChurn = 2
    MaxRejections = 1
    MaxTrackUpdates = 2
INVARIANT FrameShowsTrack
CHECK_DEADLOCK FALSE
