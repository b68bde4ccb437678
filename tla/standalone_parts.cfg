SPECIFICATION PartsSpec
CONSTANTS
    MaxPendingHeartbeats = 2
    HeartbeatInterval = 1
    MaxTime = 7
    TimelineLength = 2
    EventTexts = {"joined", "refused"}
    MaxSent = 3
    MaxEvents = 2
    MaxResets = 1
    MaxRestarts = 1
    Widths <- WindowWidths
    Heights <- WindowHeights
    WorldWidth = 40
    WorldHeight = 20
    Configs <- SlowConfigs
    Draws <- Extremes
    MaxEdits = 1
    MaxRuns = 2
    Messages <- AnyMessages
    MaxMessages = 3
    Limits = {1, 2, 3, 4, 7, 10}
    Speeds = {0, 1, 2, 3, 4, 5, 7, 9, 12, 19}
    MaxTicks = 40
    EngagementTimeouts = {1, 2, 3, 5}
    Senders = {101, 201}
    ConsoleSender = 101
    DisplaySender = 201
    MaxTick = 12
    MaxSequence = 12
    MaxRejections = 8
    MaxTrackUpdates = 8
    MaxChurn = 8
    CallerTicks = 2
    CallerChurn = 1
CHECK_DEADLOCK FALSE
INVARIANTS
  DelaySound
  FeedSound
  LayoutSound
  StreamFaithful
  MotionFaithful
  RoutesAgree
  RunsSucceed
PROPERTIES
  StartsAsPlanned
  RefusalHarmless
