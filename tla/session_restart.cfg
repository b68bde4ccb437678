CONSTANTS
  EngagementTimeouts = {1}
  Clients = {"FireControlConsole", "TacticalDisplay"}
  MaxTick = 2
  MaxSequence = 7
  MaxChurn = 2
  MaxRejections = 1
  MaxTrackUpdates = 1
SPECIFICATION Spec
CHECK_DEADLOCK FALSE
INVARIANTS
  PictureCurrent
PROPERTIES
  VerdictFinal
  SequenceNeverReused
  ImplementsLifecycle
