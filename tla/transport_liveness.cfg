CONSTANTS
  EngagementTimeouts = {1}
  NoEndpoint = NoEndpoint
  Endpoints = {e1}
  Senders = {1}
  Kinds = {"session_join", "session_leave", "scenario_start", "scenario_stop", "scenario_reset", "track_acquire", "track_drop", "interceptor_ready", "engage_order", "aar_request", "malformed_aar_request", "malformed"}
  Requests <- SoundRequests
  Datagrams <- JoinsAndHeartbeats
  UdpMaxBatchSnapshots = 1
  UdpSendLatestOnly = TRUE
  RunForever = TRUE
  TickLimit = 4
  MaxConnections = 2
  MaxRequests = 5
  MaxDatagrams = 2
SPECIFICATION LiveSpec
CHECK_DEADLOCK FALSE
PROPERTIES
  SilentViewerReleased
  SignalArchives
