CONSTANTS
  EngagementTimeouts = {1}
  NoEndpoint = NoEndpoint
  Endpoints = {e1, e2}
  Senders = {0, 1, 2}
  Kinds = {"session_join", "session_leave", "scenario_start", "scenario_stop", "scenario_reset", "track_acquire", "track_drop", "interceptor_ready", "engage_order", "aar_request", "malformed_aar_request", "malformed"}
  Requests <- AllFrames
  Datagrams <- AllDatagrams
  UdpMaxBatchSnapshots = 2
  UdpSendLatestOnly = FALSE
  RunForever = FALSE
  TickLimit = 3
  MaxConnections = 2
  MaxRequests = 5
  MaxDatagrams = 3
SPECIFICATION TrafficSpec
SYMMETRY Addresses
CHECK_DEADLOCK FALSE
INVARIANTS
  BindingsAgree
  DeliveryCurrent
  AnswersInOrder
  MissionConsistent
  ReplayInLog
