CONSTANTS
  EngagementTimeouts = {1}
  NoEndpoint = NoEndpoint
  Endpoints = {e1}
  Senders = {1}
  Kinds = {"session_join", "scenario_start"}
  Requests <- ReviewRequests
  Datagrams <- NoDatagrams
  UdpMaxBatchSnapshots = 1
  UdpSendLatestOnly = TRUE
  RunForever = FALSE
  TickLimit = 1
  MaxConnections = 1
  MaxRequests = 5
  MaxDatagrams = 0
SPECIFICATION Spec
CHECK_DEADLOCK FALSE
PROPERTIES
  StepsFromCurrentCursor
