CONSTANTS
  EngagementTimeouts = {2, 22}
  NoEndpoint = NoEndpoint
  Endpoints = {e1}
  Senders = {101}
  ConsoleSender = 101
  ConsoleTimeout = 2
  Requests <- ScriptRequests
  Datagrams <- NoDatagrams
  UdpMaxBatchSnapshots = 1
  UdpSendLatestOnly = TRUE
  RunForever = FALSE
  TickLimit = 30
  MaxConnections = 3
  MaxRequests = 26
  MaxDatagrams = 0
SPECIFICATION ProgramsSpec
CHECK_DEADLOCK FALSE
INVARIANTS
  ReviewsSuffice
  OutcomeIsOwn
