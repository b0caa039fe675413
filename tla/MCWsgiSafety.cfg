SPECIFICATION FairSpec
CONSTANTS
  AppStatuses = {"200", "404"}
  MaxCalls = 2
  MaxChunks = 2
INVARIANTS
  LoggedOnce
  ErrorsReachClient
  TruthfulLog
PROPERTIES
  ServerToldOnce
  EventuallyLogged
CHECK_DEADLOCK FALSE
