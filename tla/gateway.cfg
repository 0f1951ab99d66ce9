SPECIFICATION Spec
CONSTANTS
  None = None
  Scenarios <- MCScenarios
  Picked = {"ws_core", "ws_core_full", "ws_migrated", "ws_js", "ws_js_resume", "ws_rs", "ws_rs_resume", "ws_rs_trim", "gql_js", "gql_rs", "gql_lone"}
  SessionAckEvery = 2
  SessionMaxReopen = 1
  ReadBatch = 2
  BroadcastCapacity = 2
  TailerFailureThreshold = 2
  MailboxCapacity = 1
  OperationCapacity = 1
INVARIANTS  OnlyMatching SessionsAccounted
 
