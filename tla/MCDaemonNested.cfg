SPECIFICATION DaemonLiveSpec
CONSTANTS
  NoToken = 0
  Token <- Tokens
  User = {"carol"}
  Client = {"alice", "bob"}
  MaxUpdates = 2
  MaxDepth = 2
INVARIANTS
  DaemonTypeOK
  IdleOnlyWhenUnused
  SignalsHeldByUpdates
  StatusIsLast
  IdleCanStop
PROPERTIES
  QuitCarriedOut
  QuitReturns
CHECK_DEADLOCK FALSE
