SPECIFICATION DaemonLiveSpec
CONSTANTS
  NoToken = 0
  Token <- Tokens
  User = {"carol"}
  Client = {"alice"}
  MaxUpdates = 1
  MaxDepth = 1
PROPERTIES
  QuitAfterUpdate
CHECK_DEADLOCK FALSE
