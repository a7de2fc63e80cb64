SPECIFICATION DaemonSpec
CONSTANTS
  NoToken = 0
  Token <- Tokens
  User = {"carol"}
  Client = {"alice", "bob"}
  MaxUpdates = 2
  MaxDepth = 2
PROPERTIES
  StopSparesUpdates
CHECK_DEADLOCK FALSE
