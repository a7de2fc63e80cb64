SPECIFICATION PolicySpec
CONSTANTS
  NoDevice = NoDevice
  NoConnection = NoConnection
  Device <- ReplugDevice
  DeviceId = {"id1"}
  Guid = {}
  Id <- ReplugId
  EquivalentId <- ReplugId
  Plugin <- ReplugPlugin
  Priority <- ReplugPriority
  Connection <- ReplugConnection
  Guids <- ReplugGuids
  FirstFlags <- ReplugFlags
  FirstCounterparts <- ReplugCounterparts
  FirstChildren <- ReplugChildren
  Condition = {"lid-is-closed"}
  Sensitive <- ReplugSensitive
  Sender = {"alice", "bob"}
  InhibitId = {"a", "b", "c", "d"}
  MaxTotal = 3
  MaxPerSender = 2
  Kinds = {"install", "blob"}
  MaxNested = 2
INVARIANTS
  SystemInhibited
