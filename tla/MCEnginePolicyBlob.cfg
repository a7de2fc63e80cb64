SPECIFICATION PolicySpec
CONSTANTS
  NoDevice = NoDevice
  NoConnection = NoConnection
  Device <- PairDevice
  DeviceId = {"id1", "id2"}
  Guid = {}
  Id <- PairId
  EquivalentId <- PairId
  Plugin <- PairPlugin
  Priority <- PairPriority
  Connection <- PairConnection
  Guids <- PairGuids
  FirstFlags <- PairFlags
  FirstCounterparts <- PairCounterparts
  FirstChildren <- PairChildren
  Condition = {"lid-is-closed"}
  Sensitive <- PairSensitive
  Sender = {"alice"}
  InhibitId = {"a", "b", "c", "d"}
  MaxTotal = 3
  MaxPerSender = 2
  Kinds = {"blob"}
  MaxNested = 2
INVARIANTS
  PolicyApplied
