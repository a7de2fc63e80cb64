SPECIFICATION InstallSpec
CONSTANTS
  NoDevice = NoDevice
  NoConnection = NoConnection
  Device <- PairDevice
  DeviceId = {"id1", "id2"}
  Guid = {}
  Id <- PairId
  EquivalentId <- PairId
  Plugin <- PairPlugin
  Priority <- PairPriority
  Connection <- PairConnection
  Guids <- PairGuids
  FirstFlags <- PairFlags
  FirstCounterparts <- PairCounterparts
  FirstChildren <- PairChildren
  MaxInstalls = 2
  MaxDepth = 2
  MaxWrites = 2
  AcquiesceDelay = {}
  Request <- InstallOnly
INVARIANTS
  WritesBounded
