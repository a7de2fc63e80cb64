SPECIFICATION InstallSpec
CONSTANTS
  NoDevice = NoDevice
  NoConnection = NoConnection
  Device <- TwoDevice
  DeviceId = {"id1"}
  Guid = {}
  Id <- TwoId
  EquivalentId <- TwoId
  Plugin <- TwoPlugin
  Priority <- TwoPriority
  Connection <- TwoConnection
  Guids <- TwoGuids
  FirstFlags <- TwoFlags
  FirstCounterparts <- TwoCounterparts
  FirstChildren <- TwoChildren
  MaxInstalls = 2
  MaxDepth = 2
  MaxWrites = 2
  AcquiesceDelay = {}
  Request <- InstallOnly
INVARIANTS
  OneWriterPerDevice
