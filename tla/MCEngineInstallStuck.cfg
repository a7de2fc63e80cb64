SPECIFICATION InstallSpec
CONSTANTS
  NoDevice = NoDevice
  NoConnection = NoConnection
  Device <- TwoDevice
  DeviceId = {"id1"}
  Guid = {}
  Id <- TwoId
  EquivalentId <- TwoId
  Plugin <- TwoPlugin
  Priority <- TwoPriority
  Connection <- TwoConnection
  Guids <- TwoGuids
  FirstFlags <- TwoFlags
  FirstCounterparts <- TwoCounterparts
  FirstChildren <- TwoChildren
  MaxInstalls = 1
  MaxDepth = 1
  MaxWrites = 2
  AcquiesceDelay = {}
  Request <- InstallOnly
INVARIANTS
  ProblemMeansUpdating
