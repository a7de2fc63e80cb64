SPECIFICATION InstallSpec
CONSTANTS
  NoDevice = NoDevice
  NoConnection = NoConnection
  Device <- OneDevice
  DeviceId = {"id1"}
  Guid = {}
  Id <- OneId
  EquivalentId <- OneId
  Plugin <- OnePlugin
  Priority <- OnePriority
  Connection <- OneConnection
  Guids <- OneGuids
  FirstFlags <- OneFlags
  FirstCounterparts <- OneCounterparts
  FirstChildren <- OneChildren
  MaxInstalls = 1
  MaxDepth = 1
  MaxWrites = 2
  AcquiesceDelay = {}
  Request <- InstallOnly
PROPERTIES
  FailureRecorded
