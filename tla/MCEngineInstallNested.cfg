SPECIFICATION InstallLiveSpec
CONSTANTS
  NoDevice = NoDevice
  NoConnection = NoConnection
  Device <- OneDevice
  DeviceId = {"id1"}
  Guid = {}
  Id <- OneId
  EquivalentId <- OneId
  Plugin <- OnePlugin
  Priority <- OnePriority
  Connection <- OneConnection
  Guids <- OneGuids
  FirstFlags <- OneFlags
  FirstCounterparts <- OneCounterparts
  FirstChildren <- OneChildren
  MaxInstalls = 2
  MaxDepth = 2
  MaxWrites = 2
  AcquiesceDelay = {}
  Request <- AnyRequest
INVARIANTS
  OneWriterPerDevice
  ProblemMeansUpdating
PROPERTIES
  InstallsReturn
