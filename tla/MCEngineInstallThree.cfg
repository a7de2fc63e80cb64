SPECIFICATION InstallSpec
CONSTANTS
  NoDevice = NoDevice
  NoConnection = NoConnection
  Device = {a, b, c}
  DeviceId = {"id1"}
  Guid = {}
  Id <- SharedId
  EquivalentId <- SharedId
  Plugin <- SharedPlugin
  Priority <- SharedPriority
  Connection <- SharedConnection
  Guids <- Nothing
  FirstFlags <- Nothing
  FirstCounterparts <- Nothing
  FirstChildren <- Nothing
  MaxInstalls = 2
  MaxDepth = 1
  MaxWrites = 1
  AcquiesceDelay = {}
  Request <- InstallOnly
PROPERTIES
  SuccessRecorded
SYMMETRY Alike
