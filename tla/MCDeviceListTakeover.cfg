SPECIFICATION ListSpec
CONSTANTS
  NoDevice = NoDevice
  NoConnection = NoConnection
  Device <- SomeDevice
  DeviceId = {"id1", "id2", "id3"}
  Guid = {"guid1", "guid2"}
  Id <- TakenId
  EquivalentId <- TakenId
  Plugin <- SomePlugin
  Priority <- SomePriority
  Connection <- SomeConnection
  Guids <- SomeGuids
  FirstFlags <- SomeFlags
  FirstCounterparts <- SomeCounterparts
  FirstChildren <- SomeChildren
PROPERTIES
  SignalPromise
CHECK_DEADLOCK FALSE
