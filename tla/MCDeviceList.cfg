SPECIFICATION ListSpec
CONSTANTS
  NoDevice = NoDevice
  NoConnection = NoConnection
  Device <- SomeDevice
  DeviceId = {"id1", "id2"}
  Guid = {"guid1", "guid2"}
  Id <- SomeId
  EquivalentId <- SomeId
  Plugin <- SomePlugin
  Priority <- SomePriority
  Connection <- SomeConnection
  Guids <- SomeGuids
  FirstFlags <- SomeFlags
  FirstCounterparts <- SomeCounterparts
  FirstChildren <- SomeChildren
INVARIANTS
  TypeOK
  UniqueIds
  TimerIffUnconnected
PROPERTIES
  SignalPromise
  UnpluggedResolved
  WaitReturns
CHECK_DEADLOCK FALSE
