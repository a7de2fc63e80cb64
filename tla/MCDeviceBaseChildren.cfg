SPECIFICATION BaseSpec
CONSTANTS
  Hub = "hub"
  Kid = {"kid"}
  PluginId = {}
  FlagId = {"unreachable"}
  Condition = {"require-ac-power", "system-inhibit"}
  Sensitive <- SomeSensitive
  Device = {"proxy", "a", "b"}
  ProxyOf <- SomeProxy
  NoProxy = "none"
  Locker = {"l1", "l2"}
  MaxRefs = 3
  Delay = {0, 1, 2}
  MaxWaits = 3
  MaxChanges = 2
INVARIANT
  ChildrenInhibited
