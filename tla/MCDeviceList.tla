---------------------------- MODULE MCDeviceList ----------------------------
(***************************************************************************)
(* An instance of DeviceList for TLC.  There are three sets of devices: a  *)
(* behaviour has the devices of one of them.                               *)
(***************************************************************************)
EXTENDS DeviceList, TLC

VARIABLE plugged   \* the devices that there are

\* A device with a runtime and a bootloader mode that share a GUID but not the
\* ID; another plugin offers the runtime mode too, with a lower priority.
ReplugDevice == {"runtime", "rival", "bootloader"}
ReplugId == [d \in ReplugDevice |-> IF d = "bootloader" THEN "id2" ELSE "id1"]
ReplugPlugin ==
  [d \in ReplugDevice |-> IF d = "rival" THEN "plugin2" ELSE "plugin"]
ReplugPriority == [d \in ReplugDevice |-> IF d = "rival" THEN 0 ELSE 1]
ReplugConnection ==
  [d \in ReplugDevice |-> IF d = "bootloader" THEN NoConnection ELSE "port1"]
ReplugGuids ==
  [d \in ReplugDevice |-> IF d = "bootloader" THEN {"guid2"} ELSE {"guid1"}]
ReplugFlags == [d \in ReplugDevice |->
  IF d = "bootloader" THEN {"replug-match-guid", "remove-delay"}
                      ELSE {"replug-match-guid", "add-counterpart-guids"}]
ReplugCounterparts ==
  [d \in ReplugDevice |-> IF d = "bootloader" THEN {"guid1"} ELSE {}]
ReplugChildren == [d \in ReplugDevice |-> {}]

\* A hub with a child that comes back as an object of another plugin, with the
\* same ID, at the same port.
FamilyDevice == {"hub", "child", "child2"}
FamilyId == [d \in FamilyDevice |-> IF d = "hub" THEN "id1" ELSE "id2"]
FamilyPlugin ==
  [d \in FamilyDevice |-> IF d = "child2" THEN "plugin2" ELSE "plugin"]
FamilyPriority == [d \in FamilyDevice |-> 0]
FamilyConnection ==
  [d \in FamilyDevice |-> IF d = "hub" THEN NoConnection ELSE "port1"]
FamilyGuids == [d \in FamilyDevice |-> {"guid1"}]
FamilyFlags == [d \in FamilyDevice |->
  IF d = "child" THEN {"remove-delay", "delayed-removal", "will-disappear"}
                 ELSE {}]
FamilyCounterparts == [d \in FamilyDevice |-> {}]
FamilyChildren ==
  [d \in FamilyDevice |-> IF d = "hub" THEN {"child"} ELSE {}]

\* Two modes of a device that have nothing in common but the port.
PortDevice == {"mode1", "mode2"}
PortId == [d \in PortDevice |-> IF d = "mode1" THEN "id1" ELSE "id2"]
PortPlugin == [d \in PortDevice |-> "plugin"]
PortPriority == [d \in PortDevice |-> 0]
PortConnection == [d \in PortDevice |-> "port1"]
PortGuids == [d \in PortDevice |-> {}]
PortFlags == [d \in PortDevice |-> {"remove-delay", "delayed-removal"}]
PortCounterparts == [d \in PortDevice |-> {}]
PortChildren == [d \in PortDevice |-> {}]

SomeDevice == ReplugDevice \cup FamilyDevice \cup PortDevice
SomeId == ReplugId @@ FamilyId @@ PortId
SomePlugin == ReplugPlugin @@ FamilyPlugin @@ PortPlugin
SomePriority == ReplugPriority @@ FamilyPriority @@ PortPriority
SomeConnection == ReplugConnection @@ FamilyConnection @@ PortConnection
SomeGuids == ReplugGuids @@ FamilyGuids @@ PortGuids
SomeFlags == ReplugFlags @@ FamilyFlags @@ PortFlags
SomeCounterparts == ReplugCounterparts @@ FamilyCounterparts @@ PortCounterparts
SomeChildren == ReplugChildren @@ FamilyChildren @@ PortChildren

\* The object that takes the place of the child at its port has another ID.
TakenId == [SomeId EXCEPT !["child2"] = "id3"]

ListInit == Init /\ plugged \in {ReplugDevice, FamilyDevice, PortDevice}

ListNext ==
  /\ waiter # "disposed"
  /\ \/ \E d \in plugged : Add(d) \/ Remove(d) \/ ExpectReplug(d)
     \/ \E it \in items : DelayedRemove(it)
     \/ RemoveAll
     \/ WaitStart \/ WaitDone \/ WaitTimeout
  /\ UNCHANGED plugged

ListSpec == ListInit /\ [][ListNext]_<<vars, plugged>> /\ Fairness
=============================================================================
