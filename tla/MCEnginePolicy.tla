--------------------------- MODULE MCEnginePolicy ---------------------------
(***************************************************************************)
(* Instances of EnginePolicy for TLC.                                      *)
(***************************************************************************)
EXTENDS EnginePolicy

\* Two devices, an object and an ID each.
PairDevice == {"left", "right"}
PairId == [d \in PairDevice |-> IF d = "left" THEN "id1" ELSE "id2"]
PairPlugin == [d \in PairDevice |-> "plugin"]
PairPriority == [d \in PairDevice |-> 0]
PairConnection == [d \in PairDevice |-> IF d = "left" THEN "port1" ELSE "port2"]
PairGuids == [d \in PairDevice |-> {}]
PairFlags == [d \in PairDevice |-> {}]
PairCounterparts == [d \in PairDevice |-> {}]
PairChildren == [d \in PairDevice |-> {}]
PairSensitive == [d \in PairDevice |->
  IF d = "left" THEN {"system-inhibit", "lid-is-closed"} ELSE {"system-inhibit"}]

\* A device that may be unplugged and come back as another object.
ReplugDevice == {"device", "device2"}
ReplugId == [d \in ReplugDevice |-> "id1"]
ReplugPlugin == [d \in ReplugDevice |-> "plugin"]
ReplugPriority == [d \in ReplugDevice |-> 0]
ReplugConnection == [d \in ReplugDevice |-> "port1"]
ReplugGuids == [d \in ReplugDevice |-> {}]
ReplugFlags == [d \in ReplugDevice |-> {"remove-delay", "delayed-removal"}]
ReplugCounterparts == [d \in ReplugDevice |-> {}]
ReplugChildren == [d \in ReplugDevice |-> {}]
ReplugSensitive == [d \in ReplugDevice |-> {"system-inhibit", "lid-is-closed"}]
=============================================================================
