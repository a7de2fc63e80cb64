-------------------------- MODULE MCEngineInstall --------------------------
(***************************************************************************)
(* Instances of EngineInstall for TLC.                                     *)
(***************************************************************************)
EXTENDS EngineInstall, TLC

\* A device with a runtime and a bootloader mode, two objects with one ID.
TwoDevice == {"runtime", "bootloader"}
TwoId == [d \in TwoDevice |-> "id1"]
TwoPlugin == [d \in TwoDevice |-> "plugin"]
TwoPriority == [d \in TwoDevice |-> 0]
TwoConnection == [d \in TwoDevice |-> "port1"]
TwoGuids == [d \in TwoDevice |-> {}]
TwoFlags == [d \in TwoDevice |-> {}]
TwoCounterparts == [d \in TwoDevice |-> {}]
TwoChildren == [d \in TwoDevice |-> {}]

\* A device that comes back as the same object.
OneDevice == {"device"}
OneId == [d \in OneDevice |-> "id1"]
OnePlugin == [d \in OneDevice |-> "plugin"]
OnePriority == [d \in OneDevice |-> 0]
OneConnection == [d \in OneDevice |-> "port1"]
OneGuids == [d \in OneDevice |-> {}]
OneFlags == [d \in OneDevice |-> {}]
OneCounterparts == [d \in OneDevice |-> {}]
OneChildren == [d \in OneDevice |-> {}]

\* Two devices, each with an object and an ID.
PairDevice == {"left", "right"}
PairId == [d \in PairDevice |-> IF d = "left" THEN "id1" ELSE "id2"]
PairPlugin == [d \in PairDevice |-> "plugin"]
PairPriority == [d \in PairDevice |-> 0]
PairConnection == [d \in PairDevice |-> IF d = "left" THEN "port1" ELSE "port2"]
PairGuids == [d \in PairDevice |-> {}]
PairFlags == [d \in PairDevice |-> {}]
PairCounterparts == [d \in PairDevice |-> {}]
PairChildren == [d \in PairDevice |-> {}]

\* A device of as many objects as the configuration gives it, all alike.
SharedId == [d \in Device |-> "id1"]
SharedPlugin == [d \in Device |-> "plugin"]
SharedPriority == [d \in Device |-> 0]
SharedConnection == [d \in Device |-> "port1"]
Nothing == [d \in Device |-> {}]
Alike == Permutations(Device)

\* The requests: to install a release, with or without a record in the history,
\* and to write a blob.
InstallOnly == {<<"install", FALSE>>}
AnyRequest == {<<"install", FALSE>>, <<"install", TRUE>>, <<"blob", TRUE>>}
=============================================================================
