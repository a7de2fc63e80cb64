--------------------------- MODULE MCUpdateHistory ---------------------------
(* Instances of UpdateHistory.  Boots and versions are the only numbers; both  *)
(* are bounded by sets, and every other variable ranges over a finite set, so  *)
(* the runs are complete for these bounds.                                     *)
EXTENDS UpdateHistory, TLC

\* Nothing tells the devices apart but their names.
DeviceSymmetry == Permutations(Device)

\* What the hardware and the clients may do in a run.
Calm == {"inhibit"}
Everything == {"crash", "blob", "plugin", "replug", "no-history", "inhibit"}
Crashes == {"crash"}
Blobs == {"blob"}
Replugs == {"replug"}
Unrecorded == {"no-history", "inhibit"}
=============================================================================
