--------------------------- MODULE DevicePresence ---------------------------
(***************************************************************************)
(* What the device list promises to the users of its signals, as the       *)
(* comments of FuDeviceList, fu_device_list_add and fu_device_list_remove  *)
(* describe it: a device ID is absent, present, or lingering (unplugged    *)
(* but still within its remove delay).  ::added announces an ID that the   *)
(* list did not hold, a return within the delay is only a ::changed, and   *)
(* an ID leaves with its own ::removed.  DeviceList implements this        *)
(* specification.                                                          *)
(***************************************************************************)
CONSTANT DeviceId        \* the device IDs

VARIABLES present,       \* IDs of the connected devices
          lingering,     \* IDs of the unplugged devices still in the list
          signalled,     \* the signals of the last step: <<kind, ID>> pairs
          disposed       \* the engine has been torn down

pvars == <<present, lingering, signalled, disposed>>

Held == present \cup lingering

Init ==
  /\ present = {}
  /\ lingering = {}
  /\ signalled = {}
  /\ disposed = FALSE

\* A device the list does not hold is plugged in.
Arrive(i) ==
  /\ i \notin Held
  /\ present' = present \cup {i}
  /\ UNCHANGED lingering
  /\ signalled' = {<<"added", i>>}

\* A held device is plugged in again: same object, its old object or a new one.
Confirm(i) ==
  /\ i \in Held
  /\ present' = present \cup {i}
  /\ lingering' = lingering \ {i}
  /\ signalled' = {<<"changed", i>>}

\* A compatible device with another ID takes the place of a held one.
TakeOver(i, j) ==
  /\ i \in Held
  /\ j \notin Held
  /\ present' = (present \ {i}) \cup {j}
  /\ lingering' = lingering \ {i}
  /\ signalled' = {<<"changed", j>>}

\* A device is unplugged and may come back within its remove delay.
Linger(i) ==
  /\ i \in Held
  /\ present' = present \ {i}
  /\ lingering' = lingering \cup {i}
  /\ signalled' = {}

\* A device leaves, at once or at the end of its delay, and children with it:
\* "The ::removed signal is emitted when a device has been removed from the
\* list", for each of them and for no other.
Leave(ids) ==
  /\ ids # {}
  /\ ids \subseteq Held
  /\ present' = present \ ids
  /\ lingering' = lingering \ ids
  /\ signalled' = {<<"removed", i>> : i \in ids}

\* A step of the list that its users do not see.
Quiet ==
  /\ signalled' = {}
  /\ UNCHANGED <<present, lingering>>

\* The list is emptied without signals, once and for all, when the engine is
\* torn down.
Clear ==
  /\ present' = {}
  /\ lingering' = {}
  /\ signalled' = {}
  /\ disposed' = TRUE

Step ==
  \/ \E i \in DeviceId :
        \/ Arrive(i)
        \/ Confirm(i)
        \/ Linger(i)
        \/ \E j \in DeviceId : TakeOver(i, j)
  \/ \E ids \in SUBSET DeviceId : Leave(ids)
  \/ Quiet

Next ==
  /\ ~disposed
  /\ \/ Step /\ UNCHANGED disposed
     \/ Clear

Spec == Init /\ [][Next]_pvars
=============================================================================
