----------------------------- MODULE DeviceList -----------------------------
(***************************************************************************)
(* The list of devices of the fwupd daemon, src/fu-device-list.c.          *)
(*                                                                         *)
(* An item of the list has an active device, the device it replaced, and a *)
(* removal timer.  Hotplug callbacks add and remove device objects; an     *)
(* unplugged device that is expected back lingers until its timer fires;   *)
(* fu_device_list_wait_for_replug iterates the main context inside an      *)
(* install, so every other action may happen while it waits.               *)
(*                                                                         *)
(* The position of an item in the array is not modelled: where the code    *)
(* takes the first item that matches a connection or a GUID, the model     *)
(* takes any of them.  Versions, vendor IDs and payload flags, which the   *)
(* list copies from an object to its successor, are not modelled.          *)
(***************************************************************************)
EXTENDS Naturals

CONSTANTS Device,          \* the device objects (FuDevice pointers)
          DeviceId,        \* the device IDs
          Guid,            \* the GUIDs
          NoDevice,        \* NULL, for device_old
          NoConnection,    \* NULL, for the physical ID
          Id,              \* the ID of an object
          EquivalentId,    \* its equivalent ID, Id[d] when it has none
          Plugin,          \* the plugin that made it
          Priority,        \* its priority
          Connection,      \* its physical and logical ID
          Guids,           \* its visible GUIDs
          FirstFlags,      \* the flags its plugin gives it
          FirstCounterparts, \* the counterpart GUIDs its plugin gives it
          FirstChildren    \* the children its plugin gives it

\* The public and private device flags that the list reads or writes.
Flag == {"wait-for-replug", "unconnected", "remove-delay", "delayed-removal",
         "no-auto-remove-children", "replug-match-guid",
         "add-counterpart-guids", "emulated", "emulation-tag",
         "another-write-required", "will-disappear"}

UpdateState == {"unknown", "success", "failed", "failed-transient",
                "needs-reboot"}

Item == [device : Device, device_old : Device \cup {NoDevice},
         remove_source : BOOLEAN]

ASSUME DeviceAssumption ==
  /\ NoDevice \notin Device
  /\ Id \in [Device -> DeviceId]
  /\ EquivalentId \in [Device -> DeviceId]
  /\ Priority \in [Device -> Nat]
  /\ Guids \in [Device -> SUBSET Guid]
  /\ FirstFlags \in [Device -> SUBSET (Flag \ {"unconnected"})]
  /\ FirstCounterparts \in [Device -> SUBSET Guid]
  /\ FirstChildren \in [Device -> SUBSET Device]

VARIABLES
  items,         \* the items of the list
  flags,         \* the flags of every device object
  counterparts,  \* its counterpart GUIDs
  children,      \* its children
  inProgress,    \* the objects that have the update-in-progress problem
  updateState,   \* the update state of every object
  waiter,        \* fu_device_list_wait_for_replug: not called or what it does;
                 \* "disposed" when the engine is gone
  signalled      \* the signals the last step emitted: <<kind, device ID>>

objects == <<flags, counterparts, children, inProgress, updateState>>
vars == <<items, objects, waiter, signalled>>

Init ==
  /\ items = {}
  /\ flags = FirstFlags
  /\ counterparts = FirstCounterparts
  /\ children = FirstChildren
  /\ inProgress = {}
  /\ updateState = [d \in Device |-> "unknown"]
  /\ waiter = "idle"
  /\ signalled = {}
-----------------------------------------------------------------------------
(* Lookups *)

Ids(d) == {Id[d], EquivalentId[d]}

\* fu_device_list_filter_by_id: old devices only when no active one matches.
FilterById(i) ==
  LET active == {it \in items : i \in Ids(it.device)}
      old == {it \in items : /\ it.device_old # NoDevice
                             /\ i \in Ids(it.device_old)}
  IN  IF active # {} THEN active ELSE old

\* fu_device_list_find_by_id: the match with the highest priority; none at
\* all when two matches share that priority.
FindById(i) ==
  {it \in FilterById(i) :
      \A other \in FilterById(i) \ {it} :
          Priority[it.device] > Priority[other.device]}

\* fu_device_list_find_by_connection
FindByConnection(c) ==
  LET active == {it \in items : Connection[it.device] = c}
      old == {it \in items : /\ it.device_old # NoDevice
                             /\ Connection[it.device_old] = c}
  IN  IF c = NoConnection THEN {}
      ELSE IF active # {} THEN active ELSE old

\* fu_device_list_get_by_guids_removed: only items about to be removed.
FindByGuidsRemoved(guids) ==
  LET has(d) == (Guids[d] \cup counterparts[d]) \cap guids # {}
      active == {it \in items : it.remove_source /\ has(it.device)}
      old == {it \in items : /\ it.remove_source
                             /\ it.device_old # NoDevice
                             /\ has(it.device_old)}
  IN  IF active # {} THEN active ELSE old

\* The item that a compatible device replaces, by GUID or counterpart GUID.
FindCompatible(d) ==
  LET byGuid == FindByGuidsRemoved(Guids[d])
  IN  IF byGuid # {} THEN byGuid ELSE FindByGuidsRemoved(counterparts[d])

\* fu_device_list_get_wait_for_replug
WaitForReplug ==
  {it.device : it \in {x \in items : /\ "wait-for-replug" \in flags[x.device]
                                     /\ "emulated" \notin flags[x.device]}}
-----------------------------------------------------------------------------
(* fu_device_list_add *)

\* Mutant: the item is not reused, so the device is listed twice.
SetItemTwice(it, new) == items' = items \cup {new}

SetItem(it, new) == items' = (items \ {it}) \cup {new}

\* fu_device_set_update_state changes the update-in-progress problem too: p are
\* the objects that have it.
ProblemAfter(p, d, state) ==
  IF state = "needs-reboot" THEN p \cup {d} ELSE p \ {d}

\* fu_device_incorporate gives a state only to an object that has none.
TakesState(self, donor) ==
  updateState[self] = "unknown" /\ updateState[donor] # "unknown"

IncorporateState(self, donor) ==
  IF TakesState(self, donor)
  THEN [updateState EXCEPT ![self] = updateState[donor]]
  ELSE updateState

ProblemIncorporated(p, self, donor) ==
  IF TakesState(self, donor) THEN ProblemAfter(p, self, updateState[donor])
                             ELSE p

\* _fu_device_incorporate_problem_update_in_progress
IncorporateProblem(p, self, donor) ==
  IF donor \in p THEN (p \cup {self}) \ {donor} ELSE p

\* fu_device_list_add_missing_guids
MissingGuids(new, old) ==
  IF "add-counterpart-guids" \in flags[new] THEN Guids[old] \ Guids[new]
                                            ELSE {}

\* The flags an object has once it has replaced another: two are made equal,
\* the emulation tag is only ever gained.
InheritedFlags(new, old) ==
  LET copied == {"another-write-required", "will-disappear"}
  IN  (flags[new] \ copied) \cup (flags[old] \cap (copied \cup {"emulation-tag"}))

\* Mutant: the device that came back stays unconnected.
ClearOnlyWaitForReplug(f, new, old) ==
  [d \in Device |-> IF d \in {new, old} THEN f[d] \ {"wait-for-replug"}
                                        ELSE f[d]]

\* fu_device_list_clear_wait_for_replug, for the flags f of the objects.
ClearWaitForReplug(f, new, old) ==
  [d \in Device |->
     IF d = new THEN f[d] \ {"wait-for-replug", "unconnected"}
     ELSE IF d = old THEN f[d] \ {"wait-for-replug"}
     ELSE f[d]]

\* fu_device_list_replace
Replace(it, d) ==
  /\ SetItem(it, [device |-> d, device_old |-> it.device,
                  remove_source |-> FALSE])
  /\ flags' = ClearWaitForReplug(
                 [flags EXCEPT ![d] = InheritedFlags(d, it.device)],
                 d, it.device)
  /\ counterparts' = [counterparts EXCEPT
                        ![d] = @ \cup MissingGuids(d, it.device)]
  /\ children' = [children EXCEPT ![it.device] = {}]
  /\ updateState' = IncorporateState(d, it.device)
  /\ inProgress' =
       IncorporateProblem(ProblemIncorporated(inProgress, d, it.device),
                          it.device, d)
  /\ signalled' = {<<"changed", Id[d]>>}

\* Mutant: any device that is plugged again is swapped with the old device.
AddSameSwapped(it, d) ==
  /\ d = it.device
  /\ SetItem(it, [device |-> it.device_old, device_old |-> d,
                  remove_source |-> FALSE])
  /\ flags' = ClearWaitForReplug(flags, it.device_old, d)
  /\ UNCHANGED <<counterparts, children, inProgress, updateState>>
  /\ signalled' = {<<"changed", Id[d]>>}

\* "literally the same object"
AddSame(it, d) ==
  /\ d = it.device
  /\ SetItem(it, [it EXCEPT !.remove_source = FALSE])
  /\ flags' = ClearWaitForReplug(flags, d, it.device_old)
  /\ UNCHANGED <<counterparts, children, inProgress, updateState>>
  /\ signalled' = {<<"changed", Id[d]>>}

\* "the old device again"
AddOld(it, d) ==
  /\ d # it.device
  /\ d = it.device_old
  /\ SetItem(it, [device |-> d, device_old |-> it.device,
                  remove_source |-> FALSE])
  /\ flags' = ClearWaitForReplug(
                 [flags EXCEPT ![it.device] = @ \ {"unconnected"}],
                 d, it.device)
  /\ inProgress' =
       ProblemIncorporated(IncorporateProblem(inProgress, d, it.device),
                           it.device, d)
  /\ updateState' = IncorporateState(it.device, d)
  /\ UNCHANGED <<counterparts, children>>
  /\ signalled' = {<<"changed", Id[d]>>}

LowerPriority(it, d) ==
  /\ "wait-for-replug" \notin flags[it.device]
  /\ Priority[it.device] > Priority[d]
  /\ Plugin[it.device] # Plugin[d]

\* "adding a device with a lower priority"
AddIgnored(it, d) ==
  /\ d \notin {it.device, it.device_old}
  /\ LowerPriority(it, d)
  /\ flags' = [flags EXCEPT ![d] = @ \ {"emulation-tag"}]
  /\ UNCHANGED <<items, counterparts, children, inProgress, updateState>>
  /\ signalled' = {}

\* "same ID, different object"
AddSameId(it, d) ==
  /\ d \notin {it.device, it.device_old}
  /\ ~LowerPriority(it, d)
  /\ Replace(it, d)

\* The connection of d is not that of an item about to be removed.
NotRecentlyRemoved(d) ==
  \/ FindByConnection(Connection[d]) = {}
  \/ \E it \in FindByConnection(Connection[d]) : ~it.remove_source

\* "found physical device recently removed"
AddSameConnection(d) ==
  \E it \in FindByConnection(Connection[d]) :
      /\ it.remove_source
      /\ Replace(it, d)

\* "found compatible device recently removed"
AddCompatible(d) ==
  /\ NotRecentlyRemoved(d)
  /\ "replug-match-guid" \in flags[d]
  /\ \E it \in FindCompatible(d) : Replace(it, d)

\* Nothing in the list matches.
AddNew(d) ==
  /\ NotRecentlyRemoved(d)
  /\ FindCompatible(d) = {} \/ "replug-match-guid" \notin flags[d]
  /\ flags' = [flags EXCEPT ![d] = @ \ {"unconnected"}]
  /\ items' = items \cup {[device |-> d, device_old |-> NoDevice,
                           remove_source |-> FALSE]}
  /\ UNCHANGED <<counterparts, children, inProgress, updateState>>
  /\ signalled' = {<<"added", Id[d]>>}

\* A plugin announces device object d.
Add(d) ==
  /\ \/ \E it \in FindById(Id[d]) :
            \/ AddSame(it, d)
            \/ AddOld(it, d)
            \/ AddIgnored(it, d)
            \/ AddSameId(it, d)
     \/ /\ FindById(Id[d]) = {}
        /\ AddSameConnection(d) \/ AddCompatible(d) \/ AddNew(d)
  /\ UNCHANGED waiter
-----------------------------------------------------------------------------
(* fu_device_list_remove and the removal timer *)

\* fu_device_list_should_remove_with_delay
ShouldRemoveWithDelay(d) ==
  /\ "remove-delay" \in flags[d]
  /\ flags[d] \cap {"delayed-removal", "wait-for-replug"} # {}

\* The children of object d that leave with item it.  They are looked up in
\* the list as it is before any of them is removed.
RemovedChildren(it, d) ==
  IF "no-auto-remove-children" \in flags[it.device] THEN {}
  ELSE {c \in children[d] : FindById(Id[c]) # {}}

\* The objects that the ::removed signals carry: for a child the child object,
\* whatever the device its item has by now.
RemovedObjects(it, d) == {it.device} \cup RemovedChildren(it, d)

\* Mutant: only the children are announced.
RemoveNowQuietly(it, d) ==
  /\ items' = items \ ({it} \cup UNION {FindById(Id[c]) : c \in RemovedChildren(it, d)})
  /\ signalled' = {<<"removed", Id[c]>> : c \in RemovedChildren(it, d)}

RemoveNow(it, d) ==
  /\ items' = items \ ({it} \cup UNION {FindById(Id[c]) : c \in RemovedChildren(it, d)})
  /\ signalled' = {<<"removed", Id[c]>> : c \in RemovedObjects(it, d)}

\* A plugin says that device object d is gone.
Remove(d) ==
  /\ \E it \in FindById(Id[d]) :
        /\ flags' = [flags EXCEPT ![it.device] = @ \cup {"unconnected"}]
        /\ IF ShouldRemoveWithDelay(it.device)
           THEN /\ SetItem(it, [it EXCEPT !.remove_source = TRUE])
                /\ signalled' = {}
           ELSE RemoveNow(it, d)
  /\ UNCHANGED <<counterparts, children, inProgress, updateState, waiter>>

\* Mutant: the timer is ignored when the device is no longer waited for.
DelayedRemoveWaiting(it) ==
  /\ it.remove_source
  /\ "wait-for-replug" \in flags[it.device]
  /\ RemoveNow(it, it.device)
  /\ UNCHANGED <<objects, waiter>>

\* fu_device_list_device_delayed_remove_cb
DelayedRemove(it) ==
  /\ it.remove_source
  /\ RemoveNow(it, it.device)
  /\ UNCHANGED <<objects, waiter>>

\* fu_device_list_remove_all, when the engine is disposed of: no install is
\* left that waits, and the list is not used again.
RemoveAll ==
  /\ waiter # "waiting"
  /\ items' = {}
  /\ signalled' = {}
  /\ waiter' = "disposed"
  /\ UNCHANGED objects
-----------------------------------------------------------------------------
(* fu_device_list_wait_for_replug *)

\* The plugin of a connected device expects it to replug; a device without a
\* remove delay is given one (fu_device_add_flag).
ExpectReplug(d) ==
  /\ \E it \in items : it.device = d /\ ~it.remove_source
  /\ flags' = [flags EXCEPT ![d] = @ \cup {"wait-for-replug", "remove-delay"}]
  /\ signalled' = {}
  /\ UNCHANGED <<items, counterparts, children, inProgress, updateState, waiter>>

WaitStart ==
  /\ waiter # "waiting"
  /\ waiter' = IF WaitForReplug = {} THEN "success" ELSE "waiting"
  /\ signalled' = {}
  /\ UNCHANGED <<items, objects>>

\* An iteration of the loop finds that nothing is waiting any more.
WaitDone ==
  /\ waiter = "waiting"
  /\ WaitForReplug = {}
  /\ waiter' = "success"
  /\ signalled' = {}
  /\ UNCHANGED <<items, objects>>

\* Mutant: the time only counts once every device has been unplugged.
WaitTimeoutUnplugged ==
  /\ waiter = "waiting"
  /\ WaitForReplug # {}
  /\ \A d \in WaitForReplug : "unconnected" \in flags[d]
  /\ waiter' = "failed"
  /\ flags' = [d \in Device |-> flags[d] \ {"wait-for-replug"}]
  /\ signalled' = {}
  /\ UNCHANGED <<items, counterparts, children, inProgress, updateState>>

\* The time is up: "device did not come back".
WaitTimeout ==
  /\ waiter = "waiting"
  /\ WaitForReplug # {}
  /\ waiter' = "failed"
  /\ flags' = [d \in Device |-> IF d \in WaitForReplug
                                THEN flags[d] \ {"wait-for-replug"}
                                ELSE flags[d]]
  /\ signalled' = {}
  /\ UNCHANGED <<items, counterparts, children, inProgress, updateState>>
-----------------------------------------------------------------------------
Operation ==
  \/ \E d \in Device : Add(d) \/ Remove(d) \/ ExpectReplug(d)
  \/ \E it \in items : DelayedRemove(it)
  \/ RemoveAll
  \/ WaitStart \/ WaitDone \/ WaitTimeout

Next == waiter # "disposed" /\ Operation

\* The main loop dispatches a timer that has expired, and the loop of
\* fu_device_list_wait_for_replug ends after its delay at the latest.
Fairness ==
  /\ \A d \in Device : WF_vars(\E it \in items : it.device = d /\ DelayedRemove(it))
  /\ WF_vars(WaitDone \/ WaitTimeout)

Spec == Init /\ [][Next]_vars

LiveSpec == Spec /\ Fairness
-----------------------------------------------------------------------------
(* Properties *)

\* An item has an active device, perhaps an old one, and a timer; objects have
\* the flags the list knows of and one update state.
TypeOK ==
  /\ items \in SUBSET Item
  /\ flags \in [Device -> SUBSET Flag]
  /\ counterparts \in [Device -> SUBSET Guid]
  /\ children \in [Device -> SUBSET Device]
  /\ inProgress \in SUBSET Device
  /\ updateState \in [Device -> UpdateState]
  /\ waiter \in {"idle", "waiting", "success", "failed", "disposed"}
  /\ signalled \in SUBSET ({"added", "removed", "changed"} \X DeviceId)

\* However objects are added, replugged, replaced and removed, no two items
\* have active devices with the same ID: a lookup by ID (fu_device_list_add,
\* fu_device_list_get_by_id) is never ambiguous.
UniqueIds ==
  \A a, b \in items : Id[a.device] = Id[b.device] => a = b

\* The removal timer of an item runs exactly while its active device is
\* unconnected: a device that came back is never removed by the timer of its
\* earlier unplug, and an unplugged one is not kept for ever.
TimerIffUnconnected ==
  \A it \in items : it.remove_source <=> "unconnected" \in flags[it.device]

PresentIds == {Id[it.device] : it \in {x \in items : ~x.remove_source}}
LingeringIds == {Id[it.device] : it \in {x \in items : x.remove_source}}

Promise == INSTANCE DevicePresence WITH
  present <- PresentIds, lingering <- LingeringIds,
  disposed <- (waiter = "disposed")

\* The list keeps the promise that its documentation makes about signals: see
\* DevicePresence.  A step that drops an item announces the ID of that very
\* item, also when the item of a child went with its parent.
SignalPromise == Promise!Spec

\* An unplugged device either comes back or leaves the list.
UnpluggedResolved ==
  \A i \in DeviceId :
      (i \in LingeringIds) ~> (i \notin LingeringIds)

\* fu_device_list_wait_for_replug returns.
WaitReturns == (waiter = "waiting") ~> (waiter # "waiting")
=============================================================================
