-------------------------- MODULE DeviceListProofs --------------------------
(***************************************************************************)
(* Proofs about DeviceList, for every set of device objects, whatever      *)
(* their IDs, connections, GUIDs, priorities, flags and children.          *)
(***************************************************************************)
EXTENDS DeviceList, TLAPS

\* No device has an equivalent ID.  With equivalent IDs a lookup by ID may be
\* ambiguous and the invariants below do not hold.
NoEquivalents == \A d \in Device : EquivalentId[d] = Id[d]

\* Every device is one object, however often it is plugged.
OneObjectEach == \A d, e \in Device : Id[d] = Id[e] => d = e

\* The inductive invariant: a timer is the business of the only item that has
\* the object as its active device, so unique IDs are part of it.
ListInv == TypeOK /\ UniqueIds /\ TimerIffUnconnected

USE DEF Item, objects

\* What fu_device_list_find_by_id returns: the item whose active device has the
\* ID when there is one, else an item whose old device has it.
LEMMA FindByIdItem ==
  ASSUME TypeOK, UniqueIds, NoEquivalents, NEW i
  PROVE  /\ FindById(i) \subseteq items
         /\ \A it \in items : Id[it.device] = i => FindById(i) = {it}
         /\ \A it \in FindById(i) :
               \/ Id[it.device] = i
               \/ \A x \in items : Id[x.device] # i
<1> DEFINE active == {it \in items : i \in Ids(it.device)}
<1>1. FilterById(i) \subseteq items
  BY DEF FilterById
<1>2. FindById(i) \subseteq items
  BY <1>1 DEF FindById
<1>3. \A it \in items : i \in Ids(it.device) <=> Id[it.device] = i
  BY DEF Ids, NoEquivalents, TypeOK
<1>4. ASSUME NEW it \in items, Id[it.device] = i
      PROVE  FindById(i) = {it}
  <2>1. FilterById(i) = {it}
    BY <1>3, <1>4 DEF FilterById, UniqueIds
  <2> QED
    BY <2>1 DEF FindById
<1>5. ASSUME NEW it \in FindById(i), NEW x \in items, Id[x.device] = i
      PROVE  Id[it.device] = i
  BY <1>4, <1>5
<1> QED
  BY <1>2, <1>4, <1>5

\* Putting object d in the place of item it keeps the IDs unique when no other
\* item has the ID of d.
LEMMA SetItemUnique ==
  ASSUME UniqueIds, NEW it \in items, NEW new, SetItem(it, new),
         \/ Id[new.device] = Id[it.device]
         \/ \A x \in items : Id[x.device] # Id[new.device]
  PROVE  UniqueIds'
BY DEF UniqueIds, SetItem

\* An object that is added is not active in another item than the one it
\* replaces.
LEMMA NotActiveElsewhere ==
  ASSUME TypeOK, UniqueIds, NoEquivalents, NEW d \in Device,
         NEW it \in items, it \in FindById(Id[d]) \/ FindById(Id[d]) = {}
  PROVE  /\ \A x \in items \ {it} : x.device # d
         /\ \/ Id[d] = Id[it.device]
            \/ \A x \in items : Id[x.device] # Id[d]
<1>1. \A x \in items : Id[x.device] = Id[d] => FindById(Id[d]) = {x}
  BY FindByIdItem
<1>2. \A x \in items : Id[x.device] = Id[d] => x = it
  BY <1>1
<1> QED
  BY <1>2

\* fu_device_list_replace keeps the invariant.
LEMMA ReplaceInv ==
  ASSUME ListInv, NoEquivalents, NEW d \in Device, NEW it \in items,
         it \in FindById(Id[d]) \/ FindById(Id[d]) = {},
         Replace(it, d), UNCHANGED waiter
  PROVE  ListInv'
<1> DEFINE new == [device |-> d, device_old |-> it.device,
                   remove_source |-> FALSE]
<1>1. TypeOK /\ UniqueIds /\ TimerIffUnconnected
  BY DEF ListInv
<1>2. it \in Item /\ it.device \in Device
  BY <1>1 DEF TypeOK
<1>3. new \in Item /\ new.device = d /\ ~new.remove_source
  BY <1>2
<1>4. SetItem(it, new)
  BY DEF Replace
<1>5. TypeOK'
  <2>1. items' \in SUBSET Item
    BY <1>1, <1>3, <1>4 DEF TypeOK, SetItem
  <2>2. flags' \in [Device -> SUBSET Flag]
    BY <1>1, <1>2 DEF TypeOK, Replace, ClearWaitForReplug, InheritedFlags, Flag
  <2>3. counterparts' \in [Device -> SUBSET Guid]
    BY <1>1, <1>2, DeviceAssumption DEF TypeOK, Replace, MissingGuids
  <2>4. children' \in [Device -> SUBSET Device]
    BY <1>1, <1>2 DEF TypeOK, Replace
  <2>5. inProgress' \in SUBSET Device
    BY <1>1, <1>2 DEF TypeOK, Replace, IncorporateProblem,
                             ProblemIncorporated, ProblemAfter
  <2>6. updateState' \in [Device -> UpdateState]
    BY <1>1, <1>2 DEF TypeOK, Replace, IncorporateState, TakesState
  <2>7. signalled' \in SUBSET ({"added", "removed", "changed"} \X DeviceId)
    BY DeviceAssumption DEF Replace
  <2> QED
    BY <1>1, <2>1, <2>2, <2>3, <2>4, <2>5, <2>6, <2>7 DEF TypeOK
<1>6. UniqueIds'
  BY <1>1, <1>3, <1>4, NotActiveElsewhere, SetItemUnique
<1>7. TimerIffUnconnected'
  <2>1. "unconnected" \notin flags'[d]
    BY DEF Replace, ClearWaitForReplug
  <2>2. ASSUME NEW x \in items \ {it}
        PROVE  x.remove_source <=> "unconnected" \in flags'[x.device]
    <3>1. x.device # d /\ x.device # it.device /\ x.device \in Device
      BY <1>1, NotActiveElsewhere DEF UniqueIds, TypeOK
    <3>2. flags'[x.device] = flags[x.device]
      BY <1>1, <3>1 DEF TypeOK, Replace, ClearWaitForReplug
    <3> QED
      BY <1>1, <3>2 DEF TimerIffUnconnected
  <2> QED
    BY <1>3, <1>4, <2>1, <2>2 DEF TimerIffUnconnected, SetItem
<1> QED
  BY <1>5, <1>6, <1>7 DEF ListInv

\* Keeping item it, with object d as its active device and with its timer set
\* to match the flags of d, keeps the two invariants, as long as no other flag
\* is touched that another item depends on.
LEMMA SetItemInv ==
  ASSUME TypeOK, UniqueIds, TimerIffUnconnected, NoEquivalents,
         NEW d \in Device, NEW it \in items, NEW new,
         it \in FindById(Id[d]) \/ d = it.device,
         SetItem(it, new), new.device = d,
         new.remove_source <=> "unconnected" \in flags'[d],
         \A x \in Device \ {d, it.device} :
             "unconnected" \in flags'[x] <=> "unconnected" \in flags[x]
  PROVE  UniqueIds' /\ TimerIffUnconnected'
<1>1. /\ \A x \in items \ {it} : x.device \notin {d, it.device}
      /\ \/ Id[d] = Id[it.device]
         \/ \A x \in items : Id[x.device] # Id[d]
  BY NotActiveElsewhere DEF UniqueIds, TypeOK
<1>2. UniqueIds'
  BY <1>1, SetItemUnique
<1>3. \A x \in items \ {it} :
         x.remove_source <=> "unconnected" \in flags'[x.device]
  BY <1>1 DEF TimerIffUnconnected, TypeOK
<1> QED
  BY <1>2, <1>3 DEF TimerIffUnconnected, SetItem

\* Every way to add an object keeps the invariant.
LEMMA AddInv ==
  ASSUME ListInv, NoEquivalents, NEW d \in Device, Add(d)
  PROVE  ListInv'
<1>1. TypeOK /\ UniqueIds /\ TimerIffUnconnected /\ UNCHANGED waiter
  BY DEF ListInv, Add
<1>2. \A i : FindById(i) \subseteq items
  BY <1>1, FindByIdItem
<1>3. ASSUME NEW it \in FindById(Id[d]), AddSame(it, d)
      PROVE  ListInv'
  <2> DEFINE new == [it EXCEPT !.remove_source = FALSE]
  <2>1. it \in items /\ it \in Item /\ it.device = d
    BY <1>1, <1>2, <1>3 DEF TypeOK, AddSame
  <2>2. new \in Item /\ new.device = d /\ ~new.remove_source
    BY <2>1
  <2>3. SetItem(it, new)
    BY <1>3 DEF AddSame
  <2>4. /\ flags' \in [Device -> SUBSET Flag]
        /\ "unconnected" \notin flags'[d]
        /\ \A x \in Device \ {d} :
              "unconnected" \in flags'[x] <=> "unconnected" \in flags[x]
    BY <1>1, <1>3 DEF TypeOK, AddSame, ClearWaitForReplug
  <2>5. UniqueIds' /\ TimerIffUnconnected'
    BY <1>1, <2>1, <2>2, <2>3, <2>4, SetItemInv
  <2>6. items' \in SUBSET Item
    BY <1>1, <2>2, <2>3 DEF TypeOK, SetItem
  <2>7. TypeOK'
    BY <1>1, <1>3, <2>4, <2>6, DeviceAssumption DEF TypeOK, AddSame
  <2> QED
    BY <2>5, <2>7 DEF ListInv
<1>4. ASSUME NEW it \in FindById(Id[d]), AddOld(it, d)
      PROVE  ListInv'
  <2> DEFINE new == [device |-> d, device_old |-> it.device,
                     remove_source |-> FALSE]
  <2>1. it \in items /\ it \in Item /\ it.device \in Device
    BY <1>1, <1>2 DEF TypeOK
  <2>2. new \in Item /\ new.device = d /\ ~new.remove_source
    BY <2>1
  <2>3. SetItem(it, new)
    BY <1>4 DEF AddOld
  <2>4. /\ flags' \in [Device -> SUBSET Flag]
        /\ "unconnected" \notin flags'[d]
        /\ \A x \in Device \ {d, it.device} :
              "unconnected" \in flags'[x] <=> "unconnected" \in flags[x]
    BY <1>1, <1>4, <2>1 DEF TypeOK, AddOld, ClearWaitForReplug
  <2>5. UniqueIds' /\ TimerIffUnconnected'
    BY <1>1, <2>1, <2>2, <2>3, <2>4, SetItemInv
  <2>6. items' \in SUBSET Item
    BY <1>1, <2>2, <2>3 DEF TypeOK, SetItem
  <2>7. /\ inProgress' \in SUBSET Device
        /\ updateState' \in [Device -> UpdateState]
    BY <1>1, <1>4, <2>1
       DEF TypeOK, AddOld, IncorporateProblem, IncorporateState, TakesState,
           ProblemIncorporated, ProblemAfter
  <2>8. signalled' \in SUBSET ({"added", "removed", "changed"} \X DeviceId)
    BY <1>4, DeviceAssumption DEF AddOld
  <2>9. TypeOK'
    BY <1>1, <1>4, <2>4, <2>6, <2>7, <2>8 DEF TypeOK, AddOld
  <2> QED
    BY <2>5, <2>9 DEF ListInv
<1>5. ASSUME NEW it \in FindById(Id[d]), AddIgnored(it, d)
      PROVE  ListInv'
  <2>1. /\ flags' \in [Device -> SUBSET Flag]
        /\ \A x \in Device :
              "unconnected" \in flags'[x] <=> "unconnected" \in flags[x]
    BY <1>1, <1>5 DEF TypeOK, AddIgnored
  <2>2. TypeOK'
    BY <1>1, <1>5, <2>1 DEF TypeOK, AddIgnored
  <2>3. UniqueIds' /\ TimerIffUnconnected'
    BY <1>1, <1>5, <2>1 DEF AddIgnored, TypeOK, UniqueIds, TimerIffUnconnected
  <2> QED
    BY <2>2, <2>3 DEF ListInv
<1>6. ASSUME NEW it \in FindById(Id[d]), AddSameId(it, d)
      PROVE  ListInv'
  BY <1>1, <1>2, <1>6, ReplaceInv DEF AddSameId
<1>7. ASSUME FindById(Id[d]) = {}, AddSameConnection(d)
      PROVE  ListInv'
  <2>1. PICK it \in FindByConnection(Connection[d]) : Replace(it, d)
    BY <1>7 DEF AddSameConnection
  <2>2. it \in items
    BY DEF FindByConnection
  <2> QED
    BY <1>1, <1>7, <2>1, <2>2, ReplaceInv
<1>8. ASSUME FindById(Id[d]) = {}, AddCompatible(d)
      PROVE  ListInv'
  <2>1. PICK it \in FindCompatible(d) : Replace(it, d)
    BY <1>8 DEF AddCompatible
  <2>2. it \in items
    BY DEF FindCompatible, FindByGuidsRemoved
  <2> QED
    BY <1>1, <1>8, <2>1, <2>2, ReplaceInv
<1>9. ASSUME FindById(Id[d]) = {}, AddNew(d)
      PROVE  ListInv'
  <2> DEFINE new == [device |-> d, device_old |-> NoDevice,
                     remove_source |-> FALSE]
  <2>1. new \in Item /\ new.device = d /\ ~new.remove_source
    OBVIOUS
  <2>2. items' = items \cup {new}
    BY <1>9 DEF AddNew
  <2>3. \A x \in items : Id[x.device] # Id[d]
    BY <1>1, <1>9, FindByIdItem
  <2>4. /\ flags' \in [Device -> SUBSET Flag]
        /\ "unconnected" \notin flags'[d]
        /\ \A x \in Device \ {d} : flags'[x] = flags[x]
    BY <1>1, <1>9 DEF TypeOK, AddNew
  <2>5. TypeOK'
    <3>1. signalled' \in SUBSET ({"added", "removed", "changed"} \X DeviceId)
      BY <1>9, DeviceAssumption DEF AddNew
    <3>2. items' \in SUBSET Item
      BY <1>1, <2>1, <2>2 DEF TypeOK
    <3> QED
      BY <1>1, <1>9, <2>4, <3>1, <3>2 DEF TypeOK, AddNew
  <2>6. UniqueIds'
    BY <1>1, <2>1, <2>2, <2>3 DEF UniqueIds
  <2>7. \A x \in items : x.device \in Device \ {d}
    BY <1>1, <2>3 DEF TypeOK
  <2>8. TimerIffUnconnected'
    BY <1>1, <2>1, <2>2, <2>4, <2>7 DEF TimerIffUnconnected
  <2> QED
    BY <2>5, <2>6, <2>8 DEF ListInv
<1> QED
  BY <1>3, <1>4, <1>5, <1>6, <1>7, <1>8, <1>9 DEF Add

\* Removing items, whatever the flags of the objects that are no longer active
\* in the list, keeps the two invariants.
LEMMA DropItems ==
  ASSUME TypeOK, UniqueIds, TimerIffUnconnected, NEW d, items' \subseteq items,
         \A it \in items' : it.device # d,
         \A x \in Device \ {d} : flags'[x] = flags[x]
  PROVE  UniqueIds' /\ TimerIffUnconnected'
BY DEF UniqueIds, TimerIffUnconnected, TypeOK

\* The signals of a removal are well formed.
LEMMA RemoveNowType ==
  ASSUME TypeOK, NEW it \in items, NEW d \in Device, RemoveNow(it, d)
  PROVE  /\ items' \in SUBSET Item
         /\ items' \subseteq items \ {it}
         /\ signalled' \in SUBSET ({"added", "removed", "changed"} \X DeviceId)
<1>1. it.device \in Device /\ children[d] \subseteq Device
  BY DEF TypeOK
<1>2. \A c \in Device : Id[c] \in DeviceId
  BY DeviceAssumption
<1>3. items' \subseteq items \ {it} /\ items' \in SUBSET Item
  BY DEF RemoveNow, TypeOK
<1>4. RemovedObjects(it, d) \subseteq Device
  BY <1>1 DEF RemovedObjects, RemovedChildren
<1>5. {<<"removed", Id[c]>> : c \in RemovedObjects(it, d)}
        \in SUBSET ({"added", "removed", "changed"} \X DeviceId)
  BY <1>2, <1>4
<1> QED
  BY <1>3, <1>5 DEF RemoveNow

\* The plugin's removal of an object keeps the invariant, at once or delayed.
LEMMA RemoveInv ==
  ASSUME ListInv, NoEquivalents, NEW d \in Device, Remove(d)
  PROVE  ListInv'
<1>1. TypeOK /\ UniqueIds /\ TimerIffUnconnected
  BY DEF ListInv
<1>2. PICK it \in FindById(Id[d]) :
        /\ flags' = [flags EXCEPT ![it.device] = @ \cup {"unconnected"}]
        /\ IF ShouldRemoveWithDelay(it.device)
           THEN /\ SetItem(it, [it EXCEPT !.remove_source = TRUE])
                /\ signalled' = {}
           ELSE RemoveNow(it, d)
  BY DEF Remove
<1>3. it \in items /\ it \in Item /\ it.device \in Device
  BY <1>1, FindByIdItem DEF TypeOK
<1>4. /\ flags' \in [Device -> SUBSET Flag]
      /\ "unconnected" \in flags'[it.device]
      /\ \A x \in Device \ {it.device} : flags'[x] = flags[x]
  BY <1>1, <1>2, <1>3 DEF TypeOK, Flag
<1>5. CASE ShouldRemoveWithDelay(it.device)
  <2> DEFINE new == [it EXCEPT !.remove_source = TRUE]
  <2>1. SetItem(it, new) /\ signalled' = {}
    BY <1>2, <1>5
  <2>2. new \in Item /\ new.device = it.device /\ new.remove_source
    BY <1>3
  <2>3. UniqueIds' /\ TimerIffUnconnected'
    BY <1>1, <1>3, <1>4, <2>1, <2>2, SetItemInv
  <2>4. items' \in SUBSET Item
    BY <1>1, <2>1, <2>2 DEF TypeOK, SetItem
  <2>5. TypeOK'
    BY <1>1, <1>4, <2>1, <2>4 DEF TypeOK, Remove
  <2> QED
    BY <2>3, <2>5 DEF ListInv
<1>6. CASE ~ShouldRemoveWithDelay(it.device)
  <2>1. RemoveNow(it, d)
    BY <1>2, <1>6
  <2>2. /\ items' \in SUBSET Item
        /\ items' \subseteq items \ {it}
        /\ signalled' \in SUBSET ({"added", "removed", "changed"} \X DeviceId)
    BY <1>1, <1>3, <2>1, RemoveNowType
  <2>3. \A x \in items' : x.device # it.device
    BY <1>1, <1>3, <2>2 DEF UniqueIds
  <2>4. UniqueIds' /\ TimerIffUnconnected'
    BY <1>1, <1>4, <2>2, <2>3, DropItems
  <2>5. TypeOK'
    BY <1>1, <1>4, <2>2 DEF TypeOK, Remove
  <2> QED
    BY <2>4, <2>5 DEF ListInv
<1> QED
  BY <1>5, <1>6

\* Every step of the list keeps the invariant, whatever else happens with it.
LEMMA ListStep ==
  ASSUME ListInv, NoEquivalents, [Operation]_vars
  PROVE  ListInv'
<1>1. TypeOK /\ UniqueIds /\ TimerIffUnconnected
  BY DEF ListInv
<1>2. ASSUME NEW d \in Device, Add(d) PROVE ListInv'
  BY <1>2, AddInv
<1>3. ASSUME NEW d \in Device, Remove(d) PROVE ListInv'
  BY <1>3, RemoveInv
<1>4. ASSUME NEW d \in Device, ExpectReplug(d) PROVE ListInv'
  <2>1. /\ flags' \in [Device -> SUBSET Flag]
        /\ \A x \in Device :
              "unconnected" \in flags'[x] <=> "unconnected" \in flags[x]
    BY <1>1, <1>4 DEF TypeOK, ExpectReplug, Flag
  <2>2. TypeOK'
    BY <1>1, <1>4, <2>1 DEF TypeOK, ExpectReplug
  <2>3. UniqueIds' /\ TimerIffUnconnected'
    BY <1>1, <1>4, <2>1
       DEF TypeOK, ExpectReplug, UniqueIds, TimerIffUnconnected
  <2> QED
    BY <2>2, <2>3 DEF ListInv
<1>5. ASSUME NEW it \in items, DelayedRemove(it) PROVE ListInv'
  <2>1. it.device \in Device
    BY <1>1 DEF TypeOK
  <2>2. /\ items' \in SUBSET Item
        /\ items' \subseteq items \ {it}
        /\ signalled' \in SUBSET ({"added", "removed", "changed"} \X DeviceId)
    BY <1>1, <1>5, <2>1, RemoveNowType DEF DelayedRemove
  <2>3. UniqueIds' /\ TimerIffUnconnected'
    BY <1>1, <1>5, <2>2 DEF DelayedRemove, UniqueIds, TimerIffUnconnected
  <2>4. TypeOK'
    BY <1>1, <1>5, <2>2 DEF TypeOK, DelayedRemove
  <2> QED
    BY <2>3, <2>4 DEF ListInv
<1>6. CASE RemoveAll
  BY <1>1, <1>6 DEF RemoveAll, ListInv, TypeOK, UniqueIds, TimerIffUnconnected
<1>7. CASE WaitStart \/ WaitDone
  BY <1>1, <1>7 DEF WaitStart, WaitDone, ListInv, TypeOK, UniqueIds,
                    TimerIffUnconnected
<1>8. CASE WaitTimeout
  <2>1. /\ flags' \in [Device -> SUBSET Flag]
        /\ \A x \in Device :
              "unconnected" \in flags'[x] <=> "unconnected" \in flags[x]
    BY <1>1, <1>8 DEF TypeOK, WaitTimeout
  <2>2. TypeOK'
    BY <1>1, <1>8, <2>1 DEF TypeOK, WaitTimeout
  <2>3. UniqueIds' /\ TimerIffUnconnected'
    BY <1>1, <1>8, <2>1
       DEF TypeOK, WaitTimeout, UniqueIds, TimerIffUnconnected
  <2> QED
    BY <2>2, <2>3 DEF ListInv
<1>9. CASE UNCHANGED vars
  BY <1>1, <1>9 DEF vars, ListInv, TypeOK, UniqueIds, TimerIffUnconnected
<1> QED
  BY <1>2, <1>3, <1>4, <1>5, <1>6, <1>7, <1>8, <1>9 DEF Operation

\* The invariant holds in every reachable state.
LEMMA ListInvariant == NoEquivalents /\ Spec => []ListInv
<1> SUFFICES ASSUME NoEquivalents PROVE Spec => []ListInv
  OBVIOUS
<1>1. Init => ListInv
  BY DeviceAssumption
     DEF Init, ListInv, TypeOK, UniqueIds, TimerIffUnconnected, UpdateState
<1>2. ListInv /\ [Next]_vars => ListInv'
  BY ListStep DEF Next
<1> QED
  BY <1>1, <1>2, PTL DEF Spec

\* The list is well typed whatever plugins add and remove.
THEOREM TypeCorrect == NoEquivalents /\ Spec => []TypeOK
BY ListInvariant, PTL DEF ListInv

\* The list never holds two active devices with the same ID, so the lookups of
\* fu_device_list_add and fu_device_list_remove are never ambiguous.
THEOREM UniqueIdsCorrect == NoEquivalents /\ Spec => []UniqueIds
BY ListInvariant, PTL DEF ListInv

\* fu_device_list_device_delayed_remove_cb never runs for a device that came
\* back, and no unconnected device is without its timer.
THEOREM TimerCorrect == NoEquivalents /\ Spec => []TimerIffUnconnected
BY ListInvariant, PTL DEF ListInv

-----------------------------------------------------------------------------
(* The list implements DevicePresence.                                      *)

\* No item of a child has been taken over by an object with another ID, at its
\* port or by GUID.  When it has, fu_device_list_remove() and the removal timer
\* of the parent drop the item and announce the ID that it no longer has.
NoChildTakenOver ==
  \A it \in items :
      it.device_old # NoDevice /\ Id[it.device_old] # Id[it.device]
        => \A d \in Device : \A c \in children[d] : Id[c] # Id[it.device_old]

\* The IDs that users of the signals see, before and after a step, in terms of
\* the items.
LEMMA PresenceOfItems ==
  ASSUME NEW i
  PROVE  /\ i \in PresentIds <=> \E x \in items : ~x.remove_source /\ Id[x.device] = i
         /\ i \in LingeringIds <=> \E x \in items : x.remove_source /\ Id[x.device] = i
         /\ i \in Promise!Held <=> \E x \in items : Id[x.device] = i
BY DEF PresentIds, LingeringIds, Promise!Held

\* An item is put in the place of another one and its device is connected: for
\* the users it is the same device that was confirmed, or another device that
\* took over.
LEMMA SetItemPresence ==
  ASSUME TypeOK, UniqueIds, NEW it \in items, NEW new, SetItem(it, new),
         ~new.remove_source, new.device \in Device,
         signalled' = {<<"changed", Id[new.device]>>},
         \/ Id[new.device] = Id[it.device]
         \/ \A x \in items : Id[x.device] # Id[new.device]
  PROVE  Promise!Step
<1> DEFINE i == Id[it.device]
           j == Id[new.device]
<1>1. i \in DeviceId /\ j \in DeviceId
  BY DeviceAssumption DEF TypeOK
<1>2. i \in Promise!Held
  BY PresenceOfItems
<1>3. PresentIds' = (PresentIds \ {i}) \cup {j}
  <2>1. PresentIds' = {Id[x.device] : x \in {y \in (items \ {it}) \cup {new} : ~y.remove_source}}
    BY DEF PresentIds, SetItem
  <2>2. PresentIds = {Id[x.device] : x \in {y \in items : ~y.remove_source}}
    BY DEF PresentIds
  <2> QED
    BY <2>1, <2>2 DEF UniqueIds
<1>4. LingeringIds' = LingeringIds \ {i}
  <2>1. LingeringIds' = {Id[x.device] : x \in {y \in (items \ {it}) \cup {new} : y.remove_source}}
    BY DEF LingeringIds, SetItem
  <2>2. LingeringIds = {Id[x.device] : x \in {y \in items : y.remove_source}}
    BY DEF LingeringIds
  <2> QED
    BY <2>1, <2>2 DEF UniqueIds
<1>5. CASE j = i
  <2>1. PresentIds' = PresentIds \cup {i}
    BY <1>3, <1>5
  <2>2. Promise!Confirm(i)
    BY <1>2, <1>4, <1>5, <2>1 DEF Promise!Confirm
  <2> QED
    BY <1>1, <2>2 DEF Promise!Step
<1>6. CASE \A x \in items : Id[x.device] # j
  <2>1. j \notin Promise!Held
    BY <1>6, PresenceOfItems
  <2>2. Promise!TakeOver(i, j)
    BY <1>2, <1>3, <1>4, <2>1 DEF Promise!TakeOver
  <2> QED
    BY <1>1, <2>2 DEF Promise!Step
<1> QED
  BY <1>5, <1>6

\* fu_device_list_replace is a confirmation or a take-over.
LEMMA ReplacePresence ==
  ASSUME TypeOK, UniqueIds, NoEquivalents, NEW d \in Device, NEW it \in items,
         it \in FindById(Id[d]) \/ FindById(Id[d]) = {}, Replace(it, d)
  PROVE  Promise!Step
<1> DEFINE new == [device |-> d, device_old |-> it.device, remove_source |-> FALSE]
<1>1. /\ SetItem(it, new) /\ ~new.remove_source /\ new.device = d
      /\ signalled' = {<<"changed", Id[d]>>}
  BY DEF Replace
<1>2. \/ Id[d] = Id[it.device]
      \/ \A x \in items : Id[x.device] # Id[d]
  BY NotActiveElsewhere
<1> HIDE DEF new
<1> QED
  BY <1>1, <1>2, SetItemPresence

\* A step that leaves the items alone and signals nothing is not seen.
LEMMA QuietPresence ==
  ASSUME items' = items, signalled' = {}
  PROVE  Promise!Step
<1>1. PresentIds' = PresentIds /\ LingeringIds' = LingeringIds
  BY DEF PresentIds, LingeringIds
<1> QED
  BY <1>1 DEF Promise!Quiet, Promise!Step

\* Every way to add an object is a step of the abstract specification: only an
\* ID that the list does not hold is announced as added.
LEMMA AddPresence ==
  ASSUME TypeOK, UniqueIds, NoEquivalents, NEW d \in Device, Add(d)
  PROVE  Promise!Step
<1>1. \A i : FindById(i) \subseteq items
  BY FindByIdItem
<1>2. ASSUME NEW it \in FindById(Id[d]), AddSame(it, d)
      PROVE  Promise!Step
  <2> DEFINE new == [it EXCEPT !.remove_source = FALSE]
  <2>1. it \in items /\ it \in Item /\ it.device = d
    BY <1>1, <1>2 DEF TypeOK, AddSame
  <2>2. new.device = d /\ ~new.remove_source
    BY <2>1
  <2>3. SetItem(it, new) /\ signalled' = {<<"changed", Id[d]>>}
    BY <1>2 DEF AddSame
  <2> HIDE DEF new
  <2> QED
    BY <2>1, <2>2, <2>3, SetItemPresence
<1>3. ASSUME NEW it \in FindById(Id[d]), AddOld(it, d)
      PROVE  Promise!Step
  <2> DEFINE new == [device |-> d, device_old |-> it.device, remove_source |-> FALSE]
  <2>1. /\ SetItem(it, new) /\ ~new.remove_source /\ new.device = d
        /\ signalled' = {<<"changed", Id[d]>>}
    BY <1>3 DEF AddOld
  <2>2. it \in items
    BY <1>1
  <2>3. \/ Id[d] = Id[it.device]
        \/ \A x \in items : Id[x.device] # Id[d]
    BY <2>2, NotActiveElsewhere
  <2> HIDE DEF new
  <2> QED
    BY <2>1, <2>2, <2>3, SetItemPresence
<1>4. ASSUME NEW it \in FindById(Id[d]), AddIgnored(it, d)
      PROVE  Promise!Step
  BY <1>4, QuietPresence DEF AddIgnored
<1>5. ASSUME NEW it \in FindById(Id[d]), AddSameId(it, d)
      PROVE  Promise!Step
  BY <1>1, <1>5, ReplacePresence DEF AddSameId
<1>6. ASSUME FindById(Id[d]) = {}, AddSameConnection(d)
      PROVE  Promise!Step
  <2>1. PICK it \in FindByConnection(Connection[d]) : Replace(it, d)
    BY <1>6 DEF AddSameConnection
  <2>2. it \in items
    BY DEF FindByConnection
  <2> QED
    BY <1>6, <2>1, <2>2, ReplacePresence
<1>7. ASSUME FindById(Id[d]) = {}, AddCompatible(d)
      PROVE  Promise!Step
  <2>1. PICK it \in FindCompatible(d) : Replace(it, d)
    BY <1>7 DEF AddCompatible
  <2>2. it \in items
    BY DEF FindCompatible, FindByGuidsRemoved
  <2> QED
    BY <1>7, <2>1, <2>2, ReplacePresence
<1>8. ASSUME FindById(Id[d]) = {}, AddNew(d)
      PROVE  Promise!Step
  <2> DEFINE new == [device |-> d, device_old |-> NoDevice, remove_source |-> FALSE]
  <2>1. items' = items \cup {new} /\ new.device = d /\ ~new.remove_source
    BY <1>8 DEF AddNew
  <2>2. \A x \in items : Id[x.device] # Id[d]
    BY <1>8, FindByIdItem
  <2>3. Id[d] \notin Promise!Held
    BY <2>2, PresenceOfItems
  <2> HIDE DEF new
  <2>4. PresentIds' = PresentIds \cup {Id[d]} /\ LingeringIds' = LingeringIds
    BY <2>1 DEF PresentIds, LingeringIds
  <2>5. Promise!Arrive(Id[d])
    BY <1>8, <2>3, <2>4 DEF AddNew, Promise!Arrive
  <2> QED
    BY <2>5, DeviceAssumption DEF Promise!Step
<1> QED
  BY <1>2, <1>3, <1>4, <1>5, <1>6, <1>7, <1>8 DEF Add

\* The items that leave with a parent have the IDs of the child objects that
\* the signals carry.
LEMMA RemovedItemsIds ==
  ASSUME TypeOK, UniqueIds, NoEquivalents, NoChildTakenOver, NEW it \in items,
         NEW d \in Device, NEW c \in RemovedChildren(it, d)
  PROVE  /\ c \in Device
         /\ \E x \in items : FindById(Id[c]) = {x} /\ Id[x.device] = Id[c]
<1>1. c \in children[d] /\ c \in Device /\ FindById(Id[c]) # {}
  BY DEF RemovedChildren, TypeOK
<1>2. PICK x \in FindById(Id[c]) : TRUE
  BY <1>1
<1>3. x \in items /\ x \in FilterById(Id[c])
  BY FindByIdItem DEF FindById
<1>4. Id[x.device] = Id[c]
  <2>1. \/ Id[c] \in Ids(x.device)
        \/ x.device_old # NoDevice /\ Id[c] \in Ids(x.device_old)
    BY <1>3 DEF FilterById
  <2>2. CASE Id[c] \in Ids(x.device)
    BY <1>3, <2>2 DEF Ids, NoEquivalents, TypeOK
  <2>3. CASE x.device_old # NoDevice /\ Id[c] \in Ids(x.device_old)
    <3>1. x.device_old \in Device
      BY <1>3, <2>3 DEF TypeOK
    <3>2. Id[x.device_old] = Id[c]
      BY <2>3, <3>1 DEF Ids, NoEquivalents
    <3> QED
      BY <1>1, <1>3, <2>3, <3>2 DEF NoChildTakenOver
  <2> QED
    BY <2>1, <2>2, <2>3
<1>5. FindById(Id[c]) = {x}
  BY <1>3, <1>4, FindByIdItem
<1> QED
  BY <1>1, <1>3, <1>4, <1>5

\* An item leaves, and the items of its children with it, each announced with
\* its own ID.
LEMMA RemoveNowPresence ==
  ASSUME TypeOK, UniqueIds, NoEquivalents, NoChildTakenOver, NEW it \in items,
         NEW d \in Device, RemoveNow(it, d)
  PROVE  Promise!Step
<1> DEFINE gone == {it} \cup UNION {FindById(Id[c]) : c \in RemovedChildren(it, d)}
           ids == {Id[c] : c \in RemovedObjects(it, d)}
<1>1. \A c \in RemovedChildren(it, d) :
         \E x \in items : FindById(Id[c]) = {x} /\ Id[x.device] = Id[c]
  BY RemovedItemsIds
<1>2. gone \subseteq items
  BY FindByIdItem
<1>3. \A x \in gone : Id[x.device] \in ids
  BY <1>1 DEF RemovedObjects
<1>4. \A i \in ids : \E x \in gone : Id[x.device] = i
  BY <1>1 DEF RemovedObjects
<1>5. items' = items \ gone /\ signalled' = {<<"removed", i>> : i \in ids}
  BY DEF RemoveNow
<1>6. ids # {}
  BY DEF RemovedObjects
<1> HIDE DEF gone, ids
<1>7. /\ \A i \in ids : i \in DeviceId
      /\ \A i \in ids : i \in Promise!Held
  <2>1. \A x \in items : Id[x.device] \in DeviceId /\ Id[x.device] \in Promise!Held
    BY DeviceAssumption, PresenceOfItems DEF TypeOK
  <2> QED
    BY <1>2, <1>4, <2>1
<1>8. \A x \in items : x \in gone <=> Id[x.device] \in ids
  BY <1>2, <1>3, <1>4 DEF UniqueIds
<1>9. PresentIds' = PresentIds \ ids
  BY <1>5, <1>8 DEF PresentIds
<1>10. LingeringIds' = LingeringIds \ ids
  BY <1>5, <1>8 DEF LingeringIds
<1>11. Promise!Leave(ids)
  BY <1>5, <1>6, <1>7, <1>9, <1>10 DEF Promise!Leave
<1>12. ids \in SUBSET DeviceId
  BY <1>7
<1> QED
  BY <1>11, <1>12 DEF Promise!Step

\* A plugin's removal of an object: the device lingers or leaves.
LEMMA RemovePresence ==
  ASSUME TypeOK, UniqueIds, NoEquivalents, NoChildTakenOver, NEW d \in Device,
         Remove(d)
  PROVE  Promise!Step
<1>1. PICK it \in FindById(Id[d]) :
        /\ flags' = [flags EXCEPT ![it.device] = @ \cup {"unconnected"}]
        /\ IF ShouldRemoveWithDelay(it.device)
           THEN /\ SetItem(it, [it EXCEPT !.remove_source = TRUE])
                /\ signalled' = {}
           ELSE RemoveNow(it, d)
  BY DEF Remove
<1>2. it \in items /\ it \in Item
  BY FindByIdItem DEF TypeOK
<1>3. CASE ShouldRemoveWithDelay(it.device)
  <2> DEFINE new == [it EXCEPT !.remove_source = TRUE]
             i == Id[it.device]
  <2>1. SetItem(it, new) /\ signalled' = {} /\ new.device = it.device /\ new.remove_source
    BY <1>1, <1>2, <1>3
  <2> HIDE DEF new
  <2>2. PresentIds' = PresentIds \ {i}
    BY <1>2, <2>1, SMTT(30) DEF PresentIds, UniqueIds, SetItem
  <2>3. LingeringIds' = LingeringIds \cup {i}
    BY <1>2, <2>1 DEF LingeringIds, UniqueIds, SetItem
  <2>4. i \in DeviceId /\ i \in Promise!Held
    BY <1>2, DeviceAssumption, PresenceOfItems
  <2>5. Promise!Linger(i)
    BY <2>1, <2>2, <2>3, <2>4 DEF Promise!Linger
  <2> QED
    BY <2>4, <2>5 DEF Promise!Step
<1>4. CASE ~ShouldRemoveWithDelay(it.device)
  BY <1>1, <1>2, <1>4, RemoveNowPresence
<1> QED
  BY <1>3, <1>4

\* The list keeps the promise of DevicePresence to those who listen to its
\* signals, as long as no child is taken over by an object with another ID:
\* every step of fu-device-list.c is a step or a stutter of it.  In particular
\* each item that is dropped is announced with its own ID.
THEOREM SignalPromiseCorrect ==
  NoEquivalents /\ Spec /\ []NoChildTakenOver => SignalPromise
<1> SUFFICES ASSUME NoEquivalents
             PROVE  Spec /\ []NoChildTakenOver => SignalPromise
  OBVIOUS
<1>1. Init => Promise!Init
  BY DEF Init, Promise!Init, PresentIds, LingeringIds
<1>2. ASSUME ListInv, NoChildTakenOver, [Next]_vars
      PROVE  [Promise!Next]_(Promise!pvars)
  <2>1. TypeOK /\ UniqueIds
    BY <1>2 DEF ListInv
  <2>2. ASSUME NEW d \in Device, Add(d) \/ Remove(d)
        PROVE  Promise!Step /\ UNCHANGED waiter
    <3>1. Promise!Step
      BY <1>2, <2>1, <2>2, AddPresence, RemovePresence
    <3> QED
      BY <2>2, <3>1 DEF Add, Remove
  <2>3. ASSUME NEW d \in Device, ExpectReplug(d)
        PROVE  Promise!Step /\ UNCHANGED waiter
    BY <2>3, QuietPresence DEF ExpectReplug
  <2>4. ASSUME NEW it \in items, DelayedRemove(it)
        PROVE  Promise!Step /\ UNCHANGED waiter
    <3>1. it.device \in Device /\ RemoveNow(it, it.device) /\ UNCHANGED waiter
      BY <2>1, <2>4 DEF TypeOK, DelayedRemove
    <3> QED
      BY <1>2, <2>1, <3>1, RemoveNowPresence
  <2>5. ASSUME RemoveAll PROVE Promise!Clear
    BY <2>5 DEF RemoveAll, PresentIds, LingeringIds, Promise!Clear
  <2>6. ASSUME WaitStart \/ WaitDone \/ WaitTimeout
        PROVE  Promise!Step /\ waiter' # "disposed"
    BY <2>6, QuietPresence DEF WaitStart, WaitDone, WaitTimeout
  <2>7. CASE UNCHANGED vars
    BY <2>7 DEF vars, PresentIds, LingeringIds, Promise!pvars
  <2>8. CASE Next
    <3>1. waiter # "disposed" /\ Operation
      BY <2>8 DEF Next
    <3>2. \/ Promise!Step /\ (waiter = "disposed")' = (waiter = "disposed")
          \/ Promise!Clear
      BY <2>2, <2>3, <2>4, <2>5, <2>6, <3>1 DEF Operation
    <3> QED
      BY <3>1, <3>2 DEF Promise!Next
  <2> QED
    BY <1>2, <2>7, <2>8
<1>3. Spec => []ListInv
  BY ListInvariant, PTL
<1> QED
  BY <1>1, <1>2, <1>3, PTL DEF Spec, SignalPromise, Promise!Spec
=============================================================================
