------------------------- MODULE EnginePolicyProofs -------------------------
(***************************************************************************)
(* Proofs about EnginePolicy: for every number of devices, conditions,     *)
(* clients and nested updates.                                             *)
(***************************************************************************)
EXTENDS EnginePolicy, DeviceListProofs, FiniteSetTheorems

USE DEF Item, objects
-----------------------------------------------------------------------------
(* System inhibits *)

\* The inductive invariant: the limits are about a finite set of inhibits.
InhibitInv == IsFiniteSet(system_inhibits) /\ SystemInhibited

\* The limits hold for fewer inhibits when they hold for more.
LEMMA FewerInhibits ==
  ASSUME InhibitInv, system_inhibits' \subseteq system_inhibits
  PROVE  /\ IsFiniteSet(system_inhibits')
         /\ Cardinality(system_inhibits') <= MaxTotal
         /\ \A s \in Sender : Cardinality(HeldBy(s)') <= MaxPerSender
<1>0. MaxTotal \in Nat /\ MaxPerSender \in Nat
  BY PolicyAssumption
<1>1. ASSUME NEW S, NEW T, IsFiniteSet(T), S \subseteq T,
             NEW n \in Nat, Cardinality(T) <= n
      PROVE  IsFiniteSet(S) /\ Cardinality(S) <= n
  <2>1. IsFiniteSet(S) /\ Cardinality(S) <= Cardinality(T)
    BY <1>1, FS_Subset
  <2>2. Cardinality(S) \in Nat /\ Cardinality(T) \in Nat
    BY <1>1, <2>1, FS_CardinalityType
  <2> QED
    BY <1>1, <2>1, <2>2
<1>2. IsFiniteSet(system_inhibits') /\ Cardinality(system_inhibits') <= MaxTotal
  BY <1>0, <1>1 DEF InhibitInv, SystemInhibited
<1>3. ASSUME NEW s \in Sender PROVE Cardinality(HeldBy(s)') <= MaxPerSender
  <2>1. HeldBy(s)' \subseteq HeldBy(s) /\ HeldBy(s) \subseteq system_inhibits
    BY DEF HeldBy
  <2>2. IsFiniteSet(HeldBy(s))
    BY <2>1, FS_Subset DEF InhibitInv
  <2> QED
    BY <1>0, <1>1, <2>1, <2>2 DEF InhibitInv, SystemInhibited
<1> QED
  BY <1>2, <1>3

\* fu_dbus_daemon_ensure_system_inhibit makes the flag what the inhibits say.
LEMMA EnsuredFlag ==
  ASSUME EnsureSystemInhibit(system_inhibits')
  PROVE  ("system-inhibit" \in conditions') <=> (system_inhibits' # {})
BY DEF EnsureSystemInhibit

\* fu_dbus_daemon_method_inhibit keeps the limits: it checks both.
LEMMA InhibitKeepsLimits ==
  ASSUME InhibitInv, NEW s \in Sender, Inhibit(s)
  PROVE  InhibitInv'
<1>0. MaxTotal \in Nat /\ MaxPerSender \in Nat
  BY PolicyAssumption
<1>1. IsFiniteSet(system_inhibits) /\ Cardinality(system_inhibits) \in Nat
  BY FS_CardinalityType DEF InhibitInv
<1>2. PICK i \in InhibitId \ {x.id : x \in system_inhibits} :
         system_inhibits' = system_inhibits \cup {[id |-> i, sender |-> s]}
  BY DEF Inhibit
<1> DEFINE new == [id |-> i, sender |-> s]
<1>3. new \notin system_inhibits
  BY <1>2
<1>4. /\ IsFiniteSet(system_inhibits')
      /\ Cardinality(system_inhibits') = Cardinality(system_inhibits) + 1
  BY <1>1, <1>2, <1>3, FS_AddElement
<1>5. Cardinality(system_inhibits') <= MaxTotal
  BY <1>0, <1>1, <1>4 DEF Inhibit, MayInhibit
<1>6. ASSUME NEW t \in Sender PROVE Cardinality(HeldBy(t)') <= MaxPerSender
  <2>1. IsFiniteSet(HeldBy(t)) /\ Cardinality(HeldBy(t)) \in Nat
    BY <1>1, FS_Subset, FS_CardinalityType DEF HeldBy
  <2>2. CASE t = s
    <3>1. HeldBy(t)' = HeldBy(t) \cup {new} /\ new \notin HeldBy(t)
      BY <1>2, <1>3, <2>2 DEF HeldBy
    <3>2. Cardinality(HeldBy(t)') = Cardinality(HeldBy(t)) + 1
      BY <2>1, <3>1, FS_AddElement
    <3> QED
      BY <1>0, <2>1, <2>2, <3>2 DEF Inhibit, MayInhibit
  <2>3. CASE t # s
    <3>1. HeldBy(t)' = HeldBy(t)
      BY <1>2, <2>3 DEF HeldBy
    <3> QED
      BY <3>1 DEF InhibitInv, SystemInhibited
  <2> QED
    BY <2>2, <2>3
<1>7. ("system-inhibit" \in conditions') <=> (system_inhibits' # {})
  BY EnsuredFlag DEF Inhibit
<1> QED
  BY <1>4, <1>5, <1>6, <1>7 DEF InhibitInv, SystemInhibited

\* The system is inhibited exactly while some client inhibits it, and the
\* limits of fu_dbus_daemon_method_inhibit are never exceeded, for any limits
\* and any clients, whatever devices and updates do meanwhile.
THEOREM SystemInhibitedCorrect == PolicySpec => []SystemInhibited
<1>1. PolicyInit => InhibitInv
  <2> SUFFICES ASSUME PolicyInit PROVE InhibitInv
    OBVIOUS
  <2>0. MaxTotal \in Nat /\ MaxPerSender \in Nat
    BY PolicyAssumption
  <2>1. system_inhibits = {} /\ conditions = {}
    BY DEF PolicyInit
  <2>2. IsFiniteSet(system_inhibits) /\ Cardinality(system_inhibits) = 0
    BY <2>1, FS_EmptySet
  <2>3. \A s \in Sender : HeldBy(s) = system_inhibits
    BY <2>1 DEF HeldBy
  <2> QED
    BY <2>0, <2>1, <2>2, <2>3 DEF InhibitInv, SystemInhibited
<1>2. InhibitInv /\ [PolicyNext]_policyVars => InhibitInv'
  <2> SUFFICES ASSUME InhibitInv, [PolicyNext]_policyVars PROVE InhibitInv'
    OBVIOUS
  <2>1. ASSUME system_inhibits' \subseteq system_inhibits,
               ("system-inhibit" \in conditions') <=> (system_inhibits' # {})
        PROVE  InhibitInv'
    BY <2>1, FewerInhibits DEF InhibitInv, SystemInhibited
  <2>2. ASSUME UNCHANGED dbus PROVE InhibitInv'
    BY <2>1, <2>2 DEF dbus, InhibitInv, SystemInhibited
  <2>3. CASE ContextChanges
    <3>1. ("system-inhibit" \in conditions') <=> ("system-inhibit" \in conditions)
      BY <2>3, PolicyAssumption DEF ContextChanges
    <3> QED
      BY <2>1, <2>3, <3>1 DEF ContextChanges, InhibitInv, SystemInhibited
  <2>4. ASSUME NEW s \in Sender, Inhibit(s) PROVE InhibitInv'
    BY <2>4, InhibitKeepsLimits
  <2>5. ASSUME NEW s \in Sender, SenderVanished(s) PROVE InhibitInv'
    BY <2>1, <2>5, EnsuredFlag DEF SenderVanished
  <2>6. ASSUME NEW x \in system_inhibits, Uninhibit(x) PROVE InhibitInv'
    BY <2>1, <2>6, EnsuredFlag DEF Uninhibit
  <2>7. ASSUME NEW d \in Device,
               DeviceAdded(d) \/ DeviceRemoved(d) \/ BeginInstall(d) \/ BeginBlob(d)
        PROVE  InhibitInv'
    BY <2>2, <2>7 DEF DeviceAdded, DeviceRemoved, BeginInstall, BeginBlob
  <2>8. ASSUME NEW it \in items, RemovalTimer(it) PROVE InhibitInv'
    BY <2>2, <2>8 DEF RemovalTimer
  <2>9. CASE EndUpdate
    BY <2>2, <2>9 DEF EndUpdate
  <2>10. CASE UNCHANGED policyVars
    BY <2>2, <2>10 DEF policyVars
  <2> QED
    BY <2>3, <2>4, <2>5, <2>6, <2>7, <2>8, <2>9, <2>10 DEF PolicyNext
<1>3. InhibitInv => SystemInhibited
  BY DEF InhibitInv
<1> QED
  BY <1>1, <1>2, <1>3, PTL DEF PolicySpec
-----------------------------------------------------------------------------
(* Types *)

\* fu_engine_context_power_changed gives problems for known conditions only.
LEMMA PowerChangedTyped ==
  ASSUME PolicyTypeOK, NEW c \in SUBSET Conditions,
         PowerChanged(c) \/ ContextNotify(c)
  PROVE  problems' \in [Device -> SUBSET Conditions]
BY PolicyAssumption DEF PolicyTypeOK, ContextNotify, PowerChanged, Ensured

LEMMA EnsureTyped ==
  ASSUME PolicyTypeOK, EnsureSystemInhibit(system_inhibits')
  PROVE  /\ conditions' \subseteq Conditions
         /\ problems' \in [Device -> SUBSET Conditions]
<1> DEFINE new == (conditions \ {"system-inhibit"}) \cup
                     IF system_inhibits' = {} THEN {} ELSE {"system-inhibit"}
<1>1. conditions' = new /\ new \in SUBSET Conditions
  BY DEF EnsureSystemInhibit, PolicyTypeOK, Conditions
<1>2. IF new = conditions THEN UNCHANGED problems ELSE ContextNotify(new)
  BY DEF EnsureSystemInhibit
<1> HIDE DEF new
<1> QED
  BY <1>1, <1>2, PowerChangedTyped DEF PolicyTypeOK

\* Every step keeps the types.
LEMMA PolicyTypeStep ==
  ASSUME PolicyTypeOK, [PolicyNext]_policyVars
  PROVE  PolicyTypeOK'
<1>0. MaxNested \in Nat
  BY PolicyAssumption
<1>1. CASE ContextChanges
  <2>1. PICK c \in SUBSET Condition :
          LET new == c \cup (conditions \cap {"system-inhibit"})
          IN  conditions' = new /\ ContextNotify(new)
    BY <1>1 DEF ContextChanges
  <2> DEFINE new == c \cup (conditions \cap {"system-inhibit"})
  <2>2. conditions' = new /\ ContextNotify(new) /\ new \in SUBSET Conditions
    BY <2>1 DEF Conditions
  <2> HIDE DEF new
  <2> QED
    BY <1>1, <2>2, PowerChangedTyped DEF ContextChanges, PolicyTypeOK
<1>2. ASSUME NEW s \in Sender, Inhibit(s) PROVE PolicyTypeOK'
  BY <1>2, EnsureTyped DEF Inhibit, PolicyTypeOK
<1>3. ASSUME NEW s \in Sender, SenderVanished(s) PROVE PolicyTypeOK'
  BY <1>3, EnsureTyped DEF SenderVanished, PolicyTypeOK
<1>4. ASSUME NEW x \in system_inhibits, Uninhibit(x) PROVE PolicyTypeOK'
  BY <1>4, EnsureTyped DEF Uninhibit, PolicyTypeOK
<1>5. ASSUME NEW d \in Device, DeviceAdded(d) PROVE PolicyTypeOK'
  BY <1>5, PolicyAssumption DEF DeviceAdded, dbus, Ensured, PolicyTypeOK
<1>6. ASSUME NEW d \in Device, DeviceRemoved(d) PROVE PolicyTypeOK'
  BY <1>6 DEF DeviceRemoved, dbus, PolicyTypeOK
<1>7. ASSUME NEW d \in Device, BeginInstall(d) PROVE PolicyTypeOK'
  BY <1>0, <1>7, DeviceAssumption DEF BeginInstall, dbus, PolicyTypeOK
<1>8. ASSUME NEW d \in Device, BeginBlob(d) PROVE PolicyTypeOK'
  BY <1>0, <1>8 DEF BeginBlob, dbus, PolicyTypeOK
<1>9. ASSUME NEW it \in items, RemovalTimer(it) PROVE PolicyTypeOK'
  BY <1>9 DEF RemovalTimer, dbus, PolicyTypeOK
<1>10. CASE EndUpdate
  <2>1. problems' \in [Device -> SUBSET Conditions]
    BY <1>10, PowerChangedTyped DEF EndUpdate, PolicyTypeOK
  <2> QED
    BY <1>0, <1>10, <2>1 DEF EndUpdate, dbus, PolicyTypeOK
<1>11. CASE UNCHANGED policyVars
  BY <1>11 DEF policyVars, dbus, PolicyTypeOK
<1> QED
  BY <1>1, <1>2, <1>3, <1>4, <1>5, <1>6, <1>7, <1>8, <1>9, <1>10, <1>11
     DEF PolicyNext
-----------------------------------------------------------------------------
(* The conditions are applied *)

\* No device lingers once it is unplugged.
NoneLingers == \A d \in Device : "remove-delay" \notin FirstFlags[d]

\* Clients update by install only, never by writing a blob.
InstallsOnly == Kinds \subseteq {"install"}

\* Then an unplugged device has left the list: no item has a timer or an old
\* device.
ListedIsConnected ==
  /\ \A d \in Device : "remove-delay" \notin flags[d]
  /\ \A it \in items : ~it.remove_source /\ it.device_old = NoDevice

\* An install has put its devices on the allow-list, which makes the end of the
\* last update apply the conditions.
AllowlistKept == updates > 0 => allowlist # {}

\* The inductive invariant.  ListInv says that the timer of an item tells
\* whether its device is connected.
AppliedInv ==
  PolicyTypeOK /\ ListInv /\ ListedIsConnected /\ AllowlistKept /\ PolicyApplied

\* An object that is added is either listed as it is, or of an ID that is not
\* in the list.
LEMMA AddedOnce ==
  ASSUME NoEquivalents, OneObjectEach, ListInv, ListedIsConnected,
         NEW d \in Device, Add(d)
  PROVE  \/ \E it \in items : AddSame(it, d)
         \/ AddNew(d) /\ FindById(Id[d]) = {}
<1>1. TypeOK /\ UniqueIds
  BY DEF ListInv
<1>2. \A it \in FindById(Id[d]) : it \in items /\ it.device = d
  <2> SUFFICES ASSUME NEW it \in FindById(Id[d])
               PROVE  it \in items /\ it.device = d
    OBVIOUS
  <2>0. it \in items
    BY <1>1, FindByIdItem
  <2>1. it.device_old = NoDevice /\ it.device \in Device
    <3>1. it.device_old = NoDevice
      BY <2>0, Zenon DEF ListedIsConnected
    <3>2. it.device \in Device
      BY <1>1, <2>0 DEF TypeOK
    <3> QED
      BY <3>1, <3>2
  <2>2. Id[d] \in Ids(it.device)
    BY <2>0, <2>1 DEF FindById, FilterById
  <2>3. Id[it.device] = Id[d]
    BY <2>1, <2>2 DEF Ids, NoEquivalents
  <2> QED
    BY <2>0, <2>1, <2>3 DEF OneObjectEach
<1>3. \A c : \A it \in FindByConnection(c) : it \in items
  BY DEF FindByConnection
<1>4. ~AddSameConnection(d)
  BY <1>3 DEF AddSameConnection, ListedIsConnected
<1>5. ~AddCompatible(d)
  BY DEF AddCompatible, FindCompatible, FindByGuidsRemoved, ListedIsConnected
<1>6. ASSUME NEW it \in FindById(Id[d]),
             AddOld(it, d) \/ AddIgnored(it, d) \/ AddSameId(it, d)
      PROVE  FALSE
  BY <1>2, <1>6 DEF AddOld, AddIgnored, AddSameId
<1> QED
  BY <1>2, <1>4, <1>5, <1>6 DEF Add

\* The connected devices are the listed ones, before and after a step.
LEMMA ActiveIsListed ==
  ASSUME ListInv, ListedIsConnected, ListInv', ListedIsConnected'
  PROVE  /\ Active = {it.device : it \in items}
         /\ Active' = {it.device : it \in items'}
<1>1. \A it \in items : "unconnected" \notin flags[it.device]
  BY Zenon DEF ListInv, TimerIffUnconnected, ListedIsConnected
<1>2. \A it \in items' : "unconnected" \notin flags'[it.device]
  BY Zenon DEF ListInv, TimerIffUnconnected, ListedIsConnected
<1> QED
  BY <1>1, <1>2 DEF Active

\* A device that is added gets its problems at once, when it was not listed.
LEMMA DeviceAddedApplied ==
  ASSUME NoEquivalents, OneObjectEach, AppliedInv, NEW d \in Device,
         DeviceAdded(d), ListInv', PolicyTypeOK'
  PROVE  AppliedInv'
<1>1. ListInv /\ ListedIsConnected /\ AllowlistKept /\ PolicyApplied /\ TypeOK
  BY DEF AppliedInv, ListInv
<1>2. UNCHANGED <<conditions, updates, allowlist>>
  BY DEF DeviceAdded, dbus
<1>3. AllowlistKept'
  BY <1>1, <1>2 DEF AllowlistKept
<1>4. ASSUME NEW it \in items, AddSame(it, d) PROVE AppliedInv'
  <2>1. it \in Item
    BY <1>1 DEF TypeOK
  <2> DEFINE new == [it EXCEPT !.remove_source = FALSE]
  <2>2. new.device = it.device /\ new.device_old = it.device_old /\ ~new.remove_source
    BY <2>1
  <2>3. items' = (items \ {it}) \cup {new}
    BY <1>4 DEF AddSame, SetItem
  <2> HIDE DEF new
  <2>4. \A e \in Device : "remove-delay" \notin flags'[e]
    BY <1>1, <1>4 DEF AddSame, ClearWaitForReplug, ListedIsConnected
  <2>5. ListedIsConnected'
    BY <1>1, <2>2, <2>3, <2>4, Zenon DEF ListedIsConnected
  <2>6. Active' = Active
    <3>1. /\ Active = {x.device : x \in items}
          /\ Active' = {x.device : x \in items'}
      BY <1>1, <2>5, ActiveIsListed
    <3> QED
      BY <2>2, <2>3, <3>1
  <2>7. problems' = problems
    BY <1>4 DEF DeviceAdded, AddSame
  <2>8. PolicyApplied'
    BY <1>1, <1>2, <2>6, <2>7 DEF PolicyApplied, Ensured
  <2> QED
    BY <1>3, <2>5, <2>8 DEF AppliedInv
<1>5. CASE AddNew(d) /\ FindById(Id[d]) = {}
  <2> DEFINE new == [device |-> d, device_old |-> NoDevice, remove_source |-> FALSE]
  <2>1. items' = items \cup {new} /\ new.device = d
    BY <1>5 DEF AddNew
  <2>2. \A e \in Device : "remove-delay" \notin flags'[e]
    BY <1>1, <1>5 DEF AddNew, ListedIsConnected, TypeOK
  <2>3. ListedIsConnected'
    BY <1>1, <2>1, <2>2 DEF ListedIsConnected
  <2> HIDE DEF new
  <2>4. Active' = Active \cup {d}
    <3>1. /\ Active = {it.device : it \in items}
          /\ Active' = {it.device : it \in items'}
      BY <1>1, <2>3, ActiveIsListed
    <3> QED
      BY <2>1, <3>1
  <2>5. problems' = [problems EXCEPT ![d] = Ensured(d, conditions)]
    BY <1>5 DEF DeviceAdded, AddNew
  <2>6. problems'[d] = Ensured(d, conditions')
    <3>1. problems \in [Device -> SUBSET Conditions]
      BY DEF AppliedInv, PolicyTypeOK
    <3> QED
      BY <1>2, <2>5, <3>1 DEF Ensured
  <2>7. \A e \in Active : problems'[e] = IF e = d THEN problems'[d] ELSE problems[e]
    BY <2>5
  <2>8. PolicyApplied'
    BY <1>1, <1>2, <2>4, <2>6, <2>7 DEF PolicyApplied, Ensured
  <2> QED
    BY <1>3, <2>3, <2>8 DEF AppliedInv
<1>6. Add(d)
  BY DEF DeviceAdded
<1> QED
  BY <1>1, <1>4, <1>5, <1>6, AddedOnce
\* A removed device has left the list, nothing else changed.
LEMMA DeviceRemovedApplied ==
  ASSUME NoEquivalents, AppliedInv, NEW d \in Device, DeviceRemoved(d),
         ListInv', PolicyTypeOK'
  PROVE  AppliedInv'
<1>1. ListInv /\ ListedIsConnected /\ AllowlistKept /\ PolicyApplied
  BY DEF AppliedInv
<1>2. UNCHANGED <<conditions, problems, updates, allowlist>>
  BY DEF DeviceRemoved, dbus
<1>3. PICK it \in FindById(Id[d]) :
        /\ flags' = [flags EXCEPT ![it.device] = @ \cup {"unconnected"}]
        /\ IF ShouldRemoveWithDelay(it.device)
           THEN /\ SetItem(it, [it EXCEPT !.remove_source = TRUE])
                /\ signalled' = {}
           ELSE RemoveNow(it, d)
  BY DEF DeviceRemoved, Remove
<1>4. it \in items /\ it.device \in Device
  BY <1>1, FindByIdItem DEF ListInv, TypeOK
<1>5. ~ShouldRemoveWithDelay(it.device)
  BY <1>1, <1>4 DEF ShouldRemoveWithDelay, ListedIsConnected
<1>6. items' \subseteq items
  BY <1>3, <1>5 DEF RemoveNow
<1>7. \A e \in Device : "remove-delay" \notin flags'[e]
  BY <1>1, <1>3 DEF ListInv, TypeOK, ListedIsConnected
<1>8. ListedIsConnected'
  BY <1>1, <1>6, <1>7, Zenon DEF ListedIsConnected
<1>9. Active' \subseteq Active
  <2>1. /\ Active = {x.device : x \in items}
        /\ Active' = {x.device : x \in items'}
    BY <1>1, <1>8, ActiveIsListed
  <2> QED
    BY <1>6, <2>1
<1>10. AllowlistKept' /\ PolicyApplied'
  BY <1>1, <1>2, <1>9 DEF AllowlistKept, PolicyApplied, Ensured
<1> QED
  BY <1>8, <1>10 DEF AppliedInv

\* A step that leaves the list alone keeps the connected devices.
LEMMA ActiveKept ==
  ASSUME UNCHANGED vars
  PROVE  Active' = Active
BY DEF vars, Active

\* A change of the conditions reaches the connected devices at once, or waits
\* for the last update to end.
LEMMA NotifyApplied ==
  ASSUME AppliedInv, ListInv', PolicyTypeOK', UNCHANGED <<vars, updates, allowlist>>,
         NEW c, conditions' = c,
         ContextNotify(c) \/ (c = conditions /\ UNCHANGED problems)
  PROVE  AppliedInv'
<1>1. ListedIsConnected /\ AllowlistKept /\ PolicyApplied /\ PolicyTypeOK
  BY DEF AppliedInv
<1>2. ListedIsConnected' /\ AllowlistKept'
  BY <1>1, Zenon DEF vars, ListedIsConnected, AllowlistKept
<1>3. Active' = Active /\ Active \subseteq Device
  BY ActiveKept DEF AppliedInv, ListInv, TypeOK, Active
<1>4. PolicyApplied'
  <2>1. CASE c = conditions /\ UNCHANGED problems
    BY <1>1, <1>3, <2>1 DEF PolicyApplied, Ensured
  <2>2. CASE ContextNotify(c)
    <3>1. CASE updates = 0
      <4>1. PowerChanged(c)
        BY <2>2, <3>1 DEF ContextNotify
      <4> QED
        BY <1>3, <4>1 DEF PowerChanged, PolicyApplied, Ensured
    <3>2. CASE updates # 0
      BY <3>2 DEF PolicyApplied
    <3> QED
      BY <3>1, <3>2
  <2> QED
    BY <2>1, <2>2
<1> QED
  BY <1>2, <1>4 DEF AppliedInv

\* The end of the last update makes up for what changed while it ran.
LEMMA EndUpdateApplied ==
  ASSUME AppliedInv, EndUpdate, ListInv', PolicyTypeOK'
  PROVE  AppliedInv'
<1>1. ListedIsConnected /\ AllowlistKept /\ PolicyTypeOK
  BY DEF AppliedInv
<1>2. Active' = Active /\ Active \subseteq Device
  <2>1. UNCHANGED vars
    BY DEF EndUpdate
  <2>2. Active \subseteq Device
    BY DEF AppliedInv, ListInv, TypeOK, Active
  <2> QED
    BY <2>1, <2>2, ActiveKept
<1>3. ListedIsConnected'
  BY <1>1, Zenon DEF EndUpdate, vars, ListedIsConnected
<1>4. updates \in Nat /\ updates > 0 /\ allowlist # {}
  BY <1>1, PolicyAssumption DEF PolicyTypeOK, EndUpdate, AllowlistKept
<1>5. conditions' = conditions /\ updates' = updates - 1
  BY DEF EndUpdate, dbus
<1>6. CASE updates = 1
  <2>1. PowerChanged(conditions)
    BY <1>4, <1>6 DEF EndUpdate
  <2>2. PolicyApplied'
    BY <1>2, <1>5, <2>1 DEF PowerChanged, PolicyApplied, Ensured
  <2>3. AllowlistKept'
    BY <1>5, <1>6 DEF AllowlistKept
  <2> QED
    BY <1>3, <2>2, <2>3 DEF AppliedInv
<1>7. CASE updates # 1
  <2>1. updates' # 0 /\ allowlist' = allowlist
    BY <1>4, <1>5, <1>7 DEF EndUpdate
  <2> QED
    BY <1>3, <1>4, <2>1 DEF AppliedInv, PolicyApplied, AllowlistKept
<1> QED
  BY <1>6, <1>7
\* Every step keeps the invariant.
LEMMA AppliedStep ==
  ASSUME NoEquivalents, OneObjectEach, InstallsOnly, AppliedInv,
         [PolicyNext]_policyVars
  PROVE  AppliedInv'
<1>1. /\ ListInv /\ ListedIsConnected /\ AllowlistKept /\ PolicyApplied
      /\ PolicyTypeOK
  BY DEF AppliedInv
<1>2. PolicyTypeOK'
  BY <1>1, PolicyTypeStep
<1>3. [Operation]_vars
  BY DEF PolicyNext, policyVars, ContextChanges, Inhibit, SenderVanished,
         Uninhibit, DeviceAdded, DeviceRemoved, BeginInstall, BeginBlob,
         RemovalTimer, EndUpdate, Operation
<1>4. ListInv'
  BY <1>1, <1>3, ListStep
<1>5. CASE ContextChanges
  BY <1>2, <1>4, <1>5, NotifyApplied DEF ContextChanges
<1>6. ASSUME EnsureSystemInhibit(system_inhibits'), UNCHANGED <<vars, updates, allowlist>>
      PROVE  AppliedInv'
  BY <1>2, <1>4, <1>6, NotifyApplied DEF EnsureSystemInhibit
<1>7. ASSUME NEW s \in Sender, Inhibit(s) PROVE AppliedInv'
  BY <1>6, <1>7 DEF Inhibit
<1>8. ASSUME NEW s \in Sender, SenderVanished(s) PROVE AppliedInv'
  BY <1>6, <1>8 DEF SenderVanished
<1>9. ASSUME NEW x \in system_inhibits, Uninhibit(x) PROVE AppliedInv'
  BY <1>6, <1>9 DEF Uninhibit
<1>10. ASSUME NEW d \in Device, DeviceAdded(d) PROVE AppliedInv'
  BY <1>2, <1>4, <1>10, DeviceAddedApplied
<1>11. ASSUME NEW d \in Device, DeviceRemoved(d) PROVE AppliedInv'
  BY <1>2, <1>4, <1>11, DeviceRemovedApplied
<1>12. ASSUME NEW d \in Device, BeginInstall(d) PROVE AppliedInv'
  <2>1. ListedIsConnected'
    BY <1>1, <1>12, Zenon DEF BeginInstall, vars, ListedIsConnected
  <2>2. updates' # 0 /\ allowlist' # {}
    BY <1>1, <1>12, PolicyAssumption DEF BeginInstall, PolicyTypeOK
  <2> QED
    BY <1>2, <1>4, <2>1, <2>2 DEF AppliedInv, AllowlistKept, PolicyApplied
<1>13. ASSUME NEW d \in Device, BeginBlob(d) PROVE AppliedInv'
  BY <1>13 DEF BeginBlob, InstallsOnly
<1>14. ASSUME NEW it \in items, RemovalTimer(it) PROVE AppliedInv'
  BY <1>1, <1>14 DEF RemovalTimer, DelayedRemove, ListedIsConnected
<1>15. CASE EndUpdate
  BY <1>2, <1>4, <1>15, EndUpdateApplied
<1>16. CASE UNCHANGED policyVars
  BY <1>2, <1>4, <1>16, NotifyApplied DEF policyVars, dbus
<1> QED
  BY <1>5, <1>7, <1>8, <1>9, <1>10, <1>11, <1>12, <1>13, <1>14, <1>15, <1>16
     DEF PolicyNext

\* Objects have problems for known conditions only, each inhibit has a sender,
\* and updates are counted up to the bound: for every constant.
THEOREM PolicyTypeCorrect == PolicySpec => []PolicyTypeOK
<1>1. PolicyInit => PolicyTypeOK
  BY PolicyAssumption DEF PolicyInit, PolicyTypeOK
<1>2. PolicyTypeOK /\ [PolicyNext]_policyVars => PolicyTypeOK'
  BY PolicyTypeStep
<1> QED
  BY <1>1, <1>2, PTL DEF PolicySpec

\* When no update is in progress every connected device has exactly the
\* problems of the present conditions: for any devices that leave the list when
\* unplugged and are one object each, and any installs.
\* Conditions that change during an install are made up for at its end
\* (fu_engine_idle_inhibit_changed_cb).
THEOREM PolicyAppliedCorrect ==
  NoEquivalents /\ OneObjectEach /\ NoneLingers /\ InstallsOnly /\ PolicySpec
    => []PolicyApplied
<1> SUFFICES ASSUME NoEquivalents, OneObjectEach, NoneLingers, InstallsOnly
             PROVE  PolicySpec => []PolicyApplied
  OBVIOUS
<1>1. PolicyInit => AppliedInv
  <2> SUFFICES ASSUME PolicyInit PROVE AppliedInv
    OBVIOUS
  <2>1. Init
    BY DEF PolicyInit
  <2>2. ListInv
    BY <2>1, DeviceAssumption
       DEF Init, ListInv, TypeOK, UniqueIds, TimerIffUnconnected, UpdateState
  <2>3. ListedIsConnected
    BY <2>1 DEF Init, NoneLingers, ListedIsConnected
  <2>4. Active = {}
    BY <2>1 DEF Init, Active
  <2>5. PolicyTypeOK
    BY PolicyAssumption DEF PolicyInit, PolicyTypeOK
  <2> QED
    BY <2>2, <2>3, <2>4, <2>5
       DEF AppliedInv, PolicyInit, AllowlistKept, PolicyApplied
<1>2. AppliedInv /\ [PolicyNext]_policyVars => AppliedInv'
  BY AppliedStep
<1>3. AppliedInv => PolicyApplied
  BY DEF AppliedInv
<1> QED
  BY <1>1, <1>2, <1>3, PTL DEF PolicySpec
=============================================================================
