---------------------------- MODULE EnginePolicy ----------------------------
(***************************************************************************)
(* The conditions under which the engine lets no device be updated, such   *)
(* as a closed lid, low power or a system-wide inhibit, and the problems   *)
(* it gives the listed devices for them (src/fu-engine.c), composed with   *)
(* the device list and the inhibits of D-Bus clients                       *)
(* (src/fu-dbus-daemon.c).                                                 *)
(*                                                                         *)
(* While an update is in progress it inhibits signals, and changes of the  *)
(* conditions are not applied to devices until the last update has ended.  *)
(* Updates nest: the hotplug callbacks and the D-Bus calls here may happen *)
(* between any two steps of an update.  Devices are not emulated and pass  *)
(* no problem on to their children.                                        *)
(***************************************************************************)
EXTENDS DeviceList, FiniteSets

CONSTANTS Condition,     \* what the context reports, e.g. "lid-is-closed"
          Sensitive,     \* the conditions that concern an object
          Sender,        \* the D-Bus clients
          InhibitId,     \* the IDs that Inhibit returns
          MaxTotal,      \* FU_DBUS_DAEMON_SYSTEM_INHIBIT_MAX_TOTAL
          MaxPerSender,  \* FU_DBUS_DAEMON_SYSTEM_INHIBIT_MAX_PER_SENDER
          Kinds,         \* the updates that clients start
          MaxNested      \* bound: how deep updates nest

Conditions == Condition \cup {"system-inhibit"}

\* The system inhibit is the one condition that only D-Bus clients change.
ASSUME PolicyAssumption ==
  /\ "system-inhibit" \notin Condition
  /\ Sensitive \in [Device -> SUBSET Conditions]
  /\ Kinds \subseteq {"install", "blob"}
  /\ {MaxTotal, MaxPerSender, MaxNested} \subseteq Nat

VARIABLES
  conditions,       \* the conditions that hold
  problems,         \* the problems of every object that are due to them
  system_inhibits,  \* self->system_inhibits: [id, sender]
  updates,          \* how many updates inhibit signals
  allowlist         \* self->device_changed_allowlist

dbus == <<conditions, system_inhibits>>
policyVars == <<vars, dbus, problems, updates, allowlist>>

PolicyInit ==
  /\ Init
  /\ conditions = {}
  /\ problems = [d \in Device |-> {}]
  /\ system_inhibits = {}
  /\ updates = 0
  /\ allowlist = {}
-----------------------------------------------------------------------------
\* fu_engine_ensure_device_power_inhibit and its siblings, under conditions c
Ensured(d, c) == Sensitive[d] \cap c

\* fu_device_list_get_active
Active == {it.device : it \in {x \in items : "unconnected" \notin flags[x.device]}}

\* fu_engine_context_power_changed, under conditions c
PowerChanged(c) ==
  problems' = [d \in Device |-> IF d \in Active THEN Ensured(d, c) ELSE problems[d]]

\* fu_engine_context_power_changed_cb: the context has changed to c.
ContextNotify(c) ==
  IF updates > 0 THEN UNCHANGED problems ELSE PowerChanged(c)

\* The lid, the power supply, the battery or the displays change.
ContextChanges ==
  /\ \E c \in SUBSET Condition :
       LET new == c \cup (conditions \cap {"system-inhibit"})
       IN  conditions' = new /\ ContextNotify(new)
  /\ UNCHANGED <<vars, system_inhibits, updates, allowlist>>
-----------------------------------------------------------------------------
(* System inhibits *)

\* fu_dbus_daemon_ensure_system_inhibit, once the inhibits are as given: the
\* context notifies of a flag that changed.
EnsureSystemInhibit(inhibits) ==
  LET new == (conditions \ {"system-inhibit"}) \cup
                IF inhibits = {} THEN {} ELSE {"system-inhibit"}
  IN  /\ conditions' = new
      /\ IF new = conditions THEN UNCHANGED problems ELSE ContextNotify(new)

HeldBy(s) == {x \in system_inhibits : x.sender = s}

\* Mutant: the limits are one too many.
MayInhibitMore(s) ==
  Cardinality(system_inhibits) <= MaxTotal /\ Cardinality(HeldBy(s)) <= MaxPerSender

\* The limits of fu_dbus_daemon_method_inhibit
MayInhibit(s) ==
  Cardinality(system_inhibits) < MaxTotal /\ Cardinality(HeldBy(s)) < MaxPerSender

\* fu_dbus_daemon_method_inhibit
Inhibit(s) ==
  /\ MayInhibit(s)
  /\ \E i \in InhibitId \ {x.id : x \in system_inhibits} :
       system_inhibits' = system_inhibits \cup {[id |-> i, sender |-> s]}
  /\ EnsureSystemInhibit(system_inhibits')
  /\ UNCHANGED <<vars, updates, allowlist>>

\* fu_dbus_daemon_method_uninhibit, by the owner
Uninhibit(x) ==
  /\ system_inhibits' = system_inhibits \ {x}
  /\ EnsureSystemInhibit(system_inhibits')
  /\ UNCHANGED <<vars, updates, allowlist>>

\* fu_dbus_daemon_inhibit_name_vanished_cb
SenderVanished(s) ==
  /\ HeldBy(s) # {}
  /\ system_inhibits' = system_inhibits \ HeldBy(s)
  /\ EnsureSystemInhibit(system_inhibits')
  /\ UNCHANGED <<vars, updates, allowlist>>
-----------------------------------------------------------------------------
(* Devices *)

\* fu_engine_add_device: fu_engine_device_added_cb applies the conditions,
\* fu_engine_device_changed_cb does not.
DeviceAdded(d) ==
  /\ Add(d)
  /\ problems' = IF \E s \in signalled' : s[1] = "added"
                 THEN [problems EXCEPT ![d] = Ensured(d, conditions)]
                 ELSE problems
  /\ UNCHANGED <<dbus, updates, allowlist>>

DeviceRemoved(d) == Remove(d) /\ UNCHANGED <<dbus, problems, updates, allowlist>>

RemovalTimer(it) == DelayedRemove(it) /\ UNCHANGED <<dbus, problems, updates, allowlist>>
-----------------------------------------------------------------------------
(* Updates *)

\* fu_engine_install_releases takes the locker and lists the devices.
BeginInstall(d) ==
  /\ "install" \in Kinds
  /\ updates < MaxNested
  /\ \E it \in items : it.device = d
  /\ updates' = updates + 1
  /\ allowlist' = allowlist \cup {Id[d]}
  /\ UNCHANGED <<vars, dbus, problems>>

\* fu_engine_write_blob_for_device_id takes the locker, for a device that may
\* be updated.
BeginBlob(d) ==
  /\ "blob" \in Kinds
  /\ updates < MaxNested
  /\ problems[d] = {}
  /\ \E it \in FindById(Id[d]) : it.device = d
  /\ updates' = updates + 1
  /\ UNCHANGED <<vars, dbus, problems, allowlist>>

\* Mutant: the conditions are left as the update found them.
EndUpdateQuietly ==
  /\ updates > 0
  /\ updates' = updates - 1
  /\ allowlist' = IF updates = 1 THEN {} ELSE allowlist
  /\ UNCHANGED <<vars, dbus, problems>>

\* The locker is freed: fu_engine_idle_inhibit_changed_cb
EndUpdate ==
  /\ updates > 0
  /\ updates' = updates - 1
  /\ IF updates = 1 /\ allowlist # {}
     THEN allowlist' = {} /\ PowerChanged(conditions)
     ELSE UNCHANGED <<allowlist, problems>>
  /\ UNCHANGED <<vars, dbus>>
-----------------------------------------------------------------------------
PolicyNext ==
  \/ ContextChanges
  \/ \E s \in Sender : Inhibit(s) \/ SenderVanished(s)
  \/ \E x \in system_inhibits : Uninhibit(x)
  \/ \E d \in Device : \/ DeviceAdded(d) \/ DeviceRemoved(d)
                       \/ BeginInstall(d) \/ BeginBlob(d)
  \/ \E it \in items : RemovalTimer(it)
  \/ EndUpdate

PolicySpec == PolicyInit /\ [][PolicyNext]_policyVars
-----------------------------------------------------------------------------
(* Properties *)

\* Objects have problems for known conditions only, each inhibit has a sender,
\* and updates count the lockers that are held.
PolicyTypeOK ==
  /\ conditions \subseteq Conditions
  /\ problems \in [Device -> SUBSET Conditions]
  /\ system_inhibits \subseteq [id : InhibitId, sender : Sender]
  /\ updates \in 0..MaxNested
  /\ allowlist \subseteq DeviceId

\* When no update is in progress, every connected device has exactly the
\* problems that the present conditions give it: what changed during an update
\* was made up for (fu_engine_idle_inhibit_changed_cb), and a device that
\* appeared meanwhile was not forgotten.
PolicyApplied ==
  updates = 0 => \A d \in Active : problems[d] = Ensured(d, conditions)

\* The system is inhibited exactly while some client inhibits it, and neither
\* one client nor all together exceed their limits, however clients come, go
\* and vanish.
SystemInhibited ==
  /\ ("system-inhibit" \in conditions) <=> (system_inhibits # {})
  /\ Cardinality(system_inhibits) <= MaxTotal
  /\ \A s \in Sender : Cardinality(HeldBy(s)) <= MaxPerSender
=============================================================================
