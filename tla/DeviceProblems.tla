--------------------------- MODULE DeviceProblems ---------------------------
(****************************************************************************)
(* Why a device cannot be updated: the inhibits and problems of a FuDevice  *)
(* (fu-device.c), the flags that set and clear them, the propagation from a *)
(* device with inhibit-children to its children, and the engine's policy,   *)
(* which adds and removes problems of the listed devices one after another  *)
(* (fu-engine.c).                                                           *)
(*                                                                          *)
(* One device, Hub, has inhibit-children; the others are its children.  The *)
(* plugin adds the hub to the daemon before its children, as fu_plugin_add_ *)
(* device() does.  An inhibit is its ID: a problem is the inhibit of that   *)
(* name, and the problems and the update-error that clients see are         *)
(* computed from the inhibits whenever these change.  Updates do not run,   *)
(* and no device is emulated.                                               *)
(*                                                                          *)
(* The policy is applied to one device and one condition in each step.  The *)
(* engine does nothing else until it has been through all of them, so that  *)
(* every other action waits for the end of the walk.  The hub is listed     *)
(* before its children, and is done with before them; the order of the      *)
(* children and of the conditions is left open.                             *)
(****************************************************************************)

CONSTANTS
  Hub,        \* the device with inhibit-children
  Kid,        \* its children
  PluginId,   \* inhibits that plugins and the battery level set
  FlagId,     \* flags that are an inhibit too: "unreachable", "needs-activation"
  Condition,  \* the conditions that the engine looks at, named for their problems
  Sensitive   \* the conditions that a device is sensitive to

Member == Kid \cup {Hub}
AnyId == PluginId \cup Condition \cup FlagId \cup {"unreachable"}

\* Only the engine sets the problems of the conditions.
ASSUME FamilyAssumption ==
  /\ Hub \notin Kid
  /\ Sensitive \in [Member -> SUBSET Condition]
  /\ Condition \cap (PluginId \cup FlagId \cup {"unreachable"}) = {}
  /\ FlagId \cap {"updatable", "updatable-hidden"} = {}

VARIABLES
  dev,      \* flags, unconnected, inhibits, and whether the table of inhibits exists
  kids,     \* the children of the hub
  active,   \* the devices in the list of the daemon
  context,  \* the conditions that hold
  walk,     \* the devices and conditions that the engine has yet to look at
  wanted,   \* devices that were last said to be updatable (auxiliary)
  odd,      \* those of which it was said or unsaid while they were inhibited (auxiliary)
  late      \* those of which it was, while a condition held, since the last walk (auxiliary)

problemVars == <<dev, kids, active, context, walk, wanted, odd, late>>

Fresh == [flags |-> {}, unconnected |-> FALSE, inhibits |-> {}, table |-> FALSE]

ProblemsTypeOK ==
  /\ dev \in [Member -> [flags : SUBSET (FlagId \cup {"updatable", "updatable-hidden"}),
                         unconnected : BOOLEAN, inhibits : SUBSET AnyId, table : BOOLEAN]]
  /\ kids \subseteq Kid /\ context \subseteq Condition
  /\ active \in {{}, kids \cup {Hub}} /\ walk \subseteq active \X Condition
  /\ wanted \subseteq Member /\ odd \subseteq Member /\ late \subseteq Member
  /\ \A d \in Member : dev[d].inhibits # {} => dev[d].table

ProblemsInit ==
  /\ dev = [d \in Member |-> Fresh]
  /\ kids = {} /\ active = {} /\ context = {} /\ walk = {}
  /\ wanted = {} /\ odd = {} /\ late = {}

-----------------------------------------------------------------------------
(* One device.                                                              *)

\* The hidden flag is kept when the last inhibit goes.
EnsureInhibitsForgets(r) ==
  [r EXCEPT !.flags = IF r.inhibits # {} /\ "updatable" \in @
                      THEN (@ \ {"updatable"}) \cup {"updatable-hidden"} ELSE @]

\* fu_device_ensure_inhibits
EnsureInhibits(r) ==
  [r EXCEPT !.flags =
     CASE r.inhibits # {} /\ "updatable" \in @ -> (@ \ {"updatable"}) \cup {"updatable-hidden"}
       [] r.inhibits = {} /\ "updatable-hidden" \in @ -> (@ \ {"updatable-hidden"}) \cup {"updatable"}
       [] OTHER -> @]

\* fu_device_inhibit_full and fu_device_uninhibit, without the children
Inhibited(r, i) ==
  IF i \in r.inhibits THEN r
  ELSE EnsureInhibits([r EXCEPT !.inhibits = @ \cup {i}, !.table = TRUE])

Uninhibited(r, i) ==
  IF i \notin r.inhibits THEN r ELSE EnsureInhibits([r EXCEPT !.inhibits = @ \ {i}])

-----------------------------------------------------------------------------
(* The family: s is the devices, below the children of the hub.             *)

\* fu_device_inhibit_full: an inhibit that exists is not propagated again.
Inhibit(s, below, d, i) ==
  [x \in Member |->
     IF x = d \/ (d = Hub /\ x \in below /\ i \notin s[Hub].inhibits) THEN Inhibited(s[x], i) ELSE s[x]]

\* fu_device_uninhibit: the children lose the inhibit even when the hub does
\* not have it, if the hub has had an inhibit before.
Uninhibit(s, below, d, i) ==
  [x \in Member |->
     IF s[d].table /\ (x = d \/ (d = Hub /\ x \in below)) THEN Uninhibited(s[x], i) ELSE s[x]]

\* fu_device_add_flag and fu_device_remove_flag.  For updatable the inhibits
\* are ensured before the flag is there.
AddFlag(s, below, d, f) ==
  LET first == IF f = "updatable" /\ s[d].table THEN [s EXCEPT ![d] = EnsureInhibits(@)] ELSE s
      added == [first EXCEPT ![d].flags = @ \cup {f}]
  IN IF f \in FlagId THEN Inhibit(added, below, d, f) ELSE added

RemoveFlag(s, below, d, f) ==
  LET removed == [s EXCEPT ![d].flags = @ \ {f}]
  IN IF f \in FlagId THEN Uninhibit(removed, below, d, f) ELSE removed

\* fu_device_add_child: the child r takes the inhibits that the hub has.
Adopt(r, inhibits) ==
  IF inhibits \subseteq r.inhibits THEN r
  ELSE EnsureInhibits([r EXCEPT !.inhibits = @ \cup inhibits, !.table = TRUE])

\* fu_device_is_updatable
IsUpdatable(r) == r.flags \cap {"updatable", "updatable-hidden"} # {}

\* Whether condition i gives its problem to device d.  The system inhibit does
\* not ask whether the device is updatable.
Applying(d, i) == i \in context \cap Sensitive[d] /\ (i = "system-inhibit" \/ IsUpdatable(dev[d]))

\* The problem is not removed when the condition is over.
EnsureProblemStale(d, i) == IF Applying(d, i) THEN Inhibit(dev, kids, d, i) ELSE dev

\* fu_engine_ensure_device_power_inhibit and the three after it
EnsureProblem(d, i) == IF Applying(d, i) THEN Inhibit(dev, kids, d, i) ELSE Uninhibit(dev, kids, d, i)

-----------------------------------------------------------------------------
(* Actions.                                                                 *)

\* One call of the walk of fu_engine_context_power_changed or, for devices that
\* were added, of fu_engine_device_added_cb.
Ensure(d, i) ==
  /\ <<d, i>> \in walk
  /\ d # Hub => \A j \in Condition : <<Hub, j>> \notin walk
  /\ dev' = EnsureProblem(d, i) /\ walk' = walk \ {<<d, i>>}
  /\ UNCHANGED <<kids, active, context, wanted, odd, late>>

Probed(up) == [Fresh EXCEPT !.flags = IF up THEN {"updatable"} ELSE {}]

\* The plugin sets up the hub, which it may inhibit, with the children it
\* finds, and adds them to the daemon: fu_plugin_add_device,
\* fu_engine_device_added_cb.
Plug ==
  /\ active = {}
  /\ \E below \in SUBSET Kid, up \in SUBSET Member, early \in SUBSET PluginId :
       /\ up \subseteq below \cup {Hub}
       /\ dev' = [d \in Member |-> IF d \in below \cup {Hub} THEN Adopt(Probed(d \in up), early) ELSE Fresh]
       /\ kids' = below /\ active' = below \cup {Hub}
       /\ walk' = (below \cup {Hub}) \X Condition
       /\ wanted' = up /\ odd' = {} /\ late' = {}
  /\ UNCHANGED context

\* The hub goes, and its children with it.
Unplug ==
  /\ active # {} /\ walk = {}
  /\ dev' = [d \in Member |-> Fresh]
  /\ kids' = {} /\ active' = {} /\ wanted' = {} /\ odd' = {} /\ late' = {}
  /\ UNCHANGED <<context, walk>>

\* A child appears after setup: fu_device_add_child, then the ::child-added
\* handler of the plugin adds it to the daemon.
AddChild(k) ==
  /\ active # {} /\ walk = {} /\ k \notin kids
  /\ \E up \in BOOLEAN :
       /\ dev' = [dev EXCEPT ![k] = Adopt(Probed(up), dev[Hub].inhibits)]
       /\ wanted' = IF up THEN wanted \cup {k} ELSE wanted
  /\ kids' = kids \cup {k} /\ active' = active \cup {k} /\ walk' = {k} \X Condition
  /\ UNCHANGED <<context, odd, late>>

\* fu_device_remove_child
RemoveChild(k) ==
  /\ k \in kids /\ walk = {}
  /\ kids' = kids \ {k} /\ active' = active \ {k}
  /\ dev' = [dev EXCEPT ![k] = Fresh]
  /\ wanted' = wanted \ {k} /\ odd' = odd \ {k} /\ late' = late \ {k}
  /\ UNCHANGED <<context, walk>>

\* The power supply, the lid, the displays or the system inhibit change.
ContextChanges(c) ==
  /\ walk = {}
  /\ context' = c /\ walk' = active \X Condition /\ late' = {}
  /\ UNCHANGED <<dev, kids, active, wanted, odd>>

\* fu_device_inhibit, fu_device_uninhibit and the battery level, by the plugin
PluginInhibits(d, i) ==
  /\ walk = {}
  /\ dev' = Inhibit(dev, kids, d, i)
  /\ UNCHANGED <<kids, active, context, walk, wanted, odd, late>>

PluginUninhibits(d, i) ==
  /\ walk = {}
  /\ dev' = Uninhibit(dev, kids, d, i)
  /\ UNCHANGED <<kids, active, context, walk, wanted, odd, late>>

PluginAddsFlag(d, f) ==
  /\ walk = {}
  /\ dev' = AddFlag(dev, kids, d, f)
  /\ IF f # "updatable" THEN UNCHANGED <<wanted, odd, late>>
     ELSE /\ wanted' = wanted \cup {d}
          /\ odd' = IF dev[d].inhibits # {} THEN odd \cup {d} ELSE odd
          /\ late' = IF context # {} THEN late \cup {d} ELSE late
  /\ UNCHANGED <<kids, active, context, walk>>

PluginRemovesFlag(d, f) ==
  /\ walk = {}
  /\ dev' = RemoveFlag(dev, kids, d, f)
  /\ IF f # "updatable" THEN UNCHANGED <<wanted, odd, late>>
     ELSE /\ wanted' = wanted \ {d}
          /\ odd' = IF dev[d].inhibits # {} THEN odd \cup {d} ELSE odd
          /\ late' = IF context # {} THEN late \cup {d} ELSE late
  /\ UNCHANGED <<kids, active, context, walk>>

\* The private flag unconnected, which the device list sets and clears.
Connects(d) ==
  /\ walk = {}
  /\ dev' = LET unset == [dev EXCEPT ![d].unconnected = ~@]
            IN IF dev[d].unconnected THEN Uninhibit(unset, kids, d, "unreachable")
               ELSE Inhibit(unset, kids, d, "unreachable")
  /\ UNCHANGED <<kids, active, context, walk, wanted, odd, late>>

ProblemsNext ==
  \/ Plug \/ Unplug
  \/ \E k \in Kid : AddChild(k) \/ RemoveChild(k)
  \/ \E c \in SUBSET Condition : ContextChanges(c)
  \/ \E d \in Member, i \in Condition : Ensure(d, i)
  \/ \E d \in active :
       \/ \E i \in PluginId : PluginInhibits(d, i) \/ PluginUninhibits(d, i)
       \/ \E f \in FlagId \cup {"updatable"} : PluginAddsFlag(d, f) \/ PluginRemovesFlag(d, f)
       \/ Connects(d)

ProblemsSpec == ProblemsInit /\ [][ProblemsNext]_problemVars

-----------------------------------------------------------------------------
(* Properties.                                                              *)

\* A device that its plugin says is updatable is updatable exactly while it
\* has no inhibit, its own or one from the hub, and hidden otherwise; one that
\* is not said to be is neither, however many inhibits come and go.  Saying or
\* unsaying it of a device that is inhibited is left out: see NeverWhileInhibited.
UpdatableWhenFree ==
  \A d \in active \ odd :
    /\ "updatable" \in dev[d].flags <=> d \in wanted /\ dev[d].inhibits = {}
    /\ "updatable-hidden" \in dev[d].flags <=> d \in wanted /\ dev[d].inhibits # {}

\* The problems that the conditions give to a device, and those of its parent.
DueProblems(d) == {i \in context \cap Sensitive[d] : i = "system-inhibit" \/ IsUpdatable(dev[d])}
ParentProblems(d) == IF d \in kids THEN dev[Hub].inhibits ELSE {}

\* After a walk every listed device has the problems that the conditions give to
\* it, whatever the hub has taken back from its children meanwhile, and no
\* problem of a condition is left over: one that is not the device's own is one
\* that its parent has now.  The engine does not look again at a device that
\* becomes updatable, or ceases to be, while a condition holds.
OwnConditions ==
  walk = {} =>
    \A d \in active \ late :
      /\ DueProblems(d) \subseteq dev[d].inhibits
      /\ dev[d].inhibits \cap Condition \subseteq DueProblems(d) \cup ParentProblems(d)

\* "we only inhibit when the flags contains UPDATABLE, and that might be
\* discovered by probing the hardware *after* the battery level has been set":
\* a device with an inhibit is not updatable, in whichever order they came.
NeverWhileInhibited ==
  \A d \in active : dev[d].inhibits # {} => "updatable" \notin dev[d].flags

\* "Children of the device are inhibited by the parent": once the engine has
\* looked at all devices, updatable children have what it has set on the parent.
ChildrenInhibited ==
  walk = {} => \A k \in kids \cap wanted : dev[Hub].inhibits \cap Condition \subseteq dev[k].inhibits
=============================================================================
