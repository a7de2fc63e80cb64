# A TLA+ verification of the fwupd daemon

fwupd updates the firmware of devices. Its daemon is one thread around a GLib
main loop, and what makes it hard is a single design decision: while an update
waits for a device to come back after a reset,
`fu_device_list_wait_for_replug()` iterates the main context. Hotplug
callbacks, timers, signals and D-Bus calls, also another `Install`, then run in
the middle of the update. Every part of the daemon that keeps state across such
a wait is exposed to it, in orders of events that unit tests hardly reach.

Paths below are relative to the root of the repository.

## 1. Inventory

| Part | State | Operations | Hard behaviour | What must hold | Module |
|---|---|---|---|---|---|
| Device list (`src/fu-device-list.c`) | items with the active device, the one it replaced and a removal timer; flags of the objects | add, remove, removal timer, wait for replug | objects replace each other by ID, port, GUID or counterpart GUID; timers race replugs; children leave with parents | IDs unique; timer exactly while away; signals match the content; waits end | `DeviceList`, `DevicePresence` |
| Engine, install (`src/fu-engine.c`) | phase of each install on the stack, update-in-progress problem, update state, write counter, watched objects | install a release, write a blob, and their phases | nested installs; the object is replaced between phases; failures in every phase | one writer per device; success and failure recorded; bounded writes; installs return | `EngineInstall` |
| Daemon (`src/fu-daemon.c`, `src/fu-main.c`, `src/fu-dbus-daemon.c`) | busy mark, pending stop, quit source, deferred status | Install, WriteBlob, Quit, SIGTERM, authority answers | stop and quit during an update; late answers | an update is not cut off; a stop happens | `Daemon` |
| Idle timer, client list (`src/fu-idle.c`, `src/fu-client-list.c`) | inhibits with tokens, the timer, connected clients | inhibit, uninhibit, register, vanish, set the timeout | inhibits are given back out of order | no timeout while in use; each gives back its own | `Idle`, `Daemon` |
| Engine, conditions (`src/fu-engine.c`, `src/fu-dbus-daemon.c`) | power, lid and system inhibits; problems of devices | context change, Inhibit, Uninhibit, sender vanishes | changes are suppressed during updates and made up for later | problems match the conditions; limits of inhibits | `EnginePolicy` |
| History (`src/fu-history.c`, `src/fu-engine.c`) | a row per device, on disk | add, modify, reconcile at start, clear results | crash, restart, reboot between steps | success is true; no update before the reboot; result kept | `UpdateHistory` |
| History schema (`src/fu-history.c`) | schema version, columns and rows, on disk | create, migrate, re-create, add and remove rows | a crash or a disk error between two statements; several statements per migration | a loaded database is complete; no row is lost | `HistoryMigration` |
| Plugin list (`src/fu-plugin-list.c`) | array, order and priority of each plugin, disabled flags | depsolve, sort, a conflict declared late | circular rules, rules about plugins that are missing or disabled, mutual conflicts | the order meets the rules; fails only when it must; no conflict is left | `PluginList` |
| Remote list (`src/fu-remote-list.c`) | array of remotes, file monitors | load, reload, change a key | files that change, vanish or break while the daemon runs | the list is that of the files; the order meets the rules | `RemoteList` |
| Acquiesce (`src/fu-engine.c`) | one loop and one pointer to a timer | wait, reset, timeout | nested waits share them | each wait ends, and not too early | `Acquiesce` |
| Device base class (`libfwupdplugin/fu-device.c`) | inhibits, problems, updatable flags, children | inhibit, uninhibit, problems, flags, children | conditions come and go in any order, on parents and children | updatable exactly when nothing inhibits | `DeviceProblems` |
| Opening of devices (`libfwupdplugin/fu-device.c`, `libfwupdplugin/fu-device-locker.c`) | reference count, handle, the lockers | new locker, close, finalize | an open that fails half-way; a shared proxy; a close that fails | count and owners agree | `DeviceOpen` |
| Emulation (`src/fu-engine-emulator.c`) | events per phase | record, replay | | | not modelled |
| Progress (`libfwupdplugin/fu-progress.c`) | tree of steps | step done, percentage | | | not modelled |
| Backends (`src/fu-*-backend.c`) | known devices, throttled changes | kernel events | events in bursts and out of order | | hotplug in `DeviceList` |
| Binder daemon (`src/fu-binder-daemon.c`) | as `Daemon` | | | | not modelled |
| Releases, cabinets, requirements, versions | none that lasts | pure functions | | | not modelled |
| Firmware parsers, jcat, EFI, transport, plugins, command line tools, client library | bytes and I/O | | | | not modelled |

`PROJECT.json` lists every part with its status and reason, and every hazard
with the line at which it bites.

## 2. Plan

The order follows how much of the daemon depends on a part.

1. `DeviceList` and its abstract specification `DevicePresence`: done.
2. `EngineInstall`, composed with `DeviceList`: done.
3. `Idle` and `Daemon`, composed: done.
4. `EnginePolicy`, composed with `DeviceList`: done.
5. `UpdateHistory` across crashes and reboots: done.
6. Proofs of `DeviceList` and `UpdateHistory`: done.
7. What runs before and beneath an update: `HistoryMigration`, `PluginList`,
   `RemoteList`; `DeviceProblems`, `DeviceOpen`, `Acquiesce`: done.
8. Proofs of `PluginList`, `DeviceOpen` and `Acquiesce`: done.
9. Proofs of every safety property of `DeviceList`, `EngineInstall`, `Daemon`,
   `EnginePolicy`, `UpdateHistory`, `HistoryMigration`, `DeviceOpen` and
   `Acquiesce` that a run checks: done, under the hypotheses of section 5.
10. Proofs of `RemoteList`, of `DeviceProblems` and of when the ordering of
   plugins fails, with the ordering of the remotes and the walk of the engine over
   the devices as steps of their own, and of `SuccessRecorded` for devices of two
   objects: done.
11. Next modules: polling of devices, the phases of the emulator, activation in
   `UpdateHistory`, an instance of `DeviceList` with equivalent IDs.

## 3. The modules

**`DevicePresence`** says what users of the list may rely on: an ID is absent,
present or lingering; `::added` only for an ID that was not held, `::changed`
for one that comes back or takes another's place, one `::removed` for each that
leaves, a child that goes with its parent included. Only the teardown is silent,
and nothing follows it.

**`DeviceList`** is `fu-device-list.c`. `items` is the array, as a set: where
the code takes the first match the model takes any. The attributes that no step
changes (`Id`, `Plugin`, `Priority`, `Connection`, `Guids`) are constants;
`flags`, `counterparts`, `children`, the update-in-progress problem and the
update state are variables, because `fu_device_list_replace()` moves them
between objects. `Add` has one disjunct per branch of `fu_device_list_add()`;
`Remove` is `fu_device_list_remove()` with its children; `DelayedRemove` is the
timer; `WaitStart`, `WaitDone` and `WaitTimeout` are
`fu_device_list_wait_for_replug()`. `RemoveAll`, which the engine calls when it
is disposed, is the last step. `signalled` is what the last step emitted.

**`EngineInstall`** extends it with the stack of installs. A frame is an
install or a blob with its phase, the device of its release (`device_orig`), the
object that `fu_engine_install_loop()` holds across the detach, and the number
of writes. One action per phase: prepare, loop entry, detach, write, attach,
reload, check, cleanup, the failure path and the return. Between two phases
there is a wait, during which hotplug actions and `Begin` (another install) are
enabled: `MainLoop`. `write_cnt` and `write_history` belong to the engine and
are shared, as in the code. Plugins are choices: succeed, fail, expect a
replug, ask for another write or for a restart of the loop.

**`Idle`** and **`Daemon`**: `stack` holds the updates with the token of their
inhibit; `Dispatch` says when callbacks run: at rest while the loop runs, or
while the innermost update waits. `g_main_loop_quit()` in a nested iteration
only marks the loop; `MainReturns` happens once the stack is empty. Tokens are
drawn from those that nobody holds. `FreeHelper` returns the status to idle
whenever a call that may ask the authority is over: answered, refused or denied.
While an update waits for a replug, the end of another call therefore shows the
daemon as idle.

**`EnginePolicy`** extends `DeviceList` with the conditions that the context
reports and the system inhibits of D-Bus clients. `updates` counts the lockers
that inhibit signals; that they are held exactly while an update is on the stack
is `SignalsHeldByUpdates` of `Daemon`.

**`UpdateHistory`** has what survives the daemon (row, firmware, staged
firmware, boot) and what does not (update state of the object, the
`write_history` flag, the job). A job is write, mark, finish, in the order in
which `fu_engine_install_release()` touches the row. `Notified` is the callback
that writes the row again when the update-state or the update-error of the object
changes, and `UpdateErrorChanges` such a change of the error outside an update, by
an inhibit. Two variables are auxiliary: `fate` is what really became of the update
that the row records, `own` that the row records the last update of this very
object. `Events` selects what an instance
exposes the code to: crashes, replugs, blobs, installs without history, inhibits,
failing plugins.

**`HistoryMigration`** is `fu_history_load()`. An action is one SQL statement
or one transaction; after any of them the daemon may crash or the disk may fail.
`db` is what sqlite (external) has on disk, `step` and `at` are the place in the
chain of migrations. `MigrationInit` takes a database of every released schema;
a failed migration deletes it and creates an empty one.

**`PluginList`** is `fu_plugin_list_depsolve()`. `Pass` is one round of its
do-while loop, which promotes one plugin; `CheckConflicts` is the turn of one
plugin in the loop over the conflicts, and `Sort` follows the last turn;
`LateConflict` is a rule that a plugin adds once the daemon runs.

**`RemoteList`** is `fu-remote-list.c`. A reload is a step for each directory
and file, because other processes write the files meanwhile; the file monitors
(external) deliver at some later time and lose what is pending when they are
replaced. `visited` and `found` are how far the reload is: the directories it has
listed, and the files of the last of them that it has yet to read, in any order.
A file may be impossible to load, or only to set up; the second matters only when
the list does not have its ID yet. The ordering is a step for each rule
(`Depsolve`), `pending` are the rules that
the round has yet to look at; the sort takes any permutation of the list that the
comparison allows.

**`DeviceProblems`** has a hub with `inhibit-children` and its children.
`dev` holds flags and inhibits; the actions are the calls of plugins (inhibit,
uninhibit, add and remove flags, add a child, connect, disconnect) and the walk
of the engine over the list when a condition changes. The walk is a step for each
device and condition, the hub first, and nothing else runs before its end. `odd`
has the devices that were said to be updatable, or not to be, while they were
inhibited; `late` those of which this was said while a condition held, since the
last walk.

**`DeviceOpen`** has the reference count, the handle and the done-probe and
done-setup marks of each object, and the lockers. `Opened` and `Closed` are
`fu_device_open_internal()` and `fu_device_close_internal()`, `OpenAll` and
`CloseAll` the calls that take the proxy along. Any vfunc may fail. `spent` has
the objects that a `fu_device_locker_close()` has closed although it then reported
an error: the locker will close them a second time.

**`Acquiesce`** is `fu_engine_wait_for_acquiesce()` with its timer. GMainLoop and
GSource are external: a loop has one running flag for all waits on the stack,
and a timer to which the pointer is lost stays attached.

## 4. Runs

| Run | Instance | Checks |
|---|---|---|
| `list` | `plugged` selects one of three instances: runtime and bootloader with other IDs joined by counterpart GUIDs and a rival plugin; a hub and its child, which comes back as an object of another plugin with the same ID; or two modes of a device that share only the port | `TypeOK`, `UniqueIds`, `TimerIffUnconnected`, `SignalPromise` (refinement of `DevicePresence`), `UnpluggedResolved`, `WaitReturns` |
| `install_replug` | two objects of one ID, one install, two writes, an acquiesce delay | `InstallTypeOK`, `SuccessRecorded`, `WritesBounded` |
| `install_nested` | one object, two requests of any kind that may nest | `OneWriterPerDevice`, `ProblemMeansUpdating`, `InstallsReturn` |
| `daemon_life` | two clients, a user who quits, two updates that may nest | `DaemonTypeOK`, `IdleOnlyWhenUnused`, `SignalsHeldByUpdates`, `StatusIsLast`, `IdleCanStop`, `QuitCarriedOut`, `QuitReturns` |
| `policy_apply` | two devices, two senders, nested installs | `PolicyApplied` |
| `policy_any` | a device that replugs as another object, two senders, installs and blobs | `SystemInhibited` |
| `history_reboot` | two devices, two versions, three boots, restarts between updates, inhibits at any time | `HistoryTypeOK`, `SuccessIsTrue`, `UntilReboot`, `RebootResolved` |
| `history_any` | two devices, one version, two boots; also crashes, blobs, installs without history, replugs and failing plugins | `ResultKept` |
| `device_base` | `part` selects `DeviceProblems` (a hub and a child, two conditions), `DeviceOpen` (two devices behind a proxy, two lockers) or `Acquiesce` (three waits, two changes) | `UpdatableWhenFree`, `OwnConditions`; `OpenBalanced`, `OwnedStaysOpen`; `RunningHasTimer`, `QuietWhenAlone`, `WaitsReturn` |
| `startup` | `part` selects `HistoryMigration` (every released schema, two rows), `PluginList` (three plugins, up to three rules of a kind) or `RemoteList` (two remotes, two directories) | `LoadedIsComplete`, `RowsKept`; `FailsIffCircular`, `RulesMet`, `NoConflictLeft`; `ListIsFresh`, `OrderMet` |
| `install_two_writers`, `children_inhibited` | | disagreements, section 6 |

In `list`, `device_base` and `startup` several instances or components that share
no state are checked by one run: a variable chosen by Init says which of them
takes the steps, and the others stay at their initial state.

The modules whose type invariant is not in a run (`PolicyTypeOK`,
`ProblemsTypeOK`, `OpenTypeOK`, `AcquiesceTypeOK`, `MigrationTypeOK`,
`PluginTypeOK`, `RemoteTypeOK`) state it all the same, and it holds in the same
instances when it is added to their configuration. Each property of a run has a
mutant: a definition changed as a plausible bug would change it, for which TLC
finds the property violated.

**Bounds.** Two installs on a stack of two are enough for an install to be
interrupted by another one between any two of its phases; a third would meet
the same shared variables. `MaxWrites` is 2 where the code has
`FU_ENGINE_EMULATOR_WRITE_COUNT_MAX`: the loop is entered, repeated and
exhausted. The three instances of the device list, of two or three objects each,
between them take every branch of `fu_device_list_add()`. Three boots allow a row
to wait, be settled, and be followed by another update; two versions tell a device
that ignored an update from one that took it; a second device lets the flag that
the install of one leaves behind affect the row of the other. In `history_any`
two boots tell a restart from a reboot. Its one version, which the size of the
instance asks for, leaves the half of `ResultKept` about the version of the row
to the theorem. `MaxTotal` 3 and `MaxPerSender` 2 let both
limits be reached and crossed by a mutant. Three plugins and
three rules give every circle and every chain of rules; `LoopLimit` is 100 as in
the code, `MaxLate` 1 conflict comes late. `MaxRounds` is 4 where the ordering of
remotes has 100, and two remotes need at most 2. Two lockers let one close while
the other owns the same device or its proxy, and `MaxRefs` 3 leaves room for a
leaked reference. Delays of 1 and 2 units let a stray timer end the wait of
another before or after its own, and three waits nest twice. The
`CHECK_DEADLOCK FALSE` of `list`, `Daemon` and `startup` is there because the
list is disposed of, and the daemon and the ordering of plugins end. The longest
runs are `startup` (1.3 million states) and `history_any` (2.4 million), each
under three minutes.

`SuccessRecorded` is not checked for nested installs of a device with an
acquiesce delay. During that wait the device may be updated again, and when the
first install returns the row is that of the later one. For installs of two
devices without such a delay, with and without history, and blobs, which nest in
every order, `MCEngineInstallPair.cfg` checks it, and it holds (5.3 million
states, six minutes with 4 workers): an install without history that nests in one
with history does not keep its success out of the database, because
`fu_engine_write_blob()` writes that by the flags of its own install
(`src/fu-engine.c:4165`), whatever `write_history` is.

**Fairness.** `LiveSpec`: a timer that has expired is dispatched, and the wait
loop has a deadline. `InstallLiveSpec`: weak fairness of the steps of the
innermost install, because the thread runs on and a wait ends at its deadline;
nothing is assumed of hotplug or clients. `DaemonLiveSpec`: weak fairness of the
end of a wait and of the return of the main loop; strong fairness of
the end of an update and of the idle callback of Quit, which GLib dispatches
although other callbacks may come first. `AcquiesceFairness`: time passes, a timer
that has expired is dispatched, and `g_main_loop_run()` returns when its loop does
not run; nothing is assumed of the devices.

## 5. Theorems

TLAPS proves the following for every value of the constants: every set of
devices, objects, IDs, GUIDs, clients, plugins, rules, versions and rows, every
limit and delay, and any number of installs, nestings, waits, boots and crashes.
Each inductive invariant was checked with TLC on a small instance before it was
proved.

A theorem with a hypothesis is about part of what the module allows. The
hypotheses are not there for convenience: where a configuration of section 6 is
named, it shows what happens without them.

| Theorem | Property | Hypothesis |
|---|---|---|
| `TypeCorrect`, `UniqueIdsCorrect`, `TimerCorrect` | `TypeOK`, `UniqueIds`, `TimerIffUnconnected` | `NoEquivalents` |
| `SignalPromiseCorrect` | `SignalPromise` | `NoEquivalents`, `NoChildTakenOver` at all times (`MCDeviceListTakeover.cfg`) |
| `InstallTypeCorrect` | `InstallTypeOK` | `NoEquivalents` |
| `WritesBoundedCorrect` | `WritesBounded` | `NoEquivalents`, `NoNesting` (`MCEngineInstallWrites.cfg`) |
| `OneWriterCorrect`, `ProblemMeansUpdatingCorrect` | `OneWriterPerDevice`, `ProblemMeansUpdating` | `ComesBackAsItself` (`MCEngineInstallTwoWriters.cfg`, `MCEngineInstallStuck.cfg`) |
| `SuccessRecordedCorrect` | `SuccessRecorded` | `AtMostTwoObjects` (`MCEngineInstallThree.cfg`), `NoNesting` |
| `DaemonTypeCorrect`, `IdleOnlyWhenUnusedCorrect`, `SignalsHeldCorrect`, `StatusIsLastCorrect`, `IdleCanStopCorrect` | `DaemonTypeOK`, `IdleOnlyWhenUnused`, `SignalsHeldByUpdates`, `StatusIsLast`, `IdleCanStop` | |
| `SystemInhibitedCorrect`, `PolicyTypeCorrect` | `SystemInhibited`, `PolicyTypeOK` | |
| `PolicyAppliedCorrect` | `PolicyApplied` | `NoEquivalents`, `OneObjectEach`, `NoneLingers` (`MCEnginePolicyReplug.cfg`), `InstallsOnly` (`MCEnginePolicyBlob.cfg`) |
| `HistoryTypeCorrect`, `ResultKeptCorrect` | `HistoryTypeOK`, `ResultKept` | |
| `UntilRebootCorrect` | `UntilReboot` | `DevicesStay` (`MCUpdateHistoryCrash.cfg` with `Replugs`) |
| `RebootResolvedCorrect` | `RebootResolved` | `DevicesStay`, `PluginsWork`, `AllRecorded` |
| `SuccessIsTrueCorrect` | `SuccessIsTrue` | `Calm` (`MCUpdateHistoryCrash.cfg`, also with `Blobs`; `MCUpdateHistoryUnrecorded.cfg`) |
| `RulesMetCorrect`, `NoConflictLeftCorrect` | `RulesMet`, `NoConflictLeft` | |
| `CircularNeverSucceeds` | one direction of `FailsIffCircular` | |
| `FailsIffCircularCorrect` | `FailsIffCircular` | `LoopLimit` at least twice the square of the number of plugins |
| `LoadedIsCompleteCorrect`, `RowsKeptCorrect` | `LoadedIsComplete`, `RowsKept` | |
| `ListIsFreshCorrect`, `OrderMetCorrect` | `ListIsFresh`, `OrderMet` | |
| `UpdatableWhenFreeCorrect`, `OwnConditionsCorrect` | `UpdatableWhenFree`, `OwnConditions` | |
| `OpenBalancedCorrect`, `OwnedStaysOpenCorrect` | `OpenBalanced`, `OwnedStaysOpen` | |
| `RunningHasTimerCorrect`, `QuietWhenAloneCorrect` | `RunningHasTimer`, `QuietWhenAlone` | |

- `DeviceListProofs`. The inductive invariant is `ListInv`: types, unique IDs
  and timers together. That a timer matches its device needs that no other item
  has the same object, which needs unique IDs, which need the lookup by ID to
  find the item that holds an ID. The last is `FindByIdItem`; the proof then goes
  through the branches of `Add`. `NoEquivalents` says that no device has an
  equivalent ID; with them a lookup can be ambiguous. `SignalPromiseCorrect` is
  the refinement: under `ListInv` every branch of `Add` and `Remove`, the timer
  and the wait are each shown to be one action of `DevicePresence`. The IDs that a
  `Remove` announces are those of the objects in the parent's list of children;
  `NoChildTakenOver` says that the items which go have the same IDs.
- `EngineInstallProofs` uses `ListInv` through the lemma that every step of an
  install which changes the list is one of the list. `EngineInv` adds the
  types of the stack, of its frames and of what an install reports. For the writes, `WritesInv` relates the writes of the frame to the
  counter of the engine phase by phase. For the writers, `WriterInv` says that a
  device that is detached, written or attached has the update-in-progress
  problem, so that `Begin` refuses a second install of it, and that only such
  devices and those that wait for a reboot have it. This needs `ItselfInv`, that
  no item has an old device: `ComesBackAsItself` says that a device is one object
  with a port of its own and is not matched by GUID, so that
  `fu_device_list_replace()` never runs. `SuccessInv` follows the update from the
  write to the reply. There a device may come back as a second object, with the
  same ID or another: `AtMostTwoObjects` says that of the objects which share an
  ID, a connection or, when plugins match by GUID, a GUID there are at most two.
  What could undo the record is `fu_device_incorporate()`, which gives an object
  without a state that of another one and thereby notifies the database.
  `PairInv` says that both are then objects of one device, also when the list has
  given them each other's GUIDs; the object of the release has a state by then, so
  it is the one that gives. The run `install_replug` is an instance of
  `AtMostTwoObjects` and `NoNesting`, `install_nested` of `ComesBackAsItself`. In `InstallTypeOK` the write counter is any
  natural number: its bound is what `WritesBounded` is about.
- `DaemonProofs`. `HeldInv` says who holds which token: each update on the stack
  its own, the clients one together or none, and the timer follows from what is
  held. Giving back one token then removes exactly one inhibit, also when updates
  end in another order than clients come and go. `DaemonAssumption` has more
  tokens than updates can nest: the code draws random numbers, and runs out of
  none. `RestInv` is the status and the busy mark: a status that waits for an
  authorization has a call that asks for it, or an update on the stack. For the
  waits, `TimerInv`
  counts the timers that the engine has lost sight of, too. `AloneInv` says that a
  wait which is alone has the only timer, and that the time it has left makes up
  for what the delay still lacks.
- `EnginePolicyProofs`. `InhibitInv` adds that the inhibits are finitely many, so
  that the limits mean something. `AppliedInv` adds to `PolicyApplied` that the
  allow-list is not empty while updates run, which is why the end of the last one
  makes up for what changed, and that a listed device is connected.
  `NoneLingers` says that an unplugged device leaves the list at once,
  `InstallsOnly` that no blobs are written. `PolicyAssumption` says that the
  inhibit of the system is not also a condition of the context: they have
  different sources in the code.
- `UpdateHistoryProofs`. `UntilReboot` needs `Inherited` (the object of a device
  whose row waits in this boot has the needs-reboot state) and `JobOnLiveDevice`
  (an update runs on a device that is there); it holds through crashes, blobs and
  failing plugins. `RebootResolved` needs `SettledInv`: an install makes a row
  wait only if it inserted it in this boot; crashes and blobs are allowed.
  `SuccessIsTrue` needs `TruthInv`, which says for each row what it tells of the
  firmware that the device has or has staged, for the object of a device what it
  would have the callback write, and for the update that runs what its row will
  tell. `AllRecorded` excludes that installs without history meet changes of an
  inhibit; either alone is allowed. `Calm` excludes replugs, failing plugins,
  crashes and blobs besides, as the run `history_reboot` does. `ResultKept` needs
  `OwnInv`: an object that is `own` has the state of its row.
- `StartupProofs`. `OrderInv` carries the rules as facts about the numbers
  (`Met`) from the pass that finds nothing to promote, over the conflicts, which
  disable plugins but move no number, to the sorted list. `ConflictInv` says what
  the plugins that have had their turn have disabled. `FoundInv` says what each
  statement of the migration finds: a database with a version has at least what
  its version says, and one without is one of four kinds, so that a migration
  that a crash has cut short can be repeated or ends with an empty database.
  `RowsInv` says where the rows are at each statement, and that no statement
  fails which would delete the file.
  That an ordering fails exactly when it must takes two arguments. Numbers that
  meet all rules rule out a circle (`RankedIsAcyclic`: of a set of plugins the one
  with the smallest number has none of the set before it). Without a circle every
  number that was given has one just below it (`Supported`, `NoGap`), so that
  none reaches the number of plugins; each pass uses up at least one pair of a
  plugin and a number (`PassInv`), and there are at most as many as the square of
  the plugins for the order, and as many for the priorities. The hypothesis on
  `LoopLimit` is this count. The code has 100, which it covers for up to seven
  plugins; section 6 has a chain of 15 for which 100 is not enough.
- `RemoteListProofs`, for any directories, files and rules. `FreshInv` says what
  the reload has read is still so unless an event is pending or a directory was
  made that it did not find (`AsRead`): each remote is its file in the first
  directory, and each file that was passed has its ID in the list. It holds in the
  middle of a reload, too, and of one that ended early, which is left with a file
  that it refuses in a watched directory; a file that is refused only because it
  cannot be set up is the one that counts for its ID (`UnknownOwns`). `DirsWatched` is why a file that changes behind the
  reload is reported (`WriteReported`). A change by a client is always reported
  (`KeyReported`). `OrderInv` says that in a round that has changed nothing the
  rules that it has looked at are met; the sort then puts them in order.
- `DeviceBaseProofs`. `ProblemsInv` has the walk in it: flags and inhibits agree
  at all times, the problems of a device are those of the conditions, or of its
  parent, wherever the walk has been, and what it does to the hub it has yet to look
  at in the children. Devices that are `odd` are left out of the first, those that
  are `late` of the second, as in the properties. The opening of
  devices is proved for proxies of one level (`ProxyAssumption`) and finitely many
  lockers. The balance itself is inductive together with types; the hard
  case is an open that is aborted because the proxy failed, where the device is
  closed that was never opened: `OwnersOfProxy` shows that then nobody owned it.
  Once a close has failed, `CoverInv` takes the place of the balance: references
  may leak, but only those of a proxy, and they always cover the owners, of all
  objects that are not `spent` and have no proxy that is.

Only model-checked:

- liveness under fairness (`UnpluggedResolved`, `WaitReturns`, `InstallsReturn`,
  `QuitCarriedOut`, `QuitReturns`, `WaitsReturn`), which is out of reach of the
  prover;
- what the hypotheses above leave out.

Every invariant and every action property of a passing run has a theorem.

## 6. Where the code and its documentation disagree

Two have a run of their own in `PROJECT.json`:

- `install_two_writers` (`OneWriterPerDevice`): `fu_device_list_replace()`
  passes the objects in the wrong order when it moves the update-in-progress
  problem, so a device that comes back as another object accepts a second
  install while the first one writes.
- `children_inhibited` (`ChildrenInhibited`): "Children of the device are
  inhibited by the parent." (`libfwupdplugin/fu-device.h:327`). For each device
  that is added, and for each of the list when a condition changes, the engine adds
  or removes the problem (`src/fu-engine.c:577`), and removes from a child that is
  not sensitive to the condition the problem that the parent has just passed on. In
  the trace a hub that needs mains power and its child are added on battery, and
  the child ends updatable below an inhibited hub. `OwnConditions` is what holds.

The others were met on the way. Each has a configuration for which TLC reports
the violation: `tlc -config <file> <module>`. Where a file stands in more than one
row it has the property of one of them; for the others the property, and the
events where the row names them, are changed in a copy of it.

| Configuration | Property | What the code does |
|---|---|---|
| `MCDeviceListTakeover.cfg` | `SignalPromise` | a child's place at its port is taken by a device with another ID; when the hub leaves, the item goes and `::removed` is emitted for the ID of the child that is gone already (`src/fu-device-list.c:621`), against "emitted when a device has been removed from the list" (`src/fu-device-list.c:1174`) |
| `MCDeviceBaseOwned.cfg` | `AllOwnedStayOpen` | `fu_device_locker_close()` fails after the count went down (`libfwupdplugin/fu-device-locker.c:85`): the locker still owns the device, "Think of this object as the device ownership" (`libfwupdplugin/fu-device-locker.c:111`), and the next open that is aborted closes the handle under it |
| `MCUpdateHistoryUnrecorded.cfg` | `SuccessIsTrue` | an install without history leaves the object of a device in the state success; a recorded install of another device switches `write_history` on, and the next change of an inhibit writes that state into the row of an earlier update that failed (`src/fu-engine.c:548`) |
| `MCUpdateHistoryUnrecorded.cfg`, `Events <- Calm` | `ResultKeptByCallback` | after a restart the object has no state; a recorded install of another device and a change of an inhibit replace the result of the row by unknown |
| `MCDaemonQuit.cfg` | `StopHonoured` | a stop that was put off by an update (`src/fu-daemon.c:343`) never happens |
| `MCUpdateHistoryCrash.cfg` | `SuccessIsTrue` | a crash during an install leaves a row that says success (`src/fu-history.c:928`) |
| `MCStartupRecreate.cfg` | `RestartKeepsRows` | a database that was re-created has schema version 0; the next start takes it for version 1, fails because `emulation_tag` exists, and deletes it with its rows (`src/fu-history.c:664`) |
| `MCDeviceBaseInhibited.cfg` | `NeverWhileInhibited` | adding the updatable flag applies the inhibits before the flag is there (`libfwupdplugin/fu-device.c:4798`), so an inhibited device becomes updatable |
| `MCDeviceBaseQuiet.cfg` | `QuietAlways` | a timer left over from a nested wait ends another one early (`src/fu-engine.c:675`), against "the time the daemon should wait for devices to finish hotplugging" (`libfwupdplugin/fu-device.c:5035`) |
| `MCEngineInstallAbort.cfg` | `OneUpdatePerDevice` | a failed write clears the problem (`src/fu-engine.c:3794`) before the device is attached and cleaned up |
| `MCEngineInstallStuck.cfg` | `ProblemMeansUpdating` | a failure clears the problem on `device_orig` (`src/fu-engine.c:3106`), not on the active object that received it |
| `MCEngineInstallFailure.cfg` | `FailureRecorded` | the failure is set on an object whose notifications the engine no longer receives, and the row keeps its old state |
| `MCEngineInstallRestart.cfg` | `RestartHonoured` | whether to restart the loop is read from the object of before the detach (`src/fu-engine.c:4058`) |
| `MCEngineInstallThree.cfg` | `SuccessRecorded` | a device of three objects: when the old object comes back the active one takes its state (`src/fu-device-list.c:871`), and the failure of an earlier install overwrites the success of the object of the release (about 20 minutes with 4 workers) |
| `MCEngineInstallWrites.cfg` | `WritesBounded` | a nested install resets the shared write counter (`src/fu-engine.c:4137`) |
| `MCDaemonStop.cfg` | `StopSparesUpdates` | a nested update clears the busy mark (`src/fu-dbus-daemon.c:741`), and the outer update no longer holds off a stop; it still runs to its end |
| `MCDaemonQuit.cfg` | `QuitAfterUpdate` | Quit during an update is refused (`src/fu-daemon.c:222`); `src/fwupdmgr.md:216` says that the daemon quits "after it has finished any firmware update in progress" |
| `MCEnginePolicyBlob.cfg` | `PolicyApplied` | changes suppressed by a blob are not made up for, because its allow-list is empty (`src/fu-engine.c:9637`) |
| `MCEnginePolicyReplug.cfg` | `PolicyApplied` | `::changed` applies no conditions to the new object (`src/fu-engine.c:728`) |
| `MCUpdateHistoryCrash.cfg`, `Events <- Blobs` | `SuccessIsTrue` | `write_history` is left on by an install, and a blob rewrites its row (`src/fu-engine.c:350`) |
| `MCUpdateHistoryCrash.cfg`, `Events <- Replugs` | `UntilReboot` | a new object does not inherit needs-reboot (`src/fu-engine.c:7009`), against "don't show upgrades again until we reboot" (`src/fu-engine.c:6521`) |

Without a configuration, because the model has the behaviour of the code and no
property asks for the other:

- `fu_device_locker_new_full()` calls the close function after an open that
  failed; its documentation says that it does not. `OpenBalanced` needs the call.
- `fu_device_close()` of a device that is not open returns success; its
  documentation says that it is an error.
- A close that fails leaks the reference to the proxy: hence the condition of
  `OpenBalanced`.
- The limit of 100 passes refuses a chain of 15 plugins each of which runs after
  the next, although it is not circular: it may take 105 promotions.
- A directory of remotes that is made after the daemon has started is not
  watched: hence `unseen` in `ListIsFresh`.

## 7. Not modelled

Polling: a timer per device that calls into the plugin, which no decision of the
daemon depends on. Progress: percentages. The emulator: recording and replaying
of events in files. The throttling of the udev backend: `DeviceList` allows any
order and number of events. Equivalent IDs: plugins set them on objects that are
listed already, with other priorities than their rivals, which a constant table of
IDs does not express. Of the remote list: the metadata of a remote and the testing
remote. The binder daemon repeats the D-Bus daemon for
Android. Releases, requirements and version formats are pure functions on text.

Emulated devices, composite installs of several releases, proxies and parents,
the text of errors, percentages and metadata are left out of `EngineInstall`;
installs are one release each. Idle tokens are taken to be distinct, the boot
time to change only with a boot. The parsers of firmware, the signatures, the
transports, the device protocols of the plugins, the command line tools and the
client library are sequential code over bytes and I/O, where a parser test or a
fuzzer finds more than a model checker.
