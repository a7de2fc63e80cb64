---------------------------- MODULE UpdateHistory ----------------------------
(****************************************************************************)
(* The history database of the daemon (fu-history.c) and the code of the    *)
(* engine that keeps it in step with the devices: the row an install adds,  *)
(* the rows the update-state and update-error callback rewrites, the        *)
(* reconciliation of rows that waited for a reboot, and the clearing of     *)
(* results.  What survives a restart of the daemon, a crash and a reboot is *)
(* the row and the firmware; the update-state of the device object is lost  *)
(* with the daemon.                                                         *)
(*                                                                          *)
(* One install or blob runs at a time here: installs that nest, and objects *)
(* that are replaced under an install, are the subject of EngineInstall.    *)
(* The devices are not emulated, do not belong to the "test" plugin and do  *)
(* not have install-skip-version-check or needs-activation.                 *)
(****************************************************************************)
EXTENDS Naturals

CONSTANTS
  Device,        \* device IDs
  Version,       \* firmware versions
  MaxBoot,       \* bound: the number of the last boot of the machine
  Events         \* which of "crash", "replug", "blob", "plugin", "no-history", "inhibit"
                 \* may happen

ASSUME BootAssumption == MaxBoot \in Nat \ {0}

VARIABLES
  version,       \* the firmware a device runs
  staged,        \* the firmware it takes at the next boot, or Nothing
  history,       \* the row of a device in the database, or NoRow
  boot,          \* the boot time of the kernel
  up,            \* the daemon runs
  live,          \* the update-state of the device objects, or Gone
  write_history, \* FuEngine.write_history
  job,           \* the install or blob that runs, or NoJob
  fate,          \* what became of the update that the row records (auxiliary)
  own            \* the row records the last update of this very object (auxiliary)

vars == <<version, staged, history, boot, up, live, write_history, job, fate, own>>

Nothing == 0
Gone == "gone"
NoRow == [state |-> "none", boot |-> 0]
NoJob == [phase |-> "none"]

\* FwupdUpdateState.  PENDING is left out: nothing in the daemon sets it.
States == {"unknown", "success", "failed", "failed-transient", "needs-reboot"}
Results == {"success", "failed", "failed-transient"}

Rows == [state : States, version : Version, boot : 1..MaxBoot, notified : BOOLEAN]
Jobs == [phase : {"write", "mark", "finish"}, device : Device, version : Version,
         old : Version, blob : BOOLEAN, no_history : BOOLEAN, reboot : BOOLEAN]

\* The database has one row per device whose state is an update-state; the
\* daemon has device objects, a job and a callback flag only while it runs.
\* A result that has been shown to the user is a result.
HistoryTypeOK ==
  /\ version \in [Device -> Version]
  /\ staged \in [Device -> Version \cup {Nothing}]
  /\ history \in [Device -> Rows \cup {NoRow}]
  /\ boot \in 1..MaxBoot
  /\ up \in BOOLEAN /\ write_history \in BOOLEAN
  /\ live \in [Device -> States \cup {Gone}]
  /\ job \in Jobs \cup {NoJob}
  /\ fate \in [Device -> {"none", "running", "waiting", "applied", "lost"}]
  /\ own \in [Device -> BOOLEAN]
  /\ ~up => job = NoJob /\ ~write_history /\ \A d \in Device : live[d] = Gone
  /\ \A d \in Device : history[d] # NoRow /\ history[d].notified => history[d].state \in Results

HistoryInit ==
  /\ version \in [Device -> Version]
  /\ staged = [d \in Device |-> Nothing]
  /\ history = [d \in Device |-> NoRow]
  /\ boot = 1 /\ up = FALSE /\ write_history = FALSE
  /\ live = [d \in Device |-> Gone]
  /\ job = NoJob
  /\ fate = [d \in Device |-> "none"]
  /\ own = [d \in Device |-> FALSE]

-----------------------------------------------------------------------------
(* The database.                                                            *)

\* fu_history_add_device: the old row is removed, the new one takes the
\* update-state that the device has now.
AddDevice(d, v) ==
  [history EXCEPT ![d] = [state |-> live[d], version |-> v, boot |-> boot, notified |-> FALSE]]

\* fu_history_modify_device with the flags of a live device, which never have
\* NOTIFIED.  No row is NOT_FOUND, which the callback ignores.
ModifyDevice(d, s) ==
  IF history[d] = NoRow THEN history
  ELSE [history EXCEPT ![d].state = s, ![d].notified = FALSE]

\* fu_engine_history_notify_cb, for the object of d in the state s.
Notified(d, s) == IF write_history THEN ModifyDevice(d, s) ELSE history

\* fu_device_set_update_state on a watched device, with the update-error that it
\* clears or that the caller sets next: each property notifies when it changes.
\* An error may change or not; the state is the new one in the end.
SetUpdateState(d, s) ==
  /\ live' = [live EXCEPT ![d] = s]
  /\ \E error_changes \in BOOLEAN :
       history' = IF live[d] # s \/ error_changes THEN Notified(d, s) ELSE history

\* fu_device_ensure_inhibits on a watched device: an inhibit with a reason comes or
\* goes, or another inhibit clears the error of the last update.
UpdateErrorChanges(d) ==
  /\ "inhibit" \in Events
  /\ up /\ live[d] # Gone
  /\ history' = Notified(d, live[d])
  /\ UNCHANGED <<version, staged, boot, up, live, write_history, job, fate, own>>

-----------------------------------------------------------------------------
(* An install and a blob.                                                   *)

\* The update-in-progress problem that needs-reboot adds hides UPDATABLE.
Updatable(d) == up /\ job = NoJob /\ live[d] \notin {Gone, "needs-reboot"}

\* fu_engine_install_release up to fu_engine_write_blob: the row is inserted
\* before anything is written.
BeginInstall(d, v, no_history) ==
  /\ no_history => "no-history" \in Events
  /\ Updatable(d)
  /\ write_history' = ~no_history
  /\ history' = IF no_history THEN history ELSE AddDevice(d, v)
  /\ fate' = IF no_history THEN fate ELSE [fate EXCEPT ![d] = "running"]
  /\ own' = [own EXCEPT ![d] = ~no_history]
  /\ job' = [phase |-> "write", device |-> d, version |-> v, old |-> version[d],
             blob |-> FALSE, no_history |-> no_history, reboot |-> FALSE]
  /\ UNCHANGED <<version, staged, boot, up, live>>

\* fu_engine_write_blob_for_device_id: NO_HISTORY, but write_history stays as
\* the last install left it.
BeginBlob(d, v) ==
  /\ "blob" \in Events
  /\ Updatable(d)
  /\ job' = [phase |-> "write", device |-> d, version |-> v, old |-> version[d],
             blob |-> TRUE, no_history |-> TRUE, reboot |-> FALSE]
  /\ own' = [own EXCEPT ![d] = FALSE]
  /\ UNCHANGED <<version, staged, history, boot, up, live, write_history, fate>>

Recorded(f) == IF job.no_history THEN fate ELSE [fate EXCEPT ![job.device] = f]

\* The write loop returns TRUE: the device runs the new firmware, keeps the old
\* one, or has staged the new one and asks for a reboot.
WriteDone(how) ==
  /\ job.phase = "write"
  /\ LET d == job.device IN
       CASE how = "applied" ->
              /\ version' = [version EXCEPT ![d] = job.version]
              /\ fate' = Recorded("applied")
              /\ UNCHANGED staged
         [] how = "ignored" ->
              /\ fate' = Recorded(IF version[d] = job.version THEN "applied" ELSE "lost")
              /\ UNCHANGED <<version, staged>>
         [] how = "staged" ->
              /\ staged' = [staged EXCEPT ![d] = job.version]
              /\ fate' = Recorded("waiting")
              /\ UNCHANGED version
  /\ job' = [job EXCEPT !.phase = "mark", !.reboot = (how = "staged")]
  /\ UNCHANGED <<history, boot, up, live, write_history, own>>

\* A phase failed: both callers of fu_engine_write_blob set FAILED (a plugin may
\* already have set FAILED_TRANSIENT on the device, which the install keeps).
WriteFails(s) ==
  /\ job.phase = "write"
  /\ s = "failed-transient" => ~job.blob
  /\ SetUpdateState(job.device, s)
  /\ fate' = Recorded("lost")
  /\ job' = NoJob
  /\ UNCHANGED <<version, staged, boot, up, write_history, own>>

\* fu_engine_write_blob once the write loop is complete: SUCCESS, then an explicit
\* modify_device if the update has a history.  The cleanup phase follows.
MarkSuccess ==
  /\ job.phase = "mark"
  /\ IF job.no_history THEN SetUpdateState(job.device, "success")
     ELSE /\ live' = [live EXCEPT ![job.device] = "success"]
          /\ history' = ModifyDevice(job.device, "success")
  /\ job' = [job EXCEPT !.phase = "finish"]
  /\ UNCHANGED <<version, staged, boot, up, write_history, fate, own>>

\* Mutant: the version is not compared after the update.
VersionUnchecked == TRUE

\* fu_engine_install_release_version_check, for a device that needs no reboot.
VersionCheck == job.old = job.version \/ version[job.device] # job.old

\* A blob ends with the cleanup.  An install goes on: the rest of
\* fu_engine_install_release and of fu_engine_install_releases.
Finish ==
  /\ job.phase = "finish"
  /\ IF job.blob THEN UNCHANGED <<live, history>>
     ELSE SetUpdateState(job.device, IF job.reboot THEN "needs-reboot"
                                     ELSE IF VersionCheck THEN "success" ELSE "failed")
  /\ job' = NoJob
  /\ UNCHANGED <<version, staged, boot, up, write_history, fate, own>>

\* The cleanup phase fails after the row says success.
CleanupFails ==
  /\ job.phase = "finish"
  /\ SetUpdateState(job.device, "failed")
  /\ job' = NoJob
  /\ UNCHANGED <<version, staged, boot, up, write_history, fate, own>>

-----------------------------------------------------------------------------
(* Start, stop, crash, reboot, replug.                                      *)

\* Mutant: the start of the daemon visits every row.
EveryRow(d) == history[d] # NoRow

\* The rows that fu_engine_update_history_database visits.
Waits(d) == history[d].state = "needs-reboot"

\* "service restarted, but no reboot has taken place"
SameBoot(d) == history[d].boot = boot

\* Mutant: a row whose plugin has no result is left waiting.
ResolvedLater(d, told) ==
  IF SameBoot(d) \/ told = "unknown" THEN "needs-reboot"
  ELSE IF version[d] = history[d].version THEN "success" ELSE told

\* fu_engine_update_history_device of a row that waits: the state the row gets.
\* told is what get_results of the plugin made of the device's update-state.
Resolved(d, told) ==
  IF SameBoot(d) THEN "needs-reboot"
  ELSE IF version[d] = history[d].version THEN "success"
  ELSE IF told = "unknown" THEN "failed" ELSE told

\* Mutant: the device object is not told that its row waits.
StateOnLoadForgetful(d, told) == "unknown"

\* The update-state it leaves on the new device object.
StateOnLoad(d, told) ==
  IF ~Waits(d) THEN "unknown"
  ELSE IF SameBoot(d) THEN "needs-reboot"
  ELSE IF version[d] = history[d].version THEN "unknown" ELSE told

\* fu_engine_load: the devices are enumerated, then
\* fu_engine_update_history_database visits the rows that wait.  A device may be
\* missing; the plugin may fail (reboot_cleanup or get_results), which leaves a
\* row that is due as it was.
Start(found, failing, told) ==
  /\ ~up /\ up' = TRUE
  /\ found = Device \/ "replug" \in Events
  /\ failing = {} \/ "plugin" \in Events
  /\ live' = [d \in Device |-> IF d \notin found THEN Gone
                               ELSE IF d \in failing /\ ~SameBoot(d) THEN "unknown"
                               ELSE StateOnLoad(d, told)]
  /\ history' = [d \in Device |-> IF d \in found \ failing /\ Waits(d)
                                  THEN [history[d] EXCEPT !.state = Resolved(d, told)]
                                  ELSE history[d]]
  /\ UNCHANGED <<version, staged, boot, write_history, job, fate, own>>

Halt ==
  /\ up' = FALSE /\ write_history' = FALSE /\ job' = NoJob
  /\ live' = [d \in Device |-> Gone]
  /\ own' = [d \in Device |-> FALSE]

\* The daemon stops between updates, or dies at any moment.
Stop ==
  /\ up
  /\ job = NoJob \/ "crash" \in Events
  /\ Halt
  /\ UNCHANGED <<version, staged, history, boot, fate>>

\* The machine restarts; a staged firmware is taken or not.
Reboot(taken) ==
  /\ job = NoJob \/ "crash" \in Events
  /\ boot < MaxBoot
  /\ boot' = boot + 1
  /\ Halt
  /\ taken \subseteq {d \in Device : staged[d] # Nothing}
  /\ version' = [d \in Device |-> IF d \in taken THEN staged[d] ELSE version[d]]
  /\ staged' = [d \in Device |-> Nothing]
  /\ fate' = [d \in Device |-> IF fate[d] # "waiting" THEN fate[d]
                               ELSE IF version'[d] = history[d].version THEN "applied"
                               ELSE "lost"]
  /\ UNCHANGED history

\* A device leaves the list between updates, or arrives as a new object.
Unplug(d) ==
  /\ "replug" \in Events
  /\ up /\ job = NoJob /\ live[d] # Gone
  /\ live' = [live EXCEPT ![d] = Gone]
  /\ own' = [own EXCEPT ![d] = FALSE]
  /\ UNCHANGED <<version, staged, history, boot, up, write_history, job, fate>>

Plug(d) ==
  /\ "replug" \in Events
  /\ up /\ job = NoJob /\ live[d] = Gone
  /\ live' = [live EXCEPT ![d] = "unknown"]
  /\ UNCHANGED <<version, staged, history, boot, up, write_history, job, fate, own>>

\* Mutant: a row without a result can be cleared.
ClearAnyResult(d) ==
  /\ up /\ job = NoJob
  /\ history[d] # NoRow /\ ~history[d].notified
  /\ history' = [history EXCEPT ![d].notified = TRUE]
  /\ UNCHANGED <<version, staged, boot, up, live, write_history, job, fate, own>>

\* fu_engine_clear_results of one device.
ClearResults(d) ==
  /\ up /\ job = NoJob
  /\ history[d].state \in Results /\ ~history[d].notified
  /\ history' = [history EXCEPT ![d].notified = TRUE]
  /\ UNCHANGED <<version, staged, boot, up, live, write_history, job, fate, own>>

HistoryNext ==
  \/ \E d \in Device, v \in Version, n \in BOOLEAN : BeginInstall(d, v, n)
  \/ \E d \in Device, v \in Version : BeginBlob(d, v)
  \/ \E how \in {"applied", "ignored", "staged"} : WriteDone(how)
  \/ \E s \in {"failed", "failed-transient"} : WriteFails(s)
  \/ MarkSuccess
  \/ Finish
  \/ CleanupFails
  \/ \E found, failing \in SUBSET Device, told \in {"unknown", "failed", "failed-transient"} :
       Start(found, failing, told)
  \/ Stop
  \/ \E taken \in SUBSET Device : Reboot(taken)
  \/ \E d \in Device : Unplug(d) \/ Plug(d) \/ ClearResults(d) \/ UpdateErrorChanges(d)

HistorySpec == HistoryInit /\ [][HistoryNext]_vars

-----------------------------------------------------------------------------
(* Properties.                                                              *)

\* When no update runs, a row that says "success" records an update whose
\* firmware the device took, at once or at a reboot: what GetHistory and the
\* reports that clients upload tell.
SuccessIsTrue ==
  job = NoJob => \A d \in Device : history[d].state = "success" => fate[d] = "applied"

\* No upgrade is offered, and no update accepted, for a device whose last update
\* waits for a reboot that has not happened ("don't show upgrades again until
\* we reboot"), even when the daemon has been restarted since.
UntilReboot ==
  \A d \in Device : Updatable(d) => ~(Waits(d) /\ history[d].boot = boot)

\* A running daemon has settled every row that waited for an earlier reboot: the
\* user is told whether the update was applied.
RebootResolved ==
  up => \A d \in Device : Waits(d) => history[d].boot = boot

\* Between updates the result of an update stays in the database: no restart,
\* crash, reboot, replug or start of the daemon changes it, clearing it only marks
\* it as seen, and what fu_engine_history_notify_cb writes when an inhibit changes
\* the update-error is the same result, as long as the object is the one that was
\* updated and nothing unrecorded was written to it since.
ResultKept ==
  [][\A d \in Device :
       /\ history[d].state \in Results /\ job = NoJob /\ job' = NoJob
       /\ UpdateErrorChanges(d) => own[d]
       => history'[d].state = history[d].state /\ history'[d].version = history[d].version]_vars

\* What does not hold: that the callback keeps the result of a device whose object
\* is new since the update.  write_history is on from the last recorded install, of
\* any device, and the row takes the update-state of the new object.
ResultKeptByCallback ==
  [][\A d \in Device :
       history[d].state \in Results /\ job = NoJob /\ job' = NoJob
         => history'[d].state = history[d].state]_vars
=============================================================================
