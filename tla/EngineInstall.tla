--------------------------- MODULE EngineInstall ---------------------------
(***************************************************************************)
(* The installation of a release and of a blob by the engine,              *)
(* src/fu-engine.c, composed with the device list.                         *)
(*                                                                         *)
(* An install is a sequence of phases.  A phase waits for every device     *)
(* that is expected to replug, looks the device up by its ID and calls the *)
(* plugin; the wait that ends a phase and the one that starts the next     *)
(* have nothing between them and are one wait here.  The wait iterates the *)
(* main context: hotplug callbacks run, and so do D-Bus calls, one of      *)
(* which may be another install.  Installs therefore nest: job[n] is the   *)
(* n-th of the stack and only the innermost one makes progress.            *)
(*                                                                         *)
(* A job installs one release.  What a plugin does is a choice: it fails,  *)
(* it succeeds, it expects a replug, it asks for another write.  Devices   *)
(* are not emulated and the history database does not fail; the text of    *)
(* update errors, progress, metadata and the allow-list of device-changed  *)
(* signals are left out.                                                   *)
(***************************************************************************)
EXTENDS DeviceList, Integers

CONSTANTS MaxInstalls,   \* bound: how many installs are started
          MaxDepth,      \* bound: how deep they nest
          MaxWrites,     \* FU_ENGINE_EMULATOR_WRITE_COUNT_MAX
          AcquiesceDelay, \* objects with an acquiesce delay
          Request        \* the requests clients make: <<kind, no_history>>

ASSUME InstallAssumption ==
  /\ MaxInstalls \in Nat
  /\ MaxDepth \in Nat \ {0}
  /\ MaxWrites \in Nat \ {0}
  /\ AcquiesceDelay \subseteq Device
  /\ Request \subseteq {"install", "blob"} \X BOOLEAN

Level == 1..MaxDepth

Phases == {"composite-prepare", "prepare", "enter", "loop", "detach", "write", "attach",
           "reload", "check", "cleanup", "done", "acquiesce",
           "composite-cleanup", "abort", "abort-done", "failed", "returned"}

Frame == [pc : Phases,
          kind : {"install", "blob"},
          no_history : BOOLEAN,                \* FWUPD_INSTALL_FLAG_NO_HISTORY
          orig : Device \cup {NoDevice},       \* the device of the release
          first : Device \cup {NoDevice},      \* fu_engine_install_loop: device
          writes : Nat]                        \* write_firmware calls so far

VARIABLES
  begun,         \* the number of installs started
  depth,         \* the number of installs on the stack
  job,           \* the installs
  history,       \* the update state the history database has for an ID
  watched,       \* the objects whose notifications the engine receives
  write_history, \* self->write_history
  write_cnt,     \* self->emulator_write_cnt
  restart,       \* the objects with install-loop-restart
  reply          \* what the last step returned to a client

engine == <<begun, depth, job, history, watched, write_history, write_cnt, restart,
            reply>>
allVars == <<vars, engine>>

NoFrame == [pc |-> "returned", kind |-> "install", no_history |-> TRUE,
            orig |-> NoDevice, first |-> NoDevice, writes |-> 0]

\* What an install reports about devices.
reported == <<inProgress, updateState, history>>

InstallInit ==
  /\ Init
  /\ begun = 0
  /\ depth = 0
  /\ job = [n \in Level |-> NoFrame]
  /\ history = [i \in DeviceId |-> "none"]
  /\ watched = {}
  /\ write_history = FALSE
  /\ write_cnt = 0
  /\ restart = {}
  /\ reply = "none"
-----------------------------------------------------------------------------
(* The main loop *)

frame == job[depth]

\* The main context is iterated: the daemon is at rest, or the innermost
\* install waits.
MainLoop == depth = 0 \/ waiter = "waiting"

\* No install makes a step.
Undisturbed == UNCHANGED <<begun, depth, job>> /\ reply' = "none"

\* fu_engine_history_notify_cb, for the history h
Record(h, d, state) ==
  IF write_history /\ d \in watched /\ h[Id[d]] # "none"
  THEN [h EXCEPT ![Id[d]] = state]
  ELSE h

\* The list may give a watched object the update state of another.
RecordIncorporated ==
  [i \in DeviceId |->
     LET changed == {x \in watched : /\ Id[x] = i
                                     /\ updateState'[x] # updateState[x]}
     IN  IF changed = {} THEN history[i]
         ELSE LET x == CHOOSE y \in changed : TRUE
              IN  Record(history, x, updateState'[x])[i]]

\* fu_engine_watch_device, on ::added and ::changed: the device the item had
\* before is no longer watched.
HotplugAdd(d) ==
  /\ MainLoop
  /\ Add(d)
  /\ watched' = IF signalled' = {} THEN watched
                ELSE (watched \cup {d}) \
                       {it.device_old : it \in {x \in items' : x.device = d}}
  /\ history' = RecordIncorporated
  /\ Undisturbed
  /\ UNCHANGED <<write_history, write_cnt, restart>>

\* fu_engine_device_removed_cb, on ::removed.
HotplugRemove(d) ==
  /\ MainLoop
  /\ Remove(d)
  /\ watched' = IF signalled' = {} THEN watched
                ELSE watched \ UNION {RemovedObjects(it, d) : it \in FindById(Id[d])}
  /\ Undisturbed
  /\ UNCHANGED <<history, write_history, write_cnt, restart>>

HotplugTimer(it) ==
  /\ MainLoop
  /\ DelayedRemove(it)
  /\ watched' = watched \ RemovedObjects(it, it.device)
  /\ Undisturbed
  /\ UNCHANGED <<history, write_history, write_cnt, restart>>
-----------------------------------------------------------------------------
(* Parts of a phase *)

\* Problems hide the updatable flag: an update in progress, an unreachable
\* device.
Updatable(d) == d \notin inProgress /\ "unconnected" \notin flags[d]

\* fu_device_list_get_by_id: the object, or none.
Found == {it.device : it \in FindById(Id[frame.orig])}

\* The wait of fu_engine_get_device has ended well in this phase.
Phase(name) == depth > 0 /\ frame.pc = name /\ waiter = "success"

Goto(f) ==
  /\ job' = [job EXCEPT ![depth] = f]
  /\ waiter' = "idle"
  /\ reply' = "none"
  /\ UNCHANGED <<begun, depth>>

\* The result reaches the client and the install below resumes its wait.
Return(result) ==
  /\ job' = [job EXCEPT ![depth] = NoFrame]
  /\ reply' = result
  /\ depth' = depth - 1
  /\ waiter' = IF depth = 1 THEN "idle" ELSE "waiting"
  /\ UNCHANGED begun

\* fu_device_set_update_state, which notifies only of a change.
RecordChange(d, state) ==
  IF updateState[d] = state THEN history ELSE Record(history, d, state)

\* A device that needs a reboot keeps that state, any other is updated.
MarkSuccess(d) ==
  IF updateState[d] = "needs-reboot"
  THEN UNCHANGED <<inProgress, updateState>>
  ELSE /\ updateState' = [updateState EXCEPT ![d] = "success"]
       /\ inProgress' = ProblemAfter(inProgress, d, "success")

\* A plugin may leave the device d it worked on waiting for a replug.
MayReplug(d) ==
  flags' \in {flags,
              [flags EXCEPT ![d] = @ \cup {"wait-for-replug", "remove-delay"}]}

\* Mutant: the failed device stays marked as being updated.
WriteBlobFailedMarked(p, u, h) ==
  LET d == frame.orig
  IN  /\ updateState' = [u EXCEPT ![d] = "failed"]
      /\ inProgress' = p
      /\ history' = Record(h, d, "failed")
      /\ IF frame.kind = "install" THEN Goto([frame EXCEPT !.pc = "failed"])
                                   ELSE Return("error")

\* fu_engine_write_blob returned FALSE when the problem was p, the update
\* states u and the history h.  The failure is told to the device of the
\* release, which need not be in the list any more.
WriteBlobFailed(p, u, h) ==
  LET d == frame.orig
      state == IF /\ frame.kind = "install"
                  /\ u[d] \in {"failed", "failed-transient"}
               THEN u[d] ELSE "failed"
  IN  /\ updateState' = [u EXCEPT ![d] = state]
      /\ inProgress' = ProblemAfter(p, d, state)
      /\ history' = Record(h, d, state)
      /\ IF frame.kind = "install" THEN Goto([frame EXCEPT !.pc = "failed"])
                                   ELSE Return("error")

\* The usual failure: nothing was changed before.
Fail == WriteBlobFailed(inProgress, updateState, history)

KeepList == UNCHANGED <<items, counterparts, children>> /\ signalled' = {}
-----------------------------------------------------------------------------
(* The phases *)

\* fu_engine_install_releases (up to the wait of fu_engine_composite_prepare)
\* and fu_engine_write_blob_for_device_id.  The device of a release was looked
\* up before the client was authorized: it may have been replaced since.
Begin(d, kind, no_history) ==
  /\ MainLoop
  /\ depth < MaxDepth
  /\ begun < MaxInstalls
  /\ begun' = begun + 1
  /\ \E it \in items : d \in {it.device, it.device_old}
  /\ kind = "blob" => /\ no_history
                      /\ \E it \in FindById(Id[d]) : it.device = d
                      /\ Updatable(d)
  /\ depth' = depth + 1
  /\ job' = [job EXCEPT ![depth + 1] =
               [NoFrame EXCEPT
                  !.orig = d, !.kind = kind, !.no_history = no_history,
                  !.pc = IF kind = "blob" THEN "prepare" ELSE "composite-prepare"]]
  /\ waiter' = "idle"
  /\ reply' = "none"
  /\ KeepList
  /\ UNCHANGED <<flags, reported, watched, write_history, write_cnt, restart>>

\* fu_engine_install_release, up to fu_engine_write_blob: a device hidden by a
\* problem is refused; the plugin or the metadata may be missing.
InstallRelease ==
  /\ Phase("composite-prepare")
  /\ \/ /\ ~Updatable(frame.orig)
        /\ Goto([frame EXCEPT !.pc = "failed"])
        /\ UNCHANGED <<history, write_history>>
     \/ /\ Updatable(frame.orig)
        /\ write_history' = ~frame.no_history
        /\ \/ /\ Goto([frame EXCEPT !.pc = "failed"])
              /\ UNCHANGED history
           \/ /\ Goto([frame EXCEPT !.pc = "prepare"])
              /\ history' = IF frame.no_history THEN history
                            ELSE [history EXCEPT
                                    ![Id[frame.orig]] = updateState[frame.orig]]
  /\ KeepList
  /\ UNCHANGED <<flags, inProgress, updateState, watched, write_cnt, restart>>

\* A phase in which fu_device_list_get_by_id fails.
NotFound ==
  /\ \E p \in {"prepare", "enter", "loop", "detach", "write", "attach", "reload",
               "check", "cleanup", "abort"} : Phase(p)
  /\ frame.pc = "reload" => frame.first \notin restart
  /\ Found = {}
  /\ Fail
  /\ KeepList
  /\ UNCHANGED <<flags, watched, write_history, write_cnt, restart>>

\* Mutant: the device is not marked as being updated.
PrepareUnmarked ==
  /\ Phase("prepare")
  /\ \E d \in Found : MayReplug(d)
  /\ Goto([frame EXCEPT !.pc = "enter"])
  /\ KeepList
  /\ UNCHANGED <<reported, watched, write_history, write_cnt, restart>>

\* fu_engine_prepare: from here on the device has the update-in-progress
\* problem.  Without the power that it needs the failure is transient.
Prepare ==
  /\ Phase("prepare")
  /\ \E d \in Found :
        \/ /\ WriteBlobFailed(ProblemAfter(inProgress, d, "failed-transient"),
                              [updateState EXCEPT ![d] = "failed-transient"],
                              RecordChange(d, "failed-transient"))
           /\ UNCHANGED flags
        \/ /\ WriteBlobFailed(inProgress \cup {d}, updateState, history)
           /\ UNCHANGED flags
        \/ /\ Goto([frame EXCEPT !.pc = "enter"])
           /\ inProgress' = inProgress \cup {d}
           /\ MayReplug(d)
           /\ UNCHANGED <<updateState, history>>
  /\ KeepList
  /\ UNCHANGED <<watched, write_history, write_cnt, restart>>

\* fu_engine_install_loop, the preparation of one iteration; before the first
\* one fu_engine_write_blob resets the counter.
InstallLoop ==
  /\ Phase("enter") \/ Phase("loop")
  /\ write_cnt' = IF frame.pc = "enter" THEN 0 ELSE write_cnt
  /\ \E d \in Found :
        /\ restart' = restart \ {d}
        /\ flags' = [flags EXCEPT ![d] = @ \ {"another-write-required"}]
        /\ Goto([frame EXCEPT !.pc = "detach", !.first = d])
  /\ KeepList
  /\ UNCHANGED <<reported, watched, write_history>>

\* fu_engine_detach, and fu_engine_prepare_firmware when that comes before.  A
\* client that cannot show a request has to submit again.
Detach ==
  /\ Phase("detach")
  /\ \E d \in Found :
        \/ Fail /\ MayReplug(d)
        \/ /\ Fail
           /\ flags' = [flags EXCEPT ![d] = @ \ {"wait-for-replug"}]
        \/ /\ Goto([frame EXCEPT !.pc = "write"])
           /\ MayReplug(d)
           /\ UNCHANGED reported
  /\ KeepList
  /\ UNCHANGED <<watched, write_history, write_cnt, restart>>

\* Mutant: the iterations are counted down.
NextIterationDown(f) ==
  /\ write_cnt' = write_cnt - 1
  /\ Goto([f EXCEPT !.pc = "loop"])
  /\ UNCHANGED reported

\* Mutant: one iteration too many.
NextIterationOneMore(f) ==
  /\ write_cnt' = IF write_cnt < MaxWrites THEN write_cnt + 1 ELSE write_cnt
  /\ IF write_cnt < MaxWrites
     THEN Goto([f EXCEPT !.pc = "loop"]) /\ UNCHANGED reported
     ELSE Fail

\* The next iteration of the loop of fu_engine_write_blob, if there is one.
NextIteration(f) ==
  /\ write_cnt' = write_cnt + 1
  /\ IF write_cnt + 1 < MaxWrites
     THEN Goto([f EXCEPT !.pc = "loop"]) /\ UNCHANGED reported
     ELSE Fail

\* fu_engine_write_firmware when the plugin succeeds.  Whether to restart the
\* loop is read from the object that was active before the detach.
WriteFirmware ==
  /\ Phase("write")
  /\ \E d \in Found :
        LET f == [frame EXCEPT !.writes = @ + 1]
        IN  /\ flags' \in {flags,
                           [flags EXCEPT ![d] = @ \cup {"wait-for-replug", "remove-delay"}],
                           [flags EXCEPT ![d] = @ \cup {"another-write-required"}]}
            /\ restart' \in {restart, restart \cup {d}}
            /\ IF f.first \in restart'
               THEN NextIteration(f)
               ELSE /\ Goto([f EXCEPT !.pc = "attach"])
                    /\ UNCHANGED <<reported, write_cnt>>
  /\ KeepList
  /\ UNCHANGED <<watched, write_history>>

\* fu_engine_write_firmware when the plugin fails: the device is attached, and
\* cleaned up in the phases that follow.  fu_engine_prepare_firmware after the
\* detach, and what precedes the plugin's write, fail without that.
WriteFirmwareFails ==
  /\ Phase("write")
  /\ \E d \in Found :
        \/ \E state \in {"failed", "failed-transient"} :
              /\ updateState' = [updateState EXCEPT ![d] = state]
              /\ inProgress' = ProblemAfter(inProgress, d, state)
              /\ history' = RecordChange(d, state)
              /\ MayReplug(d)
              /\ Goto([frame EXCEPT !.pc = "abort", !.writes = @ + 1])
        \/ Fail /\ UNCHANGED flags
  /\ KeepList
  /\ UNCHANGED <<watched, write_history, write_cnt, restart>>

\* fu_engine_attach
Attach ==
  /\ Phase("attach")
  /\ \E d \in Found :
        /\ MayReplug(d)
        /\ \/ Fail /\ UNCHANGED restart
           \/ /\ Goto([frame EXCEPT !.pc = "reload"])
              /\ restart' \in {restart, restart \cup {d}}
              /\ UNCHANGED reported
  /\ KeepList
  /\ UNCHANGED <<watched, write_history, write_cnt>>

\* The loop restarts after the attach.
AttachRestart ==
  /\ Phase("reload")
  /\ frame.first \in restart
  /\ NextIteration(frame)
  /\ KeepList
  /\ UNCHANGED <<flags, watched, write_history, restart>>

\* fu_engine_reload: a device that will disappear is not reloaded; another may
\* replug.  The plugin may be missing.
Reload ==
  /\ Phase("reload")
  /\ frame.first \notin restart
  /\ \E d \in Found :
        /\ "will-disappear" \in flags[d] => UNCHANGED flags
        /\ MayReplug(d)
        /\ \/ Goto([frame EXCEPT !.pc = "check"]) /\ UNCHANGED reported
           \/ Fail
  /\ KeepList
  /\ UNCHANGED <<watched, write_history, write_cnt, restart>>

\* The end of fu_engine_install_loop and, when the write is complete, of the
\* loop of fu_engine_write_blob: the database is told of the success.
CheckComplete ==
  /\ Phase("check")
  /\ \E d \in Found :
        \/ /\ "another-write-required" \in flags[d]
           /\ NextIteration(frame)
        \/ /\ "another-write-required" \notin flags[d]
           /\ write_cnt' = 0
           /\ MarkSuccess(frame.orig)
           /\ LET o == frame.orig
              IN  history' = IF frame.no_history THEN RecordChange(o, updateState'[o])
                             ELSE [history EXCEPT ![Id[o]] = updateState'[o]]
           /\ Goto([frame EXCEPT !.pc = "cleanup"])
  /\ KeepList
  /\ UNCHANGED <<flags, watched, write_history, restart>>

\* fu_engine_cleanup, after a success and after a failed write, whose result it
\* does not change.
Cleanup ==
  /\ Phase("cleanup") \/ Phase("abort")
  /\ \E d \in Found :
        /\ MayReplug(d)
        /\ \/ /\ Goto([frame EXCEPT !.pc = IF @ = "abort" THEN "abort-done"
                                                          ELSE "done"])
              /\ inProgress' = inProgress \ {d}
              /\ UNCHANGED <<updateState, history>>
           \/ WriteBlobFailed(inProgress \ {d}, updateState, history)
  /\ KeepList
  /\ UNCHANGED <<watched, write_history, write_cnt, restart>>

\* The failed write is reported once the cleanup has waited.
AbortDone ==
  /\ Phase("abort-done")
  /\ Fail
  /\ KeepList
  /\ UNCHANGED <<flags, watched, write_history, write_cnt, restart>>

\* fu_engine_write_blob_for_device_id returns.
BlobDone ==
  /\ Phase("done")
  /\ frame.kind = "blob"
  /\ Return("success")
  /\ KeepList
  /\ UNCHANGED <<flags, reported, watched, write_history, write_cnt, restart>>

\* The rest of fu_engine_install_release: the device may have gone or the file
\* that asks for a reboot cannot be written; the device may need a reboot; or
\* the update is complete, and the system may have to acquiesce.
InstallDone ==
  /\ Phase("done")
  /\ frame.kind = "install"
  /\ \/ Goto([frame EXCEPT !.pc = "failed"]) /\ UNCHANGED reported
     \/ /\ Found # {}
        /\ updateState' = [updateState EXCEPT ![frame.orig] = "needs-reboot"]
        /\ inProgress' = ProblemAfter(inProgress, frame.orig, "needs-reboot")
        /\ history' = RecordChange(frame.orig, "needs-reboot")
        /\ Goto([frame EXCEPT !.pc = "composite-cleanup"])
     \/ \E d \in Found :
          /\ MarkSuccess(d)
          /\ history' = RecordChange(d, updateState'[d])
          /\ IF frame.orig \in AcquiesceDelay
             THEN /\ job' = [job EXCEPT ![depth].pc = "acquiesce"]
                  /\ waiter' = "waiting"
                  /\ reply' = "none"
                  /\ UNCHANGED <<begun, depth>>
             ELSE Goto([frame EXCEPT !.pc = "composite-cleanup"])
  /\ KeepList
  /\ UNCHANGED <<flags, watched, write_history, write_cnt, restart>>

\* fu_engine_acquiesce_timeout_cb
Acquiesced ==
  /\ depth > 0
  /\ frame.pc = "acquiesce"
  /\ waiter = "waiting"
  /\ Goto([frame EXCEPT !.pc = "composite-cleanup"])
  /\ KeepList
  /\ UNCHANGED <<flags, reported, watched, write_history, write_cnt, restart>>

\* Mutant: the failed version check is not returned.
InstallReturnsAnyway ==
  /\ Phase("composite-cleanup")
  /\ Return("success")
  /\ \E d \in Found :
        /\ updateState' = [updateState EXCEPT ![d] = "failed"]
        /\ inProgress' = ProblemAfter(inProgress, d, "failed")
        /\ history' = RecordChange(d, "failed")
  /\ KeepList
  /\ UNCHANGED <<flags, watched, write_history, write_cnt, restart>>

\* The end of fu_engine_install_releases: the composite action is cleaned up, the
\* version is expected to have changed, and the release is published.
InstallReturns ==
  /\ Phase("composite-cleanup")
  /\ \/ \E result \in {"success", "error"} : Return(result) /\ UNCHANGED reported
     \/ \E d \in Found :
           /\ updateState' = [updateState EXCEPT ![d] = "failed"]
           /\ inProgress' = ProblemAfter(inProgress, d, "failed")
           /\ history' = RecordChange(d, "failed")
           /\ Return("error")
  /\ KeepList
  /\ UNCHANGED <<flags, watched, write_history, write_cnt, restart>>

\* fu_engine_install_releases after a failure, once the composite action is
\* cleaned up.
InstallFailed ==
  /\ Phase("failed")
  /\ Return("error")
  /\ KeepList
  /\ UNCHANGED <<flags, reported, watched, write_history, write_cnt, restart>>
-----------------------------------------------------------------------------
(* Waiting *)

\* fu_device_list_wait_for_replug, called by the innermost install.
Wait ==
  /\ depth > 0
  /\ frame.pc # "acquiesce"
  /\ \/ waiter = "idle" /\ WaitStart
     \/ WaitDone
     \/ WaitTimeout
  /\ Undisturbed
  /\ UNCHANGED <<history, watched, write_history, write_cnt, restart>>

\* The device did not come back.
WaitFailed ==
  /\ depth > 0
  /\ waiter = "failed"
  /\ IF frame.pc \in {"composite-prepare", "composite-cleanup", "failed"}
     THEN Return("error") /\ UNCHANGED reported
     ELSE Fail
  /\ KeepList
  /\ UNCHANGED <<flags, watched, write_history, write_cnt, restart>>
-----------------------------------------------------------------------------
InstallStep ==
  \/ InstallRelease \/ NotFound \/ Prepare \/ InstallLoop \/ Detach
  \/ WriteFirmware \/ WriteFirmwareFails \/ Attach \/ AttachRestart \/ Reload
  \/ CheckComplete \/ Cleanup \/ AbortDone \/ BlobDone \/ InstallDone
  \/ Acquiesced \/ InstallReturns \/ InstallFailed \/ Wait \/ WaitFailed

InstallNext ==
  \/ \E d \in Device : HotplugAdd(d) \/ HotplugRemove(d)
  \/ \E it \in items : HotplugTimer(it)
  \/ \E d \in Device, r \in Request : Begin(d, r[1], r[2])
  \/ InstallStep

InstallSpec == InstallInit /\ [][InstallNext]_allVars

\* An install that is not waiting runs on, and a wait ends at its deadline.
InstallLiveSpec == InstallSpec /\ WF_allVars(InstallStep)
-----------------------------------------------------------------------------
(* Properties *)

\* The stack of installs stays within its bounds and each install is in one of
\* its phases; the database has an update state or nothing for an ID.
InstallTypeOK ==
  /\ TypeOK
  /\ begun \in 0..MaxInstalls
  /\ depth \in 0..MaxDepth
  /\ job \in [Level -> Frame]
  /\ history \in [DeviceId -> UpdateState \cup {"none"}]
  /\ watched \subseteq Device
  /\ write_history \in BOOLEAN
  /\ write_cnt \in Nat
  /\ restart \subseteq Device
  /\ reply \in {"none", "success", "error"}

\* Job n returns.
Returns(n, result) == depth = n /\ reply' = result

\* When the client is told that a release was installed the database has the
\* update as done, whatever replugs, restarts of the loop and other installs
\* came in between.  (A device with an acquiesce delay can be updated again before
\* the first install returns: the row is then that of the later install.)
SuccessRecorded ==
  [][\A n \in Level :
        Returns(n, "success") /\ ~job[n].no_history =>
           history'[Id[job[n].orig]] \in {"success", "needs-reboot"}]_allVars

\* When fu_engine_write_blob fails after the device was written to, the
\* database has the update as failed.
FailureRecorded ==
  [][\A n \in Level :
        /\ depth = n
        /\ job[n].pc \notin {"composite-prepare", "done", "failed"}
        /\ job'[n].pc = "failed"
        /\ job[n].writes > 0
        /\ ~job[n].no_history
        => history'[Id[job[n].orig]] \in {"failed", "failed-transient"}]_allVars

\* The loop of fu_engine_write_blob writes to a device at most
\* FU_ENGINE_EMULATOR_WRITE_COUNT_MAX times.
WritesBounded == \A n \in Level : job[n].writes <= MaxWrites

\* Job n is in the loop that detaches, writes and attaches the device.
Writing(n) ==
  n <= depth /\ job[n].pc \in {"enter", "loop", "detach", "write", "attach",
                               "reload", "check"}

\* Two installs never both detach, write or attach the device with one ID, even
\* when one is started while the other waits for a replug: the device of the
\* second one has the update-in-progress problem.
OneWriterPerDevice ==
  \A m, n \in Level :
     Writing(m) /\ Writing(n) /\ Id[job[m].orig] = Id[job[n].orig] => m = n

\* As OneWriterPerDevice, where the install that has yet to attach and clean up
\* the device after a failed write counts as well.
Updating(n) == Writing(n) \/ (n <= depth /\ job[n].pc = "abort")

OneUpdatePerDevice ==
  \A m, n \in Level :
     Updating(m) /\ Updating(n) /\ Id[job[m].orig] = Id[job[n].orig] => m = n

\* A device that cannot be updated because it is being updated is being updated,
\* or waits for a reboot: no failure leaves the problem behind.
ProblemMeansUpdating ==
  \A it \in items :
     it.device \in inProgress => depth > 0 \/ updateState[it.device] = "needs-reboot"

\* A plugin that asks, during the write, for the loop to be restarted is not
\* attached.
RestartHonoured ==
  [][Phase("write") /\ restart' # restart => job'[depth].pc # "attach"]_allVars

\* Every install returns, also those that other installs interrupt.
InstallsReturn == \A n \in Level : depth >= n ~> depth < n
=============================================================================
