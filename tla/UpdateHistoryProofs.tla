------------------------ MODULE UpdateHistoryProofs ------------------------
(***************************************************************************)
(* Proofs about UpdateHistory, for every set of devices and versions and   *)
(* any number of boots.  Where a theorem does not hold under all events,   *)
(* its hypothesis names those that it excludes.                            *)
(***************************************************************************)
EXTENDS UpdateHistory, TLAPS

\* Most leaves are first-order: Zenon proves them, SMT is named where there is
\* arithmetic or an instance of a lemma to be found.
USE Zenon

\* Nothing in the database is known of a device that is added after the daemon
\* has started: what depends on the update-state that the daemon gives to a
\* device at its start is about devices that stay.
DevicesStay == "replug" \notin Events

\* The object of a device whose row waits for a reboot of this boot has the
\* needs-reboot state; and an update runs on a device that is there and did not
\* have that state.  This is what makes UntilReboot inductive: an update may
\* change the update-state of the object only together with the row, or when
\* the row does not wait.
Inherited ==
  \A d \in Device : live[d] # Gone /\ Waits(d) /\ SameBoot(d) => live[d] = "needs-reboot"

JobOnLiveDevice ==
  job # NoJob => live[job.device] \notin {Gone, "needs-reboot"}

HistoryInv == HistoryTypeOK /\ Inherited /\ JobOnLiveDevice

USE DEF Nothing, Gone, NoRow, NoJob, States, Results

\* A job in one of its phases is a job.
LEMMA JobTyped ==
  ASSUME HistoryTypeOK, job.phase # "none"
  PROVE  job \in Jobs /\ job.device \in Device
BY SMT DEF HistoryTypeOK, Jobs

\* fu_history_modify_device keeps the database well formed, and changes no more
\* than the state and the flags of one row.
LEMMA ModifyTyped ==
  ASSUME HistoryTypeOK, NEW d \in Device, NEW s \in States
  PROVE  /\ ModifyDevice(d, s) \in [Device -> Rows \cup {NoRow}]
         /\ \A e \in Device :
              /\ e # d => ModifyDevice(d, s)[e] = history[e]
              /\ ModifyDevice(d, s)[e].boot = history[e].boot
              /\ ModifyDevice(d, s)[e] # NoRow /\ ModifyDevice(d, s)[e].notified
                    => ModifyDevice(d, s)[e].state \in Results
         /\ ModifyDevice(d, s)[d].state \in {s, "none"}
<1>1. CASE history[d] = NoRow
  BY <1>1, SMT DEF ModifyDevice, HistoryTypeOK
<1>2. CASE history[d] # NoRow
  <2>1. history[d] \in Rows
    BY <1>2 DEF HistoryTypeOK
  <2>2. ModifyDevice(d, s) = [history EXCEPT ![d] = [history[d] EXCEPT !.state = s, !.notified = FALSE]]
    BY <1>2, <2>1 DEF ModifyDevice, HistoryTypeOK, Rows
  <2>3. [history[d] EXCEPT !.state = s, !.notified = FALSE] \in Rows
    BY <2>1 DEF Rows
  <2> QED
    BY <2>1, <2>2, <2>3, SMT DEF HistoryTypeOK, Rows
<1> QED
  BY <1>1, <1>2

\* What fu_device_set_update_state does to the object and to the database.
LEMMA SetUpdateStateTyped ==
  ASSUME HistoryTypeOK, NEW d \in Device, NEW s \in States, SetUpdateState(d, s)
  PROVE  /\ live' \in [Device -> States \cup {Gone}]
         /\ live'[d] = s
         /\ history' \in [Device -> Rows \cup {NoRow}]
         /\ history'[d].state \in {history[d].state, s, "none"}
         /\ \A e \in Device :
              /\ e # d => history'[e] = history[e] /\ live'[e] = live[e]
              /\ history'[e].boot = history[e].boot
              /\ history'[e] # NoRow /\ history'[e].notified => history'[e].state \in Results
<1>1. live' \in [Device -> States \cup {Gone}] /\ live'[d] = s
      /\ \A e \in Device : e # d => live'[e] = live[e]
  BY DEF SetUpdateState, HistoryTypeOK
<1>2. CASE history' = history
  BY <1>1, <1>2 DEF HistoryTypeOK
<1>3. CASE history' = ModifyDevice(d, s)
  BY <1>1, <1>3, ModifyTyped, SMT
<1> QED
  BY <1>2, <1>3 DEF SetUpdateState, Notified

\* What the callback writes when the update-error of an object changes.
LEMMA ErrorChangeTyped ==
  ASSUME HistoryTypeOK, NEW d \in Device, UpdateErrorChanges(d)
  PROVE  /\ live[d] \in States
         /\ history' \in [Device -> Rows \cup {NoRow}]
         /\ history'[d].state \in {history[d].state, live[d], "none"}
         /\ \A e \in Device :
              /\ e # d => history'[e] = history[e]
              /\ history'[e].boot = history[e].boot
              /\ history'[e] # NoRow /\ history'[e].notified => history'[e].state \in Results
<1>1. live[d] \in States
  BY DEF UpdateErrorChanges, HistoryTypeOK
<1>2. CASE history' = history
  BY <1>1, <1>2 DEF HistoryTypeOK
<1>3. CASE history' = ModifyDevice(d, live[d])
  BY <1>1, <1>3, ModifyTyped, SMT
<1> QED
  BY <1>2, <1>3 DEF UpdateErrorChanges, Notified

-----------------------------------------------------------------------------
(* Types.                                                                    *)

LEMMA TypesInit == HistoryInit => HistoryTypeOK
<1> SUFFICES ASSUME HistoryInit PROVE HistoryTypeOK
  OBVIOUS
<1>1. boot \in 1..MaxBoot
  BY BootAssumption, SMT DEF HistoryInit
<1>2. history \in [Device -> Rows \cup {NoRow}] /\ \A d \in Device : history[d] = NoRow
  BY DEF HistoryInit
<1>3. live \in [Device -> States \cup {Gone}] /\ \A d \in Device : live[d] = Gone
  BY DEF HistoryInit
<1>4. /\ staged \in [Device -> Version \cup {Nothing}]
      /\ fate \in [Device -> {"none", "running", "waiting", "applied", "lost"}]
      /\ own \in [Device -> BOOLEAN]
  BY DEF HistoryInit
<1> QED
  BY <1>1, <1>2, <1>3, <1>4 DEF HistoryInit, HistoryTypeOK

\* A step that sets the update-state of the device of the job and ends the job.
LEMMA TypesJobEnds ==
  ASSUME HistoryTypeOK, up, job.phase # "none", NEW s \in States,
         SetUpdateState(job.device, s), job' = NoJob,
         fate' = fate \/ \E f \in {"applied", "lost"} : fate' = Recorded(f),
         UNCHANGED <<version, staged, boot, up, write_history, own>>
  PROVE  HistoryTypeOK'
<1>1. job.device \in Device
  BY JobTyped
<1>2. fate' \in [Device -> {"none", "running", "waiting", "applied", "lost"}]
  BY <1>1 DEF Recorded, HistoryTypeOK
<1>3. /\ live' \in [Device -> States \cup {Gone}]
      /\ history' \in [Device -> Rows \cup {NoRow}]
      /\ \A e \in Device : history'[e] # NoRow /\ history'[e].notified => history'[e].state \in Results
  BY <1>1, SetUpdateStateTyped
<1> QED
  BY <1>2, <1>3 DEF HistoryTypeOK

LEMMA TypesStep ==
  ASSUME HistoryTypeOK, [HistoryNext]_vars
  PROVE  HistoryTypeOK'
<1>1. ASSUME NEW d \in Device, NEW v \in Version, NEW n \in BOOLEAN, BeginInstall(d, v, n)
      PROVE  HistoryTypeOK'
  <2>1. live[d] \in States
    BY <1>1 DEF BeginInstall, Updatable, HistoryTypeOK
  <2>2. [state |-> live[d], version |-> v, boot |-> boot, notified |-> FALSE] \in Rows
    BY <2>1 DEF Rows, HistoryTypeOK
  <2>3. history' \in [Device -> Rows \cup {NoRow}]
    BY <1>1, <2>2 DEF BeginInstall, AddDevice, HistoryTypeOK
  <2>4. \A e \in Device : history'[e] # NoRow /\ history'[e].notified => history'[e].state \in Results
    BY <1>1 DEF BeginInstall, AddDevice, HistoryTypeOK
  <2>5. job' \in Jobs
    BY <1>1 DEF BeginInstall, Jobs, HistoryTypeOK
  <2>6. fate' \in [Device -> {"none", "running", "waiting", "applied", "lost"}]
    BY <1>1 DEF BeginInstall, HistoryTypeOK
  <2> QED
    BY <1>1, <2>3, <2>4, <2>5, <2>6 DEF BeginInstall, Updatable, HistoryTypeOK
<1>2. ASSUME NEW d \in Device, NEW v \in Version, BeginBlob(d, v)
      PROVE  HistoryTypeOK'
  <2>1. job' \in Jobs
    BY <1>2 DEF BeginBlob, Jobs, HistoryTypeOK
  <2> QED
    BY <1>2, <2>1 DEF BeginBlob, Updatable, HistoryTypeOK
<1>3. ASSUME NEW how \in {"applied", "ignored", "staged"}, WriteDone(how)
      PROVE  HistoryTypeOK'
  <2>1. job \in Jobs /\ job.device \in Device /\ up
    BY <1>3, JobTyped, SMT DEF WriteDone, HistoryTypeOK
  <2>2. job' \in Jobs
    BY <1>3, <2>1 DEF WriteDone, Jobs
  <2>3. /\ version' \in [Device -> Version]
        /\ staged' \in [Device -> Version \cup {Nothing}]
        /\ fate' \in [Device -> {"none", "running", "waiting", "applied", "lost"}]
    <3>1. job.version \in Version
      BY <2>1 DEF Jobs
    <3> QED
      BY <1>3, <2>1, <3>1 DEF WriteDone, Recorded, HistoryTypeOK
  <2> QED
    BY <1>3, <2>1, <2>2, <2>3 DEF WriteDone, HistoryTypeOK
<1>4. ASSUME NEW s \in {"failed", "failed-transient"}, WriteFails(s)
      PROVE  HistoryTypeOK'
  <2>1. up
    BY <1>4, SMT DEF WriteFails, HistoryTypeOK
  <2> QED
    BY <1>4, <2>1, TypesJobEnds DEF WriteFails
<1>5. CASE MarkSuccess
  <2>1. job \in Jobs /\ job.device \in Device /\ up
    BY <1>5, JobTyped, SMT DEF MarkSuccess, HistoryTypeOK
  <2>2. job' \in Jobs
    BY <1>5, <2>1 DEF MarkSuccess, Jobs
  <2>3. /\ history' \in [Device -> Rows \cup {NoRow}]
        /\ \A e \in Device : history'[e] # NoRow /\ history'[e].notified => history'[e].state \in Results
    <3>1. CASE history' = history
      BY <3>1 DEF HistoryTypeOK
    <3>2. CASE history' = ModifyDevice(job.device, "success")
      BY <2>1, <3>2, ModifyTyped, SMT
    <3> QED
      BY <1>5, <3>1, <3>2 DEF MarkSuccess, SetUpdateState, Notified
  <2>4. live' \in [Device -> States \cup {Gone}]
    BY <1>5 DEF MarkSuccess, SetUpdateState, HistoryTypeOK
  <2> QED
    BY <1>5, <2>1, <2>2, <2>3, <2>4 DEF MarkSuccess, HistoryTypeOK
<1>6. CASE Finish
  <2>1. up
    BY <1>6, SMT DEF Finish, HistoryTypeOK
  <2>2. CASE job.blob
    BY <1>6, <2>1, <2>2 DEF Finish, HistoryTypeOK
  <2>3. CASE ~job.blob
    <3>1. PICK s \in {"needs-reboot", "success", "failed"} : SetUpdateState(job.device, s)
      BY <1>6, <2>3 DEF Finish
    <3> QED
      BY <1>6, <2>1, <3>1, TypesJobEnds DEF Finish
  <2> QED
    BY <2>2, <2>3
<1>7. CASE CleanupFails
  <2>1. up
    BY <1>7, SMT DEF CleanupFails, HistoryTypeOK
  <2> QED
    BY <1>7, <2>1, TypesJobEnds DEF CleanupFails
<1>8. ASSUME NEW found \in SUBSET Device, NEW failing \in SUBSET Device,
             NEW told \in {"unknown", "failed", "failed-transient"}, Start(found, failing, told)
      PROVE  HistoryTypeOK'
  <2>1. live' \in [Device -> States \cup {Gone}]
    BY <1>8 DEF Start, StateOnLoad
  <2>2. ASSUME NEW d \in Device, Waits(d)
        PROVE  /\ [history[d] EXCEPT !.state = Resolved(d, told)] \in Rows
               /\ ~history[d].notified
    <3>1. history[d] \in Rows /\ ~history[d].notified
      BY <2>2, SMT DEF Waits, HistoryTypeOK, Rows
    <3>2. Resolved(d, told) \in States
      BY DEF Resolved
    <3> QED
      BY <3>1, <3>2 DEF Rows
  <2>3. history' \in [Device -> Rows \cup {NoRow}]
    BY <1>8, <2>2 DEF Start, HistoryTypeOK
  <2>4. ASSUME NEW e \in Device, history'[e] # NoRow, history'[e].notified
        PROVE  history'[e].state \in Results
    <3>1. CASE history'[e] = history[e]
      BY <2>4, <3>1 DEF HistoryTypeOK
    <3>2. CASE Waits(e) /\ history'[e] = [history[e] EXCEPT !.state = Resolved(e, told)]
      BY <2>2, <2>4, <3>2 DEF HistoryTypeOK, Waits, Rows
    <3> QED
      BY <1>8, <3>1, <3>2 DEF Start
  <2> QED
    BY <1>8, <2>1, <2>3, <2>4 DEF Start, HistoryTypeOK
<1>9. CASE Stop
  BY <1>9 DEF Stop, Halt, HistoryTypeOK
<1>10. ASSUME NEW taken \in SUBSET Device, Reboot(taken)
       PROVE  HistoryTypeOK'
  <2>1. boot' \in 1..MaxBoot
    BY <1>10, BootAssumption, SMT DEF Reboot, HistoryTypeOK
  <2>2. /\ version' \in [Device -> Version]
        /\ staged' \in [Device -> Version \cup {Nothing}]
    BY <1>10 DEF Reboot, HistoryTypeOK
  <2>3. fate' \in [Device -> {"none", "running", "waiting", "applied", "lost"}]
    BY <1>10 DEF Reboot, HistoryTypeOK
  <2> QED
    BY <1>10, <2>1, <2>2, <2>3 DEF Reboot, Halt, HistoryTypeOK
<1>11. ASSUME NEW d \in Device, Unplug(d)
       PROVE  HistoryTypeOK'
  BY <1>11 DEF Unplug, HistoryTypeOK
<1>12. ASSUME NEW d \in Device, Plug(d)
       PROVE  HistoryTypeOK'
  BY <1>12 DEF Plug, HistoryTypeOK
<1>13. ASSUME NEW d \in Device, ClearResults(d)
       PROVE  HistoryTypeOK'
  <2>1. history[d] \in Rows
    BY <1>13, SMT DEF ClearResults, HistoryTypeOK
  <2>2. history' = [history EXCEPT ![d] = [history[d] EXCEPT !.notified = TRUE]]
    BY <1>13, <2>1 DEF ClearResults, HistoryTypeOK
  <2>3. [history[d] EXCEPT !.notified = TRUE] \in Rows
    BY <2>1 DEF Rows
  <2>4. history' \in [Device -> Rows \cup {NoRow}]
    BY <2>2, <2>3 DEF HistoryTypeOK
  <2>5. \A e \in Device : history'[e] # NoRow /\ history'[e].notified => history'[e].state \in Results
    BY <1>13, <2>1, <2>2, SMT DEF ClearResults, HistoryTypeOK, Rows
  <2> QED
    BY <1>13, <2>4, <2>5 DEF ClearResults, HistoryTypeOK
<1>14. ASSUME NEW d \in Device, UpdateErrorChanges(d)
       PROVE  HistoryTypeOK'
  BY <1>14, ErrorChangeTyped DEF UpdateErrorChanges, HistoryTypeOK
<1>15. CASE UNCHANGED vars
  BY <1>15 DEF vars, HistoryTypeOK
<1> QED
  BY <1>1, <1>2, <1>3, <1>4, <1>5, <1>6, <1>7, <1>8, <1>9, <1>10, <1>11, <1>12, <1>13, <1>14,
     <1>15
  DEF HistoryNext

\* The state of the history is well formed, whatever happens: in particular only
\* a result can be marked as seen by fu_engine_clear_results, and no update, no
\* device object and no set write_history outlives the daemon.
THEOREM HistoryTypeCorrect == HistorySpec => []HistoryTypeOK
<1>1. HistoryTypeOK /\ [HistoryNext]_vars => HistoryTypeOK'
  BY TypesStep
<1> QED
  BY <1>1, TypesInit, PTL DEF HistorySpec

-----------------------------------------------------------------------------
(* No second update before the reboot.                                       *)

\* A step that only sets the update-state of the device of the job keeps the
\* object and the row in step: the row did not wait before, and waits after
\* only if the object does.
LEMMA InheritedAfterSet ==
  ASSUME HistoryInv, job.phase # "none", NEW s \in States,
         SetUpdateState(job.device, s), boot' = boot
  PROVE  Inherited'
<1>1. job.device \in Device /\ job # NoJob
  BY JobTyped, SMT DEF HistoryInv
<1>2. ~(Waits(job.device) /\ SameBoot(job.device))
  BY <1>1 DEF HistoryInv, Inherited, JobOnLiveDevice
<1> USE SetUpdateStateTyped, <1>1
<1>3. /\ live'[job.device] = s
      /\ history'[job.device].state \in {history[job.device].state, s, "none"}
      /\ \A e \in Device : /\ e # job.device => history'[e] = history[e] /\ live'[e] = live[e]
                           /\ history'[e].boot = history[e].boot
  BY SMT DEF HistoryInv
<1> QED
  BY <1>2, <1>3, SMT DEF HistoryInv, Inherited, Waits, SameBoot

LEMMA InvStep ==
  ASSUME DevicesStay, HistoryInv, [HistoryNext]_vars
  PROVE  Inherited' /\ JobOnLiveDevice'
<1> USE DEF HistoryInv
<1>1. ASSUME NEW d \in Device, NEW v \in Version, NEW n \in BOOLEAN, BeginInstall(d, v, n)
      PROVE  Inherited' /\ JobOnLiveDevice'
  <2>1. JobOnLiveDevice'
    BY <1>1 DEF BeginInstall, Updatable, JobOnLiveDevice
  <2>2. ASSUME NEW e \in Device, e # d
        PROVE  history'[e] = history[e]
    BY <1>1, <2>2 DEF BeginInstall, AddDevice, HistoryTypeOK
  <2>3. history'[d] = history[d] \/ history'[d].state = live[d]
    BY <1>1 DEF BeginInstall, AddDevice, HistoryTypeOK
  <2> QED
    BY <1>1, <2>1, <2>2, <2>3 DEF BeginInstall, Updatable, Inherited, Waits, SameBoot
<1>2. ASSUME NEW d \in Device, NEW v \in Version, BeginBlob(d, v)
      PROVE  Inherited' /\ JobOnLiveDevice'
  BY <1>2 DEF BeginBlob, Updatable, Inherited, JobOnLiveDevice, Waits, SameBoot
<1>3. ASSUME NEW how \in {"applied", "ignored", "staged"}, WriteDone(how)
      PROVE  Inherited' /\ JobOnLiveDevice'
  <2>1. job \in Jobs
    BY <1>3, JobTyped DEF WriteDone
  <2>2. job'.device = job.device /\ job # NoJob
    BY <1>3, <2>1, SMT DEF WriteDone, Jobs
  <2> QED
    BY <1>3, <2>2 DEF WriteDone, Inherited, JobOnLiveDevice, Waits, SameBoot
<1>4. ASSUME NEW s \in {"failed", "failed-transient"}, WriteFails(s)
      PROVE  Inherited' /\ JobOnLiveDevice'
  BY <1>4, InheritedAfterSet DEF WriteFails, JobOnLiveDevice
<1>5. CASE MarkSuccess
  <2>1. job \in Jobs /\ job.device \in Device /\ job # NoJob
    BY <1>5, JobTyped, SMT DEF MarkSuccess
  <2>2. job'.device = job.device
    BY <1>5, <2>1 DEF MarkSuccess, Jobs
  <2>3. JobOnLiveDevice'
    BY <1>5, <2>1, <2>2 DEF MarkSuccess, SetUpdateState, JobOnLiveDevice, HistoryTypeOK
  <2>4. ~(Waits(job.device) /\ SameBoot(job.device))
    BY <2>1 DEF Inherited, JobOnLiveDevice
  <2>5. /\ history'[job.device].state \in {history[job.device].state, "success", "none"}
        /\ \A e \in Device : /\ e # job.device => history'[e] = history[e]
                             /\ history'[e].boot = history[e].boot
    BY <1>5, <2>1, ModifyTyped, SMT DEF MarkSuccess, SetUpdateState, Notified
  <2>6. \A e \in Device : e # job.device => live'[e] = live[e]
    BY <1>5 DEF MarkSuccess, SetUpdateState, HistoryTypeOK
  <2> QED
    BY <1>5, <2>3, <2>4, <2>5, <2>6 DEF MarkSuccess, Inherited, Waits, SameBoot
<1>6. CASE Finish
  <2>1. CASE job.blob
    BY <1>6, <2>1 DEF Finish, Inherited, JobOnLiveDevice, Waits, SameBoot
  <2>2. CASE ~job.blob
    <3>1. PICK s \in {"needs-reboot", "success", "failed"} : SetUpdateState(job.device, s)
      BY <1>6, <2>2 DEF Finish
    <3> QED
      BY <1>6, <3>1, InheritedAfterSet DEF Finish, JobOnLiveDevice
  <2> QED
    BY <2>1, <2>2
<1>7. CASE CleanupFails
  BY <1>7, InheritedAfterSet DEF CleanupFails, JobOnLiveDevice
<1>8. ASSUME NEW found \in SUBSET Device, NEW failing \in SUBSET Device,
             NEW told \in {"unknown", "failed", "failed-transient"}, Start(found, failing, told)
      PROVE  Inherited' /\ JobOnLiveDevice'
  <2>1. job = NoJob /\ job' = NoJob
    BY <1>8 DEF Start, HistoryTypeOK
  <2>2. ASSUME NEW d \in Device, live'[d] # Gone, Waits(d)', SameBoot(d)'
        PROVE  live'[d] = "needs-reboot"
    <3>1. history'[d].boot = history[d].boot
      BY <1>8, SMT DEF Start, HistoryTypeOK, Rows, Waits
    <3>2. SameBoot(d)
      BY <1>8, <2>2, <3>1 DEF Start, SameBoot
    <3>3. Waits(d)
      BY <1>8, <2>2 DEF Start, Waits
    <3> QED
      BY <1>8, <2>2, <3>2, <3>3 DEF Start, StateOnLoad
  <2> QED
    BY <2>1, <2>2 DEF Inherited, JobOnLiveDevice
<1>9. CASE Stop
  BY <1>9 DEF Stop, Halt, Inherited, JobOnLiveDevice
<1>10. ASSUME NEW taken \in SUBSET Device, Reboot(taken)
       PROVE  Inherited' /\ JobOnLiveDevice'
  BY <1>10 DEF Reboot, Halt, Inherited, JobOnLiveDevice
<1>11. ASSUME NEW d \in Device, Unplug(d) \/ Plug(d)
       PROVE  Inherited' /\ JobOnLiveDevice'
  BY <1>11 DEF Unplug, Plug, DevicesStay
<1>12. ASSUME NEW d \in Device, ClearResults(d)
       PROVE  Inherited' /\ JobOnLiveDevice'
  <2>1. \A e \in Device : history'[e].state = history[e].state /\ history'[e].boot = history[e].boot
    BY <1>12, SMT DEF ClearResults, HistoryTypeOK, Rows
  <2> QED
    BY <1>12, <2>1 DEF ClearResults, Inherited, JobOnLiveDevice, Waits, SameBoot
<1>13. ASSUME NEW d \in Device, UpdateErrorChanges(d)
       PROVE  Inherited' /\ JobOnLiveDevice'
  BY <1>13, ErrorChangeTyped, SMT DEF UpdateErrorChanges, Inherited, JobOnLiveDevice, Waits, SameBoot
<1>14. CASE UNCHANGED vars
  BY <1>14 DEF vars, Inherited, JobOnLiveDevice, Waits, SameBoot
<1> QED
  BY <1>1, <1>2, <1>3, <1>4, <1>5, <1>6, <1>7, <1>8, <1>9, <1>10, <1>11, <1>12, <1>13, <1>14
  DEF HistoryNext

\* A device whose row waits for a reboot that has not happened is not updated
\* again, whatever restarts and crashes of the daemon come in between, as long
\* as the device does not leave: fu_engine_update_history_device gives the
\* needs-reboot state back to the object of the restarted daemon.
THEOREM UntilRebootCorrect == DevicesStay => (HistorySpec => []UntilReboot)
<1> SUFFICES ASSUME DevicesStay PROVE HistorySpec => []UntilReboot
  OBVIOUS
<1>1. HistoryInit => HistoryInv
  BY TypesInit DEF HistoryInit, HistoryInv, Inherited, JobOnLiveDevice
<1>2. HistoryInv /\ [HistoryNext]_vars => HistoryInv'
  BY TypesStep, InvStep DEF HistoryInv
<1>3. HistoryInv => UntilReboot
  BY DEF HistoryInv, Inherited, UntilReboot, Updatable, SameBoot
<1> QED
  BY <1>1, <1>2, <1>3, PTL DEF HistorySpec

-----------------------------------------------------------------------------
(* Results are kept.                                                         *)

\* An object whose last update the row records has the state of the row: each of
\* its update-states reached the database, because the install set write_history.
\* Nothing else in the daemon keeps the two together.
OwnInv ==
  /\ \A d \in Device : own[d] => up /\ history[d] # NoRow /\ live[d] = history[d].state
  /\ job # NoJob /\ own[job.device] => write_history /\ ~job.no_history

\* A new update-state reaches the row of an object whose update is recorded.
LEMMA OwnAfterSet ==
  ASSUME HistoryTypeOK, OwnInv, job.phase # "none", NEW s \in States,
         SetUpdateState(job.device, s), UNCHANGED <<up, own>>
  PROVE  \A d \in Device : own'[d] => up' /\ history'[d] # NoRow /\ live'[d] = history'[d].state
<1>1. job.device \in Device /\ job # NoJob
  BY JobTyped, SMT
<1>2. ASSUME NEW d \in Device, own[d], d # job.device
      PROVE  history'[d] = history[d] /\ live'[d] = live[d]
  BY <1>1, <1>2, SetUpdateStateTyped, SMT
<1>3. ASSUME own[job.device]
      PROVE  history'[job.device] # NoRow /\ live'[job.device] = history'[job.device].state
  <2>1. /\ history[job.device] \in Rows /\ history[job.device] # NoRow /\ write_history
        /\ live[job.device] = history[job.device].state
    BY <1>1, <1>3 DEF OwnInv, HistoryTypeOK
  <2>2. CASE history' = history /\ live[job.device] = s
    BY <1>1, <2>1, <2>2, SetUpdateStateTyped, SMT
  <2>3. CASE history' = ModifyDevice(job.device, s)
    <3>1. history'[job.device] = [history[job.device] EXCEPT !.state = s, !.notified = FALSE]
      BY <1>1, <2>1, <2>3 DEF ModifyDevice, HistoryTypeOK, Rows
    <3>2. history'[job.device].state = s /\ history'[job.device] \in Rows
      BY <2>1, <3>1 DEF Rows
    <3>3. history'[job.device] # NoRow
      BY <3>2, SMT
    <3> QED
      BY <1>1, <3>2, <3>3, SetUpdateStateTyped, SMT
  <2> QED
    BY <2>1, <2>2, <2>3 DEF SetUpdateState, Notified
<1> QED
  BY <1>2, <1>3 DEF OwnInv

LEMMA OwnStep ==
  ASSUME HistoryTypeOK, OwnInv, [HistoryNext]_vars
  PROVE  OwnInv'
<1>1. ASSUME NEW d \in Device, NEW v \in Version, NEW n \in BOOLEAN, BeginInstall(d, v, n)
      PROVE  OwnInv'
  <2>1. job'.device = d /\ job'.no_history = n /\ (write_history' <=> ~n) /\ up /\ up'
    BY <1>1 DEF BeginInstall, Updatable
  <2>2. own'[d] = ~n /\ UNCHANGED live /\ live[d] \in States
    BY <1>1 DEF BeginInstall, Updatable, HistoryTypeOK
  <2>3. ASSUME NEW e \in Device, e # d
        PROVE  history'[e] = history[e] /\ own'[e] = own[e]
    BY <1>1, <2>3 DEF BeginInstall, AddDevice, HistoryTypeOK
  <2>4. ASSUME ~n PROVE history'[d].state = live[d] /\ history'[d] # NoRow
    <3>1. history'[d] = [state |-> live[d], version |-> v, boot |-> boot, notified |-> FALSE]
      BY <1>1, <2>4 DEF BeginInstall, AddDevice, HistoryTypeOK
    <3> QED
      BY <2>2, <3>1, SMT
  <2> QED
    BY <2>1, <2>2, <2>3, <2>4 DEF OwnInv
<1>2. ASSUME NEW d \in Device, NEW v \in Version, BeginBlob(d, v)
      PROVE  OwnInv'
  <2>1. /\ job'.device = d /\ ~own'[d] /\ UNCHANGED <<history, up, live>>
        /\ \A e \in Device : own'[e] => own[e]
    BY <1>2 DEF BeginBlob, HistoryTypeOK
  <2> QED
    BY <2>1 DEF OwnInv
<1>3. ASSUME NEW how \in {"applied", "ignored", "staged"}, WriteDone(how)
      PROVE  OwnInv'
  <2>1. job \in Jobs
    BY <1>3, JobTyped DEF WriteDone
  <2>2. job'.device = job.device /\ job'.no_history = job.no_history /\ job # NoJob
    BY <1>3, <2>1, SMT DEF WriteDone, Jobs
  <2> QED
    BY <1>3, <2>2 DEF WriteDone, OwnInv
<1>4. ASSUME NEW s \in {"failed", "failed-transient"}, WriteFails(s)
      PROVE  OwnInv'
  BY <1>4, OwnAfterSet DEF WriteFails, OwnInv
<1>5. CASE MarkSuccess
  <2>1. job \in Jobs /\ job.device \in Device
    BY <1>5, JobTyped DEF MarkSuccess
  <2>2. job'.device = job.device /\ job'.no_history = job.no_history /\ job # NoJob
    BY <1>5, <2>1, SMT DEF MarkSuccess, Jobs
  <2>3. UNCHANGED <<up, own, write_history>> /\ job.phase # "none"
    BY <1>5 DEF MarkSuccess
  <2>4. CASE job.no_history
    <3>1. SetUpdateState(job.device, "success")
      BY <1>5, <2>4 DEF MarkSuccess
    <3> QED
      BY <2>2, <2>3, <3>1, OwnAfterSet DEF OwnInv
  <2>5. CASE ~job.no_history
    <3>1. history' = ModifyDevice(job.device, "success") /\ live' = [live EXCEPT ![job.device] = "success"]
      BY <1>5, <2>5 DEF MarkSuccess
    <3>2. ASSUME own[job.device]
          PROVE  history'[job.device] # NoRow /\ live'[job.device] = history'[job.device].state
      <4>1. history[job.device] \in Rows /\ history[job.device] # NoRow
        BY <2>1, <3>2 DEF OwnInv, HistoryTypeOK
      <4>2. history'[job.device] = [history[job.device] EXCEPT !.state = "success", !.notified = FALSE]
        BY <2>1, <3>1, <4>1 DEF ModifyDevice, HistoryTypeOK, Rows
      <4>3. history'[job.device].state = "success" /\ history'[job.device] \in Rows
        BY <4>1, <4>2 DEF Rows
      <4>4. live'[job.device] = "success"
        BY <2>1, <3>1 DEF HistoryTypeOK
      <4> QED
        BY <4>3, <4>4, SMT
    <3>3. \A e \in Device : e # job.device => history'[e] = history[e] /\ live'[e] = live[e]
      BY <2>1, <3>1, ModifyTyped, SMT DEF HistoryTypeOK
    <3> QED
      BY <2>2, <2>3, <3>2, <3>3 DEF OwnInv
  <2> QED
    BY <2>4, <2>5
<1>6. CASE Finish
  <2>1. CASE job.blob
    BY <1>6, <2>1 DEF Finish, OwnInv
  <2>2. CASE ~job.blob
    <3>1. PICK s \in {"needs-reboot", "success", "failed"} : SetUpdateState(job.device, s)
      BY <1>6, <2>2 DEF Finish
    <3> QED
      BY <1>6, <3>1, OwnAfterSet DEF Finish, OwnInv
  <2> QED
    BY <2>1, <2>2
<1>7. CASE CleanupFails
  BY <1>7, OwnAfterSet DEF CleanupFails, OwnInv
<1>8. ASSUME NEW found \in SUBSET Device, NEW failing \in SUBSET Device,
             NEW told \in {"unknown", "failed", "failed-transient"}, Start(found, failing, told)
      PROVE  OwnInv'
  BY <1>8 DEF Start, OwnInv, HistoryTypeOK
<1>9. CASE Stop \/ \E taken \in SUBSET Device : Reboot(taken)
  BY <1>9 DEF Stop, Reboot, Halt, OwnInv
<1>10. ASSUME NEW d \in Device, Unplug(d)
       PROVE  OwnInv'
  BY <1>10 DEF Unplug, OwnInv, HistoryTypeOK
<1>11. ASSUME NEW d \in Device, Plug(d)
       PROVE  OwnInv'
  <2>1. ~own[d]
    BY <1>11 DEF Plug, OwnInv, HistoryTypeOK, Rows
  <2> QED
    BY <1>11, <2>1 DEF Plug, OwnInv, HistoryTypeOK
<1>12. ASSUME NEW d \in Device, ClearResults(d)
       PROVE  OwnInv'
  <2>1. history[d] \in Rows
    BY <1>12, SMT DEF ClearResults, HistoryTypeOK
  <2>2. history'[d] = [history[d] EXCEPT !.notified = TRUE]
        /\ \A e \in Device : e # d => history'[e] = history[e]
    BY <1>12, <2>1 DEF ClearResults, HistoryTypeOK
  <2>3. history'[d].state = history[d].state /\ history'[d] \in Rows
    BY <2>1, <2>2 DEF Rows
  <2>4. history'[d] # NoRow
    BY <1>12, <2>3, SMT DEF ClearResults
  <2> QED
    BY <1>12, <2>2, <2>3, <2>4, SMT DEF ClearResults, OwnInv
<1>13. ASSUME NEW d \in Device, UpdateErrorChanges(d)
       PROVE  OwnInv'
  <2>1. UNCHANGED <<up, live, write_history, job, own>>
    BY <1>13 DEF UpdateErrorChanges
  <2>2. ASSUME own[d] PROVE history'[d] # NoRow /\ history'[d].state = live[d]
    <3>1. history[d] \in Rows /\ history[d] # NoRow /\ history[d].state = live[d]
      BY <2>2 DEF OwnInv, HistoryTypeOK
    <3>2. CASE history' = history
      BY <3>1, <3>2
    <3>3. CASE history' = ModifyDevice(d, live[d])
      <4>1. history'[d] = [history[d] EXCEPT !.state = live[d], !.notified = FALSE]
        BY <3>1, <3>3 DEF ModifyDevice, HistoryTypeOK, Rows
      <4>2. history'[d].state = live[d] /\ history'[d] \in Rows
        BY <1>13, <3>1, <4>1, ErrorChangeTyped DEF Rows
      <4>3. live[d] # "none"
        BY <1>13, ErrorChangeTyped
      <4> QED
        BY <4>2, <4>3, SMT
    <3> QED
      BY <1>13, <3>2, <3>3 DEF UpdateErrorChanges, Notified
  <2>3. \A e \in Device : e # d => history'[e] = history[e]
    BY <1>13, ErrorChangeTyped, SMT
  <2> QED
    BY <2>1, <2>2, <2>3 DEF OwnInv
<1>14. CASE UNCHANGED vars
  BY <1>14 DEF vars, OwnInv
<1> QED
  BY <1>1, <1>2, <1>3, <1>4, <1>5, <1>6, <1>7, <1>8, <1>9, <1>10, <1>11, <1>12, <1>13, <1>14
  DEF HistoryNext

\* Between updates the result of an update stays in the database, whatever happens
\* to the daemon, the machine, the devices and the plugins: the start of the daemon
\* rewrites only rows that wait, clearing a result writes only its flag, and the
\* callback of an update-error writes the same result again, if the object is the
\* one that was updated and nothing unrecorded was written to it since.
THEOREM ResultKeptCorrect == HistorySpec => ResultKept
<1> DEFINE Kept(d) ==
      /\ history[d].state \in Results /\ job = NoJob /\ job' = NoJob
      /\ UpdateErrorChanges(d) => own[d]
      => history'[d].state = history[d].state /\ history'[d].version = history[d].version
<1>1. HistoryTypeOK /\ OwnInv /\ [HistoryNext]_vars => [\A d \in Device : Kept(d)]_vars
  <2> SUFFICES ASSUME HistoryTypeOK, OwnInv, HistoryNext, NEW d \in Device,
                      history[d].state \in Results, job = NoJob, job' = NoJob,
                      UpdateErrorChanges(d) => own[d]
               PROVE  /\ history'[d].state = history[d].state
                      /\ history'[d].version = history[d].version
    OBVIOUS
  <2>1. history[d] \in Rows /\ ~Waits(d)
    BY SMT DEF HistoryTypeOK, Waits
  <2>2. job.phase = "none" /\ job'.phase = "none"
    OBVIOUS
  <2>3. ASSUME NEW e \in Device, NEW v \in Version, NEW n \in BOOLEAN,
               BeginInstall(e, v, n) \/ BeginBlob(e, v)
        PROVE  FALSE
    BY <2>2, <2>3 DEF BeginInstall, BeginBlob
  <2>4. ASSUME \/ \E how \in {"applied", "ignored", "staged"} : WriteDone(how)
               \/ \E s \in {"failed", "failed-transient"} : WriteFails(s)
               \/ MarkSuccess \/ Finish \/ CleanupFails
        PROVE  FALSE
    BY <2>2, <2>4 DEF WriteDone, WriteFails, MarkSuccess, Finish, CleanupFails
  <2>5. ASSUME NEW found, NEW failing, NEW told, Start(found, failing, told)
        PROVE  history'[d] = history[d]
    BY <2>1, <2>5 DEF Start
  <2>6. ASSUME \/ Stop \/ \E taken \in SUBSET Device : Reboot(taken)
               \/ \E e \in Device : Unplug(e) \/ Plug(e)
        PROVE  history'[d] = history[d]
    BY <2>6 DEF Stop, Reboot, Unplug, Plug
  <2>7. ASSUME NEW e \in Device, ClearResults(e)
        PROVE  /\ history'[d].state = history[d].state
               /\ history'[d].version = history[d].version
    BY <2>1, <2>7 DEF ClearResults, HistoryTypeOK, Rows
  <2>8. ASSUME NEW e \in Device, UpdateErrorChanges(e)
        PROVE  /\ history'[d].state = history[d].state
               /\ history'[d].version = history[d].version
    <3>1. CASE e # d \/ history' = history
      BY <2>8, <3>1, ErrorChangeTyped, SMT
    <3>2. CASE e = d /\ history' = ModifyDevice(d, live[d])
      <4>1. live[d] = history[d].state
        BY <2>8, <3>2 DEF OwnInv
      <4> QED
        BY <2>1, <3>2, <4>1 DEF ModifyDevice, HistoryTypeOK, Rows
    <3> QED
      BY <2>8, <3>1, <3>2 DEF UpdateErrorChanges, Notified
  <2> QED
    BY <2>3, <2>4, <2>5, <2>6, <2>7, <2>8 DEF HistoryNext
<1>2. HistoryInit => OwnInv
  BY DEF HistoryInit, OwnInv
<1>3. HistoryTypeOK /\ OwnInv /\ [HistoryNext]_vars => OwnInv'
  BY OwnStep
<1> QED
  BY <1>1, <1>2, <1>3, HistoryTypeCorrect, PTL DEF HistorySpec, ResultKept

-----------------------------------------------------------------------------
(* Rows that waited for a reboot are settled.                                *)

\* get_results and reboot_cleanup of the plugins do not fail.
PluginsWork == "plugin" \notin Events

\* No install leaves its update out of the database, or no update-error changes
\* outside an install.  Otherwise the callback can give the row of an earlier update
\* the state that an unrecorded one left on the object.
AllRecorded == "no-history" \notin Events \/ "inhibit" \notin Events

\* An object that waits for a reboot has a row of this boot, so that the callback
\* of its update-error makes no older row wait.
Stamped ==
  /\ \A d \in Device : live[d] = "needs-reboot" => SameBoot(d)
  /\ job # NoJob /\ ~job.blob => SameBoot(job.device)

\* The inductive invariant: an install makes a row wait only if it inserted it
\* in this boot.  (A blob may rewrite the row of an earlier update, but never
\* makes it wait.)
SettledInv ==
  /\ up => \A d \in Device : Waits(d) => SameBoot(d)
  /\ job # NoJob /\ ~job.blob /\ write_history => SameBoot(job.device)
  /\ "inhibit" \in Events => Stamped

\* The boot of a row changes only when an install replaces the row.
LEMMA BootKept ==
  ASSUME HistoryTypeOK, HistoryNext, ~\E d \in Device, v \in Version : BeginInstall(d, v, FALSE)
  PROVE  \A e \in Device : history'[e].boot = history[e].boot
<1>1. ASSUME NEW d \in Device, NEW v \in Version, NEW n \in BOOLEAN,
             BeginInstall(d, v, n) \/ BeginBlob(d, v)
      PROVE  history' = history
  BY <1>1 DEF BeginInstall, BeginBlob
<1>2. ASSUME NEW how \in {"applied", "ignored", "staged"}, WriteDone(how)
      PROVE  history' = history
  BY <1>2 DEF WriteDone
<1>3. ASSUME job.phase # "none", NEW s \in States,
             history' = history \/ history' = ModifyDevice(job.device, s)
      PROVE  \A e \in Device : history'[e].boot = history[e].boot
  BY <1>3, JobTyped, ModifyTyped, SMT
<1>4. ASSUME NEW s \in {"failed", "failed-transient"}, WriteFails(s)
      PROVE  \A e \in Device : history'[e].boot = history[e].boot
  BY <1>3, <1>4 DEF WriteFails, SetUpdateState, Notified
<1>5. CASE MarkSuccess
  <2>1. job.phase # "none" /\ (history' = history \/ history' = ModifyDevice(job.device, "success"))
    BY <1>5 DEF MarkSuccess, SetUpdateState, Notified
  <2> QED
    BY <1>3, <2>1
<1>6. CASE Finish
  <2>1. /\ job.phase # "none"
        /\ \/ history' = history
           \/ \E s \in {"needs-reboot", "success", "failed"} : history' = ModifyDevice(job.device, s)
    BY <1>6 DEF Finish, SetUpdateState, Notified
  <2> QED
    BY <1>3, <2>1
<1>7. CASE CleanupFails
  <2>1. job.phase # "none" /\ (history' = history \/ history' = ModifyDevice(job.device, "failed"))
    BY <1>7 DEF CleanupFails, SetUpdateState, Notified
  <2> QED
    BY <1>3, <2>1
<1>8. ASSUME NEW found \in SUBSET Device, NEW failing \in SUBSET Device,
             NEW told \in {"unknown", "failed", "failed-transient"}, Start(found, failing, told)
      PROVE  \A e \in Device : history'[e].boot = history[e].boot
  BY <1>8, SMT DEF Start, HistoryTypeOK, Rows, Waits
<1>9. ASSUME \/ Stop \/ \E taken \in SUBSET Device : Reboot(taken)
             \/ \E e \in Device : Unplug(e) \/ Plug(e)
      PROVE  history' = history
  BY <1>9 DEF Stop, Reboot, Unplug, Plug
<1>10. ASSUME NEW d \in Device, ClearResults(d)
       PROVE  \A e \in Device : history'[e].boot = history[e].boot
  BY <1>10, SMT DEF ClearResults, HistoryTypeOK, Rows
<1>11. ASSUME NEW d \in Device, UpdateErrorChanges(d)
       PROVE  \A e \in Device : history'[e].boot = history[e].boot
  BY <1>11, ErrorChangeTyped
<1> QED
  BY <1>1, <1>2, <1>4, <1>5, <1>6, <1>7, <1>8, <1>9, <1>10, <1>11 DEF HistoryNext

LEMMA StampedStep ==
  ASSUME "no-history" \notin Events, HistoryTypeOK, Stamped, [HistoryNext]_vars
  PROVE  Stamped'
<1>1. CASE UNCHANGED vars
  BY <1>1 DEF vars, Stamped, SameBoot
<1>2. ASSUME NEW d \in Device, NEW v \in Version, NEW n \in BOOLEAN, BeginInstall(d, v, n)
      PROVE  Stamped'
  <2>1. ~n /\ job'.device = d /\ UNCHANGED <<boot, live>>
    BY <1>2 DEF BeginInstall
  <2>2. history'[d].boot = boot /\ \A e \in Device : e # d => history'[e] = history[e]
    BY <1>2, <2>1 DEF BeginInstall, AddDevice, HistoryTypeOK
  <2> QED
    BY <2>1, <2>2 DEF Stamped, SameBoot
<1>3. ASSUME HistoryNext, ~\E d \in Device, v \in Version, n \in BOOLEAN : BeginInstall(d, v, n)
      PROVE  Stamped'
  <2>1. \A e \in Device : history'[e].boot = history[e].boot
    BY <1>3, BootKept
  <2>2. ASSUME NEW d \in Device, NEW v \in Version, BeginBlob(d, v)
        PROVE  Stamped'
    BY <2>1, <2>2 DEF BeginBlob, Stamped, SameBoot
  <2>3. ASSUME NEW how \in {"applied", "ignored", "staged"}, WriteDone(how)
        PROVE  Stamped'
    <3>1. job \in Jobs /\ job.device \in Device /\ job # NoJob
      BY <2>3, JobTyped, SMT DEF WriteDone
    <3>2. job'.device = job.device /\ job'.blob = job.blob
      BY <2>3, <3>1 DEF WriteDone, Jobs
    <3>3. UNCHANGED <<boot, live>>
      BY <2>3 DEF WriteDone
    <3> QED
      BY <2>1, <3>1, <3>2, <3>3 DEF Stamped, SameBoot
  <2>4. ASSUME job.phase # "none", NEW s \in States, s = "needs-reboot" => ~job.blob,
               live' = [live EXCEPT ![job.device] = s], boot' = boot, job' = NoJob
        PROVE  Stamped'
    <3>1. job.device \in Device /\ job # NoJob
      BY <2>4, JobTyped, SMT
    <3>2. live'[job.device] = s /\ \A e \in Device : e # job.device => live'[e] = live[e]
      BY <2>4, <3>1 DEF HistoryTypeOK
    <3> QED
      BY <2>1, <2>4, <3>1, <3>2 DEF Stamped, SameBoot
  <2>5. ASSUME NEW s \in {"failed", "failed-transient"}, WriteFails(s)
        PROVE  Stamped'
    BY <2>4, <2>5 DEF WriteFails, SetUpdateState
  <2>6. CASE MarkSuccess
    <3>1. job \in Jobs /\ job.device \in Device /\ job # NoJob
      BY <2>6, JobTyped, SMT DEF MarkSuccess
    <3>2. job'.device = job.device /\ job'.blob = job.blob
      BY <2>6, <3>1 DEF MarkSuccess, Jobs
    <3>3. boot' = boot /\ live' = [live EXCEPT ![job.device] = "success"]
      BY <2>6 DEF MarkSuccess, SetUpdateState
    <3>4. \A e \in Device : live'[e] = "needs-reboot" => live[e] = "needs-reboot"
      BY <3>1, <3>3 DEF HistoryTypeOK
    <3> QED
      BY <2>1, <3>1, <3>2, <3>3, <3>4 DEF Stamped, SameBoot
  <2>7. CASE Finish
    <3>1. CASE job.blob
      BY <2>1, <2>7, <3>1 DEF Finish, Stamped, SameBoot
    <3>2. CASE ~job.blob
      <4>1. PICK s \in {"needs-reboot", "success", "failed"} : SetUpdateState(job.device, s)
        BY <2>7, <3>2 DEF Finish
      <4> QED
        BY <2>4, <2>7, <3>2, <4>1 DEF Finish, SetUpdateState
    <3> QED
      BY <3>1, <3>2
  <2>8. CASE CleanupFails
    BY <2>4, <2>8 DEF CleanupFails, SetUpdateState
  <2>9. ASSUME NEW found \in SUBSET Device, NEW failing \in SUBSET Device,
               NEW told \in {"unknown", "failed", "failed-transient"}, Start(found, failing, told)
        PROVE  Stamped'
    <3>1. job' = NoJob /\ boot' = boot
      BY <2>9 DEF Start, HistoryTypeOK
    <3>2. \A e \in Device : live'[e] = "needs-reboot" => SameBoot(e)
      BY <2>9 DEF Start, StateOnLoad
    <3> QED
      BY <2>1, <3>1, <3>2 DEF Stamped, SameBoot
  <2>10. CASE Stop \/ \E taken \in SUBSET Device : Reboot(taken)
    BY <2>10 DEF Stop, Reboot, Halt, Stamped
  <2>11. ASSUME NEW d \in Device, Unplug(d) \/ Plug(d)
         PROVE  Stamped'
    <3>1. \A e \in Device : live'[e] = "needs-reboot" => live[e] = "needs-reboot"
      BY <2>11 DEF Unplug, Plug, HistoryTypeOK
    <3>2. job' = NoJob /\ boot' = boot
      BY <2>11 DEF Unplug, Plug
    <3> QED
      BY <2>1, <3>1, <3>2 DEF Stamped, SameBoot
  <2>12. ASSUME NEW d \in Device, ClearResults(d) \/ UpdateErrorChanges(d)
         PROVE  Stamped'
    <3>1. UNCHANGED <<live, job, boot>>
      BY <2>12 DEF ClearResults, UpdateErrorChanges
    <3>2. job # NoJob => job.device \in Device
      BY DEF HistoryTypeOK, Jobs
    <3> QED
      BY <2>1, <3>1, <3>2 DEF Stamped, SameBoot
  <2> QED
    BY <1>3, <2>2, <2>3, <2>5, <2>6, <2>7, <2>8, <2>9, <2>10, <2>11, <2>12 DEF HistoryNext
<1> QED
  BY <1>1, <1>2, <1>3

\* A step of the job that gives the row of its device the state s, or leaves it.
LEMMA SettledAfterSet ==
  ASSUME HistoryTypeOK, SettledInv, job.phase # "none", NEW s \in States,
         s = "needs-reboot" => ~job.blob,
         \/ history' = history
         \/ history' = ModifyDevice(job.device, s) /\ (s = "needs-reboot" => write_history),
         UNCHANGED <<boot, up>>
  PROVE  /\ up' => \A d \in Device : Waits(d)' => SameBoot(d)'
         /\ SameBoot(job.device) => history'[job.device].boot = boot'
<1>1. job.device \in Device /\ job # NoJob
  BY JobTyped, SMT
<1>2. CASE history' = history
  BY <1>1, <1>2 DEF SettledInv, Waits, SameBoot
<1>3. CASE history' = ModifyDevice(job.device, s) /\ (s = "needs-reboot" => write_history)
  <2>1. /\ history'[job.device].state \in {s, "none"}
        /\ \A e \in Device : /\ e # job.device => history'[e] = history[e]
                             /\ history'[e].boot = history[e].boot
    BY <1>1, <1>3, ModifyTyped, SMT
  <2>2. s = "needs-reboot" => SameBoot(job.device)
    BY <1>1, <1>3 DEF SettledInv
  <2> QED
    BY <1>1, <2>1, <2>2 DEF SettledInv, Waits, SameBoot
<1> QED
  BY <1>2, <1>3

LEMMA SettledStep ==
  ASSUME DevicesStay, PluginsWork, AllRecorded, HistoryTypeOK, SettledInv, [HistoryNext]_vars
  PROVE  SettledInv'
<1>0. "inhibit" \in Events => Stamped'
  BY StampedStep DEF SettledInv, AllRecorded
<1>1. ASSUME NEW d \in Device, NEW v \in Version, NEW n \in BOOLEAN, BeginInstall(d, v, n)
      PROVE  SettledInv'
  <2>1. \A e \in Device : e # d => history'[e] = history[e]
    BY <1>1 DEF BeginInstall, AddDevice, HistoryTypeOK
  <2>2. \/ history'[d] = history[d] /\ ~write_history'
        \/ history'[d].boot = boot'
    BY <1>1 DEF BeginInstall, AddDevice, HistoryTypeOK
  <2>3. job'.device = d /\ boot' = boot /\ up' = up
    BY <1>1 DEF BeginInstall
  <2> QED
    BY <1>0, <2>1, <2>2, <2>3 DEF SettledInv, Waits, SameBoot
<1>2. ASSUME NEW d \in Device, NEW v \in Version, BeginBlob(d, v)
      PROVE  SettledInv'
  <2>1. job'.blob /\ UNCHANGED <<history, boot, up>>
    BY <1>2 DEF BeginBlob
  <2> QED
    BY <1>0, <2>1 DEF SettledInv, Waits, SameBoot
<1>3. ASSUME NEW how \in {"applied", "ignored", "staged"}, WriteDone(how)
      PROVE  SettledInv'
  <2>1. job \in Jobs
    BY <1>3, JobTyped DEF WriteDone
  <2>2. job'.device = job.device /\ job'.blob = job.blob /\ job # NoJob
    BY <1>3, <2>1, SMT DEF WriteDone, Jobs
  <2> QED
    BY <1>0, <1>3, <2>2 DEF WriteDone, SettledInv, Waits, SameBoot
<1>4. ASSUME NEW s \in {"failed", "failed-transient", "success", "needs-reboot"},
             job.phase # "none", s = "needs-reboot" => ~job.blob,
             SetUpdateState(job.device, s), job' = NoJob, UNCHANGED <<boot, up>>
      PROVE  SettledInv'
  <2>1. \/ history' = history
        \/ history' = ModifyDevice(job.device, s) /\ (s = "needs-reboot" => write_history)
    BY <1>4 DEF SetUpdateState, Notified
  <2> QED
    BY <1>0, <1>4, <2>1, SettledAfterSet DEF SettledInv
<1>5. ASSUME NEW s \in {"failed", "failed-transient"}, WriteFails(s)
      PROVE  SettledInv'
  BY <1>4, <1>5 DEF WriteFails
<1>6. CASE MarkSuccess
  <2>1. job \in Jobs
    BY <1>6, JobTyped DEF MarkSuccess
  <2>2. /\ job'.device = job.device /\ job'.blob = job.blob /\ job # NoJob
        /\ job.phase # "none"
    BY <1>6, <2>1, SMT DEF MarkSuccess, Jobs
  <2>3. history' = history \/ history' = ModifyDevice(job.device, "success")
    BY <1>6 DEF MarkSuccess, SetUpdateState, Notified
  <2>4. UNCHANGED <<boot, up, write_history>>
    BY <1>6 DEF MarkSuccess
  <2>5. /\ up' => \A d \in Device : Waits(d)' => SameBoot(d)'
        /\ SameBoot(job.device) => history'[job.device].boot = boot'
    BY <2>2, <2>3, <2>4, SettledAfterSet
  <2> QED
    BY <1>0, <2>2, <2>4, <2>5 DEF SettledInv, SameBoot
<1>7. CASE Finish
  <2>1. CASE job.blob
    BY <1>0, <1>7, <2>1 DEF Finish, SettledInv, Waits, SameBoot
  <2>2. CASE ~job.blob
    <3>1. PICK s \in {"needs-reboot", "success", "failed"} : SetUpdateState(job.device, s)
      BY <1>7, <2>2 DEF Finish
    <3> QED
      BY <1>4, <1>7, <2>2, <3>1 DEF Finish
  <2> QED
    BY <2>1, <2>2
<1>8. CASE CleanupFails
  BY <1>4, <1>8 DEF CleanupFails
<1>9. ASSUME NEW found \in SUBSET Device, NEW failing \in SUBSET Device,
             NEW told \in {"unknown", "failed", "failed-transient"}, Start(found, failing, told)
      PROVE  SettledInv'
  <2>1. job' = NoJob /\ found = Device /\ failing = {}
    BY <1>9 DEF Start, HistoryTypeOK, DevicesStay, PluginsWork
  <2>2. ASSUME NEW d \in Device, Waits(d)' PROVE SameBoot(d)'
    <3>1. Waits(d)
      BY <1>9, <2>2 DEF Start, Waits
    <3>2. history[d] \in Rows
      BY <3>1, SMT DEF Waits, HistoryTypeOK
    <3>3. history'[d] = [history[d] EXCEPT !.state = Resolved(d, told)]
      BY <1>9, <2>1, <3>1 DEF Start
    <3>4. history'[d].state = Resolved(d, told) /\ history'[d].boot = history[d].boot
      BY <3>2, <3>3 DEF Rows
    <3>5. SameBoot(d)
      BY <2>2, <3>4 DEF Waits, Resolved
    <3> QED
      BY <1>9, <3>4, <3>5 DEF Start, SameBoot
  <2> QED
    BY <1>0, <2>1, <2>2 DEF SettledInv
<1>10. CASE Stop \/ \E taken \in SUBSET Device : Reboot(taken)
  BY <1>0, <1>10 DEF Stop, Reboot, Halt, SettledInv
<1>11. ASSUME NEW d \in Device, Unplug(d) \/ Plug(d)
       PROVE  SettledInv'
  BY <1>11 DEF Unplug, Plug, DevicesStay
<1>12. ASSUME NEW d \in Device, ClearResults(d)
       PROVE  SettledInv'
  <2>1. \A e \in Device : history'[e].state = history[e].state /\ history'[e].boot = history[e].boot
    BY <1>12, SMT DEF ClearResults, HistoryTypeOK, Rows
  <2>2. job' = NoJob /\ UNCHANGED <<boot, up>>
    BY <1>12 DEF ClearResults
  <2> QED
    BY <1>0, <2>1, <2>2 DEF SettledInv, Waits, SameBoot
<1>13. ASSUME NEW d \in Device, UpdateErrorChanges(d)
       PROVE  SettledInv'
  <2>1. UNCHANGED <<boot, up, live, write_history, job>> /\ "inhibit" \in Events
    BY <1>13 DEF UpdateErrorChanges
  <2>2. /\ history'[d].state \in {history[d].state, live[d], "none"}
        /\ \A e \in Device : /\ e # d => history'[e] = history[e]
                             /\ history'[e].boot = history[e].boot
    BY <1>13, ErrorChangeTyped
  <2>3. up' => \A e \in Device : Waits(e)' => SameBoot(e)'
    BY <2>1, <2>2, SMT DEF SettledInv, Stamped, Waits, SameBoot
  <2>4. job # NoJob => job.device \in Device
    BY DEF HistoryTypeOK, Jobs
  <2> QED
    BY <1>0, <2>1, <2>2, <2>3, <2>4 DEF SettledInv, SameBoot
<1>14. CASE UNCHANGED vars
  BY <1>0, <1>14 DEF vars, SettledInv, Waits, SameBoot
<1> QED
  BY <1>1, <1>2, <1>3, <1>5, <1>6, <1>7, <1>8, <1>9, <1>10, <1>11, <1>12, <1>13, <1>14
  DEF HistoryNext

LEMMA SettledInvariant ==
  DevicesStay /\ PluginsWork /\ AllRecorded => (HistorySpec => [](HistoryTypeOK /\ SettledInv))
<1> SUFFICES ASSUME DevicesStay, PluginsWork, AllRecorded
             PROVE  HistorySpec => [](HistoryTypeOK /\ SettledInv)
  OBVIOUS
<1>1. HistoryInit => HistoryTypeOK /\ SettledInv
  BY TypesInit DEF HistoryInit, SettledInv, Stamped
<1>2. HistoryTypeOK /\ SettledInv /\ [HistoryNext]_vars => (HistoryTypeOK /\ SettledInv)'
  BY TypesStep, SettledStep
<1> QED
  BY <1>1, <1>2, PTL DEF HistorySpec

\* A running daemon has settled every row that waited for an earlier reboot,
\* also after crashes in the middle of updates and with blobs that rewrite rows:
\* as long as the devices are there, the plugins do not fail when
\* fu_engine_update_history_database asks them, and not both unrecorded installs
\* and changing inhibits happen.
THEOREM RebootResolvedCorrect ==
  DevicesStay /\ PluginsWork /\ AllRecorded => (HistorySpec => []RebootResolved)
<1>1. HistoryTypeOK /\ SettledInv => RebootResolved
  BY DEF SettledInv, RebootResolved, SameBoot
<1> QED
  BY <1>1, SettledInvariant, PTL

-----------------------------------------------------------------------------
(* Success is true.                                                          *)

\* The daemon does not die during an update, and nobody writes blobs: both can
\* leave "success" in the row of an update that the device did not take.
NoCrashes == "crash" \notin Events
NoBlobs == "blob" \notin Events

Calm == DevicesStay /\ PluginsWork /\ AllRecorded /\ NoCrashes /\ NoBlobs

\* The update that runs is to be recorded in the row of d.
Recording(d) == job # NoJob /\ job.device = d /\ ~job.no_history

\* What the row of a device, which no update is about to rewrite, tells.  A row
\* that still waits after the reboot will be settled from the version alone,
\* which no longer changes.
Told(d) ==
  /\ history[d].state = "success" => fate[d] = "applied"
  /\ Waits(d) /\ SameBoot(d) => fate[d] = "waiting"
  /\ Waits(d) /\ ~SameBoot(d) =>
       /\ staged[d] = Nothing /\ fate[d] # "waiting"
       /\ version[d] = history[d].version => fate[d] = "applied"

\* The update that runs and is recorded: the row and the object agree, so that
\* each new update-state reaches the row; and the outcome of the write is what
\* the version check will find.
Running ==
  /\ history[job.device] # NoRow
  /\ history[job.device].state = live[job.device]
  /\ job.phase = "write" => version[job.device] = job.old
  /\ job.phase # "write" => IF job.reboot THEN fate[job.device] = "waiting"
                            ELSE VersionCheck => fate[job.device] = "applied"

\* The inductive invariant, next to HistoryInv and SettledInv.
TruthInv ==
  /\ \A d \in Device : history[d].boot <= boot
  /\ \A d \in Device : ~Recording(d) => Told(d)
  /\ job # NoJob => ~job.blob /\ (write_history <=> ~job.no_history)
  /\ job # NoJob /\ ~job.no_history => Running

\* An object has the state of its row or none, so that the callback of its
\* update-error can make a row forget its result, but not tell another one.
Aligned ==
  /\ \A d \in Device : live[d] \in {Gone, "unknown", history[d].state}
  /\ job # NoJob => ~job.no_history

\* A new update-state reaches the row of an update that is recorded, and no other.
LEMMA SetRecorded ==
  ASSUME HistoryTypeOK, TruthInv, job.phase # "none", NEW s \in States,
         SetUpdateState(job.device, s)
  PROVE  /\ job.no_history => history' = history
         /\ ~job.no_history => /\ history'[job.device].state = s
                               /\ history'[job.device].boot = history[job.device].boot
         /\ \A e \in Device : e # job.device => history'[e] = history[e]
         /\ \A e \in Device : history'[e].boot = history[e].boot
<1>1. job.device \in Device /\ job # NoJob
  BY JobTyped, SMT
<1>2. CASE job.no_history
  BY <1>1, <1>2 DEF TruthInv, SetUpdateState, Notified
<1>3. CASE ~job.no_history
  <2>1. write_history /\ Running
    BY <1>1, <1>3 DEF TruthInv
  <2>2. CASE live[job.device] = s /\ history' = history
    BY <1>3, <2>1, <2>2 DEF Running
  <2>3. CASE live[job.device] # s \/ history' # history
    <3>1. history' = ModifyDevice(job.device, s)
      BY <2>1, <2>3 DEF SetUpdateState, Notified
    <3>2. history[job.device] \in Rows /\ history[job.device] # NoRow
      BY <1>1, <2>1 DEF Running, HistoryTypeOK
    <3>3. history'[job.device].state = s
      BY <1>1, <3>1, <3>2 DEF ModifyDevice, HistoryTypeOK, Rows
    <3> QED
      BY <1>1, <1>3, <3>1, <3>3, ModifyTyped, SMT
  <2> QED
    BY <2>2, <2>3
<1> QED
  BY <1>2, <1>3

\* A step that ends the job with the state s, which is true.
LEMMA TruthEnds ==
  ASSUME HistoryTypeOK, TruthInv, job.phase # "none",
         NEW s \in {"success", "failed", "failed-transient", "needs-reboot"},
         SetUpdateState(job.device, s), job' = NoJob,
         fate' = fate \/ fate' = Recorded("lost"),
         UNCHANGED <<version, staged, boot>>,
         ~job.no_history /\ s = "success" => fate'[job.device] = "applied",
         ~job.no_history /\ s = "needs-reboot"
           => fate'[job.device] = "waiting" /\ SameBoot(job.device)
  PROVE  TruthInv'
<1>1. job \in Jobs /\ job.device \in Device /\ job # NoJob
  BY JobTyped, SMT
<1>2. /\ job.no_history => history' = history
      /\ ~job.no_history => /\ history'[job.device].state = s
                            /\ history'[job.device].boot = history[job.device].boot
      /\ \A e \in Device : e # job.device => history'[e] = history[e]
      /\ \A e \in Device : history'[e].boot = history[e].boot
  BY SetRecorded
<1>3. /\ job.no_history => fate' = fate
      /\ \A e \in Device : e # job.device => fate'[e] = fate[e]
  BY <1>1 DEF Recorded, HistoryTypeOK
<1>4. ASSUME NEW e \in Device, e # job.device \/ job.no_history
      PROVE  Told(e)'
  <2>1. ~Recording(e)
    BY <1>1, <1>4 DEF Recording
  <2>2. Told(e)
    BY <2>1 DEF TruthInv
  <2>3. history'[e] = history[e] /\ fate'[e] = fate[e]
    BY <1>2, <1>3, <1>4
  <2> QED
    BY <2>2, <2>3 DEF Told, Waits, SameBoot
<1>5. ASSUME NEW e \in Device, e = job.device, ~job.no_history
      PROVE  Told(e)'
  BY <1>2, <1>5 DEF Told, Waits, SameBoot
<1>6. \A e \in Device : Told(e)'
  BY <1>4, <1>5
<1>7. \A e \in Device : history'[e].boot <= boot'
  BY <1>2 DEF TruthInv
<1> QED
  BY <1>6, <1>7 DEF TruthInv

\* While an update runs, the row of its device does not wait: no update begins
\* on a device whose row waits, since rows of earlier boots are settled.
LEMMA JobNotWaiting ==
  ASSUME HistoryInv, SettledInv, job.phase # "none"
  PROVE  ~Waits(job.device)
<1>1. job \in Jobs /\ job.device \in Device /\ job # NoJob /\ up
  BY JobTyped, SMT DEF HistoryInv, HistoryTypeOK
<1> QED
  BY <1>1 DEF HistoryInv, Inherited, JobOnLiveDevice, SettledInv

\* Devices whose row, firmware and fate a step leaves alone.
LEMMA ToldKept ==
  ASSUME NEW d, Told(d), history'[d] = history[d], fate'[d] = fate[d],
         version'[d] = version[d], staged'[d] = staged[d], boot' = boot
  PROVE  Told(d)'
BY SMT DEF Told, Waits, SameBoot

LEMMA TruthStep ==
  ASSUME Calm, HistoryInv, SettledInv, TruthInv, "inhibit" \in Events => Aligned,
         [HistoryNext]_vars
  PROVE  TruthInv'
<1>0. HistoryTypeOK
  BY DEF HistoryInv
<1>1. ASSUME NEW d \in Device, NEW v \in Version, NEW n \in BOOLEAN, BeginInstall(d, v, n)
      PROVE  TruthInv'
  <2>1. job = NoJob /\ \A e \in Device : Told(e)
    BY <1>1 DEF BeginInstall, Updatable, TruthInv, Recording
  <2>2. /\ job'.device = d /\ job'.no_history = n /\ job'.phase = "write" /\ ~job'.blob
        /\ job'.old = version[d] /\ (write_history' <=> ~n)
        /\ UNCHANGED <<version, staged, boot, live>>
    BY <1>1 DEF BeginInstall
  <2>3. ASSUME NEW e \in Device, e # d \/ n
        PROVE  history'[e] = history[e] /\ fate'[e] = fate[e]
    BY <1>0, <1>1, <2>3 DEF BeginInstall, AddDevice, HistoryTypeOK
  <2>4. ASSUME ~n
        PROVE  history'[d].state = live[d] /\ history'[d].boot = boot /\ history'[d] # NoRow
    <3>1. history'[d] = [state |-> live[d], version |-> v, boot |-> boot, notified |-> FALSE]
      BY <1>0, <1>1, <2>4 DEF BeginInstall, AddDevice, HistoryTypeOK
    <3>2. live[d] \in States
      BY <1>0, <1>1 DEF BeginInstall, Updatable, HistoryTypeOK
    <3> QED
      BY <3>1, <3>2, SMT
  <2>5. \A e \in Device : ~Recording(e)' => Told(e)'
    <3>1. ASSUME NEW e \in Device, ~Recording(e)' PROVE e # d \/ n
      BY <2>2, <3>1, SMT DEF Recording
    <3> QED
      BY <2>1, <2>2, <2>3, <3>1, ToldKept
  <2>6. \A e \in Device : history'[e].boot <= boot'
    BY <1>0, <2>2, <2>3, <2>4, SMT DEF TruthInv, HistoryTypeOK
  <2>7. ~n => Running'
    BY <2>2, <2>4 DEF Running
  <2> QED
    BY <2>2, <2>5, <2>6, <2>7 DEF TruthInv
<1>2. ASSUME NEW d \in Device, NEW v \in Version, BeginBlob(d, v) PROVE TruthInv'
  BY <1>2 DEF BeginBlob, Calm, NoBlobs
<1>3. ASSUME NEW how \in {"applied", "ignored", "staged"}, WriteDone(how)
      PROVE  TruthInv'
  <2>1. job \in Jobs /\ job.device \in Device /\ job # NoJob /\ ~Waits(job.device)
    BY <1>0, <1>3, JobTyped, JobNotWaiting, SMT DEF WriteDone
  <2>2. /\ job'.device = job.device /\ job'.no_history = job.no_history /\ job'.phase = "mark"
        /\ job'.blob = job.blob /\ job'.old = job.old /\ job'.version = job.version
        /\ (job'.reboot <=> how = "staged") /\ job' # NoJob
    BY <1>3, <2>1 DEF WriteDone, Jobs
  <2>3. UNCHANGED <<history, boot, live, write_history>>
    BY <1>3 DEF WriteDone
  <2>4. ASSUME NEW e \in Device, e # job.device
        PROVE  version'[e] = version[e] /\ staged'[e] = staged[e] /\ fate'[e] = fate[e]
    BY <1>0, <1>3, <2>1, <2>4 DEF WriteDone, Recorded, HistoryTypeOK
  <2>5. job.no_history => fate' = fate
    BY <1>3 DEF WriteDone, Recorded
  <2>6. ASSUME NEW e \in Device, ~Recording(e)' PROVE Told(e)'
    <3>1. ~Recording(e)
      BY <2>2, <2>6 DEF Recording
    <3>2. Told(e)
      BY <3>1 DEF TruthInv
    <3>3. CASE e # job.device
      BY <2>3, <2>4, <3>2, <3>3, ToldKept
    <3>4. CASE e = job.device
      <4>1. job.no_history
        BY <2>1, <3>1, <3>4 DEF Recording
      <4> QED
        BY <2>1, <2>3, <2>5, <3>2, <3>4, <4>1 DEF Told, Waits
    <3> QED
      BY <3>3, <3>4
  <2>7. ASSUME ~job.no_history PROVE Running'
    <3>1. Running /\ job.phase = "write"
      BY <1>3, <2>1, <2>7 DEF TruthInv, WriteDone
    <3>2. version[job.device] = job.old
      BY <3>1 DEF Running
    <3>3. CASE how = "staged"
      BY <1>0, <1>3, <2>1, <2>2, <2>3, <2>7, <3>1, <3>3, SMT
         DEF WriteDone, Recorded, HistoryTypeOK, Running
    <3>4. CASE how = "applied"
      BY <1>0, <1>3, <2>1, <2>2, <2>3, <2>7, <3>1, <3>4, SMT
         DEF WriteDone, Recorded, HistoryTypeOK, Running
    <3>5. CASE how = "ignored"
      <4>1. version' = version
        BY <1>3, <3>5 DEF WriteDone
      <4>2. VersionCheck' => fate'[job.device] = "applied"
        BY <1>0, <1>3, <2>1, <2>2, <2>7, <3>2, <3>5, <4>1, SMT
           DEF WriteDone, Recorded, HistoryTypeOK, VersionCheck
      <4> QED
        BY <2>2, <2>3, <3>1, <3>5, <4>2 DEF Running
    <3> QED
      BY <3>3, <3>4, <3>5
  <2> QED
    BY <2>1, <2>2, <2>3, <2>6, <2>7 DEF TruthInv
<1>4. ASSUME NEW s \in {"failed", "failed-transient"}, WriteFails(s)
      PROVE  TruthInv'
  BY <1>0, <1>4, TruthEnds DEF WriteFails
<1>5. CASE MarkSuccess
  <2>1. job \in Jobs /\ job.device \in Device /\ job # NoJob
    BY <1>0, <1>5, JobTyped, SMT DEF MarkSuccess
  <2>2. /\ job'.device = job.device /\ job'.no_history = job.no_history /\ job'.phase = "finish"
        /\ job'.blob = job.blob /\ job'.old = job.old /\ job'.version = job.version
        /\ job'.reboot = job.reboot /\ job' # NoJob
    BY <1>5, <2>1 DEF MarkSuccess, Jobs
  <2>3. /\ UNCHANGED <<version, staged, boot, write_history, fate>>
        /\ live'[job.device] = "success"
    BY <1>0, <1>5, <2>1 DEF MarkSuccess, SetUpdateState, HistoryTypeOK
  <2>4. job.no_history => history' = history
    BY <1>5, <2>1 DEF MarkSuccess, SetUpdateState, Notified, TruthInv
  <2>5. ASSUME NEW e \in Device
        PROVE  history'[e].boot = history[e].boot /\ (e # job.device => history'[e] = history[e])
    BY <1>0, <1>5, <2>1, ModifyTyped, SMT DEF MarkSuccess, SetUpdateState, Notified
  <2>6. ASSUME NEW e \in Device, ~Recording(e)' PROVE Told(e)'
    <3>1. ~Recording(e)
      BY <2>2, <2>6 DEF Recording
    <3>2. Told(e) /\ history'[e] = history[e]
      BY <2>1, <2>4, <2>5, <3>1 DEF TruthInv, Recording
    <3> QED
      BY <2>3, <3>2, ToldKept
  <2>7. ASSUME ~job.no_history PROVE Running'
    <3>1. Running /\ job.phase = "mark"
      BY <1>5, <2>1, <2>7 DEF TruthInv, MarkSuccess
    <3>2. history' = ModifyDevice(job.device, "success")
      BY <1>5, <2>7 DEF MarkSuccess
    <3>3. history[job.device] \in Rows /\ history[job.device] # NoRow
      BY <1>0, <2>1, <3>1 DEF Running, HistoryTypeOK
    <3>4. history'[job.device] = [history[job.device] EXCEPT !.state = "success",
                                                            !.notified = FALSE]
      BY <1>0, <2>1, <3>2, <3>3 DEF ModifyDevice, HistoryTypeOK, Rows
    <3>5. history'[job.device].state = "success"
      BY <3>3, <3>4 DEF Rows
    <3>6. history'[job.device] # NoRow
      BY <3>5, SMT
    <3>7. VersionCheck' = VersionCheck
      BY <2>2, <2>3 DEF VersionCheck
    <3> QED
      BY <2>2, <2>3, <3>1, <3>5, <3>6, <3>7 DEF Running
  <2> QED
    BY <2>1, <2>2, <2>3, <2>5, <2>6, <2>7 DEF TruthInv
<1>6. CASE Finish
  <2>1. job \in Jobs /\ job # NoJob /\ ~job.blob /\ job.phase # "none"
    BY <1>0, <1>6, JobTyped, SMT DEF Finish, TruthInv
  <2>2. ~job.no_history => Running /\ SameBoot(job.device)
    BY <2>1 DEF TruthInv, SettledInv
  <2> DEFINE s == IF job.reboot THEN "needs-reboot"
                  ELSE IF VersionCheck THEN "success" ELSE "failed"
  <2>3. /\ s \in {"success", "failed", "failed-transient", "needs-reboot"}
        /\ s = "success" => ~job.reboot /\ VersionCheck
        /\ s = "needs-reboot" => job.reboot
    OBVIOUS
  <2>4. SetUpdateState(job.device, s)
    BY <1>6, <2>1 DEF Finish
  <2> HIDE DEF s
  <2>5. job' = NoJob /\ fate' = fate /\ UNCHANGED <<version, staged, boot>>
    BY <1>6 DEF Finish
  <2>6. /\ ~job.no_history /\ s = "success" => fate[job.device] = "applied"
        /\ ~job.no_history /\ s = "needs-reboot" => fate[job.device] = "waiting"
    BY <1>6, <2>2, <2>3 DEF Running, Finish
  <2> QED
    BY <1>0, <2>1, <2>2, <2>3, <2>4, <2>5, <2>6, TruthEnds
<1>7. CASE CleanupFails
  BY <1>0, <1>7, TruthEnds DEF CleanupFails
<1>8. ASSUME NEW found \in SUBSET Device, NEW failing \in SUBSET Device,
             NEW told \in {"unknown", "failed", "failed-transient"}, Start(found, failing, told)
      PROVE  TruthInv'
  <2>1. /\ job = NoJob /\ job' = NoJob /\ found = Device /\ failing = {}
        /\ UNCHANGED <<version, staged, boot, fate>>
    BY <1>0, <1>8 DEF Start, HistoryTypeOK, Calm, DevicesStay, PluginsWork
  <2>2. ASSUME NEW d \in Device
        PROVE  Told(d)' /\ history'[d].boot <= boot'
    <3>1. Told(d) /\ history[d].boot <= boot
      BY <2>1 DEF TruthInv, Recording
    <3>2. CASE ~Waits(d)
      <4>1. history'[d] = history[d]
        BY <1>8, <3>2 DEF Start
      <4> QED
        BY <2>1, <3>1, <4>1, ToldKept
    <3>3. CASE Waits(d)
      <4>1. history[d] \in Rows
        BY <1>0, <3>3, SMT DEF Waits, HistoryTypeOK
      <4>2. history'[d] = [history[d] EXCEPT !.state = Resolved(d, told)]
        BY <1>8, <2>1, <3>3 DEF Start
      <4>3. /\ history'[d].state = Resolved(d, told) /\ history'[d].boot = history[d].boot
            /\ history'[d].version = history[d].version
        BY <4>1, <4>2 DEF Rows
      <4>4. CASE SameBoot(d)
        BY <2>1, <3>1, <3>3, <4>3, <4>4 DEF Told, Waits, SameBoot, Resolved
      <4>5. CASE ~SameBoot(d)
        BY <2>1, <3>1, <3>3, <4>3, <4>5 DEF Told, Waits, SameBoot, Resolved
      <4> QED
        BY <4>4, <4>5
    <3> QED
      BY <3>2, <3>3
  <2> QED
    BY <2>1, <2>2 DEF TruthInv
<1>9. CASE Stop
  <2>1. /\ job = NoJob /\ job' = NoJob /\ UNCHANGED <<version, staged, history, boot, fate>>
    BY <1>9 DEF Stop, Halt, Calm, NoCrashes
  <2> QED
    BY <2>1, ToldKept DEF TruthInv, Recording
<1>10. ASSUME NEW taken \in SUBSET Device, Reboot(taken)
       PROVE  TruthInv'
  <2>1. job = NoJob /\ job' = NoJob /\ history' = history /\ boot' = boot + 1 /\ boot \in Nat
    BY <1>0, <1>10, SMTT(30) DEF Reboot, Halt, Calm, NoCrashes, HistoryTypeOK
  <2>2. ASSUME NEW d \in Device
        PROVE  Told(d)' /\ history'[d].boot <= boot'
    <3>1. Told(d) /\ history[d].boot <= boot /\ history[d].boot \in Nat
      BY <1>0, <2>1, SMT DEF TruthInv, Recording, HistoryTypeOK, Rows
    <3>2. history'[d].boot <= boot' /\ ~SameBoot(d)'
      BY <2>1, <3>1, SMT DEF SameBoot
    <3>3. /\ staged'[d] = Nothing
          /\ fate'[d] = IF fate[d] # "waiting" THEN fate[d]
                        ELSE IF version'[d] = history[d].version THEN "applied" ELSE "lost"
          /\ staged[d] = Nothing => version'[d] = version[d]
      BY <1>10 DEF Reboot
    <3> QED
      BY <2>1, <3>1, <3>2, <3>3 DEF Told, Waits
  <2> QED
    BY <2>1, <2>2 DEF TruthInv
<1>11. ASSUME NEW d \in Device, Unplug(d) \/ Plug(d)
       PROVE  TruthInv'
  BY <1>11 DEF Unplug, Plug, Calm, DevicesStay
<1>12. ASSUME NEW d \in Device, ClearResults(d)
       PROVE  TruthInv'
  <2>1. job = NoJob /\ job' = NoJob /\ UNCHANGED <<version, staged, boot, fate>>
    BY <1>12 DEF ClearResults
  <2>2. history[d] \in Rows
    BY <1>0, <1>12, SMT DEF ClearResults, HistoryTypeOK
  <2>3. ASSUME NEW e \in Device
        PROVE  /\ history'[e].state = history[e].state /\ history'[e].boot = history[e].boot
               /\ history'[e].version = history[e].version
    BY <1>0, <1>12, <2>2, <2>3 DEF ClearResults, HistoryTypeOK, Rows
  <2>4. \A e \in Device : Told(e)'
    BY <2>1, <2>3 DEF TruthInv, Recording, Told, Waits, SameBoot
  <2> QED
    BY <2>1, <2>3, <2>4 DEF TruthInv
<1>13. ASSUME NEW d \in Device, UpdateErrorChanges(d)
       PROVE  TruthInv'
  <2>1. /\ Aligned /\ UNCHANGED <<version, staged, boot, up, live, write_history, job, fate>>
        /\ live[d] # Gone
    BY <1>13 DEF UpdateErrorChanges
  <2>2. CASE history' = history
    BY <2>1, <2>2 DEF TruthInv, Recording, Told, Running, Waits, SameBoot, VersionCheck
  <2>3. CASE history[d] # NoRow /\ history' = ModifyDevice(d, live[d])
    <3>1. history[d] \in Rows
      BY <1>0, <2>3 DEF HistoryTypeOK
    <3>2. history'[d] = [history[d] EXCEPT !.state = live[d], !.notified = FALSE]
      BY <1>0, <2>3, <3>1 DEF ModifyDevice, HistoryTypeOK, Rows
    <3>3. /\ history'[d].state = live[d] /\ history'[d].boot = history[d].boot
          /\ history'[d].version = history[d].version
      BY <3>1, <3>2 DEF Rows
    <3>4. live[d] \in {"unknown", history[d].state} /\ live[d] # "none"
      BY <1>0, <1>13, <2>1, ErrorChangeTyped DEF Aligned
    <3>5. \A e \in Device : e # d => history'[e] = history[e]
      BY <1>0, <1>13, ErrorChangeTyped, SMT
    <3>6. ASSUME NEW e \in Device, ~Recording(e)' PROVE Told(e)'
      <4>1. Told(e)
        BY <2>1, <3>6 DEF TruthInv, Recording
      <4>2. CASE e # d
        BY <2>1, <3>5, <4>1, <4>2, ToldKept
      <4>3. CASE e = d
        BY <2>1, <3>3, <3>4, <4>1, <4>3 DEF Told, Waits, SameBoot
      <4> QED
        BY <4>2, <4>3
    <3>7. \A e \in Device : history'[e].boot <= boot'
      BY <2>1, <3>3, <3>5 DEF TruthInv
    <3>8. ASSUME job' # NoJob, ~job'.no_history PROVE Running'
      <4>1. Running /\ job.device \in Device
        BY <1>0, <2>1, <3>8 DEF TruthInv, HistoryTypeOK, Jobs
      <4>2. history'[job.device] # NoRow /\ history'[job.device].state = live[job.device]
        BY <3>3, <3>4, <3>5, <4>1, SMT DEF Running
      <4>3. VersionCheck' <=> VersionCheck
        BY <2>1 DEF VersionCheck
      <4> QED
        BY <2>1, <4>1, <4>2, <4>3 DEF Running
    <3> QED
      BY <2>1, <3>6, <3>7, <3>8 DEF TruthInv
  <2> QED
    BY <1>13, <2>2, <2>3 DEF UpdateErrorChanges, Notified, ModifyDevice
<1>14. CASE UNCHANGED vars
  BY <1>14 DEF vars, TruthInv, Recording, Told, Running, Waits, SameBoot, VersionCheck
<1> QED
  BY <1>1, <1>2, <1>3, <1>4, <1>5, <1>6, <1>7, <1>8, <1>9, <1>10, <1>11, <1>12, <1>13, <1>14
  DEF HistoryNext

LEMMA AlignedStep ==
  ASSUME Calm, "inhibit" \in Events, HistoryTypeOK, TruthInv, Aligned, [HistoryNext]_vars
  PROVE  Aligned'
<1>1. ASSUME NEW d \in Device, NEW v \in Version, NEW n \in BOOLEAN, BeginInstall(d, v, n)
      PROVE  Aligned'
  <2>1. ~n /\ ~job'.no_history /\ UNCHANGED live
    BY <1>1 DEF BeginInstall, Calm, AllRecorded
  <2>2. history'[d].state = live[d] /\ \A e \in Device : e # d => history'[e] = history[e]
    BY <1>1, <2>1 DEF BeginInstall, AddDevice, HistoryTypeOK
  <2> QED
    BY <2>1, <2>2 DEF Aligned
<1>2. ASSUME NEW d \in Device, NEW v \in Version, BeginBlob(d, v) PROVE Aligned'
  BY <1>2 DEF BeginBlob, Calm, NoBlobs
<1>3. ASSUME NEW how \in {"applied", "ignored", "staged"}, WriteDone(how)
      PROVE  Aligned'
  <2>1. job \in Jobs /\ job # NoJob
    BY <1>3, JobTyped, SMT DEF WriteDone
  <2>2. job'.no_history = job.no_history /\ UNCHANGED <<history, live>>
    BY <1>3, <2>1 DEF WriteDone, Jobs
  <2> QED
    BY <2>1, <2>2 DEF Aligned
<1>4. ASSUME job.phase # "none", NEW s \in {"success", "failed", "failed-transient", "needs-reboot"},
             SetUpdateState(job.device, s), job' = NoJob
      PROVE  Aligned'
  <2>1. job.device \in Device /\ ~job.no_history
    BY <1>4, JobTyped, SMT DEF Aligned
  <2>2. history'[job.device].state = s /\ live'[job.device] = s
    BY <1>4, <2>1, SetRecorded, SetUpdateStateTyped, SMT
  <2>3. \A e \in Device : e # job.device => history'[e] = history[e] /\ live'[e] = live[e]
    BY <1>4, <2>1, SetUpdateStateTyped, SMT
  <2> QED
    BY <1>4, <2>2, <2>3 DEF Aligned
<1>5. ASSUME NEW s \in {"failed", "failed-transient"}, WriteFails(s)
      PROVE  Aligned'
  BY <1>4, <1>5 DEF WriteFails
<1>6. CASE MarkSuccess
  <2>1. job \in Jobs /\ job.device \in Device /\ job # NoJob /\ ~job.no_history
    BY <1>6, JobTyped, SMT DEF MarkSuccess, Aligned
  <2>2. ~job'.no_history
    BY <1>6, <2>1 DEF MarkSuccess, Jobs
  <2>3. /\ live' = [live EXCEPT ![job.device] = "success"]
        /\ history' = ModifyDevice(job.device, "success")
    BY <1>6, <2>1 DEF MarkSuccess
  <2>4. history[job.device] \in Rows /\ history[job.device] # NoRow
    BY <2>1 DEF TruthInv, Running, HistoryTypeOK
  <2>5. history'[job.device] = [history[job.device] EXCEPT !.state = "success", !.notified = FALSE]
    BY <2>1, <2>3, <2>4 DEF ModifyDevice, HistoryTypeOK, Rows
  <2>6. history'[job.device].state = "success"
    BY <2>4, <2>5 DEF Rows
  <2>7. /\ live'[job.device] = "success"
        /\ \A e \in Device : e # job.device => history'[e] = history[e] /\ live'[e] = live[e]
    BY <2>1, <2>3, ModifyTyped, SMT DEF HistoryTypeOK
  <2> QED
    BY <2>2, <2>6, <2>7 DEF Aligned
<1>7. CASE Finish
  <2>1. job \in Jobs /\ job # NoJob /\ ~job.blob /\ job.phase # "none"
    BY <1>7, JobTyped, SMT DEF Finish, TruthInv
  <2>2. PICK s \in {"needs-reboot", "success", "failed"} : SetUpdateState(job.device, s)
    BY <1>7, <2>1 DEF Finish
  <2> QED
    BY <1>4, <1>7, <2>1, <2>2 DEF Finish
<1>8. CASE CleanupFails
  BY <1>4, <1>8 DEF CleanupFails
<1>9. ASSUME NEW found \in SUBSET Device, NEW failing \in SUBSET Device,
             NEW told \in {"unknown", "failed", "failed-transient"}, Start(found, failing, told)
      PROVE  Aligned'
  <2>1. job' = NoJob /\ found = Device /\ failing = {}
    BY <1>9 DEF Start, HistoryTypeOK, Calm, DevicesStay, PluginsWork
  <2>2. ASSUME NEW d \in Device, Waits(d)
        PROVE  history'[d].state = Resolved(d, told)
    <3>1. history[d] \in Rows
      BY <2>2, SMT DEF Waits, HistoryTypeOK
    <3>2. history'[d] = [history[d] EXCEPT !.state = Resolved(d, told)]
      BY <1>9, <2>1, <2>2 DEF Start
    <3> QED
      BY <3>1, <3>2 DEF Rows
  <2>3. \A d \in Device : live'[d] = StateOnLoad(d, told)
    BY <1>9, <2>1 DEF Start
  <2>4. \A d \in Device : live'[d] \in {Gone, "unknown", history'[d].state}
    BY <2>2, <2>3 DEF StateOnLoad, Resolved
  <2> QED
    BY <2>1, <2>4 DEF Aligned
<1>10. CASE Stop \/ \E taken \in SUBSET Device : Reboot(taken)
  BY <1>10, SMT DEF Stop, Reboot, Halt, Aligned
<1>11. ASSUME NEW d \in Device, Unplug(d) \/ Plug(d)
       PROVE  Aligned'
  BY <1>11 DEF Unplug, Plug, Calm, DevicesStay
<1>12. ASSUME NEW d \in Device, ClearResults(d)
       PROVE  Aligned'
  <2>1. \A e \in Device : history'[e].state = history[e].state
    BY <1>12, SMT DEF ClearResults, HistoryTypeOK, Rows
  <2> QED
    BY <1>12, <2>1 DEF ClearResults, Aligned
<1>13. ASSUME NEW d \in Device, UpdateErrorChanges(d)
       PROVE  Aligned'
  <2>1. UNCHANGED <<live, job>> /\ live[d] # Gone
    BY <1>13 DEF UpdateErrorChanges
  <2>2. history'[d].state \in {history[d].state, live[d]}
    <3>1. CASE history[d] = NoRow \/ history' = history
      BY <1>13, <3>1 DEF UpdateErrorChanges, Notified, ModifyDevice
    <3>2. CASE history[d] # NoRow /\ history' # history
      <4>1. history[d] \in Rows
        BY <3>2 DEF HistoryTypeOK
      <4>2. history' = ModifyDevice(d, live[d])
        BY <1>13, <3>2 DEF UpdateErrorChanges, Notified
      <4> QED
        BY <3>2, <4>1, <4>2 DEF ModifyDevice, HistoryTypeOK, Rows
    <3> QED
      BY <3>1, <3>2
  <2>3. \A e \in Device : e # d => history'[e] = history[e]
    BY <1>13, ErrorChangeTyped, SMT
  <2> QED
    BY <2>1, <2>2, <2>3 DEF Aligned
<1>14. CASE UNCHANGED vars
  BY <1>14 DEF vars, Aligned
<1> QED
  BY <1>1, <1>2, <1>3, <1>5, <1>6, <1>7, <1>8, <1>9, <1>10, <1>11, <1>12, <1>13, <1>14
  DEF HistoryNext

\* When no update runs, a row that says "success" records an update whose
\* firmware the device took, at once or at a reboot, for any number of devices,
\* versions, updates, restarts of the daemon and reboots: the version check after
\* the update, and the one after the reboot, leave no other way to "success".  This
\* is about installs that the daemon survives, of devices that stay, without blobs,
\* and not with both unrecorded installs and changing inhibits.
THEOREM SuccessIsTrueCorrect == Calm => (HistorySpec => []SuccessIsTrue)
<1> SUFFICES ASSUME Calm PROVE HistorySpec => []SuccessIsTrue
  OBVIOUS
<1> DEFINE Inv == HistoryInv /\ SettledInv /\ TruthInv /\ ("inhibit" \in Events => Aligned)
<1>1. HistoryInit => Inv
  <2> SUFFICES ASSUME HistoryInit PROVE Inv
    OBVIOUS
  <2>1. HistoryInv /\ SettledInv
    BY TypesInit DEF HistoryInit, HistoryInv, Inherited, JobOnLiveDevice, SettledInv, Stamped
  <2>2. TruthInv
    BY SMT DEF HistoryInit, TruthInv, Told, Waits
  <2>3. Aligned
    BY DEF HistoryInit, Aligned
  <2> QED
    BY <2>1, <2>2, <2>3
<1>2. Inv /\ [HistoryNext]_vars => Inv'
  BY TypesStep, InvStep, SettledStep, TruthStep, AlignedStep DEF HistoryInv, Calm
<1>3. Inv => SuccessIsTrue
  BY DEF TruthInv, Recording, Told, SuccessIsTrue
<1> QED
  BY <1>1, <1>2, <1>3, PTL DEF HistorySpec
=============================================================================
