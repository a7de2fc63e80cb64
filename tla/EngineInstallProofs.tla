------------------------ MODULE EngineInstallProofs ------------------------
(***************************************************************************)
(* Proofs about EngineInstall: for every number of device objects, installs *)
(* and nested installs.                                                    *)
(***************************************************************************)
EXTENDS EngineInstall, DeviceListProofs

\* Most leaves are first-order: Zenon proves them, SMT is named where there is
\* arithmetic or an instance of a lemma to be found.
USE Zenon

USE DEF Item, objects

-----------------------------------------------------------------------------
(* Types *)

\* Every install on the stack has the device of its release.
OrigKnown == \A n \in 1..depth : job[n].orig \in Device

\* The stack of installs, and the wait of the innermost one.
Control ==
  /\ begun \in 0..MaxInstalls
  /\ depth \in 0..MaxDepth
  /\ job \in [Level -> Frame]
  /\ reply \in {"none", "success", "error"}
  /\ waiter \in {"idle", "waiting", "success", "failed"}
  /\ OrigKnown

HistoryType == [DeviceId -> UpdateState \cup {"none"}]
UpdateType == [Device -> UpdateState]

\* What an install reports.
Reported ==
  /\ inProgress \in SUBSET Device
  /\ updateState \in UpdateType
  /\ history \in HistoryType

\* What else the engine keeps.
Kept ==
  /\ watched \subseteq Device
  /\ write_history \in BOOLEAN
  /\ write_cnt \in Nat
  /\ restart \subseteq Device

\* The inductive invariant for the types.
EngineInv == ListInv /\ Control /\ Reported /\ Kept

\* The innermost install, and the object its ID finds.
LEMMA FrameTyped ==
  ASSUME Control, depth > 0
  PROVE  /\ depth \in Level
         /\ frame \in Frame
         /\ frame.orig \in Device
<1>1. MaxDepth \in Nat
  BY InstallAssumption
<1>2. depth \in 1..depth /\ depth \in Level
  BY <1>1, SMT DEF Control, Level
<1> QED
  BY <1>2 DEF Control, OrigKnown, frame

LEMMA FoundTyped ==
  ASSUME ListInv
  PROVE  Found \subseteq Device
<1>1. FindById(Id[frame.orig]) \subseteq items
  BY DEF FindById, FilterById
<1> QED
  BY <1>1, SMT DEF Found, ListInv, TypeOK

\* An install that goes on to another phase keeps the rest of its frame.
LEMMA FramePc ==
  ASSUME NEW f \in Frame, NEW p \in Phases
  PROVE  LET g == [f EXCEPT !.pc = p]
         IN  /\ g \in Frame
             /\ g.pc = p
             /\ g.orig = f.orig
             /\ g.kind = f.kind
             /\ g.first = f.first
             /\ g.writes = f.writes
             /\ g.no_history = f.no_history
BY DEF Frame

LEMMA FrameWrites ==
  ASSUME NEW f \in Frame
  PROVE  LET g == [f EXCEPT !.writes = @ + 1]
         IN  /\ g \in Frame
             /\ g.pc = f.pc
             /\ g.orig = f.orig
             /\ g.kind = f.kind
             /\ g.first = f.first
             /\ g.writes = f.writes + 1
             /\ g.no_history = f.no_history
BY SMT DEF Frame

LEMMA FrameAbort ==
  ASSUME NEW f \in Frame
  PROVE  LET g == [f EXCEPT !.pc = "abort", !.writes = @ + 1]
         IN  /\ g \in Frame
             /\ g.pc = "abort"
             /\ g.orig = f.orig
             /\ g.kind = f.kind
             /\ g.writes = f.writes + 1
             /\ g.no_history = f.no_history
<1> DEFINE h == [f EXCEPT !.pc = "abort"]
           g == [f EXCEPT !.pc = "abort", !.writes = @ + 1]
<1>1. g = [h EXCEPT !.writes = @ + 1]
  BY DEF Frame
<1>2. "abort" \in Phases
  BY DEF Phases
<1>3. /\ h \in Frame
      /\ h.pc = "abort"
      /\ h.orig = f.orig
      /\ h.kind = f.kind
      /\ h.writes = f.writes
      /\ h.no_history = f.no_history
  BY <1>2, FramePc
<1> HIDE DEF h
<1>4. /\ [h EXCEPT !.writes = @ + 1] \in Frame
      /\ [h EXCEPT !.writes = @ + 1].pc = h.pc
      /\ [h EXCEPT !.writes = @ + 1].orig = h.orig
      /\ [h EXCEPT !.writes = @ + 1].kind = h.kind
      /\ [h EXCEPT !.writes = @ + 1].writes = h.writes + 1
      /\ [h EXCEPT !.writes = @ + 1].no_history = h.no_history
  BY <1>3, FrameWrites
<1> HIDE DEF g
<1>5. /\ g \in Frame
      /\ g.pc = "abort"
      /\ g.orig = f.orig
      /\ g.kind = f.kind
      /\ g.writes = f.writes + 1
      /\ g.no_history = f.no_history
  BY <1>1, <1>3, <1>4
<1> QED
  BY <1>5 DEF g

LEMMA FrameFirst ==
  ASSUME NEW f \in Frame, NEW d \in Device
  PROVE  LET g == [f EXCEPT !.pc = "detach", !.first = d]
         IN  /\ g \in Frame
             /\ g.pc = "detach"
             /\ g.orig = f.orig
             /\ g.kind = f.kind
             /\ g.writes = f.writes
             /\ g.no_history = f.no_history
BY DEF Frame, Phases

LEMMA GotoControl ==
  ASSUME Control, depth > 0, NEW f \in Frame, f.orig \in Device, Goto(f)
  PROVE  Control'
<1>1. depth \in Level /\ job \in [Level -> Frame]
  BY FrameTyped DEF Control
<1>2. job' \in [Level -> Frame] /\ job'[depth] = f
  BY <1>1 DEF Goto
<1>3. \A n \in 1..depth : n # depth => job'[n] = job[n]
  BY <1>1, SMT DEF Goto
<1>4. \A n \in 1..depth : job'[n].orig \in Device
  BY <1>2, <1>3 DEF Control, OrigKnown
<1> QED
  BY <1>2, <1>4 DEF Control, OrigKnown, Goto

LEMMA ReturnControl ==
  ASSUME Control, depth > 0, NEW r \in {"success", "error"}, Return(r)
  PROVE  Control'
<1>0. MaxDepth \in Nat
  BY InstallAssumption
<1>1. depth \in Level /\ job \in [Level -> Frame] /\ depth \in 1..MaxDepth
  BY FrameTyped DEF Control, Level
<1>2. NoFrame \in Frame
  BY DEF NoFrame, Frame, Phases
<1>3. job' \in [Level -> Frame]
  BY <1>1, <1>2 DEF Return
<1>4. depth' = depth - 1 /\ depth' \in 0..MaxDepth
  BY <1>0, <1>1, SMT DEF Return
<1>5. \A n \in 1..depth' : job'[n] = job[n] /\ n \in 1..depth
  BY <1>0, <1>1, <1>4, SMT DEF Return, Level
<1>6. OrigKnown'
  BY <1>5 DEF Control, OrigKnown
<1> QED
  BY <1>3, <1>4, <1>6 DEF Control, Return

LEMMA FailControl ==
  ASSUME Control, depth > 0, NEW p, NEW u, NEW h, WriteBlobFailed(p, u, h)
  PROVE  Control'
<1>1. frame \in Frame /\ frame.orig \in Device
  BY FrameTyped
<1>2. "failed" \in Phases
  BY DEF Phases
<1>3. CASE Goto([frame EXCEPT !.pc = "failed"])
  BY <1>1, <1>2, <1>3, FramePc, GotoControl
<1>4. CASE Return("error")
  BY <1>4, ReturnControl
<1> QED
  BY <1>3, <1>4 DEF WriteBlobFailed

LEMMA NextIterationControl ==
  ASSUME Control, depth > 0, NEW f \in Frame, f.orig \in Device, NextIteration(f)
  PROVE  Control'
<1>1. "loop" \in Phases
  BY DEF Phases
<1>2. CASE Goto([f EXCEPT !.pc = "loop"])
  BY <1>1, <1>2, FramePc, GotoControl
<1>3. CASE Fail
  BY <1>3, FailControl DEF Fail
<1> QED
  BY <1>2, <1>3 DEF NextIteration

LEMMA UndisturbedControl ==
  ASSUME Control, Undisturbed, waiter' \in {"idle", "waiting", "success", "failed"}
  PROVE  Control'
BY DEF Control, OrigKnown, Undisturbed

LEMMA PhaseControl ==
  ASSUME Control, depth > 0, NEW p \in Phases, Goto([frame EXCEPT !.pc = p])
  PROVE  Control'
<1>1. frame \in Frame /\ frame.orig \in Device
  BY FrameTyped
<1>2. [frame EXCEPT !.pc = p] \in Frame /\ [frame EXCEPT !.pc = p].orig = frame.orig
  BY <1>1, FramePc
<1> QED
  BY <1>1, <1>2, GotoControl

LEMMA BeginControl ==
  ASSUME Control, NEW d \in Device, NEW kind \in {"install", "blob"},
         NEW no_history \in BOOLEAN, Begin(d, kind, no_history)
  PROVE  Control'
<1>0. MaxDepth \in Nat /\ MaxInstalls \in Nat
  BY InstallAssumption
<1> DEFINE f == [NoFrame EXCEPT
                   !.orig = d, !.kind = kind, !.no_history = no_history,
                   !.pc = IF kind = "blob" THEN "prepare" ELSE "composite-prepare"]
<1>1. f \in Frame /\ f.orig = d
  BY DEF NoFrame, Frame, Phases
<1>2. job' = [job EXCEPT ![depth + 1] = f]
  BY DEF Begin
<1> HIDE DEF f
<1>3. /\ depth' = depth + 1 /\ depth' \in 0..MaxDepth /\ depth + 1 \in Level
      /\ begun' \in 0..MaxInstalls
  BY <1>0, SMT DEF Control, Begin, Level
<1>4. job' \in [Level -> Frame]
  BY <1>1, <1>2, <1>3 DEF Control
<1>5. ASSUME NEW n \in 1..depth' PROVE job'[n].orig \in Device
  <2>1. CASE n = depth + 1
    BY <1>1, <1>2, <1>3, <2>1 DEF Control
  <2>2. CASE n # depth + 1
    <3>1. n \in 1..depth /\ n \in Level
      BY <1>0, <1>3, <2>2, SMT DEF Control, Level
    <3> QED
      BY <1>2, <2>2, <3>1 DEF Control, OrigKnown
  <2> QED
    BY <2>1, <2>2
<1> QED
  BY <1>3, <1>4, <1>5 DEF Control, OrigKnown, Begin

\* Every step keeps the stack of installs well formed.
LEMMA ControlStep ==
  ASSUME EngineInv, [InstallNext]_allVars
  PROVE  Control'
<1>0. ListInv /\ Control /\ TypeOK
  BY DEF EngineInv, ListInv
<1> USE DEF Phases, Phase
<1>1. ASSUME NEW d \in Device, HotplugAdd(d) PROVE Control'
  BY <1>0, <1>1, UndisturbedControl DEF HotplugAdd, Add, Control
<1>2. ASSUME NEW d \in Device, HotplugRemove(d) PROVE Control'
  BY <1>0, <1>2, UndisturbedControl DEF HotplugRemove, Remove, Control
<1>3. ASSUME NEW it \in items, HotplugTimer(it) PROVE Control'
  BY <1>0, <1>3, UndisturbedControl DEF HotplugTimer, DelayedRemove, Control
<1>4. ASSUME NEW d \in Device, NEW r \in Request, Begin(d, r[1], r[2]) PROVE Control'
  <2>1. r[1] \in {"install", "blob"} /\ r[2] \in BOOLEAN
    BY InstallAssumption
  <2> QED
    BY <1>0, <1>4, <2>1, BeginControl
<1>5. CASE InstallRelease
  BY <1>0, <1>5, PhaseControl DEF InstallRelease
<1>6. CASE NotFound
  BY <1>0, <1>6, FailControl DEF NotFound, Fail
<1>7. CASE Prepare
  BY <1>0, <1>7, PhaseControl, FailControl DEF Prepare
<1>8. CASE InstallLoop
  <2>1. PICK d \in Found : Goto([frame EXCEPT !.pc = "detach", !.first = d])
    BY <1>8 DEF InstallLoop
  <2>2. frame \in Frame /\ frame.orig \in Device /\ depth > 0 /\ d \in Device
    BY <1>0, <1>8, FrameTyped, FoundTyped DEF InstallLoop
  <2> DEFINE g == [frame EXCEPT !.pc = "detach", !.first = d]
  <2>3. g \in Frame /\ g.orig = frame.orig
    BY <2>2, FrameFirst
  <2> QED
    BY <1>0, <2>1, <2>2, <2>3, GotoControl
<1>9. CASE Detach
  BY <1>0, <1>9, PhaseControl, FailControl DEF Detach, Fail
<1>10. CASE WriteFirmware
  <2> DEFINE f == [frame EXCEPT !.writes = @ + 1]
  <2>1. frame \in Frame /\ frame.orig \in Device /\ depth > 0
    BY <1>0, <1>10, FrameTyped DEF WriteFirmware
  <2>2. f \in Frame /\ f.orig = frame.orig
    BY <2>1, FrameWrites
  <2>3. NextIteration(f) \/ Goto([f EXCEPT !.pc = "attach"])
    BY <1>10 DEF WriteFirmware
  <2> HIDE DEF f
  <2>4. [f EXCEPT !.pc = "attach"] \in Frame /\ [f EXCEPT !.pc = "attach"].orig = f.orig
    BY <2>2, FramePc, ZenonT(30)
  <2> QED
    BY <1>0, <2>1, <2>2, <2>3, <2>4, GotoControl, NextIterationControl
<1>11. CASE WriteFirmwareFails
  <2> DEFINE f == [frame EXCEPT !.pc = "abort", !.writes = @ + 1]
  <2>1. frame \in Frame /\ frame.orig \in Device /\ depth > 0
    BY <1>0, <1>11, FrameTyped DEF WriteFirmwareFails
  <2>2. f \in Frame /\ f.orig = frame.orig
    BY <2>1, FrameAbort
  <2>3. Goto(f) \/ Fail
    BY <1>11 DEF WriteFirmwareFails
  <2> HIDE DEF f
  <2> QED
    BY <1>0, <2>1, <2>2, <2>3, GotoControl, FailControl DEF Fail
<1>12. CASE Attach
  BY <1>0, <1>12, PhaseControl, FailControl DEF Attach, Fail
<1>13. CASE AttachRestart
  BY <1>0, <1>13, FrameTyped, NextIterationControl DEF AttachRestart
<1>14. CASE Reload
  BY <1>0, <1>14, PhaseControl, FailControl DEF Reload, Fail
<1>15. CASE CheckComplete
  BY <1>0, <1>15, PhaseControl, FrameTyped, NextIterationControl DEF CheckComplete
<1>16. CASE Cleanup
  <2>1. PICK p \in Phases : \/ Goto([frame EXCEPT !.pc = p])
                            \/ \E d \in Found : WriteBlobFailed(inProgress \ {d}, updateState, history)
    BY <1>16 DEF Cleanup
  <2> QED
    BY <1>0, <1>16, <2>1, PhaseControl, FailControl DEF Cleanup
<1>17. CASE AbortDone
  BY <1>0, <1>17, FailControl DEF AbortDone, Fail
<1>18. CASE BlobDone
  BY <1>0, <1>18, ReturnControl DEF BlobDone
<1>19. CASE InstallDone
  <2>1. CASE \E p \in Phases : Goto([frame EXCEPT !.pc = p])
    BY <1>0, <1>19, <2>1, PhaseControl DEF InstallDone
  <2>2. CASE /\ job' = [job EXCEPT ![depth].pc = "acquiesce"]
             /\ waiter' = "waiting"
             /\ reply' = "none"
             /\ UNCHANGED <<begun, depth>>
    <3> DEFINE f == [frame EXCEPT !.pc = "acquiesce"]
    <3>1. job' = [job EXCEPT ![depth] = f]
      BY <2>2, Zenon DEF frame
    <3>2. depth \in Level /\ f \in Frame /\ f.orig \in Device
      BY <1>0, <1>19, FrameTyped, FramePc, ZenonT(30) DEF InstallDone
    <3> HIDE DEF f
    <3>3. job' \in [Level -> Frame] /\ job'[depth] = f
      BY <1>0, <3>1, <3>2 DEF Control
    <3>4. \A n \in 1..depth : n # depth => job'[n] = job[n]
      BY <1>0, <3>1, <3>2, SMT DEF Control
    <3>5. \A n \in 1..depth : job'[n].orig \in Device
      BY <1>0, <3>2, <3>3, <3>4 DEF Control, OrigKnown
    <3> QED
      BY <1>0, <2>2, <3>3, <3>5 DEF Control, OrigKnown
  <2> QED
    BY <1>19, <2>1, <2>2 DEF InstallDone
<1>20. CASE Acquiesced
  BY <1>0, <1>20, PhaseControl DEF Acquiesced
<1>21. CASE InstallReturns
  BY <1>0, <1>21, ReturnControl DEF InstallReturns
<1>22. CASE InstallFailed
  BY <1>0, <1>22, ReturnControl DEF InstallFailed
<1>23. CASE Wait
  <2>1. waiter' \in {"idle", "waiting", "success", "failed"}
    BY <1>23 DEF Wait, WaitStart, WaitDone, WaitTimeout
  <2> QED
    BY <1>0, <1>23, <2>1, UndisturbedControl DEF Wait
<1>24. CASE WaitFailed
  BY <1>0, <1>24, ReturnControl, FailControl DEF WaitFailed, Fail
<1>25. CASE UNCHANGED allVars
  BY <1>0, <1>25 DEF allVars, vars, engine, Control, OrigKnown
<1> QED
  BY <1>1, <1>2, <1>3, <1>4, <1>5, <1>6, <1>7, <1>8, <1>9, <1>10, <1>11, <1>12,
     <1>13, <1>14, <1>15, <1>16, <1>17, <1>18, <1>19, <1>20, <1>21, <1>22, <1>23,
     <1>24, <1>25 DEF InstallNext, InstallStep

\* What the engine tells the history database is an update state.
LEMMA RecordTyped ==
  ASSUME NEW h \in HistoryType, NEW d \in Device, NEW state \in UpdateState
  PROVE  Record(h, d, state) \in HistoryType
BY DeviceAssumption DEF Record, HistoryType

LEMMA RecordChangeTyped ==
  ASSUME Reported, NEW d \in Device, NEW state \in UpdateState
  PROVE  RecordChange(d, state) \in HistoryType
BY RecordTyped DEF RecordChange, Reported

LEMMA RecordIncorporatedTyped ==
  ASSUME Reported, Kept, updateState' \in UpdateType
  PROVE  RecordIncorporated \in HistoryType
<1> SUFFICES ASSUME NEW i \in DeviceId
             PROVE  RecordIncorporated[i] \in UpdateState \cup {"none"}
  BY DEF RecordIncorporated, HistoryType
<1> DEFINE changed == {x \in watched : /\ Id[x] = i
                                       /\ updateState'[x] # updateState[x]}
           x == CHOOSE y \in changed : TRUE
<1>1. RecordIncorporated[i] = IF changed = {} THEN history[i]
                              ELSE Record(history, x, updateState'[x])[i]
  BY DEF RecordIncorporated
<1>2. CASE changed = {}
  BY <1>1, <1>2 DEF Reported, HistoryType
<1>3. CASE changed # {}
  <2>1. x \in changed
    BY <1>3
  <2> HIDE DEF x
  <2>2. x \in Device /\ updateState'[x] \in UpdateState
    BY <2>1 DEF Kept, UpdateType
  <2>3. Record(history, x, updateState'[x]) \in HistoryType
    BY <2>2, RecordTyped DEF Reported
  <2> QED
    BY <1>1, <1>3, <2>3 DEF HistoryType
<1> QED
  BY <1>2, <1>3

LEMMA FailReported ==
  ASSUME Control, depth > 0, NEW p \in SUBSET Device, NEW u \in UpdateType,
         NEW h \in HistoryType, WriteBlobFailed(p, u, h)
  PROVE  Reported'
<1>1. frame.orig \in Device
  BY FrameTyped
<1>2. PICK state \in {u[frame.orig], "failed"} :
        /\ updateState' = [u EXCEPT ![frame.orig] = state]
        /\ inProgress' = ProblemAfter(p, frame.orig, state)
        /\ history' = Record(h, frame.orig, state)
  BY DEF WriteBlobFailed
<1>3. state \in UpdateState
  BY <1>1 DEF UpdateType, UpdateState
<1>4. inProgress' \in SUBSET Device
  BY <1>1, <1>2 DEF ProblemAfter
<1>5. updateState' \in UpdateType
  BY <1>2, <1>3 DEF UpdateType
<1>6. history' \in HistoryType
  BY <1>1, <1>2, <1>3, RecordTyped
<1> QED
  BY <1>4, <1>5, <1>6 DEF Reported

LEMMA NextIterationReported ==
  ASSUME Control, Reported, depth > 0, NEW f, NextIteration(f)
  PROVE  Reported'
<1>1. CASE Fail
  BY <1>1, FailReported DEF Fail, Reported
<1>2. CASE UNCHANGED reported
  BY <1>2 DEF reported, Reported
<1> QED
  BY <1>1, <1>2 DEF NextIteration

\* An object is told its new update state, and the database of it.
LEMMA StateReported ==
  ASSUME Reported, NEW d \in Device, NEW state \in UpdateState,
         updateState' = [updateState EXCEPT ![d] = state],
         inProgress' = ProblemAfter(inProgress, d, state),
         history' = RecordChange(d, state)
  PROVE  Reported'
<1>1. history' \in HistoryType
  BY RecordChangeTyped
<1>2. inProgress' \in SUBSET Device
  BY DEF Reported, ProblemAfter
<1>3. updateState' \in UpdateType
  BY DEF Reported, UpdateType
<1> QED
  BY <1>1, <1>2, <1>3 DEF Reported

LEMMA SuccessReported ==
  ASSUME Reported, NEW d \in Device, MarkSuccess(d)
  PROVE  /\ inProgress' \in SUBSET Device
         /\ updateState' \in UpdateType
         /\ updateState'[d] \in {"success", "needs-reboot"}
BY DEF Reported, MarkSuccess, ProblemAfter, UpdateType, UpdateState

\* Every step of an install reports update states.
LEMMA ReportedStep ==
  ASSUME EngineInv, InstallStep
  PROVE  Reported'
<1>0. ListInv /\ Control /\ Reported
  BY DEF EngineInv
<1>1. Found \subseteq Device
  BY <1>0, FoundTyped
<1>2. depth > 0
  BY DEF InstallStep, InstallRelease, NotFound, Prepare, InstallLoop, Detach,
         WriteFirmware, WriteFirmwareFails, Attach, AttachRestart, Reload,
         CheckComplete, Cleanup, AbortDone, BlobDone, InstallDone, Acquiesced,
         InstallReturns, InstallFailed, Wait, WaitFailed, Phase
<1>3. frame.orig \in Device
  BY <1>0, <1>2, FrameTyped
<1>4. Fail => Reported'
  BY <1>0, <1>2, FailReported DEF Fail, Reported
<1>5. UNCHANGED reported => Reported'
  BY <1>0 DEF reported, Reported
<1>6. CASE InstallRelease
  <2>1. history' \in HistoryType
    BY <1>0, <1>3, <1>6, DeviceAssumption
       DEF InstallRelease, Reported, HistoryType, UpdateType
  <2> QED
    BY <1>0, <1>6, <2>1 DEF InstallRelease, Reported
<1>7. CASE NotFound
  BY <1>4, <1>7 DEF NotFound
<1>8. CASE Prepare
  <2>1. PICK d \in Found :
          \/ WriteBlobFailed(ProblemAfter(inProgress, d, "failed-transient"),
                             [updateState EXCEPT ![d] = "failed-transient"],
                             RecordChange(d, "failed-transient"))
          \/ WriteBlobFailed(inProgress \cup {d}, updateState, history)
          \/ /\ inProgress' = inProgress \cup {d}
             /\ UNCHANGED <<updateState, history>>
    BY <1>8 DEF Prepare
  <2>2. d \in Device /\ "failed-transient" \in UpdateState
    BY <1>1, <2>1 DEF UpdateState
  <2>3. /\ ProblemAfter(inProgress, d, "failed-transient") \in SUBSET Device
        /\ [updateState EXCEPT ![d] = "failed-transient"] \in UpdateType
        /\ RecordChange(d, "failed-transient") \in HistoryType
    BY <1>0, <2>2, RecordChangeTyped DEF Reported, ProblemAfter, UpdateType
  <2>4. inProgress \cup {d} \in SUBSET Device
    BY <1>0, <2>2 DEF Reported
  <2>5. CASE WriteBlobFailed(ProblemAfter(inProgress, d, "failed-transient"),
                             [updateState EXCEPT ![d] = "failed-transient"],
                             RecordChange(d, "failed-transient"))
    BY <1>0, <1>2, <2>3, <2>5, FailReported
  <2>6. CASE WriteBlobFailed(inProgress \cup {d}, updateState, history)
    BY <1>0, <1>2, <2>4, <2>6, FailReported DEF Reported
  <2>7. CASE /\ inProgress' = inProgress \cup {d}
             /\ UNCHANGED <<updateState, history>>
    BY <1>0, <2>4, <2>7 DEF Reported
  <2> QED
    BY <2>1, <2>5, <2>6, <2>7
<1>9. CASE InstallLoop
  BY <1>5, <1>9 DEF InstallLoop
<1>10. CASE Detach
  BY <1>4, <1>5, <1>10 DEF Detach
<1>11. CASE WriteFirmware
  BY <1>0, <1>2, <1>5, <1>11, NextIterationReported DEF WriteFirmware, reported
<1>12. CASE WriteFirmwareFails
  <2>1. CASE Fail
    BY <1>4, <2>1
  <2>2. CASE \E d \in Found, state \in {"failed", "failed-transient"} :
               /\ updateState' = [updateState EXCEPT ![d] = state]
               /\ inProgress' = ProblemAfter(inProgress, d, state)
               /\ history' = RecordChange(d, state)
    BY <1>0, <1>1, <2>2, StateReported DEF UpdateState
  <2> QED
    BY <1>12, <2>1, <2>2 DEF WriteFirmwareFails
<1>13. CASE Attach
  BY <1>4, <1>5, <1>13 DEF Attach
<1>14. CASE AttachRestart
  BY <1>0, <1>2, <1>14, NextIterationReported DEF AttachRestart
<1>15. CASE Reload
  BY <1>4, <1>5, <1>15 DEF Reload
<1>16. CASE CheckComplete
  <2>1. CASE NextIteration(frame)
    BY <1>0, <1>2, <2>1, NextIterationReported
  <2>2. CASE /\ MarkSuccess(frame.orig)
             /\ LET o == frame.orig
                IN  history' = IF frame.no_history THEN RecordChange(o, updateState'[o])
                               ELSE [history EXCEPT ![Id[o]] = updateState'[o]]
    <3>1. /\ inProgress' \in SUBSET Device
          /\ updateState' \in UpdateType
          /\ updateState'[frame.orig] \in UpdateState
      BY <1>0, <1>3, <2>2, SuccessReported DEF UpdateState
    <3>2. RecordChange(frame.orig, updateState'[frame.orig]) \in HistoryType
      BY <1>0, <1>3, <3>1, RecordChangeTyped
    <3>3. [history EXCEPT ![Id[frame.orig]] = updateState'[frame.orig]] \in HistoryType
      BY <1>0, <1>3, <3>1, DeviceAssumption DEF Reported, HistoryType
    <3> QED
      BY <2>2, <3>1, <3>2, <3>3 DEF Reported
  <2> QED
    BY <1>16, <2>1, <2>2 DEF CheckComplete
<1>17. CASE Cleanup
  <2>1. PICK d \in Found :
          \/ inProgress' = inProgress \ {d} /\ UNCHANGED <<updateState, history>>
          \/ WriteBlobFailed(inProgress \ {d}, updateState, history)
    BY <1>17 DEF Cleanup
  <2>2. inProgress \ {d} \in SUBSET Device
    BY <1>0 DEF Reported
  <2>3. CASE WriteBlobFailed(inProgress \ {d}, updateState, history)
    BY <1>0, <1>2, <2>2, <2>3, FailReported DEF Reported
  <2> QED
    BY <1>0, <2>1, <2>2, <2>3 DEF Reported
<1>18. CASE AbortDone
  BY <1>4, <1>18 DEF AbortDone
<1>19. CASE BlobDone
  BY <1>5, <1>19 DEF BlobDone
<1>20. CASE InstallDone
  <2>1. CASE UNCHANGED reported
    BY <1>5, <2>1
  <2>2. CASE /\ updateState' = [updateState EXCEPT ![frame.orig] = "needs-reboot"]
             /\ inProgress' = ProblemAfter(inProgress, frame.orig, "needs-reboot")
             /\ history' = RecordChange(frame.orig, "needs-reboot")
    BY <1>0, <1>3, <2>2, StateReported DEF UpdateState
  <2>3. ASSUME NEW d \in Found, MarkSuccess(d), history' = RecordChange(d, updateState'[d])
        PROVE  Reported'
    <3>1. /\ d \in Device
          /\ inProgress' \in SUBSET Device
          /\ updateState' \in UpdateType
          /\ updateState'[d] \in UpdateState
      BY <1>0, <1>1, <2>3, SuccessReported DEF UpdateState
    <3> QED
      BY <1>0, <2>3, <3>1, RecordChangeTyped DEF Reported
  <2> QED
    BY <1>20, <2>1, <2>2, <2>3 DEF InstallDone
<1>21. CASE Acquiesced
  BY <1>5, <1>21 DEF Acquiesced
<1>22. CASE InstallReturns
  BY <1>0, <1>1, <1>5, <1>22, StateReported DEF InstallReturns, UpdateState
<1>23. CASE InstallFailed
  BY <1>5, <1>23 DEF InstallFailed
<1>24. CASE Wait
  BY <1>5, <1>24 DEF Wait, WaitStart, WaitDone, WaitTimeout, reported
<1>25. CASE WaitFailed
  BY <1>4, <1>5, <1>25 DEF WaitFailed
<1> QED
  BY <1>6, <1>7, <1>8, <1>9, <1>10, <1>11, <1>12, <1>13, <1>14, <1>15, <1>16, <1>17,
     <1>18, <1>19, <1>20, <1>21, <1>22, <1>23, <1>24, <1>25 DEF InstallStep

LEMMA KeptStep ==
  ASSUME EngineInv, InstallStep
  PROVE  Kept'
<1>0. Kept /\ ListInv /\ Found \subseteq Device
  BY FoundTyped DEF EngineInv
<1>1. CASE InstallRelease
  BY <1>0, <1>1 DEF InstallRelease, Kept
<1>2. CASE NotFound
  BY <1>0, <1>2 DEF NotFound, Kept
<1>3. CASE Prepare
  BY <1>0, <1>3 DEF Prepare, Kept
<1>4. CASE InstallLoop
  BY <1>0, <1>4 DEF InstallLoop, Kept
<1>5. CASE Detach
  BY <1>0, <1>5 DEF Detach, Kept
<1>6. CASE WriteFirmware
  <2>1. write_cnt' \in Nat
    BY <1>0, <1>6, SMT DEF WriteFirmware, NextIteration, Kept
  <2>2. restart' \subseteq Device
    BY <1>0, <1>6, SMT DEF WriteFirmware, Kept
  <2> QED
    BY <1>0, <1>6, <2>1, <2>2 DEF WriteFirmware, Kept
<1>7. CASE WriteFirmwareFails
  BY <1>0, <1>7 DEF WriteFirmwareFails, Kept
<1>8. CASE Attach
  BY <1>0, <1>8 DEF Attach, Kept
<1>9. CASE AttachRestart
  BY <1>0, <1>9, SMT DEF AttachRestart, NextIteration, Kept
<1>10. CASE Reload
  BY <1>0, <1>10 DEF Reload, Kept
<1>11. CASE CheckComplete
  <2>1. write_cnt' \in Nat
    BY <1>0, <1>11, SMT DEF CheckComplete, NextIteration, Kept
  <2> QED
    BY <1>0, <1>11, <2>1 DEF CheckComplete, Kept
<1>12. CASE Cleanup
  BY <1>0, <1>12 DEF Cleanup, Kept
<1>13. CASE AbortDone
  BY <1>0, <1>13 DEF AbortDone, Kept
<1>14. CASE BlobDone
  BY <1>0, <1>14 DEF BlobDone, Kept
<1>15. CASE InstallDone
  BY <1>0, <1>15 DEF InstallDone, Kept
<1>16. CASE Acquiesced
  BY <1>0, <1>16 DEF Acquiesced, Kept
<1>17. CASE InstallReturns
  BY <1>0, <1>17 DEF InstallReturns, Kept
<1>18. CASE InstallFailed
  BY <1>0, <1>18 DEF InstallFailed, Kept
<1>19. CASE Wait
  BY <1>0, <1>19 DEF Wait, Kept
<1>20. CASE WaitFailed
  BY <1>0, <1>20 DEF WaitFailed, Kept
<1> QED
  BY <1>1, <1>2, <1>3, <1>4, <1>5, <1>6, <1>7, <1>8, <1>9, <1>10, <1>11, <1>12, <1>13,
     <1>14, <1>15, <1>16, <1>17, <1>18, <1>19, <1>20 DEF InstallStep

\* What a step of an install leaves of the flags of every object.
FlagsKept ==
  /\ flags' \in [Device -> SUBSET Flag]
  /\ \A x \in Device :
        /\ "unconnected" \in flags'[x] <=> "unconnected" \in flags[x]
        /\ "replug-match-guid" \in flags'[x] <=> "replug-match-guid" \in flags[x]

\* Every step of an install leaves the list to itself, but for flags that do not
\* concern the connection.
LEMMA ListKept ==
  ASSUME EngineInv, InstallStep
  PROVE  /\ FlagsKept
         /\ UNCHANGED <<items, counterparts, children>>
         /\ signalled' = {}
<1>0. ListInv /\ flags \in [Device -> SUBSET Flag] /\ Found \subseteq Device
  BY FoundTyped DEF EngineInv, ListInv, TypeOK
<1>1. flags' = flags => FlagsKept
  BY <1>0 DEF FlagsKept
<1>2. ASSUME NEW d \in Found, MayReplug(d) PROVE FlagsKept
  BY <1>0, <1>2, SMT DEF MayReplug, FlagsKept, Flag
<1>3. CASE InstallRelease
  BY <1>1, <1>3 DEF InstallRelease, KeepList
<1>4. CASE NotFound
  BY <1>1, <1>4 DEF NotFound, KeepList
<1>5. CASE Prepare
  BY <1>1, <1>2, <1>5 DEF Prepare, KeepList
<1>6. CASE InstallLoop
  <2>1. FlagsKept
    BY <1>0, <1>6 DEF InstallLoop, FlagsKept
  <2> QED
    BY <1>6, <2>1 DEF InstallLoop, KeepList
<1>7. CASE Detach
  <2>1. PICK d \in Found : \/ MayReplug(d)
                           \/ flags' = [flags EXCEPT ![d] = @ \ {"wait-for-replug"}]
    BY <1>7 DEF Detach
  <2>2. ASSUME flags' = [flags EXCEPT ![d] = @ \ {"wait-for-replug"}]
        PROVE  FlagsKept
    BY <1>0, <2>2 DEF FlagsKept
  <2>3. FlagsKept
    BY <1>2, <2>1, <2>2
  <2> QED
    BY <1>7, <2>3 DEF Detach, KeepList
<1>8. CASE WriteFirmware
  <2>1. PICK d \in Found :
          \/ MayReplug(d)
          \/ flags' = [flags EXCEPT ![d] = @ \cup {"another-write-required"}]
    BY <1>8 DEF WriteFirmware, MayReplug
  <2>2. ASSUME flags' = [flags EXCEPT ![d] = @ \cup {"another-write-required"}]
        PROVE  FlagsKept
    BY <1>0, <2>2 DEF FlagsKept, Flag
  <2>3. FlagsKept
    BY <1>2, <2>1, <2>2
  <2> QED
    BY <1>8, <2>3 DEF WriteFirmware, KeepList
<1>9. CASE WriteFirmwareFails
  BY <1>1, <1>2, <1>9 DEF WriteFirmwareFails, KeepList
<1>10. CASE Attach
  BY <1>1, <1>2, <1>10 DEF Attach, KeepList
<1>11. CASE AttachRestart
  BY <1>1, <1>11 DEF AttachRestart, KeepList
<1>12. CASE Reload
  BY <1>1, <1>2, <1>12 DEF Reload, KeepList
<1>13. CASE CheckComplete
  BY <1>1, <1>13 DEF CheckComplete, KeepList
<1>14. CASE Cleanup
  BY <1>1, <1>2, <1>14 DEF Cleanup, KeepList
<1>15. CASE AbortDone
  BY <1>1, <1>15 DEF AbortDone, KeepList
<1>16. CASE BlobDone
  BY <1>1, <1>16 DEF BlobDone, KeepList
<1>17. CASE InstallDone
  BY <1>1, <1>17 DEF InstallDone, KeepList
<1>18. CASE Acquiesced
  BY <1>1, <1>18 DEF Acquiesced, KeepList
<1>19. CASE InstallReturns
  BY <1>1, <1>19 DEF InstallReturns, KeepList
<1>20. CASE InstallFailed
  BY <1>1, <1>20 DEF InstallFailed, KeepList
<1>21. CASE Wait
  <2>1. CASE WaitStart \/ WaitDone
    BY <1>1, <2>1 DEF WaitStart, WaitDone
  <2>2. CASE WaitTimeout
    <3>1. FlagsKept
      BY <1>0, <2>2 DEF WaitTimeout, FlagsKept
    <3> QED
      BY <2>2, <3>1 DEF WaitTimeout
  <2> QED
    BY <1>21, <2>1, <2>2 DEF Wait
<1>22. CASE WaitFailed
  BY <1>1, <1>22 DEF WaitFailed, KeepList
<1> QED
  BY <1>3, <1>4, <1>5, <1>6, <1>7, <1>8, <1>9, <1>10, <1>11, <1>12, <1>13, <1>14, <1>15,
     <1>16, <1>17, <1>18, <1>19, <1>20, <1>21, <1>22 DEF InstallStep

\* Every step keeps the types, and the invariant of the list.
LEMMA EngineStep ==
  ASSUME NoEquivalents, EngineInv, [InstallNext]_allVars
  PROVE  EngineInv'
<1>0. ListInv /\ Control /\ Reported /\ Kept
  BY DEF EngineInv
<1>1. Control'
  BY ControlStep
<1>2. ASSUME NEW d \in Device, HotplugAdd(d) PROVE EngineInv'
  <2>1. ListInv'
    BY <1>0, <1>2, AddInv DEF HotplugAdd
  <2>2. inProgress' \in SUBSET Device /\ updateState' \in UpdateType
    BY <2>1 DEF ListInv, TypeOK, UpdateType
  <2>3. history' \in HistoryType
    BY <1>0, <1>2, <2>2, RecordIncorporatedTyped DEF HotplugAdd
  <2>4. watched' \subseteq Device
    BY <1>0, <1>2 DEF HotplugAdd, Kept
  <2> QED
    BY <1>0, <1>1, <1>2, <2>1, <2>2, <2>3, <2>4 DEF EngineInv, HotplugAdd, Reported, Kept
<1>3. ASSUME NEW d \in Device, HotplugRemove(d) PROVE EngineInv'
  <2>1. ListInv'
    BY <1>0, <1>3, RemoveInv DEF HotplugRemove
  <2>2. Reported'
    BY <1>0, <1>3 DEF HotplugRemove, Remove, Reported
  <2>3. watched' \subseteq Device
    BY <1>0, <1>3 DEF HotplugRemove, Kept
  <2> QED
    BY <1>0, <1>1, <1>3, <2>1, <2>2, <2>3 DEF EngineInv, HotplugRemove, Kept
<1>4. ASSUME NEW it \in items, HotplugTimer(it) PROVE EngineInv'
  <2>1. ListInv'
    BY <1>0, <1>4, ListStep DEF HotplugTimer, Operation
  <2>2. Reported'
    BY <1>0, <1>4 DEF HotplugTimer, DelayedRemove, Reported
  <2> QED
    BY <1>0, <1>1, <1>4, <2>1, <2>2 DEF EngineInv, HotplugTimer, Kept
<1>5. ASSUME items' = items, signalled' = {}, UNCHANGED <<counterparts, children>>,
             FlagsKept, Reported', Kept'
      PROVE  EngineInv'
  <2>1. TypeOK /\ UniqueIds /\ TimerIffUnconnected
    BY <1>0 DEF ListInv
  <2>2. TypeOK'
    BY <1>1, <1>5, <2>1 DEF TypeOK, FlagsKept, Reported, UpdateType, Control
  <2>3. UniqueIds'
    BY <1>5, <2>1 DEF UniqueIds
  <2>4. \A it \in items : it.device \in Device
    BY <2>1 DEF TypeOK
  <2>5. TimerIffUnconnected'
    BY <1>5, <2>1, <2>4, Zenon DEF TimerIffUnconnected, FlagsKept
  <2> QED
    BY <1>1, <1>5, <2>2, <2>3, <2>5 DEF EngineInv, ListInv
<1>6. ASSUME NEW d \in Device, NEW r \in Request, Begin(d, r[1], r[2]) PROVE EngineInv'
  <2>1. FlagsKept
    BY <1>0, <1>6 DEF Begin, FlagsKept, ListInv, TypeOK
  <2>2. Reported' /\ Kept'
    BY <1>0, <1>6 DEF Begin, reported, Reported, Kept
  <2> QED
    BY <1>5, <1>6, <2>1, <2>2 DEF Begin, KeepList
<1>7. CASE InstallStep
  BY <1>5, <1>7, ReportedStep, KeptStep, ListKept
<1>8. CASE UNCHANGED allVars
  <2>1. ListInv'
    BY <1>0, <1>8, ListStep DEF allVars
  <2>2. Reported' /\ Kept'
    BY <1>0, <1>8 DEF allVars, vars, engine, Reported, Kept
  <2> QED
    BY <1>1, <2>1, <2>2 DEF EngineInv
<1> QED
  BY <1>2, <1>3, <1>4, <1>6, <1>7, <1>8 DEF InstallNext

LEMMA EngineInit == InstallInit => EngineInv
<1> SUFFICES ASSUME InstallInit PROVE EngineInv
  OBVIOUS
<1>0. MaxDepth \in Nat /\ MaxInstalls \in Nat
  BY InstallAssumption
<1>1. Init
  BY DEF InstallInit
<1>2. ListInv
  BY <1>1, DeviceAssumption
     DEF Init, ListInv, TypeOK, UniqueIds, TimerIffUnconnected, UpdateState
<1>3. NoFrame \in Frame
  BY DEF NoFrame, Frame, Phases
<1>4. Control
  BY <1>0, <1>1, <1>3, SMT DEF InstallInit, Init, Control, OrigKnown
<1>5. Reported
  BY <1>1 DEF InstallInit, Init, Reported, UpdateType, UpdateState, HistoryType
<1>6. Kept
  BY DEF InstallInit, Kept
<1> QED
  BY <1>2, <1>4, <1>5, <1>6 DEF EngineInv

LEMMA EngineInvariant == NoEquivalents /\ InstallSpec => []EngineInv
<1> SUFFICES ASSUME NoEquivalents PROVE InstallSpec => []EngineInv
  OBVIOUS
<1>1. EngineInv /\ [InstallNext]_allVars => EngineInv'
  BY EngineStep
<1> QED
  BY <1>1, EngineInit, PTL DEF InstallSpec

\* The stack of installs stays within its bounds and each install is in one of
\* its phases, the database has an update state or nothing for an ID, and the
\* list stays well typed under installs: for any objects without equivalent IDs
\* and any nesting.
THEOREM InstallTypeCorrect == NoEquivalents /\ InstallSpec => []InstallTypeOK
<1>1. EngineInv => InstallTypeOK
  BY DEF EngineInv, ListInv, Control, Reported, Kept, HistoryType, InstallTypeOK
<1> QED
  BY <1>1, EngineInvariant, PTL
-----------------------------------------------------------------------------
(* The frames of the stack *)

\* What the innermost install's frame is after a step of it.
LEMMA GotoFrame ==
  ASSUME Control, depth > 0, NEW f, Goto(f)
  PROVE  /\ depth' = depth
         /\ \A n \in Level : job'[n] = IF n = depth THEN f ELSE job[n]
BY FrameTyped DEF Goto, Control

LEMMA ReturnFrame ==
  ASSUME Control, depth > 0, NEW r, Return(r)
  PROVE  /\ depth' = depth - 1
         /\ \A n \in Level : job'[n] = IF n = depth THEN NoFrame ELSE job[n]
BY FrameTyped DEF Return, Control

\* A failed fu_engine_write_blob leaves its frame for "failed" or returns.
LEMMA FailFrame ==
  ASSUME Control, depth > 0, NEW p, NEW u, NEW h, WriteBlobFailed(p, u, h)
  PROVE  \E f \in Frame :
           /\ \A n \in Level : job'[n] = IF n = depth THEN f ELSE job[n]
           /\ \/ /\ depth' = depth /\ f.pc = "failed" /\ f.orig = frame.orig
                 /\ f.writes = frame.writes /\ frame.kind = "install"
                 /\ reply' = "none"
              \/ /\ depth' = depth - 1 /\ f = NoFrame /\ f.pc = "returned" /\ f.writes = 0
                 /\ reply' = "error"
<1>1. frame \in Frame
  BY FrameTyped
<1>2. CASE frame.kind = "install" /\ Goto([frame EXCEPT !.pc = "failed"])
  <2> DEFINE f == [frame EXCEPT !.pc = "failed"]
  <2>1. f \in Frame /\ f.pc = "failed" /\ f.orig = frame.orig /\ f.writes = frame.writes
    <3>1. "failed" \in Phases
      BY DEF Phases
    <3> QED
      BY <1>1, <3>1, FramePc
  <2> HIDE DEF f
  <2>2. depth' = depth /\ \A n \in Level : job'[n] = IF n = depth THEN f ELSE job[n]
    BY <1>2, GotoFrame DEF f
  <2>3. reply' = "none"
    BY <1>2 DEF Goto
  <2> QED
    BY <1>2, <2>1, <2>2, <2>3
<1>3. CASE Return("error")
  <2>1. NoFrame \in Frame /\ NoFrame.pc = "returned" /\ NoFrame.writes = 0
    BY DEF NoFrame, Frame, Phases
  <2>2. reply' = "error"
    BY <1>3 DEF Return
  <2> QED
    BY <1>3, <2>1, <2>2, ReturnFrame
<1> QED
  BY <1>2, <1>3 DEF WriteBlobFailed

\* The frame of an install that begins.
LEMMA BeginFrame ==
  ASSUME Control, NEW d \in Device, NEW kind \in {"install", "blob"},
         NEW no_history \in BOOLEAN, Begin(d, kind, no_history)
  PROVE  /\ depth' = depth + 1 /\ depth' \in Level
         /\ \A n \in Level : n # depth' => job'[n] = job[n]
         /\ job'[depth'].pc = IF kind = "blob" THEN "prepare" ELSE "composite-prepare"
         /\ job'[depth'].orig = d
         /\ job'[depth'].kind = kind
         /\ job'[depth'].writes = 0
         /\ job'[depth'].no_history = no_history
<1>0. MaxDepth \in Nat
  BY InstallAssumption
<1> DEFINE f == [NoFrame EXCEPT
                   !.orig = d, !.kind = kind, !.no_history = no_history,
                   !.pc = IF kind = "blob" THEN "prepare" ELSE "composite-prepare"]
<1>1. /\ f.orig = d /\ f.kind = kind /\ f.writes = 0 /\ f.no_history = no_history
      /\ f.pc = IF kind = "blob" THEN "prepare" ELSE "composite-prepare"
  BY DEF NoFrame
<1>2. job' = [job EXCEPT ![depth + 1] = f]
  BY DEF Begin
<1> HIDE DEF f
<1>3. depth' = depth + 1 /\ depth' \in Level
  BY <1>0, SMT DEF Control, Begin, Level
<1>4. job'[depth'] = f /\ \A n \in Level : n # depth' => job'[n] = job[n]
  BY <1>2, <1>3 DEF Control
<1> QED
  BY <1>1, <1>3, <1>4
-----------------------------------------------------------------------------
(* The writes of an install *)

\* Installs do not nest.
NoNesting == MaxDepth = 1

\* What an install in frame f has written when the counter is c: the counter of
\* the engine counts the iterations of this install.
FrameWithin(f, c) ==
  /\ f.writes <= MaxWrites
  /\ f.pc \in {"composite-prepare", "prepare", "enter"} => f.writes = 0
  /\ f.pc \in {"loop", "detach", "write"} => f.writes <= c /\ c < MaxWrites
  /\ f.pc \in {"attach", "reload", "check"} => f.writes <= c + 1 /\ c < MaxWrites

\* The inductive invariant for the number of writes.
WritesInv == FrameWithin(job[1], write_cnt)

LEMMA OneLevel ==
  ASSUME NoNesting, Control, depth > 0
  PROVE  depth = 1 /\ Level = {1} /\ frame = job[1] /\ frame \in Frame
<1>1. depth = 1 /\ Level = {1}
  BY SMT DEF NoNesting, Control, Level
<1> QED
  BY <1>1, FrameTyped DEF frame

LEMMA GotoWithin ==
  ASSUME NoNesting, Control, depth > 0, NEW f, FrameWithin(f, write_cnt'), Goto(f)
  PROVE  WritesInv'
<1>1. job'[1] = f
  BY OneLevel, GotoFrame
<1> QED
  BY <1>1 DEF WritesInv

LEMMA LeftWithin ==
  ASSUME NEW f \in Frame, NEW c,
         f.pc \in {"failed", "returned", "abort", "abort-done", "cleanup", "done",
                   "acquiesce", "composite-cleanup"},
         f.writes <= MaxWrites
  PROVE  FrameWithin(f, c)
BY DEF FrameWithin

LEMMA ReturnWithin ==
  ASSUME NoNesting, Control, depth > 0, NEW r, Return(r)
  PROVE  WritesInv'
<1>1. job'[1] = NoFrame
  BY OneLevel, ReturnFrame
<1>2. NoFrame.pc = "returned" /\ NoFrame.writes = 0 /\ 0 <= MaxWrites
  BY InstallAssumption, SMTT(30) DEF NoFrame
<1> QED
  BY <1>1, <1>2 DEF WritesInv, FrameWithin

LEMMA FailWithin ==
  ASSUME NoNesting, Control, depth > 0, frame.writes <= MaxWrites,
         NEW p, NEW u, NEW h, WriteBlobFailed(p, u, h)
  PROVE  WritesInv'
<1>1. PICK f \in Frame :
           /\ \A n \in Level : job'[n] = IF n = depth THEN f ELSE job[n]
           /\ \/ /\ depth' = depth /\ f.pc = "failed" /\ f.orig = frame.orig
                 /\ f.writes = frame.writes /\ frame.kind = "install"
                 /\ reply' = "none"
              \/ /\ depth' = depth - 1 /\ f = NoFrame /\ f.pc = "returned" /\ f.writes = 0
                 /\ reply' = "error"
  BY FailFrame
<1>2. job'[1] = f
  BY <1>1, OneLevel
<1>3. f.writes <= MaxWrites
  BY <1>1, InstallAssumption, SMT
<1> QED
  BY <1>1, <1>2, <1>3, LeftWithin, SMTT(30) DEF WritesInv

LEMMA PhaseWithin ==
  ASSUME NoNesting, Control, depth > 0, NEW p \in Phases,
         Goto([frame EXCEPT !.pc = p]),
         frame.writes <= MaxWrites,
         p \in {"composite-prepare", "prepare", "enter"} => frame.writes = 0,
         p \in {"loop", "detach", "write"} =>
            frame.writes <= write_cnt' /\ write_cnt' < MaxWrites,
         p \in {"attach", "reload", "check"} =>
            frame.writes <= write_cnt' + 1 /\ write_cnt' < MaxWrites
  PROVE  WritesInv'
<1> DEFINE g == [frame EXCEPT !.pc = p]
<1>1. g.pc = p /\ g.writes = frame.writes
  BY OneLevel, FramePc
<1> HIDE DEF g
<1>2. FrameWithin(g, write_cnt')
  BY <1>1 DEF FrameWithin
<1>3. Goto(g)
  BY DEF g
<1> QED
  BY <1>2, <1>3, GotoWithin

LEMMA NextIterationWithin ==
  ASSUME NoNesting, Control, depth > 0, write_cnt \in Nat, frame.writes <= MaxWrites,
         NEW f \in Frame, f.writes <= write_cnt + 1, NextIteration(f)
  PROVE  WritesInv'
<1>0. MaxWrites \in Nat /\ f.writes \in Nat
  BY InstallAssumption DEF Frame
<1>1. CASE Fail
  BY <1>1, FailWithin DEF Fail
<1>2. CASE write_cnt + 1 < MaxWrites /\ Goto([f EXCEPT !.pc = "loop"])
  <2> DEFINE g == [f EXCEPT !.pc = "loop"]
  <2>1. g.pc = "loop" /\ g.writes = f.writes
    BY FramePc, ZenonT(30) DEF Phases
  <2> HIDE DEF g
  <2>2. write_cnt' = write_cnt + 1
    BY DEF NextIteration
  <2>3. FrameWithin(g, write_cnt')
    BY <1>0, <1>2, <2>1, <2>2, SMT DEF FrameWithin
  <2>4. Goto(g)
    BY <1>2 DEF g
  <2> QED
    BY <2>3, <2>4, GotoWithin
<1> QED
  BY <1>1, <1>2 DEF NextIteration

LEMMA WritesStep ==
  ASSUME NoNesting, EngineInv, WritesInv, InstallStep
  PROVE  WritesInv'
<1>0. Control /\ ListInv /\ write_cnt \in Nat /\ MaxWrites \in Nat \ {0}
  BY InstallAssumption DEF EngineInv, Kept
<1>1. depth > 0
  BY DEF InstallStep, InstallRelease, NotFound, Prepare, InstallLoop, Detach,
         WriteFirmware, WriteFirmwareFails, Attach, AttachRestart, Reload,
         CheckComplete, Cleanup, AbortDone, BlobDone, InstallDone, Acquiesced,
         InstallReturns, InstallFailed, Wait, WaitFailed, Phase
<1>2. frame \in Frame /\ FrameWithin(frame, write_cnt) /\ frame = job[1] /\ depth = 1
  BY <1>0, <1>1, OneLevel DEF WritesInv
<1>3. frame.writes \in Nat /\ frame.writes <= MaxWrites
  BY <1>2 DEF FrameWithin, Frame
<1>4. \A p, u, h : WriteBlobFailed(p, u, h) => WritesInv'
  BY <1>0, <1>1, <1>3, FailWithin
<1>5. Fail => WritesInv'
  BY <1>4 DEF Fail
<1>6. \A r : Return(r) => WritesInv'
  BY <1>0, <1>1, ReturnWithin
<1>7. ASSUME NEW p \in {"failed", "abort-done", "cleanup", "done", "acquiesce",
                        "composite-cleanup"},
             Goto([frame EXCEPT !.pc = p])
      PROVE  WritesInv'
  BY <1>0, <1>1, <1>3, <1>7, PhaseWithin DEF Phases
<1>8. CASE InstallRelease
  <2>1. frame.writes = 0
    BY <1>2, <1>8 DEF InstallRelease, Phase, FrameWithin
  <2>2. CASE Goto([frame EXCEPT !.pc = "prepare"])
    BY <1>0, <1>1, <1>3, <2>1, <2>2, PhaseWithin DEF Phases
  <2> QED
    BY <1>7, <1>8, <2>2 DEF InstallRelease
<1>9. CASE NotFound
  BY <1>5, <1>9 DEF NotFound
<1>10. CASE Prepare
  <2>1. frame.writes = 0
    BY <1>2, <1>10 DEF Prepare, Phase, FrameWithin
  <2>2. CASE Goto([frame EXCEPT !.pc = "enter"])
    BY <1>0, <1>1, <1>3, <2>1, <2>2, PhaseWithin DEF Phases
  <2> QED
    BY <1>4, <1>10, <2>2 DEF Prepare
<1>11. CASE InstallLoop
  <2>1. PICK d \in Found : Goto([frame EXCEPT !.pc = "detach", !.first = d])
    BY <1>11 DEF InstallLoop
  <2>2. d \in Device
    BY <1>0, <2>1, FoundTyped
  <2> DEFINE g == [frame EXCEPT !.pc = "detach", !.first = d]
  <2>3. g.pc = "detach" /\ g.writes = frame.writes
    BY <1>2, <2>2, FrameFirst
  <2> HIDE DEF g
  <2>4. frame.writes <= write_cnt' /\ write_cnt' < MaxWrites
    BY <1>0, <1>2, <1>11, SMT DEF InstallLoop, Phase, FrameWithin
  <2>5. FrameWithin(g, write_cnt') /\ Goto(g)
    BY <1>3, <2>1, <2>3, <2>4 DEF FrameWithin, g
  <2> QED
    BY <1>0, <1>1, <2>5, GotoWithin
<1>12. CASE Detach
  <2>1. CASE Goto([frame EXCEPT !.pc = "write"])
    <3>1. frame.writes <= write_cnt' /\ write_cnt' < MaxWrites
      BY <1>2, <1>12 DEF Detach, Phase, FrameWithin
    <3> QED
      BY <1>0, <1>1, <1>3, <2>1, <3>1, PhaseWithin DEF Phases
  <2> QED
    BY <1>5, <1>12, <2>1 DEF Detach
<1>13. CASE WriteFirmware
  <2> DEFINE f == [frame EXCEPT !.writes = @ + 1]
             g == [f EXCEPT !.pc = "attach"]
  <2>1. f \in Frame /\ f.writes = frame.writes + 1
    BY <1>2, FrameWrites
  <2>2. frame.writes <= write_cnt /\ write_cnt < MaxWrites
    BY <1>2, <1>13 DEF WriteFirmware, Phase, FrameWithin
  <2>3. NextIteration(f) \/ (Goto(g) /\ write_cnt' = write_cnt)
    BY <1>13 DEF WriteFirmware
  <2> HIDE DEF f
  <2>4. g.pc = "attach" /\ g.writes = f.writes
    BY <2>1, FramePc, ZenonT(30) DEF Phases
  <2> HIDE DEF g
  <2>5. CASE NextIteration(f)
    BY <1>0, <1>1, <1>3, <2>1, <2>2, <2>5, NextIterationWithin, SMT
  <2>6. CASE Goto(g) /\ write_cnt' = write_cnt
    <3>1. FrameWithin(g, write_cnt')
      BY <1>0, <1>3, <2>1, <2>2, <2>4, <2>6, SMT DEF FrameWithin
    <3> QED
      BY <1>0, <1>1, <2>6, <3>1, GotoWithin
  <2> QED
    BY <2>3, <2>5, <2>6
<1>14. CASE WriteFirmwareFails
  <2> DEFINE f == [frame EXCEPT !.pc = "abort", !.writes = @ + 1]
  <2>1. f \in Frame /\ f.pc = "abort" /\ f.writes = frame.writes + 1
    BY <1>2, FrameAbort
  <2>2. frame.writes <= write_cnt /\ write_cnt < MaxWrites
    BY <1>2, <1>14 DEF WriteFirmwareFails, Phase, FrameWithin
  <2>3. Goto(f) \/ Fail
    BY <1>14 DEF WriteFirmwareFails
  <2> HIDE DEF f
  <2>4. FrameWithin(f, write_cnt')
    BY <1>0, <1>3, <2>1, <2>2, SMT DEF FrameWithin
  <2> QED
    BY <1>0, <1>1, <1>5, <2>3, <2>4, GotoWithin
<1>15. CASE Attach
  <2>1. CASE Goto([frame EXCEPT !.pc = "reload"])
    <3>1. frame.writes <= write_cnt' + 1 /\ write_cnt' < MaxWrites
      BY <1>2, <1>15 DEF Attach, Phase, FrameWithin
    <3> QED
      BY <1>0, <1>1, <1>3, <2>1, <3>1, PhaseWithin DEF Phases
  <2> QED
    BY <1>5, <1>15, <2>1 DEF Attach
<1>16. CASE AttachRestart
  <2>1. frame.writes <= write_cnt + 1
    BY <1>2, <1>16 DEF AttachRestart, Phase, FrameWithin
  <2> QED
    BY <1>0, <1>1, <1>2, <1>3, <1>16, <2>1, NextIterationWithin DEF AttachRestart
<1>17. CASE Reload
  <2>1. CASE Goto([frame EXCEPT !.pc = "check"])
    <3>1. frame.writes <= write_cnt' + 1 /\ write_cnt' < MaxWrites
      BY <1>2, <1>17 DEF Reload, Phase, FrameWithin
    <3> QED
      BY <1>0, <1>1, <1>3, <2>1, <3>1, PhaseWithin DEF Phases
  <2> QED
    BY <1>5, <1>17, <2>1 DEF Reload
<1>18. CASE CheckComplete
  <2>1. frame.writes <= write_cnt + 1
    BY <1>2, <1>18 DEF CheckComplete, Phase, FrameWithin
  <2>2. CASE NextIteration(frame)
    BY <1>0, <1>1, <1>2, <1>3, <2>1, <2>2, NextIterationWithin
  <2> QED
    BY <1>7, <1>18, <2>2 DEF CheckComplete
<1>19. CASE Cleanup
  BY <1>4, <1>7, <1>19 DEF Cleanup
<1>20. CASE AbortDone
  BY <1>5, <1>20 DEF AbortDone
<1>21. CASE BlobDone
  BY <1>6, <1>21 DEF BlobDone
<1>22. CASE InstallDone
  <2>1. CASE /\ job' = [job EXCEPT ![depth].pc = "acquiesce"]
             /\ UNCHANGED <<begun, depth>>
    <3> DEFINE g == [frame EXCEPT !.pc = "acquiesce"]
    <3>1. job' = [job EXCEPT ![depth] = g]
      BY <2>1, Zenon DEF frame
    <3>2. g \in Frame /\ g.pc = "acquiesce" /\ g.writes = frame.writes
      <4>1. "acquiesce" \in Phases
        BY DEF Phases
      <4> QED
        BY <1>2, <4>1, FramePc
    <3> HIDE DEF g
    <3>3. job'[1] = g
      BY <1>0, <1>1, <1>2, <3>1, OneLevel DEF Control
    <3> QED
      BY <1>3, <3>2, <3>3, LeftWithin, SMT DEF WritesInv
  <2> QED
    BY <1>7, <1>22, <2>1 DEF InstallDone
<1>23. CASE Acquiesced
  BY <1>7, <1>23 DEF Acquiesced
<1>24. CASE InstallReturns
  BY <1>6, <1>24 DEF InstallReturns
<1>25. CASE InstallFailed
  BY <1>6, <1>25 DEF InstallFailed
<1>26. CASE Wait
  BY <1>26 DEF Wait, Undisturbed, WritesInv
<1>27. CASE WaitFailed
  BY <1>5, <1>6, <1>27 DEF WaitFailed
<1> QED
  BY <1>8, <1>9, <1>10, <1>11, <1>12, <1>13, <1>14, <1>15, <1>16, <1>17, <1>18, <1>19,
     <1>20, <1>21, <1>22, <1>23, <1>24, <1>25, <1>26, <1>27 DEF InstallStep

\* An install writes to a device at most FU_ENGINE_EMULATOR_WRITE_COUNT_MAX
\* times, whatever restarts and further writes the plugin asks for and however
\* many objects the device comes back as, when no other install interrupts it:
\* the counter is the engine's, and a nested install sets it back.
THEOREM WritesBoundedCorrect ==
  NoEquivalents /\ NoNesting /\ InstallSpec => []WritesBounded
<1> SUFFICES ASSUME NoEquivalents, NoNesting PROVE InstallSpec => []WritesBounded
  OBVIOUS
<1>0. MaxWrites \in Nat
  BY InstallAssumption
<1>1. InstallInit => WritesInv
  <2>1. NoFrame.pc = "returned" /\ NoFrame.writes = 0 /\ 1 \in Level
    BY SMT DEF NoFrame, NoNesting, Level
  <2> QED
    BY <1>0, <2>1, SMT DEF InstallInit, WritesInv, FrameWithin
<1>2. EngineInv /\ WritesInv /\ [InstallNext]_allVars => WritesInv'
  <2> SUFFICES ASSUME EngineInv, WritesInv, [InstallNext]_allVars PROVE WritesInv'
    OBVIOUS
  <2>1. ASSUME UNCHANGED <<job, write_cnt>> PROVE WritesInv'
    BY <2>1 DEF WritesInv
  <2>2. ASSUME NEW d \in Device, HotplugAdd(d) \/ HotplugRemove(d) PROVE WritesInv'
    BY <2>1, <2>2 DEF HotplugAdd, HotplugRemove, Undisturbed
  <2>3. ASSUME NEW it \in items, HotplugTimer(it) PROVE WritesInv'
    BY <2>1, <2>3 DEF HotplugTimer, Undisturbed
  <2>4. ASSUME NEW d \in Device, NEW r \in Request, Begin(d, r[1], r[2])
        PROVE  WritesInv'
    <3>1. r[1] \in {"install", "blob"} /\ r[2] \in BOOLEAN
      BY InstallAssumption
    <3>2. /\ depth' \in Level /\ job'[depth'].writes = 0
          /\ job'[depth'].pc \in {"prepare", "composite-prepare"}
      BY <2>4, <3>1, BeginFrame DEF EngineInv
    <3>3. depth' = 1
      BY <3>2, SMT DEF NoNesting, Level
    <3> QED
      BY <1>0, <3>2, <3>3, SMTT(30) DEF WritesInv, FrameWithin
  <2>5. CASE InstallStep
    BY <2>5, WritesStep
  <2>6. CASE UNCHANGED allVars
    BY <2>1, <2>6 DEF allVars, engine
  <2> QED
    BY <2>2, <2>3, <2>4, <2>5, <2>6 DEF InstallNext
<1>3. WritesInv => WritesBounded
  BY SMT DEF WritesInv, FrameWithin, WritesBounded, NoNesting, Level
<1> QED
  BY <1>1, <1>2, <1>3, EngineInvariant, PTL DEF InstallSpec
-----------------------------------------------------------------------------
(* Devices that come back as themselves *)

\* A device is one object, its connection is its own, and its plugin does not
\* match it by GUID: no object ever takes the place of another.
ComesBackAsItself ==
  /\ NoEquivalents
  /\ OneObjectEach
  /\ \A d, e \in Device :
        Connection[d] = Connection[e] /\ Connection[d] # NoConnection => d = e
  /\ \A d \in Device : "replug-match-guid" \notin FirstFlags[d]

\* Then no item has an old device.
ItselfInv ==
  /\ \A it \in items : it.device_old = NoDevice
  /\ \A d \in Device : "replug-match-guid" \notin flags[d]

\* A lookup by ID finds the object of the release, or nothing.
LEMMA FindItself ==
  ASSUME ComesBackAsItself, ListInv, ItselfInv, NEW d \in Device
  PROVE  \A it \in FindById(Id[d]) : it \in items /\ it.device = d
<1> SUFFICES ASSUME NEW it \in FindById(Id[d])
             PROVE  it \in items /\ it.device = d
  OBVIOUS
<1>1. it \in items
  BY DEF FindById, FilterById
<1>2. it.device_old = NoDevice
  BY <1>1 DEF ItselfInv
<1>3. it.device \in Device
  BY <1>1 DEF ListInv, TypeOK
<1>4. Id[d] \in Ids(it.device)
  BY <1>1, <1>2 DEF FindById, FilterById
<1>5. Id[it.device] = Id[d]
  BY <1>3, <1>4 DEF Ids, ComesBackAsItself, NoEquivalents
<1> QED
  BY <1>1, <1>3, <1>5 DEF ComesBackAsItself, OneObjectEach

LEMMA FoundItself ==
  ASSUME ComesBackAsItself, ListInv, ItselfInv, frame.orig \in Device
  PROVE  Found \subseteq {frame.orig}
BY FindItself DEF Found

\* Plugging a device in gives no object the state of another.
LEMMA AddItself ==
  ASSUME ComesBackAsItself, ListInv, ItselfInv, NEW d \in Device, Add(d)
  PROVE  ItselfInv' /\ UNCHANGED <<inProgress, updateState>>
<1>0. TypeOK /\ UniqueIds /\ NoEquivalents
  BY DEF ListInv, ComesBackAsItself
<1>1. \A it \in FindById(Id[d]) : it \in items /\ it.device = d
  BY FindItself
<1>2. ASSUME FindById(Id[d]) = {} PROVE \A it \in items : it.device # d
  BY <1>0, <1>2, FindByIdItem, SMT
<1>3. ASSUME FindById(Id[d]) = {}, AddSameConnection(d) PROVE FALSE
  <2>1. PICK it \in FindByConnection(Connection[d]) : it.remove_source
    BY <1>3 DEF AddSameConnection
  <2>2. Connection[d] # NoConnection /\ it \in items
    BY <2>1 DEF FindByConnection
  <2>3. it.device \in Device /\ it.device # d
    BY <1>0, <1>2, <1>3, <2>2 DEF TypeOK
  <2>4. it.device_old = NoDevice
    BY <2>2 DEF ItselfInv
  <2>5. Connection[it.device] = Connection[d]
    BY <2>1, <2>4 DEF FindByConnection
  <2> QED
    BY <2>2, <2>3, <2>5 DEF ComesBackAsItself
<1>4. ~AddCompatible(d)
  BY DEF AddCompatible, ItselfInv
<1>5. ASSUME NEW it \in FindById(Id[d]),
             AddOld(it, d) \/ AddIgnored(it, d) \/ AddSameId(it, d)
      PROVE  FALSE
  BY <1>1, <1>5 DEF AddOld, AddIgnored, AddSameId
<1>6. ASSUME NEW it \in FindById(Id[d]), AddSame(it, d)
      PROVE  ItselfInv' /\ UNCHANGED <<inProgress, updateState>>
  <2> DEFINE new == [it EXCEPT !.remove_source = FALSE]
  <2>1. it \in items /\ it \in Item
    BY <1>0, <1>1 DEF TypeOK
  <2>2. new.device_old = it.device_old
    BY <2>1
  <2>3. items' = (items \ {it}) \cup {new}
    BY <1>6 DEF AddSame, SetItem
  <2> HIDE DEF new
  <2>4. \A x \in items' : x.device_old = NoDevice
    BY <2>1, <2>2, <2>3 DEF ItselfInv
  <2>5. \A e \in Device : "replug-match-guid" \notin flags'[e]
    BY <1>6 DEF AddSame, ClearWaitForReplug, ItselfInv
  <2> QED
    BY <1>6, <2>4, <2>5 DEF ItselfInv, AddSame
<1>7. ASSUME AddNew(d)
      PROVE  ItselfInv' /\ UNCHANGED <<inProgress, updateState>>
  <2>1. \A e \in Device : "replug-match-guid" \notin flags'[e]
    BY <1>0, <1>7 DEF AddNew, ItselfInv, TypeOK
  <2> DEFINE new == [device |-> d, device_old |-> NoDevice, remove_source |-> FALSE]
  <2>2. new.device_old = NoDevice
    OBVIOUS
  <2>3. items' = items \cup {new}
    BY <1>7, Zenon DEF AddNew
  <2> HIDE DEF new
  <2>4. \A x \in items' : x.device_old = NoDevice
    BY <2>2, <2>3, Zenon DEF ItselfInv
  <2> QED
    BY <1>7, <2>1, <2>4 DEF AddNew, ItselfInv
<1> QED
  BY <1>3, <1>4, <1>5, <1>6, <1>7 DEF Add

LEMMA RemoveItself ==
  ASSUME ComesBackAsItself, ListInv, ItselfInv, NEW d \in Device, Remove(d)
  PROVE  ItselfInv'
<1>0. TypeOK
  BY DEF ListInv
<1>1. PICK it \in FindById(Id[d]) :
        /\ flags' = [flags EXCEPT ![it.device] = @ \cup {"unconnected"}]
        /\ IF ShouldRemoveWithDelay(it.device)
           THEN /\ SetItem(it, [it EXCEPT !.remove_source = TRUE])
                /\ signalled' = {}
           ELSE RemoveNow(it, d)
  BY DEF Remove
<1>2. \A e \in Device : "replug-match-guid" \notin flags'[e]
  BY <1>0, <1>1 DEF ItselfInv, TypeOK
<1>3. it \in items /\ it \in Item
  BY <1>0, <1>1, FindItself DEF TypeOK
<1> DEFINE new == [it EXCEPT !.remove_source = TRUE]
<1>4. new.device_old = NoDevice
  BY <1>3 DEF ItselfInv
<1>5. SetItem(it, new) \/ RemoveNow(it, d)
  BY <1>1
<1> HIDE DEF new
<1>6. items' \subseteq items \cup {new}
  BY <1>5 DEF SetItem, RemoveNow
<1>7. \A x \in items' : x.device_old = NoDevice
  BY <1>4, <1>6 DEF ItselfInv
<1> QED
  BY <1>2, <1>7 DEF ItselfInv

\* Every step keeps objects in their places.
LEMMA ItselfStep ==
  ASSUME ComesBackAsItself, EngineInv, ItselfInv, [InstallNext]_allVars
  PROVE  ItselfInv'
<1>0. ListInv
  BY DEF EngineInv
<1>1. ASSUME NEW d \in Device, HotplugAdd(d) PROVE ItselfInv'
  BY <1>0, <1>1, AddItself DEF HotplugAdd
<1>2. ASSUME NEW d \in Device, HotplugRemove(d) PROVE ItselfInv'
  BY <1>0, <1>2, RemoveItself DEF HotplugRemove
<1>3. ASSUME NEW it \in items, HotplugTimer(it) PROVE ItselfInv'
  <2>1. items' \subseteq items /\ flags' = flags
    BY <1>3 DEF HotplugTimer, DelayedRemove, RemoveNow
  <2> QED
    BY <2>1 DEF ItselfInv
<1>4. ASSUME NEW d \in Device, NEW r \in Request, Begin(d, r[1], r[2]) PROVE ItselfInv'
  BY <1>4 DEF Begin, KeepList, ItselfInv
<1>5. CASE InstallStep
  <2>1. FlagsKept /\ items' = items
    BY <1>5, ListKept
  <2> QED
    BY <2>1 DEF FlagsKept, ItselfInv
<1>6. CASE UNCHANGED allVars
  BY <1>6 DEF allVars, vars, ItselfInv
<1> QED
  BY <1>1, <1>2, <1>3, <1>4, <1>5, <1>6 DEF InstallNext
-----------------------------------------------------------------------------
(* One writer per device *)

WritingPc == {"enter", "loop", "detach", "write", "attach", "reload", "check"}

\* The inductive invariant.  A device that is written to has the
\* update-in-progress problem, so that an install of the same device which is
\* started meanwhile is refused; and no other device has the problem, but for
\* those that wait for a reboot.
WriterInv ==
  /\ \A n \in 1..depth : job[n].pc \in WritingPc => job[n].orig \in inProgress
  /\ \A m, n \in 1..depth :
        m < n /\ job[m].pc \in WritingPc /\ job[m].orig = job[n].orig
          => job[n].pc \in {"composite-prepare", "failed"}
  /\ \A d \in inProgress :
        \/ updateState[d] = "needs-reboot"
        \/ \E n \in 1..depth : job[n].pc \in WritingPc /\ job[n].orig = d

\* No install further out writes to the device of the innermost one.
Lone ==
  \A m \in 1..depth :
     m # depth /\ job[m].pc \in WritingPc => job[m].orig # frame.orig

\* The innermost install goes on in frame f, or returns.
Moves(f) ==
  /\ \A n \in Level : job'[n] = IF n = depth THEN f ELSE job[n]
  /\ \/ depth' = depth /\ f.orig = frame.orig
     \/ depth' = depth - 1 /\ f.pc = "returned"

\* Only what is known about object d changes.
OnlyOf(d) ==
  /\ inProgress' \ {d} = inProgress \ {d}
  /\ \A e \in Device \ {d} : updateState'[e] = updateState[e]

LEMMA LonePhase ==
  ASSUME Control, WriterInv, depth > 0,
         \/ frame.pc \notin {"composite-prepare", "failed"}
         \/ frame.orig \notin inProgress
  PROVE  Lone
<1>1. MaxDepth \in Nat /\ depth \in Nat /\ depth \in 1..depth
  BY InstallAssumption, SMT DEF Control
<1> SUFFICES ASSUME NEW m \in 1..depth, m # depth, job[m].pc \in WritingPc,
                    job[m].orig = frame.orig
             PROVE  FALSE
  BY DEF Lone
<1>2. m < depth
  BY <1>1, SMT
<1>3. frame.pc \in {"composite-prepare", "failed"}
  BY <1>1, <1>2 DEF WriterInv, frame
<1>4. frame.orig \in inProgress
  BY DEF WriterInv
<1> QED
  BY <1>3, <1>4

\* The stack but for the innermost install is as it was.
LEMMA MovesBelow ==
  ASSUME Control, depth > 0, NEW f, Moves(f)
  PROVE  /\ \A n \in 1..depth' : n # depth => n \in 1..depth /\ job'[n] = job[n]
         /\ \A n \in 1..depth : n # depth => n \in 1..depth' /\ job'[n] = job[n]
         /\ depth \in 1..depth' => job'[depth] = f /\ f.orig = frame.orig
         /\ depth \notin 1..depth' => f.pc = "returned"
<1>0. MaxDepth \in Nat /\ depth \in 1..MaxDepth
  BY InstallAssumption, SMT DEF Control
<1>1. depth' \in {depth, depth - 1} /\ \A n \in 1..depth : n \in Level
  BY <1>0, SMT DEF Moves, Level
<1>2. \A n \in 1..depth' : n \in 1..depth
  BY <1>0, <1>1, SMT
<1>3. \A n \in 1..depth : n # depth => n \in 1..depth'
  BY <1>0, <1>1, SMT
<1>4. depth \in 1..depth' <=> depth' = depth
  BY <1>0, <1>1, SMT
<1>5. depth \in 1..depth
  BY <1>0, SMT
<1>6. \A n \in 1..depth : n # depth => job'[n] = job[n]
  BY <1>1 DEF Moves
<1>7. job'[depth] = f
  BY <1>1, <1>5 DEF Moves
<1>8. (depth' = depth /\ f.orig = frame.orig) \/ (depth' # depth /\ f.pc = "returned")
  BY <1>0, SMT DEF Moves
<1> QED
  BY <1>2, <1>3, <1>4, <1>6, <1>7, <1>8

\* A step of an install that nobody else disturbs, and that disturbs nobody.
LEMMA LoneStep ==
  ASSUME Control, WriterInv, depth > 0, Lone, NEW f, Moves(f), OnlyOf(frame.orig),
         inProgress \subseteq Device, inProgress' \subseteq Device,
         f.pc \in WritingPc => frame.orig \in inProgress',
         frame.orig \in inProgress' =>
            updateState'[frame.orig] = "needs-reboot" \/ f.pc \in WritingPc
  PROVE  WriterInv'
<1> DEFINE o == frame.orig
<1>1. /\ \A n \in 1..depth' : n # depth => n \in 1..depth /\ job'[n] = job[n]
      /\ \A n \in 1..depth : n # depth => n \in 1..depth' /\ job'[n] = job[n]
      /\ depth \in 1..depth' => job'[depth] = f /\ f.orig = o
      /\ depth \notin 1..depth' => f.pc = "returned"
  BY MovesBelow
<1>2. \A d : d # o => (d \in inProgress' <=> d \in inProgress)
  BY DEF OnlyOf
<1>3. ASSUME NEW n \in 1..depth', job'[n].pc \in WritingPc
      PROVE  job'[n].orig \in inProgress'
  BY <1>1, <1>2, <1>3, SMTT(30) DEF WriterInv, Lone
<1>4. ASSUME NEW m \in 1..depth', NEW n \in 1..depth', m < n,
             job'[m].pc \in WritingPc, job'[m].orig = job'[n].orig
      PROVE  job'[n].pc \in {"composite-prepare", "failed"}
  <2>0. MaxDepth \in Nat /\ depth \in 1..MaxDepth /\ depth' \in {depth, depth - 1}
    BY InstallAssumption, SMTT(30) DEF Control, Moves
  <2>1. m # depth /\ m \in 1..depth /\ job'[m] = job[m]
    BY <1>1, <1>4, <2>0, SMTT(30)
  <2>2. n # depth
    BY <1>1, <1>4, <2>1 DEF Lone
  <2>3. n \in 1..depth /\ job'[n] = job[n]
    BY <1>1, <2>2
  <2> QED
    BY <1>4, <2>1, <2>3 DEF WriterInv
<1>5. ASSUME NEW d \in inProgress'
      PROVE  \/ updateState'[d] = "needs-reboot"
             \/ \E n \in 1..depth' : job'[n].pc \in WritingPc /\ job'[n].orig = d
  <2>1. CASE d = o
    <3>1. "returned" \notin WritingPc
      BY DEF WritingPc
    <3> QED
      BY <1>1, <2>1, <3>1
  <2>2. CASE d # o
    <3>1. d \in inProgress /\ d \in Device /\ updateState'[d] = updateState[d]
      BY <1>2, <2>2 DEF OnlyOf
    <3>2. CASE updateState[d] = "needs-reboot"
      BY <3>1, <3>2
    <3>3. CASE \E n \in 1..depth : job[n].pc \in WritingPc /\ job[n].orig = d
      <4>1. PICK n \in 1..depth : job[n].pc \in WritingPc /\ job[n].orig = d
        BY <3>3
      <4>2. n # depth
        BY <2>2, <4>1 DEF frame
      <4>3. n \in 1..depth' /\ job'[n] = job[n]
        BY <1>1, <4>2
      <4> QED
        BY <4>1, <4>3
    <3> QED
      BY <3>1, <3>2, <3>3 DEF WriterInv
  <2> QED
    BY <2>1, <2>2
<1> QED
  BY <1>3, <1>4, <1>5 DEF WriterInv

\* A step of an install that is not writing and changes nothing.
LEMMA QuietStep ==
  ASSUME Control, WriterInv, depth > 0, NEW f, Moves(f),
         UNCHANGED <<inProgress, updateState>>,
         frame.pc \notin WritingPc, f.pc \notin WritingPc,
         Lone \/ f.pc = "failed" \/ depth' = depth - 1
  PROVE  WriterInv'
<1>1. /\ \A n \in 1..depth' : n # depth => n \in 1..depth /\ job'[n] = job[n]
      /\ \A n \in 1..depth : n # depth => n \in 1..depth' /\ job'[n] = job[n]
      /\ depth \in 1..depth' => job'[depth] = f /\ f.orig = frame.orig
      /\ depth \notin 1..depth' => f.pc = "returned"
  BY MovesBelow
<1>2. ASSUME NEW n \in 1..depth', job'[n].pc \in WritingPc
      PROVE  job'[n].orig \in inProgress'
  BY <1>1, <1>2 DEF WriterInv
<1>3. ASSUME NEW m \in 1..depth', NEW n \in 1..depth', m < n,
             job'[m].pc \in WritingPc, job'[m].orig = job'[n].orig
      PROVE  job'[n].pc \in {"composite-prepare", "failed"}
  <2>1. m # depth
    BY <1>1, <1>3
  <2>2. m \in 1..depth /\ job'[m] = job[m]
    BY <1>1, <2>1
  <2>3. CASE n = depth
    <3>1. job'[n] = f /\ f.orig = frame.orig /\ ~Lone
      BY <1>1, <1>3, <2>1, <2>2, <2>3 DEF Lone
    <3>2. depth' # depth - 1
      <4>1. MaxDepth \in Nat /\ depth \in 1..MaxDepth
        BY InstallAssumption, SMT DEF Control
      <4> QED
        BY <2>3, <4>1, SMT
    <3> QED
      BY <2>3, <3>1, <3>2
  <2>4. CASE n # depth
    <3>1. n \in 1..depth /\ job'[n] = job[n]
      BY <1>1, <2>4
    <3> QED
      BY <1>3, <2>2, <3>1 DEF WriterInv
  <2> QED
    BY <2>3, <2>4
<1>4. ASSUME NEW d \in inProgress'
      PROVE  \/ updateState'[d] = "needs-reboot"
             \/ \E n \in 1..depth' : job'[n].pc \in WritingPc /\ job'[n].orig = d
  <2>1. CASE \E n \in 1..depth : job[n].pc \in WritingPc /\ job[n].orig = d
    <3>1. PICK n \in 1..depth : job[n].pc \in WritingPc /\ job[n].orig = d
      BY <2>1
    <3>2. n # depth
      BY <3>1 DEF frame
    <3>3. n \in 1..depth' /\ job'[n] = job[n]
      BY <1>1, <3>2
    <3> QED
      BY <3>1, <3>3
  <2> QED
    BY <2>1 DEF WriterInv
<1> QED
  BY <1>2, <1>3, <1>4 DEF WriterInv

LEMMA PhaseMoves ==
  ASSUME Control, depth > 0, NEW p \in Phases, Goto([frame EXCEPT !.pc = p])
  PROVE  \E f \in Frame : Moves(f) /\ f.pc = p
<1> DEFINE f == [frame EXCEPT !.pc = p]
<1>1. f \in Frame /\ f.pc = p /\ f.orig = frame.orig
  BY FrameTyped, FramePc
<1> HIDE DEF f
<1>2. Goto(f)
  BY DEF f
<1>3. depth' = depth /\ \A n \in Level : job'[n] = IF n = depth THEN f ELSE job[n]
  BY <1>2, GotoFrame
<1> QED
  BY <1>1, <1>3 DEF Moves

LEMMA ReturnMoves ==
  ASSUME Control, depth > 0, NEW r, Return(r)
  PROVE  Moves(NoFrame) /\ depth' = depth - 1 /\ NoFrame.pc = "returned"
BY ReturnFrame DEF Moves, NoFrame

\* The new state of an object decides whether it has the problem.
LEMMA StateOnlyOf ==
  ASSUME Reported, NEW d \in Device, NEW state,
         updateState' = [updateState EXCEPT ![d] = state],
         inProgress' = ProblemAfter(inProgress, d, state)
  PROVE  /\ OnlyOf(d)
         /\ d \in inProgress' => updateState'[d] = "needs-reboot"
BY DEF Reported, UpdateType, OnlyOf, ProblemAfter

LEMMA SuccessOnlyOf ==
  ASSUME Reported, NEW d \in Device, MarkSuccess(d)
  PROVE  /\ OnlyOf(d)
         /\ d \in inProgress' => updateState'[d] = "needs-reboot"
BY DEF Reported, UpdateType, OnlyOf, ProblemAfter, MarkSuccess

\* A failed fu_engine_write_blob takes the problem from the device of the
\* release.
LEMMA FailLone ==
  ASSUME Control, Reported, Reported', WriterInv, depth > 0, Lone,
         NEW p \in SUBSET Device, p \ {frame.orig} = inProgress \ {frame.orig},
         NEW u \in UpdateType,
         \A e \in Device \ {frame.orig} : u[e] = updateState[e],
         NEW h, WriteBlobFailed(p, u, h)
  PROVE  WriterInv'
<1> DEFINE o == frame.orig
<1>1. o \in Device
  BY FrameTyped
<1>2. PICK state \in {"failed", "failed-transient"} :
        /\ updateState' = [u EXCEPT ![o] = state]
        /\ inProgress' = ProblemAfter(p, o, state)
  BY DEF WriteBlobFailed
<1>3. inProgress' = p \ {o}
  BY <1>2 DEF ProblemAfter
<1>4. OnlyOf(o) /\ o \notin inProgress'
  BY <1>2, <1>3 DEF OnlyOf, UpdateType
<1>5. PICK f \in Frame :
           /\ \A n \in Level : job'[n] = IF n = depth THEN f ELSE job[n]
           /\ \/ /\ depth' = depth /\ f.pc = "failed" /\ f.orig = frame.orig
                 /\ f.writes = frame.writes /\ frame.kind = "install"
                 /\ reply' = "none"
              \/ /\ depth' = depth - 1 /\ f = NoFrame /\ f.pc = "returned" /\ f.writes = 0
                 /\ reply' = "error"
  BY FailFrame
<1>6. Moves(f) /\ f.pc \notin WritingPc
  BY <1>5 DEF Moves, WritingPc
<1> QED
  BY <1>4, <1>6, LoneStep DEF Reported

\* A step from phase to phase of the loop.
LEMMA WritingStep ==
  ASSUME Control, Reported, WriterInv, depth > 0, Lone, frame.pc \in WritingPc,
         NEW f, Moves(f), f.pc \in WritingPc, UNCHANGED <<inProgress, updateState>>
  PROVE  WriterInv'
<1>1. frame.orig \in inProgress
  <2>1. depth \in 1..depth
    BY SMT DEF Control
  <2> QED
    BY <2>1 DEF WriterInv, frame
<1>2. OnlyOf(frame.orig)
  BY DEF OnlyOf
<1> QED
  BY <1>1, <1>2, LoneStep DEF Reported

LEMMA NextIterationWriter ==
  ASSUME Control, Reported, Reported', WriterInv, depth > 0, Lone,
         frame.pc \in WritingPc, NEW g \in Frame, g.orig = frame.orig, NextIteration(g)
  PROVE  WriterInv'
<1>1. CASE Fail
  BY <1>1, FailLone DEF Fail, Reported
<1>2. CASE Goto([g EXCEPT !.pc = "loop"]) /\ UNCHANGED reported
  <2> DEFINE f == [g EXCEPT !.pc = "loop"]
  <2>1. "loop" \in Phases /\ "loop" \in WritingPc
    BY DEF Phases, WritingPc
  <2>2. f.pc = "loop" /\ f.orig = frame.orig
    BY <2>1, FramePc
  <2> HIDE DEF f
  <2>3. Goto(f)
    BY <1>2 DEF f
  <2>4. Moves(f)
    BY <2>2, <2>3, GotoFrame DEF Moves
  <2> QED
    BY <1>2, <2>1, <2>2, <2>4, WritingStep DEF reported
<1> QED
  BY <1>1, <1>2 DEF NextIteration

LEMMA WriterStep ==
  ASSUME ComesBackAsItself, EngineInv, ItselfInv, WriterInv, InstallStep
  PROVE  WriterInv'
<1>0. Control /\ ListInv /\ Reported /\ Reported'
  BY ReportedStep DEF EngineInv
<1>1. depth > 0
  BY DEF InstallStep, InstallRelease, NotFound, Prepare, InstallLoop, Detach,
         WriteFirmware, WriteFirmwareFails, Attach, AttachRestart, Reload,
         CheckComplete, Cleanup, AbortDone, BlobDone, InstallDone, Acquiesced,
         InstallReturns, InstallFailed, Wait, WaitFailed, Phase
<1> DEFINE o == frame.orig
<1>2. frame \in Frame /\ o \in Device
  BY <1>0, <1>1, FrameTyped
<1>3. Found \subseteq {o}
  BY <1>0, <1>2, FoundItself
<1>4. frame.pc \notin {"composite-prepare", "failed"} => Lone
  BY <1>0, <1>1, LonePhase
<1>5. Fail /\ Lone => WriterInv'
  BY <1>0, <1>1, FailLone DEF Fail, Reported
<1>6. ASSUME NEW p \in {"prepare", "failed", "composite-cleanup"}, Lone \/ p = "failed",
             frame.pc \notin WritingPc, UNCHANGED <<inProgress, updateState>>,
             Goto([frame EXCEPT !.pc = p])
      PROVE  WriterInv'
  <2>1. p \in Phases /\ p \notin WritingPc
    BY DEF Phases, WritingPc
  <2>2. PICK f \in Frame : Moves(f) /\ f.pc = p
    BY <1>0, <1>1, <1>6, <2>1, PhaseMoves
  <2> QED
    BY <1>0, <1>1, <1>6, <2>1, <2>2, QuietStep
<1>7. ASSUME NEW r, Return(r), frame.pc \notin WritingPc,
             UNCHANGED <<inProgress, updateState>>
      PROVE  WriterInv'
  <2>1. "returned" \notin WritingPc
    BY DEF WritingPc
  <2> QED
    BY <1>0, <1>1, <1>7, <2>1, ReturnMoves, QuietStep
<1>8. ASSUME NEW p \in WritingPc, frame.pc \in WritingPc, UNCHANGED <<inProgress, updateState>>,
             Goto([frame EXCEPT !.pc = p])
      PROVE  WriterInv'
  <2>1. p \in Phases /\ Lone
    BY <1>4, <1>8 DEF Phases, WritingPc
  <2>2. PICK f \in Frame : Moves(f) /\ f.pc = p
    BY <1>0, <1>1, <1>8, <2>1, PhaseMoves
  <2> QED
    BY <1>0, <1>1, <1>8, <2>1, <2>2, WritingStep
<1>9. ASSUME NEW f, Moves(f), f.pc \notin WritingPc, Lone, OnlyOf(o),
             o \in inProgress' => updateState'[o] = "needs-reboot"
      PROVE  WriterInv'
  BY <1>0, <1>1, <1>9, LoneStep DEF Reported
<1>10. ASSUME NEW p \in {"cleanup", "done", "abort-done", "composite-cleanup"},
              Goto([frame EXCEPT !.pc = p]), Lone, OnlyOf(o),
              o \in inProgress' => updateState'[o] = "needs-reboot"
       PROVE  WriterInv'
  <2>1. p \in Phases /\ p \notin WritingPc
    BY DEF Phases, WritingPc
  <2>2. PICK f \in Frame : Moves(f) /\ f.pc = p
    BY <1>0, <1>1, <1>10, <2>1, PhaseMoves
  <2> QED
    BY <1>9, <1>10, <2>1, <2>2
<1>11. CASE InstallRelease
  <2>1. frame.pc \notin WritingPc /\ UNCHANGED <<inProgress, updateState>>
    BY <1>11 DEF InstallRelease, Phase, WritingPc
  <2>2. Updatable(o) => Lone
    BY <1>0, <1>1, LonePhase DEF Updatable
  <2>3. \/ Goto([frame EXCEPT !.pc = "failed"])
        \/ Lone /\ Goto([frame EXCEPT !.pc = "prepare"])
    BY <1>11, <2>2 DEF InstallRelease
  <2> QED
    BY <1>6, <2>1, <2>3
<1>12. CASE NotFound
  BY <1>4, <1>5, <1>12 DEF NotFound, Phase
<1>13. CASE Prepare
  <2>1. Lone
    BY <1>4, <1>13 DEF Prepare, Phase
  <2>2. PICK d \in Found :
          \/ WriteBlobFailed(ProblemAfter(inProgress, d, "failed-transient"),
                             [updateState EXCEPT ![d] = "failed-transient"],
                             RecordChange(d, "failed-transient"))
          \/ WriteBlobFailed(inProgress \cup {d}, updateState, history)
          \/ /\ Goto([frame EXCEPT !.pc = "enter"])
             /\ inProgress' = inProgress \cup {d}
             /\ UNCHANGED <<updateState, history>>
    BY <1>13 DEF Prepare
  <2>3. d = o
    BY <1>3, <2>2
  <2>4. CASE WriteBlobFailed(ProblemAfter(inProgress, d, "failed-transient"),
                             [updateState EXCEPT ![d] = "failed-transient"],
                             RecordChange(d, "failed-transient"))
    <3> DEFINE p == ProblemAfter(inProgress, d, "failed-transient")
               u == [updateState EXCEPT ![d] = "failed-transient"]
    <3>1. p \in SUBSET Device /\ p \ {o} = inProgress \ {o}
      BY <1>0, <2>3 DEF Reported, ProblemAfter
    <3>2. u \in UpdateType /\ \A e \in Device \ {o} : u[e] = updateState[e]
      BY <1>0, <2>3 DEF Reported, UpdateType, UpdateState
    <3> HIDE DEF p, u
    <3>3. WriteBlobFailed(p, u, RecordChange(d, "failed-transient"))
      BY <2>4 DEF p, u
    <3> QED
      BY <1>0, <1>1, <2>1, <3>1, <3>2, <3>3, FailLone
  <2>5. CASE WriteBlobFailed(inProgress \cup {d}, updateState, history)
    <3>1. inProgress \cup {d} \in SUBSET Device
          /\ (inProgress \cup {d}) \ {o} = inProgress \ {o}
      BY <1>0, <1>2, <2>3 DEF Reported
    <3> QED
      BY <1>0, <1>1, <2>1, <2>5, <3>1, FailLone DEF Reported
  <2>6. CASE /\ Goto([frame EXCEPT !.pc = "enter"])
             /\ inProgress' = inProgress \cup {d}
             /\ UNCHANGED <<updateState, history>>
    <3>1. "enter" \in Phases /\ "enter" \in WritingPc
      BY DEF Phases, WritingPc
    <3>2. PICK f \in Frame : Moves(f) /\ f.pc = "enter"
      BY <1>0, <1>1, <2>6, <3>1, PhaseMoves
    <3>3. OnlyOf(o) /\ o \in inProgress'
      BY <2>3, <2>6 DEF OnlyOf
    <3> QED
      BY <1>0, <1>1, <2>1, <3>1, <3>2, <3>3, LoneStep DEF Reported
  <2> QED
    BY <2>2, <2>4, <2>5, <2>6
<1>14. CASE InstallLoop
  <2>1. PICK d \in Found : Goto([frame EXCEPT !.pc = "detach", !.first = d])
    BY <1>14 DEF InstallLoop
  <2>2. d \in Device /\ frame.pc \in WritingPc /\ Lone
    BY <1>2, <1>3, <1>4, <1>14, <2>1 DEF InstallLoop, Phase, WritingPc
  <2> DEFINE f == [frame EXCEPT !.pc = "detach", !.first = d]
  <2>3. f.pc = "detach" /\ f.orig = o
    BY <1>2, <2>2, FrameFirst
  <2> HIDE DEF f
  <2>4. Goto(f)
    BY <2>1 DEF f
  <2>5. Moves(f) /\ f.pc \in WritingPc
    BY <1>0, <1>1, <2>3, <2>4, GotoFrame DEF Moves, WritingPc
  <2>6. UNCHANGED <<inProgress, updateState>>
    BY <1>14 DEF InstallLoop, reported
  <2> QED
    BY <1>0, <1>1, <2>2, <2>5, <2>6, WritingStep
<1>15. CASE Detach
  <2>1. Lone /\ frame.pc \in WritingPc /\ "write" \in WritingPc
    BY <1>4, <1>15 DEF Detach, Phase, WritingPc
  <2>2. \/ Fail
        \/ Goto([frame EXCEPT !.pc = "write"]) /\ UNCHANGED <<inProgress, updateState>>
    BY <1>15 DEF Detach, reported
  <2> QED
    BY <1>5, <1>8, <2>1, <2>2
<1>16. CASE WriteFirmware
  <2> DEFINE g == [frame EXCEPT !.writes = @ + 1]
             f == [g EXCEPT !.pc = "attach"]
  <2>1. g \in Frame /\ g.orig = o
    BY <1>2, FrameWrites
  <2>2. Lone /\ frame.pc \in WritingPc /\ "attach" \in WritingPc /\ "attach" \in Phases
    BY <1>4, <1>16 DEF WriteFirmware, Phase, WritingPc, Phases
  <2>3. NextIteration(g) \/ (Goto(f) /\ UNCHANGED <<inProgress, updateState>>)
    BY <1>16 DEF WriteFirmware, reported
  <2> HIDE DEF g
  <2>4. f.pc = "attach" /\ f.orig = o
    BY <2>1, <2>2, FramePc
  <2> HIDE DEF f
  <2>5. CASE NextIteration(g)
    BY <1>0, <1>1, <2>1, <2>2, <2>5, NextIterationWriter
  <2>6. CASE Goto(f) /\ UNCHANGED <<inProgress, updateState>>
    <3>1. Moves(f)
      BY <1>0, <1>1, <2>4, <2>6, GotoFrame DEF Moves
    <3> QED
      BY <1>0, <1>1, <2>2, <2>4, <2>6, <3>1, WritingStep
  <2> QED
    BY <2>3, <2>5, <2>6
<1>17. CASE WriteFirmwareFails
  <2> DEFINE f == [frame EXCEPT !.pc = "abort", !.writes = @ + 1]
  <2>1. Lone
    BY <1>4, <1>17 DEF WriteFirmwareFails, Phase
  <2>2. f.pc = "abort" /\ f.orig = o
    BY <1>2, FrameAbort
  <2>3. \/ Fail
        \/ \E d \in Found, state \in {"failed", "failed-transient"} :
              /\ updateState' = [updateState EXCEPT ![d] = state]
              /\ inProgress' = ProblemAfter(inProgress, d, state)
              /\ Goto(f)
    BY <1>17 DEF WriteFirmwareFails
  <2> HIDE DEF f
  <2>4. ASSUME NEW d \in Found, NEW state \in {"failed", "failed-transient"},
               updateState' = [updateState EXCEPT ![d] = state],
               inProgress' = ProblemAfter(inProgress, d, state),
               Goto(f)
        PROVE  WriterInv'
    <3>1. d = o
      BY <1>3
    <3>2. OnlyOf(o) /\ (o \in inProgress' => updateState'[o] = "needs-reboot")
      BY <1>0, <1>2, <2>4, <3>1, StateOnlyOf
    <3>3. Moves(f) /\ f.pc \notin WritingPc
      BY <1>0, <1>1, <2>2, <2>4, GotoFrame DEF Moves, WritingPc
    <3> QED
      BY <1>9, <2>1, <3>2, <3>3
  <2> QED
    BY <1>5, <2>1, <2>3, <2>4
<1>18. CASE Attach
  <2>1. Lone /\ frame.pc \in WritingPc /\ "reload" \in WritingPc
    BY <1>4, <1>18 DEF Attach, Phase, WritingPc
  <2>2. \/ Fail
        \/ Goto([frame EXCEPT !.pc = "reload"]) /\ UNCHANGED <<inProgress, updateState>>
    BY <1>18 DEF Attach, reported
  <2> QED
    BY <1>5, <1>8, <2>1, <2>2
<1>19. CASE AttachRestart
  <2>1. Lone /\ frame.pc \in WritingPc
    BY <1>4, <1>19 DEF AttachRestart, Phase, WritingPc
  <2> QED
    BY <1>0, <1>1, <1>2, <1>19, <2>1, NextIterationWriter DEF AttachRestart
<1>20. CASE Reload
  <2>1. Lone /\ frame.pc \in WritingPc /\ "check" \in WritingPc
    BY <1>4, <1>20 DEF Reload, Phase, WritingPc
  <2>2. \/ Fail
        \/ Goto([frame EXCEPT !.pc = "check"]) /\ UNCHANGED <<inProgress, updateState>>
    BY <1>20 DEF Reload, reported
  <2> QED
    BY <1>5, <1>8, <2>1, <2>2
<1>21. CASE CheckComplete
  <2>1. Lone /\ frame.pc \in WritingPc
    BY <1>4, <1>21 DEF CheckComplete, Phase, WritingPc
  <2>2. CASE NextIteration(frame)
    BY <1>0, <1>1, <1>2, <2>1, <2>2, NextIterationWriter
  <2>3. CASE MarkSuccess(o) /\ Goto([frame EXCEPT !.pc = "cleanup"])
    BY <1>0, <1>2, <1>10, <2>1, <2>3, SuccessOnlyOf
  <2> QED
    BY <1>21, <2>2, <2>3 DEF CheckComplete
<1>22. CASE Cleanup
  <2>1. Lone
    BY <1>4, <1>22 DEF Cleanup, Phase
  <2>2. PICK d \in Found, p \in {"done", "abort-done"} :
          \/ /\ Goto([frame EXCEPT !.pc = p])
             /\ inProgress' = inProgress \ {d}
             /\ UNCHANGED <<updateState, history>>
          \/ WriteBlobFailed(inProgress \ {d}, updateState, history)
    BY <1>22 DEF Cleanup
  <2>3. d = o
    BY <1>3, <2>2
  <2>4. CASE WriteBlobFailed(inProgress \ {d}, updateState, history)
    <3>1. inProgress \ {d} \in SUBSET Device /\ (inProgress \ {d}) \ {o} = inProgress \ {o}
      BY <1>0, <2>3 DEF Reported
    <3> QED
      BY <1>0, <1>1, <2>1, <2>4, <3>1, FailLone DEF Reported
  <2>5. CASE /\ Goto([frame EXCEPT !.pc = p])
             /\ inProgress' = inProgress \ {d}
             /\ UNCHANGED <<updateState, history>>
    <3>1. OnlyOf(o) /\ o \notin inProgress'
      BY <2>3, <2>5 DEF OnlyOf
    <3> QED
      BY <1>10, <2>1, <2>5, <3>1
  <2> QED
    BY <2>2, <2>4, <2>5
<1>23. CASE AbortDone
  BY <1>4, <1>5, <1>23 DEF AbortDone, Phase
<1>24. CASE BlobDone
  BY <1>7, <1>24 DEF BlobDone, Phase, WritingPc, reported
<1>25. CASE InstallDone
  <2>1. Lone /\ frame.pc \notin WritingPc
    BY <1>4, <1>25 DEF InstallDone, Phase, WritingPc
  <2>2. CASE Goto([frame EXCEPT !.pc = "failed"]) /\ UNCHANGED reported
    BY <1>6, <2>1, <2>2 DEF reported
  <2>3. CASE /\ updateState' = [updateState EXCEPT ![o] = "needs-reboot"]
             /\ inProgress' = ProblemAfter(inProgress, o, "needs-reboot")
             /\ Goto([frame EXCEPT !.pc = "composite-cleanup"])
    BY <1>0, <1>2, <1>10, <2>1, <2>3, StateOnlyOf
  <2>4. ASSUME NEW d \in Found, MarkSuccess(d),
               Goto([frame EXCEPT !.pc = "composite-cleanup"])
        PROVE  WriterInv'
    <3>1. d = o
      BY <1>3
    <3> QED
      BY <1>0, <1>2, <1>10, <2>1, <2>4, <3>1, SuccessOnlyOf
  <2>5. ASSUME NEW d \in Found, MarkSuccess(d),
               job' = [job EXCEPT ![depth].pc = "acquiesce"], UNCHANGED <<begun, depth>>
        PROVE  WriterInv'
    <3> DEFINE f == [frame EXCEPT !.pc = "acquiesce"]
    <3>1. job' = [job EXCEPT ![depth] = f]
      BY <2>5, Zenon DEF frame
    <3>2. "acquiesce" \in Phases /\ "acquiesce" \notin WritingPc
      BY DEF Phases, WritingPc
    <3>3. f \in Frame /\ f.pc = "acquiesce" /\ f.orig = o
      BY <1>2, <3>2, FramePc
    <3> HIDE DEF f
    <3>4. \A n \in Level : job'[n] = IF n = depth THEN f ELSE job[n]
      BY <1>0, <1>1, <3>1, FrameTyped DEF Control
    <3>5. Moves(f)
      BY <2>5, <3>3, <3>4 DEF Moves
    <3>6. d = o
      BY <1>3
    <3> QED
      BY <1>0, <1>2, <1>9, <2>1, <2>5, <3>2, <3>3, <3>5, <3>6, SuccessOnlyOf
  <2> QED
    BY <1>25, <2>2, <2>3, <2>4, <2>5 DEF InstallDone
<1>26. CASE Acquiesced
  <2>1. Lone /\ frame.pc \notin WritingPc
    BY <1>4, <1>26 DEF Acquiesced, WritingPc
  <2> QED
    BY <1>6, <1>26, <2>1 DEF Acquiesced, reported
<1>27. CASE InstallReturns
  <2>1. Lone /\ frame.pc \notin WritingPc
    BY <1>4, <1>27 DEF InstallReturns, Phase, WritingPc
  <2>2. ASSUME NEW d \in Found,
               updateState' = [updateState EXCEPT ![d] = "failed"],
               inProgress' = ProblemAfter(inProgress, d, "failed"),
               Return("error")
        PROVE  WriterInv'
    <3>1. d = o
      BY <1>3
    <3>2. OnlyOf(o) /\ (o \in inProgress' => updateState'[o] = "needs-reboot")
      BY <1>0, <1>2, <2>2, <3>1, StateOnlyOf
    <3>3. Moves(NoFrame) /\ NoFrame.pc \notin WritingPc
      BY <1>0, <1>1, <2>2, ReturnMoves DEF WritingPc
    <3> QED
      BY <1>9, <2>1, <3>2, <3>3
  <2>3. ASSUME NEW r, Return(r), UNCHANGED reported PROVE WriterInv'
    BY <1>7, <2>1, <2>3 DEF reported
  <2> QED
    BY <1>27, <2>2, <2>3 DEF InstallReturns
<1>28. CASE InstallFailed
  BY <1>7, <1>28 DEF InstallFailed, Phase, WritingPc, reported
<1>29. CASE Wait
  <2>1. UNCHANGED <<depth, job, inProgress, updateState>>
    BY <1>29 DEF Wait, Undisturbed, WaitStart, WaitDone, WaitTimeout
  <2> QED
    BY <2>1 DEF WriterInv
<1>30. CASE WaitFailed
  <2>1. CASE frame.pc \in {"composite-prepare", "composite-cleanup", "failed"}
    BY <1>7, <1>30, <2>1 DEF WaitFailed, WritingPc, reported
  <2>2. CASE frame.pc \notin {"composite-prepare", "composite-cleanup", "failed"}
    BY <1>4, <1>5, <1>30, <2>2 DEF WaitFailed
  <2> QED
    BY <2>1, <2>2
<1> QED
  BY <1>11, <1>12, <1>13, <1>14, <1>15, <1>16, <1>17, <1>18, <1>19, <1>20, <1>21, <1>22,
     <1>23, <1>24, <1>25, <1>26, <1>27, <1>28, <1>29, <1>30 DEF InstallStep

LEMMA WriterInvariant ==
  ComesBackAsItself /\ InstallSpec => [](EngineInv /\ ItselfInv /\ WriterInv)
<1> SUFFICES ASSUME ComesBackAsItself
             PROVE  InstallSpec => [](EngineInv /\ ItselfInv /\ WriterInv)
  OBVIOUS
<1>1. InstallInit => ItselfInv /\ WriterInv
  <2> SUFFICES ASSUME InstallInit PROVE ItselfInv /\ WriterInv
    OBVIOUS
  <2>1. items = {} /\ flags = FirstFlags /\ inProgress = {} /\ depth = 0
    BY DEF InstallInit, Init
  <2> QED
    BY <2>1, SMTT(30) DEF ItselfInv, WriterInv, ComesBackAsItself
<1>2. ASSUME EngineInv, ItselfInv, WriterInv, [InstallNext]_allVars PROVE WriterInv'
  <2>0. Control /\ ListInv
    BY <1>2 DEF EngineInv
  <2>1. ASSUME UNCHANGED <<depth, job, inProgress, updateState>> PROVE WriterInv'
    BY <1>2, <2>1 DEF WriterInv
  <2>2. ASSUME NEW d \in Device, HotplugAdd(d) PROVE WriterInv'
    BY <1>2, <2>0, <2>1, <2>2, AddItself DEF HotplugAdd, Undisturbed
  <2>3. ASSUME NEW d \in Device, HotplugRemove(d) PROVE WriterInv'
    BY <2>1, <2>3 DEF HotplugRemove, Undisturbed, Remove
  <2>4. ASSUME NEW it \in items, HotplugTimer(it) PROVE WriterInv'
    BY <2>1, <2>4 DEF HotplugTimer, Undisturbed, DelayedRemove
  <2>5. ASSUME NEW d \in Device, NEW r \in Request, Begin(d, r[1], r[2])
        PROVE  WriterInv'
    <3>1. r[1] \in {"install", "blob"} /\ r[2] \in BOOLEAN
      BY InstallAssumption
    <3>2. /\ depth' = depth + 1 /\ depth' \in Level
          /\ \A n \in Level : n # depth' => job'[n] = job[n]
          /\ job'[depth'].pc = IF r[1] = "blob" THEN "prepare" ELSE "composite-prepare"
          /\ job'[depth'].orig = d
      BY <2>0, <2>5, <3>1, BeginFrame
    <3>3. UNCHANGED <<inProgress, updateState>>
      BY <2>5 DEF Begin, reported
    <3>4. r[1] = "blob" => d \notin inProgress
      BY <2>5 DEF Begin, Updatable
    <3>5. job'[depth'].pc \notin WritingPc
      BY <3>2 DEF WritingPc
    <3>6. /\ \A n \in 1..depth' : n # depth' => n \in 1..depth /\ job'[n] = job[n]
          /\ \A n \in 1..depth : n \in 1..depth' /\ n # depth' /\ job'[n] = job[n]
      <4>1. MaxDepth \in Nat /\ depth \in 0..MaxDepth
        BY <2>0, InstallAssumption DEF Control
      <4> QED
        BY <3>2, <4>1, SMT DEF Level
    <3>7. ASSUME NEW n \in 1..depth', job'[n].pc \in WritingPc
          PROVE  job'[n].orig \in inProgress'
      BY <1>2, <3>3, <3>5, <3>6, <3>7 DEF WriterInv
    <3>8. ASSUME NEW m \in 1..depth', NEW n \in 1..depth', m < n,
                 job'[m].pc \in WritingPc, job'[m].orig = job'[n].orig
          PROVE  job'[n].pc \in {"composite-prepare", "failed"}
      <4>1. m # depth' /\ m \in 1..depth /\ job'[m] = job[m]
        BY <3>5, <3>6, <3>8
      <4>2. job[m].orig \in inProgress
        BY <1>2, <3>8, <4>1 DEF WriterInv
      <4>3. CASE n = depth'
        BY <3>2, <3>4, <3>8, <4>1, <4>2, <4>3
      <4>4. CASE n # depth'
        <5>1. n \in 1..depth /\ job'[n] = job[n]
          BY <3>6, <4>4
        <5> QED
          BY <1>2, <3>8, <4>1, <5>1 DEF WriterInv
      <4> QED
        BY <4>3, <4>4
    <3>9. ASSUME NEW e \in inProgress'
          PROVE  \/ updateState'[e] = "needs-reboot"
                 \/ \E n \in 1..depth' : job'[n].pc \in WritingPc /\ job'[n].orig = e
      BY <1>2, <3>3, <3>6 DEF WriterInv
    <3> QED
      BY <3>7, <3>8, <3>9 DEF WriterInv
  <2>6. CASE InstallStep
    BY <1>2, <2>6, WriterStep
  <2>7. CASE UNCHANGED allVars
    BY <2>1, <2>7 DEF allVars, vars, engine
  <2> QED
    BY <1>2, <2>2, <2>3, <2>4, <2>5, <2>6, <2>7 DEF InstallNext
<1>3. EngineInv /\ ItselfInv /\ [InstallNext]_allVars => ItselfInv'
  BY ItselfStep
<1>4. EngineInv /\ [InstallNext]_allVars => EngineInv'
  BY EngineStep DEF ComesBackAsItself
<1> QED
  BY <1>1, <1>2, <1>3, <1>4, EngineInit, PTL DEF InstallSpec

\* Two installs never both detach, write or attach the same device, however
\* many installs, of releases and of blobs, interrupt each other while they wait
\* for replugs: for devices that come back as themselves.
THEOREM OneWriterCorrect ==
  ComesBackAsItself /\ InstallSpec => []OneWriterPerDevice
<1> SUFFICES ASSUME ComesBackAsItself PROVE InstallSpec => []OneWriterPerDevice
  OBVIOUS
<1>1. EngineInv /\ WriterInv => OneWriterPerDevice
  <2> SUFFICES ASSUME EngineInv, WriterInv,
                      NEW m \in Level, NEW n \in Level, Writing(m), Writing(n),
                      Id[job[m].orig] = Id[job[n].orig]
               PROVE  m = n
    BY DEF OneWriterPerDevice
  <2>1. MaxDepth \in Nat /\ depth \in 0..MaxDepth
    BY InstallAssumption DEF EngineInv, Control
  <2>2. m \in 1..depth /\ n \in 1..depth
    BY <2>1, SMT DEF Writing, Level
  <2>3. job[m].pc \in WritingPc /\ job[n].pc \in WritingPc
    BY DEF Writing, WritingPc
  <2>4. job[m].orig \in Device /\ job[n].orig \in Device
    BY <2>2 DEF EngineInv, Control, OrigKnown
  <2>5. job[m].orig = job[n].orig
    BY <2>4 DEF ComesBackAsItself, OneObjectEach
  <2>6. ~(m < n) /\ ~(n < m)
    BY <2>2, <2>3, <2>5 DEF WriterInv, WritingPc
  <2> QED
    BY <2>2, <2>6, SMT
<1> QED
  BY <1>1, WriterInvariant, PTL

\* No failure leaves the update-in-progress problem on a device: when no install
\* runs only a device that waits for a reboot has it.
THEOREM ProblemMeansUpdatingCorrect ==
  ComesBackAsItself /\ InstallSpec => []ProblemMeansUpdating
<1>1. EngineInv /\ WriterInv => ProblemMeansUpdating
  <2> SUFFICES ASSUME EngineInv, WriterInv, NEW it \in items, it.device \in inProgress
               PROVE  depth > 0 \/ updateState[it.device] = "needs-reboot"
    BY DEF ProblemMeansUpdating
  <2>1. depth \in Nat
    BY InstallAssumption, SMT DEF EngineInv, Control
  <2> QED
    BY <2>1, SMT DEF WriterInv
<1> QED
  BY <1>1, WriterInvariant, PTL
-----------------------------------------------------------------------------
(* Devices of at most two objects *)

\* Some plugin matches its devices by GUID.
MatchesByGuid == \E d \in Device : "replug-match-guid" \in FirstFlags[d]

PluginGuids(d) == Guids[d] \cup FirstCounterparts[d]

\* The list can put one object in the place of the other.
MayReplace(a, b) ==
  \/ Id[a] = Id[b]
  \/ Connection[a] = Connection[b] /\ Connection[a] # NoConnection
  \/ MatchesByGuid /\ PluginGuids(a) \cap PluginGuids(b) # {}

\* A device has at most two objects, such as a runtime and a bootloader, which
\* may have one ID or two, and no other device takes their place.
AtMostTwoObjects ==
  /\ NoEquivalents
  /\ \A a, b, c \in Device :
        MayReplace(a, b) /\ MayReplace(b, c) => a = b \/ b = c \/ a = c

\* Then an item has objects of one device only, and an object knows the GUIDs of
\* its own device only.
PairInv ==
  /\ \A it \in items :
        it.device_old # NoDevice => MayReplace(it.device, it.device_old)
  /\ \A d \in Device : \A g \in counterparts[d] :
        \E e \in Device : MayReplace(d, e) /\ g \in PluginGuids(e)
  /\ \A d \in Device : "replug-match-guid" \in flags[d] => MatchesByGuid

\* The objects of a device can all replace each other.
LEMMA ReplaceSame ==
  ASSUME NEW a \in Device
  PROVE  MayReplace(a, a)
BY DEF MayReplace

LEMMA ReplaceBack ==
  ASSUME NEW a \in Device, NEW b \in Device, MayReplace(a, b)
  PROVE  MayReplace(b, a)
BY DEF MayReplace

LEMMA ReplaceOver ==
  ASSUME AtMostTwoObjects, NEW a \in Device, NEW b \in Device, NEW c \in Device,
         MayReplace(a, b), MayReplace(b, c)
  PROVE  MayReplace(a, c)
<1>1. a = b \/ b = c \/ a = c
  BY DEF AtMostTwoObjects
<1> QED
  BY <1>1, ReplaceSame

\* The item that a lookup by ID, by connection or by GUID finds is one of the
\* same device.
LEMMA ItemReplaces ==
  ASSUME AtMostTwoObjects, ListInv, PairInv, NEW it \in items, NEW d \in Device,
         \/ MayReplace(d, it.device)
         \/ it.device_old # NoDevice /\ MayReplace(d, it.device_old)
  PROVE  MayReplace(d, it.device)
<1>1. it.device \in Device /\ it.device_old \in Device \cup {NoDevice}
  BY DEF ListInv, TypeOK
<1>2. ASSUME it.device_old # NoDevice, MayReplace(d, it.device_old)
      PROVE  MayReplace(d, it.device)
  <2>1. it.device_old \in Device
    BY <1>1, <1>2
  <2>2. MayReplace(it.device_old, it.device)
    BY <1>1, <1>2, <2>1, ReplaceBack DEF PairInv
  <2> QED
    BY <1>1, <1>2, <2>1, <2>2, ReplaceOver
<1> QED
  BY <1>2

LEMMA FoundById ==
  ASSUME AtMostTwoObjects, ListInv, PairInv, NEW d \in Device, NEW it \in FindById(Id[d])
  PROVE  it \in items /\ MayReplace(d, it.device)
<1>1. it \in items
  BY DEF FindById, FilterById
<1>2. it.device \in Device /\ it.device_old \in Device \cup {NoDevice}
  BY <1>1 DEF ListInv, TypeOK
<1>3. \/ Id[d] \in Ids(it.device)
      \/ it.device_old # NoDevice /\ Id[d] \in Ids(it.device_old)
  BY DEF FindById, FilterById
<1>4. \/ Id[d] = Id[it.device]
      \/ it.device_old # NoDevice /\ Id[d] = Id[it.device_old]
  BY <1>2, <1>3 DEF Ids, AtMostTwoObjects, NoEquivalents
<1> QED
  BY <1>1, <1>4, ItemReplaces DEF MayReplace

LEMMA FoundByConnection ==
  ASSUME AtMostTwoObjects, ListInv, PairInv, NEW d \in Device,
         NEW it \in FindByConnection(Connection[d])
  PROVE  it \in items /\ MayReplace(d, it.device)
<1>1. it \in items /\ Connection[d] # NoConnection
  BY DEF FindByConnection
<1>2. \/ Connection[it.device] = Connection[d]
      \/ it.device_old # NoDevice /\ Connection[it.device_old] = Connection[d]
  BY DEF FindByConnection
<1> QED
  BY <1>1, <1>2, ItemReplaces DEF MayReplace

\* A GUID that two objects know is one of a plugin.
LEMMA SharedGuid ==
  ASSUME AtMostTwoObjects, PairInv, MatchesByGuid,
         NEW d \in Device, NEW e \in Device, NEW g,
         g \in Guids[d] \cup counterparts[d], g \in Guids[e] \cup counterparts[e]
  PROVE  MayReplace(d, e)
<1>1. PICK a \in Device : MayReplace(d, a) /\ g \in PluginGuids(a)
  BY ReplaceSame DEF PairInv, PluginGuids
<1>2. PICK b \in Device : MayReplace(e, b) /\ g \in PluginGuids(b)
  BY ReplaceSame DEF PairInv, PluginGuids
<1>3. MayReplace(a, b)
  BY <1>1, <1>2 DEF MayReplace
<1>4. MayReplace(d, b)
  BY <1>1, <1>3, ReplaceOver
<1>5. MayReplace(b, e)
  BY <1>2, ReplaceBack
<1> QED
  BY <1>4, <1>5, ReplaceOver

LEMMA FoundByGuid ==
  ASSUME AtMostTwoObjects, ListInv, PairInv, MatchesByGuid, NEW d \in Device,
         NEW it \in FindCompatible(d)
  PROVE  it \in items /\ MayReplace(d, it.device)
<1>1. PICK G : /\ G = Guids[d] \/ G = counterparts[d]
               /\ it \in FindByGuidsRemoved(G)
  BY DEF FindCompatible
<1>2. /\ it \in items
      /\ \/ (Guids[it.device] \cup counterparts[it.device]) \cap G # {}
         \/ /\ it.device_old # NoDevice
            /\ (Guids[it.device_old] \cup counterparts[it.device_old]) \cap G # {}
  BY <1>1 DEF FindByGuidsRemoved
<1>3. it.device \in Device /\ it.device_old \in Device \cup {NoDevice}
  BY <1>2 DEF ListInv, TypeOK
<1>4. ASSUME NEW e \in Device, (Guids[e] \cup counterparts[e]) \cap G # {}
      PROVE  MayReplace(d, e)
  <2>1. PICK g \in G : g \in Guids[e] \cup counterparts[e]
    BY <1>4
  <2>2. g \in Guids[d] \cup counterparts[d]
    BY <1>1
  <2> QED
    BY <2>1, <2>2, SharedGuid
<1> QED
  BY <1>2, <1>3, <1>4, ItemReplaces

\* What a step of the list does to update states: at most one object takes the
\* state of another of its device.
StateMoves ==
  \/ updateState' = updateState
  \/ \E self, donor \in Device :
        /\ MayReplace(self, donor)
        /\ TakesState(self, donor)
        /\ updateState' = [updateState EXCEPT ![self] = updateState[donor]]

LEMMA IncorporateMoves ==
  ASSUME NEW self \in Device, NEW donor \in Device, MayReplace(self, donor),
         updateState' = IncorporateState(self, donor)
  PROVE  StateMoves
BY DEF IncorporateState, StateMoves

\* The pairs of items after an item is put in the place of another.
LEMMA PairItems ==
  ASSUME PairInv, NEW it \in items, NEW new, items' \subseteq items \cup {new},
         new.device_old # NoDevice => MayReplace(new.device, new.device_old)
  PROVE  \A x \in items' : x.device_old # NoDevice => MayReplace(x.device, x.device_old)
BY DEF PairInv

LEMMA PairFlags ==
  ASSUME PairInv,
         \A e \in Device : "replug-match-guid" \in flags'[e]
                             => "replug-match-guid" \in flags[e]
  PROVE  \A e \in Device : "replug-match-guid" \in flags'[e] => MatchesByGuid
BY DEF PairInv

LEMMA ReplacePairs ==
  ASSUME AtMostTwoObjects, ListInv, PairInv, NEW it \in items, NEW d \in Device,
         MayReplace(d, it.device), Replace(it, d)
  PROVE  PairInv' /\ StateMoves
<1>0. /\ it.device \in Device /\ flags \in [Device -> SUBSET Flag]
      /\ counterparts \in [Device -> SUBSET Guid]
  BY DEF ListInv, TypeOK
<1> DEFINE new == [device |-> d, device_old |-> it.device, remove_source |-> FALSE]
<1>1. new.device = d /\ new.device_old = it.device
  OBVIOUS
<1>2. items' \subseteq items \cup {new}
  BY DEF Replace, SetItem
<1> HIDE DEF new
<1>3. \A x \in items' : x.device_old # NoDevice => MayReplace(x.device, x.device_old)
  BY <1>1, <1>2, PairItems
<1>4. ASSUME NEW e \in Device, NEW g \in counterparts'[e]
      PROVE  \E a \in Device : MayReplace(e, a) /\ g \in PluginGuids(a)
  <2>1. g \in counterparts[e] \/ (e = d /\ g \in MissingGuids(d, it.device))
    BY <1>0, <1>4 DEF Replace
  <2>2. g \in MissingGuids(d, it.device) => g \in PluginGuids(it.device)
    BY DEF MissingGuids, PluginGuids
  <2> QED
    BY <1>0, <2>1, <2>2 DEF PairInv
<1>5. ASSUME NEW e \in Device, "replug-match-guid" \in flags'[e]
      PROVE  "replug-match-guid" \in flags[e]
  <2> DEFINE f == [flags EXCEPT ![d] = InheritedFlags(d, it.device)]
  <2>1. f[e] = IF e = d THEN InheritedFlags(d, it.device) ELSE flags[e]
    BY <1>0
  <2>2. flags' = ClearWaitForReplug(f, d, it.device)
    BY DEF Replace
  <2> HIDE DEF f
  <2>3. "replug-match-guid" \in f[e]
    BY <1>5, <2>2 DEF ClearWaitForReplug
  <2>4. "replug-match-guid" \in InheritedFlags(d, it.device)
          => "replug-match-guid" \in flags[d]
    BY DEF InheritedFlags
  <2> QED
    BY <2>1, <2>3, <2>4
<1>6. StateMoves
  BY <1>0, IncorporateMoves DEF Replace
<1> QED
  BY <1>3, <1>4, <1>5, <1>6, PairFlags DEF PairInv

\* Plugging a device in keeps its objects together.
LEMMA AddPairs ==
  ASSUME AtMostTwoObjects, ListInv, PairInv, NEW d \in Device, Add(d)
  PROVE  PairInv' /\ StateMoves
<1>0. TypeOK /\ flags \in [Device -> SUBSET Flag] /\ items \subseteq Item
  BY DEF ListInv, TypeOK
<1>1. ASSUME NEW it \in FindById(Id[d]) PROVE it \in items /\ it \in Item /\ it.device \in Device
                                              /\ MayReplace(d, it.device)
  BY <1>0, FoundById
<1>2. ASSUME NEW it \in FindById(Id[d]), AddSame(it, d) PROVE PairInv' /\ StateMoves
  <2> DEFINE new == [it EXCEPT !.remove_source = FALSE]
  <2>1. it \in items /\ new.device = it.device /\ new.device_old = it.device_old
    BY <1>1
  <2>2. items' \subseteq items \cup {new}
    BY <1>2 DEF AddSame, SetItem
  <2> HIDE DEF new
  <2>3. \A x \in items' : x.device_old # NoDevice => MayReplace(x.device, x.device_old)
    BY <2>1, <2>2, PairItems DEF PairInv
  <2>4. \A e \in Device : "replug-match-guid" \in flags'[e] => "replug-match-guid" \in flags[e]
    BY <1>2 DEF AddSame, ClearWaitForReplug
  <2>5. counterparts' = counterparts /\ StateMoves
    BY <1>2 DEF AddSame, StateMoves
  <2> QED
    BY <2>3, <2>4, <2>5, PairFlags DEF PairInv
<1>3. ASSUME NEW it \in FindById(Id[d]), AddOld(it, d) PROVE PairInv' /\ StateMoves
  <2>0. it \in items /\ it.device \in Device /\ MayReplace(d, it.device)
        /\ MayReplace(it.device, d)
    BY <1>1, ReplaceBack
  <2> DEFINE new == [device |-> d, device_old |-> it.device, remove_source |-> FALSE]
  <2>1. new.device = d /\ new.device_old = it.device
    OBVIOUS
  <2>2. items' \subseteq items \cup {new}
    BY <1>3 DEF AddOld, SetItem
  <2> HIDE DEF new
  <2>3. \A x \in items' : x.device_old # NoDevice => MayReplace(x.device, x.device_old)
    BY <2>0, <2>1, <2>2, PairItems
  <2>4. ASSUME NEW e \in Device, "replug-match-guid" \in flags'[e]
        PROVE  "replug-match-guid" \in flags[e]
    <3> DEFINE f == [flags EXCEPT ![it.device] = @ \ {"unconnected"}]
    <3>1. f[e] \subseteq flags[e]
      BY <1>0
    <3>2. flags' = ClearWaitForReplug(f, d, it.device)
      BY <1>3 DEF AddOld
    <3> HIDE DEF f
    <3> QED
      BY <2>4, <3>1, <3>2 DEF ClearWaitForReplug
  <2>5. counterparts' = counterparts /\ StateMoves
    BY <1>3, <2>0, IncorporateMoves DEF AddOld
  <2> QED
    BY <2>3, <2>4, <2>5, PairFlags DEF PairInv
<1>4. ASSUME NEW it \in FindById(Id[d]), AddIgnored(it, d) PROVE PairInv' /\ StateMoves
  <2>1. \A e \in Device : "replug-match-guid" \in flags'[e] => "replug-match-guid" \in flags[e]
    BY <1>0, <1>4 DEF AddIgnored
  <2>2. items' = items /\ counterparts' = counterparts /\ StateMoves
    BY <1>4 DEF AddIgnored, StateMoves
  <2> QED
    BY <2>1, <2>2, PairFlags DEF PairInv
<1>5. ASSUME NEW it \in FindById(Id[d]), AddSameId(it, d) PROVE PairInv' /\ StateMoves
  BY <1>1, <1>5, ReplacePairs DEF AddSameId
<1>6. ASSUME AddSameConnection(d) PROVE PairInv' /\ StateMoves
  <2>1. PICK it \in FindByConnection(Connection[d]) : Replace(it, d)
    BY <1>6 DEF AddSameConnection
  <2> QED
    BY <2>1, FoundByConnection, ReplacePairs
<1>7. ASSUME AddCompatible(d) PROVE PairInv' /\ StateMoves
  <2>1. PICK it \in FindCompatible(d) : Replace(it, d)
    BY <1>7 DEF AddCompatible
  <2>2. MatchesByGuid
    BY <1>7 DEF AddCompatible, PairInv
  <2> QED
    BY <2>1, <2>2, FoundByGuid, ReplacePairs
<1>8. ASSUME AddNew(d) PROVE PairInv' /\ StateMoves
  <2> DEFINE new == [device |-> d, device_old |-> NoDevice, remove_source |-> FALSE]
  <2>1. new.device_old = NoDevice
    OBVIOUS
  <2>2. items' = items \cup {new}
    BY <1>8, Zenon DEF AddNew
  <2> HIDE DEF new
  <2>3. \A x \in items' : x.device_old # NoDevice => MayReplace(x.device, x.device_old)
    BY <2>1, <2>2, Zenon DEF PairInv
  <2>4. \A e \in Device : "replug-match-guid" \in flags'[e] => "replug-match-guid" \in flags[e]
    BY <1>0, <1>8 DEF AddNew
  <2>5. counterparts' = counterparts /\ StateMoves
    BY <1>8 DEF AddNew, StateMoves
  <2> QED
    BY <2>3, <2>4, <2>5, PairFlags DEF PairInv
<1> QED
  BY <1>2, <1>3, <1>4, <1>5, <1>6, <1>7, <1>8 DEF Add

\* So does unplugging it.
LEMMA RemovePairs ==
  ASSUME ListInv, PairInv, NEW d \in Device, Remove(d)
  PROVE  PairInv'
<1>0. flags \in [Device -> SUBSET Flag] /\ items \subseteq Item
  BY DEF ListInv, TypeOK
<1>1. PICK it \in FindById(Id[d]) :
        /\ flags' = [flags EXCEPT ![it.device] = @ \cup {"unconnected"}]
        /\ IF ShouldRemoveWithDelay(it.device)
           THEN /\ SetItem(it, [it EXCEPT !.remove_source = TRUE])
                /\ signalled' = {}
           ELSE RemoveNow(it, d)
  BY DEF Remove
<1>2. \A e \in Device : "replug-match-guid" \in flags'[e] => "replug-match-guid" \in flags[e]
  BY <1>0, <1>1
<1>3. it \in items /\ it \in Item
  BY <1>0, <1>1 DEF FindById, FilterById
<1> DEFINE new == [it EXCEPT !.remove_source = TRUE]
<1>4. new.device = it.device /\ new.device_old = it.device_old
  BY <1>3
<1>5. SetItem(it, new) \/ RemoveNow(it, d)
  BY <1>1
<1> HIDE DEF new
<1>6. items' \subseteq items \cup {new}
  BY <1>5 DEF SetItem, RemoveNow
<1>7. \A x \in items' : x.device_old # NoDevice => MayReplace(x.device, x.device_old)
  BY <1>3, <1>4, <1>6, PairItems DEF PairInv
<1>8. counterparts' = counterparts
  BY DEF Remove
<1> QED
  BY <1>2, <1>7, <1>8, PairFlags DEF PairInv

\* Every step keeps the objects of a device together.
LEMMA PairStep ==
  ASSUME AtMostTwoObjects, EngineInv, PairInv, [InstallNext]_allVars
  PROVE  PairInv'
<1>0. ListInv
  BY DEF EngineInv
<1>1. ASSUME NEW d \in Device, HotplugAdd(d) PROVE PairInv'
  BY <1>0, <1>1, AddPairs DEF HotplugAdd
<1>2. ASSUME NEW d \in Device, HotplugRemove(d) PROVE PairInv'
  BY <1>0, <1>2, RemovePairs DEF HotplugRemove
<1>3. ASSUME NEW it \in items, HotplugTimer(it) PROVE PairInv'
  <2>1. items' \subseteq items /\ flags' = flags /\ counterparts' = counterparts
    BY <1>3 DEF HotplugTimer, DelayedRemove, RemoveNow
  <2> QED
    BY <2>1 DEF PairInv
<1>4. ASSUME NEW d \in Device, NEW r \in Request, Begin(d, r[1], r[2]) PROVE PairInv'
  BY <1>4 DEF Begin, KeepList, PairInv
<1>5. CASE InstallStep
  <2>1. FlagsKept /\ items' = items /\ counterparts' = counterparts
    BY <1>5, ListKept
  <2> QED
    BY <2>1 DEF FlagsKept, PairInv
<1>6. CASE UNCHANGED allVars
  BY <1>6 DEF allVars, vars, PairInv
<1> QED
  BY <1>1, <1>2, <1>3, <1>4, <1>5, <1>6 DEF InstallNext
-----------------------------------------------------------------------------
(* The database has the success *)

Successes == {"success", "needs-reboot"}

\* The phases after the last write.
WrittenPc == {"cleanup", "done", "acquiesce", "composite-cleanup"}

\* What the database h has of an install in frame f, and the update states u.
SuccessFrame(f, h, u) ==
  /\ f.kind = "blob" => f.no_history
  /\ f.pc \in WrittenPc => f.orig \in Device /\ u[f.orig] \in Successes
  /\ f.pc \in WrittenPc /\ ~f.no_history => h[Id[f.orig]] \in Successes

\* The inductive invariant: once written, the update stays recorded as done, and
\* the device of the release has a state of its own, so that it takes none.
SuccessInv == SuccessFrame(job[1], history, updateState)

LEMMA PhaseSuccess ==
  ASSUME NoNesting, Control, depth > 0, SuccessFrame(frame, history, updateState),
         NEW p \in Phases,
         NEW g, g = [frame EXCEPT !.pc = p], job'[1] = g,
         p \in WrittenPc => updateState'[frame.orig] \in Successes,
         p \in WrittenPc /\ ~frame.no_history
           => history'[Id[frame.orig]] \in Successes
  PROVE  SuccessInv'
<1>1. /\ g.pc = p /\ g.orig = frame.orig /\ g.kind = frame.kind
      /\ g.no_history = frame.no_history
  BY FrameTyped, FramePc, SMT
<1>2. frame.orig \in Device
  BY FrameTyped
<1>3. SuccessFrame(g, history', updateState')
  BY <1>1, <1>2, Zenon DEF SuccessFrame
<1> QED
  BY <1>3 DEF SuccessInv

LEMMA GotoSuccess ==
  ASSUME NoNesting, Control, depth > 0, SuccessFrame(frame, history, updateState),
         NEW p \in Phases, Goto([frame EXCEPT !.pc = p]),
         p \in WrittenPc => updateState'[frame.orig] \in Successes,
         p \in WrittenPc /\ ~frame.no_history
           => history'[Id[frame.orig]] \in Successes
  PROVE  SuccessInv'
<1> DEFINE g == [frame EXCEPT !.pc = p]
<1>1. job'[1] = g
  BY OneLevel, GotoFrame
<1> HIDE DEF g
<1>2. g = [frame EXCEPT !.pc = p]
  BY DEF g
<1> QED
  BY <1>1, <1>2, PhaseSuccess

LEMMA ReturnSuccess ==
  ASSUME NoNesting, Control, depth > 0, NEW r, Return(r)
  PROVE  SuccessInv'
<1>1. job'[1] = NoFrame
  BY OneLevel, ReturnFrame
<1>2. NoFrame.pc = "returned" /\ NoFrame.kind = "install"
  BY DEF NoFrame
<1> QED
  BY <1>1, <1>2 DEF SuccessInv, SuccessFrame, WrittenPc

LEMMA FailSuccess ==
  ASSUME NoNesting, Control, depth > 0, SuccessFrame(frame, history, updateState),
         NEW p, NEW u, NEW h, WriteBlobFailed(p, u, h)
  PROVE  SuccessInv'
<1>1. "failed" \in Phases
  BY DEF Phases
<1>2. CASE Goto([frame EXCEPT !.pc = "failed"])
  BY <1>1, <1>2, GotoSuccess DEF WrittenPc
<1>3. CASE Return("error")
  BY <1>3, ReturnSuccess
<1> QED
  BY <1>2, <1>3 DEF WriteBlobFailed

\* The step to another frame that is not yet done.
LEMMA WritingSuccess ==
  ASSUME NoNesting, Control, depth > 0, SuccessFrame(frame, history, updateState),
         NEW f, Goto(f), f.kind = frame.kind, f.no_history = frame.no_history,
         f.pc \in {"detach", "loop", "attach", "abort"}
  PROVE  SuccessInv'
<1>1. job'[1] = f
  BY OneLevel, GotoFrame
<1>2. f.pc \notin WrittenPc
  BY DEF WrittenPc
<1>3. SuccessFrame(f, history', updateState')
  BY <1>2, Zenon DEF SuccessFrame
<1> QED
  BY <1>1, <1>3 DEF SuccessInv

LEMMA NextIterationSuccess ==
  ASSUME NoNesting, Control, depth > 0, SuccessFrame(frame, history, updateState),
         NEW g \in Frame, g.kind = frame.kind, g.no_history = frame.no_history,
         NextIteration(g)
  PROVE  SuccessInv'
<1>1. CASE Fail
  BY <1>1, FailSuccess DEF Fail
<1>2. CASE Goto([g EXCEPT !.pc = "loop"])
  <2> DEFINE f == [g EXCEPT !.pc = "loop"]
  <2>1. "loop" \in Phases
    BY DEF Phases
  <2>2. f.pc = "loop" /\ f.kind = frame.kind /\ f.no_history = frame.no_history
    BY <2>1, FramePc
  <2> HIDE DEF f
  <2>3. Goto(f)
    BY <1>2 DEF f
  <2> QED
    BY <2>2, <2>3, WritingSuccess
<1> QED
  BY <1>1, <1>2 DEF NextIteration

\* A notification of a success does not undo one.
LEMMA RecordSuccess ==
  ASSUME Reported, NEW d \in Device, NEW state \in Successes,
         history' = RecordChange(d, state), NEW i \in DeviceId, history[i] \in Successes
  PROVE  history'[i] \in Successes
BY DEF Reported, HistoryType, RecordChange, Record

LEMMA SuccessStep ==
  ASSUME NoNesting, EngineInv, SuccessInv, InstallStep
  PROVE  SuccessInv'
<1>0. Control /\ ListInv /\ Reported /\ Found \subseteq Device
  BY FoundTyped DEF EngineInv
<1>1. depth > 0
  BY DEF InstallStep, InstallRelease, NotFound, Prepare, InstallLoop, Detach,
         WriteFirmware, WriteFirmwareFails, Attach, AttachRestart, Reload,
         CheckComplete, Cleanup, AbortDone, BlobDone, InstallDone, Acquiesced,
         InstallReturns, InstallFailed, Wait, WaitFailed, Phase
<1>2. frame \in Frame /\ SuccessFrame(frame, history, updateState) /\ frame.orig \in Device
  BY <1>0, <1>1, OneLevel, FrameTyped DEF SuccessInv
<1> DEFINE i == Id[frame.orig]
<1>3. i \in DeviceId
  BY <1>2, DeviceAssumption
<1>4. \A p, u, h : WriteBlobFailed(p, u, h) => SuccessInv'
  BY <1>0, <1>1, <1>2, FailSuccess
<1>5. Fail => SuccessInv'
  BY <1>4 DEF Fail
<1>6. \A r : Return(r) => SuccessInv'
  BY <1>0, <1>1, ReturnSuccess
<1>7. ASSUME NEW p \in {"prepare", "enter", "write", "reload", "check", "failed", "abort-done"},
             Goto([frame EXCEPT !.pc = p])
      PROVE  SuccessInv'
  BY <1>0, <1>1, <1>2, <1>7, GotoSuccess DEF Phases, WrittenPc
<1>8. ASSUME frame.pc \in WrittenPc
      PROVE  /\ updateState[frame.orig] \in Successes
             /\ ~frame.no_history => history[i] \in Successes
  BY <1>2, <1>8 DEF SuccessFrame
<1>9. CASE InstallRelease
  BY <1>7, <1>9 DEF InstallRelease
<1>10. CASE NotFound
  BY <1>5, <1>10 DEF NotFound
<1>11. CASE Prepare
  BY <1>4, <1>7, <1>11 DEF Prepare
<1>12. CASE InstallLoop
  <2>1. PICK d \in Found : Goto([frame EXCEPT !.pc = "detach", !.first = d])
    BY <1>12 DEF InstallLoop
  <2> DEFINE f == [frame EXCEPT !.pc = "detach", !.first = d]
  <2>2. f.pc = "detach" /\ f.kind = frame.kind /\ f.no_history = frame.no_history
    BY <1>0, <1>2, FrameFirst
  <2> HIDE DEF f
  <2>3. Goto(f)
    BY <2>1 DEF f
  <2> QED
    BY <1>0, <1>1, <1>2, <2>2, <2>3, WritingSuccess
<1>13. CASE Detach
  BY <1>5, <1>7, <1>13 DEF Detach
<1>14. CASE WriteFirmware
  <2> DEFINE g == [frame EXCEPT !.writes = @ + 1]
             f == [g EXCEPT !.pc = "attach"]
  <2>1. g \in Frame /\ g.kind = frame.kind /\ g.no_history = frame.no_history
    BY <1>2, FrameWrites
  <2>2. NextIteration(g) \/ Goto(f)
    BY <1>14 DEF WriteFirmware
  <2> HIDE DEF g
  <2>3. "attach" \in Phases
    BY DEF Phases
  <2>4. f.pc = "attach" /\ f.kind = frame.kind /\ f.no_history = frame.no_history
    BY <2>1, <2>3, FramePc
  <2> HIDE DEF f
  <2> QED
    BY <1>0, <1>1, <1>2, <2>1, <2>2, <2>4, NextIterationSuccess, WritingSuccess
<1>15. CASE WriteFirmwareFails
  <2> DEFINE f == [frame EXCEPT !.pc = "abort", !.writes = @ + 1]
  <2>1. f.pc = "abort" /\ f.kind = frame.kind /\ f.no_history = frame.no_history
    BY <1>2, FrameAbort
  <2>2. Goto(f) \/ Fail
    BY <1>15 DEF WriteFirmwareFails
  <2> HIDE DEF f
  <2> QED
    BY <1>0, <1>1, <1>2, <1>5, <2>1, <2>2, WritingSuccess
<1>16. CASE Attach
  BY <1>5, <1>7, <1>16 DEF Attach
<1>17. CASE AttachRestart
  BY <1>0, <1>1, <1>2, <1>17, NextIterationSuccess DEF AttachRestart
<1>18. CASE Reload
  BY <1>5, <1>7, <1>18 DEF Reload
<1>19. CASE CheckComplete
  <2>1. CASE NextIteration(frame)
    BY <1>0, <1>1, <1>2, <2>1, NextIterationSuccess
  <2>2. CASE /\ MarkSuccess(frame.orig)
             /\ LET o == frame.orig
                IN  history' = IF frame.no_history THEN RecordChange(o, updateState'[o])
                               ELSE [history EXCEPT ![Id[o]] = updateState'[o]]
             /\ Goto([frame EXCEPT !.pc = "cleanup"])
    <3>1. updateState'[frame.orig] \in Successes
      BY <1>0, <1>2, <2>2, SuccessReported DEF Successes
    <3>2. ~frame.no_history => history'[i] \in Successes
      BY <1>0, <1>3, <2>2, <3>1 DEF Reported, HistoryType
    <3>3. "cleanup" \in Phases
      BY DEF Phases
    <3> QED
      BY <1>0, <1>1, <1>2, <2>2, <3>1, <3>2, <3>3, GotoSuccess
  <2> QED
    BY <1>19, <2>1, <2>2 DEF CheckComplete
<1>20. CASE Cleanup
  <2>1. CASE Phase("abort")
    <3>1. \/ Goto([frame EXCEPT !.pc = "abort-done"])
          \/ \E d \in Found : WriteBlobFailed(inProgress \ {d}, updateState, history)
      BY <1>20, <2>1 DEF Cleanup, Phase
    <3> QED
      BY <1>4, <1>7, <3>1
  <2>2. CASE Phase("cleanup")
    <3>1. \/ Goto([frame EXCEPT !.pc = "done"]) /\ UNCHANGED <<history, updateState>>
          \/ \E d \in Found : WriteBlobFailed(inProgress \ {d}, updateState, history)
      BY <1>20, <2>2 DEF Cleanup, Phase
    <3>2. "done" \in Phases /\ frame.pc \in WrittenPc
      BY <2>2 DEF Phases, Phase, WrittenPc
    <3>3. CASE Goto([frame EXCEPT !.pc = "done"]) /\ UNCHANGED <<history, updateState>>
      BY <1>0, <1>1, <1>2, <1>8, <3>2, <3>3, GotoSuccess
    <3> QED
      BY <1>4, <3>1, <3>3
  <2> QED
    BY <1>20, <2>1, <2>2 DEF Cleanup
<1>21. CASE AbortDone
  BY <1>5, <1>21 DEF AbortDone
<1>22. CASE BlobDone
  BY <1>6, <1>22 DEF BlobDone
<1>23. CASE InstallDone
  <2>1. /\ frame.pc \in WrittenPc
        /\ "composite-cleanup" \in Phases /\ "acquiesce" \in Phases
    BY <1>23 DEF InstallDone, Phase, Phases, WrittenPc
  <2>2. CASE Goto([frame EXCEPT !.pc = "failed"])
    BY <1>7, <2>2
  <2>3. ASSUME NEW d \in Device, NEW state \in Successes, history' = RecordChange(d, state)
        PROVE  ~frame.no_history => history'[i] \in Successes
    BY <1>0, <1>3, <1>8, <2>1, <2>3, RecordSuccess
  <2>4. CASE /\ history' = RecordChange(frame.orig, "needs-reboot")
             /\ updateState' = [updateState EXCEPT ![frame.orig] = "needs-reboot"]
             /\ Goto([frame EXCEPT !.pc = "composite-cleanup"])
    <3>1. ~frame.no_history => history'[i] \in Successes
      BY <1>2, <2>3, <2>4 DEF Successes
    <3>2. updateState'[frame.orig] \in Successes
      BY <1>0, <1>2, <2>4 DEF Reported, UpdateType, Successes
    <3> QED
      BY <1>0, <1>1, <1>2, <2>1, <2>4, <3>1, <3>2, GotoSuccess
  <2>5. ASSUME NEW d \in Found, MarkSuccess(d), history' = RecordChange(d, updateState'[d])
        PROVE  /\ ~frame.no_history => history'[i] \in Successes
               /\ updateState'[frame.orig] \in Successes
    <3>1. d \in Device /\ updateState'[d] \in Successes
      BY <1>0, <2>5, SuccessReported DEF Successes
    <3>2. updateState'[frame.orig] \in {updateState[frame.orig], updateState'[d]}
      BY <1>0, <1>2, <2>5, <3>1 DEF MarkSuccess, Reported, UpdateType
    <3> QED
      BY <1>8, <2>1, <2>3, <2>5, <3>1, <3>2
  <2>6. ASSUME NEW d \in Found, MarkSuccess(d), history' = RecordChange(d, updateState'[d]),
               Goto([frame EXCEPT !.pc = "composite-cleanup"])
        PROVE  SuccessInv'
    <3>1. /\ ~frame.no_history => history'[i] \in Successes
          /\ updateState'[frame.orig] \in Successes
      BY <2>5, <2>6
    <3> QED
      BY <1>0, <1>1, <1>2, <2>1, <2>6, <3>1, GotoSuccess
  <2>7. ASSUME NEW d \in Found, MarkSuccess(d), history' = RecordChange(d, updateState'[d]),
               job' = [job EXCEPT ![depth].pc = "acquiesce"]
        PROVE  SuccessInv'
    <3>1. /\ ~frame.no_history => history'[i] \in Successes
          /\ updateState'[frame.orig] \in Successes
      BY <2>5, <2>7
    <3> DEFINE g == [frame EXCEPT !.pc = "acquiesce"]
    <3>2. job' = [job EXCEPT ![depth] = g]
      BY <2>7, Zenon DEF frame
    <3>3. g = [frame EXCEPT !.pc = "acquiesce"]
      OBVIOUS
    <3> HIDE DEF g
    <3>4. job'[1] = g
      BY <1>0, <1>1, <3>2, OneLevel DEF Control
    <3> QED
      BY <1>0, <1>1, <1>2, <2>1, <3>1, <3>3, <3>4, PhaseSuccess
  <2> QED
    BY <1>23, <2>2, <2>4, <2>6, <2>7 DEF InstallDone
<1>24. CASE Acquiesced
  <2>1. /\ frame.pc \in WrittenPc /\ "composite-cleanup" \in Phases
        /\ UNCHANGED <<history, updateState>>
        /\ Goto([frame EXCEPT !.pc = "composite-cleanup"])
    BY <1>24 DEF Acquiesced, reported, Phases, WrittenPc
  <2> QED
    BY <1>0, <1>1, <1>2, <1>8, <2>1, GotoSuccess
<1>25. CASE InstallReturns
  BY <1>6, <1>25 DEF InstallReturns
<1>26. CASE InstallFailed
  BY <1>6, <1>26 DEF InstallFailed
<1>27. CASE Wait
  <2>1. UNCHANGED <<job, history, updateState>>
    BY <1>27 DEF Wait, Undisturbed, WaitStart, WaitDone, WaitTimeout
  <2> QED
    BY <2>1 DEF SuccessInv
<1>28. CASE WaitFailed
  BY <1>5, <1>6, <1>28 DEF WaitFailed
<1> QED
  BY <1>9, <1>10, <1>11, <1>12, <1>13, <1>14, <1>15, <1>16, <1>17, <1>18, <1>19, <1>20,
     <1>21, <1>22, <1>23, <1>24, <1>25, <1>26, <1>27, <1>28 DEF InstallStep

\* The steps that report a success: a blob was written, or a release was
\* installed and the database is left alone.
LEMMA ReplySuccess ==
  ASSUME InstallNext, reply' = "success"
  PROVE  BlobDone \/ (Phase("composite-cleanup") /\ history' = history)
<1>1. ASSUME NEW f, Goto(f) PROVE FALSE
  BY <1>1 DEF Goto
<1>2. ASSUME Return("error") PROVE FALSE
  BY <1>2 DEF Return
<1>3. ASSUME NEW p, NEW u, NEW h, WriteBlobFailed(p, u, h) PROVE FALSE
  BY <1>1, <1>2, <1>3 DEF WriteBlobFailed
<1>4. ASSUME NEW f, NextIteration(f) PROVE FALSE
  BY <1>1, <1>3, <1>4 DEF NextIteration, Fail
<1>5. ASSUME Undisturbed PROVE FALSE
  BY <1>5 DEF Undisturbed
<1>6. ASSUME NEW d, NEW kind, NEW no_history, Begin(d, kind, no_history) PROVE FALSE
  BY <1>6 DEF Begin
<1>7. ASSUME InstallDone PROVE FALSE
  BY <1>1, <1>7 DEF InstallDone
<1>8. ASSUME InstallReturns
      PROVE  Phase("composite-cleanup") /\ history' = history
  BY <1>2, <1>8 DEF InstallReturns, reported
<1>9. ASSUME \/ InstallRelease \/ Prepare \/ InstallLoop \/ Detach \/ WriteFirmware
             \/ WriteFirmwareFails \/ Attach \/ AttachRestart \/ Reload \/ CheckComplete
             \/ Cleanup \/ Acquiesced
      PROVE  FALSE
  BY <1>1, <1>3, <1>4, <1>9
     DEF InstallRelease, Prepare, InstallLoop, Detach, WriteFirmware, WriteFirmwareFails,
         Attach, AttachRestart, Reload, CheckComplete, Cleanup, Acquiesced, Fail
<1>10. ASSUME NotFound \/ AbortDone \/ InstallFailed \/ Wait \/ WaitFailed PROVE FALSE
  BY <1>2, <1>3, <1>5, <1>10 DEF NotFound, AbortDone, InstallFailed, Wait, WaitFailed, Fail
<1>11. ASSUME \/ \E d \in Device : HotplugAdd(d) \/ HotplugRemove(d)
              \/ \E it \in items : HotplugTimer(it)
       PROVE  FALSE
  BY <1>5, <1>11 DEF HotplugAdd, HotplugRemove, HotplugTimer
<1> QED
  BY <1>6, <1>7, <1>8, <1>9, <1>10, <1>11 DEF InstallNext, InstallStep

\* A device that is plugged in while the install has yet to return does not undo
\* the record: the state that an object of the device takes is the one which the
\* install has reported.
LEMMA AddSuccess ==
  ASSUME AtMostTwoObjects, NoNesting, EngineInv, PairInv, SuccessInv,
         NEW d \in Device, HotplugAdd(d)
  PROVE  SuccessInv'
<1>0. Control /\ ListInv /\ Reported
  BY DEF EngineInv
<1>1. job' = job /\ depth' = depth /\ history' = RecordIncorporated
  BY DEF HotplugAdd, Undisturbed
<1>2. StateMoves
  BY <1>0, AddPairs DEF HotplugAdd
<1> DEFINE o == job[1].orig
<1>3. ASSUME job[1].pc \in WrittenPc
      PROVE  /\ o \in Device
             /\ updateState[o] \in Successes
             /\ ~job[1].no_history => history[Id[o]] \in Successes
  BY <1>3 DEF SuccessInv, SuccessFrame
<1>4. ASSUME job[1].pc \in WrittenPc, NEW x \in Device, updateState'[x] # updateState[x],
             Id[x] = Id[o]
      PROVE  updateState'[x] = updateState[o]
  <2>1. PICK self \in Device, donor \in Device :
          /\ MayReplace(self, donor)
          /\ TakesState(self, donor)
          /\ updateState' = [updateState EXCEPT ![self] = updateState[donor]]
    BY <1>2, <1>4 DEF StateMoves
  <2>2. x = self /\ updateState'[x] = updateState[donor]
    BY <1>0, <1>4, <2>1 DEF Reported, UpdateType
  <2>3. self # donor /\ o # self
    BY <1>3, <1>4, <2>1 DEF TakesState, Successes
  <2>4. MayReplace(o, self)
    BY <1>4, <2>2 DEF MayReplace
  <2>5. o = donor
    BY <1>3, <1>4, <2>1, <2>3, <2>4 DEF AtMostTwoObjects
  <2> QED
    BY <2>2, <2>5
<1>5. ASSUME job[1].pc \in WrittenPc
      PROVE  updateState'[o] \in Successes
  BY <1>3, <1>4, <1>5
<1>6. ASSUME job[1].pc \in WrittenPc, ~job[1].no_history
      PROVE  history'[Id[o]] \in Successes
  <2> DEFINE i == Id[o]
             changed == {x \in watched : Id[x] = i /\ updateState'[x] # updateState[x]}
             y == CHOOSE x \in changed : TRUE
  <2>1. i \in DeviceId /\ watched \subseteq Device /\ history \in HistoryType
    BY <1>3, <1>6, DeviceAssumption DEF EngineInv, Kept, Reported
  <2>2. history'[i] = IF changed = {} THEN history[i]
                      ELSE Record(history, y, updateState'[y])[i]
    BY <1>1, <2>1 DEF RecordIncorporated
  <2>3. ASSUME changed # {}
        PROVE  y \in Device /\ Id[y] = i /\ updateState'[y] \in Successes
    <3>1. y \in changed
      BY <2>3
    <3>2. y \in Device /\ Id[y] = i /\ updateState'[y] # updateState[y]
      BY <2>1, <3>1
    <3> HIDE DEF y
    <3> QED
      BY <1>3, <1>4, <1>6, <3>2
  <2> HIDE DEF y, changed
  <2>4. ASSUME changed # {}
        PROVE  Record(history, y, updateState'[y])[i] \in {history[i], updateState'[y]}
    BY <2>1, <2>3, <2>4 DEF Record, HistoryType
  <2> QED
    BY <1>3, <1>6, <2>2, <2>3, <2>4
<1> QED
  BY <1>1, <1>3, <1>5, <1>6 DEF SuccessInv, SuccessFrame

\* When the client is told that a release was installed, the database has the
\* update as done: for devices that come back as themselves or as a second object
\* and installs that do not nest, however often a device is replugged and the
\* loop restarted, and whatever earlier installs have left behind.
THEOREM SuccessRecordedCorrect ==
  AtMostTwoObjects /\ NoNesting /\ InstallSpec => SuccessRecorded
<1> SUFFICES ASSUME AtMostTwoObjects, NoNesting PROVE InstallSpec => SuccessRecorded
  OBVIOUS
<1>1. InstallInit => SuccessInv
  <2>1. NoFrame.pc = "returned" /\ NoFrame.kind = "install" /\ 1 \in Level
    BY SMT DEF NoFrame, NoNesting, Level
  <2> QED
    BY <2>1 DEF InstallInit, SuccessInv, SuccessFrame, WrittenPc
<1>2. InstallInit => PairInv
  <2> SUFFICES ASSUME InstallInit PROVE PairInv
    OBVIOUS
  <2>1. items = {} /\ flags = FirstFlags /\ counterparts = FirstCounterparts
    BY DEF InstallInit, Init
  <2>2. \A d \in Device : \A g \in counterparts[d] : MayReplace(d, d) /\ g \in PluginGuids(d)
    BY <2>1, ReplaceSame DEF PluginGuids
  <2>3. \A d \in Device : "replug-match-guid" \in flags[d] => MatchesByGuid
    BY <2>1 DEF MatchesByGuid
  <2> QED
    BY <2>1, <2>2, <2>3 DEF PairInv
<1>3. EngineInv /\ PairInv /\ SuccessInv /\ [InstallNext]_allVars => SuccessInv'
  <2> SUFFICES ASSUME EngineInv, PairInv, SuccessInv, [InstallNext]_allVars
               PROVE  SuccessInv'
    OBVIOUS
  <2>0. Control /\ ListInv /\ Reported
    BY DEF EngineInv
  <2>1. ASSUME UNCHANGED <<job, history, updateState>> PROVE SuccessInv'
    BY <2>1 DEF SuccessInv
  <2>2. ASSUME NEW d \in Device, HotplugAdd(d) PROVE SuccessInv'
    BY <2>2, AddSuccess
  <2>3. ASSUME NEW d \in Device, HotplugRemove(d) PROVE SuccessInv'
    BY <2>1, <2>3 DEF HotplugRemove, Undisturbed, Remove
  <2>4. ASSUME NEW it \in items, HotplugTimer(it) PROVE SuccessInv'
    BY <2>1, <2>4 DEF HotplugTimer, Undisturbed, DelayedRemove
  <2>5. ASSUME NEW d \in Device, NEW r \in Request, Begin(d, r[1], r[2])
        PROVE  SuccessInv'
    <3>1. r[1] \in {"install", "blob"} /\ r[2] \in BOOLEAN /\ (r[1] = "blob" => r[2])
      BY <2>5, InstallAssumption DEF Begin
    <3>2. /\ depth' \in Level /\ job'[depth'].pc \in {"prepare", "composite-prepare"}
          /\ job'[depth'].kind = r[1] /\ job'[depth'].no_history = r[2]
      BY <2>0, <2>5, <3>1, BeginFrame
    <3>3. depth' = 1
      BY <3>2, SMT DEF NoNesting, Level
    <3>4. /\ job'[1].pc \notin WrittenPc
          /\ job'[1].kind = r[1] /\ job'[1].no_history = r[2]
      BY <3>2, <3>3 DEF WrittenPc
    <3> QED
      BY <3>1, <3>4, Zenon DEF SuccessInv, SuccessFrame
  <2>6. CASE InstallStep
    BY <2>6, SuccessStep
  <2>7. CASE UNCHANGED allVars
    BY <2>1, <2>7 DEF allVars, vars, engine
  <2> QED
    BY <2>2, <2>3, <2>4, <2>5, <2>6, <2>7 DEF InstallNext
<1>4. EngineInv /\ SuccessInv /\ [InstallNext]_allVars
        => [\A n \in Level :
              Returns(n, "success") /\ ~job[n].no_history =>
                 history'[Id[job[n].orig]] \in {"success", "needs-reboot"}]_allVars
  <2> SUFFICES ASSUME EngineInv, SuccessInv, InstallNext,
                      NEW n \in Level, Returns(n, "success"), ~job[n].no_history
               PROVE  history'[Id[job[n].orig]] \in {"success", "needs-reboot"}
    OBVIOUS
  <2>1. n = 1 /\ depth = 1 /\ frame = job[1]
    BY SMT DEF NoNesting, Level, Returns, frame
  <2>2. BlobDone \/ (Phase("composite-cleanup") /\ history' = history)
    BY ReplySuccess DEF Returns
  <2>3. CASE BlobDone
    <3>1. job[1].kind = "blob"
      BY <2>1, <2>3 DEF BlobDone
    <3>2. job[1].no_history
      BY <3>1 DEF SuccessInv, SuccessFrame
    <3> QED
      BY <2>1, <3>2
  <2>4. CASE Phase("composite-cleanup") /\ history' = history
    <3>1. job[1].pc = "composite-cleanup" /\ ~job[1].no_history
      BY <2>1, <2>4 DEF Phase
    <3> QED
      BY <2>1, <2>4, <3>1 DEF SuccessInv, SuccessFrame, Successes, WrittenPc
  <2> QED
    BY <2>2, <2>3, <2>4
<1>5. EngineInv /\ PairInv /\ [InstallNext]_allVars => PairInv'
  BY PairStep
<1>6. EngineInv /\ [InstallNext]_allVars => EngineInv'
  BY EngineStep DEF AtMostTwoObjects
<1> QED
  BY <1>1, <1>2, <1>3, <1>4, <1>5, <1>6, EngineInit, PTL DEF InstallSpec, SuccessRecorded
=============================================================================
