----------------------------- MODULE Acquiesce -----------------------------
(****************************************************************************)
(* The wait for the system to acquiesce at the end of an update             *)
(* (fu_engine_wait_for_acquiesce in fu-engine.c).  A wait runs the one      *)
(* GMainLoop of the engine until a timer quits it, and every change of a    *)
(* device starts the timer again.  The main context is dispatched during    *)
(* the wait, so another update may run there and wait too: the waits are a  *)
(* stack, but the loop, the delay and the pointer to the timer are shared.  *)
(*                                                                          *)
(* GMainLoop and GSource are external: a loop has one running flag, which   *)
(* every g_main_loop_run() on the stack looks at after each dispatch, and a *)
(* source stays attached when the pointer to it is dropped.  Time is in     *)
(* units of which the delays are multiples; a timer may be late.            *)
(****************************************************************************)
EXTENDS Naturals, Sequences, SequencesExt

CONSTANTS
  Delay,      \* the delays of the devices, in units; 0 is no wait
  MaxWaits,   \* bound: waits over a behaviour
  MaxChanges  \* bound: changes of devices over a behaviour

ASSUME DelayAssumption == Delay \subseteq Nat /\ MaxWaits \in Nat /\ MaxChanges \in Nat

VARIABLES
  running,  \* the loop runs
  source,   \* time left of the timer that the engine points to, or empty
  stray,    \* time left of the other timers that are attached, oldest first
  delay,    \* acquiesce_delay of the engine
  waits,    \* the waits on the stack: their delay, and the time since a device last changed
  overlap,  \* a wait began while another was on the stack or a timer was attached (auxiliary)
  used      \* waits and changes so far (auxiliary, for the bounds)

acquiesceVars == <<running, source, stray, delay, waits, overlap, used>>

AcquiesceTypeOK ==
  /\ running \in BOOLEAN /\ overlap \in BOOLEAN
  /\ source \in Seq(Nat) /\ Len(source) <= 1 /\ stray \in Seq(Nat)
  /\ delay \in Delay \cup {0}
  /\ waits \in Seq([delay : Delay \ {0}, quiet : Nat])
  /\ used \in [waits : 0 .. MaxWaits, changes : 0 .. MaxChanges]

AcquiesceInit ==
  /\ running = FALSE /\ source = <<>> /\ stray = <<>> /\ delay = 0
  /\ waits = <<>> /\ overlap = FALSE /\ used = [waits |-> 0, changes |-> 0]

\* The pointer is overwritten or cleared, and its timer stays attached.
Dropped == stray \o source

\* The main context is dispatched: by the daemon, or by the innermost wait.
Dispatching == running \/ waits = <<>>

\* fu_engine_wait_for_acquiesce.  It is reached from a dispatch, or after an
\* inner wait has returned and before the outer one looks at the loop again.
Wait(d) ==
  /\ used.waits < MaxWaits
  /\ used' = [used EXCEPT !.waits = @ + 1]
  /\ IF d = 0 THEN UNCHANGED <<running, source, stray, delay, waits, overlap>>
     ELSE /\ delay' = d
          /\ stray' = Dropped /\ source' = <<d>>
          /\ running' = TRUE
          /\ waits' = Append(waits, [delay |-> d, quiet |-> 0])
          /\ overlap' = (overlap \/ waits # <<>> \/ Dropped # <<>>)

\* The timer is destroyed and not started again, or goes on.
ResetWithoutStart == IF running THEN source' = <<>> ELSE UNCHANGED source
ResetIgnored == UNCHANGED source

\* fu_engine_acquiesce_reset
Reset == IF running THEN source' = <<delay>> ELSE UNCHANGED source

\* A device is added, removed or changed.
DeviceChanges ==
  /\ used.changes < MaxChanges
  /\ used' = [used EXCEPT !.changes = @ + 1]
  /\ Reset
  /\ waits' = [i \in DOMAIN waits |-> [waits[i] EXCEPT !.quiet = 0]]
  /\ UNCHANGED <<running, stray, delay, overlap>>

\* The callback goes on with its timer, and the loop does not quit.
TimerFiresAgain ==
  /\ Dispatching /\ source = <<0>>
  /\ source' = <<delay>>
  /\ UNCHANGED <<running, stray, overlap, delay, waits, used>>

\* fu_engine_acquiesce_timeout_cb: the loop quits and the pointer is cleared,
\* whichever timer it is.
TimerFires ==
  /\ Dispatching
  /\ \/ source = <<0>> /\ stray' = stray
     \/ \E i \in DOMAIN stray : stray[i] = 0 /\ stray' = RemoveAt(Dropped, i)
  /\ source' = <<>>
  /\ running' = FALSE
  /\ overlap' = (overlap /\ (waits # <<>> \/ stray' # <<>>))
  /\ UNCHANGED <<delay, waits, used>>

\* g_main_loop_run returns to the innermost wait once the loop does not run.
Return ==
  /\ waits # <<>> /\ ~running
  /\ waits' = Front(waits)
  /\ overlap' = (overlap /\ (Len(waits) > 1 \/ Dropped # <<>>))
  /\ UNCHANGED <<running, source, stray, delay, used>>

Less(t) == IF t = 0 THEN 0 ELSE t - 1

Tick ==
  /\ source' = [i \in DOMAIN source |-> Less(source[i])]
  /\ stray' = [i \in DOMAIN stray |-> Less(stray[i])]
  /\ waits' = [i \in DOMAIN waits |->
                 [waits[i] EXCEPT !.quiet = IF @ < waits[i].delay THEN @ + 1 ELSE @]]
  /\ UNCHANGED <<running, delay, overlap, used>>

AcquiesceNext ==
  \/ \E d \in Delay : Wait(d)
  \/ DeviceChanges \/ TimerFires \/ Return \/ Tick

AcquiesceFairness ==
  /\ WF_acquiesceVars(Tick) /\ WF_acquiesceVars(TimerFires) /\ WF_acquiesceVars(Return)

AcquiesceSpec == AcquiesceInit /\ [][AcquiesceNext]_acquiesceVars /\ AcquiesceFairness

-----------------------------------------------------------------------------
(* Properties.                                                              *)

\* While the loop runs there is a timer that will quit it, however the waits
\* nest and whichever timer cleared the shared pointer: no update hangs here.
RunningHasTimer == running => Dropped # <<>>

\* A wait that no other overlaps, and that no timer of an earlier one can end,
\* is ended only after no device has changed for its whole delay.  A change
\* that is dispatched between the timer and the return is too late.
QuietWhenAlone ==
  [][running /\ ~running' /\ ~overlap => Last(waits).quiet >= Last(waits).delay]_acquiesceVars

\* Every wait returns once the devices stop changing.
WaitsReturn == waits # <<>> ~> waits = <<>>

\* "the time the daemon should wait for devices to finish hotplugging after
\* the update has completed": each wait lasts for its own delay.
QuietAlways ==
  [][running /\ ~running' => \A i \in DOMAIN waits : waits[i].quiet >= waits[i].delay]_acquiesceVars
=============================================================================
