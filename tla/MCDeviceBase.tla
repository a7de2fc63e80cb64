---------------------------- MODULE MCDeviceBase ----------------------------
(***************************************************************************)
(* What every device and every update rests on: the problems of devices,   *)
(* opening and closing them, and the wait for the system to acquiesce.     *)
(* The three share no state, so that a behaviour is one of one of them,    *)
(* while the others stay as they are at first.                             *)
(***************************************************************************)
EXTENDS DeviceProblems, DeviceOpen, Acquiesce

VARIABLE part   \* the component that takes the steps

\* A hub that needs mains power, and its child that does not.
SomeSensitive ==
  [d \in Member |-> IF d = Hub THEN {"require-ac-power", "system-inhibit"} ELSE {"system-inhibit"}]

\* Two devices behind one proxy.
SomeProxy == [d \in Device |-> IF d = "proxy" THEN NoProxy ELSE "proxy"]

BaseInit ==
  /\ part \in {"problems", "open", "acquiesce"}
  /\ ProblemsInit /\ OpenInit /\ AcquiesceInit

BaseNext ==
  /\ \/ part = "problems" /\ ProblemsNext /\ UNCHANGED <<openVars, acquiesceVars>>
     \/ part = "open" /\ OpenNext /\ UNCHANGED <<problemVars, acquiesceVars>>
     \/ part = "acquiesce" /\ AcquiesceNext /\ UNCHANGED <<problemVars, openVars>>
  /\ UNCHANGED part

BaseSpec == BaseInit /\ [][BaseNext]_<<part, problemVars, openVars, acquiesceVars>> /\ AcquiesceFairness
=============================================================================
