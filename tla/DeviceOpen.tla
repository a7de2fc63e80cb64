----------------------------- MODULE DeviceOpen -----------------------------
(****************************************************************************)
(* Opening and closing a device object: the reference count of fu_device_   *)
(* open() and fu_device_close() (fu-device.c), the proxy that a device with *)
(* use-proxy-for-open opens before itself and closes after itself, and the  *)
(* FuDeviceLocker that opens, closes early on request and closes when it is *)
(* finalized (fu-device-locker.c).                                          *)
(*                                                                          *)
(* Every phase of an install, a poll callback and a plugin that talks to    *)
(* the proxy of another device hold lockers of their own, and the main loop *)
(* interleaves them.  A call to open or close is one action: it does not    *)
(* run the main loop.  The hardware may refuse any vfunc that is called.    *)
(* Devices with is-fake or no-probe, and calls of fu_device_open() without  *)
(* a locker, are left out.                                                  *)
(****************************************************************************)
EXTENDS Naturals, FiniteSets

CONSTANTS
  Device,    \* device objects
  ProxyOf,   \* the proxy of a device with use-proxy-for-open, or NoProxy
  NoProxy,
  Locker,    \* FuDeviceLocker objects that exist at the same time
  MaxRefs    \* bound: the references that opens and leaks add up to

ASSUME ProxyAssumption ==
  /\ NoProxy \notin Device /\ IsFiniteSet(Locker)
  /\ ProxyOf \in [Device -> Device \cup {NoProxy}]
  /\ \A d \in Device : ProxyOf[d] # NoProxy => ProxyOf[ProxyOf[d]] = NoProxy

VARIABLES
  device,    \* per object: open_refcount, done_probe, done_setup, IS_OPEN, the OS handle
  locker,    \* per locker: the device and device_open; NoLocker when there is none
  broken,    \* a close vfunc has failed (auxiliary)
  spent      \* objects that fu_device_locker_close() closed and reported an error (auxiliary)

openVars == <<device, locker, broken, spent>>

NoLocker == [device |-> NoProxy, open |-> FALSE]

NewObject == [refs |-> 0, probed |-> FALSE, ready |-> FALSE, is_open |-> FALSE, handle |-> FALSE]

OpenTypeOK ==
  /\ device \in [Device -> [refs : 0..MaxRefs, probed : BOOLEAN, ready : BOOLEAN,
                            is_open : BOOLEAN, handle : BOOLEAN]]
  /\ locker \in [Locker -> [device : Device, open : BOOLEAN] \cup {NoLocker}]
  /\ broken \in BOOLEAN /\ spent \subseteq Device /\ (spent # {} => broken)

OpenInit ==
  /\ device = [d \in Device |-> NewObject]
  /\ locker = [l \in Locker |-> NoLocker]
  /\ broken = FALSE /\ spent = {}

-----------------------------------------------------------------------------
(* fu_device_open_internal() and fu_device_close_internal() on one object.  *)
(* Each returns the object and whether the call succeeded.                  *)

\* How far an open gets: probe fails, open fails, setup fails, the device ID
\* cannot be made, or all work.  What has been done before is not done again.
Outcomes(s) ==
  IF s.refs > 0 THEN {"ok"}
  ELSE {"ok", "open", "id"} \cup (IF s.probed THEN {} ELSE {"probe"}) \cup (IF s.ready THEN {} ELSE {"setup"})

Opened(s, how) ==
  [refs |-> s.refs + 1,
   probed |-> s.probed \/ s.refs > 0 \/ how # "probe",
   ready |-> s.ready \/ (s.refs = 0 /\ how \in {"id", "ok"}),
   is_open |-> s.is_open \/ (s.refs = 0 /\ how = "ok"),
   handle |-> s.handle \/ (s.refs = 0 /\ how \in {"setup", "id", "ok"})]

\* The close vfunc is called, and can fail, when the last reference goes.
Closes(s) == s.refs = 1
Closed(s, works) ==
  [refs |-> IF s.refs = 0 THEN 0 ELSE s.refs - 1,
   probed |-> s.probed, ready |-> s.ready,
   is_open |-> s.is_open /\ ~(Closes(s) /\ works),
   handle |-> s.handle /\ ~(Closes(s) /\ works)]

-----------------------------------------------------------------------------
(* fu_device_open() and fu_device_close() on all objects.                   *)

\* An error path that tears the proxy down, whoever else uses it.
CloseAllForced(ds, d, works, proxyWorks) ==
  LET x == ProxyOf[d]
      own == [ds EXCEPT ![d] = Closed(@, works)]
  IN IF x = NoProxy THEN own
     ELSE IF Closes(ds[d]) /\ ~works THEN [own EXCEPT ![x].refs = 0, ![x].handle = FALSE, ![x].is_open = FALSE]
     ELSE [own EXCEPT ![x] = Closed(@, proxyWorks)]

\* fu_device_close(): the proxy only when closing the device has not failed.
CloseAll(ds, d, works, proxyWorks) ==
  LET x == ProxyOf[d]
      own == [ds EXCEPT ![d] = Closed(@, works)]
  IN IF (Closes(ds[d]) /\ ~works) \/ x = NoProxy THEN own ELSE [own EXCEPT ![x] = Closed(@, proxyWorks)]

\* The objects whose count it takes down.
CloseCalls(ds, d, works) == IF Closes(ds[d]) /\ ~works THEN {d} ELSE {d, ProxyOf[d]} \ {NoProxy}

\* That call returns an error.
CloseFails(ds, d, works, proxyWorks) ==
  \/ Closes(ds[d]) /\ ~works
  \/ ProxyOf[d] # NoProxy /\ Closes(ds[ProxyOf[d]]) /\ ~proxyWorks

\* fu_device_open(): the proxy first; the device only when that has worked.
OpenAll(ds, d, how, proxyHow) ==
  LET x == ProxyOf[d]
      first == IF x = NoProxy THEN ds ELSE [ds EXCEPT ![x] = Opened(@, proxyHow)]
  IN IF proxyHow # "ok" THEN first ELSE [first EXCEPT ![d] = Opened(@, how)]

-----------------------------------------------------------------------------
(* FuDeviceLocker.                                                          *)

\* The bound on references.
Room(d) == \A x \in {d, ProxyOf[d]} \ {NoProxy} : device[x].refs < MaxRefs

\* fu_device_locker_new() when both opens work.
NewLocker(l, d) ==
  /\ locker[l] = NoLocker /\ Room(d)
  /\ device' = OpenAll(device, d, "ok", "ok")
  /\ locker' = [locker EXCEPT ![l] = [device |-> d, open |-> TRUE]]
  /\ UNCHANGED <<broken, spent>>

\* The aborted open is not followed by a close, as the documentation of
\* fu_device_locker_new() has it.
AbortedOpenKept(d) ==
  \E proxyHow \in IF ProxyOf[d] = NoProxy THEN {"ok"} ELSE Outcomes(device[ProxyOf[d]]),
     how \in Outcomes(device[d]) :
    /\ proxyHow # "ok" \/ how # "ok"
    /\ device' = OpenAll(device, d, how, proxyHow)
    /\ UNCHANGED <<broken, spent, locker>>

\* fu_device_locker_new() when one of them fails: what was opened is closed
\* again, and an error of that close is ignored.
AbortedOpen(d) ==
  \E proxyHow \in IF ProxyOf[d] = NoProxy THEN {"ok"} ELSE Outcomes(device[ProxyOf[d]]),
     how \in Outcomes(device[d]), works, proxyWorks \in BOOLEAN :
    LET ds == OpenAll(device, d, how, proxyHow) IN
    /\ Room(d)
    /\ proxyHow # "ok" \/ how # "ok"
    /\ device' = CloseAll(ds, d, works, proxyWorks)
    /\ broken' = (broken \/ CloseFails(ds, d, works, proxyWorks))
    /\ UNCHANGED <<locker, spent>>

\* fu_device_locker_close(): after any error, the ignored FWUPD_ERROR_NOT_FOUND
\* included, the locker still owns the device.
LockerClose(l) ==
  /\ locker[l].open
  /\ \E works, proxyWorks \in BOOLEAN :
       LET d == locker[l].device
           failed == CloseFails(device, d, works, proxyWorks)
       IN /\ device' = CloseAll(device, d, works, proxyWorks)
          /\ locker' = [locker EXCEPT ![l].open = failed]
          /\ broken' = (broken \/ failed)
          /\ spent' = IF ~failed THEN spent ELSE spent \cup CloseCalls(device, d, works)

\* fu_device_locker_finalize()
LockerFinalize(l) ==
  /\ locker[l] # NoLocker
  /\ locker' = [locker EXCEPT ![l] = NoLocker]
  /\ IF locker[l].open
     THEN \E works, proxyWorks \in BOOLEAN :
            /\ device' = CloseAll(device, locker[l].device, works, proxyWorks)
            /\ broken' = (broken \/ CloseFails(device, locker[l].device, works, proxyWorks))
     ELSE UNCHANGED <<device, broken>>
  /\ UNCHANGED spent

\* The devices are unplugged, and new objects take their place.
Replugged ==
  /\ \A l \in Locker : locker[l] = NoLocker
  /\ device' = [d \in Device |-> NewObject]
  /\ broken' = FALSE /\ spent' = {}
  /\ UNCHANGED locker

OpenNext ==
  \/ \E l \in Locker, d \in Device : NewLocker(l, d)
  \/ \E d \in Device : AbortedOpen(d)
  \/ \E l \in Locker : LockerClose(l) \/ LockerFinalize(l)
  \/ Replugged

OpenSpec == OpenInit /\ [][OpenNext]_openVars

-----------------------------------------------------------------------------
(* Properties.                                                              *)

\* The lockers that own a device, directly or as the proxy of theirs.
Owners(d) == {l \in Locker : locker[l].open /\ d \in {locker[l].device, ProxyOf[locker[l].device]}}

\* While no close vfunc has failed, the count of an object is the number of
\* lockers that own it, whatever opens were aborted and however the lockers of
\* a device and of the devices that share its proxy are interleaved; and the
\* hardware is open exactly when somebody owns it.
OpenBalanced ==
  ~broken =>
    \A d \in Device :
      /\ device[d].refs = Cardinality(Owners(d))
      /\ device[d].handle <=> Owners(d) # {}
      /\ device[d].is_open <=> Owners(d) # {}

\* A close that fails, of a device or of a proxy, may leak a reference but does
\* not take one away: what a locker owns stays open, whichever vfuncs fail when
\* other lockers are finalized or other opens are aborted.  The exception is an
\* error of fu_device_locker_close(): the locker has given its reference back but
\* goes on to own the device, and its second close takes the reference of another
\* locker.  What it had closed is left out, with the devices behind it.
OwnedStaysOpen ==
  \A d \in Device :
    {d, ProxyOf[d]} \cap spent = {} =>
      /\ device[d].refs >= Cardinality(Owners(d))
      /\ Owners(d) # {} => device[d].handle /\ device[d].is_open

\* "Think of this object as the device ownership": the same without the exception.
AllOwnedStayOpen ==
  \A d \in Device : Owners(d) # {} => device[d].handle /\ device[d].is_open
=============================================================================
