------------------------------- MODULE Daemon -------------------------------
(***************************************************************************)
(* The life of the daemon: src/fu-daemon.c, the D-Bus methods that start   *)
(* updates and stop the daemon, the list of connected clients and the      *)
(* signal handlers of src/fu-main.c, composed with the idle timer.         *)
(*                                                                         *)
(* There is one thread.  A callback runs when the main loop dispatches it, *)
(* and also when an update waits for a device, because the wait iterates   *)
(* the same main context; a method call that starts another update then    *)
(* nests inside the first.  g_main_loop_quit() ends fu_daemon_start() only *)
(* after the callback that is running, with all that it nests.             *)
(*                                                                         *)
(* What an update does to devices is in EngineInstall; here it is busy or  *)
(* waiting, and returns.  Methods that neither start an update nor stop    *)
(* the daemon, lookups that wait before an update begins, percentages and  *)
(* housekeeping are left out.                                              *)
(***************************************************************************)
EXTENDS Idle, Sequences, Naturals, FiniteSets

CONSTANTS Client,      \* D-Bus clients that install
          User,        \* users whose Quit has to be authorized
          NoToken,     \* clients_inhibit_id is zero
          MaxUpdates,  \* bound: how many updates are started
          MaxDepth     \* bound: how deep they nest

\* There is a token for the clients and for each update that may be nested, as
\* there is among the 2^32 that fu_idle_inhibit draws from.
ASSUME DaemonAssumption ==
  /\ NoToken \notin Token
  /\ IsFiniteSet(Token)
  /\ Cardinality(Token) > MaxDepth
  /\ MaxUpdates \in Nat
  /\ MaxDepth \in Nat

Requests == (Client \X {"install"}) \cup (User \X {"quit"})

Statuses == {"idle", "waiting-for-auth", "device-write", "shutdown"}

VARIABLES
  loop,               \* "running", "quit" by g_main_loop_quit(), or "returned"
  stack,              \* the updates in progress, the innermost last
  started,            \* the number of updates started
  update_in_progress,
  pending_stop,
  process_quit_id,    \* the idle source that stops the daemon is attached
  status,             \* the last status emitted
  set_status_id,      \* the timer that emits waiting-for-auth is running
  set_status,         \* the last status fu_daemon_set_status() was called with
  clients,            \* self->client_list
  clients_inhibit_id,
  requests,           \* the calls that wait for the authority to answer
  reply               \* what the last step answered a client

statusVars == <<status, set_status_id, set_status>>
clientVars == <<clients, clients_inhibit_id>>
daemonVars == <<loop, stack, started, update_in_progress, pending_stop,
                process_quit_id, statusVars, clientVars, requests, reply, idleVars>>

\* The state after fu_daemon_setup: the idle timeout is configured or not.
DaemonInit ==
  /\ idle_items = {}
  /\ timeout \in BOOLEAN
  /\ idle_id = timeout
  /\ inhibit_old = {}
  /\ loop = "running"
  /\ stack = <<>>
  /\ started = 0
  /\ update_in_progress = FALSE
  /\ pending_stop = FALSE
  /\ process_quit_id = FALSE
  /\ status = "idle"
  /\ set_status_id = FALSE
  /\ set_status = "idle"
  /\ clients = {}
  /\ clients_inhibit_id = NoToken
  /\ requests = {}
  /\ reply = "none"
-----------------------------------------------------------------------------
top == stack[Len(stack)]

\* A callback is dispatched: by the main loop, or by the innermost update
\* while it waits.
Dispatch ==
  IF stack = <<>> THEN loop = "running" ELSE top.waiting

\* fu_daemon_set_status
SetStatus(s) ==
  /\ set_status' = s
  /\ set_status_id' = (status # s /\ s = "waiting-for-auth")
  /\ status' = IF s = "waiting-for-auth" THEN status ELSE s

\* fu_dbus_daemon_auth_helper_free: "always return to IDLE even in event of an auth
\* error".  Each method that asks the authority frees its helper when it answers.
FreeHelper == SetStatus("idle")

\* fu_daemon_set_status_cb
SetStatusCb ==
  /\ Dispatch
  /\ set_status_id
  /\ set_status_id' = FALSE
  /\ status' = "waiting-for-auth"
  /\ reply' = "none"
  /\ UNCHANGED <<loop, stack, started, update_in_progress, pending_stop,
                 process_quit_id, set_status, clientVars, requests, idleVars>>
-----------------------------------------------------------------------------
(* The clients *)

\* fu_client_list_register: the first client inhibits the idle timeout.
Register(c) ==
  /\ clients' = clients \cup {c}
  /\ IF clients_inhibit_id = NoToken
     THEN /\ clients_inhibit_id' = NewToken
          /\ EmitInhibitChanged(Taken(NewToken, {"timeout"}))
     ELSE UNCHANGED <<clients_inhibit_id, idleVars>>

\* Mutant: the token is kept after it was given back.
VanishKeepsToken(c) ==
  /\ Dispatch
  /\ c \in clients
  /\ clients' = clients \ {c}
  /\ IF clients' = {} /\ clients_inhibit_id # NoToken
     THEN EmitInhibitChanged(Uninhibited(clients_inhibit_id))
     ELSE UNCHANGED idleVars
  /\ reply' = "none"
  /\ UNCHANGED <<loop, stack, started, update_in_progress, pending_stop,
                 process_quit_id, statusVars, clients_inhibit_id, requests>>

\* fu_client_list_sender_name_vanished_cb: the last client lets go.
Vanish(c) ==
  /\ Dispatch
  /\ c \in clients
  /\ clients' = clients \ {c}
  /\ IF clients' = {} /\ clients_inhibit_id # NoToken
     THEN /\ EmitInhibitChanged(Uninhibited(clients_inhibit_id))
          /\ clients_inhibit_id' = NoToken
     ELSE UNCHANGED <<clients_inhibit_id, idleVars>>
  /\ reply' = "none"
  /\ UNCHANGED <<loop, stack, started, update_in_progress, pending_stop,
                 process_quit_id, statusVars, requests>>
-----------------------------------------------------------------------------
(* Updates *)

\* fu_dbus_daemon_method_install, fu_dbus_daemon_method_write_blob: the client
\* is tracked and the authority is asked.
MethodInstall(c) ==
  /\ Dispatch
  /\ <<c, "install">> \notin requests
  /\ Register(c)
  /\ SetStatus("waiting-for-auth")
  /\ requests' = requests \cup {<<c, "install">>}
  /\ reply' = "none"
  /\ UNCHANGED <<loop, stack, started, update_in_progress, pending_stop,
                 process_quit_id>>

\* fu_engine_installer_build finds nothing to install.
MethodInstallFails(c) ==
  /\ Dispatch
  /\ Register(c)
  /\ FreeHelper
  /\ reply' = "failed"
  /\ UNCHANGED <<loop, stack, started, update_in_progress, pending_stop,
                 process_quit_id, requests>>

\* The client is not tracked yet: the install has no stream, or the blob method no
\* device that is a programmer target, for which there is no helper to free.
MethodRefused(helper) ==
  /\ Dispatch
  /\ IF helper THEN FreeHelper ELSE UNCHANGED statusVars
  /\ reply' = "failed"
  /\ UNCHANGED <<loop, stack, started, update_in_progress, pending_stop,
                 process_quit_id, clientVars, requests, idleVars>>

\* Mutant: a call that is not authorized leaves the status alone.
DeniedQuietly(r) ==
  /\ Dispatch
  /\ r \in requests
  /\ requests' = requests \ {r}
  /\ reply' = "failed"
  /\ UNCHANGED <<loop, stack, started, update_in_progress, pending_stop,
                 process_quit_id, statusVars, clientVars, idleVars>>

\* The authority says no, or the stream of a blob cannot be read.
Denied(r) ==
  /\ Dispatch
  /\ r \in requests
  /\ requests' = requests \ {r}
  /\ FreeHelper
  /\ reply' = "failed"
  /\ UNCHANGED <<loop, stack, started, update_in_progress, pending_stop,
                 process_quit_id, clientVars, idleVars>>

\* fu_dbus_daemon_authorize_install_queue, fu_dbus_daemon_authorize_write_blob_cb
\* as far as the locker of the engine.
BeginUpdate(c) ==
  /\ Dispatch
  /\ <<c, "install">> \in requests
  /\ started < MaxUpdates
  /\ Len(stack) < MaxDepth
  /\ started' = started + 1
  /\ requests' = requests \ {<<c, "install">>}
  /\ update_in_progress' = TRUE
  /\ stack' = Append(stack, [token |-> NewToken, waiting |-> FALSE])
  /\ EmitInhibitChanged(Taken(NewToken, {"timeout", "signals"}))
  /\ reply' = "none"
  /\ UNCHANGED <<loop, pending_stop, process_quit_id, statusVars, clientVars>>

\* The answer of a method whose update has ended.
Answer(succeeded) ==
  IF ~succeeded THEN "failed"
  ELSE IF pending_stop THEN "daemon was stopped"
  ELSE "ok"

\* fu_engine_write_blob_for_device_id returns before it takes the locker: the
\* device is gone, locked or not updatable.
RefuseUpdate(c) ==
  /\ Dispatch
  /\ <<c, "install">> \in requests
  /\ requests' = requests \ {<<c, "install">>}
  /\ update_in_progress' = FALSE
  /\ reply' = Answer(FALSE)
  /\ FreeHelper
  /\ UNCHANGED <<loop, stack, started, pending_stop, process_quit_id, clientVars,
                 idleVars>>

\* The update writes, and its progress sets the status.
Progress ==
  /\ stack # <<>>
  /\ ~top.waiting
  /\ SetStatus("device-write")
  /\ reply' = "none"
  /\ UNCHANGED <<loop, stack, started, update_in_progress, pending_stop,
                 process_quit_id, clientVars, requests, idleVars>>

\* fu_device_list_wait_for_replug iterates the main context, and is done.
WaitForReplug(waiting) ==
  /\ stack # <<>>
  /\ top.waiting # waiting
  /\ stack' = [stack EXCEPT ![Len(stack)].waiting = waiting]
  /\ reply' = "none"
  /\ UNCHANGED <<loop, started, update_in_progress, pending_stop, process_quit_id,
                 statusVars, clientVars, requests, idleVars>>

\* Mutant: an update that failed leaves the daemon marked as busy.
EndUpdateBusy(succeeded) ==
  /\ stack # <<>>
  /\ ~top.waiting
  /\ stack' = SubSeq(stack, 1, Len(stack) - 1)
  /\ EmitInhibitChanged(Uninhibited(top.token))
  /\ update_in_progress' = ~succeeded
  /\ reply' = Answer(succeeded)
  /\ FreeHelper
  /\ UNCHANGED <<loop, started, pending_stop, process_quit_id, clientVars, requests>>

\* The update returns: the locker is freed, the method answers and frees its helper.
EndUpdate(succeeded) ==
  /\ stack # <<>>
  /\ ~top.waiting
  /\ stack' = SubSeq(stack, 1, Len(stack) - 1)
  /\ EmitInhibitChanged(Uninhibited(top.token))
  /\ update_in_progress' = FALSE
  /\ reply' = Answer(succeeded)
  /\ FreeHelper
  /\ UNCHANGED <<loop, started, pending_stop, process_quit_id, clientVars, requests>>
-----------------------------------------------------------------------------
(* Stopping *)

\* fu_daemon_stop
Stop ==
  IF update_in_progress
  THEN pending_stop' = TRUE /\ UNCHANGED loop
  ELSE /\ loop' = IF loop = "running" THEN "quit" ELSE loop
       /\ UNCHANGED pending_stop

\* SIGTERM, a changed binary, low memory, the bus name lost.
StopRequested ==
  /\ Dispatch
  /\ Stop
  /\ reply' = "none"
  /\ UNCHANGED <<stack, started, update_in_progress, process_quit_id, statusVars,
                 clientVars, requests, idleVars>>

\* fu_idle_check_cb, fu_engine_idle_timeout_cb and the status-changed handler
IdleTimeout ==
  /\ Dispatch
  /\ idle_id
  /\ SetStatus("shutdown")
  /\ Stop
  /\ reply' = "none"
  /\ UNCHANGED <<stack, started, update_in_progress, process_quit_id, clientVars,
                 requests, idleVars>>

\* fu_daemon_schedule_process_quit
ScheduleProcessQuit ==
  IF update_in_progress
  THEN reply' = "busy" /\ UNCHANGED process_quit_id
  ELSE reply' = "ok" /\ process_quit_id' = TRUE

\* fu_dbus_daemon_method_quit of a trusted user
MethodQuit ==
  /\ Dispatch
  /\ ScheduleProcessQuit
  /\ UNCHANGED <<loop, stack, started, update_in_progress, pending_stop, statusVars,
                 clientVars, requests, idleVars>>

\* fu_dbus_daemon_method_quit of another user, who is not tracked
MethodQuitAuthorize(u) ==
  /\ Dispatch
  /\ <<u, "quit">> \notin requests
  /\ SetStatus("waiting-for-auth")
  /\ requests' = requests \cup {<<u, "quit">>}
  /\ reply' = "none"
  /\ UNCHANGED <<loop, stack, started, update_in_progress, pending_stop,
                 process_quit_id, clientVars, idleVars>>

\* fu_dbus_daemon_authorize_quit_cb
AuthorizeQuit(u) ==
  /\ Dispatch
  /\ <<u, "quit">> \in requests
  /\ requests' = requests \ {<<u, "quit">>}
  /\ ScheduleProcessQuit
  /\ FreeHelper
  /\ UNCHANGED <<loop, stack, started, update_in_progress, pending_stop, clientVars,
                 idleVars>>

\* Mutant: a quit that meets an update is dropped.
ProcessQuitDropped ==
  /\ Dispatch
  /\ process_quit_id
  /\ process_quit_id' = FALSE
  /\ IF update_in_progress THEN UNCHANGED <<loop, pending_stop>> ELSE Stop
  /\ reply' = "none"
  /\ UNCHANGED <<stack, started, update_in_progress, statusVars, clientVars, requests,
                 idleVars>>

\* fu_daemon_schedule_process_quit_cb
ProcessQuit ==
  /\ Dispatch
  /\ process_quit_id
  /\ process_quit_id' = FALSE
  /\ Stop
  /\ reply' = "none"
  /\ UNCHANGED <<stack, started, update_in_progress, statusVars, clientVars, requests,
                 idleVars>>

\* Mutant: the daemon first waits for the authority.
MainReturnsDrained ==
  /\ loop = "quit"
  /\ stack = <<>>
  /\ requests = {}
  /\ loop' = "returned"
  /\ reply' = "none"
  /\ UNCHANGED <<stack, started, update_in_progress, pending_stop, process_quit_id,
                 statusVars, clientVars, requests, idleVars>>

\* fu_daemon_start: g_main_loop_run() returns.
MainReturns ==
  /\ loop = "quit"
  /\ stack = <<>>
  /\ loop' = "returned"
  /\ reply' = "none"
  /\ UNCHANGED <<stack, started, update_in_progress, pending_stop, process_quit_id,
                 statusVars, clientVars, requests, idleVars>>

\* fu_engine_config_reload: IdleTimeout is changed.
ConfigReload ==
  /\ Dispatch
  /\ SetTimeout(~timeout)
  /\ reply' = "none"
  /\ UNCHANGED <<loop, stack, started, update_in_progress, pending_stop,
                 process_quit_id, statusVars, clientVars, requests>>
-----------------------------------------------------------------------------
DaemonNext ==
  \/ \E c \in Client : \/ MethodInstall(c) \/ MethodInstallFails(c)
                       \/ BeginUpdate(c) \/ RefuseUpdate(c) \/ Vanish(c)
  \/ \E u \in User : MethodQuitAuthorize(u) \/ AuthorizeQuit(u)
  \/ \E r \in requests : Denied(r)
  \/ \E b \in BOOLEAN : MethodRefused(b)
  \/ \E b \in BOOLEAN : WaitForReplug(b) \/ EndUpdate(b)
  \/ Progress \/ SetStatusCb
  \/ MethodQuit \/ ProcessQuit
  \/ StopRequested \/ IdleTimeout \/ ConfigReload
  \/ MainReturns

DaemonSpec == DaemonInit /\ [][DaemonNext]_daemonVars

\* An update ends: each wait times out and each phase returns.  A source that
\* is ready is dispatched, and the main loop returns once it was told to.
DaemonLiveSpec ==
  /\ DaemonSpec
  /\ WF_daemonVars(WaitForReplug(FALSE))
  /\ SF_daemonVars(\E b \in BOOLEAN : EndUpdate(b))
  /\ SF_daemonVars(ProcessQuit)
  /\ WF_daemonVars(MainReturns)
-----------------------------------------------------------------------------
(* Properties *)

\* The state of the daemon; the inhibit that the connected clients share is one
\* that the idle timer knows, or none (fu_client_list, clients_inhibit_id).
DaemonTypeOK ==
  /\ IdleTypeOK
  /\ loop \in {"running", "quit", "returned"}
  /\ stack \in Seq([token : Token, waiting : BOOLEAN])
  /\ started \in 0..MaxUpdates
  /\ update_in_progress \in BOOLEAN
  /\ pending_stop \in BOOLEAN
  /\ process_quit_id \in BOOLEAN
  /\ status \in Statuses
  /\ set_status_id \in BOOLEAN
  /\ set_status \in Statuses
  /\ clients \subseteq Client
  /\ clients_inhibit_id \in {it.token : it \in idle_items} \cup {NoToken}
  /\ requests \subseteq Requests
  /\ reply \in {"none", "ok", "failed", "busy", "daemon was stopped"}

\* The idle timer never runs while an update is on the stack, however the
\* updates nest and the clients come and go, nor while a client is connected.
IdleOnlyWhenUnused == idle_id => stack = <<>> /\ clients = {}

\* The engine suppresses signals exactly while an update is on the stack: each
\* update takes its own inhibit and gives back that one.
SignalsHeldByUpdates == ("signals" \in inhibit_old) <=> (stack # <<>>)

\* The status that clients see is the last one that was set; it lags behind
\* only while the authority is asked and its 250 ms have not passed.  And nobody is
\* left waiting for an authorization that no call asks for: "always return to IDLE
\* even in event of an auth error" (fu_dbus_daemon_auth_helper_free).
StatusIsLast ==
  /\ IF set_status_id THEN set_status = "waiting-for-auth" ELSE status = set_status
  /\ set_status = "waiting-for-auth" => requests # {} \/ stack # <<>>

\* The daemon is never told to quit while an update is on the stack.
StopSparesUpdates ==
  [][loop = "running" /\ loop' = "quit" => stack = <<>>]_daemonVars

\* A daemon that is not updating is not marked as updating: it can be stopped.
IdleCanStop == stack = <<>> => ~update_in_progress

\* A Quit that was accepted is carried out, or finds an update that began
\* between the reply and the idle callback and is left to wait for it.
QuitCarriedOut == process_quit_id ~> (loop # "running" \/ pending_stop)

\* A daemon that was told to quit returns.
QuitReturns == (loop = "quit") ~> (loop = "returned")

\* A stop that was put off until the update is over happens then.
StopHonoured == pending_stop ~> (loop # "running")

\* A Quit that arrives during an update takes effect after it.
QuitAfterUpdate == (reply = "busy") ~> (loop # "running")
=============================================================================
