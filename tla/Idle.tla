-------------------------------- MODULE Idle --------------------------------
(***************************************************************************)
(* The idle timer of the daemon, src/fu-idle.c.                            *)
(*                                                                         *)
(* Whoever needs the daemon to stay takes an inhibit and gets a token for  *)
(* it.  The timer runs only while nobody inhibits "timeout".  A token is a *)
(* 32-bit random number: the live ones are taken to differ.                *)
(***************************************************************************)
CONSTANT Token   \* the tokens fu_idle_inhibit draws

Inhibits == {"timeout", "signals"}   \* FuIdleInhibit

VARIABLES
  idle_items,   \* self->items: the inhibits that are held
  idle_id,      \* the timer is running
  timeout,      \* self->timeout is not zero
  inhibit_old   \* the inhibits last announced by ::inhibit-changed

idleVars == <<idle_items, idle_id, timeout, inhibit_old>>

\* An inhibit is a token and what it inhibits; the timer runs or not.
IdleTypeOK ==
  /\ idle_items \subseteq [token : Token, inhibit : SUBSET Inhibits]
  /\ idle_id \in BOOLEAN
  /\ timeout \in BOOLEAN
  /\ inhibit_old \subseteq Inhibits

\* fu_idle_has_inhibit
HasInhibit(held, inhibit) == \E it \in held : inhibit \in it.inhibit

\* fu_idle_reset, with the inhibits held and the timeout configured: the timer
\* stops, and starts again unless it may not.
TimerAfterReset(held, configured) == configured /\ ~HasInhibit(held, "timeout")

\* Mutant: a running timer is not stopped.
EmitInhibitChangedRunning(held) ==
  /\ idle_items' = held
  /\ idle_id' = (idle_id \/ TimerAfterReset(held, timeout))
  /\ inhibit_old' = UNION {it.inhibit : it \in held}
  /\ UNCHANGED timeout

\* fu_idle_emit_inhibit_changed, once the items are held
EmitInhibitChanged(held) ==
  /\ idle_items' = held
  /\ idle_id' = TimerAfterReset(held, timeout)
  /\ inhibit_old' = UNION {it.inhibit : it \in held}
  /\ UNCHANGED timeout

\* The token that fu_idle_inhibit draws: tokens are only compared with each
\* other, so it does not matter which of those that nobody holds it is.  One
\* that was given back may be drawn again.
NewToken == CHOOSE t \in Token : \A it \in idle_items : it.token # t

\* fu_idle_inhibit
Taken(token, inhibit) == idle_items \cup {[token |-> token, inhibit |-> inhibit]}

\* Mutant: every inhibit of the same strength goes.
UninhibitedAlike(token) ==
  {it \in idle_items : \A x \in idle_items : x.token = token => x.inhibit # it.inhibit}

\* fu_idle_uninhibit: an unknown token releases nothing.
Uninhibited(token) == {it \in idle_items : it.token # token}

\* fu_idle_set_timeout
SetTimeout(configured) ==
  /\ timeout' = configured
  /\ idle_id' = TimerAfterReset(idle_items, configured)
  /\ UNCHANGED <<idle_items, inhibit_old>>
=============================================================================
