----------------------------- MODULE DaemonProofs -----------------------------
(***************************************************************************)
(* Proofs about the main loop of the daemon: Daemon and the idle timer,    *)
(* for any clients and users and any depth of nested updates, and          *)
(* Acquiesce, for all delays and any number of nested waits and changes.   *)
(***************************************************************************)
EXTENDS Daemon, Acquiesce, FiniteSetTheorems, SequenceTheorems, TLAPS

\* Most leaves are first-order: Zenon proves them, SMT is named where there is
\* arithmetic or an instance of a lemma to be found.
USE Zenon

\* The inhibits of the updates on the stack, and the one the clients share.
UpdateItems ==
  {[token |-> stack[i].token, inhibit |-> {"timeout", "signals"}] : i \in 1..Len(stack)}

ClientItems ==
  IF clients_inhibit_id = NoToken THEN {}
  ELSE {[token |-> clients_inhibit_id, inhibit |-> {"timeout"}]}

\* Who holds which token: every update one of its own and the clients another,
\* and nobody else.  Without it an update could give back the inhibit of another
\* when it ends, and the properties of the idle timer are not inductive.
TokensHeld ==
  /\ stack \in Seq([token : Token, waiting : BOOLEAN])
  /\ Len(stack) <= MaxDepth
  /\ clients_inhibit_id \in Token \cup {NoToken}
  /\ clients # {} => clients_inhibit_id # NoToken
  /\ \A i, j \in 1..Len(stack) : stack[i].token = stack[j].token => i = j
  /\ \A i \in 1..Len(stack) : stack[i].token # clients_inhibit_id
  /\ idle_items = UpdateItems \cup ClientItems

\* The timer and the announced inhibits are those of the items.
TimerFollows ==
  /\ idle_id \in BOOLEAN /\ timeout \in BOOLEAN
  /\ idle_id <=> (timeout /\ ~HasInhibit(idle_items, "timeout"))
  /\ inhibit_old = UNION {it.inhibit : it \in idle_items}

HeldInv == TokensHeld /\ TimerFollows

\* The part of DaemonTypeOK that is not about inhibits.
RestTyped ==
  /\ loop \in {"running", "quit", "returned"}
  /\ started \in 0..MaxUpdates
  /\ update_in_progress \in BOOLEAN
  /\ pending_stop \in BOOLEAN
  /\ process_quit_id \in BOOLEAN
  /\ status \in Statuses
  /\ set_status_id \in BOOLEAN
  /\ set_status \in Statuses
  /\ clients \subseteq Client
  /\ requests \subseteq Requests
  /\ reply \in {"none", "ok", "failed", "busy", "daemon was stopped"}

-----------------------------------------------------------------------------
(* Tokens.                                                                   *)

\* As many holders as there may be nested updates do not use up the tokens.
LEMMA TokenLeft ==
  ASSUME NEW n \in Nat, n <= MaxDepth, NEW f \in [1..n -> Token]
  PROVE  \E t \in Token : \A i \in 1..n : f[i] # t
<1> SUFFICES ASSUME \A t \in Token : \E i \in 1..n : f[i] = t
             PROVE  FALSE
  OBVIOUS
<1>1. f \in Surjection(1..n, Token)
  BY DEF Surjection
<1>2. Cardinality(Token) <= n
  BY <1>1, FS_SurjCardinalityBound DEF ExistsSurjection
<1>3. Cardinality(Token) \in Nat /\ MaxDepth \in Nat /\ Cardinality(Token) > MaxDepth
  BY DaemonAssumption, FS_CardinalityType
<1> QED
  BY <1>2, <1>3, SMT

\* Every update on the stack has a token.
LEMMA StackTyped ==
  ASSUME TokensHeld
  PROVE  /\ Len(stack) \in Nat /\ MaxDepth \in Nat /\ Len(stack) <= MaxDepth
         /\ \A i \in 1..Len(stack) : stack[i].token \in Token /\ stack[i].token # NoToken
<1>1. MaxDepth \in Nat /\ NoToken \notin Token
  BY DaemonAssumption
<1>2. Len(stack) \in Nat /\ Len(stack) <= MaxDepth
  BY SMT DEF TokensHeld
<1>3. stack \in Seq([token : Token, waiting : BOOLEAN])
  BY DEF TokensHeld
<1>4. \A i \in 1..Len(stack) : stack[i] \in [token : Token, waiting : BOOLEAN]
  BY <1>3, ElementOfSeq
<1>5. \A i \in 1..Len(stack) : stack[i].token \in Token
  BY <1>4
<1> QED
  BY <1>1, <1>2, <1>5

\* fu_idle_inhibit draws a token that nobody holds, when the clients hold none
\* or another update may be nested.
LEMMA NewTokenFree ==
  ASSUME TokensHeld, clients_inhibit_id = NoToken \/ Len(stack) < MaxDepth
  PROVE  /\ NewToken \in Token
         /\ \A it \in idle_items : it.token # NewToken
<1> DEFINE Free(t) == \A it \in idle_items : it.token # t
<1>1. \E t \in Token : Free(t)
  <2>1. /\ Len(stack) \in Nat /\ MaxDepth \in Nat /\ Len(stack) <= MaxDepth
        /\ \A i \in 1..Len(stack) : stack[i].token \in Token
    BY StackTyped
  <2>2. CASE clients_inhibit_id = NoToken
    <3> DEFINE f == [i \in 1..Len(stack) |-> stack[i].token]
    <3>1. f \in [1..Len(stack) -> Token]
      BY <2>1
    <3>2. PICK t \in Token : \A i \in 1..Len(stack) : f[i] # t
      BY <2>1, <3>1, TokenLeft
    <3>3. \A i \in 1..Len(stack) : stack[i].token # t
      BY <3>2
    <3>4. \A it \in idle_items : \E i \in 1..Len(stack) : it.token = stack[i].token
      BY <2>2, SMT DEF TokensHeld, UpdateItems, ClientItems
    <3> QED
      BY <3>3, <3>4, SMT
  <2>3. CASE clients_inhibit_id # NoToken /\ Len(stack) < MaxDepth
    <3> DEFINE n == Len(stack) + 1
               f == [i \in 1..n |-> IF i = n THEN clients_inhibit_id ELSE stack[i].token]
    <3>1. clients_inhibit_id \in Token
      BY <2>3 DEF TokensHeld
    <3>2. n \in Nat /\ n <= MaxDepth
      BY <2>1, <2>3, SMT
    <3>3. \A i \in 1..n : i # n => i \in 1..Len(stack)
      BY <2>1, SMT
    <3>4. f \in [1..n -> Token]
      BY <2>1, <3>1, <3>3
    <3>5. PICK t \in Token : \A i \in 1..n : f[i] # t
      BY <3>2, <3>4, TokenLeft
    <3>6. \A i \in 1..Len(stack) : i \in 1..n /\ i # n
      BY <2>1, SMT
    <3>7. \A i \in 1..Len(stack) : stack[i].token # t
      BY <3>5, <3>6
    <3>8. clients_inhibit_id # t
      <4>1. n \in 1..n
        BY <2>1, SMT
      <4> QED
        BY <3>5, <4>1
    <3>9. \A it \in idle_items :
             \/ it.token = clients_inhibit_id
             \/ \E i \in 1..Len(stack) : it.token = stack[i].token
      BY SMT DEF TokensHeld, UpdateItems, ClientItems
    <3> QED
      BY <3>7, <3>8, <3>9, SMT
  <2> QED
    BY <2>2, <2>3
<1>2. NewToken = CHOOSE t \in Token : Free(t)
  BY DEF NewToken
<1> QED
  BY <1>1, <1>2

\* A token nobody holds is neither that of an update nor that of the clients.
LEMMA FreeIsNew ==
  ASSUME TokensHeld, NEW t \in Token, \A it \in idle_items : it.token # t
  PROVE  /\ \A i \in 1..Len(stack) : stack[i].token # t
         /\ t # clients_inhibit_id
<1>1. \A i \in 1..Len(stack) :
         [token |-> stack[i].token, inhibit |-> {"timeout", "signals"}] \in idle_items
  BY DEF TokensHeld, UpdateItems
<1>2. clients_inhibit_id # NoToken =>
         [token |-> clients_inhibit_id, inhibit |-> {"timeout"}] \in idle_items
  BY DEF TokensHeld, ClientItems
<1> QED
  BY <1>1, <1>2, DaemonAssumption

\* fu_idle_emit_inhibit_changed sets the timer and the announced inhibits.
LEMMA EmitFollows ==
  ASSUME TimerFollows, NEW held, EmitInhibitChanged(held)
  PROVE  TimerFollows'
BY DEF TimerFollows, EmitInhibitChanged, TimerAfterReset, HasInhibit

\* A step that leaves the stack, the clients and the idle timer alone.
LEMMA HeldKept ==
  ASSUME HeldInv, UNCHANGED <<stack, clients, clients_inhibit_id, idleVars>>
  PROVE  HeldInv'
BY DEF HeldInv, TokensHeld, TimerFollows, UpdateItems, ClientItems, HasInhibit, idleVars

-----------------------------------------------------------------------------
(* The steps that take and give back tokens.                                 *)

\* fu_client_list_register
LEMMA RegisterHeld ==
  ASSUME HeldInv, NEW c, Register(c), UNCHANGED stack
  PROVE  HeldInv'
<1>1. CASE clients_inhibit_id = NoToken
  <2> DEFINE t == NewToken
  <2>1. t \in Token /\ \A it \in idle_items : it.token # t
    BY <1>1, NewTokenFree DEF HeldInv
  <2>2. \A i \in 1..Len(stack) : stack[i].token # t
    BY <2>1, FreeIsNew DEF HeldInv
  <2>3. /\ clients_inhibit_id' = t
        /\ EmitInhibitChanged(idle_items \cup {[token |-> t, inhibit |-> {"timeout"}]})
    BY <1>1 DEF Register, Taken
  <2> HIDE DEF t
  <2>4. TimerFollows'
    BY <2>3, EmitFollows DEF HeldInv
  <2>5. t # NoToken
    BY <2>1, DaemonAssumption
  <2>6. idle_items = UpdateItems
    BY <1>1 DEF HeldInv, TokensHeld, ClientItems
  <2>7. UpdateItems' = UpdateItems /\ ClientItems' = {[token |-> t, inhibit |-> {"timeout"}]}
    BY <2>3, <2>5 DEF UpdateItems, ClientItems
  <2>8. idle_items' = UpdateItems' \cup ClientItems'
    BY <2>3, <2>6, <2>7 DEF EmitInhibitChanged
  <2>9. TokensHeld'
    BY <2>1, <2>2, <2>3, <2>5, <2>8 DEF HeldInv, TokensHeld
  <2> QED
    BY <2>4, <2>9 DEF HeldInv
<1>2. CASE clients_inhibit_id # NoToken
  BY <1>2 DEF Register, HeldInv, TokensHeld, TimerFollows, UpdateItems, ClientItems,
              HasInhibit, idleVars
<1> QED
  BY <1>1, <1>2

\* fu_client_list_sender_name_vanished_cb
LEMMA VanishHeld ==
  ASSUME HeldInv, NEW c, Vanish(c)
  PROVE  HeldInv'
<1>1. CASE clients' = {} /\ clients_inhibit_id # NoToken
  <2>1. /\ clients_inhibit_id' = NoToken /\ stack' = stack
        /\ EmitInhibitChanged(Uninhibited(clients_inhibit_id))
    BY <1>1 DEF Vanish
  <2>2. TimerFollows'
    BY <2>1, EmitFollows DEF HeldInv
  <2>3. \A i \in 1..Len(stack) : stack[i].token # clients_inhibit_id /\ stack[i].token # NoToken
    BY StackTyped DEF HeldInv, TokensHeld
  <2>4. UpdateItems' = UpdateItems /\ ClientItems' = {}
    BY <2>1 DEF UpdateItems, ClientItems
  <2>5. Uninhibited(clients_inhibit_id) = UpdateItems
    BY <1>1, <2>3, SMT DEF Uninhibited, HeldInv, TokensHeld, UpdateItems, ClientItems
  <2>6. idle_items' = UpdateItems' \cup ClientItems'
    BY <2>1, <2>4, <2>5 DEF EmitInhibitChanged
  <2>7. TokensHeld'
    BY <1>1, <2>1, <2>3, <2>6 DEF HeldInv, TokensHeld
  <2> QED
    BY <2>2, <2>7 DEF HeldInv
<1>2. CASE ~(clients' = {} /\ clients_inhibit_id # NoToken)
  <2>1. UNCHANGED <<stack, clients_inhibit_id, idleVars>> /\ clients' = clients \ {c}
    BY <1>2 DEF Vanish
  <2>2. clients' # {} => clients_inhibit_id' # NoToken
    BY <2>1 DEF HeldInv, TokensHeld
  <2> QED
    BY <2>1, <2>2 DEF HeldInv, TokensHeld, TimerFollows, UpdateItems, ClientItems,
                      HasInhibit, idleVars
<1> QED
  BY <1>1, <1>2

\* The locker of the engine is taken: the new update has a token of its own.
LEMMA BeginUpdateHeld ==
  ASSUME HeldInv, NEW c, BeginUpdate(c)
  PROVE  HeldInv' /\ stack' # <<>>
<1> DEFINE t == NewToken
           n == Len(stack)
           elt == [token |-> t, waiting |-> FALSE]
           own == [token |-> t, inhibit |-> {"timeout", "signals"}]
<1>1. /\ n < MaxDepth /\ stack' = Append(stack, elt)
      /\ EmitInhibitChanged(idle_items \cup {own})
      /\ clients' = clients /\ clients_inhibit_id' = clients_inhibit_id
  BY DEF BeginUpdate, Taken, clientVars
<1>2. t \in Token /\ \A it \in idle_items : it.token # t
  BY <1>1, NewTokenFree DEF HeldInv
<1>3. (\A i \in 1..n : stack[i].token # t) /\ t # clients_inhibit_id
  BY <1>2, FreeIsNew DEF HeldInv
<1>4. n \in Nat /\ MaxDepth \in Nat
  BY StackTyped DEF HeldInv
<1> HIDE DEF t
<1>5. elt \in [token : Token, waiting : BOOLEAN]
  BY <1>2
<1>6. stack \in Seq([token : Token, waiting : BOOLEAN])
  BY DEF HeldInv, TokensHeld
<1>7. /\ stack' \in Seq([token : Token, waiting : BOOLEAN])
      /\ stack' # <<>>
      /\ Len(stack') = n + 1
      /\ \A i \in 1..n : stack'[i] = stack[i]
      /\ stack'[n + 1] = elt
  BY <1>1, <1>5, <1>6, AppendProperties, SMT
<1>8. \A i \in 1..Len(stack') : i \in 1..n \/ i = n + 1
  BY <1>4, <1>7, SMT
<1>9. \A i \in 1..n : i \in 1..Len(stack')
  BY <1>4, <1>7, SMT
<1>10. n + 1 \in 1..Len(stack')
  BY <1>4, <1>7, SMT
<1>11. elt.token = t
  OBVIOUS
<1> HIDE DEF n, elt
<1>12. \A i \in 1..n : stack'[i].token = stack[i].token
  BY <1>7
<1>13. stack'[n + 1].token = t
  BY <1>7, <1>11
<1>14. UpdateItems' = UpdateItems \cup {own}
  <2>1. UpdateItems = {[token |-> stack[i].token, inhibit |-> {"timeout", "signals"}] : i \in 1..n}
    BY DEF UpdateItems, n
  <2> QED
    BY <1>8, <1>9, <1>10, <1>12, <1>13, <2>1 DEF UpdateItems
<1>15. ClientItems' = ClientItems
  BY <1>1 DEF ClientItems
<1>16. idle_items' = UpdateItems' \cup ClientItems'
  BY <1>1, <1>14, <1>15 DEF EmitInhibitChanged, HeldInv, TokensHeld
<1>17. \A i, j \in 1..Len(stack') : stack'[i].token = stack'[j].token => i = j
  <2>1. \A i, j \in 1..n : stack[i].token = stack[j].token => i = j
    BY DEF HeldInv, TokensHeld, n
  <2> QED
    BY <1>3, <1>8, <1>12, <1>13, <2>1
<1>18. \A i \in 1..Len(stack') : stack'[i].token # clients_inhibit_id'
  <2>1. \A i \in 1..n : stack[i].token # clients_inhibit_id
    BY DEF HeldInv, TokensHeld, n
  <2> QED
    BY <1>1, <1>3, <1>8, <1>12, <1>13, <2>1
<1>19. Len(stack') <= MaxDepth
  BY <1>1, <1>4, <1>7, SMT
<1>20. TokensHeld'
  <2>1. /\ clients_inhibit_id' \in Token \cup {NoToken}
        /\ clients' # {} => clients_inhibit_id' # NoToken
    BY <1>1 DEF HeldInv, TokensHeld
  <2> QED
    BY <1>7, <1>16, <1>17, <1>18, <1>19, <2>1 DEF TokensHeld
<1>21. TimerFollows'
  BY <1>1, EmitFollows DEF HeldInv
<1> QED
  BY <1>7, <1>20, <1>21 DEF HeldInv

\* The locker is freed: only the inhibit of the innermost update goes.
LEMMA EndUpdateHeld ==
  ASSUME HeldInv, NEW b, EndUpdate(b)
  PROVE  HeldInv'
<1> DEFINE n == Len(stack)
           R == [token : Token, waiting : BOOLEAN]
<1>1. /\ stack # <<>> /\ stack' = SubSeq(stack, 1, n - 1)
      /\ EmitInhibitChanged(Uninhibited(stack[n].token))
      /\ clients' = clients /\ clients_inhibit_id' = clients_inhibit_id
  BY DEF EndUpdate, top, clientVars
<1>2. /\ stack \in Seq(R)
      /\ \A i, j \in 1..n : stack[i].token = stack[j].token => i = j
      /\ \A i \in 1..n : stack[i].token # clients_inhibit_id
      /\ idle_items = UpdateItems \cup ClientItems
      /\ n <= MaxDepth
  BY DEF HeldInv, TokensHeld
<1>3. n \in Nat /\ n # 0 /\ MaxDepth \in Nat
  BY <1>1, <1>2, StackTyped, EmptySeq DEF HeldInv
<1>4. \A i \in 1..n : stack[i] \in R
  BY <1>2, ElementOfSeq
<1> HIDE DEF R
<1>5. /\ stack' \in Seq(R)
      /\ Len(stack') = n - 1
      /\ \A i \in 1..(n - 1) : stack'[i] = stack[i]
  <2> HIDE DEF n
  <2>1. \A i \in 1..(n - 1) : stack[i] \in R
    BY <1>3, <1>4, SMT
  <2>2. 1 \in Int /\ n - 1 \in Int
    BY <1>3, SMT
  <2>3. /\ SubSeq(stack, 1, n - 1) \in Seq(R)
        /\ Len(SubSeq(stack, 1, n - 1)) = IF 1 <= n - 1 THEN (n - 1) - 1 + 1 ELSE 0
        /\ \A i \in 1..((n - 1) - 1 + 1) : SubSeq(stack, 1, n - 1)[i] = stack[1 + i - 1]
    BY <2>1, <2>2, SubSeqProperties, SMT
  <2>4. (n - 1) - 1 + 1 = n - 1 /\ (1 <= n - 1 \/ n - 1 = 0)
    BY <1>3, SMT
  <2>5. \A i \in 1..(n - 1) : 1 + i - 1 = i
    BY <1>3, SMT
  <2> QED
    BY <1>1, <2>3, <2>4, <2>5
<1>6. \A i \in 1..n : i \in 1..(n - 1) \/ i = n
  BY <1>3, SMT
<1>7. \A i \in 1..(n - 1) : i \in 1..n /\ i # n
  BY <1>3, SMT
<1>8. n \in 1..n
  BY <1>3, SMT
<1> DEFINE own == [token |-> stack[n].token, inhibit |-> {"timeout", "signals"}]
           Rest == {[token |-> stack[i].token, inhibit |-> {"timeout", "signals"}] : i \in 1..(n - 1)}
<1>9. UpdateItems = Rest \cup {own}
  BY <1>6, <1>7, <1>8 DEF UpdateItems
<1>10. UpdateItems' = Rest
  BY <1>5 DEF UpdateItems
<1>11. \A it \in Rest : it.token # stack[n].token
  BY <1>2, <1>7, <1>8, SMT
<1>12. \A it \in ClientItems : it.token # stack[n].token
  BY <1>2, <1>8, SMT DEF ClientItems
<1>13. own.token = stack[n].token
  OBVIOUS
<1> HIDE DEF Rest, own, n
<1>14. Uninhibited(stack[n].token) = Rest \cup ClientItems
  BY <1>2, <1>9, <1>11, <1>12, <1>13 DEF Uninhibited
<1>15. ClientItems' = ClientItems
  BY <1>1 DEF ClientItems
<1>16. idle_items' = UpdateItems' \cup ClientItems'
  BY <1>1, <1>10, <1>14, <1>15 DEF EmitInhibitChanged
<1>17. \A i, j \in 1..Len(stack') : stack'[i].token = stack'[j].token => i = j
  BY <1>2, <1>5, <1>7
<1>18. \A i \in 1..Len(stack') : stack'[i].token # clients_inhibit_id'
  BY <1>1, <1>2, <1>5, <1>7
<1>19. Len(stack') <= MaxDepth
  BY <1>2, <1>3, <1>5, SMT
<1>20. TokensHeld'
  <2>1. /\ clients_inhibit_id' \in Token \cup {NoToken}
        /\ clients' # {} => clients_inhibit_id' # NoToken
    BY <1>1 DEF HeldInv, TokensHeld
  <2> QED
    BY <1>5, <1>16, <1>17, <1>18, <1>19, <2>1 DEF TokensHeld, R
<1>21. TimerFollows'
  BY <1>1, EmitFollows DEF HeldInv
<1> QED
  BY <1>20, <1>21 DEF HeldInv

\* Waiting for a device, or no longer, takes and gives back nothing.
LEMMA WaitForReplugHeld ==
  ASSUME HeldInv, NEW b \in BOOLEAN, WaitForReplug(b)
  PROVE  HeldInv' /\ stack' # <<>>
<1> DEFINE n == Len(stack)
           R == [token : Token, waiting : BOOLEAN]
           elt == [token |-> stack[n].token, waiting |-> b]
<1>1. /\ stack # <<>> /\ stack' = [stack EXCEPT ![n].waiting = b]
      /\ UNCHANGED <<clients, clients_inhibit_id, idleVars>>
  BY DEF WaitForReplug, clientVars
<1>2. stack \in Seq(R) /\ n \in Nat /\ n # 0
  BY <1>1, EmptySeq, StackTyped DEF HeldInv, TokensHeld
<1>3. n \in 1..n
  BY <1>2, SMT
<1>4. stack[n] \in R
  BY <1>2, <1>3, ElementOfSeq
<1>5. elt \in R
  BY <1>4
<1>6. stack' = [stack EXCEPT ![n] = elt]
  <2>1. [stack[n] EXCEPT !.waiting = b] = elt
    BY <1>4, SMT
  <2>2. stack' = [stack EXCEPT ![n] = [stack[n] EXCEPT !.waiting = b]]
    BY <1>1, Zenon
  <2> QED
    BY <2>1, <2>2, Zenon
<1>7. /\ stack' \in Seq(R) /\ Len(stack') = n
      /\ \A i \in 1..n : stack'[i] = IF i = n THEN elt ELSE stack[i]
  BY <1>2, <1>3, <1>5, <1>6, ExceptSeq, SMT
<1>8. \A i \in 1..n : stack'[i].token = stack[i].token
  BY <1>7, SMT
<1>9. UpdateItems' = UpdateItems /\ ClientItems' = ClientItems
  BY <1>1, <1>7, <1>8 DEF UpdateItems, ClientItems
<1> HIDE DEF elt
<1>10. TokensHeld'
  BY <1>1, <1>7, <1>8, <1>9 DEF HeldInv, TokensHeld, idleVars
<1>11. TimerFollows'
  BY <1>1 DEF HeldInv, TimerFollows, HasInhibit, idleVars
<1>12. stack' # <<>>
  BY <1>2, <1>7, EmptySeq
<1> QED
  BY <1>10, <1>11, <1>12 DEF HeldInv

-----------------------------------------------------------------------------
(* All steps.                                                                *)

LEMMA HeldStep ==
  ASSUME HeldInv, [DaemonNext]_daemonVars
  PROVE  HeldInv'
<1> USE DEF clientVars
<1>1. ASSUME NEW c \in Client, MethodInstall(c) \/ MethodInstallFails(c) PROVE HeldInv'
  BY <1>1, RegisterHeld DEF MethodInstall, MethodInstallFails
<1>2. ASSUME NEW c \in Client, BeginUpdate(c) PROVE HeldInv'
  BY <1>2, BeginUpdateHeld
<1>3. ASSUME NEW c \in Client, RefuseUpdate(c) PROVE HeldInv'
  BY <1>3, HeldKept DEF RefuseUpdate
<1>4. ASSUME NEW c \in Client, Vanish(c) PROVE HeldInv'
  BY <1>4, VanishHeld
<1>5. ASSUME NEW u \in User, MethodQuitAuthorize(u) \/ AuthorizeQuit(u) PROVE HeldInv'
  BY <1>5, HeldKept DEF MethodQuitAuthorize, AuthorizeQuit
<1>6. ASSUME NEW r \in requests, Denied(r) PROVE HeldInv'
  BY <1>6, HeldKept DEF Denied
<1>7. ASSUME NEW b \in BOOLEAN, WaitForReplug(b) \/ EndUpdate(b) PROVE HeldInv'
  BY <1>7, WaitForReplugHeld, EndUpdateHeld
<1>8. CASE Progress \/ SetStatusCb \/ MethodQuit \/ ProcessQuit
  BY <1>8, HeldKept DEF Progress, SetStatusCb, MethodQuit, ProcessQuit
<1>9. CASE StopRequested \/ IdleTimeout \/ MainReturns
  BY <1>9, HeldKept DEF StopRequested, IdleTimeout, MainReturns
<1>10. CASE ConfigReload
  <2>1. UNCHANGED <<stack, clients, clients_inhibit_id, idle_items, inhibit_old>>
    BY <1>10 DEF ConfigReload, SetTimeout
  <2>2. TokensHeld'
    BY <2>1 DEF HeldInv, TokensHeld, UpdateItems, ClientItems
  <2>3. timeout' = ~timeout /\ idle_id' = (timeout' /\ ~HasInhibit(idle_items, "timeout"))
    BY <1>10 DEF ConfigReload, SetTimeout, TimerAfterReset
  <2>4. TimerFollows'
    BY <2>1, <2>3 DEF HeldInv, TimerFollows, HasInhibit
  <2> QED
    BY <2>2, <2>4 DEF HeldInv
<1>11. ASSUME NEW b \in BOOLEAN, MethodRefused(b) PROVE HeldInv'
  BY <1>11, HeldKept DEF MethodRefused
<1>12. CASE UNCHANGED daemonVars
  BY <1>12, HeldKept DEF daemonVars
<1> QED
  BY <1>1, <1>2, <1>3, <1>4, <1>5, <1>6, <1>7, <1>8, <1>9, <1>10, <1>11, <1>12 DEF DaemonNext

\* fu_daemon_set_status keeps the types of the status and what clients see.
LEMMA SetStatusLast ==
  ASSUME RestTyped, StatusIsLast, NEW s \in Statuses, SetStatus(s),
         s = "waiting-for-auth" => requests' # {}
  PROVE  /\ status' \in Statuses /\ set_status' \in Statuses /\ set_status_id' \in BOOLEAN
         /\ StatusIsLast'
<1>1. /\ set_status' = s
      /\ set_status_id' = (status # s /\ s = "waiting-for-auth")
      /\ status' = IF s = "waiting-for-auth" THEN status ELSE s
  BY DEF SetStatus
<1>2. set_status_id' <=> (status # s /\ s = "waiting-for-auth")
  BY <1>1
<1> QED
  BY <1>1, <1>2 DEF RestTyped, StatusIsLast

\* And so does fu_dbus_daemon_auth_helper_free, whatever became of the call.
LEMMA FreeHelperLast ==
  ASSUME RestTyped, StatusIsLast, FreeHelper
  PROVE  /\ status' \in Statuses /\ set_status' \in Statuses /\ set_status_id' \in BOOLEAN
         /\ StatusIsLast'
<1>1. "idle" \in Statuses
  BY DEF Statuses
<1> QED
  BY <1>1, SetStatusLast DEF FreeHelper

\* The types, the status and the busy mark.
RestInv == RestTyped /\ StatusIsLast /\ IdleCanStop

LEMMA RestStep ==
  ASSUME HeldInv, RestInv, [DaemonNext]_daemonVars
  PROVE  RestInv'
<1> USE DEF RestInv, statusVars, clientVars
<1>1. ASSUME NEW c \in Client, MethodInstall(c) PROVE RestInv'
  <2>1. "waiting-for-auth" \in Statuses
    BY DEF Statuses
  <2>2. /\ status' \in Statuses /\ set_status' \in Statuses /\ set_status_id' \in BOOLEAN
        /\ StatusIsLast'
    BY <1>1, <2>1, SetStatusLast DEF MethodInstall
  <2>3. requests' \subseteq Requests
    <3>1. <<c, "install">> \in Requests
      BY DEF Requests
    <3>2. requests' = requests \cup {<<c, "install">>}
      BY <1>1, Zenon DEF MethodInstall
    <3> QED
      BY <3>1, <3>2 DEF RestTyped
  <2>4. clients' \subseteq Client
    BY <1>1 DEF MethodInstall, Register, RestTyped
  <2> QED
    BY <1>1, <2>2, <2>3, <2>4 DEF MethodInstall, RestTyped, IdleCanStop
<1>2. ASSUME NEW c \in Client, MethodInstallFails(c) PROVE RestInv'
  BY <1>2, FreeHelperLast DEF MethodInstallFails, Register, RestTyped, IdleCanStop
<1>3. ASSUME NEW c \in Client, BeginUpdate(c) PROVE RestInv'
  <2>1. stack' # <<>>
    BY <1>3, BeginUpdateHeld
  <2>2. started' \in 0..MaxUpdates
    <3>1. started < MaxUpdates /\ started' = started + 1 /\ started \in 0..MaxUpdates
      BY <1>3 DEF BeginUpdate, RestTyped
    <3>2. MaxUpdates \in Nat
      BY DaemonAssumption
    <3> QED
      BY <3>1, <3>2, SMT
  <2> QED
    BY <1>3, <2>1, <2>2 DEF BeginUpdate, RestTyped, StatusIsLast, IdleCanStop
<1>4. ASSUME NEW c \in Client, RefuseUpdate(c) PROVE RestInv'
  BY <1>4, FreeHelperLast DEF RefuseUpdate, Answer, RestTyped, IdleCanStop
<1>5. ASSUME NEW c \in Client, Vanish(c) PROVE RestInv'
  BY <1>5 DEF Vanish, RestTyped, StatusIsLast, IdleCanStop
<1>6. ASSUME NEW u \in User, MethodQuitAuthorize(u) PROVE RestInv'
  <2>1. "waiting-for-auth" \in Statuses
    BY DEF Statuses
  <2>2. /\ status' \in Statuses /\ set_status' \in Statuses /\ set_status_id' \in BOOLEAN
        /\ StatusIsLast'
    BY <1>6, <2>1, SetStatusLast DEF MethodQuitAuthorize
  <2>3. requests' \subseteq Requests
    <3>1. <<u, "quit">> \in Requests
      BY DEF Requests
    <3>2. requests' = requests \cup {<<u, "quit">>}
      BY <1>6, Zenon DEF MethodQuitAuthorize
    <3> QED
      BY <3>1, <3>2 DEF RestTyped
  <2> QED
    BY <1>6, <2>2, <2>3 DEF MethodQuitAuthorize, RestTyped, IdleCanStop
<1>7. ASSUME NEW u \in User, AuthorizeQuit(u) PROVE RestInv'
  BY <1>7, FreeHelperLast DEF AuthorizeQuit, ScheduleProcessQuit, RestTyped, IdleCanStop
<1>8. ASSUME NEW r \in requests, Denied(r) PROVE RestInv'
  BY <1>8, FreeHelperLast DEF Denied, RestTyped, IdleCanStop
<1>9. ASSUME NEW b \in BOOLEAN, WaitForReplug(b) PROVE RestInv'
  <2>1. stack' # <<>>
    BY <1>9, WaitForReplugHeld
  <2> QED
    BY <1>9, <2>1 DEF WaitForReplug, RestTyped, StatusIsLast, IdleCanStop
<1>10. ASSUME NEW b \in BOOLEAN, EndUpdate(b) PROVE RestInv'
  BY <1>10, FreeHelperLast DEF EndUpdate, Answer, RestTyped, IdleCanStop
<1>11. CASE Progress
  <2>1. "device-write" \in Statuses
    BY DEF Statuses
  <2>2. /\ status' \in Statuses /\ set_status' \in Statuses /\ set_status_id' \in BOOLEAN
        /\ StatusIsLast'
    BY <1>11, <2>1, SetStatusLast DEF Progress
  <2> QED
    BY <1>11, <2>2 DEF Progress, RestTyped, IdleCanStop
<1>12. CASE SetStatusCb
  <2>1. /\ status' = "waiting-for-auth" /\ set_status_id' = FALSE /\ set_status' = set_status
        /\ set_status_id /\ UNCHANGED <<requests, stack>>
    BY <1>12, Zenon DEF SetStatusCb
  <2>2. StatusIsLast'
    BY <2>1 DEF StatusIsLast
  <2>3. status' \in Statuses /\ set_status_id' \in BOOLEAN
    BY <2>1 DEF Statuses
  <2> QED
    BY <1>12, <2>2, <2>3 DEF SetStatusCb, RestTyped, IdleCanStop
<1>13. CASE MethodQuit
  BY <1>13 DEF MethodQuit, ScheduleProcessQuit, RestTyped, StatusIsLast, IdleCanStop
<1>14. CASE ProcessQuit
  BY <1>14 DEF ProcessQuit, Stop, RestTyped, StatusIsLast, IdleCanStop
<1>15. CASE IdleTimeout
  <2>1. "shutdown" \in Statuses
    BY DEF Statuses
  <2>2. /\ status' \in Statuses /\ set_status' \in Statuses /\ set_status_id' \in BOOLEAN
        /\ StatusIsLast'
    BY <1>15, <2>1, SetStatusLast DEF IdleTimeout
  <2> QED
    BY <1>15, <2>2 DEF IdleTimeout, Stop, RestTyped, IdleCanStop
<1>16. CASE MainReturns
  BY <1>16 DEF MainReturns, RestTyped, StatusIsLast, IdleCanStop
<1>17. CASE ConfigReload
  BY <1>17 DEF ConfigReload, RestTyped, StatusIsLast, IdleCanStop
<1>18. CASE StopRequested
  BY <1>18 DEF StopRequested, Stop, RestTyped, StatusIsLast, IdleCanStop
<1>19. ASSUME NEW b \in BOOLEAN, MethodRefused(b) PROVE RestInv'
  <2>1. /\ status' \in Statuses /\ set_status' \in Statuses /\ set_status_id' \in BOOLEAN
        /\ StatusIsLast'
    BY <1>19, FreeHelperLast DEF MethodRefused, RestTyped, StatusIsLast
  <2> QED
    BY <1>19, <2>1 DEF MethodRefused, RestTyped, IdleCanStop
<1>20. CASE UNCHANGED daemonVars
  BY <1>20 DEF daemonVars, RestTyped, StatusIsLast, IdleCanStop
<1> QED
  BY <1>1, <1>2, <1>3, <1>4, <1>5, <1>6, <1>7, <1>8, <1>9, <1>10, <1>11, <1>12, <1>13,
     <1>14, <1>15, <1>16, <1>17, <1>18, <1>19, <1>20 DEF DaemonNext

LEMMA DaemonInvInit == DaemonInit => HeldInv /\ RestInv
<1> SUFFICES ASSUME DaemonInit PROVE HeldInv /\ RestInv
  OBVIOUS
<1>1. UpdateItems = {} /\ ClientItems = {}
  BY SMTT(30) DEF DaemonInit, UpdateItems, ClientItems
<1>2. stack \in Seq([token : Token, waiting : BOOLEAN]) /\ Len(stack) = 0 /\ 1..Len(stack) = {}
  BY SMT DEF DaemonInit
<1>3. MaxDepth \in Nat /\ MaxUpdates \in Nat
  BY DaemonAssumption
<1>4. TokensHeld
  BY <1>1, <1>2, <1>3, SMTT(30) DEF DaemonInit, TokensHeld
<1>5. TimerFollows
  BY DEF DaemonInit, TimerFollows, HasInhibit
<1>6. RestInv
  <2>1. 0 \in 0..MaxUpdates
    BY <1>3, SMT
  <2>2. StatusIsLast /\ IdleCanStop
    BY DEF DaemonInit, StatusIsLast, IdleCanStop
  <2>3. RestTyped
    BY <2>1 DEF DaemonInit, RestTyped, Statuses
  <2> QED
    BY <2>2, <2>3 DEF RestInv
<1> QED
  BY <1>4, <1>5, <1>6 DEF HeldInv

LEMMA DaemonInvariant == DaemonSpec => [](HeldInv /\ RestInv)
<1>1. HeldInv /\ RestInv /\ [DaemonNext]_daemonVars => (HeldInv /\ RestInv)'
  BY HeldStep, RestStep
<1> QED
  BY <1>1, DaemonInvInit, PTL DEF DaemonSpec

\* What the invariant says of the idle timer and of the signals.
LEMMA HeldImplies ==
  ASSUME HeldInv, RestInv
  PROVE  DaemonTypeOK /\ IdleOnlyWhenUnused /\ SignalsHeldByUpdates
<1>1. /\ stack \in Seq([token : Token, waiting : BOOLEAN])
      /\ clients_inhibit_id \in Token \cup {NoToken}
      /\ clients # {} => clients_inhibit_id # NoToken
      /\ idle_items = UpdateItems \cup ClientItems
      /\ idle_id \in BOOLEAN /\ timeout \in BOOLEAN
      /\ idle_id => ~HasInhibit(idle_items, "timeout")
      /\ inhibit_old = UNION {it.inhibit : it \in idle_items}
  BY DEF HeldInv, TokensHeld, TimerFollows
<1>2. \A i \in 1..Len(stack) : stack[i].token \in Token
  BY StackTyped DEF HeldInv
<1>3. UpdateItems \subseteq [token : Token, inhibit : SUBSET Inhibits]
  BY <1>2, SMT DEF UpdateItems, Inhibits
<1>4. ClientItems \subseteq [token : Token, inhibit : SUBSET Inhibits]
  BY <1>1, SMT DEF ClientItems, Inhibits
<1>5. IdleTypeOK
  BY <1>1, <1>3, <1>4 DEF IdleTypeOK
<1>6. clients_inhibit_id \in {it.token : it \in idle_items} \cup {NoToken}
  <2>1. clients_inhibit_id # NoToken =>
          [token |-> clients_inhibit_id, inhibit |-> {"timeout"}] \in idle_items
    BY <1>1 DEF ClientItems
  <2>2. [token |-> clients_inhibit_id, inhibit |-> {"timeout"}].token = clients_inhibit_id
    OBVIOUS
  <2> QED
    BY <2>1, <2>2, Zenon
<1>7. DaemonTypeOK
  BY <1>1, <1>5, <1>6 DEF RestInv, RestTyped, DaemonTypeOK
<1>8. stack # <<>> => 1 \in 1..Len(stack)
  BY <1>1, EmptySeq, SMT
<1>9. stack # <<>> =>
        [token |-> stack[1].token, inhibit |-> {"timeout", "signals"}] \in idle_items
  BY <1>1, <1>8 DEF UpdateItems
<1>10. clients # {} =>
         [token |-> clients_inhibit_id, inhibit |-> {"timeout"}] \in idle_items
  BY <1>1 DEF ClientItems
<1>11. IdleOnlyWhenUnused
  BY <1>1, <1>9, <1>10 DEF IdleOnlyWhenUnused, HasInhibit
<1>12. "signals" \in inhibit_old => stack # <<>>
  <2>1. SUFFICES ASSUME "signals" \in inhibit_old PROVE stack # <<>>
    OBVIOUS
  <2>2. PICK it \in idle_items : "signals" \in it.inhibit
    BY <1>1, <2>1
  <2>3. it \in UpdateItems
    BY <1>1, <2>2, SMT DEF ClientItems
  <2>4. PICK i \in 1..Len(stack) : TRUE
    BY <2>3 DEF UpdateItems
  <2> QED
    BY <2>4, SMT
<1>13. SignalsHeldByUpdates
  BY <1>1, <1>9, <1>12, SMT DEF SignalsHeldByUpdates
<1> QED
  BY <1>7, <1>11, <1>13

\* The daemon is well typed; the token that the clients share is one the idle
\* timer knows, and so fu_client_list always gives back what it took.
THEOREM DaemonTypeCorrect == DaemonSpec => []DaemonTypeOK
BY DaemonInvariant, HeldImplies, PTL

\* The idle timer never runs while an update is on the stack or a client is
\* connected, however deep updates nest in fu_device_list_wait_for_replug.
THEOREM IdleOnlyWhenUnusedCorrect == DaemonSpec => []IdleOnlyWhenUnused
BY DaemonInvariant, HeldImplies, PTL

\* The engine suppresses signals exactly while an update is on the stack: the
\* end of a nested update does not let the signals of the outer ones through.
THEOREM SignalsHeldCorrect == DaemonSpec => []SignalsHeldByUpdates
BY DaemonInvariant, HeldImplies, PTL

\* The status that clients see is the last one fu_daemon_set_status was given,
\* or the authority is being asked and its timer runs; and it is waiting-for-auth
\* only while a call waits for the authority or an update is on the stack, because
\* each call frees its helper, denied or not.
THEOREM StatusIsLastCorrect == DaemonSpec => []StatusIsLast
BY DaemonInvariant, PTL DEF RestInv

\* A daemon with no update on its stack is not marked as updating.
THEOREM IdleCanStopCorrect == DaemonSpec => []IdleCanStop
BY DaemonInvariant, PTL DEF RestInv

-----------------------------------------------------------------------------
(* Waiting for the devices to settle.                                      *)

\* The timers are sequences, and one is attached while the loop runs.
TimerInv ==
  /\ source \in Seq(Nat) /\ stray \in Seq(Nat) /\ delay \in Nat
  /\ running => source # <<>> \/ stray # <<>>

\* No timers at all are no stray ones and no current one.
LEMMA JoinedIsEmpty ==
  ASSUME NEW s \in Seq(Nat), NEW t \in Seq(Nat)
  PROVE  s \o t = <<>> <=> s = <<>> /\ t = <<>>
  BY SMT

\* Time that passes keeps the number of the timers.
LEMMA LessKeeps ==
  ASSUME NEW s \in Seq(Nat), NEW t, t = [i \in DOMAIN s |-> Less(s[i])]
  PROVE  t \in Seq(Nat) /\ (t = <<>> <=> s = <<>>)
<1>1. \A i \in DOMAIN s : Less(s[i]) \in Nat
  BY SMT DEF Less
<1> QED
  BY <1>1, SMT

\* Taking away the timer that fired leaves a sequence of timers.
LEMMA RemovedIsSeq ==
  ASSUME NEW s \in Seq(Nat), NEW i \in 1 .. Len(s)
  PROVE  RemoveAt(s, i) \in Seq(Nat)
<1>1. SubSeq(s, 1, i - 1) \in Seq(Nat)
  <2>1. \A j \in 1 .. i - 1 : s[j] \in Nat
    BY SMT
  <2> QED
    BY <2>1, SubSeqProperties, SMT
<1>2. SubSeq(s, i + 1, Len(s)) \in Seq(Nat)
  <2>1. \A j \in i + 1 .. Len(s) : s[j] \in Nat
    BY SMT
  <2> QED
    BY <2>1, SubSeqProperties, SMT
<1>3. SubSeq(s, 1, i - 1) \o SubSeq(s, i + 1, Len(s)) \in Seq(Nat)
  BY <1>1, <1>2, ConcatProperties
<1> QED
  BY <1>3 DEF RemoveAt

\* Every step keeps the invariant: the loop stops whenever a timer fires, and
\* whatever else takes the shared pointer leaves a timer behind.
LEMMA TimerStep == TimerInv /\ [AcquiesceNext]_acquiesceVars => TimerInv'
<1> SUFFICES ASSUME TimerInv, [AcquiesceNext]_acquiesceVars PROVE TimerInv'
  OBVIOUS
<1> USE DEF TimerInv
<1>1. ASSUME NEW d \in Delay, Wait(d) PROVE TimerInv'
  <2>1. d \in Nat
    BY DelayAssumption
  <2>2. stray \o source \in Seq(Nat) /\ <<d>> \in Seq(Nat) /\ <<d>> # <<>>
    BY <2>1, SMT
  <2> QED
    BY <1>1, <2>1, <2>2 DEF Wait, Dropped
<1>2. CASE DeviceChanges
  <2>1. Reset /\ UNCHANGED <<running, stray, delay>>
    BY <1>2, Zenon DEF DeviceChanges
  <2>2. <<delay>> \in Seq(Nat) /\ <<delay>> # <<>>
    BY SMT
  <2> QED
    BY <2>1, <2>2 DEF Reset
<1>3. CASE TimerFires
  <2>1. stray' \in Seq(Nat)
    <3>1. CASE stray' = stray
      BY <3>1
    <3>2. ASSUME NEW i \in DOMAIN stray, stray' = RemoveAt(Dropped, i)
          PROVE  stray' \in Seq(Nat)
      <4>1. Dropped \in Seq(Nat) /\ Len(Dropped) = Len(stray) + Len(source)
        BY ConcatProperties DEF Dropped
      <4>2. i \in 1 .. Len(stray) /\ Len(stray) \in Nat /\ Len(source) \in Nat
        BY SMT
      <4>3. i \in 1 .. Len(Dropped)
        BY <4>1, <4>2, SMT
      <4> QED
        BY <3>2, <4>1, <4>3, RemovedIsSeq
    <3> QED
      BY <1>3, <3>1, <3>2 DEF TimerFires
  <2> QED
    BY <1>3, <2>1, SMT DEF TimerFires
<1>4. CASE Return
  BY <1>4 DEF Return
<1>5. CASE Tick
  <2>1. source' \in Seq(Nat) /\ (source' = <<>> <=> source = <<>>)
    <3>1. source' = [i \in DOMAIN source |-> Less(source[i])]
      BY <1>5, Zenon DEF Tick
    <3> QED
      BY <3>1, LessKeeps
  <2>2. stray' \in Seq(Nat) /\ (stray' = <<>> <=> stray = <<>>)
    <3>1. stray' = [i \in DOMAIN stray |-> Less(stray[i])]
      BY <1>5, Zenon DEF Tick
    <3> QED
      BY <3>1, LessKeeps, SMT
  <2> QED
    BY <1>5, <2>1, <2>2 DEF Tick
<1>6. CASE UNCHANGED acquiesceVars
  BY <1>6 DEF acquiesceVars
<1> QED
  BY <1>1, <1>2, <1>3, <1>4, <1>5, <1>6 DEF AcquiesceNext

\* While the main loop of a wait runs, some timer that will quit it is attached,
\* however deep the waits of fu_engine_wait_for_acquiesce() nest and whichever
\* timer has cleared the pointer that they share.
THEOREM RunningHasTimerCorrect == AcquiesceSpec => []RunningHasTimer
<1>1. AcquiesceInit => TimerInv
  BY SMT DEF AcquiesceInit, TimerInv
<1>2. TimerInv => RunningHasTimer
  BY JoinedIsEmpty DEF TimerInv, RunningHasTimer, Dropped
<1> QED
  BY <1>1, <1>2, TimerStep, PTL DEF AcquiesceSpec

-----------------------------------------------------------------------------
(* A wait that no other overlaps.                                            *)

Waiting == [delay : Nat, quiet : Nat]

\* The inductive invariant: the loop runs for a wait; and a wait that is alone
\* has the only timer, whose time left makes up for what its delay still lacks.
AloneInv ==
  /\ running \in BOOLEAN /\ overlap \in BOOLEAN
  /\ waits \in Seq(Waiting)
  /\ running => waits # <<>>
  /\ ~overlap =>
       /\ stray = <<>> /\ Len(waits) <= 1
       /\ running => /\ source # <<>> /\ waits[1].delay = delay
                     /\ waits[1].quiet + source[1] >= waits[1].delay

\* What a wait becomes when a device changes, and when time passes.
LEMMA WaitFields ==
  ASSUME NEW w \in Waiting, NEW q \in Nat
  PROVE  /\ [w EXCEPT !.quiet = q] \in Waiting
         /\ [w EXCEPT !.quiet = q].delay = w.delay
         /\ [w EXCEPT !.quiet = q].quiet = q
BY DEF Waiting

\* The waits on the stack.
LEMMA WaitsTyped ==
  ASSUME waits \in Seq(Waiting)
  PROVE  /\ Len(waits) \in Nat /\ DOMAIN waits = 1 .. Len(waits)
         /\ waits = <<>> <=> Len(waits) = 0
         /\ \A i \in DOMAIN waits : /\ waits[i] \in Waiting
                                    /\ waits[i].delay \in Nat /\ waits[i].quiet \in Nat
<1>1. \A w \in Waiting : w.delay \in Nat /\ w.quiet \in Nat
  BY DEF Waiting
<1> QED
  BY <1>1, SMT

\* A step that changes each wait and starts and ends none.
LEMMA SameWaits ==
  ASSUME NEW s \in Seq(Waiting), NEW t \in [DOMAIN s -> Waiting]
  PROVE  t \in Seq(Waiting) /\ Len(t) = Len(s)
<1>1. Len(s) \in Nat /\ DOMAIN s = 1 .. Len(s)
  BY SMT
<1>2. t \in [1 .. Len(s) -> Waiting]
  BY <1>1
<1>3. t \in Seq(Waiting) /\ DOMAIN t = 1 .. Len(s)
  BY <1>1, <1>2, SMT
<1> QED
  BY <1>1, <1>3, SMT

LEMMA AloneStep ==
  ASSUME TimerInv, AloneInv, [AcquiesceNext]_acquiesceVars
  PROVE  AloneInv'
<1>0. /\ source \in Seq(Nat) /\ stray \in Seq(Nat) /\ delay \in Nat
      /\ waits \in Seq(Waiting) /\ Len(waits) \in Nat
      /\ \A i \in DOMAIN waits : /\ waits[i] \in Waiting
                                 /\ waits[i].delay \in Nat /\ waits[i].quiet \in Nat
  BY WaitsTyped DEF TimerInv, AloneInv
<1>1. ASSUME NEW d \in Delay, Wait(d) PROVE AloneInv'
  <2>1. d \in Nat
    BY DelayAssumption
  <2>2. CASE d = 0
    BY <1>1, <2>2 DEF Wait, AloneInv
  <2>3. CASE d # 0
    <3> DEFINE w == [delay |-> d, quiet |-> 0]
    <3>1. w \in Waiting /\ w.delay = d /\ w.quiet = 0
      BY <2>1 DEF Waiting
    <3>2. /\ delay' = d /\ source' = <<d>> /\ running' = TRUE /\ waits' = Append(waits, w)
          /\ stray' = Dropped /\ overlap' = (overlap \/ waits # <<>> \/ Dropped # <<>>)
      BY <1>1, <2>3 DEF Wait
    <3> HIDE DEF w
    <3>3. waits' \in Seq(Waiting) /\ waits' # <<>>
      BY <1>0, <3>1, <3>2, SMTT(30)
    <3>4. overlap' \in BOOLEAN
      BY <3>2
    <3>5. ASSUME ~overlap'
          PROVE  /\ stray' = <<>> /\ Len(waits') <= 1
                 /\ source' # <<>> /\ waits'[1].delay = delay'
                 /\ waits'[1].quiet + source'[1] >= waits'[1].delay
      <4>1. waits = <<>> /\ Dropped = <<>>
        BY <3>2, <3>5
      <4>2. Len(waits') = 1 /\ waits'[1] = w
        BY <3>2, <4>1, SMT
      <4> QED
        BY <2>1, <3>1, <3>2, <4>1, <4>2, SMT
    <3> QED
      BY <3>2, <3>3, <3>4, <3>5 DEF AloneInv
  <2> QED
    BY <2>2, <2>3
<1>2. CASE DeviceChanges
  <2>1. /\ Reset /\ UNCHANGED <<running, stray, delay, overlap>>
        /\ waits' = [i \in DOMAIN waits |-> [waits[i] EXCEPT !.quiet = 0]]
    BY <1>2, Zenon DEF DeviceChanges
  <2>2. \A i \in DOMAIN waits : /\ [waits[i] EXCEPT !.quiet = 0] \in Waiting
                                /\ [waits[i] EXCEPT !.quiet = 0].delay = waits[i].delay
                                /\ [waits[i] EXCEPT !.quiet = 0].quiet = 0
    BY <1>0, WaitFields
  <2>3. /\ waits' \in Seq(Waiting) /\ Len(waits') = Len(waits)
        /\ \A i \in DOMAIN waits : waits'[i].delay = waits[i].delay /\ waits'[i].quiet = 0
    <3>1. waits' \in [DOMAIN waits -> Waiting]
      BY <2>1, <2>2
    <3>2. waits' \in Seq(Waiting) /\ Len(waits') = Len(waits)
      BY <1>0, <3>1, SameWaits
    <3> QED
      BY <2>1, <2>2, <3>2, Zenon
  <2>4. waits # <<>> => waits' # <<>> /\ 1 \in DOMAIN waits
    BY <1>0, <2>3, SMT
  <2>5. ASSUME running PROVE source' # <<>> /\ source'[1] = delay
    BY <2>1, <2>5, SMT DEF Reset
  <2> QED
    BY <1>0, <2>1, <2>3, <2>4, <2>5, SMT DEF AloneInv
<1>3. CASE TimerFires
  <2>1. running' = FALSE /\ waits' = waits /\ overlap' = (overlap /\ (waits # <<>> \/ stray' # <<>>))
    BY <1>3 DEF TimerFires
  <2>2. overlap' \in BOOLEAN
    BY <2>1
  <2>3. ASSUME ~overlap' PROVE stray' = <<>> /\ Len(waits) <= 1
    <3>1. CASE overlap
      <4>1. waits = <<>> /\ stray' = <<>>
        BY <2>1, <2>3, <3>1, Zenon
      <4> QED
        BY <4>1, SMT
    <3>2. CASE ~overlap
      BY <1>3, <3>2, SMT DEF TimerFires, AloneInv
    <3> QED
      BY <3>1, <3>2
  <2> QED
    BY <2>1, <2>2, <2>3 DEF AloneInv
<1>4. CASE Return
  <2>1. /\ waits # <<>> /\ ~running /\ waits' = SubSeq(waits, 1, Len(waits) - 1)
        /\ overlap' = (overlap /\ (Len(waits) > 1 \/ Dropped # <<>>))
        /\ UNCHANGED <<running, source, stray>>
    BY <1>4 DEF Return, Front
  <2>2. Len(waits) >= 1
    BY <1>0, <2>1, SMT
  <2>3. waits' \in Seq(Waiting) /\ Len(waits') = Len(waits) - 1
    <3>1. \A i \in 1 .. Len(waits) - 1 : waits[i] \in Waiting
      BY <1>0, SMT
    <3> DEFINE n == Len(waits) - 1
    <3>2. n \in Int /\ n >= 0
      BY <1>0, <2>2, SMT
    <3> HIDE DEF n
    <3>3. /\ SubSeq(waits, 1, n) \in Seq(Waiting)
          /\ Len(SubSeq(waits, 1, n)) = IF 1 <= n THEN n - 1 + 1 ELSE 0
      <4>1. \A i \in 1 .. n : waits[i] \in Waiting
        BY <3>1 DEF n
      <4> QED
        BY <3>2, <4>1, SubSeqProperties, SMT
    <3>4. Len(SubSeq(waits, 1, n)) = n
      BY <3>2, <3>3, SMT
    <3> QED
      BY <2>1, <3>3, <3>4 DEF n
  <2>4. overlap' \in BOOLEAN
    BY <2>1
  <2>5. ASSUME ~overlap' PROVE stray' = <<>> /\ Len(waits') <= 1
    <3>1. CASE overlap
      <4>1. ~(Len(waits) > 1) /\ Dropped = <<>>
        BY <2>1, <2>5, <3>1, Zenon
      <4> QED
        BY <1>0, <2>1, <2>3, <4>1, JoinedIsEmpty, SMT DEF Dropped
    <3>2. CASE ~overlap
      BY <1>0, <2>1, <2>3, <3>2, SMT DEF AloneInv
    <3> QED
      BY <3>1, <3>2
  <2> QED
    BY <2>1, <2>3, <2>4, <2>5 DEF AloneInv
<1>5. CASE Tick
  <2> DEFINE q(i) == IF waits[i].quiet < waits[i].delay THEN waits[i].quiet + 1 ELSE waits[i].quiet
  <2>1. /\ source' = [i \in DOMAIN source |-> Less(source[i])]
        /\ stray' = [i \in DOMAIN stray |-> Less(stray[i])]
        /\ waits' = [i \in DOMAIN waits |-> [waits[i] EXCEPT !.quiet = q(i)]]
        /\ UNCHANGED <<running, delay, overlap>>
    BY <1>5, Zenon DEF Tick
  <2>2. \A i \in DOMAIN waits : q(i) \in Nat
    BY <1>0, SMT
  <2>3. \A i \in DOMAIN waits : /\ [waits[i] EXCEPT !.quiet = q(i)] \in Waiting
                                /\ [waits[i] EXCEPT !.quiet = q(i)].delay = waits[i].delay
                                /\ [waits[i] EXCEPT !.quiet = q(i)].quiet = q(i)
    <3> HIDE DEF q
    <3> QED
      BY <1>0, <2>2, WaitFields
  <2>4. /\ waits' \in Seq(Waiting) /\ Len(waits') = Len(waits)
        /\ \A i \in DOMAIN waits : waits'[i].delay = waits[i].delay /\ waits'[i].quiet = q(i)
    <3> HIDE DEF q
    <3>1. waits' \in [DOMAIN waits -> Waiting]
      BY <2>1, <2>3
    <3>2. waits' \in Seq(Waiting) /\ Len(waits') = Len(waits)
      BY <1>0, <3>1, SameWaits
    <3> QED
      BY <2>1, <2>3, <3>2, Zenon
  <2>5. waits # <<>> => waits' # <<>> /\ 1 \in DOMAIN waits
    BY <1>0, <2>4, SMT
  <2>6. stray = <<>> => stray' = <<>>
    BY <1>0, <2>1, LessKeeps, SMT
  <2>7. ASSUME source # <<>>
        PROVE  source' # <<>> /\ source'[1] = Less(source[1]) /\ source[1] \in Nat
    BY <1>0, <2>1, <2>7, SMT
  <2>8. ASSUME ~overlap, running
        PROVE  /\ source' # <<>> /\ waits'[1].delay = delay'
               /\ waits'[1].quiet + source'[1] >= waits'[1].delay
    <3>1. /\ source # <<>> /\ waits[1].delay = delay /\ 1 \in DOMAIN waits
          /\ waits[1].quiet + source[1] >= waits[1].delay
      BY <2>5, <2>8 DEF AloneInv
    <3>2. q(1) + Less(source[1]) >= waits[1].delay
      BY <1>0, <2>7, <3>1, SMT DEF Less
    <3> QED
      BY <2>1, <2>4, <2>7, <3>1, <3>2
  <2> QED
    BY <2>1, <2>4, <2>5, <2>6, <2>8 DEF AloneInv
<1>6. CASE UNCHANGED acquiesceVars
  BY <1>6 DEF acquiesceVars, AloneInv
<1> QED
  BY <1>1, <1>2, <1>3, <1>4, <1>5, <1>6 DEF AcquiesceNext

\* A wait that no other overlaps, and that no timer of an earlier one can end,
\* ends only after no device has changed for its whole delay: for all delays and
\* any number of waits and changes before it.
THEOREM QuietWhenAloneCorrect == AcquiesceSpec => QuietWhenAlone
<1>1. AcquiesceInit => TimerInv /\ AloneInv
  <2> SUFFICES ASSUME AcquiesceInit PROVE TimerInv /\ AloneInv
    OBVIOUS
  <2>1. running = FALSE /\ overlap = FALSE /\ stray = <<>> /\ source = <<>> /\ delay = 0
    BY DEF AcquiesceInit
  <2>2. waits = <<>> /\ waits \in Seq(Waiting) /\ Len(waits) <= 1
    BY SMT DEF AcquiesceInit
  <2>3. source \in Seq(Nat) /\ stray \in Seq(Nat)
    BY <2>1, SMT
  <2> QED
    BY <2>1, <2>2, <2>3 DEF TimerInv, AloneInv
<1>2. TimerInv /\ AloneInv /\ [AcquiesceNext]_acquiesceVars => (TimerInv /\ AloneInv)'
  BY TimerStep, AloneStep
<1>3. TimerInv /\ AloneInv /\ [AcquiesceNext]_acquiesceVars
        => [running /\ ~running' /\ ~overlap => Last(waits).quiet >= Last(waits).delay]_acquiesceVars
  <2> SUFFICES ASSUME TimerInv, AloneInv, AcquiesceNext, running, ~running', ~overlap
               PROVE  Last(waits).quiet >= Last(waits).delay
    OBVIOUS
  <2>1. TimerFires
    <3>1. ASSUME NEW d \in Delay, Wait(d) PROVE FALSE
      BY <3>1 DEF Wait
    <3>2. ~DeviceChanges /\ ~Return /\ ~Tick
      BY DEF DeviceChanges, Return, Tick
    <3> QED
      BY <3>1, <3>2 DEF AcquiesceNext
  <2>0. waits \in Seq(Waiting) /\ waits # <<>> /\ Len(waits) <= 1
    BY DEF AloneInv
  <2>2. /\ stray = <<>> /\ Len(waits) = 1 /\ 1 \in DOMAIN waits
        /\ waits[1].quiet + source[1] >= waits[1].delay
    BY <2>0, WaitsTyped, SMT DEF AloneInv
  <2>3. source = <<0>>
    BY <2>1, <2>2, SMT DEF TimerFires
  <2>4. waits[1].quiet \in Nat /\ waits[1].delay \in Nat
    BY <2>0, <2>2, WaitsTyped
  <2>5. waits[1].quiet >= waits[1].delay
    BY <2>2, <2>3, <2>4, SMT
  <2> QED
    BY <2>2, <2>5 DEF Last
<1> QED
  BY <1>1, <1>2, <1>3, PTL DEF AcquiesceSpec, QuietWhenAlone
=============================================================================
