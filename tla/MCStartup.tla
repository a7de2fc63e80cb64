----------------------------- MODULE MCStartup -----------------------------
(***************************************************************************)
(* What the daemon loads when it starts: the history database, the plugins *)
(* and the remotes.  The three do not interact, so that a behaviour is one *)
(* of one of them, while the others stay as they are at first.             *)
(***************************************************************************)
EXTENDS HistoryMigration, PluginList, RemoteList

VARIABLE part   \* the component that takes the steps

\* Three plugins are loaded, and one that is named in rules is not.
SomePlugin == {"a", "b", "c", "absent"}
SomeLoaded == <<"b", "a", "c">>
SomePair == {r \in {"a", "b", "c"} \X {"a", "b", "c"} : r[1] # r[2]}
UpToThree(S) == {{}} \cup {{p, q, r} : p, q, r \in S}
AsRules(S) ==
  [k \in {"after", "before", "better", "conflicts"} |-> {r \in Rule : <<k, r>> \in S}]

\* Up to three rules about the order, the priorities or the conflicts, and one
\* of each with a plugin that is not loaded.
SomeRules ==
  {AsRules(S) : S \in UpToThree({"after", "before"} \X SomePair)
                      \cup UpToThree({"better"} \X SomePair)
                      \cup UpToThree({"conflicts"} \X SomePair)
                      \cup {{<<"after", p>>, <<"better", q>>, <<"before", <<"a", "absent">>>>} : p, q \in SomePair}}

\* A remote that may be in both directories, and one in the second.
SomeRemote == <<"r1", "r2">>
SomeDir == <<"mutable", "sysconf">>
SomeSlot == {<<"mutable", "r1">>, <<"sysconf", "r1">>, <<"sysconf", "r2">>}
File(good, setup, v, b, a) == [good |-> good, setup |-> setup, value |-> v, before |-> b, after |-> a]
SomeContent ==
  {File(FALSE, FALSE, 1, {}, {}), File(TRUE, FALSE, 1, {}, {}), File(TRUE, TRUE, 1, {}, {}), File(TRUE, TRUE, 2, {}, {}),
   File(TRUE, TRUE, 1, {"r1"}, {}), File(TRUE, TRUE, 1, {}, {"r1", "r2"})}

StartupInit ==
  /\ part \in {"history", "plugins", "remotes"}
  /\ MigrationInit /\ (part # "history" => origin = 0)
  /\ PluginInit /\ disabled \in {{}, {"a"}, {"b"}}
  /\ part # "plugins" => disabled = {} /\ rules = AsRules({})
  /\ RemoteInit /\ (part # "remotes" => dirs = {})

StartupNext ==
  /\ \/ part = "history" /\ MigrationNext /\ UNCHANGED <<pluginVars, remoteVars>>
     \/ part = "plugins" /\ PluginNext /\ UNCHANGED <<migrationVars, remoteVars>>
     \/ part = "remotes" /\ RemoteNext /\ UNCHANGED <<migrationVars, pluginVars>>
  /\ UNCHANGED part

StartupSpec == StartupInit /\ [][StartupNext]_<<part, migrationVars, pluginVars, remoteVars>>
=============================================================================
