----------------------------- MODULE PluginList -----------------------------
(****************************************************************************)
(* The order of the plugins: fu_plugin_list_depsolve() in fu-plugin-list.c, *)
(* and the conflicts that a plugin declares later.  Each step of the        *)
(* ordering is one pass of its do-while loop, which promotes at most one    *)
(* plugin because the inner loops stop at the first change; each step of    *)
(* the conflicts is the turn of one plugin.                                 *)
(*                                                                          *)
(* A rule is a pair of the plugin that has it and the plugin that it names, *)
(* which need not be loaded.  The order of the rules of one plugin is left  *)
(* open, and so is that of plugins with the same order, which the code      *)
(* sorts by name.                                                           *)
(****************************************************************************)
EXTENDS Naturals, Sequences, Functions

CONSTANTS
  Plugin,     \* names of plugins
  Loaded,     \* the plugins that are loaded, in the order they were added
  RuleSets,   \* the rules that the plugins may have
  LoopLimit,  \* 100: passes that are not too many
  MaxLate     \* bound: conflicts that are declared late

Rule == Plugin \X Plugin

ASSUME PluginAssumption ==
  /\ Loaded \in Seq(Plugin) /\ IsInjective(Loaded)
  /\ RuleSets \subseteq [after : SUBSET Rule, before : SUBSET Rule, better : SUBSET Rule, conflicts : SUBSET Rule]
  /\ LoopLimit \in Nat /\ MaxLate \in Nat

VARIABLES
  array,     \* the list of plugins
  rules,     \* the rules of the plugins
  disabled,  \* plugins with the disabled flag
  order, priority,
  passes,    \* dep_loop_check
  turn,      \* the place in the list of the plugin whose conflicts are next
  solving,   \* "order", "conflicts", "done", "failed"
  skipped,   \* plugins that were disabled when the ordering began (auxiliary)
  late       \* conflicts declared late (auxiliary, for the bound)

pluginVars == <<array, rules, disabled, order, priority, passes, turn, solving, skipped, late>>

Here == {Loaded[i] : i \in DOMAIN Loaded}

PluginTypeOK ==
  /\ array \in [DOMAIN Loaded -> Here] /\ IsInjective(array)
  /\ rules \in [after : SUBSET Rule, before : SUBSET Rule, better : SUBSET Rule, conflicts : SUBSET Rule]
  /\ disabled \subseteq Here /\ skipped \subseteq disabled
  /\ order \in [Here -> Nat] /\ priority \in [Here -> Nat]
  /\ passes \in Nat /\ turn \in 1 .. (Len(Loaded) + 1) /\ late \in 0 .. MaxLate
  /\ solving \in {"order", "conflicts", "done", "failed"}

\* Plugins may be disabled by the configuration or by the hardware.
PluginInit ==
  /\ array = Loaded
  /\ rules \in RuleSets
  /\ disabled \in SUBSET Here /\ skipped = disabled
  /\ order = [p \in Here |-> 0] /\ priority = [p \in Here |-> 0]
  /\ passes = 0 /\ turn = 1 /\ solving = "order" /\ late = 0

-----------------------------------------------------------------------------

\* The rules that count: both plugins are loaded, and the one that is named
\* is not disabled.  The one that has the rule may be.
Applies(r) == r[1] \in Here /\ r[2] \in Here \ disabled

\* Mutant: plugins of the same order are taken to be in order.
LateAfterStrict == {r \in rules.after : Applies(r) /\ order[r[1]] < order[r[2]]}

LateAfter == {r \in rules.after : Applies(r) /\ order[r[1]] <= order[r[2]]}
LateBefore == {r \in rules.before : Applies(r) /\ order[r[1]] >= order[r[2]]}
NotBetter == {r \in rules.better : Applies(r) /\ priority[r[1]] <= priority[r[2]]}

\* The rules of the first plugin of the list that has one of them.
First(S) ==
  {r \in S : \A q \in S, i, j \in DOMAIN array : array[i] = r[1] /\ array[j] = q[1] => i <= j}

Promote ==
  \/ \E r \in First(LateAfter) :
       order' = [order EXCEPT ![r[1]] = order[r[2]] + 1] /\ priority' = priority
  \/ /\ LateAfter = {}
     /\ \E r \in First(LateBefore) :
          order' = [order EXCEPT ![r[2]] = order[r[1]] + 1] /\ priority' = priority
  \/ /\ LateAfter = {} /\ LateBefore = {}
     /\ \E r \in First(NotBetter) :
          priority' = [priority EXCEPT ![r[1]] = priority[r[2]] + 1] /\ order' = order

Settled == LateAfter = {} /\ LateBefore = {} /\ NotBetter = {}

\* One pass of the do-while loop.  The count is compared after the pass,
\* whether or not the pass changed anything.
Pass ==
  /\ solving = "order"
  /\ passes' = passes + 1
  /\ \/ /\ ~Settled /\ Promote
        /\ solving' = IF passes > LoopLimit THEN "failed" ELSE "order"
     \/ /\ Settled /\ UNCHANGED <<order, priority>>
        /\ solving' = IF passes > LoopLimit THEN "failed" ELSE "conflicts"
  /\ UNCHANGED <<array, rules, disabled, turn, skipped, late>>

ConflictsOf(p) == {d \in Here : <<p, d>> \in rules.conflicts}

\* A plugin that another conflicts with is passed over.
DisabledAfterMutual(p) ==
  IF p \in disabled \/ \E d \in Here : p \in ConflictsOf(d) THEN disabled ELSE disabled \cup ConflictsOf(p)

\* The plugins that are disabled once p has had its turn: one that has been
\* disabled meanwhile does not disable others.
DisabledAfter(p) == IF p \in disabled THEN disabled ELSE disabled \cup ConflictsOf(p)

\* The turn of one plugin in the loop over the conflicts.
CheckConflicts ==
  /\ solving = "conflicts" /\ turn <= Len(array)
  /\ disabled' = DisabledAfter(array[turn]) /\ turn' = turn + 1
  /\ UNCHANGED <<array, rules, order, priority, passes, solving, skipped, late>>

\* fu_plugin_list_sort_cb
SortedByPriority(a) == \A i, j \in DOMAIN a : i < j => priority[a[i]] <= priority[a[j]]
Sorted(a) == \A i, j \in DOMAIN a : i < j => order[a[i]] <= order[a[j]]

\* The sort, after the last turn.
Sort ==
  /\ solving = "conflicts" /\ turn > Len(array)
  /\ array' \in [DOMAIN array -> Here] /\ IsInjective(array')
  /\ Sorted(array')
  /\ solving' = "done"
  /\ UNCHANGED <<rules, disabled, order, priority, passes, turn, skipped, late>>

\* A plugin adds a conflict when the daemon runs, and all of its conflicts are
\* disabled, even when the plugin is disabled: fu_plugin_list_rules_changed_cb.
LateConflict(p, d) ==
  /\ solving = "done"
  /\ late < MaxLate /\ late' = late + 1
  /\ rules' = [rules EXCEPT !.conflicts = @ \cup {<<p, d>>}]
  /\ disabled' = disabled \cup ConflictsOf(p) \cup ({d} \cap Here)
  /\ UNCHANGED <<array, order, priority, passes, turn, solving, skipped>>

PluginNext ==
  \/ Pass \/ CheckConflicts \/ Sort
  \/ \E p \in Here : \E d \in Plugin \ {p} : LateConflict(p, d)

PluginSpec == PluginInit /\ [][PluginNext]_pluginVars

-----------------------------------------------------------------------------
(* Properties.                                                              *)

\* What has to come before what, and what has to be worse than what.
Counts(r) == r[1] \in Here /\ r[2] \in Here \ skipped
Precedes ==
  {<<r[2], r[1]>> : r \in {s \in rules.after : Counts(s)}} \cup {s \in rules.before : Counts(s)}
Worse == {<<r[2], r[1]>> : r \in {s \in rules.better : Counts(s)}}

\* In every set of plugins there is one that none of the set has to precede.
Acyclic(E) ==
  \A S \in SUBSET Here : S # {} => \E p \in S : \A q \in S : <<q, p>> \notin E

\* The ordering fails exactly when the rules are circular: one promotion for
\* each pass is enough, and the limit of the passes refuses no set of rules of
\* this size that can be met.
FailsIffCircular ==
  /\ solving = "failed" => ~(Acyclic(Precedes) /\ Acyclic(Worse))
  /\ solving \in {"conflicts", "done"} => Acyclic(Precedes) /\ Acyclic(Worse)

\* "Depsolves the list of plugins into the correct order": in the list every
\* plugin comes after those it has to run after and before those it has to run
\* before, and it has a higher priority than those it is better than.
RulesMet ==
  solving = "done" =>
    /\ \A i, j \in DOMAIN array : <<array[i], array[j]>> \in Precedes => i < j
    /\ \A e \in Worse : priority[e[1]] < priority[e[2]]

\* No plugin that is enabled conflicts with one that is, also when conflicts
\* are mutual or form a chain, and when they are declared late.
NoConflictLeft ==
  solving = "done" => \A p \in Here \ disabled : ConflictsOf(p) \subseteq disabled
=============================================================================
