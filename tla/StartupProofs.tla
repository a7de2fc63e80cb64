--------------------------- MODULE StartupProofs ---------------------------
(***************************************************************************)
(* Proofs about what the daemon does when it starts: PluginList, for every *)
(* set of plugins, every set of rules and every limit of the passes, and   *)
(* HistoryMigration, for every set of rows, any number of crashes and any  *)
(* number of loads.                                                        *)
(***************************************************************************)
EXTENDS PluginList, HistoryMigration, FiniteSetTheorems, TLAPS

\* Most leaves are first-order: Zenon proves them, SMT is named where there is
\* arithmetic or an instance of a lemma to be found.
USE Zenon

Records == [after : SUBSET Rule, before : SUBSET Rule, better : SUBSET Rule, conflicts : SUBSET Rule]

\* What the proof needs of the types: an order and a priority for each plugin.
Shape ==
  /\ array \in [DOMAIN Loaded -> Here]
  /\ rules \in Records
  /\ order \in [Here -> Nat] /\ priority \in [Here -> Nat]
  /\ solving \in {"order", "conflicts", "done", "failed"}

\* The rules are met by the numbers that the passes have given.
Met ==
  /\ \A r \in rules.after : Counts(r) => order[r[2]] < order[r[1]]
  /\ \A r \in rules.before : Counts(r) => order[r[1]] < order[r[2]]
  /\ \A r \in rules.better : Counts(r) => priority[r[2]] < priority[r[1]]

\* The passes see the plugins that were disabled at first; they end when all
\* rules are met, and after the conflicts the list is sorted.
OrderInv ==
  /\ Shape
  /\ solving = "order" => disabled = skipped
  /\ solving \in {"conflicts", "done"} => Met
  /\ solving = "done" => Sorted(array)

\* At the start of fu_plugin_list_depsolve().
LEMMA ShapeInit == PluginInit => OrderInv
<1> SUFFICES ASSUME PluginInit PROVE OrderInv
  OBVIOUS
<1>1. array \in [DOMAIN Loaded -> Here]
  BY PluginAssumption, SMT DEF PluginInit, Here
<1>2. rules \in Records
  BY PluginAssumption DEF PluginInit, Records
<1> QED
  BY <1>1, <1>2 DEF PluginInit, OrderInv, Shape

\* A promotion keeps an order and a priority for each plugin.
LEMMA PromoteShape ==
  ASSUME Shape, Promote
  PROVE  order' \in [Here -> Nat] /\ priority' \in [Here -> Nat]
<1>1. CASE \E r \in First(LateAfter) :
             order' = [order EXCEPT ![r[1]] = order[r[2]] + 1] /\ priority' = priority
  BY <1>1, SMT DEF First, LateAfter, Applies, Shape
<1>2. CASE \E r \in First(LateBefore) :
             order' = [order EXCEPT ![r[2]] = order[r[1]] + 1] /\ priority' = priority
  BY <1>2, SMT DEF First, LateBefore, Applies, Shape
<1>3. CASE \E r \in First(NotBetter) :
             priority' = [priority EXCEPT ![r[1]] = priority[r[2]] + 1] /\ order' = order
  BY <1>3, SMT DEF First, NotBetter, Applies, Shape
<1> QED
  BY <1>1, <1>2, <1>3 DEF Promote

\* When no pass would promote a plugin, all rules are met.
LEMMA SettledIsMet ==
  ASSUME Shape, Settled, disabled = skipped
  PROVE  Met
<1>1. \A r \in rules.after : Counts(r) => order[r[2]] < order[r[1]]
  BY SMT DEF Shape, Settled, LateAfter, Applies, Counts
<1>2. \A r \in rules.before : Counts(r) => order[r[1]] < order[r[2]]
  BY SMT DEF Shape, Settled, LateBefore, Applies, Counts
<1>3. \A r \in rules.better : Counts(r) => priority[r[2]] < priority[r[1]]
  BY SMT DEF Shape, Settled, NotBetter, Applies, Counts
<1> QED
  BY <1>1, <1>2, <1>3 DEF Met

\* Every pass, the end of the ordering and a late conflict keep the invariant.
LEMMA OrderStep == OrderInv /\ [PluginNext]_pluginVars => OrderInv'
<1> SUFFICES ASSUME OrderInv, [PluginNext]_pluginVars PROVE OrderInv'
  OBVIOUS
<1> USE DEF OrderInv
<1>1. CASE Pass
  <2>1. CASE ~Settled /\ Promote
    <3>1. solving' \in {"order", "failed"} /\ disabled' = skipped'
      BY <1>1, <2>1 DEF Pass
    <3>2. Shape'
      BY <1>1, <2>1, <3>1, PromoteShape DEF Pass, Shape
    <3> QED
      BY <3>1, <3>2
  <2>2. CASE Settled /\ UNCHANGED <<order, priority>>
    <3>1. disabled' = skipped' /\ solving' \in {"conflicts", "failed"}
      BY <1>1, <2>2 DEF Pass
    <3>2. Shape'
      BY <1>1, <2>2, <3>1 DEF Pass, Shape
    <3>3. Met
      BY <1>1, <2>2, SettledIsMet DEF Pass
    <3>4. Met'
      BY <1>1, <2>2, <3>3 DEF Pass, Met, Counts
    <3> QED
      BY <3>1, <3>2, <3>4
  <2> QED
    BY <1>1, <2>1, <2>2 DEF Pass
<1>2. CASE CheckConflicts
  <2>1. Shape' /\ Met'
    BY <1>2 DEF CheckConflicts, Shape, Met, Counts
  <2> QED
    BY <1>2, <2>1 DEF CheckConflicts
<1>3. CASE Sort
  <2>1. Shape'
    BY <1>3 DEF Sort, Shape
  <2>2. Met'
    BY <1>3 DEF Sort, Met, Counts
  <2>3. Sorted(array)'
    BY <1>3 DEF Sort, Sorted
  <2> QED
    BY <1>3, <2>1, <2>2, <2>3 DEF Sort
<1>4. ASSUME NEW p \in Here, NEW d \in Plugin \ {p}, LateConflict(p, d)
      PROVE  OrderInv'
  <2>1. p \in Plugin
    BY PluginAssumption, SMT DEF Here
  <2>2. rules' \in Records /\ rules'.after = rules.after /\ rules'.before = rules.before
        /\ rules'.better = rules.better
    BY <1>4, <2>1, SMT DEF LateConflict, Shape, Records, Rule
  <2>3. Shape' /\ Met' /\ Sorted(array)'
    BY <1>4, <2>2 DEF LateConflict, Shape, Met, Counts, Sorted
  <2> QED
    BY <1>4, <2>3 DEF LateConflict
<1>5. CASE UNCHANGED pluginVars
  BY <1>5 DEF pluginVars, Shape, Met, Counts, Sorted
<1> QED
  BY <1>1, <1>2, <1>3, <1>4, <1>5 DEF PluginNext

\* In a sorted list, what has the smaller order comes first.
LEMMA MetIsRulesMet == OrderInv => RulesMet
<1> SUFFICES ASSUME OrderInv, solving = "done" PROVE
      /\ \A i, j \in DOMAIN array : <<array[i], array[j]>> \in Precedes => i < j
      /\ \A e \in Worse : priority[e[1]] < priority[e[2]]
  BY DEF RulesMet
<1> USE DEF OrderInv
<1>1. ASSUME NEW i \in DOMAIN array, NEW j \in DOMAIN array, <<array[i], array[j]>> \in Precedes
      PROVE  i < j
  <2>1. order[array[i]] < order[array[j]]
    BY <1>1 DEF Precedes, Met
  <2>2. i \in Int /\ j \in Int /\ array[i] \in Here /\ array[j] \in Here
    BY PluginAssumption, SMT DEF Shape
  <2>3. order[array[i]] \in Nat /\ order[array[j]] \in Nat
    BY <2>2 DEF Shape
  <2>4. ~(j < i) /\ i # j
    BY <2>1, <2>3, SMT DEF Sorted
  <2> QED
    BY <2>2, <2>4, SMT
<1>2. \A e \in Worse : priority[e[1]] < priority[e[2]]
  BY SMT DEF Worse, Met
<1> QED
  BY <1>1, <1>2

\* Whenever fu_plugin_list_depsolve() succeeds, for any plugins and rules, every
\* plugin comes after those it has to run after and before those it has to run
\* before, and has a higher priority than those it is better than.
THEOREM RulesMetCorrect == PluginSpec => []RulesMet
<1>1. PluginSpec => []OrderInv
  BY ShapeInit, OrderStep, PTL DEF PluginSpec
<1> QED
  BY <1>1, MetIsRulesMet, PTL

\* The plugins that have had their turn are disabled, or have disabled what
\* they conflict with; until the sort the list is as it was loaded, so that all
\* have had it at the end.
ConflictInv ==
  /\ turn \in Nat
  /\ solving = "order" => turn = 1
  /\ solving \in {"order", "conflicts"} => array = Loaded
  /\ solving = "conflicts" =>
       \A i \in DOMAIN Loaded : i < turn => Loaded[i] \in disabled \/ ConflictsOf(Loaded[i]) \subseteq disabled
  /\ NoConflictLeft

\* Every step keeps what the conflicts have disabled.
LEMMA ConflictStep == ConflictInv /\ [PluginNext]_pluginVars /\ OrderInv => ConflictInv'
<1> SUFFICES ASSUME ConflictInv, [PluginNext]_pluginVars, OrderInv PROVE ConflictInv'
  OBVIOUS
<1> USE DEF ConflictInv
<1>0. DOMAIN Loaded = 1..Len(Loaded) /\ Len(Loaded) \in Nat
  BY PluginAssumption, SMT
<1>1. CASE Pass
  <2>1. solving = "order" /\ turn' = turn /\ array' = array /\ solving' \in {"order", "conflicts", "failed"}
    BY <1>1 DEF Pass
  <2> QED
    BY <2>1, <1>0, SMT DEF NoConflictLeft
<1>2. CASE CheckConflicts
  <2>1. /\ solving = "conflicts" /\ solving' = "conflicts" /\ array = Loaded /\ array' = array
        /\ turn' = turn + 1 /\ rules' = rules /\ disabled' = DisabledAfter(Loaded[turn])
    BY <1>2 DEF CheckConflicts
  <2>2. \A p : ConflictsOf(p)' = ConflictsOf(p)
    BY <2>1 DEF ConflictsOf
  <2>3. disabled \subseteq disabled' /\ (Loaded[turn] \in disabled' \/ ConflictsOf(Loaded[turn]) \subseteq disabled')
    BY <2>1 DEF DisabledAfter
  <2>4. ASSUME NEW i \in DOMAIN Loaded, i < turn'
        PROVE  Loaded[i] \in disabled' \/ ConflictsOf(Loaded[i]) \subseteq disabled'
    <3>1. i < turn \/ i = turn
      BY <2>1, <2>4, <1>0, SMT
    <3> QED
      BY <3>1, <2>1, <2>3
  <2> QED
    BY <2>1, <2>2, <2>4, SMT DEF NoConflictLeft
<1>3. CASE Sort
  <2>1. /\ solving = "conflicts" /\ solving' = "done" /\ turn > Len(Loaded) /\ turn' = turn
        /\ rules' = rules /\ disabled' = disabled
    BY <1>3 DEF Sort
  <2>2. \A p \in Here : p \in disabled \/ ConflictsOf(p) \subseteq disabled
    BY <2>1, <1>0, SMT DEF Here
  <2>3. \A p : ConflictsOf(p)' = ConflictsOf(p)
    BY <2>1 DEF ConflictsOf
  <2> QED
    BY <2>1, <2>2, <2>3 DEF NoConflictLeft
<1>4. ASSUME NEW p \in Here, NEW d \in Plugin \ {p}, LateConflict(p, d)
      PROVE  ConflictInv'
  <2>1. solving = "done" /\ solving' = "done" /\ turn' = turn
        /\ disabled' = disabled \cup ConflictsOf(p) \cup ({d} \cap Here)
    BY <1>4 DEF LateConflict
  <2>2. rules'.conflicts = rules.conflicts \cup {<<p, d>>}
    BY <1>4 DEF LateConflict, OrderInv, Shape, Records
  <2>3. ASSUME NEW q \in Here \ disabled', NEW e \in Here, <<q, e>> \in rules'.conflicts
        PROVE  e \in disabled'
    <3>1. CASE q = p
      BY <3>1, <2>1, <2>2, <2>3 DEF ConflictsOf
    <3>2. CASE q # p
      <4>1. <<q, e>> \in rules.conflicts /\ q \in Here \ disabled
        BY <3>2, <2>1, <2>2, <2>3, SMT
      <4> QED
        BY <4>1, <2>1 DEF NoConflictLeft, ConflictsOf
    <3> QED BY <3>1, <3>2
  <2>4. NoConflictLeft'
    BY <2>3 DEF NoConflictLeft, ConflictsOf
  <2> QED
    BY <2>1, <2>4
<1>5. CASE UNCHANGED pluginVars
  BY <1>5 DEF pluginVars, NoConflictLeft, ConflictsOf
<1> QED
  BY <1>1, <1>2, <1>3, <1>4, <1>5 DEF PluginNext

\* Whenever fu_plugin_list_depsolve() has succeeded, for any plugins and rules,
\* no enabled plugin conflicts with an enabled one: whatever circles and chains
\* the conflicts form, and however many are declared late
\* (fu_plugin_list_rules_changed_cb).
THEOREM NoConflictLeftCorrect == PluginSpec => []NoConflictLeft
<1>1. PluginInit => ConflictInv
  BY PluginAssumption, SMT DEF PluginInit, ConflictInv, NoConflictLeft
<1>2. PluginSpec => []OrderInv
  BY ShapeInit, OrderStep, PTL DEF PluginSpec
<1>3. ConflictInv => NoConflictLeft
  BY DEF ConflictInv
<1> QED
  BY <1>1, <1>2, <1>3, ConflictStep, PTL DEF PluginSpec

-----------------------------------------------------------------------------
(* The migration of the history: FoundInv says what every statement finds,   *)
(* RowsInv where the rows are meanwhile.                                    *)

Db == [tables : SUBSET Tables, version : 0..(Current + 1), columns : SUBSET Columns,
       rows : SUBSET Row, old : SUBSET Row]

\* A database has what the cases below k add.
UpTo(b, k) ==
  /\ \A j \in DOMAIN ColumnOf : j < k => ColumnOf[j] \in b.columns
  /\ \A j \in DOMAIN TableOf : j < k => TableOf[j] \in b.tables

\* A database that stores no version, or 0: there is nothing in it, or the
\* history of version 1 before or after it was renamed, or it is complete, or
\* it was until its history was renamed.
Unversioned(b) ==
  /\ b.version = 0
  /\ \/ b.tables \subseteq {"history_old"}
     \/ b.tables = {"history"}
     \/ Complete(b)
     \/ "history" \notin b.tables /\ "emulation_tag" \in b.tables

\* A database with a version, which may have more than its version says: a
\* migration that a crash ended has added to it.
Versioned(b) ==
  /\ b.version >= 2
  /\ {"schema", "history"} \subseteq b.tables
  /\ UpTo(b, FirstCase(b.version))

\* What each statement of fu_history_load() finds, when no disk has failed.
Found(b, s, k) ==
  /\ Unversioned(b) \/ Versioned(b)
  /\ s = "create" => Unversioned(b) /\ "history" \notin b.tables
  /\ s = "rename" => Unversioned(b) /\ "history" \in b.tables
  /\ s = "recreate" => Unversioned(b) /\ "history" \notin b.tables
  /\ s = "alter" => Versioned(b) /\ k \in 2..(Current - 1) /\ k # 10 /\ UpTo(b, k)
  /\ s \in {"copy", "drop", "version", "loaded"} => Complete(b)
  /\ s = "empty" => b = NoFile

FoundInv ==
  /\ db \in Db
  /\ "io" \notin faults => Found(db, step, at)

\* The disk has not failed, and a crash is one of those that lose no row.
Safe == "io" \notin faults /\ ("crash" \in faults => origin >= 3)

\* A database on the way from one of the first three schemas, which no crash
\* has left half migrated: a second migration of it would throw it away.
Untouched(b) ==
  \/ b.version = 0 /\ b.tables = {} /\ b.rows = {}
  \/ b.version = 0 /\ b.tables = {"history"}
  \/ b.version = 2 /\ ColumnOf[2] \notin b.columns

\* Where the rows are at each statement, and why none of them fails.
Rows(b, s, k, kept) ==
  /\ kept \subseteq b.rows \cup (IF s \in {"recreate", "copy"} THEN b.old ELSE {})
  /\ s \notin {"unlink", "empty"}
  /\ s = "down" => b.version >= 3 \/ Untouched(b)
  /\ s = "create" => b.tables = {} /\ b.version = 0
  /\ s = "rename" => b.tables = {"history"}
  /\ s = "recreate" => b.tables = {"history_old"}
  /\ s \in {"copy", "drop"} => "history_old" \in b.tables
  /\ s = "alter" /\ k = 2 => ColumnOf[2] \notin b.columns
  /\ s = "loaded" => b.version >= 3

RowsInv ==
  Safe =>
    /\ Rows(db, step, at, saved)
    /\ origin >= 3 => db.version >= 3 /\ step \in {"down", "alter", "version", "loaded"}

\* The names of the columns and tables that the proofs tell apart.
LEMMA Names ==
  /\ DOMAIN ColumnOf = {2, 3, 7, 8, 9, 11, 12} /\ DOMAIN TableOf = {4, 5, 6, 13}
  /\ \A j \in DOMAIN ColumnOf : ColumnOf[j] \in Columns /\ (ColumnOf[j] = "version_format" => j = 9)
  /\ \A j \in DOMAIN TableOf : TableOf[j] \in NewTables
  /\ \A c \in Columns : \E j \in DOMAIN ColumnOf : c = ColumnOf[j]
  /\ \A t \in NewTables : \E j \in DOMAIN TableOf : t = TableOf[j]
  /\ "emulation_tag" \in NewTables
  /\ "schema" \notin NewTables /\ "history" \notin NewTables /\ "history_old" \notin NewTables
<1>1. DOMAIN ColumnOf = {2, 3, 7, 8, 9, 11, 12} /\ DOMAIN TableOf = {4, 5, 6, 13}
  BY DEF ColumnOf, TableOf
<1>2. \A j \in DOMAIN ColumnOf : ColumnOf[j] = "version_format" => j = 9
  BY DEF ColumnOf
<1>3. TableOf[4] = "approved_firmware" /\ TableOf[5] = "blocked_firmware"
      /\ TableOf[6] = "hsi_history" /\ TableOf[13] = "emulation_tag"
  BY SMT DEF TableOf
<1>4. NewTables = {TableOf[4], TableOf[5], TableOf[6], TableOf[13]}
  BY <1>1, SMT DEF NewTables
<1> QED
  BY <1>1, <1>2, <1>3, <1>4 DEF Columns, NewTables

\* A database is complete when it has what all cases add.
LEMMA CompleteIffAll ==
  ASSUME NEW b \in Db, NEW k \in Nat, k >= Current
  PROVE  /\ Complete(b) => {"schema", "history"} \subseteq b.tables /\ UpTo(b, k)
         /\ {"schema", "history"} \subseteq b.tables /\ UpTo(b, k) => Complete(b)
<1>1. \A j \in DOMAIN ColumnOf : j < k
  BY Names, SMT DEF Current
<1>2. \A j \in DOMAIN TableOf : j < k
  BY Names, SMT DEF Current
<1>3. b.columns \subseteq Columns
  BY DEF Db
<1>4. ASSUME Complete(b) PROVE {"schema", "history"} \subseteq b.tables /\ UpTo(b, k)
  BY <1>4, Names DEF Complete, UpTo
<1>5. ASSUME {"schema", "history"} \subseteq b.tables, UpTo(b, k) PROVE Complete(b)
  <2>1. Columns \subseteq b.columns
    BY <1>5, <1>1, Names, SMT DEF UpTo
  <2>2. NewTables \subseteq b.tables
    BY <1>5, <1>2, Names, SMT DEF UpTo
  <2> QED
    BY <2>1, <2>2, <1>3, <1>5 DEF Complete
<1> QED
  BY <1>4, <1>5

\* The databases of the released schemas.
LEMMA ReleasedFound ==
  ASSUME NEW v \in 0..(Current + 1), NEW b \in Released(v)
  PROVE  /\ b \in Db
         /\ Unversioned(b) \/ Versioned(b)
         /\ v >= 3 => b.version >= 3
         /\ v < 3 => Untouched(b)
<1>1. CASE v = 0
  <2>1. b = NoFile
    BY <1>1, SMT DEF Released
  <2> QED
    BY <2>1, <1>1 DEF NoFile, Database, Db, Unversioned, Untouched, Current
<1>2. CASE v = 1
  <2>1. PICK r \in SUBSET Row : b = Database({"history"}, 0, {}, r)
    BY <1>2, SMT DEF Released
  <2>2. b = [tables |-> {"history"}, version |-> 0, columns |-> {}, rows |-> r, old |-> {}]
    BY <2>1 DEF Database
  <2> QED
    BY <2>2, <1>2, SMT DEF Db, Unversioned, Untouched, Current, Tables
<1>3. CASE v >= 2
  <2> DEFINE ts == {"schema", "history"} \cup {TableOf[k] : k \in {j \in DOMAIN TableOf : j < v}}
             cs == {ColumnOf[k] : k \in {j \in DOMAIN ColumnOf : j < v}}
             lacks == {{}} \cup (IF v = 10 THEN {{"version_format"}} ELSE {})
  <2>1. v \in Nat /\ v # 0 /\ v # 1
    BY <1>3, SMT DEF Current
  <2>2. PICK r \in SUBSET Row, bungled \in lacks :
          b = Database(ts, v, cs \ bungled, r)
    <3>1. Released(v) =
            UNION {{Database(ts, v, cs \ bungled, r) : r \in SUBSET Row} : bungled \in lacks}
      BY <2>1 DEF Released
    <3> HIDE DEF ts, cs, lacks
    <3> QED
      BY <3>1
  <2>3. b = [tables |-> ts, version |-> v, columns |-> cs \ bungled, rows |-> r, old |-> {}]
    BY <2>2 DEF Database
  <2>4. ts \subseteq Tables /\ cs \subseteq Columns
    BY Names, SMT DEF Tables
  <2>5. \A j \in DOMAIN TableOf : j < v => TableOf[j] \in ts
    OBVIOUS
  <2>6. \A j \in DOMAIN ColumnOf : j < FirstCase(v) => ColumnOf[j] \in cs \ bungled
    <3> SUFFICES ASSUME NEW j \in DOMAIN ColumnOf, j < FirstCase(v) PROVE ColumnOf[j] \in cs /\ ColumnOf[j] \notin bungled
      OBVIOUS
    <3>1. j \in Nat /\ j < v
      BY <2>1, Names, SMT DEF FirstCase
    <3>2. ColumnOf[j] \notin bungled
      <4>1. CASE v = 10
        BY <4>1, Names, SMT DEF FirstCase
      <4>2. CASE v # 10
        BY <4>2, <2>2
      <4> QED BY <4>1, <4>2
    <3> QED BY <3>1, <3>2
  <2>7. v = 2 => ColumnOf[2] \notin cs
    BY Names, SMT
  <2> HIDE DEF ts, cs
  <2>8. b.version = v /\ b.tables = ts /\ b.columns = cs \ bungled
    BY <2>3
  <2>9. b \in Db
    BY <2>3, <2>4 DEF Db
  <2>10. {"schema", "history"} \subseteq ts
    BY DEF ts
  <2>11. \A j \in DOMAIN TableOf : j < FirstCase(v) => TableOf[j] \in ts
    BY <2>5, <2>1, Names, SMT DEF FirstCase
  <2>12. Versioned(b)
    BY <2>8, <2>10, <2>11, <2>6, <1>3 DEF Versioned, UpTo
  <2> QED
    BY <2>9, <2>12, <2>8, <2>7, <1>3, <2>1, SMT DEF Untouched
<1> QED
  BY <1>1, <1>2, <1>3, SMT DEF Current

\* fu_history_create_database() leaves a database.
LEMMA CreatedTyped ==
  ASSUME db \in Db PROVE Created \in Db
<1> DEFINE t == db.tables \cup NewTables \cup {"schema", "history"}
           v == IF "schema" \in db.tables THEN db.version ELSE 0
           c == IF "history" \in db.tables THEN db.columns ELSE Columns
<1>1. Created = [db EXCEPT !.tables = t, !.version = v, !.columns = c]
  BY DEF Created
<1>2. t \in SUBSET Tables
  BY DEF Db, Tables
<1>3. v \in 0..(Current + 1)
  BY SMT DEF Db, Current
<1>4. c \in SUBSET Columns
  BY DEF Db
<1> HIDE DEF t, v, c
<1> QED
  BY <1>1, <1>2, <1>3, <1>4 DEF Db

\* The database that fu_history_create_database() leaves.
LEMMA CreatedComplete ==
  ASSUME db \in Db, Unversioned(db), "history" \notin db.tables, CreateWorks
  PROVE  Created \in Db /\ Complete(Created) /\ Unversioned(Created) /\ Created.rows = db.rows
         /\ Created.old = db.old /\ ("history_old" \in db.tables => "history_old" \in Created.tables)
<1>1. db.tables \subseteq {"history_old"}
  BY Names DEF Unversioned, CreateWorks, Complete
<1>2. /\ Created.tables = db.tables \cup NewTables \cup {"schema", "history"}
      /\ Created.version = 0 /\ Created.columns = Columns
      /\ Created.rows = db.rows /\ Created.old = db.old
  BY <1>1 DEF Created, Db, Unversioned
<1>3. Created \in Db
  BY CreatedTyped
<1> QED
  BY <1>2, <1>3 DEF Complete, Unversioned

\* Load: the version that is read tells the two kinds of databases apart.
LEMMA LoadFound ==
  ASSUME FoundInv, Load PROVE FoundInv'
<1>1. db' = db /\ faults' = faults /\ db \in Db /\ db.version \in Nat
  BY SMT DEF FoundInv, Load, LoadAs, Db
<1> SUFFICES ASSUME "io" \notin faults PROVE Found(db, step', at')
  BY <1>1 DEF FoundInv
<1>2. Unversioned(db) \/ Versioned(db)
  BY DEF FoundInv, Found
<1>3. CASE Unversioned(db)
  <2>1. SchemaVersion = IF "history" \in db.tables THEN 1 ELSE 0
    BY <1>3 DEF Unversioned, SchemaVersion
  <2>2. step' = IF "history" \in db.tables THEN "rename" ELSE "create"
    BY <2>1, SMT DEF Load, LoadAs, Current
  <2> QED
    BY <2>2, <1>3 DEF Found
<1>4. CASE Versioned(db)
  <2>1. SchemaVersion = db.version /\ db.version >= 2
    BY <1>4, SMT DEF Versioned, SchemaVersion
  <2>2. CASE db.version >= Current
    <3>1. step' = "loaded"
      BY <2>1, <2>2, SMT DEF Load, LoadAs
    <3>2. FirstCase(db.version) = db.version
      BY <2>2, <1>1, SMT DEF FirstCase, Current
    <3>3. Complete(db)
      BY <3>2, <1>1, <1>4, <2>2, CompleteIffAll DEF Versioned
    <3> QED
      BY <3>1, <3>3, <1>4 DEF Found
  <2>3. CASE ~(db.version >= Current)
    <3>1. step' = "alter" /\ at' = FirstCase(db.version)
      BY <2>1, <2>3, <1>1, SMT DEF Load, LoadAs, Current
    <3>2. FirstCase(db.version) \in 2..(Current - 1) /\ FirstCase(db.version) # 10
      BY <2>1, <2>3, <1>1, SMT DEF FirstCase, Current
    <3> QED
      BY <3>1, <3>2, <1>4 DEF Found, Versioned
  <2> QED BY <2>2, <2>3
<1> QED BY <1>2, <1>3, <1>4

\* Create, Recreate and CreateEmpty.
LEMMA CreateFound ==
  ASSUME FoundInv, Create \/ Recreate \/ CreateEmpty PROVE FoundInv'
<1>1. CASE "io" \in faults'
  <2>1. "io" \in faults => db' \in Db
    <3>1. Created \in Db
      BY CreatedTyped DEF FoundInv
    <3> QED
      BY <3>1 DEF FoundInv, Create, Recreate, CreateEmpty, Statement
  <2>2. "io" \notin faults => db' = db
    BY <1>1 DEF Create, Recreate, CreateEmpty, Statement
  <2> QED
    BY <1>1, <2>1, <2>2 DEF FoundInv
<1>2. CASE "io" \notin faults'
  <2>1. "io" \notin faults /\ db \in Db /\ Found(db, step, at)
    BY <1>2 DEF FoundInv, Create, Recreate, CreateEmpty, Statement
  <2>2. step \in {"create", "recreate", "empty"}
    BY DEF Create, Recreate, CreateEmpty
  <2>3. Unversioned(db) /\ "history" \notin db.tables
    BY <2>1, <2>2, SMT DEF Found, NoFile, Database, Unversioned
  <2>4. CASE CreateWorks
    <3>1. db' = Created /\ step' \in {"version", "copy", "loaded"}
      BY <2>4, <1>2 DEF Create, Recreate, CreateEmpty, Statement
    <3> QED
      BY <3>1, <2>1, <2>3, <2>4, CreatedComplete DEF FoundInv, Found
  <2>5. CASE ~CreateWorks
    <3>1. step # "empty"
      BY <2>5, <2>1, SMT DEF CreateWorks, Found, NoFile, Database
    <3>2. db' = db /\ step' = "unlink"
      BY <3>1, <2>5, <1>2 DEF Create, Recreate, CreateEmpty, Statement
    <3> QED
      BY <3>2, <2>1, <2>3 DEF FoundInv, Found
  <2> QED BY <2>4, <2>5
<1> QED BY <1>1, <1>2

\* Every action leaves a database.
LEMMA TypedStep ==
  ASSUME db \in Db, MigrationNext PROVE db' \in Db
<1>1. CASE Load \/ LoadMisread \/ Stop \/ Crash
  BY <1>1 DEF Load, LoadMisread, LoadAs, Stop, Crash
<1>2. CASE Create \/ Recreate \/ CreateEmpty
  BY <1>2, CreatedTyped DEF Create, Recreate, CreateEmpty, Statement
<1>3. CASE Rename
  <2>1. (db.tables \ {"history"}) \cup {"history_old"} \in SUBSET Tables
    BY DEF Db, Tables
  <2> QED
    BY <1>3, <2>1 DEF Rename, Statement, Db
<1>4. CASE Copy
  BY <1>4 DEF Copy, Statement, Db
<1>5. CASE Drop
  BY <1>5 DEF Drop, Statement, Db
<1>6. CASE Alter
  <2>1. ASSUME at \in DOMAIN ColumnOf, AddColumn(at) PROVE db' \in Db
    <3>1. db.columns \cup {ColumnOf[at]} \in SUBSET Columns
      BY <2>1, Names DEF Db
    <3> QED
      BY <2>1, <3>1 DEF AddColumn, Statement, Db
  <2>2. ASSUME at \in DOMAIN TableOf, AddTable(at) PROVE db' \in Db
    <3>1. db.tables \cup {TableOf[at]} \in SUBSET Tables
      BY <2>2, Names, SMT DEF Db, Tables
    <3> QED
      BY <2>2, <3>1 DEF AddTable, Statement, Db
  <2> QED BY <1>6, <2>1, <2>2 DEF Alter
<1>7. CASE SetVersion
  BY <1>7, SMT DEF SetVersion, Statement, Db, Current
<1>8. CASE Unlink
  BY <1>8, SMT DEF Unlink, Statement, Db, NoFile, Database, Current
<1>9. ASSUME NEW r \in Row, AddRow(r) PROVE db' \in Db
  BY <1>9 DEF AddRow, Db
<1>10. ASSUME NEW gone, RemoveRows(gone) PROVE db' \in Db
  BY <1>10 DEF RemoveRows, Db
<1> QED
  BY <1>1, <1>2, <1>3, <1>4, <1>5, <1>6, <1>7, <1>8, <1>9, <1>10 DEF MigrationNext

\* What Found says depends on the tables, the columns and the version only.
LEMMA SameFound ==
  ASSUME NEW a \in Db, NEW b \in Db, a.tables = b.tables, a.columns = b.columns, a.version = b.version
  PROVE  /\ Unversioned(a) => Unversioned(b)
         /\ Versioned(a) => Versioned(b)
         /\ Complete(a) => Complete(b)
BY DEF UpTo, Unversioned, Versioned, Complete

\* Rename, Copy and Drop: the migration of version 1.
LEMMA RenameFound ==
  ASSUME db \in Db, db' \in Db, Found(db, step, at), "io" \notin faults', Rename \/ Copy \/ Drop
  PROVE  Found(db', step', at')
<1>1. CASE Rename
  <2>1. Unversioned(db) /\ "history" \in db.tables
    BY <1>1 DEF Rename, Found
  <2>2. CASE "history_old" \notin db.tables
    <3>1. step' = "recreate" /\ db'.tables = (db.tables \ {"history"}) \cup {"history_old"} /\ db'.version = 0
      BY <1>1, <2>1, <2>2 DEF Rename, Statement, Db, Unversioned
    <3>2. db.tables = {"history"} \/ Complete(db)
      BY <2>1 DEF Unversioned
    <3>3. Unversioned(db') /\ "history" \notin db'.tables
      BY <3>1, <3>2, Names DEF Unversioned, Complete
    <3> QED
      BY <3>1, <3>3 DEF Found
  <2>3. CASE "history_old" \in db.tables
    <3>1. step' = "version" /\ db' = db
      BY <1>1, <2>3 DEF Rename, Statement
    <3>2. Complete(db)
      BY <2>1, <2>3, SMT DEF Unversioned
    <3> QED
      BY <3>1, <3>2, <2>1 DEF Found
  <2> QED BY <2>2, <2>3
<1>2. CASE Copy
  <2>1. step' \in {"drop", "version"} /\ Complete(db) /\ (Unversioned(db) \/ Versioned(db))
    BY <1>2 DEF Copy, Statement, Found
  <2>2. db'.tables = db.tables /\ db'.columns = db.columns /\ db'.version = db.version
    BY <1>2 DEF Copy, Statement, Db
  <2> QED
    BY <2>1, <2>2, SameFound DEF Found
<1>3. CASE Drop
  <2>1. step' = "version" /\ Complete(db) /\ (Unversioned(db) \/ Versioned(db))
    BY <1>3 DEF Drop, Statement, Found
  <2>2. /\ db'.tables = db.tables \ {"history_old"} \/ db'.tables = db.tables
        /\ db'.columns = db.columns /\ db'.version = db.version
    BY <1>3 DEF Drop, Statement, Db
  <2>3. Complete(db')
    BY <2>1, <2>2, Names DEF Complete
  <2>4. Unversioned(db) => Unversioned(db')
    BY <2>2, <2>3 DEF Unversioned
  <2>5. Versioned(db) => Versioned(db')
    BY <2>2, Names DEF Versioned, UpTo
  <2> QED
    BY <2>1, <2>3, <2>4, <2>5 DEF Found
<1> QED BY <1>1, <1>2, <1>3

\* A case that ran: what it adds is there, whether it was added now or before,
\* or the load has failed.
LEMMA CaseRan ==
  ASSUME db \in Db, db' \in Db, Found(db, step, at), "io" \notin faults', Alter
  PROVE  /\ step' \in {"unlink", AfterCase(at)}
         /\ step' = AfterCase(at) /\ step' # "unlink" => UpTo(db', at + 1)
         /\ Versioned(db') /\ db'.version = db.version /\ db'.rows = db.rows
         /\ step' = "unlink" => at = 2 /\ ColumnOf[2] \in db.columns
<1>1. Versioned(db) /\ at \in 2..(Current - 1) /\ at # 10 /\ UpTo(db, at) /\ "history" \in db.tables
  BY DEF Alter, Found, Versioned
<1>2. AfterCase(at) # "unlink"
  BY DEF AfterCase
<1>3. \A j \in DOMAIN ColumnOf \cup DOMAIN TableOf : j \in Nat
  BY Names, SMT
<1>4. ASSUME at \in DOMAIN ColumnOf, AddColumn(at)
      PROVE  /\ step' \in {"unlink", AfterCase(at)}
             /\ step' = "unlink" => at = 2 /\ ColumnOf[2] \in db.columns
             /\ db'.tables = db.tables /\ db'.version = db.version /\ db'.rows = db.rows
             /\ db'.columns = db.columns \cup {ColumnOf[at]}
  <2>1. CASE ColumnOf[at] \in db.columns
    <3>1. db' = db /\ step' = IF at = 2 THEN "unlink" ELSE AfterCase(at)
      BY <1>4, <2>1 DEF AddColumn, Statement
    <3> QED
      BY <3>1, <2>1, <1>2
  <2>2. CASE ColumnOf[at] \notin db.columns
    <3>1. db' = [db EXCEPT !.columns = db.columns \cup {ColumnOf[at]}] /\ step' = AfterCase(at)
      BY <1>4, <2>2, <1>1 DEF AddColumn, Statement
    <3> QED
      BY <3>1, <1>2 DEF Db
  <2> QED BY <2>1, <2>2
<1>5. ASSUME at \in DOMAIN TableOf, AddTable(at)
      PROVE  /\ step' = AfterCase(at)
             /\ db'.tables = db.tables \cup {TableOf[at]} /\ db'.version = db.version
             /\ db'.rows = db.rows /\ db'.columns = db.columns
  BY <1>5 DEF AddTable, Statement, Db
<1>6. \/ at \in DOMAIN ColumnOf /\ AddColumn(at)
      \/ at \in DOMAIN TableOf /\ AddTable(at)
  BY DEF Alter
<1>7. /\ db.tables \subseteq db'.tables /\ db.columns \subseteq db'.columns
      /\ db'.version = db.version /\ db'.rows = db.rows
  BY <1>4, <1>5, <1>6
<1>8. Versioned(db')
  BY <1>1, <1>7 DEF Versioned, UpTo
<1>9. at \in DOMAIN ColumnOf => ColumnOf[at] \in db'.columns
  BY <1>4, <1>6, Names, SMT
<1>10. at \in DOMAIN TableOf => TableOf[at] \in db'.tables
  BY <1>5, <1>6, Names, SMT
<1>11. UpTo(db', at + 1)
  <2>1. ASSUME NEW j \in DOMAIN ColumnOf, j < at + 1 PROVE ColumnOf[j] \in db'.columns
    <3>1. j < at \/ j = at
      BY <2>1, <1>1, <1>3, SMT
    <3> QED
      BY <3>1, <1>1, <1>7, <1>9 DEF UpTo
  <2>2. ASSUME NEW j \in DOMAIN TableOf, j < at + 1 PROVE TableOf[j] \in db'.tables
    <3>1. j < at \/ j = at
      BY <2>2, <1>1, <1>3, SMT
    <3> QED
      BY <3>1, <1>1, <1>7, <1>10 DEF UpTo
  <2> QED
    BY <2>1, <2>2 DEF UpTo
<1> QED
  BY <1>2, <1>4, <1>5, <1>6, <1>7, <1>8, <1>11

\* Alter: the cases fall through to the next, and after the last one nothing
\* is missing.
LEMMA AlterFound ==
  ASSUME db \in Db, db' \in Db, Found(db, step, at), "io" \notin faults', Alter
  PROVE  Found(db', step', at')
<1>1. at \in 2..(Current - 1) /\ at # 10
  BY DEF Alter, Found
<1>2. CASE step' = "unlink"
  BY <1>2, CaseRan DEF Found
<1>3. CASE step' # "unlink" /\ at = Current - 1
  <2>1. step' = "version" /\ UpTo(db', Current) /\ Versioned(db')
    BY <1>3, CaseRan, SMT DEF AfterCase, Current
  <2>2. Complete(db')
    BY <2>1, CompleteIffAll, SMT DEF Versioned, Current
  <2> QED
    BY <2>1, <2>2 DEF Found
<1>4. CASE step' # "unlink" /\ at # Current - 1
  <2>1. step' = "alter" /\ UpTo(db', at + 1) /\ Versioned(db') /\ at' = NextCase(at)
    BY <1>4, CaseRan DEF AfterCase, Alter
  <2>2. at' \in 2..(Current - 1) /\ at' # 10
    BY <2>1, <1>1, <1>4, SMT DEF NextCase, Current
  <2>3. UpTo(db', at')
    <3>1. \A j \in DOMAIN ColumnOf \cup DOMAIN TableOf : j \in Nat /\ j # 10
      BY Names, SMT
    <3>2. \A j \in DOMAIN ColumnOf \cup DOMAIN TableOf : j < at' => j < at + 1
      BY <2>1, <1>1, <3>1, SMT DEF NextCase, Current
    <3> QED
      BY <2>1, <3>2 DEF UpTo
  <2> QED
    BY <2>1, <2>2, <2>3 DEF Found
<1> QED BY <1>2, <1>3, <1>4

\* SetVersion: the complete database gets the current version.
LEMMA VersionFound ==
  ASSUME db \in Db, db' \in Db, Found(db, step, at), "io" \notin faults', SetVersion
  PROVE  Found(db', step', at') /\ step' = "loaded" /\ db'.version = Current /\ db'.rows = db.rows
<1>1. Complete(db) /\ "schema" \in db.tables
  BY DEF SetVersion, Found, Complete
<1>2. step' = "loaded" /\ db' = [db EXCEPT !.version = Current]
  BY <1>1 DEF SetVersion, Statement
<1>3. db'.version = Current /\ db'.tables = db.tables /\ db'.columns = db.columns /\ db'.rows = db.rows
  BY <1>2 DEF Db
<1>4. Complete(db')
  BY <1>1, <1>3 DEF Complete
<1>5. FirstCase(db'.version) = Current /\ Current \in Nat /\ Current >= 2
  BY <1>3, SMT DEF FirstCase, Current
<1>6. Versioned(db')
  BY <1>3, <1>4, <1>5, CompleteIffAll, SMT DEF Versioned
<1> QED
  BY <1>2, <1>3, <1>4, <1>6 DEF Found

\* FoundInv is inductive.
LEMMA FoundStep ==
  ASSUME FoundInv, [MigrationNext]_migrationVars PROVE FoundInv'
<1>1. CASE UNCHANGED migrationVars
  BY <1>1 DEF migrationVars, FoundInv
<1>2. CASE MigrationNext
  <2>1. db \in Db /\ db' \in Db
    BY <1>2, TypedStep DEF FoundInv
  <2>2. faults \subseteq faults'
    BY <1>2 DEF MigrationNext, Load, LoadMisread, Create, Rename, Recreate, Copy, Drop, Alter, AddColumn, AddTable,
                SetVersion, Unlink, CreateEmpty, Stop, Crash, AddRow, RemoveRows, Statement
  <2> SUFFICES ASSUME "io" \notin faults' PROVE Found(db', step', at')
    BY <2>1 DEF FoundInv
  <2>3. Found(db, step, at)
    BY <2>2 DEF FoundInv
  <2>4. CASE Load
    BY <2>4, LoadFound DEF FoundInv
  <2>5. CASE LoadMisread
    BY <2>5 DEF LoadMisread
  <2>6. CASE Create \/ Recreate \/ CreateEmpty
    BY <2>6, CreateFound DEF FoundInv
  <2>7. CASE Rename \/ Copy \/ Drop
    BY <2>7, <2>1, <2>3, RenameFound
  <2>8. CASE Alter
    BY <2>8, <2>1, <2>3, AlterFound
  <2>9. CASE SetVersion
    BY <2>9, <2>1, <2>3, VersionFound
  <2>10. CASE Unlink
    <3>1. db' = NoFile /\ step' = "empty"
      BY <2>10 DEF Unlink, Statement
    <3> QED
      BY <3>1 DEF Found, Unversioned, NoFile, Database
  <2>11. CASE Stop \/ Crash
    <3>1. db' = db /\ step' = "down"
      BY <2>11 DEF Stop, Crash
    <3> QED
      BY <3>1, <2>3 DEF Found
  <2>12. ASSUME NEW r \in Row, AddRow(r) PROVE Found(db', step', at')
    <3>1. db'.tables = db.tables /\ db'.columns = db.columns /\ db'.version = db.version
          /\ step = "loaded" /\ step' = "loaded"
      BY <2>12, <2>1 DEF AddRow, Db
    <3> QED
      BY <3>1, <2>1, <2>3, SameFound DEF Found
  <2>13. ASSUME NEW gone, RemoveRows(gone) PROVE Found(db', step', at')
    <3>1. db'.tables = db.tables /\ db'.columns = db.columns /\ db'.version = db.version
          /\ step = "loaded" /\ step' = "loaded"
      BY <2>13, <2>1 DEF RemoveRows, Db
    <3> QED
      BY <3>1, <2>1, <2>3, SameFound DEF Found
  <2> QED
    BY <1>2, <2>4, <2>5, <2>6, <2>7, <2>8, <2>9, <2>10, <2>11, <2>12, <2>13 DEF MigrationNext
<1> QED BY <1>1, <1>2

\* Every statement of the migration finds what FoundInv says.
LEMMA FoundInvariant == MigrationSpec => []FoundInv
<1>1. MigrationInit => FoundInv
  BY ReleasedFound DEF MigrationInit, FoundInv, Found
<1> QED
  BY <1>1, FoundStep, PTL DEF MigrationSpec

\* A database that has been loaded has every table and every column that the
\* statements of fu-history.c name: from every released schema, for any rows,
\* and however often the daemon died during fu_history_load().
THEOREM LoadedIsCompleteCorrect == MigrationSpec => []LoadedIsComplete
<1>1. FoundInv => LoadedIsComplete
  BY DEF FoundInv, Found, LoadedIsComplete
<1> QED
  BY <1>1, FoundInvariant, PTL

\* The statements, when Safe holds after them: none of them fails.
LEMMA RowsStatements ==
  ASSUME FoundInv, FoundInv', RowsInv, Safe', Safe,
         Create \/ Rename \/ Recreate \/ Copy \/ Drop \/ Alter \/ SetVersion \/ Unlink \/ CreateEmpty
  PROVE  RowsInv'
<1>1. /\ "io" \notin faults' /\ "io" \notin faults
      /\ db \in Db /\ db' \in Db /\ Found(db, step, at) /\ Found(db', step', at')
  BY DEF Safe, FoundInv
<1>2. /\ Rows(db, step, at, saved)
      /\ origin >= 3 => db.version >= 3 /\ step \in {"down", "alter", "version", "loaded"}
  BY DEF RowsInv
<1>3. saved' = saved /\ origin' = origin
  BY DEF Create, Rename, Recreate, Copy, Drop, Alter, SetVersion, Unlink, CreateEmpty
<1> SUFFICES /\ Rows(db', step', at', saved)
             /\ origin >= 3 => db'.version >= 3 /\ step' \in {"down", "alter", "version", "loaded"}
  BY <1>3 DEF RowsInv
<1>4. CASE Create
  <2>1. step = "create" /\ db.tables = {} /\ saved \subseteq db.rows /\ CreateWorks
    BY <1>4, <1>2 DEF Create, Rows, CreateWorks
  <2>2. db' = Created /\ step' = "version"
    BY <2>1, <1>4, <1>1 DEF Create, Statement
  <2>3. db'.rows = db.rows
    BY <2>2, <1>1 DEF Created, Db
  <2> QED
    BY <2>1, <2>2, <2>3, <1>2 DEF Rows
<1>5. CASE Rename
  <2>1. step = "rename" /\ db.tables = {"history"} /\ saved \subseteq db.rows
    BY <1>5, <1>2 DEF Rename, Rows
  <2>2. step' = "recreate" /\ db'.tables = {"history_old"} /\ db'.old = db.rows
    BY <2>1, <1>5, <1>1 DEF Rename, Statement, Db
  <2> QED
    BY <2>1, <2>2, <1>2 DEF Rows
<1>6. CASE Recreate
  <2>1. step = "recreate" /\ db.tables = {"history_old"} /\ saved \subseteq db.rows \cup db.old /\ CreateWorks
    BY <1>6, <1>2 DEF Recreate, Rows, CreateWorks
  <2>2. db' = Created /\ step' = "copy"
    BY <2>1, <1>6, <1>1 DEF Recreate, Statement
  <2>3. db'.rows = db.rows /\ db'.old = db.old /\ "history_old" \in db'.tables
    BY <2>1, <2>2, <1>1 DEF Created, Db
  <2> QED
    BY <2>1, <2>2, <2>3, <1>2 DEF Rows
<1>7. CASE Copy
  <2>1. step = "copy" /\ "history_old" \in db.tables /\ saved \subseteq db.rows \cup db.old
    BY <1>7, <1>2 DEF Copy, Rows
  <2>2. step' = "drop" /\ db'.rows = db.rows \cup db.old /\ db'.tables = db.tables
    BY <2>1, <1>7, <1>1 DEF Copy, Statement, Db
  <2> QED
    BY <2>1, <2>2, <1>2 DEF Rows
<1>8. CASE Drop
  <2>1. step = "drop" /\ saved \subseteq db.rows
    BY <1>8, <1>2 DEF Drop, Rows
  <2>2. step' = "version" /\ db'.rows = db.rows
    BY <2>1, <1>8, <1>1 DEF Drop, Statement, Db
  <2> QED
    BY <2>1, <2>2, <1>2 DEF Rows
<1>9. CASE Alter
  <2>1. step = "alter" /\ saved \subseteq db.rows /\ (at = 2 => ColumnOf[2] \notin db.columns) /\ at \in 2..(Current - 1)
    BY <1>9, <1>1, <1>2 DEF Alter, Rows, Found
  <2>2. step' = AfterCase(at) /\ db'.rows = db.rows /\ db'.version = db.version
    BY <2>1, <1>9, <1>1, CaseRan
  <2>3. step' = "version" \/ (step' = "alter" /\ at' # 2)
    BY <2>1, <2>2, <1>9, SMT DEF Alter, AfterCase, NextCase, Current
  <2> QED
    BY <2>1, <2>2, <2>3, <1>2 DEF Rows
<1>10. CASE SetVersion
  <2>1. step = "version" /\ saved \subseteq db.rows
    BY <1>10, <1>2 DEF SetVersion, Rows
  <2>2. step' = "loaded" /\ db'.version = Current /\ db'.rows = db.rows
    BY <1>10, <1>1, VersionFound
  <2> QED
    BY <2>1, <2>2, SMT DEF Rows, Current
<1>11. CASE Unlink \/ CreateEmpty
  BY <1>11, <1>2 DEF Unlink, CreateEmpty, Rows
<1> QED
  BY <1>4, <1>5, <1>6, <1>7, <1>8, <1>9, <1>10, <1>11

\* Load: a database that is not current is migrated from where it is.
LEMMA RowsLoad ==
  ASSUME FoundInv, RowsInv, Safe, Load PROVE RowsInv'
<1>1. /\ db \in Db /\ db.version \in Nat /\ Found(db, step, at) /\ step = "down"
      /\ Rows(db, step, at, saved) /\ (origin >= 3 => db.version >= 3)
  BY SMT DEF Safe, FoundInv, RowsInv, Load, LoadAs, Db
<1>2. db' = db /\ saved' = saved /\ origin' = origin
  BY DEF Load, LoadAs
<1>3. saved \subseteq db.rows /\ (db.version >= 3 \/ Untouched(db)) /\ (Unversioned(db) \/ Versioned(db))
  BY <1>1 DEF Rows, Found
<1> SUFFICES /\ Rows(db, step', at', saved)
             /\ origin >= 3 => db.version >= 3 /\ step' \in {"down", "alter", "version", "loaded"}
  BY <1>2 DEF RowsInv
<1>4. CASE db.version >= 3
  <2>1. SchemaVersion = db.version
    BY <1>3, <1>4, SMT DEF Versioned, Unversioned, SchemaVersion
  <2>2. step' = "loaded" \/ (step' = "alter" /\ at' # 2)
    BY <2>1, <1>1, <1>4, SMT DEF Load, LoadAs, FirstCase, Current
  <2> QED
    BY <2>2, <1>1, <1>3, <1>4 DEF Rows
<1>5. CASE db.version = 0 /\ db.tables = {}
  <2>1. step' = "create"
    BY <1>5, SMT DEF Load, LoadAs, SchemaVersion, Current
  <2> QED
    BY <2>1, <1>1, <1>3, <1>5, SMTT(30), ZenonT(30) DEF Rows
<1>6. CASE db.version = 0 /\ db.tables = {"history"}
  <2>1. step' = "rename"
    BY <1>6, SMT DEF Load, LoadAs, SchemaVersion, Current
  <2> QED
    BY <2>1, <1>1, <1>3, <1>6, SMTT(30), ZenonT(30) DEF Rows
<1>7. CASE db.version = 2 /\ ColumnOf[2] \notin db.columns
  <2>1. SchemaVersion = 2
    BY <1>3, <1>7, SMT DEF Versioned, Unversioned, SchemaVersion
  <2>2. step' = "alter"
    BY <2>1, SMT DEF Load, LoadAs, Current
  <2> QED
    BY <2>2, <1>1, <1>3, <1>7 DEF Rows
<1> QED
  BY <1>3, <1>4, <1>5, <1>6, <1>7 DEF Untouched

\* RowsInv is inductive where FoundInv holds.
LEMMA RowsStep ==
  ASSUME FoundInv, FoundInv', RowsInv, [MigrationNext]_migrationVars PROVE RowsInv'
<1>1. CASE UNCHANGED migrationVars
  BY <1>1 DEF migrationVars, RowsInv, Safe
<1>2. CASE MigrationNext
  <2>1. faults \subseteq faults' /\ origin' = origin
    BY <1>2 DEF MigrationNext, Load, LoadMisread, LoadAs, Create, Rename, Recreate, Copy, Drop, Alter, AddColumn,
                AddTable, SetVersion, Unlink, CreateEmpty, Stop, Crash, AddRow, RemoveRows, Statement
  <2> SUFFICES ASSUME Safe' PROVE RowsInv'
    BY DEF RowsInv
  <2>2. Safe
    BY <2>1 DEF Safe
  <2>3. /\ Rows(db, step, at, saved) /\ db \in Db
        /\ origin >= 3 => db.version >= 3 /\ step \in {"down", "alter", "version", "loaded"}
    BY <2>2 DEF RowsInv, FoundInv
  <2>4. CASE Load
    BY <2>2, <2>4, RowsLoad
  <2>5. CASE LoadMisread
    BY <2>5 DEF LoadMisread, Safe
  <2>6. CASE Create \/ Rename \/ Recreate \/ Copy \/ Drop \/ Alter \/ SetVersion \/ Unlink \/ CreateEmpty
    BY <2>2, <2>6, RowsStatements
  <2>7. CASE Stop
    <3>1. db' = db /\ step = "loaded" /\ step' = "down" /\ saved' = saved
      BY <2>7 DEF Stop
    <3> QED
      BY <3>1, <2>1, <2>3 DEF RowsInv, Rows
  <2>8. CASE Crash
    <3>1. db' = db /\ step' = "down" /\ saved' = saved /\ "crash" \in faults'
      BY <2>8 DEF Crash
    <3>2. origin >= 3
      BY <3>1, <2>1 DEF Safe
    <3> QED
      BY <3>1, <3>2, <2>1, <2>3 DEF RowsInv, Rows
  <2>9. ASSUME NEW r \in Row, AddRow(r) PROVE RowsInv'
    <3>1. /\ db'.rows = db.rows \cup {r} /\ db'.version = db.version /\ saved' = saved \cup {r}
          /\ step = "loaded" /\ step' = "loaded"
      BY <2>9, <2>3 DEF AddRow, Db
    <3> QED
      BY <3>1, <2>1, <2>3 DEF RowsInv, Rows
  <2>10. ASSUME NEW gone, RemoveRows(gone) PROVE RowsInv'
    <3>1. /\ db'.rows = db.rows \ gone /\ db'.version = db.version /\ saved' = saved \ gone
          /\ step = "loaded" /\ step' = "loaded"
      BY <2>10, <2>3 DEF RemoveRows, Db
    <3> QED
      BY <3>1, <2>1, <2>3 DEF RowsInv, Rows
  <2> QED
    BY <1>2, <2>4, <2>5, <2>6, <2>7, <2>8, <2>9, <2>10 DEF MigrationNext
<1> QED BY <1>1, <1>2

\* The migration loses no row, for any rows and any number of loads: from
\* every released schema when the daemon does not die, and from version 3 on
\* also when it dies at any statement and migrates again.
THEOREM RowsKeptCorrect == MigrationSpec => []RowsKept
<1>1. MigrationInit => RowsInv
  BY ReleasedFound, SMTT(30), ZenonT(30) DEF MigrationInit, RowsInv, Safe, Rows, Current
<1>2. RowsInv => RowsKept
  BY DEF RowsInv, Safe, Rows, RowsKept
<1> QED
  BY <1>1, <1>2, RowsStep, FoundInvariant, PTL DEF MigrationSpec

-----------------------------------------------------------------------------
(* When the ordering of the plugins fails.                                 *)

\* A set of plugins has one with the smallest number.
LEMMA Smallest ==
  ASSUME NEW f \in [Here -> Nat], NEW S \in SUBSET Here, S # {}
  PROVE  \E p \in S : \A q \in S : f[p] <= f[q]
<1> DEFINE T == {f[p] : p \in S}
<1>1. T \subseteq Nat /\ T # {}
  OBVIOUS
<1> DEFINE Less == OpToRel(<, Nat)
<1>2. IsWellFoundedOn(Less, Nat)
  BY NatLessThanWellFounded
<1>3. \A m, n \in Nat : <<m, n>> \in Less <=> m < n
  BY DEF OpToRel
<1> HIDE DEF Less, T
<1>4. PICK m \in T : \A n \in T : <<n, m>> \notin Less
  BY <1>1, <1>2, WFMin
<1> USE DEF T
<1>5. PICK p \in S : f[p] = m
  OBVIOUS
<1>6. ASSUME NEW q \in S PROVE f[p] <= f[q]
  <2>1. f[q] \in Nat /\ f[q] \in T /\ f[p] \in Nat
    OBVIOUS
  <2>2. <<f[q], f[p]>> \notin Less
    BY <1>4, <1>5, <2>1
  <2> QED
    BY <1>3, <2>1, <2>2, SMT
<1> QED
  BY <1>6

\* The numbers put the plugins in an order that E asks for.
Ranked(f, E) == \A e \in E : f[e[1]] < f[e[2]]

\* What numbers can put in order is not circular.
LEMMA RankedIsAcyclic ==
  ASSUME NEW f \in [Here -> Nat], NEW E \in SUBSET (Here \X Here), Ranked(f, E)
  PROVE  Acyclic(E)
<1> SUFFICES ASSUME NEW S \in SUBSET Here, S # {}
             PROVE  \E p \in S : \A q \in S : <<q, p>> \notin E
  BY DEF Acyclic
<1>1. PICK p \in S : \A q \in S : f[p] <= f[q]
  BY Smallest
<1>2. ASSUME NEW q \in S, <<q, p>> \in E PROVE FALSE
  <2>1. f[q] < f[p]
    BY <1>2 DEF Ranked
  <2> QED
    BY <1>1, <2>1, SMT
<1> QED
  BY <1>2

\* Every plugin with a number has been promoted over one that E puts before it.
Supported(f, E) ==
  \A p \in Here : f[p] > 0 => \E q \in Here : <<q, p>> \in E /\ f[q] >= f[p] - 1

\* When E is not circular, the numbers have no gap.
LEMMA NoGap ==
  ASSUME NEW f \in [Here -> Nat], NEW E, Acyclic(E), Supported(f, E),
         NEW p \in Here, NEW m \in Nat, m <= f[p]
  PROVE  \E q \in Here : f[q] = m
<1>1. CASE m = f[p]
  BY <1>1
<1>2. CASE m # f[p]
  <2> DEFINE S == {x \in Here : f[x] >= m + 1}
  <2>1. p \in S /\ S \in SUBSET Here
    BY <1>2, SMT
  <2>2. PICK x \in S : \A y \in S : <<y, x>> \notin E
    BY <2>1 DEF Acyclic
  <2>3. f[x] >= m + 1 /\ f[x] \in Nat
    OBVIOUS
  <2>4. PICK q \in Here : <<q, x>> \in E /\ f[q] >= f[x] - 1
    BY <2>3, SMT DEF Supported
  <2>5. ~(f[q] >= m + 1) /\ f[q] \in Nat
    BY <2>2, <2>4
  <2> QED
    BY <2>3, <2>4, <2>5, SMT
<1> QED
  BY <1>1, <1>2

\* Finitely many plugins are loaded.
LEMMA HereFinite == IsFiniteSet(Here) /\ Cardinality(Here) \in Nat
<1>1. DOMAIN Loaded = 1 .. Len(Loaded) /\ Len(Loaded) \in Nat
  BY PluginAssumption, SMT
<1>2. IsFiniteSet(DOMAIN Loaded)
  BY <1>1, FS_Interval, SMT
<1>3. Loaded \in [DOMAIN Loaded -> Here]
  BY PluginAssumption, SMT DEF Here
<1>4. Loaded \in Surjection(DOMAIN Loaded, Here)
  BY <1>3 DEF Surjection, Here
<1> QED
  BY <1>2, <1>4, FS_Surjection, FS_CardinalityType

\* So that they are less than the number of plugins.
LEMMA NumbersBounded ==
  ASSUME NEW f \in [Here -> Nat], NEW E, Acyclic(E), Supported(f, E), NEW p \in Here
  PROVE  f[p] < Cardinality(Here)
<1> DEFINE T == {f[q] : q \in Here}
<1>1. f \in Surjection(Here, T)
  BY DEF Surjection
<1>2. IsFiniteSet(T) /\ Cardinality(T) <= Cardinality(Here)
  BY <1>1, HereFinite, FS_Surjection
<1>3. 0 .. f[p] \in SUBSET T
  <2>1. f[p] \in Nat
    OBVIOUS
  <2>2. \A m \in 0 .. f[p] : \E q \in Here : f[q] = m
    BY <2>1, NoGap, SMT
  <2> QED
    BY <2>2
<1>4. f[p] \in Nat
  OBVIOUS
<1> HIDE DEF T
<1>5. Cardinality(0 .. f[p]) <= Cardinality(T) /\ Cardinality(T) \in Nat
  BY <1>2, <1>3, FS_Subset, FS_CardinalityType
<1>6. Cardinality(0 .. f[p]) = f[p] + 1
  BY <1>4, FS_Interval, SMT
<1> QED
  BY <1>2, <1>4, <1>5, <1>6, HereFinite, SMT

\* The numbers that have been passed, which a promotion adds to.
Cells(f) == {c \in Here \X Nat : c[2] < f[c[1]]}

\* A promotion of p over q passes at least one more number, and p is supported.
LEMMA PromotionGrows ==
  ASSUME NEW f \in [Here -> Nat], NEW E, NEW p \in Here, NEW q \in Here, <<q, p>> \in E,
         f[p] <= f[q], Supported(f, E), IsFiniteSet(Cells(f))
  PROVE  LET g == [f EXCEPT ![p] = f[q] + 1] IN
         /\ Supported(g, E)
         /\ IsFiniteSet(Cells(g)) /\ Cardinality(Cells(g)) >= Cardinality(Cells(f)) + 1
<1> DEFINE g == [f EXCEPT ![p] = f[q] + 1]
<1>1. /\ g \in [Here -> Nat] /\ g[p] = f[q] + 1 /\ g[p] > f[p]
      /\ \A x \in Here : x # p => g[x] = f[x]
      /\ \A x \in Here : f[x] \in Nat /\ g[x] \in Nat /\ g[x] >= f[x]
  BY SMT
<1> HIDE DEF g
<1>2. Supported(g, E)
  <2> SUFFICES ASSUME NEW x \in Here, g[x] > 0
               PROVE  \E y \in Here : <<y, x>> \in E /\ g[y] >= g[x] - 1
    BY DEF Supported
  <2>1. CASE x = p
    <3>1. g[q] >= f[q] /\ f[q] \in Nat /\ g[q] \in Nat /\ g[p] = f[q] + 1
      BY <1>1
    <3>2. g[q] >= g[x] - 1
      BY <2>1, <3>1, SMT
    <3> QED
      BY <2>1, <3>2
  <2>2. CASE x # p
    <3>1. PICK y \in Here : <<y, x>> \in E /\ f[y] >= f[x] - 1
      BY <1>1, <2>2 DEF Supported
    <3>2. g[y] >= f[y] /\ g[x] = f[x] /\ g[y] \in Nat /\ f[y] \in Nat /\ f[x] \in Nat
      BY <1>1, <2>2
    <3>3. g[y] >= g[x] - 1
      BY <3>1, <3>2, SMT
    <3> QED
      BY <3>1, <3>3
  <2> QED
    BY <2>1, <2>2
<1>3. IsFiniteSet(Cells(g))
  <2> DEFINE new == {p} \X (0 .. g[p])
  <2>1. IsFiniteSet({p})
    BY FS_Singleton
  <2>2. 0 \in Int /\ g[p] \in Int
    BY <1>1, SMT
  <2>3. IsFiniteSet(0 .. g[p])
    BY <2>2, FS_Interval
  <2>4. IsFiniteSet(new)
    BY <2>1, <2>3, FS_Product
  <2>5. Cells(g) \in SUBSET (Cells(f) \cup new)
    BY <1>1, SMT DEF Cells
  <2> HIDE DEF new
  <2>6. IsFiniteSet(Cells(f) \cup new)
    BY <2>4, FS_Union
  <2> QED
    BY <2>5, <2>6, FS_Subset
<1>4. Cardinality(Cells(g)) >= Cardinality(Cells(f)) + 1
  <2>1. <<p, f[p]>> \notin Cells(f)
    BY <1>1, SMT DEF Cells
  <2>2. Cells(f) \cup {<<p, f[p]>>} \in SUBSET Cells(g)
    BY <1>1, SMT DEF Cells
  <2>3. Cardinality(Cells(f) \cup {<<p, f[p]>>}) = Cardinality(Cells(f)) + 1
    BY <2>1, FS_AddElement
  <2>4. Cardinality(Cells(f) \cup {<<p, f[p]>>}) <= Cardinality(Cells(g))
    BY <1>3, <2>2, FS_Subset
  <2>5. Cardinality(Cells(f)) \in Nat /\ Cardinality(Cells(g)) \in Nat
    BY <1>3, FS_CardinalityType
  <2> QED
    BY <2>3, <2>4, <2>5
<1> QED
  BY <1>2, <1>3, <1>4 DEF g

\* Without a circle no more than this many numbers can be passed.
LEMMA CellsBounded ==
  ASSUME NEW f \in [Here -> Nat], NEW E, Acyclic(E), Supported(f, E)
  PROVE  Cardinality(Cells(f)) <= Cardinality(Here) * Cardinality(Here)
<1> DEFINE N == Cardinality(Here)
           all == Here \X (0 .. (N - 1))
<1>1. N \in Nat /\ IsFiniteSet(Here)
  BY HereFinite
<1>2. IsFiniteSet(0 .. (N - 1)) /\ Cardinality(0 .. (N - 1)) = N
  BY <1>1, FS_Interval, SMTT(30), ZenonT(30)
<1>3. IsFiniteSet(all) /\ Cardinality(all) = N * N
  BY <1>1, <1>2, FS_Product, SMT
<1>4. \A p \in Here : f[p] \in Nat /\ f[p] < N
  BY NumbersBounded
<1> HIDE DEF N
<1>5. Cells(f) \in SUBSET all
  BY <1>1, <1>4, SMT DEF Cells
<1> HIDE DEF all
<1>6. Cardinality(Cells(f)) <= Cardinality(all)
  BY <1>3, <1>5, FS_Subset
<1> QED
  BY <1>3, <1>6 DEF N

\* There have been as many passes as promotions, and as many promotions as
\* numbers have been passed, or fewer.
PassInv ==
  /\ passes \in Nat
  /\ IsFiniteSet(Cells(order)) /\ IsFiniteSet(Cells(priority))
  /\ solving \in {"order", "failed"} => Supported(order, Precedes) /\ Supported(priority, Worse)
  /\ solving = "order" => passes <= Cardinality(Cells(order)) + Cardinality(Cells(priority))
  /\ solving = "failed" => LoopLimit < Cardinality(Cells(order)) + Cardinality(Cells(priority))

\* The ordering has not begun.
LEMMA PassInitInv == PluginInit => PassInv
<1> SUFFICES ASSUME PluginInit PROVE PassInv
  OBVIOUS
<1>1. order \in [Here -> Nat] /\ priority \in [Here -> Nat] /\ \A p \in Here : order[p] = 0 /\ priority[p] = 0
  BY DEF PluginInit
<1>2. Cells(order) = {} /\ Cells(priority) = {}
  BY <1>1, SMT DEF Cells
<1>3. Supported(order, Precedes) /\ Supported(priority, Worse)
  BY <1>1, SMT DEF Supported
<1> QED
  BY <1>2, <1>3, FS_EmptySet, SMT DEF PluginInit, PassInv

\* One promotion.
LEMMA PromoteGrows ==
  ASSUME OrderInv, PassInv, solving = "order", Promote
  PROVE  /\ Supported(order', Precedes) /\ Supported(priority', Worse)
         /\ IsFiniteSet(Cells(order')) /\ IsFiniteSet(Cells(priority'))
         /\ Cardinality(Cells(order')) + Cardinality(Cells(priority')) >=
              Cardinality(Cells(order)) + Cardinality(Cells(priority)) + 1
<1>1. /\ order \in [Here -> Nat] /\ priority \in [Here -> Nat] /\ disabled = skipped
      /\ Supported(order, Precedes) /\ Supported(priority, Worse)
      /\ IsFiniteSet(Cells(order)) /\ IsFiniteSet(Cells(priority))
      /\ rules.after \subseteq Rule /\ rules.before \subseteq Rule /\ rules.better \subseteq Rule
  BY DEF OrderInv, Shape, PassInv, Records
<1>2. Cardinality(Cells(order)) \in Nat /\ Cardinality(Cells(priority)) \in Nat
  BY <1>1, FS_CardinalityType
<1>3. ASSUME NEW p \in Here, NEW q \in Here, <<q, p>> \in Precedes, order[p] <= order[q],
             order' = [order EXCEPT ![p] = order[q] + 1], priority' = priority
      PROVE  /\ Supported(order', Precedes) /\ IsFiniteSet(Cells(order'))
             /\ Cardinality(Cells(order')) >= Cardinality(Cells(order)) + 1 /\ Cardinality(Cells(order')) \in Nat
  BY <1>1, <1>3, PromotionGrows, FS_CardinalityType
<1>4. ASSUME NEW p \in Here, NEW q \in Here, <<q, p>> \in Worse, priority[p] <= priority[q],
             priority' = [priority EXCEPT ![p] = priority[q] + 1], order' = order
      PROVE  /\ Supported(priority', Worse) /\ IsFiniteSet(Cells(priority'))
             /\ Cardinality(Cells(priority')) >= Cardinality(Cells(priority)) + 1 /\ Cardinality(Cells(priority')) \in Nat
  BY <1>1, <1>4, PromotionGrows, FS_CardinalityType
<1>5. CASE \E r \in First(LateAfter) :
             order' = [order EXCEPT ![r[1]] = order[r[2]] + 1] /\ priority' = priority
  <2>1. PICK r \in First(LateAfter) :
             order' = [order EXCEPT ![r[1]] = order[r[2]] + 1] /\ priority' = priority
    BY <1>5
  <2>2. r[1] \in Here /\ r[2] \in Here /\ order[r[1]] <= order[r[2]] /\ r \in rules.after /\ Counts(r)
    BY <1>1, <2>1 DEF First, LateAfter, Applies, Counts
  <2>3. <<r[2], r[1]>> \in Precedes
    BY <2>2 DEF Precedes
  <2>4. /\ Supported(order', Precedes) /\ IsFiniteSet(Cells(order'))
        /\ Cardinality(Cells(order')) >= Cardinality(Cells(order)) + 1 /\ Cardinality(Cells(order')) \in Nat
    BY <1>3, <2>1, <2>2, <2>3
  <2> QED
    BY <1>1, <1>2, <2>1, <2>4, SMTT(30), ZenonT(30)
<1>6. CASE \E r \in First(LateBefore) :
             order' = [order EXCEPT ![r[2]] = order[r[1]] + 1] /\ priority' = priority
  <2>1. PICK r \in First(LateBefore) :
             order' = [order EXCEPT ![r[2]] = order[r[1]] + 1] /\ priority' = priority
    BY <1>6
  <2>2. r[1] \in Here /\ r[2] \in Here /\ order[r[2]] <= order[r[1]] /\ r \in rules.before /\ Counts(r)
    BY <1>1, <2>1 DEF First, LateBefore, Applies, Counts
  <2>3. <<r[1], r[2]>> \in Precedes
    BY <1>1, <2>2, SMT DEF Precedes, Rule
  <2>4. /\ Supported(order', Precedes) /\ IsFiniteSet(Cells(order'))
        /\ Cardinality(Cells(order')) >= Cardinality(Cells(order)) + 1 /\ Cardinality(Cells(order')) \in Nat
    BY <1>3, <2>1, <2>2, <2>3
  <2> QED
    BY <1>1, <1>2, <2>1, <2>4, SMTT(30), ZenonT(30)
<1>7. CASE \E r \in First(NotBetter) :
             priority' = [priority EXCEPT ![r[1]] = priority[r[2]] + 1] /\ order' = order
  <2>1. PICK r \in First(NotBetter) :
             priority' = [priority EXCEPT ![r[1]] = priority[r[2]] + 1] /\ order' = order
    BY <1>7
  <2>2. r[1] \in Here /\ r[2] \in Here /\ priority[r[1]] <= priority[r[2]] /\ r \in rules.better /\ Counts(r)
    BY <1>1, <2>1 DEF First, NotBetter, Applies, Counts
  <2>3. <<r[2], r[1]>> \in Worse
    BY <2>2 DEF Worse
  <2>4. /\ Supported(priority', Worse) /\ IsFiniteSet(Cells(priority'))
        /\ Cardinality(Cells(priority')) >= Cardinality(Cells(priority)) + 1 /\ Cardinality(Cells(priority')) \in Nat
    BY <1>4, <2>1, <2>2, <2>3
  <2> QED
    BY <1>1, <1>2, <2>1, <2>4, SMTT(30), ZenonT(30)
<1> QED
  BY <1>5, <1>6, <1>7 DEF Promote

\* Every step keeps the relation of the passes and the promotions.
LEMMA PassStep == PassInv /\ OrderInv /\ [PluginNext]_pluginVars => PassInv'
<1> SUFFICES ASSUME PassInv, OrderInv, [PluginNext]_pluginVars PROVE PassInv'
  OBVIOUS
<1>1. CASE Pass
  <2>1. /\ solving = "order" /\ passes \in Nat /\ passes' = passes + 1
        /\ rules' = rules /\ skipped' = skipped /\ LoopLimit \in Nat
        /\ passes <= Cardinality(Cells(order)) + Cardinality(Cells(priority))
        /\ IsFiniteSet(Cells(order)) /\ IsFiniteSet(Cells(priority))
        /\ Supported(order, Precedes) /\ Supported(priority, Worse)
    BY <1>1, PluginAssumption DEF Pass, PassInv
  <2>2. Precedes' = Precedes /\ Worse' = Worse
    BY <2>1 DEF Precedes, Worse, Counts
  <2>3. Cardinality(Cells(order)) \in Nat /\ Cardinality(Cells(priority)) \in Nat
    BY <2>1, FS_CardinalityType
  <2>4. CASE ~Settled /\ Promote
    <3>1. /\ Supported(order', Precedes) /\ Supported(priority', Worse)
          /\ IsFiniteSet(Cells(order')) /\ IsFiniteSet(Cells(priority'))
          /\ Cardinality(Cells(order')) + Cardinality(Cells(priority')) >=
               Cardinality(Cells(order)) + Cardinality(Cells(priority)) + 1
      BY <2>1, <2>4, PromoteGrows
    <3>2. Cardinality(Cells(order')) \in Nat /\ Cardinality(Cells(priority')) \in Nat
      BY <3>1, FS_CardinalityType
    <3>3. solving' = IF passes > LoopLimit THEN "failed" ELSE "order"
      BY <1>1, <2>4 DEF Pass
    <3>4. /\ passes' <= Cardinality(Cells(order')) + Cardinality(Cells(priority'))
          /\ solving' = "failed" => LoopLimit < Cardinality(Cells(order')) + Cardinality(Cells(priority'))
      BY <2>1, <2>3, <3>1, <3>2, <3>3, SMTT(30), ZenonT(30)
    <3>5. Cells(order)' = Cells(order') /\ Cells(priority)' = Cells(priority')
      BY Zenon DEF Cells
    <3>6. Supported(order, Precedes)' /\ Supported(priority, Worse)'
      BY <2>1, <2>2, <3>1 DEF Supported
    <3>7. passes' \in Nat /\ solving' \in {"order", "failed"}
      BY <2>1, <3>3, SMT
    <3> QED
      BY <3>1, <3>4, <3>5, <3>6, <3>7 DEF PassInv
  <2>5. CASE Settled /\ UNCHANGED <<order, priority>>
    <3>1. solving' = IF passes > LoopLimit THEN "failed" ELSE "conflicts"
      BY <1>1, <2>5 DEF Pass
    <3>2. solving' = "failed" => LoopLimit < Cardinality(Cells(order)) + Cardinality(Cells(priority))
      BY <2>1, <2>3, <3>1, SMT
    <3>3. Cells(order)' = Cells(order) /\ Cells(priority)' = Cells(priority)
      BY <2>5 DEF Cells
    <3>4. Supported(order, Precedes)' /\ Supported(priority, Worse)'
      BY <2>1, <2>2, <2>5 DEF Supported
    <3> QED
      BY <2>1, <3>1, <3>2, <3>3, <3>4, SMTT(30), ZenonT(30) DEF PassInv
  <2> QED
    BY <1>1, <2>4, <2>5 DEF Pass
<1>2. CASE passes' = passes /\ order' = order /\ priority' = priority /\ solving' \notin {"order", "failed"}
  BY <1>2 DEF PassInv, Cells
<1>3. CASE UNCHANGED pluginVars
  BY <1>3, SMTT(30), ZenonT(30) DEF pluginVars, PassInv, Cells, Supported, Precedes, Worse, Counts
<1>4. ASSUME CheckConflicts \/ Sort \/ \E p \in Here : \E d \in Plugin \ {p} : LateConflict(p, d)
      PROVE  passes' = passes /\ order' = order /\ priority' = priority /\ solving' \notin {"order", "failed"}
  BY <1>4 DEF CheckConflicts, Sort, LateConflict
<1> QED
  BY <1>1, <1>2, <1>3, <1>4 DEF PluginNext

\* When the rules are met they are not circular.
LEMMA MetIsAcyclic ==
  ASSUME Shape, Met
  PROVE  Acyclic(Precedes) /\ Acyclic(Worse)
<1>1. order \in [Here -> Nat] /\ priority \in [Here -> Nat]
  BY DEF Shape
<1>2. Precedes \in SUBSET (Here \X Here) /\ Worse \in SUBSET (Here \X Here)
  BY SMTT(30), ZenonT(30) DEF Precedes, Worse, Counts, Shape, Records, Rule
<1>3. Ranked(order, Precedes) /\ Ranked(priority, Worse)
  BY SMT DEF Ranked, Precedes, Worse, Met
<1> QED
  BY <1>1, <1>2, <1>3, RankedIsAcyclic

\* fu_plugin_list_depsolve() never succeeds on rules that are circular, for any
\* plugins, rules and limit.
THEOREM CircularNeverSucceeds ==
  PluginSpec => [](solving \in {"conflicts", "done"} => Acyclic(Precedes) /\ Acyclic(Worse))
<1>1. PluginSpec => []OrderInv
  BY ShapeInit, OrderStep, PTL DEF PluginSpec
<1>2. OrderInv => (solving \in {"conflicts", "done"} => Acyclic(Precedes) /\ Acyclic(Worse))
  BY MetIsAcyclic DEF OrderInv
<1> QED
  BY <1>1, <1>2, PTL

\* When the limit of the passes is at least twice the square of the number of
\* plugins, fu_plugin_list_depsolve() fails exactly when the rules are circular:
\* a pass promotes one plugin, and without a circle no number can become as
\* large as the number of plugins.
THEOREM FailsIffCircularCorrect ==
  ASSUME LoopLimit >= 2 * (Cardinality(Here) * Cardinality(Here))
  PROVE  PluginSpec => []FailsIffCircular
<1>1. PluginSpec => [](OrderInv /\ PassInv)
  BY ShapeInit, OrderStep, PassInitInv, PassStep, PTL DEF PluginSpec
<1>2. ASSUME OrderInv, PassInv, solving = "failed", Acyclic(Precedes), Acyclic(Worse) PROVE FALSE
  <2>1. /\ order \in [Here -> Nat] /\ priority \in [Here -> Nat]
        /\ Supported(order, Precedes) /\ Supported(priority, Worse)
        /\ IsFiniteSet(Cells(order)) /\ IsFiniteSet(Cells(priority))
        /\ LoopLimit < Cardinality(Cells(order)) + Cardinality(Cells(priority))
    BY <1>2 DEF OrderInv, Shape, PassInv
  <2>2. Cardinality(Cells(order)) <= Cardinality(Here) * Cardinality(Here)
    BY <1>2, <2>1, CellsBounded
  <2>3. Cardinality(Cells(priority)) <= Cardinality(Here) * Cardinality(Here)
    BY <1>2, <2>1, CellsBounded
  <2>4. /\ Cardinality(Cells(order)) \in Nat /\ Cardinality(Cells(priority)) \in Nat
        /\ Cardinality(Here) * Cardinality(Here) \in Nat /\ LoopLimit \in Nat
    BY <2>1, HereFinite, FS_CardinalityType, PluginAssumption, SMT
  <2> QED
    BY <2>1, <2>2, <2>3, <2>4, SMT
<1>3. OrderInv /\ PassInv => FailsIffCircular
  BY <1>2, MetIsAcyclic DEF OrderInv, FailsIffCircular
<1> QED
  BY <1>1, <1>3, PTL
=============================================================================
