----------------------------- MODULE RemoteList -----------------------------
(****************************************************************************)
(* The remotes of the daemon (fu-remote-list.c): they are read from files   *)
(* in up to three directories, watched for changes, put in order by their   *)
(* OrderBefore and OrderAfter, and modified by clients.                     *)
(*                                                                          *)
(* A reload is one call in the daemon, but the files belong to other        *)
(* processes: it is one step for each directory, each file and each rule of *)
(* the ordering, and a file may change between any two of them.  A file     *)
(* monitor reports a change of a watched file, or of a file in a watched    *)
(* directory, to the main loop, and loses what it has not reported yet when *)
(* it is freed.  A file is the value of one key that clients may set, and   *)
(* its ordering; a file that cannot be loaded is not good, and one of which *)
(* no remote can be made, because of its URI for one, has no setup.  The    *)
(* metadata that belongs to the remote is left out.  The order of the files *)
(* of one directory and of the rules of one remote is left open.            *)
(****************************************************************************)
EXTENDS Naturals, Sequences, Functions

CONSTANTS
  Remote,     \* IDs of remotes, which are the names of the files, in alphabetical order
  DirOrder,   \* the directories, in the order they are searched; the first is mutable
  ReadOnly,   \* directories that the daemon may not write to
  Slot,       \* the files that may exist: <<directory, ID>>
  Value,      \* values of the key
  Content,    \* what a file may contain
  MaxRounds   \* rounds of the ordering, 100 in the code

Id == Range(Remote)
Dir == Range(DirOrder)
Absent == [good |-> FALSE, setup |-> FALSE, value |-> 0, before |-> {}, after |-> {}]

ASSUME RemoteAssumption ==
  /\ DirOrder \in Seq(Dir) /\ IsInjective(DirOrder)
  /\ Slot \subseteq Dir \X Id /\ ReadOnly \subseteq Dir
  /\ Content \subseteq [good : BOOLEAN, setup : BOOLEAN, value : Value, before : SUBSET Id, after : SUBSET Id]
  /\ Absent \notin Content /\ DirOrder[1] \notin ReadOnly /\ MaxRounds \in Nat \ {0}

VARIABLES
  files,     \* what each file contains, or Absent
  dirs,      \* the directories that exist
  remotes,   \* the list: ID, directory and content of each remote
  prio,      \* the priorities of the remotes
  watched,   \* directories and files with a monitor
  event,     \* a monitor has something to report
  loading,   \* "reading", "ordering", "idle", "stopped"
  starting,  \* the first load, without which the daemon does not start
  visited,   \* how many directories the reload has listed
  found,     \* the files of the last of them that it has yet to read
  pending,   \* the rules that the round of the ordering has yet to look at
  changes,   \* the round has changed a priority
  rounds,    \* depsolve_check
  failed,    \* the last reload failed
  unseen     \* directories made since the last reload looked for them (auxiliary)

orderVars == <<prio, pending, changes, rounds>>
remoteVars == <<files, dirs, remotes, watched, event, loading, starting, visited, found, failed, unseen, orderVars>>

Entry == [id : Id, dir : Dir, content : Content]
OrderRule == {"before", "after"} \X Id \X Id

FilesOK ==
  /\ files \in [Slot -> Content \cup {Absent}] /\ dirs \subseteq Dir /\ unseen \subseteq dirs
  /\ \A s \in Slot : files[s] # Absent => s[1] \in dirs

ListOK == remotes \in Seq(Entry) /\ \A i, j \in DOMAIN remotes : remotes[i].id = remotes[j].id => i = j

OrderOK == prio \in [Id -> Nat] /\ pending \subseteq OrderRule /\ changes \in BOOLEAN /\ rounds \in 0 .. MaxRounds

RemoteTypeOK ==
  /\ FilesOK /\ ListOK /\ OrderOK
  /\ watched \subseteq {<<d>> : d \in Dir} \cup Slot
  /\ visited \in 0 .. Len(DirOrder) /\ found \subseteq Slot
  /\ loading \in {"reading", "ordering", "idle", "stopped"}
  /\ event \in BOOLEAN /\ starting \in BOOLEAN /\ failed \in BOOLEAN

\* The daemon starts with any files.
RemoteInit ==
  /\ files \in [Slot -> Content \cup {Absent}]
  /\ dirs = {d \in Dir : \E s \in Slot : s[1] = d /\ files[s] # Absent}
  /\ remotes = <<>> /\ watched = {} /\ event = FALSE
  /\ visited = 0 /\ found = {} /\ loading = "reading" /\ starting = TRUE /\ failed = FALSE /\ unseen = {}
  /\ prio = [r \in Id |-> 0] /\ pending = {} /\ changes = FALSE /\ rounds = 0

At(l, r) == {i \in DOMAIN l : l[i].id = r}

-----------------------------------------------------------------------------
(* Reading.                                                                 *)

\* fu_remote_list_monitor_changed_cb, and the start of fu_remote_list_reload:
\* the list and the monitors are cleared.
MonitorChanged ==
  /\ loading = "idle" /\ event
  /\ remotes' = <<>> /\ watched' = {} /\ event' = FALSE
  /\ visited' = 0 /\ found' = {} /\ loading' = "reading" /\ failed' = FALSE
  /\ UNCHANGED <<files, dirs, unseen, starting, orderVars>>

FilesIn(d) == {s \in Slot : s[1] = d /\ files[s] # Absent}

\* The directory is not watched.
AddForPathUnwatched ==
  /\ loading = "reading" /\ found = {} /\ visited < Len(DirOrder)
  /\ visited' = visited + 1
  /\ found' = IF DirOrder[visited + 1] \in dirs THEN FilesIn(DirOrder[visited + 1]) ELSE {}
  /\ UNCHANGED <<files, dirs, remotes, watched, event, loading, starting, failed, unseen, orderVars>>

\* fu_remote_list_add_for_path: watch the directory, then list it.
AddForPath ==
  /\ loading = "reading" /\ found = {} /\ visited < Len(DirOrder)
  /\ visited' = visited + 1
  /\ LET d == DirOrder[visited + 1]
     IN IF d \in dirs
        THEN watched' = watched \cup {<<d>>} /\ found' = FilesIn(d) /\ unseen' = unseen \ {d}
        ELSE UNCHANGED <<watched, found, unseen>>
  /\ UNCHANGED <<files, dirs, remotes, event, loading, starting, failed, orderVars>>

\* A file has to be loaded, and it is set up unless the list has its ID.
Refused(s) == ~files[s].good \/ (~files[s].setup /\ At(remotes, s[2]) = {})

\* fu_remote_list_add_for_file, with an error: it ends the reload.  The daemon
\* goes on with what was read before, and does not start when it is the first
\* load.
FileFails(s) ==
  /\ loading = "reading" /\ s \in found /\ Refused(s)
  /\ loading' = (IF starting THEN "stopped" ELSE "idle") /\ failed' = TRUE
  /\ UNCHANGED <<files, dirs, remotes, watched, event, starting, visited, found, unseen, orderVars>>

\* fu_remote_list_add_for_file: the first file with an ID counts.
AddForFile(s) ==
  /\ loading = "reading" /\ s \in found /\ ~Refused(s)
  /\ found' = found \ {s}
  /\ IF At(remotes, s[2]) # {} THEN UNCHANGED <<remotes, watched>>
     ELSE /\ remotes' = Append(remotes, [id |-> s[2], dir |-> s[1], content |-> files[s]])
          /\ watched' = watched \cup {s}
  /\ UNCHANGED <<files, dirs, event, loading, starting, visited, failed, unseen, orderVars>>

-----------------------------------------------------------------------------
(* Ordering.  A rule is the list that it is in, its remote and the one that *)
(* it names; the first of the two in the order gets the higher priority.    *)

\* Only OrderBefore is looked at.
RulesBefore(l) ==
  {q \in OrderRule : /\ q[1] = "before" /\ q[2] # q[3] /\ At(l, q[3]) # {}
                     /\ \E i \in At(l, q[2]) : q[3] \in l[i].content.before}

\* The rules that count: those that name another remote of the list.
RulesOf(l) ==
  {q \in OrderRule : /\ q[2] # q[3] /\ At(l, q[3]) # {}
                     /\ \E i \in At(l, q[2]) : q[3] \in l[i].content[q[1]]}

High(q) == IF q[1] = "before" THEN q[2] ELSE q[3]
Low(q) == IF q[1] = "before" THEN q[3] ELSE q[2]

\* The next rule: those of OrderBefore come first, and each in the order of
\* the list.
IsNext(q) ==
  \A p \in pending :
    /\ p[1] = "before" => q[1] = "before"
    /\ p[1] = q[1] => \A i \in At(remotes, q[2]), j \in At(remotes, p[2]) : i <= j

StartOrdering ==
  /\ loading = "reading" /\ found = {} /\ visited = Len(DirOrder)
  /\ loading' = "ordering" /\ prio' = [r \in Id |-> 0]
  /\ pending' = RulesOf(remotes) /\ changes' = FALSE /\ rounds' = 0
  /\ UNCHANGED <<files, dirs, remotes, watched, event, starting, visited, found, failed, unseen>>

\* fu_remote_list_depsolve_order_before and fu_remote_list_depsolve_order_after,
\* for one rule
Depsolve(q) ==
  /\ loading = "ordering" /\ q \in pending /\ IsNext(q)
  /\ pending' = pending \ {q}
  /\ IF prio[High(q)] > prio[Low(q)] THEN UNCHANGED <<prio, changes>>
     ELSE prio' = [prio EXCEPT ![High(q)] = prio[Low(q)] + 1] /\ changes' = TRUE
  /\ UNCHANGED <<files, dirs, remotes, watched, event, loading, starting, visited, found, rounds, failed, unseen>>

NextRound ==
  /\ loading = "ordering" /\ pending = {} /\ changes /\ rounds + 1 < MaxRounds
  /\ rounds' = rounds + 1 /\ pending' = RulesOf(remotes) /\ changes' = FALSE
  /\ UNCHANGED <<files, dirs, remotes, watched, event, loading, starting, visited, found, prio, failed, unseen>>

\* "Cannot depsolve remotes ordering"
OrderingFails ==
  /\ loading = "ordering" /\ pending = {} /\ changes /\ rounds + 1 = MaxRounds
  /\ loading' = (IF starting THEN "stopped" ELSE "idle") /\ failed' = TRUE
  /\ changes' = FALSE /\ rounds' = 0
  /\ UNCHANGED <<files, dirs, remotes, watched, event, starting, visited, found, prio, pending, unseen>>

Rank(r) == CHOOSE i \in DOMAIN Remote : Remote[i] = r

\* fu_remote_list_sort_cb: by priority, highest first, then by ID
SortedRemotes(l) ==
  \A i, j \in DOMAIN l : i < j =>
    \/ prio[l[i].id] > prio[l[j].id]
    \/ prio[l[i].id] = prio[l[j].id] /\ Rank(l[i].id) < Rank(l[j].id)

\* The last round has changed nothing: the list is sorted.
SortRemotes ==
  /\ loading = "ordering" /\ pending = {} /\ ~changes
  /\ \E f \in Bijection(DOMAIN remotes, DOMAIN remotes) : remotes' = [i \in DOMAIN remotes |-> remotes[f[i]]]
  /\ SortedRemotes(remotes')
  /\ loading' = "idle" /\ starting' = FALSE /\ rounds' = 0
  /\ UNCHANGED <<files, dirs, watched, event, visited, found, prio, pending, changes, failed, unseen>>

-----------------------------------------------------------------------------
(* The files change.                                                        *)

Write(s, c) ==
  /\ files' = [files EXCEPT ![s] = c]
  /\ dirs' = dirs \cup {s[1]}
  /\ event' = (event \/ s \in watched \/ <<s[1]>> \in watched)
  /\ unseen' = IF s[1] \in dirs THEN unseen ELSE unseen \cup {s[1]}

\* The administrator or a package writes or removes a file.
FileChanges(s, c) ==
  /\ files[s] # c
  /\ Write(s, c)
  /\ UNCHANGED <<remotes, watched, loading, starting, visited, found, failed, orderVars>>

\* fu_remote_list_set_key_value, on behalf of a client.  When the directory
\* is read-only, the file is copied to the mutable one.
SetKeyValue(r, v) ==
  /\ loading = "idle"
  /\ \E i \in At(remotes, r) :
       LET from == <<remotes[i].dir, r>>
           to == IF from[1] \in ReadOnly THEN <<DirOrder[1], r>> ELSE from
           new == [files[from] EXCEPT !.value = v]
       IN /\ files[from].good /\ files[from].value # v
          /\ to \in Slot /\ new \in Content
          /\ Write(to, new)
          /\ remotes' = [remotes EXCEPT ![i] = [id |-> r, dir |-> to[1], content |-> new]]
  /\ UNCHANGED <<watched, loading, starting, visited, found, failed, orderVars>>

RemoteNext ==
  \/ MonitorChanged \/ AddForPath
  \/ \E s \in Slot : FileFails(s) \/ AddForFile(s)
  \/ StartOrdering \/ NextRound \/ OrderingFails \/ SortRemotes
  \/ \E q \in OrderRule : Depsolve(q)
  \/ \E s \in Slot, c \in Content \cup {Absent} : FileChanges(s, c)
  \/ \E r \in Id, v \in Value : SetKeyValue(r, v)

RemoteSpec == RemoteInit /\ [][RemoteNext]_remoteVars

-----------------------------------------------------------------------------
(* Why the list is what the files say.                                      *)

\* No directory that the reload has passed was made after that.
NothingUnseen == \A i \in 1 .. visited : DirOrder[i] \notin unseen

\* The remote k of the list is what its file contains, and no directory that
\* is searched before has a file with its ID.
EntryFresh(k) ==
  \E i \in 1 .. visited :
    /\ DirOrder[i] = remotes[k].dir /\ <<DirOrder[i], remotes[k].id>> \in Slot
    /\ files[<<DirOrder[i], remotes[k].id>>] = remotes[k].content /\ remotes[k].content.good
    /\ \A j \in 1 .. i - 1 : <<DirOrder[j], remotes[k].id>> \in Slot => files[<<DirOrder[j], remotes[k].id>>] = Absent

\* Every file that the reload has passed has its ID in the list.
FileKnown(s) ==
  (\E i \in 1 .. visited : DirOrder[i] = s[1]) /\ files[s] # Absent /\ s \notin found => At(remotes, s[2]) # {}

\* A directory that the reload has found is watched.
DirsWatched == \A i \in 1 .. visited : DirOrder[i] \in dirs \ unseen => <<DirOrder[i]>> \in watched

\* A reload that has read everything has passed every directory; one that
\* ended early has failed.
ReloadEnds ==
  loading \in {"ordering", "idle"} =>
    (found = {} /\ visited = Len(DirOrder)) \/ (loading = "idle" /\ found # {} /\ failed)

\* What the reload has read is as it was then; one that ended early has a file
\* that it refuses.
AsRead ==
  /\ \A k \in DOMAIN remotes : EntryFresh(k)
  /\ \A s \in Slot : FileKnown(s)
  /\ \A s \in found : files[s] # Absent /\ visited > 0 /\ s[1] = DirOrder[visited]
  /\ loading = "idle" /\ found # {} => \E s \in found : Refused(s)

Undisturbed == ~event /\ NothingUnseen

FreshInv == DirsWatched /\ ReloadEnds /\ (Undisturbed => AsRead)

\* The remotes i and j of the list have to be in this order.
MustPrecede(i, j) ==
  \/ remotes[j].id \in remotes[i].content.before \ {remotes[i].id}
  \/ remotes[i].id \in remotes[j].content.after \ {remotes[j].id}

\* While nothing was changed in a round, the rules it has looked at are met,
\* and the list that was sorted with all of them met is in order.
OrderInv ==
  /\ loading = "ordering" /\ ~changes => \A q \in RulesOf(remotes) \ pending : prio[High(q)] > prio[Low(q)]
  /\ loading = "idle" /\ ~failed /\ Undisturbed => \A i, j \in DOMAIN remotes : MustPrecede(i, j) => i < j

RemoteInv == RemoteTypeOK /\ FreshInv /\ OrderInv

-----------------------------------------------------------------------------
(* Properties.                                                              *)

\* What a remote should be: the content of its file in the first directory.
Owner(r) ==
  LET has == {i \in DOMAIN DirOrder : <<DirOrder[i], r>> \in Slot /\ files[<<DirOrder[i], r>>] # Absent}
  IN IF has = {} THEN <<>> ELSE <<DirOrder[CHOOSE i \in has : \A j \in has : i <= j], r>>

\* Nothing is being read, nothing is to be reported, no directory was made that
\* the daemon does not watch, every file can be loaded, and those that count
\* can be set up.
Quiescent ==
  /\ loading = "idle" /\ ~event /\ unseen = {}
  /\ \A s \in Slot : files[s] # Absent => files[s].good /\ (Owner(s[2]) = s => files[s].setup)

\* When everything is settled the list is what the files say, however they
\* changed while they were read, and however many reloads failed before: a
\* failed reload left a monitor on what has to change for the next to work.
ListIsFresh ==
  Quiescent =>
    \A r \in Id :
      IF Owner(r) = <<>> THEN At(remotes, r) = {}
      ELSE \E i \in At(remotes, r) : remotes[i].dir = Owner(r)[1] /\ remotes[i].content = files[Owner(r)]

\* The list has every remote before those that it has to precede, unless the
\* order cannot be met, and then the reload has failed.
OrderMet ==
  Quiescent /\ ~failed =>
    \A i, j \in DOMAIN remotes : MustPrecede(i, j) => i < j
=============================================================================
