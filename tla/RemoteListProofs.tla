-------------------------- MODULE RemoteListProofs --------------------------
(****************************************************************************)
(* The list of remotes, for any files, directories, remotes and rules, and  *)
(* any bound on the rounds of the ordering: once everything is settled it   *)
(* is what the files say, and in the order that they ask for.               *)
(****************************************************************************)
EXTENDS RemoteList, TLAPS

\* Most leaves are first-order: Zenon proves them, SMT is named where there is
\* arithmetic or an instance of a lemma to be found.
USE Zenon

-----------------------------------------------------------------------------
(* Constants and types.                                                     *)

\* The directories that the reload searches are different paths.
LEMMA Directories ==
  /\ Len(DirOrder) \in Nat /\ DOMAIN DirOrder = 1 .. Len(DirOrder)
  /\ \A i \in 1 .. Len(DirOrder) : DirOrder[i] \in Dir
  /\ \A i, j \in 1 .. Len(DirOrder) : DirOrder[i] = DirOrder[j] => i = j
  /\ \A d \in Dir : \E i \in 1 .. Len(DirOrder) : DirOrder[i] = d
PROOF
<1>1. DirOrder \in Seq(Dir) /\ IsInjective(DirOrder)
  BY RemoteAssumption
<1>2. Len(DirOrder) \in Nat /\ DOMAIN DirOrder = 1 .. Len(DirOrder)
  BY <1>1, SMT
<1>3. \A i \in 1 .. Len(DirOrder) : DirOrder[i] \in Dir
  BY <1>1, <1>2, SMT
<1>4. \A i, j \in 1 .. Len(DirOrder) : DirOrder[i] = DirOrder[j] => i = j
  BY <1>1, <1>2 DEF IsInjective
<1>5. \A d \in Dir : \E i \in 1 .. Len(DirOrder) : DirOrder[i] = d
  BY <1>2 DEF Dir, Range
<1> QED BY <1>2, <1>3, <1>4, <1>5

\* A file that is in the list is a pair of a directory and an ID.
LEMMA Slots ==
  ASSUME NEW s \in Slot
  PROVE  s[1] \in Dir /\ s[2] \in Id /\ s = <<s[1], s[2]>>
PROOF BY RemoteAssumption, SMT

\* The content of a file that can be loaded.
LEMMA GoodContent ==
  ASSUME NEW c \in Content \cup {Absent}
  PROVE  /\ c.good => c \in Content
         /\ c \in Content => c \in [good : BOOLEAN, setup : BOOLEAN, value : Value, before : SUBSET Id, after : SUBSET Id] /\ c # Absent
PROOF
<1>1. ~Absent.good
  BY DEF Absent
<1>2. c.good => c # Absent
  BY <1>1
<1> QED
  BY <1>2, RemoteAssumption

\* The types hold at first.
LEMMA RemoteTypeInit == RemoteInit => RemoteTypeOK
PROOF
<1> SUFFICES ASSUME RemoteInit PROVE RemoteTypeOK
  OBVIOUS
<1>1. Slot \subseteq Dir \X Id /\ MaxRounds \in Nat
  BY RemoteAssumption
<1>2. ListOK
  BY SMT DEF RemoteInit, ListOK
<1>3. FilesOK
  BY <1>1 DEF RemoteInit, FilesOK
<1>4. OrderOK
  <2>1. prio \in [Id -> Nat]
    BY DEF RemoteInit
  <2>2. rounds \in 0 .. MaxRounds
    BY <1>1, SMT DEF RemoteInit
  <2> QED BY <2>1, <2>2 DEF RemoteInit, OrderOK
<1>5. visited \in 0 .. Len(DirOrder)
  BY Directories, SMT DEF RemoteInit
<1> QED
  BY <1>2, <1>3, <1>4, <1>5 DEF RemoteInit, RemoteTypeOK

\* Every step keeps the type of the files.
LEMMA FilesStep == RemoteTypeOK /\ [RemoteNext]_remoteVars => FilesOK'
PROOF
<1> SUFFICES ASSUME FilesOK, [RemoteNext]_remoteVars PROVE FilesOK'
  BY DEF RemoteTypeOK
<1>a. Slot \subseteq Dir \X Id
  BY RemoteAssumption
<1>1. ASSUME NEW s \in Slot, NEW c \in Content \cup {Absent}, Write(s, c) PROVE FilesOK'
  BY <1>1, <1>a DEF Write, FilesOK
<1>2. CASE files' = files /\ dirs' = dirs /\ unseen' \subseteq unseen
  BY <1>2 DEF FilesOK
<1>3. (\E s \in Slot, c \in Content \cup {Absent} : Write(s, c)) \/ (files' = files /\ dirs' = dirs /\ unseen' \subseteq unseen)
  <2>1. CASE MonitorChanged
    BY <2>1 DEF MonitorChanged
  <2>2. CASE AddForPath
    BY <2>2 DEF AddForPath
  <2>3. ASSUME NEW s \in Slot, FileFails(s) \/ AddForFile(s)
        PROVE  files' = files /\ dirs' = dirs /\ unseen' \subseteq unseen
    BY <2>3 DEF FileFails, AddForFile
  <2>4. CASE StartOrdering \/ NextRound \/ OrderingFails \/ SortRemotes
    BY <2>4 DEF StartOrdering, NextRound, OrderingFails, SortRemotes
  <2>5. ASSUME NEW q \in OrderRule, Depsolve(q)
        PROVE  files' = files /\ dirs' = dirs /\ unseen' \subseteq unseen
    BY <2>5 DEF Depsolve
  <2>6. ASSUME NEW s \in Slot, NEW c \in Content \cup {Absent}, FileChanges(s, c)
        PROVE  Write(s, c)
    BY <2>6 DEF FileChanges
  <2>7. ASSUME NEW r \in Id, NEW v \in Value, SetKeyValue(r, v)
        PROVE  \E s \in Slot, c \in Content \cup {Absent} : Write(s, c)
    BY <2>7 DEF SetKeyValue
  <2>8. CASE UNCHANGED remoteVars
    BY <2>8 DEF remoteVars
  <2> QED
    BY <2>1, <2>2, <2>3, <2>4, <2>5, <2>6, <2>7, <2>8 DEF RemoteNext
<1> QED BY <1>1, <1>2, <1>3

\* What a client's change of the key does to the list: the remote at i gets
\* what its file, or the copy of it, contains now.
KeySet(r, v, i, to, new) ==
  /\ remotes[i].id = r /\ to[2] = r /\ to[1] \in Dir
  /\ to = <<remotes[i].dir, r>> \/ (to = <<DirOrder[1], r>> /\ remotes[i].dir \in ReadOnly)
  /\ files[<<remotes[i].dir, r>>].good
  /\ new = [files[<<remotes[i].dir, r>>] EXCEPT !.value = v]
  /\ Write(to, new)
  /\ remotes' = [remotes EXCEPT ![i] = [id |-> r, dir |-> to[1], content |-> new]]

\* Every change of a key is one of those.
LEMMA SetKeyValueFacts ==
  ASSUME RemoteTypeOK, NEW r \in Id, NEW v \in Value, SetKeyValue(r, v)
  PROVE  \E i \in DOMAIN remotes, to \in Slot, new \in Content : KeySet(r, v, i, to, new)
PROOF
<1>1. PICK i \in At(remotes, r) :
       LET from == <<remotes[i].dir, r>>
           to == IF from[1] \in ReadOnly THEN <<DirOrder[1], r>> ELSE from
           new == [files[from] EXCEPT !.value = v]
       IN /\ files[from].good /\ files[from].value # v
          /\ to \in Slot /\ new \in Content
          /\ Write(to, new)
          /\ remotes' = [remotes EXCEPT ![i] = [id |-> r, dir |-> to[1], content |-> new]]
  BY DEF SetKeyValue
<1> DEFINE from == <<remotes[i].dir, r>>
           to == IF from[1] \in ReadOnly THEN <<DirOrder[1], r>> ELSE from
           new == [files[from] EXCEPT !.value = v]
<1>2. i \in DOMAIN remotes /\ remotes[i].id = r
  BY DEF At
<1>3. to \in Slot /\ new \in Content /\ Write(to, new) /\ files[from].good
      /\ remotes' = [remotes EXCEPT ![i] = [id |-> r, dir |-> to[1], content |-> new]]
  BY <1>1
<1>4. to = from \/ (to = <<DirOrder[1], r>> /\ remotes[i].dir \in ReadOnly)
  OBVIOUS
<1>5. to[2] = r /\ to[1] \in Dir
  BY <1>3, Slots
<1>6. new = [files[from] EXCEPT !.value = v]
  OBVIOUS
<1> HIDE DEF to, new
<1>7. KeySet(r, v, i, to, new)
  BY <1>2, <1>3, <1>4, <1>5, <1>6 DEF KeySet
<1> QED
  BY <1>2, <1>3, <1>7

\* Every step keeps the type of the list, in which no ID is twice.
LEMMA ListStep == RemoteTypeOK /\ [RemoteNext]_remoteVars => ListOK'
PROOF
<1> SUFFICES ASSUME RemoteTypeOK, [RemoteNext]_remoteVars PROVE ListOK'
  OBVIOUS
<1>a. FilesOK /\ ListOK
  BY DEF RemoteTypeOK
<1>1. CASE MonitorChanged
  BY <1>1, SMT DEF MonitorChanged, ListOK
<1>2. ASSUME NEW s \in Slot, AddForFile(s) PROVE ListOK'
  <2>1. CASE At(remotes, s[2]) # {}
    BY <1>2, <1>a, <2>1 DEF AddForFile, ListOK
  <2>2. CASE At(remotes, s[2]) = {}
    <3> DEFINE e == [id |-> s[2], dir |-> s[1], content |-> files[s]]
    <3>1. files[s] \in Content \cup {Absent} /\ files[s].good
      BY <1>2, <1>a DEF AddForFile, Refused, FilesOK
    <3>2. e \in Entry /\ e.id = s[2]
      BY <3>1, Slots, GoodContent DEF Entry
    <3>3. remotes' = Append(remotes, e)
      BY <1>2, <2>2 DEF AddForFile
    <3> HIDE DEF e
    <3>4. \A i \in DOMAIN remotes : remotes[i].id # e.id
      BY <2>2, <3>2 DEF At
    <3> QED BY <1>a, <3>2, <3>3, <3>4, SMT DEF ListOK
  <2> QED BY <2>1, <2>2
<1>3. CASE SortRemotes
  <2>1. PICK f \in Bijection(DOMAIN remotes, DOMAIN remotes) : remotes' = [i \in DOMAIN remotes |-> remotes[f[i]]]
    BY <1>3 DEF SortRemotes
  <2>2. /\ \A i \in DOMAIN remotes : f[i] \in DOMAIN remotes
        /\ \A i, j \in DOMAIN remotes : f[i] = f[j] => i = j
    BY DEF Bijection, Injection, IsInjective, Surjection
  <2>3. DOMAIN remotes = 1 .. Len(remotes) /\ Len(remotes) \in Nat /\ \A i \in DOMAIN remotes : remotes[i] \in Entry
    BY <1>a, SMT DEF ListOK
  <2>4. remotes' = [i \in 1 .. Len(remotes) |-> remotes[f[i]]] /\ \A i \in 1 .. Len(remotes) : remotes[f[i]] \in Entry
    BY <2>1, <2>2, <2>3
  <2>5. remotes' \in Seq(Entry)
    BY <2>3, <2>4, SMT
  <2>6. ASSUME NEW i \in DOMAIN remotes', NEW j \in DOMAIN remotes', remotes'[i].id = remotes'[j].id PROVE i = j
    <3>1. i \in DOMAIN remotes /\ j \in DOMAIN remotes /\ remotes'[i] = remotes[f[i]] /\ remotes'[j] = remotes[f[j]]
      BY <2>1
    <3>2. f[i] = f[j]
      BY <1>a, <2>2, <2>6, <3>1 DEF ListOK
    <3> QED BY <2>2, <3>1, <3>2
  <2> QED BY <2>5, <2>6 DEF ListOK
<1>4. ASSUME NEW r \in Id, NEW v \in Value, SetKeyValue(r, v) PROVE ListOK'
  <2>1. PICK i \in DOMAIN remotes, to \in Slot, new \in Content : KeySet(r, v, i, to, new)
    BY <1>4, SetKeyValueFacts
  <2> DEFINE e == [id |-> r, dir |-> to[1], content |-> new]
  <2>2. e \in Entry /\ e.id = r /\ remotes' = [remotes EXCEPT ![i] = e] /\ remotes[i].id = r
    BY <2>1 DEF Entry, KeySet
  <2> HIDE DEF e
  <2> QED BY <1>a, <2>2, SMT DEF ListOK
<1>5. CASE remotes' = remotes
  BY <1>5, <1>a DEF ListOK
<1>6. CASE AddForPath \/ StartOrdering \/ NextRound \/ OrderingFails \/ UNCHANGED remoteVars
  BY <1>6, <1>5 DEF AddForPath, StartOrdering, NextRound, OrderingFails, remoteVars
<1>7. ASSUME NEW s \in Slot, NEW c \in Content \cup {Absent}, FileFails(s) \/ FileChanges(s, c) PROVE ListOK'
  BY <1>7, <1>5 DEF FileFails, FileChanges
<1>8. ASSUME NEW q \in OrderRule, Depsolve(q) PROVE ListOK'
  BY <1>8, <1>5 DEF Depsolve
<1> QED
  BY <1>1, <1>2, <1>3, <1>4, <1>6, <1>7, <1>8 DEF RemoteNext

\* Every step keeps the type of what the ordering uses.
LEMMA OrderTypeStep == RemoteTypeOK /\ [RemoteNext]_remoteVars => OrderOK'
PROOF
<1> SUFFICES ASSUME OrderOK, [RemoteNext]_remoteVars PROVE OrderOK'
  BY DEF RemoteTypeOK
<1>a. MaxRounds \in Nat \ {0}
  BY RemoteAssumption
<1>b. RulesOf(remotes) \subseteq OrderRule
  BY DEF RulesOf
<1>c. 0 \in 0 .. MaxRounds
  BY <1>a, SMT
<1>1. CASE StartOrdering
  <2>1. prio' \in [Id -> Nat]
    BY <1>1 DEF StartOrdering
  <2> QED BY <1>1, <1>b, <1>c, <2>1 DEF StartOrdering, OrderOK
<1>2. CASE NextRound
  <2>1. rounds' \in 0 .. MaxRounds
    BY <1>2, <1>a, SMT DEF NextRound, OrderOK
  <2> QED BY <1>2, <1>b, <2>1 DEF NextRound, OrderOK
<1>3. CASE OrderingFails
  BY <1>3, <1>c DEF OrderingFails, OrderOK
<1>4. CASE SortRemotes
  BY <1>4, <1>c DEF SortRemotes, OrderOK
<1>5. ASSUME NEW q \in OrderRule, Depsolve(q) PROVE OrderOK'
  <2>1. High(q) \in Id /\ Low(q) \in Id
    BY DEF OrderRule, High, Low
  <2>2. prio[Low(q)] + 1 \in Nat
    BY <2>1, SMT DEF OrderOK
  <2>3. (prio' = prio /\ changes' = changes) \/ (prio' = [prio EXCEPT ![High(q)] = prio[Low(q)] + 1] /\ changes' = TRUE)
    BY <1>5 DEF Depsolve
  <2>4. prio' \in [Id -> Nat] /\ changes' \in BOOLEAN
    BY <2>2, <2>3 DEF OrderOK
  <2> QED BY <1>5, <2>4 DEF Depsolve, OrderOK
<1>6. CASE UNCHANGED orderVars
  BY <1>6 DEF orderVars, OrderOK
<1>7. CASE MonitorChanged \/ AddForPath \/ UNCHANGED remoteVars
  BY <1>6, <1>7 DEF MonitorChanged, AddForPath, remoteVars
<1>8. ASSUME NEW s \in Slot, NEW c \in Content \cup {Absent}, FileFails(s) \/ AddForFile(s) \/ FileChanges(s, c)
      PROVE  OrderOK'
  BY <1>6, <1>8 DEF FileFails, AddForFile, FileChanges
<1>9. ASSUME NEW r \in Id, NEW v \in Value, SetKeyValue(r, v) PROVE OrderOK'
  BY <1>6, <1>9 DEF SetKeyValue
<1> QED
  BY <1>1, <1>2, <1>3, <1>4, <1>5, <1>7, <1>8, <1>9 DEF RemoteNext

\* Every step keeps the types.
LEMMA RemoteTypeStep == RemoteTypeOK /\ [RemoteNext]_remoteVars => RemoteTypeOK'
PROOF
<1> SUFFICES ASSUME RemoteTypeOK, [RemoteNext]_remoteVars PROVE RemoteTypeOK'
  OBVIOUS
<1>a. FilesOK' /\ ListOK' /\ OrderOK'
  BY FilesStep, ListStep, OrderTypeStep
<1>b. Len(DirOrder) \in Nat /\ \A i \in 1 .. Len(DirOrder) : DirOrder[i] \in Dir
  BY Directories
<1>1. CASE MonitorChanged
  <2>1. visited' \in 0 .. Len(DirOrder)
    BY <1>1, <1>b, SMT DEF MonitorChanged
  <2> QED BY <1>1, <1>a, <2>1 DEF MonitorChanged, RemoteTypeOK
<1>2. CASE AddForPath
  <2>1. DirOrder[visited + 1] \in Dir /\ visited' \in 0 .. Len(DirOrder)
    BY <1>2, <1>b, SMT DEF AddForPath, RemoteTypeOK
  <2>2. found' \subseteq Slot /\ watched' \subseteq {<<d>> : d \in Dir} \cup Slot
    BY <1>2, <2>1 DEF AddForPath, RemoteTypeOK, FilesIn
  <2> QED BY <1>2, <1>a, <2>1, <2>2 DEF AddForPath, RemoteTypeOK
<1>3. ASSUME NEW s \in Slot, NEW c \in Content \cup {Absent}, FileFails(s) \/ FileChanges(s, c) PROVE RemoteTypeOK'
  BY <1>3, <1>a DEF FileFails, FileChanges, Write, RemoteTypeOK
<1>4. ASSUME NEW s \in Slot, AddForFile(s) PROVE RemoteTypeOK'
  BY <1>4, <1>a DEF AddForFile, RemoteTypeOK
<1>5. CASE StartOrdering \/ NextRound \/ OrderingFails \/ SortRemotes
  BY <1>5, <1>a DEF StartOrdering, NextRound, OrderingFails, SortRemotes, RemoteTypeOK
<1>6. ASSUME NEW q \in OrderRule, Depsolve(q) PROVE RemoteTypeOK'
  BY <1>6, <1>a DEF Depsolve, RemoteTypeOK
<1>7. ASSUME NEW r \in Id, NEW v \in Value, SetKeyValue(r, v) PROVE RemoteTypeOK'
  <2>1. PICK i \in DOMAIN remotes, to \in Slot, new \in Content : KeySet(r, v, i, to, new)
    BY <1>7, SetKeyValueFacts
  <2>2. event' \in BOOLEAN
    BY <2>1 DEF KeySet, Write, RemoteTypeOK
  <2> QED BY <1>7, <1>a, <2>2 DEF SetKeyValue, RemoteTypeOK
<1>8. CASE UNCHANGED remoteVars
  BY <1>8, <1>a DEF remoteVars, RemoteTypeOK
<1> QED
  BY <1>1, <1>2, <1>3, <1>4, <1>5, <1>6, <1>7, <1>8 DEF RemoteNext

-----------------------------------------------------------------------------
(* The list and the files.                                                  *)

\* At first nothing was read.
LEMMA FreshInitInv == RemoteInit => FreshInv
PROOF
<1> SUFFICES ASSUME RemoteInit PROVE FreshInv
  OBVIOUS
<1>1. visited = 0 /\ remotes = <<>> /\ found = {} /\ loading = "reading"
  BY DEF RemoteInit
<1>2. 1 .. visited = {} /\ DOMAIN remotes = {}
  BY <1>1, SMT
<1>3. \A s \in Slot : FileKnown(s)
  BY <1>2 DEF FileKnown
<1>4. AsRead
  BY <1>1, <1>2, <1>3 DEF AsRead
<1> QED
  BY <1>1, <1>2, <1>4 DEF FreshInv, DirsWatched, ReloadEnds

\* A file that is written in a directory that the reload has passed is
\* reported, or the directory is new.
LEMMA WriteReported ==
  ASSUME RemoteTypeOK, DirsWatched, NEW s \in Slot, NEW c \in Content \cup {Absent}, Write(s, c),
         visited' = visited, Undisturbed'
  PROVE  Undisturbed /\ \A i \in 1 .. visited : DirOrder[i] # s[1]
PROOF
<1>1. ~event /\ <<s[1]>> \notin watched /\ \A i \in 1 .. visited : DirOrder[i] \notin unseen'
  BY DEF Write, Undisturbed, NothingUnseen, RemoteTypeOK
<1>2. ASSUME NEW i \in 1 .. visited PROVE DirOrder[i] \notin unseen /\ DirOrder[i] # s[1]
  <2>1. DirOrder[i] \notin unseen'
    BY <1>1
  <2>2. CASE s[1] \in dirs
    <3>1. DirOrder[i] \notin unseen
      BY <2>1, <2>2 DEF Write
    <3> QED BY <1>1, <2>2, <3>1 DEF DirsWatched
  <2>3. CASE s[1] \notin dirs
    BY <2>1, <2>3 DEF Write
  <2> QED BY <2>2, <2>3
<1> QED
  BY <1>1, <1>2 DEF Undisturbed, NothingUnseen

\* A directory that the reload has found is watched until the next one.
LEMMA DirsWatchedStep == RemoteTypeOK /\ DirsWatched /\ [RemoteNext]_remoteVars => DirsWatched'
PROOF
<1> SUFFICES ASSUME RemoteTypeOK, DirsWatched, [RemoteNext]_remoteVars PROVE DirsWatched'
  OBVIOUS
<1>1. CASE MonitorChanged
  BY <1>1, SMT DEF MonitorChanged, DirsWatched
<1>2. CASE AddForPath
  <2> SUFFICES ASSUME NEW i \in 1 .. visited', DirOrder[i] \in dirs' \ unseen' PROVE <<DirOrder[i]>> \in watched'
    BY DEF DirsWatched
  <2>1. visited \in Nat /\ visited' = visited + 1 /\ visited' \in 1 .. Len(DirOrder) /\ dirs' = dirs
    BY <1>2, Directories, SMT DEF AddForPath, RemoteTypeOK
  <2>2. CASE i = visited + 1
    BY <1>2, <2>1, <2>2 DEF AddForPath
  <2>3. CASE i # visited + 1
    <3>1. i \in 1 .. visited /\ DirOrder[i] # DirOrder[visited + 1]
      BY <2>1, <2>3, Directories, SMT
    <3>2. DirOrder[i] \notin unseen /\ watched \subseteq watched'
      BY <1>2, <3>1 DEF AddForPath
    <3> QED BY <2>1, <3>1, <3>2 DEF DirsWatched
  <2> QED BY <2>2, <2>3
<1>3. ASSUME NEW s \in Slot, NEW c \in Content \cup {Absent}, Write(s, c), visited' = visited, watched' = watched
      PROVE  DirsWatched'
  BY <1>3 DEF Write, DirsWatched
<1>4. CASE visited' = visited /\ watched \subseteq watched' /\ UNCHANGED <<dirs, unseen>>
  BY <1>4 DEF DirsWatched
<1>5. ASSUME NEW s \in Slot, NEW c \in Content \cup {Absent}, FileFails(s) \/ AddForFile(s) \/ FileChanges(s, c)
      PROVE  DirsWatched'
  BY <1>3, <1>4, <1>5 DEF FileFails, AddForFile, FileChanges
<1>6. CASE StartOrdering \/ NextRound \/ OrderingFails \/ SortRemotes \/ UNCHANGED remoteVars
  BY <1>4, <1>6 DEF StartOrdering, NextRound, OrderingFails, SortRemotes, remoteVars
<1>7. ASSUME NEW q \in OrderRule, Depsolve(q) PROVE DirsWatched'
  BY <1>4, <1>7 DEF Depsolve
<1>8. ASSUME NEW r \in Id, NEW v \in Value, SetKeyValue(r, v) PROVE DirsWatched'
  <2>1. PICK i \in DOMAIN remotes, to \in Slot, new \in Content : KeySet(r, v, i, to, new)
    BY <1>8, SetKeyValueFacts
  <2> QED BY <1>3, <1>8, <2>1 DEF KeySet, SetKeyValue
<1> QED
  BY <1>1, <1>2, <1>5, <1>6, <1>7, <1>8 DEF RemoteNext

\* How a reload ends, until the next one.
LEMMA ReloadEndsStep == ReloadEnds /\ [RemoteNext]_remoteVars => ReloadEnds'
PROOF
<1> SUFFICES ASSUME ReloadEnds, [RemoteNext]_remoteVars PROVE ReloadEnds'
  OBVIOUS
<1>1. CASE MonitorChanged \/ AddForPath \/ UNCHANGED remoteVars
  BY <1>1 DEF MonitorChanged, AddForPath, remoteVars, ReloadEnds
<1>2. ASSUME NEW s \in Slot, NEW c \in Content \cup {Absent}, FileFails(s) \/ AddForFile(s) \/ FileChanges(s, c)
      PROVE  ReloadEnds'
  BY <1>2 DEF FileFails, AddForFile, FileChanges, ReloadEnds
<1>3. CASE StartOrdering \/ NextRound \/ OrderingFails \/ SortRemotes
  BY <1>3 DEF StartOrdering, NextRound, OrderingFails, SortRemotes, ReloadEnds
<1>5. ASSUME NEW q \in OrderRule, Depsolve(q) PROVE ReloadEnds'
  BY <1>5 DEF Depsolve, ReloadEnds
<1>6. ASSUME NEW r \in Id, NEW v \in Value, SetKeyValue(r, v) PROVE ReloadEnds'
  BY <1>6 DEF SetKeyValue, ReloadEnds
<1> QED
  BY <1>1, <1>2, <1>3, <1>5, <1>6 DEF RemoteNext
\* A step that changes nothing that the reload has read.
LEMMA SameReading ==
  ASSUME AsRead, UNCHANGED <<files, remotes, visited, found>>,
         loading' = "idle" /\ found # {} => \E s \in found : Refused(s)
  PROVE  AsRead'
PROOF
<1>1. \A k \in DOMAIN remotes' : EntryFresh(k)'
  BY SMT DEF AsRead, EntryFresh
<1>2. \A s \in Slot : FileKnown(s)'
  BY DEF AsRead, FileKnown, At
<1>3. \A s \in found : Refused(s) <=> Refused(s)'
  BY DEF Refused, At
<1> QED
  BY <1>1, <1>2, <1>3 DEF AsRead

\* A directory is passed: its files are to be read.
LEMMA PathFresh == RemoteTypeOK /\ FreshInv /\ AddForPath /\ Undisturbed' => AsRead'
PROOF
<1> SUFFICES ASSUME RemoteTypeOK, FreshInv, AddForPath, Undisturbed' PROVE AsRead'
  OBVIOUS
<1> DEFINE d == DirOrder[visited + 1]
<1>1. /\ visited \in Nat /\ visited' = visited + 1 /\ visited' \in 1 .. Len(DirOrder) /\ found = {} /\ event' = event
      /\ files' = files /\ remotes' = remotes /\ loading' = "reading"
  BY Directories, SMT DEF AddForPath, RemoteTypeOK
<1>2. IF d \in dirs THEN found' = FilesIn(d) /\ unseen' = unseen \ {d} ELSE found' = {} /\ unseen' = unseen
  BY <1>1 DEF AddForPath
<1>3. ASSUME NEW i \in 1 .. visited PROVE i \in 1 .. visited' /\ DirOrder[i] # d
  BY <1>1, Directories, SMT
<1>4. Undisturbed
  <2>1. ASSUME NEW i \in 1 .. visited PROVE DirOrder[i] \notin unseen
    BY <1>2, <1>3 DEF Undisturbed, NothingUnseen
  <2> QED BY <1>1, <2>1 DEF Undisturbed, NothingUnseen
<1>5. AsRead
  BY <1>4 DEF FreshInv
<1>6. ASSUME NEW k \in DOMAIN remotes PROVE EntryFresh(k)'
  <2>1. EntryFresh(k)
    BY <1>5 DEF AsRead
  <2>2. 1 .. visited \subseteq 1 .. visited'
    BY <1>1, SMT
  <2> QED BY <1>1, <2>1, <2>2 DEF EntryFresh
<1>7. ASSUME NEW s \in Slot PROVE FileKnown(s)'
  <2> SUFFICES ASSUME NEW i \in 1 .. visited', DirOrder[i] = s[1], files[s] # Absent, s \notin found'
               PROVE  At(remotes, s[2]) # {}
    BY <1>1 DEF FileKnown, At
  <2>1. s[1] \in dirs
    BY DEF RemoteTypeOK, FilesOK
  <2>2. i # visited + 1
    BY <1>2, <2>1 DEF FilesIn
  <2>3. i \in 1 .. visited
    BY <1>1, <2>2, SMT
  <2>4. FileKnown(s)
    BY <1>5 DEF AsRead
  <2> QED BY <1>1, <2>3, <2>4 DEF FileKnown
<1>8. ASSUME NEW s \in found' PROVE files[s] # Absent /\ s[1] = d
  BY <1>2 DEF FilesIn
<1>9. visited' > 0
  BY <1>1, SMT
<1> QED
  BY <1>1, <1>6, <1>7, <1>8, <1>9 DEF AsRead

\* A file is read: it is the first with its ID, or the list has the ID.
LEMMA FileFresh == ASSUME NEW s \in Slot PROVE RemoteTypeOK /\ FreshInv /\ AddForFile(s) /\ Undisturbed' => AsRead'
PROOF
<1> SUFFICES ASSUME RemoteTypeOK, FreshInv, AddForFile(s), Undisturbed' PROVE AsRead'
  OBVIOUS
<1>1. /\ files' = files /\ visited' = visited /\ loading' = "reading" /\ s \in found /\ found' = found \ {s}
      /\ visited \in Nat /\ files[s].good /\ visited <= Len(DirOrder)
  BY Directories, SMT DEF AddForFile, Refused, RemoteTypeOK
<1>2. AsRead
  BY DEF AddForFile, Undisturbed, NothingUnseen, FreshInv
<1>3. files[s] # Absent /\ visited > 0 /\ s[1] = DirOrder[visited]
  BY <1>1, <1>2 DEF AsRead
<1>4. \A t \in found' : files'[t] # Absent /\ visited' > 0 /\ t[1] = DirOrder[visited']
  BY <1>1, <1>2 DEF AsRead
<1>5. CASE At(remotes, s[2]) # {}
  <2>1. remotes' = remotes
    BY <1>5 DEF AddForFile
  <2>2. ASSUME NEW k \in DOMAIN remotes' PROVE EntryFresh(k)'
    <3>1. EntryFresh(k)
      BY <1>2, <2>1 DEF AsRead
    <3> QED BY <1>1, <2>1, <3>1 DEF EntryFresh
  <2>3. ASSUME NEW t \in Slot PROVE FileKnown(t)'
    <3>1. FileKnown(t)
      BY <1>2 DEF AsRead
    <3> QED BY <1>1, <1>5, <2>1, <3>1 DEF FileKnown, At
  <2> QED BY <1>1, <1>4, <2>2, <2>3 DEF AsRead
<1>6. CASE At(remotes, s[2]) = {}
  <2> DEFINE e == [id |-> s[2], dir |-> s[1], content |-> files[s]]
  <2>1. remotes' = Append(remotes, e) /\ remotes \in Seq(Entry)
    BY <1>6 DEF AddForFile, RemoteTypeOK, ListOK
  <2>2. files[s] \in Content \cup {Absent}
    BY DEF RemoteTypeOK, FilesOK
  <2>3. e \in Entry /\ e.id = s[2] /\ e.dir = s[1] /\ e.content = files[s]
    BY <1>1, <2>2, Slots, GoodContent DEF Entry
  <2> HIDE DEF e
  <2>4. /\ DOMAIN remotes' = 1 .. Len(remotes) + 1 /\ DOMAIN remotes = 1 .. Len(remotes) /\ Len(remotes) \in Nat
        /\ \A k \in 1 .. Len(remotes) : remotes'[k] = remotes[k]
        /\ remotes'[Len(remotes) + 1] = e
    BY <2>1, <2>3, SMT
  <2>5. ASSUME NEW j \in 1 .. visited - 1, <<DirOrder[j], s[2]>> \in Slot
        PROVE  files[<<DirOrder[j], s[2]>>] = Absent
    <3> DEFINE t == <<DirOrder[j], s[2]>>
    <3>1. t \in Slot /\ t[1] = DirOrder[j] /\ t[2] = s[2]
      BY <2>5
    <3>2. j \in 1 .. visited /\ DirOrder[j] # DirOrder[visited]
      BY <1>1, <1>3, Directories, SMT
    <3> HIDE DEF t
    <3>3. t \notin found
      BY <1>2, <3>1, <3>2 DEF AsRead
    <3>4. FileKnown(t)
      BY <1>2, <3>1 DEF AsRead
    <3>5. files[t] = Absent
      BY <1>6, <3>1, <3>2, <3>3, <3>4 DEF FileKnown
    <3> QED BY <3>5 DEF t
  <2>6. ASSUME NEW k \in DOMAIN remotes' PROVE EntryFresh(k)'
    <3>1. CASE k \in 1 .. Len(remotes)
      <4>1. EntryFresh(k) /\ remotes'[k] = remotes[k]
        BY <1>2, <2>4, <3>1 DEF AsRead
      <4> QED BY <1>1, <4>1 DEF EntryFresh
    <3>2. CASE k = Len(remotes) + 1
      <4>1. remotes'[k] = e
        BY <2>4, <3>2
      <4>2. visited \in 1 .. visited /\ <<s[1], s[2]>> = s
        BY <1>1, <1>3, Slots, SMT
      <4> QED BY <1>1, <1>3, <2>3, <2>5, <4>1, <4>2 DEF EntryFresh
    <3> QED BY <2>4, <3>1, <3>2, SMT
  <2>7. ASSUME NEW t \in Slot PROVE FileKnown(t)'
    <3>1. CASE t = s
      <4>1. Len(remotes) + 1 \in At(remotes', s[2])
        BY <2>3, <2>4, SMT DEF At
      <4> QED BY <3>1, <4>1 DEF FileKnown
    <3>2. CASE t # s
      <4>1. FileKnown(t)
        BY <1>2 DEF AsRead
      <4>2. At(remotes, t[2]) \subseteq At(remotes', t[2])
        BY <2>4, SMT DEF At
      <4> QED BY <1>1, <3>2, <4>1, <4>2 DEF FileKnown
    <3> QED BY <3>1, <3>2
  <2> QED BY <1>1, <1>4, <2>6, <2>7 DEF AsRead
<1> QED BY <1>5, <1>6

\* What another program writes is reported, or is in a directory that the
\* reload has not passed.
LEMMA ChangeFresh ==
  ASSUME NEW s \in Slot, NEW c \in Content \cup {Absent}
  PROVE  RemoteTypeOK /\ FreshInv /\ FileChanges(s, c) /\ Undisturbed' => AsRead'
PROOF
<1> SUFFICES ASSUME RemoteTypeOK, FreshInv, FileChanges(s, c), Undisturbed' PROVE AsRead'
  OBVIOUS
<1>1. UNCHANGED <<remotes, visited, found, loading>> /\ Write(s, c)
  BY DEF FileChanges
<1>2. Undisturbed /\ \A i \in 1 .. visited : DirOrder[i] # s[1]
  BY <1>1, WriteReported DEF FreshInv
<1>3. AsRead
  BY <1>2 DEF FreshInv
<1>4. \A t \in Slot : t[1] # s[1] => files'[t] = files[t]
  BY <1>1 DEF Write, RemoteTypeOK, FilesOK
<1>5. ASSUME NEW i \in 1 .. visited, NEW r, <<DirOrder[i], r>> \in Slot
      PROVE  files'[<<DirOrder[i], r>>] = files[<<DirOrder[i], r>>]
  BY <1>2, <1>4, <1>5
<1>6. ASSUME NEW k \in DOMAIN remotes PROVE EntryFresh(k)'
  <2>1. PICK i \in 1 .. visited :
          /\ DirOrder[i] = remotes[k].dir /\ <<DirOrder[i], remotes[k].id>> \in Slot
          /\ files[<<DirOrder[i], remotes[k].id>>] = remotes[k].content /\ remotes[k].content.good
          /\ \A j \in 1 .. i - 1 : <<DirOrder[j], remotes[k].id>> \in Slot => files[<<DirOrder[j], remotes[k].id>>] = Absent
    BY <1>3 DEF AsRead, EntryFresh
  <2>2. visited \in Nat
    BY Directories, SMT DEF RemoteTypeOK
  <2>3. files'[<<DirOrder[i], remotes[k].id>>] = remotes[k].content
    BY <1>5, <2>1
  <2>4. ASSUME NEW j \in 1 .. i - 1, <<DirOrder[j], remotes[k].id>> \in Slot
        PROVE  files'[<<DirOrder[j], remotes[k].id>>] = Absent
    <3>1. j \in 1 .. visited
      BY <2>2, SMT
    <3> QED BY <1>5, <2>1, <2>4, <3>1
  <2> QED BY <1>1, <2>1, <2>3, <2>4 DEF EntryFresh
<1>7. ASSUME NEW t \in Slot PROVE FileKnown(t)'
  <2>1. FileKnown(t)
    BY <1>3 DEF AsRead
  <2>2. CASE t[1] = s[1]
    BY <1>1, <1>2, <2>2 DEF FileKnown
  <2>3. CASE t[1] # s[1]
    BY <1>1, <1>4, <2>1, <2>3 DEF FileKnown, At
  <2> QED BY <2>2, <2>3
<1>8. ASSUME NEW t \in found PROVE files'[t] = files[t]
  <2>1. t \in Slot /\ visited \in Nat /\ visited > 0 /\ t[1] = DirOrder[visited]
    BY <1>3, Directories, SMTT(30) DEF AsRead, RemoteTypeOK
  <2>2. visited \in 1 .. visited
    BY <2>1, SMT
  <2> QED BY <1>2, <1>4, <2>1, <2>2
<1>9. \A t \in found : Refused(t) => Refused(t)'
  BY <1>1, <1>8 DEF Refused, At
<1> QED
  BY <1>1, <1>3, <1>6, <1>7, <1>8, <1>9 DEF AsRead

\* What a client changes is reported, or has made a directory.
LEMMA KeyReported ==
  ASSUME NEW r \in Id, NEW v \in Value
  PROVE  RemoteTypeOK /\ FreshInv /\ SetKeyValue(r, v) => ~Undisturbed'
PROOF
<1> SUFFICES ASSUME RemoteTypeOK, FreshInv, SetKeyValue(r, v), Undisturbed' PROVE FALSE
  OBVIOUS
<1>1. PICK i \in DOMAIN remotes, to \in Slot, new \in Content : KeySet(r, v, i, to, new)
  BY SetKeyValueFacts
<1>2. visited' = visited /\ Write(to, new)
  BY <1>1 DEF SetKeyValue, KeySet
<1>3. Undisturbed /\ \A j \in 1 .. visited : DirOrder[j] # to[1]
  BY <1>2, WriteReported DEF FreshInv
<1>4. EntryFresh(i)
  BY <1>3 DEF FreshInv, AsRead
<1>5. PICK j \in 1 .. visited : DirOrder[j] = remotes[i].dir
  BY <1>4 DEF EntryFresh
<1>6. 1 \in 1 .. visited
  BY <1>5, Directories, SMT DEF RemoteTypeOK
<1>7. to[1] = remotes[i].dir \/ to[1] = DirOrder[1]
  BY <1>1, SMT DEF KeySet
<1> QED
  BY <1>3, <1>5, <1>6, <1>7
\* The sort only changes places.
LEMMA SortPlaces ==
  ASSUME RemoteTypeOK, SortRemotes
  PROVE  /\ \A k \in DOMAIN remotes' : \E i \in DOMAIN remotes : remotes'[k] = remotes[i]
         /\ \A i \in DOMAIN remotes : \E k \in DOMAIN remotes' : remotes'[k] = remotes[i]
         /\ DOMAIN remotes' = DOMAIN remotes
PROOF
<1>1. PICK f \in Bijection(DOMAIN remotes, DOMAIN remotes) : remotes' = [i \in DOMAIN remotes |-> remotes[f[i]]]
  BY DEF SortRemotes
<1>2. /\ \A i \in DOMAIN remotes : f[i] \in DOMAIN remotes
      /\ \A i \in DOMAIN remotes : \E k \in DOMAIN remotes : f[k] = i
  BY DEF Bijection, Injection, Surjection
<1> QED
  BY <1>1, <1>2

\* The sort changes nothing that was read.
LEMMA SortFresh == RemoteTypeOK /\ FreshInv /\ SortRemotes /\ Undisturbed' => AsRead'
PROOF
<1> SUFFICES ASSUME RemoteTypeOK, FreshInv, SortRemotes, Undisturbed' PROVE AsRead'
  OBVIOUS
<1>1. UNCHANGED <<files, visited, found, event, unseen>> /\ found = {}
  BY DEF SortRemotes, FreshInv, ReloadEnds
<1>2. AsRead
  BY <1>1 DEF Undisturbed, NothingUnseen, FreshInv
<1>3. ASSUME NEW k \in DOMAIN remotes' PROVE EntryFresh(k)'
  <2>1. PICK i \in DOMAIN remotes : remotes'[k] = remotes[i]
    BY SortPlaces
  <2>2. EntryFresh(i)
    BY <1>2 DEF AsRead
  <2> QED BY <1>1, <2>1, <2>2 DEF EntryFresh
<1>4. ASSUME NEW s \in Slot PROVE FileKnown(s)'
  <2>1. FileKnown(s)
    BY <1>2 DEF AsRead
  <2>2. ASSUME NEW i \in At(remotes, s[2]) PROVE At(remotes', s[2]) # {}
    <3>1. i \in DOMAIN remotes /\ remotes[i].id = s[2]
      BY DEF At
    <3>2. PICK k \in DOMAIN remotes' : remotes'[k] = remotes[i]
      BY <3>1, SortPlaces
    <3>3. k \in At(remotes', s[2])
      BY <3>1, <3>2 DEF At
    <3> QED BY <3>3
  <2> QED BY <1>1, <2>1, <2>2 DEF FileKnown
<1> QED
  BY <1>1, <1>3, <1>4 DEF AsRead

\* Every step keeps what was read.
LEMMA FreshStep == RemoteTypeOK /\ FreshInv /\ [RemoteNext]_remoteVars => FreshInv'
PROOF
<1> SUFFICES ASSUME RemoteTypeOK, FreshInv, [RemoteNext]_remoteVars PROVE FreshInv'
  OBVIOUS
<1>a. DirsWatched' /\ ReloadEnds'
  BY DirsWatchedStep, ReloadEndsStep DEF FreshInv
<1>0. SUFFICES ASSUME Undisturbed' PROVE AsRead'
  BY <1>a DEF FreshInv
<1>b. ASSUME event' = event, unseen' = unseen, visited' = visited PROVE AsRead
  BY <1>0, <1>b DEF FreshInv, Undisturbed, NothingUnseen
<1>1. CASE MonitorChanged
  <2>1. remotes' = <<>> /\ visited' = 0 /\ found' = {}
    BY <1>1 DEF MonitorChanged
  <2>2. DOMAIN remotes' = {} /\ 1 .. visited' = {}
    BY <2>1, SMT
  <2>3. \A s \in Slot : FileKnown(s)'
    BY <2>2 DEF FileKnown
  <2> QED BY <2>1, <2>2, <2>3 DEF AsRead
<1>2. CASE AddForPath
  BY <1>0, <1>2, PathFresh
<1>3. ASSUME NEW s \in Slot, FileFails(s) PROVE AsRead'
  BY <1>3, <1>b, SameReading DEF FileFails
<1>4. ASSUME NEW s \in Slot, AddForFile(s) PROVE AsRead'
  BY <1>0, <1>4, FileFresh
<1>5. CASE StartOrdering \/ NextRound \/ OrderingFails
  <2>1. found = {}
    BY <1>5 DEF StartOrdering, NextRound, OrderingFails, FreshInv, ReloadEnds
  <2>2. UNCHANGED <<files, remotes, visited, found>> /\ AsRead
    BY <1>5, <1>b DEF StartOrdering, NextRound, OrderingFails
  <2> QED BY <2>1, <2>2, SameReading
<1>6. CASE SortRemotes
  BY <1>0, <1>6, SortFresh
<1>7. ASSUME NEW q \in OrderRule, Depsolve(q) PROVE AsRead'
  BY <1>7, <1>b, SameReading DEF Depsolve
<1>8. ASSUME NEW s \in Slot, NEW c \in Content \cup {Absent}, FileChanges(s, c) PROVE AsRead'
  BY <1>0, <1>8, ChangeFresh
<1>9. ASSUME NEW r \in Id, NEW v \in Value, SetKeyValue(r, v) PROVE AsRead'
  BY <1>0, <1>9, KeyReported
<1>10. CASE UNCHANGED remoteVars
  <2>1. UNCHANGED <<files, remotes, visited, found, loading>> /\ AsRead
    BY <1>10, <1>b DEF remoteVars
  <2> QED BY <2>1, SameReading DEF AsRead
<1> QED
  BY <1>1, <1>2, <1>3, <1>4, <1>5, <1>6, <1>7, <1>8, <1>9, <1>10 DEF RemoteNext

-----------------------------------------------------------------------------
(* The order of the list.                                                   *)

\* What the sort does with the rules that are met.
LEMMA SortOrders ==
  ASSUME RemoteTypeOK, OrderInv, SortRemotes, NEW i \in DOMAIN remotes', NEW j \in DOMAIN remotes', MustPrecede(i, j)'
  PROVE  i < j
PROOF
<1>1. PICK a \in DOMAIN remotes : remotes'[i] = remotes[a]
  BY SortPlaces
<1>2. PICK b \in DOMAIN remotes : remotes'[j] = remotes[b]
  BY SortPlaces
<1>3. remotes \in Seq(Entry) /\ prio \in [Id -> Nat] /\ prio' = prio /\ remotes' \in Seq(Entry)
  BY ListStep DEF RemoteTypeOK, ListOK, OrderOK, SortRemotes, RemoteNext
<1>4. i \in Nat /\ j \in Nat /\ remotes[a] \in Entry /\ remotes[b] \in Entry
  BY <1>3, SMT
<1>5. remotes[a].id \in Id /\ remotes[b].id \in Id
  BY <1>4 DEF Entry
<1>6. a \in At(remotes, remotes[a].id) /\ b \in At(remotes, remotes[b].id)
  BY DEF At
<1>7. /\ remotes[a].id # remotes[b].id
      /\ remotes[b].id \in remotes[a].content.before \/ remotes[a].id \in remotes[b].content.after
  BY <1>1, <1>2 DEF MustPrecede
<1>8. \A q \in RulesOf(remotes) : prio[High(q)] > prio[Low(q)]
  BY DEF OrderInv, SortRemotes
<1>9. prio[remotes[a].id] > prio[remotes[b].id]
  <2>1. CASE remotes[b].id \in remotes[a].content.before
    <3> DEFINE q == <<"before", remotes[a].id, remotes[b].id>>
    <3>1. q \in OrderRule /\ q[1] = "before" /\ q[2] = remotes[a].id /\ q[3] = remotes[b].id
      BY <1>5 DEF OrderRule
    <3>2. remotes[a].content[q[1]] = remotes[a].content.before
      BY <3>1
    <3> HIDE DEF q
    <3>3. q \in RulesOf(remotes)
      BY <1>6, <1>7, <2>1, <3>1, <3>2 DEF RulesOf
    <3> QED BY <1>8, <3>1, <3>3 DEF High, Low
  <2>2. CASE remotes[a].id \in remotes[b].content.after
    <3> DEFINE q == <<"after", remotes[b].id, remotes[a].id>>
    <3>1. q \in OrderRule /\ q[1] = "after" /\ q[2] = remotes[b].id /\ q[3] = remotes[a].id
      BY <1>5 DEF OrderRule
    <3>2. remotes[b].content[q[1]] = remotes[b].content.after
      BY <3>1
    <3> HIDE DEF q
    <3>3. q \in RulesOf(remotes)
      BY <1>6, <1>7, <2>2, <3>1, <3>2 DEF RulesOf
    <3> QED BY <1>8, <3>1, <3>3 DEF High, Low
  <2> QED BY <1>7, <2>1, <2>2
<1>10. i # j
  BY <1>1, <1>2, <1>7
<1>11. ~(j < i)
  <2> SUFFICES ASSUME j < i PROVE FALSE
    OBVIOUS
  <2>1. prio[remotes'[j].id] > prio[remotes'[i].id] \/ prio[remotes'[j].id] = prio[remotes'[i].id]
    BY DEF SortRemotes, SortedRemotes
  <2>2. prio[remotes[a].id] \in Nat /\ prio[remotes[b].id] \in Nat
    BY <1>3, <1>5
  <2> QED BY <1>1, <1>2, <1>9, <2>1, <2>2, SMT
<1> QED
  BY <1>4, <1>10, <1>11, SMT

\* A rule that is looked at in a round that changes nothing is met.
LEMMA RuleMet ==
  ASSUME OrderInv, NEW q \in OrderRule, Depsolve(q), ~changes'
  PROVE  \A p \in RulesOf(remotes') \ pending' : prio'[High(p)] > prio'[Low(p)]
PROOF
<1>1. ~changes /\ prio' = prio /\ prio[High(q)] > prio[Low(q)] /\ pending' = pending \ {q} /\ remotes' = remotes
  BY DEF Depsolve
<1>2. \A p \in RulesOf(remotes) \ pending : prio[High(p)] > prio[Low(p)]
  BY <1>1 DEF OrderInv, Depsolve
<1> QED
  BY <1>1, <1>2

\* Every step keeps what the ordering has found.
LEMMA OrderStep == RemoteTypeOK /\ FreshInv /\ OrderInv /\ [RemoteNext]_remoteVars => OrderInv'
PROOF
<1> SUFFICES ASSUME RemoteTypeOK, FreshInv, OrderInv, [RemoteNext]_remoteVars PROVE OrderInv'
  OBVIOUS
<1>1. CASE MonitorChanged
  BY <1>1 DEF MonitorChanged, OrderInv
<1>2. CASE AddForPath
  BY <1>2 DEF AddForPath, OrderInv
<1>3. ASSUME NEW s \in Slot, FileFails(s) \/ AddForFile(s) PROVE OrderInv'
  BY <1>3 DEF FileFails, AddForFile, OrderInv
<1>4. CASE StartOrdering
  BY <1>4 DEF StartOrdering, OrderInv
<1>5. CASE NextRound
  BY <1>5 DEF NextRound, OrderInv
<1>6. CASE OrderingFails
  BY <1>6 DEF OrderingFails, OrderInv
<1>7. CASE SortRemotes
  <2>1. loading' = "idle"
    BY <1>7 DEF SortRemotes
  <2>2. \A i, j \in DOMAIN remotes' : MustPrecede(i, j)' => i < j
    BY <1>7, SortOrders
  <2> QED BY <2>1, <2>2 DEF OrderInv
<1>8. ASSUME NEW q \in OrderRule, Depsolve(q) PROVE OrderInv'
  <2>1. loading' = "ordering"
    BY <1>8 DEF Depsolve
  <2>2. ~changes' => \A p \in RulesOf(remotes)' \ pending' : prio'[High(p)] > prio'[Low(p)]
    BY <1>8, RuleMet DEF RulesOf, At
  <2> QED BY <2>1, <2>2 DEF OrderInv
<1>9. ASSUME UNCHANGED <<remotes, loading, failed, pending, changes, prio>>, Undisturbed' => Undisturbed PROVE OrderInv'
  BY <1>9 DEF OrderInv, RulesOf, At, MustPrecede
<1>10. ASSUME NEW s \in Slot, NEW c \in Content \cup {Absent}, FileChanges(s, c) PROVE OrderInv'
  <2>1. Undisturbed' => Undisturbed
    BY <1>10, WriteReported DEF FileChanges, FreshInv
  <2> QED BY <1>9, <1>10, <2>1 DEF FileChanges, orderVars
<1>11. ASSUME NEW r \in Id, NEW v \in Value, SetKeyValue(r, v) PROVE OrderInv'
  <2>1. ~Undisturbed' /\ loading' = "idle"
    BY <1>11, KeyReported DEF SetKeyValue
  <2> QED BY <2>1 DEF OrderInv
<1>12. CASE UNCHANGED remoteVars
  <2>1. Undisturbed' => Undisturbed
    BY <1>12 DEF remoteVars, Undisturbed, NothingUnseen
  <2> QED BY <1>9, <1>12, <2>1 DEF remoteVars, orderVars
<1> QED
  BY <1>1, <1>2, <1>3, <1>4, <1>5, <1>6, <1>7, <1>8, <1>10, <1>11, <1>12 DEF RemoteNext

-----------------------------------------------------------------------------
(* The theorems.                                                            *)

\* Every step keeps the inductive invariant.
LEMMA RemoteStep == RemoteInv /\ [RemoteNext]_remoteVars => RemoteInv'
PROOF BY RemoteTypeStep, FreshStep, OrderStep DEF RemoteInv

\* The inductive invariant holds of every behaviour of the list of remotes.
LEMMA RemoteAlways == RemoteSpec => []RemoteInv
PROOF
<1>1. RemoteInit => RemoteInv
  <2>1. RemoteInit => OrderInv
    BY DEF RemoteInit, OrderInv
  <2> QED BY <2>1, RemoteTypeInit, FreshInitInv DEF RemoteInv
<1> QED
  BY <1>1, RemoteStep, PTL DEF RemoteSpec

\* A file that is still to be read, and that has an ID of which the list has
\* nothing, is the one that counts.
LEMMA UnknownOwns ==
  ASSUME RemoteTypeOK, AsRead, NEW s \in found, At(remotes, s[2]) = {}
  PROVE  Owner(s[2]) = s
PROOF
<1> DEFINE r == s[2]
           has == {i \in DOMAIN DirOrder : <<DirOrder[i], r>> \in Slot /\ files[<<DirOrder[i], r>>] # Absent}
<1>1. s \in Slot /\ s = <<s[1], r>> /\ files[s] # Absent /\ visited > 0 /\ s[1] = DirOrder[visited]
  BY Slots DEF AsRead, RemoteTypeOK
<1>2. visited \in 1 .. Len(DirOrder) /\ DOMAIN DirOrder = 1 .. Len(DirOrder) /\ Len(DirOrder) \in Nat
  BY <1>1, Directories, SMT DEF RemoteTypeOK
<1>3. visited \in has
  BY <1>1, <1>2
<1>4. ASSUME NEW j \in has PROVE visited <= j
  <2> SUFFICES ASSUME j < visited PROVE FALSE
    BY <1>2, SMT
  <2> DEFINE t == <<DirOrder[j], r>>
  <2>1. t \in Slot /\ t[1] = DirOrder[j] /\ t[2] = r /\ files[t] # Absent
    OBVIOUS
  <2>2. j \in 1 .. visited /\ DirOrder[j] # DirOrder[visited]
    BY <1>2, Directories, SMT
  <2> HIDE DEF t
  <2>3. t \notin found
    BY <2>1, <2>2 DEF AsRead
  <2>4. FileKnown(t)
    BY <2>1 DEF AsRead
  <2> QED BY <2>1, <2>2, <2>3, <2>4 DEF FileKnown
<1>5. Owner(r) = <<DirOrder[CHOOSE i \in has : \A j \in has : i <= j], r>>
  BY <1>3 DEF Owner
<1>6. has \subseteq Nat
  BY <1>2, SMT
<1> DEFINE m == CHOOSE i \in has : \A j \in has : i <= j
<1> HIDE DEF has
<1>7. m \in has /\ \A j \in has : m <= j
  BY <1>3, <1>4
<1> HIDE DEF m
<1>8. m = visited
  BY <1>3, <1>4, <1>6, <1>7, SMT
<1>9. Owner(r) = <<DirOrder[m], r>>
  BY <1>5 DEF m
<1> QED
  BY <1>1, <1>8, <1>9

\* When everything is settled, no file that the daemon could load is missing
\* from the list and none in it is stale, whatever changed while the files
\* were read and however many reloads failed (fu_remote_list_reload and its
\* monitors).
THEOREM ListIsFreshCorrect == RemoteSpec => []ListIsFresh
PROOF
<1>1. RemoteInv => ListIsFresh
  <2> SUFFICES ASSUME RemoteInv, Quiescent, NEW r \in Id
               PROVE  IF Owner(r) = <<>> THEN At(remotes, r) = {}
                      ELSE \E i \in At(remotes, r) :
                             remotes[i].dir = Owner(r)[1] /\ remotes[i].content = files[Owner(r)]
    BY DEF ListIsFresh
  <2>1. RemoteTypeOK /\ FreshInv /\ Undisturbed
    BY DEF RemoteInv, Quiescent, Undisturbed, NothingUnseen
  <2>2. AsRead
    BY <2>1 DEF FreshInv
  <2>3. found = {} /\ visited = Len(DirOrder)
    <3>1. ASSUME NEW s \in found PROVE ~Refused(s)
      <4>1. s \in Slot /\ files[s] # Absent /\ files[s].good /\ (Owner(s[2]) = s => files[s].setup)
        BY <2>1, <2>2 DEF AsRead, Quiescent, RemoteTypeOK
      <4>2. At(remotes, s[2]) = {} => Owner(s[2]) = s
        BY <2>1, <2>2, UnknownOwns
      <4> QED BY <4>1, <4>2 DEF Refused
    <3>2. found = {}
      BY <2>2, <3>1 DEF AsRead, Quiescent
    <3> QED BY <2>1, <3>2 DEF Quiescent, FreshInv, ReloadEnds
  <2> DEFINE has == {i \in DOMAIN DirOrder : <<DirOrder[i], r>> \in Slot /\ files[<<DirOrder[i], r>>] # Absent}
  <2>4. Owner(r) = IF has = {} THEN <<>> ELSE <<DirOrder[CHOOSE i \in has : \A j \in has : i <= j], r>>
    BY DEF Owner
  <2>5. ASSUME NEW k \in At(remotes, r)
        PROVE  \E i \in has : (\A j \in has : i <= j) /\ remotes[k].dir = DirOrder[i] /\ remotes[k].content = files[<<DirOrder[i], r>>]
    <3>1. k \in DOMAIN remotes /\ remotes[k].id = r /\ EntryFresh(k)
      BY <2>2 DEF At, AsRead
    <3>2. PICK i \in 1 .. visited :
            /\ DirOrder[i] = remotes[k].dir /\ <<DirOrder[i], r>> \in Slot
            /\ files[<<DirOrder[i], r>>] = remotes[k].content /\ remotes[k].content.good
            /\ \A j \in 1 .. i - 1 : <<DirOrder[j], r>> \in Slot => files[<<DirOrder[j], r>>] = Absent
      BY <3>1 DEF EntryFresh
    <3>3. ~Absent.good
      BY DEF Absent
    <3>4. i \in has
      BY <2>3, <3>2, <3>3, Directories
    <3>5. ASSUME NEW j \in has PROVE i <= j
      <4>1. j \in 1 .. Len(DirOrder) /\ i \in 1 .. Len(DirOrder) /\ Len(DirOrder) \in Nat
        BY <2>3, Directories
      <4>2. j \notin 1 .. i - 1
        BY <3>2
      <4> QED BY <4>1, <4>2, SMT
    <3> QED BY <3>2, <3>4, <3>5
  <2>6. ASSUME NEW i \in has PROVE At(remotes, r) # {}
    <3> DEFINE s == <<DirOrder[i], r>>
    <3>1. s \in Slot /\ s[1] = DirOrder[i] /\ s[2] = r /\ files[s] # Absent /\ i \in 1 .. visited
      BY <2>3, Directories
    <3> HIDE DEF s
    <3>2. FileKnown(s)
      BY <2>2, <3>1 DEF AsRead
    <3> QED BY <2>3, <3>1, <3>2 DEF FileKnown
  <2>7. CASE has = {}
    <3>1. Owner(r) = <<>>
      BY <2>4, <2>7
    <3>2. At(remotes, r) = {}
      BY <2>5, <2>7
    <3> QED BY <3>1, <3>2
  <2>8. CASE has # {}
    <3>1. PICK k \in At(remotes, r) : TRUE
      BY <2>6, <2>8
    <3>2. PICK i \in has : (\A j \in has : i <= j) /\ remotes[k].dir = DirOrder[i] /\ remotes[k].content = files[<<DirOrder[i], r>>]
      BY <2>5
    <3> DEFINE m == CHOOSE n \in has : \A j \in has : n <= j
    <3>3. m \in has /\ \A j \in has : m <= j
      BY <3>2
    <3>4. has \subseteq Nat
      BY Directories, SMT
    <3> HIDE DEF has
    <3>5. Owner(r) = <<DirOrder[m], r>>
      BY <2>4, <2>8
    <3> HIDE DEF m
    <3>6. m = i
      BY <3>2, <3>3, <3>4, SMT
    <3>7. Owner(r) = <<DirOrder[i], r>>
      BY <3>5, <3>6
    <3>8. Owner(r) # <<>> /\ Owner(r)[1] = DirOrder[i]
      BY <3>7, SMT
    <3> QED BY <3>1, <3>2, <3>7, <3>8
  <2> HIDE DEF has
  <2> QED BY <2>7, <2>8
<1> QED
  BY <1>1, RemoteAlways, PTL

\* When everything is settled and the last reload has not failed, each remote
\* is before those that its OrderBefore names and after those that its
\* OrderAfter names (the loop of fu_remote_list_reload and its sort).
THEOREM OrderMetCorrect == RemoteSpec => []OrderMet
PROOF
<1>1. RemoteInv => OrderMet
  <2>1. Quiescent => Undisturbed /\ loading = "idle"
    BY DEF Quiescent, Undisturbed, NothingUnseen
  <2> QED BY <2>1 DEF RemoteInv, OrderInv, OrderMet
<1> QED
  BY <1>1, RemoteAlways, PTL
=============================================================================
