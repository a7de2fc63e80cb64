-------------------------- MODULE DeviceBaseProofs --------------------------
(***************************************************************************)
(* Proofs about what every device has, for any devices: what keeps it from *)
(* being updated (DeviceProblems, with any conditions, plugins and         *)
(* children), and how it is opened and closed (DeviceOpen, with any        *)
(* proxies and lockers).                                                   *)
(***************************************************************************)
EXTENDS DeviceOpen, DeviceProblems, FiniteSetTheorems, TLAPS

\* Most leaves are first-order: Zenon proves them, SMT is named where there is
\* arithmetic or an instance of a lemma to be found.
USE Zenon

-----------------------------------------------------------------------------
(* What keeps a device from being updated.                                 *)

DeviceFlag == FlagId \cup {"updatable", "updatable-hidden"}
DeviceRecord == [flags : SUBSET DeviceFlag, unconnected : BOOLEAN, inhibits : SUBSET AnyId, table : BOOLEAN]

\* A device whose inhibits, if there are any, are in a table.
Sound(r) == r \in DeviceRecord /\ (r.inhibits # {} => r.table)

\* The flags of device r say that it is updatable exactly when it is said to be
\* (w) and nothing inhibits it, and that it is hidden when something does.
Agrees(r, w) ==
  /\ "updatable" \in r.flags <=> w /\ r.inhibits = {}
  /\ "updatable-hidden" \in r.flags <=> w /\ r.inhibits # {}

\* The types of the fields of a device.
LEMMA DeviceFields ==
  ASSUME NEW r \in DeviceRecord
  PROVE  /\ r.flags \in SUBSET DeviceFlag /\ r.unconnected \in BOOLEAN
         /\ r.inhibits \in SUBSET AnyId /\ r.table \in BOOLEAN
  BY DEF DeviceRecord

\* Fields of the right types make a device.
LEMMA MakeDevice ==
  ASSUME NEW f \in SUBSET DeviceFlag, NEW u \in BOOLEAN, NEW i \in SUBSET AnyId, NEW t \in BOOLEAN
  PROVE  [flags |-> f, unconnected |-> u, inhibits |-> i, table |-> t] \in DeviceRecord
  BY DEF DeviceRecord

\* fu_device_ensure_inhibits() changes the flags only.
LEMMA EnsureFields ==
  ASSUME NEW r \in DeviceRecord
  PROVE  LET e == EnsureInhibits(r) IN
         /\ e \in DeviceRecord
         /\ e.inhibits = r.inhibits /\ e.table = r.table /\ e.unconnected = r.unconnected
         /\ r.inhibits # {} /\ "updatable" \in r.flags =>
              e.flags = (r.flags \ {"updatable"}) \cup {"updatable-hidden"}
         /\ r.inhibits = {} /\ "updatable-hidden" \in r.flags =>
              e.flags = (r.flags \ {"updatable-hidden"}) \cup {"updatable"}
         /\ ~(r.inhibits # {} /\ "updatable" \in r.flags) /\ ~(r.inhibits = {} /\ "updatable-hidden" \in r.flags) =>
              e.flags = r.flags
         /\ IsUpdatable(e) <=> IsUpdatable(r)
<1> DEFINE f == CASE r.inhibits # {} /\ "updatable" \in r.flags -> (r.flags \ {"updatable"}) \cup {"updatable-hidden"}
                  [] r.inhibits = {} /\ "updatable-hidden" \in r.flags -> (r.flags \ {"updatable-hidden"}) \cup {"updatable"}
                  [] OTHER -> r.flags
<1>1. EnsureInhibits(r) = [r EXCEPT !.flags = f]
  BY DEF EnsureInhibits
<1>2. r.flags \in SUBSET DeviceFlag
  BY DeviceFields
<1>3. f \in SUBSET DeviceFlag
  BY <1>2 DEF DeviceFlag
<1>4. /\ r.inhibits # {} /\ "updatable" \in r.flags => f = (r.flags \ {"updatable"}) \cup {"updatable-hidden"}
      /\ r.inhibits = {} /\ "updatable-hidden" \in r.flags => f = (r.flags \ {"updatable-hidden"}) \cup {"updatable"}
      /\ ~(r.inhibits # {} /\ "updatable" \in r.flags) /\ ~(r.inhibits = {} /\ "updatable-hidden" \in r.flags) =>
           f = r.flags
  OBVIOUS
<1> HIDE DEF f
<1>5. [r EXCEPT !.flags = f] \in DeviceRecord
  BY <1>3 DEF DeviceRecord
<1>6. /\ [r EXCEPT !.flags = f].inhibits = r.inhibits /\ [r EXCEPT !.flags = f].table = r.table
      /\ [r EXCEPT !.flags = f].unconnected = r.unconnected /\ [r EXCEPT !.flags = f].flags = f
  BY DEF DeviceRecord
<1>7. IsUpdatable([r EXCEPT !.flags = f]) <=> IsUpdatable(r)
  <2>1. f \cap {"updatable", "updatable-hidden"} # {} <=> r.flags \cap {"updatable", "updatable-hidden"} # {}
    BY <1>4
  <2> QED
    BY <1>6, <2>1 DEF IsUpdatable
<1> QED
  BY <1>1, <1>4, <1>5, <1>6, <1>7

\* Whatever the inhibits have become, the flags agree with them again.
LEMMA EnsureAgrees ==
  ASSUME NEW r \in DeviceRecord, NEW s \in DeviceRecord, NEW w \in BOOLEAN,
         Agrees(r, w), s.flags = r.flags
  PROVE  Agrees(EnsureInhibits(s), w)
<1> DEFINE e == EnsureInhibits(s)
<1>1. /\ e.inhibits = s.inhibits
      /\ s.inhibits # {} /\ "updatable" \in s.flags => e.flags = (s.flags \ {"updatable"}) \cup {"updatable-hidden"}
      /\ s.inhibits = {} /\ "updatable-hidden" \in s.flags => e.flags = (s.flags \ {"updatable-hidden"}) \cup {"updatable"}
      /\ ~(s.inhibits # {} /\ "updatable" \in s.flags) /\ ~(s.inhibits = {} /\ "updatable-hidden" \in s.flags) =>
           e.flags = s.flags
  BY EnsureFields
<1> HIDE DEF e
<1>2. Agrees(e, w)
  BY <1>1 DEF Agrees
<1> QED
  BY <1>2 DEF e

\* fu_device_inhibit_full() and fu_device_uninhibit() on one device.
LEMMA InhibitedFields ==
  ASSUME NEW r, Sound(r), NEW i \in AnyId
  PROVE  /\ Sound(Inhibited(r, i)) /\ Inhibited(r, i).inhibits = r.inhibits \cup {i}
         /\ \A w \in BOOLEAN : Agrees(r, w) => Agrees(Inhibited(r, i), w)
         /\ IsUpdatable(Inhibited(r, i)) <=> IsUpdatable(r)
<1> r \in DeviceRecord
  BY DEF Sound
<1>1. CASE i \in r.inhibits
  BY <1>1 DEF Inhibited
<1>2. CASE i \notin r.inhibits
  <2> DEFINE s == [r EXCEPT !.inhibits = r.inhibits \cup {i}, !.table = TRUE]
  <2>1. Inhibited(r, i) = EnsureInhibits(s)
    BY <1>2 DEF Inhibited
  <2>2. s \in DeviceRecord
    BY DEF DeviceRecord
  <2>3. s.flags = r.flags /\ s.inhibits = r.inhibits \cup {i} /\ s.table = TRUE
    BY DEF DeviceRecord
  <2> HIDE DEF s
  <2>4. Sound(EnsureInhibits(s)) /\ EnsureInhibits(s).inhibits = r.inhibits \cup {i}
    BY <2>2, <2>3, EnsureFields DEF Sound
  <2>5. \A w \in BOOLEAN : Agrees(r, w) => Agrees(EnsureInhibits(s), w)
    BY <2>2, <2>3, EnsureAgrees, SMT
  <2>6. IsUpdatable(EnsureInhibits(s)) <=> IsUpdatable(r)
    BY <2>2, <2>3, EnsureFields DEF IsUpdatable
  <2> QED
    BY <2>1, <2>4, <2>5, <2>6
<1> QED
  BY <1>1, <1>2

\* fu_device_uninhibit() on one device.
LEMMA UninhibitedFields ==
  ASSUME NEW r, Sound(r), NEW i
  PROVE  /\ Sound(Uninhibited(r, i)) /\ Uninhibited(r, i).inhibits = r.inhibits \ {i}
         /\ \A w \in BOOLEAN : Agrees(r, w) => Agrees(Uninhibited(r, i), w)
         /\ IsUpdatable(Uninhibited(r, i)) <=> IsUpdatable(r)
<1> r \in DeviceRecord
  BY DEF Sound
<1>1. CASE i \notin r.inhibits
  BY <1>1 DEF Uninhibited
<1>2. CASE i \in r.inhibits
  <2> DEFINE s == [r EXCEPT !.inhibits = r.inhibits \ {i}]
  <2>1. Uninhibited(r, i) = EnsureInhibits(s)
    BY <1>2 DEF Uninhibited
  <2>2. s \in DeviceRecord
    BY DEF DeviceRecord
  <2>3. s.flags = r.flags /\ s.inhibits = r.inhibits \ {i} /\ s.table = r.table
    BY DEF DeviceRecord
  <2> HIDE DEF s
  <2>4. Sound(EnsureInhibits(s)) /\ EnsureInhibits(s).inhibits = r.inhibits \ {i}
    BY <1>2, <2>2, <2>3, EnsureFields DEF Sound
  <2>5. \A w \in BOOLEAN : Agrees(r, w) => Agrees(EnsureInhibits(s), w)
    BY <2>2, <2>3, EnsureAgrees, SMT
  <2>6. IsUpdatable(EnsureInhibits(s)) <=> IsUpdatable(r)
    BY <2>2, <2>3, EnsureFields DEF IsUpdatable
  <2> QED
    BY <2>1, <2>4, <2>5, <2>6
<1> QED
  BY <1>1, <1>2

\* fu_device_add_child() on the child, and on a device that is new.
LEMMA AdoptFields ==
  ASSUME NEW r, Sound(r), NEW I \in SUBSET AnyId
  PROVE  /\ Sound(Adopt(r, I)) /\ \A w \in BOOLEAN : Agrees(r, w) => Agrees(Adopt(r, I), w)
<1> r \in DeviceRecord
  BY DEF Sound
<1>1. CASE I \subseteq r.inhibits
  BY <1>1 DEF Adopt
<1>2. CASE ~(I \subseteq r.inhibits)
  <2> DEFINE s == [r EXCEPT !.inhibits = r.inhibits \cup I, !.table = TRUE]
  <2>1. Adopt(r, I) = EnsureInhibits(s)
    BY <1>2 DEF Adopt
  <2>2. s \in DeviceRecord
    BY DEF DeviceRecord
  <2>3. s.flags = r.flags /\ s.table = TRUE
    BY DEF DeviceRecord
  <2> HIDE DEF s
  <2>4. Sound(EnsureInhibits(s))
    BY <2>2, <2>3, EnsureFields DEF Sound
  <2>5. \A w \in BOOLEAN : Agrees(r, w) => Agrees(EnsureInhibits(s), w)
    BY <2>2, <2>3, EnsureAgrees, SMT
  <2> QED
    BY <2>1, <2>4, <2>5
<1> QED
  BY <1>1, <1>2

\* A device as it is made.
LEMMA FreshSound == Sound(Fresh)
  BY MakeDevice DEF Sound, Fresh

\* A device that was probed says that it is updatable when the plugin did.
LEMMA ProbedSound ==
  ASSUME NEW up \in BOOLEAN
  PROVE  Sound(Probed(up)) /\ Agrees(Probed(up), up)
<1> DEFINE f == IF up THEN {"updatable"} ELSE {}
<1>1. f \in SUBSET DeviceFlag
  BY DEF DeviceFlag
<1>2. "updatable" \in f <=> up
  OBVIOUS
<1>3. "updatable-hidden" \notin f
  OBVIOUS
<1>4. Probed(up) = [Fresh EXCEPT !.flags = f]
  BY DEF Probed
<1> HIDE DEF f
<1>5. Probed(up) = [flags |-> f, unconnected |-> FALSE, inhibits |-> {}, table |-> FALSE]
  BY <1>4 DEF Fresh
<1>6. Probed(up) \in DeviceRecord
  BY <1>1, <1>5, MakeDevice
<1>7. Probed(up).flags = f /\ Probed(up).inhibits = {}
  BY <1>5, SMT
<1> QED
  BY <1>2, <1>3, <1>6, <1>7, SMT DEF Sound, Agrees

\* What an inhibit i that is set or removed at device d does to the devices: no
\* other inhibit changes, the flags keep agreeing and updatable, and unless d is the hub the
\* other devices stay as they are.
Touched(s, t, below, d, i) ==
  /\ t \in [Member -> DeviceRecord]
  /\ \A x \in Member : Sound(t[x])
  /\ \A x \in Member, w \in BOOLEAN : Agrees(s[x], w) => Agrees(t[x], w)
  /\ \A x \in Member : IsUpdatable(t[x]) <=> IsUpdatable(s[x])
  /\ \A x \in Member, j \in AnyId : j # i => (j \in t[x].inhibits <=> j \in s[x].inhibits)
  /\ \A x \in Member : x # d /\ ~(d = Hub /\ x \in below) => t[x] = s[x]

\* An inhibit of a device and its children changes nothing else in them.
LEMMA InhibitTouched ==
  ASSUME NEW s, \A x \in Member : Sound(s[x]), NEW below, NEW d \in Member, NEW i \in AnyId
  PROVE  Touched(s, Inhibit(s, below, d, i), below, d, i) /\ i \in Inhibit(s, below, d, i)[d].inhibits
<1> DEFINE t == Inhibit(s, below, d, i)
<1>1. \A x \in Member : t[x] = Inhibited(s[x], i) \/ t[x] = s[x]
  BY DEF Inhibit
<1>2. /\ t[d] = Inhibited(s[d], i)
      /\ \A x \in Member : x # d /\ ~(d = Hub /\ x \in below) => t[x] = s[x]
  BY DEF Inhibit
<1>3. t = [x \in Member |-> t[x]]
  BY DEF Inhibit
<1> HIDE DEF t
<1>4. ASSUME NEW x \in Member
      PROVE  /\ Sound(t[x]) /\ \A w \in BOOLEAN : Agrees(s[x], w) => Agrees(t[x], w)
             /\ IsUpdatable(t[x]) <=> IsUpdatable(s[x])
             /\ \A j \in AnyId : j # i => (j \in t[x].inhibits <=> j \in s[x].inhibits)
  BY <1>1, InhibitedFields, SMT
<1>5. t \in [Member -> DeviceRecord]
  BY <1>3, <1>4 DEF Sound
<1>6. i \in t[d].inhibits
  BY <1>2, InhibitedFields, SMT
<1>7. Touched(s, t, below, d, i)
  BY <1>2, <1>4, <1>5 DEF Touched
<1> QED
  BY <1>6, <1>7 DEF t

\* So does the end of an inhibit.
LEMMA UninhibitTouched ==
  ASSUME NEW s, \A x \in Member : Sound(s[x]), NEW below, NEW d \in Member, NEW i
  PROVE  Touched(s, Uninhibit(s, below, d, i), below, d, i) /\ i \notin Uninhibit(s, below, d, i)[d].inhibits
<1> DEFINE t == Uninhibit(s, below, d, i)
<1>1. \A x \in Member : t[x] = Uninhibited(s[x], i) \/ t[x] = s[x]
  BY DEF Uninhibit
<1>2. /\ t[d] = IF s[d].table THEN Uninhibited(s[d], i) ELSE s[d]
      /\ \A x \in Member : x # d /\ ~(d = Hub /\ x \in below) => t[x] = s[x]
  BY DEF Uninhibit
<1>3. t = [x \in Member |-> t[x]]
  BY DEF Uninhibit
<1> HIDE DEF t
<1>4. ASSUME NEW x \in Member
      PROVE  /\ Sound(t[x]) /\ \A w \in BOOLEAN : Agrees(s[x], w) => Agrees(t[x], w)
             /\ IsUpdatable(t[x]) <=> IsUpdatable(s[x])
             /\ \A j \in AnyId : j # i => (j \in t[x].inhibits <=> j \in s[x].inhibits)
  BY <1>1, UninhibitedFields, SMT
<1>5. t \in [Member -> DeviceRecord]
  BY <1>3, <1>4 DEF Sound
<1>6. i \notin t[d].inhibits
  BY <1>2, UninhibitedFields, SMT DEF Sound
<1>7. Touched(s, t, below, d, i)
  BY <1>2, <1>4, <1>5 DEF Touched
<1> QED
  BY <1>6, <1>7 DEF t

\* Condition i should give its problem to device d.
Due(d, i) == i \in context \cap Sensitive[d] /\ (i = "system-inhibit" \/ IsUpdatable(dev[d]))

\* The flags agree with the inhibits at all times; the problems of a device are
\* those of the conditions as far as the walk has been there; and what the walk
\* changes at the hub it has yet to look at in the children.
ProblemsInv ==
  /\ dev \in [Member -> DeviceRecord] /\ \A d \in Member : Sound(dev[d])
  /\ kids \subseteq Kid /\ context \subseteq Condition
  /\ active \in {{}, kids \cup {Hub}} /\ walk \subseteq active \X Condition
  /\ wanted \subseteq active /\ odd \subseteq Member /\ late \subseteq active
  /\ \A d \in active \ odd : Agrees(dev[d], d \in wanted)
  /\ \A d \in active \ late, i \in Condition : <<d, i>> \notin walk => (i \in dev[d].inhibits <=> Due(d, i))
  /\ \A i \in Condition : <<Hub, i>> \in walk => \A k \in kids : <<k, i>> \in walk

\* Nothing is plugged in at first.
LEMMA ProblemsInitInv == ProblemsInit => ProblemsInv
  BY FreshSound DEF ProblemsInit, ProblemsInv, Sound

\* An inhibit that is not a condition's, set or removed when no walk is going on.
LEMMA TouchedInv ==
  ASSUME ProblemsInv, walk = {},
         NEW s, NEW d \in Member, NEW i, i \notin Condition, Touched(s, dev', kids, d, i),
         \A x \in Member : s[x].inhibits = dev[x].inhibits,
         \A x \in Member, w \in BOOLEAN : Agrees(dev[x], w) => Agrees(s[x], w),
         \A x \in Member : IsUpdatable(s[x]) <=> IsUpdatable(dev[x]),
         UNCHANGED <<kids, active, context, walk, wanted, odd, late>>
  PROVE  ProblemsInv'
<1>1. active \subseteq Member
  BY DEF ProblemsInv, Member
<1>2. dev' \in [Member -> DeviceRecord] /\ \A x \in Member : Sound(dev'[x])
  BY DEF Touched
<1>3. ASSUME NEW x \in active \ odd
      PROVE  Agrees(dev'[x], x \in wanted)
  <2>1. x \in Member /\ (x \in wanted) \in BOOLEAN /\ Agrees(dev[x], x \in wanted)
    BY <1>1, <1>3, SMT DEF ProblemsInv
  <2>2. Agrees(s[x], x \in wanted)
    BY <2>1
  <2> QED
    BY <2>1, <2>2 DEF Touched
<1>4. ASSUME NEW x \in active \ late, NEW j \in Condition
      PROVE  j \in dev'[x].inhibits <=> Due(x, j)
  <2>1. x \in Member /\ j \in AnyId /\ j # i
    BY <1>1 DEF AnyId
  <2>2. j \in dev'[x].inhibits <=> j \in dev[x].inhibits
    BY <2>1 DEF Touched
  <2> QED
    BY <2>2 DEF ProblemsInv
<1>5. \A x \in active, j \in Condition : Due(x, j)' <=> Due(x, j)
  BY <1>1 DEF Due, Touched
<1> QED
  BY <1>2, <1>3, <1>4, <1>5 DEF ProblemsInv

\* Only the wanted flag of one device changes, and whether it is odd or late.
LEMMA FlagInv ==
  ASSUME ProblemsInv, walk = {}, NEW d \in active, NEW w \in BOOLEAN,
         dev' \in [Member -> DeviceRecord], Sound(dev'[d]), dev'[d].inhibits = dev[d].inhibits,
         \A x \in Member : x # d => dev'[x] = dev[x],
         wanted' = IF w THEN wanted \cup {d} ELSE wanted \ {d},
         odd' = IF dev[d].inhibits # {} THEN odd \cup {d} ELSE odd,
         late' = IF context # {} THEN late \cup {d} ELSE late,
         d \notin odd /\ dev[d].inhibits = {} => Agrees(dev'[d], w),
         UNCHANGED <<kids, active, context, walk>>
  PROVE  ProblemsInv'
<1>1. active \subseteq Member
  BY DEF ProblemsInv, Member
<1>2. \A x \in Member : Sound(dev'[x])
  BY DEF ProblemsInv
<1>3. ASSUME NEW x \in active \ odd'
      PROVE  Agrees(dev'[x], x \in wanted')
  <2>1. x \notin odd /\ x \in Member
    BY <1>1, <1>3
  <2>2. CASE x = d
    <3>1. dev[d].inhibits = {} /\ d \notin odd
      BY <1>3, <2>1, <2>2
    <3>2. Agrees(dev'[x], w) /\ (x \in wanted' <=> w)
      BY <2>2, <3>1
    <3> QED
      BY <3>2 DEF Agrees
  <2>3. CASE x # d
    <3>1. dev'[x] = dev[x] /\ (x \in wanted' <=> x \in wanted)
      BY <2>1, <2>3
    <3>2. Agrees(dev[x], x \in wanted)
      BY <2>1, <1>3 DEF ProblemsInv
    <3> QED
      BY <3>1, <3>2 DEF Agrees
  <2> QED
    BY <2>2, <2>3
<1>4. ASSUME NEW x \in active \ late', NEW j \in Condition
      PROVE  j \in dev'[x].inhibits <=> Due(x, j)'
  <2>1. x \notin late /\ x \in Member
    BY <1>1, <1>4
  <2>2. j \in dev[x].inhibits <=> Due(x, j)
    BY <2>1, <1>4 DEF ProblemsInv
  <2>3. CASE x = d
    <3>1. context = {}
      BY <1>4, <2>1, <2>3
    <3> QED
      BY <2>2, <2>3, <3>1 DEF Due
  <2>4. CASE x # d
    <3>1. dev'[x] = dev[x]
      BY <2>1, <2>4
    <3> QED
      BY <2>2, <3>1 DEF Due
  <2> QED
    BY <2>3, <2>4
<1>5. wanted' \subseteq active /\ odd' \subseteq Member /\ late' \subseteq active
  BY <1>1 DEF ProblemsInv
<1> QED
  BY <1>2, <1>3, <1>4, <1>5 DEF ProblemsInv

\* The engine looks at one device and one condition.
LEMMA EnsureStep ==
  ASSUME ProblemsInv, NEW d \in Member, NEW i \in Condition, Ensure(d, i)
  PROVE  ProblemsInv'
<1>1. active \subseteq Member /\ d \in active /\ i \in AnyId /\ kids \subseteq Kid
  BY DEF ProblemsInv, Ensure, Member, AnyId
<1>2. \A x \in Member : Sound(dev[x])
  BY DEF ProblemsInv
<1>3. /\ Touched(dev, dev', kids, d, i)
      /\ i \in dev'[d].inhibits <=> Applying(d, i)
  <2>1. CASE Applying(d, i)
    BY <1>1, <1>2, <2>1, InhibitTouched DEF Ensure, EnsureProblem
  <2>2. CASE ~Applying(d, i)
    BY <1>2, <2>2, UninhibitTouched DEF Ensure, EnsureProblem
  <2> QED
    BY <2>1, <2>2
<1>4. \A x \in active, j \in Condition : Due(x, j)' <=> Due(x, j)
  BY <1>1, <1>3 DEF Ensure, Due, Touched
<1>5. dev' \in [Member -> DeviceRecord] /\ \A x \in Member : Sound(dev'[x])
  BY <1>3 DEF Touched
<1>6. ASSUME NEW x \in active \ odd
      PROVE  Agrees(dev'[x], x \in wanted)
  <2>1. x \in Member /\ Agrees(dev[x], x \in wanted)
    BY <1>1, <1>6 DEF ProblemsInv
  <2>2. (x \in wanted) \in BOOLEAN
    BY SMT
  <2> QED
    BY <1>3, <2>1, <2>2 DEF Touched
<1>7. ASSUME NEW x \in active \ late, NEW j \in Condition, <<x, j>> \notin walk'
      PROVE  j \in dev'[x].inhibits <=> Due(x, j)
  <2>1. x \in Member /\ j \in AnyId
    BY <1>1 DEF AnyId
  <2>2. CASE x = d /\ j = i
    BY <1>3, <2>2 DEF Applying, Due
  <2>3. CASE ~(x = d /\ j = i)
    <3>1. <<x, j>> \notin walk
      BY <1>7, <2>3 DEF Ensure
    <3>2. j \in dev[x].inhibits <=> Due(x, j)
      BY <3>1 DEF ProblemsInv
    <3>3. CASE j # i
      BY <1>3, <2>1, <3>2, <3>3 DEF Touched
    <3>4. CASE j = i
      <4>1. x # d /\ ~(d = Hub /\ x \in kids)
        BY <2>3, <3>1, <3>4 DEF ProblemsInv, Ensure
      <4> QED
        BY <1>3, <2>1, <3>2, <4>1 DEF Touched
    <3> QED
      BY <3>3, <3>4
  <2> QED
    BY <2>2, <2>3
<1>8. ASSUME NEW j \in Condition, <<Hub, j>> \in walk', NEW k \in kids
      PROVE  <<k, j>> \in walk'
  <2>1. <<Hub, j>> \in walk /\ <<k, j>> \in walk
    BY <1>8 DEF ProblemsInv, Ensure
  <2>2. d = Hub
    BY <2>1 DEF Ensure
  <2>3. k # Hub
    BY <1>1, FamilyAssumption
  <2> QED
    BY <2>1, <2>2, <2>3 DEF Ensure
<1> QED
  BY <1>4, <1>5, <1>6, <1>7, <1>8 DEF ProblemsInv, Ensure

\* The hub is plugged in.
LEMMA PlugStep == ProblemsInv /\ Plug => ProblemsInv'
<1> SUFFICES ASSUME ProblemsInv, Plug PROVE ProblemsInv'
  OBVIOUS
<1>1. PICK below \in SUBSET Kid, up \in SUBSET Member, early \in SUBSET PluginId :
       /\ up \subseteq below \cup {Hub}
       /\ dev' = [d \in Member |-> IF d \in below \cup {Hub} THEN Adopt(Probed(d \in up), early) ELSE Fresh]
       /\ kids' = below /\ active' = below \cup {Hub}
       /\ walk' = (below \cup {Hub}) \X Condition
       /\ wanted' = up /\ odd' = {} /\ late' = {}
  BY DEF Plug
<1>2. early \in SUBSET AnyId /\ active' \subseteq Member
  BY <1>1 DEF AnyId, Member
<1>3. ASSUME NEW d \in Member
      PROVE  Sound(dev'[d]) /\ (d \in active' => Agrees(dev'[d], d \in up))
  <2> DEFINE w == d \in up
  <2>1. w \in BOOLEAN
    BY SMT
  <2>2. dev'[d] = IF d \in active' THEN Adopt(Probed(w), early) ELSE Fresh
    BY <1>1
  <2> HIDE DEF w
  <2>3. Sound(Probed(w)) /\ Agrees(Probed(w), w)
    BY <2>1, ProbedSound
  <2>4. Sound(Adopt(Probed(w), early)) /\ Agrees(Adopt(Probed(w), early), w)
    BY <1>2, <2>1, <2>3, AdoptFields
  <2>5. Sound(dev'[d]) /\ (d \in active' => Agrees(dev'[d], w))
    BY <2>2, <2>4, FreshSound
  <2> QED
    BY <2>5 DEF w
<1>4. dev' \in [Member -> DeviceRecord]
  <2>1. dev' = [d \in Member |-> dev'[d]]
    BY <1>1
  <2> QED
    BY <1>3, <2>1 DEF Sound
<1>5. context' \subseteq Condition /\ \A d \in active', i \in Condition : <<d, i>> \in walk'
  BY <1>1 DEF Plug, ProblemsInv
<1>6. /\ kids' \subseteq Kid /\ active' \in {{}, kids' \cup {Hub}} /\ walk' \subseteq active' \X Condition
      /\ wanted' \subseteq active' /\ odd' \subseteq Member /\ kids' \subseteq active'
      /\ late' \subseteq active'
  BY <1>1
<1>7. \A d \in active' \ odd' : Agrees(dev'[d], d \in wanted')
  BY <1>1, <1>2, <1>3
<1> QED
  BY <1>3, <1>4, <1>5, <1>6, <1>7 DEF ProblemsInv

\* The hub goes.
LEMMA UnplugStep == ProblemsInv /\ Unplug => ProblemsInv'
  BY FreshSound DEF ProblemsInv, Unplug, Sound

\* A child is added.
LEMMA AddChildStep ==
  ASSUME ProblemsInv, NEW k \in Kid, AddChild(k)
  PROVE  ProblemsInv'
<1>1. PICK up \in BOOLEAN :
       /\ dev' = [dev EXCEPT ![k] = Adopt(Probed(up), dev[Hub].inhibits)]
       /\ wanted' = IF up THEN wanted \cup {k} ELSE wanted
  BY DEF AddChild
<1>2. active = kids \cup {Hub} /\ k \in Member /\ Hub \in Member /\ k \notin active /\ k # Hub
  BY FamilyAssumption DEF AddChild, ProblemsInv, Member
<1>3. dev[Hub].inhibits \in SUBSET AnyId
  BY <1>2, DeviceFields DEF ProblemsInv
<1>4. Sound(dev'[k]) /\ Agrees(dev'[k], up)
  <2>1. Sound(Probed(up)) /\ Agrees(Probed(up), up)
    BY ProbedSound
  <2>2. dev'[k] = Adopt(Probed(up), dev[Hub].inhibits)
    BY <1>1, <1>2 DEF ProblemsInv
  <2> QED BY <1>3, <2>1, <2>2, AdoptFields
<1>5. \A x \in Member : x # k => dev'[x] = dev[x]
  BY <1>1 DEF ProblemsInv
<1>6. dev' \in [Member -> DeviceRecord] /\ \A x \in Member : Sound(dev'[x])
  <2>1. dev' = [x \in Member |-> dev'[x]]
    BY <1>1 DEF ProblemsInv
  <2>2. \A x \in Member : Sound(dev'[x])
    BY <1>4, <1>5 DEF ProblemsInv
  <2> QED
    BY <2>1, <2>2 DEF Sound
<1>7. k \in wanted' <=> up
  BY <1>1, <1>2 DEF ProblemsInv
<1>8. ASSUME NEW x \in active'
      PROVE  /\ x \notin odd' => Agrees(dev'[x], x \in wanted')
             /\ x \notin late' => \A j \in Condition :
                  <<x, j>> \notin walk' => (j \in dev'[x].inhibits <=> Due(x, j)')
  <2>1. CASE x = k
    <3>1. Agrees(dev'[x], x \in wanted')
      BY <1>4, <1>7, <2>1 DEF Agrees
    <3>2. \A j \in Condition : <<x, j>> \in walk'
      BY <2>1 DEF AddChild
    <3> QED
      BY <3>1, <3>2
  <2>2. CASE x # k
    <3>1. x \in active /\ x \in Member /\ (x \in wanted' <=> x \in wanted) /\ dev'[x] = dev[x]
          /\ odd' = odd /\ late' = late
      BY <1>1, <1>2, <1>5, <1>8, <2>2 DEF AddChild, ProblemsInv, Member
    <3>2. x \notin odd => Agrees(dev[x], x \in wanted)
      BY <3>1 DEF ProblemsInv
    <3>3. x \notin odd' => Agrees(dev'[x], x \in wanted')
      BY <3>1, <3>2 DEF Agrees
    <3>4. x \notin late => \A j \in Condition : j \in dev[x].inhibits <=> Due(x, j)
      BY <3>1 DEF ProblemsInv, AddChild
    <3>5. \A j \in Condition : Due(x, j)' <=> Due(x, j)
      BY <3>1 DEF Due, AddChild
    <3> QED
      BY <3>1, <3>3, <3>4, <3>5
  <2> QED
    BY <2>1, <2>2
<1>9. /\ kids' \subseteq Kid /\ context' \subseteq Condition /\ active' \in {{}, kids' \cup {Hub}}
      /\ walk' \subseteq active' \X Condition /\ wanted' \subseteq active' /\ odd' \subseteq Member
      /\ late' \subseteq active'
  BY <1>1, <1>2 DEF AddChild, ProblemsInv
<1>10. \A i \in Condition : <<Hub, i>> \notin walk'
  BY <1>2 DEF AddChild
<1> QED
  BY <1>6, <1>8, <1>9, <1>10 DEF ProblemsInv

\* A child is removed.
LEMMA RemoveChildStep ==
  ASSUME ProblemsInv, NEW k \in Kid, RemoveChild(k)
  PROVE  ProblemsInv'
<1>1. k \in Member /\ k # Hub
  BY FamilyAssumption DEF Member
<1>2. \A x \in Member : dev'[x] = IF x = k THEN Fresh ELSE dev[x]
  BY DEF RemoveChild, ProblemsInv
<1>3. dev' \in [Member -> DeviceRecord] /\ \A x \in Member : Sound(dev'[x])
  <2>1. dev' = [x \in Member |-> dev'[x]]
    BY DEF RemoveChild, ProblemsInv
  <2>2. \A x \in Member : Sound(dev'[x])
    BY <1>2, FreshSound DEF ProblemsInv
  <2> QED
    BY <2>1, <2>2 DEF Sound
<1>4. /\ kids' \subseteq Kid /\ context' \subseteq Condition /\ active' \in {{}, kids' \cup {Hub}}
      /\ walk' = {} /\ wanted' \subseteq active' /\ odd' \subseteq Member /\ late' \subseteq active'
  BY <1>1 DEF RemoveChild, ProblemsInv
<1>5. ASSUME NEW x \in active'
      PROVE  /\ x \notin odd' => Agrees(dev'[x], x \in wanted')
             /\ x \notin late' => \A j \in Condition : j \in dev'[x].inhibits <=> Due(x, j)'
  <2>1. /\ x \in active /\ x \in Member /\ (x \in wanted' <=> x \in wanted) /\ dev'[x] = dev[x]
        /\ (x \in odd' <=> x \in odd) /\ (x \in late' <=> x \in late)
    BY <1>2, <1>5 DEF RemoveChild, ProblemsInv, Member
  <2>2. /\ x \notin odd => Agrees(dev[x], x \in wanted)
        /\ x \notin late => \A j \in Condition : j \in dev[x].inhibits <=> Due(x, j)
    BY <2>1 DEF ProblemsInv, RemoveChild
  <2>3. x \notin odd' => Agrees(dev'[x], x \in wanted')
    BY <2>1, <2>2 DEF Agrees
  <2>4. \A j \in Condition : Due(x, j)' <=> Due(x, j)
    BY <2>1 DEF Due, RemoveChild
  <2> QED
    BY <2>1, <2>2, <2>3, <2>4
<1> QED
  BY <1>3, <1>4, <1>5 DEF ProblemsInv

\* The conditions change, and the walk begins.
LEMMA ContextStep ==
  ASSUME ProblemsInv, NEW c \in SUBSET Condition, ContextChanges(c)
  PROVE  ProblemsInv'
<1>1. \A d \in active, i \in Condition : <<d, i>> \in walk'
  BY DEF ContextChanges
<1>2. /\ \A i \in Condition : <<Hub, i>> \in walk' => \A k \in kids : <<k, i>> \in walk'
  BY DEF ContextChanges, ProblemsInv
<1> QED
  BY <1>1, <1>2 DEF ProblemsInv, ContextChanges

\* Inhibits of the plugin.
LEMMA PluginInhibitsStep ==
  ASSUME ProblemsInv, NEW d \in active, NEW i \in PluginId, PluginInhibits(d, i) \/ PluginUninhibits(d, i)
  PROVE  ProblemsInv'
<1>1. d \in Member /\ i \in AnyId /\ i \notin Condition
  BY FamilyAssumption DEF ProblemsInv, Member, AnyId
<1>2. \A x \in Member : Sound(dev[x])
  BY DEF ProblemsInv
<1>3. Touched(dev, dev', kids, d, i)
  BY <1>1, <1>2, InhibitTouched, UninhibitTouched DEF PluginInhibits, PluginUninhibits
<1>4. walk = {} /\ UNCHANGED <<kids, active, context, walk, wanted, odd, late>>
  BY DEF PluginInhibits, PluginUninhibits
<1> QED
  BY <1>1, <1>3, <1>4, TouchedInv

\* Another flag than updatable, or the private flag, does not touch what the
\* invariant is about.
LEMMA OtherFlags ==
  ASSUME NEW r, Sound(r), NEW s \in DeviceRecord, s.inhibits = r.inhibits, s.table = r.table,
         "updatable" \in s.flags <=> "updatable" \in r.flags,
         "updatable-hidden" \in s.flags <=> "updatable-hidden" \in r.flags
  PROVE  /\ Sound(s) /\ \A w \in BOOLEAN : Agrees(r, w) => Agrees(s, w)
         /\ IsUpdatable(s) <=> IsUpdatable(r)
  BY DEF Sound, Agrees, IsUpdatable

\* Replacing one device.
LEMMA ReplaceOne ==
  ASSUME ProblemsInv, NEW d \in Member, NEW r, Sound(r), r.inhibits = dev[d].inhibits,
         \A w \in BOOLEAN : Agrees(dev[d], w) => Agrees(r, w), IsUpdatable(r) <=> IsUpdatable(dev[d])
  PROVE  LET s == [dev EXCEPT ![d] = r] IN
         /\ \A x \in Member : Sound(s[x])
         /\ \A x \in Member : s[x].inhibits = dev[x].inhibits
         /\ \A x \in Member, w \in BOOLEAN : Agrees(dev[x], w) => Agrees(s[x], w)
         /\ \A x \in Member : IsUpdatable(s[x]) <=> IsUpdatable(dev[x])
  BY DEF ProblemsInv

\* The private flag unconnected.
LEMMA ConnectsStep ==
  ASSUME ProblemsInv, NEW d \in active, Connects(d)
  PROVE  ProblemsInv'
<1>1. d \in Member /\ "unreachable" \in AnyId /\ "unreachable" \notin Condition
  BY FamilyAssumption DEF ProblemsInv, Member, AnyId
<1> DEFINE r == [dev[d] EXCEPT !.unconnected = ~dev[d].unconnected]
           s == [dev EXCEPT ![d] = r]
<1>2. dev[d] \in DeviceRecord /\ Sound(dev[d])
  BY <1>1 DEF ProblemsInv
<1>3. r \in DeviceRecord
  BY <1>2 DEF DeviceRecord
<1>4. r.inhibits = dev[d].inhibits /\ r.table = dev[d].table /\ r.flags = dev[d].flags
  BY <1>2 DEF DeviceRecord
<1>5. dev' = Uninhibit(s, kids, d, "unreachable") \/ dev' = Inhibit(s, kids, d, "unreachable")
  BY DEF Connects
<1>6. walk = {} /\ UNCHANGED <<kids, active, context, walk, wanted, odd, late>>
  BY DEF Connects
<1> HIDE DEF r
<1>7. Sound(r) /\ (\A w \in BOOLEAN : Agrees(dev[d], w) => Agrees(r, w)) /\ (IsUpdatable(r) <=> IsUpdatable(dev[d]))
  BY <1>2, <1>3, <1>4, OtherFlags
<1>8. /\ \A x \in Member : Sound(s[x])
      /\ \A x \in Member : s[x].inhibits = dev[x].inhibits
      /\ \A x \in Member, w \in BOOLEAN : Agrees(dev[x], w) => Agrees(s[x], w)
      /\ \A x \in Member : IsUpdatable(s[x]) <=> IsUpdatable(dev[x])
  BY <1>1, <1>4, <1>7, ReplaceOne
<1> HIDE DEF s
<1>9. Touched(s, dev', kids, d, "unreachable")
  BY <1>1, <1>5, <1>8, InhibitTouched, UninhibitTouched
<1> QED
  BY <1>1, <1>6, <1>8, <1>9, TouchedInv

\* The flags that are inhibits too.
LEMMA OtherFlagStep ==
  ASSUME ProblemsInv, NEW d \in active, NEW f \in FlagId, PluginAddsFlag(d, f) \/ PluginRemovesFlag(d, f)
  PROVE  ProblemsInv'
<1>1. d \in Member /\ f \in AnyId /\ f \notin Condition /\ f # "updatable" /\ f # "updatable-hidden"
  BY FamilyAssumption DEF ProblemsInv, Member, AnyId
<1>2. PICK F \in {dev[d].flags \cup {f}, dev[d].flags \ {f}} :
        \/ dev' = Inhibit([dev EXCEPT ![d].flags = F], kids, d, f)
        \/ dev' = Uninhibit([dev EXCEPT ![d].flags = F], kids, d, f)
  <2>1. CASE PluginAddsFlag(d, f)
    BY <1>1, <2>1 DEF PluginAddsFlag, AddFlag
  <2>2. CASE PluginRemovesFlag(d, f)
    BY <1>1, <2>2 DEF PluginRemovesFlag, RemoveFlag
  <2> QED
    BY <2>1, <2>2
<1> DEFINE r == [dev[d] EXCEPT !.flags = F]
           s == [dev EXCEPT ![d] = r]
<1>3. dev[d] \in DeviceRecord /\ Sound(dev[d])
  BY <1>1 DEF ProblemsInv
<1>4. r \in DeviceRecord
  BY <1>2, <1>3 DEF DeviceRecord, DeviceFlag
<1>5. /\ r.inhibits = dev[d].inhibits /\ r.table = dev[d].table
      /\ "updatable" \in r.flags <=> "updatable" \in dev[d].flags
      /\ "updatable-hidden" \in r.flags <=> "updatable-hidden" \in dev[d].flags
  BY <1>1, <1>2, <1>3 DEF DeviceRecord
<1>6. dev' = Uninhibit(s, kids, d, f) \/ dev' = Inhibit(s, kids, d, f)
  BY <1>2
<1>7. walk = {} /\ UNCHANGED <<kids, active, context, walk, wanted, odd, late>>
  BY <1>1 DEF PluginAddsFlag, PluginRemovesFlag
<1> HIDE DEF r
<1>8. Sound(r) /\ (\A w \in BOOLEAN : Agrees(dev[d], w) => Agrees(r, w)) /\ (IsUpdatable(r) <=> IsUpdatable(dev[d]))
  BY <1>3, <1>4, <1>5, OtherFlags
<1>9. /\ \A x \in Member : Sound(s[x])
      /\ \A x \in Member : s[x].inhibits = dev[x].inhibits
      /\ \A x \in Member, w \in BOOLEAN : Agrees(dev[x], w) => Agrees(s[x], w)
      /\ \A x \in Member : IsUpdatable(s[x]) <=> IsUpdatable(dev[x])
  BY <1>1, <1>5, <1>8, ReplaceOne
<1> HIDE DEF s
<1>10. Touched(s, dev', kids, d, f)
  <2>1. CASE dev' = Uninhibit(s, kids, d, f)
    BY <1>1, <1>9, <2>1, UninhibitTouched
  <2>2. CASE dev' = Inhibit(s, kids, d, f)
    BY <1>1, <1>9, <2>2, InhibitTouched
  <2> QED BY <1>6, <2>1, <2>2
<1> QED
  BY <1>1, <1>7, <1>9, <1>10, TouchedInv

\* The plugin says that a device is updatable.
LEMMA AddUpdatableStep ==
  ASSUME ProblemsInv, NEW d \in active, PluginAddsFlag(d, "updatable")
  PROVE  ProblemsInv'
<1>1. d \in Member /\ "updatable" \notin FlagId
  BY FamilyAssumption DEF ProblemsInv, Member
<1>2. dev[d] \in DeviceRecord /\ Sound(dev[d])
  BY <1>1 DEF ProblemsInv
<1> DEFINE e == IF dev[d].table THEN EnsureInhibits(dev[d]) ELSE dev[d]
           F == e.flags \cup {"updatable"}
           r == [e EXCEPT !.flags = F]
<1>3. dev' = [dev EXCEPT ![d] = r]
  <2>1. CASE dev[d].table
    BY <1>1, <2>1 DEF PluginAddsFlag, AddFlag, ProblemsInv
  <2>2. CASE ~dev[d].table
    BY <1>1, <2>2 DEF PluginAddsFlag, AddFlag, ProblemsInv
  <2> QED
    BY <2>1, <2>2
<1>4. e \in DeviceRecord /\ e.inhibits = dev[d].inhibits /\ e.table = dev[d].table
  BY <1>2, EnsureFields
<1>5. \A w \in BOOLEAN : Agrees(dev[d], w) => Agrees(e, w)
  BY <1>2, EnsureAgrees, SMT
<1> HIDE DEF e
<1>6. r \in DeviceRecord /\ r.inhibits = dev[d].inhibits /\ r.table = dev[d].table /\ r.flags = e.flags \cup {"updatable"}
  BY <1>4 DEF DeviceRecord, DeviceFlag
<1> HIDE DEF r
<1>7. Sound(r)
  BY <1>2, <1>6 DEF Sound
<1>8. d \notin odd /\ dev[d].inhibits = {} => Agrees(r, TRUE)
  <2> SUFFICES ASSUME d \notin odd, dev[d].inhibits = {} PROVE Agrees(r, TRUE)
    OBVIOUS
  <2>1. Agrees(dev[d], d \in wanted)
    BY DEF ProblemsInv
  <2>2. (d \in wanted) \in BOOLEAN
    BY SMT
  <2>3. Agrees(e, d \in wanted)
    BY <1>5, <2>1, <2>2
  <2> QED
    BY <1>4, <1>6, <2>3 DEF Agrees
<1>9. dev'[d] = r /\ dev' \in [Member -> DeviceRecord] /\ \A x \in Member : x # d => dev'[x] = dev[x]
  BY <1>1, <1>3, <1>6 DEF ProblemsInv
<1>10. /\ wanted' = IF TRUE THEN wanted \cup {d} ELSE wanted \ {d}
       /\ odd' = IF dev[d].inhibits # {} THEN odd \cup {d} ELSE odd
       /\ late' = IF context # {} THEN late \cup {d} ELSE late
       /\ walk = {} /\ UNCHANGED <<kids, active, context, walk>>
  BY DEF PluginAddsFlag
<1> QED
  BY <1>6, <1>7, <1>8, <1>9, <1>10, FlagInv

\* The plugin unsays it.
LEMMA RemoveUpdatableStep ==
  ASSUME ProblemsInv, NEW d \in active, PluginRemovesFlag(d, "updatable")
  PROVE  ProblemsInv'
<1>1. d \in Member /\ "updatable" \notin FlagId
  BY FamilyAssumption DEF ProblemsInv, Member
<1>2. dev[d] \in DeviceRecord /\ Sound(dev[d])
  BY <1>1 DEF ProblemsInv
<1> DEFINE F == dev[d].flags \ {"updatable"}
           r == [dev[d] EXCEPT !.flags = F]
<1>3. dev' = [dev EXCEPT ![d] = r]
  BY <1>1 DEF PluginRemovesFlag, RemoveFlag, ProblemsInv
<1>4. r \in DeviceRecord /\ r.inhibits = dev[d].inhibits /\ r.table = dev[d].table /\ r.flags = dev[d].flags \ {"updatable"}
  BY <1>2 DEF DeviceRecord, DeviceFlag
<1> HIDE DEF r
<1>5. Sound(r)
  BY <1>2, <1>4 DEF Sound
<1>6. d \notin odd /\ dev[d].inhibits = {} => Agrees(r, FALSE)
  BY <1>4 DEF ProblemsInv, Agrees
<1>7. dev'[d] = r /\ dev' \in [Member -> DeviceRecord] /\ \A x \in Member : x # d => dev'[x] = dev[x]
  BY <1>1, <1>3, <1>4 DEF ProblemsInv
<1>8. /\ wanted' = IF FALSE THEN wanted \cup {d} ELSE wanted \ {d}
      /\ odd' = IF dev[d].inhibits # {} THEN odd \cup {d} ELSE odd
      /\ late' = IF context # {} THEN late \cup {d} ELSE late
      /\ walk = {} /\ UNCHANGED <<kids, active, context, walk>>
  BY DEF PluginRemovesFlag
<1> QED
  BY <1>4, <1>5, <1>6, <1>7, <1>8, FlagInv

\* Every step keeps the inductive invariant.
LEMMA ProblemsStep == ProblemsInv /\ [ProblemsNext]_problemVars => ProblemsInv'
<1> SUFFICES ASSUME ProblemsInv, [ProblemsNext]_problemVars PROVE ProblemsInv'
  OBVIOUS
<1>1. CASE UNCHANGED problemVars
  BY <1>1 DEF problemVars, ProblemsInv, Due
<1>2. ASSUME NEW d \in active, NEW f \in FlagId \cup {"updatable"}, PluginAddsFlag(d, f) \/ PluginRemovesFlag(d, f)
      PROVE  ProblemsInv'
  <2>1. CASE f \in FlagId
    BY <1>2, <2>1, OtherFlagStep
  <2>2. CASE f = "updatable"
    BY <1>2, <2>2, AddUpdatableStep, RemoveUpdatableStep
  <2> QED
    BY <2>1, <2>2
<1>3. ASSUME NEW d \in active, NEW i \in PluginId, PluginInhibits(d, i) \/ PluginUninhibits(d, i)
      PROVE  ProblemsInv'
  BY <1>3, PluginInhibitsStep
<1>4. ASSUME NEW k \in Kid, AddChild(k) \/ RemoveChild(k)
      PROVE  ProblemsInv'
  BY <1>4, AddChildStep, RemoveChildStep
<1> QED
  BY <1>1, <1>2, <1>3, <1>4, PlugStep, UnplugStep, ContextStep, EnsureStep, ConnectsStep DEF ProblemsNext

\* A device that its plugin says is updatable is updatable exactly while it has
\* no inhibit, whatever the hub, the plugin and the conditions do and in the
\* middle of a walk: fu_device_ensure_inhibits() keeps the flags of every device
\* in step with its inhibits, for any number of children and conditions.  This is
\* not so of a device that is said to be updatable, or not to be, while something
\* inhibits it: fu_device_add_flag() ensures the inhibits before it adds the flag.
THEOREM UpdatableWhenFreeCorrect == ProblemsSpec => []UpdatableWhenFree
<1>1. ProblemsInv => UpdatableWhenFree
  BY DEF ProblemsInv, UpdatableWhenFree, Agrees
<1> QED
  BY <1>1, ProblemsInitInv, ProblemsStep, PTL DEF ProblemsSpec

\* After every walk of fu_engine_context_power_changed() a listed device has the
\* problems of the conditions that apply to it, and no other problem of a condition
\* but one of its parent, for any number of children and conditions: the walk
\* visits the hub first, so that what the hub takes back from a child is put right
\* when the walk comes to the child.
THEOREM OwnConditionsCorrect == ProblemsSpec => []OwnConditions
<1>1. ASSUME ProblemsInv, walk = {}, NEW d \in active \ late
      PROVE  /\ DueProblems(d) \subseteq dev[d].inhibits
             /\ dev[d].inhibits \cap Condition \subseteq DueProblems(d) \cup ParentProblems(d)
  <2>1. \A i \in Condition : i \in dev[d].inhibits <=> Due(d, i)
    BY <1>1 DEF ProblemsInv
  <2>2. context \subseteq Condition
    BY <1>1 DEF ProblemsInv
  <2> QED
    BY <2>1, <2>2 DEF Due, DueProblems
<1>2. ProblemsInv => OwnConditions
  BY <1>1 DEF OwnConditions
<1> QED
  BY <1>2, ProblemsInitInv, ProblemsStep, PTL DEF ProblemsSpec

-----------------------------------------------------------------------------
(* Opening and closing.                                                    *)

Object == [refs : Nat, probed : BOOLEAN, ready : BOOLEAN, is_open : BOOLEAN, handle : BOOLEAN]

\* The count of object s and its handle agree with the set O of its owners.
Balanced(s, O) ==
  /\ s.refs = Cardinality(O)
  /\ s.handle <=> O # {}
  /\ s.is_open <=> O # {}

\* The types of the fields of an object.
LEMMA ObjectFields ==
  ASSUME NEW s \in Object
  PROVE  /\ s.refs \in Nat /\ s.probed \in BOOLEAN /\ s.ready \in BOOLEAN
         /\ s.is_open \in BOOLEAN /\ s.handle \in BOOLEAN
  BY DEF Object

\* Fields of the right types make an object.
LEMMA MakeObject ==
  ASSUME NEW n \in Nat, NEW p \in BOOLEAN, NEW r \in BOOLEAN, NEW o \in BOOLEAN, NEW h \in BOOLEAN
  PROVE  [refs |-> n, probed |-> p, ready |-> r, is_open |-> o, handle |-> h] \in Object
  BY DEF Object

\* What fu_device_open_internal() does to the count and to the handle.
LEMMA OpenedFields ==
  ASSUME NEW s \in Object, NEW how
  PROVE  /\ Opened(s, how) \in Object
         /\ Opened(s, how).refs = s.refs + 1
         /\ Opened(s, how).handle <=> s.handle \/ (s.refs = 0 /\ how \in {"setup", "id", "ok"})
         /\ Opened(s, how).is_open <=> s.is_open \/ (s.refs = 0 /\ how = "ok")
<1>1. Opened(s, how) \in Object
  <2>1. s.refs + 1 \in Nat
    BY ObjectFields, SMT
  <2> QED
    BY <2>1, MakeObject, Zenon DEF Opened
<1>2. Opened(s, how).refs = s.refs + 1
  BY Zenon DEF Opened
<1>3. Opened(s, how).handle <=> s.handle \/ (s.refs = 0 /\ how \in {"setup", "id", "ok"})
  BY Zenon DEF Opened
<1>4. Opened(s, how).is_open <=> s.is_open \/ (s.refs = 0 /\ how = "ok")
  BY Zenon DEF Opened
<1> QED
  BY <1>1, <1>2, <1>3, <1>4

\* What fu_device_close_internal() does to them.
LEMMA ClosedFields ==
  ASSUME NEW s \in Object, NEW works \in BOOLEAN
  PROVE  /\ Closed(s, works) \in Object
         /\ Closed(s, works).refs = IF s.refs = 0 THEN 0 ELSE s.refs - 1
         /\ Closed(s, works).handle <=> s.handle /\ ~(s.refs = 1 /\ works)
         /\ Closed(s, works).is_open <=> s.is_open /\ ~(s.refs = 1 /\ works)
<1>1. Closed(s, works) \in Object
  <2>1. (IF s.refs = 0 THEN 0 ELSE s.refs - 1) \in Nat
    BY ObjectFields, SMT
  <2> QED
    BY <2>1, ObjectFields, MakeObject, Zenon DEF Closed
<1>2. Closed(s, works).refs = IF s.refs = 0 THEN 0 ELSE s.refs - 1
  BY Zenon DEF Closed
<1>3. Closed(s, works).handle <=> s.handle /\ ~(s.refs = 1 /\ works)
  BY Zenon DEF Closed, Closes
<1>4. Closed(s, works).is_open <=> s.is_open /\ ~(s.refs = 1 /\ works)
  BY Zenon DEF Closed, Closes
<1> QED
  BY <1>1, <1>2, <1>3, <1>4, Zenon

-----------------------------------------------------------------------------
(* One object, and the set O of the lockers that own it.                    *)

\* An open that works adds the locker that asked for it to the owners.
LEMMA OpenedBalanced ==
  ASSUME NEW s \in Object, NEW O, IsFiniteSet(O), NEW l, l \notin O, Balanced(s, O)
  PROVE  Balanced(Opened(s, "ok"), O \cup {l})
<1>1. Cardinality(O \cup {l}) = Cardinality(O) + 1 /\ O \cup {l} # {}
  BY FS_AddElement
<1>2. s.refs = 0 \/ O # {}
  BY FS_EmptySet DEF Balanced
<1>3. Opened(s, "ok").handle /\ Opened(s, "ok").is_open
  BY <1>2, OpenedFields, Zenon DEF Balanced
<1>4. Opened(s, "ok").refs = Cardinality(O \cup {l})
  BY <1>1, OpenedFields DEF Balanced
<1> QED
  BY <1>1, <1>3, <1>4, Zenon DEF Balanced

\* A close that does not fail takes one owner away.
LEMMA ClosedBalanced ==
  ASSUME NEW s \in Object, NEW O, IsFiniteSet(O), NEW l \in O, Balanced(s, O),
         NEW works \in BOOLEAN, ~(Closes(s) /\ ~works)
  PROVE  Balanced(Closed(s, works), O \ {l})
<1>1. Cardinality(O \ {l}) = Cardinality(O) - 1 /\ Cardinality(O) \in Nat /\ Cardinality(O) # 0
  BY FS_RemoveElement, FS_EmptySet, FS_CardinalityType
<1>2. IsFiniteSet(O \ {l})
  BY FS_RemoveElement
<1>3. Closed(s, works).refs = Cardinality(O \ {l})
  BY <1>1, ClosedFields DEF Balanced
<1>4. O \ {l} # {} <=> ~(s.refs = 1 /\ works)
  <2>1. O \ {l} = {} <=> Cardinality(O \ {l}) = 0
    BY <1>2, FS_EmptySet
  <2>2. Cardinality(O \ {l}) = 0 <=> s.refs = 1
    BY <1>1, SMT DEF Balanced
  <2> QED
    BY <2>1, <2>2, Zenon DEF Closes
<1>5. s.handle /\ s.is_open
  BY Zenon DEF Balanced
<1> QED
  BY <1>3, <1>4, <1>5, ClosedFields, Zenon DEF Balanced

\* An open that is aborted and closed again leaves the object as it was.
LEMMA AbortedBalanced ==
  ASSUME NEW s \in Object, NEW O, IsFiniteSet(O), Balanced(s, O), NEW how \in Outcomes(s),
         NEW works \in BOOLEAN, ~(Closes(Opened(s, how)) /\ ~works)
  PROVE  Balanced(Closed(Opened(s, how), works), O)
<1> DEFINE t == Opened(s, how)
<1> t \in Object
  BY OpenedFields
<1>1. t.refs = s.refs + 1 /\ s.refs \in Nat
  BY OpenedFields, ObjectFields
<1>2. Closed(t, works).refs = s.refs
  BY <1>1, ClosedFields, SMT
<1>3. CASE s.refs = 0
  <2>1. t.refs = 1 /\ works
    BY <1>1, <1>3, SMT DEF Closes
  <2>2. ~Closed(t, works).handle /\ ~Closed(t, works).is_open
    BY <2>1, ClosedFields, Zenon
  <2>3. O = {}
    BY <1>3, FS_EmptySet DEF Balanced
  <2> QED
    BY <1>2, <2>2, <2>3, Zenon DEF Balanced
<1>4. CASE s.refs # 0
  <2>1. t.refs # 1 /\ O # {}
    BY <1>1, <1>4, FS_EmptySet, SMT DEF Balanced
  <2>2. t.handle /\ t.is_open
    BY <2>1, OpenedFields, Zenon DEF Balanced
  <2>3. Closed(t, works).handle /\ Closed(t, works).is_open
    BY <2>1, <2>2, ClosedFields, Zenon
  <2> QED
    BY <1>2, <2>1, <2>3, Zenon DEF Balanced
<1> QED
  BY <1>3, <1>4

\* Closing an object that nobody owns changes nothing.
LEMMA ClosedUnowned ==
  ASSUME NEW s \in Object, Balanced(s, {}), NEW works \in BOOLEAN
  PROVE  Balanced(Closed(s, works), {})
<1>1. s.refs = 0
  BY FS_EmptySet DEF Balanced
<1>2. Closed(s, works).refs = s.refs
  BY <1>1, ClosedFields
<1> QED
  BY <1>2, ClosedFields, Zenon DEF Balanced

-----------------------------------------------------------------------------
(* All objects: what fu_device_open() and fu_device_close() do to each.     *)

\* A proxy is another device.
LEMMA NotOwnProxy ==
  ASSUME NEW d \in Device
  PROVE  ProxyOf[d] # d /\ (ProxyOf[d] # NoProxy => ProxyOf[d] \in Device)
  BY ProxyAssumption

\* fu_device_open() opens the proxy, and the device only after it.
LEMMA OpenAllAt ==
  ASSUME NEW ds \in [Device -> Object], NEW d \in Device, NEW how, NEW proxyHow
  PROVE  /\ OpenAll(ds, d, how, proxyHow) \in [Device -> Object]
         /\ \A e \in Device :
              OpenAll(ds, d, how, proxyHow)[e] =
                IF e = d THEN IF proxyHow = "ok" THEN Opened(ds[d], how) ELSE ds[d]
                ELSE IF e = ProxyOf[d] THEN Opened(ds[e], proxyHow) ELSE ds[e]
<1>1. \A e \in Device : Opened(ds[e], how) \in Object /\ Opened(ds[e], proxyHow) \in Object
  BY OpenedFields
<1>2. CASE ProxyOf[d] = NoProxy
  BY <1>1, <1>2, ProxyAssumption DEF OpenAll
<1>3. CASE ProxyOf[d] # NoProxy
  BY <1>1, <1>3, NotOwnProxy DEF OpenAll
<1> QED
  BY <1>2, <1>3

\* fu_device_close() leaves objects, whether it fails or not.
LEMMA CloseAllType ==
  ASSUME NEW ds \in [Device -> Object], NEW d \in Device, NEW works \in BOOLEAN, NEW proxyWorks \in BOOLEAN
  PROVE  CloseAll(ds, d, works, proxyWorks) \in [Device -> Object]
<1>1. \A e \in Device : Closed(ds[e], works) \in Object /\ Closed(ds[e], proxyWorks) \in Object
  BY ClosedFields
<1> QED
  BY <1>1, NotOwnProxy DEF CloseAll

\* fu_device_close() without an error closes the device and the proxy.
LEMMA CloseAllAt ==
  ASSUME NEW ds \in [Device -> Object], NEW d \in Device, NEW works \in BOOLEAN, NEW proxyWorks \in BOOLEAN,
         ~CloseFails(ds, d, works, proxyWorks), NEW e \in Device
  PROVE  CloseAll(ds, d, works, proxyWorks)[e] =
           IF e = d THEN Closed(ds[d], works)
           ELSE IF e = ProxyOf[d] THEN Closed(ds[e], proxyWorks) ELSE ds[e]
<1>1. ~(Closes(ds[d]) /\ ~works)
  BY Zenon DEF CloseFails
<1>2. CASE ProxyOf[d] = NoProxy
  BY <1>1, <1>2, ProxyAssumption DEF CloseAll
<1>3. CASE ProxyOf[d] # NoProxy
  BY <1>1, <1>3, NotOwnProxy DEF CloseAll
<1> QED
  BY <1>2, <1>3

-----------------------------------------------------------------------------
(* The invariant.                                                           *)

Lockers == [device : Device, open : BOOLEAN]

\* Types, and the balance of every object while no close has failed.
OpenInv ==
  /\ device \in [Device -> Object]
  /\ locker \in [Locker -> Lockers \cup {NoLocker}]
  /\ broken \in BOOLEAN
  /\ ~broken => \A d \in Device : Balanced(device[d], Owners(d))

\* The number of owners is defined.
LEMMA OwnersFinite ==
  ASSUME NEW d PROVE IsFiniteSet(Owners(d))
<1>1. Owners(d) \in SUBSET Locker /\ IsFiniteSet(Locker)
  BY ProxyAssumption DEF Owners
<1> QED
  BY <1>1, FS_Subset

\* A locker that owns something has a device.
LEMMA OpenHasDevice ==
  ASSUME OpenInv, NEW l \in Locker, locker[l].open
  PROVE  locker[l] \in Lockers /\ locker[l].device \in Device
<1>1. ~NoLocker.open
  BY DEF NoLocker
<1>2. locker[l] \in Lockers
  BY <1>1 DEF OpenInv
<1> QED
  BY <1>2 DEF Lockers

\* Whoever owns a device owns its proxy.
LEMMA OwnersOfProxy ==
  ASSUME OpenInv, NEW d \in Device, ProxyOf[d] # NoProxy
  PROVE  Owners(d) \subseteq Owners(ProxyOf[d])
<1> SUFFICES ASSUME NEW l \in Owners(d) PROVE l \in Owners(ProxyOf[d])
  OBVIOUS
<1>1. l \in Locker /\ locker[l].open /\ locker[l].device \in Device
  BY OpenHasDevice DEF Owners
<1>2. locker[l].device = d
  BY <1>1, ProxyAssumption DEF Owners
<1> QED
  BY <1>1, <1>2 DEF Owners

\* A locker that gives up its device is the owner of that and of the proxy.
LEMMA OwnersLess ==
  ASSUME OpenInv, NEW l \in Locker, locker[l].open, NEW lk, ~lk.open,
         locker' = [locker EXCEPT ![l] = lk], NEW e \in Device
  PROVE  IF e \in {locker[l].device, ProxyOf[locker[l].device]}
         THEN l \in Owners(e) /\ Owners(e)' = Owners(e) \ {l}
         ELSE Owners(e)' = Owners(e)
<1>1. \A k \in Locker : locker'[k] = IF k = l THEN lk ELSE locker[k]
  BY DEF OpenInv
<1>2. Owners(e)' = Owners(e) \ {l}
  BY <1>1, SMT DEF Owners
<1>3. l \in Owners(e) <=> e \in {locker[l].device, ProxyOf[locker[l].device]}
  BY DEF Owners
<1> QED
  BY <1>2, <1>3

\* A new locker becomes an owner of its device and of the proxy.
LEMMA OwnersMore ==
  ASSUME OpenInv, NEW l \in Locker, locker[l] = NoLocker, NEW d \in Device,
         locker' = [locker EXCEPT ![l] = [device |-> d, open |-> TRUE]], NEW e \in Device
  PROVE  /\ l \notin Owners(e)
         /\ IF e \in {d, ProxyOf[d]} THEN Owners(e)' = Owners(e) \cup {l} ELSE Owners(e)' = Owners(e)
<1>1. ~locker[l].open
  <2>1. ~NoLocker.open
    BY DEF NoLocker
  <2> QED
    BY <2>1
<1>2. \A k \in Locker : locker'[k] = IF k = l THEN [device |-> d, open |-> TRUE] ELSE locker[k]
  BY DEF OpenInv
<1>3. locker'[l].open /\ locker'[l].device = d
  BY <1>2, SMT
<1>4. \A k \in Locker \ {l} : locker'[k] = locker[k]
  BY <1>2
<1> QED
  BY <1>1, <1>3, <1>4 DEF Owners

-----------------------------------------------------------------------------
(* One lemma for each action.                                               *)

\* fu_device_locker_new() that works keeps the invariant.
LEMMA NewLockerStep ==
  ASSUME OpenInv, NEW l \in Locker, NEW d \in Device, NewLocker(l, d)
  PROVE  OpenInv'
<1>1. device' \in [Device -> Object]
  BY OpenAllAt DEF NewLocker, OpenInv
<1>2. locker' \in [Locker -> Lockers \cup {NoLocker}]
  BY DEF NewLocker, OpenInv, Lockers
<1>3. broken' = broken
  BY DEF NewLocker
<1>4. ASSUME ~broken, NEW e \in Device
      PROVE  Balanced(device'[e], Owners(e)')
  <2>1. Balanced(device[e], Owners(e)) /\ device[e] \in Object
    BY <1>4 DEF OpenInv
  <2>2. l \notin Owners(e)
        /\ IF e \in {d, ProxyOf[d]} THEN Owners(e)' = Owners(e) \cup {l} ELSE Owners(e)' = Owners(e)
    BY OwnersMore DEF NewLocker
  <2>3. device'[e] = IF e \in {d, ProxyOf[d]} THEN Opened(device[e], "ok") ELSE device[e]
    <3>1. device \in [Device -> Object]
      BY DEF OpenInv
    <3>2. device' = OpenAll(device, d, "ok", "ok")
      BY DEF NewLocker
    <3> QED
      BY <3>1, <3>2, OpenAllAt, SMT
  <2>4. CASE e \in {d, ProxyOf[d]}
    <3>1. IsFiniteSet(Owners(e))
      BY OwnersFinite
    <3>2. Balanced(Opened(device[e], "ok"), Owners(e) \cup {l})
      BY <2>1, <2>2, <3>1, OpenedBalanced
    <3>3. device'[e] = Opened(device[e], "ok") /\ Owners(e)' = Owners(e) \cup {l}
      BY <2>2, <2>3, <2>4
    <3> QED
      BY <3>2, <3>3
  <2>5. CASE e \notin {d, ProxyOf[d]}
    BY <2>1, <2>2, <2>3, <2>5
  <2> QED
    BY <2>4, <2>5
<1>5. broken' \in BOOLEAN
  BY <1>3 DEF OpenInv
<1> QED
  BY <1>1, <1>2, <1>3, <1>4, <1>5 DEF OpenInv, Balanced

\* A locker closes its device, in fu_device_locker_close() or when finalized.
LEMMA CloseStep ==
  ASSUME OpenInv, NEW l \in Locker, locker[l].open, NEW lk, ~lk.open,
         locker' = [locker EXCEPT ![l] = lk],
         NEW works \in BOOLEAN, NEW proxyWorks \in BOOLEAN,
         ~broken, ~CloseFails(device, locker[l].device, works, proxyWorks),
         device' = CloseAll(device, locker[l].device, works, proxyWorks),
         NEW e \in Device
  PROVE  Balanced(device'[e], Owners(e)')
<1> DEFINE d == locker[l].device
<1> d \in Device
  BY OpenHasDevice
<1>1. Balanced(device[e], Owners(e)) /\ device[e] \in Object
  BY DEF OpenInv
<1>2. IF e \in {d, ProxyOf[d]} THEN l \in Owners(e) /\ Owners(e)' = Owners(e) \ {l}
      ELSE Owners(e)' = Owners(e)
  BY OwnersLess
<1>3. device'[e] = IF e = d THEN Closed(device[d], works)
                   ELSE IF e = ProxyOf[d] THEN Closed(device[e], proxyWorks) ELSE device[e]
  <2>1. device \in [Device -> Object]
    BY DEF OpenInv
  <2>2. CloseAll(device, d, works, proxyWorks)[e] =
          IF e = d THEN Closed(device[d], works)
          ELSE IF e = ProxyOf[d] THEN Closed(device[e], proxyWorks) ELSE device[e]
    BY <2>1, CloseAllAt, SMT
  <2> QED
    BY <2>2
<1>4. CASE e = d
  <2>1. ~(Closes(device[e]) /\ ~works)
    BY <1>4, Zenon DEF CloseFails
  <2>2. device'[e] = Closed(device[e], works) /\ l \in Owners(e) /\ Owners(e)' = Owners(e) \ {l}
    BY <1>2, <1>3, <1>4
  <2>3. IsFiniteSet(Owners(e))
    BY OwnersFinite
  <2>4. Balanced(Closed(device[e], works), Owners(e) \ {l})
    BY <1>1, <2>1, <2>2, <2>3, ClosedBalanced
  <2> QED
    BY <2>2, <2>4
<1>5. CASE e = ProxyOf[d]
  <2>1. e # NoProxy /\ e # d
    BY <1>5, ProxyAssumption, NotOwnProxy
  <2>2. ~(Closes(device[e]) /\ ~proxyWorks)
    BY <1>5, <2>1, Zenon DEF CloseFails
  <2>3. device'[e] = Closed(device[e], proxyWorks) /\ l \in Owners(e) /\ Owners(e)' = Owners(e) \ {l}
    BY <1>2, <1>3, <1>5, <2>1
  <2>4. IsFiniteSet(Owners(e))
    BY OwnersFinite
  <2>5. Balanced(Closed(device[e], proxyWorks), Owners(e) \ {l})
    BY <1>1, <2>2, <2>3, <2>4, ClosedBalanced
  <2> QED
    BY <2>3, <2>5
<1>6. CASE e \notin {d, ProxyOf[d]}
  BY <1>1, <1>2, <1>3, <1>6
<1> QED
  BY <1>4, <1>5, <1>6

\* fu_device_locker_close() keeps the invariant, with or without an error.
LEMMA LockerCloseStep ==
  ASSUME OpenInv, NEW l \in Locker, LockerClose(l)
  PROVE  OpenInv'
<1> DEFINE d == locker[l].device
<1>1. locker[l].open /\ locker[l] \in Lockers /\ d \in Device
  BY OpenHasDevice DEF LockerClose
<1>2. PICK works \in BOOLEAN, proxyWorks \in BOOLEAN :
        /\ device' = CloseAll(device, d, works, proxyWorks)
        /\ locker' = [locker EXCEPT ![l].open = CloseFails(device, d, works, proxyWorks)]
        /\ broken' = (broken \/ CloseFails(device, d, works, proxyWorks))
  BY Zenon DEF LockerClose
<1>3. device' \in [Device -> Object]
  BY <1>1, <1>2, CloseAllType DEF OpenInv
<1>4. CloseFails(device, d, works, proxyWorks) \in BOOLEAN
  BY Zenon DEF CloseFails
<1> DEFINE lk == [device |-> d, open |-> CloseFails(device, d, works, proxyWorks)]
<1>5. lk \in Lockers /\ [locker[l] EXCEPT !.open = CloseFails(device, d, works, proxyWorks)] = lk
  BY <1>1, <1>4, SMT DEF Lockers
<1>6. locker' = [locker EXCEPT ![l] = lk]
  BY <1>2, <1>5
<1>7. locker' \in [Locker -> Lockers \cup {NoLocker}]
  BY <1>5, <1>6 DEF OpenInv
<1>8. broken' \in BOOLEAN
  BY <1>2, Zenon
<1>9. ASSUME ~broken', NEW e \in Device
      PROVE  Balanced(device'[e], Owners(e)')
  <2>1. ~broken /\ ~CloseFails(device, d, works, proxyWorks)
    BY <1>2, <1>9, Zenon
  <2>2. ~lk.open
    BY <2>1, Zenon
  <2> HIDE DEF lk
  <2> QED
    BY <1>1, <1>2, <1>6, <2>1, <2>2, CloseStep
<1> QED
  BY <1>3, <1>7, <1>8, <1>9 DEF OpenInv, Balanced

\* fu_device_locker_finalize() keeps the invariant.
LEMMA LockerFinalizeStep ==
  ASSUME OpenInv, NEW l \in Locker, LockerFinalize(l)
  PROVE  OpenInv'
<1> DEFINE d == locker[l].device
<1>1. locker' = [locker EXCEPT ![l] = NoLocker] /\ ~NoLocker.open
  BY DEF LockerFinalize, NoLocker
<1>2. locker' \in [Locker -> Lockers \cup {NoLocker}]
  BY <1>1 DEF OpenInv
<1>3. CASE locker[l].open
  <2>1. d \in Device
    BY <1>3, OpenHasDevice
  <2>2. PICK works \in BOOLEAN, proxyWorks \in BOOLEAN :
          /\ device' = CloseAll(device, d, works, proxyWorks)
          /\ broken' = (broken \/ CloseFails(device, d, works, proxyWorks))
    BY <1>3, Zenon DEF LockerFinalize
  <2>3. device' \in [Device -> Object]
    BY <2>1, <2>2, CloseAllType DEF OpenInv
  <2>4. broken' \in BOOLEAN
    BY <2>2, Zenon
  <2>5. ASSUME ~broken', NEW e \in Device
        PROVE  Balanced(device'[e], Owners(e)')
    <3>1. ~broken /\ ~CloseFails(device, d, works, proxyWorks)
      BY <2>2, <2>5, Zenon
    <3> QED
      BY <1>1, <1>3, <2>2, <3>1, CloseStep
  <2> QED
    BY <1>2, <2>3, <2>4, <2>5 DEF OpenInv, Balanced
<1>4. CASE ~locker[l].open
  <2>1. device' = device /\ broken' = broken
    BY <1>4, Zenon DEF LockerFinalize
  <2>2. \A k \in Locker : ~locker'[l].open /\ (k # l => locker'[k] = locker[k])
    BY <1>1 DEF OpenInv
  <2>3. \A e \in Device : Owners(e)' = Owners(e)
    BY <1>4, <2>2 DEF Owners
  <2> QED
    BY <1>2, <2>1, <2>3 DEF OpenInv, Balanced
<1> QED
  BY <1>3, <1>4

\* fu_device_locker_new() that fails at any point keeps the invariant.
LEMMA AbortedOpenStep ==
  ASSUME OpenInv, NEW d \in Device, AbortedOpen(d)
  PROVE  OpenInv'
<1>1. PICK proxyHow \in (IF ProxyOf[d] = NoProxy THEN {"ok"} ELSE Outcomes(device[ProxyOf[d]])),
           how \in Outcomes(device[d]), works, proxyWorks \in BOOLEAN :
        LET ds == OpenAll(device, d, how, proxyHow) IN
        /\ Room(d)
        /\ proxyHow # "ok" \/ how # "ok"
        /\ device' = CloseAll(ds, d, works, proxyWorks)
        /\ broken' = (broken \/ CloseFails(ds, d, works, proxyWorks))
        /\ UNCHANGED <<locker, spent>>
  BY Zenon DEF AbortedOpen
<1> DEFINE ds == OpenAll(device, d, how, proxyHow)
<1>2. device' = CloseAll(ds, d, works, proxyWorks)
      /\ broken' = (broken \/ CloseFails(ds, d, works, proxyWorks))
  BY <1>1, Zenon
<1>3. ds \in [Device -> Object]
      /\ \A e \in Device : ds[e] = IF e = d THEN IF proxyHow = "ok" THEN Opened(device[d], how) ELSE device[d]
                                   ELSE IF e = ProxyOf[d] THEN Opened(device[e], proxyHow) ELSE device[e]
  <2>1. device \in [Device -> Object]
    BY DEF OpenInv
  <2> QED
    BY <2>1, OpenAllAt, SMT
<1> HIDE DEF ds
<1>4. device' \in [Device -> Object]
  BY <1>2, <1>3, CloseAllType
<1>5. locker' = locker
  BY <1>1
<1>6. broken' \in BOOLEAN
  BY <1>2, Zenon
<1>7. \A e \in Device : Owners(e)' = Owners(e)
  BY <1>5 DEF Owners
<1>8. ASSUME ~broken', NEW e \in Device
      PROVE  Balanced(device'[e], Owners(e))
  <2>1. ~broken /\ ~CloseFails(ds, d, works, proxyWorks)
    BY <1>2, <1>8, Zenon
  <2>2. Balanced(device[e], Owners(e)) /\ device[e] \in Object
    BY <2>1 DEF OpenInv
  <2>3. device'[e] = IF e = d THEN Closed(ds[d], works)
                     ELSE IF e = ProxyOf[d] THEN Closed(ds[e], proxyWorks) ELSE ds[e]
    <3>1. ds \in [Device -> Object] /\ ~CloseFails(ds, d, works, proxyWorks)
      BY <1>3, <2>1
    <3>2. CloseAll(ds, d, works, proxyWorks)[e] =
            IF e = d THEN Closed(ds[d], works)
            ELSE IF e = ProxyOf[d] THEN Closed(ds[e], proxyWorks) ELSE ds[e]
      BY <3>1, CloseAllAt, SMT
    <3> QED
      BY <1>2, <3>2
  <2>4. CASE e = d /\ proxyHow = "ok"
    <3>1. device'[e] = Closed(Opened(device[e], how), works)
      BY <1>3, <2>3, <2>4
    <3>2. ~(Closes(Opened(device[e], how)) /\ ~works)
      <4>1. ds[d] = Opened(device[e], how)
        BY <1>3, <2>4
      <4> QED
        BY <2>1, <4>1, Zenon DEF CloseFails
    <3> QED
      BY <2>2, <2>4, <3>1, <3>2, OwnersFinite, AbortedBalanced
  <2>5. CASE e = d /\ proxyHow # "ok"
    \* The open of the proxy has failed, so nobody owned it, or the device.
    <3>1. ProxyOf[d] # NoProxy /\ proxyHow \in Outcomes(device[ProxyOf[d]])
      BY <2>5
    <3>2. ProxyOf[d] \in Device
      BY <3>1, NotOwnProxy
    <3>3. Balanced(device[ProxyOf[d]], Owners(ProxyOf[d])) /\ device[ProxyOf[d]] \in Object
      BY <2>1, <3>2 DEF OpenInv
    <3>4. ~(device[ProxyOf[d]].refs > 0)
      BY <2>5, <3>1 DEF Outcomes
    <3>5. device[ProxyOf[d]].refs = 0
      BY <3>3, <3>4, ObjectFields, SMT
    <3>6. Owners(ProxyOf[d]) = {}
      BY <3>3, <3>5, OwnersFinite, FS_EmptySet DEF Balanced
    <3>7. Owners(e) = {}
      BY <2>5, <3>1, <3>6, OwnersOfProxy
    <3>8. device'[e] = Closed(device[e], works)
      BY <1>3, <2>3, <2>5
    <3> QED
      BY <2>2, <3>7, <3>8, ClosedUnowned
  <2>6. CASE e = ProxyOf[d]
    <3>1. e # NoProxy /\ e # d
      BY <2>6, ProxyAssumption, NotOwnProxy
    <3>2. ds[e] = Opened(device[e], proxyHow) /\ device'[e] = Closed(Opened(device[e], proxyHow), proxyWorks)
      BY <1>3, <2>3, <2>6, <3>1
    <3>3. ~(Closes(Opened(device[e], proxyHow)) /\ ~proxyWorks)
      BY <2>1, <2>6, <3>1, <3>2, Zenon DEF CloseFails
    <3>4. proxyHow \in Outcomes(device[e])
      BY <2>6, <3>1
    <3> QED
      BY <2>2, <3>2, <3>3, <3>4, OwnersFinite, AbortedBalanced
  <2>7. CASE e \notin {d, ProxyOf[d]}
    BY <1>3, <2>2, <2>3, <2>7
  <2> QED
    BY <2>4, <2>5, <2>6, <2>7
<1> QED
  BY <1>4, <1>5, <1>6, <1>7, <1>8 DEF OpenInv, Balanced

\* New objects are not open, and no locker owns one.
LEMMA NewObjectsBalanced ==
  /\ NewObject \in Object /\ ~NoLocker.open
  /\ Balanced(NewObject, {})
<1>1. NewObject.refs = 0 /\ ~NewObject.handle /\ ~NewObject.is_open /\ ~NoLocker.open
  BY DEF NewObject, NoLocker
<1>2. NewObject \in Object
  BY MakeObject DEF NewObject
<1> QED
  BY <1>1, <1>2, FS_EmptySet, Zenon DEF Balanced

\* No object is open at the start.
LEMMA OpenInitInv == OpenInit => OpenInv
<1> SUFFICES ASSUME OpenInit PROVE OpenInv
  OBVIOUS
<1>1. device = [d \in Device |-> NewObject] /\ locker = [l \in Locker |-> NoLocker] /\ broken = FALSE
  BY DEF OpenInit
<1>2. \A d \in Device : Owners(d) = {}
  BY <1>1, NewObjectsBalanced DEF Owners
<1>3. device \in [Device -> Object] /\ \A d \in Device : Balanced(device[d], Owners(d))
  BY <1>1, <1>2, NewObjectsBalanced
<1> QED
  BY <1>1, <1>3 DEF OpenInv

\* New objects after a replug keep the invariant.
LEMMA ReplugStep == OpenInv /\ Replugged => OpenInv'
<1> SUFFICES ASSUME OpenInv, Replugged PROVE OpenInv'
  OBVIOUS
<1>1. device' = [d \in Device |-> NewObject] /\ locker' = locker /\ broken' = FALSE
      /\ \A l \in Locker : locker[l] = NoLocker
  BY DEF Replugged
<1>2. \A d \in Device : Owners(d)' = {}
  BY <1>1, NewObjectsBalanced DEF Owners
<1>3. locker' \in [Locker -> Lockers \cup {NoLocker}]
  BY <1>1 DEF OpenInv
<1>4. device' \in [Device -> Object] /\ \A d \in Device : Balanced(device'[d], Owners(d)')
  BY <1>1, <1>2, NewObjectsBalanced
<1> QED
  BY <1>1, <1>3, <1>4 DEF OpenInv, Balanced

\* Every step keeps the invariant.
LEMMA OpenStep == OpenInv /\ [OpenNext]_openVars => OpenInv'
<1> SUFFICES ASSUME OpenInv, [OpenNext]_openVars PROVE OpenInv'
  OBVIOUS
<1>1. CASE UNCHANGED openVars
  <2>1. \A d \in Device : Owners(d)' = Owners(d)
    BY <1>1 DEF openVars, Owners
  <2> QED
    BY <1>1, <2>1 DEF openVars, OpenInv, Balanced
<1> QED
  BY <1>1, NewLockerStep, AbortedOpenStep, LockerCloseStep, LockerFinalizeStep, ReplugStep DEF OpenNext

\* While no close vfunc has failed, the open_refcount of a device is the number
\* of FuDeviceLocker objects that own it or a device that opens it as its proxy,
\* and the hardware is open exactly when that number is not zero: for any number
\* of devices and lockers, and after any opens that were aborted half-way.
THEOREM OpenBalancedCorrect == OpenSpec => []OpenBalanced
<1>1. OpenInv => OpenBalanced
  BY DEF OpenInv, OpenBalanced, Balanced
<1> QED
  BY <1>1, OpenInitInv, OpenStep, PTL DEF OpenSpec

-----------------------------------------------------------------------------
(* Closes that fail.                                                        *)

\* The count of object s covers the set O of its owners, and the hardware of an
\* object that is counted is open.
Covered(s, O) ==
  /\ s.refs >= Cardinality(O)
  /\ s.refs > 0 => s.handle /\ s.is_open

\* No locker has closed the device, or its proxy, with an error.
Unspent(d) == {d, ProxyOf[d]} \cap spent = {}

\* The inductive invariant: references may leak, but only those of a proxy.  A
\* device with a proxy of its own is never counted more often than it is owned,
\* so that an open that fails at the proxy closes a device that nobody has open.
CoverInv ==
  /\ OpenInv /\ spent \subseteq Device
  /\ \A d \in Device : ProxyOf[d] # NoProxy => device[d].refs <= Cardinality(Owners(d))
  /\ \A d \in Device : Unspent(d) => Covered(device[d], Owners(d))

\* fu_device_close() on each object, whether or not it fails.
LEMMA CloseAllEach ==
  ASSUME NEW ds \in [Device -> Object], NEW d \in Device, NEW works \in BOOLEAN,
         NEW proxyWorks \in BOOLEAN, NEW e \in Device
  PROVE  CloseAll(ds, d, works, proxyWorks)[e] =
           IF e = d THEN Closed(ds[d], works)
           ELSE IF e = ProxyOf[d] /\ ~(Closes(ds[d]) /\ ~works)
           THEN Closed(ds[e], proxyWorks) ELSE ds[e]
<1>1. CASE ProxyOf[d] = NoProxy
  BY <1>1, ProxyAssumption DEF CloseAll
<1>2. CASE ProxyOf[d] # NoProxy
  BY <1>2, NotOwnProxy DEF CloseAll
<1> QED
  BY <1>1, <1>2

\* An open whose reference leaks.
LEMMA LeakedCovered ==
  ASSUME NEW s \in Object, NEW O, IsFiniteSet(O), Covered(s, O)
  PROVE  Covered(Opened(s, "ok"), O)
<1>1. Opened(s, "ok").refs = s.refs + 1 /\ s.refs \in Nat /\ Cardinality(O) \in Nat
  BY OpenedFields, ObjectFields, FS_CardinalityType
<1>2. s.refs = 0 \/ s.refs > 0
  BY <1>1, SMT
<1>3. Opened(s, "ok").handle /\ Opened(s, "ok").is_open
  BY <1>2, OpenedFields, Zenon DEF Covered
<1>4. Opened(s, "ok").refs >= Cardinality(O)
  BY <1>1, SMT DEF Covered
<1> QED
  BY <1>3, <1>4, Zenon DEF Covered

\* An open for a new owner.
LEMMA OpenedCovered ==
  ASSUME NEW s \in Object, NEW O, IsFiniteSet(O), NEW l, l \notin O
  PROVE  /\ Covered(s, O) => Covered(Opened(s, "ok"), O \cup {l})
         /\ s.refs <= Cardinality(O) => Opened(s, "ok").refs <= Cardinality(O \cup {l})
<1>1. Cardinality(O \cup {l}) = Cardinality(O) + 1 /\ Cardinality(O) \in Nat
  BY FS_AddElement, FS_CardinalityType
<1>2. Opened(s, "ok").refs = s.refs + 1 /\ s.refs \in Nat
  BY OpenedFields, ObjectFields
<1>3. s.refs = 0 \/ s.refs > 0
  BY <1>2, SMT
<1>4. Covered(s, O) => Opened(s, "ok").handle /\ Opened(s, "ok").is_open
  BY <1>3, OpenedFields, Zenon DEF Covered
<1>5. /\ Covered(s, O) => Opened(s, "ok").refs >= Cardinality(O \cup {l})
      /\ s.refs <= Cardinality(O) => Opened(s, "ok").refs <= Cardinality(O \cup {l})
  BY <1>1, <1>2, SMT DEF Covered
<1> QED
  BY <1>4, <1>5, Zenon DEF Covered

\* A close for an owner, whether or not it fails; and an owner that leaves
\* without one.
LEMMA ClosedCovered ==
  ASSUME NEW s \in Object, NEW O, IsFiniteSet(O), NEW l \in O, Covered(s, O),
         NEW works \in BOOLEAN
  PROVE  /\ Covered(Closed(s, works), O \ {l})
         /\ Covered(s, O \ {l})
<1>1. /\ Cardinality(O \ {l}) = Cardinality(O) - 1 /\ Cardinality(O) \in Nat
      /\ Cardinality(O) # 0 /\ s.refs \in Nat
  BY FS_RemoveElement, FS_EmptySet, FS_CardinalityType, ObjectFields
<1>2. Closed(s, works).refs = s.refs - 1 /\ s.refs > 0
  BY <1>1, ClosedFields, SMT DEF Covered
<1>3. Closed(s, works).refs > 0 => s.refs # 1
  BY <1>1, <1>2, SMT
<1>4. Closed(s, works).refs > 0 => Closed(s, works).handle /\ Closed(s, works).is_open
  BY <1>2, <1>3, ClosedFields, Zenon DEF Covered
<1>5. Closed(s, works).refs >= Cardinality(O \ {l}) /\ s.refs >= Cardinality(O \ {l})
  BY <1>1, <1>2, SMT DEF Covered
<1> QED
  BY <1>4, <1>5, Zenon DEF Covered

\* A close never adds to the count.
LEMMA ClosedAtMost ==
  ASSUME NEW s \in Object, NEW O, IsFiniteSet(O), s.refs <= Cardinality(O), NEW works \in BOOLEAN
  PROVE  /\ Closed(s, works).refs <= Cardinality(O)
         /\ \A l \in O : Closed(s, works).refs <= Cardinality(O \ {l})
<1>1. Cardinality(O) \in Nat /\ s.refs \in Nat
  BY FS_CardinalityType, ObjectFields
<1>2. Closed(s, works).refs = IF s.refs = 0 THEN 0 ELSE s.refs - 1
  BY ClosedFields
<1>3. ASSUME NEW l \in O PROVE Closed(s, works).refs <= Cardinality(O \ {l})
  <2>1. Cardinality(O \ {l}) = Cardinality(O) - 1 /\ Cardinality(O) # 0
    BY FS_RemoveElement, FS_EmptySet
  <2> QED
    BY <1>1, <1>2, <2>1, SMT
<1>4. Closed(s, works).refs <= Cardinality(O)
  BY <1>1, <1>2, SMT
<1> QED
  BY <1>3, <1>4

\* An open that is aborted and then closed, whether or not the close fails.
LEMMA AbortedCovered ==
  ASSUME NEW s \in Object, NEW O, NEW how \in Outcomes(s), NEW works \in BOOLEAN
  PROVE  /\ Covered(s, O) => Covered(Closed(Opened(s, how), works), O)
         /\ Closed(Opened(s, how), works).refs = s.refs
<1> DEFINE t == Opened(s, how)
<1>1. t \in Object /\ t.refs = s.refs + 1 /\ s.refs \in Nat
  BY OpenedFields, ObjectFields
<1>2. Covered(s, O) /\ s.refs > 0 => t.handle /\ t.is_open
  BY OpenedFields, Zenon DEF Covered
<1> HIDE DEF t
<1>3. Closed(t, works).refs = s.refs /\ (s.refs > 0 => t.refs # 1)
  BY <1>1, ClosedFields, SMT
<1>4. Covered(s, O) /\ s.refs > 0 => Closed(t, works).handle /\ Closed(t, works).is_open
  BY <1>1, <1>2, <1>3, ClosedFields, Zenon
<1> QED
  BY <1>3, <1>4, Zenon DEF Covered, t

\* A close when a locker gives up what it owns.
LEMMA CloseCovered ==
  ASSUME CoverInv, NEW l \in Locker, locker[l].open, NEW lk, ~lk.open,
         locker' = [locker EXCEPT ![l] = lk],
         NEW works \in BOOLEAN, NEW proxyWorks \in BOOLEAN,
         device' = CloseAll(device, locker[l].device, works, proxyWorks),
         NEW e \in Device
  PROVE  /\ ProxyOf[e] # NoProxy => device'[e].refs <= Cardinality(Owners(e)')
         /\ Unspent(e) => Covered(device'[e], Owners(e)')
<1> DEFINE d == locker[l].device
<1>0. OpenInv /\ d \in Device
  BY OpenHasDevice DEF CoverInv
<1>1. /\ Unspent(e) => Covered(device[e], Owners(e))
      /\ device[e] \in Object /\ IsFiniteSet(Owners(e))
      /\ ProxyOf[e] # NoProxy => device[e].refs <= Cardinality(Owners(e))
  BY OwnersFinite DEF CoverInv, OpenInv
<1>2. IF e \in {d, ProxyOf[d]} THEN l \in Owners(e) /\ Owners(e)' = Owners(e) \ {l}
      ELSE Owners(e)' = Owners(e)
  BY <1>0, OwnersLess
<1>3. device'[e] = IF e = d THEN Closed(device[d], works)
                   ELSE IF e = ProxyOf[d] /\ ~(Closes(device[d]) /\ ~works)
                   THEN Closed(device[e], proxyWorks) ELSE device[e]
  <2>1. device \in [Device -> Object]
    BY <1>0 DEF OpenInv
  <2>2. CloseAll(device, d, works, proxyWorks)[e] =
          IF e = d THEN Closed(device[d], works)
          ELSE IF e = ProxyOf[d] /\ ~(Closes(device[d]) /\ ~works)
          THEN Closed(device[e], proxyWorks) ELSE device[e]
    BY <1>0, <2>1, CloseAllEach, SMT
  <2> QED
    BY <2>2
<1>4. CASE e = d
  <2>1. l \in Owners(e) /\ Owners(e)' = Owners(e) \ {l} /\ device'[e] = Closed(device[e], works)
    BY <1>2, <1>3, <1>4
  <2>2. Unspent(e) => Covered(Closed(device[e], works), Owners(e) \ {l})
    BY <1>1, <2>1, ClosedCovered
  <2>3. ProxyOf[e] # NoProxy => Closed(device[e], works).refs <= Cardinality(Owners(e) \ {l})
    BY <1>1, <2>1, ClosedAtMost
  <2> QED
    BY <2>1, <2>2, <2>3
<1>5. CASE e = ProxyOf[d]
  <2>1. ProxyOf[e] = NoProxy
    BY <1>0, <1>5, ProxyAssumption
  <2>2. device'[e] = Closed(device[e], proxyWorks) \/ device'[e] = device[e]
    BY <1>0, <1>3, <1>5, NotOwnProxy
  <2>3. Unspent(e) => /\ Covered(Closed(device[e], proxyWorks), Owners(e) \ {l})
                      /\ Covered(device[e], Owners(e) \ {l})
    BY <1>1, <1>2, <1>5, ClosedCovered
  <2> QED
    BY <1>2, <1>5, <2>1, <2>2, <2>3
<1>6. CASE e \notin {d, ProxyOf[d]}
  BY <1>1, <1>2, <1>3, <1>6
<1> QED
  BY <1>4, <1>5, <1>6

\* An open that is aborted.
LEMMA AbortedOpenCovered ==
  ASSUME CoverInv, NEW d \in Device, AbortedOpen(d), NEW e \in Device
  PROVE  /\ ProxyOf[e] # NoProxy => device'[e].refs <= Cardinality(Owners(e)')
         /\ Unspent(e) => Covered(device'[e], Owners(e)')
<1>1. PICK proxyHow \in (IF ProxyOf[d] = NoProxy THEN {"ok"} ELSE Outcomes(device[ProxyOf[d]])),
           how \in Outcomes(device[d]), works, proxyWorks \in BOOLEAN :
        LET ds == OpenAll(device, d, how, proxyHow) IN
        /\ Room(d)
        /\ proxyHow # "ok" \/ how # "ok"
        /\ device' = CloseAll(ds, d, works, proxyWorks)
        /\ broken' = (broken \/ CloseFails(ds, d, works, proxyWorks))
        /\ UNCHANGED <<locker, spent>>
  BY Zenon DEF AbortedOpen
<1> DEFINE ds == OpenAll(device, d, how, proxyHow)
<1>2. device' = CloseAll(ds, d, works, proxyWorks)
  BY <1>1, Zenon
<1>3. ds \in [Device -> Object]
      /\ \A x \in Device : ds[x] = IF x = d THEN IF proxyHow = "ok" THEN Opened(device[d], how) ELSE device[d]
                                   ELSE IF x = ProxyOf[d] THEN Opened(device[x], proxyHow) ELSE device[x]
  <2>1. device \in [Device -> Object]
    BY DEF CoverInv, OpenInv
  <2> QED
    BY <2>1, OpenAllAt, SMT
<1> HIDE DEF ds
<1>4. Owners(e)' = Owners(e)
  BY <1>1 DEF Owners
<1>5. \A x \in Device : /\ Unspent(x) => Covered(device[x], Owners(x))
                        /\ device[x] \in Object /\ IsFiniteSet(Owners(x))
                        /\ ProxyOf[x] # NoProxy => device[x].refs <= Cardinality(Owners(x))
  BY OwnersFinite DEF CoverInv, OpenInv
<1>6. device'[e] = IF e = d THEN Closed(ds[d], works)
                   ELSE IF e = ProxyOf[d] /\ ~(Closes(ds[d]) /\ ~works)
                   THEN Closed(ds[e], proxyWorks) ELSE ds[e]
  <2>1. ds \in [Device -> Object]
    BY <1>3
  <2>2. CloseAll(ds, d, works, proxyWorks)[e] =
          IF e = d THEN Closed(ds[d], works)
          ELSE IF e = ProxyOf[d] /\ ~(Closes(ds[d]) /\ ~works)
          THEN Closed(ds[e], proxyWorks) ELSE ds[e]
    BY <2>1, CloseAllEach, SMT
  <2> QED
    BY <1>2, <2>2
<1>7. ASSUME proxyHow # "ok", ProxyOf[d] \notin spent
      PROVE  /\ device[d].refs = 0 /\ ~Closes(ds[d])
             /\ Owners(d) = {} /\ ProxyOf[d] # NoProxy
  <2>1. ProxyOf[d] # NoProxy /\ proxyHow \in Outcomes(device[ProxyOf[d]])
    BY <1>7
  <2>2. ProxyOf[d] \in Device
    BY <2>1, NotOwnProxy
  <2>3. ~(device[ProxyOf[d]].refs > 0)
    BY <1>7, <2>1 DEF Outcomes
  <2>4. /\ device[ProxyOf[d]].refs >= Cardinality(Owners(ProxyOf[d]))
        /\ device[ProxyOf[d]].refs \in Nat
    <3>1. Unspent(ProxyOf[d])
      BY <1>7, <2>1, ProxyAssumption DEF Unspent, CoverInv
    <3> QED
      BY <1>5, <2>2, <3>1, ObjectFields DEF Covered
  <2>5. Owners(ProxyOf[d]) = {}
    BY <2>3, <2>4, OwnersFinite, FS_EmptySet, FS_CardinalityType, SMT
  <2>6. Owners(d) = {}
    BY <2>1, <2>5, OwnersOfProxy DEF CoverInv
  <2>7. device[d].refs = 0
    <3>1. device[d].refs <= 0 /\ device[d].refs \in Nat
      BY <1>5, <2>1, <2>6, FS_EmptySet, ObjectFields
    <3> QED
      BY <3>1, SMT
  <2>8. ds[d] = device[d]
    BY <1>3, <1>7
  <2> QED
    <3>1. ~Closes(device[d])
      BY <2>7, SMT DEF Closes
    <3> QED
      BY <2>1, <2>6, <2>7, <2>8, <3>1
<1>8. CASE e = d
  <2>1. CASE proxyHow = "ok"
    <3>1. device'[e] = Closed(Opened(device[e], how), works)
      BY <1>3, <1>6, <1>8, <2>1
    <3>2. how \in Outcomes(device[e]) /\ works \in BOOLEAN /\ device[e] \in Object
      BY <1>1, <1>5, <1>8
    <3>3. /\ Covered(device[e], Owners(e)) => Covered(Closed(Opened(device[e], how), works), Owners(e))
          /\ Closed(Opened(device[e], how), works).refs = device[e].refs
      BY <3>2, AbortedCovered
    <3> QED
      BY <1>4, <1>5, <3>1, <3>3
  <2>2. CASE proxyHow # "ok"
    <3>1. device'[e] = Closed(device[e], works) /\ device[e] \in Object
      BY <1>3, <1>5, <1>6, <1>8, <2>2
    <3>2. ProxyOf[e] # NoProxy => Closed(device[e], works).refs <= Cardinality(Owners(e))
      BY <1>5, <3>1, ClosedAtMost
    <3>3. ASSUME Unspent(e) PROVE Covered(Closed(device[e], works), Owners(e))
      <4>1. device[e].refs = 0 /\ Owners(e) = {}
        BY <1>7, <1>8, <2>2, <3>3 DEF Unspent
      <4>2. Closed(device[e], works).refs = 0 /\ Cardinality(Owners(e)) = 0
        BY <3>1, <4>1, ClosedFields, FS_EmptySet
      <4> QED
        BY <4>2, SMT DEF Covered
    <3> QED
      BY <1>4, <3>1, <3>2, <3>3
  <2> QED
    BY <2>1, <2>2
<1>9. CASE e = ProxyOf[d]
  <2>1. e # NoProxy /\ e # d /\ ProxyOf[e] = NoProxy
    BY <1>9, ProxyAssumption, NotOwnProxy
  <2>2. ds[e] = Opened(device[e], proxyHow) /\ proxyHow \in Outcomes(device[e])
    BY <1>3, <1>9, <2>1
  <2>3. CASE device'[e] = Closed(ds[e], proxyWorks)
    <3>1. Covered(device[e], Owners(e)) => Covered(Closed(Opened(device[e], proxyHow), proxyWorks), Owners(e))
      BY <1>5, <2>2, AbortedCovered
    <3> QED
      BY <1>4, <1>5, <2>1, <2>2, <2>3, <3>1
  <2>4. CASE device'[e] = ds[e] /\ Closes(ds[d])
    \* The close of the device has failed: the reference of the proxy leaks.
    <3> SUFFICES ASSUME Unspent(e) PROVE Covered(device'[e], Owners(e)')
      BY <2>1
    <3>1. proxyHow = "ok"
      BY <1>7, <1>9, <2>4 DEF Unspent
    <3>2. Covered(Opened(device[e], "ok"), Owners(e))
      BY <1>5, LeakedCovered
    <3> QED
      BY <1>4, <2>1, <2>2, <2>4, <3>1, <3>2
  <2> QED
    BY <1>6, <1>9, <2>1, <2>3, <2>4
<1>10. CASE e \notin {d, ProxyOf[d]}
  BY <1>3, <1>4, <1>5, <1>6, <1>10
<1> QED
  BY <1>8, <1>9, <1>10

\* Every step keeps what the lockers own.
LEMMA CoverStep ==
  ASSUME CoverInv, [OpenNext]_openVars
  PROVE  CoverInv'
<1> DEFINE C(e) == /\ ProxyOf[e] # NoProxy => device'[e].refs <= Cardinality(Owners(e)')
                   /\ Unspent(e)' => Covered(device'[e], Owners(e)')
<1>0. OpenInv /\ OpenInv' /\ spent \subseteq Device
  BY OpenStep DEF CoverInv
<1>1. ASSUME spent' \subseteq Device, \A e \in Device : C(e)
      PROVE  CoverInv'
  BY <1>0, <1>1, Zenon DEF CoverInv
<1>2. \A e \in Device : /\ Unspent(e) => Covered(device[e], Owners(e))
                        /\ device[e] \in Object /\ IsFiniteSet(Owners(e))
                        /\ ProxyOf[e] # NoProxy => device[e].refs <= Cardinality(Owners(e))
  BY OwnersFinite DEF CoverInv, OpenInv
<1>3. ASSUME NEW l \in Locker, NEW d \in Device, NewLocker(l, d) PROVE CoverInv'
  <2>1. spent' = spent
    BY <1>3 DEF NewLocker
  <2>2. ASSUME NEW e \in Device PROVE C(e)
    <3>1. l \notin Owners(e)
          /\ IF e \in {d, ProxyOf[d]} THEN Owners(e)' = Owners(e) \cup {l} ELSE Owners(e)' = Owners(e)
      BY <1>0, <1>3, OwnersMore DEF NewLocker
    <3>2. device'[e] = IF e \in {d, ProxyOf[d]} THEN Opened(device[e], "ok") ELSE device[e]
      <4>1. device \in [Device -> Object] /\ device' = OpenAll(device, d, "ok", "ok")
        BY <1>0, <1>3 DEF NewLocker, OpenInv
      <4> QED BY <4>1, OpenAllAt, SMT
    <3>3. /\ Covered(device[e], Owners(e)) => Covered(Opened(device[e], "ok"), Owners(e) \cup {l})
          /\ device[e].refs <= Cardinality(Owners(e))
               => Opened(device[e], "ok").refs <= Cardinality(Owners(e) \cup {l})
      <4>1. device[e] \in Object /\ IsFiniteSet(Owners(e)) /\ l \notin Owners(e)
        BY <1>2, <2>2, <3>1
      <4> QED
        BY <4>1, OpenedCovered
    <3>4. Unspent(e)' <=> Unspent(e)
      BY <2>1 DEF Unspent
    <3>5. CASE e \in {d, ProxyOf[d]}
      BY <1>2, <2>2, <3>1, <3>2, <3>3, <3>4, <3>5
    <3>6. CASE e \notin {d, ProxyOf[d]}
      BY <1>2, <2>2, <3>1, <3>2, <3>4, <3>6
    <3> QED
      BY <3>5, <3>6
  <2> QED
    BY <1>0, <1>1, <2>1, <2>2
<1>4. ASSUME NEW d \in Device, AbortedOpen(d) PROVE CoverInv'
  <2>1. spent' = spent
    BY <1>4 DEF AbortedOpen
  <2>2. ASSUME NEW e \in Device PROVE C(e)
    <3>1. Unspent(e)' <=> Unspent(e)
      BY <2>1 DEF Unspent
    <3> QED
      BY <1>4, <2>2, <3>1, AbortedOpenCovered
  <2> QED
    BY <1>0, <1>1, <2>1, <2>2
<1>5. ASSUME NEW l \in Locker, LockerClose(l) PROVE CoverInv'
  <2> DEFINE d == locker[l].device
  <2>1. locker[l].open /\ locker[l] \in Lockers /\ d \in Device
    BY <1>0, <1>5, OpenHasDevice DEF LockerClose
  <2>2. PICK works \in BOOLEAN, proxyWorks \in BOOLEAN :
          /\ device' = CloseAll(device, d, works, proxyWorks)
          /\ locker' = [locker EXCEPT ![l].open = CloseFails(device, d, works, proxyWorks)]
          /\ spent' = IF ~CloseFails(device, d, works, proxyWorks) THEN spent
                      ELSE spent \cup CloseCalls(device, d, works)
    BY <1>5, Zenon DEF LockerClose
  <2>3. spent' \subseteq Device
    <3>1. CloseCalls(device, d, works) \subseteq Device
      BY <2>1, NotOwnProxy DEF CloseCalls
    <3> QED
      BY <1>0, <2>2, <3>1
  <2> DEFINE lk == [locker[l] EXCEPT !.open = CloseFails(device, d, works, proxyWorks)]
  <2>4. locker' = [locker EXCEPT ![l] = lk]
    BY <2>2, Zenon
  <2>5. CASE ~CloseFails(device, d, works, proxyWorks)
    <3>1. ~lk.open
      BY <2>1, <2>5 DEF Lockers
    <3> HIDE DEF lk
    <3> SUFFICES ASSUME NEW e \in Device PROVE C(e)
      BY <1>1, <2>3
    <3>2. Unspent(e)' <=> Unspent(e)
      BY <2>2, <2>5 DEF Unspent
    <3> QED
      BY <2>1, <2>2, <2>4, <3>1, <3>2, CloseCovered
  <2>6. CASE CloseFails(device, d, works, proxyWorks)
    \* The locker goes on to own what has been closed: that is spent.
    <3>1. lk.open /\ lk.device = d
      BY <2>1, <2>6 DEF Lockers
    <3>2. \A k \in Locker : locker'[k].open = locker[k].open /\ locker'[k].device = locker[k].device
      <4>1. \A k \in Locker : locker'[k] = IF k = l THEN lk ELSE locker[k]
        BY <1>0, <2>4 DEF OpenInv
      <4>2. locker[l].open = lk.open
        BY <2>1, <3>1 DEF Lockers
      <4> HIDE DEF lk
      <4> QED
        BY <3>1, <4>1, <4>2
    <3> HIDE DEF lk
    <3> SUFFICES ASSUME NEW e \in Device PROVE C(e)
      BY <1>1, <2>3
    <3>3. Owners(e)' = Owners(e)
      BY <3>2 DEF Owners
    <3>4. device'[e] = IF e = d THEN Closed(device[d], works)
                       ELSE IF e = ProxyOf[d] /\ ~(Closes(device[d]) /\ ~works)
                       THEN Closed(device[e], proxyWorks) ELSE device[e]
      <4>1. device \in [Device -> Object]
        BY <1>0 DEF OpenInv
      <4>2. CloseAll(device, d, works, proxyWorks)[e] =
              IF e = d THEN Closed(device[d], works)
              ELSE IF e = ProxyOf[d] /\ ~(Closes(device[d]) /\ ~works)
              THEN Closed(device[e], proxyWorks) ELSE device[e]
        BY <2>1, <4>1, CloseAllEach, SMT
      <4> QED
        BY <2>2, <4>2
    <3>5. Unspent(e)' => Unspent(e) /\ e \notin CloseCalls(device, d, works)
      BY <2>2, <2>6 DEF Unspent
    <3>6. CASE e = d
      <4>1. e \in CloseCalls(device, d, works)
        <5>1. d # NoProxy
          BY <2>1, ProxyAssumption
        <5> QED
          BY <3>6, <5>1 DEF CloseCalls
      <4>2. ProxyOf[e] # NoProxy => Closed(device[e], works).refs <= Cardinality(Owners(e))
        BY <1>2, ClosedAtMost
      <4> QED
        BY <3>3, <3>4, <3>5, <3>6, <4>1, <4>2
    <3>7. CASE e = ProxyOf[d]
      <4>1. ProxyOf[e] = NoProxy /\ e # NoProxy /\ e # d
        BY <2>1, <3>7, ProxyAssumption, NotOwnProxy
      <4>2. Unspent(e)' => Closes(device[d]) /\ ~works
        BY <3>5, <3>7, <4>1 DEF CloseCalls
      <4> QED
        BY <1>2, <3>3, <3>4, <3>5, <4>1, <4>2
    <3>8. CASE e \notin {d, ProxyOf[d]}
      BY <1>2, <3>3, <3>4, <3>5, <3>8
    <3> QED
      BY <3>6, <3>7, <3>8
  <2> QED
    BY <2>5, <2>6
<1>6. ASSUME NEW l \in Locker, LockerFinalize(l) PROVE CoverInv'
  <2>1. spent' = spent /\ locker' = [locker EXCEPT ![l] = NoLocker] /\ ~NoLocker.open
    BY <1>6 DEF LockerFinalize, NoLocker
  <2>2. ASSUME NEW e \in Device PROVE C(e)
    <3>0. Unspent(e)' <=> Unspent(e)
      BY <2>1 DEF Unspent
    <3>1. CASE locker[l].open
      <4>1. PICK works \in BOOLEAN, proxyWorks \in BOOLEAN :
              device' = CloseAll(device, locker[l].device, works, proxyWorks)
        BY <1>6, <3>1, Zenon DEF LockerFinalize
      <4> QED
        BY <2>1, <2>2, <3>0, <3>1, <4>1, CloseCovered
    <3>2. CASE ~locker[l].open
      <4>1. device' = device
        BY <1>6, <3>2, Zenon DEF LockerFinalize
      <4>2. \A k \in Locker : ~locker'[l].open /\ (k # l => locker'[k] = locker[k])
        BY <1>0, <2>1 DEF OpenInv
      <4>3. Owners(e)' = Owners(e)
        BY <3>2, <4>2 DEF Owners
      <4> QED
        BY <1>2, <2>2, <3>0, <4>1, <4>3
    <3> QED
      BY <3>1, <3>2
  <2> QED
    BY <1>0, <1>1, <2>1, <2>2
<1>7. ASSUME Replugged PROVE CoverInv'
  <2>1. /\ device' = [d \in Device |-> NewObject] /\ locker' = locker /\ spent' = {}
        /\ \A l \in Locker : locker[l] = NoLocker
    BY <1>7 DEF Replugged
  <2>2. ASSUME NEW e \in Device PROVE C(e)
    <3>1. Owners(e)' = {} /\ device'[e].refs = 0
      BY <2>1, NewObjectsBalanced DEF Owners, NewObject
    <3> QED
      BY <3>1, FS_EmptySet, SMT DEF Covered
  <2> QED
    BY <1>1, <2>1, <2>2
<1>8. CASE UNCHANGED openVars
  <2>1. spent' = spent /\ device' = device /\ \A e \in Device : Owners(e)' = Owners(e) /\ (Unspent(e)' <=> Unspent(e))
    BY <1>8 DEF openVars, Owners, Unspent
  <2> QED
    BY <1>0, <1>1, <1>2, <2>1
<1> QED
  BY <1>3, <1>4, <1>5, <1>6, <1>7, <1>8 DEF OpenNext

\* A close that fails when a FuDeviceLocker is finalized or an open is aborted
\* may leak a reference but never takes one away: what a locker owns, directly or
\* as the proxy of its device, stays open.  For any devices, proxies and lockers.
\* After an error of fu_device_locker_close() this still holds of all devices but
\* those that the call had closed, of which a reference is really lost, and those
\* that open one of these as their proxy.
THEOREM OwnedStaysOpenCorrect == OpenSpec => []OwnedStaysOpen
<1>1. OpenInit => CoverInv
  <2> SUFFICES ASSUME OpenInit PROVE CoverInv
    OBVIOUS
  <2>1. OpenInv /\ spent = {} /\ device = [d \in Device |-> NewObject]
        /\ locker = [l \in Locker |-> NoLocker]
    BY OpenInitInv DEF OpenInit
  <2>2. ASSUME NEW e \in Device
        PROVE  device[e].refs = 0 /\ Cardinality(Owners(e)) = 0
    <3>1. Owners(e) = {} /\ device[e].refs = 0
      BY <2>1, NewObjectsBalanced DEF Owners, NewObject
    <3> QED
      BY <3>1, FS_EmptySet
  <2>3. \A e \in Device : /\ Covered(device[e], Owners(e))
                          /\ device[e].refs <= Cardinality(Owners(e))
    BY <2>2, SMT DEF Covered
  <2>4. spent \subseteq Device
    BY <2>1
  <2> QED
    BY <2>1, <2>3, <2>4 DEF CoverInv
<1>2. CoverInv /\ [OpenNext]_openVars => CoverInv'
  BY CoverStep
<1>3. CoverInv => OwnedStaysOpen
  <2> SUFFICES ASSUME CoverInv, NEW d \in Device, Unspent(d)
               PROVE  /\ device[d].refs >= Cardinality(Owners(d))
                      /\ Owners(d) # {} => device[d].handle /\ device[d].is_open
    BY Zenon DEF OwnedStaysOpen, Unspent
  <2>1. Covered(device[d], Owners(d)) /\ device[d] \in Object
    BY DEF CoverInv, OpenInv
  <2>2. Owners(d) # {} => device[d].refs > 0
    <3>1. device[d].refs \in Nat /\ device[d].refs >= Cardinality(Owners(d))
      BY <2>1, ObjectFields DEF Covered
    <3>2. Owners(d) # {} => Cardinality(Owners(d)) \in Nat /\ Cardinality(Owners(d)) # 0
      BY OwnersFinite, FS_EmptySet, FS_CardinalityType
    <3> QED
      BY <3>1, <3>2, SMT
  <2> QED
    BY <2>1, <2>2, Zenon DEF Covered
<1> QED
  BY <1>1, <1>2, <1>3, PTL DEF OpenSpec

=============================================================================
