-------------------------- MODULE MtpObjectsProofs --------------------------
(***************************************************************************)
(* MtpObjects, for every tree, table, number of handles and generations:   *)
(* a handle stands for one object, also when the counter has gone round,   *)
(* a path for one object unless the host gives away names that a stale     *)
(* object holds, and a deletion leaves nothing behind.                     *)
(*                                                                         *)
(* The state is one record, the context, and a request is a function from  *)
(* a context to a context. So the invariant is about a context (Good), and *)
(* there is one lemma for each function of the component, in the order in  *)
(* which they call each other: it keeps a context good. The loops of the   *)
(* code are recursive functions of the number of rounds; that each exists  *)
(* and keeps the context good in every round goes by CountUp.              *)
(***************************************************************************)
EXTENDS MtpObjects, FiniteSetTheorems, WellFoundedInduction, TLAPS

Objects ==
  [handle : 0 .. LastHandle, parent : Int, path : Paths \union {<<>>}, directory : BOOLEAN,
   generation : 0 .. Generations - 1]
Contexts ==
  [fs : [Paths -> {"none", "file", "dir"}], objects : [Slots -> Objects],
   next : 1 .. LastHandle, generation : 0 .. Generations - 1]

\* What exists is in a directory.
Tree(d) == \A p \in Paths : Exists(d, p) => IsDirectory(d, DirOf(p))

\* The objects have a path each, and a handle of their own.
Handles(d) ==
  \A i \in Used(d) :
    Path(d, i) \in Paths /\ \A j \in Used(d) : d.objects[i].handle = d.objects[j].handle => i = j

OwnPaths(d) == \A i, j \in Used(d) : Path(d, i) = Path(d, j) => i = j

Good(d) == d \in Contexts /\ Tree(d) /\ Handles(d) /\ (StaleTargets \/ OwnPaths(d))

-----------------------------------------------------------------------------
(* Numbers.                                                                *)

(* The least of a set of numbers is one of them.                           *)
LEMMA Least ==
  ASSUME NEW S, S \subseteq Nat, S # {}
  PROVE  Min(S) \in S /\ \A x \in S : Min(S) <= x
<1> DEFINE R == OpToRel(<, Nat)
<1>1. IsWellFoundedOn(R, Nat)
  BY NatLessThanWellFounded
<1>2. \E x \in S : \A y \in S : ~(<<y, x>> \in R)
  <2> HIDE DEF R
  <2> QED
    BY <1>1, WFMin
<1>3. PICK x \in S : \A y \in S : ~(<<y, x>> \in R)
  BY <1>2
<1>4. \A y \in S : x <= y
  <2>1. ASSUME NEW y \in S, y < x PROVE FALSE
    <3>1. <<y, x>> \in R
      BY <2>1 DEF OpToRel
    <3> QED
      BY <1>3, <3>1
  <2> QED
    BY <2>1
<1> QED
  BY <1>4 DEF Min

(* A set of numbers that holds 0 and, with each, the next one holds all.   *)
LEMMA CountUp ==
  ASSUME NEW N \in Nat, NEW S, 0 \in S, \A n \in 1 .. N : n - 1 \in S => n \in S
  PROVE  \A n \in 0 .. N : n \in S
<1> DEFINE T == {n \in 0 .. N : n \notin S}
<1> SUFFICES ASSUME T # {} PROVE FALSE
  OBVIOUS
<1>1. PICK x \in T : \A y \in T : x <= y
  <2>1. T \subseteq Nat
    OBVIOUS
  <2> HIDE DEF T
  <2> QED
    BY <2>1, Least
<1>2. x \in 1 .. N /\ x - 1 \in 0 .. N /\ ~(x <= x - 1)
  OBVIOUS
<1> QED
  BY <1>1, <1>2

(* The first slot of a set, 0 when there is none.                          *)
LEMMA FirstIs ==
  ASSUME NEW S, S \subseteq Slots
  PROVE  /\ S = {} => First(S) = 0
         /\ S # {} => First(S) \in S /\ First(S) # 0 /\ \A i \in S : First(S) <= i
<1>1. MaxObjects \in Nat \ {0}
  BY ObjectsAssumption
<1>2. S \subseteq Nat /\ 0 \notin S
  BY <1>1 DEF Slots
<1> QED
  BY <1>2, Least DEF First

-----------------------------------------------------------------------------
(* The table.                                                              *)

LEMMA SlotIs ==
  ASSUME NEW d, NEW h
  PROVE  /\ SlotOf(d, h) = 0 => \A i \in Used(d) : d.objects[i].handle # h
         /\ SlotOf(d, h) # 0 => SlotOf(d, h) \in Used(d) /\ d.objects[SlotOf(d, h)].handle = h
<1> DEFINE S == {i \in Used(d) : d.objects[i].handle = h}
<1>1. S \subseteq Slots
  BY DEF Used
<1>2. SlotOf(d, h) = First(S)
  BY DEF SlotOf
<1>3. S = {} \/ S # {}
  OBVIOUS
<1>4. (S = {} => First(S) = 0) /\ (S # {} => First(S) \in S /\ First(S) # 0)
  <2> HIDE DEF S
  <2> QED
    BY <1>1, FirstIs
<1> QED
  BY <1>2, <1>4

LEMMA Directories == \A d, p : IsDirectory(d, p) \in BOOLEAN
  BY DEF IsDirectory

LEMMA ObjectIs ==
  ASSUME NEW handle \in 0 .. LastHandle, NEW parent \in Int, NEW path \in Paths \union {<<>>},
         NEW directory \in BOOLEAN, NEW generation \in 0 .. Generations - 1
  PROVE  LET o == Object(handle, parent, path, directory, generation)
         IN o \in Objects /\ o.handle = handle /\ o.path = path
  BY DEF Object, Objects

LEMMA NoObjectIs == NoObject \in Objects /\ NoObject.handle = 0
<1>1. 0 \in 0 .. LastHandle /\ 0 \in 0 .. Generations - 1
  BY ObjectsAssumption
<1>2. -1 \in Int
  OBVIOUS
<1> QED
  BY <1>1, <1>2 DEF NoObject, Object, Objects, None, Root

(* An object of a good context has the type.                               *)
LEMMA UsedIs ==
  ASSUME NEW d, Good(d), NEW i \in Used(d)
  PROVE  /\ i \in Slots /\ d.objects[i] \in Objects
         /\ d.objects[i].handle \in 1 .. LastHandle /\ d.objects[i].parent \in Int
         /\ d.objects[i].path \in Paths /\ d.objects[i].directory \in BOOLEAN
         /\ d.objects[i].generation \in 0 .. Generations - 1
<1>1. i \in Slots /\ d.objects[i].handle # 0
  BY DEF Used, None
<1>2. d.objects[i] \in Objects
  BY <1>1 DEF Good, Contexts
<1>3. d.objects[i].path \in Paths
  BY DEF Good, Handles, Path
<1>4. LastHandle \in Int
  BY ObjectsAssumption
<1> QED
  BY <1>1, <1>2, <1>3, <1>4 DEF Objects

(* The table may be kept as it is while the rest changes.                  *)
LEMMA SameTable ==
  ASSUME NEW d, NEW e, Good(d), e \in Contexts, e.objects = d.objects, Tree(e)
  PROVE  Good(e)
<1>1. Used(e) = Used(d) /\ \A i : Path(e, i) = Path(d, i)
  BY DEF Used, Path
<1> QED
  BY <1>1 DEF Good, Handles, OwnPaths

(* Of a table some objects are kept as they are and the others freed.      *)
LEMMA FreeKeeps ==
  ASSUME NEW d, Good(d), NEW I
  PROVE  /\ Good(Free(d, I)) /\ Free(d, I).fs = d.fs /\ Free(d, I).next = d.next
         /\ Used(Free(d, I)) = Used(d) \ I
         /\ \A i \in Used(Free(d, I)) : Free(d, I).objects[i] = d.objects[i]
<1> DEFINE e == Free(d, I)
           F == [i \in Slots |-> IF i \in I THEN NoObject ELSE d.objects[i]]
<1>1. F \in [Slots -> Objects]
  <2>1. \A i \in Slots : d.objects[i] \in Objects
    BY DEF Good, Contexts
  <2> QED
    BY <2>1, NoObjectIs
<1>2. e = [d EXCEPT !.objects = F]
  BY DEF Free
<1>3. e \in Contexts /\ e.objects = F /\ e.fs = d.fs /\ e.next = d.next
  <2> HIDE DEF e, F
  <2> QED
    BY <1>1, <1>2 DEF Good, Contexts
<1>4. \A i \in Slots : e.objects[i] = IF i \in I THEN NoObject ELSE d.objects[i]
  BY <1>3
<1> HIDE DEF e, F
<1>5. Used(e) = Used(d) \ I
  BY <1>4, NoObjectIs DEF Used, None
<1>6. \A i \in Used(e) : e.objects[i] = d.objects[i]
  BY <1>4, <1>5 DEF Used
<1>7. Tree(e)
  BY <1>3 DEF Good, Tree, Exists, IsDirectory, Kind
<1>8. Handles(e) /\ (StaleTargets \/ OwnPaths(e))
  BY <1>5, <1>6 DEF Good, Handles, OwnPaths, Path
<1>9. Good(e)
  BY <1>3, <1>7, <1>8 DEF Good
<1> QED
  BY <1>3, <1>5, <1>6, <1>9 DEF e

(* An object is put into a slot: its handle and its path are no others'.   *)
LEMMA PutKeeps ==
  ASSUME NEW d, Good(d), NEW i \in Slots, NEW o \in Objects, o.handle # 0, o.path \in Paths,
         \A j \in Used(d) \ {i} : d.objects[j].handle # o.handle,
         StaleTargets \/ \A j \in Used(d) \ {i} : Path(d, j) # o.path
  PROVE  /\ Good(Put(d, i, o)) /\ Put(d, i, o).fs = d.fs /\ Put(d, i, o).objects[i] = o
         /\ Used(Put(d, i, o)) = Used(d) \union {i}
<1> DEFINE e == Put(d, i, o)
<1>1. d \in Contexts /\ d.objects \in [Slots -> Objects]
  BY DEF Good, Contexts
<1>2. PICK F : F = [d.objects EXCEPT ![i] = o]
  OBVIOUS
<1>3. F \in [Slots -> Objects] /\ F[i] = o /\ \A j \in Slots \ {i} : F[j] = d.objects[j]
  BY <1>1, <1>2
<1>4. e = [d EXCEPT !.objects = F]
  BY <1>1, <1>2 DEF Put
<1>5. e \in Contexts /\ e.objects = F /\ e.fs = d.fs
  <2> HIDE DEF e
  <2> QED
    BY <1>1, <1>3, <1>4 DEF Contexts
<1> HIDE DEF e
<1>6. Used(e) = Used(d) \union {i}
  BY <1>3, <1>5 DEF Used, None
<1>7. \A j \in Used(e) : j # i => j \in Used(d) /\ e.objects[j] = d.objects[j]
  BY <1>3, <1>5, <1>6 DEF Used
<1>8. Tree(e)
  BY <1>5 DEF Good, Tree, Exists, IsDirectory, Kind
<1>9. Handles(e)
  <2>1. \A j \in Used(e) : Path(e, j) \in Paths
    BY <1>3, <1>5, <1>7 DEF Good, Handles, Path
  <2>2. ASSUME NEW j \in Used(e), NEW k \in Used(e), e.objects[j].handle = e.objects[k].handle
        PROVE  j = k
    <3>1. CASE j = i \/ k = i
      BY <1>3, <1>5, <1>7, <2>2, <3>1
    <3>2. CASE j # i /\ k # i
      BY <1>7, <2>2, <3>2 DEF Good, Handles
    <3> QED
      BY <3>1, <3>2
  <2> QED
    BY <2>1, <2>2 DEF Handles
<1>10. ASSUME ~StaleTargets PROVE OwnPaths(e)
  <2>1. ASSUME NEW j \in Used(e), NEW k \in Used(e), Path(e, j) = Path(e, k)
        PROVE  j = k
    <3>1. CASE j = i \/ k = i
      BY <1>3, <1>5, <1>7, <1>10, <2>1, <3>1 DEF Path
    <3>2. CASE j # i /\ k # i
      BY <1>7, <1>10, <2>1, <3>2 DEF Good, OwnPaths, Path
    <3> QED
      BY <3>1, <3>2
  <2> QED
    BY <2>1 DEF OwnPaths
<1>11. Good(e)
  BY <1>5, <1>8, <1>9, <1>10 DEF Good
<1> QED
  BY <1>3, <1>5, <1>6, <1>11 DEF e

LEMMA DropUnderKeeps ==
  ASSUME NEW d, Good(d), NEW p
  PROVE  /\ Good(DropUnder(d, p)) /\ DropUnder(d, p).fs = d.fs
         /\ DropUnder(d, p).next = d.next
         /\ Used(DropUnder(d, p)) \subseteq Used(d) \ {First(At(d, p))}
         /\ \A i \in Used(DropUnder(d, p)) :
              DropUnder(d, p).objects[i] = d.objects[i] /\ ~IsStrictPrefix(p, Path(d, i))
<1> DEFINE I == {i \in Used(d) : IsStrictPrefix(p, Path(d, i))} \union {First(At(d, p))}
<1>1. DropUnder(d, p) = Free(d, I)
  BY DEF DropUnder
<1>2. \A i \in Used(d) \ I : ~IsStrictPrefix(p, Path(d, i)) /\ i # First(At(d, p))
  OBVIOUS
<1> HIDE DEF I
<1> QED
  BY <1>1, <1>2, FreeKeeps

LEMMA SeenKeeps ==
  ASSUME NEW d, Good(d), NEW i \in Used(d), NEW parent \in Int, NEW mark \in 0 .. Generations - 1
  PROVE  /\ Good(Seen(d, i, parent, mark)) /\ Seen(d, i, parent, mark).fs = d.fs
         /\ Used(Seen(d, i, parent, mark)) = Used(d)
<1> DEFINE o == d.objects[i]
           n == Object(o.handle, parent, o.path, IsDirectory(d, o.path), mark)
<1>1. /\ i \in Slots /\ o.handle \in 1 .. LastHandle /\ o.handle \in 0 .. LastHandle
      /\ o.handle # 0 /\ o.path \in Paths
  <2>1. i \in Slots /\ o.handle \in 1 .. LastHandle /\ o.path \in Paths
    BY UsedIs
  <2>2. LastHandle \in Nat
    BY ObjectsAssumption
  <2> QED
    BY <2>1, <2>2
<1>2. n \in Objects /\ n.handle = o.handle /\ n.path = o.path
  <2>1. IsDirectory(d, o.path) \in BOOLEAN
    BY Directories
  <2> HIDE DEF o
  <2> QED
    BY <1>1, <2>1, ObjectIs
<1>3. \A j \in Used(d) \ {i} : d.objects[j].handle # o.handle
  BY DEF Good, Handles
<1>4. StaleTargets \/ \A j \in Used(d) \ {i} : Path(d, j) # o.path
  BY DEF Good, OwnPaths, Path
<1>5. Seen(d, i, parent, mark) = Put(d, i, n)
  BY DEF Seen
<1> HIDE DEF n, o
<1>6. /\ Good(Put(d, i, n)) /\ Put(d, i, n).fs = d.fs
      /\ Used(Put(d, i, n)) = Used(d) \union {i}
  BY <1>1, <1>2, <1>3, <1>4, PutKeeps
<1> QED
  BY <1>5, <1>6

LEMMA RefreshedKeeps ==
  ASSUME NEW d, Good(d), NEW i \in Used(d)
  PROVE  Good(Refreshed(d, i)) /\ Refreshed(d, i).fs = d.fs
  BY UsedIs, SeenKeeps DEF Refreshed

(* There are more handles than slots: within MaxObjects + 1 tries the      *)
(* counter meets one that no object has.                                   *)
LEMMA NextHandleIsNew ==
  ASSUME NEW d, Good(d)
  PROVE  NextHandle(d) \in 1 .. LastHandle /\ \A i \in Used(d) : d.objects[i].handle # NextHandle(d)
<1> DEFINE ahead(k) == IF d.next + k > LastHandle THEN d.next + k - LastHandle ELSE d.next + k
           K == {k \in 0 .. MaxObjects : Unused(d, ahead(k))}
<1>1. /\ MaxObjects \in Nat /\ LastHandle \in Nat /\ LastHandle > MaxObjects
      /\ d.next \in 1 .. LastHandle
  BY ObjectsAssumption DEF Good, Contexts
<1>2. \A k \in 0 .. MaxObjects : ahead(k) \in 1 .. LastHandle
  BY <1>1
<1>3. \A j, k \in 0 .. MaxObjects : ahead(j) = ahead(k) => j = k
  BY <1>1
<1>4. K # {}
  <2> SUFFICES ASSUME K = {} PROVE FALSE
    OBVIOUS
  <2> DEFINE f == [k \in 0 .. MaxObjects |-> SlotOf(d, ahead(k))]
  <2>1. ASSUME NEW k \in 0 .. MaxObjects
        PROVE  SlotOf(d, ahead(k)) \in Slots /\ d.objects[SlotOf(d, ahead(k))].handle = ahead(k)
    <3>1. SlotOf(d, ahead(k)) # 0
      BY DEF Unused
    <3> HIDE DEF ahead
    <3> QED
      BY <3>1, SlotIs DEF Used
  <2>2. f \in [0 .. MaxObjects -> Slots]
    BY <2>1
  <2>3. IsFiniteSet(Slots) /\ Cardinality(Slots) = MaxObjects
    <3>1. Cardinality(1 .. MaxObjects) = IF 1 > MaxObjects THEN 0 ELSE MaxObjects - 1 + 1
      BY <1>1, FS_Interval
    <3>2. MaxObjects # 0
      BY ObjectsAssumption
    <3> QED
      BY <1>1, <3>1, <3>2, FS_Interval DEF Slots
  <2>4. IsFiniteSet(0 .. MaxObjects) /\ Cardinality(0 .. MaxObjects) = MaxObjects + 1
    <3>1. Cardinality(0 .. MaxObjects) = IF 0 > MaxObjects THEN 0 ELSE MaxObjects - 0 + 1
      BY <1>1, FS_Interval
    <3> QED
      BY <1>1, <3>1, FS_Interval
  <2>5. \E j, k \in 0 .. MaxObjects : j # k /\ f[j] = f[k]
    <3>1. Cardinality(Slots) < Cardinality(0 .. MaxObjects)
      BY <1>1, <2>3, <2>4
    <3>2. \E S : S = 0 .. MaxObjects
      OBVIOUS
    <3>3. PICK S : S = 0 .. MaxObjects
      BY <3>2
    <3> HIDE DEF f
    <3>4. f \in [S -> Slots] /\ IsFiniteSet(S) /\ Cardinality(Slots) < Cardinality(S)
      BY <2>2, <2>4, <3>1, <3>3
    <3>5. \E j, k \in S : j # k /\ f[j] = f[k]
      BY <2>3, <3>4, FS_PigeonHole
    <3> QED
      BY <3>3, <3>5
  <2>6. PICK j \in 0 .. MaxObjects, k \in 0 .. MaxObjects : j # k /\ f[j] = f[k]
    BY <2>5
  <2>7. ahead(j) = ahead(k)
    <3>1. SlotOf(d, ahead(j)) = SlotOf(d, ahead(k))
      BY <2>6
    <3> HIDE DEF ahead
    <3> QED
      BY <2>1, <3>1
  <2> HIDE DEF ahead, f
  <2> QED
    BY <1>3, <2>6, <2>7
<1>5. Min(K) \in K
  <2>1. K \subseteq Nat
    BY <1>1
  <2> HIDE DEF K
  <2> QED
    BY <1>4, <2>1, Least
<1>6. NextHandle(d) = ahead(Min(K))
  BY DEF NextHandle
<1>7. Min(K) \in 0 .. MaxObjects /\ SlotOf(d, ahead(Min(K))) = 0
  BY <1>5 DEF Unused
<1> HIDE DEF ahead, K
<1> QED
  BY <1>2, <1>6, <1>7, SlotIs

LEMMA AddedKeeps ==
  ASSUME NEW d, Good(d), NEW i \in Slots \ Used(d), NEW p \in Paths, At(d, p) = {},
         NEW parent \in Int
  PROVE  /\ Good(Added(d, i, p, parent)) /\ Added(d, i, p, parent).fs = d.fs
         /\ i \in Used(Added(d, i, p, parent))
<1> DEFINE h == NextHandle(d)
           e == [d EXCEPT !.next = Successor(h)]
           o == Object(h, parent, p, IsDirectory(d, p), 0)
<1>1. h \in 1 .. LastHandle /\ \A j \in Used(d) : d.objects[j].handle # h
  BY NextHandleIsNew
<1> HIDE DEF h
<1>2. LastHandle \in Nat \ {0} /\ 0 \in 0 .. Generations - 1
  BY ObjectsAssumption
<1>3. Successor(h) \in 1 .. LastHandle
  BY <1>1, <1>2 DEF Successor
<1>4. e \in Contexts /\ e.objects = d.objects /\ e.fs = d.fs
  BY <1>3 DEF Good, Contexts
<1> HIDE DEF e
<1>5. Good(e) /\ Used(e) = Used(d)
  <2>1. Tree(e)
    BY <1>4 DEF Good, Tree, Exists, IsDirectory, Kind
  <2> QED
    BY <1>4, <2>1, SameTable DEF Used
<1>6. o \in Objects /\ o.handle = h /\ o.path = p /\ h # 0
  BY <1>1, <1>2, ObjectIs, Directories
<1>7. \A j \in Used(e) : e.objects[j].handle # h /\ Path(e, j) # p
  BY <1>1, <1>4, <1>5 DEF At, Path
<1>8. Added(d, i, p, parent) = Put(e, i, o)
  BY DEF Added, e, h
<1> HIDE DEF o
<1>9. Good(Put(e, i, o)) /\ Put(e, i, o).fs = e.fs /\ Used(Put(e, i, o)) = Used(e) \union {i}
  BY <1>5, <1>6, <1>7, PutKeeps
<1> QED
  BY <1>4, <1>8, <1>9

(* The object of a path: the one there is, or a new one in a free slot or  *)
(* in that of an object whose file is gone.                                *)
LEMMA GetOrCreateKeeps ==
  ASSUME NEW d, Good(d), NEW p \in Paths, NEW parent \in Int
  PROVE  LET got == GetOrCreate(d, p, parent)
         IN /\ Good(got.d) /\ got.d.fs = d.fs
            /\ got.slot # 0 => got.slot \in Used(got.d)
<1> DEFINE G == {i \in Used(d) : Gone(d, i)}
           got == GetOrCreate(d, p, parent)
<1> SUFFICES Good(got.d) /\ got.d.fs = d.fs /\ (got.slot # 0 => got.slot \in Used(got.d))
  OBVIOUS
<1>1. PICK cached : cached = First(At(d, p))
  OBVIOUS
<1>2. PICK empty : empty = First(Slots \ Used(d))
  OBVIOUS
<1>3. PICK missing : missing = First(G)
  OBVIOUS
<1>4. PICK e : e = DropUnder(d, Path(d, missing))
  OBVIOUS
<1>5. got = IF cached # 0
            THEN [d |-> Seen(d, cached, parent, d.objects[cached].generation), slot |-> cached]
            ELSE IF empty # 0 THEN [d |-> Added(d, empty, p, parent), slot |-> empty]
            ELSE IF missing # 0
            THEN [d |-> Added(e, missing, p, parent), slot |-> missing]
            ELSE [d |-> d, slot |-> 0]
  BY <1>1, <1>2, <1>3, <1>4 DEF GetOrCreate
<1> HIDE DEF got
<1>6. CASE cached # 0
  <2>1. cached \in Used(d)
    <3>1. At(d, p) \subseteq Slots /\ At(d, p) \subseteq Used(d)
      BY DEF At, Used
    <3> QED
      BY <1>1, <1>6, <3>1, FirstIs
  <2>2. d.objects[cached].generation \in 0 .. Generations - 1
    BY <2>1, UsedIs
  <2> QED
    BY <1>5, <1>6, <2>1, <2>2, SeenKeeps
<1>7. CASE cached = 0
  <2>1. At(d, p) = {}
    <3>1. At(d, p) \subseteq Slots
      BY DEF At, Used
    <3> QED
      BY <1>1, <1>7, <3>1, FirstIs
  <2>2. CASE empty # 0
    <3>1. empty \in Slots \ Used(d)
      BY <1>2, <2>2, FirstIs
    <3> QED
      BY <1>5, <1>7, <2>1, <2>2, <3>1, AddedKeeps
  <2>3. CASE empty = 0 /\ missing # 0
    <3>1. G \subseteq Slots
      BY DEF Used
    <3>2. missing \in Used(d) /\ Gone(d, missing) /\ \A i \in G : missing <= i
      <4>1. missing \in G /\ \A i \in G : missing <= i
        <5> HIDE DEF G
        <5> QED
          BY <1>3, <2>3, <3>1, FirstIs
      <4> QED
        BY <4>1
    <3> DEFINE q == Path(d, missing)
    <3>3. At(d, q) \subseteq G /\ missing \in At(d, q)
      BY <3>2 DEF At, Gone
    <3>4. First(At(d, q)) = missing
      <4>1. First(At(d, q)) \in At(d, q) /\ First(At(d, q)) <= missing
        <5> HIDE DEF G, q
        <5>1. At(d, q) \subseteq Slots /\ At(d, q) # {}
          BY <3>1, <3>3
        <5> QED
          BY <3>3, <5>1, FirstIs
      <4>2. missing <= First(At(d, q))
        <5> HIDE DEF G, q
        <5> QED
          BY <3>2, <3>3, <4>1
      <4>3. First(At(d, q)) \in Int /\ missing \in Int
        <5>1. First(At(d, q)) \in Slots /\ missing \in Slots
          BY <3>2, <4>1 DEF At, Used
        <5> QED
          BY <5>1 DEF Slots
      <4> HIDE DEF q
      <4> QED
        BY <4>1, <4>2, <4>3
    <3>5. /\ Good(e) /\ e.fs = d.fs /\ Used(e) \subseteq Used(d) \ {missing}
          /\ \A i \in Used(e) : e.objects[i] = d.objects[i]
      BY <1>4, <3>4, DropUnderKeeps
    <3>6. missing \in Slots \ Used(e) /\ At(e, p) = {}
      BY <2>1, <3>2, <3>5 DEF At, Used, Path
    <3> QED
      BY <1>5, <1>7, <2>3, <3>5, <3>6, AddedKeeps
  <2>4. CASE empty = 0 /\ missing = 0
    BY <1>5, <1>7, <2>4
  <2> QED
    BY <2>2, <2>3, <2>4
<1> QED
  BY <1>6, <1>7

-----------------------------------------------------------------------------
(* Listing.                                                                *)

LEMMA BeginKeeps ==
  ASSUME NEW d, Good(d)
  PROVE  /\ Good(BeginGeneration(d).d) /\ BeginGeneration(d).d.fs = d.fs
         /\ BeginGeneration(d).mark \in 0 .. Generations - 1
<1>1. /\ Generations \in Nat /\ Generations >= 3 /\ d.generation \in 0 .. Generations - 1
      /\ d \in Contexts
  BY ObjectsAssumption DEF Good, Contexts
<1>2. CASE d.generation # 0
  <2> DEFINE n == IF d.generation = Generations - 1 THEN 0 ELSE d.generation + 1
             e == [d EXCEPT !.generation = n]
  <2>1. n \in 0 .. Generations - 1
    BY <1>1
  <2>2. BeginGeneration(d) = [d |-> e, mark |-> d.generation]
    BY <1>2 DEF BeginGeneration
  <2> HIDE DEF n
  <2>3. e \in Contexts /\ e.objects = d.objects /\ e.fs = d.fs
    BY <1>1, <2>1 DEF Contexts
  <2> HIDE DEF e
  <2>4. Tree(e)
    BY <2>3 DEF Good, Tree, Exists, IsDirectory, Kind
  <2> QED
    BY <1>1, <2>2, <2>3, <2>4, SameTable
<1>3. CASE d.generation = 0
  <2> DEFINE F == [i \in Slots |-> Unmark(d.objects[i])]
             e == [d EXCEPT !.generation = 2, !.objects = F]
  <2>1. ASSUME NEW i \in Slots
        PROVE  /\ Unmark(d.objects[i]) \in Objects
               /\ Unmark(d.objects[i]).handle = d.objects[i].handle
               /\ Unmark(d.objects[i]).path = d.objects[i].path
    <3>1. d.objects[i] \in Objects /\ 0 \in 0 .. Generations - 1
      BY <1>1 DEF Contexts
    <3> QED
      BY <3>1 DEF Unmark, Object, Objects
  <2>2. F \in [Slots -> Objects]
    BY <2>1
  <2>3. BeginGeneration(d) = [d |-> e, mark |-> 1] /\ 1 \in 0 .. Generations - 1
    BY <1>1, <1>3 DEF BeginGeneration
  <2>4. \A i \in Slots : F[i].handle = d.objects[i].handle /\ F[i].path = d.objects[i].path
    BY <2>1
  <2> HIDE DEF F
  <2>5. e \in Contexts /\ e.objects = F /\ e.fs = d.fs
    <3>1. 2 \in 0 .. Generations - 1
      BY <1>1
    <3> QED
      BY <1>1, <2>2, <3>1 DEF Contexts
  <2> HIDE DEF e
  <2>6. Tree(e)
    BY <2>5 DEF Good, Tree, Exists, IsDirectory, Kind
  <2>7. Used(e) = Used(d) /\ \A i \in Used(d) : /\ Path(e, i) = Path(d, i)
                                               /\ e.objects[i].handle = d.objects[i].handle
    BY <2>4, <2>5 DEF Used, Path
  <2>8. Handles(e) /\ (StaleTargets \/ OwnPaths(e))
    BY <2>7 DEF Good, Handles, OwnPaths
  <2> QED
    BY <2>3, <2>5, <2>6, <2>8 DEF Good
<1> QED
  BY <1>2, <1>3

LEMMA ListedKeeps ==
  ASSUME NEW a, Good(a.d), NEW p, NEW parent \in Int, NEW format, NEW room,
         NEW refresh \in BOOLEAN, NEW mark \in 0 .. Generations - 1
  PROVE  Good(Listed(a, p, parent, format, room, refresh, mark).d)
<1>1. PICK i : i = First(At(a.d, p))
  OBVIOUS
<1>2. PICK got : got = GetOrCreate(a.d, p, parent)
  OBVIOUS
<1>3. i # 0 => Good(Seen(a.d, i, parent, mark))
  <2>1. At(a.d, p) \subseteq Slots /\ At(a.d, p) \subseteq Used(a.d)
    BY DEF At, Used
  <2>2. i # 0 => i \in Used(a.d)
    BY <1>1, <2>1, FirstIs
  <2> QED
    BY <2>2, SeenKeeps
<1>4. p \in Paths => Good(got.d) /\ (got.slot # 0 => Good(Seen(got.d, got.slot, parent, mark)))
  <2>1. p \in Paths => Good(got.d) /\ (got.slot # 0 => got.slot \in Used(got.d))
    BY <1>2, GetOrCreateKeeps
  <2> QED
    BY <2>1, SeenKeeps
<1> QED
  BY <1>1, <1>2, <1>3, <1>4 DEF Listed, Entered, Answer, Fails

LEMMA OrderIs ==
  ASSUME NEW order \in Orders
  PROVE  Len(order) \in Nat \ {0}
<1>1. order \in SetToSeqs(Names) /\ IsFiniteSet(Names) /\ Names # {}
  BY ObjectsAssumption
<1>2. Cardinality(Names) \in Nat /\ Cardinality(Names) # 0
  BY <1>1, FS_CardinalityType, FS_EmptySet
<1>3. order \in [1 .. Cardinality(Names) -> Names]
  BY <1>1 DEF SetToSeqs
<1> QED
  BY <1>2, <1>3

(* The entries of a directory, one after the other.                        *)
LEMMA ListEntriesKeeps ==
  ASSUME NEW d, Good(d), NEW dir, NEW parent \in Int, NEW format, NEW room,
         NEW refresh \in BOOLEAN, NEW mark \in 0 .. Generations - 1, NEW order \in Orders
  PROVE  \A n \in 0 .. Len(order) : Good(ListEntries(d, dir, parent, format, room, refresh, mark, order)[n].d)
<1> DEFINE f == ListEntries(d, dir, parent, format, room, refresh, mark, order)
           next(r, n) == [k \in 0 .. n |->
                            IF k = 0 THEN Answer(d, "OK", 0, <<>>)
                            ELSE Listed(r[k - 1], Append(dir, order[k]), parent, format, room, refresh, mark)]
<1> PICK N : N = Len(order)
  OBVIOUS
<1>1. N \in Nat
  BY OrderIs
<1>2. \E r : r = next(r, N)
  <2> DEFINE S == {n \in 0 .. N : \E r : r = next(r, n)}
  <2>1. 0 \in S
    <3> DEFINE r == [k \in 0 .. 0 |-> Answer(d, "OK", 0, <<>>)]
    <3>1. r = next(r, 0)
      OBVIOUS
    <3> HIDE DEF next, r
    <3> QED
      BY <1>1, <3>1
  <2>2. ASSUME NEW n \in 1 .. N, n - 1 \in S PROVE n \in S
    <3>1. PICK r : r = next(r, n - 1)
      BY <2>2
    <3>2. PICK t : t = Listed(r[n - 1], Append(dir, order[n]), parent, format, room, refresh, mark)
      OBVIOUS
    <3> DEFINE q == [k \in 0 .. n |-> IF k = n THEN t ELSE r[k]]
    <3>3. ASSUME NEW k \in 0 .. n PROVE q[k] = next(q, n)[k]
      <4>1. CASE k = n
        <5>1. q[n - 1] = r[n - 1] /\ q[n] = t /\ n # 0
          BY <1>1
        <5> HIDE DEF q
        <5> QED
          BY <1>1, <3>2, <4>1, <5>1
      <4>2. CASE k # n
        <5>1. k \in 0 .. n - 1
          BY <1>1, <4>2
        <5>2. r[k] = next(r, n - 1)[k]
          BY <3>1
        <5>3. q[k] = r[k] /\ (k # 0 => q[k - 1] = r[k - 1])
          BY <1>1, <4>2
        <5> HIDE DEF q
        <5> QED
          BY <5>1, <5>2, <5>3
      <4> QED
        BY <4>1, <4>2
    <3>4. q = next(q, n)
      <4>1. q = [k \in 0 .. n |-> q[k]]
        OBVIOUS
      <4> HIDE DEF q
      <4> QED
        BY <3>3, <4>1
    <3> HIDE DEF next, q
    <3> QED
      BY <1>1, <3>4
  <2>3. \A n \in 0 .. N : n \in S
    <3> HIDE DEF S
    <3> QED
      BY <1>1, <2>1, <2>2, CountUp
  <2> QED
    BY <1>1, <2>3
<1>3. f = next(f, N)
  <2>1. f = CHOOSE r : r = next(r, N)
    BY DEF ListEntries
  <2> HIDE DEF next, f
  <2> QED
    BY <1>2, <2>1
<1> HIDE DEF f
<1>4. \A n \in 0 .. N : n = 0 => f[n].d = (Answer(d, "OK", 0, <<>>)).d
  BY <1>3
<1>5. \A n \in 1 .. N : f[n] = Listed(f[n - 1], Append(dir, order[n]), parent, format, room, refresh, mark)
  <2>1. \A n \in 1 .. N : n \in 0 .. N /\ n # 0
    BY <1>1
  <2> QED
    BY <1>3, <2>1
<1>6. \A n \in 0 .. N : n \in {k \in 0 .. N : Good(f[k].d)}
  <2> DEFINE S == {k \in 0 .. N : Good(f[k].d)}
  <2>1. 0 \in S
    <3>1. Good((Answer(d, "OK", 0, <<>>)).d)
      BY DEF Answer
    <3> QED
      BY <1>1, <1>4, <3>1
  <2>2. ASSUME NEW n \in 1 .. N, n - 1 \in S PROVE n \in S
    <3>1. n \in 0 .. N /\ n - 1 \in 0 .. N
      BY <1>1
    <3>2. Good(f[n - 1].d)
      BY <2>2
    <3>3. Good((Listed(f[n - 1], Append(dir, order[n]), parent, format, room, refresh, mark)).d)
      BY <3>2, ListedKeeps
    <3> QED
      BY <1>5, <3>1, <3>3
  <2>3. \A n \in 0 .. N : n \in S
    <3> HIDE DEF S
    <3> QED
      BY <1>1, <2>1, <2>2, CountUp
  <2> QED
    BY <2>3
<1> QED
  BY <1>6 DEF f

LEMMA SweepSlotKeeps ==
  ASSUME NEW d, Good(d), NEW i, NEW s, NEW parent, NEW mark
  PROVE  Good(SweepSlot(d, i, s, parent, mark))
  BY DropUnderKeeps DEF SweepSlot

(* The sweep, slot by slot.                                                *)
LEMMA SweepKeeps ==
  ASSUME NEW d, Good(d), NEW s, NEW parent, NEW mark
  PROVE  \A n \in 0 .. MaxObjects : Good(Sweep(d, s, parent, mark)[n])
<1> DEFINE f == Sweep(d, s, parent, mark)
           next(r, n) == [k \in 0 .. n |->
                            IF k = 0 THEN d
                            ELSE SweepSlot(r[k - 1], k, s, parent, mark)]
<1> PICK N : N = MaxObjects
  OBVIOUS
<1>1. N \in Nat
  BY ObjectsAssumption
<1>2. \E r : r = next(r, N)
  <2> DEFINE S == {n \in 0 .. N : \E r : r = next(r, n)}
  <2>1. 0 \in S
    <3> DEFINE r == [k \in 0 .. 0 |-> d]
    <3>1. r = next(r, 0)
      OBVIOUS
    <3> HIDE DEF next, r
    <3> QED
      BY <1>1, <3>1
  <2>2. ASSUME NEW n \in 1 .. N, n - 1 \in S PROVE n \in S
    <3>1. PICK r : r = next(r, n - 1)
      BY <2>2
    <3>2. PICK t : t = SweepSlot(r[n - 1], n, s, parent, mark)
      OBVIOUS
    <3> DEFINE q == [k \in 0 .. n |-> IF k = n THEN t ELSE r[k]]
    <3>3. ASSUME NEW k \in 0 .. n PROVE q[k] = next(q, n)[k]
      <4>1. CASE k = n
        <5>1. q[n - 1] = r[n - 1] /\ q[n] = t /\ n # 0
          BY <1>1
        <5> HIDE DEF q
        <5> QED
          BY <1>1, <3>2, <4>1, <5>1
      <4>2. CASE k # n
        <5>1. k \in 0 .. n - 1
          BY <1>1, <4>2
        <5>2. r[k] = next(r, n - 1)[k]
          BY <3>1
        <5>3. q[k] = r[k] /\ (k # 0 => q[k - 1] = r[k - 1])
          BY <1>1, <4>2
        <5> HIDE DEF q
        <5> QED
          BY <5>1, <5>2, <5>3
      <4> QED
        BY <4>1, <4>2
    <3>4. q = next(q, n)
      <4>1. q = [k \in 0 .. n |-> q[k]]
        OBVIOUS
      <4> HIDE DEF q
      <4> QED
        BY <3>3, <4>1
    <3> HIDE DEF next, q
    <3> QED
      BY <1>1, <3>4
  <2>3. \A n \in 0 .. N : n \in S
    <3> HIDE DEF S
    <3> QED
      BY <1>1, <2>1, <2>2, CountUp
  <2> QED
    BY <1>1, <2>3
<1>3. f = next(f, N)
  <2>1. f = CHOOSE r : r = next(r, N)
    BY DEF Sweep
  <2> HIDE DEF next, f
  <2> QED
    BY <1>2, <2>1
<1> HIDE DEF f
<1>4. \A n \in 0 .. N : n = 0 => f[n] = (d)
  BY <1>3
<1>5. \A n \in 1 .. N : f[n] = SweepSlot(f[n - 1], n, s, parent, mark)
  <2>1. \A n \in 1 .. N : n \in 0 .. N /\ n # 0
    BY <1>1
  <2> QED
    BY <1>3, <2>1
<1>6. \A n \in 0 .. N : n \in {k \in 0 .. N : Good(f[k])}
  <2> DEFINE S == {k \in 0 .. N : Good(f[k])}
  <2>1. 0 \in S
    <3>1. Good((d))
      OBVIOUS
    <3> QED
      BY <1>1, <1>4, <3>1
  <2>2. ASSUME NEW n \in 1 .. N, n - 1 \in S PROVE n \in S
    <3>1. n \in 0 .. N /\ n - 1 \in 0 .. N
      BY <1>1
    <3>2. Good(f[n - 1])
      BY <2>2
    <3>3. Good((SweepSlot(f[n - 1], n, s, parent, mark)))
      BY <3>2, SweepSlotKeeps
    <3> QED
      BY <1>5, <3>1, <3>3
  <2>3. \A n \in 0 .. N : n \in S
    <3> HIDE DEF S
    <3> QED
      BY <1>1, <2>1, <2>2, CountUp
  <2> QED
    BY <2>3
<1> QED
  BY <1>6 DEF f

LEMMA NormalizedIs == \A h \in Int : Normalized(h) \in Int
  BY DEF Normalized, Root

LEMMA ScanChildrenKeeps ==
  ASSUME NEW d, Good(d), NEW s, NEW h \in Int, NEW format, NEW room, NEW refresh \in BOOLEAN,
         NEW read \in Reads
  PROVE  Good(ScanChildren(d, s, h, format, room, refresh, read).d)
<1>1. PICK dir : dir = ParentDir(d, s, h)
  OBVIOUS
<1>2. PICK parent \in Int : parent = Normalized(h)
  BY NormalizedIs
<1>3. PICK begun : begun = IF refresh THEN BeginGeneration(d) ELSE [d |-> d, mark |-> 0]
  OBVIOUS
<1>4. PICK last : last = IF read.broken THEN Len(read.order) - 1 ELSE Len(read.order)
  OBVIOUS
<1>5. Good(begun.d) /\ begun.mark \in 0 .. Generations - 1
  <2>1. 0 \in 0 .. Generations - 1
    BY ObjectsAssumption
  <2> QED
    BY <1>3, <2>1, BeginKeeps
<1>6. PICK a : a = ListEntries(begun.d, dir, parent, format, room, refresh, begun.mark,
                               read.order)[last]
  OBVIOUS
<1>7. Good(a.d)
  <2>1. read.order \in Orders
    BY DEF Reads
  <2>2. last \in 0 .. Len(read.order)
    BY <1>4, <2>1, OrderIs
  <2> QED
    BY <1>5, <1>6, <2>1, <2>2, ListEntriesKeeps
<1>8. Good(Sweep(a.d, s, parent, begun.mark)[MaxObjects])
  <2>1. MaxObjects \in 0 .. MaxObjects
    BY ObjectsAssumption
  <2> QED
    BY <1>7, <2>1, SweepKeeps
<1>9. ScanChildren(d, s, h, format, room, refresh, read).d
        \in {d, a.d, Sweep(a.d, s, parent, begun.mark)[MaxObjects]}
  BY <1>1, <1>2, <1>3, <1>4, <1>6 DEF ScanChildren, Ended, Answer, Fails
<1> QED
  BY <1>7, <1>8, <1>9

(* The handle of an object is a number.                                    *)
LEMMA HandleIs ==
  ASSUME NEW d, Good(d), NEW h, SlotOf(d, h) # 0
  PROVE  h \in Int /\ SlotOf(d, h) \in Used(d)
<1>1. SlotOf(d, h) \in Used(d) /\ d.objects[SlotOf(d, h)].handle = h
  BY SlotIs
<1>2. d.objects[SlotOf(d, h)].handle \in 1 .. LastHandle /\ LastHandle \in Int
  BY <1>1, UsedIs, ObjectsAssumption
<1> QED
  BY <1>1, <1>2

LEMMA RootIs == Root \in Int
  BY DEF Root

LEMMA DescendIntoKeeps ==
  ASSUME NEW a, Good(a.d), NEW k, NEW read \in Reads
  PROVE  Good(DescendInto(a, k, read).d)
<1>1. PICK h : h = a.handles[k]
  OBVIOUS
<1>2. PICK i : i = SlotOf(a.d, h)
  OBVIOUS
<1>3. PICK b : b = ScanChildren(a.d, Path(a.d, i)[1], h, "any", MaxObjects - Len(a.handles), TRUE,
                                read)
  OBVIOUS
<1>4. i # 0 => Good(b.d)
  <2>1. i # 0 => h \in Int
    BY <1>2, HandleIs
  <2> QED
    BY <1>3, <2>1, ScanChildrenKeeps
<1> QED
  BY <1>1, <1>2, <1>3, <1>4 DEF DescendInto, Joined, Answer, Fails

LEMMA DescendKeeps ==
  ASSUME NEW a, Good(a.d), NEW read \in Reads
  PROVE  \A n \in 0 .. MaxObjects : Good(Descend(a, read)[n].d)
<1> DEFINE f == Descend(a, read)
           next(r, n) == [k \in 0 .. n |->
                            IF k = 0 THEN a
                            ELSE DescendInto(r[k - 1], k, read)]
<1> PICK N : N = MaxObjects
  OBVIOUS
<1>1. N \in Nat
  BY ObjectsAssumption
<1>2. \E r : r = next(r, N)
  <2> DEFINE S == {n \in 0 .. N : \E r : r = next(r, n)}
  <2>1. 0 \in S
    <3> DEFINE r == [k \in 0 .. 0 |-> a]
    <3>1. r = next(r, 0)
      OBVIOUS
    <3> HIDE DEF next, r
    <3> QED
      BY <1>1, <3>1
  <2>2. ASSUME NEW n \in 1 .. N, n - 1 \in S PROVE n \in S
    <3>1. PICK r : r = next(r, n - 1)
      BY <2>2
    <3>2. PICK t : t = DescendInto(r[n - 1], n, read)
      OBVIOUS
    <3> DEFINE q == [k \in 0 .. n |-> IF k = n THEN t ELSE r[k]]
    <3>3. ASSUME NEW k \in 0 .. n PROVE q[k] = next(q, n)[k]
      <4>1. CASE k = n
        <5>1. q[n - 1] = r[n - 1] /\ q[n] = t /\ n # 0
          BY <1>1
        <5> HIDE DEF q
        <5> QED
          BY <1>1, <3>2, <4>1, <5>1
      <4>2. CASE k # n
        <5>1. k \in 0 .. n - 1
          BY <1>1, <4>2
        <5>2. r[k] = next(r, n - 1)[k]
          BY <3>1
        <5>3. q[k] = r[k] /\ (k # 0 => q[k - 1] = r[k - 1])
          BY <1>1, <4>2
        <5> HIDE DEF q
        <5> QED
          BY <5>1, <5>2, <5>3
      <4> QED
        BY <4>1, <4>2
    <3>4. q = next(q, n)
      <4>1. q = [k \in 0 .. n |-> q[k]]
        OBVIOUS
      <4> HIDE DEF q
      <4> QED
        BY <3>3, <4>1
    <3> HIDE DEF next, q
    <3> QED
      BY <1>1, <3>4
  <2>3. \A n \in 0 .. N : n \in S
    <3> HIDE DEF S
    <3> QED
      BY <1>1, <2>1, <2>2, CountUp
  <2> QED
    BY <1>1, <2>3
<1>3. f = next(f, N)
  <2>1. f = CHOOSE r : r = next(r, N)
    BY DEF Descend
  <2> HIDE DEF next, f
  <2> QED
    BY <1>2, <2>1
<1> HIDE DEF f
<1>4. \A n \in 0 .. N : n = 0 => f[n].d = (a).d
  BY <1>3
<1>5. \A n \in 1 .. N : f[n] = DescendInto(f[n - 1], n, read)
  <2>1. \A n \in 1 .. N : n \in 0 .. N /\ n # 0
    BY <1>1
  <2> QED
    BY <1>3, <2>1
<1>6. \A n \in 0 .. N : n \in {k \in 0 .. N : Good(f[k].d)}
  <2> DEFINE S == {k \in 0 .. N : Good(f[k].d)}
  <2>1. 0 \in S
    <3>1. Good((a).d)
      OBVIOUS
    <3> QED
      BY <1>1, <1>4, <3>1
  <2>2. ASSUME NEW n \in 1 .. N, n - 1 \in S PROVE n \in S
    <3>1. n \in 0 .. N /\ n - 1 \in 0 .. N
      BY <1>1
    <3>2. Good(f[n - 1].d)
      BY <2>2
    <3>3. Good((DescendInto(f[n - 1], n, read)).d)
      BY <3>2, DescendIntoKeeps
    <3> QED
      BY <1>5, <3>1, <3>3
  <2>3. \A n \in 0 .. N : n \in S
    <3> HIDE DEF S
    <3> QED
      BY <1>1, <2>1, <2>2, CountUp
  <2> QED
    BY <2>3
<1> QED
  BY <1>6 DEF f

LEMMA AllSlots == MaxObjects \in 0 .. MaxObjects
  BY ObjectsAssumption

LEMMA ScanStorageKeeps ==
  ASSUME NEW d, Good(d), NEW s, NEW format, NEW parent \in Int, NEW room,
         NEW refresh \in BOOLEAN, NEW read \in Reads
  PROVE  Good(ScanStorage(d, s, format, parent, room, refresh, read).d)
<1>1. Good(ScanChildren(d, s, parent, format, room, refresh, read).d)
  BY ScanChildrenKeeps
<1>2. Good(ScanTree(d, s, format, room, refresh, read).d)
  <2>1. PICK first : first = ScanChildren(d, s, Root, "any", MaxObjects, TRUE, read)
    OBVIOUS
  <2>2. Good(first.d)
    BY <2>1, RootIs, ScanChildrenKeeps
  <2>3. PICK a : a = Descend(first, read)[MaxObjects]
    OBVIOUS
  <2>4. Good(a.d)
    BY <2>2, <2>3, AllSlots, DescendKeeps
  <2>5. ScanTree(d, s, format, room, refresh, read).d = a.d
    BY <2>1, <2>3 DEF ScanTree, Selected, Answer, Fails
  <2> QED
    BY <2>4, <2>5
<1> QED
  BY <1>1, <1>2 DEF ScanStorage

LEMMA ScanNextKeeps ==
  ASSUME NEW a, Good(a.d), NEW s, NEW format, NEW parent \in Int,
         NEW refresh \in BOOLEAN, NEW read \in Reads
  PROVE  Good(ScanNext(a, s, format, parent, refresh, read).d)
<1>1. PICK b : b = ScanStorage(a.d, s, format, parent, MaxObjects - a.count, refresh, read)
  OBVIOUS
<1>2. Good(b.d)
  BY <1>1, ScanStorageKeeps
<1> QED
  BY <1>1, <1>2 DEF ScanNext, Joined, Answer

(* The storages of a request.                                              *)
LEMMA ScanScopeKeeps ==
  ASSUME NEW d, Good(d), NEW scope, Len(scope) \in Nat, NEW format, NEW parent \in Int,
         NEW refresh \in BOOLEAN, NEW read \in Reads
  PROVE  \A n \in 0 .. Len(scope) : Good(ScanScope(d, scope, format, parent, refresh, read)[n].d)
<1> DEFINE f == ScanScope(d, scope, format, parent, refresh, read)
           next(r, n) == [k \in 0 .. n |->
                            IF k = 0 THEN Answer(d, "OK", 0, <<>>)
                            ELSE ScanNext(r[k - 1], scope[k], format, parent, refresh, read)]
<1> PICK N : N = Len(scope)
  OBVIOUS
<1>1. N \in Nat
  OBVIOUS
<1>2. \E r : r = next(r, N)
  <2> DEFINE S == {n \in 0 .. N : \E r : r = next(r, n)}
  <2>1. 0 \in S
    <3> DEFINE r == [k \in 0 .. 0 |-> Answer(d, "OK", 0, <<>>)]
    <3>1. r = next(r, 0)
      OBVIOUS
    <3> HIDE DEF next, r
    <3> QED
      BY <1>1, <3>1
  <2>2. ASSUME NEW n \in 1 .. N, n - 1 \in S PROVE n \in S
    <3>1. PICK r : r = next(r, n - 1)
      BY <2>2
    <3>2. PICK t : t = ScanNext(r[n - 1], scope[n], format, parent, refresh, read)
      OBVIOUS
    <3> DEFINE q == [k \in 0 .. n |-> IF k = n THEN t ELSE r[k]]
    <3>3. ASSUME NEW k \in 0 .. n PROVE q[k] = next(q, n)[k]
      <4>1. CASE k = n
        <5>1. q[n - 1] = r[n - 1] /\ q[n] = t /\ n # 0
          BY <1>1
        <5> HIDE DEF q
        <5> QED
          BY <1>1, <3>2, <4>1, <5>1
      <4>2. CASE k # n
        <5>1. k \in 0 .. n - 1
          BY <1>1, <4>2
        <5>2. r[k] = next(r, n - 1)[k]
          BY <3>1
        <5>3. q[k] = r[k] /\ (k # 0 => q[k - 1] = r[k - 1])
          BY <1>1, <4>2
        <5> HIDE DEF q
        <5> QED
          BY <5>1, <5>2, <5>3
      <4> QED
        BY <4>1, <4>2
    <3>4. q = next(q, n)
      <4>1. q = [k \in 0 .. n |-> q[k]]
        OBVIOUS
      <4> HIDE DEF q
      <4> QED
        BY <3>3, <4>1
    <3> HIDE DEF next, q
    <3> QED
      BY <1>1, <3>4
  <2>3. \A n \in 0 .. N : n \in S
    <3> HIDE DEF S
    <3> QED
      BY <1>1, <2>1, <2>2, CountUp
  <2> QED
    BY <1>1, <2>3
<1>3. f = next(f, N)
  <2>1. f = CHOOSE r : r = next(r, N)
    BY DEF ScanScope
  <2> HIDE DEF next, f
  <2> QED
    BY <1>2, <2>1
<1> HIDE DEF f
<1>4. \A n \in 0 .. N : n = 0 => f[n].d = (Answer(d, "OK", 0, <<>>)).d
  BY <1>3
<1>5. \A n \in 1 .. N : f[n] = ScanNext(f[n - 1], scope[n], format, parent, refresh, read)
  <2>1. \A n \in 1 .. N : n \in 0 .. N /\ n # 0
    BY <1>1
  <2> QED
    BY <1>3, <2>1
<1>6. \A n \in 0 .. N : n \in {k \in 0 .. N : Good(f[k].d)}
  <2> DEFINE S == {k \in 0 .. N : Good(f[k].d)}
  <2>1. 0 \in S
    <3>1. Good((Answer(d, "OK", 0, <<>>)).d)
      BY DEF Answer
    <3> QED
      BY <1>1, <1>4, <3>1
  <2>2. ASSUME NEW n \in 1 .. N, n - 1 \in S PROVE n \in S
    <3>1. n \in 0 .. N /\ n - 1 \in 0 .. N
      BY <1>1
    <3>2. Good(f[n - 1].d)
      BY <2>2
    <3>3. Good((ScanNext(f[n - 1], scope[n], format, parent, refresh, read)).d)
      BY <3>2, ScanNextKeeps
    <3> QED
      BY <1>5, <3>1, <3>3
  <2>3. \A n \in 0 .. N : n \in S
    <3> HIDE DEF S
    <3> QED
      BY <1>1, <2>1, <2>2, CountUp
  <2> QED
    BY <2>3
<1> QED
  BY <1>6 DEF f

LEMMA StoragesAre == Len(SetToSeq(Storages)) \in Nat
<1>1. IsFiniteSet(Storages)
  <2> DEFINE f == [p \in Paths |-> p[1]]
  <2>1. f \in Surjection(Paths, Storages)
    BY DEF Surjection, Storages, Range
  <2> HIDE DEF f
  <2> QED
    BY <2>1, FS_Surjection, ObjectsAssumption
<1>2. PICK n \in Nat : n = Cardinality(Storages) /\ ExistsBijection(1 .. n, Storages)
  BY <1>1, FS_CardinalityType
<1>3. \E f \in [1 .. n -> Storages] : IsInjective(f)
  BY <1>2 DEF ExistsBijection, Bijection, Injection
<1>4. SetToSeq(Storages) \in [1 .. n -> Storages]
  BY <1>2, <1>3 DEF SetToSeq
<1> QED
  BY <1>4

LEMMA ScanRequestKeeps ==
  ASSUME NEW d, Good(d), NEW s, NEW format, NEW parent \in Int,
         NEW refresh \in BOOLEAN, NEW read \in Reads
  PROVE  Good(ScanRequest(d, s, format, parent, refresh, read).d)
<1>1. PICK scope : scope = IF s # Root THEN <<s>>
                           ELSE IF parent \in {None, Root} THEN SetToSeq(Storages)
                           ELSE <<Path(d, SlotOf(d, parent))[1]>>
  OBVIOUS
<1>2. Len(scope) \in Nat /\ Len(scope) \in 0 .. Len(scope)
  <2>1. \A x : Len(<<x>>) \in Nat
    OBVIOUS
  <2>2. Len(scope) \in Nat
    BY <1>1, <2>1, StoragesAre
  <2> QED
    BY <2>2
<1>3. Good(ScanScope(d, scope, format, parent, refresh, read)[Len(scope)].d)
  BY <1>2, ScanScopeKeeps
<1>4. ScanRequest(d, s, format, parent, refresh, read).d
        \in {d, ScanScope(d, scope, format, parent, refresh, read)[Len(scope)].d}
  BY <1>1 DEF ScanRequest, Fails, Answer
<1> QED
  BY <1>3, <1>4

-----------------------------------------------------------------------------
(* Property lists.                                                         *)

LEMMA EnqueuedKeeps ==
  ASSUME NEW q, Good(q.d), NEW s, NEW h \in Int, NEW depth, NEW props, NEW read \in Reads
  PROVE  Good(Enqueued(q, s, h, depth, props, read).d)
<1>1. PICK b : b = ScanChildren(q.d, s, h, "any", MaxObjects, TRUE, read)
  OBVIOUS
<1>2. Good(b.d)
  BY <1>1, ScanChildrenKeeps
<1> QED
  BY <1>1, <1>2 DEF Enqueued, Extended, Queue

LEMMA VisitKeeps ==
  ASSUME NEW q, Good(q.d), NEW k, NEW read \in Reads
  PROVE  Good(Visit(q, k, read).d)
<1>1. PICK v : v = q.queue[k]
  OBVIOUS
<1>2. PICK i : i = SlotOf(q.d, v.handle)
  OBVIOUS
<1>3. PICK props : props = Append(q.props, v.handle)
  OBVIOUS
<1>4. PICK e : e = Enqueued(q, Path(q.d, i)[1], v.handle,
                            IF v.depth = Root THEN Root ELSE v.depth - 1, props, read)
  OBVIOUS
<1>5. i # 0 => Good(e.d)
  <2>1. i # 0 => v.handle \in Int
    BY <1>2, HandleIs
  <2> QED
    BY <1>4, <2>1, EnqueuedKeeps
<1> QED
  BY <1>1, <1>2, <1>3, <1>4, <1>5 DEF Visit, Queue

LEMMA VisitedKeeps ==
  ASSUME NEW q, Good(q.d), NEW read \in Reads
  PROVE  \A n \in 0 .. MaxObjects : Good(Visited(q, read)[n].d)
<1> DEFINE f == Visited(q, read)
           next(r, n) == [k \in 0 .. n |->
                            IF k = 0 THEN q
                            ELSE Visit(r[k - 1], k, read)]
<1> PICK N : N = MaxObjects
  OBVIOUS
<1>1. N \in Nat
  BY ObjectsAssumption
<1>2. \E r : r = next(r, N)
  <2> DEFINE S == {n \in 0 .. N : \E r : r = next(r, n)}
  <2>1. 0 \in S
    <3> DEFINE r == [k \in 0 .. 0 |-> q]
    <3>1. r = next(r, 0)
      OBVIOUS
    <3> HIDE DEF next, r
    <3> QED
      BY <1>1, <3>1
  <2>2. ASSUME NEW n \in 1 .. N, n - 1 \in S PROVE n \in S
    <3>1. PICK r : r = next(r, n - 1)
      BY <2>2
    <3>2. PICK t : t = Visit(r[n - 1], n, read)
      OBVIOUS
    <3> DEFINE w == [k \in 0 .. n |-> IF k = n THEN t ELSE r[k]]
    <3>3. ASSUME NEW k \in 0 .. n PROVE w[k] = next(w, n)[k]
      <4>1. CASE k = n
        <5>1. w[n - 1] = r[n - 1] /\ w[n] = t /\ n # 0
          BY <1>1
        <5> HIDE DEF w
        <5> QED
          BY <1>1, <3>2, <4>1, <5>1
      <4>2. CASE k # n
        <5>1. k \in 0 .. n - 1
          BY <1>1, <4>2
        <5>2. r[k] = next(r, n - 1)[k]
          BY <3>1
        <5>3. w[k] = r[k] /\ (k # 0 => w[k - 1] = r[k - 1])
          BY <1>1, <4>2
        <5> HIDE DEF w
        <5> QED
          BY <5>1, <5>2, <5>3
      <4> QED
        BY <4>1, <4>2
    <3>4. w = next(w, n)
      <4>1. w = [k \in 0 .. n |-> w[k]]
        OBVIOUS
      <4> HIDE DEF w
      <4> QED
        BY <3>3, <4>1
    <3> HIDE DEF next, w
    <3> QED
      BY <1>1, <3>4
  <2>3. \A n \in 0 .. N : n \in S
    <3> HIDE DEF S
    <3> QED
      BY <1>1, <2>1, <2>2, CountUp
  <2> QED
    BY <1>1, <2>3
<1>3. f = next(f, N)
  <2>1. f = CHOOSE r : r = next(r, N)
    BY DEF Visited
  <2> HIDE DEF next, f
  <2> QED
    BY <1>2, <2>1
<1> HIDE DEF f
<1>4. \A n \in 0 .. N : n = 0 => f[n].d = (q).d
  BY <1>3
<1>5. \A n \in 1 .. N : f[n] = Visit(f[n - 1], n, read)
  <2>1. \A n \in 1 .. N : n \in 0 .. N /\ n # 0
    BY <1>1
  <2> QED
    BY <1>3, <2>1
<1>6. \A n \in 0 .. N : n \in {k \in 0 .. N : Good(f[k].d)}
  <2> DEFINE S == {k \in 0 .. N : Good(f[k].d)}
  <2>1. 0 \in S
    <3>1. Good((q).d)
      OBVIOUS
    <3> QED
      BY <1>1, <1>4, <3>1
  <2>2. ASSUME NEW n \in 1 .. N, n - 1 \in S PROVE n \in S
    <3>1. n \in 0 .. N /\ n - 1 \in 0 .. N
      BY <1>1
    <3>2. Good(f[n - 1].d)
      BY <2>2
    <3>3. Good((Visit(f[n - 1], n, read)).d)
      BY <3>2, VisitKeeps
    <3> QED
      BY <1>5, <3>1, <3>3
  <2>3. \A n \in 0 .. N : n \in S
    <3> HIDE DEF S
    <3> QED
      BY <1>1, <2>1, <2>2, CountUp
  <2> QED
    BY <2>3
<1> QED
  BY <1>6 DEF f

LEMMA ListStorageKeeps ==
  ASSUME NEW q, Good(q.d), NEW s, NEW read \in Reads
  PROVE  Good(ListStorage(q, s, read).d)
<1>1. PICK e : e = Enqueued(Queue(q.d, "OK", <<>>, <<>>), s, Root, Root, q.props, read)
  OBVIOUS
<1>2. Good(e.d)
  <2>1. Queue(q.d, "OK", <<>>, <<>>).d = q.d
    BY DEF Queue
  <2> QED
    BY <1>1, <2>1, RootIs, EnqueuedKeeps
<1>3. Good(Visited(e, read)[MaxObjects].d)
  BY <1>2, AllSlots, VisitedKeeps
<1> QED
  BY <1>1, <1>3 DEF ListStorage

LEMMA ListStoragesKeeps ==
  ASSUME NEW d, Good(d), NEW scope, Len(scope) \in Nat, NEW read \in Reads
  PROVE  \A n \in 0 .. Len(scope) : Good(ListStorages(d, scope, read)[n].d)
<1> DEFINE f == ListStorages(d, scope, read)
           next(r, n) == [k \in 0 .. n |->
                            IF k = 0 THEN Queue(d, "OK", <<>>, <<>>)
                            ELSE ListStorage(r[k - 1], scope[k], read)]
<1> PICK N : N = Len(scope)
  OBVIOUS
<1>1. N \in Nat
  OBVIOUS
<1>2. \E r : r = next(r, N)
  <2> DEFINE S == {n \in 0 .. N : \E r : r = next(r, n)}
  <2>1. 0 \in S
    <3> DEFINE r == [k \in 0 .. 0 |-> Queue(d, "OK", <<>>, <<>>)]
    <3>1. r = next(r, 0)
      OBVIOUS
    <3> HIDE DEF next, r
    <3> QED
      BY <1>1, <3>1
  <2>2. ASSUME NEW n \in 1 .. N, n - 1 \in S PROVE n \in S
    <3>1. PICK r : r = next(r, n - 1)
      BY <2>2
    <3>2. PICK t : t = ListStorage(r[n - 1], scope[n], read)
      OBVIOUS
    <3> DEFINE q == [k \in 0 .. n |-> IF k = n THEN t ELSE r[k]]
    <3>3. ASSUME NEW k \in 0 .. n PROVE q[k] = next(q, n)[k]
      <4>1. CASE k = n
        <5>1. q[n - 1] = r[n - 1] /\ q[n] = t /\ n # 0
          BY <1>1
        <5> HIDE DEF q
        <5> QED
          BY <1>1, <3>2, <4>1, <5>1
      <4>2. CASE k # n
        <5>1. k \in 0 .. n - 1
          BY <1>1, <4>2
        <5>2. r[k] = next(r, n - 1)[k]
          BY <3>1
        <5>3. q[k] = r[k] /\ (k # 0 => q[k - 1] = r[k - 1])
          BY <1>1, <4>2
        <5> HIDE DEF q
        <5> QED
          BY <5>1, <5>2, <5>3
      <4> QED
        BY <4>1, <4>2
    <3>4. q = next(q, n)
      <4>1. q = [k \in 0 .. n |-> q[k]]
        OBVIOUS
      <4> HIDE DEF q
      <4> QED
        BY <3>3, <4>1
    <3> HIDE DEF next, q
    <3> QED
      BY <1>1, <3>4
  <2>3. \A n \in 0 .. N : n \in S
    <3> HIDE DEF S
    <3> QED
      BY <1>1, <2>1, <2>2, CountUp
  <2> QED
    BY <1>1, <2>3
<1>3. f = next(f, N)
  <2>1. f = CHOOSE r : r = next(r, N)
    BY DEF ListStorages
  <2> HIDE DEF next, f
  <2> QED
    BY <1>2, <2>1
<1> HIDE DEF f
<1>4. \A n \in 0 .. N : n = 0 => f[n].d = (Queue(d, "OK", <<>>, <<>>)).d
  BY <1>3
<1>5. \A n \in 1 .. N : f[n] = ListStorage(f[n - 1], scope[n], read)
  <2>1. \A n \in 1 .. N : n \in 0 .. N /\ n # 0
    BY <1>1
  <2> QED
    BY <1>3, <2>1
<1>6. \A n \in 0 .. N : n \in {k \in 0 .. N : Good(f[k].d)}
  <2> DEFINE S == {k \in 0 .. N : Good(f[k].d)}
  <2>1. 0 \in S
    <3>1. Good((Queue(d, "OK", <<>>, <<>>)).d)
      BY DEF Queue
    <3> QED
      BY <1>1, <1>4, <3>1
  <2>2. ASSUME NEW n \in 1 .. N, n - 1 \in S PROVE n \in S
    <3>1. n \in 0 .. N /\ n - 1 \in 0 .. N
      BY <1>1
    <3>2. Good(f[n - 1].d)
      BY <2>2
    <3>3. Good((ListStorage(f[n - 1], scope[n], read)).d)
      BY <3>2, ListStorageKeeps
    <3> QED
      BY <1>5, <3>1, <3>3
  <2>3. \A n \in 0 .. N : n \in S
    <3> HIDE DEF S
    <3> QED
      BY <1>1, <2>1, <2>2, CountUp
  <2> QED
    BY <2>3
<1> QED
  BY <1>6 DEF f

LEMMA PropListKeeps ==
  ASSUME NEW d, Good(d), NEW h \in Int, NEW depth, NEW read \in Reads
  PROVE  Good(PropList(d, h, depth, read).d)
<1>1. PICK i : i = SlotOf(d, h)
  OBVIOUS
<1>2. PICK all : all = SetToSeq(Storages)
  OBVIOUS
<1>3. Good(ListStorages(d, all, read)[Len(all)].d)
  <2>1. Len(all) \in Nat /\ Len(all) \in 0 .. Len(all)
    BY <1>2, StoragesAre
  <2> QED
    BY <2>1, ListStoragesKeeps
<1>4. Good(Free(d, {i}))
  BY FreeKeeps
<1>5. PICK q : q = Queue(Refreshed(d, i), "OK", <<[handle |-> h, depth |-> depth]>>, <<>>)
  OBVIOUS
<1>6. i # 0 => Good(Visited(q, read)[MaxObjects].d)
  <2>1. i # 0 => i \in Used(d)
    BY <1>1, HandleIs
  <2>2. i # 0 => Good(q.d)
    BY <1>5, <2>1, RefreshedKeeps DEF Queue
  <2> QED
    BY <2>2, AllSlots, VisitedKeeps
<1> QED
  BY <1>1, <1>2, <1>3, <1>4, <1>5, <1>6 DEF PropList, Queue

LEMMA GetPropListKeeps ==
  ASSUME NEW d, Good(d), NEW h \in Int, NEW depth, NEW read \in Reads
  PROVE  Good(GetPropList(d, h, depth, read).d)
<1>1. PICK a : a = PropList(d, h, depth, read)
  OBVIOUS
<1>2. PICK b : b = PropList(a.d, h, depth, read)
  OBVIOUS
<1>3. Good(a.d)
  BY <1>1, PropListKeeps
<1>4. Good(b.d)
  BY <1>2, <1>3, PropListKeeps
<1> QED
  BY <1>1, <1>2, <1>3, <1>4 DEF GetPropList, Measured, Built, Answer, Fails

-----------------------------------------------------------------------------
(* Files. A path and its directory, name by name.                          *)

Components == UNION {ToSet(p) : p \in Paths}
TreeOf(fs) == \A p \in Paths : fs[p] # "none" => Len(DirOf(p)) = 1 \/ fs[DirOf(p)] = "dir"

LEMMA PathIs ==
  ASSUME NEW p \in Paths
  PROVE  /\ p \in Seq(Components) /\ Len(p) \in Nat /\ Len(p) > 1
         /\ DirOf(p) \in Seq(Components) /\ Len(DirOf(p)) = Len(p) - 1
         /\ \A i \in 1 .. Len(p) - 1 : DirOf(p)[i] = p[i]
         /\ Len(DirOf(p)) = 1 \/ DirOf(p) \in Paths
<1>1. p \in Seq(Components) /\ Len(p) \in Nat /\ Len(p) > 1 /\ DirOf(p) \in Dirs
  BY ObjectsAssumption DEF Components
<1>2. /\ DirOf(p) \in Seq(Components) /\ Len(DirOf(p)) = Len(p) - 1
      /\ \A i \in 1 .. Len(p) - 1 : DirOf(p)[i] = p[i]
  BY <1>1 DEF DirOf, Front
<1>3. Len(DirOf(p)) = 1 \/ DirOf(p) \in Paths
  <2>1. \A s : Len(<<s>>) = 1
    OBVIOUS
  <2> QED
    BY <1>1, <2>1 DEF Dirs, RootOf
<1> QED
  BY <1>1, <1>2, <1>3

LEMMA PrefixIs ==
  ASSUME NEW s \in Seq(Components), NEW t \in Seq(Components)
  PROVE  IsPrefix(s, t) <=> Len(s) <= Len(t) /\ \A i \in 1 .. Len(s) : s[i] = t[i]
<1>1. SubSeq(s, 1, Len(s)) = s
  OBVIOUS
<1>2. ASSUME Len(s) <= Len(t) PROVE s = SubSeq(t, 1, Len(s)) <=> \A i \in 1 .. Len(s) : s[i] = t[i]
  <2>1. /\ SubSeq(t, 1, Len(s)) \in Seq(Components) /\ Len(SubSeq(t, 1, Len(s))) = Len(s)
        /\ \A i \in 1 .. Len(s) : SubSeq(t, 1, Len(s))[i] = t[i]
    BY <1>2
  <2> QED
    BY <2>1
<1> QED
  BY <1>1, <1>2 DEF IsPrefix

(* What is under a path, with its directory.                               *)
LEMMA UnderIs ==
  ASSUME NEW p \in Paths, NEW r \in Paths
  PROVE  /\ IsPrefix(p, p) /\ IsPrefix(DirOf(r), r)
         /\ IsPrefix(p, DirOf(r)) => IsPrefix(p, r) /\ DirOf(r) \in Paths
         /\ IsPrefix(p, r) => p = r \/ IsPrefix(p, DirOf(r))
<1>1. /\ p \in Seq(Components) /\ r \in Seq(Components) /\ DirOf(r) \in Seq(Components)
      /\ Len(p) \in Nat /\ Len(r) \in Nat /\ Len(p) > 1 /\ Len(DirOf(r)) = Len(r) - 1
      /\ \A i \in 1 .. Len(r) - 1 : DirOf(r)[i] = r[i]
      /\ Len(DirOf(r)) = 1 \/ DirOf(r) \in Paths
  BY PathIs
<1>2. Len(p) \in Nat /\ Len(r) \in Nat /\ Len(p) > 1 /\ Len(DirOf(r)) = Len(r) - 1
  BY <1>1
<1>3. /\ IsPrefix(p, r) <=> Len(p) <= Len(r) /\ \A i \in 1 .. Len(p) : p[i] = r[i]
      /\ IsPrefix(p, DirOf(r)) <=>
           Len(p) <= Len(r) - 1 /\ \A i \in 1 .. Len(p) : p[i] = DirOf(r)[i]
  BY <1>1, PrefixIs
<1>4. IsPrefix(p, p)
  BY <1>1, PrefixIs
<1>5. IsPrefix(DirOf(r), r)
  <2>1. IsPrefix(DirOf(r), r) <=>
          Len(DirOf(r)) <= Len(r) /\ \A i \in 1 .. Len(DirOf(r)) : DirOf(r)[i] = r[i]
    BY <1>1, PrefixIs
  <2>2. Len(DirOf(r)) <= Len(r)
    BY <1>2
  <2> QED
    BY <1>1, <2>1, <2>2
<1>6. ASSUME IsPrefix(p, DirOf(r)) PROVE IsPrefix(p, r) /\ DirOf(r) \in Paths
  <2>1. Len(p) <= Len(r) - 1 /\ \A i \in 1 .. Len(p) : p[i] = DirOf(r)[i]
    BY <1>3, <1>6
  <2>2. \A i \in 1 .. Len(p) : i \in 1 .. Len(r) - 1
    BY <1>2, <2>1
  <2>3. \A i \in 1 .. Len(p) : p[i] = r[i]
    BY <1>1, <2>1, <2>2
  <2>4. Len(p) <= Len(r) /\ Len(DirOf(r)) # 1
    BY <1>2, <2>1
  <2> QED
    BY <1>1, <1>3, <2>3, <2>4
<1>7. ASSUME IsPrefix(p, r), p # r PROVE IsPrefix(p, DirOf(r))
  <2>1. Len(p) <= Len(r) /\ \A i \in 1 .. Len(p) : p[i] = r[i]
    BY <1>3, <1>7
  <2>2. Len(p) # Len(r)
    <3>1. ASSUME Len(p) = Len(r) PROVE p = r
      BY <1>1, <2>1, <3>1
    <3> QED
      BY <1>7, <3>1
  <2>3. Len(p) <= Len(r) - 1
    BY <1>2, <2>1, <2>2
  <2>4. \A i \in 1 .. Len(p) : i \in 1 .. Len(r) - 1
    BY <1>2, <2>3
  <2>5. \A i \in 1 .. Len(p) : p[i] = DirOf(r)[i]
    BY <1>1, <2>1, <2>4
  <2> QED
    BY <1>3, <2>3, <2>5
<1> QED
  BY <1>4, <1>5, <1>6, <1>7

LEMMA KindIs ==
  ASSUME NEW d, NEW p \in Paths
  PROVE  /\ Kind(d, p) = d.fs[p]
         /\ IsDirectory(d, DirOf(p)) <=> (Len(DirOf(p)) = 1 \/ d.fs[DirOf(p)] = "dir")
<1>1. Len(p) > 1 /\ Len(p) # 1
  BY PathIs
<1> QED
  BY <1>1 DEF Kind, IsDirectory

LEMMA TreeIs ==
  ASSUME NEW d
  PROVE  Tree(d) <=> TreeOf(d.fs)
  BY KindIs DEF Tree, TreeOf, Exists

Kinds == {"none", "file", "dir"}
(* Other files under the same table.                                       *)
LEMMA FilesKeep ==
  ASSUME NEW d, Good(d), NEW fs \in [Paths -> Kinds], TreeOf(fs)
  PROVE  LET e == [d EXCEPT !.fs = fs] IN Good(e) /\ e.fs = fs /\ e.objects = d.objects /\ Used(e) = Used(d)
<1>1. PICK e : e = [d EXCEPT !.fs = fs]
  OBVIOUS
<1>2. e \in Contexts /\ e.fs = fs /\ e.objects = d.objects
  BY <1>1 DEF Good, Contexts, Kinds
<1>3. Good(e)
  BY <1>2, TreeIs, SameTable
<1> QED
  BY <1>1, <1>2, <1>3 DEF Used

LEMMA MadeIsTree ==
  ASSUME NEW fs \in [Paths -> Kinds], TreeOf(fs), NEW p \in Paths, NEW kind \in Kinds,
         fs[p] = "none", Len(DirOf(p)) = 1 \/ fs[DirOf(p)] = "dir"
  PROVE  TreeOf([fs EXCEPT ![p] = kind])
<1> DEFINE new == [fs EXCEPT ![p] = kind]
<1>1. new[p] = kind /\ \A r : r \in Paths /\ r # p => new[r] = fs[r]
  OBVIOUS
<1>2. ASSUME NEW r \in Paths, new[r] # "none" PROVE Len(DirOf(r)) = 1 \/ new[DirOf(r)] = "dir"
  <2>1. Len(DirOf(r)) = 1 \/ (DirOf(r) \in Paths /\ fs[DirOf(r)] = "dir")
    <3>1. Len(DirOf(r)) = 1 \/ DirOf(r) \in Paths
      BY PathIs
    <3>2. Len(DirOf(r)) = 1 \/ fs[DirOf(r)] = "dir"
      BY <1>1, <1>2 DEF TreeOf
    <3> QED
      BY <3>1, <3>2
  <2>2. DirOf(r) # p \/ Len(DirOf(r)) = 1
    BY <2>1
  <2> HIDE DEF new
  <2> QED
    BY <1>1, <2>1, <2>2
<1> QED
  BY <1>2 DEF TreeOf

LEMMA RemovedIsTree ==
  ASSUME NEW fs \in [Paths -> Kinds], TreeOf(fs), NEW P,
         \A q \in P \intersect Paths : \A r \in Below(q) \ P : fs[r] = "none"
  PROVE  RemoveAll(fs, P) \in [Paths -> Kinds] /\ TreeOf(RemoveAll(fs, P))
<1>1. PICK new : new = RemoveAll(fs, P)
  OBVIOUS
<1>2. new \in [Paths -> Kinds] /\ \A r \in Paths : new[r] = IF r \in P THEN "none" ELSE fs[r]
  BY <1>1 DEF RemoveAll, Kinds
<1>3. ASSUME NEW r \in Paths, new[r] # "none" PROVE Len(DirOf(r)) = 1 \/ new[DirOf(r)] = "dir"
  <2>1. r \notin P /\ fs[r] # "none"
    BY <1>2, <1>3
  <2>2. Len(DirOf(r)) = 1 \/ (DirOf(r) \in Paths /\ fs[DirOf(r)] = "dir")
    BY <2>1, PathIs DEF TreeOf
  <2>3. DirOf(r) \in Paths => r \in Below(DirOf(r))
    BY UnderIs DEF Below
  <2> QED
    BY <1>2, <2>1, <2>2, <2>3
<1> QED
  BY <1>1, <1>2, <1>3 DEF TreeOf

(* A tree that is moved is a tree where it is put.                         *)
LEMMA MovedIsTree ==
  ASSUME NEW fs \in [Paths -> Kinds], TreeOf(fs), NEW p \in Paths, NEW q \in Paths,
         Len(DirOf(q)) = 1 \/ fs[DirOf(q)] = "dir"
  PROVE  MoveTree(fs, p, q) \in [Paths -> Kinds] /\ TreeOf(MoveTree(fs, p, q))
<1> DEFINE from(r) == p \o SubSeq(r, Len(q) + 1, Len(r))
<1>1. PICK new : new = MoveTree(fs, p, q)
  OBVIOUS
<1>2. new = [r \in Paths |-> IF IsPrefix(p, r) THEN "none"
                             ELSE IF ~IsPrefix(q, r) THEN fs[r]
                             ELSE IF from(r) \in Paths THEN fs[from(r)] ELSE "none"]
  BY <1>1 DEF MoveTree
<1>3. new \in [Paths -> Kinds]
  BY <1>2 DEF Kinds
<1>4. ASSUME NEW r \in Paths
      PROVE  new[r] = IF IsPrefix(p, r) THEN "none"
                      ELSE IF ~IsPrefix(q, r) THEN fs[r]
                      ELSE IF from(r) \in Paths THEN fs[from(r)] ELSE "none"
  <2> HIDE DEF from
  <2> QED
    BY <1>2
(* The directory of what is moved is moved with it.                        *)
<1>5. ASSUME NEW r \in Paths, IsPrefix(q, r), q # r, from(r) \in Paths
      PROVE  DirOf(from(r)) = from(DirOf(r)) /\ Len(DirOf(from(r))) > 1
  <2>1. /\ p \in Seq(Components) /\ q \in Seq(Components) /\ r \in Seq(Components)
        /\ DirOf(r) \in Seq(Components) /\ Len(DirOf(r)) = Len(r) - 1
        /\ \A i \in 1 .. Len(r) - 1 : DirOf(r)[i] = r[i]
        /\ Len(p) > 1 /\ Len(q) > 1
    BY PathIs
  <2>2. Len(q) <= Len(r) - 1
    <3>1. IsPrefix(q, DirOf(r))
      BY <1>5, UnderIs
    <3> QED
      BY <2>1, <3>1, PrefixIs
  <2>3. PICK m \in Nat, n \in Nat, k \in Nat : m = Len(p) /\ n = Len(q) /\ k = Len(r)
    BY <2>1
  <2>4. /\ SubSeq(r, n + 1, k) \in Seq(Components) /\ Len(SubSeq(r, n + 1, k)) = k - n
        /\ \A i \in 1 .. k - n : SubSeq(r, n + 1, k)[i] = r[n + i]
    BY <2>1, <2>2, <2>3
  <2>5. /\ SubSeq(DirOf(r), n + 1, k - 1) \in Seq(Components)
        /\ Len(SubSeq(DirOf(r), n + 1, k - 1)) = k - 1 - n
        /\ \A i \in 1 .. k - 1 - n : SubSeq(DirOf(r), n + 1, k - 1)[i] = r[n + i]
    <3> DEFINE w == DirOf(r)
    <3>1. w \in Seq(Components) /\ Len(w) = k - 1 /\ \A i \in 1 .. k - 1 : w[i] = r[i]
      BY <2>1, <2>3
    <3> HIDE DEF w
    <3>2. /\ SubSeq(w, n + 1, k - 1) \in Seq(Components) /\ Len(SubSeq(w, n + 1, k - 1)) = k - 1 - n
          /\ \A i \in 1 .. k - 1 - n : SubSeq(w, n + 1, k - 1)[i] = w[n + i]
      BY <2>2, <2>3, <3>1
    <3>3. \A i \in 1 .. k - 1 - n : n + i \in 1 .. k - 1
      BY <2>3
    <3> QED
      BY <3>1, <3>2, <3>3 DEF w
  <2>6. PICK x \in Seq(Components) : x = SubSeq(r, n + 1, k)
    BY <2>4
  <2>7. PICK y \in Seq(Components) : y = SubSeq(DirOf(r), n + 1, k - 1)
    BY <2>5
  <2>8. Len(y) \in Nat /\ Len(x) = Len(y) + 1 /\ \A i \in 1 .. Len(y) : x[i] = y[i]
    <3>1. Len(x) = k - n /\ \A i \in 1 .. k - n : x[i] = r[n + i]
      BY <2>4, <2>6
    <3>2. Len(y) = k - 1 - n /\ \A i \in 1 .. k - 1 - n : y[i] = r[n + i]
      BY <2>5, <2>7
    <3>3. \A i \in 1 .. k - 1 - n : i \in 1 .. k - n
      BY <2>3
    <3> QED
      BY <2>2, <2>3, <3>1, <3>2, <3>3
  <2>9. from(r) = p \o x /\ from(DirOf(r)) = p \o y
    BY <2>1, <2>3, <2>6, <2>7
  <2>10. /\ p \o y \in Seq(Components) /\ Len(p \o y) = m + Len(y)
         /\ SubSeq(p \o x, 1, Len(p \o x) - 1) \in Seq(Components)
         /\ Len(SubSeq(p \o x, 1, Len(p \o x) - 1)) = m + Len(y)
    <3>1. PICK z : z = p \o x
      OBVIOUS
    <3>2. z \in Seq(Components) /\ Len(z) = m + Len(y) + 1
      <4>1. p \o x \in Seq(Components) /\ Len(p \o x) = Len(p) + Len(x)
        BY <2>1
      <4> QED
        BY <2>3, <2>8, <3>1, <4>1
    <3>3. SubSeq(z, 1, Len(z) - 1) \in Seq(Components) /\ Len(SubSeq(z, 1, Len(z) - 1)) = m + Len(y)
      BY <2>3, <2>8, <3>2
    <3> QED
      BY <2>1, <2>3, <3>1, <3>3
  <2>11. ASSUME NEW i \in 1 .. m + Len(y)
         PROVE  (p \o y)[i] = SubSeq(p \o x, 1, Len(p \o x) - 1)[i]
    <3>1. SubSeq(p \o x, 1, Len(p \o x) - 1)[i] = (p \o x)[i]
      BY <2>1, <2>3, <2>8
    <3>2. (p \o x)[i] = (p \o y)[i]
      <4>1. CASE i <= m
        BY <2>1, <2>3, <2>8, <4>1
      <4>2. CASE i > m
        <5>1. i - m \in 1 .. Len(y) /\ i - m \in 1 .. Len(x)
          BY <2>3, <2>8, <4>2
        <5>2. (p \o x)[i] = x[i - m] /\ (p \o y)[i] = y[i - m]
          BY <2>1, <2>3, <2>8, <4>2, <5>1
        <5> QED
          BY <2>8, <5>1, <5>2
      <4> QED
        BY <2>3, <2>8, <4>1, <4>2
    <3> QED
      BY <3>1, <3>2
  <2>12. p \o y = SubSeq(p \o x, 1, Len(p \o x) - 1)
    <3>1. PICK z : z = SubSeq(p \o x, 1, Len(p \o x) - 1)
      OBVIOUS
    <3>2. PICK w : w = p \o y
      OBVIOUS
    <3>3. w \in Seq(Components) /\ z \in Seq(Components) /\ Len(w) = Len(z) /\ Len(w) = m + Len(y)
      BY <2>10, <3>1, <3>2
    <3>4. \A i \in 1 .. Len(w) : w[i] = z[i]
      BY <2>11, <3>1, <3>2, <3>3
    <3> QED
      BY <3>1, <3>2, <3>3, <3>4
  <2>13. Len(p \o y) > 1
    BY <2>1, <2>3, <2>10
  <2> HIDE DEF from
  <2> QED
    BY <2>9, <2>12, <2>13 DEF DirOf, Front
<1>6. ASSUME NEW r \in Paths, new[r] # "none" PROVE Len(DirOf(r)) = 1 \/ new[DirOf(r)] = "dir"
  <2>1. ~IsPrefix(p, r) /\ ~IsPrefix(p, DirOf(r)) /\ (DirOf(r) \in Paths \/ Len(DirOf(r)) = 1)
    <3> HIDE DEF from
    <3> QED
      BY <1>4, <1>6, UnderIs, PathIs
  <2>2. CASE ~IsPrefix(q, r)
    <3>1. ~IsPrefix(q, DirOf(r))
      BY <2>2, UnderIs
    <3>2. fs[r] # "none"
      BY <1>4, <1>6, <2>1, <2>2
    <3> HIDE DEF from
    <3> QED
      BY <1>4, <2>1, <3>1, <3>2 DEF TreeOf
  <2>3. CASE r = q
    <3>1. ~IsPrefix(q, DirOf(q))
      <4>1. /\ q \in Seq(Components) /\ DirOf(q) \in Seq(Components) /\ Len(q) \in Nat
            /\ Len(DirOf(q)) = Len(q) - 1
        BY PathIs
      <4> QED
        BY <4>1, PrefixIs
    <3> HIDE DEF from
    <3> QED
      BY <1>4, <2>1, <2>3, <3>1
  <2>4. CASE IsPrefix(q, r) /\ r # q
    <3>1. from(r) \in Paths /\ fs[from(r)] # "none"
      BY <1>4, <1>6, <2>1, <2>4
    <3>2. DirOf(from(r)) = from(DirOf(r)) /\ Len(DirOf(from(r))) > 1
      BY <1>5, <2>4, <3>1
    <3> HIDE DEF from
    <3>3. from(DirOf(r)) \in Paths /\ fs[from(DirOf(r))] = "dir"
      <4>1. Len(DirOf(from(r))) # 1
        <5>1. PICK n \in Int : n = Len(DirOf(from(r)))
          BY <3>1, PathIs
        <5>2. n > 1
          BY <3>2, <5>1
        <5> QED
          BY <5>1, <5>2
      <4> QED
        BY <3>1, <3>2, <4>1, PathIs DEF TreeOf
    <3>4. IsPrefix(q, DirOf(r)) /\ DirOf(r) \in Paths
      BY <2>4, UnderIs
    <3> QED
      BY <1>4, <2>1, <3>3, <3>4
  <2> QED
    BY <2>2, <2>3, <2>4
<1> QED
  BY <1>1, <1>3, <1>6 DEF TreeOf

-----------------------------------------------------------------------------
(* The requests that change the files.                                     *)

LEMMA ParentDirIs ==
  ASSUME NEW d, Good(d), NEW s, NEW h, NEW n, Append(ParentDir(d, s, h), n) \in Paths,
         ParentDir(d, s, h) # <<>>
  PROVE  DirOf(Append(ParentDir(d, s, h), n)) = ParentDir(d, s, h)
<1>1. PICK dir : dir = ParentDir(d, s, h)
  OBVIOUS
<1>2. \E T : dir \in Seq(T) /\ n \in T
  <2>1. dir = <<s>> \/ dir \in Paths
    <3>1. dir \in {<<s>>, <<>>} \/ (SlotOf(d, h) # 0 /\ dir = Path(d, SlotOf(d, h)))
      BY <1>1 DEF ParentDir, RootOf
    <3> QED
      BY <1>1, <3>1, HandleIs, UsedIs DEF Path
  <2>2. <<s>> \in Seq({s, n})
    OBVIOUS
  <2>3. dir \in Paths => dir \in Seq(Components \union {n})
    <3>1. dir \in Paths => dir \in Seq(Components)
      BY PathIs
    <3> QED
      BY <3>1
  <2> QED
    BY <2>1, <2>2, <2>3
<1>3. PICK T : dir \in Seq(T) /\ n \in T
  BY <1>2
<1>4. SubSeq(Append(dir, n), 1, Len(Append(dir, n)) - 1) = dir
  BY <1>3
<1> QED
  BY <1>1, <1>4 DEF DirOf, Front

LEMMA RelocateKeeps ==
  ASSUME NEW d, Good(d), NEW i \in Used(d), NEW q \in Paths, NEW parent \in Int,
         StaleTargets \/ \A j \in At(d, q) : j = i
  PROVE  Good(Relocate(d, i, q, parent).d)
<1>1. PICK p \in Paths : p = Path(d, i)
  BY UsedIs DEF Path
<1>2. Relocate(d, i, q, parent).d \in {d, Moved(d, i, q, parent)}
  BY <1>1 DEF Relocate, Fails, Answer
<1>3. CASE Relocate(d, i, q, parent).d # d
  <2>1. Len(DirOf(q)) = 1 \/ d.fs[DirOf(q)] = "dir"
    <3>1. IsDirectory(d, DirOf(q))
      BY <1>1, <1>3 DEF Relocate, Fails, Answer
    <3> QED
      BY <3>1, KindIs
  <2>2. PICK o : o = d.objects[i]
    OBVIOUS
  <2>3. /\ i \in Slots /\ o.handle \in 0 .. LastHandle /\ o.handle # 0
        /\ o.directory \in BOOLEAN /\ o.generation \in 0 .. Generations - 1
    <3>1. LastHandle \in Nat
      BY ObjectsAssumption
    <3> QED
      BY <2>2, <3>1, UsedIs
  <2>4. PICK e : e = IF o.directory THEN DropChildren(d, p, i) ELSE d
    OBVIOUS
  <2>5. /\ Good(e) /\ e.fs = d.fs /\ i \in Used(e) /\ Used(e) \subseteq Used(d)
        /\ \A j \in Used(e) : e.objects[j] = d.objects[j]
    <3> DEFINE I == {j \in Used(d) \ {i} : IsPrefix(p, Path(d, j))}
    <3>1. DropChildren(d, p, i) = Free(d, I) /\ i \notin I
      BY DEF DropChildren
    <3> HIDE DEF I
    <3> QED
      BY <2>4, <3>1, FreeKeeps
  <2>6. d.fs \in [Paths -> Kinds] /\ TreeOf(d.fs)
    BY TreeIs DEF Good, Contexts, Kinds
  <2>7. PICK fs \in [Paths -> Kinds] : fs = MoveTree(d.fs, p, q) /\ TreeOf(fs)
    BY <2>1, <2>6, MovedIsTree
  <2>8. PICK new : new = [e EXCEPT !.fs = fs]
    OBVIOUS
  <2>9. Good(new) /\ new.objects = e.objects /\ Used(new) = Used(e)
    BY <2>5, <2>7, <2>8, FilesKeep
  <2>10. PICK is \in BOOLEAN : is = IF Exists(new, q) THEN IsDirectory(new, q) ELSE o.directory
    BY <2>3, Directories
  <2>11. PICK n : n = Object(o.handle, parent, q, is, o.generation)
    OBVIOUS
  <2>12. n \in Objects /\ n.handle = o.handle /\ n.path = q
    BY <2>3, <2>11, ObjectIs
  <2>13. \A j \in Used(new) \ {i} : new.objects[j].handle # n.handle
    BY <2>2, <2>5, <2>9, <2>12 DEF Good, Handles
  <2>14. StaleTargets \/ \A j \in Used(new) \ {i} : Path(new, j) # n.path
    BY <2>5, <2>9, <2>12 DEF At, Path
  <2>15. Good(Put(new, i, n))
    BY <2>3, <2>9, <2>12, <2>13, <2>14, PutKeeps
  <2>16. Moved(d, i, q, parent) = Put(new, i, n)
    BY <1>1, <2>2, <2>4, <2>7, <2>8, <2>10, <2>11 DEF Moved
  <2> QED
    BY <1>2, <1>3, <2>15, <2>16
<1> QED
  BY <1>3

(* The host offers a target that is free: no object but the one that is    *)
(* moved is known for it.                                                  *)
LEMMA TargetIsFree ==
  ASSUME Good(c), NEW h, SlotOf(c, h) # 0, NEW q, MayTake(h, q)
  PROVE  q \in Paths /\ (StaleTargets \/ \A j \in At(c, q) : j = SlotOf(c, h))
<1>1. SlotOf(c, h) \in Used(c) /\ c.objects[SlotOf(c, h)].handle = h
  BY SlotIs
<1>2. q \in Paths /\ (StaleTargets \/ \A j \in At(c, q) : j \in Used(c) /\ c.objects[j].handle = h)
  BY DEF MayTake, At
<1> QED
  BY <1>1, <1>2 DEF Good, Handles

LEMMA RenameKeeps ==
  ASSUME Good(c), NEW h, NEW n, MayRename(h, n)
  PROVE  Good(Rename(c, h, n).d)
<1>1. PICK i : i = SlotOf(c, h)
  OBVIOUS
<1>2. PICK dir : dir = ParentDir(c, Path(c, i)[1], c.objects[i].parent)
  OBVIOUS
<1>3. CASE i = 0 \/ dir = <<>>
  BY <1>1, <1>2, <1>3 DEF Rename, Fails, Answer
<1>4. CASE i # 0 /\ dir # <<>>
  <2>1. PICK q : q = Append(dir, n)
    OBVIOUS
  <2>2. Rename(c, h, n) = Relocate(c, i, q, c.objects[i].parent)
    BY <1>1, <1>2, <1>4, <2>1 DEF Rename
  <2>3. MayTake(h, q)
    BY <1>1, <1>2, <1>4, <2>1 DEF MayRename
  <2>4. i \in Used(c) /\ c.objects[i].parent \in Int
    BY <1>1, <1>4, HandleIs, UsedIs
  <2>5. q \in Paths /\ (StaleTargets \/ \A j \in At(c, q) : j = i)
    BY <1>1, <1>4, <2>3, TargetIsFree
  <2> QED
    BY <2>2, <2>4, <2>5, RelocateKeeps
<1> QED
  BY <1>3, <1>4

LEMMA MoveKeeps ==
  ASSUME Good(c), NEW h, NEW s, NEW parent \in Int, MayMove(h, s, parent)
  PROVE  Good(Move(c, h, s, parent).d)
<1>1. PICK i : i = SlotOf(c, h)
  OBVIOUS
<1>2. PICK p : p = Path(c, i)
  OBVIOUS
<1>3. PICK dir : dir = ParentDir(c, s, parent)
  OBVIOUS
<1>4. PICK into : into = (c.objects[i].directory /\ IsPrefix(p, dir))
  OBVIOUS
<1>5. CASE i = 0 \/ p[1] # s \/ dir = <<>> \/ into
  BY <1>1, <1>2, <1>3, <1>4, <1>5 DEF Move, Fails, Answer
<1>6. CASE ~(i = 0 \/ p[1] # s \/ dir = <<>> \/ into)
  <2>1. PICK q : q = Target(dir, p)
    OBVIOUS
  <2>2. Move(c, h, s, parent) = Relocate(c, i, q, Normalized(parent))
    BY <1>1, <1>2, <1>3, <1>4, <1>6, <2>1 DEF Move
  <2>3. MayTake(h, q)
    BY <1>1, <1>2, <1>3, <1>4, <1>6, <2>1 DEF MayMove
  <2>4. i \in Used(c) /\ Normalized(parent) \in Int
    BY <1>1, <1>6, HandleIs, NormalizedIs
  <2>5. q \in Paths /\ (StaleTargets \/ \A j \in At(c, q) : j = i)
    BY <1>1, <1>6, <2>3, TargetIsFree
  <2> QED
    BY <2>2, <2>4, <2>5, RelocateKeeps
<1> QED
  BY <1>5, <1>6

LEMMA DeleteKeeps ==
  ASSUME NEW d, Good(d), NEW h, NEW gone,
         \A q \in gone : \A r \in Below(q) \ gone : ~Exists(d, r)
  PROVE  Good(Delete(d, h, gone).d)
<1>1. PICK p : p = Path(d, SlotOf(d, h))
  OBVIOUS
<1>2. PICK removed : removed = [d EXCEPT !.fs = RemoveAll(d.fs, gone)]
  OBVIOUS
<1>3. Good(removed)
  <2>1. d.fs \in [Paths -> Kinds] /\ TreeOf(d.fs)
    BY TreeIs DEF Good, Contexts, Kinds
  <2>2. \A q \in gone \intersect Paths : \A r \in Below(q) \ gone : d.fs[r] = "none"
    BY KindIs DEF Exists, Below
  <2>3. RemoveAll(d.fs, gone) \in [Paths -> Kinds] /\ TreeOf(RemoveAll(d.fs, gone))
    BY <2>1, <2>2, RemovedIsTree
  <2> QED
    BY <1>2, <2>3, FilesKeep
<1>4. Good(DropUnder(removed, p))
  BY <1>3, DropUnderKeeps
<1>5. Delete(d, h, gone).d \in {d, removed, DropUnder(removed, p)}
  BY <1>1, <1>2 DEF Delete, Fails, Answer
<1> QED
  BY <1>3, <1>4, <1>5

LEMMA CreateKeeps ==
  ASSUME Good(c), NEW s, NEW parent \in Int, NEW n, NEW kind \in Kinds, MayCreate(s, parent, n, kind)
  PROVE  Good(Create(c, s, parent, n, kind).d)
<1>1. PICK dir : dir = ParentDir(c, s, parent)
  OBVIOUS
<1>2. PICK p : p = Append(dir, n)
  OBVIOUS
<1>3. PICK made : made = IF Exists(c, p) THEN c ELSE [c EXCEPT !.fs[p] = kind]
  OBVIOUS
<1>4. PICK got : got = GetOrCreate(made, p, Normalized(parent))
  OBVIOUS
<1>5. Create(c, s, parent, n, kind).d = IF dir = <<>> \/ ~IsDirectory(c, dir) THEN c
                                        ELSE Create(c, s, parent, n, kind).d
  BY <1>1 DEF Create, Fails, Answer
<1>6. Create(c, s, parent, n, kind).d \in {c, got.d}
  BY <1>1, <1>2, <1>3, <1>4 DEF Create, Fails, Answer
<1>7. ASSUME dir # <<>>, IsDirectory(c, dir) PROVE Good(got.d)
  <2>1. p \in Paths
    BY <1>1, <1>2, <1>7 DEF MayCreate
  <2>2. IsDirectory(c, DirOf(p))
    BY <1>1, <1>2, <1>7, <2>1, ParentDirIs
  <2>3. Good(made)
    <3>1. CASE Exists(c, p)
      BY <1>3, <3>1
    <3>2. CASE ~Exists(c, p)
      <4>1. c.fs \in [Paths -> Kinds] /\ TreeOf(c.fs)
        BY TreeIs DEF Good, Contexts, Kinds
      <4>2. c.fs[p] = "none" /\ (Len(DirOf(p)) = 1 \/ c.fs[DirOf(p)] = "dir")
        BY <2>1, <2>2, <3>2, KindIs DEF Exists
      <4>3. PICK fs \in [Paths -> Kinds] : fs = [c.fs EXCEPT ![p] = kind] /\ TreeOf(fs)
        BY <2>1, <4>1, <4>2, MadeIsTree
      <4>4. made = [c EXCEPT !.fs = fs]
        BY <1>3, <3>2, <4>3
      <4> QED
        BY <4>3, <4>4, FilesKeep
    <3> QED
      BY <3>1, <3>2
  <2> QED
    BY <1>4, <2>1, <2>3, NormalizedIs, GetOrCreateKeeps
<1> QED
  BY <1>5, <1>6, <1>7

LEMMA LookKeeps ==
  ASSUME NEW d, Good(d), NEW h
  PROVE  Good(Look(d, h).d)
<1>1. PICK i : i = SlotOf(d, h)
  OBVIOUS
<1>2. Good(Free(d, {i}))
  BY FreeKeeps
<1>3. i # 0 => Good(Refreshed(d, i))
  BY <1>1, HandleIs, RefreshedKeeps
<1> QED
  BY <1>1, <1>2, <1>3 DEF Look, Fails, Answer

LEMMA AppKeeps ==
  ASSUME Good(c), NEW p \in Paths, AppCreates(p) \/ AppRemoves(p)
  PROVE  Good(c')
<1>1. c.fs \in [Paths -> Kinds] /\ TreeOf(c.fs)
  BY TreeIs DEF Good, Contexts, Kinds
<1>2. CASE AppCreates(p)
  <2>1. PICK kind \in Kinds : c' = [c EXCEPT !.fs[p] = kind]
    BY <1>2 DEF AppCreates, Kinds
  <2>2. c.fs[p] = "none" /\ (Len(DirOf(p)) = 1 \/ c.fs[DirOf(p)] = "dir")
    BY <1>2, KindIs DEF AppCreates, Exists
  <2>3. PICK fs \in [Paths -> Kinds] : fs = [c.fs EXCEPT ![p] = kind] /\ TreeOf(fs)
    BY <1>1, <2>2, MadeIsTree
  <2>4. c' = [c EXCEPT !.fs = fs]
    BY <2>1, <2>3
  <2> QED
    BY <2>3, <2>4, FilesKeep
<1>3. CASE AppRemoves(p)
  <2>1. \A q \in {p} \intersect Paths : \A r \in Below(q) \ {p} : c.fs[r] = "none"
    BY <1>3, KindIs DEF AppRemoves, Exists, Below
  <2>2. PICK fs \in [Paths -> Kinds] : fs = RemoveAll(c.fs, {p}) /\ TreeOf(fs)
    BY <1>1, <2>1, RemovedIsTree
  <2>3. fs = [c.fs EXCEPT ![p] = "none"]
    BY <1>1, <2>2 DEF RemoveAll
  <2>4. c' = [c EXCEPT !.fs = fs]
    BY <1>3, <2>3 DEF AppRemoves
  <2> QED
    BY <2>2, <2>4, FilesKeep
<1> QED
  BY <1>2, <1>3

-----------------------------------------------------------------------------
(* The steps of the system.                                                *)

LEMMA HandlesAreNumbers ==
  ASSUME Good(c)
  PROVE  Parents \subseteq Int /\ Offered \subseteq Int
<1>1. \A i \in Used(c) : c.objects[i].handle \in Int
  <2>1. LastHandle \in Int
    BY ObjectsAssumption
  <2> QED
    BY <2>1, UsedIs
<1> QED
  BY <1>1, RootIs DEF Parents, Offered, KnownHandles, None

LEMMA InitIsGood == Init => Good(c)
<1> SUFFICES ASSUME Init PROVE Good(c)
  OBVIOUS
<1>1. /\ 1 \in 1 .. LastHandle /\ 1 \in 0 .. Generations - 1
  BY ObjectsAssumption
<1>2. /\ c.fs = [p \in Paths |-> "none"] /\ c.objects = [i \in Slots |-> NoObject]
      /\ c \in Contexts
  BY <1>1, NoObjectIs DEF Init, Contexts
<1>3. Used(c) = {}
  BY <1>2, NoObjectIs DEF Used, None
<1>4. TreeOf(c.fs)
  BY <1>2 DEF TreeOf
<1> QED
  BY <1>2, <1>3, <1>4, TreeIs DEF Good, Handles, OwnPaths

LEMMA DeletedTree ==
  ASSUME Good(c), DeleteObject
  PROVE  Good(c')
<1>1. PICK h \in Offered :
        LET p == IF h = None THEN <<>> ELSE Path(c, SlotOf(c, h))
            tree == {q \in Paths : h # None /\ IsPrefix(p, q)}
        IN \E gone \in {tree} \union SUBSET {q \in tree \ {p} : Exists(c, q)} :
             /\ \A q \in gone : \A r \in Below(q) \ gone : ~Exists(c, r)
             /\ Host("Delete", Delete(c, h, gone))
  BY DEF DeleteObject
<1>2. PICK gone : /\ \A q \in gone : \A r \in Below(q) \ gone : ~Exists(c, r)
                  /\ Host("Delete", Delete(c, h, gone))
  BY <1>1
<1> QED
  BY <1>2, DeleteKeeps DEF Host

LEMMA StepIsGood == Good(c) /\ [Next]_c => Good(c')
<1> SUFFICES ASSUME Good(c), [Next]_c PROVE Good(c')
  OBVIOUS
<1>1. CASE GetObjectHandles
  BY <1>1, HandlesAreNumbers, ScanRequestKeeps DEF GetObjectHandles, Host
<1>2. CASE GetNumObjects
  BY <1>2, HandlesAreNumbers, ScanRequestKeeps DEF GetNumObjects, Host
<1>3. CASE GetObjectPropList
  BY <1>3, HandlesAreNumbers, RootIs, GetPropListKeeps DEF GetObjectPropList, Host
<1>4. CASE RenameObject
  BY <1>4, RenameKeeps DEF RenameObject, Host
<1>5. CASE MoveObject
  BY <1>5, HandlesAreNumbers, MoveKeeps DEF MoveObject, Host
<1>6. CASE DeleteObject
  BY <1>6, DeletedTree
<1>7. CASE CreateObject
  BY <1>7, HandlesAreNumbers, CreateKeeps DEF CreateObject, Host, Kinds
<1>8. CASE LookAtObject
  BY <1>8, LookKeeps DEF LookAtObject, Host
<1>9. CASE \E p \in Paths : AppCreates(p) \/ AppRemoves(p)
  BY <1>9, AppKeeps
<1>10. CASE UNCHANGED c
  BY <1>10
<1> QED
  BY <1>1, <1>2, <1>3, <1>4, <1>5, <1>6, <1>7, <1>8, <1>9, <1>10 DEF Next

(* Every context the component reaches is good.                            *)
LEMMA AlwaysGood == Spec => []Good(c)
<1>1. Init => Good(c)
  BY InitIsGood
<1>2. Good(c) /\ [Next]_c => Good(c)'
  BY StepIsGood
<1> QED
  BY <1>1, <1>2, PTL DEF Spec

-----------------------------------------------------------------------------
(* What a good context holds.                                              *)

LEMMA GoodIsTyped == Good(c) => TypeOK
<1> SUFFICES ASSUME Good(c) PROVE TypeOK
  OBVIOUS
<1>1. \A i \in Slots : c.objects[i].handle \in 0 .. LastHandle
  BY DEF Good, Contexts, Objects
<1>2. c.fs \in [Paths -> {"none", "file", "dir"}] /\ c.next \in 1 .. LastHandle
      /\ c.generation \in 0 .. Generations - 1
  BY DEF Good, Contexts
<1> QED
  BY <1>1, <1>2 DEF TypeOK, Good, Tree, Handles

LEMMA GoodForgets ==
  ASSUME Good(c), ~StaleTargets
  PROVE  DeletedIsForgotten
<1> SUFFICES ASSUME NEW i \in Used(c), NEW j,
                    LET r == Delete(c, c.objects[i].handle, Below(Path(c, i)))
                    IN r.code = "OK" /\ j \in Used(r.d) /\ IsPrefix(Path(c, i), Path(r.d, j))
             PROVE  FALSE
  BY DEF DeletedIsForgotten
<1>1. PICK p \in Paths : p = Path(c, i)
  BY UsedIs DEF Path
<1>2. PICK h : h = c.objects[i].handle
  OBVIOUS
<1>3. SlotOf(c, h) = i
  BY <1>2, SlotIs, UsedIs DEF Good, Handles
<1>4. PICK removed : removed = [c EXCEPT !.fs = RemoveAll(c.fs, Below(p))]
  OBVIOUS
<1>5. PICK r : r = Delete(c, h, Below(p))
  OBVIOUS
<1>6. r.code = "OK" /\ j \in Used(r.d) /\ IsPrefix(p, Path(r.d, j))
  BY <1>1, <1>2, <1>5
<1>7. r.d = DropUnder(removed, p)
  BY <1>1, <1>3, <1>4, <1>5, <1>6 DEF Delete, Fails, Answer
<1>8. Good(removed) /\ removed.objects = c.objects /\ Used(removed) = Used(c)
  <2>1. c.fs \in [Paths -> Kinds] /\ TreeOf(c.fs)
    BY TreeIs DEF Good, Contexts, Kinds
  <2>2. ASSUME NEW q \in Below(p) \intersect Paths, NEW x \in Below(q) \ Below(p) PROVE FALSE
    <3>1. q \in Paths /\ x \in Paths /\ IsPrefix(p, q) /\ IsPrefix(q, x) /\ ~IsPrefix(p, x)
      BY <2>2 DEF Below
    <3>2. /\ p \in Seq(Components) /\ q \in Seq(Components) /\ x \in Seq(Components)
          /\ Len(p) \in Nat /\ Len(q) \in Nat /\ Len(x) \in Nat
      BY <3>1, PathIs
    <3>3. Len(p) <= Len(q) /\ Len(q) <= Len(x) /\ (\A k \in 1 .. Len(p) : p[k] = q[k])
          /\ \A k \in 1 .. Len(q) : q[k] = x[k]
      BY <3>1, <3>2, PrefixIs
    <3>4. \A k \in 1 .. Len(p) : p[k] = x[k]
      BY <3>2, <3>3
    <3> QED
      BY <3>1, <3>2, <3>3, <3>4, PrefixIs
  <2>3. RemoveAll(c.fs, Below(p)) \in [Paths -> Kinds] /\ TreeOf(RemoveAll(c.fs, Below(p)))
    BY <2>1, <2>2, RemovedIsTree
  <2> QED
    BY <1>4, <2>3, FilesKeep
<1>9. /\ j \in Used(c) \ {First(At(removed, p))} /\ Path(r.d, j) = Path(c, j)
      /\ ~IsStrictPrefix(p, Path(c, j))
  BY <1>6, <1>7, <1>8, DropUnderKeeps DEF Path
<1>10. First(At(removed, p)) = i
  <2>1. At(removed, p) = {i}
    BY <1>1, <1>8 DEF At, Path, Good, OwnPaths
  <2>2. i \in Slots
    BY UsedIs
  <2> QED
    BY <2>1, <2>2, FirstIs
<1>11. Path(c, j) = p
  BY <1>6, <1>9 DEF IsStrictPrefix
<1> QED
  BY <1>1, <1>9, <1>10, <1>11 DEF Good, OwnPaths

(* The table is sound by itself (ObjectsInv): the files are a tree, no two *)
(* objects share a handle or a path, also when the table was full and      *)
(* reclaimed and when the handle counter has gone round, and a deletion    *)
(* answered OK leaves no object of the deleted tree (mtp_next_handle,      *)
(* mtp_get_or_create_object_locked, mtp_op_delete_object). A host that     *)
(* renames onto the path of a stale object is excluded.                    *)
THEOREM TableIsSound == ~StaleTargets => (Spec => []ObjectsInv)
<1> SUFFICES ASSUME ~StaleTargets PROVE Spec => []ObjectsInv
  OBVIOUS
<1>1. Good(c) => OneHandleOnePath
  BY DEF Good, Handles, OwnPaths, OneHandleOnePath
<1>2. Good(c) => ObjectsInv
  BY <1>1, GoodIsTyped, GoodForgets DEF ObjectsInv
<1> QED
  BY <1>2, AlwaysGood, PTL

(* Whatever the host renames, a handle stands for one object: no listing,  *)
(* reclaim or wrap of the counter gives one out twice (mtp_next_handle).   *)
THEOREM HandlesAreUnique == Spec => [](TypeOK /\ Handles(c))
<1>1. Good(c) => TypeOK /\ Handles(c)
  BY GoodIsTyped DEF Good
<1> QED
  BY <1>1, AlwaysGood, PTL

=============================================================================
