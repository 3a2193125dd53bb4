------------------------- MODULE PolicyMachineProofs -------------------------
(***************************************************************************)
(* Theorems about one PolicyCache under an arbitrary sequence of get, put  *)
(* and clear, for every capacity and all sets of keys and values: the type *)
(* invariant, the bounds on ARC's four lists, the coherence of LFU's maps, *)
(* the capacity itself, that each policy is a bounded cache, and which     *)
(* entry each policy gives up.                                             *)
(***************************************************************************)
EXTENDS PolicyHistory, PolicyCacheLemmas

\* replace reports whether it demoted an entry.
LEMMA ReplaceReports ==
  ASSUME NEW a, NEW x
  PROVE  Replace(a, x).evicted \in BOOLEAN
<1>1. CASE ReplacesT1(a, x)
  BY <1>1 DEF Replace, PutResult
<1>2. CASE ~ ReplacesT1(a, x) /\ a.t2 # <<>>
  BY <1>2 DEF Replace, PutResult
<1>3. CASE ~ ReplacesT1(a, x) /\ a.t2 = <<>>
  BY <1>3 DEF Replace, PutResult
<1> QED BY <1>1, <1>2, <1>3

\* So does whatever a total miss does to make room.
LEMMA ArcMakeRoomReports ==
  ASSUME NEW S, NEW B, NEW a, ArcShape(a, S, B)
  PROVE  ArcMakeRoom(a).evicted \in BOOLEAN
<1> DEFINE r == ArcMakeRoom(a)
           full == Size(a.t1) + Size(a.b1) = a.capacity
           over == Size(a.t1) >= a.capacity
           rich == ArcTotal(a) >= a.capacity
<1>1. (over <=> ~ (Size(a.t1) < a.capacity)) /\ (rich <=> ~ (ArcTotal(a) < a.capacity))
  BY ArcLens DEF ArcTotal
<1>2. \A n, x : Replace(n, x).evicted \in BOOLEAN
  BY ReplaceReports
<1>3. CASE full /\ ~ over
  BY <1>1, <1>2, <1>3 DEF ArcMakeRoom
<1>4. CASE full /\ over
  BY <1>1, <1>4 DEF ArcMakeRoom, PutResult
<1>5. CASE ~ full /\ ~ rich
  BY <1>1, <1>5 DEF ArcMakeRoom, PutResult
<1>6. CASE ~ full /\ rich
  BY <1>1, <1>2, <1>6 DEF ArcMakeRoom
<1> QED BY <1>3, <1>4, <1>5, <1>6

\* put returns whether a live entry was discarded.
LEMMA PutReports ==
  ASSUME NEW K, NEW V, NEW c, PolicyType(c, K, V), NEW k, NEW v
  PROVE  PolicyPut(c, k, v).evicted \in BOOLEAN
<1> DEFINE r == PolicyPut(c, k, v)
<1> SUFFICES r.evicted \in BOOLEAN
  OBVIOUS
<1> HIDE DEF r
<1>1. CASE c.kind = "Recency"
  <2>1. r = RecencyPut(c, k, v) /\ c.capacity \in Nat
    BY <1>1, PolicyKinds DEF r, PolicyPut, RecencyType
  <2>2. c.capacity > 0 <=> ~ (c.capacity = 0)
    BY <2>1
  <2>3. c.capacity = 0 \/ c.capacity > 0
    BY <2>1
  <2>4. CASE c.capacity = 0
    BY <2>1, <2>2, <2>4 DEF RecencyPut, PutResult
  <2>5. CASE c.capacity > 0 /\ Holds(c.map, k)
    BY <2>1, <2>2, <2>5 DEF RecencyPut, PutResult
  <2>6. CASE c.capacity > 0 /\ ~ Holds(c.map, k)
    <3>1. r = RecencyAdmit(c, k, v)
      BY <2>1, <2>2, <2>6 DEF RecencyPut
    <3> QED BY <3>1 DEF RecencyAdmit, PutResult
  <2> QED BY <2>3, <2>4, <2>5, <2>6
<1>2. CASE c.kind = "Lfu"
  <2>1. LfuType(c, K, V)
    BY <1>2, PolicyKinds
  <2>2. r = LfuPut(c, k, v) /\ c.capacity \in Nat
    BY <1>2, <2>1, LfuTypeFields DEF r, PolicyPut
  <2>3. c.capacity > 0 <=> ~ (c.capacity = 0)
    BY <2>2
  <2>4. c.capacity = 0 \/ c.capacity > 0
    BY <2>2
  <2>5. CASE c.capacity = 0
    BY <2>2, <2>3, <2>5 DEF LfuPut, PutResult
  <2>6. CASE c.capacity > 0 /\ k \in DOMAIN c.values
    BY <2>2, <2>3, <2>6 DEF LfuPut, PutResult
  <2>7. CASE c.capacity > 0 /\ k \notin DOMAIN c.values
    <3>1. LfuMustEvict(c) \in BOOLEAN
      BY DEF LfuMustEvict
    <3>2. r.evicted = LfuMustEvict(c)
      BY <2>2, <2>3, <2>7 DEF LfuPut, PutResult
    <3> QED BY <3>1, <3>2
  <2> QED BY <2>4, <2>5, <2>6, <2>7
<1>3. CASE c.kind = "Arc"
  <2> DEFINE S == [key: K, val: V]
             B == [key: K, val: {Unit}]
  <2>1. ArcShape(c, S, B) /\ r = ArcPut(c, k, v)
    BY <1>3, PolicyKinds, ArcTypeShape DEF r, PolicyPut
  <2> HIDE DEF S, B
  <2>2. c.capacity > 0 <=> ~ (c.capacity = 0)
    BY <2>1, ArcLens
  <2>3. c.capacity = 0 \/ c.capacity > 0
    BY <2>1, ArcLens
  <2>4. CASE c.capacity = 0
    BY <2>1, <2>2, <2>4 DEF ArcPut, PutResult
  <2>5. CASE c.capacity > 0 /\ Holds(c.b1, k)
    <3>1. r = ArcHitB1(c, k, v)
      BY <2>1, <2>2, <2>5 DEF ArcPut
    <3> QED BY <3>1, ReplaceReports DEF ArcHitB1, PutResult
  <2>6. CASE c.capacity > 0 /\ ~ Holds(c.b1, k) /\ Holds(c.b2, k)
    <3>1. r = ArcHitB2(c, k, v)
      BY <2>1, <2>2, <2>6 DEF ArcPut
    <3> QED BY <3>1, ReplaceReports DEF ArcHitB2, PutResult
  <2>7. CASE c.capacity > 0 /\ ~ Holds(c.b1, k) /\ ~ Holds(c.b2, k)
    <3>1. r = ArcMiss(c, k, v)
      BY <2>1, <2>2, <2>7 DEF ArcPut
    <3> QED BY <2>1, <3>1, ArcMakeRoomReports DEF ArcMiss, PutResult
  <2> QED BY <2>3, <2>4, <2>5, <2>6, <2>7
<1> QED BY <1>1, <1>2, <1>3, PolicyKinds

-----------------------------------------------------------------------------
\* The inductive invariant.  The bounds alone are not one, since they say
\* nothing of p, which decides what replace demotes; nor is the coherence of
\* the LFU maps, which needs that frequencies start at 1.
IInv == TypeOK /\ PolicySound(cache)

\* What an operation returns has the type of out.
LEMMA ReturnedType ==
  ASSUME NEW f \in SUBSET Vals, NEW e \in BOOLEAN
  PROVE  Returned(f, e) \in [found: SUBSET Vals, evicted: BOOLEAN]
BY DEF Returned

\* The invariant after a step, from what the step leaves.
LEMMA IInvNext ==
  ASSUME PolicyType(cache', Keys, Vals), PolicySound(cache'),
         out' \in [found: SUBSET Vals, evicted: BOOLEAN]
  PROVE  IInv'
BY DEF IInv, TypeOK, PolicySound, LfuSound, Grouped, LowestAt, KeysAt, KeysOf, Bucket

\* A fresh structure satisfies the invariant.
LEMMA InitIInv == Init => IInv
<1> SUFFICES ASSUME Init PROVE IInv
  OBVIOUS
<1>1. PICK p \in Policies, c \in Capacities : cache = PolicyNew(p, c)
  BY DEF Init
<1>2. p \in EvictionPolicy /\ c \in Nat
  BY MachineAssumption
<1>3. PolicyType(cache, Keys, Vals) /\ PolicySound(cache)
  BY <1>1, <1>2, PolicyNewSpec, PolicyNewSound
<1>4. out \in [found: SUBSET Vals, evicted: BOOLEAN]
  BY ReturnedType DEF Init
<1> QED BY <1>3, <1>4 DEF IInv, TypeOK

\* Every operation keeps it.
LEMMA NextIInv == IInv /\ [Next]_vars => IInv'
<1> SUFFICES ASSUME IInv, [Next]_vars PROVE IInv'
  OBVIOUS
<1>1. /\ PolicyType(cache, Keys, Vals) /\ PolicySound(cache)
      /\ out \in [found: SUBSET Vals, evicted: BOOLEAN]
  BY DEF IInv, TypeOK
<1>2. ASSUME NEW k \in Keys, Get(k) PROVE IInv'
  <2> DEFINE r == PolicyGet(cache, k)
             q == r.cache
  <2>1. cache' = q /\ out' = Returned(r.found, FALSE)
    BY <1>2 DEF Get
  <2>2. /\ PolicyType(q, Keys, Vals)
        /\ \A v \in r.found : Entry(k, v) \in Entries(cache)
    BY <1>1, PolicyGetSpec DEF Keeps
  <2>3. PolicySound(q)
    BY <1>1, PolicyGetSound
  <2> HIDE DEF r
  <2>4. r.found \subseteq Vals
    <3>1. Entries(cache) \subseteq [key: Keys, val: Vals]
      BY <1>1, EntriesTyped
    <3>2. \A v \in r.found : Entry(k, v).val \in Vals
      BY <2>2, <3>1
    <3> QED BY <3>2, KeyOfEntry
  <2>5. out' \in [found: SUBSET Vals, evicted: BOOLEAN]
    BY <2>1, <2>4, ReturnedType
  <2> QED BY <2>1, <2>2, <2>3, <2>5, IInvNext
<1>3. ASSUME NEW k \in Keys, NEW v \in Vals, Put(k, v) PROVE IInv'
  <2> DEFINE r == PolicyPut(cache, k, v)
  <2>1. cache' = r.cache /\ out' = Returned({}, r.evicted)
    BY <1>3 DEF Put
  <2>2. PolicyType(r.cache, Keys, Vals)
    BY <1>1, PolicyPutSpec DEF Keeps
  <2>3. r.evicted \in BOOLEAN
    BY <1>1, PutReports
  <2>4. PolicySound(r.cache)
    BY <1>1, PolicyPutSound
  <2> HIDE DEF r
  <2>5. out' \in [found: SUBSET Vals, evicted: BOOLEAN]
    BY <2>1, <2>3, ReturnedType
  <2> QED BY <2>1, <2>2, <2>4, <2>5, IInvNext
<1>4. ASSUME Clear PROVE IInv'
  <2>1. PolicyType(cache', Keys, Vals) /\ PolicySound(cache')
    BY <1>1, <1>4, PolicyClearSpec, PolicyClearSound DEF Keeps, Clear
  <2>2. out' \in [found: SUBSET Vals, evicted: BOOLEAN]
    BY <1>4, ReturnedType DEF Clear
  <2> QED BY <2>1, <2>2, IInvNext
<1>5. ASSUME UNCHANGED vars PROVE IInv'
  <2>1. cache' = cache /\ out' = out
    BY <1>5 DEF vars
  <2> QED BY <1>1, <2>1, IInvNext
<1> QED BY <1>2, <1>3, <1>4, <1>5 DEF Next

\* In every behaviour the structures keep their types: no list ever holds a
\* key twice, whatever is put, and ARC's p stays within 0..c
\* (src/policy.rs:47-361, src/ordered.rs:96-212).
THEOREM TypeCorrect == Spec => []TypeOK
<1>1. IInv => TypeOK
  BY DEF IInv
<1> QED BY <1>1, InitIInv, NextIInv, PTL DEF Spec

\* In every behaviour ARC's live lists hold at most c entries, t1 with its
\* ghosts at most c and all four lists at most 2c, puts of keys that are still
\* live included (src/policy.rs:226-295).
THEOREM ArcMemoryBounded == Spec => []ArcBounded
<1>1. IInv => ArcBounded
  BY DEF IInv, ArcBounded, PolicySound
<1> QED BY <1>1, InitIInv, NextIInv, PTL DEF Spec

\* In every behaviour LFU's buckets group exactly the live keys by frequency,
\* none is empty, and min_freq names the lowest: the eviction that a full
\* cache makes always finds its victim (src/policy.rs:93-176).
THEOREM LfuStaysCoherent == Spec => []LfuConsistent
<1>1. IInv => LfuConsistent
  BY SoundWithinCapacity DEF IInv, TypeOK, LfuConsistent
<1> QED BY <1>1, InitIInv, NextIInv, PTL DEF Spec

\* In every behaviour no policy holds more live entries than its capacity
\* (src/policy.rs:341-342 with 52-68, 149-166 and 226-295).
THEOREM WithinCapacity == Spec => [](PolicyLen(cache) <= cache.capacity)
<1>1. IInv => PolicyLen(cache) <= cache.capacity
  BY SoundWithinCapacity DEF IInv, TypeOK
<1> QED BY <1>1, InitIInv, NextIInv, PTL DEF Spec
-----------------------------------------------------------------------------
\* ARC's lists under a disciplined caller.

\* The live keys of an ARC cache are those of t1 and t2.
LEMMA ArcLiveKeys ==
  ASSUME NEW c, c.kind = "Arc"
  PROVE  LiveOf(c) \subseteq LiveKeys(c)
<1>1. Entries(c) = ArcEntries(c)
  BY DEF Entries
<1>2. ArcEntries(c) = ToSet(c.t1) \cup ToSet(c.t2)
  BY DEF ArcEntries
<1>3. \A m : KeysOf(m) = {e.key : e \in ToSet(m)}
  BY DEF KeysOf, ToSet
<1> QED BY <1>1, <1>2, <1>3 DEF LiveOf, LiveKeys

\* The four lists are apart when no live key is ever put.
Apart == "Arc" \in Disciplined => ArcPartition

\* A fresh structure has them apart.
LEMMA InitApart == Init => Apart
<1> SUFFICES ASSUME Init, cache.kind = "Arc" PROVE ArcApart(cache)
  BY DEF Apart, ArcPartition
<1>1. PICK p \in Policies, c \in Capacities : cache = PolicyNew(p, c)
  BY DEF Init
<1>2. p \in {"Lru", "Lfu", "Arc", "Fifo"}
  BY MachineAssumption DEF EvictionPolicy
<1>3. CASE p = "Arc"
  <2>1. cache = ArcNew(c)
    BY <1>1, <1>3 DEF PolicyNew
  <2> QED BY <2>1, ArcEmptyApart
<1>4. CASE p = "Lru" \/ p = "Fifo"
  <2>1. PICK b \in BOOLEAN : cache = RecencyNew(c, b)
    BY <1>1, <1>4 DEF PolicyNew
  <2> QED BY <2>1 DEF RecencyNew
<1>5. CASE p = "Lfu"
  <2>1. cache = LfuCache(<<>>, <<>>, 0, c)
    BY <1>1, <1>5 DEF PolicyNew, LfuNew
  <2> QED BY <2>1, LfuCacheFields
<1> QED BY <1>2, <1>3, <1>4, <1>5

\* Every operation keeps them apart.
LEMMA NextApart == IInv /\ Apart /\ [Next]_vars => Apart'
<1> DEFINE S == [key: Keys, val: Vals]
           B == [key: Keys, val: {Unit}]
<1> SUFFICES ASSUME IInv, Apart, [Next]_vars, "Arc" \in Disciplined, cache'.kind = "Arc"
             PROVE  ArcApart(cache')
  BY DEF Apart, ArcPartition
<1>1. PolicyType(cache, Keys, Vals) /\ PolicySound(cache)
  BY DEF IInv, TypeOK
<1>2. cache'.kind = cache.kind
  <2>1. ASSUME NEW k \in Keys, Get(k) PROVE cache'.kind = cache.kind
    BY <1>1, <2>1, PolicyGetSpec DEF Get, Keeps
  <2>2. ASSUME NEW k \in Keys, NEW v \in Vals, Put(k, v) PROVE cache'.kind = cache.kind
    BY <1>1, <2>2, PolicyPutSpec DEF Put, Keeps
  <2>3. ASSUME Clear PROVE cache'.kind = cache.kind
    BY <1>1, <2>3, PolicyClearSpec DEF Clear, Keeps
  <2> QED BY <2>1, <2>2, <2>3 DEF Next, vars
<1>3. cache.kind = "Arc" /\ ArcApart(cache)
  BY <1>2 DEF Apart, ArcPartition
<1>4. /\ ArcShape(cache, S, B) /\ GhostsOf(S, B) /\ ArcBounds(cache)
  BY <1>1, <1>3, PolicyKinds, ArcTypeShape DEF PolicySound
<1>5. ASSUME NEW k \in Keys, Get(k) PROVE ArcApart(cache')
  <2>1. cache' = ArcGet(cache, k).cache
    BY <1>3, <1>5 DEF Get, PolicyGet
  <2> HIDE DEF S, B
  <2> QED BY <1>3, <1>4, <2>1, ArcGetApart
<1>6. ASSUME NEW k \in Keys, NEW v \in Vals, Put(k, v) PROVE ArcApart(cache')
  <2>1. cache' = ArcPut(cache, k, v).cache
    BY <1>3, <1>6 DEF Put, PolicyPut
  <2>2. k \notin LiveOf(cache)
    BY <1>3, <1>6, ArcLiveKeys DEF Put
  <2>3. Entry(k, v) \in S
    BY DEF Entry
  <2> HIDE DEF S, B
  <2> QED BY <1>3, <1>4, <2>1, <2>2, <2>3, ArcPutApart
<1>7. ASSUME Clear PROVE ArcApart(cache')
  <2>1. cache' = ArcClear(cache)
    BY <1>3, <1>7 DEF Clear, PolicyClear
  <2> HIDE DEF S, B
  <2> QED BY <1>4, <2>1, ArcClearSpec, ArcEmptyApart
<1>8. ASSUME UNCHANGED vars PROVE ArcApart(cache')
  BY <1>3, <1>8 DEF vars
<1> QED BY <1>5, <1>6, <1>7, <1>8 DEF Next

\* In every behaviour in which only keys that are not live are put into an ARC
\* cache, no key is on two of the four lists, and a ghost is remembered only
\* beside a full cache: replace is never run while there is room
\* (src/policy.rs:190-192, 226-295).  arc_refresh shows the premise is needed.
THEOREM DisciplinedArcPartition == Spec => []("Arc" \in Disciplined => ArcPartition)
<1>1. Apart => ("Arc" \in Disciplined => ArcPartition)
  BY DEF Apart
<1> QED BY <1>1, InitIInv, NextIInv, InitApart, NextApart, PTL DEF Spec

-----------------------------------------------------------------------------
\* The policies implement BoundedCache.

\* The map a set of entries stands for.
MapOf(E) == [k \in {e.key : e \in E} |-> (CHOOSE e \in E : e.key = k).val]

\* It is what StoreOf makes of a cache.
LEMMA StoreIsMap ==
  ASSUME NEW c
  PROVE  StoreOf(c) = MapOf(Entries(c)) /\ DOMAIN StoreOf(c) = LiveKeys(c)
BY DEF StoreOf, MapOf, LiveKeys

\* It gives each key the value of its entry.
LEMMA MapReads ==
  ASSUME NEW E, OneValueEach(E), NEW e \in E
  PROVE  MapOf(E)[e.key] = e.val
<1> DEFINE f == CHOOSE g \in E : g.key = e.key
<1>1. f \in E /\ f.key = e.key
  OBVIOUS
<1>2. MapOf(E)[e.key] = f.val
  BY DEF MapOf
<1> HIDE DEF f
<1>3. f = e
  BY <1>1 DEF OneValueEach
<1> QED BY <1>2, <1>3

\* Of no entries it is the empty map.
LEMMA MapOfNone == MapOf({}) = <<>>
<1>1. MapOf({}) = [k \in {} |-> (CHOOSE e \in {} : e.key = k).val]
  BY DEF MapOf
<1>2. DOMAIN MapOf({}) = {} /\ DOMAIN <<>> = {}
  BY <1>1
<1> QED BY <1>1, <1>2

\* The map of E restricted to the keys kept, with v under k.
MapWith(E, kept, k, v) == [j \in kept \cup {k} |-> IF j = k THEN v ELSE MapOf(E)[j]]

\* The map after v was stored under k, no entry but its own being new.
LEMMA MapAfterPut ==
  ASSUME NEW E, OneValueEach(E), NEW F, OneValueEach(F), NEW k, NEW v,
         Entry(k, v) \in F, F \subseteq E \cup {Entry(k, v)},
         NEW kept, {e.key : e \in F} = kept \cup {k}
  PROVE  MapOf(F) = MapWith(E, kept, k, v)
<1> DEFINE after == [j \in kept \cup {k} |-> IF j = k THEN v ELSE MapOf(E)[j]]
<1>1. Entry(k, v).key = k /\ Entry(k, v).val = v
  BY KeyOfEntry
<1>2. ASSUME NEW j \in kept \cup {k} PROVE MapOf(F)[j] = after[j]
  <2>1. PICK e \in F : e.key = j
    BY <1>2
  <2>2. MapOf(F)[j] = e.val
    BY <2>1, MapReads
  <2>3. CASE j = k
    <3>1. e = Entry(k, v)
      BY <1>1, <2>1, <2>3 DEF OneValueEach
    <3> QED BY <1>1, <2>2, <2>3, <3>1
  <2>4. CASE j # k
    <3>1. e \in E
      BY <1>1, <2>1, <2>4
    <3>2. MapOf(E)[j] = e.val
      BY <2>1, <3>1, MapReads
    <3> QED BY <2>2, <2>4, <3>2
  <2> QED BY <2>3, <2>4
<1>3. DOMAIN MapOf(F) = kept \cup {k} /\ DOMAIN after = kept \cup {k}
  BY DEF MapOf
<1>4. MapOf(F) = [j \in DOMAIN MapOf(F) |-> MapOf(F)[j]]
  BY DEF MapOf
<1>5. after = [j \in DOMAIN after |-> after[j]]
  OBVIOUS
<1> HIDE DEF after
<1>6. MapOf(F) = after
  BY <1>2, <1>3, <1>4, <1>5
<1> QED BY <1>6 DEF after, MapWith

\* No live key is put into an ARC cache, because no behaviour has one or
\* because its caller is disciplined.
ArcIsSpared == "Arc" \in Disciplined \/ "Arc" \notin Policies

\* A behaviour that started without ARC has none.
ArcIsChosen == cache.kind = "Arc" => "Arc" \in Policies

\* A structure is of the kind the policy asked for.
LEMMA InitArcIsChosen == Init => ArcIsChosen
<1> SUFFICES ASSUME Init, cache.kind = "Arc" PROVE "Arc" \in Policies
  BY DEF ArcIsChosen
<1>1. PICK p \in Policies, c \in Capacities : cache = PolicyNew(p, c)
  BY DEF Init
<1>2. p \in EvictionPolicy
  BY MachineAssumption
<1>3. p = "Arc"
  BY <1>1, <1>2, PolicyNewKind
<1> QED BY <1>1, <1>3

\* No operation changes it, or the capacity.
LEMMA StepKeeps ==
  ASSUME IInv, [Next]_vars
  PROVE  cache'.kind = cache.kind /\ cache'.capacity = cache.capacity
<1>1. PolicyType(cache, Keys, Vals)
  BY DEF IInv, TypeOK
<1>2. ASSUME NEW k \in Keys, Get(k) PROVE Keeps(cache, cache', Keys, Vals)
  BY <1>1, <1>2, PolicyGetSpec DEF Get
<1>3. ASSUME NEW k \in Keys, NEW v \in Vals, Put(k, v) PROVE Keeps(cache, cache', Keys, Vals)
  BY <1>1, <1>3, PolicyPutSpec DEF Put
<1>4. ASSUME Clear PROVE Keeps(cache, cache', Keys, Vals)
  BY <1>1, <1>4, PolicyClearSpec DEF Clear
<1> QED BY <1>2, <1>3, <1>4 DEF Next, vars, Keeps

\* The state in which a step of the machine is one of BoundedCache.
Ready == PolicyType(cache, Keys, Vals) /\ InOrder(cache)

\* The invariants provide it if ARC is spared.
LEMMA AlwaysReady ==
  ASSUME IInv, Apart, ArcIsChosen, ArcIsSpared
  PROVE  Ready
BY DEF Ready, IInv, TypeOK, Apart, ArcIsChosen, ArcIsSpared, ArcPartition, InOrder

\* BoundedCache counts as this module does.
LEMMA BoundedCardinality ==
  ASSUME NEW S
  PROVE  Bounded!Cardinality(S) = Cardinality(S)
BY DEF Bounded!Cardinality, Cardinality

\* A structure starts as the empty map.
LEMMA BoundedInit == Init => Bounded!BInit
<1> SUFFICES ASSUME Init PROVE Bounded!BInit
  OBVIOUS
<1>1. PICK p \in Policies, n \in Capacities : cache = PolicyNew(p, n)
  BY DEF Init
<1>2. p \in EvictionPolicy /\ n \in Nat
  BY MachineAssumption
<1>3. cache.capacity = n /\ Entries(cache) = {}
  BY <1>1, <1>2, PolicyNewSpec
<1>4. StoreOf(cache) = <<>>
  BY <1>3, StoreIsMap, MapOfNone
<1> QED BY <1>3, <1>4 DEF Init, Returned, Bounded!BInit

\* A get reads the map and leaves it.
LEMMA BoundedGet ==
  ASSUME Ready, NEW k \in Keys, Get(k), cache'.capacity = cache.capacity
  PROVE  Bounded!BGet(k)
<1> DEFINE r == PolicyGet(cache, k)
           found == IF k \in DOMAIN StoreOf(cache) THEN {StoreOf(cache)[k]} ELSE {}
<1>1. cache' = r.cache /\ out' = Returned(r.found, FALSE)
  BY DEF Get
<1>2. /\ Entries(r.cache) = Entries(cache)
      /\ k \in LiveKeys(cache) => \E v : r.found = {v} /\ Entry(k, v) \in Entries(cache)
      /\ k \notin LiveKeys(cache) => r.found = {}
  BY PolicyGetExact DEF Ready
<1> HIDE DEF r
<1>3. StoreOf(cache') = StoreOf(cache)
  BY <1>1, <1>2, StoreIsMap
<1>4. ASSUME k \in LiveKeys(cache) PROVE r.found = {StoreOf(cache)[k]}
  <2>1. PICK v : r.found = {v} /\ Entry(k, v) \in Entries(cache)
    BY <1>2, <1>4
  <2>2. OneValueEach(Entries(cache))
    BY LiveCount DEF Ready
  <2>3. MapOf(Entries(cache))[Entry(k, v).key] = Entry(k, v).val
    BY <2>1, <2>2, MapReads
  <2> QED BY <2>1, <2>3, KeyOfEntry, StoreIsMap
<1>5. r.found = found
  BY <1>2, <1>4, StoreIsMap
<1> HIDE DEF found
<1>6. out' = [found |-> found, evicted |-> FALSE]
  BY <1>1, <1>5 DEF Returned
<1> QED BY <1>3, <1>6 DEF Bounded!BGet, found

\* A put that is not disabled stores its value, in place, beside the others or
\* in place of one of them.
LEMMA BoundedPut ==
  ASSUME Ready, Ready', ArcIsSpared, ArcIsChosen,
         NEW k \in Keys, NEW v \in Vals, Put(k, v), cache'.capacity = cache.capacity
  PROVE  Bounded!BPutDisabled(k, v) \/ Bounded!BPutWithRoom(k, v) \/ Bounded!BPutWhenFull(k, v)
<1> DEFINE r == PolicyPut(cache, k, v)
           q == cache'
           n == PolicyLen(cache)
<1>1. q = r.cache /\ out' = Returned({}, r.evicted)
  BY DEF Put
<1>2. PolicyType(cache, Keys, Vals) /\ InOrder(cache)
  BY DEF Ready
<1>3. PolicyType(q, Keys, Vals) /\ InOrder(q)
  BY DEF Ready, InOrder, PolicySound, LfuSound, Grouped, LowestAt, KeysAt, KeysOf, Bucket,
         ArcApart, ArcBounds
<1>4. /\ OneValueEach(Entries(cache)) /\ Cardinality(LiveKeys(cache)) = n
      /\ OneValueEach(Entries(q))
  BY <1>2, <1>3, LiveCount
<1>5. n \in Nat /\ n <= cache.capacity /\ cache.capacity \in Nat
  BY <1>2, SoundWithinCapacity DEF InOrder
<1>6. Entries(q) \subseteq Entries(cache) \cup {Entry(k, v)}
  BY <1>1, <1>2, PolicyPutSpec
<1>7. cache.kind = "Arc" => k \notin LiveKeys(cache)
  BY DEF Put, ArcIsSpared, ArcIsChosen
<1>8. DOMAIN StoreOf(cache) = LiveKeys(cache)
  BY StoreIsMap
<1> HIDE DEF r, n
<1>9. CASE cache.capacity = 0
  <2>1. q = cache /\ r.evicted = FALSE
    <3>1. PolicyPut(cache, k, v).cache = cache /\ PolicyPut(cache, k, v).evicted = FALSE
      <4>1. CASE cache.kind = "Recency"
        BY <1>9, <4>1 DEF PolicyPut, RecencyPut, PutResult
      <4>2. CASE cache.kind = "Lfu"
        BY <1>9, <4>2 DEF PolicyPut, LfuPut, PutResult
      <4>3. CASE cache.kind = "Arc"
        BY <1>9, <4>3 DEF PolicyPut, ArcPut, PutResult
      <4> QED BY <1>2, <4>1, <4>2, <4>3, PolicyKinds
    <3> QED BY <1>1, <3>1 DEF r
  <2>2. StoreOf(q) = StoreOf(cache)
    BY <2>1
  <2>3. out' = [found |-> {}, evicted |-> FALSE]
    BY <1>1, <2>1 DEF Returned
  <2> QED BY <1>9, <2>2, <2>3 DEF Bounded!BPutDisabled
<1>10. CASE cache.capacity > 0
  <2>1. PutPromise(cache, k, v, r)
    BY <1>2, <1>7, <1>10, PolicyPutExact DEF r
  <2>2. Entry(k, v) \in Entries(q)
    BY <1>1, <2>1 DEF PutPromise
  <2>3. ASSUME NEW kept, LiveKeys(q) = kept \cup {k}
        PROVE  StoreOf(q) = [j \in kept \cup {k} |-> IF j = k THEN v ELSE StoreOf(cache)[j]]
    <3> DEFINE E == Entries(cache)
               F == Entries(q)
    <3>1. {e.key : e \in F} = kept \cup {k}
      BY <2>3 DEF LiveKeys
    <3>2. StoreOf(q) = MapOf(F) /\ StoreOf(cache) = MapOf(E)
      BY StoreIsMap
    <3>3. /\ OneValueEach(E) /\ OneValueEach(F) /\ Entry(k, v) \in F
          /\ F \subseteq E \cup {Entry(k, v)}
      BY <1>4, <1>6, <2>2
    <3> HIDE DEF E, F
    <3>4. MapOf(F) = MapWith(E, kept, k, v)
      BY <3>1, <3>3, MapAfterPut
    <3> QED BY <3>2, <3>4 DEF MapWith
  <2>4. CASE k \in LiveKeys(cache) \/ n < cache.capacity
    <3>1. r.evicted = FALSE /\ LiveKeys(q) = LiveKeys(cache) \cup {k}
      BY <1>1, <2>1, <2>4 DEF PutPromise, n
    <3>2. StoreOf(q) = Bounded!Stored(DOMAIN StoreOf(cache), k, v)
      BY <1>8, <2>3, <3>1 DEF Bounded!Stored
    <3>3. out' = [found |-> {}, evicted |-> FALSE]
      BY <1>1, <3>1 DEF Returned
    <3>4. k \in DOMAIN StoreOf(cache) \/ Cardinality(DOMAIN StoreOf(cache)) < cache.capacity
      BY <1>4, <1>8, <2>4
    <3> QED BY <1>10, <3>2, <3>3, <3>4, BoundedCardinality DEF Bounded!BPutWithRoom
  <2>5. CASE k \notin LiveKeys(cache) /\ n = cache.capacity
    <3>1. r.evicted = TRUE /\ \E y \in LiveKeys(cache) : LiveKeys(q) = (LiveKeys(cache) \ {y}) \cup {k}
      BY <1>1, <2>1, <2>5 DEF PutPromise, n
    <3>2. PICK y \in LiveKeys(cache) : LiveKeys(q) = (LiveKeys(cache) \ {y}) \cup {k}
      BY <3>1
    <3>3. StoreOf(q) = Bounded!Stored(DOMAIN StoreOf(cache) \ {y}, k, v)
      BY <1>8, <2>3, <3>2 DEF Bounded!Stored
    <3>4. out' = [found |-> {}, evicted |-> TRUE]
      BY <1>1, <3>1 DEF Returned
    <3>5. /\ y \in DOMAIN StoreOf(cache) /\ k \notin DOMAIN StoreOf(cache)
          /\ Cardinality(DOMAIN StoreOf(cache)) = cache.capacity
      BY <1>4, <1>8, <2>5
    <3> QED BY <1>10, <3>3, <3>4, <3>5, BoundedCardinality DEF Bounded!BPutWhenFull
  <2> QED BY <1>5, <2>4, <2>5
<1> QED BY <1>5, <1>9, <1>10

\* A clear empties the map.
LEMMA BoundedClear ==
  ASSUME Ready, Clear, cache'.capacity = cache.capacity
  PROVE  Bounded!BClear
<1>1. Entries(cache') = {}
  BY PolicyClearSpec DEF Ready, Clear
<1>2. StoreOf(cache') = <<>>
  BY <1>1, StoreIsMap, MapOfNone
<1> QED BY <1>2 DEF Clear, Returned, Bounded!BClear

\* So every step is one of BoundedCache or leaves it alone.
LEMMA BoundedNext ==
  ASSUME ArcIsSpared, IInv, Apart, ArcIsChosen, IInv', Apart', ArcIsChosen', [Next]_vars
  PROVE  [Bounded!BNext]_(Bounded!bvars)
<1>1. Ready
  BY AlwaysReady
<1>2. Ready'
  BY DEF Ready, IInv, TypeOK, Apart, ArcIsChosen, ArcIsSpared, ArcPartition, InOrder
<1>3. cache'.capacity = cache.capacity
  BY StepKeeps
<1>4. ASSUME NEW k \in Keys, Get(k) PROVE Bounded!BNext
  BY <1>1, <1>3, <1>4, BoundedGet DEF Bounded!BNext
<1>5. ASSUME NEW k \in Keys, NEW v \in Vals, Put(k, v) PROVE Bounded!BNext
  BY <1>1, <1>2, <1>3, <1>5, BoundedPut DEF Bounded!BNext
<1>6. ASSUME Clear PROVE Bounded!BNext
  BY <1>1, <1>3, <1>6, BoundedClear DEF Bounded!BNext
<1>7. ASSUME UNCHANGED vars PROVE UNCHANGED Bounded!bvars
  BY <1>7 DEF vars, Bounded!bvars
<1> QED BY <1>4, <1>5, <1>6, <1>7 DEF Next

\* Every behaviour of a policy structure, seen as a map from keys to values, is
\* one of the bounded cache: a put stores its value, in place if the key is
\* live, and otherwise exactly one other key makes way if and only if the cache
\* is full, and that is reported; a get returns what is stored
\* (src/policy.rs:16-17, 47-361).  ARC keeps this only if no live key is put
\* into it, which is what ArcIsSpared says; arc_refresh shows that it must.
THEOREM PoliciesImplementBoundedCache ==
  ASSUME ArcIsSpared
  PROVE  Spec => ImplementsBoundedCache
<1>1. ArcIsChosen /\ IInv /\ [Next]_vars => ArcIsChosen'
  BY StepKeeps DEF ArcIsChosen
<1>2. /\ IInv /\ Apart /\ ArcIsChosen /\ IInv' /\ Apart' /\ ArcIsChosen' /\ [Next]_vars
      => [Bounded!BNext]_(Bounded!bvars)
  BY BoundedNext
<1> QED BY <1>1, <1>2, InitIInv, NextIInv, InitApart, NextApart, InitArcIsChosen, BoundedInit, PTL
        DEF Spec, ImplementsBoundedCache, Bounded!BSpec

-----------------------------------------------------------------------------
\* The victim rules.  The order of a recency list is the one the history tells.

\* Whatever is behind another entry of m is before it in r.
Told(m, r) == \A i, j \in DOMAIN m : j < i => <<m[i].key, m[j].key>> \in r

\* The pairs MovedLast keeps, and those it adds.
LEMMA MovedLastPairs ==
  ASSUME NEW r, NEW k, NEW live, NEW a, NEW b
  PROVE  <<a, b>> \in MovedLast(r, k, live) <=>
           \/ <<a, b>> \in r /\ a # k /\ b # k /\ a \in live /\ b \in live
           \/ b = k /\ a \in live /\ a # k
<1>1. \A p : p \in MovedLast(r, k, live) <=>
        \/ p \in r /\ k \notin {p[1], p[2]} /\ {p[1], p[2]} \subseteq live
        \/ \E j \in live \ {k} : p = <<j, k>>
  BY DEF MovedLast
<1>2. <<a, b>>[1] = a /\ <<a, b>>[2] = b
  OBVIOUS
<1>3. (\E j \in live \ {k} : <<a, b>> = <<j, k>>) <=> b = k /\ a \in live /\ a # k
  OBVIOUS
<1> QED BY <1>1, <1>2, <1>3

\* A list that gives up a key keeps its order.
LEMMA ToldWithout ==
  ASSUME NEW S, NEW m \in Seq(S), NEW r, Told(m, r), NEW k
  PROVE  Told(Without(m, k), r)
<1>1. CASE Holds(m, k)
  <2> DEFINE w == Without(m, k)
             p == Position(m, k)
  <2>1. /\ w \in Seq(S) /\ Len(w) = Len(m) - 1
        /\ \A i \in 1 .. Len(w) : w[i] = IF i < p THEN m[i] ELSE m[i + 1]
    BY <1>1, WithoutSpec
  <2>2. p \in 1 .. Len(m)
    BY <1>1, PositionHolds
  <2> HIDE DEF w, p
  <2>3. ASSUME NEW i \in DOMAIN w, NEW j \in DOMAIN w, j < i
        PROVE  <<w[i].key, w[j].key>> \in r
    <3> DEFINE x == IF i < p THEN i ELSE i + 1
               y == IF j < p THEN j ELSE j + 1
    <3>1. /\ Len(m) \in Nat /\ DOMAIN m = 1 .. Len(m) /\ DOMAIN w = 1 .. Len(m) - 1
          /\ i \in 1 .. Len(m) - 1 /\ j \in 1 .. Len(m) - 1 /\ p \in 1 .. Len(m)
      BY <2>1, <2>2
    <3>2. x \in DOMAIN m /\ y \in DOMAIN m /\ y < x
      BY <2>3, <3>1
    <3>3. w[i] = m[x] /\ w[j] = m[y]
      BY <2>1, <3>1
    <3> HIDE DEF x, y
    <3> QED BY <3>2, <3>3 DEF Told
  <2> QED BY <2>3 DEF Told, w
<1>2. CASE ~ Holds(m, k)
  BY <1>2 DEF Without
<1> QED BY <1>1, <1>2

\* So does one that gives up its back.
LEMMA ToldPop ==
  ASSUME NEW S, NEW m \in Seq(S), NEW r, Told(m, r)
  PROVE  Told(PopBack(m), r)
<1>1. CASE m = <<>>
  BY <1>1 DEF PopBack
<1>2. CASE m # <<>>
  <2>1. PopBack(m) = SubSeq(m, 1, Len(m) - 1)
    BY <1>2 DEF PopBack, Front
  <2>2. Len(m) \in Nat /\ DOMAIN m = 1 .. Len(m) /\ Len(m) >= 1
    BY <1>2
  <2>3. /\ DOMAIN PopBack(m) = 1 .. Len(m) - 1
        /\ \A i \in 1 .. Len(m) - 1 : PopBack(m)[i] = m[i]
    BY <2>1, <2>2
  <2> QED BY <2>2, <2>3 DEF Told
<1> QED BY <1>1, <1>2

\* And one in which a value is replaced in place.
LEMMA ToldUpdate ==
  ASSUME NEW S, NEW m \in Seq(S), NEW r, Told(m, r), NEW k, NEW v
  PROVE  Told(UpdateValue(m, k, v), r)
<1>1. CASE Holds(m, k)
  <2> DEFINE p == Position(m, k)
             u == UpdateValue(m, k, v)
             x == Entry(k, v)
  <2>1. p \in DOMAIN m /\ m[p].key = k
    BY <1>1, PositionHolds
  <2>2. u = [m EXCEPT ![p] = x]
    BY <1>1 DEF UpdateValue, ReplaceAt
  <2>3. x.key = k
    BY KeyOfEntry
  <2> HIDE DEF p, u, x
  <2>4. DOMAIN u = DOMAIN m /\ \A i \in DOMAIN m : u[i].key = m[i].key
    BY <2>1, <2>2, <2>3
  <2>5. Told(u, r)
    BY <2>4 DEF Told
  <2> QED BY <2>5 DEF u
<1>2. CASE ~ Holds(m, k)
  BY <1>2 DEF UpdateValue
<1> QED BY <1>1, <1>2

\* The order of a list without k is not touched when k moves last.
LEMMA ToldApart ==
  ASSUME NEW m, NEW r, Told(m, r), NEW k, k \notin KeysOf(m), NEW live, KeysOf(m) \subseteq live
  PROVE  Told(m, MovedLast(r, k, live))
<1> SUFFICES ASSUME NEW i \in DOMAIN m, NEW j \in DOMAIN m, j < i
             PROVE  <<m[i].key, m[j].key>> \in MovedLast(r, k, live)
  BY DEF Told
<1>1. m[i].key \in KeysOf(m) /\ m[j].key \in KeysOf(m)
  BY DEF KeysOf
<1>2. <<m[i].key, m[j].key>> \in r
  BY DEF Told
<1> QED BY <1>1, <1>2, MovedLastPairs

\* The order of the keys that stay live is all a list of such keys needs.
LEMMA ToldFewer ==
  ASSUME NEW m, NEW r, NEW k, NEW big, Told(m, MovedLast(r, k, big)),
         NEW live, KeysOf(m) \subseteq live
  PROVE  Told(m, MovedLast(r, k, live))
<1> SUFFICES ASSUME NEW i \in DOMAIN m, NEW j \in DOMAIN m, j < i
             PROVE  <<m[i].key, m[j].key>> \in MovedLast(r, k, live)
  BY DEF Told
<1>1. m[i].key \in live /\ m[j].key \in live
  BY DEF KeysOf
<1>2. <<m[i].key, m[j].key>> \in MovedLast(r, k, big)
  BY DEF Told
<1> QED BY <1>1, <1>2, MovedLastPairs

\* A key inserted at the front is the last touched.
LEMMA ToldFront ==
  ASSUME NEW S, NEW m \in Seq(S), Distinct(m), NEW r, Told(m, r),
         NEW k, NEW v, Entry(k, v) \in S,
         NEW live, KeysOf(InsertFront(m, k, v)) \subseteq live
  PROVE  Told(InsertFront(m, k, v), MovedLast(r, k, live))
<1> DEFINE w == Without(m, k)
           f == InsertFront(m, k, v)
           x == Entry(k, v)
<1>1. w \in Seq(S) /\ x \in S /\ f = <<x>> \o w /\ x.key = k
  BY WithoutSpec, KeyOfEntry DEF InsertFront, Cons
<1>2. Told(w, r)
  BY ToldWithout
<1>3. Distinct(f)
  BY InsertFrontSpec
<1>4. KeysOf(f) \subseteq live
  OBVIOUS
<1> HIDE DEF w, f, x
<1>5. /\ Len(w) \in Nat /\ DOMAIN f = 1 .. Len(w) + 1 /\ f[1] = x
      /\ \A i \in 1 .. Len(w) : f[i + 1] = w[i]
  BY <1>1
<1>6. ASSUME NEW i \in DOMAIN f, NEW j \in DOMAIN f, j < i
      PROVE  <<f[i].key, f[j].key>> \in MovedLast(r, k, live)
  <2>1. f[i].key \in live /\ f[j].key \in live
    BY <1>4 DEF KeysOf
  <2>2. i \in Nat /\ j \in Nat /\ i > 1 /\ 1 \in DOMAIN f
    BY <1>5, <1>6
  <2>3. f[i].key # k
    <3>1. i # 1 /\ f[1].key = k
      BY <1>1, <1>5, <2>2
    <3>2. f[i].key = f[1].key => i = 1
      BY <1>3, <2>2 DEF Distinct
    <3> QED BY <3>1, <3>2
  <2>4. CASE j = 1
    <3>1. f[j].key = k
      BY <1>1, <1>5, <2>4
    <3> QED BY <2>1, <2>3, <3>1, MovedLastPairs
  <2>5. CASE j # 1
    <3>1. f[j].key # k
      BY <1>1, <1>3, <1>5, <2>2, <2>5 DEF Distinct
    <3>2. i - 1 \in 1 .. Len(w) /\ j - 1 \in 1 .. Len(w) /\ j - 1 < i - 1
      BY <1>5, <1>6, <2>2, <2>5
    <3>3. f[i] = w[i - 1] /\ f[j] = w[j - 1]
      <4>1. i = (i - 1) + 1 /\ j = (j - 1) + 1
        BY <2>2
      <4> QED BY <1>5, <3>2, <4>1
    <3>4. DOMAIN w = 1 .. Len(w)
      BY <1>1
    <3>5. <<w[i - 1].key, w[j - 1].key>> \in r
      BY <1>2, <3>2, <3>4 DEF Told
    <3> QED BY <2>1, <2>3, <3>1, <3>3, <3>5, MovedLastPairs
  <2> QED BY <2>4, <2>5
<1>7. Told(f, MovedLast(r, k, live))
  BY <1>6 DEF Told
<1> QED BY <1>7 DEF f

\* So is a key that is promoted.
LEMMA ToldPromoted ==
  ASSUME NEW S, EntrySet(S), NEW m \in Seq(S), Distinct(m), NEW r, Told(m, r),
         NEW k, Holds(m, k), NEW live, KeysOf(m) \subseteq live
  PROVE  Told(MoveToFront(m, k), MovedLast(r, k, live))
<1> DEFINE v == ValueOf(m, k)
<1>1. Entry(k, v) \in S
  BY ValueOfSpec
<1>2. MoveToFront(m, k) = InsertFront(m, k, v)
  BY DEF MoveToFront
<1> HIDE DEF v
<1>3. KeysOf(InsertFront(m, k, v)) = KeysOf(m) \cup {k}
  BY <1>1, InsertFrontSpec
<1>4. k \in KeysOf(m)
  BY HoldsKeys
<1> QED BY <1>1, <1>2, <1>3, <1>4, ToldFront

\* The back of a list comes before all its other keys.
LEMMA BackFirst ==
  ASSUME NEW S, NEW m \in Seq(S), m # <<>>, NEW r, Told(m, r),
         NEW j \in KeysOf(m), j # BackOf(m).key
  PROVE  <<BackOf(m).key, j>> \in r
<1>1. Len(m) \in Nat /\ Len(m) >= 1 /\ DOMAIN m = 1 .. Len(m)
  OBVIOUS
<1>2. BackOf(m) = m[Len(m)]
  BY DEF BackOf, Last
<1>3. PICK i \in DOMAIN m : m[i].key = j
  BY DEF KeysOf
<1>4. i < Len(m)
  <2>1. i # Len(m)
    BY <1>2, <1>3
  <2> QED BY <1>1, <1>3, <2>1
<1> QED BY <1>1, <1>2, <1>3, <1>4 DEF Told

\* The list of a RecencyCache under a get of a key it holds.
LEMMA RecencyGetTold ==
  ASSUME NEW K, NEW V, NEW c, RecencyType(c, K, V), NEW k, NEW q, q = RecencyGet(c, k).cache,
         NEW r, Told(c.map, r)
  PROVE  /\ q.touch_on_get = c.touch_on_get
         /\ c.touch_on_get /\ k \in KeysOf(c.map) => Told(q.map, MovedLast(r, k, KeysOf(q.map)))
         /\ ~ c.touch_on_get \/ k \notin KeysOf(c.map) => Told(q.map, r)
<1> DEFINE S == [key: K, val: V]
           m == c.map
<1>1. EntrySet(S)
  BY EntriesAreEntries
<1>2. m \in Seq(S) /\ Distinct(m)
  BY DEF RecencyType
<1>3. /\ q.touch_on_get = c.touch_on_get
      /\ q.map = IF c.touch_on_get THEN MoveToFront(m, k) ELSE m
  BY DEF RecencyGet, GetResult, RecencyType
<1> HIDE DEF S
<1>4. ASSUME c.touch_on_get, k \in KeysOf(m) PROVE Told(q.map, MovedLast(r, k, KeysOf(q.map)))
  <2>1. q.map = MoveToFront(m, k) /\ Holds(m, k)
    BY <1>3, <1>4, HoldsKeys
  <2>2. KeysOf(MoveToFront(m, k)) = KeysOf(m)
    BY <1>1, <1>2, MoveToFrontSpec
  <2> QED BY <1>1, <1>2, <2>1, <2>2, ToldPromoted
<1>5. ASSUME ~ c.touch_on_get \/ k \notin KeysOf(m) PROVE q.map = m
  <2>1. k \notin KeysOf(m) => MoveToFront(m, k) = m
    BY HoldsKeys DEF MoveToFront
  <2> QED BY <1>3, <1>5, <2>1
<1> QED BY <1>3, <1>4, <1>5

\* And under a put: a key it takes in, and under LRU one it rewrites, moves
\* last; under FIFO a rewrite changes nothing.
LEMMA RecencyPutTold ==
  ASSUME NEW K, NEW V, NEW c, RecencyType(c, K, V), c.capacity > 0, NEW k \in K, NEW v \in V,
         NEW q, q = RecencyPut(c, k, v).cache, NEW r, Told(c.map, r)
  PROVE  /\ q.touch_on_get = c.touch_on_get
         /\ c.touch_on_get \/ k \notin KeysOf(c.map) => Told(q.map, MovedLast(r, k, KeysOf(q.map)))
         /\ ~ c.touch_on_get /\ k \in KeysOf(c.map) => Told(q.map, r)
<1> DEFINE S == [key: K, val: V]
           m == c.map
           u == UpdateValue(m, k, v)
           g == InsertFront(m, k, v)
<1>1. EntrySet(S) /\ Entry(k, v) \in S
  BY EntriesAreEntries
<1>2. m \in Seq(S) /\ Distinct(m) /\ ~ (c.capacity = 0)
  BY DEF RecencyType
<1> HIDE DEF S
<1>3. CASE Holds(m, k)
  <2>1. q = RecencyRefresh(c, k, v)
    BY <1>2, <1>3 DEF RecencyPut, PutResult
  <2>2. /\ q.touch_on_get = c.touch_on_get
        /\ q.map = IF c.touch_on_get THEN MoveToFront(u, k) ELSE u
    BY <2>1 DEF RecencyRefresh, RecencyType
  <2>3. u \in Seq(S) /\ Distinct(u) /\ KeysOf(u) = KeysOf(m) /\ Told(u, r)
    BY <1>1, <1>2, UpdateValueSpec, ToldUpdate
  <2> HIDE DEF u
  <2>4. Holds(u, k) /\ k \in KeysOf(m)
    BY <1>3, <2>3, HoldsKeys
  <2>5. KeysOf(MoveToFront(u, k)) = KeysOf(u)
    BY <1>1, <2>3, MoveToFrontSpec
  <2>6. Told(MoveToFront(u, k), MovedLast(r, k, KeysOf(u)))
    BY <1>1, <2>3, <2>4, ToldPromoted
  <2> QED BY <2>2, <2>3, <2>4, <2>5, <2>6
<1>4. CASE ~ Holds(m, k)
  <2>1. RecencyPut(c, k, v) = RecencyAdmit(c, k, v)
    BY <1>2, <1>4 DEF RecencyPut
  <2>2. q.touch_on_get = c.touch_on_get /\ q.map \in {g, PopBack(g)}
    BY <2>1 DEF RecencyAdmit, PutResult, RecencyType
  <2>3. g \in Seq(S) /\ Told(g, MovedLast(r, k, KeysOf(g)))
    BY <1>1, <1>2, InsertFrontSpec, ToldFront
  <2> HIDE DEF g
  <2>4. KeysOf(PopBack(g)) \subseteq KeysOf(g) /\ Told(PopBack(g), MovedLast(r, k, KeysOf(g)))
    BY <2>3, PopBackSpec, ToldPop
  <2>5. Told(PopBack(g), MovedLast(r, k, KeysOf(PopBack(g))))
    BY <2>4, ToldFewer
  <2>6. k \notin KeysOf(m)
    BY <1>4, HoldsKeys
  <2> QED BY <2>2, <2>3, <2>5, <2>6
<1> QED BY <1>3, <1>4

-----------------------------------------------------------------------------
\* The buckets of an LfuCache in the order of the history.
BucketsTold(b, r) == \A f \in Nat : Told(Bucket(b, f), r)

\* Keys whose frequency is not f are not in its bucket.
LEMMA BucketKeys ==
  ASSUME NEW vs, NEW b, Grouped(vs, b), NEW f \in Nat
  PROVE  /\ KeysOf(Bucket(b, f)) \subseteq DOMAIN vs
         /\ \A k \in KeysOf(Bucket(b, f)) : vs[k].freq = f
BY DEF Grouped, KeysAt

\* The keys of q are l's, and all keep their frequency but k, which gained one.
Bumped(l, q, k) ==
  /\ DOMAIN q.values = DOMAIN l.values
  /\ q.values[k].freq = l.values[k].freq + 1
  /\ \A j \in DOMAIN l.values : j # k => q.values[j].freq = l.values[j].freq

\* A key that is bumped joins the front of the next bucket.
LEMMA BumpTold ==
  ASSUME NEW K, NEW V, NEW l, LfuType(l, K, V), Grouped(l.values, l.buckets),
         NEW k \in DOMAIN l.values, NEW r, BucketsTold(l.buckets, r), NEW q, q = Bump(l, k)
  PROVE  BucketsTold(q.buckets, MovedLast(r, k, DOMAIN l.values)) /\ Bumped(l, q, k)
<1> DEFINE B == [key: K, val: {Unit}]
           D == DOMAIN l.values
           f == l.values[k].freq
           gone == Without(Bucket(l.buckets, f), k)
           left == SetBucket(l.buckets, f, gone)
           come == InsertFront(Bucket(left, f + 1), k, Unit)
           b == SetBucket(left, f + 1, come)
           vs == [l.values EXCEPT ![k].freq = f + 1]
<1>1. ValuesType(l.values, K, V) /\ BucketsType(l.buckets, B) /\ k \in K /\ f \in Nat
  BY LfuTypeFields DEF ValuesType
<1>2. q = LfuCache(vs, b, MinAfterBump(l, f, left), l.capacity)
  BY DEF Bump
<1>3. q.values = vs /\ q.buckets = b
  <2> HIDE DEF vs, b
  <2> QED BY <1>2 DEF LfuCache
<1>4. /\ DOMAIN vs = D /\ vs[k].freq = f + 1
      /\ \A j \in D : j # k => vs[j].freq = l.values[j].freq
  BY <1>1 DEF ValuesType
<1>5. Entry(k, Unit) \in B /\ EntrySet(B)
  BY <1>1, EntriesAreEntries
<1> HIDE DEF B, vs
<1>6. \A g \in Nat : /\ Bucket(l.buckets, g) \in Seq(B) /\ Distinct(Bucket(l.buckets, g))
                     /\ Told(Bucket(l.buckets, g), r)
                     /\ KeysOf(Bucket(l.buckets, g)) \subseteq D
                     /\ (g # f => k \notin KeysOf(Bucket(l.buckets, g)))
  BY <1>1, BucketType, BucketKeys DEF BucketsTold
<1>7. /\ Told(gone, r) /\ KeysOf(gone) \subseteq D /\ k \notin KeysOf(gone)
  BY <1>1, <1>6, ToldWithout, WithoutDistinct
<1>8. Bucket(left, f + 1) = Bucket(l.buckets, f + 1) /\ Bucket(left, f) = gone
  BY <1>1, SetBucketReads
<1>9. f + 1 \in Nat /\ f + 1 # f
  BY <1>1
<1>10. Told(come, MovedLast(r, k, D))
  <2> DEFINE old == Bucket(l.buckets, f + 1)
  <2>1. old \in Seq(B) /\ Distinct(old) /\ Told(old, r) /\ KeysOf(old) \subseteq D
    BY <1>6, <1>9
  <2>2. come = InsertFront(old, k, Unit)
    BY <1>8
  <2> HIDE DEF old, come, D
  <2>3. KeysOf(InsertFront(old, k, Unit)) = KeysOf(old) \cup {k}
    BY <1>5, <2>1, InsertFrontSpec
  <2>4. k \in D
    BY DEF D
  <2>5. KeysOf(InsertFront(old, k, Unit)) \subseteq D
    BY <2>1, <2>3, <2>4
  <2> QED BY <1>5, <2>1, <2>2, <2>5, ToldFront
<1>11. Told(gone, MovedLast(r, k, D))
  BY <1>7, ToldApart
<1> HIDE DEF gone, come, left, b
<1>12. ASSUME NEW g \in Nat PROVE Told(Bucket(b, g), MovedLast(r, k, D))
  <2>1. CASE g = f + 1
    BY <1>10, <2>1, SetBucketReads DEF b
  <2>2. CASE g = f
    <3>1. Bucket(b, g) = gone
      BY <1>8, <1>9, <2>2, SetBucketReads DEF b
    <3> QED BY <1>11, <3>1
  <2>3. CASE g # f + 1 /\ g # f
    <3>1. Bucket(b, g) = Bucket(left, g)
      BY <2>3, SetBucketReads DEF b
    <3>2. Bucket(left, g) = Bucket(l.buckets, g)
      BY <2>3, SetBucketReads DEF left
    <3> QED BY <1>6, <2>3, <3>1, <3>2, ToldApart
  <2> QED BY <2>1, <2>2, <2>3
<1> QED BY <1>3, <1>4, <1>12 DEF BucketsTold, Bumped

\* The keys of q were l's but for k, and all but k keep their frequency; k has
\* gained one, or starts at 1.
Recounts(l, q, k) ==
  /\ k \in DOMAIN q.values
  /\ \A j \in DOMAIN q.values : j # k => /\ j \in DOMAIN l.values
                                         /\ q.values[j].freq = l.values[j].freq
  /\ k \in DOMAIN l.values => q.values[k].freq = l.values[k].freq + 1
  /\ k \notin DOMAIN l.values => q.values[k].freq = 1

\* A rewrite bumps the key.
LEMMA LfuRefreshTold ==
  ASSUME NEW K, NEW V, NEW l, LfuType(l, K, V), Grouped(l.values, l.buckets),
         NEW k \in DOMAIN l.values, NEW v \in V, NEW r, BucketsTold(l.buckets, r),
         NEW q, q = LfuRefresh(l, k, v)
  PROVE  BucketsTold(q.buckets, MovedLast(r, k, DOMAIN q.values)) /\ Recounts(l, q, k)
<1> DEFINE vs == [l.values EXCEPT ![k].val = v]
           u == LfuCache(vs, l.buckets, l.min_freq, l.capacity)
<1>1. /\ ValuesType(l.values, K, V) /\ BucketsType(l.buckets, [key: K, val: {Unit}])
      /\ l.min_freq \in Nat /\ l.capacity \in Nat
  BY LfuTypeFields
<1>2. /\ ValuesType(vs, K, V) /\ DOMAIN vs = DOMAIN l.values
      /\ \A j \in DOMAIN vs : vs[j].freq = l.values[j].freq
  BY <1>1 DEF ValuesType
<1> HIDE DEF vs
<1>3. LfuType(u, K, V) /\ u.values = vs /\ u.buckets = l.buckets
  BY <1>1, <1>2, LfuCacheType, LfuCacheFields
<1>4. q = Bump(u, k)
  BY DEF LfuRefresh, vs
<1> HIDE DEF u
<1>5. Grouped(u.values, u.buckets)
  <2>1. \A f : KeysAt(vs, f) = KeysAt(l.values, f)
    BY <1>2 DEF KeysAt
  <2> QED BY <1>3, <2>1 DEF Grouped
<1>6. BucketsTold(q.buckets, MovedLast(r, k, DOMAIN u.values)) /\ Bumped(u, q, k)
  <2>1. k \in DOMAIN u.values
    BY <1>2, <1>3
  <2>2. BucketsTold(u.buckets, r)
    BY <1>3
  <2> QED BY <1>3, <1>4, <1>5, <2>1, <2>2, BumpTold
<1> QED BY <1>2, <1>3, <1>6 DEF Recounts, Bumped

\* A key that is admitted joins the front of bucket 1.
LEMMA LfuAdmitTold ==
  ASSUME NEW K, NEW V, NEW l, LfuType(l, K, V), Grouped(l.values, l.buckets),
         NEW k \in K, k \notin DOMAIN l.values, NEW v \in V, NEW r, BucketsTold(l.buckets, r),
         NEW q, q = LfuAdmit(l, k, v)
  PROVE  BucketsTold(q.buckets, MovedLast(r, k, DOMAIN q.values)) /\ Recounts(l, q, k)
<1> DEFINE B == [key: K, val: {Unit}]
           D == DOMAIN l.values \cup {k}
           old == Bucket(l.buckets, 1)
           come == InsertFront(old, k, Unit)
           b == SetBucket(l.buckets, 1, come)
           vs == SetValue(l.values, k, [val |-> v, freq |-> 1])
<1>1. ValuesType(l.values, K, V) /\ BucketsType(l.buckets, B)
  BY LfuTypeFields
<1>2. q = LfuCache(vs, b, 1, l.capacity)
  BY DEF LfuAdmit
<1>3. q.values = vs /\ q.buckets = b
  BY <1>2, LfuCacheFields
<1>4. /\ DOMAIN vs = D /\ vs[k].freq = 1
      /\ \A j \in D : j # k => vs[j].freq = l.values[j].freq
  BY DEF SetValue
<1>5. Entry(k, Unit) \in B
  BY EntriesAreEntries
<1> HIDE DEF B, vs
<1>6. \A g \in Nat : /\ Bucket(l.buckets, g) \in Seq(B) /\ Distinct(Bucket(l.buckets, g))
                     /\ Told(Bucket(l.buckets, g), r)
                     /\ KeysOf(Bucket(l.buckets, g)) \subseteq DOMAIN l.values
  BY <1>1, BucketType, BucketKeys DEF BucketsTold
<1>7. old \in Seq(B) /\ Distinct(old) /\ Told(old, r) /\ KeysOf(old) \subseteq DOMAIN l.values
  BY <1>6
<1> HIDE DEF old
<1>8. KeysOf(come) \subseteq D
  BY <1>5, <1>7, InsertFrontSpec
<1>9. Told(come, MovedLast(r, k, D))
  BY <1>5, <1>7, <1>8, ToldFront
<1> HIDE DEF come, b
<1>10. ASSUME NEW g \in Nat PROVE Told(Bucket(b, g), MovedLast(r, k, D))
  <2>1. CASE g = 1
    BY <1>9, <2>1, SetBucketReads DEF b
  <2>2. CASE g # 1
    <3>1. Bucket(b, g) = Bucket(l.buckets, g)
      BY <2>2, SetBucketReads DEF b
    <3>2. Told(Bucket(l.buckets, g), r) /\ KeysOf(Bucket(l.buckets, g)) \subseteq DOMAIN l.values
      BY <1>6
    <3>3. k \notin KeysOf(Bucket(l.buckets, g)) /\ KeysOf(Bucket(l.buckets, g)) \subseteq D
      BY <3>2
    <3> QED BY <3>1, <3>2, <3>3, ToldApart
  <2> QED BY <2>1, <2>2
<1> QED BY <1>3, <1>4, <1>10 DEF BucketsTold, Recounts

\* Every put moves its key last.
LEMMA LfuPutTold ==
  ASSUME NEW K, NEW V, NEW l, LfuType(l, K, V), LfuSound(l), l.capacity > 0,
         NEW k \in K, NEW v \in V, NEW r, BucketsTold(l.buckets, r),
         NEW q, q = LfuPut(l, k, v).cache
  PROVE  BucketsTold(q.buckets, MovedLast(r, k, DOMAIN q.values)) /\ Recounts(l, q, k)
<1>1. Grouped(l.values, l.buckets) /\ ~ (l.capacity = 0)
  BY LfuTypeFields DEF LfuSound
<1>2. CASE k \in DOMAIN l.values
  <2>1. q = LfuRefresh(l, k, v)
    BY <1>1, <1>2 DEF LfuPut, PutResult
  <2> QED BY <1>1, <1>2, <2>1, LfuRefreshTold
<1>3. CASE k \notin DOMAIN l.values /\ ~ LfuMustEvict(l)
  <2>1. q = LfuAdmit(l, k, v)
    BY <1>1, <1>3 DEF LfuPut, PutResult
  <2> QED BY <1>1, <1>3, <2>1, LfuAdmitTold
<1>4. CASE k \notin DOMAIN l.values /\ LfuMustEvict(l)
  <2> DEFINE e == LfuEvict(l)
             vs == [j \in DOMAIN l.values \ {LfuVictim(l)} |-> l.values[j]]
             b == SetBucket(l.buckets, l.min_freq, PopBack(Bucket(l.buckets, l.min_freq)))
  <2>1. q = LfuAdmit(e, k, v)
    BY <1>1, <1>4 DEF LfuPut, PutResult
  <2>2. LfuType(e, K, V)
    BY <1>4, LfuEvictSpec
  <2>3. Grouped(e.values, e.buckets) /\ DOMAIN e.values \subseteq DOMAIN l.values
    BY <1>4, LfuEvictLeaves
  <2>4. e = LfuCache(vs, b, l.min_freq, l.capacity)
    BY DEF LfuEvict
  <2>5. e.values = vs /\ e.buckets = b
    BY <2>4, LfuCacheFields
  <2>6. \A j \in DOMAIN e.values : e.values[j] = l.values[j]
    BY <2>5
  <2>7. BucketsTold(e.buckets, r)
    <3>1. l.min_freq \in Nat /\ BucketsType(l.buckets, [key: K, val: {Unit}])
      BY LfuTypeFields
    <3>2. Told(PopBack(Bucket(l.buckets, l.min_freq)), r)
      BY <3>1, BucketType, ToldPop DEF BucketsTold
    <3> HIDE DEF b
    <3>3. ASSUME NEW g \in Nat PROVE Told(Bucket(b, g), r)
      BY <3>1, <3>2, SetBucketReads DEF BucketsTold, b
    <3> QED BY <2>5, <3>3 DEF BucketsTold
  <2> HIDE DEF e
  <2>8. BucketsTold(q.buckets, MovedLast(r, k, DOMAIN q.values)) /\ Recounts(e, q, k)
    BY <1>4, <2>1, <2>2, <2>3, <2>7, LfuAdmitTold
  <2> QED BY <1>4, <2>3, <2>6, <2>8 DEF Recounts
<1> QED BY <1>2, <1>3, <1>4

-----------------------------------------------------------------------------
\* How ARC's live lists change.

\* The live lists of r are what is left of a's; with a target of 0, t2 is spared
\* for as long as t1 has an entry.
SparesT2(a, r) ==
  /\ KeysOf(r.t1) \subseteq KeysOf(a.t1) /\ KeysOf(r.t2) \subseteq KeysOf(a.t2)
  /\ a.p = 0 /\ a.t1 # <<>> => r.t2 = a.t2

\* replace leaves them so, and the target.
LEMMA ReplaceLists ==
  ASSUME NEW S, NEW B, GhostsOf(S, B), NEW a, ArcShape(a, S, B), NEW x,
         NEW r, r = Replace(a, x).cache
  PROVE  ArcShape(r, S, B) /\ r.p = a.p /\ SparesT2(a, r)
<1>1. a.t1 \in Seq(S) /\ a.t2 \in Seq(S)
  BY DEF ArcShape
<1>2. ArcShape(r, S, B) /\ r.p = a.p
  BY ReplaceSpec
<1>3. CASE ReplacesT1(a, x)
  <2>1. r = DemoteT1(a)
    BY <1>3 DEF Replace, PutResult
  <2>2. r.t1 = PopBack(a.t1) /\ r.t2 = a.t2
    BY <2>1 DEF DemoteT1, ArcShape
  <2> QED BY <1>1, <1>2, <2>2, PopBackSpec DEF SparesT2
<1>4. CASE ~ ReplacesT1(a, x)
  <2>1. r = a \/ r = DemoteT2(a)
    BY <1>4 DEF Replace, PutResult
  <2>2. r.t1 = a.t1 /\ r.t2 \in {a.t2, PopBack(a.t2)}
    BY <2>1 DEF DemoteT2, ArcShape
  <2>3. ~ (a.p = 0 /\ a.t1 # <<>>)
    <3>1. Len(a.t1) \in Nat /\ (a.t1 # <<>> => Len(a.t1) >= 1)
      BY <1>1
    <3> QED BY <1>4, <3>1 DEF ReplacesT1, Size
  <2> QED BY <1>1, <1>2, <2>2, <2>3, PopBackSpec DEF SparesT2
<1> QED BY <1>3, <1>4

\* The same of the room made before a total miss.
LEMMA ArcMakeRoomLists ==
  ASSUME NEW S, NEW B, GhostsOf(S, B), NEW a, ArcShape(a, S, B),
         NEW r, r = ArcMakeRoom(a).cache
  PROVE  ArcShape(r, S, B) /\ SparesT2(a, r)
<1> DEFINE full == Size(a.t1) + Size(a.b1) = a.capacity
           over == Size(a.t1) >= a.capacity
           rich == ArcTotal(a) >= a.capacity
<1>1. (over <=> ~ (Size(a.t1) < a.capacity)) /\ (rich <=> ~ (ArcTotal(a) < a.capacity))
  BY ArcLens DEF ArcTotal
<1>2. CASE full /\ ~ over
  <2> DEFINE n == DropB1(a)
             inB2 == FALSE
  <2>1. r = Replace(n, inB2).cache
    BY <1>1, <1>2 DEF ArcMakeRoom, DropB1
  <2>2. ArcShape(n, S, B) /\ n.t1 = a.t1 /\ n.t2 = a.t2 /\ n.p = a.p
    <3>1. n.p = a.p
      BY DEF DropB1, ArcShape
    <3> QED BY <3>1, TrimmedSpec
  <2> HIDE DEF n, inB2
  <2>3. ArcShape(r, S, B) /\ SparesT2(n, r)
    BY <2>1, <2>2, ReplaceLists
  <2> QED BY <2>2, <2>3 DEF SparesT2
<1>3. CASE full /\ over
  <2>1. r = DropT1(a)
    BY <1>1, <1>3 DEF ArcMakeRoom, PutResult, DropT1
  <2>2. ArcShape(r, S, B) /\ r.t1 = PopBack(a.t1) /\ r.t2 = a.t2
    BY <2>1, TrimmedSpec
  <2>3. a.t1 \in Seq(S)
    BY DEF ArcShape
  <2> QED BY <2>2, <2>3, PopBackSpec DEF SparesT2
<1>4. CASE ~ full /\ ~ rich
  <2>1. r = a
    BY <1>1, <1>4 DEF ArcMakeRoom, PutResult
  <2> QED BY <2>1 DEF SparesT2
<1>5. CASE ~ full /\ rich
  <2> DEFINE n == DropB2(a)
             inB2 == FALSE
  <2>1. r = Replace(n, inB2).cache
    BY <1>1, <1>5 DEF ArcMakeRoom, DropB2
  <2>2. ArcShape(n, S, B) /\ n.t1 = a.t1 /\ n.t2 = a.t2 /\ n.p = a.p
    <3>1. n.p = a.p
      BY DEF DropB2, ArcShape
    <3> QED BY <3>1, TrimmedSpec
  <2> HIDE DEF n, inB2
  <2>3. ArcShape(r, S, B) /\ SparesT2(n, r)
    BY <2>1, <2>2, ReplaceLists
  <2> QED BY <2>2, <2>3 DEF SparesT2
<1> QED BY <1>2, <1>3, <1>4, <1>5

\* A ghost hit in b1 moves the target off 0.
LEMMA GrowPSpec ==
  ASSUME NEW S, NEW B, NEW a, ArcShape(a, S, B), a.capacity > 0
  PROVE  GrowP(a) >= 1
<1>1. /\ Size(a.b1) \in Nat /\ Size(a.b2) \in Nat /\ a.p \in Nat /\ a.capacity \in Nat
  BY ArcLens
<1> DEFINE d == Max({Size(a.b1), 1})
           x == Size(a.b2) \div d
<1>2. d \in Nat /\ d >= 1
  BY <1>1, MaxOfTwo
<1> HIDE DEF d
<1>3. x \in Int
  BY <1>1, <1>2
<1>4. Delta(a.b2, a.b1) = Max({x, 1})
  BY DEF Delta, d
<1> HIDE DEF x
<1>5. Delta(a.b2, a.b1) \in Int /\ Delta(a.b2, a.b1) >= 1
  BY <1>3, <1>4, MaxOfTwo
<1>6. a.p + Delta(a.b2, a.b1) \in Int /\ a.p + Delta(a.b2, a.b1) >= 1
  BY <1>1, <1>5
<1> QED BY <1>1, <1>6, MinOfTwo DEF GrowP

\* Where the live keys of an ARC cache are after a get: one it finds is in t2.
LEMMA ArcGetLists ==
  ASSUME NEW S, NEW B, GhostsOf(S, B), NEW a, ArcShape(a, S, B), NEW k,
         NEW q, q = ArcGet(a, k).cache
  PROVE  /\ KeysOf(q.t1) \subseteq KeysOf(a.t1) \ {k}
         /\ KeysOf(q.t2) \subseteq KeysOf(a.t2) \cup {k}
<1>1. /\ a.t1 \in Seq(S) /\ Distinct(a.t1) /\ a.t2 \in Seq(S) /\ Distinct(a.t2) /\ EntrySet(S)
  BY DEF ArcShape, GhostsOf
<1>2. CASE Holds(a.t1, k)
  <2> DEFINE w == Without(a.t1, k)
             g == InsertFront(a.t2, k, ValueOf(a.t1, k))
  <2>1. q = [a EXCEPT !.t1 = w, !.t2 = g]
    BY <1>2 DEF ArcGet, GetResult
  <2>2. Entry(k, ValueOf(a.t1, k)) \in S
    BY <1>1, <1>2, ValueOfSpec
  <2>3. KeysOf(w) = KeysOf(a.t1) \ {k} /\ KeysOf(g) = KeysOf(a.t2) \cup {k}
    BY <1>1, <2>2, WithoutDistinct, InsertFrontSpec
  <2>4. q.t1 = w /\ q.t2 = g
    BY <2>1 DEF ArcShape
  <2> QED BY <2>3, <2>4
<1>3. CASE ~ Holds(a.t1, k)
  <2>1. q = [a EXCEPT !.t2 = MoveToFront(a.t2, k)]
    BY <1>3 DEF ArcGet, GetResult
  <2>2. q.t1 = a.t1 /\ q.t2 = MoveToFront(a.t2, k)
    BY <2>1 DEF ArcShape
  <2>3. KeysOf(MoveToFront(a.t2, k)) = KeysOf(a.t2)
    BY <1>1, MoveToFrontSpec
  <2>4. k \notin KeysOf(a.t1)
    BY <1>3, HoldsKeys
  <2> QED BY <2>2, <2>3, <2>4
<1> QED BY <1>2, <1>3

\* And after a put: a key that comes back from a ghost list is in t2, a new one
\* in t1; and with a target that stays 0 no key of t2 goes while t1 has one.
ArcPlaces(a, q, k) ==
  /\ Holds(a.b1, k) \/ Holds(a.b2, k) =>
       KeysOf(q.t1) \subseteq KeysOf(a.t1) /\ KeysOf(q.t2) \subseteq KeysOf(a.t2) \cup {k}
  /\ ~ Holds(a.b1, k) /\ ~ Holds(a.b2, k) =>
       KeysOf(q.t1) \subseteq KeysOf(a.t1) \cup {k} /\ KeysOf(q.t2) \subseteq KeysOf(a.t2)
  /\ a.p = 0 /\ q.p = 0 /\ a.t1 # <<>> => KeysOf(a.t2) \subseteq KeysOf(q.t2)

LEMMA ArcPutPlaces ==
  ASSUME NEW S, NEW B, GhostsOf(S, B), NEW a, ArcShape(a, S, B), a.capacity > 0,
         NEW k, NEW v, Entry(k, v) \in S, NEW q, q = ArcPut(a, k, v).cache
  PROVE  ArcPlaces(a, q, k)
<1>1. ~ (a.capacity = 0)
  BY ArcLens
<1>2. ASSUME NEW x \in Nat, x <= a.capacity, NEW y, NEW r, r = Replace([a EXCEPT !.p = x], y).cache,
             NEW s, s \in {FromB1(r, k, v), FromB2(r, k, v)}
      PROVE  /\ s.p = x
             /\ KeysOf(s.t1) \subseteq KeysOf(a.t1) /\ KeysOf(s.t2) \subseteq KeysOf(a.t2) \cup {k}
             /\ x = 0 /\ a.t1 # <<>> => KeysOf(a.t2) \subseteq KeysOf(s.t2)
  <2> DEFINE n == [a EXCEPT !.p = x]
  <2>1. ArcShape(n, S, B) /\ n.t1 = a.t1 /\ n.t2 = a.t2 /\ n.p = x
    BY <1>2, RetargetSpec
  <2>2. r = Replace(n, y).cache
    BY <1>2
  <2> HIDE DEF n
  <2>3. ArcShape(r, S, B) /\ r.p = n.p /\ SparesT2(n, r)
    BY <2>1, <2>2, ReplaceLists
  <2>4. s.p = r.p /\ s.t1 = r.t1 /\ s.t2 = InsertFront(r.t2, k, v)
    BY <1>2, <2>3 DEF FromB1, FromB2, ArcShape
  <2>5. KeysOf(InsertFront(r.t2, k, v)) = KeysOf(r.t2) \cup {k}
    BY <2>3, InsertFrontSpec DEF ArcShape
  <2> QED BY <2>1, <2>3, <2>4, <2>5 DEF SparesT2
<1>3. CASE Holds(a.b1, k)
  <2> DEFINE inB2 == FALSE
             r == Replace([a EXCEPT !.p = GrowP(a)], inB2).cache
  <2>1. q = FromB1(r, k, v)
    BY <1>1, <1>3 DEF ArcPut, ArcHitB1, FromB1, PutResult
  <2>2. GrowP(a) \in Nat /\ GrowP(a) <= a.capacity /\ GrowP(a) # 0
    BY TargetSpec, GrowPSpec
  <2>3. r = Replace([a EXCEPT !.p = GrowP(a)], inB2).cache
    OBVIOUS
  <2> HIDE DEF r, inB2
  <2>4. /\ q.p = GrowP(a)
        /\ KeysOf(q.t1) \subseteq KeysOf(a.t1) /\ KeysOf(q.t2) \subseteq KeysOf(a.t2) \cup {k}
    BY <1>2, <2>1, <2>2, <2>3
  <2> QED BY <1>3, <2>2, <2>4 DEF ArcPlaces
<1>4. CASE ~ Holds(a.b1, k) /\ Holds(a.b2, k)
  <2> DEFINE inB2 == TRUE
             r == Replace([a EXCEPT !.p = ShrinkP(a)], inB2).cache
  <2>1. q = FromB2(r, k, v)
    BY <1>1, <1>4 DEF ArcPut, ArcHitB2, FromB2, PutResult
  <2>2. ShrinkP(a) \in Nat /\ ShrinkP(a) <= a.capacity
    BY TargetSpec
  <2>3. r = Replace([a EXCEPT !.p = ShrinkP(a)], inB2).cache
    OBVIOUS
  <2> HIDE DEF r, inB2
  <2>4. /\ q.p = ShrinkP(a)
        /\ KeysOf(q.t1) \subseteq KeysOf(a.t1) /\ KeysOf(q.t2) \subseteq KeysOf(a.t2) \cup {k}
        /\ ShrinkP(a) = 0 /\ a.t1 # <<>> => KeysOf(a.t2) \subseteq KeysOf(q.t2)
    BY <1>2, <2>1, <2>2, <2>3
  <2> QED BY <1>4, <2>4 DEF ArcPlaces
<1>5. CASE ~ Holds(a.b1, k) /\ ~ Holds(a.b2, k)
  <2> DEFINE r == ArcMakeRoom(a).cache
             g == InsertFront(r.t1, k, v)
  <2>1. q = [r EXCEPT !.t1 = g]
    BY <1>1, <1>5 DEF ArcPut, ArcMiss, PutResult
  <2>2. ArcShape(r, S, B) /\ SparesT2(a, r)
    BY ArcMakeRoomLists
  <2> HIDE DEF r
  <2>3. KeysOf(g) = KeysOf(r.t1) \cup {k}
    BY <2>2, InsertFrontSpec DEF ArcShape
  <2>4. q.t1 = g /\ q.t2 = r.t2
    BY <2>1, <2>2 DEF ArcShape
  <2> QED BY <1>5, <2>2, <2>3, <2>4 DEF ArcPlaces, SparesT2
<1> QED BY <1>3, <1>4, <1>5

-----------------------------------------------------------------------------
\* The history agrees with the structure.

\* What history t, i, u says of cache c: the lists are in its order, LFU's
\* frequencies are its uses, and so is ARC's division into t1 and t2.
Recorded(c, t, i, u) ==
  /\ u \in [Keys -> 0 .. MaxFreq]
  /\ \A k \in Keys : k \notin LiveKeys(c) => u[k] = 0
  /\ c.kind = "Recency" => Told(c.map, IF c.touch_on_get THEN t ELSE i)
  /\ c.kind = "Lfu" => /\ BucketsTold(c.buckets, t)
                       /\ \A k \in DOMAIN c.values : u[k] = c.values[k].freq
  /\ c.kind = "Arc" => /\ \A k \in KeysOf(c.t1) : u[k] = 1
                       /\ \A k \in KeysOf(c.t2) : MaxFreq >= 2 => u[k] >= 2

\* An ARC cache has a disciplined caller, if it is one.
Spared == cache.kind = "Arc" => "Arc" \in Disciplined

HInv == IInv /\ Apart /\ (Spared => Recorded(cache, touched, inserted, uses))

\* Of such a cache the exact laws of the operations hold.
LEMMA SparedInOrder ==
  ASSUME IInv, Apart, Spared
  PROVE  PolicyType(cache, Keys, Vals) /\ InOrder(cache)
BY DEF IInv, TypeOK, Apart, ArcPartition, Spared, InOrder

\* An empty cache with no uses is recorded, whatever the order.
LEMMA EmptyRecorded ==
  ASSUME NEW c, PolicyType(c, Keys, Vals), PolicySound(c), LiveKeys(c) = {},
         NEW t, NEW i, NEW u, u = [k \in Keys |-> 0]
  PROVE  Recorded(c, t, i, u)
<1>1. u \in [Keys -> 0 .. MaxFreq] /\ \A k \in Keys : u[k] = 0
  BY MachineAssumption
<1>2. ASSUME NEW m, KeysOf(m) = {}, NEW r PROVE Told(m, r)
  BY <1>2 DEF Told, KeysOf
<1>3. c.kind = "Recency" => KeysOf(c.map) = {}
  BY LiveKeysOf
<1>4. ASSUME c.kind = "Lfu" PROVE DOMAIN c.values = {} /\ BucketsTold(c.buckets, t)
  <2>1. DOMAIN c.values = {} /\ Grouped(c.values, c.buckets)
    BY <1>4, LiveKeysOf DEF PolicySound, LfuSound
  <2>2. \A f \in Nat : KeysOf(Bucket(c.buckets, f)) = {}
    BY <2>1, BucketKeys
  <2> QED BY <1>2, <2>1, <2>2 DEF BucketsTold
<1>5. c.kind = "Arc" => KeysOf(c.t1) = {} /\ KeysOf(c.t2) = {}
  BY LiveKeysOf DEF LiveOf
<1> QED BY <1>1, <1>2, <1>3, <1>4, <1>5 DEF Recorded

\* The count u after one more use of k.
UsedAgain(u, k, live) ==
  /\ u \in [Keys -> 0 .. MaxFreq]
  /\ \A j \in Keys : j \notin live => u[j] = 0
  /\ \A j \in Keys : j \in live /\ j # k => u[j] = uses[j]

\* Using gives k one use more, up to the bound.
LEMMA UsingCounts ==
  ASSUME uses \in [Keys -> 0 .. MaxFreq], NEW k \in Keys, NEW live, k \in live
  PROVE  /\ UsedAgain(Using(k, live), k, live)
         /\ uses[k] < MaxFreq => Using(k, live)[k] = uses[k] + 1
         /\ uses[k] >= MaxFreq => Using(k, live)[k] = MaxFreq
<1> DEFINE w(j) == CASE j \notin live         -> 0
                     [] j \in live /\ j = k -> Min({uses[j] + 1, MaxFreq})
                     [] j \in live /\ j # k -> uses[j]
           g == Using(k, live)
<1>1. g = [j \in Keys |-> w(j)]
  BY DEF Using
<1>2. \A j \in Keys : j \notin live => w(j) = 0
  OBVIOUS
<1>3. \A j \in Keys : j \in live /\ j # k => w(j) = uses[j]
  OBVIOUS
<1>4. w(k) = Min({uses[k] + 1, MaxFreq})
  OBVIOUS
<1>5. uses[k] \in Nat /\ MaxFreq \in Nat /\ uses[k] <= MaxFreq
  BY MachineAssumption
<1>6. /\ uses[k] < MaxFreq => w(k) = uses[k] + 1
      /\ uses[k] >= MaxFreq => w(k) = MaxFreq
      /\ w(k) \in 0 .. MaxFreq
  <2> HIDE DEF w
  <2>1. Min({uses[k] + 1, MaxFreq}) = IF uses[k] + 1 <= MaxFreq THEN uses[k] + 1 ELSE MaxFreq
    BY <1>5, MinOfTwo
  <2> QED BY <1>4, <1>5, <2>1
<1> HIDE DEF w, g
<1>7. ASSUME NEW j \in Keys PROVE w(j) \in 0 .. MaxFreq
  <2>1. 0 \in 0 .. MaxFreq /\ uses[j] \in 0 .. MaxFreq
    BY MachineAssumption
  <2> QED BY <1>2, <1>3, <1>6, <2>1
<1>8. UsedAgain(g, k, live)
  BY <1>1, <1>2, <1>3, <1>7 DEF UsedAgain
<1>9. g[k] = w(k)
  BY <1>1
<1> QED BY <1>6, <1>8, <1>9 DEF g

\* A key that comes back from a ghost list has been used twice.
LEMMA ReadmittingCounts ==
  ASSUME uses \in [Keys -> 0 .. MaxFreq], NEW k \in Keys, NEW live, k \in live
  PROVE  /\ UsedAgain(Readmitting(k, live), k, live)
         /\ MaxFreq >= 2 => Readmitting(k, live)[k] = 2
<1> DEFINE u == Using(k, live)
           n == Min({2, MaxFreq})
           g == Readmitting(k, live)
<1>1. UsedAgain(u, k, live)
  BY UsingCounts
<1>2. g = [u EXCEPT ![k] = n]
  BY DEF Readmitting
<1>3. n = (IF 2 <= MaxFreq THEN 2 ELSE MaxFreq) /\ MaxFreq \in Nat
  BY MinOfTwo, MachineAssumption
<1> HIDE DEF u, n, g
<1>4. n \in 0 .. MaxFreq /\ (MaxFreq >= 2 => n = 2)
  BY <1>3
<1>5. g \in [Keys -> 0 .. MaxFreq] /\ g[k] = n /\ \A j \in Keys : j # k => g[j] = u[j]
  BY <1>1, <1>2, <1>4 DEF UsedAgain
<1>6. UsedAgain(g, k, live)
  BY <1>1, <1>5 DEF UsedAgain
<1> QED BY <1>4, <1>5, <1>6 DEF g

\* A get keeps the history in agreement.
LEMMA GetRecorded ==
  ASSUME IInv, Apart, Spared, Recorded(cache, touched, inserted, uses), NEW k \in Keys, HGet(k)
  PROVE  Recorded(cache', touched', inserted', uses')
<1> DEFINE r == PolicyGet(cache, k)
           q == r.cache
           live == LiveKeys(cache)
<1>1. PolicyType(cache, Keys, Vals) /\ InOrder(cache)
  BY SparedInOrder
<1>2. cache' = q /\ out'.found = r.found /\ BelowMaxFreq(k)
  BY DEF HGet, Get, Returned
<1>3. /\ PolicyType(q, Keys, Vals) /\ q.kind = cache.kind
      /\ Entries(q) = Entries(cache)
      /\ k \in live => r.found # {}
      /\ k \notin live => r.found = {}
  <2>1. PolicyType(q, Keys, Vals) /\ q.kind = cache.kind
    BY <1>1, PolicyGetSpec DEF Keeps
  <2>2. r = PolicyGet(cache, k)
    OBVIOUS
  <2> HIDE DEF r, live
  <2>3. /\ Entries(r.cache) = Entries(cache)
        /\ k \in LiveKeys(cache) => \E v : r.found = {v} /\ Entry(k, v) \in Entries(cache)
        /\ k \notin LiveKeys(cache) => r.found = {}
    BY <1>1, <2>2, PolicyGetExact
  <2> QED BY <2>1, <2>3 DEF live
<1>4. LiveKeys(q) = live
  BY <1>3 DEF LiveKeys
<1>5. /\ k \in live => touched' = MovedLast(touched, k, live) /\ uses' = Using(k, live)
      /\ k \notin live => touched' = touched /\ uses' = uses
      /\ inserted' = inserted
  BY <1>2, <1>3, <1>4 DEF HGet, history
<1> HIDE DEF r
<1> DEFINE t == touched'
           u == uses'
<1>6. /\ uses \in [Keys -> 0 .. MaxFreq]
      /\ \A j \in Keys : j \notin live => uses[j] = 0
  BY DEF Recorded
<1>7. k \in live => /\ UsedAgain(u, k, live)
                    /\ uses[k] < MaxFreq => u[k] = uses[k] + 1
                    /\ uses[k] >= MaxFreq => u[k] = MaxFreq
  BY <1>5, <1>6, UsingCounts
<1> SUFFICES Recorded(q, t, inserted, u)
  BY <1>2, <1>5
<1>8. u \in [Keys -> 0 .. MaxFreq] /\ \A j \in Keys : j \notin LiveKeys(q) => u[j] = 0
  BY <1>4, <1>5, <1>6, <1>7 DEF UsedAgain
<1> HIDE DEF t, u
<1>9. ASSUME q.kind = "Recency" PROVE Told(q.map, IF q.touch_on_get THEN t ELSE inserted)
  <2>1. /\ RecencyType(cache, Keys, Vals) /\ q = RecencyGet(cache, k).cache
        /\ live = KeysOf(cache.map) /\ live = KeysOf(q.map)
    BY <1>1, <1>3, <1>4, <1>9, PolicyKinds, LiveKeysOf DEF PolicyGet, r
  <2>2. Told(cache.map, IF cache.touch_on_get THEN touched ELSE inserted)
    BY <1>3, <1>9 DEF Recorded
  <2> HIDE DEF q, live
  <2>3. q.touch_on_get = cache.touch_on_get
    BY <2>1, <2>2, RecencyGetTold
  <2>4. CASE cache.touch_on_get /\ k \in live
    <3>1. t = MovedLast(touched, k, KeysOf(q.map)) /\ Told(cache.map, touched)
      BY <1>5, <2>1, <2>2, <2>4 DEF t
    <3> QED BY <2>1, <2>3, <2>4, <3>1, RecencyGetTold
  <2>5. CASE cache.touch_on_get /\ k \notin live
    <3>1. t = touched /\ Told(cache.map, touched)
      BY <1>5, <2>1, <2>2, <2>5 DEF t
    <3> QED BY <2>1, <2>3, <2>5, <3>1, RecencyGetTold
  <2>6. CASE ~ cache.touch_on_get
    <3>1. Told(cache.map, inserted)
      BY <2>2, <2>6
    <3> QED BY <2>1, <2>3, <2>6, <3>1, RecencyGetTold
  <2> QED BY <2>4, <2>5, <2>6
<1>10. ASSUME q.kind = "Lfu"
       PROVE  BucketsTold(q.buckets, t) /\ \A j \in DOMAIN q.values : u[j] = q.values[j].freq
  <2>1. /\ LfuType(cache, Keys, Vals) /\ LfuSound(cache) /\ q = LfuGet(cache, k).cache
        /\ live = DOMAIN cache.values
    BY <1>1, <1>3, <1>10, PolicyKinds, LiveKeysOf DEF PolicyGet, r, InOrder, PolicySound
  <2>2. /\ BucketsTold(cache.buckets, touched)
        /\ \A j \in live : uses[j] = cache.values[j].freq
    BY <1>3, <1>10, <2>1 DEF Recorded
  <2>3. live \subseteq Keys
    BY <2>1 DEF LfuType
  <2> HIDE DEF q, live
  <2>4. CASE k \in live
    <3>1. q = Bump(cache, k) /\ Grouped(cache.values, cache.buckets)
      BY <2>1, <2>4 DEF LfuGet, GetResult, LfuSound
    <3>2. BucketsTold(q.buckets, MovedLast(touched, k, live)) /\ Bumped(cache, q, k)
      BY <2>1, <2>2, <2>4, <3>1, BumpTold
    <3>3. uses[k] < MaxFreq
      BY <1>2, <1>3, <1>10, <2>1, <2>2, <2>4 DEF BelowMaxFreq
    <3> QED BY <1>5, <1>7, <2>1, <2>2, <2>3, <2>4, <3>2, <3>3 DEF Bumped, UsedAgain, t
  <2>5. CASE k \notin live
    <3>1. q = cache
      BY <2>1, <2>5 DEF LfuGet, GetResult
    <3> QED BY <1>5, <2>1, <2>2, <2>5, <3>1 DEF t, u
  <2> QED BY <2>4, <2>5
<1>11. ASSUME q.kind = "Arc"
       PROVE  /\ \A j \in KeysOf(q.t1) : u[j] = 1
              /\ \A j \in KeysOf(q.t2) : MaxFreq >= 2 => u[j] >= 2
  <2> DEFINE S == [key: Keys, val: Vals]
             B == [key: Keys, val: {Unit}]
  <2>1. ArcShape(cache, S, B) /\ GhostsOf(S, B) /\ q = ArcGet(cache, k).cache
    BY <1>1, <1>3, <1>11, PolicyKinds, ArcTypeShape DEF PolicyGet, r
  <2> HIDE DEF S, B
  <2>2. live = KeysOf(cache.t1) \cup KeysOf(cache.t2) /\ live = KeysOf(q.t1) \cup KeysOf(q.t2)
    BY <1>1, <1>3, <1>4, <1>11, LiveKeysOf DEF LiveOf
  <2>3. /\ \A j \in KeysOf(cache.t1) : uses[j] = 1
        /\ \A j \in KeysOf(cache.t2) : MaxFreq >= 2 => uses[j] >= 2
    BY <1>3, <1>11 DEF Recorded
  <2>4. /\ KeysOf(q.t1) \subseteq KeysOf(cache.t1) \ {k}
        /\ KeysOf(q.t2) \subseteq KeysOf(cache.t2) \cup {k}
    BY <2>1, ArcGetLists
  <2>5. live \subseteq Keys
    <3>1. Entries(cache) \subseteq [key: Keys, val: Vals]
      BY <1>1, EntriesTyped
    <3> QED BY <3>1 DEF LiveKeys
  <2> HIDE DEF q, live
  <2>6. CASE k \notin live
    BY <1>5, <2>2, <2>3, <2>4, <2>6 DEF u
  <2>7. CASE k \in live
    <3>1. \A j \in live : j # k => u[j] = uses[j]
      BY <1>7, <2>5, <2>7 DEF UsedAgain
    <3>2. MaxFreq >= 2 => u[k] >= 2
      <4>1. MaxFreq >= 2 => uses[k] >= 1 /\ uses[k] \in Nat /\ MaxFreq \in Nat
        BY <1>6, <2>2, <2>3, <2>7, MachineAssumption
      <4> QED BY <1>7, <2>7, <4>1
    <3> QED BY <2>2, <2>3, <2>4, <3>1, <3>2
  <2> QED BY <2>6, <2>7
<1> QED BY <1>8, <1>9, <1>10, <1>11 DEF Recorded

\* A cache that admits nothing holds nothing, and the history stands still.
LEMMA PutDisabledKeeps ==
  ASSUME IInv, Apart, Spared, NEW k \in Keys, NEW v \in Vals, HPut(k, v), cache.capacity = 0
  PROVE  cache' = cache /\ UNCHANGED history /\ ~ out'.evicted
<1>1. PolicyType(cache, Keys, Vals) /\ InOrder(cache)
  BY SparedInOrder
<1>2. PolicyPut(cache, k, v).cache = cache /\ PolicyPut(cache, k, v).evicted = FALSE
  BY <1>1, PolicyPutDisabled
<1>3. cache' = cache /\ ~ out'.evicted
  BY <1>2 DEF HPut, Put, Returned
<1>4. PolicyLen(cache) \in Nat /\ PolicyLen(cache) <= 0
  BY <1>1, SoundWithinCapacity DEF InOrder
<1>5. IsFiniteSet(LiveKeys(cache)) /\ Cardinality(LiveKeys(cache)) = 0
  BY <1>1, <1>4, LiveCount
<1>6. LiveKeys(cache') = {}
  BY <1>3, <1>5, FS_EmptySet
<1> QED BY <1>3, <1>6 DEF HPut

\* Any other takes the key in, and the history with it.
LEMMA PutTakesIn ==
  ASSUME IInv, Apart, Spared, Recorded(cache, touched, inserted, uses),
         NEW k \in Keys, NEW v \in Vals, HPut(k, v), cache.capacity > 0,
         NEW live, live = LiveKeys(cache')
  PROVE  /\ PolicyType(cache', Keys, Vals) /\ PolicySound(cache') /\ cache'.kind = cache.kind
         /\ k \in live /\ live \subseteq LiveKeys(cache) \cup {k} /\ live \subseteq Keys
         /\ touched' = MovedLast(touched, k, live)
         /\ inserted' = IF k \in LiveKeys(cache) THEN inserted ELSE MovedLast(inserted, k, live)
         /\ UsedAgain(uses', k, live)
         /\ ~ Remembered(k) =>
              /\ uses[k] < MaxFreq => uses'[k] = uses[k] + 1
              /\ uses[k] >= MaxFreq => uses'[k] = MaxFreq
         /\ Remembered(k) /\ MaxFreq >= 2 => uses'[k] = 2
<1> DEFINE r == PolicyPut(cache, k, v)
           q == cache'
<1>1. PolicyType(cache, Keys, Vals) /\ InOrder(cache)
  BY SparedInOrder
<1>2. q = r.cache
  BY DEF HPut, Put
<1>3. cache.kind = "Arc" => k \notin LiveKeys(cache)
  BY DEF HPut, Put, Spared
<1>4. /\ PolicyType(q, Keys, Vals) /\ q.kind = cache.kind
      /\ Entries(q) \subseteq Entries(cache) \cup {Entry(k, v)}
  BY <1>1, <1>2, PolicyPutSpec DEF Keeps
<1>5. PolicySound(q)
  BY <1>1, <1>2, PolicyPutSound DEF InOrder
<1>6. PutPromise(cache, k, v, r)
  BY <1>1, <1>3, PolicyPutExact
<1>7. Entry(k, v) \in Entries(q)
  BY <1>2, <1>6 DEF PutPromise
<1> HIDE DEF r, q
<1>8. live = LiveKeys(q)
  BY DEF q
<1>9. Entry(k, v).key = k
  BY KeyOfEntry
<1>10. k \in live /\ live \subseteq LiveKeys(cache) \cup {k}
  BY <1>4, <1>7, <1>8, <1>9 DEF LiveKeys
<1>11. live \subseteq Keys
  <2>1. Entries(q) \subseteq [key: Keys, val: Vals]
    BY <1>4, EntriesTyped
  <2> QED BY <1>8, <2>1 DEF LiveKeys
<1>12. /\ touched' = MovedLast(touched, k, live)
       /\ uses' = IF Remembered(k) THEN Readmitting(k, live) ELSE Using(k, live)
       /\ inserted' = IF k \in LiveKeys(cache) THEN inserted ELSE MovedLast(inserted, k, live)
  BY <1>10 DEF HPut
<1>13. uses \in [Keys -> 0 .. MaxFreq]
  BY DEF Recorded
<1>14. CASE Remembered(k)
  <2>1. UsedAgain(uses', k, live) /\ (MaxFreq >= 2 => uses'[k] = 2)
    BY <1>10, <1>12, <1>13, <1>14, ReadmittingCounts
  <2> QED BY <1>4, <1>5, <1>10, <1>11, <1>12, <1>14, <2>1 DEF q
<1>15. CASE ~ Remembered(k)
  <2>1. /\ UsedAgain(uses', k, live)
        /\ uses[k] < MaxFreq => uses'[k] = uses[k] + 1
        /\ uses[k] >= MaxFreq => uses'[k] = MaxFreq
    BY <1>10, <1>12, <1>13, <1>15, UsingCounts
  <2> QED BY <1>4, <1>5, <1>10, <1>11, <1>12, <1>15, <2>1 DEF q
<1> QED BY <1>14, <1>15

\* A put keeps the history in agreement.
LEMMA PutRecorded ==
  ASSUME IInv, Apart, Spared, Recorded(cache, touched, inserted, uses),
         NEW k \in Keys, NEW v \in Vals, HPut(k, v), cache.capacity > 0
  PROVE  Recorded(cache', touched', inserted', uses')
<1> DEFINE q == cache'
           live == LiveKeys(q)
           t == touched'
           i == inserted'
           u == uses'
<1>1. PolicyType(cache, Keys, Vals) /\ InOrder(cache)
  BY SparedInOrder
<1>2. /\ PolicyType(q, Keys, Vals) /\ PolicySound(q) /\ q.kind = cache.kind
      /\ k \in live /\ live \subseteq LiveKeys(cache) \cup {k} /\ live \subseteq Keys
      /\ t = MovedLast(touched, k, live)
      /\ i = IF k \in LiveKeys(cache) THEN inserted ELSE MovedLast(inserted, k, live)
  BY PutTakesIn
<1>3. /\ UsedAgain(u, k, live)
      /\ ~ Remembered(k) =>
           /\ uses[k] < MaxFreq => u[k] = uses[k] + 1
           /\ uses[k] >= MaxFreq => u[k] = MaxFreq
      /\ Remembered(k) /\ MaxFreq >= 2 => u[k] = 2
  BY PutTakesIn
<1>4. q = PolicyPut(cache, k, v).cache /\ BelowMaxFreq(k)
  BY DEF HPut, Put
<1>5. /\ uses \in [Keys -> 0 .. MaxFreq]
      /\ \A j \in Keys : j \notin LiveKeys(cache) => uses[j] = 0
  BY DEF Recorded
<1> HIDE DEF q, t, i, u
<1>6. u \in [Keys -> 0 .. MaxFreq] /\ \A j \in Keys : j \notin LiveKeys(q) => u[j] = 0
  BY <1>3 DEF UsedAgain
<1>7. ASSUME q.kind = "Recency" PROVE Told(q.map, IF q.touch_on_get THEN t ELSE i)
  <2>1. RecencyType(cache, Keys, Vals) /\ q = RecencyPut(cache, k, v).cache
    BY <1>1, <1>2, <1>4, <1>7, PolicyKinds DEF PolicyPut
  <2>2. LiveKeys(cache) = KeysOf(cache.map) /\ live = KeysOf(q.map)
    BY <1>1, <1>2, <1>7, LiveKeysOf
  <2>3. Told(cache.map, IF cache.touch_on_get THEN touched ELSE inserted)
    BY <1>2, <1>7 DEF Recorded
  <2> HIDE DEF live
  <2>4. q.touch_on_get = cache.touch_on_get
    BY <2>1, <2>3, RecencyPutTold
  <2>5. CASE cache.touch_on_get
    <3>1. Told(cache.map, touched)
      BY <2>3, <2>5
    <3>2. Told(q.map, MovedLast(touched, k, KeysOf(q.map)))
      BY <2>1, <2>5, <3>1, RecencyPutTold
    <3> QED BY <1>2, <2>2, <2>4, <2>5, <3>2
  <2>6. CASE ~ cache.touch_on_get /\ k \in LiveKeys(cache)
    <3>1. Told(cache.map, inserted)
      BY <2>3, <2>6
    <3>2. Told(q.map, inserted)
      <4>1. k \in KeysOf(cache.map)
        BY <2>2, <2>6
      <4>2. cache.capacity > 0 /\ ~ cache.touch_on_get
        BY <2>6
      <4> QED BY <2>1, <3>1, <4>1, <4>2, RecencyPutTold
    <3> QED BY <1>2, <2>4, <2>6, <3>2
  <2>7. CASE ~ cache.touch_on_get /\ k \notin LiveKeys(cache)
    <3>1. Told(cache.map, inserted)
      BY <2>3, <2>7
    <3>2. Told(q.map, MovedLast(inserted, k, KeysOf(q.map)))
      BY <2>1, <2>2, <2>7, <3>1, RecencyPutTold
    <3> QED BY <1>2, <2>2, <2>4, <2>7, <3>2
  <2> QED BY <2>5, <2>6, <2>7
<1>8. ASSUME q.kind = "Lfu"
      PROVE  BucketsTold(q.buckets, t) /\ \A j \in DOMAIN q.values : u[j] = q.values[j].freq
  <2>1. /\ LfuType(cache, Keys, Vals) /\ LfuSound(cache) /\ q = LfuPut(cache, k, v).cache
        /\ LiveKeys(cache) = DOMAIN cache.values /\ live = DOMAIN q.values
    BY <1>1, <1>2, <1>4, <1>8, PolicyKinds, LiveKeysOf DEF PolicyPut, InOrder, PolicySound
  <2>2. /\ BucketsTold(cache.buckets, touched)
        /\ \A j \in DOMAIN cache.values : uses[j] = cache.values[j].freq
    BY <1>2, <1>8 DEF Recorded
  <2> HIDE DEF live
  <2>3. BucketsTold(q.buckets, MovedLast(touched, k, DOMAIN q.values)) /\ Recounts(cache, q, k)
    BY <2>1, <2>2, LfuPutTold
  <2>4. ~ Remembered(k)
    BY <1>2, <1>8 DEF Remembered
  <2>5. \A j \in live : j # k => u[j] = q.values[j].freq
    BY <1>2, <1>3, <2>1, <2>2, <2>3 DEF Recounts, UsedAgain
  <2>6. u[k] = q.values[k].freq
    <3>1. CASE k \in DOMAIN cache.values
      <4>1. uses[k] < MaxFreq /\ uses[k] = cache.values[k].freq
        BY <1>2, <1>4, <1>8, <2>2, <3>1 DEF BelowMaxFreq
      <4> QED BY <1>3, <2>3, <2>4, <3>1, <4>1 DEF Recounts
    <3>2. CASE k \notin DOMAIN cache.values
      <4>1. uses[k] = 0 /\ uses[k] < MaxFreq
        BY <1>5, <2>1, <3>2, MachineAssumption
      <4> QED BY <1>3, <2>3, <2>4, <3>2, <4>1 DEF Recounts
    <3> QED BY <3>1, <3>2
  <2> QED BY <1>2, <2>1, <2>3, <2>5, <2>6
<1>9. ASSUME q.kind = "Arc"
      PROVE  /\ \A j \in KeysOf(q.t1) : u[j] = 1
             /\ \A j \in KeysOf(q.t2) : MaxFreq >= 2 => u[j] >= 2
  <2> DEFINE S == [key: Keys, val: Vals]
             B == [key: Keys, val: {Unit}]
  <2>1. /\ ArcShape(cache, S, B) /\ GhostsOf(S, B) /\ Entry(k, v) \in S
        /\ q = ArcPut(cache, k, v).cache
    BY <1>1, <1>2, <1>4, <1>9, PolicyKinds, ArcTypeShape, EntriesAreEntries DEF PolicyPut
  <2> HIDE DEF S, B
  <2>2. /\ LiveKeys(cache) = KeysOf(cache.t1) \cup KeysOf(cache.t2)
        /\ live = KeysOf(q.t1) \cup KeysOf(q.t2)
    BY <1>1, <1>2, <1>9, LiveKeysOf DEF LiveOf
  <2>3. k \notin LiveKeys(cache) /\ cache.kind = "Arc"
    BY <1>2, <1>9 DEF HPut, Put, Spared
  <2>4. /\ \A j \in KeysOf(cache.t1) : uses[j] = 1
        /\ \A j \in KeysOf(cache.t2) : MaxFreq >= 2 => uses[j] >= 2
    BY <2>3 DEF Recorded
  <2>5. ArcPlaces(cache, q, k)
    BY <2>1, ArcPutPlaces
  <2> HIDE DEF live
  <2>6. \A j \in live : j # k => u[j] = uses[j]
    BY <1>2, <1>3 DEF UsedAgain
  <2>7. CASE Remembered(k)
    <3>1. /\ KeysOf(q.t1) \subseteq KeysOf(cache.t1)
          /\ KeysOf(q.t2) \subseteq KeysOf(cache.t2) \cup {k}
      BY <2>5, <2>7 DEF Remembered, ArcPlaces
    <3>2. MaxFreq >= 2 => u[k] = 2
      BY <1>3, <2>7
    <3> QED BY <2>2, <2>3, <2>4, <2>6, <3>1, <3>2
  <2>8. CASE ~ Remembered(k)
    <3>1. /\ KeysOf(q.t1) \subseteq KeysOf(cache.t1) \cup {k}
          /\ KeysOf(q.t2) \subseteq KeysOf(cache.t2)
      BY <2>3, <2>5, <2>8 DEF Remembered, ArcPlaces
    <3>2. u[k] = 1
      <4>1. uses[k] = 0 /\ uses[k] < MaxFreq
        BY <1>5, <2>3, MachineAssumption
      <4> QED BY <1>3, <2>8, <4>1
    <3> QED BY <2>2, <2>3, <2>4, <2>6, <3>1, <3>2
  <2> QED BY <2>7, <2>8
<1>10. Recorded(q, t, i, u)
  BY <1>6, <1>7, <1>8, <1>9 DEF Recorded
<1> QED BY <1>10 DEF q, t, i, u

\* A fresh structure has no history.
LEMMA InitHInv == HInit => HInv
<1> SUFFICES ASSUME HInit PROVE HInv
  OBVIOUS
<1>1. Init /\ uses = [k \in Keys |-> 0]
  BY DEF HInit
<1>2. IInv /\ Apart
  BY <1>1, InitIInv, InitApart
<1>3. PICK p \in Policies, c \in Capacities : cache = PolicyNew(p, c)
  BY <1>1 DEF Init
<1>4. p \in EvictionPolicy /\ c \in Nat
  BY MachineAssumption
<1>5. Entries(cache) = {}
  BY <1>3, <1>4, PolicyNewSpec
<1>6. PolicyType(cache, Keys, Vals) /\ PolicySound(cache) /\ LiveKeys(cache) = {}
  BY <1>2, <1>5 DEF IInv, TypeOK, LiveKeys
<1> QED BY <1>1, <1>2, <1>6, EmptyRecorded DEF HInv

\* The history takes no part in what the machine does.
LEMMA HNextNext == [HNext]_hvars => [Next]_vars
BY DEF HNext, HGet, HPut, HClear, Next, hvars, vars

\* Every step keeps the history in agreement.
LEMMA NextHInv == HInv /\ [HNext]_hvars => HInv'
<1> SUFFICES ASSUME HInv, [HNext]_hvars PROVE HInv'
  OBVIOUS
<1>1. IInv /\ Apart /\ [Next]_vars
  BY HNextNext DEF HInv
<1>2. IInv' /\ Apart'
  BY <1>1, NextIInv, NextApart
<1>3. ASSUME Spared' PROVE Recorded(cache', touched', inserted', uses')
  <2>1. Spared
    BY <1>1, <1>3, StepKeeps DEF Spared
  <2>2. Recorded(cache, touched, inserted, uses)
    BY <2>1 DEF HInv
  <2>3. ASSUME NEW k \in Keys, HGet(k) PROVE Recorded(cache', touched', inserted', uses')
    BY <1>1, <2>1, <2>2, <2>3, GetRecorded
  <2>4. ASSUME NEW k \in Keys, NEW v \in Vals, HPut(k, v)
        PROVE  Recorded(cache', touched', inserted', uses')
    <3>1. CASE cache.capacity = 0
      <4>1. cache' = cache /\ UNCHANGED history
        BY <1>1, <2>1, <2>4, <3>1, PutDisabledKeeps
      <4> QED BY <2>2, <4>1 DEF history
    <3>2. CASE cache.capacity > 0
      BY <1>1, <2>1, <2>2, <2>4, <3>2, PutRecorded
    <3>3. cache.capacity \in Nat
      BY <1>1, <2>1, SparedInOrder, SoundWithinCapacity DEF InOrder
    <3> QED BY <3>1, <3>2, <3>3
  <2>5. ASSUME HClear PROVE Recorded(cache', touched', inserted', uses')
    <3> DEFINE q == cache'
    <3>1. PolicyType(cache, Keys, Vals) /\ q = PolicyClear(cache) /\ uses' = [k \in Keys |-> 0]
      BY <1>1, <2>5 DEF HClear, Clear, IInv, TypeOK
    <3>2. PolicyType(q, Keys, Vals) /\ Entries(q) = {} /\ PolicySound(q)
      BY <3>1, PolicyClearSpec, PolicyClearSound DEF Keeps
    <3>3. LiveKeys(q) = {}
      BY <3>2 DEF LiveKeys
    <3> HIDE DEF q
    <3>4. Recorded(q, touched', inserted', uses')
      BY <3>1, <3>2, <3>3, EmptyRecorded
    <3> QED BY <3>4 DEF q
  <2>6. ASSUME UNCHANGED hvars PROVE Recorded(cache', touched', inserted', uses')
    BY <2>2, <2>6 DEF hvars
  <2> QED BY <2>3, <2>4, <2>5, <2>6 DEF HNext
<1> QED BY <1>2, <1>3 DEF HInv

-----------------------------------------------------------------------------
\* Which key makes way.

\* Only a put that is not disabled has a victim.
LEMMA VictimsOfPut ==
  ASSUME IInv, Apart, Spared, HNext, NEW y \in Victims
  PROVE  \E k \in Keys, v \in Vals : HPut(k, v) /\ cache.capacity > 0
<1>1. out'.evicted /\ y \in LiveKeys(cache)
  BY DEF Victims
<1>2. ASSUME NEW k \in Keys, HGet(k) PROVE FALSE
  BY <1>1, <1>2 DEF HGet, Get, Returned
<1>3. ASSUME HClear PROVE FALSE
  BY <1>1, <1>3 DEF HClear, Clear, Returned
<1>4. PICK k \in Keys, v \in Vals : HPut(k, v)
  BY <1>2, <1>3 DEF HNext
<1>5. cache.capacity # 0
  BY <1>1, <1>4, PutDisabledKeeps
<1>6. cache.capacity \in Nat
  BY SparedInOrder, SoundWithinCapacity DEF InOrder
<1> QED BY <1>4, <1>5, <1>6

\* Under LRU and FIFO it is the one at the back of the list.
LEMMA RecencyVictim ==
  ASSUME HInv, HNext, cache.kind = "Recency", NEW y \in Victims, NEW j \in Others(y)
  PROVE  <<y, j>> \in IF cache.touch_on_get THEN touched ELSE inserted
<1> DEFINE m == cache.map
           n == cache'.map
<1>1. IInv /\ Apart /\ Spared /\ Recorded(cache, touched, inserted, uses)
  BY DEF HInv, Spared
<1>2. PICK k \in Keys, v \in Vals : HPut(k, v) /\ cache.capacity > 0
  BY <1>1, VictimsOfPut
<1> DEFINE r == PolicyPut(cache, k, v)
           q == cache'
<1>3. q = r.cache /\ out'.evicted = r.evicted
  BY <1>2 DEF HPut, Put, Returned
<1>4. PolicyType(cache, Keys, Vals) /\ InOrder(cache)
  BY <1>1, SparedInOrder
<1>5. RecencyType(cache, Keys, Vals) /\ RecencyLen(cache) <= cache.capacity /\ r = RecencyPut(cache, k, v)
  BY <1>4, PolicyKinds DEF InOrder, PolicySound, PolicyPut
<1>6. PolicyType(q, Keys, Vals) /\ q.kind = "Recency"
  BY <1>1, <1>2, PutTakesIn
<1>7. LiveKeys(cache) = KeysOf(m) /\ LiveKeys(q) = KeysOf(n)
  BY <1>4, <1>6, LiveKeysOf
<1> HIDE DEF r
<1>8. BackMakesWay(m, n, cache.capacity, k, r.evicted)
  BY <1>2, <1>3, <1>5, RecencyPutExact
<1>9. m \in Seq([key: Keys, val: Vals]) /\ Len(m) \in Nat /\ Len(m) <= cache.capacity /\ cache.capacity \in Nat
  BY <1>5 DEF RecencyType, RecencyLen, Size
<1>10. r.evicted /\ y \in KeysOf(m) /\ y \notin KeysOf(n) /\ j \in KeysOf(m) /\ j # y
  BY <1>3, <1>7 DEF Victims, Others
<1> HIDE DEF m, n, q
<1>11. k \notin KeysOf(m) /\ Len(m) = cache.capacity
  BY <1>8, <1>9, <1>10 DEF BackMakesWay
<1>12. y = BackOf(m).key
  BY <1>8, <1>10, <1>11 DEF BackMakesWay
<1>13. Told(m, IF cache.touch_on_get THEN touched ELSE inserted)
  BY <1>1 DEF Recorded, m
<1>14. m # <<>>
  BY <1>2, <1>11
<1> QED BY <1>9, <1>10, <1>12, <1>13, <1>14, BackFirst

\* Under LFU it is the one at the back of the lowest bucket.
LEMMA LfuVictimLeast ==
  ASSUME HInv, HNext, cache.kind = "Lfu", NEW y \in Victims, NEW j \in Others(y)
  PROVE  uses[y] < uses[j] \/ (uses[y] = uses[j] /\ <<y, j>> \in touched)
<1> DEFINE vs == cache.values
           low == Bucket(cache.buckets, cache.min_freq)
           x == LfuVictim(cache)
<1>1. IInv /\ Apart /\ Spared /\ Recorded(cache, touched, inserted, uses)
  BY DEF HInv, Spared
<1>2. PICK k \in Keys, v \in Vals : HPut(k, v) /\ cache.capacity > 0
  BY <1>1, VictimsOfPut
<1> DEFINE r == PolicyPut(cache, k, v)
           q == cache'
<1>3. q = r.cache /\ out'.evicted = r.evicted
  BY <1>2 DEF HPut, Put, Returned
<1>4. PolicyType(cache, Keys, Vals) /\ InOrder(cache)
  BY <1>1, SparedInOrder
<1>5. LfuType(cache, Keys, Vals) /\ LfuSound(cache) /\ r = LfuPut(cache, k, v)
  BY <1>4, PolicyKinds DEF InOrder, PolicySound, PolicyPut
<1>6. PolicyType(q, Keys, Vals) /\ q.kind = "Lfu"
  BY <1>1, <1>2, PutTakesIn
<1>7. LiveKeys(cache) = DOMAIN vs /\ LiveKeys(q) = DOMAIN q.values
  BY <1>4, <1>6, LiveKeysOf
<1> HIDE DEF r
<1>8. VictimMakesWay(cache, q, k, r.evicted)
  BY <1>2, <1>3, <1>5, LfuPutExact
<1>9. r.evicted /\ y \in DOMAIN vs /\ y \notin DOMAIN q.values /\ j \in DOMAIN vs /\ j # y
  BY <1>3, <1>7 DEF Victims, Others
<1>10. k \notin DOMAIN vs /\ Cardinality(DOMAIN vs) = cache.capacity
  <2>1. IsFiniteSet(DOMAIN vs) /\ Cardinality(DOMAIN vs) <= cache.capacity /\ cache.capacity \in Nat
    BY <1>5, LfuTypeFields DEF LfuSound
  <2>2. Cardinality(DOMAIN vs) \in Nat
    BY <2>1, FS_CardinalityType
  <2> QED BY <1>8, <1>9, <2>1, <2>2 DEF VictimMakesWay
<1>11. y = x /\ vs[x].freq = cache.min_freq
  BY <1>8, <1>9, <1>10 DEF VictimMakesWay
<1>12. BucketsTold(cache.buckets, touched) /\ \A i \in DOMAIN vs : uses[i] = vs[i].freq
  BY <1>1 DEF Recorded
<1>13. /\ cache.min_freq \in Nat /\ BucketsType(cache.buckets, [key: Keys, val: {Unit}])
       /\ \A i \in DOMAIN vs : vs[i].freq \in Nat
  BY <1>5, LfuTypeFields DEF ValuesType
<1>14. cache.min_freq <= vs[j].freq
  BY <1>5, <1>9 DEF LfuSound, LowestAt
<1>15. uses[y] = cache.min_freq /\ uses[j] = vs[j].freq /\ vs[j].freq \in Nat
  BY <1>9, <1>11, <1>12, <1>13
<1>16. ASSUME vs[j].freq = cache.min_freq PROVE <<y, j>> \in touched
  <2>1. KeysOf(low) = KeysAt(vs, cache.min_freq)
    BY <1>5, <1>13 DEF LfuSound, Grouped
  <2>2. j \in KeysOf(low)
    BY <1>9, <1>16, <2>1 DEF KeysAt
  <2>3. low \in Seq([key: Keys, val: {Unit}]) /\ Told(low, touched)
    BY <1>12, <1>13, BucketType DEF BucketsTold
  <2>4. x = BackOf(low).key
    BY DEF LfuVictim
  <2> HIDE DEF low, x
  <2>5. low # <<>>
    BY <2>2 DEF KeysOf
  <2> QED BY <1>9, <1>11, <2>2, <2>3, <2>4, <2>5, BackFirst
<1> QED BY <1>13, <1>14, <1>15, <1>16

\* Under ARC, with a target of 0, it is in t2 only if t1 is empty.
LEMMA ArcVictim ==
  ASSUME HInv, HNext, cache.kind = "Arc", Spared, cache.p = 0, cache'.p = 0,
         NEW y \in Victims, uses[y] >= 2, NEW j \in Others(y)
  PROVE  uses[j] >= 2
<1> DEFINE S == [key: Keys, val: Vals]
           B == [key: Keys, val: {Unit}]
           q == cache'
<1>1. IInv /\ Apart /\ Recorded(cache, touched, inserted, uses)
  BY DEF HInv
<1>2. PICK k \in Keys, v \in Vals : HPut(k, v) /\ cache.capacity > 0
  BY <1>1, VictimsOfPut
<1>3. q = PolicyPut(cache, k, v).cache
  BY <1>2 DEF HPut, Put
<1>4. PolicyType(cache, Keys, Vals)
  BY <1>1, SparedInOrder
<1>5. PolicyType(q, Keys, Vals) /\ q.kind = "Arc"
  BY <1>1, <1>2, PutTakesIn
<1>6. LiveKeys(cache) = KeysOf(cache.t1) \cup KeysOf(cache.t2) /\ LiveKeys(q) = KeysOf(q.t1) \cup KeysOf(q.t2)
  BY <1>4, <1>5, LiveKeysOf DEF LiveOf
<1>7. /\ ArcShape(cache, S, B) /\ GhostsOf(S, B) /\ Entry(k, v) \in S
      /\ q = ArcPut(cache, k, v).cache
  BY <1>3, <1>4, PolicyKinds, ArcTypeShape, EntriesAreEntries DEF PolicyPut
<1>8. y \in LiveKeys(cache) /\ y \notin LiveKeys(q) /\ j \in LiveKeys(cache)
  BY DEF Victims, Others
<1>9. /\ uses \in [Keys -> 0 .. MaxFreq]
      /\ \A i \in KeysOf(cache.t1) : uses[i] = 1
      /\ \A i \in KeysOf(cache.t2) : MaxFreq >= 2 => uses[i] >= 2
  BY <1>1 DEF Recorded
<1> HIDE DEF S, B, q
<1>10. cache.p = 0 /\ q.p = 0
  BY DEF q
<1>11. y \in KeysOf(cache.t2)
  BY <1>6, <1>8, <1>9
<1>12. MaxFreq >= 2
  <2>1. y \in Keys
    <3>1. Entries(cache) \subseteq [key: Keys, val: Vals]
      BY <1>4, EntriesTyped
    <3> QED BY <1>8, <3>1 DEF LiveKeys
  <2>2. uses[y] \in 0 .. MaxFreq /\ MaxFreq \in Nat
    BY <1>9, <2>1, MachineAssumption
  <2> QED BY <2>2
<1>13. ArcPlaces(cache, q, k)
  BY <1>2, <1>7, ArcPutPlaces
<1>14. cache.t1 = <<>>
  BY <1>6, <1>8, <1>10, <1>11, <1>13 DEF ArcPlaces
<1>15. j \in KeysOf(cache.t2)
  BY <1>6, <1>8, <1>14 DEF KeysOf
<1> QED BY <1>9, <1>12, <1>15

\* In every behaviour the entry LRU discards is the one whose last hit or write
\* is the oldest, whatever was read and rewritten in between
\* (src/config.rs:26, src/policy.rs:47-68).
THEOREM LruDiscardsUntouched == HSpec => LruVictim
<1>1. HInv /\ [HNext]_hvars =>
        [cache.kind = "Recency" /\ cache.touch_on_get =>
           \A v \in Victims : \A j \in Others(v) : <<v, j>> \in touched]_hvars
  BY RecencyVictim
<1> QED BY <1>1, InitHInv, NextHInv, PTL DEF HSpec, LruVictim

\* In every behaviour the entry FIFO discards is the one inserted first, however
\* often it was read or rewritten (src/config.rs:35-36, src/policy.rs:47-68).
THEOREM FifoDiscardsOldest == HSpec => FifoVictim
<1>1. HInv /\ [HNext]_hvars =>
        [cache.kind = "Recency" /\ ~ cache.touch_on_get =>
           \A v \in Victims : \A j \in Others(v) : <<v, j>> \in inserted]_hvars
  BY RecencyVictim
<1> QED BY <1>1, InitHInv, NextHInv, PTL DEF HSpec, FifoVictim

\* In every behaviour the entry LFU discards is one of the least used and, of
\* those, the one untouched for the longest (src/policy.rs:81-84, 93-176).
THEOREM LfuDiscardsLeastUsed == HSpec => LfuVictimRule
<1>1. HInv /\ [HNext]_hvars =>
        [cache.kind = "Lfu" =>
           \A v \in Victims : \A j \in Others(v) :
             \/ uses[v] < uses[j]
             \/ uses[v] = uses[j] /\ <<v, j>> \in touched]_hvars
  BY LfuVictimLeast
<1> QED BY <1>1, InitHInv, NextHInv, PTL DEF HSpec, LfuVictimRule

\* In every behaviour in which no live key is put into an ARC cache, it gives up
\* an entry used twice, with a target that stays 0, only when no entry used
\* once is left: a scan leaves t2 alone (src/policy.rs:188-195, 226-295).
THEOREM ArcResistsScans ==
  ASSUME ArcIsSpared
  PROVE  HSpec => ArcScanResistant
<1>1. HInit => ArcIsChosen
  BY InitArcIsChosen DEF HInit
<1>2. HInv /\ ArcIsChosen /\ [HNext]_hvars => ArcIsChosen'
  BY HNextNext, StepKeeps DEF ArcIsChosen, HInv
<1>3. ArcIsChosen => Spared
  BY DEF ArcIsChosen, ArcIsSpared, Spared
<1>4. HInv /\ ArcIsChosen /\ [HNext]_hvars =>
        [cache.kind = "Arc" /\ cache.p = 0 /\ cache'.p = 0 =>
           \A v \in Victims : uses[v] >= 2 => \A j \in Others(v) : uses[j] >= 2]_hvars
  BY <1>3, ArcVictim
<1> QED BY <1>1, <1>2, <1>4, InitHInv, NextHInv, PTL DEF HSpec, ArcScanResistant
==============================================================================
