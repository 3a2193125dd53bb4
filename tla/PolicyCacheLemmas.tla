-------------------------- MODULE PolicyCacheLemmas --------------------------
(***************************************************************************)
(* What get, put and clear of each eviction policy return and preserve,    *)
(* for every capacity and all sets of keys and values.                     *)
(***************************************************************************)
EXTENDS PolicyCache, ArcLemmas, FiniteSetTheorems

-----------------------------------------------------------------------------
\* RecencyCache

\* LRU's and FIFO's get: it reorders the map at most, and finds an entry of it.
LEMMA RecencyGetSpec ==
  ASSUME NEW K, NEW V, NEW c, RecencyType(c, K, V), NEW k
  PROVE  /\ RecencyType(RecencyGet(c, k).cache, K, V)
         /\ RecencyGet(c, k).cache.capacity = c.capacity
         /\ RecencyEntries(RecencyGet(c, k).cache) \subseteq RecencyEntries(c)
         /\ RecencyLen(RecencyGet(c, k).cache) = RecencyLen(c)
         /\ \A v \in RecencyGet(c, k).found : Entry(k, v) \in RecencyEntries(c)
<1> DEFINE S == [key: K, val: V]
           m == c.map
           n == IF c.touch_on_get THEN MoveToFront(m, k) ELSE m
<1>1. EntrySet(S)
  BY EntriesAreEntries
<1>2. m \in Seq(S) /\ Distinct(m)
  BY DEF RecencyType
<1> HIDE DEF S
<1>3. n \in Seq(S) /\ Distinct(n) /\ ToSet(n) \subseteq ToSet(m) /\ Len(n) = Len(m)
  BY <1>1, <1>2, MoveToFrontSpec
<1>4. /\ RecencyGet(c, k).cache = [c EXCEPT !.map = n]
      /\ RecencyGet(c, k).found = FoundIn(m, k)
  BY DEF RecencyGet, GetResult
<1>5. \A v \in FoundIn(m, k) : Entry(k, v) \in ToSet(m)
  BY <1>1, <1>2, ValueOfSpec DEF FoundIn
<1> HIDE DEF m, n
<1>6. /\ RecencyType([c EXCEPT !.map = n], K, V)
      /\ [c EXCEPT !.map = n].map = n /\ [c EXCEPT !.map = n].capacity = c.capacity
  BY <1>3 DEF RecencyType, S
<1> QED BY <1>3, <1>4, <1>5, <1>6 DEF RecencyEntries, RecencyLen, Size, m

\* LRU's and FIFO's put: the map gains no entry but the new one and does not
\* outgrow the capacity.
LEMMA RecencyPutSpec ==
  ASSUME NEW K, NEW V, NEW c, RecencyType(c, K, V), NEW k \in K, NEW v \in V
  PROVE  /\ RecencyType(RecencyPut(c, k, v).cache, K, V)
         /\ RecencyPut(c, k, v).cache.capacity = c.capacity
         /\ RecencyEntries(RecencyPut(c, k, v).cache) \subseteq RecencyEntries(c) \cup {Entry(k, v)}
         /\ RecencyLen(c) <= c.capacity => RecencyLen(RecencyPut(c, k, v).cache) <= c.capacity
<1> DEFINE S == [key: K, val: V]
           m == c.map
           With(n) == [c EXCEPT !.map = n]
           Good(n) == /\ n \in Seq(S) /\ Distinct(n)
                      /\ ToSet(n) \subseteq ToSet(m) \cup {Entry(k, v)}
                      /\ Len(m) <= c.capacity => Len(n) <= c.capacity
<1>1. EntrySet(S) /\ Entry(k, v) \in S
  BY EntriesAreEntries
<1>2. m \in Seq(S) /\ Distinct(m) /\ c.capacity \in Nat
  BY DEF RecencyType
<1> HIDE DEF S
<1>3. ASSUME NEW n, Good(n), RecencyPut(c, k, v).cache = With(n)
      PROVE  /\ RecencyType(RecencyPut(c, k, v).cache, K, V)
             /\ RecencyPut(c, k, v).cache.capacity = c.capacity
             /\ RecencyEntries(RecencyPut(c, k, v).cache) \subseteq RecencyEntries(c) \cup {Entry(k, v)}
             /\ RecencyLen(c) <= c.capacity => RecencyLen(RecencyPut(c, k, v).cache) <= c.capacity
  <2>1. RecencyType(With(n), K, V) /\ With(n).map = n /\ With(n).capacity = c.capacity
    BY <1>3 DEF RecencyType, S
  <2> QED BY <1>3, <2>1 DEF RecencyEntries, RecencyLen, Size
<1>4. CASE c.capacity = 0
  <2>1. RecencyPut(c, k, v).cache = c
    BY <1>4 DEF RecencyPut, PutResult
  <2> QED BY <2>1
<1>5. CASE c.capacity > 0 /\ Holds(m, k)
  <2> DEFINE u == UpdateValue(m, k, v)
             n == IF c.touch_on_get THEN MoveToFront(u, k) ELSE u
  <2>1. RecencyPut(c, k, v).cache = With(n)
    <3>1. RecencyPut(c, k, v).cache = RecencyRefresh(c, k, v)
      BY <1>2, <1>5 DEF RecencyPut, PutResult
    <3> QED BY <3>1 DEF RecencyRefresh
  <2>2. /\ u \in Seq(S) /\ Len(u) = Len(m) /\ Distinct(u)
        /\ ToSet(u) \subseteq ToSet(m) \cup {Entry(k, v)}
    BY <1>1, <1>2, UpdateValueSpec
  <2> HIDE DEF u
  <2>3. n \in Seq(S) /\ Len(n) = Len(m) /\ Distinct(n) /\ ToSet(n) \subseteq ToSet(u)
    BY <1>1, <2>2, MoveToFrontSpec
  <2> HIDE DEF n
  <2>4. Good(n)
    BY <2>2, <2>3
  <2> QED BY <1>3, <2>1, <2>4
<1>6. CASE c.capacity > 0 /\ ~ Holds(m, k)
  <2> DEFINE g == InsertFront(m, k, v)
             n == IF Len(g) > c.capacity THEN PopBack(g) ELSE g
  <2>1. RecencyPut(c, k, v).cache = With(n)
    <3>1. RecencyPut(c, k, v) = RecencyAdmit(c, k, v)
      <4>1. ~ (c.capacity = 0) /\ ~ Holds(c.map, k) /\ c.capacity > 0
        BY <1>2, <1>6
      <4> HIDE DEF m, With, Good, g, n
      <4> QED BY <4>1 DEF RecencyPut
    <3> QED BY <3>1 DEF RecencyAdmit, RecencyOverflows, PutResult, Size
  <2>2. /\ g \in Seq(S) /\ Len(g) = Len(m) + 1 /\ Distinct(g)
        /\ ToSet(g) \subseteq ToSet(m) \cup {Entry(k, v)}
    BY <1>1, <1>2, <1>6, InsertFrontSpec
  <2> HIDE DEF g
  <2>3. /\ PopBack(g) \in Seq(S) /\ Distinct(PopBack(g)) /\ ToSet(PopBack(g)) \subseteq ToSet(g)
        /\ Len(PopBack(g)) = Len(m)
    BY <1>2, <2>2, PopBackSpec
  <2>4. Good(n)
    BY <1>2, <2>2, <2>3
  <2> QED BY <1>3, <2>1, <2>4
<1> QED BY <1>2, <1>4, <1>5, <1>6

-----------------------------------------------------------------------------
\* LfuCache

\* The buckets half of LfuType.
BucketsType(b, S) ==
  /\ DOMAIN b \subseteq Nat
  /\ b \in [DOMAIN b -> Seq(S)]
  /\ \A f \in DOMAIN b : Distinct(b[f])

\* Every bucket, an absent one read as empty, is a list without duplicates.
LEMMA BucketType ==
  ASSUME NEW S, NEW b, BucketsType(b, S), NEW f
  PROVE  Bucket(b, f) \in Seq(S) /\ Distinct(Bucket(b, f))
<1>1. <<>> \in Seq(S) /\ Distinct(<<>>)
  BY DEF Distinct
<1> QED BY <1>1 DEF Bucket, BucketsType

\* Writing a list without duplicates at a frequency keeps the buckets so.
LEMMA SetBucketType ==
  ASSUME NEW S, NEW b, BucketsType(b, S), NEW f \in Nat, NEW m \in Seq(S), Distinct(m)
  PROVE  BucketsType(SetBucket(b, f, m), S)
<1> DEFINE c == SetBucket(b, f, m)
<1>1. DOMAIN c = (DOMAIN b \ {f}) \cup (IF m = <<>> THEN {} ELSE {f})
  BY DEF SetBucket
<1>2. \A g \in DOMAIN c : c[g] = IF g = f THEN m ELSE b[g]
  BY DEF SetBucket
<1>3. c = [g \in DOMAIN c |-> c[g]]
  BY DEF SetBucket
<1> HIDE DEF c
<1>4. \A g \in DOMAIN c : c[g] \in Seq(S) /\ Distinct(c[g]) /\ g \in Nat
  BY <1>1, <1>2 DEF BucketsType
<1> QED BY <1>3, <1>4 DEF BucketsType, c

\* The values half of LfuType.
ValuesType(vs, K, V) ==
  /\ DOMAIN vs \subseteq K
  /\ vs \in [DOMAIN vs -> [val: V, freq: Nat]]

\* LfuType, field by field.
LEMMA LfuTypeFields ==
  ASSUME NEW K, NEW V, NEW l
  PROVE  LfuType(l, K, V) <=>
           /\ l = LfuCache(l.values, l.buckets, l.min_freq, l.capacity)
           /\ ValuesType(l.values, K, V)
           /\ BucketsType(l.buckets, [key: K, val: {Unit}])
           /\ l.min_freq \in Nat /\ l.capacity \in Nat
BY DEF LfuType, ValuesType, BucketsType

\* The fields of an LfuCache are what it was made of.
LEMMA LfuCacheFields ==
  ASSUME NEW vs, NEW b, NEW f, NEW c
  PROVE  LET r == LfuCache(vs, b, f, c)
         IN  r.kind = "Lfu" /\ r.values = vs /\ r.buckets = b /\ r.min_freq = f /\ r.capacity = c
BY DEF LfuCache

\* What an operation must establish of the fields it writes.
LEMMA LfuCacheType ==
  ASSUME NEW K, NEW V, NEW c \in Nat, NEW f \in Nat,
         NEW vs, ValuesType(vs, K, V),
         NEW b, BucketsType(b, [key: K, val: {Unit}])
  PROVE  LfuType(LfuCache(vs, b, f, c), K, V)
<1> DEFINE B == [key: K, val: {Unit}]
           r == LfuCache(vs, b, f, c)
<1>1. r.values = vs /\ r.buckets = b /\ r.min_freq = f /\ r.capacity = c
  BY LfuCacheFields
<1>2. r = LfuCache(r.values, r.buckets, r.min_freq, r.capacity)
  BY <1>1
<1> HIDE DEF r, B
<1>3. LfuType(r, K, V)
  BY <1>1, <1>2, LfuTypeFields DEF B
<1> QED BY <1>3 DEF r

\* The key lists: inserting a key of K and removing any key keep the type.
LEMMA KeyListSpec ==
  ASSUME NEW K, NEW k \in K, NEW m \in Seq([key: K, val: {Unit}]), Distinct(m)
  PROVE  /\ InsertFront(m, k, Unit) \in Seq([key: K, val: {Unit}])
         /\ Distinct(InsertFront(m, k, Unit))
         /\ Without(m, k) \in Seq([key: K, val: {Unit}])
         /\ Distinct(Without(m, k))
<1> DEFINE B == [key: K, val: {Unit}]
<1>1. Entry(k, Unit) \in B
  BY EntriesAreEntries
<1> HIDE DEF B
<1>2. /\ InsertFront(m, k, Unit) \in Seq(B) /\ Distinct(InsertFront(m, k, Unit))
      /\ Without(m, k) \in Seq(B) /\ Distinct(Without(m, k))
  BY <1>1, InsertFrontSpec, WithoutSpec, WithoutDistinct DEF B
<1> QED BY <1>2 DEF B

\* bump changes a frequency and no value.
LEMMA BumpSpec ==
  ASSUME NEW K, NEW V, NEW l, LfuType(l, K, V), NEW k \in DOMAIN l.values
  PROVE  /\ LfuType(Bump(l, k), K, V)
         /\ Bump(l, k).capacity = l.capacity
         /\ DOMAIN Bump(l, k).values = DOMAIN l.values
         /\ \A j \in DOMAIN l.values : Bump(l, k).values[j].val = l.values[j].val
<1> DEFINE B == [key: K, val: {Unit}]
           f == l.values[k].freq
           left == SetBucket(l.buckets, f, Without(Bucket(l.buckets, f), k))
           vs == [l.values EXCEPT ![k].freq = f + 1]
           b == SetBucket(left, f + 1, InsertFront(Bucket(left, f + 1), k, Unit))
           n == MinAfterBump(l, f, left)
<1>1. /\ ValuesType(l.values, K, V) /\ BucketsType(l.buckets, B)
      /\ l.min_freq \in Nat /\ k \in K
  BY LfuTypeFields DEF ValuesType
<1>2. f \in Nat
  BY <1>1 DEF ValuesType
<1>3. /\ ValuesType(vs, K, V) /\ DOMAIN vs = DOMAIN l.values
      /\ \A j \in DOMAIN l.values : vs[j].val = l.values[j].val
  BY <1>1, <1>2 DEF ValuesType
<1> HIDE DEF f
<1>4. BucketsType(left, B)
  <2>1. Bucket(l.buckets, f) \in Seq(B) /\ Distinct(Bucket(l.buckets, f))
    BY <1>1, BucketType
  <2>2. Without(Bucket(l.buckets, f), k) \in Seq(B) /\ Distinct(Without(Bucket(l.buckets, f), k))
    BY <2>1, <1>1, KeyListSpec
  <2> HIDE DEF B
  <2> QED BY <2>2, <1>1, <1>2, SetBucketType
<1> HIDE DEF left
<1>5. BucketsType(b, B)
  <2>1. Bucket(left, f + 1) \in Seq(B) /\ Distinct(Bucket(left, f + 1))
    BY <1>4, BucketType
  <2>2. /\ InsertFront(Bucket(left, f + 1), k, Unit) \in Seq(B)
        /\ Distinct(InsertFront(Bucket(left, f + 1), k, Unit))
    BY <2>1, <1>1, KeyListSpec
  <2>3. f + 1 \in Nat
    BY <1>2
  <2> HIDE DEF B
  <2> QED BY <2>2, <2>3, <1>4, SetBucketType
<1>6. n \in Nat
  BY <1>1, <1>2 DEF MinAfterBump
<1>7. Bump(l, k) = LfuCache(vs, b, n, l.capacity)
  BY DEF Bump, f, left
<1>8. l.capacity \in Nat
  BY LfuTypeFields
<1> HIDE DEF vs, b, n
<1>9. LfuType(Bump(l, k), K, V)
  BY <1>3, <1>5, <1>6, <1>7, <1>8, LfuCacheType
<1>10. Bump(l, k).values = vs /\ Bump(l, k).capacity = l.capacity
  BY <1>7, LfuCacheFields
<1> QED BY <1>3, <1>9, <1>10

\* A get bumps the key it finds; the entries stay.
LEMMA LfuGetSpec ==
  ASSUME NEW K, NEW V, NEW l, LfuType(l, K, V), NEW k
  PROVE  /\ LfuType(LfuGet(l, k).cache, K, V)
         /\ LfuGet(l, k).cache.capacity = l.capacity
         /\ LfuEntries(LfuGet(l, k).cache) \subseteq LfuEntries(l)
         /\ \A v \in LfuGet(l, k).found : Entry(k, v) \in LfuEntries(l)
<1>1. CASE k \in DOMAIN l.values
  <2>1. LfuGet(l, k).cache = Bump(l, k) /\ LfuGet(l, k).found = {l.values[k].val}
    BY <1>1 DEF LfuGet, GetResult
  <2>2. LfuEntries(Bump(l, k)) = LfuEntries(l)
    BY <1>1, BumpSpec DEF LfuEntries
  <2>3. Entry(k, l.values[k].val) \in LfuEntries(l)
    BY <1>1 DEF LfuEntries
  <2> QED BY <1>1, <2>1, <2>2, <2>3, BumpSpec
<1>2. CASE k \notin DOMAIN l.values
  <2>1. LfuGet(l, k).cache = l /\ LfuGet(l, k).found = {}
    BY <1>2 DEF LfuGet, GetResult
  <2> QED BY <2>1
<1> QED BY <1>1, <1>2

\* A put of a cached key changes its value only.
LEMMA LfuRefreshSpec ==
  ASSUME NEW K, NEW V, NEW l, LfuType(l, K, V), NEW k \in DOMAIN l.values, NEW v \in V
  PROVE  /\ LfuType(LfuRefresh(l, k, v), K, V)
         /\ LfuRefresh(l, k, v).capacity = l.capacity
         /\ LfuEntries(LfuRefresh(l, k, v)) \subseteq LfuEntries(l) \cup {Entry(k, v)}
<1> DEFINE vs == [l.values EXCEPT ![k].val = v]
           u == LfuCache(vs, l.buckets, l.min_freq, l.capacity)
<1>1. /\ ValuesType(l.values, K, V) /\ BucketsType(l.buckets, [key: K, val: {Unit}])
      /\ l.min_freq \in Nat /\ l.capacity \in Nat
  BY LfuTypeFields
<1>2. /\ ValuesType(vs, K, V) /\ DOMAIN vs = DOMAIN l.values
      /\ \A j \in DOMAIN vs : vs[j].val = IF j = k THEN v ELSE l.values[j].val
  BY <1>1 DEF ValuesType
<1> HIDE DEF vs
<1>3. LfuType(u, K, V) /\ u.values = vs /\ u.capacity = l.capacity
  BY <1>1, <1>2, LfuCacheType, LfuCacheFields
<1>4. LfuRefresh(l, k, v) = Bump(u, k)
  BY DEF LfuRefresh, vs
<1> HIDE DEF u
<1>5. /\ LfuType(Bump(u, k), K, V) /\ Bump(u, k).capacity = l.capacity
      /\ DOMAIN Bump(u, k).values = DOMAIN vs
      /\ \A j \in DOMAIN vs : Bump(u, k).values[j].val = vs[j].val
  BY <1>2, <1>3, BumpSpec
<1>6. LfuEntries(Bump(u, k)) \subseteq LfuEntries(l) \cup {Entry(k, v)}
  BY <1>2, <1>5 DEF LfuEntries
<1> QED BY <1>4, <1>5, <1>6

\* An eviction adds no entry.
LEMMA LfuEvictSpec ==
  ASSUME NEW K, NEW V, NEW l, LfuType(l, K, V), LfuMustEvict(l)
  PROVE  /\ LfuType(LfuEvict(l), K, V)
         /\ LfuEvict(l).capacity = l.capacity
         /\ LfuEntries(LfuEvict(l)) \subseteq LfuEntries(l)
<1> DEFINE B == [key: K, val: {Unit}]
           vs == [j \in DOMAIN l.values \ {LfuVictim(l)} |-> l.values[j]]
           b == SetBucket(l.buckets, l.min_freq, PopBack(Bucket(l.buckets, l.min_freq)))
<1>1. /\ ValuesType(l.values, K, V) /\ BucketsType(l.buckets, B)
      /\ l.min_freq \in Nat /\ l.capacity \in Nat
  BY LfuTypeFields
<1>2. /\ ValuesType(vs, K, V) /\ DOMAIN vs \subseteq DOMAIN l.values
      /\ \A j \in DOMAIN vs : vs[j].val = l.values[j].val
  BY <1>1 DEF ValuesType
<1>3. BucketsType(b, B)
  <2> HIDE DEF B
  <2>1. Bucket(l.buckets, l.min_freq) \in Seq(B) /\ Distinct(Bucket(l.buckets, l.min_freq))
    BY <1>1, BucketType
  <2>2. /\ PopBack(Bucket(l.buckets, l.min_freq)) \in Seq(B)
        /\ Distinct(PopBack(Bucket(l.buckets, l.min_freq)))
    BY <2>1, PopBackSpec
  <2> QED BY <2>2, <1>1, SetBucketType
<1>4. LfuEvict(l) = LfuCache(vs, b, l.min_freq, l.capacity)
  BY DEF LfuEvict
<1> HIDE DEF vs, b
<1>5. LfuType(LfuEvict(l), K, V) /\ LfuEvict(l).values = vs /\ LfuEvict(l).capacity = l.capacity
  BY <1>1, <1>2, <1>3, <1>4, LfuCacheType, LfuCacheFields
<1>6. LfuEntries(LfuEvict(l)) \subseteq LfuEntries(l)
  BY <1>2, <1>5 DEF LfuEntries
<1> QED BY <1>5, <1>6

\* Admitting a new key adds its entry only.
LEMMA LfuAdmitSpec ==
  ASSUME NEW K, NEW V, NEW l, LfuType(l, K, V), NEW k \in K, NEW v \in V
  PROVE  /\ LfuType(LfuAdmit(l, k, v), K, V)
         /\ LfuAdmit(l, k, v).capacity = l.capacity
         /\ LfuEntries(LfuAdmit(l, k, v)) \subseteq LfuEntries(l) \cup {Entry(k, v)}
<1> DEFINE B == [key: K, val: {Unit}]
           vs == SetValue(l.values, k, [val |-> v, freq |-> 1])
           b == SetBucket(l.buckets, 1, InsertFront(Bucket(l.buckets, 1), k, Unit))
<1>1. /\ ValuesType(l.values, K, V) /\ BucketsType(l.buckets, B)
      /\ l.min_freq \in Nat /\ l.capacity \in Nat
  BY LfuTypeFields
<1>2. /\ ValuesType(vs, K, V) /\ DOMAIN vs = DOMAIN l.values \cup {k}
      /\ \A j \in DOMAIN vs : vs[j].val = IF j = k THEN v ELSE l.values[j].val
  BY <1>1 DEF ValuesType, SetValue
<1>3. BucketsType(b, B)
  <2>1. Bucket(l.buckets, 1) \in Seq(B) /\ Distinct(Bucket(l.buckets, 1))
    BY <1>1, BucketType
  <2>2. /\ InsertFront(Bucket(l.buckets, 1), k, Unit) \in Seq(B)
        /\ Distinct(InsertFront(Bucket(l.buckets, 1), k, Unit))
    BY <2>1, KeyListSpec
  <2> HIDE DEF B
  <2> QED BY <2>2, <1>1, SetBucketType
<1>4. LfuAdmit(l, k, v) = LfuCache(vs, b, 1, l.capacity)
  BY DEF LfuAdmit
<1> HIDE DEF vs, b
<1>5. /\ LfuType(LfuAdmit(l, k, v), K, V) /\ LfuAdmit(l, k, v).values = vs
      /\ LfuAdmit(l, k, v).capacity = l.capacity
  BY <1>1, <1>2, <1>3, <1>4, LfuCacheType, LfuCacheFields
<1>6. LfuEntries(LfuAdmit(l, k, v)) \subseteq LfuEntries(l) \cup {Entry(k, v)}
  BY <1>2, <1>5 DEF LfuEntries
<1> QED BY <1>5, <1>6

\* LFU's put, in all its cases: no entry is added but the one put.
LEMMA LfuPutSpec ==
  ASSUME NEW K, NEW V, NEW l, LfuType(l, K, V), NEW k \in K, NEW v \in V
  PROVE  /\ LfuType(LfuPut(l, k, v).cache, K, V)
         /\ LfuPut(l, k, v).cache.capacity = l.capacity
         /\ LfuEntries(LfuPut(l, k, v).cache) \subseteq LfuEntries(l) \cup {Entry(k, v)}
<1>1. l.capacity \in Nat
  BY LfuTypeFields
<1>2. CASE l.capacity = 0
  <2>1. LfuPut(l, k, v).cache = l
    BY <1>2 DEF LfuPut, PutResult
  <2> QED BY <2>1
<1>3. CASE l.capacity > 0 /\ k \in DOMAIN l.values
  <2>1. LfuPut(l, k, v).cache = LfuRefresh(l, k, v)
    BY <1>1, <1>3 DEF LfuPut, PutResult
  <2> QED BY <2>1, <1>3, LfuRefreshSpec
<1>4. CASE l.capacity > 0 /\ k \notin DOMAIN l.values
  <2> DEFINE e == IF LfuMustEvict(l) THEN LfuEvict(l) ELSE l
  <2>1. LfuPut(l, k, v).cache = LfuAdmit(e, k, v)
    <3>1. ~ (l.capacity = 0)
      BY <1>1, <1>4
    <3> QED BY <3>1, <1>4 DEF LfuPut, PutResult
  <2>2. LfuType(e, K, V) /\ e.capacity = l.capacity /\ LfuEntries(e) \subseteq LfuEntries(l)
    BY LfuEvictSpec
  <2> HIDE DEF e
  <2> QED BY <2>1, <2>2, LfuAdmitSpec
<1> QED BY <1>1, <1>2, <1>3, <1>4

-----------------------------------------------------------------------------
\* LfuCache: its two maps stay coherent.

\* The keys of frequency f.
KeysAt(vs, f) == {k \in DOMAIN vs : vs[k].freq = f}

\* The buckets group the keys by their frequencies, and none is empty.
Grouped(vs, b) ==
  /\ \A f \in Nat : KeysOf(Bucket(b, f)) = KeysAt(vs, f)
  /\ \A f \in DOMAIN b : b[f] # <<>>

\* n is the lowest frequency there is.
LowestAt(vs, n) ==
  DOMAIN vs # {} => KeysAt(vs, n) # {} /\ \A k \in DOMAIN vs : n <= vs[k].freq

\* The inductive strengthening of LfuCoherent.  Frequencies start at 1, which
\* is why an admitted key may reset min_freq; and the cache is finite, which
\* is why one that is full has a lowest bucket to evict from.
LfuSound(l) ==
  /\ Grouped(l.values, l.buckets)
  /\ LowestAt(l.values, l.min_freq)
  /\ \A k \in DOMAIN l.values : l.values[k].freq >= 1
  /\ IsFiniteSet(DOMAIN l.values)
  /\ Cardinality(DOMAIN l.values) <= l.capacity

\* A list holds a key exactly if it is not empty.
LEMMA KeysOfEmpty ==
  ASSUME NEW S, NEW m \in Seq(S)
  PROVE  KeysOf(m) = {} <=> m = <<>>
<1>1. DOMAIN m = 1 .. Len(m) /\ Len(m) \in Nat /\ (m = <<>> <=> Len(m) = 0)
  OBVIOUS
<1>2. CASE Len(m) = 0
  BY <1>1, <1>2 DEF KeysOf
<1>3. CASE Len(m) # 0
  <2>1. 1 \in DOMAIN m
    BY <1>1, <1>3
  <2>2. m[1].key \in KeysOf(m)
    BY <2>1 DEF KeysOf
  <2> QED BY <1>1, <1>3, <2>2
<1> QED BY <1>2, <1>3

\* Writing bucket f writes it and no other.
LEMMA SetBucketReads ==
  ASSUME NEW b, NEW f, NEW m
  PROVE  /\ Bucket(SetBucket(b, f, m), f) = m
         /\ \A g : g # f => Bucket(SetBucket(b, f, m), g) = Bucket(b, g)
         /\ (\A g \in DOMAIN b : b[g] # <<>>) =>
               \A g \in DOMAIN SetBucket(b, f, m) : SetBucket(b, f, m)[g] # <<>>
<1> DEFINE c == SetBucket(b, f, m)
<1>1. DOMAIN c = (DOMAIN b \ {f}) \cup (IF m = <<>> THEN {} ELSE {f})
  BY DEF SetBucket
<1>2. \A g \in DOMAIN c : c[g] = IF g = f THEN m ELSE b[g]
  BY DEF SetBucket
<1> HIDE DEF c
<1>3. Bucket(c, f) = m
  BY <1>1, <1>2 DEF Bucket
<1>4. \A g : g # f => Bucket(c, g) = Bucket(b, g)
  BY <1>1, <1>2 DEF Bucket
<1>5. (\A g \in DOMAIN b : b[g] # <<>>) => \A g \in DOMAIN c : c[g] # <<>>
  BY <1>1, <1>2
<1> QED BY <1>3, <1>4, <1>5 DEF c

\* A key that leaves the values and its bucket leaves the rest grouped.
LEMMA LeaveGrouped ==
  ASSUME NEW vs, NEW b, Grouped(vs, b), NEW k \in DOMAIN vs, NEW m,
         vs[k].freq \in Nat, KeysOf(m) = KeysOf(Bucket(b, vs[k].freq)) \ {k},
         NEW ws, DOMAIN ws = DOMAIN vs \ {k}, \A j \in DOMAIN ws : ws[j].freq = vs[j].freq
  PROVE  Grouped(ws, SetBucket(b, vs[k].freq, m))
<1> DEFINE f == vs[k].freq
           c == SetBucket(b, f, m)
<1>1. /\ Bucket(c, f) = m
      /\ \A g : g # f => Bucket(c, g) = Bucket(b, g)
      /\ \A g \in DOMAIN c : c[g] # <<>>
  BY SetBucketReads DEF Grouped
<1>2. \A g \in Nat : KeysAt(ws, g) = IF g = f THEN KeysAt(vs, g) \ {k} ELSE KeysAt(vs, g)
  BY DEF KeysAt
<1>3. \A g \in Nat : KeysOf(Bucket(b, g)) = KeysAt(vs, g)
  BY DEF Grouped
<1>5. f \in Nat /\ KeysOf(m) = KeysOf(Bucket(b, f)) \ {k}
  OBVIOUS
<1> HIDE DEF c, f
<1>4. \A g \in Nat : KeysOf(Bucket(c, g)) = KeysAt(ws, g)
  BY <1>1, <1>2, <1>3, <1>5
<1> QED BY <1>1, <1>4 DEF Grouped, c, f

\* So does a new key that joins the values and the bucket of its frequency.
LEMMA JoinGrouped ==
  ASSUME NEW vs, NEW b, Grouped(vs, b), NEW k, k \notin DOMAIN vs, NEW f \in Nat,
         NEW m, KeysOf(m) = KeysOf(Bucket(b, f)) \cup {k},
         NEW ws, DOMAIN ws = DOMAIN vs \cup {k}, ws[k].freq = f,
         \A j \in DOMAIN vs : ws[j].freq = vs[j].freq
  PROVE  Grouped(ws, SetBucket(b, f, m))
<1> DEFINE c == SetBucket(b, f, m)
<1>1. /\ Bucket(c, f) = m
      /\ \A g : g # f => Bucket(c, g) = Bucket(b, g)
      /\ \A g \in DOMAIN c : c[g] # <<>>
  BY SetBucketReads DEF Grouped
<1>2. \A g \in Nat : KeysAt(ws, g) = IF g = f THEN KeysAt(vs, g) \cup {k} ELSE KeysAt(vs, g)
  BY DEF KeysAt
<1>3. \A g \in Nat : KeysOf(Bucket(b, g)) = KeysAt(vs, g)
  BY DEF Grouped
<1> HIDE DEF c
<1>4. \A g \in Nat : KeysOf(Bucket(c, g)) = KeysAt(ws, g)
  BY <1>1, <1>2, <1>3
<1> QED BY <1>1, <1>4 DEF Grouped, c

\* The strengthening implies the invariant.
LEMMA SoundIsCoherent ==
  ASSUME NEW K, NEW V, NEW l, LfuType(l, K, V), LfuSound(l)
  PROVE  LfuCoherent(l)
<1> DEFINE vs == l.values
           b == l.buckets
           B == [key: K, val: {Unit}]
<1>1. BucketsType(b, B) /\ ValuesType(vs, K, V) /\ l.min_freq \in Nat
  BY LfuTypeFields
<1> HIDE DEF B
<1>2. /\ \A f \in Nat : KeysOf(Bucket(b, f)) = KeysAt(vs, f)
      /\ \A f \in DOMAIN b : b[f] # <<>>
      /\ DOMAIN vs # {} => KeysAt(vs, l.min_freq) # {} /\ \A k \in DOMAIN vs : l.min_freq <= vs[k].freq
  BY DEF LfuSound, Grouped, LowestAt
<1>3. \A f \in DOMAIN b : Bucket(b, f) = b[f] /\ f \in Nat
  BY <1>1 DEF Bucket, BucketsType
<1>4. \A f \in Nat : KeysAt(vs, f) # {} => f \in DOMAIN b
  <2>1. \A f : f \notin DOMAIN b => KeysOf(Bucket(b, f)) = {}
    BY DEF Bucket, KeysOf
  <2> QED BY <1>2, <2>1
<1>5. \A k \in DOMAIN vs : vs[k].freq \in Nat /\ k \in KeysAt(vs, vs[k].freq)
  BY <1>1 DEF ValuesType, KeysAt
<1>6. \A f \in DOMAIN b : KeysOf(b[f]) # {}
  <2>1. \A f \in DOMAIN b : b[f] \in Seq(B)
    BY <1>1 DEF BucketsType
  <2> QED BY <1>2, <2>1, KeysOfEmpty
<1>7. \A f \in DOMAIN b : \E k \in DOMAIN vs : vs[k].freq = f
  BY <1>2, <1>3, <1>6 DEF KeysAt
<1>8. \A f \in DOMAIN b : KeysOf(b[f]) = {k \in DOMAIN vs : vs[k].freq = f}
  BY <1>2, <1>3 DEF KeysAt
<1> HIDE DEF vs, b
<1>9. /\ \A f \in DOMAIN b : b[f] # <<>> /\ KeysOf(b[f]) = {k \in DOMAIN vs : vs[k].freq = f}
      /\ \A k \in DOMAIN vs : vs[k].freq \in DOMAIN b
      /\ DOMAIN vs # {} => /\ l.min_freq \in DOMAIN b
                           /\ \A f \in DOMAIN b : l.min_freq <= f
  BY <1>1, <1>2, <1>4, <1>5, <1>7, <1>8
<1> QED BY <1>9 DEF LfuCoherent, vs, b

\* bump keeps it: if the key left the lowest bucket empty, the bucket it went
\* to is the lowest one now.
LEMMA BumpSound ==
  ASSUME NEW K, NEW V, NEW l, LfuType(l, K, V), LfuSound(l), NEW k \in DOMAIN l.values
  PROVE  LfuSound(Bump(l, k))
<1> DEFINE B == [key: K, val: {Unit}]
           f == l.values[k].freq
           out == Without(Bucket(l.buckets, f), k)
           left == SetBucket(l.buckets, f, out)
           in == InsertFront(Bucket(left, f + 1), k, Unit)
           ws == [j \in DOMAIN l.values \ {k} |-> l.values[j]]
           vs == [l.values EXCEPT ![k].freq = f + 1]
           b == SetBucket(left, f + 1, in)
           n == MinAfterBump(l, f, left)
<1>1. /\ ValuesType(l.values, K, V) /\ BucketsType(l.buckets, B)
      /\ l.min_freq \in Nat /\ k \in K /\ f \in Nat
  BY LfuTypeFields DEF ValuesType
<1>2. /\ Grouped(l.values, l.buckets) /\ LowestAt(l.values, l.min_freq)
      /\ \A j \in DOMAIN l.values : l.values[j].freq >= 1 /\ l.values[j].freq \in Nat
      /\ IsFiniteSet(DOMAIN l.values) /\ Cardinality(DOMAIN l.values) <= l.capacity
  BY <1>1 DEF LfuSound, ValuesType
<1>3. /\ DOMAIN vs = DOMAIN l.values /\ vs[k].freq = f + 1
      /\ \A j \in DOMAIN vs : j # k => vs[j].freq = l.values[j].freq
  BY <1>1 DEF ValuesType
<1>4. /\ DOMAIN ws = DOMAIN l.values \ {k}
      /\ \A j \in DOMAIN ws : ws[j].freq = l.values[j].freq
  OBVIOUS
<1>5. /\ Bucket(l.buckets, f) \in Seq(B) /\ Distinct(Bucket(l.buckets, f))
      /\ out \in Seq(B) /\ Distinct(out)
      /\ KeysOf(out) = KeysOf(Bucket(l.buckets, f)) \ {k}
  <2>1. Bucket(l.buckets, f) \in Seq(B) /\ Distinct(Bucket(l.buckets, f))
    BY <1>1, BucketType
  <2>2. out \in Seq(B) /\ Distinct(out)
    BY <2>1, <1>1, KeyListSpec
  <2> HIDE DEF B
  <2>3. KeysOf(out) = KeysOf(Bucket(l.buckets, f)) \ {k}
    BY <2>1, WithoutDistinct
  <2> QED BY <2>1, <2>2, <2>3
<1> HIDE DEF out, ws, vs
<1>6. BucketsType(left, B) /\ Grouped(ws, left)
  <2> HIDE DEF B
  <2>1. BucketsType(left, B)
    BY <1>1, <1>5, SetBucketType
  <2>2. Grouped(ws, left)
    BY <1>1, <1>2, <1>4, <1>5, LeaveGrouped
  <2> QED BY <2>1, <2>2
<1>7. Bucket(left, f) = out
  BY SetBucketReads
<1> HIDE DEF left
<1>8. KeysOf(in) = KeysOf(Bucket(left, f + 1)) \cup {k}
  <2>1. Bucket(left, f + 1) \in Seq(B) /\ Distinct(Bucket(left, f + 1))
    BY <1>6, BucketType
  <2>2. Entry(k, Unit) \in B
    BY <1>1, EntriesAreEntries
  <2> HIDE DEF B
  <2> QED BY <2>1, <2>2, InsertFrontSpec
<1> HIDE DEF in
<1>9. Grouped(vs, b)
  <2>1. \A j \in DOMAIN ws : vs[j].freq = ws[j].freq
    BY <1>3, <1>4
  <2>2. DOMAIN vs = DOMAIN ws \cup {k} /\ k \notin DOMAIN ws /\ f + 1 \in Nat
    BY <1>1, <1>3, <1>4
  <2> HIDE DEF f
  <2> QED BY <1>3, <1>6, <1>8, <2>1, <2>2, JoinGrouped
<1>10. LowestAt(vs, n)
  <2>1. l.min_freq <= f
    BY <1>2 DEF LowestAt
  <2>2. f \in DOMAIN l.buckets
    <3>1. k \in KeysOf(Bucket(l.buckets, f))
      BY <1>1, <1>2 DEF Grouped, KeysAt
    <3> QED BY <3>1 DEF Bucket, KeysOf
  <2>3. f \notin DOMAIN left <=> KeysAt(ws, f) = {}
    <3>1. f \notin DOMAIN left <=> out = <<>>
      BY <1>6, <1>7 DEF Bucket, Grouped
    <3>2. out = <<>> <=> KeysOf(out) = {}
      BY <1>5, KeysOfEmpty
    <3>3. KeysOf(out) = KeysAt(ws, f)
      BY <1>1, <1>6, <1>7 DEF Grouped
    <3> QED BY <3>1, <3>2, <3>3
  <2>4. KeysAt(ws, f) = KeysAt(l.values, f) \ {k}
    BY <1>4 DEF KeysAt
  <2>5. k \in DOMAIN vs /\ k \in KeysAt(vs, f + 1)
    BY <1>3 DEF KeysAt
  <2>6. \A j \in DOMAIN l.values : l.min_freq <= l.values[j].freq /\ l.values[j].freq \in Nat
    BY <1>2 DEF LowestAt
  <2>7. CASE f = l.min_freq /\ KeysAt(ws, f) = {}
    <3>1. n = f + 1
      BY <2>2, <2>3, <2>7 DEF MinAfterBump
    <3>2. \A j \in DOMAIN l.values : j # k => l.values[j].freq # f
      BY <2>4, <2>7 DEF KeysAt
    <3>3. \A j \in DOMAIN vs : f + 1 <= vs[j].freq
      BY <1>1, <1>3, <2>6, <2>7, <3>2
    <3> QED BY <2>5, <3>1, <3>3 DEF LowestAt
  <2>8. CASE f = l.min_freq /\ KeysAt(ws, f) # {}
    <3>1. n = l.min_freq
      BY <2>3, <2>8 DEF MinAfterBump
    <3>2. KeysAt(vs, l.min_freq) # {}
      BY <1>3, <1>4, <2>8 DEF KeysAt
    <3>3. \A j \in DOMAIN vs : l.min_freq <= vs[j].freq
      BY <1>1, <1>3, <2>6, <2>8
    <3> QED BY <3>1, <3>2, <3>3 DEF LowestAt
  <2>9. CASE f # l.min_freq
    <3>1. n = l.min_freq
      BY <2>9 DEF MinAfterBump
    <3>2. KeysAt(vs, l.min_freq) # {}
      <4>1. PICK j \in DOMAIN l.values : l.values[j].freq = l.min_freq
        BY <1>2 DEF LowestAt, KeysAt
      <4>2. j # k
        BY <2>9, <4>1
      <4> QED BY <1>3, <4>1, <4>2 DEF KeysAt
    <3>3. \A j \in DOMAIN vs : l.min_freq <= vs[j].freq
      BY <1>1, <1>3, <2>1, <2>6
    <3> QED BY <3>1, <3>2, <3>3 DEF LowestAt
  <2> QED BY <2>7, <2>8, <2>9
<1>11. \A j \in DOMAIN vs : vs[j].freq >= 1
  BY <1>1, <1>2, <1>3
<1>12. Bump(l, k) = LfuCache(vs, b, n, l.capacity)
  BY DEF Bump, left, vs, in, out
<1> HIDE DEF b, n
<1>13. /\ Bump(l, k).values = vs /\ Bump(l, k).buckets = b
       /\ Bump(l, k).min_freq = n /\ Bump(l, k).capacity = l.capacity
  BY <1>12, LfuCacheFields
<1> QED BY <1>2, <1>3, <1>9, <1>10, <1>11, <1>13 DEF LfuSound

\* Replacing a value touches no frequency.
LEMMA LfuRefreshSound ==
  ASSUME NEW K, NEW V, NEW l, LfuType(l, K, V), LfuSound(l), NEW k \in DOMAIN l.values, NEW v \in V
  PROVE  LfuSound(LfuRefresh(l, k, v))
<1> DEFINE vs == [l.values EXCEPT ![k].val = v]
           u == LfuCache(vs, l.buckets, l.min_freq, l.capacity)
<1>1. /\ ValuesType(l.values, K, V) /\ BucketsType(l.buckets, [key: K, val: {Unit}])
      /\ l.min_freq \in Nat /\ l.capacity \in Nat
  BY LfuTypeFields
<1>2. /\ ValuesType(vs, K, V) /\ DOMAIN vs = DOMAIN l.values
      /\ \A j \in DOMAIN vs : vs[j].freq = l.values[j].freq
  BY <1>1 DEF ValuesType
<1> HIDE DEF vs
<1>3. /\ LfuType(u, K, V) /\ u.values = vs /\ u.buckets = l.buckets
      /\ u.min_freq = l.min_freq /\ u.capacity = l.capacity
  BY <1>1, <1>2, LfuCacheType, LfuCacheFields
<1>4. LfuRefresh(l, k, v) = Bump(u, k)
  BY DEF LfuRefresh, vs
<1> HIDE DEF u
<1>5. \A f : KeysAt(vs, f) = KeysAt(l.values, f)
  BY <1>2 DEF KeysAt
<1>6. LfuSound(u)
  BY <1>2, <1>3, <1>5 DEF LfuSound, Grouped, LowestAt
<1> QED BY <1>2, <1>3, <1>4, <1>6, BumpSound

\* Nor does it add or remove a key.
LEMMA LfuRefreshDomain ==
  ASSUME NEW K, NEW V, NEW l, LfuType(l, K, V), NEW k \in DOMAIN l.values, NEW v \in V
  PROVE  DOMAIN LfuRefresh(l, k, v).values = DOMAIN l.values
<1> DEFINE vs == [l.values EXCEPT ![k].val = v]
           u == LfuCache(vs, l.buckets, l.min_freq, l.capacity)
<1>1. /\ ValuesType(l.values, K, V) /\ BucketsType(l.buckets, [key: K, val: {Unit}])
      /\ l.min_freq \in Nat /\ l.capacity \in Nat
  BY LfuTypeFields
<1>2. ValuesType(vs, K, V) /\ DOMAIN vs = DOMAIN l.values
  BY <1>1 DEF ValuesType
<1> HIDE DEF vs
<1>3. LfuType(u, K, V) /\ u.values = vs
  BY <1>1, <1>2, LfuCacheType, LfuCacheFields
<1>4. LfuRefresh(l, k, v) = Bump(u, k)
  BY DEF LfuRefresh, vs
<1> HIDE DEF u
<1> QED BY <1>2, <1>3, <1>4, BumpSpec

\* What is left after an eviction: all of LfuSound but the lowest bucket,
\* which may be empty now, and one place less is taken.
LEMMA LfuEvictLeaves ==
  ASSUME NEW K, NEW V, NEW l, LfuType(l, K, V), LfuSound(l), LfuMustEvict(l),
         NEW e, e = LfuEvict(l)
  PROVE  /\ Grouped(e.values, e.buckets)
         /\ \A k \in DOMAIN e.values : e.values[k].freq >= 1
         /\ DOMAIN e.values \subseteq DOMAIN l.values
         /\ IsFiniteSet(DOMAIN e.values)
         /\ Cardinality(DOMAIN e.values) = Cardinality(DOMAIN l.values) - 1
<1> DEFINE B == [key: K, val: {Unit}]
           low == Bucket(l.buckets, l.min_freq)
           x == LfuVictim(l)
           ws == [j \in DOMAIN l.values \ {x} |-> l.values[j]]
           b == SetBucket(l.buckets, l.min_freq, PopBack(low))
<1>1. /\ ValuesType(l.values, K, V) /\ BucketsType(l.buckets, B) /\ l.min_freq \in Nat
  BY LfuTypeFields
<1>2. /\ Grouped(l.values, l.buckets)
      /\ \A j \in DOMAIN l.values : l.values[j].freq >= 1
      /\ IsFiniteSet(DOMAIN l.values)
  BY DEF LfuSound
<1>3. low \in Seq(B) /\ Distinct(low) /\ low # <<>>
  BY <1>1, BucketType DEF LfuMustEvict
<1>4. x \in KeysOf(low) /\ KeysOf(PopBack(low)) = KeysOf(low) \ {x}
  <2> HIDE DEF B, low
  <2>1. x = BackOf(low).key
    BY DEF LfuVictim, low
  <2> QED BY <1>3, <2>1, PopBackKeys
<1>5. x \in DOMAIN l.values /\ l.values[x].freq = l.min_freq
  BY <1>1, <1>2, <1>4 DEF Grouped, KeysAt
<1> HIDE DEF x
<1>6. /\ DOMAIN ws = DOMAIN l.values \ {x}
      /\ \A j \in DOMAIN ws : ws[j].freq = l.values[j].freq
  OBVIOUS
<1>7. LfuEvict(l) = LfuCache(ws, b, l.min_freq, l.capacity)
  BY DEF LfuEvict, x
<1> HIDE DEF ws, low
<1>8. Grouped(ws, b)
  <2> DEFINE m == PopBack(low)
  <2>1. KeysOf(m) = KeysOf(Bucket(l.buckets, l.values[x].freq)) \ {x} /\ l.values[x].freq \in Nat
    BY <1>1, <1>4, <1>5 DEF low
  <2>2. b = SetBucket(l.buckets, l.values[x].freq, m)
    BY <1>5
  <2> HIDE DEF m, b
  <2> QED BY <1>2, <1>5, <1>6, <2>1, <2>2, LeaveGrouped
<1>9. IsFiniteSet(DOMAIN ws) /\ Cardinality(DOMAIN ws) = Cardinality(DOMAIN l.values) - 1
  BY <1>2, <1>5, <1>6, FS_RemoveElement
<1> HIDE DEF b
<1>10. e.values = ws /\ e.buckets = b
  BY <1>7, LfuCacheFields
<1> QED BY <1>2, <1>6, <1>8, <1>9, <1>10

\* A new key starts at frequency 1, the lowest there can be.
LEMMA LfuAdmitSound ==
  ASSUME NEW K, NEW V, NEW l, LfuType(l, K, V), NEW k \in K, NEW v \in V,
         Grouped(l.values, l.buckets), k \notin DOMAIN l.values,
         \A j \in DOMAIN l.values : l.values[j].freq >= 1,
         IsFiniteSet(DOMAIN l.values), Cardinality(DOMAIN l.values) < l.capacity,
         NEW q, q = LfuAdmit(l, k, v)
  PROVE  /\ LfuSound(q)
         /\ Cardinality(DOMAIN q.values) = Cardinality(DOMAIN l.values) + 1
<1> DEFINE B == [key: K, val: {Unit}]
           vs == SetValue(l.values, k, [val |-> v, freq |-> 1])
           in == InsertFront(Bucket(l.buckets, 1), k, Unit)
           b == SetBucket(l.buckets, 1, in)
<1>1. BucketsType(l.buckets, B) /\ l.capacity \in Nat
  BY LfuTypeFields
<1>2. /\ DOMAIN vs = DOMAIN l.values \cup {k} /\ vs[k].freq = 1
      /\ \A j \in DOMAIN l.values : vs[j].freq = l.values[j].freq
  BY DEF SetValue
<1>3. KeysOf(in) = KeysOf(Bucket(l.buckets, 1)) \cup {k}
  <2>1. Bucket(l.buckets, 1) \in Seq(B) /\ Distinct(Bucket(l.buckets, 1))
    BY <1>1, BucketType
  <2>2. Entry(k, Unit) \in B
    BY EntriesAreEntries
  <2> HIDE DEF B
  <2> QED BY <2>1, <2>2, InsertFrontSpec
<1>4. LfuAdmit(l, k, v) = LfuCache(vs, b, 1, l.capacity)
  BY DEF LfuAdmit
<1> HIDE DEF vs, in
<1>5. Grouped(vs, b)
  BY <1>2, <1>3, JoinGrouped
<1>6. LowestAt(vs, 1) /\ \A j \in DOMAIN vs : vs[j].freq >= 1
  <2>1. k \in KeysAt(vs, 1)
    BY <1>2 DEF KeysAt
  <2>2. \A j \in DOMAIN vs : vs[j].freq >= 1
    BY <1>2
  <2>3. \A j \in DOMAIN vs : 1 <= vs[j].freq
    BY <2>2
  <2> QED BY <2>1, <2>2, <2>3 DEF LowestAt
<1>7. IsFiniteSet(DOMAIN vs) /\ Cardinality(DOMAIN vs) = Cardinality(DOMAIN l.values) + 1
  BY <1>2, FS_AddElement
<1>8. Cardinality(DOMAIN vs) <= l.capacity
  BY <1>1, <1>7, FS_CardinalityType
<1> HIDE DEF b
<1>9. q.values = vs /\ q.buckets = b /\ q.min_freq = 1 /\ q.capacity = l.capacity
  BY <1>4, LfuCacheFields
<1> QED BY <1>5, <1>6, <1>7, <1>8, <1>9 DEF LfuSound

\* LFU's put keeps the maps coherent and evicts whenever the cache is full;
\* a put that evicts leaves as many entries as before.
LEMMA LfuPutSound ==
  ASSUME NEW K, NEW V, NEW l, LfuType(l, K, V), LfuSound(l), NEW k \in K, NEW v \in V,
         NEW r, r = LfuPut(l, k, v)
  PROVE  /\ LfuSound(r.cache)
         /\ LfuLen(r.cache) <= LfuLen(l) + 1
         /\ r.evicted => LfuLen(r.cache) <= LfuLen(l)
<1>1. l.capacity \in Nat /\ IsFiniteSet(DOMAIN l.values) /\ Cardinality(DOMAIN l.values) \in Nat
  BY LfuTypeFields, FS_CardinalityType DEF LfuSound
<1>2. CASE l.capacity = 0
  <2>1. r.cache = l /\ ~ r.evicted
    BY <1>2 DEF LfuPut, PutResult
  <2> QED BY <1>1, <2>1 DEF LfuLen
<1>3. CASE l.capacity > 0 /\ k \in DOMAIN l.values
  <2>1. r.cache = LfuRefresh(l, k, v) /\ ~ r.evicted
    BY <1>1, <1>3 DEF LfuPut, PutResult
  <2>2. LfuSound(LfuRefresh(l, k, v))
    BY <1>3, LfuRefreshSound
  <2>3. DOMAIN LfuRefresh(l, k, v).values = DOMAIN l.values
    BY <1>3, LfuRefreshDomain
  <2> QED BY <1>1, <2>1, <2>2, <2>3 DEF LfuLen
<1>4. CASE l.capacity > 0 /\ k \notin DOMAIN l.values
  <2> DEFINE e == IF LfuMustEvict(l) THEN LfuEvict(l) ELSE l
  <2>1. r.cache = LfuAdmit(e, k, v) /\ r.evicted = LfuMustEvict(l)
    <3>1. ~ (l.capacity = 0)
      BY <1>1, <1>4
    <3> QED BY <3>1, <1>4 DEF LfuPut, PutResult
  <2>2. CASE LfuMustEvict(l)
    <3>1. e = LfuEvict(l)
      BY <2>2
    <3>2. LfuType(e, K, V) /\ e.capacity = l.capacity
      BY <2>2, <3>1, LfuEvictSpec
    <3> HIDE DEF e
    <3>3. /\ Grouped(e.values, e.buckets)
          /\ \A j \in DOMAIN e.values : e.values[j].freq >= 1
          /\ DOMAIN e.values \subseteq DOMAIN l.values
          /\ IsFiniteSet(DOMAIN e.values)
          /\ Cardinality(DOMAIN e.values) = Cardinality(DOMAIN l.values) - 1
      BY <2>2, <3>1, LfuEvictLeaves
    <3>4. Cardinality(DOMAIN e.values) < e.capacity /\ k \notin DOMAIN e.values
      BY <1>1, <1>4, <2>2, <3>2, <3>3 DEF LfuMustEvict
    <3>5. LfuSound(r.cache) /\ Cardinality(DOMAIN r.cache.values) = Cardinality(DOMAIN e.values) + 1
      BY <2>1, <3>2, <3>3, <3>4, LfuAdmitSound
    <3>6. Cardinality(DOMAIN r.cache.values) = Cardinality(DOMAIN l.values)
      BY <1>1, <3>3, <3>5
    <3> QED BY <1>1, <3>5, <3>6 DEF LfuLen
  <2>3. CASE ~ LfuMustEvict(l)
    <3>1. e = l
      BY <2>3
    <3>2. Cardinality(DOMAIN l.values) < l.capacity
      <4>1. SUFFICES ASSUME Cardinality(DOMAIN l.values) = l.capacity PROVE FALSE
        BY <1>1 DEF LfuSound
      <4>2. DOMAIN l.values # {}
        BY <1>4, <4>1, FS_EmptySet
      <4>3. KeysAt(l.values, l.min_freq) # {} /\ l.min_freq \in Nat
        BY <4>2, LfuTypeFields DEF LfuSound, LowestAt
      <4>4. KeysOf(Bucket(l.buckets, l.min_freq)) # {}
        BY <4>3 DEF LfuSound, Grouped
      <4>5. Bucket(l.buckets, l.min_freq) # <<>>
        BY <4>4 DEF KeysOf
      <4> QED BY <2>3, <4>1, <4>5 DEF LfuMustEvict
    <3>3. LfuSound(r.cache) /\ Cardinality(DOMAIN r.cache.values) = Cardinality(DOMAIN l.values) + 1
      BY <1>4, <2>1, <3>1, <3>2, LfuAdmitSound DEF LfuSound
    <3> QED BY <1>1, <2>1, <2>3, <3>3 DEF LfuLen
  <2> QED BY <2>2, <2>3
<1> QED BY <1>1, <1>2, <1>3, <1>4

\* A get keeps it too, and the number of entries.
LEMMA LfuGetSound ==
  ASSUME NEW K, NEW V, NEW l, LfuType(l, K, V), LfuSound(l), NEW k
  PROVE  LfuSound(LfuGet(l, k).cache) /\ LfuLen(LfuGet(l, k).cache) = LfuLen(l)
<1>1. CASE k \in DOMAIN l.values
  BY <1>1, BumpSound, BumpSpec DEF LfuGet, GetResult, LfuLen
<1>2. CASE k \notin DOMAIN l.values
  BY <1>2 DEF LfuGet, GetResult
<1> QED BY <1>1, <1>2

\* An empty cache is coherent.
LEMMA LfuEmptySound ==
  ASSUME NEW n \in Nat
  PROVE  LfuSound(LfuCache(<<>>, <<>>, 0, n)) /\ LfuLen(LfuCache(<<>>, <<>>, 0, n)) = 0
<1> DEFINE l == LfuCache(<<>>, <<>>, 0, n)
<1>1. l.values = <<>> /\ l.buckets = <<>> /\ l.capacity = n /\ DOMAIN <<>> = {}
  BY LfuCacheFields
<1> HIDE DEF l
<1>2. Grouped(<<>>, <<>>)
  BY DEF Grouped, Bucket, KeysOf, KeysAt
<1>3. IsFiniteSet({}) /\ Cardinality({}) = 0
  BY FS_EmptySet
<1> QED BY <1>1, <1>2, <1>3 DEF LfuSound, LowestAt, LfuLen, l

-----------------------------------------------------------------------------
\* PolicyCache: the same of every policy.

\* An LfuCache says that it is one.
LEMMA LfuKind ==
  ASSUME NEW K, NEW V, NEW l, LfuType(l, K, V)
  PROVE  l.kind = "Lfu"
<1>1. l = LfuCache(l.values, l.buckets, l.min_freq, l.capacity)
  BY LfuTypeFields
<1>2. LfuCache(l.values, l.buckets, l.min_freq, l.capacity).kind = "Lfu"
  BY LfuCacheFields
<1> QED BY <1>1, <1>2

\* The record a structure is names its kind.
LEMMA PolicyKinds ==
  ASSUME NEW K, NEW V, NEW c, PolicyType(c, K, V)
  PROVE  /\ c.kind \in {"Recency", "Lfu", "Arc"}
         /\ c.kind = "Recency" <=> RecencyType(c, K, V)
         /\ c.kind = "Lfu" <=> LfuType(c, K, V)
         /\ c.kind = "Arc" <=> ArcType(c, K, V)
<1>1. RecencyType(c, K, V) => c.kind = "Recency"
  BY DEF RecencyType
<1>2. LfuType(c, K, V) => c.kind = "Lfu"
  BY LfuKind
<1>3. ArcType(c, K, V) => c.kind = "Arc"
  BY DEF ArcType
<1> HIDE DEF PolicyType
<1>4. \/ c.kind = "Recency" /\ RecencyType(c, K, V)
      \/ c.kind = "Lfu"     /\ LfuType(c, K, V)
      \/ c.kind = "Arc"     /\ ArcType(c, K, V)
  BY DEF PolicyType
<1> QED BY <1>1, <1>2, <1>3, <1>4

\* Every live entry has a key and a value of the cache's types.
LEMMA EntriesTyped ==
  ASSUME NEW K, NEW V, NEW c, PolicyType(c, K, V)
  PROVE  Entries(c) \subseteq [key: K, val: V]
<1> DEFINE S == [key: K, val: V]
<1>1. ASSUME NEW m \in Seq(S) PROVE ToSet(m) \subseteq S
  BY EntriesInSet
<1>2. CASE c.kind = "Recency"
  <2>1. c.map \in Seq(S)
    BY <1>2, PolicyKinds DEF RecencyType
  <2> HIDE DEF S
  <2>2. Entries(c) = ToSet(c.map)
    BY <1>2 DEF Entries, RecencyEntries
  <2> QED BY <1>1, <2>1, <2>2 DEF S
<1>3. CASE c.kind = "Lfu"
  <2>1. ValuesType(c.values, K, V)
    BY <1>3, PolicyKinds, LfuTypeFields
  <2>2. \A k \in DOMAIN c.values : Entry(k, c.values[k].val) \in S
    BY <2>1 DEF ValuesType, Entry
  <2>3. Entries(c) = {Entry(k, c.values[k].val) : k \in DOMAIN c.values}
    BY <1>3 DEF Entries, LfuEntries
  <2> QED BY <2>2, <2>3
<1>4. CASE c.kind = "Arc"
  <2>1. ArcShape(c, S, [key: K, val: {Unit}])
    BY <1>4, PolicyKinds, ArcTypeShape
  <2> HIDE DEF S
  <2>3. c.t1 \in Seq(S) /\ c.t2 \in Seq(S)
    BY <2>1 DEF ArcShape
  <2>2. Entries(c) = ToSet(c.t1) \cup ToSet(c.t2)
    BY <1>4 DEF Entries, ArcEntries
  <2> QED BY <1>1, <2>2, <2>3 DEF S
<1> QED BY <1>2, <1>3, <1>4, PolicyKinds

\* What any operation must leave behind: the type, the kind and the capacity.
Keeps(c, q, K, V) ==
  PolicyType(q, K, V) /\ q.kind = c.kind /\ q.capacity = c.capacity

\* A new structure is empty and has the capacity asked for.
LEMMA PolicyNewSpec ==
  ASSUME NEW K, NEW V, NEW p \in EvictionPolicy, NEW n \in Nat
  PROVE  LET c == PolicyNew(p, n)
         IN  /\ PolicyType(c, K, V) /\ c.capacity = n /\ Entries(c) = {}
             /\ c.kind = "Arc" => ArcBounds(c)
<1> DEFINE c == PolicyNew(p, n)
<1>1. <<>> \in Seq([key: K, val: V]) /\ Distinct(<<>>) /\ ToSet(<<>>) = {}
  BY DEF Distinct, ToSet
<1>2. CASE p = "Lru" \/ p = "Fifo"
  <2>1. PICK b \in BOOLEAN : c = RecencyNew(n, b)
    BY <1>2 DEF PolicyNew
  <2> HIDE DEF c
  <2>2. c.kind = "Recency" /\ RecencyType(c, K, V) /\ c.capacity = n /\ c.map = <<>>
    BY <1>1, <2>1 DEF RecencyNew, RecencyType
  <2>3. Entries(c) = {}
    BY <1>1, <2>2 DEF Entries, RecencyEntries
  <2> QED BY <2>2, <2>3 DEF PolicyType, c
<1>3. CASE p = "Lfu"
  <2>1. c = LfuCache(<<>>, <<>>, 0, n)
    BY <1>3 DEF PolicyNew, LfuNew
  <2> HIDE DEF c
  <2>2. ValuesType(<<>>, K, V) /\ BucketsType(<<>>, [key: K, val: {Unit}])
    BY DEF ValuesType, BucketsType
  <2>3. LfuType(c, K, V) /\ c.kind = "Lfu" /\ c.capacity = n /\ c.values = <<>>
    BY <2>1, <2>2, LfuCacheType, LfuCacheFields
  <2>4. Entries(c) = {}
    BY <2>3 DEF Entries, LfuEntries
  <2> QED BY <2>3, <2>4 DEF PolicyType, c
<1>4. CASE p = "Arc"
  <2>1. c = ArcNew(n)
    BY <1>4 DEF PolicyNew
  <2>2. c.kind = "Arc"
    BY <2>1 DEF ArcNew
  <2> HIDE DEF c
  <2>3. ArcType(c, K, V) /\ c.capacity = n /\ ArcEntries(c) = {} /\ ArcBounds(c)
    BY <2>1, ArcEmptySpec, ArcTypeShape
  <2> QED BY <2>2, <2>3 DEF Entries, PolicyType, c
<1> QED BY <1>2, <1>3, <1>4 DEF EvictionPolicy

\* A get adds no entry, and finds only what is there.
LEMMA PolicyGetSpec ==
  ASSUME NEW K, NEW V, NEW c, PolicyType(c, K, V), NEW k
  PROVE  LET r == PolicyGet(c, k)
         IN  /\ Keeps(c, r.cache, K, V)
             /\ Entries(r.cache) \subseteq Entries(c)
             /\ \A v \in r.found : Entry(k, v) \in Entries(c)
             /\ c.kind = "Arc" /\ ArcBounds(c) => ArcBounds(r.cache)
<1> DEFINE r == PolicyGet(c, k)
<1>1. CASE c.kind = "Recency"
  <2>1. r = RecencyGet(c, k) /\ Entries(c) = RecencyEntries(c)
    BY <1>1 DEF PolicyGet, Entries
  <2> HIDE DEF r
  <2>2. /\ RecencyType(r.cache, K, V) /\ r.cache.capacity = c.capacity
        /\ RecencyEntries(r.cache) \subseteq Entries(c)
        /\ \A v \in r.found : Entry(k, v) \in Entries(c)
    BY <1>1, <2>1, PolicyKinds, RecencyGetSpec
  <2>3. r.cache.kind = "Recency"
    BY <2>2 DEF RecencyType
  <2> QED BY <1>1, <2>2, <2>3 DEF Keeps, PolicyType, Entries, r
<1>2. CASE c.kind = "Lfu"
  <2>1. r = LfuGet(c, k) /\ Entries(c) = LfuEntries(c)
    BY <1>2 DEF PolicyGet, Entries
  <2> HIDE DEF r
  <2>2. /\ LfuType(r.cache, K, V) /\ r.cache.capacity = c.capacity
        /\ LfuEntries(r.cache) \subseteq Entries(c)
        /\ \A v \in r.found : Entry(k, v) \in Entries(c)
    BY <1>2, <2>1, PolicyKinds, LfuGetSpec
  <2>3. r.cache.kind = "Lfu"
    BY <2>2, LfuKind
  <2> QED BY <1>2, <2>2, <2>3 DEF Keeps, PolicyType, Entries, r
<1>3. CASE c.kind = "Arc"
  <2>1. r = ArcGet(c, k) /\ Entries(c) = ArcEntries(c)
    BY <1>3 DEF PolicyGet, Entries
  <2> HIDE DEF r
  <2>2. /\ ArcType(r.cache, K, V) /\ r.cache.capacity = c.capacity
        /\ ArcEntries(r.cache) \subseteq Entries(c)
        /\ \A v \in r.found : Entry(k, v) \in Entries(c)
        /\ ArcBounds(c) => ArcBounds(r.cache)
    <3> DEFINE S == [key: K, val: V]
               B == [key: K, val: {Unit}]
    <3>1. ArcShape(c, S, B) /\ GhostsOf(S, B)
      BY <1>3, PolicyKinds, ArcTypeShape
    <3> HIDE DEF S, B
    <3>2. /\ ArcShape(r.cache, S, B) /\ r.cache.capacity = c.capacity
          /\ ArcEntries(r.cache) \subseteq Entries(c)
          /\ \A v \in r.found : Entry(k, v) \in Entries(c)
          /\ ArcBounds(c) => ArcBounds(r.cache)
      BY <2>1, <3>1, ArcGetSpec
    <3> QED BY <3>2, ArcTypeShape DEF S, B
  <2>3. r.cache.kind = "Arc"
    BY <2>2 DEF ArcType
  <2> QED BY <1>3, <2>2, <2>3 DEF Keeps, PolicyType, Entries, r
<1> QED BY <1>1, <1>2, <1>3, PolicyKinds

\* A put adds no entry but its own.
LEMMA PolicyPutSpec ==
  ASSUME NEW K, NEW V, NEW c, PolicyType(c, K, V), NEW k \in K, NEW v \in V
  PROVE  LET q == PolicyPut(c, k, v).cache
         IN  /\ Keeps(c, q, K, V)
             /\ Entries(q) \subseteq Entries(c) \cup {Entry(k, v)}
             /\ c.kind = "Arc" /\ ArcBounds(c) => ArcBounds(q)
<1> DEFINE q == PolicyPut(c, k, v).cache
<1>1. CASE c.kind = "Recency"
  <2>1. q = RecencyPut(c, k, v).cache /\ Entries(c) = RecencyEntries(c)
    BY <1>1 DEF PolicyPut, Entries
  <2> HIDE DEF q
  <2>2. /\ RecencyType(q, K, V) /\ q.capacity = c.capacity
        /\ RecencyEntries(q) \subseteq Entries(c) \cup {Entry(k, v)}
    BY <1>1, <2>1, PolicyKinds, RecencyPutSpec
  <2>3. q.kind = "Recency"
    BY <2>2 DEF RecencyType
  <2> QED BY <1>1, <2>2, <2>3 DEF Keeps, PolicyType, Entries, q
<1>2. CASE c.kind = "Lfu"
  <2>1. q = LfuPut(c, k, v).cache /\ Entries(c) = LfuEntries(c)
    BY <1>2 DEF PolicyPut, Entries
  <2> HIDE DEF q
  <2>2. /\ LfuType(q, K, V) /\ q.capacity = c.capacity
        /\ LfuEntries(q) \subseteq Entries(c) \cup {Entry(k, v)}
    BY <1>2, <2>1, PolicyKinds, LfuPutSpec
  <2>3. q.kind = "Lfu"
    BY <2>2, LfuKind
  <2> QED BY <1>2, <2>2, <2>3 DEF Keeps, PolicyType, Entries, q
<1>3. CASE c.kind = "Arc"
  <2>1. q = ArcPut(c, k, v).cache /\ Entries(c) = ArcEntries(c)
    BY <1>3 DEF PolicyPut, Entries
  <2> HIDE DEF q
  <2>2. Entry(k, v) \in [key: K, val: V]
    BY EntriesAreEntries
  <2>3. PutKeeps(c, q, [key: K, val: V], [key: K, val: {Unit}], k, v)
    <3> DEFINE S == [key: K, val: V]
               B == [key: K, val: {Unit}]
    <3>1. ArcShape(c, S, B) /\ GhostsOf(S, B) /\ Entry(k, v) \in S
      BY <1>3, <2>2, PolicyKinds, ArcTypeShape
    <3> HIDE DEF S, B
    <3>2. PutKeeps(c, q, S, B, k, v)
      BY <2>1, <3>1, ArcPutSpec
    <3> QED BY <3>2 DEF S, B
  <2>4. /\ ArcType(q, K, V) /\ q.capacity = c.capacity
        /\ ArcEntries(q) \subseteq Entries(c) \cup {Entry(k, v)}
        /\ ArcBounds(c) => ArcBounds(q)
    BY <2>1, <2>3, ArcTypeShape DEF PutKeeps
  <2>5. q.kind = "Arc"
    BY <2>4 DEF ArcType
  <2> QED BY <1>3, <2>4, <2>5 DEF Keeps, PolicyType, Entries, q
<1> QED BY <1>1, <1>2, <1>3, PolicyKinds

\* A clear leaves nothing.
LEMMA PolicyClearSpec ==
  ASSUME NEW K, NEW V, NEW c, PolicyType(c, K, V)
  PROVE  LET q == PolicyClear(c)
         IN  /\ Keeps(c, q, K, V) /\ Entries(q) = {}
             /\ c.kind = "Arc" => ArcBounds(q)
<1> DEFINE q == PolicyClear(c)
<1>1. <<>> \in Seq([key: K, val: V]) /\ Distinct(<<>>) /\ ToSet(<<>>) = {}
  BY DEF Distinct, ToSet
<1>2. CASE c.kind = "Recency"
  <2>1. q = [c EXCEPT !.map = <<>>] /\ RecencyType(c, K, V)
    BY <1>2, PolicyKinds DEF PolicyClear, RecencyClear
  <2> HIDE DEF q
  <2>2. RecencyType(q, K, V) /\ q.capacity = c.capacity /\ q.kind = "Recency" /\ q.map = <<>>
    BY <1>1, <2>1 DEF RecencyType
  <2>3. Entries(q) = {}
    BY <1>1, <2>2 DEF Entries, RecencyEntries
  <2> QED BY <1>2, <2>2, <2>3 DEF Keeps, PolicyType, q
<1>3. CASE c.kind = "Lfu"
  <2>1. q = LfuCache(<<>>, <<>>, 0, c.capacity)
    BY <1>3 DEF PolicyClear, LfuClear
  <2> HIDE DEF q
  <2>2. ValuesType(<<>>, K, V) /\ BucketsType(<<>>, [key: K, val: {Unit}]) /\ c.capacity \in Nat
    <3>1. ValuesType(<<>>, K, V) /\ BucketsType(<<>>, [key: K, val: {Unit}])
      BY DEF ValuesType, BucketsType
    <3>2. LfuType(c, K, V)
      BY <1>3, PolicyKinds
    <3> QED BY <3>1, <3>2, LfuTypeFields
  <2>3. LfuType(q, K, V) /\ q.kind = "Lfu" /\ q.capacity = c.capacity /\ q.values = <<>>
    BY <2>1, <2>2, LfuCacheType, LfuCacheFields
  <2>4. Entries(q) = {}
    BY <2>3 DEF Entries, LfuEntries
  <2> QED BY <1>3, <2>3, <2>4 DEF Keeps, PolicyType, q
<1>4. CASE c.kind = "Arc"
  <2>1. q = ArcNew(c.capacity) /\ c.capacity \in Nat
    <3>1. q = ArcClear(c)
      BY <1>4 DEF PolicyClear
    <3>2. ArcShape(c, [key: K, val: V], [key: K, val: {Unit}])
      BY <1>4, PolicyKinds, ArcTypeShape
    <3> QED BY <3>1, <3>2, ArcClearSpec, ArcLens
  <2>2. q.kind = "Arc"
    BY <2>1 DEF ArcNew
  <2> HIDE DEF q
  <2>3. ArcType(q, K, V) /\ q.capacity = c.capacity /\ ArcEntries(q) = {} /\ ArcBounds(q)
    BY <2>1, ArcEmptySpec, ArcTypeShape
  <2> QED BY <1>4, <2>2, <2>3 DEF Keeps, Entries, PolicyType, q
<1> QED BY <1>2, <1>3, <1>4, PolicyKinds

-----------------------------------------------------------------------------
\* PolicyCache: how much it holds, and what keeps that within the capacity.

\* What bounds each structure, the LFU maps' coherence among it: an LFU cache
\* evicts only if min_freq leads it to a victim.
PolicySound(c) ==
  /\ c.kind = "Recency" => RecencyLen(c) <= c.capacity
  /\ c.kind = "Lfu" => LfuSound(c)
  /\ c.kind = "Arc" => ArcBounds(c)

\* A sound structure is within its capacity.
LEMMA SoundWithinCapacity ==
  ASSUME NEW K, NEW V, NEW c, PolicyType(c, K, V), PolicySound(c)
  PROVE  /\ PolicyLen(c) \in Nat /\ PolicyLen(c) <= c.capacity /\ c.capacity \in Nat
         /\ c.kind = "Lfu" => LfuCoherent(c)
<1>1. CASE c.kind = "Recency"
  <2>1. c.map \in Seq([key: K, val: V]) /\ c.capacity \in Nat
    BY <1>1, PolicyKinds DEF RecencyType
  <2>2. PolicyLen(c) = Len(c.map) /\ Len(c.map) \in Nat
    BY <1>1, <2>1 DEF PolicyLen, RecencyLen, Size
  <2> QED BY <1>1, <2>1, <2>2 DEF PolicySound, RecencyLen, Size
<1>2. CASE c.kind = "Lfu"
  <2>1. LfuType(c, K, V) /\ LfuSound(c)
    BY <1>2, PolicyKinds DEF PolicySound
  <2>2. PolicyLen(c) = Cardinality(DOMAIN c.values)
    BY <1>2 DEF PolicyLen, LfuLen
  <2> QED BY <2>1, <2>2, LfuTypeFields, FS_CardinalityType, SoundIsCoherent DEF LfuSound
<1>3. CASE c.kind = "Arc"
  <2>1. ArcShape(c, [key: K, val: V], [key: K, val: {Unit}])
    BY <1>3, PolicyKinds, ArcTypeShape
  <2>2. ArcLen(c) \in Nat /\ c.capacity \in Nat
    BY <2>1, ArcLens DEF ArcLen
  <2> QED BY <1>3, <2>2 DEF PolicySound, PolicyLen, ArcBounds
<1> QED BY <1>1, <1>2, <1>3, PolicyKinds

\* A recency cache's put adds one entry at most, and none if it evicts.
LEMMA RecencyPutCounts ==
  ASSUME NEW K, NEW V, NEW c, RecencyType(c, K, V), NEW k \in K, NEW v \in V,
         NEW r, r = RecencyPut(c, k, v)
  PROVE  /\ RecencyLen(r.cache) <= RecencyLen(c) + 1
         /\ r.evicted => RecencyLen(r.cache) <= RecencyLen(c)
<1> DEFINE S == [key: K, val: V]
           m == c.map
<1>1. EntrySet(S) /\ Entry(k, v) \in S
  BY EntriesAreEntries
<1>2. m \in Seq(S) /\ Distinct(m) /\ c.capacity \in Nat /\ Len(m) \in Nat
  BY DEF RecencyType
<1>3. \A n : [c EXCEPT !.map = n].map = n
  BY DEF RecencyType
<1> HIDE DEF S
<1>4. CASE c.capacity = 0
  <2>1. r.cache = c /\ ~ r.evicted
    BY <1>4 DEF RecencyPut, PutResult
  <2> QED BY <1>2, <2>1 DEF RecencyLen, Size
<1>5. CASE c.capacity > 0 /\ Holds(m, k)
  <2> DEFINE u == UpdateValue(m, k, v)
             n == IF c.touch_on_get THEN MoveToFront(u, k) ELSE u
  <2>1. r.cache = [c EXCEPT !.map = n]
    <3>1. r.cache = RecencyRefresh(c, k, v)
      BY <1>2, <1>5 DEF RecencyPut, PutResult
    <3> QED BY <3>1 DEF RecencyRefresh
  <2>2. u \in Seq(S) /\ Len(u) = Len(m)
    BY <1>1, <1>2, UpdateValueSpec
  <2> HIDE DEF u
  <2>3. Len(n) = Len(m)
    BY <1>1, <2>2, MoveToFrontSpec
  <2> HIDE DEF n
  <2>4. RecencyLen(r.cache) = RecencyLen(c)
    BY <1>3, <2>1, <2>3 DEF RecencyLen, Size
  <2> QED BY <1>2, <2>4 DEF RecencyLen, Size
<1>6. CASE c.capacity > 0 /\ ~ Holds(m, k)
  <2> DEFINE g == InsertFront(m, k, v)
             n == IF Len(g) > c.capacity THEN PopBack(g) ELSE g
  <2>1. r.cache = [c EXCEPT !.map = n] /\ (r.evicted <=> Len(g) > c.capacity)
    <3>1. r = RecencyAdmit(c, k, v)
      <4>1. ~ (c.capacity = 0) /\ ~ Holds(c.map, k) /\ c.capacity > 0
        BY <1>2, <1>6
      <4> HIDE DEF m, g, n
      <4> QED BY <4>1 DEF RecencyPut
    <3> QED BY <3>1 DEF RecencyAdmit, RecencyOverflows, PutResult, Size
  <2>2. g \in Seq(S) /\ Len(g) = Len(m) + 1
    BY <1>1, <1>2, <1>6, InsertFrontSpec
  <2> HIDE DEF g
  <2>3. Len(PopBack(g)) = Len(m)
    BY <1>2, <2>2, PopBackSpec
  <2>4. Len(n) <= Len(m) + 1 /\ (Len(g) > c.capacity => Len(n) <= Len(m))
    BY <1>2, <2>2, <2>3
  <2> HIDE DEF n
  <2> QED BY <1>3, <2>1, <2>4 DEF RecencyLen, Size
<1> QED BY <1>2, <1>4, <1>5, <1>6

\* A new structure is sound and empty.
LEMMA PolicyNewSound ==
  ASSUME NEW p \in EvictionPolicy, NEW n \in Nat, NEW c, c = PolicyNew(p, n)
  PROVE  PolicySound(c) /\ PolicyLen(c) = 0
<1>1. Len(<<>>) = 0 /\ n >= 0
  OBVIOUS
<1>2. CASE p = "Lru" \/ p = "Fifo"
  <2>1. PICK b \in BOOLEAN : c = RecencyNew(n, b)
    BY <1>2 DEF PolicyNew
  <2>2. c.kind = "Recency" /\ c.capacity = n /\ c.map = <<>>
    BY <2>1 DEF RecencyNew
  <2> QED BY <1>1, <2>2 DEF PolicySound, PolicyLen, RecencyLen, Size
<1>3. CASE p = "Lfu"
  <2>1. c = LfuCache(<<>>, <<>>, 0, n)
    BY <1>3 DEF PolicyNew, LfuNew
  <2>2. c.kind = "Lfu" /\ LfuSound(c) /\ LfuLen(c) = 0
    BY <2>1, LfuEmptySound, LfuCacheFields
  <2> QED BY <2>2 DEF PolicySound, PolicyLen
<1>4. CASE p = "Arc"
  <2>1. c = ArcNew(n)
    BY <1>4 DEF PolicyNew
  <2>2. c.kind = "Arc" /\ c.t1 = <<>> /\ c.t2 = <<>>
    BY <2>1 DEF ArcNew
  <2>3. ArcBounds(c)
    BY <2>1, ArcEmptySpec
  <2> QED BY <1>1, <2>2, <2>3 DEF PolicySound, PolicyLen, ArcLen, Size
<1> QED BY <1>2, <1>3, <1>4 DEF EvictionPolicy

\* A get keeps it sound and does not enlarge it.
LEMMA PolicyGetSound ==
  ASSUME NEW K, NEW V, NEW c, PolicyType(c, K, V), PolicySound(c), NEW k,
         NEW q, q = PolicyGet(c, k).cache
  PROVE  PolicySound(q) /\ PolicyLen(q) <= PolicyLen(c)
<1>1. q.kind = c.kind /\ q.capacity = c.capacity
  BY PolicyGetSpec DEF Keeps
<1>2. PolicyLen(c) \in Nat
  BY SoundWithinCapacity
<1>3. CASE c.kind = "Recency"
  <2>1. q = RecencyGet(c, k).cache /\ RecencyType(c, K, V)
    BY <1>3, PolicyKinds DEF PolicyGet
  <2>2. RecencyLen(q) = RecencyLen(c)
    BY <2>1, RecencyGetSpec
  <2> QED BY <1>1, <1>2, <1>3, <2>2 DEF PolicySound, PolicyLen
<1>4. CASE c.kind = "Lfu"
  <2>1. q = LfuGet(c, k).cache /\ LfuType(c, K, V) /\ LfuSound(c)
    BY <1>4, PolicyKinds DEF PolicyGet, PolicySound
  <2>2. LfuSound(q) /\ LfuLen(q) = LfuLen(c)
    BY <2>1, LfuGetSound
  <2> QED BY <1>1, <1>2, <1>4, <2>2 DEF PolicySound, PolicyLen
<1>5. CASE c.kind = "Arc"
  <2> DEFINE S == [key: K, val: V]
             B == [key: K, val: {Unit}]
  <2>1. ArcShape(c, S, B) /\ GhostsOf(S, B) /\ q = ArcGet(c, k).cache
    BY <1>5, PolicyKinds, ArcTypeShape DEF PolicyGet
  <2> HIDE DEF S, B
  <2>2. ArcLen(q) <= ArcLen(c)
    BY <2>1, ArcGetCounts
  <2>3. ArcBounds(q)
    BY <1>5, PolicyGetSpec DEF PolicySound
  <2> QED BY <1>1, <1>5, <2>2, <2>3 DEF PolicySound, PolicyLen
<1> QED BY <1>3, <1>4, <1>5, PolicyKinds

\* A put keeps it sound, adds one entry at most, and none if it evicts.
LEMMA PolicyPutSound ==
  ASSUME NEW K, NEW V, NEW c, PolicyType(c, K, V), PolicySound(c), NEW k \in K, NEW v \in V,
         NEW r, r = PolicyPut(c, k, v)
  PROVE  /\ PolicySound(r.cache)
         /\ PolicyLen(r.cache) <= PolicyLen(c) + 1
         /\ r.evicted => PolicyLen(r.cache) <= PolicyLen(c)
<1>1. r.cache.kind = c.kind /\ r.cache.capacity = c.capacity
  BY PolicyPutSpec DEF Keeps
<1>2. CASE c.kind = "Recency"
  <2>1. r = RecencyPut(c, k, v) /\ RecencyType(c, K, V) /\ RecencyLen(c) <= c.capacity
    BY <1>2, PolicyKinds DEF PolicyPut, PolicySound
  <2>2. /\ RecencyLen(r.cache) <= RecencyLen(c) + 1
        /\ r.evicted => RecencyLen(r.cache) <= RecencyLen(c)
    BY <2>1, RecencyPutCounts
  <2>3. RecencyLen(r.cache) <= c.capacity
    BY <2>1, RecencyPutSpec
  <2> QED BY <1>1, <1>2, <2>2, <2>3 DEF PolicySound, PolicyLen
<1>3. CASE c.kind = "Lfu"
  <2>1. r = LfuPut(c, k, v) /\ LfuType(c, K, V) /\ LfuSound(c)
    BY <1>3, PolicyKinds DEF PolicyPut, PolicySound
  <2>2. /\ LfuSound(r.cache) /\ LfuLen(r.cache) <= LfuLen(c) + 1
        /\ r.evicted => LfuLen(r.cache) <= LfuLen(c)
    BY <2>1, LfuPutSound
  <2> QED BY <1>1, <1>3, <2>2 DEF PolicySound, PolicyLen
<1>4. CASE c.kind = "Arc"
  <2> DEFINE S == [key: K, val: V]
             B == [key: K, val: {Unit}]
  <2>1. ArcShape(c, S, B) /\ GhostsOf(S, B) /\ Entry(k, v) \in S /\ r = ArcPut(c, k, v)
    BY <1>4, PolicyKinds, ArcTypeShape, EntriesAreEntries DEF PolicyPut
  <2> HIDE DEF S, B
  <2>2. /\ ArcLen(r.cache) <= ArcLen(c) + 1
        /\ r.evicted => ArcLen(r.cache) <= ArcLen(c)
    BY <2>1, ArcPutCounts
  <2>3. ArcBounds(r.cache)
    <3>1. ArcBounds(c)
      BY <1>4 DEF PolicySound
    <3> HIDE DEF S, B
    <3> QED BY <1>4, <3>1, PolicyPutSpec
  <2> QED BY <1>1, <1>4, <2>2, <2>3 DEF PolicySound, PolicyLen
<1> QED BY <1>2, <1>3, <1>4, PolicyKinds

\* A cleared structure is sound and empty.
LEMMA PolicyClearSound ==
  ASSUME NEW K, NEW V, NEW c, PolicyType(c, K, V), NEW q, q = PolicyClear(c)
  PROVE  PolicySound(q) /\ PolicyLen(q) = 0
<1>1. q.kind = c.kind /\ q.capacity = c.capacity /\ (c.kind = "Arc" => ArcBounds(q))
  BY PolicyClearSpec DEF Keeps
<1>2. Len(<<>>) = 0
  OBVIOUS
<1>3. CASE c.kind = "Recency"
  <2>1. q = [c EXCEPT !.map = <<>>] /\ RecencyType(c, K, V)
    BY <1>3, PolicyKinds DEF PolicyClear, RecencyClear
  <2>2. q.map = <<>> /\ c.capacity \in Nat
    BY <2>1 DEF RecencyType
  <2> QED BY <1>1, <1>2, <1>3, <2>2 DEF PolicySound, PolicyLen, RecencyLen, Size
<1>4. CASE c.kind = "Lfu"
  <2>1. q = LfuCache(<<>>, <<>>, 0, c.capacity)
    BY <1>4 DEF PolicyClear, LfuClear
  <2>2. c.capacity \in Nat
    BY <1>4, PolicyKinds, LfuTypeFields
  <2>3. LfuSound(q) /\ LfuLen(q) = 0
    BY <2>1, <2>2, LfuEmptySound
  <2> QED BY <1>1, <1>4, <2>3 DEF PolicySound, PolicyLen
<1>5. CASE c.kind = "Arc"
  <2>1. q = ArcClear(c)
    BY <1>5 DEF PolicyClear
  <2>2. ArcShape(c, [key: K, val: V], [key: K, val: {Unit}])
    BY <1>5, PolicyKinds, ArcTypeShape
  <2>3. q = ArcNew(c.capacity)
    BY <2>1, <2>2, ArcClearSpec
  <2>4. q.t1 = <<>> /\ q.t2 = <<>>
    BY <2>3 DEF ArcNew
  <2> QED BY <1>1, <1>2, <1>5, <2>4 DEF PolicySound, PolicyLen, ArcLen, Size
<1> QED BY <1>3, <1>4, <1>5, PolicyKinds

-----------------------------------------------------------------------------
\* PolicyCache: what its operations do to the live keys, exactly.

\* The keys that are live, structure by structure.
LEMMA LiveKeysOf ==
  ASSUME NEW K, NEW V, NEW c, PolicyType(c, K, V)
  PROVE  /\ c.kind = "Recency" => LiveKeys(c) = KeysOf(c.map)
         /\ c.kind = "Lfu" => LiveKeys(c) = DOMAIN c.values
         /\ c.kind = "Arc" => LiveKeys(c) = LiveOf(c)
<1>1. ASSUME c.kind = "Recency" PROVE LiveKeys(c) = KeysOf(c.map)
  BY <1>1, KeysOfEntries DEF LiveKeys, Entries, RecencyEntries
<1>2. ASSUME c.kind = "Lfu" PROVE LiveKeys(c) = DOMAIN c.values
  <2>1. Entries(c) = {Entry(k, c.values[k].val) : k \in DOMAIN c.values}
    BY <1>2 DEF Entries, LfuEntries
  <2>2. \A k \in DOMAIN c.values : Entry(k, c.values[k].val).key = k
    BY KeyOfEntry
  <2> QED BY <2>1, <2>2 DEF LiveKeys
<1>3. ASSUME c.kind = "Arc" PROVE LiveKeys(c) = LiveOf(c)
  <2>1. Entries(c) = ToSet(c.t1) \cup ToSet(c.t2)
    BY <1>3 DEF Entries, ArcEntries
  <2> QED BY <2>1, KeysOfEntries DEF LiveKeys, LiveOf
<1> QED BY <1>1, <1>2, <1>3

\* A cache whose ARC lists are apart, if it has them.
InOrder(c) == PolicySound(c) /\ (c.kind = "Arc" => ArcApart(c))

\* It holds one value for each live key and counts the live keys.
LEMMA LiveCount ==
  ASSUME NEW K, NEW V, NEW c, PolicyType(c, K, V), InOrder(c)
  PROVE  /\ OneValueEach(Entries(c))
         /\ IsFiniteSet(LiveKeys(c)) /\ Cardinality(LiveKeys(c)) = PolicyLen(c)
<1>1. CASE c.kind = "Recency"
  <2>1. c.map \in Seq([key: K, val: V]) /\ Distinct(c.map)
    BY <1>1, PolicyKinds DEF RecencyType
  <2>2. LiveKeys(c) = KeysOf(c.map)
    BY <1>1, LiveKeysOf
  <2>3. Entries(c) = ToSet(c.map) /\ PolicyLen(c) = Len(c.map)
    BY <1>1 DEF Entries, RecencyEntries, PolicyLen, RecencyLen, Size
  <2> QED BY <2>1, <2>2, <2>3, KeysCount, DistinctOneValueEach
<1>2. CASE c.kind = "Lfu"
  <2>1. LfuSound(c) /\ LiveKeys(c) = DOMAIN c.values
    BY <1>2, LiveKeysOf DEF InOrder, PolicySound
  <2>2. Entries(c) = {Entry(k, c.values[k].val) : k \in DOMAIN c.values}
    BY <1>2 DEF Entries, LfuEntries
  <2>3. \A k, v : Entry(k, v).key = k
    BY KeyOfEntry
  <2>4. OneValueEach(Entries(c))
    BY <2>2, <2>3 DEF OneValueEach
  <2> QED BY <1>2, <2>1, <2>4 DEF LfuSound, PolicyLen, LfuLen
<1>3. CASE c.kind = "Arc"
  <2>1. ArcShape(c, [key: K, val: V], [key: K, val: {Unit}]) /\ ArcApart(c)
    BY <1>3, PolicyKinds, ArcTypeShape DEF InOrder
  <2>2. LiveKeys(c) = LiveOf(c) /\ Entries(c) = ArcEntries(c) /\ PolicyLen(c) = ArcLen(c)
    BY <1>3, LiveKeysOf DEF Entries, PolicyLen
  <2> QED BY <2>1, <2>2, ArcApartMap
<1> QED BY <1>1, <1>2, <1>3, PolicyKinds

\* What put promises: v is stored under k; no key makes way for it if k is live
\* or there is room, and exactly one if not, which is reported.
PutPromise(c, k, v, r) ==
  /\ Entry(k, v) \in Entries(r.cache)
  /\ k \in LiveKeys(c) \/ PolicyLen(c) < c.capacity =>
       r.evicted = FALSE /\ LiveKeys(r.cache) = LiveKeys(c) \cup {k}
  /\ k \notin LiveKeys(c) /\ PolicyLen(c) = c.capacity =>
       /\ r.evicted = TRUE
       /\ \E y \in LiveKeys(c) : LiveKeys(r.cache) = (LiveKeys(c) \ {y}) \cup {k}

\* The same of list m, which becomes n: the key that makes way is at the back.
BackMakesWay(m, n, capacity, k, evicted) ==
  /\ k \in KeysOf(m) \/ Len(m) < capacity =>
       evicted = FALSE /\ KeysOf(n) = KeysOf(m) \cup {k}
  /\ k \notin KeysOf(m) /\ Len(m) = capacity =>
       /\ evicted = TRUE
       /\ BackOf(m).key \in KeysOf(m)
       /\ KeysOf(n) = (KeysOf(m) \ {BackOf(m).key}) \cup {k}

\* LRU and FIFO give up the key at the back.
LEMMA RecencyPutExact ==
  ASSUME NEW K, NEW V, NEW c, RecencyType(c, K, V), RecencyLen(c) <= c.capacity,
         c.capacity > 0, NEW k \in K, NEW v \in V, NEW r, r = RecencyPut(c, k, v)
  PROVE  /\ Entry(k, v) \in ToSet(r.cache.map)
         /\ BackMakesWay(c.map, r.cache.map, c.capacity, k, r.evicted)
<1> DEFINE S == [key: K, val: V]
           m == c.map
           n == r.cache.map
           x == Entry(k, v)
<1>1. EntrySet(S) /\ x \in S /\ x.key = k
  BY EntriesAreEntries, KeyOfEntry
<1>2. m \in Seq(S) /\ Distinct(m) /\ c.capacity \in Nat /\ Len(m) \in Nat /\ Len(m) <= c.capacity
  BY DEF RecencyType, RecencyLen, Size
<1>3. \A l : [c EXCEPT !.map = l].map = l
  BY DEF RecencyType
<1>4. Holds(m, k) <=> k \in KeysOf(m)
  BY HoldsKeys
<1> HIDE DEF S, x
<1>5. CASE Holds(m, k)
  <2> DEFINE u == UpdateValue(m, k, v)
             l == IF c.touch_on_get THEN MoveToFront(u, k) ELSE u
  <2>1. r.cache = [c EXCEPT !.map = l] /\ r.evicted = FALSE
    <3>1. r.cache = RecencyRefresh(c, k, v) /\ r.evicted = FALSE
      BY <1>2, <1>5 DEF RecencyPut, PutResult
    <3> QED BY <3>1 DEF RecencyRefresh
  <2>2. u \in Seq(S) /\ Distinct(u) /\ KeysOf(u) = KeysOf(m) /\ x \in ToSet(u)
    BY <1>1, <1>2, <1>5, UpdateValueSpec, UpdateValueHas DEF x
  <2> HIDE DEF u
  <2>3. KeysOf(l) = KeysOf(u) /\ ToSet(l) = ToSet(u)
    BY <1>1, <2>2, MoveToFrontSpec, MoveToFrontSame
  <2> HIDE DEF l
  <2>4. n = l
    BY <1>3, <2>1
  <2> QED BY <1>4, <1>5, <2>1, <2>2, <2>3, <2>4 DEF x, BackMakesWay
<1>6. CASE ~ Holds(m, k)
  <2> DEFINE g == InsertFront(m, k, v)
  <2>1. r = RecencyAdmit(c, k, v)
    <3>1. ~ (c.capacity = 0) /\ ~ Holds(c.map, k)
      BY <1>2, <1>6
    <3> HIDE DEF m, n, g
    <3> QED BY <3>1 DEF RecencyPut
  <2>2. /\ g \in Seq(S) /\ Len(g) = Len(m) + 1 /\ Distinct(g) /\ KeysOf(g) = KeysOf(m) \cup {k}
        /\ x \in ToSet(g)
    BY <1>1, <1>2, <1>6, InsertFrontSpec, InsertFrontHas DEF x
  <2>3. CASE Len(m) < c.capacity
    <3>1. r.cache = [c EXCEPT !.map = g] /\ r.evicted = FALSE
      <4>1. ~ (Len(g) > c.capacity)
        BY <1>2, <2>2, <2>3
      <4> QED BY <2>1, <4>1 DEF RecencyAdmit, RecencyOverflows, PutResult, Size
    <3> HIDE DEF g
    <3>2. n = g
      BY <1>3, <3>1
    <3> QED BY <1>2, <2>2, <2>3, <3>1, <3>2 DEF x, BackMakesWay
  <2>4. CASE Len(m) = c.capacity
    <3>1. m # <<>>
      BY <1>2, <2>4
    <3>2. BackOf(m).key \in KeysOf(m) /\ g # <<>> /\ BackOf(g) = BackOf(m)
      BY <1>1, <1>2, <1>6, <3>1, PopBackKeys, InsertFrontBack DEF x
    <3>3. r.cache = [c EXCEPT !.map = PopBack(g)] /\ r.evicted = TRUE
      <4>1. Len(g) > c.capacity
        BY <1>2, <2>2, <2>4
      <4> QED BY <2>1, <4>1 DEF RecencyAdmit, RecencyOverflows, PutResult, Size
    <3> HIDE DEF g
    <3>4. n = PopBack(g)
      BY <1>3, <3>3
    <3>5. KeysOf(PopBack(g)) = KeysOf(g) \ {BackOf(m).key}
      BY <2>2, <3>2, PopBackKeys
    <3>6. x \in ToSet(PopBack(g))
      <4>1. x.key # BackOf(g).key
        BY <1>1, <1>4, <1>6, <3>2
      <4> QED BY <2>2, <3>2, <4>1, PopBackKeepsOthers
    <3>7. KeysOf(n) = (KeysOf(m) \ {BackOf(m).key}) \cup {k}
      BY <1>4, <1>6, <2>2, <3>2, <3>4, <3>5
    <3> QED BY <1>2, <1>4, <1>6, <2>4, <3>2, <3>3, <3>4, <3>6, <3>7 DEF x, BackMakesWay
  <2>5. Len(m) < c.capacity \/ Len(m) = c.capacity
    BY <1>2
  <2> QED BY <2>3, <2>4, <2>5, Zenon
<1> QED BY <1>5, <1>6

\* LFU evicts exactly when it is full.
LEMMA LfuEvictsWhenFull ==
  ASSUME NEW K, NEW V, NEW l, LfuType(l, K, V), LfuSound(l), l.capacity > 0
  PROVE  LfuMustEvict(l) <=> Cardinality(DOMAIN l.values) = l.capacity
<1> SUFFICES ASSUME Cardinality(DOMAIN l.values) = l.capacity
             PROVE  Bucket(l.buckets, l.min_freq) # <<>>
  BY DEF LfuMustEvict
<1>1. l.capacity \in Nat /\ l.min_freq \in Nat
  BY LfuTypeFields
<1>2. DOMAIN l.values # {}
  BY <1>1, FS_EmptySet
<1>3. KeysAt(l.values, l.min_freq) # {}
  BY <1>2 DEF LfuSound, LowestAt
<1>4. KeysOf(Bucket(l.buckets, l.min_freq)) # {}
  BY <1>1, <1>3 DEF LfuSound, Grouped
<1> QED BY <1>4 DEF KeysOf

\* Its victim is live, at the lowest frequency and at the back of that bucket;
\* every other key keeps its place.
LEMMA LfuEvictExact ==
  ASSUME NEW K, NEW V, NEW l, LfuType(l, K, V), LfuSound(l), LfuMustEvict(l),
         NEW e, e = LfuEvict(l)
  PROVE  /\ LfuVictim(l) \in DOMAIN l.values
         /\ l.values[LfuVictim(l)].freq = l.min_freq
         /\ DOMAIN e.values = DOMAIN l.values \ {LfuVictim(l)}
<1> DEFINE B == [key: K, val: {Unit}]
           low == Bucket(l.buckets, l.min_freq)
           x == LfuVictim(l)
<1>1. BucketsType(l.buckets, B) /\ l.min_freq \in Nat
  BY LfuTypeFields
<1>2. low \in Seq(B) /\ Distinct(low) /\ low # <<>>
  BY <1>1, BucketType DEF LfuMustEvict
<1>3. x \in KeysOf(low)
  <2> HIDE DEF B, low
  <2>1. x = BackOf(low).key
    BY DEF LfuVictim, low
  <2> QED BY <1>2, <2>1, PopBackKeys
<1>4. x \in DOMAIN l.values /\ l.values[x].freq = l.min_freq
  BY <1>1, <1>3 DEF LfuSound, Grouped, KeysAt
<1>5. e.values = [j \in DOMAIN l.values \ {LfuVictim(l)} |-> l.values[j]]
  BY LfuCacheFields DEF LfuEvict
<1> QED BY <1>4, <1>5

\* The value put is what LFU has under its key, refreshed or admitted.
LEMMA LfuPutHas ==
  ASSUME NEW K, NEW V, NEW l, LfuType(l, K, V), NEW k \in K, NEW v \in V
  PROVE  /\ k \in DOMAIN l.values => Entry(k, v) \in LfuEntries(LfuRefresh(l, k, v))
         /\ Entry(k, v) \in LfuEntries(LfuAdmit(l, k, v))
         /\ DOMAIN LfuAdmit(l, k, v).values = DOMAIN l.values \cup {k}
<1>1. ASSUME k \in DOMAIN l.values PROVE Entry(k, v) \in LfuEntries(LfuRefresh(l, k, v))
  <2> DEFINE vs == [l.values EXCEPT ![k].val = v]
             u == LfuCache(vs, l.buckets, l.min_freq, l.capacity)
  <2>1. /\ ValuesType(l.values, K, V) /\ BucketsType(l.buckets, [key: K, val: {Unit}])
        /\ l.min_freq \in Nat /\ l.capacity \in Nat
    BY LfuTypeFields
  <2>2. ValuesType(vs, K, V) /\ k \in DOMAIN vs /\ vs[k].val = v
    BY <1>1, <2>1 DEF ValuesType
  <2> HIDE DEF vs
  <2>3. LfuType(u, K, V) /\ u.values = vs
    BY <2>1, <2>2, LfuCacheType, LfuCacheFields
  <2>4. LfuRefresh(l, k, v) = Bump(u, k)
    BY DEF LfuRefresh, vs
  <2> HIDE DEF u
  <2>5. k \in DOMAIN Bump(u, k).values /\ Bump(u, k).values[k].val = v
    BY <2>2, <2>3, BumpSpec
  <2> QED BY <2>4, <2>5 DEF LfuEntries
<1>2. LfuAdmit(l, k, v).values = SetValue(l.values, k, [val |-> v, freq |-> 1])
  BY LfuCacheFields DEF LfuAdmit
<1>3. /\ DOMAIN LfuAdmit(l, k, v).values = DOMAIN l.values \cup {k}
      /\ LfuAdmit(l, k, v).values[k].val = v
  BY <1>2 DEF SetValue
<1>4. Entry(k, v) \in LfuEntries(LfuAdmit(l, k, v))
  BY <1>3 DEF LfuEntries
<1> QED BY <1>1, <1>3, <1>4

\* The same of LFU's values, where the victim of min_freq's bucket makes way.
VictimMakesWay(l, q, k, evicted) ==
  /\ k \in DOMAIN l.values \/ Cardinality(DOMAIN l.values) < l.capacity =>
       evicted = FALSE /\ DOMAIN q.values = DOMAIN l.values \cup {k}
  /\ k \notin DOMAIN l.values /\ Cardinality(DOMAIN l.values) = l.capacity =>
       /\ evicted = TRUE
       /\ LfuVictim(l) \in DOMAIN l.values /\ l.values[LfuVictim(l)].freq = l.min_freq
       /\ DOMAIN q.values = (DOMAIN l.values \ {LfuVictim(l)}) \cup {k}

\* LFU gives up that key.
LEMMA LfuPutExact ==
  ASSUME NEW K, NEW V, NEW l, LfuType(l, K, V), LfuSound(l), l.capacity > 0,
         NEW k \in K, NEW v \in V, NEW r, r = LfuPut(l, k, v)
  PROVE  /\ Entry(k, v) \in LfuEntries(r.cache)
         /\ VictimMakesWay(l, r.cache, k, r.evicted)
<1> DEFINE D == DOMAIN l.values
           E == DOMAIN r.cache.values
<1>1. l.capacity \in Nat /\ IsFiniteSet(D) /\ Cardinality(D) \in Nat /\ Cardinality(D) <= l.capacity
  BY LfuTypeFields, FS_CardinalityType DEF LfuSound
<1>2. ~ (l.capacity = 0)
  BY <1>1
<1>3. CASE k \in D
  <2>1. r.cache = LfuRefresh(l, k, v) /\ r.evicted = FALSE
    BY <1>2, <1>3 DEF LfuPut, PutResult
  <2>2. DOMAIN LfuRefresh(l, k, v).values = D
    BY <1>3, LfuRefreshDomain
  <2>3. Entry(k, v) \in LfuEntries(LfuRefresh(l, k, v))
    BY <1>3, LfuPutHas
  <2> QED BY <1>3, <2>1, <2>2, <2>3 DEF VictimMakesWay
<1>4. CASE k \notin D /\ Cardinality(D) < l.capacity
  <2>1. ~ LfuMustEvict(l)
    BY <1>1, <1>4 DEF LfuMustEvict
  <2>2. r.cache = LfuAdmit(l, k, v) /\ r.evicted = FALSE
    <3>1. r.evicted = LfuMustEvict(l) /\ r.cache = LfuAdmit(l, k, v)
      BY <1>2, <1>4, <2>1 DEF LfuPut, PutResult
    <3>2. LfuMustEvict(l) \in BOOLEAN
      BY DEF LfuMustEvict
    <3> QED BY <2>1, <3>1, <3>2
  <2>3. Cardinality(D) # l.capacity
    BY <1>1, <1>4
  <2> QED BY <1>4, <2>2, <2>3, LfuPutHas DEF VictimMakesWay
<1>5. CASE k \notin D /\ Cardinality(D) = l.capacity
  <2> DEFINE e == LfuEvict(l)
  <2>1. LfuMustEvict(l)
    BY <1>5, LfuEvictsWhenFull
  <2>2. r.cache = LfuAdmit(e, k, v) /\ r.evicted = TRUE
    <3>1. r.evicted = LfuMustEvict(l) /\ r.cache = LfuAdmit(e, k, v)
      BY <1>2, <1>5, <2>1 DEF LfuPut, PutResult
    <3>2. LfuMustEvict(l) \in BOOLEAN
      BY DEF LfuMustEvict
    <3> QED BY <2>1, <3>1, <3>2
  <2>3. /\ LfuVictim(l) \in D /\ l.values[LfuVictim(l)].freq = l.min_freq
        /\ DOMAIN e.values = D \ {LfuVictim(l)}
    BY <2>1, LfuEvictExact
  <2>4. LfuType(e, K, V)
    BY <2>1, LfuEvictSpec
  <2> HIDE DEF e
  <2>5. Entry(k, v) \in LfuEntries(LfuAdmit(e, k, v)) /\ DOMAIN LfuAdmit(e, k, v).values = DOMAIN e.values \cup {k}
    BY <2>4, LfuPutHas
  <2>6. ~ (Cardinality(D) < l.capacity)
    BY <1>1, <1>5
  <2> QED BY <1>5, <2>2, <2>3, <2>5, <2>6 DEF VictimMakesWay
<1>6. Cardinality(D) < l.capacity \/ Cardinality(D) = l.capacity
  BY <1>1
<1> QED BY <1>3, <1>4, <1>5, <1>6, Zenon

\* Every policy's put keeps the promise; ARC's if the key is not live.
LEMMA PolicyPutExact ==
  ASSUME NEW K, NEW V, NEW c, PolicyType(c, K, V), InOrder(c), c.capacity > 0,
         NEW k \in K, NEW v \in V, c.kind = "Arc" => k \notin LiveKeys(c),
         NEW r, r = PolicyPut(c, k, v)
  PROVE  PutPromise(c, k, v, r)
<1>1. PolicyType(r.cache, K, V) /\ r.cache.kind = c.kind
  BY PolicyPutSpec DEF Keeps
<1>2. CASE c.kind = "Recency"
  <2> DEFINE m == c.map
             n == r.cache.map
  <2>1. RecencyType(c, K, V) /\ RecencyLen(c) <= c.capacity /\ r = RecencyPut(c, k, v)
    BY <1>2, PolicyKinds DEF InOrder, PolicySound, PolicyPut
  <2>2. /\ LiveKeys(c) = KeysOf(m) /\ LiveKeys(r.cache) = KeysOf(n)
        /\ Entries(r.cache) = ToSet(n) /\ PolicyLen(c) = Len(m)
    BY <1>1, <1>2, LiveKeysOf DEF Entries, RecencyEntries, PolicyLen, RecencyLen, Size
  <2>3. Entry(k, v) \in ToSet(n) /\ BackMakesWay(m, n, c.capacity, k, r.evicted)
    BY <2>1, RecencyPutExact
  <2> HIDE DEF m, n
  <2> QED BY <2>2, <2>3 DEF PutPromise, BackMakesWay
<1>3. CASE c.kind = "Lfu"
  <2> DEFINE D == DOMAIN c.values
             E == DOMAIN r.cache.values
  <2>1. LfuType(c, K, V) /\ LfuSound(c) /\ r = LfuPut(c, k, v)
    BY <1>3, PolicyKinds DEF InOrder, PolicySound, PolicyPut
  <2>2. /\ LiveKeys(c) = D /\ LiveKeys(r.cache) = E
        /\ Entries(r.cache) = LfuEntries(r.cache) /\ PolicyLen(c) = Cardinality(D)
    BY <1>1, <1>3, LiveKeysOf DEF Entries, PolicyLen, LfuLen
  <2>3. Entry(k, v) \in LfuEntries(r.cache) /\ VictimMakesWay(c, r.cache, k, r.evicted)
    BY <2>1, LfuPutExact
  <2> QED BY <2>2, <2>3 DEF PutPromise, VictimMakesWay
<1>4. CASE c.kind = "Arc"
  <2> DEFINE S == [key: K, val: V]
             B == [key: K, val: {Unit}]
  <2>1. /\ ArcShape(c, S, B) /\ GhostsOf(S, B) /\ Entry(k, v) \in S
        /\ ArcApart(c) /\ ArcBounds(c) /\ r = ArcPut(c, k, v)
    BY <1>4, PolicyKinds, ArcTypeShape, EntriesAreEntries DEF InOrder, PolicySound, PolicyPut
  <2> HIDE DEF S, B
  <2>2. /\ LiveKeys(c) = LiveOf(c) /\ LiveKeys(r.cache) = LiveOf(r.cache)
        /\ Entries(r.cache) = ArcEntries(r.cache) /\ PolicyLen(c) = ArcLen(c)
    BY <1>1, <1>4, LiveKeysOf DEF Entries, PolicyLen
  <2>3. Admitted(c, k, v, r)
    BY <2>1, ArcPutExact
  <2> QED BY <1>4, <2>2, <2>3 DEF Admitted, PutPromise
<1> QED BY <1>2, <1>3, <1>4, PolicyKinds

\* A cache of capacity 0 takes nothing in.
LEMMA PolicyPutDisabled ==
  ASSUME NEW K, NEW V, NEW c, PolicyType(c, K, V), c.capacity = 0, NEW k \in K, NEW v \in V
  PROVE  PolicyPut(c, k, v).cache = c /\ PolicyPut(c, k, v).evicted = FALSE
<1>1. CASE c.kind = "Recency"
  BY <1>1 DEF PolicyPut, RecencyPut, PutResult
<1>2. CASE c.kind = "Lfu"
  BY <1>2 DEF PolicyPut, LfuPut, PutResult
<1>3. CASE c.kind = "Arc"
  BY <1>3 DEF PolicyPut, ArcPut, PutResult
<1> QED BY <1>1, <1>2, <1>3, PolicyKinds

\* Whether a list holds a key decides whether a value is found there.
LEMMA FoundInHeld ==
  ASSUME NEW m, NEW k, NEW f, f = FoundIn(m, k)
  PROVE  /\ k \in KeysOf(m) => \E v : f = {v}
         /\ k \notin KeysOf(m) => f = {}
BY HoldsKeys DEF FoundIn

\* Only the ARC policy makes an ARC cache.
LEMMA PolicyNewKind ==
  ASSUME NEW p \in EvictionPolicy, NEW n, PolicyNew(p, n).kind = "Arc"
  PROVE  p = "Arc"
<1>1. p \in {"Lru", "Lfu", "Arc", "Fifo"}
  BY DEF EvictionPolicy
<1>2. CASE p = "Lru"
  BY <1>2 DEF PolicyNew, RecencyNew
<1>3. CASE p = "Fifo"
  BY <1>3 DEF PolicyNew, RecencyNew
<1>4. CASE p = "Lfu"
  <2>1. PolicyNew(p, n) = LfuCache(<<>>, <<>>, 0, n)
    BY <1>4 DEF PolicyNew, LfuNew
  <2> QED BY <2>1, LfuCacheFields
<1> QED BY <1>1, <1>2, <1>3, <1>4

\* Without ARC lists a put leaves one entry under its key, its own, or none if
\* the cache is disabled.
LEMMA PutLeavesOne ==
  ASSUME NEW K, NEW V, NEW c, PolicyType(c, K, V), PolicySound(c), c.kind # "Arc",
         NEW k \in K, NEW v \in V, NEW q, q = PolicyPut(c, k, v).cache
  PROVE  \A e \in Entries(q) : e.key = k => e = Entry(k, v)
<1>1. InOrder(c)
  BY DEF InOrder
<1>2. c.capacity \in Nat /\ PolicyLen(c) \in Nat /\ PolicyLen(c) <= c.capacity
  BY SoundWithinCapacity
<1>3. CASE c.capacity = 0
  <2>1. PolicyPut(c, k, v).cache = c /\ PolicyPut(c, k, v).evicted = FALSE
    BY <1>3, PolicyPutDisabled
  <2>2. IsFiniteSet(LiveKeys(c)) /\ Cardinality(LiveKeys(c)) = 0
    BY <1>1, <1>2, <1>3, LiveCount
  <2>3. LiveKeys(c) = {}
    BY <2>2, FS_EmptySet
  <2>4. Entries(q) = {}
    BY <2>1, <2>3 DEF LiveKeys
  <2> QED BY <2>4
<1>4. CASE c.capacity > 0
  <2> DEFINE r == PolicyPut(c, k, v)
  <2>1. PutPromise(c, k, v, r)
    BY <1>1, <1>4, PolicyPutExact
  <2>2. Entry(k, v) \in Entries(q)
    BY <2>1 DEF PutPromise
  <2>3. PolicyType(q, K, V) /\ q.kind = c.kind
    BY PolicyPutSpec DEF Keeps
  <2>4. PolicySound(q)
    BY PolicyPutSound
  <2>5. OneValueEach(Entries(q))
    BY <2>3, <2>4, LiveCount DEF InOrder
  <2> QED BY <2>2, <2>5, KeyOfEntry DEF OneValueEach
<1> QED BY <1>2, <1>3, <1>4

\* A get finds one value exactly if the key is live, and changes no entry.
LEMMA PolicyGetExact ==
  ASSUME NEW K, NEW V, NEW c, PolicyType(c, K, V), InOrder(c), NEW k,
         NEW r, r = PolicyGet(c, k)
  PROVE  /\ Entries(r.cache) = Entries(c)
         /\ k \in LiveKeys(c) => \E v : r.found = {v} /\ Entry(k, v) \in Entries(c)
         /\ k \notin LiveKeys(c) => r.found = {}
<1>1. /\ PolicyType(r.cache, K, V) /\ r.cache.kind = c.kind
      /\ Entries(r.cache) \subseteq Entries(c)
      /\ \A v \in r.found : Entry(k, v) \in Entries(c)
  BY PolicyGetSpec DEF Keeps
<1>2. SUFFICES /\ LiveKeys(r.cache) = LiveKeys(c)
               /\ k \in LiveKeys(c) => \E v : r.found = {v}
               /\ k \notin LiveKeys(c) => r.found = {}
  <2>1. OneValueEach(Entries(c))
    BY LiveCount
  <2>2. Entries(r.cache) = Entries(c)
    BY <1>1, <1>2, <2>1, AllKeysAllEntries DEF LiveKeys
  <2>3. ASSUME k \in LiveKeys(c) PROVE \E v : r.found = {v} /\ Entry(k, v) \in Entries(c)
    BY <1>1, <1>2, <2>3
  <2> QED BY <1>2, <2>2, <2>3
<1>3. CASE c.kind = "Recency"
  <2> DEFINE m == c.map
             n == r.cache.map
  <2>1. m \in Seq([key: K, val: V]) /\ Distinct(m) /\ r = RecencyGet(c, k)
    BY <1>3, PolicyKinds DEF RecencyType, PolicyGet
  <2>2. LiveKeys(c) = KeysOf(m) /\ LiveKeys(r.cache) = KeysOf(n)
    BY <1>1, <1>3, LiveKeysOf
  <2>3. RecencyType(c, K, V)
    BY <1>3, PolicyKinds
  <2>4. n = (IF c.touch_on_get THEN MoveToFront(m, k) ELSE m) /\ r.found = FoundIn(m, k)
    BY <2>1, <2>3 DEF RecencyGet, GetResult, RecencyType
  <2> HIDE DEF m, n
  <2>5. KeysOf(n) = KeysOf(m)
    BY <2>1, <2>4, MoveToFrontSpec, EntriesAreEntries
  <2>6. /\ k \in KeysOf(m) => \E v : r.found = {v}
        /\ k \notin KeysOf(m) => r.found = {}
    BY <2>4, FoundInHeld
  <2> QED BY <2>2, <2>5, <2>6
<1>4. CASE c.kind = "Lfu"
  <2>1. LfuType(c, K, V) /\ r = LfuGet(c, k)
    BY <1>4, PolicyKinds DEF PolicyGet
  <2>2. LiveKeys(c) = DOMAIN c.values /\ LiveKeys(r.cache) = DOMAIN r.cache.values
    BY <1>1, <1>4, LiveKeysOf
  <2>3. ASSUME k \in DOMAIN c.values
        PROVE  DOMAIN r.cache.values = DOMAIN c.values /\ \E v : r.found = {v}
    <3>1. r.cache = Bump(c, k) /\ r.found = {c.values[k].val}
      BY <2>1, <2>3 DEF LfuGet, GetResult
    <3>2. DOMAIN Bump(c, k).values = DOMAIN c.values
      BY <2>1, <2>3, BumpSpec
    <3> QED BY <3>1, <3>2
  <2>4. ASSUME k \notin DOMAIN c.values
        PROVE  r.cache = c /\ r.found = {}
    BY <2>1, <2>4 DEF LfuGet, GetResult
  <2> QED BY <2>2, <2>3, <2>4
<1>5. CASE c.kind = "Arc"
  <2> DEFINE S == [key: K, val: V]
             B == [key: K, val: {Unit}]
  <2>1. ArcShape(c, S, B) /\ GhostsOf(S, B) /\ r = ArcGet(c, k)
    BY <1>5, PolicyKinds, ArcTypeShape DEF PolicyGet
  <2> HIDE DEF S, B
  <2>2. LiveKeys(c) = LiveOf(c) /\ LiveKeys(r.cache) = LiveOf(r.cache)
    BY <1>1, <1>5, LiveKeysOf
  <2>3. LiveOf(r.cache) = LiveOf(c)
    BY <2>1, ArcGetExact
  <2>4. CASE Holds(c.t1, k)
    <3>1. r.found = {ValueOf(c.t1, k)}
      BY <2>1, <2>4 DEF ArcGet, GetResult
    <3>2. k \in LiveOf(c)
      BY <2>4, HoldsKeys DEF LiveOf
    <3> QED BY <2>2, <2>3, <3>1, <3>2
  <2>5. CASE ~ Holds(c.t1, k)
    <3>1. r.found = FoundIn(c.t2, k)
      BY <2>1, <2>5 DEF ArcGet, GetResult
    <3>2. k \in LiveOf(c) <=> k \in KeysOf(c.t2)
      BY <2>5, HoldsKeys DEF LiveOf
    <3>3. /\ k \in KeysOf(c.t2) => \E v : r.found = {v}
          /\ k \notin KeysOf(c.t2) => r.found = {}
      BY <3>1, FoundInHeld
    <3> QED BY <2>2, <2>3, <3>2, <3>3
  <2> QED BY <2>4, <2>5
<1> QED BY <1>3, <1>4, <1>5, PolicyKinds
==============================================================================
