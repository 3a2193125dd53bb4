------------------------------ MODULE LfuPolicy ------------------------------
(***************************************************************************)
(* LfuCache of src/policy.rs.  values maps each live key to its value and  *)
(* frequency; buckets groups the keys of one frequency in a recency list   *)
(* and holds no empty list; min_freq names the bucket to evict from.  Both *)
(* maps are functions whose domain is the set of keys present.             *)
(***************************************************************************)
EXTENDS RecencyList

LfuCache(vs, b, f, c) ==
  [kind |-> "Lfu", values |-> vs, buckets |-> b, min_freq |-> f, capacity |-> c]

LfuNew(capacity) == LfuCache(<<>>, <<>>, 0, capacity)

Bucket(b, f) == IF f \in DOMAIN b THEN b[f] ELSE <<>>

\* Writes list m at frequency f; an empty list is taken out of the map.
SetBucket(b, f, m) ==
  [g \in (DOMAIN b \ {f}) \cup (IF m = <<>> THEN {} ELSE {f}) |->
     IF g = f THEN m ELSE b[g]]

SetValue(vs, k, x) == [j \in DOMAIN vs \cup {k} |-> IF j = k THEN x ELSE vs[j]]

\* Mutant of MinAfterBump: min_freq is not moved off the bucket that emptied.
MinAfterBumpStale(l, f, b) == l.min_freq

\* min_freq after a key left bucket f, the others being b.
MinAfterBump(l, f, b) ==
  IF f \in DOMAIN l.buckets /\ f \notin DOMAIN b /\ f = l.min_freq
  THEN f + 1 ELSE l.min_freq

\* Promotes key k, which is cached, from its frequency f to f + 1.
Bump(l, k) ==
  LET f    == l.values[k].freq
      left == SetBucket(l.buckets, f, Without(Bucket(l.buckets, f), k))
  IN  LfuCache([l.values EXCEPT ![k].freq = f + 1],
               SetBucket(left, f + 1, InsertFront(Bucket(left, f + 1), k, Unit)),
               MinAfterBump(l, f, left), l.capacity)

LfuGet(l, k) ==
  IF k \in DOMAIN l.values
  THEN GetResult(Bump(l, k), {l.values[k].val})
  ELSE GetResult(l, {})

\* Put on a key already cached: the value is replaced and the key bumped.
LfuRefresh(l, k, v) ==
  Bump(LfuCache([l.values EXCEPT ![k].val = v], l.buckets, l.min_freq, l.capacity), k)

\* Mutant of LfuMustEvict: off by one.
LfuMustEvictLate(l) ==
  /\ Cardinality(DOMAIN l.values) > l.capacity
  /\ Bucket(l.buckets, l.min_freq) # <<>>

\* The cache is full and the bucket of min_freq has a key to give up.
LfuMustEvict(l) ==
  /\ Cardinality(DOMAIN l.values) = l.capacity
  /\ Bucket(l.buckets, l.min_freq) # <<>>

\* Mutant of LfuVictim: the most recently used of the bucket.
LfuVictimNewest(l) == Head(Bucket(l.buckets, l.min_freq)).key

LfuVictim(l) == BackOf(Bucket(l.buckets, l.min_freq)).key

LfuEvict(l) ==
  LfuCache([j \in DOMAIN l.values \ {LfuVictim(l)} |-> l.values[j]],
           SetBucket(l.buckets, l.min_freq, PopBack(Bucket(l.buckets, l.min_freq))),
           l.min_freq, l.capacity)

\* Put on a new key: it starts at frequency 1.
LfuAdmit(l, k, v) ==
  LfuCache(SetValue(l.values, k, [val |-> v, freq |-> 1]),
           SetBucket(l.buckets, 1, InsertFront(Bucket(l.buckets, 1), k, Unit)),
           1, l.capacity)

LfuPut(l, k, v) ==
  CASE l.capacity = 0 -> PutResult(l, FALSE)
    [] l.capacity > 0 /\ k \in DOMAIN l.values -> PutResult(LfuRefresh(l, k, v), FALSE)
    [] l.capacity > 0 /\ k \notin DOMAIN l.values ->
         PutResult(LfuAdmit(IF LfuMustEvict(l) THEN LfuEvict(l) ELSE l, k, v),
                   LfuMustEvict(l))

LfuClear(l) == LfuCache(<<>>, <<>>, 0, l.capacity)

LfuLen(l) == Cardinality(DOMAIN l.values)

LfuEntries(l) == {Entry(k, l.values[k].val) : k \in DOMAIN l.values}

LfuType(l, K, V) ==
  /\ l = LfuCache(l.values, l.buckets, l.min_freq, l.capacity)
  /\ DOMAIN l.values \subseteq K
  /\ l.values \in [DOMAIN l.values -> [val: V, freq: Nat]]
  /\ DOMAIN l.buckets \subseteq Nat
  /\ l.buckets \in [DOMAIN l.buckets -> Seq([key: K, val: {Unit}])]
  /\ \A f \in DOMAIN l.buckets : Distinct(l.buckets[f])
  /\ l.min_freq \in Nat
  /\ l.capacity \in Nat

\* The two maps tell the same story: a key sits in exactly the bucket of its
\* frequency, no bucket is empty, and min_freq is the lowest one there is.
LfuCoherent(l) ==
  /\ \A f \in DOMAIN l.buckets :
       /\ l.buckets[f] # <<>>
       /\ KeysOf(l.buckets[f]) = {k \in DOMAIN l.values : l.values[k].freq = f}
  /\ \A k \in DOMAIN l.values : l.values[k].freq \in DOMAIN l.buckets
  /\ DOMAIN l.values # {} =>
       /\ l.min_freq \in DOMAIN l.buckets
       /\ \A f \in DOMAIN l.buckets : l.min_freq <= f
==============================================================================
