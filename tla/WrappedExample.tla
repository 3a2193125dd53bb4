--------------------------- MODULE WrappedExample ---------------------------
(***************************************************************************)
(* A CachedIndex (src/cached.rs) around a real index, FlatIndex or         *)
(* DocStub, used by one caller and without a TTL, so that each call is one *)
(* step.  Where CachedIndex takes the wrapped index for a version number   *)
(* that a failed call leaves alone, here the index does what its code      *)
(* does, and fails where it does.                                          *)
(***************************************************************************)
EXTENDS PolicyCache, ExampleIndex

CONSTANTS
  Ids,        \* vector ids
  Vectors,    \* vectors inserted and queries, of right and wrong dimension
  Dims,       \* dimensions a FlatIndex is made for
  Ks,         \* numbers of hits asked for
  Policies,   \* eviction policies
  Capacities, \* cache capacities
  MaxRows     \* bound: vectors held

ASSUME ExampleAssumption ==
  /\ Policies \subseteq EvictionPolicy /\ Capacities \subseteq Nat
  /\ Vectors \subseteq Seq(Int) /\ Dims \subseteq Nat
  /\ Ks \subseteq Nat /\ MaxRows \in Nat

VARIABLES
  inner,  \* the wrapped index
  cache,  \* the PolicyCache
  reply   \* what the last call returned

wvars == <<inner, cache, reply>>

\* The ResultKey of a search.
KeyOf(q, k) == <<q, k>>
SearchKeys == {KeyOf(q, k) : q \in Vectors, k \in Ks}
Items == [id: Ids, vector: Vectors]

\* What a mutator returns, and what a search does.
Replied(result) == [result |-> result, hits |-> {}]
Answered(found) ==
  [result |-> IF found = {} THEN "DimensionMismatch" ELSE "Ok", hits |-> found]

Init ==
  /\ inner \in (UNION {FlatCreated(dim) : dim \in Dims}) \cup {StubNew(id) : id \in Ids}
  /\ \E p \in Policies, n \in Capacities : cache = PolicyNew(p, n)
  /\ reply = Replied("Ok")

\* The wrapped call's Result decides about the cache.
InvalidateIfOk(done) ==
  cache' = IF done.result = "Ok" THEN PolicyClear(cache) ELSE cache

Insert(id, v) ==
  /\ IndexLen(inner) < MaxRows
  /\ LET done == IndexInsert(inner, id, v)
     IN  inner' = done.index /\ reply' = Replied(done.result) /\ InvalidateIfOk(done)

Delete(id) ==
  LET done == IndexDelete(inner, id)
  IN  inner' = done.index /\ reply' = Replied(done.result) /\ InvalidateIfOk(done)

\* Mutant of InsertBatch: it invalidates as insert does.
InsertBatchIfOk(items) ==
  /\ IndexLen(inner) + Len(items) <= MaxRows
  /\ LET done == IndexInsertBatch(inner, items)
     IN  inner' = done.index /\ reply' = Replied(done.result) /\ InvalidateIfOk(done)

\* Mutant of InsertBatch: the batch's error is lost on the way to the caller.
InsertBatchReportsOk(items) ==
  /\ IndexLen(inner) + Len(items) <= MaxRows
  /\ inner' = IndexInsertBatch(inner, items).index
  /\ reply' = Replied("Ok")
  /\ cache' = PolicyClear(cache)

\* Whatever the outcome, the cache is cleared and the outcome is the reply.
InsertBatch(items) ==
  /\ IndexLen(inner) + Len(items) <= MaxRows
  /\ LET done == IndexInsertBatch(inner, items)
     IN  inner' = done.index /\ reply' = Replied(done.result)
  /\ cache' = PolicyClear(cache)

ClearCache ==
  /\ cache' = PolicyClear(cache)
  /\ UNCHANGED <<inner, reply>>

Cached(q, k) == PolicyGet(cache, KeyOf(q, k)).found

SearchHit(q, k) ==
  /\ Cached(q, k) # {}
  /\ cache' = PolicyGet(cache, KeyOf(q, k)).cache
  /\ reply' = Answered(Cached(q, k))
  /\ UNCHANGED inner

\* What a miss leaves in the cache: an answer is put there, an error is not.
AfterMiss(q, k) ==
  LET found == IndexSearch(inner, q, k)
      probed == PolicyGet(cache, KeyOf(q, k)).cache
  IN  IF found = {} \/ cache.capacity = 0 THEN probed
      ELSE PolicyPut(probed, KeyOf(q, k), CHOOSE hits \in found : TRUE).cache

SearchMiss(q, k) ==
  /\ Cached(q, k) = {}
  /\ cache' = AfterMiss(q, k)
  /\ reply' = Answered(IndexSearch(inner, q, k))
  /\ UNCHANGED inner

Next ==
  \/ \E id \in Ids, v \in Vectors : Insert(id, v)
  \/ \E id \in Ids : Delete(id)
  \/ \E a, b \in Items : InsertBatch(<<a, b>>)
  \/ \E q \in Vectors, k \in Ks : SearchHit(q, k) \/ SearchMiss(q, k)
  \/ ClearCache

ExampleSpec == Init /\ [][Next]_wvars

-----------------------------------------------------------------------------
\* Type invariant; for a FlatIndex, that no id is there twice and every row has
\* the dimension, whatever batch failed half way.
TypeOK ==
  /\ inner.kind = "flat" =>
       /\ \A i \in DOMAIN inner.rows : Len(inner.rows[i].vector) = inner.dim
       /\ \A i, j \in DOMAIN inner.rows : inner.rows[i].id = inner.rows[j].id => i = j
  /\ LiveKeys(cache) \subseteq SearchKeys

\* Every cached result is what the wrapped index would answer now: a call that
\* fails changes nothing the cache depends on, unless it is a batch, which
\* clears the cache all the same (src/cached.rs:347-348, "any outcome can have
\* changed the search space").
Fresh ==
  \A e \in Entries(cache) : IndexSearch(inner, e.key[1], e.key[2]) = {e.val}

\* FlatIndex answers with "Euclidean top-k" (examples/support/flat_index.rs:6):
\* nearest first, as many as there are up to k, and no row left out is nearer
\* than one listed.
NearestFirst ==
  inner.kind = "flat" =>
    \A q \in Vectors, k \in Ks : \A hits \in FlatSearch(inner, q, k) :
      /\ Len(hits) = IF k < Len(inner.rows) THEN k ELSE Len(inner.rows)
      /\ \A i, j \in DOMAIN hits : i < j =>
           hits[i].distance <= hits[j].distance /\ hits[i].id # hits[j].id
      /\ \A r \in DOMAIN inner.rows, i \in DOMAIN hits :
           inner.rows[r].id \notin {hits[j].id : j \in DOMAIN hits} =>
             hits[i].distance <= euclidean(q, inner.rows[r].vector)
==============================================================================
