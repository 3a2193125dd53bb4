----------------------------- MODULE CachedIndex -----------------------------
(***************************************************************************)
(* CachedIndex of src/cached.rs: threads that search through one shared    *)
(* result cache, and the mutators that need the wrapper to themselves.     *)
(*                                                                         *)
(* search is the only operation that threads run side by side (&self); its *)
(* steps are the points between which another thread can get in.  insert,  *)
(* insert_batch, delete and clear_cache take &mut self, so the compiler    *)
(* keeps every search out and each is one step.  The wrapped index is a    *)
(* version number, as in BareIndex.  Spec is the wrapper that alone can    *)
(* change it; SharedNext adds changes through another handle to it.        *)
(***************************************************************************)
EXTENDS PolicyCache

CONSTANTS
  Threads,     \* threads sharing the wrapper
  Keys,        \* cache keys: distinct (query, params) searches
  Policies,    \* eviction policies a behaviour may be configured with
  Capacities,  \* cache capacities; 0 disables caching
  Ttls,        \* times-to-live, as options
  Responsive,  \* threads whose calls to the wrapped search always return
  MaxCalls,    \* bound: searches begun
  MaxVersion,  \* bound: mutations
  MaxTime      \* bound: clock

Nobody == "nobody"

ASSUME IndexAssumption ==
  /\ Policies \subseteq EvictionPolicy
  /\ Capacities \subseteq Nat
  /\ \A ttl \in Ttls : ttl \subseteq Nat
  /\ IsFiniteSet(Threads) /\ Responsive \subseteq Threads
  /\ Nobody \notin Threads
  /\ MaxCalls \in Nat /\ MaxVersion \in Nat /\ MaxTime \in Nat

VARIABLES
  config,     \* the CacheConfig: policy, capacity, ttl
  index,      \* the wrapped index: its version
  now,        \* the clock
  cache,      \* the PolicyCache behind the mutex
  holder,     \* the thread holding the mutex, or Nobody
  hits,       \* counter: lookups served from the cache
  misses,     \* counter: lookups that went to the index
  evictions,  \* counter: entries discarded by the policy
  calls,      \* searches begun, for the bound
  pc,         \* per thread: where it is in search
  req,        \* per thread: the key of its search
  res,        \* per thread: the answer it will return, an option
  stamp       \* per thread: the time stamp of the entry it will store, an option

counters == <<hits, misses, evictions>>
locals == <<pc, req, res, stamp>>
vars == <<config, index, now, cache, holder, counters, calls, locals>>

Bare == INSTANCE BareIndex WITH
  pc <- [t \in Threads |->
           CASE pc[t] = "idle"                          -> "idle"
             [] pc[t] \in {"lookup", "probe", "search"} -> "called"
             [] pc[t] \in {"account", "relock", "store", "tally", "done"} -> "served"]

Answer(k, i) == Bare!Answer(k, i)

CacheEntry(answer, s) == [hits |-> answer, stamp |-> s]

\* with_config_in: the wrapper around a fresh index, configured by a chain of
\* setters, as new and with_capacity are by shorter ones.
Init ==
  /\ \E p \in Policies, n \in Capacities, ttl \in Ttls : config = Configured(p, n, ttl)
  /\ index = 0 /\ now = 0 /\ calls = 0
  /\ cache = PolicyNew(config.policy, config.capacity)
  /\ holder = Nobody
  /\ hits = 0 /\ misses = 0 /\ evictions = 0
  /\ pc = [t \in Threads |-> "idle"]
  /\ req \in [Threads -> Keys]
  /\ res = [t \in Threads |-> None]
  /\ stamp = [t \in Threads |-> None]

\* The entry may be served: it has no TTL or is younger than it.
is_live(entry) ==
  \A ttl \in config.ttl, s \in entry.stamp : now - s < ttl

Goto(t, label) == pc' = [pc EXCEPT ![t] = label]

-----------------------------------------------------------------------------
\* search(&self), from call to return.

\* With capacity 0 the miss is counted at once and the lookup skipped.
Call(t, k) ==
  /\ pc[t] = "idle" /\ calls < MaxCalls
  /\ calls' = calls + 1
  /\ req' = [req EXCEPT ![t] = k]
  /\ IF config.capacity = 0
     THEN misses' = misses + 1 /\ Goto(t, "search")
     ELSE misses' = misses /\ Goto(t, "lookup")
  /\ UNCHANGED <<config, index, now, cache, holder, hits, evictions, res, stamp>>

lock_cache(t) == holder = Nobody /\ holder' = t
Unlock == holder' = Nobody

LockForLookup(t) ==
  /\ pc[t] = "lookup" /\ lock_cache(t)
  /\ Goto(t, "probe")
  /\ UNCHANGED <<config, index, now, cache, counters, calls, req, res, stamp>>

\* The entries found under k that may be served.
LiveFound(k) == {e \in PolicyGet(cache, k).found : is_live(e)}

\* Inside the lock: a live entry is counted and returned.
ProbeHit(t) ==
  /\ pc[t] = "probe" /\ LiveFound(req[t]) # {}
  /\ cache' = PolicyGet(cache, req[t]).cache
  /\ res' = [res EXCEPT ![t] = {e.hits : e \in LiveFound(req[t])}]
  /\ hits' = hits + 1
  /\ Unlock /\ Goto(t, "done")
  /\ UNCHANGED <<config, index, now, misses, evictions, calls, req, stamp>>

\* Mutants of ProbeMiss: the guard lives on into the wrapped search, and an
\* expired entry is counted as a miss here already.
ProbeMissLocked(t) ==
  /\ pc[t] = "probe" /\ LiveFound(req[t]) = {}
  /\ cache' = PolicyGet(cache, req[t]).cache
  /\ Goto(t, "search")
  /\ UNCHANGED <<config, index, now, holder, counters, calls, req, res, stamp>>
ProbeMissCounted(t) ==
  /\ pc[t] = "probe" /\ LiveFound(req[t]) = {}
  /\ cache' = PolicyGet(cache, req[t]).cache
  /\ misses' = misses + Cardinality(PolicyGet(cache, req[t]).found)
  /\ Unlock /\ Goto(t, "search")
  /\ UNCHANGED <<config, index, now, hits, evictions, calls, req, res, stamp>>

\* No entry, or an expired one, which get has promoted all the same.
ProbeMiss(t) ==
  /\ pc[t] = "probe" /\ LiveFound(req[t]) = {}
  /\ cache' = PolicyGet(cache, req[t]).cache
  /\ Unlock /\ Goto(t, "search")
  /\ UNCHANGED <<config, index, now, counters, calls, req, res, stamp>>

\* The wrapped search, outside the lock, answers from the index as it is.
SearchOk(t) ==
  /\ pc[t] = "search"
  /\ res' = [res EXCEPT ![t] = Some(Answer(req[t], index))]
  /\ Goto(t, IF config.capacity = 0 THEN "done" ELSE "account")
  /\ UNCHANGED <<config, index, now, cache, holder, counters, calls, req, stamp>>

\* It fails, and ? returns the error: nothing is counted or stored.
SearchErr(t) ==
  /\ pc[t] = "search"
  /\ Goto(t, "done")
  /\ UNCHANGED <<config, index, now, cache, holder, counters, calls, req, res, stamp>>

StampNow == IF config.ttl = None THEN None ELSE Some(now)

\* Mutant of Account: the miss is not counted.
AccountForgotten(t) ==
  /\ pc[t] = "account"
  /\ stamp' = [stamp EXCEPT ![t] = StampNow]
  /\ Goto(t, "relock")
  /\ UNCHANGED <<config, index, now, cache, holder, counters, calls, req, res>>

Account(t) ==
  /\ pc[t] = "account"
  /\ misses' = misses + 1
  /\ stamp' = [stamp EXCEPT ![t] = StampNow]
  /\ Goto(t, "relock")
  /\ UNCHANGED <<config, index, now, cache, holder, hits, evictions, calls, req, res>>

LockForStore(t) ==
  /\ pc[t] = "relock" /\ lock_cache(t)
  /\ Goto(t, "store")
  /\ UNCHANGED <<config, index, now, cache, counters, calls, req, res, stamp>>

\* Mutant of Stored: the entry is stamped when it is stored.
StoredStampedLate(t) ==
  PolicyPut(cache, req[t], CacheEntry(CHOOSE a \in res[t] : TRUE, StampNow))

\* The put of the one answer the thread has.
Stored(t) ==
  PolicyPut(cache, req[t], CacheEntry(CHOOSE a \in res[t] : TRUE, stamp[t]))

Store(t) ==
  /\ pc[t] = "store"
  /\ cache' = Stored(t).cache
  /\ Unlock
  /\ Goto(t, IF Stored(t).evicted THEN "tally" ELSE "done")
  /\ UNCHANGED <<config, index, now, counters, calls, req, res, stamp>>

Tally(t) ==
  /\ pc[t] = "tally"
  /\ evictions' = evictions + 1
  /\ Goto(t, "done")
  /\ UNCHANGED <<config, index, now, cache, holder, hits, misses, calls, req, res, stamp>>

Return(t) ==
  /\ pc[t] = "done"
  /\ Goto(t, "idle")
  /\ res' = [res EXCEPT ![t] = None]
  /\ stamp' = [stamp EXCEPT ![t] = None]
  /\ UNCHANGED <<config, index, now, cache, holder, counters, calls, req>>

-----------------------------------------------------------------------------
\* The mutators: &mut self means that no search is under way.

\* Mutant of Exclusive: the mutators take &self.
ExclusiveDropped == TRUE

Exclusive == \A t \in Threads : pc[t] = "idle"

\* The wrapped index changed.
Changed == index < MaxVersion /\ index' = index + 1

invalidate == cache' = PolicyClear(cache)

\* insert, and delete word for word (src/cached.rs:353-359), invalidates if the
\* wrapped call was Ok; an Err changes nothing, neither there nor here.
InsertOrDelete ==
  /\ Exclusive
  /\ Changed /\ invalidate
  /\ UNCHANGED <<config, now, holder, counters, calls, locals>>

\* Mutant of insert_batch: it invalidates on Ok only, as insert does.
BatchErrKeepsCache ==
  /\ Exclusive
  /\ \/ Changed /\ invalidate
     \/ (Changed \/ index' = index) /\ UNCHANGED cache
  /\ UNCHANGED <<config, now, holder, counters, calls, locals>>

\* insert_batch invalidates whatever the outcome, since an Err may come after
\* part of the batch was applied.
insert_batch ==
  /\ Exclusive
  /\ Changed \/ index' = index
  /\ invalidate
  /\ UNCHANGED <<config, now, holder, counters, calls, locals>>

clear_cache ==
  /\ Exclusive
  /\ invalidate
  /\ UNCHANGED <<config, index, now, holder, counters, calls, locals>>

-----------------------------------------------------------------------------
\* The environment.

\* Another handle to the index changes it, at any moment, and nothing tells the
\* wrapper.
UnseenMutation ==
  /\ Changed
  /\ UNCHANGED <<config, now, cache, holder, counters, calls, locals>>

\* The clock is only read when there is a TTL.
Tick ==
  /\ config.ttl # None /\ now < MaxTime
  /\ now' = now + 1
  /\ UNCHANGED <<config, index, cache, holder, counters, calls, locals>>

Search(t) == SearchOk(t) \/ SearchErr(t)
Lock(t) == LockForLookup(t) \/ LockForStore(t)
Local(t) == ProbeHit(t) \/ ProbeMiss(t) \/ Account(t) \/ Store(t) \/ Tally(t) \/ Return(t)

Searching == \E t \in Threads : Lock(t) \/ Local(t) \/ Search(t) \/ \E k \in Keys : Call(t, k)
Mutating == InsertOrDelete \/ insert_batch \/ clear_cache

Next == Searching \/ Mutating \/ Tick

\* The wrapper around an index that is changed behind its back too.
SharedNext == Next \/ UnseenMutation

Spec == Init /\ [][Next]_vars

\* A thread goes on until it returns, except that the wrapped search of a
\* thread outside Responsive may hang.  The mutex is not assumed to be fair.
Fairness ==
  /\ \A t \in Threads : WF_vars(Lock(t)) /\ WF_vars(Local(t))
  /\ \A t \in Responsive : WF_vars(Search(t))

FairSpec == Spec /\ Fairness

-----------------------------------------------------------------------------
Answers == [key: Keys, index: Nat]
Stamps == SUBSET Nat

\* Type invariant.
TypeOK ==
  /\ config \in [policy: EvictionPolicy, capacity: Nat, ttl: Stamps]
  /\ index \in Nat /\ now \in Nat /\ calls \in Nat
  /\ PolicyType(cache, Keys, [hits: Answers, stamp: Stamps])
  /\ cache.capacity = config.capacity
  /\ holder \in Threads \cup {Nobody}
  /\ hits \in Nat /\ misses \in Nat /\ evictions \in Nat
  /\ pc \in [Threads -> {"idle", "lookup", "probe", "search", "account",
                         "relock", "store", "tally", "done"}]
  /\ req \in [Threads -> Keys]
  /\ res \in [Threads -> SUBSET Answers]
  /\ stamp \in [Threads -> Stamps]

\* While all mutations go through the wrapper, every cached entry, and every
\* answer a thread is about to return or to store, is the wrapped index's
\* answer, as of now, to the search it is filed under (src/config.rs:143-144,
\* "Mutations through the wrapper already invalidate exactly").
NoStale ==
  /\ \A e \in Entries(cache) : e.val.hits = Answer(e.key, index)
  /\ \A t \in Threads : \A a \in res[t] : a = Answer(req[t], index)

\* The wrapper is transparent: no caller can tell it from the bare index.
Transparent == Bare!Spec

\* However searches interleave, at most capacity results are held
\* (src/config.rs:76): a bound checked inside put, outside the lookup's lock.
CapacityBound == PolicyLen(cache) <= config.capacity

At(labels) == Cardinality({t \in Threads : pc[t] \in labels})

\* The counters never promise more than happened: each entry held and each
\* eviction counted or about to be is owed to a counted miss of its own.
EvictionLedger ==
  PolicyLen(cache) + evictions + At({"relock", "store", "tally"}) <= misses

\* After the put of a recomputed result nothing is left under its key but that
\* result (src/cached.rs:375-376, "The stale entry stays until the put below
\* overwrites it with a fresh result").
RefreshOverwrites ==
  [][\A t \in Threads : Store(t) =>
       \A e \in Entries(cache') : e.key = req[t] =>
         e.val = CacheEntry(CHOOSE a \in res[t] : TRUE, stamp[t])]_vars

\* Every search of a thread whose own wrapped searches return, returns, even
\* when another thread's hangs: the lock is not held across the wrapped search
\* (src/cached.rs:380-381).
SearchReturns ==
  \A t \in Responsive : pc[t] # "idle" ~> pc[t] = "idle"
==============================================================================
