-------------------------- MODULE CachedIndexProofs --------------------------
(***************************************************************************)
(* Theorems about CachedIndex for any threads, keys, policies, capacities, *)
(* times-to-live and bounds: the type invariant; that while all mutations  *)
(* go through the wrapper nothing stale is cached or returned and no       *)
(* caller can tell it from the bare index; that the capacity is respected; *)
(* what becomes of every lookup and what a reader of the counters can rely *)
(* on; and how old an answer may be when the index is changed behind the   *)
(* wrapper's back.                                                         *)
(***************************************************************************)
EXTENDS CachedAccounting, CachedStats, CachedStaleness, PolicyCacheLemmas

CachedVals == [hits: Answers, stamp: Stamps]

\* A thread has no answer until its search is served, and one to store from
\* then on: what makes the CHOOSE in Stored well defined, and what leaves no
\* answer about when a mutator runs.
AnswerFollowsPc ==
  \A t \in Threads :
    /\ pc[t] \in {"idle", "lookup", "probe", "search"} => res[t] = {}
    /\ pc[t] \in {"account", "relock", "store"} => res[t] # {}

\* The inductive strengthening of the type invariant.
TypeInv == TypeOK /\ AnswerFollowsPc

\* A wrapped search answers with an answer.
LEMMA AnswerType ==
  ASSUME NEW k \in Keys, NEW i \in Nat
  PROVE  /\ Answer(k, i) \in Answers
         /\ Answer(k, i) = [key |-> k, index |-> i]
BY DEF Answer, Bare!Answer, Answers

\* What a thread stores, it was answered.
LEMMA StoredValue ==
  ASSUME TypeInv, NEW t \in Threads, pc[t] = "store"
  PROVE  /\ (CHOOSE a \in res[t] : TRUE) \in res[t]
         /\ CacheEntry(CHOOSE a \in res[t] : TRUE, stamp[t]) \in CachedVals
<1>1. res[t] # {} /\ res[t] \subseteq Answers /\ stamp[t] \in Stamps
  BY DEF TypeInv, TypeOK, AnswerFollowsPc
<1>2. (CHOOSE a \in res[t] : TRUE) \in res[t]
  BY <1>1
<1> QED BY <1>1, <1>2 DEF CacheEntry, CachedVals

\* What a lookup finds belongs to entries of the cache under its key.
LEMMA FoundEntries ==
  ASSUME TypeInv, NEW t \in Threads
  PROVE  \A e \in LiveFound(req[t]) : e \in CachedVals /\ Entry(req[t], e) \in Entries(cache)
<1>1. PolicyType(cache, Keys, CachedVals)
  BY DEF TypeInv, TypeOK, CachedVals
<1>2. \A e \in PolicyGet(cache, req[t]).found : Entry(req[t], e) \in Entries(cache)
  BY <1>1, PolicyGetSpec
<1>3. Entries(cache) \subseteq [key: Keys, val: CachedVals]
  BY <1>1, EntriesTyped
<1>4. \A e \in LiveFound(req[t]) : Entry(req[t], e) \in Entries(cache)
  BY <1>2 DEF LiveFound
<1>5. \A e \in LiveFound(req[t]) : Entry(req[t], e).val \in CachedVals
  BY <1>3, <1>4
<1> QED BY <1>4, <1>5, KeyOfEntry

-----------------------------------------------------------------------------
\* The type invariant.

\* The setters configure what they are told to.
LEMMA ConfiguredType ==
  ASSUME Init
  PROVE  config \in [policy: EvictionPolicy, capacity: Nat, ttl: Stamps]
<1>1. PICK p \in Policies, n \in Capacities, ttl \in Ttls : config = Configured(p, n, ttl)
  BY DEF Init
<1>2. /\ p \in EvictionPolicy /\ n \in Nat /\ ttl \subseteq Nat
      /\ (ttl # {} => (CHOOSE d \in ttl : TRUE) \in Nat)
  BY IndexAssumption
<1>3. Configured(p, n, ttl) \in [policy: EvictionPolicy, capacity: Nat, ttl: Stamps]
  BY <1>2 DEF Configured, ConfigNew, SetPolicy, SetCapacity, SetTtl, NoTtl, None, Some, Stamps
<1> QED BY <1>1, <1>3

\* A fresh wrapper has the type.
LEMMA InitTypeInv == Init => TypeInv
<1> SUFFICES ASSUME Init PROVE TypeInv
  OBVIOUS
<1>1. config \in [policy: EvictionPolicy, capacity: Nat, ttl: Stamps]
  BY ConfiguredType
<1>2. PolicyType(cache, Keys, CachedVals) /\ cache.capacity = config.capacity
  BY <1>1, PolicyNewSpec DEF Init
<1> QED BY <1>1, <1>2 DEF Init, TypeInv, TypeOK, AnswerFollowsPc, CachedVals, None, Stamps

\* The state of the threads apart from the cache's own type.
LocalsOK ==
  /\ config \in [policy: EvictionPolicy, capacity: Nat, ttl: Stamps]
  /\ index \in Nat /\ now \in Nat /\ calls \in Nat
  /\ holder \in Threads \cup {Nobody}
  /\ hits \in Nat /\ misses \in Nat /\ evictions \in Nat
  /\ pc \in [Threads -> {"idle", "lookup", "probe", "search", "account",
                         "relock", "store", "tally", "done"}]
  /\ req \in [Threads -> Keys]
  /\ res \in [Threads -> SUBSET Answers]
  /\ stamp \in [Threads -> Stamps]
  /\ AnswerFollowsPc

CacheOK == PolicyType(cache, Keys, CachedVals) /\ cache.capacity = config.capacity

\* The invariant, taken apart.
LEMMA TypeInvParts == TypeInv <=> LocalsOK /\ CacheOK
BY DEF TypeInv, TypeOK, LocalsOK, CacheOK, CachedVals

\* The same after a step.
LEMMA TypeInvPartsNext == TypeInv' <=> LocalsOK' /\ CacheOK'
BY DEF TypeInv, TypeOK, LocalsOK, CacheOK, CachedVals, AnswerFollowsPc

\* The steps of search keep the threads' state.
LEMMA LocalsSearching ==
  ASSUME TypeInv, NEW t \in Threads, Lock(t) \/ Local(t) \/ Search(t) \/ \E k \in Keys : Call(t, k)
  PROVE  LocalsOK'
<1>1. LocalsOK
  BY TypeInvParts
<1>2. ASSUME NEW k \in Keys, Call(t, k) PROVE LocalsOK'
  BY <1>1, <1>2 DEF LocalsOK, AnswerFollowsPc, Call, Goto
<1>3. ASSUME LockForLookup(t) PROVE LocalsOK'
  BY <1>1, <1>3 DEF LocalsOK, AnswerFollowsPc, LockForLookup, lock_cache, Goto, counters
<1>4. ASSUME ProbeHit(t) PROVE LocalsOK'
  <2>1. {e.hits : e \in LiveFound(req[t])} \in SUBSET Answers
    BY FoundEntries DEF CachedVals
  <2> QED BY <1>1, <1>4, <2>1 DEF LocalsOK, AnswerFollowsPc, ProbeHit, Unlock, Goto
<1>5. ASSUME ProbeMiss(t) PROVE LocalsOK'
  BY <1>1, <1>5 DEF LocalsOK, AnswerFollowsPc, ProbeMiss, Unlock, Goto, counters
<1>6. ASSUME SearchOk(t) PROVE LocalsOK'
  <2>1. Answer(req[t], index) \in Answers
    BY <1>1, AnswerType DEF LocalsOK
  <2> QED BY <1>1, <1>6, <2>1 DEF LocalsOK, AnswerFollowsPc, SearchOk, Some, Goto, counters
<1>7. ASSUME SearchErr(t) PROVE LocalsOK'
  BY <1>1, <1>7 DEF LocalsOK, AnswerFollowsPc, SearchErr, Goto, counters
<1>8. ASSUME Account(t) PROVE LocalsOK'
  <2>1. StampNow \in Stamps
    BY <1>1 DEF LocalsOK, StampNow, Stamps, None, Some
  <2> QED BY <1>1, <1>8, <2>1 DEF LocalsOK, AnswerFollowsPc, Account, Goto
<1>9. ASSUME LockForStore(t) PROVE LocalsOK'
  BY <1>1, <1>9 DEF LocalsOK, AnswerFollowsPc, LockForStore, lock_cache, Goto, counters
<1>10. ASSUME Store(t) PROVE LocalsOK'
  BY <1>1, <1>10 DEF LocalsOK, AnswerFollowsPc, Store, Unlock, Goto, counters
<1>11. ASSUME Tally(t) PROVE LocalsOK'
  BY <1>1, <1>11 DEF LocalsOK, AnswerFollowsPc, Tally, Goto
<1>12. ASSUME Return(t) PROVE LocalsOK'
  BY <1>1, <1>12 DEF LocalsOK, AnswerFollowsPc, Return, None, Stamps, Goto, counters
<1> QED
  BY <1>2, <1>3, <1>4, <1>5, <1>6, <1>7, <1>8, <1>9, <1>10, <1>11, <1>12
     DEF Lock, Local, Search

\* The mutators and the environment touch the index and the clock.
LEMMA LocalsOther ==
  ASSUME TypeInv, Mutating \/ Tick \/ UnseenMutation
  PROVE  LocalsOK'
<1>1. LocalsOK
  BY TypeInvParts
<1>2. ASSUME Mutating PROVE LocalsOK'
  BY <1>1, <1>2 DEF LocalsOK, AnswerFollowsPc, Mutating, InsertOrDelete, insert_batch,
     clear_cache, Changed, counters, locals
<1>3. ASSUME Tick \/ UnseenMutation PROVE LocalsOK'
  BY <1>1, <1>3 DEF LocalsOK, AnswerFollowsPc, UnseenMutation, Tick, Changed,
     counters, locals
<1> QED BY <1>2, <1>3

\* Every step of the wrapper alone is one of the shared one's.
LEMMA Unshared == [Next]_vars => [SharedNext]_vars
BY DEF SharedNext

\* config never changes.
LEMMA ConfigFixed ==
  ASSUME [SharedNext]_vars
  PROVE  config' = config
BY DEF SharedNext, Next, Searching, Mutating, Lock, Local, Search, Call, LockForLookup,
   ProbeHit, ProbeMiss, SearchOk, SearchErr, Account, LockForStore, Store, Tally, Return,
   InsertOrDelete, insert_batch, clear_cache, UnseenMutation, Tick, vars

\* Every step leaves the cache alone, gets from it, puts in it what a thread
\* was answered, or clears it.
LEMMA CacheSteps ==
  ASSUME [SharedNext]_vars
  PROVE  \/ cache' = cache
         \/ \E t \in Threads : cache' = PolicyGet(cache, req[t]).cache
         \/ \E t \in Threads : pc[t] = "store" /\ cache' = Stored(t).cache
         \/ invalidate
BY DEF SharedNext, Next, Searching, Mutating, Lock, Local, Search, Call, LockForLookup,
   ProbeHit, ProbeMiss, SearchOk, SearchErr, Account, LockForStore, Store, Tally, Return,
   InsertOrDelete, insert_batch, clear_cache, UnseenMutation, Tick, vars

\* Every step keeps the type.
LEMMA NextTypeInv == TypeInv /\ [SharedNext]_vars => TypeInv'
<1> SUFFICES ASSUME TypeInv, [SharedNext]_vars PROVE TypeInv'
  OBVIOUS
<1>1. LocalsOK /\ CacheOK
  BY TypeInvParts
<1>2. LocalsOK'
  <2>1. ASSUME Searching PROVE LocalsOK'
    BY <2>1, LocalsSearching DEF Searching
  <2>2. ASSUME Mutating \/ Tick \/ UnseenMutation PROVE LocalsOK'
    BY <2>2, LocalsOther
  <2>3. ASSUME UNCHANGED vars PROVE LocalsOK'
    BY <1>1, <2>3 DEF LocalsOK, AnswerFollowsPc, vars, counters, locals
  <2> QED BY <2>1, <2>2, <2>3 DEF SharedNext, Next
<1>3. CacheOK'
  <2>1. PolicyType(cache, Keys, CachedVals) /\ cache.capacity = config.capacity
    BY <1>1 DEF CacheOK
  <2>2. SUFFICES PolicyType(cache', Keys, CachedVals) /\ cache'.capacity = cache.capacity
    BY <2>1, ConfigFixed DEF CacheOK, CachedVals, Answers, Stamps
  <2>3. CASE cache' = cache
    BY <2>1, <2>3
  <2>4. ASSUME NEW t \in Threads, cache' = PolicyGet(cache, req[t]).cache
        PROVE  PolicyType(cache', Keys, CachedVals) /\ cache'.capacity = cache.capacity
    BY <2>1, <2>4, PolicyGetSpec DEF Keeps
  <2>5. ASSUME NEW t \in Threads, pc[t] = "store", cache' = Stored(t).cache
        PROVE  PolicyType(cache', Keys, CachedVals) /\ cache'.capacity = cache.capacity
    <3> DEFINE v == CacheEntry(CHOOSE a \in res[t] : TRUE, stamp[t])
    <3>1. v \in CachedVals /\ req[t] \in Keys
      BY <1>1, <2>5, StoredValue DEF LocalsOK
    <3>2. cache' = PolicyPut(cache, req[t], v).cache
      BY <2>5 DEF Stored
    <3> HIDE DEF v
    <3> QED BY <2>1, <3>1, <3>2, PolicyPutSpec DEF Keeps
  <2>6. CASE invalidate
    BY <2>1, <2>6, PolicyClearSpec DEF invalidate, Keeps
  <2> QED BY <2>3, <2>4, <2>5, <2>6, CacheSteps
<1> QED BY <1>2, <1>3, TypeInvPartsNext

\* In every behaviour of the wrapper, for all constants, every variable has its
\* type, and the structure behind the mutex has the configured capacity
\* (src/cached.rs:124-145, 209-221).
THEOREM CachedTypeCorrect == Spec => []TypeOK
<1>1. TypeInv => TypeOK
  BY DEF TypeInv
<1> QED BY <1>1, InitTypeInv, NextTypeInv, Unshared, PTL DEF Spec

-----------------------------------------------------------------------------
\* Nothing stale.

\* The two halves of NoStale.
CacheFresh == \A e \in Entries(cache) : e.val.hits = Answer(e.key, index)
AnswersFresh == \A t \in Threads : \A a \in res[t] : a = Answer(req[t], index)

\* A fresh wrapper caches nothing.
LEMMA InitNoStale == Init => NoStale
<1> SUFFICES ASSUME Init PROVE NoStale
  OBVIOUS
<1>1. config.policy \in EvictionPolicy /\ config.capacity \in Nat
  BY ConfiguredType
<1>2. Entries(cache) = {}
  BY <1>1, PolicyNewSpec DEF Init
<1> QED BY <1>2 DEF Init, NoStale, None

\* A step of search in thread t keeps its answer right, and leaves the index
\* and the other threads' answers alone.
LEMMA AnswersSearching ==
  ASSUME TypeInv, CacheFresh, AnswersFresh, NEW t \in Threads,
         Lock(t) \/ Local(t) \/ Search(t) \/ \E k \in Keys : Call(t, k)
  PROVE  /\ index' = index
         /\ AnswersFresh'
<1>1. LocalsOK
  BY TypeInvParts
<1>2. SUFFICES ASSUME TRUE
               PROVE  /\ index' = index
                      /\ \A u \in Threads : \A a \in res'[u] : a = Answer(req'[u], index)
  BY DEF AnswersFresh, Answer, Bare!Answer
<1>3. ASSUME NEW k \in Keys, Call(t, k)
      PROVE  /\ index' = index
             /\ \A u \in Threads : \A a \in res'[u] : a = Answer(req'[u], index)
  <2>1. res[t] = {} /\ res' = res /\ req' = [req EXCEPT ![t] = k] /\ index' = index
    BY <1>1, <1>3 DEF Call, LocalsOK, AnswerFollowsPc
  <2> QED BY <1>1, <2>1 DEF AnswersFresh, LocalsOK
<1>4. ASSUME ProbeHit(t)
      PROVE  /\ index' = index
             /\ \A u \in Threads : \A a \in res'[u] : a = Answer(req'[u], index)
  <2>1. \A e \in LiveFound(req[t]) : e.hits = Answer(req[t], index)
    BY FoundEntries, KeyOfEntry DEF CacheFresh
  <2>2. /\ res' = [res EXCEPT ![t] = {e.hits : e \in LiveFound(req[t])}]
        /\ req' = req /\ index' = index
    BY <1>4 DEF ProbeHit
  <2> QED BY <1>1, <2>1, <2>2 DEF AnswersFresh, LocalsOK
<1>5. ASSUME SearchOk(t)
      PROVE  /\ index' = index
             /\ \A u \in Threads : \A a \in res'[u] : a = Answer(req'[u], index)
  <2>1. res' = [res EXCEPT ![t] = {Answer(req[t], index)}] /\ req' = req /\ index' = index
    BY <1>5 DEF SearchOk, Some
  <2> QED BY <1>1, <2>1 DEF AnswersFresh, LocalsOK
<1>6. ASSUME Return(t)
      PROVE  /\ index' = index
             /\ \A u \in Threads : \A a \in res'[u] : a = Answer(req'[u], index)
  <2>1. res' = [res EXCEPT ![t] = {}] /\ req' = req /\ index' = index
    BY <1>6 DEF Return, None
  <2> QED BY <1>1, <2>1 DEF AnswersFresh, LocalsOK
<1>7. ASSUME \/ LockForLookup(t) \/ ProbeMiss(t) \/ SearchErr(t) \/ Account(t)
             \/ LockForStore(t) \/ Store(t) \/ Tally(t)
      PROVE  /\ index' = index
             /\ \A u \in Threads : \A a \in res'[u] : a = Answer(req'[u], index)
  <2>1. res' = res /\ req' = req /\ index' = index
    BY <1>7 DEF LockForLookup, ProbeMiss, SearchErr, Account, LockForStore, Store, Tally
  <2> QED BY <2>1 DEF AnswersFresh
<1> QED BY <1>3, <1>4, <1>5, <1>6, <1>7 DEF Lock, Local, Search

\* While the index stays as it is, the cache stays fresh: only a get, a clear
\* or the put of a thread's own answer touches it.
LEMMA CacheStaysFresh ==
  ASSUME TypeInv, CacheFresh, AnswersFresh, [SharedNext]_vars, index' = index
  PROVE  CacheFresh'
<1>1. PolicyType(cache, Keys, CachedVals) /\ LocalsOK
  BY TypeInvParts DEF CacheOK
<1>2. SUFFICES \A e \in Entries(cache') : e.val.hits = Answer(e.key, index)
  BY DEF CacheFresh, Answer, Bare!Answer, Entries, RecencyEntries, LfuEntries, ArcEntries
<1>3. CASE Entries(cache') \subseteq Entries(cache)
  BY <1>3 DEF CacheFresh
<1>4. ASSUME NEW t \in Threads, pc[t] = "store", cache' = Stored(t).cache
      PROVE  \A e \in Entries(cache') : e.val.hits = Answer(e.key, index)
  <2> DEFINE a == CHOOSE a \in res[t] : TRUE
             v == CacheEntry(a, stamp[t])
  <2>1. a \in res[t] /\ v \in CachedVals /\ req[t] \in Keys
    BY <1>1, <1>4, StoredValue DEF LocalsOK
  <2>2. cache' = PolicyPut(cache, req[t], v).cache
    BY <1>4 DEF Stored
  <2>3. v.hits = a
    BY DEF CacheEntry
  <2> HIDE DEF a, v
  <2>4. a = Answer(req[t], index)
    BY <2>1 DEF AnswersFresh
  <2>5. Entries(cache') \subseteq Entries(cache) \cup {Entry(req[t], v)}
    BY <1>1, <2>1, <2>2, PolicyPutSpec
  <2>6. Entry(req[t], v).key = req[t] /\ Entry(req[t], v).val.hits = Answer(req[t], index)
    BY <2>3, <2>4, KeyOfEntry
  <2> QED BY <2>5, <2>6 DEF CacheFresh
<1>5. \/ cache' = cache
      \/ \E t \in Threads : cache' = PolicyGet(cache, req[t]).cache
      \/ invalidate
      => Entries(cache') \subseteq Entries(cache)
  BY <1>1, PolicyGetSpec, PolicyClearSpec DEF invalidate
<1> QED BY <1>3, <1>4, <1>5, CacheSteps

\* Every step keeps the cache and the answers fresh: a step of search uses
\* what is fresh already, and a mutator empties the cache while no search runs.
LEMMA NextNoStale == TypeInv /\ NoStale /\ [Next]_vars => NoStale'
<1> SUFFICES ASSUME TypeInv, NoStale, [Next]_vars, [SharedNext]_vars
             PROVE  CacheFresh' /\ AnswersFresh'
  BY Unshared DEF NoStale, CacheFresh, AnswersFresh
<1>1. CacheFresh /\ AnswersFresh
  BY DEF NoStale, CacheFresh, AnswersFresh
<1>2. CASE Searching
  <2>1. index' = index /\ AnswersFresh'
    BY <1>1, <1>2, AnswersSearching DEF Searching
  <2> QED BY <1>1, <2>1, CacheStaysFresh
<1>3. CASE Mutating
  <2>1. /\ Exclusive /\ invalidate /\ res' = res
    BY <1>3 DEF Mutating, InsertOrDelete, insert_batch, clear_cache, locals
  <2>2. \A t \in Threads : res'[t] = {}
    BY <2>1 DEF Exclusive, TypeInv, AnswerFollowsPc
  <2>3. Entries(cache') = {}
    BY <2>1, TypeInvParts, PolicyClearSpec DEF invalidate, CacheOK
  <2>4. CacheFresh'
    BY <2>3 DEF CacheFresh, Entries, RecencyEntries, LfuEntries, ArcEntries
  <2> QED BY <2>2, <2>4 DEF AnswersFresh
<1>4. CASE Tick
  <2>1. index' = index /\ res' = res /\ req' = req
    BY <1>4 DEF Tick, locals
  <2>2. AnswersFresh'
    BY <1>1, <2>1 DEF AnswersFresh, Answer, Bare!Answer
  <2> QED BY <1>1, <2>1, <2>2, CacheStaysFresh
<1>5. CASE UNCHANGED vars
  <2>1. index' = index /\ res' = res /\ req' = req
    BY <1>5 DEF vars, locals
  <2>2. AnswersFresh'
    BY <1>1, <2>1 DEF AnswersFresh, Answer, Bare!Answer
  <2> QED BY <1>1, <2>1, <2>2, CacheStaysFresh
<1> QED BY <1>2, <1>3, <1>4, <1>5 DEF Next

\* While all mutations go through the wrapper, nothing stale is cached, stored
\* or returned: for any number of threads and whatever the policy, capacity and
\* TTL (src/cached.rs:323-399).  The exclusive borrow of the mutators and their
\* invalidation are what it rests on.
THEOREM NothingStale == Spec => []NoStale
<1>1. Init => TypeInv /\ NoStale
  BY InitTypeInv, InitNoStale
<1>2. TypeInv /\ NoStale /\ [Next]_vars => (TypeInv /\ NoStale)'
  BY NextTypeInv, NextNoStale, Unshared
<1> QED BY <1>1, <1>2, PTL DEF Spec

-----------------------------------------------------------------------------
\* The wrapper implements the bare index.

\* Where a thread at a label of search is in the bare index's search.
Phase(label) ==
  CASE label = "idle"                          -> "idle"
    [] label \in {"lookup", "probe", "search"} -> "called"
    [] label \in {"account", "relock", "store", "tally", "done"} -> "served"

Phases == [t \in Threads |-> Phase(pc[t])]

Labels == {"idle", "lookup", "probe", "search", "account", "relock", "store", "tally", "done"}

\* The three phases.
LEMMA PhaseOf ==
  /\ Phase("idle") = "idle"
  /\ \A label \in {"lookup", "probe", "search"} : Phase(label) = "called"
  /\ \A label \in {"account", "relock", "store", "tally", "done"} : Phase(label) = "served"
BY DEF Phase

\* A step to another label changes the phase of its thread only.
LEMMA PhaseMoves ==
  ASSUME pc \in [Threads -> Labels], NEW t \in Threads, NEW label, Goto(t, label)
  PROVE  Phases' = [Phases EXCEPT ![t] = Phase(label)]
<1>1. pc' = [pc EXCEPT ![t] = label]
  BY DEF Goto
<1>2. ASSUME NEW u \in Threads
      PROVE  Phase(pc'[u]) = IF u = t THEN Phase(label) ELSE Phase(pc[u])
  BY <1>1, <1>2
<1>3. Phases' = [u \in Threads |-> Phase(pc'[u])]
  BY DEF Phases, Phase
<1> QED BY <1>2, <1>3 DEF Phases

\* The bare index's steps, in terms of the phases.
LEMMA BareSteps ==
  /\ Bare!bare = <<index, Phases, req, res>>
  /\ \A t \in Threads, k \in Keys :
       Phases[t] = "idle" /\ Phases' = [Phases EXCEPT ![t] = "called"]
       /\ req' = [req EXCEPT ![t] = k] /\ index' = index /\ res' = res
       => Bare!Call(t, k)
  /\ \A t \in Threads :
       Phases[t] = "called" /\ Phases' = [Phases EXCEPT ![t] = "served"]
       /\ (\E answers \in {{}, {Answer(req[t], index)}} : res' = [res EXCEPT ![t] = answers])
       /\ index' = index /\ req' = req
       => Bare!Serve(t)
  /\ \A t \in Threads :
       Phases[t] = "served" /\ Phases' = [Phases EXCEPT ![t] = "idle"]
       /\ res' = [res EXCEPT ![t] = {}] /\ index' = index /\ req' = req
       => Bare!Return(t)
  /\ (\A t \in Threads : Phases[t] = "idle") /\ index' = index + 1
     /\ Phases' = Phases /\ req' = req /\ res' = res
     => Bare!Mutate
  /\ Phases' = Phases /\ index' = index /\ req' = req /\ res' = res
     => Bare!bare' = Bare!bare
<1>1. Bare!bare = <<index, Phases, req, res>>
  BY DEF Bare!bare, Phases, Phase
<1>2. Phases' = Phases /\ index' = index /\ req' = req /\ res' = res => Bare!bare' = Bare!bare
  BY DEF Bare!bare, Phases, Phase
<1>3. ASSUME NEW t \in Threads, NEW k \in Keys,
             Phases[t] = "idle", Phases' = [Phases EXCEPT ![t] = "called"],
             req' = [req EXCEPT ![t] = k], index' = index, res' = res
      PROVE  Bare!Call(t, k)
  BY <1>3 DEF Bare!Call, Phases, Phase
<1>4. ASSUME NEW t \in Threads,
             Phases[t] = "called", Phases' = [Phases EXCEPT ![t] = "served"],
             \E answers \in {{}, {Answer(req[t], index)}} : res' = [res EXCEPT ![t] = answers],
             index' = index, req' = req
      PROVE  Bare!Serve(t)
  BY <1>4 DEF Bare!Serve, Answer, Phases, Phase
<1>5. ASSUME NEW t \in Threads,
             Phases[t] = "served", Phases' = [Phases EXCEPT ![t] = "idle"],
             res' = [res EXCEPT ![t] = {}], index' = index, req' = req
      PROVE  Bare!Return(t)
  BY <1>5 DEF Bare!Return, Phases, Phase
<1>6. ASSUME \A t \in Threads : Phases[t] = "idle", index' = index + 1,
             Phases' = Phases, req' = req, res' = res
      PROVE  Bare!Mutate
  BY <1>6 DEF Bare!Mutate, Phases, Phase
<1> QED BY <1>1, <1>2, <1>3, <1>4, <1>5, <1>6

\* The wrapper starts as the bare index does.
LEMMA BareInit == Init => Bare!Init
BY PhaseOf DEF Init, Bare!Init, None

\* A step of search is a step of the bare index's search or none.
LEMMA BareSearching ==
  ASSUME TypeInv, CacheFresh, NEW t \in Threads,
         Lock(t) \/ Local(t) \/ Search(t) \/ \E k \in Keys : Call(t, k)
  PROVE  \/ Bare!Serve(t) \/ Bare!Return(t) \/ \E k \in Keys : Bare!Call(t, k)
         \/ Bare!bare' = Bare!bare
<1> DEFINE Goal == \/ Bare!Serve(t) \/ Bare!Return(t) \/ \E k \in Keys : Bare!Call(t, k)
                   \/ Bare!bare' = Bare!bare
<1>1. LocalsOK /\ pc \in [Threads -> Labels] /\ res \in [Threads -> SUBSET Answers]
  BY TypeInvParts DEF LocalsOK, Labels
<1>2. Phases \in [Threads -> {"idle", "called", "served"}] /\ Phases[t] = Phase(pc[t])
  BY <1>1, PhaseOf DEF Phases, Labels
<1>3. ASSUME NEW label, Goto(t, label), Phase(label) = Phase(pc[t]),
             index' = index, req' = req, res' = res
      PROVE  Goal
  <2>1. Phases' = Phases
    BY <1>1, <1>2, <1>3, PhaseMoves
  <2> QED BY <1>3, <2>1, BareSteps
<1>4. ASSUME NEW k \in Keys, Call(t, k) PROVE Goal
  <2>1. PICK label \in {"lookup", "search"} : Goto(t, label)
    BY <1>4 DEF Call
  <2>2. Phases[t] = "idle" /\ Phases' = [Phases EXCEPT ![t] = "called"]
    BY <1>1, <1>2, <1>4, <2>1, PhaseMoves, PhaseOf DEF Call
  <2>3. req' = [req EXCEPT ![t] = k] /\ index' = index /\ res' = res
    BY <1>4 DEF Call
  <2> QED BY <2>2, <2>3, BareSteps
<1>5. ASSUME ProbeHit(t) PROVE Goal
  <2>1. Phases[t] = "called" /\ Phases' = [Phases EXCEPT ![t] = "served"]
    BY <1>1, <1>2, <1>5, PhaseMoves, PhaseOf DEF ProbeHit
  <2>2. {e.hits : e \in LiveFound(req[t])} = {Answer(req[t], index)}
    <3>1. LiveFound(req[t]) # {}
      BY <1>5 DEF ProbeHit
    <3>2. \A e \in LiveFound(req[t]) : e.hits = Answer(req[t], index)
      BY FoundEntries, KeyOfEntry DEF CacheFresh
    <3> QED BY <3>1, <3>2
  <2>3. res' = [res EXCEPT ![t] = {Answer(req[t], index)}] /\ index' = index /\ req' = req
    BY <1>5, <2>2 DEF ProbeHit
  <2> QED BY <2>1, <2>3, BareSteps
<1>6. ASSUME SearchOk(t) PROVE Goal
  <2>1. PICK label \in {"done", "account"} : Goto(t, label)
    BY <1>6 DEF SearchOk
  <2>2. Phases[t] = "called" /\ Phases' = [Phases EXCEPT ![t] = "served"]
    BY <1>1, <1>2, <1>6, <2>1, PhaseMoves, PhaseOf DEF SearchOk
  <2>3. res' = [res EXCEPT ![t] = {Answer(req[t], index)}] /\ index' = index /\ req' = req
    BY <1>6 DEF SearchOk, Some
  <2> QED BY <2>2, <2>3, BareSteps
<1>7. ASSUME SearchErr(t) PROVE Goal
  <2>1. Phases[t] = "called" /\ Phases' = [Phases EXCEPT ![t] = "served"]
    BY <1>1, <1>2, <1>7, PhaseMoves, PhaseOf DEF SearchErr
  <2>2. res[t] = {} /\ res' = res /\ index' = index /\ req' = req
    BY <1>1, <1>7 DEF SearchErr, LocalsOK, AnswerFollowsPc
  <2>3. res' = [res EXCEPT ![t] = {}]
    BY <1>1, <2>2
  <2> QED BY <2>1, <2>2, <2>3, BareSteps
<1>8. ASSUME Return(t) PROVE Goal
  <2>1. Phases[t] = "served" /\ Phases' = [Phases EXCEPT ![t] = "idle"]
    BY <1>1, <1>2, <1>8, PhaseMoves, PhaseOf DEF Return
  <2>2. res' = [res EXCEPT ![t] = {}] /\ index' = index /\ req' = req
    BY <1>8 DEF Return, None
  <2> QED BY <2>1, <2>2, BareSteps
<1>9. ASSUME LockForLookup(t) \/ ProbeMiss(t) PROVE Goal
  <2>1. PICK label \in {"probe", "search"} : Goto(t, label)
    BY <1>9 DEF LockForLookup, ProbeMiss
  <2>2. /\ pc[t] \in {"lookup", "probe"}
        /\ index' = index /\ req' = req /\ res' = res
    BY <1>9 DEF LockForLookup, ProbeMiss
  <2>3. Phase(label) = Phase(pc[t])
    BY <2>1, <2>2, PhaseOf
  <2> QED BY <1>3, <2>1, <2>2, <2>3
<1>10. ASSUME Account(t) \/ LockForStore(t) \/ Store(t) \/ Tally(t) PROVE Goal
  <2>1. PICK label \in {"relock", "store", "tally", "done"} : Goto(t, label)
    BY <1>10 DEF Account, LockForStore, Store, Tally
  <2>2. /\ pc[t] \in {"account", "relock", "store", "tally"}
        /\ index' = index /\ req' = req /\ res' = res
    BY <1>10 DEF Account, LockForStore, Store, Tally
  <2>3. Phase(label) = Phase(pc[t])
    BY <2>1, <2>2, PhaseOf
  <2> QED BY <1>3, <2>1, <2>2, <2>3
<1> HIDE DEF Goal
<1>11. Goal
  BY <1>4, <1>5, <1>6, <1>7, <1>8, <1>9, <1>10 DEF Lock, Local, Search
<1> QED BY <1>11 DEF Goal

\* Every step of the wrapper is a step of the bare index or none.
LEMMA BareNext ==
  TypeInv /\ NoStale /\ [Next]_vars => [Bare!Next]_(Bare!bare)
<1> SUFFICES ASSUME TypeInv, NoStale, [Next]_vars
             PROVE  Bare!Next \/ Bare!bare' = Bare!bare
  OBVIOUS
<1>1. CacheFresh
  BY DEF NoStale, CacheFresh
<1>2. CASE Searching
  BY <1>1, <1>2, BareSearching DEF Searching, Bare!Next
<1>3. ASSUME pc' = pc, req' = req, res' = res, index' = index
      PROVE  Bare!bare' = Bare!bare
  <2>1. Phases' = Phases
    BY <1>3 DEF Phases, Phase
  <2> QED BY <1>3, <2>1, BareSteps
<1>4. CASE Mutating
  <2>1. Exclusive /\ pc' = pc /\ req' = req /\ res' = res /\ (Changed \/ index' = index)
    BY <1>4 DEF Mutating, InsertOrDelete, insert_batch, clear_cache, locals
  <2>2. CASE Changed
    <3>1. Phases' = Phases
      BY <2>1 DEF Phases, Phase
    <3>2. \A t \in Threads : Phases[t] = "idle"
      BY <2>1, PhaseOf DEF Exclusive, Phases
    <3>3. Bare!Mutate
      BY <2>1, <2>2, <3>1, <3>2, BareSteps DEF Changed
    <3> QED BY <3>3 DEF Bare!Next
  <2> QED BY <1>3, <2>1, <2>2
<1>5. CASE Tick
  BY <1>3, <1>5 DEF Tick, locals
<1>6. CASE UNCHANGED vars
  BY <1>3, <1>6 DEF vars, locals
<1> QED BY <1>2, <1>4, <1>5, <1>6 DEF Next

\* While all mutations go through the wrapper, whatever its callers see the
\* bare index could have shown them: each search takes effect at one moment
\* between its call and its return (src/cached.rs:361-399 with 323-359).
THEOREM WrapperTransparent == Spec => Transparent
<1>1. Init => TypeInv /\ NoStale
  BY InitTypeInv, InitNoStale
<1>2. TypeInv /\ NoStale /\ [Next]_vars => (TypeInv /\ NoStale)'
  BY NextTypeInv, NextNoStale, Unshared
<1>3. TypeInv /\ NoStale /\ [Next]_vars => [Bare!Next]_(Bare!bare)
  BY BareNext
<1> QED BY <1>1, <1>2, <1>3, BareInit, PTL DEF Spec, Transparent, Bare!Spec

-----------------------------------------------------------------------------
\* How much is cached, and what the counters owe it.

\* What the next two theorems rest on: an LFU cache, for one, evicts only if
\* its maps are coherent.
SizeInv == TypeInv /\ PolicySound(cache)

\* A fresh wrapper has a sound, empty cache.
LEMMA InitSizeInv == Init => SizeInv /\ PolicyLen(cache) = 0
<1> SUFFICES ASSUME Init PROVE PolicySound(cache) /\ PolicyLen(cache) = 0
  BY InitTypeInv DEF SizeInv
<1>1. config.policy \in EvictionPolicy /\ config.capacity \in Nat
  BY ConfiguredType
<1> QED BY <1>1, PolicyNewSound DEF Init

\* What a step does to the number of entries: nothing, a reduction, or a put,
\* which adds one unless it reports an eviction.
LEMMA SizeSteps ==
  ASSUME SizeInv
  PROVE  /\ PolicyLen(cache) \in Nat
         /\ \A t \in Threads : cache' = PolicyGet(cache, req[t]).cache =>
              PolicySound(cache') /\ PolicyLen(cache') <= PolicyLen(cache)
         /\ \A t \in Threads : pc[t] = "store" /\ cache' = Stored(t).cache =>
              /\ PolicySound(cache')
              /\ PolicyLen(cache') <= PolicyLen(cache) + 1
              /\ Stored(t).evicted => PolicyLen(cache') <= PolicyLen(cache)
         /\ invalidate => PolicySound(cache') /\ PolicyLen(cache') = 0
<1>1. TypeInv /\ PolicyType(cache, Keys, CachedVals) /\ PolicySound(cache) /\ LocalsOK
  BY TypeInvParts DEF SizeInv, CacheOK
<1>2. PolicyLen(cache) \in Nat
  BY <1>1, SoundWithinCapacity
<1>3. ASSUME NEW t \in Threads, cache' = PolicyGet(cache, req[t]).cache
      PROVE  PolicySound(cache') /\ PolicyLen(cache') <= PolicyLen(cache)
  BY <1>1, <1>3, PolicyGetSound
<1>4. ASSUME NEW t \in Threads, pc[t] = "store", cache' = Stored(t).cache
      PROVE  /\ PolicySound(cache')
             /\ PolicyLen(cache') <= PolicyLen(cache) + 1
             /\ Stored(t).evicted => PolicyLen(cache') <= PolicyLen(cache)
  <2> DEFINE v == CacheEntry(CHOOSE a \in res[t] : TRUE, stamp[t])
             r == Stored(t)
  <2>1. v \in CachedVals /\ req[t] \in Keys
    BY <1>1, <1>4, StoredValue DEF LocalsOK
  <2>2. r = PolicyPut(cache, req[t], v)
    BY DEF Stored
  <2> HIDE DEF v, r
  <2>3. /\ PolicySound(r.cache)
        /\ PolicyLen(r.cache) <= PolicyLen(cache) + 1
        /\ r.evicted => PolicyLen(r.cache) <= PolicyLen(cache)
    BY <1>1, <2>1, <2>2, PolicyPutSound
  <2> QED BY <1>4, <2>3 DEF r
<1>5. ASSUME invalidate PROVE PolicySound(cache') /\ PolicyLen(cache') = 0
  BY <1>1, <1>5, PolicyClearSound DEF invalidate
<1> QED BY <1>2, <1>3, <1>4, <1>5

\* Soundness after a step, as a fact about the cache then.
LEMMA SizeInvNext ==
  ASSUME TypeInv', PolicySound(cache')
  PROVE  SizeInv'
BY DEF SizeInv, PolicySound, LfuSound, Grouped, LowestAt, KeysAt, KeysOf, Bucket

\* Every step keeps the cache sound.
LEMMA NextSizeInv == SizeInv /\ [SharedNext]_vars => SizeInv'
<1> SUFFICES ASSUME SizeInv, [SharedNext]_vars PROVE SizeInv'
  OBVIOUS
<1>1. TypeInv'
  BY NextTypeInv DEF SizeInv
<1>2. PolicySound(cache')
  BY CacheSteps, SizeSteps DEF SizeInv
<1> QED BY <1>1, <1>2, SizeInvNext

\* In every behaviour at most capacity results are held, however the searches
\* interleave and whatever the policy (src/config.rs:76, src/cached.rs:361-399).
THEOREM CapacityRespected == Spec => []CapacityBound
<1>1. SizeInv => CapacityBound
  BY SoundWithinCapacity DEF SizeInv, TypeInv, TypeOK, CapacityBound
<1>2. Init => SizeInv
  BY InitSizeInv
<1> QED BY <1>1, <1>2, NextSizeInv, Unshared, PTL DEF Spec

\* The number of threads at given labels.
LEMMA AtIsNat ==
  ASSUME NEW L
  PROVE  At(L) \in Nat
<1>1. IsFiniteSet({t \in Threads : pc[t] \in L})
  BY IndexAssumption, FS_Subset
<1> QED BY <1>1, FS_CardinalityType DEF At

\* How it changes when one thread goes from a label to another.
LEMMA AtMoves ==
  ASSUME TypeInv, NEW t \in Threads, NEW x, Goto(t, x), NEW L
  PROVE  At(L)' = CASE pc[t] \in L /\ x \notin L -> At(L) - 1
                    [] pc[t] \notin L /\ x \in L -> At(L) + 1
                    [] pc[t] \in L <=> x \in L    -> At(L)
<1> DEFINE A == {u \in Threads : pc[u] \in L}
           B == {u \in Threads : pc'[u] \in L}
<1>1. /\ \A u \in Threads : u # t => pc'[u] = pc[u]
      /\ pc'[t] = x
  BY DEF Goto, TypeInv, TypeOK
<1>2. IsFiniteSet(A)
  BY IndexAssumption, FS_Subset
<1>3. At(L) = Cardinality(A) /\ At(L)' = Cardinality(B)
  BY DEF At
<1>4. CASE pc[t] \in L /\ x \notin L
  <2>1. B = A \ {t} /\ t \in A
    BY <1>1, <1>4
  <2> HIDE DEF A, B
  <2> QED BY <1>2, <1>3, <1>4, <2>1, FS_RemoveElement
<1>5. CASE pc[t] \notin L /\ x \in L
  <2>1. B = A \cup {t} /\ t \notin A
    BY <1>1, <1>5
  <2> HIDE DEF A, B
  <2> QED BY <1>2, <1>3, <1>5, <2>1, FS_AddElement
<1>6. CASE pc[t] \in L <=> x \in L
  <2>1. B = A
    BY <1>1, <1>6
  <2> HIDE DEF A, B
  <2>2. At(L)' = At(L)
    BY <1>3, <2>1
  <2> QED BY <1>6, <2>2
<1> QED BY <1>4, <1>5, <1>6

\* The threads that hold a counted miss whose entry or eviction is to come.
Owing == {"relock", "store", "tally"}

\* No step makes the ledger promise more.
LEMMA NextLedger == SizeInv /\ EvictionLedger /\ [SharedNext]_vars => EvictionLedger'
<1> SUFFICES ASSUME SizeInv, EvictionLedger, [SharedNext]_vars PROVE EvictionLedger'
  OBVIOUS
<1> DEFINE n == PolicyLen(cache)
           m == PolicyLen(cache')
           w == At(Owing)
<1>1. /\ n \in Nat /\ w \in Nat /\ misses \in Nat /\ evictions \in Nat
      /\ n + evictions + w <= misses
  BY SizeSteps, AtIsNat DEF SizeInv, TypeInv, TypeOK, EvictionLedger, Owing
<1>2. m \in Nat
  BY NextSizeInv, SoundWithinCapacity DEF SizeInv, TypeInv, TypeOK
<1>3. SUFFICES m + evictions' + w' <= misses'
  BY DEF EvictionLedger, Owing, PolicyLen, RecencyLen, LfuLen, ArcLen, Size
<1>4. TypeInv
  BY DEF SizeInv
<1>5. pc' = pc => w' = w
  BY DEF At
<1> HIDE DEF n, m, w
<1>6. CASE cache' = cache /\ misses' = misses /\ evictions' = evictions /\ w' = w
  BY <1>1, <1>6 DEF n, m
<1>7. ASSUME NEW t \in Threads, NEW k \in Keys, Call(t, k)
      PROVE  m + evictions' + w' <= misses'
  <2>1. m = n /\ evictions' = evictions
    BY <1>7 DEF Call, n, m
  <2>2. misses' \in Nat /\ misses' >= misses
    BY <1>1, <1>7 DEF Call
  <2>3. w' = w
    <3>1. PICK x \in {"search", "lookup"} : Goto(t, x)
      BY <1>7 DEF Call
    <3>2. pc[t] \notin Owing /\ x \notin Owing
      BY <1>7, <3>1 DEF Call, Owing
    <3> QED BY <1>4, <3>1, <3>2, AtMoves DEF w
  <2> QED BY <1>1, <2>1, <2>2, <2>3
<1>8. ASSUME NEW t \in Threads, ProbeHit(t) \/ ProbeMiss(t)
      PROVE  m + evictions' + w' <= misses'
  <2>1. m <= n /\ evictions' = evictions /\ misses' = misses
    BY <1>8, SizeSteps DEF ProbeHit, ProbeMiss, counters, n, m
  <2>2. w' = w
    <3>1. PICK x \in {"done", "search"} : Goto(t, x)
      BY <1>8 DEF ProbeHit, ProbeMiss
    <3>2. pc[t] \notin Owing /\ x \notin Owing
      BY <1>8, <3>1 DEF ProbeHit, ProbeMiss, Owing
    <3> QED BY <1>4, <3>1, <3>2, AtMoves DEF w
  <2> QED BY <1>1, <1>2, <2>1, <2>2
<1>9. ASSUME NEW t \in Threads, Account(t)
      PROVE  m + evictions' + w' <= misses'
  <2>1. m = n /\ evictions' = evictions /\ misses' = misses + 1
    BY <1>9 DEF Account, n, m
  <2>2. w' = w + 1
    BY <1>4, <1>9, AtMoves DEF Account, Owing, w
  <2> QED BY <1>1, <2>1, <2>2
<1>10. ASSUME NEW t \in Threads, Store(t)
       PROVE  m + evictions' + w' <= misses'
  <2>1. evictions' = evictions /\ misses' = misses /\ pc[t] = "store"
    BY <1>10 DEF Store, counters
  <2>2. m <= n + 1 /\ (Stored(t).evicted => m <= n)
    BY <1>10, SizeSteps DEF Store, n, m
  <2>3. CASE Stored(t).evicted
    <3>1. Goto(t, "tally")
      BY <1>10, <2>3 DEF Store
    <3>2. w' = w
      BY <1>4, <2>1, <3>1, AtMoves DEF Owing, w
    <3> QED BY <1>1, <1>2, <2>1, <2>2, <2>3, <3>2
  <2>4. CASE ~ Stored(t).evicted
    <3>1. Goto(t, "done")
      BY <1>10, <2>4 DEF Store
    <3>2. w' = w - 1
      BY <1>4, <2>1, <3>1, AtMoves DEF Owing, w
    <3> QED BY <1>1, <1>2, <2>1, <2>2, <3>2
  <2> QED BY <2>3, <2>4
<1>11. ASSUME NEW t \in Threads, Tally(t)
       PROVE  m + evictions' + w' <= misses'
  <2>1. m = n /\ evictions' = evictions + 1 /\ misses' = misses
    BY <1>11 DEF Tally, n, m
  <2>2. w' = w - 1
    BY <1>4, <1>11, AtMoves DEF Tally, Owing, w
  <2> QED BY <1>1, <2>1, <2>2
<1>12. ASSUME NEW t \in Threads,
              LockForLookup(t) \/ SearchOk(t) \/ SearchErr(t) \/ LockForStore(t) \/ Return(t)
       PROVE  m + evictions' + w' <= misses'
  <2>1. cache' = cache /\ misses' = misses /\ evictions' = evictions
    BY <1>12 DEF LockForLookup, SearchOk, SearchErr, LockForStore, Return, counters
  <2>2. PICK x : Goto(t, x) /\ (pc[t] \in Owing <=> x \in Owing)
    BY <1>12 DEF LockForLookup, SearchOk, SearchErr, LockForStore, Return, Owing
  <2>3. w' = w
    BY <1>4, <2>2, AtMoves DEF w
  <2> QED BY <1>6, <2>1, <2>3
<1>13. CASE Mutating
  <2>1. m = 0 /\ misses' = misses /\ evictions' = evictions /\ pc' = pc
    BY <1>13, SizeSteps DEF Mutating, InsertOrDelete, insert_batch, clear_cache, counters,
       locals, m
  <2> QED BY <1>1, <1>5, <2>1
<1>14. CASE Tick \/ UnseenMutation \/ UNCHANGED vars
  <2>1. cache' = cache /\ misses' = misses /\ evictions' = evictions /\ pc' = pc
    BY <1>14 DEF UnseenMutation, Tick, counters, locals, vars
  <2> QED BY <1>5, <1>6, <2>1
<1> QED
  BY <1>7, <1>8, <1>9, <1>10, <1>11, <1>12, <1>13, <1>14
     DEF SharedNext, Next, Searching, Lock, Local, Search

\* In every behaviour each entry held and each eviction, counted or about to
\* be, is owed to a counted miss of its own (src/cached.rs:361-399): the miss
\* is counted before the put, the eviction after it, and a put that does not
\* evict adds one entry at most.
THEOREM LedgerBalanced == Spec => []EvictionLedger
<1>1. Init => SizeInv /\ EvictionLedger
  <2> SUFFICES ASSUME Init PROVE SizeInv /\ EvictionLedger
    OBVIOUS
  <2>1. PolicyLen(cache) = 0 /\ SizeInv
    BY InitSizeInv
  <2>2. evictions = 0 /\ misses = 0 /\ {t \in Threads : pc[t] \in Owing} = {}
    BY DEF Init, Owing
  <2>3. At(Owing) = 0
    BY <2>2, FS_EmptySet DEF At
  <2> QED BY <2>1, <2>2, <2>3 DEF EvictionLedger, Owing
<1>2. SizeInv /\ EvictionLedger /\ [Next]_vars => (SizeInv /\ EvictionLedger)'
  BY NextSizeInv, NextLedger, Unshared
<1> QED BY <1>1, <1>2, PTL DEF Spec

-----------------------------------------------------------------------------
\* What a put leaves under its key.

\* The wrapper was configured with a policy other than ARC.
NotArc == cache.kind # "Arc"

\* Every step keeps the kind of cache.
LEMMA NextNotArc == TypeInv /\ NotArc /\ [SharedNext]_vars => NotArc'
<1> SUFFICES ASSUME TypeInv, NotArc, [SharedNext]_vars PROVE cache'.kind # "Arc"
  BY DEF NotArc
<1>1. PolicyType(cache, Keys, CachedVals) /\ LocalsOK /\ cache.kind # "Arc"
  BY TypeInvParts DEF CacheOK, NotArc
<1>2. ASSUME NEW t \in Threads, cache' = PolicyGet(cache, req[t]).cache
      PROVE  cache'.kind = cache.kind
  BY <1>1, <1>2, PolicyGetSpec DEF Keeps
<1>3. ASSUME NEW t \in Threads, pc[t] = "store", cache' = Stored(t).cache
      PROVE  cache'.kind = cache.kind
  <2> DEFINE v == CacheEntry(CHOOSE a \in res[t] : TRUE, stamp[t])
  <2>1. v \in CachedVals /\ req[t] \in Keys
    BY <1>1, <1>3, StoredValue DEF LocalsOK
  <2>2. cache' = PolicyPut(cache, req[t], v).cache
    BY <1>3 DEF Stored
  <2> HIDE DEF v
  <2> QED BY <1>1, <2>1, <2>2, PolicyPutSpec DEF Keeps
<1>4. ASSUME invalidate PROVE cache'.kind = cache.kind
  BY <1>1, <1>4, PolicyClearSpec DEF invalidate, Keeps
<1> QED BY <1>1, <1>2, <1>3, <1>4, CacheSteps

\* A store leaves under its key what the thread stored.
LEMMA StoreOverwrites ==
  ASSUME SizeInv, NotArc, NEW t \in Threads, Store(t)
  PROVE  \A e \in Entries(cache') : e.key = req[t] =>
           e.val = CacheEntry(CHOOSE a \in res[t] : TRUE, stamp[t])
<1> DEFINE v == CacheEntry(CHOOSE a \in res[t] : TRUE, stamp[t])
<1>1. /\ TypeInv /\ PolicyType(cache, Keys, CachedVals) /\ LocalsOK
      /\ PolicySound(cache) /\ cache.kind # "Arc"
  BY TypeInvParts DEF SizeInv, CacheOK, NotArc
<1>2. v \in CachedVals /\ req[t] \in Keys
  BY <1>1, StoredValue DEF LocalsOK, Store
<1>3. cache' = PolicyPut(cache, req[t], v).cache
  BY DEF Store, Stored
<1> HIDE DEF v
<1>4. \A e \in Entries(cache') : e.key = req[t] => e = Entry(req[t], v)
  BY <1>1, <1>2, <1>3, PutLeavesOne
<1>5. Entry(req[t], v).val = v
  BY KeyOfEntry
<1> QED BY <1>4, <1>5 DEF v

\* Under LRU, LFU and FIFO, in every behaviour, the put of a recomputed result
\* leaves nothing under its key but that result (src/cached.rs:375-376 with
\* 384-396), whatever other threads did between the search and the put.  ARC
\* does not: the run arc_refresh shows the older entry staying beside it.
THEOREM RecomputedReplaces ==
  ASSUME "Arc" \notin Policies
  PROVE  Spec => RefreshOverwrites
<1>1. Init => NotArc
  <2> SUFFICES ASSUME Init PROVE cache.kind # "Arc"
    BY DEF NotArc
  <2>1. PICK p \in Policies, n \in Capacities, ttl \in Ttls : config = Configured(p, n, ttl)
    BY DEF Init
  <2>2. config.policy = p
    BY <2>1 DEF Configured, ConfigNew, SetPolicy, SetCapacity, SetTtl, NoTtl, None, Some
  <2>3. p \in EvictionPolicy /\ p # "Arc"
    BY IndexAssumption
  <2>4. cache = PolicyNew(p, config.capacity)
    BY <2>2 DEF Init
  <2> QED BY <2>3, <2>4, PolicyNewKind
<1>2. Init => SizeInv
  BY InitSizeInv
<1>3. SizeInv /\ NotArc /\ [Next]_vars => (SizeInv /\ NotArc)'
  BY NextSizeInv, NextNotArc, Unshared DEF SizeInv
<1>4. SizeInv /\ NotArc =>
        \A t \in Threads : Store(t) =>
          \A e \in Entries(cache') : e.key = req[t] =>
            e.val = CacheEntry(CHOOSE a \in res[t] : TRUE, stamp[t])
  BY StoreOverwrites
<1> QED BY <1>1, <1>2, <1>3, <1>4, PTL DEF Spec, RefreshOverwrites

-----------------------------------------------------------------------------
\* The counters: what becomes of every lookup.

\* Searches begun through the cache and not yet decided.
Pending == {"lookup", "probe", "search", "account"}

\* With capacity 0 no search goes near the cache, and each is a miss at once.
Disabled ==
  config.capacity = 0 =>
    /\ hits = 0 /\ misses = calls
    /\ \A t \in Threads : pc[t] \in {"idle", "search", "done"}

\* A fresh wrapper has counted nothing.
LEMMA InitDisabled == Init => Disabled
BY DEF Init, Disabled

\* Every step keeps a disabled cache out of the way.
LEMMA NextDisabled == TypeInv /\ Disabled /\ [SharedNext]_vars => Disabled'
<1> SUFFICES ASSUME TypeInv, Disabled, [SharedNext]_vars, config.capacity = 0, config' = config
             PROVE  /\ hits' = 0 /\ misses' = calls'
                    /\ \A t \in Threads : pc'[t] \in {"idle", "search", "done"}
  BY ConfigFixed DEF Disabled
<1>1. /\ hits = 0 /\ misses = calls
      /\ \A t \in Threads : pc[t] \in {"idle", "search", "done"}
      /\ pc \in [Threads -> {"idle", "lookup", "probe", "search", "account",
                             "relock", "store", "tally", "done"}]
  BY DEF Disabled, TypeInv, TypeOK
<1>2. ASSUME NEW t \in Threads, NEW k \in Keys, Call(t, k)
      PROVE  /\ hits' = 0 /\ misses' = calls'
             /\ \A u \in Threads : pc'[u] \in {"idle", "search", "done"}
  BY <1>1, <1>2 DEF Call, Goto
<1>3. ASSUME NEW t \in Threads, Search(t) \/ Return(t)
      PROVE  /\ hits' = 0 /\ misses' = calls'
             /\ \A u \in Threads : pc'[u] \in {"idle", "search", "done"}
  BY <1>1, <1>3 DEF Search, SearchOk, SearchErr, Return, Goto, counters
<1>4. ASSUME NEW t \in Threads, Lock(t) \/ ProbeHit(t) \/ ProbeMiss(t) \/ Account(t) \/ Store(t) \/ Tally(t)
      PROVE  FALSE
  BY <1>1, <1>4 DEF Lock, LockForLookup, LockForStore, ProbeHit, ProbeMiss, Account, Store, Tally
<1>5. ASSUME Mutating \/ Tick \/ UnseenMutation \/ UNCHANGED vars
      PROVE  /\ hits' = 0 /\ misses' = calls'
             /\ \A u \in Threads : pc'[u] \in {"idle", "search", "done"}
  BY <1>1, <1>5 DEF Mutating, InsertOrDelete, insert_batch, clear_cache,
     UnseenMutation, Tick, counters, locals, vars
<1> QED BY <1>2, <1>3, <1>4, <1>5 DEF SharedNext, Next, Searching, Local

\* The searches that left Pending without being counted.
Uncounted == calls - hits - misses - At(Pending)

\* Whether the step under way is a wrapped search that fails.
Failing == \E t \in Threads : Fails(t)

\* The step of one thread is such a failure exactly if it goes from the
\* wrapped search to the end.
LEMMA FailsWhen ==
  ASSUME TypeInv, config.capacity > 0, NEW t \in Threads, NEW x, Goto(t, x)
  PROVE  Failing <=> pc[t] = "search" /\ x = "done"
<1>1. /\ \A u \in Threads : u # t => pc'[u] = pc[u]
      /\ pc'[t] = x
  BY DEF Goto, TypeInv, TypeOK
<1>2. \A u \in Threads : u # t => ~ Fails(u)
  BY <1>1 DEF Fails
<1> QED BY <1>1, <1>2 DEF Failing, Fails

\* Only such a failure goes uncounted.
LEMMA OnlyFailuresUncounted ==
  ASSUME TypeInv, [SharedNext]_vars, config.capacity > 0
  PROVE  Uncounted' = IF Failing THEN Uncounted + 1 ELSE Uncounted
<1> DEFINE w == At(Pending)
<1>1. w \in Nat /\ hits \in Nat /\ misses \in Nat /\ calls \in Nat
  BY AtIsNat DEF TypeInv, TypeOK
<1>2. Uncounted = calls - hits - misses - w /\ Uncounted' = calls' - hits' - misses' - w'
  BY DEF Uncounted
<1>3. ASSUME pc' = pc, calls' = calls, hits' = hits, misses' = misses
      PROVE  Uncounted' = IF Failing THEN Uncounted + 1 ELSE Uncounted
  <2>1. w' = w
    BY <1>3 DEF At
  <2>2. ~ Failing
    BY <1>3 DEF Failing, Fails
  <2> QED BY <1>2, <1>3, <2>1, <2>2
<1> HIDE DEF w
<1>4. ASSUME NEW t \in Threads, NEW k \in Keys, Call(t, k)
      PROVE  Uncounted' = IF Failing THEN Uncounted + 1 ELSE Uncounted
  <2>1. /\ Goto(t, "lookup") /\ pc[t] = "idle" /\ calls' = calls + 1
        /\ hits' = hits /\ misses' = misses
    BY <1>4 DEF Call, TypeInv, TypeOK
  <2>2. w' = w + 1
    BY <2>1, AtMoves DEF Pending, w
  <2>3. ~ Failing
    BY <2>1, FailsWhen
  <2> QED BY <1>1, <1>2, <2>1, <2>2, <2>3
<1>5. ASSUME NEW t \in Threads, ProbeHit(t)
      PROVE  Uncounted' = IF Failing THEN Uncounted + 1 ELSE Uncounted
  <2>1. /\ Goto(t, "done") /\ pc[t] = "probe" /\ hits' = hits + 1
        /\ calls' = calls /\ misses' = misses
    BY <1>5 DEF ProbeHit
  <2>2. w' = w - 1
    BY <2>1, AtMoves DEF Pending, w
  <2>3. ~ Failing
    BY <2>1, FailsWhen
  <2> QED BY <1>1, <1>2, <2>1, <2>2, <2>3
<1>6. ASSUME NEW t \in Threads, Account(t)
      PROVE  Uncounted' = IF Failing THEN Uncounted + 1 ELSE Uncounted
  <2>1. /\ Goto(t, "relock") /\ pc[t] = "account" /\ misses' = misses + 1
        /\ calls' = calls /\ hits' = hits
    BY <1>6 DEF Account
  <2>2. w' = w - 1
    BY <2>1, AtMoves DEF Pending, w
  <2>3. ~ Failing
    BY <2>1, FailsWhen
  <2> QED BY <1>1, <1>2, <2>1, <2>2, <2>3
<1>7. ASSUME NEW t \in Threads, SearchErr(t)
      PROVE  Uncounted' = IF Failing THEN Uncounted + 1 ELSE Uncounted
  <2>1. /\ Goto(t, "done") /\ pc[t] = "search"
        /\ calls' = calls /\ hits' = hits /\ misses' = misses
    BY <1>7 DEF SearchErr, counters
  <2>2. w' = w - 1
    BY <2>1, AtMoves DEF Pending, w
  <2>3. Failing
    BY <2>1, FailsWhen
  <2> QED BY <1>1, <1>2, <2>1, <2>2, <2>3
<1>8. ASSUME NEW t \in Threads,
             \/ LockForLookup(t) \/ ProbeMiss(t) \/ SearchOk(t)
             \/ LockForStore(t) \/ Store(t) \/ Tally(t) \/ Return(t)
      PROVE  Uncounted' = IF Failing THEN Uncounted + 1 ELSE Uncounted
  <2>1. calls' = calls /\ hits' = hits /\ misses' = misses
    BY <1>8 DEF LockForLookup, ProbeMiss, SearchOk, LockForStore, Store, Tally, Return, counters
  <2>2. PICK x : /\ Goto(t, x) /\ (pc[t] \in Pending <=> x \in Pending)
                 /\ ~ (pc[t] = "search" /\ x = "done")
    BY <1>8 DEF LockForLookup, ProbeMiss, SearchOk, LockForStore, Store, Tally, Return, Pending,
       TypeInv, TypeOK
  <2>3. w' = w
    BY <2>2, AtMoves DEF w
  <2>4. ~ Failing
    BY <2>2, FailsWhen
  <2> QED BY <1>2, <2>1, <2>3, <2>4
<1>9. CASE Mutating \/ Tick \/ UnseenMutation \/ UNCHANGED vars
  BY <1>3, <1>9 DEF Mutating, InsertOrDelete, insert_batch, clear_cache,
     UnseenMutation, Tick, counters, locals, vars
<1> QED BY <1>4, <1>5, <1>6, <1>7, <1>8, <1>9 DEF SharedNext, Next, Searching, Lock, Local, Search

-----------------------------------------------------------------------------
\* What becomes of a lookup.

\* The history counts exactly the uncounted.
AccountInv ==
  /\ TypeInv /\ Disabled /\ failed \in Nat
  /\ config.capacity > 0 => failed = Uncounted

\* A fresh wrapper has none.
LEMMA InitAccount == AInit => AccountInv
<1> SUFFICES ASSUME AInit PROVE AccountInv
  OBVIOUS
<1>1. TypeInv /\ Disabled /\ failed = 0 /\ calls = 0 /\ hits = 0 /\ misses = 0
  BY InitTypeInv, InitDisabled DEF AInit, Init
<1>2. {t \in Threads : pc[t] \in Pending} = {}
  BY DEF AInit, Init, Pending
<1>3. At(Pending) = 0
  BY <1>2, FS_EmptySet DEF At
<1> QED BY <1>1, <1>3 DEF AccountInv, Uncounted

\* Every step counts a failure if it is one.
LEMMA NextAccount == AccountInv /\ [ANext]_avars => AccountInv'
<1> SUFFICES ASSUME AccountInv, [ANext]_avars PROVE AccountInv'
  OBVIOUS
<1>1. [SharedNext]_vars /\ TypeInv /\ Disabled
  BY Unshared DEF ANext, avars, AccountInv
<1>2. TypeInv' /\ Disabled' /\ config' = config
  BY <1>1, NextTypeInv, NextDisabled, ConfigFixed
<1>3. CASE ANext
  <2>1. failed' = IF Failing THEN failed + 1 ELSE failed
    BY <1>3 DEF ANext, Failing
  <2> QED BY <1>1, <1>2, <2>1, OnlyFailuresUncounted DEF AccountInv
<1>4. CASE UNCHANGED avars
  BY <1>4 DEF AccountInv, avars, accounts, vars, counters, locals, Uncounted, At, TypeInv,
     TypeOK, AnswerFollowsPc, Disabled
<1> QED BY <1>3, <1>4

\* In every behaviour each search begun is a hit, a miss, an error or not yet
\* decided, and only one of them (src/cached.rs:362-383).
THEOREM EverySearchAccounted == ASpec => []AccountedOnce
<1>1. AccountInv => AccountedOnce
  <2> SUFFICES ASSUME AccountInv, config.capacity # 0
               PROVE  hits + misses + failed + At(Pending) = calls
    BY DEF AccountInv, Disabled, AccountedOnce, Pending
  <2>1. /\ config.capacity \in Nat /\ At(Pending) \in Nat
        /\ hits \in Nat /\ misses \in Nat /\ calls \in Nat /\ failed \in Nat
    BY AtIsNat DEF AccountInv, TypeInv, TypeOK
  <2>2. failed = calls - hits - misses - At(Pending)
    BY <2>1 DEF AccountInv, Uncounted
  <2> QED BY <2>1, <2>2
<1> QED BY <1>1, InitAccount, NextAccount, PTL DEF ASpec

-----------------------------------------------------------------------------
\* What a reader of the counters can rely on.

\* The facts about the searching threads that the reader rests on.
BaseInv ==
  /\ SizeInv /\ EvictionLedger /\ Disabled
  /\ calls <= MaxCalls
  /\ config.capacity > 0 => 0 <= Uncounted

\* A fresh wrapper satisfies them.
LEMMA InitBase == Init => BaseInv
<1> SUFFICES ASSUME Init PROVE BaseInv
  OBVIOUS
<1>1. /\ SizeInv /\ Disabled /\ PolicyLen(cache) = 0 /\ MaxCalls \in Nat
      /\ calls = 0 /\ hits = 0 /\ misses = 0 /\ evictions = 0
  BY InitSizeInv, InitDisabled, IndexAssumption DEF Init
<1>2. {t \in Threads : pc[t] \in Pending} = {} /\ {t \in Threads : pc[t] \in Owing} = {}
  BY DEF Init, Pending, Owing
<1>3. At(Pending) = 0 /\ At(Owing) = 0
  BY <1>2, FS_EmptySet DEF At
<1> QED BY <1>1, <1>3 DEF BaseInv, Uncounted, EvictionLedger, Owing

\* Every step of theirs keeps them, and no counter goes back.
LEMMA NextBase ==
  ASSUME BaseInv, [SharedNext]_vars
  PROVE  /\ BaseInv' /\ config' = config
         /\ hits' \in Nat /\ misses' \in Nat /\ hits <= hits' /\ misses <= misses'
<1>1. TypeInv /\ TypeInv' /\ SizeInv' /\ EvictionLedger' /\ Disabled' /\ config' = config
  BY NextSizeInv, NextLedger, NextDisabled, ConfigFixed DEF BaseInv, SizeInv
<1>2. calls' <= MaxCalls
  <2>1. calls' = calls \/ (calls < MaxCalls /\ calls' = calls + 1)
    BY DEF SharedNext, Next, Searching, Mutating, Lock,
       Local, Search, Call, LockForLookup, ProbeHit, ProbeMiss, SearchOk, SearchErr, Account,
       LockForStore, Store, Tally, Return, InsertOrDelete, insert_batch, clear_cache,
       UnseenMutation, Tick, vars
  <2>2. calls \in Nat /\ calls <= MaxCalls /\ MaxCalls \in Nat
    BY <1>1, IndexAssumption DEF BaseInv, TypeInv, TypeOK
  <2> QED BY <2>1, <2>2
<1>3. /\ hits \in Nat /\ misses \in Nat /\ calls \in Nat /\ At(Pending) \in Nat
      /\ hits' \in Nat /\ misses' \in Nat
  BY <1>1, AtIsNat DEF TypeInv, TypeOK
<1>4. hits' \in {hits, hits + 1} /\ misses' \in {misses, misses + 1}
  BY DEF SharedNext, Next, Searching, Mutating, Lock,
     Local, Search, Call, LockForLookup, ProbeHit, ProbeMiss, SearchOk, SearchErr, Account,
     LockForStore, Store, Tally, Return, InsertOrDelete, insert_batch, clear_cache,
     UnseenMutation, Tick, vars, counters
<1>5. config.capacity > 0 => 0 <= Uncounted'
  <2>1. config.capacity > 0 => Uncounted' = Uncounted \/ Uncounted' = Uncounted + 1
    BY <1>1, OnlyFailuresUncounted
  <2>2. Uncounted \in Int
    BY <1>3 DEF Uncounted
  <2> QED BY <2>1, <2>2 DEF BaseInv
<1> QED BY <1>1, <1>2, <1>3, <1>4, <1>5 DEF BaseInv

\* The counters bound each other, what is held, and the searches made.
LEMMA CountersWithin ==
  ASSUME BaseInv
  PROVE  /\ hits \in Nat /\ misses \in Nat /\ evictions \in Nat /\ PolicyLen(cache) \in Nat
         /\ config.capacity \in Nat
         /\ PolicyLen(cache) <= config.capacity /\ PolicyLen(cache) <= misses
         /\ hits + misses <= U64Max
         /\ lookups(Counted) = hits + misses
<1>1. /\ TypeInv /\ hits \in Nat /\ misses \in Nat /\ evictions \in Nat /\ calls \in Nat
      /\ config.capacity \in Nat
      /\ At(Owing) \in Nat /\ At(Pending) \in Nat /\ PolicyLen(cache) \in Nat
  BY AtIsNat, SizeSteps DEF BaseInv, SizeInv, TypeInv, TypeOK
<1>2. PolicyLen(cache) <= config.capacity
  BY SoundWithinCapacity DEF BaseInv, SizeInv, TypeInv, TypeOK
<1>3. PolicyLen(cache) <= misses
  BY <1>1 DEF BaseInv, EvictionLedger, Owing
<1>4. hits + misses <= calls
  BY <1>1 DEF BaseInv, Disabled, Uncounted
<1>5. hits + misses <= U64Max
  BY <1>1, <1>4, CountersFit, WidthAssumption, IndexAssumption DEF BaseInv
<1>6. lookups(Counted) = hits + misses
  BY <1>1, <1>5, WidthAssumption DEF lookups, Counted, CacheStats
<1> QED BY <1>1, <1>2, <1>3, <1>5, <1>6

Reports == [hits: Nat, misses: Nat, evictions: Nat, len: Nat, capacity: Nat]

\* What the snapshot is worth at each point of the call: len is owed to the
\* misses counted by then, and the lookups counted at the call are covered by
\* what has been read and what is still to be read.
ReaderInv ==
  /\ snap \in Reports /\ floor \in Nat
  /\ rpc \in {"idle", "len", "hits", "misses", "evictions", "done"}
  /\ rpc \in {"hits", "misses"} =>
       snap.len <= config.capacity /\ snap.len <= misses
  /\ rpc \in {"evictions", "done"} =>
       snap.len <= config.capacity /\ snap.len <= snap.misses
  /\ rpc = "done" => snap.capacity = config.capacity
  /\ rpc \in {"len", "hits"} => floor <= hits + misses
  /\ rpc = "misses" => floor <= snap.hits + misses /\ snap.hits <= hits
  /\ rpc \in {"evictions", "done"} =>
       floor <= snap.hits + snap.misses /\ snap.hits <= hits /\ snap.misses <= misses

\* While the others run, the counters only grow.
LEMMA ReaderWaits ==
  ASSUME BaseInv, ReaderInv, [SharedNext]_vars, UNCHANGED rvars
  PROVE  ReaderInv'
<1>1. /\ rpc' = rpc /\ snap' = snap /\ floor' = floor
      /\ config' = config /\ hits <= hits' /\ misses <= misses'
      /\ hits' \in Nat /\ misses' \in Nat
  BY NextBase DEF rvars
<1>2. hits \in Nat /\ misses \in Nat /\ config.capacity \in Nat
  BY CountersWithin
<1>3. snap.hits \in Nat /\ snap.misses \in Nat /\ snap.len \in Nat /\ floor \in Nat
  BY DEF ReaderInv, Reports
<1>4. /\ rpc \in {"hits", "misses"} => snap.len <= config.capacity /\ snap.len <= misses'
      /\ rpc \in {"len", "hits"} => floor <= hits' + misses'
      /\ rpc = "misses" => floor <= snap.hits + misses' /\ snap.hits <= hits'
      /\ rpc \in {"evictions", "done"} => snap.hits <= hits' /\ snap.misses <= misses'
  <2>1. ASSUME rpc \in {"hits", "misses"}
        PROVE  snap.len <= config.capacity /\ snap.len <= misses'
    <3>1. snap.len <= config.capacity /\ snap.len <= misses
      BY <2>1 DEF ReaderInv
    <3> QED BY <1>1, <1>2, <1>3, <3>1
  <2>2. ASSUME rpc \in {"len", "hits"} PROVE floor <= hits' + misses'
    <3>1. floor <= hits + misses
      BY <2>2 DEF ReaderInv
    <3> DEFINE h == hits' m == misses'
    <3>2. hits <= h /\ misses <= m /\ h \in Nat /\ m \in Nat
      BY <1>1
    <3> HIDE DEF h, m
    <3>3. floor <= h + m
      BY <1>2, <1>3, <3>1, <3>2
    <3> QED BY <3>3 DEF h, m
  <2>3. ASSUME rpc = "misses" PROVE floor <= snap.hits + misses' /\ snap.hits <= hits'
    <3>1. floor <= snap.hits + misses /\ snap.hits <= hits
      BY <2>3 DEF ReaderInv
    <3> QED BY <1>1, <1>2, <1>3, <3>1
  <2>4. ASSUME rpc \in {"evictions", "done"}
        PROVE  snap.hits <= hits' /\ snap.misses <= misses'
    <3>1. snap.hits <= hits /\ snap.misses <= misses
      BY <2>4 DEF ReaderInv
    <3> QED BY <1>1, <1>2, <1>3, <3>1
  <2> QED BY <2>1, <2>2, <2>3, <2>4
<1> QED BY <1>1, <1>4 DEF ReaderInv

\* Its own steps read one number each.
LEMMA ReaderReads ==
  ASSUME BaseInv, ReaderInv, cache_stats
  PROVE  ReaderInv'
<1>1. /\ config' = config /\ hits' = hits /\ misses' = misses
      /\ evictions' = evictions /\ cache' = cache
  BY DEF cache_stats, vars, counters
<1>2. /\ hits \in Nat /\ misses \in Nat /\ evictions \in Nat /\ PolicyLen(cache) \in Nat
      /\ config.capacity \in Nat
      /\ PolicyLen(cache) <= config.capacity /\ PolicyLen(cache) <= misses
      /\ lookups(Counted) = hits + misses
  BY CountersWithin
<1>3. /\ snap.hits \in Nat /\ snap.misses \in Nat /\ snap.len \in Nat /\ floor \in Nat
      /\ snap \in Reports
  BY DEF ReaderInv, Reports
<1>4. ASSUME StatsCall PROVE ReaderInv'
  BY <1>1, <1>2, <1>3, <1>4 DEF StatsCall, ReaderInv
<1>5. ASSUME ReadLen PROVE ReaderInv'
  <2>1. /\ snap' \in Reports /\ snap'.len = PolicyLen(cache)
    BY <1>2, <1>3, <1>5 DEF ReadLen, Reports
  <2> QED BY <1>1, <1>2, <1>3, <1>5, <2>1 DEF ReadLen, ReaderInv
<1>6. ASSUME ReadHits PROVE ReaderInv'
  <2>1. /\ snap' \in Reports /\ snap'.hits = hits /\ snap'.len = snap.len
    BY <1>2, <1>3, <1>6 DEF ReadHits, Reports
  <2> QED BY <1>1, <1>2, <1>3, <1>6, <2>1 DEF ReadHits, ReaderInv
<1>7. ASSUME ReadMisses PROVE ReaderInv'
  <2>1. /\ snap' \in Reports /\ snap'.misses = misses /\ snap'.hits = snap.hits
        /\ snap'.len = snap.len
    BY <1>2, <1>3, <1>7 DEF ReadMisses, Reports
  <2> QED BY <1>1, <1>2, <1>3, <1>7, <2>1 DEF ReadMisses, ReaderInv
<1>8. ASSUME ReadEvictions PROVE ReaderInv'
  <2>1. /\ snap' \in Reports /\ snap'.capacity = config.capacity
        /\ snap'.misses = snap.misses /\ snap'.hits = snap.hits /\ snap'.len = snap.len
    BY <1>2, <1>3, <1>8 DEF ReadEvictions, Reports
  <2> QED BY <1>1, <1>2, <1>3, <1>8, <2>1 DEF ReadEvictions, ReaderInv
<1>9. ASSUME StatsReturn PROVE ReaderInv'
  <2>1. snap' \in Reports
    BY <1>9 DEF StatsReturn, Blank, CacheStats, Reports
  <2> QED BY <1>1, <1>9, <2>1 DEF StatsReturn, ReaderInv
<1> QED BY <1>4, <1>5, <1>6, <1>7, <1>8, <1>9 DEF cache_stats, Reading

\* The invariant of wrapper and reader together.
RInv == BaseInv /\ ReaderInv

\* It holds at the start.
LEMMA InitRInv == RInit => RInv
<1> SUFFICES ASSUME RInit PROVE RInv
  OBVIOUS
<1>1. BaseInv
  BY InitBase DEF RInit
<1>2. Blank \in Reports
  BY DEF Blank, CacheStats, Reports
<1> QED BY <1>1, <1>2 DEF RInit, RInv, ReaderInv

\* Every step of either keeps it.
LEMMA NextRInv == RInv /\ [RNext]_<<vars, rvars>> => RInv'
<1> SUFFICES ASSUME RInv, [RNext]_<<vars, rvars>> PROVE RInv'
  OBVIOUS
<1>1. BaseInv /\ ReaderInv
  BY DEF RInv
<1>2. [SharedNext]_vars
  BY DEF RNext, cache_stats, Others, SharedNext, Next, rvars
<1>3. BaseInv'
  BY <1>1, <1>2, NextBase
<1>4. CASE cache_stats
  BY <1>1, <1>3, <1>4, ReaderReads DEF RInv
<1>5. CASE Others \/ UNCHANGED <<vars, rvars>>
  <2>1. UNCHANGED rvars
    BY <1>5 DEF Others
  <2> QED BY <1>1, <1>2, <1>3, <2>1, ReaderWaits DEF RInv
<1> QED BY <1>4, <1>5 DEF RNext

\* In every behaviour the entries a report names fit its capacity and are owed
\* to the misses it counts, whatever ran between the loads: len is read before
\* misses (src/cached.rs:287-296).
THEOREM ReportOwed == RSpec => []StatsOwedToMisses
<1>1. RInv => StatsOwedToMisses
  BY DEF RInv, ReaderInv, StatsOwedToMisses
<1> QED BY <1>1, InitRInv, NextRInv, PTL DEF RSpec

\* In every behaviour the lookups a report counts are those of a moment of the
\* call, and its hit rate is at most 1 (src/stats.rs:55-84), as long as fewer
\* searches are made than a u64 counts.
THEOREM ReportCurrent == RSpec => []LookupsCurrent
<1>1. RInv => LookupsCurrent
  <2> SUFFICES ASSUME RInv, rpc = "done"
               PROVE  /\ lookups(snap) \in floor .. lookups(Counted)
                      /\ hit_rate(snap).num <= hit_rate(snap).den
    BY DEF LookupsCurrent
  <2>1. /\ snap.hits \in Nat /\ snap.misses \in Nat /\ floor \in Nat
        /\ floor <= snap.hits + snap.misses /\ snap.hits <= hits /\ snap.misses <= misses
    BY DEF RInv, ReaderInv, Reports
  <2>2. /\ hits \in Nat /\ misses \in Nat /\ U64Max \in Nat
        /\ hits + misses <= U64Max /\ lookups(Counted) = hits + misses
    BY CountersWithin, WidthAssumption DEF RInv
  <2>3. lookups(snap) = snap.hits + snap.misses
    BY <2>1, <2>2 DEF lookups
  <2>4. hit_rate(snap).num <= hit_rate(snap).den
    BY <2>1, <2>3 DEF hit_rate
  <2> QED BY <2>1, <2>2, <2>3, <2>4
<1> QED BY <1>1, InitRInv, NextRInv, PTL DEF RSpec

-----------------------------------------------------------------------------
\* How old an answer may be, when the index is changed behind the wrapper.

\* At time n, index version i and history r of retired versions: a was the
\* index's answer at time at.
SampledAt(a, at, i, r, n) ==
  /\ a.index <= i /\ at <= n
  /\ a.index < i => at <= r[a.index + 1]

\* And stamp s was taken at most MaxLag after a last was.
AgedAt(a, s, i, r, n) ==
  /\ a.index <= i /\ s <= n
  /\ a.index < i => s <= r[a.index + 1] + MaxLag

HistoryOK == retired \in Seq(Nat) /\ Len(retired) = index /\ readAt \in [Threads -> Nat]

\* A thread that has not stamped its answer got it at most MaxLag ago; a stamp
\* it took belongs to its answer.
ThreadAged(t) ==
  /\ pc[t] = "account" =>
       /\ now <= readAt[t] + MaxLag
       /\ \A a \in res[t] : SampledAt(a, readAt[t], index, retired, now)
  /\ pc[t] \in {"relock", "store"} =>
       /\ config.ttl # {} => stamp[t] # {}
       /\ \A a \in res[t], s \in stamp[t] : AgedAt(a, s, index, retired, now)

\* Where there is a TTL, an entry has a stamp, one that belongs to its answer.
EntryAged(e, i, r, n) ==
  /\ config.ttl # {} => e.val.stamp # {}
  /\ \A s \in e.val.stamp : AgedAt(e.val.hits, s, i, r, n)

EntriesAged == \A e \in Entries(cache) : EntryAged(e, index, retired, now)

AgeInv == TypeInv /\ HistoryOK /\ (\A t \in Threads : ThreadAged(t)) /\ EntriesAged

\* A fresh wrapper has no history.
LEMMA InitAge == SInit => AgeInv
<1> SUFFICES ASSUME SInit PROVE AgeInv
  OBVIOUS
<1>1. TypeInv
  BY InitTypeInv DEF SInit
<1>2. Entries(cache) = {}
  <2>1. config.policy \in EvictionPolicy /\ config.capacity \in Nat
    BY ConfiguredType DEF SInit
  <2> QED BY <2>1, PolicyNewSpec DEF SInit, Init
<1> QED BY <1>1, <1>2 DEF SInit, Init, AgeInv, HistoryOK, ThreadAged, EntriesAged

\* Index, history and clock from one state to the next.
Ages(i, r, n, j, q, m) ==
  /\ r \in Seq(Nat) /\ Len(r) = i /\ i \in Nat /\ n \in Nat /\ m \in Nat /\ n <= m
  /\ \/ i = j /\ r = q
     \/ j = i + 1 /\ q = Append(r, n)

\* What was true of an answer's age stays true as the index and the clock move.
LEMMA AgesKeep ==
  ASSUME NEW i, NEW r, NEW n, NEW j, NEW q, NEW m, Ages(i, r, n, j, q, m)
  PROVE  /\ q \in Seq(Nat) /\ Len(q) = j
         /\ \A a \in Answers, s \in Nat : SampledAt(a, s, i, r, n) => SampledAt(a, s, j, q, m)
         /\ \A a \in Answers, s \in Nat : AgedAt(a, s, i, r, n) => AgedAt(a, s, j, q, m)
<1>1. /\ r \in Seq(Nat) /\ Len(r) = i /\ i \in Nat /\ n \in Nat /\ m \in Nat /\ n <= m
      /\ MaxLag \in Nat
  BY LagAssumption DEF Ages
<1>2. CASE i = j /\ r = q
  BY <1>1, <1>2 DEF SampledAt, AgedAt, Answers
<1>3. CASE j = i + 1 /\ q = Append(r, n)
  <2>1. /\ q \in Seq(Nat) /\ Len(q) = j /\ q[i + 1] = n
        /\ \A l \in 1 .. i : q[l] = r[l]
    BY <1>1, <1>3, AppendProperties
  <2>2. ASSUME NEW a \in Answers, a.index <= i
        PROVE  /\ a.index <= j
               /\ a.index = i => q[a.index + 1] = n
               /\ a.index < i => q[a.index + 1] = r[a.index + 1]
    <3>1. a.index \in Nat
      BY DEF Answers
    <3>2. a.index < i => a.index + 1 \in 1 .. i
      BY <1>1, <3>1
    <3> QED BY <1>1, <1>3, <2>1, <2>2, <3>1, <3>2
  <2>3. ASSUME NEW a \in Answers, NEW s \in Nat, SampledAt(a, s, i, r, n)
        PROVE  SampledAt(a, s, j, q, m)
    <3>1. a.index \in Nat /\ a.index <= i /\ s <= n
      BY <2>3 DEF SampledAt, Answers
    <3>2. CASE a.index < i
      <4>1. s <= r[a.index + 1]
        BY <2>3, <3>2 DEF SampledAt
      <4> QED BY <1>1, <2>2, <3>1, <3>2, <4>1 DEF SampledAt
    <3>3. CASE a.index = i
      BY <1>1, <2>2, <3>1, <3>3 DEF SampledAt
    <3> QED BY <1>1, <3>1, <3>2, <3>3
  <2>4. ASSUME NEW a \in Answers, NEW s \in Nat, AgedAt(a, s, i, r, n)
        PROVE  AgedAt(a, s, j, q, m)
    <3>1. a.index \in Nat /\ a.index <= i /\ s <= n
      BY <2>4 DEF AgedAt, Answers
    <3>2. CASE a.index < i
      <4>1. s <= r[a.index + 1] + MaxLag
        BY <2>4, <3>2 DEF AgedAt
      <4> QED BY <1>1, <2>2, <3>1, <3>2, <4>1 DEF AgedAt
    <3>3. CASE a.index = i
      BY <1>1, <2>2, <3>1, <3>3 DEF AgedAt
    <3> QED BY <1>1, <3>1, <3>2, <3>3
  <2> QED BY <2>1, <2>3, <2>4
<1> QED BY <1>2, <1>3 DEF Ages

\* Every step is such a move.
LEMMA StepAges ==
  ASSUME AgeInv, [SNext]_svars
  PROVE  /\ [SharedNext]_vars
         /\ Ages(index, retired, now, index', retired', now')
<1>1. index \in Nat /\ now \in Nat /\ HistoryOK
  BY DEF AgeInv, TypeInv, TypeOK
<1>2. [SharedNext]_vars
  BY DEF SNext, svars
<1>3. index' = index \/ index' = index + 1
  BY <1>2 DEF SharedNext, Next, Searching, Mutating, Lock, Local, Search, Call, LockForLookup,
     ProbeHit, ProbeMiss, SearchOk, SearchErr, Account, LockForStore, Store, Tally, Return,
     InsertOrDelete, insert_batch, clear_cache, UnseenMutation, Tick, Changed, vars
<1>4. now' = now \/ now' = now + 1
  BY <1>2 DEF SharedNext, Next, Searching, Mutating, Lock, Local, Search, Call, LockForLookup,
     ProbeHit, ProbeMiss, SearchOk, SearchErr, Account, LockForStore, Store, Tally, Return,
     InsertOrDelete, insert_batch, clear_cache, UnseenMutation, Tick, vars
<1>5. retired' = IF index' # index THEN Append(retired, now) ELSE retired
  BY DEF SNext, svars, vars
<1>6. now' \in Nat /\ now <= now'
  BY <1>1, <1>4
<1>7. \/ index' = index /\ retired' = retired
      \/ index' = index + 1 /\ retired' = Append(retired, now)
  <2>1. CASE index' = index
    BY <1>5, <2>1
  <2>2. CASE index' = index + 1
    <3>1. index' # index
      BY <1>1, <2>2
    <3> QED BY <1>5, <2>2, <3>1
  <2> QED BY <1>3, <2>1, <2>2
<1> QED BY <1>1, <1>2, <1>6, <1>7 DEF Ages, HistoryOK

\* A thread stays as it is, goes where its answer is not kept, gets an answer,
\* stamps it, or takes the lock to store it.
LEMMA ThreadMoves ==
  ASSUME TypeInv, [SharedNext]_vars, NEW u \in Threads
  PROVE  \/ pc'[u] = pc[u] /\ res'[u] = res[u] /\ stamp'[u] = stamp[u]
         \/ pc'[u] \notin {"account", "relock", "store"}
         \/ /\ pc[u] = "search" /\ pc'[u] = "account" /\ res'[u] = {Answer(req[u], index)}
            /\ index' = index /\ now' = now
         \/ /\ pc[u] = "account" /\ pc'[u] = "relock" /\ res'[u] = res[u]
            /\ stamp'[u] = StampNow /\ index' = index /\ now' = now
         \/ /\ pc[u] = "relock" /\ pc'[u] = "store" /\ res'[u] = res[u] /\ stamp'[u] = stamp[u]
            /\ index' = index /\ now' = now
<1>1. /\ pc \in [Threads -> {"idle", "lookup", "probe", "search", "account",
                             "relock", "store", "tally", "done"}]
      /\ res \in [Threads -> SUBSET Answers] /\ stamp \in [Threads -> Stamps]
  BY DEF TypeInv, TypeOK
<1> DEFINE Same == pc'[u] = pc[u] /\ res'[u] = res[u] /\ stamp'[u] = stamp[u]
<1>2. ASSUME NEW t \in Threads, t # u,
             Lock(t) \/ Local(t) \/ Search(t) \/ \E k \in Keys : Call(t, k)
      PROVE  Same
  BY <1>1, <1>2 DEF Lock, Local, Search, Call, LockForLookup, ProbeHit, ProbeMiss, SearchOk,
     SearchErr, Account, LockForStore, Store, Tally, Return, Goto
<1>3. ASSUME (\E k \in Keys : Call(u, k)) \/ LockForLookup(u) \/ ProbeHit(u) \/ ProbeMiss(u)
             \/ SearchErr(u) \/ Store(u) \/ Tally(u) \/ Return(u)
      PROVE  pc'[u] \notin {"account", "relock", "store"}
  BY <1>1, <1>3 DEF Call, LockForLookup, ProbeHit, ProbeMiss, SearchErr, Store, Tally, Return, Goto
<1>4. ASSUME Mutating \/ Tick \/ UnseenMutation \/ UNCHANGED vars PROVE Same
  BY <1>4 DEF Mutating, InsertOrDelete, insert_batch, clear_cache, UnseenMutation, Tick,
     locals, vars
<1> HIDE DEF Same
<1>5. ASSUME SearchOk(u)
      PROVE  \/ pc'[u] \notin {"account", "relock", "store"}
             \/ /\ pc[u] = "search" /\ pc'[u] = "account" /\ res'[u] = {Answer(req[u], index)}
                /\ index' = index /\ now' = now
  BY <1>1, <1>5 DEF SearchOk, Goto, Some
<1>6. ASSUME Account(u)
      PROVE  /\ pc[u] = "account" /\ pc'[u] = "relock" /\ res'[u] = res[u]
             /\ stamp'[u] = StampNow /\ index' = index /\ now' = now
  BY <1>1, <1>6 DEF Account, Goto
<1>7. ASSUME LockForStore(u)
      PROVE  /\ pc[u] = "relock" /\ pc'[u] = "store" /\ res'[u] = res[u] /\ stamp'[u] = stamp[u]
             /\ index' = index /\ now' = now
  BY <1>1, <1>7 DEF LockForStore, Goto
<1> QED
  BY <1>2, <1>3, <1>4, <1>5, <1>6, <1>7
     DEF Same, SharedNext, Next, Searching, Lock, Local, Search

\* Every thread's answer keeps its age in bounds: the clock waits for the stamp.
LEMMA ThreadStaysAged ==
  ASSUME AgeInv, [SNext]_svars, NEW u \in Threads
  PROVE  ThreadAged(u)' /\ readAt'[u] \in Nat
<1> DEFINE j == index'
           q == retired'
           m == now'
<1>1. /\ TypeInv /\ HistoryOK /\ ThreadAged(u) /\ [SharedNext]_vars
      /\ Ages(index, retired, now, j, q, m) /\ config' = config
  BY StepAges, ConfigFixed DEF AgeInv
<1>2. /\ index \in Nat /\ now \in Nat /\ MaxLag \in Nat /\ req[u] \in Keys
      /\ res[u] \subseteq Answers /\ stamp[u] \subseteq Nat /\ readAt[u] \in Nat
  BY <1>1, LagAssumption DEF TypeInv, TypeOK, HistoryOK, Stamps
<1>3. /\ \A a \in Answers, s \in Nat : SampledAt(a, s, index, retired, now) => SampledAt(a, s, j, q, m)
      /\ \A a \in Answers, s \in Nat : AgedAt(a, s, index, retired, now) => AgedAt(a, s, j, q, m)
  BY <1>1, AgesKeep
<1>4. readAt'[u] = readAt[u] \/ readAt'[u] \in {0, now}
  BY <1>1 DEF SNext, svars
<1>5. readAt'[u] \in Nat
  BY <1>2, <1>4
<1>6. ThreadAged(u)'
      <=> /\ pc'[u] = "account" =>
               /\ m <= readAt'[u] + MaxLag
               /\ \A a \in res'[u] : SampledAt(a, readAt'[u], j, q, m)
          /\ pc'[u] \in {"relock", "store"} =>
               /\ config.ttl # {} => stamp'[u] # {}
               /\ \A a \in res'[u], s \in stamp'[u] : AgedAt(a, s, j, q, m)
  BY <1>1 DEF ThreadAged, SampledAt, AgedAt
<1>7. CASE pc'[u] = pc[u] /\ res'[u] = res[u] /\ stamp'[u] = stamp[u]
  <2>1. ASSUME pc[u] = "account"
        PROVE  /\ readAt'[u] = readAt[u] /\ m <= readAt[u] + MaxLag
               /\ \A a \in res[u] : SampledAt(a, readAt[u], j, q, m)
    <3>1. readAt'[u] = readAt[u]
      BY <1>7, <2>1 DEF SNext, svars, Answered, Returned
    <3>2. now <= readAt[u] + MaxLag /\ \A a \in res[u] : SampledAt(a, readAt[u], index, retired, now)
      BY <1>1, <2>1 DEF ThreadAged
    <3>3. m = now \/ (m = now + 1 /\ now - readAt[u] < MaxLag)
      <4>1. m = now \/ m = now + 1
        BY <1>1 DEF SharedNext, Next, Searching, Mutating, Lock, Local, Search, Call,
           LockForLookup, ProbeHit, ProbeMiss, SearchOk, SearchErr, Account, LockForStore, Store,
           Tally, Return, InsertOrDelete, insert_batch, clear_cache, UnseenMutation, Tick, vars
      <4>2. m # now => now - readAt[u] < MaxLag
        BY <2>1 DEF SNext, svars, vars, Timely
      <4> QED BY <4>1, <4>2
    <3>4. m <= readAt[u] + MaxLag
      BY <1>2, <3>2, <3>3
    <3> QED BY <1>2, <1>3, <3>1, <3>2, <3>4
  <2>2. ASSUME pc[u] \in {"relock", "store"}
        PROVE  /\ config.ttl # {} => stamp[u] # {}
               /\ \A a \in res[u], s \in stamp[u] : AgedAt(a, s, j, q, m)
    BY <1>1, <1>2, <1>3, <2>2 DEF ThreadAged
  <2> QED BY <1>5, <1>6, <1>7, <2>1, <2>2
<1>8. CASE pc'[u] \notin {"account", "relock", "store"}
  BY <1>5, <1>6, <1>8
<1>9. CASE /\ pc[u] = "search" /\ pc'[u] = "account" /\ res'[u] = {Answer(req[u], index)}
           /\ j = index /\ m = now
  <2>1. readAt'[u] = now
    <3>1. Answered(u)
      BY <1>9 DEF Answered
    <3>2. ~ UNCHANGED svars
      BY <1>9 DEF svars, vars, locals
    <3>3. ~ Returned(u)
      BY <1>9 DEF Returned
    <3>4. readAt' = [t \in Threads |-> CASE Answered(t) -> now
                                       [] Returned(t) -> 0
                                       [] OTHER       -> readAt[t]]
      BY <3>2 DEF SNext
    <3> HIDE DEF Answered, Returned
    <3>5. readAt'[u] = CASE Answered(u) -> now
                         [] Returned(u) -> 0
                         [] OTHER       -> readAt[u]
      BY <3>4
    <3> QED BY <3>1, <3>3, <3>5
  <2>2. Answer(req[u], index).index = index
    BY <1>2, AnswerType
  <2> QED BY <1>2, <1>5, <1>6, <1>9, <2>1, <2>2 DEF SampledAt
<1>10. CASE /\ pc[u] = "account" /\ pc'[u] = "relock" /\ res'[u] = res[u]
            /\ stamp'[u] = StampNow /\ j = index /\ m = now
  <2>1. q = retired
    BY <1>10 DEF SNext, svars
  <2>2. now <= readAt[u] + MaxLag /\ \A a \in res[u] : SampledAt(a, readAt[u], index, retired, now)
    BY <1>1, <1>10 DEF ThreadAged
  <2>3. (config.ttl # {} => stamp'[u] # {}) /\ \A s \in stamp'[u] : s = now
    BY <1>10 DEF StampNow, None, Some
  <2>4. ASSUME NEW a \in res[u] PROVE AgedAt(a, now, index, retired, now)
    <3>1. a.index \in Nat /\ a.index <= index /\ (a.index < index => readAt[u] <= retired[a.index + 1])
      BY <1>2, <2>2 DEF SampledAt, Answers
    <3>2. ASSUME a.index < index PROVE now <= retired[a.index + 1] + MaxLag
      <4>1. a.index + 1 \in 1 .. Len(retired)
        BY <1>1, <1>2, <3>1, <3>2 DEF HistoryOK
      <4>2. retired[a.index + 1] \in Nat
        BY <1>1, <4>1 DEF HistoryOK
      <4> QED BY <1>2, <2>2, <3>1, <3>2, <4>2
    <3> QED BY <1>2, <3>1, <3>2 DEF AgedAt
  <2> QED BY <1>5, <1>6, <1>10, <2>1, <2>3, <2>4
<1>11. CASE /\ pc[u] = "relock" /\ pc'[u] = "store" /\ res'[u] = res[u] /\ stamp'[u] = stamp[u]
            /\ j = index /\ m = now
  <2>1. /\ config.ttl # {} => stamp[u] # {}
        /\ \A a \in res[u], s \in stamp[u] : AgedAt(a, s, index, retired, now)
    BY <1>1, <1>11 DEF ThreadAged
  <2> QED BY <1>2, <1>3, <1>5, <1>6, <1>11, <2>1
<1> QED BY <1>1, <1>7, <1>8, <1>9, <1>10, <1>11, ThreadMoves

\* So does every entry: a put stores what a thread is about to.
LEMMA EntriesStayAged ==
  ASSUME AgeInv, [SNext]_svars
  PROVE  EntriesAged'
<1> DEFINE j == index'
           q == retired'
           m == now'
           nc == cache'
<1>1. /\ TypeInv /\ EntriesAged /\ [SharedNext]_vars
      /\ Ages(index, retired, now, j, q, m) /\ config' = config
  BY StepAges, ConfigFixed DEF AgeInv
<1>2. PolicyType(cache, Keys, CachedVals) /\ LocalsOK
  BY <1>1, TypeInvParts DEF CacheOK
<1>3. \A a \in Answers, s \in Nat : AgedAt(a, s, index, retired, now) => AgedAt(a, s, j, q, m)
  BY <1>1, AgesKeep
<1>4. ASSUME NEW e \in Entries(cache) PROVE EntryAged(e, j, q, m)
  <2>1. e \in [key: Keys, val: CachedVals]
    BY <1>2, EntriesTyped
  <2>2. e.val.hits \in Answers /\ e.val.stamp \subseteq Nat
    BY <2>1 DEF CachedVals, Stamps
  <2> QED BY <1>1, <1>3, <2>2 DEF EntriesAged, EntryAged
<1>5. SUFFICES \A e \in Entries(nc) : EntryAged(e, j, q, m)
  BY <1>1 DEF EntriesAged, EntryAged, AgedAt, Entries, RecencyEntries, LfuEntries, ArcEntries
<1> HIDE DEF j, q, m
<1>6. CASE Entries(nc) \subseteq Entries(cache)
  BY <1>4, <1>6
<1>7. ASSUME NEW t \in Threads, pc[t] = "store", nc = Stored(t).cache
      PROVE  \A e \in Entries(nc) : EntryAged(e, j, q, m)
  <2> DEFINE a == CHOOSE a \in res[t] : TRUE
             v == CacheEntry(a, stamp[t])
  <2>1. a \in res[t] /\ v \in CachedVals /\ req[t] \in Keys
    BY <1>1, <1>2, <1>7, StoredValue DEF LocalsOK
  <2>2. nc = PolicyPut(cache, req[t], v).cache
    BY <1>7 DEF Stored
  <2>3. v.hits = a /\ v.stamp = stamp[t]
    BY DEF CacheEntry
  <2> HIDE DEF a, v, nc
  <2>4. Entries(nc) \subseteq Entries(cache) \cup {Entry(req[t], v)}
    BY <1>2, <2>1, <2>2, PolicyPutSpec
  <2>5. EntryAged(Entry(req[t], v), j, q, m)
    <3>1. /\ config.ttl # {} => stamp[t] # {}
          /\ \A s \in stamp[t] : AgedAt(a, s, index, retired, now)
      BY <1>7, <2>1 DEF AgeInv, ThreadAged
    <3>2. a \in Answers /\ stamp[t] \subseteq Nat
      BY <1>2, <2>1 DEF LocalsOK, Stamps
    <3>3. Entry(req[t], v).val = v
      BY KeyOfEntry
    <3> QED BY <1>3, <2>3, <3>1, <3>2, <3>3 DEF EntryAged
  <2> QED BY <1>4, <2>4, <2>5
<1>8. \/ nc = cache
      \/ \E t \in Threads : nc = PolicyGet(cache, req[t]).cache
      \/ invalidate
      => Entries(nc) \subseteq Entries(cache)
  BY <1>2, PolicyGetSpec, PolicyClearSpec DEF invalidate
<1> QED BY <1>1, <1>6, <1>7, <1>8, CacheSteps

\* Every step keeps the ages in bounds.
LEMMA NextAge == AgeInv /\ [SNext]_svars => AgeInv'
<1> SUFFICES ASSUME AgeInv, [SNext]_svars PROVE AgeInv'
  OBVIOUS
<1>1. TypeInv'
  BY StepAges, NextTypeInv DEF AgeInv
<1>2. retired' \in Seq(Nat) /\ Len(retired') = index'
  BY StepAges, AgesKeep
<1>3. DOMAIN readAt' = Threads /\ readAt' = [t \in Threads |-> readAt'[t]]
  BY DEF SNext, svars, AgeInv, HistoryOK
<1>4. \A t \in Threads : ThreadAged(t)' /\ readAt'[t] \in Nat
  BY ThreadStaysAged
<1>5. EntriesAged'
  BY EntriesStayAged
<1> QED BY <1>1, <1>2, <1>3, <1>4, <1>5 DEF AgeInv, HistoryOK

\* Whatever another handle does to the index, an answer served from the cache
\* was the index's less than ttl plus MaxLag ago (src/config.rs:142-144,
\* src/cached.rs:364-396): for any threads, policies and capacities, whichever
\* of two answers is stored last.
THEOREM AnswersNotTooOld == SSpec => StalenessBounded
<1>1. ASSUME AgeInv, [SNext]_svars
      PROVE  [\A t \in Threads : ProbeHit(t) =>
                \A a \in res'[t], ttl \in config.ttl :
                  a.index < index => now < retired[a.index + 1] + ttl + MaxLag]_svars
  <2> SUFFICES ASSUME NEW t \in Threads, ProbeHit(t), NEW a \in res'[t], NEW ttl \in config.ttl,
                      a.index < index
               PROVE  now < retired[a.index + 1] + ttl + MaxLag
    OBVIOUS
  <2>1. /\ TypeInv /\ HistoryOK /\ EntriesAged /\ index \in Nat /\ now \in Nat /\ ttl \in Nat
        /\ MaxLag \in Nat /\ res \in [Threads -> SUBSET Answers]
    BY <1>1, LagAssumption DEF AgeInv, TypeInv, TypeOK, Stamps
  <2>2. PICK e \in LiveFound(req[t]) : a = e.hits
    BY <2>1 DEF ProbeHit
  <2>3. e \in CachedVals /\ Entry(req[t], e) \in Entries(cache) /\ Entry(req[t], e).val = e
    BY <2>1, <2>2, FoundEntries, KeyOfEntry
  <2>4. EntryAged(Entry(req[t], e), index, retired, now)
    BY <2>1, <2>3 DEF EntriesAged
  <2>5. PICK s \in e.stamp : AgedAt(a, s, index, retired, now)
    BY <2>2, <2>3, <2>4 DEF EntryAged
  <2>6. now - s < ttl
    BY <2>2, <2>5 DEF LiveFound, is_live
  <2>7. s \in Nat /\ a.index \in Nat
    BY <2>2, <2>3, <2>5 DEF CachedVals, Stamps, Answers
  <2>8. s <= retired[a.index + 1] + MaxLag
    BY <2>5 DEF AgedAt
  <2>9. retired[a.index + 1] \in Nat
    <3>1. a.index + 1 \in 1 .. Len(retired)
      BY <2>1, <2>7 DEF HistoryOK
    <3> QED BY <2>1, <3>1 DEF HistoryOK
  <2> QED BY <2>1, <2>6, <2>7, <2>8, <2>9
<1> QED BY <1>1, InitAge, NextAge, PTL DEF SSpec, StalenessBounded
==============================================================================
