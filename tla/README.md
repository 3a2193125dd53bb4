# iqdb-cache in TLA+

A verification development for `iqdb-cache`, the crate that wraps a search index
in a cache of search results. File names such as `src/policy.rs` are those of the
repository.

## 1. The system

A `CachedIndex<I>` owns a wrapped index `I`, one `Mutex` around a `PolicyCache`,
three atomic counters, a clock and a fixed configuration. Callers share it
between threads by `&self` to search; everything that changes the index takes
`&mut self`.

| Component | State | Operations | Called by |
|---|---|---|---|
| `OrderedMap` (`src/ordered.rs`) | hash index key→slot, slot arena, free list, links, `front`, `back` | `get`, `access`, `update_value`, `insert_front`, `move_to_front`, `remove`, `pop_back`, `clear`, `len` | the policies |
| `RecencyCache` (`src/policy.rs`) | one list, `capacity`, `touch_on_get` (LRU or FIFO) | `new`, `get`, `put`, `clear`, `len` | `PolicyCache` |
| `LfuCache` (`src/policy.rs`) | `values` with frequencies, `buckets` per frequency, `min_freq`, `capacity` | the same, and `bump` | `PolicyCache` |
| `ArcCache` (`src/policy.rs`) | live lists `t1`, `t2`, ghost lists `b1`, `b2`, target `p`, `capacity` | the same, and `replace` | `PolicyCache` |
| `PolicyCache` (`src/policy.rs`) | one of the three | dispatch | `CachedIndex`, under the lock |
| `CachedIndex` (`src/cached.rs`) | the mutex and the cache in it, `hits`, `misses`, `evictions`, `capacity`, `policy`, `ttl`, the clock, the index | `search`, `insert`, `insert_batch`, `delete`, `clear_cache`, `cache_stats`, and calls that only forward | users |
| `CacheStats` (`src/stats.rs`) | four numbers read by `cache_stats`, and the capacity | `lookups` (saturating), `hit_rate` | users |
| `CacheConfig`, `EvictionPolicy` (`src/config.rs`) | `capacity`, `ttl`, `policy` | `new` and four setters | users, `CachedIndex::with_config` |
| `ResultKey` (`src/key.rs`) | query bits and parameters | `new`, `eq`, `hash` | `CachedIndex`, `OrderedMap` |
| `sync` (`src/sync.rs`) | none | re-exports of `Mutex` and atomics | `CachedIndex` |
| wrapped `IndexCore`, `Clock` | external | `search`, mutations, `now` | `CachedIndex` |
| `FlatIndex` (`examples/support/flat_index.rs`) | `dim`, `rows` | `new`, `insert`, `delete`, `search`, `len` | the examples, through `CachedIndex` |
| `DocStub` (`src/lib.rs`) | a list of ids | `insert`, `delete`, `search`, `len` | the rustdoc examples, through `CachedIndex` |

How `search` goes: look the key up under the lock (`get` does the policy's
bookkeeping), return a live entry; otherwise release the lock, search the
wrapped index, count the miss, read the clock if there is a TTL, take the lock
again and `put`. Between the two critical sections anything may happen that does
not need `&mut self`.

What is hard here, and what makes each component correct:

* **`CachedIndex`**: searches interleave around two critical sections; two
  threads may miss on one key and both store; an entry may expire and be looked
  up, promoted and stored again; a wrapped search may fail or never return; a
  batch may be applied in part. Correct means: nothing stale is kept or served,
  no caller can tell the wrapper from the bare index, the capacity holds, the
  counters add up, no search waits for another's wrapped search, and with
  mutations the wrapper cannot see, answers are out of date by a bounded time.
* **policies**: one `put` on a full cache gives up exactly one entry, the one the
  policy documents, and `put` on a live key gives up none. LFU keeps two maps
  and a cached minimum in step; ARC keeps four lists and a target within bounds.
* **`OrderedMap`**: three views of the same entries (index, arena, links) change
  in several writes per operation; freed slots are handed out again, also when a
  key is not equal to itself and so can never be found or removed.
* **`CacheStats`**: `cache_stats` pieces its report together while searches go on;
  it must still be one that could be true, and current.
* **wrapped indexes**: the wrapper keeps its entries when a call returns `Err`, so
  an index that changes something and then fails would leave them stale; and what
  a failed call did or did not do, the caller knows from the reply alone.

## 2. Modules

```
 RecencyStorage ──runs on──> OrderedMap ──implements──> RecencyOrder ──uses──> RecencyList
                                                                                   │
                                       RecencyPolicy, LfuPolicy, ArcPolicy (operators on one list)
                                                                                   │
                                          CacheConfig ────────────────────> PolicyCache
                      ┌─────────────────────────┬──────────────────────────────────┤
 BoundedCache <──implements── PolicyMachine   WrappedExample                  CachedIndex ──implements──> BareIndex
                      │                       (over ExampleIndex)                  │
               PolicyHistory                    │         CachedStaleness, CachedAccounting, CachedStats
                                          ExampleCaller                       (CachedStats also uses CacheStats)
                                                │
                                         MCWrappedExample

 proofs:  RecencyListLemmas <- ArcLemmas <- PolicyCacheLemmas <- PolicyMachineProofs
                                                              <- CachedIndexProofs
                                                              <- WrappedExampleProofs
          OrderedMapProofs (OrderedMap, RecencyStorage)     ResultKeyProofs (ResultKey)

 PolicyMachineProofs is about PolicyMachine and PolicyHistory, CachedIndexProofs about CachedIndex and the
 three modules over it, WrappedExampleProofs about WrappedExample and ExampleCaller.
```

| Module | Models | Correspondence |
|---|---|---|
| `OrderedMap` | `src/ordered.rs`, storage and all | `map`, `slots`, `free`, `front`, `back` as in the struct; one action per method. Slots are numbered from 1 so that 0 is `NIL`; a slot is a set of at most one node. `Detach` and `AttachFront` make the code's writes in its order. `access` and `get` are `Access` with and without promotion. Keys in `Unsupported` are not equal to themselves: the index never finds them, and `stray` counts what it holds for them |
| `RecencyList` | `OrderedMap` as its callers see it | a sequence of entries, front first; one operator per method |
| `RecencyOrder` | abstract machine over `RecencyList` | what `OrderedMap` implements |
| `RecencyStorage` | `RecencyCache` of `src/policy.rs` on `OrderedMap` | `put` of a new key is two steps, `insert_front` and the `pop_back` it may call for |
| `RecencyPolicy`, `LfuPolicy`, `ArcPolicy` | the three structures of `src/policy.rs` | each structure is a record with the struct's fields; each method an operator that returns the new record and the method's result. A branch of `put` is an operator of its own |
| `CacheConfig` | `src/config.rs` | the record and one operator per setter; `Configured` is a chain of them, from which the wrapper's and the machine's initial states come |
| `ResultKey` | `src/key.rs` | a float is its bit pattern, the filter one optional literal with float equality; `KeyEq` and `HashInput` are `eq` and what `hash` feeds the hasher |
| `PolicyCache` | the enum and its dispatch | `CASE` on the record's `kind` |
| `PolicyMachine` | one `PolicyCache` driven by any calls | actions `Get`, `Put`, `Clear`; `out` is what the call returned. `Disciplined` is the set of kinds of cache whose caller never puts a live key |
| `BoundedCache` | abstract specification of an eviction policy | a map of at most `capacity` keys; the victim is left open |
| `PolicyHistory` | `PolicyMachine` plus history | orders of touch and insertion and use counts, which the victim rules are about |
| `BareIndex` | abstract specification of the wrapper | the wrapped index with no cache: a search takes effect at one moment between call and return |
| `CachedIndex` | `src/cached.rs` | see below |
| `CachedStaleness` | `CachedIndex` plus history | when each index version was retired, when each wrapped search ran |
| `CachedAccounting` | `CachedIndex` plus history | what really became of each lookup |
| `CacheStats` | `src/stats.rs` | the record; `lookups` saturates at `U64Max`; `hit_rate` is a fraction |
| `CachedStats` | `cache_stats` beside `CachedIndex` | the four reads are four actions |
| `ExampleIndex` | `examples/support/flat_index.rs`, `DocStub` of `src/lib.rs` | each index a record, each operation an operator that returns it and the `Result`; the trait's `insert_batch` inserts item by item |
| `WrappedExample` | `CachedIndex` around one of those, one caller | one action per call; here the index is its own code, not a version number |
| `ExampleCaller`, `MCWrappedExample` | `WrappedExample` plus history | what the caller may conclude from requests and replies: ids that must be in the index (`stored`) and ids that cannot be (`gone`). It changes nothing the code does; `MCWrappedExample` gives it vectors |

`search` in `CachedIndex`, by program counter (lines of `src/cached.rs`):

| `pc` before | Action | Lines |
|---|---|---|
| `idle` | `Call`: with capacity 0 count the miss and skip the lookup | 361–367 |
| `lookup` | `LockForLookup` | 368–369 |
| `probe` | `ProbeHit` or `ProbeMiss`: `get`, TTL check, counter, unlock | 370–378 |
| `search` | `SearchOk` or `SearchErr`: the wrapped search, outside the lock | 382 (364 with capacity 0) |
| `account` | `Account`: count the miss, read the clock | 383–384 |
| `relock` | `LockForStore` | 385–386 |
| `store` | `Store`: `put`, unlock | 387–394 |
| `tally` | `Tally`: count an eviction | 395–397 |
| `done` | `Return` | 398 |

Modelling decisions worth knowing:

* The wrapped index is a version number. Every search of one key on one version
  has one answer and answers of different versions differ, so "stale" can be seen.
* `insert`, `insert_batch`, `delete` and `clear_cache` take `&mut self`; the
  borrow checker guarantees that no search is under way. `Exclusive` says so, and
  each is one step. `insert` and `delete` that fail change nothing (the contract
  of `IndexCore`, taken as given); `insert_batch` may change the index and fail.
* `UnseenMutation` is a change through another handle (for instance interior
  mutability behind `get_ref`). `Spec` is the wrapper that alone can change the
  index; `SharedNext` adds such changes, and `CachedStaleness` and `CachedStats`
  are over it.
* The counters are relaxed atomics; each step touches one of them, with one
  `fetch_add` or one load, so they are plain variables changed atomically and
  `cache_stats` reads them in program order. `StatsOwedToMisses` does not depend
  on that order being more than the memory model gives: a miss is counted before
  the lock is taken to store its entry, and `cache_stats` takes the same lock
  before it loads `misses`.
* The mutex is the variable `holder`. Poisoning is not modelled: no step of this
  crate under the lock can panic in a reachable state (`ArenaCoherent`: each slot
  the arena dereferences is there). The clock is read under the lock too; one that
  panicked would do so after `get` is complete and before anything else is done.
* A failing call of `insert` or `delete` leaves the version number alone. That is
  a demand on the wrapped index; `WrappedExample` checks that the two indexes in
  this repository meet it, since each refuses before it writes.
* An `Option` is a set of at most one element; Rust's `usize` and `u64` are
  natural numbers, since no behaviour short of 2^64 steps reaches their limits.
* ARC's `put` of a live key takes the "total miss" branch, as the code does.

## 3. Runs

Each `.cfg` gives the constants of the module it names. Every passing run
explores its bounded instance completely.

| Run | Question and answer | Bounds |
|---|---|---|
| `ordered_map` | Is the slot arena the list it claims to be? `ArenaCoherent`, `GrowsOnlyWhenFull`, `ImplementsRecencyOrder` hold | 3 keys, all equal to themselves, 2 values |
| `unsupported_keys` | What does a key that is not equal to itself (a NaN in the filter) do to LRU and FIFO? The index and `len` grow, but `ArenaCoherent`, `StorageBounded` and `ServesLatest` hold | 2 supported keys and one other, 2 values, capacities 0 to 2, `MaxStray` 4 |
| `policies` | LRU, FIFO, LFU under any calls, rewriting live keys too, and ARC whose caller never puts a live key: `TypeOK`, `LfuConsistent`, `ArcPartition`, refinement of `BoundedCache`, `LruVictim`, `FifoVictim`, `LfuVictimRule`, `ArcScanResistant` hold | 4 keys, 2 values, capacities 0 to 3, frequencies to 3 |
| `arc_free` | ARC under any calls: `TypeOK`, `ArcBounded` hold | 4 keys, 1 value, capacities 1 to 3 |
| `transparent` | The wrapper with all policies: `TypeOK`, `NoStale`, `EvictionLedger`, `CapacityBound` and refinement of `BareIndex` hold | 2 threads, 3 keys, 4 searches, 1 mutation, capacities 0 to 2, TTL none or 1, clock to 1 |
| `accounting` | Is each search counted once, and does a recomputed result replace the expired one? `AccountedOnce`, `RefreshOverwrites` hold for LRU, LFU and FIFO | 2 threads, 2 keys, 4 searches, 1 mutation, capacities 0 to 2, TTL none, 0 or 1, clock to 2 |
| `hung_search` | Can one hung wrapped search stop the others, and can `cache_stats` return impossible or outdated numbers? `SearchReturns`, `StatsReturns`, `StatsOwedToMisses`, `LookupsCurrent` hold | 2 threads, one responsive, and a reader; 2 keys, 3 searches, capacities 0 and 1, the index changing unseen, no TTL, `U64Max` 3 |
| `staleness` | How old is an answer when the index changes unseen? `StalenessBounded`: less than TTL plus stamp lag | 2 threads, 1 key, 3 searches, 2 mutations, LRU and ARC, capacity 2, TTL 0 or 1, clock to 4, lag 1 |
| `examples` | Do the repository's own indexes keep their side of the bargain behind the wrapper? And can its caller believe the replies? `TypeOK`, `Fresh`, `NearestFirst`, `NeverMisled` hold | ids i1 to i3, vectors of one right and one wrong dimension, dimensions 0 and 1, `k` 2 or 4, LRU, capacities 0 and 2, 3 rows |
| `arc_refresh` | **violated**: `RefreshOverwrites` with ARC | 1 thread, 2 keys |
| `misses_doc` | **violated**: `MissesCountFallThrough` | 1 thread, 1 key |
| `lfu_hits_ttl` | **violated**: `VictimHasFewestHits` with a TTL | 1 thread, 3 keys |

### Why the bounds are enough for the cases that matter

* *Lists.* Detaching touches a slot and its two neighbours; three entries give
  the front, middle and back cases, two entries both ends at once, one entry the
  empty list. Releasing and taking again exercises the free list with up to
  three vacant slots. With unsupported keys the arena recycles slots of entries
  the index still names; four of them are twice the largest capacity, so every
  slot is recycled from and to such a key.
* *Policies.* A capacity of 3 with 4 keys has evictions with ties, LFU buckets
  that empty and reappear, and rewrites in every position. `MaxFreq` only keeps
  frequencies finite; three levels let `min_freq` move twice. ARC meets keys
  that are live, ghosts in both lists and new at once from capacity 2 on, and the
  theorems of section 4 cover every capacity.
* *Threads.* All interference goes through one cache and one lock. Two threads
  produce duplicate misses, a store between another's lookup and store, stores
  in the opposite order of searches, and a hang beside progress. Four searches
  allow a miss, its racing duplicate, and a later lookup by each.
* *Time.* A TTL of 0 and of 1 with a clock beyond it separates "fresh", "exactly
  at the boundary" (expired: the comparison is exclusive) and "past it".

* *Counters.* `U64Max` is 3 with 3 searches: the counters and their sum reach it.
  The saturating branch of `lookups` is not reached, here or in the proofs: it
  takes more than 2^64 lookups, which `CountersFit` excludes.
* *Examples.* Three rows and `k` of 2 let the truncation cut through rows of
  equal distance; `k` of 4 lists the whole index, which is how the caller can miss
  something. A batch of two can fail at its first or its second item, with a
  duplicate id or a wrong dimension. After a failed batch the caller is in doubt
  about its first item until a list, an insert or a delete tells.

No run uses symmetry. `MaxCalls`, `MaxVersion`, `MaxTime`, `MaxFreq`, `MaxStray`
and `MaxRows` are the only bounds, each one conjunct of a guard. `CachedStaleness` also assumes
`MaxLag`, the longest time from a wrapped search to its time stamp: the code does
not limit it, and the bound the run establishes is stated in terms of it.

### Fairness

Only `hung_search` assumes any. Each thread is scheduled (weak fairness of its
own steps). Taking the lock is weakly fair only: the standard mutex promises no
more, so a thread may lose the lock to others as long as they keep taking it. A
wrapped search returns only for threads in `Responsive`. The property holds
because the finite number of searches a run may begin leaves a waiting thread
alone with a free lock in the end; with unboundedly many lookups by others an
unfair mutex could starve it, which the code does not exclude either. The reader
in `cache_stats` is scheduled in the same way and waits for the same lock.

### What the violations show

* `arc_refresh`, a defect of the code. After expiry the lookup promotes the entry
  to `t2`; `put` then finds the key on no ghost list and inserts it into `t1` as
  well. The expired copy stays (against the comment at `src/cached.rs:375-376`),
  `len` counts the key twice, and an unrelated entry may be evicted for it.
  Nothing stale is served, since expiry is checked at each hit, and the lists
  stay within bounds (`ArcBounded` is proved for exactly these calls). Without a
  TTL it takes two searches that miss together and a third that hits between their
  stores: the hit moves the key to `t2`, and the second store adds it to `t1`.
  Without that hit the key is still in `t1` and the second store only replaces its
  value.
* `misses_doc`: a lookup whose wrapped search fails is not counted as a miss when
  the capacity is above 0, and is when it is 0.
* `lfu_hits_ttl`: lookups of expired entries and the puts that follow count as
  uses, so "fewest lifetime hits" does not describe the victim under a TTL.
  `LfuVictimRule` states, and `policies` checks, what LFU does: fewest uses as
  the structure counts them, then least recently used.

`cache_stats` is called a "point-in-time snapshot" in `src/stats.rs:3`. It reads
`len` under the lock and the counters after it, so under concurrency the numbers
need not belong to one moment: `evictions`, loaded last, may even exceed the
`misses` of the same report. What does hold is `StatsOwedToMisses` and
`LookupsCurrent`.

## 4. Proofs

`tlapm` proves these for all values of the constants, under the assumptions
TLC evaluates in the runs: `MachineAssumption` (`MaxFreq` at least 1, where a new
LFU entry starts), `IndexAssumption` (finitely many threads), `KeyAssumption`,
`CapacityAssumption`, `LagAssumption`, `ExampleAssumption`, `WidthAssumption` and
`CountersFit` (fewer searches than a `u64` counts). The bounds of section 3 are
constants too, so a theorem holds for each of their values: of behaviours of any
length, with frequencies of any height.

| Theorem | Statement | Argument |
|---|---|---|
| `ResultKeyProofs!EqIsEquivalence`, `EqualKeysHashAlike`, `EqualKeysSameSearch` | on keys without NaN in the filter `eq` is an equivalence; equal keys hash alike and ask the same search | queries compared position by position are the same sequence; the filter only adds the sign of a zero |
| `OrderedMapProofs!ArenaAlwaysCoherent`, `GrowsOnlyWhenFullAlways` | `Spec => []ArenaCoherent`, `Spec => GrowsOnlyWhenFull` | `StorageInv` is inductive |
| `OrderedMapProofs!RecencyStorageCoherent` | `CSpec => []ArenaCoherent` | each step of `RecencyStorage` is one of the map's |
| `OrderedMapProofs!FoundIsLatest`, `StorageAlwaysBounded` | `CSpec => []ServesLatest`, `CSpec => []StorageBounded` | `LatestInv`, `BoundInv`: the links form one list through all occupied slots |
| `OrderedMapProofs!StorageImplementsOrder` | `Spec => ImplementsRecencyOrder` if `Unsupported = {}` | `ListInv`; each method, write by write, does to the list what its operator does |
| `PolicyMachineProofs!TypeCorrect`, `ArcMemoryBounded`, `LfuStaysCoherent`, `WithinCapacity` | `Spec => []TypeOK`, `[]ArcBounded`, `[]LfuConsistent`, and no more live entries than `capacity` | `TypeOK /\ PolicySound(cache)` is inductive |
| `PolicyMachineProofs!DisciplinedArcPartition` | `Spec => []ArcPartition` if ARC's caller never puts a live key | `Apart` is inductive for such a caller |
| `PolicyMachineProofs!PoliciesImplementBoundedCache` | `Spec => ImplementsBoundedCache`, with ARC if its caller never puts a live key | exact laws of `get`, `put` and `clear` over the live entries |
| `PolicyMachineProofs!LruDiscardsUntouched`, `FifoDiscardsOldest`, `LfuDiscardsLeastUsed` | `HSpec => LruVictim`, `FifoVictim`, `LfuVictimRule` | `HInv`: the lists are in the history's order |
| `PolicyMachineProofs!ArcResistsScans` | `HSpec => ArcScanResistant` if ARC's caller never puts a live key | `HInv`: `t1` holds what was used once, `t2` the rest |
| `CachedIndexProofs!CachedTypeCorrect` | `Spec => []TypeOK` | `TypeOK /\ AnswerFollowsPc` is inductive |
| `CachedIndexProofs!NothingStale` | `Spec => []NoStale` | `NoStale` is inductive relative to the type invariant |
| `CachedIndexProofs!WrapperTransparent` | `Spec => Transparent` | each step of the wrapper is one of `BareIndex`, or none |
| `CachedIndexProofs!CapacityRespected`, `LedgerBalanced` | `Spec => []CapacityBound`, `Spec => []EvictionLedger` | `PolicySound` of the shared cache; the change of `len` in one `put` |
| `CachedIndexProofs!RecomputedReplaces` | `Spec => RefreshOverwrites` if ARC is not among the policies | the law of `put` of LRU, LFU and FIFO |
| `CachedIndexProofs!AnswersNotTooOld` | `SSpec => StalenessBounded` | `AgeInv`: every stamp is tied to the moment its answer was true |
| `CachedIndexProofs!EverySearchAccounted` | `ASpec => []AccountedOnce` | the threads under way make up the difference |
| `CachedIndexProofs!ReportOwed`, `ReportCurrent` | `RSpec => []StatsOwedToMisses`, `RSpec => []LookupsCurrent` | `ReaderInv`, one conjunct for each read already made |
| `WrappedExampleProofs!WrappedTypeCorrect`, `NeverOutdated` | `ExampleSpec => []TypeOK`, `[]Fresh` | `WInv`: sound index, typed cache, and nothing cached but the index's answers |
| `WrappedExampleProofs!NeverMisledByReplies` | `CallerSpec => NeverMisled` | `CInv`: `WInv`, and all that the caller knows is true |
| `WrappedExampleProofs!NearestAlwaysFirst` | `ExampleSpec => []NearestFirst` | a sorted permutation of the rows exists, and any such one has the property |

*The arena.* `ArenaCoherent` alone is not inductive: it lets a slot hold a key
that a write through a bad link would disturb. `StorageInv` says it slot by slot:
one key at most in each, the key of an indexed slot leads back to it, any other
key is an unsupported one, vacant slots are those of the free list, each once;
and links and ends stay inside the arena. It does not need to know that the links
form a list, and unsupported keys are covered.

*The list in the arena.* The other three theorems about `OrderedMap` need the
list. `Thread(n, l, p)` says that the links `l` run through the slots `p`, front to
back, each occupied, none twice and none left out; some `p` like that exists in
every reachable state. `Detach` and `AttachFront` are followed one write at a time,
since between the writes the links are no list, and take `p` to `p` without one
place and to `p` with one slot more in front. What every operation does to the
entries in the order of `p` is then known, for unsupported keys too:

* each entry under a supported key has the value put last (`LatestInv`): a recycled
  slot is rewritten whole, and no write goes by a link to a slot of another key;
* the list is never longer than `capacity`, one more inside a `put` (`BoundInv`).
  What pays for the garbage in the index is that `len` is at least the length of
  the list, so a `put` of a new key never fails to pop when the list is full; the
  arena then grows at most to `capacity + 1`, as it grows only when it is full;
* the entries in the order of `p` are the refinement mapping `AsList`, and each
  operation changes them as `RecencyList` says (`ListInv`). This needs
  `Unsupported = {}`: an unsupported key may be inserted twice, which the abstract
  list, an ordered map, does not know. `AsList` follows `next` from `front` with a
  recursive function; that it reads off `p` is shown from the first place at which
  it would not.

*ARC's bounds.* `ArcBounds` is three inequalities and is inductive without any
statement that the lists are disjoint: so it covers callers that put live keys.
Each step that adds an entry first makes room for it. The delicate case is the
total miss with `t1` and `b1` together below `c`: if `replace` finds `t1` within
its target and `t2` empty it frees nothing, and the bounds survive because then
`t1` alone is live and below `c`, and `b2` has been trimmed if the total was `2c`. `ReplaceMakesRoom` and
`ArcMakeRoomSpec` in `ArcLemmas` carry this argument.

*ARC's partition.* Disjoint lists are not inductive by themselves. A total miss
at a full recency side drops the least recent entry of `t1`, or the oldest ghost
of `b1`, and the two cases fit together only because ghosts exist beside a full
cache alone, which `ArcPartition` therefore says too. The step to be shown is
that making room leaves a full cache with one entry less before the new key goes
in, or a cache without ghosts.

*The bounded cache.* The refinement mapping takes a structure to the map of its
live entries. It needs of each `put` not only which entries there may be after it
(`PolicyPutSpec`) but which there are: the pair put is, every other pair but the
victims is, and the victims are one if the cache was full and the key new, and
none otherwise. `IInv` is enough for LRU, LFU and FIFO. For ARC it takes `Apart`:
with a live key in the arguments of `put` the law is false, since ARC then holds
the key twice (run `arc_refresh` shows where that leads). `ArcIsSpared` is exactly
that hypothesis: no ARC among the policies, or an ARC whose caller is disciplined,
as run `policies` has it.

*Who is given up.* `HInv` adds to these invariants what the history has to do with
the structure (`Recorded`): the list of LRU is in the order of the last touches,
that of FIFO in the order of insertions, each bucket of LFU in the order of touches
and its frequency the number of uses, ARC's `t1` the live keys used once and `t2`
those used more often. Then the last entry of the list, of the bucket at `min_freq`
or of `t1` is the victim the rule names. That it is the lowest bucket is
`LfuSound`, that ARC gives up an entry of `t2` only when `t1` is empty, as long as
its target is and stays 0, is read off `replace` and the total miss. `Recorded` is
claimed of an ARC only where it is spared; the LRU, FIFO and LFU theorems hold
beside an ARC of any caller.

*LFU.* `LfuConsistent` needs that frequencies start at 1, that the buckets group
exactly the live keys and that a bucket at `min_freq` is there as long as any key
is (`LfuSound`); with them a bucket that empties at `min_freq` was the lowest, and
the successor frequency has a bucket because the key just moved there.
`PolicySound` is this, ARC's bounds, or the length of the one list, by kind;
`SoundWithinCapacity` draws the capacity from it.

*Types.* Needed: `AnswerFollowsPc`, a thread past its wrapped search and before
its return has an answer (`Store` takes it with `CHOOSE`). The policies enter
through four lemmas (`PolicyNewSpec`, `PolicyGetSpec`, `PolicyPutSpec`,
`PolicyClearSpec`): the result is typed, what `get` finds was an entry, and the
entries after `put` were there before or are the one put.

*Nothing stale.* Searches do not change the index and add to the cache only the
answer a thread holds; a thread's answer is computed from the current index; each
mutation clears the cache and finds no thread with an answer, because idle
threads hold none (part of the invariant) and `&mut self` makes all idle.

*Transparency.* The mapping keeps the index and the request and reads a
thread's abstract phase off its `pc`. A hit takes effect in `ProbeHit`, where
`NoStale` makes the cached answer the index's own, a miss in `SearchOk`, an error
in `SearchErr`; all that follows is a stutter. With `UnseenMutation` the step
`ProbeHit` may answer from an older version, and the refinement fails.

*Counters.* A `put` adds at most one entry, and if it evicts it adds none. With
the thread between its miss and its put standing for the entry to come, and the
one at `tally` for the eviction to come, each step keeps the ledger. The reader's
invariant `ReaderInv` says of each number it has loaded how it relates to the
counter as it is now; the counters only grow.

*Age.* With `UnseenMutation` the cache may hold outdated answers. `AgeInv` says of
every answer that has a stamp, in a thread's hands or in the cache, that the index
version it belongs to was retired no earlier than the stamp less `MaxLag`; of one
that has not, that the wrapped search was at most `MaxLag` ago. It must also say
that under a TTL every entry has a stamp, or an entry could live for ever. The hit
test `now - stamp < ttl` then gives the bound. Nothing is needed of the policy but
that its entries after an operation were there before or were put.

*The repository's own indexes.* `Fresh` is inductive only together with
`IndexSound`, for a call that fails must leave the index as it was; and a batch is a
fold over its items (two of them in `Next`), which is typed and sound whichever item
it stops at. The order of the hits depends on there being a sorted permutation of
the rows at all, since `Ranked` is a `CHOOSE`: it is built from the greatest element
outwards.

*The caller.* `NeverMisled` speaks of requests and replies only. An id that an `Ok`
put there is listed until an `Ok` takes it away; a `NotFound` or a `Duplicate` never
contradicts an earlier reply; a failed batch leaves its items before the last in
doubt, and the next list, which the cache must not have from before, settles it. It
fails if `insert_batch` loses the error, if it keeps the cache after one, and if an
index changes something and then returns `Err`. The proof has one fact per trait
method (`IndexInserted`, `BatchInserted`, `IndexRemoved`, `IndexListed`) about the
set of ids held, from which `CInv` follows call by call; a list counts the whole
index if it is shorter than `k`, because the ranking is a permutation. The theorems
over `ExampleSpec` hold with a caller too, as the history adds no step
(`CallerIsExample`).

*Recursive definitions.* Folds, `SelectInSeq` and `AsList` recurse over their data,
and the library's induction theorems cannot be instantiated here. What is proved
about them (the sum in a distance is an integer, a batch keeps its index sound, a
finite set has an order's greatest element) argues from a smallest counterexample:
the strict-subset order on finite sets, and the natural numbers, are well founded,
and the library states that without an operator parameter.

Only model-checked are the liveness properties `SearchReturns` and `StatsReturns`,
which are out of the prover's reach, as fairness and `ENABLED` are. The three
violations of section 3 are TLC's. Every other property of a passing run is a
theorem above. With ARC the hypotheses stand where the code needs them: `accounting`
runs without ARC because `arc_refresh` refutes the property with it.

## 5. Not modelled

* Keys are model values everywhere but in `ResultKey`, whose theorems justify
  it, for filters without NaN as the source demands (`src/key.rs:64-68`). The
  filter type is external; its structure beyond one literal is left out. What a
  NaN does to LRU and FIFO is run `unsupported_keys`; to LFU and ARC, whose maps
  are of several kinds, it is not modelled.
* Memory: what `with_capacity` reserves up front (`src/ordered.rs:52`), and
  allocation failure.
* A poisoned lock and its recovery (`src/cached.rs:303`), for the reason given in
  section 2; `u64` overflow of a counter or of an LFU frequency, which takes 2^64
  steps.
* Distances are compared squared and vectors are integers: rounding, and `NaN`
  distances in the sort of `FlatIndex`, are left out.
* Accessors and calls that only forward (`flush` leaves the cache alone because
  it does not change the searchable set); `src/sync.rs`, which re-exports types;
  the rest of `src/lib.rs`; the example programs and the benches, which use the
  crate and add nothing to it.

## 6. What is left

1. ARC whose caller puts live keys, which is what `CachedIndex` is after an expiry
   or when two searches that missed together both store: `ArcBounds` and the
   capacity are proved of it; what a `put` then does to the entries (a copy in `t2`
   stays, another may be evicted) has no exact law yet, only the inclusion
   `PolicyPutSpec`.
2. LFU and ARC on keys that are not equal to themselves; their maps are of several
   kinds and are modelled on supported keys alone.
3. Liveness stays with TLC. A theorem would need, besides a prover for it, the
   bound on the searches begun that makes the weakly fair lock enough.
