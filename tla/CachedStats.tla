----------------------------- MODULE CachedStats -----------------------------
(***************************************************************************)
(* A thread that calls cache_stats(&self) of src/cached.rs while others    *)
(* search and the index changes, behind the wrapper's back too.  The call  *)
(* takes the lock for len and then loads the counters one after the other  *)
(* without it.                                                             *)
(***************************************************************************)
EXTENDS CachedIndex, CacheStats

\* No counter of searches wraps: a u64 counts more of them than are made.
ASSUME CountersFit == MaxCalls <= U64Max

VARIABLES
  rpc,   \* where the reader is
  snap,  \* the CacheStats it has filled in so far
  floor  \* history: the lookups counted when it was called

rvars == <<rpc, snap, floor>>

Blank == CacheStats(0, 0, 0, 0, 0)

\* The snapshot a reader that runs alone would take.
Counted == CacheStats(hits, misses, evictions, PolicyLen(cache), config.capacity)

RInit == Init /\ rpc = "idle" /\ snap = Blank /\ floor = 0

StatsCall ==
  /\ rpc = "idle" /\ rpc' = "len"
  /\ floor' = lookups(Counted)
  /\ UNCHANGED snap

\* lock_cache().len(): the guard is dropped at the end of the statement.
ReadLen ==
  /\ rpc = "len" /\ holder = Nobody
  /\ rpc' = "hits" /\ snap' = [snap EXCEPT !.len = PolicyLen(cache)]
  /\ UNCHANGED floor

ReadHits ==
  /\ rpc = "hits" /\ rpc' = "misses"
  /\ snap' = [snap EXCEPT !.hits = hits]
  /\ UNCHANGED floor

\* Mutant of ReadMisses: the wrong counter is loaded.
ReadMissesFromHits ==
  /\ rpc = "misses" /\ rpc' = "evictions"
  /\ snap' = [snap EXCEPT !.misses = hits]
  /\ UNCHANGED floor

ReadMisses ==
  /\ rpc = "misses" /\ rpc' = "evictions"
  /\ snap' = [snap EXCEPT !.misses = misses]
  /\ UNCHANGED floor

\* Mutant of ReadEvictions: len is read last.
ReadEvictionsThenLen ==
  /\ rpc = "evictions" /\ rpc' = "done"
  /\ snap' = [snap EXCEPT !.evictions = evictions, !.capacity = config.capacity,
                          !.len = PolicyLen(cache)]
  /\ UNCHANGED floor

\* The last load, and the capacity, which never changes.
ReadEvictions ==
  /\ rpc = "evictions" /\ rpc' = "done"
  /\ snap' = [snap EXCEPT !.evictions = evictions, !.capacity = config.capacity]
  /\ UNCHANGED floor

StatsReturn ==
  /\ rpc = "done" /\ rpc' = "idle"
  /\ snap' = Blank /\ floor' = 0

Reading == ReadLen \/ ReadHits \/ ReadMisses \/ ReadEvictions \/ StatsReturn

cache_stats == (StatsCall \/ Reading) /\ UNCHANGED vars

\* The others go on; a mutator waits for the reader's borrow to end.
Others ==
  /\ Searching \/ Tick \/ UnseenMutation \/ (rpc = "idle" /\ Mutating)
  /\ UNCHANGED rvars

RNext == cache_stats \/ Others

RSpec == RInit /\ [][RNext]_<<vars, rvars>>

\* A reader under way goes on, as the searching threads do.
FairRSpec == RSpec /\ Fairness /\ WF_rvars(Reading)

-----------------------------------------------------------------------------
\* What cache_stats returns is sound though it is pieced together: the entries
\* reported fit the capacity, and each is owed to a miss the same report
\* counts, because len is read before misses.
StatsOwedToMisses ==
  rpc = "done" => snap.len <= snap.capacity /\ snap.len <= snap.misses

\* The lookups reported (src/stats.rs:55-57) are those of some moment of the
\* call, although hits and misses are not read together, and the hit rate made
\* of them is a fraction of one.
LookupsCurrent ==
  rpc = "done" =>
    /\ lookups(snap) \in floor .. lookups(Counted)
    /\ hit_rate(snap).num <= hit_rate(snap).den

\* A call of cache_stats returns even while a thread hangs in its wrapped
\* search: the lock it waits for is not held there (src/cached.rs:380-381).
StatsReturns == rpc # "idle" ~> rpc = "idle"
==============================================================================
