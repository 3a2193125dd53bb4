--------------------------- MODULE CachedAccounting --------------------------
(***************************************************************************)
(* CachedIndex with the history its counters and the LFU policy's "hits"   *)
(* are about: what really became of each lookup.                           *)
(***************************************************************************)
EXTENDS CachedIndex

VARIABLES
  fell,    \* lookups that missed and went to the wrapped index
  failed,  \* of those made through the cache, the ones that failed there
  served   \* served[k]: times the live entry of k was served

accounts == <<fell, failed, served>>
avars == <<vars, accounts>>

AInit == Init /\ fell = 0 /\ failed = 0 /\ served = [k \in Keys |-> 0]

Enters(t) == pc[t] # "search" /\ pc'[t] = "search"
Fails(t) == pc[t] = "search" /\ pc'[t] = "done" /\ config.capacity > 0
Serves(t) == pc[t] = "probe" /\ pc'[t] = "done"

ANext ==
  /\ Next
  /\ fell' = IF \E t \in Threads : Enters(t) THEN fell + 1 ELSE fell
  /\ failed' = IF \E t \in Threads : Fails(t) THEN failed + 1 ELSE failed
  /\ served' = [k \in Keys |->
       CASE k \notin LiveKeys(cache')                      -> 0
         [] \E t \in Threads : Serves(t) /\ req[t] = k -> served[k] + 1
         [] OTHER                                          -> served[k]]

ASpec == AInit /\ [][ANext]_avars

-----------------------------------------------------------------------------
\* Every search begun is a hit, a miss, an error or not yet decided, and only
\* one of them: a served lookup is never counted twice nor forgotten, an
\* expired entry counts as a miss (src/cached.rs:362-383).  With capacity 0
\* each search is a miss from the start.
AccountedOnce ==
  IF config.capacity = 0
  THEN hits = 0 /\ misses = calls
  ELSE hits + misses + failed + At({"lookup", "probe", "search", "account"}) = calls

\* Between calls, misses is the number of "Lookups that missed and fell through
\* to the wrapped index" (src/stats.rs:31).
MissesCountFallThrough == Exclusive => misses = fell

\* LFU "Discards the entry with the fewest lifetime hits" (src/config.rs:31),
\* a hit being a lookup served from the cache (src/stats.rs:29).
VictimHasFewestHits ==
  [][\A t \in Threads : Store(t) /\ Stored(t).evicted =>
       \A v \in LiveKeys(cache) \ LiveKeys(cache'), k \in LiveKeys(cache) :
         served[v] <= served[k]]_avars
==============================================================================
