--------------------------- MODULE CachedStaleness ---------------------------
(***************************************************************************)
(* CachedIndex over an index that another handle changes, with the history *)
(* that tells how out of date an answer is.  Nothing invalidates such a    *)
(* change; the TTL is what bounds the damage (src/config.rs:142-144).      *)
(***************************************************************************)
EXTENDS CachedIndex

CONSTANT MaxLag  \* longest time from a wrapped search to its time stamp

ASSUME LagAssumption == MaxLag \in Nat

VARIABLES
  retired,  \* retired[i]: when version i - 1 stopped being the current one
  readAt    \* per thread: when its wrapped search read the index

svars == <<vars, retired, readAt>>

SInit == Init /\ retired = <<>> /\ readAt = [t \in Threads |-> 0]

\* The clock read follows the wrapped search within MaxLag.
Timely ==
  now' # now => \A t \in Threads : pc[t] = "account" => now - readAt[t] < MaxLag

Answered(t) == pc[t] = "search" /\ pc'[t] # "search"
Returned(t) == pc[t] # "idle" /\ pc'[t] = "idle"

SNext ==
  /\ SharedNext /\ Timely
  /\ retired' = IF index' # index THEN Append(retired, now) ELSE retired
  /\ readAt' = [t \in Threads |-> CASE Answered(t) -> now
                                    [] Returned(t) -> 0
                                    [] OTHER       -> readAt[t]]

SSpec == SInit /\ [][SNext]_svars

\* An answer served from the cache was the index's answer less than ttl, plus
\* the lag of its stamp, ago, whatever threads wait for the lock in between
\* and whichever of two answers is stored last (src/config.rs:142-144,
\* src/cached.rs:384).
StalenessBounded ==
  [][\A t \in Threads : ProbeHit(t) =>
       \A a \in res'[t], ttl \in config.ttl :
         a.index < index => now < retired[a.index + 1] + ttl + MaxLag]_svars
==============================================================================
