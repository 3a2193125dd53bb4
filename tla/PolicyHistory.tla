---------------------------- MODULE PolicyHistory ----------------------------
(***************************************************************************)
(* PolicyMachine with the history its victim rules are about: the order    *)
(* in which live keys were last touched and first inserted, and how often  *)
(* each was used.  The history never influences the cache.                 *)
(***************************************************************************)
EXTENDS PolicyMachine

VARIABLES
  touched,   \* pairs <<a, b>> of live keys: a was last touched before b
  inserted,  \* pairs <<a, b>> of live keys: a was inserted before b
  uses       \* uses[k]: hits and puts of k since it was inserted (2 if it came
             \* back from a ghost list), 0 if it is not live

history == <<touched, inserted, uses>>
hvars == <<cache, out, touched, inserted, uses>>

HInit == Init /\ touched = {} /\ inserted = {} /\ uses = [k \in Keys |-> 0]

\* Order r with k moved to the end, over the keys live afterwards.
MovedLast(r, k, live) ==
  {p \in r : k \notin {p[1], p[2]} /\ {p[1], p[2]} \subseteq live}
    \cup {<<j, k>> : j \in live \ {k}}

\* uses after a hit or a put of k.  Counts saturate at MaxFreq, which LFU's
\* guard keeps out of reach and the other policies' rules do not tell apart.
Using(k, live) ==
  [j \in Keys |-> CASE j \notin live         -> 0
                    [] j \in live /\ j = k -> Min({uses[j] + 1, MaxFreq})
                    [] j \in live /\ j # k -> uses[j]]

\* A key ARC remembers as a ghost has been used before.
Remembered(k) ==
  cache.kind = "Arc" /\ (Holds(cache.b1, k) \/ Holds(cache.b2, k))

Readmitting(k, live) == [Using(k, live) EXCEPT ![k] = Min({2, MaxFreq})]

HGet(k) ==
  /\ Get(k)
  /\ IF out'.found = {}
     THEN UNCHANGED history
     ELSE /\ touched' = MovedLast(touched, k, LiveKeys(cache'))
          /\ uses' = Using(k, LiveKeys(cache'))
          /\ UNCHANGED inserted

HPut(k, v) ==
  /\ Put(k, v)
  /\ IF k \notin LiveKeys(cache')
     THEN UNCHANGED history
     ELSE /\ touched' = MovedLast(touched, k, LiveKeys(cache'))
          /\ uses' = IF Remembered(k) THEN Readmitting(k, LiveKeys(cache'))
                     ELSE Using(k, LiveKeys(cache'))
          /\ inserted' = IF k \in LiveKeys(cache) THEN inserted
                         ELSE MovedLast(inserted, k, LiveKeys(cache'))

HClear == Clear /\ touched' = {} /\ inserted' = {} /\ uses' = [k \in Keys |-> 0]

HNext ==
  \/ \E k \in Keys : HGet(k)
  \/ \E k \in Keys, v \in Vals : HPut(k, v)
  \/ HClear

HSpec == HInit /\ [][HNext]_hvars

-----------------------------------------------------------------------------
\* The keys an eviction removed in this step.
Victims == IF out'.evicted THEN LiveKeys(cache) \ LiveKeys(cache') ELSE {}
Others(v) == LiveKeys(cache) \ {v}

\* LRU discards the entry untouched for the longest (src/config.rs:26), where
\* a hit and a rewrite both touch.
LruVictim ==
  [][cache.kind = "Recency" /\ cache.touch_on_get =>
       \A v \in Victims : \A j \in Others(v) : <<v, j>> \in touched]_hvars

\* FIFO discards the oldest inserted entry, however often it was read or
\* rewritten (src/config.rs:35-36).
FifoVictim ==
  [][cache.kind = "Recency" /\ ~ cache.touch_on_get =>
       \A v \in Victims : \A j \in Others(v) : <<v, j>> \in inserted]_hvars

\* LFU discards a least-used entry and, among those, the one untouched for the
\* longest (src/policy.rs:81-84), counting as uses what the structure is told:
\* gets that find the key and puts of it.
LfuVictimRule ==
  [][cache.kind = "Lfu" =>
       \A v \in Victims : \A j \in Others(v) :
         \/ uses[v] < uses[j]
         \/ uses[v] = uses[j] /\ <<v, j>> \in touched]_hvars

\* ARC with a target of 0, as after new or clear, resists scans: an entry used
\* twice, its ghosts' uses included, goes only when no entry used once is left
\* (src/policy.rs:188-195, 226-237).
ArcScanResistant ==
  [][cache.kind = "Arc" /\ cache.p = 0 /\ cache'.p = 0 =>
       \A v \in Victims : uses[v] >= 2 => \A j \in Others(v) : uses[j] >= 2]_hvars
==============================================================================
