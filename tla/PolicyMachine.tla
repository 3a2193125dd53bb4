---------------------------- MODULE PolicyMachine ----------------------------
(***************************************************************************)
(* One PolicyCache driven by an arbitrary sequence of get, put and clear.  *)
(* A put may name a key that is live: CachedIndex does that when an entry  *)
(* has expired and when two searches missed on the same key.  Disciplined  *)
(* restricts the caller to puts of keys that are not live, which is what a *)
(* single thread without a TTL does.                                       *)
(***************************************************************************)
EXTENDS PolicyCache

CONSTANTS
  Keys,         \* cache keys
  Vals,         \* cached values
  Policies,     \* the policies a behaviour may start with
  Capacities,   \* the capacities a behaviour may start with
  Disciplined,  \* kinds of cache whose caller never puts a live key
  MaxFreq       \* bound: LFU frequencies explored

ASSUME MachineAssumption ==
  /\ Policies \subseteq EvictionPolicy
  /\ Capacities \subseteq Nat
  /\ Disciplined \subseteq {"Recency", "Lfu", "Arc"}
  /\ MaxFreq \in Nat \ {0}

VARIABLES
  cache,  \* the policy structure
  out     \* what the last operation returned

vars == <<cache, out>>

Returned(f, e) == [found |-> f, evicted |-> e]

Init ==
  /\ \E p \in Policies, c \in Capacities : cache = PolicyNew(p, c)
  /\ out = Returned({}, FALSE)

\* Bound on the model: u64 frequencies are cut off at MaxFreq.
BelowMaxFreq(k) ==
  cache.kind = "Lfu" /\ k \in DOMAIN cache.values => cache.values[k].freq < MaxFreq

Get(k) ==
  /\ BelowMaxFreq(k)
  /\ cache' = PolicyGet(cache, k).cache
  /\ out' = Returned(PolicyGet(cache, k).found, FALSE)

Put(k, v) ==
  /\ BelowMaxFreq(k)
  /\ cache.kind \in Disciplined => k \notin LiveKeys(cache)
  /\ cache' = PolicyPut(cache, k, v).cache
  /\ out' = Returned({}, PolicyPut(cache, k, v).evicted)

Clear ==
  /\ cache' = PolicyClear(cache)
  /\ out' = Returned({}, FALSE)

Next ==
  \/ \E k \in Keys : Get(k)
  \/ \E k \in Keys, v \in Vals : Put(k, v)
  \/ Clear

Spec == Init /\ [][Next]_vars

-----------------------------------------------------------------------------
\* Type invariant: the structure holds keys, values and counts of the right
\* kind, no list holds a key twice (OrderedMap, src/ordered.rs:35) and ARC's
\* target p stays in 0..c (src/policy.rs:205).
TypeOK ==
  /\ PolicyType(cache, Keys, Vals)
  /\ out \in [found: SUBSET Vals, evicted: BOOLEAN]

\* LFU's two maps stay coherent through every sequence of operations, so that
\* eviction finds its victim in one step at min_freq (src/policy.rs:81-91);
\* were min_freq to name a vacant bucket, put would grow without bound.
LfuConsistent == cache.kind = "Lfu" => LfuCoherent(cache)

\* ARC's memory is bounded whatever the caller does, puts of live keys
\* included (src/policy.rs:194-195 for the live lists).
ArcBounded == cache.kind = "Arc" => ArcBounds(cache)

\* For a disciplined caller ARC's four lists stay apart (src/policy.rs:190-192).
ArcPartition == cache.kind = "Arc" => ArcApart(cache)

\* The map the structure stands for.
StoreOf(c) == [k \in LiveKeys(c) |-> (CHOOSE e \in Entries(c) : e.key = k).val]

Bounded == INSTANCE BoundedCache WITH store <- StoreOf(cache), capacity <- cache.capacity

\* Every operation of the structure is one of the abstract bounded cache's:
\* refreshes happen in place, a put evicts exactly one key and only from a
\* full cache, reports it, and get returns what is stored
\* (put's contract, src/policy.rs:16-17 and 341-342).
ImplementsBoundedCache == Bounded!BSpec
==============================================================================
