--------------------------- MODULE RecencyStorage ----------------------------
(***************************************************************************)
(* RecencyCache of src/policy.rs on the storage of OrderedMap instead of   *)
(* the plain list of RecencyPolicy, with keys not equal to themselves: a   *)
(* search whose filter holds a NaN has such a key, src/key.rs:64-68        *)
(* declares it unsupported, and nothing refuses it.                        *)
(***************************************************************************)
EXTENDS OrderedMap

CONSTANT Capacities

ASSUME CapacityAssumption == Capacities \subseteq Nat

VARIABLES
  capacity, touch_on_get,  \* the cache's configuration
  over,    \* TRUE inside a put, from insert_front to the pop_back it calls for
  latest   \* history: per key, the value put last

cvars == <<capacity, touch_on_get, over, latest>>

CInit ==
  /\ Init
  /\ capacity \in Capacities /\ touch_on_get \in BOOLEAN
  /\ over = FALSE
  /\ latest \in [Keys -> Vals]

\* OrderedMap::len counts what the index holds.
MapLen == Cardinality(DOMAIN map) + stray

Get(k) ==
  /\ ~ over /\ Access(k, touch_on_get)
  /\ UNCHANGED cvars

\* contains finds the key.
PutLive(k, v) ==
  /\ ~ over /\ capacity > 0 /\ k \in DOMAIN map
  /\ IF touch_on_get THEN RewriteFront(k, v) /\ out' = {} ELSE update_value(k, v)
  /\ latest' = [latest EXCEPT ![k] = v]
  /\ UNCHANGED <<capacity, touch_on_get, over>>

\* It does not: insert_front, then pop_back if that was one too many.
PutNew(k, v) ==
  /\ ~ over /\ capacity > 0
  /\ AdmitFront(k, v) /\ out' = {}
  /\ over' = (MapLen' > capacity)
  /\ latest' = [latest EXCEPT ![k] = v]
  /\ UNCHANGED <<capacity, touch_on_get>>

PutPop ==
  /\ over /\ pop_back
  /\ over' = FALSE
  /\ UNCHANGED <<capacity, touch_on_get, latest>>

Clear == ~ over /\ clear /\ UNCHANGED cvars

CNext ==
  \/ \E k \in Keys : Get(k)
  \/ \E k \in Keys, v \in Vals : PutLive(k, v) \/ PutNew(k, v)
  \/ PutPop
  \/ Clear

CSpec == CInit /\ [][CNext]_<<vars, cvars>>

-----------------------------------------------------------------------------
\* Unsupported keys leave entries in the index for good and make len too large,
\* but the entries themselves stay within "Maximum entries the cache will hold"
\* (src/stats.rs:38), the arena within one more (src/policy.rs:52-68).
StorageBounded ==
  /\ Cardinality(Occupied) <= capacity + (IF over THEN 1 ELSE 0)
  /\ Len(slots) <= capacity + 1

\* They do supported keys no harm: what is found under one is what was put
\* there last, though the slots of both are recycled.
ServesLatest == \A k \in DOMAIN map : ValueIn(map[k]) = {latest[k]}
==============================================================================
