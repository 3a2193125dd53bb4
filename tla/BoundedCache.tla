---------------------------- MODULE BoundedCache -----------------------------
(***************************************************************************)
(* What an eviction policy promises its caller: a map of at most capacity  *)
(* keys in which a put stores its value, in place when the key is there,   *)
(* and gives up exactly one other key when, and only when, the map is      *)
(* full.  Which key is given up is left open; that is what policies are    *)
(* for.                                                                    *)
(***************************************************************************)
EXTENDS Integers, FiniteSets

CONSTANTS Keys, Vals, Capacities

VARIABLES store, capacity, out

bvars == <<store, capacity, out>>

BInit ==
  /\ store = <<>>
  /\ capacity \in Capacities
  /\ out = [found |-> {}, evicted |-> FALSE]

BGet(k) ==
  /\ out' = [found |-> IF k \in DOMAIN store THEN {store[k]} ELSE {}, evicted |-> FALSE]
  /\ UNCHANGED <<store, capacity>>

\* The map restricted to the keys kept, with k holding v.
Stored(kept, k, v) == [j \in kept \cup {k} |-> IF j = k THEN v ELSE store[j]]

BPutDisabled(k, v) ==
  /\ capacity = 0
  /\ out' = [found |-> {}, evicted |-> FALSE]
  /\ UNCHANGED <<store, capacity>>

BPutWithRoom(k, v) ==
  /\ capacity > 0
  /\ k \in DOMAIN store \/ Cardinality(DOMAIN store) < capacity
  /\ store' = Stored(DOMAIN store, k, v)
  /\ out' = [found |-> {}, evicted |-> FALSE]
  /\ UNCHANGED capacity

BPutWhenFull(k, v) ==
  /\ capacity > 0
  /\ k \notin DOMAIN store /\ Cardinality(DOMAIN store) = capacity
  /\ \E victim \in DOMAIN store : store' = Stored(DOMAIN store \ {victim}, k, v)
  /\ out' = [found |-> {}, evicted |-> TRUE]
  /\ UNCHANGED capacity

BClear ==
  /\ store' = <<>>
  /\ out' = [found |-> {}, evicted |-> FALSE]
  /\ UNCHANGED capacity

BNext ==
  \/ BClear
  \/ \E k \in Keys : BGet(k)
  \/ \E k \in Keys, v \in Vals :
       BPutDisabled(k, v) \/ BPutWithRoom(k, v) \/ BPutWhenFull(k, v)

BSpec == BInit /\ [][BNext]_bvars
==============================================================================
