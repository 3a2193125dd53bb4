----------------------------- MODULE CacheConfig -----------------------------
(***************************************************************************)
(* CacheConfig and its builder, src/config.rs: a value that each setter    *)
(* replaces by a copy with one field changed.                              *)
(***************************************************************************)
EXTENDS Naturals

\* An Option is a set of at most one element.
None == {}
Some(x) == {x}

EvictionPolicy == {"Lru", "Lfu", "Fifo", "Arc"}

DEFAULT_CAPACITY == 1024

ConfigNew == [policy |-> "Lru", capacity |-> DEFAULT_CAPACITY, ttl |-> None]

SetPolicy(c, p) == [c EXCEPT !.policy = p]
SetCapacity(c, n) == [c EXCEPT !.capacity = n]
SetTtl(c, d) == [c EXCEPT !.ttl = Some(d)]
NoTtl(c) == [c EXCEPT !.ttl = None]

\* The chain of setters that configures a policy, a capacity and a TTL.
Configured(p, n, ttl) ==
  LET c == SetCapacity(SetPolicy(ConfigNew, p), n)
  IN  IF ttl = None THEN NoTtl(c) ELSE SetTtl(c, CHOOSE d \in ttl : TRUE)
==============================================================================
