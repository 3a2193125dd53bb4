----------------------------- MODULE CacheStats -----------------------------
(***************************************************************************)
(* The snapshot of the counters, src/stats.rs, and what is computed of it. *)
(* A counter is a u64: at most U64Max.                                     *)
(***************************************************************************)
EXTENDS Naturals

CONSTANT U64Max  \* the largest u64

ASSUME WidthAssumption == U64Max \in Nat \ {0}

CacheStats(h, m, e, l, c) ==
  [hits |-> h, misses |-> m, evictions |-> e, len |-> l, capacity |-> c]

\* hits.saturating_add(misses)
lookups(s) ==
  IF s.hits + s.misses > U64Max THEN U64Max ELSE s.hits + s.misses

\* The share of the lookups that hit, as numerator and denominator; 0 before
\* the first lookup, never a division by it.
hit_rate(s) ==
  IF lookups(s) = 0 THEN [num |-> 0, den |-> 1]
                    ELSE [num |-> s.hits, den |-> lookups(s)]
=============================================================================
