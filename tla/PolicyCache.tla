----------------------------- MODULE PolicyCache -----------------------------
(***************************************************************************)
(* PolicyCache of src/policy.rs: the enum over the three structures and    *)
(* the dispatch of every operation to the one the configuration chose.     *)
(***************************************************************************)
EXTENDS CacheConfig, RecencyPolicy, LfuPolicy, ArcPolicy

PolicyNew(policy, capacity) ==
  CASE policy = "Lru"  -> RecencyNew(capacity, TRUE)
    [] policy = "Fifo" -> RecencyNew(capacity, FALSE)
    [] policy = "Lfu"  -> LfuNew(capacity)
    [] policy = "Arc"  -> ArcNew(capacity)

PolicyGet(c, k) ==
  CASE c.kind = "Recency" -> RecencyGet(c, k)
    [] c.kind = "Lfu"     -> LfuGet(c, k)
    [] c.kind = "Arc"     -> ArcGet(c, k)

PolicyPut(c, k, v) ==
  CASE c.kind = "Recency" -> RecencyPut(c, k, v)
    [] c.kind = "Lfu"     -> LfuPut(c, k, v)
    [] c.kind = "Arc"     -> ArcPut(c, k, v)

PolicyClear(c) ==
  CASE c.kind = "Recency" -> RecencyClear(c)
    [] c.kind = "Lfu"     -> LfuClear(c)
    [] c.kind = "Arc"     -> ArcClear(c)

PolicyLen(c) ==
  CASE c.kind = "Recency" -> RecencyLen(c)
    [] c.kind = "Lfu"     -> LfuLen(c)
    [] c.kind = "Arc"     -> ArcLen(c)

\* The live entries, as a set: what a get could still find.
Entries(c) ==
  CASE c.kind = "Recency" -> RecencyEntries(c)
    [] c.kind = "Lfu"     -> LfuEntries(c)
    [] c.kind = "Arc"     -> ArcEntries(c)

LiveKeys(c) == {e.key : e \in Entries(c)}

PolicyType(c, K, V) ==
  \/ c.kind = "Recency" /\ RecencyType(c, K, V)
  \/ c.kind = "Lfu"     /\ LfuType(c, K, V)
  \/ c.kind = "Arc"     /\ ArcType(c, K, V)
==============================================================================
