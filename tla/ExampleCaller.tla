---------------------------- MODULE ExampleCaller ----------------------------
(***************************************************************************)
(* What the caller of a WrappedExample may conclude about the index from   *)
(* requests and replies alone.  It cannot see the index: an id is in it    *)
(* because a call that put it there returned Ok, and out of it because the *)
(* caller removed it or never asked for it.  Whether the wrapper deserves  *)
(* that trust is the property of this module.                              *)
(***************************************************************************)
EXTENDS WrappedExample

VARIABLES
  stored, \* ids that must be in the index, if the replies were true
  gone    \* ids that cannot be in it

known == <<stored, gone>>
callerVars == <<inner, cache, reply, stored, gone>>

IdsOf(items) == {items[i].id : i \in DOMAIN items}

\* The ids in the index, which only the first of these may look at: the caller
\* made the index before it wrapped it.
Held(x) == IF x.kind = "flat" THEN IdsOf(x.rows) ELSE ToSet(x.ids)

CallerInit ==
  /\ Init
  /\ stored = Held(inner)
  /\ gone = Ids \ stored

\* Ok promises every item.  An error promises nothing about the items before
\* the one that failed, which can be any.
TellInserted(items) ==
  IF reply'.result = "Ok"
  THEN /\ stored' = stored \cup IdsOf(items)
       /\ gone' = gone \ IdsOf(items)
  ELSE /\ stored' = stored
       /\ gone' = gone \ IdsOf(Front(items))

\* A DocStub takes an id twice and removes one: the other may be left.
TellDeleted(id) ==
  IF reply'.result = "Ok"
  THEN /\ stored' = stored \ {id}
       /\ gone' = IF inner.kind = "flat" THEN gone \cup {id} ELSE gone
  ELSE /\ stored' = stored
       /\ gone' = gone \cup {id}

\* A list shorter than what was asked for is the whole index.
TellListed(hits, k) ==
  /\ stored' = stored \cup IdsOf(hits)
  /\ gone' = IF Len(hits) < k THEN Ids \ IdsOf(hits) ELSE gone

One(id, v) == <<[id |-> id, vector |-> v]>>

CallInsert(id, v) == Insert(id, v) /\ TellInserted(One(id, v))
CallInsertBatch(items) == InsertBatch(items) /\ TellInserted(items)
CallDelete(id) == Delete(id) /\ TellDeleted(id)
CallClearCache == ClearCache /\ UNCHANGED known

CallSearch(q, k) ==
  /\ SearchHit(q, k) \/ SearchMiss(q, k)
  /\ IF reply'.hits = {} THEN UNCHANGED known
     ELSE \E hits \in reply'.hits : TellListed(hits, k)

CallerNext ==
  \/ \E id \in Ids, v \in Vectors : CallInsert(id, v)
  \/ \E id \in Ids : CallDelete(id)
  \/ \E a, b \in Items : CallInsertBatch(<<a, b>>)
  \/ \E q \in Vectors, k \in Ks : CallSearch(q, k)
  \/ CallClearCache

CallerSpec == CallerInit /\ [][CallerNext]_callerVars

-----------------------------------------------------------------------------
\* What a true reply to each call looks like, to one who knows this much.

\* A FlatIndex takes no id it holds; it refuses one as a duplicate only if it
\* may hold it, or if the items name it twice.
InsertBelievable(items) ==
  /\ inner.kind = "flat" /\ reply'.result = "Ok" => stored \cap IdsOf(items) = {}
  /\ reply'.result = "Duplicate" =>
       \E i \in DOMAIN items :
         items[i].id \notin gone \/ \E j \in 1 .. i - 1 : items[j].id = items[i].id

DeleteBelievable(id) ==
  IF reply'.result = "Ok" THEN id \notin gone ELSE id \notin stored

\* No id is listed that is gone, and none that is stored is missing from the
\* whole list.
ListBelievable(hits, k) ==
  /\ gone \cap IdsOf(hits) = {}
  /\ Len(hits) < k => stored \subseteq IdsOf(hits)

\* A reply that contradicts what the caller knows.
Misled ==
  \/ \E id \in Ids, v \in Vectors :
       ~ InsertBelievable(One(id, v)) /\ CallInsert(id, v)
  \/ \E a, b \in Items :
       ~ InsertBelievable(<<a, b>>) /\ CallInsertBatch(<<a, b>>)
  \/ \E id \in Ids :
       ~ DeleteBelievable(id) /\ CallDelete(id)
  \/ \E q \in Vectors, k \in Ks :
       (\E hits \in reply'.hits : ~ ListBelievable(hits, k)) /\ CallSearch(q, k)

\* No reply contradicts what earlier ones have told: an insert, batch or delete
\* that returned Ok was applied, one that failed was not, a failed batch owns up
\* to it, and a list, from the cache or not, shows it all
\* (src/cached.rs:323-382; README.md:43, "a search never observes a stale
\* result").
NeverMisled == [][~ Misled]_callerVars
==============================================================================
