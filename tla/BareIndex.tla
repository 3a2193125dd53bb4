------------------------------ MODULE BareIndex ------------------------------
(***************************************************************************)
(* The wrapped index with no cache in front of it, which is what a caller  *)
(* of CachedIndex is promised (README.md of the repository, "drop-in").    *)
(* Its contents are a version number; the answer to a search is determined *)
(* by the search and the version it ran against.                           *)
(***************************************************************************)
EXTENDS Integers

CONSTANTS
  Threads,  \* callers sharing the index
  Keys      \* distinct (query, params) searches

VARIABLES
  index,  \* the version of the searchable set
  pc,     \* per thread: "idle", "called" or "served"
  req,    \* per thread: the search it asked for last
  res     \* per thread: the answer it was served, none if the search failed

bare == <<index, pc, req, res>>

\* The result of search k on version i, a different one for each.
Answer(k, i) == [key |-> k, index |-> i]

Init ==
  /\ index = 0
  /\ pc = [t \in Threads |-> "idle"]
  /\ req \in [Threads -> Keys]
  /\ res = [t \in Threads |-> {}]

Call(t, k) ==
  /\ pc[t] = "idle"
  /\ pc' = [pc EXCEPT ![t] = "called"]
  /\ req' = [req EXCEPT ![t] = k]
  /\ UNCHANGED <<index, res>>

\* The search takes effect: it sees the index as it is now, or fails.
Serve(t) ==
  /\ pc[t] = "called"
  /\ pc' = [pc EXCEPT ![t] = "served"]
  /\ \E answers \in {{}, {Answer(req[t], index)}} : res' = [res EXCEPT ![t] = answers]
  /\ UNCHANGED <<index, req>>

Return(t) ==
  /\ pc[t] = "served"
  /\ pc' = [pc EXCEPT ![t] = "idle"]
  /\ res' = [res EXCEPT ![t] = {}]
  /\ UNCHANGED <<index, req>>

\* A successful mutation; &mut self keeps searches out.
Mutate ==
  /\ \A t \in Threads : pc[t] = "idle"
  /\ index' = index + 1
  /\ UNCHANGED <<pc, req, res>>

Next ==
  \/ \E t \in Threads : Serve(t) \/ Return(t) \/ \E k \in Keys : Call(t, k)
  \/ Mutate

Spec == Init /\ [][Next]_bare
==============================================================================
