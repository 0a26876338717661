--------------------------- MODULE KickoffService ---------------------------
(***************************************************************************)
(* What the kickoff endpoint promises its clients, without its ledger, its *)
(* session table and its semaphore: each worker runs at most one crew, no  *)
(* two of them crews of the same session, no more than Cap of them at a    *)
(* time, and no crew is ever started under a key that was used before.     *)
(***************************************************************************)
EXTENDS Naturals, FiniteSets

CONSTANTS Workers,    \* background goroutines
          Keys,       \* Idempotency-Key header values
          NoKey,      \* the header is absent
          Sessions,   \* session ids
          NoCrew,     \* the worker runs no crew
          Cap         \* crews at a time

VARIABLES crew,       \* the session and the key of the crew each worker runs
          used        \* the keys under which a crew has been started

vars == <<crew, used>>

Init == crew = [w \in Workers |-> NoCrew] /\ used = {}

Busy == {w \in Workers : crew[w] # NoCrew}

(* A worker that ran no crew runs one. *)
GoesToWork(w) == crew[w] = NoCrew /\ crew'[w] # NoCrew

(* An accepted kickoff: what it changes, and when it is accepted. *)
Start(w, s, k) ==
    /\ crew' = [crew EXCEPT ![w] = [sess |-> s, key |-> k]]
    /\ used' = used \cup ({k} \ {NoKey})
    /\ \A v \in Busy : crew[v].sess # s
    /\ Cardinality(Busy) < Cap
    /\ k \notin used

(* Its crew completes or fails. *)
End(w) ==
    /\ crew[w] # NoCrew
    /\ crew' = [crew EXCEPT ![w] = NoCrew]
    /\ UNCHANGED used

(* The promise is one server's: a new one knows nothing of the keys. *)
Restart == crew' = [w \in Workers |-> NoCrew] /\ used' = {}

Next ==
    \/ \E w \in Workers :
          GoesToWork(w) /\ \E s \in Sessions, k \in Keys \cup {NoKey} : Start(w, s, k)
    \/ \E w \in Workers : End(w)
    \/ Restart

Spec == Init /\ [][Next]_vars
=============================================================================
