------------------------------ MODULE FlowGraph ------------------------------
(***************************************************************************)
(* The flow graph engine of pkg/flows (engine.go, checkpoint.go, state.go).*)
(* executeNode follows a node's Next; a router chooses the next node, a    *)
(* parallel node runs its branches in goroutines and merges their states,  *)
(* a map node runs its action for every item.  After every node a          *)
(* checkpoint is written, and Resume goes on behind the newest one.        *)
(*                                                                         *)
(* A thread is the goroutine of Run or of one branch.  A state is the set  *)
(* of the nodes that have contributed to it.                               *)
(***************************************************************************)
EXTENDS Naturals, Sequences, FiniteSets

CONSTANTS GNodes, Kind,    \* nodes; node -> step, router, parallel, map, reduce
          NextOf,          \* node -> the node Next[0] names, End if Next is empty
          Branches,        \* parallel node -> its branches
          Routes,          \* what routers answer: nodes, End, a name of no node
          Initial, End,
          MaxFlowDepth     \* 256 in the code

Threads == {"main"} \cup UNION {Branches[n] : n \in GNodes}

VARIABLES at, gdepth, gstate, st,  \* per thread: node, depth, state, status
          engine,     \* idle, running, ok, error
          files,      \* the checkpoints, oldest first: one per node
          gcancelled, restarts

graphVars == <<at, gdepth, gstate, st, engine, files, gcancelled, restarts>>

GraphInit ==
    /\ at = [t \in Threads |-> End] /\ gdepth = [t \in Threads |-> 0]
    /\ gstate = [t \in Threads |-> {}] /\ st = [t \in Threads |-> "none"]
    /\ engine = "idle" /\ files = <<>> /\ gcancelled = FALSE /\ restarts = 0

(* executeNode is called for node n with state s. *)
Call(t, n, d, s) ==
    /\ at' = [at EXCEPT ![t] = n] /\ gdepth' = [gdepth EXCEPT ![t] = d]
    /\ gstate' = [gstate EXCEPT ![t] = s] /\ st' = [st EXCEPT ![t] = "enter"]

Run ==
    /\ engine = "idle"
    /\ Call("main", Initial, 0, {})
    /\ engine' = "running"
    /\ UNCHANGED <<files, gcancelled, restarts>>

Return(t, status) ==
    /\ st' = [st EXCEPT ![t] = status]
    /\ engine' = IF t = "main" THEN status ELSE engine
    /\ UNCHANGED <<at, gdepth, gstate>>

(* The guards of executeNode: context, depth, end of the flow, known node. *)
Enter(t) ==
    /\ st[t] = "enter"
    /\ \/ gcancelled /\ Return(t, "error")
       \/ ~gcancelled /\ gdepth[t] > MaxFlowDepth /\ Return(t, "error")
       \/ ~gcancelled /\ gdepth[t] <= MaxFlowDepth /\ at[t] = End /\ Return(t, "ok")
       \/ /\ ~gcancelled /\ gdepth[t] <= MaxFlowDepth /\ at[t] \notin GNodes \cup {End}
          /\ Return(t, "error")
       \/ /\ ~gcancelled /\ gdepth[t] <= MaxFlowDepth /\ at[t] \in GNodes
          /\ st' = [st EXCEPT ![t] = "run"] /\ UNCHANGED <<at, gdepth, gstate, engine>>
    /\ UNCHANGED <<files, gcancelled, restarts>>

AtKind(t, k) == st[t] = "run" /\ Kind[at[t]] = k

(* Mutant: the recursion passes its own depth on. *)
DeeperNot(d) == d

(* depth+1 *)
Deeper(d) == d + 1

(* Save: one file per node, rewritten through a temporary file; a failure  *)
(* is only logged.                                                         *)
SaveCheckpoint(n, s) ==
    \/ files' = Append(SelectSeq(files, LAMBDA f : f.node # n), [node |-> n, data |-> s])
    \/ UNCHANGED files

(* The end of executeNode: the checkpoint, then the next node. *)
Proceed(t, next, s) ==
    /\ SaveCheckpoint(at[t], s)
    /\ Call(t, next, Deeper(gdepth[t]), s)
    /\ UNCHANGED <<engine, gcancelled, restarts>>

Fails(t) == Return(t, "error") /\ UNCHANGED <<files, gcancelled, restarts>>

Step(t) ==
    /\ AtKind(t, "step")
    /\ Proceed(t, NextOf[at[t]], gstate[t] \cup {at[t]}) \/ Fails(t)

(* The action for every item, in goroutines with a clone of the state      *)
(* each; it is an error only when all items fail.                          *)
MapItems(t) ==
    /\ AtKind(t, "map")
    /\ Proceed(t, NextOf[at[t]], gstate[t] \cup {at[t]}) \/ Fails(t)

(* A reduce node reached by itself only moves on. *)
Reduce(t) == AtKind(t, "reduce") /\ Proceed(t, NextOf[at[t]], gstate[t])

Route(t) == AtKind(t, "router") /\ \E n \in Routes : Proceed(t, n, gstate[t])

(* A goroutine for every branch, each with a clone of the state. *)
Fork(t) ==
    /\ AtKind(t, "parallel")
    /\ LET b == Branches[at[t]] IN
       /\ at' = [u \in Threads |-> IF u \in b THEN u ELSE at[u]]
       /\ gdepth' = [u \in Threads |-> IF u \in b THEN Deeper(gdepth[t]) ELSE gdepth[u]]
       /\ gstate' = [u \in Threads |-> IF u \in b THEN gstate[t] ELSE gstate[u]]
       /\ st' = [u \in Threads |-> IF u \in b THEN "enter" ELSE IF u = t THEN "wait" ELSE st[u]]
    /\ UNCHANGED <<engine, files, gcancelled, restarts>>

(* wg.Wait *)
AllReturned(b) == \A u \in b : st[u] \in {"ok", "error"}

(* All branches failed: the error of one.  Otherwise the reduce node's     *)
(* Merge gets the states of those that succeeded, and without a reduce     *)
(* node the first to return goes on alone.                                 *)
Join(t) ==
    /\ st[t] = "wait" /\ AllReturned(Branches[at[t]])
    /\ LET b == Branches[at[t]]
           good == {u \in b : st[u] = "ok"}
           next == NextOf[at[t]] IN
       \/ good = {} /\ Fails(t)
       \/ /\ good # {} /\ next \in GNodes /\ Kind[next] = "reduce"
          /\ Proceed(t, next, UNION {gstate[u] : u \in good})
       \/ /\ good # {} /\ ~(next \in GNodes /\ Kind[next] = "reduce")
          /\ \E u \in good : Proceed(t, next, gstate[u])

(* Resume: behind the newest checkpoint, unless its node has no Next.      *)
Resume ==
    /\ engine = "idle" /\ restarts > 0
    /\ IF files = <<>> THEN engine' = "error" /\ UNCHANGED <<at, gdepth, gstate, st>>
       ELSE LET cp == files[Len(files)] IN
            IF NextOf[cp.node] = End THEN engine' = "ok" /\ UNCHANGED <<at, gdepth, gstate, st>>
            ELSE Call("main", NextOf[cp.node], 0, cp.data) /\ engine' = "running"
    /\ UNCHANGED <<files, gcancelled, restarts>>

GraphCancel ==
    /\ engine = "running" /\ ~gcancelled /\ gcancelled' = TRUE
    /\ UNCHANGED <<at, gdepth, gstate, st, engine, files, restarts>>

(* The process dies once; the files stay. *)
GraphCrash ==
    /\ engine = "running" /\ restarts = 0
    /\ at' = [t \in Threads |-> End] /\ gdepth' = [t \in Threads |-> 0]
    /\ gstate' = [t \in Threads |-> {}] /\ st' = [t \in Threads |-> "none"]
    /\ engine' = "idle" /\ gcancelled' = FALSE /\ restarts' = 1
    /\ UNCHANGED files

Thread(t) == Enter(t) \/ Step(t) \/ MapItems(t) \/ Reduce(t) \/ Route(t) \/ Fork(t) \/ Join(t)

GraphNext == Run \/ Resume \/ GraphCancel \/ GraphCrash \/ \E t \in Threads : Thread(t)

(* Goroutines run and actions return. *)
GraphFairness == \A t \in Threads : WF_graphVars(Thread(t))

-----------------------------------------------------------------------------
(* Whatever the routers answer and whichever branches fail, a run that     *)
(* does not crash comes to an end: the depth guard breaks every cycle      *)
(* (engine.go:11-12, 40-42, 191).                                           *)
EngineReturns == engine = "running" ~> engine # "running"
=============================================================================
