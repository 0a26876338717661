----------------------------- MODULE CrewGraph ------------------------------
(***************************************************************************)
(* The graph process of a crew (pkg/crew/crew.go, executeGraph).  The main *)
(* goroutine works in rounds: it collects the tasks that are not processed *)
(* and whose dependencies are, starts a worker goroutine for each, and     *)
(* waits for them all.  A worker whose task succeeded may send the task    *)
(* itself, or one of its dependencies, back for another run, so a task may *)
(* run in several rounds; the number of rounds is capped.                  *)
(*                                                                         *)
(* The graph is any relation on the tasks of the crew, chosen at the       *)
(* start; a dependency on a task outside the crew, which the scan can only *)
(* report as a deadlock, is left out, as is a task listed twice.  What a   *)
(* task computes is abstracted: Execute may fail (a cancelled context      *)
(* included), and OutputCondition may choose any path.  A path that leads  *)
(* to neither the task nor a dependency of it is ignored by the code.      *)
(***************************************************************************)
EXTENDS Naturals, FiniteSets

CONSTANTS Tasks,        \* c.Tasks
          Concurrency,  \* c.MaxConcurrency, the capacity of sem
          MaxCycles     \* c.MaxCycles, the cap on the rounds

ASSUME GraphAssumption ==
    /\ IsFiniteSet(Tasks) /\ Tasks # {}
    /\ Concurrency \in Nat \ {0}
    /\ MaxCycles \in Nat \ {0}

VARIABLES deps,       \* t.Dependencies
          processed,  \* the local map of executeGraph
          todo,       \* readyTasks that are not launched yet
          worker,     \* the worker goroutine of each task
          main,       \* the main goroutine, or what it returned
          round,      \* globalIter
          errCh,      \* the tasks whose error is in the channel
          done        \* the tasks that have an Output

graphVars == <<deps, processed, todo, worker, main, round, errCh, done>>

Returned == {"ok", "stuck", "error"}

GraphInit ==
    /\ deps \in [Tasks -> SUBSET Tasks]
    /\ processed = [t \in Tasks |-> FALSE]
    /\ todo = {}
    /\ worker = [t \in Tasks |-> "idle"]
    /\ main = "scan"
    /\ round = 0
    /\ errCh = {}
    /\ done = {}

(* Mutant: one processed dependency is enough. *)
DepsMetBySome(t) == deps[t] = {} \/ \E d \in deps[t] : processed[d]

DepsMet(t) == \A d \in deps[t] : processed[d]

readyTasks == {t \in Tasks : ~processed[t] /\ DepsMet(t)}
allDone == \A t \in Tasks : processed[t]

MoreRounds == round < MaxCycles

(* The top of the loop: the cap, the scan under mu, and its early exits. *)
Scan ==
    /\ main = "scan"
    /\ \/ /\ ~MoreRounds \/ allDone
          /\ main' = "ok"
          /\ UNCHANGED todo
       \/ /\ MoreRounds /\ ~allDone /\ readyTasks = {}
          /\ main' = "stuck"
          /\ UNCHANGED todo
       \/ /\ MoreRounds /\ readyTasks # {}
          /\ main' = "launch"
          /\ todo' = readyTasks
    /\ UNCHANGED <<deps, processed, worker, round, errCh, done>>

(* One turn of the launch loop; earlier workers are already running. *)
Launch(t) ==
    /\ main = "launch" /\ t \in todo
    /\ processed' = [processed EXCEPT ![t] = TRUE]
    /\ worker' = [worker EXCEPT ![t] = "waiting"]
    /\ todo' = todo \ {t}
    /\ UNCHANGED <<deps, main, round, errCh, done>>

Running == {t \in Tasks : worker[t] = "running"}

(* The worker sends to sem. *)
Acquire(t) ==
    /\ worker[t] = "waiting"
    /\ Cardinality(Running) < Concurrency
    /\ worker' = [worker EXCEPT ![t] = "running"]
    /\ UNCHANGED <<deps, processed, todo, main, round, errCh, done>>

(* Execute fails: the error goes to errCh. *)
Fail(t) ==
    /\ worker[t] = "running"
    /\ errCh' = errCh \cup {t}
    /\ worker' = [worker EXCEPT ![t] = "idle"]
    /\ UNCHANGED <<deps, processed, todo, main, round, done>>

(* Execute succeeds, and the output condition marks the tasks in back, at  *)
(* most one, as not processed.                                             *)
Succeed(t, back) ==
    /\ worker[t] = "running"
    /\ back \subseteq {t} \cup deps[t] /\ \A x, y \in back : x = y
    /\ done' = done \cup {t}
    /\ processed' = [x \in Tasks |-> processed[x] /\ x \notin back]
    /\ worker' = [worker EXCEPT ![t] = "idle"]
    /\ UNCHANGED <<deps, todo, main, round, errCh>>

(* Mutant: the workers' errors are not read. *)
AfterRoundBlind == "scan"

(* The non-blocking receive from errCh after wg.Wait. *)
AfterRound == IF errCh # {} THEN "error" ELSE "scan"

NextRound == round + 1

(* wg.Wait returns, and the loop goes on unless a worker failed. *)
EndRound ==
    /\ main = "launch" /\ todo = {}
    /\ \A t \in Tasks : worker[t] = "idle"
    /\ main' = AfterRound
    /\ round' = IF AfterRound = "scan" THEN NextRound ELSE round
    /\ UNCHANGED <<deps, processed, todo, worker, errCh, done>>

Work(t) == Acquire(t) \/ Fail(t) \/ \E back \in SUBSET Tasks : Succeed(t, back)

GraphMain == Scan \/ EndRound \/ \E t \in Tasks : Launch(t)

GraphNext == GraphMain \/ \E t \in Tasks : Work(t)

(* Every goroutine runs on, and Execute returns: task and agent timeouts   *)
(* bound it.  A worker blocked on sem gets a slot: channel senders queue.  *)
GraphFairness == WF_graphVars(GraphMain) /\ \A t \in Tasks : SF_graphVars(Work(t))

GraphSpec == GraphInit /\ [][GraphNext]_graphVars /\ GraphFairness

-----------------------------------------------------------------------------
(* Types of the scheduler's state. *)
GraphTypeOK ==
    /\ deps \in [Tasks -> SUBSET Tasks]
    /\ processed \in [Tasks -> BOOLEAN]
    /\ todo \in SUBSET Tasks
    /\ worker \in [Tasks -> {"idle", "waiting", "running"}]
    /\ main \in {"scan", "launch"} \cup Returned
    /\ round \in 0..MaxCycles
    /\ main = "launch" => round < MaxCycles
    /\ errCh \in SUBSET Tasks
    /\ done \in SUBSET Tasks

(* A task is started only when each of its dependencies has an output, and *)
(* none of them is being executed again meanwhile: feedback from one       *)
(* worker never puts a task and its dependency into the same round         *)
(* (crew.go:999-1062).                                                     *)
RunsAfterDeps ==
    \A t \in Tasks : worker[t] # "idle" =>
        \A d \in deps[t] : d \in done /\ worker[d] = "idle"

(* When executeGraph returns without an error, and not because the rounds  *)
(* ran out, every task has been executed with success and no feedback is   *)
(* left unserved (crew.go:1019-1021, 1064-1072).                           *)
SuccessIsComplete ==
    main = "ok" /\ round < MaxCycles => done = Tasks /\ allDone

(* A set of tasks in which everyone waits for a member. *)
Circular(S) == S # {} /\ \A t \in S : deps[t] \cap S # {}

(* "deadlock or unresolved cyclic dependency in graph" (crew.go:1025) is   *)
(* reported only for a circular graph, feedback edges never cause it, and  *)
(* no task of a circular part is ever executed.                            *)
CircularNeverRuns ==
    /\ main = "stuck" => \E S \in SUBSET Tasks : Circular(S)
    /\ \A S \in SUBSET Tasks : Circular(S) => \A t \in S : worker[t] = "idle" /\ t \notin done
=============================================================================
