---------------------------- MODULE CrewProcesses ----------------------------
(***************************************************************************)
(* The other processes of a crew (pkg/crew/crew.go): hierarchical, where a *)
(* manager delegates the pending tasks to parallel workers and may add     *)
(* tasks; consensual, where all agents do the first task; reflective,      *)
(* where a manager reviews each output; and the state machine, where an    *)
(* output chooses the next task.  Train kicks the crew off several times   *)
(* and the tasks keep their state from one kickoff to the next.            *)
(*                                                                         *)
(* A worker is the goroutine of one task (hierarchical) or of one agent    *)
(* (consensual).  What a model answers, and whether Execute fails, is open.*)
(***************************************************************************)
EXTENDS Naturals, FiniteSets

CONSTANTS NumTasks,     \* tasks the crew is built with
          NumAgents,    \* agents of the crew
          Cap,          \* MaxConcurrency
          MaxReplans,   \* maxReplans, 5 in the code
          MaxReviews,   \* maxReviewRetries, 2 in the code
          MaxTransitions,  \* MaxCycles of the crew: turns of the state machine
          TaskCycles,   \* MaxCycles of a task: turns on itself
          Iterations,   \* iterations of Train
          Managers      \* where the manager may come from: see manager

ASSUME ProcessesAssumption ==
    /\ {NumTasks, NumAgents, Cap, MaxReviews, MaxTransitions, TaskCycles, Iterations} \subseteq Nat \ {0}
    /\ MaxReplans \in Nat
    /\ Managers \subseteq {"default", "manager", "agent"}

VARIABLES process,     \* c.Process
          manager,     \* c.ManagerAgent: none, a ManagerAgent, or a plain Agent
          phase,       \* where Kickoff is
          state,       \* the tasks: absent, pending, ok or failed
          job,         \* the goroutines of the current round
          results,     \* the indices of finalResults that were set
          executed,    \* tasks (or agents) this kickoff has started
          replans, cur, turn, cycles, cancelled,
          kickoffs

roundVars == <<state, job, results, executed, replans>>
loopVars == <<cur, turn, cycles>>
procVars == <<process, manager, phase, roundVars, loopVars, cancelled, kickoffs>>

Processes == {"hierarchical", "consensual", "reflective", "stateMachine"}
TaskIds == 1..NumTasks + MaxReplans * Iterations
Workers == 1..NumTasks + MaxReplans * Iterations + NumAgents
Listed == {t \in TaskIds : state[t] # "absent"}
Pending == {t \in TaskIds : state[t] = "pending"}
Ended == phase \in {"ok", "error"}

(* A crew as it is built, or as a checkpoint has restored it. *)
ProcInit ==
    /\ process \in Processes /\ manager \in Managers
    /\ phase = "kickoff"
    /\ \E s \in [1..NumTasks -> {"pending", "ok", "failed"}] :
          state = [t \in TaskIds |-> IF t <= NumTasks THEN s[t] ELSE "absent"]
    /\ job = [k \in Workers |-> "none"]
    /\ results = {} /\ executed = {} /\ replans = 0
    /\ cur = 1 /\ turn = 0 /\ cycles = [t \in 1..NumTasks |-> 0]
    /\ cancelled = FALSE /\ kickoffs = 1

(* GeneratePlan asks the manager's model, which may fail. *)
GeneratePlan(ok, failed) == phase' = ok \/ phase' = failed

(* The planning phase of a crew with Planning; its plan only goes into the *)
(* descriptions of the tasks.                                              *)
RunPlanningPhase ==
    /\ phase = "kickoff"
    /\ GeneratePlan("switch", "error")
    /\ UNCHANGED <<process, manager, roundVars, loopVars, cancelled, kickoffs>>

(* The switch over c.Process. *)
ProcKickoff ==
    /\ phase = "switch"
    /\ phase' = [hierarchical |-> "round", consensual |-> "spawn",
              reflective |-> "execute", stateMachine |-> "turn"][process]
    /\ results' = {} /\ executed' = {} /\ replans' = 0
    /\ cur' = 1 /\ turn' = 0
    /\ UNCHANGED <<process, manager, state, job, cycles, cancelled, kickoffs>>

(* Train: the next iteration follows a kickoff that succeeded. *)
Train ==
    /\ phase = "ok" /\ kickoffs < Iterations
    /\ kickoffs' = kickoffs + 1 /\ phase' = "kickoff"
    /\ UNCHANGED <<process, manager, roundVars, loopVars, cancelled>>

ProcCancel ==
    /\ ~cancelled /\ ~Ended
    /\ cancelled' = TRUE
    /\ UNCHANGED <<process, manager, phase, roundVars, loopVars, kickoffs>>

-----------------------------------------------------------------------------
(* Rounds of workers: hierarchical and consensual. *)

(* The pending tasks of this round get a goroutine each. *)
Round ==
    /\ phase = "round"
    /\ IF Pending = {} THEN phase' = "aggregate" /\ UNCHANGED <<job, executed>>
       ELSE /\ job' = [k \in Workers |-> IF k \in Pending THEN "waiting" ELSE "none"]
            /\ executed' = executed \cup Pending
            /\ phase' = "wait"
    /\ UNCHANGED <<process, manager, state, results, replans, loopVars, cancelled, kickoffs>>

(* Every agent gets a goroutine for the first task. *)
Spawn ==
    /\ phase = "spawn"
    /\ job' = [k \in Workers |-> IF k <= NumAgents THEN "waiting" ELSE "none"]
    /\ executed' = 1..NumAgents
    /\ phase' = "wait"
    /\ UNCHANGED <<process, manager, state, results, replans, loopVars, cancelled, kickoffs>>

(* The workers that hold a slot of sem. *)
Busy == {k \in Workers : job[k] \in {"running", "executing"}}

(* Mutant: the semaphore is made one slot too large. *)
SlotFreeOneMore == Cardinality(Busy) <= Cap

SlotFree == Cardinality(Busy) < Cap

(* sem <- struct{}{}; a consensual worker executes at once. *)
AcquireSlot(k) ==
    /\ job[k] = "waiting" /\ SlotFree
    /\ job' = [job EXCEPT ![k] = IF process = "hierarchical" THEN "running" ELSE "executing"]
    /\ UNCHANGED <<process, manager, phase, state, results, executed, replans, loopVars,
                   cancelled, kickoffs>>

(* resolveOrchestrator: a plain Agent becomes a ManagerAgent without the   *)
(* Discovery that DelegateTask reads.                                      *)
HasDiscovery == manager # "agent"

(* DelegateTask: a local or a remote agent, or the task's own one if the   *)
(* manager fails or names nobody.  The worker gives up when its context is *)
(* done or the task has no agent either.  Without Discovery it panics, and *)
(* with the goroutine the whole program.                                   *)
DelegateTask(k) ==
    /\ job[k] = "running"
    /\ \/ HasDiscovery /\ job' = [job EXCEPT ![k] = "err"] /\ UNCHANGED phase
       \/ HasDiscovery /\ ~cancelled /\ job' = [job EXCEPT ![k] = "executing"] /\ UNCHANGED phase
       \/ ~HasDiscovery /\ ~cancelled /\ phase' = "panic" /\ UNCHANGED job
       \/ ~HasDiscovery /\ cancelled /\ job' = [job EXCEPT ![k] = "err"] /\ UNCHANGED phase
    /\ UNCHANGED <<process, manager, state, results, executed, replans, loopVars,
                   cancelled, kickoffs>>

(* Mutant: a failed task does not reach errCh. *)
ErrorLost == "done"

(* errCh <- err *)
Error == "err"

(* Execute fails: the task is marked processed and failed. *)
WorkerFails(k) ==
    /\ job[k] = "executing"
    /\ job' = [job EXCEPT ![k] = Error]
    /\ state' = IF process = "hierarchical" THEN [state EXCEPT ![k] = "failed"] ELSE state
    /\ UNCHANGED <<process, manager, phase, results, executed, replans, loopVars, cancelled, kickoffs>>

(* Execute succeeds: the result goes to the worker's own index. *)
WorkerSucceeds(k) ==
    /\ job[k] = "executing"
    /\ job' = [job EXCEPT ![k] = "done"]
    /\ state' = IF process = "hierarchical" THEN [state EXCEPT ![k] = "ok"] ELSE state
    /\ results' = results \cup {k}
    /\ UNCHANGED <<process, manager, phase, executed, replans, loopVars, cancelled, kickoffs>>

(* wg.Wait, then the first error of errCh ends the process. *)
Join ==
    /\ phase = "wait"
    /\ \A k \in Workers : job[k] \in {"none", "done", "err"}
    /\ phase' = IF \E k \in Workers : job[k] = "err" THEN "error"
             ELSE IF process = "hierarchical" THEN "replan" ELSE "aggregate"
    /\ UNCHANGED <<process, manager, roundVars, loopVars, cancelled, kickoffs>>

MayReplan == replans < MaxReplans

(* The manager leaves the plan, fails, or adds a follow-up task. *)
Replan ==
    /\ phase = "replan"
    /\ \/ phase' = "aggregate" /\ UNCHANGED <<state, replans>>
       \/ /\ MayReplan
          /\ \E t \in TaskIds : /\ state[t] = "absent" /\ t = Cardinality(Listed) + 1
                              /\ state' = [state EXCEPT ![t] = "pending"]
          /\ replans' = replans + 1 /\ phase' = "round"
    /\ UNCHANGED <<process, manager, job, results, executed, loopVars, cancelled, kickoffs>>

(* Synthesis, which falls back to the raw results when the manager fails. *)
Aggregate ==
    /\ phase = "aggregate" /\ process = "hierarchical"
    /\ phase' = "ok"
    /\ UNCHANGED <<process, manager, roundVars, loopVars, cancelled, kickoffs>>

(* Consensus: here the manager's error is returned. *)
Consolidate ==
    /\ phase = "aggregate" /\ process = "consensual"
    /\ phase' \in {"ok", "error"}
    /\ UNCHANGED <<process, manager, roundVars, loopVars, cancelled, kickoffs>>

-----------------------------------------------------------------------------
(* Reflective: execute, review, revise. *)

ExecuteReflective ==
    /\ phase = "execute"
    /\ \/ cur > NumTasks /\ phase' = "ok" /\ UNCHANGED <<turn, state>>
       \/ cur <= NumTasks /\ phase' = "error" /\ UNCHANGED <<turn, state>>
       \/ /\ cur <= NumTasks
          /\ state' = [state EXCEPT ![cur] = "ok"]
          /\ turn' = 0 /\ phase' = "review"
    /\ UNCHANGED <<process, manager, job, results, executed, replans, cur, cycles, cancelled, kickoffs>>

(* The manager is shown the prompt: an error ends the process; approval or *)
(* the last turn ends the reviews; otherwise the task is executed again    *)
(* with the feedback.  The prompt of every turn shows the first output.    *)
Review ==
    /\ phase = "review"
    /\ \/ phase' = "error" /\ UNCHANGED <<turn, cur>>
       \/ phase' = "execute" /\ cur' = cur + 1 /\ UNCHANGED turn
       \/ turn < MaxReviews - 1 /\ turn' = turn + 1 /\ UNCHANGED <<phase, cur>>
    /\ UNCHANGED <<process, manager, roundVars, cycles, cancelled, kickoffs>>

-----------------------------------------------------------------------------
(* State machine. *)

NextTurn == turn + 1

(* One turn: the bound and the context, Execute, and the next task: the    *)
(* one the output condition names, else the one that follows in the list.  *)
Turn ==
    /\ phase = "turn"
    /\ \/ turn = MaxTransitions /\ phase' = "error" /\ UNCHANGED <<cur, turn, cycles, state>>
       \/ turn < MaxTransitions /\ phase' = "error" /\ UNCHANGED <<cur, turn, cycles, state>>
       \/ /\ turn < MaxTransitions /\ ~cancelled
          /\ state' = [state EXCEPT ![cur] = "ok"]
          /\ turn' = NextTurn
          /\ \/ \E next \in 1..NumTasks \ {cur} : cur' = next /\ UNCHANGED <<phase, cycles>>
             \/ /\ cycles' = [cycles EXCEPT ![cur] = @ + 1]
                /\ phase' = IF cycles[cur] + 1 > TaskCycles THEN "error" ELSE "turn"
                /\ UNCHANGED cur
             \/ cur < NumTasks /\ cur' = cur + 1 /\ UNCHANGED <<phase, cycles>>
             \/ cur = NumTasks /\ phase' = "ok" /\ UNCHANGED <<cur, cycles>>
    /\ UNCHANGED <<process, manager, job, results, executed, replans, cancelled, kickoffs>>

ProcMain == RunPlanningPhase \/ ProcKickoff \/ Round \/ Spawn \/ Join \/ Replan \/ Aggregate
            \/ Consolidate \/ ExecuteReflective \/ Review \/ Turn
ProcWork(k) == AcquireSlot(k) \/ DelegateTask(k) \/ WorkerFails(k) \/ WorkerSucceeds(k)

ProcNext == /\ phase # "panic"
            /\ ProcMain \/ Train \/ ProcCancel \/ \E k \in Workers : ProcWork(k)

ProcSpec == ProcInit /\ [][ProcNext]_procVars

-----------------------------------------------------------------------------
(* A hierarchical kickoff that succeeds leaves no task undone, re-planned  *)
(* ones included, none of the tasks it started failed, and each of them    *)
(* has put its result in its own place (crew.go:682-814).                  *)
HierarchicalComplete ==
    process = "hierarchical" /\ phase = "ok" =>
        Pending = {} /\ \A t \in executed : state[t] = "ok" /\ t \in results

(* At most MaxConcurrency workers are at work, and none is left when the   *)
(* process goes on or returns, whatever failed (crew.go:704-766, 903-920). *)
WorkersContained ==
    /\ Cardinality(Busy) <= Cap
    /\ phase \notin {"wait", "panic"} => \A k \in Workers : job[k] \in {"none", "done", "err"}
=============================================================================
