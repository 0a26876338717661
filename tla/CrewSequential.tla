--------------------------- MODULE CrewSequential ---------------------------
(***************************************************************************)
(* The sequential process of a crew with a SessionID (pkg/crew/crew.go:    *)
(* Kickoff, Replay, executeSequential; pkg/crew/async.go: TaskFuture;      *)
(* pkg/core/persistence.go: the checkpoint table).  The loop executes the  *)
(* tasks in order and saves a checkpoint after each; tasks marked async    *)
(* run in goroutines of their own and are collected at the end.  The       *)
(* process may crash at any point: the crew is then built again and        *)
(* resumes from the table.                                                 *)
(*                                                                         *)
(* A kickoff that returned on an error has not waited for its async        *)
(* goroutines, so those of an earlier kickoff (gen) may still be at work   *)
(* when the next one runs.  The table is queried by ORDER BY timestamp, a  *)
(* column of whole seconds: only the rows of the latest second matter, and *)
(* among them SQL leaves the choice open.                                  *)
(***************************************************************************)
EXTENDS Naturals, FiniteSets

CONSTANTS N,           \* number of tasks
          Async,       \* the tasks with AsyncExecution
          MaxKickoffs, \* bound of the model: kickoffs of one process
          MaxRows      \* bound of the model: checkpoints in one second

ASSUME SequentialAssumption ==
    /\ N \in Nat \ {0}
    /\ Async \subseteq 1..N
    /\ MaxKickoffs \in Nat \ {0}
    /\ MaxRows \in Nat

VARIABLES tasks,       \* Processed, Failed and whether Output is set, in memory
          rows,        \* the checkpoints of the latest second
          pc, i,       \* the loop of executeSequential, then the collection
          gen,         \* kickoffs since the process started
          future,      \* the async goroutines of each kickoff
          ran          \* tasks that have been executed in this session, ever

vars == <<tasks, rows, pc, i, gen, future, ran>>

Fresh == [processed |-> FALSE, failed |-> FALSE, output |-> FALSE]
Task == [processed : BOOLEAN, failed : BOOLEAN, output : BOOLEAN]
Crew == [1..N -> Task]

Gens == 1..MaxKickoffs
NoFutures == [g \in Gens |-> [a \in Async |-> "none"]]

(* The crew as NewCrew builds it. *)
NewCrew ==
    /\ tasks' = [t \in 1..N |-> Fresh]
    /\ pc' = "ready" /\ i' = 1 /\ gen' = 0
    /\ future' = NoFutures

Init ==
    /\ tasks = [t \in 1..N |-> Fresh]
    /\ rows = {}
    /\ pc = "ready" /\ i = 1 /\ gen = 0
    /\ future = NoFutures
    /\ ran = {}

(* Replay resets a task and all that follow; Kickoff resets none. *)
Reset(from) ==
    [t \in 1..N |-> IF t >= from THEN [tasks[t] EXCEPT !.processed = FALSE, !.failed = FALSE]
                    ELSE tasks[t]]

(* Kickoff, called by the user or by Replay: load the latest checkpoint    *)
(* over the tasks in memory, if there is one and the query succeeds, and   *)
(* enter the loop.                                                         *)
Kickoff(from) ==
    /\ pc \in {"ready", "ok", "error"} /\ gen < MaxKickoffs
    /\ tasks' \in rows \cup {Reset(from)}
    /\ pc' = "loop" /\ i' = 1 /\ gen' = gen + 1
    /\ UNCHANGED <<rows, future, ran>>

Current == pc = "loop" /\ i <= N

(* The next turn of the loop. *)
Advance == i + 1

(* A processed task is skipped. *)
Skip ==
    /\ Current /\ tasks[i].processed
    /\ i' = Advance
    /\ UNCHANGED <<tasks, rows, pc, gen, future, ran>>

(* Kickoff returns before its loop: WaitIfPaused or the planning fails,    *)
(* after the checkpoint has been loaded.                                   *)
Refuse ==
    /\ pc = "loop" /\ i = 1
    /\ pc' = "error"
    /\ UNCHANGED <<tasks, rows, i, gen, future, ran>>

(* ctx.Done, or WaitIfPaused returning its error. *)
Cancel ==
    /\ Current /\ ~tasks[i].processed
    /\ pc' = "error"
    /\ UNCHANGED <<tasks, rows, i, gen, future, ran>>

(* dispatchAsyncTask. *)
Dispatch ==
    /\ Current /\ ~tasks[i].processed /\ i \in Async
    /\ future' = [future EXCEPT ![gen][i] = "running"]
    /\ i' = Advance
    /\ UNCHANGED <<tasks, rows, pc, gen, ran>>

(* Mutant: the failed task is only marked as processed. *)
TaskFailedLost == [tasks[i] EXCEPT !.processed = TRUE]

TaskFailed == [tasks[i] EXCEPT !.processed = TRUE, !.failed = TRUE]

(* Execute fails: the task is marked and the kickoff returns. *)
ExecuteFails ==
    /\ Current /\ ~tasks[i].processed /\ i \notin Async
    /\ tasks' = [tasks EXCEPT ![i] = TaskFailed]
    /\ ran' = ran \cup {i}
    /\ pc' = "error"
    /\ UNCHANGED <<rows, i, gen, future>>

(* Execute succeeds. *)
Execute ==
    /\ Current /\ ~tasks[i].processed /\ i \notin Async
    /\ tasks' = [tasks EXCEPT ![i].processed = TRUE, ![i].output = TRUE]
    /\ ran' = ran \cup {i}
    /\ pc' = "save"
    /\ UNCHANGED <<rows, i, gen, future>>

(* Mutant: the checkpoint already counts the next task. *)
SnapshotAhead == [t \in 1..N |-> IF t = i + 1 THEN [tasks[t] EXCEPT !.processed = TRUE] ELSE tasks[t]]

(* What json.Marshal sees of the crew: the async goroutines of the tasks   *)
(* may be anywhere.                                                        *)
Snapshot == tasks

(* SaveCheckpoint in a later second than the last row, in the same second, *)
(* or with an error that is dropped.                                       *)
SaveCheckpoint ==
    /\ pc = "save"
    /\ \/ rows' = {Snapshot}
       \/ rows' = rows \cup {Snapshot} /\ Cardinality(rows) < MaxRows
       \/ UNCHANGED rows
    /\ pc' = "loop" /\ i' = Advance
    /\ UNCHANGED <<tasks, gen, future, ran>>

(* An async goroutine: Execute sets Processed, then Output, and the future *)
(* is closed when it returns; a failed Execute sets neither.               *)
AsyncProcessed(g, a) ==
    /\ future[g][a] = "running"
    /\ tasks' = [tasks EXCEPT ![a].processed = TRUE]
    /\ ran' = ran \cup {a}
    /\ future' = [future EXCEPT ![g][a] = "marked"]
    /\ UNCHANGED <<rows, pc, i, gen>>

AsyncOutput(g, a) ==
    /\ future[g][a] = "marked"
    /\ tasks' = [tasks EXCEPT ![a].output = TRUE]
    /\ future' = [future EXCEPT ![g][a] = "ok"]
    /\ UNCHANGED <<rows, pc, i, gen, ran>>

(* Mutant: a failed goroutine does not close its future. *)
ClosedOnSuccess == "lost"

Closed == "err"

AsyncFails(g, a) ==
    /\ future[g][a] = "running"
    /\ future' = [future EXCEPT ![g][a] = Closed]
    /\ UNCHANGED <<tasks, rows, pc, i, gen, ran>>

EndLoop ==
    /\ pc = "loop" /\ i > N
    /\ pc' = "collect" /\ i' = 1
    /\ UNCHANGED <<tasks, rows, gen, future, ran>>

(* Mutant: a future that is not ready is passed over. *)
MayCollectAny(a) == TRUE

(* Result blocks until the future is closed. *)
MayCollect(a) == future[gen][a] \in {"none", "ok", "err"}

(* Collect the futures in the order of their tasks; an error is logged. *)
Collect ==
    /\ pc = "collect" /\ i <= N
    /\ i \in Async => MayCollect(i)
    /\ tasks' = IF i \in Async /\ future[gen][i] = "ok"
                THEN [tasks EXCEPT ![i].processed = TRUE, ![i].output = TRUE]
                ELSE tasks
    /\ i' = i + 1
    /\ UNCHANGED <<rows, pc, gen, future, ran>>

Return ==
    /\ pc = "collect" /\ i > N
    /\ pc' = "ok"
    /\ UNCHANGED <<tasks, rows, i, gen, future, ran>>

(* The process dies and is started again. *)
Crash ==
    /\ pc # "ready"
    /\ NewCrew
    /\ UNCHANGED <<rows, ran>>

Main == \/ Refuse \/ Skip \/ Cancel \/ Dispatch \/ ExecuteFails \/ Execute \/ SaveCheckpoint
        \/ EndLoop \/ Collect \/ Return
AsyncStep(g, a) == AsyncProcessed(g, a) \/ AsyncOutput(g, a) \/ AsyncFails(g, a)

Next ==
    \/ \E from \in 1..N + 1 : Kickoff(from)
    \/ Main
    \/ \E g \in Gens, a \in Async : AsyncStep(g, a)
    \/ Crash

(* Goroutines run on, and Execute returns.  No one has to call Kickoff,    *)
(* and nothing has to crash.                                               *)
Fairness == WF_vars(Main) /\ \A g \in Gens, a \in Async : WF_vars(AsyncStep(g, a))

Spec == Init /\ [][Next]_vars /\ Fairness

-----------------------------------------------------------------------------
(* Types of the crew, the table and the futures. *)
TypeOK ==
    /\ tasks \in Crew
    /\ rows \in SUBSET Crew
    /\ pc \in {"ready", "loop", "save", "collect", "ok", "error"}
    /\ i \in 1..N + 1
    /\ gen \in 0..MaxKickoffs
    /\ future \in [Gens -> [Async -> {"none", "running", "marked", "ok", "err"}]]
    /\ ran \in SUBSET (1..N)
    /\ pc # "ready" => gen \in Gens
    /\ pc = "save" => i \in 1..N

(* Neither the crew in memory nor a checkpoint ever claims a task that was *)
(* not executed, through failures, crashes, stale rows and replays: what   *)
(* the loop skips has been done (crew.go:523-526, 602-608).                *)
ProcessedWasRun ==
    \A t \in 1..N :
        /\ tasks[t].processed => t \in ran
        /\ \A row \in rows : row[t].processed => t \in ran

(* A task of the loop that counts as processed has its output, or is       *)
(* marked as failed, in memory and in every checkpoint, so a resumed crew  *)
(* has the context it pipes on (crew.go:549-567, 584-597).                 *)
ProcessedHasOutput ==
    \A t \in 1..N \ Async :
        /\ tasks[t].processed => tasks[t].output \/ tasks[t].failed
        /\ \A row \in rows : row[t].processed => row[t].output \/ row[t].failed

(* A kickoff that returns a result has collected every goroutine it        *)
(* started (crew.go:612-635).                                              *)
NoneAbandonedOnSuccess ==
    pc = "ok" => \A a \in Async : future[gen][a] \in {"none", "ok", "err"}

(* A kickoff returns, with a result or an error, whatever the async        *)
(* goroutines do, unless the process dies (async.go:34-49).                *)
KickoffReturns == pc \in {"loop", "save", "collect"} ~> pc \in {"ok", "error", "ready"}
=============================================================================
