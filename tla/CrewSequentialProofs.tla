------------------------ MODULE CrewSequentialProofs ------------------------
(* Proofs about the sequential process, for any number of tasks, any       *)
(* choice of the async ones, and any number of kickoffs and crashes.       *)
EXTENDS CrewSequential, TLAPS

(* A goroutine that has marked its task has executed it. *)
MarkedWasRun ==
    \A g \in Gens, a \in Async : future[g][a] \in {"marked", "ok"} => a \in ran

(* The collection has passed only closed futures. *)
CollectedClosed ==
    pc \in {"collect", "ok"} =>
        \A a \in Async : a < i \/ pc = "ok" => future[gen][a] \in {"none", "ok", "err"}

IInv == TypeOK /\ MarkedWasRun /\ ProcessedWasRun /\ ProcessedHasOutput /\ CollectedClosed

FuturePhases == {"none", "running", "marked", "ok", "err"}

(* The crew a kickoff starts from is one, and a subset of its tasks is     *)
(* processed as before.                                                    *)
LEMMA ResetType ==
    ASSUME TypeOK, NEW from \in 1..N + 1
    PROVE /\ Reset(from) \in Crew
          /\ \A t \in 1..N : /\ Reset(from)[t].processed => tasks[t].processed
                             /\ Reset(from)[t].output = tasks[t].output
                             /\ Reset(from)[t].processed => Reset(from)[t].failed = tasks[t].failed
BY SequentialAssumption DEF TypeOK, Reset, Crew, Task

(* One future moves on; the others stay. *)
LEMMA FutureUpdate ==
    ASSUME TypeOK, NEW g \in Gens, NEW a \in Async, NEW v \in FuturePhases,
           future' = [future EXCEPT ![g][a] = v]
    PROVE /\ future' \in [Gens -> [Async -> FuturePhases]]
          /\ \A h \in Gens, b \in Async :
                future'[h][b] = IF h = g /\ b = a THEN v ELSE future[h][b]
BY DEF TypeOK, FuturePhases

(* What an execution writes into a task. *)
LEMMA TaskUpdate ==
    ASSUME NEW crew \in Crew, NEW t \in 1..N
    PROVE /\ [crew EXCEPT ![t].processed = TRUE] \in Crew
          /\ [crew EXCEPT ![t].output = TRUE] \in Crew
          /\ [crew EXCEPT ![t].processed = TRUE, ![t].output = TRUE] \in Crew
          /\ [crew EXCEPT ![t] = [crew[t] EXCEPT !.processed = TRUE, !.failed = TRUE]] \in Crew
<1>1. crew[t] \in Task
  BY DEF Crew
<1>2. /\ [crew[t] EXCEPT !.processed = TRUE] \in Task
      /\ [crew[t] EXCEPT !.output = TRUE] \in Task
      /\ [crew[t] EXCEPT !.processed = TRUE, !.output = TRUE] \in Task
      /\ [crew[t] EXCEPT !.processed = TRUE, !.failed = TRUE] \in Task
  BY <1>1 DEF Task
<1>3. QED
  BY <1>2 DEF Crew

(* The types are kept. *)
LEMMA TypeStep == TypeOK /\ [Next]_vars => TypeOK'
<1> SUFFICES ASSUME TypeOK, [Next]_vars
             PROVE TypeOK'
  OBVIOUS
<1> USE SequentialAssumption DEF TypeOK, Gens, Advance
<1>1. ASSUME NEW from \in 1..N + 1, Kickoff(from)
      PROVE TypeOK'
  <2>1. tasks' \in Crew
    BY <1>1, ResetType DEF Kickoff
  <2>2. QED
    BY <1>1, <2>1 DEF Kickoff
<1>2. CASE Refuse \/ Skip \/ Cancel \/ EndLoop \/ Return
  <2>1. i' \in 1..N + 1
    BY <1>2 DEF Refuse, Skip, Cancel, EndLoop, Return, Current
  <2>2. pc' \in {"loop", "collect", "ok", "error"} /\ pc \in {"loop", "collect"}
    BY <1>2 DEF Refuse, Skip, Cancel, EndLoop, Return, Current
  <2>3. UNCHANGED <<tasks, rows, gen, future, ran>>
    BY <1>2 DEF Refuse, Skip, Cancel, EndLoop, Return
  <2>4. QED
    BY <2>1, <2>2, <2>3
<1>3. CASE Dispatch
  <2>1. future' \in [Gens -> [Async -> FuturePhases]]
    BY <1>3, FutureUpdate DEF Dispatch, Current, FuturePhases
  <2>2. QED
    BY <1>3, <2>1 DEF Dispatch, Current, FuturePhases
<1>4. CASE ExecuteFails \/ Execute
  <2>1. i \in 1..N /\ tasks[i] \in Task
    BY <1>4 DEF ExecuteFails, Execute, Current, Crew
  <2>2. tasks' \in Crew
    BY <1>4, <2>1, TaskUpdate DEF ExecuteFails, Execute, TaskFailed
  <2>3. QED
    BY <1>4, <2>1, <2>2 DEF ExecuteFails, Execute, Current
<1>5. CASE SaveCheckpoint
  BY <1>5 DEF SaveCheckpoint, Snapshot
<1>6. ASSUME NEW g \in Gens, NEW a \in Async, AsyncStep(g, a)
      PROVE TypeOK'
  <2>1. tasks' \in Crew
    BY <1>6, TaskUpdate DEF AsyncStep, AsyncProcessed, AsyncOutput, AsyncFails
  <2>2. future' \in [Gens -> [Async -> FuturePhases]]
    BY <1>6, FutureUpdate DEF AsyncStep, AsyncProcessed, AsyncOutput, AsyncFails, Closed, FuturePhases
  <2>3. QED
    BY <1>6, <2>1, <2>2 DEF AsyncStep, AsyncProcessed, AsyncOutput, AsyncFails, FuturePhases
<1>7. CASE Collect
  <2>1. tasks' \in Crew
    BY <1>7, TaskUpdate DEF Collect
  <2>2. QED
    BY <1>7, <2>1 DEF Collect
<1>8. CASE Crash
  BY <1>8 DEF Crash, NewCrew, NoFutures, Fresh, Crew, Task
<1>9. CASE UNCHANGED vars
  BY <1>9 DEF vars
<1>10. QED
  BY <1>1, <1>2, <1>3, <1>4, <1>5, <1>6, <1>7, <1>8, <1>9 DEF Next, Main

(* A mark is made only by an execution, and executions are not forgotten. *)
LEMMA MarkedStep == TypeOK /\ MarkedWasRun /\ [Next]_vars => MarkedWasRun'
<1> SUFFICES ASSUME TypeOK, MarkedWasRun, [Next]_vars
             PROVE MarkedWasRun'
  OBVIOUS
<1> USE SequentialAssumption DEF TypeOK, Gens, MarkedWasRun
<1>1. ASSUME ran \subseteq ran', future' = future
      PROVE MarkedWasRun'
  BY <1>1
<1>2. ASSUME NEW from \in 1..N + 1, Kickoff(from)
      PROVE MarkedWasRun'
  BY <1>1, <1>2 DEF Kickoff
<1>3. CASE Refuse \/ Skip \/ Cancel \/ EndLoop \/ Return \/ ExecuteFails \/ Execute \/ SaveCheckpoint \/ Collect
  BY <1>1, <1>3 DEF Refuse, Skip, Cancel, EndLoop, Return, ExecuteFails, Execute, SaveCheckpoint, Collect
<1>4. CASE Dispatch
  BY <1>4, FutureUpdate DEF Dispatch, Current, FuturePhases
<1>5. ASSUME NEW g \in Gens, NEW a \in Async, AsyncStep(g, a)
      PROVE MarkedWasRun'
  <2>1. PICK v \in FuturePhases : future' = [future EXCEPT ![g][a] = v]
    BY <1>5 DEF AsyncStep, AsyncProcessed, AsyncOutput, AsyncFails, Closed, FuturePhases
  <2>2. \A h \in Gens, b \in Async : future'[h][b] = IF h = g /\ b = a THEN v ELSE future[h][b]
    BY <2>1, FutureUpdate
  <2>3. ran \subseteq ran' /\ (v \in {"marked", "ok"} => a \in ran')
    <3>1. CASE AsyncProcessed(g, a)
      BY <3>1 DEF AsyncProcessed
    <3>2. CASE AsyncOutput(g, a)
      BY <3>2 DEF AsyncOutput
    <3>3. CASE AsyncFails(g, a)
      <4>1. future'[g][a] = "err"
        BY <3>3, FutureUpdate DEF AsyncFails, Closed, FuturePhases
      <4>2. QED
        BY <2>2, <3>3, <4>1 DEF AsyncFails
    <3>4. QED
      BY <1>5, <3>1, <3>2, <3>3 DEF AsyncStep
  <2>4. QED
    BY <2>2, <2>3
<1>6. CASE Crash
  BY <1>6 DEF Crash, NewCrew, NoFutures
<1>7. CASE UNCHANGED vars
  BY <1>1, <1>7 DEF vars
<1>8. QED
  BY <1>2, <1>3, <1>4, <1>5, <1>6, <1>7 DEF Next, Main

(* A crew that claims no more than was done. *)
Honest(crew, executed) ==
    \A t \in 1..N :
        /\ crew[t].processed => t \in executed
        /\ t \notin Async /\ crew[t].processed => crew[t].output \/ crew[t].failed

(* Both claims, about the crew in memory and about the rows. *)
AllHonest == Honest(tasks, ran) /\ \A row \in rows : Honest(row, ran)

(* Every action keeps memory and table honest. *)
LEMMA HonestStep == TypeOK /\ MarkedWasRun /\ AllHonest /\ [Next]_vars => AllHonest'
<1> SUFFICES ASSUME TypeOK, MarkedWasRun, AllHonest, [Next]_vars
             PROVE AllHonest'
  OBVIOUS
<1> USE SequentialAssumption DEF TypeOK, Gens
<1>1. ran \subseteq ran'
  BY DEF Next, Main, AsyncStep, Kickoff, Refuse, Skip, Cancel, EndLoop, Return, ExecuteFails, Execute,
         SaveCheckpoint, Collect, Dispatch, AsyncProcessed, AsyncOutput, AsyncFails, Crash, vars
<1>2. ASSUME rows' = rows PROVE \A row \in rows' : Honest(row, ran')
  BY <1>1, <1>2 DEF AllHonest, Honest
<1>3. ASSUME rows' = rows, Honest(tasks', ran') PROVE AllHonest'
  <2>1. \A row \in rows' : Honest(row, ran')
    BY <1>2, <1>3
  <2>2. QED
    BY <1>3, <2>1 DEF AllHonest, Honest
<1>4. ASSUME NEW from \in 1..N + 1, Kickoff(from)
      PROVE AllHonest'
  <2>1. Honest(Reset(from), ran)
    BY ResetType DEF AllHonest, Honest
  <2>2. Honest(tasks', ran')
    BY <1>4, <2>1 DEF Kickoff, AllHonest
  <2>3. QED
    BY <1>3, <1>4, <2>2 DEF Kickoff
<1>5. CASE Refuse \/ Skip \/ Cancel \/ EndLoop \/ Return \/ Dispatch
  BY <1>3, <1>5 DEF Refuse, Skip, Cancel, EndLoop, Return, Dispatch, AllHonest
<1>6. CASE ExecuteFails \/ Execute
  <2>1. i \in 1..N /\ tasks[i] \in Task /\ ran' = ran \cup {i} /\ rows' = rows
    BY <1>6 DEF ExecuteFails, Execute, Current, Crew
  <2>2. /\ tasks'[i].output \/ tasks'[i].failed
        /\ \A t \in 1..N : t # i => tasks'[t] = tasks[t]
    <3>1. CASE ExecuteFails
      BY <2>1, <3>1 DEF ExecuteFails, TaskFailed, Crew, Task
    <3>2. CASE Execute
      BY <2>1, <3>2 DEF Execute, Crew, Task
    <3>3. QED
      BY <1>6, <3>1, <3>2
  <2>3. Honest(tasks', ran')
    BY <2>1, <2>2 DEF AllHonest, Honest
  <2>4. QED
    BY <1>3, <2>1, <2>3
<1>7. CASE SaveCheckpoint
  <2>1. ran' = ran /\ tasks' = tasks /\ \A row \in rows' : row \in rows \/ row = tasks
    BY <1>7 DEF SaveCheckpoint, Snapshot
  <2>2. QED
    BY <2>1 DEF AllHonest, Honest
<1>8. ASSUME NEW g \in Gens, NEW a \in Async, AsyncStep(g, a)
      PROVE AllHonest'
  <2>1. a \in 1..N /\ rows' = rows
    BY <1>8 DEF AsyncStep, AsyncProcessed, AsyncOutput, AsyncFails
  <2>2. /\ \A t \in 1..N : t # a => tasks'[t] = tasks[t]
        /\ tasks'[a].processed => tasks[a].processed \/ a \in ran'
    <3>1. CASE AsyncProcessed(g, a)
      BY <2>1, <3>1 DEF AsyncProcessed, Crew, Task
    <3>2. CASE AsyncOutput(g, a)
      BY <2>1, <3>2 DEF AsyncOutput, Crew, Task
    <3>3. CASE AsyncFails(g, a)
      BY <3>3 DEF AsyncFails
    <3>4. QED
      BY <1>8, <3>1, <3>2, <3>3 DEF AsyncStep
  <2>3. Honest(tasks', ran')
    BY <1>1, <2>1, <2>2 DEF AllHonest, Honest
  <2>4. QED
    BY <1>3, <2>1, <2>3
<1>9. CASE Collect
  <2>1. rows' = rows /\ ran' = ran /\ i \in 1..N /\ gen \in Gens
    BY <1>9 DEF Collect
  <2>2. /\ \A t \in 1..N : t # i => tasks'[t] = tasks[t]
        /\ tasks' = tasks \/ (i \in Async /\ i \in ran)
    BY <1>9, <2>1 DEF Collect, MarkedWasRun, Crew, Task
  <2>3. Honest(tasks', ran')
    BY <2>1, <2>2 DEF AllHonest, Honest
  <2>4. QED
    BY <1>3, <2>1, <2>3
<1>10. CASE Crash
  <2>1. Honest(tasks', ran')
    BY <1>10 DEF Crash, NewCrew, Fresh, Honest
  <2>2. QED
    BY <1>3, <1>10, <2>1 DEF Crash
<1>11. CASE UNCHANGED vars
  BY <1>3, <1>11 DEF vars, AllHonest
<1>12. QED
  BY <1>4, <1>5, <1>6, <1>7, <1>8, <1>9, <1>10, <1>11 DEF Next, Main

(* The collection passes closed futures only, and they stay closed. *)
LEMMA CollectStep == TypeOK /\ CollectedClosed /\ [Next]_vars => CollectedClosed'
<1> SUFFICES ASSUME TypeOK, CollectedClosed, [Next]_vars
             PROVE CollectedClosed'
  OBVIOUS
<1> USE SequentialAssumption DEF TypeOK, Gens, CollectedClosed
<1>1. ASSUME NEW from \in 1..N + 1, Kickoff(from)
      PROVE CollectedClosed'
  BY <1>1 DEF Kickoff
<1>2. CASE Refuse \/ Skip \/ Cancel \/ Dispatch \/ ExecuteFails \/ Execute \/ SaveCheckpoint \/ EndLoop
  BY <1>2 DEF Refuse, Skip, Cancel, Dispatch, ExecuteFails, Execute, SaveCheckpoint, EndLoop, Current
<1>3. CASE Collect
  BY <1>3 DEF Collect, MayCollect
<1>4. CASE Return
  BY <1>4 DEF Return
<1>5. ASSUME NEW g \in Gens, NEW a \in Async, AsyncStep(g, a)
      PROVE CollectedClosed'
  <2>1. /\ future[g][a] \notin {"none", "ok", "err"}
        /\ \A h \in Gens, b \in Async : h # g \/ b # a => future'[h][b] = future[h][b]
    BY <1>5, FutureUpdate DEF AsyncStep, AsyncProcessed, AsyncOutput, AsyncFails, Closed, FuturePhases
  <2>2. pc' = pc /\ i' = i /\ gen' = gen
    BY <1>5 DEF AsyncStep, AsyncProcessed, AsyncOutput, AsyncFails
  <2>3. QED
    BY <2>1, <2>2
<1>6. CASE Crash
  BY <1>6 DEF Crash, NewCrew
<1>7. CASE UNCHANGED vars
  BY <1>7 DEF vars
<1>8. QED
  BY <1>1, <1>2, <1>3, <1>4, <1>5, <1>6, <1>7 DEF Next, Main

(* The inductive invariant holds in every reachable state. *)
LEMMA Invariance == Spec => []IInv
<1>1. Init => IInv
  BY SequentialAssumption DEF Init, IInv, TypeOK, MarkedWasRun, ProcessedWasRun, ProcessedHasOutput,
     CollectedClosed, NoFutures, Fresh, Crew, Task, Gens
<1>2. IInv /\ [Next]_vars => IInv'
  <2> SUFFICES ASSUME IInv, [Next]_vars
               PROVE IInv'
    OBVIOUS
  <2>1. AllHonest
    BY DEF IInv, AllHonest, Honest, ProcessedWasRun, ProcessedHasOutput
  <2>2. AllHonest' /\ TypeOK' /\ MarkedWasRun' /\ CollectedClosed'
    BY <2>1, TypeStep, MarkedStep, HonestStep, CollectStep DEF IInv
  <2>3. ProcessedWasRun' /\ ProcessedHasOutput'
    BY <2>2 DEF AllHonest, Honest, ProcessedWasRun, ProcessedHasOutput
  <2>4. QED
    BY <2>2, <2>3 DEF IInv
<1>3. QED
  BY <1>1, <1>2, PTL DEF Spec

(* The state of the crew is well typed. *)
THEOREM TypeCorrect == Spec => []TypeOK
<1>1. IInv => TypeOK
  BY DEF IInv
<1>2. QED
  BY Invariance, <1>1, PTL

(* Through crashes, replays, dropped saves and stale rows, a crew never    *)
(* skips a task that was not executed (crew.go:395-407, 523-526).          *)
THEOREM SkippedWasRun == Spec => []ProcessedWasRun
<1>1. IInv => ProcessedWasRun
  BY DEF IInv
<1>2. QED
  BY Invariance, <1>1, PTL

(* A resumed crew has the output, or the failure, of every task of the     *)
(* loop that it skips (crew.go:549-567, 584-608).                          *)
THEOREM SkippedHasOutput == Spec => []ProcessedHasOutput
<1>1. IInv => ProcessedHasOutput
  BY DEF IInv
<1>2. QED
  BY Invariance, <1>1, PTL

(* A kickoff with a result leaves none of its goroutines behind            *)
(* (crew.go:612-635).                                                      *)
THEOREM SuccessCollectsAll == Spec => []NoneAbandonedOnSuccess
<1>1. IInv => NoneAbandonedOnSuccess
  BY DEF IInv, CollectedClosed, NoneAbandonedOnSuccess
<1>2. QED
  BY Invariance, <1>1, PTL
=============================================================================
