-------------------------- MODULE CrewGraphProofs ---------------------------
(* Proofs about the graph process, for every finite set of tasks, every    *)
(* dependency relation on it, and any concurrency and cap.                 *)
EXTENDS CrewGraph, CrewProcesses, FiniteSetTheorems, TLAPS

Active == {t \in Tasks : worker[t] # "idle"}

(* Outside a round nothing is queued or at work, and an error ends it. *)
Quiet ==
    /\ main # "launch" => todo = {} /\ Active = {}
    /\ errCh # {} => main \in {"launch", "error"}

(* The tasks of a round have outputs to start from, and no two of them     *)
(* depend on each other: the heart of RunsAfterDeps.                       *)
RoundSound ==
    \A t \in todo \cup Active : \A d \in deps[t] :
        d \in done /\ d \notin todo /\ d \notin Active

(* A task marked processed that is not at work has its output, unless it   *)
(* failed.                                                                 *)
ProcessedDone ==
    \A t \in Tasks : processed[t] /\ t \notin Active /\ t \notin errCh => t \in done

IInv ==
    /\ GraphTypeOK
    /\ Quiet
    /\ RoundSound
    /\ ProcessedDone
    /\ main = "ok" => round = MaxCycles \/ allDone
    /\ CircularNeverRuns

(* The types are kept. *)
LEMMA TypeStep == GraphTypeOK /\ [GraphNext]_graphVars => GraphTypeOK'
<1> SUFFICES ASSUME GraphTypeOK, [GraphNext]_graphVars
             PROVE GraphTypeOK'
  OBVIOUS
<1> USE GraphAssumption DEF GraphTypeOK, Returned
<1>1. CASE Scan
  BY <1>1 DEF Scan, readyTasks, MoreRounds
<1>2. ASSUME NEW t \in Tasks, Launch(t)
      PROVE GraphTypeOK'
  BY <1>2 DEF Launch
<1>3. ASSUME NEW t \in Tasks, Acquire(t) \/ Fail(t)
      PROVE GraphTypeOK'
  BY <1>3 DEF Acquire, Fail
<1>4. ASSUME NEW t \in Tasks, NEW back \in SUBSET Tasks, Succeed(t, back)
      PROVE GraphTypeOK'
  BY <1>4 DEF Succeed
<1>5. CASE EndRound
  BY <1>5 DEF EndRound, AfterRound, NextRound
<1>6. CASE UNCHANGED graphVars
  BY <1>6 DEF graphVars
<1>7. QED
  BY <1>1, <1>2, <1>3, <1>4, <1>5, <1>6 DEF GraphNext, GraphMain, Work

(* Outside a round nothing is at work. *)
LEMMA QuietStep == GraphTypeOK /\ Quiet /\ [GraphNext]_graphVars => Quiet'
<1> SUFFICES ASSUME GraphTypeOK, Quiet, [GraphNext]_graphVars
             PROVE Quiet'
  OBVIOUS
<1> USE DEF GraphTypeOK, Quiet, Active
<1>1. CASE Scan
  BY <1>1 DEF Scan
<1>2. ASSUME NEW t \in Tasks, Launch(t)
      PROVE Quiet'
  BY <1>2 DEF Launch
<1>3. ASSUME NEW t \in Tasks, Acquire(t) \/ Fail(t)
      PROVE Quiet'
  BY <1>3 DEF Acquire, Fail
<1>4. ASSUME NEW t \in Tasks, NEW back \in SUBSET Tasks, Succeed(t, back)
      PROVE Quiet'
  BY <1>4 DEF Succeed
<1>5. CASE EndRound
  BY <1>5 DEF EndRound, AfterRound
<1>6. CASE UNCHANGED graphVars
  BY <1>6 DEF graphVars
<1>7. QED
  BY <1>1, <1>2, <1>3, <1>4, <1>5, <1>6 DEF GraphNext, GraphMain, Work

(* A round that is sound stays so, and a new one is sound because the      *)
(* processed tasks have their outputs.                                     *)
LEMMA RoundStep == GraphTypeOK /\ Quiet /\ RoundSound /\ ProcessedDone /\ [GraphNext]_graphVars => RoundSound'
<1> SUFFICES ASSUME GraphTypeOK, Quiet, RoundSound, ProcessedDone, [GraphNext]_graphVars
             PROVE RoundSound'
  OBVIOUS
<1> USE DEF GraphTypeOK, RoundSound, Active
<1>1. CASE Scan
  <2>1. Active = {} /\ Active' = {} /\ errCh = {} /\ deps' = deps /\ done' = done
    BY <1>1 DEF Scan, Quiet
  <2>2. CASE todo' = todo
    BY <1>1, <2>1, <2>2 DEF Quiet, Scan
  <2>3. CASE todo' = readyTasks
    <3>1. \A t \in readyTasks : \A d \in deps[t] : processed[d] /\ d \in Tasks
      BY DEF readyTasks, DepsMet
    <3>2. \A t \in readyTasks : \A d \in deps[t] : d \in done /\ d \notin readyTasks
      BY <2>1, <3>1 DEF ProcessedDone, readyTasks
    <3>3. QED
      BY <2>1, <2>3, <3>2
  <2>4. QED
    BY <1>1, <2>2, <2>3 DEF Scan
<1>2. ASSUME NEW t \in Tasks, Launch(t)
      PROVE RoundSound'
  BY <1>2 DEF Launch
<1>3. ASSUME NEW t \in Tasks, Acquire(t) \/ Fail(t)
      PROVE RoundSound'
  BY <1>3 DEF Acquire, Fail
<1>4. ASSUME NEW t \in Tasks, NEW back \in SUBSET Tasks, Succeed(t, back)
      PROVE RoundSound'
  BY <1>4 DEF Succeed
<1>5. CASE EndRound
  BY <1>5 DEF EndRound
<1>6. CASE UNCHANGED graphVars
  BY <1>6 DEF graphVars
<1>7. QED
  BY <1>1, <1>2, <1>3, <1>4, <1>5, <1>6 DEF GraphNext, GraphMain, Work

(* Launching, failing and succeeding keep processed and done in step. *)
LEMMA ProcessedStep == GraphTypeOK /\ ProcessedDone /\ [GraphNext]_graphVars => ProcessedDone'
<1> SUFFICES ASSUME GraphTypeOK, ProcessedDone, [GraphNext]_graphVars
             PROVE ProcessedDone'
  OBVIOUS
<1> USE DEF GraphTypeOK, ProcessedDone, Active
<1>1. CASE Scan \/ EndRound
  BY <1>1 DEF Scan, EndRound
<1>2. ASSUME NEW t \in Tasks, Launch(t)
      PROVE ProcessedDone'
  BY <1>2 DEF Launch
<1>3. ASSUME NEW t \in Tasks, Acquire(t) \/ Fail(t)
      PROVE ProcessedDone'
  BY <1>3 DEF Acquire, Fail
<1>4. ASSUME NEW t \in Tasks, NEW back \in SUBSET Tasks, Succeed(t, back)
      PROVE ProcessedDone'
  <2>1. \A x \in Tasks : processed'[x] => processed[x]
    BY <1>4, Zenon DEF Succeed
  <2>2. QED
    BY <1>4, <2>1 DEF Succeed
<1>5. CASE UNCHANGED graphVars
  BY <1>5 DEF graphVars
<1>6. QED
  BY <1>1, <1>2, <1>3, <1>4, <1>5 DEF GraphNext, GraphMain, Work

(* What an error-free return means stays true: nothing moves after it. *)
LEMMA ReturnStep ==
    GraphTypeOK /\ Quiet /\ (main = "ok" => round = MaxCycles \/ allDone) /\ [GraphNext]_graphVars
        => (main' = "ok" => round' = MaxCycles \/ allDone')
<1> SUFFICES ASSUME GraphTypeOK, Quiet, main = "ok" => round = MaxCycles \/ allDone, [GraphNext]_graphVars,
                    main' = "ok"
             PROVE round' = MaxCycles \/ allDone'
  OBVIOUS
<1>1. CASE Scan
  BY <1>1, GraphAssumption DEF Scan, MoreRounds, allDone, GraphTypeOK
<1>2. CASE EndRound
  BY <1>2 DEF EndRound, AfterRound
<1>3. ASSUME NEW t \in Tasks, Launch(t)
      PROVE FALSE
  BY <1>3 DEF Launch
<1>4. ASSUME NEW t \in Tasks, Work(t)
      PROVE FALSE
  <2>1. main = "ok"
    BY <1>4 DEF Work, Acquire, Fail, Succeed
  <2>2. worker[t] = "idle"
    BY <2>1 DEF Quiet, Active
  <2>3. QED
    BY <1>4, <2>2 DEF Work, Acquire, Fail, Succeed
<1>5. CASE UNCHANGED graphVars
  BY <1>5 DEF graphVars, allDone
<1>6. QED
  BY <1>1, <1>2, <1>3, <1>4, <1>5 DEF GraphNext, GraphMain

(* A task that waits for a circular set never becomes ready, and the       *)
(* unprocessed tasks of a stuck crew are such a set.                       *)
LEMMA CircularStep == GraphTypeOK /\ RoundSound /\ CircularNeverRuns /\ [GraphNext]_graphVars => CircularNeverRuns'
<1> SUFFICES ASSUME GraphTypeOK, RoundSound, CircularNeverRuns, [GraphNext]_graphVars
             PROVE CircularNeverRuns'
  OBVIOUS
<1> USE DEF GraphTypeOK
<1>1. deps' = deps
  BY DEF GraphNext, GraphMain, Work, Scan, EndRound, Launch, Acquire, Fail, Succeed, graphVars
<1>2. \A S \in SUBSET Tasks : Circular(S)' <=> Circular(S)
  BY <1>1 DEF Circular
<1>3. \A S \in SUBSET Tasks : Circular(S) => \A t \in S : t \notin todo
  BY DEF RoundSound, CircularNeverRuns, Circular
<1>4. \A S \in SUBSET Tasks : Circular(S)' => \A t \in S : worker'[t] = "idle" /\ t \notin done'
  <2> SUFFICES ASSUME NEW S \in SUBSET Tasks, Circular(S), NEW t \in S
               PROVE worker'[t] = "idle" /\ t \notin done'
    BY <1>2
  <2>1. worker[t] = "idle" /\ t \notin done /\ t \notin todo /\ t \in Tasks
    BY <1>3 DEF CircularNeverRuns
  <2>2. CASE Scan \/ EndRound \/ UNCHANGED graphVars
    BY <2>1, <2>2 DEF Scan, EndRound, graphVars
  <2>3. ASSUME NEW x \in Tasks, Launch(x)
        PROVE worker'[t] = "idle" /\ t \notin done'
    BY <2>1, <2>3 DEF Launch
  <2>4. ASSUME NEW x \in Tasks, Work(x)
        PROVE worker'[t] = "idle" /\ t \notin done'
    BY <2>1, <2>4 DEF Work, Acquire, Fail, Succeed
  <2>5. QED
    BY <2>2, <2>3, <2>4 DEF GraphNext, GraphMain
<1>5. main' = "stuck" => \E S \in SUBSET Tasks : Circular(S)'
  <2> SUFFICES ASSUME main' = "stuck"
               PROVE \E S \in SUBSET Tasks : Circular(S)
    BY <1>2
  <2>1. CASE Scan /\ ~allDone /\ readyTasks = {}
    <3> DEFINE S == {t \in Tasks : ~processed[t]}
    <3>1. S # {}
      BY <2>1 DEF allDone
    <3>2. \A t \in S : deps[t] \cap S # {}
      BY <2>1 DEF readyTasks, DepsMet
    <3>3. QED
      BY <3>1, <3>2 DEF Circular
  <2>2. CASE main = "stuck"
    BY <2>2 DEF CircularNeverRuns
  <2>3. main = "stuck" \/ (Scan /\ ~allDone /\ readyTasks = {})
    BY DEF GraphNext, GraphMain, Work, Scan, EndRound, AfterRound, Launch, Acquire, Fail, Succeed, graphVars
  <2>4. QED
    BY <2>1, <2>2, <2>3
<1>6. QED
  BY <1>4, <1>5 DEF CircularNeverRuns

(* The inductive invariant holds in every reachable state. *)
LEMMA Invariance == GraphSpec => []IInv
<1>1. GraphInit => IInv
  <2> SUFFICES ASSUME GraphInit PROVE IInv
    OBVIOUS
  <2> USE GraphAssumption DEF GraphInit
  <2>1. GraphTypeOK
    BY DEF GraphTypeOK, Returned
  <2>2. Active = {}
    BY DEF Active
  <2>3. Quiet /\ RoundSound /\ ProcessedDone
    BY <2>2 DEF Quiet, RoundSound, ProcessedDone
  <2>4. CircularNeverRuns
    BY DEF CircularNeverRuns
  <2>5. QED
    BY <2>1, <2>3, <2>4 DEF IInv
<1>2. IInv /\ [GraphNext]_graphVars => IInv'
  BY TypeStep, QuietStep, RoundStep, ProcessedStep, ReturnStep, CircularStep DEF IInv
<1>3. QED
  BY <1>1, <1>2, PTL DEF GraphSpec

(* The scheduler's state is well typed; the round counter respects the cap *)
(* (crew.go:994-999).                                                      *)
THEOREM TypeCorrect == GraphSpec => []GraphTypeOK
<1>1. IInv => GraphTypeOK
  BY DEF IInv
<1>2. QED
  BY Invariance, <1>1, PTL

(* On every graph a task starts from the outputs of all its dependencies,  *)
(* and never beside one of them (crew.go:999-1062).                        *)
THEOREM DependenciesFirst == GraphSpec => []RunsAfterDeps
<1>1. IInv => RunsAfterDeps
  BY DEF IInv, GraphTypeOK, RoundSound, Active, RunsAfterDeps
<1>2. QED
  BY Invariance, <1>1, PTL

(* An error-free return before the cap means that every task succeeded and *)
(* no feedback is pending (crew.go:1019-1021, 1064-1072).                  *)
THEOREM SuccessComplete == GraphSpec => []SuccessIsComplete
<1>1. IInv => SuccessIsComplete
  <2> SUFFICES ASSUME IInv, main = "ok", round < MaxCycles
               PROVE done = Tasks /\ allDone
    BY DEF SuccessIsComplete
  <2>1. allDone /\ errCh = {} /\ Active = {}
    BY GraphAssumption DEF IInv, GraphTypeOK, Quiet
  <2>2. QED
    BY <2>1 DEF IInv, GraphTypeOK, ProcessedDone, allDone
<1>2. QED
  BY Invariance, <1>1, PTL

(* The deadlock report is sound, and a circular part of the graph never    *)
(* starts (crew.go:1023-1025).                                             *)
THEOREM DeadlockReportSound == GraphSpec => []CircularNeverRuns
<1>1. IInv => CircularNeverRuns
  BY DEF IInv
<1>2. QED
  BY Invariance, <1>1, PTL

-----------------------------------------------------------------------------
(* The processes with workers, and the ones that go task by task.          *)

AtRest == {"none", "done", "err"}
Stages == AtRest \cup {"waiting", "running", "executing"}

ProcTypeOK ==
    /\ state \in [TaskIds -> {"absent", "pending", "ok", "failed"}]
    /\ job \in [Workers -> Stages]

(* Nobody works outside of a round, and a round is never over its limit.   *)
SlotsSound == WorkersContained /\ ProcTypeOK

(* The task t of the current round is done, under way, or has failed.      *)
InRound(t) ==
    \/ state[t] = "ok" /\ t \in results /\ job[t] \in {"none", "done"}
    \/ state[t] = "pending" /\ job[t] \in {"waiting", "running", "executing"}
    \/ job[t] = "err"

(* What a hierarchical kickoff has started so far.                         *)
StartedSound ==
    process = "hierarchical" =>
        /\ executed \subseteq TaskIds
        /\ phase \notin {"spawn", "execute", "review", "turn"}
        /\ phase \in {"round", "replan", "aggregate", "ok"} =>
               \A t \in executed : state[t] = "ok" /\ t \in results
        /\ phase = "wait" => /\ \A t \in executed : InRound(t)
                             /\ \A t \in Pending : job[t] \notin {"none", "done"}
        /\ phase \in {"replan", "aggregate", "ok"} => Pending = {}

ProcIInv == SlotsSound /\ StartedSound

(* What the assumption says of each constant.                              *)
LEMMA ProcConstants ==
    /\ IsFiniteSet(Workers) /\ TaskIds \subseteq Workers /\ Cap \in Nat /\ Cap > 0
    /\ NumTasks \in Nat /\ NumAgents \in Nat
<1>1. NumTasks \in Nat /\ NumAgents \in Nat /\ MaxReplans \in Nat /\ Iterations \in Nat /\ Cap \in Nat /\ Cap > 0
  BY ProcessesAssumption
<1>2. MaxReplans * Iterations \in Nat
  BY <1>1
<1>3. \A n, m, k \in Nat : n + m \in Nat /\ n + m + k \in Nat /\ 1..n + m \subseteq 1..n + m + k
  OBVIOUS
<1>4. NumTasks + MaxReplans * Iterations + NumAgents \in Nat /\ TaskIds \subseteq Workers
  BY <1>1, <1>2, <1>3 DEF TaskIds, Workers
<1>5. IsFiniteSet(1..NumTasks + MaxReplans * Iterations + NumAgents)
  BY <1>4, FS_Interval
<1>6. QED
  BY <1>1, <1>4, <1>5 DEF Workers

(* Fewer busy workers are within the limit as well.                        *)
LEMMA BusyShrinks ==
    ASSUME SlotsSound, Busy' \subseteq Busy
    PROVE  Cardinality(Busy') <= Cap
<1>1. IsFiniteSet(Busy) /\ Cardinality(Busy) <= Cap
  <2>1. Busy \subseteq Workers
    BY DEF Busy
  <2>2. QED
    BY <2>1, ProcConstants, FS_Subset DEF SlotsSound, WorkersContained
<1>2. IsFiniteSet(Busy') /\ Cardinality(Busy') <= Cardinality(Busy)
  BY <1>1, FS_Subset
<1>3. Cardinality(Busy) \in Nat /\ Cardinality(Busy') \in Nat /\ Cap \in Nat
  BY <1>1, <1>2, FS_CardinalityType, ProcConstants
<1>4. QED
  BY <1>1, <1>2, <1>3

(* A worker's step, one that takes no slot.                                *)
LEMMA WorkerMoves ==
    ASSUME SlotsSound, NEW k \in Workers, NEW s \in Stages, job' = [job EXCEPT ![k] = s],
           s = "running" \/ s = "executing" => job[k] \in {"running", "executing"}
    PROVE  /\ job' \in [Workers -> Stages] /\ job'[k] = s /\ \A i \in Workers \ {k} : job'[i] = job[i]
           /\ Cardinality(Busy') <= Cap
<1>1. job' \in [Workers -> Stages] /\ job'[k] = s /\ \A i \in Workers \ {k} : job'[i] = job[i]
  BY DEF SlotsSound, ProcTypeOK
<1>2. Busy' \subseteq Busy
  BY <1>1 DEF Busy
<1>3. QED
  BY <1>1, <1>2, BusyShrinks

(* A worker starts when the semaphore has room.                            *)
LEMMA AcquireSlotSound ==
    ASSUME ProcIInv, NEW k \in Workers, phase # "panic", AcquireSlot(k)
    PROVE  ProcIInv'
<1> DEFINE s == IF process = "hierarchical" THEN "running" ELSE "executing"
<1>0. SlotsSound /\ StartedSound /\ job \in [Workers -> Stages]
  BY DEF ProcIInv, SlotsSound, ProcTypeOK
<1>1. /\ job[k] = "waiting" /\ SlotFree /\ job' = [job EXCEPT ![k] = s]
      /\ process' = process /\ phase' = phase /\ state' = state /\ results' = results /\ executed' = executed
  BY DEF AcquireSlot
<1>2. job' \in [Workers -> Stages] /\ job'[k] = s /\ \A i \in Workers \ {k} : job'[i] = job[i]
  BY <1>0, <1>1 DEF Stages, AtRest
<1>3. s \in {"running", "executing"}
  OBVIOUS
<1> HIDE DEF s
<1>4. phase = "wait"
  BY <1>0, <1>1 DEF SlotsSound, WorkersContained
<1>5. Cardinality(Busy') <= Cap
  <2>1. Busy' = Busy \cup {k} /\ k \notin Busy /\ Busy \subseteq Workers
    BY <1>1, <1>2, <1>3 DEF Busy
  <2>2. IsFiniteSet(Busy)
    BY <2>1, ProcConstants, FS_Subset
  <2>3. Cardinality(Busy') = Cardinality(Busy) + 1 /\ Cardinality(Busy) \in Nat
    BY <2>1, <2>2, FS_AddElement, FS_CardinalityType
  <2>4. Cardinality(Busy) < Cap
    BY <1>1 DEF SlotFree
  <2>5. QED
    BY <2>3, <2>4, ProcConstants
<1>6. SlotsSound'
  <2>1. WorkersContained'
    BY <1>1, <1>4, <1>5 DEF WorkersContained
  <2>2. ProcTypeOK'
    BY <1>0, <1>1, <1>2 DEF SlotsSound, ProcTypeOK
  <2>3. QED
    BY <2>1, <2>2 DEF SlotsSound
<1>7. StartedSound'
  <2>1. SUFFICES ASSUME process = "hierarchical" PROVE StartedSound'
    BY <1>1 DEF StartedSound
  <2>2. /\ executed \subseteq TaskIds /\ \A t \in executed : InRound(t)
        /\ \A t \in Pending : job[t] \notin {"none", "done"}
    BY <1>0, <1>4, <2>1 DEF StartedSound
  <2>3. \A t \in executed : InRound(t)'
    BY <1>1, <1>2, <1>3, <2>2, ProcConstants DEF InRound
  <2>4. Pending' = Pending /\ \A t \in Pending : job'[t] \notin {"none", "done"}
    BY <1>1, <1>2, <1>3, <2>2, ProcConstants DEF Pending
  <2>5. QED
    BY <1>1, <1>4, <2>2, <2>3, <2>4 DEF StartedSound
<1>8. QED
  BY <1>6, <1>7 DEF ProcIInv

(* The other steps of a worker: it gives up, executes, fails or succeeds.  *)
LEMMA WorkerSound ==
    ASSUME ProcIInv, NEW k \in Workers, phase = "wait", phase' \in {"wait", "panic"},
           process' = process, executed' = executed,
           job[k] \in {"running", "executing"}, NEW s \in {"running", "executing", "done", "err"},
           job' = [job EXCEPT ![k] = s],
           \/ state' = state /\ results' = results
           \/ state' = [state EXCEPT ![k] = "failed"] /\ results' = results
           \/ state' = [state EXCEPT ![k] = "ok"] /\ results' = results \cup {k}
           \/ state' = state /\ results' = results \cup {k} /\ process # "hierarchical",
           process = "hierarchical" =>
               \/ s \in {"running", "executing"} /\ state' = state
               \/ s = "err"
               \/ s = "done" /\ state' = [state EXCEPT ![k] = "ok"] /\ results' = results \cup {k}
    PROVE  ProcIInv'
<1>0. SlotsSound /\ StartedSound /\ state \in [TaskIds -> {"absent", "pending", "ok", "failed"}]
  BY DEF ProcIInv, SlotsSound, ProcTypeOK
<1>1. s \in Stages
  BY DEF Stages, AtRest
<1>2. /\ job' \in [Workers -> Stages] /\ job'[k] = s /\ \A i \in Workers \ {k} : job'[i] = job[i]
      /\ Cardinality(Busy') <= Cap
  BY <1>0, <1>1, WorkerMoves
<1>3. /\ state' \in [TaskIds -> {"absent", "pending", "ok", "failed"}]
      /\ \A t \in TaskIds \ {k} : state'[t] = state[t]
      /\ results \subseteq results'
  BY <1>0
<1>4. SlotsSound'
  <2>1. WorkersContained'
    BY <1>2 DEF WorkersContained
  <2>2. ProcTypeOK'
    BY <1>2, <1>3 DEF ProcTypeOK
  <2>3. QED
    BY <2>1, <2>2 DEF SlotsSound
<1>5. StartedSound'
  <2>1. SUFFICES ASSUME process = "hierarchical" PROVE StartedSound'
    BY DEF StartedSound
  <2>2. /\ executed \subseteq TaskIds /\ \A t \in executed : InRound(t)
        /\ \A t \in Pending : job[t] \notin {"none", "done"}
    BY <1>0, <2>1 DEF StartedSound
  <2>3. ASSUME NEW t \in executed PROVE InRound(t)'
    <3>1. t \in TaskIds /\ t \in Workers /\ InRound(t)
      BY <2>2, ProcConstants
    <3>2. CASE t # k
      BY <1>2, <1>3, <3>1, <3>2 DEF InRound
    <3>3. CASE t = k
      <4>1. job'[k] = s /\ state[k] = "pending"
        BY <1>2, <3>1, <3>3 DEF InRound
      <4>2. CASE s = "err"
        BY <3>3, <4>1, <4>2 DEF InRound
      <4>3. CASE s \in {"running", "executing"} /\ state' = state
        BY <3>3, <4>1, <4>3 DEF InRound
      <4>4. CASE s = "done" /\ state' = [state EXCEPT ![k] = "ok"] /\ results' = results \cup {k}
        <5>1. state'[k] = "ok" /\ k \in results'
          BY <1>0, <3>1, <3>3, <4>4
        <5>2. QED
          BY <3>3, <4>1, <4>4, <5>1 DEF InRound
      <4>5. QED
        BY <2>1, <4>2, <4>3, <4>4
    <3>4. QED
      BY <3>2, <3>3
  <2>4. ASSUME NEW t \in Pending' PROVE job'[t] \notin {"none", "done"}
    <3>1. t \in TaskIds /\ t \in Workers /\ state'[t] = "pending"
      BY ProcConstants DEF Pending
    <3>2. CASE t # k
      <4>1. t \in Pending
        BY <1>3, <3>1, <3>2 DEF Pending
      <4>2. QED
        BY <1>2, <2>2, <3>1, <3>2, <4>1
    <3>3. CASE t = k
      <4>1. CASE s = "done" /\ state' = [state EXCEPT ![k] = "ok"]
        BY <1>0, <3>1, <3>3, <4>1
      <4>2. CASE s \in {"running", "executing", "err"}
        BY <1>2, <3>3, <4>2
      <4>3. QED
        BY <2>1, <4>1, <4>2
    <3>4. QED
      BY <3>2, <3>3
  <2>5. QED
    BY <2>2, <2>3, <2>4 DEF StartedSound
<1>6. QED
  BY <1>4, <1>5 DEF ProcIInv

(* Every step of a worker.                                                 *)
LEMMA ProcWorkSound ==
    ASSUME ProcIInv, phase # "panic", NEW k \in Workers, ProcWork(k)
    PROVE  ProcIInv'
<1>1. CASE AcquireSlot(k)
  BY <1>1, AcquireSlotSound
<1>2. CASE DelegateTask(k) \/ WorkerFails(k) \/ WorkerSucceeds(k)
  <2>1. job[k] \in {"running", "executing"} /\ process' = process /\ executed' = executed
    BY <1>2 DEF DelegateTask, WorkerFails, WorkerSucceeds
  <2>2. phase = "wait"
    BY <2>1 DEF ProcIInv, SlotsSound, WorkersContained
  <2>3. CASE DelegateTask(k)
    <3>1. state' = state /\ results' = results
      BY <2>3 DEF DelegateTask
    <3>2. CASE phase' = phase /\ job' = [job EXCEPT ![k] = "err"]
      BY <2>1, <2>2, <3>1, <3>2, WorkerSound
    <3>3. CASE phase' = phase /\ job' = [job EXCEPT ![k] = "executing"]
      BY <2>1, <2>2, <3>1, <3>3, WorkerSound
    <3>4. CASE phase' = "panic" /\ job' = job
      <4>1. job' = [job EXCEPT ![k] = job[k]]
        BY <3>4 DEF ProcIInv, SlotsSound, ProcTypeOK
      <4>2. QED
        BY <2>1, <2>2, <3>1, <3>4, <4>1, WorkerSound
    <3>5. QED
      BY <2>3, <3>2, <3>3, <3>4, Zenon DEF DelegateTask
  <2>4. CASE WorkerFails(k)
    <3>1. /\ job' = [job EXCEPT ![k] = "err"] /\ phase' = phase /\ results' = results
          /\ state' = IF process = "hierarchical" THEN [state EXCEPT ![k] = "failed"] ELSE state
      BY <2>4 DEF WorkerFails, Error
    <3>2. QED
      BY <2>1, <2>2, <3>1, WorkerSound
  <2>5. CASE WorkerSucceeds(k)
    <3>1. /\ job' = [job EXCEPT ![k] = "done"] /\ phase' = phase /\ results' = results \cup {k}
          /\ state' = IF process = "hierarchical" THEN [state EXCEPT ![k] = "ok"] ELSE state
      BY <2>5 DEF WorkerSucceeds
    <3>2. QED
      BY <2>1, <2>2, <3>1, WorkerSound
  <2>6. QED
    BY <1>2, <2>3, <2>4, <2>5
<1>3. QED
  BY <1>1, <1>2 DEF ProcWork

(* The start of a round: nobody holds a slot yet.                          *)
LEMMA SpawnSound ==
    ASSUME SlotsSound, NEW S \in SUBSET Workers,
           job' = [k \in Workers |-> IF k \in S THEN "waiting" ELSE "none"], state' = state, phase' = "wait"
    PROVE  SlotsSound'
<1>1. job' \in [Workers -> Stages] /\ \A k \in Workers : job'[k] \in {"waiting", "none"}
  BY DEF Stages, AtRest
<1>2. Busy' = {}
  BY <1>1 DEF Busy
<1>3. Cardinality(Busy') = 0
  BY <1>2, FS_EmptySet
<1>4. WorkersContained'
  BY <1>3, ProcConstants DEF WorkersContained
<1>5. QED
  BY <1>1, <1>4 DEF SlotsSound, ProcTypeOK

(* A step of the main goroutine while nobody works.                        *)
LEMMA MainSlots ==
    ASSUME SlotsSound, phase \notin {"wait", "panic"} \/ \A k \in Workers : job[k] \in AtRest, job' = job,
           state' \in [TaskIds -> {"absent", "pending", "ok", "failed"}]
    PROVE  SlotsSound'
<1>1. \A k \in Workers : job[k] \in AtRest
  BY DEF SlotsSound, WorkersContained, AtRest
<1>2. Busy' = Busy
  BY DEF Busy
<1>3. WorkersContained'
  BY <1>1, <1>2 DEF SlotsSound, WorkersContained, AtRest
<1>4. QED
  BY <1>3 DEF SlotsSound, ProcTypeOK

(* A round starts every task that is pending.                              *)
LEMMA RoundKeeps ==
    ASSUME ProcIInv, Round
    PROVE  ProcIInv'
<1>0. SlotsSound /\ StartedSound /\ job \in [Workers -> Stages]
      /\ state \in [TaskIds -> {"absent", "pending", "ok", "failed"}]
  BY DEF ProcIInv, SlotsSound, ProcTypeOK
<1>1. phase = "round" /\ process' = process /\ state' = state /\ results' = results /\ Pending' = Pending
  BY DEF Round, Pending
<1>2. CASE Pending = {} /\ phase' = "aggregate" /\ job' = job /\ executed' = executed
  <2>1. SlotsSound'
    BY <1>0, <1>1, <1>2, MainSlots
  <2>2. StartedSound'
    BY <1>0, <1>1, <1>2 DEF StartedSound
  <2>3. QED
    BY <2>1, <2>2 DEF ProcIInv
<1>3. CASE /\ job' = [k \in Workers |-> IF k \in Pending THEN "waiting" ELSE "none"]
           /\ executed' = executed \cup Pending /\ phase' = "wait"
  <2>1. Pending \subseteq TaskIds /\ Pending \subseteq Workers
    BY ProcConstants DEF Pending
  <2>2. SlotsSound'
    BY <1>0, <1>1, <1>3, <2>1, SpawnSound
  <2>3. ASSUME process = "hierarchical" PROVE StartedSound'
    <3>1. executed \subseteq TaskIds /\ \A t \in executed : state[t] = "ok" /\ t \in results
      BY <1>0, <1>1, <2>3 DEF StartedSound
    <3>2. \A t \in TaskIds : job'[t] = IF t \in Pending THEN "waiting" ELSE "none"
      BY <1>3, ProcConstants
    <3>3. ASSUME NEW t \in executed' PROVE InRound(t)'
      <4>1. CASE t \in Pending
        BY <1>1, <2>1, <3>2, <4>1 DEF InRound, Pending
      <4>2. CASE t \in executed /\ t \notin Pending
        BY <1>1, <3>1, <3>2, <4>2 DEF InRound
      <4>3. QED
        BY <1>3, <4>1, <4>2
    <3>4. \A t \in Pending' : job'[t] \notin {"none", "done"}
      BY <1>1, <2>1, <3>2
    <3>5. executed' \subseteq TaskIds
      BY <1>3, <2>1, <3>1
    <3>6. QED
      BY <1>3, <3>3, <3>4, <3>5 DEF StartedSound
  <2>4. QED
    BY <1>1, <2>2, <2>3 DEF ProcIInv, StartedSound
<1>4. QED
  BY <1>2, <1>3 DEF Round

(* A round without an error has finished everything it started.            *)
LEMMA JoinSound ==
    ASSUME ProcIInv, Join
    PROVE  ProcIInv'
<1>0. SlotsSound /\ StartedSound /\ state \in [TaskIds -> {"absent", "pending", "ok", "failed"}]
  BY DEF ProcIInv, SlotsSound, ProcTypeOK
<1>1. /\ phase = "wait" /\ \A k \in Workers : job[k] \in {"none", "done", "err"}
      /\ process' = process /\ state' = state /\ job' = job /\ results' = results /\ executed' = executed
      /\ phase' = IF \E k \in Workers : job[k] = "err" THEN "error"
                  ELSE IF process = "hierarchical" THEN "replan" ELSE "aggregate"
  BY DEF Join, roundVars
<1>2. SlotsSound'
  BY <1>0, <1>1, MainSlots DEF AtRest
<1>3. CASE \E k \in Workers : job[k] = "err"
  BY <1>0, <1>1, <1>2, <1>3 DEF StartedSound, ProcIInv
<1>4. CASE \A k \in Workers : job[k] # "err"
  <2>1. ASSUME process = "hierarchical" PROVE StartedSound'
    <3>1. /\ executed \subseteq TaskIds /\ \A t \in executed : InRound(t)
          /\ \A t \in Pending : job[t] \notin {"none", "done"}
      BY <1>0, <1>1, <2>1 DEF StartedSound
    <3>2. \A t \in TaskIds : job[t] \in {"none", "done"}
      BY <1>1, <1>4, ProcConstants
    <3>3. \A t \in executed : state[t] = "ok" /\ t \in results
      BY <3>1, <3>2 DEF InRound
    <3>4. Pending = {} /\ Pending' = Pending
      BY <1>1, <3>1, <3>2 DEF Pending
    <3>5. phase' = "replan"
      BY <1>1, <1>4, <2>1
    <3>6. QED
      BY <1>1, <3>1, <3>3, <3>4, <3>5 DEF StartedSound
  <2>2. QED
    BY <1>1, <1>2, <2>1 DEF ProcIInv, StartedSound
<1>5. QED
  BY <1>3, <1>4

(* A replan adds tasks and takes none away.                                *)
LEMMA ReplanSound ==
    ASSUME ProcIInv, Replan
    PROVE  ProcIInv'
<1>0. SlotsSound /\ StartedSound /\ state \in [TaskIds -> {"absent", "pending", "ok", "failed"}]
  BY DEF ProcIInv, SlotsSound, ProcTypeOK
<1>1. phase = "replan" /\ process' = process /\ job' = job /\ results' = results /\ executed' = executed
  BY DEF Replan
<1>2. CASE phase' = "aggregate" /\ state' = state
  <2>1. SlotsSound'
    BY <1>0, <1>1, <1>2, MainSlots
  <2>2. Pending' = Pending
    BY <1>2 DEF Pending
  <2>3. QED
    BY <1>0, <1>1, <1>2, <2>1, <2>2 DEF ProcIInv, StartedSound
<1>3. CASE /\ phase' = "round"
           /\ \E t \in TaskIds : state[t] = "absent" /\ state' = [state EXCEPT ![t] = "pending"]
  <2>1. PICK t \in TaskIds : state[t] = "absent" /\ state' = [state EXCEPT ![t] = "pending"]
    BY <1>3
  <2>2. state' \in [TaskIds -> {"absent", "pending", "ok", "failed"}]
        /\ \A u \in TaskIds : state[u] = "ok" => state'[u] = "ok"
    BY <1>0, <2>1
  <2>3. SlotsSound'
    BY <1>0, <1>1, <2>2, MainSlots
  <2>4. QED
    BY <1>0, <1>1, <1>3, <2>2, <2>3 DEF ProcIInv, StartedSound
<1>4. QED
  BY <1>2, <1>3 DEF Replan

(* Reflective and state machine: their tasks change, nobody works.         *)
LEMMA OneByOneSound ==
    ASSUME ProcIInv, ExecuteReflective \/ Review \/ Turn
    PROVE  ProcIInv'
<1>0. SlotsSound /\ StartedSound /\ state \in [TaskIds -> {"absent", "pending", "ok", "failed"}]
  BY DEF ProcIInv, SlotsSound, ProcTypeOK
<1>1. phase \in {"execute", "review", "turn"} /\ process' = process /\ job' = job
  BY DEF ExecuteReflective, Review, Turn, roundVars
<1>2. state' \in [TaskIds -> {"absent", "pending", "ok", "failed"}]
  <2>1. state' = state \/ state' = [state EXCEPT ![cur] = "ok"]
    BY DEF ExecuteReflective, Review, Turn, roundVars
  <2>2. QED
    BY <1>0, <2>1
<1>3. SlotsSound'
  BY <1>0, <1>1, <1>2, MainSlots
<1>4. QED
  BY <1>0, <1>1, <1>3 DEF ProcIInv, StartedSound

(* The steps around the rounds.                                            *)
LEMMA OtherProcSteps ==
    ASSUME ProcIInv,
           RunPlanningPhase \/ ProcKickoff \/ Spawn \/ Aggregate \/ Consolidate \/ Train
           \/ ProcCancel \/ UNCHANGED procVars
    PROVE  ProcIInv'
<1>0. SlotsSound /\ StartedSound /\ state \in [TaskIds -> {"absent", "pending", "ok", "failed"}]
  BY DEF ProcIInv, SlotsSound, ProcTypeOK
<1>1. CASE RunPlanningPhase \/ Train
  <2>1. /\ phase \in {"kickoff", "ok"} /\ phase' \in {"switch", "error", "kickoff"} /\ process' = process
        /\ job' = job /\ state' = state /\ executed' = executed
    BY <1>1 DEF RunPlanningPhase, Train, GeneratePlan, roundVars
  <2>2. SlotsSound'
    BY <1>0, <2>1, MainSlots
  <2>3. QED
    BY <1>0, <2>1, <2>2 DEF ProcIInv, StartedSound
<1>2. CASE ProcKickoff
  <2>1. /\ phase = "switch" /\ process' = process /\ job' = job /\ state' = state /\ executed' = {}
        /\ process = "hierarchical" => phase' = "round"
    BY <1>2 DEF ProcKickoff
  <2>2. SlotsSound'
    BY <1>0, <2>1, MainSlots
  <2>3. QED
    BY <1>0, <2>1, <2>2 DEF ProcIInv, StartedSound
<1>3. CASE Spawn
  <2> DEFINE S == {k \in Workers : k <= NumAgents}
  <2>1. phase = "spawn" /\ process' = process /\ state' = state /\ phase' = "wait"
        /\ job' = [k \in Workers |-> IF k \in S THEN "waiting" ELSE "none"]
    BY <1>3 DEF Spawn
  <2>2. S \in SUBSET Workers
    OBVIOUS
  <2> HIDE DEF S
  <2>3. SlotsSound'
    BY <1>0, <2>1, <2>2, SpawnSound
  <2>4. QED
    BY <1>0, <2>1, <2>3 DEF ProcIInv, StartedSound
<1>4. CASE Aggregate \/ Consolidate
  <2>1. /\ phase = "aggregate" /\ process' = process /\ job' = job /\ state' = state /\ executed' = executed
        /\ results' = results /\ phase' \in {"ok", "error"} /\ Pending' = Pending
    BY <1>4 DEF Aggregate, Consolidate, roundVars, Pending
  <2>2. SlotsSound'
    BY <1>0, <2>1, MainSlots
  <2>3. QED
    BY <1>0, <2>1, <2>2 DEF ProcIInv, StartedSound
<1>5. CASE ProcCancel \/ UNCHANGED procVars
  <2>1. /\ phase' = phase /\ process' = process /\ job' = job /\ state' = state /\ executed' = executed
        /\ results' = results /\ Pending' = Pending /\ Busy' = Busy
    BY <1>5 DEF ProcCancel, procVars, roundVars, Pending, Busy
  <2>2. SlotsSound'
    BY <1>0, <2>1 DEF SlotsSound, ProcTypeOK, WorkersContained
  <2>3. StartedSound'
    BY <1>0, <2>1 DEF StartedSound, InRound
  <2>4. QED
    BY <2>2, <2>3 DEF ProcIInv
<1>6. QED
  BY <1>1, <1>2, <1>3, <1>4, <1>5

(* Slots and started tasks are sound in every reachable state.             *)
LEMMA ProcInductive == ProcSpec => []ProcIInv
<1>1. ProcInit => ProcIInv
  <2>1. SUFFICES ASSUME ProcInit PROVE ProcIInv
    OBVIOUS
  <2>2. /\ phase = "kickoff" /\ job = [k \in Workers |-> "none"] /\ executed = {}
        /\ \E s \in [1..NumTasks -> {"pending", "ok", "failed"}] :
              state = [t \in TaskIds |-> IF t <= NumTasks THEN s[t] ELSE "absent"]
    BY <2>1, Zenon DEF ProcInit
  <2>3. state \in [TaskIds -> {"absent", "pending", "ok", "failed"}]
    <3>1. PICK s \in [1..NumTasks -> {"pending", "ok", "failed"}] :
             state = [t \in TaskIds |-> IF t <= NumTasks THEN s[t] ELSE "absent"]
      BY <2>2
    <3>2. \A t \in TaskIds : t \in Nat /\ t >= 1
      <4>1. NumTasks \in Nat /\ MaxReplans * Iterations \in Nat
        BY ProcessesAssumption
      <4>2. QED
        BY <4>1 DEF TaskIds
    <3>3. \A t \in TaskIds : t <= NumTasks => t \in 1..NumTasks
      BY <3>2, ProcConstants
    <3>4. \A t \in TaskIds : (IF t <= NumTasks THEN s[t] ELSE "absent") \in {"absent", "pending", "ok", "failed"}
      BY <3>3
    <3>5. QED
      BY <3>1, <3>4
  <2>4. ProcTypeOK /\ Busy = {} /\ \A k \in Workers : job[k] \in {"none", "done", "err"}
    BY <2>2, <2>3 DEF ProcTypeOK, Busy, Stages, AtRest
  <2>5. Cardinality(Busy) = 0
    BY <2>4, FS_EmptySet
  <2>6. WorkersContained
    BY <2>4, <2>5, ProcConstants DEF WorkersContained
  <2>7. StartedSound
    BY <2>2 DEF StartedSound
  <2>8. QED
    BY <2>4, <2>6, <2>7 DEF ProcIInv, SlotsSound
<1>2. ProcIInv /\ [ProcNext]_procVars => ProcIInv'
  BY ProcWorkSound, RoundKeeps, JoinSound, ReplanSound, OneByOneSound, OtherProcSteps DEF ProcNext, ProcMain
<1>3. QED
  BY <1>1, <1>2, PTL DEF ProcSpec

(* A hierarchical kickoff that returns without an error has a result of    *)
(* every task it started, the ones a replan added among them, for any      *)
(* number of tasks and replans (crew.go executeHierarchical).              *)
THEOREM HierarchicalCompletes == ProcSpec => []HierarchicalComplete
<1>1. ProcIInv => HierarchicalComplete
  BY DEF ProcIInv, StartedSound, HierarchicalComplete
<1>2. QED
  BY <1>1, ProcInductive, PTL

(* No round runs more workers than its limit at once, and none is left     *)
(* running once the kickoff has gone on, for any number of tasks and       *)
(* agents and any limit (crew.go executeHierarchical, executeConsensual).  *)
THEOREM WorkersAreContained == ProcSpec => []WorkersContained
<1>1. ProcIInv => WorkersContained
  BY DEF ProcIInv, SlotsSound
<1>2. QED
  BY <1>1, ProcInductive, PTL
=============================================================================
