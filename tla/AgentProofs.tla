---------------------------- MODULE AgentProofs -----------------------------
(* Proofs about a task and the agent that executes it, for any number of   *)
(* retries, iterations, tools and reviews.                                 *)
EXTENDS AgentTask, TLAPS

-----------------------------------------------------------------------------
(* Guardrails and step reviews.                                            *)

(* An answer the guardrails of an agent with a model have accepted.        *)
Vetted(v) == v \in Answer /\ (cfg.llm => v.agentOk)

(* What the agent has returned, stored and is looking at.                  *)
AnswersVetted ==
    /\ memory = NoAnswer \/ memory.agentOk
    /\ ret = NoAnswer \/ ret = Err \/ Vetted(ret)
    /\ resp = NoAnswer \/ resp = ToolCall \/ resp = UnknownTool \/ resp \in Answer

(* The task's own place in between: what is saved has passed both.         *)
ResultVetted ==
    /\ tpc \in {"guard", "save"} => Vetted(result)
    /\ tpc = "save" => result.taskOk

OutputVetted ==
    task.processed => task.output = HumanText \/ (task.output.taskOk /\ (cfg.llm => task.output.agentOk))

GuardIInv == AnswersVetted /\ ResultVetted /\ OutputVetted

(* An answer is no error and no tool call.                                 *)
LEMMA AnswerKinds ==
    /\ \A v \in Answer : v.kind = "answer" /\ v # NoAnswer /\ v # Err /\ v # ToolCall /\ v # UnknownTool
    /\ NoAnswer.kind # "answer" /\ Err.kind # "answer" /\ ToolCall.kind # "answer" /\ UnknownTool.kind # "answer"
    /\ NoAnswer # Err
<1>1. \A v \in Answer : v.kind = "answer"
  BY DEF Answer
<1>2. NoAnswer.kind = "none" /\ Err.kind = "error" /\ ToolCall.kind = "tool" /\ UnknownTool.kind = "unknown tool"
  BY DEF NoAnswer, Err, ToolCall, UnknownTool
<1>3. QED
  BY <1>1, <1>2

(* The task waits while the agent is at work.                              *)
LEMMA AgentKeepsTask ==
    ASSUME GuardIInv, UNCHANGED taskVars, cfg' = cfg
    PROVE  ResultVetted' /\ OutputVetted'
<1>1. tpc' = tpc /\ result' = result /\ task' = task
  BY DEF taskVars
<1>2. QED
  BY <1>1, Zenon DEF GuardIInv, ResultVetted, OutputVetted, Vetted

(* Agent.Execute starts over with no response, or returns an error.        *)
LEMMA StartSound ==
    ASSUME GuardIInv, Start
    PROVE  GuardIInv'
<1>0. AnswersVetted /\ cfg' = cfg /\ memory' = memory /\ UNCHANGED taskVars
  BY Zenon DEF GuardIInv, Start
<1>1. CASE AgentReturns(Err)
  <2>1. ret' = Err /\ resp' = NoAnswer
    BY <1>1 DEF AgentReturns
  <2>2. QED
    BY <1>0, <2>1, AgentKeepsTask, Zenon DEF AnswersVetted, GuardIInv
<1>2. CASE ~cfg.llm /\ \E v \in {w \in Answer : w.str} : AgentReturns(v)
  <2>1. ~cfg.llm /\ ret' \in Answer /\ resp' = NoAnswer
    BY <1>2, Zenon DEF AgentReturns
  <2>2. Vetted(ret)'
    BY <1>0, <2>1, Zenon DEF Vetted
  <2>3. QED
    BY <1>0, <2>1, <2>2, AgentKeepsTask, Zenon DEF AnswersVetted, GuardIInv
<1>3. CASE ret' = ret /\ resp' = resp
  BY <1>0, <1>3, AgentKeepsTask, Zenon DEF AnswersVetted, GuardIInv, Vetted
<1>4. QED
  BY <1>1, <1>2, <1>3, Zenon DEF Start

(* What the model returns is only a response, not yet returned or stored.  *)
LEMMA GenerateSound ==
    ASSUME GuardIInv, GenerateStructured \/ Generate
    PROVE  GuardIInv'
<1>0. AnswersVetted /\ cfg' = cfg /\ memory' = memory /\ UNCHANGED taskVars
  BY Zenon DEF GuardIInv, GenerateStructured, Generate
<1>1. CASE AgentReturns(Err)
  <2>1. ret' = Err /\ resp' = NoAnswer
    BY <1>1 DEF AgentReturns
  <2>2. QED
    BY <1>0, <2>1, AgentKeepsTask, Zenon DEF AnswersVetted, GuardIInv
<1>2. ASSUME NEW v \in Answer, AgentReturns(IF v.agentOk THEN v ELSE Err) PROVE GuardIInv'
  <2>1. resp' = NoAnswer /\ ret' = IF v.agentOk THEN v ELSE Err
    BY <1>2, Zenon DEF AgentReturns
  <2>2. ret' = Err \/ Vetted(ret)'
    BY <1>0, <2>1, Zenon DEF Vetted
  <2>3. QED
    BY <1>0, <2>1, <2>2, AgentKeepsTask, Zenon DEF AnswersVetted, GuardIInv
<1>3. CASE resp' \in {ToolCall, UnknownTool} \cup Text /\ ret' = ret
  <2>1. resp' = ToolCall \/ resp' = UnknownTool \/ resp' \in Answer
    BY <1>3, Zenon DEF Text
  <2>2. QED
    BY <1>0, <1>3, <2>1, AgentKeepsTask, Zenon DEF AnswersVetted, GuardIInv, Vetted
<1>4. QED
  BY <1>1, <1>2, <1>3, Zenon DEF GenerateStructured, Generate

(* The steps of the loop that return no answer and store none.             *)
LEMMA LoopSound ==
    ASSUME GuardIInv, cfg' = cfg, memory' = memory, UNCHANGED taskVars,
           resp' = resp \/ resp' = NoAnswer, ret' = ret \/ ret' = Err
    PROVE  GuardIInv'
BY AgentKeepsTask, Zenon DEF AnswersVetted, GuardIInv, Vetted

(* The loop returns a response that its guardrails accepted, or the agent  *)
(* starts over with the critique of it.                                    *)
LEMMA FinalSound ==
    ASSUME GuardIInv, Accept \/ Criticise
    PROVE  GuardIInv'
<1> DEFINE saved == [kind |-> "answer", agentOk |-> resp.agentOk]
<1>0. /\ AnswersVetted /\ cfg' = cfg /\ UNCHANGED taskVars /\ resp.kind = "answer" /\ resp.agentOk
      /\ memory' = memory \/ memory' = saved
  BY Zenon DEF GuardIInv, Accept, Criticise, Final, IsAnswer, Accepted, SaveMemory
<1>a. saved.agentOk
  BY <1>0
<1> HIDE DEF saved
<1>1. resp \in Answer
  BY <1>0, AnswerKinds, Zenon DEF AnswersVetted
<1>2. resp' = NoAnswer /\ (ret' = NoAnswer \/ ret' = resp)
  BY Zenon DEF Accept, Criticise, AgentReturns, CallAgent
<1>3. ret' = NoAnswer \/ Vetted(ret)'
  BY <1>0, <1>1, <1>2, Zenon DEF Vetted
<1>4. memory' = NoAnswer \/ memory'.agentOk
  BY <1>0, <1>a, Zenon DEF AnswersVetted
<1>5. QED
  BY <1>0, <1>2, <1>3, <1>4, AgentKeepsTask, Zenon DEF AnswersVetted, GuardIInv

(* Every step of the agent stores and returns only vetted answers.         *)
LEMMA AgentStepSound ==
    ASSUME GuardIInv, AgentStep
    PROVE  GuardIInv'
<1>1. CASE RecallMemory \/ RunReasoningLoop
  <2>1. cfg' = cfg /\ memory' = memory /\ UNCHANGED taskVars /\ resp' = resp /\ ret' = ret
    BY <1>1, Zenon DEF RecallMemory, RunReasoningLoop
  <2>2. QED
    BY <2>1, LoopSound
<1>2. CASE Loop
  <2>1. cfg' = cfg /\ memory' = memory /\ UNCHANGED taskVars /\ (resp' = resp \/ resp' = NoAnswer)
        /\ (ret' = ret \/ ret' = Err)
    BY <1>2, Zenon DEF Loop, AgentReturns
  <2>2. QED
    BY <2>1, LoopSound
<1>3. CASE Hallucinated \/ ToolStep \/ RequestReview \/ Decided \/ Reject
  <2>1. cfg' = cfg /\ memory' = memory /\ UNCHANGED taskVars
    BY <1>3, Zenon DEF Hallucinated, ToolStep, RequestReview, Decided, Reject
  <2>2. (resp' = resp \/ resp' = NoAnswer) /\ (ret' = ret \/ ret' = Err)
    BY <1>3, Zenon DEF Hallucinated, ToolStep, RequestReview, Decided, Reject, RunTool, Continue, AgentReturns
  <2>3. QED
    BY <2>1, <2>2, LoopSound
<1>4. QED
  BY <1>1, <1>2, <1>3, StartSound, GenerateSound, FinalSound, Zenon DEF AgentStep

(* The task's steps: the agent's answers stay, or are those of a new call. *)
LEMMA TaskKeepsAnswers ==
    ASSUME GuardIInv, cfg' = cfg, memory' = memory,
           (ret' = ret /\ resp' = resp) \/ (ret' = NoAnswer /\ resp' = NoAnswer)
    PROVE  AnswersVetted'
BY Zenon DEF GuardIInv, AnswersVetted, Vetted

(* An output that nobody writes stays vetted.                              *)
LEMMA OutputKept ==
    ASSUME GuardIInv, cfg' = cfg, task' = task
    PROVE  OutputVetted'
BY Zenon DEF GuardIInv, OutputVetted

(* Execute and the human feedback before it store nothing.                 *)
LEMMA TaskBegins ==
    ASSUME GuardIInv, Execute \/ PreHumanFeedback
    PROVE  GuardIInv'
<1>1. /\ cfg' = cfg /\ memory' = memory /\ task' = task
      /\ (ret' = ret /\ resp' = resp) \/ (ret' = NoAnswer /\ resp' = NoAnswer)
  BY Zenon DEF Execute, PreHumanFeedback, CallAgent
<1>2. tpc' \in {"returned", "feedback", "attempt"}
  BY Zenon DEF Execute, PreHumanFeedback, TaskReturns
<1>3. ResultVetted'
  BY <1>2 DEF ResultVetted
<1>4. AnswersVetted' /\ OutputVetted'
  BY <1>1, TaskKeepsAnswers, OutputKept
<1>5. QED
  BY <1>3, <1>4, Zenon DEF GuardIInv

(* An attempt passes the agent's answer on to the task's guardrails.       *)
LEMMA AttemptSound ==
    ASSUME GuardIInv, Attempt
    PROVE  GuardIInv'
<1>1. /\ cfg' = cfg /\ memory' = memory /\ task' = task
      /\ (ret' = ret /\ resp' = resp) \/ (ret' = NoAnswer /\ resp' = NoAnswer)
  BY Zenon DEF Attempt, CallAgent
<1>2. \/ tpc' = "guard" /\ result' = ret /\ ret.kind = "answer"
      \/ tpc' = "attempt" \/ tpc' = "returned"
  BY Zenon DEF Attempt, Validates, IsAnswer, TaskReturns
<1>3. ResultVetted'
  <2>1. CASE tpc' = "guard" /\ result' = ret /\ ret.kind = "answer"
    <3>1. Vetted(ret)
      BY <2>1, AnswerKinds, Zenon DEF GuardIInv, AnswersVetted
    <3>2. Vetted(result)'
      BY <1>1, <2>1, <3>1, Zenon DEF Vetted
    <3>3. tpc' # "save"
      BY <2>1
    <3>4. QED
      BY <3>2, <3>3, Zenon DEF ResultVetted
  <2>2. CASE tpc' = "attempt" \/ tpc' = "returned"
    BY <2>2 DEF ResultVetted
  <2>3. QED
    BY <1>2, <2>1, <2>2
<1>4. AnswersVetted' /\ OutputVetted'
  BY <1>1, TaskKeepsAnswers, OutputKept
<1>5. QED
  BY <1>3, <1>4, Zenon DEF GuardIInv

(* The task's guardrails accept the answer, ask again, or give up.         *)
LEMMA GuardSound ==
    ASSUME GuardIInv, Guard
    PROVE  GuardIInv'
<1>1. /\ tpc = "guard" /\ cfg' = cfg /\ memory' = memory /\ task' = task
      /\ (ret' = ret /\ resp' = resp) \/ (ret' = NoAnswer /\ resp' = NoAnswer)
  BY Zenon DEF Guard, CallAgent
<1>2. \/ tpc' = "save" /\ result' = result /\ result.taskOk
      \/ tpc' = "reguard" \/ tpc' = "returned"
  BY Zenon DEF Guard, RunAll, TaskReturns
<1>3. ResultVetted'
  <2>1. CASE tpc' = "save" /\ result' = result /\ result.taskOk
    <3>1. Vetted(result)
      BY <1>1, Zenon DEF GuardIInv, ResultVetted
    <3>2. Vetted(result)' /\ result'.taskOk
      BY <1>1, <2>1, <3>1, Zenon DEF Vetted
    <3>3. QED
      BY <3>2, Zenon DEF ResultVetted
  <2>2. CASE tpc' = "reguard" \/ tpc' = "returned"
    BY <2>2 DEF ResultVetted
  <2>3. QED
    BY <1>2, <2>1, <2>2
<1>4. AnswersVetted' /\ OutputVetted'
  BY <1>1, TaskKeepsAnswers, OutputKept
<1>5. QED
  BY <1>3, <1>4, Zenon DEF GuardIInv

(* The answer to a retry goes through the same guardrails.                 *)
LEMMA ReguardSound ==
    ASSUME GuardIInv, Reguard
    PROVE  GuardIInv'
<1>1. cfg' = cfg /\ UNCHANGED agentVars /\ task' = task /\ ret # NoAnswer
  BY Zenon DEF Reguard
<1>2. memory' = memory /\ ret' = ret /\ resp' = resp
  BY <1>1, Zenon DEF agentVars
<1>3. (tpc' = "guard" /\ result' = ret /\ ret # Err) \/ tpc' = "returned"
  BY Zenon DEF Reguard, TaskReturns
<1>4. ResultVetted'
  <2>1. CASE tpc' = "guard" /\ result' = ret /\ ret # Err
    <3>1. Vetted(ret)
      BY <1>1, <2>1, Zenon DEF GuardIInv, AnswersVetted
    <3>2. Vetted(result)'
      BY <1>1, <2>1, <3>1, Zenon DEF Vetted
    <3>3. tpc' # "save"
      BY <2>1
    <3>4. QED
      BY <3>2, <3>3, Zenon DEF ResultVetted
  <2>2. CASE tpc' = "returned"
    BY <2>2 DEF ResultVetted
  <2>3. QED
    BY <1>3, <2>1, <2>2
<1>5. AnswersVetted' /\ OutputVetted'
  BY <1>1, <1>2, TaskKeepsAnswers, OutputKept
<1>6. QED
  BY <1>4, <1>5, Zenon DEF GuardIInv

(* The output that is saved is the result that passed.                     *)
LEMMA SaveSound ==
    ASSUME GuardIInv, SaveOutput
    PROVE  GuardIInv'
<1>1. cfg' = cfg /\ UNCHANGED agentVars /\ tpc = "save" /\ task'.output = result
  BY DEF SaveOutput
<1>2. memory' = memory /\ ret' = ret /\ resp' = resp
  BY <1>1, Zenon DEF agentVars
<1>3. tpc' \in {"human", "returned"}
  BY DEF SaveOutput
<1>4. ResultVetted'
  BY <1>3 DEF ResultVetted
<1>5. Vetted(result) /\ result.taskOk
  BY <1>1, Zenon DEF GuardIInv, ResultVetted
<1>6. OutputVetted'
  BY <1>1, <1>5, Zenon DEF OutputVetted, Vetted
<1>7. AnswersVetted'
  BY <1>1, <1>2, TaskKeepsAnswers
<1>8. QED
  BY <1>4, <1>6, <1>7, Zenon DEF GuardIInv

(* A human may replace the output after the guardrails.                    *)
LEMMA PostHumanReviewSound ==
    ASSUME GuardIInv, DOMAIN task = {"processed", "output", "file"}, PostHumanReview
    PROVE  GuardIInv'
<1>1. /\ cfg' = cfg /\ UNCHANGED agentVars
      /\ task' = task \/ task' = [task EXCEPT !.output = HumanText]
  BY DEF PostHumanReview
<1>2. memory' = memory /\ ret' = ret /\ resp' = resp
  BY <1>1, Zenon DEF agentVars
<1>3. tpc' \in {"returned", "stdin ended"}
  BY DEF PostHumanReview, TaskReturns
<1>4. ResultVetted'
  BY <1>3 DEF ResultVetted
<1>5. OutputVetted'
  <2>1. CASE task' = task
    BY <1>1, <2>1, OutputKept
  <2>2. CASE task' = [task EXCEPT !.output = HumanText]
    <3>1. task'.output = HumanText
      BY <2>2
    <3>2. QED
      BY <3>1, Zenon DEF OutputVetted
  <2>3. QED
    BY <1>1, <2>1, <2>2
<1>6. AnswersVetted'
  BY <1>1, <1>2, TaskKeepsAnswers
<1>7. QED
  BY <1>4, <1>5, <1>6, Zenon DEF GuardIInv

(* What happens around the agent and its task.                             *)
LEMMA OutsideSound ==
    ASSUME GuardIInv, cfg' = cfg, UNCHANGED taskVars, memory' = memory, ret' = ret, resp' = resp
    PROVE  GuardIInv'
<1>1. AnswersVetted'
  BY TaskKeepsAnswers
<1>2. QED
  BY <1>1, AgentKeepsTask, Zenon DEF GuardIInv

(* The output a task stores passed the task's guardrails, and the agent's  *)
(* when it has a model, unless a human wrote it, and what the agent put in *)
(* memory passed its own: for any number of retries and iterations of the  *)
(* loop (task.go Execute, agent.go Execute).                               *)
THEOREM OutputsAreGuarded == AgentSpec => []GuardedOutput
<1> DEFINE Shape == DOMAIN task = {"processed", "output", "file"}
<1>1. AgentInit => GuardIInv /\ Shape
  <2>1. SUFFICES ASSUME AgentInit PROVE GuardIInv /\ Shape
    OBVIOUS
  <2>2. /\ tpc = "start" /\ memory = NoAnswer /\ ret = NoAnswer /\ resp = NoAnswer
        /\ task = [processed |-> FALSE, output |-> NoAnswer, file |-> NoAnswer]
    BY <2>1, Zenon DEF AgentInit
  <2>3. ~task.processed /\ Shape
    BY <2>2
  <2>4. ResultVetted
    BY <2>2 DEF ResultVetted
  <2>5. QED
    BY <2>2, <2>3, <2>4, Zenon DEF GuardIInv, AnswersVetted, OutputVetted
<1>2. GuardIInv /\ Shape /\ [AgentNext]_agentTaskVars => GuardIInv' /\ Shape'
  <2>1. SUFFICES ASSUME GuardIInv, Shape, [AgentNext]_agentTaskVars PROVE GuardIInv' /\ Shape'
    OBVIOUS
  <2>2. CASE AgentStep
    <3>1. UNCHANGED taskVars
      BY <2>2, Zenon DEF AgentStep, Start, RecallMemory, RunReasoningLoop, Loop, GenerateStructured, Generate,
         Hallucinated, ToolStep, RequestReview, Decided, Reject, Accept, Criticise
    <3>2. task' = task
      BY <3>1, Zenon DEF taskVars
    <3>3. QED
      BY <2>1, <2>2, <3>2, AgentStepSound
  <2>3. CASE TaskStep
    <3>1. GuardIInv'
      BY <2>1, <2>3, TaskBegins, AttemptSound, GuardSound, ReguardSound, SaveSound, PostHumanReviewSound
         DEF TaskStep
    <3>2. \/ task' = task \/ task' = [task EXCEPT !.output = HumanText]
          \/ \E f \in {NoAnswer, result} : task' = [processed |-> TRUE, output |-> result, file |-> f]
      BY <2>3, Zenon DEF TaskStep, Execute, PreHumanFeedback, Attempt, Guard, Reguard, SaveOutput, PostHumanReview
    <3>3. Shape'
      BY <2>1, <3>2
    <3>4. QED
      BY <3>1, <3>3
  <2>4. CASE \/ \E d \in sending : Receive(d)
             \/ \E ok \in BOOLEAN : SubmitReview(ok)
             \/ Cancel \/ Interrupt \/ UNCHANGED agentTaskVars
    <3>1. cfg' = cfg /\ UNCHANGED taskVars /\ memory' = memory /\ ret' = ret /\ resp' = resp
      BY <2>4, Zenon DEF Receive, SubmitReview, Cancel, Interrupt, agentTaskVars, agentVars
    <3>2. task' = task
      BY <3>1, Zenon DEF taskVars
    <3>3. QED
      BY <2>1, <3>1, <3>2, OutsideSound
  <2>5. QED
    BY <2>1, <2>2, <2>3, <2>4, Zenon DEF AgentNext
<1>3. GuardIInv => GuardedOutput
  BY Zenon DEF GuardIInv, AnswersVetted, OutputVetted, GuardedOutput
<1>4. QED
  BY <1>1, <1>2, <1>3, PTL DEF AgentSpec

Approved == [review |-> "current", ok |-> TRUE]
Refused == [review |-> "current", ok |-> FALSE]

(* Only sends on its own channel reach a review.                           *)
ReviewIInv ==
    /\ \A d \in sending : "review" \in DOMAIN d /\ (d.review # "current" \/ d = Approved \/ d = Refused)
    /\ apc = "decided" => decision = Approved \/ decision = Refused
    /\ ToolRunsApproved

(* What touches neither the review nor the last tool run keeps both sound. *)
LEMMA ReviewKept ==
    ASSUME ReviewIInv, cfg' = cfg, sending' = sending, decision' = decision, lastRun' = lastRun,
           apc' # "decided" \/ apc' = apc
    PROVE  ReviewIInv'
BY Zenon DEF ReviewIInv, ToolRunsApproved

(* A new review makes every decision still on its way an earlier one.      *)
LEMMA RequestReviewSound ==
    ASSUME ReviewIInv, RequestReview
    PROVE  ReviewIInv'
<1>1. /\ apc' = "review" /\ cfg' = cfg /\ lastRun' = lastRun
      /\ sending' = {[d EXCEPT !.review = "earlier"] : d \in sending}
  BY Zenon DEF RequestReview
<1>2. ASSUME NEW e \in sending' PROVE "review" \in DOMAIN e /\ e.review # "current"
  <2>1. PICK d \in sending : e = [d EXCEPT !.review = "earlier"]
    BY <1>1
  <2>2. "review" \in DOMAIN d
    BY DEF ReviewIInv
  <2>3. QED
    BY <2>1, <2>2
<1>3. apc' # "decided"
  BY <1>1
<1>4. QED
  BY <1>1, <1>2, <1>3, Zenon DEF ReviewIInv, ToolRunsApproved

(* A decision is of the review that is open when it is submitted.          *)
LEMMA SubmitReviewSound ==
    ASSUME ReviewIInv, NEW ok \in BOOLEAN, SubmitReview(ok)
    PROVE  ReviewIInv'
<1> DEFINE new == [review |-> "current", ok |-> ok]
<1>1. /\ UNCHANGED agentVars /\ cfg' = cfg /\ lastRun' = lastRun /\ decision' = decision
      /\ sending' = sending \cup {new}
  BY Zenon DEF SubmitReview
<1>2. apc' = apc
  BY <1>1, Zenon DEF agentVars
<1>3. "review" \in DOMAIN new
  OBVIOUS
<1>4. new = Approved \/ new = Refused
  <2>1. CASE ok = TRUE
    BY <2>1, Zenon DEF Approved
  <2>2. CASE ok = FALSE
    BY <2>2, Zenon DEF Refused
  <2>3. QED
    BY <2>1, <2>2, Zenon
<1> HIDE DEF new
<1>5. \A d \in sending' : "review" \in DOMAIN d /\ (d.review # "current" \/ d = Approved \/ d = Refused)
  BY <1>1, <1>3, <1>4, Zenon DEF ReviewIInv
<1>6. QED
  BY <1>1, <1>2, <1>5, Zenon DEF ReviewIInv, ToolRunsApproved

(* The agent receives only decisions of the current review.                *)
LEMMA ReceiveSound ==
    ASSUME ReviewIInv, NEW d \in sending, Receive(d)
    PROVE  ReviewIInv'
<1>1. /\ d.review = "current" /\ decision' = d /\ cfg' = cfg /\ lastRun' = lastRun
      /\ sending' \subseteq sending
  BY Zenon DEF Receive, OnChannel
<1>2. decision' = Approved \/ decision' = Refused
  BY <1>1, Zenon DEF ReviewIInv
<1>3. \A e \in sending' : "review" \in DOMAIN e /\ (e.review # "current" \/ e = Approved \/ e = Refused)
  BY <1>1, Zenon DEF ReviewIInv
<1>4. QED
  BY <1>1, <1>2, <1>3, Zenon DEF ReviewIInv, ToolRunsApproved

(* The tool runs on the decision of its own review.                        *)
LEMMA DecidedSound ==
    ASSUME ReviewIInv, Decided
    PROVE  ReviewIInv'
<1>1. /\ apc = "decided" /\ cfg' = cfg /\ sending' = sending /\ apc' = "loop"
      /\ (decision.ok /\ lastRun' = decision) \/ lastRun' = lastRun
  BY Zenon DEF Decided, RunTool, Continue
<1>2. apc' # "decided"
  BY <1>1
<1>3. CASE lastRun' = lastRun
  BY <1>1, <1>2, <1>3, Zenon DEF ReviewIInv, ToolRunsApproved
<1>4. CASE decision.ok /\ lastRun' = decision
  <2>1. decision = Approved \/ decision = Refused
    BY <1>1, Zenon DEF ReviewIInv
  <2>2. ~Refused.ok
    BY DEF Refused
  <2>3. lastRun' = Approved
    BY <1>4, <2>1, <2>2, Zenon
  <2>4. ToolRunsApproved'
    BY <2>3, Zenon DEF ToolRunsApproved, Approved
  <2>5. QED
    BY <1>1, <1>2, <2>4, Zenon DEF ReviewIInv
<1>5. QED
  BY <1>1, <1>3, <1>4

(* Without the ReviewManager no review of it is asked for.                 *)
LEMMA ToolStepSound ==
    ASSUME ReviewIInv, ToolStep
    PROVE  ReviewIInv'
<1>1. UNCHANGED reviewVars /\ cfg' = cfg /\ cfg.review \in {"no", "callback"} /\ apc' = "loop"
  BY Zenon DEF ToolStep, RunTool, Continue
<1>2. sending' = sending /\ decision' = decision
  BY <1>1, Zenon DEF reviewVars
<1>3. apc' # "decided" /\ cfg.review # "manager"
  BY <1>1
<1>4. QED
  BY <1>1, <1>2, <1>3, Zenon DEF ReviewIInv, ToolRunsApproved

(* A tool under step review runs only after the approval of that very      *)
(* review, for any number of reviews, late decisions and timeouts          *)
(* (agent.go Execute, events.go RequestReview and SubmitReview).           *)
THEOREM ToolRunsAreApproved == AgentSpec => []ToolRunsApproved
<1>1. AgentInit => ReviewIInv
  <2>1. SUFFICES ASSUME AgentInit PROVE ReviewIInv
    OBVIOUS
  <2>2. apc = "idle" /\ sending = {} /\ lastRun = NoDecision
    BY <2>1, Zenon DEF AgentInit
  <2>3. apc # "decided"
    BY <2>2
  <2>4. QED
    BY <2>2, <2>3, Zenon DEF ReviewIInv, ToolRunsApproved
<1>2. ReviewIInv /\ [AgentNext]_agentTaskVars => ReviewIInv'
  <2>1. SUFFICES ASSUME ReviewIInv, [AgentNext]_agentTaskVars PROVE ReviewIInv'
    OBVIOUS
  <2>2. CASE Start \/ RecallMemory \/ RunReasoningLoop \/ Loop \/ GenerateStructured \/ Generate
             \/ Hallucinated \/ Reject \/ Accept \/ Criticise
    <3>1. cfg' = cfg /\ UNCHANGED reviewVars /\ lastRun' = lastRun
      BY <2>2, Zenon DEF Start, RecallMemory, RunReasoningLoop, Loop, GenerateStructured, Generate,
         Hallucinated, Reject, Accept, Criticise
    <3>2. apc' \in {"idle", "recall", "reason", "loop", "generate", "respond", "start"}
      BY <2>2, Zenon DEF Start, RecallMemory, RunReasoningLoop, Loop, GenerateStructured, Generate,
         Hallucinated, Reject, Accept, Criticise, AgentReturns, Continue, CallAgent
    <3>3. sending' = sending /\ decision' = decision
      BY <3>1, Zenon DEF reviewVars
    <3>4. apc' # "decided"
      BY <3>2
    <3>5. QED
      BY <2>1, <3>1, <3>3, <3>4, ReviewKept
  <2>3. CASE TaskStep
    <3>1. cfg' = cfg /\ UNCHANGED reviewVars /\ lastRun' = lastRun
      BY <2>3, Zenon DEF TaskStep, Execute, PreHumanFeedback, Attempt, Guard, Reguard, SaveOutput, PostHumanReview
    <3>2. apc' = "start" \/ apc' = apc
      BY <2>3, Zenon DEF TaskStep, Execute, PreHumanFeedback, Attempt, Guard, Reguard, SaveOutput, PostHumanReview,
         CallAgent, agentVars
    <3>3. sending' = sending /\ decision' = decision
      BY <3>1, Zenon DEF reviewVars
    <3>4. apc' # "decided" \/ apc' = apc
      BY <3>2
    <3>5. QED
      BY <2>1, <3>1, <3>3, <3>4, ReviewKept
  <2>4. CASE Cancel \/ Interrupt \/ UNCHANGED agentTaskVars
    <3>1. cfg' = cfg /\ UNCHANGED reviewVars /\ lastRun' = lastRun /\ UNCHANGED agentVars
      BY <2>4, Zenon DEF Cancel, Interrupt, agentTaskVars
    <3>2. sending' = sending /\ decision' = decision /\ apc' = apc
      BY <3>1, Zenon DEF reviewVars, agentVars
    <3>3. QED
      BY <2>1, <3>1, <3>2, ReviewKept
  <2>5. QED
    BY <2>1, <2>2, <2>3, <2>4, RequestReviewSound, SubmitReviewSound, ReceiveSound, DecidedSound, ToolStepSound,
       Zenon DEF AgentNext, AgentStep
<1>3. ReviewIInv => ToolRunsApproved
  BY DEF ReviewIInv
<1>4. QED
  BY <1>1, <1>2, <1>3, PTL DEF AgentSpec
=============================================================================
