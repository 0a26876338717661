------------------------------ MODULE AgentTask ------------------------------
(***************************************************************************)
(* A task and the agent that executes it (pkg/tasks/task.go: Execute;      *)
(* pkg/agents/agent.go: Execute, the ReAct loop; pkg/agents/reasoning.go;  *)
(* pkg/guardrails: RunAll; pkg/telemetry/events.go: ReviewManager).        *)
(*                                                                         *)
(* The task calls the agent, retries it when the answer does not fit the   *)
(* schema and once more when its own guardrails reject the answer.  The    *)
(* agent asks the model again and again, runs the tools it names, waits    *)
(* for a human where a tool requires review, and returns the first answer  *)
(* its guardrails accept.  Dashboard handlers answer the reviews.          *)
(*                                                                         *)
(* An answer is what the code can tell about it: whether it is a string,   *)
(* fits OutputJSON, and passes the guardrails of the agent and the task.   *)
(* What the model, a tool, a cache, a user or a guardrail will say is open.*)
(***************************************************************************)
EXTENDS Naturals, FiniteSets

CONSTANTS MaxIterations,  \* agent: turns of the ReAct loop
          MaxRetryLimit,  \* agent: guardrail and self-healing retries
          MaxRetries,     \* task: attempts
          GuardRetries    \* task: attempts to please its guardrails

ASSUME AgentTaskAssumption ==
    {MaxIterations, MaxRetryLimit, MaxRetries, GuardRetries} \subseteq Nat \ {0}

VARIABLES cfg,        \* configuration of the agent and the task
          tpc, tries, gtries, result,   \* Task.Execute
          task,       \* Processed, Output, and what OutputFile holds
          apc, iter, retries, resp, ret,   \* Agent.Execute
          memory,     \* the last answer that saveMemory has stored
          cancelled,  \* ctx.Done
          interrupt,  \* InterruptCh holds a message
          pending,    \* the current review is in ReviewManager.Pending
          sending,    \* what goroutines in SubmitReview are blocked sending
          decision,   \* what RequestReview has received
          lastRun     \* history: the decision the last tool run was based on

taskVars == <<tpc, tries, gtries, result, task>>
agentVars == <<apc, iter, retries, resp, ret, memory>>
reviewVars == <<pending, sending, decision>>
agentTaskVars == <<cfg, taskVars, agentVars, cancelled, interrupt, reviewVars, lastRun>>

Answer == [kind : {"answer"}, str : BOOLEAN, fits : BOOLEAN, agentOk : BOOLEAN, taskOk : BOOLEAN]
NoAnswer == [kind |-> "none"]
Err == [kind |-> "error"]
ToolCall == [kind |-> "tool"]
UnknownTool == [kind |-> "unknown tool"]
HumanText == [kind |-> "human"]
IsAnswer(v) == v.kind = "answer"

(* A decision sent on the channel of the current or of an earlier review. *)
NoDecision == [review |-> "none", ok |-> FALSE]

(* An answer in plain text; OutputJSON is not looked at then. *)
Text == {v \in Answer : v.str /\ v.fits}

(* What of the configuration matters: a strict schema, a target struct, a  *)
(* human in the loop, self-critique, self-healing, who reviews the tool (a  *)
(* StepReview callback or the ReviewManager), and whether there is a model.*)
Agent == [schema : BOOLEAN, json : BOOLEAN, human : BOOLEAN, critique : BOOLEAN,
          healing : BOOLEAN, review : {"no", "callback", "manager"}, llm : BOOLEAN]

(* OutputJSON, like OutputSchema, asks the agent for a schema. *)
Configs == {c \in Agent : c.json => c.schema}

AgentInit ==
    /\ cfg \in Configs
    /\ tpc = "start" /\ tries = 0 /\ gtries = 0 /\ result = NoAnswer
    /\ task = [processed |-> FALSE, output |-> NoAnswer, file |-> NoAnswer]
    /\ apc = "idle" /\ iter = 0 /\ retries = 0
    /\ resp = NoAnswer /\ ret = NoAnswer
    /\ memory = NoAnswer
    /\ cancelled = FALSE /\ interrupt = FALSE
    /\ pending = FALSE /\ sending = {} /\ decision = NoDecision
    /\ lastRun = NoDecision

-----------------------------------------------------------------------------
(* Agent.Execute. *)

(* Agent.Execute is called: a new loop with a full budget of retries. *)
CallAgent ==
    /\ apc' = "start" /\ iter' = 0 /\ retries' = MaxRetryLimit
    /\ resp' = NoAnswer /\ ret' = NoAnswer

AgentReturns(v) ==
    /\ apc' = "idle" /\ ret' = v /\ resp' = NoAnswer
    /\ UNCHANGED <<iter, retries>>

(* Rate limit and prompt; an agent without a model answers at once. *)
Start ==
    /\ apc = "start"
    /\ \/ cancelled /\ AgentReturns(Err)
       \/ ~cfg.llm /\ \E v \in {w \in Answer : w.str} : AgentReturns(v)
       \/ cfg.llm /\ apc' = "recall" /\ UNCHANGED <<iter, retries, resp, ret>>
    /\ UNCHANGED <<cfg, taskVars, memory, cancelled, interrupt, reviewVars, lastRun>>

(* Memory, entities and knowledge sources only add to the prompt; what     *)
(* fails in them is left out.                                              *)
RecallMemory ==
    /\ apc = "recall" /\ apc' = "reason"
    /\ UNCHANGED <<cfg, taskVars, iter, retries, resp, ret, memory, cancelled,
                   interrupt, reviewVars, lastRun>>

(* The reasoning loop plans and refines until the model says it is ready,  *)
(* its attempts are over, or the model fails, which is ignored.            *)
RunReasoningLoop ==
    /\ apc = "reason" /\ apc' = "loop"
    /\ UNCHANGED <<cfg, taskVars, iter, retries, resp, ret, memory, cancelled,
                   interrupt, reviewVars, lastRun>>

(* The top of the loop: its bound, the context and the interrupt, between  *)
(* which select chooses freely, and WaitIfPaused.                          *)
Loop ==
    /\ apc = "loop"
    /\ \/ iter >= MaxIterations /\ AgentReturns(Err) /\ UNCHANGED interrupt
       \/ iter < MaxIterations /\ cancelled /\ AgentReturns(Err) /\ UNCHANGED interrupt
       \/ /\ iter < MaxIterations
          /\ cancelled => interrupt
          /\ interrupt' = FALSE
          /\ apc' = "generate" /\ UNCHANGED <<iter, retries, resp, ret>>
    /\ UNCHANGED <<cfg, taskVars, memory, cancelled, reviewVars, lastRun>>

(* A strict schema: one structured answer, which must pass the guardrails. *)
GenerateStructured ==
    /\ apc = "generate" /\ cfg.schema
    /\ \/ AgentReturns(Err)
       \/ \E v \in Answer : AgentReturns(IF v.agentOk THEN v ELSE Err)
    /\ UNCHANGED <<cfg, taskVars, memory, cancelled, interrupt, reviewVars, lastRun>>

(* The model, its stream or the cache answers: with a tool call, with a    *)
(* tool that does not exist, or with text; or the call fails.              *)
Generate ==
    /\ apc = "generate" /\ ~cfg.schema
    /\ \/ AgentReturns(Err)
       \/ /\ resp' \in {ToolCall, UnknownTool} \cup Text
          /\ apc' = "respond"
          /\ UNCHANGED <<iter, retries, ret>>
    /\ UNCHANGED <<cfg, taskVars, memory, cancelled, interrupt, reviewVars, lastRun>>

(* Mutant: a continue that does not pass the loop's post statement. *)
ContinueStuck ==
    /\ iter' = iter /\ apc' = "loop" /\ resp' = NoAnswer
    /\ UNCHANGED ret

(* continue: an observation was appended, the next iteration begins. *)
Continue ==
    /\ iter' = iter + 1 /\ apc' = "loop" /\ resp' = NoAnswer
    /\ UNCHANGED ret

(* The model named a tool the agent does not have. *)
Hallucinated ==
    /\ apc = "respond" /\ resp = UnknownTool
    /\ Continue
    /\ UNCHANGED <<cfg, taskVars, retries, memory, cancelled, interrupt, reviewVars, lastRun>>

(* The tool runs, or its cached result is used: an error uses up a retry   *)
(* of self-healing, and the loop goes on in any case.                      *)
RunTool ==
    /\ lastRun' = decision
    /\ retries' \in {retries} \cup (IF cfg.healing /\ retries > 0 THEN {retries - 1} ELSE {})
    /\ Continue

(* A tool that needs no review, or one the StepReview callback decides. *)
ToolStep ==
    /\ apc = "respond" /\ resp = ToolCall /\ cfg.review \in {"no", "callback"}
    /\ \/ RunTool
       \/ cfg.review = "callback" /\ Continue /\ UNCHANGED <<retries, lastRun>>
    /\ UNCHANGED <<cfg, taskVars, memory, cancelled, interrupt, reviewVars>>

(* RequestReview up to its receive: a channel of its own enters Pending.   *)
(* Goroutines that still send on the channel of an earlier review stay.    *)
RequestReview ==
    /\ apc = "respond" /\ resp = ToolCall /\ cfg.review = "manager"
    /\ pending' = TRUE /\ decision' = NoDecision
    /\ sending' = {[d EXCEPT !.review = "earlier"] : d \in sending}
    /\ apc' = "review"
    /\ UNCHANGED <<cfg, taskVars, iter, retries, resp, ret, memory, cancelled,
                   interrupt, lastRun>>

(* SubmitReview finds the channel of the pending review: also a second     *)
(* time, and also after the decision was received but not yet cleaned up.  *)
SubmitReview(ok) ==
    /\ pending
    /\ sending' = sending \cup {[review |-> "current", ok |-> ok]}
    /\ UNCHANGED <<cfg, taskVars, agentVars, cancelled, interrupt, pending, decision, lastRun>>

(* Mutant: one channel for all reviews. *)
OnChannelShared(d) == TRUE

(* The channel a send and the receive of the current review share. *)
OnChannel(d) == d.review = "current"

(* The unbuffered channel: one send meets the receive. *)
Receive(d) ==
    /\ apc = "review" /\ OnChannel(d)
    /\ decision' = d
    /\ \E left \in {sending, sending \ {d}} : sending' = left
    /\ apc' = "decided"
    /\ UNCHANGED <<cfg, taskVars, iter, retries, resp, ret, memory, cancelled,
                   interrupt, pending, lastRun>>

(* RequestReview deletes its entry and returns the decision. *)
Decided ==
    /\ apc = "decided"
    /\ pending' = FALSE /\ decision' = NoDecision
    /\ \/ decision.ok /\ RunTool
       \/ ~decision.ok /\ Continue /\ UNCHANGED <<retries, lastRun>>
    /\ UNCHANGED <<cfg, taskVars, memory, cancelled, interrupt, sending>>

(* RunAll on the agent's guardrails. *)
Accepted(v) == v.agentOk

(* A final answer the guardrails reject: regenerate, or give up. *)
Reject ==
    /\ apc = "respond" /\ IsAnswer(resp) /\ ~Accepted(resp)
    /\ \/ retries > 0 /\ retries' = retries - 1 /\ Continue
       \/ retries = 0 /\ AgentReturns(Err)
    /\ UNCHANGED <<cfg, taskVars, memory, cancelled, interrupt, reviewVars, lastRun>>

(* Without embeddings, or when they fail, nothing is saved. *)
SaveMemory == memory' \in {memory, [kind |-> "answer", agentOk |-> resp.agentOk]}

Final == apc = "respond" /\ IsAnswer(resp) /\ Accepted(resp)

(* A final answer is saved to memory and returned: without self-critique,  *)
(* or when the critique fails or says APPROVED.                            *)
Accept ==
    /\ Final /\ SaveMemory
    /\ AgentReturns(resp)
    /\ UNCHANGED <<cfg, taskVars, cancelled, interrupt, reviewVars, lastRun>>

(* A critique that does not approve: the agent executes anew with it, as   *)
(* often as that happens.                                                  *)
Criticise ==
    /\ Final /\ SaveMemory
    /\ cfg.critique /\ CallAgent
    /\ UNCHANGED <<cfg, taskVars, cancelled, interrupt, reviewVars, lastRun>>

-----------------------------------------------------------------------------
(* Task.Execute. *)

TaskReturns(v) ==
    /\ tpc' = "returned" /\ result' = v

(* Timeout, pause and context, and the prompt from earlier outputs. *)
Execute ==
    /\ tpc = "start"
    /\ \/ /\ cancelled /\ TaskReturns(Err)
          /\ UNCHANGED <<apc, iter, retries, resp, ret>>
       \/ /\ cfg.human /\ tpc' = "feedback"
          /\ UNCHANGED <<result, apc, iter, retries, resp, ret>>
       \/ ~cfg.human /\ tpc' = "attempt" /\ UNCHANGED result /\ CallAgent
    /\ UNCHANGED <<cfg, tries, gtries, task, memory, cancelled, interrupt, reviewVars, lastRun>>

(* A line from the human, or the end of stdin; no context is looked at. *)
PreHumanFeedback ==
    /\ tpc = "feedback" /\ tpc' = "attempt"
    /\ CallAgent /\ UNCHANGED result
    /\ UNCHANGED <<cfg, tries, gtries, task, memory, cancelled, interrupt, reviewVars, lastRun>>

(* ValidateSchema, for a string where a struct is wanted. *)
Validates(v) == IsAnswer(v) /\ (cfg.json /\ v.str => v.fits)

(* The agent has returned to the loop of attempts. *)
Attempt ==
    /\ tpc = "attempt" /\ apc = "idle" /\ ret # NoAnswer
    /\ \/ /\ Validates(ret)
          /\ tpc' = "guard" /\ result' = ret
          /\ UNCHANGED <<tries, apc, iter, retries, resp, ret>>
       \/ /\ ~Validates(ret) /\ tries < MaxRetries - 1
          /\ tries' = tries + 1
          /\ CallAgent
          /\ UNCHANGED <<tpc, result>>
       \/ /\ ~Validates(ret) /\ tries = MaxRetries - 1
          /\ TaskReturns(Err)
          /\ UNCHANGED <<tries, apc, iter, retries, resp, ret>>
    /\ UNCHANGED <<cfg, gtries, task, memory, cancelled, interrupt, reviewVars, lastRun>>

(* Mutant: the answer of the last guardrail retry is taken unseen. *)
RunAllOnce == result.taskOk \/ gtries = GuardRetries - 1

(* RunAll on the task's guardrails. *)
RunAll == result.taskOk

(* The guardrails of the task: a rejected answer is generated again while  *)
(* there are retries left.                                                 *)
Guard ==
    /\ tpc = "guard"
    /\ \/ RunAll /\ tpc' = "save" /\ UNCHANGED <<gtries, result, apc, iter, retries, resp, ret>>
       \/ /\ ~RunAll /\ gtries < GuardRetries - 1
          /\ tpc' = "reguard" /\ UNCHANGED <<gtries, result>>
          /\ CallAgent
       \/ /\ ~RunAll /\ gtries = GuardRetries - 1
          /\ TaskReturns(Err)
          /\ UNCHANGED <<gtries, apc, iter, retries, resp, ret>>
    /\ UNCHANGED <<cfg, tries, task, memory, cancelled, interrupt, reviewVars, lastRun>>

(* The agent has returned to the guardrail loop: an error ends the task,   *)
(* an answer goes to the guardrails (and not through ValidateSchema).      *)
Reguard ==
    /\ tpc = "reguard" /\ apc = "idle" /\ ret # NoAnswer
    /\ \/ ret = Err /\ TaskReturns(Err) /\ UNCHANGED gtries
       \/ ret # Err /\ tpc' = "guard" /\ result' = ret /\ gtries' = gtries + 1
    /\ UNCHANGED <<cfg, tries, task, agentVars, cancelled, interrupt, reviewVars, lastRun>>

(* The task is processed and its output kept; the output file may fail to  *)
(* be written; the callback runs.                                          *)
SaveOutput ==
    /\ tpc = "save"
    /\ \E f \in {NoAnswer, result} :
          task' = [processed |-> TRUE, output |-> result, file |-> f]
    /\ tpc' = IF cfg.human THEN "human" ELSE "returned"
    /\ UNCHANGED <<cfg, tries, gtries, result, agentVars, cancelled, interrupt, reviewVars, lastRun>>

(* applyPostHumanReview: approved, or edited up to the line EOF.  A stdin  *)
(* that ends during the edit leaves the code in its reading loop for ever. *)
PostHumanReview ==
    /\ tpc = "human"
    /\ \/ tpc' = "returned" /\ UNCHANGED <<result, task>>
       \/ TaskReturns(HumanText) /\ task' = [task EXCEPT !.output = HumanText]
       \/ tpc' = "stdin ended" /\ UNCHANGED <<result, task>>
    /\ UNCHANGED <<cfg, tries, gtries, agentVars, cancelled, interrupt, reviewVars, lastRun>>

-----------------------------------------------------------------------------
(* The caller's context ends, by a timeout or a cancellation. *)
Cancel ==
    /\ ~cancelled /\ tpc # "returned"
    /\ cancelled' = TRUE
    /\ UNCHANGED <<cfg, taskVars, agentVars, interrupt, reviewVars, lastRun>>

(* A user sends an instruction to the running agent. *)
Interrupt ==
    /\ ~interrupt /\ apc # "idle"
    /\ interrupt' = TRUE
    /\ UNCHANGED <<cfg, taskVars, agentVars, cancelled, reviewVars, lastRun>>

AgentStep == Start \/ RecallMemory \/ RunReasoningLoop \/ Loop \/ GenerateStructured \/ Generate
             \/ Hallucinated \/ ToolStep
             \/ RequestReview \/ Decided \/ Reject \/ Accept \/ Criticise
TaskStep == Execute \/ PreHumanFeedback \/ Attempt \/ Guard \/ Reguard \/ SaveOutput \/ PostHumanReview

AgentNext ==
    \/ AgentStep
    \/ TaskStep
    \/ \E d \in sending : Receive(d)
    \/ \E ok \in BOOLEAN : SubmitReview(ok)
    \/ Cancel
    \/ Interrupt

(* The goroutines of the task and of its reviewers run, model and tools    *)
(* return, and somebody answers the current review.  Nobody has to cancel  *)
(* or to interrupt.                                                        *)
GoesOn ==
    \/ AgentStep \/ TaskStep
    \/ \E d \in sending : Receive(d)
    \/ apc = "review" /\ \E ok \in BOOLEAN : SubmitReview(ok)

AgentFairness == WF_agentTaskVars(GoesOn)

AgentSpec == AgentInit /\ [][AgentNext]_agentTaskVars /\ AgentFairness

-----------------------------------------------------------------------------
(* No answer gets past a guardrail by a retry, a critique, a structured    *)
(* answer or a cache: what the agent has put in its memory, and what a     *)
(* task has as its output, was accepted, unless a human wrote it or the    *)
(* agent has no model (agent.go:1201-1216, task.go:340-371).               *)
GuardedOutput ==
    /\ memory # NoAnswer => memory.agentOk
    /\ task.processed /\ task.output # HumanText =>
          task.output.taskOk /\ (cfg.llm => task.output.agentOk)

(* Every run of a tool that requires review was approved in a review of    *)
(* its own, whatever other answers were sent, late or twice, for earlier   *)
(* reviews (agent.go:1092-1112, events.go:103-138).                        *)
ToolRunsApproved ==
    cfg.review = "manager" /\ lastRun # NoDecision => lastRun = [review |-> "current", ok |-> TRUE]

(* An Execute that was begun returns, through all retries and reviews,     *)
(* when every review is answered.  Only a stdin that ends during an edit   *)
(* keeps it, and, with self-critique, a model that criticises each answer  *)
(* anew, so that again and again the agent starts over: no count, and by   *)
(* default no timeout, bounds that (task.go:211-217, 304-330;              *)
(* agent.go:927-1271).                                                     *)
ExecuteReturns ==
    (tpc # "start") ~> \/ tpc \in {"returned", "stdin ended"}
                       \/ cfg.critique /\ apc = "start"
=============================================================================
