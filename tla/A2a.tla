-------------------------------- MODULE A2a --------------------------------
(***************************************************************************)
(* Agents that talk to agents (pkg/protocols/a2a.go): senders that share   *)
(* one A2AClient with its retries and its circuit breaker for an endpoint, *)
(* the server that routes a message to the agent behind it, the registry   *)
(* of agent cards, and the delegation that goes through them.              *)
(*                                                                         *)
(* Abstracted: texts and cards (an agent has a card or has not); one       *)
(* endpoint; time (recent: the last failure is less than 30 s old).        *)
(***************************************************************************)
EXTENDS Integers, FiniteSets

CONSTANTS
    Senders,        \* goroutines that use the client
    MaxSends,       \* bound: calls they start together
    TokenCap,       \* capacity of the token channel (100 in the code)
    Threshold,      \* failures that open the circuit (5 in the code)
    Retries,        \* attempts of a Send (3 in the code)
    MaxDelegationDepth

ASSUME A2aAssumption == {Threshold, Retries} \subseteq Nat \ {0}

VARIABLES
    snd,            \* what each sender is doing
    sends,          \* calls started
    failures,       \* failures[endpoint]
    recent,         \* lastFail[endpoint] is less than 30 s ago
    lost,           \* history: failures marked since the last success
    registry,       \* the agent's card is in GlobalA2ARegistry
    adapter,        \* its role is in registeredAdapters
    up              \* its A2AServer listens

a2aVars == <<snd, sends, failures, recent, lost, registry, adapter, up>>

(* own: the message goes through a client of its own, as the scans' do.    *)
Unsent == [step |-> "", action |-> "status", own |-> FALSE, try |-> 0, ran |-> 0, done |-> 0,
           answer |-> "", ok |-> FALSE, tokens |-> 0]

A2aInit ==
    /\ snd = [s \in Senders |-> Unsent] /\ sends = 0
    /\ failures = 0 /\ recent = FALSE /\ lost = 0
    /\ registry = FALSE /\ adapter = FALSE /\ up = FALSE

breaker == <<failures, recent, lost>>
directory == <<registry, adapter, up>>

SndStep(s, r) == snd' = [snd EXCEPT ![s] = r]
SndReturn(s, ok) == SndStep(s, [snd[s] EXCEPT !.step = "", !.ok = ok])

(***************************************************************************)
(* The registry and delegation.                                            *)
(***************************************************************************)
(* setupA2A starts the server, registers the card and starts the scans.    *)
SetupA2A ==
    /\ ~up /\ up' = TRUE /\ registry' = TRUE
    /\ UNCHANGED <<snd, sends, adapter>> /\ UNCHANGED breaker

RegisterA2AAdapter ==
    /\ ~adapter /\ adapter' = TRUE
    /\ UNCHANGED <<snd, sends, registry, up>> /\ UNCHANGED breaker

(* A2AServer.Shutdown stops listening; requests in hand are served to the  *)
(* end and the card stays in the registry.                                 *)
ShutdownA2A ==
    /\ up /\ up' = FALSE
    /\ UNCHANGED <<snd, sends, registry, adapter>> /\ UNCHANGED breaker

Unregister ==
    /\ registry /\ registry' = FALSE
    /\ UNCHANGED <<snd, sends, adapter, up>> /\ UNCHANGED breaker

SndBegin(s, r) ==
    /\ snd[s].step = "" /\ sends < MaxSends /\ sends' = sends + 1
    /\ SndStep(s, r)
    /\ UNCHANGED breaker /\ UNCHANGED directory

(* RemoteAgentAdapter.Execute sends delegate_task.                         *)
AdapterExecute(s) == SndBegin(s, [Unsent EXCEPT !.step = "check", !.action = "delegate_task"])

(* A role or a task that is empty or too long, a chain that is too deep, a *)
(* role nobody registered and a cancelled context are refused.  The depth  *)
(* is in the context and no context crosses the wire: it starts at 0 again *)
(* at the other node.                                                      *)
DelegateViaA2A(s) ==
    \E wellFormed, cancelled \in BOOLEAN, depth \in 0..MaxDelegationDepth :
        IF wellFormed /\ depth < MaxDelegationDepth /\ adapter /\ ~cancelled
        THEN AdapterExecute(s)
        ELSE SndBegin(s, Unsent)

(* DelegateWork hands the coworker it finds the task, whatever the depth.  *)
DelegateWork(s) ==
    \E wellFormed \in BOOLEAN :
        IF wellFormed /\ registry THEN AdapterExecute(s) ELSE SndBegin(s, Unsent)

(* AskQuestion does the same with a question.                              *)
AskQuestion(s) == DelegateWork(s)

GetStatus(s) == registry /\ SndBegin(s, [Unsent EXCEPT !.step = "check"])

(* A scan asks every card's agent for its status, with a client of its own *)
(* that has no token; a failed heartbeat is only logged.                   *)
DiscoveryScan(s) == registry /\ SndBegin(s, [Unsent EXCEPT !.step = "check", !.own = TRUE])

SendOther(s) == \E a \in {"async", "other"} : SndBegin(s, [Unsent EXCEPT !.step = "check", !.action = a])

(***************************************************************************)
(* SendWithRetry and doSend.                                               *)
(***************************************************************************)
HalfOpenReset(n) == 0
(* "Half-open: allow one request": nothing tells the next caller that one  *)
(* is on its way.                                                          *)
HalfOpen(n) == Threshold - 1

(* An error ends the attempt: 401 and 403 end the call, anything else is   *)
(* tried again after a pause, unless the context ends or this was the last *)
(* attempt.                                                                *)
SendWithRetry(s) ==
    \/ /\ snd[s].try + 1 < Retries
       /\ SndStep(s, [snd[s] EXCEPT !.step = "check", !.try = @ + 1, !.answer = ""])
    \/ SndReturn(s, FALSE)

CheckCircuit(s) ==
    /\ snd[s].step = "check"
    /\ IF failures >= Threshold /\ recent /\ ~snd[s].own
       THEN SendWithRetry(s) /\ UNCHANGED failures
       ELSE /\ failures' = IF failures >= Threshold /\ ~snd[s].own THEN HalfOpen(failures) ELSE failures
            /\ SndStep(s, [snd[s] EXCEPT !.step = "wire"])
    /\ UNCHANGED <<sends, recent, lost>> /\ UNCHANGED directory

MarkFailure(s) ==
    /\ failures' = IF snd[s].own THEN failures ELSE failures + 1
    /\ recent' = (snd[s].own => recent)
    /\ lost' = IF snd[s].own \/ lost >= Threshold THEN lost ELSE lost + 1

MarkSuccess(s) ==
    /\ failures' = IF snd[s].own THEN failures ELSE 0
    /\ lost' = IF snd[s].own THEN lost ELSE 0
    /\ UNCHANGED recent

Cool ==
    /\ recent /\ recent' = FALSE
    /\ UNCHANGED <<snd, sends, failures, lost>> /\ UNCHANGED directory

(* The request is lost, or refused at the door (401: no or another token;  *)
(* 400: not a message), or reaches the router.                             *)
HandleMessage(s) ==
    /\ snd[s].step = "wire"
    /\ \/ MarkFailure(s) /\ SendWithRetry(s)
       \/ up /\ UNCHANGED breaker /\ SndReturn(s, FALSE)
       \/ up /\ UNCHANGED breaker /\ SendWithRetry(s)
       \/ up /\ UNCHANGED breaker /\ SndStep(s, [snd[s] EXCEPT !.step = "serve"])
    /\ UNCHANGED sends /\ UNCHANGED directory

(* HandleA2AMessage: a payload that is no request is an error; a task that *)
(* fails is a response all the same, with success false.                   *)
HandleA2AMessage == {[code |-> "500", ran |-> 0, done |-> 0], [code |-> "200", ran |-> 1, done |-> 1],
                     [code |-> "failed", ran |-> 1, done |-> 0]}
HandleA2AStatus == {[code |-> "200", ran |-> 0, done |-> 0]}

(* A handler may have no response: 202.  An action without a handler is an *)
(* error.                                                                  *)
RouteA2A(action) ==
    CASE action = "delegate_task" -> HandleA2AMessage
      [] action = "status" -> HandleA2AStatus
      [] action = "async" -> {[code |-> "202", ran |-> 1, done |-> 0]}
      [] OTHER -> {[code |-> "500", ran |-> 0, done |-> 0]}

ServeA2A(s) ==
    /\ snd[s].step = "serve"
    /\ \E a \in RouteA2A(snd[s].action) :
          SndStep(s, [snd[s] EXCEPT !.step = "answer", !.answer = a.code, !.ran = @ + a.ran,
                                    !.done = @ + a.done])
    /\ UNCHANGED sends /\ UNCHANGED breaker /\ UNCHANGED directory

AcceptedAny(a) == a # "500"
(* Any other status than 200, 202 too, is an error the client retries.     *)
Accepted(a) == a \in {"200", "failed"}

(* The answer may be lost after the agent has run the task: it is sent     *)
(* again and runs again.  The adapter turns success false into an error.   *)
DoSend(s) ==
    /\ snd[s].step = "answer"
    /\ \/ MarkFailure(s) /\ SendWithRetry(s)                                    \* timed out
       \/ /\ Accepted(snd[s].answer) /\ MarkSuccess(s)
          /\ SndReturn(s, snd[s].answer # "failed") \/ SendWithRetry(s)         \* undecodable
       \/ ~Accepted(snd[s].answer) /\ snd[s].answer = "500" /\ MarkFailure(s) /\ SendWithRetry(s)
       \/ ~Accepted(snd[s].answer) /\ snd[s].answer # "500" /\ SendWithRetry(s) /\ UNCHANGED breaker
    /\ UNCHANGED sends /\ UNCHANGED directory

(***************************************************************************)
(* Stream: a websocket.                                                    *)
(***************************************************************************)
(* The A2A server only upgrades a request with an allowed Origin, which    *)
(* this client never sends; another server may upgrade it.                 *)
HandleWebSocket(origin) == origin
StreamA2A(s) ==
    \E theirs \in BOOLEAN :
        SndBegin(s, [Unsent EXCEPT !.step = IF theirs \/ HandleWebSocket(FALSE) THEN "stream" ELSE ""])

(* The goroutine fills the channel; a response or a read error closes it.  *)
StreamToken(s) ==
    /\ snd[s].step = "stream"
    /\ \/ snd[s].tokens < TokenCap /\ SndStep(s, [snd[s] EXCEPT !.tokens = @ + 1])
       \/ snd[s].tokens > 0 /\ SndStep(s, [snd[s] EXCEPT !.tokens = @ - 1])
       \/ SndReturn(s, TRUE)
    /\ UNCHANGED sends /\ UNCHANGED breaker /\ UNCHANGED directory

SendStep(s) == CheckCircuit(s) \/ HandleMessage(s) \/ ServeA2A(s) \/ DoSend(s)

A2aNext ==
    \/ SetupA2A \/ ShutdownA2A \/ RegisterA2AAdapter \/ Unregister \/ Cool
    \/ \E s \in Senders :
          \/ DelegateViaA2A(s) \/ DelegateWork(s) \/ AskQuestion(s) \/ GetStatus(s)
          \/ DiscoveryScan(s) \/ SendOther(s) \/ StreamA2A(s) \/ StreamToken(s) \/ SendStep(s)

A2aSpec == A2aInit /\ [][A2aNext]_a2aVars

(* While an endpoint has failed five times and more without one success,   *)
(* the last time within 30 seconds, its circuit is open: no interleaving   *)
(* of half-open probes and stragglers of markFailure leaves it closed.     *)
CircuitHolds == lost >= Threshold /\ recent => failures >= Threshold

(* Whatever is lost and sent again, a delegation that returns a result was *)
(* run to its end by the agent, and it ran once per attempt at the most; a *)
(* message nobody answers with a response never counts as delivered.       *)
SentIsHandled ==
    \A s \in Senders :
        /\ snd[s].ran <= snd[s].try + 1
        /\ snd[s].ok /\ snd[s].action # "status" => snd[s].done > 0
=============================================================================
