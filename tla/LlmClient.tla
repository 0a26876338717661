----------------------------- MODULE LlmClient ------------------------------
(***************************************************************************)
(* A call to a language model through the decorators of pkg/llm:           *)
(* FailoverClient (failover.go) around MiddlewareClient (middleware.go)    *)
(* with its circuit breaker (circuitbreaker.go) and its token bucket.  The *)
(* four methods of the Client interface run the same pipeline and are one  *)
(* here.  Calls are concurrent goroutines; beforeCall, afterCall and one   *)
(* turn of the bucket's Wait loop are the lock sections, so they are the   *)
(* actions.                                                                *)
(*                                                                         *)
(* Time is counted in ticks: age is how long the circuit has been open,    *)
(* which matters only up to the cooldown, and the bucket is refilled by    *)
(* whole tokens.  A call that CheckBudget refuses, or that beforeCall      *)
(* fast-fails, changes no state: it stays "idle", because the text of      *)
(* ErrCircuitOpen is not one that isFailoverRequired accepts.              *)
(***************************************************************************)
EXTENDS Naturals

CONSTANTS Calls,        \* goroutines that may be in a call at a time
          Threshold,    \* consecutive failures that trip the circuit
          Cooldown,     \* ticks the circuit stays open
          MaxTokens,    \* capacity of the token bucket
          MaxFailures   \* bound of the model: no call fails above this count

ASSUME LlmAssumption ==
    /\ Threshold \in Nat \ {0}
    /\ Cooldown \in Nat \ {0}
    /\ MaxTokens \in Nat \ {0}
    /\ MaxFailures \in Nat

VARIABLES state, failures, age, trialActive,  \* circuitBreaker; age stands for openedAt
          tokens,                             \* tokenBucket
          stage, trial,                          \* each call: where it is, and its isTrial
          blamed                              \* provider calls that failed since one succeeded

breaker == <<state, failures, age, trialActive>>
llmVars == <<breaker, tokens, stage, trial, blamed>>

(* What a provider call may return.  "open" is the ErrCircuitOpen of a     *)
(* breaker nested in the provider; "transient" stands for the messages     *)
(* isFailoverRequired looks for, "fatal" for the others.                   *)
Failures == {"transient", "fatal", "deadline"}
Neutral == {"canceled", "open"}
Results == Failures \cup Neutral \cup {"ok"}

LlmInit ==
    /\ state = "closed"
    /\ failures = 0
    /\ age = 0
    /\ trialActive = FALSE
    /\ tokens = MaxTokens
    /\ stage = [c \in Calls |-> "idle"]
    /\ trial = [c \in Calls |-> FALSE]
    /\ blamed = 0

Goto(c, phase) == stage' = [stage EXCEPT ![c] = phase]

(* The cases in which beforeCall lets a call through, as the trial. *)
AdmitsTrial == \/ state = "open" /\ age >= Cooldown
               \/ state = "half-open" /\ ~trialActive

Admits == state = "closed" \/ AdmitsTrial

(* beforeCall admits the call. *)
BeforeCall(c) ==
    /\ stage[c] = "idle"
    /\ \/ /\ state = "closed"
          /\ trial' = [trial EXCEPT ![c] = FALSE]
          /\ UNCHANGED <<state, trialActive>>
       \/ /\ AdmitsTrial
          /\ trial' = [trial EXCEPT ![c] = TRUE]
          /\ state' = "half-open"
          /\ trialActive' = TRUE
    /\ Goto(c, "limit")
    /\ UNCHANGED <<failures, age, tokens, blamed>>

(* Mutant: a cancelled trial does not give its place back. *)
TrialAfterNeutralKept(t) == trialActive

(* A cancelled call decides nothing, but a trial makes room for another. *)
TrialAfterNeutral(t) == ~t /\ trialActive

(* The count after one more failure. *)
Counted == failures + 1

(* Mutant: one failure too many is tolerated. *)
TripsLate(f) == state = "half-open" \/ f > Threshold

(* A failure trips a half-open circuit, and any circuit at the threshold. *)
Trips(f) == state = "half-open" \/ f >= Threshold

(* afterCall for a call whose isTrial is t. *)
AfterCall(t, err) ==
    \/ /\ err \in Neutral
       /\ trialActive' = TrialAfterNeutral(t)
       /\ UNCHANGED <<state, failures, age>>
    \/ /\ err = "ok"
       /\ failures' = 0
       /\ state' = "closed"
       /\ trialActive' = FALSE
       /\ UNCHANGED age
    \/ /\ err \in Failures
       /\ failures < MaxFailures
       /\ failures' = Counted
       /\ IF Trips(Counted)
          THEN state' = "open" /\ age' = 0
          ELSE UNCHANGED <<state, age>>
       /\ trialActive' = FALSE

HasToken == tokens >= 1

(* One turn of the loop of tokenBucket.Wait: take a token, or go to sleep  *)
(* in the select.                                                          *)
WaitRateLimit(c) ==
    /\ stage[c] = "limit"
    /\ \/ HasToken /\ tokens' = tokens - 1 /\ Goto(c, "inner")
       \/ ~HasToken /\ Goto(c, "sleep") /\ UNCHANGED tokens
    /\ UNCHANGED <<breaker, trial, blamed>>

(* time.After fires in the select. *)
WakeUp(c) ==
    /\ stage[c] = "sleep"
    /\ Goto(c, "limit")
    /\ UNCHANGED <<breaker, tokens, trial, blamed>>

(* ctx.Done fires in the select, by cancellation or by the timeout.  The   *)
(* error goes to the breaker, and its text ("rate limit wait cancelled")   *)
(* sends the call to the secondary client.                                 *)
WaitCancelled(c, err) ==
    /\ stage[c] = "sleep"
    /\ AfterCall(trial[c], err)
    /\ Goto(c, "secondary")
    /\ UNCHANGED <<tokens, trial, blamed>>

FailoverRequired(err) == err \in {"transient", "deadline"}

(* The provider answers. *)
InnerReturns(c, err) ==
    /\ stage[c] = "inner"
    /\ AfterCall(trial[c], err)
    /\ blamed' = IF err = "ok" THEN 0 ELSE IF err \in Failures THEN blamed + 1 ELSE blamed
    /\ Goto(c, IF FailoverRequired(err) THEN "secondary" ELSE "idle")
    /\ UNCHANGED <<tokens, trial>>

(* The secondary client answers; its result is returned whatever it is. *)
SecondaryReturns(c) ==
    /\ stage[c] = "secondary"
    /\ Goto(c, "idle")
    /\ UNCHANGED <<breaker, tokens, trial, blamed>>

(* Time passes while the circuit is open. *)
Tick ==
    /\ state = "open" /\ age < Cooldown
    /\ age' = age + 1
    /\ UNCHANGED <<state, failures, trialActive, tokens, stage, trial, blamed>>

(* Time passes for the bucket. *)
Refill ==
    /\ tokens < MaxTokens
    /\ tokens' = tokens + 1
    /\ UNCHANGED <<breaker, stage, trial, blamed>>

Step(c) ==
    \/ WaitRateLimit(c)
    \/ WakeUp(c)
    \/ \E err \in {"canceled", "deadline"} : WaitCancelled(c, err)
    \/ \E err \in Results : InnerReturns(c, err)
    \/ SecondaryReturns(c)

LlmNext ==
    \/ \E c \in Calls : BeforeCall(c)
    \/ \E c \in Calls : Step(c)
    \/ Tick
    \/ Refill

(* Time passes, a goroutine that can run does run, and a provider call     *)
(* returns: WithTimeout bounds it.  Nothing makes a client call.           *)
LlmFairness == WF_llmVars(Tick) /\ WF_llmVars(Refill) /\ \A c \in Calls : WF_llmVars(Step(c))

LlmSpec == LlmInit /\ [][LlmNext]_llmVars /\ LlmFairness

-----------------------------------------------------------------------------
(* Types of the breaker, the bucket and the calls; the bucket never goes   *)
(* below zero or above its capacity.                                       *)
LlmTypeOK ==
    /\ state \in {"closed", "open", "half-open"}
    /\ failures \in Nat
    /\ age \in 0..Cooldown
    /\ trialActive \in BOOLEAN
    /\ tokens \in 0..MaxTokens
    /\ stage \in [Calls -> {"idle", "limit", "sleep", "inner", "secondary"}]
    /\ trial \in [Calls -> BOOLEAN]
    /\ blamed \in Nat

(* The circuit is tripped exactly while the failure count has reached the  *)
(* threshold, also when results arrive that belong to calls admitted       *)
(* before it opened or before a trial ended (circuitbreaker.go:71-94).     *)
TrippedIffThreshold == state # "closed" <=> failures >= Threshold

(* A failure reported by the provider is never lost, so a circuit that has *)
(* seen Threshold consecutive ones is not closed (circuitbreaker.go:23).   *)
NoFailureLost == /\ blamed <= failures
                 /\ blamed >= Threshold => state # "closed"

InFlight(c) == stage[c] \in {"limit", "sleep", "inner"}

(* While beforeCall turns calls away because a trial is on, the circuit is *)
(* half-open and some trial really is in flight and will report: no path   *)
(* of the client forgets afterCall for a trial.                            *)
TrialHasOwner ==
    trialActive => state = "half-open" /\ \E c \in Calls : InFlight(c) /\ trial[c]
=============================================================================
