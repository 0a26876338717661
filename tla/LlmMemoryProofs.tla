-------------------------- MODULE LlmMemoryProofs ---------------------------
(* Proofs about the services an agent calls: the circuit breaker and the   *)
(* token bucket of the client, the budget of the providers and the unified *)
(* memory, for any number of concurrent callers and any threshold,         *)
(* cooldown, capacity, budget and store.                                   *)
EXTENDS LlmClient, Providers, Memory, FiniteSetTheorems, SequenceTheorems, TLAPS

-----------------------------------------------------------------------------
(* The client middleware.                                                  *)

(* Everything the induction needs at once. *)
IInv == LlmTypeOK /\ TrippedIffThreshold /\ NoFailureLost /\ TrialHasOwner

(* afterCall keeps the count, the state and the trial flag in step, given  *)
(* what the call's return does to blamed and to the calls in flight.       *)
LEMMA AfterCallSound ==
    ASSUME NEW c \in Calls, NEW err \in Results, IInv, InFlight(c), AfterCall(trial[c], err),
           tokens' = tokens, trial' = trial,
           stage' = [stage EXCEPT ![c] = "idle"] \/ stage' = [stage EXCEPT ![c] = "secondary"],
           \/ blamed' = blamed /\ err # "ok"
           \/ blamed' = 0 /\ err = "ok"
           \/ blamed' = blamed + 1 /\ err \in Failures
    PROVE IInv'
<1> USE LlmAssumption DEF IInv, LlmTypeOK, TrippedIffThreshold, NoFailureLost, Results, Failures, Neutral
<1>1. LlmTypeOK'
  <2>1. trialActive' \in BOOLEAN
    BY Zenon DEF AfterCall, TrialAfterNeutral
  <2>2. /\ state' \in {"closed", "open", "half-open"}
        /\ failures' \in Nat
        /\ age' \in 0..Cooldown
        /\ blamed' \in Nat
    BY DEF AfterCall, Counted
  <2>3. QED
    BY <2>1, <2>2
<1>2. TrippedIffThreshold' /\ NoFailureLost'
  BY DEF AfterCall, Counted, Trips, TrialHasOwner
<1>3. TrialHasOwner'
  <2>1. CASE err \in Neutral
    <3>1. trialActive' = (~trial[c] /\ trialActive) /\ state' = state
      BY <2>1 DEF AfterCall, TrialAfterNeutral
    <3>2. SUFFICES ASSUME trialActive, ~trial[c]
                   PROVE TrialHasOwner'
      BY <3>1 DEF TrialHasOwner
    <3>3. PICK d \in Calls : InFlight(d) /\ trial[d]
      BY <3>2 DEF TrialHasOwner
    <3>4. InFlight(d)' /\ trial'[d]
      BY <3>2, <3>3 DEF InFlight
    <3>5. QED
      BY <3>1, <3>2, <3>4 DEF TrialHasOwner
  <2>2. CASE err \notin Neutral
    BY <2>2 DEF AfterCall, TrialHasOwner
  <2>3. QED
    BY <2>1, <2>2
<1>4. QED
  BY <1>1, <1>2, <1>3

(* A step that leaves the breaker alone and keeps every call in flight     *)
(* keeps the invariant.                                                    *)
LEMMA BreakerUntouched ==
    ASSUME IInv, UNCHANGED <<state, failures, trialActive, trial, blamed>>, LlmTypeOK',
           \A c \in Calls : InFlight(c) => InFlight(c)'
    PROVE IInv'
BY DEF IInv, TrippedIffThreshold, NoFailureLost, TrialHasOwner

(* Every action preserves the invariant. *)
LEMMA InvStep == IInv /\ [LlmNext]_llmVars => IInv'
<1> SUFFICES ASSUME IInv, [LlmNext]_llmVars
             PROVE IInv'
  OBVIOUS
<1> USE LlmAssumption DEF breaker, Goto
<1>1. ASSUME NEW c \in Calls, BeforeCall(c)
      PROVE IInv'
  <2>1. LlmTypeOK'
    BY <1>1 DEF BeforeCall, IInv, LlmTypeOK
  <2>2. TrippedIffThreshold' /\ NoFailureLost'
    BY <1>1 DEF BeforeCall, AdmitsTrial, IInv, LlmTypeOK, TrippedIffThreshold, NoFailureLost
  <2>3. TrialHasOwner'
    <3>1. CASE AdmitsTrial /\ trial' = [trial EXCEPT ![c] = TRUE] /\ state' = "half-open"
      <4>1. InFlight(c)' /\ trial'[c]
        BY <1>1, <3>1 DEF BeforeCall, InFlight, IInv, LlmTypeOK
      <4>2. QED
        BY <3>1, <4>1 DEF TrialHasOwner
    <3>2. CASE state = "closed" /\ UNCHANGED <<state, trialActive>>
      BY <3>2 DEF IInv, TrialHasOwner
    <3>3. QED
      BY <1>1, <3>1, <3>2 DEF BeforeCall
  <2>4. QED
    BY <2>1, <2>2, <2>3 DEF IInv
<1>2. ASSUME NEW c \in Calls, WaitRateLimit(c) \/ WakeUp(c) \/ SecondaryReturns(c)
      PROVE IInv'
  <2>1. LlmTypeOK'
    BY <1>2 DEF WaitRateLimit, HasToken, WakeUp, SecondaryReturns, IInv, LlmTypeOK
  <2>2. \A d \in Calls : InFlight(d) => InFlight(d)'
    BY <1>2 DEF WaitRateLimit, WakeUp, SecondaryReturns, InFlight, IInv, LlmTypeOK
  <2>3. QED
    BY <1>2, <2>1, <2>2, BreakerUntouched DEF WaitRateLimit, WakeUp, SecondaryReturns
<1>3. ASSUME NEW c \in Calls, NEW err \in {"canceled", "deadline"}, WaitCancelled(c, err)
      PROVE IInv'
  <2>1. InFlight(c) /\ err \in Results /\ err # "ok"
    BY <1>3 DEF WaitCancelled, InFlight, Results, Failures, Neutral
  <2>2. QED
    BY <1>3, <2>1, AfterCallSound DEF WaitCancelled
<1>4. ASSUME NEW c \in Calls, NEW err \in Results, InnerReturns(c, err)
      PROVE IInv'
  <2>1. InFlight(c)
    BY <1>4 DEF InnerReturns, InFlight
  <2>2. \/ blamed' = blamed /\ err # "ok"
        \/ blamed' = 0 /\ err = "ok"
        \/ blamed' = blamed + 1 /\ err \in Failures
    BY <1>4 DEF InnerReturns, Failures
  <2>3. stage' = [stage EXCEPT ![c] = "idle"] \/ stage' = [stage EXCEPT ![c] = "secondary"]
    BY <1>4 DEF InnerReturns
  <2>4. QED
    BY <1>4, <2>1, <2>2, <2>3, AfterCallSound DEF InnerReturns
<1>5. CASE Tick
  BY <1>5, BreakerUntouched DEF Tick, IInv, LlmTypeOK, InFlight
<1>6. CASE Refill
  BY <1>6, BreakerUntouched DEF Refill, IInv, LlmTypeOK, InFlight
<1>7. CASE UNCHANGED llmVars
  BY <1>7, BreakerUntouched DEF llmVars, IInv, LlmTypeOK, InFlight
<1>8. QED
  BY <1>1, <1>2, <1>3, <1>4, <1>5, <1>6, <1>7 DEF LlmNext, Step

(* The inductive invariant holds in every reachable state. *)
THEOREM Invariance == LlmSpec => []IInv
<1>1. LlmInit => IInv
  <2>1. LlmInit => LlmTypeOK
    <3>1. LlmInit => trialActive \in BOOLEAN /\ trial \in [Calls -> BOOLEAN]
      BY Zenon DEF LlmInit
    <3>2. LlmInit => /\ state \in {"closed", "open", "half-open"}
                  /\ failures \in Nat /\ age \in 0..Cooldown /\ tokens \in 0..MaxTokens /\ blamed \in Nat
                  /\ stage \in [Calls -> {"idle", "limit", "sleep", "inner", "secondary"}]
      BY LlmAssumption DEF LlmInit
    <3>3. QED
      BY <3>1, <3>2 DEF LlmTypeOK
  <2>2. LlmInit => TrippedIffThreshold /\ NoFailureLost
    BY LlmAssumption DEF LlmInit, TrippedIffThreshold, NoFailureLost
  <2>3. LlmInit => TrialHasOwner
    BY Zenon DEF LlmInit, TrialHasOwner
  <2>4. QED
    BY <2>1, <2>2, <2>3 DEF IInv
<1>2. QED
  BY <1>1, InvStep, PTL DEF LlmSpec

(* The breaker is tripped exactly from the threshold on, and no failure of *)
(* the provider is lost, whatever the order in which the results of        *)
(* concurrent calls reach afterCall (circuitbreaker.go:71-94).             *)
THEOREM BreakerTracksFailures == LlmSpec => [](TrippedIffThreshold /\ NoFailureLost)
<1>1. IInv => TrippedIffThreshold /\ NoFailureLost
  BY DEF IInv
<1>2. QED
  BY Invariance, <1>1, PTL

(* A half-open circuit that turns calls away has a trial in flight         *)
(* (circuitbreaker.go:49-78, middleware.go:107-190).                       *)
THEOREM TrialNeverOrphaned == LlmSpec => []TrialHasOwner
<1>1. IInv => TrialHasOwner
  BY DEF IInv
<1>2. QED
  BY Invariance, <1>1, PTL

-----------------------------------------------------------------------------
(* The providers and their budget.                                         *)

Fields == {"step", "entry", "tries", "ok", "snap"}

AsksSound == DOMAIN ask = Askers /\ \A c \in Askers : DOMAIN ask[c] = Fields

(* The calls that were checked against the budget and not charged yet.     *)
Uncharged == {c \in Askers : ask[c].step # "" /\ ask[c].entry.admit}

(* From the moment the budget is used up, every overdraft was in flight    *)
(* then, and none of them is the call that used it up.                     *)
OverdraftSound ==
    /\ spent \in Nat /\ overdrawn \in Nat
    /\ ~NothingLeft => overdrawn = 0
    /\ NothingLeft => overdrawn + Cardinality(Uncharged) < Cardinality(Askers)

ProvIInv == AsksSound /\ OverdraftSound

(* There are finitely many calls that are admitted and not charged.        *)
LEMMA UnchargedFinite ==
    /\ IsFiniteSet(Uncharged) /\ Cardinality(Uncharged) \in Nat
    /\ Cardinality(Askers) \in Nat /\ Cardinality(Askers) > 0
<1>1. IsFiniteSet(Askers) /\ Askers # {}
  BY ProvAssumption
<1>2. Uncharged \subseteq Askers
  BY DEF Uncharged
<1>3. IsFiniteSet(Uncharged) /\ Cardinality(Uncharged) \in Nat /\ Cardinality(Askers) \in Nat
  BY <1>1, <1>2, FS_Subset, FS_CardinalityType
<1>4. Cardinality(Askers) # 0
  BY <1>1, FS_EmptySet
<1>5. QED
  BY <1>3, <1>4

(* A caller's record is replaced by one that is done, or by one of the     *)
(* same call.                                                              *)
LEMMA AskMoves ==
    ASSUME AsksSound, NEW c \in Askers, NEW r, Put(c, r), DOMAIN r = Fields
    PROVE  /\ AsksSound' /\ ask'[c] = r /\ \A d \in Askers \ {c} : ask'[d] = ask[d]
BY DEF AsksSound, Put

(* A call that returns is no longer uncharged.                             *)
LEMMA FinishMoves ==
    ASSUME AsksSound, NEW c \in Askers, NEW ok, Finish(c, ok)
    PROVE  AsksSound' /\ Uncharged' = Uncharged \ {c}
<1> DEFINE r == [Unasked EXCEPT !.ok = ok]
<1>1. Put(c, r) /\ DOMAIN r = Fields /\ r.step = ""
  BY DEF Finish, Unasked, Fields
<1> HIDE DEF r
<1>2. AsksSound' /\ ask'[c] = r /\ \A d \in Askers \ {c} : ask'[d] = ask[d]
  BY <1>1, AskMoves
<1>3. Uncharged' = Uncharged \ {c}
  <2>1. \A d \in Askers \ {c} : d \in Uncharged' <=> d \in Uncharged
    BY <1>2, Zenon DEF Uncharged
  <2>2. c \notin Uncharged'
    BY <1>1, <1>2, Zenon DEF Uncharged
  <2>3. Uncharged \subseteq Askers /\ Uncharged' \subseteq Askers
    BY Zenon DEF Uncharged
  <2>4. QED
    BY <2>1, <2>2, <2>3
<1>4. QED
  BY <1>2, <1>3

(* A step of a call that goes on.                                          *)
LEMMA GoesOn ==
    ASSUME AsksSound, NEW c \in Askers, ask[c].step # "", NEW r, Put(c, r), DOMAIN r = Fields,
           r.entry = ask[c].entry
    PROVE  AsksSound' /\ Uncharged' \subseteq Uncharged
<1>1. AsksSound' /\ ask'[c] = r /\ \A d \in Askers \ {c} : ask'[d] = ask[d]
  BY AskMoves
<1>2. ASSUME NEW d \in Uncharged' PROVE d \in Uncharged
  <2>1. d \in Askers /\ ask'[d].entry.admit /\ ask'[d].step # ""
    BY <1>2, Zenon DEF Uncharged
  <2>2. CASE d = c
    BY <1>1, <2>1, <2>2, Zenon DEF Uncharged
  <2>3. CASE d # c
    <3>1. ask'[d] = ask[d]
      BY <1>1, <2>1, <2>3
    <3>2. QED
      BY <2>1, <3>1, Zenon DEF Uncharged
  <2>4. QED
    BY <2>2, <2>3
<1>3. QED
  BY <1>1, <1>2

(* While nothing is charged, fewer uncharged calls keep the bound.         *)
LEMMA UnchargedShrinks ==
    ASSUME ProvIInv, AsksSound', spent' = spent, overdrawn' = overdrawn, NothingLeft => Uncharged' \subseteq Uncharged
    PROVE  ProvIInv'
<1>1. NothingLeft' <=> NothingLeft
  BY DEF NothingLeft
<1>2. OverdraftSound
  BY DEF ProvIInv
<1>3. CASE ~NothingLeft
  BY <1>1, <1>2, <1>3 DEF OverdraftSound, ProvIInv
<1>4. CASE NothingLeft
  <2>1. /\ IsFiniteSet(Uncharged) /\ Cardinality(Uncharged) \in Nat /\ Cardinality(Askers) \in Nat
    BY UnchargedFinite
  <2>2. IsFiniteSet(Uncharged') /\ Cardinality(Uncharged') <= Cardinality(Uncharged)
    BY <1>4, <2>1, FS_Subset
  <2>3. Cardinality(Uncharged') \in Nat
    BY <2>2, FS_CardinalityType
  <2>4. overdrawn + Cardinality(Uncharged) < Cardinality(Askers) /\ overdrawn \in Nat /\ spent \in Nat
    BY <1>2, <1>4 DEF OverdraftSound
  <2>5. overdrawn + Cardinality(Uncharged') < Cardinality(Askers)
    BY <2>1, <2>2, <2>3, <2>4
  <2>6. OverdraftSound'
    BY <1>1, <1>4, <2>4, <2>5 DEF OverdraftSound
  <2>7. QED
    BY <2>6 DEF ProvIInv
<1>5. QED
  BY <1>3, <1>4

(* AdmitBudget turns every checked call away once nothing is left.         *)
LEMMA CallSound ==
    ASSUME ProvIInv, NEW c \in Askers, Call(c)
    PROVE  ProvIInv'
<1>0. AsksSound /\ spent \in Nat /\ MaxSpend \in Nat
  BY ProvAssumption DEF ProvIInv, OverdraftSound
<1>1. spent' = spent /\ overdrawn' = overdrawn /\ ask[c].step = ""
  BY Zenon DEF Call
<1>2. PICK e \in InUse : \/ Finish(c, FALSE)
                         \/ (~e.admit \/ CheckBudget) /\ Put(c, [Unasked EXCEPT !.step = "request", !.entry = e])
  BY Zenon DEF Call
<1>3. CASE Finish(c, FALSE)
  <2>1. AsksSound' /\ Uncharged' = Uncharged \ {c}
    BY <1>0, <1>3, FinishMoves
  <2>2. QED
    BY <1>1, <2>1, UnchargedShrinks
<1>4. CASE (~e.admit \/ CheckBudget) /\ Put(c, [Unasked EXCEPT !.step = "request", !.entry = e])
  <2> DEFINE r == [Unasked EXCEPT !.step = "request", !.entry = e]
  <2>1. Put(c, r) /\ DOMAIN r = Fields /\ r.entry = e
    BY <1>4 DEF Unasked, Fields
  <2> HIDE DEF r
  <2>2. AsksSound' /\ ask'[c] = r /\ \A d \in Askers \ {c} : ask'[d] = ask[d]
    BY <1>0, <2>1, AskMoves
  <2>3. CheckBudget => ~NothingLeft
    BY <1>0 DEF CheckBudget, NothingLeft
  <2>4. ASSUME NothingLeft, NEW d \in Uncharged' PROVE d \in Uncharged
    <3>1. d \in Askers /\ ask'[d].entry.admit /\ ask'[d].step # ""
      BY <2>4, Zenon DEF Uncharged
    <3>2. ~e.admit
      BY <1>4, <2>3, <2>4, Zenon
    <3>3. d # c
      BY <2>1, <2>2, <3>1, <3>2, Zenon
    <3>4. ask'[d] = ask[d]
      BY <2>2, <3>1, <3>3
    <3>5. QED
      BY <3>1, <3>4, Zenon DEF Uncharged
  <2>5. NothingLeft => Uncharged' \subseteq Uncharged
    BY <2>4
  <2>6. QED
    BY <1>1, <2>2, <2>5, UnchargedShrinks
<1>5. QED
  BY <1>2, <1>3, <1>4

(* What the steps of a call before its charge come down to.                *)
LEMMA OnTheWay ==
    ASSUME ProvIInv, NEW c \in Askers,
           RoundTrip(c) \/ Answer(c) \/ StreamChunk(c) \/ CalculateCost(c) \/ StorePrices(c)
    PROVE  ProvIInv'
<1>0. AsksSound /\ DOMAIN ask[c] = Fields /\ spent' = spent /\ overdrawn' = overdrawn /\ ask[c].step # ""
  <2>1. AsksSound /\ DOMAIN ask[c] = Fields
    BY DEF ProvIInv, AsksSound
  <2>2. spent' = spent /\ overdrawn' = overdrawn
    BY Zenon DEF RoundTrip, Answer, StreamChunk, CalculateCost, StorePrices
  <2>3. ask[c].step \in {"request", "answer", "stream", "price", "store"}
    BY Zenon DEF RoundTrip, Answer, StreamChunk, CalculateCost, StorePrices
  <2>4. QED
    BY <2>1, <2>2, <2>3
<1>1. \/ \E ok \in BOOLEAN : Finish(c, ok)
      \/ ask' = ask
      \/ \E n : Put(c, [ask[c] EXCEPT !.tries = n])
      \/ \E s : Put(c, [ask[c] EXCEPT !.step = s])
      \/ \E s, ok : Put(c, [ask[c] EXCEPT !.step = s, !.ok = ok])
      \/ \E s, p : Put(c, [ask[c] EXCEPT !.step = s, !.snap = p])
  <2>1. CASE RoundTrip(c)
    BY <2>1, Zenon DEF RoundTrip
  <2>2. CASE Answer(c)
    BY <2>2, Zenon DEF Answer
  <2>3. CASE StreamChunk(c)
    BY <2>3, Zenon DEF StreamChunk
  <2>4. CASE CalculateCost(c) \/ StorePrices(c)
    BY <2>4, Zenon DEF CalculateCost, NewPriceCache, FetchPrices, StorePrices
  <2>5. QED
    BY <2>1, <2>2, <2>3, <2>4
<1>2. AsksSound' /\ Uncharged' \subseteq Uncharged
  <2>1. CASE \E ok \in BOOLEAN : Finish(c, ok)
    BY <1>0, <2>1, FinishMoves
  <2>2. CASE ask' = ask
    BY <1>0, <2>2, Zenon DEF AsksSound, Uncharged
  <2>3. ASSUME NEW r, Put(c, r), DOMAIN r = Fields, r.entry = ask[c].entry
        PROVE  AsksSound' /\ Uncharged' \subseteq Uncharged
    BY <1>0, <2>3, GoesOn
  <2>4. ASSUME NEW n, NEW s, NEW ok, NEW p
        PROVE  /\ DOMAIN [ask[c] EXCEPT !.tries = n] = Fields /\ [ask[c] EXCEPT !.tries = n].entry = ask[c].entry
               /\ DOMAIN [ask[c] EXCEPT !.step = s] = Fields /\ [ask[c] EXCEPT !.step = s].entry = ask[c].entry
               /\ DOMAIN [ask[c] EXCEPT !.step = s, !.ok = ok] = Fields
               /\ [ask[c] EXCEPT !.step = s, !.ok = ok].entry = ask[c].entry
               /\ DOMAIN [ask[c] EXCEPT !.step = s, !.snap = p] = Fields
               /\ [ask[c] EXCEPT !.step = s, !.snap = p].entry = ask[c].entry
    BY <1>0 DEF Fields
  <2>5. QED
    BY <1>1, <2>1, <2>2, <2>3, <2>4, Zenon
<1>3. QED
  BY <1>0, <1>2, UnchargedShrinks

(* The charge: the call that uses the budget up was not overdrawn itself.  *)
LEMMA RecordSound ==
    ASSUME ProvIInv, NEW c \in Askers, Record(c)
    PROVE  ProvIInv'
<1>0. AsksSound /\ OverdraftSound /\ spent \in Nat /\ overdrawn \in Nat /\ MaxSpend \in Nat
  BY ProvAssumption DEF ProvIInv, OverdraftSound
<1>1. /\ ask[c].step = "record" /\ \E cost \in 1..MaxCost : spent' = spent + cost
      /\ overdrawn' = IF ask[c].entry.admit /\ NothingLeft THEN overdrawn + 1 ELSE overdrawn
      /\ \E ok : Finish(c, ok)
  BY Zenon DEF Record
<1>2. spent' \in Nat /\ spent' >= spent
  BY <1>0, <1>1, ProvAssumption
<1>3. AsksSound' /\ Uncharged' = Uncharged \ {c}
  BY <1>0, <1>1, FinishMoves
<1>4. NothingLeft => NothingLeft'
  BY <1>0, <1>2 DEF NothingLeft
<1>5. /\ IsFiniteSet(Uncharged) /\ Cardinality(Uncharged) \in Nat
      /\ Cardinality(Askers) \in Nat /\ Cardinality(Askers) > 0 /\ IsFiniteSet(Askers)
  BY UnchargedFinite, ProvAssumption
<1>6. /\ Cardinality(Uncharged') \in Nat /\ Cardinality(Uncharged') <= Cardinality(Uncharged)
      /\ c \in Uncharged => Cardinality(Uncharged') = Cardinality(Uncharged) - 1
  BY <1>3, <1>5, FS_RemoveElement, FS_Subset, FS_CardinalityType
<1>7. CASE ~NothingLeft
  <2>1. overdrawn' = 0
    <3>1. overdrawn' = overdrawn
      BY <1>1, <1>7, Zenon
    <3>2. QED
      BY <1>0, <1>7, <3>1 DEF OverdraftSound
  <2>2. Cardinality(Uncharged') < Cardinality(Askers)
    <3>1. Uncharged' \subseteq Askers \ {c}
      BY <1>3, Zenon DEF Uncharged
    <3>2. IsFiniteSet(Askers \ {c}) /\ Cardinality(Askers \ {c}) = Cardinality(Askers) - 1
      BY <1>5, FS_RemoveElement
    <3>3. Cardinality(Uncharged') <= Cardinality(Askers \ {c})
      BY <3>1, <3>2, FS_Subset
    <3>4. QED
      BY <1>5, <1>6, <3>2, <3>3
  <2>3. overdrawn' + Cardinality(Uncharged') < Cardinality(Askers)
    BY <1>5, <1>6, <2>1, <2>2
  <2>4. OverdraftSound'
    BY <1>2, <2>1, <2>3 DEF OverdraftSound
  <2>5. QED
    BY <1>3, <2>4 DEF ProvIInv
<1>8. CASE NothingLeft
  <2>1. overdrawn + Cardinality(Uncharged) < Cardinality(Askers)
    BY <1>0, <1>8 DEF OverdraftSound
  <2>2. overdrawn' \in Nat /\ overdrawn' + Cardinality(Uncharged') < Cardinality(Askers)
    <3>1. CASE ask[c].entry.admit
      <4>1. overdrawn' = overdrawn + 1
        BY <1>1, <1>8, <3>1, Zenon
      <4>2. ask[c].step # ""
        BY <1>1
      <4>3. c \in Uncharged
        BY <3>1, <4>2, Zenon DEF Uncharged
      <4>4. Cardinality(Uncharged') = Cardinality(Uncharged) - 1
        BY <1>6, <4>3
      <4>5. QED
        BY <1>0, <1>5, <1>6, <2>1, <4>1, <4>4
    <3>2. CASE ~ask[c].entry.admit
      <4>1. overdrawn' = overdrawn
        BY <1>1, <3>2, Zenon
      <4>2. QED
        BY <1>0, <1>5, <1>6, <2>1, <4>1
    <3>3. QED
      BY <3>1, <3>2, Zenon
  <2>3. OverdraftSound'
    BY <1>2, <1>4, <1>8, <2>2 DEF OverdraftSound
  <2>4. QED
    BY <1>3, <2>3 DEF ProvIInv
<1>9. QED
  BY <1>7, <1>8

(* The budget is overdrawn only by the calls that were in flight when it   *)
(* was used up: the calls charged after that are fewer than the callers,   *)
(* for any number of them and any budget (usage.go CheckBudget before a    *)
(* call and Record after it).                                              *)
THEOREM BudgetsBounded == ProvSpec => []BudgetBounded
<1>1. ProvInit => ProvIInv
  <2>1. SUFFICES ASSUME ProvInit PROVE ProvIInv
    OBVIOUS
  <2>2. ask = [c \in Askers |-> Unasked] /\ spent = 0 /\ overdrawn = 0
    BY <2>1, Zenon DEF ProvInit
  <2>3. AsksSound
    BY <2>2 DEF AsksSound, Unasked, Fields
  <2>4. ~NothingLeft
    BY <2>2, ProvAssumption DEF NothingLeft
  <2>5. QED
    BY <2>2, <2>3, <2>4 DEF ProvIInv, OverdraftSound
<1>2. ProvIInv /\ [ProvNext]_provVars => ProvIInv'
  <2>1. SUFFICES ASSUME ProvIInv, [ProvNext]_provVars PROVE ProvIInv'
    OBVIOUS
  <2>2. CASE SetModelPricing \/ Expire \/ UNCHANGED provVars
    <3>1. ask' = ask /\ spent' = spent /\ overdrawn' = overdrawn
      BY <2>2, Zenon DEF SetModelPricing, Expire, provVars
    <3>2. AsksSound' /\ Uncharged' = Uncharged
      BY <2>1, <3>1, Zenon DEF ProvIInv, AsksSound, Uncharged
    <3>3. QED
      BY <2>1, <3>1, <3>2, UnchargedShrinks
  <2>3. QED
    BY <2>1, <2>2, CallSound, OnTheWay, RecordSound, Zenon DEF ProvNext, AskNext
<1>3. ProvIInv => BudgetBounded
  <2>1. SUFFICES ASSUME ProvIInv PROVE BudgetBounded
    OBVIOUS
  <2>2. CASE NothingLeft
    BY <2>1, <2>2, UnchargedFinite DEF ProvIInv, OverdraftSound, BudgetBounded
  <2>3. CASE ~NothingLeft
    BY <2>1, <2>3, UnchargedFinite DEF ProvIInv, OverdraftSound, BudgetBounded
  <2>4. QED
    BY <2>2, <2>3
<1>4. QED
  BY <1>1, <1>2, <1>3, PTL DEF ProvSpec

-----------------------------------------------------------------------------
(* The unified memory.                                                     *)

UseFields == {"name", "step", "path", "todo", "tries", "ok", "before", "res", "opts"}

UsesSound == DOMAIN use = Users /\ \A c \in Users : DOMAIN use[c] = UseFields

(* A recall of scopes asks one of them after the other, and what it has    *)
(* gathered so far passed its filters.                                     *)
RecallSound(u) ==
    u.name = "recall" =>
        /\ u.step \in {"", "search"}
        /\ u.step = "search" => u.todo \subseteq u.before /\ (u.before # {} => u.todo # {})
        /\ \A i \in u.res :
              /\ u.before # {} => i.scoped /\ \E p \in u.before : InScope(i.path, p)
              /\ u.opts.src # "none" => i.src \in {"none", u.opts.src}
              /\ i.priv => u.opts.priv

RecallIInv == UsesSound /\ \A c \in Users : RecallSound(use[c])

(* A caller that rests has every field of a caller.                        *)
LEMMA RestingFields ==
    DOMAIN Resting = UseFields /\ Resting.name = "rest" /\ Resting.step = ""
BY DEF Resting, UseFields

(* A step of one caller leaves the records of the others alone.            *)
LEMMA HoldMoves ==
    ASSUME UsesSound, NEW c \in Users, NEW r, Hold(c, r), DOMAIN r = UseFields
    PROVE  UsesSound' /\ use'[c] = r /\ \A d \in Users \ {c} : use'[d] = use[d]
BY DEF UsesSound, Hold

(* A step of one caller that keeps its own recall sound keeps all sound.   *)
LEMMA RecallMoves ==
    ASSUME RecallIInv, NEW c \in Users, NEW r, Hold(c, r), DOMAIN r = UseFields, RecallSound(r)
    PROVE  RecallIInv'
<1>1. UsesSound' /\ use'[c] = r /\ \A d \in Users \ {c} : use'[d] = use[d]
  BY HoldMoves DEF RecallIInv
<1>2. ASSUME NEW d \in Users PROVE RecallSound(use'[d])
  <2>1. CASE d = c
    BY <1>1, <2>1
  <2>2. CASE d # c
    BY <1>1, <2>2 DEF RecallIInv
  <2>3. QED
    BY <2>1, <2>2
<1>3. QED
  BY <1>1, <1>2 DEF RecallIInv

(* A step of the caller c that is not one of a recall.                     *)
LEMMA NoRecall ==
    ASSUME RecallIInv, NEW c \in Users, NEW r, Hold(c, r), DOMAIN r = UseFields, r.name # "recall"
    PROVE  RecallIInv'
<1>1. RecallSound(r)
  BY DEF RecallSound
<1>2. QED
  BY <1>1, RecallMoves

(* A caller that returns has no recall under way.                          *)
LEMMA ReturnRecall ==
    ASSUME RecallIInv, NEW c \in Users, NEW ok, Return(c, ok)
    PROVE  RecallIInv'
<1> DEFINE r == [Resting EXCEPT !.ok = ok]
<1>1. Hold(c, r) /\ DOMAIN r = UseFields /\ r.name # "recall"
  BY RestingFields DEF Return, UseFields
<1> HIDE DEF r
<1>2. QED
  BY <1>1, NoRecall

(* A caller in the middle of another operation than a recall.              *)
LEMMA OtherThanRecall ==
    ASSUME RecallIInv, NEW c \in Users, use[c].step \notin {"", "search"}
    PROVE  DOMAIN use[c] = UseFields /\ use[c].name # "recall"
BY DEF RecallIInv, RecallSound, UsesSound

(* A ranking keeps nothing that it was not given.                          *)
LEMMA BestBelow ==
    ASSUME NEW S, NEW limit, NEW B \in Best(S, limit)
    PROVE  B \subseteq S
BY DEF Best

(* What a search adds passed the scope filter of the scope it asked, the   *)
(* source filter and the privacy filter; the merge adds nothing.           *)
LEMMA SearchStoreSound ==
    ASSUME RecallIInv, NEW c \in Users, SearchStore(c)
    PROVE  RecallIInv'
<1> DEFINE u == use[c]
           some == u.before # {}
           p == IF some THEN CHOOSE x \in u.todo : TRUE ELSE <<>>
           Passed(res) == \A i \in res :
                              /\ some => i.scoped /\ \E q \in u.before : InScope(i.path, q)
                              /\ u.opts.src # "none" => i.src \in {"none", u.opts.src}
                              /\ i.priv => u.opts.priv
           Next1(res) == IF u.todo \ {p} = {} THEN \E B \in Best(res, Page) : ReturnRes(c, TRUE, B)
                         ELSE Hold(c, [u EXCEPT !.todo = @ \ {p}, !.res = res, !.tries = 0])
<1>0. DOMAIN u = UseFields /\ RecallSound(u) /\ u.step = "search"
  BY DEF RecallIInv, UsesSound, SearchStore
<1>1. CASE u.name # "recall"
  <2>1. \E r : Hold(c, r) /\ DOMAIN r = UseFields /\ r.name # "recall"
    <3>1. \/ \E ok, res : ReturnRes(c, ok, res)
          \/ \E res : Hold(c, [u EXCEPT !.todo = @ \ {p}, !.res = res, !.tries = 0])
          \/ Hold(c, [u EXCEPT !.tries = @ + 1])
      BY Zenon DEF SearchStore
    <3>2. CASE \E ok, res : ReturnRes(c, ok, res)
      <4>1. PICK ok, res : ReturnRes(c, ok, res)
        BY <3>2
      <4> DEFINE r == [u EXCEPT !.step = "", !.ok = ok, !.todo = {}, !.tries = 0, !.res = res]
      <4>2. Hold(c, r)
        BY <4>1 DEF ReturnRes
      <4>3. DOMAIN r = UseFields /\ r.name # "recall"
        BY <1>0, <1>1 DEF UseFields
      <4>4. QED
        BY <4>2, <4>3
    <3>3. CASE \E res : Hold(c, [u EXCEPT !.todo = @ \ {p}, !.res = res, !.tries = 0])
      <4>1. PICK res : Hold(c, [u EXCEPT !.todo = @ \ {p}, !.res = res, !.tries = 0])
        BY <3>3
      <4> DEFINE r == [u EXCEPT !.todo = @ \ {p}, !.res = res, !.tries = 0]
      <4>2. Hold(c, r)
        BY <4>1
      <4>3. DOMAIN r = UseFields /\ r.name # "recall"
        BY <1>0, <1>1 DEF UseFields
      <4> HIDE DEF r
      <4>4. QED
        BY <4>2, <4>3
    <3>4. CASE Hold(c, [u EXCEPT !.tries = @ + 1])
      BY <1>0, <1>1, <3>4 DEF UseFields
    <3>5. QED
      BY <3>1, <3>2, <3>3, <3>4
  <2>2. QED
    BY <2>1, NoRecall
<1>2. CASE u.name = "recall"
  <2>1. Passed(u.res) /\ u.todo \subseteq u.before /\ (some => p \in u.before)
    BY <1>0, <1>2 DEF RecallSound
  <2>2. \A B : Passed(u.res \cup Recall(B, u.opts, some, p))
    BY <2>1 DEF Recall
  <2>3. ASSUME NEW ok, NEW res, Passed(res), ReturnRes(c, ok, res) PROVE RecallIInv'
    <3> DEFINE r == [u EXCEPT !.step = "", !.ok = ok, !.todo = {}, !.tries = 0, !.res = res]
    <3>1. /\ Hold(c, r) /\ DOMAIN r = UseFields /\ r.step = "" /\ r.res = res /\ r.before = u.before
          /\ r.opts = u.opts
      BY <1>0, <2>3 DEF ReturnRes, UseFields
    <3> HIDE DEF r
    <3>2. RecallSound(r)
      BY <3>1, <2>3, Zenon DEF RecallSound
    <3>3. QED
      BY <3>1, <3>2, RecallMoves
  <2>4. ASSUME NEW res, Passed(res), Next1(res) PROVE RecallIInv'
    <3>1. CASE \E B \in Best(res, Page) : ReturnRes(c, TRUE, B)
      <4>1. PICK B \in Best(res, Page) : ReturnRes(c, TRUE, B)
        BY <3>1
      <4>2. Passed(B)
        BY <2>4, <4>1, BestBelow
      <4>3. QED
        BY <4>1, <4>2, <2>3
    <3>2. CASE u.todo \ {p} # {} /\ Hold(c, [u EXCEPT !.todo = @ \ {p}, !.res = res, !.tries = 0])
      <4> DEFINE r == [u EXCEPT !.todo = @ \ {p}, !.res = res, !.tries = 0]
      <4>1. /\ Hold(c, r) /\ DOMAIN r = UseFields /\ r.step = "search" /\ r.res = res /\ r.before = u.before
            /\ r.todo = u.todo \ {p} /\ r.todo # {} /\ r.opts = u.opts
        BY <1>0, <3>2 DEF UseFields
      <4> HIDE DEF r
      <4>2. r.todo \subseteq r.before
        BY <4>1, <2>1
      <4>3. RecallSound(r)
        BY <4>1, <4>2, <2>4, Zenon DEF RecallSound
      <4>4. QED
        BY <4>1, <4>3, RecallMoves
    <3>3. QED
      BY <2>4, <3>1, <3>2
  <2>5. CASE Hold(c, [u EXCEPT !.tries = @ + 1])
    <3> DEFINE r == [u EXCEPT !.tries = @ + 1]
    <3>1. /\ Hold(c, r) /\ DOMAIN r = UseFields /\ r.step = "search" /\ r.res = u.res /\ r.before = u.before
          /\ r.todo = u.todo /\ r.name = u.name /\ r.opts = u.opts
      BY <1>0, <2>5 DEF UseFields
    <3> HIDE DEF r
    <3>2. RecallSound(r)
      BY <1>0, <3>1, Zenon DEF RecallSound
    <3>3. QED
      BY <3>1, <3>2, RecallMoves
  <2>6. \/ ReturnRes(c, FALSE, {})
        \/ Hold(c, [u EXCEPT !.tries = @ + 1])
        \/ \E B : Next1(u.res \cup Recall(B, u.opts, some, p))
        \/ Next1(u.res)
    BY Zenon DEF SearchStore
  <2>7. Passed({})
    OBVIOUS
  <2>8. QED
    BY <2>1, <2>2, <2>3, <2>4, <2>5, <2>6, <2>7
<1>3. QED
  BY <1>1, <1>2

(* Every step but a search leaves the recalls alone, or begins one.        *)
LEMMA UseRecall ==
    ASSUME RecallIInv, NEW c \in Users, UserNext(c) \/ Converse(c)
    PROVE  RecallIInv'
<1>0. DOMAIN use[c] = UseFields
  BY DEF RecallIInv, UsesSound
<1>1. ASSUME NEW B, Adding(c, B) PROVE RecallIInv'
  <2> DEFINE r == [Resting EXCEPT !.name = "add", !.step = "add", !.todo = B]
  <2>1. Hold(c, r) /\ DOMAIN r = UseFields /\ r.name # "recall"
    BY <1>1, RestingFields DEF Adding, UseFields
  <2> HIDE DEF r
  <2>2. QED
    BY <2>1, NoRecall
<1>2. CASE Remember(c) \/ SaveLongTerm(c) \/ Ingest(c)
  BY <1>1, <1>2 DEF Remember, SaveLongTerm, Ingest
<1>3. CASE SliceReadOnly(c) \/ AwaitWriter(c) \/ CountItems(c) \/ EnsureCollection(c) \/ Converse(c)
  <2>1. \E ok : Return(c, ok)
    BY <1>3, Zenon DEF SliceReadOnly, AwaitWriter, CountItems, EnsureCollection, Converse
  <2>2. QED
    BY <2>1, ReturnRecall
<1>4. ASSUME Failed(c), use[c].name # "recall" PROVE RecallIInv'
  <2>1. CASE Hold(c, [use[c] EXCEPT !.tries = @ + 1])
    <3> DEFINE r == [use[c] EXCEPT !.tries = @ + 1]
    <3>1. Hold(c, r) /\ DOMAIN r = UseFields /\ r.name # "recall"
      BY <1>0, <1>4, <2>1 DEF UseFields
    <3> HIDE DEF r
    <3>2. QED
      BY <3>1, NoRecall
  <2>2. QED
    BY <1>4, <2>1, ReturnRecall DEF Failed
<1>5. CASE AddItem(c)
  <2>1. use[c].name # "recall"
    BY <1>5, OtherThanRecall DEF AddItem
  <2>2. Failed(c) \/ \E ok : Return(c, ok)
    BY <1>5, Zenon DEF AddItem
  <2>3. QED
    BY <2>1, <2>2, <1>4, ReturnRecall
<1>6. CASE RememberMany(c)
  <2>1. PICK n : Hold(c, [Resting EXCEPT !.name = "many", !.step = "send", !.tries = n])
    BY <1>6 DEF RememberMany
  <2> DEFINE r == [Resting EXCEPT !.name = "many", !.step = "send", !.tries = n]
  <2>2. Hold(c, r)
    BY <2>1
  <2>3. DOMAIN r = UseFields /\ r.name # "recall"
    BY RestingFields DEF UseFields
  <2> HIDE DEF r
  <2>4. QED
    BY <2>2, <2>3, NoRecall
<1>7. CASE Send(c)
  <2>1. use[c].name # "recall"
    BY <1>7, OtherThanRecall DEF Send
  <2>2. CASE Hold(c, [use[c] EXCEPT !.tries = @ - 1])
    <3> DEFINE r == [use[c] EXCEPT !.tries = @ - 1]
    <3>1. Hold(c, r) /\ DOMAIN r = UseFields /\ r.name # "recall"
      BY <1>0, <2>1, <2>2 DEF UseFields
    <3> HIDE DEF r
    <3>2. QED
      BY <3>1, NoRecall
  <2>3. CASE use' = use
    BY <2>3 DEF RecallIInv, UsesSound
  <2>4. \/ use' = use \/ Hold(c, [use[c] EXCEPT !.tries = @ - 1]) \/ Return(c, TRUE)
    BY <1>7, Zenon DEF Send
  <2>5. QED
    BY <2>2, <2>3, <2>4, ReturnRecall
<1>8. CASE DrainWrites(c)
  <2>1. use' = use \/ Hold(c, [Resting EXCEPT !.name = "close", !.step = "wait"])
    BY <1>8, Zenon DEF DrainWrites
  <2>2. CASE use' = use
    BY <2>2 DEF RecallIInv, UsesSound
  <2>3. CASE Hold(c, [Resting EXCEPT !.name = "close", !.step = "wait"])
    <3> DEFINE r == [Resting EXCEPT !.name = "close", !.step = "wait"]
    <3>1. Hold(c, r) /\ DOMAIN r = UseFields /\ r.name # "recall"
      BY <2>3, RestingFields DEF UseFields
    <3> HIDE DEF r
    <3>2. QED
      BY <3>1, NoRecall
  <2>4. QED
    BY <2>1, <2>2, <2>3
<1>9. CASE BeginRecall(c)
  <2>1. PICK opts, todo :
           Hold(c, [Resting EXCEPT !.name = "recall", !.step = "search", !.todo = todo,
                                   !.before = todo, !.opts = opts])
    BY <1>9, Zenon DEF BeginRecall
  <2> DEFINE r == [Resting EXCEPT !.name = "recall", !.step = "search", !.todo = todo,
                                  !.before = todo, !.opts = opts]
  <2>2. Hold(c, r)
    BY <2>1
  <2>3. DOMAIN r = UseFields /\ r.step = "search" /\ r.todo = todo /\ r.before = todo /\ r.res = {}
    BY DEF UseFields, Resting
  <2> HIDE DEF r
  <2>4. RecallSound(r)
    BY <2>3 DEF RecallSound
  <2>5. QED
    BY <2>2, <2>3, <2>4, RecallMoves
<1>10. CASE BeginForget(c)
  <2>1. PICK q : Hold(c, [Resting EXCEPT !.name = "forget", !.step = "list", !.path = q,
                                         !.before = {i \in items : InScope(i.path, q)}])
    BY <1>10, Zenon DEF BeginForget
  <2> DEFINE r == [Resting EXCEPT !.name = "forget", !.step = "list", !.path = q,
                                  !.before = {i \in items : InScope(i.path, q)}]
  <2>2. Hold(c, r)
    BY <2>1
  <2>3. DOMAIN r = UseFields /\ r.name # "recall"
    BY RestingFields DEF UseFields
  <2> HIDE DEF r
  <2>4. QED
    BY <2>2, <2>3, NoRecall
<1>11. CASE BeginReset(c)
  <2> DEFINE r == [Resting EXCEPT !.name = "reset", !.step = "clear", !.before = items,
                                  !.todo = {i.id : i \in items}]
  <2>2. Hold(c, r)
    BY <1>11 DEF BeginReset
  <2>3. DOMAIN r = UseFields /\ r.name # "recall"
    BY RestingFields DEF UseFields
  <2> HIDE DEF r
  <2>4. QED
    BY <2>2, <2>3, NoRecall
<1>12. ASSUME use[c].name # "recall",
              \/ \E todo : Hold(c, [use[c] EXCEPT !.step = "drop", !.todo = todo])
              \/ \E todo : Hold(c, [use[c] EXCEPT !.step = "drop", !.tries = 0, !.todo = todo])
              \/ \E todo, ok : Hold(c, [use[c] EXCEPT !.todo = todo, !.ok = ok])
              \/ \E todo : Hold(c, [use[c] EXCEPT !.todo = todo])
              \/ Hold(c, [use[c] EXCEPT !.step = "ensure"])
       PROVE  RecallIInv'
  <2>1. CASE \E todo : Hold(c, [use[c] EXCEPT !.step = "drop", !.todo = todo])
    <3>1. PICK todo : Hold(c, [use[c] EXCEPT !.step = "drop", !.todo = todo])
      BY <2>1
    <3>2. LET r == [use[c] EXCEPT !.step = "drop", !.todo = todo]
          IN  DOMAIN r = UseFields /\ r.name # "recall"
      BY <1>0, <1>12 DEF UseFields
    <3>3. QED
      BY <3>1, <3>2, NoRecall
  <2>2. CASE \E todo : Hold(c, [use[c] EXCEPT !.step = "drop", !.tries = 0, !.todo = todo])
    <3>1. PICK todo : Hold(c, [use[c] EXCEPT !.step = "drop", !.tries = 0, !.todo = todo])
      BY <2>2
    <3>2. LET r == [use[c] EXCEPT !.step = "drop", !.tries = 0, !.todo = todo]
          IN  DOMAIN r = UseFields /\ r.name # "recall"
      BY <1>0, <1>12 DEF UseFields
    <3>3. QED
      BY <3>1, <3>2, NoRecall
  <2>3. CASE \E todo, ok : Hold(c, [use[c] EXCEPT !.todo = todo, !.ok = ok])
    <3>1. PICK todo, ok : Hold(c, [use[c] EXCEPT !.todo = todo, !.ok = ok])
      BY <2>3
    <3>2. LET r == [use[c] EXCEPT !.todo = todo, !.ok = ok]
          IN  DOMAIN r = UseFields /\ r.name # "recall"
      BY <1>0, <1>12 DEF UseFields
    <3>3. QED
      BY <3>1, <3>2, NoRecall
  <2>4. CASE \E todo : Hold(c, [use[c] EXCEPT !.todo = todo])
    <3>1. PICK todo : Hold(c, [use[c] EXCEPT !.todo = todo])
      BY <2>4
    <3>2. LET r == [use[c] EXCEPT !.todo = todo]
          IN  DOMAIN r = UseFields /\ r.name # "recall"
      BY <1>0, <1>12 DEF UseFields
    <3>3. QED
      BY <3>1, <3>2, NoRecall
  <2>5. CASE Hold(c, [use[c] EXCEPT !.step = "ensure"])
    <3>1. LET r == [use[c] EXCEPT !.step = "ensure"]
          IN  DOMAIN r = UseFields /\ r.name # "recall"
      BY <1>0, <1>12 DEF UseFields
    <3>2. QED
      BY <2>5, <3>1, NoRecall
  <2>6. QED
    BY <1>12, <2>1, <2>2, <2>3, <2>4, <2>5
<1>13. CASE ListScope(c)
  <2>1. use[c].name # "recall"
    BY <1>13, OtherThanRecall DEF ListScope
  <2>2. \/ \E ok : Return(c, ok)
        \/ Failed(c)
        \/ \E todo : Hold(c, [use[c] EXCEPT !.step = "drop", !.todo = todo])
        \/ \E todo : Hold(c, [use[c] EXCEPT !.step = "drop", !.tries = 0, !.todo = todo])
    BY <1>13, Zenon DEF ListScope
  <2>3. QED
    BY <2>1, <2>2, <1>4, <1>12, ReturnRecall
<1>14. CASE DropListed(c)
  <2>1. use[c].name # "recall"
    BY <1>14, OtherThanRecall DEF DropListed
  <2>2. \/ \E ok : Return(c, ok)
        \/ \E todo, ok : Hold(c, [use[c] EXCEPT !.todo = todo, !.ok = ok])
    BY <1>14, Zenon DEF DropListed
  <2>3. QED
    BY <2>1, <2>2, <1>12, ReturnRecall
<1>15. CASE ClearStore(c)
  <2>1. use[c].name # "recall"
    BY <1>15, OtherThanRecall DEF ClearStore
  <2>2. \/ \E ok : Return(c, ok)
        \/ \E todo : Hold(c, [use[c] EXCEPT !.todo = todo])
        \/ Hold(c, [use[c] EXCEPT !.step = "ensure"])
    BY <1>15, Zenon DEF ClearStore, RedisReset, DropCollection
  <2>3. QED
    BY <2>1, <2>2, <1>12, ReturnRecall
<1>16. QED
  BY <1>2, <1>3, <1>5, <1>6, <1>7, <1>8, <1>9, <1>10, <1>11, <1>13, <1>14, <1>15, SearchStoreSound
     DEF UserNext

(* Every recall is sound in every reachable state.                         *)
LEMMA RecallInductive == MemSpec => []RecallIInv
<1>1. MemInit => RecallIInv
  <2>1. SUFFICES ASSUME MemInit PROVE RecallIInv
    OBVIOUS
  <2>2. use = [c \in Users |-> Resting]
    BY <2>1, Zenon DEF MemInit
  <2>3. QED
    BY <2>2, RestingFields DEF RecallIInv, UsesSound, RecallSound
<1>2. RecallIInv /\ [MemNext \/ TalkNext]_memVars => RecallIInv'
  <2>1. SUFFICES ASSUME RecallIInv, [MemNext \/ TalkNext]_memVars PROVE RecallIInv'
    OBVIOUS
  <2>2. (\E c \in Users : UserNext(c) \/ Converse(c)) \/ use' = use
    BY <2>1, Zenon DEF MemNext, TalkNext, BackgroundWriter, TimeToLive, memVars
  <2>3. CASE use' = use
    BY <2>1, <2>3 DEF RecallIInv, UsesSound
  <2>4. QED
    BY <2>1, <2>2, <2>3, UseRecall
<1>3. QED
  BY <1>1, <1>2, PTL DEF MemSpec

(* A recall through scopes returns only what was remembered in one of      *)
(* them, one with a source nothing of another source, and only a caller    *)
(* that asks for the private memories gets any: for any labels, options    *)
(* and number of callers, any store, any page and whatever fails on the    *)
(* way (unified.go Recall, scope.go Recall of scopes and slices).          *)
THEOREM RecallsAreIsolated == MemSpec => []RecallIsolated
<1>1. RecallIInv => RecallIsolated
  <2>1. SUFFICES ASSUME RecallIInv PROVE RecallIsolated
    OBVIOUS
  <2>2. QED
    BY <2>1, Zenon DEF RecallIInv, RecallSound, RecallIsolated
<1>2. QED
  BY <1>1, RecallInductive, PTL

(* What names an item: a time to live may end, the rest stays.             *)
Marked(i) == {"w", "id", "path"} \subseteq DOMAIN i
Same(i, j) == Marked(i) /\ i.w = j.w /\ i.id = j.id /\ i.path = j.path
Agree(i, j) == i.w = j.w => i.id = j.id /\ i.path = j.path

Written(i) == Marked(i) /\ i.w \in Nat /\ i.w <= writes

(* What a Forget or a Reset under way is to erase, and what an Add under   *)
(* way has not stored yet.                                                 *)
Aim(c) == IF use[c].step \in {"list", "drop", "clear"} THEN use[c].before ELSE {}
Batch(c) == IF use[c].step = "add" THEN use[c].todo ELSE {}

Queued == [w : Nat, id : Nat, scoped : {FALSE}, path : {<<>>}, priv : {FALSE}, src : {"none"},
           vec : {FALSE}, life : {"ever"}]

(* The write w was stored once: it is there, to be erased, or erased.      *)
Seen(n) ==
    \/ n \in erased
    \/ \E i \in items : i.w = n
    \/ \E c \in Users : \E i \in Aim(c) : i.w = n

KnownSound ==
    /\ \A i \in items : Written(i)
    /\ \A c \in Users : \A i \in Aim(c) : Written(i)
    /\ \A n \in erased : n \in Nat /\ n <= writes
    /\ \A i, j \in items : Agree(i, j)
    /\ \A i \in items : \A c \in Users : \A j \in Aim(c) : Agree(i, j)

BatchSound ==
    /\ \A c \in Users : \A i \in Batch(c) : Written(i) /\ ~Seen(i.w)
    /\ \A c \in Users : \A i, j \in Batch(c) : Agree(i, j)
    /\ \A c, d \in Users : c # d => \A i \in Batch(c), j \in Batch(d) : i.w # j.w

QueueSound ==
    /\ queue \in Seq(Queued)
    /\ \A k \in 1..Len(queue) : queue[k].w <= writes /\ ~Seen(queue[k].w)
    /\ \A k \in 1..Len(queue) : \A c \in Users : \A i \in Batch(c) : i.w # queue[k].w
    /\ \A k, l \in 1..Len(queue) : k # l => queue[k].w # queue[l].w

NoneBack == \A i \in items : i.w \notin erased

(* An erasure that is under way: what it is to erase is in its scope, and  *)
(* once it goes by id, what of it is left has an id still to delete.       *)
AimSound(c) ==
    /\ use[c].step = "list" => \A j \in use[c].before : InScope(j.path, use[c].path)
    /\ use[c].step = "drop" /\ ScopeDeleter => kind = "sqlite"
    /\ use[c].step = "clear" \/ (use[c].step = "drop" /\ ScopeDeleter) =>
           \A i \in items : \A j \in use[c].before : i.w = j.w => i.id \in use[c].todo

StoredSound == writes \in Nat /\ KnownSound /\ BatchSound /\ QueueSound /\ NoneBack

(* A step that stores the fresh items B, takes items away, begins to erase *)
(* what is there, or ends an erasure.                                      *)
LEMMA StoredMoves ==
    ASSUME StoredSound, NEW B, writes' = writes,
           \A i \in B : Written(i) /\ ~Seen(i.w),
           \A i, j \in B : Agree(i, j),
           \A i \in items' : \E j \in items \cup B : Same(i, j),
           \A c \in Users : \A j \in Aim(c)' : j \in items \/ j \in Aim(c),
           \A c \in Users : Batch(c)' \subseteq Batch(c),
           \A c \in Users : \A i \in Batch(c)' : \A b \in B : i.w # b.w,
           queue' = queue \/ (queue # <<>> /\ queue' = Tail(queue)),
           \A k \in 1..Len(queue') : \A b \in B : queue'[k].w # b.w,
           \A n \in erased' :
               \/ n \in erased
               \/ (\E c \in Users : \E i \in Aim(c) : i.w = n) /\ (\A i \in items' : i.w # n)
    PROVE  StoredSound'
<1>0. KnownSound /\ BatchSound /\ QueueSound /\ NoneBack /\ writes \in Nat
  BY DEF StoredSound
<1>1. ASSUME NEW n, Seen(n)' PROVE Seen(n) \/ \E b \in B : b.w = n
  <2>1. CASE n \in erased'
    BY <2>1 DEF Seen
  <2>2. CASE \E i \in items' : i.w = n
    BY <2>2 DEF Seen, Same
  <2>3. CASE \E c \in Users : \E i \in Aim(c)' : i.w = n
    BY <2>3 DEF Seen
  <2>4. QED
    BY <1>1, <2>1, <2>2, <2>3 DEF Seen
<1>2. KnownSound'
  <2>1. \A i \in items \cup B : Written(i)
    BY <1>0 DEF KnownSound
  <2>2. \A i \in items' : Written(i)'
    BY <2>1 DEF Written, Same
  <2>3. \A c \in Users : \A i \in Aim(c)' : Written(i)'
    BY <1>0 DEF KnownSound, Written
  <2>4. \A n \in erased' : n \in Nat /\ n <= writes'
    BY <1>0 DEF KnownSound, Written
  <2>5. \A i, j \in items \cup B : Agree(i, j)
    <3>1. ASSUME NEW i \in items \cup B, NEW j \in items \cup B PROVE Agree(i, j)
      BY <1>0 DEF KnownSound, Agree, Seen
    <3>2. QED
      BY <3>1
  <2>6. \A i, j \in items' : Agree(i, j)
    BY <2>5 DEF Agree, Same
  <2>7. ASSUME NEW i \in items', NEW c \in Users, NEW j \in Aim(c)' PROVE Agree(i, j)
    <3>1. PICK k \in items \cup B : Same(i, k)
      OBVIOUS
    <3>2. CASE j \in items
      BY <3>1, <3>2, <2>5 DEF Agree, Same
    <3>3. CASE j \in Aim(c)
      <4>1. k \in items => Agree(k, j)
        BY <1>0, <3>3 DEF KnownSound
      <4>2. k \in B => Agree(k, j)
        BY <3>3 DEF Seen, Agree
      <4>3. QED
        BY <3>1, <4>1, <4>2 DEF Agree, Same
    <3>4. QED
      BY <3>2, <3>3
  <2>8. QED
    BY <2>2, <2>3, <2>4, <2>6, <2>7 DEF KnownSound, Agree
<1>3. BatchSound'
  <2>1. ASSUME NEW c \in Users, NEW i \in Batch(c)' PROVE Written(i)' /\ ~Seen(i.w)'
    BY <1>0, <1>1, <2>1 DEF BatchSound, Written
  <2>2. ASSUME NEW c \in Users, NEW i \in Batch(c)', NEW j \in Batch(c)' PROVE Agree(i, j)
    BY <1>0 DEF BatchSound
  <2>3. ASSUME NEW c \in Users, NEW d \in Users, c # d, NEW i \in Batch(c)', NEW j \in Batch(d)' PROVE i.w # j.w
    BY <1>0, <2>3 DEF BatchSound
  <2>4. QED
    BY <2>1, <2>2, <2>3 DEF BatchSound, Agree
<1>4. QueueSound'
  <2>1. queue \in Seq(Queued)
    BY <1>0 DEF QueueSound
  <2> DEFINE Hidden(n) ==
                 /\ n \notin erased'
                 /\ \A i \in items' : i.w # n
                 /\ \A c \in Users : \A i \in Aim(c)' : i.w # n
  <2>0. \A n : ~Seen(n) /\ (\A b \in B : b.w # n) => Hidden(n)
    BY <1>1 DEF Seen
  <2>2. CASE queue' = queue
    <3>1. \A k \in 1..Len(queue') : queue'[k].w <= writes' /\ Hidden(queue'[k].w)
      BY <1>0, <2>0, <2>2 DEF QueueSound
    <3>2. \A k \in 1..Len(queue') : \A c \in Users : \A i \in Batch(c)' : i.w # queue'[k].w
      BY <1>0, <2>2 DEF QueueSound
    <3>3. QED
      BY <1>0, <2>1, <2>2, <3>1, <3>2 DEF QueueSound, Seen
  <2>3. CASE queue # <<>> /\ queue' = Tail(queue)
    <3>1. /\ queue' \in Seq(Queued) /\ Len(queue) \in Nat /\ Len(queue') = Len(queue) - 1
          /\ \A k \in 1..Len(queue') : k + 1 \in 1..Len(queue) /\ queue'[k] = queue[k + 1]
      BY <2>1, <2>3, HeadTailProperties, LenProperties
    <3>2. \A k \in 1..Len(queue') : queue'[k].w <= writes' /\ Hidden(queue'[k].w)
      <4>1. SUFFICES ASSUME NEW k \in 1..Len(queue') PROVE queue'[k].w <= writes' /\ Hidden(queue'[k].w)
        OBVIOUS
      <4>2. k + 1 \in 1..Len(queue) /\ queue'[k].w = queue[k + 1].w
        BY <3>1
      <4>3. \A l \in 1..Len(queue) : queue[l].w <= writes /\ ~Seen(queue[l].w)
        BY <1>0 DEF QueueSound
      <4>4. queue[k + 1].w <= writes /\ ~Seen(queue[k + 1].w)
        BY <4>2, <4>3
      <4>5. \A b \in B : b.w # queue[k + 1].w
        BY <4>2
      <4>6. Hidden(queue[k + 1].w)
        BY <2>0, <4>4, <4>5
      <4>7. QED
        BY <4>2, <4>4, <4>6
    <3>3. \A k \in 1..Len(queue') : \A c \in Users : \A i \in Batch(c)' : i.w # queue'[k].w
      BY <1>0, <3>1 DEF QueueSound
    <3>4. ASSUME NEW k \in 1..Len(queue'), NEW l \in 1..Len(queue'), k # l PROVE queue'[k].w # queue'[l].w
      <4>1. k \in Int /\ l \in Int /\ k + 1 # l + 1
        BY <3>1, <3>4
      <4>2. /\ k + 1 \in 1..Len(queue) /\ queue'[k] = queue[k + 1]
            /\ l + 1 \in 1..Len(queue) /\ queue'[l] = queue[l + 1]
        BY <3>1
      <4>3. \A m, n \in 1..Len(queue) : m # n => queue[m].w # queue[n].w
        BY <1>0 DEF QueueSound
      <4>4. QED
        BY <4>1, <4>2, <4>3
    <3>5. QED
      BY <3>1, <3>2, <3>3, <3>4 DEF QueueSound, Seen
  <2>4. QED
    BY <2>2, <2>3
<1>5. NoneBack'
  <2>1. SUFFICES ASSUME NEW i \in items', i.w \in erased' PROVE FALSE
    BY DEF NoneBack
  <2>2. PICK j \in items \cup B : Same(i, j)
    OBVIOUS
  <2>3. j.w \in erased /\ i.w = j.w
    BY <2>1, <2>2 DEF Same
  <2>4. QED
    BY <1>0, <2>3 DEF NoneBack, Seen
<1>6. QED
  BY <1>0, <1>2, <1>3, <1>4, <1>5 DEF StoredSound

(* The writer's channel holds texts with the numbers of their writes.      *)
LEMMA QueueEntries ==
    ASSUME QueueSound
    PROVE  /\ queue \in Seq(Queued) /\ Len(queue) \in Nat
           /\ \A k \in 1..Len(queue) : queue[k] \in Queued /\ queue[k].w \in Nat /\ queue[k].w <= writes
<1>1. queue \in Seq(Queued) /\ Len(queue) \in Nat
  BY LenProperties DEF QueueSound
<1>2. \A k \in 1..Len(queue) : queue[k] \in Queued
  BY <1>1, ElementOfSeq
<1>3. \A e \in Queued : e.w \in Nat
  BY DEF Queued
<1>4. QED
  BY <1>1, <1>2, <1>3 DEF QueueSound

(* A new batch is one of writes that nobody has seen.                      *)
LEMMA BatchBegins ==
    ASSUME StoredSound, NEW c \in Users, NEW B, writes' \in Nat, writes <= writes',
           \A i \in B : Marked(i) /\ i.w \in Nat /\ i.w > writes /\ i.w <= writes',
           \A i, j \in B : Agree(i, j),
           items' = items, erased' = erased, queue' = queue, Batch(c)' = B,
           \A d \in Users \ {c} : Batch(d)' = Batch(d),
           \A d \in Users : Aim(d)' \subseteq Aim(d)
    PROVE  StoredSound'
<1>0. KnownSound /\ BatchSound /\ QueueSound /\ NoneBack /\ writes \in Nat
  BY DEF StoredSound
<1>1. \A i : Written(i) => Written(i)'
  BY <1>0 DEF Written
<1>2. KnownSound'
  <2>1. \A n \in erased' : n \in Nat /\ n <= writes'
    BY <1>0 DEF KnownSound
  <2>2. QED
    BY <1>0, <1>1, <2>1 DEF KnownSound, Agree
<1>3. \A n : Seen(n)' => Seen(n)
  BY DEF Seen
<1>4. \A n : Seen(n) => n \in Nat /\ n <= writes
  BY <1>0 DEF KnownSound, Seen, Written
<1>5. BatchSound'
  <2>1. ASSUME NEW d \in Users, NEW i \in Batch(d)' PROVE Written(i)' /\ ~Seen(i.w)'
    <3>1. CASE d = c
      <4>1. i \in B
        BY <3>1
      <4>2. ~Seen(i.w)
        BY <1>0, <1>4, <4>1
      <4>3. QED
        BY <1>3, <4>1, <4>2 DEF Written
    <3>2. CASE d # c
      BY <1>0, <1>1, <1>3, <3>2 DEF BatchSound
    <3>3. QED
      BY <3>1, <3>2
  <2>2. ASSUME NEW d \in Users, NEW i \in Batch(d)', NEW j \in Batch(d)' PROVE Agree(i, j)
    BY <1>0 DEF BatchSound
  <2>3. ASSUME NEW d \in Users, NEW e \in Users, d # e, NEW i \in Batch(d)', NEW j \in Batch(e)' PROVE i.w # j.w
    <3>1. CASE d # c /\ e # c
      BY <1>0, <2>3, <3>1 DEF BatchSound
    <3>2. CASE d = c
      <4>1. i.w \in Nat /\ i.w > writes /\ j.w \in Nat /\ j.w <= writes
        BY <1>0, <2>3, <3>2 DEF BatchSound, Written
      <4>2. QED
        BY <1>0, <4>1
    <3>3. CASE e = c
      <4>1. j.w \in Nat /\ j.w > writes /\ i.w \in Nat /\ i.w <= writes
        BY <1>0, <2>3, <3>3 DEF BatchSound, Written
      <4>2. QED
        BY <1>0, <4>1
    <3>4. QED
      BY <3>1, <3>2, <3>3
  <2>4. QED
    BY <2>1, <2>2, <2>3 DEF BatchSound, Agree
<1>6. QueueSound'
  <2>1. queue \in Seq(Queued) /\ \A k \in 1..Len(queue) : queue[k].w \in Nat /\ queue[k].w <= writes
    BY <1>0, QueueEntries
  <2>2. \A k \in 1..Len(queue) : \A d \in Users : \A i \in Batch(d)' : i.w # queue[k].w
    <3>1. SUFFICES ASSUME NEW k \in 1..Len(queue), NEW d \in Users, NEW i \in Batch(d)' PROVE i.w # queue[k].w
      OBVIOUS
    <3>2. CASE d = c
      <4>1. i.w \in Nat /\ i.w > writes
        BY <3>2
      <4>2. QED
        BY <1>0, <2>1, <4>1
    <3>3. CASE d # c
      BY <1>0, <3>3 DEF QueueSound
    <3>4. QED
      BY <3>2, <3>3
  <2>3. \A k \in 1..Len(queue) : queue[k].w <= writes'
    BY <1>0, <2>1
  <2>4. \A k \in 1..Len(queue) : ~Seen(queue[k].w)
    BY <1>0 DEF QueueSound
  <2>5. \A k \in 1..Len(queue) : /\ queue[k].w \notin erased'
                                 /\ \A i \in items' : i.w # queue[k].w
                                 /\ \A d \in Users : \A i \in Aim(d)' : i.w # queue[k].w
    BY <2>4 DEF Seen
  <2>6. \A k, l \in 1..Len(queue) : k # l => queue[k].w # queue[l].w
    BY <1>0 DEF QueueSound
  <2>7. QED
    BY <2>1, <2>2, <2>3, <2>5, <2>6 DEF QueueSound, Seen
<1>7. NoneBack'
  BY <1>0 DEF NoneBack
<1>8. QED
  BY <1>2, <1>5, <1>6, <1>7 DEF StoredSound

(* A text that RememberMany queues is one that nobody has seen.            *)
LEMMA QueueGrows ==
    ASSUME StoredSound, NEW e \in Queued, e.w = writes + 1, writes' = writes + 1,
           items' = items, erased' = erased, queue' = Append(queue, e),
           \A d \in Users : Batch(d)' \subseteq Batch(d),
           \A d \in Users : Aim(d)' \subseteq Aim(d)
    PROVE  StoredSound'
<1>0. KnownSound /\ BatchSound /\ QueueSound /\ NoneBack /\ writes \in Nat /\ writes' \in Nat /\ writes <= writes'
  BY DEF StoredSound
<1>1. \A i : Written(i) => Written(i)'
  BY <1>0 DEF Written
<1>2. KnownSound'
  <2>1. \A n \in erased' : n \in Nat /\ n <= writes'
    BY <1>0 DEF KnownSound
  <2>2. QED
    BY <1>0, <1>1, <2>1 DEF KnownSound, Agree
<1>3. \A n : Seen(n)' => Seen(n)
  BY DEF Seen
<1>4. \A n : Seen(n) => n \in Nat /\ n <= writes
  BY <1>0 DEF KnownSound, Seen, Written
<1>5. BatchSound'
  BY <1>0, <1>1, <1>3 DEF BatchSound, Agree
<1>6. QueueSound'
  <2>1. /\ queue \in Seq(Queued) /\ queue' \in Seq(Queued) /\ Len(queue) \in Nat /\ Len(queue') = Len(queue) + 1
        /\ \A k \in 1..Len(queue) : queue[k].w \in Nat /\ queue[k].w <= writes
    BY <1>0, QueueEntries, AppendProperties
  <2>2. queue'[Len(queue) + 1] = e /\ \A k \in 1..Len(queue) : queue'[k] = queue[k]
    BY <2>1, AppendProperties
  <2>3. \A k \in 1..Len(queue') : k \in 1..Len(queue) \/ k = Len(queue) + 1
    BY <2>1
  <2>4. ~Seen(e.w)
    BY <1>0, <1>4
  <2> DEFINE Hidden(n) ==
                 /\ n \notin erased'
                 /\ \A i \in items' : i.w # n
                 /\ \A c \in Users : \A i \in Aim(c)' : i.w # n
  <2>5. \A n : ~Seen(n) => Hidden(n)
    BY <1>3 DEF Seen
  <2>6. \A k \in 1..Len(queue') : queue'[k].w <= writes' /\ Hidden(queue'[k].w)
    <3>1. SUFFICES ASSUME NEW k \in 1..Len(queue') PROVE queue'[k].w <= writes' /\ Hidden(queue'[k].w)
      OBVIOUS
    <3>2. CASE k \in 1..Len(queue)
      <4>1. queue'[k].w = queue[k].w /\ queue[k].w \in Nat /\ queue[k].w <= writes /\ ~Seen(queue[k].w)
        BY <1>0, <2>1, <2>2, <3>2 DEF QueueSound
      <4>2. QED
        BY <1>0, <2>5, <4>1
    <3>3. CASE k = Len(queue) + 1
      <4>1. Hidden(e.w)
        BY <2>4, <2>5
      <4>2. QED
        BY <1>0, <2>2, <3>3, <4>1
    <3>4. QED
      BY <2>3, <3>2, <3>3
  <2>7. \A k \in 1..Len(queue') : \A c \in Users : \A i \in Batch(c)' : i.w # queue'[k].w
    <3>1. SUFFICES ASSUME NEW k \in 1..Len(queue'), NEW c \in Users, NEW i \in Batch(c)' PROVE i.w # queue'[k].w
      OBVIOUS
    <3>2. i \in Batch(c) /\ i.w \in Nat /\ i.w <= writes
      BY <1>0 DEF BatchSound, Written
    <3>3. CASE k \in 1..Len(queue)
      BY <1>0, <2>2, <3>2, <3>3 DEF QueueSound
    <3>4. CASE k = Len(queue) + 1
      BY <1>0, <2>2, <3>2, <3>4
    <3>5. QED
      BY <2>3, <3>3, <3>4
  <2>8. ASSUME NEW k \in 1..Len(queue'), NEW l \in 1..Len(queue'), k # l PROVE queue'[k].w # queue'[l].w
    <3>1. CASE k \in 1..Len(queue) /\ l \in 1..Len(queue)
      BY <1>0, <2>2, <2>8, <3>1 DEF QueueSound
    <3>2. CASE k = Len(queue) + 1 /\ l \in 1..Len(queue)
      BY <1>0, <2>1, <2>2, <3>2
    <3>3. CASE l = Len(queue) + 1 /\ k \in 1..Len(queue)
      BY <1>0, <2>1, <2>2, <3>3
    <3>4. QED
      BY <2>3, <2>8, <3>1, <3>2, <3>3
  <2>9. QED
    BY <2>1, <2>6, <2>7, <2>8 DEF QueueSound, Seen
<1>7. NoneBack'
  BY <1>0 DEF NoneBack
<1>8. QED
  BY <1>0, <1>2, <1>5, <1>6, <1>7 DEF StoredSound

(* The other erasures go on: what is new was seen by none of them.         *)
LEMMA AimKept ==
    ASSUME StoredSound, NEW B, \A i \in B : ~Seen(i.w),
           \A i \in items' : \E j \in items \cup B : Same(i, j),
           NEW d \in Users, AimSound(d), use'[d] = use[d], kind' = kind, retry' = retry
    PROVE  AimSound(d)'
<1>1. ScopeDeleter' = ScopeDeleter
  BY DEF ScopeDeleter
<1>2. ASSUME use[d].step = "clear" \/ (use[d].step = "drop" /\ ScopeDeleter),
             NEW i \in items', NEW j \in use[d].before, i.w = j.w
      PROVE  i.id \in use[d].todo
  <2>1. PICK k \in items \cup B : Same(i, k)
    OBVIOUS
  <2>2. Seen(j.w)
    BY <1>2 DEF Seen, Aim
  <2>3. k \in items
    BY <1>2, <2>1, <2>2 DEF Same
  <2>4. QED
    BY <1>2, <2>1, <2>3 DEF AimSound, Same
<1>3. use[d].step = "list" => \A j \in use[d].before : InScope(j.path, use[d].path)
  BY DEF AimSound
<1>4. use[d].step = "drop" /\ ScopeDeleter => kind = "sqlite"
  BY DEF AimSound
<1>5. QED
  BY <1>1, <1>2, <1>3, <1>4 DEF AimSound

ErasureSound == StoredSound /\ \A c \in Users : AimSound(c)

(* A step of the caller c that stores the part B of its batch.             *)
LEMMA CallerMoves ==
    ASSUME UsesSound, ErasureSound, NEW c \in Users, NEW r, Hold(c, r), DOMAIN r = UseFields,
           kind' = kind, retry' = retry, writes' = writes, queue' = queue,
           r.step # "add", NEW B \in SUBSET Batch(c),
           \A i \in items' : \E j \in items \cup B : Same(i, j),
           r.step \in {"list", "drop", "clear"} => \A j \in r.before : j \in items \/ j \in Aim(c),
           AimSound(c)',
           \A n \in erased' :
               \/ n \in erased
               \/ (\E i \in Aim(c) : i.w = n) /\ (\A i \in items' : i.w # n)
    PROVE  ErasureSound'
<1>0. StoredSound /\ BatchSound /\ QueueSound
  BY DEF ErasureSound, StoredSound
<1>1. use'[c] = r /\ \A d \in Users \ {c} : use'[d] = use[d]
  BY HoldMoves
<1>2. /\ \A i \in B : Written(i) /\ ~Seen(i.w)
      /\ \A i, j \in B : Agree(i, j)
  BY <1>0 DEF BatchSound
<1>3. Batch(c)' = {} /\ \A d \in Users \ {c} : Batch(d)' = Batch(d) /\ Aim(d)' = Aim(d)
  BY <1>1 DEF Batch, Aim
<1>4. \A j \in Aim(c)' : j \in items \/ j \in Aim(c)
  BY <1>1 DEF Aim
<1>5. \A d \in Users : \A j \in Aim(d)' : j \in items \/ j \in Aim(d)
  BY <1>3, <1>4
<1>6. \A d \in Users : Batch(d)' \subseteq Batch(d)
  BY <1>3
<1>7. \A d \in Users : \A i \in Batch(d)' : \A b \in B : i.w # b.w
  BY <1>0, <1>3 DEF BatchSound
<1>8. \A k \in 1..Len(queue') : \A b \in B : queue'[k].w # b.w
  BY <1>0 DEF QueueSound
<1>9. StoredSound'
  BY <1>0, <1>2, <1>5, <1>6, <1>7, <1>8, StoredMoves
<1>10. \A d \in Users : AimSound(d)'
  <2>1. ASSUME NEW d \in Users, d # c PROVE AimSound(d)'
    <3>1. AimSound(d) /\ use'[d] = use[d]
      BY <1>1, <2>1 DEF ErasureSound
    <3>2. QED
      BY <1>0, <1>2, <3>1, AimKept
  <2>2. QED
    BY <2>1
<1>11. QED
  BY <1>9, <1>10 DEF ErasureSound

(* An item that nobody touches stays the same item.                        *)
LEMMA ItemsStay ==
    ASSUME ErasureSound
    PROVE  \A i \in items : Same(i, i)
BY DEF ErasureSound, StoredSound, KnownSound, Written, Same

(* A caller whose step erases nothing and begins nothing of that kind.     *)
LEMMA CallerPasses ==
    ASSUME UsesSound, ErasureSound, NEW c \in Users, NEW r, Hold(c, r), DOMAIN r = UseFields,
           kind' = kind, retry' = retry, writes' = writes, queue' = queue, erased' = erased,
           r.step \notin {"add", "list", "drop", "clear"}, items' \subseteq items
    PROVE  ErasureSound'
<1>1. \A i \in items' : \E j \in items \cup {} : Same(i, j)
  BY ItemsStay
<1>2. use'[c] = r
  BY HoldMoves
<1>3. AimSound(c)'
  BY <1>2 DEF AimSound
<1>4. {} \in SUBSET Batch(c) /\ r.step # "add" /\ r.step \notin {"list", "drop", "clear"}
  OBVIOUS
<1>5. QED
  BY <1>1, <1>3, <1>4, CallerMoves

(* The same for a caller that returns.                                     *)
LEMMA CallerReturns ==
    ASSUME UsesSound, ErasureSound, NEW c \in Users, NEW ok, Return(c, ok),
           kind' = kind, retry' = retry, writes' = writes, queue' = queue, erased' = erased,
           items' \subseteq items
    PROVE  ErasureSound'
<1> DEFINE r == [Resting EXCEPT !.ok = ok]
<1>1. Hold(c, r) /\ DOMAIN r = UseFields /\ r.step = ""
  BY RestingFields DEF Return, UseFields
<1> HIDE DEF r
<1>2. QED
  BY <1>1, CallerPasses

(* A caller that returns and has erased what it was to erase.              *)
LEMMA CallerErases ==
    ASSUME UsesSound, ErasureSound, NEW c \in Users, NEW ok, Return(c, ok),
           kind' = kind, retry' = retry, writes' = writes, queue' = queue, Erase(c, use[c].before),
           use[c].step \in {"list", "drop", "clear"}, items' \subseteq items,
           \A i \in items' : \A j \in use[c].before : i.w # j.w
    PROVE  ErasureSound'
<1> DEFINE r == [Resting EXCEPT !.ok = ok]
<1>1. Hold(c, r) /\ DOMAIN r = UseFields /\ r.step = ""
  BY RestingFields DEF Return, UseFields
<1> HIDE DEF r
<1>2. use'[c] = r
  BY <1>1, HoldMoves
<1>3. AimSound(c)'
  BY <1>1, <1>2 DEF AimSound
<1>4. \A i \in items' : \E j \in items \cup {} : Same(i, j)
  BY ItemsStay
<1>5. \A n \in erased' :
          \/ n \in erased
          \/ (\E i \in Aim(c) : i.w = n) /\ (\A i \in items' : i.w # n)
  BY DEF Erase, Aim
<1>6. {} \in SUBSET Batch(c) /\ r.step # "add" /\ r.step \notin {"list", "drop", "clear"}
  BY <1>1
<1>7. QED
  BY <1>1, <1>3, <1>4, <1>5, <1>6, CallerMoves

KindSound == kind \in Local \cup Remote /\ (Recreates(kind) \/ there)

(* A delete stores nothing.                                                *)
LEMMA DeletedBelow ==
    ASSUME NEW k \in Local \cup Remote, NEW S, NEW id, NEW a
    PROVE  Deleted(k, S, id, a) \subseteq S
BY DEF Deleted, MemDelete, SqliteDelete, RedisDelete, ChromaDelete, QdrantDelete, WeaviateDelete,
       PineconeDelete, Local, Remote

(* Replacing by id stores nothing but the batch.                           *)
LEMMA UpsertBelow ==
    ASSUME NEW S, NEW B
    PROVE  Upsert(S, B) \subseteq S \cup B
BY DEF Upsert

(* A time to live that changes leaves the item what it was.                *)
LEMMA LifeSame ==
    ASSUME NEW i, Marked(i), NEW l
    PROVE  Same([i EXCEPT !.life = l], i)
BY DEF Marked, Same

(* Whatever a store does with a batch, whole, in part or not at all, what  *)
(* it stores is from the batch or was there.                               *)
LEMMA AddedFrom ==
    ASSUME NEW k \in Local \cup Remote, NEW S, NEW B, NEW a, NEW T \in Added(k, S, B, a),
           \A i \in S \cup B : Marked(i)
    PROVE  \A i \in T : \E j \in S \cup B : Same(i, j)
<1>1. \A i \in S \cup B : Same(i, i)
  BY DEF Same
<1>2. ASSUME NEW P \in SUBSET B, T \in ChromaAdd(S, P) PROVE \A i \in T : \E j \in S \cup B : Same(i, j)
  <2>1. T \subseteq S \cup {[i EXCEPT !.life = "ever"] : i \in P}
    BY <1>2 DEF ChromaAdd
  <2>2. \A i \in P : Same([i EXCEPT !.life = "ever"], i)
    BY LifeSame
  <2>3. QED
    BY <1>1, <2>1, <2>2
<1>3. ASSUME T \in RedisBulkAdd(S, B) PROVE \A i \in T : \E j \in S \cup B : Same(i, j)
  <2> DEFINE K(i) == IF i.life = "live" THEN "keyed" ELSE i.life
             P == {[i EXCEPT !.life = K(i)] : i \in {b \in B : b.life # "past"}}
  <2>1. T = Upsert(S, P)
    BY <1>3 DEF RedisBulkAdd
  <2>2. \A i \in B : Same([i EXCEPT !.life = K(i)], i)
    BY LifeSame
  <2>3. \A p \in P : \E j \in S \cup B : Same(p, j)
    BY <2>2
  <2> HIDE DEF P
  <2>4. QED
    BY <1>1, <2>1, <2>3, UpsertBelow
<1>4. CASE ~Done(a)
  <2>1. T = S \/ \E P \in SUBSET B : T \in ChromaAdd(S, P)
    BY <1>4 DEF Added, ChromaBulkAdd
  <2>2. QED
    BY <1>1, <1>2, <2>1
<1>5. CASE Done(a)
  <2>1. T = S \cup B \/ T = Upsert(S, B) \/ T \in RedisBulkAdd(S, B) \/ T \in ChromaAdd(S, B)
    BY <1>5 DEF Added, MemAdd, SqliteAdd, RedisAdd, QdrantBulkAdd, WeaviateAdd, WeaviateBulkAdd, PineconeBulkAdd,
                Local, Remote
  <2>2. QED
    BY <1>1, <1>2, <1>3, <2>1, UpsertBelow
<1>6. QED
  BY <1>4, <1>5

(* Without a RetryStore an Add is tried once: its batch is stored and no   *)
(* longer under way.                                                       *)
LEMMA AddItemSound ==
    ASSUME UsesSound, KindSound, ~retry, ErasureSound, NEW c \in Users, AddItem(c)
    PROVE  ErasureSound'
<1>1. /\ kind' = kind /\ retry' = retry /\ writes' = writes /\ queue' = queue /\ erased' = erased
      /\ use[c].step = "add"
  BY Zenon DEF AddItem, queueVars
<1>2. \E ok : Return(c, ok)
  BY Zenon DEF AddItem, Failed, Again
<1>3. PICK ok : Return(c, ok)
  BY <1>2
<1> DEFINE r == [Resting EXCEPT !.ok = ok]
<1>4. Hold(c, r) /\ DOMAIN r = UseFields /\ r.step = ""
  BY <1>3, RestingFields DEF Return, UseFields
<1> HIDE DEF r
<1>5. use[c].todo = Batch(c) /\ Batch(c) \in SUBSET Batch(c)
  BY <1>1 DEF Batch
<1>6. \A i \in items \cup Batch(c) : Marked(i)
  BY DEF ErasureSound, StoredSound, KnownSound, BatchSound, Written
<1>7. \A i \in items' : \E j \in items \cup Batch(c) : Same(i, j)
  <2>1. items' = items \/ \E a : items' \in Added(kind, items, Batch(c), a)
    BY <1>5, Zenon DEF AddItem
  <2>2. CASE items' = items
    BY <2>2, ItemsStay
  <2>3. CASE \E a : items' \in Added(kind, items, Batch(c), a)
    BY <1>6, <2>3, AddedFrom DEF KindSound
  <2>4. QED
    BY <2>1, <2>2, <2>3
<1>8. AimSound(c)'
  <2>1. use'[c] = r
    BY <1>4, HoldMoves
  <2>2. QED
    BY <1>4, <2>1 DEF AimSound
<1>9. r.step # "add" /\ r.step \notin {"list", "drop", "clear"}
  BY <1>4
<1>10. QED
  BY <1>1, <1>4, <1>5, <1>7, <1>8, <1>9, CallerMoves

(* An Add begins with writes that nobody has seen.                         *)
LEMMA AddingSound ==
    ASSUME UsesSound, ErasureSound, NEW c \in Users, NEW B, Adding(c, B), writes' \in Nat, writes <= writes',
           \A i \in B : Marked(i) /\ i.w \in Nat /\ i.w > writes /\ i.w <= writes',
           \A i, j \in B : Agree(i, j)
    PROVE  ErasureSound'
<1> DEFINE r == [Resting EXCEPT !.name = "add", !.step = "add", !.todo = B]
<1>1. /\ Hold(c, r) /\ items' = items /\ erased' = erased /\ queue' = queue /\ kind' = kind /\ retry' = retry
      /\ use[c].step = ""
  BY Zenon DEF Adding, storeVars, queueVars, Begin
<1>2. DOMAIN r = UseFields /\ r.step = "add" /\ r.todo = B
  BY DEF Resting, UseFields
<1> HIDE DEF r
<1>3. use'[c] = r /\ \A d \in Users \ {c} : use'[d] = use[d]
  BY <1>1, <1>2, HoldMoves
<1>4. Batch(c)' = B /\ Aim(c)' = {}
  BY <1>2, <1>3 DEF Batch, Aim
<1>5. \A d \in Users \ {c} : Batch(d)' = Batch(d) /\ Aim(d)' = Aim(d)
  BY <1>3 DEF Batch, Aim
<1>6. \A d \in Users : Aim(d)' \subseteq Aim(d)
  BY <1>4, <1>5
<1>7. StoredSound'
  BY <1>1, <1>4, <1>5, <1>6, BatchBegins DEF ErasureSound
<1>8. ASSUME NEW d \in Users PROVE AimSound(d)'
  <2>1. CASE d = c
    BY <1>2, <1>3, <2>1 DEF AimSound
  <2>2. CASE d # c
    BY <1>1, <1>3, <2>2 DEF ErasureSound, AimSound, ScopeDeleter
  <2>3. QED
    BY <2>1, <2>2
<1>9. QED
  BY <1>7, <1>8 DEF ErasureSound

(* Remember, the long term memory and the ingestion number their writes.   *)
LEMMA RemembersSound ==
    ASSUME UsesSound, ErasureSound, NEW c \in Users, Remember(c) \/ SaveLongTerm(c) \/ Ingest(c)
    PROVE  ErasureSound'
<1>0. writes \in Nat
  BY DEF ErasureSound, StoredSound
<1>1. \A id, m, v, l : LET i == NewItem(id, m, v, l) IN Marked(i) /\ i.w = writes + 1
  BY DEF NewItem, Marked
<1>2. ASSUME NEW id, NEW m, NEW v, NEW l, writes' = writes + 1,
             Adding(c, {NewItem(id, m, v, l)})
      PROVE  ErasureSound'
  <2>1. \A i \in {NewItem(id, m, v, l)} : Marked(i) /\ i.w \in Nat /\ i.w > writes /\ i.w <= writes'
    BY <1>0, <1>1, <1>2
  <2>2. \A i, j \in {NewItem(id, m, v, l)} : Agree(i, j)
    BY DEF Agree
  <2>3. writes' \in Nat /\ writes <= writes'
    BY <1>0, <1>2
  <2>4. QED
    BY <1>2, <2>1, <2>2, <2>3, AddingSound
<1>3. CASE Remember(c) \/ SaveLongTerm(c)
  <2>1. writes' = writes + 1
    BY <1>3 DEF Remember, SaveLongTerm
  <2>2. \E id, m, v, l : Adding(c, {NewItem(id, m, v, l)})
    BY <1>3, Zenon DEF Remember, SaveLongTerm
  <2>3. QED
    BY <1>2, <2>1, <2>2
<1>4. CASE Ingest(c)
  <2>1. PICK l : LET Chunk(n) == NewItem(-n, [Unlabelled EXCEPT !.src = "doc"], TRUE, l)
                 IN  Adding(c, {Chunk(1), [Chunk(2) EXCEPT !.w = writes + 2]})
    BY <1>4, Zenon DEF Ingest
  <2> DEFINE i == NewItem(-1, [Unlabelled EXCEPT !.src = "doc"], TRUE, l)
             j == [NewItem(-2, [Unlabelled EXCEPT !.src = "doc"], TRUE, l) EXCEPT !.w = writes + 2]
  <2>2. Marked(i) /\ i.w = writes + 1 /\ Marked(j) /\ j.w = writes + 2
    BY DEF NewItem, Marked
  <2>3. Adding(c, {i, j})
    BY <2>1
  <2> HIDE DEF i, j
  <2>4. writes' = writes + 2
    BY <1>4 DEF Ingest
  <2>5. i.w # j.w /\ writes' \in Nat /\ writes <= writes' /\ i.w \in Nat /\ j.w \in Nat
        /\ i.w > writes /\ i.w <= writes' /\ j.w > writes /\ j.w <= writes'
    BY <1>0, <2>2, <2>4
  <2>6. \A x, y \in {i, j} : Agree(x, y)
    BY <2>5 DEF Agree
  <2>7. \A x \in {i, j} : Marked(x) /\ x.w \in Nat /\ x.w > writes /\ x.w <= writes'
    BY <2>2, <2>5
  <2>8. QED
    BY <2>3, <2>5, <2>6, <2>7, AddingSound
<1>5. QED
  BY <1>3, <1>4

(* RememberMany hands a text to the writer, or panics on the closed        *)
(* channel.                                                                *)
LEMMA SendMemorySound ==
    ASSUME UsesSound, ErasureSound, NEW c \in Users, Send(c)
    PROVE  ErasureSound'
<1>1. items' = items /\ erased' = erased /\ kind' = kind /\ retry' = retry /\ use[c].step = "send"
  BY Zenon DEF Send, storeVars
<1>2. \/ queue' = queue /\ use' = use /\ writes' = writes
      \/ /\ queue' = Append(queue, NewItem(writes + 1, Unlabelled, FALSE, "ever")) /\ writes' = writes + 1
         /\ Return(c, TRUE) \/ Hold(c, [use[c] EXCEPT !.tries = @ - 1])
  BY Zenon DEF Send
<1>3. CASE queue' = queue /\ use' = use /\ writes' = writes
  BY <1>1, <1>3 DEF ErasureSound, StoredSound, KnownSound, BatchSound, QueueSound, NoneBack, AimSound, Written,
                    Seen, Aim, Batch, Agree, ScopeDeleter
<1>4. CASE /\ queue' = Append(queue, NewItem(writes + 1, Unlabelled, FALSE, "ever")) /\ writes' = writes + 1
           /\ Return(c, TRUE) \/ Hold(c, [use[c] EXCEPT !.tries = @ - 1])
  <2> DEFINE e == NewItem(writes + 1, Unlabelled, FALSE, "ever")
  <2>1. \E r : Hold(c, r) /\ DOMAIN r = UseFields /\ r.step \in {"", "send"}
    <3>1. CASE Return(c, TRUE)
      <4> DEFINE r == [Resting EXCEPT !.ok = TRUE]
      <4>1. Hold(c, r) /\ DOMAIN r = UseFields /\ r.step = ""
        BY <3>1, RestingFields DEF Return, UseFields
      <4> HIDE DEF r
      <4>2. QED
        BY <4>1
    <3>2. CASE Hold(c, [use[c] EXCEPT !.tries = @ - 1])
      <4> DEFINE r == [use[c] EXCEPT !.tries = @ - 1]
      <4>1. Hold(c, r) /\ DOMAIN r = UseFields /\ r.step = "send"
        BY <1>1, <3>2 DEF UsesSound, UseFields
      <4> HIDE DEF r
      <4>2. QED
        BY <4>1
    <3>3. QED
      BY <1>4, <3>1, <3>2
  <2>2. PICK r : Hold(c, r) /\ DOMAIN r = UseFields /\ r.step \in {"", "send"}
    BY <2>1
  <2>3. use'[c] = r /\ \A d \in Users \ {c} : use'[d] = use[d]
    BY <2>2, HoldMoves
  <2>4. Batch(c)' = {} /\ Aim(c)' = {} /\ \A d \in Users \ {c} : Batch(d)' = Batch(d) /\ Aim(d)' = Aim(d)
    BY <2>2, <2>3 DEF Batch, Aim
  <2>5. /\ \A d \in Users : Batch(d)' \subseteq Batch(d)
        /\ \A d \in Users : Aim(d)' \subseteq Aim(d)
    BY <2>4
  <2>6. e \in Queued /\ e.w = writes + 1
    <3>1. writes + 1 \in Nat
      BY DEF ErasureSound, StoredSound
    <3>2. QED
      BY <3>1 DEF NewItem, Queued, Unlabelled
  <2>7. queue' = Append(queue, e)
    BY <1>4
  <2> HIDE DEF e
  <2>8. StoredSound'
    BY <1>1, <1>4, <2>5, <2>6, <2>7, QueueGrows DEF ErasureSound
  <2>9. ASSUME NEW d \in Users PROVE AimSound(d)'
    <3>1. CASE d = c
      BY <2>2, <2>3, <3>1 DEF AimSound
    <3>2. CASE d # c
      BY <1>1, <2>3, <3>2 DEF ErasureSound, AimSound, ScopeDeleter
    <3>3. QED
      BY <3>1, <3>2
  <2>10. QED
    BY <2>8, <2>9 DEF ErasureSound
<1>5. QED
  BY <1>2, <1>3, <1>4

(* A step of the writer or of the clock: no caller moves.                  *)
LEMMA StoreMoves ==
    ASSUME ErasureSound, NEW B, use' = use, kind' = kind, retry' = retry, writes' = writes, erased' = erased,
           \A i \in B : Written(i) /\ ~Seen(i.w),
           \A i, j \in B : Agree(i, j),
           \A i \in items' : \E j \in items \cup B : Same(i, j),
           \A c \in Users : \A i \in Batch(c) : \A b \in B : i.w # b.w,
           queue' = queue \/ (queue # <<>> /\ queue' = Tail(queue)),
           \A k \in 1..Len(queue') : \A b \in B : queue'[k].w # b.w
    PROVE  ErasureSound'
<1>1. \A c \in Users : Aim(c)' = Aim(c) /\ Batch(c)' = Batch(c)
  BY DEF Aim, Batch
<1>2. StoredSound
  BY DEF ErasureSound
<1>3. /\ \A c \in Users : \A j \in Aim(c)' : j \in items \/ j \in Aim(c)
      /\ \A c \in Users : Batch(c)' \subseteq Batch(c)
      /\ \A c \in Users : \A i \in Batch(c)' : \A b \in B : i.w # b.w
  BY <1>1
<1>4. StoredSound'
  BY <1>2, <1>3, StoredMoves
<1>5. ASSUME NEW d \in Users PROVE AimSound(d)'
  <2>1. AimSound(d) /\ use'[d] = use[d]
    BY DEF ErasureSound
  <2>2. QED
    BY <1>2, <2>1, AimKept
<1>6. QED
  BY <1>4, <1>5 DEF ErasureSound

(* A step that only changes what an item's time to live is.                *)
LEMMA StoreKept ==
    ASSUME ErasureSound, use' = use, kind' = kind, retry' = retry, writes' = writes, erased' = erased,
           queue' = queue, \A i \in items' : \E j \in items : Same(i, j)
    PROVE  ErasureSound'
<1> DEFINE B == {}
<1>1. /\ \A i \in B : Written(i) /\ ~Seen(i.w)
      /\ \A i, j \in B : Agree(i, j)
      /\ \A i \in items' : \E j \in items \cup B : Same(i, j)
      /\ \A c \in Users : \A i \in Batch(c) : \A b \in B : i.w # b.w
      /\ \A k \in 1..Len(queue') : \A b \in B : queue'[k].w # b.w
  OBVIOUS
<1> HIDE DEF B
<1>2. QED
  BY <1>1, StoreMoves

(* The writer stores the first text of its channel and takes it out.       *)
LEMMA BackgroundWriterSound ==
    ASSUME KindSound, ErasureSound, BackgroundWriter
    PROVE  ErasureSound'
<1>0. QueueSound /\ KnownSound
  BY DEF ErasureSound, StoredSound
<1>1. use' = use /\ kind' = kind /\ retry' = retry /\ writes' = writes /\ erased' = erased
  BY Zenon DEF BackgroundWriter
<1>2. \/ items' = items /\ queue' = queue
      \/ /\ queue # <<>> /\ queue' = Tail(queue)
         /\ items' = items \/ \E a : items' \in Added(kind, items, {Head(queue)}, a)
  BY DEF BackgroundWriter
<1>3. CASE items' = items /\ queue' = queue
  <2>1. \A i \in items' : \E j \in items : Same(i, j)
    BY <1>3, ItemsStay
  <2>2. QED
    BY <1>1, <1>3, <2>1, StoreKept
<1>4. CASE /\ queue # <<>> /\ queue' = Tail(queue)
           /\ items' = items \/ \E a : items' \in Added(kind, items, {Head(queue)}, a)
  <2> DEFINE b == Head(queue)
  <2>1. /\ queue \in Seq(Queued) /\ Len(queue) \in Nat /\ Len(queue) > 0 /\ b \in Queued /\ b = queue[1]
        /\ Len(queue') = Len(queue) - 1
        /\ \A k \in 1..Len(queue') : queue'[k] = queue[k + 1]
    BY <1>0, <1>4, QueueEntries, HeadTailProperties, EmptySeq
  <2> HIDE DEF b
  <2>2. 1 \in 1..Len(queue) /\ \A k \in 1..Len(queue') : k + 1 \in 1..Len(queue) /\ k + 1 # 1
    BY <2>1
  <2>3. Written(b) /\ ~Seen(b.w)
    <3>1. Marked(b) /\ b.w \in Nat
      BY <2>1 DEF Queued, Marked
    <3>2. b.w <= writes /\ ~Seen(b.w)
      BY <1>0, <2>1, <2>2 DEF QueueSound
    <3>3. QED
      BY <3>1, <3>2 DEF Written
  <2>4. \A c \in Users : \A i \in Batch(c) : i.w # b.w
    BY <1>0, <2>1, <2>2 DEF QueueSound
  <2>5. \A k \in 1..Len(queue') : queue'[k].w # b.w
    <3>1. \A k, l \in 1..Len(queue) : k # l => queue[k].w # queue[l].w
      BY <1>0 DEF QueueSound
    <3>2. QED
      BY <2>1, <2>2, <3>1
  <2>6. \A i \in items \cup {b} : Marked(i)
    BY <1>0, <2>3 DEF KnownSound, Written
  <2>7. \A i \in items' : \E j \in items \cup {b} : Same(i, j)
    <3>1. CASE items' = items
      BY <3>1, ItemsStay
    <3>2. CASE \E a : items' \in Added(kind, items, {b}, a)
      BY <2>6, <3>2, AddedFrom DEF KindSound
    <3>3. QED
      BY <1>4, <3>1, <3>2 DEF b
  <2>8. \A i, j \in {b} : Agree(i, j)
    BY DEF Agree
  <2> DEFINE B == {b}
  <2>9. /\ \A i \in B : Written(i) /\ ~Seen(i.w)
        /\ \A i, j \in B : Agree(i, j)
        /\ \A i \in items' : \E j \in items \cup B : Same(i, j)
        /\ \A c \in Users : \A i \in Batch(c) : \A x \in B : i.w # x.w
        /\ \A k \in 1..Len(queue') : \A x \in B : queue'[k].w # x.w
    BY <2>3, <2>4, <2>5, <2>7, <2>8
  <2> HIDE DEF B
  <2>10. QED
    BY <1>1, <1>4, <2>9, StoreMoves
<1>5. QED
  BY <1>2, <1>3, <1>4

(* A time to live that ends removes the item or marks it.                  *)
LEMMA TimeToLiveSound ==
    ASSUME ErasureSound, TimeToLive
    PROVE  ErasureSound'
<1>1. use' = use /\ kind' = kind /\ retry' = retry /\ writes' = writes /\ erased' = erased /\ queue' = queue
  BY Zenon DEF TimeToLive, queueVars
<1>2. PICK i \in items : \/ items' = (items \ {i}) \cup {[i EXCEPT !.life = "past"]}
                         \/ items' = items \ {i}
  BY Zenon DEF TimeToLive
<1>3. Same([i EXCEPT !.life = "past"], i)
  BY LifeSame DEF ErasureSound, StoredSound, KnownSound, Written
<1>4. \A k \in items' : \E j \in items : Same(k, j)
  BY <1>2, <1>3, ItemsStay
<1>5. QED
  BY <1>1, <1>4, StoreKept

(* The steps of a caller that erase nothing.                               *)
LEMMA OtherCallersSound ==
    ASSUME UsesSound, ErasureSound, NEW c \in Users,
           \/ SliceReadOnly(c) \/ AwaitWriter(c) \/ CountItems(c) \/ EnsureCollection(c) \/ Converse(c)
           \/ RememberMany(c) \/ DrainWrites(c) \/ BeginRecall(c) \/ SearchStore(c)
    PROVE  ErasureSound'
<1>0. DOMAIN use[c] = UseFields
  BY DEF UsesSound
<1>1. kind' = kind /\ retry' = retry /\ writes' = writes /\ queue' = queue /\ erased' = erased
  BY Zenon DEF SliceReadOnly, AwaitWriter, CountItems, EnsureCollection, Converse, RememberMany, DrainWrites,
               BeginRecall, SearchStore, queueVars
<1>2. items' \subseteq items
  <2>1. items' = items \/ items' = SqlitePurge(items)
    BY DEF SliceReadOnly, AwaitWriter, CountItems, EnsureCollection, Converse, RememberMany, DrainWrites,
           BeginRecall, SearchStore, storeVars
  <2>2. QED
    BY <2>1 DEF SqlitePurge
<1>3. CASE SliceReadOnly(c) \/ AwaitWriter(c) \/ CountItems(c) \/ EnsureCollection(c) \/ Converse(c)
  <2>1. \E ok : Return(c, ok)
    BY <1>3, Zenon DEF SliceReadOnly, AwaitWriter, CountItems, EnsureCollection, Converse
  <2>2. QED
    BY <1>1, <1>2, <2>1, CallerReturns
<1>4. CASE RememberMany(c)
  <2>1. PICK n : Hold(c, [Resting EXCEPT !.name = "many", !.step = "send", !.tries = n])
    BY <1>4 DEF RememberMany
  <2> DEFINE r == [Resting EXCEPT !.name = "many", !.step = "send", !.tries = n]
  <2>2. Hold(c, r)
    BY <2>1
  <2>3. DOMAIN r = UseFields /\ r.step = "send"
    BY DEF UseFields, Resting
  <2> HIDE DEF r
  <2>4. QED
    BY <1>1, <1>2, <2>2, <2>3, CallerPasses
<1>5. CASE DrainWrites(c)
  <2>1. items' = items /\ (use' = use \/ Hold(c, [Resting EXCEPT !.name = "close", !.step = "wait"]))
    BY <1>5, Zenon DEF DrainWrites, storeVars
  <2>2. CASE use' = use
    <3>1. \A i \in items' : \E j \in items : Same(i, j)
      BY <2>1, ItemsStay
    <3>2. QED
      BY <1>1, <2>2, <3>1, StoreKept
  <2>3. CASE Hold(c, [Resting EXCEPT !.name = "close", !.step = "wait"])
    <3> DEFINE r == [Resting EXCEPT !.name = "close", !.step = "wait"]
    <3>1. Hold(c, r) /\ DOMAIN r = UseFields /\ r.step = "wait"
      BY <2>3 DEF UseFields, Resting
    <3> HIDE DEF r
    <3>2. QED
      BY <1>1, <1>2, <3>1, CallerPasses
  <2>4. QED
    BY <2>1, <2>2, <2>3
<1>6. CASE BeginRecall(c)
  <2>1. PICK opts, todo :
           Hold(c, [Resting EXCEPT !.name = "recall", !.step = "search", !.todo = todo,
                                   !.before = todo, !.opts = opts])
    BY <1>6, Zenon DEF BeginRecall
  <2> DEFINE r == [Resting EXCEPT !.name = "recall", !.step = "search", !.todo = todo,
                                  !.before = todo, !.opts = opts]
  <2>2. Hold(c, r)
    BY <2>1
  <2>3. DOMAIN r = UseFields /\ r.step = "search"
    BY DEF UseFields, Resting
  <2> HIDE DEF r
  <2>4. QED
    BY <1>1, <1>2, <2>2, <2>3, CallerPasses
<1>7. CASE SearchStore(c)
  <2>0. use[c].step = "search"
    BY <1>7 DEF SearchStore
  <2>1. \/ \E ok, res : ReturnRes(c, ok, res)
        \/ \E q, res : Hold(c, [use[c] EXCEPT !.todo = @ \ {q}, !.res = res, !.tries = 0])
        \/ Hold(c, [use[c] EXCEPT !.tries = @ + 1])
    BY <1>7, Zenon DEF SearchStore
  <2>2. CASE \E ok, res : ReturnRes(c, ok, res)
    <3>1. PICK ok, res : ReturnRes(c, ok, res)
      BY <2>2
    <3> DEFINE r == [use[c] EXCEPT !.step = "", !.ok = ok, !.todo = {}, !.tries = 0, !.res = res]
    <3>2. Hold(c, r)
      BY <3>1 DEF ReturnRes
    <3>3. DOMAIN r = UseFields /\ r.step = ""
      BY <1>0 DEF UseFields
    <3> HIDE DEF r
    <3>4. QED
      BY <1>1, <1>2, <3>2, <3>3, CallerPasses
  <2>3. CASE \E q, res : Hold(c, [use[c] EXCEPT !.todo = @ \ {q}, !.res = res, !.tries = 0])
    <3>1. PICK q, res : Hold(c, [use[c] EXCEPT !.todo = @ \ {q}, !.res = res, !.tries = 0])
      BY <2>3
    <3> DEFINE r == [use[c] EXCEPT !.todo = @ \ {q}, !.res = res, !.tries = 0]
    <3>2. Hold(c, r)
      BY <3>1
    <3>3. DOMAIN r = UseFields /\ r.step = "search"
      BY <1>0, <2>0 DEF UseFields
    <3> HIDE DEF r
    <3>4. QED
      BY <1>1, <1>2, <3>2, <3>3, CallerPasses
  <2>4. CASE Hold(c, [use[c] EXCEPT !.tries = @ + 1])
    <3> DEFINE r == [use[c] EXCEPT !.tries = @ + 1]
    <3>1. Hold(c, r) /\ DOMAIN r = UseFields /\ r.step = "search"
      BY <1>0, <2>0, <2>4 DEF UseFields
    <3> HIDE DEF r
    <3>2. QED
      BY <1>1, <1>2, <3>1, CallerPasses
  <2>5. QED
    BY <2>1, <2>2, <2>3, <2>4
<1>8. QED
  BY <1>3, <1>4, <1>5, <1>6, <1>7

(* A Forget is to erase what is stored in its scope when it is called.     *)
LEMMA BeginForgetSound ==
    ASSUME UsesSound, ErasureSound, NEW c \in Users, BeginForget(c)
    PROVE  ErasureSound'
<1>1. /\ kind' = kind /\ retry' = retry /\ writes' = writes /\ queue' = queue /\ erased' = erased
      /\ items' = items
  BY Zenon DEF BeginForget, queueVars, storeVars
<1>2. PICK p : Hold(c, [Resting EXCEPT !.name = "forget", !.step = "list", !.path = p,
                                       !.before = {i \in items : InScope(i.path, p)}])
  BY Zenon DEF BeginForget
<1> DEFINE r == [Resting EXCEPT !.name = "forget", !.step = "list", !.path = p,
                                !.before = {i \in items : InScope(i.path, p)}]
<1>3. Hold(c, r)
  BY <1>2
<1>4. DOMAIN r = UseFields /\ r.step = "list" /\ r.path = p /\ r.before = {i \in items : InScope(i.path, p)}
  BY DEF UseFields, Resting
<1> HIDE DEF r
<1>5. use'[c] = r
  BY <1>3, <1>4, HoldMoves
<1>6. AimSound(c)'
  BY <1>4, <1>5 DEF AimSound
<1>7. \A i \in items' : \E j \in items \cup {} : Same(i, j)
  BY <1>1, ItemsStay
<1>8. {} \in SUBSET Batch(c) /\ r.step # "add" /\ \A j \in r.before : j \in items \/ j \in Aim(c)
  BY <1>4
<1>9. QED
  BY <1>1, <1>3, <1>4, <1>6, <1>7, <1>8, CallerMoves

(* A Reset is to erase all that is stored when it is called.               *)
LEMMA BeginResetSound ==
    ASSUME UsesSound, ErasureSound, NEW c \in Users, BeginReset(c)
    PROVE  ErasureSound'
<1>1. /\ kind' = kind /\ retry' = retry /\ writes' = writes /\ queue' = queue /\ erased' = erased
      /\ items' = items
  BY Zenon DEF BeginReset, queueVars, storeVars
<1> DEFINE r == [Resting EXCEPT !.name = "reset", !.step = "clear", !.before = items,
                                !.todo = {i.id : i \in items}]
<1>2. Hold(c, r)
  BY DEF BeginReset
<1>3. DOMAIN r = UseFields /\ r.step = "clear" /\ r.before = items /\ r.todo = {i.id : i \in items}
  BY DEF UseFields, Resting
<1> HIDE DEF r
<1>4. use'[c] = r
  BY <1>2, <1>3, HoldMoves
<1>5. AimSound(c)'
  BY <1>1, <1>3, <1>4 DEF AimSound
<1>6. \A i \in items' : \E j \in items \cup {} : Same(i, j)
  BY <1>1, ItemsStay
<1>7. {} \in SUBSET Batch(c) /\ r.step # "add" /\ \A j \in r.before : j \in items \/ j \in Aim(c)
  BY <1>3
<1>8. QED
  BY <1>1, <1>2, <1>3, <1>5, <1>6, <1>7, CallerMoves

(* A caller that goes on erasing: items only go away.                      *)
LEMMA EraserGoesOn ==
    ASSUME UsesSound, ErasureSound, NEW c \in Users, NEW r, Hold(c, r), DOMAIN r = UseFields,
           kind' = kind, retry' = retry, writes' = writes, queue' = queue, erased' = erased,
           use[c].step \in {"list", "drop", "clear"}, r.step \in {"drop", "clear"}, r.before = use[c].before,
           items' \subseteq items,
           r.step = "drop" /\ ScopeDeleter => kind = "sqlite",
           r.step = "clear" \/ ScopeDeleter =>
               \A i \in items' : \A j \in r.before : i.w = j.w => i.id \in r.todo
    PROVE  ErasureSound'
<1>1. use'[c] = r /\ (ScopeDeleter' <=> ScopeDeleter)
  BY HoldMoves DEF ScopeDeleter
<1>2. AimSound(c)'
  BY <1>1 DEF AimSound
<1>3. \A i \in items' : \E j \in items \cup {} : Same(i, j)
  BY ItemsStay
<1>4. \A j \in r.before : j \in Aim(c)
  BY DEF Aim
<1>5. {} \in SUBSET Batch(c) /\ r.step # "add"
  OBVIOUS
<1>6. QED
  BY <1>2, <1>3, <1>4, <1>5, CallerMoves

(* The list erases its scope at once; SQLite lists the ids of all that is  *)
(* left of it.                                                             *)
LEMMA ListScopeSound ==
    ASSUME UsesSound, KindSound, ~retry, ErasureSound, NEW c \in Users, ListScope(c)
    PROVE  ErasureSound'
<1> DEFINE u == use[c]
<1>0. /\ DOMAIN u = UseFields /\ AimSound(c) /\ KnownSound /\ u.step = "list"
      /\ \A j \in u.before : InScope(j.path, u.path)
  BY DEF UsesSound, ErasureSound, StoredSound, AimSound, ListScope
<1>1. kind' = kind /\ retry' = retry /\ writes' = writes /\ queue' = queue
  BY Zenon DEF ListScope, queueVars
<1>2. \A i \in items : \A j \in u.before : i.w = j.w => InScope(i.path, u.path)
  BY <1>0 DEF KnownSound, Aim, Agree
<1>3. CASE /\ items' = MemDeleteScope(items, u.path) /\ Return(c, TRUE) /\ Erase(c, u.before)
  <2>1. items' \subseteq items /\ \A i \in items' : \A j \in u.before : i.w # j.w
    BY <1>2, <1>3 DEF MemDeleteScope
  <2>2. QED
    BY <1>0, <1>1, <1>3, <2>1, CallerErases
<1>4. CASE items' = items /\ erased' = erased /\ Return(c, FALSE)
  BY <1>1, <1>4, CallerReturns
<1>5. CASE /\ items' = items /\ erased' = erased /\ kind = "sqlite"
           /\ Hold(c, [u EXCEPT !.step = "drop", !.todo = SqliteScopeIds(items, u.path)])
  <2> DEFINE r == [u EXCEPT !.step = "drop", !.todo = SqliteScopeIds(items, u.path)]
  <2>1. /\ Hold(c, r) /\ DOMAIN r = UseFields /\ r.step = "drop" /\ r.before = u.before
        /\ r.todo = SqliteScopeIds(items, u.path)
    BY <1>0, <1>5 DEF UseFields
  <2> HIDE DEF r
  <2>2. \A i \in items' : \A j \in r.before : i.w = j.w => i.id \in r.todo
    BY <1>2, <1>5, <2>1 DEF SqliteScopeIds
  <2>3. QED
    BY <1>0, <1>1, <1>5, <2>1, <2>2, EraserGoesOn
<1>6. CASE ~ScopeDeleter /\ erased' = erased /\ items' \subseteq items
           /\ \E t : Hold(c, [u EXCEPT !.step = "drop", !.tries = 0, !.todo = t])
  <2>1. PICK t : Hold(c, [u EXCEPT !.step = "drop", !.tries = 0, !.todo = t])
    BY <1>6
  <2> DEFINE r == [u EXCEPT !.step = "drop", !.tries = 0, !.todo = t]
  <2>2. Hold(c, r)
    BY <2>1
  <2>3. DOMAIN r = UseFields /\ r.step = "drop" /\ r.before = u.before
    BY <1>0 DEF UseFields
  <2> HIDE DEF r
  <2>4. QED
    BY <1>0, <1>1, <1>6, <2>2, <2>3, EraserGoesOn
<1>7. CASE ~ScopeDeleter /\ erased' = erased /\ items' \subseteq items /\ Return(c, FALSE)
  BY <1>1, <1>7, CallerReturns
<1>8. \/ /\ items' = MemDeleteScope(items, u.path) /\ Return(c, TRUE) /\ Erase(c, u.before)
      \/ items' = items /\ erased' = erased /\ Return(c, FALSE)
      \/ /\ items' = items /\ erased' = erased /\ kind = "sqlite"
         /\ Hold(c, [u EXCEPT !.step = "drop", !.todo = SqliteScopeIds(items, u.path)])
      \/ /\ ~ScopeDeleter /\ erased' = erased /\ items' = IF kind = "sqlite" THEN SqlitePurge(items) ELSE items
         /\ \/ \E t : Hold(c, [u EXCEPT !.step = "drop", !.tries = 0, !.todo = t])
            \/ Return(c, FALSE)
  BY Zenon DEF ListScope, Failed, Again
<1>9. SqlitePurge(items) \subseteq items
  BY DEF SqlitePurge
<1>10. QED
  BY <1>3, <1>4, <1>5, <1>6, <1>7, <1>8, <1>9

(* SQLite deletes an id with every item that has it, or stops with an      *)
(* error.                                                                  *)
LEMMA DropListedSound ==
    ASSUME UsesSound, KindSound, ErasureSound, NEW c \in Users, DropListed(c)
    PROVE  ErasureSound'
<1> DEFINE u == use[c]
<1>0. DOMAIN u = UseFields /\ AimSound(c) /\ u.step = "drop"
  BY DEF UsesSound, ErasureSound, DropListed
<1>1. kind' = kind /\ retry' = retry /\ writes' = writes /\ queue' = queue
  BY Zenon DEF DropListed, queueVars
<1>2. CASE u.todo = {} /\ items' = items /\ \E ok : Return(c, ok)
  <2>1. (ScopeDeleter /\ Erase(c, u.before)) \/ erased' = erased
    BY <1>2, Zenon DEF DropListed
  <2>2. CASE ScopeDeleter /\ Erase(c, u.before)
    <3>1. \A i \in items' : \A j \in u.before : i.w # j.w
      BY <1>0, <1>2, <2>2 DEF AimSound
    <3>2. QED
      BY <1>0, <1>1, <1>2, <2>2, <3>1, CallerErases
  <2>3. QED
    BY <1>1, <1>2, <2>1, <2>2, CallerReturns
<1>3. CASE u.todo # {}
  <2>1. PICK id \in u.todo, a \in Answers(kind) :
           /\ items' = IF there THEN Deleted(kind, items, id, a) ELSE items
           /\ IF ScopeDeleter /\ a # "ok" THEN Return(c, FALSE)
              ELSE Hold(c, [u EXCEPT !.todo = @ \ {id},
                        !.ok = @ /\ (ScopeDeleter \/ DeleteOk(kind, items, id, a))])
    BY <1>3, Zenon DEF DropListed
  <2>2. erased' = erased
    BY <1>3, Zenon DEF DropListed
  <2>3. items' \subseteq items
    BY <2>1, DeletedBelow DEF KindSound
  <2>4. CASE Return(c, FALSE)
    BY <1>1, <2>2, <2>3, <2>4, CallerReturns
  <2>5. CASE (ScopeDeleter => a = "ok") /\ \E ok : Hold(c, [u EXCEPT !.todo = @ \ {id}, !.ok = ok])
    <3>1. PICK ok : Hold(c, [u EXCEPT !.todo = @ \ {id}, !.ok = ok])
      BY <2>5
    <3> DEFINE r == [u EXCEPT !.todo = @ \ {id}, !.ok = ok]
    <3>2. Hold(c, r)
      BY <3>1
    <3>3. DOMAIN r = UseFields /\ r.step = "drop" /\ r.before = u.before /\ r.todo = u.todo \ {id}
      BY <1>0 DEF UseFields
    <3> HIDE DEF r
    <3>4. ScopeDeleter => kind = "sqlite"
      BY <1>0 DEF AimSound
    <3>5. ASSUME ScopeDeleter PROVE \A i \in items' : \A j \in r.before : i.w = j.w => i.id \in r.todo
      <4>1. there /\ kind = "sqlite" /\ a = "ok"
        BY <2>5, <3>4, <3>5 DEF KindSound, Recreates
      <4>2. items' = {i \in items : i.id # id}
        BY <2>1, <4>1 DEF Deleted, Done, SqliteDelete
      <4>3. \A i \in items : \A j \in u.before : i.w = j.w => i.id \in u.todo
        BY <1>0, <3>5 DEF AimSound
      <4>4. QED
        BY <3>3, <4>2, <4>3
    <3>6. QED
      BY <1>0, <1>1, <2>2, <2>3, <3>2, <3>3, <3>4, <3>5, EraserGoesOn
  <2>6. Return(c, FALSE) \/ ((ScopeDeleter => a = "ok") /\ \E ok : Hold(c, [u EXCEPT !.todo = @ \ {id}, !.ok = ok]))
    BY <2>1, Zenon
  <2>7. QED
    BY <2>4, <2>5, <2>6
<1>4. u.todo = {} => items' = items /\ \E ok : Return(c, ok)
  BY Zenon DEF DropListed
<1>5. QED
  BY <1>2, <1>3, <1>4

(* A Reset that returns nil emptied the store, or deleted each key it had  *)
(* scanned.                                                                *)
LEMMA ClearStoreSound ==
    ASSUME UsesSound, ErasureSound, NEW c \in Users, ClearStore(c)
    PROVE  ErasureSound'
<1> DEFINE u == use[c]
<1>0. DOMAIN u = UseFields /\ AimSound(c) /\ u.step = "clear"
  BY DEF UsesSound, ErasureSound, ClearStore
<1>1. kind' = kind /\ retry' = retry /\ writes' = writes /\ queue' = queue
  BY Zenon DEF ClearStore, queueVars
<1>2. CASE items' = {} /\ Erase(c, u.before) /\ \E ok : Return(c, ok)
  BY <1>0, <1>1, <1>2, CallerErases
<1>3. CASE items' \subseteq items /\ erased' = erased /\ \E ok : Return(c, ok)
  BY <1>1, <1>3, CallerReturns
<1>4. CASE u.todo = {} /\ items' = items /\ Erase(c, u.before) /\ Return(c, TRUE)
  <2>1. \A i \in items' : \A j \in u.before : i.w # j.w
    BY <1>0, <1>4 DEF AimSound
  <2>2. QED
    BY <1>0, <1>1, <1>4, <2>1, CallerErases
<1>5. CASE erased' = erased /\ \E id : items' = {i \in items : i.id # id} /\ Hold(c, [u EXCEPT !.todo = @ \ {id}])
  <2>1. PICK id : items' = {i \in items : i.id # id} /\ Hold(c, [u EXCEPT !.todo = @ \ {id}])
    BY <1>5
  <2> DEFINE r == [u EXCEPT !.todo = @ \ {id}]
  <2>2. Hold(c, r)
    BY <2>1
  <2>3. DOMAIN r = UseFields /\ r.step = "clear" /\ r.before = u.before /\ r.todo = u.todo \ {id}
    BY <1>0 DEF UseFields
  <2> HIDE DEF r
  <2>4. \A i \in items' : \A j \in r.before : i.w = j.w => i.id \in r.todo
    BY <1>0, <2>1, <2>3 DEF AimSound
  <2>5. items' \subseteq items
    BY <2>1
  <2>6. QED
    BY <1>0, <1>1, <1>5, <2>2, <2>3, <2>4, <2>5, EraserGoesOn
<1>6. CASE items' \subseteq items /\ erased' = erased /\ Hold(c, [u EXCEPT !.step = "ensure"])
  <2> DEFINE r == [u EXCEPT !.step = "ensure"]
  <2>1. Hold(c, r) /\ DOMAIN r = UseFields /\ r.step = "ensure"
    BY <1>0, <1>6 DEF UseFields
  <2> HIDE DEF r
  <2>2. QED
    BY <1>1, <1>6, <2>1, CallerPasses
<1>7. CASE kind = "mem" /\ items' = MemReset(items) /\ Return(c, TRUE) /\ Erase(c, u.before)
  BY <1>2, <1>7 DEF MemReset
<1>8. CASE \E a \in Answers(kind) :
              /\ items' = IF kind = "sqlite" THEN SqliteReset(items, a) ELSE PineconeReset(items, a)
              /\ Return(c, a = "ok")
              /\ IF a = "ok" THEN Erase(c, u.before) ELSE UNCHANGED erased
  <2>1. PICK a \in Answers(kind) :
              /\ items' = IF kind = "sqlite" THEN SqliteReset(items, a) ELSE PineconeReset(items, a)
              /\ Return(c, a = "ok")
              /\ IF a = "ok" THEN Erase(c, u.before) ELSE UNCHANGED erased
    BY <1>8
  <2>2. \E ok : Return(c, ok)
    BY <2>1, Zenon
  <2>3. CASE a = "ok"
    <3>1. items' = {} /\ Erase(c, u.before)
      BY <2>1, <2>3 DEF SqliteReset, PineconeReset, Done
    <3>2. QED
      BY <1>2, <2>2, <3>1
  <2>4. CASE a # "ok"
    <3>1. items' \subseteq items /\ erased' = erased
      BY <2>1, <2>4 DEF SqliteReset, PineconeReset
    <3>2. QED
      BY <1>3, <2>2, <3>1
  <2>5. QED
    BY <2>3, <2>4
<1>9. CASE RedisReset(c)
  <2>1. \/ items' = items /\ erased' = erased /\ \E ok : Return(c, ok)
        \/ u.todo = {} /\ items' = items /\ Erase(c, u.before) /\ Return(c, TRUE)
        \/ erased' = erased /\ \E id : items' = {i \in items : i.id # id} /\ Hold(c, [u EXCEPT !.todo = @ \ {id}])
    BY <1>9, Zenon DEF RedisReset
  <2>2. QED
    BY <1>3, <1>4, <1>5, <2>1
<1>10. CASE DropCollection(c)
  <2>1. erased' = erased /\ (items' = {} \/ items' = items)
    BY <1>10, Zenon DEF DropCollection
  <2>2. (\E ok : Return(c, ok)) \/ Hold(c, [u EXCEPT !.step = "ensure"])
    BY <1>10, Zenon DEF DropCollection
  <2>3. QED
    BY <1>3, <1>6, <2>1, <2>2
<1>11. QED
  BY <1>7, <1>8, <1>9, <1>10, Zenon DEF ClearStore

(* Only the stores that recreate their collection are ever without one.    *)
LEMMA KindStep == KindSound /\ [MemNext \/ TalkNext]_memVars => KindSound'
<1>1. SUFFICES ASSUME KindSound, [MemNext \/ TalkNext]_memVars PROVE KindSound'
  OBVIOUS
<1>2. kind' = kind /\ (there' = there \/ Recreates(kind) \/ there')
  <2>1. CASE \E c \in Users : EnsureCollection(c)
    <3>1. PICK c \in Users : EnsureCollection(c)
      BY <2>1
    <3>2. kind' = kind /\ \E a : there' = (there \/ Done(a))
      BY <3>1, Zenon DEF EnsureCollection
    <3>3. (there => there') /\ kind' = kind
      BY <3>2, Zenon
    <3>4. QED
      BY <1>1, <3>3, Zenon DEF KindSound
  <2>2. CASE \E c \in Users : ClearStore(c)
    BY <2>2, Zenon DEF ClearStore, RedisReset, DropCollection
  <2>3. CASE ~(\E c \in Users : EnsureCollection(c) \/ ClearStore(c))
    <3>1. \/ UNCHANGED memVars \/ BackgroundWriter \/ TimeToLive \/ \E c \in Users : Converse(c)
          \/ \E c \in Users :
                \/ Remember(c) \/ SaveLongTerm(c) \/ Ingest(c) \/ SliceReadOnly(c) \/ AddItem(c)
                \/ RememberMany(c) \/ Send(c) \/ DrainWrites(c) \/ AwaitWriter(c)
                \/ BeginRecall(c) \/ SearchStore(c) \/ BeginForget(c) \/ ListScope(c) \/ DropListed(c)
                \/ BeginReset(c) \/ CountItems(c)
      BY <1>1, <2>3, Zenon DEF MemNext, TalkNext, UserNext
    <3>2. kind' = kind /\ there' = there
      BY <3>1, Zenon DEF memVars, BackgroundWriter, TimeToLive, Converse, Remember, SaveLongTerm, Ingest, Adding,
         SliceReadOnly, AddItem, RememberMany, Send, DrainWrites, AwaitWriter, BeginRecall, SearchStore, BeginForget,
         ListScope, DropListed, BeginReset, CountItems, storeVars
    <3>3. QED
      BY <3>2
  <2>4. QED
    BY <2>1, <2>2, <2>3
<1>3. QED
  BY <1>1, <1>2, Zenon DEF KindSound

(* Once a Forget on a store that deletes scopes, or a Reset on a store     *)
(* that sees the answer, has returned without an error, nothing it was to  *)
(* erase is there again: for any number of callers, batches and            *)
(* overlapping Adds, Forgets and Resets, without a RetryStore (unified.go  *)
(* Forget, cosine.go and sqlite_store.go DeleteScope, redis_store.go       *)
(* Reset).                                                                 *)
THEOREM ErasuresHold == MemSpec => []ErasureHolds
<1> DEFINE I == KindSound /\ (~retry => ErasureSound)
<1>1. MemInit => I
  <2>1. SUFFICES ASSUME MemInit PROVE I
    OBVIOUS
  <2>2. /\ \E s \in Stacks : kind = s[1] /\ retry = s[2]
        /\ items = {} /\ queue = <<>> /\ use = [c \in Users |-> Resting] /\ writes = 0 /\ erased = {}
    BY <2>1, Zenon DEF MemInit
  <2>3. there
    BY <2>1, Zenon DEF MemInit
  <2>4. kind \in Local \cup Remote
    BY <2>2, MemAssumption
  <2>5. \A c \in Users : use[c].step = ""
    BY <2>2, RestingFields
  <2>6. \A c \in Users : Aim(c) = {} /\ Batch(c) = {}
    BY <2>5 DEF Aim, Batch
  <2>7. KnownSound /\ BatchSound /\ NoneBack
    BY <2>2, <2>6 DEF KnownSound, BatchSound, NoneBack
  <2>8. QueueSound
    <3>1. queue \in Seq(Queued) /\ Len(queue) = 0 /\ \A k \in 1..Len(queue) : FALSE
      BY <2>2, EmptySeq
    <3>2. QED
      BY <3>1 DEF QueueSound
  <2>9. \A c \in Users : AimSound(c)
    BY <2>5 DEF AimSound
  <2>10. ErasureSound
    BY <2>2, <2>7, <2>8, <2>9 DEF ErasureSound, StoredSound
  <2>11. KindSound
    BY <2>3, <2>4, Zenon DEF KindSound
  <2>12. QED
    BY <2>10, <2>11
<1>2. RecallIInv /\ I /\ [MemNext \/ TalkNext]_memVars => I'
  <2>1. SUFFICES ASSUME RecallIInv, I, [MemNext \/ TalkNext]_memVars, ~retry' PROVE ErasureSound'
    BY KindStep
  <2>2. ~retry
    <3>1. retry' = retry
      BY <2>1, Zenon DEF memVars, MemNext, TalkNext, UserNext, BackgroundWriter, TimeToLive, Converse, Remember,
         SaveLongTerm, Ingest, Adding, SliceReadOnly, AddItem, RememberMany, Send, DrainWrites, AwaitWriter,
         BeginRecall, SearchStore, BeginForget, ListScope, DropListed, BeginReset, ClearStore, EnsureCollection,
         CountItems
    <3>2. QED
      BY <2>1, <3>1, Zenon
  <2>3. UsesSound /\ KindSound /\ ErasureSound
    BY <2>1, <2>2, Zenon DEF RecallIInv
  <2>4. CASE UNCHANGED memVars
    <3>1. /\ use' = use /\ kind' = kind /\ retry' = retry /\ writes' = writes /\ erased' = erased
          /\ queue' = queue /\ items' = items
      BY <2>4, Zenon DEF memVars
    <3>2. \A i \in items' : \E j \in items : Same(i, j)
      BY <2>3, <3>1, ItemsStay
    <3>3. QED
      BY <2>3, <3>1, <3>2, StoreKept
  <2>5. CASE BackgroundWriter \/ TimeToLive
    BY <2>3, <2>5, BackgroundWriterSound, TimeToLiveSound
  <2>6. CASE \E c \in Users : UserNext(c) \/ Converse(c)
    <3>1. PICK c \in Users : UserNext(c) \/ Converse(c)
      BY <2>6
    <3>2. CASE Remember(c) \/ SaveLongTerm(c) \/ Ingest(c)
      BY <2>3, <3>2, RemembersSound
    <3>3. CASE AddItem(c) \/ ListScope(c)
      BY <2>2, <2>3, <3>3, AddItemSound, ListScopeSound
    <3>4. CASE Send(c) \/ DropListed(c) \/ ClearStore(c) \/ BeginForget(c) \/ BeginReset(c)
      BY <2>3, <3>4, SendMemorySound, DropListedSound, ClearStoreSound, BeginForgetSound, BeginResetSound
    <3>5. CASE \/ SliceReadOnly(c) \/ AwaitWriter(c) \/ CountItems(c) \/ EnsureCollection(c) \/ Converse(c)
               \/ RememberMany(c) \/ DrainWrites(c) \/ BeginRecall(c) \/ SearchStore(c)
      BY <2>3, <3>5, OtherCallersSound
    <3>6. QED
      BY <3>1, <3>2, <3>3, <3>4, <3>5, Zenon DEF UserNext
  <2>7. QED
    BY <2>1, <2>4, <2>5, <2>6, Zenon DEF MemNext, TalkNext
<1>3. I => ErasureHolds
  BY DEF ErasureSound, StoredSound, NoneBack, ErasureHolds
<1>4. QED
  BY <1>1, <1>2, <1>3, RecallInductive, PTL DEF MemSpec
=============================================================================
