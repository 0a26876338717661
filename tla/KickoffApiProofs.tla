-------------------------- MODULE KickoffApiProofs --------------------------
(* Proofs about the kickoff endpoint, for any number of goroutines, keys,  *)
(* sessions, owners and slots.                                             *)
EXTENDS KickoffApi, FiniteSetTheorems, TLAPS

(* Everything the induction needs at once. *)
IInv == TypeOK /\ SlotsAccounted /\ KeyInv /\ SessionInv

(* The initial state satisfies the invariant. *)
LEMMA InitInv == Init => IInv
<1> SUFFICES ASSUME Init PROVE IInv
  OBVIOUS
<1> USE KickoffAssumption
<1>1. TypeOK
  BY DEF Init, TypeOK, NoRequest, Phases, AnyOwner
<1>2. SlotHolders = {}
  BY DEF Init, SlotHolders
<1>3. SlotsAccounted
  BY <1>2, FS_EmptySet DEF Init, SlotsAccounted
<1>4. KeyInv
  BY DEF Init, KeyInv, HoldsKey, KeyLaunchesOnce
<1>5. SessionInv
  BY DEF Init, SessionInv, OwnsSession
<1>6. QED
  BY <1>1, <1>3, <1>4, <1>5 DEF IInv

(* Every action keeps the types, given that a worker that returns a slot   *)
(* holds one.                                                              *)
LEMMA TypeStep == TypeOK /\ (\A r \in Requests : pc[r] = "unwind" => sem # 0) /\ [Next]_vars => TypeOK'
<1> SUFFICES ASSUME TypeOK, \A r \in Requests : pc[r] = "unwind" => sem # 0, [Next]_vars
             PROVE TypeOK'
  OBVIOUS
<1> USE KickoffAssumption DEF TypeOK, Phases, AnyOwner, ledger
<1>1. ASSUME NEW r \in Requests, NEW k \in Keys \cup {NoKey}, NEW s \in Sessions, NEW o \in Owners,
             HandleKickoff(r, k, s, o)
      PROVE TypeOK'
  BY <1>1 DEF HandleKickoff
<1>2. ASSUME NEW r \in Requests, ReserveIdem(r)
      PROVE TypeOK'
  <2>1. CASE ~KeyFree(req[r].key)
    <3>1. Return(r) /\ UNCHANGED <<idemKeys, idemBySession, sessions, sem, launched>>
      BY <1>2, <2>1 DEF ReserveIdem
    <3>2. QED
      BY <3>1 DEF Return, NoRequest
  <2>2. CASE KeyFree(req[r].key)
    <3>1. [sess |-> req[r].sess, owner |-> req[r].owner, done |-> FALSE, status |-> "none"] \in IdemEntry
      BY <1>2 DEF ReserveIdem, IdemEntry
    <3>2. idemKeys' \in [Keys -> IdemEntry \cup {NoEntry}]
      BY <1>2, <2>2, <3>1 DEF ReserveIdem
    <3>3. idemBySession' \in [Sessions -> Keys \cup {NoKey}]
      BY <1>2, <2>2 DEF ReserveIdem
    <3>4. QED
      BY <1>2, <2>2, <3>2, <3>3 DEF ReserveIdem, Goto
  <2>3. QED
    BY <2>1, <2>2
<1>3. ASSUME NEW r \in Requests, SessionGate(r)
      PROVE TypeOK'
  BY <1>3 DEF SessionGate, Goto
<1>4. ASSUME NEW r \in Requests, ReleaseIdem(r)
      PROVE TypeOK'
  <2>1. idemKeys' \in [Keys -> IdemEntry \cup {NoEntry}]
    BY <1>4 DEF ReleaseIdem
  <2>2. idemBySession' \in [Sessions -> Keys \cup {NoKey}]
    BY <1>4 DEF ReleaseIdem, Unlinked
  <2>3. QED
    BY <1>4, <2>1, <2>2 DEF ReleaseIdem, Return, NoRequest
<1>5. ASSUME NEW r \in Requests, PersistSessionStart(r)
      PROVE TypeOK'
  BY <1>5 DEF PersistSessionStart, Goto, SessionState, Statuses
<1>6. ASSUME NEW r \in Requests, FinalizeIdem(r)
      PROVE TypeOK'
  <2>1. req[r].key \in Keys /\ req[r].sess \in Sessions
    BY <1>6 DEF FinalizeIdem
  <2>2. \A owner \in AnyOwner :
           [sess |-> req[r].sess, owner |-> owner, done |-> FALSE, status |-> "none"] \in IdemEntry
    BY <2>1 DEF IdemEntry
  <2>3. idemKeys[req[r].key] # NoEntry => idemKeys[req[r].key].owner \in AnyOwner
    BY <2>1 DEF IdemEntry
  <2>4. idemKeys' \in [Keys -> IdemEntry \cup {NoEntry}]
    BY <1>6, <2>2, <2>3 DEF FinalizeIdem
  <2>5. idemBySession' \in [Sessions -> Keys \cup {NoKey}]
    BY <1>6, <2>1 DEF FinalizeIdem
  <2>6. QED
    BY <1>6, <2>4, <2>5 DEF FinalizeIdem, Goto
<1>7. ASSUME NEW r \in Requests, AcquireSem(r)
      PROVE TypeOK'
  BY <1>7 DEF AcquireSem, Goto, SlotsAfterSend
<1>8. ASSUME NEW r \in Requests, NEW outcome \in Outcomes, PersistSessionEnd(r, outcome)
      PROVE TypeOK'
  <2>1. req[r].sess \in Sessions /\ pc[r] = "crew"
    BY <1>8 DEF PersistSessionEnd
  <2>2. sessions' \in [Sessions -> SessionState \cup {NoSession}]
    BY <1>8, <2>1 DEF PersistSessionEnd, SessionState, Statuses, Outcomes
  <2>3. /\ req' \in [Requests -> [key : Keys \cup {NoKey}, sess : Sessions \cup {NoSession},
                                   owner : AnyOwner, outcome : Outcomes \cup {"none"}]]
        /\ \A q \in Requests : req'[q].sess = req[q].sess
    BY <1>8 DEF PersistSessionEnd
  <2>4. QED
    BY <1>8, <2>1, <2>2, <2>3 DEF PersistSessionEnd
<1>9. ASSUME NEW r \in Requests, FinishIdem(r)
      PROVE TypeOK'
  <2>1. req[r].outcome \in Outcomes \cup {"none"}
    OBVIOUS
  <2>2. \A e \in IdemEntry : [e EXCEPT !.done = TRUE, !.status = req[r].outcome] \in IdemEntry
    BY <2>1 DEF IdemEntry
  <2>3. idemKeys' \in [Keys -> IdemEntry \cup {NoEntry}]
    BY <1>9, <2>2 DEF FinishIdem
  <2>4. idemBySession' \in [Sessions -> Keys \cup {NoKey}]
    BY <1>9 DEF FinishIdem, Unlinked
  <2>5. QED
    BY <1>9, <2>3, <2>4 DEF FinishIdem, Goto
<1>10. ASSUME NEW r \in Requests, ReleaseSem(r)
       PROVE TypeOK'
  BY <1>10 DEF ReleaseSem, Return, NoRequest, SlotsAfterReceive
<1>11. CASE Restart
  BY <1>11 DEF Restart, NoRequest
<1>12. CASE UNCHANGED vars
  BY <1>12 DEF vars
<1>13. QED
  BY <1>1, <1>2, <1>3, <1>4, <1>5, <1>6, <1>7, <1>8, <1>9, <1>10, <1>11, <1>12 DEF Next, Step

(* The slots in use are counted by sem across every action. *)
LEMMA SlotStep == TypeOK /\ SlotsAccounted /\ [Next]_vars => SlotsAccounted'
<1> SUFFICES ASSUME TypeOK, SlotsAccounted, [Next]_vars
             PROVE SlotsAccounted'
  OBVIOUS
<1> USE KickoffAssumption DEF TypeOK, Phases, ledger
<1>1. IsFiniteSet(SlotHolders)
  BY FS_Subset DEF SlotHolders
<1>2. ASSUME SlotHolders' = SlotHolders, sem' = sem
      PROVE SlotsAccounted'
  BY <1>2 DEF SlotsAccounted
<1>3. ASSUME NEW r \in Requests, NEW k \in Keys \cup {NoKey}, NEW s \in Sessions, NEW o \in Owners,
             HandleKickoff(r, k, s, o)
      PROVE SlotsAccounted'
  BY <1>2, <1>3 DEF HandleKickoff, SlotHolders
<1>4. ASSUME NEW r \in Requests,
             ReserveIdem(r) \/ SessionGate(r) \/ ReleaseIdem(r) \/ PersistSessionStart(r) \/ FinalizeIdem(r)
      PROVE SlotsAccounted'
  BY <1>2, <1>4 DEF ReserveIdem, SessionGate, ReleaseIdem, PersistSessionStart, FinalizeIdem,
                    Goto, Return, SlotHolders
<1>5. ASSUME NEW r \in Requests, AcquireSem(r)
      PROVE SlotsAccounted'
  <2>1. CASE sem < SemCap
    <3>1. SlotHolders' = SlotHolders \cup {r} /\ r \notin SlotHolders
      BY <1>5, <2>1 DEF AcquireSem, Goto, SlotHolders
    <3>2. Cardinality(SlotHolders') = Cardinality(SlotHolders) + 1
      BY <1>1, <3>1, FS_AddElement
    <3>3. QED
      BY <1>5, <2>1, <3>2 DEF AcquireSem, SlotsAfterSend, SlotsAccounted
  <2>2. CASE ~(sem < SemCap)
    BY <1>2, <1>5, <2>2 DEF AcquireSem, Goto, SlotHolders
  <2>3. QED
    BY <2>1, <2>2
<1>6. ASSUME NEW r \in Requests, NEW outcome \in Outcomes, PersistSessionEnd(r, outcome)
      PROVE SlotsAccounted'
  BY <1>2, <1>6 DEF PersistSessionEnd, SlotHolders
<1>7. ASSUME NEW r \in Requests, FinishIdem(r)
      PROVE SlotsAccounted'
  BY <1>2, <1>7 DEF FinishIdem, Goto, SlotHolders
<1>8. ASSUME NEW r \in Requests, ReleaseSem(r)
      PROVE SlotsAccounted'
  <2>1. SlotHolders' = SlotHolders \ {r} /\ r \in SlotHolders
    BY <1>8 DEF ReleaseSem, Return, SlotHolders
  <2>2. Cardinality(SlotHolders') = Cardinality(SlotHolders) - 1
    BY <1>1, <2>1, FS_RemoveElement
  <2>3. QED
    BY <1>8, <2>2 DEF ReleaseSem, SlotsAfterReceive, SlotsAccounted
<1>9. CASE Restart
  <2>1. SlotHolders' = {}
    BY <1>9 DEF Restart, SlotHolders
  <2>2. QED
    BY <1>9, <2>1, FS_EmptySet DEF Restart, SlotsAccounted
<1>10. CASE UNCHANGED vars
  BY <1>2, <1>10 DEF vars, SlotHolders
<1>11. QED
  BY <1>3, <1>4, <1>5, <1>6, <1>7, <1>8, <1>9, <1>10 DEF Next, Step

(* A worker that is about to return a slot holds one. *)
LEMMA HolderHasSlot == TypeOK /\ SlotsAccounted => \A r \in Requests : pc[r] = "unwind" => sem # 0
<1> SUFFICES ASSUME TypeOK, SlotsAccounted, NEW r \in Requests, pc[r] = "unwind"
             PROVE sem # 0
  OBVIOUS
<1>1. IsFiniteSet(SlotHolders)
  BY KickoffAssumption, FS_Subset DEF SlotHolders
<1>2. SlotHolders # {}
  BY DEF SlotHolders
<1>3. QED
  BY <1>1, <1>2, FS_EmptySet DEF SlotsAccounted

(* An entry that doIdem writes is one: the key is in the ledger afterwards. *)
LEMMA EntryIsReal ==
    ASSUME NEW s \in Sessions, NEW o \in AnyOwner
    PROVE [sess |-> s, owner |-> o, done |-> FALSE, status |-> "none"] # NoEntry
<1>1. [sess |-> s, owner |-> o, done |-> FALSE, status |-> "none"] \in IdemEntry
  BY DEF IdemEntry
<1>2. QED
  BY <1>1, KickoffAssumption

(* Reservations stay exclusive and launches stay unique: the argument for  *)
(* KeyLaunchesOnce, one action at a time.                                  *)
LEMMA KeyStep == TypeOK /\ KeyInv /\ [Next]_vars => KeyInv'
<1> SUFFICES ASSUME TypeOK, KeyInv, [Next]_vars
             PROVE KeyInv'
  OBVIOUS
<1> USE KickoffAssumption DEF TypeOK, Phases, ledger, KeyInv, HoldsKey, KeyLaunchesOnce
<1>1. ASSUME NEW r \in Requests, NEW k \in Keys \cup {NoKey}, NEW s \in Sessions, NEW o \in Owners,
             HandleKickoff(r, k, s, o)
      PROVE KeyInv'
  BY <1>1 DEF HandleKickoff
<1>2. ASSUME NEW r \in Requests, ReserveIdem(r)
      PROVE KeyInv'
  <2>1. CASE ~KeyFree(req[r].key)
    <3>1. Return(r) /\ UNCHANGED <<idemKeys, idemBySession, sessions, sem, launched>>
      BY <1>2, <2>1 DEF ReserveIdem
    <3>2. QED
      BY <3>1 DEF Return, NoRequest
  <2>2. CASE KeyFree(req[r].key)
    <3>1. [sess |-> req[r].sess, owner |-> req[r].owner, done |-> FALSE, status |-> "none"] # NoEntry
      <4>1. req[r].sess \in Sessions /\ req[r].owner \in AnyOwner
        BY <1>2 DEF ReserveIdem
      <4>2. QED
        BY <4>1, EntryIsReal
    <3>2. req[r].key \in Keys /\ idemKeys[req[r].key] = NoEntry
      BY <1>2, <2>2 DEF ReserveIdem, KeyFree
    <3>3. \A k \in Keys : idemKeys[k] # NoEntry => idemKeys'[k] # NoEntry
      BY <1>2, <2>2, <3>2 DEF ReserveIdem
    <3>4. idemKeys'[req[r].key] # NoEntry /\ launched' = launched /\ req' = req
      BY <1>2, <2>2, <3>1, <3>2 DEF ReserveIdem, Goto
    <3>5. pc' = [pc EXCEPT ![r] = "gate"]
      BY <1>2, <2>2 DEF ReserveIdem, Goto
    <3>6. \A q \in Requests : HoldsKey(q)' => q = r \/ (HoldsKey(q) /\ req[q].key # req[r].key)
      BY <3>2, <3>4, <3>5
    <3>7. launched[req[r].key] = 0
      BY <3>2
    <3>8. QED
      BY <3>2, <3>3, <3>4, <3>6, <3>7
  <2>3. QED
    BY <2>1, <2>2
<1>3. ASSUME NEW r \in Requests, SessionGate(r) \/ PersistSessionStart(r)
      PROVE KeyInv'
  BY <1>3 DEF SessionGate, PersistSessionStart, Goto
<1>4. ASSUME NEW r \in Requests, ReleaseIdem(r)
      PROVE KeyInv'
  BY <1>4 DEF ReleaseIdem, Return, NoRequest
<1>5. ASSUME NEW r \in Requests, FinalizeIdem(r)
      PROVE KeyInv'
  <2> DEFINE k == req[r].key
             owner == IF idemKeys[k] # NoEntry THEN idemKeys[k].owner ELSE NoOwner
  <2>0. k \in Keys /\ req[r].sess \in Sessions /\ owner \in AnyOwner
    BY <1>5 DEF FinalizeIdem, IdemEntry, AnyOwner
  <2>1. [sess |-> req[r].sess, owner |-> owner, done |-> FALSE, status |-> "none"] # NoEntry
    BY <2>0, EntryIsReal
  <2>2. \A x \in Keys : idemKeys[x] # NoEntry => idemKeys'[x] # NoEntry
    BY <1>5, <2>1 DEF FinalizeIdem
  <2>3. launched' = launched /\ req' = req /\ pc' = [pc EXCEPT ![r] = "acquire"] /\ pc[r] = "finalize"
    BY <1>5 DEF FinalizeIdem, Goto
  <2>4. QED
    BY <2>2, <2>3
<1>6. ASSUME NEW r \in Requests, AcquireSem(r)
      PROVE KeyInv'
  <2>1. CASE sem < SemCap
    <3>1. pc[r] = "acquire" /\ pc' = [pc EXCEPT ![r] = "crew"] /\ req' = req /\ idemKeys' = idemKeys
      BY <1>6, <2>1 DEF AcquireSem, Goto
    <3>2. \A k \in Keys : launched'[k] = IF k = req[r].key THEN launched[k] + 1 ELSE launched[k]
      BY <1>6, <2>1 DEF AcquireSem
    <3>3. \A q \in Requests : HoldsKey(q)' => HoldsKey(q) /\ req[q].key # req[r].key /\ req[q].key \in Keys
      BY <3>1
    <3>4. req[r].key \in Keys => launched[req[r].key] = 0 /\ idemKeys[req[r].key] # NoEntry
      BY <3>1
    <3>5. QED
      BY <3>1, <3>2, <3>3, <3>4
  <2>2. CASE ~(sem < SemCap)
    <3>1. pc[r] = "acquire" /\ Goto(r, "release") /\ idemKeys' = idemKeys /\ launched' = launched
      BY <1>6, <2>2 DEF AcquireSem
    <3>2. QED
      BY <3>1 DEF Goto
  <2>3. QED
    BY <2>1, <2>2
<1>7. ASSUME NEW r \in Requests, NEW outcome \in Outcomes, PersistSessionEnd(r, outcome)
      PROVE KeyInv'
  BY <1>7 DEF PersistSessionEnd
<1>8. ASSUME NEW r \in Requests, FinishIdem(r)
      PROVE KeyInv'
  <2>1. \A e \in IdemEntry, x \in Outcomes \cup {"none"} :
           [e EXCEPT !.done = TRUE, !.status = x] \in IdemEntry
    BY DEF IdemEntry
  <2>2. req[r].outcome \in Outcomes \cup {"none"}
    OBVIOUS
  <2>3. \A x \in Keys : idemKeys[x] # NoEntry => idemKeys'[x] # NoEntry
    <3>1. SUFFICES ASSUME NEW x \in Keys, idemKeys[x] # NoEntry PROVE idemKeys'[x] # NoEntry
      OBVIOUS
    <3>2. idemKeys[x] \in IdemEntry
      BY <3>1
    <3>3. \/ idemKeys'[x] = idemKeys[x]
          \/ idemKeys'[x] = [idemKeys[x] EXCEPT !.done = TRUE, !.status = req[r].outcome]
      BY <1>8 DEF FinishIdem
    <3>4. [idemKeys[x] EXCEPT !.done = TRUE, !.status = req[r].outcome] \in IdemEntry
      BY <2>1, <2>2, <3>2
    <3>5. QED
      BY <3>2, <3>3, <3>4
  <2>4. pc[r] = "finish" /\ pc' = [pc EXCEPT ![r] = "unwind"] /\ req' = req /\ launched' = launched
    BY <1>8 DEF FinishIdem, Goto
  <2>5. \A q \in Requests : HoldsKey(q)' => HoldsKey(q) /\ req[q].key \in Keys
    BY <2>4
  <2>6. QED
    BY <2>3, <2>4, <2>5
<1>9. ASSUME NEW r \in Requests, ReleaseSem(r)
      PROVE KeyInv'
  BY <1>9 DEF ReleaseSem, Return, NoRequest
<1>10. CASE Restart
  BY <1>10 DEF Restart, NoRequest
<1>11. CASE UNCHANGED vars
  BY <1>11 DEF vars
<1>12. QED
  BY <1>1, <1>2, <1>3, <1>4, <1>5, <1>6, <1>7, <1>8, <1>9, <1>10, <1>11 DEF Next, Step

(* A recorded session keeps its one goroutine until the crew ends. *)
LEMMA SessionStep == TypeOK /\ SessionInv /\ [Next]_vars => SessionInv'
<1> SUFFICES ASSUME TypeOK, SessionInv, [Next]_vars
             PROVE SessionInv'
  OBVIOUS
<1> USE KickoffAssumption DEF TypeOK, Phases, ledger, SessionInv, OwnsSession, IsRunning
<1>1. ASSUME NEW r \in Requests, NEW k \in Keys \cup {NoKey}, NEW s \in Sessions, NEW o \in Owners,
             HandleKickoff(r, k, s, o)
      PROVE SessionInv'
  BY <1>1 DEF HandleKickoff
<1>2. ASSUME sessions' = sessions,
             \A q \in Requests : OwnsSession(q)' => OwnsSession(q) /\ req'[q].sess = req[q].sess
      PROVE SessionInv'
  BY <1>2
<1>3. ASSUME NEW r \in Requests,
             ReserveIdem(r) \/ ReleaseIdem(r) \/ ReleaseSem(r) \/ SessionGate(r) \/ FinalizeIdem(r)
                \/ AcquireSem(r) \/ FinishIdem(r)
      PROVE SessionInv'
  <2>1. sessions' = sessions
    BY <1>3 DEF ReserveIdem, ReleaseIdem, ReleaseSem, SessionGate, FinalizeIdem, AcquireSem, FinishIdem
  <2>2. \/ Return(r)
        \/ \E phase \in {"gate", "release", "persist", "unwind"} : Goto(r, phase)
        \/ Goto(r, "acquire") /\ pc[r] = "finalize"
        \/ Goto(r, "crew") /\ pc[r] = "acquire"
    BY <1>3 DEF ReserveIdem, ReleaseIdem, ReleaseSem, SessionGate, FinalizeIdem, AcquireSem, FinishIdem
  <2>3. \A q \in Requests : OwnsSession(q)' => OwnsSession(q) /\ req'[q].sess = req[q].sess
    BY <2>2 DEF Goto, Return
  <2>4. QED
    BY <1>2, <2>1, <2>3
<1>4. ASSUME NEW r \in Requests, PersistSessionStart(r)
      PROVE SessionInv'
  <2>1. CASE SessionTaken(req[r].sess, req[r].owner)
    <3>1. sessions' = sessions /\ Goto(r, "release")
      BY <1>4, <2>1 DEF PersistSessionStart
    <3>2. QED
      BY <1>2, <3>1 DEF Goto
  <2>2. CASE ~SessionTaken(req[r].sess, req[r].owner)
    <3>1. \A q \in Requests : OwnsSession(q) => req[q].sess # req[r].sess
      BY <2>2 DEF SessionTaken
    <3>2. pc[r] = "persist" /\ req[r].sess \in Sessions /\ req' = req
      BY <1>4 DEF PersistSessionStart, Goto
    <3>3. CASE sessions' = [sessions EXCEPT ![req[r].sess] = NoSession] /\ Goto(r, "release")
      BY <3>1, <3>2, <3>3 DEF Goto
    <3>4. CASE /\ sessions' = [sessions EXCEPT ![req[r].sess] = [status |-> "running", owner |-> req[r].owner]]
               /\ Goto(r, IF req[r].key = NoKey THEN "acquire" ELSE "finalize")
      <4>1. [status |-> "running", owner |-> req[r].owner] # NoSession
        BY <3>2 DEF SessionState, Statuses, AnyOwner
      <4>2. \A q \in Requests : OwnsSession(q)' => q = r \/ OwnsSession(q)
        BY <3>4 DEF Goto
      <4>3. \A q \in Requests : OwnsSession(q) => sessions'[req[q].sess] = sessions[req[q].sess]
        BY <3>1, <3>4
      <4>4. IsRunning(req[r].sess)'
        BY <3>2, <3>4, <4>1
      <4>5. QED
        BY <3>1, <3>2, <4>2, <4>3, <4>4
    <3>5. QED
      BY <1>4, <2>2, <3>3, <3>4 DEF PersistSessionStart
  <2>3. QED
    BY <2>1, <2>2
<1>5. ASSUME NEW r \in Requests, NEW outcome \in Outcomes, PersistSessionEnd(r, outcome)
      PROVE SessionInv'
  BY <1>5 DEF PersistSessionEnd, SessionState
<1>6. CASE Restart
  BY <1>6 DEF Restart, NoRequest
<1>7. CASE UNCHANGED vars
  BY <1>7 DEF vars
<1>8. QED
  BY <1>1, <1>2, <1>3, <1>4, <1>5, <1>6, <1>7 DEF Next, Step

(* The inductive invariant holds in every reachable state. *)
THEOREM Invariance == Spec => []IInv
<1>1. IInv /\ [Next]_vars => IInv'
  BY TypeStep, SlotStep, HolderHasSlot, KeyStep, SessionStep DEF IInv
<1>2. QED
  BY InitInv, <1>1, PTL DEF Spec

(* The state of the endpoint is well typed: in particular a worker never   *)
(* receives from an empty kickoffSem (handlers.go:57-59).                  *)
THEOREM TypeCorrect == Spec => []TypeOK
<1>1. IInv => TypeOK
  BY DEF IInv
<1>2. QED
  BY Invariance, <1>1, PTL

(* However requests, retries and restarts interleave, a key starts at most *)
(* one crew per life of the server (handlers.go:352-392).                  *)
THEOREM KeyNeverRunsTwice == Spec => []KeyLaunchesOnce
<1>1. IInv => KeyLaunchesOnce
  BY DEF IInv, KeyInv
<1>2. QED
  BY Invariance, <1>1, PTL

(* No session ever has two crews at work (handlers.go:703-720). *)
THEOREM SessionNeverRunsTwice == Spec => []OneCrewPerSession
<1>1. IInv => OneCrewPerSession
  BY DEF IInv, SessionInv, OwnsSession, OneCrewPerSession
<1>2. QED
  BY Invariance, <1>1, PTL

(* No path of the handler leaks or double-frees a slot of kickoffSem       *)
(* (handlers.go:44-59, 657-680).                                           *)
THEOREM SlotsNeverLeak == Spec => []SlotsAccounted
<1>1. IInv => SlotsAccounted
  BY DEF IInv
<1>2. QED
  BY Invariance, <1>1, PTL

(* Which steps write the session table, and what they write: only a        *)
(* request that found the id free, its worker, and a restart.              *)
LEMMA SessionWrites ==
    ASSUME TypeOK, [Next]_vars, NEW s \in Sessions, sessions'[s] # sessions[s]
    PROVE \/ \E r \in Requests :
                /\ pc[r] = "persist" /\ ~SessionTaken(s, req[r].owner)
                /\ sessions'[s] \in {NoSession, [status |-> "running", owner |-> req[r].owner]}
          \/ \E r \in Requests, outcome \in Outcomes :
                /\ req[r].sess = s /\ pc[r] = "crew" /\ pc'[r] = "finish"
                /\ sessions[s] # NoSession
                /\ sessions'[s] = [sessions[s] EXCEPT !.status = outcome]
          \/ Restart
<1>1. CASE sessions' = sessions
  BY <1>1
<1>2. ASSUME NEW r \in Requests, PersistSessionStart(r)
      PROVE /\ pc[r] = "persist" /\ ~SessionTaken(s, req[r].owner)
            /\ sessions'[s] \in {NoSession, [status |-> "running", owner |-> req[r].owner]}
  BY <1>2 DEF PersistSessionStart, TypeOK
<1>3. ASSUME NEW r \in Requests, NEW outcome \in Outcomes, PersistSessionEnd(r, outcome)
      PROVE /\ req[r].sess = s /\ pc[r] = "crew" /\ pc'[r] = "finish"
            /\ sessions[s] # NoSession
            /\ sessions'[s] = [sessions[s] EXCEPT !.status = outcome]
  BY <1>3 DEF PersistSessionEnd, TypeOK
<1>4. QED
  BY <1>1, <1>2, <1>3 DEF Next, Step, HandleKickoff, ReserveIdem, SessionGate, ReleaseIdem,
     FinalizeIdem, AcquireSem, FinishIdem, ReleaseSem, vars

(* A running session is ended by its own worker or with the process, never *)
(* by another request (handlers.go:703-713, 747-817).                      *)
THEOREM RunningSessionKept == Spec => RunningUntouched
<1>1. TypeOK /\ [Next]_vars =>
        [\A s \in Sessions :
          IsRunning(s) /\ sessions'[s] # sessions[s] =>
              \/ \E r \in Requests :
                    req[r].sess = s /\ pc[r] = "crew" /\ pc'[r] = "finish"
              \/ Restart]_vars
  <2> SUFFICES ASSUME TypeOK, [Next]_vars, NEW s \in Sessions,
                      IsRunning(s), sessions'[s] # sessions[s], ~Restart
               PROVE \E r \in Requests : req[r].sess = s /\ pc[r] = "crew" /\ pc'[r] = "finish"
    OBVIOUS
  <2>1. \A o \in AnyOwner : SessionTaken(s, o)
    BY DEF IsRunning, SessionTaken
  <2>2. \A r \in Requests : req[r].owner \in AnyOwner
    BY DEF TypeOK
  <2>3. QED
    BY <2>1, <2>2, SessionWrites
<1>2. IInv => TypeOK
  BY DEF IInv
<1>3. QED
  BY Invariance, <1>1, <1>2, PTL DEF Spec, RunningUntouched

(* Every request carries the fingerprint of a token, so every session in   *)
(* the table has an owner: without this an ownerless one could change      *)
(* hands.                                                                  *)
OwnersReal ==
    /\ \A r \in Requests : pc[r] # "idle" => req[r].owner \in Owners
    /\ \A s \in Sessions : sessions[s] # NoSession => sessions[s].owner \in Owners

(* Owners stay real: a new one comes only from HandleKickoff. *)
LEMMA OwnersStep == TypeOK /\ OwnersReal /\ [Next]_vars => OwnersReal'
<1> SUFFICES ASSUME TypeOK, OwnersReal, [Next]_vars
             PROVE OwnersReal'
  OBVIOUS
<1>1. \A r \in Requests : pc'[r] # "idle" => req'[r].owner \in Owners
  <2> USE DEF TypeOK, OwnersReal
  <2>1. ASSUME NEW r \in Requests, NEW k \in Keys \cup {NoKey}, NEW s \in Sessions,
               NEW o \in Owners, HandleKickoff(r, k, s, o)
        PROVE \A q \in Requests : pc'[q] # "idle" => req'[q].owner \in Owners
    BY <2>1 DEF HandleKickoff
  <2>2. ASSUME NEW r \in Requests, Step(r)
        PROVE \A q \in Requests : pc'[q] # "idle" => req'[q].owner \in Owners
    <3>1. CASE Return(r)
      BY <3>1 DEF Return
    <3>2. CASE pc[r] # "idle" /\ \E phase \in Phases : Goto(r, phase)
      BY <3>2 DEF Goto
    <3>3. CASE \E outcome \in Outcomes : PersistSessionEnd(r, outcome)
      BY <3>3 DEF PersistSessionEnd
    <3>4. QED
      BY <2>2, <3>1, <3>2, <3>3 DEF Step, ReserveIdem, SessionGate, ReleaseIdem,
         PersistSessionStart, FinalizeIdem, AcquireSem, FinishIdem, ReleaseSem, Phases
  <2>3. CASE Restart
    BY <2>3 DEF Restart
  <2>4. CASE UNCHANGED vars
    BY <2>4 DEF vars
  <2>5. QED
    BY <2>1, <2>2, <2>3, <2>4 DEF Next
<1>2. ASSUME NEW s \in Sessions, sessions'[s] # NoSession
      PROVE sessions'[s].owner \in Owners
  <2>1. CASE sessions'[s] = sessions[s]
    BY <1>2, <2>1 DEF OwnersReal
  <2>2. ASSUME NEW r \in Requests, pc[r] = "persist",
               sessions'[s] = [status |-> "running", owner |-> req[r].owner]
        PROVE sessions'[s].owner \in Owners
    BY <2>2 DEF OwnersReal
  <2>3. ASSUME NEW outcome \in Outcomes, sessions[s] # NoSession,
               sessions'[s] = [sessions[s] EXCEPT !.status = outcome]
        PROVE sessions'[s].owner \in Owners
    BY <2>3 DEF OwnersReal, TypeOK, SessionState
  <2>4. ~Restart
    BY <1>2 DEF Restart
  <2>5. QED
    BY <1>2, <2>1, <2>2, <2>3, <2>4, SessionWrites
<1>3. QED
  BY <1>1, <1>2 DEF OwnersReal

(* The owner of a session in the table never changes (handlers.go:703-713,  *)
(* 747-817).                                                               *)
THEOREM TenantKept == Spec => OwnerKept
<1>1. TypeOK /\ OwnersReal /\ [Next]_vars =>
        [\A s \in Sessions :
          sessions[s] # NoSession /\ sessions'[s] # NoSession =>
              sessions'[s].owner = sessions[s].owner]_vars
  <2> SUFFICES ASSUME TypeOK, OwnersReal, [Next]_vars, NEW s \in Sessions,
                      sessions[s] # NoSession, sessions'[s] # NoSession,
                      sessions'[s] # sessions[s]
               PROVE sessions'[s].owner = sessions[s].owner
    OBVIOUS
  <2>1. sessions[s] \in SessionState
    BY DEF TypeOK
  <2>2. ASSUME NEW r \in Requests, ~SessionTaken(s, req[r].owner),
               sessions'[s] = [status |-> "running", owner |-> req[r].owner]
        PROVE sessions'[s].owner = sessions[s].owner
    BY <2>1, <2>2, KickoffAssumption DEF SessionTaken, OwnersReal
  <2>3. ASSUME NEW outcome \in Outcomes, sessions'[s] = [sessions[s] EXCEPT !.status = outcome]
        PROVE sessions'[s].owner = sessions[s].owner
    BY <2>1, <2>3 DEF SessionState
  <2>4. ~Restart
    BY DEF Restart
  <2>5. QED
    BY <2>2, <2>3, <2>4, SessionWrites
<1>2. IInv => TypeOK
  BY DEF IInv
<1>3. Init => OwnersReal
  BY DEF Init, OwnersReal
<1>4. QED
  BY Invariance, OwnersStep, <1>1, <1>2, <1>3, PTL DEF Spec, OwnerKept

-----------------------------------------------------------------------------
(* The promise of the service.                                             *)

ShownCrews == [r \in Requests |-> CrewOf(r)]

(* A worker shows a session while its crew runs, and only then. *)
LEMMA ShownIsRunning ==
    ASSUME TypeOK
    PROVE  \A r \in Requests : /\ ShownCrews[r] = CrewOf(r)
                               /\ ShownCrews[r] # NoSession <=> pc[r] = "crew"
                               /\ pc[r] = "crew" => ShownCrews[r].sess = req[r].sess
  BY CrewAssumption DEF TypeOK, ShownCrews, CrewOf

(* What a client does not see: no crew starts or ends. *)
LEMMA UnseenSteps ==
    ASSUME \A r \in Requests : /\ pc'[r] = "crew" <=> pc[r] = "crew"
                               /\ pc[r] = "crew" => req'[r] = req[r],
           launched' = launched
    PROVE  ShownCrews' = ShownCrews /\ UsedKeys' = UsedKeys
  BY DEF ShownCrews, CrewOf, UsedKeys

(* A crew starts within the cap, for a session that no crew runs for and   *)
(* under a fresh key.                                                      *)
LEMMA StartIsPromised ==
    ASSUME IInv, NEW r \in Requests, pc[r] = "acquire", sem < SemCap,
           pc' = [pc EXCEPT ![r] = "crew"], req' = req,
           launched' = [k \in Keys |-> IF k = req[r].key THEN launched[k] + 1 ELSE launched[k]]
    PROVE  /\ ShownCrews[r] = NoSession
           /\ \A v \in {w \in Requests : ShownCrews[w] # NoSession} : ShownCrews[v].sess # req[r].sess
           /\ Cardinality({w \in Requests : ShownCrews[w] # NoSession}) < SemCap
           /\ req[r].key \notin UsedKeys
           /\ ShownCrews' = [ShownCrews EXCEPT ![r] = [sess |-> req[r].sess, key |-> req[r].key]]
           /\ UsedKeys' = UsedKeys \cup ({req[r].key} \ {NoKey})
<1>0. TypeOK /\ SlotsAccounted /\ KeyInv /\ SessionInv
  BY DEF IInv
<1>1. /\ req[r].sess \in Sessions /\ req[r].key \in Keys \cup {NoKey}
      /\ pc \in [Requests -> Phases] /\ launched \in [Keys -> Nat]
  BY <1>0, KickoffAssumption DEF TypeOK
<1>2. ShownCrews[r] = NoSession
  BY <1>0, ShownIsRunning
<1>3. ASSUME NEW v \in Requests, ShownCrews[v] # NoSession PROVE ShownCrews[v].sess # req[r].sess
  <2>1. pc[v] = "crew" /\ ShownCrews[v].sess = req[v].sess
    BY <1>0, <1>3, ShownIsRunning
  <2>2. OwnsSession(v) /\ OwnsSession(r) /\ v # r
    BY <2>1 DEF OwnsSession
  <2>3. QED
    BY <1>0, <2>1, <2>2 DEF SessionInv
<1>4. Cardinality({w \in Requests : ShownCrews[w] # NoSession}) < SemCap
  <2> DEFINE B == {w \in Requests : ShownCrews[w] # NoSession}
  <2>1. B \subseteq SlotHolders
    BY <1>0, ShownIsRunning DEF SlotHolders
  <2>2. IsFiniteSet(SlotHolders)
    BY KickoffAssumption, FS_Subset DEF SlotHolders
  <2> HIDE DEF B
  <2>3. IsFiniteSet(B) /\ Cardinality(B) <= Cardinality(SlotHolders)
    BY <2>1, <2>2, FS_Subset
  <2>4. Cardinality(B) \in Nat /\ Cardinality(SlotHolders) = sem /\ sem \in Nat /\ SemCap \in Nat
    BY <1>0, <2>3, FS_CardinalityType, KickoffAssumption DEF SlotsAccounted, TypeOK
  <2>5. Cardinality(B) < SemCap
    BY <2>3, <2>4
  <2>6. QED
    BY <2>5 DEF B
<1>5. req[r].key \notin UsedKeys
  <2>1. CASE req[r].key = NoKey
    BY <2>1, KickoffAssumption DEF UsedKeys
  <2>2. CASE req[r].key # NoKey
    <3>1. HoldsKey(r)
      BY <2>2 DEF HoldsKey
    <3>2. QED
      BY <1>0, <3>1 DEF KeyInv, UsedKeys
  <2>3. QED
    BY <2>1, <2>2
<1>6. ShownCrews' = [ShownCrews EXCEPT ![r] = [sess |-> req[r].sess, key |-> req[r].key]]
  BY <1>1 DEF ShownCrews, CrewOf
<1>7. UsedKeys' = UsedKeys \cup ({req[r].key} \ {NoKey})
  BY <1>1, KickoffAssumption DEF UsedKeys
<1>8. QED
  BY <1>2, <1>3, <1>4, <1>5, <1>6, <1>7

(* Each step starts a crew, ends one, restarts the server or is not seen. *)
LEMMA ServiceSimulated ==
    ASSUME IInv, [Next]_vars
    PROVE  \/ ShownCrews' = ShownCrews /\ UsedKeys' = UsedKeys
           \/ \E w \in Requests, s \in Sessions, k \in Keys \cup {NoKey} :
                 /\ ShownCrews[w] = NoSession
                 /\ \A v \in {u \in Requests : ShownCrews[u] # NoSession} : ShownCrews[v].sess # s
                 /\ Cardinality({v \in Requests : ShownCrews[v] # NoSession}) < SemCap
                 /\ k \notin UsedKeys
                 /\ ShownCrews' = [ShownCrews EXCEPT ![w] = [sess |-> s, key |-> k]]
                 /\ UsedKeys' = UsedKeys \cup ({k} \ {NoKey})
           \/ \E w \in Requests : /\ ShownCrews[w] # NoSession
                                  /\ ShownCrews' = [ShownCrews EXCEPT ![w] = NoSession]
                                  /\ UsedKeys' = UsedKeys
           \/ ShownCrews' = [w \in Requests |-> NoSession] /\ UsedKeys' = {}
<1>0. TypeOK /\ pc \in [Requests -> Phases] /\ req = [r \in Requests |-> req[r]]
  BY DEF IInv, TypeOK
<1>1. ASSUME NEW r \in Requests, NEW k \in Keys \cup {NoKey}, NEW s \in Sessions, NEW o \in Owners,
             HandleKickoff(r, k, s, o)
      PROVE  ShownCrews' = ShownCrews /\ UsedKeys' = UsedKeys
  <2>1. /\ \A q \in Requests : pc'[q] = "crew" <=> pc[q] = "crew"
        /\ \A q \in Requests : pc[q] = "crew" => req'[q] = req[q]
        /\ launched' = launched
    BY <1>0, <1>1 DEF HandleKickoff
  <2>2. QED
    BY <2>1, UnseenSteps
<1>2. ASSUME NEW r \in Requests,
             \/ ReserveIdem(r) \/ SessionGate(r) \/ ReleaseIdem(r) \/ PersistSessionStart(r)
             \/ FinalizeIdem(r) \/ FinishIdem(r) \/ ReleaseSem(r)
      PROVE  ShownCrews' = ShownCrews /\ UsedKeys' = UsedKeys
  <2>1. /\ \E phase \in Phases \ {"crew"} : pc' = [pc EXCEPT ![r] = phase]
        /\ pc[r] # "crew" /\ launched' = launched
        /\ req' = req \/ req' = [req EXCEPT ![r] = NoRequest]
    BY <1>2 DEF ReserveIdem, SessionGate, ReleaseIdem, PersistSessionStart, FinalizeIdem, FinishIdem,
       ReleaseSem, Goto, Return, Phases
  <2>2. /\ \A q \in Requests : pc'[q] = "crew" <=> pc[q] = "crew"
        /\ \A q \in Requests : pc[q] = "crew" => req'[q] = req[q]
    BY <1>0, <2>1
  <2>3. QED
    BY <2>1, <2>2, UnseenSteps
<1>3. ASSUME NEW r \in Requests, AcquireSem(r)
      PROVE  \/ ShownCrews' = ShownCrews /\ UsedKeys' = UsedKeys
             \/ /\ ShownCrews[r] = NoSession
                /\ \A v \in {w \in Requests : ShownCrews[w] # NoSession} : ShownCrews[v].sess # req[r].sess
                /\ Cardinality({w \in Requests : ShownCrews[w] # NoSession}) < SemCap
                /\ req[r].key \notin UsedKeys
                /\ ShownCrews' = [ShownCrews EXCEPT ![r] = [sess |-> req[r].sess, key |-> req[r].key]]
                /\ UsedKeys' = UsedKeys \cup ({req[r].key} \ {NoKey})
  <2>1. CASE pc' = [pc EXCEPT ![r] = "release"] /\ req' = req /\ launched' = launched
    <3>1. pc[r] = "acquire"
      BY <1>3 DEF AcquireSem
    <3>2. \A q \in Requests : /\ pc'[q] = "crew" <=> pc[q] = "crew"
                              /\ pc[q] = "crew" => req'[q] = req[q]
      BY <1>0, <2>1, <3>1
    <3>3. QED
      BY <2>1, <3>2, UnseenSteps
  <2>2. CASE /\ sem < SemCap /\ pc' = [pc EXCEPT ![r] = "crew"] /\ req' = req
             /\ launched' = [k \in Keys |-> IF k = req[r].key THEN launched[k] + 1 ELSE launched[k]]
    <3>1. pc[r] = "acquire"
      BY <1>3 DEF AcquireSem
    <3>2. QED
      BY <2>2, <3>1, StartIsPromised
  <2>3. QED
    BY <1>3, <2>1, <2>2 DEF AcquireSem, Goto
<1>4. ASSUME NEW r \in Requests, NEW outcome \in Outcomes, PersistSessionEnd(r, outcome)
      PROVE  /\ ShownCrews[r] # NoSession /\ UsedKeys' = UsedKeys
             /\ ShownCrews' = [ShownCrews EXCEPT ![r] = NoSession]
  <2>1. pc[r] = "crew" /\ pc' = [pc EXCEPT ![r] = "finish"] /\ launched' = launched
        /\ req' = [req EXCEPT ![r].outcome = outcome]
    BY <1>4 DEF PersistSessionEnd
  <2>2. \A q \in Requests : q # r => pc'[q] = pc[q] /\ req'[q] = req[q]
    BY <1>0, <2>1
  <2>3. pc'[r] = "finish"
    BY <1>0, <2>1
  <2>4. ShownCrews' = [ShownCrews EXCEPT ![r] = NoSession]
    BY <2>2, <2>3 DEF ShownCrews, CrewOf
  <2>5. QED
    BY <1>0, <2>1, <2>4, ShownIsRunning DEF UsedKeys
<1>5. CASE Restart
  <2>1. ShownCrews' = [w \in Requests |-> NoSession]
    BY <1>5 DEF Restart, ShownCrews, CrewOf
  <2>2. UsedKeys' = {}
    BY <1>5 DEF Restart, UsedKeys
  <2>3. QED
    BY <2>1, <2>2
<1>6. CASE UNCHANGED vars
  BY <1>6, UnseenSteps DEF vars
<1>7. \A r \in Requests : AcquireSem(r) => req[r].sess \in Sessions /\ req[r].key \in Keys \cup {NoKey}
  BY <1>0 DEF TypeOK, AcquireSem
<1>8. ASSUME NEW r \in Requests, Step(r)
      PROVE  \/ ShownCrews' = ShownCrews /\ UsedKeys' = UsedKeys
             \/ \E s \in Sessions, k \in Keys \cup {NoKey} :
                   /\ ShownCrews[r] = NoSession
                   /\ \A v \in {u \in Requests : ShownCrews[u] # NoSession} : ShownCrews[v].sess # s
                   /\ Cardinality({v \in Requests : ShownCrews[v] # NoSession}) < SemCap
                   /\ k \notin UsedKeys
                   /\ ShownCrews' = [ShownCrews EXCEPT ![r] = [sess |-> s, key |-> k]]
                   /\ UsedKeys' = UsedKeys \cup ({k} \ {NoKey})
             \/ /\ ShownCrews[r] # NoSession
                /\ ShownCrews' = [ShownCrews EXCEPT ![r] = NoSession]
                /\ UsedKeys' = UsedKeys
  <2>1. CASE AcquireSem(r)
    BY <1>3, <1>7, <2>1, Zenon
  <2>2. CASE \E outcome \in Outcomes : PersistSessionEnd(r, outcome)
    BY <1>4, <2>2, Zenon
  <2>3. QED
    BY <1>2, <1>8, <2>1, <2>2, Zenon DEF Step
<1>9. QED
  BY <1>1, <1>5, <1>6, <1>8, Zenon DEF Next

(* The endpoint implements KickoffService for any number of goroutines,    *)
(* keys, sessions, tenants and slots: what the idempotency ledger, the     *)
(* session table and kickoffSem do under three separate locks amounts, for *)
(* a client, to a single test before each crew starts (handlers.go         *)
(* handleKickoff, persistSessionStart and dispatchCrew).                   *)
THEOREM ServiceKeepsPromise == Spec => KickoffRefines
<1>1. Init => Promise!Init
  <2>1. SUFFICES ASSUME Init PROVE Promise!Init
    OBVIOUS
  <2>2. pc = [r \in Requests |-> "idle"] /\ launched = [k \in Keys |-> 0]
    BY <2>1 DEF Init
  <2>3. QED
    BY <2>2 DEF Promise!Init, CrewOf, UsedKeys
<1>2. IInv /\ [Next]_vars => [Promise!Next]_(Promise!vars)
  <2>1. SUFFICES ASSUME IInv, [Next]_vars PROVE [Promise!Next]_(Promise!vars)
    OBVIOUS
  <2>2. CASE ShownCrews' = ShownCrews /\ UsedKeys' = UsedKeys
    BY <2>2, Zenon DEF ShownCrews, Promise!vars
  <2>3. ASSUME NEW w \in Requests, NEW s \in Sessions, NEW k \in Keys \cup {NoKey},
               ShownCrews[w] = NoSession,
               \A v \in {u \in Requests : ShownCrews[u] # NoSession} : ShownCrews[v].sess # s,
               Cardinality({v \in Requests : ShownCrews[v] # NoSession}) < SemCap,
               k \notin UsedKeys,
               ShownCrews' = [ShownCrews EXCEPT ![w] = [sess |-> s, key |-> k]],
               UsedKeys' = UsedKeys \cup ({k} \ {NoKey})
        PROVE  Promise!GoesToWork(w) /\ Promise!Start(w, s, k)
    <3>1. Promise!Busy = {v \in Requests : ShownCrews[v] # NoSession}
      BY DEF ShownCrews, Promise!Busy
    <3>2. Promise!Cardinality(Promise!Busy) = Cardinality(Promise!Busy)
      BY Zenon DEF Promise!Cardinality, Cardinality
    <3>3. Promise!Cardinality(Promise!Busy) < SemCap
      BY <2>3, <3>1, <3>2
    <3>4. Promise!Start(w, s, k)
      BY <2>3, <3>1, <3>3, Zenon DEF ShownCrews, Promise!Start
    <3>5. ShownCrews'[w] = [sess |-> s, key |-> k] /\ ShownCrews'[w] # NoSession
      BY <2>3, CrewAssumption DEF ShownCrews
    <3>6. Promise!GoesToWork(w)
      BY <2>3, <3>5, Zenon DEF ShownCrews, Promise!GoesToWork
    <3>7. QED
      BY <3>4, <3>6
  <2>4. ASSUME NEW w \in Requests, ShownCrews[w] # NoSession,
               ShownCrews' = [ShownCrews EXCEPT ![w] = NoSession], UsedKeys' = UsedKeys
        PROVE  Promise!End(w)
    BY <2>4, Zenon DEF ShownCrews, Promise!End
  <2>5. CASE ShownCrews' = [w \in Requests |-> NoSession] /\ UsedKeys' = {}
    BY <2>5, Zenon DEF ShownCrews, Promise!Next, Promise!Restart
  <2>6. QED
    BY <2>1, <2>2, <2>3, <2>4, <2>5, ServiceSimulated, Zenon DEF Promise!Next
<1>3. QED
  BY <1>1, <1>2, Invariance, PTL DEF Spec, KickoffRefines, Promise!Spec
=============================================================================
