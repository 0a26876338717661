----------------------------- MODULE KickoffApi -----------------------------
(***************************************************************************)
(* POST /api/v1/crews/kickoff of the REST server (pkg/api/handlers.go and  *)
(* pkg/api/server.go): the idempotency ledger (idemKeys, idemBySession,    *)
(* guarded by idemMu), the session table (sessions, guarded by mu), the    *)
(* kickoffSem slots, and the handler and worker goroutines that work on    *)
(* them.  Each lock section of the code is one action; between two of them *)
(* any other goroutine may run.  The checkpoint store matters here only    *)
(* through the failure of its Save, which the actions choose freely.       *)
(*                                                                         *)
(* A member of Requests is one HTTP request together with the background   *)
(* goroutine it spawns, so pc[r] runs through handleKickoff, dispatchCrew  *)
(* and then the worker; it returns to "idle" when the goroutine ends, and  *)
(* the client may then send a new request or a retry.  Early returns that  *)
(* touch no shared state (a malformed body, a ledger hit answered 409 or   *)
(* with the cached outcome) are requests that never leave "idle".          *)
(***************************************************************************)
EXTENDS Naturals, FiniteSets

CONSTANTS Requests,   \* handler goroutines that may be alive at a time
          Keys,       \* Idempotency-Key header values
          NoKey,      \* the header is absent
          Sessions,   \* session ids
          Owners,     \* fingerprints of the API tokens
          NoOwner,    \* the empty owner string
          SemCap,     \* cap(kickoffSem), 10 in the code
          NoEntry,    \* the key is not in idemKeys
          NoSession   \* the id is not in sessions

Statuses == {"running", "failed", "completed"}
Outcomes == {"failed", "completed"}

AnyOwner == Owners \cup {NoOwner}

IdemEntry == [sess : Sessions, owner : AnyOwner, done : BOOLEAN, status : Outcomes \cup {"none"}]
SessionState == [status : Statuses, owner : AnyOwner]

ASSUME KickoffAssumption ==
    /\ NoKey \notin Keys
    /\ NoOwner \notin Owners
    /\ NoEntry \notin IdemEntry
    /\ NoSession \notin SessionState
    /\ SemCap \in Nat \ {0}
    /\ IsFiniteSet(Requests)

(* NoSession is no crew either. *)
ASSUME CrewAssumption == NoSession \notin [sess : Sessions, key : Keys \cup {NoKey}]

VARIABLES pc,             \* where the goroutine of each request stands
          req,            \* its locals: key, session id, owner, crew outcome
          idemKeys,       \* the ledger
          idemBySession,  \* the reverse index of the ledger
          sessions,       \* the in-memory session table
          sem,            \* slots of kickoffSem in use
          launched        \* crews started under each key since the server started

vars == <<pc, req, idemKeys, idemBySession, sessions, sem, launched>>
ledger == <<idemKeys, idemBySession>>

Phases == {"idle", "reserve", "gate", "release", "persist", "finalize", "acquire",
           "crew", "finish", "unwind"}

NoRequest == [key |-> NoKey, sess |-> NoSession, owner |-> NoOwner, outcome |-> "none"]

Init ==
    /\ pc = [r \in Requests |-> "idle"]
    /\ req = [r \in Requests |-> NoRequest]
    /\ idemKeys = [k \in Keys |-> NoEntry]
    /\ idemBySession = [s \in Sessions |-> NoKey]
    /\ sessions = [s \in Sessions |-> NoSession]
    /\ sem = 0
    /\ launched = [k \in Keys |-> 0]

Goto(r, phase) == pc' = [pc EXCEPT ![r] = phase] /\ UNCHANGED req

(* The goroutine ends and its locals go with it. *)
Return(r) ==
    /\ pc' = [pc EXCEPT ![r] = "idle"]
    /\ req' = [req EXCEPT ![r] = NoRequest]

(* checkIdem: a key presented by another owner counts as unseen. *)
IdemHit(k, o) == idemKeys[k] # NoEntry /\ idemKeys[k].owner \in {o, NoOwner}

(* handleKickoff up to the ledger: the key misses (or is absent). *)
HandleKickoff(r, k, s, o) ==
    /\ pc[r] = "idle"
    /\ k # NoKey => ~IdemHit(k, o)
    /\ req' = [req EXCEPT ![r] = [key |-> k, sess |-> s, owner |-> o, outcome |-> "none"]]
    /\ pc' = [pc EXCEPT ![r] = IF k = NoKey THEN "gate" ELSE "reserve"]
    /\ UNCHANGED <<ledger, sessions, sem, launched>>

(* Mutant: the reservation overwrites an entry instead of testing it. *)
KeyFreeBlind(k) == TRUE

(* The test of reserveIdem's test-and-set. *)
KeyFree(k) == idemKeys[k] = NoEntry

(* reserveIdem: an atomic test-and-set; the loser answers 409. *)
ReserveIdem(r) ==
    LET k == req[r].key IN
    /\ pc[r] = "reserve"
    /\ \/ /\ ~KeyFree(k)
          /\ Return(r)
          /\ UNCHANGED ledger
       \/ /\ KeyFree(k)
          /\ idemKeys' = [idemKeys EXCEPT ![k] =
                [sess |-> req[r].sess, owner |-> req[r].owner, done |-> FALSE, status |-> "none"]]
          /\ idemBySession' = [idemBySession EXCEPT ![req[r].sess] = k]
          /\ Goto(r, "gate")
    /\ UNCHANGED <<sessions, sem, launched>>

IsRunning(s) == sessions[s] # NoSession /\ sessions[s].status = "running"

(* The session-running check under mu.RLock, and then the validation of    *)
(* the agents and tasks of the payload, which may reject the request.      *)
SessionGate(r) ==
    /\ pc[r] = "gate"
    /\ \/ Goto(r, "release")
       \/ ~IsRunning(req[r].sess) /\ Goto(r, "persist")
    /\ UNCHANGED <<ledger, sessions, sem, launched>>

(* The reverse index once the session's key is deleted from it. *)
Unlinked(s) == [idemBySession EXCEPT ![s] = NoKey]

(* releaseIdem: with no key, or a key that is done, nothing is deleted. *)
ReleaseIdem(r) ==
    LET k == req[r].key
        held == k # NoKey /\ idemKeys[k] # NoEntry /\ ~idemKeys[k].done
    IN
    /\ pc[r] = "release"
    /\ \/ /\ held
          /\ idemKeys' = [idemKeys EXCEPT ![k] = NoEntry]
          /\ idemBySession' = Unlinked(idemKeys[k].sess)
       \/ /\ ~held
          /\ UNCHANGED ledger
    /\ Return(r)
    /\ UNCHANGED <<sessions, sem, launched>>

(* Mutant: only the owner is checked, as the earlier check has seen the    *)
(* session not running.                                                    *)
SessionTakenByOther(s, o) ==
    sessions[s] # NoSession /\ sessions[s].owner \notin {o, NoOwner}

(* Mutant: only a running session is refused, whoever it belongs to. *)
SessionTakenWhileRunning(s, o) ==
    sessions[s] # NoSession /\ sessions[s].status = "running"

(* The id belongs to another owner, or is running. *)
SessionTaken(s, o) ==
    /\ sessions[s] # NoSession
    /\ sessions[s].owner \notin {o, NoOwner} \/ sessions[s].status = "running"

(* persistSessionStart under mu: refuse an id that another owner has or    *)
(* that runs, insert it as running, and save a checkpoint; if the save     *)
(* fails the entry is deleted again and the request is refused.            *)
PersistSessionStart(r) ==
    LET s == req[r].sess
        o == req[r].owner
    IN
    /\ pc[r] = "persist"
    /\ \/ /\ SessionTaken(s, o)
          /\ Goto(r, "release")
          /\ UNCHANGED sessions
       \/ /\ ~SessionTaken(s, o)
          /\ sessions' = [sessions EXCEPT ![s] = NoSession]
          /\ Goto(r, "release")
       \/ /\ ~SessionTaken(s, o)
          /\ sessions' = [sessions EXCEPT ![s] = [status |-> "running", owner |-> o]]
          /\ Goto(r, IF req[r].key = NoKey THEN "acquire" ELSE "finalize")
    /\ UNCHANGED <<ledger, sem, launched>>

(* finalizeIdem rewrites the reservation for the session that will run; an *)
(* entry that has gone would come back without an owner.                   *)
FinalizeIdem(r) ==
    LET k == req[r].key
        owner == IF idemKeys[k] # NoEntry THEN idemKeys[k].owner ELSE NoOwner
    IN
    /\ pc[r] = "finalize"
    /\ idemKeys' = [idemKeys EXCEPT ![k] =
           [sess |-> req[r].sess, owner |-> owner, done |-> FALSE, status |-> "none"]]
    /\ idemBySession' = [idemBySession EXCEPT ![req[r].sess] = k]
    /\ Goto(r, "acquire")
    /\ UNCHANGED <<sessions, sem, launched>>

(* kickoffSem after the send of acquireSem. *)
SlotsAfterSend == sem + 1

(* acquireSem is a non-blocking send: with a free slot the worker starts,  *)
(* otherwise the request answers 429 after releaseIdem.                    *)
AcquireSem(r) ==
    /\ pc[r] = "acquire"
    /\ \/ /\ sem < SemCap
          /\ sem' = SlotsAfterSend
          /\ launched' = [k \in Keys |-> IF k = req[r].key THEN launched[k] + 1 ELSE launched[k]]
          /\ Goto(r, "crew")
       \/ /\ sem >= SemCap
          /\ Goto(r, "release")
          /\ UNCHANGED <<sem, launched>>
    /\ UNCHANGED <<ledger, sessions>>

(* Kickoff returns in the worker, and persistSessionComplete or            *)
(* persistSessionFailure records it; a failing save is only logged.        *)
PersistSessionEnd(r, outcome) ==
    LET s == req[r].sess IN
    /\ pc[r] = "crew"
    /\ sessions' = IF sessions[s] = NoSession THEN sessions
                   ELSE [sessions EXCEPT ![s].status = outcome]
    /\ req' = [req EXCEPT ![r].outcome = outcome]
    /\ pc' = [pc EXCEPT ![r] = "finish"]
    /\ UNCHANGED <<ledger, sem, launched>>

(* finishIdem: the entry is found through the reverse index. *)
FinishIdem(r) ==
    LET s == req[r].sess
        k == idemBySession[s]
    IN
    /\ pc[r] = "finish"
    /\ idemBySession' = Unlinked(s)
    /\ idemKeys' = [x \in Keys |->
           IF x = k /\ idemKeys[x] # NoEntry
           THEN [idemKeys[x] EXCEPT !.done = TRUE, !.status = req[r].outcome]
           ELSE idemKeys[x]]
    /\ Goto(r, "unwind")
    /\ UNCHANGED <<sessions, sem, launched>>

(* Mutant: the worker ends without the receive of releaseSem. *)
SlotsAfterReceiveLost == sem

(* kickoffSem after the receive of releaseSem. *)
SlotsAfterReceive == sem - 1

(* The deferred kickoffWG.Done and releaseSem of the worker. *)
ReleaseSem(r) ==
    /\ pc[r] = "unwind"
    /\ sem' = SlotsAfterReceive
    /\ Return(r)
    /\ UNCHANGED <<ledger, sessions, launched>>

(* The process ends, after Shutdown or by a crash, and NewServer starts    *)
(* again with empty maps and a free semaphore.                             *)
Restart ==
    /\ pc' = [r \in Requests |-> "idle"]
    /\ req' = [r \in Requests |-> NoRequest]
    /\ idemKeys' = [k \in Keys |-> NoEntry]
    /\ idemBySession' = [s \in Sessions |-> NoKey]
    /\ sessions' = [s \in Sessions |-> NoSession]
    /\ sem' = 0
    /\ launched' = [k \in Keys |-> 0]

(* What the goroutine of r does once its request is accepted for work. *)
Step(r) ==
    \/ ReserveIdem(r)
    \/ SessionGate(r)
    \/ ReleaseIdem(r)
    \/ PersistSessionStart(r)
    \/ FinalizeIdem(r)
    \/ AcquireSem(r)
    \/ \E outcome \in Outcomes : PersistSessionEnd(r, outcome)
    \/ FinishIdem(r)
    \/ ReleaseSem(r)

Next ==
    \/ \E r \in Requests, k \in Keys \cup {NoKey}, s \in Sessions, o \in Owners :
          HandleKickoff(r, k, s, o)
    \/ \E r \in Requests : Step(r)
    \/ Restart

Spec == Init /\ [][Next]_vars

-----------------------------------------------------------------------------
(* Types of the ledger, the session table and the goroutines' locals. *)
TypeOK ==
    /\ pc \in [Requests -> Phases]
    /\ req \in [Requests -> [key : Keys \cup {NoKey}, sess : Sessions \cup {NoSession},
                               owner : AnyOwner, outcome : Outcomes \cup {"none"}]]
    /\ \A r \in Requests :
          /\ pc[r] # "idle" => req[r].sess \in Sessions
          /\ pc[r] \in {"reserve", "finalize"} => req[r].key \in Keys
    /\ idemKeys \in [Keys -> IdemEntry \cup {NoEntry}]
    /\ idemBySession \in [Sessions -> Keys \cup {NoKey}]
    /\ sessions \in [Sessions -> SessionState \cup {NoSession}]
    /\ sem \in Nat
    /\ launched \in [Keys -> Nat]

(* "Replaying a request with the same key never executes twice"            *)
(* (handlers.go:352): while one server lives, a key starts at most one     *)
(* crew, whichever sessions and owners its requests name and wherever      *)
(* their handlers are overtaken by others.                                 *)
KeyLaunchesOnce == \A k \in Keys : launched[k] <= 1

(* A kickoff never spawns "a duplicate crew execution" for a session       *)
(* (handlers.go:394-395): two workers never run crews of one session, also *)
(* when both requests passed the session-running check before either was   *)
(* recorded.                                                               *)
OneCrewPerSession ==
    \A r, q \in Requests :
        pc[r] = "crew" /\ pc[q] = "crew" /\ req[r].sess = req[q].sess => r = q

SlotHolders == {r \in Requests : pc[r] \in {"crew", "finish", "unwind"}}

(* Every slot of kickoffSem in use belongs to a worker that will return    *)
(* it, and no more than SemCap workers hold one: rejected requests leak    *)
(* none.                                                                   *)
SlotsAccounted == sem = Cardinality(SlotHolders) /\ sem <= SemCap

(* "A caller-selected session ID must not replace another tenant's         *)
(* session, nor destroy a running session's state" (handlers.go:703-705):  *)
(* only the worker of a running session, or a restart, ends it.            *)
RunningUntouched ==
    [][\A s \in Sessions :
          IsRunning(s) /\ sessions'[s] # sessions[s] =>
              \/ \E r \in Requests :
                    req[r].sess = s /\ pc[r] = "crew" /\ pc'[r] = "finish"
              \/ Restart]_vars

(* The other half of handlers.go:703-705: as long as the table holds a     *)
(* session it stays with the token that started it, so no step of another  *)
(* tenant, and no late write of a worker, hands its state over.            *)
OwnerKept ==
    [][\A s \in Sessions :
          sessions[s] # NoSession /\ sessions'[s] # NoSession =>
              sessions'[s].owner = sessions[s].owner]_vars

(* The inductive strengthening of KeyLaunchesOnce.  A goroutine between    *)
(* its reservation and its launch holds the key: the entry is there, no    *)
(* other goroutine holds it, and no crew has been started under it; and    *)
(* the entry of a key whose crew has been started stays.                   *)
HoldsKey(r) == /\ pc[r] \in {"gate", "release", "persist", "finalize", "acquire"}
               /\ req[r].key # NoKey

KeyInv ==
    /\ \A r \in Requests :
          HoldsKey(r) => idemKeys[req[r].key] # NoEntry /\ launched[req[r].key] = 0
    /\ \A r, q \in Requests :
          HoldsKey(r) /\ HoldsKey(q) /\ req[r].key = req[q].key => r = q
    /\ \A k \in Keys : launched[k] # 0 => idemKeys[k] # NoEntry
    /\ KeyLaunchesOnce

(* The inductive strengthening of OneCrewPerSession: from the moment it is *)
(* recorded until its crew ends, a session is running and belongs to one   *)
(* goroutine.                                                              *)
OwnsSession(r) == pc[r] \in {"finalize", "acquire", "crew"}

SessionInv ==
    /\ \A r \in Requests : OwnsSession(r) => IsRunning(req[r].sess)
    /\ \A r, q \in Requests :
          OwnsSession(r) /\ OwnsSession(q) /\ req[r].sess = req[q].sess => r = q

(* "Release the idempotency reservation so a retry with the same key       *)
(* (after the queue drains) isn't blocked" (handlers.go:659-660): a        *)
(* session is running only while some goroutine is about to run its crew   *)
(* or runs it, so that the retry does not meet the session-running check.  *)
RunningHasWorker ==
    \A s \in Sessions :
        IsRunning(s) => \E r \in Requests :
            req[r].sess = s /\ pc[r] \in {"finalize", "acquire", "crew"}

(* "Running -> 409; finished -> cached outcome replay" (handlers.go:353):  *)
(* once finishIdem has returned, the ledger holds the outcome of the       *)
(* request's crew under the request's key.                                 *)
FinishedIsReplayed ==
    \A r \in Requests :
        LET k == req[r].key
        IN  pc[r] = "unwind" /\ k # NoKey =>
                idemKeys[k] # NoEntry /\ idemKeys[k].done /\ idemKeys[k].status = req[r].outcome

(* The crew that the worker of r runs. *)
CrewOf(r) == IF pc[r] = "crew" THEN [sess |-> req[r].sess, key |-> req[r].key] ELSE NoSession

UsedKeys == {k \in Keys : launched[k] # 0}

Promise == INSTANCE KickoffService
           WITH Workers <- Requests, Cap <- SemCap, NoCrew <- NoSession,
                crew <- [r \in Requests |-> CrewOf(r)], used <- UsedKeys

(* Whatever the handlers and workers do between their lock sections, a     *)
(* client sees the service of KickoffService: a crew starts only for a     *)
(* session none runs for, under a key none was started under, and within   *)
(* the cap (handlers.go handleKickoff and dispatchCrew, README.md:308-314).*)
KickoffRefines == Promise!Spec
=============================================================================
