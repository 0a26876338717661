------------------------ MODULE ExecutionController -------------------------
(***************************************************************************)
(* The pause switch of the dashboard (pkg/telemetry/events.go,             *)
(* ExecutionController): Pause and Resume run in HTTP handlers, and every  *)
(* crew, task and agent calls WaitIfPaused before it goes on.              *)
(*                                                                         *)
(* WaitIfPaused holds mu, and lets a helper goroutine call cond.Wait,      *)
(* which unlocks the caller's mu, sleeps, and locks mu again before the    *)
(* caller goes on under it.  A Go mutex has no owner: Unlock frees whoever *)
(* holds it, and kills the process when nobody does.  sync.Mutex and       *)
(* sync.Cond are modelled by what they do: Wait joins the notify list      *)
(* before it unlocks, and a woken waiter must lock before it returns.      *)
(*                                                                         *)
(* A caller whose context is cancelled returns the error and ends, as its  *)
(* crew does, so each caller has at most one helper.                       *)
(***************************************************************************)
EXTENDS Naturals

CONSTANTS Callers,      \* goroutines that call WaitIfPaused
          Cancellable,  \* those whose context may be cancelled
          Handlers      \* goroutines that call Pause and Resume

ASSUME ControllerAssumption == Cancellable \subseteq Callers /\ Callers \cap Handlers = {}

VARIABLES paused,
          locked,   \* mu
          at,       \* where each caller stands
          helper,   \* the goroutine each caller has spawned
          op,       \* each handler
          fatal     \* the runtime has killed the process: unlock of unlocked mutex

controllerVars == <<paused, locked, at, helper, op, fatal>>

ControllerInit ==
    /\ paused \in BOOLEAN      \* the CLI pauses before a kickoff with --ui
    /\ locked = FALSE
    /\ at = [c \in Callers |-> "idle"]
    /\ helper = [c \in Callers |-> "none"]
    /\ op = [h \in Handlers |-> "idle"]
    /\ fatal = FALSE

(* Where a goroutine stands; a fatal error of the runtime ends them all. *)
At(c, phase) == ~fatal /\ at[c] = phase
HelperAt(c, phase) == ~fatal /\ helper[c] = phase
OpAt(h, phase) == ~fatal /\ op[h] = phase

(* mu.Lock and mu.Unlock. *)
Lock == ~locked /\ locked' = TRUE /\ UNCHANGED fatal
Unlock == locked' = FALSE /\ fatal' = ~locked

(* Mutant: Signal in place of Broadcast. *)
SignalledHelpers ==
    LET asleep == {c \in Callers : helper[c] = "asleep"} IN
    IF asleep = {} THEN helper
    ELSE [helper EXCEPT ![CHOOSE c \in asleep : TRUE] = "woken"]

(* The helpers after cond.Broadcast. *)
BroadcastHelpers == [c \in Callers |-> IF helper[c] = "asleep" THEN "woken" ELSE helper[c]]

(* WaitIfPaused locks mu on entry. *)
Enter(c) ==
    /\ At(c, "idle")
    /\ Lock
    /\ at' = [at EXCEPT ![c] = "check"]
    /\ UNCHANGED <<paused, helper, op>>

(* The loop condition, with mu held: spawn the helper and go to the        *)
(* select, or return nil through the deferred Unlock.                      *)
Check(c) ==
    /\ At(c, "check")
    /\ \/ /\ paused
          /\ helper' = [helper EXCEPT ![c] = "spawned"]
          /\ at' = [at EXCEPT ![c] = "select"]
          /\ UNCHANGED <<locked, fatal>>
       \/ /\ ~paused
          /\ Unlock
          /\ at' = [at EXCEPT ![c] = "idle"]
          /\ UNCHANGED helper
    /\ UNCHANGED <<paused, op>>

(* The helper enters cond.Wait: it joins the notify list and unlocks mu. *)
HelperWait(c) ==
    /\ HelperAt(c, "spawned")
    /\ helper' = [helper EXCEPT ![c] = "asleep"]
    /\ Unlock
    /\ UNCHANGED <<paused, at, op>>

(* Mutant: the helper does not lock mu again before it closes done. *)
RelockNever == UNCHANGED <<locked, fatal>>

Relock == Lock

(* cond.Wait returns in the helper, with mu locked, and done is closed. *)
HelperDone(c) ==
    /\ HelperAt(c, "woken")
    /\ Relock
    /\ helper' = [helper EXCEPT ![c] = "done"]
    /\ UNCHANGED <<paused, at, op>>

(* Mutant: an if in place of the for: a woken caller returns at once. *)
WokenReturns(c) ==
    /\ At(c, "select") /\ helper[c] = "done"
    /\ helper' = [helper EXCEPT ![c] = "none"]
    /\ at' = [at EXCEPT ![c] = "idle"]
    /\ Unlock
    /\ UNCHANGED <<paused, op>>

(* The select sees done closed; the caller goes on under the helper's lock *)
(* and tests paused again.                                                 *)
Woken(c) ==
    /\ At(c, "select") /\ helper[c] = "done"
    /\ helper' = [helper EXCEPT ![c] = "none"]
    /\ at' = [at EXCEPT ![c] = "check"]
    /\ UNCHANGED <<paused, locked, op, fatal>>

(* The select sees ctx.Done: Broadcast, without holding mu. *)
Cancelled(c) ==
    /\ At(c, "select") /\ c \in Cancellable
    /\ helper' = BroadcastHelpers
    /\ at' = [at EXCEPT ![c] = "unwind"]
    /\ UNCHANGED <<paused, locked, op, fatal>>

(* The deferred Unlock of a cancelled call. *)
Unwind(c) ==
    /\ At(c, "unwind")
    /\ Unlock
    /\ at' = [at EXCEPT ![c] = "gone"]
    /\ UNCHANGED <<paused, helper, op>>

(* Pause and Resume: lock, then the assignment, the broadcast of Resume    *)
(* and the deferred Unlock.                                                *)
LockOp(h, name) ==
    /\ OpAt(h, "idle")
    /\ Lock
    /\ op' = [op EXCEPT ![h] = name]
    /\ UNCHANGED <<paused, at, helper>>

Pause(h) ==
    /\ OpAt(h, "pause")
    /\ paused' = TRUE
    /\ Unlock
    /\ op' = [op EXCEPT ![h] = "idle"]
    /\ UNCHANGED <<at, helper>>

Resume(h) ==
    /\ OpAt(h, "resume")
    /\ paused' = FALSE
    /\ helper' = BroadcastHelpers
    /\ Unlock
    /\ op' = [op EXCEPT ![h] = "idle"]
    /\ UNCHANGED at

CallerStep(c) == Check(c) \/ Woken(c) \/ Unwind(c)
OpStep(h) == Pause(h) \/ Resume(h)

ControllerNext ==
    \/ \E c \in Callers : Enter(c) \/ CallerStep(c) \/ Cancelled(c) \/ HelperWait(c) \/ HelperDone(c)
    \/ \E h \in Handlers, name \in {"pause", "resume"} : LockOp(h, name)
    \/ \E h \in Handlers : OpStep(h)

(* A goroutine that can run does run, and a goroutine that waits for mu    *)
(* gets it in the end: a Go mutex hands itself over to a waiter that has   *)
(* starved for a millisecond.  Nothing makes the user press a button.      *)
ControllerFairness ==
    /\ \A c \in Callers : /\ WF_controllerVars(CallerStep(c))
                          /\ WF_controllerVars(HelperWait(c))
                          /\ SF_controllerVars(HelperDone(c))
    /\ \A h \in Handlers : WF_controllerVars(OpStep(h))

ControllerSpec == ControllerInit /\ [][ControllerNext]_controllerVars /\ ControllerFairness

-----------------------------------------------------------------------------
(* Types, and a caller that is not in the select has no helper unless it   *)
(* was cancelled.                                                          *)
ControllerTypeOK ==
    /\ paused \in BOOLEAN
    /\ locked \in BOOLEAN
    /\ at \in [Callers -> {"idle", "check", "select", "unwind", "gone"}]
    /\ helper \in [Callers -> {"none", "spawned", "asleep", "woken", "done"}]
    /\ op \in [Handlers -> {"idle", "pause", "resume"}]
    /\ fatal \in BOOLEAN
    /\ \A c \in Callers : at[c] \in {"idle", "check"} <=> helper[c] = "none"

(* No call of WaitIfPaused has been cancelled yet. *)
NoneCancelled == \A c \in Callers : at[c] \notin {"unwind", "gone"}

(* The goroutines on whose behalf mu is locked: a caller that tests        *)
(* paused, a caller whose helper has not unlocked yet or has locked again, *)
(* and a handler inside Pause or Resume.                                   *)
Holders == {c \in Callers : at[c] = "check" \/ helper[c] \in {"spawned", "done"}}
               \cup {h \in Handlers : op[h] # "idle"}

(* The hand-over of mu between a caller and its helper is sound as long as *)
(* no call is cancelled: mu is locked exactly while one goroutine holds    *)
(* it, never two, and no Unlock hits an unlocked mutex                     *)
(* (events.go:173-194).                                                    *)
LockHandedOver ==
    NoneCancelled =>
        /\ ~fatal
        /\ locked <=> Holders # {}
        /\ \A x, y \in Holders : x = y

(* "WaitIfPaused blocks the calling goroutine until the dashboard resumes  *)
(* execution" (events.go:172): it never returns nil while paused, also     *)
(* when Pause follows Resume before the woken helper gets the lock.        *)
NoReturnWhilePaused ==
    [][\A c \in Callers : at[c] # "idle" /\ at'[c] = "idle" => ~paused]_controllerVars

(* "Resume unblocks all waiting Agent routines" (events.go:164): no wake-  *)
(* up is lost between the test of paused and the helper's Wait, so after   *)
(* Resume every blocked call goes on, unless Pause comes first or a        *)
(* cancelled call spoils the lock.                                         *)
ResumeUnblocksAll ==
    \A c \in Callers :
        at[c] = "select" /\ ~paused ~> at[c] # "select" \/ paused \/ ~NoneCancelled

(* "c.cond.Broadcast() // free the waiter goroutine" (events.go:187): a    *)
(* cancelled call leaves with its waiter freed, so no Unlock, its own      *)
(* deferred one or the waiter's, ever hits an unlocked mutex.              *)
UnlockOnlyLocked == ~fatal
=============================================================================
