--------------------- MODULE ExecutionControllerProofs ----------------------
(* Proofs about the pause switch, for any number of callers and handlers.  *)
EXTENDS ExecutionController, TLAPS

(* LockHandedOver is inductive once the types tie each helper to its       *)
(* caller.                                                                 *)
IInv == ControllerTypeOK /\ LockHandedOver

CallerPhases == {"idle", "check", "select", "unwind", "gone"}
HelperPhases == {"none", "spawned", "asleep", "woken", "done"}

(* Every action keeps the types, and a helper stays tied to its caller. *)
LEMMA TypeStep == ControllerTypeOK /\ [ControllerNext]_controllerVars => ControllerTypeOK'
<1> SUFFICES ASSUME ControllerTypeOK, [ControllerNext]_controllerVars
             PROVE ControllerTypeOK'
  OBVIOUS
<1> USE DEF ControllerTypeOK, At, HelperAt, OpAt
<1>1. (~locked) \in BOOLEAN
  BY Zenon
<1>2. locked' \in BOOLEAN /\ fatal' \in BOOLEAN /\ paused' \in BOOLEAN
  BY <1>1, Zenon DEF ControllerNext, CallerStep, OpStep, Enter, Check, Woken, Unwind, Cancelled, HelperWait,
                     HelperDone, Relock, LockOp, Pause, Resume, Lock, Unlock, controllerVars
<1> DEFINE Tied == /\ at \in [Callers -> CallerPhases]
                   /\ helper \in [Callers -> HelperPhases]
                   /\ \A c \in Callers : at[c] \in {"idle", "check"} <=> helper[c] = "none"
                   /\ op \in [Handlers -> {"idle", "pause", "resume"}]
<1>3. Tied'
  <2> USE DEF CallerPhases, HelperPhases
  <2>1. ASSUME NEW c \in Callers, Enter(c) \/ Check(c) \/ Woken(c) \/ Unwind(c)
        PROVE Tied'
    BY <2>1 DEF Enter, Check, Woken, Unwind
  <2>2. ASSUME NEW c \in Callers, Cancelled(c)
        PROVE Tied'
    BY <2>2 DEF Cancelled, BroadcastHelpers
  <2>3. ASSUME NEW c \in Callers, HelperWait(c) \/ HelperDone(c)
        PROVE Tied'
    BY <2>3 DEF HelperWait, HelperDone
  <2>4. ASSUME NEW h \in Handlers, NEW name \in {"pause", "resume"}, LockOp(h, name)
        PROVE Tied'
    BY <2>4 DEF LockOp
  <2>5. ASSUME NEW h \in Handlers, Pause(h) \/ Resume(h)
        PROVE Tied'
    BY <2>5 DEF Pause, Resume, BroadcastHelpers
  <2>6. CASE UNCHANGED controllerVars
    BY <2>6 DEF controllerVars
  <2>7. QED
    BY <2>1, <2>2, <2>3, <2>4, <2>5, <2>6 DEF ControllerNext, CallerStep, OpStep
<1>4. QED
  BY <1>2, <1>3 DEF CallerPhases, HelperPhases

(* mu.Lock: nobody held mu, and now exactly x does. *)
LEMMA LockSound ==
    ASSUME LockHandedOver, NoneCancelled, Lock, NEW x, Holders = {} => Holders' = {x}
    PROVE LockHandedOver'
BY DEF LockHandedOver, Lock

(* mu.Unlock by the holder: it was locked, and now nobody holds it. *)
LEMMA UnlockSound ==
    ASSUME LockHandedOver, NoneCancelled, Unlock, ControllerTypeOK, NEW x, x \in Holders,
           Holders = {x} => Holders' = {}
    PROVE LockHandedOver'
<1>1. Holders = {x} /\ locked = TRUE
  BY DEF LockHandedOver, ControllerTypeOK
<1>2. fatal' = FALSE /\ locked' = FALSE /\ Holders' = {}
  BY <1>1 DEF Unlock
<1>3. QED
  BY <1>2 DEF LockHandedOver

(* A step that leaves mu and its holders alone. *)
LEMMA LockUntouched ==
    ASSUME LockHandedOver, NoneCancelled, locked' = locked, fatal' = fatal, Holders' = Holders
    PROVE LockHandedOver'
BY DEF LockHandedOver

(* Every action hands mu over soundly. *)
LEMMA LockStep == IInv /\ [ControllerNext]_controllerVars => LockHandedOver'
<1> SUFFICES ASSUME ControllerTypeOK, LockHandedOver, [ControllerNext]_controllerVars, NoneCancelled'
             PROVE LockHandedOver'
  BY DEF IInv, LockHandedOver
<1> USE ControllerAssumption DEF At, HelperAt, OpAt
<1>1. NoneCancelled
  BY DEF NoneCancelled, ControllerTypeOK, ControllerNext, CallerStep, OpStep, Enter, Check, Woken, Unwind, Cancelled,
         HelperWait, HelperDone, LockOp, Pause, Resume, controllerVars
<1>2. ASSUME NEW c \in Callers, Enter(c)
      PROVE LockHandedOver'
  <2>1. Holders = {} => Holders' = {c}
    BY <1>2 DEF Enter, Holders, ControllerTypeOK
  <2>2. QED
    BY <1>1, <1>2, <2>1, LockSound DEF Enter
<1>3. ASSUME NEW c \in Callers, Check(c)
      PROVE LockHandedOver'
  <2>1. CASE paused
    <3>1. Holders' = Holders
      BY <1>3, <2>1 DEF Check, Holders, ControllerTypeOK
    <3>2. QED
      BY <1>1, <1>3, <2>1, <3>1, LockUntouched DEF Check
  <2>2. CASE ~paused
    <3>1. c \in Holders
      BY <1>3 DEF Check, Holders
    <3>2. Holders = {c} => Holders' = {}
      BY <1>3, <2>2 DEF Check, Holders, ControllerTypeOK
    <3>3. QED
      BY <1>1, <1>3, <2>2, <3>1, <3>2, UnlockSound DEF Check
  <2>3. QED
    BY <2>1, <2>2
<1>4. ASSUME NEW c \in Callers, Woken(c)
      PROVE LockHandedOver'
  <2>1. Holders' = Holders
    BY <1>4 DEF Woken, Holders, ControllerTypeOK
  <2>2. QED
    BY <1>1, <1>4, <2>1, LockUntouched DEF Woken
<1>5. ASSUME NEW c \in Callers, Cancelled(c) \/ Unwind(c)
      PROVE FALSE
  BY <1>5 DEF Cancelled, Unwind, NoneCancelled, ControllerTypeOK
<1>6. ASSUME NEW c \in Callers, HelperWait(c)
      PROVE LockHandedOver'
  <2>1. c \in Holders
    BY <1>6 DEF HelperWait, Holders
  <2>2. Holders = {c} => Holders' = {}
    BY <1>6 DEF HelperWait, Holders, ControllerTypeOK
  <2>3. QED
    BY <1>1, <1>6, <2>1, <2>2, UnlockSound DEF HelperWait
<1>7. ASSUME NEW c \in Callers, HelperDone(c)
      PROVE LockHandedOver'
  <2>1. Holders = {} => Holders' = {c}
    BY <1>7 DEF HelperDone, Holders, ControllerTypeOK
  <2>2. QED
    BY <1>1, <1>7, <2>1, LockSound DEF HelperDone, Relock
<1>8. ASSUME NEW h \in Handlers, NEW name \in {"pause", "resume"}, LockOp(h, name)
      PROVE LockHandedOver'
  <2>1. Holders = {} => Holders' = {h}
    BY <1>8 DEF LockOp, Holders, ControllerTypeOK
  <2>2. QED
    BY <1>1, <1>8, <2>1, LockSound DEF LockOp
<1>9. ASSUME NEW h \in Handlers, Pause(h) \/ Resume(h)
      PROVE LockHandedOver'
  <2>1. h \in Holders
    BY <1>9 DEF Pause, Resume, Holders
  <2>2. Holders = {h} => Holders' = {}
    BY <1>9 DEF Pause, Resume, BroadcastHelpers, Holders, ControllerTypeOK
  <2>3. QED
    BY <1>1, <1>9, <2>1, <2>2, UnlockSound DEF Pause, Resume
<1>10. CASE UNCHANGED controllerVars
  BY <1>1, <1>10, LockUntouched DEF controllerVars, Holders
<1>11. QED
  BY <1>2, <1>3, <1>4, <1>5, <1>6, <1>7, <1>8, <1>9, <1>10 DEF ControllerNext, CallerStep, OpStep

(* The inductive invariant holds in every reachable state. *)
LEMMA Invariance == ControllerSpec => []IInv
<1>1. ControllerInit => ControllerTypeOK
  <2>1. ControllerInit => paused \in BOOLEAN /\ locked \in BOOLEAN /\ fatal \in BOOLEAN
    BY Zenon DEF ControllerInit
  <2>2. QED
    BY <2>1 DEF ControllerInit, ControllerTypeOK
<1>2. ControllerInit => Holders = {} /\ locked = FALSE /\ fatal = FALSE
  BY DEF ControllerInit, Holders
<1>3. ControllerInit => LockHandedOver
  BY <1>2 DEF LockHandedOver
<1>4. IInv /\ [ControllerNext]_controllerVars => IInv'
  BY TypeStep, LockStep DEF IInv
<1>5. QED
  BY <1>1, <1>3, <1>4, PTL DEF ControllerSpec, IInv

(* While no call is cancelled, the mutex that callers, helpers and         *)
(* handlers pass among themselves always has exactly the holder the code   *)
(* means, and the runtime never meets an unlock of an unlocked mutex       *)
(* (events.go:157-194).                                                    *)
THEOREM HandoverSound == ControllerSpec => []LockHandedOver
<1>1. IInv => LockHandedOver
  BY DEF IInv
<1>2. QED
  BY Invariance, <1>1, PTL

(* WaitIfPaused returns nil only when not paused (events.go:172-194). *)
THEOREM PauseRespected == ControllerSpec => NoReturnWhilePaused
<1>1. ControllerTypeOK /\ [ControllerNext]_controllerVars =>
        [\A c \in Callers : at[c] # "idle" /\ at'[c] = "idle" => ~paused]_controllerVars
  <2> SUFFICES ASSUME ControllerTypeOK, [ControllerNext]_controllerVars, NEW c \in Callers, at[c] # "idle", at'[c] = "idle"
               PROVE ~paused
    OBVIOUS
  <2>1. QED
    BY DEF ControllerTypeOK, ControllerNext, CallerStep, OpStep, Enter, Check, Woken, Unwind, Cancelled,
           HelperWait, HelperDone, LockOp, Pause, Resume, controllerVars
<1>2. IInv => ControllerTypeOK
  BY DEF IInv
<1>3. QED
  BY Invariance, <1>1, <1>2, PTL DEF ControllerSpec, NoReturnWhilePaused
=============================================================================
