-------------------------- MODULE ServerLifecycle --------------------------
(***************************************************************************)
(* Starting and stopping the server process (cmd/server/main.go), its REST *)
(* server (pkg/api/server.go NewServer, Run, Shutdown) with the kickoffs   *)
(* in flight, and the operations server (pkg/server/server.go) with its    *)
(* health checks and shutdown callbacks.                                   *)
(*                                                                         *)
(* Abstracted: the mesh server, whose Stop is modelled in Mesh, returns    *)
(* from Start once it was stopped.                                         *)
(***************************************************************************)
EXTENDS Integers, FiniteSets

CONSTANTS
    KickoffIds      \* kickoffs

VARIABLES
    tokens,         \* the API tokens: "set", "default" (insecure) or "dev" (allowed by the environment)
    mesh,           \* goroutine of meshServer.Start: "serving" or "returned"
    rest,           \* goroutine of server.Run: "serving" or "returned"
    waiter,         \* the goroutine Run starts, which waits for s.shutdown
    signalled,      \* SIGINT or SIGTERM was received
    stopper,        \* the signal goroutine: "idle", "mesh", "rest", "wait", "workers", "done"
    shutdown,       \* s.shutdown is closed
    kickoff,        \* each kickoff: "none", "running", "ended"
    early,          \* kickoffs that were accepted before Shutdown was called
    timedOut,       \* Shutdown gave up waiting
    firstErr,       \* setError was called
    host,        \* "up" or "exited"
    ops,            \* operations server: "serving", "closed", "returned"
    opsStop,        \* its signal goroutine: "waiting", "closing", "callbacks", "done"
    callbacks,      \* runs of its shutdown callbacks
    probe,          \* handleHealth: "idle" or "checking"
    isReady, fatal    \* readiness; a concurrent map access ended the process

mainVars == <<tokens, mesh, rest, waiter, signalled, stopper, shutdown, kickoff, early, timedOut, firstErr, host>>
opsVars == <<ops, opsStop, callbacks, probe, isReady, fatal>>
lifeVars == <<mainVars, opsVars>>

(* The tokens come from the environment; if there are none, the insecure   *)
(* default is used, which the development mode allows.                     *)
ResolveAuthTokens == {"set", "default", "dev"}

(* New: the operations server.                                             *)
OpsInit ==
    /\ ops = "serving" /\ opsStop = "waiting" /\ callbacks = 0 /\ probe = "idle"
    /\ isReady = FALSE /\ fatal = FALSE

LifeInit ==
    /\ tokens \in ResolveAuthTokens
    /\ mesh = "serving" /\ rest = "starting" /\ waiter = "none" /\ signalled = FALSE
    /\ stopper = "idle" /\ shutdown = FALSE /\ kickoff = [k \in KickoffIds |-> "none"] /\ early = {}
    /\ timedOut = FALSE /\ firstErr = FALSE /\ host = "up"
    /\ OpsInit

Up == host = "up" /\ ~fatal

(***************************************************************************)
(* main and the REST server.                                               *)
(***************************************************************************)
(* NewServer: the insecure default token is a startup error unless the     *)
(* environment allows it.                                                  *)
StartupErr == tokens = "default"

(* Run refuses to serve after a startup error; otherwise it serves.        *)
Run ==
    /\ Up /\ rest = "starting"
    /\ \/ StartupErr /\ rest' = "returned" /\ firstErr' = TRUE /\ UNCHANGED waiter
       \/ ~StartupErr /\ rest' = "serving" /\ waiter' = "waiting" /\ UNCHANGED firstErr
    /\ UNCHANGED <<tokens, mesh, signalled, stopper, shutdown, kickoff, early, timedOut, host, opsVars>>

(* An invalid KV backend ends the process before Run is called.            *)
KvConfigInvalid ==
    /\ Up /\ rest = "starting" /\ host' = "exited"
    /\ UNCHANGED <<tokens, mesh, rest, waiter, signalled, stopper, shutdown, kickoff, early, timedOut, firstErr,
                   opsVars>>

WaiterReturns ==
    /\ Up /\ waiter = "waiting" /\ shutdown /\ waiter' = "done"
    /\ UNCHANGED <<tokens, mesh, rest, signalled, stopper, shutdown, kickoff, early, timedOut, firstErr,
                   host, opsVars>>

(* ListenAndServe may fail, e.g. to bind; nothing else ends it.            *)
ServeFails ==
    /\ Up
    /\ \/ rest = "serving" /\ rest' = "returned" /\ UNCHANGED mesh
       \/ mesh = "serving" /\ mesh' = "returned" /\ UNCHANGED rest
    /\ firstErr' = TRUE
    /\ UNCHANGED <<tokens, waiter, signalled, stopper, shutdown, kickoff, early, timedOut, host, opsVars>>

(* A kickoff: kickoffWG.Add(1) and a goroutine.  Requests are served after *)
(* Shutdown as before it.                                                  *)
Dispatch(k) ==
    /\ Up /\ rest = "serving" /\ kickoff[k] = "none"
    /\ kickoff' = [kickoff EXCEPT ![k] = "running"]
    /\ early' = IF shutdown THEN early ELSE early \cup {k}
    /\ UNCHANGED <<tokens, mesh, rest, waiter, signalled, stopper, shutdown, timedOut, firstErr, host, opsVars>>

KickoffEnds(k) ==
    /\ Up /\ kickoff[k] = "running" /\ kickoff' = [kickoff EXCEPT ![k] = "ended"]
    /\ UNCHANGED <<tokens, mesh, rest, waiter, signalled, stopper, shutdown, early, timedOut, firstErr, host,
                   opsVars>>

Signal ==
    /\ Up /\ ~signalled /\ signalled' = TRUE
    /\ stopper' = "mesh"
    /\ UNCHANGED <<tokens, mesh, rest, waiter, shutdown, kickoff, early, timedOut, firstErr, host, opsVars>>

(* meshServer.Stop and StopMeshServers.                                    *)
StopMeshes ==
    /\ Up /\ stopper = "mesh" /\ stopper' = "rest" /\ mesh' = "returned"
    /\ UNCHANGED <<tokens, rest, waiter, signalled, shutdown, kickoff, early, timedOut, firstErr, host, opsVars>>

KickoffsIgnored == TRUE
(* kickoffWG.Wait.                                                         *)
KickoffsDone == \A k \in KickoffIds : kickoff[k] # "running"

(* Shutdown closes the channel, waits for the kickoffs or its timeout, and *)
(* for the goroutine of Run.                                               *)
Shutdown ==
    /\ Up
    /\ \/ stopper = "rest" /\ shutdown' = TRUE /\ stopper' = "wait" /\ UNCHANGED timedOut
       \/ stopper = "wait" /\ KickoffsDone /\ stopper' = "workers" /\ UNCHANGED <<shutdown, timedOut>>
       \/ stopper = "wait" /\ stopper' = "workers" /\ timedOut' = TRUE /\ UNCHANGED shutdown
       \/ stopper = "workers" /\ waiter # "waiting" /\ stopper' = "done" /\ UNCHANGED <<shutdown, timedOut>>
    /\ UNCHANGED <<tokens, mesh, rest, waiter, signalled, kickoff, early, firstErr, host, opsVars>>

(* wg.Wait: main returns when both servers have returned.                  *)
MainReturns ==
    /\ Up /\ mesh = "returned" /\ rest = "returned" /\ host' = "exited"
    /\ UNCHANGED <<tokens, mesh, rest, waiter, signalled, stopper, shutdown, kickoff, early, timedOut, firstErr,
                   opsVars>>

(***************************************************************************)
(* The operations server.                                                  *)
(***************************************************************************)
(* ListenAndServe on a signal: drain, then the callbacks.                  *)
OpsSignal ==
    /\ ~fatal
    /\ \/ opsStop = "waiting" /\ opsStop' = "closing" /\ UNCHANGED <<ops, callbacks>>
       \/ /\ opsStop = "closing" /\ opsStop' = "callbacks" /\ UNCHANGED callbacks
          /\ ops' = IF ops = "serving" THEN "closed" ELSE ops
       \/ opsStop = "callbacks" /\ opsStop' = "done" /\ callbacks' = callbacks + 1 /\ UNCHANGED ops
    /\ UNCHANGED <<mainVars, probe, isReady, fatal>>

(* Shutdown called by the program: the callbacks, then the drain.          *)
OpsShutdown ==
    /\ ~fatal /\ ops = "serving" /\ ops' = "closed" /\ callbacks' = callbacks + 1
    /\ UNCHANGED <<mainVars, opsStop, probe, isReady, fatal>>

(* ListenAndServe waits for its signal goroutine, also after a Shutdown.   *)
OpsReturns ==
    /\ ~fatal /\ ops = "closed" /\ opsStop = "done" /\ ops' = "returned"
    /\ UNCHANGED <<mainVars, opsStop, callbacks, probe, isReady, fatal>>

(* handleHealth ranges over the map it read under the lock, without it.    *)
HandleHealth ==
    /\ ~fatal /\ ops = "serving"
    /\ probe' = IF probe = "idle" THEN "checking" ELSE "idle"
    /\ UNCHANGED <<mainVars, ops, opsStop, callbacks, isReady, fatal>>

(* A write to the map during the iteration may be fatal.                   *)
RegisterHealthCheck ==
    /\ ~fatal /\ probe = "checking" /\ fatal' \in BOOLEAN
    /\ UNCHANGED <<mainVars, ops, opsStop, callbacks, probe, isReady>>

SetReady ==
    /\ ~fatal /\ isReady' = ~isReady
    /\ UNCHANGED <<mainVars, ops, opsStop, callbacks, probe, fatal>>

MainNext ==
    \/ KvConfigInvalid \/ Run \/ WaiterReturns \/ ServeFails \/ Signal \/ StopMeshes \/ Shutdown \/ MainReturns
    \/ \E k \in KickoffIds : Dispatch(k) \/ KickoffEnds(k)

OpsNext == OpsSignal \/ OpsShutdown \/ OpsReturns \/ HandleHealth \/ RegisterHealthCheck \/ SetReady

LifeNext == MainNext \/ OpsNext

(* Goroutines run and kickoffs end; nobody has to send a signal.           *)
LifeFairness ==
    /\ WF_lifeVars(Run) /\ WF_lifeVars(WaiterReturns) /\ WF_lifeVars(StopMeshes) /\ WF_lifeVars(Shutdown)
    /\ WF_lifeVars(MainReturns) /\ \A k \in KickoffIds : WF_lifeVars(KickoffEnds(k))

LifeSpec == LifeInit /\ [][LifeNext]_lifeVars /\ LifeFairness

(* When Shutdown returns without having given up, no kickoff that was      *)
(* accepted before it is still running, although the server goes on        *)
(* accepting new ones while Shutdown waits.                                *)
ShutdownDrains == stopper = "done" /\ ~timedOut => \A k \in early : kickoff[k] = "ended"

(* Run "blocks until shutdown": after the signal and Shutdown it returns   *)
(* and the process exits.                                                  *)
SignalEndsProcess == signalled ~> (host = "exited" \/ fatal)
=============================================================================
