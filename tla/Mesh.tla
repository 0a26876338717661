-------------------------------- MODULE Mesh --------------------------------
(***************************************************************************)
(* The gRPC mesh (pkg/api/mesh_client.go, mesh_server.go, mesh_tls.go,     *)
(* mesh/dial.go, pkg/agents/remote_agent.go): a node that serves its       *)
(* agents to remote agents.  An rpc of DelegateTask takes the server's     *)
(* mutex twice and then the lock of the role; the node is stopped through  *)
(* MeshServer.Stop or, when StartMeshServer started it, through            *)
(* StopMeshServers.                                                        *)
(*                                                                         *)
(* Abstracted: certificates (a credential is given and good, given and     *)
(* bad, or absent) and what the agents answer.                             *)
(***************************************************************************)
EXTENDS Integers, FiniteSets

CONSTANTS
    Callers,        \* remote agents
    Roles,          \* roles of the node's agents
    MaxRpcs,        \* bound: rpcs started
    Launches,       \* how the node is started: "server", "standalone"
    NoRole          \* a role the node has not

ASSUME MeshAssumption == NoRole \notin Roles /\ IsFiniteSet(Roles) /\ MaxRpcs \in Nat

VARIABLES
    launch,         \* who started the node and stops it
    mode,           \* transport of the listener: "", file, mtls, plain, ephemeral
    insecure,       \* MESH_INSECURE=1, on every node of the deployment
    rpc,            \* what each caller is doing
    rpcs,           \* rpcs started
    mu,             \* MeshServer.mu is held by Stop
    execLocks,      \* role -> identity of its mutex, 0: none yet
    held,           \* identities of the mutexes that are locked
    halt            \* "", asked, draining, stopped

meshVars == <<launch, mode, insecure, rpc, rpcs, mu, execLocks, held, halt>>

NoRpc == [step |-> "", role |-> NoRole, lock |-> 0, ok |-> FALSE]

MeshInit ==
    /\ launch \in Launches /\ mode = "" /\ insecure \in BOOLEAN
    /\ rpc = [c \in Callers |-> NoRpc] /\ rpcs = 0
    /\ mu = FALSE /\ execLocks = [r \in Roles |-> 0] /\ held = {} /\ halt = ""

(***************************************************************************)
(* Starting the node.                                                      *)
(***************************************************************************)
Given == {"none", "good", "bad"}

(* LoadTLSConfig: a client CA makes client certificates mandatory.         *)
LoadTLSConfig(cert, clientCA) ==
    CASE cert = "bad" \/ clientCA = "bad" -> "refused"
      [] clientCA = "good" -> "mtls"
      [] OTHER -> "file"

(* serverTLSCreds: a pair of files wins; a client CA without one is        *)
(* refused rather than dropped; plaintext has to be asked for; otherwise a *)
(* certificate is minted.                                                  *)
ServerTLSCreds(cert, clientCA) ==
    CASE cert # "none" -> LoadTLSConfig(cert, clientCA)
      [] cert = "none" /\ clientCA # "none" -> "refused"
      [] cert = "none" /\ clientCA = "none" /\ insecure -> "plain"
      [] OTHER -> "ephemeral"

(* Start drops the credentials of the call, the client CA with them, when  *)
(* plaintext is asked for and there is no certificate.                     *)
StartMode(cert, clientCA) ==
    ServerTLSCreds(cert, IF insecure /\ cert = "none" THEN "none" ELSE clientCA)

(* StartMeshServer: the certificate, then plaintext, then the refusal.     *)
StandaloneMode(cert, clientCA) ==
    CASE cert # "none" -> LoadTLSConfig(cert, clientCA)
      [] cert = "none" /\ insecure -> "plain"
      [] cert = "none" /\ ~insecure /\ clientCA # "none" -> "refused"
      [] OTHER -> "ephemeral"

StartMesh ==
    /\ mode = "" /\ halt = ""
    /\ \E cert, clientCA \in Given :
          LET chosen == IF launch = "server" THEN StartMode(cert, clientCA) ELSE StandaloneMode(cert, clientCA)
          IN  chosen # "refused" /\ mode' = chosen
    /\ UNCHANGED <<launch, insecure, rpc, rpcs, mu, execLocks, held, halt>>

(***************************************************************************)
(* A remote agent's call.                                                  *)
(***************************************************************************)
(* ResolveTransport: a CA means verified TLS; a loopback address is dialed *)
(* with TLS that is not verified; anything else needs MESH_INSECURE=1.     *)
ResolveTransport(ca, loopback) ==
    CASE ca -> "verified"
      [] ~ca /\ loopback -> "unverified"
      [] OTHER -> IF insecure THEN "plain" ELSE "refused"

(* gRPC: both ends speak TLS or neither does; a client of DialNode has no  *)
(* certificate to show; an ephemeral certificate is in nobody's CA.        *)
Connects(transport) ==
    \/ transport = "plain" /\ mode = "plain"
    \/ transport = "unverified" /\ mode \in {"file", "ephemeral"}
    \/ transport = "verified" /\ mode = "file"

(* RemoteAgent.Execute dials and calls DelegateTask; a node that drains    *)
(* takes no new rpc.                                                       *)
RemoteExecute(c) ==
    /\ rpc[c].step = "" /\ rpcs < MaxRpcs /\ rpcs' = rpcs + 1
    /\ \E ca, loopback \in BOOLEAN, role \in Roles \cup {NoRole}, lookup \in {"find", "search"} :
          rpc' = [rpc EXCEPT ![c] =
                    IF Connects(ResolveTransport(ca, loopback)) /\ mode # "" /\ halt \in {"", "asked"}
                    THEN [NoRpc EXCEPT !.step = lookup, !.role = role]
                    ELSE NoRpc]
    /\ UNCHANGED <<launch, mode, insecure, mu, execLocks, held, halt>>

Answer(c, ok) == rpc' = [rpc EXCEPT ![c] = [@ EXCEPT !.step = "", !.lock = 0, !.ok = ok]]

(* SearchKnowledge takes no lock of the server.                            *)
SearchKnowledge(c) ==
    /\ rpc[c].step = "search" /\ \E ok \in BOOLEAN : Answer(c, ok)
    /\ UNCHANGED <<launch, mode, insecure, rpcs, mu, execLocks, held, halt>>

(* DelegateTask: find the agent under the mutex.                           *)
FindAgent(c) ==
    /\ rpc[c].step = "find" /\ ~mu
    /\ IF rpc[c].role \in Roles
       THEN rpc' = [rpc EXCEPT ![c].step = "lockfor"]
       ELSE Answer(c, FALSE)
    /\ UNCHANGED <<launch, mode, insecure, rpcs, mu, execLocks, held, halt>>

(* A new mutex is none of those there are: one more than there are roles   *)
(* is enough to choose from.                                               *)
Fresh == CHOOSE n \in 1..Cardinality(Roles) + MaxRpcs :
            /\ \A r \in Roles : execLocks[r] # n
            /\ \A c \in Callers : rpc[c].lock # n

LockOfNew(role) == Fresh
LockOf(role) == IF execLocks[role] = 0 THEN Fresh ELSE execLocks[role]

(* execLockFor: the role's mutex, made by the first who needs it.          *)
ExecLockFor(c) ==
    /\ rpc[c].step = "lockfor" /\ ~mu
    /\ LET l == LockOf(rpc[c].role)
       IN  /\ execLocks' = [execLocks EXCEPT ![rpc[c].role] = l]
           /\ rpc' = [rpc EXCEPT ![c] = [@ EXCEPT !.step = "lock", !.lock = l]]
    /\ UNCHANGED <<launch, mode, insecure, rpcs, mu, held, halt>>

(* The wait for the role's mutex does not look at the context.             *)
LockRole(c) ==
    /\ rpc[c].step = "lock" /\ rpc[c].lock \notin held
    /\ held' = held \cup {rpc[c].lock}
    /\ rpc' = [rpc EXCEPT ![c].step = "exec"]
    /\ UNCHANGED <<launch, mode, insecure, rpcs, mu, execLocks, halt>>

DelegateTask(c) ==
    /\ rpc[c].step = "exec"
    /\ held' = held \ {rpc[c].lock}
    /\ \E ok \in BOOLEAN : Answer(c, ok)
    /\ UNCHANGED <<launch, mode, insecure, rpcs, mu, execLocks, halt>>

(***************************************************************************)
(* Stopping the node: GracefulStop returns when no rpc is left.            *)
(***************************************************************************)
AskStop ==
    /\ halt = "" /\ halt' = "asked"
    /\ UNCHANGED <<launch, mode, insecure, rpc, rpcs, mu, execLocks, held>>

(* MeshServer.Stop holds the mutex while it drains; StopMeshServers holds  *)
(* one that no rpc needs.  Before Start there is nothing to stop.          *)
StopMesh ==
    /\ halt = "asked"
    /\ mu' = (launch = "server" /\ mode # "")
    /\ halt' = IF mode = "" THEN "stopped" ELSE "draining"
    /\ UNCHANGED <<launch, mode, insecure, rpc, rpcs, execLocks, held>>

GracefulStop ==
    /\ halt = "draining" /\ \A c \in Callers : rpc[c].step = ""
    /\ halt' = "stopped" /\ mu' = FALSE
    /\ UNCHANGED <<launch, mode, insecure, rpc, rpcs, execLocks, held>>

RpcStep(c) == SearchKnowledge(c) \/ FindAgent(c) \/ ExecLockFor(c) \/ LockRole(c) \/ DelegateTask(c)

MeshNext ==
    \/ StartMesh \/ AskStop \/ StopMesh \/ GracefulStop
    \/ \E c \in Callers : RemoteExecute(c) \/ RpcStep(c)

(* The goroutines of the server run, and an agent's Execute returns.       *)
MeshFairness ==
    /\ WF_meshVars(StopMesh) /\ WF_meshVars(GracefulStop)
    /\ \A c \in Callers : WF_meshVars(RpcStep(c))

MeshSpec == MeshInit /\ [][MeshNext]_meshVars /\ MeshFairness

(* The agents are shared mutable objects: no two rpcs, whenever they asked *)
(* for the lock of a role nobody had used, run one agent at the same time. *)
AgentExclusive ==
    \A c, d \in Callers : c # d /\ rpc[c].step = "exec" /\ rpc[d].step = "exec" => rpc[c].role # rpc[d].role

(* A node that is asked to stop drains its rpcs and stops.                 *)
MeshDrains == halt = "asked" ~> halt = "stopped"
=============================================================================
