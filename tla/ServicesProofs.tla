-------------------------- MODULE ServicesProofs ----------------------------
(* Proofs about what surrounds the crews: the mesh, the A2A client, the    *)
(* ADK adapter, the server's shutdown, the event streams, the sandboxes,   *)
(* the MCP transport, the rate limiters and the dashboard, each for any    *)
(* number of the parties that use it at once.                              *)
EXTENDS Mesh, A2a, Adk, ServerLifecycle, EventStreams, Sandbox, Mcp, RateLimits, CreatorMode,
        FiniteSetTheorems, SequenceTheorems, WellFoundedInduction, TLAPS

-----------------------------------------------------------------------------
(* The mesh.                                                               *)

RpcRecord ==
    [step : {"", "find", "search", "lockfor", "lock", "exec"}, role : Roles \cup {NoRole},
     lock : Nat, ok : BOOLEAN]

MeshTypeOK == rpc \in [Callers -> RpcRecord] /\ execLocks \in [Roles -> Nat]

(* What an rpc may rely on, given the mutexes of the roles and which of    *)
(* them are locked: it has its role's mutex from the moment it asked for   *)
(* it, and holds it while it executes.                                     *)
RpcSound(r, locks, h) ==
    /\ r.step \in {"lockfor", "lock", "exec"} => r.role \in Roles
    /\ r.step \in {"lock", "exec"} => r.lock = locks[r.role] /\ r.lock # 0
    /\ r.step \notin {"lock", "exec"} => r.lock = 0
    /\ r.step = "exec" => r.lock \in h

RpcsSound == \A c \in Callers : RpcSound(rpc[c], execLocks, held)

(* No mutex belongs to two roles.                                          *)
LocksDistinct == \A r, q \in Roles : execLocks[r] = execLocks[q] /\ execLocks[r] # 0 => r = q

MeshIInv == MeshTypeOK /\ RpcsSound /\ LocksDistinct /\ AgentExclusive

(* The mutex execLockFor makes for a role that has none belongs to no      *)
(* other role.                                                             *)
LEMMA FreshIsFresh ==
    ASSUME MeshIInv, NEW role \in Roles, execLocks[role] = 0
    PROVE  Fresh \in Nat \ {0} /\ \A r \in Roles : execLocks[r] # Fresh
<1> DEFINE Rest == Roles \ {role}
           Used == {execLocks[r] : r \in Rest}
           N == Cardinality(Roles) + MaxRpcs
<1>1. IsFiniteSet(Rest) /\ Cardinality(Rest) = Cardinality(Roles) - 1 /\ Cardinality(Roles) \in Nat
  BY MeshAssumption, FS_RemoveElement, FS_CardinalityType
<1>2. IsFiniteSet(Used) /\ Cardinality(Used) <= Cardinality(Rest) /\ Cardinality(Used) \in Nat
  <2>1. [r \in Rest |-> execLocks[r]] \in Surjection(Rest, Used)
    BY DEF Surjection
  <2>2. QED
    BY <2>1, <1>1, FS_Surjection, FS_CardinalityType
<1>3. N \in Nat /\ N >= Cardinality(Roles)
  BY <1>1, MeshAssumption
<1>4. IsFiniteSet(1..N) /\ Cardinality(1..N) = N
  <2> HIDE DEF N
  <2>1. QED
    BY <1>3, FS_Interval
<1>5. ~(1..N \subseteq Used)
  <2>1. SUFFICES ASSUME 1..N \subseteq Used PROVE FALSE
    OBVIOUS
  <2>2. Cardinality(1..N) <= Cardinality(Used)
    BY <2>1, <1>2, FS_Subset
  <2>3. QED
    BY <2>2, <1>1, <1>2, <1>3, <1>4
<1>6. PICK n \in 1..N : n \notin Used
  BY <1>5
<1>7. \A r \in Roles : execLocks[r] # n
  BY <1>6
<1>8. \A c \in Callers : rpc[c].lock # n
  BY <1>6, <1>7 DEF MeshIInv, MeshTypeOK, RpcsSound, RpcSound, RpcRecord
<1>9. Fresh \in 1..N /\ \A r \in Roles : execLocks[r] # Fresh
  BY <1>7, <1>8 DEF Fresh
<1>10. QED
  BY <1>9, <1>3

(* A step of one rpc that leaves the mutexes of the roles alone.           *)
LEMMA RpcMoves ==
    ASSUME MeshIInv, NEW c \in Callers, NEW r \in RpcRecord,
           rpc' = [rpc EXCEPT ![c] = r], execLocks' = execLocks,
           RpcSound(r, execLocks, held'),
           \A d \in Callers \ {c} : rpc[d].step = "exec" => rpc[d].lock \in held',
           r.step = "exec" => \A d \in Callers \ {c} : rpc[d].step = "exec" => rpc[d].lock # r.lock
    PROVE  MeshIInv'
<1> USE DEF MeshIInv
<1>1. rpc' \in [Callers -> RpcRecord] /\ rpc'[c] = r /\ \A d \in Callers \ {c} : rpc'[d] = rpc[d]
  BY DEF MeshTypeOK
<1>2. MeshTypeOK' /\ LocksDistinct'
  BY <1>1 DEF MeshTypeOK, LocksDistinct
<1>3. RpcsSound'
  BY <1>1 DEF RpcsSound, RpcSound
<1>4. AgentExclusive'
  BY <1>1 DEF AgentExclusive, RpcsSound, RpcSound
<1>5. QED
  BY <1>2, <1>3, <1>4

(* No two rpcs of the mesh run one agent at the same time, for any number  *)
(* of callers and roles: a role's mutex is created once, and no two roles  *)
(* share one (mesh_client.go execLockFor and DelegateTask).                *)
THEOREM AgentsExclusive == MeshSpec => []AgentExclusive
<1>1. MeshInit => MeshIInv
  <2> SUFFICES ASSUME MeshInit PROVE MeshIInv
    OBVIOUS
  <2>1. rpc = [c \in Callers |-> NoRpc] /\ execLocks = [r \in Roles |-> 0]
    BY Zenon DEF MeshInit
  <2>2. QED
    BY <2>1 DEF MeshIInv, MeshTypeOK, RpcsSound, RpcSound, LocksDistinct, AgentExclusive, NoRpc, RpcRecord
<1>2. MeshIInv /\ [MeshNext]_meshVars => MeshIInv'
  <2> SUFFICES ASSUME MeshIInv, [MeshNext]_meshVars PROVE MeshIInv'
    OBVIOUS
  <2>0. rpc \in [Callers -> RpcRecord] /\ RpcsSound /\ execLocks \in [Roles -> Nat]
    BY DEF MeshIInv, MeshTypeOK
  <2>1. CASE UNCHANGED <<rpc, execLocks, held>>
    BY <2>1, Zenon DEF MeshIInv, MeshTypeOK, RpcsSound, LocksDistinct, AgentExclusive
  <2>2. ASSUME NEW c \in Callers, RemoteExecute(c) PROVE MeshIInv'
    <3>1. PICK role \in Roles \cup {NoRole}, lookup \in {"find", "search"} :
             \/ rpc' = [rpc EXCEPT ![c] = [NoRpc EXCEPT !.step = lookup, !.role = role]]
             \/ rpc' = [rpc EXCEPT ![c] = NoRpc]
      BY <2>2, Zenon DEF RemoteExecute
    <3>2. UNCHANGED <<execLocks, held>>
      BY <2>2, Zenon DEF RemoteExecute
    <3>3. PICK r \in RpcRecord : /\ rpc' = [rpc EXCEPT ![c] = r]
                                 /\ r.step \in {"", "find", "search"} /\ r.lock = 0
      <4> DEFINE started == [NoRpc EXCEPT !.step = lookup, !.role = role]
      <4>1. started \in RpcRecord /\ started.step \in {"", "find", "search"} /\ started.lock = 0
        BY DEF NoRpc, RpcRecord
      <4>2. NoRpc \in RpcRecord /\ NoRpc.step \in {"", "find", "search"} /\ NoRpc.lock = 0
        BY DEF NoRpc, RpcRecord
      <4> HIDE DEF started
      <4>3. rpc' = [rpc EXCEPT ![c] = started] \/ rpc' = [rpc EXCEPT ![c] = NoRpc]
        BY <3>1 DEF started
      <4>4. QED
        BY <4>1, <4>2, <4>3
    <3>4. /\ RpcSound(r, execLocks, held')
          /\ \A d \in Callers \ {c} : rpc[d].step = "exec" => rpc[d].lock \in held'
      BY <2>0, <3>2, <3>3 DEF RpcsSound, RpcSound
    <3>5. QED
      BY <3>2, <3>3, <3>4, RpcMoves
  <2>3. ASSUME NEW c \in Callers, NEW ok \in BOOLEAN, Answer(c, ok), execLocks' = execLocks,
               \/ rpc[c].step # "exec" /\ held' = held
               \/ rpc[c].step = "exec" /\ held' = held \ {rpc[c].lock}
        PROVE  MeshIInv'
    <3> DEFINE r == [rpc[c] EXCEPT !.step = "", !.lock = 0, !.ok = ok]
    <3>1. rpc' = [rpc EXCEPT ![c] = r]
      BY <2>3 DEF Answer
    <3>2. r \in RpcRecord /\ r.step = "" /\ r.lock = 0
      BY <2>0 DEF RpcRecord
    <3> HIDE DEF r
    <3>3. ASSUME NEW d \in Callers \ {c}, rpc[d].step = "exec" PROVE rpc[d].lock \in held'
      <4>1. rpc[d].lock \in held /\ rpc[d].role \in Roles /\ rpc[d].lock = execLocks[rpc[d].role]
            /\ rpc[d].lock # 0
        BY <2>0, <3>3 DEF RpcsSound, RpcSound
      <4>2. CASE rpc[c].step = "exec"
        <5>1. rpc[c].role \in Roles /\ rpc[c].lock = execLocks[rpc[c].role]
          BY <2>0, <4>2 DEF RpcsSound, RpcSound
        <5>2. rpc[c].role # rpc[d].role
          BY <3>3, <4>2 DEF MeshIInv, AgentExclusive
        <5>3. rpc[c].lock # rpc[d].lock
          BY <4>1, <5>1, <5>2 DEF MeshIInv, LocksDistinct
        <5>4. QED
          BY <2>3, <4>1, <4>2, <5>3
      <4>3. QED
        BY <2>3, <4>1, <4>2
    <3>4. RpcSound(r, execLocks, held')
      BY <3>2 DEF RpcSound
    <3>5. QED
      BY <2>3, <3>1, <3>2, <3>3, <3>4, RpcMoves
  <2>4. ASSUME NEW c \in Callers, FindAgent(c) PROVE MeshIInv'
    <3>1. /\ rpc[c].step = "find" /\ UNCHANGED <<execLocks, held>>
          /\ \/ rpc[c].role \in Roles /\ rpc' = [rpc EXCEPT ![c].step = "lockfor"]
             \/ Answer(c, FALSE)
      BY <2>4, Zenon DEF FindAgent
    <3>2. CASE rpc[c].role \in Roles /\ rpc' = [rpc EXCEPT ![c].step = "lockfor"]
      <4> DEFINE r == [rpc[c] EXCEPT !.step = "lockfor"]
      <4>1. rpc' = [rpc EXCEPT ![c] = r]
        BY <3>2
      <4>2. r \in RpcRecord /\ r.step = "lockfor" /\ r.lock = rpc[c].lock /\ r.role = rpc[c].role
        BY <2>0 DEF RpcRecord
      <4> HIDE DEF r
      <4>3. /\ RpcSound(r, execLocks, held')
            /\ \A d \in Callers \ {c} : rpc[d].step = "exec" => rpc[d].lock \in held'
        BY <2>0, <3>1, <3>2, <4>2 DEF RpcsSound, RpcSound
      <4>4. QED
        BY <3>1, <4>1, <4>2, <4>3, RpcMoves
    <3>3. QED
      BY <3>1, <3>2, <2>3
  <2>5. ASSUME NEW c \in Callers, ExecLockFor(c) PROVE MeshIInv'
    <3> DEFINE l == LockOf(rpc[c].role)
               r == [rpc[c] EXCEPT !.step = "lock", !.lock = l]
    <3>1. /\ execLocks' = [execLocks EXCEPT ![rpc[c].role] = l]
          /\ rpc' = [rpc EXCEPT ![c] = r]
          /\ held' = held /\ rpc[c].step = "lockfor"
      BY <2>5, Zenon DEF ExecLockFor
    <3>2. rpc[c].role \in Roles
      BY <2>0, <3>1 DEF RpcsSound, RpcSound
    <3>3. /\ l \in Nat \ {0}
          /\ \A q \in Roles : execLocks[q] = l => q = rpc[c].role
          /\ execLocks[rpc[c].role] # 0 => l = execLocks[rpc[c].role]
      BY <2>0, <3>2, FreshIsFresh DEF LockOf, MeshIInv, LocksDistinct
    <3> HIDE DEF l
    <3>4. r \in RpcRecord /\ r.step = "lock" /\ r.lock = l /\ r.role = rpc[c].role
      BY <2>0, <3>3 DEF RpcRecord
    <3> HIDE DEF r
    <3>5. rpc' \in [Callers -> RpcRecord] /\ rpc'[c] = r /\ \A d \in Callers \ {c} : rpc'[d] = rpc[d]
      BY <2>0, <3>1, <3>4
    <3>6. MeshTypeOK' /\ LocksDistinct'
      BY <2>0, <3>1, <3>2, <3>3, <3>5 DEF MeshTypeOK, LocksDistinct, MeshIInv
    <3>7. RpcsSound'
      BY <2>0, <3>1, <3>2, <3>3, <3>4, <3>5 DEF RpcsSound, RpcSound
    <3>8. AgentExclusive'
      BY <3>4, <3>5 DEF MeshIInv, AgentExclusive
    <3>9. QED
      BY <3>6, <3>7, <3>8 DEF MeshIInv
  <2>6. ASSUME NEW c \in Callers, LockRole(c) PROVE MeshIInv'
    <3>1. /\ rpc[c].step = "lock" /\ rpc[c].lock \notin held /\ held' = held \cup {rpc[c].lock}
          /\ rpc' = [rpc EXCEPT ![c].step = "exec"] /\ execLocks' = execLocks
      BY <2>6, Zenon DEF LockRole
    <3> DEFINE r == [rpc[c] EXCEPT !.step = "exec"]
    <3>2. rpc' = [rpc EXCEPT ![c] = r]
      BY <3>1
    <3>3. r \in RpcRecord /\ r.step = "exec" /\ r.lock = rpc[c].lock /\ r.role = rpc[c].role
      BY <2>0 DEF RpcRecord
    <3> HIDE DEF r
    <3>4. /\ RpcSound(r, execLocks, held')
          /\ \A d \in Callers \ {c} : rpc[d].step = "exec" => rpc[d].lock \in held' /\ rpc[d].lock # r.lock
      BY <2>0, <3>1, <3>3 DEF RpcsSound, RpcSound
    <3>5. QED
      BY <3>1, <3>2, <3>3, <3>4, RpcMoves
  <2>7. ASSUME NEW c \in Callers, SearchKnowledge(c) \/ DelegateTask(c) PROVE MeshIInv'
    <3>1. PICK ok \in BOOLEAN :
             /\ Answer(c, ok) /\ execLocks' = execLocks
             /\ \/ rpc[c].step = "search" /\ held' = held
                \/ rpc[c].step = "exec" /\ held' = held \ {rpc[c].lock}
      BY <2>7, Zenon DEF SearchKnowledge, DelegateTask
    <3>2. QED
      BY <3>1, <2>3
  <2>8. QED
    BY <2>1, <2>2, <2>4, <2>5, <2>6, <2>7, Zenon
    DEF MeshNext, RpcStep, StartMesh, AskStop, StopMesh, GracefulStop, meshVars
<1>3. MeshIInv => AgentExclusive
  BY DEF MeshIInv
<1>4. QED
  BY <1>1, <1>2, <1>3, PTL DEF MeshSpec

-----------------------------------------------------------------------------
(* The A2A client.                                                         *)

SndRecord ==
    [step : {"", "check", "wire", "serve", "answer", "stream"},
     action : {"status", "delegate_task", "async", "other"}, own : BOOLEAN, try : Nat, ran : Nat,
     done : Nat, answer : {"", "200", "202", "500", "failed"}, ok : BOOLEAN, tokens : Nat]

(* A call has run the task at most once per attempt it has begun, and      *)
(* succeeds only on an answer that stands for a task done.                 *)
SndSound(r) ==
    /\ r.ran <= r.try + 1
    /\ r.step \in {"check", "wire", "serve"} => r.ran <= r.try
    /\ r.step = "stream" => r.action = "status"
    /\ r.step = "answer" /\ r.answer = "200" /\ r.action # "status" => r.done > 0
    /\ r.ok /\ r.action # "status" => r.done > 0
    /\ r.step # "" => ~r.ok

SendsSound == snd \in [Senders -> SndRecord] /\ \A s \in Senders : SndSound(snd[s])

(* A step of one sender that keeps its own record sound keeps all sound.   *)
LEMMA SendMoves ==
    ASSUME SendsSound, NEW s \in Senders, NEW r \in SndRecord, SndSound(r), SndStep(s, r)
    PROVE  SendsSound'
<1>1. snd' \in [Senders -> SndRecord] /\ snd'[s] = r /\ \A d \in Senders \ {s} : snd'[d] = snd[d]
  BY DEF SendsSound, SndStep
<1>2. QED
  BY <1>1 DEF SendsSound

(* Whether it is sent again or given up, a failed attempt adds no result.  *)
LEMMA RetrySound ==
    ASSUME SendsSound, NEW s \in Senders, snd[s].step \in {"check", "wire", "answer"}, ~snd[s].ok,
           SendWithRetry(s)
    PROVE  SendsSound'
<1>0. snd[s] \in SndRecord /\ SndSound(snd[s])
  BY DEF SendsSound
<1>1. CASE SndStep(s, [snd[s] EXCEPT !.step = "check", !.try = @ + 1, !.answer = ""])
  <2> DEFINE t == snd[s].try + 1
             r == [snd[s] EXCEPT !.step = "check", !.try = t, !.answer = ""]
  <2>1. r \in SndRecord
    <3>0. snd[s].try \in Nat
      BY <1>0 DEF SndRecord
    <3>1. t \in Nat
      BY <3>0
    <3> HIDE DEF t
    <3>2. QED
      BY <1>0, <3>1 DEF SndRecord
  <2>2. /\ r.step = "check" /\ r.try = snd[s].try + 1 /\ r.ran = snd[s].ran /\ r.done = snd[s].done
        /\ r.ok = snd[s].ok /\ r.action = snd[s].action
    BY <1>0 DEF SndRecord
  <2>3. snd[s].try \in Nat /\ snd[s].ran \in Nat
    BY <1>0 DEF SndRecord
  <2> HIDE DEF r
  <2>5. SndSound(r)
    <3>1. r.ran <= r.try
      BY <1>0, <2>2, <2>3 DEF SndSound
    <3>2. ~r.ok
      BY <2>2
    <3>3. r.try \in Nat /\ r.ran \in Nat
      BY <2>2, <2>3
    <3>4. QED
      BY <2>2, <3>1, <3>2, <3>3 DEF SndSound
  <2>6. SndStep(s, r)
    BY <1>1 DEF r
  <2>7. QED
    BY <2>1, <2>5, <2>6, SendMoves
<1>2. CASE SndReturn(s, FALSE)
  <2> DEFINE r == [snd[s] EXCEPT !.step = "", !.ok = FALSE]
  <2>1. r \in SndRecord /\ SndSound(r)
    <3>1. snd[s].try \in Nat /\ snd[s].ran \in Nat /\ snd[s].done \in Nat
      BY <1>0 DEF SndRecord
    <3>2. /\ r \in SndRecord /\ r.step = "" /\ ~r.ok /\ r.try = snd[s].try /\ r.ran = snd[s].ran
      BY <1>0 DEF SndRecord
    <3>3. QED
      BY <1>0, <3>1, <3>2 DEF SndSound
  <2> HIDE DEF r
  <2>2. SndStep(s, r)
    BY <1>2 DEF r, SndReturn
  <2>3. QED
    BY <2>1, <2>2, SendMoves
<1>3. QED
  BY <1>1, <1>2 DEF SendWithRetry

(* An answer counts one run of the task at most, and 200 stands for a task *)
(* that is done, except for a status request.                              *)
LEMMA RoutedAnswer ==
    ASSUME NEW action \in {"status", "delegate_task", "async", "other"}, NEW a \in RouteA2A(action)
    PROVE  /\ a \in [code : {"", "200", "202", "500", "failed"}, ran : 0..1, done : 0..1]
           /\ action # "status" /\ a.code = "200" => a.done = 1
<1>1. /\ RouteA2A("delegate_task") = HandleA2AMessage /\ RouteA2A("status") = HandleA2AStatus
      /\ RouteA2A("async") = {[code |-> "202", ran |-> 1, done |-> 0]}
      /\ RouteA2A("other") = {[code |-> "500", ran |-> 0, done |-> 0]}
  BY DEF RouteA2A
<1>2. RouteA2A(action) \subseteq [code : {"", "200", "202", "500", "failed"}, ran : 0..1, done : 0..1]
  <2>1. HandleA2AMessage \subseteq [code : {"", "200", "202", "500", "failed"}, ran : 0..1, done : 0..1]
    BY DEF HandleA2AMessage
  <2>2. HandleA2AStatus \subseteq [code : {"", "200", "202", "500", "failed"}, ran : 0..1, done : 0..1]
    BY DEF HandleA2AStatus
  <2>3. {[code |-> "202", ran |-> 1, done |-> 0]} \subseteq
           [code : {"", "200", "202", "500", "failed"}, ran : 0..1, done : 0..1]
    OBVIOUS
  <2>4. {[code |-> "500", ran |-> 0, done |-> 0]} \subseteq
           [code : {"", "200", "202", "500", "failed"}, ran : 0..1, done : 0..1]
    OBVIOUS
  <2>5. QED
    BY <1>1, <2>1, <2>2, <2>3, <2>4, Zenon
<1>3. action # "status" => \A x \in RouteA2A(action) : x.code = "200" => x.done = 1
  BY <1>1 DEF HandleA2AMessage
<1>4. QED
  BY <1>2, <1>3, Zenon

(* The node that handles a message counts its run and its end.             *)
LEMMA ServeSound ==
    ASSUME SendsSound, NEW s \in Senders, ServeA2A(s)
    PROVE  SendsSound'
<1>0. snd[s] \in SndRecord /\ SndSound(snd[s]) /\ snd[s].step = "serve"
  BY DEF SendsSound, ServeA2A
<1>1. PICK a \in RouteA2A(snd[s].action) :
         SndStep(s, [snd[s] EXCEPT !.step = "answer", !.answer = a.code, !.ran = @ + a.ran, !.done = @ + a.done])
  BY DEF ServeA2A
<1>a. /\ a \in [code : {"", "200", "202", "500", "failed"}, ran : 0..1, done : 0..1]
      /\ snd[s].action # "status" /\ a.code = "200" => a.done = 1
  <2>1. snd[s].action \in {"status", "delegate_task", "async", "other"}
    BY <1>0 DEF SndRecord
  <2>2. QED
    BY <2>1, RoutedAnswer
<1>2. /\ a.code \in {"", "200", "202", "500", "failed"} /\ a.ran \in 0..1 /\ a.done \in 0..1
      /\ a.code = "200" /\ snd[s].action # "status" => a.done = 1
  BY <1>a
<1>3. snd[s].ran \in Nat /\ snd[s].done \in Nat /\ snd[s].try \in Nat
  BY <1>0 DEF SndRecord
<1> DEFINE ran == snd[s].ran + a.ran
           done == snd[s].done + a.done
           r == [snd[s] EXCEPT !.step = "answer", !.answer = a.code, !.ran = ran, !.done = done]
<1>4. ran \in Nat /\ done \in Nat /\ ran <= snd[s].ran + 1 /\ done >= a.done /\ done >= snd[s].done
  <2>1. \A m, n \in Nat, x, y \in 0..1 :
           m + x \in Nat /\ n + y \in Nat /\ m + x <= m + 1 /\ n + y >= y /\ n + y >= n
    OBVIOUS
  <2>2. QED
    BY <1>2, <1>3, <2>1
<1> HIDE DEF ran, done
<1>5. /\ r \in SndRecord /\ r.step = "answer" /\ r.answer = a.code /\ r.ran = ran /\ r.done = done
      /\ r.try = snd[s].try /\ r.ok = snd[s].ok /\ r.action = snd[s].action
  BY <1>0, <1>2, <1>4 DEF SndRecord
<1> HIDE DEF r
<1>6. SndSound(r)
  <2>1. r.ran <= r.try + 1
    <3>1. snd[s].ran <= snd[s].try
      BY <1>0 DEF SndSound
    <3>2. QED
      BY <3>1, <1>3, <1>4, <1>5
  <2>2. r.action # "status" /\ (r.answer = "200" \/ r.ok) => r.done > 0
    <3>1. r.action # "status" /\ r.answer = "200" => r.done > 0
      BY <1>2, <1>4, <1>5
    <3>2. r.action # "status" /\ r.ok => r.done > 0
      BY <1>0, <1>3, <1>4, <1>5 DEF SndSound
    <3>3. QED
      BY <3>1, <3>2
  <2>3. QED
    BY <1>0, <1>5, <2>1, <2>2 DEF SndSound
<1>7. SndStep(s, r)
  BY <1>1 DEF r, ran, done
<1>8. QED
  BY <1>5, <1>6, <1>7, SendMoves

(* A call that begins has run nothing yet.                                 *)
Begun ==
    {r \in SndRecord : r.ran = 0 /\ ~r.ok /\ r.step \in {"", "check", "stream"}
                        /\ (r.step = "stream" => r.action = "status")}

(* A message that is begun has neither run nor been answered.              *)
LEMMA BeginSound ==
    ASSUME SendsSound, NEW s \in Senders,
           \/ DelegateViaA2A(s) \/ DelegateWork(s) \/ AskQuestion(s) \/ GetStatus(s)
           \/ DiscoveryScan(s) \/ SendOther(s) \/ StreamA2A(s)
    PROVE  SendsSound' /\ UNCHANGED breaker
<1>1. /\ Unsent \in Begun
      /\ [Unsent EXCEPT !.step = "check"] \in Begun
      /\ [Unsent EXCEPT !.step = "check", !.own = TRUE] \in Begun
      /\ [Unsent EXCEPT !.step = "stream"] \in Begun
      /\ [Unsent EXCEPT !.step = ""] \in Begun
      /\ \A a \in {"delegate_task", "async", "other"} : [Unsent EXCEPT !.step = "check", !.action = a] \in Begun
  BY DEF Unsent, SndRecord, Begun
<1>2. \E r \in Begun : SndBegin(s, r)
  BY <1>1, Zenon DEF DelegateViaA2A, DelegateWork, AskQuestion, GetStatus, DiscoveryScan, SendOther,
                     StreamA2A, AdapterExecute
<1>3. PICK r \in Begun : SndBegin(s, r)
  BY <1>2
<1>4. /\ r \in SndRecord /\ r.ran = 0 /\ ~r.ok /\ r.step \in {"", "check", "stream"}
      /\ r.step = "stream" => r.action = "status"
  BY DEF Begun
<1>5. r.try \in Nat /\ r.ran = 0
  BY <1>4 DEF SndRecord
<1>6. SndSound(r)
  <2>1. r.ran <= r.try
    BY <1>5
  <2>2. r.ran <= r.try + 1
    BY <1>5
  <2>3. QED
    BY <1>4, <2>1, <2>2, Zenon DEF SndSound
<1>7. SndStep(s, r) /\ UNCHANGED breaker
  BY <1>3, Zenon DEF SndBegin
<1>8. SendsSound'
  BY <1>4, <1>6, <1>7, SendMoves
<1>9. QED
  BY <1>7, <1>8

(* The breaker counts at least what it has lost, up to the half-open count.*)
BreakerSound ==
    /\ failures \in Nat /\ lost \in 0..Threshold
    /\ failures >= lost \/ failures >= Threshold - 1
    /\ CircuitHolds

A2aIInv == SendsSound /\ BreakerSound

(* markFailure counts every failure: the circuit opens at the threshold.   *)
LEMMA FailureSound ==
    ASSUME BreakerSound, NEW s \in Senders, MarkFailure(s)
    PROVE  BreakerSound'
<1>1. failures \in Nat /\ lost \in 0..Threshold /\ (failures >= lost \/ failures >= Threshold - 1)
      /\ Threshold \in Nat \ {0}
  BY A2aAssumption DEF BreakerSound
<1>2. CASE snd[s].own
  <2>1. failures' = failures /\ lost' = lost /\ (recent' => recent)
    BY <1>2, Zenon DEF MarkFailure
  <2>2. QED
    BY <2>1 DEF BreakerSound, CircuitHolds
<1>3. CASE ~snd[s].own
  <2>1. failures' = failures + 1 /\ lost' = IF lost >= Threshold THEN lost ELSE lost + 1
    BY <1>3, Zenon DEF MarkFailure
  <2>2. /\ failures' \in Nat /\ lost' \in 0..Threshold
        /\ failures' >= lost' \/ failures' >= Threshold - 1
        /\ lost' >= Threshold => failures' >= Threshold
    BY <1>1, <2>1
  <2>3. QED
    BY <2>2 DEF BreakerSound, CircuitHolds
<1>4. QED
  BY <1>2, <1>3

(* markSuccess closes the circuit and starts the count again.              *)
LEMMA SuccessSound ==
    ASSUME BreakerSound, NEW s \in Senders, MarkSuccess(s)
    PROVE  BreakerSound'
<1>1. ((failures' = failures /\ lost' = lost) \/ (failures' = 0 /\ lost' = 0)) /\ recent' = recent
  BY DEF MarkSuccess
<1>2. Threshold \in Nat \ {0}
  BY A2aAssumption
<1>3. QED
  BY <1>1, <1>2 DEF BreakerSound, CircuitHolds

(* What does not touch the breaker keeps it sound.                         *)
LEMMA BreakerUnchanged ==
    ASSUME BreakerSound, UNCHANGED breaker
    PROVE  BreakerSound'
BY DEF BreakerSound, CircuitHolds, breaker

(* A call that returns a result had its task done.                         *)
LEMMA ReturnSound ==
    ASSUME SendsSound, NEW s \in Senders, NEW ok \in BOOLEAN, SndReturn(s, ok),
           snd[s].action # "status" /\ ok => snd[s].done > 0
    PROVE  SendsSound'
<1>0. snd[s] \in SndRecord /\ SndSound(snd[s])
  BY DEF SendsSound
<1> DEFINE r == [snd[s] EXCEPT !.step = "", !.ok = ok]
<1>1. /\ r \in SndRecord /\ r.step = "" /\ r.ok = ok /\ r.try = snd[s].try /\ r.ran = snd[s].ran
      /\ r.done = snd[s].done /\ r.action = snd[s].action
  BY <1>0 DEF SndRecord
<1>2. SndStep(s, r)
  BY DEF SndReturn
<1> HIDE DEF r
<1>3. SndSound(r)
  BY <1>0, <1>1 DEF SndSound
<1>4. QED
  BY <1>1, <1>2, <1>3, SendMoves

(* A step of the call that changes nothing but its place.                  *)
LEMMA StepSound ==
    ASSUME SendsSound, NEW s \in Senders, NEW to \in {"wire", "serve"}, snd[s].step \in {"check", "wire"},
           SndStep(s, [snd[s] EXCEPT !.step = to])
    PROVE  SendsSound'
<1>0. snd[s] \in SndRecord /\ SndSound(snd[s])
  BY DEF SendsSound
<1> DEFINE r == [snd[s] EXCEPT !.step = to]
<1>1. /\ r \in SndRecord /\ r.step = to /\ r.ok = snd[s].ok /\ r.try = snd[s].try /\ r.ran = snd[s].ran
      /\ r.done = snd[s].done /\ r.action = snd[s].action
  BY <1>0 DEF SndRecord
<1>2. SndStep(s, r)
  OBVIOUS
<1> HIDE DEF r
<1>3. SndSound(r)
  BY <1>0, <1>1 DEF SndSound
<1>4. QED
  BY <1>1, <1>2, <1>3, SendMoves

(* checkCircuit turns the call away, or lets it pass to the wire.          *)
LEMMA CheckCircuitSound ==
    ASSUME A2aIInv, NEW s \in Senders, CheckCircuit(s)
    PROVE  A2aIInv'
<1>0. SendsSound /\ BreakerSound /\ snd[s].step = "check"
  BY DEF A2aIInv, CheckCircuit
<1>1. ~snd[s].ok
  BY <1>0 DEF SendsSound, SndSound
<1>2. recent' = recent /\ lost' = lost
  BY DEF CheckCircuit
<1>3. CASE failures >= Threshold /\ recent /\ ~snd[s].own
  <2>1. SendWithRetry(s) /\ failures' = failures
    BY <1>3, Zenon DEF CheckCircuit
  <2>2. SendsSound'
    BY <1>0, <1>1, <2>1, RetrySound
  <2>3. BreakerSound'
    BY <1>0, <1>2, <2>1, BreakerUnchanged DEF breaker
  <2>4. QED
    BY <2>2, <2>3 DEF A2aIInv
<1>4. CASE ~(failures >= Threshold /\ recent /\ ~snd[s].own)
  <2>1. /\ failures' = IF failures >= Threshold /\ ~snd[s].own THEN HalfOpen(failures) ELSE failures
        /\ SndStep(s, [snd[s] EXCEPT !.step = "wire"])
    BY <1>4, Zenon DEF CheckCircuit
  <2>2. SendsSound'
    BY <1>0, <2>1, StepSound
  <2>3. failures' = failures \/ (~recent /\ failures' = Threshold - 1)
    BY <1>4, <2>1 DEF HalfOpen
  <2>4. Threshold \in Nat \ {0}
    BY A2aAssumption
  <2>5. BreakerSound'
    BY <1>0, <1>2, <2>3, <2>4 DEF BreakerSound, CircuitHolds
  <2>6. QED
    BY <2>2, <2>5 DEF A2aIInv
<1>5. QED
  BY <1>3, <1>4

(* A message that does not arrive changes nothing but its sender's place.  *)
LEMMA HandleMessageSound ==
    ASSUME A2aIInv, NEW s \in Senders, HandleMessage(s)
    PROVE  A2aIInv'
<1>0. SendsSound /\ BreakerSound /\ snd[s].step = "wire"
  BY DEF A2aIInv, HandleMessage
<1>1. ~snd[s].ok
  BY <1>0 DEF SendsSound, SndSound
<1>2. CASE MarkFailure(s) /\ SendWithRetry(s)
  BY <1>0, <1>1, <1>2, RetrySound, FailureSound DEF A2aIInv
<1>3. CASE UNCHANGED breaker /\ SndReturn(s, FALSE)
  BY <1>0, <1>3, ReturnSound, BreakerUnchanged DEF A2aIInv
<1>4. CASE UNCHANGED breaker /\ SendWithRetry(s)
  BY <1>0, <1>1, <1>4, RetrySound, BreakerUnchanged DEF A2aIInv
<1>5. CASE UNCHANGED breaker /\ SndStep(s, [snd[s] EXCEPT !.step = "serve"])
  BY <1>0, <1>5, StepSound, BreakerUnchanged DEF A2aIInv
<1>6. QED
  BY <1>2, <1>3, <1>4, <1>5, Zenon DEF HandleMessage

(* The end of an attempt reports to the breaker what it returns.           *)
LEMMA DoSendSound ==
    ASSUME A2aIInv, NEW s \in Senders, DoSend(s)
    PROVE  A2aIInv'
<1>0. SendsSound /\ BreakerSound /\ snd[s].step = "answer"
  BY DEF A2aIInv, DoSend
<1>1. ~snd[s].ok
  BY <1>0 DEF SendsSound, SndSound
<1>2. CASE MarkFailure(s) /\ SendWithRetry(s)
  BY <1>0, <1>1, <1>2, RetrySound, FailureSound DEF A2aIInv
<1>3. CASE MarkSuccess(s) /\ SendWithRetry(s)
  BY <1>0, <1>1, <1>3, RetrySound, SuccessSound DEF A2aIInv
<1>4. CASE UNCHANGED breaker /\ SendWithRetry(s)
  BY <1>0, <1>1, <1>4, RetrySound, BreakerUnchanged DEF A2aIInv
<1>5. CASE Accepted(snd[s].answer) /\ MarkSuccess(s) /\ SndReturn(s, snd[s].answer # "failed")
  <2> DEFINE ok == snd[s].answer # "failed"
  <2>1. snd[s].action # "status" /\ ok => snd[s].done > 0
    BY <1>0, <1>5 DEF Accepted, SendsSound, SndSound
  <2>2. SndReturn(s, ok) /\ ok \in BOOLEAN
    BY <1>5
  <2> HIDE DEF ok
  <2>3. SendsSound'
    BY <1>0, <2>1, <2>2, ReturnSound
  <2>4. BreakerSound'
    BY <1>0, <1>5, SuccessSound
  <2>5. QED
    BY <2>3, <2>4 DEF A2aIInv
<1>6. QED
  BY <1>2, <1>3, <1>4, <1>5, Zenon DEF DoSend

(* A streamed token or the end of the stream.                              *)
LEMMA StreamTokenSound ==
    ASSUME A2aIInv, NEW s \in Senders, StreamToken(s)
    PROVE  A2aIInv'
<1>0. SendsSound /\ BreakerSound /\ snd[s].step = "stream" /\ UNCHANGED breaker
  BY DEF A2aIInv, StreamToken
<1>1. snd[s] \in SndRecord /\ SndSound(snd[s]) /\ snd[s].action = "status"
  BY <1>0 DEF SendsSound, SndSound
<1>2. snd[s].tokens \in Nat
  BY <1>1 DEF SndRecord
<1>3. ASSUME NEW n \in Nat, SndStep(s, [snd[s] EXCEPT !.tokens = n])
      PROVE  SendsSound'
  <2> DEFINE r == [snd[s] EXCEPT !.tokens = n]
  <2>1. /\ r \in SndRecord /\ r.step = "stream" /\ r.ok = snd[s].ok /\ r.try = snd[s].try
        /\ r.ran = snd[s].ran /\ r.done = snd[s].done /\ r.action = "status"
    BY <1>0, <1>1 DEF SndRecord
  <2>2. SndStep(s, r)
    BY <1>3
  <2> HIDE DEF r
  <2>3. SndSound(r)
    BY <1>0, <1>1, <2>1 DEF SndSound
  <2>4. QED
    BY <1>0, <2>1, <2>2, <2>3, SendMoves
<1>4. SendsSound'
  <2>1. CASE SndStep(s, [snd[s] EXCEPT !.tokens = @ + 1])
    <3>1. snd[s].tokens + 1 \in Nat
      BY <1>2
    <3>2. QED
      BY <2>1, <3>1, <1>3
  <2>2. CASE snd[s].tokens > 0 /\ SndStep(s, [snd[s] EXCEPT !.tokens = @ - 1])
    <3>1. snd[s].tokens - 1 \in Nat
      BY <1>2, <2>2
    <3>2. QED
      BY <2>2, <3>1, <1>3
  <2>3. CASE SndReturn(s, TRUE)
    BY <1>0, <1>1, <2>3, ReturnSound
  <2>4. QED
    BY <2>1, <2>2, <2>3, Zenon DEF StreamToken
<1>5. QED
  BY <1>0, <1>4, BreakerUnchanged DEF A2aIInv

(* The senders and the breaker are sound in every reachable state.         *)
LEMMA A2aInductive == A2aSpec => []A2aIInv
<1>1. A2aInit => A2aIInv
  <2>1. SUFFICES ASSUME A2aInit PROVE A2aIInv
    OBVIOUS
  <2>2. snd = [s \in Senders |-> Unsent] /\ failures = 0 /\ lost = 0 /\ recent = FALSE
    BY <2>1, Zenon DEF A2aInit
  <2>3. Unsent \in SndRecord /\ SndSound(Unsent)
    BY DEF Unsent, SndRecord, SndSound
  <2>4. SendsSound
    BY <2>2, <2>3 DEF SendsSound
  <2>5. Threshold \in Nat \ {0}
    BY A2aAssumption
  <2>6. BreakerSound
    BY <2>2, <2>5 DEF BreakerSound, CircuitHolds
  <2>7. QED
    BY <2>4, <2>6 DEF A2aIInv
<1>2. A2aIInv /\ [A2aNext]_a2aVars => A2aIInv'
  <2> SUFFICES ASSUME A2aIInv, [A2aNext]_a2aVars PROVE A2aIInv'
    OBVIOUS
  <2>0. SendsSound /\ BreakerSound
    BY DEF A2aIInv
  <2>1. CASE SetupA2A \/ ShutdownA2A \/ RegisterA2AAdapter \/ Unregister \/ UNCHANGED a2aVars
    <3>1. snd' = snd /\ UNCHANGED breaker
      BY <2>1, Zenon DEF SetupA2A, ShutdownA2A, RegisterA2AAdapter, Unregister, a2aVars, breaker
    <3>2. SendsSound'
      BY <2>0, <3>1 DEF SendsSound
    <3>3. QED
      BY <2>0, <3>1, <3>2, BreakerUnchanged DEF A2aIInv
  <2>2. CASE Cool
    <3>1. snd' = snd /\ failures' = failures /\ lost' = lost /\ recent' = FALSE
      BY <2>2, Zenon DEF Cool
    <3>2. SendsSound'
      BY <2>0, <3>1 DEF SendsSound
    <3>3. BreakerSound'
      BY <2>0, <3>1 DEF BreakerSound, CircuitHolds
    <3>4. QED
      BY <3>2, <3>3 DEF A2aIInv
  <2>3. ASSUME NEW s \in Senders,
               \/ DelegateViaA2A(s) \/ DelegateWork(s) \/ AskQuestion(s) \/ GetStatus(s)
               \/ DiscoveryScan(s) \/ SendOther(s) \/ StreamA2A(s)
        PROVE  A2aIInv'
    <3>1. SendsSound' /\ UNCHANGED breaker
      BY <2>0, <2>3, BeginSound
    <3>2. QED
      BY <2>0, <3>1, BreakerUnchanged DEF A2aIInv
  <2>4. ASSUME NEW s \in Senders, ServeA2A(s)
        PROVE  A2aIInv'
    <3>1. SendsSound'
      BY <2>0, <2>4, ServeSound
    <3>2. UNCHANGED breaker
      BY <2>4, Zenon DEF ServeA2A
    <3>3. QED
      BY <2>0, <3>1, <3>2, BreakerUnchanged DEF A2aIInv
  <2>5. ASSUME NEW s \in Senders, StreamToken(s) \/ CheckCircuit(s) \/ HandleMessage(s) \/ DoSend(s)
        PROVE  A2aIInv'
    BY <2>5, StreamTokenSound, CheckCircuitSound, HandleMessageSound, DoSendSound
  <2>6. QED
    BY <2>1, <2>2, <2>3, <2>4, <2>5, Zenon DEF A2aNext, SendStep
<1>3. QED
  BY <1>1, <1>2, PTL DEF A2aSpec

(* While an endpoint has failed Threshold times in a row and recently its  *)
(* circuit is open, for any number of senders: no order of half-open       *)
(* probes and late markFailure calls closes it (a2a.go checkCircuit,       *)
(* markFailure, markSuccess).                                              *)
THEOREM CircuitsHold == A2aSpec => []CircuitHolds
<1>1. A2aIInv => CircuitHolds
  BY DEF A2aIInv, BreakerSound
<1>2. QED
  BY <1>1, A2aInductive, PTL

(* A delegation that returns a result was run to its end by the agent, and *)
(* it ran once per attempt at the most, for any number of retries and      *)
(* whatever is lost on the wire (a2a.go SendWithRetry).                    *)
THEOREM SentAreHandled == A2aSpec => []SentIsHandled
<1>1. A2aIInv => SentIsHandled
  BY DEF A2aIInv, SendsSound, SndSound, SentIsHandled
<1>2. QED
  BY <1>1, A2aInductive, PTL

-----------------------------------------------------------------------------
(* The ADK adapter.                                                        *)

InvRecord == [step : {"idle", "execute"}, with : BOOLEAN, before : Nat, sees : SUBSET (Invokers \cup {0})]

(* The lock's holder is the only invoker with granted tools; they stand    *)
(* behind the agent's own.                                                 *)
HolderSound ==
    \A i \in Invokers :
        inv[i].with => adkMu = i /\ inv[i].step = "execute" /\ inv[i].before = 1 /\ inv[i].sees = {0, i}

Granted == adkMu # 0 /\ inv[adkMu].with
ToolsSound == tools = IF Granted THEN <<0, adkMu>> ELSE <<0>>

AdkIInv ==
    /\ inv \in [Invokers -> InvRecord]
    /\ adkMu \in Invokers \cup {0}
    /\ adkMu # 0 => inv[adkMu].step = "execute" /\ (inv[adkMu].with \/ inv[adkMu].sees = {0})
    /\ HolderSound
    /\ ToolsSound

(* Granting one tool to an agent that has its own, and taking it back.     *)
LEMMA GrantedTools ==
    ASSUME NEW i \in Invokers
    PROVE  /\ Append(<<0>>, i) = <<0, i>> /\ SubSeq(<<0, i>>, 1, 1) = <<0>>
           /\ Len(<<0>>) = 1 /\ Len(<<0, i>>) = 2 /\ ToSet(<<0>>) = {0} /\ ToSet(<<0, i>>) = {0, i}
<1> DEFINE S == Invokers \cup {0}
           one == <<0>>
           two == <<0, i>>
           granted == Append(one, i)
           restored == SubSeq(two, 1, 1)
<1>1. /\ one \in Seq(S) /\ Len(one) = 1 /\ one[1] = 0
      /\ two \in Seq(S) /\ Len(two) = 2 /\ two[1] = 0 /\ two[2] = i
  OBVIOUS
<1>2. ToSet(one) = {0} /\ ToSet(two) = {0, i}
  BY DEF ToSet
<1> HIDE DEF S, one, two
<1>3. granted \in Seq(S) /\ Len(granted) = 2 /\ granted[1] = 0 /\ granted[2] = i
  <2>1. one \in Seq(S) /\ i \in S
    BY <1>1 DEF S
  <2>2. /\ granted \in Seq(S) /\ Len(granted) = Len(one) + 1
        /\ \A k \in 1..Len(one) : granted[k] = one[k]
        /\ granted[Len(one) + 1] = i
    BY <2>1, AppendProperties
  <2>3. QED
    BY <1>1, <2>2
<1>4. restored \in Seq(S) /\ Len(restored) = 1 /\ restored[1] = 0
  <2>1. \A k \in 1..1 : two[k] \in S
    BY <1>1 DEF S
  <2>2. /\ restored \in Seq(S) /\ Len(restored) = 1
        /\ \A k \in 1..1 : restored[k] = two[1 + k - 1]
    BY <2>1, SubSeqProperties
  <2>3. QED
    BY <1>1, <2>2
<1> HIDE DEF granted, restored
<1>5. (\A k \in 1..Len(granted) : granted[k] = two[k]) /\ (\A k \in 1..Len(restored) : restored[k] = one[k])
  BY <1>1, <1>3, <1>4
<1>6. granted = two /\ restored = one
  BY <1>1, <1>3, <1>4, <1>5, SeqEqual
<1>7. QED
  BY <1>1, <1>2, <1>6 DEF one, two, granted, restored

(* A step of one invoker leaves the records of the others alone.           *)
LEMMA AdkMoves ==
    ASSUME AdkIInv, NEW i \in Invokers, NEW r \in InvRecord, inv' = [inv EXCEPT ![i] = r]
    PROVE  inv' \in [Invokers -> InvRecord] /\ inv'[i] = r /\ \A j \in Invokers \ {i} : inv'[j] = inv[j]
BY DEF AdkIInv

(* A run without granted tools grants nothing.                             *)
LEMMA AdkRunSound ==
    ASSUME AdkIInv, NEW i \in Invokers, AdkRun(i)
    PROVE  AdkIInv'
<1> DEFINE r == [NoInv EXCEPT !.step = "execute", !.sees = ToSet(tools)]
<1>0. inv[i] = NoInv /\ inv' = [inv EXCEPT ![i] = r] /\ tools' = tools /\ adkMu' = adkMu
  BY Zenon DEF AdkRun
<1>1. ToSet(tools) \subseteq Invokers \cup {0}
  <2>1. CASE ~Granted
    <3>1. tools = <<0>>
      BY <2>1 DEF AdkIInv, ToolsSound
    <3>2. QED
      BY <3>1, GrantedTools
  <2>2. CASE Granted
    <3>1. adkMu \in Invokers /\ tools = <<0, adkMu>>
      BY <2>2 DEF AdkIInv, ToolsSound, Granted
    <3>2. ToSet(<<0, adkMu>>) = {0, adkMu}
      BY <3>1, GrantedTools
    <3>3. QED
      BY <3>1, <3>2
  <2>3. QED
    BY <2>1, <2>2
<1>2. r \in InvRecord /\ ~r.with
  BY <1>1 DEF NoInv, InvRecord
<1> HIDE DEF r
<1>3. inv' \in [Invokers -> InvRecord] /\ inv'[i] = r /\ \A j \in Invokers \ {i} : inv'[j] = inv[j]
  BY <1>0, <1>2, AdkMoves
<1>4. adkMu # i
  BY <1>0, AdkAssumption DEF NoInv, AdkIInv
<1>5. HolderSound'
  BY <1>0, <1>2, <1>3 DEF AdkIInv, HolderSound
<1>6. adkMu' \in Invokers \cup {0} /\ (adkMu' # 0 => inv'[adkMu'] = inv[adkMu])
  BY <1>0, <1>3, <1>4 DEF AdkIInv
<1>7. ToolsSound'
  BY <1>0, <1>6 DEF AdkIInv, ToolsSound, Granted
<1>8. QED
  BY <1>0, <1>3, <1>5, <1>6, <1>7 DEF AdkIInv

(* runWithTools takes the lock before it appends the granted tools.        *)
LEMMA RunWithToolsSound ==
    ASSUME AdkIInv, NEW i \in Invokers, RunWithTools(i)
    PROVE  AdkIInv'
<1>0. inv[i] = NoInv /\ adkMu = 0
  BY DEF RunWithTools
<1>1. CASE UNCHANGED <<tools, adkMu, inv, history>>
  BY <1>1 DEF AdkIInv, HolderSound, ToolsSound, Granted
<1>2. ASSUME NEW grant \in BOOLEAN,
             adkMu' = i, tools' = IF grant THEN Append(tools, i) ELSE tools,
             inv' = [inv EXCEPT ![i] = [step |-> "execute", with |-> grant, before |-> Len(tools),
                                        sees |-> ToSet(tools')]]
      PROVE  AdkIInv'
  <2> DEFINE r == [step |-> "execute", with |-> grant, before |-> Len(tools), sees |-> ToSet(tools')]
  <2>1. tools = <<0>>
    BY <1>0 DEF AdkIInv, ToolsSound, Granted
  <2>2. Len(tools) = 1 /\ tools' = IF grant THEN <<0, i>> ELSE <<0>>
    BY <1>2, <2>1, GrantedTools
  <2>3. ToSet(tools') = IF grant THEN {0, i} ELSE {0}
    BY <2>2, GrantedTools
  <2>4. /\ r \in InvRecord /\ r.with = grant /\ r.step = "execute" /\ r.before = 1
        /\ r.sees = IF grant THEN {0, i} ELSE {0}
    BY <2>2, <2>3 DEF InvRecord
  <2>5. inv' = [inv EXCEPT ![i] = r]
    BY <1>2
  <2> HIDE DEF r
  <2>6. inv' \in [Invokers -> InvRecord] /\ inv'[i] = r /\ \A j \in Invokers \ {i} : inv'[j] = inv[j]
    BY <2>4, <2>5, AdkMoves
  <2>7. \A j \in Invokers : ~inv[j].with
    BY <1>0, AdkAssumption DEF AdkIInv, HolderSound
  <2>8. HolderSound'
    BY <1>2, <2>4, <2>6, <2>7 DEF HolderSound
  <2>9. adkMu' \in Invokers /\ inv'[adkMu'] = r /\ adkMu' # 0
    BY <1>2, <2>6, AdkAssumption
  <2>10. ToolsSound'
    BY <1>2, <2>2, <2>4, <2>9 DEF ToolsSound, Granted
  <2>11. QED
    BY <2>4, <2>6, <2>8, <2>9, <2>10 DEF AdkIInv
<1>3. QED
  BY <1>1, <1>2, Zenon DEF RunWithTools

(* The deferred restore takes the granted tools back before the unlock.    *)
LEMMA ExecutedSound ==
    ASSUME AdkIInv, NEW i \in Invokers, Executed(i)
    PROVE  AdkIInv'
<1>0. inv' = [inv EXCEPT ![i] = NoInv]
  BY Zenon DEF Executed
<1>1. NoInv \in InvRecord /\ ~NoInv.with
  BY DEF NoInv, InvRecord
<1>2. inv' \in [Invokers -> InvRecord] /\ inv'[i] = NoInv /\ \A j \in Invokers \ {i} : inv'[j] = inv[j]
  BY <1>0, <1>1, AdkMoves
<1>3. CASE inv[i].with
  <2>1. adkMu = i /\ i # 0 /\ inv[i].before = 1 /\ tools = <<0, i>>
    BY <1>3, AdkAssumption DEF AdkIInv, HolderSound, ToolsSound, Granted
  <2>2. PICK ok \in BOOLEAN : tools' = Restore(i, ok)
    BY <1>3, Zenon DEF Executed
  <2>3. tools' = <<0>>
    BY <2>1, <2>2, GrantedTools DEF Restore
  <2>4. HolderSound'
    BY <1>1, <1>2, <2>1 DEF AdkIInv, HolderSound
  <2>5. adkMu' = 0
    BY <2>1, Zenon DEF Executed
  <2>6. ToolsSound'
    BY <2>3, <2>5 DEF ToolsSound, Granted
  <2>7. QED
    BY <1>2, <2>4, <2>5, <2>6 DEF AdkIInv
<1>4. CASE ~inv[i].with
  <2>1. tools' = tools /\ adkMu' = IF adkMu = i THEN 0 ELSE adkMu
    BY <1>4, Zenon DEF Executed
  <2>2. \A j \in Invokers : inv'[j].with => j # i /\ inv'[j] = inv[j]
    BY <1>1, <1>2
  <2>3. HolderSound'
    BY <2>1, <2>2 DEF AdkIInv, HolderSound
  <2>4. adkMu' \in Invokers \cup {0} /\ (adkMu' # 0 => adkMu' = adkMu /\ inv'[adkMu'] = inv[adkMu])
    BY <1>2, <2>1 DEF AdkIInv
  <2>5. Granted' <=> Granted
    BY <1>4, <2>1, <2>4 DEF Granted
  <2>6. ToolsSound'
    BY <2>1, <2>4, <2>5 DEF AdkIInv, ToolsSound, Granted
  <2>7. QED
    BY <1>2, <2>3, <2>4, <2>6 DEF AdkIInv
<1>5. QED
  BY <1>3, <1>4

(* A run with granted tools sees the agent's own tools and its own grants  *)
(* only, one with an empty list the agent's own, and nothing is left       *)
(* behind when nobody holds a grant, for any number of invokers            *)
(* (adapter.go RunWithTools).                                              *)
THEOREM GrantsAreScoped == AdkSpec => []GrantsScoped
<1>1. AdkInit => AdkIInv
  <2> SUFFICES ASSUME AdkInit PROVE AdkIInv
    OBVIOUS
  <2>1. tools = <<0>> /\ adkMu = 0 /\ inv = [i \in Invokers |-> NoInv]
    BY Zenon DEF AdkInit
  <2>2. NoInv \in InvRecord /\ ~NoInv.with
    BY DEF NoInv, InvRecord
  <2>3. QED
    BY <2>1, <2>2 DEF AdkIInv, HolderSound, ToolsSound, Granted
<1>2. AdkIInv /\ [AdkNext]_adkVars => AdkIInv'
  <2> SUFFICES ASSUME AdkIInv, [AdkNext]_adkVars PROVE AdkIInv'
    OBVIOUS
  <2>1. ASSUME NEW i \in Invokers, AdkRun(i) \/ RunWithTools(i) \/ Executed(i)
        PROVE  AdkIInv'
    BY <2>1, AdkRunSound, RunWithToolsSound, ExecutedSound
  <2>2. ASSUME \/ \E i \in Invokers : StateRead(i)
               \/ SetSession \/ ClearHistory \/ SessionExecute \/ StateSet \/ Register \/ UNCHANGED adkVars
        PROVE  AdkIInv'
    <3>1. tools' = tools /\ adkMu' = adkMu /\ inv' = inv
      BY <2>2, Zenon DEF StateRead, SetSession, ClearHistory, SessionExecute, StateSet, Register, adkVars
    <3>2. QED
      BY <3>1 DEF AdkIInv, HolderSound, ToolsSound, Granted
  <2>3. QED
    BY <2>1, <2>2, Zenon DEF AdkNext
<1>3. AdkIInv => GrantsScoped
  BY DEF AdkIInv, HolderSound, ToolsSound, Granted, GrantsScoped
<1>4. QED
  BY <1>1, <1>2, <1>3, PTL DEF AdkSpec

-----------------------------------------------------------------------------
(* The server's shutdown.                                                  *)

(* Before the channel is closed every kickoff counts as early, afterwards  *)
(* none is added; the ones Shutdown waited for stay ended.                 *)
LifeIInv ==
    /\ kickoff \in [KickoffIds -> {"none", "running", "ended"}]
    /\ early \subseteq KickoffIds /\ \A k \in early : kickoff[k] # "none"
    /\ ~signalled => stopper = "idle"
    /\ stopper \in {"wait", "workers", "done"} => shutdown
    /\ stopper \in {"workers", "done"} /\ ~timedOut => \A k \in early : kickoff[k] = "ended"

(* A kickoff accepted after the channel was closed is not an early one.    *)
LEMMA DispatchSound ==
    ASSUME LifeIInv, NEW k \in KickoffIds, Dispatch(k)
    PROVE  LifeIInv'
<1>0. /\ kickoff[k] = "none" /\ kickoff' = [kickoff EXCEPT ![k] = "running"]
      /\ early' = IF shutdown THEN early ELSE early \cup {k}
  BY Zenon DEF Dispatch
<1>1. stopper' = stopper /\ shutdown' = shutdown /\ timedOut' = timedOut /\ signalled' = signalled
  BY Zenon DEF Dispatch
<1>2. /\ kickoff' \in [KickoffIds -> {"none", "running", "ended"}] /\ kickoff'[k] = "running"
      /\ \A j \in KickoffIds \ {k} : kickoff'[j] = kickoff[j]
  BY <1>0 DEF LifeIInv
<1>3. k \notin early
  BY <1>0 DEF LifeIInv
<1>4. early' \subseteq KickoffIds /\ \A j \in early' : kickoff'[j] # "none"
  BY <1>0, <1>2 DEF LifeIInv
<1>5. stopper' \in {"workers", "done"} /\ ~timedOut' => \A j \in early' : kickoff'[j] = "ended"
  BY <1>0, <1>1, <1>2, <1>3 DEF LifeIInv
<1>6. QED
  BY <1>1, <1>2, <1>4, <1>5, Zenon DEF LifeIInv

(* A kickoff that ends does not start again.                               *)
LEMMA KickoffEndsSound ==
    ASSUME LifeIInv, NEW k \in KickoffIds, KickoffEnds(k)
    PROVE  LifeIInv'
<1>0. kickoff' = [kickoff EXCEPT ![k] = "ended"] /\ early' = early
  BY Zenon DEF KickoffEnds
<1>1. stopper' = stopper /\ shutdown' = shutdown /\ timedOut' = timedOut /\ signalled' = signalled
  BY Zenon DEF KickoffEnds
<1>2. /\ kickoff' \in [KickoffIds -> {"none", "running", "ended"}] /\ kickoff'[k] = "ended"
      /\ \A j \in KickoffIds \ {k} : kickoff'[j] = kickoff[j]
  BY <1>0 DEF LifeIInv
<1>3. early' \subseteq KickoffIds /\ \A j \in early' : kickoff'[j] # "none"
  BY <1>0, <1>2 DEF LifeIInv
<1>4. stopper' \in {"workers", "done"} /\ ~timedOut' => \A j \in early' : kickoff'[j] = "ended"
  BY <1>0, <1>1, <1>2 DEF LifeIInv
<1>5. QED
  BY <1>1, <1>2, <1>3, <1>4, Zenon DEF LifeIInv

(* Shutdown goes on when the wait group is down to zero or has timed out.  *)
LEMMA ShutdownSound ==
    ASSUME LifeIInv, Shutdown
    PROVE  LifeIInv'
<1>0. kickoff' = kickoff /\ early' = early /\ signalled' = signalled
  BY Zenon DEF Shutdown
<1>1. CASE stopper = "rest" /\ shutdown' = TRUE /\ stopper' = "wait" /\ timedOut' = timedOut
  BY <1>0, <1>1 DEF LifeIInv
<1>2. CASE stopper = "wait" /\ KickoffsDone /\ stopper' = "workers" /\ shutdown' = shutdown /\ timedOut' = timedOut
  <2>1. \A k \in early : kickoff[k] = "ended"
    BY <1>2 DEF KickoffsDone, LifeIInv
  <2>2. QED
    BY <1>0, <1>2, <2>1 DEF LifeIInv
<1>3. CASE stopper = "wait" /\ stopper' = "workers" /\ timedOut' /\ shutdown' = shutdown
  BY <1>0, <1>3 DEF LifeIInv
<1>4. CASE stopper = "workers" /\ stopper' = "done" /\ shutdown' = shutdown /\ timedOut' = timedOut
  BY <1>0, <1>4 DEF LifeIInv
<1>5. QED
  BY <1>1, <1>2, <1>3, <1>4, Zenon DEF Shutdown

(* A Shutdown that returns without having timed out leaves no kickoff      *)
(* running that was accepted before it, for any number of kickoffs         *)
(* (server.go Shutdown).                                                   *)
THEOREM ShutdownAlwaysDrains == LifeSpec => []ShutdownDrains
<1>1. LifeInit => LifeIInv
  <2> SUFFICES ASSUME LifeInit PROVE LifeIInv
    OBVIOUS
  <2>1. kickoff = [k \in KickoffIds |-> "none"] /\ early = {} /\ stopper = "idle"
    BY Zenon DEF LifeInit
  <2>2. QED
    BY <2>1 DEF LifeIInv
<1>2. LifeIInv /\ [LifeNext]_lifeVars => LifeIInv'
  <2> SUFFICES ASSUME LifeIInv, [LifeNext]_lifeVars PROVE LifeIInv'
    OBVIOUS
  <2>1. ASSUME NEW k \in KickoffIds, Dispatch(k) \/ KickoffEnds(k)
        PROVE  LifeIInv'
    BY <2>1, DispatchSound, KickoffEndsSound
  <2>2. CASE Shutdown
    BY <2>2, ShutdownSound
  <2>3. CASE Signal
    <3>1. /\ kickoff' = kickoff /\ early' = early /\ shutdown' = shutdown /\ timedOut' = timedOut
          /\ signalled' /\ stopper' = "mesh"
      BY <2>3, Zenon DEF Signal
    <3>2. QED
      BY <3>1 DEF LifeIInv
  <2>4. CASE StopMeshes
    <3>1. /\ kickoff' = kickoff /\ early' = early /\ shutdown' = shutdown /\ timedOut' = timedOut
          /\ signalled' = signalled /\ stopper = "mesh" /\ stopper' = "rest"
      BY <2>4, Zenon DEF StopMeshes
    <3>2. QED
      BY <3>1 DEF LifeIInv
  <2>5. CASE \/ KvConfigInvalid \/ Run \/ WaiterReturns \/ ServeFails \/ MainReturns
             \/ OpsNext \/ UNCHANGED lifeVars
    <3>1. /\ kickoff' = kickoff /\ early' = early /\ shutdown' = shutdown /\ timedOut' = timedOut
          /\ signalled' = signalled /\ stopper' = stopper
      BY <2>5, Zenon DEF KvConfigInvalid, Run, WaiterReturns, ServeFails, MainReturns, OpsNext, OpsSignal,
           OpsShutdown, OpsReturns, HandleHealth, RegisterHealthCheck, SetReady, lifeVars, mainVars
    <3>2. QED
      BY <3>1 DEF LifeIInv
  <2>6. QED
    BY <2>1, <2>2, <2>3, <2>4, <2>5, Zenon DEF LifeNext, MainNext
<1>3. LifeIInv => ShutdownDrains
  BY DEF LifeIInv, ShutdownDrains
<1>4. QED
  BY <1>1, <1>2, <1>3, PTL DEF LifeSpec

-----------------------------------------------------------------------------
(* The event streams.                                                      *)

Subs == Streams \cup {Dash}

PubRecord ==
    [bus : Buses \cup {"none"}, tag : Tags("crew") \cup Tags("telemetry"), left : SUBSET Subs, calls : SUBSET Nat]

EventTypeOK ==
    /\ subscribers \in [Buses -> SUBSET Subs]
    /\ pub \in [Publishers -> PubRecord]
    /\ handlers \subseteq Nat /\ nextID \in Nat
    /\ sse \in [Streams -> {"off", "half", "on", "left", "gone", "404"}]

(* A channel is closed when its stream has left the bus, for good.         *)
ClosedForGood ==
    \A s, b : <<s, b>> \in closed =>
        /\ s \in Streams /\ b \in Buses /\ s \notin subscribers[b]
        /\ sse[s] = "gone" \/ (b = "crew" /\ sse[s] = "left")

(* Who is still to be served is subscribed, as long as the read lock is    *)
(* held.                                                                   *)
ServesSubscribed ==
    \A p \in Publishers :
        IF pub[p].bus = "none" THEN pub[p].left = {} ELSE pub[p].left \subseteq subscribers[pub[p].bus]

EventIInv == EventTypeOK /\ ClosedForGood /\ ServesSubscribed /\ ~panicked

PubStep(p, r) == pub' = [pub EXCEPT ![p] = r]

(* A step of one publisher, within the subscribers it copied.              *)
LEMMA PubMoves ==
    ASSUME EventIInv, NEW p \in Publishers, NEW r \in PubRecord, PubStep(p, r),
           IF r.bus = "none" THEN r.left = {} ELSE r.left \subseteq subscribers[r.bus],
           subscribers' = subscribers, closed' = closed, handlers' = handlers, nextID' = nextID, sse' = sse,
           ~panicked'
    PROVE  EventIInv'
<1>1. pub' \in [Publishers -> PubRecord] /\ pub'[p] = r /\ \A q \in Publishers \ {p} : pub'[q] = pub[q]
  BY DEF EventIInv, EventTypeOK, PubStep
<1>2. ServesSubscribed'
  BY <1>1 DEF EventIInv, ServesSubscribed
<1>3. EventTypeOK'
  BY <1>1 DEF EventIInv, EventTypeOK
<1>4. ClosedForGood'
  BY DEF EventIInv, ClosedForGood
<1>5. QED
  BY <1>2, <1>3, <1>4, Zenon DEF EventIInv

(* Publish copies the subscribers of its bus under the read lock.          *)
LEMMA PublishSound ==
    ASSUME EventIInv, NEW p \in Publishers, Publish(p)
    PROVE  EventIInv'
<1>1. PICK b \in Buses : \E tag \in Tags(b) :
         pub' = [pub EXCEPT ![p] = [bus |-> b, tag |-> tag, left |-> subscribers[b],
                                    calls |-> IF b = "crew" THEN handlers ELSE {}]]
  BY Zenon DEF Publish
<1>2. PICK tag \in Tags(b) :
         pub' = [pub EXCEPT ![p] = [bus |-> b, tag |-> tag, left |-> subscribers[b],
                                    calls |-> IF b = "crew" THEN handlers ELSE {}]]
  BY <1>1
<1> DEFINE r == [bus |-> b, tag |-> tag, left |-> subscribers[b], calls |-> IF b = "crew" THEN handlers ELSE {}]
<1>3. /\ subscribers' = subscribers /\ closed' = closed /\ handlers' = handlers /\ nextID' = nextID /\ sse' = sse
      /\ ~panicked'
  BY Zenon DEF Publish, EventIInv
<1>4. tag \in Tags("crew") \cup Tags("telemetry") /\ b # "none"
  BY DEF Buses
<1>5. subscribers[b] \in SUBSET Subs /\ handlers \in SUBSET Nat
  BY DEF EventIInv, EventTypeOK
<1>6. r \in PubRecord /\ r.bus = b /\ r.left = subscribers[b]
  BY <1>4, <1>5 DEF PubRecord
<1>7. PubStep(p, r)
  BY <1>2 DEF PubStep
<1> HIDE DEF r
<1>8. QED
  BY <1>3, <1>4, <1>6, <1>7, PubMoves

(* A subscriber in the copy has not been closed: closing takes the write   *)
(* lock.                                                                   *)
LEMMA SendSound ==
    ASSUME EventIInv, NEW p \in Publishers, Send(p)
    PROVE  EventIInv'
<1>0. pub[p] \in PubRecord /\ EventTypeOK
  BY DEF EventIInv, EventTypeOK
<1>1. PICK s \in pub[p].left : /\ pub' = [pub EXCEPT ![p].left = @ \ {s}]
                               /\ panicked' = (panicked \/ <<s, pub[p].bus>> \in closed)
  BY Zenon DEF Send
<1>2. pub[p].bus # "none" /\ s \in subscribers[pub[p].bus]
  BY DEF EventIInv, ServesSubscribed
<1>3. <<s, pub[p].bus>> \notin closed
  BY <1>2 DEF EventIInv, ClosedForGood
<1>4. ~panicked'
  BY <1>1, <1>3, Zenon DEF EventIInv
<1>5. subscribers' = subscribers /\ closed' = closed /\ handlers' = handlers /\ nextID' = nextID /\ sse' = sse
  BY Zenon DEF Send
<1> DEFINE r == [pub[p] EXCEPT !.left = @ \ {s}]
<1>6. r \in PubRecord /\ r.bus = pub[p].bus /\ r.left = pub[p].left \ {s}
  BY <1>0 DEF PubRecord
<1>7. PubStep(p, r)
  BY <1>0, <1>1 DEF PubStep, EventTypeOK
<1> HIDE DEF r
<1>8. r.bus # "none" /\ r.left \subseteq subscribers[r.bus]
  BY <1>2, <1>6 DEF EventIInv, ServesSubscribed
<1>9. QED
  BY <1>4, <1>5, <1>6, <1>7, <1>8, PubMoves

(* A publisher that is through with its copy gives the read lock back.     *)
LEMMA EndPublishSound ==
    ASSUME EventIInv, NEW p \in Publishers, EndPublish(p)
    PROVE  EventIInv'
<1>1. /\ pub' = [pub EXCEPT ![p] = NoPub] /\ subscribers' = subscribers /\ closed' = closed
      /\ handlers' = handlers /\ nextID' = nextID /\ sse' = sse /\ ~panicked'
  BY Zenon DEF EndPublish, EventIInv
<1>2. NoPub \in PubRecord /\ NoPub.bus = "none" /\ NoPub.left = {}
  BY DEF NoPub, PubRecord, Tags
<1>3. PubStep(p, NoPub)
  BY <1>1 DEF PubStep
<1>4. QED
  BY <1>1, <1>2, <1>3, PubMoves

(* A stream that subscribes has not left this bus before.                  *)
LEMMA SubscribeSound ==
    ASSUME EventIInv, NEW s \in Streams, NEW b \in Buses, NEW to \in {"half", "on"}, sse[s] \in {"off", "half"},
           Subscribe(s, b), sse' = [sse EXCEPT ![s] = to],
           pub' = pub, handlers' = handlers, nextID' = nextID, ~panicked'
    PROVE  EventIInv'
<1>1. subscribers' = [subscribers EXCEPT ![b] = @ \cup {s}] /\ closed' = closed
  BY Zenon DEF Subscribe
<1>2. /\ subscribers' \in [Buses -> SUBSET Subs] /\ subscribers'[b] = subscribers[b] \cup {s}
      /\ \A c \in Buses \ {b} : subscribers'[c] = subscribers[c]
  BY <1>1 DEF EventIInv, EventTypeOK, Subs
<1>3. /\ sse' \in [Streams -> {"off", "half", "on", "left", "gone", "404"}]
      /\ \A t \in Streams \ {s} : sse'[t] = sse[t]
  BY DEF EventIInv, EventTypeOK
<1>4. \A c : <<s, c>> \notin closed
  BY DEF EventIInv, ClosedForGood
<1>5. ClosedForGood'
  <2> SUFFICES ASSUME NEW t, NEW c, <<t, c>> \in closed'
               PROVE  /\ t \in Streams /\ c \in Buses /\ t \notin subscribers'[c]
                      /\ sse'[t] = "gone" \/ (c = "crew" /\ sse'[t] = "left")
    BY DEF ClosedForGood
  <2>1. <<t, c>> \in closed /\ t # s
    BY <1>1, <1>4
  <2>2. /\ t \in Streams /\ c \in Buses /\ t \notin subscribers[c]
        /\ sse[t] = "gone" \/ (c = "crew" /\ sse[t] = "left")
    BY <2>1 DEF EventIInv, ClosedForGood
  <2>3. QED
    BY <1>2, <1>3, <2>1, <2>2
<1>6. ServesSubscribed'
  <2>1. \A c \in Buses : subscribers[c] \subseteq subscribers'[c]
    BY <1>2
  <2>2. \A p \in Publishers : pub[p].bus \in Buses \cup {"none"}
    BY DEF EventIInv, EventTypeOK, PubRecord
  <2>3. QED
    BY <2>1, <2>2 DEF EventIInv, ServesSubscribed
<1>7. EventTypeOK'
  BY <1>2, <1>3 DEF EventIInv, EventTypeOK
<1>8. QED
  BY <1>5, <1>6, <1>7, Zenon DEF EventIInv

(* Unsubscribe removes the channel from its bus and then closes it, once.  *)
LEMMA UnsubscribeSound ==
    ASSUME EventIInv, NEW s \in Streams, NEW b \in Buses, NEW to \in {"left", "gone"},
           Unsubscribe(s, b), sse' = [sse EXCEPT ![s] = to], sse[s] # "gone", to = "gone" \/ b = "crew",
           pub' = pub, handlers' = handlers, nextID' = nextID, ~panicked',
           sse[s] = "left" => to = "gone"
    PROVE  EventIInv'
<1>1. /\ subscribers' = [subscribers EXCEPT ![b] = @ \ {s}] /\ closed' = closed \cup {<<s, b>>}
      /\ \A p \in Publishers : pub[p].bus # b
  BY Zenon DEF Unsubscribe, CloseGuarded, WriteLock, ReadLocked
<1>2. /\ subscribers' \in [Buses -> SUBSET Subs] /\ subscribers'[b] = subscribers[b] \ {s}
      /\ \A c \in Buses \ {b} : subscribers'[c] = subscribers[c]
  BY <1>1 DEF EventIInv, EventTypeOK, Subs
<1>3. /\ sse' \in [Streams -> {"off", "half", "on", "left", "gone", "404"}] /\ sse'[s] = to
      /\ \A t \in Streams \ {s} : sse'[t] = sse[t]
  BY DEF EventIInv, EventTypeOK
<1>4. ClosedForGood'
  <2> SUFFICES ASSUME NEW t, NEW c, <<t, c>> \in closed'
               PROVE  /\ t \in Streams /\ c \in Buses /\ t \notin subscribers'[c]
                      /\ sse'[t] = "gone" \/ (c = "crew" /\ sse'[t] = "left")
    BY DEF ClosedForGood
  <2>1. CASE <<t, c>> = <<s, b>>
    <3>1. t = s /\ c = b
      BY <2>1
    <3>2. QED
      BY <1>2, <1>3, <3>1
  <2>2. CASE <<t, c>> \in closed
    <3>1. /\ t \in Streams /\ c \in Buses /\ t \notin subscribers[c]
          /\ sse[t] = "gone" \/ (c = "crew" /\ sse[t] = "left")
      BY <2>2 DEF EventIInv, ClosedForGood
    <3>2. t \notin subscribers'[c]
      BY <1>2, <3>1
    <3>3. sse'[t] = "gone" \/ (c = "crew" /\ sse'[t] = "left")
      BY <1>3, <3>1
    <3>4. QED
      BY <3>1, <3>2, <3>3
  <2>3. QED
    BY <1>1, <2>1, <2>2
<1>5. ServesSubscribed'
  <2>1. \A p \in Publishers : pub[p].bus \in Buses \cup {"none"}
    BY DEF EventIInv, EventTypeOK, PubRecord
  <2>2. QED
    BY <1>1, <1>2, <2>1 DEF EventIInv, ServesSubscribed
<1>6. EventTypeOK'
  BY <1>2, <1>3 DEF EventIInv, EventTypeOK
<1>7. QED
  BY <1>4, <1>5, <1>6, Zenon DEF EventIInv

(* What the handler of one stream does with the two buses.                 *)
LEMMA StreamSound ==
    ASSUME EventIInv, NEW s \in Streams, HandleSSEStream(s) \/ StreamEvent(s) \/ StreamLeaves(s)
    PROVE  EventIInv'
<1>0. pub' = pub /\ handlers' = handlers /\ nextID' = nextID /\ ~panicked'
  <2>1. UNCHANGED Others
    BY DEF HandleSSEStream, StreamEvent, StreamLeaves
  <2>2. QED
    BY <2>1, Zenon DEF Others, EventIInv
<1>1. "telemetry" \in Buses /\ "crew" \in Buses
  BY DEF Buses
<1>2. CASE sse[s] = "off" /\ Subscribe(s, "telemetry") /\ sse' = [sse EXCEPT ![s] = "half"]
  BY <1>0, <1>1, <1>2, SubscribeSound
<1>3. CASE sse[s] = "half" /\ Subscribe(s, "crew") /\ sse' = [sse EXCEPT ![s] = "on"]
  BY <1>0, <1>1, <1>3, SubscribeSound
<1>4. CASE sse[s] = "on" /\ Unsubscribe(s, "crew") /\ sse' = [sse EXCEPT ![s] = "left"]
  BY <1>0, <1>1, <1>4, UnsubscribeSound
<1>5. CASE sse[s] = "left" /\ Unsubscribe(s, "telemetry") /\ sse' = [sse EXCEPT ![s] = "gone"]
  <2>1. sse[s] # "gone"
    BY <1>5
  <2>2. Unsubscribe(s, "telemetry") /\ sse' = [sse EXCEPT ![s] = "gone"]
    BY <1>5
  <2>3. QED
    BY <1>0, <1>1, <2>1, <2>2, UnsubscribeSound, Zenon
<1>6. CASE /\ subscribers' = subscribers /\ closed' = closed
           /\ sse' = sse \/ (sse[s] = "off" /\ sse' = [sse EXCEPT ![s] = "404"])
  <2>1. sse' \in [Streams -> {"off", "half", "on", "left", "gone", "404"}]
    BY <1>6 DEF EventIInv, EventTypeOK
  <2>2. \A t \in Streams : sse[t] # "off" => sse'[t] = sse[t]
    BY <1>6 DEF EventIInv, EventTypeOK
  <2>3. ClosedForGood'
    BY <1>6, <2>2 DEF EventIInv, ClosedForGood
  <2>4. ServesSubscribed'
    BY <1>0, <1>6 DEF EventIInv, ServesSubscribed
  <2>5. EventTypeOK'
    BY <1>0, <1>6, <2>1 DEF EventIInv, EventTypeOK
  <2>6. QED
    BY <1>0, <2>3, <2>4, <2>5, Zenon DEF EventIInv
<1>7. QED
  BY <1>2, <1>3, <1>4, <1>5, <1>6, Zenon DEF HandleSSEStream, StreamEvent, StreamLeaves

(* No publisher sends on a channel that a leaving stream has closed, for   *)
(* any number of publishers and streams on the two buses (events.go        *)
(* Publish and Unsubscribe).                                               *)
THEOREM NeverSendsOnClosed == EventSpec => []NoSendOnClosed
<1>1. EventInit => EventIInv
  <2> SUFFICES ASSUME EventInit PROVE EventIInv
    OBVIOUS
  <2>1. /\ subscribers = [b \in Buses |-> IF b = "telemetry" THEN {Dash} ELSE {}]
        /\ closed = {} /\ pub = [p \in Publishers |-> NoPub] /\ handlers = {} /\ nextID = 0
        /\ sse = [s \in Streams |-> "off"] /\ ~panicked
    BY Zenon DEF EventInit
  <2>2. NoPub \in PubRecord /\ NoPub.bus = "none" /\ NoPub.left = {}
    BY DEF NoPub, PubRecord, Tags
  <2>3. EventTypeOK
    BY <2>1, <2>2 DEF EventTypeOK, Subs
  <2>4. ClosedForGood /\ ServesSubscribed
    BY <2>1, <2>2 DEF ClosedForGood, ServesSubscribed
  <2>5. QED
    BY <2>1, <2>3, <2>4, Zenon DEF EventIInv
<1>2. EventIInv /\ [EventNext]_eventVars => EventIInv'
  <2> SUFFICES ASSUME EventIInv, [EventNext]_eventVars PROVE EventIInv'
    OBVIOUS
  <2>1. ASSUME NEW p \in Publishers, Publish(p) \/ Send(p) \/ EndPublish(p)
        PROVE  EventIInv'
    BY <2>1, PublishSound, SendSound, EndPublishSound
  <2>2. ASSUME NEW s \in Streams, HandleSSEStream(s) \/ StreamEvent(s) \/ StreamLeaves(s)
        PROVE  EventIInv'
    BY <2>2, StreamSound
  <2>3. CASE \/ On \/ Cleanup \/ HandlerReturns \/ HandleConnections \/ HandleMessages \/ PublishMetrics
             \/ Disconnect \/ UNCHANGED eventVars
    <3>0. ~panicked'
      BY <2>3, Zenon DEF On, Cleanup, HandlerReturns, HandleConnections, HandleMessages, PublishMetrics,
                         Disconnect, eventVars, EventIInv
    <3>1. subscribers' = subscribers /\ closed' = closed /\ pub' = pub /\ sse' = sse
      BY <2>3, Zenon DEF On, Cleanup, HandlerReturns, HandleConnections, HandleMessages, PublishMetrics,
                         Disconnect, eventVars
    <3>2. \/ nextID' = nextID /\ handlers' \subseteq handlers
          \/ nextID' = nextID + 1 /\ handlers' = handlers \cup {nextID + 1}
      BY <2>3, Zenon DEF On, Cleanup, HandlerReturns, HandleConnections, HandleMessages, PublishMetrics,
                         Disconnect, eventVars
    <3>3. handlers' \subseteq Nat /\ nextID' \in Nat
      <4>1. handlers \subseteq Nat /\ nextID \in Nat
        BY DEF EventIInv, EventTypeOK
      <4>2. nextID + 1 \in Nat
        BY <4>1
      <4>3. QED
        BY <3>2, <4>1, <4>2, Zenon
    <3>4. EventTypeOK' /\ ClosedForGood' /\ ServesSubscribed'
      BY <3>1, <3>3 DEF EventIInv, EventTypeOK, ClosedForGood, ServesSubscribed
    <3>5. QED
      BY <3>0, <3>4, Zenon DEF EventIInv
  <2>4. QED
    BY <2>1, <2>2, <2>3, Zenon DEF EventNext
<1>3. EventIInv => NoSendOnClosed
  BY Zenon DEF EventIInv, NoSendOnClosed
<1>4. QED
  BY <1>1, <1>2, <1>3, PTL DEF EventSpec

-----------------------------------------------------------------------------
(* The sandboxes.                                                          *)

Using == {"store", "run", "return"}
Away == {"start", "wait", "logs", "cleanup", "command", "drain", "returned"}

JobRecord ==
    [kind : Kinds,
     step : {"new", "lookup", "compile"} \cup Away \cup Using,
     bin : Binaries, mod : Nat, own : BOOLEAN]

ModStates == {"open", "closed"}

(* A call that does not own its module leaves it to the cache, which holds *)
(* it or has closed it.                                                    *)
ModulesLeft ==
    \A j \in Jobs :
        /\ job[j].mod \in 0..Len(mods)
        /\ job[j].step \in {"new", "lookup", "compile"} => job[j].mod = 0
        /\ job[j].step \in {"run", "return"} /\ ~job[j].own /\ job[j].mod # 0
              => job[j].mod = cached \/ mods[job[j].mod] = "closed"

OpenHeld == \A m \in 1..Len(mods) : mods[m] = "open" => m = cached \/ InUse(m)

BoxesSound ==
    \A j \in Jobs : /\ At(j, "docker", "new") => j \notin told
                    /\ At(j, "docker", "returned") /\ j \in told => box[j] = "gone" \/ j \in reported

SandboxIInv ==
    /\ job \in [Jobs -> JobRecord]
    /\ mods \in Seq(ModStates) /\ cached \in 0..Len(mods)
    /\ box \in [Jobs -> {"none", "up", "gone"}] /\ told \subseteq Jobs
    /\ ModulesLeft /\ OpenHeld /\ BoxesSound

JobStep(j, r) == job' = [job EXCEPT ![j] = r]

(* A step of one call leaves the records of the others alone.              *)
LEMMA JobMoves ==
    ASSUME SandboxIInv, NEW j \in Jobs, NEW r \in JobRecord, JobStep(j, r)
    PROVE  job' \in [Jobs -> JobRecord] /\ job'[j] = r /\ \A k \in Jobs \ {j} : job'[k] = job[k]
BY DEF SandboxIInv, JobStep

(* What Goto makes of a call's record.                                     *)
LEMMA GotoMoves ==
    ASSUME SandboxIInv, NEW j \in Jobs, NEW s \in {"new", "lookup", "compile"} \cup Away \cup Using, Goto(j, s)
    PROVE  /\ job' \in [Jobs -> JobRecord] /\ \A k \in Jobs \ {j} : job'[k] = job[k]
           /\ job'[j].step = s /\ job'[j].kind = job[j].kind /\ job'[j].mod = job[j].mod
           /\ job'[j].own = job[j].own
<1> DEFINE r == [job[j] EXCEPT !.step = s]
<1>1. job[j] \in JobRecord
  BY DEF SandboxIInv
<1>2. /\ r \in JobRecord /\ r.step = s /\ r.kind = job[j].kind /\ r.mod = job[j].mod /\ r.own = job[j].own
  BY <1>1 DEF JobRecord
<1>3. JobStep(j, r)
  BY DEF Goto, JobStep, SandboxIInv
<1> HIDE DEF r
<1>4. QED
  BY <1>2, <1>3, JobMoves

(* A step of a call that neither starts nor stops using a module.          *)
LEMMA AwayFromModules ==
    ASSUME SandboxIInv, NEW j \in Jobs, NEW s \in Away \cup {"lookup"},
           s = "lookup" => job[j].step = "new", job[j].step \notin Using, Goto(j, s), mods' = mods, cached' = cached
    PROVE  /\ job' \in [Jobs -> JobRecord] /\ mods' \in Seq(ModStates) /\ cached' \in 0..Len(mods')
           /\ ModulesLeft' /\ OpenHeld'
<1>1. /\ job' \in [Jobs -> JobRecord] /\ \A k \in Jobs \ {j} : job'[k] = job[k]
      /\ job'[j].step = s /\ job'[j].mod = job[j].mod
  BY GotoMoves
<1>2. ModulesLeft'
  BY <1>1 DEF SandboxIInv, ModulesLeft, Away
<1>3. \A m : InUse(m) => InUse(m)'
  BY <1>1 DEF InUse, Using, Away
<1>4. OpenHeld'
  BY <1>3 DEF SandboxIInv, OpenHeld
<1>5. QED
  BY <1>1, <1>2, <1>4 DEF SandboxIInv

(* Steps of Wasm calls leave the containers alone.                         *)
LEMMA WasmBoxes ==
    ASSUME SandboxIInv, NEW j \in Jobs, job'[j].kind = "wasm", \A k \in Jobs \ {j} : job'[k] = job[k],
           hostVars' = hostVars
    PROVE  BoxesSound' /\ box' \in [Jobs -> {"none", "up", "gone"}] /\ told' \subseteq Jobs
BY DEF SandboxIInv, BoxesSound, At, hostVars

(* A Wasm call begins without a module.                                    *)
LEMMA WasmStartSound ==
    ASSUME SandboxIInv, NEW j \in Jobs, WasmStart(j)
    PROVE  SandboxIInv'
<1>1. /\ job[j].kind = "wasm" /\ job[j].step = "new" /\ (Goto(j, "returned") \/ Goto(j, "lookup"))
      /\ mods' = mods /\ cached' = cached /\ hostVars' = hostVars
  BY DEF WasmStart, At
<1>2. job'[j].kind = "wasm" /\ \A k \in Jobs \ {j} : job'[k] = job[k]
  BY <1>1, GotoMoves DEF Away
<1>3. /\ job' \in [Jobs -> JobRecord] /\ mods' \in Seq(ModStates) /\ cached' \in 0..Len(mods')
      /\ ModulesLeft' /\ OpenHeld'
  BY <1>1, AwayFromModules DEF Using, Away
<1>4. BoxesSound' /\ box' \in [Jobs -> {"none", "up", "gone"}] /\ told' \subseteq Jobs
  BY <1>1, <1>2, WasmBoxes
<1>5. QED
  BY <1>3, <1>4 DEF SandboxIInv

(* The first lock section: the cached module is borrowed, or none is.      *)
LEMMA WasmLookupSound ==
    ASSUME SandboxIInv, NEW j \in Jobs, WasmLookup(j)
    PROVE  SandboxIInv'
<1>0. /\ job[j] \in JobRecord /\ job[j].kind = "wasm" /\ job[j].step = "lookup"
      /\ hostVars' = hostVars
  BY DEF WasmLookup, At, SandboxIInv
<1>a. mods \in Seq(ModStates) /\ cached \in 0..Len(mods) /\ Len(mods) \in Nat /\ DOMAIN mods = 1..Len(mods)
  BY DEF SandboxIInv
<1>1. CASE cached # 0 /\ cachedHash = job[j].bin
  <2> DEFINE r == [job[j] EXCEPT !.step = "run", !.mod = cached]
  <2>1. job' = [job EXCEPT ![j].step = "run", ![j].mod = cached] /\ mods' = mods /\ cached' = cached
    BY <1>1, Zenon DEF WasmLookup
  <2>2. cached \in Nat
    BY <1>a
  <2>3. r \in JobRecord /\ r.kind = "wasm" /\ r.step = "run" /\ r.mod = cached
    BY <1>0, <2>2 DEF JobRecord, Using
  <2>4. JobStep(j, r)
    BY <1>0, <2>1 DEF JobStep, SandboxIInv, JobRecord
  <2> HIDE DEF r
  <2>5. job' \in [Jobs -> JobRecord] /\ job'[j] = r /\ \A k \in Jobs \ {j} : job'[k] = job[k]
    BY <2>3, <2>4, JobMoves
  <2>6. ModulesLeft'
    BY <1>a, <2>1, <2>3, <2>5 DEF SandboxIInv, ModulesLeft
  <2>7. \A m : InUse(m) => InUse(m)'
    BY <1>0, <2>5 DEF InUse
  <2>8. OpenHeld'
    BY <2>1, <2>7 DEF SandboxIInv, OpenHeld
  <2>9. BoxesSound' /\ box' \in [Jobs -> {"none", "up", "gone"}] /\ told' \subseteq Jobs
    BY <1>0, <2>3, <2>5, WasmBoxes
  <2>10. QED
    BY <1>a, <2>1, <2>5, <2>6, <2>8, <2>9 DEF SandboxIInv
<1>2. CASE ~(cached # 0 /\ cachedHash = job[j].bin)
  <2>1. /\ Goto(j, "compile") /\ cached' = 0
        /\ mods' = [m \in DOMAIN mods |-> IF m = cached THEN "closed" ELSE mods[m]]
    BY <1>2, Zenon DEF WasmLookup, Closed
  <2>2. /\ job' \in [Jobs -> JobRecord] /\ \A k \in Jobs \ {j} : job'[k] = job[k]
        /\ job'[j].step = "compile" /\ job'[j].kind = job[j].kind /\ job'[j].mod = job[j].mod
    BY <2>1, GotoMoves
  <2>3. /\ mods' \in Seq(ModStates) /\ Len(mods') = Len(mods)
        /\ \A m \in 1..Len(mods) : mods'[m] = IF m = cached THEN "closed" ELSE mods[m]
    <3>1. mods' = [m \in 1..Len(mods) |-> IF m = cached THEN "closed" ELSE mods[m]]
      BY <1>a, <2>1
    <3>2. \A m \in 1..Len(mods) : mods[m] \in ModStates
      BY <1>a
    <3>3. QED
      BY <1>a, <3>1, <3>2 DEF ModStates
  <2>4. ModulesLeft'
    <3>1. \A x \in 0..Len(mods) : x # 0 => x \in 1..Len(mods)
      BY <1>a
    <3>2. \A k \in Jobs : job[k].mod # 0 /\ (job[k].mod = cached \/ mods[job[k].mod] = "closed")
                            => mods'[job[k].mod] = "closed"
      BY <2>3, <3>1 DEF SandboxIInv, ModulesLeft
    <3>3. QED
      BY <1>0, <2>1, <2>2, <2>3, <3>2 DEF SandboxIInv, ModulesLeft
  <2>5. \A m : InUse(m) => InUse(m)'
    BY <1>0, <2>2 DEF InUse
  <2>6. OpenHeld'
    BY <1>a, <2>3, <2>5 DEF SandboxIInv, OpenHeld
  <2>7. BoxesSound' /\ box' \in [Jobs -> {"none", "up", "gone"}] /\ told' \subseteq Jobs
    BY <1>0, <2>2, WasmBoxes
  <2>8. cached' \in 0..Len(mods')
    BY <1>a, <2>1, <2>3
  <2>9. QED
    BY <2>2, <2>3, <2>4, <2>6, <2>7, <2>8 DEF SandboxIInv
<1>3. QED
  BY <1>1, <1>2

(* A module compiled outside of the lock belongs to its call.              *)
LEMMA WasmCompileSound ==
    ASSUME SandboxIInv, NEW j \in Jobs, WasmCompile(j)
    PROVE  SandboxIInv'
<1>0. /\ job[j] \in JobRecord /\ job[j].kind = "wasm" /\ job[j].step = "compile"
      /\ hostVars' = hostVars /\ cached' = cached
  BY DEF WasmCompile, At, SandboxIInv
<1>a. mods \in Seq(ModStates) /\ cached \in 0..Len(mods) /\ Len(mods) \in Nat
  BY DEF SandboxIInv
<1>1. CASE Goto(j, "return") /\ mods' = mods
  <2>1. /\ job' \in [Jobs -> JobRecord] /\ \A k \in Jobs \ {j} : job'[k] = job[k]
        /\ job'[j].step = "return" /\ job'[j].kind = job[j].kind /\ job'[j].mod = job[j].mod
    BY <1>1, GotoMoves DEF Using
  <2>2. ModulesLeft'
    BY <1>0, <1>1, <2>1 DEF SandboxIInv, ModulesLeft
  <2>3. \A m : InUse(m) => InUse(m)'
    BY <1>0, <2>1 DEF InUse
  <2>4. OpenHeld'
    BY <1>0, <1>1, <2>3 DEF SandboxIInv, OpenHeld
  <2>5. BoxesSound' /\ box' \in [Jobs -> {"none", "up", "gone"}] /\ told' \subseteq Jobs
    BY <1>0, <2>1, WasmBoxes
  <2>6. QED
    BY <1>0, <1>1, <1>a, <2>1, <2>2, <2>4, <2>5 DEF SandboxIInv
<1>2. CASE mods' = Append(mods, "open") /\ job' = [job EXCEPT ![j].step = "store", ![j].mod = Len(mods) + 1]
  <2> DEFINE n == Len(mods) + 1
             r == [job[j] EXCEPT !.step = "store", !.mod = n]
  <2>1. /\ mods' \in Seq(ModStates) /\ Len(mods') = n /\ mods'[n] = "open"
        /\ \A m \in 1..Len(mods) : mods'[m] = mods[m]
    BY <1>a, <1>2, AppendProperties DEF ModStates
  <2>2. n \in Nat /\ n = Len(mods) + 1
    BY <1>a
  <2>3. JobStep(j, [job[j] EXCEPT !.step = "store", !.mod = n])
    BY <1>0, <1>2 DEF JobStep, SandboxIInv, JobRecord
  <2> HIDE DEF n
  <2>4. r \in JobRecord /\ r.kind = "wasm" /\ r.step = "store" /\ r.mod = n
    BY <1>0, <2>2 DEF JobRecord, Using
  <2> HIDE DEF r
  <2>5. job' \in [Jobs -> JobRecord] /\ job'[j] = r /\ \A k \in Jobs \ {j} : job'[k] = job[k]
    BY <2>3, <2>4, JobMoves DEF r
  <2>6. ModulesLeft'
    <3>0. \A x \in 0..Len(mods) : x \in 0..n /\ (x # 0 => x \in 1..Len(mods))
      BY <1>a, <2>2
    <3>1. \A k \in Jobs \ {j} : job[k].mod \in 0..Len(mods) /\ job[k].mod \in 0..n
      BY <3>0 DEF SandboxIInv, ModulesLeft
    <3>2. n \in 0..n
      BY <2>2
    <3>3. \A k \in Jobs \ {j} : job[k].mod # 0 => mods'[job[k].mod] = mods[job[k].mod]
      BY <2>1, <3>0, <3>1
    <3>4. QED
      BY <1>0, <2>1, <2>4, <2>5, <3>1, <3>2, <3>3 DEF SandboxIInv, ModulesLeft
  <2>7. \A m : InUse(m) \/ m = n => InUse(m)'
    BY <1>0, <2>4, <2>5 DEF InUse
  <2>8. OpenHeld'
    <3>1. \A m \in 1..n : m \in 1..Len(mods) \/ m = n
      BY <1>a, <2>2
    <3>2. QED
      BY <1>0, <2>1, <2>7, <3>1 DEF SandboxIInv, OpenHeld
  <2>9. BoxesSound' /\ box' \in [Jobs -> {"none", "up", "gone"}] /\ told' \subseteq Jobs
    BY <1>0, <2>4, <2>5, WasmBoxes
  <2>10. cached' \in 0..Len(mods')
    BY <1>0, <1>a, <2>1, <2>2
  <2>11. QED
    BY <2>1, <2>5, <2>6, <2>8, <2>9, <2>10 DEF SandboxIInv
<1>3. QED
  BY <1>1, <1>2, Zenon DEF WasmCompile

(* The second lock section: the module is cached, or stays the call's own. *)
LEMMA WasmStoreSound ==
    ASSUME SandboxIInv, NEW j \in Jobs, WasmStore(j)
    PROVE  SandboxIInv'
<1>0. /\ job[j] \in JobRecord /\ job[j].kind = "wasm" /\ job[j].step = "store"
      /\ hostVars' = hostVars /\ mods' = mods
  BY DEF WasmStore, At, SandboxIInv
<1>a. mods \in Seq(ModStates) /\ cached \in 0..Len(mods) /\ Len(mods) \in Nat
  BY DEF SandboxIInv
<1> DEFINE own == OwnModule(j)
           r == [job[j] EXCEPT !.step = "run", !.own = own]
<1>1. job' = [job EXCEPT ![j].step = "run", ![j].own = own]
  BY Zenon DEF WasmStore
<1>2. own \in BOOLEAN /\ (own <=> cached # 0)
  BY DEF OwnModule
<1>3. JobStep(j, r)
  BY <1>0, <1>1 DEF JobStep, SandboxIInv, JobRecord
<1> HIDE DEF own
<1>4. r \in JobRecord /\ r.kind = "wasm" /\ r.step = "run" /\ r.mod = job[j].mod /\ (r.own <=> cached # 0)
  BY <1>0, <1>2 DEF JobRecord, Using
<1> HIDE DEF r
<1>5. job' \in [Jobs -> JobRecord] /\ job'[j] = r /\ \A k \in Jobs \ {j} : job'[k] = job[k]
  BY <1>3, <1>4, JobMoves
<1>6. cached' = IF cached = 0 THEN job[j].mod ELSE cached
  BY Zenon DEF WasmStore
<1>7. job[j].mod \in 0..Len(mods)
  BY DEF SandboxIInv, ModulesLeft
<1>8. ModulesLeft'
  <2>1. \A k \in Jobs : job'[k].mod \in 0..Len(mods')
    BY <1>0, <1>4, <1>5, <1>7 DEF SandboxIInv, ModulesLeft
  <2>2. ASSUME NEW k \in Jobs \ {j}, job[k].step \in {"run", "return"}, ~job[k].own, job[k].mod # 0
        PROVE  job[k].mod = cached' \/ mods'[job[k].mod] = "closed"
    BY <1>0, <1>6, <2>2 DEF SandboxIInv, ModulesLeft
  <2>3. ~job'[j].own => job'[j].mod = cached'
    BY <1>4, <1>5, <1>6
  <2>4. \A k \in Jobs : job'[k].step \in {"new", "lookup", "compile"} => job'[k].mod = 0
    BY <1>4, <1>5 DEF SandboxIInv, ModulesLeft
  <2>5. QED
    BY <1>5, <2>1, <2>2, <2>3, <2>4 DEF ModulesLeft
<1>9. \A m : InUse(m) => InUse(m)'
  BY <1>0, <1>4, <1>5 DEF InUse
<1>10. OpenHeld'
  <2>1. \A m \in 1..Len(mods) : m # 0
    BY <1>a
  <2>2. QED
    BY <1>0, <1>6, <1>9, <2>1 DEF SandboxIInv, OpenHeld
<1>11. BoxesSound' /\ box' \in [Jobs -> {"none", "up", "gone"}] /\ told' \subseteq Jobs
  BY <1>0, <1>4, <1>5, WasmBoxes
<1>12. cached' \in 0..Len(mods')
  BY <1>0, <1>6, <1>7, <1>a
<1>13. QED
  BY <1>0, <1>5, <1>8, <1>10, <1>11, <1>12, <1>a DEF SandboxIInv

(* The run keeps the module in use.                                        *)
LEMMA WasmRunSound ==
    ASSUME SandboxIInv, NEW j \in Jobs, WasmRun(j)
    PROVE  SandboxIInv'
<1>0. /\ job[j].kind = "wasm" /\ job[j].step = "run" /\ Goto(j, "return")
      /\ hostVars' = hostVars /\ mods' = mods /\ cached' = cached
  BY DEF WasmRun, At
<1>1. /\ job' \in [Jobs -> JobRecord] /\ \A k \in Jobs \ {j} : job'[k] = job[k]
      /\ job'[j].step = "return" /\ job'[j].kind = job[j].kind /\ job'[j].mod = job[j].mod
      /\ job'[j].own = job[j].own
  BY <1>0, GotoMoves DEF Using
<1>2. ModulesLeft'
  BY <1>0, <1>1 DEF SandboxIInv, ModulesLeft
<1>3. \A m : InUse(m) => InUse(m)'
  BY <1>0, <1>1 DEF InUse
<1>4. OpenHeld'
  BY <1>0, <1>3 DEF SandboxIInv, OpenHeld
<1>5. BoxesSound' /\ box' \in [Jobs -> {"none", "up", "gone"}] /\ told' \subseteq Jobs
  BY <1>0, <1>1, WasmBoxes
<1>6. QED
  BY <1>0, <1>1, <1>2, <1>4, <1>5 DEF SandboxIInv

(* Closing one compiled module.                                            *)
LEMMA CloseModule ==
    ASSUME SandboxIInv, NEW c \in 0..Len(mods), mods' = Closed(c)
    PROVE  /\ mods' \in Seq(ModStates) /\ Len(mods') = Len(mods)
           /\ \A m \in 1..Len(mods) : mods'[m] = IF m = c THEN "closed" ELSE mods[m]
<1>1. mods \in Seq(ModStates) /\ Len(mods) \in Nat /\ DOMAIN mods = 1..Len(mods)
  BY DEF SandboxIInv
<1>2. mods' = [m \in 1..Len(mods) |-> IF m = c THEN "closed" ELSE mods[m]]
  BY <1>1 DEF Closed
<1>3. \A m \in 1..Len(mods) : mods[m] \in ModStates
  BY <1>1
<1>4. QED
  BY <1>1, <1>2, <1>3 DEF ModStates

(* A call closes the module it owns when it returns.                       *)
LEMMA WasmReturnSound ==
    ASSUME SandboxIInv, NEW j \in Jobs, WasmReturn(j)
    PROVE  SandboxIInv'
<1>0. /\ job[j].kind = "wasm" /\ job[j].step = "return" /\ Goto(j, "returned")
      /\ hostVars' = hostVars /\ cached' = cached
      /\ mods' = IF job[j].own THEN Closed(job[j].mod) ELSE mods
  BY Zenon DEF WasmReturn, At
<1>a. mods \in Seq(ModStates) /\ cached \in 0..Len(mods) /\ Len(mods) \in Nat
  BY DEF SandboxIInv
<1>1. /\ job' \in [Jobs -> JobRecord] /\ \A k \in Jobs \ {j} : job'[k] = job[k]
      /\ job'[j].step = "returned" /\ job'[j].kind = job[j].kind /\ job'[j].mod = job[j].mod
  BY <1>0, GotoMoves DEF Away
<1>2. job[j].mod \in 0..Len(mods)
  BY DEF SandboxIInv, ModulesLeft
<1>3. /\ mods' \in Seq(ModStates) /\ Len(mods') = Len(mods)
      /\ \A m \in 1..Len(mods) : mods'[m] \in {mods[m], "closed"}
  <2>1. CASE job[j].own
    <3>1. mods' = Closed(job[j].mod)
      BY <1>0, <2>1
    <3>2. QED
      BY <1>2, <3>1, CloseModule
  <2>2. CASE ~job[j].own
    BY <1>0, <1>a, <2>2
  <2>3. QED
    BY <2>1, <2>2
<1>4. \A m \in 1..Len(mods) : mods'[m] = "open" => mods[m] = "open" /\ (m = cached \/ m # job[j].mod)
  <2>1. CASE job[j].own
    <3>1. mods' = Closed(job[j].mod)
      BY <1>0, <2>1
    <3>2. \A m \in 1..Len(mods) : mods'[m] = IF m = job[j].mod THEN "closed" ELSE mods[m]
      BY <1>2, <3>1, CloseModule
    <3>3. QED
      BY <3>2
  <2>2. CASE ~job[j].own
    <3>1. mods' = mods
      BY <1>0, <2>2
    <3>2. job[j].mod # 0 => job[j].mod = cached \/ mods[job[j].mod] = "closed"
      BY <1>0, <2>2 DEF SandboxIInv, ModulesLeft
    <3>3. \A m \in 1..Len(mods) : m # 0
      BY <1>a
    <3>4. QED
      BY <3>1, <3>2, <3>3
  <2>3. QED
    BY <2>1, <2>2
<1>5. ModulesLeft'
  <2>1. \A x \in 0..Len(mods) : x # 0 => x \in 1..Len(mods)
    BY <1>a
  <2>2. \A k \in Jobs : job[k].mod # 0 /\ mods[job[k].mod] = "closed" => mods'[job[k].mod] = "closed"
    BY <1>3, <2>1 DEF SandboxIInv, ModulesLeft
  <2>3. QED
    BY <1>0, <1>1, <1>3, <2>2 DEF SandboxIInv, ModulesLeft
<1>6. \A m : m # job[j].mod /\ InUse(m) => InUse(m)'
  BY <1>0, <1>1 DEF InUse
<1>7. OpenHeld'
  BY <1>0, <1>3, <1>4, <1>6 DEF SandboxIInv, OpenHeld
<1>8. BoxesSound' /\ box' \in [Jobs -> {"none", "up", "gone"}] /\ told' \subseteq Jobs
  BY <1>0, <1>1, WasmBoxes
<1>9. QED
  BY <1>0, <1>1, <1>3, <1>5, <1>7, <1>8, <1>a DEF SandboxIInv

(* Close closes the cached module and forgets it.                          *)
LEMMA WasmCloseSound ==
    ASSUME SandboxIInv, WasmClose
    PROVE  SandboxIInv'
<1>0. /\ mods' = Closed(cached) /\ cached' = 0
      /\ job' = job /\ hostVars' = hostVars
  BY Zenon DEF WasmClose
<1>a. mods \in Seq(ModStates) /\ cached \in 0..Len(mods) /\ Len(mods) \in Nat
  BY DEF SandboxIInv
<1>1. /\ mods' \in Seq(ModStates) /\ Len(mods') = Len(mods)
      /\ \A m \in 1..Len(mods) : mods'[m] = IF m = cached THEN "closed" ELSE mods[m]
  BY <1>0, <1>a, CloseModule
<1>2. ModulesLeft'
  <2>1. \A x \in 0..Len(mods) : x # 0 => x \in 1..Len(mods)
    BY <1>a
  <2>2. \A k \in Jobs : job[k].mod # 0 /\ (job[k].mod = cached \/ mods[job[k].mod] = "closed")
                          => mods'[job[k].mod] = "closed"
    BY <1>1, <2>1 DEF SandboxIInv, ModulesLeft
  <2>3. QED
    BY <1>0, <1>1, <2>2 DEF SandboxIInv, ModulesLeft
<1>3. \A m : InUse(m) => InUse(m)'
  BY <1>0 DEF InUse
<1>4. OpenHeld'
  BY <1>0, <1>1, <1>3 DEF SandboxIInv, OpenHeld
<1>5. BoxesSound' /\ box' \in [Jobs -> {"none", "up", "gone"}] /\ told' \subseteq Jobs
  BY <1>0 DEF SandboxIInv, BoxesSound, At, hostVars
<1>6. cached' \in 0..Len(mods')
  BY <1>0, <1>1, <1>a
<1>7. QED
  BY <1>0, <1>1, <1>2, <1>4, <1>5, <1>6 DEF SandboxIInv

(* The other kinds of calls: only their own record and container change.   *)
LEMMA HostCallSound ==
    ASSUME SandboxIInv, NEW j \in Jobs, job[j].step \notin Using, NEW s \in Away, Goto(j, s),
           mods' = mods, cached' = cached, NEW b \in {"none", "up", "gone"},
           box' = [box EXCEPT ![j] = b] , reported \subseteq reported', told' \in {told, told \cup {j}},
           job[j].kind = "docker" /\ s = "returned" => j \notin told' \/ b = "gone" \/ j \in reported'
    PROVE  SandboxIInv'
<1>1. /\ job' \in [Jobs -> JobRecord] /\ mods' \in Seq(ModStates) /\ cached' \in 0..Len(mods')
      /\ ModulesLeft' /\ OpenHeld'
  BY AwayFromModules DEF Away
<1>2. /\ \A k \in Jobs \ {j} : job'[k] = job[k]
      /\ job'[j].step = s /\ job'[j].kind = job[j].kind
  BY GotoMoves
<1>3. /\ box' \in [Jobs -> {"none", "up", "gone"}] /\ box'[j] = b /\ \A k \in Jobs \ {j} : box'[k] = box[k]
  BY DEF SandboxIInv
<1>4. told' \subseteq Jobs /\ \A k \in Jobs \ {j} : k \in told' <=> k \in told
  BY DEF SandboxIInv
<1>5. BoxesSound'
  BY <1>2, <1>3, <1>4 DEF SandboxIInv, BoxesSound, At, Away
<1>6. QED
  BY <1>1, <1>3, <1>4, <1>5 DEF SandboxIInv

(* A call that asks for a container or an instance: it returns without     *)
(* having been told of one, or goes on with one.                           *)
LEMMA CreateSound ==
    ASSUME SandboxIInv, NEW j \in Jobs, job[j].step \notin Using, mods' = mods, cached' = cached,
           reported' = reported, job[j].kind = "docker" => j \notin told,
           NEW next \in {"start", "command"}, Create(j, next)
    PROVE  SandboxIInv'
<1>1. box \in [Jobs -> {"none", "up", "gone"}] /\ box = [box EXCEPT ![j] = box[j]]
      /\ box[j] \in {"none", "up", "gone"}
  BY DEF SandboxIInv
<1>2. CASE Goto(j, "returned") /\ box' = box /\ told' = told
  BY <1>1, <1>2, HostCallSound DEF Away
<1>3. CASE Goto(j, "returned") /\ box' = [box EXCEPT ![j] = "up"] /\ told' = told
  BY <1>3, HostCallSound DEF Away
<1>4. CASE Goto(j, next) /\ box' = [box EXCEPT ![j] = "up"] /\ told' = told \cup {j}
  BY <1>4, HostCallSound DEF Away
<1>5. QED
  BY <1>2, <1>3, <1>4 DEF Create

(* Docker, E2B and process calls: a container a call was told of outlives  *)
(* it only if the daemon refused to remove it, which is reported.          *)
LEMMA OtherCallsSound ==
    ASSUME SandboxIInv, NEW j \in Jobs,
           \/ DockerCreate(j) \/ DockerStep(j) \/ DockerCleanup(j)
           \/ E2bCreate(j) \/ E2bCommand(j) \/ ProcessStart(j) \/ ProcessReturn(j)
    PROVE  SandboxIInv'
<1>0. job[j].step \notin Using /\ mods' = mods /\ cached' = cached
  BY DEF Using, At, DockerCreate, DockerStep, DockerCleanup, E2bCreate, E2bCommand, ProcessStart, ProcessReturn,
         wasmVars
<1>1. box \in [Jobs -> {"none", "up", "gone"}] /\ box = [box EXCEPT ![j] = box[j]]
      /\ box[j] \in {"none", "up", "gone"}
  BY DEF SandboxIInv
<1>2. CASE DockerCreate(j)
  <2>1. Create(j, "start") /\ reported' = reported /\ j \notin told
    BY <1>2 DEF DockerCreate, SandboxIInv, BoxesSound
  <2>2. QED
    BY <1>0, <2>1, CreateSound
<1>3. CASE DockerStep(j)
  <2>1. /\ Goto(j, "cleanup") \/ Goto(j, "wait") \/ Goto(j, "logs")
        /\ box' = box /\ reported' = reported /\ told' = told
    BY <1>3 DEF DockerStep, hostVars
  <2>2. QED
    BY <1>0, <1>1, <2>1, HostCallSound DEF Away
<1>4. CASE DockerCleanup(j)
  <2>1. Goto(j, "returned") /\ told' = told
    BY <1>4 DEF DockerCleanup
  <2>2. CASE box' = [box EXCEPT ![j] = "gone"] /\ reported' = reported
    BY <1>0, <2>1, <2>2, HostCallSound DEF Away
  <2>3. CASE reported' = reported \cup {j} /\ box' = box
    BY <1>0, <1>1, <2>1, <2>3, HostCallSound DEF Away
  <2>4. QED
    BY <1>4, <2>2, <2>3 DEF DockerCleanup, CleanupContext
<1>5. CASE E2bCreate(j)
  <2>1. job[j].kind = "e2b" /\ Create(j, "command") /\ reported' = reported
    BY <1>5 DEF E2bCreate, At
  <2>2. QED
    BY <1>0, <2>1, CreateSound
<1>6. CASE E2bCommand(j) \/ ProcessStart(j) \/ ProcessReturn(j)
  <2>1. /\ job[j].kind # "docker" /\ reported' = reported /\ box' = box /\ told' = told
        /\ Goto(j, "returned") \/ Goto(j, "drain")
    BY <1>6 DEF E2bCommand, ProcessStart, ProcessReturn, At, hostVars
  <2>2. QED
    BY <1>0, <1>1, <2>1, HostCallSound DEF Away
<1>7. QED
  BY <1>2, <1>3, <1>4, <1>5, <1>6

(* The steps of the outside world: only other kinds of boxes change.       *)
LEMMA JobsUnchanged ==
    ASSUME SandboxIInv, job' = job, mods' = mods, cached' = cached, reported' = reported, told' = told,
           box' \in [Jobs -> {"none", "up", "gone"}],
           \A j \in Jobs : job[j].kind = "docker" => box'[j] = box[j]
    PROVE  SandboxIInv'
<1>1. \A m : InUse(m) => InUse(m)'
  BY DEF InUse
<1>2. OpenHeld'
  BY <1>1 DEF SandboxIInv, OpenHeld
<1>3. ModulesLeft' /\ BoxesSound'
  BY DEF SandboxIInv, ModulesLeft, BoxesSound, At
<1>4. QED
  BY <1>2, <1>3 DEF SandboxIInv

(* Every compiled module that is open is cached or in use, and every       *)
(* Docker container that its call was told of is gone when the call has    *)
(* returned, unless the daemon refused, for any number of concurrent calls *)
(* (wasm.go, docker.go).                                                   *)
THEOREM SandboxesReleased == SandboxSpec => []SandboxReleased
<1>1. SandboxInit => SandboxIInv
  <2> SUFFICES ASSUME SandboxInit PROVE SandboxIInv
    OBVIOUS
  <2>1. /\ job \in [Jobs -> [kind : Kinds, step : {"new"}, bin : Binaries, mod : {0}, own : {FALSE}]]
        /\ mods = <<>> /\ cached = 0 /\ box = [j \in Jobs |-> "none"] /\ told = {}
    BY DEF SandboxInit
  <2>2. job \in [Jobs -> JobRecord] /\ \A j \in Jobs : job[j].step = "new" /\ job[j].mod = 0
    <3> DEFINE No == {FALSE}
               New == [kind : Kinds, step : {"new"}, bin : Binaries, mod : {0}, own : No]
    <3>0. No \subseteq BOOLEAN
      OBVIOUS
    <3> HIDE DEF No
    <3>1. \A r \in New : r \in JobRecord /\ r.step = "new" /\ r.mod = 0
      BY <3>0 DEF JobRecord
    <3>2. job \in [Jobs -> New]
      BY <2>1 DEF No
    <3> HIDE DEF New
    <3>3. QED
      BY <3>1, <3>2
  <2>3. mods \in Seq(ModStates) /\ Len(mods) = 0
    BY <2>1
  <2>4. ModulesLeft /\ OpenHeld /\ BoxesSound
    BY <2>1, <2>2, <2>3 DEF ModulesLeft, OpenHeld, BoxesSound, At
  <2>5. QED
    BY <2>1, <2>2, <2>3, <2>4 DEF SandboxIInv
<1>2. SandboxIInv /\ [SandboxNext]_sandboxVars => SandboxIInv'
  <2> SUFFICES ASSUME SandboxIInv, [SandboxNext]_sandboxVars PROVE SandboxIInv'
    OBVIOUS
  <2>1. ASSUME NEW j \in Jobs,
               \/ WasmStart(j) \/ WasmLookup(j) \/ WasmCompile(j) \/ WasmStore(j) \/ WasmRun(j) \/ WasmReturn(j)
        PROVE  SandboxIInv'
    BY <2>1, WasmStartSound, WasmLookupSound, WasmCompileSound, WasmStoreSound, WasmRunSound, WasmReturnSound
  <2>2. ASSUME NEW j \in Jobs,
               \/ DockerCreate(j) \/ DockerStep(j) \/ DockerCleanup(j)
               \/ E2bCreate(j) \/ E2bCommand(j) \/ ProcessStart(j) \/ ProcessReturn(j)
        PROVE  SandboxIInv'
    BY <2>2, OtherCallsSound
  <2>3. ASSUME NEW j \in Jobs, E2bDelete(j) \/ Expire(j)
        PROVE  SandboxIInv'
    <3>1. /\ job' = job /\ mods' = mods /\ cached' = cached /\ reported' = reported /\ told' = told
          /\ box' = box \/ (job[j].kind = "e2b" /\ box' = [box EXCEPT ![j] = "gone"])
      BY <2>3 DEF E2bDelete, Expire, wasmVars, hostVars
    <3>2. /\ box' \in [Jobs -> {"none", "up", "gone"}]
          /\ \A k \in Jobs : job[k].kind = "docker" => box'[k] = box[k]
      BY <3>1 DEF SandboxIInv
    <3>3. QED
      BY <3>1, <3>2, JobsUnchanged
  <2>4. CASE WasmClose
    BY <2>4, WasmCloseSound
  <2>5. CASE UNCHANGED sandboxVars
    <3>1. job' = job /\ mods' = mods /\ cached' = cached /\ reported' = reported /\ told' = told /\ box' = box
      BY <2>5 DEF sandboxVars, wasmVars, hostVars
    <3>2. box' \in [Jobs -> {"none", "up", "gone"}]
      BY <3>1 DEF SandboxIInv
    <3>3. QED
      BY <3>1, <3>2, JobsUnchanged
  <2>6. QED
    BY <2>1, <2>2, <2>3, <2>4, <2>5, Zenon DEF SandboxNext, JobNext
<1>3. SandboxIInv => SandboxReleased
  <2> SUFFICES ASSUME SandboxIInv PROVE SandboxReleased
    OBVIOUS
  <2>1. DOMAIN mods = 1..Len(mods)
    BY DEF SandboxIInv
  <2>2. QED
    BY <2>1 DEF SandboxIInv, SandboxReleased, OpenHeld, BoxesSound
<1>4. QED
  BY <1>1, <1>2, <1>3, PTL DEF SandboxSpec

-----------------------------------------------------------------------------
(* The MCP transport.                                                      *)

CallRecord ==
    [step : {"idle", "encode", "wait"}, method : Lists \cup DOMAIN Uses \cup {"none"}, serial : Nat, chan : Nat, got : Nat,
     ok : BOOLEAN]

ReaderRecord == [step : {"off", "read", "hand", "ended"}, chan : Nat, answer : Nat]

(* Two requests that read the same time for their id.                      *)
SameId(m, n) == m \in 1..serial /\ n \in 1..serial /\ ids[m] = ids[n]

IdsSound == serial \in Nat /\ ids \in Seq(Nat) /\ Len(ids) = serial

(* What is in the pipes was asked.                                         *)
PipesSound == toClient \subseteq 1..serial /\ \A r \in toServer : r.serial \in 1..serial

(* A channel holds no answer or one with the id of its own request.        *)
CallSound(k) ==
    /\ k.serial \in 0..serial /\ (k.step # "idle" => k.serial \in 1..serial)
    /\ k.chan # 0 => SameId(k.chan, k.serial)
    /\ k.ok /\ k.step = "idle" => SameId(k.got, k.serial)

CallsSound == \A c \in Clients : CallSound(call[c])

(* An entry of pending is the channel of a request with that id, empty.    *)
PendingSound ==
    \A i \in DOMAIN pending : pending[i] \in 1..serial /\ ids[pending[i]] = i /\ ChanRoom(pending[i])

(* An answer in the readLoop's hand is for a channel that is empty and out *)
(* of pending, of a request with the same id.                              *)
ReaderSound ==
    reader.step = "hand" =>
        /\ SameId(reader.answer, reader.chan) /\ ChanRoom(reader.chan)
        /\ \A i \in DOMAIN pending : pending[i] # reader.chan

StdioSound ==
    /\ call \in [Clients -> CallRecord] /\ reader \in ReaderRecord /\ IdsSound /\ PipesSound
    /\ CallsSound /\ PendingSound /\ ReaderSound

McpIInv == (reader.step # "off" => kind = "stdio") /\ (kind = "stdio" => StdioSound)

CallStep(c, r) == call' = [call EXCEPT ![c] = r]

(* A step of one client leaves the records of the others alone.            *)
LEMMA CallMoves ==
    ASSUME StdioSound, NEW c \in Clients, NEW r \in CallRecord, CallStep(c, r)
    PROVE  call' \in [Clients -> CallRecord] /\ call'[c] = r /\ \A d \in Clients \ {c} : call'[d] = call[d]
BY DEF StdioSound, CallStep

(* What two requests share does not change while none is added.            *)
LEMMA SameIdKept ==
    ASSUME serial' = serial, ids' = ids
    PROVE  \A m, n : SameId(m, n) => SameId(m, n)'
BY DEF SameId

(* A step of a call in progress that puts nothing into its channel.        *)
LEMMA CallGoesOn ==
    ASSUME StdioSound, NEW c \in Clients, NEW r \in CallRecord, CallStep(c, r), serial' = serial, ids' = ids,
           reader' = reader, r.serial = call[c].serial, r.chan \in {0, call[c].chan},
           r.step # "idle" => call[c].step # "idle", r.ok /\ r.step = "idle" => SameId(r.got, r.serial),
           DOMAIN pending' \subseteq DOMAIN pending, \A i \in DOMAIN pending' : pending'[i] = pending[i], PipesSound'
    PROVE  StdioSound'
<1>1. call' \in [Clients -> CallRecord] /\ call'[c] = r /\ \A d \in Clients \ {c} : call'[d] = call[d]
  BY CallMoves
<1>2. \A m, n : SameId(m, n) => SameId(m, n)'
  BY SameIdKept
<1>3. CallsSound'
  <2>1. \A d \in Clients : CallSound(call[d])
    BY DEF StdioSound, CallsSound
  <2>2. ASSUME NEW d \in Clients \ {c} PROVE CallSound(call[d])'
    BY <1>1, <1>2, <2>1, <2>2 DEF CallSound
  <2>3. CallSound(call[c])'
    <3>1. CallSound(call[c])
      BY <2>1
    <3>2. QED
      BY <1>1, <1>2, <3>1 DEF CallSound
  <2>4. QED
    BY <2>2, <2>3 DEF CallsSound
<1>4. \A n : ChanRoom(n) => ChanRoom(n)'
  BY <1>1 DEF ChanRoom
<1>5. PendingSound'
  BY <1>4 DEF StdioSound, PendingSound
<1>6. ReaderSound'
  BY <1>2, <1>4 DEF StdioSound, ReaderSound
<1>7. QED
  BY <1>1, <1>3, <1>5, <1>6 DEF StdioSound, IdsSound

(* A call that returns, with nothing or with what its channel holds.       *)
LEMMA FinishSound ==
    ASSUME StdioSound, NEW c \in Clients, NEW ok \in BOOLEAN, NEW got \in Nat, Finish(c, ok, got),
           ok => SameId(got, call[c].serial), reader' = reader, serial' = serial, ids' = ids,
           DOMAIN pending' \subseteq DOMAIN pending, \A i \in DOMAIN pending' : pending'[i] = pending[i], PipesSound'
    PROVE  StdioSound'
<1> DEFINE r == [call[c] EXCEPT !.step = "idle", !.chan = 0, !.ok = ok, !.got = got]
<1>0. call[c] \in CallRecord
  BY DEF StdioSound
<1>1. /\ r \in CallRecord /\ r.step = "idle" /\ r.chan = 0 /\ r.serial = call[c].serial /\ r.got = got /\ r.ok = ok
  BY <1>0 DEF CallRecord
<1>2. CallStep(c, r)
  BY DEF Finish, CallStep, StdioSound
<1> HIDE DEF r
<1>3. QED
  BY <1>1, <1>2, CallGoesOn

(* A request over stdio adds its id to those that were read.               *)
LEMMA IdsGrow ==
    ASSUME IdsSound, NEW id \in Nat, serial' = serial + 1, ids' = Append(ids, id)
    PROVE  /\ IdsSound' /\ ids'[serial'] = id /\ \A n \in 1..serial : ids'[n] = ids[n]
           /\ \A m, n : SameId(m, n) => SameId(m, n)'
<1>1. IdsSound' /\ ids'[serial'] = id /\ \A n \in 1..serial : ids'[n] = ids[n]
  BY DEF IdsSound
<1>2. \A n \in 1..serial : n \in 1..serial'
  BY DEF IdsSound
<1>3. QED
  BY <1>1, <1>2 DEF SameId

(* SendRequest registers a channel before it writes, perhaps over another. *)
LEMMA SendRequestSound ==
    ASSUME StdioSound, NEW c \in Clients, SendRequest(c)
    PROVE  StdioSound'
<1>0. /\ call[c].step = "idle" /\ reader' = reader /\ serial' = serial + 1 /\ toServer' = toServer
      /\ toClient' = toClient /\ IdsSound /\ serial \in Nat
  BY DEF SendRequest, StdioSound, IdsSound
<1> DEFINE n == serial + 1
<1>1. PICK method \in MethodsFor(c), id \in UnixNano :
         /\ ids' = Append(ids, id)
         /\ call' = [call EXCEPT ![c] = [NoCall EXCEPT !.step = "encode", !.method = method, !.serial = n]]
         /\ pending' = [i \in DOMAIN pending \cup {id} |-> IF i = id THEN n ELSE pending[i]]
  BY Zenon DEF SendRequest
<1>2. method \in Lists \cup DOMAIN Uses
  BY DEF MethodsFor
<1>3. id \in Nat
  BY <1>0 DEF UnixNano, ToSet, IdsSound
<1> DEFINE r == [NoCall EXCEPT !.step = "encode", !.method = method, !.serial = n]
<1>4. /\ n \in Nat /\ serial' = n /\ n \in 1..serial' /\ n \notin 1..serial /\ n \notin 0..serial
      /\ \A x \in 1..serial : x \in 1..serial'
      /\ \A x \in 0..serial : x \in 0..serial'
  BY <1>0
<1>5. /\ IdsSound' /\ ids'[n] = id /\ (\A x \in 1..serial : ids'[x] = ids[x])
      /\ \A x, y : SameId(x, y) => SameId(x, y)'
  BY <1>0, <1>1, <1>3, IdsGrow
<1>6. /\ DOMAIN pending' = DOMAIN pending \cup {id}
      /\ \A i \in DOMAIN pending' : pending'[i] = IF i = id THEN n ELSE pending[i]
  BY <1>1
<1>7. CallStep(c, r)
  BY <1>1 DEF CallStep
<1> HIDE DEF n
<1>8. r \in CallRecord /\ r.step = "encode" /\ r.serial = n /\ r.chan = 0
  BY <1>2, <1>4 DEF NoCall, CallRecord
<1> HIDE DEF r
<1>9. call' \in [Clients -> CallRecord] /\ call'[c] = r /\ \A d \in Clients \ {c} : call'[d] = call[d]
  BY <1>7, <1>8, CallMoves
<1>10. \A d \in Clients : CallSound(call[d])
  BY DEF StdioSound, CallsSound
<1>11. CallsSound'
  <2>1. ASSUME NEW d \in Clients \ {c} PROVE CallSound(call[d])'
    <3>1. CallSound(call[d]) /\ call'[d] = call[d]
      BY <1>9, <1>10
    <3>2. QED
      BY <1>4, <1>5, <3>1 DEF CallSound
  <2>2. CallSound(call[c])'
    <3>1. n \in 0..serial'
      BY <1>4
    <3>2. QED
      BY <1>4, <1>8, <1>9, <3>1 DEF CallSound
  <2>3. QED
    BY <2>1, <2>2 DEF CallsSound
<1>12. \A x \in 1..serial : ChanRoom(x) => ChanRoom(x)'
  BY <1>8, <1>9 DEF ChanRoom
<1>13. \A d \in Clients : call'[d].serial = n => call'[d].chan = 0
  <2>1. \A d \in Clients : call[d].serial # n
    BY <1>4, <1>10 DEF CallSound
  <2>2. QED
    BY <1>8, <1>9, <2>1
<1>14. PendingSound'
  <2> SUFFICES ASSUME NEW i \in DOMAIN pending'
               PROVE  /\ pending'[i] \in 1..serial' /\ ids'[pending'[i]] = i
                      /\ \A d \in Clients : call'[d].serial = pending'[i] => call'[d].chan = 0
    BY DEF PendingSound, ChanRoom
  <2>1. CASE i = id
    <3>1. pending'[i] = n
      BY <1>6, <2>1
    <3>2. QED
      BY <1>4, <1>5, <1>13, <2>1, <3>1
  <2>2. CASE i # id
    <3>1. i \in DOMAIN pending /\ pending'[i] = pending[i]
      BY <1>6, <2>2
    <3>2. pending[i] \in 1..serial /\ ids[pending[i]] = i /\ ChanRoom(pending[i])
      BY <3>1 DEF StdioSound, PendingSound
    <3>3. \A d \in Clients : call'[d].serial = pending[i] => call'[d].chan = 0
      BY <1>12, <3>2 DEF ChanRoom
    <3>4. QED
      BY <1>4, <1>5, <3>1, <3>2, <3>3
  <2>3. QED
    BY <2>1, <2>2
<1>15. ReaderSound'
  <2> SUFFICES ASSUME reader.step = "hand" PROVE ReaderSound'
    BY <1>0 DEF ReaderSound
  <2>1. /\ SameId(reader.answer, reader.chan) /\ ChanRoom(reader.chan)
        /\ \A i \in DOMAIN pending : pending[i] # reader.chan
    BY DEF StdioSound, ReaderSound
  <2>2. reader.chan \in 1..serial
    BY <2>1 DEF SameId
  <2>3. ChanRoom(reader.chan)'
    BY <1>0, <1>12, <2>1, <2>2 DEF ChanRoom
  <2>4. \A i \in DOMAIN pending' : pending'[i] # reader.chan
    BY <1>4, <1>6, <2>1, <2>2
  <2>5. QED
    BY <1>0, <1>5, <2>1, <2>3, <2>4 DEF ReaderSound
<1>16. PipesSound'
  BY <1>0, <1>4 DEF StdioSound, PipesSound
<1>17. QED
  BY <1>0, <1>5, <1>9, <1>11, <1>14, <1>15, <1>16 DEF StdioSound

(* Writing the request to the pipe, or failing to and forgetting it.       *)
LEMMA EncodeSound ==
    ASSUME StdioSound, NEW c \in Clients, EncodeRequest(c)
    PROVE  StdioSound'
<1>0. /\ call[c].step = "encode" /\ serial' = serial /\ ids' = ids /\ reader' = reader /\ toClient' = toClient
      /\ call[c] \in CallRecord
  BY DEF EncodeRequest, StdioSound
<1>1. CASE proc \in {"alive", "jammed"}
  <2> DEFINE r == [call[c] EXCEPT !.step = "wait"]
             q == [serial |-> call[c].serial, method |-> call[c].method]
  <2>1. call' = [call EXCEPT ![c].step = "wait"] /\ pending' = pending /\ toServer' = toServer \cup {q}
    BY <1>1 DEF EncodeRequest
  <2>2. /\ r \in CallRecord /\ r.step = "wait" /\ r.serial = call[c].serial /\ r.chan = call[c].chan
    BY <1>0 DEF CallRecord
  <2>3. CallStep(c, r)
    BY <2>1 DEF CallStep, StdioSound
  <2>4. PipesSound'
    <3>1. call[c].serial \in 1..serial /\ q.serial = call[c].serial
      BY <1>0 DEF StdioSound, CallsSound, CallSound
    <3> HIDE DEF q
    <3>2. QED
      BY <1>0, <2>1, <3>1 DEF StdioSound, PipesSound
  <2> HIDE DEF r
  <2>5. QED
    BY <1>0, <2>1, <2>2, <2>3, <2>4, CallGoesOn
<1>2. CASE proc \notin {"alive", "jammed"}
  <2>1. pending' = Forget(c) /\ Finish(c, FALSE, 0) /\ toServer' = toServer
    BY <1>2 DEF EncodeRequest
  <2>2. PipesSound'
    BY <1>0, <2>1 DEF StdioSound, PipesSound
  <2>3. DOMAIN pending' \subseteq DOMAIN pending /\ \A i \in DOMAIN pending' : pending'[i] = pending[i]
    BY <2>1 DEF Forget, Without
  <2>4. QED
    BY <1>0, <2>1, <2>2, <2>3, FinishSound
<1>3. QED
  BY <1>1, <1>2

(* A caller that gives up removes the entry of its id from pending.        *)
LEMMA CancelSound ==
    ASSUME StdioSound, NEW c \in Clients, Cancel(c)
    PROVE  StdioSound'
<1>1. /\ pending' = Forget(c) /\ Finish(c, FALSE, 0) /\ serial' = serial /\ ids' = ids /\ reader' = reader
      /\ toClient' = toClient /\ toServer' \subseteq toServer
  BY DEF Cancel
<1>2. PipesSound'
  BY <1>1 DEF StdioSound, PipesSound
<1>3. DOMAIN pending' \subseteq DOMAIN pending /\ \A i \in DOMAIN pending' : pending'[i] = pending[i]
  BY <1>1 DEF Forget, Without
<1>4. QED
  BY <1>1, <1>2, <1>3, FinishSound

(* A caller that receives returns what is in its own channel.              *)
LEMMA ReceiveSound ==
    ASSUME StdioSound, NEW c \in Clients, Receive(c)
    PROVE  StdioSound'
<1>1. /\ call[c].chan # 0 /\ \E ok \in BOOLEAN : Finish(c, ok, call[c].chan)
      /\ serial' = serial /\ ids' = ids /\ reader' = reader /\ pending' = pending
      /\ toServer' = toServer /\ toClient' = toClient
  <2>1. \A answer : Parsed(answer) \in BOOLEAN
    BY DEF Parsed
  <2>2. QED
    BY <2>1, Zenon DEF Receive
<1>2. SameId(call[c].chan, call[c].serial) /\ call[c].chan \in Nat
  BY <1>1 DEF StdioSound, CallsSound, CallSound, CallRecord
<1>3. PipesSound'
  BY <1>1 DEF StdioSound, PipesSound
<1>4. QED
  BY <1>1, <1>2, <1>3, FinishSound

(* The readLoop removes the entry of the id it has read, whoever waits.    *)
LEMMA ReadResponseSound ==
    ASSUME StdioSound, ReadResponse
    PROVE  StdioSound'
<1>0. reader.step = "read" /\ call' = call /\ serial' = serial /\ ids' = ids /\ toServer' = toServer
  BY DEF ReadResponse
<1>1. PICK n \in toClient :
         /\ toClient' = toClient \ {n} /\ pending' = Without(ids[n])
         /\ \/ UNCHANGED reader
            \/ \E ch \in Channels(ids[n]) : reader' = [step |-> "hand", chan |-> ch, answer |-> n]
  BY DEF ReadResponse
<1>2. /\ DOMAIN pending' = DOMAIN pending \ {ids[n]}
      /\ \A i \in DOMAIN pending' : pending'[i] = pending[i]
  BY <1>1 DEF Without
<1>3. PipesSound' /\ CallsSound' /\ PendingSound' /\ IdsSound'
  <2>1. PipesSound' /\ CallsSound' /\ IdsSound'
    BY <1>0, <1>1 DEF StdioSound, PipesSound, CallsSound, CallSound, SameId, IdsSound
  <2>2. PendingSound'
    BY <1>0, <1>2 DEF StdioSound, PendingSound, ChanRoom
  <2>3. QED
    BY <2>1, <2>2
<1>4. CASE UNCHANGED reader
  BY <1>0, <1>3, <1>4 DEF StdioSound, ReaderSound
<1>5. ASSUME NEW ch \in Channels(ids[n]), reader' = [step |-> "hand", chan |-> ch, answer |-> n]
      PROVE  StdioSound'
  <2>1. ids[n] \in DOMAIN pending /\ ch = pending[ids[n]]
    BY <1>5 DEF Channels
  <2>2. ch \in 1..serial /\ ids[ch] = ids[n] /\ ChanRoom(ch)
    BY <2>1 DEF StdioSound, PendingSound
  <2>3. n \in 1..serial /\ serial \in Nat
    BY <1>1 DEF StdioSound, PipesSound, IdsSound
  <2>4. n \in Nat /\ ch \in Nat
    BY <2>2, <2>3
  <2>5. reader' \in ReaderRecord /\ reader'.chan = ch /\ reader'.answer = n
    BY <1>5, <2>4 DEF ReaderRecord
  <2>6. \A i \in DOMAIN pending' : pending'[i] # ch
    BY <1>2, <2>2 DEF StdioSound, PendingSound
  <2>7. ReaderSound'
    BY <1>0, <2>2, <2>3, <2>5, <2>6 DEF ReaderSound, SameId, ChanRoom
  <2>8. QED
    BY <1>0, <1>3, <2>5, <2>7 DEF StdioSound
<1>6. QED
  BY <1>1, <1>4, <1>5

(* The answer goes to the channel that was registered under its id.        *)
LEMMA HandResponseSound ==
    ASSUME StdioSound, HandResponse
    PROVE  StdioSound'
<1>0. /\ reader.step = "hand" /\ serial' = serial /\ ids' = ids /\ pending' = pending
      /\ toServer' = toServer /\ toClient' = toClient
      /\ reader' = [NoReader EXCEPT !.step = "read"]
  BY DEF HandResponse
<1>1. reader' \in ReaderRecord /\ reader'.step = "read"
  BY <1>0 DEF NoReader, ReaderRecord
<1>2. /\ SameId(reader.answer, reader.chan) /\ reader.answer \in Nat
      /\ \A i \in DOMAIN pending : pending[i] # reader.chan
  BY <1>0 DEF StdioSound, ReaderSound, ReaderRecord
<1> DEFINE Handed(c) == call[c].serial = reader.chan /\ call[c].step \in {"encode", "wait"}
<1>3. /\ call' = [c \in Clients |-> IF Handed(c) THEN [call[c] EXCEPT !.chan = reader.answer] ELSE call[c]]
      /\ \A c \in Clients : call[c] \in CallRecord /\ CallSound(call[c])
  BY DEF HandResponse, StdioSound, CallsSound
<1>4. ASSUME NEW c \in Clients
      PROVE  /\ call'[c] \in CallRecord /\ CallSound(call[c])' /\ call'[c].serial = call[c].serial
             /\ call'[c].chan # call[c].chan => call[c].serial = reader.chan
  <2>0. call[c] \in CallRecord /\ CallSound(call[c])
    BY <1>3
  <2>1. CASE Handed(c)
    <3>1. call'[c] = [call[c] EXCEPT !.chan = reader.answer]
      BY <1>3, <2>1
    <3>2. /\ call'[c] \in CallRecord /\ call'[c].serial = call[c].serial /\ call'[c].chan = reader.answer
          /\ call'[c].step = call[c].step
      BY <1>2, <2>0, <3>1 DEF CallRecord
    <3>3. QED
      BY <1>0, <1>2, <2>0, <2>1, <3>2 DEF CallSound, SameId
  <2>2. CASE ~Handed(c)
    <3>1. call'[c] = call[c]
      BY <1>3, <2>2
    <3>2. QED
      BY <1>0, <2>0, <3>1 DEF CallSound, SameId
  <2>3. QED
    BY <2>1, <2>2
<1>5. call' \in [Clients -> CallRecord] /\ CallsSound'
  BY <1>3, <1>4 DEF CallsSound
<1>6. PendingSound'
  BY <1>0, <1>2, <1>4 DEF StdioSound, PendingSound, ChanRoom
<1>7. PipesSound' /\ IdsSound' /\ ReaderSound'
  BY <1>0, <1>1 DEF StdioSound, PipesSound, IdsSound, ReaderSound
<1>8. QED
  BY <1>1, <1>5, <1>6, <1>7 DEF StdioSound

(* The steps that leave calls and pending alone.                           *)
LEMMA OtherMcpSound ==
    ASSUME StdioSound, call' = call, serial' = serial, ids' = ids, pending' = pending, PipesSound',
           reader' = reader \/ \E s \in {"read", "ended"} : reader' = [NoReader EXCEPT !.step = s]
    PROVE  StdioSound'
<1>1. CallsSound' /\ PendingSound' /\ IdsSound'
  BY DEF StdioSound, CallsSound, CallSound, SameId, PendingSound, ChanRoom, IdsSound
<1>2. CASE reader' = reader
  BY <1>1, <1>2 DEF StdioSound, ReaderSound, SameId, ChanRoom
<1>3. ASSUME NEW s \in {"read", "ended"}, reader' = [NoReader EXCEPT !.step = s]
      PROVE  StdioSound'
  <2>1. reader' \in ReaderRecord /\ reader'.step # "hand"
    BY <1>3 DEF NoReader, ReaderRecord
  <2>2. QED
    BY <1>1, <2>1 DEF StdioSound, ReaderSound
<1>4. QED
  BY <1>2, <1>3

(* The calls, pending and the reader are sound in every reachable state.   *)
LEMMA McpInductive == McpSpec => []McpIInv
<1>1. McpInit => McpIInv
  <2> SUFFICES ASSUME McpInit PROVE McpIInv
    OBVIOUS
  <2>1. /\ call = [c \in Clients |-> NoCall] /\ serial = 0 /\ ids = <<>> /\ pending = <<>> /\ reader = NoReader
        /\ toServer = {} /\ toClient = {}
    BY Zenon DEF McpInit
  <2>2. NoCall \in CallRecord /\ NoCall.serial = 0 /\ NoCall.chan = 0 /\ ~NoCall.ok /\ NoCall.step = "idle"
    BY DEF NoCall, CallRecord
  <2>3. NoReader \in ReaderRecord /\ NoReader.step = "off"
    BY DEF NoReader, ReaderRecord
  <2>4. call \in [Clients -> CallRecord] /\ CallsSound
    <3>1. \A c \in Clients : call[c].serial = 0 /\ call[c].chan = 0 /\ ~call[c].ok /\ call[c].step = "idle"
      BY <2>1, <2>2
    <3>2. CallsSound
      <4>1. 0 \in 0..serial
        BY <2>1
      <4>2. QED
        BY <3>1, <4>1, Zenon DEF CallsSound, CallSound
    <3>3. QED
      BY <2>1, <2>2, <3>2
  <2>5. PendingSound /\ ReaderSound
    BY <2>1, <2>3 DEF PendingSound, ReaderSound
  <2>6. IdsSound /\ PipesSound
    BY <2>1 DEF IdsSound, PipesSound
  <2>7. QED
    BY <2>1, <2>3, <2>4, <2>5, <2>6 DEF McpIInv, StdioSound
<1>2. McpIInv /\ [McpNext]_mcpVars => McpIInv'
  <2> SUFFICES ASSUME McpIInv, [McpNext]_mcpVars PROVE McpIInv'
    OBVIOUS
  <2>1. kind' = kind
    BY Zenon DEF McpNext, mcpVars, session, RegisterTool, StartProcess, OpenStream, StartHttp, ServeStdio,
       ServeDecodeError, ReadResponse, HandResponse, ReadEof, HandleNotification, NewAgentDiscovered, EquipMCP,
       Discovered, CloseTransport, HttpRequest, SseRequest, Post, SendRequest, EncodeRequest, Receive, Cancel
  <2>2. ASSUME NEW c \in Clients, HttpRequest(c) \/ SseRequest(c)
        PROVE  McpIInv'
    <3>1. kind # "stdio" /\ reader' = reader
      BY <2>2 DEF HttpRequest, SseRequest, Post
    <3>2. QED
      BY <2>1, <3>1 DEF McpIInv
  <2>3. ASSUME NEW c \in Clients, SendRequest(c) \/ EncodeRequest(c) \/ Receive(c) \/ Cancel(c)
        PROVE  McpIInv'
    <3>1. reader' = reader
      BY <2>3 DEF SendRequest, EncodeRequest, Receive, Cancel
    <3>2. StdioSound => StdioSound'
      BY <2>3, SendRequestSound, EncodeSound, ReceiveSound, CancelSound
    <3>3. QED
      BY <2>1, <3>1, <3>2 DEF McpIInv
  <2>4. CASE ReadResponse \/ HandResponse
    <3>1. reader.step # "off"
      BY <2>4 DEF ReadResponse, HandResponse
    <3>2. StdioSound'
      BY <2>4, <3>1, ReadResponseSound, HandResponseSound DEF McpIInv
    <3>3. QED
      BY <2>1, <3>1, <3>2 DEF McpIInv
  <2>5. CASE \/ \E o \in Offers : RegisterTool(o)
             \/ StartProcess \/ OpenStream \/ StartHttp \/ ServeStdio \/ ServeDecodeError \/ ReadEof
             \/ HandleNotification \/ NewAgentDiscovered \/ EquipMCP \/ CloseTransport \/ UNCHANGED mcpVars
    <3>1. call' = call /\ serial' = serial /\ ids' = ids /\ pending' = pending
      BY <2>5, Zenon DEF mcpVars, session, RegisterTool, StartProcess, OpenStream, StartHttp, ServeStdio,
         ServeDecodeError, ReadEof, HandleNotification, NewAgentDiscovered, EquipMCP, Discovered, CloseTransport
    <3>a. \/ toServer' \in {toServer, {}} /\ toClient' = toClient
          \/ ServeStdio
      BY <2>5, Zenon DEF mcpVars, session, RegisterTool, StartProcess, OpenStream, StartHttp,
         ServeDecodeError, ReadEof, HandleNotification, NewAgentDiscovered, EquipMCP, Discovered, CloseTransport
    <3>b. PipesSound => PipesSound'
      <4>1. CASE ServeStdio
        BY <3>1, <4>1 DEF ServeStdio, PipesSound
      <4>2. QED
        BY <3>1, <3>a, <4>1 DEF PipesSound
    <3>2. \/ reader' = reader
          \/ reader' = [NoReader EXCEPT !.step = "read"] /\ kind = "stdio"
          \/ reader' = [NoReader EXCEPT !.step = "ended"] /\ reader.step = "read"
      BY <2>5, Zenon DEF mcpVars, session, RegisterTool, StartProcess, OpenStream, StartHttp, ServeStdio,
         ServeDecodeError, ReadEof, HandleNotification, NewAgentDiscovered, EquipMCP, Discovered, CloseTransport
    <3>3. StdioSound => StdioSound'
      <4>1. StdioSound => PipesSound'
        BY <3>b DEF StdioSound
      <4>2. QED
        BY <3>1, <3>2, <4>1, OtherMcpSound
    <3>4. reader'.step # "off" => kind = "stdio"
      BY <3>2 DEF McpIInv
    <3>5. QED
      BY <2>1, <3>3, <3>4 DEF McpIInv
  <2>6. QED
    BY <2>2, <2>3, <2>4, <2>5, Zenon DEF McpNext
<1>3. QED
  BY <1>1, <1>2, PTL DEF McpSpec

(* A call over the stdio transport returns another call's answer only if   *)
(* both read the same time for their id, for any number of clients and     *)
(* requests that were given up, and whatever the clock reads (mcp.go       *)
(* StdioTransport.SendRequest and readLoop).                               *)
THEOREM AnswersAreMine == McpSpec => []AnswerMine
<1>1. McpIInv => AnswerMine
  BY DEF McpIInv, StdioSound, CallsSound, CallSound, SameId, AnswerMine
<1>2. QED
  BY <1>1, McpInductive, PTL

(* The readLoop never waits for a caller: the buffered channel it hands an *)
(* answer to has room (mcp.go readLoop).                                   *)
THEOREM ReaderAlwaysFree == McpSpec => []ReaderFree
<1>1. McpIInv => ReaderFree
  BY DEF McpIInv, StdioSound, ReaderSound, ReaderFree
<1>2. QED
  BY <1>1, McpInductive, PTL

-----------------------------------------------------------------------------
(* The rate limiters.                                                      *)

Limiters == {"api", "ops"}
Stamps == [at : Nat, on : Nat, nth : Nat]
Bucket == [tokens : 0..Limit, lastRefill : Nat, lastSeen : Nat]
Requests == [ip : Ips, at : Nat]

(* A request that waits for the lock has not stalled for too long.         *)
WaitingSound ==
    /\ waiting \subseteq Requests
    /\ \A w \in waiting : w.at <= now /\ now - w.at <= MaxStall

(* The admissions of a limiter's span.                                     *)
Counted(l, S) ==
    /\ S \in SUBSET Stamps /\ IsFiniteSet(S)
    /\ \A h \in S : h.at <= h.on /\ h.on - h.at <= MaxStall /\ h.on <= now /\ now - h.on < Span(l)

AdmittedSound ==
    /\ admitted \in [Limiters -> [Ips -> SUBSET Stamps]]
    /\ \A l \in Limiters, ip \in Ips : Counted(l, admitted[l][ip])

(* The table remembers what was admitted.                                  *)
Remembered(ip) == IF ip \in DOMAIN hits THEN hits[ip] ELSE {}

HitsSound ==
    /\ DOMAIN hits \subseteq Ips
    /\ \A ip \in DOMAIN hits : hits[ip] \subseteq Stamps /\ IsFiniteSet(hits[ip])
    /\ \A ip \in Ips : /\ admitted["api"][ip] \subseteq Remembered(ip)
                       /\ Cardinality(admitted["api"][ip]) <= Limit

(* Admissions and tokens left never exceed the limit together; an address  *)
(* without a bucket has no admission in the span.                          *)
BucketSound(ip) ==
    /\ buckets[ip] \in Bucket
    /\ \A h \in admitted["ops"][ip] : h.on <= buckets[ip].lastRefill /\ h.on <= buckets[ip].lastSeen
    /\ buckets[ip].lastRefill <= now /\ buckets[ip].lastSeen <= now
    /\ Cardinality(admitted["ops"][ip]) + buckets[ip].tokens <= Limit

BucketsSound ==
    /\ DOMAIN buckets \subseteq Ips
    /\ \A ip \in Ips : IF ip \in DOMAIN buckets THEN BucketSound(ip) ELSE admitted["ops"][ip] = {}

RateIInv == now \in Nat /\ WaitingSound /\ AdmittedSound /\ HitsSound /\ BucketsSound

(* What the assumption says of each constant, and of the spans.            *)
LEMMA RateConstants ==
    /\ Limit \in Nat /\ Limit > 0 /\ Window \in Nat /\ Window > 0 /\ IdleTtl \in Nat
    /\ MaxStall \in Nat /\ MaxStall < Window
    /\ Span("api") = Window - MaxStall /\ Span("ops") \in Nat /\ Span("ops") > 0 /\ Span("ops") <= IdleTtl /\ Span("ops") <= Window
BY RateAssumption DEF Span

(* One stamp more is at most one more in the count.                        *)
LEMMA OneMore ==
    ASSUME NEW S, IsFiniteSet(S), NEW x
    PROVE  /\ IsFiniteSet(S \cup {x}) /\ Cardinality(S \cup {x}) \in Nat /\ Cardinality(S) \in Nat
           /\ Cardinality(S \cup {x}) <= Cardinality(S) + 1
<1>1. IsFiniteSet(S \cup {x}) /\ Cardinality(S \cup {x}) \in Nat /\ Cardinality(S) \in Nat
  BY FS_AddElement, FS_CardinalityType
<1>2. CASE x \in S
  <2>1. S \cup {x} = S
    BY <1>2
  <2>2. QED
    BY <1>1, <2>1
<1>3. CASE x \notin S
  BY <1>1, <1>3, FS_AddElement
<1>4. QED
  BY <1>1, <1>2, <1>3

(* An admission adds one stamp to one address of one limiter.              *)
LEMMA AdmitMoves ==
    ASSUME now \in Nat, AdmittedSound, NEW l \in Limiters, NEW ip \in Ips, NEW t \in Nat, NEW n \in 0..Limit,
           t <= now, now - t <= MaxStall, Admit(l, ip, Stamp(t, n)), now' = now
    PROVE  /\ AdmittedSound' /\ Stamp(t, n) \in Stamps
           /\ Stamp(t, n).at = t /\ Stamp(t, n).on = now
           /\ admitted'[l][ip] = admitted[l][ip] \cup {Stamp(t, n)}
           /\ \A k \in Limiters, a \in Ips : k # l \/ a # ip => admitted'[k][a] = admitted[k][a]
<1> DEFINE S == admitted[l][ip]
           x == Stamp(t, n)
           T == S \cup {x}
<1>1. Counted(l, S)
  BY DEF AdmittedSound
<1>2. x \in Stamps /\ x.at = t /\ x.on = now
  BY RateConstants DEF Stamp, Stamps
<1>3. admitted' = [admitted EXCEPT ![l][ip] = T]
  BY DEF Admit
<1> HIDE DEF x
<1>4. Span(l) > 0
  BY RateConstants DEF Limiters
<1>5. Counted(l, T)
  <2>1. IsFiniteSet(T) /\ T \in SUBSET Stamps
    BY <1>1, <1>2, OneMore DEF Counted
  <2>2. x.at <= x.on /\ x.on - x.at <= MaxStall /\ x.on <= now /\ now - x.on < Span(l)
    BY <1>2, <1>4
  <2>3. QED
    BY <1>1, <2>1, <2>2 DEF Counted
<1>6. T \in SUBSET Stamps
  BY <1>5 DEF Counted
<1> HIDE DEF S, T
<1>7. /\ admitted' \in [Limiters -> [Ips -> SUBSET Stamps]] /\ admitted'[l][ip] = T
      /\ \A k \in Limiters, a \in Ips : k # l \/ a # ip => admitted'[k][a] = admitted[k][a]
  BY <1>3, <1>6 DEF AdmittedSound
<1>8. \A k \in Limiters, a \in Ips : Counted(k, admitted'[k][a])
  BY <1>5, <1>7 DEF AdmittedSound
<1>9. AdmittedSound'
  BY <1>7, <1>8 DEF AdmittedSound, Counted
<1>10. QED
  BY <1>2, <1>7, <1>9 DEF S, T, x

(* What was admitted in the span is fresh for every request that waits.    *)
LEMMA AdmittedIsFresh ==
    ASSUME RateIInv, NEW w \in waiting, NEW ip \in Ips
    PROVE  /\ admitted["api"][ip] \subseteq Within(Remembered(ip), w.at)
           /\ ip \in DOMAIN hits => admitted["api"][ip] \subseteq Within(hits[ip], w.at)
           /\ IsFiniteSet(Within(Remembered(ip), w.at)) /\ Within(Remembered(ip), w.at) \subseteq Stamps
<1>1. /\ now \in Nat /\ w.at \in Nat /\ w.at <= now
      /\ Counted("api", admitted["api"][ip]) /\ admitted["api"][ip] \subseteq Remembered(ip)
  BY DEF RateIInv, WaitingSound, Requests, AdmittedSound, HitsSound, Limiters
<1>2. ASSUME NEW h \in admitted["api"][ip] PROVE w.at - h.at < Window
  <2>1. h.at \in Nat /\ h.on \in Nat /\ h.on - h.at <= MaxStall /\ now - h.on < Window - MaxStall
    BY <1>1, RateConstants DEF Counted, Stamps
  <2>2. QED
    BY <1>1, <2>1, RateConstants
<1>3. admitted["api"][ip] \subseteq Within(Remembered(ip), w.at)
  BY <1>1, <1>2 DEF Within
<1>4. IsFiniteSet(Remembered(ip)) /\ Remembered(ip) \subseteq Stamps
  BY FS_EmptySet DEF RateIInv, HitsSound, Remembered
<1>5. Within(Remembered(ip), w.at) \subseteq Remembered(ip)
  BY DEF Within
<1>6. IsFiniteSet(Within(Remembered(ip), w.at))
  BY <1>4, <1>5, FS_Subset
<1>7. QED
  BY <1>3, <1>4, <1>5, <1>6 DEF Remembered

(* What leaves the buckets and the ops admissions alone keeps them sound.  *)
LEMMA BucketsKept ==
    ASSUME RateIInv, buckets' = buckets, now' = now, \A ip \in Ips : admitted'["ops"][ip] = admitted["ops"][ip]
    PROVE  BucketsSound'
BY DEF RateIInv, BucketsSound, BucketSound

(* A table of hits that keeps what is fresh for a request: some addresses  *)
(* without a fresh hit leave it, others lose what is not fresh.            *)
Trims(table, t) ==
    /\ DOMAIN table \subseteq DOMAIN hits
    /\ \A a \in DOMAIN table : table[a] \in {hits[a], Within(hits[a], t)}
    /\ \A a \in DOMAIN hits \ DOMAIN table : Within(hits[a], t) = {}

LEMMA TrimmedTable ==
    ASSUME RateIInv, NEW w \in waiting, NEW table, Trims(table, w.at)
    PROVE  /\ DOMAIN table \subseteq Ips
           /\ \A a \in DOMAIN table : table[a] \subseteq Stamps /\ IsFiniteSet(table[a])
           /\ \A a \in Ips : admitted["api"][a] \subseteq IF a \in DOMAIN table THEN table[a] ELSE {}
<1>1. /\ DOMAIN hits \subseteq Ips
      /\ \A a \in DOMAIN hits : hits[a] \subseteq Stamps /\ IsFiniteSet(hits[a])
      /\ \A a \in Ips : admitted["api"][a] \subseteq Remembered(a)
  BY DEF RateIInv, HitsSound
<1>2. DOMAIN table \subseteq Ips
  BY <1>1 DEF Trims
<1>3. ASSUME NEW a \in DOMAIN table PROVE table[a] \subseteq Stamps /\ IsFiniteSet(table[a])
  <2>1. a \in DOMAIN hits /\ table[a] \subseteq hits[a]
    BY <1>3 DEF Trims, Within
  <2>2. QED
    BY <1>1, <2>1, FS_Subset
<1>4. ASSUME NEW a \in Ips PROVE admitted["api"][a] \subseteq IF a \in DOMAIN table THEN table[a] ELSE {}
  <2>1. a \in DOMAIN hits => admitted["api"][a] \subseteq Within(hits[a], w.at)
    BY AdmittedIsFresh
  <2>2. a \notin DOMAIN hits => admitted["api"][a] = {}
    BY <1>1 DEF Remembered
  <2>3. QED
    BY <1>1, <2>1, <2>2 DEF Trims, Remembered
<1>5. QED
  BY <1>2, <1>3, <1>4

(* A step of the REST limiter that refuses keeps what is fresh.            *)
LEMMA RefusalSound ==
    ASSUME RateIInv, NEW w \in waiting, Trims(hits', w.at), waiting' \subseteq waiting,
           now' = now, buckets' = buckets, admitted' = admitted
    PROVE  RateIInv'
<1>1. HitsSound'
  <2>1. /\ DOMAIN hits' \subseteq Ips
        /\ \A a \in DOMAIN hits' : hits'[a] \subseteq Stamps /\ IsFiniteSet(hits'[a])
        /\ \A a \in Ips : admitted["api"][a] \subseteq IF a \in DOMAIN hits' THEN hits'[a] ELSE {}
    BY TrimmedTable
  <2>2. QED
    BY <2>1 DEF RateIInv, HitsSound, Remembered
<1>2. WaitingSound' /\ AdmittedSound'
  BY DEF RateIInv, WaitingSound, AdmittedSound, Counted
<1>3. QED
  BY <1>1, <1>2, BucketsKept DEF RateIInv

(* An admission: below the limit, with the fresh hits kept.                *)
LEMMA RecordSound ==
    ASSUME RateIInv, NEW w \in waiting, NEW table, Trims(table, w.at), Cardinality(FreshHits(w)) < Limit,
           Record(w, table), waiting' \subseteq waiting, now' = now, buckets' = buckets
    PROVE  RateIInv'
<1> DEFINE F == FreshHits(w)
           S == admitted["api"][w.ip]
<1>1. PICK n \in 0..Limit :
         hits' = Put(table, w.ip, F \cup {Stamp(w.at, n)}) /\ Admit("api", w.ip, Stamp(w.at, n))
  BY DEF Record, Numbers
<1>2. /\ now \in Nat /\ AdmittedSound /\ w.ip \in Ips /\ w.at \in Nat /\ w.at <= now /\ now - w.at <= MaxStall
      /\ "api" \in Limiters /\ "ops" \in Limiters
  BY DEF RateIInv, WaitingSound, Requests, Limiters
<1> DEFINE x == Stamp(w.at, n)
<1>3. /\ AdmittedSound' /\ x \in Stamps /\ admitted'["api"][w.ip] = S \cup {x}
      /\ \A k \in Limiters, a \in Ips : k # "api" \/ a # w.ip => admitted'[k][a] = admitted[k][a]
  BY <1>1, <1>2, AdmitMoves
<1>4. F = Within(Remembered(w.ip), w.at)
  BY DEF FreshHits, Remembered, Within
<1>5. S \subseteq F /\ IsFiniteSet(F) /\ F \subseteq Stamps
  BY <1>2, <1>4, AdmittedIsFresh
<1>6. hits' = [a \in DOMAIN table \cup {w.ip} |-> IF a = w.ip THEN F \cup {x} ELSE table[a]]
  BY <1>1 DEF Put
<1> HIDE DEF F, S, x
<1>7. Cardinality(S \cup {x}) <= Limit
  <2>1. IsFiniteSet(S) /\ Cardinality(S) <= Cardinality(F) /\ Cardinality(F) \in Nat
    BY <1>5, FS_Subset, FS_CardinalityType
  <2>2. Cardinality(S \cup {x}) <= Cardinality(S) + 1 /\ {Cardinality(S \cup {x}), Cardinality(S)} \subseteq Nat
    BY <2>1, OneMore
  <2>3. Cardinality(F) < Limit
    BY DEF F
  <2>4. QED
    BY <2>1, <2>2, <2>3, RateConstants
<1>8. /\ DOMAIN table \subseteq Ips
      /\ \A a \in DOMAIN table : table[a] \subseteq Stamps /\ IsFiniteSet(table[a])
      /\ \A a \in Ips : admitted["api"][a] \subseteq IF a \in DOMAIN table THEN table[a] ELSE {}
  BY TrimmedTable
<1>9. HitsSound'
  <2>1. /\ DOMAIN hits' = DOMAIN table \cup {w.ip} /\ hits'[w.ip] = F \cup {x}
        /\ \A a \in DOMAIN table \ {w.ip} : hits'[a] = table[a]
    BY <1>6
  <2>2. IsFiniteSet(F \cup {x}) /\ F \cup {x} \subseteq Stamps
    BY <1>3, <1>5, OneMore
  <2>3. DOMAIN hits' \subseteq Ips /\ \A a \in DOMAIN hits' : hits'[a] \subseteq Stamps /\ IsFiniteSet(hits'[a])
    BY <1>2, <1>8, <2>1, <2>2
  <2>4. admitted'["api"][w.ip] \subseteq hits'[w.ip] /\ Cardinality(admitted'["api"][w.ip]) <= Limit
    BY <1>3, <1>5, <1>7, <2>1
  <2>5. ASSUME NEW a \in Ips \ {w.ip}
        PROVE  /\ admitted'["api"][a] \subseteq IF a \in DOMAIN hits' THEN hits'[a] ELSE {}
               /\ Cardinality(admitted'["api"][a]) <= Limit
    <3>1. admitted'["api"][a] = admitted["api"][a]
      BY <1>2, <1>3
    <3>2. Cardinality(admitted["api"][a]) <= Limit
      BY DEF RateIInv, HitsSound
    <3>3. QED
      BY <1>8, <2>1, <3>1, <3>2
  <2>6. QED
    BY <2>1, <2>3, <2>4, <2>5 DEF HitsSound, Remembered
<1>10. BucketsSound'
  <2>1. \A a \in Ips : admitted'["ops"][a] = admitted["ops"][a]
    BY <1>2, <1>3
  <2>2. QED
    BY <2>1, BucketsKept
<1>11. WaitingSound'
  BY DEF RateIInv, WaitingSound
<1>12. QED
  BY <1>2, <1>3, <1>9, <1>10, <1>11 DEF RateIInv

(* allow: an address below its limit is admitted, and an evicted one has   *)
(* no admission left in the span.                                          *)
LEMMA ApiRequestSound ==
    ASSUME RateIInv, NEW w \in waiting, ApiRequest(w)
    PROVE  RateIInv'
<1>0. now' = now /\ buckets' = buckets /\ waiting' \subseteq waiting /\ Allow(w)
  BY DEF ApiRequest
<1>1. CASE hits' = Put(hits, w.ip, FreshHits(w)) /\ UNCHANGED admitted
  <2>1. CASE w.ip \in DOMAIN hits
    <3>1. Trims(hits', w.at)
      BY <1>1, <2>1 DEF Trims, Put, FreshHits
    <3>2. QED
      BY <1>0, <1>1, <3>1, RefusalSound
  <2>2. CASE w.ip \notin DOMAIN hits
    <3>1. HitsSound /\ w.ip \in Ips /\ hits' = Put(hits, w.ip, {})
      BY <1>1, <2>2 DEF RateIInv, WaitingSound, Requests, FreshHits
    <3>2. HitsSound'
      BY <1>1, <2>2, <3>1, FS_EmptySet DEF HitsSound, Put, Remembered
    <3>3. WaitingSound' /\ AdmittedSound' /\ BucketsSound'
      BY <1>0, <1>1, BucketsKept DEF RateIInv, WaitingSound, AdmittedSound, Counted
    <3>4. QED
      BY <1>0, <3>2, <3>3 DEF RateIInv
  <2>3. QED
    BY <2>1, <2>2
<1>2. CASE Cardinality(FreshHits(w)) < Limit /\ Record(w, hits)
  <2>1. Trims(hits, w.at)
    BY DEF Trims
  <2>2. QED
    BY <1>0, <1>2, <2>1, RecordSound
<1>3. ASSUME FreshHits(w) = {}, NEW k \in DOMAIN hits, NEW P \in SUBSET DOMAIN hits, Evictable(k, w.at),
             Record(w, Drop(Swept(P, w.at), k))
      PROVE  RateIInv'
  <2>1. Trims(Drop(Swept(P, w.at), k), w.at)
    BY <1>3 DEF Trims, Drop, Swept, Restrict, Evictable
  <2>2. Cardinality(FreshHits(w)) < Limit
    BY <1>3, FS_EmptySet, RateConstants
  <2>3. QED
    BY <1>0, <1>3, <2>1, <2>2, RecordSound
<1>4. CASE hits' = Swept(DOMAIN hits, w.at) /\ UNCHANGED admitted
  <2>1. Trims(hits', w.at)
    BY <1>4 DEF Trims, Swept
  <2>2. QED
    BY <1>0, <1>4, <2>1, RefusalSound
<1>5. QED
  BY <1>0, <1>1, <1>2, <1>3, <1>4 DEF Allow

(* A request reads the clock.                                              *)
LEMMA ReadClockSound ==
    ASSUME RateIInv, NEW ip \in Ips, ReadClock(ip)
    PROVE  RateIInv'
<1>1. /\ now \in Nat /\ now' = now /\ hits' = hits /\ buckets' = buckets /\ admitted' = admitted
      /\ waiting' = waiting \cup {[ip |-> ip, at |-> now]}
  BY DEF RateIInv, ReadClock
<1>2. WaitingSound'
  BY <1>1, RateConstants DEF RateIInv, WaitingSound, Requests
<1>3. AdmittedSound' /\ HitsSound' /\ BucketsSound'
  BY <1>1, BucketsKept DEF RateIInv, AdmittedSound, Counted, HitsSound, Remembered
<1>4. QED
  BY <1>1, <1>2, <1>3 DEF RateIInv

(* Whole windows count: none before the window is over.                    *)
LEMMA RefillBounds ==
    ASSUME now \in Nat, NEW tb \in Bucket, tb.lastRefill <= now
    PROVE  /\ Refill(tb) \in Bucket /\ Refill(tb).lastRefill = now /\ Refill(tb).lastSeen = tb.lastSeen
           /\ now - tb.lastRefill < Window => Refill(tb).tokens = tb.tokens
<1> DEFINE gap == now - tb.lastRefill
           windows == gap \div Window
           more == tb.tokens + windows * Limit
           refilled == IF more > Limit THEN Limit ELSE more
<1>1. tb.tokens \in 0..Limit /\ tb.lastRefill \in Nat /\ tb.lastSeen \in Nat
  BY DEF Bucket
<1>2. gap \in Nat
  BY <1>1
<1>3. Refill(tb) = [tb EXCEPT !.lastRefill = now, !.tokens = refilled]
  BY DEF Refill
<1> HIDE DEF gap
<1>4. windows \in Nat /\ (gap < Window => windows = 0)
  BY <1>2, RateConstants
<1> HIDE DEF windows
<1>5. windows * Limit \in Nat /\ (windows = 0 => windows * Limit = 0)
  BY <1>4, RateConstants
<1>6. refilled \in 0..Limit /\ (windows = 0 => refilled = tb.tokens)
  <2> DEFINE w == windows * Limit
  <2>1. w \in Nat /\ (windows = 0 => w = 0)
    BY <1>5
  <2> HIDE DEF w
  <2>2. QED
    BY <1>1, <2>1, RateConstants DEF w
<1> HIDE DEF refilled
<1>7. /\ Refill(tb) \in Bucket /\ Refill(tb).lastRefill = now /\ Refill(tb).lastSeen = tb.lastSeen
      /\ Refill(tb).tokens = refilled
  BY <1>1, <1>3, <1>6 DEF Bucket
<1>8. QED
  BY <1>4, <1>6, <1>7 DEF gap

(* What leaves the slices and the api admissions alone keeps them sound.   *)
LEMMA HitsKept ==
    ASSUME RateIInv, hits' = hits, now' = now, \A ip \in Ips : admitted'["api"][ip] = admitted["api"][ip]
    PROVE  HitsSound'
BY DEF RateIInv, HitsSound, Remembered

(* The table of buckets after a request of one address.                    *)
LEMMA PutBucket ==
    ASSUME RateIInv, NEW ip \in Ips, NEW b \in Bucket, buckets' = Put(buckets, ip, b), now' = now,
           \A a \in Ips \ {ip} : admitted'["ops"][a] = admitted["ops"][a],
           \A h \in admitted'["ops"][ip] : h.on <= now, b.lastRefill = now, b.lastSeen = now,
           Cardinality(admitted'["ops"][ip]) + b.tokens <= Limit
    PROVE  BucketsSound'
<1>1. /\ DOMAIN buckets' = DOMAIN buckets \cup {ip} /\ buckets'[ip] = b
      /\ \A a \in DOMAIN buckets \ {ip} : buckets'[a] = buckets[a]
  BY DEF Put
<1>2. BucketSound(ip)'
  <2>1. now \in Nat
    BY DEF RateIInv
  <2>2. QED
    BY <1>1, <2>1 DEF BucketSound
<1>3. \A a \in DOMAIN buckets \ {ip} : a \in Ips /\ BucketSound(a)
  BY DEF RateIInv, BucketsSound
<1>4. \A a \in DOMAIN buckets \ {ip} : BucketSound(a)'
  BY <1>1, <1>3 DEF BucketSound
<1>5. QED
  BY <1>1, <1>2, <1>3, <1>4 DEF RateIInv, BucketsSound

(* The token bucket: an admission costs a token.                           *)
LEMMA OpsRequestSound ==
    ASSUME RateIInv, NEW ip \in Ips, OpsRequest(ip)
    PROVE  RateIInv'
<1>0. /\ now \in Nat /\ AdmittedSound /\ BucketsSound /\ now' = now /\ hits' = hits /\ RateLimitMiddleware(ip)
      /\ waiting' = waiting
  BY DEF RateIInv, OpsRequest
<1>a. WaitingSound'
  BY <1>0 DEF RateIInv, WaitingSound
<1>1. CASE UNCHANGED <<buckets, admitted>>
  <2>1. AdmittedSound'
    BY <1>0, <1>1 DEF AdmittedSound, Counted
  <2>2. HitsSound' /\ BucketsSound'
    BY <1>0, <1>1, HitsKept, BucketsKept
  <2>3. QED
    BY <1>0, <1>a, <2>1, <2>2 DEF RateIInv
<1> DEFINE S == admitted["ops"][ip]
           old == BucketOf(ip)
           tb == Refill(old)
<1>2. Counted("ops", S) /\ "api" \in Limiters /\ "ops" \in Limiters
  BY <1>0 DEF AdmittedSound, Limiters
<1>3. /\ old \in Bucket /\ old.lastRefill <= now /\ old.lastSeen = now
      /\ \A h \in S : h.on <= old.lastRefill
      /\ Cardinality(S) + old.tokens <= Limit
  <2>1. CASE ip \in DOMAIN buckets
    <3>1. BucketSound(ip) /\ old = [buckets[ip] EXCEPT !.lastSeen = now]
      BY <1>0, <2>1 DEF BucketsSound, BucketOf
    <3>2. buckets[ip] \in Bucket
      BY <3>1 DEF BucketSound
    <3>3. /\ old \in Bucket /\ old.lastRefill = buckets[ip].lastRefill /\ old.lastSeen = now
          /\ old.tokens = buckets[ip].tokens
      BY <1>0, <3>1, <3>2 DEF Bucket
    <3> HIDE DEF old
    <3>4. QED
      BY <3>1, <3>3 DEF BucketSound
  <2>2. CASE ip \notin DOMAIN buckets
    <3>1. S = {} /\ old = [tokens |-> Limit, lastRefill |-> now, lastSeen |-> now]
      BY <1>0, <2>2 DEF BucketsSound, BucketOf, NewTokenBucket
    <3>2. Limit \in 0..Limit
      BY RateConstants
    <3>3. old \in Bucket /\ old.lastRefill = now /\ old.lastSeen = now /\ old.tokens = Limit
      BY <1>0, <3>1, <3>2 DEF Bucket
    <3>4. Cardinality(S) = 0
      BY <3>1, FS_EmptySet
    <3> HIDE DEF old, S
    <3>5. Cardinality(S) + old.tokens <= Limit /\ old.lastRefill <= now
      BY <1>0, <3>3, <3>4, RateConstants
    <3>6. QED
      BY <3>1, <3>3, <3>5
  <2>3. QED
    BY <2>1, <2>2
<1> HIDE DEF old
<1>4. /\ tb \in Bucket /\ tb.lastRefill = now /\ tb.lastSeen = now
      /\ now - old.lastRefill < Window => tb.tokens = old.tokens
  BY <1>0, <1>3, RefillBounds
<1> HIDE DEF tb
<1>5. IsFiniteSet(S) /\ Cardinality(S) \in Nat /\ S \in SUBSET Stamps
  BY <1>2, FS_CardinalityType DEF Counted
<1>6. Cardinality(S) + tb.tokens <= Limit
  <2>1. CASE now - old.lastRefill < Window
    BY <1>3, <1>4, <2>1
  <2>2. CASE ~(now - old.lastRefill < Window)
    <3>1. S = {}
      <4>1. SUFFICES ASSUME NEW h \in S PROVE FALSE
        OBVIOUS
      <4>2. now - h.on < Window /\ h.on <= old.lastRefill
        <5>1. now - h.on < Span("ops") /\ h.on \in Nat
          BY <1>2, <1>5 DEF Counted, Stamps
        <5>2. QED
          BY <1>0, <1>3, <5>1, RateConstants
      <4>3. h.on \in Nat /\ old.lastRefill \in Nat
        BY <1>3, <1>5 DEF Stamps, Bucket
      <4>4. QED
        BY <1>0, <2>2, <4>2, <4>3, RateConstants
    <3>2. Cardinality(S) = 0
      BY <3>1, FS_EmptySet
    <3>3. tb.tokens \in 0..Limit
      BY <1>4 DEF Bucket
    <3>4. QED
      BY <3>2, <3>3, RateConstants
  <2>3. QED
    BY <2>1, <2>2
<1>7. \A h \in S : h.on <= now
  BY <1>2 DEF Counted
<1>8. tb.tokens \in 0..Limit
  BY <1>4 DEF Bucket
<1>9. ASSUME tb.tokens > 0, buckets' = Put(buckets, ip, [tb EXCEPT !.tokens = @ - 1]),
             NEW m \in Numbers(admitted["ops"][ip], now), Admit("ops", ip, Stamp(now, m))
      PROVE  RateIInv'
  <2> DEFINE n == tb.tokens - 1
             b == [tb EXCEPT !.tokens = n]
             x == Stamp(now, m)
             T == S \cup {x}
  <2>1. n \in 0..Limit
    BY <1>8, <1>9, RateConstants
  <2>2. n = tb.tokens - 1
    OBVIOUS
  <2>3. buckets' = Put(buckets, ip, b)
    BY <1>9
  <2> HIDE DEF n
  <2>4. b \in Bucket /\ b.lastRefill = now /\ b.lastSeen = now /\ b.tokens = n
    BY <1>4, <2>1 DEF Bucket
  <2> HIDE DEF b
  <2>5. m \in 0..Limit
    BY <1>9 DEF Numbers
  <2>6. /\ AdmittedSound' /\ x.on = now /\ admitted'["ops"][ip] = T
        /\ \A k \in Limiters, a \in Ips : k # "ops" \/ a # ip => admitted'[k][a] = admitted[k][a]
    <3>1. now <= now /\ now - now <= MaxStall
      BY <1>0, RateConstants
    <3>2. QED
      BY <1>0, <1>2, <1>9, <2>5, <3>1, AdmitMoves
  <2> HIDE DEF x
  <2>7. Cardinality(T) \in Nat /\ Cardinality(T) <= Cardinality(S) + 1 /\ \A h \in T : h.on <= now
    <3>1. Cardinality(T) \in Nat /\ Cardinality(T) <= Cardinality(S) + 1
      BY <1>5, OneMore
    <3>2. \A h \in T : h.on <= now
      BY <1>0, <1>7, <2>6
    <3>3. QED
      BY <3>1, <3>2
  <2> HIDE DEF T
  <2>8. Cardinality(T) + b.tokens <= Limit
    BY <1>5, <1>6, <1>8, <2>1, <2>2, <2>4, <2>7, RateConstants
  <2>9. \A a \in Ips \ {ip} : admitted'["ops"][a] = admitted["ops"][a]
    BY <1>2, <2>6
  <2>10. BucketsSound'
    BY <1>0, <2>3, <2>4, <2>6, <2>7, <2>8, <2>9, PutBucket
  <2>11. \A a \in Ips : admitted'["api"][a] = admitted["api"][a]
    BY <1>2, <2>6
  <2>12. HitsSound'
    BY <1>0, <2>11, HitsKept
  <2>13. QED
    BY <1>0, <1>a, <2>6, <2>10, <2>12 DEF RateIInv
<1>10. CASE buckets' = Put(buckets, ip, tb) /\ UNCHANGED admitted
  <2>1. BucketsSound'
    BY <1>0, <1>4, <1>6, <1>7, <1>10, PutBucket
  <2>2. AdmittedSound'
    BY <1>0, <1>10 DEF AdmittedSound, Counted
  <2>3. HitsSound'
    BY <1>0, <1>10, HitsKept
  <2>4. QED
    BY <1>0, <1>a, <2>1, <2>2, <2>3 DEF RateIInv
<1>11. QED
  BY <1>0, <1>1, <1>9, <1>10, Zenon DEF RateLimitMiddleware, tb, old

(* The sweeper removes only buckets that idled for longer than the span.   *)
LEMMA SweepSound ==
    ASSUME RateIInv, Sweep
    PROVE  RateIInv'
<1>0. /\ now \in Nat /\ AdmittedSound /\ BucketsSound /\ now' = now /\ hits' = hits /\ admitted' = admitted
      /\ waiting' = waiting
  BY DEF RateIInv, Sweep
<1> DEFINE D == {ip \in DOMAIN buckets : buckets[ip].lastSeen >= now - IdleTtl}
<1>1. DOMAIN buckets' = D /\ \A ip \in D : buckets'[ip] = buckets[ip]
  BY DEF Sweep, Restrict
<1>2. \A ip \in D : ip \in Ips /\ BucketSound(ip)
  BY <1>0 DEF BucketsSound
<1>3. \A ip \in D : BucketSound(ip)'
  BY <1>0, <1>1, <1>2 DEF BucketSound
<1>4. ASSUME NEW ip \in Ips, ip \notin D PROVE admitted["ops"][ip] = {}
  <2>1. CASE ip \notin DOMAIN buckets
    BY <1>0, <2>1 DEF BucketsSound
  <2>2. CASE ip \in DOMAIN buckets
    <3>1. BucketSound(ip) /\ ~(buckets[ip].lastSeen >= now - IdleTtl)
      BY <1>0, <1>4, <2>2 DEF BucketsSound
    <3>2. buckets[ip].lastSeen \in Nat
      BY <3>1 DEF BucketSound, Bucket
    <3>3. Counted("ops", admitted["ops"][ip])
      BY <1>0 DEF AdmittedSound, Limiters
    <3>4. ASSUME NEW h \in admitted["ops"][ip] PROVE FALSE
      <4>1. h.on \in Nat /\ now - h.on < Span("ops")
        BY <3>3 DEF Counted, Stamps
      <4>2. h.on <= buckets[ip].lastSeen
        BY <3>1 DEF BucketSound
      <4>3. QED
        BY <1>0, <3>1, <3>2, <4>1, <4>2, RateConstants
    <3>5. QED
      BY <3>4
  <2>3. QED
    BY <2>1, <2>2
<1> HIDE DEF D
<1>5. BucketsSound'
  BY <1>0, <1>1, <1>2, <1>3, <1>4 DEF BucketsSound
<1>6. AdmittedSound'
  BY <1>0 DEF AdmittedSound, Counted
<1>7. HitsSound'
  BY <1>0, HitsKept
<1>8. WaitingSound'
  BY <1>0 DEF RateIInv, WaitingSound
<1>9. QED
  BY <1>0, <1>5, <1>6, <1>7, <1>8 DEF RateIInv

(* The clock's tick takes admissions out of the spans and adds none.       *)
LEMMA TimePassesSound ==
    ASSUME RateIInv, TimePasses
    PROVE  RateIInv'
<1>0. /\ now \in Nat /\ AdmittedSound /\ HitsSound /\ BucketsSound /\ now' = now + 1
      /\ hits' = hits /\ buckets' = buckets /\ waiting' = waiting
  BY DEF RateIInv, TimePasses
<1>1. \A l \in Limiters, ip \in Ips : admitted'[l][ip] = {h \in admitted[l][ip] : now + 1 - h.on < Span(l)}
  BY DEF TimePasses, Limiters
<1>2. \A l \in Limiters, ip \in Ips : /\ admitted[l][ip] \in SUBSET Stamps
                                     /\ admitted'[l][ip] \subseteq admitted[l][ip]
                                     /\ Counted(l, admitted[l][ip])
  BY <1>0, <1>1 DEF AdmittedSound
<1>3. ASSUME NEW l \in Limiters, NEW ip \in Ips
      PROVE  /\ IsFiniteSet(admitted'[l][ip]) /\ Cardinality(admitted'[l][ip]) \in Nat
             /\ Cardinality(admitted[l][ip]) \in Nat
             /\ Cardinality(admitted'[l][ip]) <= Cardinality(admitted[l][ip])
  <2>1. IsFiniteSet(admitted[l][ip]) /\ admitted'[l][ip] \subseteq admitted[l][ip]
    BY <1>2 DEF Counted
  <2>2. QED
    BY <2>1, FS_Subset, FS_CardinalityType
<1>4. AdmittedSound'
  <2>1. admitted' \in [Limiters -> [Ips -> SUBSET Stamps]]
    <3>1. admitted' = [l \in Limiters |-> [ip \in Ips |-> {h \in admitted[l][ip] : now + 1 - h.on < Span(l)}]]
      BY DEF TimePasses, Limiters
    <3>2. QED
      BY <1>2, <3>1
  <2>2. ASSUME NEW l \in Limiters, NEW ip \in Ips PROVE Counted(l, admitted[l][ip])'
    <3>1. ASSUME NEW h \in admitted'[l][ip]
          PROVE  h.at <= h.on /\ h.on - h.at <= MaxStall /\ h.on <= now' /\ now' - h.on < Span(l)
      <4>1. h \in admitted[l][ip] /\ now + 1 - h.on < Span(l)
        BY <1>1
      <4>2. h.on \in Nat /\ h.on <= now /\ h.at <= h.on /\ h.on - h.at <= MaxStall
        BY <1>2, <4>1 DEF Stamps, Counted
      <4>3. QED
        BY <1>0, <4>1, <4>2
    <3>2. admitted'[l][ip] \in SUBSET Stamps
      BY <1>2
    <3>3. QED
      BY <1>3, <3>1, <3>2 DEF Counted, Span
  <2>3. QED
    BY <2>1, <2>2 DEF AdmittedSound
<1>5. HitsSound'
  <2>1. ASSUME NEW ip \in Ips PROVE admitted'["api"][ip] \subseteq Remembered(ip)'
    <3>1. admitted'["api"][ip] \subseteq admitted["api"][ip] /\ admitted["api"][ip] \subseteq Remembered(ip)
      BY <1>0, <1>2 DEF HitsSound, Limiters
    <3>2. QED
      BY <1>0, <3>1 DEF Remembered
  <2>2. ASSUME NEW ip \in Ips PROVE Cardinality(admitted'["api"][ip]) <= Limit
    <3>1. Cardinality(admitted["api"][ip]) <= Limit /\ "api" \in Limiters
      BY <1>0 DEF HitsSound, Limiters
    <3>2. QED
      BY <1>3, <3>1, RateConstants
  <2>3. QED
    BY <1>0, <2>1, <2>2 DEF HitsSound
<1>6. BucketsSound'
  <2>0. "ops" \in Limiters
    BY DEF Limiters
  <2>1. ASSUME NEW ip \in Ips, ip \in DOMAIN buckets PROVE BucketSound(ip)'
    <3>1. BucketSound(ip)
      BY <1>0, <2>1 DEF BucketsSound
    <3>2. /\ buckets[ip].tokens \in 0..Limit /\ buckets[ip].lastRefill \in Nat /\ buckets[ip].lastSeen \in Nat
          /\ buckets[ip].lastRefill <= now /\ buckets[ip].lastSeen <= now
      BY <3>1 DEF BucketSound, Bucket
    <3>3. buckets[ip].lastRefill <= now + 1 /\ buckets[ip].lastSeen <= now + 1
      BY <1>0, <3>2
    <3>4. Cardinality(admitted'["ops"][ip]) + buckets[ip].tokens <= Limit
      <4>1. Cardinality(admitted["ops"][ip]) + buckets[ip].tokens <= Limit
        BY <3>1 DEF BucketSound
      <4>2. QED
        BY <1>3, <2>0, <3>2, <4>1, RateConstants
    <3>5. admitted'["ops"][ip] \subseteq admitted["ops"][ip]
      BY <1>2, <2>0
    <3>6. QED
      BY <1>0, <3>1, <3>3, <3>4, <3>5 DEF BucketSound
  <2>2. ASSUME NEW ip \in Ips, ip \notin DOMAIN buckets PROVE admitted'["ops"][ip] = {}
    BY <1>0, <1>2, <2>0, <2>2 DEF BucketsSound
  <2>3. QED
    BY <1>0, <2>1, <2>2 DEF BucketsSound
<1>7. now' \in Nat
  BY <1>0
<1>8. WaitingSound'
  <2>1. ASSUME NEW w \in waiting PROVE w \in Requests /\ w.at <= now' /\ now' - w.at <= MaxStall
    <3>1. w \in Requests /\ w.at \in Nat /\ w.at <= now
      BY DEF RateIInv, WaitingSound, Requests
    <3>2. now - w.at < MaxStall
      BY DEF TimePasses
    <3>3. QED
      BY <1>0, <3>1, <3>2, RateConstants
  <2>2. QED
    BY <1>0, <2>1 DEF WaitingSound
<1>9. QED
  BY <1>4, <1>5, <1>6, <1>7, <1>8 DEF RateIInv

(* Neither limiter admits an address more than Limit times within its      *)
(* span, for any number of addresses and any table size, whatever order    *)
(* the sections run in, through evictions, refills and idle sweeps         *)
(* (pkg/api and pkg/server rate limiters).                                 *)
THEOREM WindowsBounded == RateSpec => []WindowBounded
<1>1. RateInit => RateIInv
  <2> SUFFICES ASSUME RateInit PROVE RateIInv
    OBVIOUS
  <2>1. /\ now = 0 /\ waiting = {} /\ hits = Empty /\ buckets = Empty
        /\ admitted = [l \in Limiters |-> [ip \in Ips |-> {}]]
    BY DEF RateInit, Limiters
  <2>2. DOMAIN Empty = {}
    BY DEF Empty
  <2>3. (\A l : Counted(l, {})) /\ Cardinality({}) = 0
    BY FS_EmptySet DEF Counted
  <2>4. \A l \in Limiters, ip \in Ips : admitted[l][ip] = {}
    BY <2>1
  <2>5. AdmittedSound
    BY <2>1, <2>3, <2>4 DEF AdmittedSound
  <2>6. HitsSound
    BY <2>1, <2>2, <2>3, <2>4, RateConstants DEF HitsSound, Remembered, Limiters
  <2>7. BucketsSound
    BY <2>1, <2>2, <2>4 DEF BucketsSound, Limiters
  <2>8. WaitingSound
    BY <2>1 DEF WaitingSound
  <2>9. QED
    BY <2>1, <2>5, <2>6, <2>7, <2>8 DEF RateIInv
<1>2. RateIInv /\ [RateNext]_rateVars => RateIInv'
  <2> SUFFICES ASSUME RateIInv, [RateNext]_rateVars PROVE RateIInv'
    OBVIOUS
  <2>1. CASE UNCHANGED rateVars
    <3>1. now' = now /\ waiting' = waiting /\ hits' = hits /\ buckets' = buckets /\ admitted' = admitted
      BY <2>1 DEF rateVars
    <3>2. AdmittedSound' /\ WaitingSound'
      BY <3>1 DEF RateIInv, AdmittedSound, Counted, WaitingSound
    <3>3. HitsSound' /\ BucketsSound'
      BY <3>1, HitsKept, BucketsKept
    <3>4. QED
      BY <3>1, <3>2, <3>3 DEF RateIInv
  <2>2. QED
    BY <2>1, ReadClockSound, ApiRequestSound, OpsRequestSound, SweepSound, TimePassesSound DEF RateNext
<1>3. RateIInv => WindowBounded
  <2> SUFFICES ASSUME RateIInv, NEW l \in {"api", "ops"}, NEW ip \in Ips
               PROVE  Cardinality(admitted[l][ip]) <= Limit
    BY DEF WindowBounded
  <2>1. CASE l = "api"
    BY <2>1 DEF RateIInv, HitsSound
  <2>2. CASE l = "ops" /\ ip \in DOMAIN buckets
    <3>1. /\ Cardinality(admitted["ops"][ip]) + buckets[ip].tokens <= Limit /\ buckets[ip].tokens \in 0..Limit
          /\ IsFiniteSet(admitted["ops"][ip])
      BY <2>2 DEF RateIInv, BucketsSound, BucketSound, Bucket, AdmittedSound, Counted, Limiters
    <3>2. Cardinality(admitted["ops"][ip]) \in Nat
      BY <3>1, FS_CardinalityType
    <3>3. QED
      BY <2>2, <3>1, <3>2, RateConstants
  <2>3. CASE l = "ops" /\ ip \notin DOMAIN buckets
    <3>1. Cardinality(admitted["ops"][ip]) = 0
      BY <2>3, FS_EmptySet DEF RateIInv, BucketsSound
    <3>2. QED
      BY <2>3, <3>1, RateConstants
  <2>4. QED
    BY <2>1, <2>2, <2>3
<1>4. QED
  BY <1>1, <1>2, <1>3, PTL DEF RateSpec

-----------------------------------------------------------------------------
(* The dashboard and the engine it feeds.                                  *)

(* The numbers of a list are all different.                                *)
Distinct(s) == \A i, j \in 1..Len(s) : s[i] = s[j] => i = j

(* A list of things made so far.                                           *)
ListOf(s, n) == s \in Seq(Nat) /\ ToSet(s) \subseteq 1..n

StagedTask == [desc : Nat, role : StageRoles, agent : Nat, hoped : BOOLEAN, dropped : BOOLEAN, done : BOOLEAN]

CreatorTypeOK ==
    /\ agent \in Seq(StageRoles) /\ task \in Seq(StagedTask)
    /\ ListOf(regAgents, Len(agent)) /\ ListOf(pendAgents, Len(agent))
    /\ ListOf(newAgents, Len(agent)) /\ ListOf(crewAgents, Len(agent)) /\ crewAgents # <<>>
    /\ ListOf(regTasks, Len(task)) /\ ListOf(pendTasks, Len(task))
    /\ ListOf(newTasks, Len(task)) /\ ListOf(crewTasks, Len(task))

(* A task is in one place: queued, taken or in the crew; it has no agent   *)
(* before it is in the crew, and a task that was deleted is in none.       *)
QueuesSound ==
    /\ Distinct(pendTasks) /\ Distinct(newTasks)
    /\ \A t \in ToSet(pendTasks) : t \notin ToSet(newTasks) /\ t \notin ToSet(crewTasks)
    /\ \A t \in ToSet(newTasks) : t \notin ToSet(crewTasks)
    /\ \A t \in ToSet(pendTasks) \cup ToSet(newTasks) : task[t].agent = 0 /\ ~task[t].dropped
    /\ \A t \in ToSet(crewTasks) : ~task[t].dropped

(* A task whose agent was staged before it and not withdrawn.              *)
Hopeful(t) == task[t].hoped /\ task[t].role \notin withdrawn

(* Its role is that of one of these agents.                                *)
Covered(t, S) == \E a \in S : agent[a] = task[t].role

(* The agents that are ahead of a task's injection.                        *)
Taken == ToSet(newAgents) \cup ToSet(crewAgents)

(* The agent a task hopes for is never behind it: while the tasks wait it  *)
(* may still be queued, when the agents are pulled it is with the engine.  *)
HopesSound ==
    /\ \A t \in ToSet(pendTasks) : Hopeful(t) => Covered(t, ToSet(pendAgents) \cup Taken)
    /\ \A t \in ToSet(newTasks) :
          Hopeful(t) => Covered(t, Taken) \/ (step = "pull" /\ Covered(t, ToSet(pendAgents)))
    /\ \A t \in ToSet(crewTasks) :
          task[t].agent \in 1..Len(agent) /\ (Hopeful(t) => agent[task[t].agent] = task[t].role)

(* What the engine has taken is injected before it polls again.            *)
EngineSound ==
    /\ step # "inject" => newAgents = <<>>
    /\ step \in {"poll", "run"} => newTasks = <<>>

CreatorIInv == CreatorTypeOK /\ QueuesSound /\ HopesSound /\ EngineSound

(* Every nonempty set of natural numbers has a least element.              *)
LEMMA LeastIn == ASSUME NEW T \in SUBSET Nat, T # {} PROVE \E x \in T : \A y \in T : x <= y
<1> DEFINE R == {ss \in Nat \X Nat : ss[1] < ss[2]}
<1>1. IsWellFoundedOn(R, Nat)
  <2>1. R = OpToRel(<, Nat)
    BY Zenon DEF OpToRel
  <2> HIDE DEF R
  <2>2. QED
  BY <2>1, NatLessThanWellFounded, Zenon
<1>2. \A y, x \in Nat : y < x => <<y, x>> \in R
  OBVIOUS
<1> HIDE DEF R
<1>3. PICK x \in T : \A y \in T : <<y, x>> \notin R
  BY <1>1, WFMin
<1>4. ASSUME NEW y \in T PROVE x <= y
  <2>1. x \in Nat /\ y \in Nat
    OBVIOUS
  <2>2. ~(y < x)
    BY <1>2, <1>3, <2>1, Zenon
  <2>3. QED
    BY <2>1, <2>2
<1>5. QED
  BY <1>4

(* The values of a list are what stands at its places.                     *)
LEMMA SetPlaces ==
    ASSUME NEW s \in Seq(Nat)
    PROVE  /\ \A j \in 1..Len(s) : s[j] \in ToSet(s)
           /\ \A x \in ToSet(s) : \E j \in 1..Len(s) : s[j] = x
  BY DEF ToSet

(* RemoveFirst removes the value at one of its places.                     *)
LEMMA FirstPlace ==
    ASSUME NEW s \in Seq(Nat), NEW e \in ToSet(s)
    PROVE  \E i \in 1..Len(s) : s[i] = e /\ RemoveFirst(s, e) = RemoveAt(s, i)
<1> DEFINE I == {i \in 1..Len(s) : s[i] = e}
<1>1. I # {} /\ I \in SUBSET Nat
  BY DEF ToSet
<1>2. RemoveFirst(s, e) = RemoveAt(s, Min(I))
  BY <1>1 DEF RemoveFirst, SelectInSeq
<1>3. Min(I) = CHOOSE x \in I : \A y \in I : x <= y
  BY DEF Min
<1> HIDE DEF I
<1>4. Min(I) \in I
  BY <1>1, <1>3, LeastIn
<1>5. QED
  BY <1>2, <1>4 DEF I

(* RemoveAt closes the gap.                                                *)
LEMMA RemoveAtList ==
    ASSUME NEW s \in Seq(Nat), NEW i \in 1..Len(s)
    PROVE  /\ RemoveAt(s, i) \in Seq(Nat)
           /\ Len(RemoveAt(s, i)) = Len(s) - 1
           /\ \A j \in 1..Len(s) - 1 : RemoveAt(s, i)[j] = IF j < i THEN s[j] ELSE s[j + 1]
<1> DEFINE front == SubSeq(s, 1, i - 1)
           back == SubSeq(s, i + 1, Len(s))
<1>1. front \in Seq(Nat) /\ Len(front) = i - 1 /\ \A j \in 1..(i - 1) : front[j] = s[j]
  BY SubSeqProperties
<1>2. back \in Seq(Nat) /\ Len(back) = Len(s) - i /\ \A j \in 1..(Len(s) - i) : back[j] = s[i + j]
  BY SubSeqProperties
<1>3. RemoveAt(s, i) = front \o back
  BY DEF RemoveAt
<1> HIDE DEF front, back
<1> DEFINE r == front \o back
<1>4. /\ r \in Seq(Nat) /\ Len(r) = Len(front) + Len(back)
      /\ \A j \in 1..Len(front) + Len(back) : r[j] = IF j <= Len(front) THEN front[j] ELSE back[j - Len(front)]
  BY <1>1, <1>2, ConcatProperties
<1> HIDE DEF r
<1>5. Len(r) = Len(s) - 1 /\ Len(s) \in Nat
  BY <1>1, <1>2, <1>4
<1>6. ASSUME NEW j \in 1..Len(s) - 1 PROVE r[j] = IF j < i THEN s[j] ELSE s[j + 1]
  <2>1. r[j] = IF j <= i - 1 THEN front[j] ELSE back[j - (i - 1)]
    BY <1>1, <1>2, <1>4, <1>5
  <2>2. CASE j < i
    BY <1>1, <2>1, <2>2
  <2>3. CASE j >= i
    <3>1. j - (i - 1) \in 1..(Len(s) - i) /\ i + (j - (i - 1)) = j + 1 /\ ~(j <= i - 1)
      BY <1>5, <2>3
    <3>2. back[j - (i - 1)] = s[j + 1]
      BY <1>2, <3>1
    <3>3. QED
      BY <2>1, <2>3, <3>1, <3>2
  <2>4. QED
    BY <2>2, <2>3
<1>7. QED
  BY <1>3, <1>4, <1>5, <1>6 DEF r

(* RemoveAt takes one value out, and no other.                             *)
LEMMA RemoveAtSet ==
    ASSUME NEW s \in Seq(Nat), NEW i \in 1..Len(s)
    PROVE  /\ ToSet(RemoveAt(s, i)) \subseteq ToSet(s)
           /\ ToSet(s) \ {s[i]} \subseteq ToSet(RemoveAt(s, i))
           /\ Distinct(s) => Distinct(RemoveAt(s, i)) /\ s[i] \notin ToSet(RemoveAt(s, i))
<1> DEFINE r == RemoveAt(s, i)
<1>1. /\ r \in Seq(Nat) /\ Len(r) = Len(s) - 1
      /\ \A j \in 1..Len(s) - 1 : r[j] = IF j < i THEN s[j] ELSE s[j + 1]
  BY RemoveAtList
<1> HIDE DEF r
<1>2. ASSUME NEW x \in ToSet(r) PROVE x \in ToSet(s)
  <2>1. PICK j \in 1..Len(r) : r[j] = x
    BY <1>1 DEF ToSet
  <2>2. j \in 1..Len(s) /\ j + 1 \in 1..Len(s) /\ (s[j] = x \/ s[j + 1] = x)
    BY <1>1, <2>1
  <2>3. QED
    BY <2>2 DEF ToSet
<1>3. ASSUME NEW x \in ToSet(s), x # s[i] PROVE x \in ToSet(r)
  <2>1. PICK j \in 1..Len(s) : s[j] = x
    BY DEF ToSet
  <2>2. CASE j < i
    <3>1. j \in 1..Len(r) /\ r[j] = x
      BY <1>1, <2>1, <2>2
    <3>2. QED
      BY <1>1, <3>1 DEF ToSet
  <2>3. CASE j > i
    <3>1. j - 1 \in 1..Len(r) /\ r[j - 1] = x
      BY <1>1, <2>1, <2>3
    <3>2. QED
      BY <1>1, <3>1 DEF ToSet
  <2>4. QED
    BY <1>3, <2>1, <2>2, <2>3
<1>4. ASSUME Distinct(s) PROVE Distinct(r) /\ s[i] \notin ToSet(r)
  <2> DEFINE old(j) == IF j < i THEN j ELSE j + 1
  <2>1. ASSUME NEW j \in 1..Len(r) PROVE old(j) \in 1..Len(s) /\ old(j) # i /\ r[j] = s[old(j)]
    BY <1>1
  <2>2. ASSUME NEW j \in 1..Len(r), NEW k \in 1..Len(r), r[j] = r[k] PROVE j = k
    <3>1. s[old(j)] = s[old(k)] /\ old(j) \in 1..Len(s) /\ old(k) \in 1..Len(s)
      BY <2>1, <2>2
    <3>2. old(j) = old(k)
      BY <1>4, <3>1 DEF Distinct
    <3>3. i \in Int /\ j \in Int /\ k \in Int
      OBVIOUS
    <3>4. QED
      BY <3>2, <3>3
  <2>3. ASSUME NEW j \in 1..Len(r) PROVE r[j] # s[i]
    <3>1. old(j) \in 1..Len(s) /\ old(j) # i /\ r[j] = s[old(j)]
      BY <2>1
    <3> HIDE DEF old
    <3>2. QED
      BY <1>4, <3>1 DEF Distinct
  <2>4. Distinct(r)
    BY <2>2 DEF Distinct
  <2>5. s[i] \notin ToSet(r)
    BY <1>1, <2>3, SetPlaces
  <2>6. QED
    BY <2>4, <2>5
<1>5. QED
  BY <1>2, <1>3, <1>4 DEF r

(* So does RemoveFirst, if the value is there.                             *)
LEMMA RemoveFirstSet ==
    ASSUME NEW s \in Seq(Nat), NEW e
    PROVE  /\ RemoveFirst(s, e) \in Seq(Nat)
           /\ ToSet(RemoveFirst(s, e)) \subseteq ToSet(s)
           /\ ToSet(s) \ {e} \subseteq ToSet(RemoveFirst(s, e))
           /\ Distinct(s) => Distinct(RemoveFirst(s, e)) /\ e \notin ToSet(RemoveFirst(s, e))
<1>1. CASE e \in ToSet(s)
  <2>1. PICK i \in 1..Len(s) : s[i] = e /\ RemoveFirst(s, e) = RemoveAt(s, i)
    BY <1>1, FirstPlace
  <2>2. RemoveAt(s, i) \in Seq(Nat)
    BY RemoveAtList
  <2>3. QED
    BY <2>1, <2>2, RemoveAtSet, Zenon
<1>2. CASE e \notin ToSet(s)
  <2>1. RemoveFirst(s, e) = s
    BY <1>2 DEF RemoveFirst, ToSet
  <2>2. QED
    BY <1>2, <2>1
<1>3. QED
  BY <1>1, <1>2

(* Append adds a value.                                                    *)
LEMMA AppendSet ==
    ASSUME NEW s \in Seq(Nat), NEW x \in Nat
    PROVE  /\ Append(s, x) \in Seq(Nat) /\ Append(s, x) # <<>>
           /\ ToSet(Append(s, x)) = ToSet(s) \cup {x}
           /\ Distinct(s) /\ x \notin ToSet(s) => Distinct(Append(s, x))
<1>1. /\ Append(s, x) \in Seq(Nat) /\ Len(Append(s, x)) = Len(s) + 1
      /\ \A i \in 1..Len(s) : Append(s, x)[i] = s[i]
      /\ Append(s, x)[Len(s) + 1] = x
  BY AppendProperties
<1>2. ToSet(Append(s, x)) = ToSet(s) \cup {x}
  BY <1>1 DEF ToSet
<1>3. ASSUME Distinct(s), x \notin ToSet(s) PROVE Distinct(Append(s, x))
  BY <1>1, <1>3 DEF Distinct, ToSet
<1>4. QED
  BY <1>1, <1>2, <1>3

(* Tail takes the first value out.                                         *)
LEMMA TailSet ==
    ASSUME NEW s \in Seq(Nat), s # <<>>
    PROVE  /\ Tail(s) \in Seq(Nat) /\ Head(s) \in ToSet(s)
           /\ ToSet(s) = ToSet(Tail(s)) \cup {Head(s)}
           /\ Distinct(s) => Distinct(Tail(s)) /\ Head(s) \notin ToSet(Tail(s))
<1>0. Len(s) \in Nat \ {0} /\ Head(s) = s[1]
  OBVIOUS
<1>1. /\ Tail(s) \in Seq(Nat) /\ Len(Tail(s)) = Len(s) - 1 /\ Len(s) \in Nat \ {0}
      /\ \A i \in 1..Len(s) - 1 : Tail(s)[i] = s[i + 1]
      /\ Head(s) = s[1]
  BY <1>0, HeadTailProperties
<1>2. ASSUME NEW x \in ToSet(s), x # Head(s) PROVE x \in ToSet(Tail(s))
  <2>1. PICK j \in 1..Len(s) : s[j] = x
    BY DEF ToSet
  <2>2. j - 1 \in 1..Len(Tail(s)) /\ Tail(s)[j - 1] = x
    BY <1>1, <1>2, <2>1
  <2> DEFINE r == Tail(s)
  <2>3. r \in Seq(Nat) /\ j - 1 \in 1..Len(r) /\ r[j - 1] = x
    BY <1>1, <2>2
  <2> HIDE DEF r
  <2>4. x \in ToSet(r)
    BY <2>3 DEF ToSet
  <2>5. QED
    BY <2>4 DEF r
<1>3. ToSet(Tail(s)) \subseteq ToSet(s) /\ Head(s) \in ToSet(s)
  BY <1>1 DEF ToSet
<1>4. ASSUME Distinct(s) PROVE Distinct(Tail(s)) /\ Head(s) \notin ToSet(Tail(s))
  BY <1>1, <1>4 DEF Distinct, ToSet
<1>5. QED
  BY <1>1, <1>2, <1>3, <1>4

(* EXCEPT puts a value in the place of another.                            *)
LEMMA ReplaceSet ==
    ASSUME NEW s \in Seq(Nat), NEW i \in 1..Len(s), NEW x \in Nat
    PROVE  /\ [s EXCEPT ![i] = x] \in Seq(Nat) /\ [s EXCEPT ![i] = x] # <<>>
           /\ ToSet([s EXCEPT ![i] = x]) \subseteq ToSet(s) \cup {x}
           /\ ToSet(s) \ {s[i]} \subseteq ToSet([s EXCEPT ![i] = x])
           /\ x \in ToSet([s EXCEPT ![i] = x])
<1>1. /\ [s EXCEPT ![i] = x] \in Seq(Nat) /\ Len([s EXCEPT ![i] = x]) = Len(s)
      /\ \A j \in 1..Len(s) : [s EXCEPT ![i] = x][j] = IF j = i THEN x ELSE s[j]
  BY ExceptSeq
<1>2. QED
  BY <1>1 DEF ToSet

(* Concatenation joins the values.                                         *)
LEMMA ConcatSet ==
    ASSUME NEW s \in Seq(Nat), NEW r \in Seq(Nat)
    PROVE  s \o r \in Seq(Nat) /\ ToSet(s \o r) = ToSet(s) \cup ToSet(r)
<1> DEFINE q == s \o r
<1>1. /\ q \in Seq(Nat) /\ Len(q) = Len(s) + Len(r)
      /\ \A j \in 1..Len(s) + Len(r) : q[j] = IF j <= Len(s) THEN s[j] ELSE r[j - Len(s)]
  BY ConcatProperties
<1> HIDE DEF q
<1>2. ASSUME NEW x \in ToSet(r) PROVE x \in ToSet(q)
  <2>1. PICK j \in 1..Len(r) : r[j] = x
    BY SetPlaces
  <2>2. Len(s) + j \in 1..Len(s) + Len(r) /\ (Len(s) + j) - Len(s) = j /\ ~(Len(s) + j <= Len(s))
    <3>1. Len(s) \in Nat /\ Len(r) \in Nat
      BY LenProperties
    <3>2. QED
      BY <3>1
  <2>3. q[Len(s) + j] = x
    BY <1>1, <2>1, <2>2
  <2>4. QED
    BY <1>1, <2>2, <2>3, SetPlaces
<1>3. ASSUME NEW x \in ToSet(s) PROVE x \in ToSet(q)
  <2>1. PICK j \in 1..Len(s) : s[j] = x
    BY SetPlaces
  <2>2. j \in 1..Len(q) /\ q[j] = x
    BY <1>1, <2>1
  <2>3. QED
    BY <1>1, <2>2, SetPlaces
<1>4. ASSUME NEW x \in ToSet(q) PROVE x \in ToSet(s) \cup ToSet(r)
  <2>1. PICK j \in 1..Len(q) : q[j] = x
    BY <1>1, SetPlaces
  <2>2. CASE j <= Len(s)
    <3>1. j \in 1..Len(s) /\ s[j] = x
      BY <1>1, <2>1, <2>2
    <3>2. QED
      BY <3>1, SetPlaces
  <2>3. CASE j > Len(s)
    <3>1. j - Len(s) \in 1..Len(r) /\ r[j - Len(s)] = x
      BY <1>1, <2>1, <2>3
    <3>2. QED
      BY <3>1, SetPlaces
  <2>4. QED
    BY <1>1, <2>2, <2>3
<1>5. QED
  BY <1>1, <1>2, <1>3, <1>4 DEF q

(* What a list of things made so far becomes when one more is made.        *)
LEMMA MadeOneMore ==
    ASSUME NEW S, NEW s \in Seq(S), NEW e \in S
    PROVE  /\ Append(s, e) \in Seq(S) /\ Len(Append(s, e)) = Len(s) + 1
           /\ \A i \in 1..Len(s) : Append(s, e)[i] = s[i]
           /\ Append(s, e)[Len(s) + 1] = e
           /\ Len(s) \in Nat /\ Len(s) + 1 \in Nat /\ Len(s) + 1 \notin 1..Len(s)
           /\ 1..(Len(s) + 1) = 1..Len(s) \cup {Len(s) + 1}
  BY AppendProperties

(* A longer list of things leaves the lists of them as they are.           *)
LEMMA ListGrows ==
    ASSUME NEW s, NEW n \in Nat, ListOf(s, n)
    PROVE  ListOf(s, n + 1) /\ n + 1 \notin ToSet(s)
  BY DEF ListOf

(* The new thing is appended to a list.                                    *)
LEMMA ListAppends ==
    ASSUME NEW s, NEW n \in Nat, ListOf(s, n)
    PROVE  /\ ListOf(Append(s, n + 1), n + 1)
           /\ ToSet(Append(s, n + 1)) = ToSet(s) \cup {n + 1}
           /\ Distinct(s) => Distinct(Append(s, n + 1))
<1>1. s \in Seq(Nat) /\ n + 1 \in Nat /\ n + 1 \notin ToSet(s) /\ ToSet(s) \subseteq 1..(n + 1)
  BY DEF ListOf
<1>2. /\ Append(s, n + 1) \in Seq(Nat)
      /\ ToSet(Append(s, n + 1)) = ToSet(s) \cup {n + 1}
      /\ Distinct(s) => Distinct(Append(s, n + 1))
  BY <1>1, AppendSet
<1>3. QED
  BY <1>1, <1>2 DEF ListOf

(* The new thing takes a place of the list.                                *)
LEMMA ListReplaces ==
    ASSUME NEW s, NEW n \in Nat, ListOf(s, n), NEW i \in DOMAIN s
    PROVE  ListOf([s EXCEPT ![i] = n + 1], n + 1)
<1> DEFINE r == [s EXCEPT ![i] = n + 1]
<1>1. s \in Seq(Nat) /\ n + 1 \in Nat /\ ToSet(s) \subseteq 1..(n + 1) /\ i \in 1..Len(s)
  BY DEF ListOf
<1>2. r \in Seq(Nat) /\ ToSet(r) \subseteq ToSet(s) \cup {n + 1}
  BY <1>1, ReplaceSet
<1> HIDE DEF r
<1>3. ListOf(r, n + 1)
  BY <1>1, <1>2 DEF ListOf
<1>4. QED
  BY <1>3 DEF r

(* What a list loses it was a list of.                                     *)
LEMMA ListLoses ==
    ASSUME NEW s, NEW n, ListOf(s, n), NEW i \in DOMAIN s, NEW e
    PROVE  ListOf(RemoveAt(s, i), n) /\ s[i] \in 1..n
<1>1. s \in Seq(Nat) /\ i \in 1..Len(s) /\ ToSet(s) \subseteq 1..n
  BY DEF ListOf
<1>2. RemoveAt(s, i) \in Seq(Nat) /\ ToSet(RemoveAt(s, i)) \subseteq ToSet(s) /\ s[i] \in ToSet(s)
  BY <1>1, RemoveAtList, RemoveAtSet, SetPlaces
<1>3. QED
  BY <1>1, <1>2 DEF ListOf

(* Out of the queue if it is there.                                        *)
LEMMA ListUnqueues ==
    ASSUME NEW s, NEW n, ListOf(s, n), NEW e
    PROVE  /\ ListOf(RemoveFirst(s, e), n)
           /\ ToSet(RemoveFirst(s, e)) \subseteq ToSet(s)
           /\ ToSet(s) \ {e} \subseteq ToSet(RemoveFirst(s, e))
           /\ Distinct(s) => Distinct(RemoveFirst(s, e)) /\ e \notin ToSet(RemoveFirst(s, e))
           /\ Contains(s, e) <=> e \in ToSet(s)
<1>1. s \in Seq(Nat) /\ ToSet(s) \subseteq 1..n
  BY DEF ListOf
<1>2. /\ RemoveFirst(s, e) \in Seq(Nat)
      /\ ToSet(RemoveFirst(s, e)) \subseteq ToSet(s)
      /\ ToSet(s) \ {e} \subseteq ToSet(RemoveFirst(s, e))
      /\ Distinct(s) => Distinct(RemoveFirst(s, e)) /\ e \notin ToSet(RemoveFirst(s, e))
  BY <1>1, RemoveFirstSet
<1>3. Contains(s, e) <=> e \in ToSet(s)
  BY <1>1, SetPlaces DEF Contains
<1>4. QED
  BY <1>1, <1>2, <1>3 DEF ListOf

(* Two lists of the same things.                                           *)
LEMMA ListConcat ==
    ASSUME NEW s, NEW r, NEW n, ListOf(s, n), ListOf(r, n)
    PROVE  ListOf(s \o r, n)
  BY ConcatSet DEF ListOf

(* A list of nothing.                                                      *)
LEMMA ListEmpty ==
    ASSUME NEW n
    PROVE  ListOf(<<>>, n) /\ ToSet(<<>>) = {} /\ Distinct(<<>>)
<1>1. <<>> \in Seq(Nat) /\ Len(<<>>) = 0
  OBVIOUS
<1>2. ToSet(<<>>) = {}
  BY <1>1 DEF ToSet
<1>3. QED
  BY <1>1, <1>2 DEF ListOf, Distinct

(* What is left when the first one is taken.                               *)
LEMMA ListTail ==
    ASSUME NEW s, NEW n, ListOf(s, n), s # <<>>
    PROVE  /\ ListOf(Tail(s), n) /\ Head(s) \in 1..n
           /\ ToSet(s) = ToSet(Tail(s)) \cup {Head(s)}
           /\ Distinct(s) => Distinct(Tail(s)) /\ Head(s) \notin ToSet(Tail(s))
  BY TailSet DEF ListOf

(* A new agent is queued; everything that was there stays.                 *)
LEMMA CreateAgentSound ==
    ASSUME CreatorIInv, HandleCreateAgent
    PROVE  CreatorIInv'
<1> DEFINE n == Len(agent)
<1>0. CreatorTypeOK /\ QueuesSound /\ HopesSound /\ EngineSound
  BY DEF CreatorIInv
<1>1. PICK role \in StageRoles : AddAgent(role) \/ \E i \in DOMAIN regAgents : UpdateAgent(i, role)
  BY DEF HandleCreateAgent
<1>2. agent' = Append(agent, role) /\ pendAgents' = Append(pendAgents, n + 1)
  BY <1>1 DEF AddAgent, UpdateAgent
<1>3. /\ task' = task /\ regTasks' = regTasks /\ pendTasks' = pendTasks /\ withdrawn' = withdrawn
      /\ crewAgents' = crewAgents /\ crewTasks' = crewTasks /\ newTasks' = newTasks
      /\ newAgents' = newAgents /\ step' = step
  BY DEF HandleCreateAgent, engineVars
<1>4. /\ agent' \in Seq(StageRoles) /\ Len(agent') = n + 1 /\ n \in Nat /\ 1..n \subseteq 1..(n + 1)
      /\ \A a \in 1..n : agent'[a] = agent[a]
  BY <1>0, <1>2, MadeOneMore DEF CreatorTypeOK
<1>5. ListOf(regAgents', n + 1)
  <2>1. n \in Nat /\ ListOf(regAgents, n)
    BY <1>0, <1>4 DEF CreatorTypeOK
  <2>2. CASE AddAgent(role)
    BY <2>1, <2>2, ListAppends DEF AddAgent
  <2>3. ASSUME NEW i \in DOMAIN regAgents, UpdateAgent(i, role) PROVE ListOf(regAgents', n + 1)
    BY <2>1, <2>3, ListReplaces DEF UpdateAgent
  <2>4. QED
    BY <1>1, <2>2, <2>3
<1>6. ListOf(pendAgents', n + 1) /\ ToSet(pendAgents') = ToSet(pendAgents) \cup {n + 1}
  BY <1>0, <1>2, <1>4, ListAppends DEF CreatorTypeOK
<1>7. ListOf(newAgents', n + 1) /\ ListOf(crewAgents', n + 1)
  BY <1>0, <1>3, <1>4, ListGrows DEF CreatorTypeOK
<1>8. CreatorTypeOK'
  BY <1>0, <1>3, <1>4, <1>5, <1>6, <1>7 DEF CreatorTypeOK
<1>9. QueuesSound' /\ EngineSound'
  BY <1>0, <1>3 DEF QueuesSound, EngineSound
<1>10. HopesSound'
  <2>1. \A a \in ToSet(pendAgents) \cup Taken : agent'[a] = agent[a]
    BY <1>0, <1>4 DEF CreatorTypeOK, ListOf, Taken
  <2>2. ToSet(pendAgents) \subseteq ToSet(pendAgents)' /\ Taken' = Taken
    BY <1>3, <1>6 DEF Taken
  <2>3. ASSUME NEW t PROVE Hopeful(t)' <=> Hopeful(t)
    BY <1>3 DEF Hopeful
  <2>4. ASSUME NEW t
        PROVE  /\ Covered(t, ToSet(pendAgents) \cup Taken) => Covered(t, ToSet(pendAgents) \cup Taken)'
               /\ Covered(t, Taken) => Covered(t, Taken)'
               /\ Covered(t, ToSet(pendAgents)) => Covered(t, ToSet(pendAgents))'
    BY <1>3, <2>1, <2>2 DEF Covered
  <2>5. ASSUME NEW t \in ToSet(crewTasks)
        PROVE  task'[t].agent \in 1..Len(agent') /\ (Hopeful(t)' => agent'[task'[t].agent] = task'[t].role)
    BY <1>0, <1>3, <1>4, <2>3 DEF HopesSound
  <2>6. QED
    BY <1>0, <1>3, <2>3, <2>4, <2>5 DEF HopesSound
<1>11. QED
  BY <1>8, <1>9, <1>10 DEF CreatorIInv

(* A new task is queued; if it hopes for an agent, that agent is staged.   *)
LEMMA CreateTaskSound ==
    ASSUME CreatorIInv, HandleCreateTask
    PROVE  CreatorIInv'
<1> DEFINE n == Len(task)
<1>0. CreatorTypeOK /\ QueuesSound /\ HopesSound /\ EngineSound
  BY DEF CreatorIInv
<1>1. PICK desc \in 1..(n + 1), role \in StageRoles :
         AddTask(desc, role) \/ \E i \in DOMAIN regTasks : UpdateTask(i, desc, role)
  BY DEF HandleCreateTask
<1> DEFINE new == NewTask(desc, role)
<1>2. task' = Append(task, new) /\ pendTasks' = Append(pendTasks, n + 1)
  BY <1>1 DEF AddTask, UpdateTask
<1>3. /\ agent' = agent /\ regAgents' = regAgents /\ pendAgents' = pendAgents /\ withdrawn' = withdrawn
      /\ crewAgents' = crewAgents /\ crewTasks' = crewTasks /\ newTasks' = newTasks
      /\ newAgents' = newAgents /\ step' = step
  BY DEF HandleCreateTask, engineVars
<1>4. /\ new \in StagedTask /\ new.agent = 0 /\ ~new.dropped /\ new.role = role
      /\ new.hoped => role \in StagedRoles
  <2>1. desc \in Nat /\ (role \in StagedRoles) \in BOOLEAN
    BY <1>0 DEF CreatorTypeOK
  <2>2. QED
    BY <2>1 DEF NewTask, StagedTask
<1> HIDE DEF new
<1>5. /\ task' \in Seq(StagedTask) /\ Len(task') = n + 1 /\ n \in Nat /\ 1..n \subseteq 1..(n + 1)
      /\ \A t \in 1..n : task'[t] = task[t]
      /\ task'[n + 1] = new
  BY <1>0, <1>2, <1>4, MadeOneMore DEF CreatorTypeOK
<1>6. ListOf(regTasks', n + 1)
  <2>1. n \in Nat /\ ListOf(regTasks, n)
    BY <1>0, <1>5 DEF CreatorTypeOK
  <2>2. CASE AddTask(desc, role)
    BY <2>1, <2>2, ListAppends DEF AddTask
  <2>3. ASSUME NEW i \in DOMAIN regTasks, UpdateTask(i, desc, role) PROVE ListOf(regTasks', n + 1)
    BY <2>1, <2>3, ListReplaces DEF UpdateTask
  <2>4. QED
    BY <1>1, <2>2, <2>3
<1>7. /\ ListOf(pendTasks', n + 1) /\ ToSet(pendTasks') = ToSet(pendTasks) \cup {n + 1}
      /\ Distinct(pendTasks')
  BY <1>0, <1>2, <1>5, ListAppends DEF CreatorTypeOK, QueuesSound
<1>8. /\ ListOf(newTasks', n + 1) /\ ListOf(crewTasks', n + 1)
      /\ n + 1 \notin ToSet(newTasks) /\ n + 1 \notin ToSet(crewTasks)
  BY <1>0, <1>3, <1>5, ListGrows DEF CreatorTypeOK
<1>9. CreatorTypeOK'
  BY <1>0, <1>3, <1>5, <1>6, <1>7, <1>8 DEF CreatorTypeOK
<1>10. \A t \in ToSet(pendTasks) \cup ToSet(newTasks) \cup ToSet(crewTasks) : task'[t] = task[t]
  BY <1>0, <1>5 DEF CreatorTypeOK, ListOf
<1>11. QueuesSound'
  <2>1. Distinct(newTasks)' /\ \A t \in ToSet(newTasks) : t \notin ToSet(crewTasks)
    BY <1>0, <1>3 DEF QueuesSound
  <2>2. \A t \in ToSet(pendTasks') : t \notin ToSet(newTasks) /\ t \notin ToSet(crewTasks)
    BY <1>0, <1>7, <1>8 DEF QueuesSound
  <2>3. \A t \in ToSet(pendTasks') \cup ToSet(newTasks) : task'[t].agent = 0 /\ ~task'[t].dropped
    BY <1>0, <1>4, <1>5, <1>7, <1>10 DEF QueuesSound
  <2>4. \A t \in ToSet(crewTasks) : ~task'[t].dropped
    BY <1>0, <1>10 DEF QueuesSound
  <2>5. QED
    BY <1>3, <1>7, <2>1, <2>2, <2>3, <2>4 DEF QueuesSound
<1>12. EngineSound'
  BY <1>0, <1>3 DEF EngineSound
<1>13. HopesSound'
  <2>1. Taken' = Taken
    BY <1>3 DEF Taken
  <2>2. ASSUME NEW t \in ToSet(pendTasks) \cup ToSet(newTasks) \cup ToSet(crewTasks)
        PROVE  /\ Hopeful(t)' <=> Hopeful(t)
               /\ Covered(t, ToSet(pendAgents) \cup Taken) => Covered(t, ToSet(pendAgents) \cup Taken)'
               /\ Covered(t, Taken) => Covered(t, Taken)'
               /\ Covered(t, ToSet(pendAgents)) => Covered(t, ToSet(pendAgents))'
    BY <1>3, <1>10, <2>1 DEF Hopeful, Covered
  <2>3. ASSUME NEW t, t = n + 1, Hopeful(t)' PROVE Covered(t, ToSet(pendAgents) \cup Taken)'
    <3>1. task'[t].hoped /\ task'[t] = new
      BY <1>5, <2>3 DEF Hopeful
    <3>2. role \in StagedRoles
      BY <1>4, <3>1
    <3>3. PICK a \in ToSet(pendAgents) \cup Taken : agent[a] = role
      BY <3>2 DEF StagedRoles, Taken
    <3>4. a \in ToSet(pendAgents') \cup Taken' /\ agent'[a] = role /\ task'[t].role = role
      BY <1>3, <1>4, <2>1, <3>1, <3>3
    <3>5. QED
      BY <3>4 DEF Covered
  <2>4. ASSUME NEW t \in ToSet(pendTasks')
        PROVE  Hopeful(t)' => Covered(t, ToSet(pendAgents) \cup Taken)'
    <3>1. CASE t = n + 1
      BY <2>3, <3>1
    <3>2. CASE t \in ToSet(pendTasks)
      BY <1>0, <2>2, <3>2 DEF HopesSound
    <3>3. QED
      BY <1>7, <3>1, <3>2
  <2>5. ASSUME NEW t \in ToSet(newTasks)
        PROVE  Hopeful(t)' => Covered(t, Taken)' \/ (step' = "pull" /\ Covered(t, ToSet(pendAgents))')
    BY <1>0, <1>3, <2>2 DEF HopesSound
  <2>6. ASSUME NEW t \in ToSet(crewTasks)
        PROVE  task'[t].agent \in 1..Len(agent') /\ (Hopeful(t)' => agent'[task'[t].agent] = task'[t].role)
    BY <1>0, <1>3, <1>10, <2>2 DEF HopesSound
  <2>7. QED
    BY <1>3, <2>4, <2>5, <2>6 DEF HopesSound
<1>14. QED
  BY <1>9, <1>11, <1>12, <1>13 DEF CreatorIInv

(* An agent that is withdrawn takes its role along; the tasks that hope    *)
(* for another role keep the agents they had.                              *)
LEMMA DeleteAgentSound ==
    ASSUME CreatorIInv, NEW i \in DOMAIN regAgents, DeleteAgent(i), agent' = agent, UNCHANGED engineVars
    PROVE  CreatorIInv'
<1> DEFINE b == regAgents[i]
<1>0. CreatorTypeOK /\ QueuesSound /\ HopesSound /\ EngineSound
  BY DEF CreatorIInv
<1>1. /\ task' = task /\ regTasks' = regTasks /\ pendTasks' = pendTasks
      /\ crewAgents' = crewAgents /\ crewTasks' = crewTasks /\ newTasks' = newTasks
      /\ newAgents' = newAgents /\ step' = step
  BY DEF DeleteAgent, engineVars
<1>2. ListOf(regAgents', Len(agent))
  BY <1>0, ListLoses DEF CreatorTypeOK, DeleteAgent
<1>3. /\ ListOf(pendAgents', Len(agent))
      /\ ToSet(pendAgents) \ {b} \subseteq ToSet(pendAgents')
      /\ withdrawn' = IF b \in ToSet(pendAgents) THEN withdrawn \cup {agent[b]} ELSE withdrawn
  BY <1>0, ListUnqueues DEF CreatorTypeOK, DeleteAgent
<1>4. CreatorTypeOK'
  BY <1>0, <1>1, <1>2, <1>3 DEF CreatorTypeOK
<1>5. QueuesSound' /\ EngineSound'
  BY <1>0, <1>1 DEF QueuesSound, EngineSound
<1>6. HopesSound'
  <2>1. Taken' = Taken
    BY <1>1 DEF Taken
  <2>2. ASSUME NEW t, Hopeful(t)'
        PROVE  Hopeful(t) /\ (b \in ToSet(pendAgents) => task[t].role # agent[b])
    BY <1>1, <1>3, <2>2 DEF Hopeful
  <2>3. ASSUME NEW t, Hopeful(t)'
        PROVE  /\ Covered(t, ToSet(pendAgents) \cup Taken) => Covered(t, ToSet(pendAgents) \cup Taken)'
               /\ Covered(t, Taken) => Covered(t, Taken)'
               /\ Covered(t, ToSet(pendAgents)) => Covered(t, ToSet(pendAgents))'
    BY <1>1, <1>3, <2>1, <2>2, <2>3 DEF Covered
  <2>4. QED
    BY <1>0, <1>1, <2>2, <2>3 DEF HopesSound
<1>7. QED
  BY <1>4, <1>5, <1>6 DEF CreatorIInv

(* A task that is deleted while it is queued leaves the only place it has. *)
LEMMA DeleteTaskSound ==
    ASSUME CreatorIInv, NEW i \in DOMAIN regTasks, DeleteTask(i), agent' = agent, UNCHANGED engineVars
    PROVE  CreatorIInv'
<1> DEFINE d == regTasks[i]
<1>0. CreatorTypeOK /\ QueuesSound /\ HopesSound /\ EngineSound
  BY DEF CreatorIInv
<1>1. /\ regAgents' = regAgents /\ pendAgents' = pendAgents /\ withdrawn' = withdrawn
      /\ crewAgents' = crewAgents /\ crewTasks' = crewTasks /\ newTasks' = newTasks
      /\ newAgents' = newAgents /\ step' = step
  BY DEF DeleteTask, engineVars
<1>2. ListOf(regTasks', Len(task)) /\ d \in 1..Len(task)
  BY <1>0, ListLoses DEF CreatorTypeOK, DeleteTask
<1>3. /\ ListOf(pendTasks', Len(task)) /\ ToSet(pendTasks') \subseteq ToSet(pendTasks)
      /\ Distinct(pendTasks') /\ d \notin ToSet(pendTasks')
      /\ task' = IF d \in ToSet(pendTasks) THEN [task EXCEPT ![d].dropped = TRUE] ELSE task
  BY <1>0, ListUnqueues DEF CreatorTypeOK, QueuesSound, DeleteTask, Unqueue
<1> HIDE DEF d
<1>4. task' \in Seq(StagedTask) /\ Len(task') = Len(task) /\ \A t \in 1..Len(task) : t # d => task'[t] = task[t]
  <2>1. CASE d \in ToSet(pendTasks)
    <3> DEFINE e == [task[d] EXCEPT !.dropped = TRUE]
    <3>1. task \in Seq(StagedTask) /\ task[d] \in StagedTask
      BY <1>0, <1>2, ElementOfSeq DEF CreatorTypeOK
    <3>2. e \in StagedTask /\ task' = [task EXCEPT ![d] = e]
      BY <1>3, <2>1, <3>1 DEF StagedTask
    <3> HIDE DEF e
    <3>3. QED
      BY <1>2, <3>1, <3>2, ExceptSeq
  <2>2. CASE d \notin ToSet(pendTasks)
    BY <1>0, <1>3, <2>2 DEF CreatorTypeOK
  <2>3. QED
    BY <2>1, <2>2
<1>5. CreatorTypeOK'
  BY <1>0, <1>1, <1>2, <1>3, <1>4 DEF CreatorTypeOK
<1>6. \A t \in ToSet(pendTasks') \cup ToSet(newTasks) \cup ToSet(crewTasks) : task'[t] = task[t]
  <2>1. CASE d \in ToSet(pendTasks)
    <3>1. d \notin ToSet(newTasks) /\ d \notin ToSet(crewTasks)
      BY <1>0, <2>1 DEF QueuesSound
    <3>2. QED
      BY <1>0, <1>3, <1>4, <3>1 DEF CreatorTypeOK, ListOf
  <2>2. CASE d \notin ToSet(pendTasks)
    BY <1>3, <2>2
  <2>3. QED
    BY <2>1, <2>2
<1>7. QueuesSound'
  BY <1>0, <1>1, <1>3, <1>6 DEF QueuesSound
<1>8. EngineSound'
  BY <1>0, <1>1 DEF EngineSound
<1>9. HopesSound'
  <2>1. Taken' = Taken
    BY <1>1 DEF Taken
  <2>2. ASSUME NEW t \in ToSet(pendTasks') \cup ToSet(newTasks) \cup ToSet(crewTasks)
        PROVE  /\ Hopeful(t)' <=> Hopeful(t)
               /\ Covered(t, ToSet(pendAgents) \cup Taken) => Covered(t, ToSet(pendAgents) \cup Taken)'
               /\ Covered(t, Taken) => Covered(t, Taken)'
               /\ Covered(t, ToSet(pendAgents)) => Covered(t, ToSet(pendAgents))'
    BY <1>1, <1>6, <2>1 DEF Hopeful, Covered
  <2>3. QED
    BY <1>0, <1>1, <1>3, <1>6, <2>2 DEF HopesSound
<1>10. QED
  BY <1>5, <1>7, <1>8, <1>9 DEF CreatorIInv

(* What concerns neither agents nor tasks.                                 *)
LEMMA OtherRequestsSound ==
    ASSUME CreatorIInv,
           UNCHANGED <<agent, task, regAgents, regTasks, pendAgents, pendTasks, withdrawn, engineVars>>
    PROVE  CreatorIInv'
<1>1. /\ agent' = agent /\ task' = task /\ regAgents' = regAgents /\ regTasks' = regTasks
      /\ pendAgents' = pendAgents /\ pendTasks' = pendTasks /\ withdrawn' = withdrawn
      /\ crewAgents' = crewAgents /\ crewTasks' = crewTasks /\ newTasks' = newTasks
      /\ newAgents' = newAgents /\ step' = step
  BY DEF engineVars
<1>2. QED
  BY <1>1 DEF CreatorIInv, CreatorTypeOK, QueuesSound, HopesSound, EngineSound, Hopeful, Covered, Taken

(* The tasks are taken first: an agent staged before one of them is still  *)
(* in its queue, or in the crew, and is taken after it.                    *)
LEMMA PullSound ==
    ASSUME CreatorIInv, Pull
    PROVE  CreatorIInv'
<1>0. CreatorTypeOK /\ QueuesSound /\ HopesSound /\ EngineSound
  BY DEF CreatorIInv
<1>1. /\ agent' = agent /\ task' = task /\ regAgents' = regAgents /\ regTasks' = regTasks
      /\ crewAgents' = crewAgents /\ crewTasks' = crewTasks /\ withdrawn' = withdrawn
  BY DEF Pull
<1>2. ToSet(<<>>) = {} /\ Distinct(<<>>) /\ \A n : ListOf(<<>>, n)
  BY ListEmpty
<1>3. CASE step = "poll"
  <2>1. /\ newTasks' = pendTasks /\ pendTasks' = <<>> /\ newAgents' = newAgents /\ pendAgents' = pendAgents
        /\ step' = "pull"
    BY <1>3 DEF Pull, PullOrder
  <2>2. CreatorTypeOK'
    BY <1>0, <1>1, <1>2, <2>1 DEF CreatorTypeOK
  <2>3. QueuesSound'
    BY <1>0, <1>1, <1>2, <2>1 DEF QueuesSound
  <2>4. EngineSound'
    BY <1>0, <1>3, <2>1 DEF EngineSound
  <2>5. HopesSound'
    <3>1. Taken' = Taken
      BY <1>1, <2>1 DEF Taken
    <3>2. ASSUME NEW t PROVE Hopeful(t)' <=> Hopeful(t)
      BY <1>1 DEF Hopeful
    <3>3. ASSUME NEW t, Covered(t, ToSet(pendAgents) \cup Taken)
          PROVE  Covered(t, Taken)' \/ (step' = "pull" /\ Covered(t, ToSet(pendAgents))')
      BY <1>1, <2>1, <3>1, <3>3 DEF Covered
    <3>4. QED
      BY <1>0, <1>1, <1>2, <2>1, <3>2, <3>3 DEF HopesSound
  <2>6. QED
    BY <2>2, <2>3, <2>4, <2>5 DEF CreatorIInv
<1>4. CASE step = "pull"
  <2>1. /\ newAgents' = pendAgents /\ pendAgents' = <<>> /\ newTasks' = newTasks /\ pendTasks' = pendTasks
        /\ step' = IF newTasks' = <<>> /\ newAgents' = <<>> THEN "poll" ELSE "inject"
    BY <1>4 DEF Pull, PullOrder
  <2>2. CreatorTypeOK'
    BY <1>0, <1>1, <1>2, <2>1 DEF CreatorTypeOK
  <2>3. QueuesSound'
    BY <1>0, <1>1, <2>1 DEF QueuesSound
  <2>4. EngineSound' /\ newAgents = <<>>
    BY <1>0, <1>4, <2>1 DEF EngineSound
  <2>5. HopesSound'
    <3>1. Taken' = ToSet(pendAgents) \cup Taken
      BY <1>1, <1>2, <2>1, <2>4 DEF Taken
    <3>2. ASSUME NEW t PROVE Hopeful(t)' <=> Hopeful(t)
      BY <1>1 DEF Hopeful
    <3>3. ASSUME NEW t, Covered(t, ToSet(pendAgents) \cup Taken) \/ Covered(t, Taken)
                        \/ Covered(t, ToSet(pendAgents))
          PROVE  Covered(t, Taken)' /\ Covered(t, ToSet(pendAgents) \cup Taken)'
      BY <1>1, <2>1, <3>1, <3>3 DEF Covered
    <3>4. QED
      BY <1>0, <1>1, <2>1, <3>2, <3>3 DEF HopesSound
  <2>6. QED
    BY <2>2, <2>3, <2>4, <2>5 DEF CreatorIInv
<1>5. QED
  BY <1>3, <1>4 DEF Pull

(* The crew's agent of a role, if it has one.                              *)
LEMMA RoleIndexFinds ==
    ASSUME CreatorTypeOK, NEW role
    PROVE  /\ RoleIndex(role) = 0 => \A a \in ToSet(crewAgents) : agent[a] # role
           /\ RoleIndex(role) # 0 => RoleIndex(role) \in 1..Len(crewAgents)
                                     /\ agent[crewAgents[RoleIndex(role)]] = role
<1> DEFINE at == {i \in DOMAIN crewAgents : agent[crewAgents[i]] = role}
<1>1. crewAgents \in Seq(Nat) /\ DOMAIN crewAgents = 1..Len(crewAgents)
  BY DEF CreatorTypeOK, ListOf
<1>2. RoleIndex(role) = IF at = {} THEN 0 ELSE CHOOSE i \in at : \A j \in at : i <= j
  BY DEF RoleIndex
<1>3. at \in SUBSET Nat /\ 0 \notin at
  BY <1>1
<1>4. at = {} => \A a \in ToSet(crewAgents) : agent[a] # role
  BY <1>1, SetPlaces
<1>5. \A i \in at : i \in 1..Len(crewAgents) /\ agent[crewAgents[i]] = role
  BY <1>1
<1> HIDE DEF at
<1>6. CASE at = {}
  BY <1>2, <1>4, <1>6
<1>7. CASE at # {}
  <2>1. \E i \in at : \A j \in at : i <= j
    BY <1>3, <1>7, LeastIn
  <2>2. RoleIndex(role) \in at
    BY <1>2, <1>7, <2>1
  <2>3. QED
    BY <1>3, <1>5, <2>2
<1>8. QED
  BY <1>6, <1>7

(* Whoever is overwritten in the crew has the role of the one who follows. *)
LEMMA InjectAgentSound ==
    ASSUME CreatorIInv, InjectAgent
    PROVE  CreatorIInv'
<1> DEFINE b == Head(newAgents)
           k == RoleIndex(agent[b])
<1>0. CreatorTypeOK /\ QueuesSound /\ HopesSound /\ EngineSound
  BY DEF CreatorIInv
<1>1. /\ agent' = agent /\ task' = task /\ regAgents' = regAgents /\ regTasks' = regTasks
      /\ pendAgents' = pendAgents /\ pendTasks' = pendTasks /\ newTasks' = newTasks
      /\ crewTasks' = crewTasks /\ withdrawn' = withdrawn /\ step' = step /\ step = "inject"
      /\ newAgents # <<>> /\ newAgents' = Tail(newAgents)
      /\ crewAgents' = IF k = 0 THEN Append(crewAgents, b) ELSE [crewAgents EXCEPT ![k] = b]
  BY DEF InjectAgent, registryVars
<1>2. /\ ListOf(newAgents', Len(agent)) /\ b \in 1..Len(agent)
      /\ ToSet(newAgents) = ToSet(newAgents') \cup {b}
  BY <1>0, <1>1, ListTail DEF CreatorTypeOK
<1>3. /\ crewAgents \in Seq(Nat) /\ ToSet(crewAgents) \subseteq 1..Len(agent) /\ b \in Nat
  BY <1>0, <1>2 DEF CreatorTypeOK, ListOf
<1>4. k # 0 => k \in 1..Len(crewAgents) /\ agent[crewAgents[k]] = agent[b]
  BY <1>0, RoleIndexFinds
<1> HIDE DEF k, b
<1>5. /\ crewAgents' \in Seq(Nat) /\ crewAgents' # <<>>
      /\ ToSet(crewAgents') \subseteq ToSet(crewAgents) \cup {b} /\ b \in ToSet(crewAgents')
      /\ \A a \in ToSet(crewAgents) : a \in ToSet(crewAgents') \/ agent[a] = agent[b]
  <2>1. CASE k = 0
    BY <1>1, <1>3, <2>1, AppendSet
  <2>2. CASE k # 0
    <3> DEFINE r == [crewAgents EXCEPT ![k] = b]
    <3>1. /\ r \in Seq(Nat) /\ r # <<>> /\ ToSet(r) \subseteq ToSet(crewAgents) \cup {b}
          /\ ToSet(crewAgents) \ {crewAgents[k]} \subseteq ToSet(r) /\ b \in ToSet(r)
      BY <1>3, <1>4, <2>2, ReplaceSet
    <3>2. crewAgents' = r
      BY <1>1, <2>2
    <3> HIDE DEF r
    <3>3. QED
      BY <1>4, <2>2, <3>1, <3>2
  <2>3. QED
    BY <2>1, <2>2
<1>6. ListOf(crewAgents', Len(agent))
  BY <1>2, <1>3, <1>5 DEF ListOf
<1>7. CreatorTypeOK'
  BY <1>0, <1>1, <1>2, <1>5, <1>6 DEF CreatorTypeOK
<1>8. QueuesSound' /\ EngineSound'
  BY <1>0, <1>1 DEF QueuesSound, EngineSound
<1>9. HopesSound'
  <2>1. ASSUME NEW t PROVE Hopeful(t)' <=> Hopeful(t)
    BY <1>1 DEF Hopeful
  <2>2. \A a \in Taken : a \in Taken' \/ (b \in Taken' /\ agent[a] = agent[b])
    BY <1>2, <1>5 DEF Taken
  <2>3. ASSUME NEW t
        PROVE  /\ Covered(t, ToSet(pendAgents) \cup Taken) => Covered(t, ToSet(pendAgents) \cup Taken)'
               /\ Covered(t, Taken) => Covered(t, Taken)'
               /\ Covered(t, ToSet(pendAgents)) => Covered(t, ToSet(pendAgents))'
    BY <1>1, <2>2 DEF Covered
  <2>4. QED
    BY <1>0, <1>1, <2>1, <2>3 DEF HopesSound
<1>10. QED
  BY <1>7, <1>8, <1>9 DEF CreatorIInv

(* All agents are in place when a task is bound: the one it hopes for is   *)
(* found.                                                                  *)
LEMMA InjectTaskSound ==
    ASSUME CreatorIInv, InjectTask
    PROVE  CreatorIInv'
<1> DEFINE h == Head(newTasks)
           a == BindAgent(h)
<1>0. CreatorTypeOK /\ QueuesSound /\ HopesSound /\ EngineSound
  BY DEF CreatorIInv
<1>1. /\ agent' = agent /\ regAgents' = regAgents /\ regTasks' = regTasks
      /\ pendAgents' = pendAgents /\ pendTasks' = pendTasks /\ crewAgents' = crewAgents
      /\ withdrawn' = withdrawn /\ step' = step /\ step = "inject"
      /\ newAgents = <<>> /\ newAgents' = newAgents /\ newTasks # <<>> /\ newTasks' = Tail(newTasks)
      /\ task' = [task EXCEPT ![h].agent = a]
      /\ crewTasks' = crewTasks \/ crewTasks' = Append(crewTasks, h)
  BY DEF InjectTask, registryVars
<1>2. /\ ListOf(newTasks', Len(task)) /\ h \in 1..Len(task) /\ h \in ToSet(newTasks)
      /\ ToSet(newTasks) = ToSet(newTasks') \cup {h} /\ Distinct(newTasks') /\ h \notin ToSet(newTasks')
  <2>1. newTasks # <<>> /\ newTasks' = Tail(newTasks) /\ ListOf(newTasks, Len(task)) /\ Distinct(newTasks)
    BY <1>0, <1>1 DEF CreatorTypeOK, QueuesSound
  <2>2. /\ ListOf(Tail(newTasks), Len(task)) /\ h \in 1..Len(task)
        /\ ToSet(newTasks) = ToSet(Tail(newTasks)) \cup {h}
        /\ Distinct(Tail(newTasks)) /\ h \notin ToSet(Tail(newTasks))
    BY <2>1, ListTail
  <2> HIDE DEF h, a
  <2>3. QED
    BY <2>1, <2>2
<1>3. a \in 1..Len(agent) /\ (Hopeful(h) => agent[a] = task[h].role)
  <2> DEFINE k == RoleIndex(task[h].role)
  <2>1. task[h].agent = 0
    BY <1>0, <1>2 DEF QueuesSound
  <2>2. a = IF k # 0 THEN crewAgents[k] ELSE crewAgents[1]
    BY <2>1 DEF BindAgent
  <2>3. /\ k = 0 => \A b \in ToSet(crewAgents) : agent[b] # task[h].role
        /\ k # 0 => k \in 1..Len(crewAgents) /\ agent[crewAgents[k]] = task[h].role
    BY <1>0, RoleIndexFinds
  <2> HIDE DEF a, h, k
  <2>4. /\ crewAgents \in Seq(Nat) /\ 1 \in 1..Len(crewAgents) /\ ToSet(crewAgents) \subseteq 1..Len(agent)
    BY <1>0 DEF CreatorTypeOK, ListOf
  <2>5. a \in 1..Len(agent)
    BY <2>2, <2>3, <2>4, SetPlaces
  <2>6. ASSUME Hopeful(h) PROVE agent[a] = task[h].role
    <3>1. Covered(h, Taken)
      BY <1>0, <1>1, <1>2, <2>6 DEF HopesSound
    <3>2. Taken = ToSet(crewAgents)
      BY <1>1, ListEmpty DEF Taken
    <3>3. k # 0
      BY <2>3, <3>1, <3>2 DEF Covered
    <3>4. QED
      BY <2>2, <2>3, <3>3
  <2>7. QED
    BY <2>5, <2>6
<1> HIDE DEF a, h
<1>4. /\ task' \in Seq(StagedTask) /\ Len(task') = Len(task) /\ \A t \in 1..Len(task) : t # h => task'[t] = task[t]
      /\ task'[h].agent = a /\ task'[h].role = task[h].role /\ task'[h].hoped = task[h].hoped
      /\ task'[h].dropped = task[h].dropped
  <2> DEFINE e == [task[h] EXCEPT !.agent = a]
  <2>1. task \in Seq(StagedTask) /\ task[h] \in StagedTask
    BY <1>0, <1>2, ElementOfSeq DEF CreatorTypeOK
  <2>2. a \in Nat
    BY <1>0, <1>3 DEF CreatorTypeOK
  <2>3. /\ e \in StagedTask /\ task' = [task EXCEPT ![h] = e]
        /\ e.agent = a /\ e.role = task[h].role /\ e.hoped = task[h].hoped /\ e.dropped = task[h].dropped
    BY <1>1, <2>1, <2>2 DEF StagedTask
  <2> HIDE DEF e
  <2>4. /\ task' \in Seq(StagedTask) /\ Len(task') = Len(task)
        /\ \A t \in 1..Len(task) : task'[t] = IF t = h THEN e ELSE task[t]
    BY <1>2, <2>1, <2>3, ExceptSeq
  <2>5. QED
    BY <1>2, <2>3, <2>4
<1>5. /\ ListOf(crewTasks', Len(task)) /\ ToSet(crewTasks') \subseteq ToSet(crewTasks) \cup {h}
      /\ h \notin ToSet(crewTasks) /\ h \notin ToSet(pendTasks)
  <2>1. crewTasks \in Seq(Nat) /\ h \in Nat /\ ToSet(crewTasks) \subseteq 1..Len(task)
    BY <1>0, <1>2 DEF CreatorTypeOK, ListOf
  <2>2. h \notin ToSet(crewTasks) /\ h \notin ToSet(pendTasks)
    BY <1>0, <1>2 DEF QueuesSound
  <2>3. crewTasks' \in Seq(Nat) /\ ToSet(crewTasks') \subseteq ToSet(crewTasks) \cup {h}
    BY <1>1, <2>1, AppendSet
  <2>4. QED
    BY <1>2, <2>1, <2>2, <2>3 DEF ListOf
<1>6. CreatorTypeOK'
  BY <1>0, <1>1, <1>2, <1>4, <1>5 DEF CreatorTypeOK
<1>7. \A t \in ToSet(pendTasks) \cup ToSet(newTasks') \cup ToSet(crewTasks) : task'[t] = task[t]
  <2>1. \A t \in ToSet(pendTasks) \cup ToSet(newTasks') \cup ToSet(crewTasks) : t \in 1..Len(task) /\ t # h
    BY <1>0, <1>2, <1>5 DEF CreatorTypeOK, ListOf
  <2>2. QED
    BY <1>4, <2>1
<1>8. QueuesSound'
  <2>1. ~task'[h].dropped
    BY <1>0, <1>2, <1>4 DEF QueuesSound
  <2>2. QED
    BY <1>0, <1>1, <1>2, <1>5, <1>7, <2>1 DEF QueuesSound
<1>9. EngineSound'
  BY <1>0, <1>1 DEF EngineSound
<1>10. HopesSound'
  <2>1. Taken' = Taken
    BY <1>1 DEF Taken
  <2>2. ASSUME NEW t \in ToSet(pendTasks) \cup ToSet(newTasks') \cup ToSet(crewTasks)
        PROVE  /\ Hopeful(t)' <=> Hopeful(t)
               /\ Covered(t, ToSet(pendAgents) \cup Taken) => Covered(t, ToSet(pendAgents) \cup Taken)'
               /\ Covered(t, Taken) => Covered(t, Taken)'
               /\ Covered(t, ToSet(pendAgents)) => Covered(t, ToSet(pendAgents))'
    BY <1>1, <1>7, <2>1 DEF Hopeful, Covered
  <2>3. ASSUME NEW t, t = h
        PROVE  task'[t].agent \in 1..Len(agent') /\ (Hopeful(t)' => agent'[task'[t].agent] = task'[t].role)
    BY <1>1, <1>3, <1>4, <2>3 DEF Hopeful
  <2>4. ASSUME NEW t \in ToSet(crewTasks')
        PROVE  task'[t].agent \in 1..Len(agent') /\ (Hopeful(t)' => agent'[task'[t].agent] = task'[t].role)
    <3>1. CASE t \in ToSet(crewTasks)
      BY <1>0, <1>1, <1>7, <2>2, <3>1 DEF HopesSound
    <3>2. QED
      BY <1>5, <2>3, <3>1
  <2>5. \A t \in ToSet(newTasks') : t \in ToSet(newTasks)
    BY <1>2
  <2>6. QED
    BY <1>0, <1>1, <2>2, <2>4, <2>5 DEF HopesSound
<1>11. QED
  BY <1>6, <1>8, <1>9, <1>10 DEF CreatorIInv

(* The synchronisation only lengthens the list of the tasks.               *)
LEMMA FullSyncSound ==
    ASSUME CreatorIInv, FullSync
    PROVE  CreatorIInv'
<1>0. CreatorTypeOK /\ QueuesSound /\ HopesSound /\ EngineSound
  BY DEF CreatorIInv
<1>1. /\ agent' = agent /\ task' = task /\ regAgents' = regAgents /\ regTasks' = regTasks \o crewTasks
      /\ pendAgents' = pendAgents /\ pendTasks' = pendTasks /\ withdrawn' = withdrawn
      /\ crewAgents' = crewAgents /\ crewTasks' = crewTasks /\ newTasks' = newTasks
      /\ newAgents' = newAgents /\ step' = "run" /\ step = "inject" /\ newAgents = <<>> /\ newTasks = <<>>
  BY DEF FullSync
<1>2. ListOf(regTasks', Len(task))
  BY <1>0, <1>1, ListConcat DEF CreatorTypeOK
<1>3. CreatorTypeOK'
  BY <1>0, <1>1, <1>2 DEF CreatorTypeOK
<1>4. QueuesSound' /\ EngineSound'
  BY <1>0, <1>1 DEF QueuesSound, EngineSound
<1>5. HopesSound'
  BY <1>0, <1>1 DEF HopesSound, Hopeful, Covered, Taken
<1>6. QED
  BY <1>3, <1>4, <1>5 DEF CreatorIInv

(* A kickoff marks tasks as done, whichever they are.                      *)
LEMMA CreatorKickoffSound ==
    ASSUME CreatorIInv, CreatorKickoff
    PROVE  CreatorIInv'
<1>0. CreatorTypeOK /\ QueuesSound /\ HopesSound /\ EngineSound
  BY DEF CreatorIInv
<1>1. /\ agent' = agent /\ pendAgents' = pendAgents /\ pendTasks' = pendTasks /\ withdrawn' = withdrawn
      /\ crewAgents' = crewAgents /\ crewTasks' = crewTasks /\ newTasks' = newTasks
      /\ newAgents' = newAgents /\ step = "run" /\ step' = "poll"
  BY DEF CreatorKickoff
<1>2. ListOf(regAgents', Len(agent)) /\ ListOf(regTasks', Len(task))
  <2>1. /\ ListOf(regAgents, Len(agent)) /\ ListOf(crewAgents, Len(agent))
        /\ ListOf(regTasks, Len(task)) /\ ListOf(crewTasks, Len(task))
    BY <1>0 DEF CreatorTypeOK
  <2>2. ListOf(regAgents \o crewAgents, Len(agent)) /\ ListOf(regTasks \o crewTasks, Len(task))
    BY <2>1, ListConcat
  <2>3. /\ regAgents' = regAgents \/ regAgents' = regAgents \o crewAgents
        /\ regTasks' = regTasks \/ regTasks' = regTasks \o crewTasks
    BY DEF CreatorKickoff, StaticSync
  <2>4. QED
    BY <2>1, <2>2, <2>3, Zenon
<1>3. /\ task' \in Seq(StagedTask) /\ Len(task') = Len(task)
      /\ \A t \in 1..Len(task) : /\ task'[t].role = task[t].role /\ task'[t].hoped = task[t].hoped
                                 /\ task'[t].agent = task[t].agent /\ task'[t].dropped = task[t].dropped
  <2>1. PICK n \in 0..Len(crewTasks) :
           task' = [t \in DOMAIN task |-> [task[t] EXCEPT !.done = @ \/ \E i \in 1..n : crewTasks[i] = t]]
    BY DEF CreatorKickoff
  <2>2. task \in Seq(StagedTask) /\ Len(task) \in Nat /\ DOMAIN task = 1..Len(task)
    BY <1>0 DEF CreatorTypeOK
  <2>3. ASSUME NEW t \in 1..Len(task)
        PROVE  /\ task'[t] \in StagedTask
               /\ task'[t].role = task[t].role /\ task'[t].hoped = task[t].hoped
               /\ task'[t].agent = task[t].agent /\ task'[t].dropped = task[t].dropped
    <3>1. task[t] \in StagedTask
      BY <2>2, ElementOfSeq
    <3>2. PICK d \in BOOLEAN : task'[t] = [task[t] EXCEPT !.done = d]
      BY <2>1, <2>2
    <3>3. QED
      BY <3>1, <3>2 DEF StagedTask
  <2>4. DOMAIN task' = 1..Len(task) /\ task' = [t \in 1..Len(task) |-> task'[t]]
    BY <2>1, <2>2
  <2>5. task' \in [1..Len(task) -> StagedTask]
    BY <2>3, <2>4
  <2>6. task' \in Seq(StagedTask) /\ Len(task') = Len(task)
    BY <2>2, <2>5
  <2>7. QED
    BY <2>3, <2>6
<1>4. CreatorTypeOK'
  BY <1>0, <1>1, <1>2, <1>3 DEF CreatorTypeOK
<1>5. \A t \in ToSet(pendTasks) \cup ToSet(newTasks) \cup ToSet(crewTasks) :
         /\ task'[t].role = task[t].role /\ task'[t].hoped = task[t].hoped
         /\ task'[t].agent = task[t].agent /\ task'[t].dropped = task[t].dropped
  BY <1>0, <1>3 DEF CreatorTypeOK, ListOf
<1>6. QueuesSound'
  BY <1>0, <1>1, <1>5 DEF QueuesSound
<1>7. EngineSound'
  BY <1>0, <1>1 DEF EngineSound
<1>8. HopesSound'
  <2>1. Taken' = Taken
    BY <1>1 DEF Taken
  <2>2. ASSUME NEW t \in ToSet(pendTasks) \cup ToSet(newTasks) \cup ToSet(crewTasks)
        PROVE  /\ Hopeful(t)' <=> Hopeful(t)
               /\ Covered(t, ToSet(pendAgents) \cup Taken) => Covered(t, ToSet(pendAgents) \cup Taken)'
               /\ Covered(t, Taken) => Covered(t, Taken)'
               /\ Covered(t, ToSet(pendAgents)) => Covered(t, ToSet(pendAgents))'
    BY <1>1, <1>5, <2>1 DEF Hopeful, Covered
  <2>3. newTasks = <<>> /\ ToSet(newTasks) = {}
    BY <1>0, <1>1, ListEmpty DEF EngineSound
  <2>4. QED
    BY <1>0, <1>1, <1>5, <2>2, <2>3 DEF HopesSound
<1>9. QED
  BY <1>4, <1>6, <1>7, <1>8 DEF CreatorIInv

(* The engine and the dashboard keep the tasks and their agents in order.  *)
LEMMA CreatorInductive == CreatorSpec => []CreatorIInv
<1>1. CreatorInit => CreatorIInv
  <2>1. SUFFICES ASSUME CreatorInit PROVE CreatorIInv
    OBVIOUS
  <2> DEFINE own == CHOOSE r \in StageRoles : TRUE
  <2>2. own \in StageRoles
    BY CreatorAssumption
  <2>3. /\ agent = <<own>> /\ task = <<>> /\ regAgents = <<>> /\ regTasks = <<>> /\ pendAgents = <<>>
        /\ pendTasks = <<>> /\ crewAgents = <<1>> /\ crewTasks = <<>> /\ step = "poll"
        /\ newTasks = <<>> /\ newAgents = <<>>
    BY <2>1 DEF CreatorInit
  <2> HIDE DEF own
  <2>4. ToSet(<<>>) = {} /\ Distinct(<<>>) /\ \A n : ListOf(<<>>, n)
    BY ListEmpty
  <2>5. agent \in Seq(StageRoles) /\ Len(agent) = 1 /\ task \in Seq(StagedTask)
    BY <2>2, <2>3
  <2>6. ListOf(crewAgents, 1) /\ crewAgents # <<>>
    <3>1. crewAgents \in Seq(Nat) /\ Len(crewAgents) = 1 /\ crewAgents[1] = 1
      BY <2>3
    <3>2. QED
      BY <3>1, SetPlaces DEF ListOf
  <2>7. CreatorTypeOK
    BY <2>3, <2>4, <2>5, <2>6 DEF CreatorTypeOK
  <2>8. QueuesSound /\ HopesSound /\ EngineSound
    BY <2>3, <2>4 DEF QueuesSound, HopesSound, EngineSound
  <2>9. QED
    BY <2>7, <2>8 DEF CreatorIInv
<1>2. CreatorIInv /\ [CreatorNext]_creatorVars => CreatorIInv'
  <2>1. SUFFICES ASSUME CreatorIInv, [CreatorNext]_creatorVars PROVE CreatorIInv'
    OBVIOUS
  <2>2. CASE HandleCreateMCP \/ HandleUpdateConfig \/ UNCHANGED creatorVars
    <3>1. UNCHANGED <<agent, task, regAgents, regTasks, pendAgents, pendTasks, withdrawn, engineVars>>
      BY <2>2 DEF HandleCreateMCP, HandleUpdateConfig, creatorVars, registryVars
    <3>2. QED
      BY <2>1, <3>1, OtherRequestsSound
  <2>3. CASE HandleDeleteEntity
    <3>1. agent' = agent /\ UNCHANGED engineVars
      BY <2>3 DEF HandleDeleteEntity
    <3>2. CASE \E i \in DOMAIN regAgents : DeleteAgent(i)
      BY <2>1, <3>1, <3>2, DeleteAgentSound
    <3>3. CASE \E i \in DOMAIN regTasks : DeleteTask(i)
      BY <2>1, <3>1, <3>3, DeleteTaskSound
    <3>4. CASE UNCHANGED <<task, regAgents, regTasks, pendAgents, pendTasks, withdrawn>>
      BY <2>1, <3>1, <3>4, OtherRequestsSound
    <3>5. QED
      BY <2>3, <3>2, <3>3, <3>4 DEF HandleDeleteEntity
  <2>4. QED
    BY <2>1, <2>2, <2>3, CreateAgentSound, CreateTaskSound, PullSound, InjectAgentSound, InjectTaskSound,
       FullSyncSound, CreatorKickoffSound DEF CreatorNext
<1>3. QED
  BY <1>1, <1>2, PTL DEF CreatorSpec

(* A task whose agent was staged before it is bound to an agent of its     *)
(* role, for any number of agents, tasks and rounds and wherever the       *)
(* requests fall between PullTasks and PullAgents: the tasks are pulled    *)
(* first (crew.go RunCreatorMode, events.go PullTasks and PullAgents).     *)
THEOREM TasksGetTheirAgents == CreatorSpec => []BoundToItsAgent
<1>1. CreatorIInv => BoundToItsAgent
  <2>1. SUFFICES ASSUME CreatorIInv, NEW i \in DOMAIN crewTasks,
                        task[crewTasks[i]].hoped, task[crewTasks[i]].role \notin withdrawn
                 PROVE  agent[task[crewTasks[i]].agent] = task[crewTasks[i]].role
    BY DEF BoundToItsAgent
  <2>2. crewTasks[i] \in ToSet(crewTasks)
    BY DEF ToSet
  <2>3. QED
    BY <2>1, <2>2 DEF CreatorIInv, HopesSound, Hopeful
<1>2. QED
  BY <1>1, CreatorInductive, PTL

(* A task deleted in the dashboard while it is queued never reaches the    *)
(* crew, whatever the synchronisations put on the list the index refers to *)
(* (events.go DeleteTask).                                                 *)
THEOREM DeletedTasksNeverRun == CreatorSpec => []DeletedNotRun
<1>1. CreatorIInv => DeletedNotRun
  <2>1. SUFFICES ASSUME CreatorIInv, NEW i \in DOMAIN crewTasks PROVE ~task[crewTasks[i]].dropped
    BY DEF DeletedNotRun
  <2>2. crewTasks[i] \in ToSet(crewTasks)
    BY DEF ToSet
  <2>3. QED
    BY <2>1, <2>2 DEF CreatorIInv, QueuesSound
<1>2. QED
  BY <1>1, CreatorInductive, PTL
=============================================================================
