------------------------------- MODULE Sandbox -------------------------------
(***************************************************************************)
(* Running generated code: the Wasm and Docker providers (pkg/sandbox),    *)
(* the code interpreter, the code sandbox and the shell tool (pkg/tools).  *)
(* Concurrent calls share the Wasm provider's one-entry cache of compiled  *)
(* modules; every call owns a container, an instance or a process.         *)
(*                                                                         *)
(* Abstracted: code is a binary's number; output, its budget and the error *)
(* a call returns; what the daemon, the E2B service, a process and the     *)
(* guest do is chosen freely.                                              *)
(***************************************************************************)
EXTENDS Integers, Sequences, FiniteSets

CONSTANTS
    Jobs,           \* concurrent calls
    Binaries        \* Wasm binaries

Kinds == {"wasm", "docker", "e2b", "process"}

VARIABLES
    job,            \* each call: [kind, step, bin, mod, own]
    mods,           \* compiled modules: "open" or "closed"
    cached,         \* WasmProvider.cachedModule (0 if nil) and its hash
    cachedHash,
    active,         \* Monitor.ActiveSessions
    left,           \* calls whose instance stays in the runtime
    box,            \* the call's container or instance: "none", "up", "gone"
    told,           \* calls that were told which container or instance is theirs
    reported,       \* the daemon refused to remove the container, which was logged
    expired         \* the call's context is done

wasmVars == <<mods, cached, cachedHash, active, left>>
hostVars == <<box, told, reported>>
sandboxVars == <<job, wasmVars, hostVars, expired>>

SandboxInit ==
    /\ job \in [Jobs -> [kind : Kinds, step : {"new"}, bin : Binaries, mod : {0}, own : {FALSE}]]
    /\ mods = <<>> /\ cached = 0 /\ cachedHash = 0 /\ active = 0 /\ left = {}
    /\ box = [j \in Jobs |-> "none"] /\ told = {} /\ reported = {} /\ expired = [j \in Jobs |-> FALSE]

At(j, k, s) == job[j].kind = k /\ job[j].step = s
Goto(j, s) == job' = [job EXCEPT ![j].step = s]
Outcomes == {"ok", "fail"}

(* The call's timeout, or its caller's.                                    *)
Expire(j) ==
    /\ job[j].step \notin {"new", "returned"} /\ ~expired[j]
    /\ expired' = [expired EXCEPT ![j] = TRUE]
    /\ UNCHANGED <<job, wasmVars, hostVars>>

(***************************************************************************)
(* WasmProvider.Execute.                                                   *)
(***************************************************************************)
(* A missing file, a size over the limit, an empty binary.                 *)
ResolveWasmBytes == Outcomes
(* Too many variables or one that is too long.                             *)
InjectEnv == Outcomes

(* RecordStart; the deferred RecordEnd runs on every return.               *)
WasmStart(j) ==
    /\ At(j, "wasm", "new")
    /\ \/ \E r \in ResolveWasmBytes, e \in InjectEnv :
             "fail" \in {r, e} /\ Goto(j, "returned") /\ UNCHANGED active
       \/ Goto(j, "lookup") /\ active' = active + 1
    /\ UNCHANGED <<mods, cached, cachedHash, left, expired, hostVars>>

(* Module c, if there is one, is closed.                                   *)
Closed(c) == [m \in DOMAIN mods |-> IF m = c THEN "closed" ELSE mods[m]]

(* The cached module of the same binary is used; one of another binary is  *)
(* closed, whoever is about to instantiate it.                             *)
WasmLookup(j) ==
    /\ At(j, "wasm", "lookup")
    /\ IF cached # 0 /\ cachedHash = job[j].bin
       THEN /\ job' = [job EXCEPT ![j].step = "run", ![j].mod = cached]
            /\ UNCHANGED <<mods, cached, cachedHash>>
       ELSE /\ Goto(j, "compile") /\ cached' = 0 /\ cachedHash' = 0
            /\ mods' = Closed(cached)
    /\ UNCHANGED <<active, left, expired, hostVars>>

WasmCompile(j) ==
    /\ At(j, "wasm", "compile")
    /\ \/ Goto(j, "return") /\ UNCHANGED mods
       \/ /\ ~expired[j] /\ mods' = Append(mods, "open")
          /\ job' = [job EXCEPT ![j].step = "store", ![j].mod = Len(mods) + 1]
    /\ UNCHANGED <<cached, cachedHash, active, left, expired, hostVars>>

KeepUnowned(j) == FALSE
(* Another call filled the cache meanwhile: this module is closed after    *)
(* its run.                                                                *)
OwnModule(j) == cached # 0

WasmStore(j) ==
    /\ At(j, "wasm", "store")
    /\ job' = [job EXCEPT ![j].step = "run", ![j].own = OwnModule(j)]
    /\ IF cached = 0 THEN cached' = job[j].mod /\ cachedHash' = job[j].bin
       ELSE UNCHANGED <<cached, cachedHash>>
    /\ UNCHANGED <<mods, active, left, expired, hostVars>>

(* InstantiateModule runs the guest and fails on a closed module.  The     *)
(* instance it returns is dropped, not closed: one whose guest came back   *)
(* without exiting stays in the runtime.                                   *)
WasmRun(j) ==
    /\ At(j, "wasm", "run") /\ Goto(j, "return")
    /\ \/ mods[job[j].mod] = "open" /\ ~expired[j] /\ left' = left \cup {j}
       \/ UNCHANGED left
    /\ UNCHANGED <<mods, cached, cachedHash, active, expired, hostVars>>

WasmReturn(j) ==
    /\ At(j, "wasm", "return") /\ Goto(j, "returned") /\ active' = active - 1
    /\ mods' = IF job[j].own THEN Closed(job[j].mod) ELSE mods
    /\ UNCHANGED <<cached, cachedHash, left, expired, hostVars>>

(* Close, once the calls are done: the cached module and the runtime with  *)
(* its instances.                                                          *)
WasmClose ==
    /\ cached # 0 \/ left # {}
    /\ \A j \in Jobs : job[j].kind = "wasm" => job[j].step = "returned"
    /\ mods' = Closed(cached) /\ cached' = 0 /\ cachedHash' = 0 /\ left' = {}
    /\ UNCHANGED <<job, active, expired, hostVars>>

(***************************************************************************)
(* DockerProvider.Execute.                                                 *)
(***************************************************************************)
(* What a call learns of a container or instance it asks for: it is        *)
(* refused; it is told; or the answer is lost, to the call's timeout or on *)
(* the way, after the other end has made it.                               *)
Create(j, next) ==
    \/ Goto(j, "returned") /\ UNCHANGED <<box, told>>
    \/ Goto(j, "returned") /\ box' = [box EXCEPT ![j] = "up"] /\ UNCHANGED told
    \/ Goto(j, next) /\ box' = [box EXCEPT ![j] = "up"] /\ told' = told \cup {j}

(* dockerSandboxTool checks the code; ContainerCreate, whose error returns *)
(* before the cleanup is deferred.                                         *)
DockerCreate(j) ==
    /\ At(j, "docker", "new") /\ Create(j, "start")
    /\ UNCHANGED <<wasmVars, expired, reported>>

(* ContainerStart, ContainerWait, ContainerLogs; any may fail, and fails   *)
(* once the context is done.                                               *)
DockerStep(j) ==
    /\ job[j].kind = "docker" /\ job[j].step \in {"start", "wait", "logs"}
    /\ \/ Goto(j, "cleanup")
       \/ ~expired[j] /\ job[j].step # "logs"
          /\ Goto(j, IF job[j].step = "start" THEN "wait" ELSE "logs")
    /\ UNCHANGED <<wasmVars, expired, hostVars>>

(* The cleanup has a context of its own, independent of the call's.        *)
CleanupContext(j) == TRUE

(* ContainerStop and a forced ContainerRemove; a refusal is logged.        *)
DockerCleanup(j) ==
    /\ At(j, "docker", "cleanup") /\ Goto(j, "returned")
    /\ \/ /\ box' = [box EXCEPT ![j] = IF CleanupContext(j) THEN "gone" ELSE @]
          /\ UNCHANGED reported
       \/ reported' = reported \cup {j} /\ UNCHANGED box
    /\ UNCHANGED <<wasmVars, expired, told>>

(***************************************************************************)
(* CodeInterpreterTool.runE2B.                                             *)
(***************************************************************************)
(* The instance is created, and the goroutine that deletes it starts at    *)
(* once; a 201 that does not decode returns before.                        *)
E2bCreate(j) ==
    /\ At(j, "e2b", "new") /\ Create(j, "command")
    /\ UNCHANGED <<wasmVars, expired, reported>>

(* Its context is cancelled when the call returns.                         *)
E2bDelete(j) ==
    /\ job[j].kind = "e2b" /\ job[j].step = "command" /\ box[j] = "up"
    /\ box' = [box EXCEPT ![j] = "gone"]
    /\ UNCHANGED <<job, wasmVars, told, reported, expired>>

(* The command, which fails if the instance is gone already; the call      *)
(* returns with its answer.                                                *)
E2bCommand(j) ==
    /\ At(j, "e2b", "command") /\ Goto(j, "returned")
    /\ UNCHANGED <<wasmVars, expired, hostVars>>

(***************************************************************************)
(* A process: docker run of the two code tools, sh -c of the shell tool.   *)
(***************************************************************************)
(* The command word has to be on the list, no blocked pattern or shell     *)
(* metacharacter in the command.                                           *)
ShellPermits == Outcomes
(* The language has to be known and a sandbox configured.                  *)
InterpreterPermits == Outcomes

ProcessStart(j) ==
    /\ At(j, "process", "new")
    /\ \/ \E p \in ShellPermits \cup InterpreterPermits : p = "fail" /\ Goto(j, "returned")
       \/ Goto(j, "drain")
    /\ UNCHANGED <<wasmVars, expired, hostVars>>

(* Both pipes are closed; the process exited, failed or was killed, as one *)
(* over its output budget is.                                              *)
ProcessReturn(j) ==
    /\ At(j, "process", "drain") /\ Goto(j, "returned")
    /\ UNCHANGED <<wasmVars, expired, hostVars>>

JobNext(j) ==
    \/ WasmStart(j) \/ WasmLookup(j) \/ WasmCompile(j) \/ WasmStore(j) \/ WasmRun(j) \/ WasmReturn(j)
    \/ DockerCreate(j) \/ DockerStep(j) \/ DockerCleanup(j)
    \/ E2bCreate(j) \/ E2bDelete(j) \/ E2bCommand(j)
    \/ ProcessStart(j) \/ ProcessReturn(j) \/ Expire(j)

SandboxNext == WasmClose \/ \E j \in Jobs : JobNext(j)

SandboxSpec == SandboxInit /\ [][SandboxNext]_sandboxVars

InUse(m) == \E j \in Jobs : job[j].mod = m /\ job[j].step \in {"store", "run", "return"}

(* In whatever order calls with different binaries overtake each other     *)
(* between the two lock sections, and however a call ends, a compiled      *)
(* module is closed unless it is cached or in use; and a container that    *)
(* its call was told of is gone when the call returns, also after a        *)
(* timeout, unless the daemon refused.                                     *)
SandboxReleased ==
    /\ \A m \in DOMAIN mods : mods[m] = "open" => m = cached \/ InUse(m)
    /\ \A j \in told : At(j, "docker", "returned") => box[j] = "gone" \/ j \in reported
=============================================================================
