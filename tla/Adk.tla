--------------------------------- MODULE Adk ---------------------------------
(***************************************************************************)
(* The ADK adapter (pkg/adk/adapter.go): ADKAgent around an agent, with    *)
(* tools granted for one invocation, the session bridge and the agent      *)
(* backed by it, the state adapter over a memory store, and the registries.*)
(*                                                                         *)
(* Abstracted: messages and values are counted; what the wrapped agent's   *)
(* Execute does is chosen freely, except that it uses the tools the agent  *)
(* has when it starts.                                                     *)
(***************************************************************************)
EXTENDS Integers, Sequences, SequencesExt

CONSTANTS
    Invokers,       \* goroutines that use the adapter: 1, 2, ...
    MaxInvokes,     \* bound: invocations
    MaxHistory      \* bound: events of the session

ASSUME AdkAssumption == 0 \notin Invokers

VARIABLES
    tools,          \* Agent.Tools: 0 is its own, others the invoker they were granted to
    cores,          \* whether the core is an *agents.Agent
    toolCache,      \* ADKAgent.toolCache: invokers whose grants were recorded
    adkMu,          \* ADKAgent.mu: the holder, 0 if free
    inv,            \* each invoker: [step, with, before, sees]
    bridged,        \* a SessionBridge is set
    history,        \* its events: "user" or "assistant"
    execCount,      \* sessionAwareAgent.execCount
    cache,          \* memoryStateAdapter.cache of one key; 0 if missing
    store,          \* the memory store behind it
    recall,         \* an invoker in Get, with what it read from the store
    registered,     \* AgentRegistry, ToolRegistry
    invokes

adkVars == <<tools, cores, toolCache, adkMu, inv, bridged, history, execCount, cache, store, recall,
             registered, invokes>>

NoInv == [step |-> "idle", with |-> FALSE, before |-> 0, sees |-> {}]

AdkInit ==
    /\ tools = <<0>> /\ cores \in BOOLEAN /\ toolCache = {} /\ adkMu = 0
    /\ inv = [i \in Invokers |-> NoInv] /\ bridged = FALSE /\ history = <<>> /\ execCount = 0
    /\ cache = 0 /\ store = 1 /\ recall = [i \in Invokers |-> 0] /\ registered = {} /\ invokes = 0

AddEvent(role) ==
    history' = IF bridged /\ Len(history) < MaxHistory THEN Append(history, role) ELSE history

(***************************************************************************)
(* ADKAgent.                                                               *)
(***************************************************************************)
(* SetSession; NewSessionBridge copies the events of the ADK session.      *)
SetSession ==
    /\ adkMu = 0 /\ ~bridged /\ bridged' = TRUE /\ history' = <<>>
    /\ UNCHANGED <<tools, cores, toolCache, adkMu, inv, execCount, cache, store, recall, registered, invokes>>

(* Run, called directly, takes no lock.                                    *)
AdkRun(i) ==
    /\ inv[i] = NoInv /\ invokes < MaxInvokes /\ invokes' = invokes + 1
    /\ inv' = [inv EXCEPT ![i] = [NoInv EXCEPT !.step = "execute", !.sees = ToSet(tools)]]
    /\ AddEvent("user")
    /\ UNCHANGED <<tools, cores, toolCache, adkMu, bridged, execCount, cache, store, recall, registered>>

(* RunWithTools: too long an input, or tools for a core that cannot be     *)
(* equipped, is refused; else the tools, if any, are appended and the      *)
(* agent executes.                                                         *)
RunWithTools(i) ==
    /\ inv[i] = NoInv /\ adkMu = 0 /\ invokes < MaxInvokes /\ invokes' = invokes + 1
    /\ \/ UNCHANGED <<tools, adkMu, inv, history>>
       \/ \E grant \in BOOLEAN :
             /\ grant => cores
             /\ adkMu' = i /\ tools' = IF grant THEN Append(tools, i) ELSE tools
             /\ inv' = [inv EXCEPT ![i] = [step |-> "execute", with |-> grant, before |-> Len(tools),
                                           sees |-> ToSet(tools')]]
             /\ AddEvent("user")
    /\ UNCHANGED <<cores, toolCache, bridged, execCount, cache, store, recall, registered>>

RestoreOnSuccess(i, ok) == IF ok THEN SubSeq(tools, 1, inv[i].before) ELSE tools
(* The deferred restore runs after success, failure and cancellation.      *)
Restore(i, ok) == IF Len(tools) >= inv[i].before THEN SubSeq(tools, 1, inv[i].before) ELSE tools

(* Execute returns; with granted tools the cache is refreshed in any case. *)
Executed(i) ==
    /\ inv[i].step = "execute"
    /\ \E ok \in BOOLEAN :
          /\ IF ok THEN AddEvent("assistant") ELSE UNCHANGED history
          /\ IF inv[i].with
             THEN tools' = Restore(i, ok) /\ toolCache' = toolCache \cup {i}
             ELSE UNCHANGED <<tools, toolCache>>
    /\ adkMu' = IF adkMu = i THEN 0 ELSE adkMu
    /\ inv' = [inv EXCEPT ![i] = NoInv]
    /\ UNCHANGED <<cores, bridged, execCount, cache, store, recall, registered, invokes>>

(***************************************************************************)
(* The session: ClearHistory, and the agent that answers from it.          *)
(***************************************************************************)
ClearHistory ==
    /\ bridged /\ history # <<>> /\ history' = <<>>
    /\ UNCHANGED <<tools, cores, toolCache, adkMu, inv, bridged, execCount, cache, store, recall, registered,
                   invokes>>

(* GetLastUserMessage comes before the input; without either it is refused.*)
SessionExecute ==
    /\ bridged /\ execCount < 1 /\ \E input \in BOOLEAN : input \/ Contains(history, "user")
    /\ execCount' = execCount + 1 /\ AddEvent("assistant")
    /\ UNCHANGED <<tools, cores, toolCache, adkMu, inv, bridged, cache, store, recall, registered, invokes>>

(***************************************************************************)
(* memoryStateAdapter over a store that can recall.                        *)
(***************************************************************************)
(* A miss reads the store with no lock held, and fills the cache after it. *)
StateGet(i) ==
    \/ /\ cache = 0 /\ recall[i] = 0 /\ inv[i] = NoInv /\ recall' = [recall EXCEPT ![i] = store]
       /\ UNCHANGED cache
    \/ /\ recall[i] # 0 /\ cache' = recall[i] /\ recall' = [recall EXCEPT ![i] = 0]

StateRead(i) ==
    /\ StateGet(i)
    /\ UNCHANGED <<tools, cores, toolCache, adkMu, inv, bridged, history, execCount, store, registered, invokes>>

(* The store's error is ignored.                                           *)
StateSet ==
    /\ store = 1 /\ cache' = 2 /\ store' \in {1, 2}
    /\ UNCHANGED <<tools, cores, toolCache, adkMu, inv, bridged, history, execCount, recall, registered, invokes>>

(* AgentRegistry.Register and ToolRegistry.Register.                       *)
Register ==
    /\ registered' \in {registered \cup {"agent"}, registered \cup {"tool"}} /\ registered' # registered
    /\ UNCHANGED <<tools, cores, toolCache, adkMu, inv, bridged, history, execCount, cache, store, recall, invokes>>

AdkNext ==
    \/ \E i \in Invokers : AdkRun(i) \/ RunWithTools(i) \/ Executed(i) \/ StateRead(i)
    \/ SetSession \/ ClearHistory \/ SessionExecute \/ StateSet \/ Register

AdkSpec == AdkInit /\ [][AdkNext]_adkVars

(* Temporary grants are scoped to their invocation: a run with granted     *)
(* tools sees the agent's own and its own grants and no other's, one under *)
(* the lock without grants only the agent's own, whatever way earlier      *)
(* invocations ended, and none is left when nobody holds one.              *)
GrantsScoped ==
    /\ \A i \in Invokers : inv[i].with => inv[i].sees = {0, i}
    /\ adkMu # 0 => inv[adkMu].with \/ inv[adkMu].sees = {0}
    /\ (\A i \in Invokers : ~inv[i].with) => tools = <<0>>
=============================================================================
