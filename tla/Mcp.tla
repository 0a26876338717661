-------------------------------- MODULE Mcp --------------------------------
(***************************************************************************)
(* The Model Context Protocol (pkg/protocols/mcp.go, mcp_bridge.go,        *)
(* mcp_server_stdio.go; Agent.New and EquipMCP): a client with one of      *)
(* three transports, the discovery that equips an agent with the server's  *)
(* tools, and the calls made after it, with the server's end.  Over stdio  *)
(* the requests of all callers share one pipe each way and one readLoop,   *)
(* which finds the waiting caller in the map pending.                      *)
(*                                                                         *)
(* Abstracted: payloads (an answer is known by the request it is for); the *)
(* events of the SSE stream (the endpoint event arrives whole or torn).    *)
(***************************************************************************)
EXTENDS Integers, FiniteSets, Sequences, SequencesExt

CONSTANTS
    Clients,        \* goroutines that call tools
    Agent,          \* the one that makes the discovery
    MaxRequests,    \* bound: requests
    MaxTies,        \* bound: requests that read a time another one has read
    Transports,     \* "http", "stdio", "sse"
    Owners          \* whose context starts the server: "new", "equip", "app"

ASSUME AgentCalls == Agent \in Clients

VARIABLES
    kind,           \* the transport
    peer,           \* whose server: "ours" (MCPServer, StdioServer), "other"
    owner,          \* "new": Agent.New; "equip": EquipMCP; "app": who keeps the context
    proc,           \* the server process or SSE stream: none, alive, jammed, dead
    exited,         \* the server stopped, or was stopped, for a reason of its own
    ready,          \* SSE: postURL is known
    phase,          \* discovery: off, a method, equip, up, failed
    offers,         \* what is registered on the server
    equipped,       \* what the agent got of it
    call,           \* what each client is doing
    serial,         \* requests made
    ids,            \* the id each request over stdio carries
    pending,        \* id -> the request whose channel waits for the answer
    toServer,       \* requests in the pipe or at the server
    toClient,       \* answers in the pipe
    reader,         \* the readLoop
    sampled         \* the agent's LLM ran for the server

mcpVars == <<kind, owner, peer, proc, exited, ready, phase, offers, equipped, call, serial, ids,
             pending, toServer, toClient, reader, sampled>>
session == <<kind, owner, peer, exited, ready, offers, equipped, sampled>>

Offers == {"tool", "resource"}
NoCall == [step |-> "idle", method |-> "none", serial |-> 0, chan |-> 0, got |-> 0, ok |-> FALSE]
NoReader == [step |-> "off", chan |-> 0, answer |-> 0]

McpInit ==
    /\ kind \in Transports /\ owner \in Owners /\ peer \in {"ours", "other"}
    /\ proc = "none" /\ exited = FALSE /\ ready = FALSE /\ phase = "off"
    /\ offers = {} /\ equipped = {} /\ call = [c \in Clients |-> NoCall] /\ serial = 0
    /\ ids = <<>> /\ pending = <<>> /\ toServer = {} /\ toClient = {} /\ reader = NoReader /\ sampled = FALSE

(***************************************************************************)
(* Server: what is registered and how a request is answered.               *)
(***************************************************************************)
(* RegisterTool, RegisterResource, and ExposeAgent, which registers an     *)
(* agent as a tool.                                                        *)
RegisterTool(o) ==
    /\ phase = "off" /\ offers' = offers \cup {o} /\ offers' # offers
    /\ UNCHANGED <<kind, owner, peer, proc, exited, ready, phase, equipped, call, serial, ids, pending, toServer,
                   toClient, reader, sampled>>

(* WrapToolForMCP: a tool that needs review is not run over MCP; that, and *)
(* an error of the tool, is a result with isError.                         *)
WrapToolForMCP(needsReview) == IF needsReview THEN {"isError"} ELSE {"isError", "result"}
ExposeAgent(input) == IF input = "" THEN {"isError"} ELSE {"isError", "result"}

HandleToolCall == WrapToolForMCP(TRUE) \cup WrapToolForMCP(FALSE) \cup ExposeAgent("")

(* MCPServer.handleMessage lists tools and resources and calls tools; it   *)
(* knows no other method.                                                  *)
HandleMcpMessage(method) ==
    CASE method \in {"tools/list", "resources/list"} -> {"result"}
      [] method = "tools/call" -> HandleToolCall
      [] OTHER -> {"error"}

(* StdioServer.Serve: the same without resources.                          *)
ServeMethod(method) ==
    CASE method = "tools/list" -> {"result"}
      [] method = "tools/call" -> HandleToolCall
      [] OTHER -> {"error"}

(* A server that is not this package's may answer anything.                *)
Answers(method) ==
    CASE peer = "other" -> {"result", "isError", "error"}
      [] peer = "ours" /\ kind = "stdio" -> ServeMethod(method)
      [] OTHER -> HandleMcpMessage(method)

(* CallTool, ReadResource and the lists return what parses;                *)
(* mcpToolAdapter.Execute returns the text of a result with isError as if  *)
(* it were the tool's.                                                     *)
Parsed(answer) == answer # "error"

(***************************************************************************)
(* Transport.Initialize.                                                   *)
(***************************************************************************)
(* validateCommand wants the absolute path of an executable in one of      *)
(* three directories.                                                      *)
ValidateCommand(absolute, executable, allowedDir) == absolute /\ executable /\ allowedDir

(* Stdio: the command is started under the context of Initialize.          *)
StartProcess ==
    /\ kind = "stdio" /\ phase = "off"
    /\ \E absolute, executable, allowedDir \in BOOLEAN :
          IF ValidateCommand(absolute, executable, allowedDir)
          THEN proc' = "alive" /\ reader' = [NoReader EXCEPT !.step = "read"] /\ phase' = "tools/list"
          ELSE proc' = "none" /\ reader' = reader /\ phase' = "failed"
    /\ UNCHANGED session /\ UNCHANGED <<call, serial, ids, pending, toServer, toClient>>

(* SSE: the stream is opened and its endpoint event awaited; an event that *)
(* two reads tear apart is not recognised and the wait times out.          *)
OpenStream ==
    /\ kind = "sse" /\ phase = "off"
    /\ \E status, whole \in BOOLEAN :
          /\ proc' = IF status THEN "alive" ELSE "none"
          /\ ready' = (status /\ whole)
          /\ phase' = IF status /\ whole THEN "tools/list" ELSE "failed"
    /\ UNCHANGED <<kind, owner, peer, exited, offers, equipped, call, serial, ids, pending, toServer, toClient,
                   reader, sampled>>

StartHttp ==
    /\ kind = "http" /\ phase = "off" /\ phase' = "tools/list"
    /\ UNCHANGED session /\ UNCHANGED <<proc, call, serial, ids, pending, toServer, toClient, reader>>

(***************************************************************************)
(* Requests.                                                               *)
(***************************************************************************)
Lists == {"tools/list", "resources/list", "prompts/list", "prompts/get"}
Uses == [m \in {"tools/call", "resources/read"} |-> IF m = "tools/call" THEN "tool" ELSE "resource"]

(* The discovery asks for the three lists, New for the prompts too;        *)
(* only a failure to list the tools ends it.                               *)
AfterList(method, ok) ==
    CASE method = "tools/list" -> IF ok THEN "resources/list" ELSE "failed"
      [] method = "resources/list" -> "prompts/list"
      [] method = "prompts/list" /\ owner = "new" -> "prompts/get"
      [] OTHER -> "equip"

MethodsFor(c) ==
    IF phase \in Lists THEN IF c = Agent THEN {phase} ELSE {}
    ELSE IF phase = "up" THEN {m \in DOMAIN Uses : Uses[m] \in equipped} ELSE {}

Finish(c, ok, got) ==
    /\ call' = [call EXCEPT ![c] = [@ EXCEPT !.step = "idle", !.chan = 0, !.ok = ok, !.got = got]]
    /\ phase' = IF c = Agent /\ phase \in Lists THEN AfterList(phase, ok) ELSE phase

(* HTTP and SSE: the answer is the body of the POST.                       *)
Post(c) ==
    /\ call[c].step = "idle" /\ serial < MaxRequests
    /\ \E method \in MethodsFor(c), arrives \in BOOLEAN :
          \E answer \in Answers(method) :
             /\ serial' = serial + 1
             /\ Finish(c, Parsed(answer) /\ arrives, serial + 1)
    /\ UNCHANGED session /\ UNCHANGED <<proc, ids, pending, toServer, toClient, reader>>

HttpRequest(c) == kind = "http" /\ Post(c)
SseRequest(c) == kind = "sse" /\ ready /\ Post(c)

Ties == Len(ids) - Cardinality(ToSet(ids))
InFlight ==
    {call[c].serial : c \in {d \in Clients : call[d].step # "idle"}} \cup toClient
    \cup {r.serial : r \in toServer}
(* time.Now().UnixNano(), read without a lock: a new time or, as the clock *)
(* may stand still or be set back, one that an earlier request has read;   *)
(* one that no call and no answer carries any more is as good as new.      *)
UnixNano ==
    {serial + 1} \cup {t \in ToSet(ids) : Ties < MaxTies /\ \E n \in InFlight : ids[n] = t}

Without(id) == [i \in DOMAIN pending \ {id} |-> pending[i]]

(* Stdio: the channel is put into pending, over another one with the same  *)
(* id, before the request is written.                                      *)
SendRequest(c) ==
    /\ kind = "stdio" /\ call[c].step = "idle" /\ serial < MaxRequests
    /\ \E method \in MethodsFor(c), id \in UnixNano :
          /\ serial' = serial + 1 /\ ids' = Append(ids, id)
          /\ call' = [call EXCEPT ![c] = [NoCall EXCEPT !.step = "encode", !.method = method,
                                                        !.serial = serial + 1]]
          /\ pending' = [i \in DOMAIN pending \cup {id} |-> IF i = id THEN serial + 1 ELSE pending[i]]
    /\ UNCHANGED session /\ UNCHANGED <<proc, phase, toServer, toClient, reader>>

Forget(c) == Without(ids[call[c].serial])

EncodeRequest(c) ==
    /\ call[c].step = "encode"
    /\ IF proc \in {"alive", "jammed"}
       THEN /\ toServer' = toServer \cup {[serial |-> call[c].serial, method |-> call[c].method]}
            /\ call' = [call EXCEPT ![c].step = "wait"] /\ UNCHANGED <<pending, phase>>
       ELSE pending' = Forget(c) /\ Finish(c, FALSE, 0) /\ UNCHANGED toServer
    /\ UNCHANGED session /\ UNCHANGED <<proc, serial, ids, toClient, reader>>

(* The server answers in any order; a StdioServer that reads what is not   *)
(* JSON reports the same decode error for ever.                            *)
ServeStdio ==
    /\ proc = "alive"
    /\ \E r \in toServer :
          /\ toServer' = toServer \ {r}
          /\ toClient' = toClient \cup {r.serial}
    /\ UNCHANGED session /\ UNCHANGED <<proc, phase, call, serial, ids, pending, reader>>

ServeDecodeError ==
    /\ kind = "stdio" /\ proc = "alive" /\ proc' = "jammed" /\ exited' = TRUE
    /\ UNCHANGED <<kind, owner, peer, ready, phase, offers, equipped, call, serial, ids, pending, toServer,
                   toClient, reader, sampled>>

ChannelsAny(id) == {pending[i] : i \in DOMAIN pending}
(* t.pending[*msg.ID], if there is one.                                    *)
Channels(id) == {pending[i] : i \in DOMAIN pending \cap {id}}

(* readLoop: the waiting channel is taken out of pending under the mutex,  *)
(* the answer is sent into it after the unlock.                            *)
ReadResponse ==
    /\ reader.step = "read"
    /\ \E n \in toClient :
          /\ toClient' = toClient \ {n} /\ pending' = Without(ids[n])
          /\ \/ Channels(ids[n]) = {} /\ UNCHANGED reader
             \/ \E ch \in Channels(ids[n]) : reader' = [step |-> "hand", chan |-> ch, answer |-> n]
    /\ UNCHANGED session /\ UNCHANGED <<proc, phase, call, serial, ids, toServer>>

ChanRoomUnbuffered(n) == \E c \in Clients : call[c].serial = n /\ call[c].step = "wait"
(* make(chan *rpcResponse, 1): there is room for an answer whether or not  *)
(* the caller still waits for it.                                          *)
ChanRoom(n) == \A c \in Clients : call[c].serial = n => call[c].chan = 0

HandResponse ==
    /\ reader.step = "hand" /\ ChanRoom(reader.chan)
    /\ reader' = [NoReader EXCEPT !.step = "read"]
    /\ call' = [c \in Clients |-> IF call[c].serial = reader.chan /\ call[c].step \in {"encode", "wait"}
                                  THEN [call[c] EXCEPT !.chan = reader.answer] ELSE call[c]]
    /\ UNCHANGED session /\ UNCHANGED <<proc, phase, serial, ids, pending, toServer, toClient>>

(* The end of the stream, or output that does not decode while the server  *)
(* runs on: nobody wakes the callers that wait.                            *)
ReadEof ==
    /\ reader.step = "read" /\ (proc = "dead" => toClient = {})
    /\ reader' = [NoReader EXCEPT !.step = "ended"]
    /\ UNCHANGED session /\ UNCHANGED <<proc, phase, call, serial, ids, pending, toServer, toClient>>

(* The agent's OnSample: AskHuman needs an approver that says yes.         *)
OnSample(policy, approved) == policy = "Always" \/ (policy = "AskHuman" /\ approved)

(* handleNotification runs OnSample in a goroutine: the reader goes on.    *)
HandleNotification ==
    /\ reader.step = "read" /\ proc = "alive"
    /\ \E policy \in {"Never", "AskHuman", "Always"}, approved \in BOOLEAN :
          sampled' = (sampled \/ OnSample(policy, approved))
    /\ UNCHANGED <<kind, owner, peer, proc, exited, ready, phase, offers, equipped, call, serial, ids, pending,
                   toServer, toClient, reader>>

Receive(c) ==
    /\ call[c].step = "wait" /\ call[c].chan # 0
    /\ \E answer \in Answers(call[c].method) : Finish(c, Parsed(answer), call[c].chan)
    /\ UNCHANGED session /\ UNCHANGED <<proc, serial, ids, pending, toServer, toClient, reader>>

(* The context of the discovery is also the one that started the server.   *)
Cancel(c) ==
    /\ call[c].step = "wait"
    /\ pending' = Forget(c) /\ Finish(c, FALSE, 0)
    /\ IF phase \in Lists
       THEN /\ exited' = TRUE /\ proc' = "dead" /\ toServer' = {}
       ELSE UNCHANGED <<exited, proc, toServer>>
    /\ UNCHANGED <<kind, owner, peer, ready, offers, equipped, sampled, serial, ids, toClient, reader>>

(***************************************************************************)
(* The end of the discovery and of the server.                             *)
(***************************************************************************)
(* New equips what isAllowed lets through and then calls cancel(): the     *)
(* context that started the process, or opened the stream, is done.        *)
Discovered(got) ==
    /\ equipped' = IF phase = "equip" THEN got ELSE {}
    /\ phase' = IF phase = "equip" THEN "up" ELSE "failed"
    /\ proc' = IF owner # "app" /\ proc = "alive" THEN "dead" ELSE proc
    /\ UNCHANGED <<kind, owner, peer, exited, ready, offers, call, serial, ids, pending, toServer, toClient,
                   reader, sampled>>

Over == phase = "equip" \/ (phase = "failed" /\ proc = "alive" /\ owner # "app")

IsAllowed(o, allowList, blockList) == (allowList = {} \/ o \in allowList) /\ o \notin blockList

NewAgentDiscovered ==
    /\ owner \in {"new", "app"} /\ Over
    /\ \E allowList, blockList \in SUBSET Offers :
          Discovered({o \in offers : IsAllowed(o, allowList, blockList)})

(* EquipMCP takes the tools only, and all of them: the name it compares    *)
(* lacks the prefix "mcp:" the tools it added before carry.                *)
EquipMCP ==
    /\ owner = "equip" /\ Over
    /\ Discovered(offers \cap {"tool"})

(* The server exits, or Close kills it: nobody wakes the callers that wait.*)
CloseTransport ==
    /\ proc \in {"alive", "jammed"} /\ proc' = "dead" /\ exited' = TRUE
    /\ toServer' = {}
    /\ UNCHANGED <<kind, owner, peer, ready, phase, offers, equipped, call, serial, ids, pending, toClient, reader,
                   sampled>>

McpNext ==
    \/ \E o \in Offers : RegisterTool(o)
    \/ StartProcess \/ OpenStream \/ StartHttp \/ ServeStdio \/ ServeDecodeError
    \/ ReadResponse \/ HandResponse \/ ReadEof \/ HandleNotification
    \/ NewAgentDiscovered \/ EquipMCP \/ CloseTransport
    \/ \E c \in Clients : \/ HttpRequest(c) \/ SseRequest(c) \/ SendRequest(c) \/ EncodeRequest(c)
                          \/ Receive(c) \/ Cancel(c)

McpSpec == McpInit /\ [][McpNext]_mcpVars

(* A call returns the answer to another one only if both read the same     *)
(* time for their id, however the callers share the pipe, answers overtake *)
(* each other, and one that was given up is answered after its caller has  *)
(* asked something else; where the clock gives every request an id of its  *)
(* own, a call gets its own answer.                                        *)
AnswerMine ==
    kind = "stdio" =>
        \A c \in Clients : call[c].ok /\ call[c].step = "idle" => ids[call[c].got] = ids[call[c].serial]

(* The readLoop that holds an answer never waits for anybody: no caller    *)
(* that has given up, asked again or not yet read blocks the answers of    *)
(* the others, also when two requests carry the same id.                   *)
ReaderFree == reader.step = "hand" => ChanRoom(reader.chan)

(* An agent that was equipped with a stdio server's tools can use them:    *)
(* until it exits or is closed, the server runs.                           *)
McpToolsUsable == phase = "up" /\ kind = "stdio" /\ ~exited => proc = "alive"
=============================================================================
