---------------------------- MODULE CreatorMode ----------------------------
(***************************************************************************)
(* The dashboard and the engine it feeds (pkg/dashboard/dashboard.go, the  *)
(* DynamicRegistry of pkg/telemetry/events.go, Crew.RunCreatorMode): users *)
(* stage, replace and delete agents and tasks while the engine polls the   *)
(* registry, takes over what is pending and runs the crew.                 *)
(*                                                                         *)
(* Abstracted: an entity is a number with a role or a description; what a  *)
(* task's run does (CrewSequential models it).                             *)
(***************************************************************************)
EXTENDS Integers, Sequences, SequencesExt

CONSTANTS
    StageRoles,     \* roles of agents
    ProcessTypes,   \* process types a user chooses
    MaxMadeAgents,  \* bound: agents created in the dashboard
    MaxMadeTasks,   \* bound: tasks created in the dashboard
    MaxRounds       \* bound: kickoffs of the engine

ASSUME CreatorAssumption == StageRoles # {}

VARIABLES
    agent,          \* agents made: sequence of roles; agent 1 is the crew's own
    task,           \* tasks made: [desc, role, agent, hoped, dropped, done]
    regAgents, regTasks, regOther,      \* DynamicRegistry.Agents, Tasks; some MCPClient or A2ABridge
    pendAgents, pendTasks, pendOther,   \* its queues
    processType,    \* the process type set in the dashboard
    crewAgents, crewTasks, process,     \* Crew.Agents, Tasks, Process
    synced,         \* Crew.staticSyncDone
    step,           \* RunCreatorMode: poll, pull, inject, run
    newTasks, newAgents,    \* of this round, not injected yet
    rounds,         \* kickoffs
    withdrawn       \* history: roles of agents deleted before the engine saw them

registryVars == <<regAgents, regTasks, regOther, pendAgents, pendTasks, pendOther, processType>>
engineVars == <<crewAgents, crewTasks, process, synced, step, newTasks, newAgents, rounds>>
creatorVars == <<agent, task, registryVars, engineVars, withdrawn>>

(* The crew starts with one agent; which role it has makes no difference.  *)
CreatorInit ==
    /\ agent = <<CHOOSE r \in StageRoles : TRUE>> /\ task = <<>>
    /\ regAgents = <<>> /\ regTasks = <<>> /\ regOther = FALSE
    /\ pendAgents = <<>> /\ pendTasks = <<>> /\ pendOther = FALSE /\ processType = ""
    /\ crewAgents = <<1>> /\ crewTasks = <<>> /\ process = "sequential" /\ synced = FALSE
    /\ step = "poll" /\ newTasks = <<>> /\ newAgents = <<>> /\ rounds = 0 /\ withdrawn = {}

(***************************************************************************)
(* The dashboard's requests.                                               *)
(***************************************************************************)
(* dashboardAuth and csrfGuard: with credentials configured a mutating     *)
(* request needs the admin token or a valid JWT, a read token is refused;  *)
(* a browser's request has to be of the same origin and JSON.              *)
DashboardAuth(configured, cred) == ~configured \/ cred \in {"admin", "jwt"}
CsrfGuard(sameOrigin, json) == sameOrigin /\ json

Admitted ==
    \E configured, sameOrigin, json \in BOOLEAN, cred \in {"", "read", "admin", "jwt"} :
        DashboardAuth(configured, cred) /\ CsrfGuard(sameOrigin, json)

(* The agents the engine has, has taken or will take.                      *)
StagedRoles == {agent[a] : a \in ToSet(pendAgents) \cup ToSet(newAgents) \cup ToSet(crewAgents)}

(* AddAgent(agent, true).                                                  *)
AddAgent(role) ==
    /\ agent' = Append(agent, role)
    /\ regAgents' = Append(regAgents, Len(agent) + 1)
    /\ pendAgents' = Append(pendAgents, Len(agent) + 1)

(* UpdateAgent replaces the entry of the list and queues the new agent;    *)
(* the one it replaces stays queued.                                       *)
UpdateAgent(i, role) ==
    /\ agent' = Append(agent, role)
    /\ regAgents' = [regAgents EXCEPT ![i] = Len(agent) + 1]
    /\ pendAgents' = Append(pendAgents, Len(agent) + 1)

HandleCreateAgent ==
    /\ Admitted /\ Len(agent) <= MaxMadeAgents
    /\ \E role \in StageRoles :
          \/ AddAgent(role)
          \/ \E i \in DOMAIN regAgents : UpdateAgent(i, role)
    /\ UNCHANGED <<task, regTasks, regOther, pendTasks, pendOther, processType, withdrawn>>
    /\ UNCHANGED engineVars

NewTask(desc, role) == [desc |-> desc, role |-> role, agent |-> 0, hoped |-> role \in StagedRoles,
                        dropped |-> FALSE, done |-> FALSE]

AddTask(desc, role) ==
    /\ task' = Append(task, NewTask(desc, role))
    /\ regTasks' = Append(regTasks, Len(task) + 1)
    /\ pendTasks' = Append(pendTasks, Len(task) + 1)

UpdateTask(i, desc, role) ==
    /\ task' = Append(task, NewTask(desc, role))
    /\ regTasks' = [regTasks EXCEPT ![i] = Len(task) + 1]
    /\ pendTasks' = Append(pendTasks, Len(task) + 1)

(* A description is an earlier task's or a new one.                        *)
HandleCreateTask ==
    /\ Admitted /\ Len(task) < MaxMadeTasks
    /\ \E desc \in 1..(Len(task) + 1), role \in StageRoles :
          \/ AddTask(desc, role)
          \/ \E i \in DOMAIN regTasks : UpdateTask(i, desc, role)
    /\ UNCHANGED <<agent, regAgents, regOther, pendAgents, pendOther, processType, withdrawn>>
    /\ UNCHANGED engineVars

(* MCP servers and A2A bridges are listed and queued; nothing takes them   *)
(* from the queue.  An update queues the new one, the old one stays.       *)
AddMCPClient == ~regOther /\ regOther' = TRUE /\ pendOther' = TRUE
UpdateMCP == regOther /\ pendOther' = TRUE /\ UNCHANGED regOther

HandleCreateMCP ==
    /\ Admitted
    /\ AddMCPClient \/ UpdateMCP
    /\ UNCHANGED <<agent, task, regAgents, regTasks, pendAgents, pendTasks, processType, withdrawn>>
    /\ UNCHANGED engineVars

SetProcessType(type) == processType' = type

HandleUpdateConfig ==
    /\ Admitted
    /\ \E type \in ProcessTypes : SetProcessType(type)
    /\ UNCHANGED <<agent, task, regAgents, regTasks, regOther, pendAgents, pendTasks, pendOther, withdrawn>>
    /\ UNCHANGED engineVars

(* DeleteAgent(index) and its siblings: out of the list, and out of the    *)
(* queue if it is still there.                                             *)
DeleteAgent(i) ==
    /\ regAgents' = RemoveAt(regAgents, i)
    /\ pendAgents' = RemoveFirst(pendAgents, regAgents[i])
    /\ withdrawn' = IF Contains(pendAgents, regAgents[i])
                    THEN withdrawn \cup {agent[regAgents[i]]} ELSE withdrawn
    /\ UNCHANGED <<task, regTasks, pendTasks>>

UnqueueNever(t) == pendTasks
Unqueue(t) == RemoveFirst(pendTasks, t)

DeleteTask(i) ==
    /\ regTasks' = RemoveAt(regTasks, i)
    /\ pendTasks' = Unqueue(regTasks[i])
    /\ task' = IF Contains(pendTasks, regTasks[i])
               THEN [task EXCEPT ![regTasks[i]].dropped = TRUE] ELSE task
    /\ UNCHANGED <<regAgents, pendAgents, withdrawn>>

(* One that an update replaced stays queued, and so does a bridge: it is a *)
(* map, and comparing it panics after it was taken off the list.           *)
DeleteMCP == regOther /\ regOther' = FALSE /\ pendOther' \in BOOLEAN

(* The index is that of the list the user saw: another entry may be there. *)
HandleDeleteEntity ==
    /\ Admitted
    /\ \/ \E i \in DOMAIN regAgents : DeleteAgent(i) /\ UNCHANGED <<regOther, pendOther>>
       \/ \E i \in DOMAIN regTasks : DeleteTask(i) /\ UNCHANGED <<regOther, pendOther>>
       \/ DeleteMCP /\ UNCHANGED <<task, regAgents, regTasks, pendAgents, pendTasks, withdrawn>>
    /\ UNCHANGED <<agent, processType>> /\ UNCHANGED engineVars

(***************************************************************************)
(* RunCreatorMode.                                                         *)
(***************************************************************************)
PullAgentsFirst(s) == IF s = "poll" THEN "agents" ELSE "tasks"
(* The tasks are taken first, the agents after them.                       *)
PullOrder(s) == IF s = "poll" THEN "tasks" ELSE "agents"

(* PullTasks and PullAgents empty a queue each, under a lock of their own. *)
Pull ==
    /\ step \in {"poll", "pull"} /\ rounds < MaxRounds
    /\ IF PullOrder(step) = "tasks"
       THEN newTasks' = pendTasks /\ pendTasks' = <<>> /\ UNCHANGED <<newAgents, pendAgents>>
       ELSE newAgents' = pendAgents /\ pendAgents' = <<>> /\ UNCHANGED <<newTasks, pendTasks>>
    /\ step' = IF step = "poll" THEN "pull"
               ELSE IF newTasks' = <<>> /\ newAgents' = <<>> THEN "poll" ELSE "inject"
    /\ UNCHANGED <<agent, task, regAgents, regTasks, regOther, pendOther, processType, crewAgents,
                   crewTasks, process, synced, rounds, withdrawn>>

RoleIndex(role) ==
    LET at == {i \in DOMAIN crewAgents : agent[crewAgents[i]] = role}
    IN  IF at = {} THEN 0 ELSE CHOOSE i \in at : \A j \in at : i <= j

(* An agent of the same role is overwritten, another one is appended.      *)
InjectAgent ==
    /\ step = "inject" /\ newAgents # <<>>
    /\ LET a == Head(newAgents)
           i == RoleIndex(agent[a])
       IN  crewAgents' = IF i = 0 THEN Append(crewAgents, a) ELSE [crewAgents EXCEPT ![i] = a]
    /\ newAgents' = Tail(newAgents)
    /\ UNCHANGED <<agent, task, registryVars, crewTasks, process, synced, step, newTasks, rounds, withdrawn>>

(* A task without an agent is bound to the one with its role, or to the    *)
(* first.                                                                  *)
BindAgent(t) ==
    LET i == RoleIndex(task[t].role)
    IN  IF task[t].agent # 0 THEN task[t].agent
        ELSE IF i # 0 THEN crewAgents[i] ELSE crewAgents[1]

IsDuplicate(t, a) ==
    \E i \in DOMAIN crewTasks :
        crewTasks[i] = t \/ (task[crewTasks[i]].desc = task[t].desc /\ task[crewTasks[i]].agent = a)

(* The tasks follow when all agents are in place.                          *)
InjectTask ==
    /\ step = "inject" /\ newAgents = <<>> /\ newTasks # <<>>
    /\ LET t == Head(newTasks)
           a == BindAgent(t)
       IN  /\ task' = [task EXCEPT ![t].agent = a]
           /\ crewTasks' = IF IsDuplicate(t, a) THEN crewTasks ELSE Append(crewTasks, t)
    /\ newTasks' = Tail(newTasks)
    /\ UNCHANGED <<agent, registryVars, crewAgents, process, synced, step, newAgents, rounds, withdrawn>>

(* All of the crew's tasks are added to the list once more, and the        *)
(* process type of the dashboard is taken over.                            *)
FullSync ==
    /\ step = "inject" /\ newAgents = <<>> /\ newTasks = <<>>
    /\ step' = "run"
    /\ regTasks' = regTasks \o crewTasks
    /\ process' = IF processType # "" THEN processType ELSE process
    /\ UNCHANGED <<agent, task, regAgents, regOther, pendAgents, pendTasks, pendOther, processType,
                   crewAgents, crewTasks, synced, newTasks, newAgents, rounds, withdrawn>>

(* The first kickoff puts the crew's own entities on the list.             *)
StaticSync ==
    /\ regAgents' = IF synced THEN regAgents ELSE regAgents \o crewAgents
    /\ regTasks' = IF synced THEN regTasks ELSE regTasks \o crewTasks
    /\ synced' = TRUE

(* The tasks that are not processed run in order up to the first that      *)
(* fails.                                                                  *)
CreatorKickoff ==
    /\ step = "run" /\ step' = "poll" /\ rounds' = rounds + 1
    /\ StaticSync
    /\ \E n \in 0..Len(crewTasks) :
          task' = [t \in DOMAIN task |->
                     [task[t] EXCEPT !.done = @ \/ \E i \in 1..n : crewTasks[i] = t]]
    /\ UNCHANGED <<agent, regOther, pendAgents, pendTasks, pendOther, processType, crewAgents,
                   crewTasks, process, newTasks, newAgents, withdrawn>>

CreatorNext ==
    \/ HandleCreateAgent \/ HandleCreateTask \/ HandleCreateMCP \/ HandleUpdateConfig
    \/ HandleDeleteEntity \/ Pull \/ InjectAgent \/ InjectTask \/ FullSync \/ CreatorKickoff

CreatorSpec == CreatorInit /\ [][CreatorNext]_creatorVars

(* A task whose agent was staged before it runs with an agent of its role, *)
(* wherever the engine's two pulls fall between the two requests: it falls *)
(* back to the first agent only if the user withdrew the agent.            *)
BoundToItsAgent ==
    \A i \in DOMAIN crewTasks :
        LET t == task[crewTasks[i]]
        IN  t.hoped /\ t.role \notin withdrawn => agent[t.agent] = t.role

(* A task that the user deletes while it waits to be taken never runs,     *)
(* whatever else was staged, replaced or synchronised in between.          *)
DeletedNotRun == \A i \in DOMAIN crewTasks : ~task[crewTasks[i]].dropped
=============================================================================
