------------------------------- MODULE MCTasks -------------------------------
(***************************************************************************)
(* Model checking of a task with its agent, and of what survives a crash:  *)
(* the checkpoint stores, the flow with a state file and the flow graph    *)
(* with its checkpoints.  They share nothing, so a behaviour exercises one *)
(* of them and the state spaces add up.                                    *)
(***************************************************************************)
EXTENDS AgentTask, CheckpointStores, FlowSequence, FlowGraph

CONSTANTS x, xy

VARIABLES part

MCShadows == [c \in Crews |-> IF c = x THEN {xy} ELSE {}]

(* A router leads to one of two parallel nodes with the branches b and d:  *)
(* behind fork they are merged by a reduce node, behind race the first to  *)
(* return goes on; a map node is the last.  A route may also lead back,    *)
(* end the flow, or name no node.                                          *)
MCKind == [router |-> "router", race |-> "parallel", fork |-> "parallel", b |-> "step", d |-> "step",
           reduce |-> "reduce", map |-> "map"]
MCNextOf == [router |-> "fork", race |-> "map", fork |-> "reduce", b |-> "", d |-> "",
             reduce |-> "map", map |-> ""]
MCBranches == [n \in GNodes |-> IF n \in {"fork", "race"} THEN {"b", "d"} ELSE {}]

(* What an answer by schema and an agent without a model never look at has *)
(* one value.  A human at the task, self-critique and self-healing are not *)
(* combined with each other; critique is with the review manager, healing  *)
(* with the callback.                                                      *)
MCConfigs ==
    {c \in Configs :
        /\ c.schema \/ ~c.llm \/ c.human => c.review = "no" /\ ~c.healing /\ ~c.critique
        /\ c.critique => c.review # "callback"
        /\ c.healing => c.review = "callback"}

MCInit ==
    /\ part \in {"agent", "stores", "flow", "graph"}
    /\ AgentInit /\ Init /\ FlowInit /\ GraphInit
    /\ cfg \in MCConfigs
    /\ part # "agent" => cfg = CHOOSE c \in MCConfigs : ~c.critique
    /\ part # "stores" => backend = "file"
    /\ part # "flow" => fkind = "plain"

MCNext ==
    /\ \/ part = "agent" /\ AgentNext /\ UNCHANGED <<vars, flowVars, graphVars>>
       \/ part = "stores" /\ Next /\ UNCHANGED <<agentTaskVars, flowVars, graphVars>>
       \/ part = "flow" /\ FlowNext /\ UNCHANGED <<agentTaskVars, vars, graphVars>>
       \/ part = "graph" /\ GraphNext /\ UNCHANGED <<agentTaskVars, vars, flowVars>>
    /\ UNCHANGED part

(* The task can start in every initial state, and need not where it is not *)
(* its part that moves.                                                    *)
MCSpec ==
    /\ MCInit /\ [][MCNext]_<<part, agentTaskVars, vars, flowVars, graphVars>>
    /\ WF_agentTaskVars(part = "agent" /\ GoesOn) /\ GraphFairness
=============================================================================
