------------------------------- MODULE MCCrew -------------------------------
(***************************************************************************)
(* Model checking of the crew's processes: the sequential one with its     *)
(* checkpoints, the graph, and the hierarchical, consensual, reflective    *)
(* and state-machine processes; and of the pause switch that a crew asks   *)
(* before it goes on.  A behaviour exercises one of them, so the state     *)
(* spaces add up.  No fair step is enabled in the initial state of a       *)
(* machine that does not move.                                             *)
(***************************************************************************)
EXTENDS CrewSequential, CrewGraph, CrewProcesses, ExecutionController

VARIABLES part

MCInit ==
    /\ part \in {"sequential", "graph", "processes", "pause"}
    /\ Init /\ GraphInit /\ ProcInit /\ ControllerInit
    /\ part # "graph" => deps = [t \in Tasks |-> {}]
    /\ part # "processes" =>
          /\ process = "consensual" /\ manager = "default"
          /\ \A t \in 1..NumTasks : state[t] = "pending"
    /\ part # "pause" => ~paused

MCNext ==
    /\ \/ part = "sequential" /\ Next /\ UNCHANGED <<graphVars, procVars, controllerVars>>
       \/ part = "graph" /\ GraphNext /\ UNCHANGED <<vars, procVars, controllerVars>>
       \/ part = "processes" /\ ProcNext /\ UNCHANGED <<vars, graphVars, controllerVars>>
       \/ part = "pause" /\ ControllerNext /\ UNCHANGED <<vars, graphVars, procVars>>
    /\ UNCHANGED part

MCSpec ==
    /\ MCInit /\ [][MCNext]_<<part, vars, graphVars, procVars, controllerVars>>
    /\ Fairness /\ ControllerFairness
=============================================================================
