---------------------------- MODULE FlowSequence ----------------------------
(***************************************************************************)
(* The event-driven flow of pkg/flow: the nodes of a Flow run in order;    *)
(* each may be conditional, route an event to its listeners, or run        *)
(* several nodes in parallel.  A PersistentFlow and a TypedFlow save the   *)
(* state after every node (persistence.go, typed_flow.go), so that a       *)
(* Kickoff after a failure or a crash starts from it.                      *)
(*                                                                         *)
(* The state of a flow is the set of the nodes and listeners whose output  *)
(* was merged into it.  Every Kickoff runs all nodes from the first one.   *)
(***************************************************************************)
EXTENDS Naturals, FiniteSets

CONSTANTS FlowNodes,   \* number of nodes
          Events,      \* events of the And_ condition
          MaxKickoffs  \* bound of the model

VARIABLES fkind,      \* plain, persistent or typed
          fpc, idx, fstate,
          received,   \* And_: events that have fired, never cleared
          disk, tmp,  \* the state file; the temporary file being written
          fdone,      \* nodes this Kickoff has completed
          kicks, fcancelled

flowVars == <<fkind, fpc, idx, fstate, received, disk, tmp, fdone, kicks, fcancelled>>

NoFile == [kind |-> "none"]
Torn == [kind |-> "torn"]
File(s) == [kind |-> "whole", data |-> s]

FlowInit ==
    /\ fkind \in {"plain", "persistent", "typed"}
    /\ fpc = "idle" /\ idx = 1 /\ fstate = {} /\ received = {}
    /\ disk = NoFile /\ tmp = NoFile
    /\ fdone = {} /\ kicks = 0 /\ fcancelled = FALSE

(* What stays the same in most steps. *)
Memory == <<fstate, received, fdone>>

(* LoadState: a missing file is no state; an unreadable one is an error.   *)
LoadState == IF disk.kind = "whole" THEN disk.data ELSE {}

(* The start of a Kickoff: a persistent flow merges what is saved, a typed *)
(* flow takes it as its state.  When LoadState fails the first goes on     *)
(* without, the second returns the error.                                  *)
Restore ==
    \/ fkind = "plain" /\ fpc' = "node" /\ UNCHANGED fstate
    \/ fkind = "persistent" /\ fpc' = "node" /\ fstate' \in {fstate, fstate \cup LoadState}
    \/ fkind = "typed" /\ fpc' = "error" /\ UNCHANGED fstate
    \/ fkind = "typed" /\ fpc' = "node" /\ fstate' = IF disk = NoFile THEN fstate ELSE LoadState

FlowKickoff ==
    /\ fpc \in {"idle", "ok", "error"} /\ kicks < MaxKickoffs
    /\ kicks' = kicks + 1 /\ idx' = 1 /\ fdone' = {} /\ fcancelled' = FALSE
    /\ Restore
    /\ UNCHANGED <<fkind, received, disk, tmp>>

Node(i) == [kind |-> "node", id |-> i]
Handler(e) == [kind |-> "listener", id |-> e]
AndNode == [kind |-> "and", id |-> 0]

(* And_: the handler of e; once every event has fired, each further event  *)
(* runs the node again.                                                    *)
AndFires(e) == Events \subseteq received \cup {e}

(* Emit: the listeners of e in turn; an error of one ends the emission.    *)
Emit(e) ==
    /\ received' = received \cup {e}
    /\ fstate' = fstate \cup {Node(idx), Handler(e)} \cup (IF AndFires(e) THEN {AndNode} ELSE {})

(* The context is checked before the node; its output is merged. *)
AtNode(i) == fpc = "node" /\ idx = i /\ i <= FlowNodes /\ ~fcancelled

Merged ==
    /\ fdone' = fdone \cup (fstate' \ fstate)
    /\ fpc' = "merged"
    /\ UNCHANGED <<fkind, idx, disk, tmp, kicks, fcancelled>>

RunNode(i) == AtNode(i) /\ fstate' = fstate \cup {Node(i)} /\ UNCHANGED received /\ Merged

(* A condition that is not met, or no route that matches, passes the state *)
(* on unchanged.                                                           *)
SkipNode(i) == AtNode(i) /\ UNCHANGED <<fstate, received>> /\ Merged

(* Parallel nodes work on copies of the state; when all have succeeded     *)
(* their outputs are merged in the order of the nodes.                     *)
RunParallelNodes(i) ==
    /\ AtNode(i)
    /\ \E branches \in SUBSET Events :
          fstate' = fstate \cup {Node(i)} \cup {Handler(b) : b \in branches}
    /\ UNCHANGED received /\ Merged

(* A router names an event, which is emitted. *)
RunEventRouter(i) == AtNode(i) /\ \E e \in Events : Emit(e) /\ Merged

(* A human's answer is kept and the outcome it names, or the default one   *)
(* if there is any, is emitted.                                            *)
HumanFeedback(i) ==
    /\ AtNode(i)
    /\ \/ \E e \in Events : Emit(e)
       \/ fstate' = fstate \cup {Node(i)} /\ UNCHANGED received
    /\ Merged

(* The node fails, its context is done, or the listeners of its event do.  *)
(* It may have written into the state, which is not a copy.  A persistent  *)
(* flow saves before it returns the error.                                 *)
NodeFails ==
    /\ fpc = "node" /\ idx <= FlowNodes
    /\ fpc' = IF fkind = "persistent" /\ ~fcancelled THEN "saveFailed" ELSE "error"
    /\ fstate' \in {fstate} \cup (IF fcancelled THEN {} ELSE {fstate \cup {Node(idx)}})
    /\ UNCHANGED <<fkind, idx, received, fdone, disk, tmp, kicks, fcancelled>>

(* Mutant: the state file itself is opened for writing. *)
BeginWriteInPlace == disk' = Torn /\ tmp' = Torn

(* os.CreateTemp next to the state file. *)
BeginWrite == tmp' = Torn /\ UNCHANGED disk

(* SaveState: atomicWriteFile creates, writes and renames a temporary      *)
(* file; a failure removes it.  A done context saves nothing.              *)
SaveState ==
    /\ fkind # "plain" /\ fpc \in {"merged", "saveFailed"}
    /\ \/ ~fcancelled /\ BeginWrite /\ fpc' = (IF fpc = "merged" THEN "write" ELSE "writeFailed")
       \/ fpc' = "error" /\ UNCHANGED <<disk, tmp>>
    /\ UNCHANGED <<fkind, idx, Memory, kicks, fcancelled>>

Rename ==
    /\ fpc \in {"write", "writeFailed"}
    /\ \/ /\ disk' = File(fstate) /\ tmp' = NoFile
          /\ IF fpc = "write" THEN fpc' = "node" /\ idx' = idx + 1
                              ELSE fpc' = "error" /\ UNCHANGED idx
       \/ tmp' = NoFile /\ fpc' = "error" /\ UNCHANGED <<disk, idx>>
    /\ UNCHANGED <<fkind, Memory, kicks, fcancelled>>

(* A plain flow goes on without saving. *)
NextNode ==
    /\ fkind = "plain" /\ fpc = "merged"
    /\ fpc' = "node" /\ idx' = idx + 1
    /\ UNCHANGED <<fkind, Memory, disk, tmp, kicks, fcancelled>>

(* The end: a persistent flow deletes its file, a typed flow keeps it. *)
FlowComplete ==
    /\ fpc = "node" /\ idx > FlowNodes
    /\ fpc' = "ok"
    /\ disk' \in (IF fkind = "persistent" THEN {NoFile, disk} ELSE {disk})
    /\ UNCHANGED <<fkind, idx, Memory, tmp, kicks, fcancelled>>

FlowCancel ==
    /\ fpc \notin {"idle", "ok", "error"} /\ ~fcancelled /\ fcancelled' = TRUE
    /\ UNCHANGED <<fkind, fpc, idx, Memory, disk, tmp, kicks>>

(* The process dies and starts again: only the files are left. *)
FlowCrash ==
    /\ fpc # "idle"
    /\ fpc' = "idle" /\ idx' = 1 /\ fstate' = {} /\ received' = {} /\ fdone' = {} /\ tmp' = NoFile
    /\ UNCHANGED <<fkind, disk, kicks, fcancelled>>

FlowNext ==
    \/ \E i \in 1..FlowNodes : \/ RunNode(i) \/ SkipNode(i) \/ RunParallelNodes(i)
                            \/ RunEventRouter(i) \/ HumanFeedback(i)
    \/ FlowKickoff \/ NodeFails \/ SaveState \/ Rename
    \/ NextNode \/ FlowComplete \/ FlowCancel \/ FlowCrash

FlowSpec == FlowInit /\ [][FlowNext]_flowVars

-----------------------------------------------------------------------------
(* A flow that saves its state goes on to the next node only when the      *)
(* output of every node it has completed is on disk, and no crash leaves a *)
(* file that cannot be read (persistence.go:54-73, 320-323;                *)
(* typed_flow.go:89-94).                                                   *)
ProgressDurable ==
    /\ disk.kind # "torn"
    /\ fkind # "plain" /\ fpc = "node" /\ fdone # {} =>
           disk.kind = "whole" /\ fdone \subseteq disk.data
=============================================================================
