--------------------------- MODULE CheckpointStore ---------------------------
(***************************************************************************)
(* What a user of pkg/crew's CheckpointStore interface may count on: for   *)
(* each crew there is a latest checkpoint, which only moves forward, and a *)
(* Save returns without an error only after it became the latest one.  A   *)
(* crash or an expiry may lose the latest checkpoint; neither ever brings  *)
(* an old one back.                                                        *)
(***************************************************************************)
EXTENDS Naturals

CONSTANTS Crews,
          Versions  \* checkpoints, numbered in the order they were saved

VARIABLES latest,  \* crew -> the version LoadLatest returns, 0: none or unreadable
          newest,  \* crew -> the newest version that has ever been the latest
          acked    \* crew -> the newest version whose Save returned nil

vars == <<latest, newest, acked>>

Init == latest = [c \in Crews |-> 0] /\ newest = latest /\ acked = latest

Publish(c) ==
    /\ \E v \in Versions : v > newest[c] /\ latest' = [latest EXCEPT ![c] = v]
    /\ newest' = [newest EXCEPT ![c] = latest'[c]]
    /\ UNCHANGED acked

Ack(c) ==
    /\ acked' = [acked EXCEPT ![c] = newest[c]]
    /\ UNCHANGED <<latest, newest>>

Lose(c) == latest' = [latest EXCEPT ![c] = 0] /\ UNCHANGED <<newest, acked>>

Next == \E c \in Crews : Publish(c) \/ Ack(c) \/ Lose(c)

Spec == Init /\ [][Next]_vars
=============================================================================
