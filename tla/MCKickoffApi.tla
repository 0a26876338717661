---------------------------- MODULE MCKickoffApi ----------------------------
(* The kickoff endpoint on a small instance.  Requests, keys, sessions and *)
(* owners are only compared for equality, so they are symmetric; no        *)
(* temporal property is checked.                                           *)
EXTENDS KickoffApi, TLC

Symmetry == Permutations(Requests) \cup Permutations(Keys)
                \cup Permutations(Sessions) \cup Permutations(Owners)
=============================================================================
