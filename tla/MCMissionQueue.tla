---------------------------- MODULE MCMissionQueue ----------------------------
(* Two missions of different priority for small instances of MissionQueue. *)
EXTENDS MissionQueue, TLC

CONSTANTS j1, j2, s1, s2, w1, w2

Priorities == [j \in Jobs |-> IF j = j1 THEN 1 ELSE 2]
HostSymmetry == Permutations(Sessions) \cup Permutations(Workspaces)
=============================================================================
