---------------------------- MODULE MCRelayRoom ----------------------------
(* RelayRoom on two clients; clients are interchangeable. *)
EXTENDS RelayRoom, TLC

CONSTANTS c1, c2

Clients == {c1, c2}
Symmetry == Permutations(Clients)
=============================================================================
