-------------------------- MODULE MCCollaboration ---------------------------
(* Collaboration with two people. *)
EXTENDS Collaboration
=============================================================================
