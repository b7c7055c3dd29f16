------------------------------- MODULE MCSwarm -------------------------------
(* Swarm with one owner; the other clients are interchangeable. *)
EXTENDS Swarm, TLC

Symmetry == Permutations(Clients \ Owners)
=============================================================================
