----------------------------- MODULE MCRollout -----------------------------
(***************************************************************************)
(* Instances of Rollout: production deployments d1, d2 and d3, each with a *)
(* container name of its own.                                              *)
(***************************************************************************)
EXTENDS Rollout, TLC

CONSTANTS d1, d2, d3, o1, r1, r2, p1, p2, p3, p4

OwnName  == [d \in Deployments |-> d]
PortSymmetry == Permutations(Ports)
OpSymmetry   == PortSymmetry \cup Permutations(Requests)
=============================================================================
