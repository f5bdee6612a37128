--------------------------- MODULE MCDeployEngine ---------------------------
(***************************************************************************)
(* Instances of DeployEngine: applications a and b, deployments d1 and d2  *)
(* of a, or one of each.                                                   *)
(***************************************************************************)
EXTENDS DeployEngine, TLC

CONSTANTS a, b, d1, d2

Symmetry  == Permutations({d1, d2})

OneApp    == {a}
TwoApps   == {a, b}
TwoOfOne  == [d \in {d1, d2} |-> a]
OneOfEach == [d \in {d1, d2} |-> IF d = d1 THEN a ELSE b]
=============================================================================
