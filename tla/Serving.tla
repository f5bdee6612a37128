------------------------------ MODULE Serving ------------------------------
(***************************************************************************)
(* What a rollout promises about the production domain of one application: *)
(* once a deployment serves it, it is served without a gap, each           *)
(* deployment takes over at most once, and one that was replaced never     *)
(* comes back.  The promise ends for a deployment whose container nobody   *)
(* undertook to keep.                                                      *)
(***************************************************************************)
CONSTANTS Deployments, Nobody

VARIABLES serving,   \* the deployment whose container answers for the domain
          replaced,  \* the deployments that served it before
          unkept     \* those whose container nobody undertook to keep

servingVars == <<serving, replaced, unkept>>

ServingInit == serving = Nobody /\ replaced = {} /\ unkept = {}

TakeOver(d) == /\ d \notin replaced \cup {serving}
               /\ serving' = d
               /\ replaced' = replaced \cup ({serving} \ {Nobody})
               /\ UNCHANGED unkept

\* Only the one that has just taken over can be given up,
GiveUp == /\ serving # Nobody
          /\ unkept' = unkept \cup {serving}
          /\ UNCHANGED <<serving, replaced>>

\* and only what was given up goes without a successor.
Vanish == /\ serving \in unkept
          /\ serving' = Nobody
          /\ replaced' = replaced \cup {serving}
          /\ UNCHANGED unkept

ServingNext == (\E d \in Deployments : TakeOver(d)) \/ GiveUp \/ Vanish

ServingSpec == ServingInit /\ [][ServingNext]_servingVars
=============================================================================
