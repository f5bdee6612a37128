------------------------------ MODULE AppSlot ------------------------------
(***************************************************************************)
(* What the deploy engine promises about one application, whatever the     *)
(* pipelines, the queue, the cancel requests and the restarts do: an       *)
(* application has one slot, a deployment takes it when it is created,     *)
(* keeps it while it is queued or running and, once it has left, never     *)
(* takes it again.                                                         *)
(***************************************************************************)
CONSTANTS Apps,           \* applications
          Deployments,    \* identities of deployments
          AppOf,          \* the application a deployment is of
          Free            \* the holder of a free slot

VARIABLES slot,   \* the deployment that holds each application's slot
          taken   \* the deployments that ever held one

slotVars == <<slot, taken>>

SlotTypeOK == /\ slot \in [Apps -> Deployments \cup {Free}]
              /\ taken \subseteq Deployments

\* The holders at the start are the only deployments known.
SlotInit == /\ slot \in [Apps -> Deployments \cup {Free}]
            /\ \A a \in Apps : slot[a] # Free => AppOf[slot[a]] = a
            /\ taken = {slot[a] : a \in Apps} \ {Free}

\* A new deployment takes the free slot of its application.
Take(d) == /\ d \notin taken
           /\ slot[AppOf[d]] = Free
           /\ slot' = [slot EXCEPT ![AppOf[d]] = d]
           /\ taken' = taken \cup {d}

\* The holders of a set of slots leave together (a restart ends several).
Leave(S) == /\ \A a \in S : slot[a] # Free
            /\ slot' = [a \in Apps |-> IF a \in S THEN Free ELSE slot[a]]
            /\ UNCHANGED taken

SlotNext == \/ \E d \in Deployments : Take(d)
            \/ \E S \in SUBSET Apps : Leave(S)

SlotSafety == SlotInit /\ [][SlotNext]_slotVars

\* Every holder leaves in the end.
SlotSpec == /\ SlotSafety
            /\ \A a \in Apps :
                 WF_slotVars(\E S \in SUBSET Apps : a \in S /\ Leave(S))
=============================================================================
