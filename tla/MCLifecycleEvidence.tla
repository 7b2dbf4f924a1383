------------------------ MODULE MCLifecycleEvidence ------------------------
EXTENDS LifecycleEvidence

(* The first attempt has a revision plan, the others do not.                  *)
PlanForFirst ==
    [j \in Jobs |-> IF j = 1 THEN CHOOSE c \in Corrections : TRUE ELSE j]
=============================================================================
