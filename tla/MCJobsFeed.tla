----------------------------- MODULE MCJobsFeed -----------------------------
(* Item 2 is listed, item 1 may be added before it by hand, and item 3 is the
   backlog's, once item 2 is merged.                                          *)
EXTENDS JobsFeed, TLC

MCDependsOn == 3 :> {2} @@ [i \in {} |-> {}]
=============================================================================
