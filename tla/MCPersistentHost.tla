--------------------------- MODULE MCPersistentHost ---------------------------
(* Two jobs, and four kinds of history: two crashes, one fault of every kind,
   an operator and no faults, the installer and a crash.                      *)
EXTENDS PersistentHost

Quiet == [event \in Events |-> 0]

MCBounds ==
    {[Quiet EXCEPT !["crashes"] = 2, !["rewrites"] = 1],
     [Quiet EXCEPT !["crashes"] = 1, !["syncs"] = 1, !["io"] = 1, !["rewrites"] = 1],
     [Quiet EXCEPT !["approve"] = 1, !["enqueue"] = 1, !["rewrites"] = 1],
     [Quiet EXCEPT !["crashes"] = 1, !["init"] = 1]}
=============================================================================
