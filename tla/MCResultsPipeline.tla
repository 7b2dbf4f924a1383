------------------------- MODULE MCResultsPipeline -------------------------
(* Two attempts at one work item, which share its lane, its correction job *)
(* and the paths they change; the correction changes one more.             *)
EXTENDS ResultsPipeline

Jobs == 1..3
Items == <<"a", "a", "a">>
Depths == <<0, 0, 1>>
Lanes == <<"a", "a", "a">>
PathsOf == <<{"p"}, {"p"}, {"p", "q"}>>
=============================================================================
