--------------------------- MODULE MCWorkAdmission ---------------------------
(* Two objectives, two writers, nested and disjoint paths, two processes.  *)
EXTENDS WorkAdmission

src == <<"src">>
srcCore == <<"src", "core">>
docs == <<"docs">>
tests == <<"tests">>
MCPath == {src, srcCore, docs, tests}

Pull(equivalent, settled, unique, paths) ==
    [equivalent |-> equivalent, settled |-> settled, unique |-> unique,
     paths |-> paths]

AdmitOf(o, w, paths, expected, candidates) ==
    [kind |-> "admit", objective |-> o, writer |-> w, paths |-> paths,
     expected |-> expected, candidates |-> candidates, durable |-> TRUE]

ReleaseOf(o, w, terminal, expected) ==
    [kind |-> "release", objective |-> o, writer |-> w,
     terminal |-> terminal, expected |-> expected]

\* w1 builds o1 under src, w2 builds o2 under src/core or retries o1, and
\* both end their claims with the generation they were given or with none.
MCCalls ==
    {AdmitOf("o1", "w1", {src}, AnyGeneration, {}),
     AdmitOf("o1", "w1", {src}, 1, {Pull(TRUE, FALSE, TRUE, {src})}),
     AdmitOf("o2", "w2", {srcCore, docs}, AnyGeneration,
             {Pull(FALSE, FALSE, FALSE, {tests})}),
     AdmitOf("o1", "w2", {docs}, AnyGeneration, {}),
     AdmitOf("o2", "w2", {srcCore}, AnyGeneration,
             {Pull(TRUE, TRUE, FALSE, {src}), Pull(FALSE, FALSE, FALSE, {src})}),
     AdmitOf("o2", "w2", {srcCore, docs}, AnyGeneration,
             {Pull(TRUE, TRUE, FALSE, {srcCore})}),
     AdmitOf("o2", "w2", {srcCore}, AnyGeneration,
             {Pull(FALSE, TRUE, FALSE, {src})}),
     [AdmitOf("o2", "w2", {docs}, AnyGeneration, {}) EXCEPT !.durable = FALSE],
     ReleaseOf("o1", "w1", "failed", 1),
     ReleaseOf("o1", "w1", "merged", AnyGeneration),
     ReleaseOf("o1", "w2", "superseded", 2),
     ReleaseOf("o2", "w2", "merged", AnyGeneration)}
=============================================================================
