--------------------------- MODULE MCLaneScheduler ---------------------------
(* Two runs over up to three lanes.  Texts are over one letter and the      *)
(* separator.                                                               *)
EXTENDS LaneScheduler

\* The host and another run on lanes of their own, an operator's run that uses
\* the host's lanes the other way round, or both on one lane.
ApartLanes == [r \in Run |-> IF r = "host" THEN <<"web", "core">> ELSE <<"docs">>]
CrossedLanes == [r \in Run |-> IF r = "host" THEN <<"web", "core">> ELSE <<"core", "web">>]
OneLane == [r \in Run |-> <<"web">>]

\* Both runs read one host configuration, or each its own.
SharedName == [r \in Run |-> "codex-host"]
OwnNames == [r \in Run |-> IF r = "host" THEN "codex-host" ELSE "codex-operator"]

Texts == {<<"a">>, <<"a", "a">>, <<"a", "/", "a">>}
Lit(text) == [base |-> text, kind |-> "literal"]
Tree(text) == [base |-> text, kind |-> "tree"]
Glob(text) == [base |-> text, kind |-> "glob"]

\* web and core own one pattern each, docs one more file.
Own(web, core) ==
    [l \in Lane |-> {CASE l = "web" -> web [] l = "core" -> core [] OTHER -> Lit(<<"a">>)}]
\* A directory beside a file, and once the other way round.
PlainPairs ==
    {Own(Tree(<<"a">>), Lit(u)) : u \in Texts} \cup {Own(Lit(<<"a", "/", "a">>), Tree(<<"a">>))}
\* A wildcard inside a name beside a directory.
PartialPairs == {Own(Glob(t), Tree(u)) : t, u \in Texts}
OnePair == Own(Tree(<<"a">>), Lit(<<"a", "a">>))

Given(pair, lanes, names, deaths, late) ==
    [allows |-> pair, lanes |-> lanes, owner |-> names, crashes |-> deaths, late |-> late]

\* Every pair of patterns on lanes apart, undisturbed; crossed lanes with a
\* death; a single lane, with a heartbeat that outlives its join too.
MCPlans ==
    {Given(pair, ApartLanes, SharedName, 0, FALSE) : pair \in PlainPairs}
    \cup {Given(OnePair, CrossedLanes, SharedName, 1, FALSE)}
    \cup {Given(OnePair, OneLane, names, 1, TRUE) : names \in {SharedName, OwnNames}}

\* In no run (README, section 6): two runs on one lane and nobody dies, which
\* refutes LeasedWhileExecuting; two lanes of partial names, which refute
\* OwnershipDisjoint.
SharedLanePlans == {Given(OnePair, OneLane, SharedName, 0, FALSE)}
PartialPlans == {Given(pair, ApartLanes, SharedName, 0, FALSE) : pair \in PartialPairs}

\* Every text of up to four characters that does not begin with a separator.
ShortPaths == {t \in UNION {[1..n -> {"a", "/"}] : n \in 1..4} : t[1] = "a"}
=============================================================================
