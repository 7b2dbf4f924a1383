---------------------------- MODULE LaneOwnership ----------------------------
(***************************************************************************)
(* lanes.py: which lanes may run side by side (lanes_conflict compares the *)
(* roots of their allowed patterns as text) and which changed paths a lane *)
(* may have (fnmatch, or a prefix test for patterns that end in a double   *)
(* star).  A text is a sequence of characters; what matters of a character *)
(* is whether it is the separator.                                         *)
(***************************************************************************)
EXTENDS Naturals, Sequences

CONSTANTS
    Char,              \* characters
    Separator          \* "/"

ASSUME LaneOwnershipAssumption == Separator \in Char

Text == Seq(Char)

\* literal: base.  tree: base/**.  glob: base*.
Pattern == [base: Text, kind: {"literal", "tree", "glob"}]

StartsWith(text, prefix) ==
    /\ Len(prefix) <= Len(text)
    /\ \A i \in 1..Len(prefix) : text[i] = prefix[i]

\* text starts with prefix and a separator.
Below(text, prefix) ==
    /\ Len(prefix) < Len(text)
    /\ StartsWith(text, prefix)
    /\ text[Len(prefix) + 1] = Separator

Stripped(text) ==
    IF text # <<>> /\ text[Len(text)] = Separator
    THEN SubSeq(text, 1, Len(text) - 1) ELSE text

\* _ownership_root: what precedes the first wildcard, less a last separator.
Root(pattern) == Stripped(pattern.base)

\* Mutant: a root overlaps itself and what is below it, not what is above.
RootsOverlapOneWay(left, right) ==
    left = <<>> \/ right = <<>> \/ left = right \/ Below(left, right)

RootsOverlap(left, right) ==
    \/ left = <<>> \/ right = <<>>
    \/ left = right
    \/ Below(left, right) \/ Below(right, left)

\* A lane is the set of its allowed patterns.
LanesConflict(left, right) ==
    \E a \in left, b \in right : RootsOverlap(Root(a), Root(b))

\* _path_matches.
PathMatches(pattern, path) ==
    CASE pattern.kind = "literal" -> path = pattern.base
      [] pattern.kind = "tree" -> path = pattern.base \/ Below(path, pattern.base)
      [] pattern.kind = "glob" -> StartsWith(path, pattern.base)

\* assert_changed_paths_allowed, for a lane that forbids nothing.
Allowed(lane, path) == \E pattern \in lane : PathMatches(pattern, path)
=============================================================================
