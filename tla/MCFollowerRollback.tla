------------------------ MODULE MCFollowerRollback ------------------------
(* Model-checking instance of FollowerRollback: two Mail targets, one      *)
(* Thread target, two document ids.                                       *)
EXTENDS FollowerRollback, TLC

CONSTANTS a1, a2, th, d1, d2

MCTargets == {a1, a2, th}
MCThreadTargets == {th}
MCDocIds == {d1, d2}

\* Documents are interchangeable, and so are the two Mail targets.
MCSymmetry == Permutations(MCDocIds) \cup Permutations({a1, a2})
=============================================================================
