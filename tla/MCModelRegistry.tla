--------------------------- MODULE MCModelRegistry ---------------------------
(* ModelRegistry for TLC: two versions of one scope, and for promotions one  *)
(* of another scope, which promotions of the first must leave alone.         *)
EXTENDS ModelRegistry, TLC

CONSTANTS v1, v2, v3, s1, s2

MCVersions == {v1, v2, v3}
MCScopeOf == v1 :> s1 @@ v2 :> s1 @@ v3 :> s2
OneScopeOf == v1 :> s1 @@ v2 :> s1

\* Threads of a kind are interchangeable, and so are the versions of one scope.
Symmetry ==
  Permutations(Promoters) \cup Permutations(Trainers) \cup Permutations({v1, v2})
=============================================================================
