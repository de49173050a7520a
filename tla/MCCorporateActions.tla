-------------------------- MODULE MCCorporateActions --------------------------
(* CorporateActions for TLC: two candidates for one reviewed event, and a      *)
(* feed that reports a split, contradicts itself and cancels.                  *)
EXTENDS CorporateActions, TLC

CONSTANTS a1, a2, i1, i2, bonus, split

Candidates ==
  {[event |-> bonus, effective |-> 1, factor |-> 1],
   [event |-> bonus, effective |-> 2, factor |-> -1]}

Row(rev, known, effective, status, factor) ==
  [event |-> split, revision |-> rev, known |-> known, effective |-> effective,
   status |-> status, factor |-> factor]

\* Revision 1, the same number with another factor, and a cancellation that
\* names a later effective time.
Feeds ==
  {Row(1, 0, 1, "confirmed", -1), Row(1, 0, 1, "confirmed", -2),
   Row(2, 1, 2, "cancelled", -1)}

Symmetry == Permutations({a1, a2}) \cup Permutations({i1, i2})
=============================================================================
