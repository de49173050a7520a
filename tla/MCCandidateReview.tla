------------------------- MODULE MCCandidateReview -------------------------
(* A small instance of CandidateReview. *)
EXTENDS CandidateReview

\* What a company may file: a bonus issue, its correction, whose numbers of shares make no
\* factor, and a report that is no candidate.
Filing(kind, name, correction, valid) ==
  [kind |-> kind, name |-> name, anchor |-> 1, correction |-> correction, valid |-> valid]

Filed ==
  {Filing("bonus_issue", "bonus", FALSE, TRUE), Filing("bonus_issue", "bonus", TRUE, FALSE),
   Filing("other", "capital increase", FALSE, FALSE)}
=============================================================================
