--------------------------- MODULE MCActionReview ---------------------------
(* The review of candidates and the revisions it leads to, for TLC. The      *)
(* candidate that is approved is the input of CorporateActions: a behaviour  *)
(* is one of the revisions while the pages rest, or one of the pages, which  *)
(* may rest for ever once everything is filed and approved.                  *)
EXTENDS MCCorporateActions, MCCandidateReview

VARIABLE focus

ActionInit == Init /\ ReviewInit /\ focus \in {"revisions", "review"}

ActionNext ==
  /\ UNCHANGED focus
  /\ \/ focus = "revisions" /\ Next /\ UNCHANGED reviewVars
     \/ focus = "review" /\ (ReviewNext \/ UNCHANGED reviewVars) /\ UNCHANGED vars

ActionSpec == ActionInit /\ [][ActionNext]_<<vars, reviewVars, focus>>
=============================================================================
