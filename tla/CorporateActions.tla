--------------------------- MODULE CorporateActions ---------------------------
(***************************************************************************)
(* The revisions of corporate actions of one symbol: administrators who     *)
(* approve reviewed candidates (services/corporate_actions.py approve,      *)
(* repositories/corporate_action_approval.py) beside the ingestion of       *)
(* batches from a verified source (repositories/corporate_action.py), and   *)
(* the views computed from the rows they commit (Adjustment).               *)
(*                                                                         *)
(* A transaction of PostgreSQL reads what is committed; its own rows become *)
(* visible to others at once, when it commits.                              *)
(***************************************************************************)
EXTENDS Adjustment

CONSTANTS
  Approvers,   \* administrators' approval requests
  Importers,   \* administrators' ingestion requests
  Evidence,    \* reviewed candidates: [event, effective, factor]
  Feed,        \* revisions the verified source may report
  MaxBatch,    \* bound: records of a batch
  Nobody       \* the stock-master row is not locked

Reviewed == {e.event : e \in Evidence}

ASSUME EvidenceAssumption ==
  Evidence \subseteq [event : Events, effective : Times, factor : Int]
ASSUME FeedAssumption ==
  Feed \subseteq Revision /\ \A r \in Feed : r.event \notin Reviewed
ASSUME RequestAssumption ==
  Nobody \notin Approvers /\ Approvers \cap Importers = {}

VARIABLES
  clock,      \* the servers' clock
  rows,       \* corporate_actions, as committed
  approvals,  \* corporate_action_approvals: the row of each evidence
  lock,       \* the approval that has locked the stock-master row
  pc,         \* where each request is
  review,     \* evidence and time of each approval
  next,       \* the revision an approval has chosen, 0 for none
  batch,      \* the batch of each ingestion
  fresh       \* the records of a batch that were not there when it looked

vars == <<clock, rows, approvals, lock, pc, review, next, batch, fresh>>
dbVars == <<rows, approvals>>
approvalVars == <<lock, review, next>>
importVars == <<batch, fresh>>

Requests == Approvers \cup Importers
Approval == [evidence : Evidence, row : Revision]
NoReview == <<>>
Review == [evidence : Evidence, time : Times]
Steps == {"idle", "reviewed", "inserting", "saving", "failed"}

TypeOK ==
  /\ clock \in Times
  /\ rows \subseteq Revision
  /\ approvals \subseteq Approval
  /\ lock \in Approvers \cup {Nobody}
  /\ pc \in [Requests -> Steps]
  /\ review \in [Approvers -> Review \cup {NoReview}]
  /\ next \in [Approvers -> Nat]
  /\ batch \in [Importers -> SUBSET Feed]
  /\ fresh \in [Importers -> SUBSET Feed]
  /\ \A a \in Approvers : pc[a] = "inserting" <=> lock = a

Init ==
  /\ clock = 0
  /\ rows = {}
  /\ approvals = {}
  /\ lock = Nobody
  /\ pc = [x \in Requests |-> "idle"]
  /\ review = [a \in Approvers |-> NoReview]
  /\ next = [a \in Approvers |-> 0]
  /\ batch = [i \in Importers |-> {}]
  /\ fresh = [i \in Importers |-> {}]

Go(x, step) == pc' = [pc EXCEPT ![x] = step]

\* A request is answered: with success, and its requester may send another, or
\* with a conflict or an error.
Approved(a, step) ==
  /\ Go(a, step)
  /\ lock' = IF lock = a THEN Nobody ELSE lock
  /\ review' = [review EXCEPT ![a] = NoReview]
  /\ next' = [next EXCEPT ![a] = 0]
Imported(i, step) ==
  /\ Go(i, step)
  /\ batch' = [batch EXCEPT ![i] = {}]
  /\ fresh' = [fresh EXCEPT ![i] = {}]

Tick ==
  /\ clock < MaxTime
  /\ clock' = clock + 1
  /\ UNCHANGED pc /\ UNCHANGED dbVars /\ UNCHANGED approvalVars /\ UNCHANGED importVars

------------------------------------------------------------------------------
(***************************************************************************)
(* Approval.                                                               *)
(***************************************************************************)

\* The service re-fetches the candidate and reads its clock: that is known_at.
StartReview(a, e) ==
  /\ pc[a] = "idle"
  /\ review' = [review EXCEPT ![a] = [evidence |-> e, time |-> clock]]
  /\ Go(a, "reviewed")
  /\ UNCHANGED <<clock, lock, next>> /\ UNCHANGED dbVars /\ UNCHANGED importVars

RevisionsOf(event) == {r.revision : r \in {q \in rows : q.event = event}}
NextRevision(a) == 1 + Max({0} \cup RevisionsOf(review[a].evidence.event))
OnRecord(a) == \E p \in approvals : p.evidence = review[a].evidence

\* Mutant: the stock-master row is read without FOR UPDATE.
ChooseRevisionUnlocked(a) ==
  /\ pc[a] = "reviewed"
  /\ IF OnRecord(a)
       THEN Approved(a, "idle")
       ELSE /\ Go(a, "inserting")
            /\ lock' = a
            /\ next' = [next EXCEPT ![a] = NextRevision(a)]
            /\ UNCHANGED review
  /\ UNCHANGED clock /\ UNCHANGED dbVars /\ UNCHANGED importVars

\* Mutant: evidence on record is not looked for.
ChooseRevisionBlindly(a) ==
  /\ pc[a] = "reviewed"
  /\ lock = Nobody
  /\ Go(a, "inserting")
  /\ lock' = a
  /\ next' = [next EXCEPT ![a] = NextRevision(a)]
  /\ UNCHANGED review
  /\ UNCHANGED clock /\ UNCHANGED dbVars /\ UNCHANGED importVars

\* The stock-master row is locked, SELECT ... FOR UPDATE.  If the evidence is on
\* record its row is the answer; otherwise the revision after the highest is
\* chosen.
ChooseRevision(a) ==
  /\ pc[a] = "reviewed"
  /\ lock = Nobody
  /\ IF OnRecord(a)
       THEN Approved(a, "idle")
       ELSE /\ Go(a, "inserting")
            /\ lock' = a
            /\ next' = [next EXCEPT ![a] = NextRevision(a)]
            /\ UNCHANGED review
  /\ UNCHANGED clock /\ UNCHANGED dbVars /\ UNCHANGED importVars

\* Mutant: a reviewed revision is known from its effective time on.
EffectiveRow(a) ==
  LET e == review[a].evidence
  IN [event |-> e.event, revision |-> next[a], known |-> e.effective,
      effective |-> e.effective, status |-> "confirmed", factor |-> e.factor]

\* The revision as the service reviewed it: known since it read its clock, however long
\* the approval has waited for the lock.
ReviewedRow(a) ==
  LET e == review[a].evidence
  IN [event |-> e.event, revision |-> next[a], known |-> review[a].time,
      effective |-> e.effective, status |-> "confirmed", factor |-> e.factor]

\* Action and evidence are inserted and committed; the unique constraints on
\* the revision and on the evidence refuse what is there already.
CommitApproval(a) ==
  /\ pc[a] = "inserting"
  /\ IF OnRecord(a) \/ (\E r \in rows : SameKey(r, ReviewedRow(a)))
       THEN Approved(a, "failed") /\ UNCHANGED dbVars
       ELSE /\ rows' = rows \cup {ReviewedRow(a)}
            /\ approvals' = approvals \cup
                 {[evidence |-> review[a].evidence, row |-> ReviewedRow(a)]}
            /\ Approved(a, "idle")
  /\ UNCHANGED clock /\ UNCHANGED importVars

\* The symbol is not in the stock master, or the connection is lost: nothing is
\* written, and the administrator starts again.
AbandonApproval(a) ==
  /\ pc[a] \in {"reviewed", "inserting"}
  /\ Approved(a, "idle")
  /\ UNCHANGED clock /\ UNCHANGED dbVars /\ UNCHANGED importVars

------------------------------------------------------------------------------
(***************************************************************************)
(* Ingestion.                                                              *)
(***************************************************************************)

\* What an administrator asks the source for.
Wanted == [start : Times, end : Times, limit : 1..MaxBatch]

\* The service takes an answer of no more records than asked for, which take effect in the
\* range asked for and were known when it was fetched.
Admits(q, b) ==
  /\ q.start <= q.end /\ Cardinality(b) <= q.limit
  /\ \A r \in b : q.start <= r.effective /\ r.effective <= q.end /\ r.known <= clock

\* The look-ups of save_batch: the batch contradicts itself or a stored revision.
Contradicts(b) == \E r \in b : \E q \in b \cup rows : SameKey(r, q) /\ r # q

\* What comes of the answer b, whatever was asked for.
Outcomes(b) ==
  {IF Admits(q, b) /\ ~Contradicts(b) THEN "saving" ELSE "failed" : q \in Wanted}

\* The provider's answer b; of what is taken, what is stored with the same values is left out.
Ingest(i, b) ==
  /\ pc[i] = "idle"
  /\ \E outcome \in Outcomes(b) :
       IF outcome = "saving"
         THEN /\ Go(i, "saving")
              /\ batch' = [batch EXCEPT ![i] = b]
              /\ fresh' = [fresh EXCEPT ![i] = b \ rows]
         ELSE Imported(i, "failed")
  /\ UNCHANGED clock /\ UNCHANGED dbVars /\ UNCHANGED approvalVars

\* Mutant: each record is committed by itself.
SaveSome(i) ==
  /\ pc[i] = "saving"
  /\ rows' = rows \cup {r \in fresh[i] : \A q \in rows : ~SameKey(r, q)}
  /\ Imported(i, "idle")
  /\ UNCHANGED <<clock, approvals>> /\ UNCHANGED approvalVars

\* The new records are inserted and committed together, unless another
\* ingestion has meanwhile stored one of their keys: then none is.
SaveBatch(i) ==
  /\ pc[i] = "saving"
  /\ IF \E r \in fresh[i] : \E q \in rows : SameKey(r, q)
       THEN Imported(i, "failed") /\ UNCHANGED rows
       ELSE Imported(i, "idle") /\ rows' = rows \cup fresh[i]
  /\ UNCHANGED <<clock, approvals>> /\ UNCHANGED approvalVars

\* The connection is lost before the commit.
AbandonImport(i) ==
  /\ pc[i] = "saving"
  /\ Imported(i, "failed")
  /\ UNCHANGED clock /\ UNCHANGED dbVars /\ UNCHANGED approvalVars

\* After an error the requester may try again.
TryAgain(x) ==
  /\ pc[x] = "failed"
  /\ Go(x, "idle")
  /\ UNCHANGED clock /\ UNCHANGED dbVars /\ UNCHANGED approvalVars /\ UNCHANGED importVars

Batches == {b \in SUBSET Feed : b # {} /\ IsFiniteSet(b) /\ Cardinality(b) <= MaxBatch}

Next ==
  \/ Tick
  \/ \E a \in Approvers :
       \/ \E e \in Evidence : StartReview(a, e)
       \/ ChooseRevision(a) \/ CommitApproval(a) \/ AbandonApproval(a)
  \/ \E i \in Importers :
       \/ \E b \in Batches : Ingest(i, b)
       \/ SaveBatch(i) \/ AbandonImport(i)
  \/ \E x \in Requests : TryAgain(x)

Spec == Init /\ [][Next]_vars

------------------------------------------------------------------------------
(***************************************************************************)
(* Properties.                                                             *)
(***************************************************************************)

\* Concurrent approvals of one symbol never choose the same revision, and a
\* replay of recorded evidence is answered and not refused: no approval runs
\* into a unique constraint (corporate_action_approval.py approve).
ApprovalsNeverCollide == \A a \in Approvers : pc[a] # "failed"

\* The revisions of a reviewed event are numbered 1, 2, ... without a gap, and
\* every one of them has exactly one piece of evidence on record, committed
\* with it.
RevisionsAreEvidenced ==
  /\ \A event \in Reviewed : \A n \in RevisionsOf(event) : 1..n \subseteq RevisionsOf(event)
  /\ \A r \in rows : r.event \in Reviewed =>
       \E p \in approvals : {q \in approvals : q.row = r} = {p}

\* Requests take effect one at a time: an approval under way, whatever it has read and
\* chosen, is recorded once and as the next revision of what is committed in that moment,
\* with its evidence; an ingestion that reports success stores its whole batch, one that
\* does not nothing; and no revision number ever has a second content.
StatusOf(step) == IF step \in {"idle", "failed"} THEN step ELSE "busy"
UnderReview(a) == IF StatusOf(pc[a]) = "busy" THEN {review[a].evidence} ELSE {}
Ledger == INSTANCE RevisionLedger WITH
            Instants <- Times,
            status <- [x \in Requests |-> StatusOf(pc[x])],
            asked <- [a \in Approvers |-> UnderReview(a)]
KeepsALedger == Ledger!LedgerSpec

\* A revision number has one content for ever: what is committed stays as it is,
\* whatever approvals and ingestions follow (save_batch, _same_revision).
RevisionsAreImmutable ==
  [][rows' # rows =>
       /\ rows \subseteq rows'
       /\ \A r, q \in rows' : SameKey(r, q) => r = q]_vars

\* An ingestion that reports success has stored its whole batch; one that does
\* not has stored nothing of it (save_batch).
BatchesAreAtomic ==
  [][\A i \in Importers : pc[i] = "saving" /\ pc'[i] # "saving" =>
       IF pc'[i] = "idle" THEN batch[i] \subseteq rows' ELSE rows' = rows]_vars

\* What is committed changes no view of a time before it was known, whatever its
\* effective time and revision (engine.py adjust; "A cancellation or correction
\* therefore changes results only after that revision became known").
NoLookAhead ==
  [][rows' # rows => \A T \in Times : (\A r \in rows' \ rows : r.known > T) =>
       /\ Listed(rows', T) = Listed(rows, T)
       /\ Selected(rows', T) = Selected(rows, T)
       /\ Accepts(rows', T) = Accepts(rows, T)
       /\ Applied(rows', T) = Applied(rows, T)]_vars

\* What review had told by a time, among the rows: the knowledge a view of T is made of.
ReviewedBy(S, T) == {r \in S : r.event \in Reviewed /\ r.known <= T}
\* The time is past, and no approval under way has read the clock at it or before.
Settled(T) ==
  /\ T < clock
  /\ \A a \in Approvers : pc[a] \in {"reviewed", "inserting"} => review[a].time > T

\* What review had told by a time becomes final as soon as the time is past and the
\* approvals that had read their clocks by then are answered: no later approval, retry
\* or feed adds to it or takes from it (services/corporate_actions.py approve).
PastIsFinal ==
  [][\A T \in Times : Settled(T) =>
       Settled(T)' /\ ReviewedBy(rows', T) = ReviewedBy(rows, T)]_vars

\* A backtest of candles up to T sees in each of them what a backtest that ended
\* with that candle would have seen: nothing learnt later reaches back
\* (look_ahead_safe of the backtest view).
BacktestsAreCausal ==
  \A T \in Times : Accepts(rows, T) =>
    \A c \in 0..T : Accepts(rows, c) /\ AdjustForward(rows, T, c) = AdjustForward(rows, c, c)

\* Where the backtest view is accepted it tells the same story as the view for
\* charts: the two differ by one constant factor over all candles.
ViewsAgree ==
  \A T \in Times : Accepts(rows, T) =>
    \A c \in Times : AdjustedView(rows, T)[c] - BacktestView(rows, T)[c]
                     = AdjustedView(rows, T)[0] - BacktestView(rows, T)[0]

\* "Backtest adjustment rejects corrected or cancelled event histories"
\* (engine.py:155; docs/architecture/corporate-action-adjustments.md: "corrected
\* event histories fail closed"): an accepted view knows one revision per event.
CorrectionsFailClosed ==
  \A T \in Times : Accepts(rows, T) =>
    \A r, q \in Known(rows, T) : r.event = q.event => r = q
=============================================================================
