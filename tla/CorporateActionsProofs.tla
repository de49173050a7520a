------------------------ MODULE CorporateActionsProofs ------------------------
(***************************************************************************)
(* Proofs about CorporateActions and its views, for every set of events,    *)
(* evidence, feed records and requests, and about CandidateReview, for      *)
(* every set of reports and administrators.                                 *)
(***************************************************************************)
EXTENDS CorporateActions, CandidateReview, DataLemmas, FiniteSetTheorems, TLAPS

Constants == TimeAssumption /\ EvidenceAssumption /\ FeedAssumption /\ RequestAssumption

LEMMA ConstantsHold == Constants
  BY TimeAssumption, EvidenceAssumption, FeedAssumption, RequestAssumption DEF Constants

(***************************************************************************)
(* The views, of any set of revisions.                                     *)
(***************************************************************************)

\* Revisions that become known after T leave every view at T as it was.
LEMMA FutureIsInvisible ==
  ASSUME NEW old, NEW new \in SUBSET Revision, old \subseteq new, NEW T \in Times,
         \A r \in new \ old : r.known > T
  PROVE  /\ Listed(new, T) = Listed(old, T)
         /\ Current(new, T) = Current(old, T)
         /\ Selected(new, T) = Selected(old, T)
         /\ Accepts(new, T) = Accepts(old, T)
         /\ Applied(new, T) = Applied(old, T)
<1>1. \A r \in new : r.known \in Int
  BY DEF Revision, Times
<1>2. T \in Int
  BY DEF Times
<1>3. \A r \in new : r.known <= T => r \in old
  BY <1>1, <1>2
<1>4. Current(new, T) = Current(old, T)
  BY <1>3 DEF Current, Known
<1>5. Listed(new, T) = Listed(old, T)
  BY <1>3 DEF Listed
<1> QED
  BY <1>4, <1>5 DEF Selected, Accepts, Applied

\* An accepted backtest view at T, cut off at c, is the accepted view at c.
LEMMA ViewIsCausal ==
  ASSUME NEW S \in SUBSET Revision, NEW T \in Times, NEW c \in 0..T, Accepts(S, T)
  PROVE  Accepts(S, c) /\ AdjustForward(S, T, c) = AdjustForward(S, c, c)
<1>1. \A r \in S : r.known \in Int /\ r.effective \in Int
  BY DEF Revision, Times
<1>2. T \in Int /\ c \in Int /\ c <= T
  BY DEF Times
<1>3. Current(S, c) \subseteq Current(S, T)
  BY <1>1, <1>2 DEF Current, Known
<1>4. Accepts(S, c)
  BY <1>3 DEF Accepts
<1>5. \A r \in Current(S, T) : c >= r.effective => r \in Current(S, c)
  BY <1>1, <1>2 DEF Accepts, Current, Known
<1>6. {r \in Applied(S, T) : c >= r.effective} = {r \in Applied(S, c) : c >= r.effective}
  BY <1>3, <1>5 DEF Applied
<1> QED
  BY <1>4, <1>6 DEF AdjustForward

\* The exponent a view is made of is the sum of the factors of its revisions.
Factors(S) == [r \in S |-> r.factor]
Factored(S) == IsFiniteSet(S) /\ \A r \in S : r.factor \in Int

LEMMA TotalIsSum ==
  ASSUME NEW S, IsFiniteSet(S)
  PROVE  Total(S) = SumOver(Factors(S), S)
<1> DEFINE Folds(g) == g = [s \in SUBSET S |-> IF s = {} THEN 0 ELSE g[s \ {Pick(s)}] + Pick(s).factor]
           f == CHOOSE g : Folds(g)
<1>1. Total(S) = f[S]
  BY DEF Total, FoldSet, MapThenFoldSet, Pick
<1>2. \A g : Folds(g) <=> Unfolds(Factors(S), g, S)
  <2>1. \A s \in SUBSET S : s # {} => Factors(S)[Pick(s)] = Pick(s).factor
    BY PickIsElement DEF Factors
  <2> QED
    BY <2>1 DEF Unfolds
<1>3. Unfolds(Factors(S), f, S)
  <2>1. Folds(Unfolding(Factors(S), S))
    BY <1>2, UnfoldingExists
  <2> HIDE DEF Folds
  <2>2. Folds(f)
    BY <2>1
  <2> QED
    BY <1>2, <2>2
<1> HIDE DEF f
<1> QED
  BY <1>1, <1>3, UnfoldsToSum

LEMMA TotalIsInt ==
  ASSUME NEW S, Factored(S)
  PROVE  Total(S) \in Int
  BY TotalIsSum, SumIsInt DEF Factored, Factors, Weighs

\* Its order does not matter: the revisions can be taken in two parts.
LEMMA TotalOfParts ==
  ASSUME NEW S, Factored(S), NEW A \in SUBSET S
  PROVE  Total(S) = Total(A) + Total(S \ A)
<1>1. IsFiniteSet(S) /\ IsFiniteSet(A) /\ IsFiniteSet(S \ A)
  BY FS_Subset DEF Factored
<1>2. SumOver(Factors(S), S) = SumOver(Factors(S), A) + SumOver(Factors(S), S \ A)
  BY SumOfParts DEF Factored, Factors, Weighs
<1>3. SumOver(Factors(A), A) = SumOver(Factors(S), A)
  BY <1>1, SameWeights DEF Factors
<1>4. SumOver(Factors(S \ A), S \ A) = SumOver(Factors(S), S \ A)
  BY <1>1, SameWeights DEF Factors
<1> QED
  BY <1>1, <1>2, <1>3, <1>4, TotalIsSum

\* In an accepted view both engines apply the same revisions, and the exponents differ by their total.
LEMMA ViewsDifferByTotal ==
  ASSUME NEW S \in SUBSET Revision, IsFiniteSet(S), NEW T \in Times, NEW c \in Times,
         Accepts(S, T)
  PROVE  AdjustBackward(S, T, c) - AdjustForward(S, T, c) = Total(Applied(S, T))
<1>1. Selected(S, T) = Applied(S, T)
  <2>1. Latest(Current(S, T)) = Current(S, T)
    <3>1. \A r \in Current(S, T) : ~Newer(r, r)
      BY DEF Current, Known, Newer, Revision, Times
    <3> QED
      BY <3>1 DEF Accepts, Latest
  <2> QED
    BY <2>1 DEF Selected, Applied
<1> DEFINE all == Applied(S, T)
           later == {r \in all : c < r.effective}
           sofar == {r \in all : c >= r.effective}
<1>2. Factored(all) /\ later \in SUBSET all /\ Factored(later) /\ Factored(sofar)
  <2>1. all \in SUBSET S
    BY DEF Applied, Current, Known
  <2>2. \A r \in S : r.factor \in Int
    BY DEF Revision
  <2> QED
    BY <2>1, <2>2, FS_Subset DEF Factored
<1>3. all \ later = sofar
  BY DEF Applied, Current, Known, Revision, Times
<1>4. Total(all) = Total(later) + Total(sofar)
  <2> HIDE DEF all, later, sofar
  <2> QED
    BY <1>2, <1>3, TotalOfParts
<1>5. Total(later) \in Int /\ Total(sofar) \in Int
  BY <1>2, TotalIsInt
<1>6. AdjustBackward(S, T, c) = Total(later) /\ AdjustForward(S, T, c) = -Total(sofar)
  BY <1>1 DEF AdjustBackward, AdjustForward
<1> QED
  BY <1>4, <1>5, <1>6

(***************************************************************************)
(* The inductive invariant.                                                *)
(***************************************************************************)

\* The revisions of a reviewed event are an interval from 1, and a revision
\* number has one content.
Numbered ==
  /\ \A event \in Reviewed : \E n \in Nat : RevisionsOf(event) = 1..n
  /\ \A r, q \in rows : SameKey(r, q) => r = q

\* An approval that holds the lock will find what it has read: its evidence is
\* not on record and its revision is still the next.
ApprovalIsCurrent ==
  /\ \A a \in Approvers : pc[a] \in {"reviewed", "inserting"} => review[a] \in Review
  /\ \A a \in Approvers : pc[a] = "inserting" => ~OnRecord(a) /\ next[a] = NextRevision(a)
  /\ ApprovalsNeverCollide

\* Evidence on record is about the row it was committed with.
Evidenced ==
  /\ \A p \in approvals : p.row \in rows
  /\ \A r \in rows : r.event \in Reviewed =>
       \E p \in approvals : {q \in approvals : q.row = r} = {p}

IInv == TypeOK /\ Numbered /\ ApprovalIsCurrent /\ Evidenced

LEMMA TypeInit == Init => TypeOK
  BY ConstantsHold DEF Constants, TimeAssumption, RequestAssumption, Init, TypeOK, Times, Steps, Requests

LEMMA InvInit == Init => IInv
<1> SUFFICES ASSUME Init PROVE IInv
  OBVIOUS
<1>1. \A event \in Reviewed : RevisionsOf(event) = 1..0
  BY DEF Init, RevisionsOf
<1>2. Numbered
  BY <1>1 DEF Init, Numbered
<1>3. \A a \in Approvers : pc[a] = "idle"
  BY DEF Init, Requests
<1>4. ApprovalIsCurrent
  BY <1>3 DEF ApprovalIsCurrent, ApprovalsNeverCollide
<1> QED
  BY TypeInit, <1>2, <1>4 DEF Init, IInv, Evidenced

\* The revision after the highest of an interval.
LEMMA MaxOfInterval ==
  ASSUME NEW n \in Nat, NEW S, S = 1..n
  PROVE  1 + Max({0} \cup S) = n + 1
<1>1. n \in {0} \cup S /\ \A y \in {0} \cup S : n >= y
  OBVIOUS
<1>2. PICK m \in {0} \cup S : m = Max({0} \cup S) /\ \A y \in {0} \cup S : m >= y
  BY <1>1 DEF Max
<1>3. m \in Nat
  OBVIOUS
<1>4. m >= n
  BY <1>1, <1>2
<1>5. n >= m
  BY <1>1
<1> QED
  BY <1>2, <1>3, <1>4, <1>5

\* The next revision of a reviewed event follows an interval.
LEMMA NextIsSuccessor ==
  ASSUME Numbered, NEW a \in Approvers, review[a].evidence.event \in Reviewed
  PROVE  \E n \in Nat : /\ RevisionsOf(review[a].evidence.event) = 1..n
                        /\ NextRevision(a) = n + 1
<1>1. PICK n \in Nat : RevisionsOf(review[a].evidence.event) = 1..n
  BY DEF Numbered
<1>2. 1 + Max({0} \cup RevisionsOf(review[a].evidence.event)) = n + 1
  BY <1>1, MaxOfInterval
<1> QED
  BY <1>1, <1>2 DEF NextRevision

\* The row an approval is about to insert is a revision with a new number.
LEMMA ReviewedRowIsNew ==
  ASSUME IInv, NEW a \in Approvers, pc[a] = "inserting"
  PROVE  /\ ReviewedRow(a) \in Revision
         /\ ReviewedRow(a).event = review[a].evidence.event
         /\ ReviewedRow(a).revision = next[a]
         /\ review[a].evidence \in Evidence
         /\ ReviewedRow(a).event \in Reviewed
         /\ \A r \in rows : ~SameKey(r, ReviewedRow(a))
         /\ ~OnRecord(a)
<1>1. review[a] \in Review /\ ~OnRecord(a) /\ next[a] = NextRevision(a)
  BY DEF IInv, ApprovalIsCurrent
<1>2. review[a].evidence \in Evidence /\ review[a].time \in Times
  BY <1>1 DEF Review
<1>3. /\ review[a].evidence.event \in Events
      /\ review[a].evidence.effective \in Times
      /\ review[a].evidence.factor \in Int
  BY <1>2, EvidenceAssumption DEF EvidenceAssumption
<1>4. review[a].evidence.event \in Reviewed
  BY <1>2 DEF Reviewed
<1>5. PICK n \in Nat : /\ RevisionsOf(review[a].evidence.event) = 1..n
                       /\ NextRevision(a) = n + 1
  BY <1>4, NextIsSuccessor DEF IInv
<1>6. next[a] \in Nat \ {0} /\ next[a] \notin 1..n
  BY <1>1, <1>5
<1>7. /\ ReviewedRow(a) \in Revision
      /\ ReviewedRow(a).event = review[a].evidence.event
      /\ ReviewedRow(a).revision = next[a]
  BY <1>2, <1>3, <1>6 DEF ReviewedRow, Revision, Statuses
<1>8. ASSUME NEW r \in rows, SameKey(r, ReviewedRow(a)) PROVE FALSE
  <2>1. r.event = review[a].evidence.event /\ r.revision = next[a]
    BY <1>7, <1>8 DEF SameKey
  <2>2. r.revision \in RevisionsOf(review[a].evidence.event)
    BY <2>1 DEF RevisionsOf
  <2> QED
    BY <2>1, <2>2, <1>5, <1>6
<1> QED
  BY <1>1, <1>2, <1>4, <1>7, <1>8

(***************************************************************************)
(* Steps that change no table.                                             *)
(***************************************************************************)

\* What the invariant says of the tables holds while they stay as they are.
LEMMA TablesStay ==
  ASSUME IInv, UNCHANGED dbVars
  PROVE  /\ Numbered' /\ Evidenced'
         /\ \A event : RevisionsOf(event)' = RevisionsOf(event)
<1>1. rows' = rows /\ approvals' = approvals
  BY DEF dbVars
<1>2. \A event : RevisionsOf(event)' = RevisionsOf(event)
  BY <1>1 DEF RevisionsOf
<1>3. Numbered'
  BY <1>1, <1>2 DEF IInv, Numbered
<1>4. Evidenced'
  BY <1>1 DEF IInv, Evidenced
<1> QED
  BY <1>2, <1>3, <1>4

\* An approval that neither moves nor sees other revisions of its event stays
\* current.
LEMMA ApprovalStays ==
  ASSUME IInv, NEW a \in Approvers, pc'[a] = pc[a], review'[a] = review[a], next'[a] = next[a],
         approvals' = approvals,
         \A event \in Reviewed : RevisionsOf(event)' = RevisionsOf(event)
  PROVE  /\ pc'[a] \in {"reviewed", "inserting"} => review'[a] \in Review
         /\ pc'[a] = "inserting" => ~OnRecord(a)' /\ next'[a] = NextRevision(a)'
         /\ pc'[a] # "failed"
<1>1. pc[a] # "failed" /\ (pc[a] \in {"reviewed", "inserting"} => review[a] \in Review)
  BY DEF IInv, ApprovalIsCurrent, ApprovalsNeverCollide
<1>2. ASSUME pc[a] = "inserting"
      PROVE  ~OnRecord(a)' /\ next'[a] = NextRevision(a)'
  <2>1. ~OnRecord(a) /\ next[a] = NextRevision(a)
    BY <1>2 DEF IInv, ApprovalIsCurrent
  <2>2. review[a].evidence.event \in Reviewed
    BY <1>2, <1>1 DEF Review, Reviewed
  <2>3. RevisionsOf(review[a].evidence.event)' = RevisionsOf(review[a].evidence.event)
    BY <2>2
  <2>4. NextRevision(a)' = NextRevision(a)
    BY <2>3 DEF NextRevision
  <2> QED
    BY <2>1, <2>4 DEF OnRecord
<1> QED
  BY <1>1, <1>2

\* Approvers and importers are different requests.
LEMMA RequestsAreDisjoint ==
  \A a \in Approvers, i \in Importers : a # i /\ a \in Requests /\ i \in Requests
  BY RequestAssumption DEF RequestAssumption, Requests

\* A step of one approval that leaves the tables alone keeps the invariant when
\* it keeps the types and what the approval itself claims.
LEMMA QuietApprovalStep ==
  ASSUME IInv, UNCHANGED dbVars, TypeOK', NEW a \in Approvers,
         \A b \in Approvers : b # a =>
           pc'[b] = pc[b] /\ review'[b] = review[b] /\ next'[b] = next[b],
         pc'[a] \in {"reviewed", "inserting"} => review'[a] \in Review,
         pc'[a] = "inserting" => ~OnRecord(a)' /\ next'[a] = NextRevision(a)',
         pc'[a] # "failed"
  PROVE  IInv'
<1>1. Numbered' /\ Evidenced' /\ \A event : RevisionsOf(event)' = RevisionsOf(event)
  BY TablesStay
<1>2. approvals' = approvals
  BY DEF dbVars
<1>3. ASSUME NEW b \in Approvers
      PROVE  /\ pc'[b] \in {"reviewed", "inserting"} => review'[b] \in Review
             /\ pc'[b] = "inserting" => ~OnRecord(b)' /\ next'[b] = NextRevision(b)'
             /\ pc'[b] # "failed"
  <2>1. CASE b = a
    BY <2>1
  <2>2. CASE b # a
    BY <2>2, <1>1, <1>2, ApprovalStays
  <2> QED
    BY <2>1, <2>2
<1>4. ApprovalIsCurrent'
  BY <1>3 DEF ApprovalIsCurrent, ApprovalsNeverCollide
<1> QED
  BY <1>1, <1>4 DEF IInv

LEMMA StartReviewStep ==
  ASSUME IInv, NEW a \in Approvers, NEW e \in Evidence, StartReview(a, e)
  PROVE  IInv'
<1> USE DEF IInv
<1>1. TypeOK'
  BY RequestAssumption DEF StartReview, TypeOK, Go, Review, Steps, Requests, dbVars, importVars,
     RequestAssumption
<1>2. review'[a] \in Review /\ pc'[a] = "reviewed"
  BY DEF StartReview, TypeOK, Go, Review, Requests
<1>3. \A b \in Approvers : b # a =>
         pc'[b] = pc[b] /\ review'[b] = review[b] /\ next'[b] = next[b]
  BY DEF StartReview, TypeOK, Go, Requests
<1> QED
  BY <1>1, <1>2, <1>3, QuietApprovalStep DEF StartReview

LEMMA ChooseRevisionStep ==
  ASSUME IInv, NEW a \in Approvers, ChooseRevision(a)
  PROVE  IInv'
<1> USE DEF IInv
<1>1. review[a] \in Review /\ review[a].evidence.event \in Reviewed /\ a \in Requests
  BY DEF ChooseRevision, ApprovalIsCurrent, Review, Reviewed, Requests
<1>2. NextRevision(a) \in Nat
  BY <1>1, NextIsSuccessor
<1>3. \A b \in Approvers : b # a =>
         pc'[b] = pc[b] /\ review'[b] = review[b] /\ next'[b] = next[b]
  BY DEF ChooseRevision, Approved, TypeOK, Go, Requests
<1>4. UNCHANGED dbVars /\ UNCHANGED importVars /\ clock' = clock
  BY DEF ChooseRevision
<1>5. \A event : RevisionsOf(event)' = RevisionsOf(event)
  BY <1>4 DEF dbVars, RevisionsOf
<1>6. CASE OnRecord(a)
  <2>1. TypeOK'
    BY <1>4, <1>6 DEF ChooseRevision, Approved, TypeOK, Go, Steps, Requests, dbVars, importVars
  <2>2. pc'[a] = "idle"
    BY <1>1, <1>6 DEF ChooseRevision, Approved, TypeOK, Go
  <2> QED
    BY <1>3, <1>4, <2>1, <2>2, QuietApprovalStep
<1>7. CASE ~OnRecord(a)
  <2>1. TypeOK'
    BY <1>2, <1>4, <1>7, RequestAssumption DEF ChooseRevision, TypeOK, Go, Steps, Requests, dbVars, importVars,
       RequestAssumption
  <2>2. pc'[a] = "inserting" /\ review' = review /\ next'[a] = NextRevision(a)
    BY <1>1, <1>7 DEF ChooseRevision, TypeOK, Go
  <2>3. NextRevision(a)' = NextRevision(a)
    BY <1>5, <2>2 DEF NextRevision
  <2>4. ~OnRecord(a)'
    BY <1>4, <1>7, <2>2 DEF OnRecord, dbVars
  <2> QED
    BY <1>1, <1>3, <1>4, <2>1, <2>2, <2>3, <2>4, QuietApprovalStep
<1> QED
  BY <1>6, <1>7

LEMMA AbandonApprovalStep ==
  ASSUME IInv, NEW a \in Approvers, AbandonApproval(a)
  PROVE  IInv'
<1> USE DEF IInv
<1>1. TypeOK'
  BY RequestAssumption DEF AbandonApproval, Approved, TypeOK, Go, Steps, Requests, dbVars, importVars,
     RequestAssumption
<1>2. pc'[a] = "idle"
  BY DEF AbandonApproval, Approved, TypeOK, Go, Requests
<1>3. \A b \in Approvers : b # a =>
         pc'[b] = pc[b] /\ review'[b] = review[b] /\ next'[b] = next[b]
  BY DEF AbandonApproval, Approved, TypeOK, Go, Requests
<1> QED
  BY <1>1, <1>2, <1>3, QuietApprovalStep DEF AbandonApproval

\* A step of the clock or of an ingestion leaves every approval as it was.
LEMMA OtherStep ==
  ASSUME IInv, TypeOK', approvalVars' = approvalVars, approvals' = approvals,
         \A a \in Approvers : pc'[a] = pc[a],
         \A event \in Reviewed : RevisionsOf(event)' = RevisionsOf(event)
  PROVE  ApprovalIsCurrent'
<1>1. ASSUME NEW a \in Approvers
      PROVE  /\ pc'[a] \in {"reviewed", "inserting"} => review'[a] \in Review
             /\ pc'[a] = "inserting" => ~OnRecord(a)' /\ next'[a] = NextRevision(a)'
             /\ pc'[a] # "failed"
  <2>1. pc'[a] = pc[a] /\ review'[a] = review[a] /\ next'[a] = next[a]
    BY DEF approvalVars
  <2> QED
    BY <2>1, ApprovalStays
<1> QED
  BY <1>1 DEF ApprovalIsCurrent, ApprovalsNeverCollide

LEMMA QuietOtherStep ==
  ASSUME IInv, TypeOK', approvalVars' = approvalVars, UNCHANGED dbVars,
         \A a \in Approvers : pc'[a] = pc[a]
  PROVE  IInv'
<1>1. Numbered' /\ Evidenced' /\ \A event : RevisionsOf(event)' = RevisionsOf(event)
  BY TablesStay
<1>2. ApprovalIsCurrent'
  BY <1>1, OtherStep DEF dbVars
<1> QED
  BY <1>1, <1>2 DEF IInv

LEMMA TickStep ==
  ASSUME IInv, Tick
  PROVE  IInv'
<1>1. TypeOK'
  BY TimeAssumption DEF IInv, TypeOK, Tick, Times, dbVars, approvalVars, importVars, TimeAssumption
<1> QED
  BY <1>1, QuietOtherStep DEF Tick

LEMMA IngestStep ==
  ASSUME IInv, NEW i \in Importers, NEW b \in Batches, Ingest(i, b)
  PROVE  IInv'
<1>1. b \subseteq Feed
  BY DEF Batches
<1>2. \A a \in Approvers : pc'[a] = pc[a]
  BY RequestsAreDisjoint DEF IInv, TypeOK, Ingest, Imported, Go
<1>3. TypeOK'
  BY <1>1, <1>2 DEF IInv, TypeOK, Ingest, Imported, Go, Steps, Requests, dbVars, approvalVars
<1> QED
  BY <1>2, <1>3, QuietOtherStep DEF Ingest

LEMMA AbandonImportStep ==
  ASSUME IInv, NEW i \in Importers, AbandonImport(i)
  PROVE  IInv'
<1>1. \A a \in Approvers : pc'[a] = pc[a]
  BY RequestsAreDisjoint DEF IInv, TypeOK, AbandonImport, Imported, Go
<1>2. TypeOK'
  BY <1>1 DEF IInv, TypeOK, AbandonImport, Imported, Go, Steps, Requests, dbVars, approvalVars
<1> QED
  BY <1>1, <1>2, QuietOtherStep DEF AbandonImport

LEMMA TryAgainStep ==
  ASSUME IInv, NEW x \in Requests, TryAgain(x)
  PROVE  IInv'
<1>1. \A a \in Approvers : pc'[a] = pc[a]
  BY RequestsAreDisjoint DEF IInv, ApprovalIsCurrent, ApprovalsNeverCollide, TypeOK, TryAgain, Go
<1>2. TypeOK'
  BY <1>1 DEF IInv, TypeOK, TryAgain, Go, Steps, Requests, dbVars, approvalVars, importVars
<1> QED
  BY <1>1, <1>2, QuietOtherStep DEF TryAgain


(***************************************************************************)
(* Ingestion on its own.                                                   *)
(***************************************************************************)

\* A batch on its way agrees with itself, and what it leaves out is stored.
ImportInv ==
  /\ pc \in [Requests -> Steps]
  /\ batch \in [Importers -> SUBSET Feed]
  /\ fresh \in [Importers -> SUBSET Feed]
  /\ \A i \in Importers : \A r, q \in fresh[i] : SameKey(r, q) => r = q
  /\ \A i \in Importers : fresh[i] \subseteq batch[i]
  /\ \A i \in Importers : pc[i] = "saving" => batch[i] \ fresh[i] \subseteq rows

LEMMA RowsGrow == [Next]_vars => rows \subseteq rows'
<1> SUFFICES ASSUME [Next]_vars PROVE rows \subseteq rows'
  OBVIOUS
<1>1. CASE Tick
  BY <1>1 DEF Tick, dbVars
<1>2. ASSUME NEW a \in Approvers, NEW e \in Evidence, StartReview(a, e) PROVE rows \subseteq rows'
  BY <1>2 DEF StartReview, dbVars
<1>3. ASSUME NEW a \in Approvers, ChooseRevision(a) \/ AbandonApproval(a) PROVE rows \subseteq rows'
  BY <1>3 DEF ChooseRevision, AbandonApproval, dbVars
<1>4. ASSUME NEW a \in Approvers, CommitApproval(a) PROVE rows \subseteq rows'
  BY <1>4 DEF CommitApproval, dbVars
<1>5. ASSUME NEW i \in Importers, NEW b \in Batches, Ingest(i, b) PROVE rows \subseteq rows'
  BY <1>5 DEF Ingest, dbVars
<1>6. ASSUME NEW i \in Importers, SaveBatch(i) \/ AbandonImport(i) PROVE rows \subseteq rows'
  BY <1>6 DEF SaveBatch, AbandonImport, dbVars
<1>7. ASSUME NEW x \in Requests, TryAgain(x) PROVE rows \subseteq rows'
  BY <1>7 DEF TryAgain, dbVars
<1>8. CASE UNCHANGED vars
  BY <1>8 DEF vars
<1> QED
  BY <1>1, <1>2, <1>3, <1>4, <1>5, <1>6, <1>7, <1>8 DEF Next

LEMMA ImportInit == Init => ImportInv
  BY DEF Init, ImportInv, Requests, Steps

\* A step that is not one of an importer keeps what importers hold.
LEMMA ImportStays ==
  ASSUME ImportInv, rows \subseteq rows', importVars' = importVars, pc' \in [Requests -> Steps],
         \A i \in Importers : pc'[i] = "saving" => pc[i] = "saving"
  PROVE  ImportInv'
  BY DEF ImportInv, importVars, SameKey

LEMMA ImportEnds ==
  ASSUME ImportInv, rows \subseteq rows', NEW i \in Importers, NEW step \in {"failed", "idle"},
         Imported(i, step)
  PROVE  ImportInv'
<1>1. /\ batch' = [batch EXCEPT ![i] = {}]
      /\ fresh' = [fresh EXCEPT ![i] = {}]
      /\ pc' = [pc EXCEPT ![i] = step]
  BY DEF Imported, Go
<1> QED
  BY <1>1, RequestsAreDisjoint DEF ImportInv, Steps, SameKey, Requests

\* An answer is refused, or it contradicts nothing that is stored.
LEMMA IngestOutcome ==
  ASSUME NEW i \in Importers, NEW b \in Batches, Ingest(i, b)
  PROVE  \/ Imported(i, "failed")
         \/ /\ ~Contradicts(b)
            /\ Go(i, "saving")
            /\ batch' = [batch EXCEPT ![i] = b]
            /\ fresh' = [fresh EXCEPT ![i] = b \ rows]
  BY DEF Ingest, Outcomes

LEMMA ImportStep == ImportInv /\ [Next]_vars => ImportInv'
<1> SUFFICES ASSUME ImportInv, [Next]_vars PROVE ImportInv'
  OBVIOUS
<1>0. rows \subseteq rows'
  BY RowsGrow
<1>1. CASE Tick
  BY <1>0, <1>1, ImportStays DEF Tick, ImportInv
<1>2. ASSUME NEW a \in Approvers, NEW e \in Evidence, StartReview(a, e) PROVE ImportInv'
  BY <1>0, <1>2, ImportStays, RequestsAreDisjoint DEF StartReview, Go, Steps, ImportInv
<1>3. ASSUME NEW a \in Approvers, ChooseRevision(a) PROVE ImportInv'
  BY <1>0, <1>3, ImportStays, RequestsAreDisjoint DEF ChooseRevision, Approved, Go, Steps, ImportInv
<1>4. ASSUME NEW a \in Approvers, AbandonApproval(a) PROVE ImportInv'
  BY <1>0, <1>4, ImportStays, RequestsAreDisjoint DEF AbandonApproval, Approved, Go, Steps, ImportInv
<1>5. ASSUME NEW a \in Approvers, CommitApproval(a) PROVE ImportInv'
  BY <1>0, <1>5, ImportStays, RequestsAreDisjoint DEF CommitApproval, Approved, Go, Steps, ImportInv
<1>6. ASSUME NEW i \in Importers, NEW b \in Batches, Ingest(i, b) PROVE ImportInv'
  <2>1. b \subseteq Feed /\ i \in Requests
    BY RequestsAreDisjoint DEF Batches, Requests
  <2>0. \/ Imported(i, "failed")
        \/ /\ ~Contradicts(b)
           /\ Go(i, "saving")
           /\ batch' = [batch EXCEPT ![i] = b]
           /\ fresh' = [fresh EXCEPT ![i] = b \ rows]
    BY <1>6, IngestOutcome
  <2>2. CASE Imported(i, "failed")
    BY <1>0, <2>2, ImportEnds
  <2>3. CASE /\ ~Contradicts(b)
             /\ Go(i, "saving")
             /\ batch' = [batch EXCEPT ![i] = b]
             /\ fresh' = [fresh EXCEPT ![i] = b \ rows]
    <3>1. \A r, q \in b : SameKey(r, q) => r = q
      BY <2>3 DEF Contradicts
    <3>2. /\ batch' = [batch EXCEPT ![i] = b]
          /\ fresh' = [fresh EXCEPT ![i] = b \ rows]
          /\ pc' = [pc EXCEPT ![i] = "saving"]
          /\ rows' = rows
      BY <1>6, <2>3 DEF Ingest, Go, dbVars
    <3>3. /\ pc' \in [Requests -> Steps]
          /\ batch' \in [Importers -> SUBSET Feed]
          /\ fresh' \in [Importers -> SUBSET Feed]
      BY <2>1, <3>2 DEF ImportInv, Steps
    <3>4. \A j \in Importers : \A r, q \in fresh'[j] : SameKey(r, q) => r = q
      BY <3>1, <3>2 DEF ImportInv
    <3>5. \A j \in Importers : pc'[j] = "saving" => batch'[j] \ fresh'[j] \subseteq rows'
      BY <2>1, <3>2, RequestsAreDisjoint DEF ImportInv, Requests
    <3> QED
      BY <3>2, <3>3, <3>4, <3>5 DEF ImportInv, SameKey
  <2> QED
    BY <2>0, <2>2, <2>3
<1>7. ASSUME NEW i \in Importers, SaveBatch(i) \/ AbandonImport(i) PROVE ImportInv'
  BY <1>0, <1>7, ImportEnds DEF SaveBatch, AbandonImport
<1>8. ASSUME NEW x \in Requests, TryAgain(x) PROVE ImportInv'
  BY <1>0, <1>8, ImportStays DEF TryAgain, Go, Steps, ImportInv
<1>9. CASE UNCHANGED vars
  BY <1>0, <1>9, ImportStays DEF vars, importVars, ImportInv
<1> QED
  BY <1>1, <1>2, <1>3, <1>4, <1>5, <1>6, <1>7, <1>8, <1>9 DEF Next

(***************************************************************************)
(* The steps that write.                                                   *)
(***************************************************************************)

\* Rows of the feed are about no reviewed event.
LEMMA FeedIsNotReviewed ==
  ASSUME NEW F, F \subseteq Feed
  PROVE  \A r \in F : r \in Revision /\ r.event \notin Reviewed
  BY FeedAssumption DEF FeedAssumption

LEMMA SaveBatchStep ==
  ASSUME IInv, ImportInv, NEW i \in Importers, SaveBatch(i)
  PROVE  IInv'
<1> DEFINE F == fresh[i]
<1>1. CASE \E r \in F : \E q \in rows : SameKey(r, q)
  <2>1. UNCHANGED dbVars /\ approvalVars' = approvalVars
    BY <1>1 DEF SaveBatch, dbVars
  <2>2. Imported(i, "failed") /\ clock' = clock
    BY <1>1 DEF SaveBatch
  <2>3. \A a \in Approvers : pc'[a] = pc[a]
    BY <2>2, RequestsAreDisjoint DEF Imported, Go, IInv, TypeOK
  <2>4. TypeOK'
    BY <2>1, <2>2, <2>3 DEF IInv, TypeOK, Imported, Go, Steps, Requests, dbVars, approvalVars
  <2> QED
    BY <2>1, <2>3, <2>4, QuietOtherStep
<1>2. CASE ~\E r \in F : \E q \in rows : SameKey(r, q)
  <2>1. /\ rows' = rows \cup F /\ Imported(i, "idle")
        /\ clock' = clock /\ approvals' = approvals /\ approvalVars' = approvalVars
    BY <1>2 DEF SaveBatch
  <2>2. F \subseteq Feed /\ \A r, q \in F : SameKey(r, q) => r = q
    BY DEF ImportInv
  <2>3. \A r \in F : r \in Revision /\ r.event \notin Reviewed
    BY <2>2, FeedIsNotReviewed
  <2>4. \A a \in Approvers : pc'[a] = pc[a]
    BY <2>1, RequestsAreDisjoint DEF Imported, Go, IInv, TypeOK
  <2>5. TypeOK'
    <3>1. rows' \subseteq Revision
      BY <2>1, <2>3 DEF IInv, TypeOK
    <3> QED
      BY <2>1, <2>4, <3>1 DEF IInv, TypeOK, Imported, Go, Steps, Requests, approvalVars
  <2>6. \A event \in Reviewed : RevisionsOf(event)' = RevisionsOf(event)
    BY <2>1, <2>3 DEF RevisionsOf
  <2>7. Numbered'
    <3>1. \A event \in Reviewed : \E n \in Nat : RevisionsOf(event)' = 1..n
      BY <2>6 DEF IInv, Numbered
    <3>2. \A r, q \in rows : SameKey(r, q) => r = q
      BY DEF IInv, Numbered
    <3>3. \A r, q \in rows' : SameKey(r, q) => r = q
      BY <1>2, <2>1, <2>2, <3>2 DEF SameKey
    <3> QED
      BY <3>1, <3>3 DEF Numbered, SameKey
  <2>8. Evidenced'
    <3>1. \A r \in rows' : r.event \in Reviewed => r \in rows
      BY <2>1, <2>3
    <3> QED
      BY <2>1, <3>1 DEF IInv, Evidenced
  <2>9. ApprovalIsCurrent'
    BY <2>1, <2>4, <2>5, <2>6, OtherStep
  <2> QED
    BY <2>5, <2>7, <2>8, <2>9 DEF IInv
<1> QED
  BY <1>1, <1>2

LEMMA CommitApprovalStep ==
  ASSUME IInv, NEW a \in Approvers, CommitApproval(a)
  PROVE  IInv'
<1> DEFINE new == ReviewedRow(a)
           p == [evidence |-> review[a].evidence, row |-> new]
<1>1. pc[a] = "inserting" /\ lock = a
  BY DEF CommitApproval, IInv, TypeOK
<1>2. /\ new \in Revision
      /\ new.event = review[a].evidence.event
      /\ new.revision = next[a]
      /\ review[a].evidence \in Evidence
      /\ new.event \in Reviewed
      /\ \A r \in rows : ~SameKey(r, new)
      /\ ~OnRecord(a)
  BY <1>1, ReviewedRowIsNew
<1>3. /\ rows' = rows \cup {new}
      /\ approvals' = approvals \cup {p}
      /\ Approved(a, "idle")
      /\ clock' = clock /\ importVars' = importVars
  BY <1>2 DEF CommitApproval
<1> HIDE DEF new
<1>4. /\ pc' = [pc EXCEPT ![a] = "idle"]
      /\ lock' = Nobody
      /\ review' = [review EXCEPT ![a] = NoReview]
      /\ next' = [next EXCEPT ![a] = 0]
  BY <1>1, <1>3 DEF Approved, Go
<1>5. TypeOK'
  <2>1. p \in Approval
    BY <1>2 DEF Approval
  <2> HIDE DEF p
  <2>2. rows' \subseteq Revision /\ approvals' \subseteq Approval
    BY <1>2, <1>3, <2>1 DEF IInv, TypeOK
  <2>3. \A b \in Approvers : pc'[b] # "inserting"
    BY <1>1, <1>4 DEF IInv, TypeOK, Requests
  <2>4. /\ pc' \in [Requests -> Steps]
        /\ review' \in [Approvers -> Review \cup {NoReview}]
        /\ next' \in [Approvers -> Nat]
    BY <1>4 DEF IInv, TypeOK, Steps
  <2>5. \A b \in Approvers : pc'[b] = "inserting" <=> lock' = b
    BY <1>4, <2>3, RequestAssumption DEF RequestAssumption
  <2> QED
    BY <1>3, <1>4, <2>2, <2>4, <2>5 DEF IInv, TypeOK, importVars
<1>6. Numbered'
  <2>1. PICK n \in Nat : RevisionsOf(new.event) = 1..n /\ next[a] = n + 1
    BY <1>1, <1>2, NextIsSuccessor DEF IInv, ApprovalIsCurrent
  <2>2. \A event : RevisionsOf(event)' =
           IF event = new.event THEN RevisionsOf(event) \cup {next[a]} ELSE RevisionsOf(event)
    BY <1>2, <1>3 DEF RevisionsOf
  <2>3. (1..n) \cup {n + 1} = 1..(n + 1)
    OBVIOUS
  <2>4. \A event \in Reviewed : \E k \in Nat : RevisionsOf(event)' = 1..k
    <3> SUFFICES ASSUME NEW event \in Reviewed PROVE \E k \in Nat : RevisionsOf(event)' = 1..k
      OBVIOUS
    <3>1. CASE event = new.event
      <4>0. RevisionsOf(event)' = RevisionsOf(event) \cup {next[a]}
        BY <2>2, <3>1
      <4>1. RevisionsOf(event)' = 1..(n + 1)
        BY <2>1, <2>3, <3>1, <4>0
      <4>2. n + 1 \in Nat
        OBVIOUS
      <4> QED
        BY <4>1, <4>2
    <3>2. CASE event # new.event
      BY <2>2, <3>2 DEF IInv, Numbered
    <3> QED
      BY <3>1, <3>2
  <2>5. \A r, q \in rows : SameKey(r, q) => r = q
    BY DEF IInv, Numbered
  <2>6. \A r, q \in rows' : SameKey(r, q) => r = q
    BY <1>2, <1>3, <2>5 DEF SameKey
  <2> QED
    BY <2>4, <2>6 DEF Numbered, SameKey
<1>7. Evidenced'
  <2>1. new \notin rows
    BY <1>2 DEF SameKey
  <2>2. p.row = new
    OBVIOUS
  <2> HIDE DEF p
  <2>3. \A o \in approvals : o.row \in rows
    BY DEF IInv, Evidenced
  <2>4. \A o \in approvals' : o.row \in rows'
    BY <1>3, <2>2, <2>3
  <2>5. \A r \in rows' : r.event \in Reviewed =>
          \E o \in approvals' : {q \in approvals' : q.row = r} = {o}
    <3> SUFFICES ASSUME NEW r \in rows', r.event \in Reviewed
                 PROVE  \E o \in approvals' : {q \in approvals' : q.row = r} = {o}
      OBVIOUS
    <3>1. CASE r = new
      <4>1. {q \in approvals' : q.row = r} = {p}
        BY <1>3, <2>1, <2>2, <2>3, <3>1
      <4> QED
        BY <1>3, <4>1
    <3>2. CASE r # new
      <4>1. r \in rows
        BY <1>3, <3>2
      <4>2. PICK o \in approvals : {q \in approvals : q.row = r} = {o}
        BY <4>1 DEF IInv, Evidenced
      <4>3. {q \in approvals' : q.row = r} = {o}
        BY <1>3, <2>2, <3>2, <4>2
      <4> QED
        BY <1>3, <4>3
    <3> QED
      BY <3>1, <3>2
  <2> QED
    BY <2>4, <2>5 DEF Evidenced
<1>8. ApprovalIsCurrent'
  <2>1. \A b \in Approvers : pc'[b] # "inserting"
    BY <1>1, <1>4 DEF IInv, TypeOK, Requests
  <2>2. \A b \in Approvers : pc'[b] = "reviewed" => review'[b] \in Review
    BY <1>4 DEF IInv, TypeOK, ApprovalIsCurrent, Requests
  <2>3. \A b \in Approvers : pc'[b] # "failed"
    BY <1>4 DEF IInv, TypeOK, ApprovalIsCurrent, ApprovalsNeverCollide, Requests
  <2> QED
    BY <2>1, <2>2, <2>3 DEF ApprovalIsCurrent, ApprovalsNeverCollide
<1> QED
  BY <1>5, <1>6, <1>7, <1>8 DEF IInv

LEMMA InvStep == IInv /\ ImportInv /\ [Next]_vars => IInv'
<1> SUFFICES ASSUME IInv, ImportInv, [Next]_vars PROVE IInv'
  OBVIOUS
<1>1. CASE UNCHANGED vars
  <2>1. TypeOK'
    BY <1>1 DEF IInv, TypeOK, vars
  <2> QED
    BY <1>1, <2>1, QuietOtherStep DEF vars, dbVars, approvalVars
<1> QED
  BY <1>1, TickStep, StartReviewStep, ChooseRevisionStep, CommitApprovalStep,
     AbandonApprovalStep, IngestStep, SaveBatchStep, AbandonImportStep, TryAgainStep DEF Next

(***************************************************************************)
(* The table is finite.                                                    *)
(***************************************************************************)

FiniteInv ==
  /\ IsFiniteSet(rows)
  /\ fresh \in [Importers -> SUBSET Feed]
  /\ \A i \in Importers : IsFiniteSet(fresh[i])

LEMMA FiniteInit == Init => FiniteInv
  BY FS_EmptySet DEF Init, FiniteInv

LEMMA FiniteStays == FiniteInv /\ rows' = rows /\ fresh' = fresh => FiniteInv'
  BY DEF FiniteInv

LEMMA FiniteStep == FiniteInv /\ [Next]_vars => FiniteInv'
<1> SUFFICES ASSUME FiniteInv, [Next]_vars PROVE FiniteInv'
  OBVIOUS
<1>0. IsFiniteSet({})
  BY FS_EmptySet
<1>1. CASE Tick \/ UNCHANGED vars
  BY <1>1, FiniteStays DEF Tick, vars, dbVars, importVars
<1>2. ASSUME NEW a \in Approvers, NEW e \in Evidence, StartReview(a, e) PROVE FiniteInv'
  BY <1>2, FiniteStays DEF StartReview, dbVars, importVars
<1>3. ASSUME NEW a \in Approvers, ChooseRevision(a) \/ AbandonApproval(a) PROVE FiniteInv'
  BY <1>3, FiniteStays DEF ChooseRevision, AbandonApproval, dbVars, importVars
<1>4. ASSUME NEW a \in Approvers, CommitApproval(a) PROVE FiniteInv'
  <2>1. fresh' = fresh /\ (rows' = rows \/ rows' = rows \cup {ReviewedRow(a)})
    BY <1>4 DEF CommitApproval, dbVars, importVars
  <2>2. IsFiniteSet(rows')
    BY <2>1, FS_AddElement DEF FiniteInv
  <2> QED
    BY <2>1, <2>2 DEF FiniteInv
<1>5. ASSUME NEW i \in Importers, NEW b \in Batches, Ingest(i, b) PROVE FiniteInv'
  <2>1. b \subseteq Feed /\ IsFiniteSet(b \ rows)
    BY FS_Subset DEF Batches
  <2>2. /\ rows' = rows
        /\ \/ fresh' = [fresh EXCEPT ![i] = b \ rows]
           \/ fresh' = [fresh EXCEPT ![i] = {}]
    BY <1>5 DEF Ingest, Imported, dbVars
  <2> QED
    BY <1>0, <2>1, <2>2 DEF FiniteInv
<1>6. ASSUME NEW i \in Importers, SaveBatch(i) PROVE FiniteInv'
  <2>1. /\ rows' = rows \/ rows' = rows \cup fresh[i]
        /\ fresh' = [fresh EXCEPT ![i] = {}]
    BY <1>6 DEF SaveBatch, Imported
  <2>2. IsFiniteSet(rows')
    BY <2>1, FS_Union DEF FiniteInv
  <2> QED
    BY <1>0, <2>1, <2>2 DEF FiniteInv
<1>7. ASSUME NEW i \in Importers, AbandonImport(i) PROVE FiniteInv'
  BY <1>0, <1>7 DEF AbandonImport, Imported, dbVars, FiniteInv
<1>8. ASSUME NEW x \in Requests, TryAgain(x) PROVE FiniteInv'
  BY <1>8, FiniteStays DEF TryAgain, dbVars, importVars
<1> QED
  BY <1>1, <1>2, <1>3, <1>4, <1>5, <1>6, <1>7, <1>8 DEF Next

(***************************************************************************)
(* Theorems.                                                               *)
(***************************************************************************)

THEOREM Invariance == Spec => [](IInv /\ ImportInv)
<1>1. Init => IInv /\ ImportInv
  BY InvInit, ImportInit
<1>2. IInv /\ ImportInv /\ [Next]_vars => (IInv /\ ImportInv)'
  BY InvStep, ImportStep
<1> QED
  BY <1>1, <1>2, PTL DEF Spec

\* Every variable keeps its type, and the stock-master row is locked exactly
\* while an approval is inserting.
THEOREM TypeCorrect == Spec => []TypeOK
<1>1. IInv => TypeOK
  BY DEF IInv
<1> QED
  BY Invariance, <1>1, PTL

\* No approval ever runs into a unique constraint, however many administrators
\* approve at the same time and however often they repeat themselves.
THEOREM CollisionFree == Spec => []ApprovalsNeverCollide
<1>1. IInv => ApprovalsNeverCollide
  BY DEF IInv, ApprovalIsCurrent
<1> QED
  BY Invariance, <1>1, PTL

\* Reviewed revisions are numbered without a gap and each has its evidence.
THEOREM EvidenceComplete == Spec => []RevisionsAreEvidenced
<1>1. IInv => RevisionsAreEvidenced
  <2> SUFFICES ASSUME IInv PROVE RevisionsAreEvidenced
    OBVIOUS
  <2>1. ASSUME NEW event \in Reviewed, NEW n \in RevisionsOf(event)
        PROVE  1..n \subseteq RevisionsOf(event)
    <3>1. PICK k \in Nat : RevisionsOf(event) = 1..k
      BY DEF IInv, Numbered
    <3>2. n \in 1..k
      BY <3>1
    <3>3. 1..n \subseteq 1..k
      BY <3>2
    <3> QED
      BY <3>1, <3>3
  <2> QED
    BY <2>1 DEF IInv, Evidenced, RevisionsAreEvidenced
<1> QED
  BY Invariance, <1>1, PTL

\* Committed revisions are there for ever, each number with one content.
THEOREM ImmutableRevisions == Spec => RevisionsAreImmutable
<1>1. IInv' /\ [Next]_vars => [rows' # rows => /\ rows \subseteq rows'
                                              /\ \A r, q \in rows' : SameKey(r, q) => r = q]_vars
  <2> SUFFICES ASSUME IInv', [Next]_vars
               PROVE  /\ rows \subseteq rows'
                      /\ \A r, q \in rows' : SameKey(r, q) => r = q
    OBVIOUS
  <2> QED
    BY RowsGrow DEF IInv, Numbered, SameKey
<1> QED
  BY Invariance, <1>1, PTL DEF Spec, RevisionsAreImmutable

\* A batch is stored as a whole or not at all, whatever others store meanwhile.
THEOREM AtomicBatches == Spec => BatchesAreAtomic
<1>1. ImportInv /\ [Next]_vars =>
        [\A i \in Importers : pc[i] = "saving" /\ pc'[i] # "saving" =>
           IF pc'[i] = "idle" THEN batch[i] \subseteq rows' ELSE rows' = rows]_vars
  <2> SUFFICES ASSUME ImportInv, [Next]_vars, NEW i \in Importers,
                      pc[i] = "saving", pc'[i] # "saving"
               PROVE  IF pc'[i] = "idle" THEN batch[i] \subseteq rows' ELSE rows' = rows
    OBVIOUS
  <2>1. pc \in [Requests -> Steps] /\ i \in Requests
    BY RequestsAreDisjoint DEF ImportInv, Requests
  <2>2. SaveBatch(i) \/ AbandonImport(i)
    <3>1. CASE UNCHANGED vars
      BY <3>1 DEF vars
    <3>2. ASSUME NEW x \in Requests, x # i, NEW step, Go(x, step) PROVE FALSE
      BY <2>1, <3>2 DEF Go
    <3>3. ASSUME NEW a \in Approvers,
                 (\E e \in Evidence : StartReview(a, e)) \/ ChooseRevision(a)
                   \/ CommitApproval(a) \/ AbandonApproval(a)
          PROVE  FALSE
      BY <3>2, <3>3, RequestsAreDisjoint
         DEF StartReview, ChooseRevision, CommitApproval, AbandonApproval, Approved
    <3>4. ASSUME NEW j \in Importers,
                 (\E b \in Batches : Ingest(j, b)) \/ SaveBatch(j) \/ AbandonImport(j)
          PROVE  SaveBatch(i) \/ AbandonImport(i)
      <4>1. j = i
        BY <2>1, <3>2, <3>4 DEF Ingest, SaveBatch, AbandonImport, Imported, Requests
      <4> QED
        BY <3>4, <4>1 DEF Ingest
    <3>5. ASSUME NEW x \in Requests, TryAgain(x) PROVE FALSE
      BY <2>1, <3>5 DEF TryAgain, Go
    <3>6. ~Tick
      BY DEF Tick
    <3> QED
      BY <3>1, <3>3, <3>4, <3>5, <3>6 DEF Next
  <2>3. CASE AbandonImport(i)
    BY <2>1, <2>3 DEF AbandonImport, Imported, Go, dbVars
  <2>4. CASE SaveBatch(i)
    <3>1. batch[i] \ fresh[i] \subseteq rows
      BY DEF ImportInv
    <3> QED
      BY <2>1, <2>4, <3>1 DEF SaveBatch, Imported, Go
  <2> QED
    BY <2>2, <2>3, <2>4
<1> QED
  BY Invariance, <1>1, PTL DEF Spec, BatchesAreAtomic

\* No commit changes a view of a time before what it commits was known.
THEOREM NothingFromTheFuture == Spec => NoLookAhead
<1>1. IInv' /\ [Next]_vars =>
        [rows' # rows => \A T \in Times : (\A r \in rows' \ rows : r.known > T) =>
           /\ Listed(rows', T) = Listed(rows, T)
           /\ Selected(rows', T) = Selected(rows, T)
           /\ Accepts(rows', T) = Accepts(rows, T)
           /\ Applied(rows', T) = Applied(rows, T)]_vars
  <2> SUFFICES ASSUME IInv', [Next]_vars, NEW T \in Times, \A r \in rows' \ rows : r.known > T
               PROVE  /\ Listed(rows', T) = Listed(rows, T)
                      /\ Selected(rows', T) = Selected(rows, T)
                      /\ Accepts(rows', T) = Accepts(rows, T)
                      /\ Applied(rows', T) = Applied(rows, T)
    OBVIOUS
  <2>1. rows \subseteq rows' /\ rows' \in SUBSET Revision
    BY RowsGrow DEF IInv, TypeOK
  <2> QED
    BY <2>1, FutureIsInvisible
<1> QED
  BY Invariance, <1>1, PTL DEF Spec, NoLookAhead

\* An approval under way has read the clock before, or reads it in this step; the clock
\* does not run back.
LEMMA ClockIsReadOnce ==
  ASSUME IInv, ImportInv, [Next]_vars
  PROVE  /\ clock' \in {clock, clock + 1}
         /\ \A a \in Approvers : pc'[a] \in {"reviewed", "inserting"} =>
              \/ pc[a] \in {"reviewed", "inserting"} /\ review'[a] = review[a]
              \/ review'[a].time = clock
<1> DEFINE Read(a) == pc'[a] \in {"reviewed", "inserting"} =>
                        \/ pc[a] \in {"reviewed", "inserting"} /\ review'[a] = review[a]
                        \/ review'[a].time = clock
<1>0. /\ pc \in [Requests -> Steps]
      /\ review \in [Approvers -> Review \cup {NoReview}]
      /\ \A a \in Approvers : a \in Requests
      /\ \A i \in Importers : i \in Requests
  BY DEF IInv, TypeOK, Requests
<1>1. CASE UNCHANGED vars
  BY <1>1 DEF vars
<1>2. CASE Tick
  BY <1>2 DEF Tick, approvalVars
<1>3. ASSUME NEW b \in Approvers, NEW e \in Evidence, StartReview(b, e)
      PROVE  clock' = clock /\ \A a \in Approvers : Read(a)
  BY <1>0, <1>3 DEF StartReview, Go
<1>4. ASSUME NEW b \in Approvers, ChooseRevision(b)
      PROVE  clock' = clock /\ \A a \in Approvers : Read(a)
  BY <1>0, <1>4 DEF ChooseRevision, Approved, Go
<1>5. ASSUME NEW b \in Approvers, CommitApproval(b) \/ AbandonApproval(b)
      PROVE  clock' = clock /\ \A a \in Approvers : Read(a)
  BY <1>0, <1>5 DEF CommitApproval, AbandonApproval, Approved, Go
<1>6. ASSUME NEW i \in Importers, NEW step, Imported(i, step), UNCHANGED approvalVars
      PROVE  \A a \in Approvers : Read(a)
  BY <1>0, <1>6, RequestsAreDisjoint DEF Imported, Go, approvalVars
<1>7. ASSUME NEW i \in Importers, NEW b \in Batches, Ingest(i, b)
      PROVE  clock' = clock /\ \A a \in Approvers : Read(a)
  <2>1. CASE Imported(i, "failed")
    BY <1>6, <1>7, <2>1 DEF Ingest
  <2>2. CASE Go(i, "saving")
    BY <1>0, <1>7, <2>2, RequestsAreDisjoint DEF Ingest, Go, approvalVars
  <2> QED
    BY <1>7, <2>1, <2>2 DEF Ingest
<1>8. ASSUME NEW i \in Importers, SaveBatch(i) \/ AbandonImport(i)
      PROVE  clock' = clock /\ \A a \in Approvers : Read(a)
  BY <1>6, <1>8 DEF SaveBatch, AbandonImport
<1>9. ASSUME NEW x \in Requests, TryAgain(x)
      PROVE  clock' = clock /\ \A a \in Approvers : Read(a)
  BY <1>0, <1>9 DEF TryAgain, Go, approvalVars
<1> HIDE DEF Read
<1>10. clock' \in {clock, clock + 1} /\ \A a \in Approvers : Read(a)
  <2>1. CASE Tick
    BY <1>2, <2>1 DEF Tick, Read
  <2>2. CASE UNCHANGED vars
    BY <1>1, <2>2 DEF vars, Read
  <2> QED
    BY <1>3, <1>4, <1>5, <1>7, <1>8, <1>9, <2>1, <2>2 DEF Next
<1> QED
  BY <1>10 DEF Read

\* A step brings only rows of the feed, and what an approval under way has reviewed.
LEMMA NewRowsAreFedOrReviewed ==
  ASSUME IInv, ImportInv, [Next]_vars
  PROVE  \A r \in rows' \ rows :
           \/ r \in Feed
           \/ \E a \in Approvers : pc[a] = "inserting" /\ r.known = review[a].time
<1>1. CASE UNCHANGED dbVars
  BY <1>1 DEF dbVars
<1>2. ASSUME NEW a \in Approvers, CommitApproval(a)
      PROVE  \A r \in rows' \ rows : pc[a] = "inserting" /\ r.known = review[a].time
  BY <1>2 DEF CommitApproval, dbVars, ReviewedRow
<1>3. ASSUME NEW i \in Importers, SaveBatch(i)
      PROVE  \A r \in rows' \ rows : r \in Feed
  BY <1>3 DEF SaveBatch, IInv, TypeOK
<1>4. \/ UNCHANGED dbVars
      \/ \E a \in Approvers : CommitApproval(a)
      \/ \E i \in Importers : SaveBatch(i)
  BY DEF Next, Tick, StartReview, ChooseRevision, AbandonApproval, Ingest, AbandonImport,
         TryAgain, vars, dbVars
<1> QED
  BY <1>1, <1>2, <1>3, <1>4

\* What review had told by a time is final once the approvals that had read their clocks
\* by then are answered.
THEOREM PastIsFinalCorrect == Spec => PastIsFinal
<1>1. IInv /\ ImportInv /\ [Next]_vars =>
        [\A T \in Times : Settled(T) =>
           Settled(T)' /\ ReviewedBy(rows', T) = ReviewedBy(rows, T)]_vars
  <2> SUFFICES ASSUME IInv, ImportInv, [Next]_vars, NEW T \in Times, Settled(T)
               PROVE  Settled(T)' /\ ReviewedBy(rows', T) = ReviewedBy(rows, T)
    OBVIOUS
  <2>1. T \in Int /\ clock \in Int /\ T < clock
    BY DEF Times, IInv, TypeOK, Settled
  <2>2. \A a \in Approvers : pc[a] \in {"reviewed", "inserting"} =>
          review[a].time \in Int /\ review[a].time > T
    BY DEF IInv, ApprovalIsCurrent, Review, Times, Settled
  <2>3. T < clock'
    BY <2>1, ClockIsReadOnce
  <2>4. \A a \in Approvers : pc'[a] \in {"reviewed", "inserting"} => review'[a].time > T
    BY <2>1, <2>2, ClockIsReadOnce
  <2>5. Settled(T)'
    BY <2>3, <2>4 DEF Settled
  <2>6. \A r \in rows' \ rows : r.event \in Reviewed => ~(r.known <= T)
    BY <2>1, <2>2, NewRowsAreFedOrReviewed, FeedIsNotReviewed
  <2>7. ReviewedBy(rows', T) = ReviewedBy(rows, T)
    BY <2>6, RowsGrow DEF ReviewedBy
  <2> QED
    BY <2>5, <2>7
<1> QED
  BY Invariance, <1>1, PTL DEF Spec, PastIsFinal

(***************************************************************************)
(* Every step is one of the ledger's, or none.                             *)
(***************************************************************************)

StatusMap == [x \in Requests |-> StatusOf(pc[x])]
AskedMap == [a \in Approvers |-> UnderReview(a)]

\* A request that moves in the code moves in the ledger, and the others rest.
LEMMA OneTurns ==
  ASSUME pc \in [Requests -> Steps], NEW x \in Requests, NEW step \in Steps, Go(x, step)
  PROVE  /\ StatusMap[x] = StatusOf(pc[x])
         /\ StatusMap' = [StatusMap EXCEPT ![x] = StatusOf(step)]
  BY DEF Go, StatusMap

\* An approval that is answered asks for nothing more.
LEMMA AskedIsAnswered ==
  ASSUME pc \in [Requests -> Steps], review \in [Approvers -> Review \cup {NoReview}],
         NEW a \in Approvers, Approved(a, "idle")
  PROVE  AskedMap' = [AskedMap EXCEPT ![a] = {}]
<1>1. \A b \in Approvers : b \in Requests
  BY DEF Requests
<1>2. pc' = [pc EXCEPT ![a] = "idle"] /\ review' = [review EXCEPT ![a] = NoReview]
  BY DEF Approved, Go
<1>3. ASSUME NEW b \in Approvers PROVE UnderReview(b)' = IF b = a THEN {} ELSE UnderReview(b)
  BY <1>1, <1>2 DEF UnderReview, StatusOf
<1> QED
  BY <1>3 DEF AskedMap

LEMMA AskedStays ==
  ASSUME review' = review, \A a \in Approvers : StatusOf(pc[a])' = StatusOf(pc[a])
  PROVE  AskedMap' = AskedMap
  BY DEF AskedMap, UnderReview

\* A step of an ingestion asks for no approval.
LEMMA ImportAsksNothing ==
  ASSUME pc \in [Requests -> Steps], NEW i \in Importers, NEW step, Go(i, step), review' = review
  PROVE  AskedMap' = AskedMap
  BY AskedStays, RequestsAreDisjoint DEF Go

\* The number an approval has chosen is the first that is free.
LEMMA ChosenIsFirstFree ==
  ASSUME IInv, NEW a \in Approvers, pc[a] = "inserting"
  PROVE  Ledger!FirstFree(review[a].evidence.event, next[a])
<1> DEFINE event == review[a].evidence.event
<1>1. review[a] \in Review /\ next[a] = NextRevision(a)
  BY DEF IInv, ApprovalIsCurrent
<1>2. event \in Reviewed
  BY <1>1 DEF Review, Reviewed
<1>3. PICK n \in Nat : RevisionsOf(event) = 1..n /\ NextRevision(a) = n + 1
  BY <1>2, NextIsSuccessor DEF IInv
<1>4. Ledger!Taken(event) = RevisionsOf(event)
  BY DEF Ledger!Taken, RevisionsOf
<1> QED
  BY <1>1, <1>3, <1>4 DEF Ledger!FirstFree

\* What is left of a batch fits what is stored, so the whole batch does.
LEMMA BatchFits ==
  ASSUME IInv, ImportInv, NEW i \in Importers,
         ~\E r \in fresh[i] : \E q \in rows : SameKey(r, q), batch[i] \ fresh[i] \subseteq rows
  PROVE  Ledger!Fits(batch[i])
<1>1. \A r, q \in fresh[i] \cup rows : SameKey(r, q) => r = q
  <2>1. \A r, q \in rows : SameKey(r, q) => r = q
    BY DEF IInv, Numbered
  <2>2. \A r, q \in fresh[i] : SameKey(r, q) => r = q
    BY DEF ImportInv
  <2> QED
    BY <2>1, <2>2 DEF SameKey
<1> QED
  BY <1>1 DEF Ledger!Fits, SameKey

LEMMA ApprovalTakesTurns ==
  ASSUME IInv, NEW a \in Approvers,
         \/ \E e \in Evidence : StartReview(a, e)
         \/ ChooseRevision(a) \/ CommitApproval(a) \/ AbandonApproval(a)
  PROVE  \/ Ledger!Ask(a) \/ Ledger!Record(a) \/ Ledger!Dismiss(a)
         \/ UNCHANGED <<rows, approvals, StatusMap, AskedMap, batch>>
<1>0. /\ pc \in [Requests -> Steps] /\ a \in Requests
      /\ review \in [Approvers -> Review \cup {NoReview}]
      /\ \A b \in Approvers : b \in Requests
      /\ "idle" \in Steps /\ "inserting" \in Steps /\ "reviewed" \in Steps
  BY DEF IInv, TypeOK, Requests, Steps
<1>1. ASSUME Approved(a, "idle"), UNCHANGED dbVars, UNCHANGED importVars,
             pc[a] \in {"reviewed", "inserting"}
      PROVE  Ledger!Dismiss(a)
  <2>1. Go(a, "idle")
    BY <1>1 DEF Approved
  <2>2. StatusMap[a] = "busy" /\ StatusMap' = [StatusMap EXCEPT ![a] = "idle"]
    BY <1>0, <1>1, <2>1, OneTurns DEF StatusOf
  <2>3. AskedMap' = [AskedMap EXCEPT ![a] = {}]
    BY <1>0, <1>1, AskedIsAnswered
  <2> QED
    BY <1>1, <2>2, <2>3
    DEF Ledger!Dismiss, Ledger!Turns, StatusMap, AskedMap, dbVars, importVars
<1>2. ASSUME NEW e \in Evidence, StartReview(a, e) PROVE Ledger!Ask(a)
  <2>1. /\ pc[a] = "idle" /\ Go(a, "reviewed") /\ UNCHANGED dbVars /\ UNCHANGED importVars
        /\ review' = [review EXCEPT ![a] = [evidence |-> e, time |-> clock]]
    BY <1>2 DEF StartReview
  <2>2. StatusMap[a] = "idle" /\ StatusMap' = [StatusMap EXCEPT ![a] = "busy"]
    BY <1>0, <2>1, OneTurns DEF StatusOf
  <2>3. ASSUME NEW b \in Approvers PROVE UnderReview(b)' = IF b = a THEN {e} ELSE UnderReview(b)
    BY <1>0, <2>1 DEF UnderReview, StatusOf, Go
  <2>4. AskedMap' = [AskedMap EXCEPT ![a] = {e}]
    BY <2>3 DEF AskedMap
  <2> QED
    BY <2>1, <2>2, <2>4
    DEF Ledger!Ask, Ledger!Turns, StatusMap, AskedMap, dbVars, importVars
<1>3. CASE ChooseRevision(a)
  <2>1. CASE OnRecord(a)
    BY <1>1, <1>3, <2>1 DEF ChooseRevision
  <2>2. CASE ~OnRecord(a)
    <3>1. /\ pc[a] = "reviewed" /\ Go(a, "inserting") /\ review' = review
          /\ UNCHANGED dbVars /\ UNCHANGED importVars
      BY <1>3, <2>2 DEF ChooseRevision
    <3>2. \A x \in Requests : StatusOf(pc[x])' = StatusOf(pc[x])
      BY <1>0, <3>1 DEF Go, StatusOf
    <3>3. StatusMap' = StatusMap /\ AskedMap' = AskedMap
      BY <1>0, <3>1, <3>2, AskedStays DEF StatusMap
    <3> QED
      BY <3>1, <3>3 DEF dbVars, importVars
  <2> QED
    BY <2>1, <2>2
<1>4. CASE AbandonApproval(a)
  BY <1>1, <1>4 DEF AbandonApproval
<1>5. CASE CommitApproval(a)
  <2> DEFINE e == review[a].evidence
             row == ReviewedRow(a)
  <2>1. pc[a] = "inserting" /\ review[a] \in Review
    BY <1>5 DEF CommitApproval, IInv, ApprovalIsCurrent
  <2>2. /\ rows' = rows \cup {row}
        /\ approvals' = approvals \cup {[evidence |-> e, row |-> row]}
        /\ Approved(a, "idle") /\ UNCHANGED importVars
    BY <1>5, <2>1, ReviewedRowIsNew DEF CommitApproval
  <2>3. Go(a, "idle")
    BY <2>2 DEF Approved
  <2>4. StatusMap[a] = "busy" /\ StatusMap' = [StatusMap EXCEPT ![a] = "idle"]
    BY <1>0, <2>1, <2>3, OneTurns DEF StatusOf
  <2>5. AskedMap' = [AskedMap EXCEPT ![a] = {}] /\ e \in AskedMap[a]
    BY <1>0, <2>1, <2>2, AskedIsAnswered DEF AskedMap, UnderReview, StatusOf
  <2>6. \A p \in approvals : p.evidence # e
    BY <2>1, ReviewedRowIsNew DEF OnRecord
  <2>7. /\ row.event = e.event /\ row.revision = next[a]
        /\ row.effective = e.effective /\ row.factor = e.factor /\ row.status = "confirmed"
        /\ row.known \in Times
    BY <2>1 DEF ReviewedRow, Review
  <2>8. Ledger!FirstFree(e.event, row.revision)
    BY <2>1, <2>7, ChosenIsFirstFree
  <2>9. row \in rows'
    BY <2>2
  <2> HIDE DEF row, e
  <2> QED
    BY <2>2, <2>4, <2>5, <2>6, <2>7, <2>8, <2>9
    DEF Ledger!Record, Ledger!Turns, StatusMap, AskedMap, importVars
<1> QED
  BY <1>2, <1>3, <1>4, <1>5

LEMMA ImportTakesTurns ==
  ASSUME IInv, ImportInv, NEW i \in Importers,
         (\E b \in Batches : Ingest(i, b)) \/ SaveBatch(i) \/ AbandonImport(i)
  PROVE  Ledger!Take(i) \/ Ledger!Store(i) \/ Ledger!Refuse(i)
<1>0. /\ pc \in [Requests -> Steps] /\ i \in Requests
      /\ "idle" \in Steps /\ "saving" \in Steps /\ "failed" \in Steps
  BY DEF ImportInv, Requests, Steps
<1>1. ASSUME Imported(i, "failed"), UNCHANGED dbVars, UNCHANGED approvalVars,
             pc[i] \in {"idle", "saving"}
      PROVE  Ledger!Refuse(i)
  <2>1. Go(i, "failed") /\ batch' = [batch EXCEPT ![i] = {}] /\ review' = review
    BY <1>1 DEF Imported, approvalVars
  <2>2. StatusMap[i] \in {"idle", "busy"} /\ StatusMap' = [StatusMap EXCEPT ![i] = "failed"]
    BY <1>0, <1>1, <2>1, OneTurns DEF StatusOf
  <2>3. AskedMap' = AskedMap
    BY <1>0, <2>1, ImportAsksNothing
  <2> QED
    BY <1>1, <2>1, <2>2, <2>3 DEF Ledger!Refuse, Ledger!Turns, StatusMap, AskedMap, dbVars
<1>2. ASSUME NEW b \in Batches, Ingest(i, b) PROVE Ledger!Take(i) \/ Ledger!Refuse(i)
  <2>1. pc[i] = "idle" /\ UNCHANGED dbVars /\ UNCHANGED approvalVars /\ b \in SUBSET Feed
    BY <1>2 DEF Ingest, Batches
  <2>2. CASE Imported(i, "failed")
    BY <1>1, <2>1, <2>2
  <2>3. CASE Go(i, "saving") /\ batch' = [batch EXCEPT ![i] = b]
    <3>1. StatusMap[i] = "idle" /\ StatusMap' = [StatusMap EXCEPT ![i] = "busy"]
      BY <1>0, <2>1, <2>3, OneTurns DEF StatusOf
    <3>2. AskedMap' = AskedMap
      BY <1>0, <2>1, <2>3, ImportAsksNothing DEF approvalVars
    <3> QED
      BY <2>1, <2>3, <3>1, <3>2 DEF Ledger!Take, Ledger!Turns, StatusMap, AskedMap, dbVars
  <2> QED
    BY <1>2, <2>2, <2>3, IngestOutcome
<1>3. CASE AbandonImport(i)
  BY <1>1, <1>3 DEF AbandonImport
<1>4. CASE SaveBatch(i)
  <2>1. pc[i] = "saving" /\ approvals' = approvals /\ UNCHANGED approvalVars
    BY <1>4 DEF SaveBatch
  <2>2. CASE \E r \in fresh[i] : \E q \in rows : SameKey(r, q)
    BY <1>1, <1>4, <2>1, <2>2 DEF SaveBatch, dbVars
  <2>3. CASE ~\E r \in fresh[i] : \E q \in rows : SameKey(r, q)
    <3>1. Imported(i, "idle") /\ rows' = rows \cup fresh[i]
      BY <1>4, <2>3 DEF SaveBatch
    <3>2. Go(i, "idle") /\ batch' = [batch EXCEPT ![i] = {}] /\ review' = review
      BY <2>1, <3>1 DEF Imported, approvalVars
    <3>3. StatusMap[i] = "busy" /\ StatusMap' = [StatusMap EXCEPT ![i] = "idle"]
      BY <1>0, <2>1, <3>2, OneTurns DEF StatusOf
    <3>4. AskedMap' = AskedMap
      BY <1>0, <3>2, ImportAsksNothing
    <3>5. batch[i] \ fresh[i] \subseteq rows /\ fresh[i] \subseteq batch[i]
      BY <2>1 DEF ImportInv
    <3>6. rows' = rows \cup batch[i] /\ Ledger!Fits(batch[i])
      BY <2>3, <3>1, <3>5, BatchFits
    <3> QED
      BY <2>1, <3>2, <3>3, <3>4, <3>6 DEF Ledger!Store, Ledger!Turns, StatusMap, AskedMap
  <2> QED
    BY <2>2, <2>3
<1> QED
  BY <1>2, <1>3, <1>4

LEMMA LedgerStep ==
  ASSUME IInv, ImportInv, [Next]_vars
  PROVE  [Ledger!LedgerNext]_(Ledger!ledgerVars)
<1> DEFINE Rests == UNCHANGED <<rows, approvals, StatusMap, AskedMap, batch>>
<1>1. ASSUME Tick \/ UNCHANGED vars PROVE Rests
  <2>1. pc' = pc /\ review' = review /\ UNCHANGED <<rows, approvals, batch>>
    BY <1>1 DEF Tick, vars, dbVars, approvalVars, importVars
  <2>2. StatusMap' = StatusMap
    BY <2>1 DEF StatusMap, StatusOf
  <2>3. AskedMap' = AskedMap
    BY <2>1 DEF AskedMap, UnderReview, StatusOf
  <2> QED
    BY <2>1, <2>2, <2>3
<1>2. ASSUME NEW x \in Requests, TryAgain(x)
      PROVE  \E i \in Importers : Ledger!Recover(i)
  <2>1. pc[x] = "failed" /\ Go(x, "idle") /\ review' = review
        /\ UNCHANGED <<rows, approvals, batch>>
    BY <1>2 DEF TryAgain, dbVars, approvalVars, importVars
  <2>2. x \in Importers
    BY <2>1 DEF IInv, ApprovalIsCurrent, ApprovalsNeverCollide, Requests
  <2>3. pc \in [Requests -> Steps] /\ "idle" \in Steps
    BY DEF ImportInv, Steps
  <2>4. StatusMap[x] = "failed" /\ StatusMap' = [StatusMap EXCEPT ![x] = "idle"]
    BY <2>1, <2>3, OneTurns DEF StatusOf
  <2>5. AskedMap' = AskedMap
    BY <2>1, <2>2, <2>3, ImportAsksNothing
  <2> QED
    BY <2>1, <2>2, <2>4, <2>5 DEF Ledger!Recover, Ledger!Turns, StatusMap, AskedMap
<1>3. ASSUME NEW a \in Approvers,
             \/ \E e \in Evidence : StartReview(a, e)
             \/ ChooseRevision(a) \/ CommitApproval(a) \/ AbandonApproval(a)
      PROVE  Ledger!Ask(a) \/ Ledger!Record(a) \/ Ledger!Dismiss(a) \/ Rests
  BY <1>3, ApprovalTakesTurns
<1>4. ASSUME NEW i \in Importers,
             (\E b \in Batches : Ingest(i, b)) \/ SaveBatch(i) \/ AbandonImport(i)
      PROVE  Ledger!Take(i) \/ Ledger!Store(i) \/ Ledger!Refuse(i)
  BY <1>4, ImportTakesTurns
<1>5. Ledger!LedgerNext \/ Rests
  BY <1>1, <1>2, <1>3, <1>4 DEF Next, Ledger!LedgerNext
<1> QED
  BY <1>5 DEF Ledger!ledgerVars, StatusMap, AskedMap

\* Approvals and ingestions that overlap do what they would have done one after the
\* other: each takes effect as a whole on what is committed in that moment, or not.
THEOREM ImplementsLedger == Spec => KeepsALedger
<1>1. Init => Ledger!LedgerInit
  <2> SUFFICES ASSUME Init PROVE Ledger!LedgerInit
    OBVIOUS
  <2>1. \A x \in Requests : pc[x] = "idle" /\ StatusOf(pc[x]) = "idle"
    BY DEF Init, StatusOf
  <2>2. \A a \in Approvers : UnderReview(a) = {}
    BY <2>1 DEF UnderReview, Requests
  <2> QED
    BY <2>1, <2>2 DEF Init, Ledger!LedgerInit, Requests
<1>2. IInv /\ ImportInv /\ [Next]_vars => [Ledger!LedgerNext]_(Ledger!ledgerVars)
  BY LedgerStep
<1> QED
  BY <1>1, <1>2, Invariance, PTL DEF Spec, KeepsALedger, Ledger!LedgerSpec

\* An accepted backtest uses at each candle what was in force and known by then.
THEOREM CausalBacktests == Spec => []BacktestsAreCausal
<1>1. IInv => BacktestsAreCausal
  <2> SUFFICES ASSUME IInv, NEW T \in Times, Accepts(rows, T), NEW c \in 0..T
               PROVE  Accepts(rows, c) /\ AdjustForward(rows, T, c) = AdjustForward(rows, c, c)
    BY DEF BacktestsAreCausal
  <2>1. rows \in SUBSET Revision
    BY DEF IInv, TypeOK
  <2> QED
    BY <2>1, ViewIsCausal
<1> QED
  BY Invariance, <1>1, PTL

\* The accepted backtest view and the view for charts differ by one constant
\* factor over all candles, whatever is committed.
THEOREM OneStory == Spec => []ViewsAgree
<1>1. IInv /\ FiniteInv => ViewsAgree
  <2> SUFFICES ASSUME IInv, FiniteInv, NEW T \in Times, Accepts(rows, T), NEW c \in Times
               PROVE  AdjustedView(rows, T)[c] - BacktestView(rows, T)[c]
                      = AdjustedView(rows, T)[0] - BacktestView(rows, T)[0]
    BY DEF ViewsAgree
  <2>1. rows \in SUBSET Revision /\ IsFiniteSet(rows)
    BY DEF IInv, TypeOK, FiniteInv
  <2>2. 0 \in Times
    BY TimeAssumption DEF TimeAssumption, Times
  <2>3. \A d \in Times : AdjustedView(rows, T)[d] - BacktestView(rows, T)[d] = Total(Applied(rows, T))
    BY <2>1, ViewsDifferByTotal DEF AdjustedView, BacktestView
  <2> QED
    BY <2>2, <2>3
<1>2. Spec => []FiniteInv
  BY FiniteInit, FiniteStep, PTL DEF Spec
<1> QED
  BY Invariance, <1>1, <1>2, PTL

(***************************************************************************)
(* The review of candidates.                                               *)
(***************************************************************************)

\* What a fetch has read is what was filed, the names as far as its pages reach.
FetchIsSound(c) ==
  /\ \A d \in call[c].metadata : d.name = filings[d.receipt].name
  /\ \A d \in call[c].metadata : d.receipt <= MaxPages(c[2]) * PageSize
  /\ \A row \in call[c].rows :
       row.kind = filings[row.receipt].kind /\ row.anchor = filings[row.receipt].anchor

\* The members of a group share its key, and a name was on one of the preview's pages.
GroupIsSound(g) ==
  /\ \A r \in g.receipts : filings[r].kind = g.hint.kind /\ filings[r].anchor = g.hint.anchor
  /\ IF g.hint.name = NoName
     THEN g.receipts \subseteq {g.hint.alone}
     ELSE /\ g.hint.alone = 0
          /\ \A r \in g.receipts :
               filings[r].name = g.hint.name /\ r <= MaxPages("preview") * PageSize

Chosen(a) == {selection[a], sent[a]} \ {NothingSelected}

GroupsAreSound ==
  \A a \in Reviewers :
    /\ shown[a] # NoGroup => \A g \in shown[a] : GroupIsSound(g)
    /\ \A x \in Chosen(a) : GroupIsSound(x.group)

\* The pages and rows of the second fetch that have been read have all of the group sent.
FindsAgain(a) ==
  LET again == call[<<a, "approval">>] IN
  again.step # "idle" =>
    /\ sent[a] # NothingSelected
    /\ \A r \in sent[a].group.receipts :
         /\ \/ r <= (again.page - 1) * PageSize
            \/ again.step # "list" /\ r <= MaxPages("approval") * PageSize
            => \E d \in again.metadata : d.receipt = r
         /\ \/ again.step \in {"capital_reduction", "fetched"} /\ filings[r].kind = "bonus_issue"
            \/ again.step = "fetched"
            => \E row \in again.rows : row.receipt = r

ReviewInv ==
  /\ ReviewTypeOK
  /\ \A c \in Calls : FetchIsSound(c)
  /\ GroupsAreSound
  /\ \A a \in Reviewers : FindsAgain(a)
  /\ GroupsOnlyGrow

LEMMA ReviewTypes ==
  ASSUME ReviewTypeOK, NEW c \in Calls
  PROVE  /\ call[c] \in FetchState /\ c[2] \in Purposes
         /\ \A r \in Receipts : filings[r] \in Reports /\ filings[r].name \in Names \ {NoName}
         /\ \A r \in Receipts : filings[r].anchor \in Anchors
         /\ \A r \in Receipts : filings[r].valid \in BOOLEAN /\ filings[r].correction \in BOOLEAN
<1>1. \A r \in Receipts : filings[r] \in Reports
  BY DEF ReviewTypeOK, Receipts
<1> QED
  BY <1>1, ReviewAssumption DEF ReviewTypeOK, Calls, Names, Anchors

\* The number of pages of so many disclosures, and how far the two fetches read.
LEMMA PagesReach ==
  ASSUME NEW n \in Nat, NEW k \in {1, 2}, PagesOf(n) <= k
  PROVE  n <= k * PageSize
<1> DEFINE d == PageSize  a == n + PageSize - 1  q == a \div d
<1>1. d \in Nat \ {0} /\ a \in Nat
  BY ReviewAssumption
<1>2. q \in Nat /\ a < q * d + d
  BY <1>1
<1>3. q \in {0, 1, 2} /\ q <= k
  BY <1>2 DEF PagesOf
<1>4. n = a - d + 1
  BY <1>1
<1> HIDE DEF a, q, d
<1>5. a < k * d + d
  BY <1>1, <1>2, <1>3
<1>6. k * d \in Nat
  BY <1>1
<1> QED
  BY <1>1, <1>4, <1>5, <1>6 DEF d

LEMMA PagesGrow ==
  \A m, n \in Nat : m <= n => PagesOf(m) <= PagesOf(n) /\ PagesOf(n) \in Nat
<1> SUFFICES ASSUME NEW m \in Nat, NEW n \in Nat, m <= n
             PROVE  PagesOf(m) <= PagesOf(n) /\ PagesOf(n) \in Nat
  OBVIOUS
<1> DEFINE d == PageSize  a == m + PageSize - 1  b == n + PageSize - 1
           p == a \div d  q == b \div d
<1>1. d \in Nat \ {0} /\ a \in Nat /\ b \in Nat /\ a <= b
  BY ReviewAssumption
<1>2. p \in Nat /\ q \in Nat /\ p * d <= a /\ b < q * d + d
  BY <1>1
<1>3. PagesOf(m) = p /\ PagesOf(n) = q
  BY DEF PagesOf
<1> HIDE DEF a, b, d, p, q
<1>4. p <= q
  <2> SUFFICES ASSUME q + 1 <= p PROVE FALSE
    BY <1>2
  <2>1. (q + 1) * d <= p * d
    BY <1>1, <1>2
  <2>2. (q + 1) * d = q * d + d
    BY <1>1, <1>2
  <2>3. p * d \in Int /\ q * d \in Int
    BY <1>1, <1>2
  <2> QED
    BY <1>1, <1>2, <2>1, <2>2, <2>3
<1> QED
  BY <1>2, <1>3, <1>4

LEMMA ApprovalReachesFurther ==
  /\ \A purpose \in Purposes : MaxPages(purpose) \in {1, 2}
  /\ MaxPages("preview") * PageSize <= MaxPages("approval") * PageSize
<1>1. \A purpose \in Purposes : FetchLimit(purpose) \in Nat \ {0}
  BY ReviewAssumption DEF FetchLimit
<1>2. \A purpose \in Purposes : PagesOf(FetchLimit(purpose)) \in Nat
  BY <1>1, PagesGrow
<1>3. \A purpose \in Purposes : PagesOf(FetchLimit(purpose)) # 0
  <2> SUFFICES ASSUME NEW purpose \in Purposes, PagesOf(FetchLimit(purpose)) = 0 PROVE FALSE
    OBVIOUS
  <2> DEFINE n == FetchLimit(purpose)  d == PageSize
  <2>1. n \in Nat \ {0} /\ d \in Nat \ {0}
    BY <1>1, ReviewAssumption
  <2>2. (n + d - 1) \div d = 0
    BY DEF PagesOf
  <2> QED
    BY <2>1, <2>2
<1>4. \A purpose \in Purposes : MaxPages(purpose) \in {1, 2}
  BY <1>2, <1>3 DEF MaxPages
<1>5. PagesOf(FetchLimit("preview")) <= PagesOf(FetchLimit("approval"))
  BY <1>1, PagesGrow, ReviewAssumption DEF FetchLimit, Purposes
<1>6. MaxPages("preview") <= MaxPages("approval")
  BY <1>2, <1>5 DEF MaxPages, Purposes
<1> QED
  BY <1>4, <1>6, ReviewAssumption DEF Purposes

\* A candidate has the name that its report was filed with if the pages read have it,
\* and no name otherwise.
LEMMA CandidatesAreSound ==
  ASSUME ReviewTypeOK, NEW c \in Calls, FetchIsSound(c), NEW i \in CandidatesOf(c)
  PROVE  /\ i.row \in call[c].rows /\ i.row \in ReportedRow
         /\ i.row.kind = filings[i.row.receipt].kind
         /\ i.row.anchor = filings[i.row.receipt].anchor
         /\ IF i.name = NoName
            THEN \A d \in call[c].metadata : d.receipt # i.row.receipt
            ELSE /\ i.name = filings[i.row.receipt].name /\ i.name \in Names
                 /\ i.row.receipt <= MaxPages(c[2]) * PageSize
<1>1. PICK row \in call[c].rows : i = Candidate(call[c].metadata, row)
  BY DEF CandidatesOf
<1> DEFINE known == {d \in call[c].metadata : d.receipt = row.receipt}
<1>2. i.row = row /\ i.name = IF known = {} THEN NoName ELSE (CHOOSE d \in known : TRUE).name
  BY <1>1 DEF Candidate
<1>3. row \in ReportedRow /\ row.receipt \in Receipts
  BY ReviewTypes DEF FetchState, ReportedRow
<1>4. CASE known = {}
  BY <1>2, <1>3, <1>4 DEF FetchIsSound
<1>5. CASE known # {}
  <2>1. PICK d \in known : i.name = d.name
    BY <1>2, <1>5
  <2>2. d.name = filings[row.receipt].name /\ row.receipt <= MaxPages(c[2]) * PageSize
    BY <2>1 DEF FetchIsSound
  <2> QED
    BY <1>2, <1>3, <2>1, <2>2, ReviewTypes DEF FetchIsSound
<1> QED
  BY <1>4, <1>5

\* The groups of a fetch are groups of what was filed.
LEMMA GroupsType ==
  ASSUME ReviewTypeOK, NEW c \in Calls, FetchIsSound(c), NEW g \in Groups(CandidatesOf(c))
  PROVE  /\ g \in Group /\ \E i \in CandidatesOf(c) : Hint(i) = g.hint
         /\ \A r \in g.receipts : \E i \in CandidatesOf(c) : i.row.receipt = r /\ Hint(i) = g.hint
         /\ \A i \in CandidatesOf(c) : Hint(i) = g.hint => i.row.receipt \in g.receipts
<1> DEFINE Items(hint) == {i \in CandidatesOf(c) : Hint(i) = hint}
<1>1. PICK first \in CandidatesOf(c) :
        g = [hint |-> Hint(first), receipts |-> {i.row.receipt : i \in Items(Hint(first))},
             confidence |-> Confidence(Items(Hint(first)))]
  BY DEF Groups
<1>2. g.hint = Hint(first) /\ g.receipts = {i.row.receipt : i \in Items(Hint(first))}
  BY <1>1
<1>3. g.receipts \subseteq Receipts
  BY <1>2, CandidatesAreSound DEF ReportedRow
<1>4. g.hint \in [kind : CandidateKinds, anchor : Anchors, name : Names \cup {NoName},
                  alone : {0} \cup Receipts]
  <2>1. first.row \in ReportedRow /\ first.name \in Names \cup {NoName}
    BY CandidatesAreSound
  <2> QED
    BY <1>2, <2>1 DEF Hint, ReportedRow
<1>5. Confidence(Items(Hint(first)))
        \in {"isolated", "likely_correction", "ambiguous_multiple_receipts"}
  BY DEF Confidence
<1>6. g \in Group
  BY <1>1, <1>2, <1>3, <1>4, <1>5 DEF Group
<1> QED
  BY <1>2, <1>6

LEMMA GroupsAreFiled ==
  ASSUME ReviewTypeOK, NEW c \in Calls, c[2] = "preview", FetchIsSound(c),
         NEW g \in Groups(CandidatesOf(c))
  PROVE  GroupIsSound(g)
<1>1. ASSUME NEW r \in g.receipts
      PROVE  /\ filings[r].kind = g.hint.kind /\ filings[r].anchor = g.hint.anchor
             /\ g.hint.name = NoName => r = g.hint.alone
             /\ g.hint.name # NoName =>
                  /\ g.hint.alone = 0 /\ filings[r].name = g.hint.name
                  /\ r <= MaxPages("preview") * PageSize
  <2>1. PICK i \in CandidatesOf(c) : i.row.receipt = r /\ Hint(i) = g.hint
    BY <1>1, GroupsType
  <2>2. /\ g.hint.kind = i.row.kind /\ g.hint.anchor = i.row.anchor /\ g.hint.name = i.name
        /\ g.hint.alone = IF i.name = NoName THEN i.row.receipt ELSE 0
    BY <2>1 DEF Hint
  <2> QED
    BY <2>1, <2>2, CandidatesAreSound
<1>2. \E i \in CandidatesOf(c) : Hint(i) = g.hint
  BY GroupsType
<1>3. g.hint.name # NoName => g.hint.alone = 0
  BY <1>2 DEF Hint
<1> QED
  BY <1>1, <1>3 DEF GroupIsSound

\* What is filed stays, so that types only grow and what is sound stays so.
LEMMA FiledStays ==
  ASSUME ReviewTypeOK, File \/ UNCHANGED filings
  PROVE  /\ filings' \in Seq(Reports) /\ Len(filings') <= MaxFilings
         /\ Receipts \subseteq Receipts' /\ \A r \in Receipts : filings'[r] = filings[r]
         /\ FetchState \subseteq FetchState' /\ Group \subseteq Group' /\ Choice \subseteq Choice'
<1>1. /\ filings' \in Seq(Reports) /\ Len(filings') <= MaxFilings
      /\ Receipts \subseteq Receipts' /\ \A r \in Receipts : filings'[r] = filings[r]
  <2>1. CASE UNCHANGED filings
    BY <2>1 DEF ReviewTypeOK, Receipts
  <2>2. CASE File
    <3>1. PICK r \in Reports : filings' = Append(filings, r)
      BY <2>2 DEF File
    <3>2. Len(filings) \in Nat /\ Len(filings') = Len(filings) + 1 /\ filings' \in Seq(Reports)
      BY <3>1 DEF ReviewTypeOK
    <3>3. Len(filings) < MaxFilings
      BY <2>2 DEF File
    <3>4. \A n \in 1 .. Len(filings) : filings'[n] = filings[n]
      BY <3>1 DEF ReviewTypeOK
    <3> QED
      BY <3>2, <3>3, <3>4, ReviewAssumption DEF Receipts
  <2> QED
    BY <2>1, <2>2
<1>2. FetchState \subseteq FetchState'
  <2>1. Disclosure \subseteq Disclosure' /\ ReportedRow \subseteq ReportedRow'
    BY <1>1 DEF Disclosure, ReportedRow
  <2> QED
    BY <2>1 DEF FetchState
<1>3. Group \subseteq Group'
  BY <1>1 DEF Group
<1>4. Choice \subseteq Choice'
  BY <1>1, <1>3 DEF Choice
<1> QED
  BY <1>1, <1>2, <1>3, <1>4

LEMMA SoundStays ==
  ASSUME ReviewTypeOK, File \/ UNCHANGED filings
  PROVE  /\ \A g \in Group : GroupIsSound(g) => GroupIsSound(g)'
         /\ \A c \in Calls : call'[c] = call[c] /\ FetchIsSound(c) => FetchIsSound(c)'
<1>1. \A g \in Group : GroupIsSound(g) => GroupIsSound(g)'
  BY FiledStays DEF GroupIsSound, Group
<1>2. ASSUME NEW c \in Calls, call'[c] = call[c], FetchIsSound(c)
      PROVE  FetchIsSound(c)'
  <2>1. call[c] \in FetchState
    BY ReviewTypes
  <2>2. /\ \A d \in call[c].metadata : d.receipt \in Receipts
        /\ \A row \in call[c].rows : row.receipt \in Receipts
    BY <2>1 DEF FetchState, Disclosure, ReportedRow
  <2> QED
    BY <1>2, <2>2, FiledStays DEF FetchIsSound
<1> QED
  BY <1>1, <1>2

\* A page of the list adds what it says of its receipts, the rows of a kind their reports.
LEMMA PageIsRead ==
  ASSUME ReviewTypeOK, NEW c \in Calls, ReadPage(c)
  PROVE  /\ call[c].step = "list" /\ UNCHANGED <<filings, shown, selection, sent, approved>>
         /\ call' = [call EXCEPT ![c] = call'[c]] /\ call'[c] \in FetchState
         /\ call'[c].metadata = call[c].metadata \cup {Disclosed(r) : r \in Page(call[c].page)}
         /\ call'[c].rows = call[c].rows
         /\ IF MorePages(c) THEN call'[c].page = call[c].page + 1 /\ call'[c].step = "list"
            ELSE call'[c].page = call[c].page /\ call'[c].step = "bonus_issue"
<1>1. call[c] \in FetchState /\ call \in [Calls -> FetchState]
  BY ReviewTypes DEF ReviewTypeOK
<1>2. \A r \in Page(call[c].page) : Disclosed(r) \in Disclosure
  BY ReviewTypes DEF Page, Receipts, Disclosed, Disclosure, Superseded
<1>3. Endpoints[1] = "bonus_issue"
  BY DEF Endpoints
<1> DEFINE new == {Disclosed(r) : r \in Page(call[c].page)}
           page == IF MorePages(c) THEN call[c].page + 1 ELSE call[c].page
           step == IF MorePages(c) THEN "list" ELSE "bonus_issue"
<1>4. call' = [call EXCEPT ![c] =
         [call[c] EXCEPT !.metadata = @ \cup new, !.page = page, !.step = step]]
  BY <1>3 DEF ReadPage, SetCall
<1>5. new \in SUBSET Disclosure
  BY <1>2
<1>6. page \in Nat /\ step \in {"list", "bonus_issue"}
  BY <1>1 DEF FetchState
<1> HIDE DEF new, page, step
<1>7. /\ call'[c] = [call[c] EXCEPT !.metadata = @ \cup new, !.page = page, !.step = step]
      /\ call' = [call EXCEPT ![c] = call'[c]]
  BY <1>1, <1>4
<1>8. /\ call'[c] \in FetchState /\ call'[c].metadata = call[c].metadata \cup new
      /\ call'[c].rows = call[c].rows /\ call'[c].page = page /\ call'[c].step = step
  <2> DEFINE f == call[c]
             g == [f EXCEPT !.metadata = @ \cup new, !.page = page, !.step = step]
  <2>1. f \in FetchState /\ call'[c] = g
    BY <1>1, <1>7
  <2> HIDE DEF f
  <2>2. /\ g \in FetchState /\ g.metadata = f.metadata \cup new /\ g.rows = f.rows
        /\ g.page = page /\ g.step = step
    BY <1>5, <1>6, <2>1 DEF FetchState, CandidateKinds
  <2> QED
    BY <2>1, <2>2 DEF f
<1>9. /\ call[c].step = "list" /\ UNCHANGED <<filings, shown, selection, sent, approved>>
  BY DEF ReadPage
<1>10. new = {Disclosed(r) : r \in Page(call[c].page)}
  BY DEF new
<1>11. IF MorePages(c) THEN page = call[c].page + 1 /\ step = "list"
       ELSE page = call[c].page /\ step = "bonus_issue"
  BY DEF page, step
<1> QED
  BY <1>7, <1>8, <1>9, <1>10, <1>11

LEMMA RowsAreRead ==
  ASSUME ReviewTypeOK, NEW c \in Calls, ReadRows(c)
  PROVE  /\ UNCHANGED <<filings, shown, selection, sent, approved>>
         /\ call' = [call EXCEPT ![c] = call'[c]] /\ call'[c] \in FetchState
         /\ call'[c].metadata = call[c].metadata /\ call'[c].page = call[c].page
         /\ \/ call[c].step = "bonus_issue" /\ call'[c].step = "capital_reduction"
            \/ call[c].step = "capital_reduction" /\ call'[c].step = "fetched"
         /\ call[c].rows \subseteq call'[c].rows
         /\ \A row \in call'[c].rows \ call[c].rows :
              row.kind = filings[row.receipt].kind /\ row.anchor = filings[row.receipt].anchor
         /\ \A r \in Receipts : filings[r].kind = call[c].step =>
              \E row \in call'[c].rows : row.receipt = r
<1>1. call[c] \in FetchState /\ call \in [Calls -> FetchState]
  BY ReviewTypes DEF ReviewTypeOK
<1> DEFINE Reported(k) ==
      {[receipt |-> r, kind |-> filings[r].kind, anchor |-> filings[r].anchor,
        valid |-> filings[r].valid] :
         r \in {n \in 1 .. Len(filings) : filings[n].kind = Endpoints[k]}}
<1>2. PICK k \in 1 .. Len(Endpoints) :
        /\ call[c].step = Endpoints[k]
        /\ SetCall(c, [call[c] EXCEPT !.rows = @ \cup Reported(k),
                                      !.step = IF k < Len(Endpoints) THEN Endpoints[k + 1] ELSE "fetched"])
        /\ UNCHANGED <<filings, shown, selection, sent, approved>>
  BY DEF ReadRows
<1>3. /\ Len(Endpoints) = 2 /\ Endpoints[1] = "bonus_issue" /\ Endpoints[2] = "capital_reduction"
  BY DEF Endpoints
<1>4. k \in {1, 2} /\ Endpoints[k] \in CandidateKinds
  BY <1>3 DEF CandidateKinds
<1>5. \A row \in Reported(k) :
        /\ row \in ReportedRow
        /\ row.kind = filings[row.receipt].kind /\ row.anchor = filings[row.receipt].anchor
  BY <1>4, ReviewTypes DEF Receipts, ReportedRow
<1>6. ASSUME NEW r \in Receipts, filings[r].kind = Endpoints[k]
      PROVE  \E row \in Reported(k) : row.receipt = r
  <2> DEFINE row == [receipt |-> r, kind |-> filings[r].kind, anchor |-> filings[r].anchor,
                     valid |-> filings[r].valid]
  <2>1. row \in Reported(k)
    BY <1>6 DEF Receipts
  <2> QED
    BY <2>1
<1> DEFINE new == Reported(k)
           step == IF k = 1 THEN "capital_reduction" ELSE "fetched"
<1>7. (IF k < Len(Endpoints) THEN Endpoints[k + 1] ELSE "fetched") = step
  BY <1>3, <1>4
<1>8. SetCall(c, [call[c] EXCEPT !.rows = @ \cup new, !.step = step])
  BY <1>2, <1>7
<1>9. call' = [call EXCEPT ![c] = [call[c] EXCEPT !.rows = @ \cup new, !.step = step]]
  BY <1>8 DEF SetCall
<1>10. new \in SUBSET ReportedRow
  BY <1>5
<1>11. step \in {"capital_reduction", "fetched"}
  OBVIOUS
<1> HIDE DEF Reported, new, step
<1>12. /\ call'[c] = [call[c] EXCEPT !.rows = @ \cup new, !.step = step]
      /\ call' = [call EXCEPT ![c] = call'[c]]
  BY <1>1, <1>9
<1>13. /\ call'[c] \in FetchState /\ call'[c].rows = call[c].rows \cup new
       /\ call'[c].metadata = call[c].metadata /\ call'[c].page = call[c].page
       /\ call'[c].step = step
  <2> DEFINE f == call[c]
             g == [f EXCEPT !.rows = @ \cup new, !.step = step]
  <2>1. f \in FetchState /\ call'[c] = g
    BY <1>1, <1>12
  <2> HIDE DEF f
  <2>2. /\ g \in FetchState /\ g.rows = f.rows \cup new
        /\ g.metadata = f.metadata /\ g.page = f.page /\ g.step = step
    BY <1>10, <1>11, <2>1 DEF FetchState, CandidateKinds
  <2> QED
    BY <2>1, <2>2 DEF f
<1>14. /\ \A row \in new :
             row.kind = filings[row.receipt].kind /\ row.anchor = filings[row.receipt].anchor
       /\ \A r \in Receipts : filings[r].kind = Endpoints[k] => \E row \in new : row.receipt = r
  BY <1>5, <1>6 DEF new
<1> QED
  BY <1>2, <1>3, <1>4, <1>12, <1>13, <1>14 DEF step

\* What the other actions make of the fetches
LEMMA CallIsSet ==
  ASSUME ReviewTypeOK, NEW c \in Calls, NEW record \in FetchState, SetCall(c, record)
  PROVE  /\ call' \in [Calls -> FetchState] /\ call'[c] = record
         /\ \A d \in Calls \ {c} : call'[d] = call[d]
  BY DEF ReviewTypeOK, SetCall

LEMMA IdleFetches ==
  /\ IdleFetch \in FetchState /\ IdleFetch.page = 1 /\ IdleFetch.step = "idle"
  /\ IdleFetch.metadata = {} /\ IdleFetch.rows = {}
  /\ LET begun == [IdleFetch EXCEPT !.step = "list"]
     IN  /\ begun \in FetchState /\ begun.page = 1 /\ begun.step = "list"
         /\ begun.metadata = {} /\ begun.rows = {}
  BY DEF IdleFetch, FetchState

\* The actions that end a fetch, and those that begin one
Ends(c) == SetCall(c, IdleFetch)
Begins(c) == SetCall(c, [IdleFetch EXCEPT !.step = "list"])

\* Each step leaves the fetches alone, reads for one of them, ends or begins one.
LEMMA FetchSteps ==
  ASSUME ReviewNext
  PROVE  \/ UNCHANGED call
         \/ \E c \in Calls : ReadPage(c) \/ ReadRows(c) \/ Ends(c) \/ Begins(c)
<1> USE DEF Ends, Begins, Calls, Purposes
<1>1. CASE File
  BY <1>1 DEF File
<1>2. ASSUME NEW c \in Calls, ReadPage(c) \/ ReadRows(c) \/ FailFetch(c)
      PROVE  \E d \in Calls : ReadPage(d) \/ ReadRows(d) \/ Ends(d)
  BY <1>2 DEF FailFetch
<1>3. ASSUME NEW a \in Reviewers, StartPreview(a) \/ ShowPreview(a)
      PROVE  Begins(<<a, "preview">>) \/ Ends(<<a, "preview">>)
  BY <1>3 DEF StartPreview, ShowPreview
<1>4. ASSUME NEW a \in Reviewers, StartApproval(a) \/ RefuseApproval(a) \/ Approve(a)
      PROVE  Begins(<<a, "approval">>) \/ Ends(<<a, "approval">>)
  BY <1>4 DEF StartApproval, RefuseApproval, Approve
<1>5. ASSUME NEW a \in Reviewers, SelectReceipt(a) \/ CloseGroup(a)
      PROVE  UNCHANGED call
  BY <1>5 DEF SelectReceipt, CloseGroup
<1>6. \A a \in Reviewers : <<a, "preview">> \in Calls /\ <<a, "approval">> \in Calls
  OBVIOUS
<1> HIDE DEF Ends, Begins, Calls, Purposes
<1> QED
  BY <1>1, <1>2, <1>3, <1>4, <1>5, <1>6 DEF ReviewNext

\* Only companies file, and nobody files during another step.
LEMMA FilingSteps ==
  ASSUME ReviewNext
  PROVE  \/ File /\ UNCHANGED call
         \/ UNCHANGED filings
  BY DEF ReviewNext, File, ReadPage, ReadRows, FailFetch, StartPreview, ShowPreview, SelectReceipt, CloseGroup,
         StartApproval, RefuseApproval, Approve

LEMMA FetchTypeStep ==
  ASSUME ReviewTypeOK, ReviewNext
  PROVE  /\ call' \in [Calls -> FetchState]
         /\ \A c \in Calls : call'[c].page \in 1 .. MaxPages(c[2])
<1>1. CASE UNCHANGED call
  BY <1>1 DEF ReviewTypeOK
<1>2. ASSUME NEW c \in Calls, ReadPage(c)
      PROVE  /\ call' \in [Calls -> FetchState]
             /\ \A d \in Calls : call'[d].page \in 1 .. MaxPages(d[2])
  <2>1. call'[c].page \in 1 .. MaxPages(c[2])
    <3>1. call[c].page \in 1 .. MaxPages(c[2]) /\ MaxPages(c[2]) \in {1, 2}
      BY ReviewTypes, ApprovalReachesFurther DEF ReviewTypeOK
    <3>2. CASE MorePages(c)
      <4>1. call'[c].page = call[c].page + 1
        BY <1>2, <3>2, PageIsRead
      <4>2. call[c].page < MaxPages(c[2])
        BY <3>2 DEF MorePages
      <4> QED
        BY <3>1, <4>1, <4>2
    <3>3. CASE ~MorePages(c)
      <4>1. call'[c].page = call[c].page
        BY <1>2, <3>3, PageIsRead
      <4> QED
        BY <3>1, <4>1
    <3> QED
      BY <3>2, <3>3
  <2>2. /\ call' = [call EXCEPT ![c] = call'[c]] /\ call'[c] \in FetchState
        /\ call \in [Calls -> FetchState]
    BY <1>2, PageIsRead DEF ReviewTypeOK
  <2> QED
    BY <2>1, <2>2 DEF ReviewTypeOK
<1>3. ASSUME NEW c \in Calls, ReadRows(c)
      PROVE  /\ call' \in [Calls -> FetchState]
             /\ \A d \in Calls : call'[d].page \in 1 .. MaxPages(d[2])
  <2>1. /\ call' = [call EXCEPT ![c] = call'[c]] /\ call'[c] \in FetchState
        /\ call'[c].page = call[c].page
    BY <1>3, RowsAreRead
  <2>2. call \in [Calls -> FetchState] /\ \A d \in Calls : call[d].page \in 1 .. MaxPages(d[2])
    BY DEF ReviewTypeOK
  <2>3. ASSUME NEW d \in Calls, d # c PROVE call'[d] = call[d]
    BY <2>1, <2>2, <2>3
  <2> QED
    BY <2>1, <2>2, <2>3
<1>4. ASSUME NEW c \in Calls, Ends(c) \/ Begins(c)
      PROVE  /\ call' \in [Calls -> FetchState]
             /\ \A d \in Calls : call'[d].page \in 1 .. MaxPages(d[2])
  <2>1. 1 \in 1 .. MaxPages(c[2])
    BY ReviewTypes, ApprovalReachesFurther
  <2>2. /\ call' \in [Calls -> FetchState] /\ call'[c].page = 1
        /\ \A d \in Calls \ {c} : call'[d] = call[d]
    BY <1>4, IdleFetches, CallIsSet DEF Ends, Begins
  <2> QED
    BY <2>1, <2>2 DEF ReviewTypeOK
<1> QED
  BY <1>1, <1>2, <1>3, <1>4, FetchSteps

LEMMA FetchSoundStep ==
  ASSUME ReviewInv, ReviewNext
  PROVE  \A c \in Calls : FetchIsSound(c)'
<1> SUFFICES ASSUME NEW c \in Calls PROVE FetchIsSound(c)'
  OBVIOUS
<1>1. File \/ UNCHANGED filings
  BY FilingSteps
<1>2. ReviewTypeOK /\ FetchIsSound(c)
  BY DEF ReviewInv
<1>3. CASE call'[c] = call[c]
  BY <1>1, <1>2, <1>3, SoundStays
<1>4. CASE ReadPage(c)
  <2>1. call[c] \in FetchState /\ call[c].page \in 1 .. MaxPages(c[2])
    BY <1>2, ReviewTypes DEF ReviewTypeOK
  <2>2. MaxPages(c[2]) \in {1, 2}
    BY <1>2, ReviewTypes, ApprovalReachesFurther
  <2>3. \A r \in Page(call[c].page) : r <= MaxPages(c[2]) * PageSize
    BY <2>1, <2>2, ReviewAssumption DEF Page
  <2>4. \A r \in Page(call[c].page) : Disclosed(r).receipt = r /\ Disclosed(r).name = filings[r].name
    BY DEF Disclosed
  <2> QED
    BY <1>2, <1>4, <2>3, <2>4, PageIsRead DEF FetchIsSound
<1>5. CASE ReadRows(c)
  BY <1>2, <1>5, RowsAreRead DEF FetchIsSound
<1>6. CASE Ends(c) \/ Begins(c)
  BY <1>2, <1>6, CallIsSet, IdleFetches DEF FetchIsSound, Ends, Begins
<1>7. ASSUME NEW d \in Calls, d # c, ReadPage(d) \/ ReadRows(d) \/ Ends(d) \/ Begins(d)
      PROVE  call'[c] = call[c]
  <2>1. call \in [Calls -> FetchState]
    BY <1>2 DEF ReviewTypeOK
  <2> QED
    BY <1>2, <1>7, <2>1, PageIsRead, RowsAreRead, CallIsSet, IdleFetches DEF Ends, Begins
<1> QED
  BY <1>3, <1>4, <1>5, <1>6, <1>7, FetchSteps

\* Groups come from the preview, and are selected and sent as they are shown.
LEMMA ShownStep ==
  ASSUME ReviewInv, ReviewNext
  PROVE  /\ shown' \in [Reviewers -> {NoGroup} \cup SUBSET Group]
         /\ selection' \in [Reviewers -> {NothingSelected} \cup Choice]
         /\ sent' \in [Reviewers -> {NothingSelected} \cup Choice]
         /\ \A a \in Reviewers :
              /\ \A x \in Chosen(a)' : x.receipt \in x.group.receipts /\ GroupIsSound(x.group)
              /\ shown'[a] # NoGroup => \A g \in shown'[a] : GroupIsSound(g)
<1>1. /\ shown \in [Reviewers -> {NoGroup} \cup SUBSET Group]
      /\ selection \in [Reviewers -> {NothingSelected} \cup Choice]
      /\ sent \in [Reviewers -> {NothingSelected} \cup Choice]
      /\ \A a \in Reviewers :
           /\ \A x \in Chosen(a) : x.receipt \in x.group.receipts /\ GroupIsSound(x.group)
           /\ shown[a] # NoGroup => \A g \in shown[a] : GroupIsSound(g)
  BY DEF ReviewInv, ReviewTypeOK, GroupsAreSound, Chosen
<1>2. CASE UNCHANGED <<shown, selection, sent>>
  BY <1>1, <1>2 DEF Chosen
<1>3. ASSUME NEW a \in Reviewers, StartPreview(a)
      PROVE  UNCHANGED <<selection, sent>> /\ shown' = [shown EXCEPT ![a] = NoGroup]
  BY <1>3 DEF StartPreview
<1>4. ASSUME NEW a \in Reviewers, ShowPreview(a)
      PROVE  /\ UNCHANGED sent /\ selection' = [selection EXCEPT ![a] = NothingSelected]
             /\ shown' = [shown EXCEPT ![a] = Groups(CandidatesOf(<<a, "preview">>))]
             /\ \A g \in Groups(CandidatesOf(<<a, "preview">>)) : g \in Group /\ GroupIsSound(g)
  <2>1. <<a, "preview">> \in Calls /\ <<a, "preview">>[2] = "preview"
    BY DEF Calls, Purposes
  <2> QED
    BY <1>4, <2>1, GroupsType, GroupsAreFiled DEF ShowPreview, ReviewInv
<1>5. ASSUME NEW a \in Reviewers, SelectReceipt(a)
      PROVE  \E x \in Choice :
               /\ x.receipt \in x.group.receipts /\ GroupIsSound(x.group)
               /\ UNCHANGED <<shown, sent>> /\ selection' = [selection EXCEPT ![a] = x]
  <2>1. PICK g \in shown[a] : \E receipt \in g.receipts :
          selection' = [selection EXCEPT ![a] = [group |-> g, receipt |-> receipt]]
    BY <1>5 DEF SelectReceipt
  <2>2. PICK receipt \in g.receipts :
          selection' = [selection EXCEPT ![a] = [group |-> g, receipt |-> receipt]]
    BY <2>1
  <2>3. shown[a] # NoGroup /\ UNCHANGED <<shown, sent>>
    BY <1>5 DEF SelectReceipt
  <2>4. g \in Group /\ GroupIsSound(g)
    BY <1>1, <2>1, <2>3
  <2>5. receipt \in Receipts
    BY <2>2, <2>4 DEF Group
  <2> QED
    BY <2>2, <2>3, <2>4, <2>5 DEF Choice
<1>6. ASSUME NEW a \in Reviewers, CloseGroup(a) \/ Approve(a)
      PROVE  /\ UNCHANGED <<shown, sent>>
             /\ selection' \in {selection, [selection EXCEPT ![a] = NothingSelected]}
  BY <1>6 DEF CloseGroup, Approve
<1>7. ASSUME NEW a \in Reviewers, StartApproval(a)
      PROVE  UNCHANGED <<shown, selection>> /\ sent' = [sent EXCEPT ![a] = selection[a]]
  BY <1>7 DEF StartApproval
<1>8. CASE \E a \in Reviewers : StartPreview(a)
  BY <1>1, <1>3, <1>8 DEF Chosen
<1>9. CASE \E a \in Reviewers : ShowPreview(a)
  BY <1>1, <1>4, <1>9 DEF Chosen
<1>10. CASE \E a \in Reviewers : SelectReceipt(a)
  BY <1>1, <1>5, <1>10 DEF Chosen
<1>11. CASE \E a \in Reviewers : CloseGroup(a) \/ Approve(a)
  BY <1>1, <1>6, <1>11 DEF Chosen
<1>12. CASE \E a \in Reviewers : StartApproval(a)
  BY <1>1, <1>7, <1>12 DEF Chosen
<1>13. CASE \E c \in Calls : ReadPage(c) \/ ReadRows(c) \/ FailFetch(c)
  BY <1>2, <1>13 DEF ReadPage, ReadRows, FailFetch
<1>14. CASE File \/ \E a \in Reviewers : RefuseApproval(a)
  BY <1>2, <1>14 DEF File, RefuseApproval
<1> QED
  BY <1>8, <1>9, <1>10, <1>11, <1>12, <1>13, <1>14 DEF ReviewNext

\* The approval of an administrator moves by the administrator's own requests only.
LEMMA ApprovalSteps ==
  ASSUME ReviewTypeOK, ReviewNext, NEW a \in Reviewers
  PROVE  \/ StartApproval(a)
         \/ /\ sent'[a] = sent[a]
            /\ LET c == <<a, "approval">> IN
               \/ call'[c] = call[c] \/ ReadPage(c) \/ ReadRows(c) \/ call'[c].step = "idle"
<1> DEFINE c == <<a, "approval">>
<1>1. c \in Calls /\ \A b \in Reviewers : <<b, "preview">> \in Calls /\ <<b, "approval">> \in Calls
  BY DEF Calls, Purposes
<1>2. \A d \in Calls : Ends(d) \/ Begins(d) => call'[c] = call[c] \/ d = c
  BY <1>1, CallIsSet, IdleFetches DEF Ends, Begins
<1>3. CASE File \/ \E b \in Reviewers : SelectReceipt(b) \/ CloseGroup(b)
  BY <1>3 DEF File, SelectReceipt, CloseGroup
<1>4. ASSUME NEW d \in Calls, ReadPage(d) \/ ReadRows(d)
      PROVE  sent' = sent /\ (d = c \/ call'[c] = call[c])
  <2>1. call \in [Calls -> FetchState]
    BY DEF ReviewTypeOK
  <2> QED
    BY <1>1, <1>4, <2>1, PageIsRead, RowsAreRead
<1>5. ASSUME NEW d \in Calls, Ends(d)
      PROVE  call'[c].step = "idle" \/ call'[c] = call[c]
  BY <1>1, <1>2, <1>5, CallIsSet, IdleFetches DEF Ends
<1>6. ASSUME NEW d \in Calls, FailFetch(d)
      PROVE  sent' = sent /\ Ends(d)
  BY <1>6 DEF FailFetch, Ends
<1>7. ASSUME NEW b \in Reviewers, StartPreview(b) \/ ShowPreview(b)
      PROVE  sent' = sent /\ call'[c] = call[c]
  <2>1. <<b, "preview">> # c
    OBVIOUS
  <2> QED
    BY <1>1, <1>2, <1>7, <2>1 DEF StartPreview, ShowPreview, Ends, Begins
<1>8. ASSUME NEW b \in Reviewers, RefuseApproval(b) \/ Approve(b)
      PROVE  sent' = sent /\ Ends(<<b, "approval">>)
  BY <1>8 DEF RefuseApproval, Approve, Ends
<1>9. ASSUME NEW b \in Reviewers, b # a, StartApproval(b)
      PROVE  sent'[a] = sent[a] /\ call'[c] = call[c]
  <2>1. <<b, "approval">> # c
    BY <1>9
  <2>2. sent' = [sent EXCEPT ![b] = selection[b]] /\ Begins(<<b, "approval">>)
    BY <1>9 DEF StartApproval, Begins
  <2>3. sent'[a] = sent[a]
    BY <1>9, <2>2 DEF ReviewTypeOK
  <2> QED
    BY <1>1, <1>2, <2>1, <2>2, <2>3
<1> QED
  BY <1>1, <1>3, <1>4, <1>5, <1>6, <1>7, <1>8, <1>9 DEF ReviewNext

\* A page that is the last one of a fetch leaves out no receipt that the fetch may read.
LEMMA NothingIsSkipped ==
  ASSUME ReviewTypeOK, NEW c \in Calls, NEW r \in Receipts,
         \/ r <= call[c].page * PageSize
         \/ ~MorePages(c) /\ r <= MaxPages(c[2]) * PageSize
  PROVE  r <= (call[c].page - 1) * PageSize \/ r \in Page(call[c].page)
<1> DEFINE n == call[c].page  d == PageSize  most == MaxPages(c[2])
<1>1. n \in 1 .. most /\ most \in {1, 2} /\ n \in {1, 2}
  BY ReviewTypes, ApprovalReachesFurther DEF ReviewTypeOK
<1>2. d \in Nat \ {0} /\ r \in Nat /\ Len(filings) \in Nat /\ r >= 1 /\ r <= Len(filings)
  BY ReviewAssumption DEF ReviewTypeOK, Receipts
<1>3. (n - 1) * d \in Nat /\ n * d = (n - 1) * d + d
  BY <1>1, <1>2
<1>4. CASE r <= n * d
  <2>1. CASE r <= (n - 1) * d
    BY <2>1
  <2>2. CASE r > (n - 1) * d
    BY <1>2, <1>4, <2>2 DEF Page
  <2> QED
    BY <1>2, <1>3, <2>1, <2>2
<1>5. CASE ~MorePages(c) /\ r <= most * d /\ r > n * d
  <2>1. Page(n) # {}
    <3>1. (n - 1) * d + 1 \in Page(n)
      BY <1>2, <1>3, <1>5 DEF Page
    <3> QED
      BY <3>1
  <2>2. n < most
    BY <1>1, <1>2, <1>5
  <2>3. PagesOf(Len(filings)) \in Nat
    BY <1>2, PagesGrow
  <2>4. PagesOf(Len(filings)) <= n
    BY <1>1, <1>5, <2>1, <2>2, <2>3 DEF MorePages
  <2> QED
    BY <1>1, <1>2, <1>3, <1>5, <2>4, PagesReach
<1> QED
  BY <1>1, <1>2, <1>3, <1>4, <1>5

LEMMA FindsStep ==
  ASSUME ReviewInv, ReviewNext
  PROVE  \A a \in Reviewers : FindsAgain(a)'
<1> SUFFICES ASSUME NEW a \in Reviewers PROVE FindsAgain(a)'
  OBVIOUS
<1> DEFINE c == <<a, "approval">>
           Read(r) == \E d \in call[c].metadata : d.receipt = r
           HasRow(r) == \E row \in call[c].rows : row.receipt = r
<1>1. c \in Calls /\ c[2] = "approval"
  BY DEF Calls, Purposes
<1>2. ReviewTypeOK /\ FindsAgain(a)
  BY DEF ReviewInv
<1>3. sent[a] # NothingSelected =>
        /\ sent[a].group \in Group /\ sent[a].group.receipts \subseteq Receipts
        /\ GroupIsSound(sent[a].group)
  BY <1>2 DEF ReviewTypeOK, Choice, Group, ReviewInv, GroupsAreSound, Chosen
<1>4. \A r \in Receipts : filings'[r] = filings[r]
  BY <1>2, FilingSteps, FiledStays
<1>5. CASE call'[c].step = "idle"
  BY <1>5 DEF FindsAgain
<1>6. CASE sent'[a] = sent[a] /\ call'[c] = call[c]
  BY <1>2, <1>3, <1>4, <1>6 DEF FindsAgain
<1>7. CASE StartApproval(a)
  <2>1. selection[a] # NothingSelected /\ sent' = [sent EXCEPT ![a] = selection[a]] /\ Begins(c)
    BY <1>7 DEF StartApproval, Begins
  <2>2. sent'[a] # NothingSelected /\ sent'[a] = selection[a] /\ selection[a] \in Choice
    BY <1>2, <2>1 DEF ReviewTypeOK
  <2>3. call'[c].page = 1 /\ call'[c].step = "list"
    BY <1>1, <1>2, <2>1, CallIsSet, IdleFetches DEF Begins
  <2>4. \A r \in sent'[a].group.receipts : r \in Nat \ {0}
    BY <1>2, <2>2 DEF Choice, Group, Receipts, ReviewTypeOK
  <2>5. (1 - 1) * PageSize = 0
    BY ReviewAssumption
  <2> QED
    BY <2>2, <2>3, <2>4, <2>5 DEF FindsAgain
<1>8. CASE sent'[a] = sent[a] /\ ReadPage(c)
  <2>1. /\ call[c].step = "list" /\ sent[a] # NothingSelected
        /\ \A r \in sent[a].group.receipts : r <= (call[c].page - 1) * PageSize => Read(r)
    BY <1>1, <1>2, <1>8, PageIsRead DEF FindsAgain
  <2>2. call[c].page \in Nat
    BY <1>1, <1>2, ReviewTypes DEF FetchState
  <2>3. \A r \in sent[a].group.receipts : r \in Page(call[c].page) \/ Read(r) => Read(r)'
    <3>1. /\ call[c].metadata \subseteq call'[c].metadata
          /\ \A r \in Page(call[c].page) : Disclosed(r) \in call'[c].metadata
      BY <1>1, <1>2, <1>8, PageIsRead
    <3>2. \A r : Disclosed(r).receipt = r
      BY DEF Disclosed
    <3> QED
      BY <3>1, <3>2
  <2>4. CASE MorePages(c)
    <3>1. call'[c].page = call[c].page + 1 /\ call'[c].step = "list"
      BY <1>1, <1>2, <1>8, <2>4, PageIsRead
    <3>2. call'[c].page - 1 = call[c].page
      BY <2>2, <3>1
    <3>3. \A r \in sent[a].group.receipts : r <= (call'[c].page - 1) * PageSize => Read(r)'
      BY <1>1, <1>2, <1>3, <2>1, <2>3, <3>2, NothingIsSkipped
    <3> QED
      BY <1>8, <2>1, <3>1, <3>3 DEF FindsAgain
  <2>5. CASE ~MorePages(c)
    <3>1. call'[c].page = call[c].page /\ call'[c].step = "bonus_issue"
      BY <1>1, <1>2, <1>8, <2>5, PageIsRead
    <3>2. \A r \in sent[a].group.receipts : r <= MaxPages("approval") * PageSize => Read(r)'
      BY <1>1, <1>2, <1>3, <2>1, <2>3, <2>5, NothingIsSkipped
    <3> QED
      BY <1>8, <2>1, <2>3, <3>1, <3>2 DEF FindsAgain
  <2> QED
    BY <2>4, <2>5
<1>9. CASE sent'[a] = sent[a] /\ ReadRows(c)
  <2>1. sent[a] # NothingSelected
    BY <1>1, <1>2, <1>9, RowsAreRead DEF FindsAgain
  <2>2. /\ call'[c].metadata = call[c].metadata /\ call'[c].page = call[c].page
        /\ call[c].step # "list" /\ call[c].step # "idle"
    BY <1>1, <1>2, <1>9, RowsAreRead
  <2>3. ASSUME NEW r \in sent[a].group.receipts,
               \/ call'[c].step = "capital_reduction" /\ filings'[r].kind = "bonus_issue"
               \/ call'[c].step = "fetched"
        PROVE  HasRow(r)'
    <3>1. r \in Receipts /\ filings[r].kind \in CandidateKinds /\ filings'[r] = filings[r]
      BY <1>3, <1>4, <2>1 DEF GroupIsSound, Group
    <3>2. CASE filings[r].kind = call[c].step
      BY <1>1, <1>2, <1>9, <3>1, <3>2, RowsAreRead
    <3>3. CASE filings[r].kind # call[c].step
      <4>1. call[c].step = "capital_reduction" /\ filings[r].kind = "bonus_issue"
        BY <1>1, <1>2, <1>9, <2>3, <3>1, <3>3, RowsAreRead DEF CandidateKinds
      <4>2. HasRow(r)
        BY <1>2, <4>1 DEF FindsAgain
      <4> QED
        BY <1>1, <1>2, <1>9, <4>2, RowsAreRead
    <3> QED
      BY <3>2, <3>3
  <2>4. \A r \in sent[a].group.receipts :
          \/ r <= (call[c].page - 1) * PageSize
          \/ r <= MaxPages("approval") * PageSize
          => Read(r)
    BY <1>2, <2>2 DEF FindsAgain
  <2> QED
    BY <1>1, <1>2, <1>9, <2>1, <2>2, <2>3, <2>4, RowsAreRead DEF FindsAgain
<1> QED
  BY <1>2, <1>5, <1>6, <1>7, <1>8, <1>9, ApprovalSteps

\* The group found again has the receipts of the group sent.
LEMMA FoundHasAll ==
  ASSUME ReviewInv, NEW a \in Reviewers, Fetched(<<a, "approval">>), NEW g \in FoundAgain(a)
  PROVE  /\ sent[a] \in Choice /\ g \in Group /\ g.hint = sent[a].group.hint
         /\ sent[a].group.receipts \subseteq g.receipts
         /\ sent[a].receipt \in sent[a].group.receipts
<1> DEFINE c == <<a, "approval">>  s == sent[a].group
<1>1. c \in Calls /\ c[2] = "approval"
  BY DEF Calls, Purposes
<1>2. ReviewTypeOK /\ FetchIsSound(c) /\ FindsAgain(a) /\ call[c].step = "fetched"
  BY <1>1 DEF ReviewInv, Fetched
<1>3. sent[a] # NothingSelected /\ sent[a] \in Choice /\ sent[a].receipt \in s.receipts
  BY <1>2 DEF FindsAgain, ReviewTypeOK
<1>4. s \in Group /\ s.receipts \subseteq Receipts /\ GroupIsSound(s)
  BY <1>3 DEF Choice, Group, ReviewInv, GroupsAreSound, Chosen
<1>5. g \in Groups(CandidatesOf(c)) /\ g.hint = s.hint
  BY DEF FoundAgain
<1>6. g \in Group
  BY <1>1, <1>2, <1>5, GroupsType
<1>7. ASSUME NEW r \in s.receipts
      PROVE  r \in g.receipts
  <2>1. r \in Receipts /\ filings[r].kind = s.hint.kind /\ filings[r].anchor = s.hint.anchor
    BY <1>4 DEF GroupIsSound
  <2>2. PICK row \in call[c].rows : row.receipt = r
    BY <1>2 DEF FindsAgain
  <2> DEFINE i == Candidate(call[c].metadata, row)
  <2>3. i \in CandidatesOf(c) /\ i.row = row
    BY DEF CandidatesOf, Candidate
  <2>4. i.row.kind = s.hint.kind /\ i.row.anchor = s.hint.anchor
    BY <1>1, <1>2, <2>1, <2>2, <2>3, CandidatesAreSound
  <2>5. CASE s.hint.name # NoName
    <3>1. s.hint.alone = 0 /\ filings[r].name = s.hint.name /\ r <= MaxPages("preview") * PageSize
      BY <1>4, <2>5 DEF GroupIsSound
    <3>2. r <= MaxPages("approval") * PageSize
      <4>1. \A p \in Purposes : MaxPages(p) * PageSize \in Int
        BY ApprovalReachesFurther, ReviewAssumption
      <4>2. r \in Int
        BY <2>1 DEF Receipts
      <4> QED
        BY <3>1, <4>1, <4>2, ApprovalReachesFurther DEF Purposes
    <3>3. \E d \in call[c].metadata : d.receipt = r
      BY <1>2, <3>2 DEF FindsAgain
    <3>4. i.name # NoName /\ i.name = s.hint.name
      BY <1>1, <1>2, <2>2, <2>3, <3>1, <3>3, CandidatesAreSound
    <3>5. Hint(i) = s.hint
      BY <1>4, <2>4, <3>1, <3>4 DEF Hint, Group
    <3> QED
      BY <1>1, <1>2, <1>5, <2>2, <2>3, <3>5, GroupsType
  <2>6. CASE s.hint.name = NoName
    <3>1. r = s.hint.alone
      BY <1>4, <2>6 DEF GroupIsSound
    <3>2. PICK j \in CandidatesOf(c) : Hint(j) = g.hint
      BY <1>1, <1>2, <1>5, GroupsType
    <3>3. j.row.receipt = s.hint.alone
      BY <1>5, <2>6, <3>2 DEF Hint
    <3> QED
      BY <1>1, <1>2, <1>5, <3>1, <3>2, <3>3, GroupsType
  <2> QED
    BY <2>5, <2>6
<1> QED
  BY <1>3, <1>5, <1>6, <1>7

LEMMA ApprovedStep ==
  ASSUME ReviewInv, ReviewNext
  PROVE  /\ approved' \subseteq [receipt : Receipts, shown : Group, fetched : Group]
         /\ GroupsOnlyGrow'
<1>1. approved \subseteq [receipt : Receipts, shown : Group, fetched : Group] /\ GroupsOnlyGrow
  BY DEF ReviewInv, ReviewTypeOK
<1>2. CASE UNCHANGED approved
  BY <1>1, <1>2 DEF GroupsOnlyGrow
<1>3. ASSUME NEW a \in Reviewers, Approve(a)
      PROVE  /\ approved' \subseteq [receipt : Receipts, shown : Group, fetched : Group]
             /\ GroupsOnlyGrow'
  <2>1. Fetched(<<a, "approval">>)
    BY <1>3 DEF Approve
  <2>2. PICK g \in FoundAgain(a) :
          approved' = approved \cup
            {[receipt |-> sent[a].receipt, shown |-> sent[a].group, fetched |-> g]}
    BY <1>3 DEF Approve
  <2>3. /\ sent[a] \in Choice /\ g \in Group /\ g.hint = sent[a].group.hint
        /\ sent[a].group.receipts \subseteq g.receipts
        /\ sent[a].receipt \in sent[a].group.receipts
    BY <2>1, FoundHasAll
  <2> QED
    BY <1>1, <2>2, <2>3 DEF GroupsOnlyGrow, Choice
<1>4. CASE \A a \in Reviewers : ~Approve(a)
  BY <1>2, <1>4 DEF ReviewNext, File, ReadPage, ReadRows, FailFetch, StartPreview, ShowPreview, SelectReceipt,
                    CloseGroup, StartApproval, RefuseApproval
<1> QED
  BY <1>3, <1>4

LEMMA ReviewStart == ReviewInit => ReviewInv
<1> SUFFICES ASSUME ReviewInit PROVE ReviewInv
  OBVIOUS
<1>1. \A c \in Calls : call[c] = IdleFetch /\ c[2] \in Purposes
  BY DEF ReviewInit, Calls
<1>2. \A c \in Calls : call[c].page \in 1 .. MaxPages(c[2])
  BY <1>1, IdleFetches, ApprovalReachesFurther
<1>3. filings \in Seq(Reports) /\ Len(filings) <= MaxFilings
  BY ReviewAssumption DEF ReviewInit
<1>4. ReviewTypeOK
  BY <1>2, <1>3, IdleFetches DEF ReviewInit, ReviewTypeOK
<1>5. \A c \in Calls : FetchIsSound(c)
  BY <1>1, IdleFetches DEF FetchIsSound
<1>6. \A a \in Reviewers : FindsAgain(a)
  BY <1>1, IdleFetches DEF FindsAgain, Calls, Purposes
<1> QED
  BY <1>4, <1>5, <1>6 DEF ReviewInv, ReviewInit, GroupsAreSound, Chosen, GroupsOnlyGrow

LEMMA ReviewStep == ReviewInv /\ [ReviewNext]_reviewVars => ReviewInv'
<1>1. ASSUME ReviewInv, UNCHANGED reviewVars PROVE ReviewInv'
  <2> USE <1>1 DEF reviewVars
  <2>1. ReviewTypeOK'
    BY DEF ReviewInv, ReviewTypeOK, FetchState, Disclosure, ReportedRow, Choice, Group, Receipts
  <2>2. \A c \in Calls : FetchIsSound(c)'
    BY DEF ReviewInv, FetchIsSound
  <2>3. GroupsAreSound'
    BY DEF ReviewInv, GroupsAreSound, GroupIsSound, Chosen
  <2>4. \A a \in Reviewers : FindsAgain(a)'
    BY DEF ReviewInv, FindsAgain
  <2> QED
    BY <2>1, <2>2, <2>3, <2>4 DEF ReviewInv, GroupsOnlyGrow
<1>2. ASSUME ReviewInv, ReviewNext PROVE ReviewInv'
  <2> USE <1>2
  <2>1. ReviewTypeOK /\ (File \/ UNCHANGED filings)
    BY FilingSteps DEF ReviewInv
  <2>2. /\ filings' \in Seq(Reports) /\ Len(filings') <= MaxFilings
        /\ Receipts \subseteq Receipts' /\ FetchState \subseteq FetchState' /\ Group \subseteq Group'
        /\ Choice \subseteq Choice'
    BY <2>1, FiledStays
  <2>3. ReviewTypeOK'
    <3>1. call' \in [Calls -> FetchState'] /\ \A c \in Calls : call'[c].page \in 1 .. MaxPages(c[2])
      BY <2>1, <2>2, FetchTypeStep
    <3>2. /\ shown' \in [Reviewers -> {NoGroup} \cup SUBSET Group']
          /\ selection' \in [Reviewers -> {NothingSelected} \cup Choice']
          /\ sent' \in [Reviewers -> {NothingSelected} \cup Choice']
      BY <2>2, ShownStep
    <3>3. \A a \in Reviewers : \A x \in {selection[a], sent[a]}' \ {NothingSelected} :
            x.receipt \in x.group.receipts
      BY ShownStep DEF Chosen
    <3>4. approved' \subseteq [receipt : Receipts', shown : Group', fetched : Group']
      BY <2>2, ApprovedStep
    <3> QED
      BY <2>2, <3>1, <3>2, <3>3, <3>4 DEF ReviewTypeOK
  <2>4. GroupsAreSound'
    <3>1. \A g \in Group : GroupIsSound(g) => GroupIsSound(g)'
      BY <2>1, SoundStays
    <3>2. ASSUME NEW a \in Reviewers, NEW x \in Chosen(a)'
          PROVE  GroupIsSound(x.group)'
      <4>1. x \in Choice /\ GroupIsSound(x.group)
        BY <3>2, ShownStep DEF Chosen
      <4> QED
        BY <3>1, <4>1 DEF Choice
    <3>3. ASSUME NEW a \in Reviewers, shown'[a] # NoGroup, NEW g \in shown'[a]
          PROVE  GroupIsSound(g)'
      <4>1. g \in Group /\ GroupIsSound(g)
        BY <3>3, ShownStep
      <4> QED
        BY <3>1, <4>1
    <3> QED
      BY <3>2, <3>3 DEF GroupsAreSound
  <2> QED
    BY <2>3, <2>4, FetchSoundStep, FindsStep, ApprovedStep DEF ReviewInv
<1> QED
  BY <1>1, <1>2

THEOREM ReviewInvariant == ReviewSpec => []ReviewInv
  BY ReviewStart, ReviewStep, PTL DEF ReviewSpec

\* Pages show, select and approve what was filed.
THEOREM ReviewTypeCorrect == ReviewSpec => []ReviewTypeOK
<1>1. ReviewInv => ReviewTypeOK
  BY DEF ReviewInv
<1> QED
  BY <1>1, ReviewInvariant, PTL

\* The group that is approved has every receipt of the group the administrator saw,
\* however many administrators review and whatever companies file meanwhile.
THEOREM GroupsOnlyGrowCorrect == ReviewSpec => []GroupsOnlyGrow
<1>1. ReviewInv => GroupsOnlyGrow
  BY DEF ReviewInv
<1> QED
  BY <1>1, ReviewInvariant, PTL
=============================================================================
