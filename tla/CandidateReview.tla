-------------------------- MODULE CandidateReview --------------------------
(* The review of corporate-action candidates of one stock. An administrator
   previews what companies filed at DART (corporate_actions/dart_candidates.py),
   grouped into families of revisions (corporate_actions/reconciliation.py),
   selects a receipt of a group and approves it; the server fetches the
   candidates again and looks for the same group (services/corporate_actions.py
   preview and approve). One fetch is several requests: up to two pages of the
   list of disclosures, then the rows of the two kinds of actions; companies go
   on filing between any two of them. What approve stores is the subject of
   CorporateActions. *)
EXTENDS Integers, Sequences, FiniteSets

CONSTANTS Reviewers,      \* pages of administrators
          Reports,        \* what companies may file
          NoName,         \* the report's name is not known
          NoGroup,        \* nothing is shown or selected
          PageSize,       \* disclosures on a page: 100
          PreviewLimit,   \* limit of a preview: 100 unless the caller asks for another, up to 200
          ApprovalLimit,  \* limit of the fetch of an approval: 200
          MaxFilings      \* bound on the filings of the stock

\* The structured endpoints, in the order they are read.
Endpoints == <<"bonus_issue", "capital_reduction">>

ASSUME ReviewAssumption ==
  /\ \A r \in Reports :
       /\ r.kind \in {"bonus_issue", "capital_reduction", "other"}
       /\ r.correction \in BOOLEAN /\ r.valid \in BOOLEAN
       /\ r.name # NoName
  /\ PageSize \in Nat \ {0} /\ PreviewLimit \in Nat \ {0} /\ ApprovalLimit \in Nat
  /\ PreviewLimit <= ApprovalLimit
  /\ MaxFilings \in Nat

VARIABLES filings,    \* what is filed at DART, by receipt number
          call,       \* the fetch of each page's preview and of its approval
          shown,      \* the groups each page shows, NoGroup before the first answer
          selection,  \* group and receipt selected for approval
          sent,       \* group and receipt of the approval under way
          approved    \* history: what was approved, as shown and as fetched again

reviewVars == <<filings, call, shown, selection, sent, approved>>

Purposes == {"preview", "approval"}
Calls == Reviewers \X Purposes

\* Mutant: the limits of preview and approval are exchanged.
FetchLimitExchanged(purpose) == IF purpose = "approval" THEN PreviewLimit ELSE ApprovalLimit

FetchLimit(purpose) == IF purpose = "preview" THEN PreviewLimit ELSE ApprovalLimit
PagesOf(n) == (n + PageSize - 1) \div PageSize
MaxPages(purpose) == IF PagesOf(FetchLimit(purpose)) < 2 THEN PagesOf(FetchLimit(purpose)) ELSE 2

IdleFetch == [step |-> "idle", page |-> 1, metadata |-> {}, rows |-> {}]
NothingSelected == [group |-> NoGroup, receipt |-> 0]

ReviewInit ==
  /\ filings = <<>>
  /\ call = [c \in Calls |-> IdleFetch]
  /\ shown = [a \in Reviewers |-> NoGroup]
  /\ selection = [a \in Reviewers |-> NothingSelected]
  /\ sent = [a \in Reviewers |-> NothingSelected]
  /\ approved = {}

-----------------------------------------------------------------------------
(* Candidates and their groups. *)

\* A later correction of the same report leaves a remark at the first.
Superseded(n) ==
  \E later \in n + 1 .. Len(filings) :
    /\ filings[later].correction
    /\ filings[later].kind = filings[n].kind
    /\ filings[later].name = filings[n].name
    /\ filings[later].anchor = filings[n].anchor

\* What the list of disclosures says of a receipt. The mark of a correction is a
\* prefix of the name, which the reconciler removes.
Disclosed(n) ==
  [receipt |-> n, name |-> filings[n].name, correction |-> filings[n].correction,
   superseded |-> Superseded(n)]

\* A row joined with the list: without an entry there the report has no name.
Candidate(metadata, row) ==
  LET known == {d \in metadata : d.receipt = row.receipt}
  IN  [row |-> row,
       name |-> IF known = {} THEN NoName ELSE (CHOOSE d \in known : TRUE).name,
       correction |-> \E d \in known : d.correction,
       superseded |-> \E d \in known : d.superseded]

CandidatesOf(c) == {Candidate(call[c].metadata, row) : row \in call[c].rows}

\* The key whose digest is the hint of a group: a report that has no name is a
\* group of its own.
Hint(candidate) ==
  [kind |-> candidate.row.kind, anchor |-> candidate.row.anchor, name |-> candidate.name,
   alone |-> IF candidate.name = NoName THEN candidate.row.receipt ELSE 0]

Confidence(items) ==
  IF Cardinality(items) = 1 THEN "isolated"
  ELSE IF (\E i \in items : i.superseded) /\ (\E i \in items : i.correction)
       THEN "likely_correction"
       ELSE "ambiguous_multiple_receipts"

Groups(candidates) ==
  {LET items == {i \in candidates : Hint(i) = hint}
   IN  [hint |-> hint, receipts |-> {i.row.receipt : i \in items},
        confidence |-> Confidence(items)] : hint \in {Hint(i) : i \in candidates}}

-----------------------------------------------------------------------------
(* A fetch. *)

SetCall(c, record) == call' = [call EXCEPT ![c] = record]

\* The receipts on a page of the list, oldest first, as it is at this moment
Page(n) == {r \in 1 .. Len(filings) : (n - 1) * PageSize < r /\ r <= n * PageSize}

MorePages(c) ==
  LET n == call[c].page IN Page(n) # {} /\ n < MaxPages(c[2]) /\ n < PagesOf(Len(filings))

ReadPage(c) ==
  /\ call[c].step = "list"
  /\ SetCall(c,
       [call[c] EXCEPT !.metadata = @ \cup {Disclosed(r) : r \in Page(call[c].page)},
                       !.page = IF MorePages(c) THEN @ + 1 ELSE @,
                       !.step = IF MorePages(c) THEN "list" ELSE Endpoints[1]])
  /\ UNCHANGED <<filings, shown, selection, sent, approved>>

\* The rows of one kind, with the factors and dates of the report.
ReadRows(c) ==
  \E k \in 1 .. Len(Endpoints) :
    LET reported ==
          {[receipt |-> r, kind |-> filings[r].kind, anchor |-> filings[r].anchor,
            valid |-> filings[r].valid] :
             r \in {n \in 1 .. Len(filings) : filings[n].kind = Endpoints[k]}}
    IN  /\ call[c].step = Endpoints[k]
        /\ SetCall(c, [call[c] EXCEPT !.rows = @ \cup reported,
                                      !.step = IF k < Len(Endpoints) THEN Endpoints[k + 1] ELSE "fetched"])
        /\ UNCHANGED <<filings, shown, selection, sent, approved>>

Fetched(c) ==
  call[c].step = "fetched" /\ Cardinality(call[c].rows) <= FetchLimit(c[2])

\* A request fails, DART answers with an error or with a date or a receipt that is
\* none, there are more candidates than the limit, or the answer is lost on its way
\* to the page: the page has an error and keeps its selection.
FailFetch(c) ==
  /\ call[c].step # "idle"
  /\ SetCall(c, IdleFetch)
  /\ UNCHANGED <<filings, shown, selection, sent, approved>>

-----------------------------------------------------------------------------
(* The administrator's page and the service. *)

\* The button asks for the last year; what was shown disappears.
StartPreview(a) ==
  /\ call[<<a, "preview">>].step = "idle"
  /\ SetCall(<<a, "preview">>, [IdleFetch EXCEPT !.step = "list"])
  /\ shown' = [shown EXCEPT ![a] = NoGroup]
  /\ UNCHANGED <<filings, selection, sent, approved>>

ShowPreview(a) ==
  /\ Fetched(<<a, "preview">>)
  /\ SetCall(<<a, "preview">>, IdleFetch)
  /\ shown' = [shown EXCEPT ![a] = Groups(CandidatesOf(<<a, "preview">>))]
  /\ selection' = [selection EXCEPT ![a] = NothingSelected]
  /\ UNCHANGED <<filings, sent, approved>>

\* A caller of the API may choose a receipt without factors, which the page does not
\* offer.
SelectReceipt(a) ==
  /\ shown[a] # NoGroup
  /\ \E group \in shown[a] : \E receipt \in group.receipts :
       selection' = [selection EXCEPT ![a] = [group |-> group, receipt |-> receipt]]
  /\ UNCHANGED <<filings, call, shown, sent, approved>>

CloseGroup(a) ==
  /\ selection[a] # NothingSelected
  /\ selection' = [selection EXCEPT ![a] = NothingSelected]
  /\ UNCHANGED <<filings, call, shown, sent, approved>>

\* The form is complete: the request repeats the hint and the receipt. A page has one
\* approval under way at most (bound: selecting again during it would allow another).
StartApproval(a) ==
  /\ call[<<a, "approval">>].step = "idle"
  /\ shown[a] # NoGroup /\ selection[a] # NothingSelected
  /\ sent' = [sent EXCEPT ![a] = selection[a]]
  /\ SetCall(<<a, "approval">>, [IdleFetch EXCEPT !.step = "list"])
  /\ UNCHANGED <<filings, shown, selection, approved>>

\* The group of the hint that the second fetch finds, with the receipt in it.
FoundAgain(a) ==
  {g \in Groups(CandidatesOf(<<a, "approval">>)) :
     g.hint = sent[a].group.hint /\ sent[a].receipt \in g.receipts}

\* Without that group the answer is 409, without factors 422.
RefuseApproval(a) ==
  /\ Fetched(<<a, "approval">>)
  /\ \/ FoundAgain(a) = {}
     \/ \E row \in call[<<a, "approval">>].rows :
          row.receipt = sent[a].receipt /\ ~ row.valid
  /\ SetCall(<<a, "approval">>, IdleFetch)
  /\ UNCHANGED <<filings, shown, selection, sent, approved>>

\* The approval is stored; its answer may be lost, and the form stays.
Approve(a) ==
  /\ Fetched(<<a, "approval">>)
  /\ \E group \in FoundAgain(a) : \E row \in call[<<a, "approval">>].rows :
       /\ row.receipt = sent[a].receipt /\ row.valid
       /\ approved' = approved \cup
            {[receipt |-> row.receipt, shown |-> sent[a].group, fetched |-> group]}
  /\ SetCall(<<a, "approval">>, IdleFetch)
  /\ selection' \in {selection, [selection EXCEPT ![a] = NothingSelected]}
  /\ UNCHANGED <<filings, shown, sent>>

\* A company files a report.
File ==
  /\ Len(filings) < MaxFilings
  /\ \E r \in Reports : filings' = Append(filings, r)
  /\ UNCHANGED <<call, shown, selection, sent, approved>>

ReviewNext ==
  \/ File
  \/ \E c \in Calls : ReadPage(c) \/ ReadRows(c) \/ FailFetch(c)
  \/ \E a \in Reviewers :
       \/ StartPreview(a) \/ ShowPreview(a) \/ SelectReceipt(a) \/ CloseGroup(a)
       \/ StartApproval(a) \/ RefuseApproval(a) \/ Approve(a)

ReviewSpec == ReviewInit /\ [][ReviewNext]_reviewVars

-----------------------------------------------------------------------------
Receipts == 1 .. Len(filings)
CandidateKinds == {"bonus_issue", "capital_reduction"}
Anchors == {r.anchor : r \in Reports}
Names == {r.name : r \in Reports}

Disclosure ==
  [receipt : Receipts, name : Names, correction : BOOLEAN, superseded : BOOLEAN]
ReportedRow ==
  [receipt : Receipts, kind : CandidateKinds, anchor : Anchors, valid : BOOLEAN]
FetchState ==
  [step : {"idle", "list", "fetched"} \cup CandidateKinds, page : Nat,
   metadata : SUBSET Disclosure, rows : SUBSET ReportedRow]

Group ==
  [hint : [kind : CandidateKinds, anchor : Anchors, name : Names \cup {NoName},
           alone : {0} \cup Receipts],
   receipts : SUBSET Receipts,
   confidence : {"isolated", "likely_correction", "ambiguous_multiple_receipts"}]
Choice == [group : Group, receipt : Receipts]

\* The variables keep their types, and what a page shows, selects or approves was
\* filed.
ReviewTypeOK ==
  /\ filings \in Seq(Reports) /\ Len(filings) <= MaxFilings
  /\ call \in [Calls -> FetchState] /\ \A c \in Calls : call[c].page \in 1 .. MaxPages(c[2])
  /\ shown \in [Reviewers -> {NoGroup} \cup SUBSET Group]
  /\ selection \in [Reviewers -> {NothingSelected} \cup Choice]
  /\ sent \in [Reviewers -> {NothingSelected} \cup Choice]
  /\ \A a \in Reviewers : \A x \in {selection[a], sent[a]} \ {NothingSelected} :
       x.receipt \in x.group.receipts
  /\ approved \subseteq [receipt : Receipts, shown : Group, fetched : Group]

\* What is approved is approved as a member of the group the administrator saw:
\* the service rejects a group that changed since its preview.
ChangedGroupsAreRejected ==
  \A x \in approved : x.fetched.receipts = x.shown.receipts

\* No receipt the administrator saw in a group is missing from the group that is approved,
\* whatever was filed before and during the two fetches: the pages of the second reach as
\* far as those of the first, so that a report that had a name still has it, and it is
\* read before the rows (services/corporate_actions.py:392-416, dart_candidates.py:205-238).
GroupsOnlyGrow ==
  \A x \in approved :
    /\ x.fetched.hint = x.shown.hint /\ x.shown.receipts \subseteq x.fetched.receipts
    /\ x.receipt \in x.shown.receipts
=============================================================================
