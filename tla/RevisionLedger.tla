--------------------------- MODULE RevisionLedger ---------------------------
(***************************************************************************)
(* What the revisions of corporate actions promise, whoever asks at the     *)
(* same time: each request takes effect at one moment, as a whole, on what  *)
(* is recorded then, or not at all.  An approval is recorded once, under    *)
(* the first free number of its event; nothing recorded is ever changed.    *)
(***************************************************************************)
EXTENDS Integers

CONSTANTS
  Approvers, Importers,  \* requests, as in CorporateActions
  Evidence,              \* what may be approved
  Feed,                  \* what may be ingested
  Instants               \* when an approval may have been reviewed

VARIABLES
  rows,       \* revisions on record
  approvals,  \* evidence on record, each with its revision
  status,     \* of each request: idle, busy or failed
  asked,      \* the evidence of an approval that is under way, in a set
  batch       \* the revisions of an ingestion that is under way

ledgerVars == <<rows, approvals, status, asked, batch>>

LedgerInit ==
  /\ rows = {} /\ approvals = {}
  /\ status = [x \in Approvers \cup Importers |-> "idle"]
  /\ asked = [a \in Approvers |-> {}]
  /\ batch = [i \in Importers |-> {}]

Turns(x, from, to) == status[x] = from /\ status' = [status EXCEPT ![x] = to]

Taken(event) == {r.revision : r \in {q \in rows : q.event = event}}
FirstFree(event, n) == n >= 1 /\ n \notin Taken(event) /\ 1 .. n - 1 \subseteq Taken(event)

\* No revision of the set and of those on record has two contents.
Fits(S) ==
  \A r \in S, q \in S \cup rows : r.event = q.event /\ r.revision = q.revision => r = q

Ask(a) ==
  /\ Turns(a, "idle", "busy")
  /\ \E e \in Evidence : asked' = [asked EXCEPT ![a] = {e}]
  /\ UNCHANGED <<rows, approvals, batch>>

\* New evidence is recorded with its revision.
Record(a) ==
  /\ Turns(a, "busy", "idle")
  /\ \E e \in asked[a], row \in rows' :
       /\ \A p \in approvals : p.evidence # e
       /\ row.event = e.event /\ FirstFree(e.event, row.revision)
       /\ row.effective = e.effective /\ row.factor = e.factor /\ row.status = "confirmed"
       /\ row.known \in Instants
       /\ rows' = rows \cup {row}
       /\ approvals' = approvals \cup {[evidence |-> e, row |-> row]}
  /\ asked' = [asked EXCEPT ![a] = {}]
  /\ UNCHANGED batch

\* The evidence is on record already, or the approval is given up.
Dismiss(a) ==
  /\ Turns(a, "busy", "idle")
  /\ asked' = [asked EXCEPT ![a] = {}]
  /\ UNCHANGED <<rows, approvals, batch>>

Take(i) ==
  /\ Turns(i, "idle", "busy")
  /\ \E b \in SUBSET Feed : batch' = [batch EXCEPT ![i] = b]
  /\ UNCHANGED <<rows, approvals, asked>>

Store(i) ==
  /\ Turns(i, "busy", "idle")
  /\ Fits(batch[i]) /\ rows' = rows \cup batch[i]
  /\ batch' = [batch EXCEPT ![i] = {}]
  /\ UNCHANGED <<approvals, asked>>

\* The batch is not taken, or not stored.
Refuse(i) ==
  /\ \E from \in {"idle", "busy"} : Turns(i, from, "failed")
  /\ batch' = [batch EXCEPT ![i] = {}]
  /\ UNCHANGED <<rows, approvals, asked>>

Recover(i) ==
  /\ Turns(i, "failed", "idle")
  /\ UNCHANGED <<rows, approvals, asked, batch>>

LedgerNext ==
  \/ \E a \in Approvers : Ask(a) \/ Record(a) \/ Dismiss(a)
  \/ \E i \in Importers : Take(i) \/ Store(i) \/ Refuse(i) \/ Recover(i)

LedgerSpec == LedgerInit /\ [][LedgerNext]_ledgerVars
=============================================================================
