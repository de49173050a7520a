---------------------------- MODULE ModelRegistry ----------------------------
(***************************************************************************)
(* Model versions of the prediction service: the artifact store            *)
(* (prediction/artifacts.py), the registry table (repositories/            *)
(* sqlalchemy.py, models/prediction.py) and the two requests that use       *)
(* both, promotion (services/model_registry.py) and prediction              *)
(* (prediction/engine.py, services/prediction.py).                          *)
(*                                                                         *)
(* Requests run on a thread pool of one process.  The store's RLock makes  *)
(* each of its operations exclusive; nothing spans the database            *)
(* transaction and the activation that follows it.  Files and rows survive *)
(* a crash of the process, threads and the lock do not.                    *)
(***************************************************************************)
EXTENDS Integers, FiniteSets

CONSTANTS
  Versions,     \* model versions
  Scopes,       \* (symbol, algorithm, horizon) triples
  ScopeOf,      \* the scope a version was trained for
  Promoters,    \* threads serving a promotion
  Trainers,     \* threads serving a prediction
  None,         \* no version, no thread
  MaxFaults     \* bound: crashes, failures and damaged artifacts in one behaviour

ASSUME ScopeAssumption == ScopeOf \in [Versions -> Scopes]
ASSUME NoneAssumption ==
  /\ None \notin Versions
  /\ None \notin Promoters \cup Trainers
ASSUME ThreadAssumption == Promoters \cap Trainers = {}
ASSUME FaultAssumption == MaxFaults \in Nat

VARIABLES
  dir,         \* staged/<version>: absent, partial (no manifest yet), manifest
  intact,      \* versions whose artifact matches its manifest's checksum
  row,         \* model_versions: absent, challenger or champion
  pointer,     \* active/<scope>.json: its version and previous_version
  holder,      \* the thread inside the store's RLock
  pc,          \* where each thread is
  ver,         \* the version a thread works on
  seen,        \* champions a promotion's UPDATE statement found
  faults,      \* crashes, failures and damaged artifacts so far
  littered,    \* history: versions whose staging a crash cut off, or whose
               \* clean-up failed
  tainted,     \* history: scopes on which a promotion ended between commit and
               \* activation, or which were rolled back
  overlapped   \* history: scopes on which two promotions overlapped

durable == <<dir, intact, row, pointer>>
threads == <<holder, pc, ver, seen>>
history == <<littered, tainted, overlapped>>
vars == <<dir, intact, row, pointer, holder, pc, ver, seen,
          faults, littered, tainted, overlapped>>

Threads == Promoters \cup Trainers

\* Mutant: the UPDATE's condition leaves out the scope.
AnyOther(v) == Versions \ {v}

\* The rows the UPDATE's condition covers.
Others(v) == {w \in Versions : w # v /\ ScopeOf[w] = ScopeOf[v]}
Pointer == [version : Versions \cup {None}, previous : Versions \cup {None}]
Steps == {"idle", "update", "commit", "activate", "stage", "write", "save", "insert"}

TypeOK ==
  /\ dir \in [Versions -> {"absent", "partial", "manifest"}]
  /\ intact \in SUBSET Versions
  /\ row \in [Versions -> {"absent", "challenger", "champion"}]
  /\ pointer \in [Scopes -> Pointer]
  /\ holder \in Threads \cup {None}
  /\ pc \in [Threads -> Steps]
  /\ ver \in [Threads -> Versions \cup {None}]
  /\ \A t \in Threads : pc[t] = "idle" <=> ver[t] = None
  /\ seen \in [Promoters -> SUBSET Versions]
  /\ faults \in 0..MaxFaults
  /\ littered \in SUBSET Versions
  /\ tainted \in SUBSET Scopes
  /\ overlapped \in SUBSET Scopes

Init ==
  /\ dir = [v \in Versions |-> "absent"]
  /\ intact = {}
  /\ row = [v \in Versions |-> "absent"]
  /\ pointer = [s \in Scopes |-> [version |-> None, previous |-> None]]
  /\ holder = None
  /\ pc = [t \in Threads |-> "idle"]
  /\ ver = [t \in Threads |-> None]
  /\ seen = [p \in Promoters |-> {}]
  /\ faults = 0
  /\ littered = {}
  /\ tainted = {}
  /\ overlapped = {}

Fault == faults < MaxFaults /\ faults' = faults + 1
Go(t, from, to) == pc[t] = from /\ pc' = [pc EXCEPT ![t] = to]
End(t) == /\ pc' = [pc EXCEPT ![t] = "idle"]
          /\ ver' = [ver EXCEPT ![t] = None]

\* store.verify: the manifest is complete, of the expected scope, and its
\* checksum is that of the artifact.  The scope check cannot fail here: the
\* record and the manifest of a version come from the same training.
Verified(v) == dir[v] = "manifest" /\ v \in intact

------------------------------------------------------------------------------
(***************************************************************************)
(* Promotion.                                                              *)
(***************************************************************************)

\* Another promotion that is past its verification works on the same scope.
Overlaps(p, v) ==
  \E q \in Promoters \ {p} : pc[q] # "idle" /\ ScopeOf[ver[q]] = ScopeOf[v]

\* registry.promote up to the transaction: get_version finds the row and
\* store.verify its artifact.  Rows are never deleted, so that the row is read
\* before the artifact makes no difference; either failure ends the request.
PromoteStart(p, v) ==
  /\ holder = None
  /\ row[v] # "absent"
  /\ Verified(v)
  /\ Go(p, "idle", "update")
  /\ ver' = [ver EXCEPT ![p] = v]
  /\ overlapped' = IF Overlaps(p, v) THEN overlapped \cup {ScopeOf[v]} ELSE overlapped
  /\ UNCHANGED durable /\ UNCHANGED <<holder, seen, faults, littered, tainted>>

\* A promotion that is about to commit holds the lock of its own row.
RowLocked(p, v) == \E q \in Promoters \ {p} : pc[q] = "commit" /\ ver[q] = v

\* repository.promote: SELECT ... FOR UPDATE of the target row, and the UPDATE's
\* snapshot, the champions of the scope that it will demote.
PromoteUpdate(p) ==
  /\ Go(p, "update", "commit")
  /\ ~RowLocked(p, ver[p])
  /\ seen' = [seen EXCEPT ![p] = {w \in Others(ver[p]) : row[w] = "champion"}]
  /\ UNCHANGED durable /\ UNCHANGED <<holder, ver, faults>> /\ UNCHANGED history

\* Mutant: no partial unique index.
PromoteCommitWithoutIndex(p) ==
  LET v == ver[p]
  IN /\ Go(p, "commit", "activate")
     /\ \A w \in seen[p] : ~RowLocked(p, w)
     /\ row' = [w \in Versions |->
                  IF w = v THEN "champion"
                  ELSE IF w \in seen[p] THEN "challenger" ELSE row[w]]
     /\ seen' = [seen EXCEPT ![p] = {}]
     /\ UNCHANGED <<dir, intact, pointer, holder, ver, faults>> /\ UNCHANGED history

\* The rows an UPDATE found may be locked by their own promotion; it waits for
\* them.  A champion it did not find is one a concurrent promotion committed
\* since: the partial unique index then rejects the transaction.
PromoteCommit(p) ==
  LET v == ver[p]
      missed == {w \in Others(v) : row[w] = "champion"} \ seen[p]
  IN /\ pc[p] = "commit"
     /\ \A w \in seen[p] : ~RowLocked(p, w)
     /\ IF missed = {}
          THEN /\ row' = [w \in Versions |->
                            IF w = v THEN "champion"
                            ELSE IF w \in seen[p] /\ row[w] = "champion"
                              THEN "challenger" ELSE row[w]]
               /\ Go(p, "commit", "activate")
               /\ UNCHANGED ver
          ELSE End(p) /\ UNCHANGED row
     /\ seen' = [seen EXCEPT ![p] = {}]
     /\ UNCHANGED <<dir, intact, pointer, holder, faults>> /\ UNCHANGED history

\* Mutant: the pointer path leaves out part of the scope.
PromoteActivateAnyScope(p) ==
  /\ holder = None
  /\ pc[p] = "activate"
  /\ Verified(ver[p])
  /\ pointer' = [s \in Scopes |-> [version |-> ver[p], previous |-> pointer[s].version]]
  /\ End(p)
  /\ UNCHANGED <<dir, intact, row, holder, seen, faults>> /\ UNCHANGED history

\* store.activate: verify again, remember the version that was active, and
\* replace the pointer file atomically.
PromoteActivate(p) ==
  LET v == ver[p]
      s == ScopeOf[v]
  IN /\ holder = None
     /\ pc[p] = "activate"
     /\ IF Verified(v)
          THEN /\ pointer' = [pointer EXCEPT ![s] =
                                [version |-> v, previous |-> @.version]]
               /\ UNCHANGED tainted
          ELSE UNCHANGED pointer /\ tainted' = tainted \cup {s}
     /\ End(p)
     /\ UNCHANGED <<dir, intact, row, holder, seen, faults, littered, overlapped>>

\* The transaction or the write of the pointer fails and ends the request; a
\* transaction that fails leaves no trace, a committed one stays.
PromoteFails(p) ==
  /\ pc[p] # "idle"
  /\ Fault
  /\ tainted' = IF pc[p] = "activate" THEN tainted \cup {ScopeOf[ver[p]]} ELSE tainted
  /\ seen' = [seen EXCEPT ![p] = {}]
  /\ End(p)
  /\ UNCHANGED durable /\ UNCHANGED <<holder, littered, overlapped>>

\* store.rollback, which nothing in the service calls but deployment may: the
\* two versions of the pointer change places, if the previous one verifies.
Rollback(s) ==
  /\ holder = None
  /\ pointer[s].version # None /\ pointer[s].previous # None
  /\ Verified(pointer[s].previous)
  /\ pointer' = [pointer EXCEPT ![s] =
                   [version |-> @.previous, previous |-> @.version]]
  /\ tainted' = tainted \cup {s}
  /\ UNCHANGED <<dir, intact, row, faults, littered, overlapped>>
  /\ UNCHANGED threads

------------------------------------------------------------------------------
(***************************************************************************)
(* Prediction.                                                             *)
(***************************************************************************)

\* engine.predict with an active artifact: store.current verifies it, and the
\* prediction is saved under its version.  A pointer to an artifact that does
\* not verify fails the request and changes nothing.
PredictActive(t, s) ==
  /\ holder = None
  /\ pointer[s].version # None
  /\ Verified(pointer[s].version)
  /\ Go(t, "idle", "save")
  /\ ver' = [ver EXCEPT ![t] = pointer[s].version]
  /\ UNCHANGED durable /\ UNCHANGED <<holder, seen, faults>> /\ UNCHANGED history

\* Without one a model is trained; its version is a digest of the data, so the
\* same data gives the same version again.
PredictTrain(t, v) ==
  /\ holder = None
  /\ pointer[ScopeOf[v]].version = None
  /\ Go(t, "idle", "stage")
  /\ ver' = [ver EXCEPT ![t] = v]
  /\ UNCHANGED durable /\ UNCHANGED <<holder, seen, faults>> /\ UNCHANGED history

\* Mutant: stage does not take the lock.
StageStartUnlocked(t) ==
  LET v == ver[t]
  IN /\ pc[t] = "stage"
     /\ CASE dir[v] = "absent" ->
               dir' = [dir EXCEPT ![v] = "partial"] /\ Go(t, "stage", "write") /\ UNCHANGED ver
          [] Verified(v) -> Go(t, "stage", "save") /\ UNCHANGED <<dir, ver>>
          [] OTHER -> End(t) /\ UNCHANGED dir
     /\ UNCHANGED <<intact, row, pointer, holder, seen, faults>> /\ UNCHANGED history

\* Mutant: the error of a second stage is swallowed half way.
StageStartKeepsVersion(t) ==
  /\ holder = None
  /\ pc[t] = "stage"
  /\ IF dir[ver[t]] = "absent"
       THEN /\ dir' = [dir EXCEPT ![ver[t]] = "partial"]
            /\ holder' = t
            /\ Go(t, "stage", "write")
       ELSE Go(t, "stage", "idle") /\ UNCHANGED <<dir, holder>>
  /\ UNCHANGED <<intact, row, pointer, ver, seen, faults>> /\ UNCHANGED history

\* store.stage: an existing manifest is verified and reused; otherwise the
\* directory is created, and one that exists without a manifest raises
\* FileExistsError.
StageStart(t) ==
  LET v == ver[t]
  IN /\ holder = None
     /\ pc[t] = "stage"
     /\ CASE dir[v] = "absent" ->
               /\ dir' = [dir EXCEPT ![v] = "partial"]
               /\ holder' = t
               /\ Go(t, "stage", "write")
               /\ UNCHANGED ver
          [] Verified(v) -> Go(t, "stage", "save") /\ UNCHANGED <<dir, holder, ver>>
          [] OTHER -> End(t) /\ UNCHANGED <<dir, holder>>
     /\ UNCHANGED <<intact, row, pointer, seen, faults>> /\ UNCHANGED history

\* Mutant: the lock is released only on the error path.
StageWriteLocked(t) ==
  /\ Go(t, "write", "save")
  /\ dir' = [dir EXCEPT ![ver[t]] = "manifest"]
  /\ intact' = intact \cup {ver[t]}
  /\ UNCHANGED <<row, pointer, holder, ver, seen, faults>> /\ UNCHANGED history

\* The artifact is written under a temporary name and moved into place, and
\* then, the same way, the manifest with its digest.  Under the lock only a
\* crash or a failure can show what lies between the two.
StageWrite(t) ==
  /\ Go(t, "write", "save")
  /\ dir' = [dir EXCEPT ![ver[t]] = "manifest"]
  /\ intact' = intact \cup {ver[t]}
  /\ holder' = None
  /\ UNCHANGED <<row, pointer, ver, seen, faults>> /\ UNCHANGED history

\* A write fails: stage removes what it made and raises.  That the removal fails
\* too is passed over (except OSError: pass), and the directory stays.
StageFails(t) ==
  /\ pc[t] = "write"
  /\ Fault
  /\ \/ /\ dir' = [dir EXCEPT ![ver[t]] = "absent"]
        /\ UNCHANGED littered
     \/ /\ littered' = littered \cup {ver[t]}
        /\ UNCHANGED dir
  /\ holder' = None
  /\ End(t)
  /\ UNCHANGED <<intact, row, pointer, seen, tainted, overlapped>>

\* repository.save looks for the version's row.  When it is there the request
\* only adds its prediction.
Save(t) ==
  /\ pc[t] = "save"
  /\ IF row[ver[t]] = "absent" THEN Go(t, "save", "insert") /\ UNCHANGED ver ELSE End(t)
  /\ UNCHANGED durable /\ UNCHANGED <<holder, seen, faults>> /\ UNCHANGED history

\* When it is not, the commit inserts it as a challenger.  A request that has
\* inserted it since the look makes this one fail on the primary key.
Insert(t) ==
  LET v == ver[t]
  IN /\ pc[t] = "insert"
     /\ IF row[v] = "absent"
          THEN row' = [row EXCEPT ![v] = "challenger"] /\ End(t)
          ELSE End(t) /\ UNCHANGED row
     /\ UNCHANGED <<dir, intact, pointer, holder, seen, faults>> /\ UNCHANGED history

\* The database fails under a save, which leaves no trace of it.
SaveFails(t) ==
  /\ pc[t] \in {"save", "insert"}
  /\ Fault
  /\ End(t)
  /\ UNCHANGED durable /\ UNCHANGED <<holder, seen>> /\ UNCHANGED history

------------------------------------------------------------------------------
\* The process dies.  A promotion between its commit and its activation is
\* never resumed.
Crash ==
  /\ Fault
  /\ tainted' = tainted \cup {ScopeOf[ver[p]] : p \in {q \in Promoters : pc[q] = "activate"}}
  /\ littered' = littered \cup {ver[t] : t \in {u \in Trainers : pc[u] = "write"}}
  /\ pc' = [t \in Threads |-> "idle"]
  /\ ver' = [t \in Threads |-> None]
  /\ seen' = [p \in Promoters |-> {}]
  /\ holder' = None
  /\ UNCHANGED durable /\ UNCHANGED overlapped

\* A staged artifact or its manifest is damaged on its volume: no verification accepts it.
Damage(v) ==
  /\ v \in intact
  /\ Fault
  /\ intact' = intact \ {v}
  /\ UNCHANGED <<dir, row, pointer>> /\ UNCHANGED threads /\ UNCHANGED history

Promote(p) ==
  \/ PromoteUpdate(p)
  \/ PromoteCommit(p)
  \/ PromoteActivate(p)

Predict(t) ==
  \/ StageStart(t)
  \/ StageWrite(t)
  \/ Save(t)
  \/ Insert(t)

Next ==
  \/ \E p \in Promoters, v \in Versions : PromoteStart(p, v)
  \/ \E p \in Promoters : Promote(p)
  \/ \E t \in Trainers, s \in Scopes : PredictActive(t, s)
  \/ \E t \in Trainers, v \in Versions : PredictTrain(t, v)
  \/ \E t \in Trainers : Predict(t)
  \/ \E t \in Trainers : StageFails(t) \/ SaveFails(t)
  \/ \E p \in Promoters : PromoteFails(p)
  \/ \E s \in Scopes : Rollback(s)
  \/ \E v \in Versions : Damage(v)
  \/ Crash

Spec == Init /\ [][Next]_vars

------------------------------------------------------------------------------
(***************************************************************************)
(* Properties.                                                             *)
(***************************************************************************)

\* A scope has at most one champion, whatever promotions overlap: the row lock
\* covers only the target, so it is the unique index that decides.
OneChampion ==
  \A v, w \in Versions :
    row[v] = "champion" /\ row[w] = "champion" /\ ScopeOf[v] = ScopeOf[w] => v = w

\* An active pointer, and what a rollback would restore, always name a complete
\* artifact of the pointer's own scope that is registered in the database, even
\* after crashes while staging (artifacts.py activate, current, rollback).
PointerIsComplete ==
  \A s \in Scopes : \A v \in {pointer[s].version, pointer[s].previous} \ {None} :
    dir[v] = "manifest" /\ ScopeOf[v] = s /\ row[v] # "absent"

\* A directory without a manifest that no request is filling is what a crash or
\* a clean-up that failed itself left, never what an error or two requests at
\* once did; it makes every later training of the version run into
\* FileExistsError (artifacts.py:66, 87-95), and the version is in no table.
LeftoversAreExplained ==
  \A v \in Versions : dir[v] = "partial" =>
    /\ v \in littered \/ \E t \in Trainers : pc[t] = "write" /\ ver[t] = v
    /\ row[v] = "absent"

\* As long as nothing fails from outside, a training request fails only against
\* another one that has just registered the same version (the look-up and the
\* insertion of sqlalchemy.py:531-557 are two).  The store turns none away: the
\* later ones find the manifest of the first (artifacts.py:61-64).  So whoever
\* asks again finds the artifact and the row.
TrainingIsRegistered ==
  [][\A t \in Trainers : pc[t] \notin {"idle", "save"} /\ pc'[t] = "idle" /\ faults' = 0
       => Verified(ver[t]) /\ row'[ver[t]] # "absent"]_vars

Settled(s) ==
  \A p \in Promoters : pc[p] # "idle" => ScopeOf[ver[p]] # s

\* In a settled scope the registry's champion is the version inference serves,
\* unless promotions of the scope overlapped, one ended between its two stores,
\* or an operator rolled back (services/model_registry.py promote).
PointerIsChampion ==
  \A s \in Scopes : Settled(s) /\ s \notin tainted \cup overlapped =>
    \A v \in Versions :
      ScopeOf[v] = s => (row[v] = "champion" <=> pointer[s].version = v)

\* The same with overlapping promotions: promotion "updates registry metadata
\* and atomically replaces the active scope pointer"
\* (docs/architecture/ml-prediction.md:33-34), so the champion is served.
ServesChampion ==
  \A s \in Scopes : Settled(s) /\ s \notin tainted =>
    \A v \in Versions :
      ScopeOf[v] = s /\ row[v] = "champion" => pointer[s].version = v

\* Requests never wait for each other in a circle over row locks, the champions
\* an UPDATE found and the store's lock: while any is busy, one can go on.
NoCircularWait ==
  (\E t \in Threads : pc[t] # "idle") =>
    \/ \E p \in Promoters : ENABLED Promote(p)
    \/ \E t \in Trainers : ENABLED Predict(t)
=============================================================================
