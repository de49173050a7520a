------------------------- MODULE ModelRegistryProofs -------------------------
(***************************************************************************)
(* Proofs about ModelRegistry, for every set of versions, scopes, threads  *)
(* and every number of faults.                                             *)
(***************************************************************************)
EXTENDS ModelRegistry, TLAPS

Constants == ScopeAssumption /\ NoneAssumption /\ ThreadAssumption /\ FaultAssumption

LEMMA ConstantsHold == Constants
  BY ScopeAssumption, NoneAssumption, ThreadAssumption, FaultAssumption DEF Constants

(***************************************************************************)
(* Type correctness.                                                       *)
(***************************************************************************)

LEMMA TypeInit == Init => TypeOK
<1> SUFFICES ASSUME Init PROVE TypeOK
  OBVIOUS
<1>1. pointer \in [Scopes -> Pointer]
  BY DEF Init, Pointer
<1>2. /\ pc \in [Threads -> Steps]
      /\ ver \in [Threads -> Versions \cup {None}]
      /\ \A t \in Threads : pc[t] = "idle" <=> ver[t] = None
  BY DEF Init, Steps
<1>3. faults \in 0..MaxFaults
  BY FaultAssumption DEF Init
<1> QED
  BY <1>1, <1>2, <1>3 DEF Init, TypeOK

\* Every step of the registry keeps every variable in its type.
LEMMA TypeStep == TypeOK /\ [Next]_vars => TypeOK'
<1> SUFFICES ASSUME TypeOK, [Next]_vars PROVE TypeOK'
  OBVIOUS
<1> USE ConstantsHold
    DEF Constants, ScopeAssumption, NoneAssumption, FaultAssumption, TypeOK, Steps,
        Threads, Go, End, Fault, threads, durable, history
<1>1. ASSUME NEW p \in Promoters, NEW v \in Versions, PromoteStart(p, v)
      PROVE  TypeOK'
  BY <1>1 DEF PromoteStart, Verified, Overlaps
<1>2. ASSUME NEW p \in Promoters, PromoteUpdate(p) PROVE TypeOK'
  BY <1>2 DEF PromoteUpdate, Others
<1>3. ASSUME NEW p \in Promoters, PromoteCommit(p) PROVE TypeOK'
  <2>1. row' \in [Versions -> {"absent", "challenger", "champion"}]
    BY <1>3 DEF PromoteCommit
  <2>2. /\ pc' \in [Threads -> Steps]
        /\ ver' \in [Threads -> Versions \cup {None}]
        /\ \A t \in Threads : pc'[t] = "idle" <=> ver'[t] = None
    BY <1>3 DEF PromoteCommit
  <2>3. seen' \in [Promoters -> SUBSET Versions]
    BY <1>3 DEF PromoteCommit
  <2> QED
    BY <1>3, <2>1, <2>2, <2>3 DEF PromoteCommit
<1>4. ASSUME NEW p \in Promoters, PromoteActivate(p) PROVE TypeOK'
  <2>1. ver[p] \in Versions /\ ScopeOf[ver[p]] \in Scopes
    BY <1>4 DEF PromoteActivate
  <2>2. pointer' \in [Scopes -> Pointer]
    BY <1>4, <2>1 DEF PromoteActivate, Pointer
  <2>3. tainted' \in SUBSET Scopes
    BY <1>4, <2>1 DEF PromoteActivate
  <2> QED
    BY <1>4, <2>2, <2>3 DEF PromoteActivate
<1>5. ASSUME NEW p \in Promoters, PromoteFails(p) PROVE TypeOK'
  BY <1>5 DEF PromoteFails
<1>6. ASSUME NEW t \in Trainers, NEW s \in Scopes, PredictActive(t, s)
      PROVE  TypeOK'
  <2>1. pointer[s].version \in Versions
    BY <1>6 DEF PredictActive, Pointer
  <2> QED
    BY <1>6, <2>1 DEF PredictActive, Verified
<1>7. ASSUME NEW t \in Trainers, NEW v \in Versions, PredictTrain(t, v)
      PROVE  TypeOK'
  BY <1>7 DEF PredictTrain
<1>8. ASSUME NEW t \in Trainers, StageStart(t) PROVE TypeOK'
  <2>1. CASE dir[ver[t]] = "absent"
    BY <1>8, <2>1 DEF StageStart
  <2>2. CASE dir[ver[t]] # "absent"
    BY <1>8, <2>2 DEF StageStart, Verified
  <2> QED
    BY <2>1, <2>2
<1>9. ASSUME NEW t \in Trainers, StageWrite(t) PROVE TypeOK'
  BY <1>9 DEF StageWrite
<1>10. ASSUME NEW t \in Trainers, Save(t) \/ Insert(t) PROVE TypeOK'
  BY <1>10 DEF Save, Insert
<1>11. ASSUME NEW t \in Trainers, StageFails(t) \/ SaveFails(t) PROVE TypeOK'
  BY <1>11 DEF StageFails, SaveFails
<1>12. ASSUME NEW s \in Scopes, Rollback(s) PROVE TypeOK'
  BY <1>12 DEF Rollback, Pointer
<1>13. ASSUME NEW v \in Versions, Damage(v) PROVE TypeOK'
  BY <1>13 DEF Damage
<1>14. CASE Crash
  <2>1. \A t \in Trainers : pc[t] = "write" => ver[t] \in Versions
    OBVIOUS
  <2>2. littered' \in SUBSET Versions /\ tainted' \in SUBSET Scopes
    BY <1>14, <2>1 DEF Crash
  <2> QED
    BY <1>14, <2>2 DEF Crash
<1>15. CASE UNCHANGED vars
  BY <1>15 DEF vars
<1> QED
  BY <1>1, <1>2, <1>3, <1>4, <1>5, <1>6, <1>7, <1>8, <1>9, <1>10, <1>11, <1>12,
     <1>13, <1>14, <1>15 DEF Next, Promote, Predict

\* Every variable keeps its type, and a thread works on a version exactly while
\* it serves a request (all modules of the registry).
THEOREM TypeCorrect == Spec => []TypeOK
  BY TypeInit, TypeStep, PTL DEF Spec

(***************************************************************************)
(* What a step may do to the registry table and to the staged directories. *)
(***************************************************************************)

\* Only a commit makes a champion, and no step removes a row.
LEMMA RowStep ==
  ASSUME TypeOK, [Next]_vars
  PROVE  /\ \A v \in Versions : row[v] # "absent" => row'[v] # "absent"
         /\ \/ \A v \in Versions : row'[v] = "champion" <=> row[v] = "champion"
            \/ \E p \in Promoters : PromoteCommit(p) /\ row' # row
<1> USE DEF TypeOK, durable, Fault
<1>1. ASSUME NEW p \in Promoters, PromoteCommit(p), row' # row
      PROVE  \A v \in Versions : row[v] # "absent" => row'[v] # "absent"
  BY <1>1 DEF PromoteCommit
<1>2. ASSUME NEW t \in Trainers, Insert(t)
      PROVE  \A v \in Versions : /\ row[v] # "absent" => row'[v] # "absent"
                                 /\ row'[v] = "champion" <=> row[v] = "champion"
  BY <1>2 DEF Insert
<1>3. \/ row' = row
      \/ \E p \in Promoters : PromoteCommit(p) /\ row' # row
      \/ \E t \in Trainers : Insert(t)
  BY DEF Next, Promote, Predict, PromoteStart, PromoteUpdate, PromoteActivate,
         PromoteFails, PredictActive, PredictTrain, StageStart, StageWrite,
         Save, StageFails, SaveFails, Rollback, Damage, Crash, vars
<1> QED
  BY <1>1, <1>2, <1>3

(***************************************************************************)
(* One champion per scope.                                                 *)
(***************************************************************************)

\* OneChampion is inductive: a commit succeeds only when the UPDATE demotes
\* every other champion of the scope.
LEMMA ChampionStep == TypeOK /\ OneChampion /\ [Next]_vars => OneChampion'
<1> SUFFICES ASSUME TypeOK, OneChampion, [Next]_vars PROVE OneChampion'
  OBVIOUS
<1>1. CASE \A v \in Versions : row'[v] = "champion" <=> row[v] = "champion"
  BY <1>1 DEF OneChampion
<1>2. ASSUME NEW p \in Promoters, PromoteCommit(p), row' # row
      PROVE  OneChampion'
  <2> DEFINE v == ver[p]
  <2>1. /\ \A w \in Others(v) : row[w] = "champion" => w \in seen[p]
        /\ row' = [w \in Versions |->
                     IF w = v THEN "champion"
                     ELSE IF w \in seen[p] /\ row[w] = "champion"
                       THEN "challenger" ELSE row[w]]
    BY <1>2 DEF PromoteCommit
  <2>2. \A w \in Versions :
          row'[w] = "champion" => w = v \/ (row[w] = "champion" /\ w \notin seen[p])
    BY <2>1
  <2>3. \A w \in Versions :
          row'[w] = "champion" /\ ScopeOf[w] = ScopeOf[v] => w = v
    BY <2>1, <2>2 DEF Others
  <2>4. \A w \in Versions :
          row'[w] = "champion" /\ ScopeOf[w] # ScopeOf[v] => row[w] = "champion"
    BY <2>2
  <2> QED
    BY <2>3, <2>4 DEF OneChampion
<1> QED
  BY <1>1, <1>2, RowStep

\* A scope has at most one champion, whatever promotions overlap
\* (repositories/sqlalchemy.py promote with the index of models/prediction.py).
THEOREM OneChampionCorrect == Spec => []OneChampion
<1>1. Init => OneChampion
  BY DEF Init, OneChampion
<1> QED
  BY <1>1, TypeInit, TypeStep, ChampionStep, PTL DEF Spec

(***************************************************************************)
(* Pointers and staged directories.                                        *)
(***************************************************************************)

\* The versions promoters work on are registered.
Promoting == \A p \in Promoters : pc[p] # "idle" => row[ver[p]] # "absent"

\* A trainer that fills a directory holds the store's lock and is the only one.
Filling ==
  \A t \in Trainers : pc[t] = "write" => holder = t /\ dir[ver[t]] = "partial"

\* What a trainer saves, and what the table knows, has a complete directory.
Backed ==
  /\ \A t \in Trainers : pc[t] \in {"save", "insert"} => dir[ver[t]] = "manifest"
  /\ \A v \in Versions : row[v] # "absent" => dir[v] = "manifest"

\* An incomplete directory is being filled, or is what a crash or a failed
\* clean-up left.
Explained ==
  \A v \in Versions : dir[v] = "partial" =>
    v \in littered \/ \E t \in Trainers : pc[t] = "write" /\ ver[t] = v

StoreInv == Promoting /\ Filling /\ PointerIsComplete /\ Backed /\ Explained

LEMMA PromotingStep == TypeOK /\ Promoting /\ [Next]_vars => Promoting'
<1> SUFFICES ASSUME TypeOK, Promoting, [Next]_vars,
                    NEW q \in Promoters, pc'[q] # "idle"
             PROVE  row'[ver'[q]] # "absent"
  BY DEF Promoting
<1>1. pc[q] # "idle" /\ ver'[q] = ver[q] => row'[ver'[q]] # "absent"
  BY RowStep DEF TypeOK, Promoting, Threads
<1>2. ASSUME NEW p \in Promoters, NEW v \in Versions, PromoteStart(p, v)
      PROVE  row'[ver'[q]] # "absent"
  BY <1>1, <1>2 DEF PromoteStart, TypeOK, Threads, Go, durable
<1>3. ASSUME NEW p \in Promoters, Promote(p) \/ PromoteFails(p)
      PROVE  row'[ver'[q]] # "absent"
  <2>1. pc[q] # "idle" /\ ver'[q] = ver[q]
    BY <1>3 DEF Promote, PromoteUpdate, PromoteCommit, PromoteActivate, PromoteFails,
                TypeOK, Threads, Go, End
  <2> QED
    BY <1>1, <2>1
<1>4. ASSUME NEW t \in Trainers, Predict(t) \/ StageFails(t) \/ SaveFails(t)
      PROVE  row'[ver'[q]] # "absent"
  <2>1. t # q
    BY ThreadAssumption DEF ThreadAssumption
  <2>2. pc[q] # "idle" /\ ver'[q] = ver[q]
    BY <1>4, <2>1 DEF Predict, StageStart, StageWrite, Save, Insert, StageFails, SaveFails, TypeOK,
                      Threads, Go, End
  <2> QED
    BY <1>1, <2>2
<1>5. ASSUME NEW t \in Trainers,
             \/ \E s \in Scopes : PredictActive(t, s)
             \/ \E v \in Versions : PredictTrain(t, v)
      PROVE  row'[ver'[q]] # "absent"
  <2>1. t # q
    BY ThreadAssumption DEF ThreadAssumption
  <2>2. pc[q] # "idle" /\ ver'[q] = ver[q]
    BY <1>5, <2>1 DEF PredictActive, PredictTrain, TypeOK, Threads, Go
  <2> QED
    BY <1>1, <2>2
<1>6. ASSUME \/ \E s \in Scopes : Rollback(s)
             \/ \E v \in Versions : Damage(v)
             \/ UNCHANGED vars
      PROVE  row'[ver'[q]] # "absent"
  BY <1>1, <1>6 DEF Rollback, Damage, threads, vars
<1>7. ~Crash
  BY DEF Crash, Threads
<1> QED
  BY <1>2, <1>3, <1>4, <1>5, <1>6, <1>7 DEF Next

\* Staging is exclusive: a trainer starts to fill a directory only when the lock
\* is free, and only the one that fills it moves the lock or the directory.
LEMMA FillingStep == TypeOK /\ Filling /\ [Next]_vars => Filling'
<1> SUFFICES ASSUME TypeOK, Filling, [Next]_vars,
                    NEW u \in Trainers, pc'[u] = "write"
             PROVE  holder' = u /\ dir'[ver'[u]] = "partial"
  BY DEF Filling
<1> USE DEF TypeOK, Threads, Go, End
<1>1. pc[u] = "write" /\ ver'[u] = ver[u] /\ holder' = holder /\ dir' = dir
        => holder' = u /\ dir'[ver'[u]] = "partial"
  BY DEF Filling
<1>2. ASSUME NEW t \in Trainers, StageStart(t)
      PROVE  holder' = u /\ dir'[ver'[u]] = "partial"
  <2>1. u = t
    BY <1>2, NoneAssumption DEF NoneAssumption, StageStart, Filling
  <2> QED
    BY <1>2, <2>1 DEF StageStart
<1>3. ASSUME NEW t \in Trainers, StageWrite(t) \/ StageFails(t)
      PROVE  FALSE
  <2>1. u # t /\ pc[u] = "write" /\ pc[t] = "write"
    BY <1>3 DEF StageWrite, StageFails
  <2> QED
    BY <2>1 DEF Filling
<1>4. ASSUME NEW t \in Trainers, Save(t) \/ Insert(t) \/ SaveFails(t)
      PROVE  holder' = u /\ dir'[ver'[u]] = "partial"
  BY <1>1, <1>4 DEF Save, Insert, SaveFails, durable
<1>5. ASSUME NEW t \in Trainers,
             \/ \E s \in Scopes : PredictActive(t, s)
             \/ \E v \in Versions : PredictTrain(t, v)
      PROVE  holder' = u /\ dir'[ver'[u]] = "partial"
  BY <1>1, <1>5 DEF PredictActive, PredictTrain, durable
<1>6. ASSUME NEW p \in Promoters,
             \/ \E v \in Versions : PromoteStart(p, v)
             \/ Promote(p)
             \/ PromoteFails(p)
      PROVE  holder' = u /\ dir'[ver'[u]] = "partial"
  <2>1. p # u
    BY ThreadAssumption DEF ThreadAssumption
  <2>2. pc[u] = "write" /\ ver'[u] = ver[u] /\ holder' = holder /\ dir' = dir
    BY <1>6, <2>1 DEF PromoteStart, Promote, PromoteUpdate, PromoteCommit,
                      PromoteActivate, PromoteFails, durable
  <2> QED
    BY <1>1, <2>2
<1>7. ASSUME \/ \E s \in Scopes : Rollback(s)
             \/ \E v \in Versions : Damage(v)
             \/ UNCHANGED vars
      PROVE  holder' = u /\ dir'[ver'[u]] = "partial"
  BY <1>1, <1>7 DEF Rollback, Damage, threads, vars
<1>8. ~Crash
  BY DEF Crash
<1> QED
  BY <1>2, <1>3, <1>4, <1>5, <1>6, <1>7, <1>8 DEF Next, Predict

\* A complete artifact stays complete: only an incomplete directory is written
\* or removed.
LEMMA ManifestStays ==
  ASSUME TypeOK, Filling, [Next]_vars
  PROVE  \A v \in Versions : dir[v] = "manifest" => dir'[v] = "manifest"
<1>1. ASSUME NEW t \in Trainers, Predict(t) \/ StageFails(t) \/ SaveFails(t)
      PROVE  \A v \in Versions : dir[v] = "manifest" => dir'[v] = "manifest"
  BY <1>1 DEF Predict, StageStart, StageWrite, StageFails, SaveFails, Save, Insert, Filling,
              TypeOK, durable
<1>2. \/ dir' = dir
      \/ \E t \in Trainers : Predict(t) \/ StageFails(t) \/ SaveFails(t)
  BY DEF Next, Promote, PromoteStart, PromoteUpdate, PromoteCommit, PromoteActivate,
         PromoteFails, PredictActive, PredictTrain, Rollback, Damage, Crash, durable, vars
<1> QED
  BY <1>1, <1>2

\* The pointer moves only to a version that was verified, or to the previous one.
LEMMA PointerStep ==
  TypeOK /\ Promoting /\ Filling /\ PointerIsComplete /\ [Next]_vars
    => PointerIsComplete'
<1> SUFFICES ASSUME TypeOK, Promoting, Filling, PointerIsComplete, [Next]_vars
             PROVE  PointerIsComplete'
  OBVIOUS
<1> DEFINE Complete(s, v) == dir[v] = "manifest" /\ ScopeOf[v] = s /\ row[v] # "absent"
<1>1. \A s \in Scopes, v \in Versions : Complete(s, v) => Complete(s, v)'
  BY ManifestStays, RowStep
<1>2. \A s \in Scopes : pointer[s] \in Pointer /\ pointer'[s] \in Pointer
  BY TypeStep DEF TypeOK
<1>3. \A s \in Scopes : \A v \in {pointer[s].version, pointer[s].previous} \ {None} :
        v \in Versions /\ Complete(s, v)
  BY <1>2 DEF PointerIsComplete, Pointer
<1>4. ASSUME NEW p \in Promoters, PromoteActivate(p)
      PROVE  PointerIsComplete'
  <2>1. CASE Verified(ver[p])
    <3> DEFINE z == ScopeOf[ver[p]]
    <3>1. ver[p] \in Versions /\ z \in Scopes
      BY <1>4, ScopeAssumption DEF PromoteActivate, TypeOK, Threads, ScopeAssumption
    <3>2. Complete(z, ver[p])
      BY <1>4, <2>1 DEF PromoteActivate, Verified, Promoting
    <3>3. pointer' = [pointer EXCEPT ![z] = [version |-> ver[p], previous |-> @.version]]
      BY <1>4, <2>1 DEF PromoteActivate
    <3>4. ASSUME NEW s \in Scopes,
                 NEW v \in {pointer'[s].version, pointer'[s].previous} \ {None}
          PROVE  v \in Versions /\ Complete(s, v)
      <4>1. CASE s = z
        BY <1>3, <3>1, <3>2, <3>3, <4>1 DEF TypeOK
      <4>2. CASE s # z
        BY <1>3, <3>3, <4>2 DEF TypeOK
      <4> QED
        BY <4>1, <4>2
    <3> QED
      BY <1>1, <3>4 DEF PointerIsComplete
  <2>2. CASE ~Verified(ver[p])
    BY <1>1, <1>3, <1>4, <2>2 DEF PromoteActivate, PointerIsComplete
  <2> QED
    BY <2>1, <2>2
<1>5. ASSUME NEW z \in Scopes, Rollback(z)
      PROVE  PointerIsComplete'
  <2>1. pointer' = [pointer EXCEPT ![z] = [version |-> @.previous, previous |-> @.version]]
    BY <1>5 DEF Rollback
  <2>2. \A s \in Scopes :
          {pointer'[s].version, pointer'[s].previous}
            = {pointer[s].version, pointer[s].previous}
    BY <2>1 DEF TypeOK
  <2> QED
    BY <1>1, <1>3, <2>2 DEF PointerIsComplete
<1>6. \/ pointer' = pointer
      \/ \E p \in Promoters : PromoteActivate(p)
      \/ \E s \in Scopes : Rollback(s)
  BY DEF Next, Promote, Predict, PromoteStart, PromoteUpdate, PromoteCommit,
         PromoteFails, PredictActive, PredictTrain, StageStart, StageWrite,
         StageFails, SaveFails, Save, Insert, Damage, Crash, durable, vars
<1>7. CASE pointer' = pointer
  BY <1>1, <1>3, <1>7 DEF PointerIsComplete
<1> QED
  BY <1>4, <1>5, <1>6, <1>7

\* A trainer saves only what it has verified or written itself, and only a
\* trainer that saves adds a row.
LEMMA BackedStep == TypeOK /\ Promoting /\ Filling /\ Backed /\ [Next]_vars => Backed'
<1> SUFFICES ASSUME TypeOK, Promoting, Filling, Backed, [Next]_vars PROVE Backed'
  OBVIOUS
<1> USE DEF TypeOK, Threads, Go, End
<1>0. \A v \in Versions : dir[v] = "manifest" => dir'[v] = "manifest"
  BY ManifestStays
<1>1. ASSUME \A v \in Versions : row'[v] # "absent" => row[v] # "absent",
             \A t \in Trainers : pc'[t] \in {"save", "insert"} =>
               ver'[t] = ver[t] /\ pc[t] \in {"save", "insert"}
      PROVE  Backed'
  <2>1. \A v \in Versions : row'[v] # "absent" => dir'[v] = "manifest"
    BY <1>0, <1>1 DEF Backed
  <2>2. \A t \in Trainers : pc[t] \in {"save", "insert"} =>
          ver[t] \in Versions /\ dir[ver[t]] = "manifest"
    BY DEF Backed
  <2> QED
    BY <1>0, <1>1, <2>1, <2>2 DEF Backed
<1>2. ASSUME NEW t \in Trainers, StageStart(t) \/ StageWrite(t) PROVE Backed'
  <2>1. /\ row' = row /\ ver[t] \in Versions
        /\ pc'[t] \in {"save", "insert"} => dir'[ver'[t]] = "manifest"
        /\ \A u \in Trainers \ {t} : pc'[u] = pc[u] /\ ver'[u] = ver[u]
    BY <1>2 DEF StageStart, StageWrite, Verified
  <2>2. \A u \in Trainers \ {t} : pc[u] \in {"save", "insert"} =>
          ver[u] \in Versions /\ dir'[ver[u]] = "manifest"
    BY <1>0 DEF Backed
  <2>3. \A v \in Versions : row'[v] # "absent" => dir'[v] = "manifest"
    BY <1>0, <2>1 DEF Backed
  <2> QED
    BY <2>1, <2>2, <2>3 DEF Backed
<1>3. ASSUME NEW t \in Trainers, NEW s \in Scopes, PredictActive(t, s) PROVE Backed'
  <2>1. /\ row' = row /\ dir' = dir /\ dir[ver'[t]] = "manifest"
        /\ \A u \in Trainers \ {t} : pc'[u] = pc[u] /\ ver'[u] = ver[u]
    BY <1>3, TypeStep DEF PredictActive, Verified, durable
  <2> QED
    BY <2>1 DEF Backed
<1>4. ASSUME NEW t \in Trainers, Insert(t) PROVE Backed'
  <2>1. /\ dir' = dir /\ dir[ver[t]] = "manifest" /\ pc'[t] = "idle"
        /\ \A u \in Trainers \ {t} : pc'[u] = pc[u] /\ ver'[u] = ver[u]
        /\ \A v \in Versions : row'[v] # "absent" => row[v] # "absent" \/ v = ver[t]
    BY <1>4 DEF Insert, Backed
  <2> QED
    BY <2>1 DEF Backed
<1>5. ASSUME NEW t \in Trainers,
             \/ Save(t) \/ StageFails(t) \/ SaveFails(t)
             \/ \E v \in Versions : PredictTrain(t, v)
      PROVE  Backed'
  BY <1>1, <1>5 DEF Save, StageFails, SaveFails, PredictTrain, durable
<1>6. ASSUME NEW p \in Promoters,
             \/ \E v \in Versions : PromoteStart(p, v)
             \/ PromoteUpdate(p) \/ PromoteActivate(p) \/ PromoteFails(p)
      PROVE  Backed'
  <2>1. p \notin Trainers
    BY ThreadAssumption DEF ThreadAssumption
  <2> QED
    BY <1>1, <1>6, <2>1 DEF PromoteStart, PromoteUpdate, PromoteActivate, PromoteFails, durable
<1>7. ASSUME NEW p \in Promoters, PromoteCommit(p) PROVE Backed'
  <2>1. p \notin Trainers /\ pc[p] = "commit" /\ ver[p] \in Versions
    BY <1>7, ThreadAssumption DEF ThreadAssumption, PromoteCommit
  <2>2. \A v \in Versions : row'[v] # "absent" => row[v] # "absent"
    BY <1>7, <2>1 DEF PromoteCommit, Promoting
  <2> QED
    BY <1>1, <1>7, <2>1, <2>2 DEF PromoteCommit
<1>8. CASE \/ \E s \in Scopes : Rollback(s)
           \/ \E v \in Versions : Damage(v)
           \/ UNCHANGED vars
  BY <1>1, <1>8 DEF Rollback, Damage, threads, vars
<1>9. CASE Crash
  BY <1>1, <1>9 DEF Crash, durable
<1> QED
  BY <1>2, <1>3, <1>4, <1>5, <1>6, <1>7, <1>8, <1>9 DEF Next, Promote, Predict

\* A directory becomes incomplete with a trainer that fills it, and whatever ends
\* that trainer completes the directory, removes it or records the litter.
LEMMA ExplainedStep == TypeOK /\ Explained /\ [Next]_vars => Explained'
<1> SUFFICES ASSUME TypeOK, Explained, [Next]_vars,
                    NEW v \in Versions, dir'[v] = "partial"
             PROVE  v \in littered' \/ \E t \in Trainers : pc'[t] = "write" /\ ver'[t] = v
  BY DEF Explained
<1> USE DEF TypeOK, Threads, Go, End, history
<1>1. ASSUME littered \subseteq littered', dir[v] = "partial",
             \A t \in Trainers : pc[t] = "write" /\ ver[t] = v
                                  => pc'[t] = "write" /\ ver'[t] = v
      PROVE  v \in littered' \/ \E t \in Trainers : pc'[t] = "write" /\ ver'[t] = v
  BY <1>1 DEF Explained
<1>2. ASSUME NEW t \in Trainers, StageStart(t)
      PROVE  v \in littered' \/ \E u \in Trainers : pc'[u] = "write" /\ ver'[u] = v
  <2>1. CASE dir[ver[t]] = "absent" /\ ver[t] = v
    BY <1>2, <2>1 DEF StageStart
  <2>2. CASE ~(dir[ver[t]] = "absent" /\ ver[t] = v)
    <3>1. dir[v] = "partial" /\ littered' = littered
      BY <1>2, <2>2 DEF StageStart
    <3>2. \A u \in Trainers : pc[u] = "write" /\ ver[u] = v
                               => pc'[u] = "write" /\ ver'[u] = v
      BY <1>2 DEF StageStart
    <3> QED
      BY <1>1, <3>1, <3>2
  <2> QED
    BY <2>1, <2>2
<1>3. ASSUME NEW t \in Trainers, StageWrite(t) \/ StageFails(t)
      PROVE  v \in littered' \/ \E u \in Trainers : pc'[u] = "write" /\ ver'[u] = v
  <2>1. ver[t] \in Versions
    BY <1>3 DEF StageWrite, StageFails
  <2>2. dir[v] = "partial" /\ littered \subseteq littered' /\ (v = ver[t] => v \in littered')
    BY <1>3, <2>1 DEF StageWrite, StageFails
  <2>3. v # ver[t] => \A u \in Trainers : pc[u] = "write" /\ ver[u] = v
                             => pc'[u] = "write" /\ ver'[u] = v
    BY <1>3 DEF StageWrite, StageFails
  <2> QED
    BY <1>1, <2>2, <2>3
<1>4. ASSUME NEW t \in Trainers,
             \/ Save(t) \/ Insert(t) \/ SaveFails(t)
             \/ \E s \in Scopes : PredictActive(t, s)
             \/ \E w \in Versions : PredictTrain(t, w)
      PROVE  v \in littered' \/ \E u \in Trainers : pc'[u] = "write" /\ ver'[u] = v
  BY <1>1, <1>4 DEF Save, Insert, SaveFails, PredictActive, PredictTrain, durable
<1>5. ASSUME NEW p \in Promoters,
             \/ \E w \in Versions : PromoteStart(p, w)
             \/ Promote(p)
             \/ PromoteFails(p)
      PROVE  v \in littered' \/ \E u \in Trainers : pc'[u] = "write" /\ ver'[u] = v
  <2>1. p \notin Trainers
    BY ThreadAssumption DEF ThreadAssumption
  <2>2. /\ littered' = littered /\ dir' = dir
        /\ \A u \in Trainers : pc'[u] = pc[u] /\ ver'[u] = ver[u]
    BY <1>5, <2>1 DEF PromoteStart, Promote, PromoteUpdate, PromoteCommit,
                      PromoteActivate, PromoteFails, durable
  <2> QED
    BY <1>1, <2>2
<1>6. ASSUME \/ \E s \in Scopes : Rollback(s)
             \/ \E w \in Versions : Damage(w)
             \/ UNCHANGED vars
      PROVE  v \in littered' \/ \E u \in Trainers : pc'[u] = "write" /\ ver'[u] = v
  BY <1>1, <1>6 DEF Rollback, Damage, threads, vars
<1>7. ASSUME Crash PROVE v \in littered'
  BY <1>7 DEF Crash, Explained, durable
<1> QED
  BY <1>2, <1>3, <1>4, <1>5, <1>6, <1>7 DEF Next, Predict

LEMMA StoreInit == Init => StoreInv
  BY DEF Init, StoreInv, Promoting, Filling, PointerIsComplete, Backed, Explained, Threads

LEMMA StoreStep == TypeOK /\ StoreInv /\ [Next]_vars => StoreInv'
  BY PromotingStep, FillingStep, PointerStep, BackedStep, ExplainedStep DEF StoreInv

\* Active and previous pointers always name complete artifacts of their own scope
\* that the registry knows (prediction/artifacts.py activate and rollback).
THEOREM PointerCorrect == Spec => []PointerIsComplete
<1>1. StoreInv => PointerIsComplete
  BY DEF StoreInv
<1> QED
  BY <1>1, TypeInit, TypeStep, StoreInit, StoreStep, PTL DEF Spec

\* A directory that later trainings of the version stumble over is what a crash
\* or a clean-up that failed itself left, and its version is in no table
\* (prediction/artifacts.py stage).
THEOREM LeftoversCorrect == Spec => []LeftoversAreExplained
<1>1. StoreInv => LeftoversAreExplained
  BY DEF StoreInv, Backed, Explained, LeftoversAreExplained
<1> QED
  BY <1>1, TypeInit, TypeStep, StoreInit, StoreStep, PTL DEF Spec

(***************************************************************************)
(* Training the same version at the same time.                             *)
(***************************************************************************)

\* Before the first fault every complete directory verifies.
Undamaged ==
  faults = 0 => littered = {} /\ \A v \in Versions : dir[v] = "manifest" => v \in intact

LEMMA UndamagedStep == TypeOK /\ Undamaged /\ [Next]_vars => Undamaged'
<1> SUFFICES ASSUME TypeOK, Undamaged, [Next]_vars, faults' = 0 PROVE Undamaged'
  BY DEF Undamaged
<1> USE DEF TypeOK, Threads, Go, End, history, durable, threads
<1>1. ASSUME littered' = littered, faults' = faults, intact' = intact,
             \A v \in Versions : dir'[v] = "manifest" => dir[v] = "manifest"
      PROVE  Undamaged'
  BY <1>1 DEF Undamaged
<1>2. ASSUME NEW t \in Trainers, StageStart(t) PROVE Undamaged'
  BY <1>1, <1>2 DEF StageStart
<1>3. ASSUME NEW t \in Trainers, StageWrite(t) PROVE Undamaged'
  BY <1>3 DEF StageWrite, Undamaged
<1>4. ASSUME NEW t \in Trainers,
             \/ Save(t) \/ Insert(t)
             \/ \E s \in Scopes : PredictActive(t, s)
             \/ \E v \in Versions : PredictTrain(t, v)
      PROVE  Undamaged'
  BY <1>1, <1>4 DEF Save, Insert, PredictActive, PredictTrain
<1>5. ASSUME NEW p \in Promoters, (\E v \in Versions : PromoteStart(p, v)) \/ Promote(p)
      PROVE  Undamaged'
  BY <1>1, <1>5 DEF PromoteStart, Promote, PromoteUpdate, PromoteCommit, PromoteActivate
<1>6. CASE (\E s \in Scopes : Rollback(s)) \/ UNCHANGED vars
  BY <1>1, <1>6 DEF Rollback, vars
<1>7. ASSUME \/ \E p \in Promoters : PromoteFails(p)
             \/ \E t \in Trainers : StageFails(t) \/ SaveFails(t)
             \/ \E v \in Versions : Damage(v)
             \/ Crash
      PROVE  FALSE
  BY <1>7 DEF PromoteFails, StageFails, SaveFails, Damage, Crash, Fault
<1> QED
  BY <1>2, <1>3, <1>4, <1>5, <1>6, <1>7 DEF Next, Predict

\* The lock is free when a trainer looks at the directory of its version, so that
\* nobody is filling it: it is absent, complete, or litter.  A trainer that saves
\* has a complete directory.
LEMMA TrainingStep ==
  ASSUME TypeOK, StoreInv, Undamaged, [Next]_vars, faults' = 0,
         NEW t \in Trainers, pc[t] \notin {"idle", "save"}, pc'[t] = "idle"
  PROVE  Verified(ver[t]) /\ row'[ver[t]] # "absent"
<1> USE DEF TypeOK, Threads, Go, End, history, durable, threads
<1>1. ASSUME StageStart(t) PROVE FALSE
  <2>1. /\ holder = None /\ ver[t] \in Versions /\ faults' = faults
        /\ dir[ver[t]] # "absent" /\ ~Verified(ver[t])
    BY <1>1 DEF StageStart
  <2>2. \A u \in Trainers : pc[u] # "write"
    BY <2>1, NoneAssumption DEF NoneAssumption, StoreInv, Filling
  <2>3. CASE dir[ver[t]] = "partial"
    BY <2>1, <2>2, <2>3 DEF StoreInv, Explained, Undamaged
  <2>4. CASE dir[ver[t]] = "manifest"
    BY <2>1, <2>4 DEF Verified, Undamaged
  <2> QED
    BY <2>1, <2>3, <2>4
<1>2. CASE Insert(t)
  <2>1. ver[t] \in Versions /\ dir[ver[t]] = "manifest" /\ faults = 0
    BY <1>2 DEF Insert, StoreInv, Backed
  <2>2. row'[ver[t]] # "absent"
    BY <1>2, <2>1 DEF Insert
  <2> QED
    BY <2>1, <2>2 DEF Undamaged, Verified
<1>3. ASSUME \/ Crash \/ StageFails(t) \/ SaveFails(t) PROVE FALSE
  BY <1>3 DEF Crash, StageFails, SaveFails, Fault
<1>4. ASSUME NEW u \in Trainers,
             \/ u # t /\ (StageStart(u) \/ StageFails(u) \/ Insert(u) \/ SaveFails(u))
             \/ StageWrite(u) \/ Save(u)
             \/ \E s \in Scopes : PredictActive(u, s)
             \/ \E v \in Versions : PredictTrain(u, v)
      PROVE  FALSE
  BY <1>4 DEF StageStart, StageWrite, StageFails, SaveFails, Save, Insert, PredictActive,
              PredictTrain
<1>5. ASSUME NEW p \in Promoters,
             \/ \E v \in Versions : PromoteStart(p, v)
             \/ Promote(p) \/ PromoteFails(p)
      PROVE  FALSE
  <2>1. p # t
    BY ThreadAssumption DEF ThreadAssumption
  <2> QED
    BY <1>5, <2>1 DEF PromoteStart, Promote, PromoteUpdate, PromoteCommit,
                      PromoteActivate, PromoteFails
<1>6. ASSUME \/ \E s \in Scopes : Rollback(s)
             \/ \E v \in Versions : Damage(v)
             \/ UNCHANGED vars
      PROVE  FALSE
  BY <1>6 DEF Rollback, Damage, vars
<1> QED
  BY <1>1, <1>2, <1>3, <1>4, <1>5, <1>6 DEF Next, Predict

\* As long as nothing fails from outside, a training request that fails has lost
\* the insertion of the row to another request of the same version: the artifact
\* and the row are there (prediction/artifacts.py:61-64, repositories/sqlalchemy.py
\* :531-557).
THEOREM TrainingRegisters == Spec => TrainingIsRegistered
<1> DEFINE Registers ==
      \A t \in Trainers : pc[t] \notin {"idle", "save"} /\ pc'[t] = "idle" /\ faults' = 0
        => Verified(ver[t]) /\ row'[ver[t]] # "absent"
<1>1. Init => Undamaged
  BY DEF Init, Undamaged
<1>2. TypeOK /\ StoreInv /\ Undamaged /\ [Next]_vars => [Registers]_vars
  BY TrainingStep
<1> QED
  BY <1>1, <1>2, TypeInit, TypeStep, StoreInit, StoreStep, UndamagedStep, PTL
  DEF Spec, TrainingIsRegistered

(***************************************************************************)
(* Waiting for locks.                                                      *)
(***************************************************************************)

\* Where the requests of each kind may be, and what the store's lock says.
Places ==
  /\ \A p \in Promoters : pc[p] \in {"idle", "update", "commit", "activate"}
  /\ \A t \in Trainers : pc[t] \in {"idle", "stage", "write", "save", "insert"}
  /\ holder # None => holder \in Trainers /\ pc[holder] = "write"

Committing == {p \in Promoters : pc[p] = "commit"}

\* A row is locked by one promotion.
OwnRows == \A p, q \in Committing : ver[p] = ver[q] => p = q

\* A promotion with a champion to demote is not that of the champion, and nobody
\* else can promote its version before it commits.
Challenges == \A p \in Committing : seen[p] # {} => row[ver[p]] # "champion"

\* The promotion p has found the version of q as champion, whose row q has locked.
WaitsFor(p, q) == q # p /\ ver[q] \in seen[p]

\* In each group of promotions that hold a row, one waits for none of the group.
NoCircle ==
  \A S \in SUBSET Committing : S # {} => \E p \in S : \A q \in S : ~WaitsFor(p, q)

WaitInv == Places /\ OwnRows /\ Challenges /\ NoCircle

LEMMA PlacesStep == TypeOK /\ Filling /\ Places /\ [Next]_vars => Places'
<1> SUFFICES ASSUME TypeOK, Filling, Places, [Next]_vars PROVE Places'
  OBVIOUS
<1> USE ThreadAssumption DEF ThreadAssumption, TypeOK, Threads, Go, End, history, durable, threads
<1>1. ASSUME NEW p \in Promoters,
             \/ \E v \in Versions : PromoteStart(p, v)
             \/ Promote(p) \/ PromoteFails(p)
      PROVE  Places'
  BY <1>1 DEF PromoteStart, Promote, PromoteUpdate, PromoteCommit, PromoteActivate,
              PromoteFails, Places
<1>2. ASSUME NEW t \in Trainers, StageStart(t) PROVE Places'
  BY <1>2 DEF StageStart, Places
<1>3. ASSUME NEW t \in Trainers, StageWrite(t) \/ StageFails(t) PROVE Places'
  BY <1>3 DEF StageWrite, StageFails, Places
<1>4. ASSUME NEW t \in Trainers,
             \/ Save(t) \/ Insert(t) \/ SaveFails(t)
             \/ \E s \in Scopes : PredictActive(t, s)
             \/ \E v \in Versions : PredictTrain(t, v)
      PROVE  Places'
  BY <1>4 DEF Save, Insert, SaveFails, PredictActive, PredictTrain, Places
<1>5. CASE Crash
  BY <1>5 DEF Crash, Places
<1>6. CASE (\E s \in Scopes : Rollback(s)) \/ (\E v \in Versions : Damage(v)) \/ UNCHANGED vars
  BY <1>6 DEF Rollback, Damage, vars, Places
<1> QED
  BY <1>1, <1>2, <1>3, <1>4, <1>5, <1>6 DEF Next, Predict

\* Only an UPDATE makes a promotion hold its row, and until it ends neither its
\* version nor what it has seen changes.
LEMMA CommittingStep ==
  ASSUME TypeOK, Places, [Next]_vars
  PROVE  \/ \E p \in Promoters : PromoteUpdate(p)
         \/ /\ Committing' \subseteq Committing
            /\ \A p \in Committing' : ver'[p] = ver[p] /\ seen'[p] = seen[p]
<1> USE ThreadAssumption
    DEF ThreadAssumption, TypeOK, Threads, Go, End, history, durable, threads, Committing
<1>1. ASSUME NEW p \in Promoters,
             \/ \E v \in Versions : PromoteStart(p, v)
             \/ PromoteCommit(p) \/ PromoteActivate(p) \/ PromoteFails(p)
      PROVE  /\ Committing' \subseteq Committing
             /\ \A q \in Committing' : ver'[q] = ver[q] /\ seen'[q] = seen[q]
  BY <1>1 DEF PromoteStart, PromoteCommit, PromoteActivate, PromoteFails
<1>2. ASSUME NEW t \in Trainers,
             \/ Predict(t) \/ StageFails(t) \/ SaveFails(t)
             \/ \E s \in Scopes : PredictActive(t, s)
             \/ \E v \in Versions : PredictTrain(t, v)
      PROVE  \A p \in Promoters : pc'[p] = pc[p] /\ ver'[p] = ver[p] /\ seen'[p] = seen[p]
  BY <1>2 DEF Predict, StageStart, StageWrite, StageFails, SaveFails, Save, Insert, PredictActive, PredictTrain
<1>3. CASE (\E s \in Scopes : Rollback(s)) \/ (\E v \in Versions : Damage(v)) \/ UNCHANGED vars
  BY <1>3 DEF Rollback, Damage, vars
<1>4. CASE Crash
  BY <1>4 DEF Crash
<1> QED
  BY <1>1, <1>2, <1>3, <1>4 DEF Next, Promote

\* What an UPDATE leaves: its row was free, it sees the champions of the moment.
LEMMA UpdateStep ==
  ASSUME TypeOK, NEW p \in Promoters, PromoteUpdate(p)
  PROVE  /\ p \notin Committing /\ Committing' = Committing \cup {p}
         /\ \A q \in Committing : ver[q] # ver[p] /\ seen'[q] = seen[q]
         /\ seen'[p] = {w \in Others(ver[p]) : row[w] = "champion"}
         /\ ver' = ver /\ row' = row
  BY DEF PromoteUpdate, RowLocked, Committing, TypeOK, Threads, Go, durable, history

LEMMA OwnRowsStep ==
  TypeOK /\ Places /\ OwnRows /\ [Next]_vars => OwnRows'
<1> SUFFICES ASSUME TypeOK, Places, OwnRows, [Next]_vars PROVE OwnRows'
  OBVIOUS
<1>1. ASSUME NEW p \in Promoters, PromoteUpdate(p) PROVE OwnRows'
  BY <1>1, UpdateStep DEF OwnRows
<1>2. CASE /\ Committing' \subseteq Committing
           /\ \A p \in Committing' : ver'[p] = ver[p] /\ seen'[p] = seen[p]
  BY <1>2 DEF OwnRows
<1> QED
  BY <1>1, <1>2, CommittingStep

LEMMA ChallengesStep ==
  TypeOK /\ OneChampion /\ Places /\ OwnRows /\ Challenges /\ [Next]_vars => Challenges'
<1> SUFFICES ASSUME TypeOK, OneChampion, Places, OwnRows, Challenges, [Next]_vars
             PROVE  Challenges'
  OBVIOUS
<1>1. ASSUME NEW p \in Promoters, PromoteUpdate(p) PROVE Challenges'
  <2>1. ver[p] \in Versions
    BY <1>1 DEF PromoteUpdate, TypeOK, Threads, Go
  <2>2. seen'[p] # {} => row[ver[p]] # "champion"
    BY <1>1, <2>1, UpdateStep DEF OneChampion, Others
  <2> QED
    BY <1>1, <2>2, UpdateStep DEF Challenges
<1>2. CASE /\ Committing' \subseteq Committing
           /\ \A p \in Committing' : ver'[p] = ver[p] /\ seen'[p] = seen[p]
  <2>1. ASSUME NEW p \in Promoters, PromoteCommit(p), row' # row PROVE Challenges'
    <3>1. p \in Committing /\ p \notin Committing'
      BY <2>1 DEF PromoteCommit, Committing, TypeOK, Threads, Go
    <3>2. \A w \in Versions : row'[w] = "champion" => w = ver[p] \/ row[w] = "champion"
      BY <2>1 DEF PromoteCommit
    <3>3. \A q \in Committing' : ver[q] \in Versions /\ ver[q] # ver[p]
      BY <1>2, <3>1 DEF OwnRows, Committing, TypeOK, Threads
    <3> QED
      BY <1>2, <3>2, <3>3 DEF Challenges
  <2>2. CASE \A v \in Versions : row'[v] = "champion" <=> row[v] = "champion"
    <3>1. \A q \in Committing : ver[q] \in Versions
      BY DEF Committing, TypeOK, Threads
    <3> QED
      BY <1>2, <2>2, <3>1 DEF Challenges
  <2> QED
    BY <2>1, <2>2, RowStep
<1> QED
  BY <1>1, <1>2, CommittingStep

\* An UPDATE adds a promotion that waits, if at all, for the promotion of a champion,
\* which has nothing to demote and waits for nobody.
LEMMA NoCircleStep ==
  TypeOK /\ Places /\ Challenges /\ NoCircle /\ [Next]_vars => NoCircle'
<1> SUFFICES ASSUME TypeOK, Places, Challenges, NoCircle, [Next]_vars,
                    NEW S \in SUBSET Committing', S # {}
             PROVE  \E p \in S : \A q \in S : ~WaitsFor(p, q)'
  BY DEF NoCircle
<1>1. ASSUME NEW p \in Promoters, PromoteUpdate(p)
      PROVE  \E r \in S : \A q \in S : ~WaitsFor(r, q)'
  <2>1. CASE p \notin S
    <3>1. S \in SUBSET Committing /\ \A q \in S : ver'[q] = ver[q] /\ seen'[q] = seen[q]
      BY <1>1, <2>1, UpdateStep
    <3> QED
      BY <3>1 DEF NoCircle, WaitsFor
  <2>2. CASE p \in S /\ \A q \in S : ~WaitsFor(p, q)'
    BY <2>2
  <2>3. ASSUME p \in S, NEW q \in S, WaitsFor(p, q)'
        PROVE  \E r \in S : \A s \in S : ~WaitsFor(r, s)'
    <3>1. q \in Committing /\ row[ver[q]] = "champion" /\ seen'[q] = seen[q]
      BY <1>1, <2>3, UpdateStep DEF WaitsFor
    <3>2. seen[q] = {}
      BY <3>1 DEF Challenges
    <3> QED
      BY <3>1, <3>2 DEF WaitsFor
  <2> QED
    BY <2>1, <2>2, <2>3
<1>2. CASE /\ Committing' \subseteq Committing
           /\ \A p \in Committing' : ver'[p] = ver[p] /\ seen'[p] = seen[p]
  <2>1. S \in SUBSET Committing /\ \A q \in S : ver'[q] = ver[q] /\ seen'[q] = seen[q]
    BY <1>2
  <2> QED
    BY <2>1 DEF NoCircle, WaitsFor
<1> QED
  BY <1>1, <1>2, CommittingStep

LEMMA WaitStep ==
  TypeOK /\ OneChampion /\ StoreInv /\ WaitInv /\ [Next]_vars => WaitInv'
  BY PlacesStep, OwnRowsStep, ChallengesStep, NoCircleStep DEF WaitInv, StoreInv

\* The next step of a promotion, and of a prediction, does not have to wait.
MayPromote(p) ==
  \/ pc[p] = "update" /\ ~RowLocked(p, ver[p])
  \/ pc[p] = "commit" /\ \A w \in seen[p] : ~RowLocked(p, w)
  \/ pc[p] = "activate" /\ holder = None

MayPredict(t) ==
  \/ pc[t] = "stage" /\ holder = None
  \/ pc[t] \in {"write", "save", "insert"}

SomeoneMayGoOn ==
  (\E t \in Threads : pc[t] # "idle") =>
    (\E p \in Promoters : MayPromote(p)) \/ (\E t \in Trainers : MayPredict(t))

LEMMA SomeoneGoesOn == WaitInv => SomeoneMayGoOn
<1> SUFFICES ASSUME WaitInv, NEW t \in Threads, pc[t] # "idle",
                    \A u \in Trainers : ~MayPredict(u)
             PROVE  \E p \in Promoters : MayPromote(p)
  BY DEF SomeoneMayGoOn
<1>1. holder = None
  BY DEF WaitInv, Places, MayPredict
<1>2. t \in Promoters
  BY <1>1 DEF WaitInv, Places, MayPredict, Threads
<1>3. CASE Committing = {}
  BY <1>1, <1>2, <1>3 DEF WaitInv, Places, MayPromote, RowLocked, Committing
<1>4. CASE Committing # {}
  <2>1. PICK p \in Committing : \A q \in Committing : ~WaitsFor(p, q)
    BY <1>4 DEF WaitInv, NoCircle
  <2>2. p \in Promoters /\ pc[p] = "commit"
    BY DEF Committing
  <2>3. \A w \in seen[p] : ~RowLocked(p, w)
    BY <2>1 DEF WaitsFor, RowLocked, Committing
  <2> QED
    BY <2>2, <2>3 DEF MayPromote
<1> QED
  BY <1>3, <1>4

\* Requests never wait for each other in a circle over the row locks, the champions
\* an UPDATE found and the store's lock, however many there are: while any is busy,
\* the next step of one has nothing to wait for (NoCircularWait, with the guards of
\* the actions in the place of ENABLED).
THEOREM NobodyWaitsInACircle == Spec => []SomeoneMayGoOn
<1>1. Init => WaitInv
  <2>1. Init => Committing = {}
    BY DEF Init, Committing, Threads
  <2>2. Init => Places
    BY DEF Init, Places, Threads
  <2> QED
    BY <2>1, <2>2 DEF WaitInv, OwnRows, Challenges, NoCircle
<1>2. Init => OneChampion
  BY DEF Init, OneChampion
<1> QED
  BY <1>1, <1>2, TypeInit, TypeStep, StoreInit, StoreStep, ChampionStep, WaitStep,
     SomeoneGoesOn, PTL DEF Spec

(***************************************************************************)
(* The champion is the version served.                                     *)
(***************************************************************************)

\* Two promotions of one scope make it count as overlapped.
Alone ==
  \A p, q \in Promoters :
    p # q /\ pc[p] # "idle" /\ pc[q] # "idle" /\ ScopeOf[ver[p]] = ScopeOf[ver[q]]
      => ScopeOf[ver[p]] \in overlapped

\* An UPDATE finds only other versions of its scope.
SeenInScope == \A p \in Promoters : pc[p] = "commit" => seen[p] \subseteq Others(ver[p])

Activating(s, p) == pc[p] = "activate" /\ ScopeOf[ver[p]] = s

\* Between its commit and its activation a promotion knows the champion; at all
\* other times the pointer does.
Agreement ==
  \A s \in Scopes \ (tainted \cup overlapped) : \A v \in Versions : ScopeOf[v] = s =>
    /\ (\A p \in Promoters : ~Activating(s, p))
         => (row[v] = "champion" <=> pointer[s].version = v)
    /\ \A p \in Promoters : Activating(s, p) => (row[v] = "champion" <=> v = ver[p])

ServeInv == Alone /\ SeenInScope /\ Agreement

\* What a step that is no promotion's does: the promotions are where they were.
LEMMA ServeOther ==
  ASSUME TypeOK, ServeInv,
         \A p \in Promoters : pc'[p] = pc[p] /\ ver'[p] = ver[p] /\ seen'[p] = seen[p],
         \A v \in Versions : row'[v] = "champion" <=> row[v] = "champion",
         pointer' = pointer, tainted' = tainted, overlapped' = overlapped
  PROVE  ServeInv'
<1>1. Alone'
  BY DEF ServeInv, Alone
<1>2. SeenInScope'
  BY DEF ServeInv, SeenInScope, Others
<1>3. Agreement'
  BY DEF ServeInv, Agreement, Activating
<1> QED
  BY <1>1, <1>2, <1>3 DEF ServeInv

LEMMA ServeStart ==
  ASSUME TypeOK, ServeInv, NEW p \in Promoters, NEW v \in Versions, PromoteStart(p, v)
  PROVE  ServeInv'
<1> USE DEF TypeOK, Threads, Go, durable
<1>1. /\ pc[p] = "idle" /\ pc'[p] = "update" /\ ver'[p] = v
      /\ \A q \in Promoters \ {p} : pc'[q] = pc[q] /\ ver'[q] = ver[q]
      /\ overlapped \subseteq overlapped'
      /\ Overlaps(p, v) => ScopeOf[v] \in overlapped'
      /\ seen' = seen /\ row' = row /\ pointer' = pointer /\ tainted' = tainted
  BY DEF PromoteStart
<1>2. Alone'
  BY <1>1 DEF ServeInv, Alone, Overlaps
<1>3. SeenInScope'
  BY <1>1 DEF ServeInv, SeenInScope, Others
<1>4. Agreement'
  BY <1>1 DEF ServeInv, Agreement, Activating
<1> QED
  BY <1>2, <1>3, <1>4 DEF ServeInv

LEMMA ServeUpdate ==
  ASSUME TypeOK, ServeInv, NEW p \in Promoters, PromoteUpdate(p)
  PROVE  ServeInv'
<1> USE DEF TypeOK, Threads, Go, durable, history
<1>1. /\ pc[p] = "update" /\ pc'[p] = "commit" /\ ver' = ver
      /\ \A q \in Promoters \ {p} : pc'[q] = pc[q] /\ seen'[q] = seen[q]
      /\ seen'[p] \subseteq Others(ver[p])
      /\ row' = row /\ pointer' = pointer /\ tainted' = tainted /\ overlapped' = overlapped
  BY DEF PromoteUpdate
<1>2. Alone'
  BY <1>1 DEF ServeInv, Alone
<1>3. SeenInScope'
  BY <1>1 DEF ServeInv, SeenInScope, Others
<1>4. Agreement'
  BY <1>1 DEF ServeInv, Agreement, Activating
<1> QED
  BY <1>2, <1>3, <1>4 DEF ServeInv

\* A promotion that ends without having moved a champion or a pointer.
LEMMA ServeEnd ==
  ASSUME TypeOK, ServeInv, NEW p \in Promoters, End(p), pc[p] # "idle",
         row' = row, pointer' = pointer, overlapped' = overlapped,
         seen' = [seen EXCEPT ![p] = {}] \/ seen' = seen,
         tainted \subseteq tainted',
         pc[p] = "activate" => ScopeOf[ver[p]] \in tainted'
  PROVE  ServeInv'
<1> USE DEF TypeOK, Threads, End
<1>1. /\ pc'[p] = "idle"
      /\ \A q \in Promoters \ {p} : pc'[q] = pc[q] /\ ver'[q] = ver[q] /\ seen'[q] = seen[q]
  OBVIOUS
<1>2. Alone'
  BY <1>1 DEF ServeInv, Alone
<1>3. SeenInScope'
  BY <1>1 DEF ServeInv, SeenInScope, Others
<1>4. Agreement'
  BY <1>1 DEF ServeInv, Agreement, Activating
<1> QED
  BY <1>2, <1>3, <1>4 DEF ServeInv

LEMMA ServeCommit ==
  ASSUME TypeOK, ServeInv, NEW p \in Promoters, PromoteCommit(p)
  PROVE  ServeInv'
<1> DEFINE v == ver[p]
           z == ScopeOf[v]
           missed == {w \in Others(v) : row[w] = "champion"} \ seen[p]
<1>1. v \in Versions /\ z \in Scopes /\ pc[p] = "commit"
  BY ScopeAssumption DEF ScopeAssumption, PromoteCommit, TypeOK, Threads
<1>2. CASE missed # {}
  BY <1>1, <1>2, ServeEnd DEF PromoteCommit, history
<1>3. CASE missed = {}
  <2>1. /\ row' = [w \in Versions |->
                     IF w = v THEN "champion"
                     ELSE IF w \in seen[p] /\ row[w] = "champion"
                       THEN "challenger" ELSE row[w]]
        /\ pc'[p] = "activate" /\ ver' = ver
        /\ \A q \in Promoters \ {p} : pc'[q] = pc[q] /\ seen'[q] = seen[q]
        /\ pointer' = pointer /\ tainted' = tainted /\ overlapped' = overlapped
    BY <1>3 DEF PromoteCommit, Go, TypeOK, Threads, history
  <2>2. ASSUME NEW w \in Versions, ScopeOf[w] = z
        PROVE  row'[w] = "champion" <=> w = v
    <3>1. w # v /\ row[w] = "champion" => w \in seen[p]
      BY <1>3, <2>2 DEF Others
    <3> QED
      BY <2>1, <3>1
  <2>3. \A w \in Versions : ScopeOf[w] # z => row'[w] = row[w]
    BY <1>1, <2>1 DEF ServeInv, SeenInScope, Others
  <2>4. Alone'
    BY <1>1, <2>1 DEF ServeInv, Alone
  <2>5. SeenInScope'
    BY <2>1 DEF ServeInv, SeenInScope, Others
  <2>6. ASSUME NEW s \in Scopes \ (tainted' \cup overlapped'),
               NEW w \in Versions, ScopeOf[w] = s
        PROVE  /\ (\A q \in Promoters : ~Activating(s, q)')
                    => (row'[w] = "champion" <=> pointer'[s].version = w)
               /\ \A q \in Promoters : Activating(s, q)' => (row'[w] = "champion" <=> w = ver'[q])
    <3>1. CASE s = z
      <4>1. \A q \in Promoters \ {p} : pc[q] = "idle" \/ ScopeOf[ver[q]] # z
        BY <1>1, <2>1, <2>6, <3>1 DEF ServeInv, Alone
      <4>2. \A q \in Promoters : Activating(s, q)' <=> q = p
        BY <2>1, <3>1, <4>1 DEF Activating
      <4> QED
        BY <2>1, <2>2, <2>6, <3>1, <4>2
    <3>2. CASE s # z
      <4>1. \A q \in Promoters : Activating(s, q)' <=> Activating(s, q)
        BY <1>1, <2>1, <3>2 DEF Activating
      <4> QED
        BY <2>1, <2>3, <2>6, <3>2, <4>1 DEF ServeInv, Agreement
    <3> QED
      BY <3>1, <3>2
  <2> QED
    BY <2>4, <2>5, <2>6 DEF ServeInv, Agreement
<1> QED
  BY <1>2, <1>3

LEMMA ServeActivate ==
  ASSUME TypeOK, ServeInv, NEW p \in Promoters, PromoteActivate(p)
  PROVE  ServeInv'
<1> DEFINE z == ScopeOf[ver[p]]
<1>1. ver[p] \in Versions /\ z \in Scopes /\ pc[p] = "activate"
  BY ScopeAssumption DEF ScopeAssumption, PromoteActivate, TypeOK, Threads
<1>2. CASE ~Verified(ver[p])
  BY <1>1, <1>2, ServeEnd DEF PromoteActivate
<1>3. CASE Verified(ver[p])
  <2>1. /\ pc'[p] = "idle"
        /\ \A q \in Promoters \ {p} : pc'[q] = pc[q] /\ ver'[q] = ver[q]
        /\ pointer'[z].version = ver[p]
        /\ \A s \in Scopes \ {z} : pointer'[s] = pointer[s]
        /\ row' = row /\ seen' = seen /\ tainted' = tainted /\ overlapped' = overlapped
    BY <1>1, <1>3 DEF PromoteActivate, End, TypeOK, Threads
  <2>2. Alone'
    BY <2>1 DEF ServeInv, Alone
  <2>3. SeenInScope'
    BY <2>1 DEF ServeInv, SeenInScope, Others
  <2>4. ASSUME NEW s \in Scopes \ (tainted' \cup overlapped'),
               NEW w \in Versions, ScopeOf[w] = s
        PROVE  /\ (\A q \in Promoters : ~Activating(s, q)')
                    => (row'[w] = "champion" <=> pointer'[s].version = w)
               /\ \A q \in Promoters : Activating(s, q)' => (row'[w] = "champion" <=> w = ver'[q])
    <3>1. CASE s = z
      <4>1. \A q \in Promoters : ~Activating(s, q)'
        BY <1>1, <2>1, <2>4, <3>1 DEF ServeInv, Alone, Activating
      <4>2. row[w] = "champion" <=> w = ver[p]
        BY <1>1, <2>1, <2>4, <3>1 DEF ServeInv, Agreement, Activating
      <4> QED
        BY <2>1, <3>1, <4>1, <4>2
    <3>2. CASE s # z
      <4>1. \A q \in Promoters : Activating(s, q)' <=> Activating(s, q)
        BY <1>1, <2>1, <3>2 DEF Activating
      <4>2. \A q \in Promoters : Activating(s, q) => ver'[q] = ver[q]
        BY <1>1, <2>1, <3>2 DEF Activating
      <4> QED
        BY <2>1, <2>4, <3>2, <4>1, <4>2 DEF ServeInv, Agreement
    <3> QED
      BY <3>1, <3>2
  <2> QED
    BY <2>2, <2>3, <2>4 DEF ServeInv, Agreement
<1> QED
  BY <1>2, <1>3

LEMMA ServeCrash ==
  ASSUME TypeOK, ServeInv, Crash
  PROVE  ServeInv'
<1>1. /\ \A p \in Promoters : pc'[p] = "idle"
      /\ \A p \in Promoters : pc[p] = "activate" => ScopeOf[ver[p]] \in tainted'
      /\ tainted \subseteq tainted'
      /\ row' = row /\ pointer' = pointer /\ overlapped' = overlapped
  BY DEF Crash, Threads, durable
<1>2. Alone' /\ SeenInScope'
  BY <1>1 DEF Alone, SeenInScope
<1>3. Agreement'
  BY <1>1 DEF ServeInv, Agreement, Activating
<1> QED
  BY <1>2, <1>3 DEF ServeInv

LEMMA ServeStep == TypeOK /\ ServeInv /\ [Next]_vars => ServeInv'
<1> SUFFICES ASSUME TypeOK, ServeInv, [Next]_vars PROVE ServeInv'
  OBVIOUS
<1>1. ASSUME NEW p \in Promoters, PromoteFails(p) PROVE ServeInv'
  BY <1>1, ServeEnd DEF PromoteFails, durable
<1>2. ASSUME NEW s \in Scopes, Rollback(s) PROVE ServeInv'
  <2>1. /\ pc' = pc /\ ver' = ver /\ seen' = seen /\ row' = row
        /\ overlapped' = overlapped /\ tainted' = tainted \cup {s}
        /\ \A x \in Scopes \ {s} : pointer'[x] = pointer[x]
    BY <1>2 DEF Rollback, threads, TypeOK
  <2>2. Alone' /\ SeenInScope'
    BY <2>1 DEF ServeInv, Alone, SeenInScope, Others
  <2>3. Agreement'
    BY <2>1 DEF ServeInv, Agreement, Activating
  <2> QED
    BY <2>2, <2>3 DEF ServeInv
<1>3. ASSUME NEW t \in Trainers,
             \/ Predict(t)
             \/ StageFails(t) \/ SaveFails(t)
             \/ \E s \in Scopes : PredictActive(t, s)
             \/ \E v \in Versions : PredictTrain(t, v)
      PROVE  ServeInv'
  <2>1. t \notin Promoters
    BY ThreadAssumption DEF ThreadAssumption
  <2>2. \A p \in Promoters : pc'[p] = pc[p] /\ ver'[p] = ver[p] /\ seen'[p] = seen[p]
    BY <1>3, <2>1 DEF Predict, StageStart, StageWrite, Save, Insert, StageFails, SaveFails, PredictActive,
                      PredictTrain, Go, End, TypeOK, Threads
  <2>3. \A v \in Versions : row'[v] = "champion" <=> row[v] = "champion"
    BY <1>3 DEF Predict, StageStart, StageWrite, Save, Insert, StageFails, SaveFails, PredictActive,
                PredictTrain, TypeOK, durable
  <2>4. pointer' = pointer /\ tainted' = tainted /\ overlapped' = overlapped
    BY <1>3 DEF Predict, StageStart, StageWrite, Save, Insert, StageFails, SaveFails, PredictActive,
                PredictTrain, durable, history
  <2> QED
    BY <2>2, <2>3, <2>4, ServeOther
<1>4. ASSUME (\E v \in Versions : Damage(v)) \/ UNCHANGED vars PROVE ServeInv'
  BY <1>4, ServeOther DEF Damage, threads, history, vars
<1> QED
  BY <1>1, <1>2, <1>3, <1>4, ServeStart, ServeUpdate, ServeCommit, ServeActivate, ServeCrash
  DEF Next, Promote

\* In a settled scope the champion is the version served, unless promotions of the
\* scope overlapped, one ended between its two stores, or an operator rolled back
\* (services/model_registry.py promote).
THEOREM ServedCorrect == Spec => []PointerIsChampion
<1>1. Init => ServeInv
  BY NoneAssumption
  DEF Init, ServeInv, Alone, SeenInScope, Agreement, Activating, Threads, NoneAssumption
<1>2. ServeInv => PointerIsChampion
  BY DEF ServeInv, Agreement, Activating, PointerIsChampion, Settled
<1> QED
  BY <1>1, <1>2, TypeInit, TypeStep, ServeStep, PTL DEF Spec
=============================================================================
