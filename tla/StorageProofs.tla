--------------------------- MODULE StorageProofs ----------------------------
(***************************************************************************)
(* Proofs about the components that keep rows: DataRetention, for any      *)
(* services, tables and retentions, any overlap of the scheduler with      *)
(* administrators, any failures and restarts; CandlePartitions, for every  *)
(* lookahead, every age of the archive and every depth of an ingestion;    *)
(* PortfolioSync, for any number of synchronisations, every course of the  *)
(* account's real holdings and any number of failures; CandleIngestion,    *)
(* for any ingestors, candles and responses, and any failures.             *)
(***************************************************************************)
EXTENDS DataRetention, CandlePartitions, PortfolioSync, CandleIngestion,
  DataLemmas, FiniteSetTheorems, TLAPS

-----------------------------------------------------------------------------
(* DataRetention *)

\* A cleanup that has begun names one of the services, and a run in the past.
RetentionTypes ==
  /\ retentionDay \in Nat
  /\ \A r \in retentionRows : r.created \in Nat
  /\ cleaning \in [Callers -> [service : Services \cup {"none"}, run : Nat \cup {Never},
                               deleted : BOOLEAN]]
  /\ retentionStatus \in [Services -> [state : {"pending", "healthy", "failed"},
                              run : Nat \cup {Never}]]

RunsArePast ==
  /\ \A c \in Callers : cleaning[c].run <= retentionDay
  /\ \A s \in Services : retentionStatus[s].run <= retentionDay

\* What a cleanup has deleted does not come back: rows are created later than its run.
DeletedIsClean ==
  \A c \in Callers : cleaning[c].deleted =>
    /\ cleaning[c].service \in Services
    /\ Eligible(cleaning[c].service, cleaning[c].run) = {}

RetentionInv == RetentionTypes /\ RunsArePast /\ DeletedIsClean /\ HealthyMeansClean

\* Rows of today are not expired at any run there has been, whatever their dataset.
LEMMA NewRowsStay ==
  ASSUME RetentionAssumption, NEW service \in Services, NEW run \in Nat \cup {Never},
         NEW today \in Nat, run <= today, NEW dataset \in Covers[service]
  PROVE  ~ (today < run - Retention[dataset])
<1>1. Retention[dataset] \in Nat \ {0}
  BY DEF RetentionAssumption
<1> QED
  BY <1>1 DEF Never

\* Nothing becomes expired at a run of the past while only rows of today are added.
LEMMA CleanStays ==
  ASSUME RetentionAssumption, RetentionTypes, NEW service \in Services, NEW run \in Nat \cup {Never},
         run <= retentionDay, Eligible(service, run) = {},
         \A r \in retentionRows' : r \in retentionRows \/ r.created = retentionDay
  PROVE  Eligible(service, run)' = {}
<1>1. ASSUME NEW r \in retentionRows', r.dataset \in Covers[service],
             r.created < run - Retention[r.dataset]
      PROVE  FALSE
  <2>1. CASE r \in retentionRows
    BY <1>1, <2>1 DEF Eligible
  <2>2. CASE r.created = retentionDay
    BY <1>1, <2>2, NewRowsStay DEF RetentionTypes
  <2> QED
    BY <2>1, <2>2
<1> QED
  BY <1>1 DEF Eligible

LEMMA RetentionInvInit ==
  ASSUME RetentionAssumption, RetentionInit
  PROVE  RetentionInv
BY DEF RetentionInit, RetentionInv, RetentionTypes, RunsArePast, DeletedIsClean, HealthyMeansClean, NotCleaning,
   Pending, Never

\* A step that adds no row but today's, and changes neither cleanups nor status.
LEMMA OtherStep ==
  ASSUME RetentionAssumption, RetentionInv, UNCHANGED <<cleaning, retentionStatus>>,
         retentionDay' \in Nat, retentionDay <= retentionDay',
         \A r \in retentionRows' : r \in retentionRows \/ r.created = retentionDay
  PROVE  RetentionInv'
<1>1. RetentionTypes'
  BY DEF RetentionInv, RetentionTypes
<1>2. RunsArePast'
  BY DEF RetentionInv, RetentionTypes, RunsArePast, Never
<1>3. DeletedIsClean'
  BY CleanStays DEF RetentionInv, RetentionTypes, RunsArePast, DeletedIsClean
<1>4. HealthyMeansClean'
  BY CleanStays DEF RetentionInv, RetentionTypes, RunsArePast, HealthyMeansClean
<1> QED
  BY <1>1, <1>2, <1>3, <1>4 DEF RetentionInv

LEMMA StopStep ==
  ASSUME RetentionAssumption, RetentionInv, StopCleaner
  PROVE  RetentionInv'
BY DEF StopCleaner, RetentionInv, RetentionTypes, RunsArePast, DeletedIsClean, HealthyMeansClean, NotCleaning,
   Pending, Never

LEMMA BeginStep ==
  ASSUME RetentionAssumption, RetentionInv, NEW caller \in Callers, NEW service \in Services,
         BeginCleanup(caller, service)
  PROVE  RetentionInv'
<1> DEFINE new == [service |-> service, run |-> retentionDay, deleted |-> FALSE]
<1>1. cleaning' = [cleaning EXCEPT ![caller] = new] /\ UNCHANGED <<retentionDay, retentionRows, retentionStatus>>
  BY DEF BeginCleanup
<1>2. \A c \in Callers : cleaning'[c] = IF c = caller THEN new ELSE cleaning[c]
  BY <1>1 DEF RetentionInv, RetentionTypes
<1>3. RetentionTypes'
  BY <1>1 DEF RetentionInv, RetentionTypes
<1>4. RunsArePast'
  BY <1>1, <1>2 DEF RetentionInv, RetentionTypes, RunsArePast
<1>5. DeletedIsClean'
  BY <1>1, <1>2 DEF RetentionInv, DeletedIsClean, Eligible
<1>6. HealthyMeansClean'
  BY <1>1 DEF RetentionInv, HealthyMeansClean, Eligible
<1> QED
  BY <1>3, <1>4, <1>5, <1>6 DEF RetentionInv

LEMMA DeleteStep ==
  ASSUME RetentionAssumption, RetentionInv, NEW caller \in Callers, Delete(caller)
  PROVE  RetentionInv'
<1> DEFINE service == cleaning[caller].service
           run == cleaning[caller].run
<1>1. /\ service \in Services /\ retentionRows' = retentionRows \ Eligible(service, run)
      /\ cleaning' = [cleaning EXCEPT ![caller].deleted = TRUE]
      /\ UNCHANGED <<retentionDay, retentionStatus>>
  BY DEF Delete, RetentionInv, RetentionTypes
<1>2. \A s \in Services, n \in Nat \cup {Never} : Eligible(s, n)' \subseteq Eligible(s, n)
  BY <1>1 DEF Eligible
<1>3. Eligible(service, run)' = {}
  BY <1>1 DEF Eligible
<1>4. \A c \in Callers : /\ cleaning'[c].service = cleaning[c].service
                         /\ cleaning'[c].run = cleaning[c].run
                         /\ c # caller => cleaning'[c].deleted = cleaning[c].deleted
  BY <1>1 DEF RetentionInv, RetentionTypes
<1>5. RetentionTypes'
  <2>1. [cleaning[caller] EXCEPT !.deleted = TRUE] \in
          [service : Services \cup {"none"}, run : Nat \cup {Never}, deleted : BOOLEAN]
    BY DEF RetentionInv, RetentionTypes
  <2>2. /\ \A r \in retentionRows' : r.created \in Nat
        /\ retentionDay' \in Nat
    BY <1>1 DEF RetentionInv, RetentionTypes
  <2>3. cleaning' = [cleaning EXCEPT ![caller] = [cleaning[caller] EXCEPT !.deleted = TRUE]]
    BY <1>1
  <2>4. cleaning' \in [Callers -> [service : Services \cup {"none"}, run : Nat \cup {Never},
                                   deleted : BOOLEAN]]
    BY <2>1, <2>3 DEF RetentionInv, RetentionTypes
  <2> QED
    BY <1>1, <2>2, <2>4 DEF RetentionInv, RetentionTypes
<1>6. RunsArePast'
  BY <1>1, <1>4 DEF RetentionInv, RunsArePast
<1>7. DeletedIsClean'
  <2>1. ASSUME NEW c \in Callers, cleaning'[c].deleted
        PROVE  cleaning[c].service \in Services
               /\ Eligible(cleaning[c].service, cleaning[c].run)' = {}
    <3>1. CASE c = caller
      BY <1>1, <1>3, <1>4, <3>1
    <3>2. CASE c # caller
      BY <1>2, <1>4, <2>1, <3>2 DEF RetentionInv, RetentionTypes, DeletedIsClean
    <3> QED
      BY <3>1, <3>2
  <2> QED
    BY <1>4, <2>1 DEF DeletedIsClean, Eligible
<1>8. HealthyMeansClean'
  BY <1>1, <1>2 DEF RetentionInv, RetentionTypes, HealthyMeansClean
<1> QED
  BY <1>5, <1>6, <1>7, <1>8 DEF RetentionInv

LEMMA NoteStep ==
  ASSUME RetentionAssumption, RetentionInv, NEW caller \in Callers,
         NoteSuccess(caller) \/ DeleteFails(caller)
  PROVE  RetentionInv'
<1> DEFINE service == cleaning[caller].service
<1>1. PICK state \in {"healthy", "failed"} :
        /\ Note(caller, state)
        /\ state = "healthy" => cleaning[caller].deleted
  BY DEF NoteSuccess, DeleteFails
<1>2. service \in Services
  BY DEF NoteSuccess, DeleteFails, RetentionInv, RetentionTypes, DeletedIsClean
<1>3. /\ retentionStatus' = [retentionStatus EXCEPT ![service] = [state |-> state, run |-> cleaning[caller].run]]
      /\ cleaning' = [cleaning EXCEPT ![caller] = NotCleaning]
      /\ UNCHANGED <<retentionDay, retentionRows>>
  BY <1>1 DEF Note
<1>4. RetentionTypes'
  BY <1>1, <1>2, <1>3 DEF RetentionInv, RetentionTypes, NotCleaning, Never
<1>5. RunsArePast'
  BY <1>2, <1>3 DEF RetentionInv, RetentionTypes, RunsArePast, NotCleaning, Never
<1>6. DeletedIsClean'
  BY <1>3 DEF RetentionInv, RetentionTypes, DeletedIsClean, NotCleaning, Eligible
<1>7. HealthyMeansClean'
  BY <1>1, <1>2, <1>3 DEF RetentionInv, RetentionTypes, DeletedIsClean, HealthyMeansClean, Eligible
<1> QED
  BY <1>4, <1>5, <1>6, <1>7 DEF RetentionInv

LEMMA RetentionInvStep ==
  ASSUME RetentionAssumption, RetentionInv, [RetentionNext]_retentionVars
  PROVE  RetentionInv'
<1>1. CASE NextDay \/ StartCleaner \/ UNCHANGED retentionVars
  BY <1>1, OtherStep DEF NextDay, StartCleaner, retentionVars, RetentionInv, RetentionTypes
<1>2. ASSUME NEW dataset \in Datasets, Create(dataset)
      PROVE  RetentionInv'
  BY <1>2, OtherStep DEF Create, RetentionInv, RetentionTypes
<1> QED
  BY <1>1, <1>2, StopStep, BeginStep, DeleteStep, NoteStep DEF RetentionNext, Cleaning

\* The invariant from which the theorem follows holds in every reachable state.
THEOREM RetentionInvariant ==
  ASSUME RetentionAssumption
  PROVE  RetentionSpec => []RetentionInv
<1>1. RetentionInit => RetentionInv
  BY RetentionInvInit
<1>2. RetentionInv /\ [RetentionNext]_retentionVars => RetentionInv'
  BY RetentionInvStep
<1> QED
  BY <1>1, <1>2, PTL DEF RetentionSpec

\* A service that tells of a successful run has no row left that was expired at that
\* run, however cleanups overlap, fail and restart (services/data_lifecycle.py,
\* services/provider_audit.py).
THEOREM HealthyMeansCleanCorrect ==
  ASSUME RetentionAssumption
  PROVE  RetentionSpec => []HealthyMeansClean
<1>1. RetentionInv => HealthyMeansClean
  BY DEF RetentionInv
<1> QED
  BY <1>1, RetentionInvariant, PTL

-----------------------------------------------------------------------------
(* CandlePartitions *)

PartitionsTypes ==
  /\ partitionDay \in 0 .. MaxPartitionDay /\ partitionUp \in BOOLEAN /\ partitionDue \in BOOLEAN
  /\ partitions \subseteq Nat /\ stray \subseteq Nat /\ ensured \subseteq Nat
  /\ partitionFailures \in 0 .. MaxPartitionFailures

\* Candles lie in the default partition for months that have begun only.
StrayIsPast == \A m \in stray : m <= Month(partitionDay)

\* A run of ensure_future leaves partitions for all the months of its plan.
EnsuredIsPlanned ==
  \A m \in ensured : \A k \in 1 .. Lookahead : m + k \in partitions

PartitionsInv ==
  /\ PartitionsTypes
  /\ StrayIsPast
  /\ stray \cap partitions = {}
  /\ EnsuredIsPlanned

\* A day belongs to a month, later days to the same or to later ones.
LEMMA Months ==
  ASSUME NEW d \in Nat
  PROVE  Month(d) \in Nat /\ Month(d) <= Month(d + 1)
BY DEF Month

LEMMA PlannedIsFuture ==
  ASSUME PartitionsAssumption, NEW d \in Nat
  PROVE  /\ Planned(d) \subseteq Nat
         /\ \A m \in Planned(d) : m > Month(d)
         /\ \A k \in 1 .. Lookahead : Month(d) + k \in Planned(d)
BY Months DEF Planned, PartitionsAssumption

LEMMA PartitionsInvInit ==
  ASSUME PartitionsAssumption, PartitionsInit
  PROVE  PartitionsInv
BY DEF PartitionsInit, PartitionsInv, PartitionsTypes, StrayIsPast, EnsuredIsPlanned, PartitionsAssumption

LEMMA PartitionsInvStep ==
  ASSUME PartitionsAssumption, PartitionsInv, [PartitionsNext]_partitionsVars
  PROVE  PartitionsInv'
<1>1. partitionDay \in Nat /\ Month(partitionDay) \in Nat
  BY Months DEF PartitionsInv, PartitionsTypes
<1>2. CASE NextHalfMonth
  <2>1. partitionDay' = partitionDay + 1 /\ partitionDay' \in 0 .. MaxPartitionDay /\ partitionDue' \in BOOLEAN
    BY <1>2 DEF NextHalfMonth, PartitionsInv, PartitionsTypes, PartitionsAssumption, IsTwentieth
  <2>2. Month(partitionDay) <= Month(partitionDay')
    BY <1>1, <2>1, Months
  <2>3. StrayIsPast'
    BY <1>1, <1>2, <2>1, <2>2, Months DEF NextHalfMonth, PartitionsInv, PartitionsTypes, StrayIsPast
  <2> QED
    BY <1>2, <2>1, <2>3 DEF NextHalfMonth, PartitionsInv, PartitionsTypes, EnsuredIsPlanned
<1>3. CASE StopMaintenance \/ StartMaintenance \/ EnsureFails
  <2>1. partitionFailures' \in 0 .. MaxPartitionFailures /\ partitionDue' \in BOOLEAN /\ partitionUp' \in BOOLEAN
    <3>1. partitionFailures \in 0 .. MaxPartitionFailures /\ partitionUp \in BOOLEAN
      BY DEF PartitionsInv, PartitionsTypes
    <3>2. CASE StopMaintenance \/ StartMaintenance
      BY <3>1, <3>2 DEF StopMaintenance, StartMaintenance
    <3>3. CASE EnsureFails
      <4>1. partitionFailures' \in 0 .. MaxPartitionFailures
        BY <3>1, <3>3 DEF EnsureFails, PartitionsAssumption
      <4> QED
        BY <3>1, <3>3, <4>1 DEF EnsureFails
    <3> QED
      BY <1>3, <3>2, <3>3
  <2>2. UNCHANGED <<partitionDay, partitions, stray, ensured>>
    BY <1>3 DEF StopMaintenance, StartMaintenance, EnsureFails
  <2>3. PartitionsTypes' /\ EnsuredIsPlanned'
    BY <2>1, <2>2 DEF PartitionsInv, PartitionsTypes, EnsuredIsPlanned
  <2>4. StrayIsPast' /\ (stray \cap partitions = {})'
    BY <2>2 DEF PartitionsInv, StrayIsPast, Month
  <2> QED
    BY <2>3, <2>4 DEF PartitionsInv
<1>4. CASE EnsureFuture
  <2>1. CASE Blocked(Planned(partitionDay) \ partitions)
    BY <1>4, <2>1 DEF EnsureFuture, PartitionsInv, PartitionsTypes, StrayIsPast, EnsuredIsPlanned, Month
  <2>2. CASE ~ Blocked(Planned(partitionDay) \ partitions)
    <3>1. /\ partitions' = partitions \cup Planned(partitionDay)
          /\ ensured' = ensured \cup {Month(partitionDay)}
          /\ UNCHANGED <<partitionDay, stray, partitionUp, partitionFailures>> /\ partitionDue' = FALSE
      BY <1>4, <2>2 DEF EnsureFuture
    <3>2. PartitionsTypes'
      BY <1>1, <3>1, PlannedIsFuture DEF PartitionsInv, PartitionsTypes
    <3>3. StrayIsPast'
      BY <3>1 DEF PartitionsInv, StrayIsPast, Month
    <3>4. (stray \cap partitions = {})'
      <4>1. ASSUME NEW m \in stray
            PROVE  m \notin partitions /\ m \notin Planned(partitionDay)
        <5>1. m \in Nat /\ m <= Month(partitionDay) /\ m \notin partitions
          BY DEF PartitionsInv, PartitionsTypes, StrayIsPast
        <5>2. m \in Planned(partitionDay) => m > Month(partitionDay)
          BY <1>1, PlannedIsFuture
        <5> QED
          BY <1>1, <5>1, <5>2
      <4> QED
        BY <3>1, <4>1
    <3>5. EnsuredIsPlanned'
      <4>1. ASSUME NEW m \in ensured', NEW k \in 1 .. Lookahead
            PROVE  m + k \in partitions'
        BY <1>1, <3>1, <4>1, PlannedIsFuture DEF PartitionsInv, EnsuredIsPlanned
      <4> QED
        BY <4>1 DEF EnsuredIsPlanned
    <3> QED
      BY <3>2, <3>3, <3>4, <3>5 DEF PartitionsInv
  <2> QED
    BY <2>1, <2>2
<1>5. ASSUME NEW month \in 0 .. Month(MaxPartitionDay), StoreCandle(month)
      PROVE  PartitionsInv'
  <2>1. month \in Nat /\ month <= Month(partitionDay)
    BY <1>1, <1>5, Months DEF StoreCandle, Ingested, PartitionsAssumption
  <2>2. /\ month \notin partitions /\ stray' = stray \cup {month}
        /\ UNCHANGED <<partitionDay, partitionUp, partitionDue, partitions, ensured, partitionFailures>>
    BY <1>5 DEF StoreCandle
  <2> QED
    BY <2>1, <2>2 DEF PartitionsInv, PartitionsTypes, StrayIsPast, EnsuredIsPlanned, Month
<1>6. CASE UNCHANGED partitionsVars
  BY <1>6 DEF partitionsVars, PartitionsInv, PartitionsTypes, StrayIsPast, EnsuredIsPlanned, Month
<1> QED
  BY <1>2, <1>3, <1>4, <1>5, <1>6 DEF PartitionsNext

\* The invariant from which the theorem follows holds in every reachable state.
THEOREM PartitionsInvariant ==
  ASSUME PartitionsAssumption
  PROVE  PartitionsSpec => []PartitionsInv
<1>1. PartitionsInit => PartitionsInv
  BY PartitionsInvInit
<1>2. PartitionsInv /\ [PartitionsNext]_partitionsVars => PartitionsInv'
  BY PartitionsInvStep
<1> QED
  BY <1>1, <1>2, PTL DEF PartitionsSpec

\* Whatever maintenance misses, candles in the default partition never block the months
\* to come, a month that one run in the lookahead before it has planned has its
\* partition, and none is proposed for the archive while candles of it may arrive
\* (database/partitions.py).
THEOREM PartitionsCorrect ==
  ASSUME PartitionsAssumption
  PROVE  PartitionsSpec => []PartitionsKeepUp
<1>1. PartitionsInv => PartitionsKeepUp
  <2> SUFFICES ASSUME PartitionsInv PROVE PartitionsKeepUp
    OBVIOUS
  <2>1. partitionDay \in Nat /\ Month(partitionDay) \in Nat
    BY Months DEF PartitionsInv, PartitionsTypes
  <2>2. ~ Blocked(Planned(partitionDay) \ partitions)
    BY <2>1, PlannedIsFuture DEF Blocked, PartitionsInv, PartitionsTypes, StrayIsPast
  <2>3. ASSUME NEW m \in Ingested, NEW k \in 1 .. Lookahead, m - k \in ensured
        PROVE  m \in partitions
    <3>1. (m - k) + k \in partitions
      BY <2>3 DEF PartitionsInv, EnsuredIsPlanned
    <3>2. (m - k) + k = m
      BY <2>1 DEF Ingested, PartitionsAssumption
    <3> QED
      BY <3>1, <3>2
  <2>4. Backfill <= ArchiveAfter => Candidates(partitionDay) \cap Ingested = {}
    BY <2>1 DEF Candidates, Ingested, PartitionsInv, PartitionsTypes, PartitionsAssumption
  <2> QED
    BY <2>2, <2>3, <2>4 DEF PartitionsKeepUp, PartitionsInv
<1> QED
  BY <1>1, PartitionsInvariant, PTL

-----------------------------------------------------------------------------
(* PortfolioSync *)

\* Two synchronisations have never both written the account's row: the second
\* waits for the first one's transaction.
OneWriter ==
  \A y, z \in Syncs : syncPc[y] \in Locked /\ syncPc[z] \in Locked => y = z

\* A synchronisation that has read the broker knows the moment of its snapshot.
TakenIsKnown ==
  \A y \in Syncs : syncPc[y] \in {"read", "touch"} \cup Locked => taken[y] \in Moments

\* The DELETE of the one writer covers all the holdings there are.
DeletesEverything ==
  \A y \in Syncs : /\ syncPc[y] = "deleting" => syncSeen[y] = holdings
                   /\ syncPc[y] = "insert" => syncGone[y] = holdings

PortfolioInv ==
  /\ PortfolioTypeOK
  /\ HoldingsAreOneSnapshot
  /\ OneWriter
  /\ TakenIsKnown
  /\ DeletesEverything

LEMMA MomentFacts ==
  ASSUME PortfolioAssumption
  PROVE  /\ 1 \in Moments /\ 0 \notin Moments
         /\ \A i \in Moments : Portfolios[i] \subseteq HeldSymbols
BY DEF PortfolioAssumption, Moments

\* The rows of a snapshot are rows.
LEMMA NewIsRows ==
  ASSUME PortfolioAssumption, NEW y \in Syncs, taken[y] \in Moments
  PROVE  New(y) \subseteq Row
BY MomentFacts DEF New, Row

LEMMA PortfolioInvInit ==
  ASSUME PortfolioAssumption, PortfolioInit
  PROVE  PortfolioInv
<1>1. PortfolioTypeOK
  BY MomentFacts DEF PortfolioInit, PortfolioTypeOK, Steps, Row, PortfolioAssumption
<1>2. HoldingsAreOneSnapshot
  BY DEF PortfolioInit, HoldingsAreOneSnapshot
<1>3. OneWriter /\ TakenIsKnown /\ DeletesEverything
  BY DEF PortfolioInit, OneWriter, TakenIsKnown, DeletesEverything, Locked
<1> QED
  BY <1>1, <1>2, <1>3 DEF PortfolioInv

\* The end of a synchronisation that stores nothing leaves the invariant as it is.
LEMMA AbandonKeeps ==
  ASSUME PortfolioInv, NEW y \in Syncs, Abandon(y), UNCHANGED <<syncNow, account, holdings>>,
         syncFaults' \in 0 .. MaxSyncFaults
  PROVE  PortfolioInv'
<1>1. PortfolioTypeOK'
  BY DEF PortfolioInv, PortfolioTypeOK, Abandon, Go, Steps
<1>2. HoldingsAreOneSnapshot'
  BY DEF PortfolioInv, HoldingsAreOneSnapshot
<1>3. OneWriter'
  BY DEF PortfolioInv, PortfolioTypeOK, OneWriter, Abandon, Go, Locked
<1>4. TakenIsKnown'
  BY DEF PortfolioInv, PortfolioTypeOK, TakenIsKnown, Abandon, Go, Locked
<1>5. DeletesEverything'
  BY DEF PortfolioInv, PortfolioTypeOK, DeletesEverything, Abandon, Go
<1> QED
  BY <1>1, <1>2, <1>3, <1>4, <1>5 DEF PortfolioInv

LEMMA PortfolioInvStep ==
  ASSUME PortfolioAssumption, PortfolioInv, [PortfolioNext]_portfolioVars
  PROVE  PortfolioInv'
<1> USE DEF PortfolioInv
<1>1. CASE Trade
  <2>1. PortfolioTypeOK'
    BY <1>1 DEF Trade, PortfolioTypeOK
  <2>2. HoldingsAreOneSnapshot'
    BY <1>1 DEF Trade, HoldingsAreOneSnapshot
  <2>3. OneWriter'
    BY <1>1 DEF Trade, OneWriter
  <2>4. TakenIsKnown'
    BY <1>1 DEF Trade, TakenIsKnown
  <2>5. DeletesEverything'
    BY <1>1 DEF Trade, DeletesEverything
  <2> QED
    BY <2>1, <2>2, <2>3, <2>4, <2>5
<1>2. ASSUME NEW y \in Syncs, FindAccount(y) \/ FetchHoldings(y) \/ ReadAccount(y)
      PROVE  PortfolioInv'
  <2>1. PortfolioTypeOK'
    <3>1. CASE FindAccount(y)
      BY <3>1 DEF FindAccount, Go, PortfolioTypeOK, Steps
    <3>2. CASE FetchHoldings(y)
      BY <3>2 DEF FetchHoldings, Go, PortfolioTypeOK, Steps
    <3>3. CASE ReadAccount(y)
      BY <3>3 DEF ReadAccount, Go, PortfolioTypeOK, Steps
    <3> QED
      BY <1>2, <3>1, <3>2, <3>3
  <2>2. HoldingsAreOneSnapshot'
    BY <1>2 DEF FindAccount, FetchHoldings, ReadAccount, HoldingsAreOneSnapshot
  <2>3. OneWriter'
    BY <1>2 DEF FindAccount, FetchHoldings, ReadAccount, Go, PortfolioTypeOK, OneWriter, Locked
  <2>4. TakenIsKnown'
    BY <1>2 DEF FindAccount, FetchHoldings, ReadAccount, Go, PortfolioTypeOK, TakenIsKnown, Locked
  <2>5. DeletesEverything'
    BY <1>2 DEF FindAccount, FetchHoldings, ReadAccount, Go, PortfolioTypeOK, DeletesEverything
  <2> QED
    BY <2>1, <2>2, <2>3, <2>4, <2>5
<1>3. ASSUME NEW y \in Syncs, TouchAccount(y)
      PROVE  PortfolioInv'
  <2>1. CASE found[y] \/ account = 0
    <3>1. PortfolioTypeOK'
      BY <1>3, <2>1 DEF TouchAccount, Go, PortfolioTypeOK, Steps
    <3>2. HoldingsAreOneSnapshot'
      BY <1>3 DEF TouchAccount, HoldingsAreOneSnapshot
    <3>3. OneWriter'
      BY <1>3, <2>1 DEF TouchAccount, AccountFree, Go, PortfolioTypeOK, OneWriter, Locked
    <3>4. TakenIsKnown'
      BY <1>3, <2>1 DEF TouchAccount, Go, PortfolioTypeOK, TakenIsKnown, Locked
    <3>5. DeletesEverything'
      BY <1>3, <2>1 DEF TouchAccount, Go, PortfolioTypeOK, DeletesEverything
    <3> QED
      BY <3>1, <3>2, <3>3, <3>4, <3>5
  <2>2. CASE ~ (found[y] \/ account = 0)
    BY <1>3, <2>2, AbandonKeeps DEF TouchAccount, PortfolioTypeOK
  <2> QED
    BY <2>1, <2>2
<1>4. ASSUME NEW y \in Syncs, BeginDelete(y) \/ EndDelete(y)
      PROVE  PortfolioInv'
  <2>1. PortfolioTypeOK'
    BY <1>4 DEF BeginDelete, EndDelete, Go, PortfolioTypeOK, Steps
  <2>2. HoldingsAreOneSnapshot'
    BY <1>4 DEF BeginDelete, EndDelete, HoldingsAreOneSnapshot
  <2>3. OneWriter'
    BY <1>4 DEF BeginDelete, EndDelete, Go, PortfolioTypeOK, OneWriter, Locked
  <2>4. TakenIsKnown'
    BY <1>4 DEF BeginDelete, EndDelete, Go, PortfolioTypeOK, TakenIsKnown, Locked
  <2>5. DeletesEverything'
    BY <1>4 DEF BeginDelete, EndDelete, Go, PortfolioTypeOK, DeletesEverything
  <2> QED
    BY <2>1, <2>2, <2>3, <2>4, <2>5
<1>5. ASSUME NEW y \in Syncs, InsertAndCommit(y)
      PROVE  PortfolioInv'
  <2>1. /\ syncPc[y] = "insert" /\ syncGone[y] = holdings /\ taken[y] \in Moments
        /\ \A z \in Syncs \ {y} : syncPc[z] \notin Locked
    BY <1>5 DEF InsertAndCommit, OneWriter, TakenIsKnown, DeletesEverything, Locked
  <2>2. /\ holdings' = New(y) /\ account' = taken[y]
        /\ Abandon(y) /\ UNCHANGED <<syncNow, syncFaults>>
    BY <1>5, <2>1 DEF InsertAndCommit
  <2>3. PortfolioTypeOK'
    BY <2>1, <2>2, NewIsRows DEF Abandon, Go, PortfolioTypeOK, Steps
  <2>4. HoldingsAreOneSnapshot'
    BY <2>1, <2>2, MomentFacts DEF HoldingsAreOneSnapshot, New
  <2>5. OneWriter'
    BY <2>1, <2>2 DEF Abandon, Go, PortfolioTypeOK, OneWriter, Locked
  <2>6. TakenIsKnown'
    BY <2>2 DEF Abandon, Go, PortfolioTypeOK, TakenIsKnown, Locked
  <2>7. DeletesEverything'
    BY <2>1, <2>2 DEF Abandon, Go, PortfolioTypeOK, DeletesEverything, Locked
  <2> QED
    BY <2>3, <2>4, <2>5, <2>6, <2>7
<1>6. ASSUME NEW y \in Syncs, Fail(y)
      PROVE  PortfolioInv'
  <2>1. syncFaults' \in 0 .. MaxSyncFaults
    BY <1>6 DEF Fail, PortfolioTypeOK, PortfolioAssumption
  <2> QED
    BY <1>6, <2>1, AbandonKeeps DEF Fail
<1>7. CASE UNCHANGED portfolioVars
  BY <1>7 DEF portfolioVars, PortfolioTypeOK, HoldingsAreOneSnapshot, OneWriter, TakenIsKnown,
     DeletesEverything
<1> QED
  BY <1>1, <1>2, <1>3, <1>4, <1>5, <1>6, <1>7 DEF PortfolioNext

\* The invariant from which the two theorems follow holds in every reachable state.
THEOREM PortfolioInvariant ==
  ASSUME PortfolioAssumption
  PROVE  PortfolioSpec => []PortfolioInv
<1>1. PortfolioInit => PortfolioInv
  BY PortfolioInvInit
<1>2. PortfolioInv /\ [PortfolioNext]_portfolioVars => PortfolioInv'
  BY PortfolioInvStep
<1> QED
  BY <1>1, <1>2, PTL DEF PortfolioSpec

\* Every variable of the synchronisations keeps its type (services/portfolio.py sync,
\* SqlAlchemyPortfolioRepository.save_snapshot).
THEOREM PortfolioTypeCorrect ==
  ASSUME PortfolioAssumption
  PROVE  PortfolioSpec => []PortfolioTypeOK
<1>1. PortfolioInv => PortfolioTypeOK
  BY DEF PortfolioInv
<1> QED
  BY <1>1, PortfolioInvariant, PTL

\* However many synchronisations overlap and fail, the stored holdings are exactly
\* the snapshot that the account's row is dated with, and no DELETE misses a row that
\* another synchronisation inserts (SqlAlchemyPortfolioRepository.save_snapshot).
THEOREM SnapshotCorrect ==
  ASSUME PortfolioAssumption
  PROVE  PortfolioSpec => []HoldingsAreOneSnapshot
<1>1. PortfolioInv => HoldingsAreOneSnapshot
  BY DEF PortfolioInv
<1> QED
  BY <1>1, PortfolioInvariant, PTL

-----------------------------------------------------------------------------
(* CandleIngestion *)

\* A save puts the stock, or a candle the provider may report, under its key.
Save ==
  {[key |-> Stock, row |-> StockInfo]} \cup [key : StoredKeys \ {Stock}, row : Candles]

\* What the table can hold under a key.
Storable(k) == IF k = Stock THEN {StockInfo} ELSE CandleRow

LEMMA ResponseTypes ==
  ASSUME NEW batch \in Responses
  PROVE  \E m \in Nat : batch \in [1 .. m -> Candles]
  BY DEF Responses, SeqOf

LEMMA SortedIs ==
  ASSUME NEW S \in SUBSET Nat, IsFiniteSet(S)
  PROVE  /\ Cardinality(S) \in Nat
         /\ Sorted(S) \in [1 .. Cardinality(S) -> S]
         /\ Sorted(S) \in SetToSeqs(S) /\ Increasing(Sorted(S))
<1>1. Sorted(S) \in SetToSeqs(S) /\ Increasing(Sorted(S))
  BY SortExists DEF Sorted, Increasing
<1> QED
  BY <1>1, FS_CardinalityType DEF SetToSeqs

\* What cleaning keeps: of every day that has a valid candle one of those, in order.
LEMMA CleanIs ==
  ASSUME IngestionAssumption, NEW batch \in Responses
  PROVE  LET n == Cardinality({batch[i].day : i \in {j \in DOMAIN batch : ValidOHLCV(batch[j])}})
             cleaned == Clean(batch)
         IN /\ n \in Nat /\ cleaned \in [1 .. n -> Candles]
            /\ \A k \in 1 .. n : ValidOHLCV(cleaned[k])
            /\ \A k \in 1 .. n : \E i \in DOMAIN batch : cleaned[k] = batch[i]
            /\ \A i, j \in 1 .. n : i < j => cleaned[i].day < cleaned[j].day
            /\ \A i \in DOMAIN batch : ValidOHLCV(batch[i]) => \E k \in 1 .. n : cleaned[k].day = batch[i].day
<1>1. PICK m \in Nat : batch \in [1 .. m -> Candles]
  BY ResponseTypes
<1> DEFINE valid == {j \in DOMAIN batch : ValidOHLCV(batch[j])}
           days == {batch[i].day : i \in valid}
           order == Sorted(days)
           n == Cardinality(days)
           cleaned == Clean(batch)
<1>2. days \in SUBSET Nat
  <2>1. \A i \in valid : batch[i] \in CandleRow
    BY <1>1 DEF IngestionAssumption
  <2>2. \A i \in valid : batch[i].day \in Nat
    BY <2>1 DEF CandleRow
  <2> QED
    BY <2>2
<1>3. IsFiniteSet(days)
  <2> DEFINE f == [i \in valid |-> batch[i].day]
  <2>1. IsFiniteSet(1 .. m) /\ valid \in SUBSET (1 .. m)
    BY <1>1, FS_Interval
  <2>2. IsFiniteSet(valid)
    BY <2>1, FS_Subset
  <2>3. days = {f[i] : i \in valid}
    OBVIOUS
  <2> HIDE DEF days, valid
  <2> QED
    BY <2>2, <2>3, ImageIsFinite
<1>4. /\ n \in Nat /\ order \in [1 .. n -> days] /\ Increasing(order)
      /\ \A x \in days : \E k \in 1 .. n : order[k] = x
  <2> HIDE DEF days
  <2> QED
    BY <1>2, <1>3, SortedIs, SortedIsOnto
<1>5. cleaned = [k \in 1 .. n |-> FirstValid(batch, order[k])]
  <2>1. DOMAIN order = 1 .. n
    BY <1>4
  <2> QED
    BY <2>1 DEF Clean
<1>6. \A k \in 1 .. n : \E i \in valid : cleaned[k] = batch[i] /\ batch[i].day = order[k]
  <2> SUFFICES ASSUME NEW k \in 1 .. n
               PROVE  \E i \in valid : cleaned[k] = batch[i] /\ batch[i].day = order[k]
    OBVIOUS
  <2>1. order[k] \in days
    BY <1>4
  <2>2. cleaned[k] = FirstValid(batch, order[k])
    BY <1>5
  <2> HIDE DEF order, cleaned
  <2> DEFINE I == {i \in DOMAIN batch : batch[i].day = order[k] /\ ValidOHLCV(batch[i])}
  <2>3. I # {} /\ I \in SUBSET (1 .. m) /\ I \in SUBSET Int
    BY <1>1, <2>1
  <2>4. IsFiniteSet(I)
    <3>1. IsFiniteSet(1 .. m)
      BY FS_Interval
    <3> QED
      BY <2>3, <3>1, FS_Subset
  <2>5. Min(I) \in I
    <3> HIDE DEF I
    <3> QED
      BY <2>3, <2>4, Extremes
  <2> QED
    BY <2>2, <2>5 DEF FirstValid
<1> HIDE DEF cleaned, order
<1>7. cleaned \in [1 .. n -> Candles]
  BY <1>1, <1>5, <1>6
<1>8. \A i, j \in 1 .. n : i < j => cleaned[i].day < cleaned[j].day
  BY <1>4, <1>6 DEF Increasing
<1>9. \A i \in valid : \E k \in 1 .. n : cleaned[k].day = batch[i].day
  <2> SUFFICES ASSUME NEW i \in valid PROVE \E k \in 1 .. n : cleaned[k].day = batch[i].day
    OBVIOUS
  <2>1. batch[i].day \in days
    OBVIOUS
  <2> HIDE DEF n, days, valid
  <2>2. PICK k \in 1 .. n : order[k] = batch[i].day
    BY <1>4, <2>1
  <2> QED
    BY <1>6, <2>2
<1> QED
  BY <1>4, <1>6, <1>7, <1>8, <1>9 DEF cleaned

\* What cleaning makes of a response, mixed bases included: valid candles in the order of days.
LEMMA CleanedIs ==
  ASSUME IngestionAssumption, NEW batch \in Responses
  PROVE  \E n \in Nat : /\ Cleaned(batch) \in [1 .. n -> Candles]
                       /\ \A k \in 1 .. n : ValidOHLCV(Cleaned(batch)[k])
                       /\ \A i, j \in 1 .. n : i < j => Cleaned(batch)[i].day < Cleaned(batch)[j].day
<1>1. CASE Cardinality(Bases(batch)) > 1
  <2> DEFINE none == <<>>
  <2>1. Cleaned(batch) = none /\ none \in [1 .. 0 -> Candles] /\ 1 .. 0 = {}
    BY <1>1 DEF Cleaned
  <2> HIDE DEF none
  <2> QED
    BY <2>1
<1>2. CASE ~(Cardinality(Bases(batch)) > 1)
  <2>1. Cleaned(batch) = Clean(batch)
    BY <1>2 DEF Cleaned
  <2> QED
    BY <2>1, CleanIs
<1> QED
  BY <1>1, <1>2

LEMMA BasesAreFinite ==
  ASSUME NEW batch \in Responses
  PROVE  Cardinality(Bases(batch)) \in Nat /\ (batch = <<>> => Cardinality(Bases(batch)) = 0)
<1>1. PICK m \in Nat : batch \in [1 .. m -> Candles]
  BY ResponseTypes
<1> DEFINE f == [i \in 1 .. m |-> batch[i].basis]
<1>2. DOMAIN f = 1 .. m /\ IsFiniteSet(1 .. m) /\ {f[i] : i \in 1 .. m} = Bases(batch)
  BY <1>1, FS_Interval DEF Bases
<1>3. IsFiniteSet(Bases(batch))
  <2> HIDE DEF f
  <2> QED
    BY <1>2, ImageIsFinite
<1>4. batch = <<>> => Bases(batch) = {}
  BY DEF Bases
<1> QED
  BY <1>3, <1>4, FS_CardinalityType, FS_EmptySet

\* Cleaning takes its candles from the response, and keeps every day that has a valid one.
LEMMA CleanedKeeps ==
  ASSUME IngestionAssumption, NEW batch \in Responses
  PROVE  /\ \A k \in DOMAIN Cleaned(batch) : \E i \in DOMAIN batch : Cleaned(batch)[k] = batch[i]
         /\ Cardinality(Bases(batch)) <= 1 =>
              \A i \in DOMAIN batch : ValidOHLCV(batch[i]) =>
                \E k \in DOMAIN Cleaned(batch) : Cleaned(batch)[k].day = batch[i].day
<1>1. Cardinality(Bases(batch)) \in Nat
  BY BasesAreFinite
<1>2. CASE Cardinality(Bases(batch)) > 1
  <2>1. Cleaned(batch) = <<>> /\ DOMAIN Cleaned(batch) = {}
    BY <1>2 DEF Cleaned
  <2> QED
    BY <1>1, <1>2, <2>1
<1>3. CASE ~(Cardinality(Bases(batch)) > 1)
  <2> DEFINE n == Cardinality({batch[i].day : i \in {j \in DOMAIN batch : ValidOHLCV(batch[j])}})
             cleaned == Clean(batch)
  <2>1. /\ n \in Nat /\ cleaned \in [1 .. n -> Candles]
        /\ \A k \in 1 .. n : \E i \in DOMAIN batch : cleaned[k] = batch[i]
        /\ \A i \in DOMAIN batch : ValidOHLCV(batch[i]) => \E k \in 1 .. n : cleaned[k].day = batch[i].day
    BY CleanIs
  <2>2. Cleaned(batch) = cleaned
    BY <1>3 DEF Cleaned
  <2> HIDE DEF n, cleaned
  <2>3. DOMAIN cleaned = 1 .. n
    BY <2>1
  <2> QED
    BY <2>1, <2>2, <2>3
<1> QED
  BY <1>2, <1>3

LEMMA SavesTypes ==
  ASSUME IngestionAssumption, NEW n \in Nat, NEW q \in [1 .. n -> Candles], NEW stage \in {"raw", "cleaned"}
  PROVE  Saves(q, stage) \in Seq(Save)
<1>1. \A i \in 1 .. n : [key |-> [stage |-> stage, day |-> q[i].day], row |-> q[i]] \in Save
  <2> SUFFICES ASSUME NEW i \in 1 .. n
               PROVE  [key |-> [stage |-> stage, day |-> q[i].day], row |-> q[i]] \in Save
    OBVIOUS
  <2>1. q[i] \in Candles
    OBVIOUS
  <2>2. [stage |-> stage, day |-> q[i].day] \in StoredKeys \ {Stock}
    BY <2>1 DEF StoredKeys, Stock
  <2> QED
    BY <2>1, <2>2 DEF Save
<1>2. Saves(q, stage) \in [1 .. n -> Save]
  BY <1>1 DEF Saves
<1> QED
  BY <1>2

LEMMA WritesTypes ==
  ASSUME IngestionAssumption, NEW batch \in Responses
  PROVE  Writes(batch) \in Seq(Save)
<1>1. PICK m \in Nat : batch \in [1 .. m -> Candles]
  BY ResponseTypes
<1>2. PICK n \in Nat : Cleaned(batch) \in [1 .. n -> Candles]
  BY CleanedIs
<1>3. Saves(batch, "raw") \in Seq(Save) /\ Saves(Cleaned(batch), "cleaned") \in Seq(Save)
  BY <1>1, <1>2, SavesTypes
<1>4. <<[key |-> Stock, row |-> StockInfo]>> \in Seq(Save)
  BY DEF Save
<1> QED
  BY <1>3, <1>4 DEF Writes

LEMMA LogsAreFinite ==
  ASSUME NEW batch \in Responses
  PROVE  LogCount(batch) \in Nat
<1>1. PICK m \in Nat : batch \in [1 .. m -> Candles]
  BY ResponseTypes
<1>2. IsFiniteSet(1 .. m)
  BY FS_Interval
<1>3. ASSUME NEW rule, NEW J \in SUBSET (1 .. m)
      PROVE  IsFiniteSet({[rule |-> rule, at |-> i] : i \in J})
  <2> DEFINE f == [i \in J |-> [rule |-> rule, at |-> i]]
  <2>1. IsFiniteSet(J)
    BY <1>2, FS_Subset
  <2>2. {f[i] : i \in J} = {[rule |-> rule, at |-> i] : i \in J}
    OBVIOUS
  <2>3. IsFiniteSet({f[i] : i \in J})
    <3>1. DOMAIN f = J
      OBVIOUS
    <3> HIDE DEF f
    <3> QED
      BY <2>1, <3>1, ImageIsFinite
  <2> QED
    BY <2>2, <2>3
<1>4. IsFiniteSet(Days(batch))
  <2> DEFINE f == [i \in 1 .. m |-> batch[i].day]
  <2>1. DOMAIN f = 1 .. m /\ {f[i] : i \in 1 .. m} = Days(batch)
    BY <1>1 DEF Days
  <2> HIDE DEF f
  <2> QED
    BY <1>2, <2>1, ImageIsFinite
<1>5. IsFiniteSet(Gaps(batch))
  <2>1. Gaps(batch) \subseteq Days(batch)
    BY DEF Gaps
  <2> QED
    BY <1>4, <2>1, FS_Subset
<1>6. IsFiniteSet(Errors(batch))
  <2> DEFINE mixed == {[rule |-> "mixed_price_basis", at |-> 0] : k \in {Cardinality(Bases(batch))} \ {0, 1}}
             about(rule, J) == {[rule |-> rule, at |-> i] : i \in J}
             repeats == {i \in DOMAIN batch : \E j \in 1 .. (i - 1) : batch[j].day = batch[i].day}
             prices == {i \in DOMAIN batch : ~ValidOHLCV([batch[i] EXCEPT !.volume = 0])}
             negative == {i \in DOMAIN batch : batch[i].volume < 0}
             disorder == {i \in DOMAIN batch : i > 1 /\ batch[i].day <= batch[i - 1].day}
  <2>1. IsFiniteSet(mixed)
    <3> DEFINE report == [rule |-> "mixed_price_basis", at |-> 0]
    <3>1. mixed \in SUBSET {report}
      OBVIOUS
    <3> HIDE DEF mixed, report
    <3>2. IsFiniteSet({report})
      BY FS_Singleton
    <3> QED
      BY <3>1, <3>2, FS_Subset
  <2>2. /\ IsFiniteSet(about("duplicate_timestamp", repeats)) /\ IsFiniteSet(about("invalid_ohlc", prices))
        /\ IsFiniteSet(about("negative_volume", negative)) /\ IsFiniteSet(about("out_of_order", disorder))
    <3>1. repeats \in SUBSET (1 .. m) /\ prices \in SUBSET (1 .. m) /\ negative \in SUBSET (1 .. m)
            /\ disorder \in SUBSET (1 .. m)
      BY <1>1
    <3> HIDE DEF repeats, prices, negative, disorder
    <3> QED
      BY <1>3, <3>1
  <2>3. Errors(batch) = mixed \cup about("duplicate_timestamp", repeats) \cup about("invalid_ohlc", prices)
                          \cup about("negative_volume", negative) \cup about("out_of_order", disorder)
    BY DEF Errors
  <2> HIDE DEF mixed, about, repeats, prices, negative, disorder
  <2> QED
    BY <2>1, <2>2, <2>3, FS_Union
<1> QED
  BY <1>5, <1>6, FS_CardinalityType DEF LogCount

\* The logs that some responses leave are the sum of those of each.
LEMMA LogsAreASum ==
  ASSUME NEW q, IsFiniteSet(DOMAIN q)
  PROVE  LogsOf(q) = SumOver([i \in DOMAIN q |-> LogCount(q[i])], DOMAIN q)
<1> DEFINE S == DOMAIN q
           w == [i \in S |-> LogCount(q[i])]
           Folds(g) == g = [s \in SUBSET S |-> IF s = {} THEN 0 ELSE g[s \ {Pick(s)}] + LogCount(q[Pick(s)])]
           f == CHOOSE g : Folds(g)
<1>1. LogsOf(q) = f[S]
  BY DEF LogsOf, FoldSeq, FoldFunction, FoldFunctionOnSet, MapThenFoldSet, Pick
<1>2. \A g : Folds(g) <=> Unfolds(w, g, S)
  <2>1. \A s \in SUBSET S : s # {} => w[Pick(s)] = LogCount(q[Pick(s)])
    BY PickIsElement
  <2> HIDE DEF w
  <2> QED
    BY <2>1 DEF Unfolds
<1>3. Unfolds(w, f, S)
  <2> HIDE DEF w
  <2>1. Folds(Unfolding(w, S))
    BY <1>2, UnfoldingExists
  <2> HIDE DEF Folds
  <2>2. Folds(f)
    BY <2>1
  <2> QED
    BY <1>2, <2>2
<1>4. f[S] = SumOver(w, S)
  <2> HIDE DEF f, w
  <2> QED
    BY <1>3, UnfoldsToSum
<1> QED
  BY <1>1, <1>4

LEMMA LogsOfOneMore ==
  ASSUME NEW q \in Seq(Responses), NEW batch \in Responses
  PROVE  LogsOf(Append(q, batch)) = LogsOf(q) + LogCount(batch)
<1> DEFINE n == Len(q)
           r == Append(q, batch)
           v == [i \in 1 .. n |-> LogCount(q[i])]
           w == [i \in 1 .. n + 1 |-> LogCount(r[i])]
<1>1. /\ n \in Nat /\ DOMAIN q = 1 .. n /\ DOMAIN r = 1 .. n + 1
      /\ \A i \in 1 .. n : r[i] = q[i] /\ q[i] \in Responses
      /\ r[n + 1] = batch
  OBVIOUS
<1>2. IsFiniteSet(1 .. n) /\ IsFiniteSet(1 .. n + 1)
  BY <1>1, FS_Interval
<1>3. Weighs(w, 1 .. n + 1)
  <2>1. \A i \in 1 .. n + 1 : r[i] \in Responses
    BY <1>1
  <2>2. \A i \in 1 .. n + 1 : LogCount(r[i]) \in Int
    BY <2>1, LogsAreFinite
  <2> QED
    BY <1>2, <2>2 DEF Weighs
<1>4. w[n + 1] = LogCount(batch) /\ \A i \in 1 .. n : v[i] = w[i]
  BY <1>1
<1>5. LogsOf(q) = SumOver(v, 1 .. n) /\ LogsOf(r) = SumOver(w, 1 .. n + 1)
  BY <1>1, <1>2, LogsAreASum
<1> HIDE DEF v, w, n
<1> QED
  BY <1>1, <1>3, <1>4, <1>5, SumOfLonger

\* A row is there for a transaction that has written w when r is committed.
Present(w, r, k) == k \in DOMAIN w \/ r[k] # NoRow

\* A value comes from a response that is committed.
Explained(com, k, c, value) ==
  \E n \in DOMAIN com : \E row \in Saved(com[n], k) : row[c] = value

\* What an ingestor s has read (l) and written (w): it has nothing before its transaction;
\* what it has read is there; every row of its response is there or still to be saved; each
\* value it has written is from its response or from a committed one, and each row as a whole
\* from its response but for those (ot) that overtook another session.
SessionOK(s, l, w, r, com, ot) ==
  /\ s \in [pc : {"idle", "fetched", "select", "write"}, batch : Responses, todo : Seq(Save)]
  /\ DOMAIN l \subseteq StoredKeys /\ \A k \in DOMAIN l : l[k] \in Storable(k) \cup {NoRow}
  /\ DOMAIN w \subseteq StoredKeys /\ \A k \in DOMAIN w : w[k] \in Storable(k)
  /\ s.pc \in {"idle", "fetched"} => DOMAIN l = {} /\ DOMAIN w = {}
  /\ s.pc = "write" => s.todo # <<>> /\ Head(s.todo).key \in DOMAIN l
  /\ \A k \in DOMAIN l : l[k] # NoRow => Present(w, r, k)
  /\ s.pc \in {"select", "write"} =>
       /\ ToSet(s.todo) \subseteq ToSet(Writes(s.batch))
       /\ \A x \in ToSet(Writes(s.batch)) : x \in ToSet(s.todo) \/ Present(w, r, x.key)
  /\ \A k \in DOMAIN w \ {Stock} : \A c \in DOMAIN w[k] :
       Explained(com, k, c, w[k][c]) \/ \E row \in Saved(s.batch, k) : row[c] = w[k][c]
  /\ \A k \in DOMAIN w \ {Stock} : k \notin ot => w[k] \in Saved(s.batch, k)

IngestionInv ==
  /\ DOMAIN rows = StoredKeys /\ \A k \in StoredKeys : rows[k] \in Storable(k) \cup {NoRow}
  /\ committed \in Seq(Responses)
  /\ DOMAIN ingestion = Ingestors /\ DOMAIN loaded = Ingestors /\ DOMAIN written = Ingestors
  /\ \A i \in Ingestors : SessionOK(ingestion[i], loaded[i], written[i], rows, committed, overtaken)
  /\ OnlyWholeBatches

LEMMA NotARow ==
  ASSUME IngestionAssumption
  PROVE  \A k : \A row \in Storable(k) : row # NoRow
  BY DEF IngestionAssumption, Storable

\* An ingestor that has nothing is sound.
LEMMA EmptySession ==
  ASSUME NEW s \in [pc : {"idle", "fetched"}, batch : Responses, todo : Seq(Save)], NEW r, NEW com, NEW ot
  PROVE  SessionOK(s, Nothing, Nothing, r, com, ot)
  BY DEF SessionOK, Nothing

LEMMA IdleTypes ==
  ASSUME IngestionAssumption
  PROVE  IdleIngestor \in [pc : {"idle", "fetched"}, batch : Responses, todo : Seq(Save)]
<1>1. <<>> \in [1 .. 0 -> Candles] /\ 0 \in 0 .. MaxLength
  BY DEF IngestionAssumption
<1>2. <<>> \in Responses
  BY <1>1 DEF Responses, SeqOf
<1> QED
  BY <1>2 DEF IdleIngestor

\* What is saved is saved under a key.
LEMMA SaveKeys ==
  ASSUME IngestionAssumption
  PROVE  /\ \A x \in Save : x.key \in StoredKeys
         /\ \A q \in Seq(Save) : ToSet(q) \subseteq Save
         /\ \A batch \in Responses : ToSet(Writes(batch)) \subseteq Save
<1>1. \A x \in Save : x.key \in StoredKeys
  BY DEF Save, StoredKeys
<1>2. \A q \in Seq(Save) : ToSet(q) \subseteq Save
  BY DEF ToSet
<1> QED
  BY <1>1, <1>2, WritesTypes

\* More rows and more committed responses leave a session sound.
LEMMA SessionStays ==
  ASSUME IngestionAssumption,
         NEW s, NEW l, NEW w, NEW r, NEW com, NEW ot, SessionOK(s, l, w, r, com, ot),
         NEW q, \A k \in StoredKeys : r[k] # NoRow => q[k] # NoRow,
         NEW more, DOMAIN com \subseteq DOMAIN more, \A n \in DOMAIN com : more[n] = com[n],
         DOMAIN w \subseteq StoredKeys, NEW late, ot \subseteq late
  PROVE  SessionOK(s, l, w, q, more, late)
<1>1. \A k \in StoredKeys : Present(w, r, k) => Present(w, q, k)
  BY DEF Present
<1>2. \A k, c, value : Explained(com, k, c, value) => Explained(more, k, c, value)
  BY DEF Explained
<1>3. \A x \in ToSet(Writes(s.batch)) : Present(w, r, x.key) => Present(w, q, x.key)
  BY <1>1, SaveKeys DEF SessionOK
<1> QED
  BY <1>1, <1>2, <1>3 DEF SessionOK

\* A step of one ingestor that commits nothing keeps the invariant if it keeps its session sound.
LEMMA SessionStep ==
  ASSUME IngestionAssumption, IngestionInv, NEW i \in Ingestors, UNCHANGED <<rows, logs, committed>>, overtaken \subseteq overtaken',
         DOMAIN ingestion' = Ingestors, DOMAIN loaded' = Ingestors, DOMAIN written' = Ingestors,
         \A j \in Ingestors \ {i} :
           ingestion'[j] = ingestion[j] /\ loaded'[j] = loaded[j] /\ written'[j] = written[j],
         SessionOK(ingestion'[i], loaded'[i], written'[i], rows, committed, overtaken')
  PROVE  IngestionInv'
<1>1. \A j \in Ingestors : SessionOK(ingestion'[j], loaded'[j], written'[j], rows', committed', overtaken')
  <2>1. ASSUME NEW j \in Ingestors \ {i}
        PROVE  SessionOK(ingestion'[j], loaded'[j], written'[j], rows', committed', overtaken')
    <3>1. SessionOK(ingestion[j], loaded[j], written[j], rows, committed, overtaken) /\ DOMAIN written[j] \subseteq StoredKeys
      BY DEF IngestionInv, SessionOK
    <3>2. SessionOK(ingestion[j], loaded[j], written[j], rows, committed, overtaken')
      BY <3>1, SessionStays
    <3> QED
      BY <3>2
  <2> QED
    BY <2>1
<1>2. OnlyWholeBatches'
  BY DEF IngestionInv, OnlyWholeBatches
<1> QED
  BY <1>1, <1>2 DEF IngestionInv

LEMMA RollbackStep ==
  ASSUME IngestionAssumption, IngestionInv, NEW i \in Ingestors, Rollback(i), UNCHANGED committed
  PROVE  IngestionInv'
<1>1. SessionOK(IdleIngestor, Nothing, Nothing, rows, committed, overtaken)
  BY IdleTypes, EmptySession
<1>2. /\ ingestion'[i] = IdleIngestor /\ loaded'[i] = Nothing /\ written'[i] = Nothing
      /\ DOMAIN ingestion' = Ingestors /\ DOMAIN loaded' = Ingestors /\ DOMAIN written' = Ingestors
      /\ \A j \in Ingestors \ {i} :
           ingestion'[j] = ingestion[j] /\ loaded'[j] = loaded[j] /\ written'[j] = written[j]
  BY DEF Rollback, IngestionInv
<1> QED
  BY <1>1, <1>2, SessionStep DEF Rollback

\* The steps before a transaction, and its start, which knows what it will save.
LEMMA EarlyStep ==
  ASSUME IngestionAssumption, IngestionInv, NEW i \in Ingestors,
         (\E batch \in Responses : FetchCandles(i, batch)) \/ Refuse(i) \/ BeginIngestion(i)
  PROVE  IngestionInv'
<1> DEFINE old == ingestion[i]
<1>1. SessionOK(old, loaded[i], written[i], rows, committed, overtaken) /\ old.pc \in {"idle", "fetched"}
  BY DEF IngestionInv, FetchCandles, Refuse, BeginIngestion
<1>2. <<>> \in Seq(Save)
  OBVIOUS
<1>3. /\ UNCHANGED <<rows, logs, committed, overtaken, loaded, written>>
      /\ \E s : ingestion' = [ingestion EXCEPT ![i] = s]
  BY DEF FetchCandles, Refuse, BeginIngestion
<1>4. SessionOK(ingestion'[i], loaded[i], written[i], rows, committed, overtaken)
  <2>1. ASSUME NEW batch \in Responses, FetchCandles(i, batch)
        PROVE  SessionOK(ingestion'[i], loaded[i], written[i], rows, committed, overtaken)
    <3> DEFINE s == [pc |-> "fetched", batch |-> batch, todo |-> <<>>]
    <3>1. SessionOK(s, loaded[i], written[i], rows, committed, overtaken)
      BY <1>1, <1>2 DEF SessionOK
    <3> QED
      BY <2>1, <3>1 DEF FetchCandles, IngestionInv
  <2>2. CASE Refuse(i)
    <3>1. SessionOK(IdleIngestor, loaded[i], written[i], rows, committed, overtaken)
      BY <1>1, IdleTypes DEF SessionOK
    <3> QED
      BY <2>2, <3>1 DEF Refuse, IngestionInv
  <2>3. CASE BeginIngestion(i)
    <3> DEFINE s == [old EXCEPT !.pc = "select", !.todo = Writes(old.batch)]
    <3>1. Writes(old.batch) \in Seq(Save) /\ old.pc = "fetched"
      BY <1>1, <2>3, WritesTypes DEF SessionOK, BeginIngestion
    <3>2. SessionOK(s, loaded[i], written[i], rows, committed, overtaken)
      BY <1>1, <3>1 DEF SessionOK
    <3> QED
      BY <2>3, <3>2 DEF BeginIngestion, IngestionInv
  <2> QED
    BY <2>1, <2>2, <2>3
<1> QED
  BY <1>3, <1>4, SessionStep DEF IngestionInv

LEMMA SelectStep ==
  ASSUME IngestionAssumption, IngestionInv, NEW i \in Ingestors, Select(i)
  PROVE  IngestionInv'
<1> DEFINE old == ingestion[i]
           key == Head(old.todo).key
           s == [old EXCEPT !.pc = "write"]
           l == IF key \in DOMAIN loaded[i] THEN loaded[i] ELSE With(loaded[i], key, rows[key])
<1>1. /\ SessionOK(old, loaded[i], written[i], rows, committed, overtaken)
      /\ old.pc = "select" /\ old.todo # <<>>
  BY DEF IngestionInv, Select
<1>2. key \in StoredKeys /\ rows[key] \in Storable(key) \cup {NoRow}
  <2>1. Head(old.todo) \in Save
    BY <1>1 DEF SessionOK
  <2> QED
    BY <2>1, SaveKeys DEF IngestionInv
<1>3. /\ DOMAIN l = DOMAIN loaded[i] \cup {key}
      /\ \A k \in DOMAIN l : 
            (l[k] = loaded[i][k] /\ k \in DOMAIN loaded[i]) \/ (k = key /\ l[k] = rows[k])
  BY DEF With
<1>4. SessionOK(s, l, written[i], rows, committed, overtaken)
  <2> HIDE DEF l
  <2>1. DOMAIN l \subseteq StoredKeys /\ \A k \in DOMAIN l : l[k] \in Storable(k) \cup {NoRow}
    BY <1>1, <1>2, <1>3 DEF SessionOK
  <2>2. \A k \in DOMAIN l : l[k] # NoRow => Present(written[i], rows, k)
    BY <1>1, <1>3 DEF SessionOK, Present
  <2>3. key \in DOMAIN l
    BY <1>3
  <2> QED
    BY <1>1, <2>1, <2>2, <2>3 DEF SessionOK
<1>5. /\ ingestion' = [ingestion EXCEPT ![i] = s] /\ loaded' = [loaded EXCEPT ![i] = l]
      /\ written' = written /\ UNCHANGED <<rows, logs, committed, overtaken>>
  BY DEF Select
<1> HIDE DEF s, l
<1> QED
  BY <1>4, <1>5, SessionStep DEF IngestionInv

\* What a flush makes of a row can be stored, and is explained.
LEMMA FlushedIsSound ==
  ASSUME IngestionAssumption, IngestionInv, NEW i \in Ingestors, ingestion[i].pc = "write", NeedsWrite(i)
  PROVE  /\ Flushed(i) \in Storable(Due(i).key)
         /\ Due(i).key # Stock /\ ~Overtakes(i) => Flushed(i) \in Saved(ingestion[i].batch, Due(i).key)
         /\ Due(i).key # Stock => \A c \in DOMAIN Flushed(i) :
              \/ Explained(committed, Due(i).key, c, Flushed(i)[c])
              \/ \E row \in Saved(ingestion[i].batch, Due(i).key) : row[c] = Flushed(i)[c]
<1> DEFINE s == ingestion[i]
           key == Due(i).key
<1>1. SessionOK(s, loaded[i], written[i], rows, committed, overtaken) /\ s.todo # <<>> /\ key \in DOMAIN loaded[i]
  BY DEF IngestionInv, SessionOK, Due
<1>2. Due(i) \in Save /\ Due(i) \in ToSet(s.todo)
  <2>1. s.todo \in Seq(Save) /\ s.todo # <<>>
    BY <1>1 DEF SessionOK
  <2>2. Head(s.todo) \in Save /\ 1 \in DOMAIN s.todo /\ Head(s.todo) = s.todo[1]
    BY <2>1
  <2> QED
    BY <2>2 DEF Due, ToSet
<1>3. Due(i).row \in Storable(key)
  BY <1>2 DEF Save, Storable, IngestionAssumption
<1>4. Due(i).row \in Saved(s.batch, key)
  BY <1>1, <1>2 DEF SessionOK, Saved
<1>5. CASE Known(i) = NoRow
  BY <1>3, <1>4, <1>5 DEF Flushed
<1>6. CASE Known(i) # NoRow
  <2>1. Known(i) \in Storable(key) /\ Present(written[i], rows, key)
    BY <1>1, <1>6 DEF SessionOK, Known
  <2>2. key # Stock
    BY <1>3, <1>6, <2>1 DEF NeedsWrite, Changed, Storable
  <2>3. key \in StoredKeys
    BY <1>2, SaveKeys
  <2>4. Current(i) \in CandleRow
    BY <1>1, <2>1, <2>2, <2>3 DEF SessionOK, Current, Present, Storable, IngestionInv
  <2>5. Due(i).row \in CandleRow
    BY <1>3, <2>2 DEF Storable
  <2>6. Flushed(i) = [c \in DOMAIN Due(i).row |-> IF c \in Changed(i) THEN Due(i).row[c] ELSE Current(i)[c]]
    BY <1>6 DEF Flushed
  <2>7. Flushed(i) \in CandleRow
    <3> DEFINE p == Due(i).row
               q == Current(i)
               Both(c) == IF c \in Changed(i) THEN p[c] ELSE q[c]
    <3>1. p \in CandleRow /\ q \in CandleRow
      BY <2>4, <2>5
    <3>2. DOMAIN p = {"day", "open", "high", "low", "close", "volume", "basis"}
      BY <3>1 DEF CandleRow
    <3>3. Flushed(i) = [day |-> Both("day"), open |-> Both("open"), high |-> Both("high"),
                        low |-> Both("low"), close |-> Both("close"), volume |-> Both("volume"),
                        basis |-> Both("basis")]
      <4> HIDE DEF p, q
      <4>1. Flushed(i) = [c \in {"day", "open", "high", "low", "close", "volume", "basis"} |-> Both(c)]
        BY <2>6, <3>2 DEF p, q
      <4> HIDE DEF Both
      <4> QED
        BY <4>1
    <3> HIDE DEF p, q
    <3>4. /\ Both("day") \in Nat /\ Both("open") \in Int /\ Both("high") \in Int /\ Both("low") \in Int
          /\ Both("close") \in Int /\ Both("volume") \in Int /\ Both("basis") \in {c.basis : c \in Candles}
      BY <3>1 DEF CandleRow
    <3> HIDE DEF Both
    <3> QED
      BY <3>3, <3>4 DEF CandleRow
  <2>8. ASSUME NEW c \in DOMAIN Flushed(i)
        PROVE  \/ Explained(committed, key, c, Flushed(i)[c])
               \/ \E row \in Saved(s.batch, key) : row[c] = Flushed(i)[c]
    <3>1. CASE c \in Changed(i)
      BY <1>4, <2>6, <3>1
    <3>2. CASE c \notin Changed(i)
      <4>1. Flushed(i)[c] = Current(i)[c] /\ c \in DOMAIN Current(i)
        BY <2>4, <2>5, <2>6, <3>2 DEF CandleRow
      <4>2. CASE key \in DOMAIN written[i]
        BY <1>1, <2>2, <4>1, <4>2 DEF SessionOK, Current
      <4>3. CASE key \notin DOMAIN written[i]
        <5>1. rows[key] # NoRow /\ Current(i) = rows[key]
          BY <2>1, <4>3 DEF Present, Current
        <5> QED
          BY <2>2, <2>3, <4>1, <5>1 DEF IngestionInv, OnlyWholeBatches, Explained
      <4> QED
        BY <4>2, <4>3
    <3> QED
      BY <3>1, <3>2
  <2>9. ~Overtakes(i) => Flushed(i) = Due(i).row
    <3> SUFFICES ASSUME ~Overtakes(i) PROVE Flushed(i) = Due(i).row
      OBVIOUS
    <3> DEFINE p == Due(i).row
    <3>1. Known(i) = Current(i)
      BY <1>6 DEF Overtakes
    <3>2. \A c \in DOMAIN p : c \notin Changed(i) => Current(i)[c] = p[c]
      BY <3>1 DEF Changed
    <3>3. Flushed(i) = [c \in DOMAIN p |-> p[c]]
      BY <2>6, <3>2
    <3>4. p = [c \in DOMAIN p |-> p[c]]
      BY <2>5 DEF CandleRow
    <3> QED
      BY <3>3, <3>4
  <2> QED
    BY <1>4, <2>2, <2>7, <2>8, <2>9 DEF Storable
<1> QED
  BY <1>5, <1>6

LEMMA FlushStep ==
  ASSUME IngestionAssumption, IngestionInv, NEW i \in Ingestors, ingestion[i].pc = "write", Flush(i),
         UNCHANGED committed
  PROVE  IngestionInv'
<1> DEFINE old == ingestion[i]
           key == Due(i).key
           s == [old EXCEPT !.pc = "select", !.todo = Tail(old.todo)]
           l == [loaded[i] EXCEPT ![key] = Due(i).row]
           w == IF NeedsWrite(i) THEN With(written[i], key, Flushed(i)) ELSE written[i]
<1>1. SessionOK(old, loaded[i], written[i], rows, committed, overtaken) /\ old.todo # <<>> /\ key \in DOMAIN loaded[i]
  BY DEF IngestionInv, SessionOK, Due
<1>2. /\ old.todo \in Seq(Save) /\ Tail(old.todo) \in Seq(Save) /\ Due(i) \in Save
      /\ ToSet(old.todo) = {Due(i)} \cup ToSet(Tail(old.todo))
  <2>1. old.todo \in Seq(Save)
    BY <1>1 DEF SessionOK
  <2> HIDE DEF old
  <2>2. /\ Tail(old.todo) \in Seq(Save) /\ Head(old.todo) \in Save /\ Head(old.todo) = old.todo[1]
        /\ DOMAIN old.todo = 1 .. Len(old.todo) /\ DOMAIN Tail(old.todo) = 1 .. Len(old.todo) - 1
        /\ Len(old.todo) \in Nat \ {0}
        /\ \A n \in 1 .. Len(old.todo) - 1 : Tail(old.todo)[n] = old.todo[n + 1]
    BY <1>1, <2>1
  <2>3. \A n \in 1 .. Len(old.todo) : n = 1 \/ (n - 1 \in 1 .. Len(old.todo) - 1 /\ n = (n - 1) + 1)
    BY <2>2
  <2>4. ToSet(old.todo) = {Head(old.todo)} \cup ToSet(Tail(old.todo))
    <3> DEFINE q == old.todo
               t == Tail(old.todo)
               n == Len(old.todo)
    <3>1. ASSUME NEW j \in 1 .. n PROVE q[j] = Head(q) \/ q[j] \in ToSet(t)
      <4>1. CASE j = 1
        BY <2>2, <4>1
      <4>2. CASE j # 1
        <5>1. j - 1 \in DOMAIN t /\ t[j - 1] = q[j]
          BY <2>2, <2>3, <4>2
        <5> QED
          BY <5>1 DEF ToSet
      <4> QED
        BY <4>1, <4>2
    <3>2. 1 \in DOMAIN q /\ q[1] = Head(q)
      BY <2>2
    <3>3. \A j \in DOMAIN t : j + 1 \in DOMAIN q /\ q[j + 1] = t[j]
      BY <2>2
    <3>4. DOMAIN q = 1 .. n
      BY <2>2
    <3> HIDE DEF q, t, n
    <3>5. ToSet(q) \subseteq {Head(q)} \cup ToSet(t)
      BY <3>1, <3>4 DEF ToSet
    <3>6. Head(q) \in ToSet(q) /\ ToSet(t) \subseteq ToSet(q)
      BY <3>2, <3>3 DEF ToSet
    <3> QED
      BY <3>5, <3>6 DEF q, t
  <2> QED
    BY <2>1, <2>2, <2>4 DEF Due, old
<1>3. key \in StoredKeys /\ Due(i).row \in Storable(key)
  BY <1>2, SaveKeys DEF Save, Storable, IngestionAssumption
<1>4. /\ DOMAIN written[i] \subseteq DOMAIN w /\ DOMAIN w \subseteq StoredKeys
      /\ \A k \in DOMAIN w : w[k] \in Storable(k)
  BY <1>1, <1>3, FlushedIsSound DEF SessionOK, With
<1>5. \A k \in DOMAIN w \ {Stock} : \A c \in DOMAIN w[k] :
        Explained(committed, k, c, w[k][c]) \/ \E row \in Saved(old.batch, k) : row[c] = w[k][c]
  <2>1. \A k \in DOMAIN w : \/ k \in DOMAIN written[i] /\ w[k] = written[i][k]
                            \/ NeedsWrite(i) /\ k = key /\ w[k] = Flushed(i)
    BY DEF With
  <2> HIDE DEF w
  <2> QED
    BY <1>1, <2>1, FlushedIsSound DEF SessionOK
<1>11. overtaken \subseteq overtaken' /\ (Overtakes(i) => key \in overtaken')
  BY DEF Flush
<1>12. \A k \in DOMAIN w \ {Stock} : k \notin overtaken' => w[k] \in Saved(old.batch, k)
  <2>1. \A k \in DOMAIN w : \/ k \in DOMAIN written[i] /\ w[k] = written[i][k]
                            \/ NeedsWrite(i) /\ k = key /\ w[k] = Flushed(i)
    BY DEF With
  <2>2. NeedsWrite(i) /\ key # Stock /\ ~Overtakes(i) => Flushed(i) \in Saved(old.batch, key)
    BY FlushedIsSound
  <2> HIDE DEF w
  <2> QED
    BY <1>1, <1>11, <2>1, <2>2 DEF SessionOK
<1>6. Present(w, rows, key)
  <2>1. CASE NeedsWrite(i)
    BY <2>1 DEF Present, With
  <2>2. CASE ~NeedsWrite(i)
    BY <1>1, <2>2 DEF NeedsWrite, Known, SessionOK, Present
  <2> QED
    BY <2>1, <2>2
<1>7. \A k : Present(written[i], rows, k) => Present(w, rows, k)
  BY <1>4 DEF Present
<1>8. DOMAIN l = DOMAIN loaded[i] /\ l[key] = Due(i).row /\ \A k \in DOMAIN l : k # key => l[k] = loaded[i][k]
  BY <1>1
<1>9. SessionOK(s, l, w, rows, committed, overtaken')
  <2> HIDE DEF l, w
  <2>1. s \in [pc : {"idle", "fetched", "select", "write"}, batch : Responses, todo : Seq(Save)]
    BY <1>1, <1>2 DEF SessionOK
  <2>2. DOMAIN l \subseteq StoredKeys /\ \A k \in DOMAIN l : l[k] \in Storable(k) \cup {NoRow}
    BY <1>1, <1>3, <1>8 DEF SessionOK
  <2>3. \A k \in DOMAIN l : l[k] # NoRow => Present(w, rows, k)
    BY <1>1, <1>6, <1>7, <1>8 DEF SessionOK
  <2>4. /\ s.pc = "select" /\ s.batch = old.batch /\ s.todo = Tail(old.todo)
    BY <1>1 DEF SessionOK
  <2>5. /\ ToSet(Tail(old.todo)) \subseteq ToSet(Writes(old.batch))
        /\ \A x \in ToSet(Writes(old.batch)) : x \in ToSet(Tail(old.todo)) \/ Present(w, rows, x.key)
    BY <1>1, <1>2, <1>6, <1>7 DEF SessionOK
  <2> HIDE DEF s, old
  <2> QED
    BY <1>4, <1>5, <1>12, <2>1, <2>2, <2>3, <2>4, <2>5 DEF SessionOK
<1>10. /\ ingestion' = [ingestion EXCEPT ![i] = s] /\ loaded' = [loaded EXCEPT ![i] = l]
       /\ written' = [written EXCEPT ![i] = w] /\ UNCHANGED <<rows, logs, committed>>
  BY DEF Flush
<1> HIDE DEF s, l, w
<1> QED
  BY <1>9, <1>10, <1>11, SessionStep DEF IngestionInv

LEMMA CommitStep ==
  ASSUME IngestionAssumption, IngestionInv, NEW i \in Ingestors, Commit(i)
  PROVE  IngestionInv'
<1> DEFINE batch == ingestion[i].batch
           w == written[i]
           m == Len(committed)
<1>1. /\ SessionOK(ingestion[i], loaded[i], w, rows, committed, overtaken)
      /\ ingestion[i].pc = "select" /\ ingestion[i].todo = <<>>
  BY DEF IngestionInv, Commit
<1>2. /\ rows' = [k \in StoredKeys |-> IF k \in DOMAIN w THEN w[k] ELSE rows[k]]
      /\ logs' = logs + LogCount(batch) /\ committed' = Append(committed, batch)
      /\ overtaken' = overtaken
  BY DEF Commit, Over, IngestionInv
<1>3. batch \in Responses /\ DOMAIN w \subseteq StoredKeys /\ \A k \in DOMAIN w : w[k] \in Storable(k)
  BY <1>1 DEF SessionOK
<1>4. DOMAIN rows' = StoredKeys /\ \A k \in StoredKeys : rows'[k] \in Storable(k) \cup {NoRow}
  BY <1>2, <1>3 DEF IngestionInv
<1>5. /\ committed \in Seq(Responses) /\ committed' \in Seq(Responses) /\ m \in Nat
      /\ DOMAIN committed = 1 .. m /\ DOMAIN committed' = 1 .. m + 1
      /\ committed'[m + 1] = batch /\ \A n \in 1 .. m : committed'[n] = committed[n]
  BY <1>2, <1>3 DEF IngestionInv
<1>6. \A k \in StoredKeys : Present(w, rows, k) => rows'[k] # NoRow
  BY <1>2, <1>3, NotARow DEF Present
<1>7. \A k \in StoredKeys : rows[k] # NoRow => rows'[k] # NoRow
  BY <1>6 DEF Present
<1>8. \A j \in Ingestors : SessionOK(ingestion'[j], loaded'[j], written'[j], rows', committed', overtaken')
  <2>1. SessionOK(IdleIngestor, Nothing, Nothing, rows', committed', overtaken')
    BY IdleTypes, EmptySession
  <2>2. ASSUME NEW j \in Ingestors
        PROVE  SessionOK(ingestion[j], loaded[j], written[j], rows', committed', overtaken')
    <3>1. SessionOK(ingestion[j], loaded[j], written[j], rows, committed, overtaken) /\ DOMAIN written[j] \subseteq StoredKeys
      BY DEF IngestionInv, SessionOK
    <3>2. DOMAIN committed \subseteq DOMAIN committed' /\ \A n \in DOMAIN committed : committed'[n] = committed[n]
      BY <1>5
    <3>3. overtaken \subseteq overtaken'
      BY <1>2
    <3> HIDE DEF w, m, batch
    <3> QED
      BY <1>7, <3>1, <3>2, <3>3, SessionStays
  <2> QED
    BY <2>1, <2>2 DEF Commit, IngestionInv
<1>9. logs' = LogsOf(committed')
  BY <1>2, <1>3, <1>5, LogsOfOneMore DEF IngestionInv, OnlyWholeBatches
<1>10. \A n \in DOMAIN committed' : \A x \in ToSet(Writes(committed'[n])) : rows'[x.key] # NoRow
  <2>1. \A x \in ToSet(Writes(batch)) : x.key \in StoredKeys /\ Present(w, rows, x.key)
    BY <1>1, <1>3, SaveKeys DEF SessionOK, ToSet
  <2>2. \A n \in 1 .. m : \A x \in ToSet(Writes(committed[n])) : x.key \in StoredKeys /\ rows[x.key] # NoRow
    BY <1>5, SaveKeys DEF IngestionInv, OnlyWholeBatches
  <2> HIDE DEF m
  <2>3. \A n \in 1 .. m + 1 : n \in 1 .. m \/ n = m + 1
    BY <1>5
  <2> QED
    BY <1>5, <1>6, <1>7, <2>1, <2>2, <2>3
<1>11. \A k \in StoredKeys \ {Stock} : rows'[k] # NoRow =>
         \A c \in DOMAIN rows'[k] : Explained(committed', k, c, rows'[k][c])
  <2> SUFFICES ASSUME NEW k \in StoredKeys \ {Stock}, rows'[k] # NoRow, NEW c \in DOMAIN rows'[k]
               PROVE  Explained(committed', k, c, rows'[k][c])
    OBVIOUS
  <2>1. \A value : Explained(committed, k, c, value) => Explained(committed', k, c, value)
    BY <1>5 DEF Explained
  <2>2. CASE k \in DOMAIN w
    <3>1. rows'[k] = w[k]
      BY <1>2, <2>2
    <3>2. Explained(committed, k, c, w[k][c]) \/ \E row \in Saved(batch, k) : row[c] = w[k][c]
      BY <1>1, <2>2, <3>1 DEF SessionOK
    <3>3. m + 1 \in DOMAIN committed' /\ committed'[m + 1] = batch
      BY <1>5
    <3> QED
      BY <2>1, <3>1, <3>2, <3>3 DEF Explained
  <2>3. CASE k \notin DOMAIN w
    <3>1. rows'[k] = rows[k]
      BY <1>2, <2>3
    <3>2. rows[k] # NoRow /\ c \in DOMAIN rows[k]
      BY <3>1
    <3>3. Explained(committed, k, c, rows[k][c])
      BY <3>2 DEF IngestionInv, OnlyWholeBatches, Explained
    <3> QED
      BY <2>1, <3>1, <3>3
  <2> QED
    BY <2>2, <2>3
<1>14. \A k \in StoredKeys \ {Stock} : rows'[k] # NoRow /\ k \notin overtaken' =>
         \E n \in DOMAIN committed' : rows'[k] \in Saved(committed'[n], k)
  <2> SUFFICES ASSUME NEW k \in StoredKeys \ {Stock}, rows'[k] # NoRow, k \notin overtaken
               PROVE  \E n \in DOMAIN committed' : rows'[k] \in Saved(committed'[n], k)
    BY <1>2
  <2>1. CASE k \in DOMAIN w
    <3>1. rows'[k] \in Saved(batch, k)
      BY <1>1, <1>2, <2>1 DEF SessionOK
    <3>2. m + 1 \in DOMAIN committed' /\ committed'[m + 1] = batch
      BY <1>5
    <3> QED
      BY <3>1, <3>2
  <2>2. CASE k \notin DOMAIN w
    <3>1. rows'[k] = rows[k]
      BY <1>2, <2>2
    <3>2. PICK n \in DOMAIN committed : rows[k] \in Saved(committed[n], k)
      BY <3>1 DEF IngestionInv, OnlyWholeBatches
    <3>3. n \in DOMAIN committed' /\ committed'[n] = committed[n]
      BY <1>5, <3>2
    <3> QED
      BY <3>1, <3>2, <3>3
  <2> QED
    BY <2>1, <2>2
<1>12. OnlyWholeBatches'
  BY <1>9, <1>10, <1>11, <1>14 DEF OnlyWholeBatches, Explained
<1>13. DOMAIN ingestion' = Ingestors /\ DOMAIN loaded' = Ingestors /\ DOMAIN written' = Ingestors
  BY DEF Commit, IngestionInv
<1> QED
  BY <1>4, <1>5, <1>8, <1>12, <1>13 DEF IngestionInv

\* What an earlier run may have stored is stored as a whole.
LEMMA EarlierIsWhole ==
  ASSUME IngestionAssumption, NEW batch \in Earlier
  PROVE  LET r == TablesAfter(batch)
         IN /\ batch \in Responses /\ DOMAIN r = StoredKeys
            /\ \A k \in StoredKeys : r[k] \in Storable(k) \cup {NoRow}
            /\ \A w \in ToSet(Writes(batch)) : r[w.key] # NoRow
            /\ \A k \in StoredKeys : r[k] # NoRow => r[k] \in Saved(batch, k)
<1> DEFINE r == TablesAfter(batch)
<1>1. batch \in Responses
  BY DEF IngestionAssumption, Responses
<1>2. DOMAIN r = StoredKeys
  BY DEF TablesAfter
<1>3. \A k \in StoredKeys : /\ Saved(batch, k) = {} => r[k] = NoRow
                            /\ Saved(batch, k) # {} => r[k] \in Saved(batch, k)
  <2> SUFFICES ASSUME NEW k \in StoredKeys
               PROVE  /\ Saved(batch, k) = {} => r[k] = NoRow
                      /\ Saved(batch, k) # {} => r[k] \in Saved(batch, k)
    OBVIOUS
  <2>1. r[k] = IF Saved(batch, k) = {} THEN NoRow ELSE CHOOSE row \in Saved(batch, k) : TRUE
    BY DEF TablesAfter
  <2> HIDE DEF r
  <2> QED
    BY <2>1
<1>4. \A w \in ToSet(Writes(batch)) : w \in Save /\ w.key \in StoredKeys /\ w.row \in Storable(w.key)
  <2>1. \A w \in Save : w.key \in StoredKeys /\ w.row \in Storable(w.key)
    BY SaveKeys DEF Save, Storable, IngestionAssumption
  <2> QED
    BY <1>1, <2>1, SaveKeys
<1>5. \A k \in StoredKeys : Saved(batch, k) \subseteq Storable(k)
  BY <1>4 DEF Saved
<1>6. \A w \in ToSet(Writes(batch)) : w.row \in Saved(batch, w.key)
  BY DEF Saved
<1> HIDE DEF r
<1>7. \A k \in StoredKeys : r[k] \in Storable(k) \cup {NoRow}
  BY <1>3, <1>5
<1>8. \A w \in ToSet(Writes(batch)) : r[w.key] # NoRow
  BY <1>3, <1>4, <1>5, <1>6, NotARow
<1>9. \A k \in StoredKeys : r[k] # NoRow => r[k] \in Saved(batch, k)
  BY <1>3
<1> QED
  BY <1>1, <1>2, <1>7, <1>8, <1>9 DEF r

LEMMA IngestionInvInit == IngestionAssumption /\ IngestionInit => IngestionInv
<1> SUFFICES ASSUME IngestionAssumption, IngestionInit PROVE IngestionInv
  OBVIOUS
<1>1. \A i \in Ingestors : SessionOK(ingestion[i], loaded[i], written[i], rows, committed, overtaken)
  BY IdleTypes, EmptySession DEF IngestionInit
<1>2. DOMAIN ingestion = Ingestors /\ DOMAIN loaded = Ingestors /\ DOMAIN written = Ingestors
  BY DEF IngestionInit
<1>3. LogsOf(<<>>) = 0
  <2>1. IsFiniteSet(DOMAIN <<>>) /\ DOMAIN <<>> = {}
    BY FS_EmptySet
  <2> QED
    BY <2>1, LogsAreASum, SumOfNone
<1>4. CASE rows = [k \in StoredKeys |-> NoRow] /\ logs = 0 /\ committed = <<>>
  <2>1. DOMAIN committed = {} /\ committed \in Seq(Responses)
    BY <1>4
  <2>2. OnlyWholeBatches
    BY <1>3, <1>4, <2>1 DEF OnlyWholeBatches
  <2> QED
    BY <1>1, <1>2, <1>4, <2>1, <2>2 DEF IngestionInv
<1>5. ASSUME NEW batch \in Earlier, rows = TablesAfter(batch), logs = LogCount(batch), committed = <<batch>>
      PROVE  IngestionInv
  <2>1. batch \in Responses
    BY EarlierIsWhole
  <2>2. committed \in Seq(Responses) /\ DOMAIN committed = {1} /\ committed[1] = batch
    BY <1>5, <2>1
  <2>3. logs = LogsOf(committed)
    <3>1. <<>> \in Seq(Responses) /\ Append(<<>>, batch) = <<batch>>
      BY <2>1
    <3>2. LogsOf(<<batch>>) = LogsOf(<<>>) + LogCount(batch)
      BY <2>1, <3>1, LogsOfOneMore
    <3>3. LogCount(batch) \in Int
      BY <2>1, LogsAreFinite
    <3> QED
      BY <1>3, <1>5, <3>2, <3>3
  <2>4. DOMAIN rows = StoredKeys /\ \A k \in StoredKeys : rows[k] \in Storable(k) \cup {NoRow}
    BY <1>5, EarlierIsWhole
  <2>5. \A w \in ToSet(Writes(batch)) : rows[w.key] # NoRow
    BY <1>5, EarlierIsWhole
  <2>6. \A k \in StoredKeys : rows[k] # NoRow => rows[k] \in Saved(batch, k)
    BY <1>5, EarlierIsWhole
  <2>7. OnlyWholeBatches
    BY <2>2, <2>3, <2>5, <2>6 DEF OnlyWholeBatches
  <2> QED
    BY <1>1, <1>2, <2>2, <2>4, <2>7 DEF IngestionInv
<1> QED
  BY <1>4, <1>5 DEF IngestionInit

LEMMA IngestionInvStep == IngestionAssumption /\ IngestionInv /\ [IngestionNext]_ingestionVars => IngestionInv'
<1> SUFFICES ASSUME IngestionAssumption, IngestionInv, [IngestionNext]_ingestionVars PROVE IngestionInv'
  OBVIOUS
<1>1. CASE UNCHANGED ingestionVars
  <2>1. OnlyWholeBatches'
    BY <1>1 DEF IngestionInv, OnlyWholeBatches, ingestionVars, session
  <2> QED
    BY <1>1, <2>1 DEF IngestionInv, ingestionVars, session
<1>2. ASSUME NEW i \in Ingestors, Ingest(i) PROVE IngestionInv'
  <2>1. CASE WriteRow(i)
    BY <2>1, RollbackStep, FlushStep DEF WriteRow
  <2>2. CASE LoseTransaction(i)
    BY <2>2, RollbackStep DEF LoseTransaction
  <2> QED
    BY <1>2, <2>1, <2>2, EarlyStep, SelectStep, CommitStep DEF Ingest
<1> QED
  BY <1>1, <1>2 DEF IngestionNext

\* Of a committed response every row and every log is there and of no other anything, and every
\* stored candle is as a whole one that a committed response saves, but for the rows in which an
\* update overtook another session; there each column is from a committed response. For any number
\* of ingestions that overlap, any responses and any failures.
THEOREM WholeBatchesCorrect ==
  ASSUME IngestionAssumption
  PROVE  IngestionSpec => []OnlyWholeBatches
<1>1. IngestionInv => OnlyWholeBatches
  BY DEF IngestionInv
<1>2. IngestionInit => IngestionInv
  BY IngestionInvInit
<1>3. IngestionInv /\ [IngestionNext]_ingestionVars => IngestionInv'
  BY IngestionInvStep
<1> QED
  BY <1>1, <1>2, <1>3, PTL DEF IngestionSpec

\* The candles of the provider have the columns of a row.
LEMMA CandleColumns ==
  ASSUME IngestionAssumption, NEW c \in Candles
  PROVE  c.day \in Nat /\ c.open \in Int /\ c.high \in Int /\ c.low \in Int /\ c.close \in Int /\ c.volume \in Int
  BY DEF IngestionAssumption, CandleRow

\* Without an error, every candle is valid, and later than the one before it.
LEMMA NoErrors ==
  ASSUME IngestionAssumption, NEW batch \in Responses
  PROVE  Errors(batch) = {} <=>
           /\ Cardinality(Bases(batch)) \in {0, 1}
           /\ \A i \in DOMAIN batch : ValidOHLCV(batch[i])
           /\ \A i \in DOMAIN batch : i > 1 => batch[i - 1].day < batch[i].day
           /\ \A i \in DOMAIN batch : \A j \in 1 .. i - 1 : batch[j].day # batch[i].day
<1>1. PICK m \in Nat : batch \in [1 .. m -> Candles]
  BY ResponseTypes
<1>2. ASSUME NEW i \in DOMAIN batch
      PROVE  /\ ValidOHLCV(batch[i]) <=> ValidOHLCV([batch[i] EXCEPT !.volume = 0]) /\ ~(batch[i].volume < 0)
             /\ i > 1 => (batch[i - 1].day < batch[i].day <=> ~(batch[i].day <= batch[i - 1].day))
  <2>1. batch[i] \in CandleRow
    BY <1>1 DEF IngestionAssumption
  <2>2. batch[i].volume \in Int /\ batch[i].day \in Nat
    BY <2>1 DEF CandleRow
  <2>3. /\ [batch[i] EXCEPT !.volume = 0].low = batch[i].low /\ [batch[i] EXCEPT !.volume = 0].high = batch[i].high
        /\ [batch[i] EXCEPT !.volume = 0].open = batch[i].open /\ [batch[i] EXCEPT !.volume = 0].close = batch[i].close
        /\ [batch[i] EXCEPT !.volume = 0].volume = 0
    BY <2>1 DEF CandleRow
  <2>4. i > 1 => batch[i - 1].day \in Nat
    BY <1>1, CandleColumns
  <2> QED
    BY <2>2, <2>3, <2>4 DEF ValidOHLCV
<1> DEFINE mixed == {[rule |-> "mixed_price_basis", at |-> 0] : k \in {Cardinality(Bases(batch))} \ {0, 1}}
           about(rule, J) == {[rule |-> rule, at |-> i] : i \in J}
           repeats == {i \in DOMAIN batch : \E j \in 1 .. (i - 1) : batch[j].day = batch[i].day}
           prices == {i \in DOMAIN batch : ~ValidOHLCV([batch[i] EXCEPT !.volume = 0])}
           negative == {i \in DOMAIN batch : batch[i].volume < 0}
           disorder == {i \in DOMAIN batch : i > 1 /\ batch[i].day <= batch[i - 1].day}
<1>3. Errors(batch) = mixed \cup about("duplicate_timestamp", repeats) \cup about("invalid_ohlc", prices)
                        \cup about("negative_volume", negative) \cup about("out_of_order", disorder)
  BY DEF Errors
<1>4. \A rule, J : about(rule, J) = {} <=> J = {}
  OBVIOUS
<1>5. mixed = {} <=> Cardinality(Bases(batch)) \in {0, 1}
  OBVIOUS
<1>6. Errors(batch) = {} <=> mixed = {} /\ repeats = {} /\ prices = {} /\ negative = {} /\ disorder = {}
  <2> HIDE DEF mixed, about, repeats, prices, negative, disorder
  <2> DEFINE a == about("duplicate_timestamp", repeats)
             b == about("invalid_ohlc", prices)
             c == about("negative_volume", negative)
             d == about("out_of_order", disorder)
  <2>1. /\ a = {} <=> repeats = {}
        /\ b = {} <=> prices = {}
        /\ c = {} <=> negative = {}
        /\ d = {} <=> disorder = {}
    BY <1>4
  <2>2. Errors(batch) = mixed \cup a \cup b \cup c \cup d
    BY <1>3
  <2> HIDE DEF a, b, c, d
  <2>3. mixed \cup a \cup b \cup c \cup d = {} <=> mixed = {} /\ a = {} /\ b = {} /\ c = {} /\ d = {}
    OBVIOUS
  <2> QED
    BY <2>1, <2>2, <2>3
<1>7. prices = {} /\ negative = {} <=> \A i \in DOMAIN batch : ValidOHLCV(batch[i])
  BY <1>2
<1>8. disorder = {} <=> \A i \in DOMAIN batch : i > 1 => batch[i - 1].day < batch[i].day
  BY <1>2
<1>9. repeats = {} <=> \A i \in DOMAIN batch : \A j \in 1 .. i - 1 : batch[j].day # batch[i].day
  OBVIOUS
<1> HIDE DEF mixed, repeats, prices, negative, disorder
<1> QED
  BY <1>5, <1>6, <1>7, <1>8, <1>9

\* Without an error nothing is to be cleaned: the order of days is that of the response.
LEMMA SoundIsKept ==
  ASSUME IngestionAssumption, NEW batch \in Responses, Errors(batch) = {}
  PROVE  Cleaned(batch) = batch
<1>1. PICK m \in Nat : batch \in [1 .. m -> Candles]
  BY ResponseTypes
<1> DEFINE days == {batch[i].day : i \in {j \in DOMAIN batch : ValidOHLCV(batch[j])}}
           n == Cardinality(days)
           p == [i \in 1 .. m |-> batch[i].day]
           cleaned == Clean(batch)
           q == [i \in 1 .. n |-> cleaned[i].day]
<1>2. /\ Cardinality(Bases(batch)) \in {0, 1} /\ \A i \in 1 .. m : ValidOHLCV(batch[i])
      /\ \A i \in 1 .. m : i > 1 => batch[i - 1].day < batch[i].day
  BY <1>1, NoErrors
<1>3. \A i \in 1 .. m : batch[i].day \in Nat
  BY <1>1, CandleColumns
<1>4. p \in [1 .. m -> Int] /\ \A i \in 1 .. m : i > 1 => p[i - 1] < p[i]
  BY <1>2, <1>3
<1>5. Increasing(p)
  <2> HIDE DEF p
  <2> QED
    BY <1>4, StepwiseIncreasing
<1>6. days \in SUBSET Nat /\ p \in [1 .. m -> days] /\ \A x \in days : \E i \in 1 .. m : p[i] = x
  BY <1>1, <1>2, <1>3
<1>7. n = m
  <2>1. p \in Bijection(1 .. m, days)
    <3>1. \A i, j \in 1 .. m : i # j => p[i] # p[j]
      <4> SUFFICES ASSUME NEW i \in 1 .. m, NEW j \in 1 .. m, i # j PROVE p[i] # p[j]
        OBVIOUS
      <4>1. p[i] \in Nat /\ p[j] \in Nat /\ DOMAIN p = 1 .. m /\ (i < j \/ j < i)
        BY <1>3
      <4>2. p[i] < p[j] \/ p[j] < p[i]
        BY <1>5, <4>1 DEF Increasing
      <4> HIDE DEF p
      <4> QED
        BY <4>1, <4>2
    <3> HIDE DEF p, days
    <3> QED
      BY <1>6, <3>1 DEF Bijection, Injection, Surjection, IsInjective
  <2>2. ExistsBijection(1 .. m, days)
    BY <2>1 DEF ExistsBijection
  <2>3. IsFiniteSet(1 .. m) /\ Cardinality(1 .. m) = m
    BY FS_Interval
  <2> HIDE DEF days
  <2> QED
    BY <2>2, <2>3, FS_Bijection
<1>8. /\ cleaned \in [1 .. m -> Candles]
      /\ \A k \in 1 .. m : \E i \in 1 .. m : cleaned[k] = batch[i]
      /\ \A i, j \in 1 .. m : i < j => cleaned[i].day < cleaned[j].day
      /\ \A i \in 1 .. m : \E k \in 1 .. m : cleaned[k].day = batch[i].day
  <2>1. /\ cleaned \in [1 .. n -> Candles]
        /\ \A k \in 1 .. n : \E i \in DOMAIN batch : cleaned[k] = batch[i]
        /\ \A i, j \in 1 .. n : i < j => cleaned[i].day < cleaned[j].day
        /\ \A i \in DOMAIN batch : ValidOHLCV(batch[i]) => \E k \in 1 .. n : cleaned[k].day = batch[i].day
    BY CleanIs
  <2>2. DOMAIN batch = 1 .. m
    BY <1>1
  <2> HIDE DEF n, cleaned
  <2> QED
    BY <1>2, <1>7, <2>1, <2>2
<1> HIDE DEF cleaned
<1> HIDE DEF n
<1>9. q \in [1 .. m -> days] /\ Increasing(q) /\ \A x \in days : \E k \in 1 .. m : q[k] = x
  <2>1. \A k \in 1 .. m : cleaned[k].day \in days
    BY <1>1, <1>2, <1>7, <1>8
  <2>2. q = [k \in 1 .. m |-> cleaned[k].day]
    BY <1>7
  <2>3. \A x \in days : \E i \in 1 .. m : batch[i].day = x
    BY <1>1
  <2> HIDE DEF q, days
  <2>4. q \in [1 .. m -> days] /\ \A k \in 1 .. m : q[k] = cleaned[k].day
    BY <2>1, <2>2
  <2>5. Increasing(q)
    <3>1. \A i, j \in 1 .. m : i < j => q[i] < q[j]
      BY <1>8, <2>4
    <3>2. DOMAIN q = 1 .. m
      BY <2>4
    <3> QED
      BY <3>1, <3>2 DEF Increasing
  <2>6. \A x \in days : \E k \in 1 .. m : q[k] = x
    <3> SUFFICES ASSUME NEW x \in days PROVE \E k \in 1 .. m : q[k] = x
      OBVIOUS
    <3>1. PICK i \in 1 .. m : batch[i].day = x
      BY <2>3
    <3>2. PICK k \in 1 .. m : cleaned[k].day = batch[i].day
      BY <1>8
    <3> QED
      BY <2>4, <3>1, <3>2
  <2> QED
    BY <2>4, <2>5, <2>6
<1>10. \A i \in 1 .. m : p[i] = q[i]
  <2> HIDE DEF p, q, days
  <2> QED
    BY <1>5, <1>6, <1>9, OneOrder
<1>11. \A k \in 1 .. m : cleaned[k] = batch[k]
  <2> SUFFICES ASSUME NEW k \in 1 .. m PROVE cleaned[k] = batch[k]
    OBVIOUS
  <2>1. PICK i \in 1 .. m : cleaned[k] = batch[i]
    BY <1>7, <1>8
  <2>2. p[k] = p[i]
    BY <1>7, <1>10, <2>1
  <2>3. i = k
    <3>1. p[i] \in Int /\ p[k] \in Int /\ DOMAIN p = 1 .. m /\ (i < k \/ k < i \/ i = k)
      BY <1>3
    <3>2. (i < k => p[i] < p[k]) /\ (k < i => p[k] < p[i])
      BY <1>5, <3>1 DEF Increasing
    <3> HIDE DEF p
    <3> QED
      BY <2>2, <3>1, <3>2
  <2> QED
    BY <2>1, <2>3
<1>12. Cleaned(batch) = cleaned
  BY <1>2 DEF Cleaned, cleaned
<1> HIDE DEF p, q, days
<1> QED
  BY <1>1, <1>7, <1>8, <1>11, <1>12

\* An error always shows: what is cleaned differs from the response.
LEMMA KeptIsSound ==
  ASSUME IngestionAssumption, NEW batch \in Responses, Cleaned(batch) = batch
  PROVE  Errors(batch) = {}
<1>1. PICK m \in Nat : batch \in [1 .. m -> Candles]
  BY ResponseTypes
<1>2. Cardinality(Bases(batch)) \in {0, 1}
  BY BasesAreFinite DEF Cleaned
<1>3. PICK n \in Nat : /\ batch \in [1 .. n -> Candles] /\ \A k \in 1 .. n : ValidOHLCV(batch[k])
                      /\ \A i, j \in 1 .. n : i < j => batch[i].day < batch[j].day
  BY CleanedIs
<1>4. DOMAIN batch = 1 .. n
  BY <1>3
<1>5. \A i \in DOMAIN batch : i > 1 => batch[i - 1].day < batch[i].day
  BY <1>3, <1>4
<1>6. \A i \in DOMAIN batch : \A j \in 1 .. i - 1 : batch[j].day # batch[i].day
  <2> SUFFICES ASSUME NEW i \in DOMAIN batch, NEW j \in 1 .. i - 1 PROVE batch[j].day # batch[i].day
    OBVIOUS
  <2>1. i \in 1 .. n /\ j \in 1 .. n /\ j < i
    BY <1>4
  <2>2. batch[j].day \in Nat /\ batch[i].day \in Nat /\ batch[j].day < batch[i].day
    BY <1>3, <2>1, CandleColumns
  <2> QED
    BY <2>2
<1> QED
  BY <1>2, <1>3, <1>4, <1>5, <1>6, NoErrors

\* A volume is the sum of the candles of the group.
LEMMA VolumeIsASum ==
  ASSUME NEW q, NEW S, IsFiniteSet(S)
  PROVE  Volume(q, S) = SumOver([i \in S |-> q[i].volume], S)
<1> DEFINE w == [i \in S |-> q[i].volume]
           Folds(g) == g = [s \in SUBSET S |-> IF s = {} THEN 0 ELSE g[s \ {Pick(s)}] + q[Pick(s)].volume]
           f == CHOOSE g : Folds(g)
<1>1. Volume(q, S) = f[S]
  BY DEF Volume, FoldSet, MapThenFoldSet, Pick
<1>2. \A g : Folds(g) <=> Unfolds(w, g, S)
  <2>1. \A s \in SUBSET S : s # {} => w[Pick(s)] = q[Pick(s)].volume
    BY PickIsElement
  <2> HIDE DEF w
  <2> QED
    BY <2>1 DEF Unfolds
<1>3. Unfolds(w, f, S)
  <2> HIDE DEF w
  <2>1. Folds(Unfolding(w, S))
    BY <1>2, UnfoldingExists
  <2> HIDE DEF Folds
  <2>2. Folds(f)
    BY <2>1
  <2> QED
    BY <1>2, <2>2
<1> HIDE DEF f, w
<1> QED
  BY <1>1, <1>3, UnfoldsToSum DEF w

\* The weeks and the months of some candles, in order.
LEMMA PeriodsInOrder ==
  ASSUME NEW length \in {7, 28}, NEW a \in Nat, NEW b \in Nat
  PROVE  /\ a \div length \in Nat
         /\ a <= b => a \div length <= b \div length
         /\ a \div length = b \div length => b < a + length
<1>1. CASE length = 7
  BY <1>1
<1>2. CASE length = 28
  BY <1>2
<1> QED
  BY <1>1, <1>2

\* c is the candle of a group of the candles q, whose volumes are w.
OneCandle(c, q, group, w) ==
  /\ ValidOHLCV(c)
  /\ Min(group) \in group /\ c.day = q[Min(group)].day /\ \A i \in group : Min(group) <= i
  /\ Max(group) \in group /\ c.close = q[Max(group)].close /\ \A i \in group : Max(group) >= i
  /\ \A i \in group : c.low <= q[i].low /\ q[i].high <= c.high
  /\ c.volume = SumOver(w, group) /\ c.volume \in Nat

LEMMA GroupIsACandle ==
  ASSUME IngestionAssumption, NEW n \in Nat, NEW q \in [1 .. n -> Candles],
         \A i \in 1 .. n : ValidOHLCV(q[i]), NEW group \in SUBSET (1 .. n), group # {},
         NEW w, \A i \in 1 .. n : w[i] = q[i].volume
  PROVE  OneCandle(Aggregated(q, group), q, group, w)
<1> DEFINE c == Aggregated(q, group)
           lows == {q[i].low : i \in group}
           highs == {q[i].high : i \in group}
           v == [i \in group |-> q[i].volume]
<1>1. /\ \A i \in 1 .. n : /\ q[i].open \in Int /\ q[i].high \in Int /\ q[i].low \in Int /\ q[i].close \in Int
                           /\ q[i].volume \in Nat
                           /\ q[i].low <= q[i].open /\ q[i].low <= q[i].close
                           /\ q[i].high >= q[i].open /\ q[i].high >= q[i].close
      /\ group \in SUBSET Int
  <2> SUFFICES ASSUME NEW i \in 1 .. n
               PROVE  /\ q[i].open \in Int /\ q[i].high \in Int /\ q[i].low \in Int /\ q[i].close \in Int
                      /\ q[i].volume \in Nat
                      /\ q[i].low <= q[i].open /\ q[i].low <= q[i].close
                      /\ q[i].high >= q[i].open /\ q[i].high >= q[i].close
    OBVIOUS
  <2>1. q[i] \in Candles /\ ValidOHLCV(q[i])
    OBVIOUS
  <2>2. /\ q[i].open \in Int /\ q[i].high \in Int /\ q[i].low \in Int /\ q[i].close \in Int
        /\ q[i].volume \in Int
    BY <2>1, CandleColumns
  <2> QED
    BY <2>1, <2>2 DEF ValidOHLCV
<1>2. IsFiniteSet(1 .. n) /\ IsFiniteSet(group)
  <2>1. IsFiniteSet(1 .. n)
    BY FS_Interval
  <2> QED
    BY <2>1, FS_Subset
<1>3. /\ Min(group) \in group /\ \A i \in group : Min(group) <= i
      /\ Max(group) \in group /\ \A i \in group : Max(group) >= i
  BY <1>1, <1>2, Extremes
<1>4. /\ Min(lows) \in Int /\ \A i \in group : Min(lows) <= q[i].low
  <2>1. lows \in SUBSET Int /\ lows # {}
    BY <1>1
  <2>2. \A i \in group : q[i].low \in lows
    OBVIOUS
  <2>3. IsFiniteSet(lows)
    <3> DEFINE f == [i \in group |-> q[i].low]
    <3>1. DOMAIN f = group /\ {f[i] : i \in group} = lows
      OBVIOUS
    <3> HIDE DEF f, lows
    <3> QED
      BY <1>2, <3>1, ImageIsFinite
  <2> HIDE DEF lows
  <2> QED
    BY <2>1, <2>2, <2>3, Extremes
<1>5. /\ Max(highs) \in Int /\ \A i \in group : Max(highs) >= q[i].high
  <2>1. highs \in SUBSET Int /\ highs # {}
    BY <1>1
  <2>2. \A i \in group : q[i].high \in highs
    OBVIOUS
  <2>3. IsFiniteSet(highs)
    <3> DEFINE f == [i \in group |-> q[i].high]
    <3>1. DOMAIN f = group /\ {f[i] : i \in group} = highs
      OBVIOUS
    <3> HIDE DEF f, highs
    <3> QED
      BY <1>2, <3>1, ImageIsFinite
  <2> HIDE DEF highs
  <2> QED
    BY <2>1, <2>2, <2>3, Extremes
<1>6. Volume(q, group) = SumOver(w, group) /\ Volume(q, group) \in Nat
  <2>1. Volume(q, group) = SumOver(v, group)
    BY <1>2, VolumeIsASum
  <2>2. \A i \in group : v[i] = w[i] /\ v[i] \in Nat
    BY <1>1
  <2> HIDE DEF v
  <2>3. SumOver(v, group) = SumOver(w, group)
    BY <1>2, <2>2, SameWeights
  <2>4. SumOver(v, group) \in Nat
    BY <1>2, <2>2, SumIsNat
  <2> QED
    BY <2>1, <2>3, <2>4
<1>7. /\ c.day = q[Min(group)].day /\ c.open = q[Min(group)].open /\ c.close = q[Max(group)].close
      /\ c.high = Max(highs) /\ c.low = Min(lows) /\ c.volume = Volume(q, group)
  BY DEF Aggregated
<1> HIDE DEF c, lows, highs, v
<1>8. ValidOHLCV(c)
  <2>1. Min(group) \in 1 .. n /\ Max(group) \in 1 .. n
    BY <1>3
  <2>2. /\ c.low <= q[Min(group)].low /\ c.low <= q[Max(group)].low
        /\ c.high >= q[Min(group)].high /\ c.high >= q[Max(group)].high
    BY <1>3, <1>4, <1>5, <1>7
  <2>3. c.low \in Int /\ c.high \in Int /\ c.volume \in Nat
    BY <1>4, <1>5, <1>6, <1>7
  <2> DEFINE a == q[Min(group)]
             b == q[Max(group)]
  <2>4. /\ a.open \in Int /\ a.low \in Int /\ a.high \in Int /\ a.low <= a.open /\ a.high >= a.open
        /\ b.close \in Int /\ b.low \in Int /\ b.high \in Int /\ b.low <= b.close /\ b.high >= b.close
    BY <1>1, <2>1
  <2>5. c.open = a.open /\ c.close = b.close
    BY <1>7
  <2> HIDE DEF a, b
  <2>6. c.low <= a.low /\ c.low <= b.low /\ c.high >= a.high /\ c.high >= b.high
    BY <2>2 DEF a, b
  <2>7. c.low <= a.open /\ c.high >= a.open
    BY <2>3, <2>4, <2>6
  <2>8. c.low <= b.close /\ c.high >= b.close
    BY <2>3, <2>4, <2>6
  <2> QED
    BY <2>3, <2>5, <2>7, <2>8 DEF ValidOHLCV
<1>9. \A i \in group : c.low <= q[i].low /\ q[i].high <= c.high
  BY <1>1, <1>4, <1>5, <1>7
<1>10. OneCandle(c, q, group, w)
  BY <1>3, <1>6, <1>7, <1>8, <1>9 DEF OneCandle
<1> QED
  BY <1>10 DEF c

\* Every week and month of clean candles is a valid candle that contains its days, and their
\* volume is all there.
LEMMA AggregateKeeps ==
  ASSUME IngestionAssumption, NEW n \in Nat, NEW q \in [1 .. n -> Candles],
         \A i \in 1 .. n : ValidOHLCV(q[i]), \A i, j \in 1 .. n : i < j => q[i].day < q[j].day,
         NEW length \in {7, 28}
  PROVE  LET coarse == Aggregate(q, length)
         IN /\ \A k \in DOMAIN coarse : ValidOHLCV(coarse[k])
            /\ \A i \in DOMAIN q : \E k \in DOMAIN coarse :
                 /\ coarse[k].day <= q[i].day /\ q[i].day < coarse[k].day + length
                 /\ coarse[k].low <= q[i].low /\ q[i].high <= coarse[k].high
            /\ Len(coarse) > 0 => Last(coarse).close = Last(q).close
            /\ Volume(coarse, DOMAIN coarse) = Volume(q, DOMAIN q)
<1> DEFINE Period(i) == q[i].day \div length
           S == {Period(i) : i \in DOMAIN q}
           periods == Sorted(S)
           K == Cardinality(S)
           Group(k) == {i \in DOMAIN q : Period(i) = periods[k]}
           coarse == Aggregate(q, length)
           w == [i \in 1 .. n |-> q[i].volume]
<1>1. /\ DOMAIN q = 1 .. n
      /\ \A i \in 1 .. n : q[i].day \in Nat /\ Period(i) \in Nat /\ q[i].volume \in Int
      /\ S \in SUBSET Nat
  <2>1. \A i \in 1 .. n : q[i] \in Candles
    OBVIOUS
  <2>2. \A i \in 1 .. n : q[i].day \in Nat /\ q[i].volume \in Int
    BY <2>1, CandleColumns
  <2>3. \A i \in 1 .. n : Period(i) \in Nat
    BY <2>2, PeriodsInOrder
  <2> QED
    BY <2>2, <2>3
<1>2. IsFiniteSet(1 .. n) /\ IsFiniteSet(S)
  <2> DEFINE f == [i \in 1 .. n |-> Period(i)]
  <2>1. DOMAIN f = 1 .. n /\ {f[i] : i \in 1 .. n} = S
    BY <1>1
  <2>2. IsFiniteSet(1 .. n)
    BY FS_Interval
  <2> HIDE DEF f, S
  <2> QED
    BY <2>1, <2>2, ImageIsFinite
<1>3. /\ K \in Nat /\ periods \in [1 .. K -> S] /\ \A x \in S : \E k \in 1 .. K : periods[k] = x
      /\ \A k, j \in 1 .. K : k < j => periods[k] < periods[j]
  <2>1. K \in Nat /\ periods \in [1 .. K -> S] /\ periods \in SetToSeqs(S) /\ Increasing(periods)
    <3> HIDE DEF S
    <3> QED
      BY <1>1, <1>2, SortedIs
  <2>2. \A x \in S : \E k \in 1 .. K : periods[k] = x
    <3> HIDE DEF S, periods
    <3> QED
      BY <1>2, <2>1, SortedIsOnto
  <2> HIDE DEF S, periods, K
  <2> QED
    BY <2>1, <2>2 DEF Increasing
<1>4. coarse = [k \in 1 .. K |-> Aggregated(q, Group(k))]
  <2>1. DOMAIN periods = 1 .. K
    BY <1>3
  <2> QED
    BY <2>1 DEF Aggregate
<1>5. \A k \in 1 .. K : Group(k) \in SUBSET (1 .. n) /\ Group(k) # {} /\ \A i \in Group(k) : Period(i) = periods[k]
  <2> SUFFICES ASSUME NEW k \in 1 .. K PROVE Group(k) \in SUBSET (1 .. n) /\ Group(k) # {}
    OBVIOUS
  <2>1. periods[k] \in S
    BY <1>3
  <2>2. PICK i \in 1 .. n : Period(i) = periods[k]
    BY <1>1, <2>1
  <2> HIDE DEF periods
  <2> QED
    BY <1>1, <2>2
<1>6. \A i \in 1 .. n : \E k \in 1 .. K : i \in Group(k)
  <2> SUFFICES ASSUME NEW i \in 1 .. n PROVE \E k \in 1 .. K : i \in Group(k)
    OBVIOUS
  <2>1. Period(i) \in S
    BY <1>1
  <2>2. PICK k \in 1 .. K : periods[k] = Period(i)
    BY <1>3, <2>1
  <2> HIDE DEF periods
  <2> QED
    BY <1>1, <2>2
<1> HIDE DEF S, K, periods, Group, coarse
<1>7. \A k \in 1 .. K : OneCandle(coarse[k], q, Group(k), w)
  <2>1. \A k \in 1 .. K : coarse[k] = Aggregated(q, Group(k)) /\ Group(k) \in SUBSET (1 .. n) /\ Group(k) # {}
    BY <1>4, <1>5
  <2>2. \A i \in 1 .. n : w[i] = q[i].volume
    OBVIOUS
  <2> HIDE DEF w
  <2>3. ASSUME NEW g \in SUBSET (1 .. n), g # {}
        PROVE  OneCandle(Aggregated(q, g), q, g, w)
    BY <2>2, <2>3, GroupIsACandle
  <2> QED
    BY <2>1, <2>3
<1>8. DOMAIN coarse = 1 .. K
  BY <1>4
<1>9. ASSUME NEW i \in 1 .. n
      PROVE  \E k \in 1 .. K : /\ coarse[k].day <= q[i].day /\ q[i].day < coarse[k].day + length
                              /\ coarse[k].low <= q[i].low /\ q[i].high <= coarse[k].high
  <2>1. PICK k \in 1 .. K : i \in Group(k)
    BY <1>6
  <2> DEFINE first == Min(Group(k))
  <2>2. first \in Group(k) /\ first \in 1 .. n /\ first <= i /\ coarse[k].day = q[first].day
    BY <1>5, <1>7, <2>1 DEF OneCandle
  <2>3. Period(first) = Period(i)
    BY <1>5, <2>1, <2>2
  <2> HIDE DEF first
  <2>4. q[first].day <= q[i].day
    <3>1. CASE first = i
      BY <1>1, <3>1
    <3>2. CASE first < i
      <4>1. q[first].day < q[i].day
        BY <2>2, <3>2
      <4> QED
        BY <1>1, <2>2, <4>1
    <3> QED
      BY <2>2, <3>1, <3>2
  <2>5. q[i].day < q[first].day + length
    BY <1>1, <2>2, <2>3, PeriodsInOrder
  <2> QED
    BY <1>7, <2>1, <2>2, <2>4, <2>5 DEF OneCandle
<1>10. K > 0 => coarse[K].close = q[n].close
  <2> SUFFICES ASSUME K > 0 PROVE coarse[K].close = q[n].close
    OBVIOUS
  <2>1. K \in 1 .. K
    BY <1>3
  <2>2. PICK i \in Group(K) : i \in 1 .. n
    BY <1>5, <2>1
  <2>3. n \in 1 .. n
    BY <2>2
  <2>4. PICK k \in 1 .. K : n \in Group(k)
    BY <1>6, <2>3
  <2>5. q[i].day <= q[n].day
    BY <1>1, <2>2, <2>3
  <2>6. Period(i) <= Period(n)
    BY <1>1, <2>2, <2>3, <2>5, PeriodsInOrder
  <2>7. periods[K] <= periods[k]
    BY <1>5, <2>1, <2>2, <2>4, <2>6
  <2>8. k = K
    <3>1. periods[k] = Period(n) /\ periods[K] = Period(i) /\ Period(n) \in Nat /\ Period(i) \in Nat
      BY <1>1, <1>5, <2>1, <2>2, <2>3, <2>4
    <3>2. k < K => periods[k] < periods[K]
      BY <1>3, <2>1
    <3> HIDE DEF Period
    <3> QED
      BY <1>3, <2>7, <3>1, <3>2
  <2>9. Max(Group(K)) = n
    <3>1. Max(Group(K)) \in 1 .. n /\ Max(Group(K)) >= n
      BY <1>5, <1>7, <2>1, <2>4, <2>8 DEF OneCandle
    <3> QED
      BY <3>1
  <2> QED
    BY <1>7, <2>1, <2>9 DEF OneCandle
<1>11. Volume(coarse, 1 .. K) = Volume(q, 1 .. n)
  <2> DEFINE P == [k \in 1 .. K |-> Group(k)]
             u == [k \in 1 .. K |-> coarse[k].volume]
  <2>1. Volume(q, 1 .. n) = SumOver(w, 1 .. n) /\ Weighs(w, 1 .. n)
    BY <1>1, <1>2, VolumeIsASum DEF Weighs
  <2>2. IsFiniteSet(1 .. K)
    BY <1>3, FS_Interval
  <2>3. Volume(coarse, 1 .. K) = SumOver(u, 1 .. K)
    BY <2>2, VolumeIsASum
  <2>4. \A k \in 1 .. K : u[k] = SumOver(w, P[k])
    BY <1>7 DEF OneCandle
  <2>5. P \in [1 .. K -> SUBSET (1 .. n)] /\ \A i \in 1 .. n : \E k \in 1 .. K : i \in P[k]
    BY <1>5, <1>6
  <2>6. \A k, j \in 1 .. K : k # j => P[k] \cap P[j] = {}
    <3> SUFFICES ASSUME NEW k \in 1 .. K, NEW j \in 1 .. K, k # j, NEW i \in Group(k), i \in Group(j) PROVE FALSE
      OBVIOUS
    <3>1. periods[k] = periods[j]
      BY <1>5
    <3>2. periods[k] \in Nat /\ periods[j] \in Nat
      BY <1>1, <1>3
    <3>3. (k < j => periods[k] < periods[j]) /\ (j < k => periods[j] < periods[k])
      BY <1>3
    <3> QED
      BY <3>1, <3>2, <3>3
  <2>7. SumOver(w, 1 .. n) = SumOver(u, 1 .. K)
    <3> DEFINE N == 1 .. n
    <3> HIDE DEF P, w, u
    <3>1. Weighs(w, N) /\ Splits(P, K, N)
      BY <2>1, <2>5, <2>6 DEF Splits
    <3> HIDE DEF N
    <3>2. SumOver(w, N) = SumOver(u, 1 .. K)
      BY <1>3, <2>4, <3>1, SumOfGroups
    <3> QED
      BY <3>2 DEF N
  <2> QED
    BY <2>1, <2>3, <2>7
<1>12. Len(coarse) = K /\ Len(q) = n
  BY <1>1, <1>3, <1>8
<1>13. \A k \in 1 .. K : ValidOHLCV(coarse[k])
  BY <1>7 DEF OneCandle
<1> QED
  BY <1>1, <1>8, <1>9, <1>10, <1>11, <1>12, <1>13 DEF Last, coarse

\* Cleaning never changes a response without a log that says so, takes every candle from it and
\* keeps every day that has a valid one unless bases are mixed, and weeks and months lose neither
\* volume nor extremes, for any candles and any responses.
THEOREM CleaningIsExplainedCorrect ==
  ASSUME IngestionAssumption
  PROVE  IngestionSpec => []CleaningIsExplained
<1>1. IngestionInv => CleaningIsExplained
  <2> SUFFICES ASSUME IngestionInv, NEW i \in Ingestors, ingestion[i].pc = "fetched"
               PROVE  LET batch == ingestion[i].batch
                          cleaned == Cleaned(batch)
                      IN /\ (Errors(batch) = {}) <=> (cleaned = batch)
                         /\ \A k \in DOMAIN cleaned : k > 1 => cleaned[k - 1].day < cleaned[k].day
                         /\ \A k \in DOMAIN cleaned : \E n \in DOMAIN batch : cleaned[k] = batch[n]
                         /\ Cardinality(Bases(batch)) <= 1 =>
                              \A n \in DOMAIN batch : ValidOHLCV(batch[n]) =>
                                \E k \in DOMAIN cleaned : cleaned[k].day = batch[n].day
                         /\ \A length \in {7, 28} : LET coarse == Aggregate(cleaned, length) IN
                              /\ \A k \in DOMAIN coarse : ValidOHLCV(coarse[k])
                              /\ \A n \in DOMAIN cleaned : \E k \in DOMAIN coarse :
                                   /\ coarse[k].day <= cleaned[n].day /\ cleaned[n].day < coarse[k].day + length
                                   /\ coarse[k].low <= cleaned[n].low /\ cleaned[n].high <= coarse[k].high
                              /\ Len(coarse) > 0 => Last(coarse).close = Last(cleaned).close
                              /\ Volume(coarse, DOMAIN coarse) = Volume(cleaned, DOMAIN cleaned)
    BY DEF CleaningIsExplained
  <2> DEFINE batch == ingestion[i].batch
             cleaned == Cleaned(batch)
  <2>1. batch \in Responses
    BY DEF IngestionInv, SessionOK
  <2> HIDE DEF batch
  <2>2. (Errors(batch) = {}) <=> (cleaned = batch)
    BY <2>1, SoundIsKept, KeptIsSound
  <2>3. PICK n \in Nat : /\ cleaned \in [1 .. n -> Candles] /\ \A k \in 1 .. n : ValidOHLCV(cleaned[k])
                        /\ \A k, j \in 1 .. n : k < j => cleaned[k].day < cleaned[j].day
    BY <2>1, CleanedIs
  <2>6. /\ \A k \in DOMAIN cleaned : \E m \in DOMAIN batch : cleaned[k] = batch[m]
        /\ Cardinality(Bases(batch)) <= 1 =>
             \A m \in DOMAIN batch : ValidOHLCV(batch[m]) =>
               \E k \in DOMAIN cleaned : cleaned[k].day = batch[m].day
    BY <2>1, CleanedKeeps
  <2> HIDE DEF cleaned
  <2>4. \A k \in DOMAIN cleaned : k > 1 => cleaned[k - 1].day < cleaned[k].day
    BY <2>3
  <2>5. \A length \in {7, 28} : LET coarse == Aggregate(cleaned, length) IN
          /\ \A k \in DOMAIN coarse : ValidOHLCV(coarse[k])
          /\ \A m \in DOMAIN cleaned : \E k \in DOMAIN coarse :
               /\ coarse[k].day <= cleaned[m].day /\ cleaned[m].day < coarse[k].day + length
               /\ coarse[k].low <= cleaned[m].low /\ cleaned[m].high <= coarse[k].high
          /\ Len(coarse) > 0 => Last(coarse).close = Last(cleaned).close
          /\ Volume(coarse, DOMAIN coarse) = Volume(cleaned, DOMAIN cleaned)
    BY <2>3, AggregateKeeps
  <2> QED
    BY <2>2, <2>4, <2>5, <2>6 DEF batch, cleaned
<1>2. IngestionInit => IngestionInv
  BY IngestionInvInit
<1>3. IngestionInv /\ [IngestionNext]_ingestionVars => IngestionInv'
  BY IngestionInvStep
<1> QED
  BY <1>1, <1>2, <1>3, PTL DEF IngestionSpec
=============================================================================
