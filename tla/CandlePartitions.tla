-------------------------- MODULE CandlePartitions --------------------------
(* The monthly partitions of stock_candles (database/partitions.py): a job   *)
(* that makes those of the next months at every start and on every 20th      *)
(* (scheduler/jobs.py), the default partition for what has none, and the     *)
(* preview of what could be archived.  Two days stand for a month: the       *)
(* second is the 20th.                                                       *)
EXTENDS Integers, FiniteSets

CONSTANTS
  Lookahead,                    \* partition_lookahead_months
  ArchiveAfter,                 \* partition_archive_after_months
  Backfill,                     \* how many months back an ingestion writes candles
  MaxPartitionDay, MaxPartitionFailures  \* bounds

PartitionsAssumption ==
  /\ Lookahead \in Nat \ {0} /\ ArchiveAfter \in Nat \ {0} /\ Backfill \in Nat
  /\ MaxPartitionDay \in Nat /\ MaxPartitionFailures \in Nat

VARIABLES
  partitionDay,
  partitionUp,   \* the process, and with it the scheduler, runs
  partitionDue,  \* the job is to run now
  partitions,    \* the months that have a partition
  stray,         \* the months whose candles lie in stock_candles_default
  ensured,       \* history: the months of which a run of ensure_future has succeeded
  partitionFailures

partitionsVars == <<partitionDay, partitionUp, partitionDue, partitions, stray, ensured,
                    partitionFailures>>

Month(d) == d \div 2
IsTwentieth(d) == d % 2 = 1

\* Starting the scheduler makes the job due at once (next_run_time).
PartitionsInit ==
  /\ partitionDay = 0 /\ partitionUp = TRUE /\ partitionDue = TRUE
  /\ partitions = {} /\ stray = {} /\ ensured = {} /\ partitionFailures = 0

\* The cron trigger: a job that is due is run within its day while the process is up.
NextHalfMonth ==
  /\ partitionDay < MaxPartitionDay /\ ~partitionDue
  /\ partitionDay' = partitionDay + 1 /\ partitionDue' = (partitionUp /\ IsTwentieth(partitionDay + 1))
  /\ UNCHANGED <<partitionUp, partitions, stray, ensured, partitionFailures>>

StopMaintenance ==
  /\ partitionUp /\ partitionUp' = FALSE /\ partitionDue' = FALSE
  /\ UNCHANGED <<partitionDay, partitions, stray, ensured, partitionFailures>>

StartMaintenance ==
  /\ ~partitionUp /\ partitionUp' = TRUE /\ partitionDue' = TRUE
  /\ UNCHANGED <<partitionDay, partitions, stray, ensured, partitionFailures>>

\* Mutant: the months are counted from this one.
PlannedFromNow(d) == {Month(d) + offset : offset \in 0 .. (Lookahead - 1)}

\* plan_future_partitions
Planned(d) == {Month(d) + offset : offset \in 1 .. Lookahead}

\* PostgreSQL refuses a partition for rows that the default partition already holds.
Blocked(months) == months \cap stray # {}

\* ensure_future, one transaction; IF NOT EXISTS passes over the partitions there are.
EnsureFuture ==
  /\ partitionUp /\ partitionDue /\ partitionDue' = FALSE
  /\ IF Blocked(Planned(partitionDay) \ partitions)
     THEN UNCHANGED <<partitions, stray, ensured>>
     ELSE /\ partitions' = partitions \cup Planned(partitionDay)
          /\ ensured' = ensured \cup {Month(partitionDay)}
          /\ UNCHANGED stray
  /\ UNCHANGED <<partitionDay, partitionUp, partitionFailures>>

EnsureFails ==
  /\ partitionUp /\ partitionDue /\ partitionDue' = FALSE
  /\ partitionFailures < MaxPartitionFailures /\ partitionFailures' = partitionFailures + 1
  /\ UNCHANGED <<partitionDay, partitionUp, partitions, stray, ensured>>

\* An ingestion stores candles of this month or of months before it.
Ingested == (Month(partitionDay) - Backfill) .. Month(partitionDay)
StoreCandle(month) ==
  /\ month \in Ingested /\ month >= 0
  /\ stray' = IF month \in partitions THEN stray ELSE stray \cup {month}
  /\ stray' # stray
  /\ UNCHANGED <<partitionDay, partitionUp, partitionDue, partitions, ensured,
                 partitionFailures>>

\* plan_archive_candidates: the partitions that end before the cutoff month
Candidates(d) == {m \in partitions : m + 1 <= Month(d) - ArchiveAfter}

PartitionsNext ==
  \/ NextHalfMonth \/ StopMaintenance \/ StartMaintenance
  \/ EnsureFuture \/ EnsureFails
  \/ \E month \in 0 .. Month(MaxPartitionDay) : StoreCandle(month)

PartitionsSpec == PartitionsInit /\ [][PartitionsNext]_partitionsVars

-----------------------------------------------------------------------------
PartitionsTypeOK ==
  /\ partitionDay \in 0 .. MaxPartitionDay /\ partitionUp \in BOOLEAN /\ partitionDue \in BOOLEAN
  /\ partitions \subseteq Nat /\ stray \subseteq Nat /\ ensured \subseteq Nat
  /\ partitionFailures \in 0 .. MaxPartitionFailures

\* The months to come are never blocked by candles in the default partition: one month in
\* which maintenance did not run costs its own partition and no other's, and where it ran in
\* one of the months before, a month's candles lie in its partition, which is not proposed
\* for the archive while candles of it arrive (database/partitions.py:34-63, 89-106).
PartitionsKeepUp ==
  /\ ~Blocked(Planned(partitionDay) \ partitions)
  /\ stray \cap partitions = {}
  /\ \A m \in Ingested : (\E k \in 1 .. Lookahead : m - k \in ensured) => m \in partitions
  /\ Backfill <= ArchiveAfter => Candidates(partitionDay) \cap Ingested = {}
=============================================================================
