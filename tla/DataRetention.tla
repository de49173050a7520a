--------------------------- MODULE DataRetention ---------------------------
(* Retention of operational rows: the daily cleanups of the lifecycle        *)
(* service (services/data_lifecycle.py over repositories/data_lifecycle.py)  *)
(* and of the provider audit (services/provider_audit.py), run by the        *)
(* scheduler and by administrators.                                          *)
EXTENDS Integers, FiniteSets

CONSTANTS
  Services,                     \* "lifecycle" and "audit"
  Covers,                       \* their tables: data_quality_logs, news and disclosures; provider_audit_logs
  Retention,                    \* how many days the rows of each are kept
  MaxRetentionDay, MaxRows, MaxRetentionRestarts, MaxRetentionFailures  \* bounds; MaxRows of the rows there are

RetentionAssumption ==
  /\ DOMAIN Covers = Services
  /\ Retention \in [UNION {Covers[s] : s \in Services} -> Nat \ {0}]
  /\ {MaxRetentionDay, MaxRows, MaxRetentionRestarts, MaxRetentionFailures} \subseteq Nat

VARIABLES
  retentionDay,
  retentionUp,      \* the process, and with it the scheduler, runs
  retentionDue,     \* the services whose job is to run now
  retentionRows,    \* the rows of the cleaned tables, each with the day it was created on
  cleaning,         \* cleanups under way, by the job ("scheduler") or a request ("admin")
  retentionStatus,  \* what each service tells of its last run
  retentionRestarts, retentionFailures

retentionVars == <<retentionDay, retentionUp, retentionDue, retentionRows, cleaning,
                   retentionStatus, retentionRestarts, retentionFailures>>

Callers == {"scheduler", "admin"}
Datasets == UNION {Covers[s] : s \in Services}

Never == 0 - 1
Pending == [state |-> "pending", run |-> Never]
NotCleaning == [service |-> "none", run |-> Never, deleted |-> FALSE]

\* Starting the scheduler makes every job due at once (next_run_time).
RetentionInit ==
  /\ retentionDay = 0 /\ retentionUp = TRUE /\ retentionDue = Services
  /\ retentionRows = {}
  /\ cleaning = [c \in Callers |-> NotCleaning]
  /\ retentionStatus = [s \in Services |-> Pending]
  /\ retentionRestarts = 0 /\ retentionFailures = 0

\* The cron triggers: a job that is due is run within its day while the process is up.
NextDay ==
  /\ retentionDay < MaxRetentionDay /\ (retentionUp => retentionDue = {})
  /\ retentionDay' = retentionDay + 1
  /\ retentionDue' = IF retentionUp THEN Services ELSE {}
  /\ UNCHANGED <<retentionUp, retentionRows, cleaning, retentionStatus,
                 retentionRestarts, retentionFailures>>

\* What a crash or a deployment ends, and the next start begins anew.
StopCleaner ==
  /\ retentionUp /\ retentionRestarts < MaxRetentionRestarts
  /\ retentionRestarts' = retentionRestarts + 1 /\ retentionUp' = FALSE /\ retentionDue' = {}
  /\ cleaning' = [c \in Callers |-> NotCleaning] /\ retentionStatus' = [s \in Services |-> Pending]
  /\ UNCHANGED <<retentionDay, retentionRows, retentionFailures>>

StartCleaner ==
  /\ ~retentionUp /\ retentionUp' = TRUE /\ retentionDue' = Services
  /\ UNCHANGED <<retentionDay, retentionRows, cleaning, retentionStatus,
                 retentionRestarts, retentionFailures>>

Create(dataset) ==
  /\ retentionUp /\ Cardinality(retentionRows) < MaxRows
  /\ retentionRows' = retentionRows \cup {[dataset |-> dataset, created |-> retentionDay]}
  /\ retentionRows' # retentionRows
  /\ UNCHANGED <<retentionDay, retentionUp, retentionDue, cleaning, retentionStatus,
                 retentionRestarts, retentionFailures>>

\* run_at is read, and the cutoffs are computed from it, before the transaction.
BeginCleanup(caller, service) ==
  /\ retentionUp /\ cleaning[caller] = NotCleaning
  /\ IF caller = "scheduler" THEN service \in retentionDue /\ retentionDue' = retentionDue \ {service} ELSE UNCHANGED retentionDue
  /\ cleaning' = [cleaning EXCEPT ![caller] = [service |-> service, run |-> retentionDay, deleted |-> FALSE]]
  /\ UNCHANGED <<retentionDay, retentionUp, retentionRows, retentionStatus,
                 retentionRestarts, retentionFailures>>

\* What preview counts and cleanup deletes: the rows before the cutoff of their dataset
Eligible(service, run) ==
  {r \in retentionRows : r.dataset \in Covers[service] /\ r.created < run - Retention[r.dataset]}

\* Mutant: only one of the tables is cleaned.
DeleteFromOne(caller) ==
  LET service == cleaning[caller].service IN
  /\ service # "none" /\ ~cleaning[caller].deleted
  /\ retentionRows' = retentionRows \ {r \in Eligible(service, cleaning[caller].run) :
                       r.dataset = CHOOSE d \in Covers[service] : TRUE}
  /\ cleaning' = [cleaning EXCEPT ![caller].deleted = TRUE]
  /\ UNCHANGED <<retentionDay, retentionUp, retentionDue, retentionStatus,
                 retentionRestarts, retentionFailures>>

\* delete_before, one transaction over the datasets
Delete(caller) ==
  /\ cleaning[caller].service # "none" /\ ~cleaning[caller].deleted
  /\ retentionRows' = retentionRows \ Eligible(cleaning[caller].service, cleaning[caller].run)
  /\ cleaning' = [cleaning EXCEPT ![caller].deleted = TRUE]
  /\ UNCHANGED <<retentionDay, retentionUp, retentionDue, retentionStatus,
                 retentionRestarts, retentionFailures>>

\* The outcome is noted afterwards, under the lock of the service.
Note(caller, state) ==
  /\ retentionStatus' = [retentionStatus EXCEPT ![cleaning[caller].service] = [state |-> state, run |-> cleaning[caller].run]]
  /\ cleaning' = [cleaning EXCEPT ![caller] = NotCleaning]
  /\ UNCHANGED <<retentionDay, retentionUp, retentionDue, retentionRows,
                 retentionRestarts>>

NoteSuccess(caller) ==
  /\ cleaning[caller].deleted
  /\ Note(caller, "healthy") /\ UNCHANGED retentionFailures

\* The transaction fails and is rolled back.
DeleteFails(caller) ==
  /\ cleaning[caller].service # "none" /\ ~cleaning[caller].deleted
  /\ retentionFailures < MaxRetentionFailures /\ retentionFailures' = retentionFailures + 1
  /\ Note(caller, "failed")

Cleaning(caller) ==
  \/ \E service \in Services : BeginCleanup(caller, service)
  \/ Delete(caller) \/ NoteSuccess(caller) \/ DeleteFails(caller)

RetentionNext ==
  \/ NextDay \/ StopCleaner \/ StartCleaner
  \/ \E dataset \in Datasets : Create(dataset)
  \/ \E caller \in Callers : Cleaning(caller)

RetentionSpec == RetentionInit /\ [][RetentionNext]_retentionVars

-----------------------------------------------------------------------------
RetentionTypeOK ==
  /\ retentionDay \in 0 .. MaxRetentionDay /\ retentionUp \in BOOLEAN /\ retentionDue \subseteq Services
  /\ retentionRows \subseteq [dataset : Datasets, created : 0 .. MaxRetentionDay]
  /\ cleaning \in [Callers -> [service : Services \cup {"none"}, run : Never .. MaxRetentionDay, deleted : BOOLEAN]]
  /\ retentionStatus \in [Services -> [state : {"pending", "healthy", "failed"}, run : Never .. MaxRetentionDay]]
  /\ retentionRestarts \in 0 .. MaxRetentionRestarts /\ retentionFailures \in 0 .. MaxRetentionFailures

\* A service that reports itself healthy has kept its promise for the run it reports: whatever
\* overlapped, failed or restarted, no row that was expired at that run is left in any of its
\* tables (services/data_lifecycle.py:62-83, services/provider_audit.py:62-94).
HealthyMeansClean ==
  \A s \in Services : retentionStatus[s].state = "healthy" => Eligible(s, retentionStatus[s].run) = {}
=============================================================================
