----------------------------- MODULE RateLimit -----------------------------
(* The sliding-window limiter in front of the API (app/core/rate_limit.py)   *)
(* and of the administrator's failed attempts (app/api/admin.py).  One       *)
(* process keeps the windows in memory, at most MaxKeys of them; several     *)
(* replicas keep them in Redis, where a script runs atomically but with the  *)
(* clock of the replica that sent it, read before the await.  A key is a     *)
(* client within a group of requests, or a client of the administrator.      *)
EXTENDS Integers, SequencesExt, FiniteSets

CONSTANTS
  Keys, AdminKeys,
  Limit,       \* the requests a window admits
  Window,      \* its seconds
  MaxKeys,     \* the windows kept in memory (10000, 4096 for the administrator)
  SweepEvery,  \* after so many operations the empty windows go (256)
  Lag,         \* how far a clock reading can be behind when Redis uses it
  MaxTime      \* bound: the clock

RateLimitAssumption ==
  /\ AdminKeys \subseteq Keys
  /\ Limit \in Nat \ {0} /\ Window \in Nat \ {0}
  /\ MaxKeys \in Nat \ {0} /\ SweepEvery \in Nat \ {0}
  /\ Lag \in Nat /\ Lag < Window /\ MaxTime \in Nat

VARIABLES
  windowBackend,  \* "memory" or "redis", as configured
  clock,          \* the fastest clock
  requests,       \* the window of each key: when it was admitted, see Inserted
  order,          \* memory: the keys of the table, the least recently used first
  operations,     \* memory: consumptions since the last sweep
  attempts,       \* admin keys with an attempt between is_limited and its outcome
  granted,        \* history: when each key was admitted since its window was last given up
  promised        \* history: when a refused key was told it could come again

tables == <<requests, order, operations>>
histories == <<granted, promised>>
rateLimitVars == <<windowBackend, clock, tables, attempts, histories>>

NoPromise == MaxTime + Window + 2      \* later than any promise

RateLimitInit ==
  /\ windowBackend = "none" /\ clock = 0
  /\ requests = [k \in Keys |-> {}] /\ order = <<>> /\ operations = 0
  /\ attempts = {}
  /\ granted = [k \in Keys |-> {}] /\ promised = [k \in Keys |-> NoPromise]

Configure(choice) ==
  /\ windowBackend = "none" /\ windowBackend' = choice
  /\ UNCHANGED <<clock, tables, attempts, histories>>

\* The stamps later than a cutoff: _prune, and ZREMRANGEBYSCORE
Pruned(stamps, cutoff) == {m \in stamps : m.at > cutoff}

\* The requests of one moment are numbered, and none takes the place of another.
Inserted(stamps, now) ==
  stamps \cup {[at |-> now, nth |-> Cardinality({m \in stamps : m.at = now})]}

\* Mutant: the member of the sorted set is the bare time.
AdmittedOnce(windows, k, now) == [windows EXCEPT ![k] = @ \cup {[at |-> now, nth |-> 0]}]

\* append, and ZADD of a member of its own
Admitted(windows, k, now) == [windows EXCEPT ![k] = Inserted(@, now)]

Oldest(stamps) == CHOOSE m \in stamps : \A n \in stamps : m.at <= n.at

Larger(a, b) == IF a >= b THEN a ELSE b
Smaller(a, b) == IF a <= b THEN a ELSE b

\* The whole seconds a refused client is told to wait
RetryAfter(stamps, now) ==
  Larger(1, Window - (now - Oldest(stamps).at) + (IF windowBackend = "memory" THEN 1 ELSE 0))

\* Decides with the windows kept after pruning; those of the keys in lost are given up.
Decide(k, kept, now, lost) ==
  LET admitted == Cardinality(kept[k]) < Limit
  IN /\ requests' = IF admitted THEN Admitted(kept, k, now) ELSE kept
     /\ granted' = [j \in Keys |->
          IF j \in lost THEN {}
          ELSE IF j = k /\ admitted THEN Inserted(Pruned(granted[j], clock - Window), clock)
          ELSE granted[j]]
     /\ promised' = [j \in Keys |->
          IF j \in lost \/ (j = k /\ admitted) THEN NoPromise
          ELSE IF j = k THEN Smaller(promised[j], clock + RetryAfter(kept[k], now))
          ELSE promised[j]]

-----------------------------------------------------------------------------
(* SlidingWindowLimiter, each operation under its lock                       *)

\* The windows after the sweep that is due every so many operations
Kept ==
  IF (operations + 1) % SweepEvery = 0
  THEN [j \in Keys |-> Pruned(requests[j], clock - Window)]
  ELSE requests
TableKeys == IF Kept = requests THEN order ELSE SelectSeq(order, LAMBDA j : Kept[j] # {})

\* Mutant: a key is evicted when the table has grown past its size.
EvictedLate(k) ==
  IF k \notin Range(TableKeys) /\ Len(TableKeys) > MaxKeys THEN {Head(TableKeys)} ELSE {}

\* A new key takes the place of the least recently used one when the table is full.
Evicted(k) ==
  IF k \notin Range(TableKeys) /\ Len(TableKeys) >= MaxKeys THEN {Head(TableKeys)} ELSE {}

MoveToEnd(keys, k) == Append(SelectSeq(keys, LAMBDA j : j # k), k)

ConsumeInMemory(k) ==
  LET lost == Evicted(k)
      kept == [j \in Keys |-> IF j \in lost THEN {}
                              ELSE IF j = k THEN Pruned(Kept[k], clock - Window) ELSE Kept[j]]
  IN /\ Decide(k, kept, clock, lost)
     /\ order' = MoveToEnd(SelectSeq(TableKeys, LAMBDA j : j \notin lost), k)
     /\ operations' = (operations + 1) % SweepEvery

\* RedisSlidingWindowLimiter.consume, with a clock reading that may be behind
ConsumeInRedis(k, now) ==
  /\ Decide(k, [requests EXCEPT ![k] = Pruned(@, now - Window)], now, {})
  /\ UNCHANGED <<order, operations>>

Readings == (Larger(0, clock - Lag)) .. clock

Consume(k) ==
  \/ windowBackend = "memory" /\ ConsumeInMemory(k)
  \/ windowBackend = "redis" /\ \E now \in Readings : ConsumeInRedis(k, now)

\* SlidingWindowLimiter.is_limited: prunes; a key whose window is empty leaves the table.
LookInMemory(k) ==
  LET kept == Pruned(requests[k], clock - Window)
  IN /\ requests' = [requests EXCEPT ![k] = kept]
     /\ order' = IF k \notin Range(order) THEN order
                 ELSE IF kept = {} THEN SelectSeq(order, LAMBDA j : j # k) ELSE MoveToEnd(order, k)
     /\ UNCHANGED <<operations, histories>>

\* RedisSlidingWindowLimiter.is_limited, with a reading like consume's
LookInRedis(k) ==
  /\ \E now \in Readings : requests' = [requests EXCEPT ![k] = Pruned(@, now - Window)]
  /\ UNCHANGED <<order, operations, histories>>

Look(k) ==
  \/ windowBackend = "memory" /\ LookInMemory(k)
  \/ windowBackend = "redis" /\ LookInRedis(k)

Clear(k) ==
  /\ requests' = [requests EXCEPT ![k] = {}]
  /\ order' = SelectSeq(order, LAMBDA j : j # k)
  /\ granted' = [granted EXCEPT ![k] = {}] /\ promised' = [promised EXCEPT ![k] = NoPromise]
  /\ UNCHANGED operations

-----------------------------------------------------------------------------
(* In one process nothing runs between an attempt's check and its outcome;   *)
(* with Redis both are awaited and other requests come between.              *)
Undisturbed == windowBackend = "memory" => attempts = {}

\* RateLimitMiddleware.dispatch: the request goes on if it is admitted, or gets a 429.
Request(k) ==
  /\ k \notin AdminKeys /\ Undisturbed
  /\ Consume(k)
  /\ UNCHANGED <<windowBackend, clock, attempts>>

\* require_admin_access
CheckAttempt(k) ==
  /\ Undisturbed /\ k \notin attempts
  /\ Look(k)
  /\ attempts' = IF Cardinality(requests'[k]) >= Limit THEN attempts ELSE attempts \cup {k}
  /\ UNCHANGED <<windowBackend, clock>>

WrongKey(k) ==
  /\ k \in attempts /\ attempts' = attempts \ {k}
  /\ Consume(k)
  /\ UNCHANGED <<windowBackend, clock>>

RightKey(k) ==
  /\ k \in attempts /\ attempts' = attempts \ {k}
  /\ Clear(k)
  /\ UNCHANGED <<windowBackend, clock>>

\* Redis drops a key a window after its last use, as PEXPIRE told it.
Expire(k) ==
  /\ windowBackend = "redis" /\ requests[k] # {} /\ Pruned(requests[k], clock - Window) = {}
  /\ requests' = [requests EXCEPT ![k] = {}]
  /\ UNCHANGED <<windowBackend, clock, order, operations, attempts, histories>>

Tick ==
  /\ windowBackend # "none" /\ clock < MaxTime /\ Undisturbed
  /\ clock' = clock + 1
  /\ UNCHANGED <<windowBackend, tables, attempts, histories>>

RateLimitNext ==
  \/ \E choice \in {"memory", "redis"} : Configure(choice)
  \/ \E k \in Keys : Request(k) \/ Expire(k)
  \/ \E k \in AdminKeys : CheckAttempt(k) \/ WrongKey(k) \/ RightKey(k)
  \/ Tick

RateLimitSpec == RateLimitInit /\ [][RateLimitNext]_rateLimitVars

-----------------------------------------------------------------------------
RateLimitTypeOK ==
  /\ windowBackend \in {"none", "memory", "redis"} /\ clock \in 0 .. MaxTime
  /\ requests \in [Keys -> SUBSET [at : 0 .. MaxTime, nth : 0 .. (Limit - 1)]]
  /\ \A k \in Keys : Cardinality(requests[k]) <= Limit
  /\ Range(order) \subseteq Keys /\ Len(order) <= MaxKeys /\ IsInjective(order)
  /\ operations \in 0 .. (SweepEvery - 1) /\ attempts \subseteq AdminKeys
  /\ granted \in [Keys -> SUBSET [at : 0 .. MaxTime, nth : Nat]] /\ promised \in [Keys -> Nat]

\* The window is exact. It never admits more than its limit, whatever is swept, pruned or
\* refused: in one process until a key is evicted or cleared, and across replicas in every
\* span that is shorter than the window by as much as their clock readings lag
\* (rate_limit.py:59-61, 114-130, 187-195). And it admits a client that waited as long as a
\* refusal told it, when no one else used the window: by any replica once the lag has passed
\* too (rate_limit.py:66, 127).
WindowIsExact ==
  /\ LET span == IF windowBackend = "memory" THEN Window ELSE Window - Lag
     IN \A k \in Keys : Cardinality(Pruned(granted[k], clock - span)) <= Limit
  /\ \A k \in Keys : LET late == IF windowBackend = "redis" THEN Lag ELSE 0 IN
       clock >= promised[k] + late => Cardinality(Pruned(requests[k], clock - late - Window)) < Limit
=============================================================================
