------------------------------ MODULE TossClient ------------------------------
(***************************************************************************)
(* Requests to the Toss open API: the retry loop of TossApiClient           *)
(* (providers/toss/client.py) over TossTokenManager and its Redis cache     *)
(* (providers/toss/auth.py), in several processes that share one Redis.     *)
(*                                                                         *)
(* Toss keeps one valid token per client: a token that is issued ends the   *)
(* one before (docs/architecture/toss-provider.md:43).  Threads of a        *)
(* process share the memory cache and the manager's lock; nothing makes a   *)
(* cache operation on Redis and the one on memory a single step.            *)
(***************************************************************************)
EXTENDS Integers, FiniteSets

CONSTANTS
  Threads,      \* threads that serve requests
  Processes,    \* API workers
  ProcessOf,    \* the process of each thread
  Nobody,       \* no thread holds a lock
  Orphan,       \* the issue lock of a process that died
  MaxRetries,   \* client.py: retries after a transport error or a 429
  MaxTokens,    \* bound: tokens issued in one behaviour
  MaxEnded,     \* bound: tokens that Toss ends before their time, or that age
  MaxFaults     \* bound: outages, lock expiries and crashes

ASSUME ProcessAssumption == ProcessOf \in [Threads -> Processes]
ASSUME LockAssumption ==
  Nobody \notin Threads /\ Orphan \notin Threads /\ Nobody # Orphan
ASSUME BoundAssumption ==
  {MaxRetries, MaxTokens, MaxEnded, MaxFaults} \subseteq Nat

VARIABLES
  pc,         \* where each thread is
  inside,     \* threads inside "with self._lock" of the manager
  read,       \* what the thread's last cache read returned
  token,      \* the token value a thread works with, 0 for none
  retried,    \* auth_retried
  attempt,    \* attempt
  memory,     \* the fallback cache of each process
  lock,       \* the manager's lock of each process
  redis,      \* the cached token on Redis
  issueLock,  \* the lock on Redis
  up,         \* does Redis answer?
  valid,      \* the token Toss accepts, 0 for none
  issued,     \* tokens issued so far
  aged,       \* tokens with at most 30 seconds left
  ended,      \* tokens ended early and aged so far
  faults      \* outages, lock expiries and crashes so far

threadVars == <<pc, inside, read, token, retried, attempt>>
cacheVars == <<memory, redis>>
lockVars == <<lock, issueLock>>
serverVars == <<valid, issued>>
worldVars == <<up, aged, ended, faults>>
vars == <<pc, inside, read, token, retried, attempt, memory, lock, redis,
          issueLock, up, valid, issued, aged, ended, faults>>

Tokens == 1..MaxTokens
\* AccessToken: a value, and the token whose lifetime expires_at was taken from.
AccessToken == [value : Tokens, life : Tokens]
NoToken == [value |-> 0, life |-> 0]
Places == {"idle", "get", "ttl", "lock", "shared", "issue", "store", "send", "forget",
           "unset"}

TypeOK ==
  /\ pc \in [Threads -> Places]
  /\ inside \in SUBSET Threads
  /\ read \in [Threads -> 0..MaxTokens]
  /\ token \in [Threads -> 0..MaxTokens]
  /\ retried \in [Threads -> BOOLEAN]
  /\ attempt \in [Threads -> 0..MaxRetries]
  /\ memory \in [Processes -> AccessToken \cup {NoToken}]
  /\ lock \in [Processes -> Threads \cup {Nobody}]
  /\ redis \in AccessToken \cup {NoToken}
  /\ issueLock \in Threads \cup {Nobody, Orphan}
  /\ up \in BOOLEAN
  /\ valid \in 0..MaxTokens
  /\ issued \in 0..MaxTokens
  /\ aged \in SUBSET Tokens
  /\ ended \in 0..MaxEnded
  /\ faults \in 0..MaxFaults
  /\ \A t \in Threads : t \in inside <=> lock[ProcessOf[t]] = t

Init ==
  /\ pc = [t \in Threads |-> "idle"]
  /\ inside = {}
  /\ read = [t \in Threads |-> 0]
  /\ token = [t \in Threads |-> 0]
  /\ retried = [t \in Threads |-> FALSE]
  /\ attempt = [t \in Threads |-> 0]
  /\ memory = [p \in Processes |-> NoToken]
  /\ lock = [p \in Processes |-> Nobody]
  /\ redis = NoToken
  /\ issueLock = Nobody
  /\ up = TRUE
  /\ valid = 0
  /\ issued = 0
  /\ aged = {}
  /\ ended = 0
  /\ faults = 0

Memory(t) == memory[ProcessOf[t]]
Usable(c) == c # NoToken /\ c.life \notin aged
Fault == faults < MaxFaults /\ faults' = faults + 1
Go(t, place) == pc' = [pc EXCEPT ![t] = place]

\* Mutant: the manager's lock is taken for free while its thread still holds it.
ReleaseShared(t) ==
  /\ inside' = inside
  /\ lock' = IF t \in inside THEN [lock EXCEPT ![ProcessOf[t]] = Nobody] ELSE lock
  /\ issueLock' = IF issueLock # t THEN issueLock ELSE IF up THEN Nobody ELSE Orphan

\* The two with-blocks of get() end: the Redis lock is released if it is still
\* this thread's and Redis answers, then the manager's.
Release(t) ==
  /\ inside' = inside \ {t}
  /\ lock' = IF t \in inside THEN [lock EXCEPT ![ProcessOf[t]] = Nobody] ELSE lock
  /\ issueLock' = IF issueLock # t THEN issueLock ELSE IF up THEN Nobody ELSE Orphan

\* A request ends: its thread is free for the next.
Finish(t) ==
  /\ Go(t, "idle")
  /\ read' = [read EXCEPT ![t] = 0]
  /\ token' = [token EXCEPT ![t] = 0]
  /\ retried' = [retried EXCEPT ![t] = FALSE]
  /\ attempt' = [attempt EXCEPT ![t] = 0]

------------------------------------------------------------------------------
(***************************************************************************)
(* TossTokenManager.get.                                                   *)
(***************************************************************************)

\* The cache has answered c: a usable token is returned; otherwise get() goes
\* for the lock, or, inside it, issues.
Decide(t, c) ==
  /\ read' = [read EXCEPT ![t] = 0]
  /\ IF Usable(c)
       THEN Go(t, "send") /\ token' = [token EXCEPT ![t] = c.value] /\ Release(t)
       ELSE /\ Go(t, IF t \in inside THEN "issue" ELSE "lock")
            /\ UNCHANGED <<token, inside, lock, issueLock>>

\* RedisTokenCache.get: the value, or the memory cache without one.
GetValue(t) ==
  /\ pc[t] = "get"
  /\ IF up /\ redis # NoToken
       THEN /\ Go(t, "ttl")
            /\ read' = [read EXCEPT ![t] = redis.value]
            /\ UNCHANGED <<token, inside, lock, issueLock>>
       ELSE Decide(t, Memory(t))
  /\ UNCHANGED <<retried, attempt>>
  /\ UNCHANGED cacheVars /\ UNCHANGED serverVars /\ UNCHANGED worldVars

\* The time to live, read after the value: of the same token or, if that was
\* replaced in between, of another.  The pair goes into the memory cache.
GetTtl(t) ==
  LET c == [value |-> read[t], life |-> redis.life]
  IN /\ pc[t] = "ttl"
     /\ IF up /\ redis # NoToken
          THEN Decide(t, c) /\ memory' = [memory EXCEPT ![ProcessOf[t]] = c]
          ELSE Decide(t, Memory(t)) /\ UNCHANGED memory
     /\ UNCHANGED <<retried, attempt, redis>>
     /\ UNCHANGED serverVars /\ UNCHANGED worldVars

\* Mutant: no second look at the cache once the lock is held.
LockWithoutRecheck(t) ==
  /\ pc[t] = "shared"
  /\ up /\ issueLock = Nobody
  /\ issueLock' = t
  /\ Go(t, "issue")
  /\ UNCHANGED <<inside, read, token, retried, attempt, lock>>
  /\ UNCHANGED cacheVars /\ UNCHANGED serverVars /\ UNCHANGED worldVars

\* with self._lock
TakeLock(t) ==
  /\ pc[t] = "lock"
  /\ lock[ProcessOf[t]] = Nobody
  /\ lock' = [lock EXCEPT ![ProcessOf[t]] = t]
  /\ inside' = inside \cup {t}
  /\ Go(t, "shared")
  /\ UNCHANGED <<read, token, retried, attempt, issueLock>>
  /\ UNCHANGED cacheVars /\ UNCHANGED serverVars /\ UNCHANGED worldVars

\* Mutant: the lock on Redis is left out.
ShareNothing(t) ==
  /\ pc[t] = "shared"
  /\ Go(t, "get")
  /\ UNCHANGED <<inside, read, token, retried, attempt>>
  /\ UNCHANGED lockVars
  /\ UNCHANGED cacheVars /\ UNCHANGED serverVars /\ UNCHANGED worldVars

\* issue_lock: taken, or passed by when Redis does not answer; then the cache
\* is read again.
TakeIssueLock(t) ==
  /\ pc[t] = "shared"
  /\ up => issueLock = Nobody
  /\ issueLock' = IF up THEN t ELSE issueLock
  /\ Go(t, "get")
  /\ UNCHANGED <<inside, read, token, retried, attempt, lock>>
  /\ UNCHANGED cacheVars /\ UNCHANGED serverVars /\ UNCHANGED worldVars

\* blocking_timeout: the request fails with oauth-lock-timeout.
IssueLockTimeout(t) ==
  /\ pc[t] = "shared"
  /\ up /\ issueLock # Nobody
  /\ Release(t) /\ Finish(t)
  /\ UNCHANGED cacheVars /\ UNCHANGED serverVars /\ UNCHANGED worldVars

\* _issue, the request: Toss ends the previous token with the new one.
Issue(t) ==
  /\ pc[t] = "issue"
  /\ issued < MaxTokens
  /\ issued' = issued + 1
  /\ valid' = issued + 1
  /\ token' = [token EXCEPT ![t] = issued + 1]
  /\ Go(t, "store")
  /\ UNCHANGED <<inside, read, retried, attempt>> /\ UNCHANGED lockVars
  /\ UNCHANGED cacheVars /\ UNCHANGED worldVars

\* _issue, its answer: set() puts the token into memory and, if it answers, on
\* Redis, and get() leaves its locks.
Store(t) ==
  LET new == [value |-> token[t], life |-> token[t]]
  IN /\ pc[t] = "store"
     /\ memory' = [memory EXCEPT ![ProcessOf[t]] = new]
     /\ redis' = IF up THEN new ELSE redis
     /\ Release(t)
     /\ Go(t, "send")
     /\ UNCHANGED <<read, token, retried, attempt>>
     /\ UNCHANGED serverVars /\ UNCHANGED worldVars

\* Mutant: a failing issue leaves the manager's lock taken.
IssueFailsLocked(t) ==
  /\ pc[t] = "issue"
  /\ Finish(t)
  /\ UNCHANGED inside /\ UNCHANGED lockVars
  /\ UNCHANGED cacheVars /\ UNCHANGED serverVars /\ UNCHANGED worldVars

\* The OAuth server is unreachable, refuses, or answers with something else;
\* or, a fault, it has issued a token and the answer is lost.
IssueFails(t) ==
  /\ \/ pc[t] = "issue" /\ UNCHANGED worldVars
     \/ pc[t] = "store" /\ Fault /\ UNCHANGED <<up, aged, ended>>
  /\ Release(t) /\ Finish(t)
  /\ UNCHANGED cacheVars /\ UNCHANGED serverVars

------------------------------------------------------------------------------
(***************************************************************************)
(* TossApiClient.request.                                                  *)
(***************************************************************************)

Start(t) ==
  /\ pc[t] = "idle"
  /\ Go(t, "get")
  /\ UNCHANGED <<inside, read, token, retried, attempt>> /\ UNCHANGED lockVars
  /\ UNCHANGED cacheVars /\ UNCHANGED serverVars /\ UNCHANGED worldVars

\* The payload of a request Toss accepts is returned, or an error that is
\* neither retried nor about the token is raised.
Answered(t) ==
  /\ pc[t] = "send"
  /\ Finish(t)
  /\ UNCHANGED inside /\ UNCHANGED lockVars
  /\ UNCHANGED cacheVars /\ UNCHANGED serverVars /\ UNCHANGED worldVars

\* A 401 with expired-token: invalidate and try again, once.
Rejected(t) ==
  /\ pc[t] = "send"
  /\ token[t] # valid
  /\ IF retried[t]
       THEN Finish(t)
       ELSE /\ Go(t, "forget")
            /\ retried' = [retried EXCEPT ![t] = TRUE]
            /\ UNCHANGED <<read, token, attempt>>
  /\ UNCHANGED inside /\ UNCHANGED lockVars
  /\ UNCHANGED cacheVars /\ UNCHANGED serverVars /\ UNCHANGED worldVars

\* invalidate, first half: this process forgets the rejected value.
Forget(t) ==
  /\ pc[t] = "forget"
  /\ memory' = [memory EXCEPT ![ProcessOf[t]] =
                  IF @.value = token[t] THEN NoToken ELSE @]
  /\ Go(t, "unset")
  /\ UNCHANGED <<inside, read, token, retried, attempt, redis>>
  /\ UNCHANGED lockVars /\ UNCHANGED serverVars /\ UNCHANGED worldVars

\* Mutant: the key is deleted whatever it holds.
UnsetAny(t) ==
  /\ pc[t] = "unset"
  /\ redis' = IF up THEN NoToken ELSE redis
  /\ token' = [token EXCEPT ![t] = 0]
  /\ Go(t, "get")
  /\ UNCHANGED <<inside, read, retried, attempt, memory>>
  /\ UNCHANGED lockVars /\ UNCHANGED serverVars /\ UNCHANGED worldVars

\* invalidate, second half: Redis drops the value if it is still that one.
Unset(t) ==
  /\ pc[t] = "unset"
  /\ redis' = IF up /\ redis.value = token[t] THEN NoToken ELSE redis
  /\ token' = [token EXCEPT ![t] = 0]
  /\ Go(t, "get")
  /\ UNCHANGED <<inside, read, retried, attempt, memory>>
  /\ UNCHANGED lockVars /\ UNCHANGED serverVars /\ UNCHANGED worldVars

\* A transport error or a 429: after a pause the loop starts again, MaxRetries
\* times, and then the request fails.
RetryOrFail(t) ==
  /\ pc[t] = "send"
  /\ IF attempt[t] < MaxRetries
       THEN /\ Go(t, "get")
            /\ attempt' = [attempt EXCEPT ![t] = @ + 1]
            /\ token' = [token EXCEPT ![t] = 0]
            /\ UNCHANGED <<read, retried>>
       ELSE Finish(t)
  /\ UNCHANGED inside /\ UNCHANGED lockVars
  /\ UNCHANGED cacheVars /\ UNCHANGED serverVars /\ UNCHANGED worldVars

------------------------------------------------------------------------------
(***************************************************************************)
(* The world: Toss, the clock, Redis and the processes.                    *)
(***************************************************************************)

\* Toss ends a token before the time the client expects.
Revoke ==
  /\ valid # 0 /\ ended < MaxEnded
  /\ valid' = 0
  /\ ended' = ended + 1
  /\ UNCHANGED <<issued, up, aged, faults>>
  /\ UNCHANGED threadVars /\ UNCHANGED cacheVars /\ UNCHANGED lockVars

\* A token comes within 30 seconds of its expiry: no get() returns it any more.
Age ==
  /\ issued \notin aged \cup {0} /\ ended < MaxEnded
  /\ aged' = aged \cup {issued}
  /\ ended' = ended + 1
  /\ UNCHANGED <<up, faults>>
  /\ UNCHANGED threadVars /\ UNCHANGED cacheVars /\ UNCHANGED lockVars /\ UNCHANGED serverVars

\* The key of an aged token expires on Redis.
RedisExpires ==
  /\ redis # NoToken /\ redis.life \in aged
  /\ redis' = NoToken
  /\ UNCHANGED memory /\ UNCHANGED worldVars
  /\ UNCHANGED threadVars /\ UNCHANGED lockVars /\ UNCHANGED serverVars

RedisDown ==
  /\ up /\ Fault
  /\ up' = FALSE
  /\ UNCHANGED <<aged, ended>>
  /\ UNCHANGED threadVars /\ UNCHANGED cacheVars /\ UNCHANGED lockVars /\ UNCHANGED serverVars

\* Redis answers again, with its keys or, after a restart, without them.
RedisUp ==
  /\ ~up
  /\ up' = TRUE
  /\ \/ UNCHANGED <<redis, issueLock>>
     \/ redis' = NoToken /\ issueLock' = Nobody
  /\ UNCHANGED <<memory, lock, aged, ended, faults>>
  /\ UNCHANGED threadVars /\ UNCHANGED serverVars

\* The issue lock's 15 seconds end, under a holder that is slow or gone.
IssueLockExpires ==
  /\ issueLock # Nobody
  /\ IF issueLock = Orphan THEN UNCHANGED faults ELSE Fault
  /\ issueLock' = Nobody
  /\ UNCHANGED <<lock, up, aged, ended>>
  /\ UNCHANGED threadVars /\ UNCHANGED cacheVars /\ UNCHANGED serverVars

\* A process dies and starts again without its memory and its requests.
Crash(p) ==
  LET dead == {t \in Threads : ProcessOf[t] = p}
      Lost(f, x) == [t \in Threads |-> IF t \in dead THEN x ELSE f[t]]
  IN /\ Fault
     /\ pc' = Lost(pc, "idle")
     /\ inside' = inside \ dead
     /\ read' = Lost(read, 0)
     /\ token' = Lost(token, 0)
     /\ retried' = Lost(retried, FALSE)
     /\ attempt' = Lost(attempt, 0)
     /\ memory' = [memory EXCEPT ![p] = NoToken]
     /\ lock' = [lock EXCEPT ![p] = Nobody]
     /\ issueLock' = IF issueLock \in dead THEN Orphan ELSE issueLock
     /\ UNCHANGED <<redis, up, aged, ended>> /\ UNCHANGED serverVars

Step(t) ==
  \/ GetValue(t) \/ GetTtl(t)
  \/ TakeLock(t) \/ TakeIssueLock(t) \/ IssueLockTimeout(t)
  \/ Issue(t) \/ Store(t) \/ IssueFails(t)
  \/ Answered(t) \/ Rejected(t) \/ Forget(t) \/ Unset(t) \/ RetryOrFail(t)

World ==
  \/ Revoke \/ Age
  \/ RedisExpires \/ RedisDown \/ RedisUp
  \/ IssueLockExpires
  \/ \E p \in Processes : Crash(p)

Next ==
  \/ \E t \in Threads : Start(t)
  \/ \E t \in Threads : Step(t)
  \/ World

Spec == Init /\ [][Next]_vars

------------------------------------------------------------------------------
(***************************************************************************)
(* Properties.                                                             *)
(***************************************************************************)

\* At most one thread of a process, and, while Redis keeps its lock, at most one
\* thread of all processes, is about to issue a token (auth.py get).
SingleIssuer ==
  \A t, u \in Threads : {pc[t], pc[u]} \subseteq {"issue", "store"} =>
    t = u \/ (ProcessOf[t] # ProcessOf[u] /\ faults > 0)

\* Without a fault no thread issues a token while Toss accepts one that has more
\* than 30 seconds left: a token that works is never ended by another thread's
\* late 401, a torn cache read or a lost race for the lock.
NeverSupersedes ==
  [][issued' # issued /\ faults = 0 => valid = 0 \/ valid \in aged]_vars

\* Without a fault a usable token on Redis is the last one Toss issued: no slow
\* thread puts an older one back, and none is issued beside it.
CacheIsCurrent ==
  faults = 0 /\ Usable(redis) => redis.value = issued

\* A thread that waits for the manager's lock waits for one that can go on: no
\* path out of get() keeps the lock, and no two locks are waited for in a circle.
HoldersGoOn ==
  \A t \in Threads : pc[t] = "lock" =>
    LET holder == lock[ProcessOf[t]] IN holder = Nobody \/ ENABLED Step(holder)

\* "expired-token" is repaired by one automatic reissue
\* (docs/architecture/toss-provider.md:15): when Toss has ended no more than one
\* token, a request that repeats itself for its token repeats with the valid one.
RetryOnceSuffices ==
  faults = 0 /\ ended <= 1 =>
    \A t \in Threads : pc[t] = "send" /\ retried[t] => token[t] = valid
=============================================================================
