-------------------------- MODULE TossClientProofs --------------------------
(***************************************************************************)
(* Proofs about TossClient, for any number of threads and processes, any   *)
(* assignment of the threads to the processes, and any number of retries,  *)
(* tokens, ended tokens and faults; and about TossLimiter, for any number  *)
(* of callers, all rates and all limits that the server may report.        *)
(***************************************************************************)
EXTENDS TossClient, TossLimiter, TLAPS

\* A thread holds its process's lock from "shared" to the end of get(), and works
\* with a token from where it has one.
PlacesAgree ==
  \A t \in Threads :
    /\ pc[t] \in {"shared", "issue", "store"} => t \in inside
    /\ pc[t] \in {"idle", "lock", "send", "forget", "unset"} => t \notin inside
    /\ pc[t] = "ttl" => read[t] # 0
    /\ pc[t] = "store" => token[t] # 0

\* What is held anywhere was issued, Toss accepts none but the last, and nobody
\* forgets the token that Toss accepts.
TokensAreIssued ==
  /\ valid \in {0, issued}
  /\ redis.life = redis.value /\ redis.value <= issued
  /\ \A p \in Processes : memory[p].value <= issued
  /\ \A t \in Threads :
       /\ read[t] <= issued /\ token[t] <= issued
       /\ pc[t] \in {"forget", "unset"} /\ valid # 0 => token[t] # valid

\* Without a fault: who has passed the issue lock holds it; who issues has found no
\* usable token on Redis, and there is none until it stores the one it was given; a
\* token that Toss accepts for more than 30 seconds is on Redis or about to be.
FaultFree ==
  faults = 0 =>
    /\ up
    /\ \A t \in inside : pc[t] # "shared" => issueLock = t
    /\ \A t \in Threads : pc[t] \in {"issue", "store"} => ~Usable(redis)
    /\ \A t \in Threads : pc[t] = "store" => token[t] = issued
    /\ Usable(redis) => redis.value = issued
    /\ valid \notin aged \cup {0} =>
         Usable(redis) \/ \E t \in Threads : pc[t] = "store"

IInv == TypeOK /\ PlacesAgree /\ TokensAreIssued /\ FaultFree

LEMMA StartKeeps ==
  ASSUME IInv, NEW t \in Threads, Start(t)
  PROVE  IInv'
<1> USE DEF IInv, Start, cacheVars, lockVars, serverVars, worldVars, Go
<1>1. TypeOK'
  BY ProcessAssumption, LockAssumption, BoundAssumption DEF TypeOK, Places
<1>2. PlacesAgree'
  BY ProcessAssumption, LockAssumption DEF TypeOK, PlacesAgree
<1>3. TokensAreIssued'
  BY ProcessAssumption, BoundAssumption DEF TypeOK, TokensAreIssued
<1>4. FaultFree'
  BY DEF TypeOK, FaultFree, Usable
<1> QED
  BY <1>1, <1>2, <1>3, <1>4

LEMMA GetValueKeeps ==
  ASSUME IInv, NEW t \in Threads, GetValue(t)
  PROVE  IInv'
<1> USE DEF IInv, GetValue, cacheVars, serverVars, worldVars, Go, Decide,
    Memory, lockVars, Release, Fault
<1>1. TypeOK'
  <2>1. (/\ pc \in [Threads -> Places] /\ inside \in SUBSET Threads
         /\ retried \in [Threads -> BOOLEAN] /\ lock \in [Processes -> Threads \cup {Nobody}]
         /\ issueLock \in Threads \cup {Nobody, Orphan} /\ up \in BOOLEAN)'
    BY ProcessAssumption, LockAssumption DEF TypeOK, Places
  <2>2. (\A u \in Threads : u \in inside <=> lock[ProcessOf[u]] = u)'
    BY ProcessAssumption, LockAssumption DEF TypeOK
  <2>3. (/\ read \in [Threads -> 0..MaxTokens] /\ token \in [Threads -> 0..MaxTokens]
         /\ attempt \in [Threads -> 0..MaxRetries])'
    BY ProcessAssumption, BoundAssumption DEF TypeOK, PlacesAgree, Usable,
       AccessToken, NoToken, Tokens
  <2>4. (memory \in [Processes -> AccessToken \cup {NoToken}] /\ redis \in AccessToken \cup {NoToken})'
    BY ProcessAssumption, BoundAssumption DEF TypeOK, PlacesAgree, AccessToken,
       NoToken, Tokens
  <2>5. (/\ valid \in 0..MaxTokens /\ issued \in 0..MaxTokens /\ aged \in SUBSET Tokens
         /\ ended \in 0..MaxEnded /\ faults \in 0..MaxFaults)'
    BY BoundAssumption DEF TypeOK, Tokens
  <2> QED
    BY <2>1, <2>2, <2>3, <2>4, <2>5 DEF TypeOK
<1>2. PlacesAgree'
  BY ProcessAssumption, LockAssumption, BoundAssumption DEF TypeOK, PlacesAgree,
     Usable, AccessToken, NoToken, Tokens
<1>3. TokensAreIssued'
  BY ProcessAssumption, BoundAssumption DEF TypeOK, TokensAreIssued, PlacesAgree,
     Usable, AccessToken, NoToken, Tokens
<1>4. FaultFree'
  BY ProcessAssumption, BoundAssumption DEF TypeOK, FaultFree, Usable, PlacesAgree,
     TokensAreIssued, AccessToken, NoToken, Tokens
<1> QED
  BY <1>1, <1>2, <1>3, <1>4

LEMMA GetTtlKeeps ==
  ASSUME IInv, NEW t \in Threads, GetTtl(t)
  PROVE  IInv'
<1> USE DEF IInv, GetTtl, serverVars, worldVars, Decide, Memory, Go, Release,
    Fault
<1>1. TypeOK'
  <2>1. (/\ pc \in [Threads -> Places] /\ inside \in SUBSET Threads
         /\ retried \in [Threads -> BOOLEAN] /\ lock \in [Processes -> Threads \cup {Nobody}]
         /\ issueLock \in Threads \cup {Nobody, Orphan} /\ up \in BOOLEAN)'
    BY ProcessAssumption, LockAssumption DEF TypeOK, Places
  <2>2. (\A u \in Threads : u \in inside <=> lock[ProcessOf[u]] = u)'
    BY ProcessAssumption, LockAssumption DEF TypeOK
  <2>3. (/\ read \in [Threads -> 0..MaxTokens] /\ token \in [Threads -> 0..MaxTokens]
         /\ attempt \in [Threads -> 0..MaxRetries])'
    BY ProcessAssumption, BoundAssumption DEF TypeOK, PlacesAgree, Usable,
       AccessToken, NoToken, Tokens
  <2>4. (memory \in [Processes -> AccessToken \cup {NoToken}] /\ redis \in AccessToken \cup {NoToken})'
    BY ProcessAssumption, BoundAssumption DEF TypeOK, PlacesAgree, AccessToken,
       NoToken, Tokens
  <2>5. (/\ valid \in 0..MaxTokens /\ issued \in 0..MaxTokens /\ aged \in SUBSET Tokens
         /\ ended \in 0..MaxEnded /\ faults \in 0..MaxFaults)'
    BY BoundAssumption DEF TypeOK, Tokens
  <2> QED
    BY <2>1, <2>2, <2>3, <2>4, <2>5 DEF TypeOK
<1>2. PlacesAgree'
  BY ProcessAssumption, LockAssumption, BoundAssumption DEF TypeOK, PlacesAgree,
     Usable, AccessToken, NoToken, Tokens
<1>3. TokensAreIssued'
  <2>1. valid' = valid /\ issued' = issued /\ redis' = redis
    OBVIOUS
  <2>2. /\ Memory(t).value <= issued /\ Memory(t).value \in Nat /\ issued \in Nat
        /\ read[t] <= issued /\ read[t] \in Nat
    BY ProcessAssumption, BoundAssumption DEF TypeOK, TokensAreIssued, AccessToken, NoToken, Tokens
  <2>3. \A p \in Processes : memory'[p].value <= issued
    BY <2>2, ProcessAssumption DEF TypeOK, TokensAreIssued
  <2>4. \A u \in Threads : read'[u] <= issued /\ token'[u] <= issued
    BY <2>2, BoundAssumption DEF TypeOK, TokensAreIssued
  <2>5. \A u \in Threads : pc'[u] \in {"forget", "unset"} =>
                              pc[u] \in {"forget", "unset"} /\ token'[u] = token[u]
    BY DEF TypeOK
  <2> QED
    BY <2>1, <2>3, <2>4, <2>5 DEF TokensAreIssued
<1>4. FaultFree'
  BY ProcessAssumption, BoundAssumption DEF TypeOK, FaultFree, Usable, PlacesAgree,
     TokensAreIssued, AccessToken, NoToken, Tokens
<1> QED
  BY <1>1, <1>2, <1>3, <1>4

LEMMA TakeLockKeeps ==
  ASSUME IInv, NEW t \in Threads, TakeLock(t)
  PROVE  IInv'
<1> USE DEF IInv, TakeLock, cacheVars, serverVars, worldVars, Go, lockVars
<1>1. TypeOK'
  BY ProcessAssumption, LockAssumption, BoundAssumption DEF TypeOK, Places
<1>2. PlacesAgree'
  BY ProcessAssumption, LockAssumption DEF TypeOK, PlacesAgree
<1>3. TokensAreIssued'
  BY ProcessAssumption, BoundAssumption DEF TypeOK, TokensAreIssued
<1>4. FaultFree'
  BY DEF TypeOK, FaultFree, Usable, PlacesAgree
<1> QED
  BY <1>1, <1>2, <1>3, <1>4

LEMMA TakeIssueLockKeeps ==
  ASSUME IInv, NEW t \in Threads, TakeIssueLock(t)
  PROVE  IInv'
<1> USE DEF IInv, TakeIssueLock, cacheVars, serverVars, worldVars, Go, lockVars
<1>1. TypeOK'
  BY ProcessAssumption, LockAssumption, BoundAssumption DEF TypeOK, Places
<1>2. PlacesAgree'
  BY ProcessAssumption, LockAssumption DEF TypeOK, PlacesAgree
<1>3. TokensAreIssued'
  BY ProcessAssumption, BoundAssumption DEF TypeOK, TokensAreIssued
<1>4. FaultFree'
  BY ProcessAssumption, LockAssumption, BoundAssumption DEF TypeOK, PlacesAgree,
     TokensAreIssued, FaultFree, Usable, AccessToken, NoToken, Tokens
<1> QED
  BY <1>1, <1>2, <1>3, <1>4

LEMMA IssueLockTimeoutKeeps ==
  ASSUME IInv, NEW t \in Threads, IssueLockTimeout(t)
  PROVE  IInv'
<1> USE DEF IInv, IssueLockTimeout, cacheVars, serverVars, worldVars, Release,
    Finish, lockVars, Go
<1>1. TypeOK'
  <2>1. (/\ pc \in [Threads -> Places] /\ inside \in SUBSET Threads
         /\ retried \in [Threads -> BOOLEAN] /\ lock \in [Processes -> Threads \cup {Nobody}]
         /\ issueLock \in Threads \cup {Nobody, Orphan} /\ up \in BOOLEAN)'
    BY ProcessAssumption, LockAssumption DEF TypeOK, Places
  <2>2. (\A u \in Threads : u \in inside <=> lock[ProcessOf[u]] = u)'
    BY ProcessAssumption, LockAssumption DEF TypeOK
  <2>3. (/\ read \in [Threads -> 0..MaxTokens] /\ token \in [Threads -> 0..MaxTokens]
         /\ attempt \in [Threads -> 0..MaxRetries])'
    BY ProcessAssumption, BoundAssumption DEF TypeOK, PlacesAgree, Usable,
       AccessToken, NoToken, Tokens
  <2>4. (memory \in [Processes -> AccessToken \cup {NoToken}] /\ redis \in AccessToken \cup {NoToken})'
    BY ProcessAssumption, BoundAssumption DEF TypeOK, PlacesAgree, AccessToken,
       NoToken, Tokens
  <2>5. (/\ valid \in 0..MaxTokens /\ issued \in 0..MaxTokens /\ aged \in SUBSET Tokens
         /\ ended \in 0..MaxEnded /\ faults \in 0..MaxFaults)'
    BY BoundAssumption DEF TypeOK, Tokens
  <2> QED
    BY <2>1, <2>2, <2>3, <2>4, <2>5 DEF TypeOK
<1>2. PlacesAgree'
  BY ProcessAssumption, LockAssumption DEF TypeOK, PlacesAgree
<1>3. TokensAreIssued'
  BY ProcessAssumption, BoundAssumption DEF TypeOK, TokensAreIssued
<1>4. FaultFree'
  BY DEF TypeOK, FaultFree, Usable, PlacesAgree
<1> QED
  BY <1>1, <1>2, <1>3, <1>4

LEMMA IssueKeeps ==
  ASSUME IInv, NEW t \in Threads, Issue(t)
  PROVE  IInv'
<1> USE DEF IInv, Issue, cacheVars, lockVars, worldVars, Go, serverVars
<1>1. TypeOK'
  BY ProcessAssumption, LockAssumption, BoundAssumption DEF TypeOK, Places
<1>2. PlacesAgree'
  BY ProcessAssumption, LockAssumption DEF TypeOK, PlacesAgree
<1>3. TokensAreIssued'
  <2>1. /\ issued \in Nat /\ issued' = issued + 1 /\ valid' = issued'
        /\ redis' = redis /\ memory' = memory /\ read' = read
    BY BoundAssumption DEF TypeOK
  <2>2. /\ redis.value \in Nat /\ \A p \in Processes : memory[p].value \in Nat
        /\ \A u \in Threads : read[u] \in Nat /\ token[u] \in Nat
    BY BoundAssumption DEF TypeOK, AccessToken, NoToken, Tokens
  <2>3. redis'.value <= issued' /\ \A p \in Processes : memory'[p].value <= issued'
    BY <2>1, <2>2 DEF TokensAreIssued
  <2>4. \A u \in Threads : read'[u] <= issued' /\ token'[u] <= issued'
    BY <2>1, <2>2 DEF TypeOK, TokensAreIssued
  <2>5. ASSUME NEW u \in Threads, pc'[u] \in {"forget", "unset"}
        PROVE  token'[u] # valid'
    <3>1. token'[u] = token[u]
      BY <2>5 DEF TypeOK
    <3>2. token[u] <= issued
      BY DEF TokensAreIssued
    <3> QED
      BY <2>1, <2>2, <3>1, <3>2
  <2> QED
    BY <2>1, <2>3, <2>4, <2>5 DEF TokensAreIssued
<1>4. FaultFree'
  BY ProcessAssumption, BoundAssumption DEF TypeOK, FaultFree, Usable, PlacesAgree,
     TokensAreIssued, AccessToken, NoToken, Tokens
<1> QED
  BY <1>1, <1>2, <1>3, <1>4

LEMMA StoreKeeps ==
  ASSUME IInv, NEW t \in Threads, Store(t)
  PROVE  IInv'
<1> USE DEF IInv, Store, serverVars, worldVars, Go, Release
<1>1. TypeOK'
  <2>1. (/\ pc \in [Threads -> Places] /\ inside \in SUBSET Threads
         /\ retried \in [Threads -> BOOLEAN] /\ lock \in [Processes -> Threads \cup {Nobody}]
         /\ issueLock \in Threads \cup {Nobody, Orphan} /\ up \in BOOLEAN)'
    BY ProcessAssumption, LockAssumption DEF TypeOK, Places
  <2>2. (\A u \in Threads : u \in inside <=> lock[ProcessOf[u]] = u)'
    BY ProcessAssumption, LockAssumption DEF TypeOK
  <2>3. (/\ read \in [Threads -> 0..MaxTokens] /\ token \in [Threads -> 0..MaxTokens]
         /\ attempt \in [Threads -> 0..MaxRetries])'
    BY ProcessAssumption, BoundAssumption DEF TypeOK, PlacesAgree, Usable,
       AccessToken, NoToken, Tokens
  <2>4. (memory \in [Processes -> AccessToken \cup {NoToken}] /\ redis \in AccessToken \cup {NoToken})'
    <3>1. [value |-> token[t], life |-> token[t]] \in AccessToken
      BY BoundAssumption DEF TypeOK, PlacesAgree, AccessToken, Tokens
    <3>2. redis' \in AccessToken \cup {NoToken}
      BY <3>1 DEF TypeOK
    <3>3. memory' \in [Processes -> AccessToken \cup {NoToken}]
      BY <3>1, ProcessAssumption DEF TypeOK
    <3> QED
      BY <3>2, <3>3
  <2>5. (/\ valid \in 0..MaxTokens /\ issued \in 0..MaxTokens /\ aged \in SUBSET Tokens
         /\ ended \in 0..MaxEnded /\ faults \in 0..MaxFaults)'
    BY BoundAssumption DEF TypeOK, Tokens
  <2> QED
    BY <2>1, <2>2, <2>3, <2>4, <2>5 DEF TypeOK
<1>2. PlacesAgree'
  BY ProcessAssumption, LockAssumption DEF TypeOK, PlacesAgree
<1>3. TokensAreIssued'
  BY ProcessAssumption, BoundAssumption DEF TypeOK, TokensAreIssued, NoToken,
     AccessToken, Tokens
<1>4. FaultFree'
  BY ProcessAssumption, BoundAssumption DEF TypeOK, FaultFree, Usable, PlacesAgree,
     TokensAreIssued, AccessToken, NoToken, Tokens
<1> QED
  BY <1>1, <1>2, <1>3, <1>4

LEMMA IssueFailsKeeps ==
  ASSUME IInv, NEW t \in Threads, IssueFails(t)
  PROVE  IInv'
<1> USE DEF IInv, IssueFails, cacheVars, serverVars, worldVars, Fault, Release,
    Finish, lockVars, Go
<1>1. TypeOK'
  <2>1. (/\ pc \in [Threads -> Places] /\ inside \in SUBSET Threads
         /\ retried \in [Threads -> BOOLEAN] /\ lock \in [Processes -> Threads \cup {Nobody}]
         /\ issueLock \in Threads \cup {Nobody, Orphan} /\ up \in BOOLEAN)'
    BY ProcessAssumption, LockAssumption DEF TypeOK, Places
  <2>2. (\A u \in Threads : u \in inside <=> lock[ProcessOf[u]] = u)'
    BY ProcessAssumption, LockAssumption DEF TypeOK
  <2>3. (/\ read \in [Threads -> 0..MaxTokens] /\ token \in [Threads -> 0..MaxTokens]
         /\ attempt \in [Threads -> 0..MaxRetries])'
    BY ProcessAssumption, BoundAssumption DEF TypeOK, PlacesAgree, Usable,
       AccessToken, NoToken, Tokens
  <2>4. (memory \in [Processes -> AccessToken \cup {NoToken}] /\ redis \in AccessToken \cup {NoToken})'
    BY ProcessAssumption, BoundAssumption DEF TypeOK, PlacesAgree, AccessToken,
       NoToken, Tokens
  <2>5. (/\ valid \in 0..MaxTokens /\ issued \in 0..MaxTokens /\ aged \in SUBSET Tokens
         /\ ended \in 0..MaxEnded /\ faults \in 0..MaxFaults)'
    <3>1. CASE UNCHANGED worldVars
      BY <3>1, BoundAssumption DEF TypeOK
    <3>2. CASE Fault /\ UNCHANGED <<up, aged, ended>>
      BY <3>2, BoundAssumption DEF TypeOK
    <3> QED
      BY <3>1, <3>2
  <2> QED
    BY <2>1, <2>2, <2>3, <2>4, <2>5 DEF TypeOK
<1>2. PlacesAgree'
  BY ProcessAssumption, LockAssumption DEF TypeOK, PlacesAgree
<1>3. TokensAreIssued'
  BY ProcessAssumption, BoundAssumption DEF TypeOK, TokensAreIssued
<1>4. FaultFree'
  BY BoundAssumption DEF TypeOK, FaultFree, Usable, PlacesAgree
<1> QED
  BY <1>1, <1>2, <1>3, <1>4

LEMMA AnsweredKeeps ==
  ASSUME IInv, NEW t \in Threads, Answered(t)
  PROVE  IInv'
<1> USE DEF IInv, Answered, cacheVars, lockVars, serverVars, worldVars, Finish,
    Go
<1>1. TypeOK'
  BY ProcessAssumption, LockAssumption, BoundAssumption DEF TypeOK, Places
<1>2. PlacesAgree'
  BY ProcessAssumption, LockAssumption DEF TypeOK, PlacesAgree
<1>3. TokensAreIssued'
  BY ProcessAssumption, BoundAssumption DEF TypeOK, TokensAreIssued
<1>4. FaultFree'
  BY DEF TypeOK, FaultFree, Usable
<1> QED
  BY <1>1, <1>2, <1>3, <1>4

LEMMA RejectedKeeps ==
  ASSUME IInv, NEW t \in Threads, Rejected(t)
  PROVE  IInv'
<1> USE DEF IInv, Rejected, cacheVars, lockVars, serverVars, worldVars, Go,
    Finish
<1>1. TypeOK'
  <2>1. (/\ pc \in [Threads -> Places] /\ inside \in SUBSET Threads
         /\ retried \in [Threads -> BOOLEAN] /\ lock \in [Processes -> Threads \cup {Nobody}]
         /\ issueLock \in Threads \cup {Nobody, Orphan} /\ up \in BOOLEAN)'
    BY ProcessAssumption, LockAssumption DEF TypeOK, Places
  <2>2. (\A u \in Threads : u \in inside <=> lock[ProcessOf[u]] = u)'
    BY ProcessAssumption, LockAssumption DEF TypeOK
  <2>3. (/\ read \in [Threads -> 0..MaxTokens] /\ token \in [Threads -> 0..MaxTokens]
         /\ attempt \in [Threads -> 0..MaxRetries])'
    BY ProcessAssumption, BoundAssumption DEF TypeOK, PlacesAgree, Usable,
       AccessToken, NoToken, Tokens
  <2>4. (memory \in [Processes -> AccessToken \cup {NoToken}] /\ redis \in AccessToken \cup {NoToken})'
    BY ProcessAssumption, BoundAssumption DEF TypeOK, PlacesAgree, AccessToken,
       NoToken, Tokens
  <2>5. (/\ valid \in 0..MaxTokens /\ issued \in 0..MaxTokens /\ aged \in SUBSET Tokens
         /\ ended \in 0..MaxEnded /\ faults \in 0..MaxFaults)'
    BY BoundAssumption DEF TypeOK, Tokens
  <2> QED
    BY <2>1, <2>2, <2>3, <2>4, <2>5 DEF TypeOK
<1>2. PlacesAgree'
  BY ProcessAssumption, LockAssumption DEF TypeOK, PlacesAgree
<1>3. TokensAreIssued'
  BY ProcessAssumption, BoundAssumption DEF TypeOK, TokensAreIssued
<1>4. FaultFree'
  BY DEF TypeOK, FaultFree, Usable, PlacesAgree
<1> QED
  BY <1>1, <1>2, <1>3, <1>4

LEMMA ForgetKeeps ==
  ASSUME IInv, NEW t \in Threads, Forget(t)
  PROVE  IInv'
<1> USE DEF IInv, Forget, lockVars, serverVars, worldVars, Go
<1>1. TypeOK'
  BY ProcessAssumption, LockAssumption, BoundAssumption DEF TypeOK, Places, Tokens,
     AccessToken, NoToken
<1>2. PlacesAgree'
  BY ProcessAssumption, LockAssumption DEF TypeOK, PlacesAgree
<1>3. TokensAreIssued'
  BY ProcessAssumption, BoundAssumption DEF TypeOK, TokensAreIssued, NoToken,
     AccessToken, Tokens
<1>4. FaultFree'
  BY DEF TypeOK, FaultFree, Usable, TokensAreIssued, NoToken, AccessToken, Tokens
<1> QED
  BY <1>1, <1>2, <1>3, <1>4

LEMMA UnsetKeeps ==
  ASSUME IInv, NEW t \in Threads, Unset(t)
  PROVE  IInv'
<1> USE DEF IInv, Unset, lockVars, serverVars, worldVars, Go
<1>1. TypeOK'
  BY ProcessAssumption, LockAssumption, BoundAssumption DEF TypeOK, Places, Tokens,
     AccessToken, NoToken
<1>2. PlacesAgree'
  BY ProcessAssumption, LockAssumption DEF TypeOK, PlacesAgree
<1>3. TokensAreIssued'
  BY ProcessAssumption, BoundAssumption DEF TypeOK, TokensAreIssued, NoToken,
     AccessToken, Tokens
<1>4. FaultFree'
  BY DEF TypeOK, FaultFree, Usable, TokensAreIssued, NoToken, AccessToken, Tokens
<1> QED
  BY <1>1, <1>2, <1>3, <1>4

LEMMA RetryOrFailKeeps ==
  ASSUME IInv, NEW t \in Threads, RetryOrFail(t)
  PROVE  IInv'
<1> USE DEF IInv, RetryOrFail, cacheVars, lockVars, serverVars, worldVars, Go,
    Finish
<1>1. TypeOK'
  <2>1. (/\ pc \in [Threads -> Places] /\ inside \in SUBSET Threads
         /\ retried \in [Threads -> BOOLEAN] /\ lock \in [Processes -> Threads \cup {Nobody}]
         /\ issueLock \in Threads \cup {Nobody, Orphan} /\ up \in BOOLEAN)'
    BY ProcessAssumption, LockAssumption DEF TypeOK, Places
  <2>2. (\A u \in Threads : u \in inside <=> lock[ProcessOf[u]] = u)'
    BY ProcessAssumption, LockAssumption DEF TypeOK
  <2>3. (/\ read \in [Threads -> 0..MaxTokens] /\ token \in [Threads -> 0..MaxTokens]
         /\ attempt \in [Threads -> 0..MaxRetries])'
    BY ProcessAssumption, BoundAssumption DEF TypeOK, PlacesAgree, Usable,
       AccessToken, NoToken, Tokens
  <2>4. (memory \in [Processes -> AccessToken \cup {NoToken}] /\ redis \in AccessToken \cup {NoToken})'
    BY ProcessAssumption, BoundAssumption DEF TypeOK, PlacesAgree, AccessToken,
       NoToken, Tokens
  <2>5. (/\ valid \in 0..MaxTokens /\ issued \in 0..MaxTokens /\ aged \in SUBSET Tokens
         /\ ended \in 0..MaxEnded /\ faults \in 0..MaxFaults)'
    BY BoundAssumption DEF TypeOK, Tokens
  <2> QED
    BY <2>1, <2>2, <2>3, <2>4, <2>5 DEF TypeOK
<1>2. PlacesAgree'
  BY ProcessAssumption, LockAssumption DEF TypeOK, PlacesAgree
<1>3. TokensAreIssued'
  BY ProcessAssumption, BoundAssumption DEF TypeOK, TokensAreIssued
<1>4. FaultFree'
  BY DEF TypeOK, FaultFree, Usable
<1> QED
  BY <1>1, <1>2, <1>3, <1>4

LEMMA RevokeKeeps ==
  ASSUME IInv, Revoke
  PROVE  IInv'
<1> USE DEF IInv, Revoke, threadVars, cacheVars, lockVars, serverVars, worldVars
<1>1. TypeOK'
  BY ProcessAssumption, LockAssumption, BoundAssumption DEF TypeOK, Places
<1>2. PlacesAgree'
  BY ProcessAssumption, LockAssumption DEF TypeOK, PlacesAgree
<1>3. TokensAreIssued'
  BY ProcessAssumption, BoundAssumption DEF TypeOK, TokensAreIssued
<1>4. FaultFree'
  BY DEF TypeOK, FaultFree, Usable
<1> QED
  BY <1>1, <1>2, <1>3, <1>4

LEMMA AgeKeeps ==
  ASSUME IInv, Age
  PROVE  IInv'
<1> USE DEF IInv, Age, threadVars, cacheVars, lockVars, serverVars, worldVars
<1>1. TypeOK'
  BY ProcessAssumption, LockAssumption, BoundAssumption DEF TypeOK, Places, Tokens
<1>2. PlacesAgree'
  BY ProcessAssumption, LockAssumption DEF TypeOK, PlacesAgree
<1>3. TokensAreIssued'
  BY ProcessAssumption, BoundAssumption DEF TypeOK, TokensAreIssued
<1>4. FaultFree'
  BY ProcessAssumption, LockAssumption, BoundAssumption DEF TypeOK, PlacesAgree,
     TokensAreIssued, FaultFree, Usable, AccessToken, NoToken, Tokens
<1> QED
  BY <1>1, <1>2, <1>3, <1>4

LEMMA RedisExpiresKeeps ==
  ASSUME IInv, RedisExpires
  PROVE  IInv'
<1> USE DEF IInv, RedisExpires, threadVars, lockVars, serverVars, worldVars,
    cacheVars
<1>1. TypeOK'
  BY ProcessAssumption, LockAssumption, BoundAssumption DEF TypeOK, Places, Tokens,
     AccessToken, NoToken
<1>2. PlacesAgree'
  BY ProcessAssumption, LockAssumption DEF TypeOK, PlacesAgree
<1>3. TokensAreIssued'
  BY ProcessAssumption, BoundAssumption DEF TypeOK, TokensAreIssued, NoToken,
     AccessToken, Tokens
<1>4. FaultFree'
  BY DEF TypeOK, FaultFree, Usable, TokensAreIssued, NoToken, AccessToken, Tokens
<1> QED
  BY <1>1, <1>2, <1>3, <1>4

LEMMA RedisDownKeeps ==
  ASSUME IInv, RedisDown
  PROVE  IInv'
<1> USE DEF IInv, RedisDown, threadVars, cacheVars, lockVars, serverVars, Fault,
    worldVars, Go
<1>1. TypeOK'
  <2>1. (/\ pc \in [Threads -> Places] /\ inside \in SUBSET Threads
         /\ retried \in [Threads -> BOOLEAN] /\ lock \in [Processes -> Threads \cup {Nobody}]
         /\ issueLock \in Threads \cup {Nobody, Orphan} /\ up \in BOOLEAN)'
    BY ProcessAssumption, LockAssumption DEF TypeOK, Places
  <2>2. (\A u \in Threads : u \in inside <=> lock[ProcessOf[u]] = u)'
    BY ProcessAssumption, LockAssumption DEF TypeOK
  <2>3. (/\ read \in [Threads -> 0..MaxTokens] /\ token \in [Threads -> 0..MaxTokens]
         /\ attempt \in [Threads -> 0..MaxRetries])'
    BY ProcessAssumption, BoundAssumption DEF TypeOK, PlacesAgree, Usable,
       AccessToken, NoToken, Tokens
  <2>4. (memory \in [Processes -> AccessToken \cup {NoToken}] /\ redis \in AccessToken \cup {NoToken})'
    BY ProcessAssumption, BoundAssumption DEF TypeOK, PlacesAgree, AccessToken,
       NoToken, Tokens
  <2>5. (/\ valid \in 0..MaxTokens /\ issued \in 0..MaxTokens /\ aged \in SUBSET Tokens
         /\ ended \in 0..MaxEnded /\ faults \in 0..MaxFaults)'
    BY BoundAssumption DEF TypeOK, Tokens
  <2> QED
    BY <2>1, <2>2, <2>3, <2>4, <2>5 DEF TypeOK
<1>2. PlacesAgree'
  BY ProcessAssumption, LockAssumption DEF TypeOK, PlacesAgree
<1>3. TokensAreIssued'
  BY ProcessAssumption, BoundAssumption DEF TypeOK, TokensAreIssued
<1>4. FaultFree'
  BY BoundAssumption DEF TypeOK, FaultFree, Usable
<1> QED
  BY <1>1, <1>2, <1>3, <1>4

LEMMA RedisUpKeeps ==
  ASSUME IInv, RedisUp
  PROVE  IInv'
<1> USE DEF IInv, RedisUp, threadVars, serverVars, cacheVars, lockVars,
    worldVars
<1>1. TypeOK'
  BY ProcessAssumption, LockAssumption, BoundAssumption DEF TypeOK, Places, Tokens,
     AccessToken, NoToken
<1>2. PlacesAgree'
  BY ProcessAssumption, LockAssumption DEF TypeOK, PlacesAgree
<1>3. TokensAreIssued'
  BY ProcessAssumption, BoundAssumption DEF TypeOK, TokensAreIssued, NoToken,
     AccessToken, Tokens
<1>4. FaultFree'
  BY DEF TypeOK, FaultFree, Usable, TokensAreIssued, NoToken, AccessToken, Tokens
<1> QED
  BY <1>1, <1>2, <1>3, <1>4

LEMMA IssueLockExpiresKeeps ==
  ASSUME IInv, IssueLockExpires
  PROVE  IInv'
<1> USE DEF IInv, IssueLockExpires, threadVars, cacheVars, serverVars, Fault,
    lockVars, worldVars, Go
<1>1. TypeOK'
  BY ProcessAssumption, LockAssumption, BoundAssumption DEF TypeOK, Places
<1>2. PlacesAgree'
  BY ProcessAssumption, LockAssumption DEF TypeOK, PlacesAgree
<1>3. TokensAreIssued'
  BY ProcessAssumption, BoundAssumption DEF TypeOK, TokensAreIssued
<1>4. FaultFree'
  BY ProcessAssumption, LockAssumption, BoundAssumption DEF TypeOK, PlacesAgree,
     TokensAreIssued, FaultFree, Usable, AccessToken, NoToken, Tokens
<1> QED
  BY <1>1, <1>2, <1>3, <1>4

LEMMA CrashKeeps ==
  ASSUME IInv, NEW p \in Processes, Crash(p)
  PROVE  IInv'
<1> USE DEF IInv, Crash, serverVars, Fault, worldVars, Go
<1>1. TypeOK'
  <2>1. (/\ pc \in [Threads -> Places] /\ inside \in SUBSET Threads
         /\ retried \in [Threads -> BOOLEAN] /\ lock \in [Processes -> Threads \cup {Nobody}]
         /\ issueLock \in Threads \cup {Nobody, Orphan} /\ up \in BOOLEAN)'
    BY ProcessAssumption, LockAssumption DEF TypeOK, Places
  <2>2. (\A u \in Threads : u \in inside <=> lock[ProcessOf[u]] = u)'
    BY ProcessAssumption, LockAssumption DEF TypeOK
  <2>3. (/\ read \in [Threads -> 0..MaxTokens] /\ token \in [Threads -> 0..MaxTokens]
         /\ attempt \in [Threads -> 0..MaxRetries])'
    BY ProcessAssumption, BoundAssumption DEF TypeOK, PlacesAgree, Usable,
       AccessToken, NoToken, Tokens
  <2>4. (memory \in [Processes -> AccessToken \cup {NoToken}] /\ redis \in AccessToken \cup {NoToken})'
    BY ProcessAssumption, BoundAssumption DEF TypeOK, PlacesAgree, AccessToken,
       NoToken, Tokens
  <2>5. (/\ valid \in 0..MaxTokens /\ issued \in 0..MaxTokens /\ aged \in SUBSET Tokens
         /\ ended \in 0..MaxEnded /\ faults \in 0..MaxFaults)'
    BY BoundAssumption DEF TypeOK, Tokens
  <2> QED
    BY <2>1, <2>2, <2>3, <2>4, <2>5 DEF TypeOK
<1>2. PlacesAgree'
  BY ProcessAssumption, LockAssumption DEF TypeOK, PlacesAgree
<1>3. TokensAreIssued'
  BY ProcessAssumption, BoundAssumption DEF TypeOK, TokensAreIssued, NoToken,
     AccessToken, Tokens
<1>4. FaultFree'
  BY BoundAssumption DEF TypeOK, FaultFree, Usable, TokensAreIssued, NoToken,
     AccessToken, Tokens
<1> QED
  BY <1>1, <1>2, <1>3, <1>4

LEMMA InvInit ==
  Init => IInv
<1> SUFFICES ASSUME Init PROVE IInv
  OBVIOUS
<1> USE DEF Init
<1>1. TypeOK
  BY ProcessAssumption, LockAssumption, BoundAssumption DEF TypeOK, Places, Tokens
<1>2. PlacesAgree /\ TokensAreIssued
  BY DEF PlacesAgree, TokensAreIssued, NoToken
<1>3. FaultFree
  BY DEF FaultFree, Usable
<1> QED
  BY <1>1, <1>2, <1>3 DEF IInv

LEMMA InvStep ==
  IInv /\ [Next]_vars => IInv'
<1> SUFFICES ASSUME IInv, [Next]_vars PROVE IInv'
  OBVIOUS
<1>1. ASSUME NEW t \in Threads, Start(t) PROVE IInv'
  BY <1>1, StartKeeps
<1>2. ASSUME NEW t \in Threads, Step(t) PROVE IInv'
  BY <1>2, GetValueKeeps, GetTtlKeeps, TakeLockKeeps, TakeIssueLockKeeps,
     IssueLockTimeoutKeeps, IssueKeeps, StoreKeeps, IssueFailsKeeps, AnsweredKeeps,
     RejectedKeeps, ForgetKeeps, UnsetKeeps, RetryOrFailKeeps DEF Step
<1>3. ASSUME World PROVE IInv'
  BY <1>3, RevokeKeeps, AgeKeeps, RedisExpiresKeeps, RedisDownKeeps, RedisUpKeeps,
     IssueLockExpiresKeeps, CrashKeeps DEF World
<1>4. ASSUME UNCHANGED vars PROVE IInv'
  BY <1>4 DEF vars, IInv, TypeOK, PlacesAgree, TokensAreIssued, FaultFree, Usable
<1> QED
  BY <1>1, <1>2, <1>3, <1>4 DEF Next

\* The inductive invariant.
THEOREM TossInvariant ==
  Spec => []IInv
<1> QED
  BY InvInit, InvStep, PTL DEF Spec

\* Every variable keeps its type, and who is inside the manager's lock holds it.
THEOREM TypeCorrect ==
  Spec => []TypeOK
<1>1. IInv => TypeOK
  BY DEF IInv
<1> QED
  BY <1>1, TossInvariant, PTL

\* Two threads that issue at once have the same lock of the process, or have both
\* passed the lock on Redis: neither can be without a fault.
THEOREM SingleIssuerCorrect ==
  Spec => []SingleIssuer
<1>1. IInv => SingleIssuer
  <2> SUFFICES ASSUME IInv, NEW t \in Threads, NEW u \in Threads,
                      {pc[t], pc[u]} \subseteq {"issue", "store"}, t # u
               PROVE  ProcessOf[t] # ProcessOf[u] /\ faults > 0
    BY DEF SingleIssuer
  <2>1. t \in inside /\ u \in inside /\ faults \in Nat
    BY BoundAssumption DEF IInv, PlacesAgree, TypeOK
  <2>2. lock[ProcessOf[t]] = t /\ lock[ProcessOf[u]] = u
    BY <2>1 DEF IInv, TypeOK
  <2>3. faults = 0 => issueLock = t /\ issueLock = u
    BY <2>1 DEF IInv, FaultFree
  <2> QED
    BY <2>1, <2>2, <2>3
<1> QED
  BY <1>1, TossInvariant, PTL

\* Without a fault the token on Redis, while usable, is the last one that was issued.
THEOREM CacheIsCurrentCorrect ==
  Spec => []CacheIsCurrent
<1>1. IInv => CacheIsCurrent
  BY DEF IInv, FaultFree, CacheIsCurrent
<1> QED
  BY <1>1, TossInvariant, PTL

\* Without a fault no token is issued beside one that Toss accepts for long enough.
THEOREM NeverSupersedesCorrect ==
  Spec => NeverSupersedes
<1> DEFINE Superseding == issued' # issued /\ faults = 0
<1>1. IInv /\ [Next]_vars => [Superseding => valid = 0 \/ valid \in aged]_vars
  <2> SUFFICES ASSUME IInv, Next, issued' # issued, faults = 0, valid \notin aged \cup {0}
               PROVE  FALSE
    OBVIOUS
  <2>1. PICK t \in Threads : Issue(t)
    BY DEF Next, Step, World, Start, GetValue, GetTtl, TakeLock, TakeIssueLock,
       IssueLockTimeout, Store, IssueFails, Answered, Rejected, Forget, Unset,
       RetryOrFail, Revoke, Age, RedisExpires, RedisDown, RedisUp, IssueLockExpires,
       Crash, serverVars
  <2>2. ~ Usable(redis)
    BY <2>1 DEF IInv, FaultFree, Issue
  <2>3. PICK u \in Threads : pc[u] = "store"
    BY <2>2 DEF IInv, FaultFree
  <2>4. t \in inside /\ u \in inside /\ t # u
    BY <2>1, <2>3 DEF IInv, PlacesAgree, Issue
  <2>5. issueLock = t /\ issueLock = u
    BY <2>1, <2>3, <2>4 DEF IInv, FaultFree, Issue
  <2> QED
    BY <2>4, <2>5
<1> QED
  BY <1>1, TossInvariant, PTL DEF Spec, NeverSupersedes

\* The manager's lock of a process is held by a thread of that process.
LocksAreLocal == \A p \in Processes : lock[p] # Nobody => ProcessOf[lock[p]] = p

LEMMA LocksStep ==
  TypeOK /\ LocksAreLocal /\ [Next]_vars => LocksAreLocal'
<1> SUFFICES ASSUME TypeOK, LocksAreLocal, [Next]_vars, NEW p \in Processes, lock'[p] # Nobody
             PROVE  ProcessOf[lock'[p]] = p
  BY DEF LocksAreLocal
<1> USE ProcessAssumption, LockAssumption
    DEF TypeOK, LocksAreLocal, lockVars, threadVars, cacheVars, serverVars, worldVars, Release
<1>1. ASSUME NEW t \in Threads, Start(t) PROVE ProcessOf[lock'[p]] = p
  BY <1>1 DEF Start
<1>2. ASSUME NEW t \in Threads, GetValue(t) \/ GetTtl(t) PROVE ProcessOf[lock'[p]] = p
  BY <1>2 DEF GetValue, GetTtl, Decide
<1>3. ASSUME NEW t \in Threads, TakeLock(t) PROVE ProcessOf[lock'[p]] = p
  BY <1>3 DEF TakeLock
<1>4. ASSUME NEW t \in Threads,
             TakeIssueLock(t) \/ IssueLockTimeout(t) \/ Issue(t) \/ Store(t) \/ IssueFails(t)
      PROVE  ProcessOf[lock'[p]] = p
  BY <1>4 DEF TakeIssueLock, IssueLockTimeout, Issue, Store, IssueFails
<1>5. ASSUME NEW t \in Threads,
             Answered(t) \/ Rejected(t) \/ Forget(t) \/ Unset(t) \/ RetryOrFail(t)
      PROVE  ProcessOf[lock'[p]] = p
  BY <1>5 DEF Answered, Rejected, Forget, Unset, RetryOrFail
<1>6. ASSUME World PROVE ProcessOf[lock'[p]] = p
  <2>1. ASSUME NEW q \in Processes, Crash(q) PROVE ProcessOf[lock'[p]] = p
    <3>1. lock' = [lock EXCEPT ![q] = Nobody]
      BY <2>1 DEF Crash
    <3> QED
      BY <3>1
  <2>2. ASSUME Revoke \/ Age \/ RedisExpires \/ RedisDown \/ RedisUp \/ IssueLockExpires
        PROVE  lock' = lock
    BY <2>2 DEF Revoke, Age, RedisExpires, RedisDown, RedisUp, IssueLockExpires
  <2> QED
    BY <1>6, <2>1, <2>2 DEF World
<1>7. CASE UNCHANGED vars
  BY <1>7 DEF vars
<1> QED
  BY <1>1, <1>2, <1>3, <1>4, <1>5, <1>6, <1>7 DEF Next, Step

\* The places inside the manager's lock: a cache is read, an answer is awaited that
\* may also be a failure, or the lock on Redis is waited for, which times out.
HoldersAreBusy ==
  \A t \in Threads : pc[t] = "lock" =>
    LET holder == lock[ProcessOf[t]]
    IN holder = Nobody \/ pc[holder] \in {"get", "ttl", "shared", "issue", "store"}

\* Whoever waits for the manager's lock waits for a thread of its own process whose next
\* step waits for no lock of a process, whatever has failed before (HoldersGoOn, with the
\* places in the place of ENABLED): no path out of get() keeps the lock (auth.py:145-160).
THEOREM HoldersAreBusyCorrect ==
  Spec => []HoldersAreBusy
<1>1. Init => LocksAreLocal
  BY DEF Init, LocksAreLocal
<1>2. IInv /\ LocksAreLocal => HoldersAreBusy
  <2> SUFFICES ASSUME IInv, LocksAreLocal, NEW t \in Threads, lock[ProcessOf[t]] # Nobody
               PROVE  pc[lock[ProcessOf[t]]] \in {"get", "ttl", "shared", "issue", "store"}
    BY DEF HoldersAreBusy
  <2> DEFINE holder == lock[ProcessOf[t]]
  <2>1. holder \in Threads /\ ProcessOf[holder] = ProcessOf[t]
    BY ProcessAssumption DEF IInv, TypeOK, LocksAreLocal
  <2>2. holder \in inside
    BY <2>1 DEF IInv, TypeOK
  <2> QED
    BY <2>1, <2>2 DEF IInv, PlacesAgree, TypeOK, Places
<1>3. IInv => TypeOK
  BY DEF IInv
<1> QED
  BY <1>1, <1>2, <1>3, LocksStep, TossInvariant, PTL DEF Spec

(***************************************************************************)
(* The token bucket.                                                       *)
(***************************************************************************)

LEMMA ProductGrows ==
  \A a, b, n \in Nat : a <= b => a * n <= b * n /\ n * a <= n * b
  OBVIOUS

LEMMA ProductSplits ==
  \A p, a, b \in Int : p * (a + b) = p * a + p * b /\ (a + b) * p = a * p + b * p
  OBVIOUS

\* The units of a token, of a second's tokens and of a refill are natural numbers.
LEMMA Products ==
  \A a, b \in Nat : a * b \in Nat
  OBVIOUS

LEMMA EffectiveType ==
  ASSUME LimiterTypeOK
  PROVE  /\ EffectiveRate \in Nat \ {0} /\ EffectiveRate <= rate
         /\ Token \in Nat \ {0}
         /\ Refilled \in Nat /\ Refilled <= EffectiveRate * Ticks
         /\ Refilled <= tokens + (now - updated) * EffectiveRate
<1>1. EffectiveRate \in Nat \ {0} /\ EffectiveRate <= rate
  BY TossLimiterAssumption DEF LimiterTypeOK, EffectiveRate, Least
<1>2. Token \in Nat \ {0}
  BY TossLimiterAssumption DEF Token
<1> DEFINE added == (now - updated) * EffectiveRate
           most == EffectiveRate * Ticks
<1>3. now - updated \in Nat
  BY TossLimiterAssumption DEF LimiterTypeOK
<1>4. added \in Nat /\ most \in Nat
  BY <1>1, <1>3, Products, TossLimiterAssumption
<1>5. Refilled = Least(most, tokens + added)
  BY DEF Refilled
<1> HIDE DEF added, most
<1>6. Refilled \in Nat /\ Refilled <= most /\ Refilled <= tokens + added
  BY <1>4, <1>5 DEF Least, LimiterTypeOK
<1> QED
  BY <1>1, <1>2, <1>6 DEF added, most

\* Whatever has been granted since a moment and is still in the bucket has come in since
\* then, at no more than the highest rate, or was there, at most a second of it.
Accounted ==
  \A s \in 0 .. now :
    /\ EffectiveRate <= spans[s].peak
    /\ IF s <= updated
       THEN (acquired - spans[s].before) * Token + tokens <= spans[s].peak * (Ticks + updated - s)
       ELSE acquired = spans[s].before

LimiterInv == LimiterTypeOK /\ Accounted

LEMMA LimiterInitInv == LimiterInit => LimiterInv
<1> SUFFICES ASSUME LimiterInit PROVE LimiterInv
  OBVIOUS
<1>1. Initial * Ticks \in Nat
  BY Products, TossLimiterAssumption
<1>2. LimiterTypeOK
  <2>1. 0 .. 0 = {0}
    OBVIOUS
  <2>2. spans \in [0 .. now -> [before : Nat, peak : Nat]]
    BY <2>1, TossLimiterAssumption DEF LimiterInit
  <2>3. /\ now \in 0 .. MaxTicks /\ rate \in Nat \ {0} /\ updated \in 0 .. now
        /\ acquired \in Nat
    BY TossLimiterAssumption DEF LimiterInit
  <2>6. opening \in BOOLEAN /\ inFlight \subseteq Senders
    BY DEF LimiterInit
  <2>5. tokens \in Nat /\ tokens <= rate * Ticks /\ budget \in Int
    BY <1>1 DEF LimiterInit
  <2>4. wake \in [Senders -> Int]
    BY DEF LimiterInit, Awake
  <2> QED
    BY <2>2, <2>3, <2>4, <2>5, <2>6 DEF LimiterTypeOK
<1>3. \A s \in 0 .. now : s = 0 /\ s <= updated /\ spans[s] = [before |-> 0, peak |-> Initial]
  BY DEF LimiterInit
<1>4. EffectiveRate = Initial /\ acquired = 0 /\ tokens = Initial * Ticks /\ updated = 0
  BY DEF LimiterInit, EffectiveRate
<1>5. (0 - 0) * Token + Initial * Ticks <= Initial * (Ticks + 0 - 0)
  BY <1>1, TossLimiterAssumption DEF Token
<1>6. Accounted
  BY <1>3, <1>4, <1>5, TossLimiterAssumption DEF Accounted
<1> QED
  BY <1>2, <1>6 DEF LimiterInv

\* The next units of a bucket that has been refilled: one token less, or none.
LEMMA AcquireType ==
  ASSUME LimiterTypeOK, NEW t \in Senders, Acquire(t)
  PROVE  LimiterTypeOK'
<1>1. /\ Refilled \in Nat /\ Refilled <= rate * Ticks /\ Token \in Nat \ {0}
      /\ EffectiveRate \in Nat \ {0}
  <2>1. EffectiveRate * Ticks <= rate * Ticks
    BY EffectiveType, ProductGrows, TossLimiterAssumption DEF LimiterTypeOK
  <2>2. EffectiveRate * Ticks \in Nat /\ rate * Ticks \in Nat
    BY EffectiveType, Products, TossLimiterAssumption DEF LimiterTypeOK
  <2> QED
    BY <2>1, <2>2, EffectiveType
<1>2. rate * Ticks \in Nat
  BY Products, TossLimiterAssumption DEF LimiterTypeOK
<1>3. CASE Refilled >= Token
  BY <1>1, <1>2, <1>3, TossLimiterAssumption DEF Acquire, LimiterTypeOK, Awake
<1>4. CASE ~(Refilled >= Token)
  <2>1. Delay \in Int
    BY <1>1 DEF Delay
  <2> QED
    BY <1>1, <1>2, <1>4, <2>1, TossLimiterAssumption DEF Acquire, LimiterTypeOK
<1> QED
  BY <1>3, <1>4

LEMMA AcquireAccounted ==
  ASSUME LimiterInv, NEW t \in Senders, Acquire(t)
  PROVE  Accounted'
<1> USE DEF LimiterInv
<1>1. /\ EffectiveRate' = EffectiveRate /\ now' = now /\ updated' = now /\ spans' = spans
  BY DEF Acquire, EffectiveRate
<1>2. /\ Token \in Nat \ {0} /\ Refilled \in Nat
      /\ \/ acquired' = acquired /\ tokens' = Refilled
         \/ acquired' = acquired + 1 /\ tokens' = Refilled - Token
  <2>1. CASE Refilled >= Token
    BY <2>1, EffectiveType DEF Acquire
  <2>2. CASE ~(Refilled >= Token)
    BY <2>2, EffectiveType DEF Acquire
  <2> QED
    BY <2>1, <2>2
<1>3. ASSUME NEW s \in 0 .. now
      PROVE  /\ EffectiveRate <= spans[s].peak
             /\ (acquired' - spans[s].before) * Token + tokens' <= spans[s].peak * (Ticks + now - s)
  <2> DEFINE p == spans[s].peak
             b == spans[s].before
  <2>1. /\ p \in Nat /\ b \in Nat /\ acquired \in Nat /\ tokens \in Nat /\ Ticks \in Nat
        /\ s \in Nat /\ now \in Nat /\ updated \in Nat /\ s <= now /\ updated <= now
        /\ EffectiveRate \in Nat /\ EffectiveRate <= p
    <3>1. spans[s] \in [before : Nat, peak : Nat] /\ EffectiveRate <= spans[s].peak
      BY DEF LimiterTypeOK, Accounted
    <3>2. now \in Nat /\ s \in Nat /\ updated \in Nat /\ s <= now /\ updated <= now
      BY TossLimiterAssumption DEF LimiterTypeOK
    <3> QED
      BY <3>1, <3>2, EffectiveType, TossLimiterAssumption DEF LimiterTypeOK
  <2>2. (acquired' - b) * Token + tokens' = (acquired - b) * Token + Refilled
    <3>1. (acquired + 1 - b) * Token = (acquired - b) * Token + Token
      BY <1>2, <2>1, ProductSplits
    <3>2. (acquired - b) * Token \in Int
      BY <1>2, <2>1
    <3>3. CASE acquired' = acquired /\ tokens' = Refilled
      BY <3>3
    <3>4. CASE acquired' = acquired + 1 /\ tokens' = Refilled - Token
      <4>1. (acquired' - b) * Token = (acquired - b) * Token + Token
        BY <1>2, <2>1, <3>1, <3>4
      <4>2. tokens' = Refilled - Token
        BY <3>4
      <4> DEFINE old == (acquired - b) * Token
                 new == (acquired' - b) * Token
      <4> HIDE DEF b, old, new
      <4>3. old \in Int /\ new = old + Token
        BY <3>2, <4>1 DEF old, new, b
      <4>4. new + tokens' = old + Refilled
        BY <1>2, <4>2, <4>3
      <4> QED
        BY <4>4 DEF old, new
    <3> QED
      BY <1>2, <3>3, <3>4
  <2>3. CASE s <= updated
    <3>1. (acquired - b) * Token + tokens <= p * (Ticks + updated - s)
      BY <2>3 DEF Accounted
    <3>2. Refilled <= tokens + (now - updated) * EffectiveRate
      BY EffectiveType
    <3>3. (now - updated) * EffectiveRate <= (now - updated) * p
      BY <2>1, ProductGrows
    <3>4. p * (Ticks + now - s) = p * (Ticks + updated - s) + p * (now - updated)
      BY <2>1, ProductSplits
    <3>5. (now - updated) * p = p * (now - updated)
      BY <2>1
    <3>6. /\ (acquired - b) * Token \in Int /\ p * (Ticks + updated - s) \in Int
          /\ (now - updated) * EffectiveRate \in Int /\ p * (now - updated) \in Int
      BY <1>2, <2>1
    <3> HIDE DEF p, b
    <3>7. (acquired - b) * Token + Refilled <= p * (Ticks + now - s)
      BY <1>2, <2>1, <3>1, <3>2, <3>3, <3>4, <3>5, <3>6
    <3> QED
      BY <2>1, <2>2, <3>7 DEF p, b
  <2>4. CASE s > updated
    <3>1. acquired = b
      BY <2>1, <2>4 DEF Accounted
    <3>2. EffectiveRate * Ticks <= p * Ticks /\ p * Ticks <= p * (Ticks + now - s)
      <4>1. Ticks + now - s \in Nat /\ Ticks <= Ticks + now - s
        BY <2>1
      <4> QED
        BY <2>1, <4>1, ProductGrows
    <3>3. Refilled <= EffectiveRate * Ticks
      BY EffectiveType
    <3>4. (acquired - b) * Token = 0
      BY <1>2, <2>1, <3>1
    <3>5. EffectiveRate * Ticks \in Int /\ p * Ticks \in Int /\ p * (Ticks + now - s) \in Int
      BY <2>1
    <3> HIDE DEF p, b
    <3>6. (acquired - b) * Token + Refilled <= p * (Ticks + now - s)
      BY <1>2, <3>2, <3>3, <3>4, <3>5
    <3> QED
      BY <2>1, <2>2, <3>6 DEF p, b
  <2> QED
    BY <2>1, <2>3, <2>4
<1>4. \A s \in 0 .. now : s <= now
  BY TossLimiterAssumption DEF LimiterTypeOK
<1> QED
  BY <1>1, <1>3, <1>4 DEF Accounted

\* A step that may raise the rate in force, and never adds to the bucket.
LEMMA PeaksKeep ==
  ASSUME LimiterInv, PeaksRise, EffectiveRate' \in Nat, tokens' \in Nat, tokens' <= tokens,
         acquired' = acquired, updated' = updated, now' = now
  PROVE  Accounted' /\ spans' \in [0 .. now -> [before : Nat, peak : Nat]]
<1> USE DEF LimiterInv
<1>1. DOMAIN spans = 0 .. now
  BY DEF LimiterTypeOK
<1>2. ASSUME NEW s \in 0 .. now
      PROVE  /\ spans'[s] \in [before : Nat, peak : Nat] /\ EffectiveRate' <= spans'[s].peak
             /\ spans[s].peak \in Nat /\ spans[s].peak <= spans'[s].peak
             /\ spans'[s].before = spans[s].before
  <2>1. spans[s] \in [before : Nat, peak : Nat]
    BY DEF LimiterTypeOK
  <2>2. spans'[s] = [spans[s] EXCEPT !.peak = Greatest(spans[s].peak, EffectiveRate')]
    BY <1>1 DEF PeaksRise
  <2>3. Greatest(spans[s].peak, EffectiveRate') \in Nat
    BY <2>1 DEF Greatest
  <2>4. /\ spans[s].peak <= Greatest(spans[s].peak, EffectiveRate')
        /\ EffectiveRate' <= Greatest(spans[s].peak, EffectiveRate')
    BY <2>1 DEF Greatest
  <2> HIDE DEF LimiterInv
  <2> QED
    BY <2>1, <2>2, <2>3, <2>4
<1>3. spans' \in [0 .. now -> [before : Nat, peak : Nat]]
  BY <1>1, <1>2 DEF PeaksRise
<1>4. ASSUME NEW s \in 0 .. now, s <= updated
      PROVE  (acquired - spans[s].before) * Token + tokens' <= spans'[s].peak * (Ticks + updated - s)
  <2> DEFINE p == spans[s].peak
             q == spans'[s].peak
             span == Ticks + updated - s
             used == (acquired - spans[s].before) * Token
  <2>1. used + tokens <= p * span
    BY <1>4 DEF Accounted
  <2>2. span \in Nat
    BY <1>4, TossLimiterAssumption DEF LimiterTypeOK
  <2>3. p \in Nat /\ q \in Nat /\ p <= q
    BY <1>2
  <2>4. p * span <= q * span /\ p * span \in Nat /\ q * span \in Nat
    BY <2>2, <2>3, ProductGrows, Products
  <2>5. used \in Int
    <3>1. spans[s].before \in Nat /\ acquired \in Nat /\ Token \in Nat
      BY EffectiveType DEF LimiterTypeOK
    <3> QED
      BY <3>1
  <2>6. tokens \in Nat
    BY DEF LimiterTypeOK
  <2> HIDE DEF p, q, span, used
  <2>7. used + tokens' <= q * span
    BY <2>1, <2>4, <2>5, <2>6
  <2> QED
    BY <2>7 DEF q, span, used
<1>5. \A s \in 0 .. now : ~(s <= updated) => acquired = spans[s].before
  BY DEF Accounted
<1> QED
  BY <1>2, <1>3, <1>4, <1>5 DEF Accounted

LEMMA ObserveKeeps ==
  ASSUME LimiterInv, NEW t \in Senders, NEW limit \in ServerLimits \cup {rate},
         NEW left \in Remaining \cup {Untold}, Observe(t, limit, left)
  PROVE  LimiterInv'
<1> USE DEF LimiterInv
<1>1. limit \in Nat \ {0} /\ limit * Ticks \in Nat
  <2>1. limit \in Nat \ {0}
    BY TossLimiterAssumption DEF LimiterTypeOK
  <2> QED
    BY <2>1, Products, TossLimiterAssumption
<1>2. left # Untold => left * Token \in Nat
  BY EffectiveType, Products, TossLimiterAssumption DEF LimiterTypeOK
<1> DEFINE held == Least(tokens, limit * Ticks)
<1>3. held \in Nat /\ held <= tokens /\ held <= limit * Ticks
  BY <1>1 DEF Least, LimiterTypeOK
<1>4. /\ tokens' \in Nat /\ tokens' <= tokens /\ tokens' <= limit * Ticks
      /\ budget' \in Int
  <2>1. CASE left = Untold
    BY <1>3, <2>1 DEF Observe, LimiterTypeOK
  <2>2. CASE left # Untold
    <3> DEFINE room == left * Token
    <3>1. tokens' = Least(held, room) /\ budget' = (IF budget < 0 THEN budget ELSE Least(budget, room))
      BY <2>2 DEF Observe
    <3>2. tokens \in Nat /\ budget \in Int /\ room \in Nat
      BY <1>2, <2>2 DEF LimiterTypeOK
    <3> HIDE DEF held, room
    <3> QED
      BY <1>1, <1>3, <3>1, <3>2 DEF Least
  <2> QED
    BY <2>1, <2>2
<1>5. /\ rate' = limit /\ inFlight' \subseteq Senders /\ wake' = wake /\ opening' = opening
      /\ now' = now /\ updated' = updated /\ acquired' = acquired /\ PeaksRise
  BY DEF Observe, LimiterTypeOK
<1>6. EffectiveRate' \in Nat
  BY <1>1, <1>5, TossLimiterAssumption DEF EffectiveRate, Least
<1>7. Accounted' /\ spans' \in [0 .. now -> [before : Nat, peak : Nat]]
  BY <1>4, <1>5, <1>6, PeaksKeep
<1>8. LimiterTypeOK'
  BY <1>1, <1>4, <1>5, <1>7 DEF LimiterTypeOK
<1> QED
  BY <1>7, <1>8

LEMMA OpeningKeeps ==
  ASSUME LimiterInv, OpeningChanges
  PROVE  LimiterInv'
<1>1. /\ PeaksRise /\ acquired' = acquired /\ updated' = updated /\ now' = now /\ tokens' = tokens
      /\ rate' = rate /\ opening' \in BOOLEAN /\ inFlight' = inFlight /\ wake' = wake /\ budget' = budget
  BY DEF OpeningChanges, bucket, LimiterInv, LimiterTypeOK
<1>2. EffectiveRate' \in Nat /\ tokens' \in Nat /\ tokens' <= tokens
  BY <1>1, TossLimiterAssumption DEF EffectiveRate, Least, LimiterInv, LimiterTypeOK
<1>3. Accounted' /\ spans' \in [0 .. now -> [before : Nat, peak : Nat]]
  BY <1>1, <1>2, PeaksKeep
<1> QED
  BY <1>1, <1>3 DEF LimiterInv, LimiterTypeOK

LEMMA TickKeeps ==
  ASSUME LimiterInv, LimiterTick
  PROVE  LimiterInv'
<1> USE DEF LimiterInv
<1>1. /\ now \in Nat /\ now' = now + 1 /\ now' \in 0 .. MaxTicks /\ updated' = updated
      /\ updated \in Nat /\ updated <= now
      /\ rate' = rate /\ tokens' = tokens /\ opening' = opening /\ wake' = wake /\ inFlight' = inFlight
      /\ acquired' = acquired /\ EffectiveRate' = EffectiveRate
  BY TossLimiterAssumption DEF LimiterTick, bucket, LimiterTypeOK, EffectiveRate
<1>2. \A s \in 0 .. now + 1 :
        spans'[s] = IF s \in 0 .. now THEN spans[s]
                    ELSE [before |-> acquired, peak |-> EffectiveRate]
  BY DEF LimiterTick
<1>3. spans' \in [0 .. now' -> [before : Nat, peak : Nat]]
  <2>1. /\ \A s \in 0 .. now : spans[s] \in [before : Nat, peak : Nat]
        /\ [before |-> acquired, peak |-> EffectiveRate] \in [before : Nat, peak : Nat]
    BY EffectiveType DEF LimiterTypeOK
  <2> QED
    BY <1>1, <2>1 DEF LimiterTick
<1>4. budget' \in Int
  <2>1. rate * Ticks \in Int /\ budget \in Int /\ rate \in Int
    BY TossLimiterAssumption DEF LimiterTypeOK
  <2> QED
    BY <2>1 DEF LimiterTick, Least
<1>5. LimiterTypeOK'
  BY <1>1, <1>3, <1>4 DEF LimiterTypeOK
<1>6. ASSUME NEW s \in 0 .. now + 1
      PROVE  /\ EffectiveRate <= spans'[s].peak
             /\ IF s <= updated
                THEN (acquired - spans'[s].before) * Token + tokens
                       <= spans'[s].peak * (Ticks + updated - s)
                ELSE acquired = spans'[s].before
  <2>1. CASE s \in 0 .. now
    <3>1. spans'[s] = spans[s]
      BY <1>2, <2>1
    <3> QED
      BY <2>1, <3>1 DEF Accounted
  <2>2. CASE s \notin 0 .. now
    <3>1. ~(s <= updated)
      BY <1>1, <2>2
    <3>2. spans'[s] = [before |-> acquired, peak |-> EffectiveRate]
      BY <1>2, <2>2
    <3> QED
      BY <3>1, <3>2, EffectiveType
  <2> QED
    BY <2>1, <2>2
<1>7. Accounted'
  BY <1>1, <1>6 DEF Accounted
<1> QED
  BY <1>5, <1>7

LEMMA LimiterStep == LimiterInv /\ [LimiterNext]_limiterVars => LimiterInv'
<1> SUFFICES ASSUME LimiterInv, [LimiterNext]_limiterVars PROVE LimiterInv'
  OBVIOUS
<1>1. ASSUME NEW t \in Senders, Acquire(t) PROVE LimiterInv'
  BY <1>1, AcquireType, AcquireAccounted DEF LimiterInv
<1>2. ASSUME NEW t \in Senders, NEW limit \in ServerLimits \cup {rate},
             NEW left \in Remaining \cup {Untold}, Observe(t, limit, left)
      PROVE  LimiterInv'
  BY <1>2, ObserveKeeps
<1>3. CASE UNCHANGED limiterVars
  BY <1>3 DEF limiterVars, bucket, LimiterInv, LimiterTypeOK, Accounted, EffectiveRate
<1> QED
  BY <1>1, <1>2, <1>3, TickKeeps, OpeningKeeps DEF LimiterNext

\* The bucket holds no more than one second of its rate, whatever the server answers.
THEOREM LimiterTypeCorrect == LimiterSpec => []LimiterTypeOK
<1>1. LimiterInv => LimiterTypeOK
  BY DEF LimiterInv
<1> QED
  BY <1>1, LimiterInitInv, LimiterStep, PTL DEF LimiterSpec

\* Since any moment the bucket has let no more requests through than the highest rate in
\* force since then allows, and one second of it (rate_limit.py:52-68).
THEOREM NoBurstCorrect == LimiterSpec => []NoBurst
<1>1. LimiterInv => NoBurst
  <2> SUFFICES ASSUME LimiterInv, NEW s \in 0 .. now
               PROVE  (acquired - spans[s].before) * Token <= spans[s].peak * (Ticks + now - s)
    BY DEF NoBurst
  <2> DEFINE p == spans[s].peak
             used == (acquired - spans[s].before) * Token
  <2>1. /\ spans[s].before \in Nat /\ p \in Nat /\ acquired \in Nat /\ Token \in Nat /\ tokens \in Nat
    BY EffectiveType DEF LimiterInv, LimiterTypeOK
  <2>2. now \in Nat /\ s \in Nat /\ s <= now /\ updated \in Nat /\ updated <= now /\ Ticks \in Nat
    BY TossLimiterAssumption DEF LimiterInv, LimiterTypeOK
  <2>3. CASE s <= updated
    <3>1. used + tokens <= p * (Ticks + updated - s)
      BY <2>3 DEF LimiterInv, Accounted
    <3>2. p * (Ticks + updated - s) <= p * (Ticks + now - s)
      BY <2>1, <2>2, <2>3, ProductGrows
    <3>3. used \in Int /\ p * (Ticks + updated - s) \in Int /\ p * (Ticks + now - s) \in Int
      BY <2>1, <2>2
    <3> HIDE DEF p, used
    <3>4. used <= p * (Ticks + now - s)
      BY <2>1, <3>1, <3>2, <3>3
    <3> QED
      BY <3>4 DEF p, used
  <2>4. CASE ~(s <= updated)
    <3>1. used = 0
      <4>1. acquired = spans[s].before
        BY <2>4 DEF LimiterInv, Accounted
      <4> QED
        BY <2>1, <4>1
    <3>2. p * (Ticks + now - s) \in Nat
      BY <2>1, <2>2, Products
    <3> QED
      BY <3>1, <3>2
  <2> QED
    BY <2>3, <2>4
<1> QED
  BY <1>1, LimiterInitInv, LimiterStep, PTL DEF LimiterSpec
=============================================================================
