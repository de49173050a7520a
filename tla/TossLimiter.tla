---------------------------- MODULE TossLimiter ----------------------------
(* The token bucket of one group of Toss requests in one process             *)
(* (app/providers/toss/rate_limit.py): callers that take a token or sleep    *)
(* until there is one, answers of the server that tighten the bucket, and    *)
(* the lower rate of orders in the first ten minutes of trading.             *)
(* Time is counted in ticks, tokens in units of 1/(Ticks * Scale), so that a *)
(* rate of R/Scale tokens a second adds R units a tick.                      *)
EXTENDS Integers

CONSTANTS
  Senders,       \* threads that send requests of the group
  Ticks, Scale,
  Initial,       \* the rate of DEFAULT_GROUP_LIMITS, in tokens a second times Scale
  Opening,       \* the rate while the market opens: 3 for ORDER, none (Initial) for the others
  ServerLimits,  \* what X-RateLimit-Limit can say, likewise, after max(0.1, ...)
  Remaining,     \* what X-RateLimit-Remaining can say, in whole tokens
  MaxTicks        \* bound: the clock, in ticks

Token == Ticks * Scale

ASSUME TossLimiterAssumption ==
  /\ Ticks \in Nat \ {0} /\ Scale \in Nat \ {0}
  /\ Initial \in Nat \ {0} /\ Opening \in Nat \ {0} /\ ServerLimits \subseteq Nat \ {0}
  /\ Remaining \subseteq Nat /\ MaxTicks \in Nat

VARIABLES
  now,
  rate, tokens, updated,   \* the bucket
  opening,                 \* 9:00 to 9:10 in Seoul
  wake,                    \* when each caller's sleep in acquire ends; Awake if it does not sleep
  inFlight,                    \* the callers whose request is on its way
  budget,                  \* history: the units that may still be sent by the last answer
  acquired,                 \* history: how often acquire has returned
  spans                    \* history: for each tick, how often it had returned before, and the
                           \* highest rate in force since

bucket == <<rate, tokens, updated>>
limiterVars == <<now, bucket, opening, wake, inFlight, budget, acquired, spans>>

Awake == 0 - 1
Untold == 0 - 1   \* a header that is missing or no number
Least(a, b) == IF a <= b THEN a ELSE b
Greatest(a, b) == IF a <= b THEN b ELSE a

LimiterInit ==
  /\ now = 0 /\ rate = Initial /\ tokens = Initial * Ticks /\ updated = 0
  /\ opening = FALSE /\ inFlight = {}
  /\ wake = [t \in Senders |-> Awake]
  /\ budget = Initial * Ticks
  /\ acquired = 0 /\ spans = [s \in {0} |-> [before |-> 0, peak |-> Initial]]

EffectiveRate == IF opening THEN Least(rate, Opening) ELSE rate

\* What the bucket holds now, up to one second of its rate
Refilled == Least(EffectiveRate * Ticks, tokens + (now - updated) * EffectiveRate)

\* The sleep until the rest of a token has been added, in whole ticks
Delay == (Token - Refilled + EffectiveRate - 1) \div EffectiveRate

\* The rate in force may have risen.
PeaksRise ==
  spans' = [s \in DOMAIN spans |-> [spans[s] EXCEPT !.peak = Greatest(@, EffectiveRate')]]

\* Mutant: the time of the refill is not kept.
AcquireForgetful(t) ==
  /\ t \notin inFlight /\ wake[t] <= now
  /\ IF Refilled >= Token
     THEN /\ tokens' = Refilled - Token
          /\ budget' = IF budget < 0 THEN budget ELSE budget - Token
          /\ wake' = [wake EXCEPT ![t] = Awake] /\ inFlight' = inFlight \cup {t}
          /\ acquired' = acquired + 1
     ELSE /\ tokens' = Refilled
          /\ wake' = [wake EXCEPT ![t] = now + Delay]
          /\ UNCHANGED <<inFlight, budget, acquired>>
  /\ UNCHANGED <<now, rate, updated, opening, spans>>

\* One turn of the loop of acquire, under the lock; a caller sleeps without it.
Acquire(t) ==
  /\ t \notin inFlight /\ wake[t] <= now
  /\ updated' = now
  /\ IF Refilled >= Token
     THEN /\ tokens' = Refilled - Token
          /\ budget' = IF budget < 0 THEN budget ELSE budget - Token
          /\ wake' = [wake EXCEPT ![t] = Awake] /\ inFlight' = inFlight \cup {t}
          /\ acquired' = acquired + 1
     ELSE /\ tokens' = Refilled
          /\ wake' = [wake EXCEPT ![t] = now + Delay]
          /\ UNCHANGED <<inFlight, budget, acquired>>
  /\ UNCHANGED <<now, rate, opening, spans>>

\* An answer arrives, its headers possibly older than a later answer's; they never add
\* tokens.  Without a limit the rate stays; without either nothing changes, which is also
\* what a request without an answer does.
Observe(t, limit, left) ==
  LET held == Least(tokens, limit * Ticks)
  IN /\ t \in inFlight /\ inFlight' = inFlight \ {t}
     /\ rate' = limit
     /\ IF left = Untold
        THEN tokens' = held /\ UNCHANGED budget
        ELSE /\ tokens' = Least(held, left * Token)
             /\ budget' = IF budget < 0 THEN budget ELSE Least(budget, left * Token)
     /\ UNCHANGED <<now, updated, opening, wake, acquired>>
     /\ PeaksRise

LimiterTick ==
  /\ now < MaxTicks /\ now' = now + 1
  /\ budget' = IF budget < 0 THEN budget ELSE Least(budget + rate, rate * Ticks)
  /\ spans' = [s \in 0 .. now + 1 |->
                 IF s \in 0 .. now THEN spans[s] ELSE [before |-> acquired, peak |-> EffectiveRate]]
  /\ UNCHANGED <<bucket, opening, wake, inFlight, acquired>>

\* The market opens, or has been open for ten minutes.
OpeningChanges ==
  /\ opening' = ~opening
  /\ UNCHANGED <<now, bucket, wake, inFlight, budget, acquired>>
  /\ PeaksRise

LimiterNext ==
  \/ \E t \in Senders :
       \/ Acquire(t)
       \/ \E limit \in ServerLimits \cup {rate}, left \in Remaining \cup {Untold} :
            Observe(t, limit, left)
  \/ LimiterTick
  \/ OpeningChanges

LimiterSpec == LimiterInit /\ [][LimiterNext]_limiterVars

-----------------------------------------------------------------------------
LimiterTypeOK ==
  /\ now \in 0 .. MaxTicks /\ rate \in Nat \ {0} /\ tokens \in Nat /\ updated \in 0 .. now
  /\ tokens <= rate * Ticks
  /\ opening \in BOOLEAN /\ inFlight \subseteq Senders
  /\ wake \in [Senders -> Int]
  /\ budget \in Int
  /\ acquired \in Nat
  /\ spans \in [0 .. now -> [before : Nat, peak : Nat]]

\* Since any moment no more requests are sent than the highest rate in force since then
\* allows, and one second of it at once: however the callers, the answers that move the limit
\* and the opening of the market come between each other, no token is counted twice
\* (rate_limit.py:52-68, 70-87).
NoBurst ==
  \A s \in 0 .. now :
    (acquired - spans[s].before) * Token <= spans[s].peak * (Ticks + now - s)

\* After an answer that said how many requests are left, no more than these are sent, and
\* what the rate has allowed since (rate_limit.py:82-86).
RemainingIsHonoured == budget >= 0
=============================================================================
