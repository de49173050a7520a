--------------------------- MODULE PollingQuotes ---------------------------
(* The polling hub of realtime quotes (class RealtimeQuoteHub of             *)
(* app/realtime/hub.py), its bus in memory or on Redis (bus.py), and the     *)
(* WebSocket handlers that stream from it (app/websocket/routes.py), in one  *)
(* process, with other processes on the same Redis.  A quote is the version  *)
(* of the market it was fetched at.                                          *)
EXTENDS Integers, Sequences, FiniteSets

CONSTANTS
  Browsers, Symbols, NoSymbol,
  MaxConnections, MaxSymbols,
  MaxVersion,       \* bound: how often the market moves
  MaxQueued,        \* bound: messages on their way to a handler from Redis
  MaxForeign,       \* bound: what other workers publish on the same Redis
  MaxPollingFaults  \* bound: fetches that fail unexpectedly and publications that are lost

PollingAssumption ==
  /\ IsFiniteSet(Symbols) /\ NoSymbol \notin Symbols
  /\ MaxConnections \in Nat \ {0} /\ MaxSymbols \in Nat \ {0}
  /\ MaxVersion \in Nat \ {0} /\ MaxQueued \in Nat \ {0}
  /\ MaxForeign \in Nat /\ MaxPollingFaults \in Nat

VARIABLES
  bus,            \* "memory" or "redis", as configured; "none" before the hub is started
  pollingMarket,  \* the version of each symbol's quote
  subscriptions,  \* _subscriptions: how many streams each symbol has
  round,          \* what _poll_loop has still to poll
  polled,         \* the symbol of _poll_symbol, and what it is about to publish
  published,      \* Redis: TRUE when the cache is set and the channel not yet told
  foreign,        \* history: how often another worker has published on the same Redis
  cached,         \* the latest message of each symbol, NoMessage if there is none
  stream,         \* where the handler of each browser is
  watched,        \* the symbol of each browser
  queue,          \* the messages on their way to each handler
  pollingSeen,    \* what each browser was sent last
  pollingGone,    \* browsers that have left, which their handler may not know
  pollingFaults

poller == <<round, polled, published, foreign>>
browser == <<stream, watched, queue, pollingSeen, pollingGone>>
pollingVars == <<bus, pollingMarket, subscriptions, poller, cached, browser,
                 pollingFaults>>

NoMessage == 0
Failure == 0 - 1       \* the structured error message of a provider error
NothingPolled == [symbol |-> NoSymbol, message |-> NoMessage]

PollingInit ==
  /\ bus = "none" /\ pollingMarket = [s \in Symbols |-> 1]
  /\ subscriptions = [s \in Symbols |-> 0]
  /\ round = <<>> /\ polled = NothingPolled /\ published = FALSE /\ foreign = 0
  /\ cached = [s \in Symbols |-> NoMessage]
  /\ stream = [b \in Browsers |-> "off"] /\ watched = [b \in Browsers |-> NoSymbol]
  /\ queue = [b \in Browsers |-> <<>>] /\ pollingSeen = [b \in Browsers |-> NoMessage]
  /\ pollingGone = {} /\ pollingFaults = 0

StartHub(kind) ==
  /\ bus = "none" /\ bus' = kind
  /\ UNCHANGED <<pollingMarket, subscriptions, poller, cached, browser, pollingFaults>>

MarketMoves(s) ==
  /\ bus # "none" /\ pollingMarket[s] < MaxVersion
  /\ pollingMarket' = [pollingMarket EXCEPT ![s] = @ + 1]
  /\ UNCHANGED <<bus, subscriptions, poller, cached, browser, pollingFaults>>

-----------------------------------------------------------------------------
(* The poller: one task, one symbol at a time.                               *)

Active == {s \in Symbols : subscriptions[s] > 0}

\* A round takes the active symbols, those with the most streams first.
Orders == {o \in [1 .. Cardinality(Active) -> Active] :
             \A i, j \in DOMAIN o : i < j => o[i] # o[j] /\ subscriptions[o[i]] >= subscriptions[o[j]]}

StartRound ==
  /\ bus # "none" /\ round = <<>> /\ polled = NothingPolled /\ Active # {}
  /\ round' \in Orders
  /\ UNCHANGED <<bus, pollingMarket, subscriptions, polled, published, foreign, cached, browser,
                 pollingFaults>>

\* The quote is the market's when the provider answers, or the message says that it failed.
FetchQuote(message) ==
  /\ round # <<>> /\ polled = NothingPolled
  /\ polled' = [symbol |-> Head(round), message |-> message]
  /\ round' = Tail(round)
  /\ UNCHANGED <<bus, pollingMarket, subscriptions, published, foreign, cached, browser,
                 pollingFaults>>

\* An error that is not the provider's is only logged.
FetchBreaks ==
  /\ round # <<>> /\ polled = NothingPolled /\ pollingFaults < MaxPollingFaults
  /\ pollingFaults' = pollingFaults + 1 /\ round' = Tail(round)
  /\ UNCHANGED <<bus, pollingMarket, subscriptions, polled, published, foreign, cached,
                 browser>>

\* Mutant: a handler listens before it has read the cache.
ListeningEarly(s) == {b \in Browsers : watched[b] = s /\ stream[b] # "off"}

\* The handlers that a message of the symbol reaches
Listening(s) == {b \in Browsers : watched[b] = s /\ stream[b] = "listening"}

\* In memory a queue holds one message, and a newer one takes its place.
Delivered(s, message) ==
  [b \in Browsers |->
     IF b \notin Listening(s) THEN queue[b]
     ELSE IF bus = "memory" THEN <<message>> ELSE Append(queue[b], message)]

PublishInMemory ==
  /\ bus = "memory" /\ polled # NothingPolled
  /\ cached' = [cached EXCEPT ![polled.symbol] = polled.message]
  /\ queue' = Delivered(polled.symbol, polled.message)
  /\ polled' = NothingPolled
  /\ UNCHANGED <<bus, pollingMarket, subscriptions, round, published, foreign, stream, watched,
                 pollingSeen, pollingGone, pollingFaults>>

\* SET and PUBLISH are one pipeline, not one transaction.
SetCache ==
  /\ bus = "redis" /\ polled # NothingPolled /\ ~published
  /\ cached' = [cached EXCEPT ![polled.symbol] = polled.message]
  /\ published' = TRUE
  /\ UNCHANGED <<bus, pollingMarket, subscriptions, round, polled, foreign, browser,
                 pollingFaults>>

TellChannel ==
  /\ published /\ \A b \in Listening(polled.symbol) : Len(queue[b]) < MaxQueued
  /\ queue' = Delivered(polled.symbol, polled.message)
  /\ polled' = NothingPolled /\ published' = FALSE
  /\ UNCHANGED <<bus, pollingMarket, subscriptions, round, foreign, cached, stream, watched,
                 pollingSeen, pollingGone, pollingFaults>>

\* Redis fails the pipeline: _publish logs it and the poller goes on.
PublishFails ==
  /\ bus = "redis" /\ polled # NothingPolled /\ pollingFaults < MaxPollingFaults
  /\ pollingFaults' = pollingFaults + 1
  /\ polled' = NothingPolled /\ published' = FALSE
  /\ UNCHANGED <<bus, pollingMarket, subscriptions, round, foreign, cached, browser>>

\* Cross-process fan-out: the hub of another worker publishes under the same key and on the
\* same channel a quote that it fetched at any time before.
OtherWorkerPublishes(s) ==
  /\ bus = "redis" /\ foreign < MaxForeign
  /\ \A b \in Listening(s) : Len(queue[b]) < MaxQueued
  /\ \E message \in (1 .. pollingMarket[s]) \cup {Failure} :
       cached' = [cached EXCEPT ![s] = message] /\ queue' = Delivered(s, message)
  /\ foreign' = foreign + 1
  /\ UNCHANGED <<bus, pollingMarket, subscriptions, round, polled, published, stream, watched,
                 pollingSeen, pollingGone, pollingFaults>>

CacheExpires(s) ==
  /\ bus = "redis" /\ cached[s] # NoMessage
  /\ cached' = [cached EXCEPT ![s] = NoMessage]
  /\ UNCHANGED <<bus, pollingMarket, subscriptions, poller, browser, pollingFaults>>

-----------------------------------------------------------------------------
(* A handler: validate and register, the cached message, then the bus.       *)

TotalStreams == LET Count[S \in SUBSET Symbols] ==
                      IF S = {} THEN 0
                      ELSE LET s == CHOOSE x \in S : TRUE IN subscriptions[s] + Count[S \ {s}]
                IN Count[Symbols]

HasRoom(s) ==
  /\ TotalStreams < MaxConnections
  /\ subscriptions[s] = 0 => Cardinality(Active) < MaxSymbols

OpenStream(b, s) ==
  /\ bus # "none" /\ stream[b] = "off" /\ b \notin pollingGone
  /\ HasRoom(s)
  /\ subscriptions' = [subscriptions EXCEPT ![s] = @ + 1]
  /\ stream' = [stream EXCEPT ![b] = "registered"] /\ watched' = [watched EXCEPT ![b] = s]
  /\ UNCHANGED <<bus, pollingMarket, poller, cached, queue, pollingSeen, pollingGone,
                 pollingFaults>>

\* A stream ends at the send that fails, and only then leaves its slot.
Unregister(b) ==
  /\ subscriptions' = [subscriptions EXCEPT ![watched[b]] = @ - 1]
  /\ stream' = [stream EXCEPT ![b] = "off"] /\ watched' = [watched EXCEPT ![b] = NoSymbol]
  /\ queue' = [queue EXCEPT ![b] = <<>>] /\ pollingSeen' = [pollingSeen EXCEPT ![b] = NoMessage]
  /\ pollingGone' = pollingGone \ {b}

\* Mutant: the failure of a send is swallowed.
SendAnyway(b, message, next) ==
  /\ pollingSeen' = [pollingSeen EXCEPT ![b] = IF message = Failure THEN @ ELSE message]
  /\ stream' = [stream EXCEPT ![b] = next]
  /\ b \notin pollingGone \/ queue' = [queue EXCEPT ![b] = <<>>]
  /\ UNCHANGED <<subscriptions, watched, pollingGone>>

SendMessage(b, message, next) ==
  IF b \in pollingGone THEN Unregister(b)
  ELSE /\ pollingSeen' = [pollingSeen EXCEPT ![b] = IF message = Failure THEN @ ELSE message]
       /\ stream' = [stream EXCEPT ![b] = next]
       /\ UNCHANGED <<subscriptions, watched, pollingGone>>

GetCached(b) ==
  /\ stream[b] = "registered"
  /\ IF cached[watched[b]] = NoMessage
     THEN stream' = [stream EXCEPT ![b] = "subscribing"] /\ UNCHANGED <<subscriptions, watched, queue, pollingSeen, pollingGone>>
     ELSE SendMessage(b, cached[watched[b]], "subscribing") /\ (b \in pollingGone \/ UNCHANGED queue)
  /\ UNCHANGED <<bus, pollingMarket, poller, cached, pollingFaults>>

Listen(b) ==
  /\ stream[b] = "subscribing"
  /\ stream' = [stream EXCEPT ![b] = "listening"]
  /\ UNCHANGED <<bus, pollingMarket, subscriptions, poller, cached, watched, queue,
                 pollingSeen, pollingGone, pollingFaults>>

ForwardMessage(b) ==
  /\ stream[b] = "listening" /\ queue[b] # <<>>
  /\ SendMessage(b, Head(queue[b]), "listening")
  /\ b \in pollingGone \/ queue' = [queue EXCEPT ![b] = Tail(@)]
  /\ UNCHANGED <<bus, pollingMarket, poller, cached, pollingFaults>>

Leave(b) ==
  /\ stream[b] # "off" /\ b \notin pollingGone
  /\ pollingGone' = pollingGone \cup {b}
  /\ UNCHANGED <<bus, pollingMarket, subscriptions, poller, cached, stream, watched,
                 queue, pollingSeen, pollingFaults>>

-----------------------------------------------------------------------------
Polling ==
  \/ StartRound
  \/ round # <<>> /\ \E message \in {pollingMarket[Head(round)], Failure} : FetchQuote(message)
  \/ FetchBreaks
  \/ PublishInMemory \/ SetCache \/ TellChannel \/ PublishFails

Handling(b) == GetCached(b) \/ Listen(b) \/ ForwardMessage(b)

PollingNext ==
  \/ \E kind \in {"memory", "redis"} : StartHub(kind)
  \/ Polling
  \/ \E b \in Browsers : Handling(b) \/ Leave(b) \/ \E s \in Symbols : OpenStream(b, s)
  \/ \E s \in Symbols : MarketMoves(s) \/ CacheExpires(s) \/ OtherWorkerPublishes(s)

PollingSpec == PollingInit /\ [][PollingNext]_pollingVars

\* The event loop runs the poller and every handler; the provider answers every fetch.
PollingFairness == WF_pollingVars(Polling) /\ \A b \in Browsers : WF_pollingVars(Handling(b))
PollingFairSpec == PollingSpec /\ PollingFairness

-----------------------------------------------------------------------------
PollingTypeOK ==
  /\ bus \in {"none", "memory", "redis"} /\ pollingMarket \in [Symbols -> 1 .. MaxVersion]
  /\ subscriptions \in [Symbols -> 0 .. MaxConnections]
  /\ round \in Seq(Symbols) /\ polled.symbol \in Symbols \cup {NoSymbol} /\ published \in BOOLEAN
  /\ foreign \in 0 .. MaxForeign
  /\ cached \in [Symbols -> Failure .. MaxVersion]
  /\ stream \in [Browsers -> {"off", "registered", "subscribing", "listening"}]
  /\ watched \in [Browsers -> Symbols \cup {NoSymbol}]
  /\ queue \in [Browsers -> Seq(Failure .. MaxVersion)] /\ \A b \in Browsers : Len(queue[b]) <= MaxQueued
  /\ pollingSeen \in [Browsers -> 0 .. MaxVersion] /\ pollingGone \subseteq Browsers /\ pollingFaults \in 0 .. MaxPollingFaults

\* While this process alone publishes, always so on the bus in memory, a browser is never
\* shown a quote older than the one it shows, although the cached quote and the queued ones
\* reach it on two ways and the poller publishes between the steps of its handler
\* (hub.py:88-92, bus.py:21-29, 72-75).  Once another worker has published on the same
\* Redis, nothing orders its quotes and these, and nothing is claimed.
NeverGoesBack ==
  [][foreign' = 0 =>
       \A b \in Browsers : watched'[b] = watched[b] => pollingSeen'[b] >= pollingSeen[b]
    ]_<<pollingSeen, watched, foreign>>

\* The slot of a browser that has left is released: its handler learns of it at the next
\* message, and the poller sends one in every round, an error if there is no quote
\* (websocket/routes.py:49-52, hub.py:126-163).
GoneIsReleased == \A b \in Browsers : b \in pollingGone ~> b \notin pollingGone
=============================================================================
