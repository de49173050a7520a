--------------------------- MODULE StreamingQuotes ---------------------------
(***************************************************************************)
(* The KIS streaming path of the realtime service in one API process:      *)
(* browser WebSockets (websocket/routes.py), StreamingRealtimeQuoteHub      *)
(* (realtime/hub.py) and KISStreamingQuoteSource (realtime/kis.py).         *)
(*                                                                         *)
(* Everything runs on one asyncio loop, so the code between two awaits     *)
(* that suspend is one action.  Neither the hub's nor the source's lock is *)
(* held across a suspension and the action queue is unbounded, so          *)
(* acquiring a lock and putting into the queue never suspend: a whole      *)
(* critical section, with the put that follows it, is one step.            *)
(***************************************************************************)
EXTENDS Integers, Sequences, FiniteSets, Functions

CONSTANTS
  Clients,         \* browser connections, each reused after it has ended
  Symbols,         \* stock symbols
  NoSymbol,        \* the symbol of a client that is not connected
  MaxConnections,  \* hub: REALTIME_MAX_CONNECTIONS
  MaxSymbols,      \* hub: min(REALTIME_MAX_SYMBOLS, 40)
  SourceLimit,     \* kis.py: the 40 subscriptions the source accepts
  MaxFaults,       \* bound: external failures in one behaviour
  MaxQueued        \* bound: no browser connects while more actions wait

ASSUME ClientsAssumption == IsFiniteSet(Clients)
ASSUME SymbolsAssumption == IsFiniteSet(Symbols) /\ NoSymbol \notin Symbols
ASSUME LimitsAssumption ==
  /\ MaxConnections \in Nat \ {0}
  /\ MaxSymbols \in Nat \ {0}
  /\ SourceLimit \in Nat \ {0}
  /\ MaxFaults \in Nat
  /\ MaxQueued \in Nat
\* factory.py passes min(realtime_max_symbols, 40) to the hub.
ASSUME FactoryAssumption == MaxSymbols <= SourceLimit

VARIABLES
  phase,          \* where the handler of each client is in hub.stream()
  sym,            \* the symbol it asked for
  alive,          \* is the browser still there?
  registered,     \* hub._subscriptions, 0 for an absent symbol
  subscriptions,  \* source._subscriptions
  hasSubs,        \* source._has_subscriptions (an asyncio.Event)
  actions,        \* source._actions (an unbounded asyncio.Queue)
  connection,     \* source._connection: none, open, or held but dead
  run,            \* where the source's _run task is
  replay,         \* snapshot of subscriptions _run has still to send
  upstream,       \* symbols the KIS server streams on this connection
  rejected,       \* symbols whose last message here the KIS server rejected
  faults          \* external failures so far

clientVars == <<phase, sym, alive>>
sourceVars == <<subscriptions, hasSubs, actions>>
linkVars   == <<connection, run, replay, upstream, rejected>>
vars == <<phase, sym, alive, registered, subscriptions, hasSubs,
          actions, connection, run, replay, upstream, rejected, faults>>

Phases == {"idle", "resolving", "streaming", "finalizing"}
RunStates == {"waiting", "connecting", "replaying", "live", "backoff", "stopped"}
Action == [type : {"1", "2"}, symbol : Symbols]

TypeOK ==
  /\ phase \in [Clients -> Phases]
  /\ sym \in [Clients -> Symbols \cup {NoSymbol}]
  /\ \A c \in Clients : phase[c] = "idle" <=> sym[c] = NoSymbol
  /\ alive \in [Clients -> BOOLEAN]
  /\ registered \in [Symbols -> Nat]
  /\ subscriptions \in SUBSET Symbols
  /\ hasSubs \in BOOLEAN
  /\ actions \in Seq(Action)
  /\ connection \in {"none", "open", "closed"}
  /\ run \in RunStates
  /\ replay \in SUBSET Symbols
  /\ upstream \in SUBSET Symbols
  /\ rejected \in SUBSET Symbols
  /\ faults \in 0..MaxFaults

Init ==
  /\ phase = [c \in Clients |-> "idle"]
  /\ sym = [c \in Clients |-> NoSymbol]
  /\ alive = [c \in Clients |-> FALSE]
  /\ registered = [s \in Symbols |-> 0]
  /\ subscriptions = {}
  /\ hasSubs = FALSE
  /\ actions = <<>>
  /\ connection = "none"
  /\ run = "waiting"
  /\ replay = {}
  /\ upstream = {}
  /\ rejected = {}
  /\ faults = 0

Fault == faults < MaxFaults /\ faults' = faults + 1

------------------------------------------------------------------------------
(***************************************************************************)
(* The source's two operations, as updates of its state.                   *)
(***************************************************************************)

\* kis.py subscribe: the locked section and the put after it.
SourceSubscribe(s) ==
  IF s \in subscriptions
    THEN UNCHANGED sourceVars
    ELSE /\ subscriptions' = subscriptions \cup {s}
         /\ hasSubs' = TRUE
         /\ actions' = IF connection # "none"
                         THEN Append(actions, [type |-> "1", symbol |-> s])
                         ELSE actions

\* Mutant: unsubscribe clears the event whatever is left, and never closes.
UnsubscribeClearsEvent(s) ==
  /\ subscriptions' = subscriptions \ {s}
  /\ hasSubs' = FALSE
  /\ actions' = IF s \in subscriptions /\ connection # "none"
                  THEN Append(actions, [type |-> "2", symbol |-> s])
                  ELSE actions
  /\ UNCHANGED linkVars

\* Mutant: unsubscribe tells KIS nothing.
UnsubscribeSilently(s) ==
  /\ subscriptions' = subscriptions \ {s}
  /\ hasSubs' = (hasSubs /\ subscriptions # {s})
  /\ UNCHANGED actions /\ UNCHANGED linkVars

\* kis.py unsubscribe: the locked section, the put, and the close that an
\* empty subscription set triggers.  close() itself suspends, but nothing
\* of the source's state is written after it.
SourceUnsubscribe(s) ==
  LET left == subscriptions \ {s}
      close == left = {} /\ connection # "none"
  IN /\ subscriptions' = left
     /\ hasSubs' = (hasSubs /\ left # {})
     /\ actions' = IF s \in subscriptions /\ connection # "none"
                     THEN Append(actions, [type |-> "2", symbol |-> s])
                     ELSE actions
     /\ connection' = IF close THEN "closed" ELSE connection
     /\ upstream' = IF close THEN {} ELSE upstream
     /\ rejected' = IF close THEN {} ELSE rejected
     /\ UNCHANGED <<run, replay>>

------------------------------------------------------------------------------
(***************************************************************************)
(* Browser connections.                                                    *)
(***************************************************************************)

Total == FoldFunction(LAMBDA a, b : a + b, 0, registered)
ActiveSymbols == {s \in Symbols : registered[s] > 0}

\* hub._register admits: a request over either limit raises
\* RealtimeCapacityError and changes nothing.
HasCapacity(s) ==
  /\ Total < MaxConnections
  /\ registered[s] = 0 => Cardinality(ActiveSymbols) < MaxSymbols

\* hub.stream up to its first suspension.  Only the first subscriber goes on
\* to source.subscribe, whose stock lookup runs in a thread.
Register(c, s) ==
  /\ phase[c] = "idle"
  /\ Len(actions) <= MaxQueued
  /\ HasCapacity(s)
  /\ phase' = [phase EXCEPT ![c] =
                 IF registered[s] = 0 THEN "resolving" ELSE "streaming"]
  /\ sym' = [sym EXCEPT ![c] = s]
  /\ alive' = [alive EXCEPT ![c] = TRUE]
  /\ registered' = [registered EXCEPT ![s] = @ + 1]
  /\ UNCHANGED faults
  /\ UNCHANGED sourceVars /\ UNCHANGED linkVars

\* Mutant: an error path and the finalizer both run the finally block.
UnregisterTwice(c) ==
  LET s == sym[c]
      again == phase[c] = "streaming"
  IN /\ phase' = [phase EXCEPT ![c] = IF again THEN "finalizing" ELSE "idle"]
     /\ alive' = [alive EXCEPT ![c] = FALSE]
     /\ sym' = [sym EXCEPT ![c] = IF again THEN s ELSE NoSymbol]
     /\ registered' = [registered EXCEPT ![s] = @ - 1]
     /\ UNCHANGED sourceVars /\ UNCHANGED linkVars

\* The finally block of hub.stream: _unregister, then source.unsubscribe
\* for the last subscriber.  No suspension lies between the two.
Unregister(c) ==
  LET s == sym[c]
  IN /\ phase' = [phase EXCEPT ![c] = "idle"]
     /\ alive' = [alive EXCEPT ![c] = FALSE]
     /\ sym' = [sym EXCEPT ![c] = NoSymbol]
     /\ IF registered[s] <= 1
          THEN /\ registered' = [registered EXCEPT ![s] = 0]
               /\ SourceUnsubscribe(s)
          ELSE /\ registered' = [registered EXCEPT ![s] = @ - 1]
               /\ UNCHANGED sourceVars /\ UNCHANGED linkVars

\* The stock lookup answers: source.subscribe adds the symbol, or, when the
\* source is full, raises ProviderValidationError, which ends the stream.
Subscribe(c) ==
  /\ phase[c] = "resolving"
  /\ IF sym[c] \notin subscriptions /\ Cardinality(subscriptions) >= SourceLimit
       THEN Unregister(c)
       ELSE /\ SourceSubscribe(sym[c])
            /\ phase' = [phase EXCEPT ![c] = "streaming"]
            /\ UNCHANGED <<sym, alive, registered>>
            /\ UNCHANGED linkVars
  /\ UNCHANGED faults

\* The stock lookup fails, or the stock is of a market KIS does not stream.
ResolveFails(c) ==
  /\ phase[c] = "resolving"
  /\ Fault
  /\ Unregister(c)

\* The bus fails under hub.stream (get_cached or listen raises).
StreamFails(c) ==
  /\ phase[c] = "streaming"
  /\ Fault
  /\ Unregister(c)

\* The browser goes away.  The handler only ever sends, so nothing on the
\* server notices before the next message.
Disconnect(c) ==
  /\ phase[c] \in {"resolving", "streaming"}
  /\ alive[c]
  /\ alive' = [alive EXCEPT ![c] = FALSE]
  /\ UNCHANGED <<phase, sym, registered, faults>>
  /\ UNCHANGED sourceVars /\ UNCHANGED linkVars

\* A message on the bus (a trade the source received and hub._on_quote
\* published, the cached one, or one of another process on the same Redis) is
\* sent to a browser.  To one that is there this changes nothing; to one that
\* is gone it raises WebSocketDisconnect in the route, outside the generator,
\* whose finally block is left to the loop's async-generator finalizer.
SendToGone(c) ==
  /\ phase[c] = "streaming"
  /\ ~alive[c]
  /\ phase' = [phase EXCEPT ![c] = "finalizing"]
  /\ UNCHANGED <<sym, alive, registered, faults>>
  /\ UNCHANGED sourceVars /\ UNCHANGED linkVars

Finalize(c) ==
  /\ phase[c] = "finalizing"
  /\ Unregister(c)
  /\ UNCHANGED faults

------------------------------------------------------------------------------
(***************************************************************************)
(* The source's _run task and its receiver and sender.                     *)
(***************************************************************************)

\* has_subscriptions.wait() returns; approval key and connect follow.
Wake ==
  /\ run = "waiting"
  /\ hasSubs
  /\ run' = "connecting"
  /\ UNCHANGED clientVars /\ UNCHANGED sourceVars
  /\ UNCHANGED <<registered, connection, replay, upstream, rejected, faults>>

\* The approval request or the connect fails; _connection was never set.
ConnectFails ==
  /\ run = "connecting"
  /\ Fault
  /\ run' = "backoff"
  /\ UNCHANGED clientVars /\ UNCHANGED sourceVars
  /\ UNCHANGED <<registered, connection, replay, upstream, rejected>>

\* Mutant: the actions queued for the previous connection are kept.
ConnectedWithoutDrain ==
  /\ run = "connecting"
  /\ run' = "replaying"
  /\ connection' = "open"
  /\ replay' = subscriptions
  /\ upstream' = {} /\ rejected' = {}
  /\ UNCHANGED clientVars /\ UNCHANGED sourceVars
  /\ UNCHANGED <<registered, faults>>

\* The connection is published, the subscriptions are copied and the stale
\* actions are drained, all without a suspension.
Connected ==
  /\ run = "connecting"
  /\ run' = "replaying"
  /\ connection' = "open"
  /\ replay' = subscriptions
  /\ actions' = <<>>
  /\ upstream' = {} /\ rejected' = {}
  /\ UNCHANGED clientVars
  /\ UNCHANGED <<registered, subscriptions, hasSubs, faults>>

\* One message to KIS, which follows it or rejects it.  The answer to a
\* rejected one (rt_cd other than 0) is only logged: nothing of the source
\* changes and the message is not sent again.
Send(type, s) ==
  \/ /\ upstream' = IF type = "1" THEN upstream \cup {s} ELSE upstream \ {s}
     /\ rejected' = rejected \ {s}
  \/ /\ rejected' = rejected \cup {s}
     /\ UNCHANGED upstream

\* _run sends one subscription of its snapshot.
Replay(s) ==
  /\ run = "replaying"
  /\ connection = "open"
  /\ s \in replay
  /\ replay' = replay \ {s}
  /\ Send("1", s)
  /\ UNCHANGED clientVars /\ UNCHANGED sourceVars
  /\ UNCHANGED <<registered, connection, run, faults>>

\* The snapshot is sent: the receiver and sender tasks start.
Replayed ==
  /\ run = "replaying"
  /\ connection = "open"
  /\ replay = {}
  /\ run' = "live"
  /\ UNCHANGED clientVars /\ UNCHANGED sourceVars
  /\ UNCHANGED <<registered, connection, replay, upstream, rejected, faults>>

\* _send_actions takes the oldest action and sends it.
SendAction ==
  /\ run = "live"
  /\ connection = "open"
  /\ actions # <<>>
  /\ actions' = Tail(actions)
  /\ Send(Head(actions).type, Head(actions).symbol)
  /\ UNCHANGED clientVars
  /\ UNCHANGED <<registered, subscriptions, hasSubs, connection, run, replay, faults>>

\* KIS closes the connection, or a malformed frame makes the receiver raise.
Drop ==
  /\ connection = "open"
  /\ Fault
  /\ connection' = "closed"
  /\ upstream' = {} /\ rejected' = {}
  /\ UNCHANGED clientVars /\ UNCHANGED sourceVars
  /\ UNCHANGED <<registered, run, replay>>

\* _run notices the dead connection: a send or one of the two tasks raised.
\* The sender may have taken an action with it.  _connection stays set
\* during the backoff sleep, because finally runs after it.
Broken ==
  /\ run \in {"replaying", "live"}
  /\ connection = "closed"
  /\ run' = "backoff"
  /\ replay' = {}
  /\ \/ UNCHANGED actions
     \/ /\ run = "live" /\ actions # <<>>
        /\ actions' = Tail(actions)
  /\ UNCHANGED clientVars
  /\ UNCHANGED <<registered, subscriptions, hasSubs, connection, upstream, rejected, faults>>

\* The backoff ends; finally forgets the connection.
Retry ==
  /\ run = "backoff"
  /\ run' = "waiting"
  /\ connection' = "none"
  /\ UNCHANGED clientVars /\ UNCHANGED sourceVars
  /\ UNCHANGED <<registered, replay, upstream, rejected, faults>>

\* source.stop at shutdown: the task is cancelled and the connection closed.
Stop ==
  /\ run # "stopped"
  /\ run' = "stopped"
  /\ connection' = "none"
  /\ replay' = {}
  /\ upstream' = {} /\ rejected' = {}
  /\ UNCHANGED clientVars /\ UNCHANGED sourceVars
  /\ UNCHANGED <<registered, faults>>

------------------------------------------------------------------------------
Browser ==
  \/ \E c \in Clients, s \in Symbols : Register(c, s)
  \/ \E c \in Clients : ResolveFails(c)
  \/ \E c \in Clients : StreamFails(c)
  \/ \E c \in Clients : Disconnect(c)
  \/ \E c \in Clients : SendToGone(c)

Handler(c) == Subscribe(c) \/ Finalize(c)

RunTask ==
  \/ Wake
  \/ Connected
  \/ \E s \in Symbols : Replay(s)
  \/ Replayed
  \/ Broken
  \/ Retry

Next ==
  \/ Browser
  \/ \E c \in Clients : Handler(c)
  \/ RunTask
  \/ SendAction
  \/ ConnectFails
  \/ Drop
  \/ Stop

\* The loop keeps running its tasks: a handler, _run and the sender each take
\* their next step once it stays possible.  The lookup and the connect answer
\* or fail because both have timeouts.  Browsers, KIS and failures owe nothing.
Fairness ==
  /\ \A c \in Clients : WF_vars(Handler(c))
  /\ WF_vars(RunTask)
  /\ WF_vars(SendAction)

Spec == Init /\ [][Next]_vars
FairSpec == Spec /\ Fairness

------------------------------------------------------------------------------
(***************************************************************************)
(* Properties.                                                             *)
(***************************************************************************)

ClientsOn(s) == {c \in Clients : phase[c] # "idle" /\ sym[c] = s}

\* The hub's counter of a symbol is the number of handlers that still have to
\* run their finally block for it: no path through stream() (lookup failure,
\* bus failure, late finalization) leaks or double-frees a slot.
CountsAreHandlers ==
  \A s \in Symbols : registered[s] = Cardinality(ClientsOn(s))

\* The source holds a symbol only while some browser handler holds it: the
\* last one to leave, whoever it is, releases it.
SourceWithinHub == subscriptions \subseteq ActiveSymbols

\* The source's own limit of 40 never refuses a subscription that the hub has
\* admitted, although the two count at different times (hub.py:242, kis.py:243).
NeverRefusedBySource ==
  \A c \in Clients : phase[c] = "resolving" =>
    sym[c] \notin subscriptions /\ Cardinality(subscriptions) < SourceLimit

\* Whenever the queue and the replay have been sent on an open connection, KIS
\* streams exactly the source's subscriptions, whatever was subscribed and
\* unsubscribed before, during and after the replay; except for the symbols
\* whose last message on this connection it rejected, which the source leaves
\* as they are (kis.py:393-400).
UpstreamAgrees ==
  connection = "open" /\ replay = {} /\ actions = <<>>
    => upstream \ rejected = subscriptions \ rejected

\* What makes UpstreamAgrees inductive: for each symbol the youngest queued
\* action, or the replay and what is upstream when none is queued, says
\* whether it is subscribed, unless KIS rejected what it was last told.
IntentAgrees ==
  connection = "open" =>
    \A s \in Symbols :
      /\ (\A i \in 1..Len(actions) : actions[i].symbol # s)
           => s \in rejected \/ (s \in subscriptions <=> s \in upstream \cup replay)
      /\ \A i \in 1..Len(actions) :
           /\ actions[i].symbol = s
           /\ \A j \in (i + 1)..Len(actions) : actions[j].symbol # s
           => (s \in subscriptions <=> actions[i].type = "1")

\* Every client that waits for quotes waits for a symbol the source has
\* subscribed, or that its first subscriber is still resolving.
WaitersAreSubscribed ==
  \A c \in Clients : phase[c] = "streaming" =>
    \/ sym[c] \in subscriptions
    \/ \E d \in Clients : phase[d] = "resolving" /\ sym[d] = sym[c]

\* A subscribed symbol gets to KIS, through however many reconnects and
\* however much traffic for other symbols, unless it is released first: in the
\* end KIS streams it, or has rejected it on the connection that is open.
SubscribedReachesUpstream ==
  \A s \in Symbols :
    s \in subscriptions ~>
      (s \in upstream \cup rejected \/ s \notin subscriptions \/ run = "stopped")

\* A symbol nobody holds any more is eventually not streamed, unless KIS
\* rejects the message that releases it.
ReleasedLeavesUpstream ==
  \A s \in Symbols :
    s \notin subscriptions ~> (s \notin upstream \ rejected \/ s \in subscriptions)
=============================================================================
