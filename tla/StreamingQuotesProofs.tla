------------------------ MODULE StreamingQuotesProofs ------------------------
(***************************************************************************)
(* Proofs about StreamingQuotes, for every set of clients and symbols and  *)
(* every limit that the assumptions of that module allow.                  *)
(***************************************************************************)
EXTENDS StreamingQuotes, FiniteSetTheorems, TLAPS

\* What the queue operations of the source do to its type.
LEMMA QueueType ==
  ASSUME NEW q \in Seq(Action)
  PROVE  /\ \A t \in {"1", "2"}, s \in Symbols :
              Append(q, [type |-> t, symbol |-> s]) \in Seq(Action)
         /\ q # <<>> => Tail(q) \in Seq(Action)
         /\ q # <<>> => Head(q) \in Action
<1>1. \A t \in {"1", "2"}, s \in Symbols : [type |-> t, symbol |-> s] \in Action
  BY DEF Action
<1> HIDE DEF Action
<1> QED
  BY <1>1

(***************************************************************************)
(* Type correctness.                                                       *)
(***************************************************************************)

\* The finally block of hub.stream keeps every variable in its type.
LEMMA UnregisterType ==
  ASSUME TypeOK, NEW c \in Clients, Unregister(c), faults' \in 0..MaxFaults
  PROVE  TypeOK'
<1>1. /\ phase' \in [Clients -> Phases]
      /\ sym' \in [Clients -> Symbols \cup {NoSymbol}]
      /\ \A d \in Clients : phase'[d] = "idle" <=> sym'[d] = NoSymbol
      /\ alive' \in [Clients -> BOOLEAN]
  BY DEF TypeOK, Unregister, Phases
<1>2. CASE registered[sym[c]] <= 1
  <2>1. registered' \in [Symbols -> Nat]
    BY <1>2 DEF TypeOK, Unregister
  <2>2. actions' \in Seq(Action)
    <3>1. CASE sym[c] \in subscriptions /\ connection # "none"
      <4>1. sym[c] \in Symbols /\ actions \in Seq(Action)
        BY <3>1 DEF TypeOK
      <4>2. Append(actions, [type |-> "2", symbol |-> sym[c]]) \in Seq(Action)
        BY <4>1, QueueType
      <4> QED
        BY <1>2, <3>1, <4>2 DEF Unregister, SourceUnsubscribe
    <3>2. CASE ~(sym[c] \in subscriptions /\ connection # "none")
      BY <1>2, <3>2 DEF TypeOK, Unregister, SourceUnsubscribe
    <3> QED
      BY <3>1, <3>2
  <2>3. /\ subscriptions' \in SUBSET Symbols
        /\ hasSubs' \in BOOLEAN
        /\ connection' \in {"none", "open", "closed"}
        /\ run' \in RunStates
        /\ replay' \in SUBSET Symbols
        /\ upstream' \in SUBSET Symbols
        /\ rejected' \in SUBSET Symbols
    BY <1>2 DEF TypeOK, Unregister, SourceUnsubscribe
  <2> QED
    BY <1>1, <2>1, <2>2, <2>3 DEF TypeOK
<1>3. CASE ~(registered[sym[c]] <= 1)
  <2>1. registered' \in [Symbols -> Nat]
    BY <1>3 DEF TypeOK, Unregister
  <2> QED
    BY <1>1, <1>3, <2>1 DEF TypeOK, Unregister, sourceVars, linkVars
<1> QED
  BY <1>2, <1>3

LEMMA TypeInit == Init => TypeOK
<1> SUFFICES ASSUME Init PROVE TypeOK
  OBVIOUS
<1>1. actions \in Seq(Action) /\ faults \in 0..MaxFaults
  BY LimitsAssumption DEF Init
<1> QED
  BY <1>1 DEF Init, TypeOK, Phases, RunStates

LEMMA TypeStep == TypeOK /\ [Next]_vars => TypeOK'
<1> SUFFICES ASSUME TypeOK, [Next]_vars PROVE TypeOK'
  OBVIOUS
<1> USE LimitsAssumption DEF TypeOK, Phases, RunStates
<1>1. ASSUME NEW c \in Clients, NEW s \in Symbols, Register(c, s)
      PROVE  TypeOK'
  <2>1. s # NoSymbol
    BY SymbolsAssumption
  <2>2. /\ phase' \in [Clients -> Phases]
        /\ sym' = [sym EXCEPT ![c] = s]
        /\ \A d \in Clients : phase'[d] = "idle" <=> sym'[d] = NoSymbol
    BY <1>1, <2>1 DEF Register
  <2> QED
    BY <1>1, <2>2 DEF Register, sourceVars, linkVars
<1>2. ASSUME NEW c \in Clients, ResolveFails(c) \/ StreamFails(c)
      PROVE  TypeOK'
  BY <1>2, UnregisterType DEF ResolveFails, StreamFails, Fault
<1>3. ASSUME NEW c \in Clients, Disconnect(c) \/ SendToGone(c)
      PROVE  TypeOK'
  BY <1>3 DEF Disconnect, SendToGone, sourceVars, linkVars
<1>4. ASSUME NEW c \in Clients, Subscribe(c)
      PROVE  TypeOK'
  <2>1. CASE sym[c] \notin subscriptions /\ Cardinality(subscriptions) >= SourceLimit
    BY <1>4, <2>1, UnregisterType DEF Subscribe
  <2>2. CASE ~(sym[c] \notin subscriptions /\ Cardinality(subscriptions) >= SourceLimit)
    <3>1. sym[c] \in Symbols
      BY <1>4 DEF Subscribe
    <3>2. Append(actions, [type |-> "1", symbol |-> sym[c]]) \in Seq(Action)
      BY <3>1, QueueType
    <3>3. SourceSubscribe(sym[c]) /\ phase' = [phase EXCEPT ![c] = "streaming"]
          /\ UNCHANGED <<sym, alive, registered, faults>> /\ UNCHANGED linkVars
      BY <1>4, <2>2 DEF Subscribe
    <3>4. actions' \in Seq(Action)
      BY <3>2, <3>3 DEF SourceSubscribe, sourceVars
    <3>5. subscriptions' \in SUBSET Symbols /\ hasSubs' \in BOOLEAN
      BY <3>1, <3>3 DEF SourceSubscribe, sourceVars
    <3> QED
      BY <1>4, <3>1, <3>3, <3>4, <3>5 DEF Subscribe, linkVars
  <2> QED
    BY <2>1, <2>2
<1>5. ASSUME NEW c \in Clients, Finalize(c)
      PROVE  TypeOK'
  BY <1>5, UnregisterType DEF Finalize
<1>6. CASE RunTask
  <2>1. CASE Broken
    BY <2>1, QueueType DEF Broken, clientVars
  <2>2. CASE Connected
    BY <2>2 DEF Connected, clientVars
  <2> QED
    BY <1>6, <2>1, <2>2 DEF RunTask, Wake, Replay, Send, Replayed, Retry,
                            clientVars, sourceVars
<1>7. CASE SendAction
  BY <1>7, QueueType DEF SendAction, Send, clientVars, Action
<1>8. CASE ConnectFails \/ Drop \/ Stop
  BY <1>8 DEF ConnectFails, Drop, Stop, Fault, clientVars, sourceVars
<1>9. CASE UNCHANGED vars
  BY <1>9 DEF vars
<1> QED
  BY <1>1, <1>2, <1>3, <1>4, <1>5, <1>6, <1>7, <1>8, <1>9
     DEF Next, Browser, Handler

\* Every variable keeps its type in every behaviour of the streaming path.
THEOREM TypeCorrect == Spec => []TypeOK
  BY TypeInit, TypeStep, PTL DEF Spec

------------------------------------------------------------------------------
(***************************************************************************)
(* The upstream agrees with the subscriptions once everything is sent.     *)
(***************************************************************************)

\* IntentAgrees of an arbitrary queue q, subscription set in, set up of what is
\* upstream or will be once the replay is over, and set out of what KIS rejected.
Agrees(q, in, up, out) ==
  \A s \in Symbols :
    /\ (\A i \in 1..Len(q) : q[i].symbol # s) => s \in out \/ (s \in in <=> s \in up)
    /\ \A i \in 1..Len(q) :
         /\ q[i].symbol = s
         /\ \A j \in (i + 1)..Len(q) : q[j].symbol # s
         => (s \in in <=> q[i].type = "1")

\* Queueing the action that goes with a change of the subscriptions keeps the
\* two in agreement.
LEMMA AgreesAppend ==
  ASSUME NEW q \in Seq(Action), NEW in, NEW up, NEW out, Agrees(q, in, up, out),
         NEW s \in Symbols, NEW t \in {"1", "2"}, NEW new,
         \A r \in Symbols \ {s} : r \in new <=> r \in in,
         s \in new <=> t = "1"
  PROVE  Agrees(Append(q, [type |-> t, symbol |-> s]), new, up, out)
<1> DEFINE a == [type |-> t, symbol |-> s]
           p == Append(q, a)
<1>1. /\ Len(p) = Len(q) + 1 /\ Len(q) \in Nat
      /\ p[Len(q) + 1] = a
      /\ \A i \in 1..Len(q) : p[i] = q[i]
  OBVIOUS
<1>2. a.symbol = s /\ a.type = t
  OBVIOUS
<1> HIDE DEF p, a
<1> SUFFICES ASSUME NEW r \in Symbols
    PROVE /\ (\A i \in 1..Len(p) : p[i].symbol # r) => r \in out \/ (r \in new <=> r \in up)
          /\ \A i \in 1..Len(p) :
               /\ p[i].symbol = r
               /\ \A j \in (i + 1)..Len(p) : p[j].symbol # r
               => (r \in new <=> p[i].type = "1")
  BY DEF Agrees, p, a
<1>3. CASE r = s
  <2>1. p[Len(p)].symbol = r /\ Len(p) \in 1..Len(p)
    BY <1>1, <1>2, <1>3
  <2>2. ASSUME NEW i \in 1..Len(p), p[i].symbol = r,
               \A j \in (i + 1)..Len(p) : p[j].symbol # r
        PROVE  r \in new <=> p[i].type = "1"
    <3>1. i = Len(p)
      BY <1>1, <2>1, <2>2
    <3> QED
      BY <1>1, <1>2, <1>3, <3>1
  <2> QED
    BY <2>1, <2>2
<1>4. CASE r # s
  <2>1. (\A i \in 1..Len(p) : p[i].symbol # r) => r \in out \/ (r \in new <=> r \in up)
    BY <1>1, <1>4 DEF Agrees
  <2>2. ASSUME NEW i \in 1..Len(p), p[i].symbol = r,
               \A j \in (i + 1)..Len(p) : p[j].symbol # r
        PROVE  r \in new <=> p[i].type = "1"
    <3>1. i \in 1..Len(q)
      BY <1>1, <1>2, <1>4, <2>2
    <3>2. q[i].symbol = r /\ \A j \in (i + 1)..Len(q) : q[j].symbol # r
      BY <1>1, <2>2, <3>1
    <3>3. r \in in <=> q[i].type = "1"
      BY <3>1, <3>2 DEF Agrees
    <3> QED
      BY <1>1, <1>4, <3>1, <3>3
  <2> QED
    BY <2>1, <2>2
<1> QED
  BY <1>3, <1>4

\* Sending the oldest action keeps the agreement.
LEMMA AgreesTail ==
  ASSUME NEW q \in Seq(Action), q # <<>>, NEW in, NEW up, NEW out,
         Agrees(q, in, up, out), NEW new, NEW refused,
         \/ /\ new = IF Head(q).type = "1" THEN up \cup {Head(q).symbol}
                                           ELSE up \ {Head(q).symbol}
            /\ refused = out \ {Head(q).symbol}
         \/ new = up /\ refused = out \cup {Head(q).symbol}
  PROVE  Agrees(Tail(q), in, new, refused)
<1> DEFINE p == Tail(q)
<1>1. /\ Len(p) = Len(q) - 1 /\ Len(p) \in Nat /\ Len(q) \in Nat \ {0}
      /\ \A i \in 1..Len(p) : p[i] = q[i + 1]
      /\ Head(q) = q[1]
  OBVIOUS
<1> HIDE DEF p
<1> SUFFICES ASSUME NEW r \in Symbols
    PROVE /\ (\A i \in 1..Len(p) : p[i].symbol # r) => r \in refused \/ (r \in in <=> r \in new)
          /\ \A i \in 1..Len(p) :
               /\ p[i].symbol = r
               /\ \A j \in (i + 1)..Len(p) : p[j].symbol # r
               => (r \in in <=> p[i].type = "1")
  BY DEF Agrees, p
<1>2. \A j \in 2..Len(q) : q[j] = p[j - 1] /\ j - 1 \in 1..Len(p)
  BY <1>1
<1>3. ASSUME \A i \in 1..Len(p) : p[i].symbol # r
      PROVE  r \in refused \/ (r \in in <=> r \in new)
  <2>1. \A j \in 2..Len(q) : q[j].symbol # r
    BY <1>2, <1>3
  <2>2. CASE q[1].symbol = r
    <3>1. r \in in <=> q[1].type = "1"
      BY <1>1, <2>1, <2>2 DEF Agrees
    <3> QED
      BY <1>1, <2>2, <3>1
  <2>3. CASE q[1].symbol # r
    <3>1. \A i \in 1..Len(q) : q[i].symbol # r
      BY <1>1, <2>1, <2>3
    <3> QED
      BY <1>1, <2>3, <3>1 DEF Agrees
  <2> QED
    BY <2>2, <2>3
<1>4. ASSUME NEW i \in 1..Len(p), p[i].symbol = r,
             \A j \in (i + 1)..Len(p) : p[j].symbol # r
      PROVE  r \in in <=> p[i].type = "1"
  <2>1. i + 1 \in 1..Len(q) /\ q[i + 1].symbol = r
    BY <1>1, <1>4
  <2>2. ASSUME NEW j \in (i + 2)..Len(q) PROVE q[j].symbol # r
    <3>1. j - 1 \in (i + 1)..Len(p) /\ q[j] = p[j - 1]
      BY <1>1, <1>2
    <3> QED
      BY <1>4, <3>1
  <2> QED
    BY <1>1, <2>1, <2>2 DEF Agrees
<1> QED
  BY <1>3, <1>4

\* Where _run is, what it may hold: no connection while it waits or connects,
\* no replay left once the sender runs, and nothing rejected before it is sent.
RunShape ==
  /\ run \in {"waiting", "connecting"} => connection = "none"
  /\ run = "live" => replay = {}
  /\ replay \cap rejected = {}

Intent == connection = "open" =>
  Agrees(actions, subscriptions, upstream \cup replay, rejected)

LinkInv == TypeOK /\ RunShape /\ Intent

LEMMA UnregisterLink ==
  ASSUME LinkInv, NEW c \in Clients, Unregister(c)
  PROVE  RunShape' /\ Intent'
<1>1. CASE registered[sym[c]] <= 1
  <2>1. SourceUnsubscribe(sym[c])
    BY <1>1 DEF Unregister
  <2>2. RunShape'
    BY <2>1 DEF LinkInv, RunShape, SourceUnsubscribe
  <2>3. ASSUME connection' = "open"
        PROVE  Agrees(actions', subscriptions', upstream' \cup replay', rejected')
    <3>1. connection = "open" /\ upstream' = upstream /\ replay' = replay
          /\ rejected' = rejected
      BY <2>1, <2>3 DEF SourceUnsubscribe
    <3>2. subscriptions' = subscriptions \ {sym[c]}
      BY <2>1 DEF SourceUnsubscribe
    <3>3. Agrees(actions, subscriptions, upstream \cup replay, rejected)
      BY <3>1 DEF LinkInv, Intent
    <3>4. CASE sym[c] \in subscriptions
      <4>1. actions' = Append(actions, [type |-> "2", symbol |-> sym[c]])
        BY <2>1, <3>1, <3>4 DEF SourceUnsubscribe
      <4>2. actions \in Seq(Action) /\ sym[c] \in Symbols
        BY <3>4 DEF LinkInv, TypeOK
      <4>3. /\ \A r \in Symbols \ {sym[c]} :
                   r \in subscriptions' <=> r \in subscriptions
            /\ sym[c] \notin subscriptions'
        BY <3>2
      <4>4. Agrees(Append(actions, [type |-> "2", symbol |-> sym[c]]),
                   subscriptions', upstream \cup replay, rejected)
        BY <3>3, <4>2, <4>3, AgreesAppend
      <4> QED
        BY <3>1, <4>1, <4>4
    <3>5. CASE sym[c] \notin subscriptions
      <4>1. actions' = actions /\ subscriptions' = subscriptions
        BY <2>1, <3>2, <3>5 DEF SourceUnsubscribe
      <4> QED
        BY <3>1, <3>3, <4>1
    <3> QED
      BY <3>4, <3>5
  <2> QED
    BY <2>2, <2>3 DEF Intent
<1>2. CASE ~(registered[sym[c]] <= 1)
  BY <1>2 DEF LinkInv, RunShape, Intent, Unregister, sourceVars, linkVars
<1> QED
  BY <1>1, <1>2

LEMMA LinkStep == LinkInv /\ [Next]_vars => LinkInv'
<1> SUFFICES ASSUME LinkInv, [Next]_vars PROVE RunShape' /\ Intent'
  BY TypeStep DEF LinkInv
<1>0. TypeOK /\ RunShape /\ Intent
  BY DEF LinkInv
<1>1. ASSUME NEW c \in Clients, NEW s \in Symbols, Register(c, s)
      PROVE  RunShape' /\ Intent'
  BY <1>0, <1>1 DEF Register, RunShape, Intent, sourceVars, linkVars
<1>2. ASSUME NEW c \in Clients, ResolveFails(c) \/ StreamFails(c) \/ Finalize(c)
      PROVE  RunShape' /\ Intent'
  BY <1>2, UnregisterLink DEF ResolveFails, StreamFails, Finalize
<1>3. ASSUME NEW c \in Clients, Disconnect(c) \/ SendToGone(c)
      PROVE  RunShape' /\ Intent'
  BY <1>0, <1>3 DEF Disconnect, SendToGone, RunShape, Intent, sourceVars, linkVars
<1>4. ASSUME NEW c \in Clients, Subscribe(c)
      PROVE  RunShape' /\ Intent'
  <2>1. CASE sym[c] \notin subscriptions /\ Cardinality(subscriptions) >= SourceLimit
    BY <1>4, <2>1, UnregisterLink DEF Subscribe
  <2>2. CASE ~(sym[c] \notin subscriptions /\ Cardinality(subscriptions) >= SourceLimit)
    <3>1. SourceSubscribe(sym[c]) /\ UNCHANGED linkVars /\ phase[c] = "resolving"
      BY <1>4, <2>2 DEF Subscribe
    <3>2. RunShape'
      BY <1>0, <3>1 DEF RunShape, linkVars
    <3>3. CASE sym[c] \in subscriptions
      BY <1>0, <3>1, <3>2, <3>3 DEF Intent, SourceSubscribe, sourceVars, linkVars
    <3>4. CASE sym[c] \notin subscriptions
      <4>1. sym[c] \in Symbols /\ actions \in Seq(Action)
        BY <1>0, <3>1 DEF TypeOK
      <4>2. subscriptions' = subscriptions \cup {sym[c]}
        BY <3>1, <3>4 DEF SourceSubscribe
      <4>3. connection = "open" =>
              actions' = Append(actions, [type |-> "1", symbol |-> sym[c]])
        BY <3>1, <3>4 DEF SourceSubscribe
      <4>4. ASSUME connection = "open"
            PROVE  Agrees(actions', subscriptions', upstream \cup replay, rejected)
        <5>1. Agrees(actions, subscriptions, upstream \cup replay, rejected)
          BY <1>0, <4>4 DEF Intent
        <5>2. /\ \A r \in Symbols \ {sym[c]} :
                     r \in subscriptions' <=> r \in subscriptions
              /\ sym[c] \in subscriptions'
          BY <4>2
        <5>3. Agrees(Append(actions, [type |-> "1", symbol |-> sym[c]]),
                     subscriptions', upstream \cup replay, rejected)
          BY <4>1, <5>1, <5>2, AgreesAppend
        <5> QED
          BY <4>3, <4>4, <5>3
      <4> QED
        BY <3>1, <3>2, <4>4 DEF Intent, linkVars
    <3> QED
      BY <3>3, <3>4
  <2> QED
    BY <2>1, <2>2
<1>5. CASE Wake \/ Replayed \/ Retry \/ ConnectFails \/ Drop \/ Stop \/ Broken
  BY <1>0, <1>5 DEF Wake, Replayed, Retry, ConnectFails, Drop, Stop, Broken,
                    RunShape, Intent, sourceVars
<1>6. CASE Connected
  <2>1. Agrees(<<>>, subscriptions, {} \cup subscriptions, {})
    BY DEF Agrees
  <2> QED
    BY <1>6, <2>1 DEF Connected, RunShape, Intent
<1>7. ASSUME NEW s \in Symbols, Replay(s)
      PROVE  RunShape' /\ Intent'
  <2>1. /\ replay' = replay \ {s} /\ s \in replay /\ s \notin rejected
        /\ UNCHANGED <<connection, run, actions, subscriptions>>
    BY <1>0, <1>7 DEF Replay, RunShape, sourceVars
  <2>2. RunShape'
    BY <1>0, <1>7, <2>1 DEF Replay, Send, RunShape
  <2>3. \A r \in Symbols :
          r \in rejected' \/ (/\ r \in upstream' \cup replay' <=> r \in upstream \cup replay
                             /\ r \notin rejected)
    BY <1>7, <2>1 DEF Replay, Send
  <2>4. ASSUME connection = "open"
        PROVE  Agrees(actions, subscriptions, upstream' \cup replay', rejected')
    <3>1. Agrees(actions, subscriptions, upstream \cup replay, rejected)
      BY <1>0, <2>4 DEF Intent
    <3> QED
      BY <2>3, <3>1 DEF Agrees
  <2> QED
    BY <2>1, <2>2, <2>4 DEF Intent
<1>8. CASE SendAction
  <2>1. replay = {} /\ Agrees(actions, subscriptions, upstream, rejected)
    BY <1>0, <1>8 DEF SendAction, RunShape, Intent
  <2>2. actions \in Seq(Action) /\ actions # <<>>
    BY <1>0, <1>8 DEF TypeOK, SendAction
  <2>3. \/ /\ upstream' = IF Head(actions).type = "1"
                             THEN upstream \cup {Head(actions).symbol}
                             ELSE upstream \ {Head(actions).symbol}
           /\ rejected' = rejected \ {Head(actions).symbol}
        \/ upstream' = upstream /\ rejected' = rejected \cup {Head(actions).symbol}
    BY <1>8 DEF SendAction, Send
  <2>4. Agrees(Tail(actions), subscriptions, upstream', rejected')
    BY <2>1, <2>2, <2>3, AgreesTail
  <2>5. actions' = Tail(actions) /\ UNCHANGED <<connection, run, replay, subscriptions>>
    BY <1>8 DEF SendAction
  <2> QED
    BY <1>0, <2>1, <2>4, <2>5 DEF RunShape, Intent
<1>9. CASE UNCHANGED vars
  BY <1>0, <1>9 DEF vars, RunShape, Intent
<1> QED
  BY <1>1, <1>2, <1>3, <1>4, <1>5, <1>6, <1>7, <1>8, <1>9
     DEF Next, Browser, Handler, RunTask

\* Per symbol, the youngest queued action or, without one, the connection and
\* its replay say whether the symbol is subscribed, at every moment a
\* connection is open and whatever KIS rejects.
THEOREM IntentCorrect == Spec => []IntentAgrees
<1>1. Init => LinkInv
  BY TypeInit DEF Init, LinkInv, RunShape, Intent
<1>2. LinkInv => IntentAgrees
  BY DEF LinkInv, Intent, Agrees, IntentAgrees
<1> QED
  BY <1>1, <1>2, LinkStep, PTL DEF Spec

\* Once the replay and the queue are sent on an open connection, KIS streams
\* exactly the source's subscriptions, except the symbols whose last message it
\* rejected, however subscribes, unsubscribes, reconnects and drained queues
\* interleaved.
THEOREM UpstreamCorrect == Spec => []UpstreamAgrees
<1>1. TypeOK /\ IntentAgrees => UpstreamAgrees
  <2> SUFFICES ASSUME TypeOK, IntentAgrees, connection = "open",
                      replay = {}, actions = <<>>
               PROVE  upstream \ rejected = subscriptions \ rejected
    BY DEF UpstreamAgrees
  <2>1. \A s \in Symbols : s \in rejected \/ (s \in subscriptions <=> s \in upstream)
    BY DEF IntentAgrees
  <2> QED
    BY <2>1 DEF TypeOK
<1> QED
  BY <1>1, TypeCorrect, IntentCorrect, PTL

------------------------------------------------------------------------------
(***************************************************************************)
(* The hub's counters, and the source's table inside the hub's.            *)
(***************************************************************************)

\* While a first subscriber is resolving, its symbol is not yet the source's,
\* and nobody else resolves it.
OneResolver ==
  \A c \in Clients : phase[c] = "resolving" =>
    /\ sym[c] \notin subscriptions
    /\ \A d \in Clients : phase[d] = "resolving" /\ sym[d] = sym[c] => d = c

SymbolCap == Cardinality(ActiveSymbols) <= MaxSymbols

HubInv ==
  TypeOK /\ CountsAreHandlers /\ SourceWithinHub /\ OneResolver /\ SymbolCap

LEMMA ClientsOnFinite ==
  \A s \in Symbols : IsFiniteSet(ClientsOn(s)) /\ Cardinality(ClientsOn(s)) \in Nat
<1> TAKE s \in Symbols
<1>1. ClientsOn(s) \subseteq Clients
  BY DEF ClientsOn
<1> QED
  BY <1>1, ClientsAssumption, FS_Subset, FS_CardinalityType

LEMMA ActiveFinite == IsFiniteSet(ActiveSymbols) /\ Cardinality(ActiveSymbols) \in Nat
<1>1. ActiveSymbols \subseteq Symbols
  BY DEF ActiveSymbols
<1> QED
  BY <1>1, SymbolsAssumption, FS_Subset, FS_CardinalityType

\* A handler keeps its symbol registered.
LEMMA HandlerCounts ==
  ASSUME TypeOK, CountsAreHandlers, NEW c \in Clients, phase[c] # "idle"
  PROVE  sym[c] \in Symbols /\ registered[sym[c]] > 0
<1>1. sym[c] \in Symbols /\ c \in ClientsOn(sym[c])
  BY DEF TypeOK, ClientsOn
<1>2. Cardinality(ClientsOn(sym[c])) # 0
  BY <1>1, ClientsOnFinite, FS_EmptySet
<1> QED
  BY <1>1, <1>2, ClientsOnFinite DEF CountsAreHandlers

LEMMA RegisterHub ==
  ASSUME HubInv, NEW c \in Clients, NEW s \in Symbols, Register(c, s), TypeOK'
  PROVE  HubInv'
<1> USE DEF TypeOK
<1>0. /\ TypeOK /\ CountsAreHandlers /\ SourceWithinHub /\ OneResolver /\ SymbolCap
      /\ phase[c] = "idle" /\ s # NoSymbol /\ UNCHANGED subscriptions
      /\ sym' = [sym EXCEPT ![c] = s]
      /\ phase' = [phase EXCEPT ![c] =
                     IF registered[s] = 0 THEN "resolving" ELSE "streaming"]
      /\ registered' = [registered EXCEPT ![s] = @ + 1]
  BY SymbolsAssumption DEF HubInv, Register, sourceVars
<1>1. ASSUME NEW t \in Symbols PROVE registered'[t] = Cardinality(ClientsOn(t)')
  <2>1. CASE t = s
    <3>1. ClientsOn(s)' = ClientsOn(s) \cup {c} /\ c \notin ClientsOn(s)
      BY <1>0 DEF ClientsOn
    <3>2. Cardinality(ClientsOn(s)') = Cardinality(ClientsOn(s)) + 1
      BY <3>1, ClientsOnFinite, FS_AddElement
    <3> QED
      BY <1>0, <2>1, <3>2 DEF CountsAreHandlers
  <2>2. CASE t # s
    <3>1. ClientsOn(t)' = ClientsOn(t)
      BY <1>0, <2>2 DEF ClientsOn
    <3> QED
      BY <1>0, <2>2, <3>1 DEF CountsAreHandlers
  <2> QED
    BY <2>1, <2>2
<1>2. ActiveSymbols' = ActiveSymbols \cup {s}
  BY <1>0 DEF ActiveSymbols
<1>3. SourceWithinHub'
  BY <1>0, <1>2 DEF SourceWithinHub
<1>4. SymbolCap'
  <2>1. CASE registered[s] = 0
    <3>1. Cardinality(ActiveSymbols) < MaxSymbols /\ s \notin ActiveSymbols
      BY <2>1 DEF Register, HasCapacity, ActiveSymbols
    <3>2. Cardinality(ActiveSymbols') = Cardinality(ActiveSymbols) + 1
      BY <1>2, <3>1, ActiveFinite, FS_AddElement
    <3> QED
      BY <3>1, <3>2, ActiveFinite, LimitsAssumption DEF SymbolCap
  <2>2. CASE registered[s] # 0
    <3>1. ActiveSymbols' = ActiveSymbols
      BY <1>0, <1>2, <2>2 DEF ActiveSymbols
    <3> QED
      BY <1>0, <3>1 DEF SymbolCap
  <2> QED
    BY <2>1, <2>2
<1>5. OneResolver'
  <2>1. \A d \in Clients \ {c} : phase'[d] = phase[d] /\ sym'[d] = sym[d]
    BY <1>0
  <2>2. phase'[c] = "resolving" =>
          /\ s \notin subscriptions
          /\ \A d \in Clients \ {c} : ~(phase[d] # "idle" /\ sym[d] = s)
    BY <1>0, HandlerCounts DEF SourceWithinHub, ActiveSymbols
  <2>3. sym'[c] = s
    BY <1>0
  <2>4. \A d \in Clients \ {c} : phase[d] = "resolving" => phase[d] # "idle"
    OBVIOUS
  <2> QED
    BY <1>0, <2>1, <2>2, <2>3, <2>4 DEF OneResolver
<1> QED
  BY <1>1, <1>3, <1>4, <1>5 DEF HubInv, CountsAreHandlers

LEMMA UnregisterHub ==
  ASSUME HubInv, NEW c \in Clients, phase[c] # "idle", Unregister(c), TypeOK'
  PROVE  HubInv'
<1> USE DEF TypeOK
<1> PICK s \in Symbols : s = sym[c]
  BY HandlerCounts DEF HubInv
<1>0. /\ TypeOK /\ CountsAreHandlers /\ SourceWithinHub /\ OneResolver /\ SymbolCap
      /\ sym' = [sym EXCEPT ![c] = NoSymbol]
      /\ phase' = [phase EXCEPT ![c] = "idle"]
  BY DEF HubInv, Unregister
<1>1. s \in Symbols /\ registered[s] > 0 /\ registered[s] \in Nat
  BY <1>0, HandlerCounts
<1>2. registered' = [registered EXCEPT ![s] = @ - 1]
  <2>1. CASE registered[s] <= 1
    BY <1>1, <2>1 DEF Unregister
  <2>2. CASE ~(registered[s] <= 1)
    BY <2>2 DEF Unregister
  <2> QED
    BY <2>1, <2>2
<1>3. /\ subscriptions' \subseteq subscriptions
      /\ registered[s] = 1 => s \notin subscriptions'
  <2>1. CASE registered[s] <= 1
    BY <2>1 DEF Unregister, SourceUnsubscribe
  <2>2. CASE ~(registered[s] <= 1)
    BY <2>2 DEF Unregister, sourceVars
  <2> QED
    BY <2>1, <2>2
<1>4. ASSUME NEW t \in Symbols PROVE registered'[t] = Cardinality(ClientsOn(t)')
  <2>1. CASE t = s
    <3>1. ClientsOn(t)' = ClientsOn(t) \ {c} /\ c \in ClientsOn(t)
      BY <1>0, <1>1, <2>1, SymbolsAssumption DEF ClientsOn
    <3>2. Cardinality(ClientsOn(t)') = Cardinality(ClientsOn(t)) - 1
      BY <1>1, <3>1, ClientsOnFinite, FS_RemoveElement
    <3> QED
      BY <1>0, <1>1, <1>2, <2>1, <3>2 DEF CountsAreHandlers
  <2>2. CASE t # s
    <3>1. ClientsOn(t)' = ClientsOn(t)
      BY <1>0, <2>2 DEF ClientsOn
    <3> QED
      BY <1>0, <1>2, <2>2, <3>1 DEF CountsAreHandlers
  <2> QED
    BY <2>1, <2>2
<1>5. SourceWithinHub'
  BY <1>0, <1>1, <1>2, <1>3 DEF SourceWithinHub, ActiveSymbols
<1>6. SymbolCap'
  <2>1. ActiveSymbols' \subseteq ActiveSymbols
    BY <1>1, <1>2 DEF ActiveSymbols
  <2>2. /\ Cardinality(ActiveSymbols') <= Cardinality(ActiveSymbols)
        /\ Cardinality(ActiveSymbols') \in Nat
    BY <2>1, ActiveFinite, FS_Subset, FS_CardinalityType
  <2> QED
    BY <1>0, <2>2, ActiveFinite, LimitsAssumption DEF SymbolCap
<1>7. OneResolver'
  <2>1. \A d \in Clients : phase'[d] = "resolving" =>
          phase[d] = "resolving" /\ sym'[d] = sym[d]
    BY <1>0
  <2> QED
    BY <1>0, <1>3, <2>1 DEF OneResolver
<1> QED
  BY <1>4, <1>5, <1>6, <1>7 DEF HubInv, CountsAreHandlers

LEMMA NotRefused ==
  ASSUME HubInv, NEW c \in Clients, phase[c] = "resolving"
  PROVE  sym[c] \notin subscriptions /\ Cardinality(subscriptions) < SourceLimit
<1>1. sym[c] \notin subscriptions
  BY DEF HubInv, OneResolver
<1>2. sym[c] \in ActiveSymbols
  BY HandlerCounts DEF HubInv, ActiveSymbols
<1>3. subscriptions \subseteq ActiveSymbols
  BY DEF HubInv, SourceWithinHub
<1>4. IsFiniteSet(subscriptions) /\ Cardinality(subscriptions) \in Nat
  BY <1>3, ActiveFinite, FS_Subset, FS_CardinalityType
<1>5. Cardinality(subscriptions \cup {sym[c]}) = Cardinality(subscriptions) + 1
  BY <1>1, <1>4, FS_AddElement
<1>6. subscriptions \cup {sym[c]} \in SUBSET ActiveSymbols
  BY <1>2, <1>3
<1>7. Cardinality(subscriptions \cup {sym[c]}) <= Cardinality(ActiveSymbols)
  BY <1>6, ActiveFinite, FS_Subset
<1>8. Cardinality(ActiveSymbols) <= MaxSymbols
  BY DEF HubInv, SymbolCap
<1> QED
  BY <1>1, <1>4, <1>5, <1>7, <1>8, ActiveFinite, LimitsAssumption, FactoryAssumption

LEMMA HubStep == HubInv /\ [Next]_vars => HubInv'
<1> SUFFICES ASSUME HubInv, [Next]_vars, TypeOK' PROVE HubInv'
  BY TypeStep DEF HubInv
<1>0. TypeOK /\ CountsAreHandlers /\ SourceWithinHub /\ OneResolver /\ SymbolCap
  BY DEF HubInv
<1>1. ASSUME NEW c \in Clients, NEW s \in Symbols, Register(c, s) PROVE HubInv'
  BY <1>1, RegisterHub
<1>2. ASSUME NEW c \in Clients, ResolveFails(c) \/ StreamFails(c) \/ Finalize(c)
      PROVE  HubInv'
  BY <1>2, UnregisterHub DEF ResolveFails, StreamFails, Finalize
<1>3. ASSUME NEW c \in Clients, SendToGone(c) PROVE HubInv'
  <2>1. /\ phase' = [phase EXCEPT ![c] = "finalizing"] /\ phase[c] = "streaming"
        /\ UNCHANGED <<sym, registered, subscriptions>>
    BY <1>3 DEF SendToGone, sourceVars
  <2>2. \A s \in Symbols : ClientsOn(s)' = ClientsOn(s)
    BY <1>0, <2>1 DEF TypeOK, ClientsOn
  <2>3. OneResolver'
    BY <1>0, <2>1 DEF TypeOK, OneResolver
  <2> QED
    BY <1>0, <2>1, <2>2, <2>3
       DEF HubInv, CountsAreHandlers, SourceWithinHub, SymbolCap, ActiveSymbols
<1>4. ASSUME NEW c \in Clients, Subscribe(c) PROVE HubInv'
  <2>1. sym[c] \notin subscriptions /\ Cardinality(subscriptions) < SourceLimit
    BY <1>4, NotRefused DEF Subscribe
  <2>2. sym[c] \in Symbols /\ registered[sym[c]] > 0
    BY <1>0, <1>4, HandlerCounts DEF Subscribe
  <2>3. IsFiniteSet(subscriptions) /\ Cardinality(subscriptions) \in Nat
    <3>1. subscriptions \subseteq Symbols
      BY <1>0 DEF TypeOK
    <3> QED
      BY <3>1, SymbolsAssumption, FS_Subset, FS_CardinalityType
  <2>4. /\ subscriptions' = subscriptions \cup {sym[c]}
        /\ phase[c] = "resolving"
        /\ phase' = [phase EXCEPT ![c] = "streaming"]
        /\ UNCHANGED <<sym, registered>>
    <3>1. ~(Cardinality(subscriptions) >= SourceLimit)
      BY <2>1, <2>3, LimitsAssumption
    <3> QED
      BY <1>4, <2>1, <3>1 DEF Subscribe, SourceSubscribe
  <2>5. \A s \in Symbols : ClientsOn(s)' = ClientsOn(s)
    BY <1>0, <2>4 DEF TypeOK, ClientsOn
  <2>6. OneResolver'
    BY <1>0, <2>4 DEF TypeOK, OneResolver
  <2>7. SourceWithinHub'
    BY <1>0, <2>2, <2>4 DEF SourceWithinHub, ActiveSymbols
  <2> QED
    BY <1>0, <2>4, <2>5, <2>6, <2>7 DEF HubInv, CountsAreHandlers, SymbolCap, ActiveSymbols
<1>5. CASE UNCHANGED <<phase, sym, registered, subscriptions>>
  BY <1>0, <1>5 DEF HubInv, CountsAreHandlers, ClientsOn, SourceWithinHub,
                    OneResolver, SymbolCap, ActiveSymbols
<1>6. ASSUME NEW c \in Clients, Disconnect(c)
      PROVE  UNCHANGED <<phase, sym, registered, subscriptions>>
  BY <1>6 DEF Disconnect, sourceVars
<1>7. RunTask \/ SendAction \/ ConnectFails \/ Drop \/ Stop \/ UNCHANGED vars
        => UNCHANGED <<phase, sym, registered, subscriptions>>
  BY DEF RunTask, Wake, Connected, Replay, Replayed, Broken, Retry, SendAction,
         ConnectFails, Drop, Stop, clientVars, sourceVars, vars
<1> QED
  BY <1>1, <1>2, <1>3, <1>4, <1>5, <1>6, <1>7 DEF Next, Browser, Handler

LEMMA HubInit == Init => HubInv
<1> SUFFICES ASSUME Init PROVE HubInv
  OBVIOUS
<1>1. TypeOK
  BY TypeInit
<1>2. \A s \in Symbols : ClientsOn(s) = {}
  BY DEF Init, ClientsOn
<1>3. CountsAreHandlers
  BY <1>2, FS_EmptySet DEF Init, CountsAreHandlers
<1>4. ActiveSymbols = {}
  BY DEF Init, ActiveSymbols
<1>5. SymbolCap
  BY <1>4, FS_EmptySet, LimitsAssumption DEF SymbolCap
<1> QED
  BY <1>1, <1>3, <1>5 DEF Init, HubInv, SourceWithinHub, OneResolver

\* The hub's counters are the handlers that have still to run their finally
\* block, at every moment: no failure path leaks or frees a slot twice.
THEOREM CountsCorrect == Spec => []CountsAreHandlers
<1>1. HubInv => CountsAreHandlers
  BY DEF HubInv
<1> QED
  BY <1>1, HubInit, HubStep, PTL DEF Spec

\* The source never holds a symbol without a handler for it.
THEOREM SourceWithinHubCorrect == Spec => []SourceWithinHub
<1>1. HubInv => SourceWithinHub
  BY DEF HubInv
<1> QED
  BY <1>1, HubInit, HubStep, PTL DEF Spec

\* The source's limit never refuses what the hub admitted: with the factory's
\* min(max_symbols, 40) the second check of the limit cannot fire.
THEOREM NeverRefusedCorrect == Spec => []NeverRefusedBySource
<1>1. HubInv => NeverRefusedBySource
  BY NotRefused DEF NeverRefusedBySource
<1> QED
  BY <1>1, HubInit, HubStep, PTL DEF Spec
=============================================================================
