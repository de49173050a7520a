--------------------------- MODULE RequestProofs ----------------------------
(***************************************************************************)
(* Proofs about the requests of users and what they start: Gateway, for    *)
(* any number of requests, whatever is wrong with them and however often   *)
(* the back end restarts; AnalysisReport, for all weights, facts and       *)
(* failures; RateLimit, for any clients, limits, windows and lags between  *)
(* replicas; Backtest, for every capital, price, volume and rate and every *)
(* course of signals.                                                      *)
(***************************************************************************)
EXTENDS Gateway, AnalysisReport, RateLimit, Backtest, FiniteSetTheorems,
  WellFoundedInduction, TLAPS

-----------------------------------------------------------------------------
(* Gateway *)

\* A route has no except clause for what nobody expects.
CatchesNothing(r) == \A i \in DOMAIN r.clauses : r.clauses[i][1] # "Unexpected"

\* Stores change only when the service of the request runs, which then ends; what was
\* changed is not answered with a refusal, unless it is a promotion.
ChangesAreServed ==
  \A r \in Requests :
    /\ web[r] \in {"idle", "sent"} => gateBackend[r] = "idle"
    /\ web[r] # "answered" => answer[r] = 0
    /\ gateBackend[r] \in {"idle", "checking", "serving"} => ~changed[r]
    /\ gateBackend[r] = "replied" /\ changed[r] /\ route[r] # "model-promotion" =>
         reply[r] \notin 400 .. 499

\* The functions of the model that tell requests apart.
RequestsAreKnown ==
  /\ route \in [Requests -> RouteNames]
  /\ DOMAIN web = Requests /\ DOMAIN gateBackend = Requests
  /\ DOMAIN reply = Requests /\ DOMAIN answer = Requests
  /\ DOMAIN changed = Requests

GatewayInv == RequestsAreKnown /\ ChangesAreServed /\ RefusedChangesNothing

LEMMA RoutesCatchNothing ==
  \A r \in AllRoutes : CatchesNothing(r)
<1> USE DEF CatchesNothing, Route, Read, AdminRead, Change, OnUnknown, OnDisabled,
    OnMissing, OnConflict, OnValue
<1>1. \A r \in MarketRoutes \cup AnalysisRoutes \cup {ScoreRoute} : CatchesNothing(r)
  BY DEF MarketRoutes, AnalysisRoutes, ScoreRoute
<1>2. \A r \in AccountRoutes \cup BacktestRoutes \cup OperationRoutes : CatchesNothing(r)
  BY DEF AccountRoutes, BacktestRoutes, OperationRoutes
<1>3. \A r \in ActionReadRoutes \cup ActionChangeRoutes \cup {IngestionRoute} :
        CatchesNothing(r)
  BY DEF ActionReadRoutes, ActionChangeRoutes, IngestionRoute
<1>4. \A r \in HistoryRoutes \cup ModelRoutes \cup AlertRoutes : CatchesNothing(r)
  BY DEF HistoryRoutes, ModelRoutes, AlertRoutes
<1> QED
  BY <1>1, <1>2, <1>3, <1>4 DEF AllRoutes

\* What nobody expects is reported as an error of the server.
LEMMA UnexpectedStatus ==
  ASSUME NEW n \in RouteNames
  PROVE  RaisedStatus(n, "Unexpected") = 500
<1>1. Routes[n] \in AllRoutes
  BY DEF Routes, RouteNames
<1>2. Matching(n, "Unexpected") = {}
  BY <1>1, RoutesCatchNothing DEF Matching, Clauses, Classes, CatchesNothing
<1> QED
  BY <1>2 DEF RaisedStatus, Classes

LEMMA GatewayInvInit ==
  GatewayInit => GatewayInv
<1>1. "market" \in RouteNames
  <2>1. Read("market", <<OnUnknown>>) \in AllRoutes
    BY DEF AllRoutes, MarketRoutes
  <2> QED
    BY <2>1 DEF RouteNames, Read, Route
<1> QED
  BY <1>1 DEF GatewayInit, GatewayInv, RequestsAreKnown, ChangesAreServed,
     RefusedChangesNothing, Refused

LEMMA GatewayInvStep ==
  GatewayInv /\ [GatewayNext]_gatewayVars => GatewayInv'
<1> SUFFICES ASSUME GatewayInv, [GatewayNext]_gatewayVars
             PROVE  GatewayInv'
  OBVIOUS
<1> USE DEF GatewayInv, RequestsAreKnown, ChangesAreServed, RefusedChangesNothing,
    Refused, Answer, Reply
<1>1. CASE Restart
  <2>1. /\ DOMAIN gateBackend' = Requests /\ DOMAIN changed' = Requests
        /\ UNCHANGED <<route, flawed, web, reply, answer>>
        /\ \A r \in Requests :
             /\ gateBackend'[r] = (IF gateBackend[r] \in {"checking", "serving", "replied"} THEN "lost"
                                   ELSE gateBackend[r])
             /\ gateBackend[r] # "serving" => (changed'[r] <=> changed[r])
    BY <1>1 DEF Restart
  <2>2. RequestsAreKnown'
    BY <2>1
  <2>3. ChangesAreServed'
    BY <2>1
  <2>4. RefusedChangesNothing'
    BY <2>1
  <2> QED
    BY <2>2, <2>3, <2>4
<1>2. ASSUME NEW r \in Requests, Send(r) PROVE GatewayInv'
  BY <1>2 DEF Send
<1>3. ASSUME NEW r \in Requests, Forward(r) PROVE GatewayInv'
  BY <1>3 DEF Forward
<1>4. ASSUME NEW r \in Requests, Admit(r) PROVE GatewayInv'
  BY <1>4 DEF Admit
<1>5. ASSUME NEW r \in Requests, Serve(r) PROVE GatewayInv'
  BY <1>5 DEF Serve
<1>6. ASSUME NEW r \in Requests, Raise(r) PROVE GatewayInv'
  BY <1>6 DEF Raise
<1>7. ASSUME NEW r \in Requests, RaiseLate(r) PROVE GatewayInv'
  BY <1>7, UnexpectedStatus DEF RaiseLate
<1>8. ASSUME NEW r \in Requests, Receive(r) PROVE GatewayInv'
  BY <1>8 DEF Receive
<1>9. ASSUME NEW r \in Requests, Relay(r) PROVE GatewayInv'
  BY <1>9 DEF Relay
<1>10. ASSUME NEW r \in Requests, Disconnect(r) \/ TimeOut(r) PROVE GatewayInv'
  BY <1>10 DEF Disconnect, TimeOut, TimesOut, TimeoutStatus
<1>11. CASE UNCHANGED gatewayVars
  BY <1>11 DEF gatewayVars
<1> HIDE DEF GatewayInv, RequestsAreKnown, ChangesAreServed, RefusedChangesNothing
<1> QED
  BY <1>1, <1>2, <1>3, <1>4, <1>5, <1>6, <1>7, <1>8, <1>9, <1>10, <1>11
     DEF GatewayNext

\* The inductive invariant.
THEOREM GatewayInvariant ==
  GatewaySpec => []GatewayInv
<1> QED
  BY GatewayInvInit, GatewayInvStep, PTL DEF GatewaySpec

\* A change that was refused has not happened and will not, whatever its route, its
\* flaws, the proxy's timer and the restarts of the back end.
THEOREM RefusedChangesNothingCorrect ==
  GatewaySpec => []RefusedChangesNothing
<1>1. GatewayInv => RefusedChangesNothing
  BY DEF GatewayInv
<1> QED
  BY <1>1, GatewayInvariant, PTL

-----------------------------------------------------------------------------
(* AnalysisReport *)

\* Once the risk agent is done, the report knows the warnings of its bundle.
WarningsAreKnown ==
  /\ warnings \in (SUBSET Warnings) \cup {None}
  /\ reportPc \in {"flow", "charts", "write", "check", "done"} /\ Has("market_risk") =>
       warnings = bundle["market_risk"]

\* Where no agent is missing, each has left what it read.
NothingIsMissing ==
  missing = {} =>
    /\ reportPc \in {"prediction", "risk", "flow", "charts", "write", "check", "done"} =>
         /\ bundle \in Facts /\ score \in Int
         /\ \A a \in AxisAgents : AxisScore(bundle, a) # None
    /\ reportPc \in {"risk", "flow", "charts", "write", "check", "done"} => chance \in Int
    /\ reportPc \in {"flow", "charts", "write", "check", "done"} => warnings # None
    /\ reportPc \in {"charts", "write", "check", "done"} => flow \in Int
    /\ reportPc \in {"write", "check", "done"} => charts = Charts

\* A report is stored by the last step.
StoredIsDone == storedReports # {} => reportPc = "done"

ReportInv ==
  /\ bundle \in Facts \cup {None}
  /\ WarningsAreKnown /\ NothingIsMissing /\ StoredIsDone /\ WarningsAreHeeded

\* An axis has an integer for a score, or none.
LEMMA AxisScoreType ==
  ASSUME ReportAssumption, NEW facts \in Facts, NEW a \in Axes
  PROVE  AxisScore(facts, a) \in Int \cup {None}
<1>1. CASE facts[a] \in {Failed, None}
  BY <1>1 DEF AxisScore
<1>2. CASE facts[a] \notin {Failed, None} /\ a = "market_risk"
  <2>1. facts[a] \subseteq Warnings
    BY <1>2 DEF Facts
  <2>2. IsFiniteSet(facts[a] \cap Severe) /\ IsFiniteSet(facts[a] \ Severe)
    BY <2>1, FS_Subset DEF ReportAssumption
  <2>3. Cardinality(facts[a] \cap Severe) \in Nat /\ Cardinality(facts[a] \ Severe) \in Nat
    BY <2>2, FS_CardinalityType
  <2>4. RiskAxis(facts[a]) \in Int
    BY <2>3 DEF RiskAxis, Capped
  <2> QED
    BY <1>2, <2>4 DEF AxisScore
<1>3. CASE facts[a] \notin {Failed, None} /\ a # "market_risk"
  BY <1>3 DEF ReportAssumption, Facts, Axes, AxisScore, NewsAxis, DisclosureAxis, FlowAxis,
     Sign, Capped
<1> QED
  BY <1>1, <1>2, <1>3

\* The score of facts is a number.
LEMMA OverallType ==
  ASSUME ReportAssumption, NEW facts \in Facts
  PROVE  Overall(facts) \in Int
<1>1. \A a \in Axes : WeightOf(facts)[a] \in Nat /\ Weighted(facts)[a] \in Int
  <2> SUFFICES ASSUME NEW a \in Axes
               PROVE  WeightOf(facts)[a] \in Nat /\ Weighted(facts)[a] \in Int
    OBVIOUS
  <2>1. Weights[a] \in Nat
    BY DEF ReportAssumption
  <2>2. a \in Available(facts) => Weights[a] * AxisScore(facts, a) \in Int
    BY <2>1, AxisScoreType DEF Available
  <2> QED
    BY <2>1, <2>2 DEF WeightOf, Weighted
<1>2. Total(WeightOf(facts)) \in Nat /\ Total(Weighted(facts)) \in Int
  BY <1>1 DEF Total, Axes
<1> QED
  BY <1>2 DEF Overall

LEMMA ReportInvInit ==
  ReportInit => ReportInv
BY DEF ReportInit, ReportInv, WarningsAreKnown, NothingIsMissing, StoredIsDone,
   WarningsAreHeeded

LEMMA ReportInvStep ==
  ReportAssumption /\ ReportInv /\ [ReportNext]_reportVars => ReportInv'
<1> SUFFICES ASSUME ReportAssumption, ReportInv, [ReportNext]_reportVars
             PROVE  ReportInv'
  OBVIOUS
<1> USE DEF ReportInv, WarningsAreKnown, NothingIsMissing, StoredIsDone, WarningsAreHeeded,
    Has, Facts0, Stored
<1>1. CASE LookUp \/ Break
  BY <1>1 DEF LookUp, Break
<1>2. CASE Collect
  <2>1. PICK facts \in Facts : bundle' = facts /\ score' = Overall(facts)
          /\ missing' = missing \cup {a \in AxisAgents : AxisScore(facts, a) = None}
    BY <1>2 DEF Collect
  <2>2. score' \in Int
    BY <2>1, OverallType
  <2> QED
    BY <1>2, <2>1, <2>2 DEF Collect
<1>3. CASE CollectNothing
  BY <1>3 DEF CollectNothing
<1>4. CASE Predict
  BY <1>4 DEF Predict, ReportAssumption
<1>5. CASE AssessRisk
  <2>1. Has("market_risk") => bundle["market_risk"] \in SUBSET Warnings
    BY DEF Facts
  <2>2. \A ws \in SUBSET Warnings : ws # None
    BY DEF ReportAssumption
  <2>3. warnings' \in (SUBSET Warnings) \cup {None}
    BY <1>5, <2>1 DEF AssessRisk
  <2>4. missing' = {} => warnings' # None
    BY <1>5, <2>1, <2>2 DEF AssessRisk
  <2>5. reportPc = "risk" /\ reportPc' = "flow"
        /\ UNCHANGED <<bundle, score, chance, flow, charts, draft, Stored>>
        /\ (missing' = {} => missing = {})
        /\ (Has("market_risk") => warnings' = bundle["market_risk"])
    BY <1>5 DEF AssessRisk
  <2> QED
    BY <2>3, <2>4, <2>5
<1>6. CASE ReadFlow
  BY <1>6 DEF ReadFlow, ReportAssumption, Facts
<1>7. CASE ReadCharts
  BY <1>7 DEF ReadCharts
<1>8. CASE Write
  BY <1>8 DEF Write
<1>9. CASE Check
  <2>1. CASE UNCHANGED storedReports
    BY <1>9, <2>1 DEF Check
  <2>2. CASE storedReports' = storedReports \cup {Report} /\ reportPc' = "done"
    <3>1. storedReports = {}
      BY <1>9 DEF Check
    <3>2. storedReports' = {Report}
      BY <2>2, <3>1
    <3>3. UNCHANGED <<bundle, score, chance, warnings, flow, charts, missing>>
      BY <1>9 DEF Check
    <3>4. Has("market_risk") /\ bundle["market_risk"] # {} =>
            warnings \notin {None, {}}
      <4>1. Has("market_risk") => bundle["market_risk"] \in SUBSET Warnings
        BY DEF Facts
      <4>2. reportPc = "check"
        BY <1>9 DEF Check
      <4> QED
        BY <4>1, <4>2 DEF ReportAssumption
    <3>5. warnings \notin {None, {}} => Report.signal = "risk_aware" /\ Report.risk = "high"
      BY DEF Report, Signal, DownsideRisk
    <3>6. Report.risk = "low" => warnings \in {None, {}} /\ missing = {}
      BY DEF Report, DownsideRisk
    <3>7. missing = {} =>
            /\ None \notin {bundle, score, chance, warnings, flow} /\ charts = Charts
            /\ \A a \in AxisAgents : AxisScore(bundle, a) # None
      BY <1>9 DEF Check, ReportAssumption
    <3>8. WarningsAreHeeded'
      BY <3>2, <3>3, <3>4, <3>5, <3>6, <3>7 DEF AxisScore
    <3> QED
      BY <1>9, <2>2, <3>3, <3>8 DEF Check, AxisScore
  <2> QED
    BY <1>9, <2>1, <2>2 DEF Check
<1>10. CASE UNCHANGED reportVars
  BY <1>10 DEF reportVars, AxisScore
<1> QED
  BY <1>1, <1>2, <1>3, <1>4, <1>5, <1>6, <1>7, <1>8, <1>9, <1>10 DEF ReportNext

\* The inductive invariant.
THEOREM ReportInvariant ==
  ASSUME ReportAssumption
  PROVE  ReportSpec => []ReportInv
<1> QED
  BY ReportInvInit, ReportInvStep, PTL DEF ReportSpec

\* A stored report heeds every warning its score was computed from, and says low risk
\* only when all was read, for all weights, facts and failures.
THEOREM WarningsAreHeededCorrect ==
  ASSUME ReportAssumption
  PROVE  ReportSpec => []WarningsAreHeeded
<1>1. ReportInv => WarningsAreHeeded
  BY DEF ReportInv
<1> QED
  BY <1>1, ReportInvariant, PTL

-----------------------------------------------------------------------------
(* RateLimit *)

Stamps == [at : Nat, nth : Nat]

\* How far a reading of the clock may be behind
Late == IF windowBackend = "redis" THEN Lag ELSE 0

\* The requests of one moment are told apart, so that one more is one more member.
Numbered(stamps) ==
  \A m \in stamps : m.nth < Cardinality({n \in stamps : n.at = m.at})

\* In every span that reaches back no further than a window, the window has kept at least as
\* many requests as were granted.
Accounts(r, g, now, late) ==
  \A x \in Int : x >= now - Window =>
    Cardinality(Pruned(g, x + late)) <= Cardinality(Pruned(r, x))

\* When the promised time comes, one of the requests that filled the window has left it.
Honours(r, p) ==
  p # NoPromise => Cardinality(r) < Limit \/ \E m \in r : m.at + Window <= p

\* A window r, what was granted through it and the promise p that it gave
Sound(r, g, p, now, late) ==
  /\ r \subseteq Stamps /\ IsFiniteSet(r) /\ g \subseteq Stamps /\ IsFiniteSet(g) /\ p \in Nat
  /\ Numbered(r) /\ Cardinality(r) <= Limit
  /\ Accounts(r, g, now, late) /\ Honours(r, p)

LimiterInv ==
  /\ windowBackend \in {"none", "memory", "redis"}
  /\ clock \in Nat /\ clock <= MaxTime
  /\ DOMAIN requests = Keys /\ DOMAIN granted = Keys /\ DOMAIN promised = Keys
  /\ requests = [k \in Keys |-> requests[k]]
  /\ granted = [k \in Keys |-> granted[k]] /\ promised = [k \in Keys |-> promised[k]]
  /\ windowBackend = "none" =>
       \A k \in Keys : requests[k] = {} /\ granted[k] = {} /\ promised[k] = NoPromise
  /\ \A k \in Keys : Sound(requests[k], granted[k], promised[k], clock, Late)

\* What pruning leaves
LEMMA PrunedPart ==
  ASSUME NEW s, IsFiniteSet(s), NEW c
  PROVE  /\ Pruned(s, c) \subseteq s /\ IsFiniteSet(Pruned(s, c))
         /\ Cardinality(s) \in Nat /\ Cardinality(Pruned(s, c)) \in Nat
         /\ Cardinality(Pruned(s, c)) <= Cardinality(s)
         /\ Pruned(s, c) # s => Cardinality(Pruned(s, c)) < Cardinality(s)
<1>1. Pruned(s, c) \subseteq s
  BY DEF Pruned
<1>2. /\ IsFiniteSet(Pruned(s, c)) /\ Cardinality(Pruned(s, c)) <= Cardinality(s)
      /\ Cardinality(s) = Cardinality(Pruned(s, c)) => s = Pruned(s, c)
  BY <1>1, FS_Subset
<1>3. Cardinality(s) \in Nat /\ Cardinality(Pruned(s, c)) \in Nat
  BY <1>2, FS_CardinalityType
<1> QED
  BY <1>1, <1>2, <1>3

\* To prune twice is to prune at the later of the cutoffs.
LEMMA PrunedTwice ==
  ASSUME NEW s \in SUBSET Stamps, NEW c \in Int, NEW d \in Int, c <= d
  PROVE  Pruned(Pruned(s, c), d) = Pruned(s, d)
BY DEF Pruned, Stamps

LEMMA SoundCleared ==
  ASSUME RateLimitAssumption, NEW now \in Nat, NEW late \in Nat
  PROVE  Sound({}, {}, NoPromise, now, late)
<1>1. \A c : Pruned({}, c) = {}
  BY DEF Pruned
<1>2. IsFiniteSet({}) /\ Cardinality({}) = 0
  BY FS_EmptySet
<1> QED
  BY <1>1, <1>2 DEF Sound, Numbered, Accounts, Honours, NoPromise, RateLimitAssumption

\* A window may forget what is older than its length.
LEMMA SoundPruned ==
  ASSUME RateLimitAssumption, NEW now \in Nat, NEW late \in Nat, NEW r, NEW g, NEW p,
         Sound(r, g, p, now, late), NEW c \in Int, c <= now - Window
  PROVE  Sound(Pruned(r, c), g, p, now, late)
<1> DEFINE s == Pruned(r, c)
<1>0. Window \in Nat /\ Limit \in Nat
  BY DEF RateLimitAssumption
<1>1. r \in SUBSET Stamps /\ IsFiniteSet(r) /\ p \in Nat /\ Cardinality(r) <= Limit
  BY DEF Sound
<1>2. /\ s \subseteq r /\ IsFiniteSet(s) /\ Cardinality(s) \in Nat /\ Cardinality(r) \in Nat
      /\ Cardinality(s) <= Cardinality(r)
      /\ s # r => Cardinality(s) < Cardinality(r)
  BY <1>1, PrunedPart
<1>3. Numbered(s)
  <2>1. ASSUME NEW m \in s
        PROVE  {n \in s : n.at = m.at} = {n \in r : n.at = m.at}
    BY <1>1 DEF Pruned
  <2>2. Numbered(r)
    BY DEF Sound
  <2> QED
    BY <1>2, <2>1, <2>2 DEF Numbered
<1>4. Accounts(s, g, now, late)
  <2>1. ASSUME NEW x \in Int, x >= now - Window
        PROVE  Pruned(s, x) = Pruned(r, x)
    BY <1>0, <1>1, <2>1, PrunedTwice
  <2>2. Accounts(r, g, now, late)
    BY DEF Sound
  <2> HIDE DEF s
  <2> QED
    BY <2>1, <2>2 DEF Accounts
<1>5. Honours(s, p)
  <2>1. CASE s = r
    BY <2>1 DEF Sound
  <2>2. CASE s # r
    BY <1>0, <1>1, <1>2, <2>2 DEF Honours
  <2> QED
    BY <2>1, <2>2
<1>6. Cardinality(s) <= Limit /\ s \subseteq Stamps
  BY <1>0, <1>1, <1>2
<1> QED
  BY <1>1, <1>2, <1>3, <1>4, <1>5, <1>6 DEF Sound

LEMMA SoundGrantsPruned ==
  ASSUME RateLimitAssumption, NEW now \in Nat, NEW late \in Nat, NEW r, NEW g, NEW p,
         Sound(r, g, p, now, late)
  PROVE  Sound(r, Pruned(g, now - Window), p, now, late)
<1> DEFINE h == Pruned(g, now - Window)
<1>0. Window \in Nat /\ now - Window \in Int
  BY DEF RateLimitAssumption
<1>1. g \in SUBSET Stamps /\ IsFiniteSet(g)
  BY DEF Sound
<1>2. h \subseteq g /\ IsFiniteSet(h)
  BY <1>1, PrunedPart
<1>3. ASSUME NEW x \in Int, x >= now - Window
      PROVE  Pruned(h, x + late) = Pruned(g, x + late)
  BY <1>0, <1>1, <1>3, PrunedTwice
<1>4. Accounts(r, h, now, late)
  <2> HIDE DEF h
  <2> QED
    BY <1>3 DEF Accounts, Sound
<1> QED
  BY <1>1, <1>2, <1>4 DEF Sound

\* A new stamp is one more.
LEMMA InsertedOneMore ==
  ASSUME NEW r \in SUBSET Stamps, IsFiniteSet(r), NEW t \in Nat
  PROVE  /\ Inserted(r, t) \subseteq Stamps /\ IsFiniteSet(Inserted(r, t))
         /\ r \subseteq Inserted(r, t)
         /\ Cardinality(Inserted(r, t)) <= Cardinality(r) + 1
         /\ Numbered(r) =>
              /\ Cardinality(Inserted(r, t)) = Cardinality(r) + 1
              /\ [at |-> t, nth |-> Cardinality({m \in r : m.at = t})] \notin r
<1> DEFINE same == {m \in r : m.at = t}
           new == [at |-> t, nth |-> Cardinality(same)]
<1>1. IsFiniteSet(same) /\ Cardinality(same) \in Nat
  BY FS_Subset, FS_CardinalityType
<1>2. new \in Stamps /\ new.at = t /\ new.nth = Cardinality(same)
  BY <1>1 DEF Stamps
<1>3. /\ IsFiniteSet(r \cup {new}) /\ Cardinality(r) \in Nat
      /\ Cardinality(r \cup {new}) =
           IF new \in r THEN Cardinality(r) ELSE Cardinality(r) + 1
  BY FS_AddElement, FS_CardinalityType
<1>4. Numbered(r) => new \notin r
  <2>1. SUFFICES ASSUME Numbered(r), new \in r
                 PROVE  FALSE
    OBVIOUS
  <2>2. new.nth < Cardinality({n \in r : n.at = new.at})
    BY <2>1 DEF Numbered
  <2>3. {n \in r : n.at = new.at} = same
    BY <1>2
  <2> QED
    BY <1>1, <1>2, <2>2, <2>3
<1>5. Inserted(r, t) = r \cup {new}
  BY DEF Inserted
<1> HIDE DEF new
<1>6. Cardinality(r \cup {new}) <= Cardinality(r) + 1
  BY <1>3
<1>7. /\ Inserted(r, t) \subseteq Stamps /\ IsFiniteSet(Inserted(r, t))
      /\ r \subseteq Inserted(r, t)
  BY <1>2, <1>3, <1>5
<1>8. new = [at |-> t, nth |-> Cardinality({m \in r : m.at = t})]
  BY DEF new
<1> QED
  BY <1>3, <1>4, <1>5, <1>6, <1>7, <1>8

\* A window that is not full takes a request read late at t, granted now or given up.
LEMMA SoundInserted ==
  ASSUME RateLimitAssumption, NEW now \in Nat, NEW late \in Nat, NEW r, NEW g, NEW p,
         Sound(r, g, p, now, late), Cardinality(r) < Limit,
         NEW t \in Nat, now - late <= t, t <= now,
         NEW h \in {g, Inserted(g, now)}
  PROVE  Sound(Inserted(r, t), h, NoPromise, now, late)
<1> DEFINE s == Inserted(r, t)
           new == [at |-> t, nth |-> Cardinality({m \in r : m.at = t})]
           given == [at |-> now, nth |-> Cardinality({m \in g : m.at = now})]
<1>0. Window \in Nat /\ Limit \in Nat /\ NoPromise \in Nat
  BY DEF RateLimitAssumption, NoPromise
<1>1. /\ r \in SUBSET Stamps /\ IsFiniteSet(r) /\ g \in SUBSET Stamps /\ IsFiniteSet(g)
      /\ Numbered(r) /\ Accounts(r, g, now, late)
  BY DEF Sound
<1>2. /\ s \subseteq Stamps /\ IsFiniteSet(s) /\ r \subseteq s /\ new \notin r
      /\ Cardinality(s) = Cardinality(r) + 1
  BY <1>1, InsertedOneMore
<1>3. /\ Inserted(g, now) \subseteq Stamps /\ IsFiniteSet(Inserted(g, now))
      /\ g \subseteq Inserted(g, now)
  BY <1>1, InsertedOneMore
<1>4. s = r \cup {new} /\ new.at = t /\ Inserted(g, now) = g \cup {given} /\ given.at = now
  BY DEF Inserted
<1>5. Numbered(s)
  <2>1. SUFFICES ASSUME NEW m \in s
                 PROVE  m.nth < Cardinality({n \in s : n.at = m.at})
    BY DEF Numbered
  <2> DEFINE before == {n \in r : n.at = m.at}
             after == {n \in s : n.at = m.at}
  <2>2. /\ IsFiniteSet(before) /\ IsFiniteSet(after) /\ before \subseteq after
        /\ Cardinality(before) \in Nat /\ Cardinality(after) \in Nat
        /\ Cardinality(before) <= Cardinality(after)
    <3>1. IsFiniteSet(before) /\ IsFiniteSet(after) /\ before \subseteq after
      BY <1>1, <1>2, FS_Subset
    <3> HIDE DEF before, after
    <3>2. Cardinality(before) <= Cardinality(after)
      BY <3>1, FS_Subset
    <3>3. Cardinality(before) \in Nat /\ Cardinality(after) \in Nat
      BY <3>1, FS_CardinalityType
    <3> QED
      BY <3>1, <3>2, <3>3
  <2>3. m.nth \in Nat
    BY <1>2, <2>1 DEF Stamps
  <2>4. CASE m \in r
    BY <1>1, <2>2, <2>3, <2>4 DEF Numbered
  <2>5. CASE m = new
    <3>1. after = before \cup {new} /\ new \notin before
      BY <1>2, <1>4, <2>5
    <3>2. m.nth = Cardinality(before)
      BY <2>5
    <3> HIDE DEF before, after
    <3>3. Cardinality(before \cup {new}) = Cardinality(before) + 1
      BY <2>2, <3>1, FS_AddElement
    <3>4. m.nth < Cardinality(after)
      BY <2>2, <3>1, <3>2, <3>3
    <3> QED
      BY <3>4 DEF after
  <2> QED
    BY <1>4, <2>1, <2>4, <2>5
<1>6. Accounts(s, h, now, late)
  <2>1. SUFFICES ASSUME NEW x \in Int, x >= now - Window
                 PROVE  Cardinality(Pruned(h, x + late)) <= Cardinality(Pruned(s, x))
    BY DEF Accounts
  <2> DEFINE rx == Pruned(r, x)
             sx == Pruned(s, x)
             gx == Pruned(g, x + late)
             hx == Pruned(h, x + late)
  <2>2. /\ IsFiniteSet(rx) /\ IsFiniteSet(sx) /\ IsFiniteSet(gx) /\ IsFiniteSet(hx)
        /\ Cardinality(rx) \in Nat /\ Cardinality(sx) \in Nat
        /\ Cardinality(gx) \in Nat /\ Cardinality(hx) \in Nat
    <3>1. IsFiniteSet(h)
      BY <1>1, <1>3
    <3> QED
      BY <1>1, <1>2, <3>1, PrunedPart
  <2>3. Cardinality(gx) <= Cardinality(rx)
    BY <1>1, <2>1 DEF Accounts
  <2>4. rx \subseteq sx
    BY <1>2 DEF Pruned
  <2>5. Cardinality(rx) <= Cardinality(sx)
    BY <2>2, <2>4, FS_Subset
  <2>6. CASE hx = gx
    BY <2>2, <2>3, <2>5, <2>6
  <2>7. CASE hx # gx
    <3>1. hx = gx \cup {given} /\ now > x + late
      BY <1>4, <2>7 DEF Pruned
    <3>2. sx = rx \cup {new} /\ new \notin rx
      <4>1. t > x
        BY <2>1, <3>1
      <4>2. new \in sx /\ new \notin rx
        BY <1>2, <1>4, <4>1 DEF Pruned
      <4>3. sx \subseteq rx \cup {new}
        BY <1>4 DEF Pruned
      <4> QED
        BY <2>4, <4>2, <4>3
    <3> HIDE DEF hx, gx, sx, rx, new, given
    <3>3. Cardinality(sx) = Cardinality(rx) + 1
      BY <2>2, <3>2, FS_AddElement
    <3>4. Cardinality(hx) <= Cardinality(gx) + 1
      BY <2>2, <3>1, FS_AddElement
    <3>5. Cardinality(hx) <= Cardinality(sx)
      BY <2>2, <2>3, <3>3, <3>4
    <3> QED
      BY <3>5 DEF hx, sx
  <2> QED
    BY <2>6, <2>7
<1>7. Cardinality(s) <= Limit
  <2>1. Cardinality(r) \in Nat
    BY <1>1, FS_CardinalityType
  <2> QED
    BY <1>0, <1>2, <2>1
<1>8. h \subseteq Stamps /\ IsFiniteSet(h)
  BY <1>1, <1>3
<1> QED
  BY <1>0, <1>2, <1>5, <1>6, <1>7, <1>8 DEF Sound, Honours

\* The oldest stamp is there.
LEMMA OldestIsThere ==
  ASSUME NEW r \in SUBSET Stamps, r # {}
  PROVE  Oldest(r) \in r /\ Oldest(r).at \in Nat
<1> DEFINE times == {m.at : m \in r}
<1>1. times \subseteq Nat /\ times # {}
  BY DEF Stamps
<1>2. PICK first \in times : \A a \in times : <<a, first>> \notin OpToRel(<, Nat)
  <2> HIDE DEF times
  <2> QED
    BY <1>1, NatLessThanWellFounded, WFMin, Zenon
<1>3. \A a \in times : ~(a < first)
  BY <1>1, <1>2, Zenon DEF OpToRel
<1>4. \E m \in r : \A n \in r : m.at <= n.at
  <2>1. PICK m \in r : m.at = first
    BY <1>2
  <2>2. ASSUME NEW n \in r
        PROVE  m.at <= n.at
    <3>1. n.at \in times /\ n.at \in Nat /\ first \in Nat
      BY <1>1, <1>2
    <3>2. ~(n.at < first)
      BY <1>3, <3>1
    <3> QED
      BY <2>1, <3>1, <3>2
  <2> QED
    BY <2>2
<1>5. Oldest(r) \in r
  BY <1>4 DEF Oldest
<1> QED
  BY <1>5 DEF Stamps

\* A full window may promise any time from which its oldest request is out of it.
LEMMA SoundRefused ==
  ASSUME RateLimitAssumption, NEW now \in Nat, NEW late \in Nat, NEW r, NEW g, NEW p,
         Sound(r, g, p, now, late), ~(Cardinality(r) < Limit),
         NEW q \in Nat, q >= Oldest(r).at + Window
  PROVE  Sound(r, g, Smaller(p, q), now, late)
<1>1. r \in SUBSET Stamps /\ IsFiniteSet(r) /\ p \in Nat /\ Honours(r, p)
  BY DEF Sound
<1>2. r # {}
  BY FS_EmptySet DEF RateLimitAssumption
<1>3. Oldest(r) \in r
  BY <1>1, <1>2, OldestIsThere
<1>4. Honours(r, Smaller(p, q))
  <2>1. CASE Smaller(p, q) = p
    BY <1>1, <2>1
  <2>2. CASE Smaller(p, q) = q
    BY <1>3, <2>2 DEF Honours
  <2> QED
    BY <2>1, <2>2 DEF Smaller
<1>5. Smaller(p, q) \in Nat
  BY <1>1 DEF Smaller
<1> QED
  BY <1>4, <1>5 DEF Sound

\* A sound window is exact.
LEMMA SoundIsExact ==
  ASSUME RateLimitAssumption, NEW now \in Nat, now <= MaxTime, NEW late \in Nat,
         NEW r, NEW g, NEW p, Sound(r, g, p, now, late)
  PROVE  /\ Cardinality(Pruned(g, (now - Window) + late)) <= Limit
         /\ now >= p + late => Cardinality(Pruned(r, now - late - Window)) < Limit
<1>0. Window \in Nat /\ Limit \in Nat /\ MaxTime \in Nat /\ now - Window \in Int
  BY DEF RateLimitAssumption
<1>1. /\ r \in SUBSET Stamps /\ IsFiniteSet(r) /\ g \in SUBSET Stamps /\ IsFiniteSet(g)
      /\ p \in Nat /\ Cardinality(r) <= Limit /\ Accounts(r, g, now, late) /\ Honours(r, p)
  BY DEF Sound
<1>2. Cardinality(Pruned(g, (now - Window) + late)) <= Limit
  <2>1. Cardinality(Pruned(g, (now - Window) + late)) <= Cardinality(Pruned(r, now - Window))
    BY <1>0, <1>1 DEF Accounts
  <2>2. /\ Cardinality(Pruned(r, now - Window)) <= Cardinality(r) /\ Cardinality(r) \in Nat
        /\ Cardinality(Pruned(r, now - Window)) \in Nat
        /\ Cardinality(Pruned(g, (now - Window) + late)) \in Nat
    BY <1>1, PrunedPart
  <2> QED
    BY <1>0, <1>1, <2>1, <2>2
<1>3. ASSUME now >= p + late
      PROVE  Cardinality(Pruned(r, now - late - Window)) < Limit
  <2> DEFINE s == Pruned(r, now - late - Window)
  <2>1. p # NoPromise
    BY <1>0, <1>1, <1>3 DEF NoPromise
  <2>2. /\ Cardinality(s) <= Cardinality(r) /\ Cardinality(r) \in Nat /\ Cardinality(s) \in Nat
        /\ s # r => Cardinality(s) < Cardinality(r)
    BY <1>1, PrunedPart
  <2>3. CASE Cardinality(r) < Limit
    BY <1>0, <2>2, <2>3
  <2>4. ASSUME NEW m \in r, m.at + Window <= p
        PROVE  s # r
    BY <1>0, <1>1, <1>3, <2>4 DEF Pruned, Stamps
  <2>5. Cardinality(r) < Limit \/ s # r
    BY <1>1, <2>1, <2>4 DEF Honours
  <2> HIDE DEF s
  <2>6. Cardinality(s) < Limit
    BY <1>0, <1>1, <2>2, <2>3, <2>5
  <2> QED
    BY <2>6 DEF s
<1> QED
  BY <1>2, <1>3

LEMMA LateIsNatural ==
  ASSUME RateLimitAssumption
  PROVE  Late \in Nat /\ (windowBackend # "redis" => Late = 0)
BY DEF RateLimitAssumption, Late

LEMMA LimiterInvInit ==
  ASSUME RateLimitAssumption
  PROVE  RateLimitInit => LimiterInv
<1> SUFFICES ASSUME RateLimitInit
             PROVE  LimiterInv
  OBVIOUS
<1>1. \A k \in Keys : Sound(requests[k], granted[k], promised[k], clock, Late)
  BY SoundCleared, LateIsNatural DEF RateLimitInit
<1> QED
  BY <1>1 DEF RateLimitInit, LimiterInv, RateLimitAssumption

\* What a window is kept as decides whether it stays sound.
LEMMA DecideSound ==
  ASSUME RateLimitAssumption, LimiterInv, UNCHANGED <<windowBackend, clock>>,
         windowBackend # "none",
         NEW k \in Keys, NEW kept, NEW t \in Nat, clock - Late <= t, t <= clock, NEW lost,
         kept = [j \in Keys |-> kept[j]],
         \A j \in Keys : IF j \in lost
                         THEN Sound(kept[j], {}, NoPromise, clock, Late)
                         ELSE Sound(kept[j], granted[j], promised[j], clock, Late),
         Decide(k, kept, t, lost)
  PROVE  LimiterInv'
<1> DEFINE admitted == Cardinality(kept[k]) < Limit
<1>0. Late \in Nat /\ clock \in Nat /\ Window \in Nat /\ MaxTime \in Nat
  BY LateIsNatural DEF LimiterInv, RateLimitAssumption
<1>1. requests' = IF admitted THEN [kept EXCEPT ![k] = Inserted(@, t)] ELSE kept
  BY DEF Decide, Admitted
<1>2. granted' = [j \in Keys |->
         IF j \in lost THEN {}
         ELSE IF j = k /\ admitted THEN Inserted(Pruned(granted[j], clock - Window), clock)
         ELSE granted[j]]
  BY DEF Decide
<1>3. promised' = [j \in Keys |->
         IF j \in lost \/ (j = k /\ admitted) THEN NoPromise
         ELSE IF j = k THEN Smaller(promised[j], clock + RetryAfter(kept[k], t))
         ELSE promised[j]]
  BY DEF Decide
<1>4. Sound(requests'[k], granted'[k], promised'[k], clock, Late)
  <2>1. CASE admitted /\ k \in lost
    <3>1. requests'[k] = Inserted(kept[k], t) /\ granted'[k] = {} /\ promised'[k] = NoPromise
      BY <1>1, <1>2, <1>3, <2>1
    <3> QED
      BY <1>0, <2>1, <3>1, SoundInserted
  <2>2. CASE admitted /\ k \notin lost
    <3> DEFINE g == Pruned(granted[k], clock - Window)
    <3>1. /\ requests'[k] = Inserted(kept[k], t) /\ promised'[k] = NoPromise
          /\ granted'[k] = Inserted(g, clock)
      BY <1>1, <1>2, <1>3, <2>2
    <3>2. Sound(kept[k], g, promised[k], clock, Late)
      BY <1>0, <2>2, SoundGrantsPruned
    <3> HIDE DEF g
    <3> QED
      BY <1>0, <2>2, <3>1, <3>2, SoundInserted
  <2>3. CASE ~admitted /\ k \in lost
    BY <1>1, <1>2, <1>3, <2>3
  <2>4. CASE ~admitted /\ k \notin lost
    <3> DEFINE q == clock + RetryAfter(kept[k], t)
    <3>1. /\ requests'[k] = kept[k] /\ granted'[k] = granted[k]
          /\ promised'[k] = Smaller(promised[k], q)
      BY <1>1, <1>2, <1>3, <2>4
    <3>2. Sound(kept[k], granted[k], promised[k], clock, Late)
      BY <2>4
    <3>3. Oldest(kept[k]).at \in Nat
      <4>1. kept[k] # {}
        BY <2>4, FS_EmptySet DEF RateLimitAssumption
      <4>2. kept[k] \in SUBSET Stamps
        BY <3>2 DEF Sound
      <4> QED
        BY <4>1, <4>2, OldestIsThere
    <3>4. q \in Nat /\ q >= Oldest(kept[k]).at + Window
      <4> DEFINE more == IF windowBackend = "memory" THEN 1 ELSE 0
                 left == Window - (t - Oldest(kept[k]).at) + more
      <4>1. more \in {0, 1}
        OBVIOUS
      <4>2. RetryAfter(kept[k], t) = Larger(1, left)
        BY DEF RetryAfter
      <4> HIDE DEF more
      <4>3. left \in Int /\ clock + left >= Oldest(kept[k]).at + Window
        BY <1>0, <3>3, <4>1
      <4> HIDE DEF left
      <4>4. Larger(1, left) \in Nat /\ Larger(1, left) >= left
        BY <4>3 DEF Larger
      <4> QED
        BY <1>0, <3>3, <4>2, <4>3, <4>4
    <3> HIDE DEF q
    <3> QED
      BY <1>0, <2>4, <3>1, <3>2, <3>4, SoundRefused
  <2> QED
    BY <2>1, <2>2, <2>3, <2>4
<1>5. ASSUME NEW j \in Keys, j # k
      PROVE  Sound(requests'[j], granted'[j], promised'[j], clock, Late)
  <2>1. requests'[j] = kept[j]
    BY <1>1, <1>5
  <2>2. /\ granted'[j] = IF j \in lost THEN {} ELSE granted[j]
        /\ promised'[j] = IF j \in lost THEN NoPromise ELSE promised[j]
    BY <1>2, <1>3, <1>5
  <2> QED
    BY <2>1, <2>2
<1>6. \A j \in Keys : Sound(requests'[j], granted'[j], promised'[j], clock', Late')
  BY <1>4, <1>5 DEF Late
<1>7. /\ DOMAIN requests' = Keys /\ DOMAIN granted' = Keys /\ DOMAIN promised' = Keys
      /\ requests' = [j \in Keys |-> requests'[j]]
      /\ granted' = [j \in Keys |-> granted'[j]] /\ promised' = [j \in Keys |-> promised'[j]]
  <2>1. DOMAIN kept = Keys
    OBVIOUS
  <2> QED
    BY <1>1, <1>2, <1>3, <2>1
<1> QED
  BY <1>6, <1>7 DEF LimiterInv

\* So does a step that only prunes or clears windows.
LEMMA KeepsSound ==
  ASSUME RateLimitAssumption, LimiterInv, UNCHANGED <<windowBackend, clock>>,
         windowBackend # "none",
         requests' = [j \in Keys |-> requests'[j]],
         granted' = [j \in Keys |-> granted'[j]], promised' = [j \in Keys |-> promised'[j]],
         \A j \in Keys : Sound(requests'[j], granted'[j], promised'[j], clock, Late)
  PROVE  LimiterInv'
<1>1. \A j \in Keys : Sound(requests'[j], granted'[j], promised'[j], clock', Late')
  BY DEF Late
<1>2. DOMAIN requests' = Keys /\ DOMAIN granted' = Keys /\ DOMAIN promised' = Keys
  OBVIOUS
<1> QED
  BY <1>1, <1>2 DEF LimiterInv

\* Every reading a replica may use
LEMMA ReadingsAreRecent ==
  ASSUME RateLimitAssumption, LimiterInv, windowBackend = "redis", NEW now \in Readings
  PROVE  /\ now \in Nat /\ clock - Late <= now /\ now <= clock
         /\ now - Window \in Int /\ now - Window <= clock - Window
BY DEF Readings, Larger, Late, LimiterInv, RateLimitAssumption

\* One window of the memory or of Redis pruned, in the state of the invariant
LEMMA OnePruned ==
  ASSUME RateLimitAssumption, LimiterInv, NEW j \in Keys,
         NEW c \in Int, c <= clock - Window
  PROVE  Sound(Pruned(requests[j], c), granted[j], promised[j], clock, Late)
BY SoundPruned, LateIsNatural DEF LimiterInv

LEMMA ConsumeSound ==
  ASSUME RateLimitAssumption, LimiterInv, UNCHANGED <<windowBackend, clock>>,
         NEW k \in Keys, Consume(k)
  PROVE  LimiterInv'
<1>0. Late \in Nat /\ clock \in Nat /\ Window \in Nat /\ clock - Window \in Int
  BY LateIsNatural DEF LimiterInv, RateLimitAssumption
<1>1. CASE windowBackend = "memory" /\ ConsumeInMemory(k)
  <2> DEFINE lost == Evicted(k)
             kept == [j \in Keys |-> IF j \in lost THEN {}
                        ELSE IF j = k THEN Pruned(Kept[k], clock - Window) ELSE Kept[j]]
  <2>1. Decide(k, kept, clock, lost)
    BY <1>1 DEF ConsumeInMemory
  <2>2. ASSUME NEW j \in Keys
        PROVE  Sound(Kept[j], granted[j], promised[j], clock, Late)
    <3>1. CASE (operations + 1) % SweepEvery = 0
      <4>1. Kept[j] = Pruned(requests[j], clock - Window)
        BY <3>1 DEF Kept
      <4> QED
        BY <1>0, <4>1, OnePruned
    <3>2. CASE (operations + 1) % SweepEvery # 0
      BY <3>2 DEF Kept, LimiterInv
    <3> QED
      BY <3>1, <3>2
  <2>3. ASSUME NEW j \in Keys
        PROVE  IF j \in lost
               THEN Sound(kept[j], {}, NoPromise, clock, Late)
               ELSE Sound(kept[j], granted[j], promised[j], clock, Late)
    <3>1. CASE j \in lost
      BY <1>0, <3>1, SoundCleared
    <3>2. CASE j \notin lost /\ j = k
      BY <1>0, <2>2, <3>2, SoundPruned
    <3>3. CASE j \notin lost /\ j # k
      BY <2>2, <3>3
    <3> QED
      BY <3>1, <3>2, <3>3
  <2>4. clock - Late <= clock
    BY <1>0
  <2>5. kept = [j \in Keys |-> kept[j]]
    OBVIOUS
  <2> HIDE DEF kept, lost
  <2> QED
    BY <1>0, <1>1, <2>1, <2>3, <2>4, <2>5, DecideSound
<1>2. ASSUME NEW now \in Readings, windowBackend = "redis", ConsumeInRedis(k, now)
      PROVE  LimiterInv'
  <2> DEFINE kept == [requests EXCEPT ![k] = Pruned(@, now - Window)]
             lost == {}
  <2>1. Decide(k, kept, now, lost)
    BY <1>2 DEF ConsumeInRedis
  <2>2. /\ now \in Nat /\ clock - Late <= now /\ now <= clock
        /\ now - Window \in Int /\ now - Window <= clock - Window
    BY <1>2, ReadingsAreRecent
  <2>3. ASSUME NEW j \in Keys
        PROVE  Sound(kept[j], granted[j], promised[j], clock, Late)
    <3>1. CASE j = k
      <4>1. kept[j] = Pruned(requests[j], now - Window)
        BY <3>1 DEF LimiterInv
      <4> QED
        BY <2>2, <4>1, OnePruned
    <3>2. CASE j # k
      BY <3>2 DEF LimiterInv
    <3> QED
      BY <3>1, <3>2
  <2>4. kept = [j \in Keys |-> kept[j]]
    BY DEF LimiterInv
  <2>5. \A j \in Keys : IF j \in lost
                        THEN Sound(kept[j], {}, NoPromise, clock, Late)
                        ELSE Sound(kept[j], granted[j], promised[j], clock, Late)
    BY <2>3
  <2> HIDE DEF kept, lost
  <2> QED
    BY <1>2, <2>1, <2>2, <2>4, <2>5, DecideSound
<1> QED
  BY <1>1, <1>2 DEF Consume

LEMMA LookSound ==
  ASSUME RateLimitAssumption, LimiterInv, UNCHANGED <<windowBackend, clock>>,
         NEW k \in Keys, Look(k)
  PROVE  LimiterInv'
<1>1. ASSUME NEW c \in Int, c <= clock - Window, windowBackend # "none",
             requests' = [requests EXCEPT ![k] = Pruned(@, c)], UNCHANGED histories
      PROVE  LimiterInv'
  <2>1. ASSUME NEW j \in Keys
        PROVE  Sound(requests'[j], granted[j], promised[j], clock, Late)
    <3>1. CASE j = k
      <4>1. requests'[j] = Pruned(requests[j], c)
        BY <1>1, <3>1 DEF LimiterInv
      <4> QED
        BY <1>1, <4>1, OnePruned
    <3>2. CASE j # k
      BY <1>1, <3>2 DEF LimiterInv
    <3> QED
      BY <3>1, <3>2
  <2>2. requests' = [j \in Keys |-> requests'[j]]
    BY <1>1 DEF LimiterInv
  <2>3. granted' = granted /\ promised' = promised
    BY <1>1 DEF histories
  <2>4. granted = [j \in Keys |-> granted[j]] /\ promised = [j \in Keys |-> promised[j]]
    BY DEF LimiterInv
  <2>5. granted' = [j \in Keys |-> granted'[j]] /\ promised' = [j \in Keys |-> promised'[j]]
    BY <2>3, <2>4
  <2>6. \A j \in Keys : Sound(requests'[j], granted'[j], promised'[j], clock, Late)
    BY <2>1, <2>3
  <2> QED
    BY <1>1, <2>2, <2>5, <2>6, KeepsSound
<1>2. clock - Window \in Int /\ clock - Window <= clock - Window
  BY DEF LimiterInv, RateLimitAssumption
<1>3. CASE windowBackend = "memory" /\ LookInMemory(k)
  BY <1>1, <1>2, <1>3 DEF LookInMemory, histories
<1>4. CASE windowBackend = "redis" /\ LookInRedis(k)
  <2>1. PICK now \in Readings : requests' = [requests EXCEPT ![k] = Pruned(@, now - Window)]
    BY <1>4 DEF LookInRedis
  <2>2. now - Window \in Int /\ now - Window <= clock - Window
    BY <1>4, ReadingsAreRecent
  <2> QED
    BY <1>1, <1>4, <2>1, <2>2 DEF LookInRedis, histories
<1> QED
  BY <1>3, <1>4 DEF Look

LEMMA ClearSound ==
  ASSUME RateLimitAssumption, LimiterInv, UNCHANGED <<windowBackend, clock>>,
         NEW k \in Keys, Clear(k)
  PROVE  LimiterInv'
<1>0. Late \in Nat /\ clock \in Nat
  BY LateIsNatural DEF LimiterInv
<1>1. ASSUME NEW j \in Keys
      PROVE  Sound(requests'[j], granted'[j], promised'[j], clock', Late')
  <2>1. CASE j = k
    <3>1. requests'[j] = {} /\ granted'[j] = {} /\ promised'[j] = NoPromise
      BY <2>1 DEF Clear, LimiterInv
    <3>2. Sound({}, {}, NoPromise, clock, Late)
      BY <1>0, SoundCleared
    <3> QED
      BY <3>1, <3>2 DEF Late
  <2>2. CASE j # k
    BY <2>2 DEF Clear, LimiterInv, Late
  <2> QED
    BY <2>1, <2>2
<1> QED
  BY <1>1 DEF Clear, LimiterInv

LEMMA ExpireSound ==
  ASSUME RateLimitAssumption, LimiterInv, NEW k \in Keys, Expire(k)
  PROVE  LimiterInv'
<1>0. clock - Window \in Int /\ clock - Window <= clock - Window
  BY DEF LimiterInv, RateLimitAssumption
<1>1. ASSUME NEW j \in Keys
      PROVE  Sound(requests'[j], granted[j], promised[j], clock, Late)
  <2>1. CASE j = k
    <3>1. requests'[j] = Pruned(requests[j], clock - Window)
      BY <2>1 DEF Expire, LimiterInv
    <3> QED
      BY <1>0, <3>1, OnePruned
  <2>2. CASE j # k
    BY <2>2 DEF Expire, LimiterInv
  <2> QED
    BY <2>1, <2>2
<1> QED
  BY <1>1 DEF Expire, histories, LimiterInv, Late

LEMMA TickSound ==
  ASSUME RateLimitAssumption, LimiterInv, Tick
  PROVE  LimiterInv'
<1>1. ASSUME NEW k \in Keys
      PROVE  Sound(requests[k], granted[k], promised[k], clock + 1, Late)
  <2>1. Sound(requests[k], granted[k], promised[k], clock, Late)
    BY DEF LimiterInv
  <2>2. \A x \in Int : x >= (clock + 1) - Window => x >= clock - Window
    BY DEF LimiterInv, RateLimitAssumption
  <2>3. Accounts(requests[k], granted[k], clock + 1, Late)
    <3>1. Accounts(requests[k], granted[k], clock, Late)
      BY <2>1 DEF Sound
    <3> QED
      BY <2>2, <3>1 DEF Accounts
  <2> QED
    BY <2>1, <2>3 DEF Sound
<1>2. UNCHANGED <<windowBackend, requests, granted, promised>> /\ clock' = clock + 1
  BY DEF Tick, tables, histories
<1>3. clock' \in Nat /\ clock' <= MaxTime
  BY <1>2 DEF Tick, LimiterInv, RateLimitAssumption
<1>4. \A k \in Keys : Sound(requests'[k], granted'[k], promised'[k], clock', Late')
  BY <1>1, <1>2 DEF Late
<1> QED
  BY <1>2, <1>3, <1>4 DEF LimiterInv

LEMMA ConfigureSound ==
  ASSUME RateLimitAssumption, LimiterInv, NEW choice \in {"memory", "redis"},
         Configure(choice)
  PROVE  LimiterInv'
<1>1. UNCHANGED <<clock, requests, granted, promised>> /\ windowBackend' = choice
  BY DEF Configure, tables, histories
<1>2. Late' \in Nat
  BY <1>1 DEF Late, RateLimitAssumption
<1>3. ASSUME NEW k \in Keys
      PROVE  Sound(requests'[k], granted'[k], promised'[k], clock', Late')
  <2>1. requests'[k] = {} /\ granted'[k] = {} /\ promised'[k] = NoPromise
    BY <1>1 DEF Configure, LimiterInv
  <2>2. clock' \in Nat
    BY <1>1 DEF LimiterInv
  <2> QED
    BY <1>2, <2>1, <2>2, SoundCleared
<1> QED
  BY <1>1, <1>3 DEF LimiterInv

LEMMA LimiterInvStep ==
  ASSUME RateLimitAssumption
  PROVE  LimiterInv /\ [RateLimitNext]_rateLimitVars => LimiterInv'
<1> SUFFICES ASSUME LimiterInv, [RateLimitNext]_rateLimitVars
             PROVE  LimiterInv'
  OBVIOUS
<1>1. ASSUME NEW choice \in {"memory", "redis"}, Configure(choice) PROVE LimiterInv'
  BY <1>1, ConfigureSound
<1>2. ASSUME NEW k \in Keys, Request(k) PROVE LimiterInv'
  BY <1>2, ConsumeSound DEF Request
<1>3. ASSUME NEW k \in Keys, Expire(k) PROVE LimiterInv'
  BY <1>3, ExpireSound
<1>4. AdminKeys \subseteq Keys
  BY DEF RateLimitAssumption
<1>5. ASSUME NEW k \in AdminKeys, CheckAttempt(k) PROVE LimiterInv'
  BY <1>4, <1>5, LookSound DEF CheckAttempt
<1>6. ASSUME NEW k \in AdminKeys, WrongKey(k) PROVE LimiterInv'
  BY <1>4, <1>6, ConsumeSound DEF WrongKey
<1>7. ASSUME NEW k \in AdminKeys, RightKey(k) PROVE LimiterInv'
  BY <1>4, <1>7, ClearSound DEF RightKey
<1>8. CASE Tick
  BY <1>8, TickSound
<1>9. CASE UNCHANGED rateLimitVars
  BY <1>9 DEF rateLimitVars, tables, histories, LimiterInv, Late
<1> QED
  BY <1>1, <1>2, <1>3, <1>5, <1>6, <1>7, <1>8, <1>9 DEF RateLimitNext

\* The inductive invariant: every window is sound, whatever its keys, limit, length and lag.
THEOREM LimiterInvariant ==
  ASSUME RateLimitAssumption
  PROVE  RateLimitSpec => []LimiterInv
<1>1. RateLimitInit => LimiterInv
  BY LimiterInvInit
<1>2. LimiterInv /\ [RateLimitNext]_rateLimitVars => LimiterInv'
  BY LimiterInvStep
<1> QED
  BY <1>1, <1>2, PTL DEF RateLimitSpec

\* The window is exact: in the memory of one process and in Redis behind replicas whose clock
\* readings lag, it never admits more than its limit in any span of its length less the lag,
\* and a client that waited as long as a refusal told it is admitted when no one else used
\* the window (app/core/rate_limit.py).
THEOREM WindowIsExactCorrect ==
  ASSUME RateLimitAssumption
  PROVE  RateLimitSpec => []WindowIsExact
<1>1. LimiterInv => WindowIsExact
  <2> SUFFICES ASSUME LimiterInv
               PROVE  WindowIsExact
    OBVIOUS
  <2> DEFINE span == IF windowBackend = "memory" THEN Window ELSE Window - Lag
  <2>0. /\ clock \in Nat /\ clock <= MaxTime /\ Late \in Nat /\ Window \in Nat /\ Lag \in Nat
        /\ Limit \in Nat
    BY LateIsNatural DEF LimiterInv, RateLimitAssumption
  <2>1. ASSUME NEW k \in Keys
        PROVE  /\ Cardinality(Pruned(granted[k], (clock - Window) + Late)) <= Limit
               /\ clock >= promised[k] + Late =>
                    Cardinality(Pruned(requests[k], clock - Late - Window)) < Limit
    <3>1. Sound(requests[k], granted[k], promised[k], clock, Late)
      BY DEF LimiterInv
    <3> QED
      BY <2>0, <3>1, SoundIsExact
  <2>2. ASSUME NEW k \in Keys
        PROVE  Cardinality(Pruned(granted[k], clock - span)) <= Limit
    <3>1. CASE windowBackend = "none"
      <4>1. Pruned(granted[k], clock - span) = {}
        BY <3>1 DEF LimiterInv, Pruned
      <4> QED
        BY <2>0, <4>1, FS_EmptySet
    <3>2. CASE windowBackend # "none"
      <4>1. clock - span = (clock - Window) + Late
        BY <2>0, <3>2 DEF LimiterInv, Late
      <4> QED
        BY <2>1, <4>1
    <3> QED
      BY <3>1, <3>2
  <2> QED
    BY <2>1, <2>2 DEF WindowIsExact, Late
<1> QED
  BY <1>1, LimiterInvariant, PTL

-----------------------------------------------------------------------------
(* Backtest: the event-driven engine implements the account, and both engines *)
(* trade alike.                                                               *)

\* A run that is over holds nothing, and one that has not begun has its whole capital.
BacktestInv ==
  /\ cash \in Int /\ quantity \in Nat
  /\ phase \in {"idle", "open", "close", "done"}
  /\ phase \in {"idle", "done"} => quantity = 0
  /\ phase = "idle" => cash = Capital

\* A product of positive numbers is positive: what one share costs is never free.
LEMMA ProductIsPositive ==
  ASSUME NEW a \in Nat \ {0}, NEW b \in Nat \ {0}
  PROVE  a * b \in Nat \ {0}
OBVIOUS

\* As many shares as the quotient of the cash by the cost are paid by the cash
\* (the floor division of event_engine.py:199).
LEMMA QuotientFits ==
  ASSUME NEW a \in Int, NEW b \in Nat \ {0}, NEW n \in Nat, n <= a \div b
  PROVE  n * b <= a
<1>1. (a \div b) \in Int
  OBVIOUS
<1>2. b * (a \div b) <= a
  OBVIOUS
<1>3. n * b <= (a \div b) * b
  BY <1>1
<1> QED
  BY <1>1, <1>2, <1>3

\* Both amounts of a share are integers, and buying it is never free (CostModel).
LEMMA Amounts ==
  ASSUME BacktestAssumption, NEW price \in Prices
  PROVE  BuyCost(price) \in Nat \ {0} /\ SaleProceeds(price) \in Int
<1> DEFINE c == 100 + Slippage
           f == 100 + Commission
           g == 100 - Slippage
           h == 100 - Commission - Tax
<1>1. price \in Nat \ {0} /\ c \in Nat \ {0} /\ f \in Nat \ {0} /\ g \in Int /\ h \in Int
  BY DEF BacktestAssumption
<1> HIDE DEF c, f, g, h
<1>2. price * c \in Nat \ {0}
  BY <1>1, ProductIsPositive
<1>3. (price * c) * f \in Nat \ {0}
  BY <1>1, <1>2, ProductIsPositive
<1>4. (price * g) * h \in Int
  BY <1>1
<1> QED
  BY <1>3, <1>4 DEF BuyCost, SaleProceeds, c, f, g, h

\* The volume limit only lowers an order (_bounded_quantity).
LEMMA BoundedIsLess ==
  ASSUME BacktestAssumption, NEW requested \in Int, NEW volume \in Volumes
  PROVE  Bounded(requested, volume) \in Int /\ Bounded(requested, volume) <= requested
<1>1. volume \in Nat /\ Participation \in Nat
  BY DEF BacktestAssumption
<1>2. volume * Participation \in Nat
  BY <1>1
<1>3. (volume * Participation) \div 100 \in Int
  BY <1>2
<1> QED
  BY <1>3 DEF Bounded, Lesser

\* An executed buy order is a purchase the cash pays for, or changes nothing.
LEMMA BuyIsATrade ==
  ASSUME BacktestAssumption, BacktestInv, phase = "open", phase' = "close",
         NEW price \in Prices, NEW volume \in Volumes, ExecuteBuy(price, volume)
  PROVE  BacktestInv' /\ (Ledger!Trade \/ UNCHANGED <<cash, quantity>>)
<1> DEFINE cost == BuyCost(price)
           requested == cash \div cost
           filled == Bounded(requested, volume)
<1>1. cost \in Nat \ {0} /\ cash \in Int /\ quantity \in Nat
  BY Amounts DEF BacktestInv
<1>2. requested \in Int
  BY <1>1
<1>3. filled \in Int /\ filled <= requested
  BY <1>2, BoundedIsLess
<1>4. CASE filled <= 0
  <2>1. UNCHANGED <<cash, quantity>>
    BY <1>4 DEF ExecuteBuy, Reject
  <2> QED
    BY <2>1 DEF BacktestInv
<1>5. CASE ~(filled <= 0)
  <2>1. cash' = cash - filled * cost /\ quantity' = quantity + filled
    BY <1>5 DEF ExecuteBuy, Fill
  <2> HIDE DEF cost, requested, filled
  <2>2. filled \in 1 .. requested /\ filled \in Nat
    BY <1>2, <1>3, <1>5
  <2>3. filled * cost <= cash
    BY <1>1, <1>3, <2>2, QuotientFits DEF requested
  <2>4. cash' \in Int /\ quantity' \in Nat
    BY <1>1, <2>1, <2>2
  <2>5. cost \in {BuyCost(p) : p \in Prices}
    BY DEF cost
  <2>6. Ledger!Buy(filled, cost)
    BY <2>1, <2>2, <2>3 DEF Ledger!Buy
  <2>7. filled \in 1 .. (cash \div cost)
    BY <2>2 DEF requested
  <2>8. Ledger!Trade
    BY <2>5, <2>6, <2>7 DEF Ledger!Trade
  <2> QED
    BY <2>4, <2>8 DEF BacktestInv
<1> QED
  BY <1>4, <1>5

\* An executed sell order is a sale of shares that are held, or changes nothing.
LEMMA SellIsATrade ==
  ASSUME BacktestAssumption, BacktestInv, phase = "open", phase' = "close",
         NEW price \in Prices, NEW volume \in Volumes, ExecuteSell(price, volume)
  PROVE  BacktestInv' /\ (Ledger!Trade \/ UNCHANGED <<cash, quantity>>)
<1> DEFINE gain == SaleProceeds(price)
           filled == Bounded(quantity, volume)
<1>1. gain \in Int /\ cash \in Int /\ quantity \in Nat
  BY Amounts DEF BacktestInv
<1>2. filled \in Int /\ filled <= quantity
  BY <1>1, BoundedIsLess
<1>3. CASE filled <= 0
  <2>1. UNCHANGED <<cash, quantity>>
    BY <1>3 DEF ExecuteSell, Reject
  <2> QED
    BY <2>1 DEF BacktestInv
<1>4. CASE ~(filled <= 0)
  <2>1. cash' = cash + filled * gain /\ quantity' = quantity - filled
    BY <1>4 DEF ExecuteSell, Fill
  <2>2. gain \in {SaleProceeds(p) : p \in Prices}
    OBVIOUS
  <2> HIDE DEF gain, filled
  <2>3. filled \in 1 .. quantity
    BY <1>1, <1>2, <1>4
  <2>4. cash' \in Int /\ quantity' \in Nat
    BY <1>1, <2>1, <2>3
  <2>5. Ledger!Sell(filled, gain)
    BY <1>1, <2>1, <2>3 DEF Ledger!Sell
  <2>6. Ledger!Trade
    BY <2>2, <2>3, <2>5 DEF Ledger!Trade
  <2> QED
    BY <2>4, <2>6 DEF BacktestInv
<1> QED
  BY <1>3, <1>4

\* The forced sale of the last bar sells all that is held, and finishes the account.
LEMMA ForcedSaleFinishes ==
  ASSUME BacktestAssumption, BacktestInv, quantity > 0, phase = "close", phase' = "done",
         NEW price \in Prices, ForceClose(price)
  PROVE  BacktestInv' /\ Ledger!Finish
<1> DEFINE gain == SaleProceeds(price)
<1>1. gain \in Int /\ cash \in Int /\ quantity \in Nat
  BY Amounts DEF BacktestInv
<1>2. cash' = cash + quantity * gain /\ quantity' = 0
  BY DEF ForceClose, Fill
<1>3. gain \in {SaleProceeds(p) : p \in Prices}
  OBVIOUS
<1> HIDE DEF gain
<1>4. Ledger!Sell(quantity, gain)
  BY <1>1, <1>2 DEF Ledger!Sell
<1>5. Ledger!Finish
  BY <1>2, <1>3, <1>4 DEF Ledger!Finish
<1>6. cash' \in Int
  BY <1>1, <1>2
<1> QED
  BY <1>2, <1>5, <1>6 DEF BacktestInv

\* A request, a fold or an answer that starts an engine over, from nothing held: the
\* account is as it was, or a new one is opened for the one that is finished.
LEMMA FreshAccount ==
  ASSUME BacktestAssumption, BacktestInv, phase \in {"idle", "done"},
         cash' = Capital, quantity' = 0, phase' \in {"idle", "open"}
  PROVE  BacktestInv' /\ [Ledger!Next]_(Ledger!accountVars)
<1>1. Capital \in Int
  BY DEF BacktestAssumption
<1>2. BacktestInv'
  BY <1>1 DEF BacktestInv
<1>3. CASE phase = "idle"
  BY <1>3 DEF BacktestInv, Ledger!accountVars
<1>4. CASE phase = "done"
  <2>1. Ledger!Reopen
    BY <1>4 DEF Ledger!Reopen
  <2> QED
    BY <1>2, <2>1 DEF Ledger!Next
<1> QED
  BY <1>2, <1>3, <1>4

LEMMA StepImplements ==
  ASSUME BacktestAssumption, BacktestInv, [BacktestNext]_backtestVars
  PROVE  BacktestInv' /\ [Ledger!Next]_(Ledger!accountVars)
<1>1. CASE BeginBacktest
  <2>1. phase = "idle" /\ FreshEngine
    BY <1>1 DEF BeginBacktest, StartBacktest, StartStrategies, StartValidation
  <2> QED
    BY <2>1, FreshAccount DEF FreshEngine
<1>2. ASSUME NEW price \in Prices, NEW volume \in Volumes, Open(price, volume)
      PROVE  BacktestInv' /\ [Ledger!Next]_(Ledger!accountVars)
  <2>1. phase = "open" /\ phase' = "close"
    BY <1>2 DEF Open
  <2>2. \/ ExecuteBuy(price, volume) \/ ExecuteSell(price, volume)
        \/ UNCHANGED <<cash, quantity>>
    BY <1>2 DEF Open, accountLocals
  <2>3. BacktestInv' /\ (Ledger!Trade \/ UNCHANGED <<cash, quantity>>)
    <3>1. CASE ExecuteBuy(price, volume)
      BY <2>1, <3>1, BuyIsATrade
    <3>2. CASE ExecuteSell(price, volume)
      BY <2>1, <3>2, SellIsATrade
    <3>3. CASE UNCHANGED <<cash, quantity>>
      BY <2>1, <3>3 DEF BacktestInv
    <3> QED
      BY <2>2, <3>1, <3>2, <3>3
  <2> QED
    BY <2>1, <2>3 DEF Ledger!Next, Ledger!accountVars
<1>3. ASSUME NEW price \in Prices, NEW signal \in {0, 1}, Close(price, signal)
      PROVE  BacktestInv' /\ [Ledger!Next]_(Ledger!accountVars)
  <2>1. phase = "close" /\ phase' = (IF bar = LastBar THEN "done" ELSE "open")
    BY <1>3 DEF Close
  <2>2. CASE bar = LastBar /\ quantity > 0
    <3>1. ForceClose(price) /\ phase' = "done"
      BY <1>3, <2>1, <2>2 DEF Close
    <3> QED
      BY <2>1, <2>2, <3>1, ForcedSaleFinishes DEF Ledger!Next
  <2>3. CASE bar = LastBar /\ ~(quantity > 0)
    <3>1. UNCHANGED <<cash, quantity>> /\ phase' = "done"
      BY <1>3, <2>1, <2>3 DEF Close, accountLocals
    <3>2. quantity = 0
      BY <2>3 DEF BacktestInv
    <3>3. Ledger!Finish
      BY <2>1, <3>1, <3>2 DEF Ledger!Finish
    <3> QED
      BY <3>1, <3>2, <3>3 DEF BacktestInv, Ledger!Next
  <2>4. CASE bar # LastBar
    <3>1. UNCHANGED <<cash, quantity>> /\ phase' = "open"
      BY <1>3, <2>1, <2>4 DEF Close, accountLocals
    <3> QED
      BY <2>1, <3>1 DEF BacktestInv, Ledger!accountVars
  <2> QED
    BY <2>2, <2>3, <2>4
<1>4. CASE NextFold
  <2>1. phase = "done" /\ FreshEngine
    BY <1>4 DEF NextFold
  <2> QED
    BY <2>1, FreshAccount DEF FreshEngine
<1>5. CASE ReturnResult
  BY <1>5, FreshAccount DEF ReturnResult
<1>6. CASE UNCHANGED backtestVars
  BY <1>6 DEF backtestVars, accountLocals, BacktestInv, Ledger!accountVars
<1> QED
  BY <1>1, <1>2, <1>3, <1>4, <1>5, <1>6 DEF BacktestNext, Trading

\* A run that is over holds nothing, and one that has not begun has its whole capital: the
\* invariant of the engine's money that the refinement rests on (event_engine.py:79-92, 130-156).
THEOREM HoldsNothingBetweenRuns ==
  ASSUME BacktestAssumption
  PROVE  BacktestSpec => []BacktestInv
<1>1. BacktestInit => BacktestInv
  BY DEF BacktestInit, BacktestInv, BacktestAssumption
<1>2. BacktestInv /\ [BacktestNext]_backtestVars => BacktestInv'
  BY StepImplements
<1> QED
  BY <1>1, <1>2, PTL DEF BacktestSpec

\* The event-driven engine implements the account: whatever the strategy signals and
\* however thin the market, no order buys on credit or sells what is not held, and the end
\* of a run leaves no position (event_engine.py:194-283).
THEOREM EngineImplementsAccount ==
  ASSUME BacktestAssumption
  PROVE  BacktestSpec => KeepsAnAccount
<1>1. BacktestInit => Ledger!Init
  BY DEF BacktestInit, Ledger!Init
<1>2. BacktestInv /\ [BacktestNext]_backtestVars => [Ledger!Next]_(Ledger!accountVars)
  BY StepImplements
<1> QED
  BY <1>1, <1>2, HoldsNothingBetweenRuns, PTL DEF BacktestSpec, KeepsAnAccount, Ledger!Spec

-----------------------------------------------------------------------------
(* That both engines trade alike.                                            *)

Trade == [bar : Nat, side : {"buy", "sell"}, at : {"open", "close"}]

\* What an order at the open of a bar leaves of a position
OrderAt(observed, i) ==
  [bar |-> i, side |-> IF Position(observed, i) = 1 THEN "buy" ELSE "sell", at |-> "open"]
OrdersUpTo(observed, last) == {OrderAt(observed, i) : i \in Changes(observed, last)}

Traded == {trades[i] : i \in DOMAIN trades}

\* No order of a run of the event-driven engine was refused or cut.
Uncut == "event_driven" \in job.engines /\ rejected = 0 /\ partial = 0

\* The order that leads from what is held to what is desired
OrderFor(desired) ==
  IF desired = Holding THEN "none" ELSE IF desired = 1 THEN "buy" ELSE "sell"

RunTypes ==
  /\ bar \in Nat /\ signals \in Seq({0, 1}) /\ trades \in Seq(Trade)
  /\ rejected \in Nat /\ partial \in Nat /\ pending \in {"none", "buy", "sell"}
  /\ phase \in {"open", "close"} => Len(signals) = bar

\* Before the open of a bar the trades are those of the bars before, and the order that
\* waits is the one the last signal asks for.
BeforeOpen ==
  phase = "open" /\ Uncut =>
    IF bar = 0 THEN quantity = 0 /\ pending = "none" /\ trades = <<>>
    ELSE /\ Holding = Position(signals, bar - 1)
         /\ pending = OrderFor(signals[bar])
         /\ Traded = OrdersUpTo(signals, bar - 1)

\* Before its close what is held is the position of the bar.
BeforeClose ==
  phase = "close" /\ Uncut =>
    Holding = Position(signals, bar) /\ Traded = OrdersUpTo(signals, bar)

AgreeInv == BacktestInv /\ RunTypes /\ BeforeOpen /\ BeforeClose /\ EnginesAgree

\* Position and trades up to a bar depend on the signals before it only.
LEMMA PositionsAreKept ==
  ASSUME NEW s \in Seq({0, 1}), NEW d \in {0, 1}, NEW n \in 0 .. Len(s)
  PROVE  /\ Append(s, d) \in Seq({0, 1}) /\ Len(Append(s, d)) = Len(s) + 1
         /\ Append(s, d)[Len(s) + 1] = d
         /\ \A i \in 0 .. n : Position(Append(s, d), i) = Position(s, i)
         /\ OrdersUpTo(Append(s, d), n) = OrdersUpTo(s, n)
<1>1. /\ Append(s, d) \in Seq({0, 1}) /\ Len(Append(s, d)) = Len(s) + 1 /\ Len(s) \in Nat
      /\ Append(s, d)[Len(s) + 1] = d
      /\ \A i \in 1 .. Len(s) : Append(s, d)[i] = s[i]
  OBVIOUS
<1>2. \A i \in 0 .. n : Position(Append(s, d), i) = Position(s, i)
  BY <1>1 DEF Position
<1>3. Changes(Append(s, d), n) = Changes(s, n)
  <2>1. \A i \in 1 .. n : /\ Position(Append(s, d), i) = Position(s, i)
                          /\ Position(Append(s, d), i - 1) = Position(s, i - 1)
    BY <1>2
  <2> QED
    BY <2>1 DEF Changes
<1>4. \A i \in Changes(s, n) : OrderAt(Append(s, d), i) = OrderAt(s, i)
  BY <1>2 DEF Changes, OrderAt
<1>5. OrdersUpTo(Append(s, d), n) = OrdersUpTo(s, n)
  BY <1>3, <1>4 DEF OrdersUpTo
<1> QED
  BY <1>1, <1>2, <1>5

\* One bar more adds an order where the position changes.
LEMMA OneBarMore ==
  ASSUME NEW s, NEW n \in Nat
  PROVE  OrdersUpTo(s, n + 1) = OrdersUpTo(s, n) \cup
           (IF Position(s, n + 1) # Position(s, n) THEN {OrderAt(s, n + 1)} ELSE {})
<1>1. \A i : i \in 1 .. n + 1 <=> i \in 1 .. n \/ i = n + 1
  OBVIOUS
<1>2. (n + 1) - 1 = n
  OBVIOUS
<1>3. \A i : i \in Changes(s, n + 1) <=>
        i \in Changes(s, n) \/ (i = n + 1 /\ Position(s, n + 1) # Position(s, n))
  BY <1>1, <1>2 DEF Changes
<1> QED
  BY <1>3 DEF OrdersUpTo

LEMMA NoOrderAtFirst == ASSUME NEW s PROVE OrdersUpTo(s, 0) = {}
BY DEF OrdersUpTo, Changes

\* The trades after one more, which is a trade
LEMMA OneTradeMore ==
  ASSUME trades \in Seq(Trade), NEW trade \in Trade, trades' = Append(trades, trade)
  PROVE  trades' \in Seq(Trade) /\ Traded' = Traded \cup {trade}
<1>1. /\ trades' \in Seq(Trade) /\ Len(trades) \in Nat
      /\ DOMAIN trades = 1 .. Len(trades) /\ DOMAIN trades' = 1 .. Len(trades) + 1
      /\ \A i \in 1 .. Len(trades) : trades'[i] = trades[i]
      /\ trades'[Len(trades) + 1] = trade
  OBVIOUS
<1>2. \A i : i \in 1 .. Len(trades) + 1 <=> i \in 1 .. Len(trades) \/ i = Len(trades) + 1
  BY <1>1
<1> QED
  BY <1>1, <1>2 DEF Traded

\* A buy order that is neither refused nor cut buys, and a sell order sells everything.
LEMMA UncutBuy ==
  ASSUME BacktestAssumption, BacktestInv, RunTypes,
         NEW price \in Prices, NEW volume \in Volumes, ExecuteBuy(price, volume)
  PROVE  /\ trades' \in Seq(Trade) /\ rejected' \in Nat /\ partial' \in Nat
         /\ rejected' = 0 /\ partial' = 0 =>
              /\ rejected = 0 /\ partial = 0 /\ quantity' > 0
              /\ Traded' = Traded \cup {[bar |-> bar, side |-> "buy", at |-> "open"]}
<1> DEFINE requested == cash \div BuyCost(price)
           filled == Bounded(requested, volume)
           trade == [bar |-> bar, side |-> "buy", at |-> "open"]
<1>1. BuyCost(price) \in Nat \ {0} /\ cash \in Int /\ quantity \in Nat
  BY Amounts DEF BacktestInv
<1>2. requested \in Int
  BY <1>1
<1>3. filled \in Int
  BY <1>2, BoundedIsLess
<1>4. trades \in Seq(Trade) /\ trade \in Trade /\ rejected \in Nat /\ partial \in Nat
  BY DEF RunTypes, Trade
<1>5. CASE filled <= 0
  <2>1. rejected' = rejected + 1 /\ UNCHANGED <<trades, partial>>
    BY <1>5 DEF ExecuteBuy, Reject
  <2> QED
    BY <1>4, <2>1
<1>6. CASE ~(filled <= 0)
  <2>1. /\ quantity' = quantity + filled /\ trades' = Append(trades, trade)
        /\ partial' = (IF filled < requested THEN partial + 1 ELSE partial)
        /\ UNCHANGED rejected
    BY <1>6 DEF ExecuteBuy, Fill
  <2>2. trades' \in Seq(Trade) /\ Traded' = Traded \cup {trade}
    BY <1>4, <2>1, OneTradeMore
  <2> HIDE DEF requested, filled, trade
  <2>3. quantity' > 0
    BY <1>1, <1>3, <1>6, <2>1
  <2>4. partial' \in Nat /\ (partial' = 0 => partial = 0)
    BY <1>4, <2>1
  <2> QED
    BY <1>4, <2>1, <2>2, <2>3, <2>4 DEF trade
<1> QED
  BY <1>5, <1>6

LEMMA UncutSell ==
  ASSUME BacktestAssumption, BacktestInv, RunTypes,
         NEW price \in Prices, NEW volume \in Volumes, ExecuteSell(price, volume)
  PROVE  /\ trades' \in Seq(Trade) /\ rejected' \in Nat /\ partial' \in Nat
         /\ rejected' = 0 /\ partial' = 0 =>
              /\ rejected = 0 /\ partial = 0 /\ quantity' = 0
              /\ Traded' = Traded \cup {[bar |-> bar, side |-> "sell", at |-> "open"]}
<1> DEFINE filled == Bounded(quantity, volume)
           trade == [bar |-> bar, side |-> "sell", at |-> "open"]
<1>1. quantity \in Nat
  BY DEF BacktestInv
<1>2. filled \in Int /\ filled <= quantity
  BY <1>1, BoundedIsLess
<1>3. trades \in Seq(Trade) /\ trade \in Trade /\ rejected \in Nat /\ partial \in Nat
  BY DEF RunTypes, Trade
<1>4. CASE filled <= 0
  <2>1. rejected' = rejected + 1 /\ UNCHANGED <<trades, partial>>
    BY <1>4 DEF ExecuteSell, Reject
  <2> QED
    BY <1>3, <2>1
<1>5. CASE ~(filled <= 0)
  <2>1. /\ quantity' = quantity - filled /\ trades' = Append(trades, trade)
        /\ partial' = (IF filled < quantity THEN partial + 1 ELSE partial)
        /\ UNCHANGED rejected
    BY <1>5 DEF ExecuteSell, Fill
  <2>2. trades' \in Seq(Trade) /\ Traded' = Traded \cup {trade}
    BY <1>3, <2>1, OneTradeMore
  <2> HIDE DEF filled, trade
  <2>3. partial' \in Nat /\ (partial' = 0 => partial = 0 /\ ~(filled < quantity))
    BY <1>3, <2>1
  <2>4. ~(filled < quantity) => quantity' = 0
    BY <1>1, <1>2, <2>1
  <2> QED
    BY <1>3, <2>1, <2>2, <2>3, <2>4 DEF trade
<1> QED
  BY <1>4, <1>5

\* The open of a bar executes the order, and what is held is then the position of the bar.
LEMMA OpenAgrees ==
  ASSUME BacktestAssumption, AgreeInv, BacktestInv',
         NEW price \in Prices, NEW volume \in Volumes, Open(price, volume)
  PROVE  AgreeInv'
<1>1. /\ phase = "open" /\ phase' = "close" /\ pending' = "none"
      /\ UNCHANGED <<job, bar, signals, saved>>
  BY DEF Open
<1>2. /\ bar \in Nat /\ signals \in Seq({0, 1}) /\ trades \in Seq(Trade)
      /\ rejected \in Nat /\ partial \in Nat /\ Len(signals) = bar
      /\ pending \in {"none", "buy", "sell"} /\ quantity \in Nat
  BY <1>1 DEF AgreeInv, RunTypes, BacktestInv
<1>3. /\ trades' \in Seq(Trade) /\ rejected' \in Nat /\ partial' \in Nat
      /\ rejected' = 0 /\ partial' = 0 =>
           /\ rejected = 0 /\ partial = 0
           /\ \/ pending = "none" /\ quantity' = quantity /\ Traded' = Traded
              \/ /\ pending = "buy" /\ quantity' > 0
                 /\ Traded' = Traded \cup {[bar |-> bar, side |-> "buy", at |-> "open"]}
              \/ /\ pending = "sell" /\ quantity' = 0
                 /\ Traded' = Traded \cup {[bar |-> bar, side |-> "sell", at |-> "open"]}
  <2>1. CASE pending = "buy"
    <3>1. ExecuteBuy(price, volume)
      BY <2>1 DEF Open
    <3> QED
      BY <2>1, <3>1, UncutBuy DEF AgreeInv
  <2>2. CASE pending = "sell"
    <3>1. ExecuteSell(price, volume)
      BY <2>2 DEF Open
    <3> QED
      BY <2>2, <3>1, UncutSell DEF AgreeInv
  <2>3. CASE pending = "none"
    <3>1. UNCHANGED <<quantity, trades, rejected, partial>>
      BY <2>3 DEF Open, accountLocals
    <3> QED
      BY <1>2, <2>3, <3>1 DEF Traded
  <2> QED
    BY <1>2, <2>1, <2>2, <2>3
<1>4. RunTypes'
  BY <1>1, <1>2, <1>3 DEF RunTypes
<1>5. BeforeClose'
  <2>1. SUFFICES ASSUME Uncut'
                 PROVE  Holding' = Position(signals, bar) /\ Traded' = OrdersUpTo(signals, bar)
    BY <1>1 DEF BeforeClose
  <2>2. Uncut /\ rejected' = 0 /\ partial' = 0
    BY <1>1, <1>3, <2>1 DEF Uncut
  <2>3. CASE bar = 0
    <3>1. quantity = 0 /\ pending = "none" /\ trades = <<>>
      BY <1>1, <2>2, <2>3 DEF AgreeInv, BeforeOpen
    <3>2. quantity' = 0 /\ Traded' = {}
      BY <1>3, <2>2, <3>1 DEF Traded
    <3> QED
      BY <2>3, <3>2, NoOrderAtFirst DEF Holding, Position
  <2>4. CASE bar # 0
    <3>1. /\ Holding = Position(signals, bar - 1) /\ pending = OrderFor(signals[bar])
          /\ Traded = OrdersUpTo(signals, bar - 1)
      BY <1>1, <2>2, <2>4 DEF AgreeInv, BeforeOpen
    <3>2. /\ bar - 1 \in Nat /\ (bar - 1) + 1 = bar
          /\ signals[bar] \in {0, 1} /\ Position(signals, bar) = signals[bar]
      BY <1>2, <2>4 DEF Position
    <3>3. OrdersUpTo(signals, bar) = Traded \cup
            (IF Position(signals, bar) # Holding THEN {OrderAt(signals, bar)} ELSE {})
      BY <3>1, <3>2, OneBarMore
    <3>4. Holding \in {0, 1} /\ Holding' = (IF quantity' > 0 THEN 1 ELSE 0)
      BY DEF Holding
    <3>5. CASE signals[bar] = Holding
      <4>1. quantity' = quantity /\ Traded' = Traded
        BY <1>3, <2>2, <3>1, <3>5 DEF OrderFor
      <4>2. Holding' = Holding
        BY <4>1 DEF Holding
      <4> QED
        BY <3>2, <3>3, <3>5, <4>1, <4>2
    <3>6. CASE signals[bar] # Holding /\ signals[bar] = 1
      <4>1. quantity' > 0 /\ Traded' = Traded \cup {OrderAt(signals, bar)}
        BY <1>3, <2>2, <3>1, <3>2, <3>6 DEF OrderFor, OrderAt
      <4> QED
        BY <3>2, <3>3, <3>4, <3>6, <4>1
    <3>7. CASE signals[bar] # Holding /\ signals[bar] = 0
      <4>1. quantity' = 0 /\ Traded' = Traded \cup {OrderAt(signals, bar)}
        BY <1>3, <2>2, <3>1, <3>2, <3>7 DEF OrderFor, OrderAt
      <4> QED
        BY <3>2, <3>3, <3>4, <3>7, <4>1
    <3> QED
      BY <3>2, <3>5, <3>6, <3>7
  <2> QED
    BY <2>3, <2>4
<1> QED
  BY <1>1, <1>4, <1>5 DEF AgreeInv, BeforeOpen, EnginesAgree

\* The close of a bar leaves the order its signal asks for, and the close of the last one
\* sells what is held.
LEMMA CloseAgrees ==
  ASSUME BacktestAssumption, AgreeInv, BacktestInv',
         NEW price \in Prices, NEW signal \in {0, 1}, Close(price, signal)
  PROVE  AgreeInv'
<1> DEFINE d == Activated(signal)
           s == Append(signals, d)
<1>1. /\ phase = "close" /\ phase' = (IF bar = LastBar THEN "done" ELSE "open")
      /\ signals' = s /\ bar' = bar + 1 /\ UNCHANGED <<job, saved>>
      /\ pending' = IF "event_driven" \in job.engines /\ d # Holding /\ bar # LastBar
                    THEN IF d = 1 THEN "buy" ELSE "sell" ELSE "none"
  BY DEF Close
<1>2. /\ bar \in Nat /\ signals \in Seq({0, 1}) /\ trades \in Seq(Trade)
      /\ rejected \in Nat /\ partial \in Nat /\ Len(signals) = bar /\ quantity \in Nat
      /\ pending' \in {"none", "buy", "sell"} /\ d \in {0, 1}
  BY <1>1 DEF AgreeInv, RunTypes, BacktestInv, Activated
<1> HIDE DEF d
<1>3. /\ s \in Seq({0, 1}) /\ Len(s) = bar + 1 /\ s[bar + 1] = d
      /\ Position(s, bar) = Position(signals, bar)
      /\ OrdersUpTo(s, bar) = OrdersUpTo(signals, bar)
  BY <1>2, PositionsAreKept
<1> HIDE DEF s
<1>4. LastBar' = LastBar
  BY <1>1 DEF LastBar
<1>5. CASE bar = LastBar /\ quantity > 0
  <2> DEFINE trade == [bar |-> bar, side |-> "sell", at |-> "close"]
  <2>1. /\ phase' = "done" /\ trades' = Append(trades, trade) /\ UNCHANGED rejected
        /\ quantity' = 0 /\ partial' = (IF quantity < quantity THEN partial + 1 ELSE partial)
    BY <1>1, <1>5 DEF Close, ForceClose, Fill
  <2>2. partial' = partial /\ trade \in Trade
    BY <1>2, <2>1 DEF Trade
  <2>3. trades' \in Seq(Trade) /\ Traded' = Traded \cup {trade}
    BY <1>2, <2>1, <2>2, OneTradeMore
  <2>4. RunTypes'
    BY <1>1, <1>2, <1>3, <2>1, <2>2, <2>3 DEF RunTypes
  <2>5. EnginesAgree'
    <3>1. SUFFICES ASSUME Uncut'
                   PROVE  Traded' = VectorTrades(s, bar)
      BY <1>1, <1>4, <1>5 DEF EnginesAgree, Uncut, Traded
    <3>2. Uncut
      BY <1>1, <2>1, <2>2, <3>1 DEF Uncut
    <3>3. Holding = Position(s, bar) /\ Traded = OrdersUpTo(s, bar) /\ Holding = 1
      BY <1>1, <1>3, <1>5, <3>2 DEF AgreeInv, BeforeClose, Holding
    <3>4. VectorTrades(s, bar) = OrdersUpTo(s, bar) \cup {trade}
      BY <3>3 DEF VectorTrades, OrdersUpTo, OrderAt
    <3> QED
      BY <2>3, <3>3, <3>4
  <2> QED
    BY <2>1, <2>4, <2>5 DEF AgreeInv, BeforeOpen, BeforeClose
<1>6. CASE bar = LastBar /\ ~(quantity > 0)
  <2>1. phase' = "done" /\ UNCHANGED <<quantity, trades, rejected, partial>>
    BY <1>1, <1>6 DEF Close, accountLocals
  <2>2. RunTypes'
    BY <1>1, <1>2, <1>3, <2>1 DEF RunTypes
  <2>3. EnginesAgree'
    <3>1. SUFFICES ASSUME Uncut'
                   PROVE  Traded = VectorTrades(s, bar)
      BY <1>1, <1>4, <1>6, <2>1 DEF EnginesAgree, Uncut, Traded
    <3>2. Uncut
      BY <1>1, <2>1, <3>1 DEF Uncut
    <3>3. Holding = Position(s, bar) /\ Traded = OrdersUpTo(s, bar) /\ Holding = 0
      BY <1>1, <1>3, <1>6, <3>2 DEF AgreeInv, BeforeClose, Holding
    <3>4. {k \in {bar} : Position(s, k) = 1} = {}
      <4>1. Position(s, bar) # 1
        BY <3>3
      <4>2. \A k \in {bar} : Position(s, k) # 1
        <5>1. SUFFICES ASSUME NEW k, k = bar PROVE Position(s, k) # 1
          OBVIOUS
        <5> QED
          BY <4>1, <5>1
      <4> QED
        BY <4>2
    <3>5. VectorTrades(s, bar) = OrdersUpTo(s, bar)
      BY <3>4 DEF VectorTrades, OrdersUpTo, OrderAt
    <3> QED
      BY <3>3, <3>5
  <2> QED
    BY <2>1, <2>2, <2>3 DEF AgreeInv, BeforeOpen, BeforeClose
<1>7. CASE bar # LastBar
  <2>1. phase' = "open" /\ UNCHANGED <<quantity, trades, rejected, partial>>
    BY <1>1, <1>7 DEF Close, accountLocals
  <2>2. RunTypes'
    BY <1>1, <1>2, <1>3, <2>1 DEF RunTypes
  <2>3. BeforeOpen'
    <3>1. SUFFICES ASSUME Uncut'
                   PROVE  /\ bar' # 0
                          /\ Holding' = Position(signals', bar' - 1)
                          /\ pending' = IF signals'[bar'] = Holding' THEN "none"
                                        ELSE IF signals'[bar'] = 1 THEN "buy" ELSE "sell"
                          /\ Traded' = OrdersUpTo(signals', bar' - 1)
      <4>1. \A x, n : Position(x, n)' = Position(x, n) /\ OrdersUpTo(x, n)' = OrdersUpTo(x, n)
        BY DEF Position, OrdersUpTo, OrderAt, Changes
      <4> QED
        BY <4>1 DEF BeforeOpen, OrderFor
    <3>2. Uncut /\ "event_driven" \in job.engines
      BY <1>1, <2>1, <3>1 DEF Uncut
    <3>3. Holding = Position(s, bar) /\ Traded = OrdersUpTo(s, bar)
      BY <1>1, <1>3, <3>2 DEF AgreeInv, BeforeClose
    <3>4. Holding' = Holding /\ Traded' = Traded /\ Holding \in {0, 1}
      BY <2>1 DEF Holding, Traded
    <3>5. bar' - 1 = bar /\ bar' # 0 /\ signals'[bar'] = d
      BY <1>1, <1>2, <1>3
    <3>6. pending' = IF d = Holding' THEN "none" ELSE IF d = 1 THEN "buy" ELSE "sell"
      BY <1>1, <1>7, <3>2, <3>4
    <3> QED
      BY <1>1, <3>3, <3>4, <3>5, <3>6
  <2> QED
    BY <2>1, <2>2, <2>3 DEF AgreeInv, BeforeClose, EnginesAgree
<1> QED
  BY <1>5, <1>6, <1>7

\* An engine that starts over, or rests, has nothing to agree on.
LEMMA FreshAgrees ==
  ASSUME BacktestInv', phase' \in {"idle", "open"}, bar' = 0, signals' = <<>>, trades' = <<>>,
         rejected' = 0, partial' = 0, pending' = "none", quantity' = 0
  PROVE  AgreeInv'
<1>1. <<>> \in Seq({0, 1}) /\ <<>> \in Seq(Trade) /\ Len(<<>>) = 0
  OBVIOUS
<1>2. RunTypes'
  BY <1>1 DEF RunTypes
<1> QED
  BY <1>2 DEF AgreeInv, BeforeOpen, BeforeClose, EnginesAgree

LEMMA AgreeStep ==
  ASSUME BacktestAssumption, AgreeInv, [BacktestNext]_backtestVars
  PROVE  AgreeInv'
<1>1. BacktestInv'
  BY StepImplements DEF AgreeInv
<1>2. CASE BeginBacktest \/ NextFold \/ ReturnResult
  BY <1>1, <1>2, FreshAgrees DEF BeginBacktest, StartBacktest, StartStrategies, StartValidation,
    NextFold, ReturnResult, FreshEngine
<1>3. CASE Trading
  BY <1>1, <1>3, OpenAgrees, CloseAgrees DEF Trading
<1>4. CASE UNCHANGED backtestVars
  BY <1>1, <1>4 DEF backtestVars, accountLocals, AgreeInv, RunTypes, BeforeOpen, BeforeClose,
    EnginesAgree, Uncut, Traded, Holding, OrderFor, LastBar
<1> QED
  BY <1>2, <1>3, <1>4 DEF BacktestNext

\* Both engines trade at the same bars, on the same side and at the same price of the bar,
\* in every run whose orders are neither refused nor cut, for every course of signals, prices
\* and volumes and every fold (services/backtest.py:220-223, event_engine.py:111 and
\* engine.py:491).
THEOREM EnginesAgreeCorrect ==
  ASSUME BacktestAssumption
  PROVE  BacktestSpec => []EnginesAgree
<1>1. BacktestInit => AgreeInv
  <2>1. <<>> \in Seq({0, 1}) /\ <<>> \in Seq(Trade)
    OBVIOUS
  <2> QED
    BY <2>1 DEF BacktestInit, BacktestAssumption, AgreeInv, BacktestInv, RunTypes, BeforeOpen, BeforeClose,
      EnginesAgree
<1>2. AgreeInv /\ [BacktestNext]_backtestVars => AgreeInv'
  BY AgreeStep
<1>3. AgreeInv => EnginesAgree
  BY DEF AgreeInv
<1> QED
  BY <1>1, <1>2, <1>3, PTL DEF BacktestSpec
=============================================================================
