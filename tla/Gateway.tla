------------------------------ MODULE Gateway ------------------------------
(* The path of a browser's request: the Next.js middleware, the market or the
   admin proxy, the middlewares of the FastAPI application, the guards of the
   route, its service, and the answer on its way back. A request carries the
   set of things wrong with it; every layer refuses the first of them that it
   looks at. The service of a route is one step here (each has a module of its
   own): it changes the stores and returns, or raises. The proxy waits for the
   answer with a timer, the back end goes on after the proxy has given up, and
   it may restart under the requests it is serving. *)
EXTENDS Naturals, Sequences, FiniteSets, SequencesExt

CONSTANTS Requests,           \* browser requests
          MaxFlaws,           \* bound: things wrong with one request
          MaxGatewayRestarts  \* bound: restarts of the back end

GatewayAssumption == MaxFlaws \in Nat /\ MaxGatewayRestarts \in Nat

Flaws == {"host", "unconfigured", "credentials", "origin", "path", "query", "size",
          "key", "rate", "limiter", "analysis", "trusted", "body", "admin", "lockout",
          "values", "periods"}

-----------------------------------------------------------------------------
(* Routes. `admin` routes ask for the administrator's key, `body` ones read a JSON body, `ordered` ones compare the
   two periods of the strategy themselves; `writes` ones are asked to change a
   store. `clauses` are the except clauses of the route, in order. *)

Route(name, admin, body, ordered, writes, clauses) ==
  [name |-> name, admin |-> admin, body |-> body, ordered |-> ordered,
   writes |-> writes, clauses |-> clauses]

OnUnknown == <<"UnknownSymbol", 404>>
OnDisabled == <<"Unavailable", 503>>
OnMissing == <<"Missing", 404>>
OnConflict == <<"Conflict", 409>>
OnValue == <<"ValueError", 422>>

Read(name, clauses) == Route(name, FALSE, FALSE, FALSE, FALSE, clauses)
AdminRead(name, clauses) == Route(name, TRUE, FALSE, FALSE, FALSE, clauses)
Change(name, body, clauses) == Route(name, TRUE, body, FALSE, TRUE, clauses)

\* quote, candles, processed candles, order book, trades, stock, indicators, warnings
MarketRoutes == {Read("market", <<OnUnknown>>), Read("warnings", <<>>)}

\* patterns, financials, disclosures, news, investor flow, prediction, report, score
AnalysisRoutes ==
  {Read("patterns", <<OnUnknown>>), Read("sources", <<>>)}

ScoreRoute == Read("score", <<OnUnknown>>)

AccountRoutes == {AdminRead("accounts", <<>>), Change("portfolio-sync", FALSE, <<>>)}

BacktestRoutes ==
  {Route("backtest", FALSE, TRUE, TRUE, TRUE, <<OnUnknown, OnDisabled, OnValue>>)}

\* status, data quality, inventory, ingestion, audits and the two clean-ups
OperationRoutes == {AdminRead("operations", <<>>), Change("cleanup", FALSE, <<>>)}

ActionReadRoutes ==
  {AdminRead("action-history", <<OnValue>>),
   AdminRead("action-candidates", <<OnMissing, OnValue>>)}

ActionChangeRoutes ==
  {Change("action-approval", TRUE, <<OnDisabled, OnMissing, OnConflict, OnValue>>),
   Change("action-ingestion", FALSE, <<OnDisabled, OnMissing, OnConflict, OnValue>>)}

IngestionRoute == Change("candle-ingestion", FALSE, <<OnDisabled, OnUnknown>>)

HistoryRoutes ==
  {AdminRead("backtest-list", <<>>),
   Route("backtest-compare", TRUE, TRUE, TRUE, FALSE,
         <<OnUnknown, OnDisabled, OnValue>>),
   AdminRead("backtest-detail", <<OnDisabled, OnMissing>>)}

ModelRoutes ==
  {AdminRead("model-list", <<>>),
   Change("model-promotion", FALSE, <<OnDisabled, OnMissing, OnConflict>>)}

AlertRoutes ==
  {AdminRead("alert-list", <<>>), Change("alert-create", TRUE, <<OnDisabled, OnUnknown>>),
   Change("alert-change", FALSE, <<OnDisabled>>)}

AllRoutes ==
  UNION {MarketRoutes, AnalysisRoutes, {ScoreRoute}, AccountRoutes, BacktestRoutes,
         OperationRoutes, ActionReadRoutes, ActionChangeRoutes, {IngestionRoute},
         HistoryRoutes, ModelRoutes, AlertRoutes}

RouteNames == {r.name : r \in AllRoutes}
Routes == [n \in RouteNames |-> CHOOSE r \in AllRoutes : r.name = n]

\* Routes that ask for the analysis key: the protected suffixes of a GET (financials,
\* disclosures, news, investor flow, prediction and report; score) and paths of a POST
Protected == {"sources", "score", "backtest"}

\* The pages send stock reads through the market proxy and the rest through
\* the admin proxy, the back end's public back-tests included.
ViaMarket(n) == ~Routes[n].admin /\ ~Routes[n].body

-----------------------------------------------------------------------------
(* Exceptions: the classes an exception belongs to, and the status that the
   application-wide handlers give it. *)

Classes(e) ==
  CASE e = "UnknownSymbol" -> {"UnknownSymbol", "ProviderError", "ValueError"}
    [] e = "NotFound" -> {"ProviderError", "ValueError"}
    [] e \in {"Provider", "ProviderConflict", "ProviderInvalid", "ProviderDown",
              "SyncDisabled"} -> {"ProviderError"}
    [] e = "Conflict" -> {"Conflict", "ValueError"}
    [] OTHER -> {e}

ProviderErrors ==
  {"UnknownSymbol", "NotFound", "Provider", "ProviderConflict", "ProviderInvalid",
   "ProviderDown"}

ProviderStatus(e) ==
  CASE e \in {"UnknownSymbol", "NotFound"} -> 404
    [] e = "SyncDisabled" -> 403
    [] e = "ProviderConflict" -> 409
    [] e = "ProviderInvalid" -> 422
    [] e = "ProviderDown" -> 503
    [] OTHER -> 502

Clauses(n) == Routes[n].clauses
Named(n) == {c[1] : c \in ToSet(Clauses(n))}

\* What the service of a route can raise: the errors its route knows about,
\* any error of a provider, and what nobody expects (a lost database).
Raises(n) ==
  Named(n) \cup ProviderErrors \cup {"Unexpected"} \cup
  (IF Routes[n] \in AccountRoutes THEN {"SyncDisabled"} ELSE {})

\* The except clauses of a route that match an exception, by their place.
Matching(n, e) == {i \in DOMAIN Clauses(n) : Clauses(n)[i][1] \in Classes(e)}

\* The first except clause that matches; else the handler of provider errors;
\* else the handler of everything.
RaisedStatus(n, e) ==
  IF Matching(n, e) # {} THEN Clauses(n)[Min(Matching(n, e))][2]
  ELSE IF "ProviderError" \in Classes(e) THEN ProviderStatus(e)
  ELSE 500

-----------------------------------------------------------------------------
(* Checks, as sequences of <<flaw, status>> in the order they are made. *)

FirstRefusal(checks, flaws) ==
  LET hit == SelectSeq(checks, LAMBDA c : c[1] \in flaws)
  IN  IF hit = <<>> THEN 0 ELSE hit[1][2]

\* The web tier's middleware: hosts for all, credentials and origin for the
\* administrator's pages; origin only matters to a request that changes things.
WebChecks(n) ==
  <<<<"host", 403>>>> \o
  IF ViaMarket(n) THEN <<>>
  ELSE <<<<"unconfigured", 503>>, <<"credentials", 401>>>> \o
       IF Routes[n].writes \/ Routes[n].body THEN <<<<"origin", 403>>>> ELSE <<>>

MarketProxyChecks == <<<<"path", 404>>, <<"query", 400>>>>
AdminProxyChecks == <<<<"key", 503>>, <<"size", 413>>>>

\* The middlewares of the application, outermost first.
LimiterChecks == <<<<"limiter", 503>>, <<"rate", 429>>>>
AnalysisChecks(n) == IF n \in Protected THEN <<<<"analysis", 401>>>> ELSE <<>>

AdminChecks(n) ==
  IF Routes[n].admin THEN <<<<"lockout", 429>>, <<"admin", 401>>>> ELSE <<>>

\* The framework reads the body before the dependencies run and reports
\* invalid values after them; the route's own check comes last.
RouteChecks(n) ==
  (IF Routes[n].body THEN <<<<"body", 422>>>> ELSE <<>>) \o AdminChecks(n) \o
  <<<<"values", 422>>>> \o
  (IF Routes[n].ordered THEN <<<<"periods", 422>>>> ELSE <<>>)

\* The innermost middleware answers in plain text when it does not know the
\* name it was called by; every other answer is JSON.
HostChecks == <<<<"trusted", 400>>>>
IsJson(status) == status # 400

BackendChecks(n) == LimiterChecks \o AnalysisChecks(n) \o HostChecks \o RouteChecks(n)

-----------------------------------------------------------------------------
VARIABLES
  route,        \* of each request
  flawed,       \* what is wrong with it
  web,          \* "idle", "sent", "waiting", "reading", "answered"
  gateBackend,  \* "idle", "checking", "serving", "replied", "lost"
  reply,        \* status of the back end's answer, 0 before it
  answer,       \* status the browser was given, 0 before it
  changed,      \* the stores were changed on behalf of the request
  gateRestarts

gatewayVars == <<route, flawed, web, gateBackend, reply, answer, changed, gateRestarts>>

GatewayTypeOK ==
  /\ route \in [Requests -> RouteNames]
  /\ flawed \in [Requests -> SUBSET Flaws]
  /\ web \in [Requests -> {"idle", "sent", "waiting", "reading", "answered"}]
  /\ gateBackend \in [Requests -> {"idle", "checking", "serving", "replied", "lost"}]
  /\ reply \in [Requests -> 0 .. 599] /\ answer \in [Requests -> 0 .. 599]
  /\ changed \in [Requests -> BOOLEAN]
  /\ gateRestarts \in 0 .. MaxGatewayRestarts

GatewayInit ==
  /\ route = [r \in Requests |-> "market"]
  /\ flawed = [r \in Requests |-> {}]
  /\ web = [r \in Requests |-> "idle"]
  /\ gateBackend = [r \in Requests |-> "idle"]
  /\ reply = [r \in Requests |-> 0] /\ answer = [r \in Requests |-> 0]
  /\ changed = [r \in Requests |-> FALSE]
  /\ gateRestarts = 0

Answer(r, status) ==
  /\ web' = [web EXCEPT ![r] = "answered"]
  /\ answer' = [answer EXCEPT ![r] = status]

Reply(r, status) ==
  /\ gateBackend' = [gateBackend EXCEPT ![r] = "replied"]
  /\ reply' = [reply EXCEPT ![r] = status]

\* A page sends a request, with something wrong with it or nothing.
Send(r) ==
  /\ web[r] = "idle"
  /\ \E n \in RouteNames, f \in {g \in SUBSET Flaws : Cardinality(g) <= MaxFlaws} :
       /\ route' = [route EXCEPT ![r] = n]
       /\ flawed' = [flawed EXCEPT ![r] = f]
  /\ web' = [web EXCEPT ![r] = "sent"]
  /\ UNCHANGED <<gateBackend, reply, answer, changed, gateRestarts>>

\* The middleware of the web tier and the checks of the proxy it leads to; a
\* request that passes is sent on, with a timer.
Forward(r) ==
  LET n == route[r]
      refusal == FirstRefusal(
        WebChecks(n) \o (IF ViaMarket(n) THEN MarketProxyChecks ELSE AdminProxyChecks),
        flawed[r])
  IN  /\ web[r] = "sent"
      /\ \/ refusal # 0 /\ Answer(r, refusal) /\ UNCHANGED gateBackend
         \/ /\ refusal = 0
            /\ web' = [web EXCEPT ![r] = "waiting"]
            /\ gateBackend' = [gateBackend EXCEPT ![r] = "checking"]
            /\ UNCHANGED answer
      /\ UNCHANGED <<route, flawed, reply, changed, gateRestarts>>

\* The middlewares of the application and the guards of the route.
Admit(r) ==
  LET refusal == FirstRefusal(BackendChecks(route[r]), flawed[r])
  IN  /\ gateBackend[r] = "checking"
      /\ \/ refusal # 0 /\ Reply(r, refusal)
         \/ /\ refusal = 0
            /\ gateBackend' = [gateBackend EXCEPT ![r] = "serving"]
            /\ UNCHANGED reply
      /\ UNCHANGED <<route, flawed, web, answer, changed, gateRestarts>>

\* The service returns; a route that writes has changed its stores.
Serve(r) ==
  /\ gateBackend[r] = "serving"
  /\ Reply(r, 200)
  /\ changed' = [changed EXCEPT ![r] = Routes[route[r]].writes]
  /\ UNCHANGED <<route, flawed, web, answer, gateRestarts>>

\* The service raises before its transaction commits.
Raise(r) ==
  /\ gateBackend[r] = "serving"
  /\ \E e \in Raises(route[r]) : Reply(r, RaisedStatus(route[r], e))
  /\ UNCHANGED <<route, flawed, web, answer, changed, gateRestarts>>

\* The service commits and then fails: while the answer is built, or, for a
\* promotion, when the artifact no longer verifies once the registry's
\* transaction is over.
RaiseLate(r) ==
  /\ gateBackend[r] = "serving" /\ Routes[route[r]].writes
  /\ \E e \in {"Unexpected"} \cup
               (IF route[r] = "model-promotion" THEN {"Conflict"} ELSE {}) :
       Reply(r, RaisedStatus(route[r], e))
  /\ changed' = [changed EXCEPT ![r] = TRUE]
  /\ UNCHANGED <<route, flawed, web, answer, gateRestarts>>

\* The head of the answer arrives; the timer still runs while the body is read.
Receive(r) ==
  /\ web[r] = "waiting" /\ gateBackend[r] = "replied"
  /\ web' = [web EXCEPT ![r] = "reading"]
  /\ UNCHANGED <<route, flawed, gateBackend, reply, answer, changed, gateRestarts>>

\* The body is read: a JSON body of a back end that is still there is passed on
\* with its status. Anything else, or too much of it, is a bad gateway.
Relay(r) ==
  /\ web[r] = "reading"
  /\ \/ gateBackend[r] = "replied" /\ IsJson(reply[r]) /\ Answer(r, reply[r])
     \/ Answer(r, 502)
  /\ UNCHANGED <<route, flawed, gateBackend, reply, changed, gateRestarts>>

\* The back end cannot be reached, or it goes away under the request.
Disconnect(r) ==
  /\ web[r] = "waiting" /\ gateBackend[r] = "lost"
  /\ Answer(r, 502)
  /\ UNCHANGED <<route, flawed, gateBackend, reply, changed, gateRestarts>>

\* Mutant: the timer is cleared when the head of the answer has come.
TimesOutOnHead(r) == web[r] = "waiting"

\* The timer of the proxy: it aborts the request, whatever it was waiting for,
\* and does not stop the back end.
TimesOut(r) == web[r] \in {"waiting", "reading"}

\* Mutant: the timeout is reported as the client's.
TimeoutStatusOfClient == 408

TimeoutStatus == 504

TimeOut(r) ==
  /\ TimesOut(r)
  /\ Answer(r, TimeoutStatus)
  /\ UNCHANGED <<route, flawed, gateBackend, reply, changed, gateRestarts>>

\* The back end restarts; a service that was running had or had not committed.
Restart ==
  /\ gateRestarts < MaxGatewayRestarts
  /\ gateRestarts' = gateRestarts + 1
  /\ \E done \in SUBSET {r \in Requests : gateBackend[r] = "serving" /\ Routes[route[r]].writes} :
       changed' = [r \in Requests |-> changed[r] \/ r \in done]
  /\ gateBackend' = [r \in Requests |->
                   IF gateBackend[r] \in {"checking", "serving", "replied"} THEN "lost"
                   ELSE gateBackend[r]]
  /\ UNCHANGED <<route, flawed, web, reply, answer>>

GatewayNext ==
  \/ Restart
  \/ \E r \in Requests :
       Send(r) \/ Forward(r) \/ Admit(r) \/ Serve(r) \/ Raise(r) \/ RaiseLate(r)
       \/ Receive(r) \/ Relay(r) \/ Disconnect(r) \/ TimeOut(r)

\* The web tier runs and timers fire. Nothing is assumed of the back end, nor
\* that a body is ever complete.
GatewayFairness == \A r \in Requests : WF_gatewayVars(Forward(r)) /\ WF_gatewayVars(TimeOut(r))

GatewaySpec == GatewayInit /\ [][GatewayNext]_gatewayVars /\ GatewayFairness

-----------------------------------------------------------------------------
\* Properties

\* The answer says that the request was refused.
Refused(r) == answer[r] \in 400 .. 499

\* An operator told that a change was refused may rely on it: the stores have
\* not been changed for that request and will not be. A change whose outcome
\* the proxy does not know is never answered with a refusal. Promotion is the
\* exception: its conflict can come after the registry's commit
\* (lib/admin-proxy.ts proxyAdminRequest, api/routes.py).
RefusedChangesNothing ==
  \A r \in Requests :
    Refused(r) /\ route[r] # "model-promotion" =>
      ~changed[r] /\ gateBackend[r] # "serving" /\ gateBackend[r] # "checking"

\* Every request is answered, a back end that hangs, restarts or stops in the
\* middle of a body notwithstanding: the timer covers the body as well as the
\* head of the answer (lib/market-proxy.ts, lib/admin-proxy.ts).
EveryRequestIsAnswered ==
  \A r \in Requests : web[r] = "sent" ~> web[r] = "answered"
=============================================================================
