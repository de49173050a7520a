-------------------------- MODULE ReferenceAlerts --------------------------
(* Watchlist and reference price alerts (app/services/alerts.py over         *)
(* app/alerts/repository.py).  The scheduler's job and administrators'       *)
(* requests evaluate at the same time; each call of the repository is one    *)
(* transaction, and an evaluation is several of them with the provider's     *)
(* quotes in between.                                                        *)
EXTENDS Integers, FiniteSets

CONSTANTS
  Alerts,           \* identifiers of alerts (uuid4)
  Stocks,
  Targets,          \* target prices
  MarketPrices,     \* prices of the market
  Evaluators,       \* the scheduler's job and the requests that may overlap it
  Admins,           \* requests that add to the watchlist
  MaxMoves,         \* bound: how often the market moves
  MaxAlertFailures  \* bound: quotes that cannot be fetched and evaluations that break off

AlertsAssumption ==
  /\ Targets \subseteq Nat \ {0} /\ MarketPrices \subseteq Nat \ {0} /\ MarketPrices # {} /\ Stocks # {}
  /\ MaxMoves \in Nat /\ MaxAlertFailures \in Nat

VARIABLES
  alertMarket,   \* the price of each stock and since when, which a quote may not say
  time,
  alerts,        \* the rows of table alerts
  alertRows,     \* how many rows of table watchlists each stock has
  adding,        \* add_watchlist between its SELECT and its INSERT
  evaluation,    \* where each evaluation is, and what it has read
  alertReports,  \* history: how often each alert was returned as triggered
  unreported,    \* history: the alerts triggered by an evaluation that broke off
  alertFailures

alertsVars == <<alertMarket, time, alerts, alertRows, adding, evaluation, alertReports,
                unreported, alertFailures>>

Unset == 0 - 1
NoAlert == [status |-> "none", stock |-> CHOOSE s \in Stocks : TRUE, above |-> TRUE,
            target |-> 0, price |-> Unset, at |-> Unset, triggered |-> Unset]
Idle == [pc |-> "idle", active |-> {}, todo |-> {}, quotes |-> <<>>, triggered |-> {}]

AlertsInit ==
  /\ alertMarket = [s \in Stocks |-> [price |-> CHOOSE p \in MarketPrices : TRUE, as_of |-> 0]]
  /\ time = 0
  /\ alerts = [a \in Alerts |-> NoAlert]
  /\ alertRows = [s \in Stocks |-> 0]
  /\ adding = [r \in Admins |-> "idle"]
  /\ evaluation = [e \in Evaluators |-> Idle]
  /\ alertReports = [a \in Alerts |-> 0]
  /\ unreported = {}
  /\ alertFailures = 0

Meets(alert, price) ==
  IF alert.above THEN price >= alert.target ELSE price =< alert.target

(* The provider: a stock trades at another price.                            *)
PriceMoves(s) ==
  /\ time < MaxMoves
  /\ time' = time + 1
  /\ \E p \in MarketPrices, known \in BOOLEAN :
       alertMarket' = [alertMarket EXCEPT ![s] = [price |-> p, as_of |-> IF known THEN time + 1 ELSE Unset]]
  /\ UNCHANGED <<alerts, alertRows, adding, evaluation, alertReports, unreported,
                 alertFailures>>

(* create_alert: the target is positive and the stock is known.              *)
CreateAlert(a) ==
  /\ alerts[a].status = "none"
  /\ \E s \in Stocks, above \in BOOLEAN, target \in Targets :
       alerts' = [alerts EXCEPT ![a] =
         [NoAlert EXCEPT !.status = "active", !.stock = s, !.above = above, !.target = target]]
  /\ UNCHANGED <<alertMarket, time, alertRows, adding, evaluation, alertReports, unreported,
                 alertFailures>>

DisableAlert(a) ==
  /\ alerts[a].status = "active"
  /\ alerts' = [alerts EXCEPT ![a].status = "disabled"]
  /\ UNCHANGED <<alertMarket, time, alertRows, adding, evaluation, alertReports, unreported,
                 alertFailures>>

(* add_watchlist: a SELECT, and an INSERT if it found nothing; the table's   *)
(* unique constraint refuses the second of two that overlap.                 *)
FindWatched(r, s) ==
  /\ adding[r] = "idle"
  /\ alertRows[s] = 0
  /\ adding' = [adding EXCEPT ![r] = s]
  /\ UNCHANGED <<alertMarket, time, alerts, alertRows, evaluation, alertReports, unreported,
                 alertFailures>>

InsertWatched(r) ==
  /\ adding[r] # "idle"
  /\ adding' = [adding EXCEPT ![r] = "idle"]
  /\ alertRows' = [alertRows EXCEPT ![adding[r]] = 1]
  /\ UNCHANGED <<alertMarket, time, alerts, evaluation, alertReports, unreported,
                 alertFailures>>

RemoveWatched(s) ==
  /\ alertRows' = [alertRows EXCEPT ![s] = 0]
  /\ alertRows' # alertRows
  /\ UNCHANGED <<alertMarket, time, alerts, adding, evaluation, alertReports, unreported,
                 alertFailures>>

(* evaluate_active: the active alerts; one quote for each of their stocks,   *)
(* of which some may fail; then one transaction per alert.                   *)
ActiveAlerts(e) == {a \in Alerts : alerts[a].status = "active"}

Begin(e) ==
  /\ evaluation[e].pc = "idle"
  /\ ActiveAlerts(e) # {}
  /\ evaluation' = [evaluation EXCEPT ![e] =
       [pc |-> "quoting", active |-> ActiveAlerts(e),
        todo |-> {alerts[a].stock : a \in ActiveAlerts(e)}, quotes |-> <<>>, triggered |-> {}]]
  /\ UNCHANGED <<alertMarket, time, alerts, alertRows, adding, alertReports, unreported,
                 alertFailures>>

Quoted(e) == DOMAIN evaluation[e].quotes

Fetch(e, s) ==
  /\ evaluation[e].pc = "quoting" /\ s \in evaluation[e].todo
  /\ evaluation' = [evaluation EXCEPT ![e].todo = @ \ {s},
       ![e].quotes = [t \in Quoted(e) \cup {s} |-> IF t = s THEN alertMarket[s] ELSE @[t]]]
  /\ UNCHANGED <<alertMarket, time, alerts, alertRows, adding, alertReports, unreported,
                 alertFailures>>

FetchFails(e, s) ==
  /\ evaluation[e].pc = "quoting" /\ s \in evaluation[e].todo
  /\ alertFailures < MaxAlertFailures
  /\ alertFailures' = alertFailures + 1
  /\ evaluation' = [evaluation EXCEPT ![e].todo = @ \ {s}]
  /\ UNCHANGED <<alertMarket, time, alerts, alertRows, adding, alertReports, unreported>>

(* now, for quotes without a time of their own; alerts of stocks without a   *)
(* quote are passed over.                                                    *)
StartRecording(e) ==
  /\ evaluation[e].pc = "quoting" /\ evaluation[e].todo = {}
  /\ evaluation' = [evaluation EXCEPT ![e].pc = "recording",
       ![e].active = {a \in @ : alerts[a].stock \in Quoted(e)},
       ![e].quotes = [s \in Quoted(e) |->
          IF @[s].as_of = Unset THEN [@[s] EXCEPT !.as_of = time] ELSE @[s]]]
  /\ UNCHANGED <<alertMarket, time, alerts, alertRows, adding, alertReports, unreported,
                 alertFailures>>

(* Mutant: the status is not read again under the lock.                      *)
RecordableStale(a) == alerts[a].status # "none"

(* record_evaluation locks the row and gives up unless it is still active.   *)
Recordable(a) == alerts[a].status = "active"

Recorded(alert, quote) ==
  IF Meets(alert, quote.price)
  THEN [alert EXCEPT !.price = quote.price, !.at = quote.as_of,
                     !.status = "triggered", !.triggered = quote.as_of]
  ELSE [alert EXCEPT !.price = quote.price, !.at = quote.as_of]

Record(e, a) ==
  /\ evaluation[e].pc = "recording" /\ a \in evaluation[e].active
  /\ LET quote == evaluation[e].quotes[alerts[a].stock]
     IN  /\ alerts' = [alerts EXCEPT ![a] = IF Recordable(a) THEN Recorded(@, quote) ELSE @]
         /\ evaluation' = [evaluation EXCEPT ![e].active = @ \ {a}, ![e].triggered =
              IF Recordable(a) /\ Meets(alerts[a], quote.price) THEN @ \cup {a} ELSE @]
  /\ UNCHANGED <<alertMarket, time, alertRows, adding, alertReports, unreported, alertFailures>>

(* The triggered alerts are returned after the whole loop.                   *)
End(e) ==
  /\ evaluation[e].pc = "recording" /\ evaluation[e].active = {}
  /\ alertReports' = [a \in Alerts |->
       IF a \in evaluation[e].triggered THEN alertReports[a] + 1 ELSE alertReports[a]]
  /\ evaluation' = [evaluation EXCEPT ![e] = Idle]
  /\ UNCHANGED <<alertMarket, time, alerts, alertRows, adding, unreported, alertFailures>>

(* record_evaluation raises, or the process dies: what was committed stays,  *)
(* and nobody is told of the alerts that it triggered.                       *)
EvaluationFails(e) ==
  /\ evaluation[e].pc # "idle"
  /\ alertFailures < MaxAlertFailures
  /\ alertFailures' = alertFailures + 1
  /\ unreported' = unreported \cup evaluation[e].triggered
  /\ evaluation' = [evaluation EXCEPT ![e] = Idle]
  /\ UNCHANGED <<alertMarket, time, alerts, alertRows, adding, alertReports>>

(* One evaluator: the scheduler's job, of which one instance runs at a time, *)
(* or a request beside it.                                                   *)
Evaluate(e) ==
  \/ Begin(e) \/ StartRecording(e) \/ End(e) \/ EvaluationFails(e)
  \/ \E s \in Stocks : Fetch(e, s) \/ FetchFails(e, s)
  \/ \E a \in Alerts : Record(e, a)

AlertsNext ==
  \/ \E s \in Stocks : PriceMoves(s) \/ RemoveWatched(s)
  \/ \E a \in Alerts : CreateAlert(a) \/ DisableAlert(a)
  \/ \E r \in Admins : InsertWatched(r) \/ \E s \in Stocks : FindWatched(r, s)
  \/ \E e \in Evaluators : Evaluate(e)

AlertsSpec == AlertsInit /\ [][AlertsNext]_alertsVars

-----------------------------------------------------------------------------
AlertsTypeOK ==
  /\ alerts \in [Alerts -> [status : {"none", "active", "triggered", "disabled"},
                            stock : Stocks, above : BOOLEAN, target : Targets \cup {0},
                            price : MarketPrices \cup {Unset}, at : Unset .. MaxMoves,
                            triggered : Unset .. MaxMoves]]
  /\ alertRows \in [Stocks -> 0 .. 1] /\ adding \in [Admins -> Stocks \cup {"idle"}]
  /\ \A e \in Evaluators : evaluation[e].active \subseteq Alerts /\ Quoted(e) \subseteq Stocks
  /\ unreported \subseteq Alerts
  /\ time \in 0 .. MaxMoves /\ alertFailures \in 0 .. MaxAlertFailures

(* An alert changes from active to triggered once only                       *)
(* (src/docs/architecture/reference-alerts.md:10): however evaluations and   *)
(* administrators overlap, exactly one evaluation triggers it, never after   *)
(* it was disabled, and with a price that meets it.  That evaluation has yet *)
(* to report it, has reported it once, or broke off and left it unreported   *)
(* for ever; an alert that is not triggered is not in any report.            *)
TriggersOnce ==
  \A a \in Alerts :
    LET holders == {e \in Evaluators : a \in evaluation[e].triggered}
    IN  IF alerts[a].status = "triggered"
        THEN /\ \/ \E e \in Evaluators : holders = {e} /\ alertReports[a] = 0 /\ a \notin unreported
                \/ holders = {} /\ alertReports[a] = 1 /\ a \notin unreported
                \/ holders = {} /\ alertReports[a] = 0 /\ a \in unreported
             /\ Meets(alerts[a], alerts[a].price) /\ alerts[a].triggered = alerts[a].at
        ELSE holders = {} /\ alertReports[a] = 0 /\ a \notin unreported

(* What became of an alert stays: no late evaluation touches it again.       *)
OutcomeIsFinal ==
  [][\A a \in Alerts : alerts[a].status \in {"triggered", "disabled"} => alerts'[a] = alerts[a]]_alertsVars
=============================================================================
