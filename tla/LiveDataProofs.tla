--------------------------- MODULE LiveDataProofs ---------------------------
(***************************************************************************)
(* Proofs about the data that reaches a user while it changes:             *)
(* ReferenceAlerts, for any alerts, stocks and evaluations that overlap;   *)
(* PollingQuotes, for any browsers and symbols, on either bus, with any    *)
(* number of faults; Dashboard, for any stocks, lookups, sockets and       *)
(* losses of the connection.                                               *)
(***************************************************************************)
EXTENDS ReferenceAlerts, PollingQuotes, Dashboard, FiniteSetTheorems,
  TLAPS

-----------------------------------------------------------------------------
(* ReferenceAlerts *)

Quote == [price : MarketPrices, as_of : Unset .. MaxMoves]
Quotes == UNION {[known -> Quote] : known \in SUBSET Stocks}
Alert ==
  [status : {"none", "active", "triggered", "disabled"}, stock : Stocks, above : BOOLEAN,
   target : Targets \cup {0}, price : MarketPrices \cup {Unset}, at : Unset .. MaxMoves,
   triggered : Unset .. MaxMoves]
Evaluation ==
  [pc : {"idle", "quoting", "recording"}, active : SUBSET Alerts, todo : SUBSET Stocks,
   quotes : Quotes, triggered : SUBSET Alerts]

\* The types that the steps of an evaluation rely on.
AlertsTypes ==
  /\ alertMarket \in [Stocks -> Quote] /\ time \in 0 .. MaxMoves
  /\ alerts \in [Alerts -> Alert]
  /\ alertReports \in [Alerts -> Nat] /\ unreported \in SUBSET Alerts
  /\ evaluation \in [Evaluators -> Evaluation]
  /\ alertRows \in [Stocks -> 0 .. 1] /\ adding \in [Admins -> Stocks \cup {"idle"}]
  /\ alertFailures \in 0 .. MaxAlertFailures

\* An evaluation works on alerts that exist, and records only those whose stock it
\* has a quote of; before its first one it has triggered nothing.
EvaluatesKnown ==
  \A e \in Evaluators :
    /\ evaluation[e].pc = "idle" => evaluation[e].triggered = {}
    /\ \A a \in evaluation[e].active :
         /\ alerts[a].status # "none"
         /\ evaluation[e].pc = "recording" => alerts[a].stock \in Quoted(e)

AlertsInv == AlertsTypes /\ EvaluatesKnown /\ TriggersOnce

LEMMA Numbers ==
  ASSUME AlertsAssumption
  PROVE  /\ Unset \in Int /\ Unset \in Unset .. MaxMoves /\ 0 \in Unset .. MaxMoves
         /\ 0 .. MaxMoves \subseteq Unset .. MaxMoves
         /\ 0 \in 0 .. MaxMoves /\ 0 \in 0 .. MaxAlertFailures
BY DEF AlertsAssumption, Unset

\* Quotes of any stocks are quotes.
LEMMA QuotesOfStocks ==
  ASSUME NEW D \in SUBSET Stocks, NEW f \in [D -> Quote]
  PROVE  f \in Quotes
BY DEF Quotes

LEMMA QuotesAre ==
  ASSUME NEW q \in Quotes
  PROVE  DOMAIN q \in SUBSET Stocks /\ q \in [DOMAIN q -> Quote]
BY DEF Quotes

LEMMA IdleIsEvaluation == Idle \in Evaluation
<1>1. <<>> \in [{} -> Quote]
  OBVIOUS
<1>2. <<>> \in Quotes
  BY <1>1, QuotesOfStocks
<1> QED
  BY <1>2 DEF Idle, Evaluation

LEMMA NoAlertIsAlert ==
  ASSUME AlertsAssumption
  PROVE  NoAlert \in Alert /\ NoAlert.status = "none"
<1>1. (CHOOSE s \in Stocks : TRUE) \in Stocks
  BY DEF AlertsAssumption
<1> QED
  BY <1>1, Numbers DEF NoAlert, Alert

LEMMA AlertsInvInit ==
  ASSUME AlertsAssumption, AlertsInit
  PROVE  AlertsInv
<1>1. (CHOOSE p \in MarketPrices : TRUE) \in MarketPrices
  BY DEF AlertsAssumption
<1>2. AlertsTypes
  BY <1>1, Numbers, IdleIsEvaluation, NoAlertIsAlert DEF AlertsInit, AlertsTypes, Quote
<1>3. EvaluatesKnown
  BY DEF AlertsInit, EvaluatesKnown, Idle
<1>4. TriggersOnce
  BY NoAlertIsAlert DEF AlertsInit, TriggersOnce, Idle
<1> QED
  BY <1>2, <1>3, <1>4 DEF AlertsInv

\* A recorded quote keeps the alert an alert of the same terms, triggered exactly if
\* the price meets it.
LEMMA RecordedIs ==
  ASSUME NEW alert \in Alert, NEW fresh \in Quote, alert.status = "active"
  PROVE  /\ Recorded(alert, fresh) \in Alert
         /\ Recorded(alert, fresh).stock = alert.stock
         /\ Recorded(alert, fresh).status =
              IF Meets(alert, fresh.price) THEN "triggered" ELSE "active"
         /\ Meets(alert, fresh.price) =>
              /\ Meets(Recorded(alert, fresh), Recorded(alert, fresh).price)
              /\ Recorded(alert, fresh).triggered = Recorded(alert, fresh).at
<1>1. CASE Meets(alert, fresh.price)
  BY <1>1 DEF Recorded, Alert, Quote, Meets
<1>2. CASE ~ Meets(alert, fresh.price)
  BY <1>2 DEF Recorded, Alert, Quote
<1> QED
  BY <1>1, <1>2

\* A step that leaves alerts and reports alone keeps what is told of them.
LEMMA TriggersOnceKept ==
  ASSUME TriggersOnce, UNCHANGED <<alerts, alertReports, unreported>>,
         \A e \in Evaluators : evaluation'[e].triggered = evaluation[e].triggered
  PROVE  TriggersOnce'
BY DEF TriggersOnce

\* So does a step of an administrator, before and after which the alert is not triggered.
LEMMA UntriggeredKept ==
  ASSUME TriggersOnce, NEW a \in Alerts, alerts[a].status # "triggered",
         alerts'[a].status # "triggered", \A b \in Alerts \ {a} : alerts'[b] = alerts[b],
         UNCHANGED <<evaluation, alertReports, unreported>>
  PROVE  TriggersOnce'
<1> SUFFICES ASSUME NEW b \in Alerts
             PROVE  TriggersOnce!(b)'
  BY DEF TriggersOnce
<1>1. CASE b = a
  BY <1>1 DEF TriggersOnce
<1>2. CASE b # a
  <2>1. alerts'[b] = alerts[b]
    BY <1>2
  <2> QED
    BY <2>1 DEF TriggersOnce
<1> QED
  BY <1>1, <1>2

\* What TriggersOnce says of one alert: its row, how often it was reported, which reports
\* were lost, and the evaluations that have it in their list.
ToldOnce(a, row, reports, lost, holders) ==
  IF row.status = "triggered"
  THEN /\ \/ \E e \in Evaluators : holders = {e} /\ reports = 0 /\ a \notin lost
          \/ holders = {} /\ reports = 1 /\ a \notin lost
          \/ holders = {} /\ reports = 0 /\ a \in lost
       /\ Meets(row, row.price) /\ row.triggered = row.at
  ELSE holders = {} /\ reports = 0 /\ a \notin lost

\* What an evaluation may know of the alerts it works on.
Sound(new) ==
  /\ new.pc = "idle" => new.triggered = {}
  /\ \A a \in new.active :
       /\ alerts[a].status # "none"
       /\ new.pc = "recording" => alerts[a].stock \in DOMAIN new.quotes

LEMMA EvaluationIsSound ==
  ASSUME AlertsInv, NEW e \in Evaluators
  PROVE  /\ evaluation[e] \in Evaluation /\ Sound(evaluation[e])
         /\ Quoted(e) \in SUBSET Stocks
         /\ evaluation[e].quotes \in Quotes /\ evaluation[e].quotes \in [Quoted(e) -> Quote]
<1>1. evaluation[e] \in Evaluation /\ evaluation[e].quotes \in Quotes
  BY DEF AlertsInv, AlertsTypes, Evaluation
<1>2. Sound(evaluation[e])
  BY DEF AlertsInv, EvaluatesKnown, Sound, Quoted
<1> QED
  BY <1>1, <1>2, QuotesAre DEF Quoted

LEMMA StepOfOthers ==
  ASSUME AlertsAssumption, AlertsInv,
         \/ \E s \in Stocks : PriceMoves(s) \/ RemoveWatched(s)
         \/ \E r \in Admins : InsertWatched(r) \/ \E s \in Stocks : FindWatched(r, s)
  PROVE  AlertsInv'
<1> USE DEF AlertsInv
<1>1. UNCHANGED <<alerts, evaluation, alertReports, unreported>>
  BY DEF PriceMoves, RemoveWatched, InsertWatched, FindWatched
<1>2. AlertsTypes'
  <2>1. ASSUME NEW s \in Stocks, PriceMoves(s)
        PROVE  AlertsTypes'
    <3>1. time' \in 0 .. MaxMoves
      BY <2>1, Numbers DEF PriceMoves, AlertsTypes, AlertsAssumption
    <3>2. PICK p \in MarketPrices, known \in BOOLEAN :
            alertMarket' = [alertMarket EXCEPT ![s] =
                         [price |-> p, as_of |-> IF known THEN time + 1 ELSE Unset]]
      BY <2>1 DEF PriceMoves
    <3>3. [price |-> p, as_of |-> IF known THEN time + 1 ELSE Unset] \in Quote
      BY <2>1, <3>1, Numbers DEF Quote, PriceMoves
    <3> QED
      BY <2>1, <3>1, <3>2, <3>3 DEF PriceMoves, AlertsTypes
  <2>2. ASSUME NEW s \in Stocks, RemoveWatched(s)
        PROVE  AlertsTypes'
    BY <2>2 DEF RemoveWatched, AlertsTypes
  <2>3. ASSUME NEW r \in Admins, InsertWatched(r) \/ \E s \in Stocks : FindWatched(r, s)
        PROVE  AlertsTypes'
    BY <2>3 DEF InsertWatched, FindWatched, AlertsTypes
  <2> QED
    BY <2>1, <2>2, <2>3
<1>3. EvaluatesKnown'
  BY <1>1 DEF EvaluatesKnown, Quoted
<1> QED
  BY <1>1, <1>2, <1>3, TriggersOnceKept

LEMMA StepOfAlert ==
  ASSUME AlertsAssumption, AlertsInv, NEW a \in Alerts, CreateAlert(a) \/ DisableAlert(a)
  PROVE  AlertsInv'
<1> USE DEF AlertsInv
<1>1. CASE CreateAlert(a)
  <2>1. PICK s \in Stocks, above \in BOOLEAN, target \in Targets :
          alerts' = [alerts EXCEPT ![a] =
            [NoAlert EXCEPT !.status = "active", !.stock = s, !.above = above, !.target = target]]
    BY <1>1 DEF CreateAlert
  <2>2. /\ alerts'[a] \in Alert /\ alerts'[a].status = "active"
        /\ alerts' \in [Alerts -> Alert] /\ \A b \in Alerts \ {a} : alerts'[b] = alerts[b]
    <3>1. [NoAlert EXCEPT !.status = "active", !.stock = s, !.above = above, !.target = target]
            \in Alert
      BY NoAlertIsAlert DEF Alert
    <3>2. [NoAlert EXCEPT !.status = "active", !.stock = s, !.above = above,
                          !.target = target].status = "active"
      BY NoAlertIsAlert DEF Alert
    <3> QED
      BY <2>1, <3>1, <3>2 DEF AlertsTypes
  <2>3. AlertsTypes'
    BY <1>1, <2>2 DEF CreateAlert, AlertsTypes
  <2>4. EvaluatesKnown'
    <3>1. \A e \in Evaluators : evaluation[e].active \subseteq Alerts \ {a}
      BY <1>1, EvaluationIsSound DEF CreateAlert, Evaluation, Sound
    <3>2. UNCHANGED evaluation
      BY <1>1 DEF CreateAlert
    <3> QED
      BY <2>2, <3>1, <3>2 DEF EvaluatesKnown, Quoted
  <2>5. TriggersOnce'
    <3>1. alerts[a].status # "triggered" /\ UNCHANGED <<evaluation, alertReports, unreported>>
      BY <1>1, NoAlertIsAlert DEF CreateAlert
    <3> QED
      BY <2>2, <3>1, UntriggeredKept
  <2> QED
    BY <2>3, <2>4, <2>5
<1>2. CASE DisableAlert(a)
  <2>1. /\ alerts'[a] \in Alert /\ alerts'[a].status = "disabled"
        /\ alerts'[a].stock = alerts[a].stock
        /\ alerts' \in [Alerts -> Alert] /\ \A b \in Alerts \ {a} : alerts'[b] = alerts[b]
    BY <1>2 DEF DisableAlert, AlertsTypes, Alert
  <2>2. AlertsTypes'
    BY <1>2, <2>1 DEF DisableAlert, AlertsTypes
  <2>3. EvaluatesKnown'
    BY <1>2, <2>1 DEF DisableAlert, AlertsTypes, EvaluatesKnown, Evaluation, Quoted
  <2>4. TriggersOnce'
    <3>1. alerts[a].status # "triggered" /\ UNCHANGED <<evaluation, alertReports, unreported>>
      BY <1>2 DEF DisableAlert
    <3> QED
      BY <2>1, <3>1, UntriggeredKept
  <2> QED
    BY <2>2, <2>3, <2>4
<1> QED
  BY <1>1, <1>2

\* An evaluation that reads changes nothing but what it knows.
LEMMA ReadingKeeps ==
  ASSUME AlertsInv, NEW e \in Evaluators, NEW new \in Evaluation, Sound(new),
         evaluation' = [evaluation EXCEPT ![e] = new], alertFailures' \in 0 .. MaxAlertFailures,
         new.triggered = evaluation[e].triggered,
         UNCHANGED <<alertMarket, time, alerts, alertRows, adding, alertReports, unreported>>
  PROVE  AlertsInv'
<1>1. AlertsTypes'
  BY DEF AlertsInv, AlertsTypes
<1>2. \A f \in Evaluators : evaluation'[f] = IF f = e THEN new ELSE evaluation[f]
  BY DEF AlertsInv, AlertsTypes
<1>3. EvaluatesKnown'
  BY <1>2 DEF AlertsInv, EvaluatesKnown, Sound, Quoted
<1>4. TriggersOnce'
  BY <1>2, TriggersOnceKept DEF AlertsInv
<1> QED
  BY <1>1, <1>3, <1>4 DEF AlertsInv

\* The steps of an evaluation that read, and leave the alerts alone.
LEMMA StepOfReading ==
  ASSUME AlertsAssumption, AlertsInv, NEW e \in Evaluators,
         \/ Begin(e) \/ StartRecording(e)
         \/ \E s \in Stocks : Fetch(e, s) \/ FetchFails(e, s)
  PROVE  AlertsInv'
<1>1. UNCHANGED <<alertMarket, time, alerts, alertRows, adding, alertReports, unreported>>
  BY DEF Begin, StartRecording, Fetch, FetchFails
<1>2. alertFailures' \in 0 .. MaxAlertFailures
  <2>1. ASSUME NEW s \in Stocks, FetchFails(e, s)
        PROVE  alertFailures' \in 0 .. MaxAlertFailures
    BY <2>1 DEF FetchFails, AlertsInv, AlertsTypes, AlertsAssumption
  <2>2. CASE UNCHANGED alertFailures
    BY <2>2 DEF AlertsInv, AlertsTypes
  <2> QED
    BY <2>1, <2>2 DEF Begin, StartRecording, Fetch
<1>3. CASE Begin(e)
  <2> DEFINE new == [pc |-> "quoting", active |-> ActiveAlerts(e),
                     todo |-> {alerts[a].stock : a \in ActiveAlerts(e)}, quotes |-> <<>>,
                     triggered |-> {}]
  <2>1. evaluation' = [evaluation EXCEPT ![e] = new]
    BY <1>3 DEF Begin
  <2>2. ActiveAlerts(e) \subseteq Alerts
        /\ {alerts[a].stock : a \in ActiveAlerts(e)} \subseteq Stocks
    BY DEF ActiveAlerts, AlertsInv, AlertsTypes, Alert
  <2>3. <<>> \in Quotes
    BY IdleIsEvaluation DEF Idle, Evaluation
  <2>4. new \in Evaluation
    BY <2>2, <2>3 DEF Evaluation
  <2>5. Sound(new)
    BY DEF Sound, ActiveAlerts
  <2>6. new.triggered = evaluation[e].triggered
    BY <1>3, EvaluationIsSound DEF Begin, Sound
  <2> QED
    BY <1>1, <1>2, <2>1, <2>4, <2>5, <2>6, ReadingKeeps
<1>4. CASE StartRecording(e)
  <2> DEFINE timed == [s \in Quoted(e) |->
               IF evaluation[e].quotes[s].as_of = Unset
               THEN [evaluation[e].quotes[s] EXCEPT !.as_of = time]
               ELSE evaluation[e].quotes[s]]
             known == {a \in evaluation[e].active : alerts[a].stock \in Quoted(e)}
             new == [evaluation[e] EXCEPT !.pc = "recording", !.active = known,
                                          !.quotes = timed]
  <2>1. timed \in [Quoted(e) -> Quote]
    <3>1. ASSUME NEW s \in Quoted(e)
          PROVE  timed[s] \in Quote
      <4>1. evaluation[e].quotes[s] \in Quote /\ time \in Unset .. MaxMoves
        BY EvaluationIsSound, Numbers DEF AlertsInv, AlertsTypes
      <4> QED
        BY <4>1 DEF Quote
    <3> QED
      BY <3>1
  <2>2. timed \in Quotes
    BY EvaluationIsSound, <2>1, QuotesOfStocks
  <2>3. evaluation' = [evaluation EXCEPT ![e] = new]
    BY <1>4 DEF StartRecording, AlertsInv, AlertsTypes, Evaluation
  <2>4. DOMAIN timed = Quoted(e)
    OBVIOUS
  <2> HIDE DEF timed
  <2>5. new \in Evaluation
    BY EvaluationIsSound, <2>2 DEF Evaluation
  <2>6. Sound(new) /\ new.triggered = evaluation[e].triggered
    BY EvaluationIsSound, <2>4 DEF Evaluation, Sound
  <2> QED
    BY <1>1, <1>2, <2>3, <2>5, <2>6, ReadingKeeps
<1>5. ASSUME NEW s \in Stocks, Fetch(e, s)
      PROVE  AlertsInv'
  <2> DEFINE more == [t \in Quoted(e) \cup {s} |->
               IF t = s THEN alertMarket[s] ELSE evaluation[e].quotes[t]]
             new == [evaluation[e] EXCEPT !.todo = evaluation[e].todo \ {s}, !.quotes = more]
  <2>1. more \in [Quoted(e) \cup {s} -> Quote]
    BY EvaluationIsSound DEF AlertsInv, AlertsTypes
  <2>2. more \in Quotes
    BY EvaluationIsSound, <2>1, QuotesOfStocks
  <2>3. evaluation' = [evaluation EXCEPT ![e] = new] /\ evaluation[e].pc = "quoting"
    BY <1>5 DEF Fetch, AlertsInv, AlertsTypes, Evaluation
  <2> HIDE DEF more
  <2>4. new \in Evaluation
    BY EvaluationIsSound, <2>2 DEF Evaluation
  <2>5. Sound(new) /\ new.triggered = evaluation[e].triggered
    BY EvaluationIsSound, <2>3 DEF Evaluation, Sound
  <2> QED
    BY <1>1, <1>2, <2>3, <2>4, <2>5, ReadingKeeps
<1>6. ASSUME NEW s \in Stocks, FetchFails(e, s)
      PROVE  AlertsInv'
  <2> DEFINE new == [evaluation[e] EXCEPT !.todo = evaluation[e].todo \ {s}]
  <2>1. evaluation' = [evaluation EXCEPT ![e] = new]
    BY <1>6 DEF FetchFails, AlertsInv, AlertsTypes, Evaluation
  <2>2. new \in Evaluation
    BY EvaluationIsSound DEF Evaluation
  <2>3. Sound(new) /\ new.triggered = evaluation[e].triggered
    BY EvaluationIsSound DEF Evaluation, Sound
  <2> QED
    BY <1>1, <1>2, <2>1, <2>2, <2>3, ReadingKeeps
<1> QED
  BY <1>3, <1>4, <1>5, <1>6

\* An evaluation that ends or breaks off leaves its list to the reports, or to nobody.
LEMMA StepOfEnd ==
  ASSUME AlertsAssumption, AlertsInv, NEW e \in Evaluators, End(e) \/ EvaluationFails(e)
  PROVE  AlertsInv'
<1>1. /\ UNCHANGED <<alertMarket, time, alerts, alertRows, adding>>
      /\ evaluation' = [evaluation EXCEPT ![e] = Idle]
  BY DEF End, EvaluationFails
<1>2. \A f \in Evaluators : evaluation'[f] = IF f = e THEN Idle ELSE evaluation[f]
  BY <1>1 DEF AlertsInv, AlertsTypes
<1>3. AlertsTypes'
  <2>1. alertReports' \in [Alerts -> Nat] /\ unreported' \in SUBSET Alerts
    BY EvaluationIsSound DEF End, EvaluationFails, AlertsInv, AlertsTypes, Evaluation
  <2>2. alertFailures' \in 0 .. MaxAlertFailures
    BY DEF End, EvaluationFails, AlertsInv, AlertsTypes, AlertsAssumption
  <2> QED
    BY <1>1, <2>1, <2>2, IdleIsEvaluation DEF AlertsInv, AlertsTypes
<1>4. EvaluatesKnown'
  BY <1>1, <1>2 DEF AlertsInv, EvaluatesKnown, Quoted, Idle
<1>5. TriggersOnce'
  <2> DEFINE holders(a) == {f \in Evaluators : a \in evaluation[f].triggered}
  <2>1. \A a \in Alerts : holders(a)' = holders(a) \ {e}
    BY <1>2 DEF Idle
  <2>2. \A a \in Alerts :
          IF a \in evaluation[e].triggered
          THEN IF End(e) THEN alertReports'[a] = alertReports[a] + 1
                              /\ (a \in unreported' <=> a \in unreported)
                         ELSE alertReports'[a] = alertReports[a] /\ a \in unreported'
          ELSE alertReports'[a] = alertReports[a] /\ (a \in unreported' <=> a \in unreported)
    BY DEF End, EvaluationFails, AlertsInv, AlertsTypes
  <2>3. \A a \in Alerts : a \in evaluation[e].triggered <=> e \in holders(a)
    OBVIOUS
  <2>4. \A a \in Alerts : ToldOnce(a, alerts[a], alertReports[a], unreported, holders(a))
    BY DEF AlertsInv, TriggersOnce, ToldOnce
  <2> HIDE DEF holders
  <2>5. ASSUME NEW a \in Alerts
        PROVE  ToldOnce(a, alerts'[a], alertReports'[a], unreported', holders(a)')
    <3>1. alerts'[a] = alerts[a]
      BY <1>1
    <3>2. CASE e \in holders(a)
      <4>1. alerts[a].status = "triggered" /\ holders(a) = {e} /\ alertReports[a] = 0
            /\ a \notin unreported
        BY <3>2, <2>4 DEF ToldOnce
      <4>2. holders(a)' = {}
        BY <4>1, <2>1
      <4> QED
        BY <3>1, <3>2, <4>1, <4>2, <2>2, <2>3, <2>4 DEF ToldOnce
    <3>3. CASE e \notin holders(a)
      <4>1. holders(a)' = holders(a)
        BY <3>3, <2>1
      <4> QED
        BY <3>1, <3>3, <4>1, <2>2, <2>3, <2>4 DEF ToldOnce
    <3> QED
      BY <3>2, <3>3
  <2> USE DEF holders
  <2> QED
    BY <2>5 DEF TriggersOnce, ToldOnce, Meets
<1> QED
  BY <1>3, <1>4, <1>5 DEF AlertsInv

\* What recording does to the one alert and to the evaluation's list, and that it leaves
\* the others alone.
LEMMA RecordIs ==
  ASSUME AlertsInv, NEW e \in Evaluators, NEW a \in Alerts, Record(e, a)
  PROVE  /\ \A b \in Alerts \ {a} : alerts'[b] = alerts[b]
         /\ alerts' \in [Alerts -> Alert]
         /\ alerts'[a].stock = alerts[a].stock /\ alerts'[a].status # "none"
         /\ alerts[a].status # "active" => alerts'[a] = alerts[a]
         /\ alerts[a].status = "active" /\ alerts'[a].status = "triggered" =>
              Meets(alerts'[a], alerts'[a].price) /\ alerts'[a].triggered = alerts'[a].at
         /\ evaluation' = [evaluation EXCEPT ![e] =
              [evaluation[e] EXCEPT
                 !.active = evaluation[e].active \ {a},
                 !.triggered = IF alerts[a].status = "active" /\ alerts'[a].status = "triggered"
                               THEN evaluation[e].triggered \cup {a}
                               ELSE evaluation[e].triggered]]
<1> DEFINE fresh == evaluation[e].quotes[alerts[a].stock]
<1>1. /\ fresh \in Quote /\ alerts[a] \in Alert /\ alerts[a].status # "none"
      /\ evaluation[e] \in Evaluation
  BY QuotesAre DEF AlertsInv, AlertsTypes, Evaluation, EvaluatesKnown, Record, Quoted
<1>2. CASE Recordable(a)
  <2>1. /\ alerts' = [alerts EXCEPT ![a] = Recorded(alerts[a], fresh)]
        /\ evaluation' = [evaluation EXCEPT ![e] =
             [evaluation[e] EXCEPT
                !.active = evaluation[e].active \ {a},
                !.triggered = IF Meets(alerts[a], fresh.price)
                              THEN evaluation[e].triggered \cup {a}
                              ELSE evaluation[e].triggered]]
        /\ alerts[a].status = "active"
    BY <1>1, <1>2 DEF Record, Recordable, AlertsInv, AlertsTypes, Evaluation
  <2> HIDE DEF fresh
  <2>2. /\ alerts'[a] = Recorded(alerts[a], fresh)
        /\ \A b \in Alerts \ {a} : alerts'[b] = alerts[b]
        /\ alerts' \in [Alerts -> Alert]
    BY <1>1, <2>1, RecordedIs DEF AlertsInv, AlertsTypes
  <2>3. alerts'[a].status = IF Meets(alerts[a], fresh.price) THEN "triggered" ELSE "active"
    BY <1>1, <2>1, <2>2, RecordedIs
  <2>4. Meets(alerts[a], fresh.price) <=> alerts'[a].status = "triggered"
    BY <2>3
  <2>5. evaluation' = [evaluation EXCEPT ![e] =
              [evaluation[e] EXCEPT
                 !.active = evaluation[e].active \ {a},
                 !.triggered = IF alerts[a].status = "active" /\ alerts'[a].status = "triggered"
                               THEN evaluation[e].triggered \cup {a}
                               ELSE evaluation[e].triggered]]
    BY <2>1, <2>4
  <2>6. Meets(alerts[a], fresh.price) =>
          Meets(alerts'[a], alerts'[a].price) /\ alerts'[a].triggered = alerts'[a].at
    BY <1>1, <2>1, <2>2, RecordedIs
  <2>7. alerts'[a].stock = alerts[a].stock
    BY <1>1, <2>1, <2>2, RecordedIs
  <2> QED
    BY <2>1, <2>2, <2>3, <2>4, <2>5, <2>6, <2>7
<1>3. CASE ~ Recordable(a)
  <2>1. alerts' = alerts /\ alerts[a].status # "active"
    BY <1>3 DEF Record, Recordable, AlertsInv, AlertsTypes
  <2>2. evaluation' = [evaluation EXCEPT ![e] =
          [evaluation[e] EXCEPT !.active = evaluation[e].active \ {a},
                                !.triggered = evaluation[e].triggered]]
    BY <1>1, <1>3 DEF Record, Evaluation
  <2> QED
    BY <1>1, <2>1, <2>2 DEF AlertsInv, AlertsTypes
<1> QED
  BY <1>2, <1>3

LEMMA StepOfRecord ==
  ASSUME AlertsInv, NEW e \in Evaluators, NEW a \in Alerts, Record(e, a)
  PROVE  AlertsInv'
<1> DEFINE caught == alerts[a].status = "active" /\ alerts'[a].status = "triggered"
           new == [evaluation[e] EXCEPT
                     !.active = evaluation[e].active \ {a},
                     !.triggered = IF caught THEN evaluation[e].triggered \cup {a}
                                             ELSE evaluation[e].triggered]
<1>1. /\ evaluation' = [evaluation EXCEPT ![e] = new]
      /\ UNCHANGED <<alertMarket, time, alertRows, adding, alertReports, unreported,
                     alertFailures>>
      /\ evaluation[e].pc = "recording"
  BY RecordIs DEF Record
<1>2. /\ new \in Evaluation /\ new.pc = evaluation[e].pc
      /\ new.active \subseteq evaluation[e].active /\ new.quotes = evaluation[e].quotes
      /\ new.triggered = IF caught THEN evaluation[e].triggered \cup {a}
                                   ELSE evaluation[e].triggered
  BY EvaluationIsSound DEF Evaluation
<1>3. \A f \in Evaluators : evaluation'[f] = IF f = e THEN new ELSE evaluation[f]
  BY <1>1 DEF AlertsInv, AlertsTypes
<1> HIDE DEF new
<1>4. \A b \in Alerts : /\ alerts'[b].stock = alerts[b].stock
                        /\ alerts[b].status # "none" => alerts'[b].status # "none"
  BY RecordIs
<1>5. AlertsTypes'
  BY <1>1, <1>2, RecordIs DEF AlertsInv, AlertsTypes
<1>6. EvaluatesKnown'
  <2>1. \A f \in Evaluators : evaluation[f].active \subseteq Alerts
    BY DEF AlertsInv, AlertsTypes, Evaluation
  <2> QED
    BY <1>1, <1>2, <1>3, <1>4, <2>1 DEF AlertsInv, EvaluatesKnown, Quoted
<1>7. TriggersOnce'
  <2> DEFINE holders(b) == {f \in Evaluators : b \in evaluation[f].triggered}
  <2>1. \A b \in Alerts : b # a \/ ~caught => holders(b)' = holders(b)
    BY <1>2, <1>3
  <2>2. caught => holders(a)' = holders(a) \cup {e}
    BY <1>2, <1>3
  <2>3. \A b \in Alerts : ToldOnce(b, alerts[b], alertReports[b], unreported, holders(b))
    BY DEF AlertsInv, TriggersOnce, ToldOnce
  <2> HIDE DEF holders
  <2>4. ASSUME NEW b \in Alerts
        PROVE  ToldOnce(b, alerts'[b], alertReports'[b], unreported', holders(b)')
    <3>1. CASE b = a /\ caught
      <4>1. alerts[a].status # "triggered"
        BY <3>1
      <4>2. holders(a)' = {e} /\ alertReports[a] = 0 /\ a \notin unreported
        BY <3>1, <4>1, <2>2, <2>3 DEF ToldOnce
      <4>3. Meets(alerts'[a], alerts'[a].price) /\ alerts'[a].triggered = alerts'[a].at
            /\ alerts'[a].status = "triggered"
        BY <3>1, RecordIs
      <4> QED
        BY <1>1, <3>1, <4>2, <4>3 DEF ToldOnce
    <3>2. CASE b = a /\ ~caught /\ alerts[a].status = "active"
      <4>1. alerts'[a].status # "triggered" /\ alerts[a].status # "triggered"
        BY <3>2
      <4> QED
        BY <1>1, <2>1, <2>3, <3>2, <4>1 DEF ToldOnce
    <3>3. CASE b # a \/ alerts[a].status # "active"
      <4>1. alerts'[b] = alerts[b] /\ holders(b)' = holders(b)
        BY <3>3, <2>1, RecordIs
      <4> QED
        BY <1>1, <4>1, <2>3
    <3> QED
      BY <3>1, <3>2, <3>3
  <2> USE DEF holders
  <2> QED
    BY <2>4 DEF TriggersOnce, ToldOnce, Meets
<1> QED
  BY <1>5, <1>6, <1>7 DEF AlertsInv

LEMMA AlertsInvStep ==
  ASSUME AlertsAssumption, AlertsInv, [AlertsNext]_alertsVars
  PROVE  AlertsInv'
<1>1. CASE UNCHANGED alertsVars
  BY <1>1 DEF alertsVars, AlertsInv, AlertsTypes, EvaluatesKnown, Quoted, TriggersOnce
<1>2. CASE AlertsNext
  BY <1>2, StepOfOthers, StepOfAlert, StepOfReading, StepOfEnd, StepOfRecord
     DEF AlertsNext, Evaluate
<1> QED
  BY <1>1, <1>2

\* The invariant from which the theorems follow holds in every reachable state.
THEOREM AlertsInvariant ==
  ASSUME AlertsAssumption
  PROVE  AlertsSpec => []AlertsInv
<1>1. AlertsInit => AlertsInv
  BY AlertsInvInit
<1>2. AlertsInv /\ [AlertsNext]_alertsVars => AlertsInv'
  BY AlertsInvStep
<1> QED
  BY <1>1, <1>2, PTL DEF AlertsSpec

\* Every variable of watchlist, alerts and evaluations keeps its type (services/alerts.py).
THEOREM AlertsTypeCorrect ==
  ASSUME AlertsAssumption
  PROVE  AlertsSpec => []AlertsTypeOK
<1>1. AlertsInv => AlertsTypeOK
  BY QuotesAre DEF AlertsInv, AlertsTypes, AlertsTypeOK, Alert, Evaluation, Quoted
<1> QED
  BY <1>1, AlertsInvariant, PTL

\* However evaluations and administrators overlap, exactly one evaluation triggers an
\* alert, with a price that meets it, and it is reported once, or never if that evaluation
\* broke off (alerts/repository.py record_evaluation, services/alerts.py evaluate_active).
THEOREM TriggersOnceCorrect ==
  ASSUME AlertsAssumption
  PROVE  AlertsSpec => []TriggersOnce
<1>1. AlertsInv => TriggersOnce
  BY DEF AlertsInv
<1> QED
  BY <1>1, AlertsInvariant, PTL

\* A triggered or disabled alert is never touched again, by no late evaluation and no
\* later price (alerts/repository.py record_evaluation, disable_alert).
THEOREM OutcomeIsFinalCorrect ==
  ASSUME AlertsAssumption
  PROVE  AlertsSpec => OutcomeIsFinal
<1> DEFINE Final == \A a \in Alerts :
             alerts[a].status \in {"triggered", "disabled"} => alerts'[a] = alerts[a]
<1>1. AlertsInv /\ [AlertsNext]_alertsVars => Final
  <2> SUFFICES ASSUME AlertsInv, [AlertsNext]_alertsVars
               PROVE  Final
    OBVIOUS
  <2>1. ASSUME NEW a \in Alerts, CreateAlert(a) \/ DisableAlert(a)
        PROVE  Final
    BY <2>1 DEF CreateAlert, DisableAlert, AlertsInv, AlertsTypes
  <2>2. ASSUME NEW e \in Evaluators, NEW a \in Alerts, Record(e, a)
        PROVE  Final
    BY <2>2, RecordIs
  <2>3. CASE UNCHANGED alerts
    BY <2>3
  <2> QED
    BY <2>1, <2>2, <2>3 DEF AlertsNext, Evaluate, PriceMoves, RemoveWatched, InsertWatched,
       FindWatched, Begin, StartRecording, End, EvaluationFails, Fetch, FetchFails, alertsVars
<1>2. OutcomeIsFinal <=> [][Final]_alertsVars
  BY DEF OutcomeIsFinal
<1> QED
  BY <1>1, <1>2, AlertsInvariant, PTL DEF AlertsSpec

-----------------------------------------------------------------------------
(* PollingQuotes *)

\* The types that a message relies on, on its way from the market to a browser.
PollingTypes ==
  /\ bus \in {"none", "memory", "redis"}
  /\ pollingMarket \in [Symbols -> Nat]
  /\ round \in Seq(Symbols)
  /\ polled \in [symbol : Symbols \cup {NoSymbol}, message : Int]
  /\ polled.message >= Failure
  /\ polled # NothingPolled => polled.symbol \in Symbols
  /\ published \in BOOLEAN /\ (published => polled # NothingPolled /\ bus = "redis")
  /\ cached \in [Symbols -> Int] /\ \A s \in Symbols : cached[s] >= Failure
  /\ stream \in [Browsers -> {"off", "registered", "subscribing", "listening"}]
  /\ watched \in [Browsers -> Symbols \cup {NoSymbol}]
  /\ queue \in [Browsers -> Seq(Int)]
  /\ pollingSeen \in [Browsers -> Nat]

\* Every message of the queue is a failure or at least v,
NotBefore(q, v) == \A i \in 1 .. Len(q) : q[i] # Failure => v <= q[i]

\* at most v,
NotAfter(q, v) == \A i \in 1 .. Len(q) : q[i] <= v

\* and not older than the messages before it.
InOrder(q) ==
  \A i, j \in 1 .. Len(q) : i < j /\ q[j] # Failure => q[i] <= q[j]

\* A message waits only for a handler that listens, and a handler without a stream has
\* shown nothing.
QueuesAreFed ==
  \A b \in Browsers :
    /\ stream[b] # "listening" => queue[b] = <<>>
    /\ stream[b] \in {"off", "registered"} => pollingSeen[b] = NoMessage
    /\ stream[b] # "off" => watched[b] \in Symbols

\* Nothing is ahead of the market, or of the quote that is about to be published.
NothingIsAhead(s, v) ==
  /\ cached[s] <= v
  /\ \A b \in Browsers : watched[b] = s => pollingSeen[b] <= v /\ NotAfter(queue[b], v)

MarketLeads == \A s \in Symbols : NothingIsAhead(s, pollingMarket[s])

PolledIsNewest ==
  polled # NothingPolled /\ polled.message # Failure =>
    /\ polled.message <= pollingMarket[polled.symbol]
    /\ NothingIsAhead(polled.symbol, polled.message)

\* What waits for a browser comes in order, and not before what it shows.
QueuesAreOrdered ==
  \A b \in Browsers : NotBefore(queue[b], pollingSeen[b]) /\ InOrder(queue[b])

PollingInv ==
  /\ PollingTypes
  /\ QueuesAreFed
  /\ MarketLeads
  /\ PolledIsNewest
  /\ QueuesAreOrdered

LEMMA Failures == Failure = -1 /\ Failure \in Int /\ NoMessage = 0
BY DEF Failure, NoMessage

\* An empty queue and a queue of one message are in order.
LEMMA ShortQueues ==
  ASSUME NEW m \in Int, NEW v \in Int
  PROVE  /\ <<>> \in Seq(Int) /\ <<m>> \in Seq(Int)
         /\ NotBefore(<<>>, v) /\ NotAfter(<<>>, v) /\ InOrder(<<>>)
         /\ (m # Failure => v <= m) => NotBefore(<<m>>, v)
         /\ m <= v => NotAfter(<<m>>, v)
         /\ InOrder(<<m>>)
BY DEF NotBefore, NotAfter, InOrder

\* A message that is not older than those before it keeps a queue in order.
LEMMA Queued ==
  ASSUME NEW q \in Seq(Int), NEW m \in Int, NEW v \in Int
  PROVE  /\ Append(q, m) \in Seq(Int)
         /\ NotBefore(q, v) /\ (m # Failure => v <= m) => NotBefore(Append(q, m), v)
         /\ NotAfter(q, v) /\ m <= v => NotAfter(Append(q, m), v)
         /\ InOrder(q) /\ (m # Failure => NotAfter(q, m)) => InOrder(Append(q, m))
<1>1. /\ Append(q, m) \in Seq(Int)
      /\ Len(Append(q, m)) = Len(q) + 1 /\ Len(q) \in Nat
      /\ \A i \in 1 .. Len(q) : Append(q, m)[i] = q[i] /\ q[i] \in Int
      /\ Append(q, m)[Len(q) + 1] = m
  OBVIOUS
<1>2. \A i \in 1 .. Len(q) + 1 : i \in 1 .. Len(q) \/ i = Len(q) + 1
  BY <1>1
<1>3. NotBefore(q, v) /\ (m # Failure => v <= m) => NotBefore(Append(q, m), v)
  BY <1>1, <1>2 DEF NotBefore
<1>4. NotAfter(q, v) /\ m <= v => NotAfter(Append(q, m), v)
  BY <1>1, <1>2 DEF NotAfter
<1>5. ASSUME InOrder(q), m # Failure => NotAfter(q, m),
             NEW i \in 1 .. Len(q) + 1, NEW j \in 1 .. Len(q) + 1,
             i < j, Append(q, m)[j] # Failure
      PROVE  Append(q, m)[i] <= Append(q, m)[j]
  <2>1. i \in 1 .. Len(q)
    BY <1>1, <1>5
  <2>2. CASE j \in 1 .. Len(q)
    BY <1>1, <1>5, <2>1, <2>2 DEF InOrder
  <2>3. CASE j = Len(q) + 1
    BY <1>1, <1>5, <2>1, <2>3 DEF NotAfter
  <2> QED
    BY <1>2, <2>2, <2>3
<1>6. InOrder(q) /\ (m # Failure => NotAfter(q, m)) => InOrder(Append(q, m))
  BY <1>1, <1>5 DEF InOrder
<1> QED
  BY <1>1, <1>3, <1>4, <1>6

\* What is left of a queue comes after its first message.
LEMMA Unqueued ==
  ASSUME NEW q \in Seq(Int), q # <<>>, NEW v \in Int
  PROVE  /\ Head(q) \in Int /\ Tail(q) \in Seq(Int)
         /\ NotAfter(q, v) => Head(q) <= v /\ NotAfter(Tail(q), v)
         /\ NotBefore(q, v) => NotBefore(Tail(q), v) /\ (Head(q) # Failure => v <= Head(q))
         /\ InOrder(q) => NotBefore(Tail(q), Head(q)) /\ InOrder(Tail(q))
<1>1. /\ Len(q) \in Nat /\ Len(q) >= 1 /\ Head(q) = q[1] /\ q[1] \in Int
      /\ Tail(q) \in Seq(Int) /\ Len(Tail(q)) = Len(q) - 1
      /\ \A i \in 1 .. Len(q) - 1 : Tail(q)[i] = q[i + 1]
      /\ \A i \in 1 .. Len(q) : q[i] \in Int
  OBVIOUS
<1>2. NotAfter(q, v) => Head(q) <= v /\ NotAfter(Tail(q), v)
  BY <1>1 DEF NotAfter
<1>3. NotBefore(q, v) => NotBefore(Tail(q), v) /\ (Head(q) # Failure => v <= Head(q))
  BY <1>1 DEF NotBefore
<1>4. InOrder(q) => NotBefore(Tail(q), Head(q)) /\ InOrder(Tail(q))
  BY <1>1 DEF NotBefore, InOrder
<1> QED
  BY <1>1, <1>2, <1>3, <1>4

\* A message that is the newest of its symbol leaves every queue in order.
LEMMA DeliveredInOrder ==
  ASSUME PollingInv, polled # NothingPolled, NEW b \in Browsers
  PROVE  LET q == Delivered(polled.symbol, polled.message)[b] IN
         /\ q \in Seq(Int)
         /\ stream[b] # "listening" => q = queue[b]
         /\ NotBefore(q, pollingSeen[b]) /\ InOrder(q)
         /\ NotAfter(q, pollingMarket[watched[b]]) \/ watched[b] \notin Symbols
<1> DEFINE D == Delivered(polled.symbol, polled.message)
           m == polled.message
<1>1. /\ queue[b] \in Seq(Int) /\ m \in Int /\ pollingSeen[b] \in Int /\ m >= Failure
      /\ polled.symbol \in Symbols
      /\ NotBefore(queue[b], pollingSeen[b]) /\ InOrder(queue[b])
      /\ stream[b] # "listening" => queue[b] = <<>>
      /\ \A s \in Symbols : pollingMarket[s] \in Nat
  BY DEF PollingInv, PollingTypes, QueuesAreOrdered, QueuesAreFed
<1>2. watched[b] \in Symbols => NotAfter(queue[b], pollingMarket[watched[b]])
  BY DEF PollingInv, MarketLeads, NothingIsAhead
<1>3. CASE b \notin Listening(polled.symbol)
  <2>1. D[b] = queue[b]
    BY <1>3 DEF Delivered
  <2> QED
    BY <1>1, <1>2, <2>1
<1>4. CASE b \in Listening(polled.symbol)
  <2>1. watched[b] = polled.symbol /\ stream[b] = "listening"
    BY <1>4 DEF Listening
  <2>2. m # Failure => /\ m <= pollingMarket[watched[b]]
                       /\ pollingSeen[b] <= m /\ NotAfter(queue[b], m)
    BY <2>1 DEF PollingInv, PolledIsNewest, NothingIsAhead
  <2>3. m <= pollingMarket[watched[b]]
    BY <1>1, <2>1, <2>2, Failures
  <2>4. CASE bus = "memory"
    <3>1. D[b] = <<m>>
      BY <1>4, <2>4 DEF Delivered
    <3> QED
      BY <1>1, <2>1, <2>2, <2>3, <3>1, ShortQueues
  <2>5. CASE bus # "memory"
    <3>1. D[b] = Append(queue[b], m)
      BY <1>4, <2>5 DEF Delivered
    <3>2. NotBefore(D[b], pollingSeen[b]) /\ D[b] \in Seq(Int)
      BY <1>1, <2>2, <3>1, Queued
    <3>3. InOrder(D[b])
      BY <1>1, <2>2, <3>1, Queued
    <3>4. NotAfter(D[b], pollingMarket[watched[b]])
      <4>1. pollingMarket[watched[b]] \in Int
        BY <1>1, <2>1
      <4> QED
        BY <1>1, <1>2, <2>1, <2>3, <3>1, <4>1, Queued
    <3> QED
      BY <2>1, <3>2, <3>3, <3>4
  <2> QED
    BY <2>4, <2>5
<1> QED
  BY <1>3, <1>4

LEMMA PollingInvInit == ASSUME PollingAssumption, PollingInit PROVE PollingInv
<1>1. NothingPolled \in [symbol : Symbols \cup {NoSymbol}, message : Int]
      /\ NothingPolled.message = 0 /\ <<>> \in Seq(Int) /\ <<>> \in Seq(Symbols)
  BY DEF NothingPolled, NoMessage
<1>2. PollingTypes
  <2>1. /\ bus \in {"none", "memory", "redis"}
        /\ published \in BOOLEAN /\ (published => polled # NothingPolled /\ bus = "redis")
    BY DEF PollingInit
  <2>4. /\ pollingMarket \in [Symbols -> Nat] /\ cached \in [Symbols -> Int]
        /\ \A s \in Symbols : cached[s] >= Failure
    BY DEF PollingInit, NoMessage, Failure
  <2>2. /\ round \in Seq(Symbols) /\ queue \in [Browsers -> Seq(Int)]
        /\ polled \in [symbol : Symbols \cup {NoSymbol}, message : Int]
        /\ polled.message >= Failure /\ polled = NothingPolled
    BY <1>1 DEF PollingInit, Failure
  <2>3. /\ stream \in [Browsers -> {"off", "registered", "subscribing", "listening"}]
        /\ watched \in [Browsers -> Symbols \cup {NoSymbol}]
        /\ pollingSeen \in [Browsers -> Nat]
    BY DEF PollingInit, NoMessage
  <2> QED
    BY <2>1, <2>2, <2>3, <2>4 DEF PollingTypes
<1>3. \A b \in Browsers :
        queue[b] = <<>> /\ pollingSeen[b] = 0 /\ watched[b] = NoSymbol /\ stream[b] = "off"
  BY DEF PollingInit, NoMessage
<1>4. QueuesAreFed
  BY <1>3 DEF QueuesAreFed, NoMessage
<1>5. MarketLeads
  BY <1>3 DEF PollingInit, PollingAssumption, MarketLeads, NothingIsAhead, NoMessage
<1>6. PolledIsNewest
  BY DEF PollingInit, PolledIsNewest
<1>7. NotBefore(<<>>, 0) /\ InOrder(<<>>)
  BY DEF NotBefore, InOrder
<1>8. QueuesAreOrdered
  BY <1>3, <1>7 DEF QueuesAreOrdered
<1> QED
  BY <1>2, <1>4, <1>5, <1>6, <1>8 DEF PollingInv

\* A step of one handler keeps the invariant if it shows and keeps nothing that is ahead.
LEMMA HandlerStep ==
  ASSUME PollingInv, PollingTypes', NEW b \in Browsers,
         UNCHANGED <<bus, pollingMarket, poller, cached>>,
         \A c \in Browsers \ {b} :
           /\ stream'[c] = stream[c] /\ watched'[c] = watched[c]
           /\ queue'[c] = queue[c] /\ pollingSeen'[c] = pollingSeen[c],
         stream'[b] # "listening" => queue'[b] = <<>>,
         stream'[b] \in {"off", "registered"} => pollingSeen'[b] = NoMessage,
         stream'[b] # "off" => watched'[b] \in Symbols,
         NotBefore(queue'[b], pollingSeen'[b]), InOrder(queue'[b]),
         \A v \in Nat : watched'[b] \in Symbols /\ NothingIsAhead(watched'[b], v) =>
           pollingSeen'[b] <= v /\ NotAfter(queue'[b], v)
  PROVE  PollingInv'
<1>1. QueuesAreFed'
  BY DEF PollingInv, QueuesAreFed
<1>2. QueuesAreOrdered'
  BY DEF PollingInv, QueuesAreOrdered, NotBefore, InOrder
<1>3. ASSUME NEW s \in Symbols, NEW v \in Nat, NothingIsAhead(s, v)
      PROVE  NothingIsAhead(s, v)'
  <2>1. cached'[s] <= v
    BY <1>3 DEF NothingIsAhead
  <2>2. ASSUME NEW c \in Browsers, watched'[c] = s
        PROVE  pollingSeen'[c] <= v /\ NotAfter(queue'[c], v)
    <3>1. CASE c = b
      BY <1>3, <2>2, <3>1
    <3>2. CASE c # b
      BY <1>3, <2>2, <3>2 DEF NothingIsAhead
    <3> QED
      BY <3>1, <3>2
  <2> QED
    BY <2>1, <2>2 DEF NothingIsAhead, NotAfter
<1>4. MarketLeads'
  BY <1>3 DEF PollingInv, PollingTypes, MarketLeads
<1>5. PolledIsNewest'
  <2>1. UNCHANGED polled
    BY DEF poller
  <2>2. SUFFICES ASSUME polled # NothingPolled, polled.message # Failure
                 PROVE  /\ polled.message <= pollingMarket[polled.symbol]
                        /\ NothingIsAhead(polled.symbol, polled.message)'
    BY <2>1 DEF PolledIsNewest
  <2>3. polled.message \in Nat /\ polled.symbol \in Symbols
    BY <2>2 DEF PollingInv, PollingTypes, Failure
  <2>4. /\ polled.message <= pollingMarket[polled.symbol]
        /\ NothingIsAhead(polled.symbol, polled.message)
    BY <2>2 DEF PollingInv, PolledIsNewest
  <2>5. \A s \in Symbols, v \in Nat : s = polled.symbol /\ v = polled.message =>
          NothingIsAhead(s, v)'
    BY <1>3, <2>4
  <2> QED
    BY <2>1, <2>3, <2>4, <2>5 DEF NothingIsAhead, NotAfter
<1> QED
  BY <1>1, <1>2, <1>4, <1>5 DEF PollingInv

\* A step of the poller that leaves the handlers and the messages alone
LEMMA PollerStep ==
  ASSUME PollingInv, PollingTypes', UNCHANGED <<pollingMarket, cached, browser>>,
         polled' = NothingPolled \/ UNCHANGED polled
  PROVE  PollingInv'
<1>1. UNCHANGED <<stream, watched, queue, pollingSeen>>
  BY DEF browser
<1>2. QueuesAreFed'
  BY <1>1 DEF PollingInv, QueuesAreFed
<1>3. QueuesAreOrdered'
  BY <1>1 DEF PollingInv, QueuesAreOrdered, NotBefore, InOrder
<1>4. MarketLeads'
  BY <1>1 DEF PollingInv, MarketLeads, NothingIsAhead, NotAfter
<1>5. PolledIsNewest'
  BY <1>1 DEF PollingInv, PolledIsNewest, NothingIsAhead, NotAfter
<1> QED
  BY <1>2, <1>3, <1>4, <1>5 DEF PollingInv

\* Sending a message that is not older than what the browser shows, nor ahead.
LEMMA SendMessageStep ==
  ASSUME PollingAssumption, PollingInv, NEW b \in Browsers,
         NEW m \in Int, NEW next, NEW rest \in Seq(Int),
         next \in {"subscribing", "listening"}, next # "listening" => rest = <<>>,
         UNCHANGED <<bus, pollingMarket, poller, cached>>,
         stream[b] # "off", m # Failure => pollingSeen[b] <= m,
         SendMessage(b, m, next), b \in pollingGone \/ queue' = [queue EXCEPT ![b] = rest],
         NotBefore(rest, pollingSeen[b]), m # Failure => NotBefore(rest, m),
         InOrder(rest),
         \A v \in Nat : NothingIsAhead(watched[b], v) => m <= v /\ NotAfter(rest, v)
  PROVE  PollingInv' /\ (watched'[b] = watched[b] => pollingSeen'[b] >= pollingSeen[b])
<1>1. /\ watched[b] \in Symbols /\ pollingSeen \in [Browsers -> Nat]
      /\ watched \in [Browsers -> Symbols \cup {NoSymbol}]
      /\ stream \in [Browsers -> {"off", "registered", "subscribing", "listening"}]
      /\ queue \in [Browsers -> Seq(Int)]
  BY DEF PollingInv, PollingTypes, QueuesAreFed
<1>2. UNCHANGED <<bus, pollingMarket, round, polled, published, cached>>
  BY DEF poller
<1>3. \A v \in Nat : NothingIsAhead(watched[b], v) => pollingSeen[b] <= v
  BY DEF NothingIsAhead
<1>4. CASE b \in pollingGone
  <2>1. Unregister(b)
    BY <1>4 DEF SendMessage
  <2>2. /\ stream'[b] = "off" /\ watched'[b] = NoSymbol /\ queue'[b] = <<>>
        /\ pollingSeen'[b] = 0
        /\ \A c \in Browsers \ {b} :
             /\ stream'[c] = stream[c] /\ watched'[c] = watched[c]
             /\ queue'[c] = queue[c] /\ pollingSeen'[c] = pollingSeen[c]
    BY <1>1, <2>1 DEF Unregister, NoMessage
  <2>3. PollingTypes'
    BY <1>1, <1>2, <2>1 DEF PollingInv, PollingTypes, Unregister, NoMessage
  <2>4. \A v \in Nat : NotBefore(<<>>, v) /\ NotAfter(<<>>, v) /\ InOrder(<<>>)
    BY DEF NotBefore, NotAfter, InOrder
  <2>5. NotBefore(queue'[b], pollingSeen'[b]) /\ InOrder(queue'[b])
    BY <2>2, <2>4
  <2>6. \A v \in Nat : watched'[b] \in Symbols /\ NothingIsAhead(watched'[b], v) =>
          pollingSeen'[b] <= v /\ NotAfter(queue'[b], v)
    BY <2>2, <2>4
  <2>7. PollingInv'
    BY <2>2, <2>3, <2>5, <2>6, HandlerStep DEF NoMessage
  <2> QED
    BY <1>1, <2>2, <2>7 DEF PollingAssumption
<1>5. CASE b \notin pollingGone
  <2>1. /\ pollingSeen' = [pollingSeen EXCEPT ![b] = IF m = Failure THEN @ ELSE m]
        /\ stream' = [stream EXCEPT ![b] = next]
        /\ UNCHANGED watched /\ queue' = [queue EXCEPT ![b] = rest]
    BY <1>5 DEF SendMessage
  <2>2. /\ stream'[b] = next /\ watched'[b] = watched[b] /\ queue'[b] = rest
        /\ pollingSeen'[b] = (IF m = Failure THEN pollingSeen[b] ELSE m)
        /\ \A c \in Browsers \ {b} :
             /\ stream'[c] = stream[c] /\ watched'[c] = watched[c]
             /\ queue'[c] = queue[c] /\ pollingSeen'[c] = pollingSeen[c]
    BY <1>1, <2>1
  <2>3. m = Failure \/ m \in Nat
    BY <1>1
  <2>4. PollingTypes'
    BY <1>1, <1>2, <2>1, <2>3 DEF PollingInv, PollingTypes
  <2>5. NotBefore(queue'[b], pollingSeen'[b]) /\ InOrder(queue'[b])
    BY <2>2
  <2>6. \A v \in Nat : watched'[b] \in Symbols /\ NothingIsAhead(watched'[b], v) =>
          pollingSeen'[b] <= v /\ NotAfter(queue'[b], v)
    BY <1>3, <2>2
  <2>7. PollingInv'
    BY <1>1, <2>2, <2>4, <2>5, <2>6, HandlerStep
  <2> QED
    BY <1>1, <2>2, <2>7
<1> QED
  BY <1>4, <1>5

LEMMA StartHubStep ==
  ASSUME PollingInv, NEW kind \in {"memory", "redis"}, StartHub(kind)
  PROVE  PollingInv' /\ UNCHANGED <<watched, pollingSeen>>
<1>1. PollingTypes'
  BY DEF PollingInv, PollingTypes, StartHub, poller, browser, NothingPolled
<1> QED
  BY <1>1, PollerStep DEF StartHub, poller, browser

LEMMA MarketMovesStep ==
  ASSUME PollingInv, NEW s \in Symbols, MarketMoves(s)
  PROVE  PollingInv' /\ UNCHANGED <<watched, pollingSeen>>
<1>1. /\ UNCHANGED <<bus, round, polled, published, cached, stream, watched, queue, pollingSeen>>
      /\ pollingMarket \in [Symbols -> Nat]
      /\ pollingMarket' = [pollingMarket EXCEPT ![s] = @ + 1]
  BY DEF MarketMoves, poller, browser, PollingInv, PollingTypes
<1>2. \A t \in Symbols : pollingMarket'[t] \in Nat /\ pollingMarket[t] <= pollingMarket'[t]
  BY <1>1
<1>3. PollingTypes'
  BY <1>1 DEF PollingInv, PollingTypes, NothingPolled
<1>4. MarketLeads'
  <2>1. ASSUME NEW t \in Symbols PROVE NothingIsAhead(t, pollingMarket[t])'
    <3>1. NothingIsAhead(t, pollingMarket[t])
      BY DEF PollingInv, MarketLeads
    <3>2. /\ cached[t] \in Int /\ pollingMarket[t] \in Int
          /\ \A b \in Browsers : pollingSeen[b] \in Int /\ queue[b] \in Seq(Int)
      BY DEF PollingInv, PollingTypes
    <3>3. cached'[t] <= pollingMarket'[t]
      BY <1>1, <1>2, <3>1, <3>2 DEF NothingIsAhead
    <3>4. ASSUME NEW b \in Browsers, watched'[b] = t
          PROVE  pollingSeen'[b] <= pollingMarket'[t] /\ NotAfter(queue'[b], pollingMarket'[t])
      BY <1>1, <1>2, <3>1, <3>2, <3>4 DEF NothingIsAhead, NotAfter
    <3> QED
      BY <3>3, <3>4 DEF NothingIsAhead, NotAfter
  <2> QED
    BY <2>1 DEF MarketLeads
<1>5. PolledIsNewest'
  BY <1>1, <1>2 DEF PollingInv, PollingTypes, PolledIsNewest, NothingIsAhead, NotAfter
<1>6. QueuesAreFed' /\ QueuesAreOrdered'
  BY <1>1 DEF PollingInv, QueuesAreFed, QueuesAreOrdered, NotBefore, InOrder
<1> QED
  BY <1>1, <1>3, <1>4, <1>5, <1>6 DEF PollingInv

LEMMA StartRoundStep ==
  ASSUME PollingAssumption, PollingInv, StartRound
  PROVE  PollingInv' /\ UNCHANGED <<watched, pollingSeen>>
<1>1. Cardinality(Active) \in Nat
  <2>1. IsFiniteSet(Active)
    BY FS_Subset DEF Active, PollingAssumption
  <2> QED
    BY <2>1, FS_CardinalityType
<1>2. round' \in Seq(Symbols)
  BY <1>1 DEF StartRound, Orders, Active
<1>3. PollingTypes'
  BY <1>2 DEF PollingInv, PollingTypes, StartRound, browser, NothingPolled
<1> QED
  BY <1>3, PollerStep DEF StartRound, browser

LEMMA FetchQuoteStep ==
  ASSUME PollingInv, round # <<>>,
         NEW message \in {pollingMarket[Head(round)], Failure}, FetchQuote(message)
  PROVE  PollingInv' /\ UNCHANGED <<watched, pollingSeen>>
<1>1. Head(round) \in Symbols /\ Tail(round) \in Seq(Symbols)
  BY DEF PollingInv, PollingTypes
<1>2. /\ UNCHANGED <<bus, pollingMarket, published, cached, stream, watched, queue, pollingSeen>>
      /\ round' = Tail(round) /\ polled' = [symbol |-> Head(round), message |-> message]
  BY DEF FetchQuote, browser
<1>3. message \in Int /\ message >= Failure
  BY <1>1, Failures DEF PollingInv, PollingTypes
<1>4. PollingTypes'
  <2>1. polled' # NothingPolled \/ ~published'
    BY <1>2 DEF PollingInv, PollingTypes, FetchQuote
  <2> QED
    BY <1>1, <1>2, <1>3, <2>1 DEF PollingInv, PollingTypes
<1>5. MarketLeads'
  BY <1>2 DEF PollingInv, MarketLeads, NothingIsAhead, NotAfter
<1>6. PolledIsNewest'
  <2>1. NothingIsAhead(Head(round), pollingMarket[Head(round)])
    BY <1>1 DEF PollingInv, MarketLeads
  <2>2. pollingMarket[Head(round)] \in Int
    BY <1>1 DEF PollingInv, PollingTypes
  <2> QED
    BY <1>1, <1>2, <2>1, <2>2 DEF PolledIsNewest, NothingIsAhead, NotAfter
<1>7. QueuesAreFed' /\ QueuesAreOrdered'
  BY <1>2 DEF PollingInv, QueuesAreFed, QueuesAreOrdered, NotBefore, InOrder
<1> QED
  BY <1>2, <1>4, <1>5, <1>6, <1>7 DEF PollingInv

LEMMA FetchBreaksStep ==
  ASSUME PollingInv, FetchBreaks
  PROVE  PollingInv' /\ UNCHANGED <<watched, pollingSeen>>
<1>1. Tail(round) \in Seq(Symbols)
  BY DEF FetchBreaks, PollingInv, PollingTypes
<1>2. PollingTypes'
  BY <1>1 DEF PollingInv, PollingTypes, FetchBreaks, browser, NothingPolled
<1> QED
  BY <1>2, PollerStep DEF FetchBreaks, browser

LEMMA PublishFailsStep ==
  ASSUME PollingInv, PublishFails
  PROVE  PollingInv' /\ UNCHANGED <<watched, pollingSeen>>
<1>1. NothingPolled \in [symbol : Symbols \cup {NoSymbol}, message : Int]
      /\ NothingPolled.message = 0
  BY DEF NothingPolled, NoMessage
<1>2. PollingTypes'
  <2>1. /\ UNCHANGED <<bus, pollingMarket, round, cached, stream, watched, queue, pollingSeen>>
        /\ polled' = NothingPolled /\ published' = FALSE
    BY DEF PublishFails, browser
  <2>2. published' \in BOOLEAN /\ ~published'
    BY <2>1
  <2>3. polled' \in [symbol : Symbols \cup {NoSymbol}, message : Int]
        /\ polled'.message >= Failure
    BY <1>1, <2>1 DEF Failure
  <2>4. NothingPolled' = NothingPolled
    BY DEF NothingPolled
  <2> QED
    BY <2>1, <2>2, <2>3, <2>4 DEF PollingInv, PollingTypes
<1> QED
  BY <1>2, PollerStep DEF PublishFails, browser

\* The message that is published becomes the cached one.
LEMMA Caching ==
  ASSUME PollingInv, polled # NothingPolled,
         cached' = [cached EXCEPT ![polled.symbol] = polled.message]
  PROVE  /\ cached' \in [Symbols -> Int] /\ \A s \in Symbols : cached'[s] >= Failure
         /\ \A s \in Symbols : cached'[s] <= pollingMarket[s]
         /\ polled.message # Failure => cached'[polled.symbol] <= polled.message
<1>1. /\ cached \in [Symbols -> Int] /\ polled.symbol \in Symbols /\ polled.message \in Int
      /\ pollingMarket \in [Symbols -> Nat] /\ polled.message >= Failure
      /\ \A s \in Symbols : cached[s] >= Failure
  BY DEF PollingInv, PollingTypes
<1>2. polled.message <= pollingMarket[polled.symbol]
  BY <1>1, Failures DEF PollingInv, PolledIsNewest
<1>3. \A s \in Symbols : cached[s] <= pollingMarket[s]
  BY DEF PollingInv, MarketLeads, NothingIsAhead
<1> QED
  BY <1>1, <1>2, <1>3

\* What a publication delivers keeps the queues fed, in order and behind the market.
LEMMA Delivering ==
  ASSUME PollingInv, polled # NothingPolled, queue' = Delivered(polled.symbol, polled.message),
         UNCHANGED <<pollingMarket, stream, watched, pollingSeen>>
  PROVE  /\ queue' \in [Browsers -> Seq(Int)]
         /\ QueuesAreFed' /\ QueuesAreOrdered'
         /\ \A s \in Symbols, b \in Browsers : watched[b] = s =>
              pollingSeen[b] <= pollingMarket[s] /\ NotAfter(queue'[b], pollingMarket[s])
<1>1. \A b \in Browsers :
        /\ queue'[b] \in Seq(Int)
        /\ stream[b] # "listening" => queue'[b] = queue[b]
        /\ NotBefore(queue'[b], pollingSeen[b]) /\ InOrder(queue'[b])
        /\ NotAfter(queue'[b], pollingMarket[watched[b]]) \/ watched[b] \notin Symbols
  BY DeliveredInOrder
<1>2. queue' \in [Browsers -> Seq(Int)]
  BY <1>1 DEF Delivered
<1>3. QueuesAreFed'
  BY <1>1 DEF PollingInv, QueuesAreFed
<1>4. QueuesAreOrdered'
  BY <1>1 DEF QueuesAreOrdered, NotBefore, InOrder
<1>5. \A s \in Symbols, b \in Browsers : watched[b] = s => pollingSeen[b] <= pollingMarket[s]
  BY DEF PollingInv, MarketLeads, NothingIsAhead
<1> QED
  BY <1>1, <1>2, <1>3, <1>4, <1>5

LEMMA PublishInMemoryStep ==
  ASSUME PollingInv, PublishInMemory
  PROVE  PollingInv' /\ UNCHANGED <<watched, pollingSeen>>
<1>1. /\ polled # NothingPolled /\ polled' = NothingPolled
      /\ queue' = Delivered(polled.symbol, polled.message)
      /\ cached' = [cached EXCEPT ![polled.symbol] = polled.message]
      /\ UNCHANGED <<bus, pollingMarket, round, published, stream, watched, pollingSeen>>
  BY DEF PublishInMemory
<1>2. NothingPolled \in [symbol : Symbols \cup {NoSymbol}, message : Int]
      /\ NothingPolled.message = 0
  BY DEF NothingPolled, NoMessage
<1>3. ~published
  BY DEF PollingInv, PollingTypes, PublishInMemory
<1>4. PollingTypes'
  BY <1>1, <1>2, <1>3, Caching, Delivering DEF PollingInv, PollingTypes, Failure
<1>5. MarketLeads'
  BY <1>1, Caching, Delivering DEF MarketLeads, NothingIsAhead, NotAfter
<1>6. PolledIsNewest'
  BY <1>1 DEF PolledIsNewest
<1> QED
  BY <1>1, <1>4, <1>5, <1>6, Delivering DEF PollingInv

LEMMA SetCacheStep ==
  ASSUME PollingInv, SetCache
  PROVE  PollingInv' /\ UNCHANGED <<watched, pollingSeen>>
<1>1. /\ polled # NothingPolled /\ published' = TRUE /\ bus = "redis"
      /\ cached' = [cached EXCEPT ![polled.symbol] = polled.message]
      /\ UNCHANGED <<bus, pollingMarket, round, polled, stream, watched, queue, pollingSeen>>
  BY DEF SetCache, browser
<1>2. PollingTypes'
  <2>1. cached' \in [Symbols -> Int] /\ \A s \in Symbols : cached'[s] >= Failure
    BY <1>1, Caching
  <2>2. published' \in BOOLEAN
    BY <1>1
  <2>3. NothingPolled' = NothingPolled
    BY DEF NothingPolled
  <2> QED
    BY <1>1, <2>1, <2>2, <2>3 DEF PollingInv, PollingTypes
<1>3. MarketLeads'
  BY <1>1, Caching DEF PollingInv, MarketLeads, NothingIsAhead, NotAfter
<1>4. PolledIsNewest'
  BY <1>1, Caching DEF PollingInv, PolledIsNewest, NothingIsAhead, NotAfter, NothingPolled
<1>5. QueuesAreFed' /\ QueuesAreOrdered'
  BY <1>1 DEF PollingInv, QueuesAreFed, QueuesAreOrdered, NotBefore, InOrder
<1> QED
  BY <1>1, <1>2, <1>3, <1>4, <1>5 DEF PollingInv

LEMMA TellChannelStep ==
  ASSUME PollingInv, TellChannel
  PROVE  PollingInv' /\ UNCHANGED <<watched, pollingSeen>>
<1>1. /\ published /\ polled' = NothingPolled /\ published' = FALSE
      /\ queue' = Delivered(polled.symbol, polled.message)
      /\ UNCHANGED <<bus, pollingMarket, round, cached, stream, watched, pollingSeen>>
  BY DEF TellChannel
<1>2. polled # NothingPolled
  BY <1>1 DEF PollingInv, PollingTypes
<1>3. NothingPolled \in [symbol : Symbols \cup {NoSymbol}, message : Int]
      /\ NothingPolled.message = 0
  BY DEF NothingPolled, NoMessage
<1>4. PollingTypes'
  <2>1. queue' \in [Browsers -> Seq(Int)]
    BY <1>1, <1>2, Delivering
  <2>2. published' \in BOOLEAN /\ ~published'
    BY <1>1
  <2>3. polled' \in [symbol : Symbols \cup {NoSymbol}, message : Int]
        /\ polled'.message >= Failure
    BY <1>1, <1>3 DEF Failure
  <2>4. NothingPolled' = NothingPolled
    BY DEF NothingPolled
  <2> QED
    BY <1>1, <2>1, <2>2, <2>3, <2>4 DEF PollingInv, PollingTypes
<1>5. MarketLeads'
  BY <1>1, <1>2, Delivering DEF PollingInv, MarketLeads, NothingIsAhead, NotAfter
<1>6. PolledIsNewest'
  BY <1>1 DEF PolledIsNewest
<1> QED
  BY <1>1, <1>2, <1>4, <1>5, <1>6, Delivering DEF PollingInv

LEMMA CacheExpiresStep ==
  ASSUME PollingInv, NEW s \in Symbols, CacheExpires(s)
  PROVE  PollingInv' /\ UNCHANGED <<watched, pollingSeen>>
<1>1. /\ UNCHANGED <<bus, pollingMarket, round, polled, published, stream, watched, queue,
                     pollingSeen>>
      /\ cached' = [cached EXCEPT ![s] = 0]
  BY DEF CacheExpires, poller, browser, NoMessage
<1>2. /\ cached \in [Symbols -> Int] /\ pollingMarket \in [Symbols -> Nat]
      /\ \A t \in Symbols : cached[t] >= Failure
      /\ polled # NothingPolled => polled.symbol \in Symbols
      /\ polled.message \in Int /\ polled.message >= Failure
  BY DEF PollingInv, PollingTypes
<1>3. PollingTypes'
  BY <1>1, <1>2 DEF PollingInv, PollingTypes, Failure, NothingPolled
<1>4. \A t \in Symbols, v \in Nat : NothingIsAhead(t, v) => NothingIsAhead(t, v)'
  BY <1>1, <1>2 DEF NothingIsAhead, NotAfter
<1>5. MarketLeads'
  BY <1>1, <1>2, <1>4 DEF PollingInv, MarketLeads, NothingIsAhead, NotAfter
<1>6. PolledIsNewest'
  <2>1. polled.message # Failure => polled.message \in Nat
    BY <1>2, Failures
  <2> QED
    BY <1>1, <1>2, <2>1 DEF PollingInv, PolledIsNewest, NothingIsAhead, NotAfter, NothingPolled
<1>7. QueuesAreFed' /\ QueuesAreOrdered'
  BY <1>1 DEF PollingInv, QueuesAreFed, QueuesAreOrdered, NotBefore, InOrder
<1> QED
  BY <1>1, <1>3, <1>5, <1>6, <1>7 DEF PollingInv

\* A message is sent to one browser.
LEMMA OnlyOneIsSent ==
  ASSUME PollingInv, NEW b \in Browsers, NEW m, NEW next, SendMessage(b, m, next)
  PROVE  \A c \in Browsers \ {b} : pollingSeen'[c] = pollingSeen[c]
BY DEF PollingInv, PollingTypes, SendMessage, Unregister

LEMMA OpenStreamStep ==
  ASSUME PollingAssumption, PollingInv, NEW b \in Browsers, NEW s \in Symbols, OpenStream(b, s)
  PROVE  PollingInv' /\ (watched'[b] = watched[b] => pollingSeen'[b] >= pollingSeen[b])
<1>1. /\ UNCHANGED <<bus, pollingMarket, poller, cached, queue, pollingSeen>>
      /\ stream[b] = "off"
      /\ stream' = [stream EXCEPT ![b] = "registered"]
      /\ watched' = [watched EXCEPT ![b] = s]
  BY DEF OpenStream
<1>2. /\ stream \in [Browsers -> {"off", "registered", "subscribing", "listening"}]
      /\ watched \in [Browsers -> Symbols \cup {NoSymbol}] /\ pollingSeen \in [Browsers -> Nat]
      /\ queue[b] = <<>> /\ pollingSeen[b] = 0
  BY <1>1 DEF PollingInv, PollingTypes, QueuesAreFed, NoMessage
<1>3. PollingTypes'
  BY <1>1, <1>2 DEF PollingInv, PollingTypes, poller, NothingPolled
<1>4. /\ stream'[b] = "registered" /\ watched'[b] = s
      /\ queue'[b] = <<>> /\ pollingSeen'[b] = 0
      /\ \A c \in Browsers \ {b} :
           /\ stream'[c] = stream[c] /\ watched'[c] = watched[c]
           /\ queue'[c] = queue[c] /\ pollingSeen'[c] = pollingSeen[c]
  BY <1>1, <1>2
<1>5. \A v \in Nat : NotBefore(<<>>, v) /\ NotAfter(<<>>, v) /\ InOrder(<<>>)
  BY DEF NotBefore, NotAfter, InOrder
<1>6. NotBefore(queue'[b], pollingSeen'[b]) /\ InOrder(queue'[b])
  BY <1>4, <1>5
<1>7. \A v \in Nat : watched'[b] \in Symbols /\ NothingIsAhead(watched'[b], v) =>
        pollingSeen'[b] <= v /\ NotAfter(queue'[b], v)
  BY <1>4, <1>5
<1>8. PollingInv'
  BY <1>1, <1>3, <1>4, <1>6, <1>7, HandlerStep DEF NoMessage
<1> QED
  BY <1>2, <1>4, <1>8

LEMMA ListenStep ==
  ASSUME PollingInv, NEW b \in Browsers, Listen(b)
  PROVE  PollingInv' /\ UNCHANGED <<watched, pollingSeen>>
<1>1. /\ UNCHANGED <<bus, pollingMarket, poller, cached, watched, queue, pollingSeen>>
      /\ stream[b] = "subscribing" /\ stream' = [stream EXCEPT ![b] = "listening"]
  BY DEF Listen
<1>2. stream \in [Browsers -> {"off", "registered", "subscribing", "listening"}]
  BY DEF PollingInv, PollingTypes
<1>3. PollingTypes'
  BY <1>1, <1>2 DEF PollingInv, PollingTypes, poller, NothingPolled
<1>4. stream'[b] = "listening" /\ \A c \in Browsers \ {b} : stream'[c] = stream[c]
  BY <1>1, <1>2
<1>5. NotBefore(queue'[b], pollingSeen'[b]) /\ InOrder(queue'[b]) /\ watched'[b] \in Symbols
  BY <1>1 DEF PollingInv, QueuesAreOrdered, QueuesAreFed
<1>6. \A v \in Nat : watched'[b] \in Symbols /\ NothingIsAhead(watched'[b], v) =>
        pollingSeen'[b] <= v /\ NotAfter(queue'[b], v)
  BY <1>1 DEF NothingIsAhead
<1> QED
  BY <1>1, <1>3, <1>4, <1>5, <1>6, HandlerStep

LEMMA LeaveStep ==
  ASSUME PollingInv, NEW b \in Browsers, Leave(b)
  PROVE  PollingInv' /\ UNCHANGED <<watched, pollingSeen>>
<1>1. UNCHANGED <<bus, pollingMarket, round, polled, published, cached, stream, watched, queue,
                  pollingSeen>>
  BY DEF Leave, poller
<1>2. PollingTypes'
  BY <1>1 DEF PollingInv, PollingTypes, NothingPolled
<1>3. MarketLeads' /\ PolledIsNewest'
  BY <1>1 DEF PollingInv, MarketLeads, PolledIsNewest, NothingIsAhead, NotAfter, NothingPolled
<1>4. QueuesAreFed' /\ QueuesAreOrdered'
  BY <1>1 DEF PollingInv, QueuesAreFed, QueuesAreOrdered, NotBefore, InOrder
<1> QED
  BY <1>1, <1>2, <1>3, <1>4 DEF PollingInv

\* The cached message is the first that a browser is shown.
LEMMA GetCachedStep ==
  ASSUME PollingAssumption, PollingInv, NEW b \in Browsers, GetCached(b)
  PROVE  /\ PollingInv' /\ (watched'[b] = watched[b] => pollingSeen'[b] >= pollingSeen[b])
         /\ \A c \in Browsers \ {b} : pollingSeen'[c] = pollingSeen[c]
<1> DEFINE m == cached[watched[b]]
<1>1. /\ UNCHANGED <<bus, pollingMarket, poller, cached>> /\ stream[b] = "registered"
      /\ watched[b] \in Symbols /\ queue[b] = <<>> /\ pollingSeen[b] = 0
      /\ m \in Int /\ m >= Failure
      /\ pollingSeen \in [Browsers -> Nat] /\ queue \in [Browsers -> Seq(Int)]
      /\ stream \in [Browsers -> {"off", "registered", "subscribing", "listening"}]
  BY DEF GetCached, PollingInv, PollingTypes, QueuesAreFed, NoMessage
<1>2. /\ <<>> \in Seq(Int) /\ InOrder(<<>>)
      /\ \A v \in Int : NotBefore(<<>>, v) /\ NotAfter(<<>>, v)
  BY DEF NotBefore, NotAfter, InOrder
<1>3. CASE m = NoMessage
  <2>1. /\ UNCHANGED <<watched, queue, pollingSeen>>
        /\ stream' = [stream EXCEPT ![b] = "subscribing"]
    BY <1>3 DEF GetCached
  <2>2. PollingTypes'
    BY <1>1, <2>1 DEF PollingInv, PollingTypes, poller, NothingPolled
  <2>3. stream'[b] = "subscribing" /\ \A c \in Browsers \ {b} : stream'[c] = stream[c]
    BY <1>1, <2>1
  <2>4. NotBefore(queue'[b], pollingSeen'[b]) /\ InOrder(queue'[b])
    BY <1>1, <1>2, <2>1
  <2>5. \A v \in Nat : watched'[b] \in Symbols /\ NothingIsAhead(watched'[b], v) =>
          pollingSeen'[b] <= v /\ NotAfter(queue'[b], v)
    BY <2>1 DEF NothingIsAhead
  <2>6. PollingInv'
    BY <1>1, <2>1, <2>2, <2>3, <2>4, <2>5, HandlerStep
  <2> QED
    BY <1>1, <2>1, <2>6
<1>4. CASE m # NoMessage
  <2>1. /\ SendMessage(b, m, "subscribing")
        /\ b \in pollingGone \/ UNCHANGED queue
    BY <1>4 DEF GetCached
  <2>2. b \in pollingGone \/ queue' = [queue EXCEPT ![b] = <<>>]
    BY <1>1, <2>1
  <2>3. m # Failure => pollingSeen[b] <= m
    BY <1>1, Failures
  <2>4. \A v \in Nat : NothingIsAhead(watched[b], v) => m <= v /\ NotAfter(<<>>, v)
    BY <1>2 DEF NothingIsAhead
  <2>5. NotBefore(<<>>, pollingSeen[b]) /\ NotBefore(<<>>, m)
    BY <1>1, <1>2
  <2>6. PollingInv' /\ (watched'[b] = watched[b] => pollingSeen'[b] >= pollingSeen[b])
    <3> HIDE DEF m
    <3> QED
      BY <1>1, <1>2, <2>1, <2>2, <2>3, <2>4, <2>5, SendMessageStep
  <2> QED
    BY <1>1, <2>1, <2>6, OnlyOneIsSent
<1> QED
  BY <1>3, <1>4

\* The next message of a queue is shown.
LEMMA ForwardMessageStep ==
  ASSUME PollingAssumption, PollingInv, NEW b \in Browsers, ForwardMessage(b)
  PROVE  /\ PollingInv' /\ (watched'[b] = watched[b] => pollingSeen'[b] >= pollingSeen[b])
         /\ \A c \in Browsers \ {b} : pollingSeen'[c] = pollingSeen[c]
<1> DEFINE m == Head(queue[b])
           rest == Tail(queue[b])
<1>1. /\ UNCHANGED <<bus, pollingMarket, poller, cached>> /\ stream[b] = "listening"
      /\ queue[b] # <<>> /\ watched[b] \in Symbols
      /\ pollingSeen \in [Browsers -> Nat] /\ queue \in [Browsers -> Seq(Int)]
      /\ SendMessage(b, m, "listening")
      /\ b \in pollingGone \/ queue' = [queue EXCEPT ![b] = rest]
      /\ NotBefore(queue[b], pollingSeen[b]) /\ InOrder(queue[b])
  BY DEF ForwardMessage, PollingInv, PollingTypes, QueuesAreFed, QueuesAreOrdered
<1>2. /\ queue[b] \in Seq(Int) /\ pollingSeen[b] \in Int
  BY <1>1
<1>3. /\ m \in Int /\ rest \in Seq(Int)
      /\ NotBefore(rest, pollingSeen[b]) /\ (m # Failure => pollingSeen[b] <= m)
      /\ NotBefore(rest, m) /\ InOrder(rest)
  BY <1>1, <1>2, Unqueued
<1>4. \A v \in Nat : NothingIsAhead(watched[b], v) => m <= v /\ NotAfter(rest, v)
  <2>1. ASSUME NEW v \in Nat, NothingIsAhead(watched[b], v)
        PROVE  m <= v /\ NotAfter(rest, v)
    <3>1. NotAfter(queue[b], v)
      BY <2>1 DEF NothingIsAhead
    <3> QED
      BY <1>1, <1>2, <3>1, Unqueued
  <2> QED
    BY <2>1
<1>5. PollingInv' /\ (watched'[b] = watched[b] => pollingSeen'[b] >= pollingSeen[b])
  <2> HIDE DEF m, rest
  <2> QED
    BY <1>1, <1>3, <1>4, SendMessageStep
<1> QED
  BY <1>1, <1>5, OnlyOneIsSent

\* What a browser sees does not go back in a step.
NoBrowserGoesBack ==
  \A b \in Browsers : watched'[b] = watched[b] => pollingSeen'[b] >= pollingSeen[b]

LEMMA PollingInvStep ==
  ASSUME PollingAssumption, PollingInv, PollingNext, foreign = 0, foreign' = 0
  PROVE  PollingInv' /\ NoBrowserGoesBack
<1>1. \A b \in Browsers : pollingSeen[b] \in Int
  BY DEF PollingInv, PollingTypes
<1>2. CASE \E kind \in {"memory", "redis"} : StartHub(kind)
  BY <1>1, <1>2, StartHubStep DEF NoBrowserGoesBack
<1>3. CASE Polling
  <2>1. CASE StartRound
    BY <1>1, <2>1, StartRoundStep DEF NoBrowserGoesBack
  <2>2. CASE round # <<>> /\ \E message \in {pollingMarket[Head(round)], Failure} :
                               FetchQuote(message)
    BY <1>1, <2>2, FetchQuoteStep DEF NoBrowserGoesBack
  <2>3. CASE FetchBreaks
    BY <1>1, <2>3, FetchBreaksStep DEF NoBrowserGoesBack
  <2>4. CASE PublishInMemory
    BY <1>1, <2>4, PublishInMemoryStep DEF NoBrowserGoesBack
  <2>5. CASE SetCache
    BY <1>1, <2>5, SetCacheStep DEF NoBrowserGoesBack
  <2>6. CASE TellChannel
    BY <1>1, <2>6, TellChannelStep DEF NoBrowserGoesBack
  <2>7. CASE PublishFails
    BY <1>1, <2>7, PublishFailsStep DEF NoBrowserGoesBack
  <2> QED
    BY <1>3, <2>1, <2>2, <2>3, <2>4, <2>5, <2>6, <2>7 DEF Polling
<1>4. ASSUME NEW b \in Browsers, Handling(b)
      PROVE  PollingInv' /\ NoBrowserGoesBack
  <2>1. CASE GetCached(b)
    BY <1>1, <2>1, GetCachedStep DEF NoBrowserGoesBack
  <2>2. CASE Listen(b)
    BY <1>1, <2>2, ListenStep DEF NoBrowserGoesBack
  <2>3. CASE ForwardMessage(b)
    BY <1>1, <2>3, ForwardMessageStep DEF NoBrowserGoesBack
  <2> QED
    BY <1>4, <2>1, <2>2, <2>3 DEF Handling
<1>5. ASSUME NEW b \in Browsers, Leave(b)
      PROVE  PollingInv' /\ NoBrowserGoesBack
  BY <1>1, <1>5, LeaveStep DEF NoBrowserGoesBack
<1>6. ASSUME NEW b \in Browsers, NEW s \in Symbols, OpenStream(b, s)
      PROVE  PollingInv' /\ NoBrowserGoesBack
  <2>1. UNCHANGED pollingSeen
    BY <1>6 DEF OpenStream
  <2> QED
    BY <1>1, <1>6, <2>1, OpenStreamStep DEF NoBrowserGoesBack
<1>7. ASSUME NEW s \in Symbols, MarketMoves(s) \/ CacheExpires(s)
      PROVE  PollingInv' /\ NoBrowserGoesBack
  BY <1>1, <1>7, MarketMovesStep, CacheExpiresStep DEF NoBrowserGoesBack
<1>8. ASSUME NEW s \in Symbols, OtherWorkerPublishes(s)
      PROVE  FALSE
  BY <1>8 DEF OtherWorkerPublishes
<1> QED
  BY <1>2, <1>3, <1>4, <1>5, <1>6, <1>7, <1>8 DEF PollingNext

LEMMA PollingInvStutter ==
  ASSUME PollingInv, UNCHANGED pollingVars
  PROVE  PollingInv'
<1>1. UNCHANGED <<bus, pollingMarket, round, polled, published, cached, stream, watched, queue,
                  pollingSeen>>
  BY DEF pollingVars, poller, browser
<1> QED
  BY <1>1 DEF PollingInv, PollingTypes, QueuesAreFed, MarketLeads, PolledIsNewest,
    QueuesAreOrdered, NothingIsAhead, NotBefore, NotAfter, InOrder, NothingPolled

\* The publications of other workers are only counted up.
LEMMA ForeignGrows ==
  ASSUME foreign \in Nat, [PollingNext]_pollingVars
  PROVE  foreign' = foreign \/ foreign' = foreign + 1
<1>1. CASE UNCHANGED pollingVars
  BY <1>1 DEF pollingVars, poller
<1>2. ASSUME NEW s \in Symbols, OtherWorkerPublishes(s)
      PROVE  foreign' = foreign + 1
  BY <1>2 DEF OtherWorkerPublishes
<1>3. CASE Polling
  BY <1>3 DEF Polling, StartRound, FetchQuote, FetchBreaks, PublishInMemory, SetCache,
    TellChannel, PublishFails
<1>4. ASSUME NEW b \in Browsers, Handling(b) \/ Leave(b) \/ \E s \in Symbols : OpenStream(b, s)
      PROVE  foreign' = foreign
  BY <1>4 DEF Handling, GetCached, Listen, ForwardMessage, Leave, OpenStream, poller
<1>5. ASSUME NEW s \in Symbols, MarketMoves(s) \/ CacheExpires(s)
      PROVE  foreign' = foreign
  BY <1>5 DEF MarketMoves, CacheExpires, poller
<1>6. ASSUME NEW kind \in {"memory", "redis"}, StartHub(kind)
      PROVE  foreign' = foreign
  BY <1>6 DEF StartHub, poller
<1> QED
  BY <1>1, <1>2, <1>3, <1>4, <1>5, <1>6 DEF PollingNext

\* The invariant, as long as this process alone publishes.
PollingAloneInv == foreign \in Nat /\ (foreign = 0 => PollingInv)

LEMMA PollingAloneStep ==
  ASSUME PollingAssumption, PollingAloneInv, [PollingNext]_pollingVars
  PROVE  PollingAloneInv' /\ (foreign' = 0 => [NoBrowserGoesBack]_<<pollingSeen, watched>>)
<1>1. foreign' \in Nat /\ (foreign' = 0 => foreign = 0)
  BY ForeignGrows DEF PollingAloneInv
<1>2. ASSUME foreign' = 0
      PROVE  PollingInv' /\ [NoBrowserGoesBack]_<<pollingSeen, watched>>
  <2>1. foreign = 0 /\ PollingInv
    BY <1>1, <1>2 DEF PollingAloneInv
  <2>2. CASE PollingNext
    BY <1>2, <2>1, <2>2, PollingInvStep
  <2>3. CASE UNCHANGED pollingVars
    BY <2>1, <2>3, PollingInvStutter DEF pollingVars, browser
  <2> QED
    BY <2>2, <2>3
<1> QED
  BY <1>1, <1>2 DEF PollingAloneInv

\* In every behaviour of the hub, on either bus, what is cached and queued is behind the
\* market and in order, until another worker publishes on the same Redis (hub.py:126-163,
\* bus.py:21-29, 72-75).
THEOREM PollingInvariant ==
  ASSUME PollingAssumption
  PROVE  PollingSpec => []PollingAloneInv
<1>1. PollingInit => PollingAloneInv
  <2>1. PollingInit => foreign = 0
    BY DEF PollingInit
  <2> QED
    BY <2>1, PollingInvInit DEF PollingAloneInv
<1>2. PollingAloneInv /\ [PollingNext]_pollingVars => PollingAloneInv'
  BY PollingAloneStep
<1> QED
  BY <1>1, <1>2, PTL DEF PollingSpec

\* As long as this process alone publishes, a browser is never shown a quote older than the
\* one it shows, for any number of browsers and symbols, however long the queues and
\* whatever fails (hub.py:88-92, bus.py:21-29, 72-75).
THEOREM NeverGoesBackCorrect ==
  ASSUME PollingAssumption
  PROVE  PollingSpec => NeverGoesBack
<1> DEFINE Forward == foreign' = 0 =>
             \A b \in Browsers : watched'[b] = watched[b] => pollingSeen'[b] >= pollingSeen[b]
<1>1. PollingAloneInv /\ [PollingNext]_pollingVars => [Forward]_<<pollingSeen, watched, foreign>>
  <2> SUFFICES ASSUME PollingAloneInv, [PollingNext]_pollingVars, foreign' = 0
               PROVE  NoBrowserGoesBack \/ UNCHANGED <<pollingSeen, watched, foreign>>
    BY DEF NoBrowserGoesBack
  <2>1. foreign = 0
    BY ForeignGrows DEF PollingAloneInv
  <2> QED
    BY <2>1, PollingAloneStep
<1>2. NeverGoesBack <=> [][Forward]_<<pollingSeen, watched, foreign>>
  BY DEF NeverGoesBack
<1> QED
  BY <1>1, <1>2, PollingInvariant, PTL DEF PollingSpec

-----------------------------------------------------------------------------
(* Dashboard *)

Ended == {"dropped", "closing", "closed"}
Socket == [state : {"connecting", "open"} \cup Ended, symbol : ShownSymbols]
Address == ShownSymbols \cup {NoStock, Invalid}

DashboardTypes ==
  /\ DashboardTypeOK
  /\ sockets \in Seq(Socket)
  /\ entries \in Seq(Address)

\* An effect without a stock has nothing to wait for, and the socket that an effect holds
\* was not closed by the page.
FeedRests ==
  /\ installed = NoStock => pageStatus = "unavailable" /\ ~timer /\ socket = 0
  /\ socket # 0 => sockets[socket].state \notin {"dropped", "closing"}

DashboardInv == DashboardTypes /\ FeedRests /\ FeedIsCurrent

-----------------------------------------------------------------------------
(* Lookups change what is shown, and not the feed.                           *)

LEMMA DashboardBounds ==
  ASSUME DashboardAssumption
  PROVE  MaxRetries \in Nat /\ MaxLookups \in Nat
BY DEF DashboardAssumption

LEMMA DashboardInvInit == ASSUME DashboardAssumption, DashboardInit PROVE DashboardInv
<1>1. DashboardTypes
  <2>1. entries \in Seq(Address) /\ sockets \in Seq(Socket) /\ position \in DOMAIN entries
    BY DEF DashboardInit, Address
  <2>2. /\ pageSymbol = NoStock /\ requestId \in 0 .. MaxLookups /\ inflight = {}
        /\ installed = NoStock /\ quote = NoStock /\ pageStatus = "unavailable"
        /\ socket \in 0 .. Len(sockets) /\ retryCount \in 0 .. MaxRetries
    BY DashboardBounds DEF DashboardInit
  <2>3. /\ searching \in BOOLEAN /\ reconnect \in BOOLEAN /\ timer \in BOOLEAN
        /\ online \in BOOLEAN /\ told \in BOOLEAN
    BY DEF DashboardInit
  <2>4. DashboardTypeOK
    BY <2>1, <2>2, <2>3 DEF DashboardTypeOK
  <2> QED
    BY <2>1, <2>4 DEF DashboardTypes
<1>2. FeedRests
  BY DEF DashboardInit, FeedRests
<1>3. FeedIsCurrent
  BY DEF DashboardInit, FeedIsCurrent, Live
<1> QED
  BY <1>1, <1>2, <1>3 DEF DashboardInv

\* The feed's part of the invariant depends on the feed and the network only.
LEMMA FeedUntouched ==
  ASSUME DashboardInv, DashboardTypes', UNCHANGED <<feed, online, told>>
  PROVE  DashboardInv'
<1>1. UNCHANGED <<installed, pageStatus, quote, socket, sockets, timer>>
  BY DEF feed
<1> QED
  BY <1>1 DEF DashboardInv, FeedRests, FeedIsCurrent, Live

LEMMA LookupTypes ==
  ASSUME DashboardAssumption, DashboardInv, NEW input \in ShownSymbols \cup {Invalid},
         NEW push \in BOOLEAN, Lookup(input, push)
  PROVE  /\ requestId' \in 0 .. MaxLookups /\ searching' \in BOOLEAN
         /\ pageSymbol' \in ShownSymbols \cup {NoStock}
         /\ inflight' \subseteq [id : 1 .. MaxLookups, symbol : ShownSymbols, push : BOOLEAN]
<1>1. /\ requestId' = requestId + 1 /\ requestId < MaxLookups /\ UNCHANGED pageSymbol
      /\ IF input = Invalid THEN UNCHANGED <<searching, inflight>>
         ELSE /\ searching' = TRUE
              /\ inflight' =
                   inflight \cup {[id |-> requestId + 1, symbol |-> input, push |-> push]}
  BY DEF Lookup
<1>2. /\ requestId \in 0 .. MaxLookups /\ searching \in BOOLEAN /\ MaxLookups \in Nat
      /\ pageSymbol \in ShownSymbols \cup {NoStock}
      /\ inflight \subseteq [id : 1 .. MaxLookups, symbol : ShownSymbols, push : BOOLEAN]
  BY DEF DashboardAssumption, DashboardInv, DashboardTypes, DashboardTypeOK
<1>3. requestId + 1 \in 1 .. MaxLookups /\ requestId + 1 \in 0 .. MaxLookups
  BY <1>1, <1>2
<1>4. CASE input = Invalid
  BY <1>1, <1>2, <1>3, <1>4
<1>5. CASE input # Invalid
  <2>1. [id |-> requestId + 1, symbol |-> input, push |-> push]
          \in [id : 1 .. MaxLookups, symbol : ShownSymbols, push : BOOLEAN]
    BY <1>3, <1>5
  <2> QED
    BY <1>1, <1>2, <1>3, <1>5, <2>1
<1> QED
  BY <1>4, <1>5

LEMMA PushUrlTypes ==
  ASSUME DashboardInv, NEW target \in ShownSymbols \cup {NoStock}, PushUrl(target)
  PROVE  entries' \in Seq(Address) /\ position' \in DOMAIN entries'
<1>1. entries \in Seq(Address) /\ position \in 1 .. Len(entries) /\ target \in Address
  BY DEF DashboardInv, DashboardTypes, DashboardTypeOK, Address
<1>2. CASE entries[position] = target
  BY <1>1, <1>2 DEF PushUrl
<1>3. CASE entries[position] # target
  <2>1. /\ entries' = Append(SubSeq(entries, 1, position), target)
        /\ position' = position + 1
    BY <1>3 DEF PushUrl
  <2>2. /\ SubSeq(entries, 1, position) \in Seq(Address)
        /\ Len(SubSeq(entries, 1, position)) = position
    BY <1>1
  <2> QED
    BY <1>1, <2>1, <2>2
<1> QED
  BY <1>2, <1>3

LEMMA ResetTypes ==
  ASSUME DashboardAssumption, DashboardInv, NEW push \in BOOLEAN, Reset(push),
         ~push => position' \in DOMAIN entries
  PROVE  DashboardInv'
<1>1. /\ requestId < MaxLookups /\ requestId' = requestId + 1 /\ pageSymbol' = NoStock
      /\ searching' = FALSE /\ UNCHANGED <<inflight, feed, network>>
  BY DEF Reset
<1>2. entries' \in Seq(Address) /\ position' \in DOMAIN entries'
  <2>1. CASE push
    BY <2>1, PushUrlTypes DEF Reset
  <2>2. CASE ~push
    BY <2>2 DEF Reset, DashboardInv, DashboardTypes
  <2> QED
    BY <2>1, <2>2
<1>3. requestId' \in 0 .. MaxLookups
  BY <1>1, DashboardBounds DEF DashboardInv, DashboardTypes, DashboardTypeOK
<1>4. DashboardTypes'
  BY <1>1, <1>2, <1>3 DEF DashboardInv, DashboardTypes, DashboardTypeOK, feed, network
<1> QED
  BY <1>1, <1>4, FeedUntouched DEF network

LEMMA SearchStep ==
  ASSUME DashboardAssumption, DashboardInv, NEW input \in ShownSymbols \cup {Invalid},
         Search(input) \/ OpenLink(input)
  PROVE  DashboardInv'
<1>1. UNCHANGED <<position, feed, network>> /\ (entries' = <<input>> \/ UNCHANGED entries)
  BY DEF Search, OpenLink
<1>2. \E push \in BOOLEAN : Lookup(input, push)
  BY DEF Search, OpenLink
<1>3. /\ requestId' \in 0 .. MaxLookups /\ searching' \in BOOLEAN
      /\ pageSymbol' \in ShownSymbols \cup {NoStock}
      /\ inflight' \subseteq [id : 1 .. MaxLookups, symbol : ShownSymbols, push : BOOLEAN]
  BY <1>2, LookupTypes
<1>4. entries' \in Seq(Address) /\ position' \in DOMAIN entries'
  <2>1. CASE UNCHANGED entries
    BY <1>1, <2>1 DEF DashboardInv, DashboardTypes, DashboardTypeOK
  <2>2. CASE OpenLink(input)
    BY <1>1, <2>2 DEF OpenLink, DashboardInv, DashboardTypes, DashboardTypeOK, Address
  <2> QED
    BY <2>1, <2>2 DEF Search
<1>5. DashboardTypes'
  BY <1>1, <1>3, <1>4 DEF DashboardInv, DashboardTypes, DashboardTypeOK, feed, network
<1> QED
  BY <1>1, <1>5, FeedUntouched DEF network

LEMMA FoundStep ==
  ASSUME DashboardInv, NEW l \in inflight, Found(l) \/ NotFound(l)
  PROVE  DashboardInv'
<1>1. UNCHANGED <<requestId, feed, network>> /\ inflight' = inflight \ {l}
  BY DEF Found, NotFound
<1>2. /\ l.symbol \in ShownSymbols /\ searching \in BOOLEAN
      /\ pageSymbol \in ShownSymbols \cup {NoStock}
  BY DEF DashboardInv, DashboardTypes, DashboardTypeOK
<1>3. searching' \in BOOLEAN /\ pageSymbol' \in ShownSymbols \cup {NoStock}
  BY <1>2 DEF Found, NotFound
<1>4. entries' \in Seq(Address) /\ position' \in DOMAIN entries'
  <2>1. CASE UNCHANGED <<entries, position>>
    BY <2>1 DEF DashboardInv, DashboardTypes, DashboardTypeOK
  <2>2. CASE PushUrl(l.symbol)
    BY <1>2, <2>2, PushUrlTypes
  <2> QED
    BY <2>1, <2>2 DEF Found, NotFound
<1>5. DashboardTypes'
  BY <1>1, <1>3, <1>4 DEF DashboardInv, DashboardTypes, DashboardTypeOK, feed, network
<1> QED
  BY <1>1, <1>5, FeedUntouched DEF network

LEMMA PopStateStep ==
  ASSUME DashboardAssumption, DashboardInv, NEW to \in 1 .. MaxHistory, PopState(to)
  PROVE  DashboardInv'
<1>1. position' = to /\ to \in DOMAIN entries /\ entries[to] \in Address
  BY DEF PopState, DashboardInv, DashboardTypes
<1>2. CASE entries[to] = NoStock
  BY <1>1, <1>2, ResetTypes DEF PopState
<1>3. CASE entries[to] # NoStock
  <2>1. UNCHANGED <<entries, feed, network>>
    BY <1>3 DEF PopState
  <2>2. /\ requestId' \in 0 .. MaxLookups /\ searching' \in BOOLEAN
        /\ pageSymbol' \in ShownSymbols \cup {NoStock}
        /\ inflight' \subseteq [id : 1 .. MaxLookups, symbol : ShownSymbols, push : BOOLEAN]
    <3>1. CASE UNCHANGED <<pageSymbol, searching, requestId, inflight>>
      BY <3>1 DEF DashboardInv, DashboardTypes, DashboardTypeOK
    <3>2. CASE Lookup(entries[to], FALSE)
      BY <1>1, <1>3, <3>2, LookupTypes DEF Address
    <3> QED
      BY <1>3, <3>1, <3>2 DEF PopState
  <2>3. DashboardTypes'
    BY <1>1, <2>1, <2>2 DEF DashboardInv, DashboardTypes, DashboardTypeOK, feed, network
  <2> QED
    BY <2>1, <2>3, FeedUntouched DEF network
<1> QED
  BY <1>2, <1>3

-----------------------------------------------------------------------------
(* The effect, its socket and its timer.                                     *)

\* What the effect holds is the only socket that is alive.
LEMMA AllEnded ==
  ASSUME DashboardInv
  PROVE  /\ Disconnected \in Seq(Socket) /\ Len(Disconnected) = Len(sockets)
         /\ \A id \in DOMAIN Disconnected : Disconnected[id].state \in Ended
         /\ timer => \A id \in DOMAIN sockets : sockets[id].state \in Ended
<1>1. sockets \in Seq(Socket) /\ socket \in 0 .. Len(sockets)
  BY DEF DashboardInv, DashboardTypes, DashboardTypeOK
<1>2. /\ DOMAIN sockets = 1 .. Len(sockets)
      /\ \A id \in 1 .. Len(sockets) : sockets[id] \in Socket
  BY <1>1
<1>3. \A id \in DOMAIN sockets : Live(id) => id = socket
  BY DEF DashboardInv, FeedIsCurrent
<1>4. \A id \in DOMAIN sockets : id # socket => sockets[id].state \in Ended
  BY <1>2, <1>3 DEF Live, Socket, Ended
<1>5. \A id \in 1 .. Len(sockets) :
        /\ Disconnected[id] \in Socket
        /\ Disconnected[id].state \in Ended
  BY <1>4, <1>2 DEF Disconnected, Socket, Live, Ended
<1>6. /\ Disconnected \in Seq(Socket) /\ Len(Disconnected) = Len(sockets)
      /\ DOMAIN Disconnected = 1 .. Len(sockets)
  <2>1. DOMAIN sockets = 1 .. Len(sockets) /\ Len(sockets) \in Nat
    BY <1>1
  <2>2. Disconnected \in [1 .. Len(sockets) -> Socket]
    BY <1>5, <2>1 DEF Disconnected
  <2> QED
    BY <2>1, <2>2
<1>7. timer => \A id \in DOMAIN sockets : sockets[id].state \in Ended
  <2>1. timer => socket = 0 \/ ~Live(socket)
    BY DEF DashboardInv, FeedIsCurrent
  <2> QED
    BY <1>1, <1>4, <1>2, <2>1 DEF Live, Socket, Ended
<1> QED
  BY <1>5, <1>6, <1>7

\* A connection is made when no socket is alive, and its socket is then the only one.
LEMMA Connecting ==
  ASSUME NEW target \in ShownSymbols, NEW there \in Seq(Socket),
         NEW held \in 0 .. Len(there), NEW waiting,
         \A id \in DOMAIN there : there[id].state \in Ended,
         Connect(target, there, held, waiting)
  PROVE  /\ sockets' \in Seq(Socket) /\ socket' \in 0 .. Len(sockets')
         /\ \A id \in DOMAIN sockets' :
              Live(id)' => id = socket' /\ sockets'[id].symbol = target
         /\ ~online => pageStatus' = "offline" /\ socket' = held /\ sockets' = there
         /\ online => /\ pageStatus' = waiting /\ socket' # 0
                      /\ sockets'[socket'].state = "connecting"
<1>1. CASE ~online
  BY <1>1 DEF Connect, Live, Ended
<1>2. CASE online
  <2> DEFINE new == [state |-> "connecting", symbol |-> target]
  <2>1. /\ pageStatus' = waiting /\ sockets' = Append(there, new)
        /\ socket' = Len(there) + 1
    BY <1>2 DEF Connect
  <2>2. /\ Len(there) \in Nat /\ new \in Socket
        /\ Len(Append(there, new)) = Len(there) + 1
        /\ Append(there, new) \in Seq(Socket)
        /\ Append(there, new)[Len(there) + 1] = new
        /\ \A id \in 1 .. Len(there) : Append(there, new)[id] = there[id]
    BY DEF Socket
  <2>3. \A id \in DOMAIN sockets' : id = socket' \/ sockets'[id].state \in Ended
    BY <2>1, <2>2
  <2> QED
    BY <1>2, <2>1, <2>2, <2>3 DEF Live, Ended
<1> QED
  BY <1>1, <1>2

LEMMA RunEffectStep ==
  ASSUME DashboardAssumption, DashboardInv, RunEffect
  PROVE  DashboardInv'
<1>1. /\ installed' = pageSymbol /\ reconnect' = FALSE /\ quote' = NoStock /\ timer' = FALSE
      /\ retryCount' = 0 /\ UNCHANGED <<lookup, network>>
  BY DEF RunEffect
<1>2. pageSymbol \in ShownSymbols \cup {NoStock} /\ online \in BOOLEAN
  BY DEF DashboardInv, DashboardTypes, DashboardTypeOK
<1>3. /\ sockets' \in Seq(Socket) /\ socket' \in 0 .. Len(sockets')
      /\ pageStatus' \in {"connecting", "live", "reconnecting", "offline", "unavailable"}
      /\ FeedRests' /\ FeedIsCurrent'
  <2>1. CASE pageSymbol = NoStock
    <3>1. pageStatus' = "unavailable" /\ socket' = 0 /\ sockets' = Disconnected
      BY <2>1 DEF RunEffect
    <3> QED
      BY <1>1, <2>1, <3>1, AllEnded DEF FeedRests, FeedIsCurrent, Live, Ended
  <2>2. CASE pageSymbol # NoStock
    <3>1. Connect(pageSymbol, Disconnected, 0, "connecting")
      BY <2>2 DEF RunEffect
    <3>2. /\ pageSymbol \in ShownSymbols /\ 0 \in 0 .. Len(Disconnected)
      BY <1>2, <2>2, AllEnded
    <3>3. /\ sockets' \in Seq(Socket) /\ socket' \in 0 .. Len(sockets')
          /\ \A id \in DOMAIN sockets' :
               Live(id)' => id = socket' /\ sockets'[id].symbol = pageSymbol
          /\ ~online => pageStatus' = "offline" /\ socket' = 0
          /\ online => /\ pageStatus' = "connecting" /\ socket' # 0
                       /\ sockets'[socket'].state = "connecting"
      BY <3>1, <3>2, AllEnded, Connecting
    <3> QED
      BY <1>1, <1>2, <2>2, <3>3 DEF FeedRests, FeedIsCurrent, Live, network
  <2> QED
    BY <2>1, <2>2
<1>4. /\ retryCount' \in 0 .. MaxRetries
      /\ reconnect' \in BOOLEAN /\ timer' \in BOOLEAN
  <2>1. 0 \in 0 .. MaxRetries
    BY DashboardBounds
  <2> QED
    BY <1>1, <2>1
<1>5. DashboardTypes'
  BY <1>1, <1>2, <1>3, <1>4 DEF DashboardInv, DashboardTypes, DashboardTypeOK, lookup, network
<1> QED
  BY <1>3, <1>5 DEF DashboardInv

\* An event changes the state of one socket, and only the effect's own can be alive after.
LEMMA OneSocket ==
  ASSUME DashboardInv, NEW id \in DOMAIN sockets, NEW state,
         sockets' = [sockets EXCEPT ![id].state = state],
         state \in {"connecting", "open"} \cup Ended,
         UNCHANGED <<installed, socket>>, state \in {"connecting", "open"} => Live(id)
  PROVE  /\ sockets' \in Seq(Socket) /\ DOMAIN sockets' = DOMAIN sockets
         /\ Len(sockets') = Len(sockets) /\ sockets'[id].state = state
         /\ \A other \in DOMAIN sockets :
              Live(other)' => other = socket /\ sockets'[other].symbol = installed
         /\ socket # id => \A other \in {socket} : sockets'[other] = sockets[other]
<1> DEFINE new == [sockets[id] EXCEPT !.state = state]
<1>1. sockets \in Seq(Socket) /\ sockets[id] \in Socket
  BY DEF DashboardInv, DashboardTypes
<1>2. new \in Socket /\ new.state = state /\ new.symbol = sockets[id].symbol
  BY <1>1 DEF Socket
<1>3. sockets' = [sockets EXCEPT ![id] = new]
  OBVIOUS
<1> HIDE DEF new
<1>4. /\ sockets' \in Seq(Socket) /\ DOMAIN sockets' = DOMAIN sockets
      /\ Len(sockets') = Len(sockets) /\ sockets'[id] = new
      /\ \A other : other # id => sockets'[other] = sockets[other]
  BY <1>1, <1>2, <1>3
<1>5. ASSUME NEW other \in DOMAIN sockets, Live(other)'
      PROVE  other = socket /\ sockets'[other].symbol = installed
  <2>1. CASE other = id
    BY <1>2, <1>4, <1>5, <2>1 DEF DashboardInv, FeedIsCurrent, Live, Ended
  <2>2. CASE other # id
    BY <1>4, <1>5, <2>2 DEF DashboardInv, FeedIsCurrent, Live
  <2> QED
    BY <2>1, <2>2
<1> QED
  BY <1>2, <1>4, <1>5

\* A late event of a socket that was replaced is not heard, and changes nothing else.
LEMMA UnheardStep ==
  ASSUME DashboardInv, NEW id \in DOMAIN sockets, NEW state,
         sockets' = [sockets EXCEPT ![id].state = state],
         state \in {"connecting", "open"} \cup Ended, socket # id,
         state \in {"connecting", "open"} => Live(id),
         UNCHANGED <<lookup, installed, reconnect, pageStatus, quote, socket, timer, retryCount,
                     network>>
  PROVE  DashboardInv'
<1>1. /\ sockets' \in Seq(Socket) /\ DOMAIN sockets' = DOMAIN sockets
      /\ Len(sockets') = Len(sockets)
      /\ \A other \in DOMAIN sockets :
           Live(other)' => other = socket /\ sockets'[other].symbol = installed
      /\ sockets'[socket] = sockets[socket]
  BY OneSocket
<1>2. DashboardTypes'
  BY <1>1 DEF DashboardInv, DashboardTypes, DashboardTypeOK, lookup, network
<1>3. FeedRests'
  BY <1>1 DEF DashboardInv, FeedRests
<1>4. FeedIsCurrent'
  <2>1. socket # 0 => socket \in DOMAIN sockets
    BY DEF DashboardInv, DashboardTypes, DashboardTypeOK
  <2> QED
    BY <1>1, <2>1 DEF DashboardInv, FeedIsCurrent, Live, network
<1> QED
  BY <1>2, <1>3, <1>4 DEF DashboardInv

LEMMA OpenedStep ==
  ASSUME DashboardAssumption, DashboardInv, NEW id \in 1 .. MaxSockets, Opened(id)
  PROVE  DashboardInv'
<1> DEFINE state == IF sockets[id].state = "connecting" THEN "open" ELSE "closing"
<1>1. /\ id \in DOMAIN sockets /\ sockets[id].state \in {"connecting", "dropped"}
      /\ sockets' = [sockets EXCEPT ![id].state = state]
      /\ UNCHANGED <<lookup, installed, reconnect, quote, socket, timer, network>>
      /\ sockets \in Seq(Socket) /\ id # 0
  BY DEF Opened, DashboardInv, DashboardTypes
<1>2. /\ state \in {"connecting", "open"} \cup Ended
      /\ state \in {"connecting", "open"} => Live(id)
  BY <1>1 DEF Ended, Live
<1>3. CASE socket # id
  <2>1. UNCHANGED <<pageStatus, retryCount>>
    BY <1>3 DEF Opened, Heard
  <2> HIDE DEF state
  <2> QED
    BY <1>1, <1>2, <1>3, <2>1, UnheardStep
<1>4. CASE socket = id
  <2>1. pageStatus' = "live" /\ retryCount' = 0
    BY <1>4 DEF Opened, Heard
  <2>2. sockets[id].state = "connecting"
    BY <1>1, <1>4 DEF DashboardInv, FeedRests
  <2>3. state = "open"
    BY <2>2
  <2> HIDE DEF state
  <2>4. /\ sockets' \in Seq(Socket) /\ DOMAIN sockets' = DOMAIN sockets
        /\ Len(sockets') = Len(sockets) /\ sockets'[id].state = "open"
        /\ \A other \in DOMAIN sockets :
             Live(other)' => other = socket /\ sockets'[other].symbol = installed
    BY <1>1, <1>2, <2>3, OneSocket
  <2>5. DashboardTypes'
    BY <1>1, <2>1, <2>4, DashboardBounds DEF DashboardInv, DashboardTypes, DashboardTypeOK, lookup,
      network
  <2>6. FeedRests'
    BY <1>1, <1>4, <2>4 DEF DashboardInv, FeedRests
  <2>7. quote \in {NoStock, installed} /\ ~timer
    BY <1>1, <1>4, <2>2 DEF DashboardInv, FeedIsCurrent, Live
  <2>8. FeedIsCurrent'
    BY <1>1, <1>4, <2>1, <2>4, <2>7 DEF FeedIsCurrent, Live
  <2> QED
    BY <2>5, <2>6, <2>8 DEF DashboardInv
<1> QED
  BY <1>3, <1>4

LEMMA MessageStep ==
  ASSUME DashboardInv, NEW id \in 1 .. MaxSockets, NEW kind \in {"quote", "error"},
         Message(id, kind)
  PROVE  DashboardInv'
<1>1. /\ id \in DOMAIN sockets /\ sockets[id].state \in {"open", "closing"} /\ id # 0
      /\ UNCHANGED <<lookup, installed, reconnect, socket, sockets, timer, retryCount, network>>
  BY DEF Message
<1>2. CASE socket # id
  <2>1. UNCHANGED <<feed, online, told>>
    BY <1>1, <1>2 DEF Message, Heard, feed, network
  <2>2. DashboardTypes'
    BY <1>1, <2>1 DEF DashboardInv, DashboardTypes, DashboardTypeOK, lookup, feed
  <2> QED
    BY <2>1, <2>2, FeedUntouched
<1>3. CASE socket = id
  <2>1. sockets[id].state = "open"
    BY <1>1, <1>3 DEF DashboardInv, FeedRests
  <2>2. /\ sockets[id].symbol = installed /\ socket # 0 /\ ~timer
        /\ quote \in {NoStock, installed}
    BY <1>1, <1>3, <2>1 DEF DashboardInv, FeedIsCurrent, Live
  <2>3. pageStatus' \in {"live", "unavailable"} /\ quote' \in {NoStock, installed}
    BY <1>3, <2>2 DEF Message, Heard
  <2>4. DashboardTypes'
    BY <1>1, <2>3 DEF DashboardInv, DashboardTypes, DashboardTypeOK, lookup, network
  <2>5. FeedRests'
    BY <1>1, <2>2 DEF DashboardInv, FeedRests
  <2>6. FeedIsCurrent'
    BY <1>1, <1>3, <2>1, <2>2, <2>3 DEF DashboardInv, FeedIsCurrent, Live
  <2> QED
    BY <2>4, <2>5, <2>6 DEF DashboardInv
<1> QED
  BY <1>2, <1>3

LEMMA ClosedStep ==
  ASSUME DashboardAssumption, DashboardInv,
         NEW id \in 1 .. MaxSockets, NEW terminal \in BOOLEAN,
         Closed(id, terminal)
  PROVE  DashboardInv'
<1>1. /\ id \in DOMAIN sockets /\ sockets[id].state # "closed" /\ id # 0
      /\ sockets' = [sockets EXCEPT ![id].state = "closed"]
      /\ UNCHANGED <<lookup, installed, reconnect, quote, socket, network>>
      /\ sockets \in Seq(Socket) /\ retryCount \in 0 .. MaxRetries /\ timer \in BOOLEAN
  BY DEF Closed, DashboardInv, DashboardTypes, DashboardTypeOK
<1>2. "closed" \in Ended /\ "closed" \notin {"connecting", "open"}
  BY DEF Ended
<1>3. CASE socket # id
  <2>1. UNCHANGED <<pageStatus, timer, retryCount>>
    BY <1>3 DEF Closed, Heard
  <2> QED
    BY <1>1, <1>2, <1>3, <2>1, UnheardStep
<1>4. CASE socket = id
  <2>1. Live(id)
    <3>1. sockets[id] \in Socket
      BY <1>1
    <3>2. sockets[id].state \notin {"dropped", "closing"}
      BY <1>1, <1>4 DEF DashboardInv, FeedRests
    <3> QED
      BY <1>1, <3>1, <3>2 DEF Live, Socket, Ended
  <2>2. socket # 0 /\ ~timer /\ quote \in {NoStock, installed}
    BY <1>1, <1>4, <2>1 DEF DashboardInv, FeedIsCurrent
  <2>3. /\ sockets' \in Seq(Socket) /\ DOMAIN sockets' = DOMAIN sockets
        /\ Len(sockets') = Len(sockets) /\ sockets'[id].state = "closed"
        /\ \A other \in DOMAIN sockets :
             Live(other)' => other = socket /\ sockets'[other].symbol = installed
    BY <1>1, <1>2, OneSocket
  <2>4. /\ timer' \in BOOLEAN /\ retryCount' \in 0 .. MaxRetries
        /\ \/ pageStatus' = "offline" /\ ~online
           \/ pageStatus' = "unavailable"
           \/ pageStatus' = "reconnecting" /\ timer'
    <3>1. CASE ~online
      <4>1. pageStatus' = "offline" /\ UNCHANGED <<timer, retryCount>>
        BY <1>4, <3>1 DEF Closed, Heard
      <4> QED
        BY <1>1, <3>1, <4>1
    <3>2. CASE online /\ (terminal \/ retryCount >= MaxRetries)
      <4>1. pageStatus' = "unavailable" /\ UNCHANGED <<timer, retryCount>>
        BY <1>4, <3>2 DEF Closed, Heard
      <4> QED
        BY <1>1, <4>1
    <3>3. CASE online /\ ~(terminal \/ retryCount >= MaxRetries)
      <4>1. pageStatus' = "reconnecting" /\ timer' = TRUE /\ retryCount' = retryCount + 1
        BY <1>4, <3>3 DEF Closed, Heard
      <4>2. retryCount' \in 0 .. MaxRetries
        BY <1>1, <3>3, <4>1, DashboardBounds
      <4> QED
        BY <4>1, <4>2
    <3> QED
      BY <3>1, <3>2, <3>3
  <2>5. DashboardTypes'
    BY <1>1, <2>3, <2>4 DEF DashboardInv, DashboardTypes, DashboardTypeOK, lookup, network
  <2>6. FeedRests'
    BY <1>1, <1>4, <2>2, <2>3 DEF DashboardInv, FeedRests
  <2>7. \A other \in DOMAIN sockets : ~Live(other)'
    BY <1>4, <2>3 DEF Live
  <2>8. UNCHANGED <<online, told>>
    BY <1>1 DEF network
  <2>9. FeedIsCurrent'
    BY <1>1, <1>4, <2>2, <2>3, <2>4, <2>7, <2>8 DEF FeedIsCurrent, Live
  <2> QED
    BY <2>5, <2>6, <2>9 DEF DashboardInv
<1> QED
  BY <1>3, <1>4

LEMMA RetryStep ==
  ASSUME DashboardInv, Retry
  PROVE  DashboardInv'
<1>1. /\ timer /\ timer' = FALSE /\ Connect(installed, sockets, socket, pageStatus)
      /\ UNCHANGED <<lookup, installed, reconnect, quote, retryCount, network>>
      /\ sockets \in Seq(Socket) /\ socket \in 0 .. Len(sockets)
  BY DEF Retry, DashboardInv, DashboardTypes, DashboardTypeOK
<1>2. installed \in ShownSymbols /\ quote \in {NoStock, installed}
  BY <1>1 DEF DashboardInv, DashboardTypes, DashboardTypeOK, FeedRests, FeedIsCurrent
<1>3. \A id \in DOMAIN sockets : sockets[id].state \in Ended
  BY <1>1, AllEnded
<1>4. /\ sockets' \in Seq(Socket) /\ socket' \in 0 .. Len(sockets')
      /\ \A id \in DOMAIN sockets' :
           Live(id)' => id = socket' /\ sockets'[id].symbol = installed
      /\ ~online => pageStatus' = "offline" /\ socket' = socket /\ sockets' = sockets
      /\ online => /\ pageStatus' = pageStatus /\ socket' # 0
                   /\ sockets'[socket'].state = "connecting"
  BY <1>1, <1>2, <1>3, Connecting
<1>5. /\ pageStatus # "live" /\ (pageStatus = "offline" => ~(online /\ told))
      /\ pageStatus \in {"connecting", "live", "reconnecting", "offline", "unavailable"}
      /\ online \in BOOLEAN
  BY <1>1, <1>3 DEF DashboardInv, DashboardTypes, DashboardTypeOK, FeedIsCurrent, Ended
<1>6. DashboardTypes'
  BY <1>1, <1>4, <1>5 DEF DashboardInv, DashboardTypes, DashboardTypeOK, lookup, network
<1>7. FeedRests'
  BY <1>1, <1>4 DEF DashboardInv, FeedRests
<1>8. FeedIsCurrent'
  BY <1>1, <1>2, <1>4, <1>5 DEF FeedIsCurrent, Live, network
<1> QED
  BY <1>6, <1>7, <1>8 DEF DashboardInv

LEMMA ReconnectStep ==
  ASSUME DashboardInv, Reconnect
  PROVE  DashboardInv'
<1>1. /\ reconnect' = TRUE
      /\ UNCHANGED <<lookup, installed, pageStatus, quote, socket, sockets, timer, retryCount,
                     network>>
  BY DEF Reconnect
<1>2. DashboardTypes'
  BY <1>1 DEF DashboardInv, DashboardTypes, DashboardTypeOK, lookup, network
<1> QED
  BY <1>1, <1>2 DEF DashboardInv, FeedRests, FeedIsCurrent, Live, network

LEMMA FlipStep ==
  ASSUME DashboardInv, Flip
  PROVE  DashboardInv'
<1>1. /\ online = told /\ online' = ~online
      /\ UNCHANGED <<lookup, installed, reconnect, pageStatus, quote, socket, sockets, timer,
                     retryCount, told>>
  BY DEF Flip, feed
<1>2. DashboardTypes'
  BY <1>1 DEF DashboardInv, DashboardTypes, DashboardTypeOK, lookup
<1>3. online \in BOOLEAN /\ told \in BOOLEAN /\ ~(online' /\ told')
  BY <1>1 DEF DashboardInv, DashboardTypes, DashboardTypeOK
<1> QED
  BY <1>1, <1>2, <1>3 DEF DashboardInv, FeedRests, FeedIsCurrent, Live

LEMMA TellOfflineStep ==
  ASSUME DashboardInv, TellOffline
  PROVE  DashboardInv'
<1>1. /\ ~online /\ told' = FALSE /\ UNCHANGED <<lookup, online>>
  BY DEF TellOffline
<1>2. CASE installed = NoStock
  <2>1. UNCHANGED feed
    BY <1>2 DEF TellOffline
  <2>2. DashboardTypes'
    BY <1>1, <2>1 DEF DashboardInv, DashboardTypes, DashboardTypeOK, lookup, feed
  <2> QED
    BY <1>1, <2>1, <2>2 DEF DashboardInv, FeedRests, FeedIsCurrent, Live, feed
<1>3. CASE installed # NoStock
  <2>1. /\ pageStatus' = "offline" /\ quote' = NoStock /\ timer' = FALSE
        /\ socket' = 0 /\ sockets' = Disconnected
        /\ UNCHANGED <<installed, reconnect, retryCount>>
    BY <1>3 DEF TellOffline
  <2>2. socket' \in 0 .. Len(sockets') /\ sockets' \in Seq(Socket)
    BY <2>1, AllEnded
  <2>3. DashboardTypes'
    BY <1>1, <2>1, <2>2 DEF DashboardInv, DashboardTypes, DashboardTypeOK, lookup
  <2> QED
    BY <1>1, <1>3, <2>1, <2>3, AllEnded
       DEF DashboardInv, FeedRests, FeedIsCurrent, Live, Ended
<1> QED
  BY <1>2, <1>3

LEMMA TellOnlineStep ==
  ASSUME DashboardAssumption, DashboardInv, TellOnline
  PROVE  DashboardInv'
<1>1. /\ online /\ told' = TRUE /\ UNCHANGED <<lookup, online>>
  BY DEF TellOnline
<1>2. CASE installed = NoStock
  <2>1. UNCHANGED feed
    BY <1>2 DEF TellOnline
  <2>2. DashboardTypes'
    BY <1>1, <2>1 DEF DashboardInv, DashboardTypes, DashboardTypeOK, lookup, feed
  <2> QED
    BY <1>1, <1>2, <2>1, <2>2 DEF DashboardInv, FeedRests, FeedIsCurrent, Live, feed
<1>3. CASE installed # NoStock
  <2>1. /\ timer' = FALSE /\ retryCount' = 0
        /\ Connect(installed, Disconnected, 0, "connecting")
        /\ UNCHANGED <<installed, reconnect, quote>>
    BY <1>3 DEF TellOnline
  <2>2. /\ installed \in ShownSymbols /\ quote \in {NoStock, installed}
        /\ 0 \in 0 .. Len(Disconnected)
    BY <1>3, AllEnded DEF DashboardInv, DashboardTypes, DashboardTypeOK, FeedIsCurrent
  <2>3. /\ sockets' \in Seq(Socket) /\ socket' \in 0 .. Len(sockets')
        /\ \A id \in DOMAIN sockets' :
             Live(id)' => id = socket' /\ sockets'[id].symbol = installed
        /\ pageStatus' = "connecting" /\ socket' # 0 /\ sockets'[socket'].state = "connecting"
    BY <1>1, <2>1, <2>2, AllEnded, Connecting
  <2>4. 0 \in 0 .. MaxRetries /\ timer' \in BOOLEAN /\ told' \in BOOLEAN
    <3>1. 0 \in 0 .. MaxRetries
      BY DashboardBounds
    <3> QED
      BY <1>1, <2>1, <3>1
  <2>5. DashboardTypes'
    BY <1>1, <2>1, <2>3, <2>4 DEF DashboardInv, DashboardTypes, DashboardTypeOK, lookup
  <2> QED
    BY <1>1, <1>3, <2>1, <2>2, <2>3, <2>5 DEF DashboardInv, FeedRests, FeedIsCurrent, Live
<1> QED
  BY <1>2, <1>3

LEMMA DashboardInvStep ==
  ASSUME DashboardAssumption, DashboardInv, [DashboardNext]_dashboardVars
  PROVE  DashboardInv'
<1>1. ASSUME NEW input \in ShownSymbols \cup {Invalid}, Search(input) \/ OpenLink(input)
      PROVE  DashboardInv'
  BY <1>1, SearchStep
<1>2. ASSUME NEW l \in inflight, Found(l) \/ NotFound(l)
      PROVE  DashboardInv'
  BY <1>2, FoundStep
<1>3. CASE NewSearch
  BY <1>3, ResetTypes DEF NewSearch
<1>4. ASSUME NEW to \in 1 .. MaxHistory, PopState(to)
      PROVE  DashboardInv'
  BY <1>4, PopStateStep
<1>5. CASE RunEffect \/ Reconnect \/ Retry \/ Flip \/ TellOffline \/ TellOnline
  BY <1>5, RunEffectStep, ReconnectStep, RetryStep, FlipStep, TellOfflineStep, TellOnlineStep
<1>6. ASSUME NEW id \in 1 .. MaxSockets,
             \/ Opened(id)
             \/ \E kind \in {"quote", "error"} : Message(id, kind)
             \/ \E terminal \in BOOLEAN : Closed(id, terminal)
      PROVE  DashboardInv'
  BY <1>6, OpenedStep, MessageStep, ClosedStep
<1>7. CASE UNCHANGED dashboardVars
  <2>1. DashboardTypes'
    BY <1>7 DEF dashboardVars, lookup, feed, network, DashboardInv, DashboardTypes,
      DashboardTypeOK
  <2> QED
    BY <1>7, <2>1, FeedUntouched DEF dashboardVars, network
<1> QED
  BY <1>1, <1>2, <1>3, <1>4, <1>5, <1>6, <1>7 DEF DashboardNext

\* The dashboard keeps its types, for any stocks and however many lookups, sockets and
\* reconnections (market-dashboard.tsx:125-238).
THEOREM DashboardInvariant ==
  ASSUME DashboardAssumption
  PROVE  DashboardSpec => []DashboardInv
<1>1. DashboardInit => DashboardInv
  BY DashboardInvInit
<1>2. DashboardInv /\ [DashboardNext]_dashboardVars => DashboardInv'
  BY DashboardInvStep
<1> QED
  BY <1>1, <1>2, PTL DEF DashboardSpec

\* Whatever late events of replaced sockets arrive, only the effect's own socket is ever
\* alive, of the stock it was installed for, the quote is of that stock, and the status says
\* what the socket, the timer and the connection are
\* (market-dashboard.tsx:125-238).
THEOREM FeedIsCurrentCorrect ==
  ASSUME DashboardAssumption
  PROVE  DashboardSpec => []FeedIsCurrent
<1>1. DashboardInv => FeedIsCurrent
  BY DEF DashboardInv
<1> QED
  BY <1>1, DashboardInvariant, PTL
=============================================================================
