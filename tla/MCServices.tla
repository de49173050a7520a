----------------------------- MODULE MCServices -----------------------------
(* The components that share no state with each other, in one model: `focus`
   says which of them moves in a behaviour and never changes, so that the
   reachable states are those of every component on its own and their numbers
   add up instead of being multiplied. The components are extended, so that
   their properties are checked as they stand. *)
EXTENDS Backtest, RateLimit, PollingQuotes, ReferenceAlerts, DataRetention,
  CandlePartitions, Dashboard, Gateway, PortfolioSync, AnalysisReport,
  CandleIngestion

CONSTANT Focus

VARIABLE focus

-----------------------------------------------------------------------------
(* Values of the constants *)

RetentionDays == [logs |-> 1, news |-> 2]
LifecycleTables == [s \in {"lifecycle"} |-> {"logs", "news"}]
ThreePortfolios == <<{"a"}, {"b"}, {"a", "b"}>>

DefaultWeights ==
  [technical |-> 30, financial |-> 20, news |-> 10, disclosure |-> 10,
   investor_flow |-> 15, market_risk |-> 15]

\* What a provider may report: two candles of one day, of which one has a negative
\* volume, one a week later, and one of the first day whose price basis is not known,
\* as an earlier run may have stored it.
ReportedCandle(day, open, high, low, close, volume, basis) ==
  [day |-> day, open |-> open, high |-> high, low |-> low, close |-> close,
   volume |-> volume, basis |-> basis]

UnknownBasis == ReportedCandle(0, 2, 2, 2, 2, 0, "unknown")
Reported ==
  {ReportedCandle(0, 2, 3, 1, 2, 5, "adjusted"),
   ReportedCandle(0, 2, 2, 1, 3, -1, "adjusted"),
   ReportedCandle(8, 3, 4, 2, 3, 6, "adjusted"),
   UnknownBasis}
StoredBefore == {<<UnknownBasis>>}

ASSUME InstancesAreSound ==
  /\ BacktestAssumption
  /\ RateLimitAssumption
  /\ PollingAssumption
  /\ AlertsAssumption
  /\ IngestionAssumption
  /\ RetentionAssumption
  /\ PartitionsAssumption
  /\ DashboardAssumption
  /\ GatewayAssumption
  /\ PortfolioAssumption
  /\ ReportAssumption

-----------------------------------------------------------------------------
vars ==
  <<focus, backtestVars, rateLimitVars, pollingVars, alertsVars,
    ingestionVars, retentionVars, partitionsVars, dashboardVars, gatewayVars,
    portfolioVars, reportVars>>

Init ==
  /\ focus \in Focus
  /\ BacktestInit
  /\ RateLimitInit
  /\ PollingInit
  /\ AlertsInit
  /\ IngestionInit /\ (focus # "ingestion" => committed = <<>>)
  /\ RetentionInit
  /\ PartitionsInit
  /\ DashboardInit
  /\ GatewayInit
  /\ PortfolioInit
  /\ ReportInit

\* Every component but the one in focus rests.
Rest ==
  /\ UNCHANGED focus
  /\ IF focus = "backtest" THEN TRUE ELSE UNCHANGED backtestVars
  /\ IF focus = "rate limit" THEN TRUE ELSE UNCHANGED rateLimitVars
  /\ IF focus = "polling" THEN TRUE ELSE UNCHANGED pollingVars
  /\ IF focus = "alerts" THEN TRUE ELSE UNCHANGED alertsVars
  /\ IF focus = "ingestion" THEN TRUE ELSE UNCHANGED ingestionVars
  /\ IF focus = "retention" THEN TRUE ELSE UNCHANGED retentionVars
  /\ IF focus = "partitions" THEN TRUE ELSE UNCHANGED partitionsVars
  /\ IF focus = "page" THEN TRUE ELSE UNCHANGED dashboardVars
  /\ IF focus = "gateway" THEN TRUE ELSE UNCHANGED gatewayVars
  /\ IF focus = "portfolio" THEN TRUE ELSE UNCHANGED portfolioVars
  /\ IF focus = "report" THEN TRUE ELSE UNCHANGED reportVars

Next ==
  \/ focus = "backtest" /\ BacktestNext /\ Rest
  \/ focus = "rate limit" /\ RateLimitNext /\ Rest
  \/ focus = "polling" /\ PollingNext /\ Rest
  \/ focus = "alerts" /\ AlertsNext /\ Rest
  \/ focus = "ingestion" /\ IngestionNext /\ Rest
  \/ focus = "retention" /\ RetentionNext /\ Rest
  \/ focus = "partitions" /\ PartitionsNext /\ Rest
  \/ focus = "page" /\ DashboardNext /\ Rest
  \/ focus = "gateway" /\ GatewayNext /\ Rest
  \/ focus = "portfolio" /\ PortfolioNext /\ Rest
  \/ focus = "report" /\ ReportNext /\ Rest

\* The fairness of the components that state one (see there), while in focus.
Fairness ==
  /\ WF_pollingVars(focus = "polling" /\ Polling)
  /\ \A b \in Browsers : WF_pollingVars(focus = "polling" /\ Handling(b))
  /\ \A r \in Requests : WF_gatewayVars(focus = "gateway" /\ Forward(r))
  /\ \A r \in Requests : WF_gatewayVars(focus = "gateway" /\ TimeOut(r))

Spec == Init /\ [][Next]_vars /\ Fairness

TypeOK ==
  /\ focus \in Focus
  /\ BacktestTypeOK
  /\ RateLimitTypeOK
  /\ PollingTypeOK
  /\ AlertsTypeOK
  /\ IngestionTypeOK
  /\ RetentionTypeOK
  /\ PartitionsTypeOK
  /\ DashboardTypeOK
  /\ GatewayTypeOK
  /\ PortfolioTypeOK
  /\ ReportTypeOK
=============================================================================
