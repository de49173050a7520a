--------------------------- MODULE AnalysisReport ---------------------------
(* One AI report (services/ai_report.py report): the stock is looked up, the
   score collects the facts of six axes (services/score.py), agents read that
   bundle or fetch for themselves what it lacks (ai_reports/agents.py), a
   generator writes the prose, a deterministic gate checks the whole
   (ai_reports/compliance.py) and what passes is stored. Any fetch may fail;
   the failures of agents are isolated when they are provider or value errors,
   and end the report otherwise. Facts are small numbers: what an axis makes of
   them is computed as the code does, up to rounding. *)
EXTENDS Integers, FiniteSets

CONSTANTS TechnicalScores,  \* scores the technical calculator may give
          FinancialScores,
          Sentiments,       \* averages of the news: negative, 0 or positive
          Flagged,          \* numbers of high-risk disclosures
          Flows,            \* net quantities of foreigners and institutions
          Warnings,         \* warnings the exchange may have on the stock
          Chances,          \* predicted probabilities of a rise, in percent
          Weights,          \* weight of each axis
          Failed, None      \* a fetch that failed; a fact or a score that is missing

Axes == {"technical", "financial", "news", "disclosure", "investor_flow", "market_risk"}

\* What the six sources can say: a fact, nothing, or that they failed.
Facts ==
  [technical : TechnicalScores \cup {None}, financial : FinancialScores \cup {None, Failed},
   news : Sentiments \cup {Failed}, disclosure : Flagged \cup {Failed},
   investor_flow : Flows \cup {Failed}, market_risk : (SUBSET Warnings) \cup {Failed}]

ReportAssumption ==
  /\ TechnicalScores \cup FinancialScores \cup Chances \subseteq 0 .. 100
  /\ Flagged \subseteq Nat /\ Sentiments \cup Flows \subseteq Int
  /\ Weights \in [Axes -> Nat] /\ \E a \in Axes : Weights[a] > 0
  /\ IsFiniteSet(Warnings)
  /\ Failed \notin Int /\ None \notin Int /\ \A ws \in SUBSET Warnings : ws # Failed /\ ws # None
  /\ None \notin Facts

-----------------------------------------------------------------------------
(* The axes: a score from 0 to 100, or None. *)

Sign(n) == IF n > 0 THEN 1 ELSE IF n < 0 THEN -1 ELSE 0
Capped(n, limit) == IF n > limit THEN limit ELSE n

NewsAxis(sentiment) == 50 + 19 * Sign(sentiment)
DisclosureAxis(flagged) == 50 - Capped(20 * flagged, 40)
FlowAxis(quantity) == 50 + 10 * Sign(quantity)

Severe == {"liquidation", "risk"}
RiskAxis(ws) == 50 - Capped(25 * Cardinality(ws \cap Severe) + 15 * Cardinality(ws \ Severe), 40)

\* What the score makes of the facts it could load: a source that failed or is
\* not configured leaves its axis without a score.
AxisScore(facts, a) ==
  IF facts[a] \in {Failed, None} THEN None
  ELSE CASE a = "news" -> NewsAxis(facts[a])
         [] a = "disclosure" -> DisclosureAxis(facts[a])
         [] a = "investor_flow" -> FlowAxis(facts[a])
         [] a = "market_risk" -> RiskAxis(facts[a])
         [] OTHER -> facts[a]

Available(facts) == {a \in Axes : AxisScore(facts, a) # None}

\* The weighted mean of the axes that have a score; 50 when none carries weight.
Total(f) ==
  f["technical"] + f["financial"] + f["news"] + f["disclosure"] + f["investor_flow"]
  + f["market_risk"]

WeightOf(facts) == [a \in Axes |-> IF a \in Available(facts) THEN Weights[a] ELSE 0]
Weighted(facts) ==
  [a \in Axes |-> IF a \in Available(facts) THEN Weights[a] * AxisScore(facts, a) ELSE 0]

Overall(facts) ==
  IF Total(WeightOf(facts)) = 0 THEN 50
  ELSE Total(Weighted(facts)) \div Total(WeightOf(facts))

\* The reference signal of the report. The consensus is taken in hundredths of
\* its unit times fifty: 55 (score - 50) + 45 (chance - 50), against 0.12.
Signal(warnings, score, chance) ==
  IF warnings \notin {None, {}} THEN "risk_aware"
  ELSE IF None \in {score, chance} THEN "data_insufficient"
  ELSE LET consensus == 55 * (score - 50) + 45 * (chance - 50)
       IN  IF consensus >= 600 THEN "positive_watch"
           ELSE IF consensus <= -600 THEN "defensive_watch"
           ELSE "neutral_watch"

-----------------------------------------------------------------------------
VARIABLES
  reportPc,       \* "idle", the next agent, "write", "check", "done", "refused" or "broken"
  bundle,         \* facts of the score's bundle, None without one
  score,          \* its overall score, None without one
  chance,         \* the prediction, None without one
  warnings,       \* the warnings the risk agent read, None when it read none
  flow,           \* the investor flow it knows of
  charts,         \* what the chart agents made of the candles
  missing,        \* agents whose finding is not "available"
  draft,          \* what the generator wrote
  storedReports,  \* stored reports
  predictions     \* number of stored predictions

reportVars == <<reportPc, bundle, score, chance, warnings, flow, charts, missing,
                draft, storedReports, predictions>>

Charts == {"chart_pattern", "support_resistance"}
Agents == {"score", "technical", "financial", "news", "disclosure", "prediction", "risk",
           "investor_flow"} \cup Charts
Drafts == {"neutral", "directive", "incomplete"}
Signals == {"positive_watch", "neutral_watch", "defensive_watch", "risk_aware",
            "data_insufficient"}

ReportTypeOK ==
  /\ reportPc \in {"idle", "score", "prediction", "risk", "flow", "charts", "write", "check",
             "done", "refused", "broken"}
  /\ bundle \in Facts \cup {None}
  /\ score \in 0 .. 100 \cup {None} /\ chance \in Chances \cup {None}
  /\ warnings \in (SUBSET Warnings) \cup {None}
  /\ flow \in Flows \cup {None} /\ charts \subseteq Charts
  /\ missing \subseteq Agents
  /\ draft \in Drafts \cup {None}
  /\ \A r \in storedReports : r.signal \in Signals /\ r.risk \in {"high", "medium", "low"}
  /\ predictions \in 0 .. 1

ReportInit ==
  /\ reportPc = "idle" /\ bundle = None /\ score = None /\ chance = None
  /\ warnings = None /\ flow = None /\ charts = {} /\ missing = {} /\ draft = None
  /\ storedReports = {} /\ predictions = 0

Facts0 == <<bundle, score, chance, warnings, flow, charts>>
Stored == <<storedReports, predictions>>

\* The stock is looked up first; without it there is no report.
LookUp ==
  /\ reportPc = "idle"
  /\ reportPc' \in {"score", "refused"}
  /\ UNCHANGED <<Facts0, missing, draft, Stored>>

\* An error that is neither a provider's nor a value error: a capability nobody
\* offers, an empty list of candles, the database. It ends the report.
Break ==
  /\ reportPc \in {"score", "prediction", "risk", "flow", "charts"}
  /\ reportPc' = "broken"
  /\ UNCHANGED <<Facts0, missing, draft, Stored>>

\* Score agent and the four axis agents, which read its bundle.
AxisAgents == {"technical", "financial", "news", "disclosure"}

Collect ==
  /\ reportPc = "score"
  /\ \E facts \in Facts :
       /\ bundle' = facts
       /\ score' = Overall(facts)
       /\ missing' = missing \cup {a \in AxisAgents : AxisScore(facts, a) = None}
  /\ reportPc' = "prediction"
  /\ UNCHANGED <<chance, warnings, flow, charts, draft, Stored>>

CollectNothing ==
  /\ reportPc = "score"
  /\ missing' = missing \cup {"score"} \cup AxisAgents
  /\ reportPc' = "prediction"
  /\ UNCHANGED <<Facts0, draft, Stored>>

\* Prediction agent: candles of its own; the prediction is stored at once.
Predict ==
  /\ reportPc = "prediction"
  /\ \/ /\ chance' \in Chances
        /\ predictions' = predictions + 1
        /\ UNCHANGED missing
     \/ /\ missing' = missing \cup {"prediction"}
        /\ UNCHANGED <<chance, predictions>>
  /\ reportPc' = "risk"
  /\ UNCHANGED <<bundle, score, warnings, flow, charts, draft, storedReports>>

\* Whether the bundle has the facts of a source.
Has(a) == bundle # None /\ bundle[a] # Failed

\* Risk agent: the bundle's warnings, else a fetch of its own, which may fail.
\* Mutant: the failure does not count as a missing agent.
AssessRiskUncounted ==
  /\ reportPc = "risk"
  /\ \/ Has("market_risk") /\ warnings' = bundle["market_risk"]
     \/ ~Has("market_risk") /\ warnings' \in (SUBSET Warnings) \cup {None}
  /\ reportPc' = "flow"
  /\ UNCHANGED <<bundle, score, chance, flow, charts, missing, draft, Stored>>

AssessRisk ==
  /\ reportPc = "risk"
  /\ \/ Has("market_risk") /\ warnings' = bundle["market_risk"] /\ UNCHANGED missing
     \/ ~Has("market_risk") /\ warnings' \in SUBSET Warnings /\ UNCHANGED missing
     \/ ~Has("market_risk") /\ missing' = missing \cup {"risk"} /\ UNCHANGED warnings
  /\ reportPc' = "flow"
  /\ UNCHANGED <<bundle, score, chance, flow, charts, draft, Stored>>

\* Investor-flow agent, likewise.
ReadFlow ==
  /\ reportPc = "flow"
  /\ \/ Has("investor_flow") /\ flow' = bundle["investor_flow"] /\ UNCHANGED missing
     \/ ~Has("investor_flow") /\ flow' \in Flows /\ UNCHANGED missing
     \/ ~Has("investor_flow") /\ missing' = missing \cup {"investor_flow"} /\ UNCHANGED flow
  /\ reportPc' = "charts"
  /\ UNCHANGED <<bundle, score, chance, warnings, charts, draft, Stored>>

\* Pattern and support agents: on the bundle's candles, else on candles they
\* fetch, which may fail.
ReadCharts ==
  /\ reportPc = "charts"
  /\ charts' \in SUBSET Charts
  /\ missing' = missing \cup (Charts \ charts')
  /\ reportPc' = "write"
  /\ UNCHANGED <<bundle, score, chance, warnings, flow, draft, Stored>>

\* The generator is given the facts; it may fail.
Write ==
  /\ reportPc = "write"
  /\ \/ draft' \in Drafts /\ reportPc' = "check"
     \/ reportPc' = "refused" /\ UNCHANGED draft
  /\ UNCHANGED <<Facts0, missing, Stored>>

\* A report that read no warnings goes on as if there were none.
DownsideRisk ==
  IF warnings \notin {None, {}} THEN "high" ELSE IF missing # {} THEN "medium" ELSE "low"

\* The draft has a summary, key points, risk factors and counterpoints.
Complete == draft # "incomplete"

Report ==
  [signal |-> Signal(warnings, score, chance), risk |-> DownsideRisk, draft |-> draft]

\* The gate: a supported signal and no trading instruction anywhere in the text.
Compliant(r) == r.signal \in Signals /\ r.draft # "directive"

\* The report is put together, which needs every part of the draft, checked and
\* stored, or refused.
Check ==
  /\ reportPc = "check"
  /\ \/ ~Complete /\ reportPc' = "broken" /\ UNCHANGED storedReports
     \/ Complete /\ ~Compliant(Report) /\ reportPc' = "refused" /\ UNCHANGED storedReports
     \/ /\ Complete /\ Compliant(Report)
        /\ storedReports' = storedReports \cup {Report}
        /\ reportPc' = "done"
  /\ UNCHANGED <<Facts0, missing, draft, predictions>>

ReportNext ==
  \/ LookUp \/ Break \/ Collect \/ CollectNothing \/ Predict \/ AssessRisk \/ ReadFlow
  \/ ReadCharts \/ Write \/ Check

ReportSpec == ReportInit /\ [][ReportNext]_reportVars

-----------------------------------------------------------------------------
\* Properties

\* A stored report heeds every warning its score was computed from, and calls
\* the risk low only when every agent has read what it is for: the warnings,
\* from the bundle or by the risk agent's own fetch, and none is in force; the
\* score and the four axes that have an agent; the prediction, the investor
\* flow and both charts (ai_reports/agents.py, services/ai_report.py).
WarningsAreHeeded ==
  \A r \in storedReports :
    /\ Has("market_risk") /\ bundle["market_risk"] # {} =>
         r.signal = "risk_aware" /\ r.risk = "high"
    /\ r.risk = "low" =>
         /\ None \notin {bundle, score, chance, warnings, flow}
         /\ warnings = {} /\ charts = Charts
         /\ \A a \in AxisAgents : AxisScore(bundle, a) # None
=============================================================================
