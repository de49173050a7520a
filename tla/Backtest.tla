------------------------------ MODULE Backtest ------------------------------
(* The backtests of StockPilot (app/backtest, app/services/backtest.py):     *)
(* the event-driven engine bar by bar, the vectorized engine that derives    *)
(* its trades from the same signals, the comparison of both, and the         *)
(* walk-forward validation that runs an engine once per fold.                *)
(* The strategy and the market are the environment.  Money is counted in     *)
(* units of 1/10000, so that the percent rates of costs keep it an integer.  *)
EXTENDS Integers, Sequences

CONSTANTS
  Prices,                     \* what a candle can open or close at
  Volumes,                    \* what volume it can have
  Capital,                    \* initial_capital, in units of 1/10000
  Commission, Tax, Slippage,  \* the rates of CostModel, in percent
  Participation,              \* max_volume_participation, in percent
  MaxBars,                    \* bound: the candles of a request
  MinWarmup,                  \* the least warmup_candles of a validation (21)
  MinFold,                    \* the least candles per fold of a validation (10)
  Splits,                     \* the n_splits a validation accepts (2 to 6)
  MaxRuns                     \* bound: backtests that are stored

BacktestAssumption ==
  /\ Prices \subseteq Nat \ {0} /\ Volumes \subseteq Nat
  /\ Capital \in Nat \ {0}
  /\ Commission \in 0 .. 99 /\ Tax \in 0 .. 99 /\ Slippage \in 0 .. 99
  /\ Participation \in 1 .. 100
  /\ MaxBars \in Nat /\ MaxRuns \in Nat
  /\ MinWarmup \in Nat \ {0} /\ MinFold \in Nat \ {0} /\ Splits \subseteq Nat \ {0}

VARIABLES
  job,                      \* the request: its kind, its engines, the bars and the fold it is at
  bar,                      \* the bar the loop is at; bars count from 0
  phase,                    \* "idle", "open" or "close" of the bar, "done"
  signals,                  \* the desired position observed at the close of each bar so far
  cash, quantity, pending,  \* the locals of EventDrivenBacktestEngine.run
  trades,                   \* the trades of the event-driven engine
  rejected, partial,        \* how many events of these types it reported
  saved                     \* the runs that are stored, each with its result

accountLocals == <<cash, quantity, trades, rejected, partial>>
backtestVars == <<job, bar, phase, signals, pending, accountLocals, saved>>

Kinds == {"none", "run", "compare", "strategies", "validate"}
Engines == {"vectorized", "event_driven"}
Strategies == 3      \* buy_and_hold, ma_cross and pattern_reference
NoJob == [kind |-> "none", engines |-> {}, bars |-> 0, activation |-> 0,
          length |-> 0, warmup |-> 0, splits |-> 1, fold |-> 0]

-----------------------------------------------------------------------------
(* Costs and sizes.                                                          *)

\* What buying or selling one share at a market price moves in cash.
BuyCost(price) == price * (100 + Slippage) * (100 + Commission)
SaleProceeds(price) == price * (100 - Slippage) * (100 - Commission - Tax)

Lesser(a, b) == IF a <= b THEN a ELSE b

\* _bounded_quantity under the volume of a candle
Bounded(requested, volume) == Lesser(requested, (volume * Participation) \div 100)

\* Fold number i, from 0, of a validation: the candles it reads and the first it may act on
Fold(length, warmup, splits, i) ==
  LET size == (length - warmup) \div splits
      start == warmup + i * size
      end == IF i = splits - 1 THEN length ELSE start + size
  IN [source |-> start - warmup, start |-> start, end |-> end]

-----------------------------------------------------------------------------
(* The vectorized engine: a trade wherever the position, the signal shifted  *)
(* by one bar, changes, and a last sale when the position is still held.     *)

\* Mutant: the signal is not shifted.
PositionUnshifted(observed, i) == observed[i + 1]

Position(observed, i) == IF i = 0 THEN 0 ELSE observed[i]
Changes(observed, last) ==
  {i \in 1 .. last : Position(observed, i) # Position(observed, i - 1)}
VectorTrades(observed, last) ==
  {[bar |-> i, side |-> IF Position(observed, i) = 1 THEN "buy" ELSE "sell", at |-> "open"] :
     i \in Changes(observed, last)}
  \cup {[bar |-> last, side |-> "sell", at |-> "close"] : i \in {k \in {last} : Position(observed, k) = 1}}

-----------------------------------------------------------------------------
BacktestInit ==
  /\ job = NoJob /\ bar = 0 /\ phase = "idle" /\ signals = <<>>
  /\ cash = Capital /\ quantity = 0 /\ pending = "none"
  /\ trades = <<>> /\ rejected = 0 /\ partial = 0
  /\ saved = 0

\* An engine starts over with fresh locals and a fresh strategy.
FreshEngine ==
  /\ bar' = 0 /\ phase' = "open" /\ signals' = <<>> /\ pending' = "none"
  /\ cash' = Capital /\ quantity' = 0
  /\ trades' = <<>> /\ rejected' = 0 /\ partial' = 0

\* POST /backtests and the comparisons: at least two candles are required.
StartBacktest(kind, engines, bars) ==
  /\ phase = "idle" /\ bars >= 2
  /\ kind = "run" => saved < MaxRuns
  /\ job' = [NoJob EXCEPT !.kind = kind, !.engines = engines, !.bars = bars]
  /\ FreshEngine
  /\ UNCHANGED saved

\* POST /admin/backtests/strategies/compare: every strategy in turn, over the same candles
StartStrategies(engine, bars) ==
  /\ phase = "idle" /\ bars >= 2
  /\ job' = [NoJob EXCEPT !.kind = "strategies", !.engines = {engine}, !.bars = bars, !.splits = Strategies]
  /\ FreshEngine
  /\ UNCHANGED saved

RunFold(base, i) ==
  LET fold == Fold(base.length, base.warmup, base.splits, i)
  IN job' = [base EXCEPT !.fold = i, !.bars = fold.end - fold.source,
                         !.activation = fold.start - fold.source]

\* POST /backtests/walk-forward
StartValidation(engine, length, warmup, splits) ==
  /\ phase = "idle"
  /\ splits \in Splits /\ warmup >= MinWarmup
  /\ length - warmup >= splits * MinFold
  /\ RunFold([NoJob EXCEPT !.kind = "validate", !.engines = {engine}, !.length = length,
                           !.warmup = warmup, !.splits = splits], 0)
  /\ FreshEngine
  /\ UNCHANGED saved

-----------------------------------------------------------------------------
(* EventDrivenBacktestEngine._execute                                        *)

Reject == rejected' = rejected + 1 /\ UNCHANGED <<cash, quantity, trades, partial>>

Fill(side, at, requested, filled, money, held) ==
  /\ cash' = money /\ quantity' = held
  /\ trades' = Append(trades, [bar |-> bar, side |-> side, at |-> at])
  /\ partial' = IF filled < requested THEN partial + 1 ELSE partial
  /\ UNCHANGED rejected

\* Mutant: an order is sized by the bare price.
ExecuteBuyUnfeed(price, volume) ==
  LET requested == cash \div (price * 10000)
      filled == Bounded(requested, volume)
  IN IF filled <= 0 THEN Reject
     ELSE Fill("buy", "open", requested, filled, cash - filled * BuyCost(price), quantity + filled)

\* Refused for want of cash, or of liquidity, or filled.
ExecuteBuy(price, volume) ==
  LET requested == cash \div BuyCost(price)
      filled == Bounded(requested, volume)
  IN IF filled <= 0 THEN Reject
     ELSE Fill("buy", "open", requested, filled, cash - filled * BuyCost(price), quantity + filled)

\* Refused for want of a position, or of liquidity, or filled.
ExecuteSell(price, volume) ==
  LET filled == Bounded(quantity, volume)
  IN IF filled <= 0 THEN Reject
     ELSE Fill("sell", "open", quantity, filled, cash + filled * SaleProceeds(price), quantity - filled)

\* The forced sale of everything, which bypasses the volume limit.
ForceClose(price) ==
  Fill("sell", "close", quantity, quantity, cash + quantity * SaleProceeds(price), 0)

-----------------------------------------------------------------------------
\* The order of the last bar is executed at the open.
Open(price, volume) ==
  /\ phase = "open" /\ phase' = "close"
  /\ CASE pending = "buy" -> ExecuteBuy(price, volume)
       [] pending = "sell" -> ExecuteSell(price, volume)
       [] OTHER -> UNCHANGED accountLocals
  /\ pending' = "none"
  /\ UNCHANGED <<job, bar, signals, saved>>

\* What the strategy's signal becomes: nothing before the activation of a fold.
Activated(signal) == IF bar < job.activation THEN 0 ELSE signal

Holding == IF quantity > 0 THEN 1 ELSE 0
LastBar == job.bars - 1

\* The close of a bar: the strategy sees it, and an order is left for the next.
Close(price, signal) ==
  LET desired == Activated(signal) IN
  /\ phase = "close" /\ phase' = IF bar = LastBar THEN "done" ELSE "open"
  /\ signals' = Append(signals, desired)
  /\ pending' = IF "event_driven" \in job.engines /\ desired # Holding /\ bar # LastBar
                THEN IF desired = 1 THEN "buy" ELSE "sell"
                ELSE "none"
  /\ IF bar = LastBar /\ quantity > 0 THEN ForceClose(price) ELSE UNCHANGED accountLocals
  /\ bar' = bar + 1
  /\ UNCHANGED <<job, saved>>

\* The next fold of a validation or strategy of a comparison, an engine run of its own
NextFold ==
  /\ phase = "done" /\ job.fold + 1 < job.splits
  /\ IF job.kind = "validate" THEN RunFold(job, job.fold + 1) ELSE job' = [job EXCEPT !.fold = @ + 1]
  /\ FreshEngine
  /\ UNCHANGED saved

\* The run and its result are stored in one transaction.
Save == saved' = saved + 1

\* The answer.  Only a plain run is stored.
ReturnResult ==
  /\ phase = "done" /\ job.fold + 1 = job.splits
  /\ IF job.kind = "run" THEN Save ELSE UNCHANGED saved
  /\ job' = NoJob /\ bar' = 0 /\ phase' = "idle" /\ signals' = <<>> /\ pending' = "none"
  /\ cash' = Capital /\ quantity' = 0 /\ trades' = <<>> /\ rejected' = 0 /\ partial' = 0

BeginBacktest ==
  \/ \E bars \in 2 .. MaxBars :
       \/ \E engine \in Engines : StartBacktest("run", {engine}, bars) \/ StartStrategies(engine, bars)
       \/ StartBacktest("compare", Engines, bars)
  \/ \E engine \in Engines, length \in 1 .. MaxBars, warmup \in 1 .. MaxBars, splits \in Splits :
       StartValidation(engine, length, warmup, splits)

Trading ==
  \/ \E price \in Prices, volume \in Volumes : Open(price, volume)
  \/ \E price \in Prices, signal \in {0, 1} : Close(price, signal)

BacktestNext == BeginBacktest \/ Trading \/ NextFold \/ ReturnResult

BacktestSpec == BacktestInit /\ [][BacktestNext]_backtestVars

-----------------------------------------------------------------------------
BacktestTypeOK ==
  /\ job \in [kind : Kinds, engines : SUBSET Engines, bars : 0 .. MaxBars, activation : 0 .. MaxBars,
              length : 0 .. MaxBars, warmup : 0 .. MaxBars, splits : Nat, fold : Nat]
  /\ bar \in 0 .. MaxBars /\ phase \in {"idle", "open", "close", "done"}
  /\ signals \in Seq({0, 1})
  /\ cash \in Int /\ quantity \in Nat /\ pending \in {"none", "buy", "sell"}
  /\ trades \in Seq([bar : 0 .. MaxBars, side : {"buy", "sell"}, at : {"open", "close"}])
  /\ rejected \in Nat /\ partial \in Nat
  /\ saved \in 0 .. MaxRuns

Ledger == INSTANCE Account WITH
  Costs <- {BuyCost(price) : price \in Prices}, Proceeds <- {SaleProceeds(price) : price \in Prices},
  money <- cash, shares <- quantity, open <- phase # "done"

\* The event-driven engine implements the account: whatever is signalled and however thin
\* the market is, no order buys on credit or sells what is not held, two orders never spend
\* the same cash, and the end of a run leaves no position (event_engine.py:79-92, 130-156).
KeepsAnAccount == Ledger!Spec

\* Both engines trade at the same bars, on the same side and at the same price of the bar,
\* unless cash or liquidity cut an order: what the comparison of both attributes a
\* difference to (services/backtest.py:220-223, event_engine.py:111 and engine.py:491).
EnginesAgree ==
  phase = "done" /\ "event_driven" \in job.engines /\ rejected = 0 /\ partial = 0
    => {trades[i] : i \in DOMAIN trades} = VectorTrades(signals, LastBar)
=============================================================================
