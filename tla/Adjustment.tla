------------------------------ MODULE Adjustment ------------------------------
(***************************************************************************)
(* Adjusting candles for corporate actions, from the revisions known at a   *)
(* point in time: the view for charts, which scales the candles before an   *)
(* event, and the view for backtests, which scales those after it           *)
(* (corporate_actions/engine.py).                                           *)
(*                                                                         *)
(* A revision's price factor is 2^factor, so that products of factors are   *)
(* sums of exponents.  The volume factor is treated as the price factor is, *)
(* and then rounded; neither it nor the validation of single fields is here. *)
(***************************************************************************)
EXTENDS Integers, FiniteSets, FiniteSetsExt

CONSTANTS
  Events,    \* (source, event_id) pairs of one symbol
  MaxTime    \* bound: the last timestamp

ASSUME TimeAssumption == MaxTime \in Nat

Times == 0..MaxTime
Statuses == {"announced", "confirmed", "cancelled"}

\* CorporateActionRecord: a revision of an event.
Revision == [event : Events, revision : Nat \ {0}, known : Times, effective : Times,
             status : Statuses, factor : Int]

SameKey(r, q) == r.event = q.event /\ r.revision = q.revision

\* list_known: the rows of a symbol that were known at T.
Known(rows, T) == {r \in rows : r.known <= T}

\* recent and list_recent: the revisions that a history dated T lists.
Listed(rows, T) == {r \in rows : r.known <= T}

\* Mutant: revisions that are not known yet take part.
NotFuture(rows, T) == {r \in rows : r.effective <= T}

\* The revisions that either engine considers at T.
Current(rows, T) == {r \in Known(rows, T) : r.known <= T /\ r.effective <= T}

\* _latest_effective_revisions: the latest of each event, if it is confirmed.
Newer(r, q) == r.known > q.known \/ (r.known = q.known /\ r.revision > q.revision)
Latest(S) == {r \in S : \A q \in S : q.event = r.event => ~Newer(q, r)}
Selected(rows, T) == {r \in Latest(Current(rows, T)) : r.status = "confirmed"}

\* The view for charts: the exponent a candle of time c is scaled by.
Total(S) == FoldSet(LAMBDA r, sum : sum + r.factor, 0, S)
AdjustBackward(rows, T, c) == Total({r \in Selected(rows, T) : c < r.effective})

\* Mutant: late knowledge is accepted.
AcceptsLate(rows, T) ==
  \A r \in Current(rows, T) : \A q \in Current(rows, T) : r.event = q.event => r = q

\* The view for backtests is refused unless every event has one revision, known
\* before it took effect.
Accepts(rows, T) ==
  /\ \A r \in Current(rows, T) : \A q \in Current(rows, T) : r.event = q.event => r = q
  /\ \A r \in Current(rows, T) : r.known <= r.effective
Applied(rows, T) == {r \in Current(rows, T) : r.status = "confirmed"}

\* Mutant: the candle of the event itself is left out.
AdjustForwardLate(rows, T, c) == - Total({r \in Applied(rows, T) : c > r.effective})

\* The view for backtests: the candles of the event and after it.
AdjustForward(rows, T, c) == - Total({r \in Applied(rows, T) : c >= r.effective})

\* adjusted_view and backtest_view: the exponent of every candle, from the revisions that
\* are known at T; the latter exists if the revisions are accepted.
AdjustedView(rows, T) == [c \in Times |-> AdjustBackward(rows, T, c)]
BacktestView(rows, T) == [c \in Times |-> AdjustForward(rows, T, c)]
=============================================================================
