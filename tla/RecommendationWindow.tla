------------------------- MODULE RecommendationWindow -------------------------
(***************************************************************************)
(* What a recommendation was worth over a window of trading days.          *)
(*                                                                         *)
(* Days are integers.  A security's quotes are a function from the days it *)
(* was quoted on to records of prices; prices are integers, a price the    *)
(* code calls invalid is 0.  A ratio is a pair <<numerator, denominator>>;  *)
(* the code subtracts one from each, which orders them the same way.       *)
(***************************************************************************)
EXTENDS Integers, FiniteSets, FiniteSetsExt, SequencesExt

Statuses == {"READY", "PENDING", "INCOMPLETE", "UNSUPPORTED", "FAILED"}
Directions == {"LONG", "SHORT"}

Less(p, q) == p[1] * q[2] < q[1] * p[2]
AtMost(p, q) == ~Less(q, p)
One == <<1, 1>>

-----------------------------------------------------------------------------
(* The window.                                                             *)

TradingDatesAfter(dates, day) == {d \in dates : d > day}

\* The first n trading days after the recommendation, or as many as have passed.
Elapsed(dates, day, n) ==
  LET after == TradingDatesAfter(dates, day)
  IN  {d \in after : Cardinality({e \in after : e < d}) < n}

\* The base is the first quote on or after the day of the recommendation.
FirstQuoteOnOrAfter(quotes, day) ==
  LET later == {d \in DOMAIN quotes : d >= day} IN IF later = {} THEN 0 ELSE Min(later)

ValidQuote(q) == q.open > 0 /\ q.high > 0 /\ q.low > 0 /\ q.close > 0 /\ q.high >= q.low

\* A coverage that is no ratio means all of the window.
NormalizedCoverage(c) == IF c[1] <= 0 \/ c[1] > c[2] THEN One ELSE c

\* The status of a window that has passed.
PassedStatus(day, n, quotes, days, coverage) ==
  LET within == days \intersect DOMAIN quotes
      needed == NormalizedCoverage(coverage)
      base == FirstQuoteOnOrAfter(quotes, day)
  IN  IF ~({Min(days), Max(days)} \subseteq within)
         \/ Cardinality(within) * needed[2] < n * needed[1] THEN "INCOMPLETE"
      ELSE IF quotes[base].close <= 0 \/ \E d \in within : ~ValidQuote(quotes[d]) THEN "FAILED"
      ELSE "READY"

\* Its status, its first and its last day: the checks in their order.
WindowStatus(day, direction, n, quotes, dates, coverage) ==
  LET days == Elapsed(dates, day, n) IN
  IF n <= 0 THEN [status |-> "FAILED", entry |-> 0, exit |-> 0]
  ELSE IF direction \notin Directions THEN [status |-> "UNSUPPORTED", entry |-> 0, exit |-> 0]
  ELSE IF Cardinality(days) < n
       THEN [status |-> "PENDING", entry |-> IF days = {} THEN 0 ELSE Min(days), exit |-> 0]
  ELSE [status |-> PassedStatus(day, n, quotes, days, coverage),
        entry |-> Min(days), exit |-> Max(days)]

-----------------------------------------------------------------------------
(* The returns of a READY window.                                          *)

\* What a position entered at e is worth at price p.
Worth(direction, e, p) == IF direction = "SHORT" THEN <<e, p>> ELSE <<p, e>>

\* The best and the worst price of a day for the direction, and the first day of
\* the window on which they are reached.
BestPrice(direction, q) == IF direction = "SHORT" THEN q.low ELSE q.high
WorstPrice(direction, q) == IF direction = "SHORT" THEN q.high ELSE q.low
BestDay(direction, e, quotes, days) ==
  LET value(d) == Worth(direction, e, BestPrice(direction, quotes[d]))
  IN  Min({d \in days : \A other \in days : AtMost(value(other), value(d))})
WorstDay(direction, e, quotes, days) ==
  LET value(d) == Worth(direction, e, WorstPrice(direction, quotes[d]))
  IN  Min({d \in days : \A other \in days : AtMost(value(d), value(other))})

\* The deepest fall from the highest close so far, or from the entry: one pass over
\* the days, with the peak and the fall so far.
DrawdownStep(direction, e, quotes, sofar, d) ==
  LET worth == Worth(direction, e, quotes[d].close)
      peak == IF Less(sofar.peak, worth) THEN worth ELSE sofar.peak
      fall == <<worth[1] * peak[2], worth[2] * peak[1]>>
  IN  [peak |-> peak, fall |-> IF Less(fall, sofar.fall) THEN fall ELSE sofar.fall]
MaxDrawdown(direction, e, quotes, days) ==
  FoldLeft(LAMBDA sofar, d : DrawdownStep(direction, e, quotes, sofar, d),
           [peak |-> One, fall |-> One], SetToSortSeq(days, <)).fall

\* A win is a return above the threshold.
Returns(direction, quotes, days, threshold) ==
  LET e == quotes[Min(days)].open
      result == Worth(direction, e, quotes[Max(days)].close)
      best == BestDay(direction, e, quotes, days)
      worst == WorstDay(direction, e, quotes, days)
  IN  [return |-> result, win |-> Less(threshold, result),
       favorable |-> Worth(direction, e, BestPrice(direction, quotes[best])),
       adverse |-> Worth(direction, e, WorstPrice(direction, quotes[worst])),
       drawdown |-> MaxDrawdown(direction, e, quotes, days),
       bestDay |-> best, worstDay |-> worst]
=============================================================================
