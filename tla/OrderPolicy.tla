---------------------------- MODULE OrderPolicy ----------------------------
(***************************************************************************)
(* What may be ordered and how much: the instruments, the board's trading  *)
(* unit, the size of an order and the ordered risk checks that approve or  *)
(* reject an intent.  The price is an input.                               *)
(*                                                                         *)
(* Money, prices and volumes are integers.  A ratio is an integer in units *)
(* of 1/Scale; the code keeps eight decimal places.  A security's code is  *)
(* its leading digits.                                                     *)
(***************************************************************************)
EXTENDS Integers, Sequences, FiniteSets, FiniteSetsExt

CONSTANTS Scale,     \* a ratio of one
          Units,     \* the trading unit of each board
          Risk       \* trading.risk: the limits, ratios in 1/Scale

Boards == {"SH_MAIN", "SZ_MAIN", "CHINEXT", "STAR", "ETF"}

ASSUME PolicyAssumption ==
  /\ Scale \in Nat \ {0}
  /\ \A b \in DOMAIN Units :
       {Units[b].minBuy, Units[b].buyStep, Units[b].minSell, Units[b].sellStep} \subseteq Nat \ {0}

-----------------------------------------------------------------------------
(* Instruments.                                                            *)

Listed == [SH |-> {"600", "601", "603", "605", "688", "689", "51", "52", "56", "58"},
           SZ |-> {"000", "001", "002", "003", "300", "301", "159"}]
Funds == {"51", "52", "56", "58", "159"}
ChinaMarkets == {"SH", "SZ"}
Invalid == [board |-> "UNKNOWN"]

InferAssetType(code) == IF code \in Funds THEN "ETF" ELSE "STOCK"

\* By the first digit, whether or not the exchange lists the prefix.
InferMarket(code) ==
  IF code \in Listed.SH \union {"9"} THEN "SH"
  ELSE IF code \in Listed.SZ \union {"2"} THEN "SZ" ELSE ""

BoardType(market, code) ==
  CASE code \in Funds -> "ETF"
    [] market = "SZ" /\ code \in {"300", "301"} -> "CHINEXT"
    [] market = "SH" /\ code \in {"688", "689"} -> "STAR"
    [] OTHER -> market \o "_MAIN"

\* A symbol, the market its suffix names, and what its sender says of it ("": nothing).
Parse(code, suffix, market, asset) ==
  LET m == IF market # "" THEN market ELSE IF suffix # "" THEN suffix ELSE InferMarket(code)
      a == IF asset # "" THEN asset ELSE InferAssetType(code)
  IN  IF /\ suffix \in ChinaMarkets \union {""} /\ m \in ChinaMarkets
         /\ suffix # "" => suffix = m
         /\ code \in Listed[m] /\ a = InferAssetType(code)
      THEN [code |-> code, market |-> m, asset |-> a, board |-> BoardType(m, code)]
      ELSE Invalid

-----------------------------------------------------------------------------
(* The trading unit.  A result of 0 is an error.                           *)

StepsUp(v, least, step) == least + ((v - least) \div step) * step
Lower(a, b) == IF a < b THEN a ELSE b

RoundBuyVolume(raw, u) ==
  IF raw < u.minBuy THEN 0 ELSE StepsUp(Lower(raw, u.max), u.minBuy, u.buyStep)

\* All that is left may be sold whatever its size; a part may not.
RoundSellVolume(target, available, u) ==
  LET t == IF target <= 0 \/ target > available THEN available ELSE target IN
  IF available <= 0 THEN 0
  ELSE IF t = available /\ (available <= u.max \/ available < u.minSell) THEN t
  ELSE IF t < u.minSell THEN 0
  ELSE StepsUp(Lower(t, u.max), u.minSell, u.sellStep)

-----------------------------------------------------------------------------
(* The size.                                                               *)

\* A ratio rounded to the places that are kept.
SafeRatio(n, d) == IF d <= 0 THEN 0 ELSE (2 * Scale * n + d) \div (2 * d)

\* Mutant: the cash reserve is not kept.
BudgetOfRatios(a, r) ==
  LET effective == Min({r, Risk.single, Risk.symbol - a.symbolRatio, Risk.total - a.totalRatio})
  IN  IF effective <= 0 THEN 0 ELSE a.nav * effective

\* What one order may cost, in 1/Scale; the account is a, the wish r.
Budget(a, r) ==
  LET effective == Min({r, Risk.single, Risk.symbol - a.symbolRatio, Risk.total - a.totalRatio})
  IN  IF effective <= 0 THEN 0
      ELSE Lower(a.nav * effective, Scale * a.cash - a.nav * Risk.reserve)

TradingVolume(side, price, a, r, proposed, u) ==
  IF side = "SELL"
  THEN LET v == IF proposed > 0 THEN Lower(proposed, a.available) ELSE a.available
       IN  IF v <= 0 THEN 0 ELSE RoundSellVolume(v, a.available, u)
  ELSE LET b == Budget(a, r)
           v == b \div (Scale * price)
       IN  IF b <= 0 \/ (proposed > 0 /\ RoundBuyVolume(proposed, u) # proposed) THEN 0
           ELSE RoundBuyVolume(IF proposed > 0 THEN Lower(proposed, v) ELSE v, u)

-----------------------------------------------------------------------------
(* The checks, in their order; the first that fails rejects the intent.    *)

Distance(p, q) == IF p > q THEN p - q ELSE q - p

\* i: the intent and its limit price; a: the account as the policy sees it.
RiskChecks(i, a) ==
  LET volume == TradingVolume(i.side, i.price, a, i.ratio, i.volume, Units[i.board])
      buys == i.side = "BUY"
  IN  <<[code |-> "TRADING_ENABLED", ok |-> ~a.killed],
        [code |-> "SIMULATION_ONLY", ok |-> a.simulation],
        [code |-> "ASSET_WHITELIST", ok |-> i.asset \in Risk.assets /\ i.market \in Risk.markets],
        [code |-> "BOARD_WHITELIST", ok |-> i.uat \/ i.board \in Risk.boards],
        [code |-> "NO_PRICE_LIMIT_PERIOD", ok |-> ~(buys /\ a.newlyListed)],
        [code |-> "TRADING_UNIT", ok |-> i.board \in DOMAIN Units],
        [code |-> "SNAPSHOT_FRESH", ok |-> a.ready],
        [code |-> "TRADING_SESSION", ok |-> a.open],
        [code |-> "T1_SELLABLE", ok |-> buys \/ (a.available > 0 /\ i.volume <= a.available)],
        [code |-> "PRICE_BAND", ok |-> Scale * Distance(i.price, a.last) <= Risk.deviation * a.last],
        [code |-> "POSITION_LIMIT", ok |-> volume > 0 /\ (a.held > 0 \/ a.positions < Risk.positions)],
        [code |-> "DAILY_LIMIT", ok |-> buys => /\ a.orders < Risk.orders
                                                /\ a.turnoverRatio < Risk.turnover
                                                /\ a.lossRatio < Risk.loss],
        [code |-> "DUPLICATE_COOLDOWN", ok |-> ~a.duplicate]>>

Evaluate(i, a) ==
  LET checks == RiskChecks(i, a)
      failed == {k \in DOMAIN checks : ~checks[k].ok}
  IN  IF failed = {}
      THEN [approved |-> TRUE, code |-> "",
            volume |-> TradingVolume(i.side, i.price, a, i.ratio, i.volume, Units[i.board])]
      ELSE [approved |-> FALSE, code |-> checks[Min(failed)].code, volume |-> 0]
=============================================================================
