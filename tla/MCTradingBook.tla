--------------------------- MODULE MCTradingBook ---------------------------
(* A small account: two boards with a unit of two and of three, one price  *)
(* below the last price, ratios in tenths.                                 *)
EXTENDS TradingBook

SmallUnits == [SH_MAIN |-> [minBuy |-> 2, buyStep |-> 2, minSell |-> 2, sellStep |-> 2, max |-> 20],
               STAR |-> [minBuy |-> 3, buyStep |-> 1, minSell |-> 3, sellStep |-> 1, max |-> 18]]

SmallRisk == [assets |-> {"STOCK"}, markets |-> ChinaMarkets, boards |-> {"SH_MAIN", "STAR"},
              single |-> 7, symbol |-> 7, total |-> 7, reserve |-> 3, deviation |-> 1,
              positions |-> 2, orders |-> 3, turnover |-> 10, loss |-> 2]
=============================================================================
