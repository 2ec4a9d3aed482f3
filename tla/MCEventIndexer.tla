--------------------------- MODULE MCEventIndexer ---------------------------
(* Transactions for the indexer's runs.                                    *)
EXTENDS IndexQueries

Enter == [is |-> "invoke"]
Leave == [is |-> "exit"]
Data(e) == [is |-> "data", event |-> e]

FillOf(m, maker, makerSide, taker, takerSide, price, quantity, id, at) ==
  [type |-> "fill", market |-> m, maker |-> maker, makerSide |-> makerSide, taker |-> taker,
   takerSide |-> takerSide, price |-> price, quantity |-> quantity, makerOrderId |-> id,
   timestamp |-> at]
SettlementOf(m, t, result, at) ==
  [type |-> "settlement", market |-> m, ticker |-> t, outcome |-> result, timestamp |-> at]
Other == [type |-> "crank_redeem"]

(* An order that takes two fills, a swap and a merge, and one the next day.*)
Trades == [err |-> FALSE, logs |-> <<Enter,
  Data(FillOf("m1", "w1", 0, "w2", 1, 40, 2, 1, 84)),
  Data(FillOf("m1", "w3", 2, "w2", 1, 30, 1, 2, 84)), Leave,
  Enter, Data(FillOf("m1", "w2", 1, "w3", 0, 60, 1, 3, 110)), Leave>>]
(* A settlement, and data of another program behind it.                    *)
Settles == [err |-> FALSE, logs |-> <<Enter, Data(SettlementOf("m1", "AAPL", 1, 90)), Leave,
  Data(FillOf("m1", "w1", 0, "w2", 1, 40, 2, 1, 70))>>]
(* A mint: nothing to index.                                               *)
NoEvents == [err |-> FALSE, logs |-> <<Enter, Data(Other), Leave>>]
Kinds == {Trades, Settles, NoEvents}
=============================================================================
