----------------------------- MODULE ClientBook -----------------------------
(***************************************************************************)
(* What the clients of a market make of its order book.  The web           *)
(* application, the bot, the scripts and the agents of the stress test each*)
(* parse the account's bytes, show or sort the orders they find, and work  *)
(* out from them which token accounts a transaction has to name: the       *)
(* program pays the k-th fill into the k-th account, or refuses the whole  *)
(* transaction.                                                            *)
(***************************************************************************)
EXTENDS Market

(* The parsers walk the levels from the lowest price up and the slots of a *)
(* level in their order, and keep the active ones.                         *)
Seen(levels) ==
  LET walk == CrankOrder(levels)
      shown(at) == [owner |-> OrderAt(levels, at).owner, id |-> OrderAt(levels, at).id,
                    side |-> OrderAt(levels, at).side, qty |-> OrderAt(levels, at).qty,
                    price |-> at[1]]
  IN  [i \in DOMAIN walk |-> shown(walk[i])]

Quantity(orders) == SumOver(DOMAIN orders, LAMBDA i : orders[i].qty)

-----------------------------------------------------------------------------
(* The two views of one book.                                              *)

(* The quantity of one side at each price of the book.                     *)
Depth(orders, side) ==
  [p \in Prices |-> SumOver({i \in DOMAIN orders : orders[i].side = side /\ orders[i].price = p},
                            LAMBDA i : orders[i].qty)]

(* At the rest of the dollar.                                              *)
Inverted(depth) == [p \in Prices |-> depth[Dollar - p]]

(* Yes tokens: USDC bids and Yes asks as they are; No-backed bids are left *)
(* out, although a Yes seller trades with them too.                        *)
YesView(orders) == [bids |-> Depth(orders, UsdcBid), asks |-> Depth(orders, YesAsk)]

(* Slip: a bid for Yes is offered to the buyer of No at its own price.     *)
NoViewUninverted(orders) ==
  LET natives == Depth(orders, NoBid)
      bidders == Depth(orders, UsdcBid)
  IN  [bids |-> Inverted(Depth(orders, YesAsk)), asks |-> [p \in Prices |-> natives[p] + bidders[p]]]

(* No tokens: a Yes ask is a bid for No at the rest of the dollar, a       *)
(* No-backed bid an offer of No at its price, and so is a USDC bid, at the *)
(* rest of the dollar.                                                     *)
NoView(orders) ==
  LET natives == Depth(orders, NoBid)
      bidders == Inverted(Depth(orders, UsdcBid))
  IN  [bids |-> Inverted(Depth(orders, YesAsk)), asks |-> [p \in Prices |-> natives[p] + bidders[p]]]

Between(depth, from, to) ==
  SumOver(from .. to, LAMBDA p : depth[p])

(* Every quantity the two views show can be traded, and nothing that can be*)
(* traded is missing: a taker that accepts the prices up to (or down to) p *)
(* is filled for exactly what the view shows there.  Only the bids of the  *)
(* Yes view may show less, as they leave the No-backed bids out.           *)
DepthIsExecutable ==
  LET orders == Seen(book.levels)
      yesView == YesView(orders)
      noView == NoView(orders)
      everything == Quantity(orders) + MinOrder
      executable(side, limit) ==
        everything - MatchAgainstBook(book.levels, side, limit, everything, Len(orders)).remaining
  IN  \A p \in Prices :
        /\ Between(yesView.asks, 1, p) = executable(UsdcBid, p)
        /\ Between(noView.asks, 1, p) = executable(YesAsk, Dollar - p)
        /\ Between(noView.bids, p, Dollar - 1) = executable(NoBid, p)
        /\ Between(yesView.bids, p, Dollar - 1) <= executable(YesAsk, p)

-----------------------------------------------------------------------------
(* The accounts a transaction names.                                       *)

(* The orders a new order would trade with, as the web application sees it.*)
Matchable(side, limit, o) ==
  \/ side = UsdcBid /\ o.side = YesAsk /\ o.price <= limit
  \/ side = YesAsk /\ o.side = UsdcBid /\ o.price >= limit
  \/ side = YesAsk /\ o.side = NoBid /\ o.price <= Dollar - limit
  \/ side = NoBid /\ o.side = YesAsk /\ o.price <= Dollar - limit

(* Slip: the highest price first, whatever is taken.                       *)
HighestFirst(side, orders, i, j) ==
  IF orders[i].price # orders[j].price
  THEN orders[i].price > orders[j].price
  ELSE IF orders[i].side # orders[j].side THEN orders[i].side = UsdcBid ELSE i < j

(* Sorted by price alone: asks upwards, bids downwards, USDC bids before   *)
(* No-backed ones and otherwise in the order of the walk.                  *)
BestFirst(side, orders, i, j) ==
  IF orders[i].price # orders[j].price
  THEN IF side = YesAsk THEN orders[i].price > orders[j].price ELSE orders[i].price < orders[j].price
  ELSE IF orders[i].side # orders[j].side THEN orders[i].side = UsdcBid ELSE i < j

Matching(orders, side, limit) ==
  LET found == {i \in DOMAIN orders : Matchable(side, limit, orders[i])}
      sorted == InOrder(found, LAMBDA i, j : BestFirst(side, orders, i, j))
  IN  [k \in DOMAIN sorted |-> orders[sorted[k]]]

(* A Yes seller pays a USDC bidder in Yes tokens; every other maker is paid*)
(* in USDC.                                                                *)
PaidIn(side, makerSide) == IF side = YesAsk /\ makerSide = UsdcBid THEN "yes" ELSE "usdc"

AtMost(s, n) == SubSeq(s, 1, IF Len(s) < n THEN Len(s) ELSE n)

MakerAccounts(orders, side, limit, maxFills) ==
  LET makers == AtMost(Matching(orders, side, limit), maxFills)
  IN  [k \in DOMAIN makers |-> <<makers[k].owner, PaidIn(side, makers[k].side)>>]

(* On each level the crossing orders stand in the order of their age, the  *)
(* USDC bids before the No-backed ones: the walk gives away no order's age.*)
StandByAge(levels, side, limit) ==
  \A a, b \in {at \in Resting(levels) : Crosses(side, limit, at[1], OrderAt(levels, at))} :
    a[1] = b[1] =>
      (ScannedBefore(levels, side, a, b) <=>
         IF OrderAt(levels, a).side # OrderAt(levels, b).side
         THEN OrderAt(levels, a).side = UsdcBid
         ELSE a[2] < b[2])

(* The program takes the accounts of the fills one after the other.        *)
NamedInOrder(fs, side, accounts) ==
  \A k \in DOMAIN fs :
    /\ k <= Len(accounts)
    /\ accounts[k] = <<fs[k].maker, PaidIn(side, fs[k].makerSide)>>

(* place_order with the accounts the client named.                         *)
PlaceNaming(u, order) ==
  /\ PlaceOrder(u, order.side, order.price, order.qty, order.isLimit, order.maxFills)
  /\ NamedInOrder(MatchAgainstBook(book.levels, order.side, order.price, order.qty,
                              order.maxFills).fills,
             order.side, order.accounts)

(* No instruction of the program took effect.                              *)
Nothing ==
  /\ fills' = <<>>
  /\ UNCHANGED <<now, paused, book, wallets, pot, supply, market, obligations, feed>>

(* A client that tries learns from the answer whether anything happened.   *)
TryToPlace(u, order) ==
  IF ENABLED PlaceNaming(u, order) THEN PlaceNaming(u, order) ELSE Nothing
=============================================================================
