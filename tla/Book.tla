-------------------------------- MODULE Book --------------------------------
(***************************************************************************)
(* What the order book promises, whoever pays for it: an order, a          *)
(* cancellation or a batch of the crank is one step on the book of         *)
(* OrderBook.  Market adds the money; BookAccount is the engine as it      *)
(* works, slot by slot on the account's bytes.                             *)
(***************************************************************************)
EXTENDS OrderBook

CONSTANTS
  Owners,        (* the wallets that place orders                          *)
  OrderQtys,     (* quantities asked for                                   *)
  LimitCaps,     (* values of max_fills in limit orders                    *)
  MarketCaps,    (* and in market orders                                   *)
  CrankBatches,  (* values of crank_cancel's batch_size                    *)
  LastTick       (* the clock of the model stops here                      *)

VARIABLES
  now,           (* the cluster clock                                      *)
  trading,       (* the market is not settled yet                          *)
  book,          (* the order book                                         *)
  fills          (* FillEvents of the last instruction                     *)

vars == <<now, trading, book, fills>>

Init == now = 1 /\ trading = TRUE /\ book = EmptyBook /\ fills = <<>>

FillEvent(u, side, f) ==
  [maker |-> f.maker, taker |-> u, price |-> f.price, qty |-> f.qty, id |-> f.id,
   makerSide |-> f.makerSide, takerSide |-> side, isMerge |-> f.isMerge]

(* place_order, as far as the book goes.                                   *)
PlaceOrder(u, side, price, qty, isLimit, maxFills) ==
  LET m == MatchAgainstBook(book.levels, side, price, qty, maxFills)
      matched == [book EXCEPT !.levels = AfterFills(@, m.fills)]
      wantsRest == isLimit /\ m.remaining >= MinOrder
  IN  /\ trading
      /\ qty >= MinOrder
      /\ m.fills # <<>> \/ isLimit
      /\ wantsRest => CanAllocate(matched, price)
      /\ book' = IF wantsRest
                 THEN RestOrder(matched, u, side, price, m.remaining, now)
                 ELSE matched
      /\ fills' = [i \in DOMAIN m.fills |-> FillEvent(u, side, m.fills[i])]
      /\ UNCHANGED <<now, trading>>

(* cancel_order.                                                           *)
CancelOrder(u, at) ==
  /\ trading
  /\ at \in Resting(book.levels)
  /\ OrderAt(book.levels, at).owner = u
  /\ book' = [book EXCEPT !.levels = RemoveOrder(@, at)]
  /\ fills' = <<>>
  /\ UNCHANGED <<now, trading>>

(* crank_cancel, after the settlement.                                     *)
CrankCancel(n) ==
  LET batch == CrankBatch(book.levels, n)
  IN  /\ ~trading
      /\ batch # <<>>
      /\ book' = [book EXCEPT !.levels = AfterCrank(@, batch, n)]
      /\ fills' = <<>>
      /\ UNCHANGED <<now, trading>>

(* The market is settled, the clock ticks.                                 *)
Settle == trading /\ trading' = FALSE /\ fills' = <<>> /\ UNCHANGED <<now, book>>
Tick == now < LastTick /\ now' = now + 1 /\ fills' = <<>> /\ UNCHANGED <<trading, book>>

Next ==
  \/ \E u \in Owners, side \in Sides, price \in Prices, q \in OrderQtys,
        isLimit \in BOOLEAN :
       \E n \in IF isLimit THEN LimitCaps ELSE MarketCaps : PlaceOrder(u, side, price, q, isLimit, n)
  \/ \E u \in Owners, at \in Resting(book.levels) : CancelOrder(u, at)
  \/ \E n \in CrankBatches : CrankCancel(n)
  \/ Settle
  \/ Tick

Spec == Init /\ [][Next]_vars

-----------------------------------------------------------------------------
(* The ids of an ask and a bid that could have traded: a USDC bid at or    *)
(* above the ask, or a No seller that wants, with the ask, at most a dollar*)
Crossed(levels) ==
  {<<OrderAt(levels, pair[1]).id, OrderAt(levels, pair[2]).id>> :
     pair \in {ab \in Resting(levels) \X Resting(levels) :
       /\ OrderAt(levels, ab[1]).side = YesAsk
       /\ CASE OrderAt(levels, ab[2]).side = UsdcBid -> ab[1][1] <= ab[2][1]
            [] OrderAt(levels, ab[2]).side = NoBid   -> ab[1][1] + ab[2][1] <= Dollar
            [] OTHER -> FALSE}}

(* The orders at these places are the same before and after the step.      *)
Kept(at) ==
  /\ at \in Resting(book.levels) \cap Resting(book'.levels)
  /\ OrderAt(book.levels, at).id = OrderAt(book'.levels, at).id

(* A fill passes over an older order of its side and price that is left on *)
(* the book.                                                               *)
OlderPassedOver ==
  \E k \in DOMAIN fills' : \E a, b \in Resting(book.levels) :
    LET taken == OrderAt(book.levels, a)
        left == OrderAt(book.levels, b)
    IN  /\ taken.id = fills'[k].id
        /\ Kept(b)
        /\ a[1] = b[1] /\ taken.side = left.side
        /\ left.ts < taken.ts

(* What a taker of the given side gets out of trading with an order at p,  *)
(* in cents per token: less paid for Yes, more received for Yes or No.     *)
TakerValue(takerSide, makerSide, p) ==
  IF takerSide = YesAsk /\ makerSide = UsdcBid THEN p ELSE Dollar - p

(* A fill passes over an order of the maker's side that is better for the  *)
(* taker and is left on the book.                                          *)
BetterPassedOver(sides) ==
  \E k \in DOMAIN fills' : \E b \in Resting(book.levels) :
    LET f == fills'[k]
        left == OrderAt(book.levels, b)
    IN  /\ Kept(b)
        /\ f.makerSide \in sides /\ left.side = f.makerSide
        /\ TakerValue(f.takerSide, left.side, b[1]) > TakerValue(f.takerSide, left.side, f.price)
=============================================================================
