----------------------------- MODULE StressDay -----------------------------
(***************************************************************************)
(* One day of the stress test (act 3): a driver that seeds a market, lets  *)
(* agents trade one after the other, settles after the close, turns the    *)
(* cranks, drains the agents' tokens, closes the market and verifies.      *)
(*                                                                         *)
(* An agent reads the book and its balances and sends its transactions one *)
(* by one; the rest of the world acts in between, so each transaction is   *)
(* made of what was read before it.  A refused one is counted and the agent*)
(* goes on.                                                                *)
(***************************************************************************)
EXTENDS WebTrader

CONSTANTS
  MarketMakers, Directionals, Scalpers,  (* the agents' wallets            *)
  Roster,         (* all agents in the order the driver visits them        *)
  MintQty,        (* DEFAULT_MINT_QUANTITY                                 *)
  Offsets,        (* how far from the middle a maker quotes: 2, 4, 6       *)
  Middles,        (* the maker's random middle: 40 to 59                   *)
  DirPrices,      (* the random limits of a directional agent              *)
  AgentMaxFills,  (* MAX_FILLS                                             *)
  CancelBatch,    (* CRANK_CANCEL_BATCH_SIZE                               *)
  RedeemBatch,    (* CRANK_REDEEM_MAX_USERS                                *)
  MaxActs         (* agent turns in the trading window                     *)

Agents == MarketMakers \cup Directionals \cup Scalpers

ASSUME StressAssumption ==
  /\ Agents \subseteq Users \ {Trader}
  /\ ToSet(Roster) = Agents
  /\ {MintQty, AgentMaxFills, CancelBatch, RedeemBatch} \subseteq Nat \ {0}
  /\ Middles \subseteq Prices /\ DirPrices \subseteq Prices

VARIABLES
  day,    (* where the driver is                                           *)
  act     (* the agent whose turn it is, and what it knows                 *)

stressVars == <<day, act>>

NoAct == [step |-> "none"]

StressInit(stage, acts) ==
  /\ day = [stage |-> stage, acts |-> acts, next |-> 1, batches |-> <<>>]
  /\ act = NoAct

GoTo(stage) == day' = [day EXCEPT !.stage = stage, !.next = 1]
Stay == UNCHANGED day

Least(a, b) == IF a <= b THEN a ELSE b
Greatest(a, b) == IF a >= b THEN a ELSE b
TopPrice == Dollar - 1

OrdersOf(side) == SelectSeq(Seen(book.levels), LAMBDA o : o.side = side)

(* The first of the orders, whether or not the new order reaches them.     *)
AccountsOf(orders, token) ==
  LET makers == AtMost(orders, AgentMaxFills) IN [k \in DOMAIN makers |-> <<makers[k].owner, token>>]

Bid(side, price, qty, maxFills, accounts) ==
  [side |-> side, price |-> price, qty |-> qty, isLimit |-> TRUE, maxFills |-> maxFills,
   accounts |-> accounts]

(* An order that takes no fills, so it rests even if it crosses.           *)
RestingOnly(side, price, qty) == Bid(side, price, qty, 0, <<>>)

-----------------------------------------------------------------------------
(* Market maker: mint if it has nothing, asks above the middle, and then,  *)
(* if no Yes is left, bids below it.                                       *)

MakerTurn(u) ==
  \E mid \in Middles :
    /\ act' = [who |-> u, mid |-> mid, i |-> 1, yes |-> yes[u], no |-> no[u],
               step |-> IF yes[u] = 0 /\ no[u] = 0 THEN "mint"
                        ELSE IF yes[u] > 0 THEN "asks" ELSE "bids"]
    /\ Nothing

MakerMints ==
  /\ act.step = "mint" /\ act.who \in MarketMakers
  /\ IF ENABLED MintPair(act.who, MintQty)
     THEN /\ MintPair(act.who, MintQty)
          /\ act' = [act EXCEPT !.step = "asks", !.yes = yes'[act.who], !.no = no'[act.who]]
     ELSE Nothing /\ act' = NoAct
  /\ Stay

MakerAsks ==
  /\ act.step = "asks"
  /\ TryToPlace(act.who, RestingOnly(YesAsk, Least(TopPrice, act.mid + Offsets[act.i]), Unit))
  /\ act' = IF act.i < Len(Offsets) THEN [act EXCEPT !.i = @ + 1]
            ELSE [act EXCEPT !.step = "bids", !.i = 1, !.yes = yes'[act.who]]
  /\ Stay

(* No balance is read again: the No tokens are those of the beginning.     *)
MakerBids ==
  LET price == Greatest(1, act.mid - Offsets[act.i])
  IN  /\ act.step = "bids"
      /\ Stay
      /\ IF act.yes > 0
         THEN Nothing /\ act' = NoAct
         ELSE /\ TryToPlace(act.who,
                   RestingOnly(IF act.no > 0 THEN NoBid ELSE UsdcBid, price, Unit))
              /\ act' = IF act.i < Len(Offsets) THEN [act EXCEPT !.i = @ + 1] ELSE NoAct

-----------------------------------------------------------------------------
(* Directional agent: buys Yes, or mints and sells the Yes; sometimes it   *)
(* sells the Yes tokens it has.                                            *)

SellYesOf(u, price, balance) ==
  Bid(YesAsk, price, Least(balance, Unit), AgentMaxFills, AccountsOf(OrdersOf(UsdcBid), "yes"))

Bullish(u) ==
  /\ no[u] = 0
  /\ \E price \in DirPrices :
       act' = [who |-> u, step |-> "trade",
               order |-> Bid(UsdcBid, price, Unit, AgentMaxFills, AccountsOf(OrdersOf(YesAsk), "usdc"))]
  /\ Nothing

Bearish(u) ==
  /\ Nothing
  /\ \/ /\ no[u] = 0 /\ yes[u] = 0
        /\ act' = [who |-> u, step |-> "mint"]
     \/ /\ no[u] > 0 /\ yes[u] > 0
        /\ \E price \in DirPrices :
             act' = [who |-> u, step |-> "trade", order |-> SellYesOf(u, price, yes[u])]
     \/ /\ no[u] > 0 /\ yes[u] = 0
        /\ act' = [who |-> u, step |-> "exit"]

DirectionalTurn(u) == Bullish(u) \/ Bearish(u)

DirectionalMints ==
  /\ act.step = "mint" /\ act.who \in Directionals
  /\ IF ENABLED MintPair(act.who, MintQty)
     THEN /\ MintPair(act.who, MintQty)
          /\ \E price \in DirPrices :
               act' = [who |-> act.who, step |-> "trade", order |-> SellYesOf(act.who, price, MintQty)]
     ELSE Nothing /\ act' = NoAct
  /\ Stay

DirectionalTrades ==
  /\ act.step = "trade" /\ act.who \in Directionals
  /\ TryToPlace(act.who, act.order)
  /\ act' = [who |-> act.who, step |-> "exit"]
  /\ Stay

(* Most of the time nothing, else a last sale.                             *)
DirectionalExits ==
  /\ act.step = "exit"
  /\ Nothing
  /\ Stay
  /\ \/ act' = NoAct
     \/ /\ yes[act.who] > 0
        /\ \E price \in DirPrices :
             act' = [who |-> act.who, step |-> "leave",
                     order |-> SellYesOf(act.who, price, yes[act.who])]

DirectionalLeaves ==
  /\ act.step = "leave"
  /\ TryToPlace(act.who, act.order)
  /\ act' = NoAct
  /\ Stay

-----------------------------------------------------------------------------
(* Scalper: crosses the spread, lists the Yes tokens higher, and sells No  *)
(* tokens below, all by the best ask it saw in the beginning.              *)

ScalperTurn(u) ==
  LET asks == OrdersOf(YesAsk)
      best == IF asks = <<>> THEN 0 ELSE asks[1].price
  IN  /\ act' = IF asks = <<>> THEN NoAct
                ELSE IF no[u] = 0
                THEN [who |-> u, step |-> "cross", best |-> best,
                      order |-> Bid(UsdcBid, Least(TopPrice, best + 1), Unit, AgentMaxFills,
                                    AccountsOf(asks, "usdc"))]
                ELSE [who |-> u, step |-> "relist", best |-> best, yes |-> yes[u]]
      /\ Nothing

ScalperCrosses ==
  /\ act.step = "cross"
  /\ TryToPlace(act.who, act.order)
  /\ act' = [who |-> act.who, step |-> "relist", best |-> act.best, yes |-> yes'[act.who]]
  /\ Stay

ScalperRelists ==
  /\ act.step = "relist"
  /\ IF act.yes > 0
     THEN TryToPlace(act.who,
            RestingOnly(YesAsk, Least(TopPrice, act.best + 2), Least(act.yes, Unit)))
     ELSE Nothing
  /\ act' = [who |-> act.who, step |-> "merge", best |-> act.best, yes |-> yes'[act.who],
             no |-> no'[act.who]]
  /\ Stay

ScalperMerges ==
  /\ act.step = "merge"
  /\ IF act.no > 0 /\ act.yes = 0
     THEN TryToPlace(act.who,
            RestingOnly(NoBid, Greatest(1, act.best - 5), Least(act.no, Unit)))
     ELSE Nothing
  /\ act' = NoAct
  /\ Stay

AgentMoves ==
  \/ MakerMints \/ MakerAsks \/ MakerBids
  \/ DirectionalMints \/ DirectionalTrades \/ DirectionalExits \/ DirectionalLeaves
  \/ ScalperCrosses \/ ScalperRelists \/ ScalperMerges

TurnOf(u) ==
  \/ u \in MarketMakers /\ MakerTurn(u)
  \/ u \in Directionals /\ DirectionalTurn(u)
  \/ u \in Scalpers /\ ScalperTurn(u)

-----------------------------------------------------------------------------
(* The driver.                                                             *)

At(stage) == day.stage = stage /\ act = NoAct
Idle == UNCHANGED act
Agent(i) == Roster[i]

(* The makers, one after the other, before anyone trades.                  *)
Seed ==
  /\ At("start")
  /\ IF day.next > Len(Roster)
     THEN GoTo("trade") /\ Idle /\ Nothing
     ELSE /\ day' = [day EXCEPT !.next = @ + 1]
          /\ IF Agent(day.next) \in MarketMakers
             THEN MakerTurn(Agent(day.next)) ELSE Idle /\ Nothing

(* A random agent at a time, as long as the trading window lasts.          *)
TradingTurn ==
  /\ At("trade")
  /\ day.acts < MaxActs
  /\ \E u \in Agents : TurnOf(u)
  /\ day' = [day EXCEPT !.acts = @ + 1]

(* On the second day the circuit breaker is tried out.                     *)
EndTrading ==
  /\ At("trade")
  /\ GoTo("breaker") \/ GoTo("wait")
  /\ Idle
  /\ Nothing

(* injectCircuitBreaker: trip it, and resume.                              *)
InjectCircuitBreaker ==
  /\ At("breaker")
  /\ IF paused THEN Unpause /\ GoTo("wait") ELSE Pause /\ Stay
  /\ Idle

(* settleDay, after the close: a new price for the feed, then the call.    *)
SettleDay ==
  /\ act = NoAct
  /\ Idle
  /\ \/ /\ day.stage = "wait" /\ now >= Close
        /\ \E price \in FeedPrices, age \in FeedAges : UpdatePrice(price, age, TRUE)
        /\ GoTo("settle")
     \/ /\ day.stage = "settle"
        /\ IF ENABLED SettleMarket THEN SettleMarket ELSE Nothing
        /\ GoTo("override")

(* *Slip*: one batch is taken to be enough.                                *)
BatchesFirst(orders) == IF orders = 0 THEN <<>> ELSE <<Least(orders, CancelBatch)>>

(* The transactions the cranked orders are spread over.                    *)
Batches(orders) ==
  [i \in 1 .. (orders + CancelBatch - 1) \div CancelBatch |->
     Least(CancelBatch, orders - (i - 1) * CancelBatch)]

(* crankCancelDay: the book is read once, then one batch goes after the    *)
(* other; one that is refused ends the crank.                              *)
ReadBookToCrank ==
  /\ At("override")
  /\ Settled => OverrideOver
  /\ day' = [day EXCEPT !.stage = "crank", !.batches = Batches(Len(Seen(book.levels)))]
  /\ Idle
  /\ Nothing

CrankCancelDay ==
  /\ At("crank")
  /\ Idle
  /\ IF day.batches # <<>> /\ ENABLED CrankCancel(Head(day.batches))
     THEN /\ CrankCancel(Head(day.batches))
          /\ day' = [day EXCEPT !.batches = Tail(@)]
     ELSE /\ Nothing
          /\ day' = [day EXCEPT !.stage = "approve", !.next = 1, !.batches = <<>>]

(* crankRedeemDay: the first holders of winning tokens make the market     *)
(* their delegate, and are redeemed in one transaction.                    *)
Holders == AtMost(SelectSeq(Roster, LAMBDA u : Winnings(u) > 0), RedeemBatch)

ApproveHolders ==
  /\ At("approve")
  /\ Idle
  /\ IF Settled
     THEN /\ delegated' = delegated \cup ToSet(Holders)
          /\ day' = [day EXCEPT !.stage = "redeem", !.batches = Holders]
     ELSE /\ UNCHANGED delegated
          /\ GoTo("grace")
  /\ fills' = <<>>
  /\ UNCHANGED <<now, paused, book, usdc, yes, no, pot, supply, market, obligations, feed>>

CrankRedeemDay ==
  /\ At("redeem")
  /\ Idle
  /\ IF ENABLED CrankRedeem(ToSet(day.batches)) THEN CrankRedeem(ToSet(day.batches)) ELSE Nothing
  /\ day' = [day EXCEPT !.stage = "pairs", !.next = 1, !.batches = <<>>]

(* bulkRedeemDay: each agent burns its pairs, then redeems what is left,   *)
(* unless that is less than a token; a refusal ends its turn.              *)
Pairs(u) == Least(yes[u], no[u])

BurnPairs ==
  /\ At("pairs")
  /\ Idle
  /\ IF day.next > Len(Roster)
     THEN GoTo("grace") /\ Nothing
     ELSE LET u == Agent(day.next)
              burns == Pairs(u) >= Unit
              runs == ENABLED RedeemPair(u, Pairs(u))
          IN  /\ IF burns /\ runs THEN RedeemPair(u, Pairs(u)) ELSE Nothing
              /\ day' = IF burns => runs THEN [day EXCEPT !.stage = "winner"]
                        ELSE [day EXCEPT !.next = @ + 1]

RedeemRest ==
  /\ At("winner")
  /\ Idle
  /\ LET u == Agent(day.next) IN
     IF Winnings(u) >= Unit /\ ENABLED RedeemWinner(u, Winnings(u))
     THEN RedeemWinner(u, Winnings(u)) ELSE Nothing
  /\ day' = [day EXCEPT !.stage = "pairs", !.next = @ + 1]

(* closeDay; the program refuses while anybody holds a token.              *)
CloseDay ==
  /\ At("grace")
  /\ Idle
  /\ IF ENABLED CloseMarket THEN CloseMarket ELSE Nothing
  /\ GoTo("verified")

DriverMoves ==
  \/ Seed \/ TradingTurn \/ EndTrading \/ InjectCircuitBreaker \/ SettleDay
  \/ ReadBookToCrank \/ CrankCancelDay \/ ApproveHolders \/ CrankRedeemDay
  \/ BurnPairs \/ RedeemRest \/ CloseDay

(* The clock moves while the driver sleeps or trades.                      *)
DriverWaits ==
  \/ day.stage \in {"trade", "grace"}
  \/ day.stage = "wait" /\ now < Close
  \/ day.stage = "override" /\ Settled /\ ~OverrideOver

-----------------------------------------------------------------------------
(* verifyDayEnd: the market is settled, or gone; a settled market has no   *)
(* active orders.  And what crank and drain are for: no agent is left with *)
(* a whole winning token, whatever it did during the day.                  *)
VerifyDayEnd ==
  day.stage = "verified" =>
    /\ Settled
    /\ ~HasActiveOrders(book.levels)
    /\ \A u \in Agents : Winnings(u) < Unit
=============================================================================
