---------------------------- MODULE MarketProofs ----------------------------
(***************************************************************************)
(* What is proved of a market, for every number of users, price, size of   *)
(* book, order, window and number of overrides:                            *)
(*  - its settlement discipline: the override window is counted exactly,   *)
(*    and an outcome somebody was paid for is never turned;                *)
(*  - its money: no instruction creates or destroys any, and the vault     *)
(*    backs every token that is worth a dollar;                            *)
(*  - what it is owed after settlement, and by the counter they share;     *)
(*  - the orders of its book: each has an id of its own;                   *)
(*  - its escrows: whatever is filled, improved, merged or refunded, every *)
(*    resting order can be given back what it locked;                      *)
(*  - that it implements MarketVault, step by step;                        *)
(*  - its makers, who are paid the price they asked for;                   *)
(*  - its depth as clients show it, which orders can trade with.           *)
(* The invariants are proved one on top of the other: SettlementInv, then  *)
(* MoneyInv, then Covered, Counted and Backed.                             *)
(***************************************************************************)
EXTENDS MarketRefinement, ClientBook, OrderBookProofs

(* The StrikeMarket account keeps its fields.                              *)
MarketShape ==
  market = [minted |-> market.minted, redeemed |-> market.redeemed,
            outcome |-> market.outcome, settledAt |-> market.settledAt,
            deadline |-> market.deadline, overrides |-> market.overrides,
            closed |-> market.closed]

ClockTypes ==
  /\ now \in Nat
  /\ market.settledAt \in Nat
  /\ market.deadline \in Nat
  /\ market.overrides \in Nat

(* Somebody burned tokens of one kind only: the outcome is final.          *)
UnequalIsFinal == supply.yes # supply.no => Settled /\ OverrideOver

SettlementInv == MarketShape /\ ClockTypes /\ UnequalIsFinal /\ OverrideBounded

(* What settlement reads and writes.                                       *)
settlementState == <<market.outcome, market.settledAt, market.deadline, market.overrides>>

(* The market account but for the counter `redeemed` or `minted`.          *)
SameSettlement == settlementState' = settlementState

(* A step that turns no outcome somebody was paid for.                     *)
OutcomeKept == supply.yes # supply.no => market'.outcome = market.outcome

(* An instruction that leaves the settlement alone and does not separate   *)
(* the two supplies keeps the invariant.                                   *)
LEMMA QuietStep ==
  ASSUME SettlementInv, MarketShape', SameSettlement, now' = now,
         supply.yes = supply.no => supply'.yes = supply'.no
  PROVE  SettlementInv' /\ OutcomeKept
BY DEF SettlementInv, ClockTypes, UnequalIsFinal, OverrideBounded, SameSettlement,
       settlementState, Settled, OverrideOver, OutcomeKept

(* So does one that burns tokens of one kind after the window.             *)
LEMMA FinalStep ==
  ASSUME SettlementInv, MarketShape', SameSettlement, now' = now, Settled, OverrideOver
  PROVE  SettlementInv' /\ OutcomeKept
BY DEF SettlementInv, ClockTypes, UnequalIsFinal, OverrideBounded, SameSettlement,
       settlementState, Settled, OverrideOver, OutcomeKept

(* A new market is unsettled and has no tokens.                            *)
LEMMA InitSettlement == Init => SettlementInv
BY DEF Init, SettlementInv, MarketShape, ClockTypes, UnequalIsFinal, OverrideBounded, Settled

(* An order merges as many Yes as No tokens.                               *)
LEMMA PlaceOrderStep ==
  ASSUME SettlementInv, NEW u \in Users, NEW side \in Sides, NEW price \in Prices,
         NEW q \in OrderQtys, NEW isLimit \in BOOLEAN, NEW n \in MaxFillsSet,
         PlaceOrder(u, side, price, q, isLimit, n)
  PROVE  SettlementInv' /\ OutcomeKept
<1>1. now' = now
  BY DEF PlaceOrder
<1>2. PICK deposit, fs, refund : SettleOrder(u, side, price, deposit, fs, refund)
  BY Zenon DEF PlaceOrder
<1> DEFINE merged == FillSum(fs, LAMBDA f : IF f.isMerge THEN f.qty ELSE 0)
<1>3. /\ supply' = [yes |-> supply.yes - merged, no |-> supply.no - merged]
      /\ market' = [market EXCEPT !.redeemed = @ + merged]
  BY <1>2, Zenon DEF SettleOrder
<1> HIDE DEF merged
<1>4. MarketShape' /\ SameSettlement
  BY <1>3 DEF SettlementInv, MarketShape, SameSettlement, settlementState
<1>5. supply.yes = supply.no => supply'.yes = supply'.no
  BY <1>3
<1> QED BY <1>1, <1>4, <1>5, QuietStep

(* So do mints and burns of pairs.                                         *)
LEMMA PairStep ==
  ASSUME SettlementInv, NEW u \in Users, NEW q \in OrderQtys,
         MintPair(u, q) \/ RedeemPair(u, q)
  PROVE  SettlementInv' /\ OutcomeKept
<1>1. MarketShape' /\ SameSettlement
  BY DEF SettlementInv, MarketShape, SameSettlement, settlementState, MintPair, RedeemPair
<1>2. now' = now /\ (supply.yes = supply.no => supply'.yes = supply'.no)
  BY DEF MintPair, RedeemPair
<1> QED BY <1>1, <1>2, QuietStep

(* Returning collateral, the pause switch and the feed do not concern it.  *)
LEMMA BystanderStep ==
  ASSUME SettlementInv, UNCHANGED <<now, supply, market>>
  PROVE  SettlementInv' /\ OutcomeKept
BY DEF SettlementInv, MarketShape, ClockTypes, UnequalIsFinal, OverrideBounded, Settled,
       OverrideOver, OutcomeKept

(* Winners are paid after the window.                                      *)
LEMMA PayStep ==
  ASSUME SettlementInv, Settled, OverrideOver, NEW amount, PayWinners(amount)
  PROVE  SettlementInv' /\ OutcomeKept
<1> DEFINE total == SumFunction(amount)
<1>1. market' = [market EXCEPT !.redeemed = @ + total] /\ now' = now
  BY DEF PayWinners
<1> HIDE DEF total
<1>2. MarketShape' /\ SameSettlement
  BY <1>1 DEF SettlementInv, MarketShape, SameSettlement, settlementState
<1> QED BY <1>1, <1>2, FinalStep

(* Both ways to redeem winning tokens wait for the window to end.          *)
LEMMA RedeemStep ==
  ASSUME SettlementInv,
         \/ \E u \in Users, q \in OrderQtys : RedeemWinner(u, q)
         \/ \E passed \in SUBSET Users : CrankRedeem(passed)
         \/ \E u \in Users : BurnWorthless(u)
  PROVE  SettlementInv' /\ OutcomeKept
<1>1. ASSUME NEW u \in Users, NEW q \in OrderQtys, RedeemWinner(u, q)
      PROVE  SettlementInv' /\ OutcomeKept
  <2>1. Settled /\ OverrideOver
    BY <1>1 DEF RedeemWinner
  <2>2. PayWinners([v \in {u} |-> q])
    BY <1>1, Zenon DEF RedeemWinner
  <2> QED BY <2>1, <2>2, PayStep
<1>2. ASSUME NEW passed \in SUBSET Users, CrankRedeem(passed)
      PROVE  SettlementInv' /\ OutcomeKept
  <2>1. Settled /\ OverrideOver
    BY <1>2 DEF CrankRedeem
  <2>2. PICK amount : PayWinners(amount)
    BY <1>2, Zenon DEF CrankRedeem
  <2> QED BY <2>1, <2>2, PayStep
<1>3. ASSUME NEW u \in Users, BurnWorthless(u)
      PROVE  SettlementInv' /\ OutcomeKept
  <2>1. Settled /\ OverrideOver /\ now' = now /\ market' = market
    BY <1>3 DEF BurnWorthless
  <2>2. MarketShape' /\ SameSettlement
    BY <2>1 DEF SettlementInv, MarketShape, SameSettlement, settlementState
  <2> QED BY <2>1, <2>2, FinalStep
<1> QED BY <1>1, <1>2, <1>3

(* One more override is one more window.                                   *)
LEMMA OneMoreWindow ==
  ASSUME NEW w \in Nat, NEW n \in Nat
  PROVE  /\ w * (n + 2) = w * (n + 1) + w
         /\ w * ((n + 1) + 1) = w * (n + 2)
OBVIOUS

(* Settlement opens the first window.                                      *)
LEMMA SettleStep ==
  ASSUME SettlementInv, ~Settled, NEW price, SettleAt(price)
  PROVE  SettlementInv' /\ OutcomeKept
<1>1. /\ market' = [market EXCEPT !.outcome = OutcomeAt(price), !.settledAt = now,
                                  !.deadline = now + Window]
      /\ now' = now /\ supply' = supply
  BY DEF SettleAt
<1>2. OutcomeAt(price) \in {YesWins, NoWins}
  BY DEF OutcomeAt
<1>3. supply.yes = supply.no /\ market.overrides = 0
  BY DEF SettlementInv, UnequalIsFinal, OverrideBounded
<1>4. MarketShape' /\ market'.outcome # Unsettled /\ market'.settledAt = now
      /\ market'.deadline = now + Window /\ market'.overrides = 0
  <2>1. market' = [minted |-> market.minted, redeemed |-> market.redeemed,
                   outcome |-> OutcomeAt(price), settledAt |-> now,
                   deadline |-> now + Window, overrides |-> market.overrides,
                   closed |-> market.closed]
    BY <1>1 DEF SettlementInv, MarketShape
  <2>2. OutcomeAt(price) # Unsettled
    BY <1>2 DEF Unsettled, YesWins, NoWins
  <2> QED BY <2>1, <2>2, <1>3 DEF MarketShape
<1>5. Window * (0 + 1) = Window /\ Window \in Nat
  BY MarketAssumption
<1>6. ClockTypes'
  BY <1>1, <1>4, <1>5 DEF SettlementInv, ClockTypes
<1>7. OverrideBounded'
  BY <1>4, <1>5 DEF OverrideBounded, Settled
<1>8. UnequalIsFinal'
  BY <1>1, <1>3 DEF UnequalIsFinal
<1> QED BY <1>3, <1>4, <1>6, <1>7, <1>8 DEF SettlementInv, OutcomeKept

(* An override adds a window and happens before any winner is paid: the    *)
(* deadline now + Window would only be later than the next window of the   *)
(* settlement if the override came after its deadline.                     *)
LEMMA OverrideStep ==
  ASSUME SettlementInv, NEW price, OverrideSettlement(price)
  PROVE  SettlementInv' /\ OutcomeKept
<1>1. /\ market' = [market EXCEPT !.outcome = OutcomeAt(price), !.deadline = NextDeadline,
                                  !.overrides = @ + 1]
      /\ now' = now /\ supply' = supply /\ Settled /\ now < market.deadline
  BY DEF OverrideSettlement
<1>2. OutcomeAt(price) \in {YesWins, NoWins}
  BY DEF OutcomeAt
<1>3. NextDeadline = market.settledAt + Window * (market.overrides + 2)
  <2>1. /\ now \in Nat /\ Window \in Nat /\ market.overrides \in Nat
        /\ market.settledAt \in Nat
        /\ market.deadline = market.settledAt + Window * (market.overrides + 1)
    BY <1>1, MarketAssumption DEF SettlementInv, ClockTypes, OverrideBounded
  <2>2. Window * (market.overrides + 2) = Window * (market.overrides + 1) + Window
    BY <2>1, OneMoreWindow
  <2>3. Window * (market.overrides + 1) \in Nat
    BY <2>1
  <2> QED BY <1>1, <2>1, <2>2, <2>3 DEF NextDeadline, Later
<1>4. MarketShape' /\ market'.outcome # Unsettled /\ market'.settledAt = market.settledAt
      /\ market'.deadline = NextDeadline /\ market'.overrides = market.overrides + 1
  <2>1. market' = [minted |-> market.minted, redeemed |-> market.redeemed,
                   outcome |-> OutcomeAt(price), settledAt |-> market.settledAt,
                   deadline |-> NextDeadline, overrides |-> market.overrides + 1,
                   closed |-> market.closed]
    BY <1>1 DEF SettlementInv, MarketShape
  <2>2. OutcomeAt(price) # Unsettled
    BY <1>2 DEF Unsettled, YesWins, NoWins
  <2> QED BY <2>1, <2>2 DEF MarketShape
<1>5. supply'.yes = supply'.no
  BY <1>1 DEF SettlementInv, UnequalIsFinal, OverrideOver, ClockTypes
<1>6. ClockTypes'
  BY <1>1, <1>3, <1>4, MarketAssumption DEF SettlementInv, ClockTypes
<1>7. OverrideBounded'
  <2>1. Window * (market.overrides + 2) = Window * ((market.overrides + 1) + 1)
    BY OneMoreWindow, MarketAssumption DEF SettlementInv, ClockTypes
  <2> QED BY <2>1, <1>3, <1>4 DEF OverrideBounded, Settled
<1>8. UnequalIsFinal'
  BY <1>5 DEF UnequalIsFinal
<1>9. supply.yes = supply.no
  BY <1>1 DEF SettlementInv, UnequalIsFinal, OverrideOver, ClockTypes
<1> QED BY <1>4, <1>6, <1>7, <1>8, <1>9 DEF SettlementInv, OutcomeKept

(* Closing keeps everything but the closed flag.                           *)
LEMMA CloseStep ==
  ASSUME SettlementInv, CloseMarket
  PROVE  SettlementInv' /\ OutcomeKept
<1>1. MarketShape' /\ SameSettlement
  BY DEF SettlementInv, MarketShape, SameSettlement, settlementState, CloseMarket
<1>2. now' = now /\ supply' = supply
  BY DEF CloseMarket
<1> QED BY <1>1, <1>2, QuietStep

(* Time can only make an outcome final.                                    *)
LEMMA TickStep ==
  ASSUME SettlementInv, Tick
  PROVE  SettlementInv' /\ OutcomeKept
BY DEF SettlementInv, MarketShape, ClockTypes, UnequalIsFinal, OverrideBounded, Settled,
       OverrideOver, Tick, OutcomeKept

(* Every step keeps the invariant.                                         *)
LEMMA NextSettlement == SettlementInv /\ [Next]_vars => SettlementInv' /\ OutcomeKept
<1> SUFFICES ASSUME SettlementInv, [Next]_vars
             PROVE  SettlementInv' /\ OutcomeKept
  OBVIOUS
<1>1. CASE \E u \in Users, side \in Sides, price \in Prices, q \in OrderQtys,
             isLimit \in BOOLEAN, n \in MaxFillsSet :
               PlaceOrder(u, side, price, q, isLimit, n)
  BY <1>1, PlaceOrderStep, Zenon
<1>2. CASE \E u \in Users, q \in OrderQtys : MintPair(u, q) \/ RedeemPair(u, q)
  BY <1>2, PairStep
<1>3. CASE \/ \E u \in Users, at \in Resting(book.levels) : CancelOrder(u, at)
           \/ \E n \in CrankBatches : CrankCancel(n)
           \/ Pause \/ Unpause
           \/ \E price \in FeedPrices, age \in FeedAges, confident \in BOOLEAN :
                UpdatePrice(price, age, confident)
  <2>1. UNCHANGED <<now, supply, market>>
    BY <1>3, Zenon DEF CancelOrder, CrankCancel, ReturnCollateral, Pause, Unpause, UpdatePrice
  <2> QED BY <2>1, BystanderStep
<1>4. CASE \/ \E u \in Users, q \in OrderQtys : RedeemWinner(u, q)
           \/ \E passed \in SUBSET Users : CrankRedeem(passed)
           \/ \E u \in Users : BurnWorthless(u)
  BY <1>4, RedeemStep, Zenon
<1>5. CASE SettleMarket \/ \E price \in FeedPrices : AdminSettle(price)
  BY <1>5, SettleStep DEF SettleMarket, AdminSettle
<1>6. CASE \E price \in FeedPrices : OverrideSettlement(price)
  BY <1>6, OverrideStep
<1>7. CASE CloseMarket
  BY <1>7, CloseStep
<1>8. CASE Tick
  BY <1>8, TickStep
<1>9. CASE UNCHANGED vars
  BY <1>9, BystanderStep DEF vars
<1> QED
  BY <1>1, <1>2, <1>3, <1>4, <1>5, <1>6, <1>7, <1>8, <1>9, Zenon DEF Next

(* The invariant holds in every behaviour.                                 *)
LEMMA SettlementInductive == Spec => []SettlementInv
BY InitSettlement, NextSettlement, PTL DEF Spec

(* Each override moves the deadline by exactly one window, so that with at *)
(* most MaxOverrides of them redemption opens at a known latest time.      *)
THEOREM OverrideWindowBounded == Spec => []OverrideBounded
BY SettlementInductive, PTL DEF SettlementInv

(* Once a winner has been paid the outcome is final: nobody is paid for    *)
(* both outcomes, whatever the timing of redemptions and overrides.        *)
THEOREM PaidOutcomeIsFinal == Spec => PaidOutcomeFinal
BY SettlementInductive, NextSettlement, PTL DEF Spec, PaidOutcomeFinal, OutcomeKept
-----------------------------------------------------------------------------
(* What fills pay.                                                         *)

(* The orders of a market's book.                                          *)
Orders == [owner : Users, id : Nat, side : Sides, qty : Nat \ {0}, ts : Nat]

Paid(side, f) == TakerUsdc(side, f) + MakerUsdc(side, f) + FillFee(f)
Burnt(f) == IF f.isMerge THEN f.qty ELSE 0

(* A fill crosses, and its parties' sides are those of the three trades.   *)
SidesOK(side, limit, f) ==
  \/ side = UsdcBid /\ f.makerSide = YesAsk /\ f.price <= limit /\ ~ f.isMerge
  \/ side = NoBid /\ f.makerSide = YesAsk /\ f.isMerge
  \/ side = YesAsk /\ f.makerSide = UsdcBid /\ ~ f.isMerge
  \/ side = YesAsk /\ f.makerSide = NoBid /\ f.isMerge

(* Orders that cross trade one of the five ways.                           *)
LEMMA FillSides ==
  ASSUME NEW levels, NEW side \in Sides, NEW limit, NEW f, FillOK(levels, side, limit, f)
  PROVE  SidesOK(side, limit, f)
<1> DEFINE o == OrderAt(levels, f.at)
<1>1. /\ Crosses(side, limit, f.price, o) /\ f.makerSide = o.side
      /\ f.isMerge = (NoBid \in {side, o.side})
  BY DEF FillOK, Crossing
<1> HIDE DEF o
<1>2. UsdcBid # YesAsk /\ UsdcBid # NoBid /\ YesAsk # NoBid
  BY DEF UsdcBid, YesAsk, NoBid
<1> QED BY <1>1, <1>2 DEF Crosses, SidesOK

(* A swap is split between the two parties and the fee.                    *)
LEMMA SwapSplits ==
  ASSUME NEW q \in Nat, NEW p \in Prices
  PROVE  /\ SwapUsdc(q, p) \in Nat /\ FeeOn(SwapUsdc(q, p)) \in Nat /\ SwapNet(q, p) \in Nat
         /\ SwapNet(q, p) + FeeOn(SwapUsdc(q, p)) = SwapUsdc(q, p)
<1>1. Dollar \in Nat \ {0} /\ p \in Nat
  BY DollarAssumption DEF Prices
<1>2. q * p \in Nat
  BY <1>1, ProductNat
<1>3. SwapUsdc(q, p) \in Nat
  BY <1>1, <1>2, DivBounds DEF SwapUsdc
<1>4. FeeOn(SwapUsdc(q, p)) \in 0 .. SwapUsdc(q, p)
  BY <1>3, FeeBounds
<1> QED BY <1>3, <1>4 DEF SwapNet

(* Every fill pays out what it takes: a merge the pairs it burns, a swap   *)
(* its price, and the Yes tokens of the ask go to a buyer or are burned.   *)
LEMMA FillMoney ==
  ASSUME NEW side \in Sides, NEW limit \in Prices, NEW f \in Fills(Orders),
         SidesOK(side, limit, f)
  PROVE  /\ f.maker \in Users /\ f.qty \in Nat \ {0} /\ f.price \in Prices
         /\ TakerUsdc(side, f) \in Nat /\ MakerUsdc(side, f) \in Nat /\ FillFee(f) \in Nat
         /\ PriceImprovement(side, limit, f) \in Nat
         /\ Paid(side, f) = IF f.isMerge THEN f.qty ELSE SwapUsdc(f.qty, f.price)
         /\ TakerYes(side, f) \in Nat /\ MakerYes(side, f) \in Nat /\ Burnt(f) \in Nat
         /\ TakerYes(side, f) + MakerYes(side, f) + Burnt(f) = f.qty
<1>1. f.maker \in Users /\ f.qty \in Nat \ {0} /\ f.price \in Prices /\ f.isMerge \in BOOLEAN
  BY DEF Fills, Orders
<1> DEFINE q == f.qty
           p == f.price
<1>2. /\ FeeOn(q) \in Nat /\ MergeTaker(q, p) \in Nat /\ MergeMaker(q, p) \in Nat
      /\ FeeOn(q) + MergeTaker(q, p) + MergeMaker(q, p) = q
  BY <1>1, MergeSplitsExactly
<1>3. /\ SwapUsdc(q, p) \in Nat /\ FeeOn(SwapUsdc(q, p)) \in Nat /\ SwapNet(q, p) \in Nat
      /\ SwapNet(q, p) + FeeOn(SwapUsdc(q, p)) = SwapUsdc(q, p)
  BY <1>1, SwapSplits
<1>4. UsdcBid # YesAsk /\ UsdcBid # NoBid /\ YesAsk # NoBid
  BY DEF UsdcBid, YesAsk, NoBid
<1>5. PriceImprovement(side, limit, f) \in Nat
  <2>1. CASE side = UsdcBid /\ p < limit
    <3>1. /\ Dollar \in Nat \ {0} /\ limit - p \in Nat /\ q \in Nat
      BY <1>1, <2>1, DollarAssumption DEF Prices
    <3>2. q * (limit - p) \in Nat
      BY <3>1, ProductNat
    <3>3. (q * (limit - p)) \div Dollar \in Nat
      BY <3>1, <3>2, DivBounds
    <3> QED BY <2>1, <3>3 DEF PriceImprovement, Improvement
  <2>2. CASE ~ (side = UsdcBid /\ p < limit)
    BY <2>2 DEF PriceImprovement, Improvement
  <2> QED BY <2>1, <2>2
<1>6. /\ TakerYes(side, f) \in Nat /\ MakerYes(side, f) \in Nat /\ Burnt(f) \in Nat
      /\ TakerYes(side, f) + MakerYes(side, f) + Burnt(f) = f.qty
  BY <1>1, <1>4 DEF TakerYes, MakerYes, Burnt, SidesOK
<1>7. CASE f.isMerge
  <2>1. /\ TakerUsdc(side, f) = MergeTaker(q, p) /\ MakerUsdc(side, f) = MergeMaker(q, p)
        /\ FillFee(f) = FeeOn(q)
    BY <1>7 DEF TakerUsdc, MakerUsdc, FillFee
  <2>2. Paid(side, f) = f.qty
    BY <1>2, <2>1 DEF Paid
  <2> QED BY <1>1, <1>2, <1>5, <1>6, <1>7, <2>1, <2>2
<1>8. CASE ~ f.isMerge
  <2>1. FillFee(f) = FeeOn(SwapUsdc(q, p))
    BY <1>8 DEF FillFee
  <2>2. \/ TakerUsdc(side, f) = SwapNet(q, p) /\ MakerUsdc(side, f) = 0
        \/ TakerUsdc(side, f) = 0 /\ MakerUsdc(side, f) = SwapNet(q, p)
    BY <1>4, <1>8 DEF TakerUsdc, MakerUsdc, SidesOK
  <2> HIDE DEF q, p
  <2>3. Paid(side, f) = SwapUsdc(q, p)
    BY <1>3, <2>1, <2>2 DEF Paid
  <2> QED BY <1>1, <1>3, <1>5, <1>6, <1>8, <2>1, <2>2, <2>3 DEF q, p
<1> QED BY <1>7, <1>8, <1>1
-----------------------------------------------------------------------------
(* What the fills of one order pay in all.                                 *)

(* The amounts of the fills of an order, one per fill.                     *)
TakerUsdcs(side, fs) == [k \in DOMAIN fs |-> TakerUsdc(side, fs[k])]
MakerUsdcs(side, fs) == [k \in DOMAIN fs |-> MakerUsdc(side, fs[k])]
Fees(fs) == [k \in DOMAIN fs |-> FillFee(fs[k])]
Betters(side, limit, fs) == [k \in DOMAIN fs |-> PriceImprovement(side, limit, fs[k])]
TakerYess(side, fs) == [k \in DOMAIN fs |-> TakerYes(side, fs[k])]
MakerYess(side, fs) == [k \in DOMAIN fs |-> MakerYes(side, fs[k])]
Burns(fs) == [k \in DOMAIN fs |-> Burnt(fs[k])]
VaultPays(side, fs) == [k \in DOMAIN fs |-> IF fs[k].isMerge THEN Paid(side, fs[k]) ELSE 0]
EscrowPays(side, fs) == [k \in DOMAIN fs |-> IF fs[k].isMerge THEN 0 ELSE Paid(side, fs[k])]
Makers(fs) == [k \in DOMAIN fs |-> fs[k].maker]

Sum(f) == SumOf(f, DOMAIN f)
MakerGets(d, fs, v) == SumOf(Owned(d, DOMAIN fs, Makers(fs), v), DOMAIN fs)

(* SettleOrder with its sums written as sums over the fills.               *)
OrderSettled(u, side, limit, deposit, fs, refund) ==
  /\ usdc' = [v \in Users |-> usdc[v] + MakerGets(MakerUsdcs(side, fs), fs, v)
                + IF v = u THEN Sum(TakerUsdcs(side, fs)) + Sum(Betters(side, limit, fs))
                                  + refund.usdc - deposit.usdc
                           ELSE 0]
  /\ yes' = [v \in Users |-> yes[v] + MakerGets(MakerYess(side, fs), fs, v)
                + IF v = u THEN Sum(TakerYess(side, fs)) + refund.yes - deposit.yes ELSE 0]
  /\ no' = [no EXCEPT ![u] = @ + refund.no - deposit.no]
  /\ pot' = [pot EXCEPT
       !.vault = @ - Sum(VaultPays(side, fs)),
       !.escrow = @ + deposit.usdc - Sum(Betters(side, limit, fs)) - refund.usdc
                    - Sum(EscrowPays(side, fs)),
       !.yesEscrow = @ + deposit.yes - refund.yes - Sum(Qtys(fs)),
       !.noEscrow = @ + deposit.no - refund.no - Sum(Burns(fs)),
       !.feeVault = @ + Sum(Fees(fs))]
  /\ supply' = [yes |-> supply.yes - Sum(Burns(fs)), no |-> supply.no - Sum(Burns(fs))]
  /\ market' = [market EXCEPT !.redeemed = @ + Sum(Burns(fs))]

(* What the settlement of an order moves, as sums over its fills.          *)
LEMMA SettleOrderSums ==
  ASSUME NEW u, NEW side, NEW limit, NEW deposit, NEW fs, NEW refund,
         SettleOrder(u, side, limit, deposit, fs, refund)
  PROVE  OrderSettled(u, side, limit, deposit, fs, refund)
<1> DEFINE K == DOMAIN fs
<1>1. FillSum(fs, LAMBDA f : TakerUsdc(side, f)) = Sum(TakerUsdcs(side, fs))
  BY Zenon DEF FillSum, SumOver, Sum, SumOf, SumFunction, TakerUsdcs
<1>2. FillSum(fs, LAMBDA f : PriceImprovement(side, limit, f)) = Sum(Betters(side, limit, fs))
  BY Zenon DEF FillSum, SumOver, Sum, SumOf, SumFunction, Betters
<1>3. FillSum(fs, LAMBDA f : IF f.isMerge THEN f.qty ELSE 0) = Sum(Burns(fs))
  BY Zenon DEF FillSum, SumOver, Sum, SumOf, SumFunction, Burns, Burnt
<1>4. FillSum(fs, LAMBDA f : TakerYes(side, f)) = Sum(TakerYess(side, fs))
  BY Zenon DEF FillSum, SumOver, Sum, SumOf, SumFunction, TakerYess
<1>5. FillSum(fs, LAMBDA f : IF f.isMerge
                             THEN TakerUsdc(side, f) + MakerUsdc(side, f) + FillFee(f) ELSE 0)
        = Sum(VaultPays(side, fs))
  BY Zenon DEF FillSum, SumOver, Sum, SumOf, SumFunction, VaultPays, Paid
<1>6. FillSum(fs, LAMBDA f : IF f.isMerge THEN 0
                             ELSE TakerUsdc(side, f) + MakerUsdc(side, f) + FillFee(f))
        = Sum(EscrowPays(side, fs))
  BY Zenon DEF FillSum, SumOver, Sum, SumOf, SumFunction, EscrowPays, Paid
<1>7. FillSum(fs, LAMBDA f : f.qty) = Sum(Qtys(fs))
  BY Zenon DEF FillSum, SumOver, Sum, SumOf, SumFunction, Qtys
<1>8. FillSum(fs, FillFee) = Sum(Fees(fs))
  BY Zenon DEF FillSum, SumOver, Sum, SumOf, SumFunction, Fees
<1>9. \A v : FillSum(fs, LAMBDA f : IF f.maker = v THEN MakerUsdc(side, f) ELSE 0)
                = MakerGets(MakerUsdcs(side, fs), fs, v)
  <2> TAKE v
  <2>1. [k \in K |-> IF fs[k].maker = v THEN MakerUsdc(side, fs[k]) ELSE 0]
          = Owned(MakerUsdcs(side, fs), K, Makers(fs), v)
    BY DEF Owned, MakerUsdcs, Makers
  <2>2. DOMAIN [k \in K |-> IF fs[k].maker = v THEN MakerUsdc(side, fs[k]) ELSE 0] = K
    OBVIOUS
  <2> QED BY <2>1, <2>2, Zenon DEF FillSum, SumOver, SumOf, SumFunction, MakerGets
<1>10. \A v : FillSum(fs, LAMBDA f : IF f.maker = v THEN MakerYes(side, f) ELSE 0)
                = MakerGets(MakerYess(side, fs), fs, v)
  <2> TAKE v
  <2>1. [k \in K |-> IF fs[k].maker = v THEN MakerYes(side, fs[k]) ELSE 0]
          = Owned(MakerYess(side, fs), K, Makers(fs), v)
    BY DEF Owned, MakerYess, Makers
  <2>2. DOMAIN [k \in K |-> IF fs[k].maker = v THEN MakerYes(side, fs[k]) ELSE 0] = K
    OBVIOUS
  <2> QED BY <2>1, <2>2, Zenon DEF FillSum, SumOver, SumOf, SumFunction, MakerGets
<1> QED
  BY <1>1, <1>2, <1>3, <1>4, <1>5, <1>6, <1>7, <1>8, <1>9, <1>10, Zenon
     DEF SettleOrder, OrderSettled

(* The fills of a match: each by one of the three trades.                  *)
FillsOK(side, limit, fs) ==
  fs \in Seq(Fills(Orders)) /\ \A k \in DOMAIN fs : SidesOK(side, limit, fs[k])

(* Of each fill: who is paid what, and that what the pot pays is received. *)
LEMMA FillTypes ==
  ASSUME NEW side \in Sides, NEW limit \in Prices, NEW fs, FillsOK(side, limit, fs),
         NEW k \in DOMAIN fs
  PROVE  /\ Makers(fs)[k] \in Users /\ Qtys(fs)[k] \in Nat
         /\ TakerUsdcs(side, fs)[k] \in Nat /\ MakerUsdcs(side, fs)[k] \in Nat
         /\ Fees(fs)[k] \in Nat /\ Betters(side, limit, fs)[k] \in Nat
         /\ VaultPays(side, fs)[k] = Burns(fs)[k] /\ EscrowPays(side, fs)[k] \in Nat
         /\ TakerUsdcs(side, fs)[k] + MakerUsdcs(side, fs)[k] + Fees(fs)[k]
              = VaultPays(side, fs)[k] + EscrowPays(side, fs)[k]
         /\ TakerYess(side, fs)[k] \in Nat /\ MakerYess(side, fs)[k] \in Nat
         /\ Burns(fs)[k] \in Nat
         /\ TakerYess(side, fs)[k] + MakerYess(side, fs)[k] + Burns(fs)[k] = Qtys(fs)[k]
<1> DEFINE f == fs[k]
<1>1. f \in Fills(Orders) /\ SidesOK(side, limit, f)
  BY DEF FillsOK
<1> HIDE DEF f
<1>2. /\ f.maker \in Users /\ f.qty \in Nat \ {0} /\ f.price \in Prices
      /\ TakerUsdc(side, f) \in Nat /\ MakerUsdc(side, f) \in Nat /\ FillFee(f) \in Nat
      /\ PriceImprovement(side, limit, f) \in Nat
      /\ Paid(side, f) = IF f.isMerge THEN f.qty ELSE SwapUsdc(f.qty, f.price)
      /\ TakerYes(side, f) \in Nat /\ MakerYes(side, f) \in Nat /\ Burnt(f) \in Nat
      /\ TakerYes(side, f) + MakerYes(side, f) + Burnt(f) = f.qty
  BY <1>1, FillMoney
<1>3. Paid(side, f) \in Nat /\ f.isMerge \in BOOLEAN
      /\ TakerUsdc(side, f) + MakerUsdc(side, f) + FillFee(f) = Paid(side, f)
  BY <1>1, <1>2 DEF Paid, Fills
<1>4. /\ Makers(fs)[k] = f.maker /\ Qtys(fs)[k] = f.qty
      /\ TakerUsdcs(side, fs)[k] = TakerUsdc(side, f)
      /\ MakerUsdcs(side, fs)[k] = MakerUsdc(side, f)
      /\ Fees(fs)[k] = FillFee(f) /\ Betters(side, limit, fs)[k] = PriceImprovement(side, limit, f)
      /\ TakerYess(side, fs)[k] = TakerYes(side, f) /\ MakerYess(side, fs)[k] = MakerYes(side, f)
      /\ Burns(fs)[k] = Burnt(f)
      /\ VaultPays(side, fs)[k] = IF f.isMerge THEN Paid(side, f) ELSE 0
      /\ EscrowPays(side, fs)[k] = IF f.isMerge THEN 0 ELSE Paid(side, f)
  BY DEF f, Makers, Qtys, TakerUsdcs, MakerUsdcs, Fees, Betters, TakerYess, MakerYess, Burns,
         VaultPays, EscrowPays
<1>5. VaultPays(side, fs)[k] = Burns(fs)[k]
  BY <1>2, <1>4 DEF Burnt
<1> QED BY <1>2, <1>3, <1>4, <1>5

(* A sum of what one maker gets is a natural.                              *)
LEMMA OwnedNat ==
  ASSUME NEW K, IsFiniteSet(K), NEW d, Nats(d, K), NEW owner, NEW v
  PROVE  SumOf(Owned(d, K, owner, v), K) \in Nat
<1>1. Nats(Owned(d, K, owner, v), K)
  BY DEF Nats, Owned
<1> QED BY <1>1, SumNat

(* The totals of an order: what vault and escrow pay is what taker, makers *)
(* and fee vault get; the vault pays for exactly the pairs it burns; every *)
(* Yes token sold is bought or burned.                                     *)
LEMMA FillTotals ==
  ASSUME NEW side \in Sides, NEW limit \in Prices, NEW fs, FillsOK(side, limit, fs)
  PROVE  LET tu == Sum(TakerUsdcs(side, fs))
             mu == Sum(MakerUsdcs(side, fs))
             vp == Sum(VaultPays(side, fs))
             ep == Sum(EscrowPays(side, fs))
             ty == Sum(TakerYess(side, fs))
             my == Sum(MakerYess(side, fs))
         IN  /\ IsFiniteSet(DOMAIN fs)
             /\ tu \in Nat /\ mu \in Nat /\ Sum(Fees(fs)) \in Nat
             /\ Sum(Betters(side, limit, fs)) \in Nat
             /\ vp = Sum(Burns(fs)) /\ Sum(Burns(fs)) \in Nat /\ ep \in Nat
             /\ tu + mu + Sum(Fees(fs)) = vp + ep
             /\ ty \in Nat /\ my \in Nat /\ Sum(Qtys(fs)) \in Nat
             /\ ty + my + Sum(Burns(fs)) = Sum(Qtys(fs))
             /\ \A v : MakerGets(MakerUsdcs(side, fs), fs, v) \in Nat
             /\ \A v : MakerGets(MakerYess(side, fs), fs, v) \in Nat
<1> DEFINE K == DOMAIN fs
           TU == TakerUsdcs(side, fs)
           MU == MakerUsdcs(side, fs)
           FE == Fees(fs)
           PI == Betters(side, limit, fs)
           VP == VaultPays(side, fs)
           EP == EscrowPays(side, fs)
           TY == TakerYess(side, fs)
           MY == MakerYess(side, fs)
           BU == Burns(fs)
           QY == Qtys(fs)
           tm == [k \in K |-> TU[k] + MU[k]]
           all == [k \in K |-> TU[k] + MU[k] + FE[k]]
           ys == [k \in K |-> TY[k] + MY[k]]
<1>1. IsFiniteSet(K)
  <2>1. Len(fs) \in Nat /\ K = 1 .. Len(fs)
    BY DEF FillsOK
  <2> HIDE DEF K
  <2> QED BY <2>1, FS_Interval
<1>2. /\ DOMAIN TU = K /\ DOMAIN MU = K /\ DOMAIN FE = K /\ DOMAIN PI = K
      /\ DOMAIN VP = K /\ DOMAIN EP = K /\ DOMAIN TY = K /\ DOMAIN MY = K
      /\ DOMAIN BU = K /\ DOMAIN QY = K
  BY DEF TakerUsdcs, MakerUsdcs, Fees, Betters, VaultPays, EscrowPays, TakerYess, MakerYess,
         Burns, Qtys
<1>3. \A k \in K :
         /\ TU[k] \in Nat /\ MU[k] \in Nat /\ FE[k] \in Nat /\ PI[k] \in Nat
         /\ VP[k] = BU[k] /\ EP[k] \in Nat /\ TU[k] + MU[k] + FE[k] = VP[k] + EP[k]
         /\ TY[k] \in Nat /\ MY[k] \in Nat /\ BU[k] \in Nat /\ QY[k] \in Nat
         /\ TY[k] + MY[k] + BU[k] = QY[k]
  BY FillTypes
<1> HIDE DEF TU, MU, FE, PI, VP, EP, TY, MY, BU, QY, K
<1>4. /\ Nats(TU, K) /\ Nats(MU, K) /\ Nats(FE, K) /\ Nats(PI, K) /\ Nats(VP, K)
      /\ Nats(EP, K) /\ Nats(TY, K) /\ Nats(MY, K) /\ Nats(BU, K) /\ Nats(QY, K)
  BY <1>3 DEF Nats
<1>5. /\ Ints(TU, K) /\ Ints(MU, K) /\ Ints(FE, K) /\ Ints(VP, K) /\ Ints(EP, K)
      /\ Ints(TY, K) /\ Ints(MY, K) /\ Ints(BU, K) /\ Ints(tm, K) /\ Ints(ys, K)
  BY <1>3 DEF Ints
<1>6. /\ SumOf(TU, K) \in Nat /\ SumOf(MU, K) \in Nat /\ SumOf(FE, K) \in Nat
      /\ SumOf(PI, K) \in Nat /\ SumOf(VP, K) \in Nat /\ SumOf(EP, K) \in Nat
      /\ SumOf(TY, K) \in Nat /\ SumOf(MY, K) \in Nat /\ SumOf(BU, K) \in Nat
      /\ SumOf(QY, K) \in Nat
  BY <1>1, <1>4, SumNat
<1>7. SumOf(VP, K) = SumOf(BU, K)
  BY <1>1, <1>3, <1>5, SumSame
<1>8. SumOf(TU, K) + SumOf(MU, K) + SumOf(FE, K) = SumOf(VP, K) + SumOf(EP, K)
  <2>1. \A k \in K : tm[k] = TU[k] + MU[k] /\ all[k] = tm[k] + FE[k] /\ all[k] = VP[k] + EP[k]
    BY <1>3
  <2> HIDE DEF tm, all
  <2>2. SumOf(tm, K) = SumOf(TU, K) + SumOf(MU, K)
    BY <1>1, <1>5, <2>1, SumPlus
  <2>3. SumOf(all, K) = SumOf(tm, K) + SumOf(FE, K)
    BY <1>1, <1>5, <2>1, SumPlus
  <2>4. SumOf(all, K) = SumOf(VP, K) + SumOf(EP, K)
    BY <1>1, <1>5, <2>1, SumPlus
  <2> QED BY <2>2, <2>3, <2>4
<1>9. SumOf(TY, K) + SumOf(MY, K) + SumOf(BU, K) = SumOf(QY, K)
  <2>1. \A k \in K : ys[k] = TY[k] + MY[k] /\ QY[k] = ys[k] + BU[k]
    BY <1>3
  <2> HIDE DEF ys
  <2>2. SumOf(ys, K) = SumOf(TY, K) + SumOf(MY, K)
    BY <1>1, <1>5, <2>1, SumPlus
  <2>3. SumOf(QY, K) = SumOf(ys, K) + SumOf(BU, K)
    BY <1>1, <1>5, <2>1, SumPlus
  <2> QED BY <2>2, <2>3
<1>10. \A v : /\ SumOf(Owned(MU, K, Makers(fs), v), K) \in Nat
              /\ SumOf(Owned(MY, K, Makers(fs), v), K) \in Nat
  BY <1>1, <1>4, OwnedNat
<1>11. /\ Sum(TU) = SumOf(TU, K) /\ Sum(MU) = SumOf(MU, K) /\ Sum(FE) = SumOf(FE, K)
       /\ Sum(PI) = SumOf(PI, K) /\ Sum(VP) = SumOf(VP, K) /\ Sum(EP) = SumOf(EP, K)
       /\ Sum(TY) = SumOf(TY, K) /\ Sum(MY) = SumOf(MY, K) /\ Sum(BU) = SumOf(BU, K)
       /\ Sum(QY) = SumOf(QY, K)
  BY <1>2 DEF Sum
<1>12. \A d, v : MakerGets(d, fs, v) = SumOf(Owned(d, K, Makers(fs), v), K)
  BY DEF MakerGets, K
<1> QED
  BY <1>1, <1>6, <1>7, <1>8, <1>9, <1>10, <1>11, <1>12, Zenon
     DEF TU, MU, FE, PI, VP, EP, TY, MY, BU, QY, K
-----------------------------------------------------------------------------
(* The book of the market.                                                 *)

BookTyped == BookOK(book, Orders) /\ now \in Nat

(* What place_order does, with the match it makes: the fills are settled   *)
(* and applied to the book, and the remainder rests or is handed back.     *)
Traded(u, side, price, q, m, rested, mid) ==
  LET order == [owner |-> u, id |-> book.nextId, side |-> side, qty |-> m.remaining, ts |-> now]
  IN  /\ rested \in BOOLEAN
      /\ MatchOK(book.levels, Orders, side, price, q, m)
      /\ FillsOK(side, price, m.fills) /\ FillsFit(book.levels, m.fills)
      /\ OrderSettled(u, side, price, Collateral(side, q, price), m.fills,
                      Collateral(side, Refunded(m, rested), price))
      /\ fills' = [k \in DOMAIN m.fills |-> FillEvent(u, side, m.fills[k])]
      /\ LevelsOK(mid, Orders) /\ FillsApplied(book.levels, m.fills, mid)
      /\ IF rested
         THEN order \in Orders /\ \E x : x[1] = price /\ Added(mid, x, order, book'.levels)
         ELSE Removed(mid, {}, book'.levels)
      /\ BookOK(book', Orders)
      /\ IF rested
         THEN book'.nextId = book.nextId + 1 /\ book.nextId < MaxOrderId
         ELSE book'.nextId = book.nextId
      /\ \/ book'.allocated = book.allocated
         \/ book'.allocated = book.allocated + 1 /\ book.allocated < MaxLevels

(* And no account is overdrawn by it.                                      *)
Placed(u, side, price, q, m, rested, mid) ==
  Traded(u, side, price, q, m, rested, mid) /\ NoOverdraft

(* A part of an order is an order.                                         *)
LEMMA OrdersReducible == Reducible(Orders)
<1> SUFFICES ASSUME NEW o \in Orders, NEW q \in 1 .. o.qty - 1
             PROVE  [o EXCEPT !.qty = @ - q] \in Orders
  BY DEF Reducible
<1>1. o.qty \in Nat \ {0}
  BY DEF Orders
<1>2. o.qty - q \in Nat \ {0}
  BY <1>1
<1> QED BY <1>2 DEF Orders

(* What the matching returns are such fills of the levels it was given.    *)
LEMMA MatchSettles ==
  ASSUME NEW levels, NEW side \in Sides, NEW limit, NEW qty, NEW m,
         MatchOK(levels, Orders, side, limit, qty, m)
  PROVE  FillsOK(side, limit, m.fills) /\ FillsFit(levels, m.fills) /\ m.remaining \in Nat
<1>1. m.fills \in Seq(Fills(Orders)) /\ m.remaining \in Nat
  BY DEF MatchOK, Matches
<1>2. \A k \in DOMAIN m.fills : FillOK(levels, side, limit, m.fills[k])
  BY DEF MatchOK
<1>3. \A k \in DOMAIN m.fills : SidesOK(side, limit, m.fills[k])
  BY <1>2, FillSides
<1>4. FillsFit(levels, m.fills)
  BY <1>2 DEF FillsFit, FillOK, Crossing, MatchOK
<1> QED BY <1>1, <1>3, <1>4 DEF FillsOK

(* An order placed is matched, settled and, what is left of it, rested.    *)
LEMMA PlaceOrderFacts ==
  ASSUME BookTyped, NEW u \in Users, NEW side \in Sides, NEW price \in Prices,
         NEW q \in OrderQtys, NEW isLimit \in BOOLEAN, NEW n \in MaxFillsSet,
         PlaceOrder(u, side, price, q, isLimit, n)
  PROVE  \E m, rested, mid : Placed(u, side, price, q, m, rested, mid)
<1> DEFINE m == MatchAgainstBook(book.levels, side, price, q, n)
           mid == AfterFills(book.levels, m.fills)
           matched == [book EXCEPT !.levels = AfterFills(@, m.fills)]
           wantsRest == isLimit /\ m.remaining >= MinOrder
           rested == wantsRest /\ CanAssignId(matched)
           deposit == Collateral(side, q, price)
           order == [owner |-> u, id |-> book.nextId, side |-> side, qty |-> m.remaining,
                     ts |-> now]
<1>1. /\ book' = IF wantsRest THEN RestOrder(matched, u, side, price, m.remaining, now)
                              ELSE matched
      /\ SettleOrder(u, side, price, deposit, m.fills, Collateral(side, Refunded(m, rested), price))
      /\ NoOverdraft /\ (wantsRest => CanAllocate(matched, price))
      /\ fills' = [k \in DOMAIN m.fills |-> FillEvent(u, side, m.fills[k])]
  BY Zenon DEF PlaceOrder
<1>2. /\ BookOK(book, Orders) /\ LevelsOK(book.levels, Orders) /\ q \in Nat /\ now \in Nat
      /\ book.nextId \in Nat
  BY MarketAssumption DEF BookTyped, BookOK
<1>3. MatchOK(book.levels, Orders, side, price, q, m)
  BY <1>2, MatchFacts
<1> HIDE DEF m
<1>4. FillsOK(side, price, m.fills) /\ FillsFit(book.levels, m.fills) /\ m.remaining \in Nat
  BY <1>3, MatchSettles
<1>5. OrderSettled(u, side, price, deposit, m.fills, Collateral(side, Refunded(m, rested), price))
  BY <1>1, SettleOrderSums
<1>6. LevelsOK(mid, Orders) /\ FillsApplied(book.levels, m.fills, mid)
  BY <1>2, <1>4, OrdersReducible, AfterFillsApplied
<1>7. /\ matched = [levels |-> mid, nextId |-> book.nextId, allocated |-> book.allocated]
      /\ matched.levels = mid /\ matched.nextId = book.nextId
      /\ matched.allocated = book.allocated
  BY <1>2 DEF BookOK
<1> HIDE DEF mid, matched
<1>8. BookOK(matched, Orders)
  BY <1>2, <1>6, <1>7 DEF BookOK, LevelsOK
<1>9. CASE ~ wantsRest
  <2>1. book' = matched /\ rested = FALSE
    BY <1>1, <1>9
  <2>2. Removed(mid, {}, book'.levels)
    BY <1>7, <2>1 DEF Removed
  <2>3. Placed(u, side, price, q, m, rested, mid)
    BY <1>1, <1>3, <1>4, <1>5, <1>6, <1>7, <1>8, <2>1, <2>2 DEF Placed, Traded
  <2> QED BY <2>3
<1>10. CASE wantsRest
  <2> DEFINE new == RestOrder(matched, u, side, price, m.remaining, now)
  <2>1. book' = new /\ rested = CanAssignId(matched) /\ rested \in BOOLEAN
    BY <1>1, <1>10 DEF CanAssignId
  <2>2. m.remaining \in Nat \ {0}
    BY <1>4, <1>10, BookAssumption
  <2>3. order \in Orders
    BY <1>2, <2>2 DEF Orders
  <2>4. order = [owner |-> u, id |-> matched.nextId, side |-> side, qty |-> m.remaining,
                 ts |-> now]
    BY <1>7
  <2> HIDE DEF order
  <2>5. /\ BookOK(new, Orders)
        /\ new.allocated = (IF NeedsNewLevel(matched, price) THEN matched.allocated + 1
                                                            ELSE matched.allocated)
        /\ new.nextId = (IF CanAssignId(matched) THEN matched.nextId + 1 ELSE matched.nextId)
        /\ IF CanAssignId(matched)
           THEN \E x : x[1] = price /\ Added(matched.levels, x, order, new.levels)
           ELSE Removed(matched.levels, {}, new.levels)
    BY <1>8, <2>3, <2>4, RestOrderAdds
  <2> HIDE DEF new
  <2>6. IF rested
        THEN order \in Orders /\ \E x : x[1] = price /\ Added(mid, x, order, book'.levels)
        ELSE Removed(mid, {}, book'.levels)
    BY <1>7, <2>1, <2>3, <2>5
  <2>7. /\ IF rested THEN book'.nextId = book.nextId + 1 /\ book.nextId < MaxOrderId
                     ELSE book'.nextId = book.nextId
        /\ \/ book'.allocated = book.allocated
           \/ book'.allocated = book.allocated + 1 /\ book.allocated < MaxLevels
    BY <1>1, <1>7, <1>10, <2>1, <2>5 DEF CanAssignId, CanAllocate
  <2>8. Placed(u, side, price, q, m, rested, mid)
    BY <1>1, <1>3, <1>4, <1>5, <1>6, <2>1, <2>5, <2>6, <2>7 DEF Placed, Traded, order
  <2> QED BY <2>8
<1> QED BY <1>9, <1>10

(* What the order at a place has locked, and whose order it is.            *)
Locked(levels, at) ==
  LET o == OrderAt(levels, at) IN Collateral(o.side, o.qty, at[1])
LockedUsdc(levels) == [at \in Resting(levels) |-> Locked(levels, at).usdc]
LockedYes(levels) == [at \in Resting(levels) |-> Locked(levels, at).yes]
LockedNo(levels) == [at \in Resting(levels) |-> Locked(levels, at).no]
Owners(levels) == [at \in Resting(levels) |-> OrderAt(levels, at).owner]

(* What an order locks: one of the three collaterals.                      *)
LEMMA CollateralNat ==
  ASSUME NEW side, NEW q \in Nat, NEW p \in Prices
  PROVE  /\ EscrowFor(q, p) \in Nat
         /\ Collateral(side, q, p) \in [usdc : Nat, yes : Nat, no : Nat]
         /\ Collateral(side, q, p).usdc = IF side = UsdcBid THEN EscrowFor(q, p) ELSE 0
         /\ Collateral(side, q, p).yes = IF side = YesAsk THEN q ELSE 0
         /\ Collateral(side, q, p).no = IF side = NoBid THEN q ELSE 0
<1>1. Dollar \in Nat \ {0} /\ q * p \in Nat
  <2>1. Dollar \in Nat \ {0} /\ p \in Nat
    BY DollarAssumption DEF Prices
  <2> QED BY <2>1, ProductNat
<1>2. EscrowFor(q, p) \in Nat
  BY <1>1, CeilBounds DEF EscrowFor
<1> QED BY <1>2 DEF Collateral

(* What a resting order locks is a natural, and someone owns it.           *)
LEMMA LockedTypes ==
  ASSUME NEW levels, LevelsOK(levels, Orders), NEW at \in Resting(levels)
  PROVE  /\ LockedUsdc(levels)[at] \in Nat /\ LockedYes(levels)[at] \in Nat
         /\ LockedNo(levels)[at] \in Nat /\ Owners(levels)[at] \in Users
<1> DEFINE o == OrderAt(levels, at)
<1>1. at[1] \in Prices /\ o \in Orders /\ o.qty \in Nat /\ o.owner \in Users
  <2>1. at[1] \in Prices /\ o \in Orders
    BY RestingOrders
  <2> QED BY <2>1 DEF Orders
<1>2. Locked(levels, at) \in [usdc : Nat, yes : Nat, no : Nat]
  BY <1>1, CollateralNat DEF Locked
<1> QED BY <1>1, <1>2 DEF LockedUsdc, LockedYes, LockedNo, Owners

(* ReturnCollateral with its sums written as sums over the places.         *)
CollateralReturned(places) ==
  LET levels == book.levels
      back(d, v) == SumOf(Owned(d, places, Owners(levels), v), places)
  IN  /\ usdc' = [v \in Users |-> usdc[v] + back(LockedUsdc(levels), v)]
      /\ yes' = [v \in Users |-> yes[v] + back(LockedYes(levels), v)]
      /\ no' = [v \in Users |-> no[v] + back(LockedNo(levels), v)]
      /\ pot' = [pot EXCEPT !.escrow = @ - SumOf(LockedUsdc(levels), places),
                            !.yesEscrow = @ - SumOf(LockedYes(levels), places),
                            !.noEscrow = @ - SumOf(LockedNo(levels), places)]
      /\ NoOverdraft
      /\ UNCHANGED <<now, paused, delegated, supply, market, obligations, feed>>

(* Collateral that is returned, as sums over the places it comes from.     *)
LEMMA ReturnSums ==
  ASSUME BookTyped, NEW places \in SUBSET Resting(book.levels), ReturnCollateral(places)
  PROVE  CollateralReturned(places)
<1> DEFINE levels == book.levels
           back(at) == LET o == OrderAt(book.levels, at) IN Collateral(o.side, o.qty, at[1])
           owner(at) == OrderAt(book.levels, at).owner
           owned(v) == {at \in places : owner(at) = v}
           LU == LockedUsdc(levels)
           LY == LockedYes(levels)
           LN == LockedNo(levels)
           OW == Owners(levels)
<1>1. /\ usdc' = [v \in Users |-> usdc[v] + SumOver(owned(v), LAMBDA at : back(at).usdc)]
      /\ yes' = [v \in Users |-> yes[v] + SumOver(owned(v), LAMBDA at : back(at).yes)]
      /\ no' = [v \in Users |-> no[v] + SumOver(owned(v), LAMBDA at : back(at).no)]
      /\ pot' = [pot EXCEPT
           !.escrow = @ - SumOver(places, LAMBDA at : back(at).usdc),
           !.yesEscrow = @ - SumOver(places, LAMBDA at : back(at).yes),
           !.noEscrow = @ - SumOver(places, LAMBDA at : back(at).no)]
      /\ NoOverdraft
      /\ UNCHANGED <<now, paused, delegated, supply, market, obligations, feed>>
  BY Zenon DEF ReturnCollateral
<1>2. LevelsOK(levels, Orders) /\ IsFiniteSet(places)
  <2>1. LevelsOK(levels, Orders)
    BY DEF BookTyped, BookOK
  <2>2. IsFiniteSet(Resting(levels))
    BY <2>1, RestingFinite
  <2> QED BY <2>1, <2>2, FS_Subset
<1>3. \A at \in places :
        /\ LU[at] = back(at).usdc /\ LY[at] = back(at).yes /\ LN[at] = back(at).no
        /\ OW[at] = owner(at)
  BY DEF LockedUsdc, LockedYes, LockedNo, Owners, Locked
<1>4. Ints(LU, places) /\ Ints(LY, places) /\ Ints(LN, places)
  <2>1. \A at \in places : LU[at] \in Nat /\ LY[at] \in Nat /\ LN[at] \in Nat
    BY <1>2, LockedTypes
  <2> HIDE DEF LU, LY, LN
  <2> QED BY <2>1 DEF Ints
<1> HIDE DEF LU, LY, LN, OW, back, owner
<1>5. \A v : owned(v) = {at \in places : OW[at] = v}
  BY <1>3
<1>6. \A v : SumOver(owned(v), LAMBDA at : back(at).usdc) = SumOf(Owned(LU, places, OW, v), places)
  <2> TAKE v
  <2> DEFINE g == [at \in owned(v) |-> back(at).usdc]
  <2>1. \A at \in places : OW[at] = v => g[at] = LU[at]
    BY <1>3, <1>5
  <2>2. SumOver(owned(v), LAMBDA at : back(at).usdc) = SumOf(g, owned(v))
    BY Zenon DEF SumOver, SumFunction, SumOf
  <2> HIDE DEF g
  <2>3. SumOf(g, {at \in places : OW[at] = v}) = SumOf(Owned(LU, places, OW, v), places)
    BY <1>2, <1>4, <2>1, SumOwned
  <2> HIDE DEF owned
  <2> QED BY <1>5, <2>2, <2>3
<1>7. \A v : SumOver(owned(v), LAMBDA at : back(at).yes) = SumOf(Owned(LY, places, OW, v), places)
  <2> TAKE v
  <2> DEFINE g == [at \in owned(v) |-> back(at).yes]
  <2>1. \A at \in places : OW[at] = v => g[at] = LY[at]
    BY <1>3, <1>5
  <2>2. SumOver(owned(v), LAMBDA at : back(at).yes) = SumOf(g, owned(v))
    BY Zenon DEF SumOver, SumFunction, SumOf
  <2> HIDE DEF g
  <2>3. SumOf(g, {at \in places : OW[at] = v}) = SumOf(Owned(LY, places, OW, v), places)
    BY <1>2, <1>4, <2>1, SumOwned
  <2> HIDE DEF owned
  <2> QED BY <1>5, <2>2, <2>3
<1>8. \A v : SumOver(owned(v), LAMBDA at : back(at).no) = SumOf(Owned(LN, places, OW, v), places)
  <2> TAKE v
  <2> DEFINE g == [at \in owned(v) |-> back(at).no]
  <2>1. \A at \in places : OW[at] = v => g[at] = LN[at]
    BY <1>3, <1>5
  <2>2. SumOver(owned(v), LAMBDA at : back(at).no) = SumOf(g, owned(v))
    BY Zenon DEF SumOver, SumFunction, SumOf
  <2> HIDE DEF g
  <2>3. SumOf(g, {at \in places : OW[at] = v}) = SumOf(Owned(LN, places, OW, v), places)
    BY <1>2, <1>4, <2>1, SumOwned
  <2> HIDE DEF owned
  <2> QED BY <1>5, <2>2, <2>3
<1>9. /\ SumOver(places, LAMBDA at : back(at).usdc) = SumOf(LU, places)
      /\ SumOver(places, LAMBDA at : back(at).yes) = SumOf(LY, places)
      /\ SumOver(places, LAMBDA at : back(at).no) = SumOf(LN, places)
  <2> DEFINE gu == [at \in places |-> back(at).usdc]
             gy == [at \in places |-> back(at).yes]
             gn == [at \in places |-> back(at).no]
  <2>1. \A at \in places : LU[at] = gu[at] /\ LY[at] = gy[at] /\ LN[at] = gn[at]
    BY <1>3
  <2>2. /\ SumOver(places, LAMBDA at : back(at).usdc) = SumOf(gu, places)
        /\ SumOver(places, LAMBDA at : back(at).yes) = SumOf(gy, places)
        /\ SumOver(places, LAMBDA at : back(at).no) = SumOf(gn, places)
    BY Zenon DEF SumOver, SumFunction, SumOf
  <2> HIDE DEF gu, gy, gn
  <2>3. /\ SumOf(LU, places) = SumOf(gu, places) /\ SumOf(LY, places) = SumOf(gy, places)
        /\ SumOf(LN, places) = SumOf(gn, places)
    BY <1>2, <1>4, <2>1, SumSame
  <2> QED BY <2>2, <2>3
<1> HIDE DEF owned
<1> QED BY <1>1, <1>6, <1>7, <1>8, <1>9, Zenon DEF CollateralReturned, LU, LY, LN, OW

(* Cancels and cranks: the orders they take off the book, and what their   *)
(* owners get.                                                             *)
Unrested(places) ==
  /\ places \in SUBSET Resting(book.levels)
  /\ CollateralReturned(places)
  /\ BookOK(book', Orders)
  /\ book'.nextId = book.nextId /\ book'.allocated = book.allocated
  /\ Removed(book.levels, places, book'.levels)

(* Cancelling and cranking take orders off the book, collateral goes back. *)
LEMMA CancelFacts ==
  ASSUME BookTyped,
         \/ \E u \in Users, at \in Resting(book.levels) : CancelOrder(u, at)
         \/ \E n \in CrankBatches : CrankCancel(n)
  PROVE  \E places : Unrested(places)
<1>1. /\ BookOK(book, Orders) /\ LevelsOK(book.levels, Orders)
      /\ book = [levels |-> book.levels, nextId |-> book.nextId, allocated |-> book.allocated]
  BY DEF BookTyped, BookOK
<1>2. ASSUME NEW levels, LevelsOK(levels, Orders), book' = [book EXCEPT !.levels = levels]
      PROVE  /\ BookOK(book', Orders) /\ book'.levels = levels
             /\ book'.nextId = book.nextId /\ book'.allocated = book.allocated
  BY <1>1, <1>2 DEF BookOK, LevelsOK
<1>3. ASSUME NEW u \in Users, NEW at \in Resting(book.levels), CancelOrder(u, at)
      PROVE  Unrested({at})
  <2> DEFINE new == RemoveOrder(book.levels, at)
  <2>1. book' = [book EXCEPT !.levels = new] /\ ReturnCollateral({at})
    BY <1>3, Zenon DEF CancelOrder
  <2>2. LevelsOK(new, Orders) /\ Removed(book.levels, {at}, new)
    BY <1>1, RemoveOrderRemoves
  <2> HIDE DEF new
  <2>3. /\ BookOK(book', Orders) /\ book'.levels = new
        /\ book'.nextId = book.nextId /\ book'.allocated = book.allocated
    BY <1>2, <2>1, <2>2
  <2>4. CollateralReturned({at})
    BY <2>1, ReturnSums
  <2> QED BY <2>2, <2>3, <2>4 DEF Unrested
<1>4. ASSUME NEW n \in CrankBatches, CrankCancel(n)
      PROVE  Unrested(ToSet(CrankBatch(book.levels, n)))
  <2> DEFINE batch == CrankBatch(book.levels, n)
             new == AfterCrank(book.levels, batch, n)
  <2>1. batch # <<>> /\ book' = [book EXCEPT !.levels = new] /\ ReturnCollateral(ToSet(batch))
    BY <1>4, Zenon DEF CrankCancel
  <2>2. /\ ToSet(batch) \in SUBSET Resting(book.levels) /\ LevelsOK(new, Orders)
        /\ Removed(book.levels, ToSet(batch), new)
    BY <1>1, <2>1, AfterCrankRemoves, MarketAssumption
  <2> HIDE DEF new, batch
  <2>3. /\ BookOK(book', Orders) /\ book'.levels = new
        /\ book'.nextId = book.nextId /\ book'.allocated = book.allocated
    BY <1>2, <2>1, <2>2
  <2>4. CollateralReturned(ToSet(batch))
    BY <2>1, <2>2, ReturnSums
  <2>5. Unrested(ToSet(batch))
    BY <2>2, <2>3, <2>4 DEF Unrested
  <2> QED BY <2>5 DEF batch
<1> QED BY <1>3, <1>4
-----------------------------------------------------------------------------
(* The ledger: what every account holds.                                   *)

MoneyTypes ==
  /\ usdc \in [Users -> Nat] /\ yes \in [Users -> Nat] /\ no \in [Users -> Nat]
  /\ pot \in [vault : Nat, escrow : Nat, yesEscrow : Nat, noEscrow : Nat, feeVault : Nat,
              treasury : Nat]
  /\ supply \in [yes : Int, no : Int]
  /\ market \in [minted : Int, redeemed : Int, outcome : {Unsettled, YesWins, NoWins},
                 settledAt : Nat, deadline : Nat, overrides : Nat, closed : BOOLEAN]

(* MoneyConserved with its sums as sums over the users.                    *)
Conserved ==
  /\ SumOf(usdc, Users) + pot.vault + pot.escrow + pot.feeVault + pot.treasury
       = Cardinality(Users) * Funds
  /\ supply.yes = SumOf(yes, Users) + pot.yesEscrow
  /\ supply.no = SumOf(no, Users) + pot.noEscrow

Ledger == MoneyTypes /\ VaultBacksTokens /\ Conserved

(* The sums over all wallets are those the invariants speak of.            *)
LEMMA WalletSums ==
  ASSUME MoneyTypes
  PROVE  /\ SumFunction(usdc) = SumOf(usdc, Users) /\ SumOf(usdc, Users) \in Nat
         /\ SumFunction(yes) = SumOf(yes, Users) /\ SumOf(yes, Users) \in Nat
         /\ SumFunction(no) = SumOf(no, Users) /\ SumOf(no, Users) \in Nat
<1>1. DOMAIN usdc = Users /\ DOMAIN yes = Users /\ DOMAIN no = Users
  BY DEF MoneyTypes
<1>2. Nats(usdc, Users) /\ Nats(yes, Users) /\ Nats(no, Users) /\ IsFiniteSet(Users)
  BY MarketAssumption DEF MoneyTypes, Nats
<1> QED BY <1>1, <1>2, SumNat DEF SumFunction, SumOf

(* Every wallet is a sum's worth of integers.                              *)
LEMMA WalletInts ==
  ASSUME MoneyTypes
  PROVE  /\ IsFiniteSet(Users) /\ Ints(usdc, Users) /\ Ints(yes, Users) /\ Ints(no, Users)
         /\ SumOf(usdc, Users) \in Int /\ SumOf(yes, Users) \in Int /\ SumOf(no, Users) \in Int
<1>1. IsFiniteSet(Users) /\ Ints(usdc, Users) /\ Ints(yes, Users) /\ Ints(no, Users)
  BY MarketAssumption DEF MoneyTypes, Ints
<1> QED BY <1>1, WalletSums

(* Funds is what every wallet starts with, and there is nothing else.      *)
LEMMA InitLedger == Init => Ledger /\ BookTyped
<1> SUFFICES ASSUME Init PROVE Ledger /\ BookTyped
  OBVIOUS
<1>1. Funds \in Nat /\ IsFiniteSet(Users) /\ Cardinality(Users) \in Nat
  BY MarketAssumption, FS_CardinalityType
<1>2. MoneyTypes
  BY <1>1 DEF Init, MoneyTypes, Unsettled
<1>3. SumOf(usdc, Users) = Cardinality(Users) * Funds
  <2>1. \A v \in Users : usdc[v] = Funds
    BY DEF Init
  <2> QED BY <1>1, <2>1, SumConstant
<1>4. SumOf(yes, Users) = 0 /\ SumOf(no, Users) = 0
  <2>1. \A v \in Users : yes[v] = 0 /\ no[v] = 0
    BY DEF Init
  <2> QED BY <1>1, <2>1, SumZero
<1>5. /\ pot.vault = 0 /\ pot.escrow = 0 /\ pot.yesEscrow = 0 /\ pot.noEscrow = 0
      /\ pot.feeVault = 0 /\ pot.treasury = 0 /\ supply.yes = 0 /\ supply.no = 0
      /\ market.minted = 0 /\ market.redeemed = 0 /\ market.outcome = Unsettled
  BY DEF Init
<1>6. Cardinality(Users) * Funds \in Nat
  BY <1>1, ProductNat
<1>7. Conserved
  BY <1>3, <1>4, <1>5, <1>6 DEF Conserved
<1>8. VaultBacksTokens
  BY <1>5 DEF VaultBacksTokens, Outstanding, Settled
<1>9. BookTyped
  <2>1. book.levels = [p \in Prices |-> <<>>]
    BY DEF Init, EmptyBook
  <2>2. LevelsOK(book.levels, Orders)
    <3>1. book.levels \in [Prices -> Seq(Orders \cup {NoOrder})]
      BY <2>1
    <3>2. NoOrder \notin Orders
      BY MarketAssumption DEF Orders
    <3>3. \A o \in Orders : o.qty \in Nat \ {0} /\ o.ts \in Nat /\ o.side \in Sides
      BY DEF Orders
    <3> QED BY <3>1, <3>2, <3>3 DEF LevelsOK
  <2>3. book = [levels |-> book.levels, nextId |-> 0, allocated |-> 0] /\ now \in Nat
    BY DEF Init, EmptyBook
  <2> QED BY <2>2, <2>3 DEF BookTyped, BookOK, LevelsOK
<1> QED BY <1>2, <1>7, <1>8, <1>9 DEF Ledger

(* Whatever the fills of an order are, the ledger balances after it.       *)
LEMMA PlaceLedger ==
  ASSUME Ledger, NEW u \in Users, NEW side \in Sides, NEW price \in Prices, NEW q \in Nat,
         NEW m, NEW rested, NEW mid, Placed(u, side, price, q, m, rested, mid),
         CanAfford(u, Collateral(side, q, price)), ~ Settled
  PROVE  Ledger'
<1> DEFINE fs == m.fills
           deposit == Collateral(side, q, price)
           refund == Collateral(side, Refunded(m, rested), price)
           tu == Sum(TakerUsdcs(side, fs))
           mu == Sum(MakerUsdcs(side, fs))
           be == Sum(Betters(side, price, fs))
           vp == Sum(VaultPays(side, fs))
           ep == Sum(EscrowPays(side, fs))
           fe == Sum(Fees(fs))
           ty == Sum(TakerYess(side, fs))
           my == Sum(MakerYess(side, fs))
           bu == Sum(Burns(fs))
           qy == Sum(Qtys(fs))
           gu(v) == MakerGets(MakerUsdcs(side, fs), fs, v)
           gy(v) == MakerGets(MakerYess(side, fs), fs, v)
           K == DOMAIN fs
<1>1. /\ usdc' = [v \in Users |-> usdc[v] + gu(v)
                     + IF v = u THEN tu + be + refund.usdc - deposit.usdc ELSE 0]
      /\ yes' = [v \in Users |-> yes[v] + gy(v)
                     + IF v = u THEN ty + refund.yes - deposit.yes ELSE 0]
      /\ no' = [no EXCEPT ![u] = @ + refund.no - deposit.no]
      /\ pot' = [pot EXCEPT !.vault = @ - vp,
                            !.escrow = @ + deposit.usdc - be - refund.usdc - ep,
                            !.yesEscrow = @ + deposit.yes - refund.yes - qy,
                            !.noEscrow = @ + deposit.no - refund.no - bu,
                            !.feeVault = @ + fe]
      /\ supply' = [yes |-> supply.yes - bu, no |-> supply.no - bu]
      /\ market' = [market EXCEPT !.redeemed = @ + bu]
      /\ NoOverdraft
  BY Zenon DEF Placed, Traded, OrderSettled
<1>2. FillsOK(side, price, fs) /\ rested \in BOOLEAN /\ m.remaining \in Nat
  BY DEF Placed, Traded, MatchOK, Matches
<1>3. /\ IsFiniteSet(K) /\ tu \in Nat /\ mu \in Nat /\ fe \in Nat /\ be \in Nat
      /\ vp = bu /\ bu \in Nat /\ ep \in Nat /\ tu + mu + fe = vp + ep
      /\ ty \in Nat /\ my \in Nat /\ qy \in Nat /\ ty + my + bu = qy
      /\ \A v : gu(v) \in Nat /\ gy(v) \in Nat
  BY <1>2, FillTotals
<1>4. /\ deposit.usdc \in Nat /\ deposit.yes \in Nat /\ deposit.no \in Nat
      /\ refund.usdc \in Nat /\ refund.yes \in Nat /\ refund.no \in Nat
  <2>1. Refunded(m, rested) \in Nat
    BY <1>2 DEF Refunded
  <2>2. deposit \in [usdc : Nat, yes : Nat, no : Nat] /\ refund \in [usdc : Nat, yes : Nat, no : Nat]
    BY <2>1, CollateralNat
  <2> HIDE DEF deposit, refund
  <2> QED BY <2>2
<1>5. usdc[u] >= deposit.usdc /\ yes[u] >= deposit.yes /\ no[u] >= deposit.no
  BY DEF CanAfford
<1>6. /\ IsFiniteSet(Users) /\ Ints(usdc, Users) /\ Ints(yes, Users) /\ Ints(no, Users)
      /\ SumOf(usdc, Users) \in Int /\ SumOf(yes, Users) \in Int /\ SumOf(no, Users) \in Int
  BY WalletInts DEF Ledger
<1>7. Ints(MakerUsdcs(side, fs), K) /\ Ints(MakerYess(side, fs), K)
      /\ \A k \in K : Makers(fs)[k] \in Users
  <2>1. \A k \in K : /\ MakerUsdcs(side, fs)[k] \in Nat /\ MakerYess(side, fs)[k] \in Nat
                     /\ Makers(fs)[k] \in Users
    BY <1>2, FillTypes
  <2> QED BY <2>1 DEF Ints
<1>8. SumOf(MakerUsdcs(side, fs), K) = mu /\ SumOf(MakerYess(side, fs), K) = my
  BY DEF Sum, MakerUsdcs, MakerYess
<1>9. \A v : /\ gu(v) = SumOf(Owned(MakerUsdcs(side, fs), K, Makers(fs), v), K)
             /\ gy(v) = SumOf(Owned(MakerYess(side, fs), K, Makers(fs), v), K)
  BY DEF MakerGets
<1> HIDE DEF tu, mu, be, vp, ep, fe, ty, my, bu, qy, gu, gy, deposit, refund, K, fs
<1>10. SumOf(usdc', Users) = SumOf(usdc, Users) + mu + (tu + be + refund.usdc - deposit.usdc)
  <2> DEFINE c == tu + be + refund.usdc - deposit.usdc
             d == MakerUsdcs(side, fs)
             o == Makers(fs)
             h == usdc'
  <2>1. c \in Int /\ Ints(d, K) /\ \A k \in K : o[k] \in Users
    BY <1>3, <1>4, <1>7
  <2>2. \A v \in Users : h[v] = usdc[v] + SumOf(Owned(d, K, o, v), K) + IF v = u THEN c ELSE 0
    BY <1>1, <1>9
  <2> HIDE DEF c, d, o, h
  <2>3. SumOf(h, Users) = SumOf(usdc, Users) + SumOf(d, K) + c
    BY <1>3, <1>6, <2>1, <2>2, SumPaid
  <2> QED BY <1>8, <2>3 DEF c, d, h
<1>11. SumOf(yes', Users) = SumOf(yes, Users) + my + (ty + refund.yes - deposit.yes)
  <2> DEFINE c == ty + refund.yes - deposit.yes
             d == MakerYess(side, fs)
             o == Makers(fs)
             h == yes'
  <2>1. c \in Int /\ Ints(d, K) /\ \A k \in K : o[k] \in Users
    BY <1>3, <1>4, <1>7
  <2>2. \A v \in Users : h[v] = yes[v] + SumOf(Owned(d, K, o, v), K) + IF v = u THEN c ELSE 0
    BY <1>1, <1>9
  <2> HIDE DEF c, d, o, h
  <2>3. SumOf(h, Users) = SumOf(yes, Users) + SumOf(d, K) + c
    BY <1>3, <1>6, <2>1, <2>2, SumPaid
  <2> QED BY <1>8, <2>3 DEF c, d, h
<1>12. SumOf(no', Users) = SumOf(no, Users) + (refund.no - deposit.no)
  <2> DEFINE c == refund.no - deposit.no
  <2>1. c \in Int
    BY <1>4
  <2>2. \A v \in Users : no'[v] = no[v] + IF v = u THEN c ELSE 0
    BY <1>1, <1>4 DEF Ledger, MoneyTypes
  <2> HIDE DEF c
  <2>3. SumOf(no', Users) = SumOf(no, Users) + c
    BY <1>6, <2>1, <2>2, SumOneChanged
  <2> QED BY <2>3 DEF c
<1>13. /\ pot' = [vault |-> pot.vault - vp,
                  escrow |-> pot.escrow + deposit.usdc - be - refund.usdc - ep,
                  yesEscrow |-> pot.yesEscrow + deposit.yes - refund.yes - qy,
                  noEscrow |-> pot.noEscrow + deposit.no - refund.no - bu,
                  feeVault |-> pot.feeVault + fe, treasury |-> pot.treasury]
       /\ pot.vault \in Nat /\ pot.escrow \in Nat /\ pot.yesEscrow \in Nat
       /\ pot.noEscrow \in Nat /\ pot.feeVault \in Nat /\ pot.treasury \in Nat
  BY <1>1 DEF Ledger, MoneyTypes
<1>14. pot'.vault >= 0 /\ pot'.escrow >= 0 /\ pot'.yesEscrow >= 0 /\ pot'.noEscrow >= 0
  <2>1. DOMAIN pot = {"vault", "escrow", "yesEscrow", "noEscrow", "feeVault", "treasury"}
    BY DEF Ledger, MoneyTypes
  <2> QED BY <1>1, <2>1 DEF NoOverdraft
<1>15. MoneyTypes'
  <2>1. usdc' \in [Users -> Nat]
    <3>1. ASSUME NEW v \in Users
          PROVE  usdc[v] + gu(v) + (IF v = u THEN tu + be + refund.usdc - deposit.usdc ELSE 0) \in Nat
      <4>1. usdc[v] \in Nat /\ gu(v) \in Nat
        BY <1>3 DEF Ledger, MoneyTypes
      <4> QED BY <1>3, <1>4, <1>5, <4>1
    <3> QED BY <1>1, <3>1
  <2>2. yes' \in [Users -> Nat]
    <3>1. ASSUME NEW v \in Users
          PROVE  yes[v] + gy(v) + (IF v = u THEN ty + refund.yes - deposit.yes ELSE 0) \in Nat
      <4>1. yes[v] \in Nat /\ gy(v) \in Nat
        BY <1>3 DEF Ledger, MoneyTypes
      <4> QED BY <1>3, <1>4, <1>5, <4>1
    <3> QED BY <1>1, <3>1
  <2>3. no' \in [Users -> Nat]
    <3>1. no \in [Users -> Nat] /\ no[u] + refund.no - deposit.no \in Nat
      BY <1>4, <1>5 DEF Ledger, MoneyTypes
    <3> QED BY <1>1, <3>1
  <2>4. pot' \in [vault : Nat, escrow : Nat, yesEscrow : Nat, noEscrow : Nat, feeVault : Nat,
                  treasury : Nat]
    <3>1. /\ pot.vault - vp \in Nat
          /\ pot.escrow + deposit.usdc - be - refund.usdc - ep \in Nat
          /\ pot.yesEscrow + deposit.yes - refund.yes - qy \in Nat
          /\ pot.noEscrow + deposit.no - refund.no - bu \in Nat
          /\ pot.feeVault + fe \in Nat
      BY <1>3, <1>4, <1>13, <1>14
    <3> QED BY <1>13, <3>1
  <2>5. supply' \in [yes : Int, no : Int]
    BY <1>1, <1>3 DEF Ledger, MoneyTypes
  <2>6. market' \in [minted : Int, redeemed : Int, outcome : {Unsettled, YesWins, NoWins},
                     settledAt : Nat, deadline : Nat, overrides : Nat, closed : BOOLEAN]
    BY <1>1, <1>3 DEF Ledger, MoneyTypes
  <2> QED BY <2>1, <2>2, <2>3, <2>4, <2>5, <2>6 DEF MoneyTypes
<1>16. /\ pot'.vault = pot.vault - vp /\ pot'.feeVault = pot.feeVault + fe
       /\ pot'.escrow = pot.escrow + deposit.usdc - be - refund.usdc - ep
       /\ pot'.yesEscrow = pot.yesEscrow + deposit.yes - refund.yes - qy
       /\ pot'.noEscrow = pot.noEscrow + deposit.no - refund.no - bu
       /\ pot'.treasury = pot.treasury
       /\ supply'.yes = supply.yes - bu /\ supply'.no = supply.no - bu
       /\ supply.yes \in Int /\ supply.no \in Int
  BY <1>1, <1>13 DEF Ledger, MoneyTypes
<1>17. Conserved'
  <2>1. SumOf(usdc', Users) + pot'.vault + pot'.escrow + pot'.feeVault + pot'.treasury
          = SumOf(usdc, Users) + pot.vault + pot.escrow + pot.feeVault + pot.treasury
    <3> DEFINE a == SumOf(usdc, Users)
               c == deposit.usdc - be - refund.usdc
    <3>1. a \in Int /\ SumOf(usdc', Users) = a + mu + (tu + be + refund.usdc - deposit.usdc)
      BY <1>6, <1>10
    <3>2. /\ pot.vault \in Int /\ pot.escrow \in Int /\ pot.feeVault \in Int
          /\ pot.treasury \in Int /\ c \in Int
      BY <1>3, <1>4, <1>13
    <3> HIDE DEF a
    <3>3. SumOf(usdc', Users) = a + mu + tu - c
      BY <1>3, <1>4, <3>1
    <3>4. pot'.escrow = pot.escrow + c - ep
      BY <1>3, <1>4, <1>16, <3>2
    <3> HIDE DEF c
    <3>5. /\ pot'.vault = pot.vault - vp /\ pot'.feeVault = pot.feeVault + fe
          /\ pot'.treasury = pot.treasury
      BY <1>16
    <3>6. /\ mu \in Int /\ tu \in Int /\ fe \in Int /\ vp \in Int /\ ep \in Int
          /\ tu + mu + fe = vp + ep
      BY <1>3
    <3>7. SumOf(usdc', Users) + pot'.vault + pot'.escrow + pot'.feeVault + pot'.treasury
            = a + pot.vault + pot.escrow + pot.feeVault + pot.treasury
      BY <3>1, <3>2, <3>3, <3>4, <3>5, <3>6
    <3> QED BY <3>7 DEF a
  <2>2. supply'.yes = SumOf(yes', Users) + pot'.yesEscrow
    <3> DEFINE a == SumOf(yes, Users)
    <3>1. /\ a \in Int /\ SumOf(yes', Users) = a + my + (ty + refund.yes - deposit.yes)
          /\ supply.yes = a + pot.yesEscrow
      BY <1>6, <1>11 DEF Ledger, Conserved
    <3> HIDE DEF a
    <3>2. SumOf(yes', Users) + pot'.yesEscrow = a + pot.yesEscrow + (ty + my - qy)
      BY <1>3, <1>4, <1>13, <1>16, <3>1
    <3>3. ty + my - qy = - bu
      BY <1>3
    <3> QED BY <1>3, <1>13, <1>16, <3>1, <3>2, <3>3
  <2>3. supply'.no = SumOf(no', Users) + pot'.noEscrow
    BY <1>3, <1>4, <1>6, <1>12, <1>13, <1>16 DEF Ledger, Conserved
  <2> QED BY <2>1, <2>2, <2>3 DEF Ledger, Conserved
<1>18. VaultBacksTokens'
  <2>1. /\ market'.minted = market.minted /\ market'.redeemed = market.redeemed + bu
        /\ market'.outcome = market.outcome
        /\ market.minted \in Int /\ market.redeemed \in Int
    BY <1>1 DEF Ledger, MoneyTypes
  <2>2. /\ pot.vault = market.minted - market.redeemed
        /\ supply.yes = pot.vault /\ supply.no = pot.vault
    BY DEF Ledger, VaultBacksTokens, Outstanding
  <2>3. ~ Settled'
    BY <2>1 DEF Settled
  <2> QED BY <1>3, <1>13, <1>16, <2>1, <2>2, <2>3 DEF VaultBacksTokens, Outstanding
<1> QED BY <1>15, <1>17, <1>18 DEF Ledger

(* The accounts of the market by their names.                              *)
LEMMA PotFields ==
  ASSUME MoneyTypes
  PROVE  /\ pot = [vault |-> pot.vault, escrow |-> pot.escrow, yesEscrow |-> pot.yesEscrow,
                   noEscrow |-> pot.noEscrow, feeVault |-> pot.feeVault,
                   treasury |-> pot.treasury]
         /\ DOMAIN pot = {"vault", "escrow", "yesEscrow", "noEscrow", "feeVault", "treasury"}
         /\ pot.vault \in Nat /\ pot.escrow \in Nat /\ pot.yesEscrow \in Nat
         /\ pot.noEscrow \in Nat /\ pot.feeVault \in Nat /\ pot.treasury \in Nat
         /\ supply = [yes |-> supply.yes, no |-> supply.no]
         /\ supply.yes \in Int /\ supply.no \in Int
         /\ market.minted \in Int /\ market.redeemed \in Int
         /\ market.outcome \in {Unsettled, YesWins, NoWins}
BY DEF MoneyTypes

(* An instruction that touches neither mints nor the account of the market.*)
LEMMA SameBacking ==
  ASSUME VaultBacksTokens, UNCHANGED <<supply, market>>, pot'.vault = pot.vault
  PROVE  VaultBacksTokens'
BY DEF VaultBacksTokens, Outstanding, Settled, WinningSupply

(* Collateral goes back from the escrows to the owners.                    *)
LEMMA ReturnLedger ==
  ASSUME Ledger, BookTyped, NEW places, Unrested(places)
  PROVE  Ledger'
<1> DEFINE L == book.levels
           LU == LockedUsdc(L)
           LY == LockedYes(L)
           LN == LockedNo(L)
           OW == Owners(L)
           eu == SumOf(LU, places)
           ey == SumOf(LY, places)
           en == SumOf(LN, places)
<1>1. /\ usdc' = [v \in Users |-> usdc[v] + SumOf(Owned(LU, places, OW, v), places)]
      /\ yes' = [v \in Users |-> yes[v] + SumOf(Owned(LY, places, OW, v), places)]
      /\ no' = [v \in Users |-> no[v] + SumOf(Owned(LN, places, OW, v), places)]
      /\ pot' = [pot EXCEPT !.escrow = @ - eu, !.yesEscrow = @ - ey, !.noEscrow = @ - en]
      /\ NoOverdraft
      /\ supply' = supply /\ market' = market
  BY Zenon DEF Unrested, CollateralReturned
<1>2. LevelsOK(L, Orders) /\ places \in SUBSET Resting(L) /\ IsFiniteSet(places)
  <2>1. LevelsOK(L, Orders) /\ places \in SUBSET Resting(L)
    BY DEF BookTyped, BookOK, Unrested
  <2>2. IsFiniteSet(Resting(L))
    BY <2>1, RestingFinite
  <2> QED BY <2>1, <2>2, FS_Subset
<1>3. \A at \in places : LU[at] \in Nat /\ LY[at] \in Nat /\ LN[at] \in Nat /\ OW[at] \in Users
  BY <1>2, LockedTypes
<1> HIDE DEF LU, LY, LN, OW, L
<1>4. /\ Nats(LU, places) /\ Nats(LY, places) /\ Nats(LN, places)
      /\ Ints(LU, places) /\ Ints(LY, places) /\ Ints(LN, places)
  BY <1>3 DEF Nats, Ints
<1>5. /\ IsFiniteSet(Users) /\ Ints(usdc, Users) /\ Ints(yes, Users) /\ Ints(no, Users)
      /\ SumOf(usdc, Users) \in Int /\ SumOf(yes, Users) \in Int /\ SumOf(no, Users) \in Int
  BY WalletInts DEF Ledger
<1>6. eu \in Nat /\ ey \in Nat /\ en \in Nat
  BY <1>2, <1>4, SumNat
<1>7. /\ SumOf(usdc', Users) = SumOf(usdc, Users) + eu
      /\ SumOf(yes', Users) = SumOf(yes, Users) + ey
      /\ SumOf(no', Users) = SumOf(no, Users) + en
  <2> DEFINE hu == usdc'
             hy == yes'
             hn == no'
  <2>1. /\ \A v \in Users : hu[v] = usdc[v] + SumOf(Owned(LU, places, OW, v), places)
        /\ \A v \in Users : hy[v] = yes[v] + SumOf(Owned(LY, places, OW, v), places)
        /\ \A v \in Users : hn[v] = no[v] + SumOf(Owned(LN, places, OW, v), places)
    BY <1>1
  <2>2. \A at \in places : OW[at] \in Users
    BY <1>3
  <2> HIDE DEF hu, hy, hn
  <2>3. SumOf(hu, Users) = SumOf(usdc, Users) + SumOf(LU, places)
    BY <1>2, <1>4, <1>5, <2>1, <2>2, SumOwnersChanged
  <2>4. SumOf(hy, Users) = SumOf(yes, Users) + SumOf(LY, places)
    BY <1>2, <1>4, <1>5, <2>1, <2>2, SumOwnersChanged
  <2>5. SumOf(hn, Users) = SumOf(no, Users) + SumOf(LN, places)
    BY <1>2, <1>4, <1>5, <2>1, <2>2, SumOwnersChanged
  <2> QED BY <2>3, <2>4, <2>5 DEF hu, hy, hn
<1>8. \A v : /\ SumOf(Owned(LU, places, OW, v), places) \in Nat
             /\ SumOf(Owned(LY, places, OW, v), places) \in Nat
             /\ SumOf(Owned(LN, places, OW, v), places) \in Nat
  BY <1>2, <1>4, OwnedNat
<1> HIDE DEF eu, ey, en
<1>9. /\ pot' = [vault |-> pot.vault, escrow |-> pot.escrow - eu,
                 yesEscrow |-> pot.yesEscrow - ey, noEscrow |-> pot.noEscrow - en,
                 feeVault |-> pot.feeVault, treasury |-> pot.treasury]
      /\ pot.vault \in Nat /\ pot.escrow \in Nat /\ pot.yesEscrow \in Nat
      /\ pot.noEscrow \in Nat /\ pot.feeVault \in Nat /\ pot.treasury \in Nat
      /\ supply.yes \in Int /\ supply.no \in Int
  BY <1>1, PotFields DEF Ledger
<1>10. pot'.escrow >= 0 /\ pot'.yesEscrow >= 0 /\ pot'.noEscrow >= 0
  <2>1. DOMAIN pot = {"vault", "escrow", "yesEscrow", "noEscrow", "feeVault", "treasury"}
    BY PotFields DEF Ledger
  <2> QED BY <1>1, <2>1 DEF NoOverdraft
<1>11. MoneyTypes'
  <2>1. usdc' \in [Users -> Nat] /\ yes' \in [Users -> Nat] /\ no' \in [Users -> Nat]
    BY <1>1, <1>8 DEF Ledger, MoneyTypes
  <2>2. pot' \in [vault : Nat, escrow : Nat, yesEscrow : Nat, noEscrow : Nat, feeVault : Nat,
                  treasury : Nat]
    <3>1. pot.escrow - eu \in Nat /\ pot.yesEscrow - ey \in Nat /\ pot.noEscrow - en \in Nat
      BY <1>6, <1>9, <1>10
    <3> QED BY <1>9, <3>1
  <2> QED BY <1>1, <2>1, <2>2 DEF Ledger, MoneyTypes
<1>12. Conserved'
  <2>1. /\ pot'.vault = pot.vault /\ pot'.escrow = pot.escrow - eu
        /\ pot'.yesEscrow = pot.yesEscrow - ey /\ pot'.noEscrow = pot.noEscrow - en
        /\ pot'.feeVault = pot.feeVault /\ pot'.treasury = pot.treasury
    BY <1>9
  <2>2. SumOf(usdc', Users) + pot'.vault + pot'.escrow + pot'.feeVault + pot'.treasury
          = SumOf(usdc, Users) + pot.vault + pot.escrow + pot.feeVault + pot.treasury
    BY <1>5, <1>6, <1>7, <1>9, <2>1
  <2>3. supply.yes = SumOf(yes', Users) + pot'.yesEscrow
        /\ supply.no = SumOf(no', Users) + pot'.noEscrow
    BY <1>5, <1>6, <1>7, <1>9, <2>1 DEF Ledger, Conserved
  <2> QED BY <1>1, <2>2, <2>3 DEF Ledger, Conserved
<1>13. VaultBacksTokens'
  <2>1. pot'.vault = pot.vault
    BY <1>9
  <2> QED BY <1>1, <2>1, SameBacking DEF Ledger
<1> QED BY <1>11, <1>12, <1>13 DEF Ledger

(* What one wallet gains or loses.                                         *)
LEMMA WalletChanged ==
  ASSUME NEW w, w \in [Users -> Nat], NEW u \in Users, NEW c \in Int
  PROVE  SumOf([w EXCEPT ![u] = @ + c], Users) = SumOf(w, Users) + c
<1> DEFINE h == [w EXCEPT ![u] = @ + c]
<1>1. Ints(w, Users) /\ IsFiniteSet(Users)
  BY MarketAssumption DEF Ints
<1>2. \A v \in Users : h[v] = w[v] + IF v = u THEN c ELSE 0
  OBVIOUS
<1> HIDE DEF h
<1>3. SumOf(h, Users) = SumOf(w, Users) + c
  BY <1>1, <1>2, SumOneChanged
<1> QED BY <1>3 DEF h

(* A mint and a burn of pairs move a dollar per pair in and out.           *)
LEMMA PairLedger ==
  ASSUME Ledger, NEW u \in Users, NEW q \in OrderQtys, MintPair(u, q) \/ RedeemPair(u, q)
  PROVE  Ledger'
<1>1. \E c \in Int :
        /\ usdc' = [usdc EXCEPT ![u] = @ + (0 - c)]
        /\ yes' = [yes EXCEPT ![u] = @ + c] /\ no' = [no EXCEPT ![u] = @ + c]
        /\ usdc[u] - c \in Nat /\ yes[u] + c \in Nat /\ no[u] + c \in Nat
        /\ pot' = [pot EXCEPT !.vault = @ + c] /\ pot.vault + c \in Nat
        /\ supply' = [yes |-> supply.yes + c, no |-> supply.no + c]
        /\ \/ market' = [market EXCEPT !.minted = @ + c]
           \/ market' = [market EXCEPT !.redeemed = @ - c]
  <2>1. /\ q \in Nat /\ usdc[u] \in Nat /\ yes[u] \in Nat /\ no[u] \in Nat /\ pot.vault \in Nat
        /\ usdc \in [Users -> Nat] /\ yes \in [Users -> Nat] /\ no \in [Users -> Nat]
        /\ supply.yes \in Int /\ supply.no \in Int /\ market.redeemed \in Int
    BY MarketAssumption DEF Ledger, MoneyTypes
  <2>2. CASE MintPair(u, q)
    <3>1. /\ usdc' = [usdc EXCEPT ![u] = @ - q]
          /\ yes' = [yes EXCEPT ![u] = @ + q] /\ no' = [no EXCEPT ![u] = @ + q]
          /\ pot' = [pot EXCEPT !.vault = @ + q]
          /\ supply' = [yes |-> supply.yes + q, no |-> supply.no + q]
          /\ market' = [market EXCEPT !.minted = @ + q] /\ usdc[u] >= q
      BY <2>2 DEF MintPair
    <3>2. /\ usdc[u] - q = usdc[u] + (0 - q) /\ q \in Int
          /\ usdc[u] - q \in Nat /\ yes[u] + q \in Nat /\ no[u] + q \in Nat
          /\ pot.vault + q \in Nat
      BY <2>1, <3>1
    <3>3. /\ usdc' = [usdc EXCEPT ![u] = @ + (0 - q)]
          /\ yes' = [yes EXCEPT ![u] = @ + q] /\ no' = [no EXCEPT ![u] = @ + q]
          /\ usdc[u] - q \in Nat /\ yes[u] + q \in Nat /\ no[u] + q \in Nat
          /\ pot' = [pot EXCEPT !.vault = @ + q] /\ pot.vault + q \in Nat
          /\ supply' = [yes |-> supply.yes + q, no |-> supply.no + q]
          /\ market' = [market EXCEPT !.minted = @ + q]
      BY <3>1, <3>2
    <3> QED BY <3>2, <3>3, Zenon
  <2>3. CASE RedeemPair(u, q)
    <3> DEFINE c == 0 - q
    <3>1. /\ usdc' = [usdc EXCEPT ![u] = @ + q]
          /\ yes' = [yes EXCEPT ![u] = @ - q] /\ no' = [no EXCEPT ![u] = @ - q]
          /\ pot' = [pot EXCEPT !.vault = @ - q]
          /\ supply' = [yes |-> supply.yes - q, no |-> supply.no - q]
          /\ market' = [market EXCEPT !.redeemed = @ + q]
          /\ yes[u] >= q /\ no[u] >= q /\ pot.vault >= q
      BY <2>3 DEF RedeemPair
    <3>2. /\ c \in Int /\ usdc[u] + q = usdc[u] + (0 - c) /\ yes[u] - q = yes[u] + c
          /\ no[u] - q = no[u] + c /\ pot.vault - q = pot.vault + c
          /\ supply.yes - q = supply.yes + c /\ supply.no - q = supply.no + c
          /\ market.redeemed + q = market.redeemed - c
          /\ usdc[u] - c \in Nat /\ yes[u] + c \in Nat /\ no[u] + c \in Nat
          /\ pot.vault + c \in Nat
      BY <2>1, <3>1
    <3> HIDE DEF c
    <3> QED BY <3>1, <3>2
  <2> QED BY <2>2, <2>3
<1>2. PICK c \in Int :
        /\ usdc' = [usdc EXCEPT ![u] = @ + (0 - c)]
        /\ yes' = [yes EXCEPT ![u] = @ + c] /\ no' = [no EXCEPT ![u] = @ + c]
        /\ usdc[u] - c \in Nat /\ yes[u] + c \in Nat /\ no[u] + c \in Nat
        /\ pot' = [pot EXCEPT !.vault = @ + c] /\ pot.vault + c \in Nat
        /\ supply' = [yes |-> supply.yes + c, no |-> supply.no + c]
        /\ \/ market' = [market EXCEPT !.minted = @ + c]
           \/ market' = [market EXCEPT !.redeemed = @ - c]
  BY <1>1
<1>3. MoneyTypes'
  <2>1. usdc' \in [Users -> Nat] /\ yes' \in [Users -> Nat] /\ no' \in [Users -> Nat]
    BY <1>2 DEF Ledger, MoneyTypes
  <2>2. pot' \in [vault : Nat, escrow : Nat, yesEscrow : Nat, noEscrow : Nat, feeVault : Nat,
                  treasury : Nat]
    BY <1>2 DEF Ledger, MoneyTypes
  <2>3. supply' \in [yes : Int, no : Int]
    BY <1>2 DEF Ledger, MoneyTypes
  <2>4. market' \in [minted : Int, redeemed : Int, outcome : {Unsettled, YesWins, NoWins},
                     settledAt : Nat, deadline : Nat, overrides : Nat, closed : BOOLEAN]
    BY <1>2 DEF Ledger, MoneyTypes
  <2> QED BY <2>1, <2>2, <2>3, <2>4 DEF MoneyTypes
<1>4. /\ pot'.vault = pot.vault + c /\ pot'.escrow = pot.escrow
      /\ pot'.yesEscrow = pot.yesEscrow /\ pot'.noEscrow = pot.noEscrow
      /\ pot'.feeVault = pot.feeVault /\ pot'.treasury = pot.treasury
      /\ supply'.yes = supply.yes + c /\ supply'.no = supply.no + c
      /\ pot.vault \in Nat /\ pot.escrow \in Nat /\ pot.yesEscrow \in Nat
      /\ pot.noEscrow \in Nat /\ pot.feeVault \in Nat /\ pot.treasury \in Nat
      /\ supply.yes \in Int /\ supply.no \in Int
  BY <1>2, PotFields DEF Ledger
<1>5. /\ SumOf(usdc', Users) = SumOf(usdc, Users) + (0 - c)
      /\ SumOf(yes', Users) = SumOf(yes, Users) + c
      /\ SumOf(no', Users) = SumOf(no, Users) + c
      /\ SumOf(usdc, Users) \in Int /\ SumOf(yes, Users) \in Int /\ SumOf(no, Users) \in Int
  <2>1. usdc \in [Users -> Nat] /\ yes \in [Users -> Nat] /\ no \in [Users -> Nat]
        /\ 0 - c \in Int
    BY DEF Ledger, MoneyTypes
  <2>2. /\ SumOf([usdc EXCEPT ![u] = @ + (0 - c)], Users) = SumOf(usdc, Users) + (0 - c)
        /\ SumOf([yes EXCEPT ![u] = @ + c], Users) = SumOf(yes, Users) + c
        /\ SumOf([no EXCEPT ![u] = @ + c], Users) = SumOf(no, Users) + c
    BY <2>1, WalletChanged
  <2> QED BY <1>2, <2>2, WalletInts, Zenon DEF Ledger
<1>6. Conserved'
  BY <1>4, <1>5 DEF Ledger, Conserved
<1>7. VaultBacksTokens'
  <2>1. /\ market'.minted - market'.redeemed = market.minted - market.redeemed + c
        /\ market'.outcome = market.outcome
    BY <1>2 DEF Ledger, MoneyTypes
  <2>2. Settled' = Settled /\ Outstanding' = Outstanding + c
    BY <2>1 DEF Settled, Outstanding
  <2>3. pot'.vault = Outstanding' /\ Outstanding \in Int
    BY <1>4, <2>2, PotFields DEF Ledger, VaultBacksTokens, Outstanding
  <2>4. ~ Settled' => supply'.yes = pot'.vault /\ supply'.no = pot'.vault
    BY <1>4, <2>2 DEF Ledger, VaultBacksTokens
  <2>5. Settled' => WinningSupply' = pot'.vault
    BY <1>4, <2>1, <2>2 DEF Ledger, VaultBacksTokens, WinningSupply
  <2> QED BY <2>3, <2>4, <2>5 DEF VaultBacksTokens
<1> QED BY <1>3, <1>6, <1>7 DEF Ledger

(* Winners are paid no more than they hold.                                *)
Payable(g) ==
  /\ DOMAIN g \in SUBSET Users
  /\ \A v \in DOMAIN g : g[v] \in Nat /\ g[v] <= Winnings(v)

(* Redemption pays out what it burns.                                      *)
LEMMA PayLedger ==
  ASSUME Ledger, Settled, NEW g, Payable(g), PayWinners(g)
  PROVE  Ledger'
<1> DEFINE who == DOMAIN g
           total == SumOf(g, who)
           burnt(balance) == [v \in Users |-> IF v \in who THEN balance[v] - g[v] ELSE balance[v]]
           won == market.outcome = YesWins
<1>1. /\ usdc' = [v \in Users |-> IF v \in who THEN usdc[v] + g[v] ELSE usdc[v]]
      /\ yes' = IF won THEN burnt(yes) ELSE yes
      /\ no' = IF won THEN no ELSE burnt(no)
      /\ supply' = IF won THEN [supply EXCEPT !.yes = @ - total]
                          ELSE [supply EXCEPT !.no = @ - total]
      /\ pot' = [pot EXCEPT !.vault = @ - total] /\ pot.vault >= total
      /\ market' = [market EXCEPT !.redeemed = @ + total]
  <2>1. market.outcome = NoWins <=> ~ won
    BY DEF Ledger, MoneyTypes, Settled, YesWins, NoWins, Unsettled
  <2>2. SumFunction(g) = total
    BY Zenon DEF SumFunction, SumOf
  <2> QED BY <2>1, <2>2, Zenon DEF PayWinners
<1>2. /\ IsFiniteSet(Users) /\ who \in SUBSET Users /\ IsFiniteSet(who)
      /\ Nats(g, who) /\ Ints(g, who)
      /\ Ints(usdc, Users) /\ Ints(yes, Users) /\ Ints(no, Users)
      /\ SumOf(usdc, Users) \in Int /\ SumOf(yes, Users) \in Int /\ SumOf(no, Users) \in Int
  BY WalletInts, FS_Subset DEF Ledger, Payable, Nats, Ints
<1>3. total \in Nat
  BY <1>2, SumNat
<1>4. \A v \in Users : usdc[v] \in Nat /\ yes[v] \in Nat /\ no[v] \in Nat
  BY DEF Ledger, MoneyTypes
<1>5. \A v \in who : g[v] \in Nat /\ g[v] <= IF won THEN yes[v] ELSE no[v]
  BY DEF Payable, Winnings
<1> HIDE DEF won, who
<1>6. SumOf(usdc', Users) = SumOf(usdc, Users) + total
  <2> DEFINE h == usdc'
  <2>1. \A v \in Users : h[v] = usdc[v] + IF v \in who THEN g[v] ELSE 0
    BY <1>1, <1>4
  <2> HIDE DEF h, total, burnt
  <2>2. IsFiniteSet(Users) /\ who \in SUBSET Users /\ Ints(usdc, Users) /\ Ints(g, who)
    BY <1>2
  <2>3. SumOf(h, Users) = SumOf(usdc, Users) + SumOf(g, who)
    BY <2>1, <2>2, SumPartGrows
  <2> QED BY <2>3 DEF h, total
<1>7. ASSUME NEW w \in [Users -> Nat], Ints(w, Users)
      PROVE  SumOf(burnt(w), Users) = SumOf(w, Users) - total
  <2> DEFINE h == burnt(w)
  <2>1. \A v \in Users : h[v] = w[v] - IF v \in who THEN g[v] ELSE 0
    BY <1>5
  <2> HIDE DEF h
  <2>2. SumOf(h, Users) = SumOf(w, Users) - SumOf(g, who)
    BY <1>2, <1>7, <2>1, SumPartShrinks
  <2> QED BY <2>2 DEF h
<1> HIDE DEF total
<1>8. /\ SumOf(yes', Users) = SumOf(yes, Users) - IF won THEN total ELSE 0
      /\ SumOf(no', Users) = SumOf(no, Users) - IF won THEN 0 ELSE total
  <2>1. yes \in [Users -> Nat] /\ no \in [Users -> Nat]
    BY DEF Ledger, MoneyTypes
  <2>2. SumOf(burnt(yes), Users) = SumOf(yes, Users) - total
        /\ SumOf(burnt(no), Users) = SumOf(no, Users) - total
    BY <1>2, <1>7, <2>1
  <2> HIDE DEF burnt
  <2>3. CASE won
    BY <1>1, <1>2, <2>2, <2>3
  <2>4. CASE ~ won
    BY <1>1, <1>2, <2>2, <2>4
  <2> QED BY <2>3, <2>4
<1>9. /\ usdc' \in [Users -> Nat] /\ yes' \in [Users -> Nat] /\ no' \in [Users -> Nat]
  <2>1. usdc' \in [Users -> Nat]
    BY <1>1, <1>4, <1>5
  <2>2. yes' \in [Users -> Nat]
    <3>1. CASE won
      <4>1. \A v \in Users : (IF v \in who THEN yes[v] - g[v] ELSE yes[v]) \in Nat
        BY <1>4, <1>5, <3>1
      <4> QED BY <1>1, <3>1, <4>1
    <3>2. CASE ~ won
      BY <1>1, <3>2 DEF Ledger, MoneyTypes
    <3> QED BY <3>1, <3>2
  <2>3. no' \in [Users -> Nat]
    <3>1. CASE ~ won
      <4>1. \A v \in Users : (IF v \in who THEN no[v] - g[v] ELSE no[v]) \in Nat
        BY <1>4, <1>5, <3>1
      <4> QED BY <1>1, <3>1, <4>1
    <3>2. CASE won
      BY <1>1, <3>2 DEF Ledger, MoneyTypes
    <3> QED BY <3>1, <3>2
  <2> QED BY <2>1, <2>2, <2>3
<1>10. /\ pot' = [vault |-> pot.vault - total, escrow |-> pot.escrow,
                  yesEscrow |-> pot.yesEscrow, noEscrow |-> pot.noEscrow,
                  feeVault |-> pot.feeVault, treasury |-> pot.treasury]
       /\ pot.vault \in Nat /\ pot.escrow \in Nat /\ pot.yesEscrow \in Nat
       /\ pot.noEscrow \in Nat /\ pot.feeVault \in Nat /\ pot.treasury \in Nat
       /\ pot.vault - total \in Nat
       /\ supply.yes \in Int /\ supply.no \in Int
  BY <1>1, <1>3, PotFields DEF Ledger
<1>11. /\ supply' = [yes |-> supply.yes - (IF won THEN total ELSE 0),
                     no |-> supply.no - (IF won THEN 0 ELSE total)]
  <2>1. supply = [yes |-> supply.yes, no |-> supply.no]
        /\ supply.yes \in Int /\ supply.no \in Int
    BY PotFields DEF Ledger
  <2> QED BY <1>1, <1>3, <2>1
<1>12. MoneyTypes'
  <2>1. pot' \in [vault : Nat, escrow : Nat, yesEscrow : Nat, noEscrow : Nat, feeVault : Nat,
                  treasury : Nat]
    BY <1>10
  <2>2. supply' \in [yes : Int, no : Int]
    BY <1>3, <1>10, <1>11
  <2>3. market' \in [minted : Int, redeemed : Int, outcome : {Unsettled, YesWins, NoWins},
                     settledAt : Nat, deadline : Nat, overrides : Nat, closed : BOOLEAN]
    BY <1>1, <1>3 DEF Ledger, MoneyTypes
  <2> QED BY <1>9, <2>1, <2>2, <2>3 DEF MoneyTypes
<1>13. /\ pot'.vault = pot.vault - total /\ pot'.escrow = pot.escrow
       /\ pot'.yesEscrow = pot.yesEscrow /\ pot'.noEscrow = pot.noEscrow
       /\ pot'.feeVault = pot.feeVault /\ pot'.treasury = pot.treasury
       /\ supply'.yes = supply.yes - (IF won THEN total ELSE 0)
       /\ supply'.no = supply.no - (IF won THEN 0 ELSE total)
  BY <1>10, <1>11
<1>14. Conserved'
  BY <1>2, <1>3, <1>6, <1>8, <1>10, <1>13 DEF Ledger, Conserved
<1>15. VaultBacksTokens'
  <2>1. /\ market'.minted = market.minted /\ market'.redeemed = market.redeemed + total
        /\ market'.outcome = market.outcome
        /\ market.minted \in Int /\ market.redeemed \in Int
    BY <1>1 DEF Ledger, MoneyTypes
  <2>2. Settled' /\ Outstanding' = Outstanding - total
    BY <1>3, <2>1 DEF Settled, Outstanding
  <2>3. WinningSupply' = WinningSupply - total
    BY <1>3, <1>10, <1>13, <2>1 DEF WinningSupply, won
  <2>4. pot.vault = Outstanding /\ WinningSupply = pot.vault
    BY DEF Ledger, VaultBacksTokens
  <2> QED BY <1>13, <2>2, <2>3, <2>4 DEF VaultBacksTokens
<1> QED BY <1>12, <1>14, <1>15 DEF Ledger

(* A holder burns its worthless tokens, which no vault backs.              *)
LEMMA BurnLedger ==
  ASSUME Ledger, NEW u \in Users, BurnWorthless(u)
  PROVE  Ledger'
<1>1. Settled /\ market' = market /\ pot' = pot /\ usdc' = usdc
  BY DEF BurnWorthless
<1>2. /\ usdc \in [Users -> Nat] /\ yes \in [Users -> Nat] /\ no \in [Users -> Nat]
      /\ yes[u] \in Nat /\ no[u] \in Nat
  BY DEF Ledger, MoneyTypes
<1>3. /\ supply = [yes |-> supply.yes, no |-> supply.no]
      /\ supply.yes \in Int /\ supply.no \in Int /\ pot.yesEscrow \in Nat /\ pot.noEscrow \in Nat
      /\ SumOf(yes, Users) \in Int /\ SumOf(no, Users) \in Int
  BY PotFields, WalletInts DEF Ledger
<1>4. CASE market.outcome = YesWins
  <2>1. /\ no' = [no EXCEPT ![u] = 0] /\ yes' = yes
        /\ supply' = [supply EXCEPT !.no = @ - no[u]]
    BY <1>4 DEF BurnWorthless
  <2> DEFINE c == 0 - no[u]
  <2>2. c \in Int /\ no[u] + c = 0
    BY <1>2
  <2> HIDE DEF c
  <2>3. SumOf(no', Users) = SumOf(no, Users) + c
    BY <1>2, <2>1, <2>2, WalletChanged
  <2>4. supply'.yes = supply.yes /\ supply'.no = supply.no - no[u]
        /\ supply' \in [yes : Int, no : Int]
    BY <1>2, <1>3, <2>1
  <2>5. MoneyTypes'
    BY <1>1, <1>2, <2>1, <2>4 DEF Ledger, MoneyTypes
  <2>6. Conserved'
    BY <1>1, <1>2, <1>3, <2>1, <2>2, <2>3, <2>4 DEF Ledger, Conserved
  <2>7. VaultBacksTokens'
    BY <1>1, <1>4, <2>4 DEF Ledger, VaultBacksTokens, Outstanding, WinningSupply, Settled
  <2> QED BY <2>5, <2>6, <2>7 DEF Ledger
<1>5. CASE market.outcome # YesWins
  <2>1. /\ yes' = [yes EXCEPT ![u] = 0] /\ no' = no
        /\ supply' = [supply EXCEPT !.yes = @ - yes[u]]
    BY <1>5 DEF BurnWorthless
  <2> DEFINE c == 0 - yes[u]
  <2>2. c \in Int /\ yes[u] + c = 0
    BY <1>2
  <2> HIDE DEF c
  <2>3. SumOf(yes', Users) = SumOf(yes, Users) + c
    BY <1>2, <2>1, <2>2, WalletChanged
  <2>4. supply'.no = supply.no /\ supply'.yes = supply.yes - yes[u]
        /\ supply' \in [yes : Int, no : Int]
    BY <1>2, <1>3, <2>1
  <2>5. MoneyTypes'
    BY <1>1, <1>2, <2>1, <2>4 DEF Ledger, MoneyTypes
  <2>6. Conserved'
    BY <1>1, <1>2, <1>3, <2>1, <2>2, <2>3, <2>4 DEF Ledger, Conserved
  <2>7. VaultBacksTokens'
    BY <1>1, <1>5, <2>4 DEF Ledger, VaultBacksTokens, Outstanding, WinningSupply, Settled
  <2> QED BY <2>5, <2>6, <2>7 DEF Ledger
<1> QED BY <1>4, <1>5

(* Both ways to redeem winning tokens.                                     *)
LEMMA RedeemLedger ==
  ASSUME Ledger,
         \/ \E u \in Users, q \in OrderQtys : RedeemWinner(u, q)
         \/ \E passed \in SUBSET Users : CrankRedeem(passed)
  PROVE  Settled /\ \E g : Payable(g) /\ PayWinners(g)
<1>1. ASSUME NEW u \in Users, NEW q \in OrderQtys, RedeemWinner(u, q)
      PROVE  Settled /\ \E g : Payable(g) /\ PayWinners(g)
  <2> DEFINE g == [v \in {u} |-> q]
  <2>1. Settled /\ Winnings(u) >= q /\ q \in Nat
    BY <1>1, MarketAssumption DEF RedeemWinner
  <2>2. PayWinners(g)
    BY <1>1, Zenon DEF RedeemWinner
  <2>3. Payable(g)
    BY <2>1 DEF Payable
  <2> HIDE DEF g
  <2> QED BY <2>1, <2>2, <2>3
<1>2. ASSUME NEW passed \in SUBSET Users, CrankRedeem(passed)
      PROVE  Settled /\ \E g : Payable(g) /\ PayWinners(g)
  <2> DEFINE who == {v \in passed \cap delegated : Winnings(v) > 0}
             g == [v \in who |-> Winnings(v)]
  <2>1. Settled /\ PayWinners(g)
    BY <1>2, Zenon DEF CrankRedeem
  <2>2. \A v \in Users : Winnings(v) \in Nat
    BY DEF Winnings, Ledger, MoneyTypes
  <2>3. Payable(g)
    BY <2>2 DEF Payable
  <2> HIDE DEF g
  <2> QED BY <2>1, <2>3
<1> QED BY <1>1, <1>2

(* Settling, and turning the outcome while both kinds of token still have  *)
(* the same supply, move no money.                                         *)
LEMMA OutcomeLedger ==
  ASSUME Ledger, SettlementInv,
         \/ SettleMarket
         \/ \E price \in FeedPrices : AdminSettle(price) \/ OverrideSettlement(price)
  PROVE  Ledger'
<1>1. ASSUME NEW price, SettleAt(price), ~ Settled
      PROVE  Ledger'
  <2>1. /\ market' = [market EXCEPT !.outcome = OutcomeAt(price), !.settledAt = now,
                                    !.deadline = now + Window]
        /\ UNCHANGED <<usdc, yes, no, pot, supply>>
    BY <1>1 DEF SettleAt, wallets
  <2>2. OutcomeAt(price) \in {YesWins, NoWins} /\ now \in Nat /\ now + Window \in Nat
    BY MarketAssumption DEF OutcomeAt, SettlementInv, ClockTypes
  <2>3. MoneyTypes'
    BY <2>1, <2>2 DEF Ledger, MoneyTypes
  <2>4. Conserved'
    BY <2>1 DEF Ledger, Conserved
  <2>5. VaultBacksTokens'
    <3>1. market'.minted = market.minted /\ market'.redeemed = market.redeemed
          /\ market'.outcome \in {YesWins, NoWins}
      BY <2>1, <2>2 DEF Ledger, MoneyTypes
    <3>2. Settled'
      BY <3>1 DEF Settled, YesWins, NoWins, Unsettled
    <3> QED BY <1>1, <2>1, <3>1, <3>2
            DEF Ledger, VaultBacksTokens, Outstanding, WinningSupply
  <2> QED BY <2>3, <2>4, <2>5 DEF Ledger
<1>2. ASSUME NEW price, OverrideSettlement(price)
      PROVE  Ledger'
  <2>1. /\ market' = [market EXCEPT !.outcome = OutcomeAt(price), !.deadline = NextDeadline,
                                    !.overrides = @ + 1]
        /\ UNCHANGED <<usdc, yes, no, pot, supply>> /\ Settled /\ now < market.deadline
    BY <1>2 DEF OverrideSettlement, wallets
  <2>2. OutcomeAt(price) \in {YesWins, NoWins}
    BY DEF OutcomeAt
  <2>3. NextDeadline \in Nat
    <3>1. /\ now \in Nat /\ Window \in Nat /\ market.overrides \in Nat
          /\ market.settledAt \in Nat
      BY MarketAssumption DEF SettlementInv, ClockTypes
    <3>2. Window * (market.overrides + 2) \in Nat
      BY <3>1
    <3> QED BY <3>1, <3>2 DEF NextDeadline, Later
  <2>4. MoneyTypes'
    <3>1. market' \in [minted : Int, redeemed : Int, outcome : {Unsettled, YesWins, NoWins},
                       settledAt : Nat, deadline : Nat, overrides : Nat, closed : BOOLEAN]
      <4>1. market.overrides \in Nat /\ market.overrides + 1 \in Nat
        BY DEF SettlementInv, ClockTypes
      <4> HIDE DEF NextDeadline
      <4> QED BY <2>1, <2>2, <2>3, <4>1 DEF Ledger, MoneyTypes
    <3> QED BY <2>1, <3>1 DEF Ledger, MoneyTypes
  <2>5. Conserved'
    BY <2>1 DEF Ledger, Conserved
  <2>6. supply.yes = supply.no
    BY <2>1 DEF SettlementInv, UnequalIsFinal, OverrideOver, ClockTypes
  <2>7. VaultBacksTokens'
    <3>1. market'.minted = market.minted /\ market'.redeemed = market.redeemed
          /\ market'.outcome \in {YesWins, NoWins}
      BY <2>1, <2>2 DEF Ledger, MoneyTypes
    <3>2. Settled'
      BY <3>1 DEF Settled, YesWins, NoWins, Unsettled
    <3> QED BY <2>1, <2>6, <3>1, <3>2
            DEF Ledger, VaultBacksTokens, Outstanding, WinningSupply
  <2> QED BY <2>4, <2>5, <2>7 DEF Ledger
<1>3. CASE SettleMarket \/ \E price \in FeedPrices : AdminSettle(price)
  BY <1>1, <1>3, Zenon DEF SettleMarket, AdminSettle
<1>4. CASE \E price \in FeedPrices : OverrideSettlement(price)
  BY <1>2, <1>4
<1> QED BY <1>3, <1>4

(* Closing moves the dust of the escrow to the treasury.                   *)
LEMMA CloseLedger ==
  ASSUME Ledger, CloseMarket
  PROVE  Ledger'
<1>1. /\ pot' = [pot EXCEPT !.escrow = 0, !.treasury = @ + pot.escrow]
      /\ market' = [market EXCEPT !.closed = TRUE]
      /\ UNCHANGED <<usdc, yes, no, supply>>
  BY DEF CloseMarket, wallets, EscrowDust
<1>2. /\ pot' = [vault |-> pot.vault, escrow |-> 0, yesEscrow |-> pot.yesEscrow,
                 noEscrow |-> pot.noEscrow, feeVault |-> pot.feeVault,
                 treasury |-> pot.treasury + pot.escrow]
      /\ pot.vault \in Nat /\ pot.escrow \in Nat /\ pot.yesEscrow \in Nat
      /\ pot.noEscrow \in Nat /\ pot.feeVault \in Nat /\ pot.treasury \in Nat
  BY <1>1, PotFields DEF Ledger
<1>3. MoneyTypes'
  <2>1. pot' \in [vault : Nat, escrow : Nat, yesEscrow : Nat, noEscrow : Nat, feeVault : Nat,
                  treasury : Nat]
    BY <1>2
  <2>2. market' \in [minted : Int, redeemed : Int, outcome : {Unsettled, YesWins, NoWins},
                     settledAt : Nat, deadline : Nat, overrides : Nat, closed : BOOLEAN]
    BY <1>1 DEF Ledger, MoneyTypes
  <2> QED BY <1>1, <2>1, <2>2 DEF Ledger, MoneyTypes
<1>4. /\ pot'.vault = pot.vault /\ pot'.escrow = 0 /\ pot'.yesEscrow = pot.yesEscrow
      /\ pot'.noEscrow = pot.noEscrow /\ pot'.feeVault = pot.feeVault
      /\ pot'.treasury = pot.treasury + pot.escrow
  BY <1>2
<1>5. SumOf(usdc, Users) \in Int
  BY WalletInts DEF Ledger
<1>6. Conserved'
  BY <1>1, <1>2, <1>4, <1>5 DEF Ledger, Conserved
<1>7. VaultBacksTokens'
  <2>1. market'.minted = market.minted /\ market'.redeemed = market.redeemed
        /\ market'.outcome = market.outcome
    BY <1>1 DEF Ledger, MoneyTypes
  <2> QED BY <1>1, <1>4, <2>1
          DEF Ledger, VaultBacksTokens, Outstanding, WinningSupply, Settled
<1> QED BY <1>3, <1>6, <1>7 DEF Ledger

(* The pause switch, the feed and the clock touch no money.                *)
LEMMA BystanderLedger ==
  ASSUME Ledger, UNCHANGED <<usdc, yes, no, pot, supply, market>>
  PROVE  Ledger'
BY DEF Ledger, MoneyTypes, Conserved, VaultBacksTokens, Outstanding, WinningSupply, Settled

-----------------------------------------------------------------------------
(* The invariant: the settlement discipline, the book and the ledger.      *)
MoneyInv == SettlementInv /\ BookTyped /\ Ledger

(* Whatever leaves the book alone.                                         *)
LEMMA BystanderBook ==
  ASSUME BookTyped, book' = book, now' \in {now, now + 1}
  PROVE  BookTyped'
BY DEF BookTyped

(* Trading, cancelling and cranking.                                       *)
LEMMA BookMoney ==
  ASSUME MoneyInv,
         \/ \E u \in Users, side \in Sides, price \in Prices, q \in OrderQtys,
               isLimit \in BOOLEAN, n \in MaxFillsSet : PlaceOrder(u, side, price, q, isLimit, n)
         \/ \E u \in Users, at \in Resting(book.levels) : CancelOrder(u, at)
         \/ \E n \in CrankBatches : CrankCancel(n)
  PROVE  BookTyped' /\ Ledger'
<1>1. ASSUME NEW u \in Users, NEW side \in Sides, NEW price \in Prices, NEW q \in OrderQtys,
             NEW isLimit \in BOOLEAN, NEW n \in MaxFillsSet,
             PlaceOrder(u, side, price, q, isLimit, n)
      PROVE  BookTyped' /\ Ledger'
  <2>1. PICK m, rested, mid : Placed(u, side, price, q, m, rested, mid)
    BY <1>1, PlaceOrderFacts DEF MoneyInv
  <2>2. /\ CanAfford(u, Collateral(side, q, price)) /\ ~ Settled /\ now' = now
        /\ BookOK(book', Orders) /\ q \in Nat
    BY <1>1, <2>1, MarketAssumption, Zenon DEF PlaceOrder, Placed, Traded
  <2>3. BookTyped'
    BY <2>2 DEF MoneyInv, BookTyped
  <2>4. Ledger'
    BY <2>1, <2>2, PlaceLedger DEF MoneyInv
  <2> QED BY <2>3, <2>4
<1>2. ASSUME \/ \E u \in Users, at \in Resting(book.levels) : CancelOrder(u, at)
             \/ \E n \in CrankBatches : CrankCancel(n)
      PROVE  BookTyped' /\ Ledger'
  <2>1. PICK places : Unrested(places)
    BY <1>2, CancelFacts DEF MoneyInv
  <2>2. BookOK(book', Orders) /\ now' = now
    BY <2>1 DEF Unrested, CollateralReturned
  <2>3. BookTyped'
    BY <2>2 DEF MoneyInv, BookTyped
  <2>4. Ledger'
    BY <2>1, ReturnLedger DEF MoneyInv
  <2> QED BY <2>3, <2>4
<1> QED BY <1>1, <1>2, Zenon

(* Minting, redeeming and burning.                                         *)
LEMMA TokenMoney ==
  ASSUME MoneyInv,
         \/ \E u \in Users, q \in OrderQtys : MintPair(u, q) \/ RedeemPair(u, q)
         \/ \E u \in Users, q \in OrderQtys : RedeemWinner(u, q)
         \/ \E passed \in SUBSET Users : CrankRedeem(passed)
         \/ \E u \in Users : BurnWorthless(u)
  PROVE  BookTyped' /\ Ledger'
<1>1. ASSUME NEW u \in Users, NEW q \in OrderQtys, MintPair(u, q) \/ RedeemPair(u, q)
      PROVE  BookTyped' /\ Ledger'
  <2>1. book' = book /\ now' = now
    BY <1>1 DEF MintPair, RedeemPair
  <2> QED BY <1>1, <2>1, BystanderBook, PairLedger DEF MoneyInv
<1>2. ASSUME \/ \E u \in Users, q \in OrderQtys : RedeemWinner(u, q)
             \/ \E passed \in SUBSET Users : CrankRedeem(passed)
      PROVE  BookTyped' /\ Ledger'
  <2>1. Settled /\ \E g : Payable(g) /\ PayWinners(g)
    BY <1>2, RedeemLedger, Zenon DEF MoneyInv
  <2>2. PICK g : Payable(g) /\ PayWinners(g)
    BY <2>1
  <2>3. book' = book /\ now' = now
    BY <2>2 DEF PayWinners
  <2> QED BY <2>1, <2>2, <2>3, BystanderBook, PayLedger DEF MoneyInv
<1>3. ASSUME NEW u \in Users, BurnWorthless(u)
      PROVE  BookTyped' /\ Ledger'
  <2>1. book' = book /\ now' = now
    BY <1>3 DEF BurnWorthless
  <2> QED BY <1>3, <2>1, BystanderBook, BurnLedger DEF MoneyInv
<1> QED BY <1>1, <1>2, <1>3, Zenon

(* Every step keeps the invariant.                                         *)
LEMMA NextMoney == MoneyInv /\ [Next]_vars => MoneyInv'
<1> SUFFICES ASSUME MoneyInv, [Next]_vars PROVE MoneyInv'
  OBVIOUS
<1>1. SettlementInv'
  BY NextSettlement DEF MoneyInv
<1>2. BookTyped' /\ Ledger'
  <2>1. CASE \/ \E u \in Users, side \in Sides, price \in Prices, q \in OrderQtys,
                   isLimit \in BOOLEAN, n \in MaxFillsSet :
                     PlaceOrder(u, side, price, q, isLimit, n)
             \/ \E u \in Users, at \in Resting(book.levels) : CancelOrder(u, at)
             \/ \E n \in CrankBatches : CrankCancel(n)
    BY <2>1, BookMoney
  <2>2. CASE \/ \E u \in Users, q \in OrderQtys : MintPair(u, q) \/ RedeemPair(u, q)
             \/ \E u \in Users, q \in OrderQtys : RedeemWinner(u, q)
             \/ \E passed \in SUBSET Users : CrankRedeem(passed)
             \/ \E u \in Users : BurnWorthless(u)
    BY <2>2, TokenMoney
  <2>3. CASE \/ SettleMarket
             \/ \E price \in FeedPrices : AdminSettle(price) \/ OverrideSettlement(price)
    <3>1. book' = book /\ now' = now
      BY <2>3, Zenon DEF SettleMarket, AdminSettle, OverrideSettlement, SettleAt
    <3> QED BY <2>3, <3>1, BystanderBook, OutcomeLedger DEF MoneyInv
  <2>4. CASE CloseMarket
    <3>1. book' = book /\ now' = now
      BY <2>4 DEF CloseMarket
    <3> QED BY <2>4, <3>1, BystanderBook, CloseLedger DEF MoneyInv
  <2>5. CASE \/ Pause \/ Unpause \/ Tick \/ UNCHANGED vars
             \/ \E price \in FeedPrices, age \in FeedAges, confident \in BOOLEAN :
                  UpdatePrice(price, age, confident)
    <3>1. book' = book /\ now' \in {now, now + 1}
          /\ UNCHANGED <<usdc, yes, no, pot, supply, market>>
      BY <2>5 DEF Pause, Unpause, Tick, UpdatePrice, vars, wallets
    <3> QED BY <3>1, BystanderBook, BystanderLedger DEF MoneyInv
  <2> QED BY <2>1, <2>2, <2>3, <2>4, <2>5, Zenon DEF Next
<1> QED BY <1>1, <1>2 DEF MoneyInv

(* The invariant holds in every behaviour.                                 *)
LEMMA MoneyInductive == Spec => []MoneyInv
<1>1. Init => MoneyInv
  BY InitSettlement, InitLedger DEF MoneyInv
<1> QED BY <1>1, NextMoney, PTL DEF Spec

(* The $1 invariant: after any trading, minting, redeeming, settling and   *)
(* overriding the vault holds a dollar for every pair outstanding, and for *)
(* every winning token once the market is settled.                         *)
THEOREM VaultAlwaysBacks == Spec => []VaultBacksTokens
BY MoneyInductive, PTL DEF MoneyInv, Ledger

(* No sequence of instructions creates or destroys USDC or tokens: fills,  *)
(* fees, refunds, merges, cancels, cranks, redemptions and the sweep of the*)
(* escrow only move them.                                                  *)
THEOREM MoneyIsConserved == Spec => []MoneyConserved
<1>1. MoneyInv => MoneyConserved
  BY WalletSums DEF MoneyInv, Ledger, Conserved, MoneyConserved
<1> QED BY <1>1, MoneyInductive, PTL

-----------------------------------------------------------------------------
(* The counter of what settled markets owe.                                *)

(* config.obligations never falls short of what this market owes, and is   *)
(* exactly that when no other market owes anything.                        *)
Covered ==
  /\ obligations \in Nat
  /\ Settled => obligations >= Outstanding
  /\ OtherObligations = 0 => ObligationsTrackMarket

(* A new market owes nothing.                                              *)
LEMMA InitCovered == Init => Covered
BY MarketAssumption
   DEF Init, Covered, ObligationsTrackMarket, Settled, Outstanding, Unsettled

(* What is taken off both is never more than either.                       *)
LEMMA RedeemedCovered ==
  ASSUME Ledger, Covered, NEW q \in Nat, pot.vault >= q,
         market' = [market EXCEPT !.redeemed = @ + q],
         obligations' = SaturatingSub(obligations, q)
  PROVE  Covered'
<1>1. /\ market.minted \in Int /\ market.redeemed \in Int /\ pot.vault \in Nat
      /\ pot.vault = Outstanding
  BY PotFields DEF Ledger, VaultBacksTokens
<1>2. Outstanding' = Outstanding - q /\ Settled' = Settled
  BY <1>1 DEF Ledger, MoneyTypes, Outstanding, Settled
<1>3. obligations \in Nat /\ Outstanding >= q
  BY <1>1 DEF Covered
<1>4. obligations' \in Nat
  BY <1>3 DEF SaturatingSub
<1>5. Settled' => obligations' >= Outstanding'
  BY <1>1, <1>2, <1>3 DEF Covered, SaturatingSub
<1>6. OtherObligations = 0 => ObligationsTrackMarket'
  BY <1>1, <1>2, <1>3 DEF Covered, SaturatingSub, ObligationsTrackMarket
<1> QED BY <1>4, <1>5, <1>6 DEF Covered

(* Every step that touches neither, and every step before settlement.      *)
LEMMA BystanderCovered ==
  ASSUME Covered, obligations' = obligations, market'.outcome = market.outcome,
         Settled => market'.minted = market.minted /\ market'.redeemed = market.redeemed
  PROVE  Covered'
BY DEF Covered, ObligationsTrackMarket, Settled, Outstanding

(* Every step keeps the counter covered.                                   *)
LEMMA NextCovered == MoneyInv /\ Covered /\ [Next]_vars => Covered'
<1> SUFFICES ASSUME MoneyInv, Covered, [Next]_vars PROVE Covered'
  OBVIOUS
<1>1. CASE \E u \in Users, q \in OrderQtys : RedeemPair(u, q)
  <2>1. PICK u \in Users, q \in OrderQtys : RedeemPair(u, q)
    BY <1>1
  <2> QED BY <2>1, RedeemedCovered, MarketAssumption DEF RedeemPair, MoneyInv
<1>2. CASE \/ \E u \in Users, q \in OrderQtys : RedeemWinner(u, q)
           \/ \E passed \in SUBSET Users : CrankRedeem(passed)
  <2>1. \E g : Payable(g) /\ PayWinners(g)
    BY <1>2, RedeemLedger, Zenon DEF MoneyInv
  <2>2. PICK g : Payable(g) /\ PayWinners(g)
    BY <2>1
  <2> DEFINE total == SumOf(g, DOMAIN g)
  <2>3. total \in Nat
    <3>1. IsFiniteSet(DOMAIN g)
      BY <2>2, MarketAssumption, FS_Subset DEF Payable
    <3>2. Nats(g, DOMAIN g)
      BY <2>2 DEF Payable, Nats
    <3> QED BY <3>1, <3>2, SumNat
  <2>4. SumFunction(g) = total
    BY Zenon DEF SumFunction, SumOf
  <2>5. /\ pot.vault >= total /\ market' = [market EXCEPT !.redeemed = @ + total]
        /\ obligations' = SaturatingSub(obligations, total)
    BY <2>2, <2>4, Zenon DEF PayWinners
  <2> HIDE DEF total
  <2> QED BY <2>3, <2>5, RedeemedCovered DEF MoneyInv
<1>3. CASE SettleMarket \/ \E price \in FeedPrices : AdminSettle(price)
  <2>1. PICK price : SettleAt(price) /\ ~ Settled
    BY <1>3, Zenon DEF SettleMarket, AdminSettle
  <2>2. /\ market' = [market EXCEPT !.outcome = OutcomeAt(price), !.settledAt = now,
                                    !.deadline = now + Window]
        /\ obligations' = obligations + Outstanding
    BY <2>1 DEF SettleAt, OwedAtSettlement
  <2>3. OutcomeAt(price) # Unsettled
    BY DEF OutcomeAt, YesWins, NoWins, Unsettled
  <2>4. Outstanding' = Outstanding /\ Settled' /\ Outstanding \in Nat
    BY <2>2, <2>3, PotFields
       DEF MoneyInv, Ledger, MoneyTypes, VaultBacksTokens, Outstanding, Settled
  <2> QED BY <2>1, <2>2, <2>4 DEF Covered, ObligationsTrackMarket
<1>4. CASE \E price \in FeedPrices : OverrideSettlement(price)
  <2>1. PICK price : OverrideSettlement(price)
    BY <1>4
  <2>2. /\ market' = [market EXCEPT !.outcome = OutcomeAt(price), !.deadline = NextDeadline,
                                    !.overrides = @ + 1]
        /\ obligations' = obligations /\ Settled
    BY <2>1 DEF OverrideSettlement
  <2>3. OutcomeAt(price) # Unsettled
    BY DEF OutcomeAt, YesWins, NoWins, Unsettled
  <2>4. Outstanding' = Outstanding /\ Settled'
    BY <2>2, <2>3 DEF MoneyInv, Ledger, MoneyTypes, Outstanding, Settled
  <2> QED BY <2>2, <2>4 DEF Covered, ObligationsTrackMarket
<1>5. CASE \E u \in Users, side \in Sides, price \in Prices, q \in OrderQtys,
              isLimit \in BOOLEAN, n \in MaxFillsSet :
                PlaceOrder(u, side, price, q, isLimit, n)
  <2>1. PICK u \in Users, side \in Sides, price \in Prices, q \in OrderQtys,
             isLimit \in BOOLEAN, n \in MaxFillsSet :
               PlaceOrder(u, side, price, q, isLimit, n)
    BY <1>5, Zenon
  <2>2. ~ Settled /\ obligations' = obligations
    BY <2>1 DEF PlaceOrder
  <2>3. PICK deposit, fs, refund : SettleOrder(u, side, price, deposit, fs, refund)
    BY <2>1, Zenon DEF PlaceOrder
  <2>4. OrderSettled(u, side, price, deposit, fs, refund)
    BY <2>3, SettleOrderSums
  <2>5. PICK merged : market' = [market EXCEPT !.redeemed = @ + merged]
    BY <2>4 DEF OrderSettled
  <2>6. market'.outcome = market.outcome
    BY <2>5 DEF MoneyInv, Ledger, MoneyTypes
  <2> QED BY <2>2, <2>6, BystanderCovered
<1>6. CASE \E u \in Users, q \in OrderQtys : MintPair(u, q)
  <2>1. ~ Settled /\ obligations' = obligations /\ market'.outcome = market.outcome
    BY <1>6 DEF MintPair, MoneyInv, Ledger, MoneyTypes
  <2> QED BY <2>1, BystanderCovered
<1>7. CASE \/ \E u \in Users, at \in Resting(book.levels) : CancelOrder(u, at)
           \/ \E n \in CrankBatches : CrankCancel(n)
           \/ \E u \in Users : BurnWorthless(u)
           \/ Pause \/ Unpause \/ Tick \/ UNCHANGED vars
           \/ \E price \in FeedPrices, age \in FeedAges, confident \in BOOLEAN :
                UpdatePrice(price, age, confident)
  <2>1. UNCHANGED <<market, obligations>>
    BY <1>7, Zenon DEF CancelOrder, CrankCancel, ReturnCollateral, BurnWorthless, Pause,
                       Unpause, Tick, UpdatePrice, vars
  <2> QED BY <2>1, BystanderCovered
<1>8. CASE CloseMarket
  <2>1. /\ obligations' = obligations /\ market'.outcome = market.outcome
        /\ market'.minted = market.minted /\ market'.redeemed = market.redeemed
    BY <1>8 DEF CloseMarket, MoneyInv, Ledger, MoneyTypes
  <2> QED BY <2>1, BystanderCovered
<1> QED BY <1>1, <1>2, <1>3, <1>4, <1>5, <1>6, <1>7, <1>8, Zenon DEF Next

(* The counter is covered in every behaviour.                              *)
LEMMA CoveredInductive == Spec => []Covered
<1>1. Init => Covered
  BY InitCovered
<1> QED BY <1>1, NextCovered, MoneyInductive, PTL DEF Spec

(* However its tokens are redeemed, what a settled market owes is counted  *)
(* in config.obligations to the last token, and nothing else is, while no  *)
(* other market owes anything: the withdrawal of the treasury can rely on  *)
(* it.                                                                     *)
THEOREM ObligationsAreTracked ==
  ASSUME OtherObligations = 0
  PROVE  Spec => []ObligationsTrackMarket
<1>1. Covered => ObligationsTrackMarket
  BY DEF Covered
<1> QED BY <1>1, CoveredInductive, PTL

(* The counter, whatever it holds for others, covers this market.          *)
OwedInFull == Settled => obligations >= Outstanding

(* A pair burned before settlement takes from what other markets are owed, *)
(* but no instruction of a settled market ever takes from the counter more *)
(* than that market itself added to it.                                    *)
THEOREM ThisMarketStillOwed == Spec => []OwedInFull
<1>1. Covered => OwedInFull
  BY DEF Covered, OwedInFull
<1> QED BY <1>1, CoveredInductive, PTL

-----------------------------------------------------------------------------
(* The orders of the book, and the counters.                               *)

(* Every order was placed no later than now, under an id given out before. *)
Stamped(levels, id, t) ==
  \A at \in Resting(levels) : OrderAt(levels, at).ts \in 1 .. t /\ OrderAt(levels, at).id < id

(* An id names one order.                                                  *)
UniqueIds(levels) ==
  \A a, b \in Resting(levels) : OrderAt(levels, a).id = OrderAt(levels, b).id => a = b

(* Orders that are neither moved nor given another stamp.                  *)
SameStamps(levels, new) ==
  /\ Resting(new) \subseteq Resting(levels)
  /\ \A at \in Resting(new) : /\ OrderAt(new, at).ts = OrderAt(levels, at).ts
                              /\ OrderAt(new, at).id = OrderAt(levels, at).id

(* The state of the book and of the counters.                              *)
Counted ==
  /\ now \in Nat \ {0} /\ paused \in BOOLEAN /\ delegated \subseteq Users
  /\ book.nextId \in 0 .. MaxOrderId /\ book.allocated \in 0 .. MaxLevels
  /\ market.overrides \in 0 .. MaxOverrides
  /\ Stamped(book.levels, book.nextId, now) /\ UniqueIds(book.levels)

(* Fills and removals keep the stamps of the orders they leave.            *)
LEMMA FillsKeepStamps ==
  ASSUME NEW levels, LevelsOK(levels, Orders), NEW fs, NEW new, FillsApplied(levels, fs, new)
  PROVE  SameStamps(levels, new)
<1>1. \A at \in Resting(new) : at \in Resting(levels)
  BY DEF FillsApplied
<1>2. ASSUME NEW at \in Resting(new)
      PROVE  /\ OrderAt(new, at).ts = OrderAt(levels, at).ts
             /\ OrderAt(new, at).id = OrderAt(levels, at).id
  <2> DEFINE o == OrderAt(levels, at)
             n == OrderAt(new, at)
  <2>1. o \in Orders
    BY <1>1, RestingOrders
  <2>2. n = o \/ \E q : n = [o EXCEPT !.qty = @ - q]
    <3>1. CASE \A k \in DOMAIN fs : fs[k].at # at
      BY <3>1 DEF FillsApplied
    <3>2. CASE \E k \in DOMAIN fs : fs[k].at = at
      BY <3>2 DEF FillsApplied
    <3> QED BY <3>1, <3>2
  <2> HIDE DEF o, n
  <2>3. n.ts = o.ts /\ n.id = o.id
    BY <2>1, <2>2 DEF Orders
  <2> QED BY <2>3 DEF o, n
<1> QED BY <1>1, <1>2 DEF SameStamps

(* What is kept keeps its discipline, also as ids and time go on.          *)
LEMMA StampsKept ==
  ASSUME NEW levels, NEW new, SameStamps(levels, new), NEW id \in Nat, NEW later \in Nat,
         NEW t \in Nat, NEW late \in Nat, id <= later, t <= late, LevelsOK(levels, Orders),
         Stamped(levels, id, t), UniqueIds(levels)
  PROVE  Stamped(new, later, late) /\ UniqueIds(new)
<1>1. ASSUME NEW at \in Resting(new)
      PROVE  OrderAt(new, at).ts \in 1 .. late /\ OrderAt(new, at).id < later
  <2>1. /\ at \in Resting(levels) /\ OrderAt(new, at).ts = OrderAt(levels, at).ts
        /\ OrderAt(new, at).id = OrderAt(levels, at).id
    BY DEF SameStamps
  <2>2. OrderAt(levels, at) \in Orders
    BY <2>1, RestingOrders
  <2>3. OrderAt(levels, at).id \in Nat
    BY <2>2 DEF Orders
  <2> QED BY <2>1, <2>3 DEF Stamped
<1>2. UniqueIds(new)
  BY DEF UniqueIds, SameStamps
<1> QED BY <1>1, <1>2 DEF Stamped

(* So does a book with one more order under the next id.                   *)
LEMMA StampAdded ==
  ASSUME NEW levels, LevelsOK(levels, Orders), NEW x, NEW order \in Orders, NEW new,
         Added(levels, x, order, new), NEW t \in Nat, order.ts \in 1 .. t,
         Stamped(levels, order.id, t), UniqueIds(levels)
  PROVE  Stamped(new, order.id + 1, t) /\ UniqueIds(new)
<1>1. order.id \in Nat
  BY DEF Orders
<1>2. ASSUME NEW at \in Resting(new)
      PROVE  \/ at = x /\ OrderAt(new, at) = order
             \/ at \in Resting(levels) /\ OrderAt(new, at) = OrderAt(levels, at)
                /\ OrderAt(levels, at).id \in Nat /\ OrderAt(levels, at).id < order.id
                /\ OrderAt(levels, at).ts \in 1 .. t
  <2>1. at = x \/ at \in Resting(levels)
    BY DEF Added
  <2>2. CASE at = x
    BY <2>2 DEF Added
  <2>3. CASE at \in Resting(levels)
    <3>1. OrderAt(levels, at) \in Orders
      BY <2>3, RestingOrders
    <3>2. OrderAt(levels, at).id \in Nat
      BY <3>1 DEF Orders
    <3> QED BY <2>3, <3>2 DEF Added, Stamped
  <2> QED BY <2>1, <2>2, <2>3
<1>3. Stamped(new, order.id + 1, t)
  <2> SUFFICES ASSUME NEW at \in Resting(new)
               PROVE  OrderAt(new, at).ts \in 1 .. t /\ OrderAt(new, at).id < order.id + 1
    BY DEF Stamped
  <2> QED BY <1>1, <1>2
<1>4. UniqueIds(new)
  <2> SUFFICES ASSUME NEW a \in Resting(new), NEW b \in Resting(new),
                      OrderAt(new, a).id = OrderAt(new, b).id
               PROVE  a = b
    BY DEF UniqueIds
  <2>1. CASE a = x \/ b = x
    BY <1>1, <1>2, <2>1 DEF Added
  <2>2. CASE a # x /\ b # x
    BY <1>2, <2>2 DEF UniqueIds
  <2> QED BY <2>1, <2>2
<1> QED BY <1>3, <1>4

(* A new market's book is empty.                                           *)
LEMMA InitCounted == Init => Counted
<1> SUFFICES ASSUME Init PROVE Counted
  OBVIOUS
<1>1. Resting(book.levels) = {}
  <2>1. \A p \in Prices : book.levels[p] = <<>>
    BY DEF Init, EmptyBook
  <2> QED BY <2>1 DEF Resting
<1>2. book.nextId = 0 /\ book.allocated = 0
  BY DEF Init, EmptyBook
<1>3. MaxOrderId \in Nat /\ MaxLevels \in Nat /\ MaxOverrides \in Nat
  BY BookAssumption, MarketAssumption
<1>4. now = 1 /\ paused = FALSE /\ delegated = {} /\ market.overrides = 0
  BY DEF Init
<1>5. Stamped(book.levels, book.nextId, now) /\ UniqueIds(book.levels)
  BY <1>1 DEF Stamped, UniqueIds
<1>6. 0 \in 0 .. MaxOrderId /\ 0 \in 0 .. MaxLevels /\ 0 \in 0 .. MaxOverrides
  BY <1>3
<1>7. now \in Nat \ {0}
  BY <1>4
<1>8. paused \in BOOLEAN
  BY <1>4
<1>9. delegated \subseteq Users
  BY <1>4
<1> QED BY <1>2, <1>4, <1>5, <1>6, <1>7, <1>8, <1>9, Zenon DEF Counted

(* An instruction that leaves the book and the number of overrides alone.  *)
LEMMA BystanderCounted ==
  ASSUME Counted, BookTyped, book' = book, market'.overrides = market.overrides,
         now' \in {now, now + 1}, paused' \in BOOLEAN, delegated' \subseteq Users
  PROVE  Counted'
<1>1. /\ book.nextId \in Nat /\ now \in Nat /\ now' \in Nat \ {0} /\ now <= now'
      /\ LevelsOK(book.levels, Orders)
  BY DEF BookTyped, BookOK, Counted
<1>2. SameStamps(book.levels, book.levels)
  BY DEF SameStamps
<1>3. Stamped(book.levels, book.nextId, now') /\ UniqueIds(book.levels)
  BY <1>1, <1>2, StampsKept DEF Counted
<1> QED BY <1>1, <1>3 DEF Counted

(* Placing, cancelling and cranking.                                       *)
LEMMA BookCounted ==
  ASSUME MoneyInv, Counted,
         \/ \E u \in Users, side \in Sides, price \in Prices, q \in OrderQtys,
               isLimit \in BOOLEAN, n \in MaxFillsSet : PlaceOrder(u, side, price, q, isLimit, n)
         \/ \E u \in Users, at \in Resting(book.levels) : CancelOrder(u, at)
         \/ \E n \in CrankBatches : CrankCancel(n)
  PROVE  Counted'
<1>1. /\ book.nextId \in Nat /\ book.allocated \in Nat /\ now \in Nat \ {0}
      /\ LevelsOK(book.levels, Orders) /\ MaxOrderId \in Nat /\ MaxLevels \in Nat
  BY BookAssumption DEF MoneyInv, BookTyped, BookOK, Counted
<1>2. ASSUME NEW u \in Users, NEW side \in Sides, NEW price \in Prices, NEW q \in OrderQtys,
             NEW isLimit \in BOOLEAN, NEW n \in MaxFillsSet,
             PlaceOrder(u, side, price, q, isLimit, n)
      PROVE  Counted'
  <2>1. PICK m, rested, mid : Placed(u, side, price, q, m, rested, mid)
    BY <1>2, PlaceOrderFacts DEF MoneyInv
  <2> DEFINE order == [owner |-> u, id |-> book.nextId, side |-> side, qty |-> m.remaining,
                       ts |-> now]
  <2>2. now' = now /\ paused' = paused /\ delegated' = delegated
    BY <1>2 DEF PlaceOrder
  <2>3. market'.overrides = market.overrides
    <3>1. market' = [market EXCEPT !.redeemed = @ + Sum(Burns(m.fills))]
      BY <2>1, Zenon DEF Placed, Traded, OrderSettled
    <3> QED BY <3>1 DEF MoneyInv, Ledger, MoneyTypes
  <2>4. /\ LevelsOK(mid, Orders) /\ FillsApplied(book.levels, m.fills, mid)
        /\ IF rested
           THEN order \in Orders /\ \E x : x[1] = price /\ Added(mid, x, order, book'.levels)
           ELSE Removed(mid, {}, book'.levels)
        /\ IF rested THEN book'.nextId = book.nextId + 1 /\ book.nextId < MaxOrderId
                     ELSE book'.nextId = book.nextId
        /\ \/ book'.allocated = book.allocated
           \/ book'.allocated = book.allocated + 1 /\ book.allocated < MaxLevels
    BY <2>1, Zenon DEF Placed, Traded
  <2>5. Stamped(mid, book.nextId, now) /\ UniqueIds(mid)
    <3>1. SameStamps(book.levels, mid)
      BY <1>1, <2>4, FillsKeepStamps
    <3> QED BY <1>1, <3>1, StampsKept DEF Counted
  <2>6. Stamped(book'.levels, book'.nextId, now) /\ UniqueIds(book'.levels)
    <3>1. CASE rested
      <4>1. PICK x : Added(mid, x, order, book'.levels)
        BY <2>4, <3>1
      <4>2. order \in Orders /\ order.id = book.nextId /\ order.ts \in 1 .. now
        BY <1>1, <2>4, <3>1
      <4> HIDE DEF order
      <4>3. Stamped(book'.levels, order.id + 1, now) /\ UniqueIds(book'.levels)
        BY <1>1, <2>4, <2>5, <4>1, <4>2, StampAdded
      <4> QED BY <2>4, <3>1, <4>2, <4>3
    <3>2. CASE ~ rested
      <4>1. SameStamps(mid, book'.levels)
        BY <2>4, <3>2 DEF Removed, SameStamps
      <4> QED BY <1>1, <2>4, <2>5, <3>2, <4>1, StampsKept
    <3> QED BY <3>1, <3>2
  <2>7. book'.nextId \in 0 .. MaxOrderId /\ book'.allocated \in 0 .. MaxLevels
    BY <1>1, <2>4 DEF Counted
  <2> QED BY <2>2, <2>3, <2>6, <2>7 DEF Counted
<1>3. ASSUME \/ \E u \in Users, at \in Resting(book.levels) : CancelOrder(u, at)
             \/ \E n \in CrankBatches : CrankCancel(n)
      PROVE  Counted'
  <2>1. PICK places : Unrested(places)
    BY <1>3, CancelFacts DEF MoneyInv
  <2>2. /\ UNCHANGED <<now, paused, delegated, market>>
        /\ book'.nextId = book.nextId /\ book'.allocated = book.allocated
        /\ Removed(book.levels, places, book'.levels)
    BY <2>1 DEF Unrested, CollateralReturned
  <2>3. SameStamps(book.levels, book'.levels)
    BY <2>2 DEF Removed, SameStamps
  <2>4. Stamped(book'.levels, book.nextId, now) /\ UniqueIds(book'.levels)
    BY <1>1, <2>3, StampsKept DEF Counted
  <2> QED BY <2>2, <2>4 DEF Counted
<1> QED BY <1>2, <1>3, Zenon

(* Every step keeps the discipline.                                        *)
LEMMA NextCounted == MoneyInv /\ Counted /\ [Next]_vars => Counted'
<1> SUFFICES ASSUME MoneyInv, Counted, [Next]_vars PROVE Counted'
  OBVIOUS
<1>0. /\ BookTyped /\ paused \in BOOLEAN /\ delegated \subseteq Users
      /\ market \in [minted : Int, redeemed : Int, outcome : {Unsettled, YesWins, NoWins},
                     settledAt : Nat, deadline : Nat, overrides : Nat, closed : BOOLEAN]
  BY DEF MoneyInv, Counted, Ledger, MoneyTypes
<1>1. CASE \/ \E u \in Users, side \in Sides, price \in Prices, q \in OrderQtys,
                 isLimit \in BOOLEAN, n \in MaxFillsSet :
                   PlaceOrder(u, side, price, q, isLimit, n)
           \/ \E u \in Users, at \in Resting(book.levels) : CancelOrder(u, at)
           \/ \E n \in CrankBatches : CrankCancel(n)
  BY <1>1, BookCounted
<1>2. CASE \E u \in Users, q \in OrderQtys : MintPair(u, q) \/ RedeemPair(u, q)
  <2>1. /\ book' = book /\ now' = now /\ paused' = paused /\ delegated' \subseteq Users
        /\ market'.overrides = market.overrides
    BY <1>0, <1>2 DEF MintPair, RedeemPair
  <2> QED BY <1>0, <2>1, BystanderCounted
<1>3. CASE \/ \E u \in Users, q \in OrderQtys : RedeemWinner(u, q)
           \/ \E passed \in SUBSET Users : CrankRedeem(passed)
  <2>1. \E g : PayWinners(g)
    BY <1>3, Zenon DEF RedeemWinner, CrankRedeem
  <2>2. PICK g : PayWinners(g)
    BY <2>1
  <2>3. /\ UNCHANGED <<book, now, paused, delegated>>
        /\ market' = [market EXCEPT !.redeemed = @ + SumFunction(g)]
    BY <2>2, Zenon DEF PayWinners
  <2>4. market'.overrides = market.overrides
    BY <1>0, <2>3
  <2> QED BY <1>0, <2>3, <2>4, BystanderCounted
<1>4. CASE SettleMarket \/ \E price \in FeedPrices : AdminSettle(price)
  <2>1. PICK price : SettleAt(price)
    BY <1>4, Zenon DEF SettleMarket, AdminSettle
  <2>2. /\ market' = [market EXCEPT !.outcome = OutcomeAt(price), !.settledAt = now,
                                    !.deadline = now + Window]
        /\ UNCHANGED <<book, now, paused, delegated>>
    BY <2>1 DEF SettleAt, wallets
  <2>3. market'.overrides = market.overrides
    BY <1>0, <2>2
  <2> QED BY <1>0, <2>2, <2>3, BystanderCounted
<1>5. CASE \E price \in FeedPrices : OverrideSettlement(price)
  <2>1. PICK price : OverrideSettlement(price)
    BY <1>5
  <2>2. /\ market' = [market EXCEPT !.outcome = OutcomeAt(price), !.deadline = NextDeadline,
                                    !.overrides = @ + 1]
        /\ UNCHANGED <<book, now, paused, delegated>> /\ market.overrides < MaxOverrides
    BY <2>1 DEF OverrideSettlement, wallets
  <2>3. market'.overrides \in 0 .. MaxOverrides
    BY <1>0, <2>2, MarketAssumption
  <2> QED BY <2>2, <2>3 DEF Counted
<1>6. CASE \/ \E u \in Users : BurnWorthless(u)
           \/ Pause \/ Unpause \/ Tick \/ UNCHANGED vars
           \/ \E price \in FeedPrices, age \in FeedAges, confident \in BOOLEAN :
                UpdatePrice(price, age, confident)
  <2>1. /\ UNCHANGED <<book, delegated, market>> /\ now' \in {now, now + 1}
        /\ paused' \in BOOLEAN
    BY <1>0, <1>6 DEF BurnWorthless, Pause, Unpause, Tick, UpdatePrice, vars, wallets
  <2> QED BY <1>0, <2>1, BystanderCounted
<1>7. CASE CloseMarket
  <2>1. /\ UNCHANGED <<book, now, paused, delegated>>
        /\ market'.overrides = market.overrides
    BY <1>0, <1>7 DEF CloseMarket, wallets
  <2> QED BY <1>0, <2>1, BystanderCounted
<1> QED BY <1>1, <1>2, <1>3, <1>4, <1>5, <1>6, <1>7, Zenon DEF Next

(* It holds in every behaviour.                                            *)
LEMMA CountedInductive == Spec => []Counted
<1>1. Init => Counted
  BY InitCounted
<1> QED BY <1>1, NextCounted, MoneyInductive, PTL DEF Spec

(* A cancel names its order by the id: no two resting orders of a market   *)
(* ever have the same, however often slots and levels are used again.      *)
THEOREM OrderIdsAreUnique == Spec => []UniqueIds(book.levels)
<1>1. Counted => UniqueIds(book.levels)
  BY DEF Counted
<1> QED BY <1>1, CountedInductive, PTL

(* No balance is ever overdrawn, no supply or debt negative, no counter    *)
(* over its limit, and no order older than the market or from the future.  *)
THEOREM MarketTypeCorrect == Spec => []TypeOK
<1>1. MoneyInv /\ Covered /\ Counted => TypeOK
  <2> SUFFICES ASSUME MoneyInv, Covered, Counted PROVE TypeOK
    OBVIOUS
  <2>1. \A p \in Prices : \A i \in DOMAIN book.levels[p] :
           IsOrder(book.levels[p][i]) => book.levels[p][i] \in Order
    <3> SUFFICES ASSUME NEW p \in Prices, NEW i \in DOMAIN book.levels[p],
                        IsOrder(book.levels[p][i])
                 PROVE  book.levels[p][i] \in Order
      OBVIOUS
    <3>1. <<p, i>> \in Resting(book.levels)
      BY RestingPlaces
    <3>2. OrderAt(book.levels, <<p, i>>) \in Orders
      BY <3>1, RestingOrders DEF MoneyInv, BookTyped, BookOK
    <3>3. OrderAt(book.levels, <<p, i>>).ts \in 1 .. now
      BY <3>1 DEF Counted, Stamped
    <3> QED BY <3>2, <3>3 DEF OrderAt, Orders, Order
  <2>2. \A account \in DOMAIN pot : pot[account] \in Nat
    BY DEF MoneyInv, Ledger, MoneyTypes
  <2>3. supply \in [yes : Nat, no : Nat]
    <3>1. SumOf(yes, Users) \in Nat /\ SumOf(no, Users) \in Nat
          /\ pot.yesEscrow \in Nat /\ pot.noEscrow \in Nat
      BY WalletSums, PotFields DEF MoneyInv, Ledger
    <3>2. supply.yes \in Nat /\ supply.no \in Nat
      BY <3>1 DEF MoneyInv, Ledger, Conserved
    <3> QED BY <3>2, PotFields DEF MoneyInv, Ledger
  <2>4. Outstanding \in Nat
    BY PotFields DEF MoneyInv, Ledger, VaultBacksTokens
  <2> QED BY <2>1, <2>2, <2>3, <2>4 DEF TypeOK, MoneyInv, Ledger, MoneyTypes, Covered, Counted
<1> QED BY <1>1, MoneyInductive, CoveredInductive, CountedInductive, PTL

-----------------------------------------------------------------------------
(* The escrows: what the orders of a book have locked.                     *)

HeldUsdc(levels) == SumOf(LockedUsdc(levels), Resting(levels))
HeldYes(levels) == SumOf(LockedYes(levels), Resting(levels))
HeldNo(levels) == SumOf(LockedNo(levels), Resting(levels))

(* EscrowBacksBook with its sums as sums over all resting orders.          *)
Backed ==
  /\ pot.escrow >= HeldUsdc(book.levels)
  /\ pot.yesEscrow = HeldYes(book.levels)
  /\ pot.noEscrow = HeldNo(book.levels)

(* The functions of the locks are sums' worth of naturals.                 *)
LEMMA LockFacts ==
  ASSUME NEW levels, LevelsOK(levels, Orders)
  PROVE  /\ IsFiniteSet(Resting(levels))
         /\ Nats(LockedUsdc(levels), Resting(levels)) /\ Ints(LockedUsdc(levels), Resting(levels))
         /\ Nats(LockedYes(levels), Resting(levels)) /\ Ints(LockedYes(levels), Resting(levels))
         /\ Nats(LockedNo(levels), Resting(levels)) /\ Ints(LockedNo(levels), Resting(levels))
         /\ HeldUsdc(levels) \in Nat /\ HeldYes(levels) \in Nat /\ HeldNo(levels) \in Nat
<1>1. IsFiniteSet(Resting(levels))
  BY RestingFinite
<1>2. \A at \in Resting(levels) : /\ LockedUsdc(levels)[at] \in Nat
                                  /\ LockedYes(levels)[at] \in Nat
                                  /\ LockedNo(levels)[at] \in Nat
  BY LockedTypes
<1>3. /\ Nats(LockedUsdc(levels), Resting(levels)) /\ Ints(LockedUsdc(levels), Resting(levels))
      /\ Nats(LockedYes(levels), Resting(levels)) /\ Ints(LockedYes(levels), Resting(levels))
      /\ Nats(LockedNo(levels), Resting(levels)) /\ Ints(LockedNo(levels), Resting(levels))
  BY <1>2 DEF Nats, Ints
<1>4. HeldUsdc(levels) \in Nat /\ HeldYes(levels) \in Nat /\ HeldNo(levels) \in Nat
  BY <1>1, <1>3, SumNat DEF HeldUsdc, HeldYes, HeldNo
<1> QED BY <1>1, <1>3, <1>4

(* What a place has locked depends on its order alone.                     *)
LEMMA LockOf ==
  ASSUME NEW levels, LevelsOK(levels, Orders), NEW at \in Resting(levels)
  PROVE  LET o == OrderAt(levels, at)
         IN  /\ at[1] \in Prices /\ o \in Orders /\ o.qty \in Nat \ {0}
             /\ LockedUsdc(levels)[at] = (IF o.side = UsdcBid THEN EscrowFor(o.qty, at[1]) ELSE 0)
             /\ LockedYes(levels)[at] = (IF o.side = YesAsk THEN o.qty ELSE 0)
             /\ LockedNo(levels)[at] = (IF o.side = NoBid THEN o.qty ELSE 0)
<1> DEFINE o == OrderAt(levels, at)
<1>1. at[1] \in Prices /\ o \in Orders /\ o.qty \in Nat \ {0}
  BY RestingOrders
<1>2. /\ LockedUsdc(levels)[at] = Collateral(o.side, o.qty, at[1]).usdc
      /\ LockedYes(levels)[at] = Collateral(o.side, o.qty, at[1]).yes
      /\ LockedNo(levels)[at] = Collateral(o.side, o.qty, at[1]).no
  BY DEF LockedUsdc, LockedYes, LockedNo, Locked
<1> HIDE DEF o
<1>3. /\ Collateral(o.side, o.qty, at[1]).usdc = (IF o.side = UsdcBid THEN EscrowFor(o.qty, at[1]) ELSE 0)
      /\ Collateral(o.side, o.qty, at[1]).yes = (IF o.side = YesAsk THEN o.qty ELSE 0)
      /\ Collateral(o.side, o.qty, at[1]).no = (IF o.side = NoBid THEN o.qty ELSE 0)
  BY DEF Collateral
<1>4. /\ LockedUsdc(levels)[at] = (IF o.side = UsdcBid THEN EscrowFor(o.qty, at[1]) ELSE 0)
      /\ LockedYes(levels)[at] = (IF o.side = YesAsk THEN o.qty ELSE 0)
      /\ LockedNo(levels)[at] = (IF o.side = NoBid THEN o.qty ELSE 0)
  BY <1>2, <1>3
<1> QED BY <1>1, <1>4 DEF o

(* The same order at the same place has locked the same.                   *)
LEMMA SameLocks ==
  ASSUME NEW levels, NEW new, LevelsOK(levels, Orders), LevelsOK(new, Orders),
         NEW at \in Resting(levels) \cap Resting(new), OrderAt(new, at) = OrderAt(levels, at)
  PROVE  /\ LockedUsdc(new)[at] = LockedUsdc(levels)[at]
         /\ LockedYes(new)[at] = LockedYes(levels)[at]
         /\ LockedNo(new)[at] = LockedNo(levels)[at]
BY DEF LockedUsdc, LockedYes, LockedNo, Locked

(* The escrows of EscrowBacksBook are those sums.                          *)
LEMMA RestingSums ==
  ASSUME NEW levels, LevelsOK(levels, Orders)
  PROVE  /\ SumResting(levels, UsdcBid, LAMBDA p, o : EscrowFor(o.qty, p)) = HeldUsdc(levels)
         /\ SumResting(levels, YesAsk, LAMBDA p, o : o.qty) = HeldYes(levels)
         /\ SumResting(levels, NoBid, LAMBDA p, o : o.qty) = HeldNo(levels)
<1> DEFINE R == Resting(levels)
           U(side) == {at \in R : OrderAt(levels, at).side = side}
           gu == [at \in U(UsdcBid) |-> EscrowFor(OrderAt(levels, at).qty, at[1])]
           gy == [at \in U(YesAsk) |-> OrderAt(levels, at).qty]
           gn == [at \in U(NoBid) |-> OrderAt(levels, at).qty]
<1>1. /\ SumResting(levels, UsdcBid, LAMBDA p, o : EscrowFor(o.qty, p)) = SumOf(gu, U(UsdcBid))
      /\ SumResting(levels, YesAsk, LAMBDA p, o : o.qty) = SumOf(gy, U(YesAsk))
      /\ SumResting(levels, NoBid, LAMBDA p, o : o.qty) = SumOf(gn, U(NoBid))
  BY Zenon DEF SumResting, SumOver, SumFunction, SumOf
<1>2. \A side : U(side) \in SUBSET R
  OBVIOUS
<1>3. /\ \A at \in U(UsdcBid) : gu[at] = LockedUsdc(levels)[at]
      /\ \A at \in R \ U(UsdcBid) : LockedUsdc(levels)[at] = 0
      /\ \A at \in U(YesAsk) : gy[at] = LockedYes(levels)[at]
      /\ \A at \in R \ U(YesAsk) : LockedYes(levels)[at] = 0
      /\ \A at \in U(NoBid) : gn[at] = LockedNo(levels)[at]
      /\ \A at \in R \ U(NoBid) : LockedNo(levels)[at] = 0
  BY LockOf
<1>4. /\ IsFiniteSet(R) /\ Ints(LockedUsdc(levels), R) /\ Ints(LockedYes(levels), R)
      /\ Ints(LockedNo(levels), R)
  BY LockFacts
<1> HIDE DEF R, U, gu, gy, gn
<1>5. /\ SumOf(gu, U(UsdcBid)) = SumOf(LockedUsdc(levels), R)
      /\ SumOf(gy, U(YesAsk)) = SumOf(LockedYes(levels), R)
      /\ SumOf(gn, U(NoBid)) = SumOf(LockedNo(levels), R)
  BY <1>2, <1>3, <1>4, SumWiden
<1> QED BY <1>1, <1>5, Zenon DEF HeldUsdc, HeldYes, HeldNo, R

(* Orders that go take with them what they had locked.                     *)
LEMMA HeldRemoved ==
  ASSUME NEW levels, LevelsOK(levels, Orders), NEW places \in SUBSET Resting(levels),
         NEW new, LevelsOK(new, Orders), Removed(levels, places, new)
  PROVE  /\ HeldUsdc(new) = HeldUsdc(levels) - SumOf(LockedUsdc(levels), places)
         /\ HeldYes(new) = HeldYes(levels) - SumOf(LockedYes(levels), places)
         /\ HeldNo(new) = HeldNo(levels) - SumOf(LockedNo(levels), places)
<1> DEFINE R == Resting(levels)
           N == Resting(new)
<1>1. N = R \ places /\ \A at \in N : OrderAt(new, at) = OrderAt(levels, at)
  BY DEF Removed
<1>2. \A at \in N : /\ LockedUsdc(new)[at] = LockedUsdc(levels)[at]
                    /\ LockedYes(new)[at] = LockedYes(levels)[at]
                    /\ LockedNo(new)[at] = LockedNo(levels)[at]
  BY <1>1, SameLocks
<1>3. /\ IsFiniteSet(R) /\ Ints(LockedUsdc(levels), R) /\ Ints(LockedYes(levels), R)
      /\ Ints(LockedNo(levels), R)
  BY LockFacts
<1>4. places \in SUBSET R
  OBVIOUS
<1> HIDE DEF R, N
<1>5. /\ SumOf(LockedUsdc(new), N) = SumOf(LockedUsdc(levels), R) - SumOf(LockedUsdc(levels), places)
      /\ SumOf(LockedYes(new), N) = SumOf(LockedYes(levels), R) - SumOf(LockedYes(levels), places)
      /\ SumOf(LockedNo(new), N) = SumOf(LockedNo(levels), R) - SumOf(LockedNo(levels), places)
  BY <1>1, <1>2, <1>3, <1>4, SumLeft
<1> QED BY <1>5 DEF HeldUsdc, HeldYes, HeldNo, R, N

(* An order that comes to rest adds what it locks.                         *)
LEMMA HeldAdded ==
  ASSUME NEW levels, LevelsOK(levels, Orders), NEW x, NEW order \in Orders,
         NEW new, LevelsOK(new, Orders), Added(levels, x, order, new)
  PROVE  LET lock == Collateral(order.side, order.qty, x[1])
         IN  /\ HeldUsdc(new) = HeldUsdc(levels) + lock.usdc
             /\ HeldYes(new) = HeldYes(levels) + lock.yes
             /\ HeldNo(new) = HeldNo(levels) + lock.no
<1> DEFINE R == Resting(levels)
           N == Resting(new)
           lock == Collateral(order.side, order.qty, x[1])
<1>1. x \notin R /\ N = R \cup {x} /\ OrderAt(new, x) = order
      /\ \A at \in R : OrderAt(new, at) = OrderAt(levels, at)
  BY DEF Added
<1>2. \A at \in R : /\ LockedUsdc(new)[at] = LockedUsdc(levels)[at]
                    /\ LockedYes(new)[at] = LockedYes(levels)[at]
                    /\ LockedNo(new)[at] = LockedNo(levels)[at]
  BY <1>1, SameLocks
<1>3. /\ LockedUsdc(new)[x] = lock.usdc /\ LockedYes(new)[x] = lock.yes
      /\ LockedNo(new)[x] = lock.no
  BY <1>1 DEF LockedUsdc, LockedYes, LockedNo, Locked
<1>4. /\ IsFiniteSet(R) /\ Ints(LockedUsdc(levels), R) /\ Ints(LockedYes(levels), R)
      /\ Ints(LockedNo(levels), R)
  BY LockFacts
<1>5. /\ Ints(LockedUsdc(new), N) /\ Ints(LockedYes(new), N) /\ Ints(LockedNo(new), N)
  BY LockFacts
<1>6. /\ Ints(LockedUsdc(new), R) /\ LockedUsdc(new)[x] \in Int
      /\ Ints(LockedYes(new), R) /\ LockedYes(new)[x] \in Int
      /\ Ints(LockedNo(new), R) /\ LockedNo(new)[x] \in Int
  BY <1>1, <1>5 DEF Ints
<1> HIDE DEF R, N, lock
<1>7. /\ SumOf(LockedUsdc(new), N) = LockedUsdc(new)[x] + SumOf(LockedUsdc(new), R)
      /\ SumOf(LockedYes(new), N) = LockedYes(new)[x] + SumOf(LockedYes(new), R)
      /\ SumOf(LockedNo(new), N) = LockedNo(new)[x] + SumOf(LockedNo(new), R)
      /\ SumOf(LockedUsdc(new), R) \in Int /\ SumOf(LockedYes(new), R) \in Int
      /\ SumOf(LockedNo(new), R) \in Int
  BY <1>1, <1>4, <1>6, SumAdd
<1>8. /\ SumOf(LockedUsdc(new), R) = SumOf(LockedUsdc(levels), R)
      /\ SumOf(LockedYes(new), R) = SumOf(LockedYes(levels), R)
      /\ SumOf(LockedNo(new), R) = SumOf(LockedNo(levels), R)
  BY <1>2, <1>4, <1>6, SumSame
<1>9. /\ HeldUsdc(new) = HeldUsdc(levels) + lock.usdc
      /\ HeldYes(new) = HeldYes(levels) + lock.yes
      /\ HeldNo(new) = HeldNo(levels) + lock.no
  BY <1>3, <1>6, <1>7, <1>8 DEF HeldUsdc, HeldYes, HeldNo, R, N
<1> QED BY <1>9 DEF lock

(* What a fill sets free of what its maker had locked.                     *)
Freed(levels, f) ==
  LET o == OrderAt(levels, f.at)
      before == Collateral(o.side, o.qty, f.price)
      after == Collateral(o.side, o.qty - f.qty, f.price)
  IN  [usdc |-> before.usdc - after.usdc, yes |-> before.yes - after.yes,
       no |-> before.no - after.no]
FreedUsdc(levels, fs) == [k \in DOMAIN fs |-> Freed(levels, fs[k]).usdc]
FreedYes(levels, fs) == [k \in DOMAIN fs |-> Freed(levels, fs[k]).yes]
FreedNo(levels, fs) == [k \in DOMAIN fs |-> Freed(levels, fs[k]).no]

(* Nothing is locked for an order of nothing.                              *)
LEMMA NothingLocked ==
  ASSUME NEW p \in Prices
  PROVE  EscrowFor(0, p) = 0
<1>1. Dollar \in Nat /\ Dollar > 1 /\ p \in Nat
  BY DollarAssumption DEF Prices
<1>2. EscrowFor(0, p) = (Dollar - 1) \div Dollar
  BY <1>1 DEF EscrowFor, CeilDiv
<1>3. (Dollar - 1) \div Dollar = 0
  BY <1>1
<1> QED BY <1>2, <1>3

(* What a fill sets free, kind by kind.                                    *)
LEMMA FreedFacts ==
  ASSUME NEW levels, LevelsOK(levels, Orders), NEW f, f.at \in Resting(levels),
         f.price = f.at[1], f.qty \in 1 .. OrderAt(levels, f.at).qty
  PROVE  LET o == OrderAt(levels, f.at)
         IN  /\ f.price \in Prices /\ o \in Orders
             /\ Freed(levels, f).usdc =
                  (IF o.side = UsdcBid
                   THEN EscrowFor(o.qty, f.price) - EscrowFor(o.qty - f.qty, f.price) ELSE 0)
             /\ Freed(levels, f).yes = (IF o.side = YesAsk THEN f.qty ELSE 0)
             /\ Freed(levels, f).no = (IF o.side = NoBid THEN f.qty ELSE 0)
<1> DEFINE o == OrderAt(levels, f.at)
           p == f.price
<1>1. p \in Prices /\ o \in Orders /\ o.qty \in Nat \ {0} /\ f.qty \in 1 .. o.qty
  BY RestingOrders
<1>2. /\ Freed(levels, f).usdc = Collateral(o.side, o.qty, p).usdc - Collateral(o.side, o.qty - f.qty, p).usdc
      /\ Freed(levels, f).yes = Collateral(o.side, o.qty, p).yes - Collateral(o.side, o.qty - f.qty, p).yes
      /\ Freed(levels, f).no = Collateral(o.side, o.qty, p).no - Collateral(o.side, o.qty - f.qty, p).no
  BY DEF Freed
<1> HIDE DEF o, p
<1>3. \A q : /\ Collateral(o.side, q, p).usdc = (IF o.side = UsdcBid THEN EscrowFor(q, p) ELSE 0)
             /\ Collateral(o.side, q, p).yes = (IF o.side = YesAsk THEN q ELSE 0)
             /\ Collateral(o.side, q, p).no = (IF o.side = NoBid THEN q ELSE 0)
  BY DEF Collateral
<1>4. f.qty \in Nat /\ o.qty - f.qty \in Nat /\ o.qty \in Nat
  BY <1>1
<1>5. /\ Freed(levels, f).usdc =
           (IF o.side = UsdcBid THEN EscrowFor(o.qty, p) - EscrowFor(o.qty - f.qty, p) ELSE 0)
      /\ Freed(levels, f).yes = (IF o.side = YesAsk THEN f.qty ELSE 0)
      /\ Freed(levels, f).no = (IF o.side = NoBid THEN f.qty ELSE 0)
  BY <1>2, <1>3, <1>4
<1> QED BY <1>1, <1>5 DEF o, p

(* The lock of an order that was filled, in part or whole, is what it had  *)
(* locked less what was set free.                                          *)
LEMMA FilledLock ==
  ASSUME NEW levels, LevelsOK(levels, Orders), NEW fs, FillsFit(levels, fs),
         NEW new, LevelsOK(new, Orders), FillsApplied(levels, fs, new), NEW k \in DOMAIN fs
  PROVE  LET at == fs[k].at
             rests == at \in Resting(new)
         IN  /\ FreedUsdc(levels, fs)[k] = LockedUsdc(levels)[at]
                                             - (IF rests THEN LockedUsdc(new)[at] ELSE 0)
             /\ FreedYes(levels, fs)[k] = LockedYes(levels)[at]
                                             - (IF rests THEN LockedYes(new)[at] ELSE 0)
             /\ FreedNo(levels, fs)[k] = LockedNo(levels)[at]
                                             - (IF rests THEN LockedNo(new)[at] ELSE 0)
<1> DEFINE at == fs[k].at
           q == fs[k].qty
           p == fs[k].price
           o == OrderAt(levels, at)
           fr == Freed(levels, fs[k])
<1>1. /\ at \in Resting(levels) /\ p = at[1] /\ q \in 1 .. o.qty
  BY DEF FillsFit
<1>2. /\ p \in Prices /\ o \in Orders /\ o.qty \in Nat \ {0}
      /\ LockedUsdc(levels)[at] = (IF o.side = UsdcBid THEN EscrowFor(o.qty, p) ELSE 0)
      /\ LockedYes(levels)[at] = (IF o.side = YesAsk THEN o.qty ELSE 0)
      /\ LockedNo(levels)[at] = (IF o.side = NoBid THEN o.qty ELSE 0)
  BY <1>1, LockOf
<1>3. /\ fr.usdc = (IF o.side = UsdcBid THEN EscrowFor(o.qty, p) - EscrowFor(o.qty - q, p) ELSE 0)
      /\ fr.yes = (IF o.side = YesAsk THEN q ELSE 0)
      /\ fr.no = (IF o.side = NoBid THEN q ELSE 0)
  BY <1>1, FreedFacts
<1>4. /\ FreedUsdc(levels, fs)[k] = fr.usdc /\ FreedYes(levels, fs)[k] = fr.yes
      /\ FreedNo(levels, fs)[k] = fr.no
  BY DEF FreedUsdc, FreedYes, FreedNo
<1>5. at \in Resting(new) <=> q < o.qty
  BY <1>1 DEF FillsApplied, FillsFit
<1>6. CASE at \in Resting(new)
  <2> DEFINE n == OrderAt(new, at)
  <2>1. n = [o EXCEPT !.qty = @ - q]
    BY <1>6 DEF FillsApplied
  <2>2. /\ LockedUsdc(new)[at] = (IF n.side = UsdcBid THEN EscrowFor(n.qty, p) ELSE 0)
        /\ LockedYes(new)[at] = (IF n.side = YesAsk THEN n.qty ELSE 0)
        /\ LockedNo(new)[at] = (IF n.side = NoBid THEN n.qty ELSE 0)
    BY <1>1, <1>6, LockOf
  <2> HIDE DEF n, o
  <2>3. n.side = o.side /\ n.qty = o.qty - q
    BY <1>2, <2>1 DEF Orders
  <2> HIDE DEF at, p, q, fr
  <2>4. /\ fr.usdc = LockedUsdc(levels)[at] - LockedUsdc(new)[at]
        /\ fr.yes = LockedYes(levels)[at] - LockedYes(new)[at]
        /\ fr.no = LockedNo(levels)[at] - LockedNo(new)[at]
    <3>1. q \in Nat /\ o.qty \in Nat /\ o.qty - (o.qty - q) = q
      BY <1>1, <1>2
    <3> QED BY <1>2, <1>3, <2>2, <2>3, <3>1
  <2> QED BY <1>4, <1>6, <2>4 DEF at
<1>7. CASE at \notin Resting(new)
  <2> HIDE DEF o
  <2>1. q = o.qty
    BY <1>1, <1>2, <1>5, <1>7
  <2>2. EscrowFor(o.qty - q, p) = 0
    <3>1. o.qty - q = 0
      BY <1>2, <2>1
    <3> QED BY <1>2, <3>1, NothingLocked
  <2>3. EscrowFor(o.qty, p) \in Nat
    BY <1>2, CollateralNat
  <2> HIDE DEF at, p, q, fr
  <2>4. /\ fr.usdc = LockedUsdc(levels)[at] - 0 /\ fr.yes = LockedYes(levels)[at] - 0
        /\ fr.no = LockedNo(levels)[at] - 0
    BY <1>2, <1>3, <2>1, <2>2, <2>3
  <2> QED BY <1>4, <1>7, <2>4 DEF at
<1> QED BY <1>6, <1>7

(* What the fills of an order set free is what the book holds less.        *)
LEMMA HeldFilled ==
  ASSUME NEW levels, LevelsOK(levels, Orders), NEW fs, FillsFit(levels, fs),
         IsFiniteSet(DOMAIN fs),
         NEW new, LevelsOK(new, Orders), FillsApplied(levels, fs, new)
  PROVE  /\ HeldUsdc(levels) = HeldUsdc(new) + Sum(FreedUsdc(levels, fs))
         /\ HeldYes(levels) = HeldYes(new) + Sum(FreedYes(levels, fs))
         /\ HeldNo(levels) = HeldNo(new) + Sum(FreedNo(levels, fs))
<1> DEFINE R == Resting(levels)
           N == Resting(new)
           K == DOMAIN fs
           r == [k \in K |-> fs[k].at]
           DU == FreedUsdc(levels, fs)
           DY == FreedYes(levels, fs)
           DN == FreedNo(levels, fs)
           LU == LockedUsdc(levels)
           LY == LockedYes(levels)
           LN == LockedNo(levels)
           MU == LockedUsdc(new)
           MY == LockedYes(new)
           MN == LockedNo(new)
<1>1. r \in [K -> R] /\ \A j, k \in K : r[j] = r[k] => j = k
  BY DEF FillsFit
<1>2. N \in SUBSET R
  BY DEF FillsApplied
<1>3. /\ \A k \in K : DU[k] = LU[r[k]] - IF r[k] \in N THEN MU[r[k]] ELSE 0
      /\ \A k \in K : DY[k] = LY[r[k]] - IF r[k] \in N THEN MY[r[k]] ELSE 0
      /\ \A k \in K : DN[k] = LN[r[k]] - IF r[k] \in N THEN MN[r[k]] ELSE 0
  BY FilledLock
<1>4. ASSUME NEW x \in R, \A k \in K : r[k] # x
      PROVE  x \in N /\ MU[x] = LU[x] /\ MY[x] = LY[x] /\ MN[x] = LN[x]
  <2>1. \A k \in K : fs[k].at # x
    BY <1>4
  <2>2. x \in N
    BY <2>1 DEF FillsApplied
  <2>3. OrderAt(new, x) = OrderAt(levels, x)
    BY <2>1, <2>2 DEF FillsApplied
  <2> QED BY <2>2, <2>3, SameLocks
<1>5. /\ IsFiniteSet(R) /\ Ints(LU, R) /\ Ints(LY, R) /\ Ints(LN, R)
      /\ Ints(MU, N) /\ Ints(MY, N) /\ Ints(MN, N) /\ IsFiniteSet(K)
  BY LockFacts
<1>6. Sum(DU) = SumOf(DU, K) /\ Sum(DY) = SumOf(DY, K) /\ Sum(DN) = SumOf(DN, K)
  BY DEF Sum, FreedUsdc, FreedYes, FreedNo
<1> HIDE DEF R, N, K, r, DU, DY, DN, LU, LY, LN, MU, MY, MN
<1>7. SumOf(LU, R) = SumOf(MU, N) + SumOf(DU, K)
  BY <1>1, <1>2, <1>3, <1>4, <1>5, SumNamedReplaced
<1>8. SumOf(LY, R) = SumOf(MY, N) + SumOf(DY, K)
  BY <1>1, <1>2, <1>3, <1>4, <1>5, SumNamedReplaced
<1>9. SumOf(LN, R) = SumOf(MN, N) + SumOf(DN, K)
  BY <1>1, <1>2, <1>3, <1>4, <1>5, SumNamedReplaced
<1> QED BY <1>6, <1>7, <1>8, <1>9, Zenon
        DEF HeldUsdc, HeldYes, HeldNo, R, N, DU, DY, DN, LU, LY, LN, MU, MY, MN

(* What a fill sets free against what it takes out of the escrows: a maker *)
(* that sold for USDC or No tokens gives up just the tokens that go, and   *)
(* the bid of one that bought is released by at least what is paid from it.*)
LEMMA FreedPays ==
  ASSUME NEW levels, LevelsOK(levels, Orders), NEW side \in Sides, NEW limit \in Prices,
         NEW fs, FillsOK(side, limit, fs), FillsFit(levels, fs), NEW k \in DOMAIN fs,
         FillOK(levels, side, limit, fs[k])
  PROVE  /\ FreedUsdc(levels, fs)[k] \in Int
         /\ FreedUsdc(levels, fs)[k] >= (IF side = YesAsk THEN EscrowPays(side, fs)[k] ELSE 0)
         /\ FreedYes(levels, fs)[k] = (IF side = YesAsk THEN 0 ELSE Qtys(fs)[k])
         /\ FreedNo(levels, fs)[k] = (IF side = NoBid THEN 0 ELSE Burns(fs)[k])
         /\ side = NoBid => EscrowPays(side, fs)[k] = 0 /\ Burns(fs)[k] = Qtys(fs)[k]
<1> DEFINE f == fs[k]
           o == OrderAt(levels, f.at)
           fr == Freed(levels, f)
<1>1. f.at \in Resting(levels) /\ f.price = f.at[1] /\ f.qty \in 1 .. o.qty
  BY DEF FillsFit
<1>2. /\ f.price \in Prices /\ o \in Orders
      /\ fr.usdc = (IF o.side = UsdcBid
                    THEN EscrowFor(o.qty, f.price) - EscrowFor(o.qty - f.qty, f.price) ELSE 0)
      /\ fr.yes = (IF o.side = YesAsk THEN f.qty ELSE 0)
      /\ fr.no = (IF o.side = NoBid THEN f.qty ELSE 0)
  BY <1>1, FreedFacts
<1>3. f \in Fills(Orders) /\ SidesOK(side, limit, f) /\ f.makerSide = o.side
  BY DEF FillsOK, FillOK
<1>4. /\ FreedUsdc(levels, fs)[k] = fr.usdc /\ FreedYes(levels, fs)[k] = fr.yes
      /\ FreedNo(levels, fs)[k] = fr.no /\ Qtys(fs)[k] = f.qty /\ Burns(fs)[k] = Burnt(f)
      /\ EscrowPays(side, fs)[k] = IF f.isMerge THEN 0 ELSE Paid(side, f)
  BY DEF FreedUsdc, FreedYes, FreedNo, Qtys, Burns, EscrowPays
<1>5. o.qty \in Nat \ {0} /\ f.qty \in Nat /\ o.qty - f.qty \in Nat /\ f.qty + (o.qty - f.qty) = o.qty
  <2>1. o.qty \in Nat \ {0}
    BY <1>1, RestingOrders
  <2> HIDE DEF o, f
  <2> QED BY <1>1, <2>1
<1> HIDE DEF f, o, fr
<1>6. UsdcBid # YesAsk /\ UsdcBid # NoBid /\ YesAsk # NoBid
  BY DEF UsdcBid, YesAsk, NoBid
<1>7. Paid(side, f) = IF f.isMerge THEN f.qty ELSE SwapUsdc(f.qty, f.price)
  BY <1>3, FillMoney
<1>8. SwapUsdc(f.qty, f.price) + EscrowFor(o.qty - f.qty, f.price) <= EscrowFor(o.qty, f.price)
  <2>1. f.price \in 1 .. f.price
    BY <1>2 DEF Prices
  <2>2. SwapUsdc(f.qty, f.price) + Improvement(f.qty, f.price, f.price)
          + EscrowFor(o.qty - f.qty, f.price) <= EscrowFor(f.qty + (o.qty - f.qty), f.price)
    BY <1>2, <1>5, <2>1, EscrowCoversFill
  <2>3. Improvement(f.qty, f.price, f.price) = 0
    BY <1>2 DEF Improvement, Prices
  <2>4. SwapUsdc(f.qty, f.price) \in Nat
    BY <1>2, <1>5, SwapSplits
  <2> QED BY <1>5, <2>2, <2>3, <2>4
<1>9. /\ EscrowFor(o.qty, f.price) \in Nat /\ EscrowFor(o.qty - f.qty, f.price) \in Nat
      /\ SwapUsdc(f.qty, f.price) \in Nat
  BY <1>2, <1>5, CollateralNat, SwapSplits
<1>10. fr.usdc \in Int /\ fr.usdc >= (IF side = YesAsk THEN EscrowPays(side, fs)[k] ELSE 0)
  <2>1. CASE side = YesAsk /\ o.side = UsdcBid /\ ~ f.isMerge
    BY <1>2, <1>4, <1>7, <1>8, <1>9, <2>1
  <2>2. CASE side = YesAsk /\ o.side = NoBid /\ f.isMerge
    BY <1>2, <1>4, <1>6, <2>2
  <2>3. CASE side # YesAsk /\ o.side = YesAsk
    BY <1>2, <1>6, <2>3
  <2> QED BY <1>3, <1>6, <2>1, <2>2, <2>3 DEF SidesOK
<1>11. /\ fr.yes = (IF side = YesAsk THEN 0 ELSE f.qty)
       /\ fr.no = (IF side = NoBid THEN 0 ELSE Burnt(f))
       /\ side = NoBid => EscrowPays(side, fs)[k] = 0 /\ Burnt(f) = f.qty
  BY <1>2, <1>3, <1>4, <1>6 DEF SidesOK, Burnt
<1> QED BY <1>4, <1>10, <1>11

(* A buyer's escrow covers all of its fills, their improvements and what   *)
(* its remainder must still hold, however many fills there are.            *)
LEMMA BuyerCovered ==
  ASSUME NEW limit \in Prices, NEW fs, FillsOK(UsdcBid, limit, fs), IsFiniteSet(DOMAIN fs),
         NEW rest \in Nat
  PROVE  Sum(EscrowPays(UsdcBid, fs)) + Sum(Betters(UsdcBid, limit, fs)) + EscrowFor(rest, limit)
           <= EscrowFor(rest + Sum(Qtys(fs)), limit)
<1> DEFINE K == DOMAIN fs
           EP == EscrowPays(UsdcBid, fs)
           PI == Betters(UsdcBid, limit, fs)
           QY == Qtys(fs)
           E == {T \in SUBSET K :
                   SumOf(EP, T) + SumOf(PI, T) + EscrowFor(rest, limit)
                     <= EscrowFor(rest + SumOf(QY, T), limit)}
<1>1. ASSUME NEW k \in K
      PROVE  /\ EP[k] \in Nat /\ PI[k] \in Nat /\ QY[k] \in Nat
             /\ \A qr \in Nat : EP[k] + PI[k] + EscrowFor(qr, limit) <= EscrowFor(QY[k] + qr, limit)
  <2> DEFINE f == fs[k]
  <2>1. f \in Fills(Orders) /\ SidesOK(UsdcBid, limit, f)
    BY DEF FillsOK
  <2>2. /\ EP[k] = (IF f.isMerge THEN 0 ELSE Paid(UsdcBid, f))
        /\ PI[k] = PriceImprovement(UsdcBid, limit, f) /\ QY[k] = f.qty
    BY DEF EscrowPays, Betters, Qtys
  <2> HIDE DEF f, EP, PI, QY
  <2>3. UsdcBid # YesAsk /\ UsdcBid # NoBid /\ UsdcBid \in Sides
    BY DEF UsdcBid, YesAsk, NoBid, Sides
  <2>4. ~ f.isMerge /\ f.price <= limit
    BY <2>1, <2>3 DEF SidesOK
  <2>5. /\ f.qty \in Nat /\ f.price \in Prices /\ PriceImprovement(UsdcBid, limit, f) \in Nat
        /\ Paid(UsdcBid, f) = SwapUsdc(f.qty, f.price)
    BY <2>1, <2>3, <2>4, FillMoney
  <2>6. SwapUsdc(f.qty, f.price) \in Nat
    BY <2>5, SwapSplits
  <2>7. EP[k] = SwapUsdc(f.qty, f.price) /\ PI[k] = Improvement(f.qty, limit, f.price)
    BY <2>2, <2>4, <2>5 DEF PriceImprovement
  <2>8. f.price \in 1 .. limit
    BY <2>4, <2>5 DEF Prices
  <2>9. \A qr \in Nat : SwapUsdc(f.qty, f.price) + Improvement(f.qty, limit, f.price)
                          + EscrowFor(qr, limit) <= EscrowFor(f.qty + qr, limit)
    BY <2>5, <2>8, EscrowCoversFill
  <2> QED BY <2>2, <2>5, <2>6, <2>7, <2>9
<1>2. /\ DOMAIN EP = K /\ DOMAIN PI = K /\ DOMAIN QY = K
  BY DEF EscrowPays, Betters, Qtys
<1> HIDE DEF EP, PI, QY, K
<1>3. /\ Ints(EP, K) /\ Ints(PI, K) /\ Ints(QY, K) /\ Nats(QY, K) /\ IsFiniteSet(K)
  BY <1>1 DEF Ints, Nats, K
<1>4. \A q \in Nat : EscrowFor(q, limit) \in Nat
  BY CollateralNat
<1>5. {} \in E
  <2>1. SumOf(EP, {}) = 0 /\ SumOf(PI, {}) = 0 /\ SumOf(QY, {}) = 0
    BY SumEmpty
  <2>2. EscrowFor(rest, limit) \in Nat /\ rest + 0 = rest
    BY <1>4
  <2> QED BY <2>1, <2>2
<1>6. ASSUME NEW T \in SUBSET K, NEW x \in K \ T, T \in E
      PROVE  T \cup {x} \in E
  <2>1. IsFiniteSet(T) /\ Ints(EP, T) /\ Ints(PI, T) /\ Ints(QY, T) /\ Nats(QY, T)
    BY <1>3, FS_Subset DEF Ints, Nats
  <2>2. x \notin T /\ EP[x] \in Nat /\ PI[x] \in Nat /\ QY[x] \in Nat
    BY <1>1
  <2>3. /\ SumOf(EP, T \cup {x}) = EP[x] + SumOf(EP, T) /\ SumOf(EP, T) \in Int
        /\ SumOf(PI, T \cup {x}) = PI[x] + SumOf(PI, T) /\ SumOf(PI, T) \in Int
        /\ SumOf(QY, T \cup {x}) = QY[x] + SumOf(QY, T) /\ SumOf(QY, T) \in Int
    BY <2>1, <2>2, SumAdd
  <2>4. SumOf(QY, T) \in Nat
    BY <2>1, SumNat
  <2> DEFINE qr == rest + SumOf(QY, T)
  <2>5. qr \in Nat /\ QY[x] + qr = rest + SumOf(QY, T \cup {x})
    BY <2>2, <2>3, <2>4
  <2>6. SumOf(EP, T) + SumOf(PI, T) + EscrowFor(rest, limit) <= EscrowFor(qr, limit)
    BY <1>6
  <2> HIDE DEF qr
  <2>7. EP[x] + PI[x] + EscrowFor(qr, limit) <= EscrowFor(QY[x] + qr, limit)
    BY <1>1, <2>5
  <2>8. EscrowFor(qr, limit) \in Nat /\ EscrowFor(rest, limit) \in Nat
        /\ EscrowFor(QY[x] + qr, limit) \in Nat
    BY <1>4, <2>2, <2>5
  <2>9. SumOf(EP, T \cup {x}) + SumOf(PI, T \cup {x}) + EscrowFor(rest, limit)
          <= EscrowFor(QY[x] + qr, limit)
    BY <2>2, <2>3, <2>6, <2>7, <2>8
  <2> QED BY <2>5, <2>9
<1> HIDE DEF E
<1>7. K \in E
  BY <1>3, <1>5, <1>6, SetInduction
<1>8. SumOf(EP, K) + SumOf(PI, K) + EscrowFor(rest, limit) <= EscrowFor(rest + SumOf(QY, K), limit)
  BY <1>7 DEF E
<1> QED BY <1>2, <1>8, Zenon DEF Sum, EP, PI, QY

(* The sums of what the fills of an order set free.                        *)
LEMMA FreedSums ==
  ASSUME NEW levels, LevelsOK(levels, Orders), NEW side \in Sides, NEW limit \in Prices,
         NEW fs, FillsOK(side, limit, fs), FillsFit(levels, fs),
         \A k \in DOMAIN fs : FillOK(levels, side, limit, fs[k])
  PROVE  /\ Sum(FreedUsdc(levels, fs)) \in Int
         /\ Sum(FreedUsdc(levels, fs)) >= (IF side = YesAsk THEN Sum(EscrowPays(side, fs)) ELSE 0)
         /\ Sum(FreedYes(levels, fs)) = (IF side = YesAsk THEN 0 ELSE Sum(Qtys(fs)))
         /\ Sum(FreedNo(levels, fs)) = (IF side = NoBid THEN 0 ELSE Sum(Burns(fs)))
         /\ side = NoBid => Sum(EscrowPays(side, fs)) = 0 /\ Sum(Burns(fs)) = Sum(Qtys(fs))
<1> DEFINE K == DOMAIN fs
           DU == FreedUsdc(levels, fs)
           DY == FreedYes(levels, fs)
           DN == FreedNo(levels, fs)
           EP == EscrowPays(side, fs)
           QY == Qtys(fs)
           BU == Burns(fs)
           z == [k \in K |-> 0]
<1>1. \A k \in K : /\ DU[k] \in Int /\ DU[k] >= (IF side = YesAsk THEN EP[k] ELSE 0)
                   /\ DY[k] = (IF side = YesAsk THEN 0 ELSE QY[k])
                   /\ DN[k] = (IF side = NoBid THEN 0 ELSE BU[k])
                   /\ side = NoBid => EP[k] = 0 /\ BU[k] = QY[k]
  BY FreedPays
<1>2. \A k \in K : EP[k] \in Nat /\ QY[k] \in Nat /\ BU[k] \in Nat
  BY FillTypes
<1>3. IsFiniteSet(K) /\ \A k \in K : z[k] = 0
  BY FillTotals
<1>4. /\ Sum(DU) = SumOf(DU, K) /\ Sum(DY) = SumOf(DY, K) /\ Sum(DN) = SumOf(DN, K)
      /\ Sum(EP) = SumOf(EP, K) /\ Sum(QY) = SumOf(QY, K) /\ Sum(BU) = SumOf(BU, K)
  BY DEF Sum, FreedUsdc, FreedYes, FreedNo, EscrowPays, Qtys, Burns
<1> HIDE DEF K, DU, DY, DN, EP, QY, BU, z
<1>5. /\ Ints(DU, K) /\ Ints(DY, K) /\ Ints(DN, K) /\ Ints(EP, K) /\ Ints(QY, K) /\ Ints(BU, K)
      /\ Ints(z, K)
  BY <1>1, <1>2, <1>3 DEF Ints
<1>6. SumOf(z, K) = 0 /\ SumOf(DU, K) \in Int /\ SumOf(EP, K) \in Int
  BY <1>3, <1>5, SumZero, SumInt
<1>7. SumOf(DU, K) >= (IF side = YesAsk THEN SumOf(EP, K) ELSE 0)
  <2>1. CASE side = YesAsk
    <3>1. \A k \in K : EP[k] <= DU[k]
      BY <1>1, <1>2, <2>1
    <3>2. SumOf(EP, K) <= SumOf(DU, K)
      BY <1>3, <1>5, <3>1, SumLeq
    <3> QED BY <1>6, <2>1, <3>2
  <2>2. CASE side # YesAsk
    <3>1. \A k \in K : z[k] <= DU[k]
      BY <1>1, <1>3, <2>2
    <3>2. SumOf(z, K) <= SumOf(DU, K)
      BY <1>3, <1>5, <3>1, SumLeq
    <3> QED BY <1>6, <2>2, <3>2
  <2> QED BY <2>1, <2>2
<1>8. SumOf(DY, K) = (IF side = YesAsk THEN 0 ELSE SumOf(QY, K))
  <2>1. CASE side = YesAsk
    <3>1. \A k \in K : DY[k] = 0
      BY <1>1, <2>1
    <3> QED BY <1>3, <2>1, <3>1, SumZero
  <2>2. CASE side # YesAsk
    <3>1. \A k \in K : DY[k] = QY[k]
      BY <1>1, <2>2
    <3> QED BY <1>3, <1>5, <2>2, <3>1, SumSame
  <2> QED BY <2>1, <2>2
<1>9. SumOf(DN, K) = (IF side = NoBid THEN 0 ELSE SumOf(BU, K))
  <2>1. CASE side = NoBid
    <3>1. \A k \in K : DN[k] = 0
      BY <1>1, <2>1
    <3> QED BY <1>3, <2>1, <3>1, SumZero
  <2>2. CASE side # NoBid
    <3>1. \A k \in K : DN[k] = BU[k]
      BY <1>1, <2>2
    <3> QED BY <1>3, <1>5, <2>2, <3>1, SumSame
  <2> QED BY <2>1, <2>2
<1>10. ASSUME side = NoBid
       PROVE  SumOf(EP, K) = 0 /\ SumOf(BU, K) = SumOf(QY, K)
  <2>1. \A k \in K : EP[k] = 0 /\ BU[k] = QY[k]
    BY <1>1, <1>10
  <2> QED BY <1>3, <1>5, <2>1, SumZero, SumSame
<1>11. /\ Sum(DU) \in Int /\ Sum(DU) >= (IF side = YesAsk THEN Sum(EP) ELSE 0)
       /\ Sum(DY) = (IF side = YesAsk THEN 0 ELSE Sum(QY))
       /\ Sum(DN) = (IF side = NoBid THEN 0 ELSE Sum(BU))
       /\ side = NoBid => Sum(EP) = 0 /\ Sum(BU) = Sum(QY)
  BY <1>4, <1>6, <1>7, <1>8, <1>9, <1>10
<1> QED BY <1>11 DEF DU, DY, DN, EP, QY, BU

(* What the book holds after an order: what it held, less what the fills   *)
(* set free, and what the remainder locks when it rests.                   *)
LEMMA HeldAfterOrder ==
  ASSUME BookTyped, NEW u \in Users, NEW side \in Sides, NEW price \in Prices, NEW q \in Nat,
         NEW m, NEW rested, NEW mid, Traded(u, side, price, q, m, rested, mid)
  PROVE  LET L == book.levels
             lock == Collateral(side, m.remaining - Refunded(m, rested), price)
         IN  /\ HeldUsdc(book'.levels) = HeldUsdc(L) - Sum(FreedUsdc(L, m.fills)) + lock.usdc
             /\ HeldYes(book'.levels) = HeldYes(L) - Sum(FreedYes(L, m.fills)) + lock.yes
             /\ HeldNo(book'.levels) = HeldNo(L) - Sum(FreedNo(L, m.fills)) + lock.no
<1> DEFINE L == book.levels
           new == book'.levels
           fs == m.fills
           rem == m.remaining
           order == [owner |-> u, id |-> book.nextId, side |-> side, qty |-> rem, ts |-> now]
           lock == Collateral(side, rem - Refunded(m, rested), price)
           du == Sum(FreedUsdc(L, fs))
           dy == Sum(FreedYes(L, fs))
           dn == Sum(FreedNo(L, fs))
<1>1. /\ LevelsOK(L, Orders) /\ LevelsOK(mid, Orders) /\ LevelsOK(new, Orders)
      /\ FillsOK(side, price, fs) /\ FillsFit(L, fs) /\ FillsApplied(L, fs, mid)
      /\ MatchOK(L, Orders, side, price, q, m) /\ rested \in BOOLEAN
      /\ IF rested THEN order \in Orders /\ \E x : x[1] = price /\ Added(mid, x, order, new)
                   ELSE Removed(mid, {}, new)
  BY Zenon DEF BookTyped, Traded, BookOK
<1>2. rem \in Nat
  BY <1>1 DEF MatchOK, Matches
<1>3. IsFiniteSet(DOMAIN fs)
  BY <1>1, FillTotals
<1>4. \A k \in DOMAIN fs : FillOK(L, side, price, fs[k])
  BY <1>1 DEF MatchOK
<1> HIDE DEF fs
<1>5. /\ HeldUsdc(L) = HeldUsdc(mid) + du /\ HeldYes(L) = HeldYes(mid) + dy
      /\ HeldNo(L) = HeldNo(mid) + dn
  BY <1>1, <1>3, HeldFilled
<1>6. du \in Int /\ dy \in Int /\ dn \in Int
  <2>1. /\ du \in Int /\ dy = (IF side = YesAsk THEN 0 ELSE Sum(Qtys(fs)))
        /\ dn = (IF side = NoBid THEN 0 ELSE Sum(Burns(fs)))
    BY <1>1, <1>4, FreedSums
  <2>2. Sum(Qtys(fs)) \in Nat /\ Sum(Burns(fs)) \in Nat
    BY <1>1, FillTotals
  <2> QED BY <2>1, <2>2
<1>7. HeldUsdc(mid) \in Nat /\ HeldYes(mid) \in Nat /\ HeldNo(mid) \in Nat
  BY <1>1, LockFacts
<1> HIDE DEF du, dy, dn, L, new
<1>8. /\ HeldUsdc(new) = HeldUsdc(mid) + lock.usdc /\ HeldYes(new) = HeldYes(mid) + lock.yes
      /\ HeldNo(new) = HeldNo(mid) + lock.no
  <2>1. CASE rested
    <3>1. rem - Refunded(m, rested) = rem
      BY <1>2, <2>1 DEF Refunded
    <3>2. PICK x : x[1] = price /\ Added(mid, x, order, new)
      BY <1>1, <2>1
    <3>3. order \in Orders /\ order.side = side /\ order.qty = rem
      BY <1>1, <2>1
    <3> HIDE DEF order
    <3>4. LET add == Collateral(order.side, order.qty, x[1])
          IN  /\ HeldUsdc(new) = HeldUsdc(mid) + add.usdc
              /\ HeldYes(new) = HeldYes(mid) + add.yes
              /\ HeldNo(new) = HeldNo(mid) + add.no
      BY <1>1, <3>2, <3>3, HeldAdded
    <3>5. lock = Collateral(order.side, order.qty, x[1])
      BY <3>1, <3>2, <3>3
    <3> QED BY <3>4, <3>5, Zenon
  <2>2. CASE ~ rested
    <3>1. rem - Refunded(m, rested) = 0
      BY <1>2, <2>2 DEF Refunded
    <3>2. lock.usdc = 0 /\ lock.yes = 0 /\ lock.no = 0
      BY <3>1, NothingLocked DEF Collateral
    <3>3. Removed(mid, {}, new) /\ {} \in SUBSET Resting(mid)
      BY <1>1, <2>2
    <3>4. /\ HeldUsdc(new) = HeldUsdc(mid) - SumOf(LockedUsdc(mid), {})
          /\ HeldYes(new) = HeldYes(mid) - SumOf(LockedYes(mid), {})
          /\ HeldNo(new) = HeldNo(mid) - SumOf(LockedNo(mid), {})
      BY <1>1, <3>3, HeldRemoved
    <3>5. /\ SumOf(LockedUsdc(mid), {}) = 0 /\ SumOf(LockedYes(mid), {}) = 0
          /\ SumOf(LockedNo(mid), {}) = 0
      BY SumEmpty
    <3> HIDE DEF lock
    <3> QED BY <1>7, <3>2, <3>4, <3>5
  <2> QED BY <1>1, <2>1, <2>2
<1>9. lock.usdc \in Nat /\ lock.yes \in Nat /\ lock.no \in Nat
  <2>1. rem - Refunded(m, rested) \in Nat
    BY <1>1, <1>2 DEF Refunded
  <2>2. lock \in [usdc : Nat, yes : Nat, no : Nat]
    BY <2>1, CollateralNat
  <2> HIDE DEF lock
  <2> QED BY <2>2
<1> HIDE DEF lock
<1>10. /\ HeldUsdc(new) = HeldUsdc(L) - du + lock.usdc
       /\ HeldYes(new) = HeldYes(L) - dy + lock.yes
       /\ HeldNo(new) = HeldNo(L) - dn + lock.no
  BY <1>5, <1>6, <1>7, <1>8, <1>9
<1> QED BY <1>10 DEF L, new, fs, du, dy, dn, lock, rem

(* An order, its fills and its refund leave the escrows backing the book.  *)
LEMMA PlaceBacked ==
  ASSUME MoneyInv, Backed, NEW u \in Users, NEW side \in Sides, NEW price \in Prices,
         NEW q \in Nat, NEW m, NEW rested, NEW mid, Traded(u, side, price, q, m, rested, mid)
  PROVE  Backed'
<1> DEFINE L == book.levels
           new == book'.levels
           fs == m.fills
           rem == m.remaining
           back == Refunded(m, rested)
           deposit == Collateral(side, q, price)
           refund == Collateral(side, back, price)
           lock == Collateral(side, rem - back, price)
           be == Sum(Betters(side, price, fs))
           ep == Sum(EscrowPays(side, fs))
           bu == Sum(Burns(fs))
           qy == Sum(Qtys(fs))
           du == Sum(FreedUsdc(L, fs))
           dy == Sum(FreedYes(L, fs))
           dn == Sum(FreedNo(L, fs))
<1>1. /\ LevelsOK(L, Orders) /\ FillsOK(side, price, fs) /\ FillsFit(L, fs)
      /\ MatchOK(L, Orders, side, price, q, m) /\ rested \in BOOLEAN
      /\ OrderSettled(u, side, price, deposit, fs, refund)
  BY Zenon DEF MoneyInv, BookTyped, Traded, BookOK
<1>2. rem \in Nat /\ \A k \in DOMAIN fs : FillOK(L, side, price, fs[k])
  BY <1>1 DEF MatchOK, Matches
<1>3. /\ HeldUsdc(new) = HeldUsdc(L) - du + lock.usdc /\ HeldYes(new) = HeldYes(L) - dy + lock.yes
      /\ HeldNo(new) = HeldNo(L) - dn + lock.no
  BY HeldAfterOrder DEF MoneyInv
<1>4. /\ pot'.escrow = pot.escrow + deposit.usdc - be - refund.usdc - ep
      /\ pot'.yesEscrow = pot.yesEscrow + deposit.yes - refund.yes - qy
      /\ pot'.noEscrow = pot.noEscrow + deposit.no - refund.no - bu
      /\ pot.escrow \in Nat /\ pot.yesEscrow \in Nat /\ pot.noEscrow \in Nat
  <2> DEFINE e == pot.escrow + deposit.usdc - be - refund.usdc - ep
             y == pot.yesEscrow + deposit.yes - refund.yes - qy
             n == pot.noEscrow + deposit.no - refund.no - bu
  <2>1. pot' = [pot EXCEPT !.vault = @ - Sum(VaultPays(side, fs)), !.escrow = e,
                           !.yesEscrow = y, !.noEscrow = n, !.feeVault = @ + Sum(Fees(fs))]
    BY <1>1, Zenon DEF OrderSettled
  <2> HIDE DEF e, y, n, fs
  <2>2. pot'.escrow = e /\ pot'.yesEscrow = y /\ pot'.noEscrow = n
    BY <2>1 DEF MoneyInv, Ledger, MoneyTypes
  <2>3. pot.escrow \in Nat /\ pot.yesEscrow \in Nat /\ pot.noEscrow \in Nat
    BY PotFields DEF MoneyInv, Ledger
  <2> QED BY <2>2, <2>3 DEF e, y, n
<1>5. IsFiniteSet(DOMAIN fs) /\ be \in Nat /\ ep \in Nat /\ bu \in Nat /\ qy \in Nat
  BY <1>1, FillTotals
<1>6. /\ du \in Int /\ du >= (IF side = YesAsk THEN ep ELSE 0)
      /\ dy = (IF side = YesAsk THEN 0 ELSE qy) /\ dn = (IF side = NoBid THEN 0 ELSE bu)
      /\ side = NoBid => ep = 0 /\ bu = qy
  BY <1>1, <1>2, FreedSums
<1>7. rem + qy = q
  <2>1. qy = SumOf(Qtys(fs), DOMAIN fs)
    BY DEF Sum, Qtys
  <2> QED BY <1>1, <2>1 DEF MatchOK
<1>8. /\ back \in Nat /\ rem - back \in Nat /\ (back = 0 \/ rem - back = 0)
  BY <1>1, <1>2 DEF Refunded
<1>9. side = UsdcBid => ep + be + EscrowFor(rem, price) <= EscrowFor(q, price)
  <2>1. ASSUME side = UsdcBid
        PROVE  Sum(EscrowPays(UsdcBid, fs)) + Sum(Betters(UsdcBid, price, fs)) + EscrowFor(rem, price)
                 <= EscrowFor(rem + qy, price)
    <3>1. FillsOK(UsdcBid, price, fs)
      BY <1>1, <2>1
    <3> QED BY <1>2, <1>5, <3>1, BuyerCovered
  <2> QED BY <1>7, <2>1
<1>10. side # UsdcBid => be = 0
  <2> SUFFICES ASSUME side # UsdcBid PROVE be = 0
    OBVIOUS
  <2> DEFINE PI == Betters(side, price, fs)
  <2>1. \A k \in DOMAIN fs : PI[k] = 0
    BY DEF Betters, PriceImprovement
  <2>2. Sum(PI) = SumOf(PI, DOMAIN fs)
    BY DEF Sum, Betters
  <2> HIDE DEF PI
  <2>3. SumOf(PI, DOMAIN fs) = 0
    BY <1>5, <2>1, SumZero
  <2> QED BY <2>2, <2>3 DEF PI
<1>11. /\ deposit.usdc = (IF side = UsdcBid THEN EscrowFor(q, price) ELSE 0)
       /\ deposit.yes = (IF side = YesAsk THEN q ELSE 0)
       /\ deposit.no = (IF side = NoBid THEN q ELSE 0)
       /\ refund.usdc = (IF side = UsdcBid THEN EscrowFor(back, price) ELSE 0)
       /\ refund.yes = (IF side = YesAsk THEN back ELSE 0)
       /\ refund.no = (IF side = NoBid THEN back ELSE 0)
       /\ lock.usdc = (IF side = UsdcBid THEN EscrowFor(rem - back, price) ELSE 0)
       /\ lock.yes = (IF side = YesAsk THEN rem - back ELSE 0)
       /\ lock.no = (IF side = NoBid THEN rem - back ELSE 0)
       /\ EscrowFor(q, price) \in Nat /\ EscrowFor(back, price) \in Nat
       /\ EscrowFor(rem - back, price) \in Nat /\ EscrowFor(rem, price) \in Nat
  <2>1. \A x : /\ Collateral(side, x, price).usdc = (IF side = UsdcBid THEN EscrowFor(x, price) ELSE 0)
               /\ Collateral(side, x, price).yes = (IF side = YesAsk THEN x ELSE 0)
               /\ Collateral(side, x, price).no = (IF side = NoBid THEN x ELSE 0)
    BY DEF Collateral
  <2>2. deposit = Collateral(side, q, price) /\ refund = Collateral(side, back, price)
        /\ lock = Collateral(side, rem - back, price)
    OBVIOUS
  <2>3. q \in Nat /\ rem \in Nat /\ price \in Prices
    BY <1>2
  <2> HIDE DEF rem, back, deposit, refund, lock
  <2>4. EscrowFor(q, price) \in Nat /\ EscrowFor(back, price) \in Nat
    BY <1>8, <2>3, CollateralNat
  <2>5. EscrowFor(rem - back, price) \in Nat /\ EscrowFor(rem, price) \in Nat
    BY <1>8, <2>3, CollateralNat
  <2> QED BY <2>1, <2>2, <2>4, <2>5
<1>12. /\ HeldUsdc(L) \in Nat /\ HeldYes(L) \in Nat /\ HeldNo(L) \in Nat
       /\ pot.escrow >= HeldUsdc(L) /\ pot.yesEscrow = HeldYes(L) /\ pot.noEscrow = HeldNo(L)
  BY <1>1, LockFacts DEF Backed
<1>13. EscrowFor(back, price) + EscrowFor(rem - back, price) = EscrowFor(rem, price)
  <2>1. CASE back = 0
    BY <1>2, <1>11, <2>1, NothingLocked
  <2>2. CASE rem - back = 0
    <3>1. back = rem
      BY <1>2, <1>8, <2>2
    <3> QED BY <1>11, <2>2, <3>1, NothingLocked
  <2> QED BY <1>8, <2>1, <2>2
<1>14. UsdcBid # YesAsk /\ UsdcBid # NoBid /\ YesAsk # NoBid
       /\ (side = UsdcBid \/ side = YesAsk \/ side = NoBid)
  BY DEF UsdcBid, YesAsk, NoBid, Sides
<1> HIDE DEF L, new, fs, rem, back, deposit, refund, lock, be, ep, bu, qy, du, dy, dn
<1>15. pot'.escrow >= HeldUsdc(new)
  <2>1. CASE side = UsdcBid
    <3>1. du >= 0 /\ deposit.usdc = EscrowFor(q, price) /\ refund.usdc = EscrowFor(back, price)
          /\ lock.usdc = EscrowFor(rem - back, price)
      BY <1>6, <1>11, <1>14, <2>1
    <3>2. refund.usdc + lock.usdc + ep + be <= deposit.usdc
      BY <1>5, <1>9, <1>11, <1>13, <2>1, <3>1
    <3> QED BY <1>3, <1>4, <1>5, <1>6, <1>11, <1>12, <3>1, <3>2
  <2>2. CASE side # UsdcBid
    <3>1. deposit.usdc = 0 /\ refund.usdc = 0 /\ lock.usdc = 0 /\ be = 0 /\ du >= ep
      BY <1>6, <1>10, <1>11, <1>14, <2>2
    <3> QED BY <1>3, <1>4, <1>5, <1>6, <1>12, <3>1
  <2> QED BY <2>1, <2>2
<1>16. pot'.yesEscrow = HeldYes(new)
  <2>1. CASE side = YesAsk
    <3>1. deposit.yes = q /\ refund.yes = back /\ lock.yes = rem - back /\ dy = 0
      BY <1>6, <1>11, <2>1
    <3> QED BY <1>2, <1>3, <1>4, <1>5, <1>7, <1>8, <1>12, <3>1
  <2>2. CASE side # YesAsk
    <3>1. deposit.yes = 0 /\ refund.yes = 0 /\ lock.yes = 0 /\ dy = qy
      BY <1>6, <1>11, <2>2
    <3> QED BY <1>3, <1>4, <1>5, <1>12, <3>1
  <2> QED BY <2>1, <2>2
<1>17. pot'.noEscrow = HeldNo(new)
  <2>1. CASE side = NoBid
    <3>1. deposit.no = q /\ refund.no = back /\ lock.no = rem - back /\ dn = 0 /\ bu = qy
      BY <1>6, <1>11, <2>1
    <3> QED BY <1>2, <1>3, <1>4, <1>5, <1>7, <1>8, <1>12, <3>1
  <2>2. CASE side # NoBid
    <3>1. deposit.no = 0 /\ refund.no = 0 /\ lock.no = 0 /\ dn = bu
      BY <1>6, <1>11, <2>2
    <3> QED BY <1>3, <1>4, <1>5, <1>12, <3>1
  <2> QED BY <2>1, <2>2
<1> QED BY <1>15, <1>16, <1>17, Zenon DEF Backed, new

(* So do cancels and cranks: each order takes what it had locked.          *)
LEMMA ReturnBacked ==
  ASSUME MoneyInv, Backed, NEW places, Unrested(places)
  PROVE  Backed'
<1> DEFINE L == book.levels
           eu == SumOf(LockedUsdc(L), places)
           ey == SumOf(LockedYes(L), places)
           en == SumOf(LockedNo(L), places)
<1>1. /\ LevelsOK(L, Orders) /\ LevelsOK(book'.levels, Orders) /\ places \in SUBSET Resting(L)
      /\ Removed(L, places, book'.levels)
      /\ pot' = [pot EXCEPT !.escrow = @ - eu, !.yesEscrow = @ - ey, !.noEscrow = @ - en]
  BY Zenon DEF MoneyInv, BookTyped, BookOK, Unrested, CollateralReturned
<1>2. /\ HeldUsdc(book'.levels) = HeldUsdc(L) - eu /\ HeldYes(book'.levels) = HeldYes(L) - ey
      /\ HeldNo(book'.levels) = HeldNo(L) - en
  BY <1>1, HeldRemoved
<1>3. /\ HeldUsdc(L) \in Nat /\ HeldYes(L) \in Nat /\ HeldNo(L) \in Nat
      /\ IsFiniteSet(Resting(L)) /\ Ints(LockedUsdc(L), Resting(L))
      /\ Ints(LockedYes(L), Resting(L)) /\ Ints(LockedNo(L), Resting(L))
  BY <1>1, LockFacts
<1>4. eu \in Int /\ ey \in Int /\ en \in Int
  BY <1>1, <1>3, SumSplit
<1> HIDE DEF eu, ey, en, L
<1>5. /\ pot'.escrow = pot.escrow - eu /\ pot'.yesEscrow = pot.yesEscrow - ey
      /\ pot'.noEscrow = pot.noEscrow - en
      /\ pot.escrow \in Nat /\ pot.yesEscrow \in Nat /\ pot.noEscrow \in Nat
  BY <1>1, PotFields DEF MoneyInv, Ledger, MoneyTypes
<1> QED BY <1>2, <1>3, <1>4, <1>5 DEF Backed, L

(* Every step keeps the escrows backing the book.                          *)
LEMMA NextBacked == MoneyInv /\ Backed /\ [Next]_vars => Backed'
<1> SUFFICES ASSUME MoneyInv, Backed, [Next]_vars PROVE Backed'
  OBVIOUS
<1>1. ASSUME book' = book, pot'.escrow = pot.escrow, pot'.yesEscrow = pot.yesEscrow,
             pot'.noEscrow = pot.noEscrow
      PROVE  Backed'
  BY <1>1 DEF Backed
<1>2. CASE \E u \in Users, side \in Sides, price \in Prices, q \in OrderQtys,
              isLimit \in BOOLEAN, n \in MaxFillsSet :
                PlaceOrder(u, side, price, q, isLimit, n)
  <2>1. PICK u \in Users, side \in Sides, price \in Prices, q \in OrderQtys,
             isLimit \in BOOLEAN, n \in MaxFillsSet :
               PlaceOrder(u, side, price, q, isLimit, n)
    BY <1>2, Zenon
  <2>2. q \in Nat
    BY MarketAssumption
  <2>3. PICK m, rested, mid : Placed(u, side, price, q, m, rested, mid)
    BY <2>1, PlaceOrderFacts DEF MoneyInv
  <2> QED BY <2>2, <2>3, PlaceBacked DEF Placed
<1>3. CASE \/ \E u \in Users, at \in Resting(book.levels) : CancelOrder(u, at)
           \/ \E n \in CrankBatches : CrankCancel(n)
  <2>1. PICK places : Unrested(places)
    BY <1>3, CancelFacts DEF MoneyInv
  <2> QED BY <2>1, ReturnBacked
<1>4. CASE \E u \in Users, q \in OrderQtys : MintPair(u, q) \/ RedeemPair(u, q)
  <2>1. CASE \E u \in Users, q \in OrderQtys : MintPair(u, q)
    BY <1>1, <2>1 DEF MintPair, MoneyInv, Ledger, MoneyTypes
  <2>2. CASE \E u \in Users, q \in OrderQtys : RedeemPair(u, q)
    BY <1>1, <2>2 DEF RedeemPair, MoneyInv, Ledger, MoneyTypes
  <2> QED BY <1>4, <2>1, <2>2
<1>5. CASE \/ \E u \in Users, q \in OrderQtys : RedeemWinner(u, q)
           \/ \E passed \in SUBSET Users : CrankRedeem(passed)
  <2>1. \E g : PayWinners(g)
    BY <1>5, Zenon DEF RedeemWinner, CrankRedeem
  <2>2. PICK g : PayWinners(g)
    BY <2>1
  <2>3. book' = book /\ pot' = [pot EXCEPT !.vault = @ - SumFunction(g)]
    BY <2>2, Zenon DEF PayWinners
  <2> QED BY <1>1, <2>3 DEF MoneyInv, Ledger, MoneyTypes
<1>6. CASE \/ SettleMarket \/ \E price \in FeedPrices : AdminSettle(price)
           \/ \E price \in FeedPrices : OverrideSettlement(price)
  <2>1. UNCHANGED <<book, pot>>
    BY <1>6, Zenon DEF SettleMarket, AdminSettle, OverrideSettlement, SettleAt
  <2> QED BY <1>1, <2>1
<1>7. CASE \/ \E u \in Users : BurnWorthless(u)
           \/ Pause \/ Unpause \/ Tick \/ UNCHANGED vars
           \/ \E price \in FeedPrices, age \in FeedAges, confident \in BOOLEAN :
                UpdatePrice(price, age, confident)
  <2>1. UNCHANGED <<book, pot>>
    BY <1>7 DEF BurnWorthless, Pause, Unpause, Tick, UpdatePrice, vars
  <2> QED BY <1>1, <2>1
<1>8. CASE CloseMarket
  <2>1. /\ book' = book /\ Resting(book.levels) = {}
        /\ pot' = [pot EXCEPT !.escrow = 0, !.treasury = @ + EscrowDust]
    BY <1>8 DEF CloseMarket, HasActiveOrders
  <2>2. pot'.escrow = 0 /\ pot'.yesEscrow = pot.yesEscrow /\ pot'.noEscrow = pot.noEscrow
    BY <2>1 DEF MoneyInv, Ledger, MoneyTypes
  <2>3. HeldUsdc(book.levels) = 0
    BY <2>1, SumEmpty DEF HeldUsdc
  <2> QED BY <2>1, <2>2, <2>3 DEF Backed
<1> QED BY <1>2, <1>3, <1>4, <1>5, <1>6, <1>7, <1>8, Zenon DEF Next

(* A new market holds nothing for anybody.                                 *)
LEMMA InitBacked == Init => Backed
<1> SUFFICES ASSUME Init PROVE Backed
  OBVIOUS
<1>1. Resting(book.levels) = {}
  <2>1. \A p \in Prices : book.levels[p] = <<>>
    BY DEF Init, EmptyBook
  <2> QED BY <2>1 DEF Resting
<1>2. pot.escrow = 0 /\ pot.yesEscrow = 0 /\ pot.noEscrow = 0
  BY DEF Init
<1>3. HeldUsdc(book.levels) = 0 /\ HeldYes(book.levels) = 0 /\ HeldNo(book.levels) = 0
  BY <1>1, SumEmpty DEF HeldUsdc, HeldYes, HeldNo
<1> QED BY <1>2, <1>3 DEF Backed

(* The escrows back the book in every behaviour.                           *)
LEMMA BackedInductive == Spec => []Backed
BY InitBacked, NextBacked, MoneyInductive, PTL DEF Spec

(* Escrow solvency: however orders are matched, improved, merged, cut into *)
(* fills, rested, refunded, cancelled and cranked, the USDC escrow covers  *)
(* the rounded-up refund of every resting bid, and the token escrows hold  *)
(* exactly what the resting orders locked.                                 *)
THEOREM EscrowAlwaysBacks == Spec => []EscrowBacksBook
<1>1. MoneyInv /\ Backed => EscrowBacksBook
  <2> SUFFICES ASSUME MoneyInv, Backed PROVE EscrowBacksBook
    OBVIOUS
  <2>1. LevelsOK(book.levels, Orders)
    BY DEF MoneyInv, BookTyped, BookOK
  <2>2. /\ SumResting(book.levels, UsdcBid, LAMBDA p, o : EscrowFor(o.qty, p)) = HeldUsdc(book.levels)
        /\ SumResting(book.levels, YesAsk, LAMBDA p, o : o.qty) = HeldYes(book.levels)
        /\ SumResting(book.levels, NoBid, LAMBDA p, o : o.qty) = HeldNo(book.levels)
    BY <2>1, RestingSums, Zenon
  <2> QED BY <2>2, Zenon DEF Backed, EscrowBacksBook
<1> QED BY <1>1, MoneyInductive, BackedInductive, PTL

(* The check that an order overdraws no account never refuses one: the     *)
(* escrows can pay its fills and its refund, and the vault its merges,     *)
(* however many there are.  In the program such an order would fail every  *)
(* time it was sent, in the transfer of the token program.                 *)
THEOREM OrdersNeverOverdraw ==
  ASSUME MoneyInv, Backed, ~ Settled, NEW u \in Users, NEW side \in Sides, NEW price \in Prices,
         NEW q \in Nat, NEW m, NEW rested, NEW mid, CanAfford(u, Collateral(side, q, price)),
         Traded(u, side, price, q, m, rested, mid)
  PROVE  NoOverdraft
<1> DEFINE fs == m.fills
           deposit == Collateral(side, q, price)
           refund == Collateral(side, Refunded(m, rested), price)
           vp == Sum(VaultPays(side, fs))
           bu == Sum(Burns(fs))
           fe == Sum(Fees(fs))
           be == Sum(Betters(side, price, fs))
           ep == Sum(EscrowPays(side, fs))
           e == pot.escrow + deposit.usdc - be - refund.usdc - ep
           y == pot.yesEscrow + deposit.yes - refund.yes - Sum(Qtys(fs))
           n == pot.noEscrow + deposit.no - refund.no - bu
<1>1. /\ FillsOK(side, price, fs) /\ MatchOK(book.levels, Orders, side, price, q, m)
      /\ LevelsOK(book'.levels, Orders) /\ rested \in BOOLEAN
      /\ OrderSettled(u, side, price, deposit, fs, refund)
  BY Zenon DEF Traded, BookOK
<1>2. pot' = [pot EXCEPT !.vault = @ - vp, !.escrow = e, !.yesEscrow = y, !.noEscrow = n,
                         !.feeVault = @ + fe]
  BY <1>1, Zenon DEF OrderSettled
<1>3. vp = bu /\ bu \in Nat /\ fe \in Nat /\ be \in Nat /\ ep \in Nat
  BY <1>1, FillTotals
<1>4. /\ deposit.no \in Nat /\ refund.no \in Nat /\ deposit.no <= no[u]
      /\ deposit.usdc \in Nat /\ refund.usdc \in Nat
  <2>1. m.remaining \in Nat
    BY <1>1 DEF MatchOK, Matches
  <2>2. Refunded(m, rested) \in Nat
    BY <1>1, <2>1 DEF Refunded
  <2>3. deposit \in [usdc : Nat, yes : Nat, no : Nat] /\ refund \in [usdc : Nat, yes : Nat, no : Nat]
    BY <2>2, CollateralNat
  <2>4. deposit.no <= no[u]
    BY DEF CanAfford
  <2> HIDE DEF deposit, refund
  <2> QED BY <2>3, <2>4
<1>5. /\ DOMAIN pot = {"vault", "escrow", "yesEscrow", "noEscrow", "feeVault", "treasury"}
      /\ pot.vault \in Nat /\ pot.escrow \in Nat /\ pot.noEscrow \in Nat /\ pot.feeVault \in Nat /\ pot.treasury \in Nat
  BY PotFields DEF MoneyInv, Ledger
<1> HIDE DEF fs, deposit, refund, vp, fe, be, ep, e, y
<1>6. Backed'
  BY PlaceBacked
<1>7. pot'.escrow >= 0 /\ pot'.yesEscrow >= 0 /\ pot'.noEscrow >= 0
  <2>1. HeldUsdc(book'.levels) \in Nat /\ HeldYes(book'.levels) \in Nat /\ HeldNo(book'.levels) \in Nat
    BY <1>1, LockFacts
  <2>2. /\ pot'.escrow >= HeldUsdc(book'.levels) /\ pot'.yesEscrow = HeldYes(book'.levels)
        /\ pot'.noEscrow = HeldNo(book'.levels)
    BY <1>6 DEF Backed
  <2>3. pot'.escrow \in Int
    <3>1. pot'.escrow = e
      BY <1>2, <1>5
    <3> QED BY <1>3, <1>4, <1>5, <3>1 DEF e
  <2> QED BY <2>1, <2>2, <2>3
<1>8. pot'.noEscrow = n /\ pot'.vault = pot.vault - bu
  BY <1>2, <1>3, <1>5
<1>9. pot.vault >= bu
  <2>1. pot.vault = SumOf(no, Users) + pot.noEscrow
    BY DEF MoneyInv, Ledger, VaultBacksTokens, Conserved
  <2>2. IsFiniteSet(Users) /\ Nats(no, Users)
    BY MarketAssumption DEF MoneyInv, Ledger, MoneyTypes, Nats
  <2>3. no[u] <= SumOf(no, Users) /\ SumOf(no, Users) \in Nat /\ no[u] \in Nat
    BY <2>2, SumTerm, SumNat DEF Nats
  <2> HIDE DEF bu
  <2>4. pot.noEscrow + deposit.no - refund.no - bu >= 0
    BY <1>7, <1>8
  <2> QED BY <1>3, <1>4, <1>5, <2>1, <2>3, <2>4
<1>10. pot'.feeVault = pot.feeVault + fe /\ pot'.treasury = pot.treasury
  BY <1>2, <1>5
<1> QED BY <1>3, <1>5, <1>7, <1>8, <1>9, <1>10 DEF NoOverdraft

(* What the orders of the places have locked is in the escrows.            *)
RefundCovered(places) ==
  LET locked(at) == Locked(book.levels, at)
  IN  /\ pot.escrow >= SumOver(places, LAMBDA at : locked(at).usdc)
      /\ pot.yesEscrow >= SumOver(places, LAMBDA at : locked(at).yes)
      /\ pot.noEscrow >= SumOver(places, LAMBDA at : locked(at).no)

AllRefundsCovered == \A places \in SUBSET Resting(book.levels) : RefundCovered(places)

(* Any orders of the book can be cancelled or cranked at any time: nobody  *)
(* is refused its collateral because others were refunded before.          *)
THEOREM RefundsNeverOverdraw == Spec => []AllRefundsCovered
<1>1. MoneyInv /\ Backed => AllRefundsCovered
  <2> SUFFICES ASSUME MoneyInv, Backed, NEW places \in SUBSET Resting(book.levels)
               PROVE  RefundCovered(places)
    BY DEF AllRefundsCovered
  <2> DEFINE L == book.levels
             V == Resting(L)
  <2>1. LevelsOK(L, Orders) /\ places \in SUBSET V
    BY DEF MoneyInv, BookTyped, BookOK
  <2>2. /\ [at \in places |-> Locked(L, at).usdc] = [at \in places |-> LockedUsdc(L)[at]]
        /\ [at \in places |-> Locked(L, at).yes] = [at \in places |-> LockedYes(L)[at]]
        /\ [at \in places |-> Locked(L, at).no] = [at \in places |-> LockedNo(L)[at]]
    BY <2>1 DEF LockedUsdc, LockedYes, LockedNo
  <2>3. /\ IsFiniteSet(V) /\ Nats(LockedUsdc(L), V) /\ Nats(LockedYes(L), V) /\ Nats(LockedNo(L), V)
        /\ HeldUsdc(L) \in Nat /\ HeldYes(L) \in Nat /\ HeldNo(L) \in Nat
    BY <2>1, LockFacts
  <2> HIDE DEF V
  <2>4. /\ SumOf(LockedUsdc(L), places) <= SumOf(LockedUsdc(L), V)
        /\ SumOf(LockedYes(L), places) <= SumOf(LockedYes(L), V)
        /\ SumOf(LockedNo(L), places) <= SumOf(LockedNo(L), V)
    BY <2>1, <2>3, SumPart
  <2> DEFINE su == SumOver(places, LAMBDA at : Locked(L, at).usdc)
             sy == SumOver(places, LAMBDA at : Locked(L, at).yes)
             sn == SumOver(places, LAMBDA at : Locked(L, at).no)
  <2>5. ASSUME NEW f, NEW g, \A at \in places : f[at] = g[at], Nats(g, places)
        PROVE  SumFunction([at \in places |-> f[at]]) = SumOf(g, places)
    <3> DEFINE h == [at \in places |-> f[at]]
    <3>1. IsFiniteSet(places) /\ Ints(g, places) /\ \A at \in places : g[at] = h[at]
      BY <2>1, <2>3, <2>5, FS_Subset DEF Nats, Ints
    <3>2. SumFunction(h) = SumOf(h, places)
      <4>1. DOMAIN h = places
        OBVIOUS
      <4> QED BY <4>1, Zenon DEF SumFunction, SumOf
    <3> HIDE DEF h
    <3>3. SumOf(g, places) = SumOf(h, places)
      BY <3>1, SumSame
    <3> QED BY <3>2, <3>3 DEF h
  <2>6. Nats(LockedUsdc(L), places) /\ Nats(LockedYes(L), places) /\ Nats(LockedNo(L), places)
    BY <2>1, <2>3 DEF Nats
  <2>7. /\ su = SumOf(LockedUsdc(L), places) /\ sy = SumOf(LockedYes(L), places)
        /\ sn = SumOf(LockedNo(L), places)
    <3>1. /\ su = SumFunction([at \in places |-> LockedUsdc(L)[at]])
          /\ sy = SumFunction([at \in places |-> LockedYes(L)[at]])
          /\ sn = SumFunction([at \in places |-> LockedNo(L)[at]])
      BY <2>2, Zenon DEF SumOver
    <3> QED BY <2>5, <2>6, <3>1
  <2>8. /\ pot.escrow >= HeldUsdc(L) /\ pot.yesEscrow = HeldYes(L) /\ pot.noEscrow = HeldNo(L)
        /\ pot.escrow \in Nat
        /\ HeldUsdc(L) = SumOf(LockedUsdc(L), V) /\ HeldYes(L) = SumOf(LockedYes(L), V)
        /\ HeldNo(L) = SumOf(LockedNo(L), V)
    BY PotFields DEF Backed, MoneyInv, Ledger, HeldUsdc, HeldYes, HeldNo, V
  <2>9. SumOf(LockedUsdc(L), places) \in Nat
    BY <2>1, <2>3, <2>6, FS_Subset, SumNat
  <2> HIDE DEF su, sy, sn, L
  <2>10. pot.escrow >= su /\ pot.yesEscrow >= sy /\ pot.noEscrow >= sn
    BY <2>3, <2>4, <2>7, <2>8, <2>9, SumInt
  <2> QED BY <2>10 DEF RefundCovered, su, sy, sn, L
<1> QED BY <1>1, MoneyInductive, BackedInductive, PTL

-----------------------------------------------------------------------------
(* Market implements MarketVault.                                          *)

(* All the money there is.                                                 *)
AllFunds == Cardinality(Users) * Funds

(* No more tokens of a kind are out than there are dollars: a losing token *)
(* was worth one once.                                                     *)
SupplyBounded == supply.yes <= AllFunds /\ supply.no <= AllFunds

(* What a step does to the ledger of the vault.                            *)
SameVault ==
  /\ pot'.vault = pot.vault /\ supply'.yes = supply.yes /\ supply'.no = supply.no
  /\ market'.minted = market.minted /\ market'.redeemed = market.redeemed

(* A step of the vault, or none.                                           *)
VaultStep == [Vault!Next]_(Vault!vars)

(* The ledger in numbers.                                                  *)
VaultInNumbers ==
  /\ AllFunds \in Nat /\ pot.vault \in Nat /\ pot.vault <= AllFunds
  /\ supply.yes \in Nat /\ supply.no \in Nat
  /\ market.minted \in Int /\ market.redeemed \in Int
  /\ pot.vault = market.minted - market.redeemed
  /\ ~ Settled => supply.yes = pot.vault /\ supply.no = pot.vault
  /\ Settled => WinningSupply = pot.vault

(* The invariant bounds every one of them.                                 *)
LEMMA VaultNumbers == MoneyInv => VaultInNumbers
<1> SUFFICES ASSUME MoneyInv PROVE VaultInNumbers
  OBVIOUS
<1>1. AllFunds \in Nat
  <2>1. Funds \in Nat /\ Cardinality(Users) \in Nat
    BY MarketAssumption, FS_CardinalityType
  <2> QED BY <2>1, ProductNat DEF AllFunds
<1>2. MoneyTypes /\ VaultBacksTokens /\ Conserved
  BY DEF MoneyInv, Ledger
<1>3. /\ pot.vault \in Nat /\ pot.escrow \in Nat /\ pot.yesEscrow \in Nat
      /\ pot.noEscrow \in Nat /\ pot.feeVault \in Nat /\ pot.treasury \in Nat
  BY <1>2, PotFields
<1>4. SumOf(usdc, Users) \in Nat /\ SumOf(yes, Users) \in Nat /\ SumOf(no, Users) \in Nat
  BY <1>2, WalletSums
<1>5. market.minted \in Int /\ market.redeemed \in Int
  BY <1>2 DEF MoneyTypes
<1>6. /\ pot.vault <= AllFunds /\ supply.yes \in Nat /\ supply.no \in Nat
  BY <1>1, <1>2, <1>3, <1>4 DEF Conserved, AllFunds
<1> QED BY <1>1, <1>2, <1>3, <1>5, <1>6 DEF VaultBacksTokens, Outstanding, VaultInNumbers

(* Also after a step.                                                      *)
LEMMA VaultNumbersNext == MoneyInv' => VaultInNumbers'
BY VaultNumbers, PTL

(* Whatever burns as many Yes as No tokens is a burn of pairs: what it may *)
(* take from the vault is settled by the $1 invariant on either side.      *)
LEMMA PairsBurned ==
  ASSUME MoneyInv, MoneyInv', now' = now, SameSettlement, NEW q \in Nat,
         supply'.yes = supply.yes - q, supply'.no = supply.no - q,
         market'.minted = market.minted, market'.redeemed = market.redeemed + q
  PROVE  VaultStep /\ supply'.yes <= supply.yes /\ supply'.no <= supply.no
<1>1. /\ AllFunds \in Nat /\ pot.vault \in Nat /\ pot.vault <= AllFunds
      /\ supply.yes \in Nat /\ supply.no \in Nat
      /\ market.minted \in Int /\ market.redeemed \in Int
      /\ pot.vault = market.minted - market.redeemed
  BY VaultNumbers DEF VaultInNumbers
<1>2. /\ pot'.vault \in Nat /\ supply'.yes \in Nat /\ supply'.no \in Nat
      /\ pot'.vault = market'.minted - market'.redeemed
  BY VaultNumbersNext DEF VaultInNumbers
<1>3. pot'.vault = pot.vault - q
  BY <1>1, <1>2
<1>4. /\ market'.outcome = market.outcome /\ market'.settledAt = market.settledAt
      /\ market'.deadline = market.deadline /\ market'.overrides = market.overrides
  BY DEF SameSettlement, settlementState
<1>5. CASE q = 0
  <2>1. UNCHANGED Vault!vars
    BY <1>1, <1>3, <1>4, <1>5 DEF Vault!vars, Vault!ledger, Vault!settlement
  <2> QED BY <1>1, <1>5, <2>1 DEF VaultStep
<1>6. CASE q # 0
  <2>1. q \in 1 .. Cardinality(Users) * Funds
    BY <1>1, <1>2, <1>3, <1>6 DEF AllFunds
  <2>2. Vault!BurnPairs(q)
    BY <1>1, <1>2, <1>3, <1>4
       DEF Vault!BurnPairs, Vault!EnoughPairs, Vault!settlement
  <2> QED BY <1>1, <2>1, <2>2 DEF VaultStep, Vault!Next
<1> QED BY <1>5, <1>6

(* The merges of an order burn pairs.                                      *)
LEMMA PlaceVault ==
  ASSUME MoneyInv, MoneyInv', NEW u \in Users, NEW side \in Sides, NEW price \in Prices,
         NEW q \in OrderQtys, NEW isLimit \in BOOLEAN, NEW n \in MaxFillsSet,
         PlaceOrder(u, side, price, q, isLimit, n)
  PROVE  VaultStep /\ supply'.yes <= supply.yes /\ supply'.no <= supply.no
<1>1. PICK m, rested, mid : Placed(u, side, price, q, m, rested, mid)
  BY PlaceOrderFacts DEF MoneyInv
<1> DEFINE fs == m.fills
           bu == Sum(Burns(fs))
<1>2. /\ supply' = [yes |-> supply.yes - bu, no |-> supply.no - bu]
      /\ market' = [market EXCEPT !.redeemed = @ + bu]
  BY <1>1, Zenon DEF Placed, Traded, OrderSettled
<1>3. bu \in Nat
  <2>1. FillsOK(side, price, fs)
    BY <1>1 DEF Placed, Traded
  <2> QED BY <2>1, FillTotals
<1>4. now' = now
  BY DEF PlaceOrder
<1> HIDE DEF bu, fs
<1>5. market = [minted |-> market.minted, redeemed |-> market.redeemed,
                outcome |-> market.outcome, settledAt |-> market.settledAt,
                deadline |-> market.deadline, overrides |-> market.overrides,
                closed |-> market.closed]
  BY DEF MoneyInv, SettlementInv, MarketShape
<1>6. /\ SameSettlement /\ market'.minted = market.minted
      /\ market'.redeemed = market.redeemed + bu
  BY <1>2, <1>5 DEF SameSettlement, settlementState
<1>7. supply'.yes = supply.yes - bu /\ supply'.no = supply.no - bu
  BY <1>2
<1> QED BY <1>3, <1>4, <1>6, <1>7, PairsBurned

(* A mint is a mint, a pair redeemed a pair burned.                        *)
LEMMA PairVault ==
  ASSUME MoneyInv, MoneyInv', NEW u \in Users, NEW q \in OrderQtys,
         MintPair(u, q) \/ RedeemPair(u, q)
  PROVE  VaultStep /\ (Settled => supply'.yes <= supply.yes /\ supply'.no <= supply.no)
<1>1. market = [minted |-> market.minted, redeemed |-> market.redeemed,
                outcome |-> market.outcome, settledAt |-> market.settledAt,
                deadline |-> market.deadline, overrides |-> market.overrides,
                closed |-> market.closed]
  BY DEF MoneyInv, SettlementInv, MarketShape
<1>2. q \in Nat /\ q >= MinOrder /\ MinOrder \in Nat \ {0} /\ now' = now
  BY MarketAssumption, BookAssumption DEF MintPair, RedeemPair
<1>3. /\ AllFunds \in Nat /\ pot.vault \in Nat /\ supply.yes \in Nat /\ supply.no \in Nat
      /\ market.minted \in Int /\ market.redeemed \in Int
      /\ pot.vault = market.minted - market.redeemed
  BY VaultNumbers DEF VaultInNumbers
<1>4. pot'.vault \in Nat /\ pot'.vault <= AllFunds /\ pot'.vault = market'.minted - market'.redeemed
  BY VaultNumbersNext DEF VaultInNumbers
<1>5. CASE MintPair(u, q)
  <2>1. /\ ~ Settled /\ market.minted + q <= MaxMinted
        /\ supply' = [yes |-> supply.yes + q, no |-> supply.no + q]
        /\ market' = [market EXCEPT !.minted = @ + q]
    BY <1>5 DEF MintPair
  <2>2. /\ market'.minted = market.minted + q /\ market'.redeemed = market.redeemed
        /\ market'.outcome = market.outcome /\ market'.settledAt = market.settledAt
        /\ market'.deadline = market.deadline /\ market'.overrides = market.overrides
        /\ supply'.yes = supply.yes + q /\ supply'.no = supply.no + q
    BY <1>1, <2>1
  <2>3. pot'.vault = pot.vault + q
    BY <1>2, <1>3, <1>4, <2>2
  <2>4. q \in 1 .. Cardinality(Users) * Funds
    BY <1>2, <1>3, <1>4, <2>3 DEF AllFunds
  <2>5. Vault!Mint(q)
    BY <1>2, <2>1, <2>2, <2>3 DEF Vault!Mint, Vault!Settled, Vault!settlement, Settled, Unsettled
  <2> QED BY <2>1, <2>4, <2>5 DEF VaultStep, Vault!Next
<1>6. CASE RedeemPair(u, q)
  <2>1. /\ supply' = [yes |-> supply.yes - q, no |-> supply.no - q]
        /\ market' = [market EXCEPT !.redeemed = @ + q]
    BY <1>6 DEF RedeemPair
  <2>2. /\ SameSettlement /\ market'.minted = market.minted
        /\ market'.redeemed = market.redeemed + q
        /\ supply'.yes = supply.yes - q /\ supply'.no = supply.no - q
    BY <1>1, <2>1 DEF SameSettlement, settlementState
  <2> QED BY <1>2, <2>2, PairsBurned
<1> QED BY <1>5, <1>6

(* Winners are paid once the outcome is final, each a dollar a token.      *)
LEMMA PayVault ==
  ASSUME MoneyInv, MoneyInv', Settled, OverrideOver, NEW g, Payable(g), PayWinners(g)
  PROVE  VaultStep /\ supply'.yes <= supply.yes /\ supply'.no <= supply.no
<1> DEFINE total == SumOf(g, DOMAIN g)
           won == market.outcome = YesWins
<1>1. /\ supply' = IF won THEN [supply EXCEPT !.yes = @ - total]
                          ELSE [supply EXCEPT !.no = @ - total]
      /\ pot.vault >= total /\ market' = [market EXCEPT !.redeemed = @ + total] /\ now' = now
      /\ market.outcome \in {YesWins, NoWins}
  <2>1. market.outcome \in {YesWins, NoWins}
    BY DEF MoneyInv, Ledger, MoneyTypes, Settled, YesWins, NoWins, Unsettled
  <2>2. market.outcome = NoWins <=> ~ won
    BY <2>1 DEF YesWins, NoWins
  <2>3. SumFunction(g) = total
    BY Zenon DEF SumFunction, SumOf
  <2> QED BY <2>1, <2>2, <2>3, Zenon DEF PayWinners
<1>2. total \in Nat
  <2>1. DOMAIN g \in SUBSET Users /\ Nats(g, DOMAIN g)
    BY DEF Payable, Nats
  <2>2. IsFiniteSet(DOMAIN g)
    BY <2>1, FS_Subset, MarketAssumption
  <2> QED BY <2>1, <2>2, SumNat
<1>3. /\ AllFunds \in Nat /\ pot.vault \in Nat /\ pot.vault <= AllFunds
      /\ supply.yes \in Nat /\ supply.no \in Nat
      /\ market.minted \in Int /\ market.redeemed \in Int
      /\ pot.vault = market.minted - market.redeemed /\ WinningSupply = pot.vault
  BY VaultNumbers DEF VaultInNumbers
<1>4. pot'.vault = market'.minted - market'.redeemed
  BY VaultNumbersNext DEF VaultInNumbers
<1>5. /\ market = [minted |-> market.minted, redeemed |-> market.redeemed,
                   outcome |-> market.outcome, settledAt |-> market.settledAt,
                   deadline |-> market.deadline, overrides |-> market.overrides,
                   closed |-> market.closed]
      /\ supply = [yes |-> supply.yes, no |-> supply.no]
  BY DEF MoneyInv, SettlementInv, MarketShape, Ledger, MoneyTypes
<1> HIDE DEF total, won
<1>6. /\ market'.minted = market.minted /\ market'.redeemed = market.redeemed + total
      /\ market'.outcome = market.outcome /\ market'.settledAt = market.settledAt
      /\ market'.deadline = market.deadline /\ market'.overrides = market.overrides
  BY <1>1, <1>5
<1>7. pot'.vault = pot.vault - total
  BY <1>2, <1>3, <1>4, <1>6
<1>8. /\ supply'.yes = IF won THEN supply.yes - total ELSE supply.yes
      /\ supply'.no = IF won THEN supply.no ELSE supply.no - total
  BY <1>1, <1>5
<1>9. IF won THEN market.outcome = 1 /\ total <= supply.yes
             ELSE market.outcome = 2 /\ total <= supply.no
  BY <1>1, <1>3 DEF WinningSupply, YesWins, NoWins, won
<1>10. supply'.yes <= supply.yes /\ supply'.no <= supply.no
  BY <1>2, <1>3, <1>8
<1>11. CASE total = 0
  <2>1. UNCHANGED Vault!vars
    BY <1>1, <1>3, <1>6, <1>7, <1>8, <1>11 DEF Vault!vars, Vault!ledger, Vault!settlement
  <2> QED BY <1>10, <2>1 DEF VaultStep
<1>12. CASE total # 0
  <2>1. total \in 1 .. Cardinality(Users) * Funds
    BY <1>1, <1>2, <1>3, <1>12 DEF AllFunds
  <2>2. Vault!Final
    BY DEF Vault!Final, Vault!Settled, OverrideOver, Settled, Unsettled
  <2>3. Vault!BurnWinning(total)
    BY <1>1, <1>6, <1>7, <1>8, <1>9, <2>2 DEF Vault!BurnWinning, Vault!settlement
  <2> QED BY <1>10, <2>1, <2>3 DEF VaultStep, Vault!Next
<1> QED BY <1>11, <1>12

(* What a holder burns for nothing is no more than there ever was money.   *)
LEMMA BurnVault ==
  ASSUME MoneyInv, MoneyInv', SupplyBounded, NEW u \in Users, BurnWorthless(u)
  PROVE  VaultStep /\ supply'.yes <= supply.yes /\ supply'.no <= supply.no
<1> DEFINE won == market.outcome = YesWins
           q == IF won THEN no[u] ELSE yes[u]
<1>1. /\ supply' = (IF won THEN [supply EXCEPT !.no = @ - q] ELSE [supply EXCEPT !.yes = @ - q])
      /\ Settled /\ OverrideOver /\ q > 0
      /\ now' = now /\ market' = market /\ pot' = pot
  BY DEF BurnWorthless
<1>2. q \in Nat /\ (IF won THEN market.outcome = 1 ELSE market.outcome = 2)
  BY <1>1 DEF MoneyInv, Ledger, MoneyTypes, Settled, YesWins, NoWins, Unsettled
<1>3. /\ AllFunds \in Nat /\ supply.yes \in Nat /\ supply.no \in Nat
      /\ supply.yes <= AllFunds /\ supply.no <= AllFunds
  BY VaultNumbers DEF VaultInNumbers, SupplyBounded
<1>4. supply'.yes \in Nat /\ supply'.no \in Nat
  BY VaultNumbersNext DEF VaultInNumbers
<1>5. supply = [yes |-> supply.yes, no |-> supply.no]
  BY DEF MoneyInv, Ledger, MoneyTypes
<1> HIDE DEF q, won
<1>6. /\ supply'.yes = IF won THEN supply.yes ELSE supply.yes - q
      /\ supply'.no = IF won THEN supply.no - q ELSE supply.no
  BY <1>1, <1>5
<1>7. /\ q \in 1 .. Cardinality(Users) * Funds
      /\ IF won THEN q <= supply.no ELSE q <= supply.yes
  BY <1>1, <1>2, <1>3, <1>4, <1>6 DEF AllFunds
<1>8. Vault!Final
  BY <1>1 DEF Vault!Final, Vault!Settled, OverrideOver, Settled, Unsettled
<1>9. Vault!BurnLosing(q)
  BY <1>1, <1>2, <1>6, <1>7, <1>8 DEF Vault!BurnLosing, Vault!settlement
<1> QED BY <1>2, <1>3, <1>6, <1>7, <1>9 DEF VaultStep, Vault!Next

(* Settlement and override leave the ledger alone; by OverrideBounded the  *)
(* deadline an override sets is one window after the one before.           *)
LEMMA OutcomeVault ==
  ASSUME MoneyInv, MoneyInv', NEW price,
         \/ ~ Settled /\ SettleAt(price)
         \/ OverrideSettlement(price)
  PROVE  VaultStep /\ supply' = supply
<1>1. market = [minted |-> market.minted, redeemed |-> market.redeemed,
                outcome |-> market.outcome, settledAt |-> market.settledAt,
                deadline |-> market.deadline, overrides |-> market.overrides,
                closed |-> market.closed]
  BY DEF MoneyInv, SettlementInv, MarketShape
<1>2. supply' = supply /\ pot' = pot /\ now' = now
  BY DEF SettleAt, OverrideSettlement
<1>3. OutcomeAt(price) \in {1, 2}
  BY DEF OutcomeAt, YesWins, NoWins
<1>4. CASE ~ Settled /\ SettleAt(price)
  <2>1. market' = [market EXCEPT !.outcome = OutcomeAt(price), !.settledAt = now,
                                 !.deadline = now + Window]
    BY <1>4 DEF SettleAt
  <2>2. /\ market'.minted = market.minted /\ market'.redeemed = market.redeemed
        /\ market'.outcome = OutcomeAt(price) /\ market'.settledAt = now
        /\ market'.deadline = now + Window /\ market'.overrides = market.overrides
    BY <1>1, <2>1
  <2>3. Vault!Settle(OutcomeAt(price))
    BY <1>2, <1>4, <2>2 DEF Vault!Settle, Vault!Settled, Vault!ledger, Settled, Unsettled
  <2> QED BY <1>2, <1>3, <2>3 DEF VaultStep, Vault!Next
<1>5. CASE OverrideSettlement(price)
  <2>1. /\ market' = [market EXCEPT !.outcome = OutcomeAt(price), !.deadline = NextDeadline,
                                    !.overrides = @ + 1]
        /\ Settled /\ now < market.deadline /\ market.overrides < MaxOverrides
    BY <1>5 DEF OverrideSettlement
  <2>2. /\ market'.minted = market.minted /\ market'.redeemed = market.redeemed
        /\ market'.outcome = OutcomeAt(price) /\ market'.settledAt = market.settledAt
        /\ market'.overrides = market.overrides + 1
    BY <1>1, <2>1
  <2>3. market.deadline = market.settledAt + Window * (market.overrides + 1)
    BY <2>1 DEF MoneyInv, SettlementInv, OverrideBounded
  <2>4. market'.deadline = market'.settledAt + Window * (market'.overrides + 1)
    <3>1. Settled'
      BY <1>3, <2>2 DEF Settled, Unsettled
    <3> QED BY <3>1 DEF MoneyInv, SettlementInv, OverrideBounded
  <2>5. /\ Window \in Nat /\ market.overrides \in Nat /\ market.settledAt \in Nat
    BY MarketAssumption DEF MoneyInv, SettlementInv, ClockTypes
  <2>6. Window * ((market.overrides + 1) + 1) = Window * (market.overrides + 1) + Window
        /\ Window * (market.overrides + 1) \in Nat
    BY <2>5, OneMoreWindow
  <2>7. market'.deadline = market.deadline + Window
    BY <2>2, <2>3, <2>4, <2>5, <2>6
  <2>8. Vault!Override(OutcomeAt(price))
    BY <1>2, <2>1, <2>2, <2>7 DEF Vault!Override, Vault!Settled, Vault!WindowOpen,
       Vault!NextDeadline, Vault!ledger, Settled, Unsettled
  <2> QED BY <1>2, <1>3, <2>8 DEF VaultStep, Vault!Next
<1> QED BY <1>4, <1>5

(* What does not touch the vault does not take part.                       *)
LEMMA BystanderVault ==
  ASSUME now' = now, SameVault, SameSettlement
  PROVE  VaultStep /\ supply'.yes = supply.yes /\ supply'.no = supply.no
BY DEF VaultStep, Vault!vars, Vault!ledger, Vault!settlement, SameVault, SameSettlement,
       settlementState

(* Closing sweeps the escrow, the vault is empty by then.                  *)
LEMMA CloseVault ==
  ASSUME MoneyInv, CloseMarket
  PROVE  VaultStep /\ supply'.yes = supply.yes /\ supply'.no = supply.no
<1>1. /\ pot' = [pot EXCEPT !.escrow = 0, !.treasury = @ + EscrowDust]
      /\ market' = [market EXCEPT !.closed = TRUE] /\ now' = now /\ supply' = supply
  BY DEF CloseMarket
<1>2. market = [minted |-> market.minted, redeemed |-> market.redeemed,
                outcome |-> market.outcome, settledAt |-> market.settledAt,
                deadline |-> market.deadline, overrides |-> market.overrides,
                closed |-> market.closed]
  BY DEF MoneyInv, SettlementInv, MarketShape
<1>3. pot = [vault |-> pot.vault, escrow |-> pot.escrow, yesEscrow |-> pot.yesEscrow,
             noEscrow |-> pot.noEscrow, feeVault |-> pot.feeVault, treasury |-> pot.treasury]
  BY DEF MoneyInv, Ledger, MoneyTypes
<1>4. pot'.vault = pot.vault
  BY <1>1, <1>3
<1>5. SameSettlement /\ market'.minted = market.minted /\ market'.redeemed = market.redeemed
  BY <1>1, <1>2 DEF SameSettlement, settlementState
<1> QED BY <1>1, <1>4, <1>5, BystanderVault DEF SameVault

(* Collateral handed back comes out of the escrows.                        *)
LEMMA ReturnVault ==
  ASSUME MoneyInv,
         \/ \E u \in Users, at \in Resting(book.levels) : CancelOrder(u, at)
         \/ \E n \in CrankBatches : CrankCancel(n)
  PROVE  VaultStep /\ supply'.yes = supply.yes /\ supply'.no = supply.no
<1>1. PICK places : ReturnCollateral(places)
  BY Zenon DEF CancelOrder, CrankCancel
<1>2. /\ now' = now /\ supply' = supply /\ market' = market
      /\ \E e, y, n : pot' = [pot EXCEPT !.escrow = e, !.yesEscrow = y, !.noEscrow = n]
  BY <1>1, Zenon DEF ReturnCollateral
<1>3. pot = [vault |-> pot.vault, escrow |-> pot.escrow, yesEscrow |-> pot.yesEscrow,
             noEscrow |-> pot.noEscrow, feeVault |-> pot.feeVault, treasury |-> pot.treasury]
  BY DEF MoneyInv, Ledger, MoneyTypes
<1>4. pot'.vault = pot.vault
  BY <1>2, <1>3
<1> QED BY <1>2, <1>4, BystanderVault DEF SameVault, SameSettlement, settlementState

(* Every step of the market is one of the vault, or none; and the supplies *)
(* stay bounded, as they shrink from settlement on.                        *)
LEMMA NextVault ==
  MoneyInv /\ SupplyBounded /\ [Next]_vars /\ MoneyInv' => VaultStep /\ SupplyBounded'
<1> SUFFICES ASSUME MoneyInv, SupplyBounded, [Next]_vars, MoneyInv'
             PROVE  VaultStep /\ SupplyBounded'
  OBVIOUS
<1> DEFINE shrinks == supply'.yes <= supply.yes /\ supply'.no <= supply.no
<1>1. VaultStep /\ (Settled' => shrinks)
  <2>1. /\ supply.yes \in Nat /\ supply.no \in Nat
    BY VaultNumbers DEF VaultInNumbers
  <2>2. CASE \E u \in Users, side \in Sides, price \in Prices, q \in OrderQtys,
                isLimit \in BOOLEAN, n \in MaxFillsSet : PlaceOrder(u, side, price, q, isLimit, n)
    BY <2>2, PlaceVault
  <2>3. CASE \E u \in Users, q \in OrderQtys : MintPair(u, q) \/ RedeemPair(u, q)
    <3>1. PICK u \in Users, q \in OrderQtys : MintPair(u, q) \/ RedeemPair(u, q)
      BY <2>3
    <3>2. VaultStep /\ (Settled => shrinks)
      BY <3>1, PairVault
    <3>3. Settled' => Settled
      BY <3>1 DEF MintPair, RedeemPair, Settled, MoneyInv, SettlementInv, MarketShape
    <3> QED BY <3>2, <3>3
  <2>4. CASE \/ \E u \in Users, at \in Resting(book.levels) : CancelOrder(u, at)
             \/ \E n \in CrankBatches : CrankCancel(n)
    BY <2>1, <2>4, ReturnVault
  <2>5. CASE \/ \E u \in Users, q \in OrderQtys : RedeemWinner(u, q)
             \/ \E passed \in SUBSET Users : CrankRedeem(passed)
    <3>1. Settled /\ \E g : Payable(g) /\ PayWinners(g)
      BY <2>5, RedeemLedger, Zenon DEF MoneyInv
    <3>2. OverrideOver
      BY <2>5, Zenon DEF RedeemWinner, CrankRedeem
    <3> QED BY <3>1, <3>2, PayVault
  <2>6. CASE \E u \in Users : BurnWorthless(u)
    BY <2>6, BurnVault
  <2>7. CASE \/ SettleMarket \/ \E price \in FeedPrices : AdminSettle(price)
             \/ \E price \in FeedPrices : OverrideSettlement(price)
    <3>1. \E price : \/ ~ Settled /\ SettleAt(price)
                     \/ OverrideSettlement(price)
      BY <2>7, Zenon DEF SettleMarket, AdminSettle
    <3> QED BY <2>1, <3>1, OutcomeVault
  <2>8. CASE CloseMarket
    BY <2>1, <2>8, CloseVault
  <2>9. CASE \/ Pause \/ Unpause \/ UNCHANGED vars
             \/ \E price \in FeedPrices, age \in FeedAges, confident \in BOOLEAN :
                  UpdatePrice(price, age, confident)
    <3>1. now' = now /\ supply' = supply /\ market' = market /\ pot' = pot
      BY <2>9, Zenon DEF Pause, Unpause, UpdatePrice, vars
    <3> QED BY <2>1, <3>1, BystanderVault DEF SameVault, SameSettlement, settlementState
  <2>10. CASE Tick
    <3>1. /\ now' = now + 1 /\ supply' = supply /\ market' = market /\ pot' = pot
          /\ now < MaxTime \/ (Settled /\ ~ OverrideOver)
      BY <2>10 DEF Tick
    <3>2. Vault!Tick
      BY <3>1 DEF Vault!Tick, Vault!Final, Vault!Settled, Vault!ledger, Vault!settlement, Settled,
         OverrideOver, Unsettled
    <3> QED BY <2>1, <3>1, <3>2 DEF VaultStep, Vault!Next
  <2> QED BY <2>2, <2>3, <2>4, <2>5, <2>6, <2>7, <2>8, <2>9, <2>10, Zenon DEF Next
<1>2. SupplyBounded'
  <2>1. /\ supply.yes \in Nat /\ supply.no \in Nat /\ AllFunds \in Nat
    BY VaultNumbers DEF VaultInNumbers
  <2>2. /\ supply'.yes \in Nat /\ supply'.no \in Nat /\ pot'.vault <= AllFunds
        /\ ~ Settled' => supply'.yes = pot'.vault /\ supply'.no = pot'.vault
    BY VaultNumbersNext DEF VaultInNumbers, AllFunds
  <2>3. CASE Settled'
    BY <1>1, <2>1, <2>2, <2>3 DEF SupplyBounded, AllFunds
  <2>4. CASE ~ Settled'
    BY <2>2, <2>4 DEF SupplyBounded, AllFunds
  <2> QED BY <2>3, <2>4
<1> QED BY <1>1, <1>2

(* The book, the merges, the cranks, the fees and the escrows never show in*)
(* the vault: a market does to it only what MarketVault allows, so that    *)
(* what is proved of MarketVault holds of every market.                    *)
THEOREM MarketImplementsVault == Spec => ImplementsVault
<1>1. Init => Vault!Init /\ SupplyBounded
  <2> SUFFICES ASSUME Init PROVE Vault!Init /\ SupplyBounded
    OBVIOUS
  <2>1. Vault!Init
    BY DEF Init, Vault!Init, Unsettled
  <2>2. MoneyInv
    BY InitSettlement, InitLedger DEF MoneyInv
  <2>3. AllFunds \in Nat
    BY <2>2, VaultNumbers DEF VaultInNumbers
  <2>4. supply.yes = 0 /\ supply.no = 0
    BY DEF Init
  <2> QED BY <2>1, <2>3, <2>4 DEF SupplyBounded
<1>2. SupplyBounded /\ MoneyInv /\ [Next]_vars /\ MoneyInv'
        => [Vault!Next]_(Vault!vars) /\ SupplyBounded'
  BY NextVault DEF VaultStep
<1> QED BY <1>1, <1>2, MoneyInductive, PTL DEF Spec, ImplementsVault, Vault!Spec

-----------------------------------------------------------------------------
(* What makers are paid.                                                   *)

(* The fills of an instruction in which v sold what it had on the book.    *)
SoldBy(v) == {k \in DOMAIN fills' : fills'[k].maker = v /\ fills'[k].taker # v
                                      /\ fills'[k].makerSide # UsdcBid}

(* At least what v asked for them arrives.                                 *)
PaidItsPrice(v) ==
  SoldBy(v) # {} =>
    usdc'[v] - usdc[v] >= SumOver(SoldBy(v), LAMBDA k : DueTo(fills'[k], fills'[k].price))

(* One fill: a swap pays its maker the price less the fee, to the last     *)
(* unit; a merge pays the price of the net amount, and the dust.           *)
LEMMA FillPaysMaker ==
  ASSUME NEW u, NEW side \in Sides, NEW limit \in Prices, NEW f \in Fills(Orders),
         SidesOK(side, limit, f), f.makerSide # UsdcBid
  PROVE  LET due == DueTo(FillEvent(u, side, f), FillEvent(u, side, f).price)
         IN  due \in Int /\ due <= MakerUsdc(side, f) /\ MakerUsdc(side, f) \in Nat
<1> DEFINE e == FillEvent(u, side, f)
           q == f.qty
           p == f.price
<1>1. /\ e.qty = q /\ e.price = p /\ e.isMerge = f.isMerge /\ e.fee = FillFee(f)
      /\ q \in Nat /\ p \in Prices /\ MakerUsdc(side, f) \in Nat
  BY FillMoney DEF FillEvent
<1>2. UsdcBid # YesAsk /\ UsdcBid # NoBid /\ YesAsk # NoBid
  BY DEF UsdcBid, YesAsk, NoBid
<1>3. DueTo(e, e.price) = IF f.isMerge THEN ((q - FillFee(f)) * p) \div Dollar
                                       ELSE (q * p) \div Dollar - FillFee(f)
  BY <1>1 DEF DueTo
<1>4. CASE f.isMerge
  <2>1. FillFee(f) = FeeOn(q) /\ MakerUsdc(side, f) = MergeMaker(q, p)
    BY <1>4 DEF FillFee, MakerUsdc
  <2>2. DueTo(e, e.price) = (MergeNet(q) * p) \div Dollar
    BY <1>3, <1>4, <2>1 DEF MergeNet
  <2>3. (MergeNet(q) * p) \div Dollar <= MergeMaker(q, p) /\ (MergeNet(q) * p) \div Dollar \in Int
    <3>1. Dollar \in Nat \ {0} /\ p \in Nat
      BY <1>1, DollarAssumption DEF Prices
    <3>2. MergeNet(q) \in Nat
      BY <1>1, FeeBounds DEF MergeNet
    <3>3. MergeNet(q) * p \in Nat
      BY <3>1, <3>2, ProductNat
    <3>4. (MergeNet(q) * p) \div Dollar \in Nat
      BY <3>1, <3>3, DivBounds
    <3> QED BY <1>1, <3>4, MergeSplitsExactly
  <2> QED BY <1>1, <2>1, <2>2, <2>3
<1>5. CASE ~ f.isMerge
  <2>1. side = UsdcBid
    BY <1>2, <1>5 DEF SidesOK
  <2>2. FillFee(f) = FeeOn(SwapUsdc(q, p)) /\ MakerUsdc(side, f) = SwapNet(q, p)
    BY <1>5, <2>1 DEF FillFee, MakerUsdc
  <2>3. DueTo(e, e.price) = SwapNet(q, p)
    BY <1>3, <1>5, <2>2 DEF SwapNet, SwapUsdc
  <2>4. SwapNet(q, p) \in Nat
    BY <1>1, SwapSplits
  <2> QED BY <1>1, <2>2, <2>3, <2>4
<1> QED BY <1>4, <1>5

(* All the fills of an order: whoever sold is credited at least the sum.   *)
LEMMA PlacePaysMakers ==
  ASSUME MoneyInv, NEW u \in Users, NEW side \in Sides, NEW price \in Prices,
         NEW q \in OrderQtys, NEW isLimit \in BOOLEAN, NEW n \in MaxFillsSet,
         PlaceOrder(u, side, price, q, isLimit, n), NEW v \in Users
  PROVE  PaidItsPrice(v)
<1> SUFFICES ASSUME SoldBy(v) # {}
             PROVE  usdc'[v] - usdc[v]
                      >= SumOver(SoldBy(v), LAMBDA k : DueTo(fills'[k], fills'[k].price))
  BY DEF PaidItsPrice
<1>1. PICK m, rested, mid : Placed(u, side, price, q, m, rested, mid)
  BY PlaceOrderFacts DEF MoneyInv
<1> DEFINE fs == m.fills
           K == DOMAIN fs
           S == SoldBy(v)
           MU == MakerUsdcs(side, fs)
           own == Owned(MU, K, Makers(fs), v)
           due == [k \in S |-> DueTo(fills'[k], fills'[k].price)]
<1>2. /\ FillsOK(side, price, fs)
      /\ \A k \in K : fs[k] \in Fills(Orders) /\ SidesOK(side, price, fs[k])
      /\ fills' = [k \in K |-> FillEvent(u, side, fs[k])]
  BY <1>1 DEF Placed, Traded, FillsOK
<1>3. \E x : usdc' = [w \in Users |-> usdc[w] + MakerGets(MU, fs, w) + IF w = u THEN x ELSE 0]
  BY <1>1, Zenon DEF Placed, Traded, OrderSettled
<1>4. /\ S \in SUBSET K
      /\ \A k \in S : /\ fills'[k] = FillEvent(u, side, fs[k])
                      /\ fs[k].maker = v /\ fs[k].makerSide # UsdcBid /\ u # v
  BY <1>2 DEF SoldBy, FillEvent
<1>5. usdc'[v] - usdc[v] = SumOf(own, K)
  <2>1. u # v
    BY <1>4
  <2>2. usdc[v] \in Nat
    BY DEF MoneyInv, Ledger, MoneyTypes
  <2>3. MakerGets(MU, fs, v) \in Nat
    BY <1>2, FillTotals
  <2>4. MakerGets(MU, fs, v) = SumOf(own, K)
    BY DEF MakerGets
  <2> HIDE DEF own, K, MU
  <2> QED BY <1>3, <2>1, <2>2, <2>3, <2>4
<1>6. IsFiniteSet(K) /\ Nats(own, K)
  <2>1. \A k \in K : MU[k] \in Nat
    BY <1>2, FillTypes
  <2>2. Nats(own, K)
    BY <2>1 DEF Owned, Nats
  <2> QED BY <1>2, <2>2, FillTotals
<1>7. \A k \in S : due[k] \in Int /\ own[k] \in Int /\ due[k] <= own[k]
  <2> SUFFICES ASSUME NEW k \in S
               PROVE  due[k] \in Int /\ own[k] \in Int /\ due[k] <= own[k]
    OBVIOUS
  <2>1. /\ k \in K /\ fs[k] \in Fills(Orders) /\ SidesOK(side, price, fs[k])
        /\ fs[k].makerSide # UsdcBid /\ fs[k].maker = v
        /\ due[k] = DueTo(FillEvent(u, side, fs[k]), FillEvent(u, side, fs[k]).price)
    BY <1>2, <1>4
  <2>2. own[k] = MakerUsdc(side, fs[k])
    BY <2>1 DEF Owned, MakerUsdcs, Makers
  <2> HIDE DEF due, own, K, fs
  <2> QED BY <2>1, <2>2, FillPaysMaker
<1>8. SumOver(S, LAMBDA k : DueTo(fills'[k], fills'[k].price)) = SumOf(due, S)
  BY Zenon DEF SumOver, SumFunction, SumOf
<1> HIDE DEF K, S, MU, own, due, fs
<1>9. SumOf(own, S) <= SumOf(own, K)
  BY <1>4, <1>6, SumPart
<1>10. IsFiniteSet(S) /\ Ints(due, S) /\ Ints(own, S) /\ \A k \in S : due[k] <= own[k]
  BY <1>4, <1>6, <1>7, FS_Subset DEF Ints
<1>11. SumOf(due, S) <= SumOf(own, S)
  BY <1>10, SumLeq
<1>12. SumOf(due, S) \in Int /\ SumOf(own, S) \in Int /\ SumOf(own, K) \in Int
  BY <1>6, <1>10, SumInt DEF Ints, Nats
<1>13. usdc'[v] - usdc[v] >= SumOf(due, S)
  BY <1>5, <1>9, <1>11, <1>12
<1> QED BY <1>8, <1>13 DEF S

(* Every other instruction reports no fills.                               *)
LEMMA NothingSold ==
  ASSUME fills' = <<>>, NEW v
  PROVE  PaidItsPrice(v)
BY DEF PaidItsPrice, SoldBy

(* Every step pays what was sold.                                          *)
LEMMA NextPaysMakers ==
  MoneyInv /\ [Next]_vars => [\A v \in Users : PaidItsPrice(v)]_vars
<1> SUFFICES ASSUME MoneyInv, Next PROVE \A v \in Users : PaidItsPrice(v)
  OBVIOUS
<1>1. CASE \E u \in Users, side \in Sides, price \in Prices, q \in OrderQtys,
             isLimit \in BOOLEAN, n \in MaxFillsSet : PlaceOrder(u, side, price, q, isLimit, n)
  BY <1>1, PlacePaysMakers
<1>2. CASE fills' = <<>>
  BY <1>2, NothingSold
<1>3. ASSUME NEW price, SettleAt(price) PROVE fills' = <<>>
  BY <1>3 DEF SettleAt
<1>4. ASSUME NEW g, PayWinners(g) PROVE fills' = <<>>
  BY <1>4 DEF PayWinners
<1>5. ASSUME NEW places, ReturnCollateral(places) PROVE fills' = <<>>
  BY <1>5, Zenon DEF ReturnCollateral
<1> QED
  BY <1>1, <1>2, <1>3, <1>4, <1>5, Zenon
     DEF Next, MintPair, CancelOrder, CrankCancel, RedeemPair, RedeemWinner, CrankRedeem,
         BurnWorthless, SettleMarket, AdminSettle, OverrideSettlement, CloseMarket, Pause,
         Unpause, UpdatePrice, Tick

(* No seller on the book is paid less than its price, however the order    *)
(* that takes it is matched, merged or cut into fills, and whatever the    *)
(* roundings: over all fills of an instruction, not only of each.          *)
THEOREM MakersArePaid == Spec => MakersPaidTheirPrice
<1>1. [\A v \in Users : PaidItsPrice(v)]_vars
        => [\A v \in Users :
              LET mine == {k \in DOMAIN fills' : fills'[k].maker = v /\ fills'[k].taker # v
                                                   /\ fills'[k].makerSide # UsdcBid}
              IN  mine # {} => usdc'[v] - usdc[v] >=
                    SumOver(mine, LAMBDA k : DueTo(fills'[k], fills'[k].price))]_vars
  BY Zenon DEF PaidItsPrice, SoldBy
<1> QED BY <1>1, MoneyInductive, NextPaysMakers, PTL DEF Spec, MakersPaidTheirPrice

-----------------------------------------------------------------------------
(* What clients see of a book.                                             *)

(* The orders a client shows are those of its walk.                        *)
LEMMA SeenFacts ==
  ASSUME NEW levels, NEW Os, LevelsOK(levels, Os)
  PROVE  LET orders == Seen(levels)
             walk == CrankOrder(levels)
             R == Resting(levels)
             n == Cardinality(R)
         IN  /\ n \in Nat /\ walk \in [1 .. n -> R] /\ DOMAIN orders = 1 .. n
             /\ \A j, k \in 1 .. n : walk[j] = walk[k] => j = k
             /\ \A a \in R : \E k \in 1 .. n : walk[k] = a
             /\ \A j, k \in 1 .. n : walk[j][1] = walk[k][1] =>
                                       (j < k <=> walk[j][2] < walk[k][2])
             /\ \A i \in 1 .. n : /\ orders[i].owner = OrderAt(levels, walk[i]).owner
                                  /\ orders[i].side = OrderAt(levels, walk[i]).side
                                  /\ orders[i].price = walk[i][1]
<1> DEFINE walk == CrankOrder(levels)
           R == Resting(levels)
           n == Cardinality(R)
<1>1. Lists(walk, R, CrankRelation(R))
  BY CrankLists
<1>2. n \in Nat
  BY RestingFinite, FS_CardinalityType
<1>3. /\ walk \in [1 .. n -> R]
      /\ \A j, k \in 1 .. n : walk[j] = walk[k] => j = k
      /\ \A a \in R : \E k \in 1 .. n : walk[k] = a
      /\ \A j, k \in 1 .. n : j < k => <<walk[j], walk[k]>> \in CrankRelation(R)
  BY <1>1 DEF Lists
<1>4. ASSUME NEW j \in 1 .. n, NEW k \in 1 .. n, walk[j][1] = walk[k][1]
      PROVE  j < k <=> walk[j][2] < walk[k][2]
  <2>1. /\ walk[j][1] \in Int /\ walk[j][2] \in Int
        /\ walk[k][1] \in Int /\ walk[k][2] \in Int
    <3>1. \A at \in R : at[1] \in Int /\ at[2] \in Int
      <4> SUFFICES ASSUME NEW at \in R PROVE at[1] \in Int /\ at[2] \in Int
        OBVIOUS
      <4>1. at[1] \in Prices /\ at[2] \in 1 .. Len(levels[at[1]])
        BY RestingOrders
      <4> QED BY <4>1, DollarAssumption DEF Prices
    <3> HIDE DEF walk, R, n
    <3> QED BY <1>3, <3>1
  <2>2. j < k => walk[j][2] < walk[k][2]
    <3>1. j < k => <<walk[j], walk[k]>> \in CrankRelation(R)
      BY <1>3
    <3> HIDE DEF walk, R, n
    <3> QED BY <1>4, <2>1, <3>1 DEF CrankRelation
  <2>3. k < j => walk[k][2] < walk[j][2]
    <3>1. k < j => <<walk[k], walk[j]>> \in CrankRelation(R)
      BY <1>3
    <3> HIDE DEF walk, R, n
    <3> QED BY <1>4, <2>1, <3>1 DEF CrankRelation
  <2> HIDE DEF walk, R, n
  <2>4. j = k => walk[j][2] = walk[k][2]
    OBVIOUS
  <2>5. j \in Int /\ k \in Int
    OBVIOUS
  <2> DEFINE a == walk[j][2]
             b == walk[k][2]
  <2>6. (j < k => a < b) /\ (k < j => b < a) /\ (j = k => a = b) /\ a \in Int /\ b \in Int
    BY <2>1, <2>2, <2>3, <2>4
  <2> HIDE DEF a, b
  <2>7. j < k <=> a < b
    BY <2>5, <2>6
  <2> QED BY <2>7 DEF a, b
<1>5. /\ DOMAIN Seen(levels) = 1 .. n
      /\ \A i \in 1 .. n : /\ Seen(levels)[i].owner = OrderAt(levels, walk[i]).owner
                           /\ Seen(levels)[i].side = OrderAt(levels, walk[i]).side
                           /\ Seen(levels)[i].price = walk[i][1]
  BY <1>3, Zenon DEF Seen
<1> HIDE DEF walk, R, n
<1> QED BY <1>2, <1>3, <1>4, <1>5 DEF walk, R, n

(* A sum over the orders a client sees is the sum over those of the book.  *)
LEMMA SeenSums ==
  ASSUME NEW levels, NEW Os, LevelsOK(levels, Os)
  PROVE  LET orders == Seen(levels)
             walk == CrankOrder(levels)
             R == Resting(levels)
         IN  /\ Len(orders) = Cardinality(R) /\ Len(orders) \in Nat
             /\ DOMAIN orders = 1 .. Cardinality(R)
             /\ \A i \in DOMAIN orders : walk[i] \in R /\ orders[i].price = walk[i][1]
                  /\ orders[i].side = OrderAt(levels, walk[i]).side
             /\ \A W \in SUBSET DOMAIN orders :
                  SumOver(W, LAMBDA i : orders[i].qty) = SumOf(QtyAt(levels), {walk[i] : i \in W})
<1> DEFINE orders == Seen(levels)
           walk == CrankOrder(levels)
           R == Resting(levels)
           n == Cardinality(R)
           f == QtyAt(levels)
<1>1. /\ walk \in [1 .. n -> R] /\ n \in Nat
      /\ \A j, k \in 1 .. n : walk[j] = walk[k] => j = k
  <2>1. Lists(walk, R, CrankRelation(R))
    BY CrankLists
  <2>2. n \in Nat
    BY RestingFinite, FS_CardinalityType
  <2> QED BY <2>1, <2>2 DEF Lists
<1>2. /\ DOMAIN orders = 1 .. n
      /\ \A i \in 1 .. n : /\ orders[i].qty = OrderAt(levels, walk[i]).qty
                           /\ orders[i].side = OrderAt(levels, walk[i]).side
                           /\ orders[i].price = walk[i][1]
  BY <1>1, Zenon DEF Seen
<1>3. Len(orders) = n
  <2> DEFINE shown(at) == [owner |-> OrderAt(levels, at).owner, id |-> OrderAt(levels, at).id,
                           side |-> OrderAt(levels, at).side, qty |-> OrderAt(levels, at).qty,
                           price |-> at[1]]
             g == [i \in DOMAIN walk |-> shown(walk[i])]
  <2>1. orders = g
    BY Zenon DEF Seen
  <2> HIDE DEF walk, shown
  <2>2. Len(g) = n
    BY <1>1
  <2> HIDE DEF orders, n, g
  <2> QED BY <2>1, <2>2
<1>4. IsFiniteSet(R) /\ Ints(f, R) /\ \A at \in R : f[at] = OrderAt(levels, at).qty
  BY QtyAtFacts DEF QtyAt
<1> HIDE DEF orders, walk, R, n, f
<1>5. ASSUME NEW W \in SUBSET DOMAIN orders
      PROVE  SumOver(W, LAMBDA i : orders[i].qty) = SumOf(f, {walk[i] : i \in W})
  <2> DEFINE g == [i \in W |-> orders[i].qty]
             r == [i \in W |-> walk[i]]
             S == {walk[i] : i \in W}
  <2>1. SumOver(W, LAMBDA i : orders[i].qty) = SumOf(g, W)
    BY Zenon DEF SumOver, SumFunction, SumOf
  <2>2. W \in SUBSET (1 .. n) /\ S \in SUBSET R
    BY <1>1, <1>2
  <2>3. IsFiniteSet(W) /\ IsFiniteSet(S)
    BY <1>1, <1>4, <2>2, SubsetsFinite, FS_Subset
  <2>4. Ints(f, S)
    BY <1>4, <2>2 DEF Ints
  <2>5. r \in [W -> S] /\ \A j, k \in W : r[j] = r[k] => j = k
    BY <1>1, <2>2
  <2>6. \A i \in W : g[i] = f[r[i]]
    BY <1>1, <1>2, <1>4, <2>2
  <2>7. \A x \in S : (\A i \in W : r[i] # x) => f[x] = 0
    BY Zenon
  <2> HIDE DEF g, r, S
  <2>8. SumOf(f, S) = SumOf(g, W)
    BY <2>3, <2>4, <2>5, <2>6, <2>7, SumRenumber
  <2> QED BY <2>1, <2>8 DEF S
<1>6. \A i \in DOMAIN orders : walk[i] \in R
  BY <1>1, <1>2
<1> QED BY <1>1, <1>2, <1>3, <1>5, <1>6 DEF orders, walk, R, n, f

(* The orders of a side, and those between two prices: of Yes and of No.   *)
OnSide(levels, side) == {at \in Resting(levels) : OrderAt(levels, at).side = side}

OfYes(levels, side, from, to) == {at \in OnSide(levels, side) : at[1] \in from .. to}

OfNo(levels, side, from, to) == {at \in OnSide(levels, side) : Dollar - at[1] \in from .. to}

(* The depth at a price is what the orders there have, ...                 *)
LEMMA DepthSum ==
  ASSUME NEW levels, NEW Os, LevelsOK(levels, Os), NEW side, NEW p \in Prices
  PROVE  Depth(Seen(levels), side)[p]
           = SumOf(QtyAt(levels), {at \in OnSide(levels, side) : at[1] = p})
<1> DEFINE orders == Seen(levels)
           walk == CrankOrder(levels)
           R == Resting(levels)
           W == {i \in DOMAIN orders : orders[i].side = side /\ orders[i].price = p}
           S == {at \in OnSide(levels, side) : at[1] = p}
<1>1. Depth(orders, side)[p] = SumOver(W, LAMBDA i : orders[i].qty)
  BY DEF Depth
<1>2. /\ DOMAIN orders = 1 .. Cardinality(R)
      /\ \A i \in DOMAIN orders : walk[i] \in R /\ orders[i].price = walk[i][1]
           /\ orders[i].side = OrderAt(levels, walk[i]).side
      /\ \A X \in SUBSET DOMAIN orders :
           SumOver(X, LAMBDA i : orders[i].qty) = SumOf(QtyAt(levels), {walk[i] : i \in X})
  BY SeenSums
<1>3. \A at \in R : \E i \in 1 .. Cardinality(R) : walk[i] = at
  BY CrankLists DEF Lists
<1> HIDE DEF orders, walk
<1>4. {walk[i] : i \in W} = S
  <2>1. \A i \in W : walk[i] \in S
    BY <1>2 DEF OnSide
  <2>2. ASSUME NEW at \in S PROVE \E i \in W : walk[i] = at
    <3>1. at \in R /\ OrderAt(levels, at).side = side /\ at[1] = p
      BY <2>2 DEF OnSide
    <3>2. PICK i \in DOMAIN orders : walk[i] = at
      BY <1>2, <1>3, <3>1
    <3> QED BY <1>2, <3>1, <3>2
  <2> HIDE DEF W, S
  <2> QED BY <2>1, <2>2
<1>5. W \in SUBSET DOMAIN orders
  OBVIOUS
<1> HIDE DEF W, S
<1>6. SumOver(W, LAMBDA i : orders[i].qty) = SumOf(QtyAt(levels), {walk[i] : i \in W})
  BY <1>2, <1>5
<1> QED BY <1>1, <1>4, <1>6 DEF orders, S

(* ... and so is that between two prices.                                  *)
LEMMA BetweenSum ==
  ASSUME NEW K, IsFiniteSet(K), NEW h, Ints(h, K), NEW key, NEW from \in Int, NEW to \in Int,
         NEW part, NEW W, Keyed(K, key, from .. to, part, W),
         NEW depth, SumsOf(depth, h, from .. to, part)
  PROVE  Between(depth, from, to) = SumOf(h, W)
<1> DEFINE V == from .. to
           d == [v \in V |-> depth[v]]
<1>1. Between(depth, from, to) = SumOf(d, V)
  BY Zenon DEF Between, SumOver, SumFunction, SumOf
<1>2. IsFiniteSet(V) /\ SumsOf(d, h, V, part)
  BY FS_Interval DEF SumsOf
<1>3. Keyed(K, key, V, part, W)
  OBVIOUS
<1> HIDE DEF V, d
<1>4. SumOf(d, V) = SumOf(h, W)
  BY <1>2, <1>3, SumByKey
<1> QED BY <1>1, <1>4

(* A taker that wants all there is gets what the crossing orders have.     *)
LEMMA ExecutableIsCrossing ==
  ASSUME NEW levels, NEW Os, LevelsOK(levels, Os), NEW side, NEW limit
  PROVE  LET everything == Quantity(Seen(levels)) + MinOrder
         IN  everything - MatchAgainstBook(levels, side, limit, everything, Len(Seen(levels))).remaining
               = SumOf(QtyAt(levels), Crossing(levels, side, limit))
<1> DEFINE orders == Seen(levels)
           walk == CrankOrder(levels)
           R == Resting(levels)
           everything == Quantity(orders) + MinOrder
<1>1. /\ Len(orders) = Cardinality(R) /\ Len(orders) \in Nat
      /\ DOMAIN orders = 1 .. Cardinality(R)
      /\ \A W \in SUBSET DOMAIN orders :
           SumOver(W, LAMBDA i : orders[i].qty) = SumOf(QtyAt(levels), {walk[i] : i \in W})
  BY SeenSums
<1>2. R = {walk[i] : i \in 1 .. Cardinality(R)}
  <2>1. /\ \A at \in R : \E i \in 1 .. Cardinality(R) : walk[i] = at
        /\ walk \in [1 .. Cardinality(R) -> R]
    BY CrankLists DEF Lists
  <2> HIDE DEF walk, R
  <2> QED BY <2>1
<1>3. Quantity(orders) = SumOf(QtyAt(levels), R)
  <2>1. Quantity(orders) = SumOver(DOMAIN orders, LAMBDA i : orders[i].qty)
    BY Zenon DEF Quantity
  <2>2. SumOver(DOMAIN orders, LAMBDA i : orders[i].qty)
          = SumOf(QtyAt(levels), {walk[i] : i \in DOMAIN orders})
    <3> HIDE DEF orders, walk, R
    <3> QED BY <1>1
  <2> QED BY <1>1, <1>2, <2>1, <2>2
<1>4. Quantity(orders) \in Nat /\ everything \in Nat
      /\ everything >= SumOf(QtyAt(levels), R) + MinOrder
      /\ Len(orders) >= Cardinality(R)
  <2>1. SumOf(QtyAt(levels), R) \in Nat
    BY QtyAtFacts, SumNat
  <2>2. Cardinality(R) \in Nat
    BY RestingFinite, FS_CardinalityType
  <2> HIDE DEF orders, R
  <2> QED BY <1>1, <1>3, <2>1, <2>2, BookAssumption
<1> HIDE DEF orders, everything
<1>5. everything - MatchAgainstBook(levels, side, limit, everything, Len(orders)).remaining
        = SumOf(QtyAt(levels), Crossing(levels, side, limit))
  BY <1>1, <1>4, MatchServesAll
<1> QED BY <1>5 DEF orders, everything

(* Each side's depth between two prices, in either view, is what its orders*)
(* there have.                                                             *)
LEMMA ViewSums ==
  ASSUME NEW levels, NEW Os, LevelsOK(levels, Os), NEW side,
         NEW from \in Prices, NEW to \in Prices
  PROVE  /\ Between(Depth(Seen(levels), side), from, to)
              = SumOf(QtyAt(levels), OfYes(levels, side, from, to))
         /\ Between(Inverted(Depth(Seen(levels), side)), from, to)
              = SumOf(QtyAt(levels), OfNo(levels, side, from, to))
<1> DEFINE D == Depth(Seen(levels), side)
           f == QtyAt(levels)
           K == OnSide(levels, side)
           price == [at \in K |-> at[1]]
           rest == [at \in K |-> Dollar - at[1]]
<1>1. IsFiniteSet(K) /\ Ints(f, K) /\ K \in SUBSET Resting(levels)
  BY QtyAtFacts DEF OnSide
<1>2. \A p \in Prices : D[p] = SumOf(f, {at \in K : at[1] = p})
  BY DepthSum
<1>3. \A at \in K : at[1] \in Prices /\ at[1] \in Int
  <2>1. \A at \in K : at[1] \in Prices
    BY <1>1, RestingOrders
  <2>2. \A at \in K : at[1] \in Int
    BY <2>1 DEF Prices
  <2> QED BY <2>1, <2>2
<1>4. from \in Int /\ to \in Int /\ from .. to \subseteq Prices
      /\ \A v \in from .. to : Dollar - v \in Prices /\ v \in Int
      /\ \A p \in Prices : p \in Int
  BY DollarAssumption DEF Prices
<1> HIDE DEF D, f, K
<1>5. Between(D, from, to) = SumOf(f, OfYes(levels, side, from, to))
  <2> DEFINE part == [v \in from .. to |-> {at \in K : at[1] = v}]
             W == OfYes(levels, side, from, to)
  <2>1. Keyed(K, price, from .. to, part, W)
    BY DEF Keyed, OfYes, K
  <2>2. SumsOf(D, f, from .. to, part)
    BY <1>2, <1>4 DEF SumsOf
  <2>3. from \in Int /\ to \in Int
    BY <1>4
  <2> HIDE DEF price, part, W
  <2>4. Between(D, from, to) = SumOf(f, W)
    BY <1>1, <2>1, <2>2, <2>3, BetweenSum
  <2> QED BY <2>4 DEF W
<1>6. Between(Inverted(D), from, to) = SumOf(f, OfNo(levels, side, from, to))
  <2> DEFINE part == [v \in from .. to |-> {at \in K : at[1] = Dollar - v}]
             W == OfNo(levels, side, from, to)
  <2>1. Keyed(K, rest, from .. to, part, W)
    <3>2. \A at \in K : rest[at] = Dollar - at[1] /\ at[1] \in Int
      <4>1. \A at \in K : rest[at] = Dollar - at[1]
        OBVIOUS
      <4>2. \A at \in K : at[1] \in Int
        BY <1>3
      <4> QED BY <4>1, <4>2
    <3>1. ASSUME NEW v \in from .. to, NEW at \in K
          PROVE  rest[at] = v <=> at[1] = Dollar - v
      <4>1. v \in Int /\ at[1] \in Int /\ Dollar \in Int /\ rest[at] = Dollar - at[1]
        BY <1>4, <3>2, DollarAssumption
      <4> HIDE DEF rest
      <4> QED BY <4>1
    <3>3. W = {at \in K : Dollar - at[1] \in from .. to}
      BY Zenon DEF OfNo, K
    <3>4. \A v \in from .. to : part[v] = {at \in K : at[1] = Dollar - v}
      OBVIOUS
    <3> HIDE DEF rest, part, W
    <3> QED BY <3>1, <3>2, <3>3, <3>4 DEF Keyed
  <2>2. SumsOf(Inverted(D), f, from .. to, part)
    <3> SUFFICES ASSUME NEW v \in from .. to PROVE Inverted(D)[v] = SumOf(f, part[v])
      BY Zenon DEF SumsOf
    <3>1. Inverted(D)[v] = D[Dollar - v]
      BY <1>4 DEF Inverted
    <3>2. part[v] = {at \in K : at[1] = Dollar - v}
      OBVIOUS
    <3> QED BY <1>2, <1>4, <3>1, <3>2
  <2>3. from \in Int /\ to \in Int
    BY <1>4
  <2> HIDE DEF rest, part, W
  <2>4. Between(Inverted(D), from, to) = SumOf(f, W)
    BY <1>1, <2>1, <2>2, <2>3, BetweenSum
  <2> QED BY <2>4 DEF W
<1> QED BY <1>5, <1>6 DEF D, f

(* So each view shows what an order can trade with.                        *)
LEMMA ViewsExecutable ==
  ASSUME NEW Os, LevelsOK(book.levels, Os)
  PROVE  DepthIsExecutable
<1> DEFINE levels == book.levels
           orders == Seen(levels)
           f == QtyAt(levels)
           everything == Quantity(orders) + MinOrder
           executable(side, limit) ==
             everything - MatchAgainstBook(levels, side, limit, everything, Len(orders)).remaining
           asks == Depth(orders, YesAsk)
           bids == Depth(orders, UsdcBid)
           natives == Depth(orders, NoBid)
           both == [p \in Prices |-> natives[p] + Inverted(bids)[p]]
<1> SUFFICES ASSUME NEW p \in Prices
             PROVE  /\ Between(asks, 1, p) = executable(UsdcBid, p)
                    /\ Between(both, 1, p) = executable(YesAsk, Dollar - p)
                    /\ Between(Inverted(asks), p, Dollar - 1) = executable(NoBid, p)
                    /\ Between(bids, p, Dollar - 1) <= executable(YesAsk, p)
  BY DEF DepthIsExecutable, YesView, NoView
<1>1. \A side, limit : executable(side, limit) = SumOf(f, Crossing(levels, side, limit))
  BY ExecutableIsCrossing
<1>2. \A side : \A from, to \in Prices :
        /\ Between(Depth(orders, side), from, to)
             = SumOf(f, OfYes(levels, side, from, to))
        /\ Between(Inverted(Depth(orders, side)), from, to)
             = SumOf(f, OfNo(levels, side, from, to))
  BY ViewSums
<1>3. 1 \in Prices /\ Dollar - 1 \in Prices /\ Dollar \in Nat /\ p \in Nat
  BY DollarAssumption DEF Prices
<1>4. \A at \in Resting(levels) : at[1] \in 1 .. Dollar - 1
  BY RestingOrders DEF Prices
<1>5. \A S \in SUBSET Resting(levels) : IsFiniteSet(S) /\ Nats(f, S) /\ Ints(f, S)
  BY QtyAtFacts
<1>6. \A side, limit : Crossing(levels, side, limit) \in SUBSET Resting(levels)
  BY DEF Crossing
<1> HIDE DEF executable, orders, f, everything, levels
<1>7. Between(asks, 1, p) = executable(UsdcBid, p)
  <2>1. OfYes(levels, YesAsk, 1, p) = Crossing(levels, UsdcBid, p)
    BY <1>3, <1>4 DEF OnSide, OfYes, OfNo, Crossing, Crosses, UsdcBid, YesAsk, NoBid
  <2>2. executable(UsdcBid, p) = SumOf(f, Crossing(levels, UsdcBid, p))
    BY <1>1
  <2>3. Between(asks, 1, p) = SumOf(f, OfYes(levels, YesAsk, 1, p))
    BY <1>2, <1>3
  <2> QED BY <2>1, <2>2, <2>3
<1>8. Between(Inverted(asks), p, Dollar - 1) = executable(NoBid, p)
  <2>1. OfNo(levels, YesAsk, p, Dollar - 1)
          = Crossing(levels, NoBid, p)
    BY <1>3, <1>4 DEF OnSide, OfYes, OfNo, Crossing, Crosses, UsdcBid, YesAsk, NoBid
  <2>2. executable(NoBid, p) = SumOf(f, Crossing(levels, NoBid, p))
    BY <1>1
  <2>3. Between(Inverted(asks), p, Dollar - 1)
          = SumOf(f, OfNo(levels, YesAsk, p, Dollar - 1))
    BY <1>2, <1>3
  <2> QED BY <2>1, <2>2, <2>3
<1>9. Between(bids, p, Dollar - 1) <= executable(YesAsk, p)
  <2> DEFINE C == Crossing(levels, YesAsk, p)
             W == OfYes(levels, UsdcBid, p, Dollar - 1)
  <2>1. W \in SUBSET C
    BY <1>3, <1>4 DEF OnSide, OfYes, OfNo, Crossing, Crosses, UsdcBid, YesAsk, NoBid
  <2>2. IsFiniteSet(C) /\ Nats(f, C)
    BY <1>5, <1>6
  <2>3. Between(bids, p, Dollar - 1) = SumOf(f, W)
    BY <1>2, <1>3
  <2>4. executable(YesAsk, p) = SumOf(f, C)
    BY <1>1
  <2> HIDE DEF C, W
  <2> QED BY <2>1, <2>2, <2>3, <2>4, SumPart
<1>10. Between(both, 1, p) = executable(YesAsk, Dollar - p)
  <2> DEFINE C == Crossing(levels, YesAsk, Dollar - p)
             W == OfNo(levels, UsdcBid, 1, p)
             U == OfYes(levels, NoBid, 1, p)
             V == 1 .. p
  <2>1. W \in SUBSET C /\ U = C \ W
    BY <1>3, <1>4 DEF OnSide, OfYes, OfNo, Crossing, Crosses, UsdcBid, YesAsk, NoBid
  <2>2. IsFiniteSet(C) /\ Ints(f, C)
    BY <1>5, <1>6
  <2>3. Between(natives, 1, p) = SumOf(f, U) /\ Between(Inverted(bids), 1, p) = SumOf(f, W)
    BY <1>2, <1>3
  <2>7. executable(YesAsk, Dollar - p) = SumOf(f, C)
    BY <1>1
  <2>4. SumOf(f, C) = SumOf(f, U) + SumOf(f, W)
    <3> HIDE DEF C, W, U
    <3> QED BY <2>1, <2>2, SumSplit
  <2>5. Between(both, 1, p) = Between(natives, 1, p) + Between(Inverted(bids), 1, p)
    <3> DEFINE one == [v \in V |-> natives[v]]
               two == [v \in V |-> Inverted(bids)[v]]
               sum == [v \in V |-> both[v]]
    <3>1. /\ Between(natives, 1, p) = SumOf(one, V) /\ Between(Inverted(bids), 1, p) = SumOf(two, V)
          /\ Between(both, 1, p) = SumOf(sum, V)
      BY Zenon DEF Between, SumOver, SumFunction, SumOf
    <3>2. IsFiniteSet(V) /\ V \subseteq Prices
      BY <1>3, FS_Interval DEF Prices
    <3>3. \A v \in V : natives[v] \in Int /\ Inverted(bids)[v] \in Int
      <4> SUFFICES ASSUME NEW v \in V PROVE natives[v] \in Int /\ Inverted(bids)[v] \in Int
        OBVIOUS
      <4>1. v \in Prices /\ Dollar - v \in Prices
        BY <1>3, <3>2 DEF Prices
      <4>2. \A side : \A q \in Prices : Depth(orders, side)[q] \in Int
        <5> TAKE side
        <5> TAKE q \in Prices
        <5> DEFINE S == {at \in OnSide(levels, side) : at[1] = q}
        <5>1. Depth(orders, side)[q] = SumOf(f, S)
          BY DepthSum DEF levels, orders, f
        <5>2. IsFiniteSet(S) /\ Ints(f, S)
          <6>1. S \in SUBSET Resting(levels)
            BY DEF OnSide
          <6> QED BY <1>5, <6>1
        <5> HIDE DEF S
        <5> QED BY <5>1, <5>2, SumInt
      <4> QED BY <4>1, <4>2 DEF Inverted
    <3>4. Ints(one, V) /\ Ints(two, V) /\ \A v \in V : sum[v] = one[v] + two[v]
      <4> HIDE DEF natives, bids, V
      <4> QED BY <3>2, <3>3 DEF Ints
    <3> HIDE DEF one, two, sum, V
    <3>5. SumOf(sum, V) = SumOf(one, V) + SumOf(two, V)
      BY <3>2, <3>4, SumPlus
    <3> QED BY <3>1, <3>5
  <2>6. SumOf(f, U) \in Int /\ SumOf(f, W) \in Int
    <3>1. IsFiniteSet(U) /\ Ints(f, U) /\ IsFiniteSet(W) /\ Ints(f, W)
      BY <1>5, <1>6, <2>1
    <3> HIDE DEF U, W
    <3> QED BY <3>1, SumInt
  <2> HIDE DEF C, W, U, both
  <2> QED BY <2>3, <2>4, <2>5, <2>6, <2>7
<1> QED BY <1>7, <1>8, <1>9, <1>10

(* What the web application shows can be traded: in every behaviour, what  *)
(* the view of Yes and the inverted view of No offer up to a price is what *)
(* an order with that limit is filled for, whatever rests on the book.     *)
THEOREM ViewsAreExecutable == Spec => []DepthIsExecutable
<1>1. MoneyInv => DepthIsExecutable
  <2>1. MoneyInv => LevelsOK(book.levels, Orders)
    BY DEF MoneyInv, BookTyped, BookOK
  <2> QED BY <2>1, ViewsExecutable
<1> QED BY <1>1, MoneyInductive, PTL

(* So the accounts the web application works out are those of the makers,  *)
(* in the order the engine comes to them.                                  *)
LEMMA TicketNamesMakers ==
  ASSUME NEW levels, NEW Os, LevelsOK(levels, Os), NEW side, NEW limit,
         NEW qty \in Nat, NEW maxFills \in Nat, StandByAge(levels, side, limit)
  PROVE  NamedInOrder(MatchAgainstBook(levels, side, limit, qty, maxFills).fills, side,
                      MakerAccounts(Seen(levels), side, limit, maxFills))
<1> DEFINE orders == Seen(levels)
           walk == CrankOrder(levels)
           R == Resting(levels)
           n == Cardinality(R)
           C == Crossing(levels, side, limit)
           N == Cardinality(C)
           scan == ScanOrder(levels, side, limit)
           found == {i \in DOMAIN orders : Matchable(side, limit, orders[i])}
           B(i, j) == BestFirst(side, orders, i, j)
           S(a, b) == ScannedBefore(levels, side, a, b)
           Q == ScanRelation(levels, side, C)
           best == {z \in found \X found : B(z[1], z[2])}
           sorted == InOrder(found, LAMBDA i, j : BestFirst(side, orders, i, j))
           name == [k \in 1 .. N |-> walk[sorted[k]]]
<1>1. /\ n \in Nat /\ walk \in [1 .. n -> R] /\ DOMAIN orders = 1 .. n
      /\ \A j, k \in 1 .. n : walk[j] = walk[k] => j = k
      /\ \A a \in R : \E k \in 1 .. n : walk[k] = a
      /\ \A j, k \in 1 .. n : walk[j][1] = walk[k][1] => (j < k <=> walk[j][2] < walk[k][2])
      /\ \A i \in 1 .. n : /\ orders[i].owner = OrderAt(levels, walk[i]).owner
                           /\ orders[i].side = OrderAt(levels, walk[i]).side
                           /\ orders[i].price = walk[i][1]
  BY SeenFacts
<1>2. C \in SUBSET R /\ IsFiniteSet(C) /\ N \in Nat /\ Lists(scan, C, Q) /\ StrictOrder(C, Q)
  <2>1. C \in SUBSET R /\ IsFiniteSet(C) /\ N \in Nat
    BY CrossingFinite
  <2>2. Lists(scan, C, Q)
    BY ScanLists
  <2>3. StrictOrder(C, Q)
    <3> HIDE DEF C
    <3> QED BY <2>1, ScanIsStrict
  <2> QED BY <2>1, <2>2, <2>3
<1> HIDE DEF orders, walk
<1>3. \A i \in 1 .. n : i \in found <=> walk[i] \in C
  <2> SUFFICES ASSUME NEW i \in 1 .. n PROVE i \in found <=> walk[i] \in C
    OBVIOUS
  <2>1. /\ walk[i] \in R /\ orders[i].side = OrderAt(levels, walk[i]).side
        /\ orders[i].price = walk[i][1] /\ i \in DOMAIN orders
    BY <1>1
  <2>2. Matchable(side, limit, orders[i])
          <=> Crosses(side, limit, walk[i][1], OrderAt(levels, walk[i]))
    BY <2>1, Zenon DEF Matchable, Crosses
  <2> QED BY <2>1, <2>2 DEF Crossing
<1>4. found \in SUBSET (1 .. n)
  BY <1>1
<1> HIDE DEF R, n, C, found
<1>5. /\ {walk[i] : i \in found} = C /\ IsFiniteSet(found) /\ Cardinality(found) = N
      /\ \A i, j \in found : walk[i] = walk[j] => i = j
      /\ \A i \in found : walk[i] \in C
  <2>1. {walk[i] : i \in found} = C
    <3>1. \A i \in found : walk[i] \in C
      BY <1>3, <1>4
    <3>2. \A a \in C : \E i \in found : walk[i] = a
      BY <1>1, <1>2, <1>3
    <3> QED BY <3>1, <3>2
  <2>2. IsFiniteSet(found)
    BY <1>1, <1>4, SubsetsFinite
  <2>3. \A i, j \in found : walk[i] = walk[j] => i = j
    BY <1>1, <1>4
  <2>4. Cardinality({walk[i] : i \in found}) = Cardinality(found)
    BY <2>2, <2>3, CardImage
  <2>5. \A i \in found : walk[i] \in C
    BY <1>3, <1>4
  <2> QED BY <2>1, <2>2, <2>3, <2>4, <2>5
<1>6. \A i, j \in found : B(i, j) <=> S(walk[i], walk[j])
  <2> SUFFICES ASSUME NEW i \in found, NEW j \in found
               PROVE  B(i, j) <=> S(walk[i], walk[j])
    OBVIOUS
  <2> DEFINE a == walk[i]
             b == walk[j]
  <2>1. /\ a \in C /\ b \in C /\ i \in 1 .. n /\ j \in 1 .. n
        /\ orders[i].side = OrderAt(levels, a).side /\ orders[i].price = a[1]
        /\ orders[j].side = OrderAt(levels, b).side /\ orders[j].price = b[1]
        /\ a[1] = b[1] => (i < j <=> a[2] < b[2])
    BY <1>1, <1>4, <1>5
  <2> HIDE DEF a, b
  <2>2. CASE a[1] = b[1]
    <3>1. B(i, j) <=> IF OrderAt(levels, a).side # OrderAt(levels, b).side
                      THEN OrderAt(levels, a).side = UsdcBid ELSE a[2] < b[2]
      BY <2>1, <2>2, Zenon DEF BestFirst
    <3>2. S(a, b) <=> IF OrderAt(levels, a).side # OrderAt(levels, b).side
                      THEN OrderAt(levels, a).side = UsdcBid ELSE a[2] < b[2]
      BY <2>1, <2>2, Zenon DEF StandByAge, C, Crossing
    <3> QED BY <3>1, <3>2 DEF a, b
  <2>3. CASE a[1] # b[1]
    <3>1. B(i, j) <=> IF side = YesAsk THEN a[1] > b[1] ELSE a[1] < b[1]
      BY <2>1, <2>3, Zenon DEF BestFirst
    <3>2. S(a, b) <=> IF side = YesAsk THEN a[1] > b[1] ELSE a[1] < b[1]
      BY <2>3, Zenon DEF ScannedBefore
    <3> QED BY <3>1, <3>2 DEF a, b
  <2> QED BY <2>2, <2>3
<1>7. \A a, b \in C : <<a, b>> \in Q <=> S(a, b)
  BY DEF ScanRelation
<1>8. \A i, j \in found : <<i, j>> \in best <=> B(i, j)
  OBVIOUS
<1>9. Lists(sorted, found, best)
  <2>1. \A i \in found : Before(found, best, i) = {j \in found : B(j, i)}
    BY <1>8 DEF Before
  <2>2. sorted = [k \in 1 .. Cardinality(found) |->
                    CHOOSE i \in found : Cardinality({j \in found : B(j, i)}) = k - 1]
    BY Zenon DEF InOrder
  <2> DEFINE byB(k) == CHOOSE i \in found : Cardinality({j \in found : B(j, i)}) = k - 1
             byBest(k) == CHOOSE i \in found : Cardinality(Before(found, best, i)) = k - 1
  <2> HIDE DEF B, best, sorted
  <2>3. \A k : byB(k) = byBest(k)
    BY <2>1
  <2>4. sorted = [k \in 1 .. Cardinality(found) |->
                    CHOOSE i \in found : Cardinality(Before(found, best, i)) = k - 1]
    <3>1. sorted = [k \in 1 .. Cardinality(found) |-> byB(k)]
      BY <2>2
    <3> HIDE DEF byB, byBest
    <3>2. sorted = [k \in 1 .. Cardinality(found) |-> byBest(k)]
      BY <2>3, <3>1
    <3> QED BY <3>2 DEF byBest
  <2>5. StrictOrder(found, best)
    <3> HIDE DEF S, Q
    <3>1. \A i, j \in found : <<i, j>> \in best <=> <<walk[i], walk[j]>> \in Q
      BY <1>5, <1>6, <1>7, <1>8
    <3>2. \A i \in found : <<i, i>> \notin best
      BY <1>2, <1>5, <3>1, Zenon DEF StrictOrder
    <3>3. \A i, j, k \in found : <<i, j>> \in best /\ <<j, k>> \in best => <<i, k>> \in best
      BY <1>2, <1>5, <3>1, Zenon DEF StrictOrder
    <3>4. \A i, j \in found : i # j => <<i, j>> \in best \/ <<j, i>> \in best
      BY <1>2, <1>5, <3>1, Zenon DEF StrictOrder
    <3> QED BY <3>2, <3>3, <3>4, Zenon DEF StrictOrder
  <2> QED BY <1>5, <2>4, <2>5, Ranking
<1>10. /\ sorted \in [1 .. N -> found]
       /\ \A j, k \in 1 .. N : sorted[j] = sorted[k] => j = k
       /\ \A i \in found : \E k \in 1 .. N : sorted[k] = i
       /\ \A j, k \in 1 .. N : j < k => <<sorted[j], sorted[k]>> \in best
  <2> HIDE DEF sorted, best, N
  <2> QED BY <1>5, <1>9 DEF Lists
<1> HIDE DEF B, S, Q, best, sorted, N
<1>11. Lists(name, C, Q)
  <2>1. \A k \in 1 .. N : name[k] = walk[sorted[k]] /\ sorted[k] \in found /\ name[k] \in C
    BY <1>5, <1>10
  <2>2. name \in [1 .. N -> C]
    BY <2>1
  <2> HIDE DEF name
  <2>3. \A j, k \in 1 .. N : name[j] = name[k] => j = k
    BY <1>5, <1>10, <2>1
  <2>4. \A a \in C : \E k \in 1 .. N : name[k] = a
    <3> SUFFICES ASSUME NEW a \in C PROVE \E k \in 1 .. N : name[k] = a
      OBVIOUS
    <3>1. PICK i \in found : walk[i] = a
      BY <1>5
    <3>2. PICK k \in 1 .. N : sorted[k] = i
      BY <1>10
    <3> QED BY <2>1, <3>1, <3>2
  <2>5. \A j, k \in 1 .. N : j < k => <<name[j], name[k]>> \in Q
    BY <1>6, <1>7, <1>8, <1>10, <2>1
  <2> QED BY <2>2, <2>3, <2>4, <2>5 DEF Lists, N
<1>12. name = scan
  <2> HIDE DEF name
  <2> QED BY <1>2, <1>11, ListsOnce
<1> DEFINE matching == Matching(orders, side, limit)
           accounts == MakerAccounts(orders, side, limit, maxFills)
           fs == MatchAgainstBook(levels, side, limit, qty, maxFills).fills
<1>13. /\ DOMAIN matching = 1 .. N
       /\ \A k \in 1 .. N : matching[k] = orders[sorted[k]]
  <2>1. matching = [k \in DOMAIN sorted |-> orders[sorted[k]]]
    BY Zenon DEF Matching, sorted, found
  <2> HIDE DEF matching
  <2> QED BY <1>10, <2>1
<1>14. /\ Len(matching) = N
       /\ \A k \in 1 .. N : /\ matching[k].owner = OrderAt(levels, scan[k]).owner
                            /\ matching[k].side = OrderAt(levels, scan[k]).side
  <2>1. matching = [k \in DOMAIN sorted |-> orders[sorted[k]]]
    BY Zenon DEF Matching, sorted, found
  <2>2. Len([k \in 1 .. N |-> orders[sorted[k]]]) = N
    BY <1>2
  <2>3. Len(matching) = N
    BY <1>10, <2>1, <2>2
  <2> HIDE DEF matching
  <2>4. ASSUME NEW k \in 1 .. N
        PROVE  /\ matching[k].owner = OrderAt(levels, scan[k]).owner
               /\ matching[k].side = OrderAt(levels, scan[k]).side
    <3>1. scan[k] = walk[sorted[k]]
      BY <1>12
    <3>2. sorted[k] \in 1 .. n
      BY <1>4, <1>10
    <3> QED BY <1>1, <1>13, <3>1, <3>2
  <2> QED BY <2>3, <2>4
<1> HIDE DEF matching, name
<1> DEFINE most == IF N < maxFills THEN N ELSE maxFills
           makers == AtMost(matching, maxFills)
<1>15. /\ Len(accounts) = most
       /\ \A k \in 1 .. most :
            accounts[k] = <<OrderAt(levels, scan[k]).owner,
                            PaidIn(side, OrderAt(levels, scan[k]).side)>>
  <2>1. most \in 0 .. N
    BY <1>2
  <2>2. makers = [k \in 1 .. most |-> matching[k]]
    <3>1. makers = SubSeq(matching, 1, most)
      BY <1>14, Zenon DEF AtMost
    <3>2. SubSeq(matching, 1, most) = [k \in 1 .. most |-> matching[k]]
      <4> HIDE DEF most
      <4> QED BY <2>1, <1>2
    <3> QED BY <3>1, <3>2
  <2>3. accounts = [k \in DOMAIN makers |-> <<makers[k].owner, PaidIn(side, makers[k].side)>>]
    BY Zenon DEF MakerAccounts, matching
  <2> HIDE DEF makers, most, accounts
  <2>4. accounts = [k \in 1 .. most |-> <<makers[k].owner, PaidIn(side, makers[k].side)>>]
    BY <2>2, <2>3
  <2>5. Len(accounts) = most
    BY <1>2, <2>1, <2>4
  <2>6. ASSUME NEW k \in 1 .. most
        PROVE  accounts[k] = <<OrderAt(levels, scan[k]).owner,
                               PaidIn(side, OrderAt(levels, scan[k]).side)>>
    <3>1. k \in 1 .. N
      BY <1>2, <2>1
    <3> QED BY <1>14, <2>2, <2>4, <3>1
  <2> QED BY <2>5, <2>6
<1>16. /\ Len(fs) \in 0 .. most /\ DOMAIN fs = 1 .. Len(fs)
       /\ \A k \in DOMAIN fs : /\ fs[k].maker = OrderAt(levels, scan[k]).owner
                               /\ fs[k].makerSide = OrderAt(levels, scan[k]).side
  <2>1. Len(fs) <= maxFills
    BY MatchCapped
  <2>2. Len(fs) \in 0 .. N /\ \A k \in DOMAIN fs : fs[k].at = scan[k]
    BY MatchInScanOrder DEF InScanOrder, N, C
  <2>3. fs \in Seq(Fills(Os)) /\ \A k \in DOMAIN fs : FillOK(levels, side, limit, fs[k])
    BY MatchFacts DEF MatchOK, Matches
  <2>4. \A k \in DOMAIN fs : /\ fs[k].maker = OrderAt(levels, fs[k].at).owner
                             /\ fs[k].makerSide = OrderAt(levels, fs[k].at).side
    BY <2>3, Zenon DEF FillOK
  <2> HIDE DEF fs
  <2>5. DOMAIN fs = 1 .. Len(fs)
    BY <2>3
  <2> QED BY <1>2, <2>1, <2>2, <2>4, <2>5
<1> HIDE DEF accounts, fs, scan
<1>17. \A k \in DOMAIN fs : /\ k <= Len(accounts)
                            /\ accounts[k] = <<fs[k].maker, PaidIn(side, fs[k].makerSide)>>
  <2> SUFFICES ASSUME NEW k \in DOMAIN fs
               PROVE  /\ k <= Len(accounts)
                      /\ accounts[k] = <<fs[k].maker, PaidIn(side, fs[k].makerSide)>>
    OBVIOUS
  <2>1. most \in Nat
    BY <1>2
  <2> HIDE DEF most
  <2>2. k \in 1 .. most
    BY <1>16, <2>1
  <2> QED BY <1>15, <1>16, <2>1, <2>2
<1> QED BY <1>17, Zenon DEF NamedInOrder, accounts, fs, orders

(* Nothing else than age is hidden from the list: on a level of its own    *)
(* every order stands by its age.                                          *)
LEMMA OneStandsByAge ==
  ASSUME NEW levels, NEW Os, LevelsOK(levels, Os), NEW side, NEW limit,
         \A a, b \in Resting(levels) : a[1] = b[1] => a = b
  PROVE  StandByAge(levels, side, limit)
<1> DEFINE C == {at \in Resting(levels) : Crosses(side, limit, at[1], OrderAt(levels, at))}
<1> SUFFICES ASSUME NEW a \in C, NEW b \in C, a[1] = b[1]
             PROVE  ScannedBefore(levels, side, a, b) <=>
                      IF OrderAt(levels, a).side # OrderAt(levels, b).side
                      THEN OrderAt(levels, a).side = UsdcBid
                      ELSE a[2] < b[2]
  BY Zenon DEF StandByAge
<1>1. a = b /\ a \in Resting(levels)
  OBVIOUS
<1>2. OrderAt(levels, a).ts \in Int /\ a[2] \in Int
  BY <1>1, RestingOrders
<1> HIDE DEF C
<1> QED BY <1>1, <1>2 DEF ScannedBefore

(* Whatever the limit and the quantity of an order and however many fills  *)
(* the transaction has room for, the web application names the makers the  *)
(* engine comes to, where the orders of a level stand by age.              *)
TicketsNameMakers ==
  \A side \in Sides : \A limit \in Prices : \A qty, maxFills \in Nat :
    StandByAge(book.levels, side, limit) =>
      NamedInOrder(MatchAgainstBook(book.levels, side, limit, qty, maxFills).fills, side,
                   MakerAccounts(Seen(book.levels), side, limit, maxFills))

(* So it does in every behaviour: a transaction with the accounts of an    *)
(* up-to-date book pays every maker into the account it is owed in.        *)
THEOREM TicketsNameTheMakers == Spec => []TicketsNameMakers
<1>1. MoneyInv => TicketsNameMakers
  <2>1. MoneyInv => LevelsOK(book.levels, Orders)
    BY DEF MoneyInv, BookTyped, BookOK
  <2> QED BY <2>1, TicketNamesMakers DEF TicketsNameMakers
<1> QED BY <1>1, MoneyInductive, PTL
=============================================================================
