------------------------------- MODULE Market -------------------------------
(***************************************************************************)
(* One strike market of the meridian program: its StrikeMarket account, its*)
(* order book, the four token accounts it owns, the wallets of its users,  *)
(* and the parts of GlobalConfig its instructions read and write.  Every   *)
(* instruction is one action: a Solana transaction either applies all of   *)
(* an instruction's changes or, where a check fails, none of them.         *)
(***************************************************************************)
EXTENDS OrderBook

CONSTANTS
  Users,            (* the wallets that trade this market                  *)
  Funds,            (* USDC every wallet starts with                       *)
  OrderQtys,        (* quantities asked for: orders, mints and redemptions *)
  MaxFillsSet,      (* values of place_order's max_fills                   *)
  CrankBatches,     (* values of the cranks' batch_size                    *)
  Close,            (* market_close_unix                                   *)
  Blackout,         (* settlement_blackout_minutes, as clock ticks         *)
  Staleness,        (* settlement_staleness                                *)
  AdminDelay,       (* ADMIN_SETTLE_DELAY_SECS                             *)
  Window,           (* override_window                                     *)
  MaxOverrides,     (* MAX_OVERRIDES                                       *)
  Strike,           (* strike_price                                        *)
  FeedPrices,       (* prices the oracle feed or the admin may report      *)
  FeedAges,         (* how old a reported price may be                     *)
  OtherObligations, (* config.obligations owed by other settled markets    *)
  MayPause,         (* whether the admin uses the pause switch at all      *)
  MaxMinted,        (* pairs the model mints over the market's life        *)
  MaxTime           (* the clock of the model stops here, see Tick         *)

ASSUME MarketAssumption ==
  /\ {Funds, Close, Blackout, Staleness, AdminDelay, Window, MaxOverrides,
      Strike, OtherObligations, MaxMinted, MaxTime} \subseteq Nat
  /\ Window > 0
  /\ MayPause \in BOOLEAN
  /\ IsFiniteSet(Users)
  /\ OrderQtys \cup MaxFillsSet \cup CrankBatches \subseteq Nat
  /\ NoOrder \notin [owner : Users, id : Nat, side : Sides, qty : Nat, ts : Nat]
  /\ FeedPrices \subseteq Nat \ {0}

Unsettled == 0
YesWins   == 1
NoWins    == 2

VARIABLES
  now,          (* the cluster clock                                       *)
  paused,       (* config.is_paused                                        *)
  book,         (* the order book account                                  *)
  usdc, yes, no,(* the token accounts of each user                         *)
  delegated,    (* users whose tokens the market PDA may burn              *)
  pot,          (* the market's token accounts, fee vault and treasury     *)
  supply,       (* supply of the Yes and No mints                          *)
  market,       (* the StrikeMarket account                                *)
  obligations,  (* config.obligations                                      *)
  feed,         (* the oracle's PriceFeed account                          *)
  fills         (* FillEvents emitted by the last instruction              *)

wallets == <<usdc, yes, no, delegated>>
vars == <<now, paused, book, wallets, pot, supply, market, obligations, feed, fills>>

Init ==
  /\ now = 1
  /\ paused = FALSE
  /\ book = EmptyBook
  /\ usdc = [u \in Users |-> Funds]
  /\ yes = [u \in Users |-> 0]
  /\ no = [u \in Users |-> 0]
  /\ delegated = {}
  /\ pot = [vault |-> 0, escrow |-> 0, yesEscrow |-> 0, noEscrow |-> 0,
            feeVault |-> 0, treasury |-> 0]
  /\ supply = [yes |-> 0, no |-> 0]
  /\ market = [minted |-> 0, redeemed |-> 0, outcome |-> Unsettled, settledAt |-> 0,
               deadline |-> 0, overrides |-> 0, closed |-> FALSE]
  /\ obligations = OtherObligations
  /\ feed = [price |-> 0, ts |-> 0, confident |-> TRUE]
  /\ fills = <<>>

Settled == market.outcome # Unsettled
Open == ~market.closed

(* Subtraction that stops at zero: u64::saturating_sub.                    *)
SaturatingSub(a, b) == IF a >= b THEN a - b ELSE 0

(* minted and not yet redeemed: what the vault still owes.                 *)
Outstanding == market.minted - market.redeemed

-----------------------------------------------------------------------------
(* Placing an order.                                                       *)

(* What an order of this side locks, and gets back when it goes.           *)
Collateral(side, q, p) ==
  [usdc |-> IF side = UsdcBid THEN EscrowFor(q, p) ELSE 0,
   yes  |-> IF side = YesAsk THEN q ELSE 0,
   no   |-> IF side = NoBid THEN q ELSE 0]

CanAfford(u, c) == usdc[u] >= c.usdc /\ yes[u] >= c.yes /\ no[u] >= c.no

(* A USDC bidder may hold no No tokens, a No seller no Yes tokens.         *)
PositionAllowed(u, side) ==
  /\ side = UsdcBid => no[u] = 0
  /\ side = NoBid => yes[u] = 0

FillSum(fs, amount(_)) == SumOver(DOMAIN fs, LAMBDA k : amount(fs[k]))

FillFee(f) == FeeOn(IF f.isMerge THEN f.qty ELSE SwapUsdc(f.qty, f.price))

(* USDC and Yes tokens a fill pays to the taker and to the maker.          *)
TakerUsdc(side, f) ==
  IF f.isMerge THEN MergeTaker(f.qty, f.price)
  ELSE IF side = YesAsk THEN SwapNet(f.qty, f.price) ELSE 0
MakerUsdc(side, f) ==
  IF f.isMerge THEN MergeMaker(f.qty, f.price)
  ELSE IF side = UsdcBid THEN SwapNet(f.qty, f.price) ELSE 0

(* Slip: a maker whose No-backed bid was merged is given the Yes tokens.   *)
MakerYesOfMerges(side, f) == IF side = YesAsk THEN f.qty ELSE 0

TakerYes(side, f) == IF side = UsdcBid THEN f.qty ELSE 0
MakerYes(side, f) == IF ~f.isMerge /\ side = YesAsk THEN f.qty ELSE 0

(* The escrow a taker gets back because it was filled at a better price.   *)
PriceImprovement(side, limit, f) ==
  IF side = UsdcBid THEN Improvement(f.qty, limit, f.price) ELSE 0

(* Slip: the two refund paths of place_order both run.                     *)
RefundedTwice(m, rested) == m.remaining

(* The quantity of the match handed back: everything that does not rest.   *)
Refunded(m, rested) == IF rested THEN 0 ELSE m.remaining

(* Token flows of a whole place_order: deposit, fills, improvement, refund.*)
(* A merge is paid by the vault, a swap by the USDC escrow, and either     *)
(* takes the Yes tokens of the ask out of the Yes escrow.                  *)
SettleOrder(u, side, limit, deposit, fs, refund) ==
  LET paid(f) == TakerUsdc(side, f) + MakerUsdc(side, f) + FillFee(f)
      better == FillSum(fs, LAMBDA f : PriceImprovement(side, limit, f))
      merged == FillSum(fs, LAMBDA f : IF f.isMerge THEN f.qty ELSE 0)
      taken(amount(_, _)) == FillSum(fs, LAMBDA f : amount(side, f))
      made(v, amount(_, _)) ==
        FillSum(fs, LAMBDA f : IF f.maker = v THEN amount(side, f) ELSE 0)
  IN  /\ usdc' = [v \in Users |-> usdc[v] + made(v, MakerUsdc)
                    + IF v = u THEN taken(TakerUsdc) + better + refund.usdc - deposit.usdc
                               ELSE 0]
      /\ yes' = [v \in Users |-> yes[v] + made(v, MakerYes)
                    + IF v = u THEN taken(TakerYes) + refund.yes - deposit.yes ELSE 0]
      /\ no' = [no EXCEPT ![u] = @ + refund.no - deposit.no]
      /\ pot' = [pot EXCEPT
           !.vault = @ - FillSum(fs, LAMBDA f : IF f.isMerge THEN paid(f) ELSE 0),
           !.escrow = @ + deposit.usdc - better - refund.usdc
                        - FillSum(fs, LAMBDA f : IF f.isMerge THEN 0 ELSE paid(f)),
           !.yesEscrow = @ + deposit.yes - refund.yes - FillSum(fs, LAMBDA f : f.qty),
           !.noEscrow = @ + deposit.no - refund.no - merged,
           !.feeVault = @ + FillSum(fs, FillFee)]
      /\ supply' = [yes |-> supply.yes - merged, no |-> supply.no - merged]
      /\ market' = [market EXCEPT !.redeemed = @ + merged]

(* A transfer out of an account that holds too little fails, and the whole *)
(* transaction with it.                                                    *)
NoOverdraft == \A account \in DOMAIN pot : pot'[account] >= 0

(* The fill as FillEvent reports it.                                       *)
FillEvent(u, side, f) ==
  [maker |-> f.maker, taker |-> u, price |-> f.price, qty |-> f.qty, id |-> f.id,
   makerSide |-> f.makerSide, takerSide |-> side, isMerge |-> f.isMerge, fee |-> FillFee(f)]

(* place_order.  A limit order's remainder rests when it is a whole minimum*)
(* order; a market order that fills nothing is refused.                    *)
PlaceOrder(u, side, price, qty, isLimit, maxFills) ==
  LET m == MatchAgainstBook(book.levels, side, price, qty, maxFills)
      matched == [book EXCEPT !.levels = AfterFills(@, m.fills)]
      wantsRest == isLimit /\ m.remaining >= MinOrder
      rested == wantsRest /\ CanAssignId(matched)
      deposit == Collateral(side, qty, price)
  IN  /\ Open
      /\ ~paused
      /\ ~Settled
      /\ qty >= MinOrder
      /\ now < Close
      /\ PositionAllowed(u, side)
      /\ CanAfford(u, deposit)
      /\ m.fills # <<>> \/ isLimit
      /\ wantsRest => CanAllocate(matched, price)
      /\ book' = IF wantsRest
                 THEN RestOrder(matched, u, side, price, m.remaining, now)
                 ELSE matched
      /\ SettleOrder(u, side, price, deposit, m.fills,
                     Collateral(side, Refunded(m, rested), price))
      /\ NoOverdraft
      /\ fills' = [i \in DOMAIN m.fills |-> FillEvent(u, side, m.fills[i])]
      /\ UNCHANGED <<now, paused, delegated, obligations, feed>>

-----------------------------------------------------------------------------
(* Minting, cancelling, redeeming.                                         *)

(* mint_pair: a dollar per pair; the wallet may hold No but no Yes tokens. *)
MintPair(u, q) ==
  /\ Open
  /\ ~paused
  /\ ~Settled
  /\ q >= MinOrder
  /\ now < Close
  /\ yes[u] = 0
  /\ usdc[u] >= q
  /\ market.minted + q <= MaxMinted
  /\ usdc' = [usdc EXCEPT ![u] = @ - q]
  /\ yes' = [yes EXCEPT ![u] = @ + q]
  /\ no' = [no EXCEPT ![u] = @ + q]
  /\ delegated' = delegated \cup {u}
  /\ pot' = [pot EXCEPT !.vault = @ + q]
  /\ supply' = [yes |-> supply.yes + q, no |-> supply.no + q]
  /\ market' = [market EXCEPT !.minted = @ + q]
  /\ fills' = <<>>
  /\ UNCHANGED <<now, paused, book, obligations, feed>>

(* Collateral of the orders at the given places goes back to their owners. *)
ReturnCollateral(places) ==
  LET back(at) == LET o == OrderAt(book.levels, at) IN Collateral(o.side, o.qty, at[1])
      owner(at) == OrderAt(book.levels, at).owner
      owned(v) == {at \in places : owner(at) = v}
  IN  /\ usdc' = [v \in Users |-> usdc[v] + SumOver(owned(v), LAMBDA at : back(at).usdc)]
      /\ yes' = [v \in Users |-> yes[v] + SumOver(owned(v), LAMBDA at : back(at).yes)]
      /\ no' = [v \in Users |-> no[v] + SumOver(owned(v), LAMBDA at : back(at).no)]
      /\ pot' = [pot EXCEPT
           !.escrow = @ - SumOver(places, LAMBDA at : back(at).usdc),
           !.yesEscrow = @ - SumOver(places, LAMBDA at : back(at).yes),
           !.noEscrow = @ - SumOver(places, LAMBDA at : back(at).no)]
      /\ NoOverdraft
      /\ fills' = <<>>
      /\ UNCHANGED <<now, paused, delegated, supply, market, obligations, feed>>

(* cancel_order: the owner's, before settlement, paused or not.            *)
CancelOrder(u, at) ==
  /\ Open
  /\ ~Settled
  /\ at \in Resting(book.levels)
  /\ OrderAt(book.levels, at).owner = u
  /\ book' = [book EXCEPT !.levels = RemoveOrder(@, at)]
  /\ ReturnCollateral({at})

(* crank_cancel: anyone, after settlement, the next n orders of the walk.  *)
CrankCancel(n) ==
  LET batch == CrankBatch(book.levels, n)
  IN  /\ Open
      /\ Settled
      /\ batch # <<>>
      /\ book' = [book EXCEPT !.levels = AfterCrank(@, batch, n)]
      /\ ReturnCollateral(ToSet(batch))

WinningSupply == IF market.outcome = YesWins THEN supply.yes ELSE supply.no
Winnings(u) == IF market.outcome = YesWins THEN yes[u] ELSE no[u]

(* redeem mode 0: a Yes and a No token for a dollar, at any time.  After   *)
(* settlement the vault must still cover the winning supply that is left.  *)
RedeemPair(u, q) ==
  /\ Open
  /\ ~paused
  /\ q >= MinOrder
  /\ yes[u] >= q /\ no[u] >= q
  /\ pot.vault >= q
  /\ Settled => pot.vault - q >= WinningSupply - q
  /\ usdc' = [usdc EXCEPT ![u] = @ + q]
  /\ yes' = [yes EXCEPT ![u] = @ - q]
  /\ no' = [no EXCEPT ![u] = @ - q]
  /\ pot' = [pot EXCEPT !.vault = @ - q]
  /\ supply' = [yes |-> supply.yes - q, no |-> supply.no - q]
  /\ market' = [market EXCEPT !.redeemed = @ + q]
  /\ obligations' = SaturatingSub(obligations, q)
  /\ fills' = <<>>
  /\ UNCHANGED <<now, paused, book, delegated, feed>>

(* Winning tokens of the users named, burned for a dollar each.            *)
PayWinners(amount) ==
  LET who == DOMAIN amount
      total == SumFunction(amount)
      burn(balance) == [v \in Users |-> IF v \in who THEN balance[v] - amount[v] ELSE balance[v]]
  IN  /\ pot.vault >= total
      /\ usdc' = [v \in Users |-> IF v \in who THEN usdc[v] + amount[v] ELSE usdc[v]]
      /\ yes' = IF market.outcome = YesWins THEN burn(yes) ELSE yes
      /\ no' = IF market.outcome = NoWins THEN burn(no) ELSE no
      /\ supply' = IF market.outcome = YesWins
                   THEN [supply EXCEPT !.yes = @ - total]
                   ELSE [supply EXCEPT !.no = @ - total]
      /\ pot' = [pot EXCEPT !.vault = @ - total]
      /\ market' = [market EXCEPT !.redeemed = @ + total]
      /\ obligations' = SaturatingSub(obligations, total)
      /\ fills' = <<>>
      /\ UNCHANGED <<now, paused, book, delegated, feed>>

(* Slip: redemption opens one window after the settlement, however many    *)
(* overrides there were.                                                   *)
FirstWindowOver == now >= market.settledAt + Window

OverrideOver == now >= market.deadline

(* redeem mode 1: once the override window is over.                        *)
RedeemWinner(u, q) ==
  /\ Open
  /\ ~paused
  /\ Settled
  /\ OverrideOver
  /\ q >= MinOrder
  /\ Winnings(u) >= q
  /\ PayWinners([v \in {u} |-> q])

(* Slip: the crank checks the pause switch, as redeem does.                *)
CrankRedeemUnlessPaused(passed) ==
  LET paid == {v \in passed \cap delegated : Winnings(v) > 0}
  IN  /\ ~paused
      /\ Open
      /\ Settled
      /\ OverrideOver
      /\ paid # {}
      /\ PayWinners([v \in paid |-> Winnings(v)])

(* crank_redeem: anyone, paused or not, whole balances of the passed users *)
(* whose token account has the market as delegate; the others are skipped. *)
CrankRedeem(passed) ==
  LET paid == {v \in passed \cap delegated : Winnings(v) > 0}
  IN  /\ Open
      /\ Settled
      /\ OverrideOver
      /\ paid # {}
      /\ PayWinners([v \in paid |-> Winnings(v)])

(* Not an instruction of the program: a holder burns losing tokens with the*)
(* token program, which is the only way they ever leave the supply.        *)
BurnWorthless(u) ==
  LET worthless == IF market.outcome = YesWins THEN no[u] ELSE yes[u]
  IN  /\ Settled
      /\ OverrideOver
      /\ worthless > 0
      /\ IF market.outcome = YesWins
         THEN /\ no' = [no EXCEPT ![u] = 0]
              /\ supply' = [supply EXCEPT !.no = @ - worthless]
              /\ UNCHANGED yes
         ELSE /\ yes' = [yes EXCEPT ![u] = 0]
              /\ supply' = [supply EXCEPT !.yes = @ - worthless]
              /\ UNCHANGED no
      /\ fills' = <<>>
      /\ UNCHANGED <<now, paused, book, usdc, delegated, pot, market, obligations, feed>>

-----------------------------------------------------------------------------
(* Settlement, override, close.                                            *)

OutcomeAt(price) == IF price >= Strike THEN YesWins ELSE NoWins

(* Slip: pairs burned before the settlement are still counted as owed.     *)
OwedForAllMinted == market.minted

OwedAtSettlement == Outstanding

(* What settle_market and admin_settle write once a price is accepted.     *)
SettleAt(price) ==
  /\ market' = [market EXCEPT !.outcome = OutcomeAt(price), !.settledAt = now,
                              !.deadline = now + Window]
  /\ obligations' = obligations + OwedAtSettlement
  /\ fills' = <<>>
  /\ UNCHANGED <<now, paused, book, wallets, pot, supply, feed>>

(* settle_market: anyone, from a fresh and confident feed.                 *)
SettleMarket ==
  /\ Open
  /\ ~Settled
  /\ now >= Close + Blackout
  /\ feed.price > 0
  /\ feed.ts <= now
  /\ now - feed.ts <= Staleness
  /\ feed.confident
  /\ SettleAt(feed.price)

(* admin_settle: the admin names the price, after a delay.                 *)
AdminSettle(price) ==
  /\ Open
  /\ ~Settled
  /\ now >= Close + AdminDelay
  /\ SettleAt(price)

Later(a, b) == IF a >= b THEN a ELSE b

(* Slip: the window simply starts again.                                   *)
FreshWindow == now + Window

(* The deadline an override sets: a window from now, but never before the  *)
(* (overrides + 2)nd window after settlement.                              *)
NextDeadline == Later(now + Window, market.settledAt + Window * (market.overrides + 2))

(* admin_override_settlement: inside the window, a bounded number of times.*)
OverrideSettlement(price) ==
  /\ Open
  /\ Settled
  /\ now < market.deadline
  /\ market.overrides < MaxOverrides
  /\ market' = [market EXCEPT !.outcome = OutcomeAt(price), !.deadline = NextDeadline,
                              !.overrides = @ + 1]
  /\ fills' = <<>>
  /\ UNCHANGED <<now, paused, book, wallets, pot, supply, obligations, feed>>

(* Slip: the dust is lost with the escrow account.                         *)
NothingSwept == 0

EscrowDust == pot.escrow

(* close_market: the escrow's rounding dust goes to the treasury; the SPL  *)
(* program closes only empty token accounts.                               *)
CloseMarket ==
  /\ Open
  /\ Settled
  /\ OverrideOver
  /\ ~HasActiveOrders(book.levels)
  /\ supply.yes = 0 /\ supply.no = 0
  /\ pot.vault = 0 /\ pot.yesEscrow = 0 /\ pot.noEscrow = 0
  /\ pot' = [pot EXCEPT !.escrow = 0, !.treasury = @ + EscrowDust]
  /\ market' = [market EXCEPT !.closed = TRUE]
  /\ fills' = <<>>
  /\ UNCHANGED <<now, paused, book, wallets, supply, obligations, feed>>

-----------------------------------------------------------------------------
(* The surroundings: pause switch, oracle feed, clock.                     *)

Pause ==
  /\ MayPause
  /\ ~paused
  /\ paused' = TRUE
  /\ fills' = <<>>
  /\ UNCHANGED <<now, book, wallets, pot, supply, market, obligations, feed>>

Unpause ==
  /\ paused
  /\ paused' = FALSE
  /\ fills' = <<>>
  /\ UNCHANGED <<now, book, wallets, pot, supply, market, obligations, feed>>

(* mock-oracle update_price: any timestamp up to now, older ones included. *)
UpdatePrice(price, age, confident) ==
  /\ now - age > 0
  /\ feed' = [price |-> price, ts |-> now - age, confident |-> confident]
  /\ fills' = <<>>
  /\ UNCHANGED <<now, paused, book, wallets, pot, supply, market, obligations>>

(* The clock stops at MaxTime, but never inside an override window.        *)
Tick ==
  /\ now < MaxTime \/ (Settled /\ ~OverrideOver)
  /\ now' = now + 1
  /\ fills' = <<>>
  /\ UNCHANGED <<paused, book, wallets, pot, supply, market, obligations, feed>>

Next ==
  \/ \E u \in Users, side \in Sides, price \in Prices, q \in OrderQtys,
        isLimit \in BOOLEAN, n \in MaxFillsSet : PlaceOrder(u, side, price, q, isLimit, n)
  \/ \E u \in Users, q \in OrderQtys : MintPair(u, q)
  \/ \E u \in Users, at \in Resting(book.levels) : CancelOrder(u, at)
  \/ \E n \in CrankBatches : CrankCancel(n)
  \/ \E u \in Users, q \in OrderQtys : RedeemPair(u, q)
  \/ \E u \in Users, q \in OrderQtys : RedeemWinner(u, q)
  \/ \E passed \in SUBSET Users : CrankRedeem(passed)
  \/ \E u \in Users : BurnWorthless(u)
  \/ SettleMarket
  \/ \E price \in FeedPrices : AdminSettle(price)
  \/ \E price \in FeedPrices : OverrideSettlement(price)
  \/ CloseMarket
  \/ Pause
  \/ Unpause
  \/ \E price \in FeedPrices, age \in FeedAges, confident \in BOOLEAN :
        UpdatePrice(price, age, confident)
  \/ Tick

Spec == Init /\ [][Next]_vars

-----------------------------------------------------------------------------
(* Properties.                                                             *)

Order == [owner : Users, id : Nat, side : Sides, qty : Nat \ {0}, ts : 1 .. now]

(* Every variable keeps its type; no account balance is ever negative.     *)
TypeOK ==
  /\ now \in Nat \ {0}
  /\ paused \in BOOLEAN
  /\ \A p \in Prices : \A i \in DOMAIN book.levels[p] :
        IsOrder(book.levels[p][i]) => book.levels[p][i] \in Order
  /\ book.nextId \in 0 .. MaxOrderId
  /\ book.allocated \in 0 .. MaxLevels
  /\ usdc \in [Users -> Nat] /\ yes \in [Users -> Nat] /\ no \in [Users -> Nat]
  /\ delegated \subseteq Users
  /\ \A account \in DOMAIN pot : pot[account] \in Nat
  /\ supply \in [yes : Nat, no : Nat]
  /\ market.outcome \in {Unsettled, YesWins, NoWins}
  /\ market.overrides \in 0 .. MaxOverrides
  /\ Outstanding \in Nat
  /\ obligations \in Nat

(* Escrow solvency: whatever was filled, improved, reduced or refunded, the*)
(* USDC escrow still covers the rounded-up refund of every resting bid, and*)
(* the token escrows hold exactly what the resting orders locked.  A       *)
(* cancel or a crank of any order can always be paid.                      *)
EscrowBacksBook ==
  /\ pot.escrow >= SumResting(book.levels, UsdcBid, LAMBDA p, o : EscrowFor(o.qty, p))
  /\ pot.yesEscrow = SumResting(book.levels, YesAsk, LAMBDA p, o : o.qty)
  /\ pot.noEscrow = SumResting(book.levels, NoBid, LAMBDA p, o : o.qty)

(* The $1 invariant: the vault holds a dollar for every pair minted and not*)
(* redeemed; before settlement that is either supply, after it the winning *)
(* one, so every winner can be paid in full.                               *)
VaultBacksTokens ==
  /\ pot.vault = Outstanding
  /\ ~Settled => supply.yes = pot.vault /\ supply.no = pot.vault
  /\ Settled => WinningSupply = pot.vault

(* No instruction creates or destroys money: USDC only moves between       *)
(* wallets, vault, escrow, fee vault and treasury, and a mint's supply is  *)
(* what wallets and escrow hold.                                           *)
MoneyConserved ==
  /\ SumFunction(usdc) + pot.vault + pot.escrow + pot.feeVault + pot.treasury
       = Cardinality(Users) * Funds
  /\ supply.yes = SumFunction(yes) + pot.yesEscrow
  /\ supply.no = SumFunction(no) + pot.noEscrow

(* With a single market, config.obligations is what that market owes from  *)
(* settlement on, through every way of redeeming.                          *)
ObligationsTrackMarket == obligations = IF Settled THEN Outstanding ELSE 0

(* Settled markets other than this one are still owed what they were owed. *)
(* withdraw_treasury and redeem.rs count on it: a pair burn on an unsettled*)
(* market is to leave config.obligations alone.                            *)
OtherMarketsStillOwed == obligations >= OtherObligations

(* What a resting seller that asked for `cents` is due for a fill: its     *)
(* price for every token, less the fee, which a merge takes off the top.   *)
DueTo(f, cents) ==
  IF f.isMerge THEN ((f.qty - f.fee) * cents) \div Dollar
               ELSE (f.qty * cents) \div Dollar - f.fee

(* A resting seller is never paid less than its own price, however the     *)
(* order that takes it is matched, merged or cut into fills.               *)
MakersPaidTheirPrice ==
  [][\A v \in Users :
       LET mine == {k \in DOMAIN fills' : fills'[k].maker = v /\ fills'[k].taker # v
                                            /\ fills'[k].makerSide # UsdcBid}
       IN  mine # {} => usdc'[v] - usdc[v] >=
             SumOver(mine, LAMBDA k : DueTo(fills'[k], fills'[k].price))]_vars

(* Trading never gives a user both kinds of token: README.md says position *)
(* constraints keep users from holding both Yes and No from trading.       *)
NoStraddleFromTrading ==
  [][fills' # <<>> =>
       \A u \in Users : yes'[u] > 0 /\ no'[u] > 0 => yes[u] > 0 /\ no[u] > 0]_vars

(* Once a winner has been paid (the supplies differ) the outcome is final: *)
(* no override can turn it, so nobody is paid for both outcomes.           *)
PaidOutcomeFinal ==
  [][supply.yes # supply.no => market'.outcome = market.outcome]_vars

(* The override window cannot be stretched without end: each override moves*)
(* the deadline by exactly one window from the settlement.                 *)
OverrideBounded ==
  IF Settled THEN market.deadline = market.settledAt + Window * (market.overrides + 1)
             ELSE market.overrides = 0

(* Nothing is locked in, and no transfer can fail on the way out.  Where    *)
(* the program is paused, as it may be at any time, an owner can cancel    *)
(* before settlement and anyone can crank a settled book; once the window  *)
(* for overrides is over anyone can have every winner paid that left the   *)
(* market its delegate; and a market is closed only when none of this is   *)
(* left to do.                                                             *)
WayOut ==
  /\ paused /\ Open =>
       /\ ~Settled =>
            \A at \in Resting(book.levels) : ENABLED CancelOrder(OrderAt(book.levels, at).owner, at)
       /\ Settled /\ HasActiveOrders(book.levels) =>
            \A n \in CrankBatches : ENABLED CrankCancel(n)
       /\ Settled /\ OverrideOver =>
            \A u \in delegated : Winnings(u) > 0 => ENABLED CrankRedeem({u})
  /\ market.closed => ~HasActiveOrders(book.levels) /\ \A u \in Users : Winnings(u) = 0
=============================================================================
