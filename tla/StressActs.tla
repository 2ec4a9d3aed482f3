----------------------------- MODULE StressActs -----------------------------
(***************************************************************************)
(* The scripted part of the stress test: act 1 (every instruction once) and*)
(* act 2 (thirteen user flows).  A script is a sequence of parts, one for  *)
(* every try block of the source, and a part a sequence of steps.  A step  *)
(* is made when its turn comes, from the accounts as they are then; one    *)
(* that does not end as expected ends its part and fails the act.          *)
(*                                                                         *)
(* Each market of an act is run on its own, as no test of one market reads *)
(* another.                                                                *)
(***************************************************************************)
EXTENDS StressDay, ConfigDesk

CONSTANTS
  Wallets,         (* the keypairs of the tests, and agents 0 to 6 of act 1*)
  ActQty,          (* DEFAULT_MINT_QUANTITY                                *)
  UsdcPerAgent,    (* USDC_PER_AGENT                                       *)
  ActCancelBatch,  (* CRANK_CANCEL_BATCH_SIZE                              *)
  SweptPrices      (* the prices of test 2's asks, in cents: 51 to 55; it  *)
                   (* sells a sweep of ActQty in as many equal parts       *)

ASSUME ActsAssumption ==
  /\ Len(Wallets) >= 7 /\ IsInjective(Wallets) /\ ToSet(Wallets) \subseteq Users
  /\ ActQty \in Nat /\ UsdcPerAgent \in Nat /\ ActCancelBatch \in Nat \ {0}
  /\ SweptPrices # <<>>

VARIABLE test   (* the script, where it is, what it noted, and its verdict *)

ActInit(script) ==
  test = [script |-> script, part |-> 1, at |-> 1, noted |-> 0, passed |-> TRUE]

-----------------------------------------------------------------------------
(* Steps.                                                                  *)

Level(cents) == Greatest(1, (cents * Dollar) \div 100)

Step(op, who, expect) == [op |-> op, who |-> who, expect |-> expect]
WithQty(s, qty) == [qty |-> qty] @@ s
Note(value) == [op |-> "note", value |-> value]
Check(holds) == [op |-> "check", holds |-> holds]
WaitUntil(time) == [op |-> "wait", until |-> time]

(* Everyone of a script is new: an empty wallet that the faucet fills.     *)
FundWallet(u) == Step("fund", u, "ok")
FreshAgent(i) == FundWallet(Wallets[i])

AtasFor(u) == [usdc |-> <<u, "usdc">>, yes |-> <<u, "yes">>, no |-> <<u, "no">>]

MintPairFor(u, qty) == WithQty(Step("mint", u, "ok"), qty)

PlacesOrder(u, side, cents, qty, maxFills, accounts, expect) ==
  [order |-> Bid(side, Level(cents), qty, maxFills, accounts)] @@ Step("place", u, expect)

(* A limit order that rests whatever is on the book.                       *)
Rests(u, side, cents, qty) == PlacesOrder(u, side, cents, qty, 0, <<>>, "ok")
Takes(u, side, cents, qty, maxFills, accounts) ==
  PlacesOrder(u, side, cents, qty, maxFills, accounts, "ok")
RefusedBid(u, cents, qty) == PlacesOrder(u, UsdcBid, cents, qty, 0, <<>>, "refused")

Cancels(u, side, cents) == [side |-> side, price |-> Level(cents)] @@ Step("cancel", u, "ok")
Admin(op) == Step(op, Operator, "ok")
AtPrice(s, price) == [price |-> price] @@ s

(* A step in a try block of its own: what follows is tried all the same.   *)
Caught(s) == [caught |-> TRUE] @@ s
IsCaught(s) == "caught" \in DOMAIN s

(* Orders of u on the book.                                                *)
OrdersBy(u, side, cents) ==
  SelectSeq(OrdersOf(side), LAMBDA o : o.owner = u /\ o.price = Level(cents))

(* The places an order of the step's may be at.                            *)
Cancellable(s) ==
  {at \in Resting(book.levels) : at[1] = s.price /\ OrderAt(book.levels, at).side = s.side
                                   /\ OrderAt(book.levels, at).owner = s.who}

(* Approving, like the delegation at a mint, lets the market burn.         *)
Approve(who) ==
  /\ delegated' = delegated \cup who
  /\ fills' = <<>>
  /\ UNCHANGED <<now, paused, book, usdc, yes, no, pot, supply, market, obligations, feed>>

Faucet(u) ==
  /\ usdc' = [usdc EXCEPT ![u] = UsdcPerAgent]
  /\ fills' = <<>>
  /\ UNCHANGED <<now, paused, book, yes, no, delegated, pot, supply, market, obligations, feed>>

FirstFive == {Wallets[i] : i \in 1 .. 5}

(* A step that sends a transaction.                                        *)
OnMarket(s) ==
  CASE s.op = "fund"        -> Faucet(s.who)
    [] s.op = "create"      -> now < Close /\ Nothing
    [] s.op = "mint"        -> MintPair(s.who, s.qty)
    [] s.op = "place"       -> PlaceNaming(s.who, s.order)
    [] s.op = "cancel"      -> \E at \in Cancellable(s) : CancelOrder(s.who, at)
    [] s.op = "pause"       -> Pause
    [] s.op = "unpause"     -> Unpause
    [] s.op = "update"      -> UpdatePrice(s.price, 0, TRUE)
    [] s.op = "settle"      -> SettleMarket
    [] s.op = "adminSettle" -> AdminSettle(s.price)
    [] s.op = "override"    -> OverrideSettlement(s.price)
    [] s.op = "crankCancel" -> CrankCancel(s.qty)
    [] s.op = "approve"     -> Approve(s.who)
    [] s.op = "crankRedeem" -> CrankRedeem(s.who)
    [] s.op = "pair"        -> RedeemPair(s.who, s.qty)
    [] s.op = "winner"      -> RedeemWinner(s.who, s.qty)
    [] s.op = "close"       -> CloseMarket
    [] OTHER                -> FALSE

OnDesk(s) ==
  CASE s.op = "transfer"   -> TransferAdmin(s.who, s.to)
    [] s.op = "accept"     -> AcceptAdmin(s.who)
    [] s.op = "fees"       -> WithdrawFees(s.who)
    [] s.op = "treasury"   -> WithdrawTreasury(s.who, s.qty)
    [] s.op = "staleness"  -> UpdateStaleness(s.who, s.qty)
    [] s.op = "feeBps"     -> UpdateFeeBps(s.who, s.qty)
    [] s.op = "strikeFee"  -> UpdateStrikeCreationFee(s.who, s.qty)
    [] s.op = "deactivate" -> DeactivateTicker(s.who, s.ticker)
    [] s.op = "addTicker"  -> AddTicker(s.ticker)
    [] OTHER               -> FALSE

Performs(s) == (OnMarket(s) /\ UNCHANGED desk) \/ OnDesk(s)

-----------------------------------------------------------------------------
(* Act 2.                                                                  *)

CreateAct2Market == Admin("create")

(* T1: buy Yes fills a resting ask.                                        *)
Test1 ==
  LET alice == Wallets[1]
      bob == Wallets[2]
  IN  <<FreshAgent(1), FreshAgent(2), MintPairFor(alice, ActQty), Rests(alice, YesAsk, 55, ActQty),
        Check(OrdersBy(alice, YesAsk, 55) # <<>>),
        Takes(bob, UsdcBid, 55, ActQty, 1, <<AtasFor(alice).usdc>>), Check(yes[bob] > 0)>>

(* T2: a market maker's spread gets swept.                                 *)
Test2 ==
  LET quoter == Wallets[3]
      taker == Wallets[4]
      ladder == [i \in DOMAIN SweptPrices |-> Rests(quoter, YesAsk, SweptPrices[i], ActQty \div Len(SweptPrices))]
      asks == SelectSeq(OrdersOf(YesAsk), LAMBDA o : o.owner = quoter)
  IN  <<FreshAgent(3), FreshAgent(4), MintPairFor(quoter, 4 * ActQty)>>
      \o ladder
      \o <<Takes(taker, UsdcBid, 99, ActQty, Least(Len(asks), AgentMaxFills),
                 [k \in DOMAIN asks |-> AtasFor(quoter).usdc]),
           Check(yes[taker] > 0)>>

(* T3: a pair burn restores the USDC.                                      *)
Test3 ==
  LET agent == Wallets[5]
  IN  <<FreshAgent(5), Note(usdc[agent]), MintPairFor(agent, ActQty \div 5),
        WithQty(Step("pair", agent, "ok"), ActQty \div 5),
        Check(usdc[agent] - test.noted \in -1 .. 1)>>

(* T4: pause blocks orders, unpause resumes.                               *)
Test4 ==
  LET agent == Wallets[5]
  IN  <<FreshAgent(5), Admin("pause"), RefusedBid(agent, 50, ActQty \div 10), Admin("unpause"),
        Rests(agent, UsdcBid, 50, ActQty \div 10), [Cancels(agent, UsdcBid, 50) EXCEPT !.expect = "any"]>>

(* T5: sell Yes fills a resting bid; its maker is paid in Yes tokens.      *)
Test5 ==
  LET buyer == Wallets[6]
      seller == Wallets[7]
  IN  <<FreshAgent(6), FreshAgent(7), Rests(buyer, UsdcBid, 37, ActQty \div 5),
        MintPairFor(seller, ActQty \div 5), Check(OrdersBy(buyer, UsdcBid, 37) # <<>>),
        Takes(seller, YesAsk, 37, ActQty \div 5, 1, <<AtasFor(buyer).yes>>),
        Check(yes[buyer] > 0 /\ usdc[seller] > 0)>>

(* T6: selling No locks the tokens, cancelling returns them.               *)
Test6 ==
  LET agent == Wallets[5]
      qty == ActQty \div 10
  IN  <<FreshAgent(5), MintPairFor(agent, qty), Rests(agent, YesAsk, 99, qty), Check(yes[agent] = 0),
        Note(no[agent]), Rests(agent, NoBid, 40, qty), Check(no[agent] < test.noted),
        Cancels(agent, NoBid, 40), Check(no[agent] >= test.noted)>>

Above == Strike + 1
Below == IF Strike > 1 THEN Strike - 1 ELSE 1

(* T7: a winner redeems after settlement and the override window.          *)
Test7 ==
  LET agent == Wallets[1]
      qty == ActQty \div 10
  IN  <<FreshAgent(1), MintPairFor(agent, qty), WaitUntil(Close), AtPrice(Admin("update"), Above),
        Admin("settle"), WaitUntil(market.deadline), Note(usdc[agent]),
        WithQty(Step("winner", agent, "ok"), qty), Check(usdc[agent] > test.noted)>>

(* T8: an override flips the outcome.  Before and after it the test widens *)
(* the override window of the config, so that the override lands in time;  *)
(* here no time passes between the two.                                    *)
Test8 ==
  LET agent == Wallets[1]
  IN  <<FreshAgent(1), MintPairFor(agent, ActQty \div 10), WaitUntil(Close),
        AtPrice(Admin("update"), Above), Admin("settle"), Note(market.outcome),
        AtPrice(Admin("override"), Below), Check(market.outcome # test.noted)>>

Transfer(from, to) == [to |-> to] @@ Step("transfer", from, "ok")

(* T9: the admin key goes to a new wallet and back.                        *)
Test9 ==
  LET newAdmin == Wallets[7]
  IN  <<Transfer(Operator, newAdmin), Step("accept", newAdmin, "ok"),
        Transfer(newAdmin, Operator), Step("accept", Operator, "ok")>>

(* T10: fees are withdrawn, if there are any.                              *)
Test10 == <<[Admin("fees") EXCEPT !.expect = IF pot.feeVault > 0 THEN "ok" ELSE "any"]>>

(* T11: the treasury pays out no more than it has free.                    *)
Test11 == <<[WithQty(Admin("treasury"), 1000000) EXCEPT !.expect = "refused"]>>

(* T12: the circuit breaker halts trading and leaves the orders alone.     *)
Test12 ==
  LET agent == Wallets[2]
  IN  <<[Admin("unpause") EXCEPT !.expect = IF paused THEN "ok" ELSE "any"], FreshAgent(2),
        Rests(agent, UsdcBid, 30, ActQty \div 20), Admin("pause"),
        Note(Quantity(SelectSeq(Seen(book.levels), LAMBDA o : o.owner = agent))), Admin("unpause"),
        Check(test.noted > 0)>>

(* T13: a threshold of the config is changed and restored.                 *)
Test13 == <<WithQty(Admin("staleness"), 600), WithQty(Admin("staleness"), 300)>>

-----------------------------------------------------------------------------
(* Act 1.                                                                  *)

A(i) == Wallets[i + 1]

CreateAct1Market == Admin("create")

(* Agents 0 and 1 bid; 2 asks with all the Yes it mints, 3 keeps its pairs.*)
RestingBids(i) == <<FundWallet(A(i)), Rests(A(i), UsdcBid, 45, ActQty \div 2)>>
MintAndAsk ==
  <<FundWallet(A(2)), MintPairFor(A(2), ActQty), Rests(A(2), YesAsk, 55, ActQty)>>
MintOnly == <<FundWallet(A(3)), MintPairFor(A(3), ActQty)>>

(* Agent 4 takes from the asks it reads.                                   *)
CrossingBid ==
  LET asks == SelectSeq(OrdersOf(YesAsk), LAMBDA o : o.price <= Level(55))
  IN  <<FundWallet(A(4)),
        Takes(A(4), UsdcBid, 55, ActQty \div 4, AgentMaxFills,
                [k \in DOMAIN asks |-> AtasFor(asks[k].owner).usdc])>>

NoBackedBid == <<Rests(A(2), NoBid, 40, ActQty \div 4)>>
CancelFirst == <<Cancels(A(0), UsdcBid, 45)>>

PauseUnpause ==
  <<Admin("pause"), RefusedBid(A(0), 50, Unit), Admin("unpause"),
    Caught(Rests(A(0), UsdcBid, 50, Unit)), Caught(WithQty(Admin("feeBps"), FeeBps)),
    Caught(WithQty(Admin("strikeFee"), 0))>>

(* The instructions of the admin, one block after the other.               *)
RoundTrip ==
  <<Transfer(Operator, A(6)), Step("accept", A(6), "ok"), Transfer(A(6), Operator),
    Step("accept", Operator, "ok")>>
Withdrawals ==
  <<[Admin("fees") EXCEPT !.expect = "any"],
    [WithQty(Admin("treasury"), 0) EXCEPT !.expect = "any"], WithQty(Admin("staleness"), 300)>>
Reactivate(ticker) ==
  <<[ticker |-> ticker] @@ Admin("deactivate"), [ticker |-> ticker] @@ Admin("addTicker")>>
AdminV2 ==
  <<RoundTrip, Withdrawals, Reactivate(CHOOSE t \in Tickers : TRUE),
    <<Admin("pause"), Admin("unpause")>> >>

(* The first market is settled by the admin, at the previous close, which  *)
(* is below the strike, and turned by an override.                         *)
SettleFirst ==
  << <<WaitUntil(Close), AtPrice(Admin("update"), Below)>>,
     <<WaitUntil(Close + AdminDelay), AtPrice(Admin("adminSettle"), Below)>>,
     <<AtPrice(Admin("override"), Above)>> >>

(* The others are settled by the feed, after the first one's delay.        *)
SettleOther ==
  << <<WaitUntil(Close), AtPrice(Admin("update"), Below)>>,
     <<WaitUntil(Close + AdminDelay), Admin("settle")>> >>

CrankAll ==
  LET orders == Seen(book.levels)
  IN  <<WithQty([Admin("crankCancel") EXCEPT !.expect = IF orders = <<>> THEN "any" ELSE "ok"],
                Least(Len(orders), ActCancelBatch))>>

ActHolders == {u \in FirstFive : Winnings(u) > 0}

CrankRedeemHolders ==
  <<[Admin("approve") EXCEPT !.who = ActHolders],
    [Admin("crankRedeem") EXCEPT !.who = ActHolders,
                                 !.expect = IF ActHolders = {} THEN "any" ELSE "ok"]>>

(* Pairs first, then winners; whatever is refused is left.                 *)
Drain(u) ==
  <<WithQty(Step("pair", u, "any"), Pairs(u)), WithQty(Step("winner", u, "any"), Winnings(u))>>

DrainAll == [i \in 1 .. 5 |-> Drain(Wallets[i])]

Redeem ==
  << <<WaitUntil(market.deadline)>>, CrankAll,
     <<WithQty(Step("winner", A(4), "ok"), ActQty \div 8)>>,
     <<WithQty(Step("pair", A(3), "ok"), ActQty \div 8)>>, CrankRedeemHolders>> \o DrainAll

(* MintSupplyNotZero is all that is wrong with the close.                  *)
OnlyTokensOutstanding ==
  /\ Open /\ Settled /\ OverrideOver /\ ~HasActiveOrders(book.levels)
  /\ supply.yes # 0 \/ supply.no # 0

(* Losing tokens are never burned by the test, so the first market, where  *)
(* agents traded, is refused; the test puts that down to the override and  *)
(* forgives this error, and no other.                                      *)
CloseFirst ==
  << <<WaitUntil(market.deadline)>> >> \o DrainAll
    \o << <<[Admin("close") EXCEPT !.expect = IF OnlyTokensOutstanding THEN "refused" ELSE "ok"]>> >>
CloseOther == << <<WaitUntil(market.deadline)>> >> \o DrainAll \o << <<Admin("close")>> >>

-----------------------------------------------------------------------------
(* The scripts and their replay.                                           *)

Scripts == {"act1 first", "act1 other", "act2 trading", "act2 winner", "act2 override", "act2 admin"}

Parts(script) ==
  CASE script = "act1 first" ->
         << <<CreateAct1Market>>, RestingBids(0), RestingBids(1), MintAndAsk, MintOnly, CrossingBid,
            NoBackedBid, CancelFirst, PauseUnpause>>
           \o AdminV2 \o SettleFirst \o Redeem \o CloseFirst
    [] script = "act1 other" -> << <<CreateAct1Market>> >> \o SettleOther \o CloseOther
    [] script = "act2 trading" ->
         << <<CreateAct2Market>>, Test1, Test2, Test3, Test4, Test5, Test6>>
    [] script = "act2 override" -> << <<CreateAct2Market>>, Test8>>
    [] script = "act2 winner" -> << <<CreateAct2Market>>, Test7>>
    [] script = "act2 admin" ->
         << <<CreateAct2Market>>, Test9, Test10, Test11, Test12, Test13>>
    [] OTHER -> <<>>

Replaying == test.part <= Len(Parts(test.script))
Current == Parts(test.script)[test.part][test.at]

(* An order that should have been refused does not stop the test.          *)
Advance(s, met, halts) ==
  LET over == halts \/ test.at = Len(Parts(test.script)[test.part])
  IN  test' = [test EXCEPT !.passed = @ /\ met,
                 !.part = IF over THEN @ + 1 ELSE @,
                 !.at = IF over THEN 1 ELSE @ + 1,
                 !.noted = IF s.op = "note" THEN s.value ELSE @]

(* A step that only looks.                                                 *)
Looks(s) ==
  /\ s.op = "wait" => now >= s.until
  /\ Nothing
  /\ UNCHANGED desk
  /\ LET met == s.op = "check" => s.holds IN Advance(s, met, ~met)

Tries(s) ==
  LET runs == ENABLED Performs(s)
      met == s.expect = "any" \/ runs = (s.expect = "ok")
  IN  /\ IF runs THEN Performs(s) ELSE Nothing /\ UNCHANGED desk
      /\ Advance(s, met, ~met /\ ~runs /\ ~IsCaught(s))

Replay ==
  /\ Replaying
  /\ \E s \in {Current} : IF s.op \in {"note", "check", "wait"} THEN Looks(s) ELSE Tries(s)

ReplayWaits == Replaying /\ Current.op = "wait" /\ now < Current.until

(* Every test passes: each step of each script ends as the test expects.   *)
ActsPass == test.passed
=============================================================================
