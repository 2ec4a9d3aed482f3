------------------------------- MODULE AmmBot -------------------------------
(***************************************************************************)
(* The market-making bot.  It has the operator's key, and with it the      *)
(* operator's tokens and resting orders.  In every poll it reads the pause *)
(* flag, the oracle and its balances, works out a quote, cancels its own   *)
(* orders and places a bid and an ask; other transactions come in between. *)
(*                                                                         *)
(* Its orders are sent with order type 0, which the program takes for a    *)
(* market order, and without any maker account.                            *)
(***************************************************************************)
EXTENDS StackBootstrap

CONSTANTS
  Fairs,          (* the fair price the pricer may come to, in basis points*)
  SpreadBps,      (* quoteConfig.spreadBps                                 *)
  MaxInventory,   (* quoteConfig.maxInventory                              *)
  MinEdge,        (* quoteConfig.minEdge                                   *)
  BotQty,         (* BOT_QUANTITY                                          *)
  MaxErrors,      (* failed executions in a row before the bot halts       *)
  MaxPolls        (* polls of the bot                                      *)

ASSUME BotAssumption ==
  /\ Fairs \subseteq 0 .. 10000
  /\ {SpreadBps, MinEdge, BotQty, MaxErrors, MaxPolls} \subseteq Nat
  /\ MaxInventory \in Nat \ {0}

VARIABLE bot

BotInit ==
  bot = [step |-> "idle", polls |-> 0, errors |-> 0, bid |-> 0, ask |-> 0, orders |-> <<>>]

Magnitude(n) == IF n < 0 THEN -n ELSE n
Bounded(n) == IF n < 1 THEN 1 ELSE IF n > Dollar - 1 THEN Dollar - 1 ELSE n

(* Basis points of a dollar, rounded to cents.                             *)
ToCents(bps) == (bps * Dollar + 5000) \div 10000

(* Never narrower than half a cent.                                        *)
HalfSpread(fair) ==
  LET raw == (fair * SpreadBps) \div 10000
      floor == 5000 \div Dollar
  IN  IF raw > floor THEN raw ELSE floor

(* Half of it, in proportion to the inventory, moves both prices down.     *)
Skew(fair, inventory) == (inventory * HalfSpread(fair)) \div (2 * MaxInventory)

(* Bid and ask after the floor and the ceiling, before they are kept apart.*)
RawQuote(fair, inventory) ==
  LET mid == fair - Skew(fair, inventory)
      bid == ToCents(mid - HalfSpread(fair))
      ask == ToCents(mid + HalfSpread(fair))
  IN  [bid |-> IF bid > 1 THEN bid ELSE 1, ask |-> IF ask < Dollar - 1 THEN ask ELSE Dollar - 1]

(* The bid stays below the ask, whatever rounding and bounds did.          *)
KeptApart(q) ==
  LET mid == (q.bid + q.ask + 1) \div 2
      b == IF mid - MinEdge > 1 THEN mid - MinEdge ELSE 1
      a == IF mid + MinEdge < Dollar - 1 THEN mid + MinEdge ELSE Dollar - 1
      higher == IF b + MinEdge + 1 < Dollar - 1 THEN b + MinEdge + 1 ELSE Dollar - 1
  IN  IF q.bid < q.ask THEN q
      ELSE IF b < a THEN [bid |-> b, ask |-> a]
      ELSE IF b < higher THEN [bid |-> b, ask |-> higher]
      ELSE [bid |-> IF higher - MinEdge - 1 > 1 THEN higher - MinEdge - 1 ELSE 1, ask |-> higher]

GenerateQuotes(fair, inventory) == KeptApart(RawQuote(fair, inventory))

ShouldHalt(inventory) == Magnitude(inventory) > MaxInventory \/ bot.errors > MaxErrors

Inventory == yes[Operator] - no[Operator]

-----------------------------------------------------------------------------
(* pollAndQuote up to the decision.  Nothing is cancelled by a bot that    *)
(* halts.                                                                  *)
PollAndQuote ==
  /\ bot.step = "idle"
  /\ bot.polls < MaxPolls
  /\ stack.market /\ feed.price > 0
  /\ Nothing
  /\ \E fair \in Fairs :
       LET quote == GenerateQuotes(fair, Inventory)
       IN  bot' = IF paused \/ Settled \/ ShouldHalt(Inventory)
                  THEN [bot EXCEPT !.polls = @ + 1]
                  ELSE [bot EXCEPT !.polls = @ + 1, !.step = "read",
                                   !.bid = quote.bid, !.ask = quote.ask]

(* cancelBotOrders reads the book once and cancels order by order, each by *)
(* its price and id; one that is gone by then is skipped.                  *)
ReadOwnOrders ==
  /\ bot.step = "read"
  /\ Nothing
  /\ bot' = [bot EXCEPT !.step = "cancel",
               !.orders = SelectSeq(Seen(book.levels), LAMBDA o : o.owner = Operator)]

PlacesOf(o) == {at \in Resting(book.levels) : at[1] = o.price /\ OrderAt(book.levels, at).id = o.id}

CancelBotOrders ==
  /\ bot.step = "cancel"
  /\ IF bot.orders = <<>>
     THEN Nothing /\ bot' = [bot EXCEPT !.step = "bid"]
     ELSE /\ bot' = [bot EXCEPT !.orders = Tail(@)]
          /\ IF \E at \in PlacesOf(Head(bot.orders)) : ENABLED CancelOrder(Operator, at)
             THEN \E at \in PlacesOf(Head(bot.orders)) : CancelOrder(Operator, at)
             ELSE Nothing

BotOrder(side, price) ==
  [side |-> side, price |-> price, qty |-> BotQty, isLimit |-> FALSE, maxFills |-> 5,
   accounts |-> <<>>]

(* placeQuotes after the cancels: the bid and, when it went through, the   *)
(* ask.  A refused bid counts as a failure at once; a refused ask takes the*)
(* bid back first (the orphan, at most one order).                         *)
PlaceQuotes ==
  LET order == IF bot.step = "bid" THEN BotOrder(UsdcBid, bot.bid) ELSE BotOrder(YesAsk, bot.ask)
      runs == bot.step # "orphan" /\ ENABLED PlaceNaming(Operator, order)
      mine == {at \in Resting(book.levels) : OrderAt(book.levels, at).owner = Operator}
  IN  /\ bot.step \in {"bid", "ask", "orphan"}
      /\ bot' = IF bot.step = "bid" /\ runs THEN [bot EXCEPT !.step = "ask"]
                ELSE IF bot.step = "ask" /\ runs THEN [bot EXCEPT !.step = "idle", !.errors = 0]
                ELSE IF bot.step = "ask" THEN [bot EXCEPT !.step = "orphan"]
                ELSE [bot EXCEPT !.step = "idle", !.errors = @ + 1]
      /\ IF runs THEN PlaceNaming(Operator, order)
         ELSE IF bot.step = "orphan" /\ mine # {}
         THEN \E at \in mine : CancelOrder(Operator, at)
         ELSE Nothing

BotMoves == PollAndQuote \/ ReadOwnOrders \/ CancelBotOrders \/ PlaceQuotes
=============================================================================
