----------------------------- MODULE WebTrader -----------------------------
(***************************************************************************)
(* One user of the web application: the order ticket (OrderModal), the     *)
(* transaction it becomes (usePlaceOrder, useTransaction), cancelling from *)
(* the list of open orders and redeeming.                                  *)
(*                                                                         *)
(* The ticket works on what the last query returned.  Between that and the *)
(* execution of the transaction lie the decision of the user, the wallet's *)
(* signature, the simulation of the transaction by the node (preflight) and*)
(* its way to the leader; the chain moves on in each of these gaps.        *)
(***************************************************************************)
EXTENDS ClientBook

CONSTANTS
  Trader,         (* the user's wallet                                     *)
  Unit,           (* USDC_LAMPORTS: the lamports of one whole token        *)
  TicketSizes,    (* tokens the user asks for                              *)
  TicketPrices,   (* price levels the user clicks on                       *)
  WebMaxFills,    (* MAX_FILLS_WITHOUT_ALT, or with a lookup table _WITH_  *)
  MaxTickets      (* tickets the user opens                                *)

ASSUME WebAssumption ==
  /\ Trader \in Users
  /\ Unit \in Nat \ {0} /\ Unit % Dollar = 0
  /\ TicketSizes \subseteq Nat \ {0}
  /\ TicketPrices \subseteq Prices
  /\ WebMaxFills \in Nat \ {0}

VARIABLES
  ticket,     (* the ticket and the transaction made of it                 *)
  tickets     (* how many the user has opened so far                       *)

webVars == <<ticket, tickets>>

BuyYes  == "buy-yes"
SellYes == "sell-yes"
BuyNo   == "buy-no"
SellNo  == "sell-no"
TicketSides == {BuyYes, SellYes, BuyNo, SellNo}

NoTicket == [stage |-> "closed"]

(* Between the two instructions of one transaction nothing else happens.   *)
InTransaction == ticket.stage = "halfway"

WebInit(opened) == ticket = NoTicket /\ tickets = opened

-----------------------------------------------------------------------------
(* What the ticket shows.                                                  *)

(* The side of the order the ticket ends in: a buyer of No sells the Yes   *)
(* half of freshly minted pairs.                                           *)
SideToU8(side) ==
  IF side = BuyYes THEN UsdcBid ELSE IF side = SellNo THEN NoBid ELSE YesAsk

OnYesSide(side) == side \in {BuyYes, SellYes}

(* The orders the ticket says it will trade with: up to the clicked price, *)
(* in the terms of the side (No at the rest of the dollar).                *)
Sweep(t) ==
  Matching(t.orders, SideToU8(t.side), IF t.side = SellNo THEN Dollar - t.price ELSE t.price)

CentsAt(t, p) == IF OnYesSide(t.side) THEN p ELSE Dollar - p

ShownAt(t, p) == Quantity(SelectSeq(Sweep(t), LAMBDA o : o.price = p))

(* Taking the levels of the sweep from the lowest price up: what is left of*)
(* the size, and what the rest costs, in lamports times cents.             *)
Swept(t, size) ==
  LET take(acc, p) ==
        LET q == IF ShownAt(t, p) < acc.left THEN ShownAt(t, p) ELSE acc.left
        IN  [left |-> acc.left - q, cost |-> acc.cost + q * CentsAt(t, p)]
  IN  FoldLeft(take, [left |-> size, cost |-> 0], [p \in 1 .. Dollar - 1 |-> p])

(* Slip: what rests at the end is not counted.                             *)
CostOfFills(t, size) ==
  IF ~t.isLimit \/ size <= ShownAt(t, t.price)
  THEN (size * CentsAt(t, t.price)) \div Dollar
  ELSE Swept(t, size).cost \div Dollar

(* The total the ticket shows.  A market order, or one the clicked level   *)
(* alone can fill, is counted at the clicked price; any other sweeps, and  *)
(* what is left rests at the clicked price.                                *)
ShownCost(t, size) ==
  IF ~t.isLimit \/ size <= ShownAt(t, t.price)
  THEN (size * CentsAt(t, t.price)) \div Dollar
  ELSE (Swept(t, size).cost + Swept(t, size).left * CentsAt(t, t.price)) \div Dollar

(* Buying is not offered to a holder of the other token, nor is selling No *)
(* to a holder of Yes.                                                     *)
PositionConflict(t) ==
  \/ t.side = BuyYes /\ t.no > 0
  \/ t.side \in {BuyNo, SellNo} /\ t.yes > 0

(* The balances the ticket checks before it asks for a signature.          *)
BalanceSuffices(t, size) ==
  /\ t.side \in {BuyYes, BuyNo} => ShownCost(t, size) <= t.usdc
  /\ t.side = SellYes => t.yes >= size
  /\ t.side = SellNo => t.no >= size

-----------------------------------------------------------------------------
(* The transaction.                                                        *)

(* The limit the order is sent with.  A market order gives the worst price.*)
(* A No price is taken to be on the ticket, which holds the Yes price.     *)
SentPrice(t) ==
  IF t.side = BuyNo THEN IF t.isLimit THEN Dollar - t.price ELSE 1
  ELSE IF t.isLimit THEN t.price
  ELSE IF t.side = BuyYes THEN Dollar - 1 ELSE 1

OrderOf(t, size) ==
  [side |-> SideToU8(t.side), price |-> SentPrice(t), qty |-> size, isLimit |-> t.isLimit,
   maxFills |-> WebMaxFills,
   accounts |-> MakerAccounts(t.orders, SideToU8(t.side), SentPrice(t), WebMaxFills)]

(* Would the whole transaction go through now?  The Yes tokens the second  *)
(* leg of a No purchase sells are those the first leg mints.               *)
SellLegRuns(order) ==
  LET m == MatchAgainstBook(book.levels, order.side, order.price, order.qty, order.maxFills)
      matched == [book EXCEPT !.levels = AfterFills(@, m.fills)]
  IN  /\ m.fills # <<>> \/ order.isLimit
      /\ order.isLimit /\ m.remaining >= MinOrder => CanAllocate(matched, order.price)
      /\ NamedInOrder(m.fills, order.side, order.accounts)

Runs(t) ==
  IF t.side = BuyNo
  THEN ENABLED MintPair(Trader, t.order.qty) /\ SellLegRuns(t.order)
  ELSE ENABLED PlaceNaming(Trader, t.order)

(* The modal with the last book and the last balances.                     *)
OpenTicket(side, price, isLimit) ==
  /\ ticket.stage = "closed"
  /\ tickets < MaxTickets
  /\ ticket' = [stage |-> "open", side |-> side, price |-> price, isLimit |-> isLimit,
                orders |-> Seen(book.levels), usdc |-> usdc[Trader],
                yes |-> yes[Trader], no |-> no[Trader]]
  /\ tickets' = tickets + 1
  /\ Nothing

Submit(size) ==
  /\ ticket.stage = "open"
  /\ ~PositionConflict(ticket)
  /\ BalanceSuffices(ticket, size)
  /\ ticket' = [stage |-> "signing", order |-> OrderOf(ticket, size),
                shown |-> ShownCost(ticket, size)] @@ ticket
  /\ Nothing
  /\ UNCHANGED tickets

(* The modal is closed, or the wallet does not sign.                       *)
GiveUp ==
  /\ ticket.stage \in {"open", "signing"}
  /\ ticket' = NoTicket
  /\ Nothing
  /\ UNCHANGED tickets

(* sendRawTransaction simulates first; what fails there is not sent.       *)
SignAndSend ==
  /\ ticket.stage = "signing"
  /\ ticket' = IF Runs(ticket) THEN [ticket EXCEPT !.stage = "sent"] ELSE NoTicket
  /\ Nothing
  /\ UNCHANGED tickets

(* The transaction is executed, on whatever the chain is by then, or fails *)
(* as a whole, or never gets into a block before its blockhash expires.    *)
Land ==
  /\ ticket.stage = "sent"
  /\ Runs(ticket)
  /\ UNCHANGED tickets
  /\ IF ticket.side = BuyNo
     THEN MintPair(Trader, ticket.order.qty) /\ ticket' = [ticket EXCEPT !.stage = "halfway"]
     ELSE PlaceNaming(Trader, ticket.order) /\ ticket' = NoTicket

SellLeg ==
  /\ InTransaction
  /\ PlaceNaming(Trader, ticket.order)
  /\ ticket' = NoTicket
  /\ UNCHANGED tickets

LandInVain ==
  /\ ticket.stage = "sent"
  /\ ticket' = NoTicket
  /\ Nothing
  /\ UNCHANGED tickets

-----------------------------------------------------------------------------
(* Cancelling and redeeming, each a transaction of one instruction.        *)

(* An order of the list of open orders.                                    *)
CancelListed ==
  /\ ticket.stage = "closed"
  /\ \E at \in Resting(book.levels) : CancelOrder(Trader, at)
  /\ UNCHANGED webVars

(* The redeem panel always takes everything there is.                      *)
RedeemAll ==
  LET pairs == IF yes[Trader] < no[Trader] THEN yes[Trader] ELSE no[Trader]
  IN  /\ ticket.stage = "closed"
      /\ \/ pairs > 0 /\ RedeemPair(Trader, pairs)
         \/ Settled /\ OverrideOver /\ Winnings(Trader) > 0
            /\ RedeemWinner(Trader, Winnings(Trader))
      /\ UNCHANGED webVars

WebMoves ==
  \/ \E side \in TicketSides, price \in TicketPrices, isLimit \in BOOLEAN :
        OpenTicket(side, price, isLimit)
  \/ \E size \in TicketSizes : Submit(size * Unit)
  \/ GiveUp
  \/ SignAndSend
  \/ Land
  \/ SellLeg
  \/ LandInVain
  \/ CancelListed
  \/ RedeemAll
=============================================================================
