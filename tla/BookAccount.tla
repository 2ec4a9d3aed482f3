---------------------------- MODULE BookAccount ----------------------------
(***************************************************************************)
(* The matching engine at work on the order book account.                  *)
(*                                                                         *)
(* The account's bytes after its header are cells: a level is a header     *)
(* cell followed by its slots.  price_map gives the offset of each price's *)
(* level.  New levels are appended; a full level is grown by moving        *)
(* everything behind it one slot further; a drained level is forgotten     *)
(* where it lies.                                                          *)
(*                                                                         *)
(* A transaction runs through its loops one step at a time, on a copy of   *)
(* the account that it commits at the end or drops where a check fails.    *)
(* No other transaction that names the account runs meanwhile.             *)
(***************************************************************************)
EXTENDS OrderBook

CONSTANTS
  Owners,        (* the wallets that place orders                          *)
  OrderQtys,     (* quantities asked for                                   *)
  LimitCaps,     (* values of max_fills in limit orders                    *)
  MarketCaps,    (* and in market orders                                   *)
  CrankBatches,  (* values of crank_cancel's batch_size                    *)
  LastTick,      (* the clock of the model stops here                      *)
  Unallocated,   (* PRICE_UNALLOCATED: no offset reaches it                *)
  MaxSlots       (* the largest u8: slots of one level                     *)

Orders == [owner : Owners, id : Nat, side : Sides, qty : Nat \ {0}, ts : Nat]
Headers == [price : Nat, active : Nat, slots : Nat]

ASSUME AccountAssumption ==
  /\ OrderQtys \subseteq Nat
  /\ LimitCaps \cup MarketCaps \subseteq Nat
  /\ CrankBatches \subseteq Nat \ {0}
  /\ LastTick \in Nat
  /\ Unallocated \in Nat
  /\ MaxSlots \in Nat \ {0}
  /\ NoOrder \notin Orders

VARIABLES
  now,           (* the cluster clock                                      *)
  trading,       (* the market is not settled yet                          *)
  account,       (* the account as the last transaction left it            *)
  data,          (* the account as the running transaction sees it         *)
  phase,         (* where the running transaction is                       *)
  call,          (* its arguments                                          *)
  loop,          (* the level it is at: price, loff, slot_cnt              *)
  result,        (* MatchResult; for the crank, what is left of the batch  *)
  fills          (* FillEvents of the last transaction                     *)

txVars == <<phase, call, loop, result>>
vars == <<now, trading, account, data, txVars, fills>>

-----------------------------------------------------------------------------
(* Reading the account.                                                    *)

HasLevel(a, p) == a.map[p] # Unallocated
Level(a, p) == a.cells[a.map[p]]
Slot(a, l, s) == a.cells[l + s]

(* The active slots among the first n of the level at l.                   *)
ActiveSlots(a, l, n) == {s \in 1 .. n : IsOrder(Slot(a, l, s))}
FreeSlotsAt(a, l, n) == (1 .. n) \ ActiveSlots(a, l, n)

First(S) == CHOOSE s \in S : \A t \in S : s <= t

-----------------------------------------------------------------------------
(* Writing the account.                                                    *)

(* free_level: the level's place is forgotten, its cells stay.             *)
FreeLevel(a, l) ==
  [a EXCEPT !.map[a.cells[l].price] = Unallocated,
            !.cells[l] = [price |-> 0, active |-> 0, slots |-> 0]]

FreeIfDrained(a, l) == IF a.cells[l].active = 0 THEN FreeLevel(a, l) ELSE a

SetLevelCount(h, n) == [price |-> h.price, active |-> n, slots |-> h.slots]
SetLevelSlotCount(h, n) == [price |-> h.price, active |-> h.active, slots |-> n]
SetSlotQuantity(o, q) ==
  [owner |-> o.owner, id |-> o.id, side |-> o.side, qty |-> q, ts |-> o.ts]

(* deactivate_slot, and the level's count.                                 *)
Deactivate(a, l, s) ==
  LET level == a.cells[l]
      left == IF level.active > 0 THEN level.active - 1 ELSE 0
  IN  [a EXCEPT !.cells = [@ EXCEPT ![l + s] = NoOrder, ![l] = SetLevelCount(level, left)]]

(* A fill takes q off the slot and leaves the rest.                        *)
Reduce(a, l, s, q) ==
  LET order == Slot(a, l, s)
  IN  [a EXCEPT !.cells = [@ EXCEPT ![l + s] = SetSlotQuantity(order, order.qty - q)]]

(* Slip: a level that was filled is freed whatever else is on it.          *)
FreesFilledLevel(a, l, s, q) ==
  IF q >= Slot(a, l, s).qty
  THEN FreeLevel(Deactivate(a, l, s), l)
  ELSE Reduce(a, l, s, q)

(* A fill of q takes from the slot; a slot filled whole is deactivated, and*)
(* the level freed with its last order.                                    *)
TakeFrom(a, l, s, q) ==
  IF q >= Slot(a, l, s).qty
  THEN FreeIfDrained(Deactivate(a, l, s), l)
  ELSE Reduce(a, l, s, q)

(* allocate_new_level, init_level: a level with one slot at the end.       *)
CanInitLevel(a) == a.len + 1 < Unallocated /\ a.maxLevels < MaxLevels
InitLevel(a, p) ==
  [a EXCEPT !.len = @ + 2,
            !.cells = [i \in 1 .. a.len + 2 |->
                         IF i = a.len + 1 THEN [price |-> p, active |-> 0, slots |-> 1]
                         ELSE IF i = a.len + 2 THEN NoOrder ELSE a.cells[i]],
            !.map[p] = a.len + 1,
            !.maxLevels = @ + 1]

(* Slip: the levels behind are taken to be those of higher prices.         *)
BehindByPrice(a, p) == {q \in Prices : HasLevel(a, q) /\ q > p}

(* The levels that lie behind that of price p.                             *)
Behind(a, p) == {q \in Prices : HasLevel(a, q) /\ a.map[q] > a.map[p]}

(* expand_level: a free slot behind the level's last.                      *)
CanExpandLevel(a, p) ==
  /\ Level(a, p).slots < MaxSlots
  /\ \A q \in Behind(a, p) : a.map[q] + 1 < Unallocated
ExpandLevel(a, p) ==
  LET l == a.map[p]
      at == l + Level(a, p).slots + 1
  IN  [a EXCEPT !.len = @ + 1,
                !.cells = [i \in 1 .. a.len + 1 |->
                             IF i = l THEN SetLevelSlotCount(a.cells[l], Level(a, p).slots + 1)
                             ELSE IF i < at THEN a.cells[i]
                             ELSE IF i = at THEN NoOrder ELSE a.cells[i - 1]],
                !.map = [q \in Prices |-> IF q \in Behind(a, p) THEN a.map[q] + 1 ELSE a.map[q]]]

(* write_order_slot in the first free slot of p's level.                   *)
WriteOrder(a, p, order) ==
  LET l == a.map[p]
      s == First(FreeSlotsAt(a, l, Level(a, p).slots))
  IN  [a EXCEPT !.cells = [@ EXCEPT ![l + s] = order,
                                    ![l] = SetLevelCount(Level(a, p), Level(a, p).active + 1)],
                !.nextId = @ + 1]

-----------------------------------------------------------------------------
(* A transaction begins, commits or fails.                                 *)

NoCall == [batch |-> 0]
NoLoop == [price |-> 0, loff |-> 0, slots |-> 0]
NoResult == [remaining |-> 0, fills |-> <<>>]

EmptyAccount ==
  [len |-> 0, cells |-> <<>>, map |-> [p \in Prices |-> Unallocated],
   maxLevels |-> 0, nextId |-> 0]

Init ==
  /\ now = 1
  /\ trading = TRUE
  /\ account = EmptyAccount /\ data = EmptyAccount
  /\ phase = "idle" /\ call = NoCall /\ loop = NoLoop /\ result = NoResult
  /\ fills = <<>>

Idle == phase = "idle"

EndTx == phase' = "idle" /\ call' = NoCall /\ loop' = NoLoop /\ result' = NoResult

Commit(a, events) ==
  /\ account' = a
  /\ data' = a
  /\ fills' = events
  /\ EndTx
  /\ UNCHANGED <<now, trading>>

(* A check fails: nothing the transaction wrote is kept.                   *)
Fail ==
  /\ data' = account
  /\ EndTx
  /\ UNCHANGED <<now, trading, account, fills>>

(* A step of the running transaction.                                      *)
Go(ph) == phase' = ph /\ UNCHANGED <<now, trading, account, call, fills>>

-----------------------------------------------------------------------------
(* place_order: match_against_book.                                        *)

PlaceOrder(u, side, price, qty, isLimit, maxFills) ==
  /\ Idle
  /\ trading
  /\ qty >= MinOrder
  /\ phase' = "match"
  /\ call' = [owner |-> u, side |-> side, price |-> price, qty |-> qty,
              isLimit |-> isLimit, maxFills |-> maxFills]
  /\ loop' = [NoLoop EXCEPT !.price = IF side = YesAsk THEN Dollar ELSE 0]
  /\ result' = [remaining |-> qty, fills |-> <<>>]
  /\ UNCHANGED <<now, trading, account, data, fills>>

(* Slip: equal limits do not trade.                                        *)
MakerSidesWithoutTies(p) ==
  IF call.side = YesAsk
  THEN (IF p > call.price THEN {UsdcBid} ELSE {})
         \cup (IF p < Dollar - call.price THEN {NoBid} ELSE {})
  ELSE IF p < (IF call.side = NoBid THEN Dollar - call.price ELSE call.price)
       THEN {YesAsk} ELSE {}

(* The sides the call's order trades with at price p.                      *)
MakerSides(p) ==
  IF call.side = YesAsk
  THEN (IF p >= call.price THEN {UsdcBid} ELSE {})
         \cup (IF p <= Dollar - call.price THEN {NoBid} ELSE {})
  ELSE IF p <= (IF call.side = NoBid THEN Dollar - call.price ELSE call.price)
       THEN {YesAsk} ELSE {}

(* Bids are scanned from the highest level down, asks from the lowest up.  *)
AheadOf(p, q) == IF call.side = YesAsk THEN p > q ELSE p < q

ToScan == {p \in Prices : AheadOf(loop.price, p) /\ HasLevel(data, p) /\ MakerSides(p) # {}}

(* Slip: asks, too, are scanned from the highest level down.               *)
HighestLevel(p) == \A q \in ToScan : q <= p

NextLevel(p) == \A q \in ToScan : q = p \/ AheadOf(p, q)

Exhausted == result.remaining < MinOrder \/ Len(result.fills) >= call.maxFills

(* The orders of the level that can be taken.  The count of slots is that  *)
(* from when the level was entered, even if it was freed since.            *)
Makers ==
  {s \in ActiveSlots(data, loop.loff, loop.slots) :
     Slot(data, loop.loff, s).side \in MakerSides(loop.price)}

(* Slip: slots in the order they lie in, whatever their age.               *)
ServedInPlace(s, t) == s <= t

(* The oldest order first, then the lowest slot.                           *)
ServedBefore(s, t) ==
  LET a == Slot(data, loop.loff, s).ts
      b == Slot(data, loop.loff, t).ts
  IN  a < b \/ (a = b /\ s <= t)

FillOldest ==
  /\ phase = "match"
  /\ ~Exhausted
  /\ \E s \in Makers :
       LET o == Slot(data, loop.loff, s)
           q == IF result.remaining < o.qty THEN result.remaining ELSE o.qty
       IN  /\ \A t \in Makers : ServedBefore(s, t)
           /\ data' = TakeFrom(data, loop.loff, s, q)
           /\ result' = [remaining |-> result.remaining - q,
                         fills |-> Append(result.fills,
                           [maker |-> o.owner, taker |-> call.owner, price |-> loop.price,
                            qty |-> q, id |-> o.id, makerSide |-> o.side,
                            takerSide |-> call.side, isMerge |-> NoBid \in {call.side, o.side}])]
  /\ Go("match")
  /\ UNCHANGED loop

(* The next level is looked for when this one has nothing left to take.    *)
EnterLevel ==
  /\ phase = "match"
  /\ ~Exhausted
  /\ Makers = {}
  /\ \E p \in ToScan :
       /\ NextLevel(p)
       /\ loop' = [price |-> p, loff |-> data.map[p], slots |-> Level(data, p).slots]
  /\ Go("match")
  /\ UNCHANGED <<data, result>>

(* The match is over; the order may be about to rest already.              *)
Matched ==
  \/ phase = "rest"
  \/ phase = "match" /\ (Exhausted \/ (Makers = {} /\ ToScan = {}))

-----------------------------------------------------------------------------
(* place_order: try_place_resting_order.                                   *)

WantsRest == call.isLimit /\ result.remaining >= MinOrder
NeedsLevel == ~HasLevel(data, call.price)
IsFull == ~NeedsLevel /\ FreeSlotsAt(data, data.map[call.price], Level(data, call.price).slots) = {}
HasRoom == ~NeedsLevel /\ ~IsFull

AllocateNewLevel ==
  /\ Matched
  /\ WantsRest
  /\ NeedsLevel
  /\ CanInitLevel(data)
  /\ data' = InitLevel(data, call.price)
  /\ Go("rest")
  /\ UNCHANGED <<loop, result>>

ExpandFullLevel ==
  /\ Matched
  /\ WantsRest
  /\ IsFull
  /\ CanExpandLevel(data, call.price)
  /\ data' = ExpandLevel(data, call.price)
  /\ Go("rest")
  /\ UNCHANGED <<loop, result>>

RestOrderInSlot ==
  /\ Matched
  /\ WantsRest
  /\ HasRoom
  /\ data.nextId < MaxOrderId
  /\ Commit(WriteOrder(data, call.price,
                       [owner |-> call.owner, id |-> data.nextId, side |-> call.side,
                        qty |-> result.remaining, ts |-> now]),
            result.fills)

(* Nothing is to rest, or the id would overflow and the rest is refunded.  *)
FinishOrder ==
  /\ Matched
  /\ WantsRest => HasRoom /\ data.nextId >= MaxOrderId
  /\ call.isLimit \/ result.fills # <<>>
  /\ Commit(data, result.fills)

(* No more levels or slots can be had, or a market order filled nothing.   *)
RefuseOrder ==
  /\ Matched
  /\ \/ WantsRest /\ NeedsLevel /\ ~CanInitLevel(data)
     \/ WantsRest /\ IsFull /\ ~CanExpandLevel(data, call.price)
     \/ ~call.isLimit /\ result.fills = <<>>
  /\ Fail

-----------------------------------------------------------------------------
(* cancel_order: the owner's order with this id is looked for at its price.*)

CancelOrder(u, p, s) ==
  LET l == account.map[p]
  IN  /\ Idle
      /\ trading
      /\ HasLevel(account, p)
      /\ s \in ActiveSlots(account, l, Level(account, p).slots)
      /\ Slot(account, l, s).owner = u
      /\ Commit(FreeIfDrained(Deactivate(account, l, s), l), <<>>)

-----------------------------------------------------------------------------
(* crank_cancel: level by level, until the batch is full.                  *)

StartCrank(n) ==
  /\ Idle
  /\ ~trading
  /\ phase' = "crank"
  /\ call' = [batch |-> n]
  /\ result' = [remaining |-> n, fills |-> <<>>]
  /\ UNCHANGED <<now, trading, account, data, loop, fills>>

ToCrank == {p \in Prices : p > loop.price /\ HasLevel(data, p)}

EnterCrankedLevel ==
  /\ phase = "crank"
  /\ result.remaining > 0
  /\ ToCrank # {}
  /\ LET p == First(ToCrank)
     IN  loop' = [price |-> p, loff |-> data.map[p], slots |-> Level(data, p).slots]
  /\ Go("level")
  /\ UNCHANGED <<data, result>>

CrankSlot ==
  LET active == ActiveSlots(data, loop.loff, loop.slots)
  IN  /\ phase = "level"
      /\ result.remaining > 0
      /\ active # {}
      /\ data' = Deactivate(data, loop.loff, First(active))
      /\ result' = [result EXCEPT !.remaining = @ - 1]
      /\ Go("level")
      /\ UNCHANGED loop

LeaveCrankedLevel ==
  /\ phase = "level"
  /\ \/ result.remaining = 0
     \/ ActiveSlots(data, loop.loff, loop.slots) = {}
  /\ data' = FreeIfDrained(data, loop.loff)
  /\ Go("crank")
  /\ UNCHANGED <<loop, result>>

CrankOver == phase = "crank" /\ (result.remaining = 0 \/ ToCrank = {})

FinishCrank == CrankOver /\ result.remaining < call.batch /\ Commit(data, <<>>)

(* CrankNotNeeded: there was no order.                                     *)
RefuseCrank == CrankOver /\ result.remaining = call.batch /\ Fail

-----------------------------------------------------------------------------
(* The market is settled, the clock ticks.                                 *)

Settle ==
  /\ Idle
  /\ trading
  /\ trading' = FALSE
  /\ fills' = <<>>
  /\ UNCHANGED <<now, account, data, txVars>>

Tick ==
  /\ Idle
  /\ now < LastTick
  /\ now' = now + 1
  /\ fills' = <<>>
  /\ UNCHANGED <<trading, account, data, txVars>>

Next ==
  \/ \E u \in Owners, side \in Sides, price \in Prices, q \in OrderQtys,
        isLimit \in BOOLEAN :
       \E n \in IF isLimit THEN LimitCaps ELSE MarketCaps : PlaceOrder(u, side, price, q, isLimit, n)
  \/ EnterLevel \/ FillOldest
  \/ AllocateNewLevel \/ ExpandFullLevel \/ RestOrderInSlot \/ FinishOrder \/ RefuseOrder
  \/ \E u \in Owners, p \in Prices, s \in 1 .. MaxSlots : CancelOrder(u, p, s)
  \/ \E n \in CrankBatches : StartCrank(n)
  \/ EnterCrankedLevel \/ CrankSlot \/ LeaveCrankedLevel \/ FinishCrank \/ RefuseCrank
  \/ Settle
  \/ Tick

Spec == Init /\ [][Next]_vars
=============================================================================
