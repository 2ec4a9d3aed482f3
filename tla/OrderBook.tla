----------------------------- MODULE OrderBook -----------------------------
(***************************************************************************)
(* The order book of one strike market and its matching engine, as         *)
(* operators on a book value (engine.rs is a set of pure functions on the  *)
(* account's bytes).                                                       *)
(*                                                                         *)
(* A book is a record                                                      *)
(*   levels    one sequence of slots per price; <<>> is an unallocated     *)
(*             level (price_map = 0xFFFF), and a slot holds an order or is *)
(*             NoOrder (is_active = 0)                                     *)
(*   nextId    the id the next resting order gets                          *)
(*   allocated max_levels: how many levels were ever appended to the       *)
(*             account; freeing a level does not give its bytes back       *)
(* Where the bytes of a level lie is BookAccount's business.               *)
(***************************************************************************)
EXTENDS Pricing, Sequences, SequencesExt

CONSTANTS
  MinOrder,     (* MIN_ORDER_SIZE                                          *)
  MaxLevels,    (* MAX_PRICE_LEVELS                                        *)
  MaxOrderId,   (* the largest u64: an id that checked_add cannot follow   *)
  NoOrder       (* the content of an inactive slot                         *)

ASSUME BookAssumption ==
  /\ MinOrder \in Nat \ {0}
  /\ MaxLevels \in Nat \ {0}
  /\ MaxOrderId \in Nat

UsdcBid == "UsdcBid"
YesAsk  == "YesAsk"
NoBid   == "NoBid"
Sides   == {UsdcBid, YesAsk, NoBid}

EmptyBook == [levels |-> [p \in Prices |-> <<>>], nextId |-> 0, allocated |-> 0]

IsOrder(slot) == slot # NoOrder

(* <<price, slot index>> of every active order.                            *)
Resting(levels) ==
  UNION {{<<p, i>> : i \in {j \in DOMAIN levels[p] : IsOrder(levels[p][j])}} : p \in Prices}

OrderAt(levels, at) == levels[at[1]][at[2]]

HasActiveOrders(levels) == Resting(levels) # {}

(* Sum of amount(x) over the elements of S.                                *)
SumOver(S, amount(_)) == SumFunction([x \in S |-> amount(x)])

(* Sum of amount(price, order) over the active orders of one side.         *)
SumResting(levels, side, amount(_, _)) ==
  SumOver({at \in Resting(levels) : OrderAt(levels, at).side = side},
          LAMBDA at : amount(at[1], OrderAt(levels, at)))

(* The elements of S from the first to the last: each at the place that    *)
(* the number of those before it gives.                                    *)
InOrder(S, before(_, _)) ==
  [k \in 1 .. Cardinality(S) |->
     CHOOSE a \in S : Cardinality({b \in S : before(b, a)}) = k - 1]

-----------------------------------------------------------------------------
(* Matching.                                                               *)

(* Does an order of this side and limit trade with order o resting at p?   *)
(* A No-backed bid at p asks p cents for No, so a Yes seller that trades   *)
(* with it is left with Dollar - p.                                        *)
Crosses(side, limit, p, o) ==
  \/ side = UsdcBid /\ o.side = YesAsk  /\ p <= limit
  \/ side = NoBid   /\ o.side = YesAsk  /\ p <= Dollar - limit
  \/ side = YesAsk  /\ o.side = UsdcBid /\ p >= limit
  \/ side = YesAsk  /\ o.side = NoBid   /\ p <= Dollar - limit

(* Asks are scanned from the lowest level up, bids from the highest level  *)
(* down; within a level the oldest timestamp first, then the lowest slot.  *)
ScannedBefore(levels, side, a, b) ==
  IF a[1] # b[1]
  THEN IF side = YesAsk THEN a[1] > b[1] ELSE a[1] < b[1]
  ELSE \/ OrderAt(levels, a).ts < OrderAt(levels, b).ts
       \/ OrderAt(levels, a).ts = OrderAt(levels, b).ts /\ a[2] < b[2]

ScanOrder(levels, side, limit) ==
  InOrder({at \in Resting(levels) : Crosses(side, limit, at[1], OrderAt(levels, at))},
          LAMBDA a, b : ScannedBefore(levels, side, a, b))

(* One fill of the taker in match m against the order at `at`, unless less *)
(* than a minimum order remains or the compute cap is reached.  A fill with*)
(* a No-backed order on either side is a merge.                            *)
FillFrom(levels, side, maxFills, m, at) ==
  LET o == OrderAt(levels, at)
      q == IF m.remaining < o.qty THEN m.remaining ELSE o.qty
  IN  IF m.remaining < MinOrder \/ Len(m.fills) >= maxFills
      THEN m
      ELSE [remaining |-> m.remaining - q,
            fills |-> Append(m.fills,
              [maker |-> o.owner, id |-> o.id, makerSide |-> o.side, at |-> at,
               price |-> at[1], qty |-> q, isMerge |-> NoBid \in {side, o.side}])]

MatchAgainstBook(levels, side, limit, qty, maxFills) ==
  FoldLeft(LAMBDA m, at : FillFrom(levels, side, maxFills, m, at),
           [remaining |-> qty, fills |-> <<>>],
           ScanOrder(levels, side, limit))

(* A level whose last active order went is freed.                          *)
FreeIfEmpty(level) == IF \E i \in DOMAIN level : IsOrder(level[i]) THEN level ELSE <<>>

(* Slip: a slot that is filled to the last lamport stays active.           *)
FilledSlotStaysActive(slot, q) ==
  IF q > slot.qty THEN NoOrder ELSE [slot EXCEPT !.qty = @ - q]

FilledSlot(slot, q) == IF q >= slot.qty THEN NoOrder ELSE [slot EXCEPT !.qty = @ - q]

(* The levels after a match: filled slots are deactivated or reduced.      *)
AfterFills(levels, fills) ==
  [p \in Prices |->
    IF \E k \in DOMAIN fills : fills[k].price = p
    THEN FreeIfEmpty([i \in DOMAIN levels[p] |->
           IF \E k \in DOMAIN fills : fills[k].at = <<p, i>>
           THEN FilledSlot(levels[p][i],
                  fills[CHOOSE k \in DOMAIN fills : fills[k].at = <<p, i>>].qty)
           ELSE levels[p][i]])
    ELSE levels[p]]

-----------------------------------------------------------------------------
(* Resting, cancelling, cranking.                                          *)

FreeSlots(level) == {i \in DOMAIN level : ~IsOrder(level[i])}
FirstFree(level) == CHOOSE i \in FreeSlots(level) : \A j \in FreeSlots(level) : i <= j

NeedsNewLevel(book, p) == book.levels[p] = <<>>

(* A new level is appended to the account until max_levels is used up.     *)
CanAllocate(book, p) == NeedsNewLevel(book, p) => book.allocated < MaxLevels

(* The book with a free slot at p: as it is, with a new one-slot level, or *)
(* with the level expanded by a slot.                                      *)
WithFreeSlot(book, p) ==
  [book EXCEPT !.levels[p] = IF FreeSlots(@) # {} THEN @ ELSE Append(@, NoOrder),
               !.allocated = IF NeedsNewLevel(book, p) THEN @ + 1 ELSE @]

CanAssignId(book) == book.nextId < MaxOrderId

(* The order goes in the first free slot; when its id would overflow the   *)
(* slot stays free and the caller refunds.                                 *)
RestOrder(book, owner, side, p, qty, ts) ==
  LET b == WithFreeSlot(book, p)
  IN  IF CanAssignId(book)
      THEN [b EXCEPT !.levels[p][FirstFree(b.levels[p])] =
                       [owner |-> owner, id |-> book.nextId, side |-> side,
                        qty |-> qty, ts |-> ts],
                     !.nextId = @ + 1]
      ELSE b

RemoveOrder(levels, at) ==
  [levels EXCEPT ![at[1]] = FreeIfEmpty([@ EXCEPT ![at[2]] = NoOrder])]

(* The crank walks prices from the lowest level up, slots in order.        *)
CrankOrder(levels) ==
  InOrder(Resting(levels), LAMBDA a, b : a[1] < b[1] \/ (a[1] = b[1] /\ a[2] < b[2]))

CrankBatch(levels, n) ==
  LET all == CrankOrder(levels) IN SubSeq(all, 1, IF n < Len(all) THEN n ELSE Len(all))

(* Slip: every level the walk entered is freed, though the batch may have  *)
(* ended in the middle of the last one.                                    *)
AfterCrankFreesLastLevel(levels, batch, n) ==
  [p \in Prices |->
    IF Len(batch) < n \/ p <= batch[Len(batch)][1] THEN <<>> ELSE levels[p]]

(* A level the walk entered is freed when nothing in it is active any more.*)
AfterCrank(levels, batch, n) ==
  [p \in Prices |->
    IF Len(batch) < n \/ p <= batch[Len(batch)][1]
    THEN FreeIfEmpty([i \in DOMAIN levels[p] |->
           IF Contains(batch, <<p, i>>) THEN NoOrder ELSE levels[p][i]])
    ELSE levels[p]]
=============================================================================
