--------------------------- MODULE BookRefinement ---------------------------
(* The engine at work on the account's cells does what Book promises.      *)
EXTENDS BookAccount

(* The book the cells hold: the slots behind each header price_map leads to*)
BookOf(a) ==
  [levels |-> [p \in Prices |->
     IF HasLevel(a, p)
     THEN [s \in 1 .. Level(a, p).slots |-> Slot(a, a.map[p], s)]
     ELSE <<>>],
   nextId |-> a.nextId,
   allocated |-> a.maxLevels]

Abstract == INSTANCE Book WITH book <- BookOf(account)

(* What the end of a transaction is to the book's users.                   *)
AbstractStep ==
  \/ Matched /\ Abstract!PlaceOrder(call.owner, call.side, call.price, call.qty,
                                   call.isLimit, call.maxFills)
  \/ CrankOver /\ Abstract!CrankCancel(call.batch)
  \/ Idle /\ \E u \in Owners, at \in Resting(BookOf(account).levels) :
                Abstract!CancelOrder(u, at)
  \/ Idle /\ (Abstract!Settle \/ Abstract!Tick)

(* Every transaction that is committed is the step of Book that was asked  *)
(* for, with the same fills, whatever loops, moves of levels and stale     *)
(* counts it went through; nothing else changes the book.                  *)
EngineImplementsBook ==
  Abstract!Init /\ [][UNCHANGED <<now, trading, account, fills>> \/ AbstractStep]_vars

(* Fills come with a change of the account, so that only these steps need  *)
(* to be looked at below.                                                  *)
Changes == account' # account

(* An order is never filled before an older one of its side and price that *)
(* stays on the book.                                                      *)
TimePriority == [][Changes => ~Abstract!OlderPassedOver]_vars

(* Asks and USDC bids are taken best price first.                          *)
BestPriceFirst == [][Changes => ~Abstract!BetterPassedOver({UsdcBid, YesAsk})]_vars

(* So are No-backed bids: engine.rs calls itself price-time priority.      *)
BestPriceFirstForNo == [][Changes => ~Abstract!BetterPassedOver({NoBid})]_vars

(* Two orders that could trade with each other come to rest side by side   *)
(* only where max_fills ended the match of the later one.                  *)
CrossedOnlyByCap ==
  [][Changes /\ Matched /\ Len(fills') < call.maxFills =>
       Abstract!Crossed(BookOf(account').levels) \subseteq
       Abstract!Crossed(BookOf(account).levels)]_vars

-----------------------------------------------------------------------------
(* Every level price_map leads to lies in the account with all its slots,  *)
(* at an offset the map can hold, and apart from the other levels.         *)
LevelsApart(a) ==
  \A p \in Prices : HasLevel(a, p) =>
    /\ a.map[p] \in 1 .. Unallocated - 1
    /\ Level(a, p) \in Headers
    /\ Level(a, p).price = p
    /\ Level(a, p).slots \in 1 .. MaxSlots
    /\ a.map[p] + Level(a, p).slots <= a.len
    /\ \A s \in 1 .. Level(a, p).slots : Slot(a, a.map[p], s) \in Orders \cup {NoOrder}
    /\ \A q \in Behind(a, p) : a.map[p] + Level(a, p).slots < a.map[q]
    /\ \A q \in Prices : HasLevel(a, q) /\ a.map[q] = a.map[p] => q = p

(* A level's count, by which it is freed and the market may be closed, is  *)
(* the number of its active orders.                                        *)
ActiveCounted(a) ==
  \A p \in Prices : HasLevel(a, p) =>
    Level(a, p).active = Cardinality(ActiveSlots(a, a.map[p], Level(a, p).slots))

(* Between any two writes of any transaction, in any order of allocations, *)
(* moves and freed levels, no two levels overlap and no order is uncounted.*)
LayoutSound == LevelsApart(data) /\ ActiveCounted(data)
=============================================================================
