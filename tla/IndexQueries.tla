---------------------------- MODULE IndexQueries ----------------------------
(***************************************************************************)
(* What the event indexer's REST API answers from its tables: cost basis,  *)
(* average prices, labelled fills, the portfolio and its history           *)
(* (mapper.ts), and the signals computed from fills and settlements        *)
(* (signals.ts).  Each operator is one query, applied to the rows of the   *)
(* table events.                                                           *)
(*                                                                         *)
(* Times are half hours since the epoch; a price is in cents.  Where the   *)
(* code divides, the operators keep numerator and denominator.             *)
(***************************************************************************)
EXTENDS EventIndexer

CONSTANTS
  Wallets,
  Mag7,         (* the tickers of the index                                *)
  EtOffset      (* half hours from Eastern to universal time               *)

UsdcBid == 0
YesAsk  == 1
NoBid   == 2
Sides == {UsdcBid, YesAsk, NoBid}

(* A fill as the program reports it: Yes tokens are sold by one of the two *)
(* sides and bought, or merged with No tokens, by the other.               *)
FillEvent(e) ==
  /\ e.market \in Markets /\ {e.maker, e.taker} \subseteq Wallets
  /\ {e.makerSide, e.takerSide} \subseteq Sides
  /\ e.makerSide = YesAsk <=> e.takerSide # YesAsk
  /\ e.price \in 1 .. 99 /\ e.quantity \in Nat /\ e.timestamp \in Nat

ASSUME QueryAssumption ==
  /\ IsFiniteSet(Wallets) /\ IsFiniteSet(Mag7)
  /\ EtOffset \in Int
  /\ \A tx \in Txs : \A k \in DOMAIN EventsOf[tx] :
       EventsOf[tx][k].type = "fill" => FillEvent(EventsOf[tx][k])

FillRows(rows) == {r \in rows : r.event.type = "fill"}
SettlementRows(rows) == {r \in rows : r.event.type = "settlement"}

IsTaker(r, w) == r.event.taker = w
IsMaker(r, w) == r.event.maker = w

SumOver(S, amount(_)) == SumFunction([x \in S |-> amount(x)])
Quantity(rows) == SumOver(rows, LAMBDA r : r.event.quantity)
Cost(rows) == SumOver(rows, LAMBDA r : r.event.quantity * r.event.price)
MarketsOf(rows) == {r.event.market : r \in rows}

-----------------------------------------------------------------------------
(* mapper.ts                                                               *)

(* *Slip*: only the taker's side is looked at.                             *)
AcquiredByTaker(r, w) ==
  CASE IsTaker(r, w) /\ r.event.takerSide = UsdcBid -> "yes"
    [] IsTaker(r, w) /\ r.event.takerSide = NoBid   -> "no"
    [] OTHER -> "none"

(* What a fill gave the wallet, as the taker if it took it: the code reads *)
(* side 2 as a purchase of No tokens.                                      *)
AcquiredSide(r, w) ==
  CASE IsTaker(r, w) /\ r.event.takerSide = UsdcBid -> "yes"
    [] IsTaker(r, w) /\ r.event.takerSide = NoBid   -> "no"
    [] IsMaker(r, w) /\ r.event.makerSide = UsdcBid -> "yes"
    [] IsMaker(r, w) /\ r.event.makerSide = NoBid   -> "no"
    [] OTHER -> "none"

Totals(m, side, g) ==
  [market |-> m, side |-> side, totalQuantity |-> Quantity(g), totalCost |-> Cost(g),
   fillCount |-> Cardinality(g)]

CostBasis(rows, w) ==
  LET acquired == {r \in FillRows(rows) : AcquiredSide(r, w) # "none"} IN
  {Totals(p[1], p[2], {r \in acquired : <<r.event.market, AcquiredSide(r, w)>> = p}) :
     p \in {<<r.event.market, AcquiredSide(r, w)>> : r \in acquired}}

MarketVwaps(rows) ==
  {LET g == {r \in FillRows(rows) : r.event.market = m} IN
   [market |-> m, sum |-> Cost(g), totalVolume |-> Quantity(g), fillCount |-> Cardinality(g)] :
     m \in MarketsOf(FillRows(rows))}

FillsOf(rows, w) == {r \in FillRows(rows) : IsTaker(r, w) \/ IsMaker(r, w)}

DerivedIntent == (UsdcBid :> "buy_yes") @@ (YesAsk :> "sell_yes") @@ (NoBid :> "sell_no")

(* The label of a fill in the wallet's history: the stored intent of the   *)
(* resting order, if the wallet stored one, or what its own side says.     *)
ViewerIntent(r, intents, w) ==
  LET stored == {x \in intents : /\ x.order_id = r.event.makerOrderId
                                 /\ x.market = r.event.market
                                 /\ x.wallet = w}
  IN IF stored # {} THEN (CHOOSE x \in stored : TRUE).intent
     ELSE DerivedIntent[IF IsTaker(r, w) THEN r.event.takerSide ELSE r.event.makerSide]

(* ORDER BY timestamp; of one time, the rows later on the chain are taken  *)
(* to come first, where the code orders by row id or not at all.           *)
Newer(r, s) ==
  \/ r.event.timestamp > s.event.timestamp
  \/ /\ r.event.timestamp = s.event.timestamp
     /\ r.signature > s.signature \/ (r.signature = s.signature /\ r.place > s.place)

NewestRows(rows, limit) ==
  {r \in rows : Cardinality({s \in rows \ {r} : Newer(s, r)}) < limit}

FillsWithIntent(rows, intents, w, limit) ==
  {[row |-> r, viewerIntent |-> ViewerIntent(r, intents, w)] :
     r \in NewestRows(FillsOf(rows, w), limit)}

SideOf(r, w) == IF IsTaker(r, w) THEN r.event.takerSide ELSE r.event.makerSide

PortfolioSnapshot(rows, w) ==
  {Totals(p[1], p[2], {r \in FillsOf(rows, w) : <<r.event.market, SideOf(r, w)>> = p}) :
     p \in {<<r.event.market, SideOf(r, w)>> : r \in FillsOf(rows, w)}}

(* *Slip*: a resting order counts as a purchase whatever its side.         *)
SignedCostTaker(r, w) ==
  IF IsTaker(r, w) /\ r.event.takerSide = YesAsk
    THEN -(r.event.quantity * r.event.price)
    ELSE r.event.quantity * r.event.price

(* One row a day: volume, and cost with the sign of the wallet's side.     *)
SignedCost(r, w) ==
  IF \/ IsTaker(r, w) /\ r.event.takerSide = YesAsk
     \/ IsMaker(r, w) /\ r.event.makerSide = YesAsk
    THEN -(r.event.quantity * r.event.price)
    ELSE r.event.quantity * r.event.price

DayOf(t) == t \div 48

DaySummary(d, g, w) ==
  [date |-> d, totalVolume |-> Quantity(g), fillCount |-> Cardinality(g),
   netCostBasis |-> SumOver(g, LAMBDA r : SignedCost(r, w))]

PortfolioHistory(rows, w, days, now) ==
  LET recent == {r \in FillsOf(rows, w) : r.event.timestamp >= now - 48 * days} IN
  {DaySummary(d, {r \in recent : DayOf(r.event.timestamp) = d}, w) :
     d \in {DayOf(r.event.timestamp) : r \in recent}}

-----------------------------------------------------------------------------
(* queries.ts and api.ts                                                   *)

LongestPage == 500

(* One page of the rows that match, newest first; the handler refuses a    *)
(* longer one.                                                             *)
EventsPage(rows, market, type, limit, offset) ==
  LET matching == {r \in rows : /\ market = "any" \/ r.event.market = market
                                /\ type = "any" \/ r.event.type = type}
  IN IF limit \notin 0 .. LongestPage \/ offset < 0 THEN <<>>
     ELSE SubSeq(SetToSortSeq(matching, Newer), offset + 1,
                 IF offset + limit < Cardinality(matching) THEN offset + limit
                 ELSE Cardinality(matching))

-----------------------------------------------------------------------------
(* signals.ts                                                              *)

OpenTime  == 19            (* MARKET_OPEN_SECS: half past nine             *)
CloseTime == 32            (* MARKET_CLOSE_SECS: four                      *)
TradingWindow == CloseTime - OpenTime

(* The start of a day as the code computes it.                             *)
DayStart(t) == ((t + EtOffset) \div 48) * 48 - EtOffset

TodayOpen(now) == DayStart(now) + OpenTime

MarketsWith(t) == {m \in Markets : tickers[m] = t}

(* A ticker's average price: today's fills, or all fills, or 50.           *)
TickerIndex(rows, t, now) ==
  LET fills == {r \in FillRows(rows) : r.event.market \in MarketsWith(t)}
      today == {r \in fills : TodayOpen(now) <= r.event.timestamp /\ r.event.timestamp <= now}
      used  == IF Quantity(today) > 0 THEN today ELSE fills
  IN [ticker |-> t, sum |-> IF Quantity(used) > 0 THEN Cost(used) ELSE 0, volume |-> Quantity(used),
      fillCount |-> Cardinality(used)]

(* The index weighted by volume, as a fraction.                            *)
MeridianIndex(rows, now) ==
  LET entries == {TickerIndex(rows, t, now) : t \in Mag7}
      volume  == SumOver(entries, LAMBDA e : e.volume)
  IN IF volume > 0
       THEN [sum |-> SumOver(entries, LAMBDA e : e.sum), volume |-> volume]
       ELSE [sum |-> 50, volume |-> 1]

Clamp(x, low, high) == IF x < low THEN low ELSE IF x > high THEN high ELSE x
Distance(x, y) == IF x < y THEN y - x ELSE x - y

(* *Slip*: a fill before the opening weighs more than one at the opening.  *)
ConvictionUnbounded(r) ==
  (DayStart(r.event.timestamp) + CloseTime - r.event.timestamp)
    * (50 - Distance(r.event.price, 50))

(* How early and how far from certain a fill was, in parts of              *)
(* 50 * TradingWindow.                                                     *)
ConvictionRaw(r) ==
  LET close == DayStart(r.event.timestamp) + CloseTime
      early == Clamp(close - r.event.timestamp, 0, TradingWindow)
  IN early * (50 - Distance(r.event.price, 50))

Correct(takerSide, outcome) ==
  \/ outcome = 1 /\ takerSide = UsdcBid
  \/ outcome = 2 /\ takerSide \in {YesAsk, NoBid}

(* In parts of 100 * TradingWindow: a wrong fill costs half of what a      *)
(* right one earns.                                                        *)
ScoreFill(r, outcome) ==
  IF Correct(r.event.takerSide, outcome) THEN 2 * ConvictionRaw(r) ELSE -ConvictionRaw(r)

(* The settlement with the least row id, MIN(rowid): settle_market, which  *)
(* alone reports one, runs once in the life of a market, so there is only  *)
(* one to choose (Possible).                                               *)
FirstSettlement(rows, m) == CHOOSE s \in SettlementRows(rows) : s.event.market = m

(* Takers' fills in markets with a settlement and a known ticker.          *)
ScoredFills(rows, w) ==
  {r \in FillRows(rows) : /\ r.event.taker = w
                          /\ r.event.market \in MarketsOf(SettlementRows(rows))
                          /\ tickers[r.event.market] # NoTicker}

ScoreOf(rows, fills) ==
  LET term(r) == ScoreFill(r, FirstSettlement(rows, r.event.market).event.outcome) IN
  [sum |-> SumOver(fills, term), trades |-> Cardinality(fills),
   wins |-> Cardinality({r \in fills :
              Correct(r.event.takerSide, FirstSettlement(rows, r.event.market).event.outcome)})]

(* sum / sqrt(trades) is the score; the parts of a ticker are summed alike.*)
ConvictionScore(rows, w) == ScoreOf(rows, ScoredFills(rows, w))

ScoreByTicker(rows, w) ==
  [t \in {tickers[r.event.market] : r \in ScoredFills(rows, w)} |->
     ScoreOf(rows, {r \in ScoredFills(rows, w) : tickers[r.event.market] = t})]

Sign(x) == IF x < 0 THEN -1 ELSE 1

(* a.sum / sqrt(a.trades) > b.sum / sqrt(b.trades), without roots.         *)
Better(a, b) ==
  Sign(a.sum) * a.sum * a.sum * b.trades > Sign(b.sum) * b.sum * b.sum * a.trades

ConvictionLeaders(rows, limit) ==
  LET ranked == {w \in Wallets : ConvictionScore(rows, w).trades >= 3}
  IN {w \in ranked :
        Cardinality({v \in ranked :
          Better(ConvictionScore(rows, v), ConvictionScore(rows, w))}) < limit}

(* Today's fills of markets without a settlement, by ticker and direction. *)
SmartMoney(rows, now) ==
  LET open  == {m \in Markets : tickers[m] # NoTicker /\ m \notin MarketsOf(SettlementRows(rows))}
      today == {r \in FillRows(rows) : /\ r.event.market \in open
                                       /\ TodayOpen(now) <= r.event.timestamp
                                       /\ r.event.timestamp <= now}
      direction(r) == IF r.event.takerSide = UsdcBid THEN "yes" ELSE "no"
  IN {LET g == {r \in today : tickers[r.event.market] = k[1] /\ direction(r) = k[2]} IN
      [ticker |-> k[1], direction |-> k[2], strength |-> SumOver(g, ConvictionRaw),
       fillCount |-> Cardinality(g)] :
        k \in {<<tickers[r.event.market], direction(r)>> : r \in today}}

-----------------------------------------------------------------------------
(* The index snapshots the service takes while it runs, of the last period.*)
IndexSnapshots(snapshots, period, now) ==
  {s \in snapshots : now - s.timestamp <= period}

IndexHistory(snapshots, period, days, now) ==
  IndexSnapshots(snapshots, IF period = "daily" THEN 48 * Clamp(days, 1, 90) ELSE 48, now)

(* The row an order's owner stores about it, one per order and wallet.     *)
Intents == {"buy_yes", "sell_yes", "buy_no", "sell_no"}

StoreIntent(intents, i) ==
  IF i.intent \in Intents /\ i.display_price \in 1 .. 99
    THEN {x \in intents : ~(x.order_id = i.order_id /\ x.market = i.market /\ x.wallet = i.wallet)}
         \cup {i}
    ELSE intents

(* The GET routes; a malformed parameter is an error, not an answer.  A    *)
(* request that names no limit has one of 50 rows, or 20 leaders.          *)
Refused == [error |-> 400]

Answer(q, intents, snapshots, now) ==
  CASE q.path = "portfolio/snapshot"   -> PortfolioSnapshot(table, q.wallet)
    [] q.path = "portfolio/history"    -> IF q.days \in 1 .. 365
                                            THEN PortfolioHistory(table, q.wallet, q.days, now)
                                            ELSE Refused
    [] q.path = "events/fills"         -> IF q.limit \in 1 .. LongestPage
                                            THEN FillsWithIntent(table, intents, q.wallet, q.limit)
                                            ELSE Refused
    [] q.path = "events/cost-basis"    -> CostBasis(table, q.wallet)
    [] q.path = "events/market-vwaps"  -> MarketVwaps(table)
    [] q.path = "events"               -> EventsPage(table, q.market, q.type, q.limit, q.offset)
    [] q.path = "index/current"        -> MeridianIndex(table, now)
    [] q.path = "index/history"        -> IndexHistory(snapshots, q.period, q.days, now)
    [] q.path = "conviction/leaders"   -> ConvictionLeaders(table, Clamp(q.limit, 1, 100))
    [] q.path = "conviction"           -> ConvictionScore(table, q.wallet)
    [] q.path = "signals/smart-money"  -> SmartMoney(table, now)

-----------------------------------------------------------------------------
Ask(path, w) ==
  Answer([path |-> path, wallet |-> w, days |-> 30, limit |-> LongestPage], {}, {}, 100)

TotalVolume == SumOver(Ask("events/market-vwaps", "none"), LAMBDA v : v.totalVolume)

NoSelfTrade == \A r \in FillRows(table) : r.event.maker # r.event.taker

(* Whatever part of the chain is indexed, what the wallets paid and what   *)
(* they received adds up to nothing over all wallets: every fill is a      *)
(* purchase for one side and a sale for the other, in the history of both. *)
NetCostIsZeroSum ==
  LET net(w) == SumOver(Ask("portfolio/history", w), LAMBDA d : d.netCostBasis) IN
  NoSelfTrade => SumOver(Wallets, net) = 0

(* The pages of the portfolio agree: the positions count every fill for    *)
(* both of its sides, the history and the positions count the same fills,  *)
(* the list of fills has every one of them as long as they fit on the      *)
(* longest page, and the cost basis is the positions without the sales of  *)
(* Yes tokens.                                                             *)
PortfolioAgrees ==
  NoSelfTrade =>
    /\ SumOver(Wallets, LAMBDA w : SumOver(Ask("portfolio/snapshot", w), LAMBDA p : p.totalQuantity))
         = 2 * TotalVolume
    /\ \A w \in Wallets :
         LET positions == Ask("portfolio/snapshot", w)
             fills     == Ask("events/fills", w)
             history   == Ask("portfolio/history", w)
             count(p)  == p.fillCount
         IN /\ SumOver(positions, count) = SumOver(history, count)
            /\ SumOver(history, count) <= LongestPage =>
                 SumOver(history, count) = Cardinality(fills)
            /\ {<<b.market, b.side, b.totalQuantity, b.totalCost>> : b \in Ask("events/cost-basis", w)}
               = {<<p.market, IF p.side = UsdcBid THEN "yes" ELSE "no", p.totalQuantity, p.totalCost>> :
                    p \in {x \in positions : x.side # YesAsk}}

(* The index is a price whatever the database holds, the conviction behind *)
(* a direction is made of fills that count as one at most, and the scores  *)
(* of a wallet's tickers add up to its score.                              *)
SignalsInRange ==
  \A now \in {84, 120} :
    /\ LET x == MeridianIndex(table, now) IN x.volume <= x.sum /\ x.sum <= 99 * x.volume
    /\ \A s \in SmartMoney(table, now) :
         s.strength \in 0 .. s.fillCount * 50 * TradingWindow
    /\ \A w \in Wallets :
         LET all == ConvictionScore(table, w)
             parts == ScoreByTicker(table, w)
         IN /\ all.sum = SumOver(DOMAIN parts, LAMBDA t : parts[t].sum)
            /\ all.wins <= all.trades
            /\ all.wins = 0 => all.sum <= 0

(* Two queries never tell different stories of one table.                  *)
QueriesAgree == PortfolioAgrees /\ SignalsInRange
=============================================================================
