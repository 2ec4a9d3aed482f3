------------------------------- MODULE DayChain -------------------------------
(***************************************************************************)
(* What the services of a trading day share: the program's accounts as far *)
(* as the services read and write them, the exchange and the data provider.*)
(* A market is named by its ticker and its close; one strike stands for    *)
(* all strikes of a ticker.  The instructions are those of module Market,  *)
(* seen from outside: what they require and what they leave.               *)
(***************************************************************************)
EXTENDS TradingCalendar, FiniteSets

CONSTANTS
  Tickers,     (* the tickers of GlobalConfig                              *)
  Prices,      (* what a share may cost, at least 1                        *)
  Instants,    (* the minutes at which something may happen                *)
  Deployed,    (* bound: instants at which a new version may be started     *)
  Leaving,     (* bound: markets whose holders, or an operator, act        *)
  Faults,      (* which of AllFaults happen                                *)
  MaxFaults    (* bound: how many                                          *)

AllFaults == {"rpc", "quote", "outage", "crash", "override"}

ASSUME DayAssumption ==
  /\ Tickers # {}
  /\ IsFiniteSet(Prices) /\ Prices # {} /\ Prices \subseteq Nat \ {0}
  /\ IsFiniteSet(Instants) /\ Instants # {} /\ Instants \subseteq Nat
  /\ Faults \subseteq AllFaults
  /\ MaxFaults \in Nat

VARIABLES
  now,       (* the clock of the chain, and of the services                *)
  market,    (* the StrikeMarket accounts                                  *)
  feed,      (* the price of each feed, 0 when it is stale                 *)
  paused,    (* GlobalConfig.is_paused                                     *)
  closing,   (* the last price of each share at the last close             *)
  outage,    (* the data provider does not answer                          *)
  faults     (* faults so far                                              *)

accounts == <<market, feed, paused>>
world == <<now, closing, outage, faults>>
chainVars == <<accounts, world>>

Days == Min({ETDay(t) : t \in Instants}) - 1 .. Max({ETDay(t) : t \in Instants}) + 7
Closes == {ComputeCloseForDate(day, date) : day \in Days, date \in Days}
Names == [ticker : Tickers, close : Closes]

(* What the services compute from the clock, at each instant.              *)
PlannedClose == [t \in Instants |-> ComputeMarketClose(t)]
NextTime == [t \in Instants |-> [health   |-> GetNextETTime(t, 8, 30),
                                 settle   |-> GetNextETTime(t, 16, 5),
                                 midnight |-> GetNextETTime(t, 0, 1)]]

(* A new market, which is then traded: orders rest on its book, winning    *)
(* tokens will be delegated to it, others only their holders can burn.     *)
NewMarket == [settled |-> FALSE, price |-> 0, window |-> FALSE, alt |-> FALSE,
              resting |-> TRUE, delegated |-> TRUE, others |-> TRUE]

Exists(m) == m \in DOMAIN market
Unsettled == {m \in DOMAIN market : ~market[m].settled}
Settled == DOMAIN market \ Unsettled
Expired == {m \in Unsettled : m.close <= now}

ChainInit(first) ==
  /\ now = Min(Instants)
  /\ market = [m \in first |-> [NewMarket EXCEPT !.alt = TRUE]]
  /\ feed = [t \in Tickers |-> 0]
  /\ paused = FALSE
  /\ closing = [t \in Tickers |-> Min(Prices)]
  /\ outage = FALSE
  /\ faults = 0

Fault(kind) == kind \in Faults /\ faults < MaxFaults /\ faults' = faults + 1

-----------------------------------------------------------------------------
(* The exchange and the data provider.                                     *)
NextInstant == Min({t \in Instants : t > now})
Gap == IF now = Max(Instants) THEN DayLength ELSE NextInstant - now
SessionEnds(from, to) == SessionOpen(from) /\ ~SessionOpen(to)

(* Time passes: feeds go stale, override windows end (of a second, unless  *)
(* it is configured), a session may end at some price.                     *)
Tick(price) ==
  /\ now # Max(Instants)
  /\ now' = NextInstant
  /\ feed' = [t \in Tickers |-> 0]
  /\ closing' = IF SessionEnds(now, NextInstant) THEN price ELSE closing
  /\ outage' = FALSE
  /\ market' = [m \in DOMAIN market |-> [market[m] EXCEPT !.window = FALSE]]
  /\ UNCHANGED <<paused, faults>>

(* getMarketClock never throws: without an answer the market is closed.    *)
MarketClock == IF outage THEN "shut" ELSE MarketState(now)

(* What one quote may say: the price moves while the exchange is open.  A  *)
(* share without a last price is reported with a previous close instead.   *)
Quoted(t) == IF SessionOpen(now) THEN Prices ELSE {closing[t]}

(* The provider stops to answer until the next instant.                    *)
Outage ==
  /\ ~outage
  /\ now # Max(Instants)
  /\ Fault("outage")
  /\ outage' = TRUE
  /\ UNCHANGED <<accounts, now, closing>>

-----------------------------------------------------------------------------
(* The instructions.                                                       *)
CreateStrikeMarket(m) ==
  market' = [n \in DOMAIN market \cup {m} |-> IF n = m THEN NewMarket ELSE market[n]]
CanCreate(m) == ~Exists(m) /\ m.close > now
CanSetAlt(m) == Exists(m) /\ ~market[m].alt

SettledAs(m, price) ==
  [market[m] EXCEPT !.settled = TRUE, !.price = price, !.window = TRUE]
SettleMarketOK(m) == m \in Expired /\ feed[m.ticker] # 0

CanClose(m) ==
  /\ m \in Settled
  /\ ~market[m].window
  /\ ~market[m].resting /\ ~market[m].delegated /\ ~market[m].others

(* Holders cancel their orders and burn what the cranks cannot.            *)
HoldersLeave(m) ==
  /\ m \in Settled
  /\ m \in Leaving
  /\ market[m].resting \/ market[m].others
  /\ market' = [market EXCEPT ![m].resting = FALSE, ![m].others = FALSE]
  /\ UNCHANGED <<feed, paused, world>>

(* The script crank-settled: an operator has the books of today's markets  *)
(* cranked.  It asks for the expiry day of the New York date and cranks    *)
(* what is settled; 32 orders of a book, which is more than rest here.     *)
TodaysMarkets == {m \in DOMAIN market : m.close \div DayLength = ETDay(now)}
CrankSettled ==
  /\ \E m \in TodaysMarkets \cap Settled \cap Leaving : market[m].resting
  /\ market' = [m \in DOMAIN market |->
                  [market[m] EXCEPT !.resting = @ /\ m \notin TodaysMarkets \cap Settled]]
  /\ UNCHANGED <<feed, paused, world>>

-----------------------------------------------------------------------------
ChainTypeOK ==
  /\ now \in Instants
  /\ DOMAIN market \subseteq Names
  /\ \A m \in DOMAIN market : market[m] \in
       [settled : BOOLEAN, price : Prices \cup {0}, window : BOOLEAN, alt : BOOLEAN,
        resting : BOOLEAN, delegated : BOOLEAN, others : BOOLEAN]
  /\ feed \in [Tickers -> Prices \cup {0}]
  /\ paused \in BOOLEAN
  /\ closing \in [Tickers -> Prices]
  /\ outage \in BOOLEAN
  /\ faults \in 0 .. MaxFaults
=============================================================================
