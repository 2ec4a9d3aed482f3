---------------------------- MODULE StressSeason ----------------------------
(***************************************************************************)
(* The stress test around the days of act 3: it sets up what the validator *)
(* does not have yet, creates markets every morning, lets agents create    *)
(* more of them, settles and closes all it knows of after the close, and   *)
(* verifies.  What happens on a market in between is module StressDay.     *)
(*                                                                         *)
(* Strikes and prices are in units of ten dollars, to which strikes are    *)
(* rounded, times in minutes.                                              *)
(***************************************************************************)
EXTENDS Integers, Sequences, FiniteSets, SequencesExt

CONSTANTS
  SimTickers,       (* config.tickers, a sequence                          *)
  ConfigSlots,      (* how many tickers the config has room for: 7         *)
  NumAgents,        (* config.numAgents                                    *)
  SimPrices,        (* what a share may cost during the test               *)
  DayOffset,        (* strikes of one day lie that far above the day before*)
  Spread,           (* how far a strike creator goes from the price: 10%   *)
  SimDays,          (* config.numDays                                      *)
  CloseOffset,      (* config.marketCloseOffsetSec: 4 minutes              *)
  TradingMinutes,   (* config.tradingWindowSec: 3 minutes                  *)
  LongestWait,      (* what the driver is ready to wait for a close: 10    *)
  MaxStrikes,       (* bound: strikes the agents try per day               *)
  MaxLost           (* bound: transactions that fail or whose answer does  *)

ASSUME SeasonAssumption ==
  /\ SimTickers # <<>> /\ IsInjective(SimTickers)
  /\ SimPrices \subseteq Nat \ {0}
  /\ {ConfigSlots, NumAgents, DayOffset, Spread, SimDays, CloseOffset, TradingMinutes,
      LongestWait, MaxStrikes, MaxLost} \subseteq Nat

VARIABLES
  season,     (* where the driver is, its clock, prices and verdict        *)
  platform,   (* the accounts it set up, and the markets of the program    *)
  known       (* ctx.markets                                               *)

seasonVars == <<season, platform, known>>

Listed == ToSet(SimTickers)
InConfig == {SimTickers[i] : i \in 1 .. (IF ConfigSlots < Len(SimTickers) THEN ConfigSlots
                                          ELSE Len(SimTickers))}

(* distributeAgentTypes: a fifth, two fifths, a quarter and the rest, but  *)
(* at least two, two, two and one, cut off or filled up at the end.        *)
Rounded(n, tenths) == (n * tenths + 5) \div 10
AtLeast(n, least) == IF n < least THEN least ELSE n
Times(n, kind) == [i \in 1 .. n |-> kind]

AgentTypes(n) ==
  LET makers == AtLeast(Rounded(n, 2), 2)
      directionals == AtLeast(Rounded(n, 4), 2)
      scalpers == AtLeast((n + 2) \div 4, 2)
      creators == AtLeast(n - makers - directionals - scalpers, 1)
      kinds == Times(makers, "market-maker") \o Times(directionals, "directional")
               \o Times(scalpers, "scalper") \o Times(creators, "strike-creator")
  IN  [i \in 1 .. n |-> IF i <= Len(kinds) THEN kinds[i] ELSE "directional"]

SomeoneCreates == "strike-creator" \in ToSet(AgentTypes(NumAgents))

(* A new validator, or the stack the bootstrap scripts brought up.         *)
Bare == [mint |-> FALSE, config |-> {}, registry |-> FALSE, tickers |-> {}, feeds |-> {},
         market |-> <<>>, spent |-> {}]
Bootstrapped == [Bare EXCEPT !.mint = TRUE, !.config = InConfig, !.registry = TRUE,
                             !.tickers = InConfig, !.feeds = InConfig]

SeasonInit(pc) ==
  /\ season \in [pc : {pc}, day : {0}, at : {1}, clock : {0}, close : {0}, tried : {0},
                 lost : {0}, opened : {{}}, pending : {{}}, failed : {FALSE}]
  /\ platform \in IF pc = "off" THEN {Bare} ELSE {Bare, Bootstrapped}
  /\ known = {}

MayLose == season.lost < MaxLost
Goes(pc) == [season EXCEPT !.pc = pc, !.at = 1]

-----------------------------------------------------------------------------
(* setupTestEnvironment.  What fails in it ends the test; it is run again. *)

Ensures(done, p, next) ==
  /\ UNCHANGED known
  /\ IF done
     THEN season' = Goes(next) /\ UNCHANGED platform
     ELSE \/ season' = Goes(next) /\ platform' = p
          \/ /\ MayLose
             /\ season' = [Goes("mint") EXCEPT !.lost = @ + 1]
             /\ platform' \in {platform, p}

SetUpMint ==
  season.pc = "mint" /\ Ensures(platform.mint, [platform EXCEPT !.mint = TRUE], "config")

SetUpConfig ==
  /\ season.pc = "config"
  /\ Ensures(platform.config # {}, [platform EXCEPT !.config = InConfig], "registry")

(* initialize_ticker_registry copies the tickers of the config.            *)
SetUpRegistry ==
  /\ season.pc = "registry"
  /\ Ensures(platform.registry,
             [platform EXCEPT !.registry = TRUE, !.tickers = platform.config],
             IF platform.registry THEN "feeds" ELSE "tickers")

(* The tickers are only added to a registry the test has made itself; any  *)
(* error is taken to say that the ticker is there.                         *)
AddTickers ==
  /\ season.pc = "tickers"
  /\ UNCHANGED known
  /\ \/ platform' = [platform EXCEPT !.tickers = Listed] /\ season' = Goes("feeds")
     \/ /\ MayLose
        /\ \E t \in Listed \ platform.tickers :
             platform' = [platform EXCEPT !.tickers = Listed \ {t}]
        /\ season' = [Goes("feeds") EXCEPT !.lost = @ + 1]

SetUpFeeds ==
  /\ season.pc = "feeds"
  /\ Ensures(Listed \subseteq platform.feeds, [platform EXCEPT !.feeds = Listed], "agents")

FundAgents ==
  season.pc = "agents" /\ Ensures(FALSE, platform, "day")

SetUp ==
  \/ SetUpMint \/ SetUpConfig \/ SetUpRegistry \/ AddTickers \/ SetUpFeeds \/ FundAgents

-----------------------------------------------------------------------------
(* Markets.                                                                *)

(* The address of a market: all days of the test fall on one expiry day.   *)
Address(ticker, strike) == <<ticker, strike>>

(* create_strike_market.  The mints of a closed market stay behind, so that*)
(* there is never a second market at its address.                          *)
Creatable(ticker, strike, tickers) ==
  /\ ticker \in tickers
  /\ ticker \in platform.feeds
  /\ Address(ticker, strike) \notin platform.spent
  /\ season.close > season.clock

WithMarket(address) ==
  [platform EXCEPT !.market = [a \in DOMAIN @ \cup {address} |->
                                 IF a = address THEN [settled |-> FALSE] ELSE @[a]],
                   !.spent = @ \cup {address}]

Context(address) == [address |-> address, day |-> season.day, close |-> season.close]
DayMarkets == {m \in known : m.day = season.day}
OnChain(m) == m.address \in DOMAIN platform.market

(* A day begins: its markets close one offset later than those of the day  *)
(* before would.                                                           *)
StartDay ==
  /\ season.pc = "day"
  /\ season' = [Goes("create") EXCEPT !.close = season.clock + (season.day + 1) * CloseOffset,
                                      !.tried = 0, !.opened = {}]
  /\ UNCHANGED <<platform, known>>

(* Slip: the strikes of all days are near the price.                       *)
StrikeAtPrice(price) == price

(* At the money, and a thousand dollars higher every day, lest two days    *)
(* have a market at one address.                                           *)
DayStrike(price) == price + season.day * DayOffset

(* createDayMarkets: one ticker after the other; who fails is left out.  No*)
(* registry is named, so the ticker has to be one of the config's.  A table*)
(* that cannot be made is only reported.  The simulated price may have     *)
(* become any price by then.                                               *)
CreateDayMarket(price) ==
  LET ticker == SimTickers[season.at]
      address == Address(ticker, DayStrike(price))
      next == IF season.at = Len(SimTickers) THEN Goes("trade") ELSE [season EXCEPT !.at = @ + 1]
  IN  /\ season.pc = "create"
      /\ IF Creatable(ticker, DayStrike(price), platform.config)
         THEN \/ /\ platform' = WithMarket(address)
                 /\ known' = known \cup {Context(address)}
                 /\ season' = [next EXCEPT !.opened = @ \cup {ticker}]
              \/ /\ MayLose
                 /\ platform' \in {platform, WithMarket(address)}
                 /\ season' = [next EXCEPT !.lost = @ + 1]
                 /\ UNCHANGED known
         ELSE season' = next /\ UNCHANGED <<platform, known>>

-----------------------------------------------------------------------------
(* Trading.                                                                *)

(* A strike creator's turn: a strike near the price, without an offset,    *)
(* unless there is such a market.  It names the registry.                  *)
CreatorCreates(price) ==
  /\ season.pc = "trade"
  /\ SomeoneCreates
  /\ season.tried < MaxStrikes
  /\ season.opened # {}
  /\ UNCHANGED known
  /\ \E ticker \in Listed :
     \E strike \in price - Spread .. price + Spread :
       LET address == Address(ticker, strike)
           turn == [season EXCEPT !.tried = @ + 1]
       IN  /\ address \notin DOMAIN platform.market
           /\ IF Creatable(ticker, strike, platform.tickers)
              THEN \/ /\ platform' = WithMarket(address)
                      /\ season' = [turn EXCEPT !.pc = "extend", !.pending = {address}]
                   \/ /\ MayLose
                      /\ platform' \in {platform, WithMarket(address)}
                      /\ season' = [turn EXCEPT !.lost = @ + 1]
              ELSE season' = turn /\ UNCHANGED platform

(* It then makes a lookup table, and only after that tells the driver of   *)
(* the market: a failure in between leaves a market nobody knows of.       *)
CreatorExtends ==
  /\ season.pc = "extend"
  /\ UNCHANGED platform
  /\ \/ /\ known' = known \cup {Context(a) : a \in season.pending}
        /\ season' = [season EXCEPT !.pc = "trade", !.pending = {}]
     \/ /\ MayLose
        /\ season' = [season EXCEPT !.pc = "trade", !.pending = {}, !.lost = @ + 1]
        /\ UNCHANGED known

EndOfWindow ==
  /\ season.pc = "trade"
  /\ season' = [Goes("wait") EXCEPT !.clock = @ + TradingMinutes]
  /\ UNCHANGED <<platform, known>>

-----------------------------------------------------------------------------
(* After the close.                                                        *)

(* A wait of ten minutes or more is not waited at all.                     *)
WaitForClose ==
  /\ season.pc = "wait"
  /\ season' = [Goes("settle") EXCEPT !.clock =
                  IF season.close - @ \in 1 .. LongestWait - 1 THEN season.close ELSE @]
  /\ UNCHANGED <<platform, known>>

(* settleDay: one market after the other, a failure is noted.              *)
SettleDayMarkets ==
  /\ season.pc = "settle"
  /\ UNCHANGED known
  /\ \E missed \in SUBSET DayMarkets :
       /\ Cardinality(missed) <= MaxLost - season.lost
       /\ season' = [Goes("close") EXCEPT !.lost = @ + Cardinality(missed)]
       /\ platform' = [platform EXCEPT !.market = [a \in DOMAIN @ |->
            [settled |-> @[a].settled \/ (/\ season.clock >= season.close
                                          /\ \E m \in DayMarkets \ missed : m.address = a)]]]

(* closeDay: a market on which tokens are left is not closed.              *)
CloseDayMarkets ==
  /\ season.pc = "close"
  /\ \E closed \in SUBSET {m.address : m \in {n \in DayMarkets : platform.market[n.address].settled}} :
       platform' = [platform EXCEPT !.market = [a \in DOMAIN @ \ closed |-> @[a]]]
  /\ season' = Goes("verify")
  /\ UNCHANGED known

(* verifyDayEnd, of what the driver knows of: settled, or gone.            *)
DayIsVerified == \A m \in DayMarkets : OnChain(m) => platform.market[m.address].settled

VerifyDay ==
  /\ season.pc = "verify"
  /\ season' = [Goes(IF season.day + 1 < SimDays THEN "day" ELSE "across")
                  EXCEPT !.day = @ + 1, !.failed = @ \/ ~DayIsVerified]
  /\ UNCHANGED <<platform, known>>

(* verifyCrossDay: the days do not share a close.  What it finds is listed,*)
(* but does not fail the act.                                              *)
DaysApart ==
  \A m, n \in known : m.day # n.day => m.close # n.close

VerifyAcross ==
  /\ season.pc = "across"
  /\ season' = Goes("over")
  /\ UNCHANGED <<platform, known>>

SeasonMoves ==
  \/ SetUp \/ StartDay
  \/ \E price \in SimPrices : CreateDayMarket(price) \/ CreatorCreates(price)
  \/ CreatorExtends \/ EndOfWindow \/ WaitForClose \/ SettleDayMarkets \/ CloseDayMarkets \/ VerifyDay
  \/ VerifyAcross

-----------------------------------------------------------------------------
(* What the driver relies on, though nothing checks it: every ticker of the*)
(* config has a market of its own each day, whatever the agents created    *)
(* the days before; no two of the contexts are one market, which would be  *)
(* cranked twice; the days' closes are apart; and a market that is left    *)
(* unsettled, known or not, is left by a transaction that failed.          *)
LeftBehind == {a \in DOMAIN platform.market : ~platform.market[a].settled}

SeasonPasses ==
  /\ season.pc = "trade" /\ season.lost = 0 => InConfig \subseteq season.opened
  /\ \A m, n \in known : m.address = n.address => m = n
  /\ DaysApart
  /\ season.pc = "over" =>
       /\ Cardinality(LeftBehind) <= season.lost
       /\ season.lost = 0 => ~season.failed
=============================================================================
