--------------------------- MODULE StackBootstrap ---------------------------
(***************************************************************************)
(* Bringing the platform up: the scripts an operator runs one after the    *)
(* other, for one market.  Each looks at what is there and skips what is   *)
(* done; a script that fails or is interrupted is run again, from the first*)
(* one, as deploy-devnet.sh does.  A transaction on which a script fails   *)
(* may have landed all the same.                                           *)
(***************************************************************************)
EXTENDS ConfigDesk

CONSTANTS
  Tester,           (* the wallet of validate-stack's trade test           *)
  SeedQtys,         (* quantity per level: 100%, 75%, 50% of QUOTE_QTY     *)
  SeedBid, SeedAsk, (* computeQuote's prices, in cents                     *)
  TestBid,          (* the trade test's price and quantity                 *)
  TestQty,
  MaxInterruptions  (* scripts that fail or are interrupted                *)

ASSUME BootstrapAssumption ==
  /\ Tester \in Users \ {Operator}
  /\ SeedQtys \in Seq(Nat \ {0}) /\ SeedQtys # <<>>
  /\ {SeedBid, SeedAsk, TestBid} \subseteq Prices
  /\ TestQty \in Nat /\ MaxInterruptions \in Nat

VARIABLE stack  (* the scripts' progress, .env and the platform's accounts *)

(* USDC mints are numbered as they are created; 0 is none.                 *)
BootstrapInit(pc) ==
  stack = [pc |-> pc, level |-> 1, interruptions |-> 0, mints |-> 0, env |-> 0, config |-> 0,
           registry |-> FALSE, feeds |-> FALSE, market |-> FALSE, alt |-> FALSE, lacking |-> {}]

Levels == Len(SeedQtys)
MayFail == stack.interruptions < MaxInterruptions
GoOn(s, pc) == stack' = [s EXCEPT !.pc = pc, !.level = 1]
GiveUpAt(s, pc) == stack' = [s EXCEPT !.pc = pc, !.level = 1, !.interruptions = @ + 1,
                                      !.lacking = {}]

(* A transaction that makes s of the stack, or on which the script fails.  *)
Sends(s, next, onFailure) ==
  /\ Nothing
  /\ \/ GoOn(s, next)
     \/ MayFail /\ \E t \in {stack, s} : GiveUpAt(t, onFailure)

Skips(next) == GoOn(stack, next) /\ Nothing

-----------------------------------------------------------------------------
(* The accounts of the platform.                                           *)

MintKnown == stack.env # 0

(* create-mock-usdc; the mint is known once it is written to .env.         *)
CreateMockUsdc ==
  /\ stack.pc = "usdc"
  /\ IF MintKnown
     THEN Skips("config")
     ELSE Sends([stack EXCEPT !.mints = @ + 1], "env", "usdc")

WriteEnv ==
  /\ stack.pc = "env"
  /\ Sends([stack EXCEPT !.env = stack.mints], "config", "usdc")

InitConfig ==
  /\ stack.pc = "config"
  /\ IF stack.config # 0
     THEN Skips("registry")
     ELSE Sends([stack EXCEPT !.config = stack.env], "registry", "usdc")

InitTickerRegistry ==
  /\ stack.pc = "registry"
  /\ IF stack.registry
     THEN Skips("feeds")
     ELSE Sends([stack EXCEPT !.registry = TRUE], "feeds", "usdc")

InitOracleFeeds ==
  /\ stack.pc = "feeds"
  /\ IF stack.feeds
     THEN Skips("market")
     ELSE Sends([stack EXCEPT !.feeds = TRUE], "market", "usdc")

-----------------------------------------------------------------------------
(* create-test-markets.  A failure is caught and reported, the market is   *)
(* left as it is, and the script ends as if all had gone well.             *)

(* Every account of the platform names the mint the config was made with.  *)
MintAccepted == stack.env = stack.config

(* First pass: a market that is there is not created again, nor does it get*)
(* a lookup table.                                                         *)
CreateMarket ==
  /\ stack.pc = "market"
  /\ IF stack.market THEN Skips("book")
     ELSE IF ~MintAccepted \/ ~stack.registry THEN Skips("check")
     ELSE Sends([stack EXCEPT !.market = TRUE], "alt", "check")

CreateAndSetAlt ==
  /\ stack.pc = "alt"
  /\ Sends([stack EXCEPT !.alt = TRUE], "book", "check")

(* A book that has ever given out an order id counts as seeded.            *)
NeedsSeed ==
  /\ stack.pc = "book"
  /\ Skips(IF book.nextId = 0 THEN "bids" ELSE "check")

(* place_order as the scripts build it: a limit order that takes no fills. *)
SeedOrder(side, price, qty) ==
  [side |-> side, price |-> price, qty |-> qty, isLimit |-> TRUE, maxFills |-> 0,
   accounts |-> <<>>]

SeedRuns(order) == MintAccepted /\ ENABLED PlaceNaming(Operator, order)

(* One level after the other; the first failure ends the pass.             *)
PostLevel(order, next) ==
  \/ /\ SeedRuns(order)
     /\ PlaceNaming(Operator, order)
     /\ \/ stack' = IF stack.level < Levels THEN [stack EXCEPT !.level = @ + 1]
                    ELSE [stack EXCEPT !.pc = next, !.level = 1]
        \/ MayFail /\ GiveUpAt(stack, next)
  \/ /\ Nothing
     /\ IF SeedRuns(order) THEN MayFail /\ GiveUpAt(stack, next) ELSE GoOn(stack, next)

(* Second pass: USDC bids below the fair price.                            *)
PostBids ==
  LET price == IF SeedBid > stack.level THEN SeedBid - stack.level + 1 ELSE 1
  IN  /\ stack.pc = "bids"
      /\ PostLevel(SeedOrder(UsdcBid, price, SeedQtys[stack.level]), "mint")

(* Third pass: pairs for all the asks, then the asks above the fair price. *)
AskTokens == Levels * SeedQtys[1]

MintForAsks ==
  /\ stack.pc = "mint"
  /\ IF MintAccepted /\ ENABLED MintPair(Operator, AskTokens)
     THEN \/ /\ MintPair(Operator, AskTokens)
             /\ \/ GoOn(stack, "asks")
                \/ MayFail /\ GiveUpAt(stack, "check")
          \/ Nothing /\ MayFail /\ GiveUpAt(stack, "check")
     ELSE Skips("check")

PostAsks ==
  LET price == IF SeedAsk + stack.level <= Dollar THEN SeedAsk + stack.level - 1 ELSE Dollar - 1
  IN  /\ stack.pc = "asks"
      /\ PostLevel(SeedOrder(YesAsk, price, SeedQtys[stack.level]), "check")

(* Slip: pairs are minted whatever the wallet holds.                       *)
SeedAsksMintsAgain == stack.pc = "seed" /\ Skips("mint")

(* seed-asks: what an earlier run minted is used, otherwise pairs are      *)
(* minted; the asks go to the same prices.                                 *)
SeedAsks ==
  /\ stack.pc = "seed"
  /\ Skips(IF yes[Operator] = 0 THEN "mint" ELSE IF yes[Operator] >= MinOrder THEN "asks" ELSE "check")

-----------------------------------------------------------------------------
(* validate-stack, and what the operator does about its answer.  It looks  *)
(* at everything before it answers, but never at the lookup tables.        *)

AccountsThere == MintKnown /\ stack.config # 0 /\ stack.market

(* The sides of the book without a resting order.                          *)
SidesLacking ==
  {side \in {UsdcBid, YesAsk} : SumResting(book.levels, side, LAMBDA p, o : o.qty) = 0}

FeedsFresh == feed.price > 0 /\ now - feed.ts <= Staleness

(* Without a market there is nothing to trade on, and the scripts are run  *)
(* again; a stale feed is left to the oracle feeder before validating.     *)
ValidateStack ==
  /\ stack.pc = "check"
  /\ AccountsThere => FeedsFresh
  /\ stack' = IF AccountsThere THEN [stack EXCEPT !.pc = "trade", !.lacking = SidesLacking]
              ELSE [stack EXCEPT !.pc = "usdc"]
  /\ Nothing

(* The trade test runs whatever the checks have said: a resting bid of a   *)
(* new user, which has to be on the book afterwards.  Then the answer: all *)
(* is well, or the asks are seeded, or the scripts are run again.          *)
TradeTest ==
  LET order == SeedOrder(UsdcBid, TestBid, TestQty)
      found == /\ book'.nextId > book.nextId
               /\ \E at \in Resting(book'.levels) :
                    at[1] = TestBid /\ OrderAt(book'.levels, at).owner = Tester
  IN  /\ stack.pc = "trade"
      /\ TryToPlace(Tester, order)
      /\ stack' = [stack EXCEPT
           !.pc = IF found /\ stack.lacking = {} THEN "up"
                  ELSE IF YesAsk \in stack.lacking THEN "seed" ELSE "usdc",
           !.lacking = {}]

(* The operator interrupts a script, or the machine does.                  *)
Interrupt ==
  /\ MayFail
  /\ stack.pc \notin {"up", "usdc", "off"}
  /\ GiveUpAt(stack, "usdc")
  /\ Nothing

(* The oracle feeder, once there is a feed to write to.                    *)
FeederPublishes ==
  /\ stack.feeds /\ feed.price = 0
  /\ \E price \in FeedPrices : UpdatePrice(price, 0, TRUE)
  /\ UNCHANGED stack

OperatorMoves ==
  \/ CreateMockUsdc \/ WriteEnv \/ InitConfig \/ InitTickerRegistry \/ InitOracleFeeds
  \/ CreateMarket \/ CreateAndSetAlt \/ NeedsSeed \/ PostBids \/ MintForAsks \/ PostAsks
  \/ SeedAsks \/ ValidateStack \/ TradeTest

BootstrapMoves == OperatorMoves \/ Interrupt \/ FeederPublishes

(* Bringing the stack up succeeds however often the scripts were           *)
(* interrupted and whatever the bot has cancelled: validate-stack finds the*)
(* accounts, fresh feeds, bids and asks, and its own order on the book.    *)
StackComesUp == <>(stack.pc \in {"up", "off"})
=============================================================================
