---------------------------- MODULE TradingClients ----------------------------
(***************************************************************************)
(* The clients of one market together.  A behaviour is one of five         *)
(* programmes: an operator brings the stack up while the bot is already    *)
(* running; a day of the stress test with a user of the web application on *)
(* its market; one of the scripts of acts 1 and 2; the admin on the admin  *)
(* page while a market runs its course; or the days of the stress test, as *)
(* its driver sees them.                                                   *)
(***************************************************************************)
EXTENDS AmmBot, StressActs, AdminPanel, StressSeason

clientVars == <<vars, webVars, stressVars, stack, bot, desk, test, panel, seasonVars>>
others == <<panel, seasonVars>>

NobodyTrades == StressInit("off", 0) /\ WebInit(MaxTickets)
Otherwise == PanelInit(FALSE) /\ SeasonInit("off")

Bootstrapping == BootstrapInit("usdc") /\ ActInit("none") /\ NobodyTrades /\ Otherwise
Scripted ==
  BootstrapInit("off") /\ NobodyTrades /\ Otherwise /\ \E script \in Scripts : ActInit(script)
Administering ==
  /\ BootstrapInit("off") /\ ActInit("none") /\ NobodyTrades
  /\ PanelInit(TRUE) /\ SeasonInit("off")
Simulating ==
  /\ BootstrapInit("off") /\ ActInit("none") /\ NobodyTrades
  /\ PanelInit(FALSE) /\ SeasonInit("mint")

(* The agents have the market to themselves, or all but one of their turns *)
(* are over when the user comes.                                           *)
StressTesting ==
  /\ BootstrapInit("off") /\ ActInit("none") /\ Otherwise
  /\ \/ StressInit("start", 0) /\ WebInit(MaxTickets)
     \/ StressInit("start", Greatest(0, MaxActs - 1)) /\ WebInit(0)

ClientsInit ==
  /\ Init /\ BotInit /\ DeskInit
  /\ Bootstrapping \/ StressTesting \/ Scripted \/ Administering \/ Simulating

(* The user trades in the trading window of the stress test and comes back *)
(* for the winnings.  The driver goes on to the settlement when no ticket  *)
(* is open: what is signed before the close and lands after it is refused. *)
WebOpen == day.stage \in {"trade", "grace"}
TicketOver == day.stage \in {"start", "trade"} \/ ticket.stage = "closed"

WebActs == WebOpen /\ WebMoves /\ UNCHANGED <<stressVars, stack, bot, desk, test, others>>

OperatorActs ==
  /\ ~InTransaction
  /\ OperatorMoves
  /\ UNCHANGED <<webVars, stressVars, bot, desk, test, others>>

FeederActs ==
  ~InTransaction /\ FeederPublishes /\ UNCHANGED <<webVars, stressVars, bot, desk, test, others>>

Interrupted ==
  ~InTransaction /\ Interrupt /\ UNCHANGED <<webVars, stressVars, bot, desk, test, others>>

BotActs ==
  ~InTransaction /\ BotMoves /\ UNCHANGED <<webVars, stressVars, stack, desk, test, others>>

DriverActs ==
  TicketOver /\ ~InTransaction /\ DriverMoves /\ UNCHANGED <<webVars, stack, bot, desk, test, others>>

AgentActs ==
  ~InTransaction /\ AgentMoves /\ UNCHANGED <<webVars, stack, bot, desk, test, others>>

ScriptActs == Replay /\ UNCHANGED <<webVars, stressVars, stack, bot, others>>

PanelActs ==
  /\ panel.on
  /\ PanelMoves \/ (OthersMove /\ UNCHANGED panel)
  /\ UNCHANGED <<webVars, stressVars, stack, bot, test, seasonVars>>

SeasonActs ==
  SeasonMoves /\ Nothing /\ UNCHANGED <<webVars, stressVars, stack, bot, desk, test, panel>>

TimePasses ==
  /\ ~InTransaction
  /\ DriverWaits \/ ReplayWaits \/ panel.on
  /\ Tick
  /\ UNCHANGED <<webVars, stressVars, stack, bot, desk, test, others>>

ClientsNext ==
  \/ WebActs \/ OperatorActs \/ FeederActs \/ Interrupted \/ BotActs
  \/ DriverActs \/ AgentActs \/ ScriptActs \/ PanelActs \/ SeasonActs \/ TimePasses

(* The operator has something to do: everything but validating without a   *)
(* feed that is fresh, until the stack is up.                              *)
OperatorReady ==
  /\ ~InTransaction /\ stack.pc \notin {"off", "up"}
  /\ stack.pc = "check" /\ AccountsThere => FeedsFresh

(* The operator goes on until the stack is up, and the feeder publishes.   *)
(* The first is weak fairness of OperatorActs, with OperatorReady for its  *)
(* ENABLED: to find that out from the orders of the scripts takes long.    *)
ClientsSpec ==
  /\ ClientsInit
  /\ [][ClientsNext]_clientVars
  /\ []<>~OperatorReady \/ []<><<OperatorActs>>_stack
  /\ WF_feed(FeederActs)

-----------------------------------------------------------------------------
(* Properties.                                                             *)

(* The ticket is as it would be if it were opened again now.               *)
UpToDate ==
  /\ ticket.orders = Seen(book.levels)
  /\ ticket.usdc = usdc[Trader] /\ ticket.yes = yes[Trader] /\ ticket.no = no[Trader]

Trading == Open /\ ~paused /\ ~Settled /\ now < Close

(* What the ticket does not look at: a dollar per token for the pairs of a *)
(* No purchase and the deposit at the limit of a Yes purchase, someone to  *)
(* trade with a market order, and the age of the orders of one level.      *)
PaysTheDeposit ==
  ticket.side \in {BuyYes, BuyNo} => usdc[Trader] >= ticket.order.qty
MakersByAge == StandByAge(book.levels, ticket.order.side, ticket.order.price)
SomethingToTake ==
  ticket.isLimit \/ Matching(ticket.orders, ticket.order.side, ticket.order.price) # <<>>

(* A ticket that is still up to date is accepted by the program: the maker *)
(* accounts the application worked out from its own view of the book are   *)
(* those of the fills the matching engine comes to, one by one.            *)
FreshTicketAccepted ==
  (/\ ticket.stage = "signing"
   /\ UpToDate /\ Trading /\ PaysTheDeposit /\ MakersByAge /\ SomethingToTake)
  => Runs(ticket)

(* Buying Yes at a limit costs no more than the total the ticket showed,   *)
(* unless the book has moved; then no more than the limit allows.          *)
TicketWithinQuote ==
  [][(/\ ticket.stage = "sent" /\ ticket.side = BuyYes /\ ticket.isLimit
      /\ ticket'.stage = "closed" /\ book' # book)
     => usdc[Trader] - usdc'[Trader] <=
          IF ticket.orders = Seen(book.levels) THEN ticket.shown
          ELSE (ticket.order.qty * ticket.price) \div Dollar]_clientVars

(* The stress test is satisfied with the program: every step of the        *)
(* scripts ends as it expects, a day ends verified, and so do all days     *)
(* together, but for what failed transactions leave behind.                *)
TestsPass == ActsPass /\ VerifyDayEnd /\ SeasonPasses
=============================================================================
