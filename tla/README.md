# Meridian: models, checks and proofs

Meridian is a venue for binary options on stock prices. For one strike price
and one day there is one *market*; a *Yes* token of the market pays a dollar
when the closing price is at or above the strike, a *No* token when it is
below. Dollars are USDC, and a pair of one Yes and one No token is always worth
exactly a dollar. The program runs on Solana (`programs/meridian`, Rust), a
set of services (`services/`, TypeScript) creates and settles the markets,
feeds the oracle and indexes the events, a web front end trades on them, and
scripts deploy and exercise the whole.

This directory models the system in four parts: one market on the chain, from
its creation to its closing, with its book down to the offsets of the account;
the services of a trading day around it; the indexer; and the clients.

## 1. Inventory

### 1.1 The program (`programs/meridian`, `programs/mock-oracle`)

A Solana transaction applies all of an instruction's changes or none, and two
transactions that write the same account never overlap. The interleavings to
worry about are therefore interleavings of whole instructions, in any order,
by anybody, with the clock advancing between any two of them.

| part | state | operations |
|---|---|---|
| order book and engine (`matching/engine.rs`, `state/order_book.rs`) | a byte array: price map, levels, slots; next order id; number of levels allocated | match, rest, cancel, crank, allocate, expand and free a level |
| `place_order/` | user, escrow, vault and fee token accounts; `total_redeemed` | deposit, match, swap or merge each fill, improvement, rest or refund |
| `mint_pair`, `redeem`, `cancel_order`, `crank_cancel`, `crank_redeem` | the same accounts, both mints, `config.obligations` | one each; the cranks can be turned by anyone |
| `settle_market`, `admin_settle`, `admin_override_settlement`, `close_market` | `outcome`, `settled_at`, `override_deadline`, `override_count` | settlement by feed or by the admin, overrides while the window is open, closing |
| `pause`, `unpause`, `circuit_breaker` | `config.is_paused` | set, clear |
| mock oracle | one `PriceFeed` account per ticker | `update_price` |
| config, fees, treasury | `GlobalConfig`, fee vault, treasury | update, withdraw, hand over the admin |
| ticker registry, market creation | vector of tickers; new accounts | add, deactivate; create |

The parts meet in shared accounts. An order's collateral sits in one of three
escrows; a swap moves USDC and Yes tokens between escrows and wallets; a fill
with a No-backed order on either side is a *merge*: it burns a pair and pays
both parties and the fee out of the vault. Settlement fixes who may be paid,
but an admin can override it for a while, and only afterwards may winners be
paid.

What is hard: the money is split by truncating divisions in a dozen places and
has to add up after any sequence of partial fills, improvements, merges, dust
remainders, refunds and cranks; three kinds of order share one price map; the
levels of the book are moved while loops go on over them; overrides and
redemptions meet at a deadline; a counter in the config is shared by all
markets; anyone may turn a crank at any time, and a pause can fall between any
two steps.

### 1.2 The services

| service | state | what it does, and what is hard |
|---|---|---|
| settlement (`services/settlement`) | a lock flag, two cycles, a market-state override | every minute, or on an HTTP call: confirm that the exchange is closed, read prices until two agree, write the feeds, settle, fall back to `admin_settle`, crank, redeem, close, start the next day, unpause. The lock is tested before an `await` and taken after it; the poller looks only for unsettled markets; the final unpause is unconditional |
| oracle feeder (`services/oracle-feeder`) | circuit breaker flag, last state of the exchange | writes the feeds during the day, trips the breaker. It shares the feed with the settlement service, and never resets the flag |
| market initializer (`services/market-initializer`) | runs in progress | for each ticker: create the market, then a lookup table, then its address on the market: three transactions, in up to three runs at once, each of which may find what another left half done |
| automation (`services/automation`) | timers, dates of the last runs | calls the other services once a day; days have 23 to 25 hours, closes are early, markets have holidays |
| event indexer (`services/event-indexer`) | SQLite: events, one checkpoint | a live listener and a backfill move the same checkpoint; a crash between batches, a lost connection; a dozen queries over whatever has been indexed |
| AMM bot (`services/amm-bot`) | inventory, errors, halted | quotes on both sides with the operator's key |
| monitor, shared library | - | reports; clocks, addresses, prices |

### 1.3 The clients

| client | state | what is hard |
|---|---|---|
| web trading (`OrderModal.tsx`, `usePlaceOrder.ts`, `lib/orderbook.ts`) | the ticket: what it saw of the book and the wallet when it was opened | the browser works out, from a book it fetched, the cost, and the token account of the maker of every fill in the order in which the program will come to them |
| admin page (`admin/tabs`) | the answers of four queries, refetched one by one | its limits are worked out from answers of different ages |
| bootstrap scripts (`scripts/*.ts`, `*.sh`) | `.env`, files and accounts | each may be interrupted between any two transactions and is run again from the start; the bot cancels and quotes with the same key meanwhile |
| stress test (`scripts/e2e-stress-test`) | its agents' turns, its day, the markets it knows of | asserts what the program does, step by step; its driver cranks from one look at the book; all its days share one expiry |

### 1.4 What makes each part correct

- Book: matched best price first and, at a price, oldest first; orders that
  could trade come to rest side by side only where a cap stopped the match; the
  account's levels never overlap.
- Orders: whatever is locked is paid out, refunded or still locked, and every
  locked lamport can be returned at any time.
- Vault: a dollar for every pair; after settlement, for every winning token.
- Settlement: one outcome is paid; the override window is bounded; paused or
  not, an order can always be cancelled or cranked, and a delegated winner paid.
- Config: obligations never fall below what settled markets owe.
- Settlement service: one cycle at a time; every expired market is settled in
  the end, at the price the session closed at.
- Initializer and scheduler: a run that reports success leaves a market and its
  table for every ticker; what a run missed the morning check notices; timers
  ring when the exchange's clock says.
- Indexer: every event of the chain is in the database exactly once, in the
  end, but for what a fault has taken; its queries tell one story.
- Clients: what they show can be traded, what they send is accepted as long as
  it is up to date, and nobody pays more than the ticket said.

## 2. Modules

| module | stands for |
|---|---|
| **the market** | |
| `Pricing` | the arithmetic of escrows, swaps, improvements, merges and fees, from `escrow.rs` and `fill_processor.rs` |
| `OrderBook` | the book as a value and the engine as operators on it, from `engine.rs`, `order_book.rs` and the resting part of `place_order/mod.rs` |
| `Market` | the state machine of one market: its accounts, the wallets of its users, the pause flag, the obligations, the oracle feed and the clock; one action per instruction |
| `MarketVault`, `MarketRefinement` | the abstract specification, a ledger of the collateral without book, wallets, escrows or fees; and the mapping under which `Market` implements it |
| `Book` | the abstract specification of the engine: an order, a cancellation or a batch of the crank is one step on the book of `OrderBook` |
| `BookAccount` | the engine at work on the account: offsets, headers and slots, every loop step by step |
| `BookRefinement` | the mapping under which `BookAccount` implements `Book`, and the engine's properties |
| **the trading day** | |
| `TradingCalendar` | `shared/src/timezone.ts`, the close the initializer computes, the hours the services go by |
| `DayChain` | the accounts as the services see them, the exchange, the data provider and the faults |
| `OracleFeeder`, `MarketInitializer`, `SettlementService`, `Scheduler`, `Monitor` | one service each |
| `TradingDay` | the services together, time, fairness |
| **the indexer** | |
| `EventIndexer` | listener, backfill, checkpoint, table, faults |
| `IndexQueries` | the queries of `queries.ts`, `signals.ts` and the API over the table |
| **the clients** | |
| `ClientBook` | what a client makes of the book's bytes: parsing, the Yes and No views, maker accounts |
| `WebTrader`, `AdminPanel` | the order ticket and the admin page of the web front end |
| `ConfigDesk` | the instructions on the config that the page and the scripts use |
| `StackBootstrap`, `AmmBot` | the deployment scripts, and the bot beside them |
| `StressDay`, `StressActs`, `StressSeason` | the agents and the driver of one day; the scripts of acts 1 and 2; set-up, days and verification |
| `TradingClients` | the clients together on the market |
| **checks and proofs** | |
| `MCMarket`, `MCVault`, `MCBook`, `MCTradingDay`, `MCEventIndexer`, `MCTradingClients` | symmetry, views and small sets for TLC |
| `MarketVaultProofs`, `OrderBookProofs`, `MarketProofs`, `BookAccountProofs`, `BookRefinementProofs`, `TradingDayProofs`, `EventIndexerProofs` | the theorems; `FiniteSums` has the facts about finite sets, induction over them and sums they share |

Composition, from top to bottom (each extends the next):

- `MCMarket`, `MarketRefinement`, `Market`, `OrderBook`, `Pricing`;
- `MCBook`, `BookRefinement`, `BookAccount`, `OrderBook`; `BookRefinement` has an
  instance of `Book`, which extends the same `OrderBook` that `Market` uses. The
  engine checked slot by slot is thus the engine the money is checked with;
- `MCTradingDay`, `TradingDay`, `Scheduler`, `SettlementService`,
  `MarketInitializer`, `DayChain`, `TradingCalendar`; `TradingDay` also extends
  `OracleFeeder` and `Monitor`;
- `MCEventIndexer`, `IndexQueries`, `EventIndexer`;
- `MCTradingClients`, `TradingClients`, which extends `AmmBot` (over
  `StackBootstrap`, `ConfigDesk`, `ClientBook`), `StressActs` (over `StressDay`,
  `WebTrader`, `ClientBook`), `AdminPanel` and `StressSeason`. `ClientBook`
  extends `Market`: what a client sends is an action of the program's own
  module, with all its guards, or it is refused.

Names are those of the code where TLA+ allows it. Operators whose comment
begins with *Slip* are not part of the model. Each is a plausible mistake in the
operator defined next to it, and each property is checked to be violated when
the mistake is made.

### 2.1 How `Market` corresponds to the code

| variable | account |
|---|---|
| `book` | the order book account: `levels[p]` is the sequence of slots at price `p`, `<<>>` where the price map says unallocated; `nextId`; `allocated` = `max_levels` |
| `usdc`, `yes`, `no`, `delegated` | the token accounts of each user, and whose accounts have the market PDA as delegate (`mint_pair` approves it for `u64::MAX`) |
| `pot` | `usdc_vault`, `escrow_vault`, `yes_escrow`, `no_escrow`, fee vault, treasury |
| `supply` | supply of both mints |
| `market` | `total_minted`, `total_redeemed`, `outcome` with `is_settled`, `settled_at`, `override_deadline`, `override_count`, and whether the account was closed |
| `paused`, `obligations` | `config.is_paused`, `config.obligations` |
| `feed` | price, timestamp and whether the confidence interval is narrow enough |
| `now` | the clock |
| `fills` | the `FillEvent`s of the last instruction, read only by properties |

`PlaceOrder` is the whole handler: the account constraints and validations are
its guard; `MatchAgainstBook` gives the fills; `SettleOrder` makes every
transfer and burn at once (the deposit comes first and everything after it only
takes out, so that an account that is short at any moment is short at the end:
`NoOverdraft`); the remainder rests, is refunded after an id overflow, or is
refunded as a market order's or a dust remainder. `CancelOrder` and
`CrankCancel` share `ReturnCollateral`, `RedeemWinner` and `CrankRedeem` share
`PayWinners`, `SettleMarket` and `AdminSettle` share `SettleAt`, as the code
repeats them. `BurnWorthless` is not an instruction: the holder of losing
tokens burns them with the token program, which is the only way the supply of
the losing mint reaches zero and the market can be closed.

### 2.2 How `BookAccount` corresponds to the code

The account behind its 270 bytes of header is `cells`, a level one header cell
(price, active count, slot count) and a cell for each slot. An offset counts
cells where the code counts 8 and 112 bytes; `map` is `price_map`,
`Unallocated` is 0xFFFF and the bound of every offset, `MaxSlots` the largest
`u8`. `maxLevels` only grows, as in the code; a freed level keeps its cells.

A transaction works on `data`, its copy, and commits it to `account` or drops
it. Between the two it makes the steps the code makes: `EnterLevel` reads a
level's offset and its slot count once, as the code does before its loop;
`FillOldest` is one turn of that loop, with the count it read and whatever is at
that offset by then, also after `free_level`; `AllocateNewLevel` and
`ExpandFullLevel` are the two reallocations with the retry that follows them;
`CrankSlot` and `LeaveCrankedLevel` are the two loops of the crank. The header's
own `level_count` is written and never read by the program, and is left out; so are the rent
of a slot and who paid it.

### 2.3 How the trading day corresponds to the code

`DayChain` has the accounts as the services read them: which markets exist, with
or without their lookup table, settled at which price, with a resting book, with
unpaid winners; the feeds; the pause switch. Its instructions are those of
`Market`, seen from outside. A market is a ticker and a close: one strike stands
for those of a ticker.

Everything between two `await`s of a service is one action. A cycle of
`SettlementService` goes through `check`, `confirm`, `feeds`, `settle`,
`redeem`, `close`, `init`, `wait` and `unpause`; `PollTest` and `PollLoaded` are
the two sides of the poller's `await`, and `overtaken` remembers that a trigger
came in between. `EndCycle` is the `finally` block, which clears the lock
whoever holds it. A run of `MarketInitializer` reads the quotes once, then looks
at each market, creates it, sets its table or repairs it. `Scheduler` has the
three timers and the flags of the day; a health check runs `verify.ts` and starts
a run of the initializer as a child. `Deploy` starts a new version of scheduler
and initializer at an instant of `Deployed`, as an operator may on any day; it is
no fault. `MidnightHour` is the hour that `Intl` prints at midnight with
`hour12: false`: 24 on the Node 18 of `nixpacks.toml` and `ci.yml`, 0 on later
ones. Time is in minutes of UTC and jumps between
the instants of the instance, at each of which all processes go on until they
wait.

### 2.4 How the indexer corresponds to the code

`Deliver` is the callback of `onLogs`, `ListSignatures` one page of
`getSignaturesForAddress`, `FetchChunk` and `RetryChunk` one `Promise.all` of
`processBatch` and what follows its last; `EndWalk` is the end of
`runBackfill`. `walk` has the backfill's local variables. A transaction's place
in the chain is its signature and its slot. `lost` records what a fault took:
a notification or a handler that failed, a subscription that came too late, a
listing or a fetch that failed twice, or a crash after the checkpoint jumped
ahead of a walk that goes backwards in time.

`IndexQueries` gives each query as a function of the table, with sums for SQL's
aggregates and the code's own case distinctions on maker and taker sides.

### 2.5 How the clients correspond to the code

A behaviour of `TradingClients` is one of five programmes, chosen in its initial
state: an operator brings the stack up beside the bot; a day of the stress test
with a web user on its market; one of the scripts of acts 1 and 2; the admin on
the admin page while a market runs its course; the days of the stress test as
the driver sees them. The parts of the state a programme does not use stay as
they are.

A ticket of `WebTrader` keeps what it saw when it was opened and what it signed;
between the signature and the transaction anybody else may act. `ClientBook`
works out the maker accounts as the code does and `PlaceNaming` lets the program
take them or refuse. The scripts of `StressActs` are sequences of steps with the
outcome the test expects; `Replay` performs each on `Market` and compares.
`StackBootstrap` has a position in the operator's list of scripts; a failed or
interrupted script is run again from its first line, and every script looks at
files and accounts to see what it can skip.

### 2.6 Abstractions

- Public keys, rent in SOL and, except in `ClientBook`, the order of
  `remaining_accounts` are left out; every user has all token accounts.
- A tick of `Market` and `BookAccount` is an arbitrary unit; all delays are
  counted in it. `Blackout` is in ticks, not minutes.
- The confidence test is a Boolean of the feed.
- `admin_settle_delay`, the override window and the fee are constants of
  `Market`. `ConfigDesk` has the config's changes, beside a market whose
  constants stay.
- `u64` is unbounded, except for the order id (`MaxOrderId`): amounts are far
  from 2^64 in the program's units, and every operation on them is a checked one
  that fails the transaction.
- A holder burns tokens outside the program only when they are worthless for
  good. Somebody who burns tokens that can still win gives up a dollar that then
  stays in the vault, and the market can never be closed.
- A holder does not revoke the delegation `mint_pair` sets up; the crank skips
  whoever does, as it skips those who never minted.
- HTTP calls between services are steps that answer or fail; retries within one
  call are one step.
- Fair values and share prices are inputs: pricing, greeks, volatility and
  synthetic prices are floating point.

## 3. Runs

| run | what it asks | bounds |
|---|---|---|
| `MarketTrading` | does all money add up while two users mint, trade, cancel and burn pairs? | thirds of a dollar, so that nearly every division truncates; fee of one half; orders of 2 and 3 with a minimum of 2, so that dust remainders, partial fills and partial makers happen; 3 order ids, after which the id overflows |
| `MarketPriority` | does the engine, at work on the account, do what the book promises, in order of price and age? | two prices, three levels over the life of the market (a freed price can be used once more), levels of up to two slots, orders of 2 and 4 with a minimum of 2, so that an order is filled in part, fills several, or rests; a cap of one fill; two timestamps; crank batches of 2. 1.2 million states |
| `MarketLife` | does the whole life implement the ledger, is only one outcome paid, and can everybody get out? | one price, orders of 3 so that a swap leaves a lamport of dust to sweep at the close; crank batches of one order; two overrides; feed and admin may name a winning or losing price, the feed may be stale or not confident; the pause switch is used at any time |
| `VaultLedger` | is the abstract ledger right on its own? | amounts 1 to 3, five pairs, two overrides |
| `IndexerRestarts` | is anything lost, stored twice or in part, or told differently by two queries? | three transactions of three kinds (an order with a swap and a merge fill and one of the next day; a settlement followed by data of another program; a mint without events), listings of 2, one fetch at a time, one fault of any kind at any moment |
| `TradingDay` | do the services, each on its own clock, settle at the right price, and in the end? | the Wednesday before Thanksgiving 2026 to the early close of the Friday after: a normal close, a holiday, a short day, 13 instants; midnight prints as 24; one ticker, two prices; a new version started at four on the Friday, if at all; one fault of any kind (a failing call, a wrong quote, an outage, a crash, a market-state override) |
| `TradingClients` | is what the clients show and send right? | a dollar of six cents, orders of 12; a ticket of the web user, two turns of three kinds of agent, every script of acts 1 and 2 from start to end, one click on the admin page, one poll of the bot, one interruption of the scripts, a trade test of 5 tokens, two simulated days. All quantities are multiples of 12, so that a Buy Yes ticket is filled at a single level; a ticket of two levels is out of the five minutes a run may take |
| `OtherMarkets`, `NoSellersPrice`, `Straddle`, `BooksAfterSettlement`, `MorningJob` | five statements of comments and documents that the code does not keep (section 6) | the smallest that show it; the last two are `TradingDay` without faults, `MorningJob` also without a new version |

Bounds in the guards: `MaxMinted` pairs are minted over a market's life,
`MaxOrderId` orders can rest (in the code the largest `u64`), `MaxTime` and
`LastTick` stop the clock, but never inside an override window. `MaxLevels` is
99 in the code; where a run has one level more than prices, a price is freed and
used again, and the next time refused. `Unallocated` (65535) and `MaxSlots`
(255) are as small as the account is, so that both limits are reached. Two users
are enough for a maker, a taker and self-trades; more makers only add fills of
the same kind; in `MarketPriority` ownership matters to a cancellation only, and
one owner does. `MaxFaults` bounds faults, `MaxTickets`, `MaxActs`,
`MaxClicks`, `MaxPolls`, `MaxErrors`, `MaxInterruptions`, `SimDays` and
`MaxLost` what the clients do, `Leaving` the markets whose holders act, and
`MaxTxs` the chain. One fault finds what the code does about it; two of them may
take what no code can keep (a listing and its retry).

Deadlock is not checked: at the last tick, after the last transaction or with a
closed market there is nothing left to do.

What the runs show:

- `EscrowBacksBook`: after any sequence, the escrows cover every resting
  order's rounded-up refund, so that a cancel or a crank cannot fail for lack of
  funds. It holds because deposits round up and everything else rounds down.
- `VaultBacksTokens`: the vault is exactly what is minted and not redeemed,
  exactly both supplies before and the winning supply after settlement.
- `MoneyConserved`: no instruction creates or loses USDC or tokens; the dust of
  the escrow reaches the treasury.
- `MakersPaidTheirPrice`: a resting seller receives at least its price less the
  fee for every fill, swap or merge.
- `EngineImplementsBook`: a transaction that commits is the step of `Book` that
  was asked for, with the same fills, however it was appended to, moved, freed
  and looped over; one that fails changes nothing. `LayoutSound`: at every write
  in between, levels lie in the account, apart, at offsets the map can hold, and
  count their active orders. The stale slot count of `engine.rs:205-208` and the
  moves of `expand_level` are in it.
- `TimePriority`, `BestPriceFirst`: no fill passes over an older order of the
  same side and price, or over a better price, that stays on the book; for No
  bids it is different (section 6). `CrossedOnlyByCap`: an order comes to rest
  across one it could trade with only where `max_fills` ended its match.
- `ObligationsTrackMarket`, `OverrideBounded`, `PaidOutcomeFinal`,
  `ImplementsVault`: settlement. `PaidOutcomeFinal` says that as soon as the
  supplies differ (somebody was paid, or gave up losing tokens) the outcome
  never changes again.
- `WayOut`: nothing is locked in. In a program that is paused (and it can be
  paused in every state) the owner of any resting order can cancel it before
  settlement and anyone can crank it after; once the override window is over
  anyone can have a winner paid that left the market its delegate; and a closed
  market owed nobody. It is about what is possible, as `ENABLED` says: no guard
  and no account that is short stands in the way. That somebody does these things
  the code does not ensure: the service's cancelling crank throws (section 6), its
  redeeming crank runs again only when another market expires, and
  `crank-settled.ts` is started by hand, with one batch for each market of the
  day. No liveness of a market is claimed.
- `OnlyFaultsLoseEvents`, `WholeTransactions`, `EventuallyIndexed`: listener and
  backfill leave no gap of their own. What they do lose, they lose to one of the
  four faults: `backfill.ts:194` writes a checkpoint ahead of older batches,
  `listener.ts:232` moves it past what the backfill has not reached, and a crash
  at that moment is not repaired by the next start.
- `NetCostIsZeroSum`, `QueriesAgree`: each fill is a purchase for one wallet and
  a sale for the other in every query, whatever part of the chain is indexed.
- `OneCycle`: the lock is held exactly while a cycle runs and one runs at a
  time, except where the trigger comes between the poller's look at the lock and
  its taking it (`index.ts:668-677`). `SettledEventually` shows that both cycles
  come to an end also then.
- `ClosingPrice`: a market settled before its share trades again gets the last
  price of its session, although the feeder writes the same feed. `OkMeansReady`
  and `SafetyNet`: a run's success and the morning check mean what they say.
  The net is only as good as its timer, and both are only as good as the close
  they compute (`MorningJob`, section 6).
- `CalendarAgrees` says over two weeks of 2026, the one of Thanksgiving and the
  one in which clocks fall back, and for both hours midnight may print as, what
  the services compute, right or wrong. `HoursRight`: their hours cover the
  sessions of the exchange. `PlansRight`: the close planned is that of the first
  session not over; its hour is the day's own if planned on the day, and that of
  the calendar day before if planned earlier, so that a short day gets 16:00.
  `NextTimesRight`: a timer rings when the clock of the exchange shows its time,
  today while that is ahead and else tomorrow; where midnight prints as 24
  everything counts as over in the first hour, and where the month turns the
  recalculation rings at once. There are no exceptions besides: an hour or a day
  off anywhere else would violate it.
- `DepthIsExecutable`, `FreshTicketAccepted`, `TicketWithinQuote`: every order
  shown in the No view can trade at the price shown; a ticket that is up to date
  names the accounts the engine comes to, unless a level's slots hide the age of
  its orders (`StandByAge`); a Yes purchase costs no more than
  shown, or than its limit if the book moved. `FreshClickAccepted`: the limits
  of the admin page are the program's, as long as its data are fresh. What a
  ticket or a click does not look at is listed in the properties' conditions.
- `StackComesUp`: the scripts, interrupted anywhere and run again, whatever the
  bot cancels in between, end with a validation that finds every account, fresh
  feeds, bids *and* asks, and its own new order on the book. Asks are seeded again
  by `seed-asks.ts`. Bids are not: `create-test-markets.ts` posts them only on a
  book that never had an order. But the trade test runs whatever the checks
  before it have said and leaves a bid of its own resting, which the next
  validation counts: it is by this alone that a stack without bids comes up. The
  lookup tables are not looked at by `validate-stack.ts`, so that the stack also
  comes up without one, and no rerun of the scripts makes it. `TestsPass`: every assertion of the stress
  test's scripts holds on `Market`, its days end verified, and each has a market
  of its own for every ticker of the config.

### 3.1 Fairness

`Market` assumes none: nothing in the repository schedules the instructions of a
market, its cranks included, and nothing is claimed to happen to it.

`TradingDay`'s `LiveSpec`: timers, loops and processes of the services go on
(weak fairness of the feeder's check, of each step of a run, of the poller and
the cycle it started, of the trigger's cycle, of the end of a market-state
override and of the scheduler's timers), because each is an `async` loop of a process
that its manager restarts. Time passes with strong fairness: a poller that wakes
every minute keeps interrupting the pause in which the model lets it go on.
Nothing is assumed of users, faults, a new version, a fallback that is cut short,
or the operator's `crank-settled.ts`.

`EventIndexer`'s `LiveSpec`: the process is restarted, its subscription reaches
the node, listings and fetches answer, and notifications arrive, unless a fault
takes them. `ClientsSpec`: the operator goes on with the scripts until the stack
is up (weak fairness, with `OperatorReady` written out for its `ENABLED`), and the feeder publishes once there is a feed.

## 4. Proofs

TLAPS proves, for every value of the constants under the assumptions of the
modules (a dollar of at least two cents, a fee of at most everything, a positive
override window, finitely many users, tickers' prices and instants, clocks that
fall back at two in the morning, and the like):

- `MarketVaultProofs`. The ledger's `TypeOK`, `Solvent`, `WindowsCounted` and
  `OutcomeFinal`. The inductive invariant is the conjunction of the first three,
  and each needs the others: the vault cannot be overdrawn because it holds a
  dollar for every token burned; it still does after an override because the
  supplies are equal as long as one can come; and an override can only come
  before the deadline.
- `OrderBookProofs`. What the operators of the engine return, for any book:
  a match fills only resting orders, in the order of the scan, each at most once,
  with what it gives and takes adding up to the taker's quantity; it ends only
  when the taker has enough or the cap is reached; the book after the fills,
  after a cancel, after a batch of the crank and after an order has come to rest
  has exactly the orders it should. And of the prices `EscrowCoversFill`: what a
  fill takes out of a bid's escrow, with the improvement handed back and the
  rounded-up deposit of the rest, never exceeds the deposit of the whole; and
  `MergeSplitsExactly`: fee and both shares of a merge are natural numbers that
  add up to the merged pairs. `MarketProofs` and `BookRefinementProofs` rest on
  these lemmas.
- `MarketProofs`. All safety properties of `Market` the runs check, for any
  number of users, any size of book and any fee:
  `OverrideBounded` and `PaidOutcomeFinal`, `VaultBacksTokens`,
  `MoneyConserved`, `EscrowBacksBook`, `MakersPaidTheirPrice`, `TypeOK`,
  `ObligationsTrackMarket` (where no other market is settled; where one is,
  `ThisMarketStillOwed`), and `ImplementsVault`, the refinement of the ledger
  step by step. Besides, order ids are unique, and the guards by which the model
  refuses an overdraft are never what stops an order, a merge, a cancel or a
  batch of the crank (`OrdersNeverOverdraw`, `RefundsNeverOverdraw`): in the
  program such an instruction would fail every time it was sent. Of the clients:
  `DepthIsExecutable` (`ViewsAreExecutable`), and that the accounts the web
  application names are the makers' of the fills, in their order
  (`TicketsNameTheMakers`).
- `BookAccountProofs`. `LayoutSound` for any number of prices, levels, slots and
  orders. The invariant says that both copies of the account are sound, and
  where the running loop stands. A crank frees a level only when it leaves it.
  A match may free the level it is at: then the header there is zero and all the
  slots it counted are inactive (`LoopAt`), so that the loop takes nothing more
  from them; this is the SAFETY comment of `engine.rs:205-208`. One lemma per
  write: appending a level, growing one with everything behind it moved, writing,
  reducing and deactivating a slot, freeing a level.
- `BookRefinementProofs`. `EngineImplementsBook`: what the engine does to the
  cells of the account, write by write, is what `Book` promises in one step, for
  any prices, level widths and numbers of orders (`EngineRefinesBook`). With it
  `TimePriority`, `BestPriceFirst` and `CrossedOnlyByCap`.
- `TradingDayProofs`. `TypeOK`, `OneCycle`, `OkMeansReady` and `SafetyNet` for
  any calendar, tickers, instants, faults and restarts; and of the calendar what
  `CalendarAgrees` checks on two weeks (`PlansAreRight`, `HoursAreRight`,
  `TimersAreRight`) for any time, holidays, short days, weekday, and both hours
  midnight may print as. The first and the last say exactly what is computed,
  the wrong hour and the wrong day included.
- `EventIndexerProofs`. `TypeOK`, `OnlyFaultsLoseEvents`, `WholeTransactions`,
  `NetCostIsZeroSum` and `QueriesAgree` for any chain, batch size, concurrency and number of faults. The invariant
  adds what is known of the walk (its cursors and queues name transactions that
  landed, a queue is empty in the phases that do not use it, nothing goes on
  while the service is down) and that every row belongs to a transaction that
  landed. The proof follows each transaction through a step: it is stored,
  awaited by the listener, still ahead of the walk, or lost to a fault
  (`Covered`). Of the parser the proof uses
  that it returns a list (`ParserAssumption`, which TLC evaluates): it is a fold,
  and an induction over data is beyond the prover. Of the table the queries need
  that it is finite and that its fills are fills the engine makes (`TableOK`): of
  taker and maker exactly one sells Yes tokens, at 1 to 99 cents
  (`QueryAssumption`, from `match_against_book`). What a wallet pays another one
  gets, so the histories balance; SQL's `GROUP BY` is one lemma, `SumGrouped`: the
  sums in the rows of the answer add up to that of all terms, whatever they are
  grouped by. Both properties leave out tables with a trade of a wallet with
  itself, which the program allows and both queries count once; the list of
  fills is compared while it fits on its longest page, of 500 rows, which is then
  the whole list (`NewestIsAll`).

The argument for `Market` goes in layers, each inductive given those before it:

1. `SettlementInv`: clocks and deadlines, and that unequal supplies imply a
   final outcome. Of trading it needs only that an order burns the same quantity
   of both tokens. The code computes the new deadline as the later of two
   expressions; one of them always is, because an override comes before the
   deadline it replaces.
2. `MoneyInv` adds that the book holds well-formed orders at distinct places and
   `Ledger`: accounts are natural numbers, the vault backs the tokens, USDC and
   tokens add up. `FillTotals` does the arithmetic of all fills of an order at
   once, from the lemma on one fill and on its side (`FillMoney`, `FillSides`).
3. `Backed`: the escrows cover the locks of the book. The steps are sums over
   different sets (orders before and after, fills, refunds), which the lemmas
   of `FiniteSums` relate; `EscrowCoversFill` of `Pricing` is the one inequality.
4. `Covered` (obligations), `Counted` (order ids, and that `TypeOK`'s counters
   keep their bounds) and `SupplyBounded`, which bounds the amounts of the
   ledger's steps by all the money there is.

The argument for the engine: `LayoutInv`, of `BookAccountProofs`, says that both
copies of the account are sound, so that their slots are a book. `EngineInv` adds
what the working copy has to do with the book before the transaction, phase by
phase. While an order is matched (`MatchInv`), there is a k such that the copy is
the book after the first k orders of the scan, and the loop has not passed any
of those still to come: the levels the loop picks by price and the makers it
picks by age are the next of the scan (`OldestIsNext`), and when the loops end,
nothing is left of the scan that the match would fill (`MatchEnds`). Before the
rest is written (`RestInv`), the copy has a free slot at its price and is the
matched book otherwise: appending a level and widening a full one, with
everything behind it moved, are invisible (`NewLevelIsRoom`, `WiderLevelIsRoom`).
While the crank walks (`CrankInv`), the copy is the book without the orders the
batch has dealt with, and the levels it has left are freed where empty. Between
transactions the two copies agree (`IdleInv`). A commit is then a step of `Book`
because the operators of `Book` are those of the engine (`SameMatch` and its
like), and because what a match comes to is the fold over the scan.

The priorities need two things besides. An order that comes before a filled one
in the scan is filled whole, because the match takes the least of what both
sides have and goes on only if the taker wants more (`EarlierIsGone`). And "stays
on the book" is by id: a slot that was freed by the fills may be taken by the
taker's own rest in the same step, so that `IdsInv` is needed, by which the
newcomer's id is none of those before (`GoneNotKept`). For `CrossedOnlyByCap`: a
taker that rests wanted more, so that a match the cap did not end has served
every order that crosses it. `BestPriceFirstForNo` fails, as section 6 says; the
proof of `BestPriceFirst` uses the side of the makers exactly where it does.

What clients see: a match that wants more than everything, with room for every
fill, serves each crossing order whole (`MatchServesAll`), so that both sides of
`DepthIsExecutable` are sums over resting orders, grouped by price or by the rest
of the dollar (`SumByKey`). Which orders these are is a comparison of
`Crosses` with the two views. For the accounts, the client's sort and the
engine's scan list the same orders in the same order, and there is one such list
(`ListsOnce`), given `StandByAge`: the account's bytes have the time stamps, but
the client breaks ties by slot, which agrees with the engine's time until a freed
slot is used again, and puts USDC bids first.

An induction theorem that takes an operator is out of the provers' reach, so
`FiniteSums` states induction over a finite set for the *set* of the subsets that
have the property (`SetInduction`, from the well-foundedness of the strict
subset order), and a sum is a function applied to a set (`SumOf`). For the same
reason `Market` and `OrderBook` take sums with `SumOver`, and `InOrder` gives
the order of the engine's scan by ranks; what they say is what the code
does, in a form the provers can take apart.

The argument for the trading day: `DayInv` types everything and adds that a
settled market's close has passed (`Due`). `RunsReady` says of each run what it
has made ready so far: every ticker it is done with has its market and table, or
a warning, whatever the other two runs do to the same accounts; nothing takes a
market or a table away. `SafetyNet` needs `Net`: between the health check and the
close the fallback has still to begin, is at work on the tickers that have no
market, or is done. `Net` was not inductive at first, and the model was at
fault: the check noted the number of faults before its own read failed, and so
took itself for undisturbed; one fault could not show it. `TimersAreRight` is
about the three times the jobs are set for; for some other times of day the
timer is an hour off on the day the clocks fall back. The day it rings on
(`DayMeant`) is the one of 24 hours later when the time counts as over, which on
the day of 25 hours is still the same day. It also showed a timer can lie before
the beginning of the calendar and is an integer.

Only model-checked: `ClosingPrice`, which holds for one fault
and not for several, so that it is a statement about the instance;
`FreshTicketAccepted` and `FreshClickAccepted`, which say that a transaction is
accepted, that is `ENABLED`, as `WayOut` does; `TicketWithinQuote`; and the clients' scripts, which
are finite lists (`TestsPass`). The liveness properties
(`EventuallyIndexed`, `SettledEventually`, `StackComesUp`) hold
under fairness and stay with TLC: the prover has no rules for `ENABLED`.

## 5. Not modelled

- Presentation: charts, tables, the portfolio pages and the API routes that
  forward to the indexer. `TickerManagement`, `CreateMarketForm` and
  `MarketActions` are imported by no page.
- Floating point: the pricer, volatility, the selection of strikes, synthetic
  prices. The bot's quotes are modelled from a fair value on.
- The SOL treasury, creation fees and rent; `withdraw_sol`.
- A running market's fee and override window changing with the config, and
  several markets beside each other except as `OtherObligations` of one.
- Token accounts that are closed and delegations that are revoked.
- Reports and metrics of the stress test; the monitor's check of the admin's
  balance.

## 6. Where the code and its documentation differ

- `OtherMarkets`: `redeem.rs` says that for an unsettled market the
  subtraction from `config.obligations` is a no-op because the counter is zero.
  The counter belongs to all markets; if another market is settled and not yet
  redeemed, burning a pair of a trading market takes from what the other one is
  owed, and the cap on treasury withdrawals is too generous by that much.
- `NoSellersPrice`: the engine calls itself price-time. No-backed bids are
  stored at the price of No, while `ORDER_BOOK.md` describes them at the price
  of Yes, next to the USDC bids; the scan from the highest level down is right
  for the latter and takes the worst No seller first for the former.
- `Straddle`: the position constraint is checked when an order is placed. A bid
  that rests already is filled even if its owner has got No tokens meanwhile, so
  trading does leave both kinds in one wallet.
- `BooksAfterSettlement`: `cranker.ts` says it sends cranks until the book is
  empty. It fetches the book as `program.account.orderBook`, which the services'
  IDL does not have; the call throws for every market and is caught. Only
  `crank-settled.ts`, for the markets of the day it is run, empties a book.
- `MorningJob`: two defects that meet on the Friday after Thanksgiving, without
  any fault. `scheduler.ts` calls its morning job a safety net under the
  initializer of the evening before. That initializer says it accounts for early
  closes, but looks the date up as New York has it at the candidate's midnight of
  UTC, which is the evening before: the market of the Friday, made on Wednesday,
  closes at 16:00 while the exchange shuts at 13:00. The morning job would plan
  13:00, miss the market and make it; but the recalculation at 0:01 reads the
  hour as 24, takes 8:30 for over, and sets the job for Saturday. This happens
  every night, so that the job only runs where the scheduler was started after
  midnight's first hour of the same day (which is what `Deploy` is in `TradingDay`
  for); with midnight printed as 0 the property holds.

Noticed on the way, without a run:

- *Program.* `ORDER_BOOK.md` lets an owner cancel after settlement, the program
  leaves that to the crank; it calls the two supplies always equal, which ends
  with the first winner paid; it states the escrow balance without the rounding;
  it has no cap on the orders of a level but the account's 10 MB, where a `u8`
  and the `u16` offsets end it at 255 slots and some 580 in all; it gives offsets
  relative to the header where the code has absolute ones. An order whose rest
  finds no level or slot fails as a whole. The README says all winners are
  redeemed automatically, which is so for those whose tokens came from
  `mint_pair`.
- *Services.* The feeder's breaker trips at an early close, takes it for a halt
  and never resets; `lastKnownState` moves on even if the trip failed.
  `timezone.ts` compares days of the month, which fails on the first of one
  (`MonthTurns` in `NextTimesRight`). The settlement's `verify.ts` says the scheduler spawns it, which it does not; the
  initializer's skips tickers without a quote and looks at no lookup table. The
  recalculation's fallback child of the scheduler never exits. What follows a
  settlement (redeeming, closing, the next day) is run again only when another
  market expires.
- *Indexer.* `signals.ts` adds the New York offset with the wrong sign;
  `mapper.ts:24` counts a taker of side 2 as buying No, which sells it; only
  `settle_market` emits a settlement, so one by the admin is not indexed as one;
  `CrankRedeemEvent` is not indexed.
- *Web.* The ticket passes the Yes price to the No sides and reads it back as
  100 minus it in one case only; the answer of `confirmTransaction` is not
  looked at for errors. The panel's `update_config` has six arguments, the
  program seven, so it is always refused. The page shows only to the current
  admin, so a pending one cannot accept there. A settlement of all markets counts
  a failed transaction as settled.
- *Scripts.* A crash between a market's creation and its lookup table is not
  repaired by another run of `create-test-markets.ts`, contrary to
  `local-stack.sh:171-172`: it never makes a table for a market that exists; nor
  are bids that failed while asks were posted. `validate-stack.ts` is content
  with the bid its own earlier trade test left, and does not look for tables. The
  bot's `ORDER_TYPE_LIMIT` is the program's market order.
- *Stress test.* From four days on the wait for the close is longer than it
  waits; violations across days do not fail act 3; a second run on the same UTC
  day meets the addresses of the first; tickers beyond the config's seven get no
  market.

## 7. Plan

Done: the market with its ledger, book and account; the trading day; the
indexer; the clients; the proofs of section 4. Left, in this order:

1. `Treasury`: several markets in abstract form, obligations, withdrawals,
   changes of the config while markets live. Property: withdrawals leave what
   settled markets owe, which `OtherMarkets` shows to need a condition.
2. Proofs: `ClosingPrice` for at most one fault.
3. Several strikes of a ticker in `DayChain`, and two tickers in `TradingDay`
   (the state space is the obstacle).
