----------------------------- MODULE AdminPanel -----------------------------
(***************************************************************************)
(* The admin page of the web application.  Its queries (config, balances,  *)
(* markets) are refetched each on its own, every now and then; buttons and *)
(* limits come from what they answered last.  A click is signed in the     *)
(* wallet and then lands on whatever the chain has become.                 *)
(*                                                                         *)
(* Beside the page there are a holder of the market, the settlement, an    *)
(* heir to the admin key, and scripts of the admin.                        *)
(***************************************************************************)
EXTENDS ConfigDesk

CONSTANTS
  Holder,          (* a wallet that mints pairs and redeems                *)
  Heir,            (* a wallet the admin may propose                       *)
  Inputs,          (* amounts the admin types into a field                 *)
  PairQty,         (* pairs the holder mints                               *)
  Gifts,           (* USDC sent to the treasury and to the fee vault       *)
  Reserves,        (* operating reserves a script of the admin sets        *)
  MaxClicks        (* bound: clicks                                        *)

ASSUME PanelAssumption ==
  /\ {Holder, Heir} \subseteq Users \ {Operator}
  /\ Inputs \subseteq Nat /\ Reserves \subseteq Nat
  /\ {PairQty, Gifts, MaxClicks} \subseteq Nat

VARIABLE panel     (* what the page shows, and the click on its way        *)

NoClick == [op |-> "none"]

(* What each query would answer now.                                       *)
Answers ==
  [config   |-> [admin |-> desk.admin, pending |-> desk.pending, paused |-> paused,
                 obligations |-> obligations, reserve |-> desk.reserve],
   balances |-> [treasury |-> pot.treasury, feeVault |-> pot.feeVault],
   listed   |-> Open /\ ~Settled]

PanelInit(on) == panel = [on |-> on, clicks |-> 0, click |-> NoClick, view |-> Answers]

(* An answer, at the refetch interval or after a transaction.              *)
Refetch(query) ==
  /\ panel.view[query] # Answers[query]
  /\ panel' = [panel EXCEPT !.view[query] = Answers[query]]
  /\ Nothing
  /\ UNCHANGED desk

-----------------------------------------------------------------------------
(* The buttons.                                                            *)

View == panel.view

(* Slip: the collateral of settled markets is counted as surplus.          *)
AvailableWithObligations == SaturatingSub(View.balances.treasury, View.config.reserve)

(* The available surplus.                                                  *)
Available ==
  SaturatingSub(View.balances.treasury, View.config.obligations + View.config.reserve)

(* One button for pausing and resuming, by the flag that is shown; the     *)
(* circuit breaker is a second button for the former.                      *)
EmergencyControls == {[op |-> IF View.config.paused THEN "unpause" ELSE "pause"]}

AdminSettlePanel ==
  {[op |-> "settle", price |-> p] : p \in IF View.listed THEN FeedPrices ELSE {}}

FeesRevenue ==
  {[op |-> "feeBps", bps |-> n] : n \in {i \in Inputs : i <= 1000}}
  \cup {[op |-> "creationFee", fee |-> n] : n \in Inputs}
  \cup (IF View.balances.feeVault > 0 THEN {[op |-> "fees"]} ELSE {})
  \cup {[op |-> "treasury", amount |-> n] :
          n \in {i \in Inputs \cup {Available} : 0 < i /\ i <= Available}}

(* Who is proposed as admin sees the button to accept, others the field    *)
(* for a proposal.                                                         *)
PlatformSettings ==
  {[op |-> "config", seconds |-> n] : n \in {i \in Inputs : i > 0}}
  \cup IF View.config.pending = Operator
       THEN {[op |-> "accept"]}
       ELSE {[op |-> "transfer", to |-> u] : u \in {Operator, Heir}}

(* The page shows nothing to a wallet that is not the admin it knows of.   *)
Buttons ==
  IF View.config.admin # Operator THEN {}
  ELSE EmergencyControls \cup AdminSettlePanel \cup FeesRevenue \cup PlatformSettings

Click ==
  /\ panel.click = NoClick
  /\ panel.clicks < MaxClicks
  /\ \E button \in Buttons :
       panel' = [panel EXCEPT !.click = button, !.clicks = @ + 1]
  /\ Nothing
  /\ UNCHANGED desk

-----------------------------------------------------------------------------
(* The transactions.                                                       *)

(* update_config has seven arguments; the IDL of the page knows six, so    *)
(* that the program cannot read what it sends.                             *)
ConfigArguments == 7
IdlConfigArguments == 6

UpdateConfig(seconds) ==
  IdlConfigArguments = ConfigArguments /\ UpdateStaleness(Operator, seconds)

ByAdmin(Act) == desk.admin = Operator /\ Act /\ UNCHANGED desk

Performed(click) ==
  CASE click.op = "pause"       -> ByAdmin(Pause)
    [] click.op = "unpause"     -> ByAdmin(Unpause)
    [] click.op = "settle"      -> ByAdmin(AdminSettle(click.price))
    [] click.op = "feeBps"      -> UpdateFeeBps(Operator, click.bps)
    [] click.op = "creationFee" -> UpdateStrikeCreationFee(Operator, click.fee)
    [] click.op = "fees"        -> WithdrawFees(Operator)
    [] click.op = "treasury"    -> WithdrawTreasury(Operator, click.amount)
    [] click.op = "config"      -> UpdateConfig(click.seconds)
    [] click.op = "transfer"    -> TransferAdmin(Operator, click.to)
    [] click.op = "accept"      -> AcceptAdmin(Operator)
    [] OTHER                    -> FALSE

Answered == panel' = [panel EXCEPT !.click = NoClick]

(* Signed and executed; or refused by the program, by the wallet or by the *)
(* network, all of which only show a message.                              *)
Perform ==
  /\ panel.click # NoClick
  /\ Performed(panel.click)
  /\ Answered

Refuse ==
  /\ panel.click # NoClick
  /\ Nothing
  /\ Answered
  /\ UNCHANGED desk

PanelMoves ==
  \/ \E query \in DOMAIN Answers : Refetch(query)
  \/ Click
  \/ Perform
  \/ Refuse

-----------------------------------------------------------------------------
(* The others.                                                             *)

(* Anyone may send USDC to the accounts of the config.                     *)
Gift ==
  /\ pot.feeVault = 0 /\ panel.clicks = 0
  /\ usdc' = [usdc EXCEPT ![Holder] = @ - 2 * Gifts]
  /\ pot' = [pot EXCEPT !.treasury = @ + Gifts, !.feeVault = @ + Gifts]
  /\ fills' = <<>>
  /\ UNCHANGED <<now, paused, book, yes, no, delegated, supply, market, obligations, feed, desk>>

HolderActs ==
  \/ market.minted = 0 /\ MintPair(Holder, PairQty)
  \/ Settled /\ RedeemWinner(Holder, Winnings(Holder))

Settlement ==
  \/ now >= Close /\ feed.ts < Close /\ (\E price \in FeedPrices : UpdatePrice(price, 0, TRUE))
  \/ SettleMarket

HeirAccepts == AcceptAdmin(Heir)
ScriptSetsReserve ==
  panel.clicks = 0 /\ \E amount \in Reserves \ {desk.reserve} : UpdateReserve(desk.admin, amount)

OthersMove ==
  \/ (HolderActs \/ Settlement) /\ UNCHANGED desk
  \/ HeirAccepts
  \/ ScriptSetsReserve
  \/ Gift

-----------------------------------------------------------------------------
(* What the page does not look at: the delay of admin_settle, the cap of   *)
(* the creation fee, and the arguments of its own update_config.           *)
Unchecked(click) ==
  \/ click.op \in {"settle", "config"}
  \/ click.op = "creationFee" /\ click.fee > CreationFeeCap

(* What the page offers the program accepts, as long as the page is up to  *)
(* date: the limits worked out in the browser are those of the program.    *)
FreshClickAccepted ==
  (/\ panel.click # NoClick
   /\ View = Answers /\ panel.click \in Buttons
   /\ ~Unchecked(panel.click))
  => ENABLED Performed(panel.click)
=============================================================================
