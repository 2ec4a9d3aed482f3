----------------------------- MODULE ConfigDesk -----------------------------
(***************************************************************************)
(* The admin's instructions: the two-step transfer of the admin key, the   *)
(* withdrawals from fee vault and treasury, the thresholds of the config,  *)
(* and the ticker registry.  The circuit breaker is the pause instruction  *)
(* of module Market under another name.                                    *)
(***************************************************************************)
EXTENDS ClientBook

CONSTANTS
  Operator,      (* the wallet that initialised the config: its first admin*)
  Tickers,       (* tickers that may be registered                         *)
  FeeCap,        (* the largest fee update_fee_bps takes                   *)
  CreationFeeCap (* MAX_STRIKE_CREATION_FEE                                *)

ASSUME DeskAssumption == Operator \in Users /\ {FeeCap, CreationFeeCap} \subseteq Nat

VARIABLE desk    (* the admin's part of GlobalConfig, and TickerRegistry   *)

Nobody == "nobody"

DeskInit ==
  desk = [admin |-> Operator, pending |-> Nobody, staleness |-> 300, reserve |-> 0,
          feeBps |-> FeeBps, creationFee |-> 0, registered |-> Tickers, active |-> Tickers]

(* No account of the market is touched.                                    *)
DeskOnly == fills' = <<>> /\ UNCHANGED <<now, paused, book, wallets, pot, supply, market,
                                          obligations, feed>>

(* transfer_admin and accept_admin: a proposal replaces the one before it. *)
TransferAdmin(u, new) ==
  /\ u = desk.admin
  /\ desk' = [desk EXCEPT !.pending = new]
  /\ DeskOnly

AcceptAdmin(u) ==
  /\ desk.pending # Nobody
  /\ u = desk.pending
  /\ desk' = [desk EXCEPT !.admin = u, !.pending = Nobody]
  /\ DeskOnly

(* A withdrawal from one of the config's token accounts to the admin.      *)
PayAdmin(u, account, amount) ==
  /\ u = desk.admin
  /\ amount > 0
  /\ usdc' = [usdc EXCEPT ![u] = @ + amount]
  /\ pot' = [pot EXCEPT ![account] = @ - amount]
  /\ fills' = <<>>
  /\ UNCHANGED <<now, paused, book, yes, no, delegated, supply, market, obligations, feed, desk>>

WithdrawFees(u) == PayAdmin(u, "feeVault", pot.feeVault)

(* The treasury keeps what settled markets still owe.                      *)
WithdrawTreasury(u, amount) ==
  /\ amount <= SaturatingSub(pot.treasury, obligations)
  /\ PayAdmin(u, "treasury", amount)

(* update_config, of whose fields two are kept, and the two fees.          *)
UpdateStaleness(u, seconds) ==
  /\ u = desk.admin
  /\ seconds > 0
  /\ desk' = [desk EXCEPT !.staleness = seconds]
  /\ DeskOnly

UpdateReserve(u, amount) ==
  /\ u = desk.admin
  /\ desk' = [desk EXCEPT !.reserve = amount]
  /\ DeskOnly

UpdateFeeBps(u, bps) ==
  /\ u = desk.admin
  /\ bps <= FeeCap
  /\ desk' = [desk EXCEPT !.feeBps = bps]
  /\ DeskOnly

UpdateStrikeCreationFee(u, fee) ==
  /\ u = desk.admin
  /\ fee <= CreationFeeCap
  /\ desk' = [desk EXCEPT !.creationFee = fee]
  /\ DeskOnly

(* add_ticker: anyone; a registered ticker only if it was deactivated.     *)
AddTicker(ticker) ==
  /\ ticker \notin desk.active
  /\ Cardinality(desk.registered) < 256
  /\ desk' = [desk EXCEPT !.registered = @ \cup {ticker}, !.active = @ \cup {ticker}]
  /\ DeskOnly

DeactivateTicker(u, ticker) ==
  /\ u = desk.admin
  /\ ticker \in desk.active
  /\ desk' = [desk EXCEPT !.active = @ \ {ticker}]
  /\ DeskOnly
=============================================================================
