---------------------------- MODULE MarketVault ----------------------------
(***************************************************************************)
(* What a strike market promises about its collateral, with the book, the  *)
(* wallets, the escrows and the fees left out: a vault that takes a dollar *)
(* for every pair minted and gives a dollar for every pair burned or, once *)
(* the outcome is final, for every winning token.  Market implements it    *)
(* (module MarketRefinement).                                              *)
(***************************************************************************)
EXTENDS Integers

CONSTANTS
  Amounts,        (* the quantities one instruction may move               *)
  OverrideWindow, (* config.override_window                                *)
  OverrideLimit,  (* MAX_OVERRIDES                                         *)
  MintLimit,      (* pairs the model mints over the market's life          *)
  LastTick        (* the clock of the model stops here, see Tick           *)

ASSUME VaultAssumption ==
  /\ Amounts \subseteq Nat \ {0}
  /\ OverrideWindow \in Nat \ {0}
  /\ OverrideLimit \in Nat
  /\ MintLimit \in Nat
  /\ LastTick \in Nat

VARIABLES
  clock,               (* the cluster clock                                *)
  vault,               (* balance of usdc_vault                            *)
  yesSupply, noSupply, (* supply of the two mints                          *)
  minted, redeemed,    (* total_minted, total_redeemed                     *)
  outcome,             (* 0 unsettled, 1 Yes wins, 2 No wins               *)
  settledAt, deadline, overrides

settlement == <<outcome, settledAt, deadline, overrides>>
ledger == <<vault, yesSupply, noSupply, minted, redeemed>>
vars == <<clock, ledger, settlement>>

Init ==
  /\ clock = 1
  /\ vault = 0 /\ yesSupply = 0 /\ noSupply = 0
  /\ minted = 0 /\ redeemed = 0
  /\ outcome = 0 /\ settledAt = 0 /\ deadline = 0 /\ overrides = 0

Settled == outcome # 0
(* Slip: winners are paid as soon as the market is settled.                *)
FinalAtOnce == Settled

Final == Settled /\ clock >= deadline

Mint(q) ==
  /\ ~Settled
  /\ minted + q <= MintLimit
  /\ vault' = vault + q
  /\ yesSupply' = yesSupply + q
  /\ noSupply' = noSupply + q
  /\ minted' = minted + q
  /\ UNCHANGED <<clock, redeemed, settlement>>

(* Slip: only the supply of Yes tokens is looked at.                       *)
EnoughYes(q) == q <= yesSupply

EnoughPairs(q) == q <= yesSupply /\ q <= noSupply

(* A pair burn or the merges of an order; every burned token exists.       *)
BurnPairs(q) ==
  /\ EnoughPairs(q)
  /\ vault' = vault - q
  /\ yesSupply' = yesSupply - q
  /\ noSupply' = noSupply - q
  /\ redeemed' = redeemed + q
  /\ UNCHANGED <<clock, minted, settlement>>

(* Winning tokens are burned for a dollar each, losing ones for nothing.   *)
BurnWinning(q) ==
  /\ Final
  /\ \/ outcome = 1 /\ q <= yesSupply /\ yesSupply' = yesSupply - q /\ UNCHANGED noSupply
     \/ outcome = 2 /\ q <= noSupply /\ noSupply' = noSupply - q /\ UNCHANGED yesSupply
  /\ vault' = vault - q
  /\ redeemed' = redeemed + q
  /\ UNCHANGED <<clock, minted, settlement>>

BurnLosing(q) ==
  /\ Final
  /\ \/ outcome = 1 /\ q <= noSupply /\ noSupply' = noSupply - q /\ UNCHANGED yesSupply
     \/ outcome = 2 /\ q <= yesSupply /\ yesSupply' = yesSupply - q /\ UNCHANGED noSupply
  /\ UNCHANGED <<clock, vault, minted, redeemed, settlement>>

Settle(result) ==
  /\ ~Settled
  /\ outcome' = result
  /\ settledAt' = clock
  /\ deadline' = clock + OverrideWindow
  /\ UNCHANGED <<clock, ledger, overrides>>

(* Slips: an override after the window is over, and one that starts the    *)
(* window again.                                                           *)
AlwaysOpen == TRUE
WindowFromNow == clock + OverrideWindow

WindowOpen == clock < deadline
NextDeadline == deadline + OverrideWindow

(* Each override buys exactly one more window.                             *)
Override(result) ==
  /\ Settled
  /\ WindowOpen
  /\ overrides < OverrideLimit
  /\ outcome' = result
  /\ deadline' = NextDeadline
  /\ overrides' = overrides + 1
  /\ UNCHANGED <<clock, ledger, settledAt>>

Tick ==
  /\ clock < LastTick \/ (Settled /\ ~Final)
  /\ clock' = clock + 1
  /\ UNCHANGED <<ledger, settlement>>

Next ==
  \/ \E q \in Amounts : Mint(q) \/ BurnPairs(q) \/ BurnWinning(q) \/ BurnLosing(q)
  \/ \E result \in {1, 2} : Settle(result) \/ Override(result)
  \/ Tick

Spec == Init /\ [][Next]_vars

-----------------------------------------------------------------------------
(* Properties.                                                             *)

(* Every variable keeps its type: no balance and no supply is negative.    *)
TypeOK ==
  /\ clock \in Nat
  /\ vault \in Nat /\ yesSupply \in Nat /\ noSupply \in Nat
  /\ minted \in Nat /\ redeemed \in Nat
  /\ outcome \in {0, 1, 2}
  /\ settledAt \in Nat /\ deadline \in Nat
  /\ overrides \in 0 .. OverrideLimit

(* The token that is worth a dollar: either one before settlement.         *)
WinningTokens == IF outcome = 2 THEN noSupply ELSE yesSupply

(* Solvency: the vault holds exactly a dollar for every winning token, and *)
(* until the outcome is final for every token of the other kind as well,   *)
(* so that an override can still turn the outcome.                         *)
Solvent ==
  /\ vault = minted - redeemed
  /\ WinningTokens = vault
  /\ ~Final => yesSupply = noSupply

(* The override window ends one window after the settlement for each       *)
(* settlement price there was, and nothing is overridden before there is   *)
(* one.                                                                    *)
WindowsCounted ==
  IF Settled THEN deadline = settledAt + OverrideWindow * (overrides + 1)
             ELSE overrides = 0

(* Nobody is paid for an outcome that an override then turns: once the     *)
(* supplies differ, somebody was paid or gave up a losing token.           *)
OutcomeFinal == [][yesSupply # noSupply => outcome' = outcome]_vars
=============================================================================
