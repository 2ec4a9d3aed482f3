-------------------------- MODULE MarketRefinement --------------------------
(* Market implements MarketVault: whatever the book, the merges, the cranks *)
(* and the fees do, the vault sees only whole pairs and winning tokens.     *)
EXTENDS Market

Vault == INSTANCE MarketVault WITH
  Amounts <- 1 .. Cardinality(Users) * Funds,
  OverrideWindow <- Window,
  OverrideLimit <- MaxOverrides,
  MintLimit <- MaxMinted,
  LastTick <- MaxTime,
  clock <- now,
  vault <- pot.vault,
  yesSupply <- supply.yes,
  noSupply <- supply.no,
  minted <- market.minted,
  redeemed <- market.redeemed,
  outcome <- market.outcome,
  settledAt <- market.settledAt,
  deadline <- market.deadline,
  overrides <- market.overrides

(* Every step of the market is a step of the vault, or leaves it alone: an  *)
(* order burns as many Yes as No tokens and takes from the vault exactly    *)
(* what its merges paid out, and an override adds exactly one window.       *)
ImplementsVault == Vault!Spec
=============================================================================
