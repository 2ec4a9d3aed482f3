------------------------------ MODULE MCVault ------------------------------
(* The vault ledger on its own, with amounts that do not divide evenly.    *)
EXTENDS MarketVault

SmallAmounts == 1 .. 3
=============================================================================
