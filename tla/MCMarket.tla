------------------------------ MODULE MCMarket ------------------------------
(* Model values and symmetry for checking Market on small instances.       *)
EXTENDS MarketRefinement

Symmetry == Permutations(Users)

(* No action reads the fills of the last instruction.                      *)
View == <<now, paused, book, wallets, pot, supply, market, obligations, feed>>
=============================================================================
