------------------------------- MODULE MCBook -------------------------------
(* The view for checking the engine on small accounts.                     *)
EXTENDS BookRefinement

(* No step reads the fills of the last transaction.                        *)
View == <<now, trading, account, data, txVars>>
=============================================================================
