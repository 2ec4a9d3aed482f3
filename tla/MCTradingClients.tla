--------------------------- MODULE MCTradingClients ---------------------------
(* The instance of TradingClients that TLC checks.                         *)
EXTENDS TradingClients

CONSTANTS web, mm, dir, scalp, op, tester, other

MCRoster == <<mm, dir, scalp>>
MCOffsets == <<1>>
MCSeedQtys == <<24, 12>>
MCSweptPrices == <<51, 55>>
MCSimTickers == <<"A", "B">>
MCWallets == <<web, mm, dir, scalp, tester, op, other>>
=============================================================================
