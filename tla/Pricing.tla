------------------------------ MODULE Pricing ------------------------------
(***************************************************************************)
(* The integer arithmetic of Meridian's money flows: what an order locks   *)
(* in escrow, what a fill pays, what a refund returns and which fee the    *)
(* protocol keeps.  Every division of the program truncates, except the    *)
(* escrow deposit and its refunds, which round up.                         *)
(*                                                                         *)
(* Amounts are token or USDC lamports; a pair of tokens is worth as many   *)
(* USDC lamports as it has token lamports.  A price is a number of cents   *)
(* out of Dollar (100 in the program), a fee a number of basis points out  *)
(* of BpsBase (10000 in the program).                                      *)
(***************************************************************************)
EXTENDS Integers

CONSTANTS
  Dollar,   (* cents in a dollar: MERGE_TOTAL_CENTS *)
  FeeBps,   (* GlobalConfig.fee_bps                 *)
  BpsBase   (* basis points in the whole            *)

ASSUME DollarAssumption == Dollar \in Nat /\ Dollar > 1
ASSUME FeeAssumption == FeeBps \in Nat /\ BpsBase \in Nat \ {0} /\ FeeBps <= BpsBase

Prices == 1 .. Dollar - 1

CeilDiv(n, d) == (n + d - 1) \div d

(* USDC locked for a bid of q tokens at price p, and returned for the same *)
(* q when the bid is cancelled or left unfilled.                           *)
EscrowFor(q, p) == CeilDiv(q * p, Dollar)

FeeOn(gross) == (gross * FeeBps) \div BpsBase

(* Gross USDC of a swap of q tokens at price p.                            *)
SwapUsdc(q, p) == (q * p) \div Dollar

SwapNet(q, p) == SwapUsdc(q, p) - FeeOn(SwapUsdc(q, p))

(* What a taker that offered limit gets back for a swap at a better price. *)
Improvement(q, limit, p) ==
  IF p < limit THEN (q * (limit - p)) \div Dollar ELSE 0

(* Slips: a merge that pays its parties as if there were no fee, one that  *)
(* pays the maker the share of the taker, and one that leaves the dust of  *)
(* the truncations in the vault.                                           *)
GrossMergeNet(q) == q
SwappedMergeMaker(q, p) == ((q - FeeOn(q)) * (Dollar - p)) \div Dollar
DustyMergeMaker(q, p) == ((q - FeeOn(q)) * p) \div Dollar

(* A merge burns q pairs and splits the q lamports the vault held for them *)
(* among the fee, the taker (the No share) and the maker (the Yes share,   *)
(* which also takes the dust of the two truncations).                      *)
MergeNet(q) == q - FeeOn(q)
MergeTaker(q, p) == (MergeNet(q) * (Dollar - p)) \div Dollar
MergeMaker(q, p) ==
  LET share == (MergeNet(q) * p) \div Dollar
  IN  share + (MergeNet(q) - (share + MergeTaker(q, p)))
=============================================================================
