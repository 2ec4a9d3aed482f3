------------------------- MODULE MarketVaultProofs -------------------------
(***************************************************************************)
(* The vault ledger is solvent and pays for one outcome only, whatever the *)
(* amounts, the window and the number of overrides.                        *)
(***************************************************************************)
EXTENDS MarketVault, TLAPS

(* The three invariants need each other: a burn keeps the balance          *)
(* non-negative because the vault backs the tokens burned, and the backing *)
(* survives an override because the supplies are equal while one can come. *)
IInv == TypeOK /\ Solvent /\ WindowsCounted

(* The empty ledger is balanced.                                           *)
LEMMA InitInv == Init => IInv
BY VaultAssumption DEF Init, IInv, TypeOK, Solvent, WindowsCounted, WinningTokens, Final, Settled

(* One more override is one more window.                                   *)
LEMMA OneMoreWindow ==
  ASSUME NEW w \in Nat, NEW n \in Nat
  PROVE  w * ((n + 1) + 1) = w * (n + 1) + w
OBVIOUS

(* A mint adds as much to the vault as to either supply.                   *)
LEMMA MintInv ==
  ASSUME IInv, NEW q \in Amounts, Mint(q)
  PROVE  IInv'
BY VaultAssumption
DEF IInv, TypeOK, Solvent, WindowsCounted, WinningTokens, Final, Settled, Mint, settlement

(* A pair burned is a dollar less in the vault and a token less of each.   *)
LEMMA BurnPairsInv ==
  ASSUME IInv, NEW q \in Amounts, BurnPairs(q)
  PROVE  IInv'
BY VaultAssumption
DEF IInv, TypeOK, Solvent, WindowsCounted, WinningTokens, Final, Settled, BurnPairs,
    EnoughPairs, settlement

(* The vault pays for winning tokens only, and only when no override can   *)
(* turn them into losing ones.                                             *)
LEMMA BurnWinningInv ==
  ASSUME IInv, NEW q \in Amounts, BurnWinning(q)
  PROVE  IInv'
<1> USE VaultAssumption DEF IInv, TypeOK, Solvent, WindowsCounted, WinningTokens, Final,
        Settled, BurnWinning, settlement
<1>1. CASE outcome = 1
  BY <1>1
<1>2. CASE outcome = 2
  BY <1>2
<1> QED BY <1>1, <1>2

(* Nothing backs the losing tokens any more.                               *)
LEMMA BurnLosingInv ==
  ASSUME IInv, NEW q \in Amounts, BurnLosing(q)
  PROVE  IInv'
<1> USE VaultAssumption DEF IInv, TypeOK, Solvent, WindowsCounted, WinningTokens, Final,
        Settled, BurnLosing, settlement
<1>1. CASE outcome = 1
  BY <1>1
<1>2. CASE outcome = 2
  BY <1>2
<1> QED BY <1>1, <1>2

(* Before settlement the supplies are equal, so either may win.            *)
LEMMA SettleInv ==
  ASSUME IInv, NEW result \in {1, 2}, Settle(result)
  PROVE  IInv'
<1> USE VaultAssumption DEF IInv, Settle, ledger
<1>1. TypeOK'
  BY DEF TypeOK
<1>2. Solvent'
  BY DEF TypeOK, Solvent, WinningTokens, Final, Settled
<1>3. WindowsCounted'
  BY DEF TypeOK, WindowsCounted, Settled
<1> QED BY <1>1, <1>2, <1>3

(* An override only comes while the supplies are still equal.              *)
LEMMA OverrideInv ==
  ASSUME IInv, NEW result \in {1, 2}, Override(result)
  PROVE  IInv'
<1> USE VaultAssumption DEF IInv, Override, NextDeadline, WindowOpen, ledger
<1>1. TypeOK'
  BY DEF TypeOK, Settled
<1>2. Solvent'
  BY DEF TypeOK, Solvent, WinningTokens, Final, Settled
<1>3. WindowsCounted'
  BY OneMoreWindow DEF TypeOK, WindowsCounted, Settled
<1> QED BY <1>1, <1>2, <1>3

(* Time can only make an outcome final.                                    *)
LEMMA TickInv ==
  ASSUME IInv, Tick
  PROVE  IInv'
BY VaultAssumption
DEF IInv, TypeOK, Solvent, WindowsCounted, WinningTokens, Final, Settled, Tick, ledger, settlement

(* Every step keeps the invariant.                                         *)
LEMMA StepInv == IInv /\ [Next]_vars => IInv'
<1> SUFFICES ASSUME IInv, [Next]_vars
             PROVE  IInv'
  OBVIOUS
<1>1. ASSUME NEW q \in Amounts, Mint(q) \/ BurnPairs(q) \/ BurnWinning(q) \/ BurnLosing(q)
      PROVE  IInv'
  BY <1>1, MintInv, BurnPairsInv, BurnWinningInv, BurnLosingInv
<1>2. ASSUME NEW result \in {1, 2}, Settle(result) \/ Override(result)
      PROVE  IInv'
  BY <1>2, SettleInv, OverrideInv
<1>3. CASE Tick
  BY <1>3, TickInv
<1>4. CASE UNCHANGED vars
  BY <1>4 DEF IInv, TypeOK, Solvent, WindowsCounted, WinningTokens, Final, Settled, vars,
               ledger, settlement
<1> QED BY <1>1, <1>2, <1>3, <1>4 DEF Next

(* The invariant holds in every behaviour.                                 *)
LEMMA Inductive == Spec => []IInv
BY InitInv, StepInv, PTL DEF Spec

(* The ledger's balances and counters never leave their types: nothing is  *)
(* ever overdrawn.                                                         *)
THEOREM VaultTypeCorrect == Spec => []TypeOK
BY Inductive, PTL DEF IInv

(* The vault holds a dollar for every winning token.                       *)
THEOREM VaultSolvent == Spec => []Solvent
BY Inductive, PTL DEF IInv

(* The override window grows by one window for each override.              *)
THEOREM VaultWindowsCounted == Spec => []WindowsCounted
BY Inductive, PTL DEF IInv

(* Only an override changes the outcome of a settled market, and it does so*)
(* only while the supplies are equal.                                      *)
LEMMA OutcomeStep ==
  IInv /\ [Next]_vars => (yesSupply # noSupply => outcome' = outcome)
<1> SUFFICES ASSUME IInv, [Next]_vars, yesSupply # noSupply
             PROVE  outcome' = outcome
  OBVIOUS
<1>1. Final
  BY DEF IInv, Solvent
<1>2. ~WindowOpen /\ Settled
  BY <1>1 DEF Final, WindowOpen, IInv, TypeOK
<1> QED
  BY <1>2 DEF Next, Mint, BurnPairs, BurnWinning, BurnLosing, Settle, Override, Tick, vars,
              settlement

(* Nobody is paid for an outcome that is then turned.                      *)
THEOREM VaultOutcomeFinal == Spec => OutcomeFinal
BY Inductive, OutcomeStep, PTL DEF Spec, OutcomeFinal
=============================================================================
