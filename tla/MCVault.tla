------------------------------ MODULE MCVault ------------------------------
(***************************************************************************)
(* The vault with its token and its auction, for TLC.  Ratios are in       *)
(* tenths: 150% to borrow, 120% to be liquidated, 10% liquidation fee, 20% *)
(* transaction fee.                                                        *)
(***************************************************************************)
EXTENDS Vault, TLC

CONSTANTS alice, bob, gov, auctionC, vaultC, treasuryC

mcAccounts == {alice, bob, gov, auctionC, vaultC, treasuryC}
mcDefaultParams == [collateral_ratio |-> 15, liquidation_ratio |-> 12, liquidation_fee |-> 1]
mcDefaultGlobals == [transaction_fee |-> 2, auction_duration_ms |-> 1]
\* No hotkey is special.
mcSymmetry == Permutations(Hotkeys)
\* Bidders come with tokens and have approved the auction for them.
mcBalances == [a \in mcAccounts |-> IF a = bob THEN 8 ELSE IF a = alice THEN 1 ELSE 0]
mcAllowances ==
    [p \in mcAccounts \X mcAccounts |->
        IF p[1] \in {alice, bob} /\ p[2] = auctionC THEN 50 ELSE 0]

\* Updates governance schedules: one valid, one refused because a vault at its
\* borrowing limit would already be liquidatable.
mcParamChoices ==
    {[collateral_ratio |-> 20, liquidation_ratio |-> 10, liquidation_fee |-> 0],
     [collateral_ratio |-> 12, liquidation_ratio |-> 15, liquidation_fee |-> 1]}
mcGlobalChoices ==
    {[transaction_fee |-> 10, auction_duration_ms |-> 2],
     [transaction_fee |-> 12, auction_duration_ms |-> 1]}
============================================================================
