------------------------------- MODULE Vault -------------------------------
(***************************************************************************)
(* The alpha-backed vault (src/contracts/tusdt-vault-alpha) with the two   *)
(* contracts it drives, the token and the liquidation auction.  A message  *)
(* and every cross-contract call it makes are one atomic step.             *)
(*                                                                         *)
(* The chain is external: the alpha the contract holds as a coldkey, the   *)
(* TAO it gets for unstaking and the collateral price it reads are inputs  *)
(* of the step that reads them.                                            *)
(***************************************************************************)
EXTENDS Auction, Ratio

CONSTANTS
    VaultContract, Treasury, \* accounts
    Deployer,           \* becomes the first governance and platform
    Netuids, Hotkeys,
    MinimumBalance,     \* the existential deposit every account keeps
    MaxNative,          \* bound on the contract's native balance
    MaxStake,           \* bound on the alpha staked under one hotkey and netuid
    TimelockMs,         \* CONTRACT_PARAMS_TIMELOCK_MS
    MinDuration,        \* MIN_AUCTION_DURATION_MS
    MaxRatio,           \* the 100_000% ceiling on the two risk ratios
    DefaultParams,      \* default_contract_params
    DefaultGlobals,     \* default_global_params
    \* What callers and the chain choose from.
    Prices, AlphaAmounts, DebtAmounts, TaoReceipts,
    ParamChoices, GlobalChoices, RoleChoices, ChainAmounts,
    \* The token as an upgraded vault finds it (new_upgrade).
    InitialBalances, InitialAllowances

VARIABLES
    governance, platform, treasury, paused,
    approved_netuids, vault_hotkey,
    netuid_params,                  \* netuid -> params, None for the defaults
    pending_contract_params_updates,
    global_params, pending_global_params_update,
    vaults,                         \* <<owner, id>> -> vault
    vault_count, owner_total_debt,  \* per owner
    total_collateral_balance, netuid_total_collateral,
    liquidation_auctions,           \* <<owner, id>> -> auction id
    active_liquidation_count,
    native,                         \* the contract's native TAO
    stake                           \* <<hotkey, netuid>> -> the contract's alpha

adminVars == <<governance, platform, treasury, paused, approved_netuids>>
paramVars == <<netuid_params, pending_contract_params_updates,
               global_params, pending_global_params_update>>
bookkeepingVars == <<vaults, vault_count, owner_total_debt,
                     total_collateral_balance, netuid_total_collateral>>
liquidationVars == <<liquidation_auctions, active_liquidation_count>>
custodyVars == <<vault_hotkey, native, stake>>
vaultVars == <<adminVars, paramVars, bookkeepingVars, liquidationVars, custodyVars>>
vars == <<vaultVars, auctionVars, tokenVars>>

\* Accounts that sign calls; the two contracts only act through their code.
Signers == Users \ {VaultContract}

RatioValue == Nat
Params == [collateral_ratio : RatioValue, liquidation_ratio : RatioValue,
           liquidation_fee : RatioValue]
Globals == [transaction_fee : RatioValue, auction_duration_ms : Nat]
VaultRecord == [netuid : Netuids, collateral_balance : Balance,
                borrowed_token_balance : Balance]

----------------------------------------------------------------------------
(* Parameters and risk (params.rs, risk.rs). *)

\* Mutant: the two ratios are not compared.
ValidParams_NoMargin(p) ==
    /\ p.collateral_ratio \in RatioOne .. MaxRatio
    /\ p.liquidation_ratio \in RatioOne .. MaxRatio
    /\ p.liquidation_fee <= RatioOne

ValidParams(p) ==
    /\ p.collateral_ratio \in RatioOne .. MaxRatio
    /\ p.liquidation_ratio \in RatioOne .. MaxRatio
    /\ p.collateral_ratio > p.liquidation_ratio
    /\ p.liquidation_fee <= RatioOne

\* Mutant: the transaction fee may exceed 100%.
ValidGlobals_NoCap(g) ==
    /\ g.auction_duration_ms \in MinDuration .. MaxDuration

ValidGlobals(g) ==
    /\ g.transaction_fee <= RatioOne
    /\ g.auction_duration_ms \in MinDuration .. MaxDuration

ASSUME VaultConstants ==
    /\ {VaultContract, Treasury} \subseteq Accounts
    /\ Deployer \in Signers
    /\ VaultContract # AuctionContract
    /\ Owners \subseteq Signers /\ TokenUsers \subseteq Signers
    /\ IsFiniteSet(VaultKeys) /\ VaultIds \subseteq Nat
    /\ IsFiniteSet(Netuids) /\ IsFiniteSet(Hotkeys)
    /\ MinDuration \in Nat \ {0}
    /\ {MaxRatio, MinimumBalance, MaxNative, MaxStake, TimelockMs} \subseteq Nat
    /\ MinimumBalance <= MaxNative
    /\ DefaultParams \in Params /\ ValidParams(DefaultParams)
    /\ DefaultGlobals \in Globals /\ ValidGlobals(DefaultGlobals)
    /\ ParamChoices \subseteq Params /\ GlobalChoices \subseteq Globals
    /\ Prices \subseteq Nat
    /\ AlphaAmounts \subseteq Balance /\ DebtAmounts \subseteq Balance
    /\ TaoReceipts \subseteq Balance /\ ChainAmounts \subseteq Balance
    /\ RoleChoices \subseteq Signers
    /\ None \notin VaultRecord /\ None \notin Params
    /\ None \notin [params : Params, execute_after : Nat]
    /\ None \notin [params : Globals, execute_after : Nat]
    /\ InitialBalances \in [Accounts -> Balance]
    /\ InitialAllowances \in [Accounts \X Accounts -> Balance]
    /\ SumFunction(InitialBalances) \in Balance
    \* A contract that has just been instantiated has approved nobody.
    /\ \A spender \in Users : InitialAllowances[<<AuctionContract, spender>>] = 0

ParamsOf(netuid) ==
    IF netuid_params[netuid] = None THEN DefaultParams ELSE netuid_params[netuid]

CollateralValue(price, collateral) == MulValue(price, collateral)

MaxBorrowAllowed(netuid, price, collateral) ==
    DivValue(ParamsOf(netuid).collateral_ratio, CollateralValue(price, collateral))

LiquidationLimit(netuid, price, collateral) ==
    DivValue(ParamsOf(netuid).liquidation_ratio, CollateralValue(price, collateral))

IsLiquidatable(price, vault) ==
    vault.borrowed_token_balance
        > LiquidationLimit(vault.netuid, price, vault.collateral_balance)

LiquidationMinBid(netuid, debt) == debt + MulValue(ParamsOf(netuid).liquidation_fee, debt)

TransactionFee(amount) == MulValue(global_params.transaction_fee, amount)

\* Balance::try_from of the collateral's value.
Priced(price, collateral) == CollateralValue(price, collateral) <= MaxBalance

----------------------------------------------------------------------------
(* Vault storage (vault_access.rs) and the collateral totals. *)

\* Mutant: no liquidation guard on the owner's calls.
UsableVault_InLiquidation(key) ==
    vaults[key] # None

\* load_caller_vault: the caller's vault, refused while it is in liquidation.
UsableVault(key) ==
    /\ vaults[key] # None
    /\ liquidation_auctions[key] = None

\* save_vault with sync_owner_total_debt.
SaveVault(key, vault) ==
    LET owner == key[1]
        previous == IF vaults[key] = None THEN 0 ELSE vaults[key].borrowed_token_balance
        total == owner_total_debt[owner] - previous + vault.borrowed_token_balance
    IN  /\ owner_total_debt[owner] >= previous
        /\ total <= MaxBalance
        /\ owner_total_debt' = [owner_total_debt EXCEPT ![owner] = total]
        /\ vaults' = [vaults EXCEPT ![key] = vault]

AddToTotals(netuid, amount) ==
    /\ total_collateral_balance + amount <= MaxBalance
    /\ netuid_total_collateral[netuid] + amount <= MaxBalance
    /\ total_collateral_balance' = total_collateral_balance + amount
    /\ netuid_total_collateral' = [netuid_total_collateral EXCEPT ![netuid] = @ + amount]

\* Mutant: the contract-wide total is left as it was.
TakeFromTotals_NetuidOnly(netuid, amount) ==
    /\ total_collateral_balance >= amount
    /\ netuid_total_collateral[netuid] >= amount
    /\ total_collateral_balance' = total_collateral_balance
    /\ netuid_total_collateral' = [netuid_total_collateral EXCEPT ![netuid] = @ - amount]

TakeFromTotals(netuid, amount) ==
    /\ total_collateral_balance >= amount
    /\ netuid_total_collateral[netuid] >= amount
    /\ total_collateral_balance' = total_collateral_balance - amount
    /\ netuid_total_collateral' = [netuid_total_collateral EXCEPT ![netuid] = @ - amount]

\* The chain's stake calls: alpha enters or leaves the contract's coldkey.
StakeIn(netuid, amount) ==
    /\ stake[<<vault_hotkey, netuid>>] + amount <= MaxStake
    /\ stake' = [stake EXCEPT ![<<vault_hotkey, netuid>>] = @ + amount]

StakeOut(netuid, amount) ==
    /\ stake[<<vault_hotkey, netuid>>] >= amount
    /\ stake' = [stake EXCEPT ![<<vault_hotkey, netuid>>] = @ - amount]

----------------------------------------------------------------------------
(* The life of a vault. *)

\* The creation fee passes through to the treasury and the excess back to the
\* caller, so the contract's own TAO does not change.
CreateAlphaVault(caller, amount, netuid) ==
    LET id == vault_count[caller]
    IN  /\ ~paused
        /\ netuid \in approved_netuids
        /\ amount > 0
        /\ id \in VaultIds
        /\ StakeIn(netuid, amount)
        /\ SaveVault(<<caller, id>>, [netuid |-> netuid, collateral_balance |-> amount,
                                     borrowed_token_balance |-> 0])
        /\ AddToTotals(netuid, amount)
        /\ vault_count' = [vault_count EXCEPT ![caller] = id + 1]
        /\ UNCHANGED <<adminVars, paramVars, liquidationVars, vault_hotkey, native,
                       auctionVars, tokenVars>>

AddAlphaCollateral(key, amount) ==
    LET vault == vaults[key]
    IN  /\ ~paused
        /\ UsableVault(key)
        /\ amount > 0
        /\ vault.collateral_balance + amount <= MaxBalance
        /\ StakeIn(vault.netuid, amount)
        /\ AddToTotals(vault.netuid, amount)
        /\ SaveVault(key, [vault EXCEPT !.collateral_balance = @ + amount])
        /\ UNCHANGED <<adminVars, paramVars, vault_count, liquidationVars, vault_hotkey,
                       native, auctionVars, tokenVars>>

\* Borrowing nothing saves the vault as it is.
BorrowToken(key, amount, price) ==
    LET vault == vaults[key]
        projected == vault.borrowed_token_balance + amount
    IN  /\ ~paused
        /\ UsableVault(key)
        /\ amount > 0
        /\ Priced(price, vault.collateral_balance)
        /\ projected <= MaxBorrowAllowed(vault.netuid, price, vault.collateral_balance)
        /\ SaveVault(key, [vault EXCEPT !.borrowed_token_balance = projected])
        /\ Mint(VaultContract, key[1], amount)
        /\ UNCHANGED <<adminVars, paramVars, vault_count, total_collateral_balance,
                       netuid_total_collateral, liquidationVars, custodyVars, auctionVars>>

RepayToken(key, amount) ==
    LET vault == vaults[key]
    IN  /\ ~paused
        /\ UsableVault(key)
        /\ amount > 0
        /\ amount <= vault.borrowed_token_balance
        /\ Burn(VaultContract, key[1], amount)
        /\ SaveVault(key, [vault EXCEPT !.borrowed_token_balance = @ - amount])
        /\ UNCHANGED <<adminVars, paramVars, vault_count, total_collateral_balance,
                       netuid_total_collateral, liquidationVars, custodyVars, auctionVars>>

\* Mutant: the ratio is checked on the collateral before the release.
DebtStaysCovered_Before(vault, amount, price) ==
    /\ Priced(price, vault.collateral_balance)
    /\ vault.borrowed_token_balance
          <= MaxBorrowAllowed(vault.netuid, price, vault.collateral_balance)

DebtStaysCovered(vault, amount, price) ==
    LET remaining == vault.collateral_balance - amount
    IN  /\ Priced(price, remaining)
        /\ vault.borrowed_token_balance <= MaxBorrowAllowed(vault.netuid, price, remaining)

ReleaseAlphaCollateral(key, amount, price) ==
    LET vault == vaults[key]
    IN  /\ ~paused
        /\ UsableVault(key)
        /\ vault.collateral_balance >= amount
        /\ vault.borrowed_token_balance > 0 => DebtStaysCovered(vault, amount, price)
        /\ StakeOut(vault.netuid, amount)
        /\ TakeFromTotals(vault.netuid, amount)
        /\ SaveVault(key, [vault EXCEPT !.collateral_balance = @ - amount])
        /\ UNCHANGED <<adminVars, paramVars, vault_count, liquidationVars, vault_hotkey,
                       native, auctionVars, tokenVars>>

----------------------------------------------------------------------------
(* Liquidation. *)

\* Mutant: the vault is not marked with its auction.
EnterLiquidation_Unmarked(key, auction_id) ==
    /\ UNCHANGED liquidation_auctions
    /\ active_liquidation_count' = active_liquidation_count + 1

EnterLiquidation(key, auction_id) ==
    /\ liquidation_auctions' = [liquidation_auctions EXCEPT ![key] = auction_id]
    /\ active_liquidation_count' = active_liquidation_count + 1

\* Anyone may trigger it.  All the vault's alpha is unstaked for tao.
TriggerLiquidationAuction(key, price, tao) ==
    LET vault == vaults[key]
        collateral == vault.collateral_balance
        debt == vault.borrowed_token_balance
        min_bid == LiquidationMinBid(vault.netuid, debt)
    IN  /\ ~paused
        /\ UsableVault(key)
        /\ Priced(price, collateral)
        /\ IsLiquidatable(price, vault)
        /\ StakeOut(vault.netuid, collateral)
        /\ tao > 0
        /\ native + tao <= MaxNative
        /\ native' = native + tao
        /\ TakeFromTotals(vault.netuid, collateral)
        /\ SaveVault(key, [vault EXCEPT !.collateral_balance = 0])
        /\ min_bid <= MaxBalance
        /\ CreateAuction(VaultContract, key, tao, debt, min_bid,
                         global_params.auction_duration_ms)
        /\ EnterLiquidation(key, auction_count)
        /\ UNCHANGED <<adminVars, paramVars, vault_count, vault_hotkey, tokenVars>>

\* env().transfer: the sender must keep its existential deposit.
CanSpendNative(amount) == native >= amount + MinimumBalance

\* Mutant: the whole winning bid is burned.
TakeWinningBid_BurnsAll(id, debt_cleared) ==
    /\ WinningBidReady(VaultContract, id)
    /\ CanMove(balances, AuctionContract, VaultContract, WinningBidOf(id))
    /\ MarkWinningBidPaid(id)
    /\ total_supply >= WinningBidOf(id)
    /\ balances' = Debited(balances, AuctionContract, WinningBidOf(id))
    /\ total_supply' = total_supply - WinningBidOf(id)
    /\ UNCHANGED <<tokenRoles, allowances>>

\* transfer_winning_bid, then burn: the bid comes to the vault, the debt it
\* covers is burned, and the rest stays with the vault.
TakeWinningBid(id, debt_cleared) ==
    LET with_bid == Moved(balances, AuctionContract, VaultContract, WinningBidOf(id))
    IN  /\ WinningBidReady(VaultContract, id)
        /\ CanMove(balances, AuctionContract, VaultContract, WinningBidOf(id))
        /\ MarkWinningBidPaid(id)
        /\ VaultContract \in minters
        /\ with_bid[VaultContract] >= debt_cleared
        /\ total_supply >= debt_cleared
        /\ balances' = Debited(with_bid, VaultContract, debt_cleared)
        /\ total_supply' = total_supply - debt_cleared
        /\ UNCHANGED <<tokenRoles, allowances>>

\* Mutant: the gate is not released.
LeaveLiquidation_GateKept(key) ==
    /\ liquidation_auctions' = [liquidation_auctions EXCEPT ![key] = None]
    /\ UNCHANGED active_liquidation_count

LeaveLiquidation(key) ==
    /\ liquidation_auctions' = [liquidation_auctions EXCEPT ![key] = None]
    /\ active_liquidation_count > 0
    /\ active_liquidation_count' = active_liquidation_count - 1

\* Anyone may settle, paused or not.  The collateral's TAO goes to the treasury
\* (the transaction fee) and to the winner (the rest).
SettleLiquidationAuction(key) ==
    LET id == liquidation_auctions[key]
        auction == auctions[id]
        vault == vaults[key]
        debt_cleared == Min({auction.debt_balance, vault.borrowed_token_balance})
        sold == auction.collateral_balance
    IN  /\ id # None
        /\ auction # None
        /\ auction.is_finalized
        /\ auction.highest_bidder # None
        /\ vault # None
        /\ SaveVault(key, [vault EXCEPT !.borrowed_token_balance = @ - debt_cleared])
        /\ TakeWinningBid(id, debt_cleared)
        /\ TransactionFee(sold) <= sold
        /\ CanSpendNative(sold)
        /\ native' = native - sold
        /\ LeaveLiquidation(key)
        /\ UNCHANGED <<adminVars, paramVars, vault_count, total_collateral_balance,
                       netuid_total_collateral, vault_hotkey, stake, now, rolesVars,
                       auction_count, auctions, auction_bidder_bids, indexVars>>

----------------------------------------------------------------------------
(* Parameters: scheduled by governance, executed by anyone after the delay.  *)

Scheduled(params) == [params |-> params, execute_after |-> now + TimelockMs]

SetContractParams(caller, netuid, params) ==
    /\ caller = governance
    /\ ValidParams(params)
    /\ pending_contract_params_updates' =
          [pending_contract_params_updates EXCEPT ![netuid] = Scheduled(params)]
    /\ UNCHANGED <<adminVars, netuid_params, global_params, pending_global_params_update,
                   bookkeepingVars, liquidationVars, custodyVars, auctionVars, tokenVars>>

ExecuteContractParamsUpdate(netuid) ==
    LET pending == pending_contract_params_updates[netuid]
    IN  /\ pending # None
        /\ now >= pending.execute_after
        /\ ValidParams(pending.params)
        /\ netuid_params' = [netuid_params EXCEPT ![netuid] = pending.params]
        /\ pending_contract_params_updates' =
              [pending_contract_params_updates EXCEPT ![netuid] = None]
        /\ UNCHANGED <<adminVars, global_params, pending_global_params_update,
                       bookkeepingVars, liquidationVars, custodyVars, auctionVars, tokenVars>>

CancelContractParamsUpdate(caller, netuid) ==
    /\ caller = governance
    /\ pending_contract_params_updates[netuid] # None
    /\ pending_contract_params_updates' =
          [pending_contract_params_updates EXCEPT ![netuid] = None]
    /\ UNCHANGED <<adminVars, netuid_params, global_params, pending_global_params_update,
                   bookkeepingVars, liquidationVars, custodyVars, auctionVars, tokenVars>>

SetGlobalParams(caller, globals) ==
    /\ caller = governance
    /\ ValidGlobals(globals)
    /\ pending_global_params_update' = Scheduled(globals)
    /\ UNCHANGED <<adminVars, netuid_params, pending_contract_params_updates, global_params,
                   bookkeepingVars, liquidationVars, custodyVars, auctionVars, tokenVars>>

ExecuteGlobalParamsUpdate ==
    LET pending == pending_global_params_update
    IN  /\ pending # None
        /\ now >= pending.execute_after
        /\ ValidGlobals(pending.params)
        /\ global_params' = pending.params
        /\ pending_global_params_update' = None
        /\ UNCHANGED <<adminVars, netuid_params, pending_contract_params_updates,
                       bookkeepingVars, liquidationVars, custodyVars, auctionVars, tokenVars>>

CancelGlobalParamsUpdate(caller) ==
    /\ caller = governance
    /\ pending_global_params_update # None
    /\ pending_global_params_update' = None
    /\ UNCHANGED <<adminVars, netuid_params, pending_contract_params_updates, global_params,
                   bookkeepingVars, liquidationVars, custodyVars, auctionVars, tokenVars>>

----------------------------------------------------------------------------
(* Governance. *)

\* sync_child_governance: the auction follows (the oracle is another module's).
UpdateGovernance(caller, new_governance) ==
    /\ caller = governance
    /\ auction_controller = VaultContract
    /\ auction_governance' = new_governance
    /\ governance' = new_governance
    /\ UNCHANGED <<platform, treasury, paused, approved_netuids, paramVars, bookkeepingVars,
                   liquidationVars, custodyVars, now, auction_controller, auction_admin,
                   bookVars, indexVars, tokenVars>>

UpdatePlatform(caller, new_platform) ==
    /\ caller = governance
    /\ platform' = new_platform
    /\ UNCHANGED <<governance, treasury, paused, approved_netuids, paramVars,
                   bookkeepingVars, liquidationVars, custodyVars, auctionVars, tokenVars>>

UpdateTreasury(caller, new_treasury) ==
    /\ caller = governance
    /\ treasury' = new_treasury
    /\ UNCHANGED <<governance, platform, paused, approved_netuids, paramVars,
                   bookkeepingVars, liquidationVars, custodyVars, auctionVars, tokenVars>>

SetPaused(value) ==
    /\ paused' = value
    /\ UNCHANGED <<governance, platform, treasury, approved_netuids, paramVars,
                   bookkeepingVars, liquidationVars, custodyVars, auctionVars, tokenVars>>

Pause(caller) == caller \in {governance, platform} /\ SetPaused(TRUE)
Unpause(caller) == caller = governance /\ SetPaused(FALSE)

\* A netuid that still backs vaults cannot be withdrawn.
SetApprovedNetuid(caller, netuid, approved) ==
    /\ caller = governance
    /\ \/ approved /\ approved_netuids' = approved_netuids \cup {netuid}
       \/ /\ ~approved
          /\ netuid_total_collateral[netuid] = 0
          /\ approved_netuids' = approved_netuids \ {netuid}
    /\ UNCHANGED <<governance, platform, treasury, paused, paramVars, bookkeepingVars,
                   liquidationVars, custodyVars, auctionVars, tokenVars>>

----------------------------------------------------------------------------
(* What governance may take out of the contract. *)

ClaimSurplusTusdt(caller, amount) ==
    LET claim == Min({amount, balances[VaultContract]})
    IN  /\ caller \in {governance, platform}
        /\ claim > 0
        /\ Transfer(VaultContract, treasury, claim)
        /\ UNCHANGED <<vaultVars, auctionVars>>

\* Mutant: the gate is not checked.
NoActiveLiquidations_Open == TRUE

NoActiveLiquidations == active_liquidation_count = 0

\* Mutant: the whole stake is claimed.
ClaimExcessAlpha_All(caller, netuid) ==
    /\ caller = governance
    /\ NoActiveLiquidations
    /\ stake[<<vault_hotkey, netuid>>] > netuid_total_collateral[netuid]
    /\ stake' = [stake EXCEPT ![<<vault_hotkey, netuid>>] = 0]
    /\ UNCHANGED <<adminVars, paramVars, bookkeepingVars, liquidationVars, vault_hotkey,
                   native, auctionVars, tokenVars>>

\* The TAO received for the excess goes straight on to the treasury.
ClaimExcessAlpha(caller, netuid) ==
    /\ caller = governance
    /\ NoActiveLiquidations
    /\ stake[<<vault_hotkey, netuid>>] > netuid_total_collateral[netuid]
    /\ stake' = [stake EXCEPT ![<<vault_hotkey, netuid>>] = netuid_total_collateral[netuid]]
    /\ UNCHANGED <<adminVars, paramVars, bookkeepingVars, liquidationVars, vault_hotkey,
                   native, auctionVars, tokenVars>>

\* Only the stake of the netuids listed moves to the new hotkey.
SetVaultHotkey(caller, new_hotkey, netuids) ==
    /\ caller = governance
    /\ NoActiveLiquidations
    /\ new_hotkey # vault_hotkey
    /\ vault_hotkey' = new_hotkey
    /\ \A n \in netuids : stake[<<new_hotkey, n>>] + stake[<<vault_hotkey, n>>] <= MaxStake
    /\ stake' = [hn \in Hotkeys \X Netuids |->
          IF hn[2] \notin netuids THEN stake[hn]
          ELSE IF hn[1] = vault_hotkey THEN 0
          ELSE IF hn[1] = new_hotkey THEN stake[hn] + stake[<<vault_hotkey, hn[2]>>]
          ELSE stake[hn]]
    /\ UNCHANGED <<adminVars, paramVars, bookkeepingVars, liquidationVars, native,
                   auctionVars, tokenVars>>

TransferNativeToTreasury(caller) ==
    /\ caller = governance
    /\ NoActiveLiquidations
    /\ native > MinimumBalance
    /\ native' = MinimumBalance
    /\ UNCHANGED <<adminVars, paramVars, bookkeepingVars, liquidationVars, vault_hotkey,
                   stake, auctionVars, tokenVars>>

----------------------------------------------------------------------------
(* The chain: TAO sent to the contract, emissions on its stake. *)

ReceiveNative(amount) ==
    /\ amount > 0
    /\ native + amount <= MaxNative
    /\ native' = native + amount
    /\ UNCHANGED <<adminVars, paramVars, bookkeepingVars, liquidationVars, vault_hotkey,
                   stake, auctionVars, tokenVars>>

Emission(hotkey, netuid, amount) ==
    /\ amount > 0
    /\ stake[<<hotkey, netuid>>] + amount <= MaxStake
    /\ stake' = [stake EXCEPT ![<<hotkey, netuid>>] = @ + amount]
    /\ UNCHANGED <<adminVars, paramVars, bookkeepingVars, liquidationVars, vault_hotkey,
                   native, auctionVars, tokenVars>>

----------------------------------------------------------------------------
(* The system.  The vault's child contracts keep it as their controller;    *)
(* handing them to another vault (set_controller) is not a step here.       *)

\* new_upgrade over a token in use: a new auction, no vaults, defaults.
Init ==
    /\ token_controller = VaultContract
    /\ minters = {VaultContract}
    /\ balances = InitialBalances
    /\ allowances = InitialAllowances
    /\ total_supply = SumFunction(InitialBalances)
    /\ AuctionInit(VaultContract, Deployer)
    /\ governance = Deployer
    /\ platform = Deployer
    /\ treasury = Treasury
    /\ paused = FALSE
    /\ approved_netuids = {}
    /\ vault_hotkey \in Hotkeys
    /\ netuid_params = [n \in Netuids |-> None]
    /\ pending_contract_params_updates = [n \in Netuids |-> None]
    /\ global_params = DefaultGlobals
    /\ pending_global_params_update = None
    /\ vaults = [key \in VaultKeys |-> None]
    /\ vault_count = [o \in Owners |-> 0]
    /\ owner_total_debt = [o \in Owners |-> 0]
    /\ total_collateral_balance = 0
    /\ netuid_total_collateral = [n \in Netuids |-> 0]
    /\ liquidation_auctions = [key \in VaultKeys |-> None]
    /\ active_liquidation_count = 0
    /\ native = MinimumBalance
    /\ stake = [hn \in Hotkeys \X Netuids |-> 0]

VaultStep ==
    \/ \E caller \in Owners, amount \in AlphaAmounts, netuid \in Netuids :
          CreateAlphaVault(caller, amount, netuid)
    \/ \E key \in VaultKeys, amount \in AlphaAmounts : AddAlphaCollateral(key, amount)
    \/ \E key \in VaultKeys, amount \in DebtAmounts, price \in Prices :
          BorrowToken(key, amount, price)
    \/ \E key \in VaultKeys, amount \in DebtAmounts : RepayToken(key, amount)
    \/ \E key \in VaultKeys, amount \in AlphaAmounts, price \in Prices :
          ReleaseAlphaCollateral(key, amount, price)
    \/ \E key \in VaultKeys, price \in Prices, tao \in TaoReceipts :
          TriggerLiquidationAuction(key, price, tao)
    \/ \E key \in VaultKeys : SettleLiquidationAuction(key)

ParamStep ==
    \/ \E netuid \in Netuids :
          \/ \E params \in ParamChoices : SetContractParams(governance, netuid, params)
          \/ ExecuteContractParamsUpdate(netuid)
          \/ CancelContractParamsUpdate(governance, netuid)
    \/ \E globals \in GlobalChoices : SetGlobalParams(governance, globals)
    \/ ExecuteGlobalParamsUpdate
    \/ CancelGlobalParamsUpdate(governance)

GovernanceStep ==
    \/ \E account \in RoleChoices :
          \/ UpdateGovernance(governance, account)
          \/ UpdatePlatform(governance, account)
          \/ UpdateTreasury(governance, account)
    \/ \E caller \in RoleChoices : Pause(caller) \/ Unpause(caller)
    \/ \E netuid \in Netuids, approved \in BOOLEAN :
          SetApprovedNetuid(governance, netuid, approved)
    \/ \E caller \in RoleChoices, amount \in DebtAmounts : ClaimSurplusTusdt(caller, amount)
    \/ \E netuid \in Netuids : ClaimExcessAlpha(governance, netuid)
    \/ \E hotkey \in Hotkeys, netuids \in SUBSET Netuids :
          SetVaultHotkey(governance, hotkey, netuids)
    \/ TransferNativeToTreasury(governance)

ChainStep ==
    \E amount \in ChainAmounts :
        \/ ReceiveNative(amount)
        \/ \E hotkey \in Hotkeys, netuid \in Netuids : Emission(hotkey, netuid, amount)

AuctionStep ==
    /\ \/ \E bidder \in Signers, a \in AuctionIds, amount \in BidAmounts :
             PlaceBid(bidder, a, amount)
       \/ \E a \in AuctionIds : FinalizeAuction(a)
       \/ \E caller \in Signers, a \in AuctionIds, b \in BidIds : WithdrawRefund(caller, a, b)
       \/ \E admin \in AdminChoices : SetAdmin(auction_governance, admin)
       \/ Tick
    /\ UNCHANGED vaultVars

TokenStep ==
    /\ \E caller \in TokenUsers : HolderStep(caller, TokenPeers)
    /\ UNCHANGED <<vaultVars, auctionVars>>

Next ==
    VaultStep \/ ParamStep \/ GovernanceStep \/ ChainStep \/ AuctionStep \/ TokenStep

Spec == Init /\ [][Next]_vars

----------------------------------------------------------------------------
AdminTypeOK ==
    /\ {governance, platform, treasury} \subseteq Accounts
    /\ paused \in BOOLEAN
    /\ approved_netuids \subseteq Netuids
ParamTypeOK ==
    /\ netuid_params \in [Netuids -> Params \cup {None}]
    /\ pending_contract_params_updates
          \in [Netuids -> [params : Params, execute_after : Nat] \cup {None}]
    /\ global_params \in Globals
    /\ pending_global_params_update \in [params : Globals, execute_after : Nat] \cup {None}
BookkeepingTypeOK ==
    /\ vaults \in [VaultKeys -> VaultRecord \cup {None}]
    /\ vault_count \in [Owners -> Nat]
    /\ owner_total_debt \in [Owners -> Balance]
    /\ total_collateral_balance \in Balance
    /\ netuid_total_collateral \in [Netuids -> Balance]
LiquidationTypeOK ==
    /\ liquidation_auctions \in [VaultKeys -> AuctionIds \cup {None}]
    /\ active_liquidation_count \in Nat
CustodyTypeOK ==
    /\ vault_hotkey \in Hotkeys
    /\ native \in 0 .. MaxNative
    /\ stake \in [Hotkeys \X Netuids -> 0 .. MaxStake]

VaultTypeOK ==
    AdminTypeOK /\ ParamTypeOK /\ BookkeepingTypeOK /\ LiquidationTypeOK /\ CustodyTypeOK

TypeOK == TokenTypeOK /\ AuctionTypeOK /\ VaultTypeOK

InLiquidation == {key \in VaultKeys : liquidation_auctions[key] # None}
Vaults == {key \in VaultKeys : vaults[key] # None}
\* What each vault owes, and backs it with on a netuid; 0 where there is none.
DebtOf ==
    [key \in VaultKeys |-> IF vaults[key] = None THEN 0 ELSE vaults[key].borrowed_token_balance]
OwedBy(owner) == [key \in VaultKeys |-> IF key[1] = owner THEN DebtOf[key] ELSE 0]
CollateralOn(netuid) ==
    [key \in VaultKeys |->
        IF vaults[key] # None /\ vaults[key].netuid = netuid
        THEN vaults[key].collateral_balance ELSE 0]

\* A vault in liquidation is marked with an auction that is its own, that sells
\* what was unstaked for exactly the debt the vault still owes, and whose
\* winning bid has not been paid out; its collateral is gone.
WinningBidHeld(a) ==
    \A b \in BidsOf(a) : auctions[a].highest_bid_id = b => ~auction_bids[<<a, b>>].is_withdrawn
SellsVault(a, key) ==
    /\ auctions[a] # None
    /\ auctions[a].vault = key
    /\ vaults[key] # None
    /\ vaults[key].collateral_balance = 0
    /\ vaults[key].borrowed_token_balance = auctions[a].debt_balance
    /\ auctions[a].debt_balance > 0
    /\ auctions[a].min_bid >= auctions[a].debt_balance
    /\ WinningBidHeld(a)
MarkerMatchesAuction == \A key \in InLiquidation : SellsVault(liquidation_auctions[key], key)

\* The auction contract and the vault agree on which vaults are being sold: an
\* auction that is not finalized is the one its vault is marked with.
OpenAuctionIsMarked ==
    \A a \in Unfinalized : liquidation_auctions[auctions[a].vault] = a

\* Both contracts record the same sales, whatever their users call in between: a
\* marked vault is sold by its auction, and what is still sold is marked.
RecordsAgree == MarkerMatchesAuction /\ OpenAuctionIsMarked

\* The gate on hotkey moves, excess claims and native sweeps counts exactly the
\* vaults in liquidation.
LiquidationCountExact == active_liquidation_count = Cardinality(InLiquidation)

\* Outside liquidation, debt is never left without collateral behind it.
NoUnbackedDebt ==
    \A key \in Vaults \ InLiquidation :
        vaults[key].borrowed_token_balance > 0 => vaults[key].collateral_balance > 0

\* The contract holds the TAO of every auction it has not settled.
TaoOnSale ==
    [key \in VaultKeys |->
        IF liquidation_auctions[key] = None THEN 0
        ELSE auctions[liquidation_auctions[key]].collateral_balance]
NativeCoversAuctions == native >= MinimumBalance + SumFunction(TaoOnSale)

\* Every token was there at the start or is owed by some vault: minting and
\* burning follow the debt exactly, through liquidation too.
SupplyFollowsDebt == total_supply = SumFunction(InitialBalances) + SumFunction(DebtOf)

\* The totals the contract keeps are the sums over its vaults.
TotalsExact ==
    /\ \A n \in Netuids : netuid_total_collateral[n] = SumFunction(CollateralOn(n))
    /\ total_collateral_balance = SumFunction(netuid_total_collateral)
    /\ \A o \in Owners : owner_total_debt[o] = SumFunction(OwedBy(o))

\* The alpha that backs the vaults never leaves the contract's custody, under
\* whichever hotkeys it is staked.
AlphaUnder(netuid) == [hotkey \in Hotkeys |-> stake[<<hotkey, netuid>>]]
StakeCoversCollateral ==
    \A n \in Netuids : SumFunction(AlphaUnder(n)) >= netuid_total_collateral[n]

\* Once an auction is finalized nothing the vault, the auction, the token or
\* their users can do makes the settlement fail, paused or not.
SettlementNeverBlocked ==
    \A key \in InLiquidation :
        auctions[liquidation_auctions[key]].is_finalized
            => ENABLED SettleLiquidationAuction(key)

\* Where an auction stands: the vault is marked with it until it is settled.
StageOf(a) ==
    IF ~auctions[a].is_finalized THEN "open"
    ELSE IF liquidation_auctions[auctions[a].vault] = a THEN "decided"
    ELSE "settled"
SaleOf(a) ==
    IF auctions[a] = None THEN [stage |-> "none"]
    ELSE [vault |-> auctions[a].vault, debt |-> auctions[a].debt_balance,
          lot |-> auctions[a].collateral_balance, price |-> auctions[a].highest_bid,
          winner |-> auctions[a].highest_bidder, stage |-> StageOf(a)]
Sale == INSTANCE Sales WITH
    NoWinner <- None,
    sales <- [a \in AuctionIds |-> SaleOf(a)],
    owed <- DebtOf,
    supply <- total_supply,
    held <- native

\* Liquidation is the sale of a debt, whatever the users, governance and the
\* chain do meanwhile: it is opened for what the vault owes, is bid up, decided
\* and settled once, and until then neither the debt nor the lot can be touched.
ImplementsSales == Sale!SaleSpec

\* However governance sets the ratios, a vault that has just borrowed all it may
\* at a price cannot be liquidated at that price, whatever its collateral.
BorrowNeverLiquidatable ==
    \A n \in Netuids, price \in Prices, collateral \in AlphaAmounts :
        MaxBorrowAllowed(n, price, collateral) <= LiquidationLimit(n, price, collateral)
============================================================================
