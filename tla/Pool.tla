-------------------------------- MODULE Pool --------------------------------
(***************************************************************************)
(* The lending pool (src/contracts/tusdt-lending-pool): alpha collateral   *)
(* on approved subnets, what it allows to borrow on the two markets of     *)
(* Lending, and liquidation.  The stake, the alpha and TAO prices and the  *)
(* emissions are external.  The stake of the root netuid is the root_stake *)
(* of Lending: nobody deposits of it, but a hotkey move that lists it and  *)
(* a claim of its excess, once approved, reach what the pool staked there. *)
(***************************************************************************)
EXTENDS Lending

CONSTANTS
    Borrowers,              \* users who deposit collateral
    Platform,
    Netuids, FirstNetuid, RootNetuid, PoolHotkeys, MaxMarketId,
    DefaultAlphaParams, NoNetuid,
    \* inputs and bounds
    AlphaAmounts, AlphaChoices, Emissions,
    DefaultPrice, Prices,
    Scenarios               \* what a behaviour starts with, and its agenda

AlphaParams == [collateral_factor : Nat, liquidation_threshold : Nat, liquidation_fee : Nat,
                supply_cap : Nat]

\* Mutant: the factor may reach the threshold.
ValidAlphaParams_Equal(p) ==
    /\ p.collateral_factor \in 1 .. p.liquidation_threshold
    /\ p.liquidation_fee + p.liquidation_threshold <= RatioOne

ValidAlphaParams(p) ==
    /\ p.collateral_factor \in 1 .. p.liquidation_threshold - 1
    /\ p.liquidation_fee + p.liquidation_threshold <= RatioOne

ASSUME PoolConstants ==
    /\ Borrowers \subseteq Users /\ Platform \notin Users
    /\ IsFiniteSet(Netuids) /\ IsFiniteSet(PoolHotkeys)
    /\ PoolHotkey \in PoolHotkeys /\ PoolHotkeys \subseteq RootHotkeys
    /\ RootNetuid \in Netuids
    /\ MaxMarketId \in Nat \ {0} /\ FirstNetuid \in Netuids
    /\ (AlphaAmounts \cup Emissions) \subseteq Nat
    /\ DefaultAlphaParams \in AlphaParams /\ ValidAlphaParams(DefaultAlphaParams)
    /\ AlphaChoices \subseteq AlphaParams
    /\ ({DefaultPrice} \cup Prices) \subseteq [tao : Nat \ {0}, alpha : [Netuids -> Nat]]
    /\ \A s \in Scenarios :
         /\ {s.users, s.pool} \subseteq [Assets -> Nat] /\ s.alpha \in [Netuids -> Nat]
         /\ s.agenda \subseteq Topics
    /\ NoNetuid \notin Netuids
    /\ NoPending \notin [params : AlphaParams, execute_after : Nat]

VARIABLES
    netuid_to_market, market_to_netuid, next_alpha_market_id,
    alpha_principal,            \* market id -> user -> alpha
    netuid_total_collateral,
    alpha_params, pending_alpha_params,
    pool_hotkey,
    stake,                      \* <<hotkey, netuid>> -> the pool's alpha
    alpha,                      \* account -> netuid -> alpha of its own
    price, fresh                \* the prices, and whether the oracle's is recent

registryVars == <<netuid_to_market, market_to_netuid, next_alpha_market_id>>
collateralVars == <<alpha_principal, netuid_total_collateral, stake, alpha>>
alphaTerms == <<alpha_params, pending_alpha_params, pool_hotkey>>
priceVars == <<price, fresh>>
poolVars == <<lendingVars, registryVars, collateralVars, alphaTerms, priceVars>>

\* The ids of the alpha markets.  0 and 1 are the TAO and the TUSDT market.
MarketIds == 2 .. MaxMarketId
NoMarket == 0

\* market_keys keeps the id of every alpha market there ever was.
market_keys == 2 .. next_alpha_market_id - 1

Approved(netuid) == netuid_to_market[netuid] # NoMarket

Principal(user, netuid) ==
    IF Approved(netuid) THEN alpha_principal[netuid_to_market[netuid]][user] ELSE 0

Held(user) == {netuid \in Netuids : Principal(user, netuid) > 0}

----------------------------------------------------------------------------
(* Risk. *)

\* The loops over market_keys fail at an id without a netuid.
RegistryReadable == \A id \in market_keys : market_to_netuid[id] # NoNetuid

CollateralPrice(netuid) == MulValue(price.tao, price.alpha[netuid])

\* The value of all collateral when so much of it is left in each netuid.
Worth(left) ==
    SumFunction([netuid \in Netuids |-> MulValue(CollateralPrice(netuid), left[netuid])])

Holding(user) == [netuid \in Netuids |-> Principal(user, netuid)]

\* The debts in the books given: asset -> MarketState.
DebtValue(user, books) ==
    Owed("TUSDT", books["TUSDT"], user) + MulValue(price.tao, Owed("TAO", books["TAO"], user))

MaxThreshold(left) ==
    LET thresholds == {alpha_params[n].liquidation_threshold : n \in {m \in Netuids : left[m] > 0}}
    IN  IF thresholds = {} THEN (60 * RatioOne) \div 100 ELSE Max(thresholds)

MinFactor(left) == Min({alpha_params[n].collateral_factor : n \in {m \in Netuids : left[m] > 0}})

\* get_health_factor of a debt that is not zero.
HealthFactor(left, debt) == (MulValue(MaxThreshold(left), Worth(left)) * RatioOne) \div debt

AtRisk(left, debt) == debt > 0 /\ HealthFactor(left, debt) < RatioOne

\* get_available_borrow_tusdt
AvailableBorrow(user, books) ==
    LET left == Holding(user)
    IN  IF Worth(left) = 0 THEN 0
        ELSE SaturatingSub(MulValue(MinFactor(left), Worth(left)), DebtValue(user, books))

----------------------------------------------------------------------------
(* The chain's stake calls.  Availability is counted over all hotkeys, a    *)
(* transfer is from the pool's.                                             *)

AvailableStake(netuid) == SumFunction([hotkey \in PoolHotkeys |-> stake[<<hotkey, netuid>>]])

StakeIn(account, netuid, amount) ==
    /\ alpha[account][netuid] >= amount
    /\ stake' = [stake EXCEPT ![<<pool_hotkey, netuid>>] = @ + amount]
    /\ alpha' = [alpha EXCEPT ![account][netuid] = @ - amount]

\* Of the amounts of each netuid, the platform gets the fees and the account
\* the rest.
StakeOut(account, amounts, fees) ==
    /\ \A netuid \in Netuids :
         /\ stake[<<pool_hotkey, netuid>>] >= amounts[netuid]
         /\ fees[netuid] \in 0 .. amounts[netuid]
    /\ stake' = [hn \in DOMAIN stake |->
                   IF hn[1] = pool_hotkey THEN stake[hn] - amounts[hn[2]] ELSE stake[hn]]
    /\ alpha' = [alpha EXCEPT
                   ![account] = [netuid \in Netuids |-> @[netuid] + (amounts[netuid] - fees[netuid])],
                   ![Platform] = [netuid \in Netuids |-> @[netuid] + fees[netuid]]]

----------------------------------------------------------------------------
(* Collateral. *)

DepositAlpha(caller, netuid, amount) ==
    LET id == netuid_to_market[netuid]
    IN  /\ ~paused /\ Approved(netuid) /\ netuid # RootNetuid
        /\ amount > 0
        /\ WithinCap(alpha_params[netuid].supply_cap, netuid_total_collateral[netuid] + amount)
        /\ StakeIn(caller, netuid, amount)
        /\ alpha_principal' = [alpha_principal EXCEPT ![id][caller] = @ + amount]
        /\ netuid_total_collateral' = [netuid_total_collateral EXCEPT ![netuid] = @ + amount]
        /\ UNCHANGED <<lendingVars, registryVars, alphaTerms, priceVars>>

\* Mutant: only the TUSDT debt counts.
MayWithdraw_Tusdt(caller, left) ==
    positions["TUSDT"][caller].scaled_debt > 0 =>
        ~AtRisk(left, DebtValue(caller, markets))

\* With debt, what is left must keep the position healthy.  The debt is the
\* one booked when each market last accrued.
MayWithdraw(caller, left) ==
    (\E a \in Assets : positions[a][caller].scaled_debt > 0) =>
        LET debt == DebtValue(caller, markets)
        IN  /\ Owed("TAO", markets["TAO"], caller) > 0 => fresh
            /\ debt > 0 =>
                 /\ RegistryReadable
                 /\ (\E n \in Netuids : left[n] > 0) => fresh
                 /\ ~AtRisk(left, debt)

WithdrawAlpha(caller, netuid, amount) ==
    LET id == netuid_to_market[netuid]
        Only(number) == [n \in Netuids |-> IF n = netuid THEN number ELSE 0]
    IN  /\ ~paused /\ Approved(netuid)
        /\ amount \in 1 .. Principal(caller, netuid)
        /\ amount <= AvailableStake(netuid)
        /\ MayWithdraw(caller, [Holding(caller) EXCEPT ![netuid] = @ - amount])
        /\ netuid_total_collateral[netuid] >= amount
        /\ StakeOut(caller, Only(amount), Only(0))
        /\ alpha_principal' = [alpha_principal EXCEPT ![id][caller] = @ - amount]
        /\ netuid_total_collateral' = [netuid_total_collateral EXCEPT ![netuid] = @ - amount]
        /\ UNCHANGED <<lendingVars, registryVars, alphaTerms, priceVars>>

\* A borrow accrues its own market alone.
MayBorrow(caller, a, m, value) ==
    /\ RegistryReadable /\ fresh
    /\ value <= AvailableBorrow(caller, [markets EXCEPT ![a] = m])

BorrowTao(caller, amount) ==
    LET m == Current("TAO", 0)
    IN  /\ MayBorrow(caller, "TAO", m, MulValue(price.tao, amount))
        /\ BookBorrow("TAO", m, caller, amount)
        /\ PayTao(caller, amount)
        /\ UNCHANGED <<termVars, registryVars, collateralVars, alphaTerms, priceVars>>

BorrowTusdt(caller, amount) ==
    LET m == Current("TUSDT", 0)
    IN  /\ MayBorrow(caller, "TUSDT", m, amount)
        /\ BookBorrow("TUSDT", m, caller, amount)
        /\ PayTusdt(caller, amount)
        /\ UNCHANGED <<termVars, registryVars, collateralVars, alphaTerms, priceVars>>

----------------------------------------------------------------------------
(* Liquidation. *)

\* Mutant: the fee is not capped at the surplus.
PlatformShare_Uncapped(fee, collateral, debt) == IF collateral > debt THEN fee ELSE 0

\* full_seizure_split: the fee, at most what the debt leaves of the collateral.
PlatformShare(fee, collateral, debt) ==
    IF collateral > debt THEN Min({fee, ((collateral - debt) * RatioOne) \div collateral})
    ELSE 0

\* What liquidate asks for before it moves anything.
Liquidatable(borrower, books) ==
    LET debt == DebtValue(borrower, books)
    IN  /\ ~paused /\ fresh
        /\ RegistryReadable
        /\ Held(borrower) # {}
        /\ AtRisk(Holding(borrower), debt)

\* The liquidator pays all debt and gets all collateral but the platform's.
\* The TAO sent is kept when there is no TAO debt.
Liquidate(liquidator, borrower, received) ==
    LET books == [a \in Assets |-> Current(a, IF a = "TAO" THEN received ELSE 0)]
        owed == [a \in Assets |-> Owed(a, books[a], borrower)]
        kept == IF owed["TAO"] = 0 THEN received ELSE owed["TAO"]
        seized == Holding(borrower)
        fees == [n \in Netuids |->
                  MulValue(PlatformShare(alpha_params[n].liquidation_fee, Worth(seized),
                                         DebtValue(borrower, books)), seized[n])]
    IN  /\ CanAccrue("TAO", received) /\ CanAccrue("TUSDT", 0)
        /\ Liquidatable(borrower, books)
        /\ received >= owed["TAO"]
        /\ wallets["TAO"][liquidator] >= received
        /\ wallets["TUSDT"][liquidator] >= owed["TUSDT"]
        /\ \A a \in Assets : books[a].total_scaled_debt >= positions[a][borrower].scaled_debt
        /\ \A n \in Netuids : netuid_total_collateral[n] >= seized[n]
        /\ wallets' = [wallets EXCEPT !["TAO"][liquidator] = @ - kept,
                                      !["TUSDT"][liquidator] = @ - owed["TUSDT"]]
        /\ native' = native + kept
        /\ tusdt' = tusdt + owed["TUSDT"]
        /\ markets' = [a \in Assets |-> Retired(books[a], positions[a][borrower].scaled_debt)]
        /\ positions' = [a \in Assets |-> [positions[a] EXCEPT ![borrower].scaled_debt = 0]]
        /\ StakeOut(liquidator, seized, fees)
        /\ alpha_principal' = [id \in MarketIds |->
             IF id \in {netuid_to_market[n] : n \in Held(borrower)}
             THEN [alpha_principal[id] EXCEPT ![borrower] = 0] ELSE alpha_principal[id]]
        /\ netuid_total_collateral' =
             [n \in Netuids |-> netuid_total_collateral[n] - seized[n]]
        /\ UNCHANGED <<staked_tao, swept, root_stake, termVars, registryVars, alphaTerms,
                       priceVars>>

----------------------------------------------------------------------------
(* The subnets, their parameters and their stake. *)

\* What is staked beyond the collateral is unstaked, and its TAO is paid to
\* the treasury.
ClaimAlphaExcess(netuid) ==
    LET excess == AvailableStake(netuid) - netuid_total_collateral[netuid]
    IN  /\ Approved(netuid)
        /\ excess \in 1 .. stake[<<pool_hotkey, netuid>>]
        /\ stake' = [stake EXCEPT ![<<pool_hotkey, netuid>>] = @ - excess]
        /\ UNCHANGED <<lendingVars, registryVars, alpha_principal, netuid_total_collateral,
                       alpha, alphaTerms, priceVars>>

\* The same on the root netuid, where the sleeve is all excess.
ClaimRootExcess ==
    /\ Approved(RootNetuid)
    /\ \E available \in Available :
         LET excess == available - netuid_total_collateral[RootNetuid]
         IN  /\ excess \in 1 .. root_stake[pool_hotkey]
             /\ root_stake' = [root_stake EXCEPT ![pool_hotkey] = @ - excess]
    /\ UNCHANGED <<bookVars, tusdt, native, staked_tao, swept, wallets, termVars,
                   registryVars, collateralVars, alphaTerms, priceVars>>

ApproveNetuid(caller, netuid) ==
    /\ caller \in Maintainers
    /\ ~Approved(netuid)
    /\ next_alpha_market_id \in MarketIds
    /\ netuid_to_market' = [netuid_to_market EXCEPT ![netuid] = next_alpha_market_id]
    /\ market_to_netuid' = [market_to_netuid EXCEPT ![next_alpha_market_id] = netuid]
    /\ next_alpha_market_id' = next_alpha_market_id + 1
    /\ UNCHANGED <<lendingVars, collateralVars, alphaTerms, priceVars>>

\* Mutant: the positions in the netuid are not looked at.
Vacant_Always(netuid) == TRUE

Vacant(netuid) == netuid_total_collateral[netuid] = 0

\* The id stays in market_keys.
RemoveNetuid(caller, netuid) ==
    /\ caller \in Maintainers
    /\ Approved(netuid)
    /\ Vacant(netuid)
    /\ netuid_to_market' = [netuid_to_market EXCEPT ![netuid] = NoMarket]
    /\ market_to_netuid' = [market_to_netuid EXCEPT ![netuid_to_market[netuid]] = NoNetuid]
    /\ UNCHANGED <<next_alpha_market_id, lendingVars, collateralVars, alphaTerms, priceVars>>

SetAlphaParams(caller, netuid, new_params) ==
    /\ caller \in Maintainers
    /\ Approved(netuid)
    /\ ValidAlphaParams(new_params)
    /\ \E time \in Times : now + ParamsTimelock <= time
    /\ pending_alpha_params' =
         [pending_alpha_params EXCEPT
            ![netuid] = [params |-> new_params, execute_after |-> now + ParamsTimelock]]
    /\ UNCHANGED <<lendingVars, registryVars, collateralVars, alpha_params, pool_hotkey, priceVars>>

ExecuteAlphaParamsUpdate(netuid) ==
    /\ pending_alpha_params[netuid] # NoPending
    /\ now >= pending_alpha_params[netuid].execute_after
    /\ alpha_params' = [alpha_params EXCEPT ![netuid] = pending_alpha_params[netuid].params]
    /\ pending_alpha_params' = [pending_alpha_params EXCEPT ![netuid] = NoPending]
    /\ UNCHANGED <<lendingVars, registryVars, collateralVars, pool_hotkey, priceVars>>

CancelAlphaParamsUpdate(caller, netuid) ==
    /\ caller \in Maintainers
    /\ pending_alpha_params[netuid] # NoPending
    /\ pending_alpha_params' = [pending_alpha_params EXCEPT ![netuid] = NoPending]
    /\ UNCHANGED <<lendingVars, registryVars, collateralVars, alpha_params, pool_hotkey, priceVars>>

\* What there is of the sleeve moves from the old hotkey to the new.
MoveRootStake(hotkey) ==
    \E available \in Available :
        LET left == [root_stake EXCEPT ![pool_hotkey] = @ - available]
        IN  /\ root_stake[pool_hotkey] >= available
            /\ root_stake' = [left EXCEPT ![hotkey] = @ + available]

\* The stake of the netuids listed moves, as much as there is of it under all
\* hotkeys: the chain refuses more than there is under the old one.  The list
\* is not compared with the approved netuids.
UpdatePoolHotkey(caller, hotkey, netuids) ==
    /\ caller \in Maintainers
    /\ hotkey # pool_hotkey
    /\ \A n \in netuids : AvailableStake(n) = stake[<<pool_hotkey, n>>]
    /\ stake' = [hn \in DOMAIN stake |->
                   IF hn[2] \notin netuids THEN stake[hn]
                   ELSE IF hn[1] = hotkey THEN AvailableStake(hn[2]) ELSE 0]
    /\ IF RootNetuid \in netuids THEN MoveRootStake(hotkey) ELSE UNCHANGED root_stake
    /\ pool_hotkey' = hotkey
    /\ UNCHANGED <<bookVars, tusdt, native, staked_tao, swept, wallets, termVars, registryVars,
                   alpha_principal, netuid_total_collateral, alpha, alpha_params,
                   pending_alpha_params, priceVars>>

Emit(netuid, amount) ==
    /\ stake[<<pool_hotkey, netuid>>] > 0
    /\ AvailableStake(netuid) + amount <= netuid_total_collateral[netuid] + 1
    /\ stake' = [stake EXCEPT ![<<pool_hotkey, netuid>>] = @ + amount]
    /\ UNCHANGED <<lendingVars, registryVars, alpha_principal, netuid_total_collateral, alpha,
                   alphaTerms, priceVars>>

PricesMove ==
    /\ price' \in Prices /\ fresh' = TRUE
    /\ UNCHANGED <<lendingVars, registryVars, collateralVars, alphaTerms>>

\* A price that nobody renews gets too old.
TimePasses ==
    /\ Tick
    /\ fresh' \in {fresh, fresh /\ ~On("prices")}
    /\ UNCHANGED <<price, registryVars, collateralVars, alphaTerms>>

----------------------------------------------------------------------------

PoolInit ==
    \E scenario \in Scenarios :
        /\ LendingInit(scenario)
        /\ netuid_to_market = [n \in Netuids |-> NoMarket]
        /\ market_to_netuid = [id \in MarketIds |-> NoNetuid]
        /\ next_alpha_market_id = 2
        /\ alpha_principal = [id \in MarketIds |-> [user \in Users |-> 0]]
        /\ netuid_total_collateral = [n \in Netuids |-> 0]
        /\ alpha_params = [n \in Netuids |-> DefaultAlphaParams]
        /\ pending_alpha_params = [n \in Netuids |-> NoPending]
        /\ pool_hotkey = PoolHotkey
        /\ stake = [hn \in PoolHotkeys \X Netuids |-> 0]
        /\ alpha = [account \in Users \cup {Platform} |->
                     [n \in Netuids |-> IF account \in Borrowers THEN scenario.alpha[n] ELSE 0]]
        /\ price = DefaultPrice /\ fresh = TRUE

BorrowerStep ==
    \E user \in Borrowers :
        \/ \E netuid \in Netuids, amount \in AlphaAmounts :
             DepositAlpha(user, netuid, amount) \/ WithdrawAlpha(user, netuid, amount)
        \/ \E amount \in Amounts : BorrowTao(user, amount) \/ BorrowTusdt(user, amount)

LiquidatorStep ==
    \E liquidator \in Users, borrower \in Borrowers :
        \E received \in 0 .. wallets["TAO"][liquidator] :
            /\ received - Owed("TAO", Current("TAO", 0), borrower) \in Excesses
            /\ Liquidate(liquidator, borrower, received)

\* In which behaviours a netuid is approved and retired: the root netuid only
\* in those that are about it.
MayBeListed(netuid) ==
    IF netuid = RootNetuid THEN On("root netuid") ELSE On("subnets") \/ netuid = FirstNetuid

SubnetStep ==
    \/ \E caller \in Maintainers, netuid \in Netuids :
         \/ MayBeListed(netuid) /\ ApproveNetuid(caller, netuid)
         \/ On("subnets") /\ RemoveNetuid(caller, netuid)
    \/ On("root netuid") /\ ClaimRootExcess
    \/ On("alpha params") /\ \E netuid \in Netuids :
         \/ \E caller \in Maintainers :
              \/ \E new_params \in AlphaChoices : SetAlphaParams(caller, netuid, new_params)
              \/ CancelAlphaParamsUpdate(caller, netuid)
         \/ ExecuteAlphaParamsUpdate(netuid)
    \/ On("custody") /\ \E netuid \in Netuids :
         \/ ClaimAlphaExcess(netuid)
         \/ \E amount \in Emissions : Emit(netuid, amount)
    \/ \E caller \in Maintainers, hotkey \in PoolHotkeys, netuids \in SUBSET Netuids :
         /\ On("custody") \/ On("root netuid")
         /\ RootNetuid \in netuids => On("root netuid")
         /\ UpdatePoolHotkey(caller, hotkey, netuids)

PoolNext ==
    \/ (LendingStep \/ AdminStep)
       /\ UNCHANGED <<registryVars, collateralVars, alphaTerms, priceVars>>
    \/ BorrowerStep
    \/ LiquidatorStep
    \/ SubnetStep
    \/ On("prices") /\ PricesMove
    \/ On("time") /\ TimePasses

PoolSpec == PoolInit /\ [][PoolNext]_poolVars

----------------------------------------------------------------------------
(* Properties. *)

TypeOK ==
    /\ LendingTypeOK
    /\ netuid_to_market \in [Netuids -> {NoMarket} \cup MarketIds]
    /\ market_to_netuid \in [MarketIds -> {NoNetuid} \cup Netuids]
    /\ next_alpha_market_id \in 2 .. MaxMarketId + 1
    /\ alpha_principal \in [MarketIds -> [Users -> Nat]]
    /\ netuid_total_collateral \in [Netuids -> Nat]
    /\ LET Enforced == {p \in AlphaParams : ValidAlphaParams(p)}
       IN  /\ alpha_params \in [Netuids -> Enforced]
           /\ pending_alpha_params \in
                [Netuids -> {NoPending} \cup [params : Enforced, execute_after : Nat]]
    /\ pool_hotkey \in PoolHotkeys /\ stake \in [PoolHotkeys \X Netuids -> Nat]
    /\ alpha \in [Users \cup {Platform} -> [Netuids -> Nat]]
    /\ price \in [tao : Nat \ {0}, alpha : [Netuids -> Nat]] /\ fresh \in BOOLEAN

\* Of two maps that record the approved netuids, one is the inverse of the
\* other, and no id is ever given twice.
RegistryInverse ==
    /\ \A netuid \in Netuids :
         Approved(netuid) => market_to_netuid[netuid_to_market[netuid]] = netuid
    /\ \A id \in MarketIds : market_to_netuid[id] # NoNetuid => id \in market_keys

Principals(netuid) == [user \in Users |-> Principal(user, netuid)]

\* Every alpha of a user is found under the netuid it was deposited on, also
\* after netuids were retired and approved again, and the pool has it staked.
CollateralIsBooked ==
    /\ RegistryInverse
    /\ \A netuid \in Netuids :
        /\ netuid_total_collateral[netuid] = SumFunction(Principals(netuid))
        /\ netuid_total_collateral[netuid] <= AvailableStake(netuid)

Indebted(user) == \E a \in Assets : positions[a][user].scaled_debt > 0

\* The liquidation of a user is the only step that takes all debt and all
\* collateral.
LiquidationOf(user) ==
    Indebted(user) /\ Held(user) # {} /\ ~Indebted(user)' /\ Held(user)' = {}

\* Nobody can borrow or withdraw into the reach of a liquidator: what leaves
\* a position with more debt or less collateral leaves it healthy at the
\* debts that are booked.  A borrow is checked without its first hour, which
\* the margin between factor and threshold must cover.
BorrowerIsSafe ==
    [][\A user \in Borrowers :
         \/ LiquidationOf(user)
         \/ /\ \A a \in Assets : positions'[a][user].scaled_debt <= positions[a][user].scaled_debt
            /\ \A netuid \in Netuids : Principal(user, netuid)' >= Principal(user, netuid)
         \/ ~AtRisk(Holding(user), DebtValue(user, markets))']_poolVars

\* The most that a borrow books beyond the value it was checked for: the first
\* hour, and one unit of scaled debt by which it is rounded up.
Surcharge(a, m, amount) ==
    LET unit == (m.borrow_index + (RatioOne - 1)) \div RatioOne
        extra == Premium(m, params[a], MarketCash(a), amount) + unit
    IN  IF a = "TAO" THEN MulValue(price.tao, extra) + 2 ELSE extra

\* The value in TUSDT that a borrow is checked for.
ValueOf(a, amount) == IF a = "TAO" THEN MulValue(price.tao, amount) ELSE amount

\* Whatever can be borrowed has a value, and the margin between the factor and
\* the threshold of its collateral covers what the loan was not checked for.
RoomAboveFactor ==
    \A user \in Borrowers, a \in Assets, amount \in Amounts :
        LET m == Current(a, 0)
            left == Holding(user)
        IN  /\ CanAccrue(a, 0) /\ amount \in 1 .. MarketCash(a)
            /\ m.exchange_rate <= MaxRate /\ m.reserve_accrued <= MaxReserve
            /\ MayBorrow(user, a, m, ValueOf(a, amount))
            => /\ ValueOf(a, amount) > 0
               /\ MulValue(MinFactor(left), Worth(left)) + Surcharge(a, m, amount)
                    <= MulValue(MaxThreshold(left), Worth(left))

\* A liquidator who pays for collateral worth more than the debt never gets
\* less than the debt: the platform takes from the surplus alone.
LiquidatorKeepsItsDue ==
    [][\A user \in Borrowers : LiquidationOf(user) =>
         LET debt == DebtFace(positions["TUSDT"][user].scaled_debt, markets'["TUSDT"].borrow_index)
                     + MulValue(price.tao, DebtFace(positions["TAO"][user].scaled_debt,
                                                    markets'["TAO"].borrow_index))
             kept == [n \in Netuids |->
                        CollateralPrice(n)
                          * (Principal(user, n) - (alpha'[Platform][n] - alpha[Platform][n]))]
         IN  Worth(Holding(user)) > debt => SumFunction(kept) >= debt * RatioOne]_poolVars

\* "anyone can call liquidate(borrower)" (src/README.md:315): a position under
\* water can be liquidated while the pool runs and prices are known.
LiquidationNeverBlocked ==
    \A user \in Borrowers :
        ~paused /\ fresh /\ Held(user) # {} /\ AtRisk(Holding(user), DebtValue(user, markets))
            => Liquidatable(user, markets)
=============================================================================
