------------------------------ MODULE Lending ------------------------------
(***************************************************************************)
(* The money side of the lending pool (src/contracts/tusdt-lending-pool):  *)
(* the TAO and the TUSDT market, the pool's TAO split into a free and a    *)
(* root-staked sleeve, the claims of the treasury, the rate parameters and *)
(* the pause.  Borrowing and liquidation book their debt here and are      *)
(* messages of Pool, where the collateral is.                              *)
(*                                                                         *)
(* The chain is external: root stake is 1:1, a stake call may fail, and    *)
(* the chain may hold the stake back.  So are the lTokens: a holder who    *)
(* gave them away could not withdraw, and here still may.  Caps and roles  *)
(* do not change.                                                          *)
(***************************************************************************)
EXTENDS Market

CONSTANTS
    Users, Lenders,                \* and those who start a supply
    Maintainers, Governors, Guardians,
    SupplyCap, BorrowCap,          \* asset -> cap, 0 for none
    ParamsTimelock,
    DefaultParams, NoPending,
    RootHotkeys, PoolHotkey,
    MinRootStakeFloor, DefaultStakeBuffer,
    \* inputs and bounds
    Amounts, Excesses,             \* TAO sent beyond the amount of a message
    ParamChoices, StakeChoices,
    MaxRate, MaxReserve,           \* nobody borrows beyond these
    Times                          \* when something happens

Assets == {"TAO", "TUSDT"}

\* The topics whose messages are looked at together are the agenda of a
\* behaviour.
Topics == {"time", "supply", "rates", "staking", "pause", "surplus", "prices", "subnets",
           "alpha params", "custody", "root netuid"}

StakeConfig == [enabled : BOOLEAN, buffer : Nat, threshold : Nat, floor : Nat]

ASSUME LendingConstants ==
    /\ IsFiniteSet(Users)
    /\ Lenders \subseteq Users /\ PoolHotkey \in RootHotkeys
    /\ {SupplyCap, BorrowCap} \subseteq [Assets -> Nat]
    /\ {ParamsTimelock, MaxRate, MaxReserve, DefaultStakeBuffer} \subseteq Nat
    /\ MinRootStakeFloor \in Nat \ {0} /\ MinRootStakeFloor <= DefaultStakeBuffer
    /\ (Amounts \cup Excesses \cup Times) \subseteq Nat
    /\ DefaultParams \in [Assets -> {p \in Params : ValidParams(p)}]
    /\ ParamChoices \subseteq Params
    /\ StakeChoices \subseteq StakeConfig
    /\ NoPending \notin [params : Params, execute_after : Nat]

VARIABLES
    markets,                \* asset -> MarketState
    positions,              \* asset -> user -> [ltoken_balance, scaled_debt]
    params, pending_params, \* asset -> rate parameters
    paused,
    tusdt,                  \* TUSDT of the pool
    native, staked_tao,     \* its free TAO, and the TAO it booked as staked
    root_hotkey, stake_config,
    swept,                  \* a sweep ran in this block
    root_stake,             \* hotkey -> TAO the chain has staked for the pool
    wallets,                \* asset -> user -> balance
    now,
    agenda                  \* the topics of the behaviour

bookVars == <<markets, positions>>
sleeveVars == <<native, staked_tao, swept, root_stake>>
moneyVars == <<tusdt, sleeveVars, wallets>>
rateVars == <<params, pending_params>>
stakingVars == <<root_hotkey, stake_config>>
termVars == <<rateVars, stakingVars, paused, now, agenda>>
lendingVars == <<bookVars, moneyVars, termVars>>

\* Both sleeves are cash of the TAO market.
MarketCash(a) == IF a = "TAO" THEN native + staked_tao ELSE tusdt

\* The value sent with a payable message is in the balance it accrues from.
CanAccrue(a, value) == AccrualSucceeds(markets[a], params[a], MarketCash(a) + value, now)

Current(a, value) == Accrued(markets[a], params[a], MarketCash(a) + value, now)

Store(a, m) == markets' = [markets EXCEPT ![a] = m]

----------------------------------------------------------------------------
(* The two sleeves of the pool's TAO. *)

SweepExcess(balance) == SaturatingSub(balance, stake_config.buffer + stake_config.threshold)

SweepDue(balance) ==
    /\ stake_config.enabled /\ ~paused /\ ~swept
    /\ SweepExcess(balance) >= stake_config.floor

\* The chain stakes what the free balance has in excess.
Stake(balance) ==
    /\ SweepDue(balance)
    /\ native' = balance - SweepExcess(balance)
    /\ staked_tao' = staked_tao + SweepExcess(balance)
    /\ root_stake' = [root_stake EXCEPT ![root_hotkey] = @ + SweepExcess(balance)]
    /\ swept' = TRUE

\* sweep_to_root at the end of a message, with the balance it leaves.  The
\* block is stamped before the call, and a failure is ignored.
SweepToRoot(balance) ==
    \/ Stake(balance)
    \/ /\ native' = balance
       /\ swept' = (swept \/ SweepDue(balance))
       /\ UNCHANGED <<staked_tao, root_stake>>

\* What top_up_free unstakes: no remainder below the floor is left.
TopUp(shortfall, available) ==
    LET take == Min({shortfall, available, staked_tao})
    IN  IF take > 0 /\ staked_tao - take \in 1 .. stake_config.floor - 1
        THEN staked_tao ELSE take

\* The chain unstakes the amount, or the message fails.
Unstake(take) ==
    /\ root_stake[root_hotkey] >= take
    /\ staked_tao' = staked_tao - take
    /\ root_stake' = [root_stake EXCEPT ![root_hotkey] = @ - take]

\* The root stake under all hotkeys, but for what the chain holds back.
Available == 0 .. SumFunction(root_stake)

Credit(a, user, amount) == wallets' = [wallets EXCEPT ![a][user] = @ + amount]
Debit(a, user, amount) ==
    /\ wallets[a][user] >= amount
    /\ wallets' = [wallets EXCEPT ![a][user] = @ - amount]

PullTusdt(user, amount) ==
    /\ Debit("TUSDT", user, amount)
    /\ tusdt' = tusdt + amount
    /\ UNCHANGED sleeveVars

PayTusdt(user, amount) ==
    /\ Credit("TUSDT", user, amount)
    /\ tusdt' = tusdt - amount
    /\ UNCHANGED sleeveVars

\* The value sent has arrived; what exceeds the amount is sent back.
TakeTao(user, amount, received) ==
    /\ wallets["TAO"][user] >= received /\ received >= amount
    /\ Debit("TAO", user, amount)
    /\ UNCHANGED tusdt

\* A payment that the free sleeve does not cover is topped up from the stake.
PayTao(user, amount) ==
    /\ \E available \in Available :
         LET shortfall == SaturatingSub(amount, native)
             take == TopUp(shortfall, available)
         IN  /\ take \in shortfall .. available
             /\ Unstake(take)
             /\ native' = native + take - amount
    /\ Credit("TAO", user, amount)
    /\ UNCHANGED <<tusdt, swept>>

----------------------------------------------------------------------------
(* Suppliers. *)

BookSupply(a, m, caller, amount) ==
    LET minted == LTokensFor(m, amount)
    IN  /\ ~paused
        /\ amount > 0
        /\ WithinCap(SupplyCap[a], Redeemable(m, m.total_supplied) + amount)
        /\ minted # 0
        /\ Store(a, [GenesisRate(m) EXCEPT !.total_supplied = @ + minted])
        /\ positions' = [positions EXCEPT ![a][caller].ltoken_balance = @ + minted]
        /\ UNCHANGED termVars

SupplyTao(caller, amount, received) ==
    /\ CanAccrue("TAO", received)
    /\ BookSupply("TAO", Current("TAO", received), caller, amount)
    /\ TakeTao(caller, amount, received)
    /\ SweepToRoot(native + amount)

SupplyTusdt(caller, amount) ==
    /\ CanAccrue("TUSDT", 0)
    /\ BookSupply("TUSDT", Current("TUSDT", 0), caller, amount)
    /\ PullTusdt(caller, amount)

BookWithdrawal(a, m, caller, ltoken_amount) ==
    /\ ~paused /\ CanAccrue(a, 0)
    /\ positions[a][caller].ltoken_balance >= ltoken_amount
    /\ Redeemable(m, ltoken_amount) \in 1 .. MarketCash(a)
    /\ m.total_supplied >= ltoken_amount
    /\ Store(a, GenesisRate([m EXCEPT !.total_supplied = @ - ltoken_amount]))
    /\ positions' = [positions EXCEPT ![a][caller].ltoken_balance = @ - ltoken_amount]
    /\ UNCHANGED termVars

WithdrawTao(caller, ltoken_amount) ==
    LET m == Current("TAO", 0)
    IN  /\ BookWithdrawal("TAO", m, caller, ltoken_amount)
        /\ PayTao(caller, Redeemable(m, ltoken_amount))

WithdrawTusdt(caller, ltoken_amount) ==
    LET m == Current("TUSDT", 0)
    IN  /\ BookWithdrawal("TUSDT", m, caller, ltoken_amount)
        /\ PayTusdt(caller, Redeemable(m, ltoken_amount))

----------------------------------------------------------------------------
(* Borrowers. *)

\* The books of a borrow, but for what the collateral allows.
BookBorrow(a, m, caller, amount) ==
    LET premium == Premium(m, params[a], MarketCash(a), amount)
        scaled == ScaledBorrowed(m, amount + premium)
    IN  /\ ~paused /\ CanAccrue(a, 0)
        /\ m.exchange_rate <= MaxRate /\ m.reserve_accrued <= MaxReserve
        /\ amount \in 1 .. MarketCash(a)
        /\ WithinCap(BorrowCap[a], m.total_debt + amount)
        /\ Store(a, WithScaledDebt(PremiumCharged(m, params[a], premium),
                                   m.total_scaled_debt + scaled))
        /\ positions' = [positions EXCEPT ![a][caller].scaled_debt = @ + scaled]

\* The market without so much of its scaled debt.
Retired(m, scaled) == WithScaledDebt(m, m.total_scaled_debt - scaled)

Owed(a, m, user) == DebtFace(positions[a][user].scaled_debt, m.borrow_index)

BookRepayment(a, m, caller, paid) ==
    LET scaled == ScaledRepaid(m, positions[a][caller].scaled_debt, paid)
    IN  /\ ~paused
        /\ paid # 0
        /\ m.total_scaled_debt >= scaled
        /\ Store(a, Retired(m, scaled))
        /\ positions' = [positions EXCEPT ![a][caller].scaled_debt = @ - scaled]
        /\ UNCHANGED termVars

RepayTao(caller, amount, received) ==
    LET m == Current("TAO", received)
        paid == Min({amount, Owed("TAO", m, caller)})
    IN  /\ CanAccrue("TAO", received)
        /\ BookRepayment("TAO", m, caller, paid)
        /\ TakeTao(caller, paid, received)
        /\ SweepToRoot(native + paid)

RepayTusdt(caller, amount) ==
    LET m == Current("TUSDT", 0)
        paid == Min({amount, Owed("TUSDT", m, caller)})
    IN  /\ CanAccrue("TUSDT", 0)
        /\ BookRepayment("TUSDT", m, caller, paid)
        /\ PullTusdt(caller, paid)

\* To repay nothing, or without debt, succeeds and keeps the TAO sent with it.
RepayNothing(a, caller, received) ==
    /\ ~paused /\ CanAccrue(a, received)
    /\ Store(a, Current(a, received))
    /\ Debit(a, caller, received)
    /\ native' = native + received
    /\ UNCHANGED <<positions, termVars, tusdt, staked_tao, swept, root_stake>>

AccrueMarketInterest ==
    /\ ~paused
    /\ \A a \in Assets : CanAccrue(a, 0)
    /\ markets' = [a \in Assets |-> Current(a, 0)]
    /\ UNCHANGED <<positions, termVars, moneyVars>>

----------------------------------------------------------------------------
(* The treasury. *)

\* What a claim of the reserve may take.
ReserveCash(a) ==
    IF a = "TAO" THEN SaturatingSub(native, stake_config.buffer) ELSE tusdt

PayTreasury(a, amount) ==
    /\ IF a = "TAO" THEN native' = native - amount /\ UNCHANGED tusdt
       ELSE tusdt' = tusdt - amount /\ UNCHANGED native
    /\ UNCHANGED <<staked_tao, swept, root_stake, wallets>>

\* Anybody may send the reserve to the treasury, paused or not.
ClaimReserve(a) ==
    LET m == Current(a, 0)
        claim == Min({m.reserve_accrued, ReserveCash(a)})
    IN  /\ CanAccrue(a, 0)
        /\ Store(a, [m EXCEPT !.reserve_accrued = @ - claim])
        /\ PayTreasury(a, claim)
        /\ UNCHANGED <<positions, termVars>>

ClaimSurplusTusdt(caller, amount) ==
    LET m == Current("TUSDT", 0)
    IN  /\ caller \in Maintainers
        /\ CanAccrue("TUSDT", 0)
        /\ Store("TUSDT", m)
        /\ PayTreasury("TUSDT", Min({amount, SaturatingSub(tusdt, Obligations(m))}))
        /\ UNCHANGED <<positions, termVars>>

\* The free TAO beyond all claims and the buffer, but for one unit.
TransferNativeToTreasury(caller) ==
    LET m == Current("TAO", 0)
        sweepable == SaturatingSub(SaturatingSub(native, Obligations(m)), stake_config.buffer)
    IN  /\ caller \in Maintainers
        /\ CanAccrue("TAO", 0)
        /\ Store("TAO", m)
        /\ PayTreasury("TAO", SaturatingSub(sweepable, 1))
        /\ UNCHANGED <<positions, termVars>>

----------------------------------------------------------------------------
(* Staking, rates and the pause. *)

\* Mutant: the stake stays with the old hotkey.
Rotate_Keep(hotkey) == UNCHANGED <<native, staked_tao, root_stake>>

\* All that is booked is unstaked before the hotkey changes.
Rotate(hotkey) ==
    IF staked_tao > 0 /\ hotkey # root_hotkey
    THEN \E available \in Available :
            /\ TopUp(staked_tao, available) = staked_tao
            /\ available >= staked_tao
            /\ Unstake(staked_tao)
            /\ native' = native + staked_tao
    ELSE UNCHANGED <<native, staked_tao, root_stake>>

SetRootStakeConfig(caller, hotkey, config) ==
    /\ caller \in Governors
    /\ config.floor >= MinRootStakeFloor
    /\ config.buffer >= config.floor
    /\ Rotate(hotkey)
    /\ root_hotkey' = hotkey
    /\ stake_config' = config
    /\ UNCHANGED <<bookVars, rateVars, tusdt, swept, wallets, paused, now, agenda>>

\* Anybody may sweep.  A sweep that the chain refuses is rolled back.
Sweep ==
    /\ Stake(native)
    /\ UNCHANGED <<bookVars, tusdt, wallets, termVars>>

SetMarketParams(caller, a, new_params) ==
    /\ caller \in Maintainers
    /\ ValidParams(new_params)
    /\ \E time \in Times : now + ParamsTimelock <= time
    /\ pending_params' =
         [pending_params EXCEPT
            ![a] = [params |-> new_params, execute_after |-> now + ParamsTimelock]]
    /\ UNCHANGED <<bookVars, moneyVars, params, stakingVars, paused, now, agenda>>

\* It does not accrue first: the hours since the last accrual are charged at
\* the new rates.
ExecuteMarketParamsUpdate(a) ==
    /\ pending_params[a] # NoPending
    /\ now >= pending_params[a].execute_after
    /\ params' = [params EXCEPT ![a] = pending_params[a].params]
    /\ pending_params' = [pending_params EXCEPT ![a] = NoPending]
    /\ UNCHANGED <<bookVars, moneyVars, stakingVars, paused, now, agenda>>

CancelMarketParamsUpdate(caller, a) ==
    /\ caller \in Maintainers
    /\ pending_params[a] # NoPending
    /\ pending_params' = [pending_params EXCEPT ![a] = NoPending]
    /\ UNCHANGED <<bookVars, moneyVars, params, stakingVars, paused, now, agenda>>

Pause(caller) ==
    /\ caller \in Guardians
    /\ paused' = TRUE
    /\ UNCHANGED <<bookVars, moneyVars, rateVars, stakingVars, now, agenda>>

Unpause(caller) ==
    /\ caller \in Maintainers
    /\ paused' = FALSE
    /\ UNCHANGED <<bookVars, moneyVars, rateVars, stakingVars, now, agenda>>

NextBlock ==
    /\ swept
    /\ swept' = FALSE
    /\ UNCHANGED <<bookVars, tusdt, native, staked_tao, root_stake, wallets, termVars>>

Tick ==
    /\ now' \in {time \in Times : time > now}
    /\ swept' = FALSE
    /\ UNCHANGED <<bookVars, tusdt, native, staked_tao, root_stake, wallets,
                   rateVars, stakingVars, paused, agenda>>

LendingInit(scenario) ==
    /\ markets = [a \in Assets |-> EmptyMarket]
    /\ positions = [a \in Assets |->
                     [user \in Users |-> [ltoken_balance |-> 0, scaled_debt |-> 0]]]
    /\ params = DefaultParams /\ pending_params = [a \in Assets |-> NoPending]
    /\ paused = FALSE
    /\ staked_tao = 0 /\ swept = FALSE
    /\ root_hotkey = PoolHotkey
    /\ root_stake = [hotkey \in RootHotkeys |-> 0]
    /\ stake_config = [enabled |-> FALSE, buffer |-> DefaultStakeBuffer, threshold |-> 0,
                       floor |-> MinRootStakeFloor]
    /\ now = 0
    /\ wallets = [a \in Assets |-> [user \in Users |-> scenario.users[a]]]
    /\ tusdt = scenario.pool["TUSDT"] /\ native = scenario.pool["TAO"]
    /\ agenda = scenario.agenda

On(topic) == topic \in agenda

\* The messages that neither need nor touch the collateral.
LendingStep ==
    \/ \E user \in Users, amount \in Amounts :
         \/ On("supply") /\ user \in Lenders /\ SupplyTusdt(user, amount)
         \/ WithdrawTao(user, amount)
         \/ WithdrawTusdt(user, amount)
         \/ RepayTusdt(user, amount)
         \/ \E excess \in Excesses :
              \/ On("supply") /\ user \in Lenders /\ SupplyTao(user, amount, amount + excess)
              \/ RepayTao(user, amount, amount + excess)
    \/ \E user \in Users : \/ \E excess \in Excesses : RepayNothing("TAO", user, excess)
                           \/ RepayNothing("TUSDT", user, 0)
    \/ AccrueMarketInterest
    \/ \E a \in Assets : ClaimReserve(a)
    \/ Sweep
    \/ NextBlock

AdminStep ==
    \/ On("rates") /\ \E a \in Assets :
         \/ \E caller \in Maintainers :
              \/ \E new_params \in ParamChoices : SetMarketParams(caller, a, new_params)
              \/ CancelMarketParamsUpdate(caller, a)
         \/ ExecuteMarketParamsUpdate(a)
    \/ On("surplus") /\ \E caller \in Maintainers :
         \/ \E amount \in Amounts : ClaimSurplusTusdt(caller, amount)
         \/ TransferNativeToTreasury(caller)
    \/ On("staking") /\ \E caller \in Governors, hotkey \in RootHotkeys, config \in StakeChoices :
         SetRootStakeConfig(caller, hotkey, config)
    \/ On("pause") /\ \/ \E caller \in Guardians : Pause(caller)
                      \/ \E caller \in Maintainers : Unpause(caller)

----------------------------------------------------------------------------
(* Properties. *)

LendingTypeOK ==
    LET Enforced == {p \in Params : ValidParams(p)}
    IN  /\ markets \in [Assets -> MarketState]
        /\ positions \in [Assets -> [Users -> [ltoken_balance : Nat, scaled_debt : Nat]]]
        /\ params \in [Assets -> Enforced]
        /\ pending_params \in [Assets -> {NoPending} \cup [params : Enforced, execute_after : Nat]]
        /\ stake_config \in {c \in StakeConfig : MinRootStakeFloor <= c.floor /\ c.floor <= c.buffer}
        /\ {tusdt, native, staked_tao, now} \subseteq Nat
        /\ root_hotkey \in RootHotkeys /\ root_stake \in [RootHotkeys -> Nat]
        /\ wallets \in [Assets -> [Users -> Nat]]
        /\ {paused, swept} \subseteq BOOLEAN
        /\ agenda \subseteq Topics

\* The TAO that can come with a message.
Values == {0} \cup UNION {0 .. wallets["TAO"][user] : user \in Users}

\* The face total of a market is derived from its scaled debt.
DebtIsFace ==
    \A a \in Assets :
        markets[a].total_debt = DebtFace(markets[a].total_scaled_debt, markets[a].borrow_index)

LTokens(a) == [user \in Users |-> positions[a][user].ltoken_balance]
ScaledDebts(a) == [user \in Users |-> positions[a][user].scaled_debt]

\* The totals of a market are those of the positions, and the debt the
\* utilization is computed from is the face of the scaled debt.
TotalsInLockstep ==
    /\ DebtIsFace
    /\ \A a \in Assets :
        /\ markets[a].total_supplied = SumFunction(LTokens(a))
        /\ markets[a].total_scaled_debt = SumFunction(ScaledDebts(a))

\* No message is ever blocked by the accrual it starts with, whatever value
\* comes with it.
AccrualNeverFails == \A a \in Assets, value \in Values : CanAccrue(a, value)

\* What the pool has and is owed, beyond what it owes, in parts of RatioOne.
Margin(m, cash) ==
    (cash - m.reserve_accrued) * RatioOne
    + m.borrow_index * m.total_scaled_debt - m.exchange_rate * m.total_supplied

\* A message of a supplier, a borrower, a liquidator or the treasury never
\* hands out more of an asset than it brings in, but for one unit of scaled
\* debt that a repayment rounds away.  Only a message that changes no position
\* may take more: a sweep, of what cash covers without the debts.
MessageLosesOnlyDust ==
    [][now' = now /\ params' = params =>
         \A a \in Assets :
            \/ markets'[a] = markets[a] /\ MarketCash(a)' = MarketCash(a)
            \/ UNCHANGED positions /\ MarketCash(a)' >= Obligations(markets[a])'
            \/ \E value \in Values :
                 Margin(markets[a], MarketCash(a))'
                 > Margin(Current(a, value), MarketCash(a))
                   - Max({RatioOne, markets'[a].borrow_index})]_lendingVars

\* While claims are covered, an accrual never credits the suppliers and the
\* reserve more than it charges the borrowers, but for rounding.
InterestIsCharged ==
    \A a \in Assets, value \in Values :
        LET cash == MarketCash(a)
        IN  Margin(markets[a], cash) >= 0 =>
                Margin(Current(a, value), cash) >= Margin(markets[a], cash) - 2 * RatioOne

\* The rate of the suppliers falls only when the market has drained, and the
\* index of the borrowers never.
RatesNeverFall ==
    [][\A a \in Assets :
         /\ markets'[a].borrow_index >= markets[a].borrow_index
         /\ \/ markets'[a].exchange_rate >= markets[a].exchange_rate
            \/ 0 \in {markets[a].total_supplied, markets'[a].total_supplied}]_lendingVars

\* The pool can fetch back every unit it counts as cash: what it booked is
\* staked, under the hotkey it unstakes from, and is never less than the chain
\* accepts as a stake of its own.  The first half is only so as long as nobody
\* moves or approves netuid 0 as if it were an alpha subnet (see Pool).
RootStakeIsBooked ==
    /\ ~On("root netuid") =>
         root_stake = [hotkey \in RootHotkeys |-> IF hotkey = root_hotkey THEN staked_tao ELSE 0]
    /\ staked_tao \notin 1 .. MinRootStakeFloor - 1

\* "The excess is unbooked value (owed to nobody), so the direct transfer
\* cannot short-change suppliers or the reserve" (claim_alpha_excess,
\* lib.rs:2438): all that the pool counts as staked cash is staked for it.
ClaimsSpareStakedCash == staked_tao <= SumFunction(root_stake)
=============================================================================
