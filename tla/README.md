# TUSDT contracts in TLA+

A verification project for the TUSDT contracts: a stablecoin (TUSDT) borrowed
against Bittensor subnet tokens ("alpha"), the auctions that liquidate it, the
oracle that prices it, and the bodies that govern it. All of it is ink! code;
every message runs to its end or reverts with everything it called, so a message
with all its cross-contract calls is one step of a model, and the interleavings
that matter are those of whole messages by different callers, of several
contracts that keep books about one another, and of the chain (prices, staking
emissions, time) with all of them.

Paths below are relative to `src/`.

## 1. The system

| component | state | messages that change it |
|---|---|---|
| **TUSDT token** `contracts/tusdt-erc20` | supply, balances, allowances, controller (admin), minters | transfer, transfer_from, approve, increase_allowance, decrease_allowance, mint, burn, add_minter, remove_minter, set_controller |
| **Liquidation auction** `contracts/tusdt-auction` | auctions, active index, open auction per vault, bids, best bid, governance, controller, admin | create_auction, place_bid, finalize_auction, withdraw_refund, transfer_winning_bid, set_admin, set_controller, update_governance |
| **Alpha vault** `contracts/tusdt-vault-alpha` | roles, pause flag, approved subnets, risk parameters and pending updates, vaults per owner, totals, auction markers, native TAO, staked alpha | create, add, release, borrow, repay; trigger and settle an auction; schedule, execute and cancel parameters; roles; excess and surplus claims; hotkey moves; sweeps |
| **Fixed-point ratios** `primitives` | none | checked_mul_value, checked_div_value, checked_div_value_ceil, exp_fixed, pow_fixed |
| **Oracle** `contracts/tusdt-oracle` | reporters' submissions per round, reporter list, committed rounds, latest price, settings | submit_price, commit_round (with or without an override), commit_round_governance, settings, roles |
| **Election** `contracts/tusdt-election` | cadence, incumbent, terms served, phase, candidates, approvals, tally, snapshot, elect, transition | schedule_election, register_candidate, cast_approval, finalize, activate, end_transition, trigger_emergency_election, cancel_cycle |
| **Voting helpers** `voting` | none | day_of_month, integer_sqrt, voting_power, Merkle proofs |
| **Governance** `contracts/tusdt-governance` | maintainer, council, netuid, addresses, parameters, snapshots per epoch, proposals, votes | submit_snapshot, submit_proposal, vote, finalize, execute, update_params, set_council, elect_maintainer, election_set_netuid, some 40 forwarders |
| **Treasury** `contracts/tusdt-treasury` | balances of six funds in TUSDT and TAO | distribute (anybody), release and set_governance (governance) |
| **Lending pool** `contracts/tusdt-lending-pool` | two lending markets (TAO, TUSDT) with indexes, lender and borrower positions, alpha collateral per approved subnet, reserves, free and root-staked TAO | supply, withdraw, borrow, repay, deposit and withdraw alpha, liquidate, accrue, claim, sweep, parameters with timelock, roles |
| **Chain extension** `env` | none (the runtime's) | stake reads and moves, neuron information, prices |
| tests, `tools`, deployment scripts | – | – |

How they interact:

- The vault is the token's minter and the auction's controller: it mints on a
  borrow, burns on a repayment, opens an auction on liquidation, and on settlement
  pulls the winner's bid out of the auction, burns the debt's share, keeps or pays
  the fee and releases TAO to the winner. Two contracts thus record one
  liquidation: the vault's marker and counter, the auction's own maps.
- The vault and the pool read prices from the oracle; the oracle asks the chain
  who is a registered, sufficiently staked neuron.
- Governance forwards calls to all others and releases treasury funds. The
  election reads governance's last snapshot, and installs a maintainer and a
  subnet in it.
- Everything else comes from the chain: time, prices, emissions that raise the
  stake, the TAO that an unstaking returns.

What is hard here, and what correct means:

| component | hard behaviour | correct means |
|---|---|---|
| token | saturating and checked additions at the u64 limit, transfers to oneself | supply is the sum of balances; nobody but its owner touches an account without leave |
| auction | expiry against late first bids and raises; pooled escrow paid out in any order; swap-and-pop of the active index | the best bid stays the best, escrow covers each unpaid bid, an expired outcome is final |
| vault | two-contract liquidation in several messages, parameter changes under open positions, native sweeps between unstaking and settlement, totals kept by hand in six messages, hotkey moves | marker, auction and counter agree; settlement is always possible; supply follows debt; stake covers collateral; a borrower inside the borrowing limit is not liquidatable |
| oracle | replaced submissions in an insertion-sorted median, commits by others during a round, settings changed mid-round | one price per reporter; no minority moves the price; published rounds are immutable |
| election | a phase machine over calendar windows, emergency and cancelled cycles, per-cycle tallies reset by hand, transitions longer than a cycle | a winner has a majority of its own cycle, is installed, and no vote stalls |
| governance | parameters changed between proposal and finalization, snapshots per epoch, execution after the vote | a proposal executes once, on a quorum of its own snapshot |
| treasury | books updated from the difference to the actual balance | funds sum to what was distributed; a release never exceeds its fund |
| lending pool | shares and debt in different units, accrual before each message, health over two debts and several subnets of which one message refreshes one market, subnets retired and approved again, TAO moved between cash and root stake | no message hands out more than it brings in, but for one rounded unit; totals follow positions; a borrow or a withdrawal never leaves a position open to liquidation; what is booked as staked can be fetched back (but for netuid 0, section 4) |

`PROJECT.json` lists the hazards one by one, at the line where each bites, with
the property that watches it or the reason why none does.

## 2. Modules

| module | models | extends |
|---|---|---|
| `Token` | the token contract | |
| `Auction` | the auction contract with the token calls it makes | `Token` |
| `AuctionHouse` | the auction alone: a controller account stands for the vault | `Auction` |
| `Ratio` | multiplication and division by fixed-point ratios | |
| `Sales` | abstract: what vault and auction together promise when a debt is sold | |
| `Vault` | the vault with the auction and the token it drives; implements `Sales` | `Auction`, `Ratio` |
| `PriceFeed` | abstract: what readers may expect of the oracle | `Ratio` |
| `Oracle` | the oracle; implements `PriceFeed` | `Ratio` |
| `Voting` | calendar day, integer square root, voting power, and the calendar and the root they stand for | |
| `Election` | the election and the part of governance it writes | `Voting` |
| `Treasury` | the treasury and what it holds | |
| `Mandates` | abstract: how the treasury's money may leave | |
| `Governance` | governance and the treasury it spends; implements `Mandates` | `Treasury`, `Voting` |
| `Market` | the books of one market of the lending pool: operators on a `MarketState` | `Ratio` |
| `Lending` | the money side of the pool: both markets, the free and the root-staked TAO, treasury claims, rates, pause | `Market` |
| `Pool` | the whole pool: alpha collateral, health, borrowing, liquidation, subnets and their stake | `Lending` |
| `MC*` | instances for TLC | the module |
| `*Proofs` | theorems about the module; `HelperProofs` those about sums, roots and days that the others use | the module and `TLAPS` |

Names are those of the sources where TLA+ allows. A message `foo_bar` is an action
`FooBar(caller, arguments)`; its early returns are conjuncts of the guard, a
message that errs is a step that does not happen. Mappings are functions, `Option`
is a value or `None` (`NoElect`, `NoPrice`, ...), pairs used as keys are tuples.
Two alternatives of a message that end differently are two disjuncts. Operators
whose name ends in `_Something` right before a definition are mutants: the plausible
mistake in that definition which its property must notice.

### Token
`balances`, `allowances`, `total_supply` are the contract's maps; `MaxBalance` stands
for 2^64-1. Checked arithmetic is a guard, the saturating allowance addition a
minimum. `transfer_from_to` debits before it reads the recipient, which is what
makes a transfer to oneself harmless, and the model keeps that order
(`Moved`). Events are left out.

### Auction, AuctionHouse
An auction is a record; `auction_bids` maps an auction and a bid id to a bid,
`auction_bidder_bids` an auction and a bidder to the id of its bid; the active list keeps
its swap-and-pop order and its index. Each action includes the token call of its message. In
`AuctionHouse` any of the `Controllers` may play the vault, so the auction's
properties do not lean on what the vault does; in `Vault` its messages are the
controller's.

### Vault
A `VaultRecord` is the vault; `<<owner, id>>` its key; `native` and `stake` are the
accounts of the contract on the chain. The oracle price and the TAO returned
for unstaked alpha are inputs of the action that reads them. `Emission` and
`ReceiveNative` are the chain's own steps. The parameter timelock is kept with a
`now` that all three contracts share. `Vault!Next` is grouped as the source is:
`VaultStep` (owners and liquidators), `ParamStep`, `GovernanceStep`, `ChainStep`,
`AuctionStep` (bidders and the auction's roles), `TokenStep` (holders).

`Sales` is the promise of the three contracts together: a vault is sold for all it owes, in one sale at a
time; the sale is bid up, decided once and settled once, and settling takes the debt off the vault and out of
the supply and hands over the lot that was put up; until then neither debt nor lot can be touched.
`Vault!Sale` maps an auction id to its sale. No contract keeps the stage as such: an auction not
finalized is open, a finalized one is decided as long as a vault is marked with it, then settled. `trigger_liquidation_auction` is
`Open`, `place_bid` of a leader `Bid`, `finalize_auction` with a winner `Decide`, `settle_liquidation_auction`
`Settle`; borrow and repay are `Lend` and `Repay`, TAO from outside `Receive`, sweeps `Sweep`, the rest stutters.

### Oracle, PriceFeed
Submissions, reporter lists and counts are functions over rounds; the median is the
element whose rank is the middle one, the lower and upper middle averaged for an
even count, as the sorted array of the code gives it. The answer of the chain about a
reporter (`StakeInfos`) is an input. `PriceFeed` is the promise to readers: an
append-only history of rounds with the time of their commit, in which a price
nobody overrode is the median of at least `MinReporters` reports and lies within
the deviation of its predecessor. `Oracle!Feed` instantiates it with a refinement
mapping of five variables.

### Voting, Election
Time is in days: the code only compares timestamps with midnights (the window end,
the 5th, 10th and 15th), terms and transitions. `DayOfMonth` is the source's
arithmetic. A snapshot is a set of weighted leaves; a Merkle proof holds exactly for
its leaves. Governance is two variables that the election writes; what
`election_snapshot` returns is an input.

### Treasury, Governance, Mandates
The code keeps one map of funds and one total per kind of token; the model has a function
on kinds each (`funds`, `allocated`). `held` is what the treasury's account really has at the
token or on the chain, which the code only queries: it grows with `ReceiveFees` and falls with a
payment. `Distribute` books the difference over the six funds, with the remainder in the
first; `Release` does that before it looks at the fund, and pays last. A transfer of TAO must leave
`MinimumBalance`, a rule of the chain.

In `Governance` a snapshot is its electorate, the leaves with their balance and multiplier; a
Merkle proof holds for these and no others, so `Vote` takes a leaf of the snapshot of the
proposal. `Execute` includes the call of the treasury, and fails with it. The election is
external: `ElectMaintainer` installs any account. The deployer who holds the treasury before
governance does, and may spend from it, is part of `TreasuryStep`. Every council member may act;
a council is one of the sets in `Council`.

`Mandates` is the promise: a proposal goes from nothing to active to passed or rejected to
executed, its content never changes, and once governance holds the treasury money leaves only at
the last of these steps, by its amount. `Governance!Mandate` maps the status to the stage, the kind of
proposal to the mandate and `held` to the purse; votes, distributions, snapshots and roles
stutter.

### Market, Lending, Pool
`Market` has no state: its operators say what accrual, a supply, a borrow or a repayment does to a
`MarketState`, with the roundings of the code (`pow_fixed` by squaring, floors for shares and claims,
ceilings for scaled debt, the first hour of a borrow charged in advance). Time is in ticks, two to
the hour, so that remainders of an hour occur. TAO and TUSDT messages share their books
(`BookSupply`, `BookWithdrawal`, `BookBorrow`, `BookRepayment`) and differ in how the money moves.

`Lending` keeps `markets`, `positions` (lTokens and scaled debt) and the two sleeves of TAO: `native`
is the free balance, `staked_tao` what the pool booked as staked, `root_stake` what the chain has
staked for it under each hotkey. A message first accrues; the market it goes on with is `Current`, and it
errs when the accrual does (`CanAccrue`). A payable message accrues from a balance that already holds the
value sent, which is why these take a `value`; what exceeds the amount is sent back at the end, as in the code.
`SweepToRoot` ends a supply or a repayment of TAO: it may stake or, when the chain refuses, only stamp the block.
`PayTao` tops the free sleeve up by `TopUp`, which never leaves a stake below the floor. What the chain
reports as available is any number up to the stake, since it may be locked.

`Pool` adds the collateral: `netuid_to_market`, `market_to_netuid` and `market_keys` (every id there
ever was) are the registry, `alpha_principal` the positions by market id, `stake` the chain's record of the pool's alpha
by hotkey and subnet, `alpha` what accounts have of their own. `HealthFactor`, `AvailableBorrow` and `PlatformShare`
are the arithmetic of `risk.rs` with its floors; `RegistryReadable` is the error of its loops at a retired
id. `Liquidate` is one step with both payments and all stake transfers.

External: prices and their age (`price`, `fresh`), stake calls and emissions. Three choices only add behaviours:
lTokens that a holder gave away do not stop a withdrawal, the stake may be unavailable at any time, and the oracle
may go stale at any tick. Of the bounds, `MaxRate` and `MaxReserve` stop borrowing, else premiums would grow for ever, a
parameter update is only scheduled when some instant of `Times` is late enough to execute it, and `Emit` keeps the excess
of a subnet at one unit.

Netuid 0 (`RootNetuid`) is the root subnet, where the sleeve is staked, and to the pool a netuid like any other. Its stake is
`root_stake`; a second action for it, `ClaimRootExcess`, is what `claim_alpha_excess` does there, and `UpdatePoolHotkey` moves
it (`MoveRootStake`) when the list has netuid 0. Both occur, as does its approval, where `"root netuid"` is on the agenda; only
deposits of netuid 0 do not.

A behaviour has an *agenda*: the set of topics (`"rates"`, `"staking"`, `"subnets"`, ...) whose messages
occur in it. The core (supply aside: deposits, borrows, repayments, withdrawals, liquidations, accruals, claims,
sweeps) is always enabled. An agenda with all topics is an instance like any other, and the
theorems hold for it; TLC's scenarios take a few topics each, because all of them at once are out of reach.

## 3. Runs

| run | question | bounds |
|---|---|---|
| `token` | is supply the sum of balances, and does nobody but its owner touch an account without leave: by an allowance that falls by the amount moved, or as a minter that burns? | 2 accounts (so transfers to oneself and between two), `MaxBalance` 3, so that additions overflow |
| `auction_house` | auctions by themselves, with refunds and payments in any order | 2 bidders, 2 vaults, 3 auctions, of which two are active at once: the entry removed is the last or is replaced by the last, and a third is added after; longer lists are left to the proof; 2 bids per auction, amounts 1 and 2 give ties and raises; one tick each side of the end |
| `vault_liquidation` | two vaults liquidated at overlapping times, sweeps and pauses between, the totals over both vaults, and the abstract sale | prices 5 and 10 put a vault over and under both limits; bids of the debt of 6 and above leave nothing or a surplus (the auction refuses less, so there is no deficit) |
| `vault_params` | parameter updates and sweeps during borrowing and liquidation: is every settlement possible? | updates with the two ratios reversed and with a fee over 100% are among the choices and must be refused; time 2 is one timelock and one auction |
| `vault_custody` | two subnets, two hotkeys, emissions and excess claims | alpha to 3, moved in whole amounts of 2, so a claim or a move can leave less than the collateral |
| `oracle` | books, medians, and the abstract feed | 3 reporters, 2 rounds, `MIN_REPORTERS` 2 (3 in the code): one reporter is a minority, an even and an odd count both occur; prices 2 and 4 and deviations 0 and 5/10 give commits refused and allowed |
| `election` | winners, terms, windows, progress; the calendar and the square root against their definitions | 2 cycles; 2 candidates of two subnets, one already with a term served, one stake just below the bar; leaves of power 2, 1, 1 and 0, quorum 10 of 15; days before, in and after two windows, the 15ths, an end of transition and of a term; every day of 400 years, after which the calendar repeats, and the roots of the first 150001 numbers |
| `election_transition` | a comment's statement, refuted | the same |
| `governance` | books, tallies, payments, and the abstract mandates | 2 proposals, one of them without money or both for 4 TAO from a fund that gets 6 of 10 and so can pay one; 2 electorates in which one leaf differs in weight and the other is absent from one, 2 epochs; 10 of each kind arrive once; `Treasury` treats both kinds alike but for `MinimumBalance`, so proposals ask for TAO, the harder; a quorum of 20% or 50%; submission on the 20th, a voting period that ends between the two days |
| `pool` | do the books of both markets, the sleeves and the collateral stay exact in any order of messages, can rounding, a borrow or a withdrawal be turned against lenders, and does the margin between factor and threshold cover the first hour of a loan (`RoomAboveFactor`)? | one lender, one borrower, amounts of 2, alpha in lots of 140 (a factor of 0.3 on a price of 0.1 allows a debt of 4); rates near a third per hour and thousandths, so that every rounding shows; one hour and a half, then another: accruals over one, two and three hours, with and without remainder; an invalid choice beside each valid one; a liquidator sends the TAO that is owed and no more (`Excesses` is {0}: with a second value the run takes too long), so the refund of an excess is left to the proofs, which hold for any `Excesses`; nine scenarios, below |
| `pool_delisting` | a document's statement, refuted | the seventh scenario |
| `pool_root` | a comment's statement, refuted | the ninth scenario |

The scenarios of `pool` (`mcScenario`): (1) lending TUSDT over time; (2) the same with rate updates; (3) with
surplus claims and pauses; (4) the TAO market with sweeps, a change of the root hotkey and treasury sweeps; (5) a price that falls,
returns or goes stale, with liquidation; (6) updates of the alpha parameters over a timelock; (7) two subnets, both
markets, both debts, with subnets approved, retired and approved again, under changing prices; (8) custody: emissions, excess claims
and moves of the pool's hotkey, with subnets retired; (9) the swept TAO of a supplier with netuid 0 approved, claimed and moved. Two hotkeys, two subnets and three market ids are the least in which each
of these can go wrong.

Ratios are in tenths (`RatioOne` = 10), in `pool` in thousandths, where the code has 10^18; the proofs do not
depend on it. Symmetry is used for accounts or hotkeys that no definition singles
out, and in no run with a liveness property. Deadlock is checked except where the model's
calendar or its numbers end (`election`, `governance`).

What each property would catch is said above its definition; `PROJECT.json` names
for each a mutant of the code that breaks it.

### Fairness
Only `ElectionSpec` states any: weak for `Tick` and `Finalize`, strong for `Activate`.
Time passes; `finalize` and `activate` may be called by anybody and somebody (the winner
at least) wants them called; `activate` is only possible from the 15th to the end of a
month, hence strong: it becomes possible again every month. Nothing is assumed of
voters, candidates or incumbents, and the result (`VotingIsResolved`) starts from
`Voting`: a cycle nobody votes in may wait for ever, which is what `cancel_cycle` is for.
All other specifications are safety only. `SettlementNeverBlocked` states with
ENABLED that the code *lets* anyone settle; that somebody will is not claimed. For the
auction no fairness is justified: an unbid expired auction waits for an admin who may not be
set.

## 4. What the runs found

1. `LiquidationNeverBlocked`: `set_approved_netuid(netuid, false)` (pool `lib.rs:2606`) removes the subnet
   of a market id but leaves the id in `market_keys`; `lib.rs:3607` says such ids are skipped. A view skips
   them. The loops of the risk checks (`risk.rs:68`, `97`, `173`, `lib.rs:2181`) fail with `MarketNotFound`
   instead: once any alpha market has been retired, nobody can borrow or be liquidated, and nobody in debt can withdraw
   collateral. Approving the subnet again mints a new id and does not help. `README.md:315` says that anyone can
   liquidate a position whose health factor is below one.
2. `TransitionLeadsToWinner`: a transition opened for one winner survives the installation
   of the next (through an emergency election within its 182 days) when
   the next winner is of the governing subnet, and then moves governance to a subnet whose
   candidate is no longer in office; `lib.rs:141` of the election calls it the newly elected subnet.
3. `ClaimsSpareStakedCash`: the pool stakes the suppliers' TAO on netuid 0, for the account whose stake it also counts as
   collateral, and netuid 0 can be approved (`lib.rs:266`: "netuid 0 (the root subnet) is itself approvable"). Then
   `claim_alpha_excess(0)` (pool `lib.rs:2444`), which anybody may call, finds no collateral booked there, takes the whole sleeve for excess,
   unstakes it and pays it to the treasury; `staked_tao` still counts it and the suppliers cannot be paid from it. The comment at
   `lib.rs:2438` says "The excess is unbooked value (owed to nobody), so the direct transfer cannot short-change suppliers or the reserve".
   `update_pool_hotkey` (`lib.rs:2890`) compares its list with nothing: listing netuid 0, approved or not, moves the sleeve away
   from `root_hotkey`, from which alone it is unstaked (`lib.rs:3033` says that "the booking never references a stale hotkey",
   of the one message that rotates it). A maintainer must act first in either case. `RootStakeIsBooked` therefore says where the stake is only
   for behaviours without these two; that the booked amount is no dust it says for all.

Statements about vault and treasury that the model contradicts, without a run of their own:

- A comment in `settle_liquidation_auction` (vault `lib.rs:1415`) says "the borrower can repay during the auction (repay_token has no
  liquidation guard)". `repay_token` loads the vault with `load_caller_vault`, which refuses one in liquidation: the guard of
  `RepayToken`. Settlement is right either way.
- `docs/contracts/treasury.md:75` says "The governance contract itself can call `release(fund, token_kind, amount,
  recipient)` at any time — the Funding-proposal path is the community-visible route, not the only one." `release` would let it, but
  the governance contract has one call of it, in `execute`, and no message that forwards one: the maintainer's forwarders do not
  reach it. Once governance holds the treasury, money leaves it by a passed proposal only, which is what `ImplementsMandates` checks
  and `GovernanceImplementsMandates` proves. (Before that the deployer may release; a change of code is not modelled.)

Statements of the pool's documentation that the model contradicts, without a run of their own:

- A partial repayment may clear a position (`lib.rs:1850` and `docs/contracts/lending-pool.md:162` say it never
  does): the amount is divided by the index and rounded up, so at an index of 1.948 a repayment of 2 clears 2 scaled
  units, a debt of 3. The loss is below one scaled unit for each repayment (`MessageLosesOnlyDust`).
- `repay_tao` without debt, and `liquidate` of a borrower without TAO debt, return before the refund and keep the value sent
  (`lending-pool.md:165`, `:300` say the excess is refunded). `RepayNothing` and `Liquidate` model it; the value
  is surplus that the treasury may sweep.
- Payable messages accrue "before any state change" (`lib.rs:1131`), but from a balance that includes the value
  sent, so a large value lowers the utilization of the hours before it. `AccrualNeverFails` and
  `InterestIsCharged` quantify over that value.
- `withdraw_alpha` checks health at the debts of the last accrual, and a borrow accrues only its own market
  (`lending-pool.md:251` says a withdrawal that would push the
  position underwater is rejected: at the debts then due it may not be). `BorrowerIsSafe` is therefore stated at the booked debts.
- The face total is derived from the scaled total; the sum of the users' rounded debts may be below
  it (`lending-pool.md:168` says they are equal).

Facts that are not disagreements but are easy to get wrong: `add_alpha_collateral` does
not look at the approval of a subnet, so an emptied vault of a withdrawn subnet takes
collateral again; parameters of a lending market take effect without an accrual, so the hours
since the last one are charged at the new rates; the oracle's deviation
bound is per round, so several rounds in a short time may move a price further; and
an emergency election advances the regular cadence by a whole term as well.

## 5. Proofs

TLC shows the properties on the instances above; the following hold for every value of
the constants allowed by the named ASSUMEs beside their declarations: numbers are
naturals, `RatioOne` is positive, the contracts' accounts are accounts and distinct,
the default parameters are valid, a sentinel is not a value. Sums need more of the
constants: accounts, users, vaults, subnets, hotkeys and leaves are finite sets, and the
tokens of the start together fit a balance. Three assumptions come from the sources: a
new auction contract has approved nobody, a snapshot holds naturals, and the window
closes by a day that every month has (the 10th) with an approval threshold of at least half.

| theorem | says |
|---|---|
| `IntegerSqrtIsRoot`, `DayOfMonthIsCivil`, `DayOfMonthAdvances`, `DayOfMonthRepeats` (in `HelperProofs`) | `integer_sqrt` is the floor of the root, for every number; `day_of_month` is the day of the civil calendar on every day since 1970: the next one tomorrow, or the first after 28 or more; it repeats every 146097 days |
| `TokenTypeCorrect`, `TokenSupplyIsSum`, `TokenOthersNeedAllowance` | the token: no balance exceeds its width, the supply is the sum of the balances, and whoever is not the owner takes from an account what the allowance falls by, or burns it as a minter |
| `DivValueCeilIsCeiling` (in `VaultProofs`) | the rounding used for debts is the exact ceiling: the least number of scaled units that covers the value |
| `HouseLeadersAreHighest`, `HouseActiveIndexExact`, `HouseOneOpenAuctionPerVault`, `HouseEscrowCoversBids`, `HouseOutcomeFixed` | the auction's invariants and the finality of an expired outcome |
| `VaultTypeCorrect`, `VaultRecordsAgree`, `VaultLiquidationCountExact`, `VaultNoUnbackedDebt`, `VaultBorrowNeverLiquidatable` | the liquidation in the composed vault, and its limits |
| `VaultSupplyIsSum`, `VaultSupplyFollowsDebt`, `VaultTotalsExact`, `VaultStakeCoversCollateral`, `VaultNativeCoversAuctions`, `VaultEscrowCoversBids` | the books of the composed vault: tokens, debts, totals, stake, native TAO and escrow |
| `VaultImplementsSales` | vault, auction and token together implement the abstract sale of a debt, whatever their users, governance and the chain do |
| `VaultFinalizedCanSettle` | in every reachable state a vault whose auction is finalized meets every condition of its settlement |
| `OracleRoundBookExact`, `OracleMedianIsMajority`, `OracleImplementsPriceFeed` | the oracle, and that it implements its abstract specification |
| `ElectionHelpersExact`, `ElectionTermLimit`, `ElectionWinnerInstalled`, `ElectionVotesInWindow`, `ElectionWinnerHasMajority` | the election: the helpers it calls are exact; terms, installation, the days votes are cast on, the majority of its own cycle |
| `GovernanceBooksBalance`, `GovernanceTallyIsOfItsSnapshot`, `GovernanceImplementsMandates` | the six funds of each kind sum to what is allocated and held; a proposal is counted in its own snapshot; governance and treasury implement the abstract mandates |
| `GovernancePassedCanBePaid` | in every reachable state a passed proposal whose fund covers it meets every condition of its payment |
| `PoolTypeCorrect`, `PoolDebtIsFace`, `PoolRegistryInverse`, `PoolRootStakeIsBooked` | the pool: types, face totals derived from scaled ones, the registry of subnets, the root stake (under its hotkey while netuid 0 is neither approved nor moved) |
| `PoolTotalsInLockstep`, `PoolCollateralIsBooked` | the totals of both markets are the sums over the users; so is the collateral of each subnet, and the stake covers it |
| `PoolMessageLosesOnlyDust` | at any precision, rates, caps and amounts, no message of a user or the treasury takes out more than it brings in, but for one unit of scaled debt; a sweep, which changes no position, leaves cash for all claims |
| `PoolLiquidatorKeepsItsDue` | of collateral worth more than the debt, a liquidator keeps as much as it pays, whatever fees, prices and rounding |
| `PoolBorrowerIsSafe`, `PoolBorrowNearFactor` | while `RoomAboveFactor` holds, nobody borrows or withdraws into the reach of a liquidator; for all parameters, a borrow leaves the debt above the factor by no more than its first hour and a unit of scaled debt |
| `PoolRatesNeverFall`, `PoolAccrualFailsOnlyByOverflow`, `PoolAccrualNeverFails`, `PoolInterestIsShared` | no step takes interest back; an accrual whose rates fit their type succeeds, so that while all do none fails; for all amounts and rates an accrual loses less than two units beyond what the suppliers get and the borrowers are not charged |

How they go:

- **Recursion** (`HelperProofs`, and "Powers" in `PoolProofs`). Sums, the iteration of `integer_sqrt` and the loop of
  `pow_fixed` are recursive functions, which the prover knows as a CHOOSE of a function that satisfies its equation. For each, one
  lemma shows that such a function exists, one unfolds it, and the facts about it follow by taking a
  *least counterexample*: strict inclusion is well founded on the subsets of a finite set, and `<` on the
  numbers. Of sums one needs what a change of one term or two does (`SumChanged`), that larger terms give a larger
  sum, that a term is at most the sum, and that a factor can be taken out (`SumTimes`). The squaring of
  `pow_fixed` is not a structural recursion (base and result change with the exponent), so its function is
  glued from functions that are right up to an exponent (`UpToExists`, `UpToUnique`). The calendar step is linear arithmetic with
  divisions by constants, taken in three pieces: the day of the era, of the year, of the month. For `DayOfMonthIsCivil` the
  calendar is any function of days that starts on 1 January 1970 and goes from each date to the next by the lengths of the
  months (`IsCalendar`, `DayAfter`). `DateOf` adds year and month to the code's arithmetic; `DateWalks` shows that it goes the same way, by the length of
  a year that starts in March (`YearWalks`), of its months (`MonthLengths`) and the end of February; hence there is
  a calendar (`CalendarExists`), and the first day on which one differs from `DateOf` cannot be. `EveryMonthExact` carries this to the numbers of days that
  `HelpersExact` counts, where leap years are a cardinality and months a table: for every year, of which a run tries 400.
- **Token.** The typing is inductive by itself; the supply adds to it that it is the sum. A transfer changes two terms,
  or none when it is to oneself, and the proof follows the order of the code, which is why both cases come out.
  `OthersNeedAllowance` needs no more than the typing: one lemma per kind of message says which entries of both maps it can change.
- **Auction.** `AuctionInv` joins the types, the three invariants and `BookOK`: which entries of the
  maps exist (auctions below the count, bids only of those), and that a bidder's entry
  names a bid of that bidder. Without it a raise of "the bid of this bidder" could be
  anybody's, and `LeadersAreHighest` is not inductive. `EscrowInv` adds that nobody holds an allowance of the
  contract: otherwise a `transfer_from` could empty the escrow. One lemma per action; `AuctionHouse`
  and `Vault` both use them, because an action of either changes the auction by one of these
  or not at all.
- **Vault.** `VaultInv` adds `VaultsNumbered` (a vault exists exactly below its owner's count: a
  new one overwrites nothing), `ParamsOK` (the parameters in force keep the
  margin between the two ratios), `BidsHeld` (bids of an auction not yet finalized have not been paid back) and `LiquidationInv` (marker,
  open auction and counter describe the same set of vaults). They must be proved together:
  settling needs the marker to name an auction of this vault, which needs that only the vault opens
  auctions, which needs the roles. The counter uses cardinality lemmas for adding and
  removing one element.
- **The books of the vault.** `BooksInv` joins the sums with two facts they lean on: `Wiring` (the vault is the only
  minter and the auction's controller, so nobody else mints, burns or collects a winning bid) and `FinalizedHasBids` (a
  finalized auction has a winner). `SupplyFollowsDebt` needs `MarkerMatchesAuction`, since a settlement
  burns the auction's debt and clears the vault's; `NativeCoversAuctions` needs the gate, that is `LiquidationCountExact`, for a sweep is
  open exactly when nothing is on sale; `StakeCoversCollateral` needs `TotalsExact`, which the claim of excess is computed from, and
  moves of a hotkey keep it because the sum over hotkeys does not change.
  `SettlementReady` lists every early return and checked operation of `settle_liquidation_auction`,
  `FinalizedIsReady` derives it from `VaultInv /\ BooksInv`, and `ReadySettles` shows that a step with the
  conditions and the effects of the message is the message: the conditions listed are all there are.
- **The sale.** `VaultImplementsSales` needs no more than `VaultInv`: each message of each contract is one abstract step or a
  stutter. A settlement is of a decided sale and takes all the vault owes because the marker names an auction of this vault with its debt
  (`MarkerMatchesAuction`); a borrow or a repayment finds its vault on no sale because an auction without a marker is not open
  (`OpenAuctionIsMarked`); a sweep finds no sale at all because the counter is exact (`LiquidationCountExact`). The stage depends
  on two contracts, so each lemma shows how a message changes auctions, markers and native TAO, and the mapping follows.
- **Oracle.** `OracleInv` is the typing, `RoundBookExact`, `CommitRecorded` (a round
  below the current one holds the median of its own reporters, which are as many as
  recorded) and `LatestIsLast`. That a median exists and no minority moves it rests
  on lemmas about the rank of an element in a finite set, with the least element of a
  well-founded order. Refinement is shown action by action: a commit is `Publish`, a setting is
  `SetDeviation`, a tick `Elapse`, the rest stutter.
- **Election.** `ElectionInv` adds to the typing that candidates of the current cycle had a
  term left when they registered and still have (terms are only counted in `Activate`, which
  ends the cycle), and that outside `Elected` there is no winner and in it the winner is
  a candidate of the cycle. `WindowInv` says that every day from now to the end of an open window is one of its days:
  that the 9th follows the 8th is `DayOfMonthAdvances`, which is why the window must close by the 28th. `MajorityInv`
  adds `RecordsTyped` (nothing is recorded for a cycle to come: records are kept by cycle and never erased, so
  without it a new cycle could start with votes), `TallyExact` (the totals count the leaves that voted, each by
  the snapshot of the cycle) and `WinnerLeads`. The rest is arithmetic: the code's
  strict comparison with a threshold of at least half makes the weight more than half of the total.
- **Governance.** `GovernanceInv` is `TreasuryTyped` (naturals, and the treasury is held by the
  deployer or by governance), `BooksBalance`, and `ProposalsTyped` (proposals exist exactly up to the
  count, with a kind and a status of their types: a new one overwrites none). That the six
  shares sum to what is split is linear arithmetic on five rounded quotients
  (`SplitDeltaSums`); booking then allocates all that is held, so a fund that covers a payment proves that the
  account covers it (`ReleaseKeepsBooks`). `TallyInv` adds that every epoch reached has its snapshot (`SnapshotsTyped`) and that
  proposals are counted under such an epoch by leaves of it, those not yet submitted by none (`TalliesTyped`): a council that
  commits a new snapshot starts a new epoch, so it changes no electorate. `PaymentReady` and
  `ReadyPays` treat `execute`, with the release it calls, like `SettlementReady` and `ReadySettles`.
- **Pool, the money.** `PoolInv` is `LendingInv` (books typed and face totals derived, parameters in force valid, sleeves
  booked as staked, purses typed), `RegistryOK`, `CollateralOK` and the types of parameters and prices. The step lemma `Good`
  shows of each message that it keeps the invariant and that its margin, what the pool has and is owed less what it
  owes, falls by less than a unit. The margin is a product of rates and balances, nonlinear for the provers;
  four lemmas (`SupplyGains`, `WithdrawalGains`, `BorrowGains`, `RepaymentLosesDust`) bound each kind of message from
  the rounding lemmas alone, and an accrual does not enter because the margin is compared with that of the
  market it leads to.
- **Pool, the sums.** `BooksAddUp` (the totals of the markets) is inductive over `LendingInv`; an accrual leaves totals and positions
  alone. `CollateralInv` is `Booked` for every subnet with `NewIdsAreEmpty`: an approval mints an id, and
  the position under it must be empty, else retiring and approving a subnet would revive old collateral; that an id is never
  given twice is `RegistryOK`.
- **Pool, liquidation.** `OnlyLiquidateTakesAll`: no other message takes all debt and all collateral of a user in one step. Then
  `ShareIsOfSurplus` bounds the platform's share by the surplus over the debt, `KeptIsWorth` carries it to the alpha of one
  subnet with its two floors, and the sum over subnets follows by monotonicity.
- **Pool, the borrower.** The check of a borrow compares the value asked for, at the factor, with the collateral; what is booked
  has the first hour and the rounding of scaled debt on top. `BorrowNearFactor` bounds that by `Surcharge`, and `RoomAboveFactor` says the margin
  covers it. A withdrawal is checked for the health of what remains; no other message raises a debt or takes collateral
  (`StaysSafe`, one lemma per kind of message).
- **Pool, rates.** `PowGrows`: a power of at least one, rounded down at every squaring, is at least one; hence an accrual raises both rates
  (`GrownRises`), a prepaid hour raises the suppliers', and only a market without suppliers starts again at one.

Only model-checked, and why:

- `SettlementNeverBlocked` and `MandateIsPayable` (ENABLED) and `VotingIsResolved` (liveness) are out of the prover's reach. Of the first two
  `VaultFinalizedCanSettle` and `GovernancePassedCanBePaid` prove what does not speak of ENABLED; that the
  effects of a message exist as a next state is seen by reading them (one equation for each variable).
- `RatesFit`, the condition of `PoolAccrualNeverFails`, is not an invariant of the code: the indexes grow for as long as there are
  debts, so a market that lives long enough ends blocked. The run shows it for the hours of its `Times` (`AccrualNeverFails` implies it)
  and comes nowhere near the limit.
- `InterestIsCharged` bounds the loss of an accrual by two units. `PoolInterestIsShared` proves that for any amounts, but for what the
  suppliers get and the borrowers are not charged (`Uncharged`). That this is nothing compares two powers, each rounded at every
  squaring: it holds for the amounts of the run and not for all, since that loss grows with what a market holds.
- `RoomAboveFactor`, the condition of `PoolBorrowerIsSafe`, is not proved because it is not so for all parameters: the check of a borrow leaves out
  the first hour, and the validation only asks that the threshold be above the factor. The run shows that an instance has
  such room in all its reachable states; one with the two equal breaks it (the mutant).

## 6. Not modelled

- Of the lending pool: the index of positions and the debt principals, kept for views; updates of
  the global parameters (caps and the age of a price are constants) and of roles and addresses; deposits of
  netuid 0 as collateral (its approval, claims and moves are modelled); dividends on the root stake;
  the existential deposit. `liquidate` transfers stake subnet by subnet: whether the runtime takes back a transfer
  that succeeded when a later one fails is outside the repository (`lib.rs:2375` says it does not), and
  the model's step has them all or none.
- Governance's forwarders, which check a role and call another contract with the same arguments, the
  messages that replace one of its addresses, and its netuid beyond what `Election` has of it.
- The handover of the token, the auction or the oracle to another address
  (`set_token_controller`, `update_auction_address`, `update_oracle_address`,
  `update_token_address`) in the vault.
- The age of the oracle's price (the vault takes any price as input), locked alpha, the
  vault creation fee, amounts of zero that change nothing, u128 overflow inside ratio
  multiplications and in the sum of the two middle prices of a median, where the code refuses to commit (the values stay far below).
- Names, metadata, events, list pages; Merkle hashing (a proof is membership of a leaf); the
  candidates' list and the opening time of a vote, which no message reads.
- Code upgrade (`set_code`), test support, deployment tools.

## 7. Plan

Order of the work that is left:

1. **Lending pool**: global parameters and roles, netuid 0 as collateral; the position index as a second swap-and-pop list;
   `exp_fixed` as an operator checked against its series.
2. **Handover**: the vault's child contracts (markers of one auction contract against the ids of
   the next), and the treasury and the election that governance knows.
3. **Election and Governance composed**: the real election as the caller of `elect_maintainer` and reader
   of the snapshots, in place of the external one.
4. **Proofs**: a bound on `Uncharged`, which `PoolInterestIsShared` leaves open, that grows with
   the market; conditions on parameters alone (rates, factor, threshold) that imply `RoomAboveFactor`.
