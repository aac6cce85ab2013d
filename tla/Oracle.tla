------------------------------- MODULE Oracle -------------------------------
(***************************************************************************)
(* The price oracle (src/contracts/tusdt-oracle/lib.rs).  Reporters submit *)
(* to the open round, the validator or governance commits it, and the      *)
(* committed price is what vaults and the lending pool read.  As in Token, *)
(* a message is one step and the failing calls are no steps.               *)
(***************************************************************************)
EXTENDS Ratio, FiniteSets, Functions

CONSTANTS
    Accounts, NoAccount,
    RoleAccounts,        \* the accounts roles are given to
    Netuids,
    StakeInfos,          \* <<netuid, coldkey>> -> what the chain may answer
    NoStakeInfo,         \* its answer "no stake record"
    Prices,              \* the prices submitted and the overrides
    MinStakes,           \* values of set_min_submitter_stake
    Deviations,          \* values of set_max_price_deviation
    MinReporters,        \* MIN_REPORTERS
    MaxSubmissions,      \* MAX_ROUND_SUBMISSIONS
    MaxRounds,           \* bound: rounds committed (2^32 - 1 in the code)
    MaxTime,             \* bound: the block timestamp
    NoPrice

Rounds == 0 .. MaxRounds - 1
StakeInfo == [is_registered : BOOLEAN, stake : Nat]
PriceData ==
    [round_id : Rounds, price : Nat, median_price : Nat, reporter_count : Nat,
     committed_at : Nat, was_overridden : BOOLEAN]

ASSUME OracleConstants ==
    /\ NoAccount \notin Accounts
    /\ RoleAccounts \subseteq Accounts
    /\ NoStakeInfo \notin StakeInfo
    /\ StakeInfos \in [Netuids \X Accounts -> SUBSET (StakeInfo \cup {NoStakeInfo})]
    /\ Prices \subseteq Nat
    /\ MinStakes \subseteq Nat
    /\ Deviations \subseteq Nat
    /\ {MinReporters, MaxSubmissions, MaxRounds, MaxTime} \subseteq Nat \ {0}
    /\ NoPrice \notin PriceData

VARIABLES
    oracle_controller, oracle_governance,
    validator,               \* NoAccount until governance sets one
    netuid, min_submitter_stake,
    max_price_deviation,
    current_round_id,
    round_submissions,       \* <<round, account>> -> price, 0 for no entry
    round_reporter_count,    \* round -> number of reporters
    round_reporters,         \* <<round, index>> -> account
    committed_round_prices,  \* round -> price data
    latest_price,
    now                      \* the block timestamp

roleVars == <<oracle_controller, oracle_governance, validator>>
configVars == <<netuid, min_submitter_stake, max_price_deviation>>
bookVars == <<round_submissions, round_reporter_count, round_reporters>>
priceVars == <<current_round_id, committed_round_prices, latest_price>>
oracleVars == <<roleVars, configVars, bookVars, priceVars, now>>

\* Bound: no message concerns a round past the last.
RoundIsOpen == current_round_id < MaxRounds

----------------------------------------------------------------------------
(* compute_round_median. *)

\* The prices of a round, in the order of its reporters.
RoundPrices(round) ==
    [i \in 0 .. round_reporter_count[round] - 1 |->
        round_submissions[<<round, round_reporters[<<round, i>>]>>]]

\* The price at index k of the sorted prices.
SortedAt(prices, k) ==
    CHOOSE p \in Range(prices) :
        /\ Cardinality({i \in DOMAIN prices : prices[i] < p}) <= k
        /\ Cardinality({i \in DOMAIN prices : prices[i] <= p}) > k

\* Mutant: indices taken as if they started at 1.
Median_FromOne(prices) ==
    LET middle == (Cardinality(DOMAIN prices) \div 2) + 1
        last == Cardinality(DOMAIN prices) - 1
    IN  SortedAt(prices, IF middle > last THEN last ELSE middle)

\* The error for a sum of two middle prices beyond their type is left out: it only
\* takes commits away.
Median(prices) ==
    LET count == Cardinality(DOMAIN prices)
        middle == count \div 2
    IN  IF count % 2 = 1
        THEN SortedAt(prices, middle)
        ELSE (SortedAt(prices, middle - 1) + SortedAt(prices, middle)) \div 2

----------------------------------------------------------------------------
(* Reporting. *)

\* The caller's neuron, as the chain describes it, may report.
MayReport(info) ==
    /\ info # NoStakeInfo
    /\ info.is_registered
    /\ info.stake > min_submitter_stake

HasSubmitted(round, coldkey) == round_submissions[<<round, coldkey>>] # 0

\* Mutant: a replaced submission is counted again.
AddReporter_Twice(round, coldkey) ==
    LET count == round_reporter_count[round] IN
    /\ count < MaxSubmissions
    /\ round_reporters' = [round_reporters EXCEPT ![<<round, count>>] = coldkey]
    /\ round_reporter_count' = [round_reporter_count EXCEPT ![round] = count + 1]

\* Only the first submission of a reporter takes an index.
AddReporter(round, coldkey) ==
    LET count == round_reporter_count[round] IN
    \/ /\ HasSubmitted(round, coldkey)
       /\ UNCHANGED <<round_reporters, round_reporter_count>>
    \/ /\ ~HasSubmitted(round, coldkey)
       /\ count < MaxSubmissions
       /\ round_reporters' = [round_reporters EXCEPT ![<<round, count>>] = coldkey]
       /\ round_reporter_count' = [round_reporter_count EXCEPT ![round] = count + 1]

SubmitPrice(coldkey, info, price) ==
    /\ RoundIsOpen
    /\ MayReport(info)
    /\ price # 0
    /\ AddReporter(current_round_id, coldkey)
    /\ round_submissions' =
         [round_submissions EXCEPT ![<<current_round_id, coldkey>>] = price]
    /\ UNCHANGED <<roleVars, configVars, priceVars, now>>

----------------------------------------------------------------------------
(* Committing a round. *)

AbsDiff(p, q) == IF p >= q THEN p - q ELSE q - p

\* Mutant: only a rise is limited.
WithinDeviation_RiseOnly(candidate) ==
    latest_price # NoPrice =>
        candidate <= latest_price.price + MulValue(latest_price.price, max_price_deviation)

\* ensure_within_deviation
WithinDeviation(candidate) ==
    latest_price # NoPrice =>
        \/ latest_price.price = 0
        \/ AbsDiff(candidate, latest_price.price)
             <= MulValue(latest_price.price, max_price_deviation)

\* The median that is recorded; an override stands in when nobody reported.
MedianOr(price) ==
    IF round_reporter_count[current_round_id] = 0
    THEN price
    ELSE Median(RoundPrices(current_round_id))

FinalizeRound(price, median, was_overridden) ==
    LET data == [round_id |-> current_round_id, price |-> price, median_price |-> median,
                 reporter_count |-> round_reporter_count[current_round_id],
                 committed_at |-> now, was_overridden |-> was_overridden]
    IN  /\ committed_round_prices' = [committed_round_prices EXCEPT ![current_round_id] = data]
        /\ latest_price' = data
        /\ current_round_id' = current_round_id + 1
        /\ UNCHANGED <<roleVars, configVars, bookVars, now>>

\* commit_round(None)
CommitMedian(caller) ==
    /\ RoundIsOpen
    /\ caller = validator
    /\ round_reporter_count[current_round_id] >= MinReporters
    /\ LET median == Median(RoundPrices(current_round_id)) IN
       /\ WithinDeviation(median)
       /\ FinalizeRound(median, median, FALSE)

\* commit_round(Some(price))
CommitOverride(caller, price) ==
    /\ RoundIsOpen
    /\ caller = validator
    /\ price # 0
    /\ WithinDeviation(price)
    /\ FinalizeRound(price, MedianOr(price), TRUE)

CommitRoundGovernance(caller, price) ==
    /\ RoundIsOpen
    /\ caller = oracle_governance
    /\ price # 0
    /\ FinalizeRound(price, MedianOr(price), TRUE)

----------------------------------------------------------------------------
(* Roles and settings. *)

SetValidator(caller, account) ==
    /\ caller = oracle_governance
    /\ validator' = account
    /\ UNCHANGED <<oracle_controller, oracle_governance, configVars, bookVars, priceVars, now>>

UpdateGovernance(caller, account) ==
    /\ caller = oracle_controller
    /\ oracle_governance' = account
    /\ UNCHANGED <<oracle_controller, validator, configVars, bookVars, priceVars, now>>

SetController(caller, account) ==
    /\ caller = oracle_governance
    /\ oracle_controller' = account
    /\ UNCHANGED <<oracle_governance, validator, configVars, bookVars, priceVars, now>>

SetNetuid(caller, id) ==
    /\ caller = oracle_governance
    /\ netuid' = id
    /\ UNCHANGED <<roleVars, min_submitter_stake, max_price_deviation, bookVars, priceVars, now>>

SetMinSubmitterStake(caller, stake) ==
    /\ caller = oracle_governance
    /\ min_submitter_stake' = stake
    /\ UNCHANGED <<roleVars, netuid, max_price_deviation, bookVars, priceVars, now>>

SetMaxPriceDeviation(caller, deviation) ==
    /\ caller = oracle_governance
    /\ max_price_deviation' = deviation
    /\ UNCHANGED <<roleVars, netuid, min_submitter_stake, bookVars, priceVars, now>>

Tick ==
    /\ now < MaxTime
    /\ now' = now + 1
    /\ UNCHANGED <<roleVars, configVars, bookVars, priceVars>>

----------------------------------------------------------------------------

OracleInit ==
    /\ oracle_controller \in RoleAccounts
    /\ oracle_governance \in RoleAccounts
    /\ validator = NoAccount
    /\ netuid \in Netuids
    /\ min_submitter_stake \in MinStakes
    /\ max_price_deviation \in Deviations
    /\ current_round_id = 0
    /\ round_submissions = [entry \in Rounds \X Accounts |-> 0]
    /\ round_reporter_count = [round \in Rounds |-> 0]
    /\ round_reporters = [entry \in Rounds \X (0 .. MaxSubmissions - 1) |-> NoAccount]
    /\ committed_round_prices = [round \in Rounds |-> NoPrice]
    /\ latest_price = NoPrice
    /\ now = 0

CommitStep(caller) ==
    \/ CommitMedian(caller)
    \/ \E price \in Prices : CommitOverride(caller, price)
    \/ \E price \in Prices : CommitRoundGovernance(caller, price)

SettingStep(caller) ==
    \/ \E account \in RoleAccounts \cup {NoAccount} : SetValidator(caller, account)
    \/ \E account \in RoleAccounts : UpdateGovernance(caller, account)
    \/ \E account \in RoleAccounts : SetController(caller, account)
    \/ \E id \in Netuids : SetNetuid(caller, id)
    \/ \E stake \in MinStakes : SetMinSubmitterStake(caller, stake)
    \/ \E deviation \in Deviations : SetMaxPriceDeviation(caller, deviation)

OracleNext ==
    \/ \E coldkey \in Accounts, price \in Prices :
         \E info \in StakeInfos[<<netuid, coldkey>>] : SubmitPrice(coldkey, info, price)
    \/ \E caller \in RoleAccounts : CommitStep(caller) \/ SettingStep(caller)
    \/ Tick

OracleSpec == OracleInit /\ [][OracleNext]_oracleVars

----------------------------------------------------------------------------
(* Properties. *)

Reporters(round) ==
    {round_reporters[<<round, i>>] : i \in 0 .. round_reporter_count[round] - 1}

\* The list of reporters of a round holds each account with a submission once
\* and nobody else, whatever was replaced, and no later round has any: the
\* median is over one price per reporter.
RoundBookExact ==
    \A round \in Rounds :
        /\ \A i, j \in 0 .. round_reporter_count[round] - 1 :
             round_reporters[<<round, i>>] = round_reporters[<<round, j>>] => i = j
        /\ Reporters(round) = {account \in Accounts : HasSubmitted(round, account)}
        /\ round > current_round_id => round_reporter_count[round] = 0

\* The price of a round nobody overrode lies between the lowest and the highest
\* price of every majority of its reporters, now and for as long as the round is
\* kept: no minority can move it past all the others.
MedianIsMajority ==
    \A round \in 0 .. current_round_id - 1 :
        LET data == committed_round_prices[round]
            submitted(account) == round_submissions[<<round, account>>]
        IN  ~data.was_overridden =>
              \A majority \in SUBSET Reporters(round) :
                2 * Cardinality(majority) > data.reporter_count =>
                  /\ \E low \in majority : submitted(low) <= data.price
                  /\ \E high \in majority : data.price <= submitted(high)

\* The oracle is a price feed.
Feed == INSTANCE PriceFeed WITH
    history <- [round \in 0 .. current_round_id - 1 |-> committed_round_prices[round]],
    rounds <- current_round_id,
    latest <- latest_price,
    deviation <- max_price_deviation,
    clock <- now

\* Readers see an append-only history in which every price that was not an
\* override is the median of MIN_REPORTERS reports or more, within the deviation
\* of its time from the price before it.
ImplementsPriceFeed == Feed!FeedSpec
=============================================================================
