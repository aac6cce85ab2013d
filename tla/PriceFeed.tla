----------------------------- MODULE PriceFeed -----------------------------
(***************************************************************************)
(* What the oracle promises its readers, the vaults and the lending pool:  *)
(* prices are published one round after another, never changed afterwards, *)
(* stamped with the time of their commit; and a price nobody overrode is   *)
(* the median of enough reports and near the price before it.              *)
(***************************************************************************)
EXTENDS Ratio

CONSTANTS MinReporters, NoPrice

VARIABLES
    history,    \* round -> price data, for the rounds 0 .. rounds - 1
    rounds,
    latest,     \* what a reader gets, the last of history
    deviation,  \* the distance allowed between two prices, as a ratio
    clock

feedVars == <<history, rounds, latest, deviation, clock>>

Distance(p, q) == IF p >= q THEN p - q ELSE q - p

Trustworthy(data) ==
    /\ data.reporter_count >= MinReporters
    /\ data.price = data.median_price
    /\ rounds > 0 =>
         LET previous == history[rounds - 1].price IN
         previous = 0 \/ Distance(data.price, previous) <= MulValue(previous, deviation)

FeedInit ==
    /\ rounds = 0
    /\ history = [round \in {} |-> {}]
    /\ latest = NoPrice
    /\ clock = 0

Publish(data) ==
    /\ rounds' = rounds + 1
    /\ data.round_id = rounds
    /\ data.committed_at = clock
    /\ data.was_overridden \/ Trustworthy(data)
    /\ history' = [round \in 0 .. rounds |-> IF round = rounds THEN data ELSE history[round]]
    /\ latest' = data
    /\ UNCHANGED <<deviation, clock>>

SetDeviation ==
    /\ deviation' # deviation
    /\ UNCHANGED <<history, rounds, latest, clock>>

Elapse ==
    /\ clock' = clock + 1
    /\ UNCHANGED <<history, rounds, latest, deviation>>

FeedNext == Publish(latest') \/ SetDeviation \/ Elapse

FeedSpec == FeedInit /\ [][FeedNext]_feedVars
=============================================================================
