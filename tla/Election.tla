------------------------------ MODULE Election ------------------------------
(***************************************************************************)
(* The election of the maintainer (src/contracts/tusdt-election/lib.rs).   *)
(* Of governance it sees the maintainer and the netuid it installs, and    *)
(* the snapshot it is given.  Time is in days, and a Merkle proof holds    *)
(* exactly for the leaves of the snapshot.                                 *)
(***************************************************************************)
EXTENDS Voting, FiniteSets, Functions

CONSTANTS
    Accounts, NoAccount,
    Netuids,             \* subnets a candidate may claim, 0 included
    Stakes,              \* <<account, netuid>> -> the stakes the chain may answer
    Leaves,              \* (coldkey, hotkey) pairs of all snapshots
    Snapshots,           \* what governance may hold as its latest snapshot
    NoSnapshot,
    NoElect, NoTransition,
    GenesisDay, TermLength, TransitionLength,
    VoteOpenDay, VoteCloseDay, ActivationDay,
    MaxTerms, ApprovalThresholdBps, QuorumBps, MinCandidateStake,
    MaxCycles,           \* bound: cycles ever opened
    Days                 \* the days on which something happens

Leaf == [balance : Nat, multiplier_bps : Nat]
IsSnapshot(snapshot) ==
    /\ snapshot.circulating_supply \in Nat
    /\ DOMAIN snapshot.leaves \subseteq Leaves
    /\ \A leaf \in DOMAIN snapshot.leaves : snapshot.leaves[leaf] \in Leaf
Cycles == 0 .. MaxCycles

ASSUME ElectionConstants ==
    /\ IsFiniteSet(Accounts) /\ IsFiniteSet(Leaves)
    /\ NoAccount \notin Accounts
    /\ Netuids \subseteq Nat
    /\ Stakes \in [Accounts \X Netuids -> SUBSET Nat]
    /\ NoSnapshot \notin Snapshots
    /\ \A snapshot \in Snapshots : IsSnapshot(snapshot)
    /\ {GenesisDay, TermLength, TransitionLength, MaxTerms, MaxCycles} \subseteq Nat
    /\ MaxTerms > 1
    /\ {VoteOpenDay, VoteCloseDay} \subseteq Nat /\ VoteCloseDay <= 28
    /\ ApprovalThresholdBps \in Nat /\ 2 * ApprovalThresholdBps >= BpsDenominator
    /\ Days \subseteq Nat

VARIABLES
    gov_maintainer, gov_netuid,   \* governance's side
    genesis_election_ts, term_index, next_election_ts,
    incumbent, active_netuid, terms_served,
    phase,
    cycle_id,
    candidates,           \* <<cycle, account>> -> netuid claimed, 0 for no candidacy
    approvals,            \* <<cycle, account>> -> weight
    participated,         \* {<<cycle, leaf>>}
    total_voting_power, total_voted_balance,
    leading_candidate, leading_weight,
    election_snapshot,
    voting_ends_at,
    maintainer_elect,
    transition,
    emergency_pending,
    now

govVars == <<gov_maintainer, gov_netuid>>
cadenceVars == <<genesis_election_ts, term_index, next_election_ts>>
officeVars == <<incumbent, active_netuid, terms_served, transition>>
recordVars == <<candidates, approvals, participated>>
tallyVars == <<total_voting_power, total_voted_balance, leading_candidate, leading_weight>>
cycleVars == <<phase, cycle_id, election_snapshot, voting_ends_at, maintainer_elect,
               emergency_pending>>
electionVars == <<govVars, cadenceVars, officeVars, recordVars, tallyVars, cycleVars, now>>

----------------------------------------------------------------------------

\* advance_cadence: counted from genesis, one more term.
AdvanceCadence ==
    /\ term_index' = term_index + 1
    /\ next_election_ts' = genesis_election_ts + (term_index + 1) * TermLength
    /\ UNCHANGED genesis_election_ts

\* Mutant: the leader of the cycle before is kept.
ClearTally_KeepLeader ==
    /\ total_voting_power' = 0
    /\ total_voted_balance' = 0
    /\ UNCHANGED <<leading_candidate, leading_weight>>

ClearTally ==
    /\ total_voting_power' = 0
    /\ total_voted_balance' = 0
    /\ leading_candidate' = NoAccount
    /\ leading_weight' = 0

\* schedule_election and open_registration, with the snapshot governance gave.
ScheduleElection(snapshot) ==
    /\ phase = "Idle"
    /\ emergency_pending \/ now >= next_election_ts
    /\ cycle_id < MaxCycles
    /\ cycle_id' = cycle_id + 1
    /\ ClearTally
    /\ maintainer_elect' = NoElect
    /\ voting_ends_at' = 0
    /\ emergency_pending' = FALSE
    /\ election_snapshot' = snapshot
    /\ phase' = "Registration"
    /\ UNCHANGED <<govVars, cadenceVars, officeVars, recordVars, now>>

\* Mutant: the terms served are not looked at.
MayStand_AnyTerms(account, netuid, stake) ==
    /\ netuid # 0
    /\ candidates[<<cycle_id, account>>] = 0
    /\ stake >= MinCandidateStake

MayStand(account, netuid, stake) ==
    /\ netuid # 0
    /\ terms_served[account] < MaxTerms
    /\ candidates[<<cycle_id, account>>] = 0
    /\ stake >= MinCandidateStake

RegisterCandidate(account, netuid, stake) ==
    /\ phase = "Registration"
    /\ MayStand(account, netuid, stake)
    /\ candidates' = [candidates EXCEPT ![<<cycle_id, account>>] = netuid]
    /\ UNCHANGED <<govVars, cadenceVars, officeVars, approvals, participated, tallyVars,
                   cycleVars, now>>

\* Mutant: the window is five days long whenever it opens.
WindowEnd_FiveDays(day) == day + (VoteCloseDay - VoteOpenDay)

\* The day voting closes: the 10th of the month of the first vote.
WindowEnd(day) == day + (VoteCloseDay - DayOfMonth(day))

\* The first vote opens the window; later ones must fall in it.
VotingIsOpen ==
    \/ /\ phase = "Registration"
       /\ DayOfMonth(now) \in VoteOpenDay .. VoteCloseDay - 1
       /\ voting_ends_at' = WindowEnd(now)
    \/ /\ phase = "Voting"
       /\ now < voting_ends_at
       /\ UNCHANGED voting_ends_at

CastApproval(leaf, candidate) ==
    LET balance == election_snapshot.leaves[leaf].balance
        weight == VotingPower(balance, election_snapshot.leaves[leaf].multiplier_bps)
        updated == approvals[<<cycle_id, candidate>>] + weight
    IN  /\ VotingIsOpen
        /\ candidates[<<cycle_id, candidate>>] # 0
        /\ <<cycle_id, leaf>> \notin participated
        /\ leaf \in DOMAIN election_snapshot.leaves
        /\ weight # 0
        /\ approvals' = [approvals EXCEPT ![<<cycle_id, candidate>>] = updated]
        /\ leading_weight' = IF updated > leading_weight THEN updated ELSE leading_weight
        /\ leading_candidate' = IF updated > leading_weight THEN candidate ELSE leading_candidate
        /\ participated' = participated \cup {<<cycle_id, leaf>>}
        /\ total_voting_power' = total_voting_power + weight
        /\ total_voted_balance' = total_voted_balance + balance
        /\ phase' = "Voting"
        /\ UNCHANGED <<govVars, cadenceVars, officeVars, candidates, cycle_id,
                       election_snapshot, maintainer_elect, emergency_pending, now>>

Quorum == (election_snapshot.circulating_supply * QuorumBps) \div BpsDenominator

HasWinner ==
    /\ total_voted_balance >= Quorum
    /\ leading_weight > 0
    /\ leading_weight * BpsDenominator > total_voting_power * ApprovalThresholdBps

ElectLeader ==
    /\ HasWinner
    /\ candidates[<<cycle_id, leading_candidate>>] # 0
    /\ maintainer_elect' = [who |-> leading_candidate,
                            netuid |-> candidates[<<cycle_id, leading_candidate>>]]
    /\ phase' = "Elected"
    /\ UNCHANGED cadenceVars

\* Mutant: an undecided vote is an error and changes nothing.
KeepIncumbent_Error == FALSE /\ UNCHANGED <<maintainer_elect, phase, cadenceVars>>

\* Nobody won: the next election is a term later.
KeepIncumbent ==
    /\ ~HasWinner
    /\ maintainer_elect' = NoElect
    /\ phase' = "Idle"
    /\ AdvanceCadence

Finalize ==
    /\ phase = "Voting"
    /\ now >= voting_ends_at
    /\ ElectLeader \/ KeepIncumbent
    /\ UNCHANGED <<govVars, officeVars, recordVars, tallyVars, cycle_id, election_snapshot,
                   voting_ends_at, emergency_pending, now>>

\* A winner from another subnet opens a transition, over any that is open.
OpenTransition(to) ==
    transition' =
        IF to = active_netuid
        THEN transition
        ELSE [from_netuid |-> active_netuid, to_netuid |-> to, ends_at |-> now + TransitionLength]

Activate ==
    /\ phase = "Elected"
    /\ now >= voting_ends_at
    /\ DayOfMonth(now) >= ActivationDay
    /\ gov_maintainer' = maintainer_elect.who
    /\ OpenTransition(maintainer_elect.netuid)
    /\ incumbent' = maintainer_elect.who
    /\ terms_served' = [terms_served EXCEPT ![maintainer_elect.who] = @ + 1]
    /\ AdvanceCadence
    /\ maintainer_elect' = NoElect
    /\ phase' = "Idle"
    /\ UNCHANGED <<gov_netuid, active_netuid, recordVars, tallyVars, cycle_id,
                   election_snapshot, voting_ends_at, emergency_pending, now>>

EndTransition ==
    /\ transition # NoTransition
    /\ now >= transition.ends_at
    /\ active_netuid' = transition.to_netuid
    /\ gov_netuid' = transition.to_netuid
    /\ transition' = NoTransition
    /\ UNCHANGED <<gov_maintainer, cadenceVars, incumbent, terms_served, recordVars,
                   tallyVars, cycleVars, now>>

TriggerEmergencyElection(caller) ==
    /\ caller = incumbent
    /\ phase = "Idle"
    /\ emergency_pending' = TRUE
    /\ UNCHANGED <<govVars, cadenceVars, officeVars, recordVars, tallyVars, phase, cycle_id,
                   election_snapshot, voting_ends_at, maintainer_elect, now>>

\* Mutant: any cycle may be cancelled.
Cancellable_AnyCycle == phase # "Idle"

Cancellable == phase = "Registration"

CancelCycle(caller) ==
    /\ caller = incumbent
    /\ Cancellable
    /\ election_snapshot' = NoSnapshot
    /\ ClearTally
    /\ voting_ends_at' = 0
    /\ phase' = "Idle"
    /\ UNCHANGED <<govVars, cadenceVars, officeVars, recordVars, cycle_id, maintainer_elect,
                   emergency_pending, now>>

\* Time passes to any later day of interest.
Tick ==
    /\ now' \in {day \in Days : day > now}
    /\ UNCHANGED <<govVars, cadenceVars, officeVars, recordVars, tallyVars, cycleVars>>

----------------------------------------------------------------------------

ElectionInit ==
    /\ incumbent \in Accounts
    /\ active_netuid \in Netuids
    /\ gov_maintainer = incumbent
    /\ gov_netuid = active_netuid
    /\ genesis_election_ts = GenesisDay
    /\ term_index = 1
    /\ next_election_ts = GenesisDay + TermLength
    /\ terms_served = [account \in Accounts |-> IF account = incumbent THEN 1 ELSE 0]
    /\ phase = "Idle"
    /\ cycle_id = 0
    /\ candidates = [entry \in Cycles \X Accounts |-> 0]
    /\ approvals = [entry \in Cycles \X Accounts |-> 0]
    /\ participated = {}
    /\ total_voting_power = 0
    /\ total_voted_balance = 0
    /\ leading_candidate = NoAccount
    /\ leading_weight = 0
    /\ election_snapshot = NoSnapshot
    /\ voting_ends_at = 0
    /\ maintainer_elect = NoElect
    /\ transition = NoTransition
    /\ emergency_pending = FALSE
    /\ now = GenesisDay

ElectionNext ==
    \/ \E snapshot \in Snapshots : ScheduleElection(snapshot)
    \/ \E account \in Accounts, netuid \in Netuids :
         \E stake \in Stakes[<<account, netuid>>] : RegisterCandidate(account, netuid, stake)
    \/ \E leaf \in Leaves, candidate \in Accounts : CastApproval(leaf, candidate)
    \/ Finalize
    \/ Activate
    \/ EndTransition
    \/ \E caller \in Accounts : TriggerEmergencyElection(caller) \/ CancelCycle(caller)
    \/ Tick

\* Time passes, and somebody makes the calls that anybody may make: finalize
\* once it is due, activate on one of the days that allow it.
ElectionFairness ==
    /\ WF_electionVars(Tick)
    /\ WF_electionVars(Finalize)
    /\ SF_electionVars(Activate)

ElectionSpec == ElectionInit /\ [][ElectionNext]_electionVars /\ ElectionFairness

----------------------------------------------------------------------------
(* Properties. *)

Voted == {leaf \in Leaves : <<cycle_id, leaf>> \in participated}
BalanceOf(leaf) == election_snapshot.leaves[leaf].balance
PowerOf(leaf) == VotingPower(BalanceOf(leaf), election_snapshot.leaves[leaf].multiplier_bps)

\* What the voters of the cycle weigh, and what the candidates got of it.
PowerCast == [leaf \in Leaves |-> IF leaf \in Voted THEN PowerOf(leaf) ELSE 0]
BalanceCast == [leaf \in Leaves |-> IF leaf \in Voted THEN BalanceOf(leaf) ELSE 0]
ApprovalsCast == [account \in Accounts |-> approvals[<<cycle_id, account>>]]

\* A decided winner has more than half of the power of the leaves that voted in
\* its own cycle, each counted once, and those leaves hold the quorum.
WinnerHasMajority ==
    phase = "Elected" =>
        /\ 2 * approvals[<<cycle_id, maintainer_elect.who>>] > SumFunction(PowerCast)
        /\ SumFunction(BalanceCast) >= Quorum
        /\ SumFunction(PowerCast) = SumFunction(ApprovalsCast)

\* Nobody holds the office for more than MAX_TERMS terms, the elect included.
TermLimit ==
    /\ \A account \in Accounts : terms_served[account] <= MaxTerms
    /\ phase = "Elected" => terms_served[maintainer_elect.who] < MaxTerms

\* A decided winner is only ever replaced by its own installation: no later
\* cycle, and no call of the outgoing incumbent, discards it.
DecidedWinnerIsInstalled ==
    [][maintainer_elect # NoElect /\ maintainer_elect' # maintainer_elect
         => incumbent' = maintainer_elect.who /\ gov_maintainer' = incumbent']_electionVars

\* Votes are cast from the 5th up to the 10th of a month, whenever the first was.
VotesInWindow ==
    [][participated' # participated
         => DayOfMonth(now) \in VoteOpenDay .. VoteCloseDay - 1]_electionVars

\* A cycle in which a vote was cast always comes to an end: it cannot stall on
\* an undecided vote, nor on a winner that does not show up.
VotingIsResolved == phase \in {"Voting", "Elected"} ~> phase = "Idle"

\* day_of_month gives the day of a civil calendar, in the month after the
\* leap day of the current year, and on every day of 400 years, leap years and
\* centuries included; the calendar repeats after them.  integer_sqrt is the
\* floor of the square root, for every balance of the electorate and for every
\* number of a range: its iteration never stops above it.
HelpersExact ==
    /\ MonthExact(3, 1970 + now \div 366) /\ EraExact
    /\ election_snapshot # NoSnapshot =>
         \A leaf \in DOMAIN election_snapshot.leaves : RootExact(BalanceOf(leaf))
    /\ RootsExact

\* What the sources say of a transition (lib.rs:141 "The newly elected subnet
\* awaiting activation"): after an activation none leads to another subnet.
TransitionLeadsToWinner ==
    [][incumbent' # incumbent /\ transition' # NoTransition
         => transition'.to_netuid = maintainer_elect.netuid]_electionVars
=============================================================================
