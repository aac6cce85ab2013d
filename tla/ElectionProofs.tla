--------------------------- MODULE ElectionProofs ---------------------------
(***************************************************************************)
(* The term limit, the installation of winners, the days votes are cast on *)
(* and the majority, for any electorate, any candidates and any number of  *)
(* cycles; and that the functions of the voting crate are exact.           *)
(***************************************************************************)
EXTENDS Election, HelperProofs

CandidaciesTyped ==
    /\ cycle_id \in Cycles
    /\ candidates \in [Cycles \X Accounts -> Nat]
    /\ terms_served \in [Accounts -> 0 .. MaxTerms]

\* Nobody stands in a cycle yet to come, and whoever stands in the open one may
\* serve another term.
CandidatesEligible ==
    /\ \A cycle \in Cycles, account \in Accounts :
         cycle > cycle_id => candidates[<<cycle, account>>] = 0
    /\ phase # "Idle" => \A account \in Accounts :
         candidates[<<cycle_id, account>>] # 0 => terms_served[account] < MaxTerms

\* There is a winner exactly while one is elected, and it is a candidate.
WinnerStands ==
    /\ leading_weight > 0 => leading_candidate \in Accounts
    /\ phase # "Elected" => maintainer_elect = NoElect
    /\ phase = "Elected" =>
         /\ maintainer_elect.who \in Accounts
         /\ candidates[<<cycle_id, maintainer_elect.who>>] # 0

ElectionInv == CandidaciesTyped /\ CandidatesEligible /\ WinnerStands

LEMMA ScheduleKeepsInv ==
    ASSUME ElectionInv, NEW snapshot, ScheduleElection(snapshot) PROVE ElectionInv'
<1>1. /\ cycle_id' = cycle_id + 1 /\ cycle_id' \in Cycles
      /\ UNCHANGED <<candidates, terms_served>>
      /\ phase' = "Registration" /\ maintainer_elect' = NoElect /\ leading_weight' = 0
  BY ElectionConstants
     DEF ScheduleElection, ClearTally, ElectionInv, CandidaciesTyped, Cycles, recordVars, officeVars
<1>2. CandidaciesTyped'
  BY <1>1 DEF ElectionInv, CandidaciesTyped
<1>3. CandidatesEligible'
  <2>1. \A cycle \in Cycles : cycle >= cycle_id' => cycle > cycle_id
    BY <1>1, ElectionConstants DEF Cycles, ElectionInv, CandidaciesTyped
  <2>2. \A cycle \in Cycles, account \in Accounts :
          cycle >= cycle_id' => candidates'[<<cycle, account>>] = 0
    BY <1>1, <2>1 DEF ElectionInv, CandidatesEligible
  <2>3. cycle_id' >= cycle_id'
    BY <1>1, ElectionConstants DEF Cycles
  <2>4. \A cycle \in Cycles : cycle > cycle_id' => cycle >= cycle_id'
    BY <1>1, ElectionConstants DEF Cycles
  <2>5. QED
    BY <1>1, <2>2, <2>3, <2>4 DEF CandidatesEligible
<1>4. WinnerStands'
  BY <1>1 DEF WinnerStands
<1>5. QED
  BY <1>2, <1>3, <1>4 DEF ElectionInv

LEMMA RegisterKeepsInv ==
    ASSUME ElectionInv, NEW account \in Accounts, NEW claim \in Netuids, NEW stake,
           RegisterCandidate(account, claim, stake)
    PROVE  ElectionInv'
<1>1. /\ candidates' = [candidates EXCEPT ![<<cycle_id, account>>] = claim]
      /\ terms_served[account] < MaxTerms
      /\ phase = "Registration"
      /\ UNCHANGED <<cycle_id, phase, maintainer_elect, terms_served, leading_weight,
                     leading_candidate>>
  BY DEF RegisterCandidate, MayStand, officeVars, tallyVars, cycleVars
<1>2. claim \in Nat
  BY ElectionConstants
<1>3. CandidaciesTyped'
  BY <1>1, <1>2 DEF ElectionInv, CandidaciesTyped
<1>4. CandidatesEligible'
  <2>1. ~ (cycle_id > cycle_id)
    BY ElectionConstants DEF ElectionInv, CandidaciesTyped, Cycles
  <2>2. \A cycle \in Cycles, a \in Accounts :
          cycle > cycle_id => candidates'[<<cycle, a>>] = 0
    BY <1>1, <2>1 DEF ElectionInv, CandidaciesTyped, CandidatesEligible
  <2>3. \A a \in Accounts : candidates'[<<cycle_id, a>>] # 0 => terms_served[a] < MaxTerms
    BY <1>1 DEF ElectionInv, CandidaciesTyped, CandidatesEligible
  <2>4. QED
    BY <1>1, <2>2, <2>3 DEF CandidatesEligible
<1>5. WinnerStands'
  BY <1>1 DEF ElectionInv, WinnerStands
<1>6. QED
  BY <1>3, <1>4, <1>5 DEF ElectionInv

LEMMA CastKeepsInv ==
    ASSUME ElectionInv, NEW leaf, NEW candidate \in Accounts, CastApproval(leaf, candidate)
    PROVE  ElectionInv'
<1>1. /\ phase \in {"Registration", "Voting"} /\ phase' = "Voting"
      /\ UNCHANGED <<cycle_id, candidates, terms_served, maintainer_elect>>
  BY DEF CastApproval, VotingIsOpen, officeVars
<1>2. leading_weight' > 0 => leading_candidate' \in Accounts
  BY DEF CastApproval, ElectionInv, WinnerStands
<1>3. QED
  BY <1>1, <1>2 DEF ElectionInv, CandidaciesTyped, CandidatesEligible, WinnerStands

LEMMA FinalizeKeepsInv ==
    ASSUME ElectionInv, Finalize PROVE ElectionInv'
<1>1. UNCHANGED <<cycle_id, candidates, terms_served, leading_weight, leading_candidate>>
  BY DEF Finalize, officeVars, recordVars, tallyVars
<1>2. phase = "Voting"
  BY DEF Finalize
<1>3. CASE ElectLeader
  <2>1. /\ leading_candidate \in Accounts
        /\ candidates[<<cycle_id, leading_candidate>>] # 0
        /\ maintainer_elect'.who = leading_candidate /\ phase' = "Elected"
    BY <1>3 DEF ElectLeader, HasWinner, ElectionInv, WinnerStands
  <2>2. QED
    BY <1>1, <1>2, <2>1 DEF ElectionInv, CandidaciesTyped, CandidatesEligible, WinnerStands
<1>4. CASE KeepIncumbent
  BY <1>1, <1>4 DEF KeepIncumbent, ElectionInv, CandidaciesTyped, CandidatesEligible, WinnerStands
<1>5. QED
  BY <1>3, <1>4 DEF Finalize

LEMMA ActivateKeepsInv ==
    ASSUME ElectionInv, Activate PROVE ElectionInv'
<1> DEFINE who == maintainer_elect.who
<1>1. /\ phase = "Elected" /\ phase' = "Idle" /\ maintainer_elect' = NoElect
      /\ terms_served' = [terms_served EXCEPT ![who] = @ + 1]
      /\ UNCHANGED <<cycle_id, candidates, leading_weight, leading_candidate>>
  BY DEF Activate, recordVars, tallyVars
<1>2. who \in Accounts /\ terms_served[who] < MaxTerms
  BY <1>1 DEF ElectionInv, WinnerStands, CandidatesEligible
<1>3. terms_served' \in [Accounts -> 0 .. MaxTerms]
  <2>1. terms_served[who] + 1 \in 0 .. MaxTerms
    BY <1>2, ElectionConstants DEF ElectionInv, CandidaciesTyped
  <2>2. QED
    BY <1>1, <2>1 DEF ElectionInv, CandidaciesTyped
<1>4. QED
  BY <1>1, <1>3 DEF ElectionInv, CandidaciesTyped, CandidatesEligible, WinnerStands

\* The other calls leave candidates, terms and winner alone.
LEMMA OthersKeepInv ==
    ASSUME ElectionInv,
           UNCHANGED <<cycle_id, candidates, terms_served, maintainer_elect>>,
           phase' = phase \/ (phase = "Registration" /\ phase' = "Idle"),
           \/ UNCHANGED <<leading_weight, leading_candidate>>
           \/ leading_weight' = 0
    PROVE  ElectionInv'
  BY DEF ElectionInv, CandidaciesTyped, CandidatesEligible, WinnerStands

LEMMA ElectionInvariant == ElectionSpec => []ElectionInv
<1>1. ElectionInit => ElectionInv
  <2>1. SUFFICES ASSUME ElectionInit PROVE ElectionInv
    OBVIOUS
  <2>2. CandidaciesTyped
    BY <2>1, ElectionConstants DEF ElectionInit, CandidaciesTyped, Cycles
  <2>3. CandidatesEligible
    BY <2>1 DEF ElectionInit, CandidatesEligible
  <2>4. WinnerStands
    BY <2>1 DEF ElectionInit, WinnerStands
  <2>5. QED
    BY <2>2, <2>3, <2>4 DEF ElectionInv
<1>2. ElectionInv /\ [ElectionNext]_electionVars => ElectionInv'
  <2>1. SUFFICES ASSUME ElectionInv, [ElectionNext]_electionVars PROVE ElectionInv'
    OBVIOUS
  <2>2. ASSUME NEW snapshot \in Snapshots, ScheduleElection(snapshot) PROVE ElectionInv'
    BY <2>1, <2>2, ScheduleKeepsInv
  <2>3. ASSUME NEW account \in Accounts, NEW claim \in Netuids,
               NEW stake \in Stakes[<<account, claim>>],
               RegisterCandidate(account, claim, stake)
        PROVE  ElectionInv'
    BY <2>1, <2>3, RegisterKeepsInv
  <2>4. ASSUME NEW leaf \in Leaves, NEW candidate \in Accounts, CastApproval(leaf, candidate)
        PROVE  ElectionInv'
    BY <2>1, <2>4, CastKeepsInv
  <2>5. CASE Finalize
    BY <2>1, <2>5, FinalizeKeepsInv
  <2>6. CASE Activate
    BY <2>1, <2>6, ActivateKeepsInv
  <2>7. CASE EndTransition
    BY <2>1, <2>7, OthersKeepInv DEF EndTransition, recordVars, tallyVars, cycleVars
  <2>8. ASSUME NEW caller \in Accounts, TriggerEmergencyElection(caller) PROVE ElectionInv'
    BY <2>1, <2>8, OthersKeepInv DEF TriggerEmergencyElection, officeVars, recordVars, tallyVars
  <2>9. ASSUME NEW caller \in Accounts, CancelCycle(caller) PROVE ElectionInv'
    BY <2>1, <2>9, OthersKeepInv DEF CancelCycle, Cancellable, ClearTally, officeVars, recordVars
  <2>10. CASE Tick
    BY <2>1, <2>10, OthersKeepInv DEF Tick, officeVars, recordVars, tallyVars, cycleVars
  <2>11. CASE UNCHANGED electionVars
    BY <2>1, <2>11, OthersKeepInv
       DEF electionVars, officeVars, recordVars, tallyVars, cycleVars
  <2>12. QED
    BY <2>1, <2>2, <2>3, <2>4, <2>5, <2>6, <2>7, <2>8, <2>9, <2>10, <2>11 DEF ElectionNext
<1>3. QED
  BY <1>1, <1>2, PTL DEF ElectionSpec

\* Nobody serves more than MAX_TERMS terms, and a winner yet to be installed has
\* one left, whatever cycles were opened, cancelled or left undecided
\* (register_candidate, activate).
THEOREM ElectionTermLimit == ElectionSpec => []TermLimit
<1>1. ElectionInv => TermLimit
  BY ElectionConstants
     DEF ElectionInv, CandidaciesTyped, CandidatesEligible, WinnerStands, TermLimit
<1>2. QED
  BY <1>1, ElectionInvariant, PTL

\* A decided winner only goes by its own installation: no message of anybody
\* discards it (finalize, activate, cancel_cycle, schedule_election).
THEOREM ElectionWinnerInstalled == ElectionSpec => DecidedWinnerIsInstalled
<1> DEFINE Installed ==
      maintainer_elect # NoElect /\ maintainer_elect' # maintainer_elect
        => incumbent' = maintainer_elect.who /\ gov_maintainer' = incumbent'
<1>1. ElectionInv /\ [ElectionNext]_electionVars => [Installed]_electionVars
  <2>1. SUFFICES ASSUME ElectionInv, ElectionNext PROVE Installed
    OBVIOUS
  <2>2. SUFFICES ASSUME maintainer_elect # NoElect, maintainer_elect' # maintainer_elect
                 PROVE  Activate
    BY DEF Activate
  <2>3. phase = "Elected"
    BY <2>1, <2>2 DEF ElectionInv, WinnerStands
  <2>4. QED
    BY <2>1, <2>2, <2>3
       DEF ElectionNext, ScheduleElection, RegisterCandidate, CastApproval, VotingIsOpen, Finalize,
           EndTransition, TriggerEmergencyElection, CancelCycle, Cancellable, Tick, cycleVars
<1>2. QED
  BY <1>1, ElectionInvariant, PTL DEF ElectionSpec, DecidedWinnerIsInstalled

----------------------------------------------------------------------------
(* The window of the votes. *)

\* Within a month a day of the month is the first one and what has passed since.
LEMMA DaysOfWindow ==
    ASSUME NEW first \in Nat, DayOfMonth(first) \in VoteOpenDay .. VoteCloseDay - 1
    PROVE  \A k \in Nat : k < VoteCloseDay - DayOfMonth(first) =>
              DayOfMonth(first + k) = DayOfMonth(first) + k
<1> DEFINE day == DayOfMonth(first)
           Bad == {k \in Nat : k < VoteCloseDay - day /\ DayOfMonth(first + k) # day + k}
<1>1. SUFFICES ASSUME Bad # {} PROVE FALSE
  OBVIOUS
<1>2. PICK k \in Bad : \A j \in Bad : k <= j
  <2> HIDE DEF Bad
  <2>1. Bad \in SUBSET Nat
    BY DEF Bad
  <2>2. QED
    BY <1>1, <2>1, LeastNatural
<1>3. /\ k \in Nat /\ k < VoteCloseDay - day /\ DayOfMonth(first + k) # day + k
      /\ day \in Nat /\ day < VoteCloseDay /\ VoteCloseDay \in Nat /\ VoteCloseDay <= 28
  BY <1>2, ElectionConstants
<1>4. k # 0
  <2>1. CASE k = 0
    <3>1. first + k = first /\ day + k = day
      BY <1>3, <2>1
    <3>2. QED
      BY <1>3, <3>1
  <2>2. QED
    BY <2>1
<1>5. PICK j \in Nat : k = j + 1
  <2>1. k - 1 \in Nat /\ k = (k - 1) + 1
    BY <1>3, <1>4
  <2>2. QED
    BY <2>1
<1>6. DayOfMonth(first + j) = day + j
  <2>1. ~ (k <= j) /\ j < VoteCloseDay - day
    BY <1>3, <1>5
  <2>2. QED
    BY <1>2, <2>1
<1>7. first + j \in Nat /\ (first + j) + 1 = first + k
  BY <1>5
<1>8. \/ DayOfMonth(first + k) = DayOfMonth(first + j) + 1
      \/ DayOfMonth(first + j) >= 28
  BY <1>7, DayOfMonthAdvances
<1> HIDE DEF day, Bad
<1>9. QED
  BY <1>3, <1>5, <1>6, <1>8

\* From now to the end of an open window every day is one of its days.
WindowInv ==
    /\ now \in Nat
    /\ phase = "Voting" => \A day \in Nat : now <= day /\ day < voting_ends_at =>
         DayOfMonth(day) \in VoteOpenDay .. VoteCloseDay - 1

LEMMA CastKeepsWindow ==
    ASSUME WindowInv, NEW leaf, NEW candidate, CastApproval(leaf, candidate)
    PROVE  WindowInv' /\ DayOfMonth(now) \in VoteOpenDay .. VoteCloseDay - 1
<1>1. now' = now /\ now \in Nat /\ VotingIsOpen
  BY DEF CastApproval, WindowInv
<1>2. CASE phase = "Voting"
  BY <1>1, <1>2 DEF VotingIsOpen, WindowInv
<1>3. CASE phase = "Registration"
  <2>1. /\ DayOfMonth(now) \in VoteOpenDay .. VoteCloseDay - 1
        /\ voting_ends_at' = now + (VoteCloseDay - DayOfMonth(now))
    BY <1>1, <1>3 DEF VotingIsOpen, WindowEnd
  <2>2. ASSUME NEW day \in Nat, now <= day, day < voting_ends_at'
        PROVE  DayOfMonth(day) \in VoteOpenDay .. VoteCloseDay - 1
    <3>1. /\ DayOfMonth(now) \in Nat /\ VoteCloseDay \in Nat /\ VoteOpenDay \in Nat
          /\ DayOfMonth(now) >= VoteOpenDay
      BY <2>1, ElectionConstants
    <3> DEFINE k == day - now
    <3>2. k \in Nat /\ now + k = day /\ k < VoteCloseDay - DayOfMonth(now)
      BY <1>1, <2>1, <2>2, <3>1
    <3> HIDE DEF k
    <3>3. DayOfMonth(day) = DayOfMonth(now) + k
      BY <1>1, <2>1, <3>2, DaysOfWindow
    <3>4. QED
      BY <3>1, <3>2, <3>3
  <2>3. QED
    BY <1>1, <2>1, <2>2 DEF WindowInv
<1>4. QED
  BY <1>1, <1>2, <1>3 DEF VotingIsOpen

LEMMA WindowInvariant == ElectionSpec => []WindowInv
<1>1. ElectionInit => WindowInv
  BY ElectionConstants DEF ElectionInit, WindowInv
<1>2. WindowInv /\ [ElectionNext]_electionVars => WindowInv'
  <2> SUFFICES ASSUME WindowInv, [ElectionNext]_electionVars PROVE WindowInv'
    OBVIOUS
  <2>1. CASE \E leaf \in Leaves, candidate \in Accounts : CastApproval(leaf, candidate)
    BY <2>1, CastKeepsWindow
  <2>2. CASE Tick
    <3>1. now' \in Nat /\ now <= now' /\ UNCHANGED <<phase, voting_ends_at>>
      BY <2>2, ElectionConstants DEF Tick, cycleVars, WindowInv
    <3>2. \A day \in Nat : now' <= day => now <= day
      BY <3>1 DEF WindowInv
    <3>3. QED
      BY <3>1, <3>2 DEF WindowInv
  <2>3. CASE \/ \E snapshot \in Snapshots : ScheduleElection(snapshot)
             \/ Finalize \/ Activate
             \/ \E caller \in Accounts : CancelCycle(caller)
    BY <2>3 DEF WindowInv, ScheduleElection, Finalize, ElectLeader, KeepIncumbent, Activate,
                CancelCycle
  <2>4. CASE \/ \E account \in Accounts, netuid \in Netuids :
                  \E stake \in Stakes[<<account, netuid>>] :
                     RegisterCandidate(account, netuid, stake)
             \/ EndTransition
             \/ \E caller \in Accounts : TriggerEmergencyElection(caller)
             \/ UNCHANGED electionVars
    BY <2>4 DEF WindowInv, RegisterCandidate, EndTransition, TriggerEmergencyElection,
                electionVars, cycleVars
  <2>5. QED
    BY <2>1, <2>2, <2>3, <2>4 DEF ElectionNext
<1>3. QED
  BY <1>1, <1>2, PTL DEF ElectionSpec

\* Votes are only cast between the days of the window, whenever in it the first
\* was cast: the end it computes is the 10th of the same month (cast_approval,
\* day_of_month; VotesInWindow).
THEOREM ElectionVotesInWindow == ElectionSpec => VotesInWindow
<1> DEFINE InWindow ==
      participated' # participated => DayOfMonth(now) \in VoteOpenDay .. VoteCloseDay - 1
<1>1. WindowInv /\ [ElectionNext]_electionVars => [InWindow]_electionVars
  <2>1. SUFFICES ASSUME WindowInv, ElectionNext, participated' # participated
                 PROVE  DayOfMonth(now) \in VoteOpenDay .. VoteCloseDay - 1
    OBVIOUS
  <2>2. \E leaf \in Leaves, candidate \in Accounts : CastApproval(leaf, candidate)
    BY <2>1 DEF ElectionNext, ScheduleElection, RegisterCandidate, Finalize, Activate,
                EndTransition, TriggerEmergencyElection, CancelCycle, Tick, recordVars
  <2>3. QED
    BY <2>1, <2>2, CastKeepsWindow
<1>2. QED
  BY <1>1, WindowInvariant, PTL DEF ElectionSpec, VotesInWindow

----------------------------------------------------------------------------
(* The majority. *)

\* Nothing is recorded for a cycle yet to come.
RecordsTyped ==
    /\ approvals \in [Cycles \X Accounts -> Nat]
    /\ {total_voting_power, total_voted_balance, leading_weight} \subseteq Nat
    /\ \A cycle \in Cycles : cycle > cycle_id =>
         /\ \A account \in Accounts : approvals[<<cycle, account>>] = 0
         /\ \A leaf \in Leaves : <<cycle, leaf>> \notin participated

\* In an open cycle the totals count the leaves that voted in it, each by the
\* snapshot of the cycle, and the candidates share exactly that.
TallyExact ==
    phase # "Idle" =>
        /\ election_snapshot \in Snapshots
        /\ Voted \subseteq DOMAIN election_snapshot.leaves
        /\ total_voting_power = SumFunction(PowerCast)
        /\ total_voting_power = SumFunction(ApprovalsCast)
        /\ total_voted_balance = SumFunction(BalanceCast)
        /\ leading_weight > 0 => leading_weight = approvals[<<cycle_id, leading_candidate>>]

WinnerLeads ==
    phase = "Elected" => HasWinner /\ maintainer_elect.who = leading_candidate

MajorityInv == ElectionInv /\ RecordsTyped /\ TallyExact /\ WinnerLeads

LEMMA LeafTyped ==
    ASSUME election_snapshot \in Snapshots, NEW leaf \in DOMAIN election_snapshot.leaves
    PROVE  BalanceOf(leaf) \in Nat /\ PowerOf(leaf) \in Nat /\ leaf \in Leaves
<1>1. election_snapshot.leaves[leaf] \in Leaf /\ leaf \in Leaves
  BY ElectionConstants DEF IsSnapshot
<1>2. QED
  BY <1>1, VotingPowerNat DEF Leaf, BalanceOf, PowerOf

LEMMA CastTyped ==
    ASSUME MajorityInv, phase # "Idle"
    PROVE  PowerCast \in [Leaves -> Nat] /\ BalanceCast \in [Leaves -> Nat]
<1>1. \A leaf \in Voted : PowerOf(leaf) \in Nat /\ BalanceOf(leaf) \in Nat
  BY LeafTyped DEF MajorityInv, TallyExact
<1>2. QED
  BY <1>1 DEF PowerCast, BalanceCast

LEMMA ScheduleKeepsMajority ==
    ASSUME MajorityInv, ElectionInv', NEW snapshot \in Snapshots, ScheduleElection(snapshot)
    PROVE  MajorityInv'
<1>1. /\ cycle_id' = cycle_id + 1 /\ cycle_id \in Cycles /\ cycle_id' \in Cycles
      /\ UNCHANGED <<approvals, participated>>
      /\ election_snapshot' = snapshot /\ phase' = "Registration"
      /\ total_voting_power' = 0 /\ total_voted_balance' = 0 /\ leading_weight' = 0
  BY ElectionConstants
     DEF ScheduleElection, ClearTally, MajorityInv, ElectionInv, CandidaciesTyped, Cycles, recordVars
<1>2. /\ cycle_id' > cycle_id
      /\ \A cycle \in Cycles : cycle > cycle_id' => cycle > cycle_id
  BY <1>1, ElectionConstants DEF Cycles
<1>3. RecordsTyped'
  BY <1>1, <1>2 DEF MajorityInv, RecordsTyped
<1>4. /\ \A account \in Accounts : approvals[<<cycle_id', account>>] = 0
      /\ Voted' = {}
  BY <1>1, <1>2 DEF MajorityInv, RecordsTyped, Voted
<1>5. /\ SumFunction(PowerCast)' = 0
      /\ SumFunction(BalanceCast)' = 0
      /\ SumFunction(ApprovalsCast)' = 0
  <2>1. /\ PowerCast' = [leaf \in Leaves |-> 0] /\ BalanceCast' = [leaf \in Leaves |-> 0]
        /\ ApprovalsCast' = [account \in Accounts |-> 0]
    BY <1>1, <1>4 DEF PowerCast, BalanceCast, ApprovalsCast
  <2>2. /\ SumFunction([leaf \in Leaves |-> 0]) = 0
        /\ SumFunction([account \in Accounts |-> 0]) = 0
    BY ElectionConstants, SumOfZeros
  <2>3. QED
    BY <2>1, <2>2
<1>6. TallyExact' /\ WinnerLeads'
  BY <1>1, <1>4, <1>5 DEF TallyExact, WinnerLeads
<1>7. QED
  BY <1>3, <1>6 DEF MajorityInv

\* A vote adds the same to the total, to the candidate and to what was cast.
LEMMA CastKeepsMajority ==
    ASSUME MajorityInv, ElectionInv', NEW leaf \in Leaves, NEW candidate \in Accounts,
           CastApproval(leaf, candidate)
    PROVE  MajorityInv'
<1> DEFINE weight == PowerOf(leaf)
           balance == BalanceOf(leaf)
           old == approvals[<<cycle_id, candidate>>]
<1>1. /\ phase # "Idle" /\ phase' = "Voting"
      /\ <<cycle_id, leaf>> \notin participated
      /\ leaf \in DOMAIN election_snapshot.leaves
      /\ approvals' = [approvals EXCEPT ![<<cycle_id, candidate>>] = old + weight]
      /\ leading_weight' = IF old + weight > leading_weight THEN old + weight ELSE leading_weight
      /\ leading_candidate' =
           IF old + weight > leading_weight THEN candidate ELSE leading_candidate
      /\ participated' = participated \cup {<<cycle_id, leaf>>}
      /\ total_voting_power' = total_voting_power + weight
      /\ total_voted_balance' = total_voted_balance + balance
      /\ UNCHANGED <<cycle_id, election_snapshot>>
  BY DEF CastApproval, VotingIsOpen, PowerOf, BalanceOf
<1>2. /\ cycle_id \in Cycles /\ ~ (cycle_id > cycle_id)
      /\ approvals \in [Cycles \X Accounts -> Nat]
      /\ total_voting_power \in Nat /\ total_voted_balance \in Nat /\ leading_weight \in Nat
  BY ElectionConstants
     DEF MajorityInv, ElectionInv, CandidaciesTyped, RecordsTyped, Cycles
<1>3. /\ election_snapshot \in Snapshots
      /\ Voted \subseteq DOMAIN election_snapshot.leaves
      /\ total_voting_power = SumFunction(PowerCast)
      /\ total_voting_power = SumFunction(ApprovalsCast)
      /\ total_voted_balance = SumFunction(BalanceCast)
      /\ leading_weight > 0 => leading_weight = approvals[<<cycle_id, leading_candidate>>]
  BY <1>1 DEF MajorityInv, TallyExact
<1>4. weight \in Nat /\ balance \in Nat /\ old \in Nat
  BY <1>1, <1>2, <1>3, LeafTyped
<1>5. /\ Voted' = Voted \cup {leaf} /\ leaf \notin Voted
      /\ \A other : PowerOf(other)' = PowerOf(other) /\ BalanceOf(other)' = BalanceOf(other)
  BY <1>1 DEF Voted, PowerOf, BalanceOf
<1>6. /\ SumFunction(PowerCast)' = SumFunction(PowerCast) + weight
      /\ SumFunction(BalanceCast)' = SumFunction(BalanceCast) + balance
  <2> DEFINE p == PowerCast
             q == [p EXCEPT ![leaf] = weight]
             b == BalanceCast
             c == [b EXCEPT ![leaf] = balance]
  <2>1. p \in [Leaves -> Nat] /\ b \in [Leaves -> Nat] /\ p[leaf] = 0 /\ b[leaf] = 0
    BY <1>1, <1>5, CastTyped DEF PowerCast, BalanceCast
  <2>2. PowerCast' = q /\ BalanceCast' = c
    BY <1>5 DEF PowerCast, BalanceCast
  <2> HIDE DEF p, b, weight, balance
  <2>3. /\ q \in [Leaves -> Nat] /\ q[leaf] = weight
        /\ \A other \in Leaves \ {leaf} : q[other] = p[other]
        /\ c \in [Leaves -> Nat] /\ c[leaf] = balance
        /\ \A other \in Leaves \ {leaf} : c[other] = b[other]
    BY <1>4, <2>1
  <2> HIDE DEF q, c
  <2>4. /\ SumFunction(q) = SumFunction(p) - p[leaf] + q[leaf]
        /\ SumFunction(c) = SumFunction(b) - b[leaf] + c[leaf]
    BY <2>1, <2>3, ElectionConstants, SumChanged
  <2>5. SumFunction(p) \in Int /\ SumFunction(b) \in Int
    BY <2>1, ElectionConstants, SumType
  <2>6. QED
    BY <1>4, <2>1, <2>2, <2>3, <2>4, <2>5 DEF p, b
<1>7. SumFunction(ApprovalsCast)' = SumFunction(ApprovalsCast) + weight
  <2> DEFINE p == ApprovalsCast
             q == [p EXCEPT ![candidate] = old + weight]
  <2>1. p \in [Accounts -> Nat] /\ p[candidate] = old
    BY <1>2 DEF ApprovalsCast
  <2>2. ApprovalsCast' = q
    BY <1>1, <1>2 DEF ApprovalsCast
  <2> HIDE DEF p, weight, old
  <2>3. /\ q \in [Accounts -> Nat] /\ q[candidate] = old + weight
        /\ \A other \in Accounts \ {candidate} : q[other] = p[other]
    BY <1>4, <2>1
  <2> HIDE DEF q
  <2>4. SumFunction(q) = SumFunction(p) - p[candidate] + q[candidate]
    BY <2>1, <2>3, ElectionConstants, SumChanged
  <2>5. SumFunction(p) \in Int
    BY <2>1, ElectionConstants, SumType
  <2>6. QED
    BY <1>4, <2>1, <2>2, <2>3, <2>4, <2>5 DEF p
<1>8. leading_weight' > 0 => leading_weight' = approvals'[<<cycle_id, leading_candidate'>>]
  <2>1. approvals'[<<cycle_id, candidate>>] = old + weight
    BY <1>1, <1>2
  <2>2. CASE old + weight > leading_weight
    BY <1>1, <2>1, <2>2
  <2>3. CASE ~ (old + weight > leading_weight)
    <3>1. leading_weight' = leading_weight /\ leading_candidate' = leading_candidate
      BY <1>1, <2>3
    <3>2. CASE leading_candidate = candidate
      <4>1. leading_weight > 0 => leading_weight = old
        BY <1>3, <3>2
      <4>2. leading_weight > 0 => old + weight = leading_weight
        BY <1>2, <1>4, <2>3, <4>1
      <4>3. QED
        BY <2>1, <3>1, <3>2, <4>2
    <3>3. CASE leading_candidate # candidate
      <4>1. approvals'[<<cycle_id, leading_candidate>>] = approvals[<<cycle_id, leading_candidate>>]
        BY <1>1, <1>2, <3>3
      <4>2. QED
        BY <1>3, <3>1, <4>1
    <3>4. QED
      BY <3>2, <3>3
  <2>4. QED
    BY <2>2, <2>3
<1> HIDE DEF weight, balance, old
<1>9. RecordsTyped'
  <2>1. approvals' \in [Cycles \X Accounts -> Nat]
    BY <1>1, <1>2, <1>4
  <2>2. {total_voting_power, total_voted_balance, leading_weight}' \subseteq Nat
    BY <1>1, <1>2, <1>4
  <2>3. \A cycle \in Cycles : cycle > cycle_id =>
          /\ \A account \in Accounts :
               approvals'[<<cycle, account>>] = approvals[<<cycle, account>>]
          /\ \A other \in Leaves : <<cycle, other>> \in participated' =>
               <<cycle, other>> \in participated
    BY <1>1, <1>2
  <2>4. QED
    BY <1>1, <2>1, <2>2, <2>3 DEF MajorityInv, RecordsTyped
<1>10. TallyExact'
  BY <1>1, <1>3, <1>5, <1>6, <1>7, <1>8 DEF TallyExact
<1>11. QED
  BY <1>1, <1>9, <1>10 DEF MajorityInv, WinnerLeads

LEMMA MajorityKept ==
    ASSUME MajorityInv, ElectionInv', UNCHANGED <<approvals, participated, cycle_id>>,
           \/ UNCHANGED tallyVars
           \/ phase' = "Idle" /\ total_voting_power' = 0 /\ total_voted_balance' = 0
              /\ leading_weight' = 0,
           phase' = "Idle" \/ (phase # "Idle" /\ UNCHANGED election_snapshot),
           phase' = "Elected" =>
              \/ phase = "Elected" /\ UNCHANGED maintainer_elect
              \/ HasWinner /\ maintainer_elect'.who = leading_candidate
    PROVE  MajorityInv'
<1>1. RecordsTyped'
  BY DEF MajorityInv, RecordsTyped, tallyVars
<1>2. CASE phase' = "Idle"
  BY <1>1, <1>2 DEF MajorityInv, TallyExact, WinnerLeads
<1>3. CASE phase' # "Idle"
  <2>1. phase # "Idle" /\ UNCHANGED election_snapshot /\ UNCHANGED tallyVars
    BY <1>3
  <2>2. /\ PowerCast' = PowerCast /\ BalanceCast' = BalanceCast
        /\ ApprovalsCast' = ApprovalsCast /\ Voted' = Voted
    BY <2>1 DEF PowerCast, BalanceCast, ApprovalsCast, Voted, PowerOf, BalanceOf
  <2>3. HasWinner' = HasWinner
    BY <2>1 DEF HasWinner, Quorum, tallyVars
  <2>4. TallyExact'
    BY <2>1, <2>2 DEF MajorityInv, TallyExact, tallyVars
  <2>5. WinnerLeads'
    BY <2>1, <2>3 DEF MajorityInv, WinnerLeads, tallyVars
  <2>6. QED
    BY <1>1, <2>4, <2>5 DEF MajorityInv
<1>4. QED
  BY <1>2, <1>3

LEMMA MajorityInvariant == ElectionSpec => []MajorityInv
<1>1. ElectionInit /\ ElectionInv => MajorityInv
  <2> SUFFICES ASSUME ElectionInit, ElectionInv PROVE MajorityInv
    OBVIOUS
  <2>1. RecordsTyped
    BY DEF ElectionInit, RecordsTyped
  <2>2. TallyExact /\ WinnerLeads
    BY DEF ElectionInit, TallyExact, WinnerLeads
  <2>3. QED
    BY <2>1, <2>2 DEF MajorityInv
<1>2. MajorityInv /\ ElectionInv' /\ [ElectionNext]_electionVars => MajorityInv'
  <2> SUFFICES ASSUME MajorityInv, ElectionInv', [ElectionNext]_electionVars PROVE MajorityInv'
    OBVIOUS
  <2>1. CASE \E snapshot \in Snapshots : ScheduleElection(snapshot)
    BY <2>1, ScheduleKeepsMajority
  <2>2. CASE \E leaf \in Leaves, candidate \in Accounts : CastApproval(leaf, candidate)
    BY <2>2, CastKeepsMajority
  <2>3. CASE Finalize
    <3>1. UNCHANGED <<recordVars, tallyVars, cycle_id, election_snapshot>> /\ phase = "Voting"
      BY <2>3 DEF Finalize
    <3>2. \/ phase' = "Idle"
          \/ HasWinner /\ maintainer_elect'.who = leading_candidate
      BY <2>3 DEF Finalize, ElectLeader, KeepIncumbent
    <3>3. QED
      BY <3>1, <3>2, MajorityKept DEF recordVars
  <2>4. CASE Activate
    BY <2>4, MajorityKept DEF Activate, recordVars
  <2>5. CASE \E caller \in Accounts : CancelCycle(caller)
    BY <2>5, MajorityKept DEF CancelCycle, ClearTally, recordVars
  <2>6. CASE \/ \E account \in Accounts, netuid \in Netuids :
                  \E stake \in Stakes[<<account, netuid>>] :
                     RegisterCandidate(account, netuid, stake)
             \/ EndTransition
             \/ \E caller \in Accounts : TriggerEmergencyElection(caller)
             \/ Tick
             \/ UNCHANGED electionVars
    <3>1. /\ UNCHANGED <<approvals, participated, cycle_id, phase, election_snapshot,
                         maintainer_elect>>
          /\ UNCHANGED tallyVars
      BY <2>6 DEF RegisterCandidate, EndTransition, TriggerEmergencyElection, Tick, electionVars,
                  cycleVars, recordVars
    <3>2. QED
      BY <3>1, MajorityKept
  <2>7. QED
    BY <2>1, <2>2, <2>3, <2>4, <2>5, <2>6 DEF ElectionNext
<1>3. QED
  BY <1>1, <1>2, ElectionInvariant, PTL DEF ElectionSpec

\* A decided winner has more than half of the power cast in its own cycle, which
\* is what the candidates of that cycle got, and the quorum voted (cast_approval,
\* finalize, schedule_election; WinnerHasMajority).
THEOREM ElectionWinnerHasMajority == ElectionSpec => []WinnerHasMajority
<1>1. MajorityInv => WinnerHasMajority
  <2> SUFFICES ASSUME MajorityInv, phase = "Elected" PROVE WinnerHasMajority
    BY DEF WinnerHasMajority
  <2> DEFINE won == approvals[<<cycle_id, maintainer_elect.who>>]
             total == total_voting_power
  <2>1. /\ HasWinner /\ maintainer_elect.who = leading_candidate
        /\ leading_weight > 0 => leading_weight = approvals[<<cycle_id, leading_candidate>>]
        /\ total = SumFunction(PowerCast) /\ total = SumFunction(ApprovalsCast)
        /\ total_voted_balance = SumFunction(BalanceCast)
        /\ total \in Nat
    BY DEF MajorityInv, TallyExact, WinnerLeads, RecordsTyped
  <2>2. leading_weight = won /\ leading_weight \in Nat
    BY <2>1 DEF HasWinner, MajorityInv, RecordsTyped
  <2> HIDE DEF won, total
  <2>3. won * 10000 > total * ApprovalThresholdBps
    BY <2>1, <2>2 DEF HasWinner, BpsDenominator, total
  <2>4. 2 * (total * ApprovalThresholdBps) >= total * 10000
    <3>1. ApprovalThresholdBps \in Nat /\ 2 * ApprovalThresholdBps >= 10000
      BY ElectionConstants DEF BpsDenominator
    <3>2. total * (2 * ApprovalThresholdBps) >= total * 10000
      BY <2>1, <3>1
    <3>3. QED
      BY <2>1, <3>1, <3>2
  <2>5. total * ApprovalThresholdBps \in Nat
    BY <2>1, ElectionConstants
  <2>6. 2 * won > total
    BY <2>1, <2>2, <2>3, <2>4, <2>5
  <2>7. QED
    BY <2>1, <2>6 DEF WinnerHasMajority, HasWinner, won
<1>2. QED
  BY <1>1, MajorityInvariant, PTL

\* The election holds a snapshot of governance, or none.
SnapshotHeld == election_snapshot \in Snapshots \cup {NoSnapshot}

LEMMA SnapshotInvariant == ElectionSpec => []SnapshotHeld
<1>1. ElectionInit => SnapshotHeld
  BY DEF ElectionInit, SnapshotHeld
<1>2. SnapshotHeld /\ [ElectionNext]_electionVars => SnapshotHeld'
  <2> SUFFICES ASSUME SnapshotHeld, [ElectionNext]_electionVars PROVE SnapshotHeld'
    OBVIOUS
  <2>1. CASE \E snapshot \in Snapshots : ScheduleElection(snapshot)
    BY <2>1 DEF SnapshotHeld, ScheduleElection
  <2>2. CASE \/ \E leaf \in Leaves, candidate \in Accounts : CastApproval(leaf, candidate)
             \/ \E caller \in Accounts : TriggerEmergencyElection(caller) \/ CancelCycle(caller)
    BY <2>2 DEF SnapshotHeld, CastApproval, TriggerEmergencyElection, CancelCycle
  <2>3. CASE Finalize \/ Activate
    BY <2>3 DEF SnapshotHeld, Finalize, ElectLeader, KeepIncumbent, Activate
  <2>4. CASE \/ \E account \in Accounts, netuid \in Netuids :
                  \E stake \in Stakes[<<account, netuid>>] :
                     RegisterCandidate(account, netuid, stake)
             \/ EndTransition \/ Tick \/ UNCHANGED electionVars
    BY <2>4 DEF SnapshotHeld, RegisterCandidate, EndTransition, Tick, electionVars, cycleVars
  <2>5. QED
    BY <2>1, <2>2, <2>3, <2>4 DEF ElectionNext
<1>3. QED
  BY <1>1, <1>2, PTL DEF ElectionSpec

LEMMA EveryRootExact ==
    ASSUME NEW n \in Nat
    PROVE  RootExact(n)
  BY IntegerSqrtIsRoot DEF RootExact, IsRoot

\* Whatever the day and the electorate, day_of_month is the calendar's and
\* integer_sqrt the root (voting/src/lib.rs; HelpersExact).  The era and the range of
\* HelpersExact are what a run can try; the lemmas it rests on have no such bound.
THEOREM ElectionHelpersExact == ElectionSpec => []HelpersExact
<1>1. WindowInv /\ SnapshotHeld => HelpersExact
  <2> SUFFICES ASSUME WindowInv, SnapshotHeld PROVE HelpersExact
    OBVIOUS
  <2>1. MonthExact(3, 1970 + now \div 366)
    <3>1. 1970 + now \div 366 \in Nat /\ 1970 + now \div 366 >= 1970 /\ 3 \in 1 .. 12
      BY SMT DEF WindowInv
    <3>2. QED
      BY <3>1, EveryMonthExact
  <2>2. EraExact
    <3>1. \A year \in YearsOfEra : year \in Nat /\ year >= 1970
      BY SMT DEF YearsOfEra
    <3>2. QED
      BY <3>1, EveryMonthExact DEF EraExact
  <2>3. ASSUME election_snapshot # NoSnapshot, NEW leaf \in DOMAIN election_snapshot.leaves
        PROVE  RootExact(BalanceOf(leaf))
    BY <2>3, LeafTyped, EveryRootExact DEF SnapshotHeld
  <2>4. RootsExact
    <3>1. RootRange \subseteq Nat
      BY SMT DEF RootRange
    <3>2. QED
      BY <3>1, EveryRootExact DEF RootsExact
  <2>5. QED
    BY <2>1, <2>2, <2>3, <2>4 DEF HelpersExact
<1>2. QED
  BY <1>1, WindowInvariant, SnapshotInvariant, PTL
=============================================================================
