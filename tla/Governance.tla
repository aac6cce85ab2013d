----------------------------- MODULE Governance -----------------------------
(***************************************************************************)
(* Governance (src/contracts/tusdt-governance/lib.rs) and the treasury it  *)
(* spends: snapshots of the electorate, proposals of the council, votes by *)
(* leaf, and execution, which calls the treasury.  Time is in days, a      *)
(* Merkle proof holds exactly for the leaves of a snapshot, and the        *)
(* election contract is external: it may install any maintainer.  The      *)
(* messages that only forward a call to another contract are left out.     *)
(***************************************************************************)
EXTENDS Treasury, Voting, FiniteSets, Functions

CONSTANTS
    Accounts,
    GovernanceContract, \* the account that releases from the treasury
    Council,            \* the councils a maintainer may choose from
    CouncilSize,
    Leaves,             \* (coldkey, hotkey) pairs of all snapshots
    Snapshots,          \* what the council may commit
    NoSnapshot,
    Contents,           \* what proposals may ask for
    NonFunding, NoProposal,
    DefaultParams, ParamChoices,
    MaxProposals, MaxEpochs, \* bounds
    StartDay, Days      \* the days on which something happens

Leaf == [balance : Nat, multiplier_bps : Nat]
IsSnapshot(snapshot) ==
    /\ snapshot.circulating_supply \in Nat
    /\ DOMAIN snapshot.leaves \subseteq Leaves
    /\ \A leaf \in DOMAIN snapshot.leaves : snapshot.leaves[leaf] \in Leaf
Funding == [fund : Fund, token_kind : TokenKind, amount : Nat,
            recipient : Accounts \cup {TreasuryContract}]
Proposal ==
    [kind : Funding \cup {NonFunding}, voting_ends_at : Nat, snapshot_epoch : Nat,
     yes : Nat, no : Nat, voted_balance : Nat,
     status : {"Active", "Passed", "Rejected", "Executed"}]
Ids == 1 .. MaxProposals
Epochs == 1 .. MaxEpochs

ASSUME GovernanceConstants ==
    /\ GovernanceContract # Deployer
    /\ {MaxProposals, MaxEpochs, CouncilSize, StartDay} \subseteq Nat
    /\ IsFiniteSet(Leaves)
    /\ Contents \subseteq Funding \cup {NonFunding}
    /\ \A snapshot \in Snapshots : IsSnapshot(snapshot)
    /\ NonFunding \notin Funding \cup [token_kind : TokenKind, amount : Nat, internal : BOOLEAN]
    /\ NoProposal \notin Proposal

VARIABLES
    maintainer, council,
    params,
    current_epoch,
    snapshots,          \* epoch -> snapshot, or NoSnapshot
    proposal_count,
    proposals,          \* id -> proposal, or NoProposal
    has_voted,          \* {<<id, leaf>>}
    now

roleVars == <<maintainer, council>>
snapshotVars == <<current_epoch, snapshots>>
proposalVars == <<proposal_count, proposals, has_voted>>
governanceVars == <<roleVars, params, snapshotVars, proposalVars, now, treasuryVars>>

Active(id) == proposals[id] # NoProposal /\ proposals[id].status = "Active"

----------------------------------------------------------------------------
(* Roles and parameters. *)

ElectMaintainer(new_maintainer) ==
    /\ maintainer' = new_maintainer
    /\ UNCHANGED <<council, params, snapshotVars, proposalVars, now, treasuryVars>>

\* The members are given as a set: duplicates are refused.
SetCouncil(caller, members) ==
    /\ caller = maintainer
    /\ Cardinality(members) = CouncilSize
    /\ council' = members
    /\ UNCHANGED <<maintainer, params, snapshotVars, proposalVars, now, treasuryVars>>

ValidParams(p) ==
    /\ p.approval_bps \in 1 .. BpsDenominator
    /\ p.quorum_bps <= BpsDenominator
    /\ p.voting_period > 0
    /\ 1 <= p.submission_open_day
    /\ p.submission_open_day <= p.submission_close_day
    /\ p.submission_close_day <= 28

UpdateParams(caller, new_params) ==
    /\ caller = maintainer
    /\ ValidParams(new_params)
    /\ params' = new_params
    /\ UNCHANGED <<roleVars, snapshotVars, proposalVars, now, treasuryVars>>

----------------------------------------------------------------------------
(* Snapshots and proposals. *)

\* Mutant: a snapshot replaces the one in force.
NextEpoch_Same == IF current_epoch = 0 THEN 1 ELSE current_epoch

NextEpoch == current_epoch + 1

SubmitSnapshot(caller, snapshot) ==
    /\ caller \in council
    /\ NextEpoch \in Epochs
    /\ snapshots' = [snapshots EXCEPT ![NextEpoch] = snapshot]
    /\ current_epoch' = NextEpoch
    /\ UNCHANGED <<roleVars, params, proposalVars, now, treasuryVars>>

SubmitProposal(caller, content) ==
    /\ caller \in council
    /\ content # NonFunding => content.amount > 0
    /\ DayOfMonth(now) \in params.submission_open_day .. params.submission_close_day
    /\ current_epoch # 0
    /\ proposal_count < MaxProposals
    /\ proposal_count' = proposal_count + 1
    /\ proposals' = [proposals EXCEPT ![proposal_count + 1] =
          [kind |-> content, voting_ends_at |-> now + params.voting_period,
           snapshot_epoch |-> current_epoch, yes |-> 0, no |-> 0, voted_balance |-> 0,
           status |-> "Active"]]
    /\ UNCHANGED <<roleVars, params, snapshotVars, has_voted, now, treasuryVars>>

\* The caller is the coldkey of the leaf.
Vote(id, leaf, support) ==
    LET proposal == proposals[id]
        electorate == snapshots[proposal.snapshot_epoch].leaves
        weight == VotingPower(electorate[leaf].balance, electorate[leaf].multiplier_bps)
    IN  /\ Active(id)
        /\ now < proposal.voting_ends_at
        /\ <<id, leaf>> \notin has_voted
        /\ leaf \in DOMAIN electorate
        /\ weight # 0
        /\ proposals' = [proposals EXCEPT
              ![id].yes = IF support THEN @ + weight ELSE @,
              ![id].no = IF support THEN @ ELSE @ + weight,
              ![id].voted_balance = @ + electorate[leaf].balance]
        /\ has_voted' = has_voted \cup {<<id, leaf>>}
        /\ UNCHANGED <<roleVars, params, snapshotVars, proposal_count, now, treasuryVars>>

Quorum(epoch) == (snapshots[epoch].circulating_supply * params.quorum_bps) \div BpsDenominator

\* By the parameters now in force, not those of the submission.
Passes(proposal) ==
    LET total == proposal.yes + proposal.no IN
    /\ proposal.voted_balance >= Quorum(proposal.snapshot_epoch)
    /\ total # 0
    /\ (proposal.yes * BpsDenominator) \div total >= params.approval_bps

Outcome(proposal) == IF Passes(proposal) THEN "Passed" ELSE "Rejected"

Finalize(id) ==
    /\ Active(id)
    /\ now >= proposals[id].voting_ends_at
    /\ proposals' = [proposals EXCEPT ![id].status = Outcome(proposals[id])]
    /\ UNCHANGED <<roleVars, params, snapshotVars, proposal_count, has_voted, now, treasuryVars>>

\* Mutant: a paid proposal stays passed.
MarkExecuted_Kept(id) == UNCHANGED proposals

MarkExecuted(id) == proposals' = [proposals EXCEPT ![id].status = "Executed"]

Execute(id) ==
    /\ proposals[id] # NoProposal
    /\ proposals[id].status = "Passed"
    /\ LET content == proposals[id].kind IN
         \/ content = NonFunding /\ UNCHANGED treasuryVars
         \/ /\ content # NonFunding
            /\ Release(GovernanceContract, content.fund, content.token_kind, content.amount,
                       content.recipient)
    /\ MarkExecuted(id)
    /\ UNCHANGED <<roleVars, params, snapshotVars, proposal_count, has_voted, now>>

----------------------------------------------------------------------------

\* The treasury's own messages: anybody distributes, and the deployer spends
\* and hands over.  Governance has no message that hands it on.
TreasuryStep ==
    /\ \/ Distribute
       \/ \E kind \in TokenKind, amount \in FeeAmounts : ReceiveFees(kind, amount)
       \/ SetTreasuryGovernance(Deployer, GovernanceContract)
       \/ \E content \in Contents \ {NonFunding} :
            Release(Deployer, content.fund, content.token_kind, content.amount, content.recipient)
    /\ UNCHANGED <<roleVars, params, snapshotVars, proposalVars, now>>

Tick ==
    /\ now' \in {day \in Days : day > now}
    /\ UNCHANGED <<roleVars, params, snapshotVars, proposalVars, treasuryVars>>

GovernanceInit ==
    /\ TreasuryInit
    /\ maintainer \in Accounts
    /\ council = {}
    /\ params = DefaultParams
    /\ current_epoch = 0
    /\ snapshots = [epoch \in Epochs |-> NoSnapshot]
    /\ proposal_count = 0
    /\ proposals = [id \in Ids |-> NoProposal]
    /\ has_voted = {}
    /\ now = StartDay

GovernanceNext ==
    \/ \E account \in Accounts : ElectMaintainer(account)
    \/ \E members \in Council : SetCouncil(maintainer, members)
    \/ \E new_params \in ParamChoices : UpdateParams(maintainer, new_params)
    \/ \E caller \in Accounts, snapshot \in Snapshots : SubmitSnapshot(caller, snapshot)
    \/ \E caller \in Accounts, content \in Contents : SubmitProposal(caller, content)
    \/ \E id \in Ids, leaf \in Leaves, support \in BOOLEAN : Vote(id, leaf, support)
    \/ \E id \in Ids : Finalize(id) \/ Execute(id)
    \/ TreasuryStep
    \/ Tick

GovernanceSpec == GovernanceInit /\ [][GovernanceNext]_governanceVars

----------------------------------------------------------------------------
(* Properties. *)

Voters(id) == {leaf \in Leaves : <<id, leaf>> \in has_voted}
BalanceAt(epoch, leaf) == snapshots[epoch].leaves[leaf].balance
PowerAt(epoch, leaf) ==
    VotingPower(BalanceAt(epoch, leaf), snapshots[epoch].leaves[leaf].multiplier_bps)

\* What the voters on a proposal weigh in the snapshot it was submitted under.
PowerOn(id) ==
    [leaf \in Leaves |->
        IF leaf \in Voters(id) THEN PowerAt(proposals[id].snapshot_epoch, leaf) ELSE 0]
BalanceOn(id) ==
    [leaf \in Leaves |->
        IF leaf \in Voters(id) THEN BalanceAt(proposals[id].snapshot_epoch, leaf) ELSE 0]

\* The tally of a proposal is the power and the balance of the leaves that
\* voted on it, each once and as in the snapshot it was submitted under,
\* whatever the council commits later.
TallyIsOfItsSnapshot ==
    \A id \in 1 .. proposal_count :
        /\ proposals[id].yes + proposals[id].no = SumFunction(PowerOn(id))
        /\ proposals[id].voted_balance = SumFunction(BalanceOn(id))

Mandate == INSTANCE Mandates WITH
    NoMandate <- NonFunding,
    wired <- treasury_governance = GovernanceContract,
    stage <- [id \in Ids |-> IF id > proposal_count THEN "none" ELSE proposals[id].status],
    content <- [id \in Ids |->
        IF id > proposal_count \/ proposals[id].kind = NonFunding THEN NonFunding
        ELSE [token_kind |-> proposals[id].kind.token_kind, amount |-> proposals[id].kind.amount,
              internal |-> proposals[id].kind.recipient = TreasuryContract]],
    purse <- held

\* Once governance holds the treasury it never lets go of it, and money leaves
\* only when a passed proposal is paid, once, with the amount it asked for.
ImplementsMandates == Mandate!MandateSpec

\* A passed proposal whose fund, once everything that arrived is booked, holds
\* what it asks for.
Payable(id) ==
    LET content == proposals[id].kind
        entry == <<content.token_kind, content.fund>>
    IN  /\ proposals[id].status = "Passed"
        /\ content # NonFunding
        /\ treasury_governance = GovernanceContract
        /\ funds[entry] + SplitDelta(Pending(content.token_kind))[content.fund] >= content.amount
        /\ content.token_kind = "Native" => held["Native"] >= content.amount + MinimumBalance

\* It can be paid: no passed proposal is stuck behind an undistributed fee,
\* another fund's release or a change of maintainer, council or parameters.
MandateIsPayable == \A id \in 1 .. proposal_count : Payable(id) => ENABLED Execute(id)
=============================================================================
