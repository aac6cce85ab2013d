-------------------------- MODULE GovernanceProofs --------------------------
(***************************************************************************)
(* The books of the treasury and the mandates of governance, for any fees, *)
(* any electorate and any number of proposals.                             *)
(***************************************************************************)
EXTENDS Governance, HelperProofs

TreasuryTyped ==
    /\ treasury_governance \in {Deployer, GovernanceContract}
    /\ funds \in [TokenKind \X Fund -> Nat]
    /\ allocated \in [TokenKind -> Nat]
    /\ held \in [TokenKind -> Nat]

\* The proposals that exist are numbered from one.
ProposalsTyped ==
    /\ proposal_count \in 0 .. MaxProposals
    /\ proposals = [id \in Ids |-> proposals[id]]
    /\ \A id \in Ids : id > proposal_count => proposals[id] = NoProposal
    /\ \A id \in Ids : id <= proposal_count =>
         /\ {"kind", "status"} \subseteq DOMAIN proposals[id]
         /\ proposals[id].kind \in Funding \cup {NonFunding}
         /\ proposals[id].status \in {"Active", "Passed", "Rejected", "Executed"}

GovernanceInv == TreasuryTyped /\ BooksBalance /\ ProposalsTyped

----------------------------------------------------------------------------
(* Splitting and booking. *)

LEMMA SplitDeltaSums ==
    ASSUME NEW delta \in Nat
    PROVE  /\ SplitDelta(delta) \in [Fund -> Nat]
           /\ SplitDelta(delta)["Emergency"] + SplitDelta(delta)["Operation"]
              + SplitDelta(delta)["Insurance"] + SplitDelta(delta)["Dividend"]
              + SplitDelta(delta)["Buyback"] + SplitDelta(delta)["Voting"] = delta
<1> DEFINE op == (delta * 3000) \div 10000
           ins == (delta * 1000) \div 10000
           div == (delta * 400) \div 10000
           vot == (delta * 200) \div 10000
           split == SplitDelta(delta)
<1>1. /\ op \in Nat /\ 10000 * op <= delta * 3000
      /\ ins \in Nat /\ 10000 * ins <= delta * 1000
      /\ div \in Nat /\ 10000 * div <= delta * 400
      /\ vot \in Nat /\ 10000 * vot <= delta * 200
  OBVIOUS
<1>2. op + ins + div + div + vot <= delta
  BY <1>1
<1>3. /\ split["Operation"] = op
      /\ split["Insurance"] = ins
      /\ split["Dividend"] = div
      /\ split["Buyback"] = div
      /\ split["Voting"] = vot
      /\ split["Emergency"] = delta - (op + ins + div + div + vot)
  BY DEF SplitDelta, Fund, BpsShare, Bps, TotalBps
<1>4. \A fund \in Fund : split[fund] \in Nat
  <2> HIDE DEF op, ins, div, vot, split
  <2> QED
    BY <1>1, <1>2, <1>3 DEF Fund
<1>5. split = [fund \in Fund |-> split[fund]]
  BY DEF SplitDelta
<1>6. split \in [Fund -> Nat]
  <2> HIDE DEF split
  <2> QED
    BY <1>4, <1>5
<1>7. split["Emergency"] + split["Operation"] + split["Insurance"] + split["Dividend"]
      + split["Buyback"] + split["Voting"] = delta
  <2> HIDE DEF op, ins, div, vot, split
  <2> QED
    BY <1>1, <1>2, <1>3
<1>8. QED
  BY <1>6, <1>7

\* Booking what is pending keeps the books balanced, and books all that is held.
LEMMA BookingBalances ==
    ASSUME TreasuryTyped, BooksBalance
    PROVE  /\ FundsBooked \in [TokenKind \X Fund -> Nat]
           /\ AllocatedBooked = held
           /\ \A kind \in TokenKind :
                FundsBooked[<<kind, "Emergency">>] + FundsBooked[<<kind, "Operation">>]
                + FundsBooked[<<kind, "Insurance">>] + FundsBooked[<<kind, "Dividend">>]
                + FundsBooked[<<kind, "Buyback">>] + FundsBooked[<<kind, "Voting">>] = held[kind]
<1>1. \A kind \in TokenKind : Pending(kind) \in Nat /\ allocated[kind] + Pending(kind) = held[kind]
  BY DEF TreasuryTyped, BooksBalance, Pending
<1>2. AllocatedBooked = held
  BY <1>1 DEF AllocatedBooked, TreasuryTyped
<1>3. \A kind \in TokenKind, fund \in Fund :
        /\ SplitDelta(Pending(kind))[fund] \in Nat
        /\ FundsBooked[<<kind, fund>>] = funds[<<kind, fund>>] + SplitDelta(Pending(kind))[fund]
  BY <1>1, SplitDeltaSums DEF FundsBooked
<1>4. FundsBooked \in [TokenKind \X Fund -> Nat]
  <2>1. ASSUME NEW entry \in TokenKind \X Fund
        PROVE  funds[entry] + SplitDelta(Pending(entry[1]))[entry[2]] \in Nat
    <3>1. entry[1] \in TokenKind /\ entry[2] \in Fund /\ entry = <<entry[1], entry[2]>>
      OBVIOUS
    <3>2. SplitDelta(Pending(entry[1]))[entry[2]] \in Nat
      BY <3>1, <1>3
    <3>3. QED
      BY <3>2 DEF TreasuryTyped
  <2>2. QED
    BY <2>1 DEF FundsBooked
<1>5. ASSUME NEW kind \in TokenKind
      PROVE  FundsBooked[<<kind, "Emergency">>] + FundsBooked[<<kind, "Operation">>]
             + FundsBooked[<<kind, "Insurance">>] + FundsBooked[<<kind, "Dividend">>]
             + FundsBooked[<<kind, "Buyback">>] + FundsBooked[<<kind, "Voting">>] = held[kind]
  <2> DEFINE split == SplitDelta(Pending(kind))
  <2>1. /\ split["Emergency"] + split["Operation"] + split["Insurance"] + split["Dividend"]
           + split["Buyback"] + split["Voting"] = Pending(kind)
        /\ \A fund \in Fund : split[fund] \in Nat
    BY <1>1, SplitDeltaSums
  <2>2. \A fund \in Fund :
          FundsBooked[<<kind, fund>>] = funds[<<kind, fund>>] + split[fund]
          /\ funds[<<kind, fund>>] \in Nat
    BY <1>3 DEF TreasuryTyped
  <2>3. Booked(kind) + Pending(kind) = held[kind] /\ Pending(kind) \in Nat
    BY <1>1 DEF BooksBalance
  <2> HIDE DEF split
  <2>4. QED
    BY <2>1, <2>2, <2>3 DEF Booked, Fund
<1>6. QED
  BY <1>2, <1>4, <1>5

----------------------------------------------------------------------------
(* The treasury. *)

\* A payment takes the same from a fund, from what is allocated, and, unless
\* the treasury pays itself, from what is held.
LEMMA ReleaseKeepsBooks ==
    ASSUME TreasuryTyped, BooksBalance,
           NEW caller, NEW f \in Fund, NEW k \in TokenKind, NEW amount \in Nat, NEW recipient,
           Release(caller, f, k, amount, recipient)
    PROVE  TreasuryTyped' /\ BooksBalance' /\ held[k] >= amount
<1>1. /\ FundsBooked \in [TokenKind \X Fund -> Nat]
      /\ AllocatedBooked = held
  BY BookingBalances
<1>2. /\ FundsBooked[<<k, f>>] - amount \in Nat
      /\ held[k] - amount \in Nat
  <2>1. FundsBooked[<<k, f>>] >= amount /\ held[k] >= amount
    BY <1>1 DEF Release
  <2>2. FundsBooked[<<k, f>>] \in Nat /\ held[k] \in Nat
    BY <1>1 DEF TreasuryTyped
  <2>3. QED
    BY <2>1, <2>2
<1>3. /\ funds' \in [TokenKind \X Fund -> Nat]
      /\ \A kind \in TokenKind, fund \in Fund :
           funds'[<<kind, fund>>] =
             IF kind = k /\ fund = f THEN FundsBooked[<<k, f>>] - amount
                                     ELSE FundsBooked[<<kind, fund>>]
  BY <1>1, <1>2 DEF Release
<1>4. /\ allocated' \in [TokenKind -> Nat]
      /\ \A kind \in TokenKind :
           allocated'[kind] = IF kind = k THEN held[k] - amount ELSE held[kind]
  BY <1>1, <1>2 DEF Release, TreasuryTyped
<1>5. /\ held' \in [TokenKind -> Nat]
      /\ \A kind \in TokenKind : allocated'[kind] <= held'[kind]
  BY <1>2, <1>4 DEF Release, PaidTo, TreasuryTyped
<1>6. TreasuryTyped'
  BY <1>3, <1>4, <1>5 DEF TreasuryTyped, Release
<1>7. ASSUME NEW kind \in TokenKind
      PROVE  Booked(kind)' = allocated'[kind]
  <2>1. FundsBooked[<<kind, "Emergency">>] + FundsBooked[<<kind, "Operation">>]
        + FundsBooked[<<kind, "Insurance">>] + FundsBooked[<<kind, "Dividend">>]
        + FundsBooked[<<kind, "Buyback">>] + FundsBooked[<<kind, "Voting">>] = held[kind]
    BY BookingBalances
  <2>2. \A fund \in Fund : FundsBooked[<<kind, fund>>] \in Nat
    BY <1>1
  <2>3. CASE kind # k
    BY <2>1, <2>3, <1>3, <1>4 DEF Booked, Fund
  <2>4. CASE kind = k
    <3> DEFINE b(fund) == FundsBooked[<<k, fund>>]
    <3>1. \A fund \in Fund :
            funds'[<<k, fund>>] = IF fund = f THEN b(fund) - amount ELSE b(fund)
      BY <1>3
    <3>2. b("Emergency") + b("Operation") + b("Insurance") + b("Dividend") + b("Buyback")
          + b("Voting") = held[k]
      BY <2>1, <2>4
    <3>3. \A fund \in Fund : b(fund) \in Nat
      BY <2>2, <2>4
    <3>4. held[k] \in Nat /\ allocated'[k] = held[k] - amount
      BY <1>4 DEF TreasuryTyped
    <3> HIDE DEF b
    <3>5. QED
      BY <2>4, <3>1, <3>2, <3>3, <3>4 DEF Booked, Fund
  <2>5. QED
    BY <2>3, <2>4
<1>8. held[k] >= amount
  BY <1>1 DEF Release
<1>9. QED
  BY <1>5, <1>6, <1>7, <1>8 DEF BooksBalance

LEMMA DistributeKeepsBooks ==
    ASSUME TreasuryTyped, BooksBalance, Distribute
    PROVE  TreasuryTyped' /\ BooksBalance'
<1>1. funds' = FundsBooked /\ allocated' = held /\ held' = held
  BY BookingBalances DEF Distribute
<1>2. TreasuryTyped'
  BY <1>1, BookingBalances DEF TreasuryTyped, Distribute
<1>3. \A kind \in TokenKind : Booked(kind)' = allocated'[kind]
  BY <1>1, BookingBalances DEF Booked
<1>4. QED
  BY <1>1, <1>2, <1>3 DEF BooksBalance, TreasuryTyped

LEMMA TreasuryStepKeepsBooks ==
    ASSUME TreasuryTyped, BooksBalance, TreasuryStep
    PROVE  TreasuryTyped' /\ BooksBalance'
<1>1. CASE Distribute
  BY <1>1, DistributeKeepsBooks
<1>2. ASSUME NEW kind \in TokenKind, NEW amount \in FeeAmounts, ReceiveFees(kind, amount)
      PROVE  TreasuryTyped' /\ BooksBalance'
  <2>1. amount \in Nat
    BY TreasuryConstants
  <2>2. TreasuryTyped'
    BY <1>2, <2>1 DEF TreasuryTyped, ReceiveFees
  <2>3. \A k \in TokenKind : Booked(k)' = Booked(k)
    BY <1>2 DEF ReceiveFees, Booked
  <2>4. \A k \in TokenKind : allocated'[k] <= held'[k]
    BY <1>2, <2>1 DEF ReceiveFees, BooksBalance, TreasuryTyped
  <2>5. QED
    BY <1>2, <2>2, <2>3, <2>4 DEF BooksBalance, ReceiveFees
<1>3. CASE SetTreasuryGovernance(Deployer, GovernanceContract)
  BY <1>3 DEF TreasuryTyped, BooksBalance, Booked, SetTreasuryGovernance
<1>4. ASSUME NEW content \in Contents \ {NonFunding},
             Release(Deployer, content.fund, content.token_kind, content.amount, content.recipient)
      PROVE  TreasuryTyped' /\ BooksBalance'
  <2>1. content \in Funding
    BY GovernanceConstants
  <2>2. content.fund \in Fund /\ content.token_kind \in TokenKind /\ content.amount \in Nat
    BY <2>1 DEF Funding
  <2>3. QED
    BY <1>4, <2>2, ReleaseKeepsBooks
<1>5. QED
  BY <1>1, <1>2, <1>3, <1>4 DEF TreasuryStep

----------------------------------------------------------------------------
(* Governance. *)

LEMMA InitGovernanceInv ==
    ASSUME GovernanceInit
    PROVE  GovernanceInv
<1>1. TreasuryTyped /\ BooksBalance
  BY DEF GovernanceInit, TreasuryInit, TreasuryTyped, BooksBalance, Booked, TokenKind, Fund
<1>2. /\ proposal_count = 0
      /\ proposals = [id \in Ids |-> proposals[id]]
      /\ \A id \in Ids : proposals[id] = NoProposal
  BY DEF GovernanceInit
<1>3. \A id \in Ids : ~(id <= 0)
  BY DEF Ids
<1>4. QED
  BY <1>1, <1>2, <1>3, GovernanceConstants DEF GovernanceInv, ProposalsTyped

\* A step that rewrites one proposal that exists, and neither its content nor
\* the numbering, keeps the proposals typed.
LEMMA UpdateKeepsProposals ==
    ASSUME ProposalsTyped, NEW id \in Ids, id <= proposal_count, NEW new,
           proposals' = [proposals EXCEPT ![id] = new],
           {"kind", "status"} \subseteq DOMAIN new,
           new.kind = proposals[id].kind,
           new.status \in {"Active", "Passed", "Rejected", "Executed"},
           UNCHANGED proposal_count
    PROVE  ProposalsTyped'
<1>1. /\ proposals' = [other \in Ids |-> proposals'[other]]
      /\ \A other \in Ids : proposals'[other] = IF other = id THEN new ELSE proposals[other]
  BY DEF ProposalsTyped
<1>2. \A other \in Ids : other > proposal_count => other # id
  BY DEF Ids, ProposalsTyped
<1>3. \A other \in Ids : other > proposal_count' => proposals'[other] = NoProposal
  BY <1>1, <1>2 DEF ProposalsTyped
<1>4. ASSUME NEW other \in Ids, other <= proposal_count'
      PROVE  /\ {"kind", "status"} \subseteq DOMAIN proposals'[other]
             /\ proposals'[other].kind \in Funding \cup {NonFunding}
             /\ proposals'[other].status \in {"Active", "Passed", "Rejected", "Executed"}
  <2>1. CASE other = id
    <3>1. proposals'[other] = new
      BY <1>1, <2>1
    <3>2. new.kind \in Funding \cup {NonFunding}
      BY DEF ProposalsTyped
    <3>3. QED
      BY <3>1, <3>2
  <2>2. CASE other # id
    <3>1. proposals'[other] = proposals[other]
      BY <1>1, <2>2
    <3>2. QED
      BY <1>4, <3>1 DEF ProposalsTyped
  <2>3. QED
    BY <2>1, <2>2
<1>5. QED
  BY <1>1, <1>3, <1>4 DEF ProposalsTyped

\* What executing, deciding and voting do to the proposal.
LEMMA ProposalUpdates ==
    ASSUME ProposalsTyped, NEW id \in Ids
    PROVE  /\ proposals[id] # NoProposal => id <= proposal_count
           /\ Execute(id) => ProposalsTyped'
           /\ Finalize(id) => ProposalsTyped'
           /\ \A leaf, support : Vote(id, leaf, support) => ProposalsTyped'
<1>1. proposals[id] # NoProposal => id <= proposal_count
  BY DEF ProposalsTyped, Ids
<1>2. ASSUME Execute(id)
      PROVE  ProposalsTyped'
  <2> DEFINE new == [proposals[id] EXCEPT !.status = "Executed"]
  <2>1. id <= proposal_count /\ {"kind", "status"} \subseteq DOMAIN proposals[id]
    BY <1>1, <1>2 DEF Execute, ProposalsTyped
  <2>2. {"kind", "status"} \subseteq DOMAIN new /\ new.kind = proposals[id].kind
        /\ new.status = "Executed"
    BY <2>1
  <2>3. proposals' = [proposals EXCEPT ![id] = new] /\ UNCHANGED proposal_count
    BY <1>2 DEF Execute, MarkExecuted
  <2>4. QED
    BY <2>1, <2>2, <2>3, UpdateKeepsProposals
<1>3. ASSUME Finalize(id)
      PROVE  ProposalsTyped'
  <2> DEFINE new == [proposals[id] EXCEPT !.status = Outcome(proposals[id])]
  <2>1. id <= proposal_count /\ {"kind", "status"} \subseteq DOMAIN proposals[id]
    BY <1>1, <1>3 DEF Finalize, Active, ProposalsTyped
  <2>2. Outcome(proposals[id]) \in {"Passed", "Rejected"}
    BY DEF Outcome
  <2>3. {"kind", "status"} \subseteq DOMAIN new /\ new.kind = proposals[id].kind
        /\ new.status \in {"Active", "Passed", "Rejected", "Executed"}
    BY <2>1, <2>2
  <2>4. proposals' = [proposals EXCEPT ![id] = new] /\ UNCHANGED proposal_count
    BY <1>3 DEF Finalize
  <2>5. QED
    BY <2>1, <2>3, <2>4, UpdateKeepsProposals
<1>4. ASSUME NEW leaf, NEW support, Vote(id, leaf, support)
      PROVE  ProposalsTyped'
  <2>1. id <= proposal_count /\ {"kind", "status"} \subseteq DOMAIN proposals[id]
    BY <1>1, <1>4 DEF Vote, Active, ProposalsTyped
  <2>2. PICK yes, no, balance :
          proposals' = [proposals EXCEPT ![id].yes = yes, ![id].no = no,
                                         ![id].voted_balance = balance]
    BY <1>4 DEF Vote
  <2> DEFINE new == [proposals[id] EXCEPT !.yes = yes, !.no = no, !.voted_balance = balance]
  <2>3. {"kind", "status"} \subseteq DOMAIN new /\ new.kind = proposals[id].kind
        /\ new.status = proposals[id].status
    BY <2>1
  <2>4. proposals' = [proposals EXCEPT ![id] = new] /\ UNCHANGED proposal_count
    BY <1>4, <2>2 DEF Vote, ProposalsTyped
  <2>5. proposals[id].status \in {"Active", "Passed", "Rejected", "Executed"}
    BY <2>1 DEF ProposalsTyped
  <2>6. QED
    BY <2>1, <2>3, <2>4, <2>5, UpdateKeepsProposals
<1>5. QED
  BY <1>1, <1>2, <1>3, <1>4

LEMMA SubmitKeepsProposals ==
    ASSUME ProposalsTyped, NEW caller \in Accounts, NEW content \in Contents,
           SubmitProposal(caller, content)
    PROVE  /\ ProposalsTyped'
           /\ proposal_count + 1 \in Ids
           /\ proposal_count' = proposal_count + 1
           /\ proposals'[proposal_count + 1].status = "Active"
           /\ \A id \in Ids \ {proposal_count + 1} : proposals'[id] = proposals[id]
<1> DEFINE next == proposal_count + 1
           new == [kind |-> content, voting_ends_at |-> now + params.voting_period,
                   snapshot_epoch |-> current_epoch, yes |-> 0, no |-> 0, voted_balance |-> 0,
                   status |-> "Active"]
<1>1. /\ proposals' = [proposals EXCEPT ![next] = new]
      /\ proposal_count' = next
      /\ proposal_count < MaxProposals
  BY DEF SubmitProposal
<1>2. /\ proposal_count \in Nat
      /\ next \in Ids
  BY <1>1, GovernanceConstants DEF ProposalsTyped, Ids
<1>3. /\ {"kind", "status"} \subseteq DOMAIN new
      /\ new.kind \in Funding \cup {NonFunding}
      /\ new.status = "Active"
  BY GovernanceConstants
<1> HIDE DEF new
<1>4. /\ proposals' = [id \in Ids |-> proposals'[id]]
      /\ \A id \in Ids : proposals'[id] = IF id = next THEN new ELSE proposals[id]
  BY <1>1, <1>2 DEF ProposalsTyped
<1>5. \A id \in Ids : id <= next => id = next \/ id <= proposal_count
  BY <1>2 DEF Ids
<1>6. \A id \in Ids : id > next => id # next /\ id > proposal_count
  BY <1>2 DEF Ids
<1>7. proposal_count' \in 0 .. MaxProposals
  BY <1>1, <1>2 DEF Ids
<1>8. ProposalsTyped'
  BY <1>1, <1>2, <1>3, <1>4, <1>5, <1>6, <1>7 DEF ProposalsTyped
<1>9. QED
  BY <1>1, <1>2, <1>3, <1>4, <1>8

\* Executing a proposal touches the treasury only through a release.
LEMMA ExecuteKeepsInv ==
    ASSUME GovernanceInv, NEW id \in Ids, Execute(id)
    PROVE  GovernanceInv'
<1> DEFINE content == proposals[id].kind
<1>1. content \in Funding \cup {NonFunding}
  BY ProposalUpdates DEF GovernanceInv, ProposalsTyped, Execute
<1>2. ProposalsTyped'
  BY ProposalUpdates DEF GovernanceInv
<1>3. CASE content = NonFunding /\ UNCHANGED treasuryVars
  BY <1>2, <1>3 DEF GovernanceInv, TreasuryTyped, BooksBalance, Booked, treasuryVars
<1>4. CASE content # NonFunding /\ Release(GovernanceContract, content.fund, content.token_kind,
                                           content.amount, content.recipient)
  <2>1. content \in Funding
    BY <1>1, <1>4
  <2>2. content.fund \in Fund /\ content.token_kind \in TokenKind /\ content.amount \in Nat
    BY <2>1 DEF Funding
  <2>3. TreasuryTyped' /\ BooksBalance'
    BY <1>4, <2>2, ReleaseKeepsBooks DEF GovernanceInv
  <2>4. QED
    BY <1>2, <2>3 DEF GovernanceInv
<1>5. QED
  BY <1>3, <1>4 DEF Execute

\* A message of governance that calls no treasury leaves its books alone.
LEMMA TreasuryUntouched ==
    ASSUME GovernanceInv, UNCHANGED treasuryVars, ProposalsTyped'
    PROVE  GovernanceInv'
BY DEF GovernanceInv, TreasuryTyped, BooksBalance, Booked, treasuryVars

LEMMA ProposalsUntouched ==
    ASSUME ProposalsTyped, UNCHANGED <<proposal_count, proposals>>
    PROVE  ProposalsTyped'
BY DEF ProposalsTyped

LEMMA GovernanceStepKeepsInv ==
    ASSUME GovernanceInv, [GovernanceNext]_governanceVars
    PROVE  GovernanceInv'
<1>1. ProposalsTyped
  BY DEF GovernanceInv
<1>2. CASE \/ UNCHANGED governanceVars
           \/ \E account \in Accounts : ElectMaintainer(account)
           \/ \E members \in Council : SetCouncil(maintainer, members)
           \/ \E new_params \in ParamChoices : UpdateParams(maintainer, new_params)
           \/ \E caller \in Accounts, snapshot \in Snapshots : SubmitSnapshot(caller, snapshot)
           \/ Tick
  <2>1. UNCHANGED <<proposal_count, proposals>> /\ UNCHANGED treasuryVars
    BY <1>2 DEF ElectMaintainer, SetCouncil, UpdateParams, SubmitSnapshot, Tick, governanceVars,
                proposalVars
  <2>2. QED
    BY <1>1, <2>1, ProposalsUntouched, TreasuryUntouched
<1>3. ASSUME NEW caller \in Accounts, NEW content \in Contents, SubmitProposal(caller, content)
      PROVE  GovernanceInv'
  <2>1. UNCHANGED treasuryVars
    BY <1>3 DEF SubmitProposal
  <2>2. QED
    BY <1>1, <1>3, <2>1, SubmitKeepsProposals, TreasuryUntouched
<1>4. ASSUME NEW id \in Ids, NEW leaf \in Leaves, NEW support \in BOOLEAN,
             Vote(id, leaf, support)
      PROVE  GovernanceInv'
  <2>1. UNCHANGED treasuryVars
    BY <1>4 DEF Vote
  <2>2. QED
    BY <1>1, <1>4, <2>1, ProposalUpdates, TreasuryUntouched
<1>5. ASSUME NEW id \in Ids, Finalize(id)
      PROVE  GovernanceInv'
  <2>1. UNCHANGED treasuryVars
    BY <1>5 DEF Finalize
  <2>2. QED
    BY <1>1, <1>5, <2>1, ProposalUpdates, TreasuryUntouched
<1>6. ASSUME NEW id \in Ids, Execute(id)
      PROVE  GovernanceInv'
  BY <1>6, ExecuteKeepsInv
<1>7. CASE TreasuryStep
  <2>1. UNCHANGED <<proposal_count, proposals>>
    BY <1>7 DEF TreasuryStep, proposalVars
  <2>2. QED
    BY <1>1, <1>7, <2>1, ProposalsUntouched, TreasuryStepKeepsBooks DEF GovernanceInv
<1>8. QED
  BY <1>2, <1>3, <1>4, <1>5, <1>6, <1>7 DEF GovernanceNext

\* The six funds of the treasury are exactly what it has allocated, and that
\* is there, whatever arrives, is proposed and is released (BooksBalance).
THEOREM GovernanceBooksBalance == GovernanceSpec => []BooksBalance
<1>1. GovernanceInv /\ [GovernanceNext]_governanceVars => GovernanceInv'
  BY GovernanceStepKeepsInv
<1>2. GovernanceInv => BooksBalance
  BY DEF GovernanceInv
<1>3. QED
  BY InitGovernanceInv, <1>1, <1>2, PTL DEF GovernanceSpec

----------------------------------------------------------------------------
(* The mandates. *)

Stage == [id \in Ids |-> IF id > proposal_count THEN "none" ELSE proposals[id].status]

MandateOf(id) ==
    IF id > proposal_count \/ proposals[id].kind = NonFunding THEN NonFunding
    ELSE [token_kind |-> proposals[id].kind.token_kind, amount |-> proposals[id].kind.amount,
          internal |-> proposals[id].kind.recipient = TreasuryContract]

Content == [id \in Ids |-> MandateOf(id)]

\* Deciding and executing change the status of one proposal, voting that of none.
LEMMA StageUpdates ==
    ASSUME ProposalsTyped, NEW id \in Ids, id <= proposal_count, NEW new,
           proposals' = [proposals EXCEPT ![id] = new], new.kind = proposals[id].kind,
           UNCHANGED proposal_count
    PROVE  /\ Stage' = [Stage EXCEPT ![id] = new.status]
           /\ Content' = Content
<1>1. \A other \in Ids : proposals'[other] = IF other = id THEN new ELSE proposals[other]
  BY DEF ProposalsTyped
<1>2. ~(id > proposal_count)
  BY DEF Ids, ProposalsTyped
<1>3. Stage' = [Stage EXCEPT ![id] = new.status]
  <2>1. \A other \in Ids : Stage'[other] = IF other = id THEN new.status ELSE Stage[other]
    BY <1>1, <1>2 DEF Stage
  <2>2. QED
    BY <2>1 DEF Stage
<1>4. \A other \in Ids : proposals'[other].kind = proposals[other].kind
  BY <1>1
<1>5. ASSUME NEW other \in Ids
      PROVE  MandateOf(other)' = MandateOf(other)
  BY <1>4 DEF MandateOf
<1>6. QED
  BY <1>3, <1>5 DEF Content

\* Steps that leave the proposals and the treasury's account alone.
LEMMA StageUntouched ==
    ASSUME UNCHANGED <<proposal_count, proposals>>
    PROVE  Stage' = Stage /\ Content' = Content
BY DEF Stage, Content, MandateOf

LEMMA ExecutePays ==
    ASSUME GovernanceInv, NEW id \in Ids, Execute(id)
    PROVE  Mandate!Pay(id)
<1> DEFINE kind == proposals[id].kind
           new == [proposals[id] EXCEPT !.status = "Executed"]
<1>1. /\ ProposalsTyped
      /\ id <= proposal_count /\ ~(id > proposal_count)
      /\ proposals[id].status = "Passed"
  BY ProposalUpdates DEF GovernanceInv, Execute, ProposalsTyped, Ids
<1>2. /\ {"kind", "status"} \subseteq DOMAIN proposals[id]
      /\ kind \in Funding \cup {NonFunding}
  BY <1>1 DEF ProposalsTyped
<1>3. new.kind = proposals[id].kind /\ new.status = "Executed"
  BY <1>2
<1>4. proposals' = [proposals EXCEPT ![id] = new] /\ UNCHANGED proposal_count
  BY DEF Execute, MarkExecuted
<1>5. /\ Stage' = [Stage EXCEPT ![id] = "Executed"]
      /\ Content' = Content
  BY <1>1, <1>3, <1>4, StageUpdates
<1>6. Stage[id] = "Passed" /\ Content[id] = MandateOf(id)
  BY <1>1 DEF Stage, Content
<1>7. CASE kind = NonFunding /\ UNCHANGED treasuryVars
  <2>1. Content[id] = NonFunding
    BY <1>6, <1>7 DEF MandateOf
  <2>2. UNCHANGED <<held, treasury_governance>>
    BY <1>7 DEF treasuryVars
  <2>3. QED
    BY <1>5, <1>6, <2>1, <2>2 DEF Mandate!Pay, Stage, Content, MandateOf
<1>8. CASE kind # NonFunding /\ Release(GovernanceContract, kind.fund, kind.token_kind,
                                        kind.amount, kind.recipient)
  <2>1. kind \in Funding
    BY <1>2, <1>8
  <2>2. kind.fund \in Fund /\ kind.token_kind \in TokenKind /\ kind.amount \in Nat
    BY <2>1 DEF Funding
  <2>3. held[kind.token_kind] >= kind.amount
    BY <1>8, <2>2, ReleaseKeepsBooks DEF GovernanceInv
  <2>4. /\ Content[id].token_kind = kind.token_kind
        /\ Content[id].amount = kind.amount
        /\ Content[id].internal = (kind.recipient = TreasuryContract)
    BY <1>1, <1>6, <1>8 DEF MandateOf
  <2>5. held' = PaidTo(kind.recipient, kind.token_kind, kind.amount) /\ UNCHANGED treasury_governance
    BY <1>8 DEF Release
  <2>6. IF Content[id] = NonFunding \/ Content[id].internal THEN UNCHANGED held
        ELSE /\ held[Content[id].token_kind] >= Content[id].amount
             /\ held' = [held EXCEPT ![Content[id].token_kind] = @ - Content[id].amount]
    <3>1. Content[id] # NonFunding
      <4>1. Content[id] \in [token_kind : TokenKind, amount : Nat, internal : BOOLEAN]
        BY <1>1, <1>6, <1>8, <2>2 DEF MandateOf
      <4>2. QED
        BY <4>1, GovernanceConstants
    <3>2. QED
      BY <2>3, <2>4, <2>5, <3>1 DEF PaidTo
  <2>7. QED
    BY <1>5, <1>6, <2>5, <2>6 DEF Mandate!Pay, Stage, Content, MandateOf
<1>9. QED
  BY <1>7, <1>8 DEF Execute

LEMMA FinalizeDecides ==
    ASSUME GovernanceInv, NEW id \in Ids, Finalize(id)
    PROVE  Mandate!Decide(id)
<1> DEFINE new == [proposals[id] EXCEPT !.status = Outcome(proposals[id])]
<1>1. /\ ProposalsTyped
      /\ id <= proposal_count /\ ~(id > proposal_count)
      /\ proposals[id].status = "Active"
  BY ProposalUpdates DEF GovernanceInv, Finalize, Active, ProposalsTyped, Ids
<1>2. {"kind", "status"} \subseteq DOMAIN proposals[id]
  BY <1>1 DEF ProposalsTyped
<1>3. new.kind = proposals[id].kind /\ new.status \in {"Passed", "Rejected"}
  BY <1>2 DEF Outcome
<1>4. proposals' = [proposals EXCEPT ![id] = new] /\ UNCHANGED <<proposal_count, treasuryVars>>
  BY DEF Finalize
<1>5. /\ Stage' = [Stage EXCEPT ![id] = new.status]
      /\ Content' = Content
  BY <1>1, <1>3, <1>4, StageUpdates
<1>6. Stage[id] = "Active"
  BY <1>1 DEF Stage
<1>7. PICK outcome \in {"Passed", "Rejected"} : Stage' = [Stage EXCEPT ![id] = outcome]
  BY <1>3, <1>5
<1>8. UNCHANGED <<held, treasury_governance>>
  BY <1>4 DEF treasuryVars
<1>9. QED
  BY <1>5, <1>6, <1>7, <1>8 DEF Mandate!Decide, Stage, Content, MandateOf

LEMMA VoteStutters ==
    ASSUME GovernanceInv, NEW id \in Ids, NEW leaf, NEW support, Vote(id, leaf, support)
    PROVE  UNCHANGED Mandate!mandateVars
<1>1. ProposalsTyped /\ id <= proposal_count /\ ~(id > proposal_count)
  BY ProposalUpdates DEF GovernanceInv, Vote, Active, ProposalsTyped, Ids
<1>2. {"kind", "status"} \subseteq DOMAIN proposals[id]
  BY <1>1 DEF ProposalsTyped
<1>3. PICK yes, no, balance :
        proposals' = [proposals EXCEPT ![id].yes = yes, ![id].no = no,
                                       ![id].voted_balance = balance]
  BY DEF Vote
<1> DEFINE new == [proposals[id] EXCEPT !.yes = yes, !.no = no, !.voted_balance = balance]
<1>4. new.kind = proposals[id].kind /\ new.status = proposals[id].status
  BY <1>2
<1>5. proposals' = [proposals EXCEPT ![id] = new] /\ UNCHANGED <<proposal_count, treasuryVars>>
  BY <1>1, <1>3 DEF Vote, ProposalsTyped
<1>6. /\ Stage' = [Stage EXCEPT ![id] = new.status]
      /\ Content' = Content
  BY <1>1, <1>4, <1>5, StageUpdates
<1> HIDE DEF new
<1>7. Stage' = Stage
  BY <1>1, <1>4, <1>6 DEF Stage
<1>8. UNCHANGED <<held, treasury_governance>>
  BY <1>5 DEF treasuryVars
<1>9. QED
  BY <1>6, <1>7, <1>8 DEF Mandate!mandateVars, Stage, Content, MandateOf

LEMMA SubmitProposes ==
    ASSUME GovernanceInv, NEW caller \in Accounts, NEW content \in Contents,
           SubmitProposal(caller, content)
    PROVE  \E id \in Ids : Mandate!Propose(id)
<1>0. PICK next \in Ids : next = proposal_count + 1
  BY SubmitKeepsProposals DEF GovernanceInv
<1>1. /\ next \in Ids
      /\ proposal_count' = next
      /\ proposals'[next].status = "Active"
      /\ \A id \in Ids \ {next} : proposals'[id] = proposals[id]
      /\ proposal_count \in Nat
  BY <1>0, SubmitKeepsProposals DEF GovernanceInv, ProposalsTyped
<1>2. \A id \in Ids \ {next} : (id > next) = (id > proposal_count)
  BY <1>0, <1>1 DEF Ids
<1>3. next > proposal_count /\ ~(next > next)
  BY <1>0, <1>1
<1>4. UNCHANGED <<held, treasury_governance>>
  BY DEF SubmitProposal, treasuryVars
<1>5. Stage[next] = "none" /\ Stage' = [Stage EXCEPT ![next] = "Active"]
  <2>1. \A id \in Ids : Stage'[id] = IF id = next THEN "Active" ELSE Stage[id]
    BY <1>1, <1>2, <1>3 DEF Stage
  <2>2. QED
    BY <1>1, <1>3, <2>1 DEF Stage
<1>6. \A id \in Ids \ {next} : Content'[id] = Content[id]
  <2>1. ASSUME NEW id \in Ids \ {next}
        PROVE  MandateOf(id)' = MandateOf(id)
    BY <1>1, <1>2 DEF MandateOf
  <2>2. QED
    BY <2>1 DEF Content
<1>7. Mandate!Propose(next)
  BY <1>1, <1>4, <1>5, <1>6 DEF Mandate!Propose, Stage, Content, MandateOf
<1>8. QED
  BY <1>1, <1>7

LEMMA TreasuryStepMaps ==
    ASSUME GovernanceInv, TreasuryStep
    PROVE  Mandate!Receive \/ Mandate!Deploy \/ UNCHANGED Mandate!mandateVars
<1>1. Stage' = Stage /\ Content' = Content
  BY StageUntouched DEF TreasuryStep, proposalVars
<1>2. CASE Distribute
  BY <1>1, <1>2 DEF Distribute, Mandate!mandateVars, Stage, Content, MandateOf
<1>3. ASSUME NEW kind \in TokenKind, NEW amount \in FeeAmounts, ReceiveFees(kind, amount)
      PROVE  Mandate!Receive
  <2>1. \A k \in DOMAIN held : held'[k] >= held[k]
    BY <1>3, TreasuryConstants DEF ReceiveFees, GovernanceInv, TreasuryTyped
  <2>2. UNCHANGED treasury_governance
    BY <1>3 DEF ReceiveFees
  <2>3. QED
    BY <1>1, <2>1, <2>2 DEF Mandate!Receive, Stage, Content, MandateOf
<1>4. ASSUME \/ SetTreasuryGovernance(Deployer, GovernanceContract)
             \/ \E content \in Contents \ {NonFunding} :
                  Release(Deployer, content.fund, content.token_kind, content.amount,
                          content.recipient)
      PROVE  Mandate!Deploy
  <2>1. treasury_governance # GovernanceContract
    BY <1>4, GovernanceConstants DEF SetTreasuryGovernance, Release
  <2>2. QED
    BY <1>1, <2>1 DEF Mandate!Deploy, Stage, Content, MandateOf
<1>5. QED
  BY <1>2, <1>3, <1>4 DEF TreasuryStep

LEMMA GovernanceStepMaps ==
    ASSUME GovernanceInv, [GovernanceNext]_governanceVars
    PROVE  [Mandate!MandateNext]_Mandate!mandateVars
<1>1. CASE \/ UNCHANGED governanceVars
           \/ \E account \in Accounts : ElectMaintainer(account)
           \/ \E members \in Council : SetCouncil(maintainer, members)
           \/ \E new_params \in ParamChoices : UpdateParams(maintainer, new_params)
           \/ \E caller \in Accounts, snapshot \in Snapshots : SubmitSnapshot(caller, snapshot)
           \/ Tick
  <2>1. UNCHANGED <<proposal_count, proposals, held, treasury_governance>>
    BY <1>1 DEF ElectMaintainer, SetCouncil, UpdateParams, SubmitSnapshot, Tick, governanceVars,
                proposalVars, treasuryVars
  <2>2. QED
    BY <2>1, StageUntouched DEF Mandate!mandateVars, Stage, Content, MandateOf
<1>2. CASE \E caller \in Accounts, content \in Contents : SubmitProposal(caller, content)
  BY <1>2, SubmitProposes DEF Mandate!MandateNext
<1>3. CASE \E id \in Ids, leaf \in Leaves, support \in BOOLEAN : Vote(id, leaf, support)
  BY <1>3, VoteStutters
<1>4. CASE \E id \in Ids : Finalize(id) \/ Execute(id)
  BY <1>4, FinalizeDecides, ExecutePays DEF Mandate!MandateNext
<1>5. CASE TreasuryStep
  BY <1>5, TreasuryStepMaps DEF Mandate!MandateNext
<1>6. QED
  BY <1>1, <1>2, <1>3, <1>4, <1>5 DEF GovernanceNext

\* Once governance holds the treasury it keeps it, and what it holds leaves
\* only when a passed proposal is paid, once, with its amount
\* (ImplementsMandates): Execute is the abstract Pay, Finalize is Decide,
\* SubmitProposal is Propose, and votes, distributions and roles stutter.
THEOREM GovernanceImplementsMandates == GovernanceSpec => ImplementsMandates
<1>1. GovernanceInit => Mandate!MandateInit
  <2> SUFFICES ASSUME GovernanceInit PROVE Mandate!MandateInit
    OBVIOUS
  <2>1. treasury_governance # GovernanceContract /\ proposal_count = 0
    BY GovernanceConstants DEF GovernanceInit, TreasuryInit
  <2>2. \A id \in Ids : id > 0
    BY DEF Ids
  <2>3. QED
    BY <2>1, <2>2 DEF Mandate!MandateInit
<1>2. GovernanceInv /\ [GovernanceNext]_governanceVars => GovernanceInv'
  BY GovernanceStepKeepsInv
<1>3. GovernanceInv /\ [GovernanceNext]_governanceVars => [Mandate!MandateNext]_Mandate!mandateVars
  BY GovernanceStepMaps
<1>4. QED
  BY InitGovernanceInv, <1>1, <1>2, <1>3, PTL
     DEF GovernanceSpec, ImplementsMandates, Mandate!MandateSpec

----------------------------------------------------------------------------
(* The tallies. *)

\* The epochs up to the current one have their snapshot.
SnapshotsTyped ==
    /\ current_epoch \in 0 .. MaxEpochs
    /\ snapshots = [epoch \in Epochs |-> snapshots[epoch]]
    /\ \A epoch \in 1 .. current_epoch : snapshots[epoch] \in Snapshots

\* A proposal is counted under an epoch that has its snapshot, by leaves of it.
TalliesTyped ==
    /\ \A id \in Ids : id > proposal_count => Voters(id) = {}
    /\ \A id \in 1 .. proposal_count :
         /\ {"snapshot_epoch", "yes", "no", "voted_balance"} \subseteq DOMAIN proposals[id]
         /\ proposals[id].snapshot_epoch \in 1 .. current_epoch
         /\ {proposals[id].yes, proposals[id].no, proposals[id].voted_balance} \subseteq Nat
         /\ Voters(id) \subseteq DOMAIN snapshots[proposals[id].snapshot_epoch].leaves

TallyInv == GovernanceInv /\ SnapshotsTyped /\ TalliesTyped /\ TallyIsOfItsSnapshot

LEMMA CountedIds ==
    ASSUME ProposalsTyped
    PROVE  /\ \A id \in Ids : proposals[id] # NoProposal => id \in 1 .. proposal_count
           /\ \A id \in 1 .. proposal_count : id \in Nat /\ ~ (id > proposal_count)
  BY DEF ProposalsTyped, Ids

\* What a leaf weighs.
LEMMA ElectorateTyped ==
    ASSUME SnapshotsTyped, NEW epoch \in 1 .. current_epoch,
           NEW leaf \in DOMAIN snapshots[epoch].leaves
    PROVE  BalanceAt(epoch, leaf) \in Nat /\ PowerAt(epoch, leaf) \in Nat /\ leaf \in Leaves
<1>1. IsSnapshot(snapshots[epoch])
  BY GovernanceConstants DEF SnapshotsTyped
<1>2. snapshots[epoch].leaves[leaf] \in Leaf /\ leaf \in Leaves
  BY <1>1 DEF IsSnapshot
<1>3. QED
  BY <1>2, VotingPowerNat DEF Leaf, BalanceAt, PowerAt

LEMMA WeightsTyped ==
    ASSUME SnapshotsTyped, TalliesTyped, NEW id \in 1 .. proposal_count
    PROVE  PowerOn(id) \in [Leaves -> Nat] /\ BalanceOn(id) \in [Leaves -> Nat]
<1>1. \A leaf \in Voters(id) :
        /\ PowerAt(proposals[id].snapshot_epoch, leaf) \in Nat
        /\ BalanceAt(proposals[id].snapshot_epoch, leaf) \in Nat
  BY ElectorateTyped DEF TalliesTyped
<1>2. QED
  BY <1>1 DEF PowerOn, BalanceOn

\* Neither new snapshots nor a change of status touch the count of a proposal.
TallyKept(id) ==
    /\ {"snapshot_epoch", "yes", "no", "voted_balance"} \subseteq DOMAIN proposals'[id]
    /\ proposals'[id].snapshot_epoch = proposals[id].snapshot_epoch
    /\ proposals'[id].yes = proposals[id].yes
    /\ proposals'[id].no = proposals[id].no
    /\ proposals'[id].voted_balance = proposals[id].voted_balance

SnapshotsKept ==
    /\ SnapshotsTyped'
    /\ current_epoch' >= current_epoch
    /\ \A epoch \in 1 .. current_epoch : snapshots'[epoch] = snapshots[epoch]

LEMMA WeightsKept ==
    ASSUME TallyInv, SnapshotsKept, NEW id \in 1 .. proposal_count, TallyKept(id),
           Voters(id)' = Voters(id)
    PROVE  /\ PowerOn(id)' = PowerOn(id) /\ BalanceOn(id)' = BalanceOn(id)
           /\ proposals'[id].snapshot_epoch \in 1 .. current_epoch'
           /\ {proposals'[id].yes, proposals'[id].no, proposals'[id].voted_balance} \subseteq Nat
           /\ Voters(id)' \subseteq DOMAIN snapshots'[proposals'[id].snapshot_epoch].leaves
           /\ proposals'[id].yes + proposals'[id].no = SumFunction(PowerOn(id)')
           /\ proposals'[id].voted_balance = SumFunction(BalanceOn(id)')
<1> DEFINE epoch == proposals[id].snapshot_epoch
<1>1. epoch \in 1 .. current_epoch /\ proposals'[id].snapshot_epoch = epoch
      /\ snapshots'[epoch] = snapshots[epoch]
  BY DEF TallyInv, TalliesTyped, SnapshotsKept, TallyKept
<1>2. PowerOn(id)' = PowerOn(id) /\ BalanceOn(id)' = BalanceOn(id)
  BY <1>1 DEF PowerOn, BalanceOn, PowerAt, BalanceAt
<1>3. epoch \in 1 .. current_epoch'
  BY <1>1 DEF SnapshotsKept, SnapshotsTyped, TallyInv
<1>4. QED
  BY <1>1, <1>2, <1>3 DEF TallyInv, TalliesTyped, TallyIsOfItsSnapshot, TallyKept

LEMMA TalliesKept ==
    ASSUME TallyInv, GovernanceInv', SnapshotsKept, UNCHANGED <<proposal_count, has_voted>>,
           \A id \in 1 .. proposal_count : TallyKept(id)
    PROVE  TallyInv'
<1>1. \A id : Voters(id)' = Voters(id)
  BY DEF Voters
<1>2. \A id \in Ids : id > proposal_count' => Voters(id)' = {}
  BY <1>1 DEF TallyInv, TalliesTyped
<1>3. TalliesTyped'
  BY <1>1, <1>2, WeightsKept DEF TalliesTyped, TallyKept
<1>4. TallyIsOfItsSnapshot'
  BY <1>1, WeightsKept DEF TallyIsOfItsSnapshot
<1>5. QED
  BY <1>3, <1>4 DEF TallyInv, SnapshotsKept

LEMMA SameSnapshots ==
    ASSUME SnapshotsTyped, UNCHANGED snapshotVars
    PROVE  SnapshotsKept
  BY DEF SnapshotsTyped, SnapshotsKept, snapshotVars

LEMMA SubmitSnapshotKeepsTallies ==
    ASSUME TallyInv, GovernanceInv', NEW caller, NEW snapshot \in Snapshots,
           SubmitSnapshot(caller, snapshot)
    PROVE  TallyInv'
<1>1. /\ current_epoch \in 0 .. MaxEpochs /\ current_epoch + 1 \in Epochs
      /\ current_epoch' = current_epoch + 1
      /\ snapshots' = [snapshots EXCEPT ![current_epoch + 1] = snapshot]
      /\ UNCHANGED <<proposal_count, proposals, has_voted>>
  BY DEF SubmitSnapshot, NextEpoch, proposalVars, TallyInv, SnapshotsTyped
<1>2. MaxEpochs \in Nat
  BY GovernanceConstants
<1>3. \A epoch \in Epochs :
        snapshots'[epoch] = IF epoch = current_epoch + 1 THEN snapshot ELSE snapshots[epoch]
  BY <1>1 DEF TallyInv, SnapshotsTyped
<1>4. /\ current_epoch' \in 0 .. MaxEpochs /\ current_epoch' >= current_epoch
      /\ \A epoch \in 1 .. current_epoch :
           epoch \in Epochs /\ epoch # current_epoch + 1
      /\ \A epoch \in 1 .. current_epoch' :
           epoch \in Epochs /\ (epoch = current_epoch + 1 \/ epoch \in 1 .. current_epoch)
  BY <1>1, <1>2 DEF Epochs
<1>5. snapshots' = [epoch \in Epochs |-> snapshots'[epoch]]
  BY <1>1 DEF TallyInv, SnapshotsTyped
<1>6. SnapshotsKept
  BY <1>3, <1>4, <1>5 DEF SnapshotsKept, SnapshotsTyped, TallyInv
<1>7. \A id \in 1 .. proposal_count : TallyKept(id)
  BY <1>1 DEF TallyKept, TallyInv, TalliesTyped
<1>8. QED
  BY <1>1, <1>6, <1>7, TalliesKept

\* A new proposal is counted under the snapshot in force, by nobody yet.
LEMMA SubmitProposalKeepsTallies ==
    ASSUME TallyInv, GovernanceInv', NEW caller \in Accounts, NEW content \in Contents,
           SubmitProposal(caller, content)
    PROVE  TallyInv'
<1> DEFINE new == [kind |-> content, voting_ends_at |-> now + params.voting_period,
                   snapshot_epoch |-> current_epoch, yes |-> 0, no |-> 0, voted_balance |-> 0,
                   status |-> "Active"]
<1>0. PICK next \in Ids : next = proposal_count + 1
  BY SubmitKeepsProposals DEF TallyInv, GovernanceInv
<1>1. /\ proposal_count' = next
      /\ \A id \in Ids \ {next} : proposals'[id] = proposals[id]
      /\ proposal_count \in Nat
      /\ next > proposal_count
  BY <1>0, SubmitKeepsProposals DEF TallyInv, GovernanceInv, ProposalsTyped
<1>2. /\ proposals' = [proposals EXCEPT ![next] = new]
      /\ current_epoch # 0
      /\ UNCHANGED has_voted /\ UNCHANGED snapshotVars
  BY <1>0 DEF SubmitProposal
<1>3. proposals'[next] = new
  BY <1>1, <1>2 DEF TallyInv, GovernanceInv, ProposalsTyped
<1>4. /\ {"snapshot_epoch", "yes", "no", "voted_balance"} \subseteq DOMAIN proposals'[next]
      /\ proposals'[next].snapshot_epoch = current_epoch
      /\ proposals'[next].yes = 0 /\ proposals'[next].no = 0
      /\ proposals'[next].voted_balance = 0
  BY <1>3
<1> HIDE DEF new
<1>5. SnapshotsKept /\ current_epoch \in 1 .. current_epoch'
  BY <1>2, SameSnapshots, GovernanceConstants DEF TallyInv, snapshotVars, SnapshotsTyped
<1>6. \A id : Voters(id)' = Voters(id)
  BY <1>2 DEF Voters
<1>7. Voters(next)' = {}
  BY <1>1, <1>6 DEF TallyInv, TalliesTyped
<1>8. \A id \in Ids : id > proposal_count' => Voters(id)' = {}
  <2>1. \A id \in Ids : id > proposal_count' => id > proposal_count
    BY <1>0, <1>1 DEF Ids
  <2>2. QED
    BY <1>6, <2>1 DEF TallyInv, TalliesTyped
<1>9. SumFunction(PowerOn(next)') = 0 /\ SumFunction(BalanceOn(next)') = 0
  <2>1. /\ PowerOn(next)' = [leaf \in Leaves |-> 0]
        /\ BalanceOn(next)' = [leaf \in Leaves |-> 0]
    BY <1>7 DEF PowerOn, BalanceOn
  <2>2. SumFunction([leaf \in Leaves |-> 0]) = 0
    BY GovernanceConstants, SumOfZeros
  <2>3. QED
    BY <2>1, <2>2
<1>10. \A id \in 1 .. proposal_count' : id = next \/ (id \in 1 .. proposal_count /\ id \in Ids \ {next})
  <2>1. MaxProposals \in Nat /\ next <= MaxProposals
    BY GovernanceConstants DEF Ids
  <2>2. QED
    BY <1>0, <1>1, <2>1 DEF Ids
<1>11. ASSUME NEW id \in 1 .. proposal_count, id \in Ids \ {next}
       PROVE  TallyKept(id)
  BY <1>1, <1>11 DEF TallyKept, TallyInv, TalliesTyped
<1>12. TalliesTyped'
  <2>1. ASSUME NEW id \in 1 .. proposal_count'
        PROVE  /\ {"snapshot_epoch", "yes", "no", "voted_balance"} \subseteq DOMAIN proposals'[id]
               /\ proposals'[id].snapshot_epoch \in 1 .. current_epoch'
               /\ {proposals'[id].yes, proposals'[id].no, proposals'[id].voted_balance} \subseteq Nat
               /\ Voters(id)' \subseteq DOMAIN snapshots'[proposals'[id].snapshot_epoch].leaves
    <3>1. CASE id = next
      BY <1>4, <1>5, <1>7, <3>1
    <3>2. CASE id \in 1 .. proposal_count /\ id \in Ids \ {next}
      BY <1>5, <1>6, <1>11, <3>2, WeightsKept DEF TallyKept
    <3>3. QED
      BY <1>10, <3>1, <3>2
  <2>2. QED
    BY <1>8, <2>1 DEF TalliesTyped
<1>13. TallyIsOfItsSnapshot'
  <2>1. ASSUME NEW id \in 1 .. proposal_count'
        PROVE  /\ proposals'[id].yes + proposals'[id].no = SumFunction(PowerOn(id)')
               /\ proposals'[id].voted_balance = SumFunction(BalanceOn(id)')
    <3>1. CASE id = next
      BY <1>4, <1>9, <3>1
    <3>2. CASE id \in 1 .. proposal_count /\ id \in Ids \ {next}
      BY <1>5, <1>6, <1>11, <3>2, WeightsKept
    <3>3. QED
      BY <1>10, <3>1, <3>2
  <2>2. QED
    BY <2>1 DEF TallyIsOfItsSnapshot
<1>14. QED
  BY <1>5, <1>12, <1>13 DEF TallyInv, SnapshotsKept


\* A vote adds to the tally what the leaf weighs, which it did not before.
LEMMA VoteKeepsTallies ==
    ASSUME TallyInv, GovernanceInv', NEW id \in Ids, NEW leaf \in Leaves, NEW support \in BOOLEAN,
           Vote(id, leaf, support)
    PROVE  TallyInv'
<1> DEFINE epoch == proposals[id].snapshot_epoch
           weight == PowerAt(epoch, leaf)
           balance == BalanceAt(epoch, leaf)
           yes == IF support THEN proposals[id].yes + weight ELSE proposals[id].yes
           no == IF support THEN proposals[id].no ELSE proposals[id].no + weight
           voted == proposals[id].voted_balance + balance
           new == [proposals[id] EXCEPT !.yes = yes, !.no = no, !.voted_balance = voted]
<1>1. /\ Active(id)
      /\ <<id, leaf>> \notin has_voted
      /\ leaf \in DOMAIN snapshots[epoch].leaves
      /\ has_voted' = has_voted \cup {<<id, leaf>>}
      /\ UNCHANGED proposal_count /\ UNCHANGED snapshotVars
  BY DEF Vote
<1>2. /\ id \in 1 .. proposal_count /\ ~ (id > proposal_count) /\ ProposalsTyped
      /\ SnapshotsTyped /\ TalliesTyped
  BY <1>1, CountedIds DEF Active, TallyInv, GovernanceInv
<1>3. /\ {"snapshot_epoch", "yes", "no", "voted_balance"} \subseteq DOMAIN proposals[id]
      /\ epoch \in 1 .. current_epoch
      /\ proposals[id].yes \in Nat /\ proposals[id].no \in Nat
      /\ proposals[id].voted_balance \in Nat
      /\ Voters(id) \subseteq DOMAIN snapshots[epoch].leaves
  BY <1>2 DEF TalliesTyped
<1>4. weight \in Nat /\ balance \in Nat
  BY <1>1, <1>2, <1>3, ElectorateTyped
<1>5. proposals' = [proposals EXCEPT ![id] = new]
  BY <1>2 DEF Vote, ProposalsTyped, PowerAt, BalanceAt
<1>6. /\ proposals'[id] = new
      /\ \A other \in Ids \ {id} : proposals'[other] = proposals[other]
  BY <1>2, <1>5 DEF ProposalsTyped
<1>7. /\ DOMAIN new = DOMAIN proposals[id]
      /\ new.snapshot_epoch = epoch
      /\ new.yes = yes /\ new.no = no /\ new.voted_balance = voted
  BY <1>3
<1> HIDE DEF new
<1>8. /\ yes \in Nat /\ no \in Nat /\ voted \in Nat
      /\ yes + no = proposals[id].yes + proposals[id].no + weight
  BY <1>3, <1>4
<1> HIDE DEF yes, no, voted
<1>9. SnapshotsKept
  BY <1>1, <1>2, SameSnapshots
<1>10. /\ Voters(id)' = Voters(id) \cup {leaf} /\ leaf \notin Voters(id)
       /\ \A other \in Ids \ {id} : Voters(other)' = Voters(other)
  BY <1>1 DEF Voters
<1>11. /\ proposals'[id].snapshot_epoch = epoch
       /\ snapshots' = snapshots /\ current_epoch' = current_epoch
  BY <1>1, <1>6, <1>7 DEF snapshotVars
<1>12. /\ SumFunction(PowerOn(id)') = SumFunction(PowerOn(id)) + weight
       /\ SumFunction(BalanceOn(id)') = SumFunction(BalanceOn(id)) + balance
  <2> DEFINE p == PowerOn(id)
             q == [p EXCEPT ![leaf] = weight]
             b == BalanceOn(id)
             c == [b EXCEPT ![leaf] = balance]
  <2>1. /\ p \in [Leaves -> Nat] /\ b \in [Leaves -> Nat]
        /\ p[leaf] = 0 /\ b[leaf] = 0
    BY <1>2, <1>10, WeightsTyped DEF PowerOn, BalanceOn
  <2>2. PowerOn(id)' = q /\ BalanceOn(id)' = c
    BY <1>10, <1>11 DEF PowerOn, BalanceOn, PowerAt, BalanceAt
  <2> HIDE DEF p, b
  <2>3. /\ q \in [Leaves -> Nat] /\ q[leaf] = weight
        /\ \A other \in Leaves \ {leaf} : q[other] = p[other]
        /\ c \in [Leaves -> Nat] /\ c[leaf] = balance
        /\ \A other \in Leaves \ {leaf} : c[other] = b[other]
    BY <1>4, <2>1
  <2> HIDE DEF q, c, weight, balance
  <2>4. /\ SumFunction(q) = SumFunction(p) - p[leaf] + q[leaf]
        /\ SumFunction(c) = SumFunction(b) - b[leaf] + c[leaf]
    BY <2>1, <2>3, GovernanceConstants, SumChanged
  <2>5. SumFunction(p) \in Int /\ SumFunction(b) \in Int
    BY <2>1, GovernanceConstants, SumType
  <2>6. QED
    BY <1>4, <2>1, <2>2, <2>3, <2>4, <2>5 DEF p, b
<1>13. \A other \in 1 .. proposal_count : other = id \/ (other \in Ids \ {id} /\ TallyKept(other))
  <2>1. \A other \in 1 .. proposal_count : other \in Ids
    BY <1>2, GovernanceConstants DEF ProposalsTyped, Ids, TallyInv, GovernanceInv
  <2>2. QED
    BY <1>6, <2>1 DEF TallyKept, TallyInv, TalliesTyped
<1>14. TalliesTyped'
  <2>1. \A other \in Ids : other > proposal_count' => Voters(other)' = {}
    BY <1>1, <1>2, <1>10 DEF TalliesTyped
  <2>2. ASSUME NEW other \in 1 .. proposal_count'
        PROVE  /\ {"snapshot_epoch", "yes", "no", "voted_balance"} \subseteq DOMAIN proposals'[other]
               /\ proposals'[other].snapshot_epoch \in 1 .. current_epoch'
               /\ {proposals'[other].yes, proposals'[other].no,
                   proposals'[other].voted_balance} \subseteq Nat
               /\ Voters(other)' \subseteq DOMAIN snapshots'[proposals'[other].snapshot_epoch].leaves
    <3>1. CASE other = id
      BY <1>1, <1>3, <1>6, <1>7, <1>8, <1>10, <1>11, <3>1
    <3>2. CASE other \in Ids \ {id} /\ TallyKept(other)
      BY <1>1, <1>9, <1>10, <3>2, WeightsKept DEF TallyKept
    <3>3. QED
      BY <1>1, <1>13, <3>1, <3>2
  <2>3. QED
    BY <2>1, <2>2 DEF TalliesTyped
<1>15. TallyIsOfItsSnapshot'
  <2>1. ASSUME NEW other \in 1 .. proposal_count'
        PROVE  /\ proposals'[other].yes + proposals'[other].no = SumFunction(PowerOn(other)')
               /\ proposals'[other].voted_balance = SumFunction(BalanceOn(other)')
    <3>1. CASE other = id
      <4>1. /\ proposals[id].yes + proposals[id].no = SumFunction(PowerOn(id))
            /\ proposals[id].voted_balance = SumFunction(BalanceOn(id))
        BY <1>2 DEF TallyInv, TallyIsOfItsSnapshot
      <4>2. QED
        BY <1>6, <1>7, <1>8, <1>12, <3>1, <4>1 DEF voted
    <3>2. CASE other \in Ids \ {id} /\ TallyKept(other)
      BY <1>1, <1>9, <1>10, <3>2, WeightsKept
    <3>3. QED
      BY <1>1, <1>13, <3>1, <3>2
  <2>2. QED
    BY <2>1 DEF TallyIsOfItsSnapshot
<1>16. QED
  BY <1>9, <1>14, <1>15 DEF TallyInv, SnapshotsKept

\* Deciding and executing a proposal keep its count.
LEMMA StatusKeepsTallies ==
    ASSUME TallyInv, GovernanceInv', NEW id \in Ids, Finalize(id) \/ Execute(id)
    PROVE  TallyInv'
<1>1. /\ UNCHANGED <<proposal_count, has_voted>> /\ UNCHANGED snapshotVars
      /\ \E status : proposals' = [proposals EXCEPT ![id].status = status]
  BY DEF Finalize, Execute, MarkExecuted
<1>2. PICK status : proposals' = [proposals EXCEPT ![id].status = status]
  BY <1>1
<1>3. /\ SnapshotsKept
      /\ \A other \in 1 .. proposal_count : other \in Ids
  BY <1>1, SameSnapshots, GovernanceConstants
     DEF TallyInv, GovernanceInv, ProposalsTyped, Ids
<1>4. ASSUME NEW other \in 1 .. proposal_count
      PROVE  TallyKept(other)
  <2>1. /\ {"snapshot_epoch", "yes", "no", "voted_balance"} \subseteq DOMAIN proposals[other]
        /\ other \in Ids
    BY <1>3 DEF TallyInv, TalliesTyped
  <2>2. proposals'[other] = IF other = id THEN [proposals[id] EXCEPT !.status = status]
                                          ELSE proposals[other]
    BY <1>2, <2>1 DEF TallyInv, GovernanceInv, ProposalsTyped
  <2>3. QED
    BY <2>1, <2>2 DEF TallyKept
<1>5. QED
  BY <1>1, <1>3, <1>4, TalliesKept

LEMMA TallyInvariant == GovernanceSpec => []TallyInv
<1>1. GovernanceInit => TallyInv
  <2> SUFFICES ASSUME GovernanceInit PROVE TallyInv
    OBVIOUS
  <2>1. GovernanceInv
    BY InitGovernanceInv
  <2>2. \A id : Voters(id) = {}
    BY DEF GovernanceInit, Voters
  <2>3. proposal_count = 0 /\ current_epoch = 0
    BY DEF GovernanceInit
  <2>4. SnapshotsTyped
    BY <2>3, GovernanceConstants DEF GovernanceInit, SnapshotsTyped
  <2>5. TalliesTyped /\ TallyIsOfItsSnapshot
    BY <2>2, <2>3 DEF TalliesTyped, TallyIsOfItsSnapshot
  <2>6. QED
    BY <2>1, <2>4, <2>5 DEF TallyInv
<1>2. TallyInv /\ [GovernanceNext]_governanceVars => TallyInv'
  <2> SUFFICES ASSUME TallyInv, [GovernanceNext]_governanceVars PROVE TallyInv'
    OBVIOUS
  <2>1. GovernanceInv'
    BY GovernanceStepKeepsInv DEF TallyInv
  <2>2. CASE \/ UNCHANGED governanceVars
             \/ \E account \in Accounts : ElectMaintainer(account)
             \/ \E members \in Council : SetCouncil(maintainer, members)
             \/ \E new_params \in ParamChoices : UpdateParams(maintainer, new_params)
             \/ TreasuryStep
             \/ Tick
    <3>1. UNCHANGED <<proposal_count, proposals, has_voted, current_epoch, snapshots>>
      BY <2>2 DEF ElectMaintainer, SetCouncil, UpdateParams, TreasuryStep, Tick, governanceVars,
                  proposalVars, snapshotVars
    <3>2. SnapshotsKept
      BY <3>1, SameSnapshots DEF TallyInv, snapshotVars
    <3>3. \A id \in 1 .. proposal_count : TallyKept(id)
      BY <3>1 DEF TallyKept, TallyInv, TalliesTyped
    <3>4. QED
      BY <2>1, <3>1, <3>2, <3>3, TalliesKept
  <2>3. CASE \E caller \in Accounts, snapshot \in Snapshots : SubmitSnapshot(caller, snapshot)
    BY <2>1, <2>3, SubmitSnapshotKeepsTallies
  <2>4. CASE \E caller \in Accounts, content \in Contents : SubmitProposal(caller, content)
    BY <2>1, <2>4, SubmitProposalKeepsTallies
  <2>5. CASE \E id \in Ids, leaf \in Leaves, support \in BOOLEAN : Vote(id, leaf, support)
    BY <2>1, <2>5, VoteKeepsTallies
  <2>6. CASE \E id \in Ids : Finalize(id) \/ Execute(id)
    BY <2>1, <2>6, StatusKeepsTallies
  <2>7. QED
    BY <2>2, <2>3, <2>4, <2>5, <2>6 DEF GovernanceNext
<1>3. QED
  BY <1>1, <1>2, PTL DEF GovernanceSpec

\* What a proposal counts is what its voters weigh in the snapshot it was
\* submitted under, each once, whatever the council commits later
\* (submit_proposal, vote, submit_snapshot; TallyIsOfItsSnapshot).
THEOREM GovernanceTallyIsOfItsSnapshot == GovernanceSpec => []TallyIsOfItsSnapshot
<1>1. TallyInv => TallyIsOfItsSnapshot
  BY DEF TallyInv
<1>2. QED
  BY <1>1, TallyInvariant, PTL

----------------------------------------------------------------------------
(* Payment.  ENABLED stays with the model checker; what is proved is that   *)
(* each condition on the path of execute holds, and that nothing else       *)
(* stands between the call and its effects.                                 *)

\* Every "?" and every check of execute and of the treasury's release.
PaymentReady(id) ==
    LET content == proposals[id].kind
    IN  /\ proposals[id].status = "Passed"
        /\ treasury_governance = GovernanceContract
        /\ FundsBooked[<<content.token_kind, content.fund>>] >= content.amount
        /\ AllocatedBooked[content.token_kind] >= content.amount
        /\ CanPay(content.token_kind, content.amount)

\* What a successful call writes.
PaymentEffect(id) ==
    LET content == proposals[id].kind
    IN  /\ funds' = [FundsBooked EXCEPT ![<<content.token_kind, content.fund>>] = @ - content.amount]
        /\ allocated' = [AllocatedBooked EXCEPT ![content.token_kind] = @ - content.amount]
        /\ held' = PaidTo(content.recipient, content.token_kind, content.amount)
        /\ proposals' = [proposals EXCEPT ![id].status = "Executed"]
        /\ UNCHANGED <<treasury_governance, roleVars, params, snapshotVars, proposal_count,
                       has_voted, now>>

LEMMA PayableIsReady ==
    ASSUME GovernanceInv, NEW id \in 1 .. proposal_count, Payable(id)
    PROVE  PaymentReady(id)
<1> DEFINE content == proposals[id].kind
           k == content.token_kind
           f == content.fund
           booked(fund) == FundsBooked[<<k, fund>>]
<1>1. /\ id \in Ids /\ id <= proposal_count
      /\ content # NonFunding
  BY GovernanceConstants DEF GovernanceInv, ProposalsTyped, Ids, Payable
<1>2. content \in Funding
  BY <1>1 DEF GovernanceInv, ProposalsTyped
<1>3. k \in TokenKind /\ f \in Fund /\ content.amount \in Nat
  BY <1>2 DEF Funding
<1> HIDE DEF content
<1>4. /\ \A fund \in Fund : booked(fund) \in Nat
      /\ AllocatedBooked = held /\ held[k] \in Nat
      /\ booked("Emergency") + booked("Operation") + booked("Insurance") + booked("Dividend")
         + booked("Buyback") + booked("Voting") = held[k]
  BY <1>3, BookingBalances DEF GovernanceInv, TreasuryTyped
<1>5. booked(f) >= content.amount
  BY <1>3 DEF Payable, FundsBooked, content
<1> HIDE DEF booked, k, f
<1>6. held[k] >= content.amount
  BY <1>3, <1>4, <1>5 DEF Fund
<1>7. CanPay(k, content.amount)
  <2>1. CASE k = "Native"
    BY <2>1 DEF Payable, CanPay, content, k
  <2>2. CASE k # "Native"
    BY <1>3, <1>6, <2>2 DEF CanPay
  <2>3. QED
    BY <2>1, <2>2
<1>8. QED
  BY <1>4, <1>5, <1>6, <1>7 DEF PaymentReady, Payable, content, booked, k, f

LEMMA ReadyPays ==
    ASSUME NEW id \in Ids, proposals[id] # NoProposal, proposals[id].kind # NonFunding,
           PaymentReady(id), PaymentEffect(id)
    PROVE  Execute(id)
  BY DEF PaymentReady, PaymentEffect, Execute, Release, MarkExecuted

\* No passed proposal whose fund holds what it asks for is stuck: everything
\* that execute and the treasury's release check holds, whatever fees arrived
\* undistributed and whatever other funds released (execute, release).
THEOREM GovernancePassedCanBePaid ==
    GovernanceSpec => [](\A id \in 1 .. proposal_count : Payable(id) => PaymentReady(id))
<1>1. TallyInv => \A id \in 1 .. proposal_count : Payable(id) => PaymentReady(id)
  BY PayableIsReady DEF TallyInv
<1>2. QED
  BY <1>1, TallyInvariant, PTL
=============================================================================
