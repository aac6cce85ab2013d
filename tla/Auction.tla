------------------------------ MODULE Auction ------------------------------
(***************************************************************************)
(* The liquidation auction (src/contracts/tusdt-auction/lib.rs), with the  *)
(* token it calls.  A Mapping is a total function whose absent entries are *)
(* None.  The auction holds each bid's full amount from the moment it is   *)
(* placed until it is refunded or, for the winner, passed to the vault.    *)
(***************************************************************************)
EXTENDS Token, FiniteSets, FiniteSetsExt

CONSTANTS
    None,             \* an absent entry of a Mapping, or an Option's None
    AuctionContract,  \* the contract's own account
    Owners, VaultIds, \* a vault is named by its owner and its number
    MaxAuctions,      \* auction ids are 0 .. MaxAuctions - 1 (u32 in the code)
    MaxBids,          \* bid ids are 0 .. MaxBids - 1 (u32 in the code)
    MaxTime,          \* bound on the block timestamp
    MaxDuration,      \* MAX_AUCTION_DURATION_MS
    BidAmounts,       \* amounts users bid
    TokenUsers,       \* accounts that also call the token directly
    TokenPeers,       \* accounts they name in those calls
    AdminChoices      \* values governance gives set_admin

VaultKeys == Owners \X VaultIds
AuctionIds == 0 .. MaxAuctions - 1
BidIds == 0 .. MaxBids - 1
Time == 0 .. MaxTime
\* Accounts that sign calls: contracts only act through their own code.
Users == Accounts \ {AuctionContract}

ASSUME AuctionConstants ==
    /\ AuctionContract \in Accounts
    /\ Owners \subseteq Accounts
    /\ MaxAuctions \in Nat \ {0}
    /\ MaxBids \in Nat \ {0}
    /\ MaxTime \in Nat
    /\ MaxDuration \in Nat
    /\ BidAmounts \subseteq Balance
    /\ TokenUsers \subseteq Users /\ TokenPeers \subseteq Accounts
    /\ AdminChoices \subseteq Accounts \cup {None}

AuctionRecord ==
    [vault : VaultKeys, collateral_balance : Balance, debt_balance : Balance,
     min_bid : Balance, ends_at : Nat,
     highest_bidder : Accounts \cup {None}, highest_bid : Balance,
     highest_bid_id : BidIds \cup {None}, bid_count : 0 .. MaxBids,
     is_finalized : BOOLEAN]

BidRecord == [bidder : Accounts, amount : Balance, is_withdrawn : BOOLEAN]

ASSUME NoneAssumption ==
    /\ None \notin Accounts
    /\ None \notin AuctionIds
    /\ None \notin BidIds
    /\ None \notin AuctionRecord
    /\ None \notin BidRecord

VARIABLES
    now,                    \* the block timestamp
    auction_controller,     \* the vault contract
    auction_governance,
    auction_admin,          \* may open the bidding after an auction expires unbid
    auction_count,
    auctions,               \* auction id -> auction
    auction_bids,           \* <<auction id, bid id>> -> bid
    auction_bidder_bids,    \* <<auction id, bidder>> -> bid id
    active_vault_auction,   \* vault -> its auction that is not finalized
    active_auction_count,
    active_auctions,        \* index -> auction id, contiguous from 0
    active_auction_indices  \* auction id -> index

rolesVars == <<auction_controller, auction_governance, auction_admin>>
indexVars == <<active_vault_auction, active_auction_count, active_auctions,
               active_auction_indices>>
bookVars == <<auction_count, auctions, auction_bids, auction_bidder_bids>>
auctionVars == <<now, rolesVars, bookVars, indexVars>>

AuctionTypeOK ==
    /\ now \in Time
    /\ auction_controller \in Accounts
    /\ auction_governance \in Accounts
    /\ auction_admin \in Accounts \cup {None}
    /\ auction_count \in 0 .. MaxAuctions
    /\ auctions \in [AuctionIds -> AuctionRecord \cup {None}]
    /\ auction_bids \in [AuctionIds \X BidIds -> BidRecord \cup {None}]
    /\ auction_bidder_bids \in [AuctionIds \X Accounts -> BidIds \cup {None}]
    /\ active_vault_auction \in [VaultKeys -> AuctionIds \cup {None}]
    /\ active_auction_count \in 0 .. MaxAuctions
    /\ active_auctions \in [AuctionIds -> AuctionIds \cup {None}]
    /\ active_auction_indices \in [AuctionIds -> AuctionIds \cup {None}]

Opened == {a \in AuctionIds : auctions[a] # None}
Unfinalized == {a \in Opened : ~auctions[a].is_finalized}
BidsOf(a) == {b \in BidIds : auction_bids[<<a, b>>] # None}

----------------------------------------------------------------------------
(* Creating an auction. *)

\* Mutant: a vault may have two auctions open.
VaultIsFree_Always(vault) == TRUE

VaultIsFree(vault) == active_vault_auction[vault] = None

CreateAuction(caller, vault, collateral, debt, min_bid, duration) ==
    /\ caller = auction_controller
    /\ VaultIsFree(vault)
    /\ duration \in 1 .. MaxDuration
    /\ auction_count < MaxAuctions
    /\ auctions' = [auctions EXCEPT ![auction_count] =
          [vault |-> vault, collateral_balance |-> collateral,
           debt_balance |-> debt, min_bid |-> min_bid,
           ends_at |-> now + duration,
           highest_bidder |-> None, highest_bid |-> 0, highest_bid_id |-> None,
           bid_count |-> 0, is_finalized |-> FALSE]]
    /\ active_auctions' = [active_auctions EXCEPT ![active_auction_count] = auction_count]
    /\ active_auction_indices' =
          [active_auction_indices EXCEPT ![auction_count] = active_auction_count]
    /\ active_auction_count' = active_auction_count + 1
    /\ active_vault_auction' = [active_vault_auction EXCEPT ![vault] = auction_count]
    /\ auction_count' = auction_count + 1
    /\ UNCHANGED <<now, rolesVars, auction_bids, auction_bidder_bids>>

----------------------------------------------------------------------------
(* Bidding. *)

\* Mutant: the admin may outbid after the end.
BidAllowed_AdminLate(a, bidder) ==
    /\ ~auctions[a].is_finalized
    /\ now < auctions[a].ends_at \/ auction_admin = bidder

\* ensure_bid_allowed: an expired auction takes one more bid only if it has
\* none, and only from the admin.
BidAllowed(a, bidder) ==
    /\ ~auctions[a].is_finalized
    /\ \/ now < auctions[a].ends_at
       \/ auctions[a].bid_count = 0 /\ auction_admin = bidder

\* Mutant: every accepted bid takes the lead.
Leading_Last(auction, bidder, bid_id, amount) ==
    [auction EXCEPT !.highest_bidder = bidder, !.highest_bid = amount, !.highest_bid_id = bid_id]

\* The auction after a bid: the leader changes only for a strictly higher bid.
Leading(auction, bidder, bid_id, amount) ==
    IF amount > auction.highest_bid
    THEN [auction EXCEPT !.highest_bidder = bidder,
                         !.highest_bid = amount,
                         !.highest_bid_id = bid_id]
    ELSE auction

NewBid(bidder, a, amount) ==
    LET bid_id == auctions[a].bid_count
        counted == [auctions[a] EXCEPT !.bid_count = @ + 1]
    IN  /\ auction_bidder_bids[<<a, bidder>>] = None
        /\ bid_id < MaxBids
        /\ TransferFrom(AuctionContract, bidder, AuctionContract, amount)
        /\ auction_bids' = [auction_bids EXCEPT ![<<a, bid_id>>] =
              [bidder |-> bidder, amount |-> amount, is_withdrawn |-> FALSE]]
        /\ auction_bidder_bids' = [auction_bidder_bids EXCEPT ![<<a, bidder>>] = bid_id]
        /\ auctions' = [auctions EXCEPT ![a] = Leading(counted, bidder, bid_id, amount)]

\* A bidder has one bid record per auction; a raise pulls in the difference.
RaiseBid(bidder, a, amount) ==
    LET bid_id == auction_bidder_bids[<<a, bidder>>]
    IN  /\ bid_id # None
        /\ amount > auction_bids[<<a, bid_id>>].amount
        /\ TransferFrom(AuctionContract, bidder, AuctionContract,
                        amount - auction_bids[<<a, bid_id>>].amount)
        /\ auction_bids' = [auction_bids EXCEPT ![<<a, bid_id>>].amount = amount]
        /\ auctions' = [auctions EXCEPT ![a] = Leading(@, bidder, bid_id, amount)]
        /\ UNCHANGED auction_bidder_bids

PlaceBid(bidder, a, amount) ==
    /\ auctions[a] # None
    /\ BidAllowed(a, bidder)
    /\ amount >= auctions[a].min_bid
    /\ NewBid(bidder, a, amount) \/ RaiseBid(bidder, a, amount)
    /\ UNCHANGED <<now, rolesVars, auction_count, indexVars>>

----------------------------------------------------------------------------
(* Finalization and the two ways a bid leaves the contract. *)

\* Mutant: the moved auction keeps its old index.
RemoveActiveAuction_StaleIndex(a) ==
    LET last == active_auction_count - 1
    IN  /\ active_auctions' =
              [active_auctions EXCEPT ![active_auction_indices[a]] = active_auctions[last],
                                      ![last] = None]
        /\ active_auction_indices' = [active_auction_indices EXCEPT ![a] = None]
        /\ active_auction_count' = last

\* remove_active_auction: the last entry takes the place of the removed one.
RemoveActiveAuction(a) ==
    LET index == active_auction_indices[a]
        last == active_auction_count - 1
        moved == active_auctions[last]
    IN  /\ index # None
        /\ active_auction_count > 0
        /\ active_auctions' =
              [[active_auctions EXCEPT ![index] = moved] EXCEPT ![last] = None]
        /\ active_auction_indices' =
              [[active_auction_indices EXCEPT ![moved] = index] EXCEPT ![a] = None]
        /\ active_auction_count' = last

FinalizeAuction(a) ==
    /\ auctions[a] # None
    /\ ~auctions[a].is_finalized
    /\ now >= auctions[a].ends_at
    /\ auctions[a].bid_count # 0
    /\ auctions[a].highest_bidder # None
    /\ auctions[a].highest_bid_id # None
    /\ auction_bids[<<a, auctions[a].highest_bid_id>>] # None
    /\ auctions' = [auctions EXCEPT ![a].is_finalized = TRUE]
    /\ active_vault_auction' = [active_vault_auction EXCEPT ![auctions[a].vault] = None]
    /\ RemoveActiveAuction(a)
    /\ UNCHANGED <<now, rolesVars, auction_count, auction_bids, auction_bidder_bids, tokenVars>>

\* What transfer_winning_bid needs besides the token transfer, and the record
\* it leaves: the vault's settlement makes this call in the middle of its own.
WinningBidReady(caller, a) ==
    /\ caller = auction_controller
    /\ auctions[a] # None
    /\ auctions[a].is_finalized
    /\ auctions[a].highest_bid_id # None
    /\ auction_bids[<<a, auctions[a].highest_bid_id>>] # None
    /\ ~auction_bids[<<a, auctions[a].highest_bid_id>>].is_withdrawn

WinningBidOf(a) == auction_bids[<<a, auctions[a].highest_bid_id>>].amount

MarkWinningBidPaid(a) ==
    auction_bids' = [auction_bids EXCEPT ![<<a, auctions[a].highest_bid_id>>].is_withdrawn = TRUE]

TransferWinningBid(caller, a, recipient) ==
    /\ WinningBidReady(caller, a)
    /\ Transfer(AuctionContract, recipient, WinningBidOf(a))
    /\ MarkWinningBidPaid(a)
    /\ UNCHANGED <<now, rolesVars, auction_count, auctions, auction_bidder_bids, indexVars>>

\* Mutant: a refund can be withdrawn again.
Refundable_Again(caller, a, b) ==
    /\ auction_bids[<<a, b>>] # None
    /\ auction_bids[<<a, b>>].bidder = caller
    /\ auctions[a].is_finalized
    /\ auctions[a].highest_bid_id # b

Refundable(caller, a, b) ==
    /\ auction_bids[<<a, b>>] # None
    /\ auction_bids[<<a, b>>].bidder = caller
    /\ ~auction_bids[<<a, b>>].is_withdrawn
    /\ auctions[a] # None
    /\ auctions[a].is_finalized
    /\ auctions[a].highest_bid_id # b

WithdrawRefund(caller, a, b) ==
    /\ Refundable(caller, a, b)
    /\ Transfer(AuctionContract, caller, auction_bids[<<a, b>>].amount)
    /\ auction_bids' = [auction_bids EXCEPT ![<<a, b>>].is_withdrawn = TRUE]
    /\ UNCHANGED <<now, rolesVars, auction_count, auctions, auction_bidder_bids, indexVars>>

----------------------------------------------------------------------------
(* Roles and time. *)

SetAdmin(caller, admin) ==
    /\ caller = auction_governance
    /\ auction_admin' = admin
    /\ UNCHANGED <<now, auction_controller, auction_governance, bookVars, indexVars, tokenVars>>

UpdateAuctionGovernance(caller, new_governance) ==
    /\ caller = auction_controller
    /\ auction_governance' = new_governance
    /\ UNCHANGED <<now, auction_controller, auction_admin, bookVars, indexVars, tokenVars>>

SetAuctionController(caller, new_controller) ==
    /\ caller = auction_governance
    /\ auction_controller' = new_controller
    /\ UNCHANGED <<now, auction_governance, auction_admin, bookVars, indexVars, tokenVars>>

Tick ==
    /\ now < MaxTime
    /\ now' = now + 1
    /\ UNCHANGED <<rolesVars, bookVars, indexVars, tokenVars>>

\* new(controller, governance, token).
AuctionInit(controller, gov) ==
    /\ now = 0
    /\ auction_controller = controller
    /\ auction_governance = gov
    /\ auction_admin = None
    /\ auction_count = 0
    /\ auctions = [a \in AuctionIds |-> None]
    /\ auction_bids = [ab \in AuctionIds \X BidIds |-> None]
    /\ auction_bidder_bids = [ab \in AuctionIds \X Accounts |-> None]
    /\ active_vault_auction = [key \in VaultKeys |-> None]
    /\ active_auction_count = 0
    /\ active_auctions = [i \in AuctionIds |-> None]
    /\ active_auction_indices = [a \in AuctionIds |-> None]

----------------------------------------------------------------------------
(* What the auction guarantees, whoever controls it. *)

\* The leader of an auction holds its highest bid, at least the minimum, and a
\* bidder has exactly one of the bids numbered 0 .. bid_count - 1 (place_bid).
BidsCounted(a) == BidsOf(a) = 0 .. auctions[a].bid_count - 1
BidInBounds(a, b) ==
    /\ auction_bidder_bids[<<a, auction_bids[<<a, b>>].bidder>>] = b
    /\ auction_bids[<<a, b>>].amount >= auctions[a].min_bid
    /\ auction_bids[<<a, b>>].amount <= auctions[a].highest_bid
LeaderHoldsBid(a) ==
    IF auctions[a].bid_count = 0
    THEN auctions[a].highest_bidder = None /\ auctions[a].highest_bid_id = None
    ELSE LET b == auctions[a].highest_bid_id
         IN  /\ b \in BidsOf(a)
             /\ auction_bids[<<a, b>>].bidder = auctions[a].highest_bidder
             /\ auction_bids[<<a, b>>].amount = auctions[a].highest_bid
LeadersAreHighest ==
    \A a \in Opened :
        /\ BidsCounted(a)
        /\ \A b \in BidsOf(a) : BidInBounds(a, b)
        /\ LeaderHoldsBid(a)

\* The contract can always pay every bid it still holds: refunds and winning
\* bids are never paid from another auction's bids (withdraw_refund,
\* transfer_winning_bid).
HeldAmounts ==
    [ab \in AuctionIds \X BidIds |->
        IF auction_bids[ab] # None /\ ~auction_bids[ab].is_withdrawn
        THEN auction_bids[ab].amount ELSE 0]
EscrowCoversBids == balances[AuctionContract] >= SumFunction(HeldAmounts)

\* The paginated index lists exactly the auctions that are not finalized, each
\* once, and each auction knows its place in it (remove_active_auction).
EntryOK(i) ==
    IF i < active_auction_count
    THEN active_auctions[i] \in Unfinalized /\ active_auction_indices[active_auctions[i]] = i
    ELSE active_auctions[i] = None
PlaceOK(a) ==
    IF a \in Unfinalized
    THEN /\ active_auction_indices[a] \in 0 .. active_auction_count - 1
         /\ active_auctions[active_auction_indices[a]] = a
    ELSE active_auction_indices[a] = None
ActiveIndexExact == \A i \in AuctionIds : EntryOK(i) /\ PlaceOK(i)

\* A vault has at most one auction that is not finalized, and the contract's
\* record of it is that auction (create_auction, finalize_auction).
OneOpenAuctionPerVault ==
    /\ \A a \in Unfinalized : active_vault_auction[auctions[a].vault] = a
    /\ \A key \in VaultKeys : active_vault_auction[key] # None =>
          /\ active_vault_auction[key] \in Unfinalized
          /\ auctions[active_vault_auction[key]].vault = key

\* An auction that has ended with a bid has its outcome: no later bid, not even
\* the admin's, changes the leader or what any bidder owes.
OutcomeFixed(a) ==
    /\ auctions'[a] = [auctions[a] EXCEPT !.is_finalized = auctions'[a].is_finalized]
    /\ \A b \in BidsOf(a) :
          auction_bids'[<<a, b>>] = [auction_bids[<<a, b>>] EXCEPT !.is_withdrawn =
                                    auction_bids'[<<a, b>>].is_withdrawn]
OutcomeFixedAtExpiry ==
    [][\A a \in Opened :
          now >= auctions[a].ends_at /\ auctions[a].bid_count > 0 => OutcomeFixed(a)
      ]_<<auctionVars, tokenVars>>
============================================================================
