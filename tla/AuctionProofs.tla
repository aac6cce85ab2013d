--------------------------- MODULE AuctionProofs ---------------------------
(***************************************************************************)
(* What every message of the auction contract preserves, whatever contract *)
(* controls it.  LeadersAreHighest, ActiveIndexExact and                   *)
(* OneOpenAuctionPerVault are inductive together with BookOK.              *)
(***************************************************************************)
EXTENDS AuctionHouse, TokenProofs

\* Which entries of the mappings exist.
BookOK ==
    /\ active_auction_count <= auction_count
    /\ \A a \in AuctionIds : auctions[a] # None <=> a < auction_count
    /\ \A a \in AuctionIds, b \in BidIds : auction_bids[<<a, b>>] # None => a < auction_count
    /\ \A a \in Opened :
          /\ auctions[a].min_bid > 0
          /\ auctions[a].bid_count = 0 => auctions[a].highest_bid = 0
    /\ \A a \in AuctionIds, x \in Accounts :
          LET b == auction_bidder_bids[<<a, x>>]
          IN  b # None => auction_bids[<<a, b>>] # None /\ auction_bids[<<a, b>>].bidder = x

AuctionInv ==
    /\ AuctionTypeOK
    /\ BookOK
    /\ LeadersAreHighest
    /\ ActiveIndexExact
    /\ OneOpenAuctionPerVault

LEMMA AuctionIdType ==
    /\ AuctionIds \subseteq Nat
    /\ BidIds \subseteq Nat
    /\ Balance \subseteq Nat
  BY AuctionConstants, MaxBalanceAssumption DEF AuctionIds, BidIds, Balance

LEMMA AuctionInitInv ==
    ASSUME NEW controller \in Accounts, NEW gov \in Accounts, AuctionInit(controller, gov)
    PROVE  AuctionInv
<1> USE DEF AuctionInit
<1>1. AuctionTypeOK
  BY AuctionConstants DEF AuctionTypeOK, Time
<1>2. Opened = {} /\ Unfinalized = {}
  BY DEF Opened, Unfinalized
<1>3. BookOK
  BY <1>2, AuctionIdType DEF BookOK
<1>4. LeadersAreHighest
  BY <1>2 DEF LeadersAreHighest
<1>5. ActiveIndexExact
  BY <1>2, AuctionIdType DEF ActiveIndexExact, EntryOK, PlaceOK
<1>6. OneOpenAuctionPerVault
  BY <1>2 DEF OneOpenAuctionPerVault
<1>7. QED
  BY <1>1, <1>3, <1>4, <1>5, <1>6 DEF AuctionInv

----------------------------------------------------------------------------
(* Roles, time, and the mark on a bid that has been paid out. *)

\* Nothing in the invariant depends on the roles or the time.
LEMMA RolesAndTimeKeepInv ==
    ASSUME AuctionInv, UNCHANGED <<bookVars, indexVars>>,
           now' \in Time, auction_controller' \in Accounts,
           auction_governance' \in Accounts, auction_admin' \in Accounts \cup {None}
    PROVE  AuctionInv'
<1>1. AuctionTypeOK'
  BY DEF AuctionInv, AuctionTypeOK, bookVars, indexVars
<1>2. BookOK'
  BY DEF AuctionInv, BookOK, bookVars, indexVars, Opened
<1>3. LeadersAreHighest'
  BY DEF AuctionInv, LeadersAreHighest, BidsCounted, BidInBounds, LeaderHoldsBid, bookVars, Opened,
         BidsOf
<1>4. ActiveIndexExact'
  BY DEF AuctionInv, ActiveIndexExact, EntryOK, PlaceOK, bookVars, indexVars, Opened, Unfinalized
<1>5. OneOpenAuctionPerVault'
  BY DEF AuctionInv, OneOpenAuctionPerVault, bookVars, indexVars, Opened, Unfinalized
<1>6. QED
  BY <1>1, <1>2, <1>3, <1>4, <1>5 DEF AuctionInv

\* Marking a bid as withdrawn changes neither its bidder nor its amount.
LEMMA PaidBidKeepsInv ==
    ASSUME AuctionInv, NEW a \in AuctionIds, NEW b \in BidIds, auction_bids[<<a, b>>] # None,
           auction_bids' = [auction_bids EXCEPT ![<<a, b>>].is_withdrawn = TRUE],
           UNCHANGED <<now, rolesVars, auction_count, auctions, auction_bidder_bids, indexVars>>
    PROVE  AuctionInv'
<1>1. auction_bids \in [AuctionIds \X BidIds -> BidRecord \cup {None}]
  BY DEF AuctionInv, AuctionTypeOK
<1>2. auction_bids' \in [AuctionIds \X BidIds -> BidRecord \cup {None}]
  BY <1>1 DEF BidRecord
<1>3. \A c \in AuctionIds, d \in BidIds :
        /\ auction_bids'[<<c, d>>] # None <=> auction_bids[<<c, d>>] # None
        /\ auction_bids[<<c, d>>] # None =>
              /\ auction_bids'[<<c, d>>].bidder = auction_bids[<<c, d>>].bidder
              /\ auction_bids'[<<c, d>>].amount = auction_bids[<<c, d>>].amount
  BY <1>1, <1>2, NoneAssumption DEF BidRecord
<1>4. AuctionTypeOK'
  BY <1>2 DEF AuctionInv, AuctionTypeOK, rolesVars, indexVars
<1>5. BookOK'
  <2>1. \A x \in AuctionIds \X Accounts : auction_bidder_bids[x] \in BidIds \cup {None}
    BY DEF AuctionInv, AuctionTypeOK
  <2>2. QED
    BY <1>3, <2>1 DEF AuctionInv, BookOK, indexVars, Opened
<1>6. LeadersAreHighest'
  <2> SUFFICES ASSUME NEW c \in Opened
               PROVE  /\ BidsCounted(c)'
                      /\ \A d \in BidsOf(c)' : BidInBounds(c, d)'
                      /\ LeaderHoldsBid(c)'
    BY DEF LeadersAreHighest, Opened
  <2>1. c \in AuctionIds /\ BidsOf(c)' = BidsOf(c) /\ BidsOf(c) \subseteq BidIds
    BY <1>3 DEF BidsOf, Opened
  <2>2. BidsCounted(c) /\ LeaderHoldsBid(c) /\ \A d \in BidsOf(c) : BidInBounds(c, d)
    BY DEF AuctionInv, LeadersAreHighest
  <2>3. \A d \in BidsOf(c) : /\ auction_bids'[<<c, d>>].bidder = auction_bids[<<c, d>>].bidder
                            /\ auction_bids'[<<c, d>>].amount = auction_bids[<<c, d>>].amount
    BY <1>3, <2>1 DEF BidsOf
  <2>4. BidsCounted(c)'
    BY <2>1, <2>2 DEF BidsCounted
  <2>5. \A d \in BidsOf(c)' : BidInBounds(c, d)'
    BY <2>1, <2>2, <2>3 DEF BidInBounds
  <2>6. LeaderHoldsBid(c)'
    BY <2>1, <2>2, <2>3 DEF LeaderHoldsBid
  <2>7. QED
    BY <2>4, <2>5, <2>6
<1>7. ActiveIndexExact'
  BY DEF AuctionInv, ActiveIndexExact, EntryOK, PlaceOK, indexVars, Opened, Unfinalized
<1>8. OneOpenAuctionPerVault'
  BY DEF AuctionInv, OneOpenAuctionPerVault, indexVars, Opened, Unfinalized
<1>9. QED
  BY <1>4, <1>5, <1>6, <1>7, <1>8 DEF AuctionInv

----------------------------------------------------------------------------
(* Finalization. *)

\* Only the finalized flag of an auction changes: its bids and leader stay.
LEMMA FinalizedRecord ==
    ASSUME AuctionInv, NEW a \in Opened,
           auctions' = [auctions EXCEPT ![a].is_finalized = TRUE]
    PROVE  /\ auctions' \in [AuctionIds -> AuctionRecord \cup {None}]
           /\ Opened' = Opened
           /\ Unfinalized' = Unfinalized \ {a}
           /\ \A c \in Opened :
                /\ auctions'[c].vault = auctions[c].vault
                /\ auctions'[c].min_bid = auctions[c].min_bid
                /\ auctions'[c].highest_bidder = auctions[c].highest_bidder
                /\ auctions'[c].highest_bid = auctions[c].highest_bid
                /\ auctions'[c].highest_bid_id = auctions[c].highest_bid_id
                /\ auctions'[c].bid_count = auctions[c].bid_count
<1>1. auctions \in [AuctionIds -> AuctionRecord \cup {None}] /\ a \in AuctionIds
  BY DEF AuctionInv, AuctionTypeOK, Opened
<1>2. auctions[a] \in AuctionRecord
  BY <1>1 DEF Opened
<1>3. /\ auctions'[a] = [auctions[a] EXCEPT !.is_finalized = TRUE]
      /\ auctions'[a] \in AuctionRecord
      /\ \A c \in AuctionIds : c # a => auctions'[c] = auctions[c]
  BY <1>1, <1>2 DEF AuctionRecord
<1>4. auctions' \in [AuctionIds -> AuctionRecord \cup {None}]
  BY <1>1, <1>3
<1>5. Opened' = Opened
  BY <1>1, <1>2, <1>3, NoneAssumption DEF Opened
<1>6. auctions'[a].is_finalized
  BY <1>2, <1>3 DEF AuctionRecord
<1>7. Unfinalized' = Unfinalized \ {a}
  BY <1>3, <1>5, <1>6 DEF Unfinalized, Opened
<1>8. QED
  BY <1>2, <1>3, <1>4, <1>5, <1>7 DEF AuctionRecord, Opened

\* remove_active_auction leaves an exact index, whichever entry it removes: the
\* last one, the only one or one in the middle.
LEMMA RemoveKeepsIndex ==
    ASSUME AuctionInv, NEW a \in Unfinalized, RemoveActiveAuction(a),
           Unfinalized' = Unfinalized \ {a}
    PROVE  /\ ActiveIndexExact'
           /\ active_auctions' \in [AuctionIds -> AuctionIds \cup {None}]
           /\ active_auction_indices' \in [AuctionIds -> AuctionIds \cup {None}]
           /\ active_auction_count' = active_auction_count - 1
           /\ active_auction_count > 0
<1> DEFINE index == active_auction_indices[a]
           last == active_auction_count - 1
           moved == active_auctions[last]
<1>1. /\ active_auctions \in [AuctionIds -> AuctionIds \cup {None}]
      /\ active_auction_indices \in [AuctionIds -> AuctionIds \cup {None}]
      /\ active_auction_count \in 0 .. MaxAuctions
      /\ Unfinalized \subseteq AuctionIds
  BY DEF AuctionInv, AuctionTypeOK, Unfinalized, Opened
<1>2. \A i \in AuctionIds : EntryOK(i) /\ PlaceOK(i)
  BY DEF AuctionInv, ActiveIndexExact
<1>3. index \in 0 .. last /\ active_auctions[index] = a /\ index \in AuctionIds
  BY <1>1, <1>2, AuctionConstants DEF PlaceOK, AuctionIds
<1>4. last \in AuctionIds /\ last \in Nat /\ last < active_auction_count
  BY <1>1, <1>3, AuctionConstants DEF AuctionIds
<1>5. moved \in Unfinalized /\ active_auction_indices[moved] = last
  BY <1>2, <1>4 DEF EntryOK
<1>6. /\ active_auction_count' = last
      /\ active_auctions' = [[active_auctions EXCEPT ![index] = moved] EXCEPT ![last] = None]
      /\ active_auction_indices' =
            [[active_auction_indices EXCEPT ![moved] = index] EXCEPT ![a] = None]
  BY DEF RemoveActiveAuction
<1>7. \A i \in AuctionIds : active_auctions'[i] =
        IF i = last THEN None ELSE IF i = index THEN moved ELSE active_auctions[i]
  BY <1>1, <1>6
<1>8. \A c \in AuctionIds : active_auction_indices'[c] =
        IF c = a THEN None ELSE IF c = moved THEN index ELSE active_auction_indices[c]
  BY <1>1, <1>6
<1>9. /\ active_auctions' \in [AuctionIds -> AuctionIds \cup {None}]
      /\ active_auction_indices' \in [AuctionIds -> AuctionIds \cup {None}]
  BY <1>1, <1>3, <1>5, <1>6
<1>10. ASSUME NEW i \in AuctionIds PROVE EntryOK(i)'
  <2>1. CASE i < last
    <3>1. i \in Nat /\ i < active_auction_count /\ i # last
      BY <2>1, <1>1, AuctionIdType
    <3>2. active_auctions[i] \in Unfinalized /\ active_auction_indices[active_auctions[i]] = i
      BY <3>1, <1>2 DEF EntryOK
    <3>3. CASE i = index
      <4>1. moved # a
        BY <3>1, <3>3, <1>5
      <4>2. QED
        BY <2>1, <3>1, <3>3, <4>1, <1>5, <1>6, <1>7, <1>8, <1>1 DEF EntryOK
    <3>4. CASE i # index
      <4>1. active_auctions[i] # a /\ active_auctions[i] # moved
        BY <3>1, <3>2, <3>4, <1>5
      <4>2. QED
        BY <2>1, <3>1, <3>2, <3>4, <4>1, <1>6, <1>7, <1>8, <1>1 DEF EntryOK
    <3>5. QED
      BY <3>3, <3>4
  <2>2. CASE ~(i < last)
    <3>1. i = last \/ active_auctions[i] = None
      BY <2>2, <1>1, <1>2, <1>3, AuctionIdType DEF EntryOK
    <3>2. active_auctions'[i] = None
      BY <3>1, <2>2, <1>1, <1>3, <1>7, AuctionIdType
    <3>3. QED
      BY <3>2, <2>2, <1>6 DEF EntryOK
  <2>3. QED
    BY <2>1, <2>2
<1>11. ASSUME NEW c \in AuctionIds PROVE PlaceOK(c)'
  <2>1. CASE c \in Unfinalized'
    <3>1. c \in Unfinalized /\ c # a
      BY <2>1
    <3>2. active_auction_indices[c] \in 0 .. last /\ active_auctions[active_auction_indices[c]] = c
      BY <3>1, <1>2 DEF PlaceOK
    <3>3. CASE c = moved
      <4>1. index # last
        BY <3>1, <3>3, <1>3
      <4>2. QED
        <5>1. active_auction_indices'[c] = index /\ active_auctions'[index] = c
          BY <3>1, <3>3, <4>1, <1>3, <1>7, <1>8
        <5>2. index \in 0 .. last - 1
          BY <4>1, <1>3, <1>4
        <5>3. QED
          BY <2>1, <5>1, <5>2, <1>6 DEF PlaceOK
    <3>4. CASE c # moved
      <4>1. /\ active_auction_indices[c] \in AuctionIds
            /\ active_auction_indices[c] # last
            /\ active_auction_indices[c] # index
        BY <3>1, <3>2, <3>4, <1>1, <1>3, AuctionConstants DEF AuctionIds
      <4>2. active_auction_indices'[c] = active_auction_indices[c]
        BY <3>1, <3>4, <1>8
      <4>3. active_auctions'[active_auction_indices[c]] = c
        BY <4>1, <3>2, <1>7
      <4>4. active_auction_indices[c] \in 0 .. last - 1
        BY <4>1, <3>2, <1>4
      <4>5. QED
        BY <2>1, <4>2, <4>3, <4>4, <1>6 DEF PlaceOK
    <3>5. QED
      BY <3>3, <3>4
  <2>2. CASE c \notin Unfinalized'
    <3>1. c = a \/ (c \notin Unfinalized /\ c # moved)
      BY <2>2, <1>5
    <3>2. active_auction_indices'[c] = None
      BY <3>1, <1>2, <1>8 DEF PlaceOK
    <3>3. QED
      BY <2>2, <3>2 DEF PlaceOK
  <2>3. QED
    BY <2>1, <2>2
<1>12. QED
  BY <1>1, <1>4, <1>6, <1>9, <1>10, <1>11, AuctionIdType DEF ActiveIndexExact

LEMMA FinalizeKeepsInv ==
    ASSUME AuctionInv, NEW a \in AuctionIds, FinalizeAuction(a)
    PROVE  AuctionInv'
<1>1. a \in Unfinalized /\ a \in Opened
  BY DEF FinalizeAuction, Unfinalized, Opened
<1>2. /\ auctions' = [auctions EXCEPT ![a].is_finalized = TRUE]
      /\ active_vault_auction' = [active_vault_auction EXCEPT ![auctions[a].vault] = None]
      /\ RemoveActiveAuction(a)
      /\ UNCHANGED <<now, rolesVars, auction_count, auction_bids, auction_bidder_bids>>
  BY DEF FinalizeAuction
<1>3. /\ auctions' \in [AuctionIds -> AuctionRecord \cup {None}]
      /\ Opened' = Opened
      /\ Unfinalized' = Unfinalized \ {a}
      /\ \A c \in Opened :
           /\ auctions'[c].vault = auctions[c].vault
           /\ auctions'[c].min_bid = auctions[c].min_bid
           /\ auctions'[c].highest_bidder = auctions[c].highest_bidder
           /\ auctions'[c].highest_bid = auctions[c].highest_bid
           /\ auctions'[c].highest_bid_id = auctions[c].highest_bid_id
           /\ auctions'[c].bid_count = auctions[c].bid_count
  BY <1>1, <1>2, FinalizedRecord
<1>4. /\ ActiveIndexExact'
      /\ active_auctions' \in [AuctionIds -> AuctionIds \cup {None}]
      /\ active_auction_indices' \in [AuctionIds -> AuctionIds \cup {None}]
      /\ active_auction_count' = active_auction_count - 1
      /\ active_auction_count > 0
  BY <1>1, <1>2, <1>3, RemoveKeepsIndex
<1>5. AuctionTypeOK
  BY DEF AuctionInv
<1>6. active_vault_auction' \in [VaultKeys -> AuctionIds \cup {None}]
  BY <1>2, <1>5 DEF AuctionTypeOK
<1>7. AuctionTypeOK'
  <2>1. active_auction_count' \in 0 .. MaxAuctions
    BY <1>4, <1>5, AuctionConstants DEF AuctionTypeOK
  <2>2. QED
    BY <1>2, <1>3, <1>4, <1>5, <1>6, <2>1 DEF AuctionTypeOK, rolesVars
<1>8. BookOK'
  <2>1. active_auction_count' <= auction_count'
    BY <1>2, <1>4, <1>5, AuctionConstants DEF AuctionInv, BookOK, AuctionTypeOK
  <2>2. \A c \in AuctionIds : auctions'[c] # None <=> auctions[c] # None
    BY <1>3 DEF Opened
  <2>3. QED
    BY <1>2, <1>3, <2>1, <2>2 DEF AuctionInv, BookOK
<1>9. LeadersAreHighest'
  <2>1. \A c \in AuctionIds : BidsOf(c)' = BidsOf(c)
    BY <1>2 DEF BidsOf
  <2>2. Opened \subseteq AuctionIds
    BY DEF Opened
  <2>3. QED
    BY <1>2, <1>3, <2>1, <2>2 DEF AuctionInv, LeadersAreHighest, BidsCounted, BidInBounds,
                                  LeaderHoldsBid
<1>10. OneOpenAuctionPerVault'
  <2>1. OneOpenAuctionPerVault
    BY DEF AuctionInv
  <2>2. active_vault_auction \in [VaultKeys -> AuctionIds \cup {None}]
    BY <1>5 DEF AuctionTypeOK
  <2>3. \A c \in Unfinalized : c \in Opened /\ c \in AuctionIds /\ auctions[c].vault \in VaultKeys
    BY <1>5 DEF Unfinalized, Opened, AuctionTypeOK, AuctionRecord
  <2>4. \A key \in VaultKeys : active_vault_auction'[key] =
          IF key = auctions[a].vault THEN None ELSE active_vault_auction[key]
    BY <1>2, <2>2
  <2>5. active_vault_auction[auctions[a].vault] = a
    BY <1>1, <2>1 DEF OneOpenAuctionPerVault
  <2>6. ASSUME NEW c \in Unfinalized' PROVE active_vault_auction'[auctions'[c].vault] = c
    <3>1. c \in Unfinalized /\ c # a /\ auctions'[c].vault = auctions[c].vault
      BY <1>3, <2>3
    <3>2. active_vault_auction[auctions[c].vault] = c
      BY <3>1, <2>1 DEF OneOpenAuctionPerVault
    <3>3. QED
      BY <3>1, <3>2, <2>3, <2>4, <2>5
  <2>7. ASSUME NEW key \in VaultKeys, active_vault_auction'[key] # None
        PROVE  /\ active_vault_auction'[key] \in Unfinalized'
               /\ auctions'[active_vault_auction'[key]].vault = key
    <3>1. key # auctions[a].vault /\ active_vault_auction'[key] = active_vault_auction[key]
      BY <2>4, <2>7
    <3>2. active_vault_auction[key] \in Unfinalized /\ auctions[active_vault_auction[key]].vault = key
      BY <3>1, <2>1, <2>7 DEF OneOpenAuctionPerVault
    <3>3. QED
      BY <3>1, <3>2, <1>3, <2>3
  <2>8. QED
    BY <2>6, <2>7 DEF OneOpenAuctionPerVault
<1>11. QED
  BY <1>4, <1>7, <1>8, <1>9, <1>10 DEF AuctionInv

----------------------------------------------------------------------------
(* Creation. *)

\* create_auction adds an auction without bids and leaves every other alone.
LEMMA CreatedRecord ==
    ASSUME AuctionInv, NEW caller, NEW vault \in VaultKeys, NEW collateral \in Balance,
           NEW debt \in Balance, NEW min_bid \in Balance, NEW duration \in Nat,
           CreateAuction(caller, vault, collateral, debt, min_bid, duration)
    PROVE  /\ auction_count \in AuctionIds
           /\ auction_count \notin Opened
           /\ auctions' \in [AuctionIds -> AuctionRecord \cup {None}]
           /\ Opened' = Opened \cup {auction_count}
           /\ Unfinalized' = Unfinalized \cup {auction_count}
           /\ \A c \in Opened : auctions'[c] = auctions[c]
           /\ auctions'[auction_count] =
                [vault |-> vault, collateral_balance |-> collateral,
                 debt_balance |-> debt, min_bid |-> min_bid,
                 ends_at |-> now + duration,
                 highest_bidder |-> None, highest_bid |-> 0, highest_bid_id |-> None,
                 bid_count |-> 0, is_finalized |-> FALSE]
<1> DEFINE new == [vault |-> vault, collateral_balance |-> collateral,
                   debt_balance |-> debt, min_bid |-> min_bid,
                   ends_at |-> now + duration,
                   highest_bidder |-> None, highest_bid |-> 0, highest_bid_id |-> None,
                   bid_count |-> 0, is_finalized |-> FALSE]
<1>1. /\ auctions \in [AuctionIds -> AuctionRecord \cup {None}]
      /\ auction_count \in 0 .. MaxAuctions
      /\ now \in Nat
  BY AuctionConstants DEF AuctionInv, AuctionTypeOK, Time
<1>2. auction_count < MaxAuctions /\ auctions' = [auctions EXCEPT ![auction_count] = new]
  BY DEF CreateAuction
<1>3. auction_count \in AuctionIds
  BY <1>1, <1>2, AuctionConstants DEF AuctionIds
<1>4. auction_count \notin Opened
  BY <1>1, <1>3 DEF AuctionInv, BookOK, Opened
<1>5. new \in AuctionRecord
  BY <1>1, AuctionConstants, MaxBalanceAssumption DEF AuctionRecord, Balance
<1>6. \A c \in AuctionIds : auctions'[c] = IF c = auction_count THEN new ELSE auctions[c]
  BY <1>1, <1>2
<1>7. Opened' = Opened \cup {auction_count}
  BY <1>3, <1>5, <1>6, NoneAssumption DEF Opened
<1>8. Unfinalized' = Unfinalized \cup {auction_count}
  BY <1>3, <1>4, <1>6, <1>7 DEF Unfinalized, Opened
<1>9. QED
  BY <1>1, <1>2, <1>3, <1>4, <1>5, <1>6, <1>7, <1>8 DEF Opened

LEMMA CreateKeepsInv ==
    ASSUME AuctionInv, NEW caller, NEW vault \in VaultKeys, NEW collateral \in Balance,
           NEW debt \in Balance, NEW min_bid \in Balance, min_bid > 0, NEW duration \in Nat,
           CreateAuction(caller, vault, collateral, debt, min_bid, duration)
    PROVE  AuctionInv'
<1>a. auction_count \in AuctionIds
  BY CreatedRecord
<1> PICK n \in AuctionIds : n = auction_count
  BY <1>a
<1> DEFINE m == active_auction_count
<1>1. /\ n \in AuctionIds
      /\ n \notin Opened
      /\ auctions' \in [AuctionIds -> AuctionRecord \cup {None}]
      /\ Opened' = Opened \cup {n}
      /\ Unfinalized' = Unfinalized \cup {n}
      /\ \A c \in Opened : auctions'[c] = auctions[c]
      /\ auctions'[n] =
           [vault |-> vault, collateral_balance |-> collateral,
            debt_balance |-> debt, min_bid |-> min_bid,
            ends_at |-> now + duration,
            highest_bidder |-> None, highest_bid |-> 0, highest_bid_id |-> None,
            bid_count |-> 0, is_finalized |-> FALSE]
  BY CreatedRecord
<1>0. /\ auctions'[n].vault = vault
      /\ auctions'[n].min_bid = min_bid
      /\ auctions'[n].highest_bidder = None
      /\ auctions'[n].highest_bid = 0
      /\ auctions'[n].highest_bid_id = None
      /\ auctions'[n].bid_count = 0
  BY <1>1
<1>2. /\ VaultIsFree(vault)
      /\ active_auctions' = [active_auctions EXCEPT ![m] = n]
      /\ active_auction_indices' = [active_auction_indices EXCEPT ![n] = m]
      /\ active_auction_count' = m + 1
      /\ active_vault_auction' = [active_vault_auction EXCEPT ![vault] = n]
      /\ auction_count' = n + 1
      /\ UNCHANGED <<now, rolesVars, auction_bids, auction_bidder_bids>>
  BY DEF CreateAuction
<1>3. AuctionTypeOK /\ BookOK /\ Opened \subseteq AuctionIds /\ Unfinalized \subseteq Opened
  BY DEF AuctionInv, Opened, Unfinalized
<1>4. /\ n \in Nat /\ m \in Nat /\ m <= n /\ n < MaxAuctions /\ m \in AuctionIds
  BY <1>1, <1>3, AuctionConstants DEF AuctionTypeOK, BookOK, AuctionIds
<1>5. AuctionTypeOK'
  <2>1. auction_count' \in 0 .. MaxAuctions /\ active_auction_count' \in 0 .. MaxAuctions
    BY <1>2, <1>4, AuctionConstants
  <2>2. active_vault_auction' \in [VaultKeys -> AuctionIds \cup {None}]
    BY <1>1, <1>2, <1>3 DEF AuctionTypeOK
  <2>3. /\ active_auctions' \in [AuctionIds -> AuctionIds \cup {None}]
        /\ active_auction_indices' \in [AuctionIds -> AuctionIds \cup {None}]
    BY <1>1, <1>2, <1>3, <1>4 DEF AuctionTypeOK
  <2>4. QED
    BY <1>1, <1>2, <1>3, <2>1, <2>2, <2>3 DEF AuctionTypeOK, rolesVars
<1>6. \A c \in AuctionIds : c < n + 1 <=> (c < n \/ c = n)
  BY <1>4, AuctionIdType
<1>7. BookOK'
  <2>1. active_auction_count' <= auction_count'
    BY <1>2, <1>4
  <2>2. \A c \in AuctionIds : auctions'[c] # None <=> c < auction_count'
    <3>1. \A c \in AuctionIds : (c \in Opened' <=> auctions'[c] # None) /\ (c \in Opened <=> c < n)
      BY <1>3 DEF Opened, BookOK
    <3>2. QED
      BY <3>1, <1>1, <1>2, <1>6
  <2>3. \A c \in AuctionIds, b \in BidIds : auction_bids'[<<c, b>>] # None => c < auction_count'
    BY <1>2, <1>3, <1>6 DEF BookOK
  <2>4. \A c \in Opened' :
          /\ auctions'[c].min_bid > 0
          /\ auctions'[c].bid_count = 0 => auctions'[c].highest_bid = 0
    BY <1>0, <1>1, <1>3 DEF BookOK
  <2>5. QED
    BY <1>2, <1>3, <2>1, <2>2, <2>3, <2>4 DEF BookOK
<1>8. LeadersAreHighest'
  <2>1. \A c \in AuctionIds : BidsOf(c)' = BidsOf(c)
    BY <1>2 DEF BidsOf
  <2>2. BidsOf(n) = {}
    BY <1>1, <1>3, <1>4 DEF BidsOf, BookOK
  <2>3. BidsCounted(n)' /\ LeaderHoldsBid(n)'
    <3>1. 0 .. 0 - 1 = {}
      OBVIOUS
    <3>2. BidsOf(n)' = {}
      BY <1>1, <2>1, <2>2
    <3>3. BidsCounted(n)'
      BY <1>0, <3>1, <3>2 DEF BidsCounted
    <3>4. QED
      BY <1>0, <3>3 DEF LeaderHoldsBid
  <2>4. \A c \in Opened :
          /\ BidsCounted(c)'
          /\ \A b \in BidsOf(c)' : BidInBounds(c, b)'
          /\ LeaderHoldsBid(c)'
    <3> SUFFICES ASSUME NEW c \in Opened
                 PROVE  /\ BidsCounted(c)'
                        /\ \A b \in BidsOf(c)' : BidInBounds(c, b)'
                        /\ LeaderHoldsBid(c)'
      OBVIOUS
    <3>1. /\ auctions'[c] = auctions[c]
          /\ auction_bids' = auction_bids
          /\ auction_bidder_bids' = auction_bidder_bids
          /\ BidsOf(c)' = BidsOf(c)
      BY <1>1, <1>2, <1>3, <2>1
    <3>2. BidsCounted(c) /\ LeaderHoldsBid(c) /\ \A b \in BidsOf(c) : BidInBounds(c, b)
      BY DEF AuctionInv, LeadersAreHighest
    <3>3. QED
      BY <3>1, <3>2 DEF BidsCounted, BidInBounds, LeaderHoldsBid
  <2>5. QED
    BY <1>1, <1>3, <2>1, <2>2, <2>3, <2>4 DEF LeadersAreHighest
<1>9. ActiveIndexExact'
  <2>1. \A i \in AuctionIds : EntryOK(i) /\ PlaceOK(i)
    BY DEF AuctionInv, ActiveIndexExact
  <2>2. \A i \in AuctionIds :
          /\ active_auctions'[i] = IF i = m THEN n ELSE active_auctions[i]
          /\ active_auction_indices'[i] = IF i = n THEN m ELSE active_auction_indices[i]
    BY <1>1, <1>2, <1>3, <1>4 DEF AuctionTypeOK
  <2>3. ASSUME NEW i \in AuctionIds PROVE EntryOK(i)'
    <3>1. i \in Nat /\ (i < m + 1 <=> (i < m \/ i = m)) /\ ~(m < m)
      BY <1>4, AuctionIdType
    <3>2. CASE i = m
      BY <3>1, <3>2, <1>1, <1>2, <1>4, <2>2 DEF EntryOK
    <3>3. CASE i # m /\ i < m
      <4>1. active_auctions[i] \in Unfinalized /\ active_auction_indices[active_auctions[i]] = i
        BY <3>3, <2>1 DEF EntryOK
      <4>2. active_auctions[i] # n /\ active_auctions[i] \in AuctionIds
        BY <4>1, <1>1, <1>3
      <4>3. QED
        BY <3>1, <3>3, <4>1, <4>2, <1>1, <1>2, <2>2 DEF EntryOK
    <3>4. CASE i # m /\ ~(i < m)
      BY <3>1, <3>4, <1>2, <2>1, <2>2 DEF EntryOK
    <3>5. QED
      BY <3>2, <3>3, <3>4
  <2>4. ASSUME NEW c \in AuctionIds PROVE PlaceOK(c)'
    <3>1. CASE c = n
      BY <3>1, <1>1, <1>2, <1>4, <2>2 DEF PlaceOK
    <3>2. CASE c # n /\ c \in Unfinalized
      <4>1. active_auction_indices[c] \in 0 .. m - 1 /\ active_auctions[active_auction_indices[c]] = c
        BY <3>2, <2>1 DEF PlaceOK
      <4>2. /\ active_auction_indices[c] \in AuctionIds
            /\ active_auction_indices[c] # m
            /\ active_auction_indices[c] \in 0 .. (m + 1) - 1
        BY <4>1, <1>4, AuctionConstants DEF AuctionIds
      <4>3. QED
        BY <3>2, <4>1, <4>2, <1>1, <1>2, <2>2 DEF PlaceOK
    <3>3. CASE c # n /\ c \notin Unfinalized
      BY <3>3, <1>1, <2>1, <2>2 DEF PlaceOK
    <3>4. QED
      BY <3>1, <3>2, <3>3
  <2>5. QED
    BY <2>3, <2>4 DEF ActiveIndexExact
<1>10. OneOpenAuctionPerVault'
  <2>1. OneOpenAuctionPerVault /\ active_vault_auction[vault] = None
    BY <1>2 DEF AuctionInv, VaultIsFree
  <2>2. \A key \in VaultKeys : active_vault_auction'[key] =
          IF key = vault THEN n ELSE active_vault_auction[key]
    BY <1>2, <1>3 DEF AuctionTypeOK
  <2>3. \A c \in Unfinalized : c \in Opened /\ c \in AuctionIds /\ auctions[c].vault \in VaultKeys
    BY <1>3 DEF Opened, AuctionTypeOK, AuctionRecord
  <2>4. ASSUME NEW c \in Unfinalized' PROVE active_vault_auction'[auctions'[c].vault] = c
    <3>1. CASE c = n
      BY <3>1, <1>0, <1>1, <2>2
    <3>2. CASE c # n
      <4>1. c \in Unfinalized /\ auctions'[c].vault = auctions[c].vault
        BY <3>2, <1>1, <2>3
      <4>2. active_vault_auction[auctions[c].vault] = c /\ c # None
        BY <4>1, <2>1, <2>3, NoneAssumption DEF OneOpenAuctionPerVault
      <4>3. QED
        BY <4>1, <4>2, <2>1, <2>2, <2>3
    <3>3. QED
      BY <3>1, <3>2
  <2>5. ASSUME NEW key \in VaultKeys, active_vault_auction'[key] # None
        PROVE  /\ active_vault_auction'[key] \in Unfinalized'
               /\ auctions'[active_vault_auction'[key]].vault = key
    BY <2>5, <1>0, <1>1, <2>1, <2>2, <2>3 DEF OneOpenAuctionPerVault
  <2>6. QED
    BY <2>4, <2>5 DEF OneOpenAuctionPerVault
<1>11. QED
  BY <1>5, <1>7, <1>8, <1>9, <1>10 DEF AuctionInv

----------------------------------------------------------------------------
(* Bidding. *)

\* A bid changes at most the three fields of the leader, and only upwards.
LEMMA LeadingRecord ==
    ASSUME NEW rec \in AuctionRecord, NEW x \in Accounts, NEW b \in BidIds, NEW amount \in Balance
    PROVE  LET new == Leading(rec, x, b, amount)
           IN  /\ new \in AuctionRecord
               /\ new.vault = rec.vault
               /\ new.min_bid = rec.min_bid
               /\ new.debt_balance = rec.debt_balance
               /\ new.collateral_balance = rec.collateral_balance
               /\ new.bid_count = rec.bid_count
               /\ new.is_finalized = rec.is_finalized
               /\ IF amount > rec.highest_bid
                  THEN new.highest_bidder = x /\ new.highest_bid = amount /\ new.highest_bid_id = b
                  ELSE /\ new.highest_bidder = rec.highest_bidder
                       /\ new.highest_bid = rec.highest_bid
                       /\ new.highest_bid_id = rec.highest_bid_id
  BY DEF Leading, AuctionRecord

\* The invariant after a bid, from what the bid did to the one auction it is on:
\* its record and bids satisfy LeadersAreHighest and nothing else has changed.
LEMMA BidKeepsInv ==
    ASSUME AuctionInv, NEW a \in Opened, NEW rec \in AuctionRecord,
           NEW x \in Accounts, NEW b \in BidIds, NEW bid \in BidRecord, bid.bidder = x,
           rec.vault = auctions[a].vault, rec.is_finalized = auctions[a].is_finalized,
           rec.min_bid = auctions[a].min_bid, rec.bid_count > 0,
           auctions' = [auctions EXCEPT ![a] = rec],
           auction_bids' = [auction_bids EXCEPT ![<<a, b>>] = bid],
           auction_bidder_bids' = [auction_bidder_bids EXCEPT ![<<a, x>>] = b],
           auction_bids[<<a, b>>] # None => auction_bids[<<a, b>>].bidder = x,
           BidsCounted(a)', \A d \in BidsOf(a)' : BidInBounds(a, d)', LeaderHoldsBid(a)',
           UNCHANGED <<now, rolesVars, auction_count, indexVars>>
    PROVE  AuctionInv'
<1>1. AuctionTypeOK /\ BookOK /\ a \in AuctionIds
  BY DEF AuctionInv, Opened
<1>2. AuctionTypeOK'
  <2>1. /\ auctions' \in [AuctionIds -> AuctionRecord \cup {None}]
        /\ auction_bids' \in [AuctionIds \X BidIds -> BidRecord \cup {None}]
        /\ auction_bidder_bids' \in [AuctionIds \X Accounts -> BidIds \cup {None}]
    BY <1>1 DEF AuctionTypeOK
  <2>2. QED
    BY <1>1, <2>1 DEF AuctionTypeOK, rolesVars, indexVars
<1>3. \A c \in AuctionIds : auctions'[c] = IF c = a THEN rec ELSE auctions[c]
  BY <1>1 DEF AuctionTypeOK
<1>4. \A c \in AuctionIds, d \in BidIds :
        auction_bids'[<<c, d>>] = IF c = a /\ d = b THEN bid ELSE auction_bids[<<c, d>>]
  BY <1>1 DEF AuctionTypeOK
<1>5. \A c \in AuctionIds, y \in Accounts :
        auction_bidder_bids'[<<c, y>>] =
          IF c = a /\ y = x THEN b ELSE auction_bidder_bids[<<c, y>>]
  BY <1>1 DEF AuctionTypeOK
<1>6. Opened' = Opened /\ rec # None /\ bid # None
  BY <1>1, <1>3, NoneAssumption DEF Opened
<1>7. Unfinalized' = Unfinalized
  BY <1>3, <1>6 DEF Unfinalized, Opened
<1>8. \A c \in Opened : auctions'[c].vault = auctions[c].vault
  BY <1>3 DEF Opened
<1>9. BookOK'
  <2>1. \A c \in AuctionIds : auctions'[c] # None <=> c < auction_count'
    BY <1>1, <1>3, <1>6 DEF BookOK, Opened
  <2>2. \A c \in AuctionIds, d \in BidIds : auction_bids'[<<c, d>>] # None => c < auction_count'
    BY <1>1, <1>4 DEF BookOK, Opened
  <2>3. \A c \in Opened' : /\ auctions'[c].min_bid > 0
                           /\ auctions'[c].bid_count = 0 => auctions'[c].highest_bid = 0
    <3>1. rec.bid_count # 0
      OBVIOUS
    <3>2. QED
      BY <1>1, <1>3, <1>6, <3>1 DEF BookOK, Opened
  <2>4. ASSUME NEW c \in AuctionIds, NEW y \in Accounts, auction_bidder_bids'[<<c, y>>] # None
        PROVE  LET d == auction_bidder_bids'[<<c, y>>]
               IN  auction_bids'[<<c, d>>] # None /\ auction_bids'[<<c, d>>].bidder = y
    <3>1. CASE c = a /\ y = x
      BY <3>1, <1>4, <1>5, <1>6
    <3>2. CASE ~(c = a /\ y = x)
      <4> DEFINE d == auction_bidder_bids[<<c, y>>]
      <4>1. auction_bidder_bids'[<<c, y>>] = d /\ d # None
        BY <3>2, <2>4, <1>5
      <4>2. d \in BidIds
        BY <4>1, <1>1 DEF AuctionTypeOK
      <4>3. auction_bids[<<c, d>>] # None /\ auction_bids[<<c, d>>].bidder = y
        BY <4>1, <1>1 DEF BookOK
      <4>4. ~(c = a /\ d = b)
        BY <4>3, <3>2
      <4>5. auction_bids'[<<c, d>>] = auction_bids[<<c, d>>]
        BY <4>2, <4>4, <1>4
      <4>6. QED
        BY <4>1, <4>3, <4>5
    <3>3. QED
      BY <3>1, <3>2
  <2>5. active_auction_count' <= auction_count'
    BY <1>1 DEF BookOK, indexVars
  <2>6. QED
    BY <2>1, <2>2, <2>3, <2>4, <2>5 DEF BookOK
<1>10. LeadersAreHighest'
  <2> SUFFICES ASSUME NEW c \in Opened, c # a
               PROVE  /\ BidsCounted(c)'
                      /\ \A d \in BidsOf(c)' : BidInBounds(c, d)'
                      /\ LeaderHoldsBid(c)'
    BY <1>6 DEF LeadersAreHighest
  <2>1. c \in AuctionIds /\ auctions'[c] = auctions[c]
    BY <1>3 DEF Opened
  <2>2. \A d \in BidIds : auction_bids'[<<c, d>>] = auction_bids[<<c, d>>]
    BY <2>1, <1>4
  <2>3. \A y \in Accounts : auction_bidder_bids'[<<c, y>>] = auction_bidder_bids[<<c, y>>]
    BY <2>1, <1>5
  <2>4. BidsOf(c)' = BidsOf(c) /\ BidsOf(c) \subseteq BidIds
    BY <2>2 DEF BidsOf
  <2>5. \A d \in BidsOf(c) : auction_bids[<<c, d>>].bidder \in Accounts
    BY <1>1, <2>1 DEF BidsOf, AuctionTypeOK, BidRecord
  <2>6. BidsCounted(c) /\ LeaderHoldsBid(c) /\ \A d \in BidsOf(c) : BidInBounds(c, d)
    BY DEF AuctionInv, LeadersAreHighest
  <2>7. BidsCounted(c)'
    BY <2>1, <2>4, <2>6 DEF BidsCounted
  <2>8. ASSUME NEW d \in BidsOf(c) PROVE BidInBounds(c, d)'
    BY <2>1, <2>2, <2>3, <2>4, <2>5, <2>6 DEF BidInBounds
  <2>9. LeaderHoldsBid(c)'
    BY <2>1, <2>2, <2>4, <2>6 DEF LeaderHoldsBid
  <2>10. QED
    BY <2>4, <2>7, <2>8, <2>9
<1>11. ActiveIndexExact'
  BY <1>7 DEF AuctionInv, ActiveIndexExact, EntryOK, PlaceOK, indexVars
<1>12. OneOpenAuctionPerVault'
  <2>1. Unfinalized \subseteq Opened
    BY DEF Unfinalized
  <2>2. QED
    BY <1>7, <1>8, <2>1 DEF AuctionInv, OneOpenAuctionPerVault, indexVars
<1>13. QED
  BY <1>2, <1>9, <1>10, <1>11, <1>12 DEF AuctionInv

LEMMA NewBidKeepsInv ==
    ASSUME AuctionInv, NEW x \in Accounts, NEW a \in Opened, NEW amount \in Balance,
           amount >= auctions[a].min_bid, NewBid(x, a, amount),
           UNCHANGED <<now, rolesVars, auction_count, indexVars>>
    PROVE  AuctionInv'
<1>1. /\ AuctionTypeOK
      /\ BookOK
      /\ a \in AuctionIds
      /\ auctions[a] \in AuctionRecord
  BY DEF AuctionInv, AuctionTypeOK, Opened
<1>2. BidsCounted(a) /\ LeaderHoldsBid(a) /\ \A d \in BidsOf(a) : BidInBounds(a, d)
  BY DEF AuctionInv, LeadersAreHighest
<1>3. auctions[a].bid_count \in BidIds /\ auctions[a].bid_count \in 0 .. MaxBids
  BY <1>1, AuctionConstants DEF NewBid, AuctionRecord, BidIds
<1> PICK b \in BidIds : b = auctions[a].bid_count
  BY <1>3
<1> DEFINE counted == [auctions[a] EXCEPT !.bid_count = @ + 1]
           rec == Leading(counted, x, b, amount)
           bid == [bidder |-> x, amount |-> amount, is_withdrawn |-> FALSE]
<1>4. /\ b \in Nat /\ b + 1 \in 0 .. MaxBids
      /\ auction_bidder_bids[<<a, x>>] = None
      /\ auction_bids' = [auction_bids EXCEPT ![<<a, b>>] = bid]
      /\ auction_bidder_bids' = [auction_bidder_bids EXCEPT ![<<a, x>>] = b]
      /\ auctions' = [auctions EXCEPT ![a] = rec]
  BY <1>3, AuctionConstants DEF NewBid, BidIds
<1>5. /\ counted \in AuctionRecord
      /\ counted.vault = auctions[a].vault
      /\ counted.min_bid = auctions[a].min_bid
      /\ counted.bid_count = b + 1
      /\ counted.is_finalized = auctions[a].is_finalized
      /\ counted.highest_bidder = auctions[a].highest_bidder
      /\ counted.highest_bid = auctions[a].highest_bid
      /\ counted.highest_bid_id = auctions[a].highest_bid_id
  BY <1>1, <1>4 DEF AuctionRecord
<1> HIDE DEF counted
<1>6. /\ rec \in AuctionRecord
      /\ rec.vault = auctions[a].vault
      /\ rec.min_bid = auctions[a].min_bid
      /\ rec.bid_count = b + 1
      /\ rec.is_finalized = auctions[a].is_finalized
      /\ IF amount > auctions[a].highest_bid
         THEN rec.highest_bidder = x /\ rec.highest_bid = amount /\ rec.highest_bid_id = b
         ELSE /\ rec.highest_bidder = auctions[a].highest_bidder
              /\ rec.highest_bid = auctions[a].highest_bid
              /\ rec.highest_bid_id = auctions[a].highest_bid_id
  BY <1>5, LeadingRecord
<1> HIDE DEF rec
<1>7. bid \in BidRecord /\ bid.bidder = x /\ bid.amount = amount
  BY DEF BidRecord
<1> HIDE DEF bid
<1>8. b \notin BidsOf(a) /\ auction_bids[<<a, b>>] = None
  BY <1>2, <1>4 DEF BidsCounted, BidsOf
<1>9. /\ auctions'[a] = rec
      /\ \A d \in BidIds : auction_bids'[<<a, d>>] = IF d = b THEN bid ELSE auction_bids[<<a, d>>]
      /\ \A y \in Accounts : auction_bidder_bids'[<<a, y>>] =
            IF y = x THEN b ELSE auction_bidder_bids[<<a, y>>]
  BY <1>1, <1>4 DEF AuctionTypeOK
<1>10. BidsOf(a)' = BidsOf(a) \cup {b} /\ BidsOf(a) \subseteq BidIds
  BY <1>7, <1>9, NoneAssumption DEF BidsOf
<1>11. BidsCounted(a)'
  <2>1. 0 .. (b + 1) - 1 = (0 .. b - 1) \cup {b}
    BY <1>4
  <2>2. QED
    BY <2>1, <1>2, <1>6, <1>9, <1>10 DEF BidsCounted
<1>12. /\ rec.highest_bid >= amount
       /\ rec.highest_bid >= auctions[a].highest_bid
       /\ auctions[a].highest_bid \in Nat /\ rec.highest_bid \in Nat
       /\ amount \in Nat /\ auctions[a].min_bid \in Nat
  <2>1. /\ auctions[a].highest_bid \in Nat
        /\ amount \in Nat
        /\ auctions[a].min_bid \in Nat
    BY <1>1, AuctionIdType DEF AuctionRecord
  <2>2. CASE amount > auctions[a].highest_bid
    BY <2>1, <2>2, <1>6
  <2>3. CASE ~(amount > auctions[a].highest_bid)
    BY <2>1, <2>3, <1>6
  <2>4. QED
    BY <2>2, <2>3
<1>13. ASSUME NEW d \in BidsOf(a)' PROVE BidInBounds(a, d)'
  <2>1. CASE d = b
    BY <2>1, <1>6, <1>7, <1>9, <1>12 DEF BidInBounds
  <2>2. CASE d # b
    <3>1. d \in BidsOf(a) /\ d \in BidIds /\ auction_bids'[<<a, d>>] = auction_bids[<<a, d>>]
      BY <2>2, <1>9, <1>10
    <3>2. BidInBounds(a, d)
      BY <3>1, <1>2
    <3>3. auction_bids[<<a, d>>] \in BidRecord
      BY <3>1, <1>1 DEF AuctionTypeOK, BidsOf
    <3>4. /\ auction_bids[<<a, d>>].bidder \in Accounts
          /\ auction_bids[<<a, d>>].bidder # x
      BY <3>1, <3>2, <3>3, <1>4, NoneAssumption DEF BidInBounds, BidRecord
    <3>5. auction_bids[<<a, d>>].amount \in Nat
      BY <3>3, AuctionIdType DEF BidRecord
    <3>6. QED
      BY <3>1, <3>2, <3>4, <3>5, <1>6, <1>9, <1>12 DEF BidInBounds
  <2>3. QED
    BY <2>1, <2>2
<1>14. LeaderHoldsBid(a)'
  <2>1. rec.bid_count # 0
    BY <1>4, <1>6
  <2>2. CASE amount > auctions[a].highest_bid
    BY <2>1, <2>2, <1>6, <1>7, <1>9, <1>10 DEF LeaderHoldsBid
  <2>3. CASE ~(amount > auctions[a].highest_bid)
    <3>1. auctions[a].bid_count # 0
      BY <2>3, <1>1, <1>12 DEF BookOK
    <3>2. QED
      BY <2>1, <2>3, <3>1, <1>2, <1>6, <1>8, <1>9, <1>10 DEF LeaderHoldsBid
  <2>4. QED
    BY <2>2, <2>3
<1>15. rec.bid_count > 0
  BY <1>4, <1>6
<1>16. QED
  BY <1>4, <1>6, <1>7, <1>8, <1>11, <1>13, <1>14, <1>15, BidKeepsInv

LEMMA RaiseBidKeepsInv ==
    ASSUME AuctionInv, NEW x \in Accounts, NEW a \in Opened, NEW amount \in Balance,
           amount >= auctions[a].min_bid, RaiseBid(x, a, amount),
           UNCHANGED <<now, rolesVars, auction_count, indexVars>>
    PROVE  AuctionInv'
<1>1. /\ AuctionTypeOK
      /\ BookOK
      /\ a \in AuctionIds
      /\ auctions[a] \in AuctionRecord
  BY DEF AuctionInv, AuctionTypeOK, Opened
<1>2. BidsCounted(a) /\ LeaderHoldsBid(a) /\ \A d \in BidsOf(a) : BidInBounds(a, d)
  BY DEF AuctionInv, LeadersAreHighest
<1>3. auction_bidder_bids[<<a, x>>] \in BidIds
  BY <1>1 DEF RaiseBid, AuctionTypeOK
<1> PICK b \in BidIds : b = auction_bidder_bids[<<a, x>>]
  BY <1>3
<1> DEFINE rec == Leading(auctions[a], x, b, amount)
           bid == [auction_bids[<<a, b>>] EXCEPT !.amount = amount]
<1>4. /\ auction_bids[<<a, b>>] \in BidRecord
      /\ auction_bids[<<a, b>>].bidder = x
      /\ b \in BidsOf(a)
  BY <1>1, <1>3, NoneAssumption DEF BookOK, AuctionTypeOK, BidsOf
<1>5. /\ amount > auction_bids[<<a, b>>].amount
      /\ auction_bids' = [auction_bids EXCEPT ![<<a, b>>] = bid]
      /\ auction_bidder_bids' = [auction_bidder_bids EXCEPT ![<<a, x>>] = b]
      /\ auctions' = [auctions EXCEPT ![a] = rec]
  BY <1>1 DEF RaiseBid, AuctionTypeOK
<1>6. /\ rec \in AuctionRecord
      /\ rec.vault = auctions[a].vault
      /\ rec.min_bid = auctions[a].min_bid
      /\ rec.bid_count = auctions[a].bid_count
      /\ rec.is_finalized = auctions[a].is_finalized
      /\ IF amount > auctions[a].highest_bid
         THEN rec.highest_bidder = x /\ rec.highest_bid = amount /\ rec.highest_bid_id = b
         ELSE /\ rec.highest_bidder = auctions[a].highest_bidder
              /\ rec.highest_bid = auctions[a].highest_bid
              /\ rec.highest_bid_id = auctions[a].highest_bid_id
  BY <1>1, LeadingRecord
<1> HIDE DEF rec
<1>7. bid \in BidRecord /\ bid.bidder = x /\ bid.amount = amount /\ bid # None
  BY <1>4, NoneAssumption DEF BidRecord
<1> HIDE DEF bid
<1>8. /\ auctions'[a] = rec
      /\ \A d \in BidIds : auction_bids'[<<a, d>>] = IF d = b THEN bid ELSE auction_bids[<<a, d>>]
      /\ \A y \in Accounts : auction_bidder_bids'[<<a, y>>] = auction_bidder_bids[<<a, y>>]
  BY <1>1, <1>3, <1>5 DEF AuctionTypeOK
<1>9. BidsOf(a)' = BidsOf(a) /\ BidsOf(a) \subseteq BidIds
  BY <1>4, <1>7, <1>8 DEF BidsOf
<1>10. BidsCounted(a)'
  BY <1>2, <1>6, <1>8, <1>9 DEF BidsCounted
<1>11. /\ rec.highest_bid >= amount
       /\ rec.highest_bid >= auctions[a].highest_bid
       /\ auctions[a].highest_bid \in Nat /\ rec.highest_bid \in Nat
  <2>1. auctions[a].highest_bid \in Nat /\ amount \in Nat
    BY <1>1, AuctionIdType DEF AuctionRecord
  <2>2. rec.highest_bid = IF amount > auctions[a].highest_bid THEN amount
                          ELSE auctions[a].highest_bid
    BY <1>6
  <2>3. QED
    BY <2>1, <2>2
<1>12. ASSUME NEW d \in BidsOf(a)' PROVE BidInBounds(a, d)'
  <2>1. BidInBounds(a, d) /\ d \in BidIds /\ auction_bids[<<a, d>>] \in BidRecord
    BY <1>1, <1>2, <1>9 DEF BidsOf, AuctionTypeOK
  <2>2. auction_bids[<<a, d>>].amount \in Nat /\ auction_bids[<<a, d>>].bidder \in Accounts
    BY <2>1, AuctionIdType DEF BidRecord
  <2>3. CASE d = b
    BY <2>1, <2>3, <1>6, <1>7, <1>8, <1>11 DEF BidInBounds
  <2>4. CASE d # b
    BY <2>1, <2>2, <2>4, <1>6, <1>8, <1>11 DEF BidInBounds
  <2>5. QED
    BY <2>3, <2>4
<1>13. auctions[a].bid_count # 0
  <2>1. 0 .. 0 - 1 = {}
    OBVIOUS
  <2>2. QED
    BY <2>1, <1>2, <1>4 DEF BidsCounted
<1>14. LeaderHoldsBid(a)'
  <2>1. CASE amount > auctions[a].highest_bid
    BY <2>1, <1>4, <1>6, <1>7, <1>8, <1>9, <1>13 DEF LeaderHoldsBid
  <2>2. CASE ~(amount > auctions[a].highest_bid)
    \* The leader's own bid, when raised, exceeds the highest: b is not the leader.
    <3>1. /\ auctions[a].highest_bid_id \in BidsOf(a)
          /\ auction_bids[<<a, auctions[a].highest_bid_id>>].bidder = auctions[a].highest_bidder
          /\ auction_bids[<<a, auctions[a].highest_bid_id>>].amount = auctions[a].highest_bid
      BY <1>2, <1>13 DEF LeaderHoldsBid
    <3>2. auctions[a].highest_bid_id # b
      BY <3>1, <2>2, <1>5
    <3>3. QED
      BY <3>1, <3>2, <2>2, <1>6, <1>8, <1>9, <1>13 DEF LeaderHoldsBid
  <2>3. QED
    BY <2>1, <2>2
<1>15. rec.bid_count > 0
  BY <1>1, <1>6, <1>13, AuctionConstants DEF AuctionRecord
<1>16. QED
  BY <1>4, <1>5, <1>6, <1>7, <1>10, <1>12, <1>14, <1>15, BidKeepsInv

\* place_bid, a first bid or a raise, with or without the lead.
LEMMA PlaceBidKeepsInv ==
    ASSUME AuctionInv, NEW x \in Accounts, NEW a \in AuctionIds, NEW amount \in Balance,
           PlaceBid(x, a, amount)
    PROVE  AuctionInv'
  BY NewBidKeepsInv, RaiseBidKeepsInv DEF PlaceBid, Opened

----------------------------------------------------------------------------
(* Payments, roles and time. *)

LEMMA WithdrawKeepsInv ==
    ASSUME AuctionInv, NEW caller, NEW a \in AuctionIds, NEW b \in BidIds,
           WithdrawRefund(caller, a, b)
    PROVE  AuctionInv'
  BY PaidBidKeepsInv DEF WithdrawRefund, Refundable

LEMMA WinningBidKeepsInv ==
    ASSUME AuctionInv, NEW caller, NEW a \in AuctionIds, WinningBidReady(caller, a),
           MarkWinningBidPaid(a),
           UNCHANGED <<now, rolesVars, auction_count, auctions, auction_bidder_bids, indexVars>>
    PROVE  AuctionInv'
<1>1. auctions[a] \in AuctionRecord
  BY DEF AuctionInv, AuctionTypeOK, WinningBidReady
<1>2. auctions[a].highest_bid_id \in BidIds
  BY <1>1 DEF AuctionRecord, WinningBidReady
<1>3. QED
  BY <1>2, PaidBidKeepsInv DEF WinningBidReady, MarkWinningBidPaid

LEMMA AdministrationKeepsInv ==
    ASSUME AuctionInv, NEW caller, NEW account \in Accounts \cup {None},
           \/ SetAdmin(caller, account)
           \/ account # None /\ UpdateAuctionGovernance(caller, account)
           \/ account # None /\ SetAuctionController(caller, account)
    PROVE  AuctionInv'
<1>1. AuctionTypeOK
  BY DEF AuctionInv
<1>2. QED
  BY <1>1, RolesAndTimeKeepInv
     DEF AuctionTypeOK, SetAdmin, UpdateAuctionGovernance, SetAuctionController

LEMMA TickKeepsInv ==
    ASSUME AuctionInv, Tick
    PROVE  AuctionInv'
<1>1. AuctionTypeOK
  BY DEF AuctionInv
<1>2. now' \in Time
  BY <1>1, AuctionConstants DEF AuctionTypeOK, Tick, Time
<1>3. QED
  BY <1>1, <1>2, RolesAndTimeKeepInv DEF AuctionTypeOK, Tick, rolesVars

LEMMA QuietKeepsInv ==
    ASSUME AuctionInv, UNCHANGED auctionVars
    PROVE  AuctionInv'
<1>1. AuctionTypeOK
  BY DEF AuctionInv
<1>2. QED
  BY <1>1, RolesAndTimeKeepInv DEF AuctionTypeOK, auctionVars, rolesVars

----------------------------------------------------------------------------
(* An auction that has ended with a bid keeps its outcome. *)

LEMMA OutcomeFixedIfSame ==
    ASSUME AuctionInv, NEW a \in Opened,
           auctions'[a] = auctions[a]
              \/ auctions'[a] = [auctions[a] EXCEPT !.is_finalized = TRUE],
           \A b \in BidIds :
              \/ auction_bids'[<<a, b>>] = auction_bids[<<a, b>>]
              \/ auction_bids'[<<a, b>>] = [auction_bids[<<a, b>>] EXCEPT !.is_withdrawn = TRUE]
    PROVE  OutcomeFixed(a)
<1>1. auctions[a] \in AuctionRecord /\ a \in AuctionIds
  BY DEF AuctionInv, AuctionTypeOK, Opened
<1>2. \A b \in BidsOf(a) : b \in BidIds /\ auction_bids[<<a, b>>] \in BidRecord
  BY <1>1 DEF AuctionInv, AuctionTypeOK, BidsOf
<1>3. auctions'[a] = [auctions[a] EXCEPT !.is_finalized = auctions'[a].is_finalized]
  BY <1>1 DEF AuctionRecord
<1>4. \A b \in BidsOf(a) :
        auction_bids'[<<a, b>>] =
          [auction_bids[<<a, b>>] EXCEPT !.is_withdrawn = auction_bids'[<<a, b>>].is_withdrawn]
  BY <1>2 DEF BidRecord
<1>5. QED
  BY <1>3, <1>4 DEF OutcomeFixed

LEMMA BidElsewhereKeepsOutcome ==
    ASSUME AuctionInv, NEW a \in Opened, now >= auctions[a].ends_at, auctions[a].bid_count > 0,
           NEW x, NEW c \in AuctionIds, NEW amount, PlaceBid(x, c, amount)
    PROVE  OutcomeFixed(a)
<1>1. /\ a \in AuctionIds
      /\ auctions \in [AuctionIds -> AuctionRecord \cup {None}]
      /\ auction_bids \in [AuctionIds \X BidIds -> BidRecord \cup {None}]
      /\ now \in Nat /\ auctions[a].ends_at \in Nat /\ auctions[a].bid_count \in Nat
  BY AuctionConstants DEF AuctionInv, AuctionTypeOK, Opened, Time, AuctionRecord
<1>2. c # a
  BY <1>1 DEF PlaceBid, BidAllowed
<1>3. auctions'[a] = auctions[a]
  BY <1>1, <1>2 DEF PlaceBid, NewBid, RaiseBid
<1>4. \A b \in BidIds : auction_bids'[<<a, b>>] = auction_bids[<<a, b>>]
  <2>1. CASE NewBid(x, c, amount)
    BY <2>1, <1>1, <1>2 DEF NewBid
  <2>2. CASE RaiseBid(x, c, amount)
    BY <2>2, <1>1, <1>2 DEF RaiseBid
  <2>3. QED
    BY <2>1, <2>2 DEF PlaceBid
<1>5. QED
  BY <1>3, <1>4, OutcomeFixedIfSame

LEMMA PaymentKeepsOutcome ==
    ASSUME AuctionInv, NEW a \in Opened, NEW c \in AuctionIds, NEW d \in BidIds,
           auction_bids' = [auction_bids EXCEPT ![<<c, d>>].is_withdrawn = TRUE],
           UNCHANGED auctions
    PROVE  OutcomeFixed(a)
<1>1. a \in AuctionIds /\ auction_bids \in [AuctionIds \X BidIds -> BidRecord \cup {None}]
  BY DEF AuctionInv, AuctionTypeOK, Opened
<1>2. \A b \in BidIds :
        \/ auction_bids'[<<a, b>>] = auction_bids[<<a, b>>]
        \/ auction_bids'[<<a, b>>] = [auction_bids[<<a, b>>] EXCEPT !.is_withdrawn = TRUE]
  BY <1>1
<1>3. QED
  BY <1>2, OutcomeFixedIfSame

LEMMA WinningBidKeepsOutcome ==
    ASSUME AuctionInv, NEW a \in Opened, NEW caller, NEW c \in AuctionIds,
           WinningBidReady(caller, c), MarkWinningBidPaid(c), UNCHANGED auctions
    PROVE  OutcomeFixed(a)
<1>1. auctions[c] \in AuctionRecord
  BY DEF AuctionInv, AuctionTypeOK, WinningBidReady
<1>2. auctions[c].highest_bid_id \in BidIds
  BY <1>1 DEF AuctionRecord, WinningBidReady
<1>3. QED
  BY <1>2, PaymentKeepsOutcome DEF MarkWinningBidPaid

LEMMA FinalizeKeepsOutcome ==
    ASSUME AuctionInv, NEW a \in Opened, NEW c \in AuctionIds, FinalizeAuction(c)
    PROVE  OutcomeFixed(a)
<1>1. /\ a \in AuctionIds
      /\ auctions \in [AuctionIds -> AuctionRecord \cup {None}]
      /\ auctions' = [auctions EXCEPT ![c].is_finalized = TRUE]
      /\ auction_bids' = auction_bids
  BY DEF AuctionInv, AuctionTypeOK, Opened, FinalizeAuction
<1>2. QED
  BY <1>1, OutcomeFixedIfSame

LEMMA CreateKeepsOutcome ==
    ASSUME AuctionInv, NEW a \in Opened, NEW caller, NEW vault, NEW collateral, NEW debt,
           NEW min_bid, NEW duration,
           CreateAuction(caller, vault, collateral, debt, min_bid, duration)
    PROVE  OutcomeFixed(a)
<1>1. a \in AuctionIds /\ a # auction_count
  BY AuctionIdType DEF AuctionInv, BookOK, Opened
<1>2. auctions'[a] = auctions[a] /\ auction_bids' = auction_bids
  BY <1>1 DEF CreateAuction, AuctionInv, AuctionTypeOK
<1>3. QED
  BY <1>2, OutcomeFixedIfSame

----------------------------------------------------------------------------
(* Escrow: what the contract holds covers the bids it holds. *)

LEMMA HeldDomain == IsFiniteSet(AuctionIds \X BidIds)
<1>1. IsFiniteSet(AuctionIds) /\ IsFiniteSet(BidIds)
  BY AuctionConstants, FS_Interval DEF AuctionIds, BidIds
<1>2. QED
  BY <1>1, FS_Product

LEMMA HeldType ==
    ASSUME AuctionTypeOK
    PROVE  HeldAmounts \in [AuctionIds \X BidIds -> Nat]
<1>1. \A ab \in AuctionIds \X BidIds :
        auction_bids[ab] # None => auction_bids[ab].amount \in Nat
  BY AuctionIdType DEF AuctionTypeOK, BidRecord
<1>2. QED
  BY <1>1 DEF HeldAmounts

\* One bid changed: the sum of the bids held changes by what it adds.
LEMMA HeldSumChanged ==
    ASSUME AuctionTypeOK, AuctionTypeOK', NEW ab \in AuctionIds \X BidIds,
           \A other \in (AuctionIds \X BidIds) \ {ab} : auction_bids'[other] = auction_bids[other]
    PROVE  /\ SumFunction(HeldAmounts) \in Nat
           /\ HeldAmounts[ab] \in Nat /\ HeldAmounts'[ab] \in Nat
           /\ SumFunction(HeldAmounts)' = SumFunction(HeldAmounts) - HeldAmounts[ab] + HeldAmounts'[ab]
<1> DEFINE held == HeldAmounts
           after == HeldAmounts'
<1>1. held \in [AuctionIds \X BidIds -> Nat]
  BY HeldType
<1>2. after \in [AuctionIds \X BidIds -> Nat]
  <2>1. \A other \in AuctionIds \X BidIds :
          auction_bids'[other] # None => auction_bids'[other].amount \in Nat
    BY AuctionIdType DEF AuctionTypeOK, BidRecord
  <2>2. QED
    BY <2>1 DEF HeldAmounts
<1>3. \A other \in (AuctionIds \X BidIds) \ {ab} : after[other] = held[other]
  BY DEF HeldAmounts
<1>4. held \in [AuctionIds \X BidIds -> Int] /\ after \in [AuctionIds \X BidIds -> Int]
  BY <1>1, <1>2
<1>5. SumFunction(held) \in Nat
  BY <1>1, HeldDomain, SumNat
<1> HIDE DEF held, after
<1>6. SumFunction(after) = SumFunction(held) - held[ab] + after[ab]
  BY <1>3, <1>4, HeldDomain, SumChanged
<1>7. QED
  BY <1>1, <1>2, <1>5, <1>6 DEF held, after

\* Only the auction's own code, which approves nobody, moves what it holds.
EscrowUnspendable == \A spender \in Users : allowances[<<AuctionContract, spender>>] = 0

EscrowInv == EscrowUnspendable /\ EscrowCoversBids

LEMMA QuietKeepsEscrow ==
    ASSUME TokenTypeOK, AuctionTypeOK, EscrowInv, UNCHANGED auction_bids,
           balances'[AuctionContract] \in Nat,
           balances'[AuctionContract] >= balances[AuctionContract],
           \A spender \in Users :
              allowances'[<<AuctionContract, spender>>] = allowances[<<AuctionContract, spender>>]
    PROVE  EscrowInv'
<1>1. EscrowUnspendable'
  BY DEF EscrowInv, EscrowUnspendable
<1>2. SumFunction(HeldAmounts) \in Nat /\ SumFunction(HeldAmounts)' = SumFunction(HeldAmounts)
  BY HeldType, HeldDomain, SumNat DEF HeldAmounts
<1>3. balances[AuctionContract] \in Nat
  BY AuctionConstants, AuctionIdType DEF TokenTypeOK
<1>4. EscrowCoversBids'
  BY <1>2, <1>3 DEF EscrowInv, EscrowCoversBids
<1>5. QED
  BY <1>1, <1>4 DEF EscrowInv

LEMMA UnchangedKeepsEscrow ==
    ASSUME TokenTypeOK, AuctionTypeOK, EscrowInv, UNCHANGED <<auction_bids, balances, allowances>>
    PROVE  EscrowInv'
<1>1. balances[AuctionContract] \in Nat
  BY AuctionConstants, AuctionIdType DEF TokenTypeOK
<1>2. QED
  BY <1>1, QuietKeepsEscrow

\* A bid that is placed or raised brings at least what it adds to the bids held.
LEMMA BidKeepsEscrow ==
    ASSUME TokenTypeOK, AuctionTypeOK, AuctionTypeOK', EscrowInv,
           NEW bidder \in Users, NEW value \in Nat, NEW ab \in AuctionIds \X BidIds,
           \A other \in (AuctionIds \X BidIds) \ {ab} : auction_bids'[other] = auction_bids[other],
           HeldAmounts'[ab] <= HeldAmounts[ab] + value,
           TransferFrom(AuctionContract, bidder, AuctionContract, value)
    PROVE  EscrowInv'
<1>1. /\ bidder \in Accounts /\ AuctionContract \in Accounts /\ bidder # AuctionContract
      /\ balances \in [Accounts -> Nat] /\ allowances \in [Accounts \X Accounts -> Nat]
      /\ Users \subseteq Accounts
  BY AuctionConstants, AuctionIdType DEF Users, TokenTypeOK
<1>2. balances'[AuctionContract] = balances[AuctionContract] + value
  BY <1>1 DEF TransferFrom, Moved, Credited, Debited
<1>3. EscrowUnspendable'
  BY <1>1 DEF TransferFrom, EscrowInv, EscrowUnspendable
<1>4. /\ SumFunction(HeldAmounts) \in Nat
      /\ HeldAmounts[ab] \in Nat /\ HeldAmounts'[ab] \in Nat
      /\ SumFunction(HeldAmounts)' = SumFunction(HeldAmounts) - HeldAmounts[ab] + HeldAmounts'[ab]
  BY HeldSumChanged
<1>5. balances[AuctionContract] \in Nat /\ balances[AuctionContract] >= SumFunction(HeldAmounts)
  BY <1>1 DEF EscrowInv, EscrowCoversBids
<1>6. EscrowCoversBids'
  BY <1>2, <1>4, <1>5 DEF EscrowCoversBids
<1>7. QED
  BY <1>3, <1>6 DEF EscrowInv

LEMMA PlaceBidKeepsEscrow ==
    ASSUME TokenTypeOK, AuctionInv, AuctionInv', EscrowInv,
           NEW bidder \in Users, NEW a \in AuctionIds, NEW amount \in Balance,
           PlaceBid(bidder, a, amount)
    PROVE  EscrowInv'
<1>1. /\ AuctionTypeOK /\ AuctionTypeOK' /\ bidder \in Accounts /\ amount \in Nat
      /\ auctions \in [AuctionIds -> AuctionRecord \cup {None}]
      /\ auction_bids \in [AuctionIds \X BidIds -> BidRecord \cup {None}]
      /\ auction_bidder_bids[<<a, bidder>>] \in BidIds \cup {None}
  BY AuctionIdType DEF AuctionInv, Users, AuctionTypeOK
<1>2. CASE NewBid(bidder, a, amount)
  <2> DEFINE ab == <<a, auctions[a].bid_count>>
             bid == [bidder |-> bidder, amount |-> amount, is_withdrawn |-> FALSE]
  <2>1. auctions[a].bid_count \in BidIds
    <3>1. auctions[a].bid_count \in Nat /\ auctions[a].bid_count < MaxBids
      BY <1>1, <1>2, AuctionConstants DEF PlaceBid, NewBid, AuctionRecord
    <3>2. QED
      BY <3>1, AuctionConstants DEF BidIds
  <2>2. auction_bids' = [auction_bids EXCEPT ![ab] = bid]
    BY <1>2 DEF NewBid
  <2>3. ab \in AuctionIds \X BidIds
    BY <2>1
  <2> HIDE DEF ab
  <2>4. HeldAmounts'[ab] <= HeldAmounts[ab] + amount
    <3>1. auction_bids'[ab] = bid
      BY <2>2, <2>3, <1>1
    <3>2. HeldAmounts'[ab] \in {0, amount}
      BY <3>1, <2>3 DEF HeldAmounts
    <3>3. HeldAmounts[ab] \in Nat
      BY <2>3, <1>1, HeldType
    <3>4. QED
      BY <3>2, <3>3, <1>1
  <2>5. \A other \in (AuctionIds \X BidIds) \ {ab} : auction_bids'[other] = auction_bids[other]
    BY <2>2, <1>1
  <2>6. TransferFrom(AuctionContract, bidder, AuctionContract, amount)
    BY <1>2 DEF NewBid
  <2>7. QED
    BY <1>1, <2>3, <2>4, <2>5, <2>6, BidKeepsEscrow
<1>3. CASE RaiseBid(bidder, a, amount)
  <2> DEFINE ab == <<a, auction_bidder_bids[<<a, bidder>>]>>
             value == amount - auction_bids[ab].amount
  <2>1. ab \in AuctionIds \X BidIds
    BY <1>1, <1>3 DEF RaiseBid
  <2>2. /\ auction_bids' = [auction_bids EXCEPT ![ab].amount = amount]
        /\ amount > auction_bids[ab].amount
        /\ TransferFrom(AuctionContract, bidder, AuctionContract, value)
    BY <1>3 DEF RaiseBid
  <2>3. auction_bids[ab] \in BidRecord
    BY <1>1, <1>3 DEF AuctionInv, BookOK, RaiseBid
  <2> HIDE DEF ab
  <2>4. auction_bids[ab].amount \in Nat
    BY <2>3, AuctionIdType DEF BidRecord
  <2>5. value \in Nat
    BY <2>2, <2>4, <1>1
  <2>6. HeldAmounts'[ab] <= HeldAmounts[ab] + value
    <3>1. auction_bids'[ab] = [auction_bids[ab] EXCEPT !.amount = amount]
      BY <2>1, <2>2, <1>1
    <3>2. /\ auction_bids'[ab].amount = amount
          /\ auction_bids'[ab].is_withdrawn = auction_bids[ab].is_withdrawn
          /\ auction_bids[ab] # None /\ auction_bids'[ab] # None
      <4>1. auction_bids'[ab] \in BidRecord
        BY <3>1, <2>3 DEF BidRecord
      <4>2. QED
        BY <3>1, <4>1, <2>3, NoneAssumption DEF BidRecord
    <3>3. CASE auction_bids[ab].is_withdrawn
      <4>1. HeldAmounts[ab] = 0 /\ HeldAmounts'[ab] = 0
        BY <3>2, <3>3, <2>1 DEF HeldAmounts
      <4> HIDE DEF value
      <4>2. QED
        BY <4>1, <2>5
    <3>4. CASE ~auction_bids[ab].is_withdrawn
      <4>1. HeldAmounts[ab] = auction_bids[ab].amount /\ HeldAmounts'[ab] = amount
        BY <3>2, <3>4, <2>1 DEF HeldAmounts
      <4>2. QED
        BY <4>1, <2>4, <1>1
    <3>5. QED
      BY <3>3, <3>4
  <2>7. \A other \in (AuctionIds \X BidIds) \ {ab} : auction_bids'[other] = auction_bids[other]
    BY <2>2, <1>1
  <2> HIDE DEF value
  <2>8. QED
    BY <1>1, <2>1, <2>2, <2>5, <2>6, <2>7, BidKeepsEscrow
<1>4. QED
  BY <1>2, <1>3 DEF PlaceBid

\* A bid that is paid out leaves the bids held before it leaves the balance.
LEMMA PaymentKeepsEscrow ==
    ASSUME TokenTypeOK, AuctionInv, AuctionInv', EscrowInv,
           NEW a \in AuctionIds, NEW b \in BidIds,
           auction_bids[<<a, b>>] # None, ~auction_bids[<<a, b>>].is_withdrawn,
           auction_bids' = [auction_bids EXCEPT ![<<a, b>>].is_withdrawn = TRUE],
           balances'[AuctionContract] \in Nat,
           balances'[AuctionContract] >= balances[AuctionContract] - auction_bids[<<a, b>>].amount,
           UNCHANGED allowances
    PROVE  EscrowInv'
<1> DEFINE ab == <<a, b>>
<1>1. /\ AuctionTypeOK /\ AuctionTypeOK' /\ ab \in AuctionIds \X BidIds
      /\ auction_bids \in [AuctionIds \X BidIds -> BidRecord \cup {None}]
      /\ auction_bids[ab] \in BidRecord /\ auction_bids[ab].amount \in Nat
  BY AuctionIdType DEF AuctionInv, AuctionTypeOK, BidRecord
<1>2. auction_bids' = [auction_bids EXCEPT ![ab].is_withdrawn = TRUE]
  OBVIOUS
<1>3. HeldAmounts[ab] = auction_bids[ab].amount
  BY <1>1 DEF HeldAmounts
<1> HIDE DEF ab
<1>4. HeldAmounts'[ab] = 0
  <2>1. auction_bids'[ab].is_withdrawn
    BY <1>1, <1>2 DEF BidRecord
  <2>2. QED
    BY <2>1, <1>1 DEF HeldAmounts
<1>5. \A other \in (AuctionIds \X BidIds) \ {ab} : auction_bids'[other] = auction_bids[other]
  BY <1>1, <1>2
<1>6. /\ SumFunction(HeldAmounts) \in Nat
      /\ SumFunction(HeldAmounts)' = SumFunction(HeldAmounts) - HeldAmounts[ab] + HeldAmounts'[ab]
  BY <1>1, <1>5, HeldSumChanged
<1>7. balances[AuctionContract] \in Nat /\ balances[AuctionContract] >= SumFunction(HeldAmounts)
  BY AuctionConstants, AuctionIdType DEF TokenTypeOK, EscrowInv, EscrowCoversBids
<1>8. balances'[AuctionContract] >= balances[AuctionContract] - auction_bids[ab].amount
  BY DEF ab
<1>9. EscrowCoversBids'
  BY <1>1, <1>3, <1>4, <1>6, <1>7, <1>8 DEF EscrowCoversBids
<1>10. QED
  BY <1>9 DEF EscrowInv, EscrowUnspendable

LEMMA WithdrawKeepsEscrow ==
    ASSUME TokenTypeOK, TokenTypeOK', AuctionInv, AuctionInv', EscrowInv,
           NEW caller \in Accounts, NEW a \in AuctionIds, NEW b \in BidIds,
           WithdrawRefund(caller, a, b)
    PROVE  EscrowInv'
<1>1. auction_bids[<<a, b>>] \in BidRecord
  BY DEF AuctionInv, AuctionTypeOK, WithdrawRefund, Refundable
<1>2. auction_bids[<<a, b>>].amount \in Nat
  BY <1>1, AuctionIdType DEF BidRecord
<1>3. /\ balances'[AuctionContract] \in Nat
      /\ balances'[AuctionContract] >= balances[AuctionContract] - auction_bids[<<a, b>>].amount
  BY <1>2, AuctionConstants, AuctionIdType
     DEF WithdrawRefund, Transfer, Moved, Credited, Debited, TokenTypeOK
<1>4. QED
  BY <1>3, PaymentKeepsEscrow DEF WithdrawRefund, Refundable, Transfer

LEMMA WinningBidRecord ==
    ASSUME AuctionInv, NEW caller, NEW a \in AuctionIds, WinningBidReady(caller, a)
    PROVE  /\ auctions[a].highest_bid_id \in BidIds
           /\ auction_bids[<<a, auctions[a].highest_bid_id>>] \in BidRecord
           /\ WinningBidOf(a) \in Nat
<1>1. auctions[a] \in AuctionRecord
  BY DEF AuctionInv, AuctionTypeOK, WinningBidReady
<1>2. auctions[a].highest_bid_id \in BidIds
  BY <1>1 DEF AuctionRecord, WinningBidReady
<1>3. auction_bids[<<a, auctions[a].highest_bid_id>>] \in BidRecord
  BY <1>2 DEF AuctionInv, AuctionTypeOK, WinningBidReady
<1>4. QED
  BY <1>2, <1>3, AuctionIdType DEF BidRecord, WinningBidOf

LEMMA WinningBidKeepsEscrow ==
    ASSUME TokenTypeOK, TokenTypeOK', AuctionInv, AuctionInv', EscrowInv,
           NEW caller, NEW recipient \in Accounts, NEW a \in AuctionIds,
           TransferWinningBid(caller, a, recipient)
    PROVE  EscrowInv'
<1> DEFINE b == auctions[a].highest_bid_id
<1>1. WinningBidReady(caller, a)
  BY DEF TransferWinningBid
<1>2. b \in BidIds /\ WinningBidOf(a) \in Nat
  BY <1>1, WinningBidRecord
<1>3. /\ balances'[AuctionContract] \in Nat
      /\ balances'[AuctionContract] >= balances[AuctionContract] - WinningBidOf(a)
  <2> DEFINE paid == WinningBidOf(a)
  <2>1. balances' = Moved(balances, AuctionContract, recipient, paid)
    BY DEF TransferWinningBid, Transfer
  <2>2. /\ balances \in [Accounts -> Nat] /\ balances' \in [Accounts -> Nat]
        /\ AuctionContract \in Accounts
    BY AuctionConstants, AuctionIdType DEF TokenTypeOK
  <2>3. paid \in Nat
    BY <1>2
  <2> HIDE DEF paid
  <2>4. /\ balances'[AuctionContract] \in Nat
        /\ balances'[AuctionContract] >= balances[AuctionContract] - paid
    BY <2>1, <2>2, <2>3 DEF Moved, Credited, Debited
  <2>5. QED
    BY <2>4 DEF paid
<1>4. QED
  BY <1>1, <1>2, <1>3, PaymentKeepsEscrow
     DEF TransferWinningBid, WinningBidReady, MarkWinningBidPaid, WinningBidOf, Transfer

\* Users who call the token directly cannot touch what the auction holds.
LEMMA HolderKeepsEscrow ==
    ASSUME TokenTypeOK, TokenTypeOK', AuctionTypeOK, EscrowInv,
           NEW caller \in Users, NEW peers \in SUBSET Accounts,
           HolderStep(caller, peers), UNCHANGED auction_bids
    PROVE  EscrowInv'
<1>1. /\ caller \in Accounts /\ caller # AuctionContract /\ AuctionContract \in Accounts
      /\ balances \in [Accounts -> Nat] /\ balances' \in [Accounts -> Nat]
      /\ allowances \in [Accounts \X Accounts -> Nat]
      /\ Users \subseteq Accounts
      /\ allowances[<<AuctionContract, caller>>] = 0
  BY AuctionConstants, AuctionIdType DEF Users, TokenTypeOK, EscrowInv, EscrowUnspendable
<1>2. PICK other \in peers, value \in TokenAmounts :
        \/ Transfer(caller, other, value)
        \/ Approve(caller, other, value)
        \/ IncreaseAllowance(caller, other, value)
        \/ DecreaseAllowance(caller, other, value)
        \/ \E to \in peers : TransferFrom(caller, other, to, value)
  BY DEF HolderStep
<1>3. value \in Nat /\ other \in Accounts
  BY TokenAmountsAssumption, AuctionIdType
<1>4. CASE Transfer(caller, other, value)
  <2>1. balances'[AuctionContract] >= balances[AuctionContract]
    BY <1>1, <1>3, <1>4 DEF Transfer, Moved, Credited, Debited
  <2>2. QED
    BY <1>1, <1>4, <2>1, QuietKeepsEscrow DEF Transfer
<1>5. CASE \E sum : SetAllowance(caller, other, sum)
  <2>1. \A spender \in Users :
          allowances'[<<AuctionContract, spender>>] = allowances[<<AuctionContract, spender>>]
    BY <1>1, <1>5 DEF SetAllowance
  <2>2. UNCHANGED balances
    BY <1>5 DEF SetAllowance
  <2>3. QED
    BY <1>1, <2>1, <2>2, QuietKeepsEscrow
<1>6. CASE \E to \in peers : TransferFrom(caller, other, to, value)
  <2> PICK to \in peers : TransferFrom(caller, other, to, value)
    BY <1>6
  <2>1. to \in Accounts /\ allowances[<<other, caller>>] >= value
    BY DEF TransferFrom
  <2>2. other = AuctionContract => value = 0
    BY <1>1, <1>3, <2>1
  <2>3. balances'[AuctionContract] >= balances[AuctionContract]
    <3>1. balances' = Moved(balances, other, to, value)
      BY DEF TransferFrom
    <3>2. QED
      BY <1>1, <1>3, <2>1, <2>2, <3>1 DEF Moved, Credited, Debited
  <2>4. \A spender \in Users :
          allowances'[<<AuctionContract, spender>>] = allowances[<<AuctionContract, spender>>]
    <3>1. allowances' = [allowances EXCEPT ![<<other, caller>>] = @ - value]
      BY DEF TransferFrom
    <3>2. QED
      BY <1>1, <1>3, <2>2, <3>1
  <2>5. QED
    BY <1>1, <2>3, <2>4, QuietKeepsEscrow
<1>7. QED
  BY <1>2, <1>4, <1>5, <1>6 DEF Approve, IncreaseAllowance, DecreaseAllowance

----------------------------------------------------------------------------
(* The auction contract on its own, whoever controls it. *)

\* What the invariant needs of the token: bids are Balances.
LEMMA HouseParameters ==
    /\ \A amount \in BidAmounts : amount \in Balance
    /\ \A debt \in AuctionDebts : debt \in Balance /\ debt > 0
    /\ \A duration \in Durations : duration \in Nat
    /\ Users \subseteq Accounts /\ Controllers \subseteq Accounts
    /\ AdminChoices \subseteq Accounts \cup {None}
  BY HouseConstants, AuctionConstants, MaxBalanceAssumption DEF Users, Balance

LEMMA HouseStepKeepsInv ==
    ASSUME AuctionInv, [HouseNext]_houseVars
    PROVE  AuctionInv'
<1>1. CASE ControllerCall
  <2>1. CASE \E key \in VaultKeys, debt \in AuctionDebts, duration \in Durations :
                CreateAuction(auction_controller, key, debt, debt, debt, duration)
    BY <2>1, HouseParameters, CreateKeepsInv
  <2>2. CASE \E a \in AuctionIds : TransferWinningBid(auction_controller, a, auction_controller)
    BY <2>2, WinningBidKeepsInv DEF TransferWinningBid
  <2>3. CASE \E account \in Controllers : UpdateAuctionGovernance(auction_controller, account)
    BY <2>3, HouseParameters, NoneAssumption, AdministrationKeepsInv
  <2>4. QED
    BY <1>1, <2>1, <2>2, <2>3 DEF ControllerCall
<1>2. CASE GovernanceCall
  BY <1>2, HouseParameters, NoneAssumption, AdministrationKeepsInv DEF GovernanceCall
<1>3. CASE BidderCall
  BY <1>3, HouseParameters, PlaceBidKeepsInv, WithdrawKeepsInv DEF BidderCall
<1>4. CASE \E a \in AuctionIds : FinalizeAuction(a)
  BY <1>4, FinalizeKeepsInv
<1>5. CASE UNCHANGED auctionVars
  BY <1>5, QuietKeepsInv
<1>6. CASE Tick
  BY <1>6, TickKeepsInv
<1>7. CASE UNCHANGED houseVars
  BY <1>7, <1>5 DEF houseVars
<1>8. QED
  BY <1>1, <1>2, <1>3, <1>4, <1>5, <1>6, <1>7 DEF HouseNext

HouseInv == TokenTypeOK /\ AuctionInv /\ EscrowInv

LEMMA PlaceBidTokenType ==
    ASSUME TokenTypeOK, AuctionInv, NEW x \in Accounts, NEW a \in AuctionIds,
           NEW amount \in Balance, PlaceBid(x, a, amount)
    PROVE  TokenTypeOK'
<1>1. amount \in Nat /\ AuctionContract \in Accounts
  BY AuctionConstants, AuctionIdType
<1>2. CASE NewBid(x, a, amount)
  BY <1>1, <1>2, TransferFromType DEF NewBid
<1>3. CASE RaiseBid(x, a, amount)
  <2> DEFINE held == auction_bids[<<a, auction_bidder_bids[<<a, x>>]>>]
  <2>1. auction_bidder_bids[<<a, x>>] \in BidIds /\ held # None
    BY <1>3 DEF RaiseBid, AuctionInv, AuctionTypeOK, BookOK
  <2>2. held \in BidRecord
    BY <2>1 DEF AuctionInv, AuctionTypeOK
  <2>3. held.amount \in Nat
    BY <2>2, AuctionIdType DEF BidRecord
  <2>4. amount - held.amount \in Nat /\ TransferFrom(AuctionContract, x, AuctionContract, amount - held.amount)
    BY <1>1, <1>3, <2>3 DEF RaiseBid
  <2>5. QED
    BY <1>1, <2>4, TransferFromType
<1>4. QED
  BY <1>2, <1>3 DEF PlaceBid

LEMMA WithdrawTokenType ==
    ASSUME TokenTypeOK, AuctionInv, NEW caller \in Accounts, NEW a \in AuctionIds,
           NEW b \in BidIds, WithdrawRefund(caller, a, b)
    PROVE  TokenTypeOK'
<1>1. auction_bids[<<a, b>>] \in BidRecord
  BY DEF WithdrawRefund, Refundable, AuctionInv, AuctionTypeOK
<1>2. auction_bids[<<a, b>>].amount \in Nat
  BY <1>1, AuctionIdType DEF BidRecord
<1>3. QED
  BY <1>2, AuctionConstants, TransferType DEF WithdrawRefund

\* What the token keeps in every step of the auction contract.
LEMMA HouseStepKeepsTokenType ==
    ASSUME TokenTypeOK, AuctionInv, [HouseNext]_houseVars
    PROVE  TokenTypeOK'
<1>1. CASE UNCHANGED tokenVars
  BY <1>1 DEF tokenVars, TokenTypeOK
<1>2. CASE \E a \in AuctionIds : TransferWinningBid(auction_controller, a, auction_controller)
  <2> PICK a \in AuctionIds : TransferWinningBid(auction_controller, a, auction_controller)
    BY <1>2
  <2>1. WinningBidOf(a) \in Nat
    BY WinningBidRecord DEF TransferWinningBid
  <2>2. auction_controller \in Accounts /\ AuctionContract \in Accounts
    BY AuctionConstants DEF AuctionInv, AuctionTypeOK
  <2>3. QED
    BY <2>1, <2>2, TransferType DEF TransferWinningBid
<1>3. CASE BidderCall
  BY <1>3, HouseParameters, PlaceBidTokenType, WithdrawTokenType DEF BidderCall
<1>4. CASE \E caller \in TokenUsers : HolderStep(caller, TokenPeers)
  BY <1>4, AuctionConstants, HolderStepType DEF Users
<1>5. CASE UNCHANGED houseVars
  BY <1>5, <1>1 DEF houseVars
<1>6. CASE ControllerCall
  BY <1>6, <1>1, <1>2 DEF ControllerCall, UpdateAuctionGovernance
<1>7. CASE GovernanceCall \/ Tick \/ \E a \in AuctionIds : FinalizeAuction(a)
  BY <1>7, <1>1 DEF GovernanceCall, SetAuctionController, SetAdmin, Tick, FinalizeAuction
<1>8. QED
  BY <1>3, <1>4, <1>5, <1>6, <1>7 DEF HouseNext

LEMMA HouseStepKeepsEscrow ==
    ASSUME HouseInv, [HouseNext]_houseVars
    PROVE  EscrowInv'
<1>1. TokenTypeOK /\ AuctionInv /\ AuctionTypeOK /\ EscrowInv
  BY DEF HouseInv, AuctionInv
<1>2. TokenTypeOK' /\ AuctionInv'
  BY <1>1, HouseStepKeepsInv, HouseStepKeepsTokenType
<1>3. CASE UNCHANGED <<auction_bids, balances, allowances>>
  BY <1>1, <1>3, UnchangedKeepsEscrow
<1>4. CASE \E a \in AuctionIds : TransferWinningBid(auction_controller, a, auction_controller)
  <2>1. auction_controller \in Accounts
    BY <1>1 DEF AuctionTypeOK
  <2>2. QED
    BY <1>1, <1>2, <1>4, <2>1, WinningBidKeepsEscrow
<1>5. CASE BidderCall
  BY <1>1, <1>2, <1>5, HouseParameters, PlaceBidKeepsEscrow, WithdrawKeepsEscrow DEF BidderCall
<1>6. CASE \E caller \in TokenUsers : HolderStep(caller, TokenPeers) /\ UNCHANGED auctionVars
  BY <1>1, <1>2, <1>6, AuctionConstants, HolderKeepsEscrow DEF auctionVars, bookVars
<1>7. CASE ControllerCall
  BY <1>3, <1>4, <1>7
     DEF ControllerCall, CreateAuction, UpdateAuctionGovernance, tokenVars, bookVars
<1>8. CASE GovernanceCall \/ Tick \/ \E a \in AuctionIds : FinalizeAuction(a)
  BY <1>3, <1>8 DEF GovernanceCall, SetAuctionController, SetAdmin, Tick, FinalizeAuction,
                    tokenVars, bookVars
<1>9. CASE UNCHANGED houseVars
  BY <1>3, <1>9 DEF houseVars, auctionVars, bookVars, tokenVars
<1>10. QED
  BY <1>5, <1>6, <1>7, <1>8, <1>9 DEF HouseNext

LEMMA HouseInitInv == HouseInit => HouseInv
<1> SUFFICES ASSUME HouseInit PROVE HouseInv
  OBVIOUS
<1>1. token_controller \in Accounts /\ AuctionInit(token_controller, token_controller)
  BY HouseParameters DEF HouseInit
<1>2. AuctionInv
  BY <1>1, AuctionInitInv
<1>3. TokenTypeOK
  BY <1>1, HouseConstants, MaxBalanceAssumption DEF HouseInit, TokenTypeOK, Balance
<1>4. EscrowUnspendable
  BY AuctionConstants DEF HouseInit, EscrowUnspendable, Users
<1>5. EscrowCoversBids
  <2>1. \A ab \in AuctionIds \X BidIds : HeldAmounts[ab] = 0
    BY DEF HouseInit, AuctionInit, HeldAmounts
  <2>2. HeldAmounts \in [AuctionIds \X BidIds -> Int]
    BY <1>2, HeldType DEF AuctionInv
  <2>3. SumFunction(HeldAmounts) = 0
    BY <2>1, <2>2, HeldDomain, SumOfZeros
  <2>4. balances[AuctionContract] \in Nat
    BY <1>3, AuctionConstants, AuctionIdType DEF TokenTypeOK
  <2>5. QED
    BY <2>3, <2>4 DEF EscrowCoversBids
<1>6. QED
  BY <1>2, <1>3, <1>4, <1>5 DEF HouseInv, EscrowInv

LEMMA HouseInvariant == HouseSpec => []HouseInv
<1>1. HouseInv /\ [HouseNext]_houseVars => HouseInv'
  BY HouseStepKeepsInv, HouseStepKeepsTokenType, HouseStepKeepsEscrow DEF HouseInv
<1>2. QED
  BY <1>1, HouseInitInv, PTL DEF HouseSpec

----------------------------------------------------------------------------
\* Every auction, at any time: its leader holds the highest of its bids, and each
\* bidder has one of them.
THEOREM HouseLeadersAreHighest == HouseSpec => []LeadersAreHighest
<1>1. HouseInv => LeadersAreHighest
  BY DEF HouseInv, AuctionInv
<1>2. QED
  BY <1>1, HouseInvariant, PTL

\* The swap-and-pop index lists exactly the auctions that are not finalized.
THEOREM HouseActiveIndexExact == HouseSpec => []ActiveIndexExact
<1>1. HouseInv => ActiveIndexExact
  BY DEF HouseInv, AuctionInv
<1>2. QED
  BY <1>1, HouseInvariant, PTL

\* No vault ever has two auctions that are not finalized.
THEOREM HouseOneOpenAuctionPerVault == HouseSpec => []OneOpenAuctionPerVault
<1>1. HouseInv => OneOpenAuctionPerVault
  BY DEF HouseInv, AuctionInv
<1>2. QED
  BY <1>1, HouseInvariant, PTL

\* The contract can pay every bid it holds, at any time and whoever controls it:
\* no refund or winning bid comes out of another auction's bids.
THEOREM HouseEscrowCoversBids == HouseSpec => []EscrowCoversBids
<1>1. HouseInv => EscrowCoversBids
  BY DEF HouseInv, EscrowInv
<1>2. QED
  BY <1>1, HouseInvariant, PTL

----------------------------------------------------------------------------
LEMMA HouseStepKeepsOutcomes ==
    ASSUME AuctionInv, HouseNext, NEW a \in Opened,
           now >= auctions[a].ends_at, auctions[a].bid_count > 0
    PROVE  OutcomeFixed(a)
<1>1. CASE ControllerCall
  <2>1. CASE \E key \in VaultKeys, debt \in AuctionDebts, duration \in Durations :
                CreateAuction(auction_controller, key, debt, debt, debt, duration)
    BY <2>1, CreateKeepsOutcome
  <2>2. CASE \E c \in AuctionIds : TransferWinningBid(auction_controller, c, auction_controller)
    BY <2>2, WinningBidKeepsOutcome DEF TransferWinningBid
  <2>3. CASE \E account \in Controllers : UpdateAuctionGovernance(auction_controller, account)
    BY <2>3, OutcomeFixedIfSame DEF UpdateAuctionGovernance, bookVars
  <2>4. QED
    BY <1>1, <2>1, <2>2, <2>3 DEF ControllerCall
<1>2. CASE GovernanceCall
  BY <1>2, OutcomeFixedIfSame DEF GovernanceCall, SetAdmin, SetAuctionController, bookVars
<1>3. CASE BidderCall
  BY <1>3, BidElsewhereKeepsOutcome, PaymentKeepsOutcome DEF BidderCall, WithdrawRefund
<1>4. CASE \E c \in AuctionIds : FinalizeAuction(c)
  BY <1>4, FinalizeKeepsOutcome
<1>5. CASE UNCHANGED auctionVars \/ Tick
  BY <1>5, OutcomeFixedIfSame DEF Tick, auctionVars, bookVars
<1>6. QED
  BY <1>1, <1>2, <1>3, <1>4, <1>5 DEF HouseNext

\* Once an auction has expired with a bid, no step of anybody changes its leader
\* or the amount of any bid.
THEOREM HouseOutcomeFixed == HouseSpec => OutcomeFixedAtExpiry
<1> DEFINE fixed == \A a \in Opened :
              now >= auctions[a].ends_at /\ auctions[a].bid_count > 0 => OutcomeFixed(a)
<1>1. HouseInv /\ [HouseNext]_houseVars => [fixed]_<<auctionVars, tokenVars>>
  BY HouseStepKeepsOutcomes DEF houseVars, HouseInv
<1>2. QED
  BY <1>1, HouseInvariant, PTL DEF HouseSpec, OutcomeFixedAtExpiry
============================================================================
