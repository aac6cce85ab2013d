---------------------------- MODULE AuctionHouse ----------------------------
(***************************************************************************)
(* The auction contract on its own: its controller is any account, may be  *)
(* replaced, and opens auctions for any vault; users hold the token.       *)
(***************************************************************************)
EXTENDS Auction

CONSTANTS
    AuctionDebts,       \* debts the controller opens auctions for, and the minimum bids
    Durations,
    Controllers,        \* accounts that take turns as controller
    Funds               \* account -> the tokens it starts with

ASSUME HouseConstants ==
    /\ AuctionDebts \subseteq Balance \ {0}
    /\ Durations \subseteq Nat
    /\ Controllers \subseteq Users
    /\ Funds \in [Accounts -> Balance] /\ SumFunction(Funds) \in Balance

houseVars == <<auctionVars, tokenVars>>

\* A new auction contract over a token whose holders have approved it for all
\* they own.
HouseInit ==
    /\ token_controller \in Controllers
    /\ minters = {token_controller}
    /\ balances = Funds
    /\ total_supply = SumFunction(Funds)
    /\ allowances = [p \in Accounts \X Accounts |->
                       IF p[2] = AuctionContract THEN Funds[p[1]] ELSE 0]
    /\ AuctionInit(token_controller, token_controller)

ControllerCall ==
    \/ \E key \in VaultKeys, debt \in AuctionDebts, duration \in Durations :
          /\ CreateAuction(auction_controller, key, debt, debt, debt, duration)
          /\ UNCHANGED tokenVars
    \/ \E a \in AuctionIds : TransferWinningBid(auction_controller, a, auction_controller)
    \/ \E new_governance \in Controllers :
          UpdateAuctionGovernance(auction_controller, new_governance)

GovernanceCall ==
    \/ \E new_controller \in Controllers :
          SetAuctionController(auction_governance, new_controller)
    \/ \E admin \in AdminChoices : SetAdmin(auction_governance, admin)

BidderCall ==
    \/ \E bidder \in Users, a \in AuctionIds, amount \in BidAmounts : PlaceBid(bidder, a, amount)
    \/ \E caller \in Users, a \in AuctionIds, b \in BidIds : WithdrawRefund(caller, a, b)

HouseNext ==
    \/ ControllerCall
    \/ GovernanceCall
    \/ BidderCall
    \/ \E a \in AuctionIds : FinalizeAuction(a)
    \/ \E caller \in TokenUsers : HolderStep(caller, TokenPeers) /\ UNCHANGED auctionVars
    \/ Tick

HouseSpec == HouseInit /\ [][HouseNext]_houseVars
=============================================================================
