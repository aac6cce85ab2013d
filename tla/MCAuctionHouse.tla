--------------------------- MODULE MCAuctionHouse ---------------------------
(* The auction contract for TLC: two bidders, two vaults, three auctions. *)
EXTENDS AuctionHouse

CONSTANTS alice, bob, keeper, auctionC

mcAccounts == {alice, bob, keeper, auctionC}
mcFunds == [a \in mcAccounts |-> CASE a = alice -> 4 [] a = bob -> 3 [] OTHER -> 0]
=============================================================================
