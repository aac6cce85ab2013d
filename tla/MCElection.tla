----------------------------- MODULE MCElection -----------------------------
(***************************************************************************)
(* The election for TLC: two accounts, each with the stake to stand for    *)
(* one subnet, four leaves, and days of 2024 and 2026 around the windows, *)
(* the end of a transition and the end of a term.                          *)
(***************************************************************************)
EXTENDS Election

CONSTANTS alice, bob, l1, l2, l3, l4

mcStakes ==
    [claim \in Accounts \X Netuids |->
        IF claim \in {<<alice, 1>>, <<bob, 2>>} THEN {10}
        ELSE IF claim = <<alice, 2>> THEN {9} ELSE {}]

\* The weights are 2, 1, 1 and 0; a quorum is a balance of 10.
mcSnapshot ==
    [circulating_supply |-> 50,
     leaves |-> [leaf \in {l1, l2, l3, l4} |->
        CASE leaf = l1 -> [balance |-> 4, multiplier_bps |-> 10000]
          [] leaf = l2 -> [balance |-> 9, multiplier_bps |-> 5000]
          [] leaf = l3 -> [balance |-> 1, multiplier_bps |-> 10000]
          [] OTHER -> [balance |-> 1, multiplier_bps |-> 5000]]]

mcSnapshots == {mcSnapshot}
=============================================================================
