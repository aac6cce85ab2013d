---------------------------- MODULE MCGovernance ----------------------------
(***************************************************************************)
(* Governance and the treasury for TLC: one account in every role, two     *)
(* electorates in either order, two proposals, and one arrival of TUSDT    *)
(* and of TAO.                                                             *)
(***************************************************************************)
EXTENDS Governance, TLC

CONSTANTS ann, l1, l2, treasury

mcParams ==
    [voting_period |-> 7, quorum_bps |-> 2000, approval_bps |-> 5001,
     submission_open_day |-> 20, submission_close_day |-> 27]
\* A quorum that one leaf alone does not reach, and an approval of zero, which
\* is refused.
mcParamChoices ==
    {[mcParams EXCEPT !.quorum_bps = 5000], [mcParams EXCEPT !.approval_bps = 0]}

\* The first leaf is worth more in the second electorate, the second is only
\* in that one.
mcSnapshots ==
    {[circulating_supply |-> 20, leaves |-> (l1 :> [balance |-> 4, multiplier_bps |-> 10000])],
     [circulating_supply |-> 20,
      leaves |-> (l1 :> [balance |-> 9, multiplier_bps |-> 10000])
              @@ (l2 :> [balance |-> 1, multiplier_bps |-> 10000])]}

\* It takes more than half of its fund: it can be paid once.
mcContents ==
    {[fund |-> "Emergency", token_kind |-> "Native", amount |-> 4, recipient |-> ann],
     NonFunding}
=============================================================================
