------------------------------ MODULE MCOracle ------------------------------
(* The oracle for TLC: three reporters, two subnets, two governance accounts. *)
EXTENDS Oracle, TLC


\* On subnet 1 a reporter may lack a record, the registration or the stake; the
\* role accounts have no neuron and nobody is registered on subnet 2.
mcStakeInfos ==
    [neuron \in Netuids \X Accounts |->
        IF neuron[1] = 1 /\ neuron[2] \notin RoleAccounts
        THEN {NoStakeInfo} \cup [is_registered : BOOLEAN, stake : {6, 7}]
        ELSE {NoStakeInfo}]

mcSymmetry == Permutations(Accounts \ RoleAccounts) \cup Permutations(RoleAccounts)
=============================================================================
