------------------------------- MODULE MCPool -------------------------------
(***************************************************************************)
(* The lending pool for TLC.                                               *)
(***************************************************************************)
EXTENDS Pool, TLC

\* Rates that grow by a third in an hour, of which a year may have several.
mcRates ==
    [base_rate |-> 0, slope1 |-> 300, slope2 |-> 500, optimal_utilization |-> 800,
     reserve_factor |-> 200]

mcParams == [a \in Assets |-> mcRates]

\* The second is refused: its rates add up to more than one.
mcParamChoices ==
    {[mcRates EXCEPT !.base_rate = 150, !.reserve_factor = 0],
     [mcRates EXCEPT !.slope2 = 701]}

mcSupplyCap == [a \in Assets |-> 0]
mcBorrowCap == "TAO" :> 3 @@ "TUSDT" :> 6

Scenario(users_tao, users_tusdt, pool_tao, pool_tusdt, alphas, topics) ==
    [users |-> "TAO" :> users_tao @@ "TUSDT" :> users_tusdt,
     pool |-> "TAO" :> pool_tao @@ "TUSDT" :> pool_tusdt,
     alpha |-> alphas @@ RootNetuid :> 0,
     agenda |-> topics]

mcScenario ==
    <<Scenario(0, 4, 0, 1, <<140, 0>>, {"time", "supply"}),
      Scenario(0, 2, 0, 1, <<140, 0>>, {"time", "supply", "rates"}),
      Scenario(0, 2, 0, 1, <<140, 0>>, {"time", "supply", "surplus", "pause"}),
      Scenario(3, 0, 3, 0, <<140, 0>>, {"time", "supply", "staking", "surplus"}),
      Scenario(0, 2, 0, 4, <<140, 0>>, {"time", "prices"}),
      Scenario(0, 2, 0, 2, <<140, 0>>, {"time", "alpha params"}),
      Scenario(2, 2, 4, 4, <<140, 140>>, {"prices", "subnets"}),
      Scenario(0, 0, 0, 0, <<140, 0>>, {"subnets", "custody"}),
      Scenario(2, 0, 3, 0, <<0, 0>>, {"supply", "staking", "root netuid"})>>

mcScenarios == {mcScenario[i] : i \in DOMAIN mcScenario}
mcDelisting == {mcScenario[7]}
mcRoot == {mcScenario[9]}

Config(enabled, buffer, threshold, floor) ==
    [enabled |-> enabled, buffer |-> buffer, threshold |-> threshold, floor |-> floor]

\* The second is refused: the buffer is below the floor.
mcStakeChoices == {Config(TRUE, 2, 0, 2), Config(TRUE, 1, 0, 2)}

\* The price of a TAO in TUSDT, and of an alpha in TAO.
Price(tao, alpha_price) == [tao |-> tao, alpha |-> [netuid \in Netuids |-> alpha_price]]
mcPrice == Price(1000, 100)
mcPrices == {mcPrice, Price(2000, 25)}

mcAlphaParams ==
    [collateral_factor |-> 300, liquidation_threshold |-> 800, liquidation_fee |-> 200,
     supply_cap |-> 0]

\* The last is refused: the factor reaches the threshold.
mcAlphaChoices ==
    {[mcAlphaParams EXCEPT !.collateral_factor = 250, !.liquidation_threshold = 700,
                           !.liquidation_fee = 300],
     [mcAlphaParams EXCEPT !.collateral_factor = 800]}
=============================================================================
