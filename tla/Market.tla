------------------------------- MODULE Market -------------------------------
(***************************************************************************)
(* The books of one supply and borrow market of the lending pool           *)
(* (src/contracts/tusdt-lending-pool): what a message does to a            *)
(* MarketState m under the rate parameters p, when the market's cash is    *)
(* `cash' and the time is `time' (in ticks, TicksPerHour to the hour).     *)
(***************************************************************************)
EXTENDS Ratio, FiniteSetsExt

CONSTANTS TicksPerHour, HoursPerYear, MaxRatio

ASSUME MarketConstants ==
    /\ {TicksPerHour, HoursPerYear} \subseteq Nat \ {0}
    /\ MaxRatio \in Nat

Params == [base_rate : Nat, slope1 : Nat, slope2 : Nat, optimal_utilization : Nat,
           reserve_factor : Nat]

ValidParams(p) ==
    /\ p.base_rate + p.slope1 + p.slope2 <= RatioOne
    /\ p.optimal_utilization \in 1 .. RatioOne
    /\ p.reserve_factor < RatioOne

MarketState ==
    [total_supplied : Nat, total_debt : Nat, total_scaled_debt : Nat,
     borrow_index : Nat \ {0}, exchange_rate : Nat \ {0},
     reserve_accrued : Nat, last_update : Nat]

EmptyMarket ==
    [total_supplied |-> 0, total_debt |-> 0, total_scaled_debt |-> 0,
     borrow_index |-> RatioOne, exchange_rate |-> RatioOne,
     reserve_accrued |-> 0, last_update |-> 0]

SaturatingSub(a, b) == IF a > b THEN a - b ELSE 0

WithinCap(cap, total) == cap = 0 \/ total <= cap

----------------------------------------------------------------------------
(* Interest. *)

\* pow_fixed, by squaring: every product is rounded down.
PowFixed(base, exponent) ==
    LET pow[s \in Nat \X Nat \X Nat] ==
          LET result == s[1]
              b == s[2]
              e == s[3]
          IN  IF e = 0 THEN result
              ELSE pow[<<IF e % 2 = 1 THEN MulValue(result, b) ELSE result,
                         MulValue(b, b), e \div 2>>]
    IN  pow[<<RatioOne, base, exponent>>]

Utilization(debt, liquidity) == IF liquidity = 0 THEN 0 ELSE (debt * RatioOne) \div liquidity

\* compute_borrow_rate: up to the optimal utilization along the first slope.
BorrowRate(p, utilization) ==
    LET optimal == p.optimal_utilization
        Share(part, whole) == (part * RatioOne) \div whole
    IN  CASE utilization = 0 -> p.base_rate
          [] utilization \in 1 .. optimal ->
               p.base_rate + MulValue(p.slope1, Share(utilization, optimal))
          [] OTHER ->
               p.base_rate + p.slope1
               + MulValue(p.slope2, Share(utilization - optimal, RatioOne - optimal))

DebtFace(scaled, index) == MulValue(index, scaled)

HoursElapsed(m, time) == (time - m.last_update) \div TicksPerHour

\* The borrow index and the exchange rate after the hours that have elapsed.
Grown(m, p, cash, time) ==
    LET utilization == Utilization(m.total_debt, m.total_debt + cash)
        annual == BorrowRate(p, utilization)
        supply_annual == MulValue(MulValue(annual, utilization), RatioOne - p.reserve_factor)
        Growth(rate) == PowFixed(RatioOne + rate \div HoursPerYear, HoursElapsed(m, time))
    IN  [borrow_index |-> MulValue(m.borrow_index, Growth(annual)),
         exchange_rate |-> MulValue(m.exchange_rate, Growth(supply_annual))]

\* accrue_interest fails when a rate overflows or the debt would shrink.
AccrualSucceeds(m, p, cash, time) ==
    m.total_scaled_debt > 0 /\ HoursElapsed(m, time) > 0 =>
        LET grown == Grown(m, p, cash, time)
        IN  /\ {grown.borrow_index, grown.exchange_rate} \subseteq 1 .. MaxRatio
            /\ DebtFace(m.total_scaled_debt, grown.borrow_index) >= m.total_debt

\* Mutant: the share of the suppliers is not taken off the reserve.
ReserveShare_Gross(debt_interest, supply_interest) == debt_interest

\* The interest that the suppliers do not get.
ReserveShare(debt_interest, supply_interest) == SaturatingSub(debt_interest, supply_interest)

\* The market after accrue_interest.
Accrued(m, p, cash, time) ==
    LET grown == Grown(m, p, cash, time)
        debt == DebtFace(m.total_scaled_debt, grown.borrow_index)
        debt_interest == debt - m.total_debt
        supply_interest == MulValue(SaturatingSub(grown.exchange_rate, m.exchange_rate), m.total_supplied)
    IN  IF m.total_scaled_debt = 0 THEN [m EXCEPT !.last_update = time]
        ELSE IF HoursElapsed(m, time) = 0 THEN m
        ELSE [m EXCEPT
                !.total_debt = debt,
                !.borrow_index = grown.borrow_index,
                !.exchange_rate = grown.exchange_rate,
                !.reserve_accrued = @ + ReserveShare(debt_interest, supply_interest),
                \* the remainder of an hour is charged later
                !.last_update = @ + HoursElapsed(m, time) * TicksPerHour]

\* The first hour of a borrow, at the rate it leads to.
Premium(m, p, cash, amount) ==
    LET utilization == Utilization(m.total_debt + amount, m.total_debt + cash)
    IN  MulValue(BorrowRate(p, utilization) \div HoursPerYear, amount)

\* charge_prepaid_hour splits it between the suppliers and the reserve.
PremiumCharged(m, p, premium) ==
    LET share == IF m.total_supplied = 0 THEN 0
                 ELSE MulValue(RatioOne - p.reserve_factor, premium)
    IN  IF premium = 0 THEN m
        ELSE [m EXCEPT
                !.exchange_rate =
                  IF share = 0 THEN @ ELSE @ + (share * RatioOne) \div m.total_supplied,
                !.reserve_accrued = @ + (premium - share)]

----------------------------------------------------------------------------
(* Suppliers. *)

Redeemable(m, ltoken_amount) == MulValue(m.exchange_rate, ltoken_amount)

LTokensFor(m, amount) ==
    IF m.total_supplied = 0 THEN amount ELSE DivValue(m.exchange_rate, amount)

\* Mutant: a market without debt starts again, too.
GenesisRate_Idle(m) == IF m.total_debt = 0 THEN [m EXCEPT !.exchange_rate = RatioOne] ELSE m

\* An empty market starts again at a rate of one.
GenesisRate(m) == IF m.total_supplied = 0 THEN [m EXCEPT !.exchange_rate = RatioOne] ELSE m

\* The claims on the cash: the suppliers' and the reserve.
Obligations(m) == Redeemable(m, m.total_supplied) + m.reserve_accrued

----------------------------------------------------------------------------
(* Borrowers. *)

\* A borrow books the amount and its first hour, rounded up to scaled debt.
ScaledBorrowed(m, booked) == DivValueCeil(m.borrow_index, booked)

\* Mutant: the amount is taken for scaled debt.
ScaledRepaid_Face(m, scaled, amount) == Min({amount, scaled})

\* A full repayment clears the position, and so may a rounded one.
ScaledRepaid(m, scaled, amount) ==
    IF amount >= DebtFace(scaled, m.borrow_index) THEN scaled
    ELSE Min({DivValueCeil(m.borrow_index, amount), scaled})

\* Mutant: the face total moves by the amount and not with the scaled total.
WithScaledDebt_Drift(m, scaled) ==
    [m EXCEPT !.total_scaled_debt = scaled,
              !.total_debt = @ + (scaled - m.total_scaled_debt)]

\* The face total is derived from the scaled one.
WithScaledDebt(m, scaled) ==
    [m EXCEPT !.total_scaled_debt = scaled, !.total_debt = DebtFace(scaled, m.borrow_index)]
=============================================================================
