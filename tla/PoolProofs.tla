----------------------------- MODULE PoolProofs -----------------------------
(***************************************************************************)
(* The lending pool for every number of users, subnets and hotkeys, every  *)
(* rate, price and amount: its types and registry, its root stake, that no *)
(* message hands out more than it brings in, that the totals of its        *)
(* markets and its collateral are what its users hold, that a liquidator   *)
(* gets as much collateral as it pays for, that rates never fall, and that *)
(* nobody borrows or withdraws into the reach of a liquidator.             *)
(***************************************************************************)
EXTENDS Pool, HelperProofs

----------------------------------------------------------------------------
(* Numbers. *)

LEMMA Products ==
    ASSUME NEW a \in Nat, NEW b \in Nat, NEW c \in Nat, b <= c
    PROVE  a * b \in Nat /\ b * a \in Nat /\ a * b = b * a /\ a * b <= a * c
  OBVIOUS

LEMMA Quotients ==
    ASSUME NEW x \in Nat, NEW d \in Nat \ {0}
    PROVE  x \div d \in Nat /\ d * (x \div d) <= x /\ x < d * (x \div d) + d
  OBVIOUS

LEMMA MulValueIsFloor ==
    ASSUME NEW ratio \in Nat, NEW value \in Nat
    PROVE  /\ MulValue(ratio, value) \in Nat
           /\ RatioOne * MulValue(ratio, value) <= ratio * value
           /\ ratio * value < RatioOne * MulValue(ratio, value) + RatioOne
  BY RatioOneAssumption, Quotients, Products DEF MulValue

LEMMA DivValueIsBelow ==
    ASSUME NEW ratio \in Nat \ {0}, NEW value \in Nat
    PROVE  DivValue(ratio, value) \in Nat /\ ratio * DivValue(ratio, value) <= value * RatioOne
  BY RatioOneAssumption, Quotients, Products DEF DivValue

LEMMA DivValueCeilIsAbove ==
    ASSUME NEW ratio \in Nat \ {0}, NEW value \in Nat
    PROVE  /\ DivValueCeil(ratio, value) \in Nat
           /\ value * RatioOne <= ratio * DivValueCeil(ratio, value)
           /\ ratio * DivValueCeil(ratio, value) < value * RatioOne + ratio
<1> DEFINE scaled == value * RatioOne
<1>1. scaled \in Nat
  BY RatioOneAssumption
<1>2. scaled + (ratio - 1) \in Nat
  BY <1>1
<1> DEFINE quotient == (scaled + (ratio - 1)) \div ratio
           product == ratio * quotient
<1>3. quotient \in Nat /\ product <= scaled + (ratio - 1) /\ scaled + (ratio - 1) < product + ratio
  BY <1>2, Quotients
<1>4. product \in Nat
  BY <1>3
<1>5. scaled <= product /\ product < scaled + ratio
  <2> HIDE DEF product, scaled
  <2> QED
    BY <1>1, <1>3, <1>4
<1>6. QED
  BY <1>3, <1>5 DEF DivValueCeil

LEMMA MinOfTwo ==
    ASSUME NEW a \in Int, NEW b \in Int
    PROVE  Min({a, b}) = IF a <= b THEN a ELSE b
  BY DEF Min

LEMMA MaxOfTwo ==
    ASSUME NEW a \in Int, NEW b \in Int
    PROVE  Max({a, b}) = IF a >= b THEN a ELSE b
  BY DEF Max

LEMMA MinOfThree ==
    ASSUME NEW a \in Nat, NEW b \in Nat, NEW c \in Nat
    PROVE  Min({a, b, c}) \in {a, b, c} /\ Min({a, b, c}) <= c
<1>1. \E x \in {a, b, c} : \A y \in {a, b, c} : x <= y
  OBVIOUS
<1>2. QED
  BY <1>1 DEF Min

LEMMA Saturating ==
    ASSUME NEW a \in Int, NEW b \in Int
    PROVE  /\ SaturatingSub(a, b) \in Nat
           /\ SaturatingSub(a, b) >= a - b
           /\ SaturatingSub(a, b) > 0 => SaturatingSub(a, b) = a - b
  BY DEF SaturatingSub

----------------------------------------------------------------------------
(* Interest. *)

Enforced == {p \in Params : ValidParams(p)}

\* A market, updated by a time, whose face total is that of its scaled debt.
Sound(m, time) ==
    /\ m \in MarketState
    /\ m.last_update <= time
    /\ m.total_debt = DebtFace(m.total_scaled_debt, m.borrow_index)

\* The hours charged are hours that have passed.
LEMMA HoursHavePassed ==
    ASSUME NEW m \in MarketState, NEW time \in Nat, m.last_update <= time
    PROVE  /\ HoursElapsed(m, time) \in Nat
           /\ m.last_update + HoursElapsed(m, time) * TicksPerHour \in 0 .. time
<1> DEFINE passed == time - m.last_update
           hours == passed \div TicksPerHour
           product == TicksPerHour * hours
<1>1. passed \in Nat /\ m.last_update \in Nat /\ TicksPerHour \in Nat \ {0}
  BY MarketConstants DEF MarketState
<1>2. hours \in Nat /\ product <= passed
  BY <1>1, Quotients
<1>3. product = hours * TicksPerHour /\ product \in Nat
  BY <1>1, <1>2, Products
<1>4. QED
  BY <1>1, <1>2, <1>3 DEF HoursElapsed

\* An accrual that succeeds leaves a sound market.
LEMMA AccruedIsSound ==
    ASSUME NEW m, NEW p, NEW cash, NEW time \in Nat, Sound(m, time),
           AccrualSucceeds(m, p, cash, time)
    PROVE  Sound(Accrued(m, p, cash, time), time)
<1> DEFINE grown == Grown(m, p, cash, time)
           debt == DebtFace(m.total_scaled_debt, grown.borrow_index)
           supply_interest ==
             MulValue(SaturatingSub(grown.exchange_rate, m.exchange_rate), m.total_supplied)
           hours == HoursElapsed(m, time)
           reserve == ReserveShare(debt - m.total_debt, supply_interest)
<1>0. /\ m \in MarketState /\ m.last_update <= time
      /\ m.total_debt = DebtFace(m.total_scaled_debt, m.borrow_index)
  BY DEF Sound
<1>1. CASE m.total_scaled_debt = 0
  BY <1>0, <1>1 DEF Accrued, DebtFace, MarketState, Sound
<1>2. CASE m.total_scaled_debt # 0 /\ hours = 0
  BY <1>0, <1>2 DEF Accrued, MarketState, Sound
<1>3. CASE m.total_scaled_debt # 0 /\ hours # 0
  <2>1. m.total_scaled_debt > 0 /\ hours > 0
    BY <1>0, <1>3, HoursHavePassed DEF MarketState
  <2>2. /\ grown.borrow_index \in Nat \ {0} /\ grown.exchange_rate \in Nat \ {0}
        /\ debt >= m.total_debt
    BY <1>0, <2>1, MarketConstants DEF AccrualSucceeds
  <2>3. m.last_update + hours * TicksPerHour \in 0 .. time
    BY <1>0, HoursHavePassed
  <2>4. /\ debt = DebtFace(m.total_scaled_debt, grown.borrow_index)
        /\ Accrued(m, p, cash, time) =
             [m EXCEPT !.total_debt = debt,
                       !.borrow_index = grown.borrow_index,
                       !.exchange_rate = grown.exchange_rate,
                       !.reserve_accrued = @ + reserve,
                       !.last_update = @ + hours * TicksPerHour]
    BY <1>0, <1>3 DEF Accrued
  <2> HIDE DEF grown, hours
  <2>5. debt \in Nat
    BY <1>0, <2>2, MulValueIsFloor DEF DebtFace, MarketState
  <2>6. SaturatingSub(grown.exchange_rate, m.exchange_rate) \in Nat
    <3>1. grown.exchange_rate \in Int /\ m.exchange_rate \in Int
      BY <1>0, <2>2 DEF MarketState
    <3>2. QED
      BY <1>0, <3>1, Saturating
  <2>7. supply_interest \in Nat
    BY <1>0, <2>6, MulValueIsFloor DEF MarketState
  <2> HIDE DEF debt, supply_interest
  <2>8. m.total_debt \in Nat /\ debt - m.total_debt \in Int /\ supply_interest \in Int
    BY <1>0, <2>5, <2>7 DEF MarketState
  <2>9. reserve \in Nat
    BY <1>0, <2>8, Saturating DEF ReserveShare
  <2> HIDE DEF reserve
  <2> DEFINE after == Accrued(m, p, cash, time)
             accrued == m.reserve_accrued + reserve
             updated == m.last_update + hours * TicksPerHour
  <2>10. accrued \in Nat /\ updated \in 0 .. time
    BY <1>0, <2>3, <2>9 DEF MarketState
  <2>11. after = [m EXCEPT !.total_debt = debt, !.borrow_index = grown.borrow_index,
                           !.exchange_rate = grown.exchange_rate,
                           !.reserve_accrued = accrued, !.last_update = updated]
    BY <1>0, <2>4
  <2> HIDE DEF after, accrued, updated
  <2>12. /\ after.total_debt = debt /\ after.borrow_index = grown.borrow_index
         /\ after.total_scaled_debt = m.total_scaled_debt
         /\ after.last_update = updated
    BY <1>0, <2>11 DEF MarketState
  <2>13. after \in MarketState
    <3>1. after = [total_supplied |-> m.total_supplied, total_debt |-> debt,
                   total_scaled_debt |-> m.total_scaled_debt,
                   borrow_index |-> grown.borrow_index, exchange_rate |-> grown.exchange_rate,
                   reserve_accrued |-> accrued, last_update |-> updated]
      BY <1>0, <2>11 DEF MarketState
    <3>2. m.total_supplied \in Nat /\ m.total_scaled_debt \in Nat /\ updated \in Nat
      BY <1>0, <2>10 DEF MarketState
    <3>3. QED
      BY <1>0, <2>2, <2>5, <2>10, <3>1, <3>2 DEF MarketState
  <2>14. QED
    BY <2>4, <2>10, <2>12, <2>13 DEF after, Sound
<1>4. QED
  BY <1>1, <1>2, <1>3

LEMMA UtilizationBound ==
    ASSUME NEW debt \in Nat, NEW liquidity \in Nat, debt <= liquidity
    PROVE  Utilization(debt, liquidity) \in 0 .. RatioOne
<1>1. CASE liquidity = 0
  BY <1>1, RatioOneAssumption DEF Utilization
<1>2. CASE liquidity # 0
  <2> DEFINE whole == debt * RatioOne
             u == whole \div liquidity
  <2>1. whole \in Nat /\ whole <= RatioOne * liquidity
    BY RatioOneAssumption, Products
  <2>2. u \in Nat /\ liquidity * u <= whole
    BY <1>2, <2>1, Quotients
  <2>3. u <= RatioOne
    <3>1. SUFFICES ASSUME RatioOne + 1 <= u PROVE FALSE
      BY <2>2, RatioOneAssumption
    <3>2. liquidity * (RatioOne + 1) <= liquidity * u
      BY <2>2, <3>1, RatioOneAssumption, Products
    <3>3. liquidity * (RatioOne + 1) = RatioOne * liquidity + liquidity
      BY RatioOneAssumption
    <3>4. liquidity * u \in Nat /\ RatioOne * liquidity \in Nat
      BY <2>2, RatioOneAssumption
    <3>5. QED
      BY <1>2, <2>1, <2>2, <3>2, <3>3, <3>4
  <2>4. QED
    BY <1>2, <2>2, <2>3 DEF Utilization
<1>3. QED
  BY <1>1, <1>2

LEMMA BorrowRateType ==
    ASSUME NEW p \in Enforced, NEW utilization \in 0 .. RatioOne
    PROVE  BorrowRate(p, utilization) \in Nat
<1> DEFINE optimal == p.optimal_utilization
           Share(part, whole) == (part * RatioOne) \div whole
<1>1. /\ p.base_rate \in Nat /\ p.slope1 \in Nat /\ p.slope2 \in Nat
      /\ optimal \in 1 .. RatioOne
  BY DEF Enforced, Params, ValidParams
<1>2. ASSUME NEW part \in Nat, NEW whole \in Nat \ {0} PROVE Share(part, whole) \in Nat
  BY RatioOneAssumption, Quotients, Products
<1>3. CASE utilization = 0
  BY <1>1, <1>3 DEF BorrowRate
<1>4. CASE utilization # 0 /\ utilization <= optimal
  <2>1. MulValue(p.slope1, Share(utilization, optimal)) \in Nat
    <3>1. Share(utilization, optimal) \in Nat
      BY <1>1, <1>2
    <3>2. QED
      BY <1>1, <3>1, MulValueIsFloor
  <2>2. BorrowRate(p, utilization) = p.base_rate + MulValue(p.slope1, Share(utilization, optimal))
    BY <1>1, <1>4 DEF BorrowRate
  <2>3. QED
    BY <1>1, <2>1, <2>2
<1>5. CASE utilization > optimal
  <2>1. MulValue(p.slope2, Share(utilization - optimal, RatioOne - optimal)) \in Nat
    <3>1. utilization - optimal \in Nat /\ RatioOne - optimal \in Nat \ {0}
      BY <1>1, <1>5, RatioOneAssumption
    <3>2. Share(utilization - optimal, RatioOne - optimal) \in Nat
      BY <1>2, <3>1
    <3>3. QED
      BY <1>1, <3>2, MulValueIsFloor
  <2>2. BorrowRate(p, utilization)
          = p.base_rate + p.slope1 + MulValue(p.slope2, Share(utilization - optimal, RatioOne - optimal))
    BY <1>1, <1>5 DEF BorrowRate
  <2>3. QED
    BY <1>1, <2>1, <2>2
<1>6. QED
  BY <1>1, <1>3, <1>4, <1>5, RatioOneAssumption

LEMMA PremiumType ==
    ASSUME NEW m \in MarketState, NEW p \in Enforced, NEW cash \in Nat, NEW amount \in 0 .. cash
    PROVE  Premium(m, p, cash, amount) \in Nat
<1> DEFINE utilization == Utilization(m.total_debt + amount, m.total_debt + cash)
<1>1. utilization \in 0 .. RatioOne
  BY UtilizationBound DEF MarketState
<1>2. BorrowRate(p, utilization) \in Nat
  BY <1>1, BorrowRateType
<1> DEFINE rate == BorrowRate(p, utilization) \div HoursPerYear
<1>3. rate \in Nat
  BY <1>2, Quotients, MarketConstants
<1>4. Premium(m, p, cash, amount) = MulValue(rate, amount)
  BY DEF Premium
<1> HIDE DEF rate
<1>5. QED
  BY <1>3, <1>4, MulValueIsFloor

----------------------------------------------------------------------------
(* What a message does to the margin of a market. *)

\* An entry of lTokens at the rate of m, rounded down, for an amount.
LEMMA SupplyGains ==
    ASSUME NEW m, NEW time, Sound(m, time), NEW cash \in Nat, NEW amount \in Nat,
           NEW minted, minted = LTokensFor(m, amount),
           NEW after, after = [GenesisRate(m) EXCEPT !.total_supplied = @ + minted]
    PROVE  /\ minted \in Nat
           /\ Sound(after, time)
           /\ Margin(after, cash + amount) >= Margin(m, cash)
<1>1. m \in MarketState
  BY DEF Sound
<1>2. CASE m.total_supplied = 0
  <2>1. minted = amount
    BY <1>2 DEF LTokensFor
  <2>2. GenesisRate(m) = [m EXCEPT !.exchange_rate = RatioOne]
    BY <1>2 DEF GenesisRate
  <2>3. GenesisRate(m).total_supplied + minted = amount
    BY <1>1, <1>2, <2>1, <2>2 DEF MarketState
  <2>4. after = [m EXCEPT !.exchange_rate = RatioOne, !.total_supplied = amount]
    BY <1>1, <2>2, <2>3 DEF MarketState
  <2>5. Sound(after, time)
    BY <1>1, <2>4, RatioOneAssumption DEF Sound, MarketState
  <2>6. /\ after.reserve_accrued = m.reserve_accrued
        /\ after.borrow_index = m.borrow_index
        /\ after.total_scaled_debt = m.total_scaled_debt
        /\ after.exchange_rate = RatioOne
        /\ after.total_supplied = amount
    BY <1>1, <2>4 DEF MarketState
  <2>7. Margin(after, cash + amount) = (cash + amount - m.reserve_accrued) * RatioOne
           + m.borrow_index * m.total_scaled_debt - RatioOne * amount
    BY <1>1, <2>6, RatioOneAssumption DEF Margin, MarketState
  <2>8. Margin(m, cash)
          = (cash - m.reserve_accrued) * RatioOne + m.borrow_index * m.total_scaled_debt
    BY <1>1, <1>2, RatioOneAssumption DEF Margin, MarketState
  <2>9. QED
    BY <1>1, <2>1, <2>5, <2>7, <2>8, RatioOneAssumption DEF MarketState
<1>3. CASE m.total_supplied # 0
  <2>1. minted \in Nat /\ m.exchange_rate * minted <= amount * RatioOne
    BY <1>1, <1>3, DivValueIsBelow DEF LTokensFor, MarketState
  <2>2. after = [m EXCEPT !.total_supplied = @ + minted]
    BY <1>3 DEF GenesisRate
  <2>3. Sound(after, time)
    <3> DEFINE total == m.total_supplied + minted
    <3>1. total \in Nat
      BY <1>1, <2>1 DEF MarketState
    <3>2. after = [m EXCEPT !.total_supplied = total]
      BY <2>2
    <3> HIDE DEF total
    <3>3. QED
      BY <1>1, <3>1, <3>2 DEF Sound, MarketState
  <2>4. /\ after.reserve_accrued = m.reserve_accrued
        /\ after.borrow_index = m.borrow_index
        /\ after.total_scaled_debt = m.total_scaled_debt
        /\ after.exchange_rate = m.exchange_rate
        /\ after.total_supplied = m.total_supplied + minted
    BY <1>1, <2>2 DEF MarketState
  <2>5. m.exchange_rate * (m.total_supplied + minted)
          = m.exchange_rate * m.total_supplied + m.exchange_rate * minted
    BY <1>1, <2>1 DEF MarketState
  <2>6. (cash + amount - m.reserve_accrued) * RatioOne
          = (cash - m.reserve_accrued) * RatioOne + amount * RatioOne
    BY <1>1, RatioOneAssumption DEF MarketState
  <2>7. QED
    BY <1>1, <2>1, <2>3, <2>4, <2>5, <2>6, RatioOneAssumption DEF Margin, MarketState
<1>4. QED
  BY <1>2, <1>3

\* lTokens are redeemed at the rate of m, rounded down.
LEMMA WithdrawalGains ==
    ASSUME NEW m, NEW time, Sound(m, time), NEW cash \in Nat,
           NEW ltoken_amount \in Nat, ltoken_amount <= m.total_supplied,
           NEW paid, paid = Redeemable(m, ltoken_amount),
           NEW after, after = GenesisRate([m EXCEPT !.total_supplied = @ - ltoken_amount])
    PROVE  /\ paid \in Nat
           /\ Sound(after, time)
           /\ Margin(after, cash - paid) >= Margin(m, cash)
<1> DEFINE left == m.total_supplied - ltoken_amount
           less == [m EXCEPT !.total_supplied = left]
           rate == after.exchange_rate
<1>1. m \in MarketState
  BY DEF Sound
<1>2. left \in Nat
  BY <1>1 DEF MarketState
<1>3. paid \in Nat /\ RatioOne * paid <= m.exchange_rate * ltoken_amount
  BY <1>1, MulValueIsFloor DEF Redeemable, MarketState
<1>4. after = GenesisRate(less)
  OBVIOUS
<1> HIDE DEF left
<1>5. less \in MarketState /\ less.total_supplied = left
  BY <1>1, <1>2 DEF MarketState
<1>6. /\ Sound(after, time)
      /\ after.reserve_accrued = m.reserve_accrued
      /\ after.borrow_index = m.borrow_index
      /\ after.total_scaled_debt = m.total_scaled_debt
      /\ after.total_supplied = left
      /\ rate \in Nat
      /\ left # 0 => rate = m.exchange_rate
  <2>1. CASE left = 0
    <3>1. after = [less EXCEPT !.exchange_rate = RatioOne]
      BY <1>4, <1>5, <2>1 DEF GenesisRate
    <3>2. QED
      BY <1>1, <1>5, <2>1, <3>1, RatioOneAssumption DEF Sound, MarketState
  <2>2. CASE left # 0
    <3>1. after = less
      BY <1>4, <1>5, <2>2 DEF GenesisRate
    <3>2. QED
      BY <1>1, <1>2, <1>5, <2>2, <3>1 DEF Sound, MarketState
  <2>3. QED
    BY <2>1, <2>2
<1>7. rate * left = m.exchange_rate * left
  BY <1>1, <1>2, <1>6 DEF MarketState
<1>8. m.exchange_rate * m.total_supplied = m.exchange_rate * left + m.exchange_rate * ltoken_amount
  BY <1>1, <1>2 DEF MarketState, left
<1>9. (cash - paid - m.reserve_accrued) * RatioOne
        = (cash - m.reserve_accrued) * RatioOne - RatioOne * paid
  BY <1>1, <1>3, RatioOneAssumption DEF MarketState
<1>10. Margin(after, cash - paid) = (cash - paid - m.reserve_accrued) * RatioOne
          + m.borrow_index * m.total_scaled_debt - rate * left
  BY <1>6 DEF Margin
<1>11. /\ m.borrow_index * m.total_scaled_debt \in Nat
       /\ m.exchange_rate * left \in Nat /\ m.exchange_rate * ltoken_amount \in Nat
       /\ RatioOne * paid \in Nat /\ (cash - m.reserve_accrued) * RatioOne \in Int
  BY <1>1, <1>2, <1>3, RatioOneAssumption DEF MarketState
<1>12. Margin(m, cash) = (cash - m.reserve_accrued) * RatioOne
          + m.borrow_index * m.total_scaled_debt - m.exchange_rate * m.total_supplied
  BY DEF Margin
<1>13. Margin(after, cash - paid) >= Margin(m, cash)
  BY <1>3, <1>7, <1>8, <1>9, <1>10, <1>11, <1>12
<1>14. QED
  BY <1>3, <1>6, <1>13

\* The suppliers' share of a premium raises their claims by that at most, and
\* the reserve gets the rest.
LEMMA PremiumIsShared ==
    ASSUME NEW m \in MarketState, NEW p \in Enforced, NEW premium \in Nat
    PROVE  \E share \in 0 .. premium, rate \in Nat \ {0} :
               /\ PremiumCharged(m, p, premium)
                    = [m EXCEPT !.exchange_rate = rate,
                                !.reserve_accrued = m.reserve_accrued + (premium - share)]
               /\ rate * m.total_supplied <= m.exchange_rate * m.total_supplied + share * RatioOne
<1> DEFINE cut == RatioOne - p.reserve_factor
           share == IF m.total_supplied = 0 THEN 0 ELSE MulValue(cut, premium)
           growth == (share * RatioOne) \div m.total_supplied
           rate == IF share = 0 THEN m.exchange_rate ELSE m.exchange_rate + growth
<1>1. cut \in 0 .. RatioOne
  BY RatioOneAssumption DEF Enforced, Params, ValidParams
<1>2. share \in 0 .. premium
  <2>1. MulValue(cut, premium) \in Nat /\ RatioOne * MulValue(cut, premium) <= cut * premium
    <3>1. cut \in Nat
      BY <1>1, RatioOneAssumption
    <3> HIDE DEF cut
    <3>2. QED
      BY <3>1, MulValueIsFloor
  <2>2. cut * premium <= RatioOne * premium
    BY <1>1, RatioOneAssumption, Products
  <2>3. MulValue(cut, premium) <= premium
    <3>1. SUFFICES ASSUME premium + 1 <= MulValue(cut, premium) PROVE FALSE
      BY <2>1
    <3>2. RatioOne * (premium + 1) <= RatioOne * MulValue(cut, premium)
      BY <2>1, <3>1, RatioOneAssumption, Products
    <3>3. RatioOne * (premium + 1) = RatioOne * premium + RatioOne
      BY RatioOneAssumption
    <3>4. RatioOne * premium \in Nat /\ RatioOne * MulValue(cut, premium) \in Nat
          /\ cut * premium \in Nat
      BY <1>1, <2>1, RatioOneAssumption
    <3>5. QED
      BY <2>1, <2>2, <3>2, <3>3, <3>4, RatioOneAssumption
  <2>4. QED
    BY <2>1, <2>3
<1>3. rate \in Nat \ {0}
      /\ rate * m.total_supplied <= m.exchange_rate * m.total_supplied + share * RatioOne
  <2> HIDE DEF cut
  <2>1. share * RatioOne \in Nat /\ m.exchange_rate * m.total_supplied \in Nat
    BY <1>2, RatioOneAssumption DEF MarketState
  <2>2. CASE share = 0
    BY <2>1, <2>2 DEF MarketState
  <2>3. CASE share # 0
    <3>1. m.total_supplied \in Nat \ {0}
      BY <2>3 DEF MarketState
    <3> HIDE DEF share
    <3>2. growth \in Nat /\ m.total_supplied * growth <= share * RatioOne
      BY <2>1, <3>1, Quotients
    <3>3. rate = m.exchange_rate + growth
      BY <2>3
    <3> HIDE DEF growth
    <3>4. rate * m.total_supplied = m.exchange_rate * m.total_supplied + m.total_supplied * growth
      BY <3>1, <3>2, <3>3 DEF MarketState
    <3>5. m.total_supplied * growth \in Nat
      BY <3>1, <3>2
    <3>6. rate \in Nat \ {0}
      BY <3>2, <3>3 DEF MarketState
    <3>7. QED
      BY <2>1, <3>2, <3>4, <3>5, <3>6
  <2>4. QED
    BY <2>2, <2>3
<1> DEFINE after == PremiumCharged(m, p, premium)
<1>4. after = [m EXCEPT !.exchange_rate = rate,
                        !.reserve_accrued = m.reserve_accrued + (premium - share)]
  <2>1. CASE premium = 0
    <3>1. share = 0 /\ after = m
      BY <1>2, <2>1 DEF PremiumCharged
    <3> HIDE DEF share
    <3>2. rate = m.exchange_rate /\ m.reserve_accrued + (premium - share) = m.reserve_accrued
      BY <2>1, <3>1 DEF MarketState
    <3>3. QED
      BY <3>1, <3>2 DEF MarketState
  <2>2. CASE premium # 0
    BY <2>2 DEF PremiumCharged
  <2>3. QED
    BY <2>1, <2>2
<1>5. QED
  BY <1>2, <1>3, <1>4

\* A borrow books what it hands out and its premium, rounded up.
LEMMA BorrowGains ==
    ASSUME NEW m, NEW time, Sound(m, time), NEW p \in Enforced, NEW cash \in Nat,
           NEW amount \in 0 .. cash,
           NEW premium, premium = Premium(m, p, cash, amount),
           NEW scaled, scaled = ScaledBorrowed(m, amount + premium),
           NEW after,
           after = WithScaledDebt(PremiumCharged(m, p, premium), m.total_scaled_debt + scaled)
    PROVE  /\ scaled \in Nat
           /\ Sound(after, time)
           /\ Margin(after, cash - amount) >= Margin(m, cash)
<1> DEFINE total == m.total_scaled_debt + scaled
           index == m.borrow_index
           face == DebtFace(total, index)
<1>1. m \in MarketState /\ m.last_update <= time
  BY DEF Sound
<1>2. premium \in Nat
  BY <1>1, PremiumType
<1>3. scaled \in Nat /\ (amount + premium) * RatioOne <= index * scaled
  <2>1. m.borrow_index \in Nat \ {0} /\ amount + premium \in Nat
    BY <1>1, <1>2 DEF MarketState
  <2>2. scaled = DivValueCeil(m.borrow_index, amount + premium)
    BY DEF ScaledBorrowed
  <2>3. QED
    BY <2>1, <2>2, DivValueCeilIsAbove
<1>4. PICK share \in 0 .. premium, rate \in Nat \ {0} :
        /\ PremiumCharged(m, p, premium)
             = [m EXCEPT !.exchange_rate = rate,
                         !.reserve_accrued = m.reserve_accrued + (premium - share)]
        /\ rate * m.total_supplied <= m.exchange_rate * m.total_supplied + share * RatioOne
  BY <1>1, <1>2, PremiumIsShared
<1> DEFINE reserve == m.reserve_accrued + (premium - share)
<1>5. total \in Nat /\ reserve \in Nat /\ index \in Nat
  BY <1>1, <1>2, <1>3, <1>4 DEF MarketState
<1>6. face \in Nat
  BY <1>5, MulValueIsFloor DEF DebtFace
<1>7. after = [total_supplied |-> m.total_supplied, total_debt |-> face,
               total_scaled_debt |-> total, borrow_index |-> index, exchange_rate |-> rate,
               reserve_accrued |-> reserve, last_update |-> m.last_update]
  <2> DEFINE charged == PremiumCharged(m, p, premium)
  <2>1. charged = [total_supplied |-> m.total_supplied, total_debt |-> m.total_debt,
                   total_scaled_debt |-> m.total_scaled_debt, borrow_index |-> index,
                   exchange_rate |-> rate,
                   reserve_accrued |-> reserve, last_update |-> m.last_update]
    BY <1>1, <1>4 DEF MarketState
  <2>2. after = [charged EXCEPT !.total_scaled_debt = total,
                                !.total_debt = DebtFace(total, charged.borrow_index)]
    BY DEF WithScaledDebt
  <2> HIDE DEF charged, total, reserve
  <2>3. QED
    BY <2>1, <2>2
<1> HIDE DEF reserve, total
<1>8. Sound(after, time)
  BY <1>1, <1>4, <1>5, <1>6, <1>7 DEF Sound, MarketState
<1>9. Margin(after, cash - amount)
        = (cash - amount - reserve) * RatioOne + index * total - rate * m.total_supplied
  BY <1>7 DEF Margin
<1>10. index * total = index * m.total_scaled_debt + index * scaled
  BY <1>1, <1>3, <1>5 DEF total, MarketState
<1>11. (cash - amount - reserve) * RatioOne
         = (cash - m.reserve_accrued) * RatioOne - (amount + premium) * RatioOne + share * RatioOne
  BY <1>1, <1>2, <1>4, RatioOneAssumption DEF reserve, MarketState
<1>12. Margin(m, cash) = (cash - m.reserve_accrued) * RatioOne
          + index * m.total_scaled_debt - m.exchange_rate * m.total_supplied
  BY DEF Margin
<1>13. /\ index * m.total_scaled_debt \in Nat /\ index * scaled \in Nat
       /\ rate * m.total_supplied \in Nat /\ m.exchange_rate * m.total_supplied \in Nat
       /\ share * RatioOne \in Nat /\ (amount + premium) * RatioOne \in Nat
       /\ (cash - m.reserve_accrued) * RatioOne \in Int
  BY <1>1, <1>2, <1>3, <1>4, <1>5, RatioOneAssumption DEF MarketState
<1>14. Margin(after, cash - amount) >= Margin(m, cash)
  BY <1>3, <1>4, <1>9, <1>10, <1>11, <1>12, <1>13
<1>15. QED
  BY <1>3, <1>8, <1>14

\* A repayment of all or a part of the debt of a position retires at most one
\* unit of scaled debt, or of debt, more than it pays for.
LEMMA RepaymentLosesDust ==
    ASSUME NEW m \in MarketState, NEW time, Sound(m, time), NEW cash \in Nat,
           NEW position \in Nat, NEW paid \in Nat, paid <= DebtFace(position, m.borrow_index),
           NEW scaled \in Int, scaled = ScaledRepaid(m, position, paid),
           m.total_scaled_debt - scaled \in Nat
    PROVE  /\ scaled \in 0 .. position
           /\ Sound(Retired(m, scaled), time)
           /\ Margin(Retired(m, scaled), cash + paid)
                > Margin(m, cash) - Max({RatioOne, m.borrow_index})
<1> DEFINE after == Retired(m, scaled)
           total == m.total_scaled_debt - scaled
           index == m.borrow_index
           debt == DebtFace(position, index)
           face == DebtFace(total, index)
           dust == Max({RatioOne, index})
<1>1. m \in MarketState /\ m.last_update <= time /\ index \in Nat \ {0}
  BY DEF Sound, MarketState
<1>2. debt \in Nat /\ index * position < RatioOne * debt + RatioOne
  BY <1>1, MulValueIsFloor DEF DebtFace
<1>3. paid \in Nat /\ paid <= debt
  BY <1>2
<1>4. dust \in Nat /\ dust >= RatioOne /\ dust >= index
  BY <1>1, MaxOfTwo, RatioOneAssumption
<1> HIDE DEF dust, debt
<1>5. scaled \in 0 .. position /\ index * scaled < paid * RatioOne + dust
  <2>1. CASE paid >= debt
    <3>1. scaled = position /\ paid = debt
      BY <1>2, <1>3, <2>1 DEF ScaledRepaid, debt
    <3>2. RatioOne * debt = paid * RatioOne /\ RatioOne * debt \in Nat /\ index * position \in Nat
      BY <1>1, <1>2, <3>1, RatioOneAssumption
    <3>3. QED
      BY <1>2, <1>4, <3>1, <3>2, RatioOneAssumption
  <2>2. CASE paid < debt
    <3> DEFINE up == DivValueCeil(index, paid)
    <3>1. up \in Nat /\ index * up < paid * RatioOne + index
      BY <1>1, <1>3, DivValueCeilIsAbove
    <3>2. scaled = Min({up, position})
      BY <1>2, <1>3, <2>2 DEF ScaledRepaid, debt
    <3> HIDE DEF up
    <3>3. scaled \in Nat /\ scaled <= up /\ scaled <= position
      BY <3>1, <3>2, MinOfTwo
    <3>4. index * scaled <= index * up /\ index * scaled \in Nat /\ index * up \in Nat
      BY <1>1, <3>1, <3>3, Products
    <3>5. paid * RatioOne \in Nat
      BY <1>3, RatioOneAssumption
    <3>6. QED
      BY <1>1, <1>4, <3>1, <3>3, <3>4, <3>5
  <2>3. QED
    BY <1>2, <1>3, <2>1, <2>2
<1>6. total \in Nat
  BY <1>1, <1>5 DEF MarketState
<1>7. face \in Nat
  BY <1>1, <1>6, MulValueIsFloor DEF DebtFace
<1>8. after = [m EXCEPT !.total_scaled_debt = total, !.total_debt = face]
  BY DEF WithScaledDebt, Retired
<1>9. face = DebtFace(total, index)
  OBVIOUS
<1> HIDE DEF total, face
<1>10. Sound(after, time) /\ after.borrow_index = index
  BY <1>1, <1>6, <1>7, <1>8, <1>9 DEF Sound, MarketState
<1>11. Margin(after, cash + paid) = (cash + paid - m.reserve_accrued) * RatioOne
          + index * total - m.exchange_rate * m.total_supplied
  <2>1. /\ after.reserve_accrued = m.reserve_accrued
        /\ after.borrow_index = index
        /\ after.total_scaled_debt = total
        /\ after.exchange_rate = m.exchange_rate
        /\ after.total_supplied = m.total_supplied
    BY <1>1, <1>8 DEF MarketState
  <2>2. QED
    BY <1>1, <1>3, <1>6, <2>1, RatioOneAssumption DEF Margin, MarketState
<1>12. index * m.total_scaled_debt = index * total + index * scaled
  BY <1>1, <1>5, <1>6 DEF total, MarketState
<1>13. (cash + paid - m.reserve_accrued) * RatioOne
         = (cash - m.reserve_accrued) * RatioOne + paid * RatioOne
  BY <1>1, <1>3, RatioOneAssumption DEF MarketState
<1>14. /\ index * total \in Nat /\ index * scaled \in Nat /\ paid * RatioOne \in Nat
       /\ m.exchange_rate * m.total_supplied \in Nat
       /\ (cash - m.reserve_accrued) * RatioOne \in Int
  BY <1>1, <1>3, <1>5, <1>6, RatioOneAssumption DEF MarketState
<1>15. Margin(m, cash) = (cash - m.reserve_accrued) * RatioOne
          + index * m.total_scaled_debt - m.exchange_rate * m.total_supplied
  BY DEF Margin
<1>16. Margin(after, cash + paid) > Margin(m, cash) - dust
  BY <1>4, <1>5, <1>11, <1>12, <1>13, <1>14, <1>15
<1>17. QED
  BY <1>5, <1>10, <1>16 DEF dust

----------------------------------------------------------------------------
(* The invariant of the money side. *)

Positions == [Assets -> [Users -> [ltoken_balance : Nat, scaled_debt : Nat]]]

\* Every market is sound, and positions have their types.
BooksOK ==
    /\ markets \in [Assets -> MarketState]
    /\ \A a \in Assets : Sound(markets[a], now)
    /\ positions \in Positions

TermsOK ==
    /\ params \in [Assets -> Enforced]
    /\ pending_params \in [Assets -> {NoPending} \cup [params : Enforced, execute_after : Nat]]
    /\ stake_config \in {c \in StakeConfig : MinRootStakeFloor <= c.floor /\ c.floor <= c.buffer}
    /\ root_hotkey \in RootHotkeys
    /\ now \in Nat
    /\ paused \in BOOLEAN
    /\ agenda \subseteq Topics

SleevesOK ==
    /\ native \in Nat /\ staked_tao \in Nat
    /\ root_stake \in [RootHotkeys -> Nat]
    /\ swept \in BOOLEAN
    /\ RootStakeIsBooked

PursesOK ==
    /\ tusdt \in Nat
    /\ wallets \in [Assets -> [Users -> Nat]]

LendingInv == BooksOK /\ TermsOK /\ SleevesOK /\ PursesOK

LEMMA LendingInvImplies == LendingInv => LendingTypeOK /\ DebtIsFace /\ RootStakeIsBooked
  BY DEF LendingInv, BooksOK, TermsOK, SleevesOK, PursesOK, LendingTypeOK, DebtIsFace, Sound,
         Enforced, Positions

LEMMA TermsKept ==
    ASSUME TermsOK, UNCHANGED termVars
    PROVE  TermsOK'
  BY DEF TermsOK, termVars, rateVars, stakingVars

\* What a sweep stakes was free before.
LEMMA SweepKeepsSleeves ==
    ASSUME SleevesOK, TermsOK, UNCHANGED <<root_hotkey, stake_config, agenda>>,
           NEW balance \in Nat, SweepToRoot(balance)
    PROVE  SleevesOK' /\ native' + staked_tao' = balance + staked_tao
<1> DEFINE excess == SweepExcess(balance)
           floor == stake_config.floor
<1>1. /\ stake_config.buffer \in Nat /\ stake_config.threshold \in Nat
      /\ floor \in Nat /\ MinRootStakeFloor \in Nat \ {0} /\ MinRootStakeFloor <= floor
  BY LendingConstants DEF TermsOK, StakeConfig
<1>2. excess \in 0 .. balance
  BY <1>1 DEF SweepExcess, SaturatingSub
<1>3. CASE Stake(balance)
  <2>1. /\ excess >= floor
        /\ native' = balance - excess /\ staked_tao' = staked_tao + excess
        /\ root_stake' = [root_stake EXCEPT ![root_hotkey] = @ + excess] /\ swept' = TRUE
    BY <1>3 DEF Stake, SweepDue
  <2> HIDE DEF excess, floor
  <2>2. native' \in Nat /\ staked_tao' \in Nat /\ staked_tao' >= MinRootStakeFloor
        /\ native' + staked_tao' = balance + staked_tao
    BY <1>1, <1>2, <2>1 DEF SleevesOK
  <2>3. ~On("root netuid")' =>
          root_stake' = [hotkey \in RootHotkeys |-> IF hotkey = root_hotkey' THEN staked_tao' ELSE 0]
    BY <1>2, <2>1 DEF SleevesOK, RootStakeIsBooked, TermsOK, On
  <2>4. root_stake' \in [RootHotkeys -> Nat]
    BY <1>2, <2>1 DEF SleevesOK, TermsOK
  <2>5. staked_tao' \notin 1 .. MinRootStakeFloor - 1
    BY <1>1, <2>2
  <2>6. QED
    BY <2>1, <2>2, <2>3, <2>4, <2>5 DEF SleevesOK, RootStakeIsBooked
<1>4. CASE native' = balance /\ swept' = (swept \/ SweepDue(balance))
           /\ UNCHANGED <<staked_tao, root_stake>>
  BY <1>4 DEF SleevesOK, RootStakeIsBooked, On
<1>5. QED
  BY <1>3, <1>4 DEF SweepToRoot

\* What is unstaked leaves nothing, or a stake that the chain accepts.
LEMMA TopUpLeavesNoDust ==
    ASSUME SleevesOK, TermsOK, NEW shortfall \in Nat, NEW available \in Nat
    PROVE  /\ TopUp(shortfall, available) \in Nat
           /\ TopUp(shortfall, available) \in {0, staked_tao}
              \/ staked_tao - TopUp(shortfall, available) \notin 1 .. stake_config.floor - 1
<1> DEFINE take == Min({shortfall, available, staked_tao})
<1>1. take \in Nat
  BY MinOfThree DEF SleevesOK
<1> HIDE DEF take
<1>2. TopUp(shortfall, available) =
        IF take > 0 /\ staked_tao - take \in 1 .. stake_config.floor - 1 THEN staked_tao ELSE take
  BY DEF TopUp, take
<1>3. QED
  BY <1>1, <1>2 DEF SleevesOK

LEMMA UnstakeKeepsSleeves ==
    ASSUME SleevesOK, TermsOK, UNCHANGED <<root_hotkey, swept, agenda>>,
           NEW shortfall \in Nat, NEW available \in Available,
           NEW take, take = TopUp(shortfall, available), Unstake(take), native' \in Nat
    PROVE  SleevesOK' /\ take \in Nat /\ staked_tao' = staked_tao - take
<1>1. available \in Nat
  BY DEF Available
<1>2. /\ take \in Nat
      /\ take \in {0, staked_tao} \/ staked_tao - take \notin 1 .. stake_config.floor - 1
  BY <1>1, TopUpLeavesNoDust
<1>3. /\ MinRootStakeFloor \in Nat \ {0} /\ stake_config.floor \in Nat
      /\ MinRootStakeFloor <= stake_config.floor
  BY LendingConstants DEF TermsOK, StakeConfig
<1>4. /\ staked_tao - take \in Nat /\ staked_tao \in Nat
      /\ staked_tao \notin 1 .. MinRootStakeFloor - 1
  <2>1. take \in {staked_tao, Min({shortfall, available, staked_tao})}
    BY DEF TopUp
  <2>2. Min({shortfall, available, staked_tao}) \in 0 .. staked_tao /\ staked_tao \in Nat
    BY <1>1, MinOfThree DEF SleevesOK
  <2>3. staked_tao \notin 1 .. MinRootStakeFloor - 1
    BY DEF SleevesOK, RootStakeIsBooked
  <2>4. QED
    BY <2>1, <2>2, <2>3
<1>5. /\ staked_tao' \in Nat /\ staked_tao' = staked_tao - take
      /\ root_stake[root_hotkey] - take \in Nat
      /\ root_stake' = [root_stake EXCEPT ![root_hotkey] = @ - take]
  BY <1>2, <1>4 DEF Unstake, SleevesOK, TermsOK
<1>6. staked_tao' \notin 1 .. MinRootStakeFloor - 1
  BY <1>2, <1>3, <1>4, <1>5
<1>7. ~On("root netuid")' =>
        root_stake' = [hotkey \in RootHotkeys |-> IF hotkey = root_hotkey' THEN staked_tao' ELSE 0]
  BY <1>5 DEF SleevesOK, RootStakeIsBooked, TermsOK, On
<1>8. root_stake' \in [RootHotkeys -> Nat]
  BY <1>5 DEF SleevesOK
<1>9. QED
  BY <1>2, <1>5, <1>6, <1>7, <1>8 DEF SleevesOK, RootStakeIsBooked

\* Free TAO comes and goes beside the stake.
LEMMA FreeTaoMoves ==
    ASSUME SleevesOK, UNCHANGED <<staked_tao, swept, root_stake, root_hotkey, agenda>>,
           native' \in Nat
    PROVE  SleevesOK'
<1>1. RootStakeIsBooked'
  BY DEF SleevesOK, RootStakeIsBooked, On
<1>2. QED
  BY <1>1 DEF SleevesOK

\* Paying out TAO takes as much from both sleeves together.
LEMMA PayTaoKeepsSleeves ==
    ASSUME SleevesOK, TermsOK, PursesOK, UNCHANGED <<root_hotkey, stake_config, agenda>>,
           NEW user \in Users, NEW amount \in Nat, PayTao(user, amount)
    PROVE  /\ SleevesOK' /\ PursesOK' /\ tusdt' = tusdt
           /\ native' + staked_tao' = native + staked_tao - amount
<1> DEFINE shortfall == SaturatingSub(amount, native)
<1>1. shortfall \in Nat /\ shortfall >= amount - native
  <2>1. amount \in Int /\ native \in Int
    BY DEF SleevesOK
  <2>2. QED
    BY <2>1, Saturating
<1>2. PICK available \in Available :
        /\ TopUp(shortfall, available) \in shortfall .. available
        /\ Unstake(TopUp(shortfall, available))
        /\ native' = native + TopUp(shortfall, available) - amount
  BY DEF PayTao
<1> HIDE DEF shortfall
<1> DEFINE take == TopUp(shortfall, available)
<1>3. available \in Nat
  BY DEF Available
<1>4. take \in Nat /\ take >= shortfall
  BY <1>1, <1>2, <1>3
<1>5. native' = native + take - amount /\ Unstake(take)
  BY <1>2
<1>6. native' \in Nat
  <2> HIDE DEF take
  <2>1. QED
    BY <1>1, <1>4, <1>5 DEF SleevesOK
<1>7. SleevesOK' /\ staked_tao' = staked_tao - take
  BY <1>1, <1>5, <1>6, UnstakeKeepsSleeves DEF PayTao
<1>8. PursesOK' /\ tusdt' = tusdt
  BY DEF PayTao, Credit, PursesOK, Assets
<1>9. native' + staked_tao' = native + staked_tao - amount
  <2> HIDE DEF take
  <2>1. QED
    BY <1>4, <1>5, <1>7 DEF SleevesOK
<1>10. QED
  BY <1>7, <1>8, <1>9

----------------------------------------------------------------------------
(* The steps. *)

\* What MessageLosesOnlyDust asks of a market in a step.
LosesOnlyDust(a) ==
    \/ markets'[a] = markets[a] /\ MarketCash(a)' = MarketCash(a)
    \/ UNCHANGED positions /\ MarketCash(a)' >= Obligations(markets[a])'
    \/ \E value \in Values :
         Margin(markets[a], MarketCash(a))'
         > Margin(Current(a, value), MarketCash(a)) - Max({RatioOne, markets'[a].borrow_index})

\* A step that keeps the invariant and, while it neither takes time nor changes
\* rates, loses only dust.
Good ==
    /\ LendingInv'
    /\ now' = now /\ params' = params => \A a \in Assets : LosesOnlyDust(a)

LEMMA CashType ==
    ASSUME SleevesOK, PursesOK, NEW a \in Assets
    PROVE  MarketCash(a) \in Nat
  BY DEF SleevesOK, PursesOK, MarketCash

LEMMA CashOfMarkets ==
    /\ MarketCash("TAO") = native + staked_tao /\ MarketCash("TAO")' = native' + staked_tao'
    /\ MarketCash("TUSDT") = tusdt /\ MarketCash("TUSDT")' = tusdt'
    /\ Assets \ {"TAO"} = {"TUSDT"} /\ Assets \ {"TUSDT"} = {"TAO"}
  BY DEF MarketCash, Assets

LEMMA CurrentIsSound ==
    ASSUME BooksOK, TermsOK, NEW a \in Assets, NEW value, CanAccrue(a, value)
    PROVE  Sound(Current(a, value), now) /\ Current(a, value) \in MarketState
<1>1. Sound(markets[a], now) /\ now \in Nat
  BY DEF BooksOK, TermsOK
<1>2. AccrualSucceeds(markets[a], params[a], MarketCash(a) + value, now)
  BY DEF CanAccrue
<1>3. Sound(Current(a, value), now)
  BY <1>1, <1>2, AccruedIsSound DEF Current
<1>4. QED
  BY <1>3 DEF Sound

LEMMA MarginType ==
    ASSUME NEW m \in MarketState, NEW cash \in Int
    PROVE  Margin(m, cash) \in Int
  BY RatioOneAssumption DEF Margin, MarketState

LEMMA DustIsPositive ==
    ASSUME NEW m \in MarketState
    PROVE  Max({RatioOne, m.borrow_index}) \in Nat \ {0}
  BY MaxOfTwo, RatioOneAssumption DEF MarketState

\* A step that stores one market.
LEMMA StoreKeepsBooks ==
    ASSUME BooksOK, NEW a \in Assets, NEW after, Sound(after, now), Store(a, after), now' = now,
           positions' \in Positions
    PROVE  BooksOK'
<1>1. after \in MarketState
  BY DEF Sound
<1>2. \A b \in Assets : markets'[b] = IF b = a THEN after ELSE markets[b]
  BY DEF BooksOK, Store
<1>3. markets' \in [Assets -> MarketState]
  BY <1>1 DEF BooksOK, Store
<1>4. \A b \in Assets : Sound(markets'[b], now')
  BY <1>2 DEF BooksOK
<1>5. QED
  BY <1>3, <1>4 DEF BooksOK, Sound

\* Such a step is good when its market loses only dust, and the other market's
\* cash stays.
LEMMA StoreIsGood ==
    ASSUME BooksOK, TermsOK, UNCHANGED termVars, SleevesOK', PursesOK',
           NEW a \in Assets, NEW after, Sound(after, now), Store(a, after),
           positions' \in Positions,
           \A b \in Assets \ {a} : MarketCash(b)' = MarketCash(b),
           LosesOnlyDust(a)
    PROVE  Good
<1>1. BooksOK'
  BY StoreKeepsBooks DEF termVars
<1>2. TermsOK'
  BY TermsKept
<1>3. \A b \in Assets \ {a} : markets'[b] = markets[b]
  BY DEF BooksOK, Store
<1>4. \A b \in Assets : LosesOnlyDust(b)
  BY <1>3 DEF LosesOnlyDust
<1>5. QED
  BY <1>1, <1>2, <1>4 DEF Good, LendingInv

\* A step that leaves the markets and their cash alone is good.
LEMMA StillIsGood ==
    ASSUME BooksOK, UNCHANGED <<bookVars, now>>, TermsOK', SleevesOK', PursesOK',
           \A a \in Assets : MarketCash(a)' = MarketCash(a)
    PROVE  Good
<1>1. markets' = markets /\ positions' = positions /\ now' = now
  BY DEF bookVars
<1>2. BooksOK'
  BY <1>1 DEF BooksOK, Sound
<1>3. QED
  BY <1>1, <1>2 DEF Good, LendingInv, LosesOnlyDust

\* A message that stores one market, which gains but for the dust.
LEMMA MessageIsGood ==
    ASSUME LendingInv, UNCHANGED termVars, SleevesOK', PursesOK', positions' \in Positions,
           NEW a \in Assets, NEW value \in Values, CanAccrue(a, value),
           NEW after, Sound(after, now), Store(a, after),
           \A b \in Assets \ {a} : MarketCash(b)' = MarketCash(b),
           Margin(after, MarketCash(a)')
             > Margin(Current(a, value), MarketCash(a)) - Max({RatioOne, after.borrow_index})
    PROVE  Good
<1>1. markets'[a] = after
  BY DEF LendingInv, BooksOK, Store
<1>2. Margin(markets[a], MarketCash(a))' = Margin(after, MarketCash(a)')
  BY <1>1 DEF Margin
<1>3. LosesOnlyDust(a)
  BY <1>1, <1>2 DEF LosesOnlyDust
<1>4. QED
  BY <1>3, StoreIsGood DEF LendingInv

LEMMA GainIsGood ==
    ASSUME LendingInv, UNCHANGED termVars, SleevesOK', PursesOK', positions' \in Positions,
           NEW a \in Assets, NEW value \in Values, CanAccrue(a, value),
           NEW after, Sound(after, now), Store(a, after),
           \A b \in Assets \ {a} : MarketCash(b)' = MarketCash(b),
           Margin(after, MarketCash(a)') >= Margin(Current(a, value), MarketCash(a))
    PROVE  Good
<1>1. Current(a, value) \in MarketState /\ after \in MarketState
  BY CurrentIsSound DEF LendingInv, Sound
<1>2. MarketCash(a) \in Int
  BY CashType DEF LendingInv
<1>3. MarketCash(a)' \in Int
  BY DEF MarketCash, SleevesOK, PursesOK
<1>4. Margin(Current(a, value), MarketCash(a)) \in Int
  BY <1>1, <1>2, MarginType
<1>5. Margin(after, MarketCash(a)') \in Int
  BY <1>1, <1>3, MarginType
<1>6. Max({RatioOne, after.borrow_index}) \in Nat \ {0}
  BY <1>1, DustIsPositive
<1>7. Margin(after, MarketCash(a)')
        > Margin(Current(a, value), MarketCash(a)) - Max({RatioOne, after.borrow_index})
  BY <1>4, <1>5, <1>6
<1>8. QED
  BY <1>7, MessageIsGood

LEMMA LTokensTyped ==
    ASSUME BooksOK, NEW a \in Assets, NEW user \in Users, NEW number \in Nat,
           positions' = [positions EXCEPT ![a][user].ltoken_balance = number]
    PROVE  positions' \in Positions
  BY DEF BooksOK, Positions

LEMMA DebtTyped ==
    ASSUME BooksOK, NEW a \in Assets, NEW user \in Users, NEW number \in Nat,
           positions' = [positions EXCEPT ![a][user].scaled_debt = number]
    PROVE  positions' \in Positions
  BY DEF BooksOK, Positions

\* The value that a user sends with a message is one of Values.
LEMMA SentIsValue ==
    ASSUME NEW user \in Users, NEW received \in Nat, wallets["TAO"][user] >= received, PursesOK
    PROVE  received \in Values
  BY DEF Values, PursesOK, Assets

LEMMA NothingIsValue == 0 \in Values
  BY DEF Values

LEMMA BookSupplyIsSound ==
    ASSUME LendingInv, NEW a \in Assets, NEW m, Sound(m, now), NEW caller \in Users,
           NEW amount \in Nat, BookSupply(a, m, caller, amount), NEW cash \in Nat
    PROVE  /\ UNCHANGED termVars
           /\ positions' \in Positions
           /\ \E after : /\ Sound(after, now) /\ Store(a, after)
                        /\ Margin(after, cash + amount) >= Margin(m, cash)
<1> DEFINE minted == LTokensFor(m, amount)
           after == [GenesisRate(m) EXCEPT !.total_supplied = @ + minted]
<1>1. minted \in Nat /\ Sound(after, now) /\ Margin(after, cash + amount) >= Margin(m, cash)
  BY SupplyGains
<1>2. Store(a, after) /\ UNCHANGED termVars
      /\ positions' = [positions EXCEPT ![a][caller].ltoken_balance = @ + minted]
  BY DEF BookSupply
<1> HIDE DEF minted, after
<1>3. positions' \in Positions
  <2>1. positions[a][caller].ltoken_balance + minted \in Nat
    BY <1>1 DEF LendingInv, BooksOK, Positions
  <2>2. positions' = [positions EXCEPT ![a][caller].ltoken_balance
                                         = positions[a][caller].ltoken_balance + minted]
    BY <1>2 DEF LendingInv, BooksOK, Positions
  <2>3. QED
    BY <2>1, <2>2, LTokensTyped DEF LendingInv
<1>4. QED
  BY <1>1, <1>2, <1>3

\* A message that is paid for with TUSDT, or pays TUSDT out.
LEMMA TusdtMoves ==
    ASSUME LendingInv, UNCHANGED termVars, UNCHANGED sleeveVars
    PROVE  SleevesOK' /\ \A b \in Assets \ {"TUSDT"} : MarketCash(b)' = MarketCash(b)
  BY DEF LendingInv, sleeveVars, SleevesOK, RootStakeIsBooked, On, MarketCash, Assets, termVars,
         stakingVars

LEMMA PayTusdtKeepsPurses ==
    ASSUME PursesOK, NEW user \in Users, NEW amount \in 0 .. MarketCash("TUSDT"),
           PayTusdt(user, amount)
    PROVE  PursesOK' /\ MarketCash("TUSDT")' = MarketCash("TUSDT") - amount
<1>1. tusdt \in Nat /\ amount \in 0 .. tusdt /\ tusdt' = tusdt - amount
  BY DEF PursesOK, PayTusdt, MarketCash
<1>2. wallets' \in [Assets -> [Users -> Nat]]
  BY <1>1 DEF PursesOK, PayTusdt, Credit, Assets
<1>3. QED
  BY <1>1, <1>2, CashOfMarkets DEF PursesOK

LEMMA PullTusdtKeepsPurses ==
    ASSUME PursesOK, NEW user \in Users, NEW amount \in Nat, PullTusdt(user, amount)
    PROVE  PursesOK' /\ MarketCash("TUSDT")' = MarketCash("TUSDT") + amount
<1>1. tusdt \in Nat /\ tusdt' = tusdt + amount
  BY DEF PursesOK, PullTusdt
<1>2. wallets' \in [Assets -> [Users -> Nat]]
  BY DEF PursesOK, PullTusdt, Debit, Assets
<1>3. QED
  BY <1>1, <1>2, CashOfMarkets DEF PursesOK

LEMMA PayTaoMoves ==
    ASSUME LendingInv, UNCHANGED termVars, NEW user \in Users, NEW amount \in Nat,
           PayTao(user, amount)
    PROVE  /\ SleevesOK' /\ PursesOK'
           /\ MarketCash("TAO")' = MarketCash("TAO") - amount
           /\ \A b \in Assets \ {"TAO"} : MarketCash(b)' = MarketCash(b)
<1>1. UNCHANGED <<root_hotkey, stake_config, agenda>>
  BY DEF termVars, stakingVars
<1>2. /\ SleevesOK' /\ PursesOK' /\ tusdt' = tusdt
      /\ native' + staked_tao' = native + staked_tao - amount
  BY <1>1, PayTaoKeepsSleeves DEF LendingInv
<1>3. MarketCash("TAO")' = MarketCash("TAO") - amount
  <2>1. native \in Nat /\ staked_tao \in Nat
    BY DEF LendingInv, SleevesOK
  <2>2. QED
    BY <1>2, <2>1, CashOfMarkets
<1>4. \A b \in Assets \ {"TAO"} : MarketCash(b)' = MarketCash(b)
  BY <1>2, CashOfMarkets
<1>5. QED
  BY <1>2, <1>3, <1>4

LEMMA TakeTaoMoves ==
    ASSUME LendingInv, UNCHANGED termVars, NEW user \in Users, NEW amount \in Nat,
           NEW received \in Nat, TakeTao(user, amount, received), SweepToRoot(native + amount)
    PROVE  /\ SleevesOK' /\ PursesOK' /\ received \in Values
           /\ MarketCash("TAO")' = MarketCash("TAO") + amount
           /\ \A b \in Assets \ {"TAO"} : MarketCash(b)' = MarketCash(b)
<1>1. SleevesOK' /\ native' + staked_tao' = native + amount + staked_tao
  <2>1. native + amount \in Nat
    BY DEF LendingInv, SleevesOK
  <2>2. UNCHANGED <<root_hotkey, stake_config, agenda>>
    BY DEF termVars, stakingVars
  <2>3. QED
    BY <2>1, <2>2, SweepKeepsSleeves DEF LendingInv
<1>2. PursesOK' /\ tusdt' = tusdt
  BY DEF LendingInv, TakeTao, Debit, PursesOK, Assets
<1>3. MarketCash("TAO")' = MarketCash("TAO") + amount
  <2>1. native \in Nat /\ staked_tao \in Nat
    BY DEF LendingInv, SleevesOK
  <2>2. QED
    BY <1>1, <2>1, CashOfMarkets
<1>4. \A b \in Assets \ {"TAO"} : MarketCash(b)' = MarketCash(b)
  BY <1>2, CashOfMarkets
<1>5. received \in Values
  BY SentIsValue DEF TakeTao, LendingInv
<1>6. QED
  BY <1>1, <1>2, <1>3, <1>4, <1>5

LEMMA SupplyTaoIsGood ==
    ASSUME LendingInv, NEW caller \in Users, NEW amount \in Nat, NEW received \in Nat,
           SupplyTao(caller, amount, received)
    PROVE  Good
<1> DEFINE m == Current("TAO", received)
           cash == MarketCash("TAO")
<1>1. BooksOK /\ TermsOK /\ SleevesOK /\ PursesOK /\ "TAO" \in Assets
  BY DEF LendingInv, Assets
<1>2. CanAccrue("TAO", received) /\ BookSupply("TAO", m, caller, amount)
      /\ TakeTao(caller, amount, received) /\ SweepToRoot(native + amount)
  BY DEF SupplyTao
<1>3. Sound(m, now) /\ cash \in Nat
  BY <1>1, <1>2, CurrentIsSound, CashType
<1>4. PICK after : Sound(after, now) /\ Store("TAO", after)
                   /\ Margin(after, cash + amount) >= Margin(m, cash)
  BY <1>1, <1>2, <1>3, BookSupplyIsSound
<1>5. UNCHANGED termVars /\ positions' \in Positions
  BY <1>1, <1>2, <1>3, BookSupplyIsSound
<1>6. /\ SleevesOK' /\ PursesOK' /\ received \in Values
      /\ MarketCash("TAO")' = cash + amount
      /\ \A b \in Assets \ {"TAO"} : MarketCash(b)' = MarketCash(b)
  BY <1>2, <1>5, TakeTaoMoves
<1>7. QED
  BY <1>1, <1>2, <1>4, <1>5, <1>6, GainIsGood

LEMMA SupplyTusdtIsGood ==
    ASSUME LendingInv, NEW caller \in Users, NEW amount \in Nat, SupplyTusdt(caller, amount)
    PROVE  Good
<1> DEFINE m == Current("TUSDT", 0)
           cash == MarketCash("TUSDT")
<1>1. BooksOK /\ TermsOK /\ SleevesOK /\ PursesOK /\ "TUSDT" \in Assets
  BY DEF LendingInv, Assets
<1>2. CanAccrue("TUSDT", 0) /\ BookSupply("TUSDT", m, caller, amount) /\ PullTusdt(caller, amount)
  BY DEF SupplyTusdt
<1>3. Sound(m, now) /\ cash \in Nat
  BY <1>1, <1>2, CurrentIsSound, CashType
<1>4. PICK after : Sound(after, now) /\ Store("TUSDT", after)
                   /\ Margin(after, cash + amount) >= Margin(m, cash)
  BY <1>1, <1>2, <1>3, BookSupplyIsSound
<1>5. UNCHANGED termVars /\ positions' \in Positions
  BY <1>1, <1>2, <1>3, BookSupplyIsSound
<1>6. SleevesOK' /\ \A b \in Assets \ {"TUSDT"} : MarketCash(b)' = MarketCash(b)
  BY <1>2, <1>5, TusdtMoves DEF PullTusdt
<1>7. PursesOK' /\ MarketCash("TUSDT")' = cash + amount
  BY <1>1, <1>2, PullTusdtKeepsPurses
<1>8. QED
  BY <1>1, <1>2, <1>4, <1>5, <1>6, <1>7, NothingIsValue, GainIsGood

LEMMA BookWithdrawalIsSound ==
    ASSUME LendingInv, NEW a \in Assets, NEW m, m = Current(a, 0), NEW caller \in Users,
           NEW ltoken_amount \in Nat, BookWithdrawal(a, m, caller, ltoken_amount),
           NEW paid, paid = Redeemable(m, ltoken_amount)
    PROVE  /\ UNCHANGED termVars /\ CanAccrue(a, 0)
           /\ positions' \in Positions
           /\ paid \in 0 .. MarketCash(a)
           /\ \E after : /\ Sound(after, now) /\ Store(a, after)
                        /\ Margin(after, MarketCash(a) - paid) >= Margin(m, MarketCash(a))
<1> DEFINE cash == MarketCash(a)
           after == GenesisRate([m EXCEPT !.total_supplied = @ - ltoken_amount])
           held == positions[a][caller].ltoken_balance
<1>1. /\ CanAccrue(a, 0) /\ held >= ltoken_amount /\ paid \in 1 .. cash
      /\ m.total_supplied >= ltoken_amount /\ Store(a, after) /\ UNCHANGED termVars
      /\ positions' = [positions EXCEPT ![a][caller].ltoken_balance = @ - ltoken_amount]
  BY DEF BookWithdrawal
<1>2. cash \in Nat /\ Sound(m, now) /\ m \in MarketState
  BY <1>1, CashType, CurrentIsSound DEF LendingInv
<1>3. ltoken_amount <= m.total_supplied
  BY <1>1, <1>2 DEF MarketState
<1>4. paid \in Nat /\ Sound(after, now) /\ Margin(after, cash - paid) >= Margin(m, cash)
  <2> HIDE DEF cash
  <2>1. QED
    BY <1>2, <1>3, WithdrawalGains
<1> HIDE DEF after
<1>5. positions' \in Positions
  <2>1. held \in Nat
    BY DEF LendingInv, BooksOK, Positions
  <2>2. positions' = [positions EXCEPT ![a][caller].ltoken_balance = held - ltoken_amount]
    BY <1>1 DEF LendingInv, BooksOK, Positions
  <2>3. held - ltoken_amount \in Nat
    BY <1>1, <2>1
  <2> HIDE DEF held
  <2>4. QED
    BY <2>2, <2>3, LTokensTyped DEF LendingInv
<1>6. QED
  BY <1>1, <1>2, <1>4, <1>5

LEMMA WithdrawTaoIsGood ==
    ASSUME LendingInv, NEW caller \in Users, NEW ltoken_amount \in Nat,
           WithdrawTao(caller, ltoken_amount)
    PROVE  Good
<1> DEFINE m == Current("TAO", 0)
           paid == Redeemable(m, ltoken_amount)
<1>1. BookWithdrawal("TAO", m, caller, ltoken_amount) /\ PayTao(caller, paid)
      /\ "TAO" \in Assets
  BY DEF WithdrawTao, Assets
<1> HIDE DEF paid
<1>2. /\ UNCHANGED termVars /\ CanAccrue("TAO", 0) /\ positions' \in Positions
      /\ paid \in 0 .. MarketCash("TAO")
      /\ \E after : /\ Sound(after, now) /\ Store("TAO", after)
                   /\ Margin(after, MarketCash("TAO") - paid) >= Margin(m, MarketCash("TAO"))
  BY <1>1, BookWithdrawalIsSound DEF paid
<1>3. paid \in Nat
  BY <1>2, CashType, <1>1 DEF LendingInv
<1>4. /\ SleevesOK' /\ PursesOK' /\ MarketCash("TAO")' = MarketCash("TAO") - paid
      /\ \A b \in Assets \ {"TAO"} : MarketCash(b)' = MarketCash(b)
  BY <1>1, <1>2, <1>3, PayTaoMoves
<1>5. QED
  BY <1>1, <1>2, <1>4, NothingIsValue, GainIsGood

LEMMA WithdrawTusdtIsGood ==
    ASSUME LendingInv, NEW caller \in Users, NEW ltoken_amount \in Nat,
           WithdrawTusdt(caller, ltoken_amount)
    PROVE  Good
<1> DEFINE m == Current("TUSDT", 0)
           paid == Redeemable(m, ltoken_amount)
<1>1. BookWithdrawal("TUSDT", m, caller, ltoken_amount) /\ PayTusdt(caller, paid)
      /\ "TUSDT" \in Assets
  BY DEF WithdrawTusdt, Assets
<1> HIDE DEF paid
<1>2. /\ UNCHANGED termVars /\ CanAccrue("TUSDT", 0) /\ positions' \in Positions
      /\ paid \in 0 .. MarketCash("TUSDT")
      /\ \E after : /\ Sound(after, now) /\ Store("TUSDT", after)
                   /\ Margin(after, MarketCash("TUSDT") - paid) >= Margin(m, MarketCash("TUSDT"))
  BY <1>1, BookWithdrawalIsSound DEF paid
<1>3. PursesOK' /\ MarketCash("TUSDT")' = MarketCash("TUSDT") - paid
  BY <1>1, <1>2, PayTusdtKeepsPurses DEF LendingInv
<1>4. SleevesOK' /\ \A b \in Assets \ {"TUSDT"} : MarketCash(b)' = MarketCash(b)
  BY <1>1, <1>2, TusdtMoves DEF PayTusdt
<1>5. QED
  BY <1>1, <1>2, <1>3, <1>4, NothingIsValue, GainIsGood

LEMMA BookRepaymentIsSound ==
    ASSUME LendingInv, NEW a \in Assets, NEW m, Sound(m, now), NEW caller \in Users,
           NEW amount \in Nat, NEW paid, paid = Min({amount, Owed(a, m, caller)}),
           BookRepayment(a, m, caller, paid), NEW cash \in Nat
    PROVE  /\ UNCHANGED termVars /\ paid \in Nat
           /\ positions' \in Positions
           /\ \E after : /\ Sound(after, now) /\ Store(a, after)
                        /\ Margin(after, cash + paid)
                             > Margin(m, cash) - Max({RatioOne, after.borrow_index})
<1> DEFINE debt == positions[a][caller].scaled_debt
           scaled == ScaledRepaid(m, debt, paid)
           after == Retired(m, scaled)
<1>1. /\ m.total_scaled_debt >= scaled /\ Store(a, after) /\ UNCHANGED termVars
      /\ positions' = [positions EXCEPT ![a][caller].scaled_debt = @ - scaled]
  BY DEF BookRepayment
<1>2. m \in MarketState /\ debt \in Nat
  BY DEF Sound, LendingInv, BooksOK, Positions
<1>3. Owed(a, m, caller) = DebtFace(debt, m.borrow_index) /\ Owed(a, m, caller) \in Nat
  BY <1>2, MulValueIsFloor DEF Owed, DebtFace, MarketState
<1>4. paid \in 0 .. DebtFace(debt, m.borrow_index)
  BY <1>3, MinOfTwo
<1>5. after = Retired(m, scaled)
  OBVIOUS
<1> HIDE DEF after, debt
<1>6. scaled \in Int /\ scaled = ScaledRepaid(m, debt, paid)
  <2>1. CASE paid >= DebtFace(debt, m.borrow_index)
    BY <1>2, <2>1 DEF ScaledRepaid
  <2>2. CASE ~(paid >= DebtFace(debt, m.borrow_index))
    <3>1. paid \in Nat /\ m.borrow_index \in Nat \ {0}
      BY <1>2, <1>3, <1>4 DEF MarketState, debt
    <3>2. DivValueCeil(m.borrow_index, paid) \in Nat
      BY <3>1, DivValueCeilIsAbove
    <3>3. scaled = Min({DivValueCeil(m.borrow_index, paid), debt})
      BY <2>2 DEF ScaledRepaid
    <3>4. QED
      BY <1>2, <3>2, <3>3, MinOfTwo
  <2>3. QED
    BY <2>1, <2>2
<1> HIDE DEF scaled
<1>7. scaled <= m.total_scaled_debt
  BY <1>1, <1>2, <1>6 DEF MarketState
<1>8. /\ scaled \in 0 .. debt /\ Sound(after, now) /\ after.borrow_index = m.borrow_index
      /\ Margin(after, cash + paid) > Margin(m, cash) - Max({RatioOne, m.borrow_index})
  <2>1. debt \in Nat /\ m.total_scaled_debt \in Nat /\ scaled \in Int
        /\ DebtFace(debt, m.borrow_index) \in Nat /\ paid \in Nat
    BY <1>2, <1>3, <1>4, <1>6 DEF MarketState, debt
  <2>2. m.total_scaled_debt - scaled \in Nat /\ paid <= DebtFace(debt, m.borrow_index)
    BY <1>4, <1>7, <2>1
  <2>3. /\ scaled \in 0 .. debt
        /\ Sound(Retired(m, scaled), now)
        /\ Margin(Retired(m, scaled), cash + paid)
             > Margin(m, cash) - Max({RatioOne, m.borrow_index})
    BY <2>1, <2>2, <1>2, <1>6, RepaymentLosesDust
  <2>4. Retired(m, scaled).borrow_index = m.borrow_index
    BY <1>2 DEF Retired, WithScaledDebt, MarketState
  <2>5. QED
    BY <2>3, <2>4, <1>5
<1>9. positions' \in Positions
  <2>1. positions' = [positions EXCEPT ![a][caller].scaled_debt = debt - scaled]
    BY <1>1 DEF debt, LendingInv, BooksOK, Positions
  <2>2. debt - scaled \in Nat
    BY <1>2, <1>8
  <2>3. QED
    BY <2>1, <2>2, DebtTyped DEF LendingInv
<1>10. Margin(after, cash + paid) > Margin(m, cash) - Max({RatioOne, after.borrow_index})
  BY <1>8
<1>11. paid \in Nat
  BY <1>2, <1>3, <1>4 DEF debt
<1>12. QED
  BY <1>1, <1>8, <1>9, <1>10, <1>11

LEMMA RepayTaoIsGood ==
    ASSUME LendingInv, NEW caller \in Users, NEW amount \in Nat, NEW received \in Nat,
           RepayTao(caller, amount, received)
    PROVE  Good
<1> DEFINE m == Current("TAO", received)
           paid == Min({amount, Owed("TAO", m, caller)})
           cash == MarketCash("TAO")
<1>1. /\ CanAccrue("TAO", received) /\ BookRepayment("TAO", m, caller, paid)
      /\ TakeTao(caller, paid, received) /\ SweepToRoot(native + paid)
      /\ "TAO" \in Assets
  BY DEF RepayTao, Assets
<1>2. Sound(m, now) /\ cash \in Nat
  BY <1>1, CurrentIsSound, CashType DEF LendingInv
<1> HIDE DEF paid
<1>3. /\ UNCHANGED termVars /\ paid \in Nat /\ positions' \in Positions
      /\ \E after : /\ Sound(after, now) /\ Store("TAO", after)
                   /\ Margin(after, cash + paid)
                        > Margin(m, cash) - Max({RatioOne, after.borrow_index})
  BY <1>1, <1>2, BookRepaymentIsSound DEF paid
<1>4. /\ SleevesOK' /\ PursesOK' /\ received \in Values
      /\ MarketCash("TAO")' = MarketCash("TAO") + paid
      /\ \A b \in Assets \ {"TAO"} : MarketCash(b)' = MarketCash(b)
  BY <1>1, <1>3, TakeTaoMoves
<1>5. QED
  BY <1>1, <1>3, <1>4, MessageIsGood

LEMMA RepayTusdtIsGood ==
    ASSUME LendingInv, NEW caller \in Users, NEW amount \in Nat, RepayTusdt(caller, amount)
    PROVE  Good
<1> DEFINE m == Current("TUSDT", 0)
           paid == Min({amount, Owed("TUSDT", m, caller)})
           cash == MarketCash("TUSDT")
<1>1. /\ CanAccrue("TUSDT", 0) /\ BookRepayment("TUSDT", m, caller, paid)
      /\ PullTusdt(caller, paid) /\ "TUSDT" \in Assets
  BY DEF RepayTusdt, Assets
<1>2. Sound(m, now) /\ cash \in Nat
  BY <1>1, CurrentIsSound, CashType DEF LendingInv
<1> HIDE DEF paid
<1>3. /\ UNCHANGED termVars /\ paid \in Nat /\ positions' \in Positions
      /\ \E after : /\ Sound(after, now) /\ Store("TUSDT", after)
                   /\ Margin(after, cash + paid)
                        > Margin(m, cash) - Max({RatioOne, after.borrow_index})
  BY <1>1, <1>2, BookRepaymentIsSound DEF paid
<1>4. PursesOK' /\ MarketCash("TUSDT")' = MarketCash("TUSDT") + paid
  BY <1>1, <1>3, PullTusdtKeepsPurses DEF LendingInv
<1>5. SleevesOK' /\ \A b \in Assets \ {"TUSDT"} : MarketCash(b)' = MarketCash(b)
  BY <1>1, <1>3, TusdtMoves DEF PullTusdt
<1>6. QED
  BY <1>1, <1>3, <1>4, <1>5, NothingIsValue, MessageIsGood

LEMMA MarginGrows ==
    ASSUME NEW m \in MarketState, NEW cash \in Int, NEW more \in Nat
    PROVE  Margin(m, cash + more) >= Margin(m, cash)
<1> DEFINE debts == m.borrow_index * m.total_scaled_debt
           claims == m.exchange_rate * m.total_supplied
           free == cash - m.reserve_accrued
           freer == (cash + more) - m.reserve_accrued
<1>1. debts \in Int /\ claims \in Int /\ free \in Int /\ RatioOne \in Nat
  BY RatioOneAssumption DEF MarketState
<1>2. freer = free + more
  BY DEF MarketState
<1>3. Margin(m, cash + more) = freer * RatioOne + debts - claims
  BY DEF Margin
<1>4. Margin(m, cash) = free * RatioOne + debts - claims
  BY DEF Margin
<1> HIDE DEF debts, claims, free, freer
<1>5. freer * RatioOne = free * RatioOne + more * RatioOne
      /\ more * RatioOne \in Nat /\ free * RatioOne \in Int
  BY <1>1, <1>2
<1>6. QED
  BY <1>1, <1>3, <1>4, <1>5

LEMMA RepayNothingIsGood ==
    ASSUME LendingInv, NEW a \in Assets, NEW caller \in Users, NEW received \in Nat,
           a = "TAO" \/ received = 0, RepayNothing(a, caller, received)
    PROVE  Good
<1> DEFINE m == Current(a, received)
<1>1. /\ CanAccrue(a, received) /\ Store(a, m) /\ Debit(a, caller, received)
      /\ native' = native + received
      /\ UNCHANGED <<positions, termVars, tusdt, staked_tao, swept, root_stake>>
  BY DEF RepayNothing
<1>2. Sound(m, now) /\ m \in MarketState /\ MarketCash(a) \in Nat
  BY <1>1, CurrentIsSound, CashType DEF LendingInv
<1>3. received \in Values
  BY <1>1, SentIsValue, NothingIsValue DEF Debit, LendingInv
<1>4. SleevesOK'
  <2>1. native' \in Nat
    BY <1>1 DEF LendingInv, SleevesOK
  <2>2. QED
    BY <1>1, <2>1, FreeTaoMoves DEF LendingInv, termVars, stakingVars
<1>5. PursesOK'
  BY <1>1 DEF LendingInv, PursesOK, Debit
<1>6. positions' \in Positions
  BY <1>1 DEF LendingInv, BooksOK
<1>7. native \in Nat /\ staked_tao \in Nat /\ tusdt \in Nat
  BY DEF LendingInv, SleevesOK, PursesOK
<1>8. MarketCash(a)' = MarketCash(a) + received
  <2>1. CASE a = "TAO"
    BY <1>1, <1>7, <2>1, CashOfMarkets
  <2>2. CASE a = "TUSDT"
    BY <1>1, <1>7, <2>2, CashOfMarkets
  <2>3. QED
    BY <2>1, <2>2 DEF Assets
<1>9. \A b \in Assets \ {a} : MarketCash(b)' = MarketCash(b)
  <2>1. CASE a = "TAO"
    BY <1>1, <2>1, CashOfMarkets
  <2>2. CASE a = "TUSDT"
    <3>1. received = 0
      BY <2>2
    <3>2. QED
      BY <1>1, <1>7, <2>2, <3>1, CashOfMarkets
  <2>3. QED
    BY <2>1, <2>2 DEF Assets
<1>10. Margin(m, MarketCash(a)') >= Margin(m, MarketCash(a))
  <2>1. Margin(m, MarketCash(a) + received) >= Margin(m, MarketCash(a))
    BY <1>2, MarginGrows
  <2>2. QED
    BY <1>8, <2>1
<1>11. QED
  BY <1>1, <1>2, <1>3, <1>4, <1>5, <1>6, <1>9, <1>10, GainIsGood

\* A step that stores both markets.
LEMMA StoreAllIsGood ==
    ASSUME LendingInv, UNCHANGED termVars, SleevesOK', PursesOK', positions' \in Positions,
           NEW after, markets' = [a \in Assets |-> after[a]],
           \A a \in Assets : Sound(after[a], now) /\ LosesOnlyDust(a)
    PROVE  Good
<1>1. TermsOK'
  BY TermsKept DEF LendingInv
<1>2. BooksOK'
  BY DEF BooksOK, Sound, termVars
<1>3. QED
  BY <1>1, <1>2 DEF Good, LendingInv

LEMMA AccrueMarketInterestIsGood ==
    ASSUME LendingInv, AccrueMarketInterest
    PROVE  Good
<1> DEFINE after == [a \in Assets |-> Current(a, 0)]
<1>1. /\ \A a \in Assets : CanAccrue(a, 0)
      /\ markets' = after
      /\ UNCHANGED <<positions, termVars, moneyVars>>
  BY DEF AccrueMarketInterest
<1>2. SleevesOK' /\ PursesOK' /\ positions' \in Positions
      /\ \A a \in Assets : MarketCash(a)' = MarketCash(a)
  BY <1>1 DEF LendingInv, SleevesOK, PursesOK, BooksOK, RootStakeIsBooked, On, termVars,
              stakingVars, moneyVars, sleeveVars, MarketCash
<1>3. ASSUME NEW a \in Assets
      PROVE  Sound(after[a], now) /\ LosesOnlyDust(a)
  <2>1. after[a] = Current(a, 0) /\ Sound(Current(a, 0), now) /\ Current(a, 0) \in MarketState
    BY <1>1, <1>3, CurrentIsSound DEF LendingInv
  <2>2. MarketCash(a) \in Nat /\ MarketCash(a)' = MarketCash(a)
    BY <1>2, <1>3, CashType DEF LendingInv
  <2>3. markets'[a] = Current(a, 0)
    BY <1>1, <2>1
  <2>4. /\ Margin(Current(a, 0), MarketCash(a)) \in Int
        /\ Max({RatioOne, Current(a, 0).borrow_index}) \in Nat \ {0}
    <3>1. MarketCash(a) \in Int
      BY <2>2
    <3>2. Margin(Current(a, 0), MarketCash(a)) \in Int
      BY <2>1, <3>1, MarginType
    <3>3. Max({RatioOne, Current(a, 0).borrow_index}) \in Nat \ {0}
      BY <2>1, DustIsPositive
    <3>4. QED
      BY <3>2, <3>3
  <2>5. Margin(Current(a, 0), MarketCash(a))
          > Margin(Current(a, 0), MarketCash(a)) - Max({RatioOne, Current(a, 0).borrow_index})
    BY <2>4
  <2>6. QED
    BY <2>1, <2>2, <2>3, <2>5, NothingIsValue DEF LosesOnlyDust
<1>4. markets' = [a \in Assets |-> after[a]]
  BY <1>1
<1> HIDE DEF after
<1>5. QED
  BY <1>1, <1>2, <1>3, <1>4, StoreAllIsGood

\* What can be paid to the treasury from a market.
Purse(a) == IF a = "TAO" THEN native ELSE tusdt

LEMMA PayTreasuryMoves ==
    ASSUME LendingInv, UNCHANGED termVars, NEW a \in Assets, NEW paid \in 0 .. Purse(a),
           PayTreasury(a, paid)
    PROVE  /\ SleevesOK' /\ PursesOK'
           /\ MarketCash(a)' = MarketCash(a) - paid
           /\ \A b \in Assets \ {a} : MarketCash(b)' = MarketCash(b)
<1>1. native \in Nat /\ staked_tao \in Nat /\ tusdt \in Nat
  BY DEF LendingInv, SleevesOK, PursesOK
<1>2. UNCHANGED <<staked_tao, swept, root_stake, wallets, root_hotkey, agenda>>
  BY DEF PayTreasury, termVars, stakingVars
<1>3. CASE a = "TAO"
  <2>1. native' = native - paid /\ tusdt' = tusdt /\ paid \in 0 .. native
    BY <1>3 DEF PayTreasury, Purse
  <2>2. SleevesOK' /\ PursesOK'
    BY <1>1, <1>2, <2>1, FreeTaoMoves DEF LendingInv, PursesOK
  <2>3. MarketCash("TAO")' = MarketCash("TAO") - paid
    BY <1>1, <1>2, <2>1, CashOfMarkets
  <2>4. QED
    BY <1>3, <2>1, <2>2, <2>3, CashOfMarkets
<1>4. CASE a = "TUSDT"
  <2>1. tusdt' = tusdt - paid /\ native' = native /\ paid \in 0 .. tusdt
    BY <1>4 DEF PayTreasury, Purse
  <2>2. SleevesOK' /\ PursesOK'
    BY <1>1, <1>2, <2>1, FreeTaoMoves DEF LendingInv, PursesOK
  <2>3. MarketCash("TUSDT")' = MarketCash("TUSDT") - paid
    BY <1>1, <1>2, <2>1, CashOfMarkets
  <2>4. MarketCash("TAO")' = MarketCash("TAO")
    BY <1>2, <2>1, CashOfMarkets
  <2>5. QED
    BY <1>4, <2>2, <2>3, <2>4, CashOfMarkets
<1>5. QED
  BY <1>3, <1>4 DEF Assets

LEMMA ClaimReserveIsGood ==
    ASSUME LendingInv, NEW a \in Assets, ClaimReserve(a)
    PROVE  Good
<1> DEFINE m == Current(a, 0)
           claim == Min({m.reserve_accrued, ReserveCash(a)})
           reserve == m.reserve_accrued - claim
           after == [m EXCEPT !.reserve_accrued = reserve]
           cash == MarketCash(a)
<1>1. /\ CanAccrue(a, 0) /\ Store(a, after) /\ PayTreasury(a, claim)
      /\ UNCHANGED <<positions, termVars>>
  BY DEF ClaimReserve
<1>2. Sound(m, now) /\ m \in MarketState /\ cash \in Nat
  BY <1>1, CurrentIsSound, CashType DEF LendingInv
<1>3. ReserveCash(a) \in 0 .. Purse(a)
  <2>1. native \in Nat /\ tusdt \in Nat /\ stake_config.buffer \in Nat
    BY DEF LendingInv, SleevesOK, PursesOK, TermsOK, StakeConfig
  <2>2. SaturatingSub(native, stake_config.buffer) \in 0 .. native
    BY <2>1 DEF SaturatingSub
  <2>3. QED
    BY <2>1, <2>2 DEF ReserveCash, Purse
<1>4. m.reserve_accrued \in Nat /\ ReserveCash(a) \in Int /\ Purse(a) \in Nat
  BY <1>2, <1>3 DEF MarketState, Purse, LendingInv, SleevesOK, PursesOK
<1> HIDE DEF m, cash
<1>5. claim \in Int /\ claim <= ReserveCash(a) /\ reserve \in Nat /\ claim >= 0
  BY <1>3, <1>4, MinOfTwo
<1> HIDE DEF claim
<1>6. claim \in 0 .. Purse(a)
  BY <1>3, <1>5, <1>4
<1>7. m.reserve_accrued = reserve + claim
  BY <1>4, <1>5
<1> HIDE DEF reserve
<1>8. Sound(after, now)
  BY <1>2, <1>5 DEF Sound, MarketState
<1>9. Margin(after, cash - claim) = Margin(m, cash)
  <2>1. cash - claim - reserve = cash - m.reserve_accrued
    BY <1>2, <1>5, <1>7
  <2>2. /\ after.reserve_accrued = reserve /\ after.borrow_index = m.borrow_index
        /\ after.total_scaled_debt = m.total_scaled_debt
        /\ after.exchange_rate = m.exchange_rate /\ after.total_supplied = m.total_supplied
    BY <1>2 DEF MarketState
  <2>3. QED
    BY <2>1, <2>2 DEF Margin
<1>10. Margin(m, cash) \in Int
  BY <1>2, MarginType
<1>11. /\ SleevesOK' /\ PursesOK' /\ MarketCash(a)' = cash - claim
       /\ \A b \in Assets \ {a} : MarketCash(b)' = MarketCash(b)
  BY <1>1, <1>6, PayTreasuryMoves DEF cash
<1> HIDE DEF after
<1>12. Margin(after, MarketCash(a)') >= Margin(Current(a, 0), MarketCash(a))
  BY <1>9, <1>10, <1>11 DEF m, cash
<1>13. positions' \in Positions
  BY <1>1 DEF LendingInv, BooksOK
<1>14. QED
  BY <1>1, <1>8, <1>11, <1>12, <1>13, NothingIsValue, GainIsGood

\* A payment of what is in a market beyond all claims.
LEMMA SurplusIsGood ==
    ASSUME LendingInv, UNCHANGED <<positions, termVars>>, NEW a \in Assets, CanAccrue(a, 0),
           NEW m, m = Current(a, 0), Store(a, m), NEW paid \in 0 .. Purse(a),
           PayTreasury(a, paid), paid = 0 \/ MarketCash(a) - paid >= Obligations(m)
    PROVE  Good
<1> DEFINE cash == MarketCash(a)
<1>1. Sound(m, now) /\ m \in MarketState /\ cash \in Nat
  BY CurrentIsSound, CashType DEF LendingInv
<1>2. /\ SleevesOK' /\ PursesOK' /\ cash' = cash - paid
      /\ \A b \in Assets \ {a} : MarketCash(b)' = MarketCash(b)
  BY PayTreasuryMoves
<1>3. positions' \in Positions
  BY DEF LendingInv, BooksOK
<1>4. CASE paid = 0
  <2>1. cash' = cash /\ Margin(m, cash) \in Int
    <3>1. cash \in Int
      BY <1>1
    <3>2. Margin(m, cash) \in Int
      BY <1>1, <3>1, MarginType
    <3>3. QED
      BY <1>1, <1>2, <1>4, <3>2
  <2>2. Margin(m, cash') >= Margin(Current(a, 0), cash)
    BY <2>1
  <2>3. QED
    BY <1>1, <1>2, <1>3, <2>2, NothingIsValue, GainIsGood
<1>5. CASE MarketCash(a) - paid >= Obligations(m)
  <2>1. markets'[a] = m
    BY DEF LendingInv, BooksOK, Store
  <2>2. Obligations(markets[a])' = Obligations(m)
    BY <2>1 DEF Obligations
  <2>3. LosesOnlyDust(a)
    BY <1>2, <1>5, <2>2 DEF LosesOnlyDust
  <2>4. QED
    BY <1>1, <1>2, <1>3, <2>3, StoreIsGood DEF LendingInv
<1>6. QED
  BY <1>4, <1>5

LEMMA ObligationsType ==
    ASSUME NEW m \in MarketState
    PROVE  Obligations(m) \in Nat
<1>1. Redeemable(m, m.total_supplied) \in Nat
  BY MulValueIsFloor DEF Redeemable, MarketState
<1>2. QED
  BY <1>1 DEF Obligations, MarketState

LEMMA ClaimSurplusTusdtIsGood ==
    ASSUME LendingInv, NEW caller, NEW amount \in Nat, ClaimSurplusTusdt(caller, amount)
    PROVE  Good
<1> DEFINE m == Current("TUSDT", 0)
           surplus == SaturatingSub(tusdt, Obligations(m))
           paid == Min({amount, surplus})
<1>1. /\ CanAccrue("TUSDT", 0) /\ Store("TUSDT", m) /\ PayTreasury("TUSDT", paid)
      /\ UNCHANGED <<positions, termVars>> /\ "TUSDT" \in Assets
  BY DEF ClaimSurplusTusdt, Assets
<1>2. m \in MarketState
  BY <1>1, CurrentIsSound DEF LendingInv
<1>3. Obligations(m) \in Nat /\ tusdt \in Nat
  BY <1>2, ObligationsType DEF LendingInv, PursesOK
<1>4. surplus \in 0 .. tusdt /\ (surplus > 0 => surplus = tusdt - Obligations(m))
  BY <1>3 DEF SaturatingSub
<1> HIDE DEF surplus
<1>5. paid \in 0 .. surplus
  BY <1>3, <1>4, MinOfTwo
<1> HIDE DEF paid, m
<1>6. paid \in 0 .. tusdt /\ (paid = 0 \/ tusdt - paid >= Obligations(m))
  BY <1>3, <1>4, <1>5
<1>7. paid \in 0 .. Purse("TUSDT") /\ MarketCash("TUSDT") = tusdt
  BY <1>6, CashOfMarkets DEF Purse
<1>8. QED
  BY <1>1, <1>6, <1>7, SurplusIsGood DEF m

LEMMA TransferNativeToTreasuryIsGood ==
    ASSUME LendingInv, NEW caller, TransferNativeToTreasury(caller)
    PROVE  Good
<1> DEFINE m == Current("TAO", 0)
           spare == SaturatingSub(native, Obligations(m))
           sweepable == SaturatingSub(spare, stake_config.buffer)
           paid == SaturatingSub(sweepable, 1)
<1>1. /\ CanAccrue("TAO", 0) /\ Store("TAO", m) /\ PayTreasury("TAO", paid)
      /\ UNCHANGED <<positions, termVars>> /\ "TAO" \in Assets
  BY DEF TransferNativeToTreasury, Assets
<1>2. m \in MarketState
  BY <1>1, CurrentIsSound DEF LendingInv
<1>3. /\ Obligations(m) \in Nat /\ native \in Nat /\ staked_tao \in Nat
      /\ stake_config.buffer \in Nat
  BY <1>2, ObligationsType DEF LendingInv, SleevesOK, TermsOK, StakeConfig
<1> HIDE DEF m
<1>4. spare \in 0 .. native /\ (spare > 0 => spare = native - Obligations(m))
  BY <1>3 DEF SaturatingSub
<1> HIDE DEF spare
<1>5. sweepable \in 0 .. spare
  BY <1>3, <1>4 DEF SaturatingSub
<1> HIDE DEF sweepable
<1>6. paid \in 0 .. spare
  BY <1>3, <1>4, <1>5 DEF SaturatingSub
<1> HIDE DEF paid
<1>7. paid \in 0 .. native /\ (paid = 0 \/ native + staked_tao - paid >= Obligations(m))
  BY <1>3, <1>4, <1>6
<1>8. paid \in 0 .. Purse("TAO")
  BY <1>7 DEF Purse
<1>9. paid = 0 \/ MarketCash("TAO") - paid >= Obligations(m)
  <2>1. MarketCash("TAO") = native + staked_tao
    BY CashOfMarkets
  <2>2. QED
    BY <1>3, <1>7, <2>1
<1>10. QED
  BY <1>1, <1>8, <1>9, SurplusIsGood DEF m

LEMMA SetRootStakeConfigIsGood ==
    ASSUME LendingInv, NEW caller, NEW hotkey \in RootHotkeys, NEW config \in StakeConfig,
           SetRootStakeConfig(caller, hotkey, config)
    PROVE  Good
<1>1. /\ config.floor >= MinRootStakeFloor /\ config.buffer >= config.floor
      /\ Rotate(hotkey) /\ root_hotkey' = hotkey /\ stake_config' = config
      /\ UNCHANGED <<bookVars, rateVars, tusdt, swept, wallets, paused, now, agenda>>
  BY DEF SetRootStakeConfig
<1>2. native \in Nat /\ staked_tao \in Nat /\ root_hotkey \in RootHotkeys
      /\ root_stake \in [RootHotkeys -> Nat]
  BY DEF LendingInv, SleevesOK, TermsOK
<1>3. TermsOK'
  <2>1. MinRootStakeFloor <= config.floor /\ config.floor <= config.buffer
    BY <1>1, LendingConstants DEF StakeConfig
  <2>2. QED
    BY <1>1, <2>1 DEF LendingInv, TermsOK, rateVars
<1>4. SleevesOK' /\ native' + staked_tao' = native + staked_tao
  <2>1. CASE staked_tao > 0 /\ hotkey # root_hotkey
    <3>1. Unstake(staked_tao) /\ native' = native + staked_tao
      BY <1>1, <2>1 DEF Rotate
    <3>2. staked_tao' = 0 /\ native' \in Nat
      BY <1>2, <3>1 DEF Unstake
    <3>3. /\ root_stake' = [root_stake EXCEPT ![root_hotkey] = @ - staked_tao]
          /\ root_stake[root_hotkey] - staked_tao \in Nat
      BY <1>2, <3>1 DEF Unstake
    <3>4. root_stake' \in [RootHotkeys -> Nat]
      BY <1>2, <3>3
    <3>5. ASSUME ~On("root netuid")
          PROVE  root_stake' = [h \in RootHotkeys |-> IF h = root_hotkey' THEN staked_tao' ELSE 0]
      <4>1. root_stake = [h \in RootHotkeys |-> IF h = root_hotkey THEN staked_tao ELSE 0]
        BY <3>5 DEF LendingInv, SleevesOK, RootStakeIsBooked
      <4>2. QED
        BY <1>2, <3>2, <3>3, <4>1
    <3>6. swept' \in BOOLEAN
      BY <1>1 DEF LendingInv, SleevesOK
    <3>7. staked_tao' \notin 1 .. MinRootStakeFloor - 1
      BY <3>2
    <3>8. RootStakeIsBooked'
      BY <1>1, <3>5, <3>7 DEF RootStakeIsBooked, On
    <3>9. QED
      BY <1>2, <3>1, <3>2, <3>4, <3>6, <3>8 DEF SleevesOK
  <2>2. CASE ~(staked_tao > 0 /\ hotkey # root_hotkey)
    <3>1. UNCHANGED <<native, staked_tao, root_stake, swept>>
      BY <1>1, <2>2 DEF Rotate
    <3>2. staked_tao = 0 \/ root_hotkey' = root_hotkey
      BY <1>1, <1>2, <2>2
    <3>3. ASSUME ~On("root netuid")
          PROVE  root_stake' = [h \in RootHotkeys |-> IF h = root_hotkey' THEN staked_tao' ELSE 0]
      <4>1. root_stake = [h \in RootHotkeys |-> IF h = root_hotkey THEN staked_tao ELSE 0]
        BY <3>3 DEF LendingInv, SleevesOK, RootStakeIsBooked
      <4>2. QED
        BY <1>2, <3>1, <3>2, <4>1
    <3>4. QED
      BY <1>1, <1>2, <3>1, <3>3 DEF LendingInv, SleevesOK, RootStakeIsBooked, On
  <2>3. QED
    BY <2>1, <2>2
<1>5. PursesOK' /\ \A a \in Assets : MarketCash(a)' = MarketCash(a)
  BY <1>1, <1>4, CashOfMarkets DEF LendingInv, PursesOK, Assets
<1>6. UNCHANGED <<bookVars, now>> /\ BooksOK
  BY <1>1 DEF LendingInv
<1>7. QED
  BY <1>3, <1>4, <1>5, <1>6, StillIsGood

LEMMA SweepIsGood ==
    ASSUME LendingInv, Sweep
    PROVE  Good
<1>1. SweepToRoot(native) /\ UNCHANGED <<bookVars, tusdt, wallets, termVars>>
  BY DEF Sweep, SweepToRoot
<1>2. UNCHANGED <<root_hotkey, stake_config, agenda, now>>
  BY <1>1 DEF termVars, stakingVars
<1>3. SleevesOK' /\ native' + staked_tao' = native + staked_tao
  BY <1>1, <1>2, SweepKeepsSleeves DEF LendingInv, SleevesOK
<1>4. PursesOK' /\ \A a \in Assets : MarketCash(a)' = MarketCash(a)
  BY <1>1, <1>3, CashOfMarkets DEF LendingInv, PursesOK, Assets
<1>5. TermsOK'
  BY <1>1, TermsKept DEF LendingInv
<1>6. QED
  BY <1>1, <1>2, <1>3, <1>4, <1>5, StillIsGood DEF LendingInv

\* A step that leaves the books and the money alone, but for the root stake where
\* netuid 0 is treated as an alpha subnet.
LEMMA TermsMove ==
    ASSUME LendingInv, UNCHANGED <<bookVars, tusdt, native, staked_tao, wallets,
                                   root_hotkey, now, agenda>>,
           TermsOK', swept' \in BOOLEAN,
           UNCHANGED root_stake \/ (On("root netuid") /\ root_stake' \in [RootHotkeys -> Nat])
    PROVE  Good
<1>1. SleevesOK' /\ PursesOK' /\ \A a \in Assets : MarketCash(a)' = MarketCash(a)
  BY DEF LendingInv, SleevesOK, PursesOK, RootStakeIsBooked, On, MarketCash
<1>2. UNCHANGED <<bookVars, now>> /\ BooksOK
  BY DEF LendingInv
<1>3. QED
  BY <1>1, <1>2, StillIsGood

LEMMA RatesAreGood ==
    ASSUME LendingInv, NEW caller, NEW a \in Assets,
           \/ \E new_params \in Params : SetMarketParams(caller, a, new_params)
           \/ ExecuteMarketParamsUpdate(a)
           \/ CancelMarketParamsUpdate(caller, a)
    PROVE  Good
<1>1. /\ UNCHANGED <<bookVars, moneyVars, stakingVars, paused, now, agenda>>
      /\ TermsOK
  BY DEF SetMarketParams, ExecuteMarketParamsUpdate, CancelMarketParamsUpdate, LendingInv
<1>2. params' \in [Assets -> Enforced]
      /\ pending_params' \in [Assets -> {NoPending} \cup [params : Enforced, execute_after : Nat]]
  <2>1. ASSUME NEW new_params \in Params, SetMarketParams(caller, a, new_params)
        PROVE  <1>2!:
    <3>1. new_params \in Enforced /\ now + ParamsTimelock \in Nat /\ params' = params
      BY <1>1, <2>1, LendingConstants DEF SetMarketParams, Enforced, TermsOK
    <3>2. [params |-> new_params, execute_after |-> now + ParamsTimelock]
            \in [params : Enforced, execute_after : Nat]
      BY <3>1
    <3>3. pending_params' = [pending_params EXCEPT ![a] =
            [params |-> new_params, execute_after |-> now + ParamsTimelock]]
      BY <2>1 DEF SetMarketParams
    <3>4. QED
      BY <1>1, <3>1, <3>2, <3>3 DEF TermsOK
  <2>2. CASE ExecuteMarketParamsUpdate(a)
    <3>1. pending_params[a] \in [params : Enforced, execute_after : Nat]
      BY <1>1, <2>2 DEF ExecuteMarketParamsUpdate, TermsOK
    <3>2. pending_params[a].params \in Enforced
      BY <3>1
    <3>3. QED
      BY <1>1, <2>2, <3>2 DEF ExecuteMarketParamsUpdate, TermsOK
  <2>3. CASE CancelMarketParamsUpdate(caller, a)
    BY <1>1, <2>3 DEF CancelMarketParamsUpdate, TermsOK
  <2>4. QED
    BY <2>1, <2>2, <2>3
<1>3. TermsOK'
  BY <1>1, <1>2 DEF TermsOK, stakingVars
<1>4. UNCHANGED <<bookVars, tusdt, native, staked_tao, root_stake, wallets, root_hotkey, now,
                  agenda>>
      /\ swept' \in BOOLEAN
  BY <1>1 DEF moneyVars, sleeveVars, stakingVars, LendingInv, SleevesOK
<1>5. QED
  BY <1>3, <1>4, TermsMove

LEMMA PausesAreGood ==
    ASSUME LendingInv, NEW caller, Pause(caller) \/ Unpause(caller)
    PROVE  Good
<1>1. UNCHANGED <<bookVars, moneyVars, rateVars, stakingVars, now, agenda>> /\ paused' \in BOOLEAN
  BY DEF Pause, Unpause
<1>2. TermsOK'
  BY <1>1 DEF LendingInv, TermsOK, rateVars, stakingVars
<1>3. UNCHANGED <<bookVars, tusdt, native, staked_tao, root_stake, wallets, root_hotkey, now,
                  agenda>>
      /\ swept' \in BOOLEAN
  BY <1>1 DEF moneyVars, sleeveVars, stakingVars, LendingInv, SleevesOK
<1>4. QED
  BY <1>2, <1>3, TermsMove

LEMMA NextBlockIsGood ==
    ASSUME LendingInv, NextBlock
    PROVE  Good
<1>1. /\ UNCHANGED <<bookVars, tusdt, native, staked_tao, root_stake, wallets, termVars>>
      /\ swept' \in BOOLEAN
  BY DEF NextBlock
<1>2. TermsOK'
  BY <1>1, TermsKept DEF LendingInv
<1>3. UNCHANGED <<bookVars, tusdt, native, staked_tao, root_stake, wallets, root_hotkey, now,
                  agenda>>
  BY <1>1 DEF termVars, stakingVars
<1>4. QED
  BY <1>1, <1>2, <1>3, TermsMove

LEMMA NothingIsGood ==
    ASSUME LendingInv, UNCHANGED lendingVars
    PROVE  Good
<1>1. /\ UNCHANGED <<bookVars, tusdt, native, staked_tao, root_stake, wallets, termVars>>
      /\ swept' \in BOOLEAN
  BY DEF lendingVars, moneyVars, sleeveVars, LendingInv, SleevesOK
<1>2. TermsOK'
  BY <1>1, TermsKept DEF LendingInv
<1>3. UNCHANGED <<bookVars, tusdt, native, staked_tao, root_stake, wallets, root_hotkey, now,
                  agenda>>
  BY <1>1 DEF termVars, stakingVars
<1>4. QED
  BY <1>1, <1>2, <1>3, TermsMove

\* Time passes the books by.
LEMMA TickIsGood ==
    ASSUME LendingInv, Tick
    PROVE  Good
<1>1. /\ now' \in Times /\ now' > now /\ swept' = FALSE
      /\ UNCHANGED <<bookVars, tusdt, native, staked_tao, root_stake, wallets,
                     rateVars, stakingVars, paused, agenda>>
  BY DEF Tick
<1>2. now \in Nat /\ now' \in Nat
  BY <1>1, LendingConstants DEF LendingInv, TermsOK
<1>3. TermsOK'
  BY <1>1, <1>2 DEF LendingInv, TermsOK, rateVars, stakingVars
<1>4. SleevesOK' /\ PursesOK'
  BY <1>1 DEF LendingInv, SleevesOK, PursesOK, RootStakeIsBooked, On, stakingVars
<1>5. BooksOK'
  <2>1. markets' = markets /\ positions' = positions
    BY <1>1 DEF bookVars
  <2>2. ASSUME NEW a \in Assets PROVE Sound(markets[a], now')
    <3>1. Sound(markets[a], now) /\ markets[a].last_update \in Nat
      BY DEF LendingInv, BooksOK, MarketState
    <3>2. markets[a].last_update <= now'
      BY <1>1, <1>2, <3>1 DEF Sound
    <3>3. QED
      BY <3>1, <3>2 DEF Sound
  <2>3. QED
    BY <2>1, <2>2 DEF LendingInv, BooksOK
<1>6. now' # now
  BY <1>1, <1>2
<1>7. QED
  BY <1>3, <1>4, <1>5, <1>6 DEF Good, LendingInv

LEMMA BookBorrowIsSound ==
    ASSUME LendingInv, NEW a \in Assets, NEW m, m = Current(a, 0), NEW caller \in Users,
           NEW amount \in Nat, BookBorrow(a, m, caller, amount)
    PROVE  /\ CanAccrue(a, 0) /\ amount \in 0 .. MarketCash(a)
           /\ positions' \in Positions
           /\ \E after : /\ Sound(after, now) /\ Store(a, after)
                        /\ Margin(after, MarketCash(a) - amount) >= Margin(m, MarketCash(a))
<1> DEFINE cash == MarketCash(a)
           p == params[a]
           premium == Premium(m, p, cash, amount)
           scaled == ScaledBorrowed(m, amount + premium)
           after == WithScaledDebt(PremiumCharged(m, p, premium), m.total_scaled_debt + scaled)
           debt == positions[a][caller].scaled_debt
<1>1. /\ CanAccrue(a, 0) /\ amount \in 1 .. cash /\ Store(a, after)
      /\ positions' = [positions EXCEPT ![a][caller].scaled_debt = @ + scaled]
  BY DEF BookBorrow
<1>2. cash \in Nat /\ Sound(m, now)
  BY <1>1, CashType, CurrentIsSound DEF LendingInv
<1>3. p \in Enforced /\ debt \in Nat
  BY DEF LendingInv, TermsOK, BooksOK, Positions
<1>4. amount \in 0 .. cash
  BY <1>1, <1>2
<1> HIDE DEF cash, p
<1>5. scaled \in Nat /\ Sound(after, now) /\ Margin(after, cash - amount) >= Margin(m, cash)
  BY <1>2, <1>3, <1>4, BorrowGains
<1> HIDE DEF scaled, after
<1>6. positions' \in Positions
  <2>1. positions' = [positions EXCEPT ![a][caller].scaled_debt = debt + scaled]
    BY <1>1 DEF LendingInv, BooksOK, Positions
  <2>2. debt + scaled \in Nat
    BY <1>3, <1>5
  <2> HIDE DEF debt
  <2>3. QED
    BY <2>1, <2>2, DebtTyped DEF LendingInv
<1>7. QED
  BY <1>1, <1>4, <1>5, <1>6 DEF cash

LEMMA BorrowTaoIsGood ==
    ASSUME LendingInv, NEW caller \in Users, NEW amount \in Nat, BorrowTao(caller, amount)
    PROVE  Good
<1> DEFINE m == Current("TAO", 0)
<1>1. /\ BookBorrow("TAO", m, caller, amount) /\ PayTao(caller, amount) /\ UNCHANGED termVars
      /\ "TAO" \in Assets
  BY DEF BorrowTao, Assets
<1>2. /\ CanAccrue("TAO", 0) /\ positions' \in Positions
      /\ \E after : /\ Sound(after, now) /\ Store("TAO", after)
                   /\ Margin(after, MarketCash("TAO") - amount) >= Margin(m, MarketCash("TAO"))
  BY <1>1, BookBorrowIsSound
<1>3. /\ SleevesOK' /\ PursesOK' /\ MarketCash("TAO")' = MarketCash("TAO") - amount
      /\ \A b \in Assets \ {"TAO"} : MarketCash(b)' = MarketCash(b)
  BY <1>1, PayTaoMoves
<1>4. QED
  BY <1>1, <1>2, <1>3, NothingIsValue, GainIsGood

LEMMA BorrowTusdtIsGood ==
    ASSUME LendingInv, NEW caller \in Users, NEW amount \in Nat, BorrowTusdt(caller, amount)
    PROVE  Good
<1> DEFINE m == Current("TUSDT", 0)
<1>1. /\ BookBorrow("TUSDT", m, caller, amount) /\ PayTusdt(caller, amount)
      /\ UNCHANGED termVars /\ "TUSDT" \in Assets
  BY DEF BorrowTusdt, Assets
<1>2. /\ CanAccrue("TUSDT", 0) /\ positions' \in Positions
      /\ amount \in 0 .. MarketCash("TUSDT")
      /\ \E after : /\ Sound(after, now) /\ Store("TUSDT", after)
                   /\ Margin(after, MarketCash("TUSDT") - amount)
                        >= Margin(m, MarketCash("TUSDT"))
  BY <1>1, BookBorrowIsSound
<1>3. PursesOK' /\ MarketCash("TUSDT")' = MarketCash("TUSDT") - amount
  BY <1>1, <1>2, PayTusdtKeepsPurses DEF LendingInv
<1>4. SleevesOK' /\ \A b \in Assets \ {"TUSDT"} : MarketCash(b)' = MarketCash(b)
  BY <1>1, <1>2, TusdtMoves DEF PayTusdt
<1>5. QED
  BY <1>1, <1>2, <1>3, <1>4, NothingIsValue, GainIsGood

LEMMA LiquidateIsGood ==
    ASSUME LendingInv, NEW liquidator \in Users, NEW borrower \in Users, NEW received \in Nat,
           Liquidate(liquidator, borrower, received)
    PROVE  Good
<1> DEFINE value == [a \in Assets |-> IF a = "TAO" THEN received ELSE 0]
           books == [a \in Assets |-> Current(a, value[a])]
           debt == [a \in Assets |-> positions[a][borrower].scaled_debt]
           owed == [a \in Assets |-> Owed(a, books[a], borrower)]
           kept == IF owed["TAO"] = 0 THEN received ELSE owed["TAO"]
           paid == [a \in Assets |-> IF a = "TAO" THEN kept ELSE owed[a]]
           after == [a \in Assets |-> Retired(books[a], debt[a])]
<1>1. /\ CanAccrue("TAO", received) /\ CanAccrue("TUSDT", 0)
      /\ received >= owed["TAO"]
      /\ wallets["TAO"][liquidator] >= received
      /\ wallets["TUSDT"][liquidator] >= owed["TUSDT"]
      /\ \A a \in Assets : books[a].total_scaled_debt >= debt[a]
      /\ wallets' = [wallets EXCEPT !["TAO"][liquidator] = @ - kept,
                                    !["TUSDT"][liquidator] = @ - owed["TUSDT"]]
      /\ native' = native + kept /\ tusdt' = tusdt + owed["TUSDT"]
      /\ markets' = after
      /\ positions' = [a \in Assets |-> [positions[a] EXCEPT ![borrower].scaled_debt = 0]]
      /\ UNCHANGED <<staked_tao, swept, root_stake, termVars>>
  BY DEF Liquidate, Assets
<1>2. "TAO" \in Assets /\ "TUSDT" \in Assets /\ value["TAO"] = received /\ value["TUSDT"] = 0
      /\ paid["TAO"] = kept /\ paid["TUSDT"] = owed["TUSDT"]
  BY DEF Assets
<1>3. ASSUME NEW a \in Assets
      PROVE  /\ Sound(books[a], now) /\ books[a] \in MarketState
             /\ debt[a] \in Nat
             /\ owed[a] = DebtFace(debt[a], books[a].borrow_index) /\ owed[a] \in Nat
  <2>1. CanAccrue(a, value[a])
    BY <1>1, <1>2 DEF Assets
  <2>2. Sound(books[a], now) /\ books[a] \in MarketState
    BY <2>1, CurrentIsSound DEF LendingInv
  <2>3. debt[a] \in Nat
    BY DEF LendingInv, BooksOK, Positions
  <2>4. owed[a] = DebtFace(debt[a], books[a].borrow_index)
    BY DEF Owed
  <2> HIDE DEF books, debt, owed
  <2>5. owed[a] \in Nat
    BY <2>2, <2>3, <2>4, MulValueIsFloor DEF DebtFace, MarketState
  <2>6. QED
    BY <2>2, <2>3, <2>4, <2>5
<1>4. positions' \in Positions
  <2> DEFINE Position == [ltoken_balance : Nat, scaled_debt : Nat]
  <2>1. ASSUME NEW a \in Assets, NEW user \in Users
        PROVE  positions'[a][user] \in Position
    <3>1. positions[a] \in [Users -> Position] /\ positions[a][user] \in Position
      BY DEF LendingInv, BooksOK, Positions
    <3>2. positions'[a] = [positions[a] EXCEPT ![borrower].scaled_debt = 0]
      BY <1>1
    <3>3. positions'[a][user] = IF user = borrower THEN [positions[a][user] EXCEPT !.scaled_debt = 0]
                                ELSE positions[a][user]
      BY <3>1, <3>2
    <3>4. QED
      BY <3>1, <3>3
  <2>2. \A a \in Assets : positions'[a] \in [Users -> Position]
    <3>1. ASSUME NEW a \in Assets
          PROVE  positions'[a] = [user \in Users |-> positions'[a][user]]
      BY <1>1 DEF LendingInv, BooksOK, Positions
    <3>2. QED
      BY <2>1, <3>1
  <2>3. positions' = [a \in Assets |-> positions'[a]]
    BY <1>1
  <2>4. QED
    BY <2>2, <2>3 DEF Positions
<1>5. \A a \in Assets : markets'[a] = Retired(books[a], debt[a])
  BY <1>1
<1> HIDE DEF value, books, debt, owed
<1>6. kept \in Nat /\ kept >= owed["TAO"] /\ kept <= received
  BY <1>1, <1>2, <1>3
<1> HIDE DEF kept
<1>7. SleevesOK'
  <2>1. native' \in Nat
    BY <1>1, <1>6 DEF LendingInv, SleevesOK
  <2>2. QED
    BY <1>1, <2>1 DEF LendingInv, SleevesOK, RootStakeIsBooked, On, termVars, stakingVars
<1>8. PursesOK'
  <2>1. owed["TUSDT"] \in Nat
    BY <1>2, <1>3
  <2>2. /\ wallets["TAO"][liquidator] \in Nat /\ wallets["TUSDT"][liquidator] \in Nat
        /\ tusdt \in Nat
    BY <1>2 DEF LendingInv, PursesOK
  <2>3. /\ wallets["TAO"][liquidator] - kept \in Nat
        /\ wallets["TUSDT"][liquidator] - owed["TUSDT"] \in Nat /\ tusdt' \in Nat
    BY <1>1, <1>6, <2>1, <2>2
  <2>4. wallets' = [wallets EXCEPT
          !["TAO"][liquidator] = wallets["TAO"][liquidator] - kept,
          !["TUSDT"][liquidator] = wallets["TUSDT"][liquidator] - owed["TUSDT"]]
    BY <1>1, <1>2 DEF LendingInv, PursesOK
  <2>5. wallets' \in [Assets -> [Users -> Nat]]
    BY <1>2, <2>3, <2>4 DEF LendingInv, PursesOK
  <2>6. QED
    BY <2>3, <2>5 DEF PursesOK
<1>9. ASSUME NEW a \in Assets
      PROVE  MarketCash(a)' = MarketCash(a) + paid[a] /\ paid[a] \in Nat /\ paid[a] >= owed[a]
             /\ value[a] \in Values
  <2>1. native \in Nat /\ staked_tao \in Nat /\ tusdt \in Nat
    BY DEF LendingInv, SleevesOK, PursesOK
  <2> HIDE DEF paid
  <2>2. CASE a = "TAO"
    <3>1. MarketCash("TAO")' = MarketCash("TAO") + kept
      BY <1>1, <1>6, <2>1, CashOfMarkets
    <3>2. received \in Values
      BY <1>1, SentIsValue DEF LendingInv
    <3>3. QED
      BY <1>2, <1>6, <2>2, <3>1, <3>2
  <2>3. CASE a = "TUSDT"
    <3>1. MarketCash("TUSDT")' = MarketCash("TUSDT") + owed["TUSDT"] /\ owed["TUSDT"] \in Nat
      BY <1>1, <1>2, <1>3, CashOfMarkets
    <3>2. QED
      BY <1>2, <2>3, <3>1, NothingIsValue
  <2>4. QED
    BY <2>2, <2>3 DEF Assets
<1> HIDE DEF paid
<1>10. ASSUME NEW a \in Assets
       PROVE  Sound(after[a], now) /\ LosesOnlyDust(a)
  <2> DEFINE m == books[a]
             scaled == debt[a]
             cash == MarketCash(a)
             dust == Max({RatioOne, m.borrow_index})
             new == Retired(m, scaled)
  <2>1. /\ Sound(m, now) /\ m \in MarketState /\ scaled \in Nat /\ owed[a] \in Nat
        /\ owed[a] = DebtFace(scaled, m.borrow_index) /\ m.total_scaled_debt >= scaled
    BY <1>1, <1>3
  <2>2. cash \in Nat /\ cash' = cash + paid[a] /\ paid[a] \in Nat /\ paid[a] >= owed[a]
    BY <1>9, CashType DEF LendingInv
  <2>3. scaled = ScaledRepaid(m, scaled, owed[a])
    BY <2>1 DEF ScaledRepaid
  <2>4. m.total_scaled_debt - scaled \in Nat
    BY <2>1 DEF MarketState
  <2>5. Sound(new, now) /\ Margin(new, cash + owed[a]) > Margin(m, cash) - dust
    <3>1. scaled \in Int /\ owed[a] <= DebtFace(scaled, m.borrow_index)
      BY <2>1
    <3> HIDE DEF m, scaled, cash
    <3>2. QED
      BY <2>1, <2>2, <2>3, <2>4, <3>1, RepaymentLosesDust
  <2>6. new.borrow_index = m.borrow_index /\ new \in MarketState
    BY <2>1, <2>5 DEF Retired, WithScaledDebt, MarketState, Sound
  <2> HIDE DEF m, scaled, new
  <2>7. Margin(new, cash + paid[a]) >= Margin(new, cash + owed[a])
    <3>1. cash + owed[a] \in Int /\ paid[a] - owed[a] \in Nat
      BY <2>1, <2>2
    <3>2. cash + owed[a] + (paid[a] - owed[a]) = cash + paid[a]
      BY <2>1, <2>2
    <3>3. Margin(new, cash + owed[a] + (paid[a] - owed[a])) >= Margin(new, cash + owed[a])
      BY <2>6, <3>1, MarginGrows
    <3>4. QED
      BY <3>2, <3>3
  <2>8. /\ Margin(new, cash + paid[a]) \in Int /\ Margin(new, cash + owed[a]) \in Int
        /\ Margin(m, cash) \in Int /\ dust \in Nat
    <3>1. cash \in Int /\ cash + paid[a] \in Int /\ cash + owed[a] \in Int
      BY <2>1, <2>2
    <3>2. Margin(new, cash + paid[a]) \in Int
      BY <2>6, <3>1, MarginType
    <3>3. Margin(new, cash + owed[a]) \in Int
      BY <2>6, <3>1, MarginType
    <3>4. Margin(m, cash) \in Int
      BY <2>1, <3>1, MarginType
    <3>5. dust \in Nat
      BY <2>1, DustIsPositive
    <3>6. QED
      BY <3>2, <3>3, <3>4, <3>5
  <2>9. Margin(new, cash + paid[a]) > Margin(m, cash) - dust
    BY <2>5, <2>7, <2>8
  <2>10. markets'[a] = new /\ after[a] = new
    BY <1>5 DEF new, m, scaled
  <2>11. m = Current(a, value[a]) /\ value[a] \in Values
    BY <1>9 DEF m, books
  <2>12. Margin(markets'[a], cash') > Margin(Current(a, value[a]), cash)
                                     - Max({RatioOne, markets'[a].borrow_index})
    BY <2>2, <2>6, <2>9, <2>10, <2>11
  <2>13. Margin(markets[a], MarketCash(a))' = Margin(markets'[a], cash')
    BY DEF Margin
  <2>14. LosesOnlyDust(a)
    BY <2>11, <2>12, <2>13 DEF LosesOnlyDust
  <2>15. QED
    BY <2>5, <2>10, <2>14
<1>11. markets' = [a \in Assets |-> after[a]]
  BY <1>1
<1> HIDE DEF after
<1>12. QED
  BY <1>1, <1>4, <1>7, <1>8, <1>10, <1>11, StoreAllIsGood

LEMMA LendingStepIsGood ==
    ASSUME LendingInv, LendingStep
    PROVE  Good
<1>1. (Amounts \cup Excesses) \subseteq Nat
  BY LendingConstants
<1>2. ASSUME NEW user \in Users, NEW amount \in Amounts,
             \/ SupplyTusdt(user, amount) \/ WithdrawTao(user, amount)
             \/ WithdrawTusdt(user, amount) \/ RepayTusdt(user, amount)
      PROVE  Good
  BY <1>1, <1>2, SupplyTusdtIsGood, WithdrawTaoIsGood, WithdrawTusdtIsGood, RepayTusdtIsGood
<1>3. ASSUME NEW user \in Users, NEW amount \in Amounts, NEW excess \in Excesses,
             SupplyTao(user, amount, amount + excess) \/ RepayTao(user, amount, amount + excess)
      PROVE  Good
  <2>1. amount \in Nat /\ amount + excess \in Nat
    BY <1>1
  <2>2. QED
    BY <1>3, <2>1, SupplyTaoIsGood, RepayTaoIsGood
<1>4. ASSUME NEW user \in Users,
             \/ \E excess \in Excesses : RepayNothing("TAO", user, excess)
             \/ RepayNothing("TUSDT", user, 0)
      PROVE  Good
  BY <1>1, <1>4, RepayNothingIsGood DEF Assets
<1>5. CASE AccrueMarketInterest
  BY <1>5, AccrueMarketInterestIsGood
<1>6. CASE \E a \in Assets : ClaimReserve(a)
  BY <1>6, ClaimReserveIsGood
<1>7. CASE Sweep \/ NextBlock
  BY <1>7, SweepIsGood, NextBlockIsGood
<1>8. QED
  BY <1>2, <1>3, <1>4, <1>5, <1>6, <1>7 DEF LendingStep

LEMMA AdminStepIsGood ==
    ASSUME LendingInv, AdminStep
    PROVE  Good
<1>1. Amounts \subseteq Nat /\ StakeChoices \subseteq StakeConfig /\ ParamChoices \subseteq Params
  BY LendingConstants
<1>2. ASSUME NEW a \in Assets,
             \/ \E caller \in Maintainers :
                  \/ \E new_params \in ParamChoices : SetMarketParams(caller, a, new_params)
                  \/ CancelMarketParamsUpdate(caller, a)
             \/ ExecuteMarketParamsUpdate(a)
      PROVE  Good
  BY <1>1, <1>2, RatesAreGood
<1>3. ASSUME NEW caller \in Maintainers,
             \/ \E amount \in Amounts : ClaimSurplusTusdt(caller, amount)
             \/ TransferNativeToTreasury(caller)
      PROVE  Good
  BY <1>1, <1>3, ClaimSurplusTusdtIsGood, TransferNativeToTreasuryIsGood
<1>4. ASSUME NEW caller \in Governors, NEW hotkey \in RootHotkeys, NEW config \in StakeChoices,
             SetRootStakeConfig(caller, hotkey, config)
      PROVE  Good
  BY <1>1, <1>4, SetRootStakeConfigIsGood
<1>5. ASSUME \/ \E caller \in Guardians : Pause(caller)
             \/ \E caller \in Maintainers : Unpause(caller)
      PROVE  Good
  BY <1>5, PausesAreGood
<1>6. QED
  BY <1>2, <1>3, <1>4, <1>5 DEF AdminStep

\* The messages about subnets leave the books and the terms alone, and the money
\* too, but for the root stake where netuid 0 is one of the subnets.
LEMMA SubnetStepKeepsBooks ==
    ASSUME SubnetStep
    PROVE  UNCHANGED <<bookVars, tusdt, native, staked_tao, swept, wallets, termVars>>
  BY DEF SubnetStep, ApproveNetuid, RemoveNetuid, SetAlphaParams, CancelAlphaParamsUpdate,
         ExecuteAlphaParamsUpdate, ClaimAlphaExcess, ClaimRootExcess, Emit, UpdatePoolHotkey,
         lendingVars, moneyVars, sleeveVars

LEMMA SubnetStepAndRootStake ==
    ASSUME SubnetStep, root_stake \in [RootHotkeys -> Nat]
    PROVE  UNCHANGED root_stake \/ (On("root netuid") /\ root_stake' \in [RootHotkeys -> Nat])
<1>1. ASSUME ClaimRootExcess PROVE root_stake' \in [RootHotkeys -> Nat]
  <2>1. PICK excess \in 1 .. root_stake[pool_hotkey] :
            root_stake' = [root_stake EXCEPT ![pool_hotkey] = @ - excess]
    BY <1>1 DEF ClaimRootExcess
  <2>2. CASE pool_hotkey \in RootHotkeys
    <3>1. root_stake[pool_hotkey] - excess \in Nat
      BY <2>1, <2>2
    <3>2. QED
      BY <2>1, <3>1
  <2>3. CASE pool_hotkey \notin RootHotkeys
    BY <2>1, <2>3
  <2>4. QED
    BY <2>2, <2>3
<1>2. ASSUME NEW hotkey \in PoolHotkeys, MoveRootStake(hotkey)
      PROVE  root_stake' \in [RootHotkeys -> Nat]
  <2>1. PICK available \in Available :
            /\ root_stake[pool_hotkey] >= available
            /\ root_stake' = [[root_stake EXCEPT ![pool_hotkey] = @ - available]
                                EXCEPT ![hotkey] = @ + available]
    BY <1>2 DEF MoveRootStake
  <2>2. available \in Nat /\ hotkey \in RootHotkeys
    BY PoolConstants DEF Available
  <2> DEFINE without == [root_stake EXCEPT ![pool_hotkey] = root_stake[pool_hotkey] - available]
  <2>3. without \in [RootHotkeys -> Nat]
    <3>1. CASE pool_hotkey \in RootHotkeys
      <4>1. root_stake[pool_hotkey] - available \in Nat
        BY <2>1, <2>2, <3>1
      <4>2. QED
        BY <4>1
    <3>2. CASE pool_hotkey \notin RootHotkeys
      BY <3>2
    <3>3. QED
      BY <3>1, <3>2
  <2>4. root_stake' = [without EXCEPT ![hotkey] = @ + available]
    BY <2>1
  <2>5. without[hotkey] + available \in Nat
    BY <2>2, <2>3
  <2>6. QED
    BY <2>3, <2>4, <2>5
<1>3. ASSUME NEW caller, NEW hotkey \in PoolHotkeys, NEW netuids \in SUBSET Netuids,
             RootNetuid \in netuids => On("root netuid"),
             UpdatePoolHotkey(caller, hotkey, netuids)
      PROVE  UNCHANGED root_stake \/ (On("root netuid") /\ root_stake' \in [RootHotkeys -> Nat])
  BY <1>2, <1>3 DEF UpdatePoolHotkey
<1>4. CASE On("root netuid") /\ ClaimRootExcess
  BY <1>1, <1>4
<1>5. CASE \E caller \in Maintainers, hotkey \in PoolHotkeys, netuids \in SUBSET Netuids :
             /\ RootNetuid \in netuids => On("root netuid")
             /\ UpdatePoolHotkey(caller, hotkey, netuids)
  BY <1>3, <1>5
<1>6. CASE UNCHANGED lendingVars
  BY <1>6 DEF lendingVars, moneyVars, sleeveVars
<1>7. QED
  BY <1>4, <1>5, <1>6 DEF SubnetStep, ApproveNetuid, RemoveNetuid, SetAlphaParams,
     CancelAlphaParamsUpdate, ExecuteAlphaParamsUpdate, ClaimAlphaExcess, Emit

LEMMA SubnetStepIsGood ==
    ASSUME LendingInv, SubnetStep
    PROVE  Good
<1>1. UNCHANGED <<bookVars, tusdt, native, staked_tao, swept, wallets, termVars>>
  BY SubnetStepKeepsBooks
<1>2. TermsOK' /\ swept' \in BOOLEAN
  BY <1>1, TermsKept DEF LendingInv, SleevesOK
<1>3. UNCHANGED <<bookVars, tusdt, native, staked_tao, wallets, root_hotkey, now, agenda>>
  BY <1>1 DEF termVars, stakingVars
<1>4. UNCHANGED root_stake \/ (On("root netuid") /\ root_stake' \in [RootHotkeys -> Nat])
  BY SubnetStepAndRootStake DEF LendingInv, SleevesOK
<1>5. QED
  BY <1>2, <1>3, <1>4, TermsMove

LEMMA CollateralStepIsGood ==
    ASSUME LendingInv, BorrowerStep \/ LiquidatorStep \/ SubnetStep \/ PricesMove \/ TimePasses
    PROVE  Good
<1>1. Amounts \subseteq Nat /\ Borrowers \subseteq Users
  BY LendingConstants, PoolConstants
<1>2. CASE BorrowerStep
  <2>1. ASSUME NEW user \in Borrowers, NEW netuid \in Netuids, NEW amount \in AlphaAmounts,
               DepositAlpha(user, netuid, amount) \/ WithdrawAlpha(user, netuid, amount)
        PROVE  Good
    <3>1. UNCHANGED lendingVars
      BY <2>1 DEF DepositAlpha, WithdrawAlpha
    <3>2. QED
      BY <3>1, NothingIsGood
  <2>2. ASSUME NEW user \in Borrowers, NEW amount \in Amounts,
               BorrowTao(user, amount) \/ BorrowTusdt(user, amount)
        PROVE  Good
    BY <1>1, <2>2, BorrowTaoIsGood, BorrowTusdtIsGood
  <2>3. QED
    BY <1>2, <2>1, <2>2 DEF BorrowerStep
<1>3. CASE LiquidatorStep
  <2>1. PICK liquidator \in Users, borrower \in Borrowers :
            \E received \in 0 .. wallets["TAO"][liquidator] :
                Liquidate(liquidator, borrower, received)
    BY <1>3 DEF LiquidatorStep
  <2>2. PICK received \in 0 .. wallets["TAO"][liquidator] :
            Liquidate(liquidator, borrower, received)
    BY <2>1
  <2>3. received \in Nat
    OBVIOUS
  <2>4. QED
    BY <1>1, <2>2, <2>3, LiquidateIsGood
<1>4. CASE SubnetStep \/ PricesMove
  BY <1>4, SubnetStepIsGood, NothingIsGood DEF PricesMove
<1>5. CASE TimePasses
  BY <1>5, TickIsGood DEF TimePasses
<1>6. QED
  BY <1>2, <1>3, <1>4, <1>5

LEMMA PoolNextIsGood ==
    ASSUME LendingInv, [PoolNext]_poolVars
    PROVE  Good
<1>1. CASE PoolNext
  BY <1>1, LendingStepIsGood, AdminStepIsGood, CollateralStepIsGood DEF PoolNext
<1>2. CASE UNCHANGED poolVars
  BY <1>2, NothingIsGood DEF poolVars
<1>3. QED
  BY <1>1, <1>2

LEMMA LendingInvInit == PoolInit => LendingInv
<1> SUFFICES ASSUME NEW scenario \in Scenarios, LendingInit(scenario)
             PROVE  LendingInv
  BY DEF PoolInit
<1>1. EmptyMarket \in MarketState /\ Sound(EmptyMarket, 0)
  <2>1. DebtFace(0, RatioOne) = 0
    <3>1. RatioOne * 0 = 0 /\ 0 \div RatioOne = 0
      BY RatioOneAssumption
    <3>2. QED
      BY <3>1 DEF DebtFace, MulValue
  <2>2. EmptyMarket \in MarketState
    BY RatioOneAssumption DEF EmptyMarket, MarketState
  <2>3. QED
    BY <2>1, <2>2 DEF EmptyMarket, Sound
<1>2. BooksOK
  BY <1>1 DEF LendingInit, BooksOK, Positions
<1>3. TermsOK
  <2>1. DefaultParams \in [Assets -> Enforced]
    BY LendingConstants DEF Enforced
  <2>2. stake_config \in {c \in StakeConfig : MinRootStakeFloor <= c.floor /\ c.floor <= c.buffer}
    <3>1. stake_config = [enabled |-> FALSE, buffer |-> DefaultStakeBuffer, threshold |-> 0,
                          floor |-> MinRootStakeFloor]
      BY DEF LendingInit
    <3>2. DefaultStakeBuffer \in Nat
      BY LendingConstants
    <3>3. QED
      BY <3>1, <3>2, LendingConstants DEF StakeConfig
  <2>3. QED
    BY <2>1, <2>2, LendingConstants, PoolConstants DEF LendingInit, TermsOK
<1>4. SleevesOK /\ PursesOK
  <2>1. /\ scenario.users \in [Assets -> Nat] /\ scenario.pool \in [Assets -> Nat]
        /\ "TAO" \in Assets /\ "TUSDT" \in Assets
    BY PoolConstants DEF Assets
  <2>2. native \in Nat /\ tusdt \in Nat
    BY <2>1 DEF LendingInit
  <2>3. wallets \in [Assets -> [Users -> Nat]]
    BY <2>1 DEF LendingInit
  <2>4. /\ root_stake = [hotkey \in RootHotkeys |-> IF hotkey = root_hotkey THEN staked_tao ELSE 0]
        /\ staked_tao = 0 /\ swept \in BOOLEAN
    BY DEF LendingInit
  <2>5. root_stake \in [RootHotkeys -> Nat] /\ staked_tao \notin 1 .. MinRootStakeFloor - 1
    BY <2>4
  <2>6. QED
    BY <2>2, <2>3, <2>4, <2>5 DEF SleevesOK, PursesOK, RootStakeIsBooked
<1>5. QED
  BY <1>2, <1>3, <1>4 DEF LendingInv

LEMMA LendingInvariance == PoolSpec => []LendingInv
<1>1. LendingInv /\ [PoolNext]_poolVars => LendingInv'
  BY PoolNextIsGood DEF Good
<1>2. QED
  BY <1>1, LendingInvInit, PTL DEF PoolSpec

\* Whatever is swept, topped up and rotated, by whichever messages and with
\* whichever part of the stake the chain holds back: what the pool booked as its
\* root stake is no dust and, in the behaviours in which nobody approves netuid 0
\* or lists it in a hotkey move, it is staked under the root hotkey.
THEOREM PoolRootStakeIsBooked == PoolSpec => []RootStakeIsBooked
<1>1. LendingInv => RootStakeIsBooked
  BY LendingInvImplies
<1>2. QED
  BY <1>1, LendingInvariance, PTL

\* The face total of each market, from which the utilization and so the rate
\* are computed, never drifts from the scaled debt.
THEOREM PoolDebtIsFace == PoolSpec => []DebtIsFace
<1>1. LendingInv => DebtIsFace
  BY LendingInvImplies
<1>2. QED
  BY <1>1, LendingInvariance, PTL

\* No message of a supplier, a borrower, a liquidator or the treasury, at any
\* rate, index and exchange rate and with any rounding, takes more out of a
\* market than it brings in, but for one unit of scaled debt.
THEOREM PoolMessageLosesOnlyDust == PoolSpec => MessageLosesOnlyDust
<1> DEFINE OnlyDust == now' = now /\ params' = params => \A a \in Assets : LosesOnlyDust(a)
<1>1. LendingInv /\ [PoolNext]_poolVars => [OnlyDust]_lendingVars
  BY PoolNextIsGood DEF Good
<1>2. PoolSpec => [][OnlyDust]_lendingVars
  BY <1>1, LendingInvariance, PTL DEF PoolSpec
<1>3. MessageLosesOnlyDust <=> [][OnlyDust]_lendingVars
  BY PTL DEF MessageLosesOnlyDust, LosesOnlyDust
<1>4. QED
  BY <1>2, <1>3

----------------------------------------------------------------------------
(* The collateral and the registry. *)

EnforcedAlpha == {p \in AlphaParams : ValidAlphaParams(p)}

RegistryOK ==
    /\ netuid_to_market \in [Netuids -> {NoMarket} \cup MarketIds]
    /\ market_to_netuid \in [MarketIds -> {NoNetuid} \cup Netuids]
    /\ next_alpha_market_id \in 2 .. MaxMarketId + 1
    /\ RegistryInverse

CollateralOK ==
    /\ alpha_principal \in [MarketIds -> [Users -> Nat]]
    /\ netuid_total_collateral \in [Netuids -> Nat]
    /\ stake \in [PoolHotkeys \X Netuids -> Nat]
    /\ alpha \in [Users \cup {Platform} -> [Netuids -> Nat]]

AlphaTermsOK ==
    /\ alpha_params \in [Netuids -> EnforcedAlpha]
    /\ pending_alpha_params \in
         [Netuids -> {NoPending} \cup [params : EnforcedAlpha, execute_after : Nat]]
    /\ pool_hotkey \in PoolHotkeys

PricesOK == price \in [tao : Nat \ {0}, alpha : [Netuids -> Nat]] /\ fresh \in BOOLEAN

PoolInv == LendingInv /\ RegistryOK /\ CollateralOK /\ AlphaTermsOK /\ PricesOK

LEMMA PoolInvImplies == PoolInv => TypeOK /\ RegistryInverse
<1>1. LendingInv => LendingTypeOK
  BY LendingInvImplies
<1>2. QED
  BY <1>1 DEF PoolInv, RegistryOK, CollateralOK, AlphaTermsOK, PricesOK, TypeOK, EnforcedAlpha

LEMMA RegistryKept == RegistryOK /\ UNCHANGED registryVars => RegistryOK'
  BY DEF RegistryOK, registryVars, RegistryInverse, Approved, market_keys

LEMMA CollateralKept == CollateralOK /\ UNCHANGED collateralVars => CollateralOK'
  BY DEF CollateralOK, collateralVars

LEMMA AlphaTermsKept == AlphaTermsOK /\ UNCHANGED alphaTerms => AlphaTermsOK'
  BY DEF AlphaTermsOK, alphaTerms

LEMMA PricesKept == PricesOK /\ UNCHANGED priceVars => PricesOK'
  BY DEF PricesOK, priceVars

LEMMA NoMarketIsNoId == NoMarket \notin MarketIds
  BY PoolConstants DEF NoMarket, MarketIds

LEMMA PrincipalType ==
    ASSUME RegistryOK, CollateralOK, NEW user \in Users, NEW netuid \in Netuids
    PROVE  Principal(user, netuid) \in Nat
  BY NoMarketIsNoId DEF RegistryOK, CollateralOK, Principal, Approved

\* A stake transfer out keeps the types, whatever the fees.
LEMMA StakeOutTyped ==
    ASSUME CollateralOK, AlphaTermsOK, NEW account \in Users,
           NEW amounts \in [Netuids -> Nat], NEW fees, StakeOut(account, amounts, fees)
    PROVE  /\ stake' \in [PoolHotkeys \X Netuids -> Nat]
           /\ alpha' \in [Users \cup {Platform} -> [Netuids -> Nat]]
<1>1. \A n \in Netuids : /\ stake[<<pool_hotkey, n>>] >= amounts[n] /\ amounts[n] \in Nat
                          /\ fees[n] \in Nat /\ amounts[n] - fees[n] \in Nat
  BY DEF StakeOut
<1>2. stake' \in [PoolHotkeys \X Netuids -> Nat]
  <2>1. stake' = [hn \in PoolHotkeys \X Netuids |->
                    IF hn[1] = pool_hotkey THEN stake[hn] - amounts[hn[2]] ELSE stake[hn]]
    BY DEF StakeOut, CollateralOK
  <2>2. ASSUME NEW hotkey \in PoolHotkeys, NEW n \in Netuids, hotkey = pool_hotkey
        PROVE  stake[<<hotkey, n>>] - amounts[n] \in Nat
    <3>1. stake[<<hotkey, n>>] \in Nat /\ stake[<<hotkey, n>>] >= amounts[n] /\ amounts[n] \in Nat
      BY <1>1, <2>2 DEF CollateralOK
    <3>2. QED
      BY <3>1
  <2>3. QED
    BY <2>1, <2>2 DEF CollateralOK
<1>3. alpha' \in [Users \cup {Platform} -> [Netuids -> Nat]]
  <2> DEFINE platform == [n \in Netuids |-> alpha[Platform][n] + fees[n]]
             own == [n \in Netuids |-> alpha[account][n] + (amounts[n] - fees[n])]
  <2>1. own \in [Netuids -> Nat] /\ platform \in [Netuids -> Nat]
    <3>1. \A n \in Netuids : alpha[account][n] \in Nat /\ alpha[Platform][n] \in Nat
      BY DEF CollateralOK
    <3>2. \A n \in Netuids : /\ alpha[account][n] + (amounts[n] - fees[n]) \in Nat
                              /\ alpha[Platform][n] + fees[n] \in Nat
      <4>1. ASSUME NEW n \in Netuids, NEW rest, rest = amounts[n] - fees[n]
            PROVE  alpha[account][n] + rest \in Nat /\ alpha[Platform][n] + fees[n] \in Nat
        <5>1. rest \in Nat /\ fees[n] \in Nat
          BY <1>1, <4>1
        <5>2. alpha[account][n] \in Nat /\ alpha[Platform][n] \in Nat
          BY <3>1
        <5>3. QED
          BY <5>1, <5>2
      <4>2. QED
        BY <4>1
    <3>3. QED
      BY <3>2
  <2>2. account # Platform
    BY PoolConstants
  <2>3. alpha' = [alpha EXCEPT ![account] = own, ![Platform] = platform]
    BY <2>2 DEF StakeOut, CollateralOK
  <2> HIDE DEF own, platform
  <2>4. QED
    BY <2>1, <2>3 DEF CollateralOK
<1>4. QED
  BY <1>2, <1>3

LEMMA DepositKeepsCollateral ==
    ASSUME PoolInv, NEW caller \in Users, NEW netuid \in Netuids, NEW amount \in Nat,
           DepositAlpha(caller, netuid, amount)
    PROVE  CollateralOK'
<1> DEFINE id == netuid_to_market[netuid]
<1>1. id \in MarketIds /\ caller \in Users \cup {Platform}
  BY DEF DepositAlpha, Approved, PoolInv, RegistryOK
<1> HIDE DEF id
<1>2. /\ stake' = [stake EXCEPT ![<<pool_hotkey, netuid>>] = @ + amount]
      /\ alpha[caller][netuid] >= amount
      /\ alpha' = [alpha EXCEPT ![caller][netuid] = @ - amount]
      /\ alpha_principal' = [alpha_principal EXCEPT ![id][caller] = @ + amount]
      /\ netuid_total_collateral' = [netuid_total_collateral EXCEPT ![netuid] = @ + amount]
  BY DEF DepositAlpha, StakeIn, id
<1>3. CollateralOK /\ pool_hotkey \in PoolHotkeys
  BY DEF PoolInv, AlphaTermsOK
<1>4. stake' \in [PoolHotkeys \X Netuids -> Nat] /\ netuid_total_collateral' \in [Netuids -> Nat]
  BY <1>2, <1>3 DEF CollateralOK
<1>5. alpha_principal' \in [MarketIds -> [Users -> Nat]]
  BY <1>1, <1>2, <1>3 DEF CollateralOK
<1>6. alpha' \in [Users \cup {Platform} -> [Netuids -> Nat]]
  <2>1. alpha[caller][netuid] - amount \in Nat
    BY <1>1, <1>2, <1>3 DEF CollateralOK
  <2>2. QED
    BY <1>1, <1>2, <1>3, <2>1 DEF CollateralOK
<1>7. QED
  BY <1>4, <1>5, <1>6 DEF CollateralOK

LEMMA WithdrawAlphaKeepsCollateral ==
    ASSUME PoolInv, NEW caller \in Users, NEW netuid \in Netuids, NEW amount \in Nat,
           WithdrawAlpha(caller, netuid, amount)
    PROVE  CollateralOK'
<1> DEFINE id == netuid_to_market[netuid]
           amounts == [n \in Netuids |-> IF n = netuid THEN amount ELSE 0]
           none == [n \in Netuids |-> IF n = netuid THEN 0 ELSE 0]
<1>1. /\ id \in MarketIds /\ alpha_principal[id][caller] >= amount
      /\ netuid_total_collateral[netuid] >= amount
      /\ StakeOut(caller, amounts, none)
      /\ alpha_principal' = [alpha_principal EXCEPT ![id][caller] = @ - amount]
      /\ netuid_total_collateral' = [netuid_total_collateral EXCEPT ![netuid] = @ - amount]
  <2>1. Approved(netuid) /\ amount \in 1 .. Principal(caller, netuid)
    BY DEF WithdrawAlpha
  <2>2. Principal(caller, netuid) = alpha_principal[id][caller] /\ id \in MarketIds
    BY <2>1 DEF Principal, PoolInv, RegistryOK, Approved
  <2>3. Principal(caller, netuid) \in Nat
    BY PrincipalType DEF PoolInv
  <2>4. alpha_principal[id][caller] >= amount
    BY <2>1, <2>2, <2>3
  <2>5. QED
    BY <2>2, <2>4 DEF WithdrawAlpha
<1>2. CollateralOK /\ AlphaTermsOK
  BY DEF PoolInv
<1>3. amounts \in [Netuids -> Nat]
  OBVIOUS
<1> HIDE DEF id, amounts, none
<1>4. /\ stake' \in [PoolHotkeys \X Netuids -> Nat]
      /\ alpha' \in [Users \cup {Platform} -> [Netuids -> Nat]]
  BY <1>1, <1>2, <1>3, StakeOutTyped
<1>5. alpha_principal' \in [MarketIds -> [Users -> Nat]]
  <2>1. alpha_principal[id][caller] - amount \in Nat
    BY <1>1, <1>2 DEF CollateralOK
  <2>2. QED
    BY <1>1, <1>2, <2>1 DEF CollateralOK
<1>6. netuid_total_collateral' \in [Netuids -> Nat]
  <2>1. netuid_total_collateral[netuid] - amount \in Nat
    BY <1>1, <1>2 DEF CollateralOK
  <2>2. QED
    BY <1>1, <1>2, <2>1 DEF CollateralOK
<1>7. QED
  BY <1>4, <1>5, <1>6 DEF CollateralOK

LEMMA LiquidateKeepsCollateral ==
    ASSUME PoolInv, NEW liquidator \in Users, NEW borrower \in Users, NEW received,
           Liquidate(liquidator, borrower, received)
    PROVE  CollateralOK'
<1> DEFINE seized == Holding(borrower)
           cleared == {netuid_to_market[n] : n \in Held(borrower)}
<1>1. PICK fees :
        /\ \A n \in Netuids : netuid_total_collateral[n] >= seized[n]
        /\ StakeOut(liquidator, seized, fees)
        /\ alpha_principal' = [id \in MarketIds |->
             IF id \in cleared
             THEN [alpha_principal[id] EXCEPT ![borrower] = 0] ELSE alpha_principal[id]]
        /\ netuid_total_collateral' =
             [n \in Netuids |-> netuid_total_collateral[n] - seized[n]]
  BY DEF Liquidate
<1>2. CollateralOK /\ AlphaTermsOK
  BY DEF PoolInv
<1>3. seized \in [Netuids -> Nat]
  BY PrincipalType DEF PoolInv, Holding
<1> HIDE DEF seized, cleared
<1>4. /\ stake' \in [PoolHotkeys \X Netuids -> Nat]
      /\ alpha' \in [Users \cup {Platform} -> [Netuids -> Nat]]
  BY <1>1, <1>2, <1>3, StakeOutTyped
<1>5. alpha_principal' \in [MarketIds -> [Users -> Nat]]
  BY <1>1, <1>2 DEF CollateralOK
<1>6. netuid_total_collateral' \in [Netuids -> Nat]
  <2>1. \A n \in Netuids : netuid_total_collateral[n] - seized[n] \in Nat
    BY <1>1, <1>2, <1>3 DEF CollateralOK
  <2>2. QED
    BY <1>1, <2>1
<1>7. QED
  BY <1>4, <1>5, <1>6 DEF CollateralOK

LEMMA ApproveKeepsRegistry ==
    ASSUME RegistryOK, NEW caller, NEW netuid \in Netuids, ApproveNetuid(caller, netuid)
    PROVE  RegistryOK'
<1> DEFINE id == next_alpha_market_id
<1>1. /\ id \in MarketIds /\ ~Approved(netuid)
      /\ netuid_to_market' = [netuid_to_market EXCEPT ![netuid] = id]
      /\ market_to_netuid' = [market_to_netuid EXCEPT ![id] = netuid]
      /\ next_alpha_market_id' = id + 1
  BY DEF ApproveNetuid
<1>2. id \in 2 .. MaxMarketId /\ MaxMarketId \in Nat
  BY <1>1, PoolConstants DEF MarketIds
<1>3. id + 1 \in 2 .. MaxMarketId + 1
  BY <1>2
<1>4. id \notin market_keys
  BY <1>2 DEF market_keys
<1>5. market_to_netuid[id] = NoNetuid
  BY <1>1, <1>4 DEF RegistryOK, RegistryInverse
<1>6. market_keys' = market_keys \cup {id}
  BY <1>1, <1>2 DEF market_keys
<1> HIDE DEF id
<1>7. ASSUME NEW n \in Netuids, Approved(n)'
      PROVE  market_to_netuid'[netuid_to_market'[n]] = n
  <2>1. CASE n = netuid
    BY <1>1, <2>1 DEF RegistryOK
  <2>2. CASE n # netuid
    <3>1. Approved(n) /\ netuid_to_market'[n] = netuid_to_market[n]
      BY <1>1, <1>7, <2>2 DEF Approved, RegistryOK
    <3>2. market_to_netuid[netuid_to_market[n]] = n /\ n # NoNetuid
      BY <3>1, PoolConstants DEF RegistryOK, RegistryInverse
    <3>3. netuid_to_market[n] # id /\ netuid_to_market[n] \in MarketIds
      BY <1>5, <3>1, <3>2 DEF RegistryOK, Approved
    <3>4. QED
      BY <1>1, <3>1, <3>2, <3>3 DEF RegistryOK
  <2>3. QED
    BY <2>1, <2>2
<1>8. ASSUME NEW other \in MarketIds, market_to_netuid'[other] # NoNetuid
      PROVE  other \in market_keys'
  BY <1>1, <1>6, <1>8 DEF RegistryOK, RegistryInverse
<1>9. QED
  BY <1>1, <1>3, <1>7, <1>8 DEF RegistryOK, RegistryInverse, id

LEMMA RemoveKeepsRegistry ==
    ASSUME RegistryOK, NEW caller, NEW netuid \in Netuids, RemoveNetuid(caller, netuid)
    PROVE  RegistryOK'
<1> DEFINE id == netuid_to_market[netuid]
<1>1. /\ Approved(netuid)
      /\ netuid_to_market' = [netuid_to_market EXCEPT ![netuid] = NoMarket]
      /\ market_to_netuid' = [market_to_netuid EXCEPT ![id] = NoNetuid]
      /\ next_alpha_market_id' = next_alpha_market_id
  BY DEF RemoveNetuid
<1>2. id \in MarketIds /\ market_to_netuid[id] = netuid
  BY <1>1 DEF RegistryOK, RegistryInverse, Approved
<1> HIDE DEF id
<1>3. ASSUME NEW n \in Netuids, Approved(n)'
      PROVE  market_to_netuid'[netuid_to_market'[n]] = n
  <2>1. n # netuid /\ netuid_to_market'[n] = netuid_to_market[n] /\ Approved(n)
    BY <1>1, <1>3 DEF Approved, RegistryOK
  <2>2. market_to_netuid[netuid_to_market[n]] = n /\ netuid_to_market[n] \in MarketIds
    BY <2>1 DEF RegistryOK, RegistryInverse, Approved
  <2>3. netuid_to_market[n] # id
    BY <1>2, <2>1, <2>2
  <2>4. QED
    BY <1>1, <2>1, <2>2, <2>3 DEF RegistryOK
<1>4. market_keys' = market_keys
  BY <1>1 DEF market_keys
<1>5. ASSUME NEW other \in MarketIds, market_to_netuid'[other] # NoNetuid
      PROVE  other \in market_keys'
  BY <1>1, <1>4, <1>5 DEF RegistryOK, RegistryInverse
<1>6. QED
  BY <1>1, <1>3, <1>5 DEF RegistryOK, RegistryInverse

LEMMA AlphaParamsKeepTerms ==
    ASSUME PoolInv, NEW caller, NEW netuid \in Netuids,
           \/ \E new_params \in AlphaChoices : SetAlphaParams(caller, netuid, new_params)
           \/ ExecuteAlphaParamsUpdate(netuid)
           \/ CancelAlphaParamsUpdate(caller, netuid)
    PROVE  AlphaTermsOK'
<1>1. AlphaTermsOK /\ now \in Nat
  BY DEF PoolInv, LendingInv, TermsOK
<1>2. ASSUME NEW new_params \in AlphaChoices, SetAlphaParams(caller, netuid, new_params)
      PROVE  AlphaTermsOK'
  <2>1. new_params \in EnforcedAlpha /\ now + ParamsTimelock \in Nat
    BY <1>1, <1>2, LendingConstants, PoolConstants DEF SetAlphaParams, EnforcedAlpha
  <2>2. [params |-> new_params, execute_after |-> now + ParamsTimelock]
          \in [params : EnforcedAlpha, execute_after : Nat]
    BY <2>1
  <2>3. /\ pending_alpha_params' = [pending_alpha_params EXCEPT ![netuid] =
              [params |-> new_params, execute_after |-> now + ParamsTimelock]]
        /\ UNCHANGED <<alpha_params, pool_hotkey>>
    BY <1>2 DEF SetAlphaParams
  <2>4. QED
    BY <1>1, <2>2, <2>3 DEF AlphaTermsOK
<1>3. CASE ExecuteAlphaParamsUpdate(netuid)
  <2>1. pending_alpha_params[netuid] \in [params : EnforcedAlpha, execute_after : Nat]
    BY <1>1, <1>3 DEF ExecuteAlphaParamsUpdate, AlphaTermsOK
  <2>2. pending_alpha_params[netuid].params \in EnforcedAlpha
    BY <2>1
  <2>3. QED
    BY <1>1, <1>3, <2>2 DEF ExecuteAlphaParamsUpdate, AlphaTermsOK
<1>4. CASE CancelAlphaParamsUpdate(caller, netuid)
  BY <1>1, <1>4 DEF CancelAlphaParamsUpdate, AlphaTermsOK
<1>5. QED
  BY <1>2, <1>3, <1>4

LEMMA CustodyKeepsCollateral ==
    ASSUME PoolInv, NEW netuid \in Netuids,
           ClaimAlphaExcess(netuid) \/ \E amount \in Emissions : Emit(netuid, amount)
    PROVE  CollateralOK' /\ AlphaTermsOK'
<1>1. CollateralOK /\ AlphaTermsOK /\ Emissions \subseteq Nat
  BY PoolConstants DEF PoolInv
<1>2. UNCHANGED <<alpha_principal, netuid_total_collateral, alpha, alphaTerms>>
  BY DEF ClaimAlphaExcess, Emit
<1>3. <<pool_hotkey, netuid>> \in PoolHotkeys \X Netuids /\ stake[<<pool_hotkey, netuid>>] \in Nat
  BY <1>1 DEF AlphaTermsOK, CollateralOK
<1>4. stake' \in [PoolHotkeys \X Netuids -> Nat]
  <2>1. ASSUME NEW excess \in 1 .. stake[<<pool_hotkey, netuid>>],
               stake' = [stake EXCEPT ![<<pool_hotkey, netuid>>] = @ - excess]
        PROVE  <1>4!:
    <3>1. stake[<<pool_hotkey, netuid>>] - excess \in Nat
      BY <1>3
    <3>2. QED
      BY <1>1, <2>1, <3>1 DEF CollateralOK
  <2>2. ASSUME NEW amount \in Emissions,
               stake' = [stake EXCEPT ![<<pool_hotkey, netuid>>] = @ + amount]
        PROVE  <1>4!:
    <3>1. stake[<<pool_hotkey, netuid>>] + amount \in Nat
      BY <1>1, <1>3
    <3>2. QED
      BY <1>1, <2>2, <3>1 DEF CollateralOK
  <2>3. QED
    BY <2>1, <2>2 DEF ClaimAlphaExcess, Emit
<1>5. QED
  BY <1>1, <1>2, <1>4, AlphaTermsKept DEF CollateralOK

LEMMA RehostingKeepsCollateral ==
    ASSUME PoolInv, NEW caller, NEW hotkey \in PoolHotkeys, NEW netuids \in SUBSET Netuids,
           UpdatePoolHotkey(caller, hotkey, netuids)
    PROVE  CollateralOK' /\ AlphaTermsOK'
<1>1. CollateralOK /\ AlphaTermsOK
  BY DEF PoolInv
<1>2. /\ \A n \in netuids : AvailableStake(n) = stake[<<pool_hotkey, n>>]
      /\ stake' = [hn \in DOMAIN stake |->
                     IF hn[2] \notin netuids THEN stake[hn]
                     ELSE IF hn[1] = hotkey THEN AvailableStake(hn[2]) ELSE 0]
      /\ pool_hotkey' = hotkey
      /\ UNCHANGED <<alpha_principal, netuid_total_collateral, alpha,
                     alpha_params, pending_alpha_params>>
  BY DEF UpdatePoolHotkey
<1>3. ASSUME NEW n \in netuids PROVE AvailableStake(n) \in Nat
  <2>1. <<pool_hotkey, n>> \in PoolHotkeys \X Netuids
    BY <1>1 DEF AlphaTermsOK
  <2>2. stake[<<pool_hotkey, n>>] \in Nat
    BY <1>1, <2>1 DEF CollateralOK
  <2>3. QED
    BY <1>2, <2>2
<1>4. stake' \in [PoolHotkeys \X Netuids -> Nat]
  <2>1. DOMAIN stake = PoolHotkeys \X Netuids
    BY <1>1 DEF CollateralOK
  <2>2. ASSUME NEW hn \in PoolHotkeys \X Netuids
        PROVE  stake'[hn] \in Nat
    <3>1. stake[hn] \in Nat
      BY <1>1 DEF CollateralOK
    <3>2. stake'[hn] = IF hn[2] \notin netuids THEN stake[hn]
                       ELSE IF hn[1] = hotkey THEN AvailableStake(hn[2]) ELSE 0
      BY <1>2, <2>1
    <3>3. QED
      BY <1>3, <3>1, <3>2
  <2>3. QED
    BY <1>2, <2>1, <2>2
<1>5. QED
  BY <1>1, <1>2, <1>4 DEF CollateralOK, AlphaTermsOK

LEMMA PoolNextKeepsInv ==
    ASSUME PoolInv, [PoolNext]_poolVars
    PROVE  PoolInv'
<1>1. LendingInv'
  BY PoolNextIsGood DEF PoolInv, Good
<1>2. /\ RegistryOK /\ CollateralOK /\ AlphaTermsOK /\ PricesOK
      /\ Borrowers \subseteq Users /\ AlphaAmounts \subseteq Nat
      /\ Prices \subseteq [tao : Nat \ {0}, alpha : [Netuids -> Nat]]
  BY PoolConstants DEF PoolInv
<1>3. CASE UNCHANGED <<registryVars, collateralVars, alphaTerms, priceVars>>
  BY <1>1, <1>2, <1>3, RegistryKept, CollateralKept, AlphaTermsKept, PricesKept DEF PoolInv
<1>4. CASE BorrowerStep
  <2>1. ASSUME NEW user \in Borrowers, NEW netuid \in Netuids, NEW amount \in AlphaAmounts,
               DepositAlpha(user, netuid, amount) \/ WithdrawAlpha(user, netuid, amount)
        PROVE  PoolInv'
    <3>1. CollateralOK'
      BY <1>2, <2>1, DepositKeepsCollateral, WithdrawAlphaKeepsCollateral
    <3>2. UNCHANGED <<registryVars, alphaTerms, priceVars>>
      BY <2>1 DEF DepositAlpha, WithdrawAlpha
    <3>3. QED
      BY <1>1, <1>2, <3>1, <3>2, RegistryKept, AlphaTermsKept, PricesKept DEF PoolInv
  <2>2. ASSUME NEW user \in Borrowers, NEW amount \in Amounts,
               BorrowTao(user, amount) \/ BorrowTusdt(user, amount)
        PROVE  PoolInv'
    BY <1>3, <2>2 DEF BorrowTao, BorrowTusdt
  <2>3. QED
    BY <1>4, <2>1, <2>2 DEF BorrowerStep
<1>5. CASE LiquidatorStep
  <2>1. PICK liquidator \in Users, borrower \in Borrowers :
            \E received \in 0 .. wallets["TAO"][liquidator] :
                Liquidate(liquidator, borrower, received)
    BY <1>5 DEF LiquidatorStep
  <2>2. CollateralOK'
    BY <1>2, <2>1, LiquidateKeepsCollateral
  <2>3. UNCHANGED <<registryVars, alphaTerms, priceVars>>
    BY <2>1 DEF Liquidate
  <2>4. QED
    BY <1>1, <1>2, <2>2, <2>3, RegistryKept, AlphaTermsKept, PricesKept DEF PoolInv
<1>6. CASE SubnetStep
  <2>1. ASSUME NEW caller, NEW netuid \in Netuids,
               ApproveNetuid(caller, netuid) \/ RemoveNetuid(caller, netuid)
        PROVE  PoolInv'
    <3>1. RegistryOK'
      BY <1>2, <2>1, ApproveKeepsRegistry, RemoveKeepsRegistry
    <3>2. UNCHANGED <<collateralVars, alphaTerms, priceVars>>
      BY <2>1 DEF ApproveNetuid, RemoveNetuid
    <3>3. QED
      BY <1>1, <1>2, <3>1, <3>2, CollateralKept, AlphaTermsKept, PricesKept DEF PoolInv
  <2>2. ASSUME NEW caller, NEW netuid \in Netuids,
               \/ \E new_params \in AlphaChoices : SetAlphaParams(caller, netuid, new_params)
               \/ ExecuteAlphaParamsUpdate(netuid)
               \/ CancelAlphaParamsUpdate(caller, netuid)
        PROVE  PoolInv'
    <3>1. AlphaTermsOK'
      BY <2>2, AlphaParamsKeepTerms
    <3>2. UNCHANGED <<registryVars, collateralVars, priceVars>>
      BY <2>2 DEF SetAlphaParams, ExecuteAlphaParamsUpdate, CancelAlphaParamsUpdate
    <3>3. QED
      BY <1>1, <1>2, <3>1, <3>2, RegistryKept, CollateralKept, PricesKept DEF PoolInv
  <2>3. ASSUME NEW netuid \in Netuids,
               ClaimAlphaExcess(netuid) \/ \E amount \in Emissions : Emit(netuid, amount)
        PROVE  PoolInv'
    <3>1. CollateralOK' /\ AlphaTermsOK'
      BY <2>3, CustodyKeepsCollateral
    <3>2. UNCHANGED <<registryVars, priceVars>>
      BY <2>3 DEF ClaimAlphaExcess, Emit
    <3>3. QED
      BY <1>1, <1>2, <3>1, <3>2, RegistryKept, PricesKept DEF PoolInv
  <2>4. ASSUME NEW caller, NEW hotkey \in PoolHotkeys, NEW netuids \in SUBSET Netuids,
               UpdatePoolHotkey(caller, hotkey, netuids)
        PROVE  PoolInv'
    <3>1. CollateralOK' /\ AlphaTermsOK'
      BY <2>4, RehostingKeepsCollateral
    <3>2. UNCHANGED <<registryVars, priceVars>>
      BY <2>4 DEF UpdatePoolHotkey
    <3>3. QED
      BY <1>1, <1>2, <3>1, <3>2, RegistryKept, PricesKept DEF PoolInv
  <2>5. ASSUME ClaimRootExcess PROVE PoolInv'
    <3>1. UNCHANGED <<registryVars, collateralVars, alphaTerms, priceVars>>
      BY <2>5 DEF ClaimRootExcess
    <3>2. QED
      BY <1>1, <1>2, <3>1, RegistryKept, CollateralKept, AlphaTermsKept, PricesKept DEF PoolInv
  <2>6. QED
    BY <1>6, <2>1, <2>2, <2>3, <2>4, <2>5 DEF SubnetStep
<1>7. CASE PricesMove \/ TimePasses
  <2>1. UNCHANGED <<registryVars, collateralVars, alphaTerms>>
    BY <1>7 DEF PricesMove, TimePasses
  <2>2. PricesOK'
    BY <1>2, <1>7 DEF PricesMove, TimePasses, PricesOK
  <2>3. QED
    BY <1>1, <1>2, <2>1, <2>2, RegistryKept, CollateralKept, AlphaTermsKept DEF PoolInv
<1>8. CASE UNCHANGED poolVars
  BY <1>3, <1>8 DEF poolVars
<1>9. QED
  BY <1>3, <1>4, <1>5, <1>6, <1>7, <1>8 DEF PoolNext

LEMMA PoolInvInit == PoolInit => PoolInv
<1> SUFFICES ASSUME PoolInit PROVE PoolInv
  OBVIOUS
<1>1. LendingInv
  BY LendingInvInit
<1>2. PICK scenario \in Scenarios :
        /\ netuid_to_market = [n \in Netuids |-> NoMarket]
        /\ market_to_netuid = [id \in MarketIds |-> NoNetuid]
        /\ next_alpha_market_id = 2
        /\ alpha_principal = [id \in MarketIds |-> [user \in Users |-> 0]]
        /\ netuid_total_collateral = [n \in Netuids |-> 0]
        /\ alpha_params = [n \in Netuids |-> DefaultAlphaParams]
        /\ pending_alpha_params = [n \in Netuids |-> NoPending]
        /\ pool_hotkey = PoolHotkey
        /\ stake = [hn \in PoolHotkeys \X Netuids |-> 0]
        /\ alpha = [account \in Users \cup {Platform} |->
                     [n \in Netuids |-> IF account \in Borrowers THEN scenario.alpha[n] ELSE 0]]
        /\ price = DefaultPrice /\ fresh = TRUE
  BY DEF PoolInit
<1>3. RegistryOK
  <2>1. 2 \in 2 .. MaxMarketId + 1
    BY PoolConstants
  <2>2. QED
    BY <1>2, <2>1 DEF RegistryOK, RegistryInverse, Approved
<1>4. CollateralOK
  <2>1. scenario.alpha \in [Netuids -> Nat]
    BY PoolConstants
  <2>2. QED
    BY <1>2, <2>1 DEF CollateralOK
<1>5. AlphaTermsOK /\ PricesOK
  BY <1>2, PoolConstants DEF AlphaTermsOK, PricesOK, EnforcedAlpha
<1>6. QED
  BY <1>1, <1>3, <1>4, <1>5 DEF PoolInv

LEMMA PoolInvariance == PoolSpec => []PoolInv
  BY PoolNextKeepsInv, PoolInvInit, PTL DEF PoolSpec

\* The types, and with them that no subtraction of the pool goes below zero and
\* that the parameters in force, and those in waiting, are always valid.
THEOREM PoolTypeCorrect == PoolSpec => []TypeOK
<1>1. PoolInv => TypeOK
  BY PoolInvImplies
<1>2. QED
  BY <1>1, PoolInvariance, PTL

\* The two maps of the registry agree after any sequence of approvals and
\* removals, and an id is never used for a second netuid.
THEOREM PoolRegistryInverse == PoolSpec => []RegistryInverse
<1>1. PoolInv => RegistryInverse
  BY PoolInvImplies
<1>2. QED
  BY <1>1, PoolInvariance, PTL

----------------------------------------------------------------------------
(* The totals of the markets. *)

\* The totals of a market are the sums over the positions.
TotalsAre(a, m) ==
    m.total_supplied = SumFunction(LTokens(a)) /\ m.total_scaled_debt = SumFunction(ScaledDebts(a))

BooksAddUp == \A a \in Assets : TotalsAre(a, markets[a])

SameTotals(m, n) ==
    m.total_supplied = n.total_supplied /\ m.total_scaled_debt = n.total_scaled_debt

LEMMA AccruedKeepsTotals ==
    ASSUME NEW m \in MarketState, NEW p, NEW cash, NEW time
    PROVE  SameTotals(Accrued(m, p, cash, time), m)
<1> DEFINE grown == Grown(m, p, cash, time)
           debt == DebtFace(m.total_scaled_debt, grown.borrow_index)
           reserve == m.reserve_accrued
                      + ReserveShare(debt - m.total_debt,
                          MulValue(SaturatingSub(grown.exchange_rate, m.exchange_rate),
                                   m.total_supplied))
           updated == m.last_update + HoursElapsed(m, time) * TicksPerHour
<1>1. Accrued(m, p, cash, time) \in
        {[m EXCEPT !.last_update = time], m,
         [m EXCEPT !.total_debt = debt, !.borrow_index = grown.borrow_index,
                   !.exchange_rate = grown.exchange_rate,
                   !.reserve_accrued = reserve, !.last_update = updated]}
  BY DEF Accrued, MarketState
<1> HIDE DEF grown, debt, reserve, updated
<1>2. QED
  BY <1>1 DEF SameTotals, MarketState

LEMMA CurrentKeepsTotals ==
    ASSUME BooksOK, NEW a \in Assets, NEW value
    PROVE  SameTotals(Current(a, value), markets[a])
  BY AccruedKeepsTotals DEF Current, BooksOK

LEMMA LTokensType ==
    ASSUME BooksOK, NEW a \in Assets
    PROVE  /\ LTokens(a) \in [Users -> Int] /\ ScaledDebts(a) \in [Users -> Int]
           /\ SumFunction(LTokens(a)) \in Int /\ SumFunction(ScaledDebts(a)) \in Int
<1>1. LTokens(a) \in [Users -> Int] /\ ScaledDebts(a) \in [Users -> Int]
  BY DEF BooksOK, Positions, LTokens, ScaledDebts
<1>2. QED
  BY <1>1, LendingConstants, SumType

\* lTokens of one user change: the sum of that market's does.
LEMMA LTokensMove ==
    ASSUME BooksOK, NEW a \in Assets, NEW user \in Users, NEW number \in Nat,
           positions' = [positions EXCEPT ![a][user].ltoken_balance = number]
    PROVE  /\ SumFunction(LTokens(a))' = SumFunction(LTokens(a))
                                         - positions[a][user].ltoken_balance + number
           /\ \A b \in Assets \ {a} : LTokens(b)' = LTokens(b)
           /\ \A b \in Assets : ScaledDebts(b)' = ScaledDebts(b)
<1>1. ASSUME NEW b \in Assets, NEW u \in Users
      PROVE  /\ positions'[b][u].ltoken_balance
                  = IF b = a /\ u = user THEN number ELSE positions[b][u].ltoken_balance
             /\ positions'[b][u].scaled_debt = positions[b][u].scaled_debt
  BY DEF BooksOK, Positions
<1>2. LTokens(a) \in [Users -> Int] /\ LTokens(a)' \in [Users -> Int]
  BY <1>1 DEF BooksOK, Positions, LTokens
<1>3. \A u \in Users \ {user} : LTokens(a)'[u] = LTokens(a)[u]
  BY <1>1 DEF LTokens
<1>4. LTokens(a)'[user] = number /\ LTokens(a)[user] = positions[a][user].ltoken_balance
  BY <1>1 DEF LTokens
<1>5. SumFunction(LTokens(a)') = SumFunction(LTokens(a)) - LTokens(a)[user] + LTokens(a)'[user]
  BY <1>2, <1>3, LendingConstants, SumChanged
<1>6. \A b \in Assets \ {a} : LTokens(b)' = LTokens(b)
  BY <1>1 DEF LTokens
<1>7. \A b \in Assets : ScaledDebts(b)' = ScaledDebts(b)
  BY <1>1 DEF ScaledDebts
<1>8. QED
  BY <1>4, <1>5, <1>6, <1>7

LEMMA DebtMoves ==
    ASSUME BooksOK, NEW a \in Assets, NEW user \in Users, NEW number \in Nat,
           positions' = [positions EXCEPT ![a][user].scaled_debt = number]
    PROVE  /\ SumFunction(ScaledDebts(a))' = SumFunction(ScaledDebts(a))
                                             - positions[a][user].scaled_debt + number
           /\ \A b \in Assets \ {a} : ScaledDebts(b)' = ScaledDebts(b)
           /\ \A b \in Assets : LTokens(b)' = LTokens(b)
<1>1. ASSUME NEW b \in Assets, NEW u \in Users
      PROVE  /\ positions'[b][u].scaled_debt
                  = IF b = a /\ u = user THEN number ELSE positions[b][u].scaled_debt
             /\ positions'[b][u].ltoken_balance = positions[b][u].ltoken_balance
  BY DEF BooksOK, Positions
<1>2. ScaledDebts(a) \in [Users -> Int] /\ ScaledDebts(a)' \in [Users -> Int]
  BY <1>1 DEF BooksOK, Positions, ScaledDebts
<1>3. \A u \in Users \ {user} : ScaledDebts(a)'[u] = ScaledDebts(a)[u]
  BY <1>1 DEF ScaledDebts
<1>4. ScaledDebts(a)'[user] = number /\ ScaledDebts(a)[user] = positions[a][user].scaled_debt
  BY <1>1 DEF ScaledDebts
<1>5. SumFunction(ScaledDebts(a)')
        = SumFunction(ScaledDebts(a)) - ScaledDebts(a)[user] + ScaledDebts(a)'[user]
  BY <1>2, <1>3, LendingConstants, SumChanged
<1>6. \A b \in Assets \ {a} : ScaledDebts(b)' = ScaledDebts(b)
  BY <1>1 DEF ScaledDebts
<1>7. \A b \in Assets : LTokens(b)' = LTokens(b)
  BY <1>1 DEF LTokens
<1>8. QED
  BY <1>4, <1>5, <1>6, <1>7

\* A market that gains and loses lTokens and debt as a position of it does.
LEMMA SupplyAddsUp ==
    ASSUME BooksOK, BooksAddUp, NEW a \in Assets, NEW after, Store(a, after),
           NEW user \in Users, NEW change \in Int, positions[a][user].ltoken_balance + change \in Nat,
           positions' = [positions EXCEPT ![a][user].ltoken_balance
                                            = positions[a][user].ltoken_balance + change],
           after.total_supplied = markets[a].total_supplied + change,
           after.total_scaled_debt = markets[a].total_scaled_debt
    PROVE  BooksAddUp'
<1> DEFINE old == positions[a][user].ltoken_balance
<1>1. old \in Int
  BY DEF BooksOK, Positions
<1>2. /\ SumFunction(LTokens(a))' = SumFunction(LTokens(a)) - old + (old + change)
      /\ \A b \in Assets \ {a} : LTokens(b)' = LTokens(b)
      /\ \A b \in Assets : ScaledDebts(b)' = ScaledDebts(b)
  BY LTokensMove
<1>3. SumFunction(LTokens(a)) \in Int
  BY LTokensType
<1>4. \A b \in Assets : markets'[b] = IF b = a THEN after ELSE markets[b]
  BY DEF BooksOK, Store
<1> HIDE DEF old
<1>5. SumFunction(LTokens(a))' = SumFunction(LTokens(a)) + change
  BY <1>1, <1>2, <1>3
<1>6. QED
  BY <1>2, <1>4, <1>5 DEF BooksAddUp, TotalsAre

LEMMA DebtAddsUp ==
    ASSUME BooksOK, BooksAddUp, NEW a \in Assets, NEW after, Store(a, after),
           NEW user \in Users, NEW change \in Int, positions[a][user].scaled_debt + change \in Nat,
           positions' = [positions EXCEPT ![a][user].scaled_debt
                                            = positions[a][user].scaled_debt + change],
           after.total_scaled_debt = markets[a].total_scaled_debt + change,
           after.total_supplied = markets[a].total_supplied
    PROVE  BooksAddUp'
<1> DEFINE old == positions[a][user].scaled_debt
<1>1. old \in Int
  BY DEF BooksOK, Positions
<1>2. /\ SumFunction(ScaledDebts(a))' = SumFunction(ScaledDebts(a)) - old + (old + change)
      /\ \A b \in Assets \ {a} : ScaledDebts(b)' = ScaledDebts(b)
      /\ \A b \in Assets : LTokens(b)' = LTokens(b)
  BY DebtMoves
<1>3. SumFunction(ScaledDebts(a)) \in Int
  BY LTokensType
<1>4. \A b \in Assets : markets'[b] = IF b = a THEN after ELSE markets[b]
  BY DEF BooksOK, Store
<1> HIDE DEF old
<1>5. SumFunction(ScaledDebts(a))' = SumFunction(ScaledDebts(a)) + change
  BY <1>1, <1>2, <1>3
<1>6. QED
  BY <1>2, <1>4, <1>5 DEF BooksAddUp, TotalsAre

\* Messages that leave the positions alone, and the totals of the markets.
LEMMA AccrualAddsUp ==
    ASSUME BooksAddUp, UNCHANGED positions,
           \A a \in Assets : SameTotals(markets'[a], markets[a])
    PROVE  BooksAddUp'
<1>1. \A a \in Assets : LTokens(a)' = LTokens(a) /\ ScaledDebts(a)' = ScaledDebts(a)
  BY DEF LTokens, ScaledDebts
<1>2. QED
  BY <1>1 DEF BooksAddUp, TotalsAre, SameTotals

LEMMA StoreAddsUp ==
    ASSUME BooksOK, BooksAddUp, UNCHANGED positions, NEW a \in Assets, NEW value,
           NEW after, SameTotals(after, Current(a, value)), Store(a, after)
    PROVE  BooksAddUp'
<1>1. SameTotals(after, markets[a])
  BY CurrentKeepsTotals DEF SameTotals
<1>2. \A b \in Assets : SameTotals(markets'[b], markets[b])
  BY <1>1 DEF SameTotals, BooksOK, Store
<1>3. QED
  BY <1>2, AccrualAddsUp

LEMMA BookSupplyAddsUp ==
    ASSUME LendingInv, BooksAddUp, NEW a \in Assets, NEW value, CanAccrue(a, value),
           NEW caller \in Users, NEW amount \in Nat,
           BookSupply(a, Current(a, value), caller, amount)
    PROVE  BooksAddUp'
<1> DEFINE m == Current(a, value)
           minted == LTokensFor(m, amount)
           after == [GenesisRate(m) EXCEPT !.total_supplied = @ + minted]
           held == positions[a][caller].ltoken_balance
<1>1. Store(a, after) /\ positions' = [positions EXCEPT ![a][caller].ltoken_balance = @ + minted]
  BY DEF BookSupply
<1>2. /\ BooksOK /\ held \in Nat /\ m \in MarketState /\ Sound(m, now)
      /\ SameTotals(m, markets[a])
  BY CurrentKeepsTotals, CurrentIsSound DEF LendingInv, BooksOK, Positions
<1>3. minted \in Nat
  <2>1. LTokensFor(m, amount) = IF m.total_supplied = 0 THEN amount ELSE DivValue(m.exchange_rate, amount)
    BY DEF LTokensFor
  <2>2. m.exchange_rate \in Nat \ {0}
    BY <1>2 DEF MarketState
  <2> HIDE DEF m
  <2>3. QED
    BY <2>1, <2>2, DivValueIsBelow
<1>4. positions' = [positions EXCEPT ![a][caller].ltoken_balance = held + minted]
  BY <1>1 DEF LendingInv, BooksOK, Positions
<1>5. after.total_supplied = m.total_supplied + minted /\ after.total_scaled_debt = m.total_scaled_debt
  BY <1>2 DEF GenesisRate, MarketState
<1> HIDE DEF m, minted, after
<1>6. /\ after.total_supplied = markets[a].total_supplied + minted
      /\ after.total_scaled_debt = markets[a].total_scaled_debt
  BY <1>2, <1>5 DEF SameTotals
<1>7. held + minted \in Nat /\ minted \in Int
  BY <1>2, <1>3
<1>8. QED
  BY <1>1, <1>2, <1>4, <1>6, <1>7, SupplyAddsUp

LEMMA BookWithdrawalAddsUp ==
    ASSUME LendingInv, BooksAddUp, NEW a \in Assets, NEW caller \in Users,
           NEW ltoken_amount \in Nat, BookWithdrawal(a, Current(a, 0), caller, ltoken_amount)
    PROVE  BooksAddUp'
<1> DEFINE m == Current(a, 0)
           less == [m EXCEPT !.total_supplied = @ - ltoken_amount]
           after == GenesisRate(less)
           held == positions[a][caller].ltoken_balance
           change == 0 - ltoken_amount
<1>1. /\ Store(a, after) /\ held >= ltoken_amount /\ CanAccrue(a, 0)
      /\ positions' = [positions EXCEPT ![a][caller].ltoken_balance = @ - ltoken_amount]
  BY DEF BookWithdrawal
<1>2. /\ BooksOK /\ held \in Nat /\ m \in MarketState
      /\ SameTotals(m, markets[a])
  BY <1>1, CurrentKeepsTotals, CurrentIsSound DEF LendingInv, BooksOK, Positions
<1>3. held - ltoken_amount = held + change /\ held + change \in Nat /\ change \in Int
  BY <1>1, <1>2
<1>4. positions' = [positions EXCEPT ![a][caller].ltoken_balance = held - ltoken_amount]
  BY <1>1 DEF LendingInv, BooksOK, Positions
<1>5. /\ less.total_supplied = m.total_supplied - ltoken_amount
      /\ less.total_scaled_debt = m.total_scaled_debt
      /\ after \in {less, [less EXCEPT !.exchange_rate = RatioOne]}
  BY <1>2 DEF GenesisRate, MarketState
<1>6. /\ after.total_supplied = m.total_supplied - ltoken_amount
      /\ after.total_scaled_debt = m.total_scaled_debt
  BY <1>2, <1>5 DEF MarketState
<1> HIDE DEF m, after, held
<1>7. /\ after.total_supplied = markets[a].total_supplied + change
      /\ after.total_scaled_debt = markets[a].total_scaled_debt
  BY <1>2, <1>6 DEF SameTotals, MarketState
<1> HIDE DEF change
<1>8. QED
  BY <1>1, <1>2, <1>3, <1>4, <1>7, SupplyAddsUp DEF held

LEMMA ScaledBorrowedType ==
    ASSUME NEW m \in MarketState, NEW booked \in Nat
    PROVE  ScaledBorrowed(m, booked) \in Nat
<1>1. m.borrow_index \in Nat \ {0}
  BY DEF MarketState
<1>2. QED
  BY <1>1, DivValueCeilIsAbove DEF ScaledBorrowed

LEMMA BookBorrowAddsUp ==
    ASSUME LendingInv, BooksAddUp, NEW a \in Assets, NEW caller \in Users,
           NEW amount \in Nat, BookBorrow(a, Current(a, 0), caller, amount)
    PROVE  BooksAddUp'
<1> DEFINE m == Current(a, 0)
           p == params[a]
           premium == Premium(m, p, MarketCash(a), amount)
           scaled == ScaledBorrowed(m, amount + premium)
           charged == PremiumCharged(m, p, premium)
           after == WithScaledDebt(charged, m.total_scaled_debt + scaled)
           debt == positions[a][caller].scaled_debt
<1>1. /\ CanAccrue(a, 0) /\ amount \in 1 .. MarketCash(a) /\ Store(a, after)
      /\ positions' = [positions EXCEPT ![a][caller].scaled_debt = @ + scaled]
  BY DEF BookBorrow
<1>2. /\ BooksOK /\ debt \in Nat /\ m \in MarketState /\ SameTotals(m, markets[a])
      /\ p \in Enforced /\ MarketCash(a) \in Nat
  BY <1>1, CurrentKeepsTotals, CurrentIsSound, CashType
     DEF LendingInv, BooksOK, Positions, TermsOK
<1> HIDE DEF m, p
<1>3. premium \in Nat
  <2>1. amount \in 0 .. MarketCash(a)
    BY <1>1
  <2>2. QED
    BY <1>2, <2>1, PremiumType
<1> HIDE DEF premium
<1>4. scaled \in Nat
  <2>1. amount + premium \in Nat
    BY <1>3
  <2>2. QED
    BY <1>2, <2>1, ScaledBorrowedType
<1>5. positions' = [positions EXCEPT ![a][caller].scaled_debt = debt + scaled]
  BY <1>1 DEF LendingInv, BooksOK, Positions
<1> HIDE DEF scaled
<1>6. after.total_supplied = m.total_supplied /\ after.total_scaled_debt = m.total_scaled_debt + scaled
  <2>1. PICK share \in 0 .. premium, rate \in Nat \ {0} :
          /\ charged = [m EXCEPT !.exchange_rate = rate,
                                 !.reserve_accrued = m.reserve_accrued + (premium - share)]
          /\ rate * m.total_supplied <= m.exchange_rate * m.total_supplied + share * RatioOne
    BY <1>2, <1>3, PremiumIsShared
  <2> DEFINE reserve == m.reserve_accrued + (premium - share)
  <2>2. charged = [total_supplied |-> m.total_supplied, total_debt |-> m.total_debt,
                   total_scaled_debt |-> m.total_scaled_debt, borrow_index |-> m.borrow_index,
                   exchange_rate |-> rate, reserve_accrued |-> reserve,
                   last_update |-> m.last_update]
    BY <1>2, <2>1 DEF MarketState
  <2> HIDE DEF charged, reserve
  <2>3. QED
    BY <2>2 DEF WithScaledDebt, after
<1> HIDE DEF after, charged
<1>8. /\ after.total_scaled_debt = markets[a].total_scaled_debt + scaled
      /\ after.total_supplied = markets[a].total_supplied
  BY <1>2, <1>6 DEF SameTotals
<1>9. debt + scaled \in Nat /\ scaled \in Int
  BY <1>2, <1>4
<1>10. QED
  BY <1>1, <1>2, <1>5, <1>8, <1>9, DebtAddsUp

LEMMA BookRepaymentAddsUp ==
    ASSUME LendingInv, BooksAddUp, NEW a \in Assets, NEW value, CanAccrue(a, value),
           NEW caller \in Users, NEW paid \in Nat,
           BookRepayment(a, Current(a, value), caller, paid)
    PROVE  BooksAddUp'
<1> DEFINE m == Current(a, value)
           debt == positions[a][caller].scaled_debt
           scaled == ScaledRepaid(m, debt, paid)
           after == Retired(m, scaled)
           change == 0 - scaled
<1>1. Store(a, after) /\ positions' = [positions EXCEPT ![a][caller].scaled_debt = @ - scaled]
  BY DEF BookRepayment
<1>2. /\ BooksOK /\ debt \in Nat /\ m \in MarketState /\ SameTotals(m, markets[a])
  BY CurrentKeepsTotals, CurrentIsSound DEF LendingInv, BooksOK, Positions
<1>3. positions' = [positions EXCEPT ![a][caller].scaled_debt = debt - scaled]
  BY <1>1 DEF LendingInv, BooksOK, Positions
<1> HIDE DEF m, debt
<1>4. scaled \in Int /\ scaled <= debt
  <2>1. m.borrow_index \in Nat \ {0}
    BY <1>2 DEF MarketState
  <2>2. DivValueCeil(m.borrow_index, paid) \in Nat
    BY <2>1, DivValueCeilIsAbove
  <2>3. Min({DivValueCeil(m.borrow_index, paid), debt}) \in Int
        /\ Min({DivValueCeil(m.borrow_index, paid), debt}) <= debt
    BY <1>2, <2>2, MinOfTwo
  <2>4. QED
    BY <1>2, <2>3 DEF ScaledRepaid
<1> HIDE DEF scaled
<1>5. after.total_supplied = m.total_supplied /\ after.total_scaled_debt = m.total_scaled_debt - scaled
  BY <1>2 DEF Retired, WithScaledDebt, MarketState
<1> HIDE DEF after
<1>6. /\ after.total_scaled_debt = markets[a].total_scaled_debt + change
      /\ after.total_supplied = markets[a].total_supplied
  BY <1>2, <1>4, <1>5 DEF SameTotals, MarketState
<1>7. debt - scaled = debt + change /\ debt + change \in Nat /\ change \in Int
  BY <1>2, <1>4
<1> HIDE DEF change
<1>8. QED
  BY <1>1, <1>2, <1>3, <1>6, <1>7, DebtAddsUp DEF debt

LEMMA PaidType ==
    ASSUME LendingInv, NEW a \in Assets, NEW value, CanAccrue(a, value), NEW caller \in Users,
           NEW amount \in Nat
    PROVE  Min({amount, Owed(a, Current(a, value), caller)}) \in Nat
<1> DEFINE m == Current(a, value)
           owed == Owed(a, m, caller)
<1>1. m \in MarketState
  BY CurrentIsSound DEF LendingInv
<1>2. owed \in Nat
  <2>1. positions[a][caller].scaled_debt \in Nat
    BY DEF LendingInv, BooksOK, Positions
  <2>2. m.borrow_index \in Nat
    BY <1>1 DEF MarketState
  <2>3. QED
    BY <2>1, <2>2, MulValueIsFloor DEF Owed, DebtFace
<1> HIDE DEF owed
<1>3. QED
  BY <1>2, MinOfTwo DEF owed

\* A liquidation takes all debt of its borrower off the positions and the totals.
LEMMA LiquidateAddsUp ==
    ASSUME LendingInv, BooksAddUp, NEW liquidator \in Users, NEW borrower \in Users,
           NEW received, Liquidate(liquidator, borrower, received)
    PROVE  BooksAddUp'
<1> SUFFICES ASSUME NEW a \in Assets PROVE TotalsAre(a, markets[a])'
  BY DEF BooksAddUp
<1> DEFINE value == IF a = "TAO" THEN received ELSE 0
           m == Current(a, value)
           debt == positions[a][borrower].scaled_debt
<1>1. /\ markets'[a] = Retired(m, debt)
      /\ positions'[a] = [positions[a] EXCEPT ![borrower].scaled_debt = 0]
      /\ CanAccrue(a, value)
  BY DEF Liquidate, Assets
<1>2. /\ m \in MarketState /\ SameTotals(m, markets[a]) /\ debt \in Nat /\ BooksOK
  BY <1>1, CurrentKeepsTotals, CurrentIsSound DEF LendingInv, BooksOK, Positions
<1> HIDE DEF m
<1>3. /\ markets'[a].total_supplied = markets[a].total_supplied
      /\ markets'[a].total_scaled_debt = markets[a].total_scaled_debt - debt
  BY <1>1, <1>2 DEF Retired, WithScaledDebt, MarketState, SameTotals
<1>4. ASSUME NEW user \in Users
      PROVE  /\ positions'[a][user].ltoken_balance = positions[a][user].ltoken_balance
             /\ positions'[a][user].scaled_debt
                  = IF user = borrower THEN 0 ELSE positions[a][user].scaled_debt
  BY <1>1, <1>2 DEF BooksOK, Positions
<1>5. LTokens(a)' = LTokens(a)
  BY <1>4 DEF LTokens
<1>6. /\ ScaledDebts(a) \in [Users -> Int] /\ ScaledDebts(a)' \in [Users -> Int]
      /\ \A user \in Users \ {borrower} : ScaledDebts(a)'[user] = ScaledDebts(a)[user]
      /\ ScaledDebts(a)[borrower] = debt /\ ScaledDebts(a)'[borrower] = 0
  BY <1>2, <1>4 DEF ScaledDebts, BooksOK, Positions
<1>7. SumFunction(ScaledDebts(a)')
        = SumFunction(ScaledDebts(a)) - ScaledDebts(a)[borrower] + ScaledDebts(a)'[borrower]
  BY <1>6, LendingConstants, SumChanged
<1>8. SumFunction(ScaledDebts(a)) \in Int
  BY <1>2, LTokensType
<1> HIDE DEF debt
<1>9. SumFunction(ScaledDebts(a)') = SumFunction(ScaledDebts(a)) - debt
  BY <1>2, <1>6, <1>7, <1>8
<1>10. QED
  BY <1>3, <1>5, <1>9 DEF BooksAddUp, TotalsAre

LEMMA LendingStepAddsUp ==
    ASSUME LendingInv, BooksAddUp, LendingStep
    PROVE  BooksAddUp'
<1>1. (Amounts \cup Excesses) \subseteq Nat /\ "TAO" \in Assets /\ "TUSDT" \in Assets /\ BooksOK
  BY LendingConstants DEF Assets, LendingInv
<1>2. ASSUME NEW user \in Users, NEW amount \in Amounts, SupplyTusdt(user, amount)
      PROVE  BooksAddUp'
  BY <1>1, <1>2, BookSupplyAddsUp DEF SupplyTusdt
<1>3. ASSUME NEW user \in Users, NEW amount \in Amounts,
             WithdrawTao(user, amount) \/ WithdrawTusdt(user, amount)
      PROVE  BooksAddUp'
  BY <1>1, <1>3, BookWithdrawalAddsUp DEF WithdrawTao, WithdrawTusdt
<1>4. ASSUME NEW user \in Users, NEW amount \in Amounts, RepayTusdt(user, amount)
      PROVE  BooksAddUp'
  <2> DEFINE paid == Min({amount, Owed("TUSDT", Current("TUSDT", 0), user)})
  <2>1. CanAccrue("TUSDT", 0) /\ BookRepayment("TUSDT", Current("TUSDT", 0), user, paid)
    BY <1>4 DEF RepayTusdt
  <2>2. paid \in Nat
    BY <1>1, <2>1, PaidType
  <2> HIDE DEF paid
  <2>3. QED
    BY <1>1, <2>1, <2>2, BookRepaymentAddsUp
<1>5. ASSUME NEW user \in Users, NEW amount \in Amounts, NEW received,
             SupplyTao(user, amount, received)
      PROVE  BooksAddUp'
  BY <1>1, <1>5, BookSupplyAddsUp DEF SupplyTao
<1>6. ASSUME NEW user \in Users, NEW amount \in Amounts, NEW received,
             RepayTao(user, amount, received)
      PROVE  BooksAddUp'
  <2> DEFINE paid == Min({amount, Owed("TAO", Current("TAO", received), user)})
  <2>1. CanAccrue("TAO", received) /\ BookRepayment("TAO", Current("TAO", received), user, paid)
    BY <1>6 DEF RepayTao
  <2>2. paid \in Nat
    BY <1>1, <2>1, PaidType
  <2> HIDE DEF paid
  <2>3. QED
    BY <1>1, <2>1, <2>2, BookRepaymentAddsUp
<1>7. ASSUME NEW a \in Assets, NEW user \in Users, NEW received, RepayNothing(a, user, received)
      PROVE  BooksAddUp'
  BY <1>1, <1>7, StoreAddsUp DEF RepayNothing, SameTotals
<1>8. CASE AccrueMarketInterest
  <2>1. UNCHANGED positions /\ \A a \in Assets : markets'[a] = Current(a, 0)
    BY <1>8 DEF AccrueMarketInterest
  <2>2. QED
    BY <1>1, <2>1, CurrentKeepsTotals, AccrualAddsUp
<1>9. ASSUME NEW a \in Assets, ClaimReserve(a)
      PROVE  BooksAddUp'
  <2> DEFINE m == Current(a, 0)
             after == [m EXCEPT !.reserve_accrued = @ - Min({m.reserve_accrued, ReserveCash(a)})]
  <2>1. CanAccrue(a, 0) /\ Store(a, after) /\ UNCHANGED positions
    BY <1>9 DEF ClaimReserve
  <2>2. m \in MarketState
    BY <2>1, CurrentIsSound DEF LendingInv
  <2>3. SameTotals(after, m)
    BY <2>2 DEF SameTotals, MarketState
  <2>4. QED
    BY <1>1, <2>1, <2>3, StoreAddsUp
<1>10. CASE Sweep \/ NextBlock
  <2>1. UNCHANGED <<markets, positions>>
    BY <1>10 DEF Sweep, NextBlock, bookVars
  <2>2. QED
    BY <2>1, AccrualAddsUp DEF SameTotals
<1>11. QED
  BY <1>2, <1>3, <1>4, <1>5, <1>6, <1>7, <1>8, <1>9, <1>10, <1>1 DEF LendingStep

LEMMA PoolNextAddsUp ==
    ASSUME LendingInv, BooksAddUp, [PoolNext]_poolVars
    PROVE  BooksAddUp'
<1>1. /\ BooksOK /\ Amounts \subseteq Nat /\ Borrowers \subseteq Users
      /\ "TAO" \in Assets /\ "TUSDT" \in Assets
  BY LendingConstants, PoolConstants DEF Assets, LendingInv
<1>2. CASE UNCHANGED bookVars
  BY <1>2, AccrualAddsUp DEF bookVars, SameTotals
<1>3. CASE AdminStep
  <2>1. ASSUME NEW caller, NEW amount,
               ClaimSurplusTusdt(caller, amount) \/ TransferNativeToTreasury(caller)
        PROVE  BooksAddUp'
    BY <1>1, <2>1, StoreAddsUp DEF ClaimSurplusTusdt, TransferNativeToTreasury, SameTotals
  <2>2. ASSUME NEW caller, NEW a, NEW new_params, NEW hotkey, NEW config,
               \/ SetMarketParams(caller, a, new_params) \/ CancelMarketParamsUpdate(caller, a)
               \/ ExecuteMarketParamsUpdate(a) \/ SetRootStakeConfig(caller, hotkey, config)
               \/ Pause(caller) \/ Unpause(caller)
        PROVE  BooksAddUp'
    BY <1>2, <2>2 DEF SetMarketParams, CancelMarketParamsUpdate, ExecuteMarketParamsUpdate,
                      SetRootStakeConfig, Pause, Unpause
  <2>3. QED
    BY <1>3, <2>1, <2>2 DEF AdminStep
<1>4. CASE BorrowerStep
  <2>1. ASSUME NEW user \in Borrowers, NEW netuid \in Netuids, NEW amount \in AlphaAmounts,
               DepositAlpha(user, netuid, amount) \/ WithdrawAlpha(user, netuid, amount)
        PROVE  BooksAddUp'
    BY <1>2, <2>1 DEF DepositAlpha, WithdrawAlpha, lendingVars
  <2>2. ASSUME NEW user \in Borrowers, NEW amount \in Amounts,
               BorrowTao(user, amount) \/ BorrowTusdt(user, amount)
        PROVE  BooksAddUp'
    BY <1>1, <2>2, BookBorrowAddsUp DEF BorrowTao, BorrowTusdt
  <2>3. QED
    BY <1>4, <2>1, <2>2 DEF BorrowerStep
<1>5. CASE LiquidatorStep
  BY <1>1, <1>5, LiquidateAddsUp DEF LiquidatorStep
<1>6. CASE SubnetStep \/ PricesMove \/ TimePasses
  BY <1>2, <1>6, SubnetStepKeepsBooks DEF PricesMove, TimePasses, Tick, lendingVars
<1>7. CASE UNCHANGED poolVars
  BY <1>2, <1>7 DEF poolVars, lendingVars
<1>8. QED
  BY <1>3, <1>4, <1>5, <1>6, <1>7, LendingStepAddsUp DEF PoolNext

LEMMA BooksAddUpInit == PoolInit => BooksAddUp
<1> SUFFICES ASSUME NEW scenario \in Scenarios, LendingInit(scenario)
             PROVE  BooksAddUp
  BY DEF PoolInit
<1>1. ASSUME NEW a \in Assets
      PROVE  SumFunction(LTokens(a)) = 0 /\ SumFunction(ScaledDebts(a)) = 0
  <2>1. /\ LTokens(a) \in [Users -> Int] /\ \A user \in Users : LTokens(a)[user] = 0
        /\ ScaledDebts(a) \in [Users -> Int] /\ \A user \in Users : ScaledDebts(a)[user] = 0
    BY DEF LendingInit, LTokens, ScaledDebts
  <2>2. QED
    BY <2>1, LendingConstants, SumOfZeros
<1>2. \A a \in Assets : markets[a] = EmptyMarket
  BY DEF LendingInit
<1>3. QED
  BY <1>1, <1>2 DEF BooksAddUp, TotalsAre, EmptyMarket

\* What the markets count as supplied and as scaled debt is what the positions
\* hold, through every supply, withdrawal, loan, repayment and liquidation,
\* and the debt the utilization is computed from is the face of the debts.
THEOREM PoolTotalsInLockstep == PoolSpec => []TotalsInLockstep
<1>1. LendingInv /\ BooksAddUp /\ [PoolNext]_poolVars => BooksAddUp'
  BY PoolNextAddsUp
<1>2. LendingInv /\ BooksAddUp => TotalsInLockstep
  BY LendingInvImplies DEF BooksAddUp, TotalsAre, TotalsInLockstep
<1>3. QED
  BY <1>1, <1>2, BooksAddUpInit, LendingInvariance, PTL DEF PoolSpec

----------------------------------------------------------------------------
(* The collateral and the stake behind it. *)

Booked(netuid) ==
    /\ netuid_total_collateral[netuid] = SumFunction(Principals(netuid))
    /\ netuid_total_collateral[netuid] <= AvailableStake(netuid)

\* Nothing is deposited in a market whose id was never given.
NewIdsAreEmpty ==
    \A id \in MarketIds \ market_keys, user \in Users : alpha_principal[id][user] = 0

CollateralInv == (\A netuid \in Netuids : Booked(netuid)) /\ NewIdsAreEmpty

Stakes(netuid) == [hotkey \in PoolHotkeys |-> stake[<<hotkey, netuid>>]]

LEMMA PrincipalsType ==
    ASSUME PoolInv, NEW netuid \in Netuids
    PROVE  /\ Principals(netuid) \in [Users -> Int] /\ Principals(netuid) \in [Users -> Nat]
           /\ Stakes(netuid) \in [PoolHotkeys -> Int]
           /\ SumFunction(Principals(netuid)) \in Int
           /\ AvailableStake(netuid) \in Int
           /\ AvailableStake(netuid) = SumFunction(Stakes(netuid))
<1>1. RegistryOK /\ CollateralOK
  BY DEF PoolInv
<1>2. \A user \in Users : Principal(user, netuid) \in Nat
  BY <1>1, PrincipalType
<1>3. Principals(netuid) \in [Users -> Int] /\ Principals(netuid) \in [Users -> Nat]
  BY <1>2 DEF Principals
<1>4. Stakes(netuid) \in [PoolHotkeys -> Int]
  BY <1>1 DEF CollateralOK, Stakes
<1>5. AvailableStake(netuid) = SumFunction(Stakes(netuid))
  BY DEF AvailableStake, Stakes
<1>6. QED
  BY <1>3, <1>4, <1>5, LendingConstants, PoolConstants, SumType

\* The same after a step.
LEMMA PrincipalsTypeAfter ==
    ASSUME PoolInv', NEW netuid \in Netuids
    PROVE  /\ Principals(netuid)' \in [Users -> Int]
           /\ Stakes(netuid)' \in [PoolHotkeys -> Int]
           /\ AvailableStake(netuid)' = SumFunction(Stakes(netuid)')
<1>1. RegistryOK' /\ CollateralOK'
  BY DEF PoolInv
<1>2. \A user \in Users : Principal(user, netuid)' \in Nat
  BY <1>1, NoMarketIsNoId DEF RegistryOK, CollateralOK, Principal, Approved
<1>3. Principals(netuid)' \in [Users -> Int]
  BY <1>2 DEF Principals
<1>4. Stakes(netuid)' \in [PoolHotkeys -> Int]
  BY <1>1 DEF CollateralOK, Stakes
<1>5. QED
  BY <1>3, <1>4 DEF AvailableStake, Stakes

\* The principal of one user changes.
LEMMA PrincipalMoves ==
    ASSUME PoolInv, PoolInv', NEW netuid \in Netuids, NEW user \in Users,
           \A u \in Users \ {user} : Principal(u, netuid)' = Principal(u, netuid)
    PROVE  SumFunction(Principals(netuid))'
             = SumFunction(Principals(netuid)) - Principal(user, netuid) + Principal(user, netuid)'
<1>1. Principals(netuid) \in [Users -> Int] /\ Principals(netuid)' \in [Users -> Int]
  BY PrincipalsType, PrincipalsTypeAfter
<1>2. \A u \in Users \ {user} : Principals(netuid)'[u] = Principals(netuid)[u]
  BY DEF Principals
<1>3. Principals(netuid)[user] = Principal(user, netuid)
      /\ Principals(netuid)'[user] = Principal(user, netuid)'
  BY DEF Principals
<1>4. SumFunction(Principals(netuid)')
        = SumFunction(Principals(netuid)) - Principals(netuid)[user] + Principals(netuid)'[user]
  BY <1>1, <1>2, LendingConstants, SumChanged
<1>5. QED
  BY <1>3, <1>4

LEMMA PrincipalsStay ==
    ASSUME NEW netuid, \A user \in Users : Principal(user, netuid)' = Principal(user, netuid)
    PROVE  SumFunction(Principals(netuid))' = SumFunction(Principals(netuid))
<1>1. Principals(netuid)' = Principals(netuid)
  BY DEF Principals
<1>2. QED
  BY <1>1

\* The stake under one hotkey changes.
LEMMA StakeMoves ==
    ASSUME PoolInv, PoolInv', NEW netuid \in Netuids, NEW hotkey \in PoolHotkeys,
           \A h \in PoolHotkeys \ {hotkey} : stake'[<<h, netuid>>] = stake[<<h, netuid>>]
    PROVE  AvailableStake(netuid)'
             = AvailableStake(netuid) - stake[<<hotkey, netuid>>] + stake'[<<hotkey, netuid>>]
<1>1. /\ Stakes(netuid) \in [PoolHotkeys -> Int] /\ Stakes(netuid)' \in [PoolHotkeys -> Int]
      /\ AvailableStake(netuid) = SumFunction(Stakes(netuid))
      /\ AvailableStake(netuid)' = SumFunction(Stakes(netuid)')
  BY PrincipalsType, PrincipalsTypeAfter
<1>2. \A h \in PoolHotkeys \ {hotkey} : Stakes(netuid)'[h] = Stakes(netuid)[h]
  BY DEF Stakes
<1>3. Stakes(netuid)[hotkey] = stake[<<hotkey, netuid>>]
      /\ Stakes(netuid)'[hotkey] = stake'[<<hotkey, netuid>>]
  BY DEF Stakes
<1>4. SumFunction(Stakes(netuid)')
        = SumFunction(Stakes(netuid)) - Stakes(netuid)[hotkey] + Stakes(netuid)'[hotkey]
  BY <1>1, <1>2, PoolConstants, SumChanged
<1>5. QED
  BY <1>1, <1>3, <1>4

LEMMA StakeStays ==
    ASSUME NEW netuid,
           \A hotkey \in PoolHotkeys : stake'[<<hotkey, netuid>>] = stake[<<hotkey, netuid>>]
    PROVE  AvailableStake(netuid)' = AvailableStake(netuid)
<1>1. Stakes(netuid)' = Stakes(netuid)
  BY DEF Stakes
<1>2. QED
  BY <1>1 DEF AvailableStake, Stakes

\* A user's principal, the total and the stake change by the same.
LEMMA MoveIsBooked ==
    ASSUME PoolInv, PoolInv', NEW netuid \in Netuids, Booked(netuid), NEW user \in Users,
           NEW change \in Int,
           \A u \in Users \ {user} : Principal(u, netuid)' = Principal(u, netuid),
           Principal(user, netuid)' = Principal(user, netuid) + change,
           \A h \in PoolHotkeys \ {pool_hotkey} : stake'[<<h, netuid>>] = stake[<<h, netuid>>],
           stake'[<<pool_hotkey, netuid>>] = stake[<<pool_hotkey, netuid>>] + change,
           netuid_total_collateral'[netuid] = netuid_total_collateral[netuid] + change
    PROVE  Booked(netuid)'
<1>1. pool_hotkey \in PoolHotkeys /\ CollateralOK /\ RegistryOK
  BY DEF PoolInv, AlphaTermsOK
<1>2. stake[<<pool_hotkey, netuid>>] \in Nat /\ netuid_total_collateral[netuid] \in Nat
  BY <1>1 DEF CollateralOK
<1>3. Principal(user, netuid) \in Nat
  BY <1>1, PrincipalType
<1>4. SumFunction(Principals(netuid)) \in Int /\ AvailableStake(netuid) \in Int
  BY PrincipalsType
<1>5. SumFunction(Principals(netuid))' = SumFunction(Principals(netuid)) + change
  <2>1. SumFunction(Principals(netuid))'
          = SumFunction(Principals(netuid)) - Principal(user, netuid) + Principal(user, netuid)'
    BY PrincipalMoves
  <2>2. QED
    BY <1>3, <1>4, <2>1
<1>6. AvailableStake(netuid)' = AvailableStake(netuid) + change
  <2>1. AvailableStake(netuid)' = AvailableStake(netuid)
          - stake[<<pool_hotkey, netuid>>] + stake'[<<pool_hotkey, netuid>>]
    BY <1>1, StakeMoves
  <2>2. QED
    BY <1>2, <1>4, <2>1
<1>7. QED
  BY <1>2, <1>4, <1>5, <1>6 DEF Booked

\* The ids of approved netuids have been given, each to one netuid.
LEMMA ApprovedIds ==
    ASSUME RegistryOK, NEW netuid \in Netuids, Approved(netuid)
    PROVE  /\ netuid_to_market[netuid] \in MarketIds
           /\ netuid_to_market[netuid] \in market_keys
           /\ \A n \in Netuids \ {netuid} :
                Approved(n) => netuid_to_market[n] # netuid_to_market[netuid]
<1>1. netuid_to_market[netuid] \in MarketIds
  BY DEF RegistryOK, Approved
<1>2. market_to_netuid[netuid_to_market[netuid]] = netuid /\ netuid # NoNetuid
  BY PoolConstants DEF RegistryOK, RegistryInverse
<1>3. \A n \in Netuids : Approved(n) => market_to_netuid[netuid_to_market[n]] = n
  BY DEF RegistryOK, RegistryInverse
<1>4. QED
  BY <1>1, <1>2, <1>3 DEF RegistryOK, RegistryInverse

\* A deposit adds to the principal of its caller on its netuid alone.
LEMMA DepositMovesPrincipal ==
    ASSUME PoolInv, NEW caller \in Users, NEW netuid \in Netuids, NEW amount \in Nat,
           DepositAlpha(caller, netuid, amount), NEW n \in Netuids, NEW u \in Users
    PROVE  Principal(u, n)' = IF n = netuid /\ u = caller THEN Principal(u, n) + amount
                              ELSE Principal(u, n)
<1> DEFINE id == netuid_to_market[netuid]
<1>1. /\ Approved(netuid) /\ UNCHANGED registryVars
      /\ alpha_principal' = [alpha_principal EXCEPT ![id][caller] = @ + amount]
  BY DEF DepositAlpha
<1>2. RegistryOK /\ CollateralOK
  BY DEF PoolInv
<1>3. id \in MarketIds /\ \A k \in Netuids \ {netuid} : Approved(k) => netuid_to_market[k] # id
  BY <1>1, <1>2, ApprovedIds
<1>4. netuid_to_market' = netuid_to_market /\ (Approved(n)' <=> Approved(n))
  BY <1>1 DEF registryVars, Approved
<1>5. CASE n = netuid
  BY <1>1, <1>2, <1>3, <1>4, <1>5 DEF Principal, CollateralOK
<1>6. CASE n # netuid
  <2>1. Approved(n) => netuid_to_market[n] \in MarketIds /\ netuid_to_market[n] # id
    BY <1>2, <1>3, <1>6 DEF RegistryOK, Approved
  <2>2. QED
    BY <1>1, <1>2, <1>3, <1>4, <1>6, <2>1 DEF Principal, CollateralOK
<1>7. QED
  BY <1>5, <1>6

LEMMA DepositIsBooked ==
    ASSUME PoolInv, PoolInv', CollateralInv, NEW caller \in Users, NEW netuid \in Netuids,
           NEW amount \in Nat, DepositAlpha(caller, netuid, amount)
    PROVE  CollateralInv'
<1> DEFINE id == netuid_to_market[netuid]
<1>1. /\ Approved(netuid) /\ UNCHANGED registryVars
      /\ stake' = [stake EXCEPT ![<<pool_hotkey, netuid>>] = @ + amount]
      /\ alpha_principal' = [alpha_principal EXCEPT ![id][caller] = @ + amount]
      /\ netuid_total_collateral' = [netuid_total_collateral EXCEPT ![netuid] = @ + amount]
  BY DEF DepositAlpha, StakeIn
<1>2. RegistryOK /\ CollateralOK /\ pool_hotkey \in PoolHotkeys
  BY DEF PoolInv, AlphaTermsOK
<1>3. id \in MarketIds /\ id \in market_keys
      /\ \A n \in Netuids \ {netuid} : Approved(n) => netuid_to_market[n] # id
  BY <1>1, <1>2, ApprovedIds
<1>4. ASSUME NEW n \in Netuids, NEW u \in Users
      PROVE  Principal(u, n)' = IF n = netuid /\ u = caller THEN Principal(u, n) + amount
                                ELSE Principal(u, n)
  BY DepositMovesPrincipal
<1>5. ASSUME NEW n \in Netuids PROVE Booked(n)'
  <2> DEFINE change == IF n = netuid THEN amount ELSE 0
  <2>1. Booked(n) /\ change \in Int
    BY DEF CollateralInv
  <2>2. /\ \A h \in PoolHotkeys \ {pool_hotkey} : stake'[<<h, n>>] = stake[<<h, n>>]
        /\ stake'[<<pool_hotkey, n>>] = stake[<<pool_hotkey, n>>] + change
        /\ netuid_total_collateral'[n] = netuid_total_collateral[n] + change
    <3>1. ASSUME NEW h \in PoolHotkeys
          PROVE  /\ <<h, n>> \in DOMAIN stake /\ stake[<<h, n>>] \in Nat
                 /\ stake'[<<h, n>>] = IF h = pool_hotkey /\ n = netuid
                                       THEN stake[<<h, n>>] + amount ELSE stake[<<h, n>>]
      BY <1>1, <1>2 DEF CollateralOK
    <3>2. /\ netuid_total_collateral[n] \in Nat
          /\ netuid_total_collateral'[n] = IF n = netuid THEN netuid_total_collateral[n] + amount
                                           ELSE netuid_total_collateral[n]
      BY <1>1, <1>2 DEF CollateralOK
    <3>3. QED
      BY <1>2, <3>1, <3>2
  <2>3. Principal(caller, n)' = Principal(caller, n) + change
    <3>1. Principal(caller, n) \in Nat
      BY <1>2, PrincipalType
    <3>2. QED
      BY <1>4, <3>1
  <2>4. \A u \in Users \ {caller} : Principal(u, n)' = Principal(u, n)
    BY <1>4
  <2> HIDE DEF change
  <2>5. QED
    BY <2>1, <2>2, <2>3, <2>4, MoveIsBooked
<1>6. NewIdsAreEmpty'
  <2>1. market_keys' = market_keys
    BY <1>1 DEF registryVars, market_keys
  <2>2. \A other \in MarketIds \ market_keys : alpha_principal'[other] = alpha_principal[other]
    BY <1>1, <1>2, <1>3 DEF CollateralOK
  <2>3. QED
    BY <2>1, <2>2 DEF CollateralInv, NewIdsAreEmpty
<1>7. QED
  BY <1>5, <1>6 DEF CollateralInv

LEMMA WithdrawAlphaIsBooked ==
    ASSUME PoolInv, PoolInv', CollateralInv, NEW caller \in Users, NEW netuid \in Netuids,
           NEW amount \in Nat, WithdrawAlpha(caller, netuid, amount)
    PROVE  CollateralInv'
<1> DEFINE id == netuid_to_market[netuid]
           amounts == [n \in Netuids |-> IF n = netuid THEN amount ELSE 0]
<1>1. /\ Approved(netuid) /\ UNCHANGED registryVars
      /\ \A n \in Netuids : stake[<<pool_hotkey, n>>] >= amounts[n]
      /\ stake' = [hn \in DOMAIN stake |->
                     IF hn[1] = pool_hotkey THEN stake[hn] - amounts[hn[2]] ELSE stake[hn]]
      /\ alpha_principal' = [alpha_principal EXCEPT ![id][caller] = @ - amount]
      /\ netuid_total_collateral' = [netuid_total_collateral EXCEPT ![netuid] = @ - amount]
  BY DEF WithdrawAlpha, StakeOut
<1>2. RegistryOK /\ CollateralOK /\ pool_hotkey \in PoolHotkeys
  BY DEF PoolInv, AlphaTermsOK
<1>3. id \in MarketIds /\ id \in market_keys
      /\ \A n \in Netuids \ {netuid} : Approved(n) => netuid_to_market[n] # id
  BY <1>1, <1>2, ApprovedIds
<1>4. ASSUME NEW n \in Netuids, NEW u \in Users
      PROVE  Principal(u, n)' = IF n = netuid /\ u = caller THEN Principal(u, n) - amount
                                ELSE Principal(u, n)
  <2>1. netuid_to_market' = netuid_to_market /\ (Approved(n)' <=> Approved(n))
    BY <1>1 DEF registryVars, Approved
  <2>2. CASE n = netuid
    BY <1>1, <1>2, <1>3, <2>1, <2>2 DEF Principal, CollateralOK
  <2>3. CASE n # netuid
    <3>1. Approved(n) => netuid_to_market[n] \in MarketIds /\ netuid_to_market[n] # id
      BY <1>2, <1>3, <2>3 DEF RegistryOK, Approved
    <3>2. QED
      BY <1>1, <1>2, <1>3, <2>1, <2>3, <3>1 DEF Principal, CollateralOK
  <2>4. QED
    BY <2>2, <2>3
<1>5. ASSUME NEW n \in Netuids PROVE Booked(n)'
  <2> DEFINE change == IF n = netuid THEN 0 - amount ELSE 0
  <2>1. Booked(n) /\ change \in Int
    BY DEF CollateralInv
  <2>2. \A h \in PoolHotkeys : /\ <<h, n>> \in DOMAIN stake /\ stake[<<h, n>>] \in Nat
                               /\ stake'[<<h, n>>] = IF h = pool_hotkey THEN stake[<<h, n>>] - amounts[n]
                                                     ELSE stake[<<h, n>>]
    BY <1>1, <1>2 DEF CollateralOK
  <2>3. /\ \A h \in PoolHotkeys \ {pool_hotkey} : stake'[<<h, n>>] = stake[<<h, n>>]
        /\ stake'[<<pool_hotkey, n>>] = stake[<<pool_hotkey, n>>] + change
    BY <1>2, <2>2
  <2>4. netuid_total_collateral'[n] = netuid_total_collateral[n] + change
    BY <1>1, <1>2 DEF CollateralOK
  <2>5. Principal(caller, n)' = Principal(caller, n) + change
    <3>1. Principal(caller, n) \in Nat
      BY <1>2, PrincipalType
    <3>2. QED
      BY <1>4, <3>1
  <2>6. \A u \in Users \ {caller} : Principal(u, n)' = Principal(u, n)
    BY <1>4
  <2> HIDE DEF change
  <2>7. QED
    BY <2>1, <2>3, <2>4, <2>5, <2>6, MoveIsBooked
<1>6. NewIdsAreEmpty'
  <2>1. market_keys' = market_keys
    BY <1>1 DEF registryVars, market_keys
  <2>2. \A other \in MarketIds \ market_keys : alpha_principal'[other] = alpha_principal[other]
    BY <1>1, <1>2, <1>3 DEF CollateralOK
  <2>3. QED
    BY <2>1, <2>2 DEF CollateralInv, NewIdsAreEmpty
<1>7. QED
  BY <1>5, <1>6 DEF CollateralInv

\* A liquidation seizes in every netuid what its borrower has there.
LEMMA LiquidateIsBooked ==
    ASSUME PoolInv, PoolInv', CollateralInv, NEW liquidator \in Users, NEW borrower \in Users,
           NEW received, Liquidate(liquidator, borrower, received)
    PROVE  CollateralInv'
<1> DEFINE cleared == {netuid_to_market[n] : n \in Held(borrower)}
<1>1. /\ UNCHANGED registryVars
      /\ stake' = [hn \in DOMAIN stake |->
                     IF hn[1] = pool_hotkey THEN stake[hn] - Holding(borrower)[hn[2]] ELSE stake[hn]]
      /\ alpha_principal' = [id \in MarketIds |->
           IF id \in cleared
           THEN [alpha_principal[id] EXCEPT ![borrower] = 0] ELSE alpha_principal[id]]
      /\ netuid_total_collateral' =
           [n \in Netuids |-> netuid_total_collateral[n] - Holding(borrower)[n]]
  BY DEF Liquidate, StakeOut
<1>2. RegistryOK /\ CollateralOK /\ pool_hotkey \in PoolHotkeys
  BY DEF PoolInv, AlphaTermsOK
<1>3. \A n \in Netuids : /\ Principal(borrower, n) \in Nat
                         /\ Holding(borrower)[n] = Principal(borrower, n)
  BY <1>2, PrincipalType DEF Holding
<1>4. ASSUME NEW n \in Netuids, NEW u \in Users
      PROVE  Principal(u, n)' = IF u = borrower THEN 0 ELSE Principal(u, n)
  <2> DEFINE id == netuid_to_market[n]
  <2>1. netuid_to_market' = netuid_to_market /\ (Approved(n)' <=> Approved(n))
    BY <1>1 DEF registryVars, Approved
  <2>2. CASE ~Approved(n)
    BY <2>1, <2>2 DEF Principal
  <2>3. CASE Approved(n)
    <3>1. id \in MarketIds
      BY <1>2, <2>3, ApprovedIds
    <3>2. Principal(u, n)' = alpha_principal'[id][u] /\ Principal(u, n) = alpha_principal[id][u]
          /\ Principal(borrower, n) = alpha_principal[id][borrower]
      BY <2>1, <2>3 DEF Principal
    <3>3. id \notin cleared => Principal(borrower, n) = 0
      BY <1>3 DEF Held
    <3> HIDE DEF id, cleared
    <3>4. alpha_principal'[id][u] = IF id \in cleared /\ u = borrower THEN 0
                                    ELSE alpha_principal[id][u]
      BY <1>1, <1>2, <3>1 DEF CollateralOK
    <3>5. QED
      BY <3>2, <3>3, <3>4
  <2>4. QED
    BY <2>2, <2>3
<1>5. ASSUME NEW n \in Netuids PROVE Booked(n)'
  <2> DEFINE seized == Principal(borrower, n)
             change == 0 - seized
  <2>1. Booked(n) /\ seized \in Nat /\ change \in Int /\ seized + change = 0
        /\ \A x \in Int : x - seized = x + change
    BY <1>3 DEF CollateralInv
  <2>2. \A h \in PoolHotkeys : /\ <<h, n>> \in DOMAIN stake /\ stake[<<h, n>>] \in Int
                               /\ stake'[<<h, n>>] = IF h = pool_hotkey THEN stake[<<h, n>>] - seized
                                                     ELSE stake[<<h, n>>]
    BY <1>1, <1>2, <1>3 DEF CollateralOK
  <2>3. netuid_total_collateral[n] \in Int
        /\ netuid_total_collateral'[n] = netuid_total_collateral[n] - seized
    BY <1>1, <1>2, <1>3 DEF CollateralOK
  <2>4. Principal(borrower, n)' = 0 /\ \A u \in Users \ {borrower} : Principal(u, n)' = Principal(u, n)
    BY <1>4
  <2> HIDE DEF change
  <2>5. /\ \A h \in PoolHotkeys \ {pool_hotkey} : stake'[<<h, n>>] = stake[<<h, n>>]
        /\ stake'[<<pool_hotkey, n>>] = stake[<<pool_hotkey, n>>] + change
        /\ netuid_total_collateral'[n] = netuid_total_collateral[n] + change
        /\ Principal(borrower, n)' = Principal(borrower, n) + change
    BY <1>2, <2>1, <2>2, <2>3, <2>4
  <2>6. QED
    BY <2>1, <2>4, <2>5, MoveIsBooked
<1>6. NewIdsAreEmpty'
  <2>1. market_keys' = market_keys
    BY <1>1 DEF registryVars, market_keys
  <2>2. ASSUME NEW other \in MarketIds \ market_keys
        PROVE  alpha_principal'[other] = alpha_principal[other]
    <3>1. ASSUME NEW n \in Held(borrower) PROVE netuid_to_market[n] # other
      <4>1. n \in Netuids /\ Approved(n)
        BY DEF Held, Principal
      <4>2. QED
        BY <1>2, <4>1, ApprovedIds
    <3>2. other \notin cleared
      BY <3>1
    <3>3. QED
      BY <1>1, <3>2
  <2>3. QED
    BY <2>1, <2>2 DEF CollateralInv, NewIdsAreEmpty
<1>7. QED
  BY <1>5, <1>6 DEF CollateralInv

\* Steps that leave the principals alone.
LEMMA CustodyIsBooked ==
    ASSUME PoolInv, PoolInv', CollateralInv,
           UNCHANGED <<registryVars, alpha_principal, netuid_total_collateral>>,
           \A n \in Netuids : \/ AvailableStake(n)' >= AvailableStake(n)
                              \/ AvailableStake(n)' >= netuid_total_collateral[n]
    PROVE  CollateralInv'
<1>1. /\ netuid_to_market' = netuid_to_market /\ market_keys' = market_keys
      /\ \A n \in Netuids : Approved(n)' <=> Approved(n)
  BY DEF registryVars, Approved, market_keys
<1>2. \A n \in Netuids, u \in Users : Principal(u, n)' = Principal(u, n)
  BY <1>1 DEF Principal
<1>3. ASSUME NEW n \in Netuids PROVE Booked(n)'
  <2>1. SumFunction(Principals(n))' = SumFunction(Principals(n))
    BY <1>2, PrincipalsStay
  <2>2. Booked(n) /\ netuid_total_collateral[n] \in Int /\ AvailableStake(n) \in Int
    BY PrincipalsType DEF CollateralInv, PoolInv, CollateralOK
  <2>3. AvailableStake(n)' \in Int
    BY PrincipalsTypeAfter, PoolConstants, SumType
  <2>4. QED
    BY <2>1, <2>2, <2>3 DEF Booked
<1>4. NewIdsAreEmpty'
  BY <1>1 DEF CollateralInv, NewIdsAreEmpty
<1>5. QED
  BY <1>3, <1>4 DEF CollateralInv

LEMMA ClaimAndEmitAreBooked ==
    ASSUME PoolInv, PoolInv', CollateralInv, NEW netuid \in Netuids,
           ClaimAlphaExcess(netuid) \/ \E amount \in Emissions : Emit(netuid, amount)
    PROVE  CollateralInv'
<1>1. CollateralOK /\ pool_hotkey \in PoolHotkeys /\ Emissions \subseteq Nat
  BY PoolConstants DEF PoolInv, AlphaTermsOK
<1>2. \A h \in PoolHotkeys, n \in Netuids : <<h, n>> \in DOMAIN stake /\ stake[<<h, n>>] \in Nat
  BY <1>1 DEF CollateralOK
<1>3. AvailableStake(netuid) \in Int /\ netuid_total_collateral[netuid] \in Int
  BY <1>1, PrincipalsType DEF CollateralOK
<1>4. ASSUME NEW number, stake' = [stake EXCEPT ![<<pool_hotkey, netuid>>] = number]
      PROVE  /\ AvailableStake(netuid)' = AvailableStake(netuid) - stake[<<pool_hotkey, netuid>>] + number
             /\ \A n \in Netuids \ {netuid} : AvailableStake(n)' = AvailableStake(n)
  <2>1. \A h \in PoolHotkeys, n \in Netuids :
          stake'[<<h, n>>] = IF h = pool_hotkey /\ n = netuid THEN number ELSE stake[<<h, n>>]
    BY <1>2, <1>4
  <2>2. AvailableStake(netuid)'
          = AvailableStake(netuid) - stake[<<pool_hotkey, netuid>>] + stake'[<<pool_hotkey, netuid>>]
    BY <1>1, <2>1, StakeMoves
  <2>3. ASSUME NEW n \in Netuids \ {netuid} PROVE AvailableStake(n)' = AvailableStake(n)
    BY <2>1, StakeStays
  <2>4. QED
    BY <1>1, <2>1, <2>2, <2>3
<1>5. CASE ClaimAlphaExcess(netuid)
  <2> DEFINE excess == AvailableStake(netuid) - netuid_total_collateral[netuid]
             held == stake[<<pool_hotkey, netuid>>]
  <2>1. /\ stake' = [stake EXCEPT ![<<pool_hotkey, netuid>>] = held - excess]
        /\ UNCHANGED <<registryVars, alpha_principal, netuid_total_collateral>>
    BY <1>5 DEF ClaimAlphaExcess
  <2>2. AvailableStake(netuid)' = AvailableStake(netuid) - held + (held - excess)
        /\ \A n \in Netuids \ {netuid} : AvailableStake(n)' = AvailableStake(n)
    BY <1>4, <2>1
  <2>3. held \in Int /\ \A n \in Netuids : AvailableStake(n) \in Int
    BY <1>1, <1>2, PrincipalsType
  <2> HIDE DEF held
  <2>4. AvailableStake(netuid)' = netuid_total_collateral[netuid]
    BY <1>3, <2>2, <2>3
  <2>5. \A n \in Netuids : \/ AvailableStake(n)' >= AvailableStake(n)
                           \/ AvailableStake(n)' >= netuid_total_collateral[n]
    BY <1>3, <2>2, <2>3, <2>4
  <2>6. QED
    BY <2>1, <2>5, CustodyIsBooked
<1>6. ASSUME NEW amount \in Emissions, Emit(netuid, amount) PROVE CollateralInv'
  <2> DEFINE held == stake[<<pool_hotkey, netuid>>]
  <2>1. /\ stake' = [stake EXCEPT ![<<pool_hotkey, netuid>>] = held + amount]
        /\ UNCHANGED <<registryVars, alpha_principal, netuid_total_collateral>>
    BY <1>6 DEF Emit
  <2>2. AvailableStake(netuid)' = AvailableStake(netuid) - held + (held + amount)
        /\ \A n \in Netuids \ {netuid} : AvailableStake(n)' = AvailableStake(n)
    BY <1>4, <2>1
  <2>3. held \in Int /\ amount \in Nat /\ \A n \in Netuids : AvailableStake(n) \in Int
    BY <1>1, <1>2, PrincipalsType
  <2> HIDE DEF held
  <2>4. \A n \in Netuids : \/ AvailableStake(n)' >= AvailableStake(n)
                           \/ AvailableStake(n)' >= netuid_total_collateral[n]
    BY <1>3, <2>2, <2>3
  <2>5. QED
    BY <2>1, <2>4, CustodyIsBooked
<1>7. QED
  BY <1>5, <1>6

\* What moves to the new hotkey is all there is under any.
LEMMA RehostingIsBooked ==
    ASSUME PoolInv, PoolInv', CollateralInv, NEW caller, NEW hotkey \in PoolHotkeys,
           NEW netuids \in SUBSET Netuids, UpdatePoolHotkey(caller, hotkey, netuids)
    PROVE  CollateralInv'
<1>1. /\ stake' = [hn \in DOMAIN stake |->
                     IF hn[2] \notin netuids THEN stake[hn]
                     ELSE IF hn[1] = hotkey THEN AvailableStake(hn[2]) ELSE 0]
      /\ UNCHANGED <<registryVars, alpha_principal, netuid_total_collateral>>
  BY DEF UpdatePoolHotkey
<1>2. CollateralOK
  BY DEF PoolInv
<1>3. ASSUME NEW n \in Netuids PROVE AvailableStake(n)' = AvailableStake(n)
  <2>1. \A h \in PoolHotkeys : <<h, n>> \in DOMAIN stake
    BY <1>2 DEF CollateralOK
  <2>2. CASE n \notin netuids
    <3>1. \A h \in PoolHotkeys : stake'[<<h, n>>] = stake[<<h, n>>]
      BY <1>1, <2>1, <2>2
    <3>2. QED
      BY <3>1, StakeStays
  <2>3. CASE n \in netuids
    <3> DEFINE zero == [h \in PoolHotkeys |-> 0]
               after == [h \in PoolHotkeys |-> IF h = hotkey THEN AvailableStake(n) ELSE 0]
    <3>1. AvailableStake(n) \in Int
      BY PrincipalsType
    <3>2. \A h \in PoolHotkeys : stake'[<<h, n>>] = IF h = hotkey THEN AvailableStake(n) ELSE 0
      BY <1>1, <2>1, <2>3
    <3>3. AvailableStake(n)' = SumFunction(after)
      <4>1. Stakes(n)' = after
        BY <3>2 DEF Stakes
      <4>2. QED
        BY <4>1, PrincipalsTypeAfter
    <3>4. /\ zero \in [PoolHotkeys -> Int] /\ after \in [PoolHotkeys -> Int]
          /\ \A h \in PoolHotkeys \ {hotkey} : after[h] = zero[h]
          /\ \A h \in PoolHotkeys : zero[h] = 0
          /\ zero[hotkey] = 0 /\ after[hotkey] = AvailableStake(n)
      BY <3>1
    <3> HIDE DEF zero, after
    <3>5. SumFunction(zero) = 0
      BY <3>4, PoolConstants, SumOfZeros
    <3>6. SumFunction(after) = SumFunction(zero) - zero[hotkey] + after[hotkey]
      BY <3>4, PoolConstants, SumChanged
    <3>7. QED
      BY <3>1, <3>3, <3>4, <3>5, <3>6
  <2>4. QED
    BY <2>2, <2>3
<1>4. \A n \in Netuids : AvailableStake(n)' >= AvailableStake(n)
  BY <1>3, PrincipalsType
<1>5. QED
  BY <1>1, <1>4, CustodyIsBooked

\* An id that was never given holds nothing: what is approved starts empty.
\* A netuid that is approved starts without collateral: its id is new.
LEMMA ApproveKeepsPrincipals ==
    ASSUME PoolInv, NewIdsAreEmpty, NEW caller, NEW netuid \in Netuids,
           ApproveNetuid(caller, netuid), NEW n \in Netuids, NEW user \in Users
    PROVE  Principal(user, n)' = Principal(user, n)
<1> DEFINE id == next_alpha_market_id
<1>1. /\ id \in MarketIds /\ ~Approved(netuid)
      /\ netuid_to_market' = [netuid_to_market EXCEPT ![netuid] = id]
      /\ UNCHANGED collateralVars
  BY DEF ApproveNetuid
<1>2. RegistryOK /\ CollateralOK
  BY DEF PoolInv
<1>3. id \in 2 .. MaxMarketId /\ MaxMarketId \in Nat
  BY <1>1, PoolConstants DEF MarketIds
<1>4. alpha_principal[id][user] = 0
  BY <1>1, <1>3 DEF NewIdsAreEmpty, market_keys
<1> HIDE DEF id
<1>5. CASE n = netuid
  BY <1>1, <1>2, <1>4, <1>5 DEF Principal, Approved, RegistryOK, collateralVars
<1>6. CASE n # netuid
  BY <1>1, <1>2, <1>6 DEF Principal, Approved, RegistryOK, collateralVars
<1>7. QED
  BY <1>5, <1>6

LEMMA ApproveIsBooked ==
    ASSUME PoolInv, PoolInv', CollateralInv, NEW caller, NEW netuid \in Netuids,
           ApproveNetuid(caller, netuid)
    PROVE  CollateralInv'
<1> DEFINE id == next_alpha_market_id
<1>1. id \in MarketIds /\ next_alpha_market_id' = id + 1 /\ UNCHANGED collateralVars
  BY DEF ApproveNetuid
<1>2. id \in 2 .. MaxMarketId /\ MaxMarketId \in Nat
  BY <1>1, PoolConstants DEF MarketIds
<1>3. market_keys' = market_keys \cup {id}
  BY <1>1, <1>2 DEF market_keys
<1> HIDE DEF id
<1>4. ASSUME NEW n \in Netuids PROVE Booked(n)'
  <2>1. SumFunction(Principals(n))' = SumFunction(Principals(n))
    BY ApproveKeepsPrincipals, PrincipalsStay DEF CollateralInv
  <2>2. AvailableStake(n)' = AvailableStake(n)
    BY <1>1, StakeStays DEF collateralVars
  <2>3. QED
    BY <1>1, <2>1, <2>2 DEF CollateralInv, Booked, collateralVars
<1>5. NewIdsAreEmpty'
  BY <1>1, <1>3 DEF CollateralInv, NewIdsAreEmpty, collateralVars
<1>6. QED
  BY <1>4, <1>5 DEF CollateralInv

\* A netuid is removed only when nobody has anything on it.
LEMMA RemoveKeepsPrincipals ==
    ASSUME PoolInv, CollateralInv, NEW caller, NEW netuid \in Netuids,
           RemoveNetuid(caller, netuid), NEW n \in Netuids, NEW user \in Users
    PROVE  Principal(user, n)' = Principal(user, n)
<1>1. /\ netuid_total_collateral[netuid] = 0
      /\ netuid_to_market' = [netuid_to_market EXCEPT ![netuid] = NoMarket]
      /\ UNCHANGED collateralVars
  BY DEF RemoveNetuid, Vacant
<1>2. RegistryOK /\ CollateralOK
  BY DEF PoolInv
<1>3. Principal(user, netuid) = 0
  <2>1. SumFunction(Principals(netuid)) = 0
    BY <1>1 DEF CollateralInv, Booked
  <2>2. Principals(netuid) \in [Users -> Nat] /\ IsFiniteSet(Users)
    BY PrincipalsType, LendingConstants
  <2>3. Principals(netuid)[user] <= 0
    BY <2>1, <2>2, SumAtLeastTerm
  <2>4. Principals(netuid)[user] = Principal(user, netuid) /\ Principals(netuid)[user] \in Nat
    BY <2>2 DEF Principals
  <2>5. QED
    BY <2>3, <2>4
<1>4. CASE n = netuid
  BY <1>1, <1>2, <1>3, <1>4 DEF Principal, Approved, RegistryOK
<1>5. CASE n # netuid
  BY <1>1, <1>2, <1>5 DEF Principal, Approved, RegistryOK, collateralVars
<1>6. QED
  BY <1>4, <1>5

LEMMA RemoveIsBooked ==
    ASSUME PoolInv, PoolInv', CollateralInv, NEW caller, NEW netuid \in Netuids,
           RemoveNetuid(caller, netuid)
    PROVE  CollateralInv'
<1>1. next_alpha_market_id' = next_alpha_market_id /\ UNCHANGED collateralVars
  BY DEF RemoveNetuid
<1>2. ASSUME NEW n \in Netuids PROVE Booked(n)'
  <2>1. SumFunction(Principals(n))' = SumFunction(Principals(n))
    BY RemoveKeepsPrincipals, PrincipalsStay
  <2>2. AvailableStake(n)' = AvailableStake(n)
    BY <1>1, StakeStays DEF collateralVars
  <2>3. QED
    BY <1>1, <2>1, <2>2 DEF CollateralInv, Booked, collateralVars
<1>3. NewIdsAreEmpty'
  BY <1>1 DEF CollateralInv, NewIdsAreEmpty, collateralVars, market_keys
<1>4. QED
  BY <1>2, <1>3 DEF CollateralInv

LEMMA PoolNextIsBooked ==
    ASSUME PoolInv, CollateralInv, [PoolNext]_poolVars
    PROVE  CollateralInv'
<1>1. PoolInv' /\ Borrowers \subseteq Users /\ AlphaAmounts \subseteq Nat
  BY PoolNextKeepsInv, PoolConstants
<1>2. CASE UNCHANGED <<registryVars, collateralVars>>
  <2>1. \A n \in Netuids : AvailableStake(n)' = AvailableStake(n)
    BY <1>2, StakeStays DEF collateralVars
  <2>2. \A n \in Netuids : AvailableStake(n)' >= AvailableStake(n)
    BY <2>1, PrincipalsType
  <2>3. QED
    BY <1>1, <1>2, <2>2, CustodyIsBooked DEF collateralVars
<1>3. CASE BorrowerStep
  <2>1. ASSUME NEW user \in Borrowers, NEW netuid \in Netuids, NEW amount \in AlphaAmounts,
               DepositAlpha(user, netuid, amount) \/ WithdrawAlpha(user, netuid, amount)
        PROVE  CollateralInv'
    BY <1>1, <2>1, DepositIsBooked, WithdrawAlphaIsBooked
  <2>2. ASSUME NEW user \in Borrowers, NEW amount \in Amounts,
               BorrowTao(user, amount) \/ BorrowTusdt(user, amount)
        PROVE  CollateralInv'
    BY <1>2, <2>2 DEF BorrowTao, BorrowTusdt
  <2>3. QED
    BY <1>3, <2>1, <2>2 DEF BorrowerStep
<1>4. CASE LiquidatorStep
  BY <1>1, <1>4, LiquidateIsBooked DEF LiquidatorStep
<1>5. CASE SubnetStep
  <2>1. ASSUME NEW caller, NEW netuid \in Netuids,
               ApproveNetuid(caller, netuid) \/ RemoveNetuid(caller, netuid)
        PROVE  CollateralInv'
    BY <1>1, <2>1, ApproveIsBooked, RemoveIsBooked
  <2>2. ASSUME NEW caller, NEW netuid \in Netuids, NEW new_params,
               \/ SetAlphaParams(caller, netuid, new_params)
               \/ ExecuteAlphaParamsUpdate(netuid)
               \/ CancelAlphaParamsUpdate(caller, netuid)
        PROVE  CollateralInv'
    BY <1>2, <2>2 DEF SetAlphaParams, ExecuteAlphaParamsUpdate, CancelAlphaParamsUpdate
  <2>3. ASSUME NEW netuid \in Netuids,
               ClaimAlphaExcess(netuid) \/ \E amount \in Emissions : Emit(netuid, amount)
        PROVE  CollateralInv'
    BY <1>1, <2>3, ClaimAndEmitAreBooked
  <2>4. ASSUME NEW caller, NEW hotkey \in PoolHotkeys, NEW netuids \in SUBSET Netuids,
               UpdatePoolHotkey(caller, hotkey, netuids)
        PROVE  CollateralInv'
    BY <1>1, <2>4, RehostingIsBooked
  <2>5. ASSUME ClaimRootExcess PROVE CollateralInv'
    BY <1>2, <2>5 DEF ClaimRootExcess
  <2>6. QED
    BY <1>5, <2>1, <2>2, <2>3, <2>4, <2>5 DEF SubnetStep
<1>6. CASE PricesMove \/ TimePasses
  BY <1>2, <1>6 DEF PricesMove, TimePasses
<1>7. CASE UNCHANGED poolVars
  BY <1>2, <1>7 DEF poolVars
<1>8. QED
  BY <1>2, <1>3, <1>4, <1>5, <1>6, <1>7 DEF PoolNext

LEMMA CollateralInvInit == PoolInit => CollateralInv
<1> SUFFICES ASSUME PoolInit PROVE CollateralInv
  OBVIOUS
<1>1. /\ netuid_to_market = [n \in Netuids |-> NoMarket]
      /\ alpha_principal = [id \in MarketIds |-> [user \in Users |-> 0]]
      /\ netuid_total_collateral = [n \in Netuids |-> 0]
      /\ stake = [hn \in PoolHotkeys \X Netuids |-> 0]
  BY DEF PoolInit
<1>2. PoolInv
  BY PoolInvInit
<1>3. ASSUME NEW n \in Netuids PROVE Booked(n)
  <2>1. SumFunction(Principals(n)) = 0
    <3>1. \A user \in Users : Principals(n)[user] = 0
      BY <1>1 DEF Principals, Principal, Approved
    <3>2. QED
      BY <1>2, <3>1, PrincipalsType, LendingConstants, SumOfZeros
  <2>2. AvailableStake(n) = 0
    <3>1. \A hotkey \in PoolHotkeys : Stakes(n)[hotkey] = 0
      BY <1>1 DEF Stakes
    <3>2. QED
      BY <1>2, <3>1, PrincipalsType, PoolConstants, SumOfZeros
  <2>3. QED
    BY <1>1, <2>1, <2>2 DEF Booked
<1>4. NewIdsAreEmpty
  BY <1>1 DEF NewIdsAreEmpty
<1>5. QED
  BY <1>3, <1>4 DEF CollateralInv

\* Through deposits, withdrawals, liquidations, claims of the excess, rehosting
\* and netuids that are retired and approved again: the collateral booked on a
\* netuid is what its users deposited there, and the pool has it staked.
THEOREM PoolCollateralIsBooked == PoolSpec => []CollateralIsBooked
<1>1. PoolInv /\ CollateralInv /\ [PoolNext]_poolVars => CollateralInv'
  BY PoolNextIsBooked
<1>2. PoolInv /\ CollateralInv => CollateralIsBooked
  BY PoolInvImplies DEF CollateralInv, Booked, CollateralIsBooked
<1>3. QED
  BY <1>1, <1>2, CollateralInvInit, PoolInvariance, PTL DEF PoolSpec

----------------------------------------------------------------------------
(* What a liquidator gets. *)

\* The share taken of collateral worth more than the debt.
LEMMA ShareIsOfSurplus ==
    ASSUME NEW fee \in Nat, NEW worth \in Nat, NEW debt \in Nat, worth > debt,
           NEW most, most = ((worth - debt) * RatioOne) \div worth
    PROVE  /\ most \in 0 .. RatioOne
           /\ debt * RatioOne <= (RatioOne - most) * worth
           /\ PlatformShare(fee, worth, debt) \in 0 .. most
<1> DEFINE surplus == worth - debt
           scaled == surplus * RatioOne
<1>1. surplus \in Nat /\ worth \in Nat \ {0} /\ surplus <= worth /\ scaled \in Nat
  BY RatioOneAssumption
<1>2. most \in Nat /\ worth * most <= scaled
  BY <1>1, Quotients
<1>3. scaled <= RatioOne * worth /\ scaled = RatioOne * worth - debt * RatioOne
      /\ RatioOne * worth \in Nat /\ debt * RatioOne \in Nat
  BY <1>1, RatioOneAssumption
<1> HIDE DEF surplus, scaled
<1>4. most <= RatioOne
  <2>1. SUFFICES ASSUME RatioOne + 1 <= most PROVE FALSE
    BY <1>2, RatioOneAssumption
  <2>2. worth * (RatioOne + 1) <= worth * most
    BY <1>1, <1>2, <2>1, RatioOneAssumption, Products
  <2>3. worth * (RatioOne + 1) = RatioOne * worth + worth /\ worth * most \in Nat
    BY <1>1, <1>2, RatioOneAssumption
  <2>4. QED
    BY <1>1, <1>2, <1>3, <2>2, <2>3
<1>5. debt * RatioOne <= (RatioOne - most) * worth
  <2>1. (RatioOne - most) * worth = RatioOne * worth - worth * most /\ worth * most \in Nat
    BY <1>2, RatioOneAssumption
  <2>2. QED
    BY <1>2, <1>3, <2>1
<1>6. PlatformShare(fee, worth, debt) = Min({fee, most})
  BY DEF PlatformShare
<1>7. QED
  BY <1>2, <1>4, <1>5, <1>6, MinOfTwo

\* Of a seized amount, so much of its worth is left.
LEMMA KeptIsWorth ==
    ASSUME NEW price_n \in Nat, NEW seized \in Nat, NEW most \in 0 .. RatioOne,
           NEW share \in 0 .. most, NEW fee, fee = MulValue(share, seized)
    PROVE  /\ fee \in Nat
           /\ (RatioOne - most) * MulValue(price_n, seized) <= price_n * (seized - fee)
<1> DEFINE rest == RatioOne - most
           worth == MulValue(price_n, seized)
<1>1. /\ fee \in Nat /\ RatioOne * fee <= share * seized
      /\ worth \in Nat /\ RatioOne * worth <= price_n * seized
      /\ rest \in Nat
  <2>1. RatioOne \in Nat /\ most \in Nat /\ most <= RatioOne /\ share \in Nat
    BY RatioOneAssumption
  <2>2. fee \in Nat /\ RatioOne * fee <= share * seized
    BY <2>1, MulValueIsFloor
  <2>3. worth \in Nat /\ RatioOne * worth <= price_n * seized
    BY MulValueIsFloor
  <2>4. QED
    BY <2>1, <2>2, <2>3
<1>2. share * seized <= most * seized /\ share * seized \in Nat /\ most * seized \in Nat
  BY RatioOneAssumption
<1>3. RatioOne * (seized - fee) >= rest * seized
  <2>1. rest * seized = RatioOne * seized - most * seized
    BY RatioOneAssumption
  <2>2. RatioOne * (seized - fee) = RatioOne * seized - RatioOne * fee
    BY <1>1, RatioOneAssumption
  <2>3. RatioOne * fee \in Nat /\ RatioOne * seized \in Nat
    BY <1>1, RatioOneAssumption
  <2>4. QED
    BY <1>1, <1>2, <2>1, <2>2, <2>3
<1> HIDE DEF rest, worth
<1> DEFINE left == seized - fee
<1>4. left \in Int
  BY <1>1
<1> HIDE DEF left
<1>5. price_n * (rest * seized) <= price_n * (RatioOne * left)
  <2>1. rest * seized \in Nat /\ RatioOne * left \in Int /\ rest * seized <= RatioOne * left
    BY <1>1, <1>3, <1>4, RatioOneAssumption DEF left
  <2>2. RatioOne * left \in Nat
    BY <2>1
  <2>3. QED
    BY <2>1, <2>2, Products
<1>6. rest * (RatioOne * worth) <= rest * (price_n * seized)
  <2>1. RatioOne * worth \in Nat /\ price_n * seized \in Nat
    BY <1>1, RatioOneAssumption
  <2>2. QED
    BY <1>1, <2>1, Products
<1>7. /\ price_n * (rest * seized) = rest * (price_n * seized)
      /\ rest * (RatioOne * worth) = RatioOne * (rest * worth)
      /\ price_n * (RatioOne * left) = RatioOne * (price_n * left)
      /\ rest * worth \in Int /\ price_n * left \in Int /\ rest * (price_n * seized) \in Int
  BY <1>1, <1>4, RatioOneAssumption
<1>8. RatioOne * (rest * worth) <= RatioOne * (price_n * left)
  <2>1. RatioOne * (rest * worth) \in Int /\ RatioOne * (price_n * left) \in Int
    BY <1>7, RatioOneAssumption
  <2>2. QED
    BY <1>5, <1>6, <1>7, <2>1
<1>9. \A x, y \in Int : RatioOne * x <= RatioOne * y => x <= y
  BY RatioOneAssumption
<1>10. rest * worth <= price_n * left
  BY <1>7, <1>8, <1>9
<1>11. QED
  BY <1>1, <1>10 DEF rest, worth, left

\* The debt that a liquidation of a user settles, and what of each netuid, at
\* its price, the platform did not get.
SettledDebt(user) ==
    DebtFace(positions["TUSDT"][user].scaled_debt, markets'["TUSDT"].borrow_index)
    + MulValue(price.tao, DebtFace(positions["TAO"][user].scaled_debt,
                                   markets'["TAO"].borrow_index))

KeptOf(user) ==
    [n \in Netuids |->
       CollateralPrice(n) * (Principal(user, n) - (alpha'[Platform][n] - alpha[Platform][n]))]

\* Nothing else takes all debt and all collateral in one step.
LEMMA OnlyLiquidateTakesAll ==
    ASSUME PoolInv, PoolNext, NEW user \in Borrowers, LiquidationOf(user)
    PROVE  \E liquidator \in Users, received \in Nat : Liquidate(liquidator, user, received)
<1>1. CASE UNCHANGED positions
  BY <1>1 DEF LiquidationOf, Indebted
<1>2. CASE UNCHANGED <<registryVars, alpha_principal>>
  BY <1>2 DEF LiquidationOf, Held, Principal, Approved, registryVars
<1>3. CASE BorrowerStep
  <2>1. ASSUME NEW caller, NEW netuid, NEW amount,
               DepositAlpha(caller, netuid, amount) \/ WithdrawAlpha(caller, netuid, amount)
        PROVE  UNCHANGED positions
    BY <2>1 DEF DepositAlpha, WithdrawAlpha, lendingVars, bookVars
  <2>2. ASSUME NEW caller, NEW amount,
               BorrowTao(caller, amount) \/ BorrowTusdt(caller, amount)
        PROVE  UNCHANGED <<registryVars, alpha_principal>>
    BY <2>2 DEF BorrowTao, BorrowTusdt, collateralVars
  <2>3. QED
    BY <1>1, <1>2, <1>3, <2>1, <2>2 DEF BorrowerStep
<1>4. CASE LiquidatorStep
  <2>1. PICK liquidator \in Users, borrower \in Borrowers :
            \E received \in 0 .. wallets["TAO"][liquidator] :
                Liquidate(liquidator, borrower, received)
    BY <1>4 DEF LiquidatorStep
  <2>2. PICK received \in 0 .. wallets["TAO"][liquidator] :
            Liquidate(liquidator, borrower, received)
    BY <2>1
  <2>3. CASE borrower = user
    BY <2>2, <2>3
  <2>4. CASE borrower # user
    <3>1. \A a \in Assets : positions'[a][user].scaled_debt = positions[a][user].scaled_debt
      BY <2>2, <2>4, PoolConstants DEF Liquidate, PoolInv, LendingInv, BooksOK, Positions
    <3>2. QED
      BY <3>1 DEF LiquidationOf, Indebted
  <2>5. QED
    BY <2>3, <2>4
<1>5. CASE SubnetStep \/ PricesMove \/ TimePasses
  <2>1. UNCHANGED positions
    BY <1>5, SubnetStepKeepsBooks DEF PricesMove, TimePasses, Tick, lendingVars, bookVars
  <2>2. QED
    BY <1>1, <2>1
<1>6. CASE UNCHANGED <<registryVars, collateralVars>>
  BY <1>2, <1>6 DEF collateralVars
<1>7. QED
  BY <1>3, <1>4, <1>5, <1>6 DEF PoolNext

LEMMA LiquidatorGetsItsDue ==
    ASSUME PoolInv, NEW liquidator \in Users, NEW user \in Users, NEW received \in Nat,
           Liquidate(liquidator, user, received), Worth(Holding(user)) > SettledDebt(user)
    PROVE  SumFunction(KeptOf(user)) >= SettledDebt(user) * RatioOne
<1> DEFINE books == [a \in Assets |-> Current(a, IF a = "TAO" THEN received ELSE 0)]
           debt == DebtValue(user, books)
           seized == Holding(user)
           worth == Worth(seized)
           fees == [n \in Netuids |->
                      MulValue(PlatformShare(alpha_params[n].liquidation_fee, worth, debt), seized[n])]
<1>1. /\ CanAccrue("TAO", received) /\ CanAccrue("TUSDT", 0)
      /\ markets' = [a \in Assets |-> Retired(books[a], positions[a][user].scaled_debt)]
      /\ StakeOut(liquidator, seized, fees)
  BY DEF Liquidate
<1>2. /\ LendingInv /\ CollateralOK /\ RegistryOK /\ "TAO" \in Assets /\ "TUSDT" \in Assets
      /\ IsFiniteSet(Netuids)
  BY PoolConstants DEF PoolInv, Assets
<1>3. /\ books["TAO"] \in MarketState /\ books["TUSDT"] \in MarketState
      /\ books["TAO"] = Current("TAO", received) /\ books["TUSDT"] = Current("TUSDT", 0)
  BY <1>1, <1>2, CurrentIsSound DEF LendingInv
<1>4. \A a \in Assets : books[a] \in MarketState
  BY <1>3 DEF Assets
<1> HIDE DEF books
<1>5. \A a \in Assets : markets'[a].borrow_index = books[a].borrow_index
  BY <1>1, <1>4 DEF Retired, WithScaledDebt, MarketState
<1>6. debt = SettledDebt(user)
  BY <1>2, <1>5 DEF SettledDebt, DebtValue, Owed
<1>7. debt \in Nat
  <2>1. \A a \in Assets : Owed(a, books[a], user) \in Nat
    <3>1. ASSUME NEW a \in Assets PROVE Owed(a, books[a], user) \in Nat
      <4>1. positions[a][user].scaled_debt \in Nat /\ books[a].borrow_index \in Nat
        BY <1>2, <1>4 DEF LendingInv, BooksOK, Positions, MarketState
      <4>2. QED
        BY <4>1, MulValueIsFloor DEF Owed, DebtFace
    <3>2. QED
      BY <3>1
  <2>2. price.tao \in Nat
    BY DEF PoolInv, PricesOK
  <2> DEFINE ofTusdt == Owed("TUSDT", books["TUSDT"], user)
             ofTao == Owed("TAO", books["TAO"], user)
  <2>3. ofTusdt \in Nat /\ ofTao \in Nat
    BY <1>2, <2>1
  <2>4. debt = ofTusdt + MulValue(price.tao, ofTao)
    BY DEF DebtValue
  <2> HIDE DEF ofTusdt, ofTao, debt
  <2>5. MulValue(price.tao, ofTao) \in Nat
    BY <2>2, <2>3, MulValueIsFloor
  <2>6. QED
    BY <2>3, <2>4, <2>5
<1> DEFINE worths == [n \in Netuids |-> MulValue(CollateralPrice(n), seized[n])]
<1>8. \A n \in Netuids : CollateralPrice(n) \in Nat /\ seized[n] \in Nat
                         /\ seized[n] = Principal(user, n)
  BY <1>2, PrincipalType, MulValueIsFloor DEF PoolInv, PricesOK, CollateralPrice, Holding
<1>9. worth = SumFunction(worths)
  BY DEF Worth
<1> HIDE DEF debt, seized
<1>10. worths \in [Netuids -> Nat] /\ worths \in [Netuids -> Int]
  <2>1. ASSUME NEW n \in Netuids PROVE MulValue(CollateralPrice(n), seized[n]) \in Nat
    BY <1>8, MulValueIsFloor
  <2>2. QED
    BY <2>1
<1>11. worth \in Nat /\ worth > debt
  BY <1>2, <1>6, <1>9, <1>10, SumNat DEF seized
<1> HIDE DEF worth, worths
<1> DEFINE most == ((worth - debt) * RatioOne) \div worth
           rest == RatioOne - most
           share(n) == PlatformShare(alpha_params[n].liquidation_fee, worth, debt)
<1>12. /\ most \in 0 .. RatioOne /\ debt * RatioOne <= rest * worth
       /\ \A n \in Netuids : share(n) \in 0 .. most
  <2>1. \A n \in Netuids : alpha_params[n].liquidation_fee \in Nat
    BY DEF PoolInv, AlphaTermsOK, EnforcedAlpha, AlphaParams
  <2>2. most = ((worth - debt) * RatioOne) \div worth
    OBVIOUS
  <2> HIDE DEF most
  <2>3. \A fee \in Nat : /\ most \in 0 .. RatioOne
                         /\ debt * RatioOne <= (RatioOne - most) * worth
                         /\ PlatformShare(fee, worth, debt) \in 0 .. most
    BY <1>7, <1>11, <2>2, ShareIsOfSurplus
  <2>4. 0 \in Nat
    OBVIOUS
  <2>5. QED
    BY <2>1, <2>3, <2>4
<1> HIDE DEF most
<1>13. ASSUME NEW n \in Netuids
       PROVE  /\ KeptOf(user)[n] \in Int
              /\ rest * worths[n] <= KeptOf(user)[n]
  <2> DEFINE fee == fees[n]
  <2>1. fee = MulValue(share(n), seized[n]) /\ share(n) \in 0 .. most
    BY <1>12
  <2> HIDE DEF fee, share
  <2>2. /\ fee \in Nat
        /\ (RatioOne - most) * MulValue(CollateralPrice(n), seized[n])
             <= CollateralPrice(n) * (seized[n] - fee)
    BY <1>8, <1>12, <2>1, KeptIsWorth
  <2>3. alpha'[Platform][n] = alpha[Platform][n] + fee /\ alpha[Platform][n] \in Nat
    <3>1. alpha[Platform][n] \in Nat /\ Platform \in DOMAIN alpha /\ Platform # liquidator
      BY <1>2, PoolConstants DEF CollateralOK
    <3>2. \E others : alpha' = [alpha EXCEPT ![liquidator] = others,
                    ![Platform] = [netuid \in Netuids |-> alpha[Platform][netuid] + fees[netuid]]]
      BY <1>1, <3>1 DEF StakeOut
    <3> HIDE DEF fees
    <3>3. QED
      BY <3>1, <3>2 DEF fee
  <2>4. KeptOf(user)[n] = CollateralPrice(n) * (seized[n] - fee)
    <3>1. (alpha[Platform][n] + fee) - alpha[Platform][n] = fee
      BY <2>2, <2>3
    <3>2. QED
      BY <1>8, <2>3, <3>1 DEF KeptOf
  <2>5. worths[n] = MulValue(CollateralPrice(n), seized[n])
    BY DEF worths
  <2>6. CollateralPrice(n) * (seized[n] - fee) \in Int
    <3>1. seized[n] - fee \in Int
      BY <1>8, <2>2
    <3>2. QED
      BY <1>8, <3>1
  <2>7. QED
    BY <2>2, <2>4, <2>5, <2>6
<1> HIDE DEF fees
<1> DEFINE least == [n \in Netuids |-> rest * worths[n]]
<1>14. rest \in Int
  BY <1>12, RatioOneAssumption
<1> HIDE DEF rest
<1>15. /\ least \in [Netuids -> Int]
       /\ KeptOf(user) \in [Netuids -> Int]
       /\ \A n \in Netuids : least[n] = rest * worths[n] /\ least[n] <= KeptOf(user)[n]
  <2>1. \A n \in Netuids : rest * worths[n] \in Int
    BY <1>10, <1>14
  <2>2. KeptOf(user) = [n \in Netuids |-> KeptOf(user)[n]]
    BY DEF KeptOf
  <2>3. KeptOf(user) \in [Netuids -> Int]
    BY <1>13, <2>2
  <2>4. QED
    BY <1>13, <2>1, <2>3
<1> HIDE DEF least
<1>16. SumFunction(least) = rest * worth
  BY <1>2, <1>9, <1>10, <1>14, <1>15, SumTimes
<1>17. SumFunction(least) <= SumFunction(KeptOf(user))
  BY <1>2, <1>15, SumMonotone
<1>18. SumFunction(KeptOf(user)) \in Int
  BY <1>2, <1>15, SumType
<1>19. debt * RatioOne \in Int /\ rest * worth \in Int
  BY <1>7, <1>11, <1>14, RatioOneAssumption
<1>20. debt * RatioOne <= SumFunction(KeptOf(user))
  BY <1>12, <1>16, <1>17, <1>18, <1>19 DEF rest
<1>21. QED
  BY <1>6, <1>18, <1>19, <1>20

\* Whatever the fees, the prices and the rounding, on however many netuids the
\* collateral is: of collateral worth more than the debt, the liquidator gets
\* as much as it pays.
THEOREM PoolLiquidatorKeepsItsDue == PoolSpec => LiquidatorKeepsItsDue
<1> DEFINE Due == \A user \in Borrowers : LiquidationOf(user) =>
                    (Worth(Holding(user)) > SettledDebt(user)
                       => SumFunction(KeptOf(user)) >= SettledDebt(user) * RatioOne)
<1>1. ASSUME PoolInv, PoolNext PROVE Due
  <2> SUFFICES ASSUME NEW user \in Borrowers, LiquidationOf(user),
                      Worth(Holding(user)) > SettledDebt(user)
               PROVE  SumFunction(KeptOf(user)) >= SettledDebt(user) * RatioOne
    OBVIOUS
  <2>1. PICK liquidator \in Users, received \in Nat : Liquidate(liquidator, user, received)
    BY <1>1, OnlyLiquidateTakesAll
  <2>2. QED
    BY <1>1, <2>1, LiquidatorGetsItsDue, PoolConstants
<1>2. PoolInv /\ [PoolNext]_poolVars => [Due]_poolVars
  BY <1>1
<1>3. PoolSpec => [][Due]_poolVars
  BY <1>2, PoolInvariance, PTL DEF PoolSpec
<1>4. LiquidatorKeepsItsDue <=> [][Due]_poolVars
  BY PTL DEF LiquidatorKeepsItsDue, SettledDebt, KeptOf
<1>5. QED
  BY <1>3, <1>4

----------------------------------------------------------------------------
(* Powers: the loop of pow_fixed as a recursive function of its state. *)

PowStates == Nat \X Nat \X Nat

\* One round of the squaring, on the result, the base and the exponent.
PowRound(s) == <<IF s[3] % 2 = 1 THEN MulValue(s[1], s[2]) ELSE s[1],
                 MulValue(s[2], s[2]), s[3] \div 2>>

IsPow(f) == f = [s \in PowStates |-> IF s[3] = 0 THEN s[1] ELSE f[PowRound(s)]]

\* pow_fixed is that function.
LEMMA PowUnfold ==
    ASSUME NEW base, NEW exponent
    PROVE PowFixed(base, exponent) = (CHOOSE f : IsPow(f))[<<RatioOne, base, exponent>>]
  BY DEF PowFixed, IsPow, PowStates, PowRound

\* To multiply by at least one loses nothing, in spite of the floor.
LEMMA GrowthOf ==
    ASSUME NEW ratio \in Nat, NEW value \in Nat, ratio >= RatioOne
    PROVE  MulValue(value, ratio) >= value /\ MulValue(ratio, value) >= value
<1>1. value * RatioOne <= value * ratio
  BY RatioOneAssumption
<1> DEFINE p == value * ratio
           q == p \div RatioOne
<1>2. p \in Nat /\ q \in Nat /\ p < RatioOne * q + RatioOne
  BY MulValueIsFloor DEF MulValue
<1>3. ASSUME q + 1 <= value PROVE FALSE
  <2>1. RatioOne * (q + 1) <= RatioOne * value
    BY <1>2, <1>3, RatioOneAssumption
  <2>2. RatioOne * (q + 1) = RatioOne * q + RatioOne /\ RatioOne * value = value * RatioOne
    BY <1>2, RatioOneAssumption
  <2>3. RatioOne * q \in Nat /\ value * RatioOne \in Nat
    BY <1>2, RatioOneAssumption
  <2>4. QED
    BY <1>1, <1>2, <2>1, <2>2, <2>3, RatioOneAssumption DEF p
<1>4. q >= value
  BY <1>2, <1>3
<1>5. ratio * value = value * ratio
  OBVIOUS
<1>6. QED
  BY <1>4, <1>5 DEF MulValue

LEMMA PowRoundType ==
    ASSUME NEW s \in PowStates, s[3] # 0
    PROVE  /\ PowRound(s) \in PowStates
           /\ PowRound(s)[3] = s[3] \div 2 /\ s[3] \div 2 \in Nat /\ s[3] \div 2 < s[3]
           /\ PowRound(s)[2] = MulValue(s[2], s[2])
           /\ PowRound(s)[1] \in {s[1], MulValue(s[1], s[2])}
<1>1. s[1] \in Nat /\ s[2] \in Nat /\ s[3] \in Nat
  BY DEF PowStates
<1>2. MulValue(s[1], s[2]) \in Nat /\ MulValue(s[2], s[2]) \in Nat
  BY <1>1, MulValueIsFloor
<1>3. s[3] \div 2 \in Nat /\ s[3] \div 2 < s[3]
  BY <1>1
<1>4. QED
  BY <1>1, <1>2, <1>3 DEF PowRound, PowStates

\* g computes the power up to the exponent n.
UpTo(n, g) ==
    \A s \in PowStates : s[3] <= n => g[s] = IF s[3] = 0 THEN s[1] ELSE g[PowRound(s)]

\* By a least exponent up to which there is none.
LEMMA UpToExists ==
    ASSUME NEW n \in Nat
    PROVE  \E g : UpTo(n, g)
<1> DEFINE Bad == {k \in Nat : ~ \E g : UpTo(k, g)}
<1>1. SUFFICES ASSUME Bad # {} PROVE FALSE
  OBVIOUS
<1>2. PICK m \in Bad : \A k \in Bad : m <= k
  <2>1. Bad \in SUBSET Nat
    OBVIOUS
  <2> HIDE DEF Bad
  <2>2. QED
    BY <1>1, <2>1, LeastNatural
<1>3. m \in Nat /\ ~ \E g : UpTo(m, g)
  BY <1>2
<1>4. CASE m = 0
  <2> DEFINE g == [s \in PowStates |-> s[1]]
  <2>1. \A s \in PowStates : s[3] \in Nat
    BY DEF PowStates
  <2>2. UpTo(m, g)
    BY <1>4, <2>1 DEF UpTo
  <2> HIDE DEF g
  <2>3. QED
    BY <1>3, <2>2
<1>5. CASE m # 0
  <2>1. m - 1 \in Nat /\ m - 1 \notin Bad
    BY <1>2, <1>3, <1>5
  <2>2. PICK g : UpTo(m - 1, g)
    BY <2>1
  <2> DEFINE h == [s \in PowStates |-> IF s[3] < m THEN g[s] ELSE g[PowRound(s)]]
  <2>3. ASSUME NEW s \in PowStates, s[3] <= m
        PROVE  h[s] = IF s[3] = 0 THEN s[1] ELSE h[PowRound(s)]
    <3>1. s[3] \in Nat
      BY DEF PowStates
    <3>2. CASE s[3] = 0
      <4>1. s[3] <= m - 1 /\ s[3] < m
        BY <1>3, <1>5, <3>2
      <4>2. g[s] = s[1]
        BY <2>2, <3>2, <4>1 DEF UpTo
      <4>3. QED
        BY <3>2, <4>1, <4>2
    <3>3. CASE s[3] # 0
      <4>1. /\ PowRound(s) \in PowStates /\ PowRound(s)[3] \in Nat
            /\ PowRound(s)[3] < s[3] /\ PowRound(s)[3] < m
        BY <1>3, <2>3, <3>1, <3>3, PowRoundType
      <4>2. h[PowRound(s)] = g[PowRound(s)]
        BY <4>1
      <4>3. CASE s[3] < m
        <5>1. s[3] <= m - 1
          BY <1>3, <3>1, <4>3
        <5>2. g[s] = g[PowRound(s)]
          BY <2>2, <3>3, <5>1 DEF UpTo
        <5>3. QED
          BY <3>3, <4>2, <4>3, <5>2
      <4>4. CASE ~(s[3] < m)
        BY <3>3, <4>2, <4>4
      <4>5. QED
        BY <4>3, <4>4
    <3>4. QED
      BY <3>2, <3>3
  <2> HIDE DEF h
  <2>4. UpTo(m, h)
    BY <2>3 DEF UpTo
  <2>5. QED
    BY <1>3, <2>4
<1>6. QED
  BY <1>4, <1>5

LEMMA UpToUnique ==
    ASSUME NEW n \in Nat, NEW m \in Nat, NEW g, NEW h, UpTo(n, g), UpTo(m, h),
           NEW s \in PowStates, s[3] <= n, s[3] <= m
    PROVE  g[s] = h[s]
<1> DEFINE Bad == {k \in Nat : \E t \in PowStates : t[3] = k /\ k <= n /\ k <= m /\ g[t] # h[t]}
<1>1. SUFFICES ASSUME Bad # {} PROVE FALSE
  BY DEF PowStates
<1>2. PICK k \in Bad : \A j \in Bad : k <= j
  <2>1. Bad \in SUBSET Nat
    OBVIOUS
  <2> HIDE DEF Bad
  <2>2. QED
    BY <1>1, <2>1, LeastNatural
<1>3. PICK t \in PowStates : t[3] = k /\ k <= n /\ k <= m /\ g[t] # h[t]
  BY <1>2
<1>4. k # 0
  BY <1>3 DEF UpTo
<1>5. g[t] = g[PowRound(t)] /\ h[t] = h[PowRound(t)]
  BY <1>3, <1>4 DEF UpTo
<1>6. PowRound(t) \in PowStates /\ PowRound(t)[3] \in Nat /\ PowRound(t)[3] < k
  BY <1>3, <1>4, PowRoundType
<1>7. PowRound(t)[3] \in Bad
  BY <1>3, <1>5, <1>6
<1> HIDE DEF Bad
<1>8. QED
  BY <1>2, <1>3, <1>6, <1>7 DEF PowStates

LEMMA PowExists == \E f : IsPow(f)
<1> DEFINE g(n) == CHOOSE h : UpTo(n, h)
           f == [s \in PowStates |-> g(s[3])[s]]
<1>1. \A n \in Nat : UpTo(n, g(n))
  BY UpToExists
<1> HIDE DEF g
<1>2. ASSUME NEW s \in PowStates
      PROVE  f[s] = IF s[3] = 0 THEN s[1] ELSE f[PowRound(s)]
  <2>1. s[3] \in Nat
    BY DEF PowStates
  <2>2. g(s[3])[s] = IF s[3] = 0 THEN s[1] ELSE g(s[3])[PowRound(s)]
    BY <1>1, <2>1 DEF UpTo
  <2>3. CASE s[3] = 0
    BY <2>2, <2>3
  <2>4. CASE s[3] # 0
    <3> DEFINE t == PowRound(s)
    <3>1. t \in PowStates /\ t[3] \in Nat /\ t[3] < s[3]
      BY <2>1, <2>4, PowRoundType
    <3> HIDE DEF t
    <3>2. g(s[3])[t] = g(t[3])[t]
      BY <1>1, <2>1, <3>1, UpToUnique
    <3>3. QED
      BY <2>2, <2>4, <3>1, <3>2 DEF t
  <2>5. QED
    BY <2>3, <2>4
<1>3. f = [s \in PowStates |-> f[s]]
  OBVIOUS
<1> HIDE DEF f
<1>4. f = [s \in PowStates |-> IF s[3] = 0 THEN s[1] ELSE f[PowRound(s)]]
  BY <1>2, <1>3
<1>5. QED
  BY <1>4 DEF IsPow

\* Powers of a base of at least one are natural numbers, and at least one.
LEMMA PowGrows ==
    ASSUME NEW base \in Nat, base >= RatioOne, NEW exponent \in Nat
    PROVE  PowFixed(base, exponent) \in Nat /\ PowFixed(base, exponent) >= RatioOne
<1> DEFINE f == CHOOSE g : IsPow(g)
<1>1. IsPow(f)
  BY PowExists
<1> HIDE DEF f
<1>2. \A s \in PowStates : f[s] = IF s[3] = 0 THEN s[1] ELSE f[PowRound(s)]
  BY <1>1 DEF IsPow
<1> DEFINE Grows(s) == s[2] >= RatioOne => f[s] \in Nat /\ f[s] >= s[1]
           Bad == {k \in Nat : \E s \in PowStates : s[3] = k /\ ~Grows(s)}
<1>3. Bad = {}
  <2>1. SUFFICES ASSUME Bad # {} PROVE FALSE
    OBVIOUS
  <2>2. PICK k \in Bad : \A j \in Bad : k <= j
    <3>1. Bad \in SUBSET Nat
      OBVIOUS
    <3> HIDE DEF Bad
    <3>2. QED
      BY <2>1, <3>1, LeastNatural
  <2>3. PICK s \in PowStates : s[3] = k /\ ~Grows(s)
    BY <2>2
  <2>4. s[1] \in Nat /\ s[2] \in Nat /\ s[3] \in Nat /\ s[2] >= RatioOne
    BY <2>3 DEF PowStates
  <2>5. k # 0
    BY <1>2, <2>3, <2>4
  <2> DEFINE t == PowRound(s)
  <2>6. /\ t \in PowStates /\ t[3] \in Nat /\ t[3] < k
        /\ t[2] = MulValue(s[2], s[2]) /\ t[1] \in {s[1], MulValue(s[1], s[2])}
    BY <2>3, <2>5, PowRoundType
  <2>7. f[s] = f[t]
    BY <1>2, <2>3, <2>5
  <2> HIDE DEF t
  <2>8. t[2] \in Nat /\ t[1] \in Nat /\ t[2] >= RatioOne /\ t[1] >= s[1]
    <3>1. /\ MulValue(s[2], s[2]) \in Nat /\ MulValue(s[2], s[2]) >= s[2]
          /\ MulValue(s[1], s[2]) \in Nat /\ MulValue(s[1], s[2]) >= s[1]
      BY <2>4, GrowthOf, MulValueIsFloor
    <3>2. MulValue(s[2], s[2]) >= RatioOne
      BY <2>4, <3>1, RatioOneAssumption
    <3>3. t[1] \in Nat /\ t[1] >= s[1]
      BY <2>4, <2>6, <3>1
    <3>4. QED
      BY <2>6, <3>1, <3>2, <3>3
  <2>9. ~Grows(t)
    BY <2>3, <2>4, <2>7, <2>8
  <2>10. t[3] \in Bad
    BY <2>6, <2>9
  <2> HIDE DEF Bad
  <2>11. QED
    BY <2>2, <2>3, <2>4, <2>6, <2>10
<1> DEFINE s == <<RatioOne, base, exponent>>
<1>4. s \in PowStates /\ s[1] = RatioOne /\ s[2] = base /\ s[3] = exponent
  BY RatioOneAssumption DEF PowStates
<1> HIDE DEF s
<1>5. Grows(s)
  BY <1>3, <1>4
<1>6. PowFixed(base, exponent) = f[s]
  BY PowUnfold DEF f, s
<1>7. QED
  BY <1>4, <1>5, <1>6

----------------------------------------------------------------------------
(* The rates. *)

\* The index of the borrowers grew, and the rate of the suppliers but in a
\* market without suppliers.
Rises(m, n) ==
    /\ n.borrow_index >= m.borrow_index
    /\ n.exchange_rate >= m.exchange_rate \/ 0 \in {m.total_supplied, n.total_supplied}

LEMMA GrownRises ==
    ASSUME NEW m \in MarketState, NEW p \in Enforced, NEW cash \in Nat, NEW time \in Nat,
           m.last_update <= time
    PROVE  LET grown == Grown(m, p, cash, time)
           IN  /\ {grown.borrow_index, grown.exchange_rate} \subseteq Nat
               /\ grown.borrow_index >= m.borrow_index
               /\ grown.exchange_rate >= m.exchange_rate
<1> DEFINE utilization == Utilization(m.total_debt, m.total_debt + cash)
           annual == BorrowRate(p, utilization)
           supply_annual == MulValue(MulValue(annual, utilization), RatioOne - p.reserve_factor)
           Growth(rate) == PowFixed(RatioOne + rate \div HoursPerYear, HoursElapsed(m, time))
<1>1. utilization \in 0 .. RatioOne
  BY UtilizationBound DEF MarketState
<1> HIDE DEF utilization
<1>2. annual \in Nat /\ utilization \in Nat
  BY <1>1, BorrowRateType, RatioOneAssumption
<1> HIDE DEF annual
<1>3. supply_annual \in Nat
  <2>1. MulValue(annual, utilization) \in Nat
    BY <1>2, MulValueIsFloor
  <2>2. RatioOne - p.reserve_factor \in Nat
    BY RatioOneAssumption DEF Enforced, Params, ValidParams
  <2>3. QED
    BY <2>1, <2>2, MulValueIsFloor
<1> HIDE DEF supply_annual
<1>4. ASSUME NEW rate \in Nat
      PROVE  Growth(rate) \in Nat /\ Growth(rate) >= RatioOne
  <2>1. rate \div HoursPerYear \in Nat
    BY MarketConstants, Quotients
  <2>2. RatioOne + rate \div HoursPerYear \in Nat /\ RatioOne + rate \div HoursPerYear >= RatioOne
    BY <2>1, RatioOneAssumption
  <2>3. HoursElapsed(m, time) \in Nat
    BY HoursHavePassed
  <2>4. QED
    BY <2>2, <2>3, PowGrows
<1>5. m.borrow_index \in Nat /\ m.exchange_rate \in Nat
  BY DEF MarketState
<1>6. /\ Growth(annual) \in Nat /\ Growth(annual) >= RatioOne
      /\ Growth(supply_annual) \in Nat /\ Growth(supply_annual) >= RatioOne
  BY <1>2, <1>3, <1>4
<1>7. Grown(m, p, cash, time) =
        [borrow_index |-> MulValue(m.borrow_index, Growth(annual)),
         exchange_rate |-> MulValue(m.exchange_rate, Growth(supply_annual))]
  BY DEF Grown, annual, supply_annual, utilization
<1> HIDE DEF Growth
<1>8. /\ MulValue(m.borrow_index, Growth(annual)) \in Nat
      /\ MulValue(m.borrow_index, Growth(annual)) >= m.borrow_index
      /\ MulValue(m.exchange_rate, Growth(supply_annual)) \in Nat
      /\ MulValue(m.exchange_rate, Growth(supply_annual)) >= m.exchange_rate
  BY <1>5, <1>6, GrowthOf, MulValueIsFloor
<1>9. QED
  BY <1>7, <1>8

LEMMA CurrentRises ==
    ASSUME LendingInv, NEW a \in Assets, NEW value \in Nat
    PROVE  LET m == Current(a, value)
           IN  /\ m.borrow_index >= markets[a].borrow_index
               /\ m.exchange_rate >= markets[a].exchange_rate
               /\ m.total_supplied = markets[a].total_supplied
<1> DEFINE old == markets[a]
           cash == MarketCash(a) + value
           grown == Grown(old, params[a], cash, now)
           m == Current(a, value)
<1>1. /\ old \in MarketState /\ old.last_update <= now /\ now \in Nat
      /\ params[a] \in Enforced /\ cash \in Nat /\ BooksOK
  BY CashType DEF LendingInv, BooksOK, Sound, TermsOK
<1>2. grown.borrow_index >= old.borrow_index /\ grown.exchange_rate >= old.exchange_rate
  BY <1>1, GrownRises
<1>3. m.total_supplied = old.total_supplied
  BY <1>1, CurrentKeepsTotals DEF SameTotals
<1> DEFINE debt == DebtFace(old.total_scaled_debt, grown.borrow_index)
           reserve == old.reserve_accrued
                      + ReserveShare(debt - old.total_debt,
                          MulValue(SaturatingSub(grown.exchange_rate, old.exchange_rate),
                                   old.total_supplied))
           updated == old.last_update + HoursElapsed(old, now) * TicksPerHour
<1>4. m \in
        {[old EXCEPT !.last_update = now], old,
         [old EXCEPT !.total_debt = debt, !.borrow_index = grown.borrow_index,
                     !.exchange_rate = grown.exchange_rate,
                     !.reserve_accrued = reserve, !.last_update = updated]}
  BY <1>1 DEF Accrued, MarketState, Current
<1> HIDE DEF m, grown, debt, reserve, updated, cash, old
<1>5. m.borrow_index >= old.borrow_index /\ m.exchange_rate >= old.exchange_rate
  <2>1. old.borrow_index \in Nat /\ old.exchange_rate \in Nat
    BY <1>1 DEF MarketState
  <2>2. CASE m = [old EXCEPT !.last_update = now]
    BY <1>1, <2>1, <2>2 DEF MarketState
  <2>3. CASE m = old
    BY <2>1, <2>3
  <2>4. CASE m = [old EXCEPT !.total_debt = debt, !.borrow_index = grown.borrow_index,
                             !.exchange_rate = grown.exchange_rate,
                             !.reserve_accrued = reserve, !.last_update = updated]
    <3>1. m.borrow_index = grown.borrow_index /\ m.exchange_rate = grown.exchange_rate
      BY <1>1, <2>4 DEF MarketState
    <3>2. QED
      BY <1>2, <3>1
  <2>5. QED
    BY <1>4, <2>2, <2>3, <2>4
<1>6. QED
  BY <1>3, <1>5 DEF m, old

\* A step that stores in one market what rose from its accrual.
LEMMA StoreRises ==
    ASSUME LendingInv, NEW a \in Assets, NEW value \in Nat, NEW after,
           Current(a, value) \in MarketState, after.borrow_index \in Nat,
           after.exchange_rate \in Nat,
           Rises(Current(a, value), after), Store(a, after)
    PROVE  \A b \in Assets : Rises(markets[b], markets'[b])
<1> DEFINE m == Current(a, value)
<1>1. /\ m.borrow_index >= markets[a].borrow_index
      /\ m.exchange_rate >= markets[a].exchange_rate
      /\ m.total_supplied = markets[a].total_supplied
  BY CurrentRises
<1>2. markets[a] \in MarketState /\ markets \in [Assets -> MarketState]
  BY DEF LendingInv, BooksOK
<1>3. m.borrow_index \in Nat /\ m.exchange_rate \in Nat
      /\ markets[a].borrow_index \in Nat /\ markets[a].exchange_rate \in Nat
  BY <1>2 DEF MarketState
<1> HIDE DEF m
<1>4. Rises(markets[a], after)
  BY <1>1, <1>3 DEF Rises, m
<1>5. ASSUME NEW b \in Assets PROVE Rises(markets[b], markets'[b])
  <2>1. CASE b = a
    BY <1>2, <1>4, <2>1 DEF Store
  <2>2. CASE b # a
    <3>1. markets'[b] = markets[b] /\ markets[b] \in MarketState
      BY <1>2, <2>2 DEF Store
    <3>2. QED
      BY <3>1 DEF Rises, MarketState
  <2>3. QED
    BY <2>1, <2>2
<1>6. QED
  BY <1>5

LEMMA BookSupplyRises ==
    ASSUME LendingInv, NEW a \in Assets, NEW value \in Nat, CanAccrue(a, value), NEW caller,
           NEW amount \in Nat, BookSupply(a, Current(a, value), caller, amount)
    PROVE  \A b \in Assets : Rises(markets[b], markets'[b])
<1> DEFINE m == Current(a, value)
           minted == LTokensFor(m, amount)
           after == [GenesisRate(m) EXCEPT !.total_supplied = @ + minted]
<1>1. Store(a, after)
  BY DEF BookSupply
<1>2. m \in MarketState
  BY CurrentIsSound DEF LendingInv
<1>3. /\ after.borrow_index = m.borrow_index
      /\ after.exchange_rate = IF m.total_supplied = 0 THEN RatioOne ELSE m.exchange_rate
  <2> HIDE DEF m, minted
  <2>1. QED
    BY <1>2 DEF GenesisRate, MarketState
<1>4. /\ m.borrow_index \in Nat /\ m.exchange_rate \in Nat
      /\ after.borrow_index \in Nat /\ after.exchange_rate \in Nat
  <2> HIDE DEF m, after
  <2>1. QED
    BY <1>2, <1>3, RatioOneAssumption DEF MarketState
<1>5. Rises(m, after)
  <2> HIDE DEF m, after
  <2>1. QED
    BY <1>3, <1>4 DEF Rises
<1> HIDE DEF after
<1>6. QED
  BY <1>1, <1>2, <1>4, <1>5, StoreRises

LEMMA BookWithdrawalRises ==
    ASSUME LendingInv, NEW a \in Assets, NEW caller, NEW ltoken_amount,
           BookWithdrawal(a, Current(a, 0), caller, ltoken_amount)
    PROVE  \A b \in Assets : Rises(markets[b], markets'[b])
<1> DEFINE m == Current(a, 0)
           left == [m EXCEPT !.total_supplied = @ - ltoken_amount]
           after == GenesisRate(left)
<1>1. Store(a, after) /\ CanAccrue(a, 0)
  BY DEF BookWithdrawal
<1>2. m \in MarketState
  BY <1>1, CurrentIsSound DEF LendingInv
<1> HIDE DEF m
<1>3. /\ left.borrow_index = m.borrow_index /\ left.exchange_rate = m.exchange_rate
      /\ DOMAIN left = DOMAIN m
  BY <1>2 DEF MarketState
<1> DEFINE empty == left.total_supplied = 0
<1>4. /\ after.borrow_index = m.borrow_index
      /\ after.exchange_rate = IF empty THEN RatioOne ELSE m.exchange_rate
      /\ after.total_supplied = left.total_supplied
  BY <1>2, <1>3 DEF GenesisRate, MarketState
<1> HIDE DEF left, after
<1>5. /\ m.borrow_index \in Nat /\ m.exchange_rate \in Nat
      /\ after.borrow_index \in Nat /\ after.exchange_rate \in Nat
  BY <1>2, <1>4, RatioOneAssumption DEF MarketState
<1>6. Rises(m, after)
  BY <1>4, <1>5 DEF Rises
<1>7. QED
  BY <1>1, <1>2, <1>5, <1>6, StoreRises DEF m

\* The first hour of a borrow is for the suppliers, too.
LEMMA ChargedRises ==
    ASSUME NEW m \in MarketState, NEW p \in Enforced, NEW premium \in Nat
    PROVE  LET n == PremiumCharged(m, p, premium)
           IN  /\ n.borrow_index = m.borrow_index
               /\ n.exchange_rate \in Nat /\ n.exchange_rate >= m.exchange_rate
               /\ DOMAIN n = DOMAIN m
<1> DEFINE cut == RatioOne - p.reserve_factor
           share == IF m.total_supplied = 0 THEN 0 ELSE MulValue(cut, premium)
           growth == (share * RatioOne) \div m.total_supplied
           rate == IF share = 0 THEN m.exchange_rate ELSE m.exchange_rate + growth
           n == PremiumCharged(m, p, premium)
<1>1. cut \in Nat
  BY RatioOneAssumption DEF Enforced, Params, ValidParams
<1> HIDE DEF cut
<1>2. share \in Nat /\ m.total_supplied \in Nat /\ m.exchange_rate \in Nat
  BY <1>1, MulValueIsFloor DEF MarketState
<1>3. share # 0 => growth \in Nat
  <2>1. ASSUME share # 0 PROVE growth \in Nat
    <3>1. m.total_supplied \in Nat \ {0} /\ share * RatioOne \in Nat
      BY <1>2, <2>1, RatioOneAssumption
    <3>2. QED
      BY <3>1, Quotients
  <2>2. QED
    BY <2>1
<1>4. n = IF premium = 0 THEN m
          ELSE [m EXCEPT !.exchange_rate = IF share = 0 THEN @ ELSE @ + growth,
                         !.reserve_accrued = @ + (premium - share)]
  BY DEF PremiumCharged, cut
<1> HIDE DEF n, share, growth
<1>5. rate \in Nat /\ rate >= m.exchange_rate
  BY <1>2, <1>3
<1>6. /\ n.borrow_index = m.borrow_index
      /\ n.exchange_rate \in {m.exchange_rate, rate}
      /\ DOMAIN n = DOMAIN m
  BY <1>4 DEF MarketState
<1> HIDE DEF rate
<1>7. QED
  BY <1>2, <1>5, <1>6 DEF n

LEMMA BookBorrowRises ==
    ASSUME LendingInv, NEW a \in Assets, NEW caller, NEW amount \in Nat,
           BookBorrow(a, Current(a, 0), caller, amount)
    PROVE  \A b \in Assets : Rises(markets[b], markets'[b])
<1> DEFINE m == Current(a, 0)
           p == params[a]
           premium == Premium(m, p, MarketCash(a), amount)
           charged == PremiumCharged(m, p, premium)
           scaled == m.total_scaled_debt + ScaledBorrowed(m, amount + premium)
           after == WithScaledDebt(charged, scaled)
<1>1. CanAccrue(a, 0) /\ amount \in 0 .. MarketCash(a) /\ Store(a, after)
  BY DEF BookBorrow
<1>2. m \in MarketState /\ p \in Enforced /\ MarketCash(a) \in Nat
  BY <1>1, CurrentIsSound, CashType DEF LendingInv, TermsOK
<1> HIDE DEF m, p
<1>3. premium \in Nat
  BY <1>1, <1>2, PremiumType
<1> HIDE DEF premium
<1>4. /\ charged.borrow_index = m.borrow_index /\ DOMAIN charged = DOMAIN m
      /\ charged.exchange_rate \in Nat /\ charged.exchange_rate >= m.exchange_rate
  BY <1>2, <1>3, ChargedRises
<1> HIDE DEF charged, scaled
<1>5. after.borrow_index = m.borrow_index /\ after.exchange_rate = charged.exchange_rate
  BY <1>2, <1>4 DEF WithScaledDebt, MarketState
<1> HIDE DEF after
<1>6. m.borrow_index \in Nat
  BY <1>2 DEF MarketState
<1>7. Rises(m, after)
  BY <1>4, <1>5, <1>6 DEF Rises
<1>8. QED
  BY <1>1, <1>2, <1>4, <1>5, <1>6, <1>7, StoreRises DEF m

\* A repayment leaves the rates those of the accrual.
LEMMA RetiredRises ==
    ASSUME NEW m \in MarketState, NEW scaled
    PROVE  LET n == Retired(m, scaled)
           IN  /\ n.borrow_index = m.borrow_index /\ n.exchange_rate = m.exchange_rate
               /\ n.borrow_index \in Nat /\ n.exchange_rate \in Nat
               /\ Rises(m, n)
  BY DEF Retired, WithScaledDebt, MarketState, Rises

LEMMA RetiringRises ==
    ASSUME LendingInv, NEW a \in Assets, NEW value \in Nat, CanAccrue(a, value), NEW scaled,
           Store(a, Retired(Current(a, value), scaled))
    PROVE  \A b \in Assets : Rises(markets[b], markets'[b])
<1> DEFINE m == Current(a, value)
           after == Retired(m, scaled)
<1>1. m \in MarketState
  BY CurrentIsSound DEF LendingInv
<1>2. Rises(m, after) /\ after.borrow_index \in Nat /\ after.exchange_rate \in Nat
  <2> HIDE DEF m
  <2>1. QED
    BY <1>1, RetiredRises
<1> HIDE DEF after
<1>3. QED
  BY <1>1, <1>2, StoreRises DEF after

\* A step that only accrues, but for the reserve.
LEMMA AccruingRises ==
    ASSUME LendingInv, NEW a \in Assets, NEW value \in Nat, CanAccrue(a, value), NEW after,
           after.borrow_index = Current(a, value).borrow_index,
           after.exchange_rate = Current(a, value).exchange_rate, Store(a, after)
    PROVE  \A b \in Assets : Rises(markets[b], markets'[b])
<1> DEFINE m == Current(a, value)
<1>1. m \in MarketState
  BY CurrentIsSound DEF LendingInv
<1>2. m.borrow_index \in Nat /\ m.exchange_rate \in Nat
  BY <1>1 DEF MarketState
<1>3. Rises(m, after)
  BY <1>2 DEF Rises
<1>4. QED
  BY <1>1, <1>2, <1>3, StoreRises

LEMMA LiquidateRises ==
    ASSUME LendingInv, NEW liquidator, NEW borrower, NEW received \in Nat,
           Liquidate(liquidator, borrower, received)
    PROVE  \A a \in Assets : Rises(markets[a], markets'[a])
<1> SUFFICES ASSUME NEW a \in Assets PROVE Rises(markets[a], markets'[a])
  OBVIOUS
<1> DEFINE value == IF a = "TAO" THEN received ELSE 0
           m == Current(a, value)
<1>1. /\ markets'[a] = Retired(m, positions[a][borrower].scaled_debt)
      /\ CanAccrue(a, value) /\ value \in Nat
  BY DEF Liquidate, Assets
<1> HIDE DEF value
<1>2. m \in MarketState /\ markets[a] \in MarketState
  BY <1>1, CurrentIsSound DEF LendingInv, BooksOK
<1>3. /\ m.borrow_index >= markets[a].borrow_index
      /\ m.exchange_rate >= markets[a].exchange_rate
  BY <1>1, CurrentRises
<1> HIDE DEF m
<1>4. /\ markets'[a].borrow_index = m.borrow_index
      /\ markets'[a].exchange_rate = m.exchange_rate
  BY <1>1, <1>2, RetiredRises
<1>5. QED
  BY <1>3, <1>4 DEF Rises

LEMMA LendingStepRises ==
    ASSUME LendingInv, LendingStep
    PROVE  \A a \in Assets : Rises(markets[a], markets'[a])
<1> DEFINE Risen == \A a \in Assets : Rises(markets[a], markets'[a])
<1>1. (Amounts \cup Excesses) \subseteq Nat /\ "TAO" \in Assets /\ "TUSDT" \in Assets
      /\ 0 \in Nat
  BY LendingConstants DEF Assets
<1>2. ASSUME NEW user \in Users, NEW amount \in Amounts, SupplyTusdt(user, amount)
      PROVE  Risen
  BY <1>1, <1>2, BookSupplyRises DEF SupplyTusdt
<1>3. ASSUME NEW user \in Users, NEW amount \in Amounts,
             WithdrawTao(user, amount) \/ WithdrawTusdt(user, amount)
      PROVE  Risen
  BY <1>1, <1>3, BookWithdrawalRises DEF WithdrawTao, WithdrawTusdt
<1>4. ASSUME NEW user \in Users, NEW amount \in Amounts, RepayTusdt(user, amount)
      PROVE  Risen
  <2>1. CanAccrue("TUSDT", 0) /\ \E scaled : Store("TUSDT", Retired(Current("TUSDT", 0), scaled))
    BY <1>4 DEF RepayTusdt, BookRepayment
  <2>2. QED
    BY <1>1, <2>1, RetiringRises
<1>5. ASSUME NEW user \in Users, NEW amount \in Amounts, NEW excess \in Excesses,
             SupplyTao(user, amount, amount + excess)
      PROVE  Risen
  <2>1. amount \in Nat /\ amount + excess \in Nat
    BY <1>1
  <2>2. QED
    BY <1>1, <1>5, <2>1, BookSupplyRises DEF SupplyTao
<1>6. ASSUME NEW user \in Users, NEW amount \in Amounts, NEW excess \in Excesses,
             RepayTao(user, amount, amount + excess)
      PROVE  Risen
  <2> DEFINE received == amount + excess
  <2>1. received \in Nat
    BY <1>1
  <2>2. CanAccrue("TAO", received)
        /\ \E scaled : Store("TAO", Retired(Current("TAO", received), scaled))
    BY <1>6 DEF RepayTao, BookRepayment
  <2> HIDE DEF received
  <2>3. QED
    BY <1>1, <2>1, <2>2, RetiringRises
<1>7. ASSUME NEW a \in Assets, NEW user, NEW received \in Nat, RepayNothing(a, user, received)
      PROVE  Risen
  BY <1>7, AccruingRises DEF RepayNothing
<1>8. CASE AccrueMarketInterest
  <2>1. \A a \in Assets : markets'[a] = Current(a, 0)
    BY <1>8 DEF AccrueMarketInterest
  <2>2. QED
    BY <1>1, <2>1, CurrentRises DEF Rises
<1>9. ASSUME NEW a \in Assets, ClaimReserve(a)
      PROVE  Risen
  <2> DEFINE m == Current(a, 0)
             after == [m EXCEPT !.reserve_accrued = @ - Min({m.reserve_accrued, ReserveCash(a)})]
  <2>1. CanAccrue(a, 0) /\ Store(a, after)
    BY <1>9 DEF ClaimReserve
  <2>2. m \in MarketState
    BY <2>1, CurrentIsSound DEF LendingInv
  <2>3. after.borrow_index = m.borrow_index /\ after.exchange_rate = m.exchange_rate
    BY <2>2 DEF MarketState
  <2> HIDE DEF after
  <2>4. QED
    BY <1>1, <2>1, <2>3, AccruingRises
<1>10. CASE Sweep \/ NextBlock
  <2>1. markets' = markets /\ \A a \in Assets : markets[a] \in MarketState
    BY <1>10 DEF Sweep, NextBlock, bookVars, LendingInv, BooksOK
  <2>2. QED
    BY <2>1 DEF Rises, MarketState
<1>11. QED
  BY <1>1, <1>2, <1>3, <1>4, <1>5, <1>6, <1>7, <1>8, <1>9, <1>10 DEF LendingStep

LEMMA PoolNextRises ==
    ASSUME LendingInv, [PoolNext]_poolVars
    PROVE  \A a \in Assets : Rises(markets[a], markets'[a])
<1> DEFINE Risen == \A a \in Assets : Rises(markets[a], markets'[a])
<1>1. /\ Amounts \subseteq Nat /\ Borrowers \subseteq Users
      /\ "TAO" \in Assets /\ "TUSDT" \in Assets /\ 0 \in Nat
      /\ \A a \in Assets : markets[a] \in MarketState
  BY LendingConstants, PoolConstants DEF Assets, LendingInv, BooksOK
<1>2. CASE UNCHANGED markets
  BY <1>1, <1>2 DEF Rises, MarketState
<1>3. CASE AdminStep
  <2>1. ASSUME NEW caller, NEW amount,
               ClaimSurplusTusdt(caller, amount) \/ TransferNativeToTreasury(caller)
        PROVE  Risen
    BY <1>1, <2>1, AccruingRises DEF ClaimSurplusTusdt, TransferNativeToTreasury
  <2>2. ASSUME NEW caller, NEW a, NEW new_params, NEW hotkey, NEW config,
               \/ SetMarketParams(caller, a, new_params) \/ CancelMarketParamsUpdate(caller, a)
               \/ ExecuteMarketParamsUpdate(a) \/ SetRootStakeConfig(caller, hotkey, config)
               \/ Pause(caller) \/ Unpause(caller)
        PROVE  Risen
    BY <1>2, <2>2 DEF SetMarketParams, CancelMarketParamsUpdate, ExecuteMarketParamsUpdate,
                      SetRootStakeConfig, Pause, Unpause, bookVars
  <2>3. QED
    BY <1>3, <2>1, <2>2 DEF AdminStep
<1>4. CASE BorrowerStep
  <2>1. ASSUME NEW user \in Borrowers, NEW netuid \in Netuids, NEW amount \in AlphaAmounts,
               DepositAlpha(user, netuid, amount) \/ WithdrawAlpha(user, netuid, amount)
        PROVE  Risen
    BY <1>2, <2>1 DEF DepositAlpha, WithdrawAlpha, lendingVars, bookVars
  <2>2. ASSUME NEW user \in Borrowers, NEW amount \in Amounts,
               BorrowTao(user, amount) \/ BorrowTusdt(user, amount)
        PROVE  Risen
    BY <1>1, <2>2, BookBorrowRises DEF BorrowTao, BorrowTusdt
  <2>3. QED
    BY <1>4, <2>1, <2>2 DEF BorrowerStep
<1>5. CASE LiquidatorStep
  <2>1. PICK liquidator \in Users, borrower \in Borrowers :
            \E received \in 0 .. wallets["TAO"][liquidator] :
                Liquidate(liquidator, borrower, received)
    BY <1>5 DEF LiquidatorStep
  <2>2. PICK received \in 0 .. wallets["TAO"][liquidator] :
            Liquidate(liquidator, borrower, received)
    BY <2>1
  <2>3. received \in Nat
    OBVIOUS
  <2>4. QED
    BY <2>2, <2>3, LiquidateRises
<1>6. CASE SubnetStep \/ PricesMove \/ TimePasses
  BY <1>2, <1>6, SubnetStepKeepsBooks DEF PricesMove, TimePasses, Tick, lendingVars, bookVars
<1>7. CASE UNCHANGED poolVars
  BY <1>2, <1>7 DEF poolVars, lendingVars, bookVars
<1>8. QED
  BY <1>3, <1>4, <1>5, <1>6, <1>7, LendingStepRises DEF PoolNext

\* No message of anybody lowers the index that debts are charged by, nor, while
\* there are suppliers, the rate that they are paid by: neither the rounding of
\* the powers nor any of the messages between two accruals takes interest back.
THEOREM PoolRatesNeverFall == PoolSpec => RatesNeverFall
<1> DEFINE Risen == \A a \in Assets :
                      /\ markets'[a].borrow_index >= markets[a].borrow_index
                      /\ \/ markets'[a].exchange_rate >= markets[a].exchange_rate
                         \/ 0 \in {markets[a].total_supplied, markets'[a].total_supplied}
<1>1. LendingInv /\ [PoolNext]_poolVars => [Risen]_lendingVars
  BY PoolNextRises DEF Rises
<1>2. PoolSpec => [][Risen]_lendingVars
  BY <1>1, LendingInvariance, PTL DEF PoolSpec
<1>3. RatesNeverFall <=> [][Risen]_lendingVars
  BY PTL DEF RatesNeverFall
<1>4. QED
  BY <1>2, <1>3

\* A higher index never makes a debt smaller.
LEMMA FaceMonotone ==
    ASSUME NEW scaled \in Nat, NEW low \in Nat, NEW high \in Nat, low <= high
    PROVE  DebtFace(scaled, low) <= DebtFace(scaled, high)
<1> DEFINE f == MulValue(low, scaled)
           g == MulValue(high, scaled)
<1>1. /\ f \in Nat /\ g \in Nat
      /\ RatioOne * f <= low * scaled /\ high * scaled < RatioOne * g + RatioOne
  BY MulValueIsFloor
<1>2. low * scaled <= high * scaled /\ low * scaled \in Nat /\ high * scaled \in Nat
  BY Products
<1> HIDE DEF f, g
<1>3. ASSUME g + 1 <= f PROVE FALSE
  <2>1. RatioOne * (g + 1) <= RatioOne * f
    BY <1>1, <1>3, RatioOneAssumption, Products
  <2>2. RatioOne * (g + 1) = RatioOne * g + RatioOne /\ RatioOne * g \in Nat /\ RatioOne * f \in Nat
    BY <1>1, RatioOneAssumption
  <2>3. QED
    BY <1>1, <1>2, <2>1, <2>2, RatioOneAssumption
<1>4. QED
  BY <1>1, <1>3 DEF DebtFace, f, g

LEMMA OnlyOverflowFails ==
    ASSUME LendingInv, NEW a \in Assets, NEW value \in Nat,
           LET grown == Grown(markets[a], params[a], MarketCash(a) + value, now)
           IN  grown.borrow_index <= MaxRatio /\ grown.exchange_rate <= MaxRatio
    PROVE  CanAccrue(a, value)
<1> DEFINE m == markets[a]
           cash == MarketCash(a) + value
           grown == Grown(m, params[a], cash, now)
<1>1. /\ m \in MarketState /\ m.last_update <= now /\ now \in Nat
      /\ m.total_debt = DebtFace(m.total_scaled_debt, m.borrow_index)
      /\ params[a] \in Enforced /\ cash \in Nat
  BY CashType DEF LendingInv, BooksOK, Sound, TermsOK
<1>2. grown.borrow_index >= m.borrow_index /\ grown.exchange_rate >= m.exchange_rate
      /\ grown.borrow_index \in Nat /\ grown.exchange_rate \in Nat
  BY <1>1, GrownRises
<1>3. grown.borrow_index <= MaxRatio /\ grown.exchange_rate <= MaxRatio
  OBVIOUS
<1>4. /\ m.borrow_index \in Nat \ {0} /\ m.exchange_rate \in Nat \ {0}
      /\ m.total_scaled_debt \in Nat
  BY <1>1 DEF MarketState
<1> HIDE DEF m, cash, grown
<1>5. {grown.borrow_index, grown.exchange_rate} \subseteq 1 .. MaxRatio
  BY <1>2, <1>3, <1>4, MarketConstants
<1>6. DebtFace(m.total_scaled_debt, grown.borrow_index) >= m.total_debt
  <2> DEFINE low == DebtFace(m.total_scaled_debt, m.borrow_index)
             high == DebtFace(m.total_scaled_debt, grown.borrow_index)
  <2>1. low <= high
    BY <1>2, <1>4, FaceMonotone
  <2>2. low \in Nat /\ high \in Nat
    BY <1>2, <1>4, MulValueIsFloor DEF DebtFace
  <2> HIDE DEF low, high
  <2>3. QED
    BY <1>1, <2>1, <2>2 DEF low, high
<1>7. QED
  BY <1>5, <1>6 DEF CanAccrue, AccrualSucceeds, m, cash, grown

\* The error of an accrual that finds less debt than before is never met: an
\* accrual fails only when a rate no longer fits its type.
THEOREM PoolAccrualFailsOnlyByOverflow ==
    PoolSpec => [](\A a \in Assets, value \in Values :
                      LET grown == Grown(markets[a], params[a], MarketCash(a) + value, now)
                      IN  grown.borrow_index <= MaxRatio /\ grown.exchange_rate <= MaxRatio
                            => CanAccrue(a, value))
<1>1. Values \subseteq Nat
  BY LendingConstants DEF Values
<1>2. LendingInv =>
        \A a \in Assets, value \in Values :
          LET grown == Grown(markets[a], params[a], MarketCash(a) + value, now)
          IN  grown.borrow_index <= MaxRatio /\ grown.exchange_rate <= MaxRatio
                => CanAccrue(a, value)
  BY <1>1, OnlyOverflowFails
<1>3. QED
  BY <1>2, LendingInvariance, PTL

\* The rates to which every accrual that is possible now would lead fit their type.
RatesFit ==
    \A a \in Assets, value \in Values :
        LET grown == Grown(markets[a], params[a], MarketCash(a) + value, now)
        IN  grown.borrow_index <= MaxRatio /\ grown.exchange_rate <= MaxRatio

\* As long as rates fit their type no accrual fails, and so none blocks a message
\* (AccrualNeverFails): nothing else in the books of a market can make it.
THEOREM PoolAccrualNeverFails == PoolSpec => [](RatesFit => AccrualNeverFails)
<1>1. LendingInv => (RatesFit => AccrualNeverFails)
  <2>1. Values \subseteq Nat
    BY LendingConstants DEF Values
  <2>2. QED
    BY <2>1, OnlyOverflowFails DEF RatesFit, AccrualNeverFails
<1>2. QED
  BY <1>1, LendingInvariance, PTL

\* What the suppliers get of an accrual from m to n.
SupplyInterest(m, n) == MulValue(n.exchange_rate - m.exchange_rate, m.total_supplied)

\* What of it the borrowers are not charged.
Uncharged(m, n) == SaturatingSub(SupplyInterest(m, n), n.total_debt - m.total_debt)

\* The products of a margin, and what two floors lose of them.
LEMMA FloorsLoseTwoUnits ==
    ASSUME NEW scaled \in Nat, NEW i \in Nat, NEW j \in Nat,
           NEW supplied \in Nat, NEW e \in Nat, NEW f \in Nat, e <= f
    PROVE  LET charged == DebtFace(scaled, j) - DebtFace(scaled, i)
               paid == MulValue(f - e, supplied)
           IN  /\ charged \in Int /\ paid \in Nat
               /\ j * scaled - i * scaled - (f * supplied - e * supplied)
                    > (charged - paid) * RatioOne - 2 * RatioOne
<1> DEFINE new == DebtFace(scaled, j)
           old == DebtFace(scaled, i)
           paid == MulValue(f - e, supplied)
<1>1. f - e \in Nat
  OBVIOUS
<1>2. /\ new \in Nat /\ old \in Nat /\ paid \in Nat
      /\ RatioOne * new <= j * scaled /\ j * scaled < RatioOne * new + RatioOne
      /\ RatioOne * old <= i * scaled
      /\ (f - e) * supplied < RatioOne * paid + RatioOne
  BY <1>1, MulValueIsFloor DEF DebtFace
<1>3. (f - e) * supplied = f * supplied - e * supplied
  OBVIOUS
<1>4. i * scaled < RatioOne * old + RatioOne
  BY MulValueIsFloor DEF DebtFace
<1> HIDE DEF new, old, paid
<1>5. (new - old - paid) * RatioOne = RatioOne * new - RatioOne * old - RatioOne * paid
  BY <1>2, RatioOneAssumption
<1>6. /\ j * scaled \in Nat /\ i * scaled \in Nat /\ f * supplied \in Nat /\ e * supplied \in Nat
      /\ RatioOne * new \in Nat /\ RatioOne * old \in Nat /\ RatioOne * paid \in Nat
      /\ (new - old - paid) * RatioOne \in Int
  BY <1>2, RatioOneAssumption
<1>7. j * scaled - i * scaled - (f * supplied - e * supplied)
        > (new - old - paid) * RatioOne - 2 * RatioOne
  <2>1. j * scaled - i * scaled > RatioOne * new - RatioOne * old - RatioOne
    BY <1>2, <1>4, <1>6, RatioOneAssumption
  <2>2. f * supplied - e * supplied < RatioOne * paid + RatioOne
    BY <1>2, <1>3
  <2>3. QED
    BY <1>5, <1>6, <2>1, <2>2, RatioOneAssumption
<1>8. QED
  BY <1>2, <1>7 DEF new, old, paid

LEMMA InterestIsShared ==
    ASSUME LendingInv, NEW a \in Assets, NEW value \in Nat, CanAccrue(a, value)
    PROVE  Margin(Current(a, value), MarketCash(a))
             > Margin(markets[a], MarketCash(a))
               - (2 + Uncharged(markets[a], Current(a, value))) * RatioOne
<1> DEFINE old == markets[a]
           cash == MarketCash(a)
           grown == Grown(old, params[a], cash + value, now)
           m == Current(a, value)
           paid == SupplyInterest(old, m)
           charged == m.total_debt - old.total_debt
           short == Uncharged(old, m)
<1>1. /\ old \in MarketState /\ m \in MarketState /\ cash \in Nat
      /\ old.total_debt = DebtFace(old.total_scaled_debt, old.borrow_index)
      /\ m.total_debt = DebtFace(m.total_scaled_debt, m.borrow_index)
      /\ old.exchange_rate <= m.exchange_rate
      /\ m.total_supplied = old.total_supplied
      /\ m.total_scaled_debt = old.total_scaled_debt
  BY CashType, CurrentIsSound, CurrentRises, CurrentKeepsTotals
     DEF LendingInv, BooksOK, Sound, SameTotals
<1>2. /\ charged \in Int /\ paid \in Nat /\ short \in Nat
      /\ short = SaturatingSub(paid, charged)
      /\ SaturatingSub(charged, paid) = charged - paid + short
  <2>1. m.exchange_rate - old.exchange_rate \in Nat /\ old.total_supplied \in Nat
    BY <1>1 DEF MarketState
  <2>2. paid \in Nat
    BY <2>1, MulValueIsFloor DEF SupplyInterest
  <2>3. charged \in Int
    BY <1>1 DEF MarketState
  <2>4. short = SaturatingSub(paid, charged)
    BY DEF Uncharged
  <2> HIDE DEF charged, paid, short
  <2>5. QED
    BY <2>2, <2>3, <2>4 DEF SaturatingSub
<1>3. m.reserve_accrued = old.reserve_accrued + (charged - paid + short) \/ Margin(m, cash) = Margin(old, cash)
  <2>1. CASE old.total_scaled_debt = 0 \/ HoursElapsed(old, now) = 0
    <3>1. m \in {old, [old EXCEPT !.last_update = now]}
      BY <2>1 DEF Current, Accrued
    <3>2. QED
      <4> HIDE DEF m, old
      <4>1. QED
        BY <1>1, <3>1 DEF Margin, MarketState
  <2>2. CASE ~(old.total_scaled_debt = 0 \/ HoursElapsed(old, now) = 0)
    <3> DEFINE debt == DebtFace(old.total_scaled_debt, grown.borrow_index)
               growth == SaturatingSub(grown.exchange_rate, old.exchange_rate)
               share == ReserveShare(debt - old.total_debt, MulValue(growth, old.total_supplied))
    <3>1. m = [old EXCEPT !.total_debt = debt, !.borrow_index = grown.borrow_index,
                          !.exchange_rate = grown.exchange_rate,
                          !.reserve_accrued = @ + share,
                          !.last_update = @ + HoursElapsed(old, now) * TicksPerHour]
      BY <2>2 DEF Current, Accrued
    <3> HIDE DEF m, grown, debt, share, old
    <3>2. /\ m.total_debt = debt /\ m.exchange_rate = grown.exchange_rate
          /\ m.reserve_accrued = old.reserve_accrued + share
      BY <1>1, <3>1 DEF MarketState
    <3>3. growth = m.exchange_rate - old.exchange_rate
      <4>1. m.exchange_rate \in Nat /\ old.exchange_rate \in Nat
        BY <1>1 DEF MarketState
      <4>2. QED
        BY <1>1, <3>2, <4>1 DEF SaturatingSub
    <3>4. share = SaturatingSub(charged, paid)
      BY <3>2, <3>3 DEF share, ReserveShare, SupplyInterest
    <3>5. QED
      BY <1>2, <3>2, <3>4
  <2>3. QED
    BY <2>1, <2>2
<1> HIDE DEF m, old, cash
<1> DEFINE scaled == old.total_scaled_debt
           supplied == old.total_supplied
           i == old.borrow_index
           j == m.borrow_index
           e == old.exchange_rate
           f == m.exchange_rate
<1>4. /\ scaled \in Nat /\ supplied \in Nat /\ i \in Nat /\ j \in Nat /\ e \in Nat /\ f \in Nat
      /\ old.reserve_accrued \in Nat /\ m.reserve_accrued \in Nat /\ e <= f
  BY <1>1 DEF MarketState
<1>5. charged = DebtFace(scaled, j) - DebtFace(scaled, i) /\ paid = MulValue(f - e, supplied)
  BY <1>1 DEF SupplyInterest
<1>6. /\ Margin(old, cash) = (cash - old.reserve_accrued) * RatioOne + i * scaled - e * supplied
      /\ Margin(m, cash) = (cash - m.reserve_accrued) * RatioOne + j * scaled - f * supplied
  BY <1>1 DEF Margin
<1> HIDE DEF charged, paid, scaled, supplied, i, j, e, f
<1>7. /\ charged \in Int /\ paid \in Nat
      /\ j * scaled - i * scaled - (f * supplied - e * supplied)
           > (charged - paid) * RatioOne - 2 * RatioOne
  BY <1>4, <1>5, FloorsLoseTwoUnits
<1>8. Margin(old, cash) \in Int
  BY <1>1, MarginType
<1> HIDE DEF short
<1> DEFINE loss == (2 + short) * RatioOne
<1>9. loss = 2 * RatioOne + short * RatioOne /\ short * RatioOne \in Nat /\ loss > 0
  BY <1>2, RatioOneAssumption, Products
<1>10. Margin(m, cash) > Margin(old, cash) - loss
  <2> HIDE DEF loss
  <2>1. CASE Margin(m, cash) = Margin(old, cash)
    BY <1>8, <1>9, <2>1, RatioOneAssumption
  <2>2. CASE m.reserve_accrued = old.reserve_accrued + (charged - paid + short)
    <3> DEFINE kept == (cash - old.reserve_accrued) * RatioOne
               given == (charged - paid) * RatioOne
               missing == short * RatioOne
    <3>1. (cash - m.reserve_accrued) * RatioOne = kept - given - missing
      BY <1>1, <1>2, <1>4, <1>7, <2>2, RatioOneAssumption
    <3>2. /\ kept \in Int /\ given \in Int /\ j * scaled \in Int /\ i * scaled \in Int
          /\ f * supplied \in Int /\ e * supplied \in Int
      BY <1>1, <1>4, <1>7, RatioOneAssumption
    <3>3. /\ j * scaled - i * scaled - (f * supplied - e * supplied) > given - 2 * RatioOne
          /\ loss = 2 * RatioOne + missing /\ missing \in Nat
      BY <1>7, <1>9
    <3> HIDE DEF kept, given, missing
    <3>4. QED
      BY <1>6, <3>1, <3>2, <3>3, RatioOneAssumption DEF kept
  <2>3. QED
    BY <1>3, <2>1, <2>2
<1>11. QED
  BY <1>10 DEF m, old, cash, short

\* However much a market holds and whatever the rates, an accrual costs the pool
\* less than two units beyond what the suppliers get and the borrowers are not
\* charged: the reserve takes no more than the difference, and two floors are lost
\* (accrue_interest, rates.rs).
THEOREM PoolInterestIsShared ==
    PoolSpec => [](\A a \in Assets, value \in Values :
                      CanAccrue(a, value) =>
                         Margin(Current(a, value), MarketCash(a))
                           > Margin(markets[a], MarketCash(a))
                             - (2 + Uncharged(markets[a], Current(a, value))) * RatioOne)
<1>1. Values \subseteq Nat
  BY LendingConstants DEF Values
<1>2. LendingInv =>
        \A a \in Assets, value \in Values :
          CanAccrue(a, value) =>
             Margin(Current(a, value), MarketCash(a))
               > Margin(markets[a], MarketCash(a))
                 - (2 + Uncharged(markets[a], Current(a, value))) * RatioOne
  BY <1>1, InterestIsShared
<1>3. QED
  BY <1>2, LendingInvariance, PTL

----------------------------------------------------------------------------
(* What a borrower may owe. *)

\* A finite set of numbers has a greatest and a least.
LEMMA MaxIsIn ==
    ASSUME NEW T \in SUBSET Nat, IsFiniteSet(T), T # {}
    PROVE  Max(T) \in T
<1> DEFINE Bounded == {U \in SUBSET T : U # {} => \E x \in U : \A y \in U : y <= x}
<1>1. ASSUME NEW U \in SUBSET T, U # {}, \A x \in U : U \ {x} \in Bounded PROVE U \in Bounded
  <2>1. PICK x \in U : TRUE
    BY <1>1
  <2>2. CASE U \ {x} = {}
    BY <2>1, <2>2
  <2>3. CASE U \ {x} # {}
    <3>1. PICK z \in U \ {x} : \A y \in U \ {x} : y <= z
      BY <1>1, <2>1, <2>3
    <3>2. x \in Nat /\ z \in Nat
      BY <2>1, <3>1
    <3>3. CASE z <= x
      <4>1. \A y \in U : y \in Nat /\ y <= x
        BY <3>1, <3>2, <3>3
      <4>2. QED
        BY <2>1, <4>1
    <3>4. CASE x <= z
      BY <3>1, <3>4
    <3>5. QED
      BY <3>2, <3>3, <3>4
  <2>4. QED
    BY <2>2, <2>3
<1>2. SUBSET T \subseteq Bounded
  <2>1. {} \in Bounded
    OBVIOUS
  <2> HIDE DEF Bounded
  <2>2. QED
    BY <1>1, <2>1, SubsetInduction
<1>3. \E x \in T : \A y \in T : y <= x
  BY <1>2
<1>4. QED
  BY <1>3 DEF Max

LEMMA MinIsIn ==
    ASSUME NEW T \in SUBSET Nat, T # {}
    PROVE  Min(T) \in T
<1>1. \E x \in T : \A y \in T : x <= y
  BY LeastNatural
<1>2. QED
  BY <1>1 DEF Min

\* What is left is worth a number, and has a threshold; if it is worth
\* anything it has a factor.
LEMMA RiskTypes ==
    ASSUME PoolInv, NEW left \in [Netuids -> Nat]
    PROVE  /\ Worth(left) \in Nat /\ MaxThreshold(left) \in Nat
           /\ Worth(left) > 0 => MinFactor(left) \in Nat
<1> DEFINE worth == [n \in Netuids |-> MulValue(CollateralPrice(n), left[n])]
           some == {n \in Netuids : left[n] > 0}
           thresholds == {alpha_params[n].liquidation_threshold : n \in some}
           factors == {alpha_params[n].collateral_factor : n \in some}
<1>1. /\ AlphaTermsOK /\ PricesOK /\ IsFiniteSet(Netuids)
  BY PoolConstants DEF PoolInv
<1>2. worth \in [Netuids -> Nat] /\ worth \in [Netuids -> Int]
  <2>1. \A n \in Netuids : CollateralPrice(n) \in Nat
    BY <1>1, MulValueIsFloor DEF PricesOK, CollateralPrice
  <2>2. \A n \in Netuids : MulValue(CollateralPrice(n), left[n]) \in Nat
    BY <2>1, MulValueIsFloor
  <2>3. QED
    BY <2>2
<1>3. Worth(left) = SumFunction(worth)
  BY DEF Worth
<1>4. Worth(left) \in Nat
  BY <1>1, <1>2, <1>3, SumNat
<1>5. thresholds \subseteq Nat /\ factors \subseteq Nat
  BY <1>1 DEF AlphaTermsOK, EnforcedAlpha, AlphaParams
<1>6. MaxThreshold(left) \in Nat
  <2>1. CASE thresholds = {}
    <3>1. MaxThreshold(left) = (60 * RatioOne) \div 100
      BY <2>1 DEF MaxThreshold
    <3>2. QED
      BY <3>1, RatioOneAssumption
  <2>2. CASE thresholds # {}
    <3>1. IsFiniteSet(some)
      BY <1>1, FS_Subset
    <3>2. IsFiniteSet(thresholds)
      <4> DEFINE threshold == [n \in some |-> alpha_params[n].liquidation_threshold]
      <4>1. threshold \in Surjection(some, thresholds)
        BY DEF Surjection
      <4> HIDE DEF threshold
      <4>2. QED
        BY <3>1, <4>1, FS_Surjection
    <3>3. Max(thresholds) \in thresholds
      BY <1>5, <2>2, <3>2, MaxIsIn
    <3>4. MaxThreshold(left) = Max(thresholds)
      BY <2>2 DEF MaxThreshold
    <3>5. QED
      BY <1>5, <3>3, <3>4
  <2>3. QED
    BY <2>1, <2>2
<1>7. ASSUME Worth(left) > 0 PROVE MinFactor(left) \in Nat
  <2>1. some # {}
    <3>1. SUFFICES ASSUME some = {} PROVE FALSE
      OBVIOUS
    <3>2. \A n \in Netuids : left[n] = 0
      BY <3>1
    <3>3. \A n \in Netuids : CollateralPrice(n) \in Nat
      BY <1>1, MulValueIsFloor DEF PricesOK, CollateralPrice
    <3>4. \A n \in Netuids : worth[n] = 0
      <4>1. ASSUME NEW x \in Nat PROVE MulValue(x, 0) = 0
        BY RatioOneAssumption DEF MulValue
      <4>2. QED
        BY <3>2, <3>3, <4>1
    <3>5. SumFunction(worth) = 0
      BY <1>1, <1>2, <3>4, SumOfZeros
    <3>6. QED
      BY <1>3, <1>7, <3>5
  <2>2. factors # {}
    BY <2>1
  <2>3. Min(factors) \in Nat
    BY <1>5, <2>2, MinIsIn
  <2>4. QED
    BY <2>3 DEF MinFactor
<1>8. QED
  BY <1>4, <1>6, <1>7

\* A unit of scaled debt, rounded up.
UnitOf(index) == (index + (RatioOne - 1)) \div RatioOne

\* A borrow adds to the face of a debt what it books and at most a unit.
LEMMA BorrowedFace ==
    ASSUME NEW index \in Nat \ {0}, NEW scaled \in Nat, NEW booked \in Nat,
           NEW more, more = DivValueCeil(index, booked)
    PROVE  /\ more \in Nat /\ UnitOf(index) \in Nat
           /\ DebtFace(scaled + more, index) \in Nat /\ DebtFace(scaled, index) \in Nat
           /\ DebtFace(scaled + more, index) <= DebtFace(scaled, index) + booked + UnitOf(index)
<1> DEFINE unit == UnitOf(index)
           old == DebtFace(scaled, index)
           new == DebtFace(scaled + more, index)
<1>1. more \in Nat /\ index * more < booked * RatioOne + index
  BY DivValueCeilIsAbove
<1>2. unit \in Nat /\ index <= RatioOne * unit
  <2> DEFINE x == index + (RatioOne - 1)
  <2>1. x \in Nat /\ RatioOne \in Nat \ {0}
    BY RatioOneAssumption
  <2>2. x \div RatioOne \in Nat /\ x < RatioOne * (x \div RatioOne) + RatioOne
    <3> HIDE DEF x
    <3> QED
      BY <2>1, Quotients
  <2>3. unit = x \div RatioOne
    BY DEF UnitOf
  <2> HIDE DEF unit
  <2>4. unit \in Nat /\ x < RatioOne * unit + RatioOne
    BY <2>2, <2>3
  <2>5. RatioOne * unit \in Nat
    BY <2>1, <2>4
  <2>6. QED
    BY <2>1, <2>4, <2>5
<1>3. /\ old \in Nat /\ index * scaled < RatioOne * old + RatioOne
      /\ new \in Nat /\ RatioOne * new <= index * (scaled + more)
  <2>1. index \in Nat /\ scaled + more \in Nat
    BY <1>1
  <2>2. QED
    BY <2>1, MulValueIsFloor DEF DebtFace
<1>4. index * (scaled + more) = index * scaled + index * more
  BY <1>1
<1> HIDE DEF unit, old, new
<1>5. /\ index * scaled \in Nat /\ index * more \in Nat /\ RatioOne * old \in Nat
      /\ RatioOne * new \in Nat /\ RatioOne * unit \in Nat /\ booked * RatioOne \in Nat
  BY <1>1, <1>2, <1>3, RatioOneAssumption
<1>6. RatioOne * new < RatioOne * old + RatioOne + booked * RatioOne + RatioOne * unit
  BY <1>1, <1>2, <1>3, <1>4, <1>5, RatioOneAssumption
<1>7. RatioOne * (old + 1 + booked + unit)
        = RatioOne * old + RatioOne + booked * RatioOne + RatioOne * unit
  BY <1>2, <1>3, RatioOneAssumption
<1>8. new < old + 1 + booked + unit
  <2> DEFINE y == old + 1 + booked + unit
  <2>1. y \in Nat
    BY <1>2, <1>3
  <2>2. RatioOne * new < RatioOne * y
    BY <1>6, <1>7
  <2> HIDE DEF y
  <2>3. SUFFICES ASSUME y <= new PROVE FALSE
    BY <1>3, <2>1 DEF y
  <2>4. RatioOne * y <= RatioOne * new /\ RatioOne * y \in Nat
    BY <1>3, <2>1, <2>3, RatioOneAssumption, Products
  <2>5. QED
    BY <1>5, <2>2, <2>4
<1>9. QED
  BY <1>1, <1>2, <1>3, <1>8 DEF unit, old, new

LEMMA MulValueMonotone ==
    ASSUME NEW ratio \in Nat, NEW x \in Nat, NEW y \in Nat, x <= y
    PROVE  MulValue(ratio, x) <= MulValue(ratio, y)
<1> DEFINE p == MulValue(ratio, x)
           q == MulValue(ratio, y)
<1>1. /\ p \in Nat /\ q \in Nat /\ RatioOne * p <= ratio * x
      /\ ratio * y < RatioOne * q + RatioOne
  BY MulValueIsFloor
<1>2. ratio * x <= ratio * y /\ ratio * x \in Nat /\ ratio * y \in Nat
  BY Products
<1> HIDE DEF p, q
<1>3. RatioOne * p < RatioOne * (q + 1) /\ RatioOne * (q + 1) = RatioOne * q + RatioOne
  <2>1. RatioOne * p \in Nat /\ RatioOne * q \in Nat /\ RatioOne * (q + 1) = RatioOne * q + RatioOne
    BY <1>1, RatioOneAssumption
  <2>2. QED
    BY <1>1, <1>2, <2>1, RatioOneAssumption
<1>4. SUFFICES ASSUME q + 1 <= p PROVE FALSE
  BY <1>1 DEF p, q
<1>5. RatioOne * (q + 1) <= RatioOne * p /\ RatioOne * p \in Nat /\ RatioOne * (q + 1) \in Nat
  BY <1>1, <1>4, RatioOneAssumption, Products
<1>6. QED
  BY <1>3, <1>5

\* The value of a sum is at most that of its three terms and two units.
LEMMA MulValueOfSum ==
    ASSUME NEW ratio \in Nat, NEW x \in Nat, NEW y \in Nat, NEW z \in Nat
    PROVE  MulValue(ratio, x + y + z)
             <= MulValue(ratio, x) + MulValue(ratio, y) + MulValue(ratio, z) + 2
<1> DEFINE p == MulValue(ratio, x)
           q == MulValue(ratio, y)
           r == MulValue(ratio, z)
           s == MulValue(ratio, x + y + z)
<1>1. /\ p \in Nat /\ ratio * x < RatioOne * p + RatioOne
      /\ q \in Nat /\ ratio * y < RatioOne * q + RatioOne
      /\ r \in Nat /\ ratio * z < RatioOne * r + RatioOne
  BY MulValueIsFloor
<1>2. s \in Nat /\ RatioOne * s <= ratio * (x + y + z)
  BY MulValueIsFloor
<1>3. /\ ratio * (x + y + z) = ratio * x + ratio * y + ratio * z
      /\ ratio * x \in Nat /\ ratio * y \in Nat /\ ratio * z \in Nat
  OBVIOUS
<1> HIDE DEF p, q, r, s
<1>4. /\ RatioOne * (p + q + r + 3) = RatioOne * p + RatioOne * q + RatioOne * r + 3 * RatioOne
      /\ RatioOne * p \in Nat /\ RatioOne * q \in Nat /\ RatioOne * r \in Nat /\ RatioOne * s \in Nat
  BY <1>1, <1>2, RatioOneAssumption
<1>5. RatioOne * s < RatioOne * (p + q + r + 3)
  BY <1>1, <1>2, <1>3, <1>4, RatioOneAssumption
<1>6. SUFFICES ASSUME p + q + r + 3 <= s PROVE FALSE
  BY <1>1, <1>2 DEF p, q, r, s
<1>7. RatioOne * (p + q + r + 3) <= RatioOne * s /\ RatioOne * (p + q + r + 3) \in Nat
  BY <1>1, <1>2, <1>6, RatioOneAssumption, Products
<1>8. QED
  BY <1>4, <1>5, <1>7

\* A debt within the value at the threshold cannot be liquidated.
LEMMA WithinThreshold ==
    ASSUME NEW left, NEW debt \in Nat,
           MulValue(MaxThreshold(left), Worth(left)) \in Nat,
           debt <= MulValue(MaxThreshold(left), Worth(left))
    PROVE  ~AtRisk(left, debt)
<1> DEFINE most == MulValue(MaxThreshold(left), Worth(left))
<1>1. SUFFICES ASSUME debt > 0 PROVE ~(HealthFactor(left, debt) < RatioOne)
  BY DEF AtRisk
<1>2. HealthFactor(left, debt) = (most * RatioOne) \div debt
  BY DEF HealthFactor
<1> HIDE DEF most
<1>3. most \in Nat /\ debt <= most /\ debt \in Nat \ {0} /\ RatioOne \in Nat \ {0}
  BY <1>1, RatioOneAssumption DEF most
<1> DEFINE scaled == most * RatioOne
           quotient == scaled \div debt
<1>4. debt * RatioOne <= scaled /\ scaled \in Nat /\ debt * RatioOne \in Nat
  BY <1>3, Products
<1> HIDE DEF scaled
<1>5. quotient \in Nat /\ scaled < debt * quotient + debt
  BY <1>3, <1>4, Quotients
<1> HIDE DEF quotient
<1>6. SUFFICES ASSUME quotient + 1 <= RatioOne PROVE FALSE
  BY <1>2, <1>3, <1>5 DEF quotient, scaled
<1>7. debt * (quotient + 1) <= debt * RatioOne /\ debt * (quotient + 1) = debt * quotient + debt
  BY <1>3, <1>5, <1>6, Products
<1>8. debt * quotient \in Nat
  BY <1>3, <1>5
<1>9. QED
  BY <1>3, <1>4, <1>5, <1>7, <1>8

\* A borrow of either asset.
Borrow(a, user, amount) ==
    \/ a = "TAO" /\ BorrowTao(user, amount)
    \/ a = "TUSDT" /\ BorrowTusdt(user, amount)

\* What a borrower may owe on its collateral when it borrows.
AtFactor(user) == MulValue(MinFactor(Holding(user)), Worth(Holding(user)))

LEMMA BorrowParts ==
    ASSUME NEW a, NEW user, NEW amount, Borrow(a, user, amount)
    PROVE  /\ a \in Assets
           /\ MayBorrow(user, a, Current(a, 0), ValueOf(a, amount))
           /\ BookBorrow(a, Current(a, 0), user, amount)
           /\ UNCHANGED <<termVars, registryVars, collateralVars, alphaTerms, priceVars>>
  BY DEF Borrow, BorrowTao, BorrowTusdt, ValueOf, Assets

LEMMA HoldingType ==
    ASSUME PoolInv, NEW user \in Users
    PROVE  Holding(user) \in [Netuids -> Nat]
  BY PrincipalType DEF PoolInv, Holding

LEMMA HoldingStays ==
    ASSUME NEW user, UNCHANGED <<registryVars, collateralVars>>
    PROVE  Holding(user)' = Holding(user)
  BY DEF Holding, Principal, Approved, registryVars, collateralVars

LEMMA OwedType ==
    ASSUME BooksOK, NEW a \in Assets, NEW m \in MarketState, NEW user \in Users
    PROVE  Owed(a, m, user) \in Nat
<1>1. positions[a][user].scaled_debt \in Nat /\ m.borrow_index \in Nat
  BY DEF BooksOK, Positions, MarketState
<1>2. QED
  BY <1>1, MulValueIsFloor DEF Owed, DebtFace

LEMMA DebtValueType ==
    ASSUME PoolInv, NEW books \in [Assets -> MarketState], NEW user \in Users
    PROVE  DebtValue(user, books) \in Nat
<1>1. /\ BooksOK /\ price.tao \in Nat /\ "TAO" \in Assets /\ "TUSDT" \in Assets
  BY DEF PoolInv, LendingInv, PricesOK, Assets
<1>2. Owed("TAO", books["TAO"], user) \in Nat /\ Owed("TUSDT", books["TUSDT"], user) \in Nat
  BY <1>1, OwedType
<1>3. MulValue(price.tao, Owed("TAO", books["TAO"], user)) \in Nat
  BY <1>1, <1>2, MulValueIsFloor
<1>4. QED
  BY <1>2, <1>3 DEF DebtValue

\* The debt of the asset borrowed: what was owed, the amount, the first hour and
\* a unit.  That of the other asset does not change.
LEMMA BorrowedDebt ==
    ASSUME PoolInv, NEW a \in Assets, NEW user \in Users, NEW amount \in Nat,
           BookBorrow(a, Current(a, 0), user, amount)
    PROVE  LET m == Current(a, 0)
               premium == Premium(m, params[a], MarketCash(a), amount)
               unit == UnitOf(m.borrow_index)
           IN  /\ m \in MarketState /\ premium \in Nat /\ unit \in Nat
               /\ Owed(a, markets[a], user)' \in Nat
               /\ Owed(a, markets[a], user)' <= Owed(a, m, user) + (amount + premium) + unit
               /\ \A b \in Assets \ {a} : Owed(b, markets[b], user)' = Owed(b, markets[b], user)
<1> DEFINE m == Current(a, 0)
           p == params[a]
           premium == Premium(m, p, MarketCash(a), amount)
           unit == UnitOf(m.borrow_index)
           more == ScaledBorrowed(m, amount + premium)
           scaled == positions[a][user].scaled_debt
           charged == PremiumCharged(m, p, premium)
           after == WithScaledDebt(charged, m.total_scaled_debt + more)
<1>1. /\ CanAccrue(a, 0) /\ amount \in 1 .. MarketCash(a) /\ Store(a, after)
      /\ positions' = [positions EXCEPT ![a][user].scaled_debt = @ + more]
  BY DEF BookBorrow
<1>2. /\ BooksOK /\ TermsOK /\ m \in MarketState /\ MarketCash(a) \in Nat /\ p \in Enforced
  BY <1>1, CurrentIsSound, CashType DEF PoolInv, LendingInv, TermsOK
<1>3. premium \in Nat
  <2>1. amount \in 0 .. MarketCash(a)
    BY <1>1
  <2>2. QED
    BY <1>2, <2>1, PremiumType
<1>4. m.borrow_index \in Nat \ {0} /\ scaled \in Nat /\ amount + premium \in Nat
  BY <1>2, <1>3 DEF MarketState, BooksOK, Positions
<1>5. after.borrow_index = m.borrow_index
  <2>0. premium \in Nat /\ p \in Enforced /\ m \in MarketState
    BY <1>2, <1>3
  <2> HIDE DEF m, p, premium
  <2>1. PICK share \in 0 .. premium, rate \in Nat \ {0} :
          /\ charged = [m EXCEPT !.exchange_rate = rate,
                                 !.reserve_accrued = m.reserve_accrued + (premium - share)]
          /\ rate * m.total_supplied <= m.exchange_rate * m.total_supplied + share * RatioOne
    BY <2>0, PremiumIsShared
  <2> HIDE DEF charged
  <2>2. QED
    BY <1>2, <2>1 DEF WithScaledDebt, MarketState
<1>6. /\ markets'[a] = after
      /\ \A b \in Assets \ {a} : markets'[b] = markets[b]
  BY <1>1, <1>2 DEF Store, BooksOK
<1>7. /\ positions'[a][user].scaled_debt = scaled + more
      /\ \A b \in Assets \ {a} : positions'[b][user].scaled_debt = positions[b][user].scaled_debt
  BY <1>1, <1>2 DEF BooksOK, Positions
<1> HIDE DEF m, premium, unit, scaled, after, p
<1>8. more = DivValueCeil(m.borrow_index, amount + premium)
  BY DEF ScaledBorrowed
<1> HIDE DEF more
<1>9. /\ unit \in Nat
      /\ DebtFace(scaled + more, m.borrow_index) \in Nat
      /\ DebtFace(scaled + more, m.borrow_index)
           <= DebtFace(scaled, m.borrow_index) + (amount + premium) + unit
  BY <1>4, <1>8, BorrowedFace DEF unit
<1>10. /\ Owed(a, markets[a], user)' = DebtFace(scaled + more, m.borrow_index)
       /\ Owed(a, m, user) = DebtFace(scaled, m.borrow_index)
       /\ \A b \in Assets \ {a} : Owed(b, markets[b], user)' = Owed(b, markets[b], user)
  BY <1>5, <1>6, <1>7 DEF Owed, scaled
<1>11. QED
  BY <1>2, <1>3, <1>9, <1>10 DEF m, premium, unit, p

\* A borrow of something leaves the debt at the factor, but for the surcharge.
LEMMA BorrowNearFactor ==
    ASSUME PoolInv, NEW a \in Assets, NEW user \in Users, NEW amount \in Nat,
           Borrow(a, user, amount), ValueOf(a, amount) > 0
    PROVE  /\ Surcharge(a, Current(a, 0), amount) \in Nat
           /\ AtFactor(user) \in Nat
           /\ DebtValue(user, markets)' \in Nat
           /\ DebtValue(user, markets)' <= AtFactor(user) + Surcharge(a, Current(a, 0), amount)
<1> DEFINE m == Current(a, 0)
           left == Holding(user)
           books == [markets EXCEPT ![a] = m]
           value == ValueOf(a, amount)
           premium == Premium(m, params[a], MarketCash(a), amount)
           unit == UnitOf(m.borrow_index)
           ceiling == AtFactor(user)
           tao == Owed("TAO", books["TAO"], user)
           tusdt_owed == Owed("TUSDT", books["TUSDT"], user)
           tao_after == Owed("TAO", markets["TAO"], user)'
           tusdt_after == Owed("TUSDT", markets["TUSDT"], user)'
<1>1. /\ MayBorrow(user, a, m, value) /\ BookBorrow(a, m, user, amount)
      /\ UNCHANGED <<termVars, registryVars, collateralVars, alphaTerms, priceVars>>
  BY BorrowParts
<1>2. /\ m \in MarketState /\ premium \in Nat /\ unit \in Nat
      /\ Owed(a, markets[a], user)' \in Nat
      /\ Owed(a, markets[a], user)' <= Owed(a, m, user) + (amount + premium) + unit
      /\ \A b \in Assets \ {a} : Owed(b, markets[b], user)' = Owed(b, markets[b], user)
  BY <1>1, BorrowedDebt
<1>3. /\ BooksOK /\ price.tao \in Nat /\ price' = price /\ "TAO" \in Assets /\ "TUSDT" \in Assets
      /\ "TAO" # "TUSDT" /\ Assets = {"TAO", "TUSDT"}
  BY <1>1 DEF PoolInv, LendingInv, PricesOK, Assets, priceVars
<1>4. /\ books \in [Assets -> MarketState] /\ books[a] = m
      /\ \A b \in Assets \ {a} : books[b] = markets[b]
  BY <1>2, <1>3 DEF BooksOK
<1>5. tao \in Nat /\ tusdt_owed \in Nat
  BY <1>3, <1>4, OwedType
<1>6. value \in Nat /\ value > 0
  BY <1>3, MulValueIsFloor DEF ValueOf
<1>7. left \in [Netuids -> Nat] /\ Worth(left) \in Nat
  BY HoldingType, RiskTypes
<1>8. value <= AvailableBorrow(user, books)
  BY <1>1 DEF MayBorrow
<1>9. ceiling \in Nat /\ DebtValue(user, books) \in Nat /\ DebtValue(user, books) + value <= ceiling
  <2>1. Worth(left) > 0
    BY <1>6, <1>7, <1>8 DEF AvailableBorrow
  <2>2. ceiling \in Nat
    BY <1>7, <2>1, RiskTypes, MulValueIsFloor DEF AtFactor
  <2>3. DebtValue(user, books) \in Nat
    BY <1>4, DebtValueType
  <2>4. AvailableBorrow(user, books) = SaturatingSub(ceiling, DebtValue(user, books))
    BY <2>1 DEF AvailableBorrow, AtFactor
  <2>5. QED
    BY <1>6, <1>8, <2>2, <2>3, <2>4 DEF SaturatingSub
<1>10. DebtValue(user, books) = tusdt_owed + MulValue(price.tao, tao)
  BY DEF DebtValue
<1>11. DebtValue(user, markets)' = tusdt_after + MulValue(price.tao, tao_after)
  BY <1>3 DEF DebtValue
<1>12. unit = (m.borrow_index + (RatioOne - 1)) \div RatioOne
  BY DEF UnitOf
<1>13. CASE a = "TUSDT"
  <2>1. tao_after = tao /\ tusdt_after \in Nat /\ tusdt_after <= tusdt_owed + (amount + premium) + unit
    BY <1>2, <1>3, <1>4, <1>13
  <2>2. Surcharge(a, m, amount) = premium + unit /\ value = amount
    BY <1>3, <1>12, <1>13 DEF Surcharge, ValueOf
  <2>3. MulValue(price.tao, tao) \in Nat
    BY <1>3, <1>5, MulValueIsFloor
  <2> HIDE DEF m, left, books, value, premium, unit, ceiling, tao, tusdt_owed, tao_after, tusdt_after
  <2>4. tusdt_after + MulValue(price.tao, tao) <= ceiling + (premium + unit)
    BY <1>2, <1>5, <1>9, <1>10, <2>1, <2>2, <2>3
  <2>5. QED
    BY <1>2, <1>9, <1>11, <2>1, <2>2, <2>3, <2>4 DEF m, ceiling
<1>14. CASE a = "TAO"
  <2> DEFINE extra == premium + unit
             most == tao + amount + extra
             TaoValue(x) == MulValue(price.tao, x)
  <2>1. tusdt_after = tusdt_owed /\ tao_after \in Nat /\ tao_after <= tao + (amount + premium) + unit
    BY <1>2, <1>3, <1>4, <1>14
  <2>2. Surcharge(a, m, amount) = TaoValue(extra) + 2 /\ value = TaoValue(amount)
    BY <1>12, <1>14 DEF Surcharge, ValueOf
  <2> HIDE DEF m, left, books, value, premium, unit, ceiling, tao, tusdt_owed, tao_after, tusdt_after
  <2>3. extra \in Nat /\ most \in Nat /\ tao_after <= most
    BY <1>2, <1>5, <2>1
  <2>4. TaoValue(most) <= TaoValue(tao) + TaoValue(amount) + TaoValue(extra) + 2
    BY <1>3, <1>5, <2>3, MulValueOfSum
  <2>5. TaoValue(tao_after) <= TaoValue(most)
    BY <1>3, <2>1, <2>3, MulValueMonotone
  <2>6. /\ TaoValue(tao) \in Nat /\ TaoValue(amount) \in Nat /\ TaoValue(extra) \in Nat
        /\ TaoValue(most) \in Nat /\ TaoValue(tao_after) \in Nat
    BY <1>3, <1>5, <2>1, <2>3, MulValueIsFloor
  <2> HIDE DEF TaoValue, extra, most
  <2>7. tusdt_after + TaoValue(tao_after) <= ceiling + (TaoValue(extra) + 2)
    BY <1>5, <1>9, <1>10, <2>1, <2>2, <2>4, <2>5, <2>6 DEF TaoValue
  <2>8. QED
    BY <1>5, <1>9, <1>11, <2>1, <2>2, <2>6, <2>7 DEF m, ceiling, TaoValue
<1>15. QED
  BY <1>3, <1>13, <1>14

\* No more debt and no less collateral.
NoWorse(user) ==
    /\ \A a \in Assets : positions'[a][user].scaled_debt <= positions[a][user].scaled_debt
    /\ \A netuid \in Netuids : Principal(user, netuid)' >= Principal(user, netuid)

InReach(user) == AtRisk(Holding(user), DebtValue(user, markets))

StaysSafe(user) ==
    \/ LiquidationOf(user)
    \/ NoWorse(user)
    \/ ~InReach(user)'

LEMMA StandingTypes ==
    ASSUME PoolInv, NEW user \in Users
    PROVE  /\ \A a \in Assets : positions[a][user].scaled_debt \in Nat
           /\ \A netuid \in Netuids : Principal(user, netuid) \in Nat
  BY PrincipalType DEF PoolInv, LendingInv, BooksOK, Positions

\* A step that leaves a user's debt and collateral alone.
LEMMA NotTouched ==
    ASSUME PoolInv, NEW user \in Users,
           \A a \in Assets : positions'[a][user].scaled_debt = positions[a][user].scaled_debt,
           \A netuid \in Netuids : Principal(user, netuid)' = Principal(user, netuid)
    PROVE  NoWorse(user)
  BY StandingTypes DEF NoWorse

LEMMA CollateralUntouched ==
    ASSUME PoolInv, NEW user \in Users,
           \A a \in Assets : positions'[a][user].scaled_debt <= positions[a][user].scaled_debt,
           UNCHANGED <<registryVars, alpha_principal>>
    PROVE  NoWorse(user)
<1>1. \A netuid \in Netuids : Principal(user, netuid)' = Principal(user, netuid)
  BY DEF Principal, Approved, registryVars
<1>2. QED
  BY <1>1, StandingTypes DEF NoWorse

\* Without scaled debt nothing is owed, whatever the books.
LEMMA NoDebtNoRisk ==
    ASSUME PoolInv, NEW user \in Users, ~Indebted(user), NEW books \in [Assets -> MarketState]
    PROVE  DebtValue(user, books) = 0
<1>1. /\ "TAO" \in Assets /\ "TUSDT" \in Assets /\ price.tao \in Nat
      /\ books["TAO"].borrow_index \in Nat /\ books["TUSDT"].borrow_index \in Nat
  BY DEF PoolInv, PricesOK, Assets, MarketState
<1>2. positions["TAO"][user].scaled_debt = 0 /\ positions["TUSDT"][user].scaled_debt = 0
  BY <1>1, StandingTypes DEF Indebted
<1>3. ASSUME NEW x \in Nat PROVE MulValue(x, 0) = 0
  BY RatioOneAssumption DEF MulValue
<1>4. Owed("TAO", books["TAO"], user) = 0 /\ Owed("TUSDT", books["TUSDT"], user) = 0
  BY <1>1, <1>2, <1>3 DEF Owed, DebtFace
<1>5. QED
  BY <1>1, <1>3, <1>4 DEF DebtValue

\* A withdrawal is looked at with what it leaves and the debts that stay.
LEMMA WithdrawalIsSafe ==
    ASSUME PoolInv, NEW caller \in Users, NEW netuid \in Netuids, NEW amount \in Nat,
           WithdrawAlpha(caller, netuid, amount), NEW user \in Users
    PROVE  NoWorse(user) \/ ~InReach(user)'
<1> DEFINE id == netuid_to_market[netuid]
           rest == [Holding(caller) EXCEPT ![netuid] = @ - amount]
<1>1. /\ Approved(netuid) /\ MayWithdraw(caller, rest)
      /\ alpha_principal' = [alpha_principal EXCEPT ![id][caller] = @ - amount]
      /\ UNCHANGED <<lendingVars, registryVars, alphaTerms, priceVars>>
  BY DEF WithdrawAlpha
<1>2. RegistryOK /\ CollateralOK /\ id \in MarketIds
  BY <1>1 DEF PoolInv, RegistryOK, Approved
<1>3. /\ UNCHANGED <<positions, markets, netuid_to_market, alpha_params, price>>
  BY <1>1 DEF lendingVars, bookVars, registryVars, alphaTerms, priceVars
<1>4. \A n \in Netuids : Principal(caller, n)'
                          = IF n = netuid THEN Principal(caller, n) - amount ELSE Principal(caller, n)
  <2>1. Principal(caller, netuid)' = Principal(caller, netuid) - amount
    BY <1>1, <1>2, <1>3 DEF Principal, Approved, CollateralOK
  <2>2. ASSUME NEW n \in Netuids, n # netuid PROVE Principal(caller, n)' = Principal(caller, n)
    <3>1. CASE ~Approved(n)
      BY <1>3, <3>1 DEF Principal, Approved
    <3>2. CASE Approved(n)
      <4>1. netuid_to_market[n] # id /\ netuid_to_market[n] \in MarketIds
        BY <1>1, <1>2, <2>2, <3>2, ApprovedIds
      <4>2. QED
        BY <1>1, <1>2, <1>3, <4>1 DEF Principal, Approved, CollateralOK
    <3>3. QED
      BY <3>1, <3>2
  <2>3. QED
    BY <2>1, <2>2
<1>5. Holding(caller)' = rest
  BY <1>4 DEF Holding
<1>6. CASE user = caller
  <2>1. DebtValue(user, markets)' = DebtValue(user, markets)
    BY <1>3 DEF DebtValue, Owed
  <2>2. ~AtRisk(rest, DebtValue(user, markets))
    <3>1. CASE Indebted(user)
      <4>1. DebtValue(user, markets) > 0 => ~AtRisk(rest, DebtValue(user, markets))
        BY <1>1, <1>6, <3>1 DEF MayWithdraw, Indebted
      <4>2. QED
        BY <4>1 DEF AtRisk
    <3>2. CASE ~Indebted(user)
      <4>1. DebtValue(user, markets) = 0
        BY <3>2, NoDebtNoRisk DEF PoolInv, LendingInv, BooksOK
      <4>2. QED
        BY <4>1 DEF AtRisk
    <3>3. QED
      BY <3>1, <3>2
  <2> DEFINE debt == DebtValue(user, markets)
  <2>3. AtRisk(Holding(user), DebtValue(user, markets))' = AtRisk(rest, debt)
    <3> HIDE DEF rest
    <3>1. Holding(user)' = rest /\ debt' = debt
      BY <1>5, <1>6, <2>1
    <3> HIDE DEF debt
    <3>2. AtRisk(Holding(user), debt)' = AtRisk(rest, debt)
      BY <1>3, <3>1 DEF AtRisk, HealthFactor, MaxThreshold, Worth, CollateralPrice
    <3>3. QED
      BY <3>2 DEF debt
  <2>4. QED
    BY <2>2, <2>3 DEF InReach
<1>7. CASE user # caller
  <2>1. \A n \in Netuids : Principal(user, n)' = Principal(user, n)
    BY <1>1, <1>2, <1>3, <1>7, NoMarketIsNoId DEF Principal, Approved, CollateralOK, RegistryOK
  <2>2. QED
    BY <1>3, <2>1, NotTouched
<1>8. QED
  BY <1>6, <1>7

\* A borrow that the margin covers ends within the threshold.
LEMMA BorrowIsSafe ==
    ASSUME PoolInv, RoomAboveFactor, NEW a \in Assets, NEW caller \in Borrowers,
           NEW amount \in Amounts, Borrow(a, caller, amount), NEW user \in Users
    PROVE  NoWorse(user) \/ ~InReach(user)'
<1> DEFINE m == Current(a, 0)
           left == Holding(caller)
           limit == MulValue(MaxThreshold(left), Worth(left))
<1>1. /\ MayBorrow(caller, a, m, ValueOf(a, amount)) /\ BookBorrow(a, m, caller, amount)
      /\ UNCHANGED <<termVars, registryVars, collateralVars, alphaTerms, priceVars>>
      /\ caller \in Users /\ amount \in Nat
  BY BorrowParts, PoolConstants, LendingConstants
<1>2. CASE user = caller
  <2>1. /\ CanAccrue(a, 0) /\ amount \in 1 .. MarketCash(a)
        /\ m.exchange_rate <= MaxRate /\ m.reserve_accrued <= MaxReserve
    BY <1>1 DEF BookBorrow
  <2>2. ValueOf(a, amount) > 0 /\ AtFactor(caller) + Surcharge(a, m, amount) <= limit
    BY <1>1, <2>1 DEF RoomAboveFactor, AtFactor
  <2>3. /\ Surcharge(a, m, amount) \in Nat /\ AtFactor(caller) \in Nat
        /\ DebtValue(caller, markets)' \in Nat
        /\ DebtValue(caller, markets)' <= AtFactor(caller) + Surcharge(a, m, amount)
    BY <1>1, <2>2, BorrowNearFactor
  <2>4. limit \in Nat
    BY <1>1, HoldingType, RiskTypes, MulValueIsFloor
  <2> HIDE DEF m, limit
  <2>5. DebtValue(caller, markets)' <= limit
    BY <2>2, <2>3, <2>4
  <2> DEFINE debt == DebtValue(caller, markets)'
  <2>6. ~AtRisk(left, debt)
    <3> HIDE DEF debt, left
    <3>1. debt \in Nat /\ MulValue(MaxThreshold(left), Worth(left)) \in Nat
          /\ debt <= MulValue(MaxThreshold(left), Worth(left))
      BY <2>3, <2>4, <2>5 DEF debt, limit, left
    <3>2. QED
      BY <3>1, WithinThreshold
  <2>7. Holding(caller)' = left
    BY <1>1, HoldingStays
  <2>8. AtRisk(Holding(caller), DebtValue(caller, markets))' = AtRisk(left, debt)
    <3> HIDE DEF left
    <3>1. price' = price /\ alpha_params' = alpha_params
      BY <1>1 DEF priceVars, alphaTerms
    <3>2. QED
      BY <2>7, <3>1 DEF AtRisk, HealthFactor, MaxThreshold, Worth, CollateralPrice
  <2>9. QED
    BY <1>2, <2>6, <2>8 DEF InReach
<1>3. CASE user # caller
  <2>1. \A b \in Assets : positions'[b][user].scaled_debt = positions[b][user].scaled_debt
    BY <1>1, <1>3 DEF BookBorrow, PoolInv, LendingInv, BooksOK, Positions
  <2>2. \A n \in Netuids : Principal(user, n)' = Principal(user, n)
    BY <1>1 DEF Principal, Approved, registryVars, collateralVars
  <2>3. QED
    BY <2>1, <2>2, NotTouched
<1>4. QED
  BY <1>2, <1>3

\* A liquidation takes all of one user, and touches no other.
LEMMA LiquidationIsSafe ==
    ASSUME PoolInv, NEW liquidator \in Users, NEW borrower \in Users, NEW received \in Nat,
           Liquidate(liquidator, borrower, received), NEW user \in Users
    PROVE  NoWorse(user) \/ LiquidationOf(user)
<1> DEFINE books == [a \in Assets |-> Current(a, IF a = "TAO" THEN received ELSE 0)]
           ids == {netuid_to_market[n] : n \in Held(borrower)}
<1>1. /\ CanAccrue("TAO", received) /\ CanAccrue("TUSDT", 0)
      /\ Liquidatable(borrower, books)
      /\ positions' = [a \in Assets |-> [positions[a] EXCEPT ![borrower].scaled_debt = 0]]
      /\ alpha_principal' = [id \in MarketIds |->
             IF id \in ids THEN [alpha_principal[id] EXCEPT ![borrower] = 0] ELSE alpha_principal[id]]
      /\ netuid_to_market' = netuid_to_market
  BY DEF Liquidate, registryVars
<1>2. /\ RegistryOK /\ CollateralOK /\ BooksOK /\ TermsOK /\ "TAO" \in Assets /\ "TUSDT" \in Assets
  BY DEF PoolInv, LendingInv, Assets
<1>3. \A n \in Netuids : Principal(user, n)' =
                          IF Approved(n) THEN alpha_principal'[netuid_to_market[n]][user] ELSE 0
  BY <1>1 DEF Principal, Approved
<1>4. \A n \in Netuids : Approved(n) => netuid_to_market[n] \in MarketIds
  BY <1>2 DEF RegistryOK, Approved
<1>5. CASE user # borrower
  <2>1. \A a \in Assets : positions'[a][user].scaled_debt = positions[a][user].scaled_debt
    BY <1>1, <1>2, <1>5 DEF BooksOK, Positions
  <2>2. \A n \in Netuids : Principal(user, n)' = Principal(user, n)
    BY <1>1, <1>2, <1>3, <1>4, <1>5 DEF Principal, CollateralOK
  <2>3. QED
    BY <2>1, <2>2, NotTouched
<1>6. CASE user = borrower
  <2>1. Held(user) # {} /\ AtRisk(Holding(user), DebtValue(user, books))
    BY <1>1, <1>6 DEF Liquidatable
  <2>2. Indebted(user)
    <3>1. books \in [Assets -> MarketState]
      BY <1>1, <1>2, CurrentIsSound DEF Assets
    <3>2. QED
      BY <2>1, <3>1, NoDebtNoRisk DEF AtRisk
  <2>3. ~Indebted(user)'
    BY <1>1, <1>2, <1>6 DEF Indebted, BooksOK, Positions
  <2>4. ASSUME NEW n \in Netuids PROVE ~(Principal(user, n)' > 0)
    <3>1. CASE n \in Held(user)
      <4>1. Approved(n) /\ netuid_to_market[n] \in ids
        BY <1>6, <3>1 DEF Held, Principal
      <4>2. Principal(user, n)' = 0
        BY <1>1, <1>2, <1>3, <1>4, <1>6, <4>1 DEF CollateralOK
      <4>3. QED
        BY <4>2
    <3>2. CASE n \notin Held(user)
      <4>1. Principal(user, n) = 0
        BY <3>2, StandingTypes DEF Held
      <4>2. CASE ~Approved(n)
        BY <1>3, <4>2
      <4>3. CASE Approved(n)
        <5>1. alpha_principal[netuid_to_market[n]][user] = 0
          BY <4>1, <4>3 DEF Principal
        <5>2. alpha_principal'[netuid_to_market[n]][user] = 0
          BY <1>1, <1>2, <1>4, <1>6, <4>3, <5>1 DEF CollateralOK
        <5>3. QED
          BY <1>3, <4>3, <5>2
      <4>4. QED
        BY <4>2, <4>3
    <3>3. QED
      BY <3>1, <3>2
  <2>5. Held(user)' = {}
    BY <2>4 DEF Held
  <2>6. QED
    BY <2>1, <2>2, <2>3, <2>5 DEF LiquidationOf
<1>7. QED
  BY <1>5, <1>6

\* A repayment leaves no more scaled debt, and nobody else's changes.
LEMMA RepaymentIsSafe ==
    ASSUME PoolInv, NEW a \in Assets, NEW value, CanAccrue(a, value), NEW caller \in Users,
           NEW paid \in Nat, BookRepayment(a, Current(a, value), caller, paid), NEW user \in Users
    PROVE  \A b \in Assets : positions'[b][user].scaled_debt <= positions[b][user].scaled_debt
<1> DEFINE m == Current(a, value)
           debt == positions[a][caller].scaled_debt
           scaled == ScaledRepaid(m, debt, paid)
<1>1. positions' = [positions EXCEPT ![a][caller].scaled_debt = @ - scaled]
  BY DEF BookRepayment
<1>2. /\ positions \in Positions /\ debt \in Nat /\ m \in MarketState
      /\ \A b \in Assets : positions[b][user].scaled_debt \in Nat
  BY CurrentIsSound DEF PoolInv, LendingInv, BooksOK, Positions
<1> HIDE DEF m, debt
<1>3. scaled \in Nat
  <2>1. DivValueCeil(m.borrow_index, paid) \in Nat
    BY <1>2, DivValueCeilIsAbove DEF MarketState
  <2>2. Min({DivValueCeil(m.borrow_index, paid), debt})
          \in {DivValueCeil(m.borrow_index, paid), debt}
    BY <1>2, <2>1, MinIsIn
  <2>3. QED
    BY <1>2, <2>1, <2>2 DEF ScaledRepaid
<1> HIDE DEF scaled
<1>4. ASSUME NEW b \in Assets
      PROVE  positions'[b][user].scaled_debt
               = IF b = a /\ user = caller THEN debt - scaled ELSE positions[b][user].scaled_debt
  BY <1>1, <1>2 DEF Positions, debt
<1>5. QED
  BY <1>2, <1>3, <1>4 DEF debt

\* A message of the money side adds to nobody's debt.
LEMMA LendingStepIsSafe ==
    ASSUME PoolInv, LendingStep, NEW user \in Users
    PROVE  \A b \in Assets : positions'[b][user].scaled_debt <= positions[b][user].scaled_debt
<1> DEFINE Less == \A b \in Assets : positions'[b][user].scaled_debt <= positions[b][user].scaled_debt
<1>1. /\ (Amounts \cup Excesses) \subseteq Nat /\ "TAO" \in Assets /\ "TUSDT" \in Assets
      /\ LendingInv /\ positions \in Positions
      /\ \A b \in Assets : positions[b][user].scaled_debt \in Nat
  BY LendingConstants DEF Assets, PoolInv, LendingInv, BooksOK, Positions
<1>2. ASSUME UNCHANGED positions PROVE Less
  BY <1>1, <1>2
<1>3. ASSUME NEW a \in Assets, NEW m, NEW caller \in Users, NEW amount,
             BookSupply(a, m, caller, amount) \/ BookWithdrawal(a, m, caller, amount)
      PROVE  Less
  <2>1. PICK balance : positions' = [positions EXCEPT ![a][caller].ltoken_balance = balance]
    BY <1>3 DEF BookSupply, BookWithdrawal
  <2>2. \A b \in Assets : positions'[b][user].scaled_debt = positions[b][user].scaled_debt
    BY <1>1, <2>1 DEF Positions
  <2>3. QED
    BY <1>1, <2>2
<1>4. ASSUME NEW caller \in Users, NEW amount \in Amounts, NEW received,
             \/ SupplyTusdt(caller, amount) \/ SupplyTao(caller, amount, received)
             \/ WithdrawTao(caller, amount) \/ WithdrawTusdt(caller, amount)
      PROVE  Less
  BY <1>1, <1>3, <1>4 DEF SupplyTusdt, SupplyTao, WithdrawTao, WithdrawTusdt
<1>5. ASSUME NEW caller \in Users, NEW amount \in Amounts, RepayTusdt(caller, amount)
      PROVE  Less
  <2> DEFINE paid == Min({amount, Owed("TUSDT", Current("TUSDT", 0), caller)})
  <2>1. CanAccrue("TUSDT", 0) /\ BookRepayment("TUSDT", Current("TUSDT", 0), caller, paid)
    BY <1>5 DEF RepayTusdt
  <2>2. paid \in Nat
    BY <1>1, <2>1, PaidType
  <2> HIDE DEF paid
  <2>3. QED
    BY <1>1, <2>1, <2>2, RepaymentIsSafe
<1>6. ASSUME NEW caller \in Users, NEW amount \in Amounts, NEW received,
             RepayTao(caller, amount, received)
      PROVE  Less
  <2> DEFINE paid == Min({amount, Owed("TAO", Current("TAO", received), caller)})
  <2>1. CanAccrue("TAO", received) /\ BookRepayment("TAO", Current("TAO", received), caller, paid)
    BY <1>6 DEF RepayTao
  <2>2. paid \in Nat
    BY <1>1, <2>1, PaidType
  <2> HIDE DEF paid
  <2>3. QED
    BY <1>1, <2>1, <2>2, RepaymentIsSafe
<1>7. ASSUME NEW a, NEW caller, NEW received, RepayNothing(a, caller, received) \/ ClaimReserve(a)
      PROVE  Less
  BY <1>2, <1>7 DEF RepayNothing, ClaimReserve
<1>8. CASE AccrueMarketInterest \/ Sweep \/ NextBlock
  BY <1>2, <1>8 DEF AccrueMarketInterest, Sweep, NextBlock, bookVars
<1> HIDE DEF Less
<1>9. QED
  BY <1>4, <1>5, <1>6, <1>7, <1>8 DEF LendingStep, Less

LEMMA PoolNextIsSafe ==
    ASSUME PoolInv, CollateralInv, RoomAboveFactor, [PoolNext]_poolVars, NEW user \in Borrowers
    PROVE  StaysSafe(user)
<1>1. /\ user \in Users /\ Borrowers \subseteq Users /\ (Amounts \cup AlphaAmounts) \subseteq Nat
      /\ \A a \in Assets : positions[a][user].scaled_debt \in Nat
      /\ \A netuid \in Netuids : Principal(user, netuid) \in Nat
  BY PoolConstants, LendingConstants, StandingTypes
<1>2. ASSUME UNCHANGED positions,
             \A netuid \in Netuids : Principal(user, netuid)' >= Principal(user, netuid)
      PROVE  NoWorse(user)
  BY <1>1, <1>2 DEF NoWorse
<1>3. ASSUME UNCHANGED <<positions, registryVars, alpha_principal>> PROVE NoWorse(user)
  BY <1>1, <1>3, CollateralUntouched
<1>4. CASE LendingStep /\ UNCHANGED <<registryVars, collateralVars>>
  <2>1. NoWorse(user)
    BY <1>1, <1>4, LendingStepIsSafe, CollateralUntouched DEF collateralVars
  <2>2. QED
    BY <2>1 DEF StaysSafe
<1>5. CASE AdminStep /\ UNCHANGED <<registryVars, collateralVars>>
  <2>1. UNCHANGED positions
    BY <1>5 DEF AdminStep, SetMarketParams, CancelMarketParamsUpdate, ExecuteMarketParamsUpdate,
                ClaimSurplusTusdt, TransferNativeToTreasury, SetRootStakeConfig, Pause, Unpause,
                bookVars
  <2>2. QED
    BY <1>3, <1>5, <2>1 DEF StaysSafe, collateralVars
<1>6. CASE BorrowerStep
  <2>1. ASSUME NEW caller \in Borrowers, NEW netuid \in Netuids, NEW amount \in AlphaAmounts,
               DepositAlpha(caller, netuid, amount)
        PROVE  StaysSafe(user)
    <3>1. UNCHANGED positions
      BY <2>1 DEF DepositAlpha, lendingVars, bookVars
    <3>2. amount \in Nat /\ caller \in Users
      BY <1>1
    <3>3. \A n \in Netuids : Principal(user, n)' = IF n = netuid /\ user = caller
                                 THEN Principal(user, n) + amount ELSE Principal(user, n)
      BY <1>1, <2>1, <3>2, DepositMovesPrincipal
    <3>4. \A n \in Netuids : Principal(user, n)' >= Principal(user, n)
      BY <1>1, <3>2, <3>3
    <3>5. QED
      BY <1>2, <3>1, <3>4 DEF StaysSafe
  <2>2. ASSUME NEW caller \in Borrowers, NEW netuid \in Netuids, NEW amount \in AlphaAmounts,
               WithdrawAlpha(caller, netuid, amount)
        PROVE  StaysSafe(user)
    BY <1>1, <2>2, WithdrawalIsSafe DEF StaysSafe
  <2>3. ASSUME NEW caller \in Borrowers, NEW amount \in Amounts,
               BorrowTao(caller, amount) \/ BorrowTusdt(caller, amount)
        PROVE  StaysSafe(user)
    <3>1. PICK a \in Assets : Borrow(a, caller, amount)
      BY <2>3 DEF Borrow, Assets
    <3>2. QED
      BY <1>1, <3>1, BorrowIsSafe DEF StaysSafe
  <2>4. QED
    BY <1>6, <2>1, <2>2, <2>3 DEF BorrowerStep
<1>7. CASE LiquidatorStep
  <2>1. PICK liquidator \in Users, borrower \in Borrowers :
            \E received \in 0 .. wallets["TAO"][liquidator] :
                Liquidate(liquidator, borrower, received)
    BY <1>7 DEF LiquidatorStep
  <2>2. PICK received \in 0 .. wallets["TAO"][liquidator] :
            Liquidate(liquidator, borrower, received)
    BY <2>1
  <2>3. received \in Nat /\ borrower \in Users
    BY <1>1
  <2>4. QED
    BY <1>1, <2>2, <2>3, LiquidationIsSafe DEF StaysSafe
<1>8. CASE SubnetStep
  <2>1. UNCHANGED positions
    BY <1>8, SubnetStepKeepsBooks DEF bookVars
  <2>2. ASSUME NEW caller, NEW netuid \in Netuids,
               ApproveNetuid(caller, netuid) \/ RemoveNetuid(caller, netuid)
        PROVE  StaysSafe(user)
    <3>1. \A n \in Netuids : Principal(user, n)' = Principal(user, n)
      BY <1>1, <2>2, ApproveKeepsPrincipals, RemoveKeepsPrincipals DEF CollateralInv
    <3>2. \A n \in Netuids : Principal(user, n)' >= Principal(user, n)
      BY <1>1, <3>1
    <3>3. QED
      BY <1>2, <2>1, <3>2 DEF StaysSafe
  <2>3. ASSUME NEW caller, NEW netuid \in Netuids, NEW new_params,
               \/ SetAlphaParams(caller, netuid, new_params)
               \/ ExecuteAlphaParamsUpdate(netuid)
               \/ CancelAlphaParamsUpdate(caller, netuid)
        PROVE  StaysSafe(user)
    BY <1>3, <2>1, <2>3 DEF SetAlphaParams, ExecuteAlphaParamsUpdate, CancelAlphaParamsUpdate,
                            collateralVars, StaysSafe
  <2>4. ASSUME NEW netuid \in Netuids,
               ClaimAlphaExcess(netuid) \/ \E amount \in Emissions : Emit(netuid, amount)
        PROVE  StaysSafe(user)
    BY <1>3, <2>1, <2>4 DEF ClaimAlphaExcess, Emit, StaysSafe
  <2>5. ASSUME NEW caller, NEW hotkey \in PoolHotkeys, NEW netuids \in SUBSET Netuids,
               UpdatePoolHotkey(caller, hotkey, netuids)
        PROVE  StaysSafe(user)
    BY <1>3, <2>1, <2>5 DEF UpdatePoolHotkey, StaysSafe
  <2>6. ASSUME ClaimRootExcess PROVE StaysSafe(user)
    BY <1>3, <2>1, <2>6 DEF ClaimRootExcess, collateralVars, StaysSafe
  <2>7. QED
    BY <1>8, <2>2, <2>3, <2>4, <2>5, <2>6 DEF SubnetStep
<1>9. CASE PricesMove \/ TimePasses \/ UNCHANGED poolVars
  <2>1. UNCHANGED <<positions, registryVars, alpha_principal>>
    BY <1>9 DEF PricesMove, TimePasses, Tick, lendingVars, bookVars, collateralVars, poolVars
  <2>2. QED
    BY <1>3, <2>1 DEF StaysSafe
<1>10. QED
  BY <1>4, <1>5, <1>6, <1>7, <1>8, <1>9 DEF PoolNext

LEMMA CollateralInvariance == PoolSpec => []CollateralInv
<1>1. PoolInv /\ CollateralInv /\ [PoolNext]_poolVars => CollateralInv'
  BY PoolNextIsBooked
<1>2. QED
  BY <1>1, CollateralInvInit, PoolInvariance, PTL DEF PoolSpec

\* While the margin between factor and threshold covers the first hour and a
\* unit of scaled debt, nobody borrows or withdraws into the reach of a
\* liquidator, whatever the prices, rates and parameters were before.
THEOREM PoolBorrowerIsSafe == PoolSpec /\ []RoomAboveFactor => BorrowerIsSafe
<1> DEFINE Safe == \A user \in Borrowers : StaysSafe(user)
<1>1. PoolInv /\ CollateralInv /\ RoomAboveFactor /\ [PoolNext]_poolVars => [Safe]_poolVars
  BY PoolNextIsSafe
<1>2. PoolSpec /\ []RoomAboveFactor => [][Safe]_poolVars
  BY <1>1, PoolInvariance, CollateralInvariance, PTL DEF PoolSpec
<1>3. BorrowerIsSafe <=> [][Safe]_poolVars
  BY PTL DEF BorrowerIsSafe, StaysSafe, NoWorse, InReach
<1>4. QED
  BY <1>2, <1>3

\* Without that condition, and for all parameters: a borrow of something never
\* leaves the debt above the factor by more than its first hour and a unit of
\* scaled debt.
THEOREM PoolBorrowNearFactor ==
    PoolSpec => [][\A user \in Borrowers, a \in Assets, amount \in Amounts :
                     Borrow(a, user, amount) /\ ValueOf(a, amount) > 0
                       => DebtValue(user, markets)'
                            <= AtFactor(user) + Surcharge(a, Current(a, 0), amount)]_poolVars
<1> DEFINE Near == \A user \in Borrowers, a \in Assets, amount \in Amounts :
                     Borrow(a, user, amount) /\ ValueOf(a, amount) > 0
                       => DebtValue(user, markets)'
                            <= AtFactor(user) + Surcharge(a, Current(a, 0), amount)
<1>1. PoolInv => [Near]_poolVars
  BY BorrowNearFactor, PoolConstants, LendingConstants
<1>2. QED
  BY <1>1, PoolInvariance, PTL
=============================================================================
