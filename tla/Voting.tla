------------------------------- MODULE Voting -------------------------------
(***************************************************************************)
(* The functions election and governance share (src/voting/src/lib.rs).    *)
(* Time is counted in whole days since 1970-01-01; hashes and Merkle       *)
(* proofs stand for membership of a leaf in a snapshot and are left out.   *)
(***************************************************************************)
EXTENDS Naturals, FiniteSets

BpsDenominator == 10000

\* Mutant: the correction for the 400th year is left out.
DayOfMonth_NoEra(days) ==
    LET doe == (days + 719468) % 146097
        yoe == (doe - doe \div 1460 + doe \div 36524) \div 365
        doy == doe - (365 * yoe + yoe \div 4 - yoe \div 100)
        mp  == (5 * doy + 2) \div 153
    IN  (doy - (153 * mp + 2) \div 5) + 1

\* day_of_month: the day of the month of a day, by Hinnant's civil_from_days.
DayOfMonth(days) ==
    LET doe == (days + 719468) % 146097                      \* day of the 400-year era
        yoe == ((doe - doe \div 1460 + doe \div 36524) - doe \div 146096) \div 365
        doy == doe - (365 * yoe + yoe \div 4 - yoe \div 100) \* day of the year, from March
        mp  == (5 * doy + 2) \div 153                        \* month, from March
    IN  (doy - (153 * mp + 2) \div 5) + 1

\* integer_sqrt: Newton's method from n, until it no longer decreases.
IntegerSqrt(n) ==
    LET newton[x \in 1 .. n] ==
          LET y == (x + n \div x) \div 2 IN IF y < x THEN newton[y] ELSE x
    IN  IF n < 2 THEN n ELSE newton[(n + 1) \div 2]

\* voting_power: the weight of a leaf of a snapshot.
VotingPower(balance, multiplier_bps) ==
    (IntegerSqrt(balance) * multiplier_bps) \div BpsDenominator

----------------------------------------------------------------------------
(* What the two stand for: the civil calendar and the square root.            *)

IsLeapYear(year) == year % 4 = 0 /\ (year % 100 # 0 \/ year % 400 = 0)

DaysInMonth(month, year) ==
    CASE month = 2 -> IF IsLeapYear(year) THEN 29 ELSE 28
      [] month \in {4, 6, 9, 11} -> 30
      [] OTHER -> 31

LeapYearsBefore(year) == Cardinality({past \in 1970 .. year - 1 : IsLeapYear(past)})

FirstDayOf(month, year) ==
    365 * (year - 1970) + LeapYearsBefore(year)
    + <<0, 31, 59, 90, 120, 151, 181, 212, 243, 273, 304, 334>>[month]
    + (IF month > 2 /\ IsLeapYear(year) THEN 1 ELSE 0)

MonthExact(month, year) ==
    \A day \in 1 .. DaysInMonth(month, year) :
        DayOfMonth(FirstDayOf(month, year) + day - 1) = day
YearsOfEra == 1970 .. 2369
EraExact == \A year \in YearsOfEra, month \in 1 .. 12 : MonthExact(month, year)

RootExact(n) == LET root == IntegerSqrt(n) IN root * root <= n /\ n < (root + 1) * (root + 1)
RootRange == 0 .. 150000
RootsExact == \A n \in RootRange : RootExact(n)
=============================================================================
