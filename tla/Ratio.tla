------------------------------- MODULE Ratio -------------------------------
(***************************************************************************)
(* Fixed-point ratios (src/primitives/src/lib.rs): a ratio is a natural    *)
(* number of units, RatioOne of them to 1.0 (10^18 in the code).           *)
(***************************************************************************)
EXTENDS Naturals

CONSTANT RatioOne

ASSUME RatioOneAssumption == RatioOne \in Nat \ {0}

\* checked_mul_value, floor(ratio * value).
MulValue(ratio, value) == (ratio * value) \div RatioOne

\* checked_div_value, floor(value / ratio); None when the ratio is zero.
DivValue(ratio, value) == (value * RatioOne) \div ratio

\* checked_div_value_ceil, ceil(value / ratio).
DivValueCeil(ratio, value) == (value * RatioOne + (ratio - 1)) \div ratio
============================================================================
