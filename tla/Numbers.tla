------------------------------ MODULE Numbers ------------------------------
(***************************************************************************)
(* Decimals as numbers: integers in units of 10^-Scale.                    *)
(***************************************************************************)
EXTENDS Naturals, Sequences

CONSTANT Scale   \* decimal places a decimal carries

ASSUME NumbersAssumption == Scale \in Nat

Powers[n \in 0 .. Scale] == IF n = 0 THEN 1 ELSE 10 * Powers[n - 1]

\* What the last digit at a precision counts.
Unit(precision) == Powers[Scale - precision]

\* A number without its digits behind the precision, as str cuts it.
Cut(decimal, precision) == (decimal \div Unit(precision)) * Unit(precision)

\* The digits of a number, without leading zeros.
Digits[n \in Nat] == IF n = 0 THEN <<>> ELSE Append(Digits[n \div 10], n % 10)

\* What process feeds to a checksum: the digits up to the precision.
Shown(decimal, precision) == Digits[decimal \div Unit(precision)]
=============================================================================
