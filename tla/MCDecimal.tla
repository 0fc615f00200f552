----------------------------- MODULE MCDecimal -----------------------------
(***************************************************************************)
(* Decimal for TLC: numbers with and without a blank behind them, and      *)
(* numbers with an exponent.                                               *)
(***************************************************************************)
EXTENDS Decimal

MCDigit == {0, 6}
WithBlank == {<<>>, <<Blank>>}
WithExponent == {<<>>, <<Exponent, 1>>}
=============================================================================
