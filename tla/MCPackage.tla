----------------------------- MODULE MCPackage -----------------------------
(***************************************************************************)
(* A small kind of package for TLC: bytes of three values, a field of one  *)
(* byte and one of two.                                                    *)
(***************************************************************************)
EXTENDS Package

SmallSizes == <<1, 1, 2>>

\* A byte holds 0 to 2, a field of two bytes -4 to 4: ends, signs and what is beyond.
SmallValues == {-5, -4, -1, 0, 2, 4, 5}
=============================================================================
