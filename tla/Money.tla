------------------------------- MODULE Money -------------------------------
(***************************************************************************)
(* Integer money arithmetic of packages/core/src/money.ts.  Amounts are    *)
(* minor units; a share is a product divided with rounding half to even.   *)
(***************************************************************************)
EXTENDS Integers

\* n / d rounded half to even, for the arguments the services pass: n >= 0, d > 0.
DivideHalfEven(n, d) ==
  LET q == n \div d
      twice == 2 * (n - q * d)
  IN  IF twice > d \/ (twice = d /\ q % 2 = 1) THEN q + 1 ELSE q

\* amount * part / whole.
Proportion(amount, part, whole) == DivideHalfEven(amount * part, whole)

============================================================================
