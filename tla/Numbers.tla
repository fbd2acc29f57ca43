------------------------------ MODULE Numbers ------------------------------
(***************************************************************************)
(* What the models compute with where the code has floats, so that what    *)
(* should sum to one does: fractions of integers, in lowest terms with a   *)
(* positive denominator, and, for sums and products of probabilities whose *)
(* fractions would outgrow TLC's integers, their residues modulo a prime.  *)
(* An equation between fractions holds of their residues; one that fails   *)
(* does so of the residues too, but for one prime in forty thousand.       *)
(* Residues cannot be compared.                                            *)
(***************************************************************************)
EXTENDS Integers, FiniteSets, FiniteSetsExt

-----------------------------------------------------------------------------
(* Fractions                                                               *)

Gcd[a \in Nat, b \in Nat] == IF b = 0 THEN a ELSE Gcd[b, a % b]

Magnitude(n) == IF n < 0 THEN -n ELSE n

Fraction(n, d) == LET g == Gcd[Magnitude(n), d] IN [n |-> n \div g, d |-> d \div g]
Whole(n) == [n |-> n, d |-> 1]

Plus(a, b) ==
  LET g == Gcd[a.d, b.d] IN Fraction(a.n * (b.d \div g) + b.n * (a.d \div g), a.d * (b.d \div g))
Minus(a, b) == Plus(a, [b EXCEPT !.n = -@])
Times(a, b) ==
  LET f == Gcd[Magnitude(a.n), b.d]
      g == Gcd[Magnitude(b.n), a.d]
  IN  Fraction((a.n \div f) * (b.n \div g), (a.d \div g) * (b.d \div f))
Over(a, n) == Times(a, Fraction(1, n))   \* n > 0
AtMostF(a, b) == a.n * b.d <= b.n * a.d

SumOver(S, f(_)) == FoldSet(LAMBDA x, sum : Plus(f(x), sum), Whole(0), S)

-----------------------------------------------------------------------------
(* Residues                                                                *)

Prime == 46337   \* the largest with (Prime - 1)^2 < 2^31

Multiply(a, b) == (a * b) % Prime

\* To a power that is not negative; Fermat's inverse, and so powers below zero.
PowerN[a \in Nat, n \in Nat] ==
  IF n = 0 THEN 1
  ELSE LET half == PowerN[a, n \div 2]
           square == Multiply(half, half)
       IN  IF n % 2 = 0 THEN square ELSE Multiply(a, square)
Inverted(a) == PowerN[a, Prime - 2]
Power(a, n) == IF n >= 0 THEN PowerN[a, n] ELSE PowerN[Inverted(a), -n]

Residue(fraction) == Multiply(fraction.n % Prime, Inverted(fraction.d % Prime))

SumMod(S, f(_)) == FoldSet(LAMBDA x, sum : (sum + f(x)) % Prime, 0, S)
ProductMod(S, f(_)) == FoldSet(LAMBDA x, product : Multiply(product, f(x)), 1, S)
=============================================================================
