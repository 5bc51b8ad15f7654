------------------------------ MODULE Fractions ------------------------------
(* Exact fractions, <<numerator, denominator>> in lowest terms with a      *)
(* positive denominator: they stand for the floats of a computation whose  *)
(* quotients would not be integers.                                        *)
EXTENDS Integers, SequencesExt

Gcd[pair \in Nat \X Nat] ==
    IF pair[2] = 0 THEN pair[1] ELSE Gcd[<<pair[2], pair[1] % pair[2]>>]

\* Both parts are multiples of g.
Lowest(n, d, g) == <<n \div g, d \div g>>
Frac(n, d) == Lowest(n, d, Gcd[<<IF n < 0 THEN -n ELSE n, d>>])

Whole(n)    == <<n, 1>>
Zero        == Whole(0)
One         == Whole(1)
\* With g, the common divisor of the denominators, numbers stay small.
Added(x, y, g) == Frac(x[1] * (y[2] \div g) + y[1] * (x[2] \div g), x[2] * (y[2] \div g))
Plus(x, y)  == Added(x, y, Gcd[<<x[2], y[2]>>])
Neg(x)      == <<-x[1], x[2]>>
Minus(x, y) == Plus(x, Neg(y))
Product(v, w) == <<v[1] * w[1], v[2] * w[2]>>
Times(x, y) == Product(Frac(x[1], y[2]), Frac(y[1], x[2]))
Over(x, y)  == Times(x, IF y[1] > 0 THEN <<y[2], y[1]>> ELSE <<-y[2], -y[1]>>)
Less(x, y, g) == x[1] * (y[2] \div g) < y[1] * (x[2] \div g)
Below(x, y) == Less(x, y, Gcd[<<x[2], y[2]>>])
AtMost(x, y) == x = y \/ Below(x, y)

\* A fraction, and one that is positive, as every price is.
IsFraction(x) == x[1] \in Int /\ x[2] \in Nat \ {0} /\ x = Frac(x[1], x[2])
IsPositive(x) == IsFraction(x) /\ Below(Zero, x)

\* The sum of a sequence.
Total(values) ==
    LET sum[n \in 0..Len(values)] == IF n = 0 THEN Zero ELSE Plus(sum[n - 1], values[n])
    IN  sum[Len(values)]
=============================================================================
