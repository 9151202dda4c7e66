------------------------------- MODULE Shamir -------------------------------
(***************************************************************************)
(* Shamir's sharing of the root key (ls-core crypto/shamir.rs), one byte at  *)
(* a time: the code shares every byte by a polynomial of its own.           *)
(*                                                                         *)
(* The code works in GF(2^8); here the width w of the field is a parameter,  *)
(* so that every secret, polynomial and choice of shares of a narrow field   *)
(* can be tried.  Shares are numbered 1 .. 2^w - 1, as the code's are by u8. *)
(***************************************************************************)
EXTENDS Integers, Sequences, SequencesExt, Bitwise

CONSTANT Reduction    \* for every width in use, what x^w reduces to (0x1B for 8)

Field(w) == 0 .. 2^w - 1
Refused == -1    \* any error of the functions here

-----------------------------------------------------------------------------
(* mod gf *)

add(a, b) == a ^^ b

\* one doubling of `a`: shift left, and reduce what left the field
Doubled(w, a) == add((2 * a) % 2^w, Reduction[w] * (a \div 2^(w - 1)))

\* w steps, each adding the doubled `a` for a set bit of `b`
mul(w, a, b) ==
    LET powers[i \in 0 .. w] == IF i = 0 THEN a ELSE Doubled(w, powers[i - 1])
        Step(product, i) == add(product, powers[i - 1] * ((b \div 2^(i - 1)) % 2))
    IN FoldLeft(Step, 0, [i \in 1 .. w |-> i])

\* a^n; the code multiplies by `a` n times, here the square of a^(n/2) is taken
RECURSIVE Power(_, _, _)
Power(w, a, n) ==
    IF n = 0 THEN 1
    ELSE LET half == Power(w, a, n \div 2)
         IN mul(w, mul(w, half, half), IF n % 2 = 1 THEN a ELSE 1)

inverse(w, a) == IF a = 0 THEN 0 ELSE Power(w, a, 2^w - 2)
div(w, a, b) == mul(w, a, inverse(w, b))

-----------------------------------------------------------------------------
(* split and combine *)

\* Mutant: the last coefficient is forgotten, a degree too few
evaluate_short(w, constant, coefficients, x) ==
    LET drawn == IF coefficients = <<>> THEN <<>> ELSE Front(coefficients)
    IN add(mul(w, FoldRight(LAMBDA c, acc : add(mul(w, acc, x), c), drawn, 0), x), constant)

\* Horner's rule: constant + c1 x + c2 x^2 + ...
evaluate(w, constant, coefficients, x) ==
    add(mul(w, FoldRight(LAMBDA c, acc : add(mul(w, acc, x), c), coefficients, 0), x), constant)

\* split, for the coefficients that random::fill drew
split(w, secret, threshold, shares, coefficients) ==
    IF threshold < 1 \/ threshold > shares THEN Refused
    ELSE [i \in 1 .. shares |-> [index |-> i, data |-> evaluate(w, secret, coefficients, i)]]

Duplicated(shares) ==
    \E i, j \in DOMAIN shares : i # j /\ shares[i].index = shares[j].index

\* what the i-th share is multiplied by when the polynomial is read off at 0
Basis(w, shares, i) ==
    LET Times(basis, j) ==
            IF j = i THEN basis
            ELSE mul(w, basis, div(w, shares[j].index, add(shares[i].index, shares[j].index)))
    IN FoldLeft(Times, 1, [j \in DOMAIN shares |-> j])

combine(w, shares) ==
    IF shares = <<>> \/ Duplicated(shares) THEN Refused
    ELSE FoldLeft(LAMBDA acc, i : add(acc, mul(w, shares[i].data, Basis(w, shares, i))),
                  0, [i \in DOMAIN shares |-> i])

=============================================================================
