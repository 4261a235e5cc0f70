------------------------------- MODULE Paise -------------------------------
(***************************************************************************)
(* The two conversions the money goes through on its way to Razorpay: from *)
(* rupees in a float64 to paise, int(rupees * 100), and from paise to      *)
(* rupees, float64(paise) / 100.  IEEE 754 doubles have 53 significant     *)
(* bits and round to nearest; what that does to p / 100 * 100 depends on   *)
(* the remainder that the division drops, so that no number below needs    *)
(* more bits than p itself.                                                *)
(***************************************************************************)
EXTENDS Integers

\* The exponent of the leading bit of n / d, for 2^-7 <= n / d < 2^23.
Exponent(n, d) ==
    CHOOSE e \in -7..23 : d * 2^(e + 7) <= n * 2^7 /\ n * 2^7 < d * 2^(e + 8)

\* The remainder of the division of p, scaled to 53 bits, by 100.
Dropped(p) ==
    LET scaled[k \in 0..59] ==
            IF k = 0 THEN p % 100 ELSE (2 * scaled[k - 1]) % 100
    IN scaled[52 - Exponent(p, 100)]

\* A quotient rounded down is short by Dropped(p) hundredths of its last bit.
\* Multiplied by 100 it rounds back to p unless that is more than half a bit
\* of the doubles below p; then the product is less than p and int() cuts it.
LosesAPaisa(p) ==
    /\ Dropped(p) < 50
    /\ Dropped(p) > 2^(Exponent(p, 1) - Exponent(p, 100) - 1)

\* Variant: paise divided as integers.
WholeRupees(p) == (p \div 100) * 100

\* int(float64(p) / 100 * 100): what the service orders for p paise, and what
\* it makes of an amount that its caller writes as p / 100 rupees.
ThroughRupees(p) == IF LosesAPaisa(p) THEN p - 1 ELSE p
=============================================================================
