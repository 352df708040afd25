------------------------------- MODULE Amount -------------------------------
(***************************************************************************)
(* Amounts of money (common/amount.c), the overflow checks they rest on    *)
(* (common/overflows.h), their 16-bit approximation (common/fp16.c).       *)
(*                                                                         *)
(* An operation that can fail returns a set: {} for false, {result} for    *)
(* true.  Width stands for 64 bits, SatPlaces for the 3 digits of a        *)
(* millisatoshi in a satoshi, BtcPlaces for the 8 digits of a satoshi in a *)
(* bitcoin, Million for 1000000, and MantissaBits, MaxExponent for the 11  *)
(* bits and the 31 of fp16_t.  In a text, "msat", "sat" and "btc" are one  *)
(* element.                                                                *)
(***************************************************************************)
EXTENDS Integers, SequencesExt

CONSTANTS Width, SatPlaces, BtcPlaces, Million, MantissaBits, MaxExponent,
    Base, Proportional,     \* the fees
    Operands,               \* the other amounts of the operations
    Numerals                \* numerals of the texts

VARIABLE msat               \* an amount of the program, in millisatoshi

\* Digits.  A text is a sequence of strings.
DigitValue ==
    "0" :> 0 @@ "1" :> 1 @@ "2" :> 2 @@ "3" :> 3 @@ "4" :> 4 @@
    "5" :> 5 @@ "6" :> 6 @@ "7" :> 7 @@ "8" :> 8 @@ "9" :> 9

IsDigit(c) == c \in DOMAIN DigitValue

\* How many characters from i on are digits.
DigitsFrom(text, i) ==
    CHOOSE n \in 0 .. Len(text) - i + 1 :
        /\ \A j \in i .. i + n - 1 : IsDigit(text[j])
        /\ i + n <= Len(text) => ~IsDigit(text[i + n])

\* printf of a number, with zeros in front up to a width (1 for "%d").
Formatted(n, width) ==
    LET len == CHOOSE k \in width .. width + 12 : n < 10^k /\ (k > width => n >= 10^(k - 1))
    IN  [i \in 1 .. len |-> ToString((n \div 10^(len - i)) % 10)]

M == 2^Width
Amounts == 0 .. M - 1
MSAT_PER_SAT == 10^SatPlaces
SAT_PER_BTC == 10^BtcPlaces
MSAT_PER_BTC == MSAT_PER_SAT * SAT_PER_BTC

\* Mutant of add_overflows_u64: a sum of zero is not noticed.
add_overflows_u64_Zero(a, b) == (a + b) % M < a /\ (a + b) % M # 0

add_overflows_u64(a, b) == (a + b) % M < a

mul_overflows_u64(a, b) == a # 0 /\ ((a * b) % M) \div a # b

amount_sat_to_msat(sat) ==
    IF mul_overflows_u64(sat, MSAT_PER_SAT) THEN {} ELSE {(sat * MSAT_PER_SAT) % M}

amount_msat_to_sat_round_down(m) == m \div MSAT_PER_SAT

\* amount_msat_add; amount_sat_add is the same.
amount_msat_add(a, b) == IF add_overflows_u64(a, b) THEN {} ELSE {(a + b) % M}

\* amount_msat_sub; amount_sat_sub is the same.
amount_msat_sub(a, b) == IF a < b THEN {} ELSE {a - b}

amount_msat_sub_sat(a, b) == UNION {amount_msat_sub(a, m) : m \in amount_sat_to_msat(b)}
amount_sat_sub_msat(a, b) == UNION {amount_msat_sub(m, b) : m \in amount_sat_to_msat(a)}
amount_msat_add_sat(a, b) == UNION {amount_msat_add(a, m) : m \in amount_sat_to_msat(b)}

amount_msat_div(a, div) == a \div div

\* Comparisons of millisatoshi with satoshi: false when the satoshi do not fit.
amount_msat_greater_sat(a, b) == \E m \in amount_sat_to_msat(b) : a > m
amount_msat_greater_eq_sat(a, b) == \E m \in amount_sat_to_msat(b) : a >= m
amount_msat_less_sat(a, b) == \E m \in amount_sat_to_msat(b) : a < m
amount_msat_less_eq_sat(a, b) == \E m \in amount_sat_to_msat(b) : a <= m
amount_msat_eq_sat(a, b) == \E m \in amount_sat_to_msat(b) : a = m

\* Mutant of amount_msat_fee: the product is not checked.
amount_msat_fee_Wraps(a, base, prop) == amount_msat_add(base, ((a * prop) % M) \div Million)

amount_msat_fee(a, base, prop) ==
    IF mul_overflows_u64(a, prop) THEN {}
    ELSE amount_msat_add(base, ((a * prop) % M) \div Million)

amount_msat_add_fee(a, base, prop) ==
    UNION {amount_msat_add(a, fee) : fee \in amount_msat_fee(a, base, prop)}

-----------------------------------------------------------------------------
\* Texts.

fmt_amount_msat_btc(m) ==
    (IF m = 0 THEN <<"0">>
     ELSE Formatted(m \div MSAT_PER_BTC, 1) \o <<".">>
          \o Formatted(m % MSAT_PER_BTC, SatPlaces + BtcPlaces)) \o <<"btc">>
fmt_amount_msat(m) == Formatted(m, 1) \o <<"msat">>
fmt_amount_sat_btc(s) ==
    (IF s = 0 THEN <<"0">>
     ELSE Formatted(s \div SAT_PER_BTC, 1) \o <<".">> \o Formatted(s % SAT_PER_BTC, BtcPlaces))
    \o <<"btc">>
fmt_amount_sat(s) == Formatted(s, 1) \o <<"sat">>

\* [ok, whole, point, post, suffix]: the digits before and after a point, and
\* what follows ("" for nothing).
breakup(str) ==
    LET n == DigitsFrom(str, 1)
        point == n < Len(str) /\ str[n + 1] = "."
        k == IF point THEN DigitsFrom(str, n + 2) ELSE 0
        at == IF point THEN n + 2 + k ELSE n + 1
        end == at > Len(str)
    IN  [ok |-> IF ~end THEN TRUE ELSE IF point THEN k > 0 ELSE str # <<>>,
         whole |-> SubSeq(str, 1, n), point |-> point,
         post |-> IF point THEN SubSeq(str, n + 2, n + 1 + k) ELSE <<>>,
         suffix |-> IF end THEN "" ELSE str[at]]

\* One digit, or one factor of ten, of from_number.
TimesTen(res) == UNION {IF mul_overflows_u64(r, 10) THEN {} ELSE {(r * 10) % M} : r \in res}
PlusDigit(res, d) == UNION {IF add_overflows_u64(r, d) THEN {} ELSE {(r + d) % M} : r \in res}

from_number(digits, tens_factor) ==
    IF digits = <<>> THEN {}
    ELSE LET num == FoldLeft(LAMBDA res, c : PlusDigit(TimesTen(res), DigitValue[c]), {0}, digits)
         IN  FoldLeft(LAMBDA res, i : TimesTen(res), num, [i \in 1 .. tens_factor |-> i])

\* Mutant of from_numbers: the digits after the point are not moved up to
\* their places.
from_numbers_Unscaled(s1, tens_factor, s2) ==
    IF Len(s2) > tens_factor THEN {}
    ELSE UNION {amount_msat_add(p1, p2) :
                p1 \in from_number(s1, tens_factor), p2 \in from_number(s2, 0)}

from_numbers(s1, tens_factor, s2) ==
    IF Len(s2) > tens_factor THEN {}
    ELSE UNION {amount_msat_add(p1, p2) : p1 \in from_number(s1, tens_factor),
                                          p2 \in from_number(s2, tens_factor - Len(s2))}

Btc(b, places) ==
    IF b.post # <<>> THEN from_numbers(b.whole, places, b.post) ELSE from_number(b.whole, places)

parse_amount_msat(str) ==
    LET b == breakup(str)
    IN  CASE ~b.ok -> {}
          [] b.ok /\ ~b.point /\ b.suffix \in {"", "msat"} -> from_number(b.whole, 0)
          [] b.ok /\ ~b.point /\ b.suffix = "sat" -> from_number(b.whole, SatPlaces)
          [] b.ok /\ b.suffix = "btc" -> Btc(b, SatPlaces + BtcPlaces)
          [] OTHER -> {}

Zeros(n) == [i \in 1 .. n |-> "0"]

parse_amount_sat(str) ==
    LET b == breakup(str)
    IN  CASE ~b.ok -> {}
          [] b.ok /\ ~b.point /\ b.suffix \in {"", "sat"} -> from_number(b.whole, 0)
          [] b.ok /\ ~b.point /\ b.suffix = "msat" ->
                IF IsSuffix(Zeros(SatPlaces), b.whole)
                THEN from_number(SubSeq(b.whole, 1, Len(b.whole) - SatPlaces), 0)
                ELSE IF IsPrefix(<<"0">>, b.whole) THEN from_number(b.whole, 0) ELSE {}
          [] b.ok /\ b.suffix = "btc" -> Btc(b, BtcPlaces)
          [] OTHER -> {}

-----------------------------------------------------------------------------
\* 16-bit floating point, as [exponent, mantissa].

fp16_to_u64(fp) == (fp.mantissa * 2^fp.exponent) % M

\* Mutant of u64_to_fp16: the mantissa that is rounded up is not carried.
u64_to_fp16_NoCarry(val, round_up) ==
    LET bits == CHOOSE n \in 0 .. Width : val < 2^n /\ (n > 0 => val >= 2^(n - 1))
        exponent == IF bits > MantissaBits THEN bits - MantissaBits ELSE 0
        up == round_up /\ val % 2^exponent # 0
        mantissa == ((val \div 2^exponent) + (IF up THEN 1 ELSE 0)) % 2^MantissaBits
    IN  IF exponent > MaxExponent
        THEN [exponent |-> MaxExponent, mantissa |-> 2^MantissaBits - 1]
        ELSE [exponent |-> exponent, mantissa |-> mantissa]

u64_to_fp16(val, round_up) ==
    LET bits == CHOOSE n \in 0 .. Width : val < 2^n /\ (n > 0 => val >= 2^(n - 1))
        exp0 == IF bits > MantissaBits THEN bits - MantissaBits ELSE 0
        up == round_up /\ val % 2^exp0 # 0
        man0 == (val \div 2^exp0) + (IF up THEN 1 ELSE 0)
        carry == man0 = 2^MantissaBits
        exponent == IF carry THEN exp0 + 1 ELSE exp0
        mantissa == IF carry THEN man0 \div 2 ELSE man0
    IN  IF exponent > MaxExponent
        THEN [exponent |-> MaxExponent, mantissa |-> 2^MantissaBits - 1]
        ELSE [exponent |-> exponent, mantissa |-> mantissa]

amount_msat_less_fp16(a, fp) == a < fp16_to_u64(fp)
amount_msat_greater_fp16(a, fp) == a > fp16_to_u64(fp)

-----------------------------------------------------------------------------
\* A program that computes with one amount; what fails leaves it alone.

Init == msat = 0

Texts == {n \o s : n \in Numerals, s \in {<<>>, <<"msat">>, <<"sat">>, <<"btc">>}}

Results ==
    UNION {parse_amount_msat(t) : t \in Texts}
    \cup UNION {amount_msat_add(msat, b) \cup amount_msat_sub(msat, b) : b \in Base}
    \cup UNION {amount_msat_add_sat(msat, b) \cup amount_msat_sub_sat(msat, b) : b \in Base}
    \cup UNION {amount_msat_add_fee(msat, b, p) : b \in Base, p \in Proportional}
    \cup {amount_msat_div(msat, 2)}

Next == msat' \in Results

Spec == Init /\ [][Next]_msat

-----------------------------------------------------------------------------

Exactly(x) == {x} \cap Amounts

\* Sums, differences and products are the mathematical ones, and are refused
\* exactly when these are no amounts: amount_msat_add and its like.
ArithmeticExact ==
    \A b \in Operands :
        /\ amount_msat_add(msat, b) = Exactly(msat + b)
        /\ amount_msat_sub(msat, b) = Exactly(msat - b)
        /\ amount_sat_to_msat(b) = Exactly(b * MSAT_PER_SAT)
        /\ amount_msat_add_sat(msat, b) = Exactly(msat + b * MSAT_PER_SAT)
        /\ b * MSAT_PER_SAT < M =>
            /\ amount_msat_sub_sat(msat, b) = Exactly(msat - b * MSAT_PER_SAT)
            /\ amount_sat_sub_msat(b, msat) = Exactly(b * MSAT_PER_SAT - msat)
            /\ amount_msat_greater_sat(msat, b) <=> msat > b * MSAT_PER_SAT
            /\ amount_msat_greater_eq_sat(msat, b) <=> msat >= b * MSAT_PER_SAT
            /\ amount_msat_less_sat(msat, b) <=> msat < b * MSAT_PER_SAT
            /\ amount_msat_less_eq_sat(msat, b) <=> msat <= b * MSAT_PER_SAT
            /\ amount_msat_eq_sat(msat, b) <=> msat = b * MSAT_PER_SAT

\* The fee of an amount is the one of BOLT 7, or is refused because a term of
\* it does not fit; an amount with its fee is never less than the amount.
FeesExact ==
    \A base \in Base, prop \in Proportional :
        LET fee == base + (msat * prop) \div Million
        IN  /\ amount_msat_fee(msat, base, prop) =
                    (IF msat * prop < M THEN Exactly(fee) ELSE {})
            /\ \A a \in amount_msat_add_fee(msat, base, prop) : a = msat + fee

\* What the program writes, it reads back as the same amount; satoshi are read
\* from millisatoshi only when none are lost.
TextsRoundTrip ==
    LET sat == amount_msat_to_sat_round_down(msat)
    IN  /\ parse_amount_msat(fmt_amount_msat(msat)) = {msat}
        /\ parse_amount_msat(fmt_amount_msat_btc(msat)) = {msat}
        /\ parse_amount_msat(fmt_amount_sat(sat)) = {sat * MSAT_PER_SAT}
        /\ parse_amount_msat(fmt_amount_sat_btc(sat)) = {sat * MSAT_PER_SAT}
        /\ parse_amount_sat(fmt_amount_sat(msat)) = {msat}
        /\ parse_amount_sat(fmt_amount_sat_btc(msat)) = {msat}
        /\ parse_amount_sat(fmt_amount_msat(msat)) =
                (IF msat % MSAT_PER_SAT = 0 THEN {sat} ELSE {})

\* The approximation lies on the side that was asked for, is less than one
\* step of its exponent away, and is the amount itself if that is small.
ApproximationBounds ==
    LET lo == u64_to_fp16(msat, FALSE)
        hi == u64_to_fp16(msat, TRUE)
        Largest(fp) == fp = [exponent |-> MaxExponent, mantissa |-> 2^MantissaBits - 1]
    IN  /\ ~amount_msat_less_fp16(msat, lo)
        /\ Largest(hi) \/ ~amount_msat_greater_fp16(msat, hi)
        /\ Largest(lo) \/ msat - fp16_to_u64(lo) < 2^lo.exponent
        /\ Largest(hi) \/ fp16_to_u64(hi) - msat < 2^hi.exponent
        /\ {lo.mantissa, hi.mantissa} \subseteq 0 .. 2^MantissaBits - 1
        /\ msat < 2^MantissaBits => fp16_to_u64(lo) = msat /\ fp16_to_u64(hi) = msat
=============================================================================
