---------------------------- MODULE AmountProofs ----------------------------
(***************************************************************************)
(* Proofs about Amount: the overflow checks of common/overflows.h fire     *)
(* exactly when the result does not fit, so sums, differences, products    *)
(* and fees of amounts are the mathematical ones, for every width, every   *)
(* number of millisatoshi in a satoshi and all amounts.                    *)
(***************************************************************************)
EXTENDS Amount, TLAPS

\* Division with remainder, by any positive number.
LEMMA DivMod ==
    ASSUME NEW n \in Int, NEW k \in Nat \ {0}
    PROVE  /\ n \div k \in Int /\ n % k \in 0 .. k - 1
           /\ n = (n \div k) * k + (n % k)
OBVIOUS

\* A product over one of its factors is the other.
LEMMA DivFactor ==
    ASSUME NEW a \in Nat \ {0}, NEW b \in Nat
    PROVE  (a * b) \div a = b
<1> DEFINE n == a * b
           q == n \div a
           r == n % a
<1>1. n \in Int
  OBVIOUS
<1> HIDE DEF n
<1>2. q \in Int /\ r \in 0 .. a - 1 /\ n = q * a + r
  BY <1>1, DivMod
<1>3. (b - q) * a = r
  <2>1. n = a * b
    BY DEF n
  <2> HIDE DEF q, r
  <2> QED BY <1>2, <2>1
<1> HIDE DEF q, r
<1>4. ASSUME b - q >= 1 PROVE FALSE
  <2>1. (b - q) * a >= a
    BY <1>2, <1>4
  <2> QED BY <2>1, <1>2, <1>3
<1>5. ASSUME b - q <= -1 PROVE FALSE
  <2>1. (b - q) * a <= -a
    BY <1>2, <1>5
  <2> QED BY <2>1, <1>2, <1>3
<1>6. b = q
  BY <1>2, <1>4, <1>5
<1> QED BY <1>6 DEF q, n

\* What fits is kept by the wrap, and what does not fit is made smaller by at
\* least M.
LEMMA Wrap ==
    ASSUME M \in Nat \ {0}, NEW n \in Nat
    PROVE  /\ n < M => n % M = n
           /\ n >= M => n % M <= n - M
           /\ n % M \in Amounts
<1> DEFINE q == n \div M
           r == n % M
<1>1. n \in Int
  OBVIOUS
<1>2. q \in Int /\ r \in 0 .. M - 1 /\ n = q * M + r
  BY <1>1, DivMod
<1> HIDE DEF q, r
<1>3. CASE q <= -1
  <2>1. q * M <= -M
    BY <1>2, <1>3
  <2> QED BY <2>1, <1>2
<1>4. CASE q = 0
  <2>1. n = r
    BY <1>2, <1>4
  <2> QED BY <2>1, <1>2 DEF r, Amounts
<1>5. CASE q >= 1
  <2>1. q * M >= M /\ q * M \in Int
    BY <1>2, <1>5
  <2>2. n >= M /\ r <= n - M
    BY <2>1, <1>2
  <2> QED BY <2>2, <1>2 DEF r, Amounts
<1> QED BY <1>2, <1>3, <1>4, <1>5

\* add_overflows_u64 notices every sum that does not fit, and no other.
LEMMA AddOverflows ==
    ASSUME M \in Nat \ {0}, NEW a \in Amounts, NEW b \in Amounts
    PROVE  add_overflows_u64(a, b) <=> a + b >= M
<1>1. a \in Nat /\ b \in Nat /\ a < M /\ b < M /\ a + b \in Nat
  BY DEF Amounts
<1> DEFINE n == a + b
<1>2. n \in Nat
  BY <1>1
<1> HIDE DEF n
<1>3. (n < M => n % M = n) /\ (n >= M => n % M <= n - M) /\ n % M \in Amounts
  BY <1>2, Wrap
<1> QED BY <1>1, <1>2, <1>3 DEF add_overflows_u64, n, Amounts

\* mul_overflows_u64 notices every product that does not fit, and no other.
LEMMA MulOverflows ==
    ASSUME M \in Nat \ {0}, NEW a \in Amounts, NEW b \in Nat
    PROVE  mul_overflows_u64(a, b) <=> a * b >= M
<1>1. a \in Nat /\ a < M /\ a * b \in Nat
  BY DEF Amounts
<1>2. CASE a = 0
  <2>1. a * b = 0
    BY <1>2
  <2> QED BY <1>2, <2>1 DEF mul_overflows_u64
<1>3. CASE a # 0
  <2> DEFINE n == a * b
             r == n % M
             q == r \div a
  <2>1. n \in Nat
    BY <1>1
  <2>2. n \div a = b
    BY <1>1, <1>3, DivFactor
  <2>3. mul_overflows_u64(a, b) <=> q # b
    BY <1>3 DEF mul_overflows_u64
  <2>9. n = a * b
    OBVIOUS
  <2> HIDE DEF n
  <2>4. (n < M => r = n) /\ (n >= M => r <= n - M) /\ r \in Nat
    BY <2>1, Wrap DEF Amounts
  <2> HIDE DEF r
  <2>5. CASE n < M
    BY <2>2, <2>3, <2>4, <2>5, <2>9 DEF q
  <2>6. CASE n >= M
    <3>1. q \in Int /\ r % a \in 0 .. a - 1 /\ r = q * a + (r % a)
      <4>1. r \in Int /\ a \in Nat \ {0}
        BY <1>1, <1>3, <2>4
      <4> QED BY <4>1, DivMod
    <3>2. r < n
      BY <2>1, <2>4, <2>6
    <3>3. ASSUME q = b PROVE FALSE
      <4>1. q * a = n
        BY <3>3, <2>9, <1>1
      <4>2. r % a >= 0 /\ r % a \in Int
        BY <3>1, <1>1
      <4>3. r = n + (r % a)
        BY <3>1, <4>1
      <4> QED BY <4>2, <4>3, <3>2, <2>1, <2>4
    <3> QED BY <3>3, <2>3, <2>6, <2>9
  <2> QED BY <2>1, <2>5, <2>6
<1> QED BY <1>2, <1>3

-----------------------------------------------------------------------------
\* amount_msat_add and amount_msat_sub return the mathematical result when it
\* is an amount, and nothing otherwise.
LEMMA AddSubExact ==
    ASSUME M \in Nat \ {0}, NEW a \in Amounts, NEW b \in Amounts
    PROVE  /\ amount_msat_add(a, b) = Exactly(a + b)
           /\ amount_msat_sub(a, b) = Exactly(a - b)
<1>1. a \in Nat /\ b \in Nat /\ a < M /\ b < M
  BY DEF Amounts
<1>2. amount_msat_add(a, b) = Exactly(a + b)
  <2> DEFINE n == a + b
  <2>1. n \in Nat
    BY <1>1
  <2>2. add_overflows_u64(a, b) <=> n >= M
    BY AddOverflows
  <2>3. amount_msat_add(a, b) = IF add_overflows_u64(a, b) THEN {} ELSE {n % M}
    BY DEF amount_msat_add
  <2> HIDE DEF n
  <2>4. n < M => n % M = n
    BY <2>1, Wrap
  <2>5. Exactly(n) = IF n >= M THEN {} ELSE {n}
    BY <2>1 DEF Exactly, Amounts
  <2>6. amount_msat_add(a, b) = Exactly(n)
    BY <2>1, <2>2, <2>3, <2>4, <2>5
  <2> QED BY <2>6 DEF n
<1>3. amount_msat_sub(a, b) = Exactly(a - b)
  BY <1>1 DEF amount_msat_sub, Exactly, Amounts
<1> QED BY <1>2, <1>3

\* amount_sat_to_msat returns the product when it is an amount.
LEMMA SatExact ==
    ASSUME M \in Nat \ {0}, MSAT_PER_SAT \in Nat, NEW b \in Amounts
    PROVE  /\ b * MSAT_PER_SAT \in Nat
           /\ amount_sat_to_msat(b) = Exactly(b * MSAT_PER_SAT)
           /\ b * MSAT_PER_SAT < M => amount_sat_to_msat(b) = {b * MSAT_PER_SAT}
           /\ b * MSAT_PER_SAT >= M => amount_sat_to_msat(b) = {}
<1> DEFINE n == b * MSAT_PER_SAT
<1>1. n \in Nat
  BY DEF Amounts
<1>2. mul_overflows_u64(b, MSAT_PER_SAT) <=> n >= M
  BY MulOverflows
<1>3. amount_sat_to_msat(b) = IF mul_overflows_u64(b, MSAT_PER_SAT) THEN {} ELSE {n % M}
  BY DEF amount_sat_to_msat
<1> HIDE DEF n
<1>4. n < M => n % M = n
  BY <1>1, Wrap
<1>5. Exactly(n) = IF n >= M THEN {} ELSE {n}
  BY <1>1 DEF Exactly, Amounts
<1>6. /\ n \in Nat /\ amount_sat_to_msat(b) = Exactly(n)
      /\ n < M => amount_sat_to_msat(b) = {n}
      /\ n >= M => amount_sat_to_msat(b) = {}
  BY <1>1, <1>2, <1>3, <1>4, <1>5
<1> QED BY <1>6 DEF n

\* For every width and number of millisatoshi in a satoshi: sums, differences
\* and conversions of any amounts are exact or refused, and comparisons of
\* millisatoshi with satoshi are those of the values (common/amount.c).
THEOREM AmountsExact ==
    ASSUME M \in Nat \ {0}, MSAT_PER_SAT \in Nat, Operands \subseteq Amounts, msat \in Amounts
    PROVE  ArithmeticExact
<1> SUFFICES ASSUME NEW b \in Operands
             PROVE  /\ amount_msat_add(msat, b) = Exactly(msat + b)
                    /\ amount_msat_sub(msat, b) = Exactly(msat - b)
                    /\ amount_sat_to_msat(b) = Exactly(b * MSAT_PER_SAT)
                    /\ amount_msat_add_sat(msat, b) = Exactly(msat + b * MSAT_PER_SAT)
                    /\ b * MSAT_PER_SAT < M =>
                        /\ amount_msat_sub_sat(msat, b) = Exactly(msat - b * MSAT_PER_SAT)
                        /\ amount_sat_sub_msat(b, msat) = Exactly(b * MSAT_PER_SAT - msat)
                        /\ amount_msat_greater_sat(msat, b) <=> msat > b * MSAT_PER_SAT
                        /\ amount_msat_greater_eq_sat(msat, b) <=> msat >= b * MSAT_PER_SAT
                        /\ amount_msat_less_sat(msat, b) <=> msat < b * MSAT_PER_SAT
                        /\ amount_msat_less_eq_sat(msat, b) <=> msat <= b * MSAT_PER_SAT
                        /\ amount_msat_eq_sat(msat, b) <=> msat = b * MSAT_PER_SAT
  BY DEF ArithmeticExact
<1> DEFINE n == b * MSAT_PER_SAT
<1>1. b \in Amounts
  OBVIOUS
<1>2. /\ n \in Nat /\ amount_sat_to_msat(b) = Exactly(n)
      /\ n < M => amount_sat_to_msat(b) = {n}
      /\ n >= M => amount_sat_to_msat(b) = {}
  BY <1>1, SatExact
<1> HIDE DEF n
<1>3. amount_msat_add(msat, b) = Exactly(msat + b) /\ amount_msat_sub(msat, b) = Exactly(msat - b)
  BY <1>1, AddSubExact
<1>4. ASSUME n < M
      PROVE  /\ amount_msat_add(msat, n) = Exactly(msat + n)
             /\ amount_msat_sub(msat, n) = Exactly(msat - n)
             /\ amount_msat_sub(n, msat) = Exactly(n - msat)
  <2>1. n \in Amounts
    BY <1>2, <1>4 DEF Amounts
  <2> QED BY <2>1, AddSubExact
<1>5. amount_msat_add_sat(msat, b) = Exactly(msat + n)
  <2>1. CASE n < M
    BY <2>1, <1>2, <1>4 DEF amount_msat_add_sat
  <2>2. CASE n >= M
    <3>1. amount_msat_add_sat(msat, b) = {}
      BY <2>2, <1>2 DEF amount_msat_add_sat
    <3>2. Exactly(msat + n) = {}
      BY <2>2, <1>2 DEF Exactly, Amounts
    <3> QED BY <3>1, <3>2
  <2> QED BY <1>2, <2>1, <2>2
<1>6. ASSUME n < M
      PROVE  /\ amount_msat_sub_sat(msat, b) = Exactly(msat - n)
             /\ amount_sat_sub_msat(b, msat) = Exactly(n - msat)
             /\ amount_msat_greater_sat(msat, b) <=> msat > n
             /\ amount_msat_greater_eq_sat(msat, b) <=> msat >= n
             /\ amount_msat_less_sat(msat, b) <=> msat < n
             /\ amount_msat_less_eq_sat(msat, b) <=> msat <= n
             /\ amount_msat_eq_sat(msat, b) <=> msat = n
  <2>1. amount_sat_to_msat(b) = {n}
    BY <1>2, <1>6
  <2>2. amount_msat_sub_sat(msat, b) = Exactly(msat - n)
    BY <2>1, <1>4, <1>6 DEF amount_msat_sub_sat
  <2>3. amount_sat_sub_msat(b, msat) = Exactly(n - msat)
    BY <2>1, <1>4, <1>6 DEF amount_sat_sub_msat
  <2> QED
    BY <2>1, <2>2, <2>3
       DEF amount_msat_greater_sat, amount_msat_greater_eq_sat, amount_msat_less_sat,
           amount_msat_less_eq_sat, amount_msat_eq_sat
<1> QED BY <1>2, <1>3, <1>5, <1>6 DEF n

\* For every width, fee base and proportion: amount_msat_fee is the fee of
\* BOLT 7, refused only when a term of it does not fit, and adding it to the
\* amount adds exactly the fee (common/amount.c).
THEOREM FeeIsExact ==
    ASSUME M \in Nat \ {0}, Million \in Nat \ {0}, Base \subseteq Amounts,
           Proportional \subseteq Nat, msat \in Amounts
    PROVE  FeesExact
<1> SUFFICES ASSUME NEW base \in Base, NEW prop \in Proportional
             PROVE  /\ amount_msat_fee(msat, base, prop) =
                            (IF msat * prop < M THEN Exactly(base + (msat * prop) \div Million) ELSE {})
                    /\ \A a \in amount_msat_add_fee(msat, base, prop) :
                            a = msat + (base + (msat * prop) \div Million)
  BY DEF FeesExact
<1> DEFINE n == msat * prop
           part == n \div Million
<1>1. n \in Nat /\ base \in Amounts /\ msat \in Nat /\ base \in Nat
  BY DEF Amounts
<1>2. mul_overflows_u64(msat, prop) <=> n >= M
  BY MulOverflows
<1>3. amount_msat_fee(msat, base, prop) =
          IF mul_overflows_u64(msat, prop) THEN {} ELSE amount_msat_add(base, (n % M) \div Million)
  BY DEF amount_msat_fee
<1> HIDE DEF n
<1>4. part \in Nat /\ part <= n
  BY <1>1
<1>5. n < M => n % M = n
  BY <1>1, Wrap
<1>6. ASSUME n < M PROVE amount_msat_add(base, part) = Exactly(base + part)
  <2>1. part \in Amounts
    BY <1>1, <1>4, <1>6 DEF Amounts
  <2> HIDE DEF part
  <2> QED BY <2>1, <1>1, AddSubExact
<1>7. amount_msat_fee(msat, base, prop) = IF n < M THEN Exactly(base + part) ELSE {}
  BY <1>1, <1>2, <1>3, <1>5, <1>6
<1>8. ASSUME NEW a \in amount_msat_add_fee(msat, base, prop) PROVE a = msat + (base + part)
  <2>1. PICK fee \in amount_msat_fee(msat, base, prop) : a \in amount_msat_add(msat, fee)
    BY <1>8 DEF amount_msat_add_fee
  <2>2. fee = base + part /\ fee \in Amounts
    BY <2>1, <1>7 DEF Exactly
  <2>3. a \in Exactly(msat + fee)
    BY <2>1, <2>2, AddSubExact
  <2> QED BY <2>2, <2>3 DEF Exactly
<1> QED BY <1>7, <1>8 DEF n
=============================================================================
