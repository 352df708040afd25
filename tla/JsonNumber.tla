----------------------------- MODULE JsonNumber -----------------------------
(***************************************************************************)
(* Numbers out of JSON tokens: json_to_u64, json_to_s64 and what is built  *)
(* on them, json_to_millionths (common/json.c), json_to_bitcoin_amount     *)
(* (common/json_helpers.c).                                                *)
(*                                                                         *)
(* A text is a sequence of characters.  The conversions go through the C   *)
(* library's strtoull and strtoll with base 0, and look at errno, which    *)
(* these set when a number is out of range and nobody sets back; errno is  *)
(* therefore part of the state.  Widths stand for 64 and 32 bits.          *)
(***************************************************************************)
EXTENDS Integers, SequencesExt

CONSTANTS
    Width,      \* bits of u64
    Narrow,     \* bits of u32 and of int
    Places,     \* decimal places of millionths (6) and of bitcoin (8)
    Texts       \* the texts of the tokens

VARIABLES
    errno,      \* "ERANGE" or "other"
    last        \* the last conversion: [op, text, ok, num]

vars == <<errno, last>>

\* Digits.  A text is a sequence of characters.
DigitValue ==
    "0" :> 0 @@ "1" :> 1 @@ "2" :> 2 @@ "3" :> 3 @@ "4" :> 4 @@
    "5" :> 5 @@ "6" :> 6 @@ "7" :> 7 @@ "8" :> 8 @@ "9" :> 9

IsDigit(c) == c \in DOMAIN DigitValue

\* The value of digits in a base.
Numeral(digits, base) == FoldLeft(LAMBDA acc, c : acc * base + DigitValue[c], 0, digits)

\* How many characters from i on are digits.
DigitsFrom(text, i) ==
    CHOOSE n \in 0 .. Len(text) - i + 1 :
        /\ \A j \in i .. i + n - 1 : IsDigit(text[j])
        /\ i + n <= Len(text) => ~IsDigit(text[i + n])

Max64 == 2^Width - 1

\* The value of digits of a base, or {}.
Digits(digits, base) ==
    IF digits # <<>> /\ \A i \in DOMAIN digits : IsDigit(digits[i]) /\ DigitValue[digits[i]] < base
    THEN {Numeral(digits, base)} ELSE {}

\* What strtoull and strtoll make of a whole text with base 0: a sign, "0x"
\* or "0", digits; {} when they stop before its end.
Body(body) ==
    IF Len(body) > 2 /\ body[1] = "0" /\ body[2] = "x" THEN Digits(SubSeq(body, 3, Len(body)), 16)
    ELSE Digits(body, IF body # <<>> /\ body[1] = "0" THEN 8 ELSE 10)
Scanned(text) ==
    IF text # <<>> /\ text[1] = "-" THEN {-v : v \in Body(Tail(text))} ELSE Body(text)

\* [whole, l, range]: converted to the end, result, out of range.
Converted(values) ==
    IF values = {} THEN [whole |-> FALSE, l |-> 0, range |-> FALSE] ELSE CHOOSE c \in values : TRUE

strtoull(text) ==
    Converted({[whole |-> TRUE, range |-> v \notin -Max64 .. Max64,
                l |-> IF v \in -Max64 .. Max64 THEN v % 2^Width ELSE Max64] : v \in Scanned(text)})

MaxS64 == 2^(Width - 1) - 1
MinS64 == -2^(Width - 1)

strtoll(text) ==
    Converted({[whole |-> TRUE, range |-> v \notin MinS64 .. MaxS64,
                l |-> IF v < MinS64 THEN MinS64 ELSE IF v > MaxS64 THEN MaxS64 ELSE v] :
               v \in Scanned(text)})

\* errno after a call.
Errno(c) == IF c.range THEN "ERANGE" ELSE errno

No == [ok |-> FALSE, num |-> 0]

\* The limits of the conversion are refused when errno says so.
Refused(c, limits) == c.l \in limits /\ Errno(c) = "ERANGE"
Within(c, limits) == [ok |-> c.whole /\ ~Refused(c, limits), num |-> c.l]

json_to_u64(text) == Within(strtoull(text), {Max64})

json_to_s64(text) == Within(strtoll(text), {MaxS64, MinS64})

\* Mutant of json_to_u32: what does not fit is cut off.
json_to_u32_Cut(text) == [json_to_u64(text) EXCEPT !.num = @ % 2^Narrow]

Fits(r, range) == [r EXCEPT !.ok = @ /\ r.num \in range]

\* json_to_u32; json_to_number and json_to_u16 are the same.
json_to_u32(text) == Fits(json_to_u64(text), 0 .. 2^Narrow - 1)

\* json_to_int; json_to_errcode is the same.
json_to_int(text) == Fits(json_to_s64(text), -2^(Narrow - 1) .. 2^(Narrow - 1) - 1)

\* One character of json_to_millionths: [ok, num, places], places -1 before
\* the point.
MillionthsStep(keep, s, c) ==
    IF ~s.ok THEN s
    ELSE IF IsDigit(c)
         THEN LET places == IF s.places >= 0 THEN s.places + 1 ELSE s.places
                  n == s.num * 10 + DigitValue[c]
              IN  IF places > keep THEN [s EXCEPT !.places = places, !.digits = TRUE]
                  ELSE [ok |-> n <= Max64, num |-> n, places |-> places, digits |-> TRUE]
         ELSE IF c = "." /\ s.places = -1 THEN [s EXCEPT !.places = 0]
         ELSE [s EXCEPT !.ok = FALSE]

\* The places that are missing are zeroes.
Padded(s) ==
    LET done == IF s.places = -1 THEN 0 ELSE s.places
    IN  IF done < Places THEN s.num * 10^(Places - done) ELSE s.num
Counted(s) == IF s.ok /\ s.digits /\ Padded(s) <= Max64 THEN [ok |-> TRUE, num |-> Padded(s)] ELSE No
Millionths(text, keep) ==
    Counted(FoldLeft(LAMBDA a, c : MillionthsStep(keep, a, c),
                     [ok |-> TRUE, num |-> 0, places |-> -1, digits |-> FALSE], text))


json_to_millionths(text) == Millionths(text, Places)

\* strtoul with base 10 of the leading part of a text: how many characters
\* it takes, and the value.
Taken(text, n) == [len |-> n, num |-> Numeral(SubSeq(text, 1, n), 10)]
Leading(text) == Taken(text, DigitsFrom(text, 1))

\* Unsigned texts only.  A part that is out of range is refused; the sum is
\* compared with itself, so that it may wrap.
PointAndPlaces(text, btc, rest, sat) ==
    IF text[btc.len + 1] # "." \/ Len(rest) # Places \/ sat.len # Len(rest) THEN No
    ELSE [ok |-> TRUE, num |-> (btc.num * 10^Places + sat.num) % 2^Width]
Places8(text, btc, rest) == PointAndPlaces(text, btc, rest, Leading(rest))
BitcoinAmount(text, btc) ==
    IF btc.num > Max64 THEN No
    ELSE IF btc.len = Len(text) THEN [ok |-> TRUE, num |-> (btc.num * 10^Places) % 2^Width]
    ELSE Places8(text, btc, SubSeq(text, btc.len + 2, Len(text)))
json_to_bitcoin_amount(text) == BitcoinAmount(text, Leading(text))

-----------------------------------------------------------------------------

Idle == [op |-> "none", text |-> <<>>, ok |-> FALSE, num |-> 0]

Init == errno = "other" /\ last = Idle

Convert(op, text, r, range) ==
    /\ last = Idle
    /\ last' = [op |-> op, text |-> text, ok |-> r.ok, num |-> r.num]
    /\ errno' = IF range THEN "ERANGE" ELSE errno

\* Other code of the program leaves some other value in errno.
OtherCall == last = Idle /\ errno' = "other" /\ UNCHANGED last

\* The caller has used the result.
Used == last # Idle /\ last' = Idle /\ UNCHANGED errno

Unsigned(text) == text # <<>> /\ text[1] # "-"

Next ==
    \/ OtherCall
    \/ Used
    \/ \E t \in Texts :
        \/ Convert("u64", t, json_to_u64(t), strtoull(t).range)
        \/ Convert("s64", t, json_to_s64(t), strtoll(t).range)
        \/ Convert("u32", t, json_to_u32(t), strtoull(t).range)
        \/ Convert("int", t, json_to_int(t), strtoll(t).range)
        \/ Convert("millionths", t, json_to_millionths(t), FALSE)
        \/ Unsigned(t) /\ Convert("bitcoin", t, json_to_bitcoin_amount(t), Leading(t).num > Max64)

Spec == Init /\ [][Next]_vars

-----------------------------------------------------------------------------

\* JSON integers: no sign but "-", no zeros in front.
IsInteger(text) ==
    LET body == IF text # <<>> /\ text[1] = "-" THEN Tail(text) ELSE text
    IN  /\ body # <<>> /\ \A i \in DOMAIN body : IsDigit(body[i])
        /\ body[1] = "0" => Len(body) = 1
IntegerValue(text) ==
    IF text[1] = "-" THEN -Numeral(Tail(text), 10) ELSE Numeral(text, 10)

Limits ==
    [u64 |-> 0 .. Max64, s64 |-> MinS64 .. MaxS64,
     u32 |-> 0 .. 2^Narrow - 1, int |-> -2^(Narrow - 1) .. 2^(Narrow - 1) - 1]

\* Of a JSON integer that is in the range of the type asked for, and not the
\* last of the 64-bit ones, the value is returned, whatever errno was; one
\* that is above the range is refused, and never cut off.
IntegersExact ==
    last.op \in DOMAIN Limits /\ IsInteger(last.text) =>
        LET v == IntegerValue(last.text)
        IN  /\ v \in Limits[last.op] /\ v \notin {Max64, MaxS64, MinS64}
                => last.ok /\ last.num = v
            /\ v >= 0 /\ v \notin Limits[last.op] => ~last.ok

\* Digits, and at most one point in them.
IsDecimal(text) ==
    /\ \E i \in DOMAIN text : IsDigit(text[i])
    /\ \A i \in DOMAIN text : IsDigit(text[i]) \/ text[i] = "."
    /\ Cardinality({i \in DOMAIN text : text[i] = "."}) <= 1

\* The value of a decimal, times ten to the Places, rounded down.
DecimalValue(text) ==
    LET point == Min({Len(text) + 1} \cup {i \in DOMAIN text : text[i] = "."})
        whole == SubSeq(text, 1, point - 1)
        frac == SubSeq(text, point + 1, Len(text))
        all == Numeral(whole \o frac, 10)
    IN  (all * 10^Places) \div 10^Len(frac)

\* A decimal gives the integer part of itself times a million, and is refused
\* exactly when that does not fit; so is what is not a decimal.  Bitcoin
\* amounts that fit in 64 bits are exact, with all of their places.
DecimalsExact ==
    /\ last.op = "millionths" =>
        (IF IsDecimal(last.text) /\ DecimalValue(last.text) <= Max64
         THEN last.ok /\ last.num = DecimalValue(last.text)
         ELSE ~last.ok)
    /\ last.op = "bitcoin" /\ last.ok /\ DecimalValue(last.text) <= Max64 =>
        last.num = DecimalValue(last.text)
=============================================================================
