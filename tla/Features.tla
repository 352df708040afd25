------------------------------ MODULE Features ------------------------------
(***************************************************************************)
(* Feature bits (common/features.c): big-endian bitfields, one for each    *)
(* place that a feature is shown at, to which plugins add features and     *)
(* from which they are taken again.                                        *)
(*                                                                         *)
(* A bitfield is a sequence of bytes, the most significant first, and a    *)
(* byte is the set of its bits.  Features come in pairs of bits, the even  *)
(* one compulsory and the odd one optional.  ByteBits stands for 8.        *)
(***************************************************************************)
EXTENDS Integers, SequencesExt

CONSTANTS
    ByteBits,       \* even
    Places,         \* enum feature_place
    Styles,         \* feature_styles: feature -> place -> style
    Theirs          \* bitfields of a peer

VARIABLE fset       \* our features: place -> bitfield

COMPULSORY_FEATURE(f) == (f \div 2) * 2
OPTIONAL_FEATURE(f) == COMPULSORY_FEATURE(f) + 1
BitsIn(features) == 0 .. ByteBits * Len(features) - 1

test_bit(features, byte, bit) == bit % ByteBits \in features[Len(features) - byte]

feature_is_set(features, bit) ==
    bit \div ByteBits < Len(features) /\ test_bit(features, bit \div ByteBits, bit)

feature_offered(features, f) ==
    feature_is_set(features, COMPULSORY_FEATURE(f)) \/ feature_is_set(features, OPTIONAL_FEATURE(f))

\* Mutant of trim_features: the last byte goes, not the first.
trim_features_End(features) ==
    LET zeros == Max({n \in 0 .. Len(features) : \A i \in 1 .. n : features[i] = {}})
    IN  SubSeq(features, 1, Len(features) - zeros)

trim_features(features) ==
    LET zeros == Max({n \in 0 .. Len(features) : \A i \in 1 .. n : features[i] = {}})
    IN  SubSeq(features, zeros + 1, Len(features))

clear_feature_bit(features, bit) ==
    IF bit \div ByteBits >= Len(features) THEN features
    ELSE [features EXCEPT ![Len(features) - bit \div ByteBits] = @ \ {bit % ByteBits}]

set_feature_bit(features, bit) ==
    LET newlen == bit \div ByteBits + 1
        new == IF newlen > Len(features)
               THEN [i \in 1 .. newlen - Len(features) |-> {}] \o features ELSE features
    IN  [new EXCEPT ![Len(new) - bit \div ByteBits] = @ \cup {bit % ByteBits}]

\* f(features, bit) for every bit of a set, from the lowest.
SetAll(features, bits) == FoldLeft(set_feature_bit, features, SetToSortSeq(bits, <))
ClearAll(features, bits) == FoldLeft(clear_feature_bit, features, SetToSortSeq(bits, <))
BitsOf(features) == {j \in BitsIn(features) : feature_is_set(features, j)}

feature_copy_style(f, p) == Styles[COMPULSORY_FEATURE(f)][p]

feature_set_for_feature(feature) ==
    [p \in Places |->
        CASE feature_copy_style(feature, p) = "dont_represent" -> <<>>
          [] feature_copy_style(feature, p) = "represent" -> set_feature_bit(<<>>, feature)
          [] feature_copy_style(feature, p) = "represent_as_optional" ->
                set_feature_bit(<<>>, OPTIONAL_FEATURE(feature))]

\* Both return {} for false; nothing is changed before all has been checked.
feature_set_or(a, b) ==
    IF \E p \in Places : \E j \in BitsOf(b[p]) : feature_offered(a[p], j) THEN {}
    ELSE {[p \in Places |-> SetAll(a[p], BitsOf(b[p]))]}

\* Mutant of feature_set_sub: the bytes that are empty now stay.
feature_set_sub_Untrimmed(a, b) ==
    IF \E p \in Places : \E j \in BitsOf(b[p]) : ~feature_offered(a[p], j) THEN {}
    ELSE {[p \in Places |-> ClearAll(a[p], BitsOf(b[p]))]}

feature_set_sub(a, b) ==
    IF \E p \in Places : \E j \in BitsOf(b[p]) : ~feature_offered(a[p], j) THEN {}
    ELSE {[p \in Places |-> trim_features(ClearAll(a[p], BitsOf(b[p])))]}

\* The loop of get_agreed_channelfeatures from bit i on; what is dropped is
\* trimmed at once, which may end the loop.
RECURSIVE Agree(_, _, _, _)
Agree(f, their, i, max_len) ==
    IF i >= ByteBits * Len(f) THEN [f |-> f, max_len |-> max_len]
    ELSE IF ~feature_offered(f, i) THEN Agree(f, their, i + 2, max_len)
    ELSE IF ~feature_offered(their, i)
         THEN Agree(trim_features(clear_feature_bit(clear_feature_bit(f, i), i + 1)),
                    their, i + 2, max_len)
    ELSE Agree(f, their, i + 2, i \div ByteBits + 1)

get_agreed_channelfeatures(our, their) ==
    LET r == Agree(our["channel"], their, 0, 0) IN SubSeq(r.f, 1, r.max_len)

\* -1, or the first even bit that we do not know.
all_supported_features(our, bitmap, p) ==
    LET bad == {b \in BitsIn(bitmap) : /\ b % 2 = 0 /\ test_bit(bitmap, b \div ByteBits, b)
                                       /\ ~feature_offered(our[p], b)}
    IN  IF bad = {} THEN -1 ELSE Min(bad)

\* Bit 2 stands for the initial_routing_sync that is never compulsory.
features_unsupported(our, their, p) ==
    IF feature_is_set(their, 2) THEN 2 ELSE all_supported_features(our, their, p)

\* Mutant of featurebits_or: packed to the front.
featurebits_or_Front(f1, f2) ==
    LET long == IF Len(f1) < Len(f2) THEN f2 ELSE f1
        short == IF Len(f1) < Len(f2) THEN f1 ELSE f2
    IN  [i \in DOMAIN long |-> long[i] \cup (IF i <= Len(short) THEN short[i] ELSE {})]

featurebits_or(f1, f2) ==
    LET long == IF Len(f1) < Len(f2) THEN f2 ELSE f1
        short == IF Len(f1) < Len(f2) THEN f1 ELSE f2
        off == Len(long) - Len(short)
    IN  [i \in DOMAIN long |-> long[i] \cup (IF i > off THEN short[i - off] ELSE {})]

featurebits_eq(f1, f2) ==
    \A i \in BitsIn(f1) \cup BitsIn(f2) : feature_is_set(f1, i) <=> feature_is_set(f2, i)

-----------------------------------------------------------------------------

Init == fset = [p \in Places |-> <<>>]

\* What a plugin brings along: one feature.
Offered == {feature_set_for_feature(f) : f \in UNION {{g, g + 1} : g \in DOMAIN Styles}}

Next == \E b \in Offered : fset' \in feature_set_or(fset, b) \cup feature_set_sub(fset, b)

Spec == Init /\ [][Next]_fset

-----------------------------------------------------------------------------

\* Taking away the features that were just added restores the set, to the
\* length of its bitfields.
SubUndoesOr ==
    \A b \in Offered : \A c \in feature_set_or(fset, b) : feature_set_sub(c, b) = {fset}

\* The features of a channel are ours of which the peer offers either bit, in
\* the least number of bytes, however long the two bitfields are.
AgreedExact ==
    \A their \in Theirs :
        LET f == get_agreed_channelfeatures(fset, their)
        IN  /\ BitsOf(f) = {b \in BitsOf(fset["channel"]) : feature_offered(their, b)}
            /\ f # <<>> => f[1] # {}

\* A union of bitfields of different lengths has the bits of both; it equals
\* the longer one exactly if that had them all; a peer is supported exactly
\* if each of its compulsory features is one of ours.
UnionExact ==
    \A their \in Theirs : \A p \in Places :
        LET or == featurebits_or(fset[p], their)
            bad == features_unsupported(fset, their, p)
        IN  /\ BitsOf(or) = BitsOf(fset[p]) \cup BitsOf(their)
            /\ featurebits_eq(or, their) <=> BitsOf(fset[p]) \subseteq BitsOf(their)
            /\ bad = -1 <=> \A b \in BitsOf(their) :
                                b % 2 = 0 => b # 2 /\ feature_offered(fset[p], b)
=============================================================================
