---------------------------- MODULE MCMessages ----------------------------
(***************************************************************************)
(* Instances for TLC of the commands of payecs_data and of what reads and  *)
(* writes messages under them: parameters, JSON texts, numbers, amounts,   *)
(* wire encodings and features.  They do not touch each other: a behaviour *)
(* is one of a single component, chosen at the start.  The slots hold the  *)
(* variables of that component (those of PayecsData have names of their    *)
(* own), and are Idle for the others.                                      *)
(***************************************************************************)
EXTENDS PayecsData

CONSTANTS d1, d2

MCComponent == <<"a", "b">>
SomeFields == {<<"a", d1>>, <<"a", Null>>, <<"b", d2>>}
Fields == {<< >>} \cup {<<f>> : f \in SomeFields} \cup {<<f, g>> : f, g \in SomeFields}

Object(e, exact, fields) == [entity |-> e, exact |-> exact, fields |-> fields]
Nameless == Object(Null, FALSE, <<<<"a", d1>>>>)

\* One plain write, or two, to the same entity or to different ones.
PlainWrites ==
    {<<Object(1, FALSE, fields)>> : fields \in Fields}
    \cup {<<Object(2, FALSE, <<f>>)>> : f \in SomeFields}
    \cup {<<Object(1, FALSE, <<f>>), Object(e, FALSE, <<g>>)>> :
            e \in {1, 2}, f \in SomeFields, g \in SomeFields}

\* Exact ones too, at the first place and at the second; to the entity past
\* which the bounds wrap; one without entity.
MCWrites ==
    PlainWrites
    \cup {<<Object(1, TRUE, <<f>>)>> : f \in SomeFields}
    \cup {<<Object(2, FALSE, <<f>>), Object(1, TRUE, <<f>>)>> : f \in SomeFields}
    \cup {<<Object(U32Max, FALSE, <<f>>)>> : f \in {<<"a", d1>>, <<"a", Null>>}}
    \cup {<<Nameless>>}

Expectations ==
    {<< >>, <<Nameless>>}
    \cup {<<Object(1, exact, fields)>> : exact \in BOOLEAN, fields \in Fields \cup {<<<<"a", d2>>>>}}
    \cup {<<Object(2, exact, fields)>> : exact \in BOOLEAN, fields \in {<<>>, <<<<"b", d2>>>>}}
    \cup {<<Object(1, TRUE, <<<<"a", d1>>>>), Object(2, FALSE, <<<<"b", Null>>>>)>>}

NoExpectation == {<< >>}

-----------------------------------------------------------------------------

VARIABLES which, s1, s2, s3, s4, s5, s6, s7, s8, s9

-----------------------------------------------------------------------------
\* Declarations with a repeated name, with a shared variable, with a required
\* parameter after an optional one (refused in a developer build), and those
\* of a command with two required parameters and an optional one.
Decl(name, required, arg) == [name |-> name, required |-> required, arg |-> arg]
PA == INSTANCE Param WITH
    Declarations <-
        {<<>>, <<Decl("a", TRUE, 1), Decl("b", TRUE, 2), Decl("c", FALSE, 3)>>}
        \cup {<<Decl("a", r, 1)>> : r \in BOOLEAN}
        \cup {<<Decl("a", r, 1), Decl(n, q, p)>> : r, q \in BOOLEAN, n \in {"a", "b"}, p \in {1, 2}},
    Arrays <- SeqOf({"null", "bad", "x", "y"}, 3),
    Objects <- SeqOf({"a", "b", "z"} \X {"null", "bad", "x"}, 2),
    params <- s1, allow_extra <- s2, developer <- s3, type <- s4, given <- s5,
    i <- s6, is_set <- s7, out <- s8, result <- s9

\* JSON values two levels deep.
Prim == [type |-> "PRIMITIVE", s |-> <<"1">>]
Str(s) == [type |-> "STRING", s |-> s]
Arrays(X) == {[type |-> "ARRAY", elems |-> e] : e \in SeqOf(X, 2)}
Objects(Keys, X) ==
    {[type |-> "OBJECT", elems |-> e] : e \in SeqOf({Str(<<k>>) : k \in Keys} \X X, 2)}
Leaves == {Prim, Str(<<"1">>)}
Flat == Arrays({Prim}) \cup Objects({"1", "2"}, {Str(<<"1">>)})

\* Guides of json_scan: a "%" that takes any value or a string, a literal, and
\* these inside arrays and objects.
Percent(t) == [kind |-> "%", takes |-> t]
LeafGuides == {Percent("any"), Percent("STRING"), [kind |-> "literal", s |-> <<"1">>]}
ArrayGuides(X) == {[kind |-> "arr", parts |-> <<<<n, x>>>>] : n \in 0 .. 1, x \in X}
ObjectGuides(X) ==
    {[kind |-> "obj", parts |-> <<<<k, x>>>>] : k \in {<<"1">>, <<"2">>}, x \in X}
    \cup {[kind |-> "obj", parts |-> <<<<<<"1">>, x>>, <<<<"2">>, Percent("any")>>>>] : x \in X}

JT == INSTANCE JsonTree WITH
    Values <- Objects({"1", "2"}, Flat) \cup Arrays(Flat \cup {Str(<<"1">>)}),
    Others <- Flat \cup Arrays(Leaves) \cup Objects({"1", "2"}, Leaves \cup Arrays({Prim})),
    Guides <- {Percent("any")} \cup ArrayGuides(LeafGuides \cup ObjectGuides(LeafGuides))
              \cup ObjectGuides(LeafGuides \cup ArrayGuides(LeafGuides) \cup ObjectGuides(LeafGuides)),
    tokens <- s1, value <- s2

\* One message of two levels, or two flat ones; their strings hold an escaped
\* quote.  The garbage is made of five of the pieces messages are made of.
Shallow == Arrays({Prim}) \cup Objects({"1"}, {Str(<<"\\", "q">>)})
Pieces == {<<"{">>, <<"}">>, <<"[">>, <<"]">>, <<",">>, <<"1", " ">>,
           <<"q", "1", "q">>, <<"q", "1", "q", ":">>}
JS == INSTANCE Jsmn WITH
    Sent <- {<<m>> : m \in Objects({"1"}, Shallow) \cup Arrays({Prim, Str(<<"\\", "q">>)})}
            \cup {<<a, b>> : a, b \in Shallow},
    Garbage <- {FlattenSeq(p) : p \in SeqOf(Pieces, 5)},
    Alloc <- 2,
    sent <- s1, wire <- s2, buf <- s3, parser <- s4, toks <- s5, cap <- s6,
    got <- s7, state <- s8

JN == INSTANCE JsonNumber WITH
    Width <- 6, Narrow <- 4, Places <- 1,
    Texts <- UNION {[1 .. n -> {"-", "0", "1", "3", "6", "x", "."}] : n \in 1 .. 3},
    errno <- s1, last <- s2

\* Bytes and code points on both sides of every limit of UTF-8; strings with
\* whole and cut \u escapes.
UEscape == <<"\\", "u", "0", "a", "0", "a">>
TX == INSTANCE Text WITH
    Bytes <- {0, 65, 128, 143, 144, 159, 160, 191, 193, 194, 224, 237, 240, 244, 245, 248},
    Points <- {1, 65, 127, 128, 143, 2047, 2048, 4095, 53248, 55295, 55296, 57343, 57344,
               65535, 65536, 262143, 1048576, 1114111, 1114112},
    MaxBytes <- 4,
    Strings <- SeqOf({"LF", "BEL", "q", "\\", "n", "u", "x"}, 3)
               \cup {SubSeq(UEscape, 1, n) \o t : n \in 3 .. 6, t \in SeqOf({"q", "\\", "a"}, 1)},
    HexTexts <- SeqOf({"9", "f", "A", "g"}, 4),
    utf8 <- s1, work <- s2

\* A u64 of 10 bits: 100 millisatoshi to the satoshi, 10 satoshi to the coin.
AM == INSTANCE Amount WITH
    Width <- 10, SatPlaces <- 2, BtcPlaces <- 1, Million <- 10,
    MantissaBits <- 3, MaxExponent <- 6,
    Base <- {0, 1, 7, 1023}, Proportional <- {0, 1, 13},
    Operands <- {0, 1, 2, 9, 10, 11, 99, 100, 101, 511, 512, 513, 1000, 1022, 1023},
    Numerals <- UNION {[1 .. n -> {"0", "1", "7"}] : n \in 0 .. 2}
                \cup {<<"1", ".", "1">>, <<"1", ".">>, <<".", "1">>, <<"0", ".", "1", "7">>},
    msat <- s1

\* Digits of base 5 for bytes; numbers on both sides of bigsize's limits.
WI == INSTANCE Wire WITH
    Base <- 5, Known <- 0 :> "tu64" @@ 3 :> "scid", Extra <- {2},
    Numbers <- {0, 5, 390624},
    Channels <- {<<0, 0, 0>>, <<124, 0, 24>>, <<1, 124, 1>>, <<125, 0, 0>>},
    Raw <- {<<2, <<>>>>, <<25, <<1, 2>>>>, <<625, <<0>>>>},
    Inputs <- UNION {[1 .. n -> 0 .. 4] : n \in 1 .. 6},
    stream <- s1, wire <- s2

Style(init, channel) == "init" :> init @@ "channel" :> channel
FE == INSTANCE Features WITH
    ByteBits <- 2, Places <- {"init", "channel"},
    Styles <- 0 :> Style("represent", "represent")
              @@ 2 :> Style("represent", "represent_as_optional")
              @@ 4 :> Style("represent", "represent")
              @@ 6 :> Style("dont_represent", "represent")
              @@ 8 :> Style("represent_as_optional", "represent_as_optional"),
    Theirs <- UNION {[1 .. n -> SUBSET (0 .. 1)] : n \in 0 .. 3},
    fset <- s1

-----------------------------------------------------------------------------
Idle == <<>>
IdleFrom3 == s3 = Idle /\ s4 = Idle /\ s5 = Idle /\ s6 = Idle /\ s7 = Idle /\ s8 = Idle /\ s9 = Idle
IdleFrom2 == s2 = Idle /\ IdleFrom3

MCInit ==
    /\ Init
    /\ \/ which = "payecs_data" /\ s1 = Idle /\ IdleFrom2
       \/ which = "param" /\ PA!Init
       \/ which = "jsmn" /\ JS!Init /\ s9 = Idle
       \/ which = "json" /\ JT!Init /\ IdleFrom3
       \/ which = "number" /\ JN!Init /\ IdleFrom3
       \/ which = "text" /\ TX!Init /\ IdleFrom3
       \/ which = "wire" /\ WI!Init /\ IdleFrom3
       \/ which = "amount" /\ AM!Init /\ IdleFrom2
       \/ which = "features" /\ FE!Init /\ IdleFrom2

slots == <<s1, s2, s3, s4, s5, s6, s7, s8, s9>>
from2 == <<s2, s3, s4, s5, s6, s7, s8, s9>>
from3 == <<s3, s4, s5, s6, s7, s8, s9>>

MCNext ==
    /\ UNCHANGED which
    /\ \/ which = "payecs_data" /\ Next /\ UNCHANGED slots
       \/ /\ UNCHANGED vars
          /\ \/ which = "param" /\ PA!Next
             \/ which = "jsmn" /\ JS!Next /\ UNCHANGED s9
             \/ which = "json" /\ JT!Next /\ UNCHANGED from3
             \/ which = "number" /\ JN!Next /\ UNCHANGED from3
             \/ which = "text" /\ TX!Next /\ UNCHANGED from3
             \/ which = "wire" /\ WI!Next /\ UNCHANGED from3
             \/ which = "amount" /\ AM!Next /\ UNCHANGED from2
             \/ which = "features" /\ FE!Next /\ UNCHANGED from2

MCSpec == MCInit /\ [][MCNext]_<<which, vars, slots>>
DataSpec == /\ Init /\ which = "payecs_data" /\ s1 = Idle /\ IdleFrom2
            /\ [][MCNext]_<<which, vars, slots>>

-----------------------------------------------------------------------------

\* param takes exactly the parameters that make sense, and a handler that goes
\* on finds all of its variables written (common/param.c).
ParametersExact == which = "param" => PA!ParametersExact

\* json_tok_remove leaves the tokens of the edited value, json_scan takes
\* exactly the values its guide describes (common/json.c), and json_equal tells
\* whether two values without repeated keys are the same JSON
\* (plugins/payz/json_equal.c).
TokensAreValues ==
    which = "json" => JT!RemovalIsExact /\ JT!EqualMeansSame /\ JT!ScanFollowsGuide

\* The messages of a stream come out in order and whole, whatever chunks they
\* arrive in, and the tokens of whatever is accepted are one whole value
\* (common/json.c json_parse_input, validate_jsmn_parse_output, external/jsmn).
MessagesAsSent == which = "jsmn" => JS!MessagesAsSent /\ JS!AcceptedIsWalkable


\* utf8_check accepts exactly the shortest encodings (common/utils.c); what is
\* escaped is one JSON string, and is read back (ccan/json_escape,
\* ccan/json_out); hex_decode and hex_encode are inverses (ccan/str/hex).
TextExact == which = "text" => TX!Utf8Exact /\ TX!EscapesRead /\ TX!HexExact

\* Amounts are added, subtracted and multiplied exactly, or not at all; so are
\* fees; amounts that are written are read back (common/amount.c); u64_to_fp16
\* rounds to the side asked for (common/fp16.c).
AmountsExact ==
    which = "amount" => /\ AM!ArithmeticExact
                        /\ AM!FeesExact
                        /\ AM!TextsRoundTrip
                        /\ AM!ApproximationBounds

\* A TLV stream arrives as it was put together, and what is accepted from the
\* wire has one encoding only (common/bigsize.c, wire/wire.c, wire/tlvstream.c).
\* Bitfields of features are added, taken away, united and agreed on bit by
\* bit, whatever their lengths (common/features.c).
WireExact ==
    /\ which = "wire" => WI!StreamsArrive /\ WI!AcceptedIsCanonical
    /\ which = "features" => FE!SubUndoesOr /\ FE!AgreedExact /\ FE!UnionExact
=============================================================================
