--------------------------------- MODULE Wire -------------------------------
(***************************************************************************)
(* What goes over the wire (wire/wire.c, common/bigsize.c,                 *)
(* wire/tlvstream.c, bitcoin/short_channel_id.c): integers, and streams of *)
(* records [numtype, value].                                               *)
(*                                                                         *)
(* A byte is a number below Base, 256 in the code; the three largest, 0xfd *)
(* to 0xff, announce integers of 2, 4 and 8 bytes.  A cursor is            *)
(* [ok, rest]: ok is FALSE when the pointer is NULL, after a failure.      *)
(***************************************************************************)
EXTENDS Integers, SequencesExt

CONSTANTS
    Base,
    Known,      \* type -> its encoding, "tu64" or "scid"
    Extra,      \* the even types allowed although they are not known
    Numbers,    \* the integers programs put in records
    Channels,   \* <<block, transaction, output>>: the channels they put there
    Raw,        \* <<type, value>> programs put in records as they are
    Inputs      \* what arrives from elsewhere

VARIABLES
    stream,     \* the records of a stream that is being made
    wire        \* what arrived

vars == <<stream, wire>>

Cursor(bytes) == [ok |-> TRUE, rest |-> bytes]
fromwire_fail == [ok |-> FALSE, rest |-> <<>>]

\* The value read and the cursor after it.
Got(v, c) == [v |-> v, c |-> c]

fromwire(c, n) ==
    IF Len(c.rest) < n THEN Got([k \in 1 .. n |-> 0], fromwire_fail)
    ELSE Got(SubSeq(c.rest, 1, n), [c EXCEPT !.rest = SubSeq(@, n + 1, Len(@))])

Value(bytes) == FoldLeft(LAMBDA v, b : Base * v + b, 0, bytes)
Bytes(v, n) == [k \in 1 .. n |-> (v \div Base ^ (n - k)) % Base]

\* Both fail alike: zeroes are read.
fromwire_u64(c) == LET g == fromwire(c, 8) IN Got(Value(g.v), g.c)
towire_u64(v) == Bytes(v, 8)

\* Without leading zeroes, and the whole of what is left.
fromwire_tlv_uint(c, maxlen) ==
    LET length == Len(c.rest)
        g == fromwire(c, length)
    IN  IF length > maxlen \/ (length > 0 /\ g.v[1] = 0) THEN Got(0, fromwire_fail)
        ELSE Got(Value(g.v), g.c)

towire_tlv_uint(v) ==
    LET all == Bytes(v, 8)
        zeroes == Max({0} \cup {n \in 1 .. 8 : \A k \in 1 .. n : all[k] = 0})
    IN  SubSeq(all, zeroes + 1, 8)

bigsize_len(v) ==
    IF v < Base - 3 THEN 1 ELSE IF v < Base ^ 2 THEN 3 ELSE IF v < Base ^ 4 THEN 5 ELSE 9

\* Mutant of bigsize_put: 0xfd as one byte.
bigsize_put_Tag(v) ==
    IF v <= Base - 3 THEN <<v>> ELSE IF v < Base ^ 2 THEN <<Base - 3>> \o Bytes(v, 2)
    ELSE IF v < Base ^ 4 THEN <<Base - 2>> \o Bytes(v, 4) ELSE <<Base - 1>> \o Bytes(v, 8)

bigsize_put(v) ==
    IF v < Base - 3 THEN <<v>> ELSE IF v < Base ^ 2 THEN <<Base - 3>> \o Bytes(v, 2)
    ELSE IF v < Base ^ 4 THEN <<Base - 2>> \o Bytes(v, 4) ELSE <<Base - 1>> \o Bytes(v, 8)

\* Mutant of bigsize_get: a number may be longer than it need be.
bigsize_get_Long(p) ==
    LET n == CASE p[1] = Base - 3 -> 2 [] p[1] = Base - 2 -> 4 [] p[1] = Base - 1 -> 8 [] OTHER -> 0
    IN  IF p = <<>> THEN <<0, 0>>
        ELSE IF n = 0 THEN <<1, p[1]>>
        ELSE IF Len(p) < n + 1 THEN <<0, 0>>
        ELSE <<n + 1, Value(SubSeq(p, 2, n + 1))>>

\* <<length, value>>; length 0 for what is no number, or not the shortest form.
bigsize_get(p) ==
    LET n == CASE p[1] = Base - 3 -> 2 [] p[1] = Base - 2 -> 4 [] p[1] = Base - 1 -> 8 [] OTHER -> 0
        least == CASE n = 2 -> Base - 3 [] n = 4 -> Base ^ 2 [] OTHER -> Base ^ 4
    IN  IF p = <<>> THEN <<0, 0>>
        ELSE IF n = 0 THEN <<1, p[1]>>
        ELSE IF Len(p) < n + 1 \/ Value(SubSeq(p, 2, n + 1)) < least THEN <<0, 0>>
        ELSE <<n + 1, Value(SubSeq(p, 2, n + 1))>>

\* After what bigsize_get got from c.
Advanced(c, got) ==
    IF got[1] = 0 THEN Got(0, fromwire_fail) ELSE Got(got[2], fromwire(c, got[1]).c)

fromwire_bigsize(c) == Advanced(c, bigsize_get(c.rest))

towire_bigsize(v) == bigsize_put(v)
-----------------------------------------------------------------------------
Field(type, value) == [numtype |-> type, value |-> value]

\* The field of a known type is decoded, and must be used up.
Decodes(type, value) ==
    LET g == IF Known[type] = "tu64" THEN fromwire_tlv_uint(Cursor(value), 8)
             ELSE fromwire_u64(Cursor(value))
    IN  g.c.ok /\ g.c.rest = <<>>

\* The field, once its type, length and value are read; fails when a number is
\* malformed, when the length is more than there is, or when the value does not
\* decode.
FieldRead(type, length, value) ==
    IF \/ ~type.c.ok \/ ~length.c.ok \/ ~value.c.ok
       \/ type.v \in DOMAIN Known /\ ~Decodes(type.v, value.v)
    THEN Got(Field(0, <<>>), fromwire_fail)
    ELSE Got(Field(type.v, value.v), value.c)

\* One record.
ValueRead(type, length) == FieldRead(type, length, fromwire(length.c, length.v))
LengthRead(type) == ValueRead(type, fromwire_bigsize(type.c))
Record(c) == LengthRead(fromwire_bigsize(c))

\* The fields, or none when any fails.
RECURSIVE fromwire_tlv(_, _)
fromwire_tlv(c, fields) ==
    IF c.rest = <<>> THEN [ok |-> c.ok, fields |-> fields]
    ELSE LET g == Record(c) IN fromwire_tlv(g.c, Append(fields, g.v))

tlv_type_is_allowed(type) == type % 2 # 0 \/ type \in DOMAIN Known \cup Extra

\* 0, or the first field that is not allowed or out of order.
tlv_fields_valid(fields) ==
    LET bad == {i \in DOMAIN fields : \/ ~tlv_type_is_allowed(fields[i].numtype)
                                      \/ i > 1 /\ fields[i].numtype <= fields[i - 1].numtype}
    IN  IF bad = {} THEN 0 ELSE Min(bad)

tlv_field_cmp(a, b) == a.numtype > b.numtype

\* In the order of tlv_field_cmp.
asort(fields) ==
    LET Place(sorted, f) ==
            LET k == Cardinality({i \in DOMAIN sorted : ~tlv_field_cmp(sorted[i], f)})
            IN  SubSeq(sorted, 1, k) \o <<f>> \o SubSeq(sorted, k + 1, Len(sorted))
    IN  FoldLeft(Place, <<>>, fields)

towire_tlvstream_raw(fields) ==
    LET Put(bytes, f) ==
            bytes \o towire_bigsize(f.numtype) \o towire_bigsize(Len(f.value)) \o f.value
    IN  FoldLeft(Put, <<>>, asort(fields))

tlvstream_get_raw(fields, type) == {i \in DOMAIN fields : fields[i].numtype = type}

\* A field of the type takes the new value, or there is a new field.
tlvstream_set_raw(fields, type, value) ==
    LET e == tlvstream_get_raw(fields, type)
    IN  IF e = {} THEN Append(fields, Field(type, value))
        ELSE [fields EXCEPT ![Min(e)].value = value]

\* {} or the number.
tlvstream_get_short_channel_id(fields, type) ==
    {Value(fields[i].value) : i \in {k \in tlvstream_get_raw(fields, type) : Len(fields[k].value) = 8}}

\* A channel by its block, its transaction and its output: 3, 3 and 2 bytes.
mk_short_channel_id(block, tx, out) ==
    IF block >= Base ^ 3 \/ tx >= Base ^ 3 \/ out >= Base ^ 2 THEN {}
    ELSE {block * Base ^ 5 + tx * Base ^ 2 + out}
short_channel_id_blocknum(scid) == scid \div Base ^ 5
short_channel_id_txnum(scid) == (scid \div Base ^ 2) % Base ^ 3
short_channel_id_outnum(scid) == scid % Base ^ 2
-----------------------------------------------------------------------------
Init == stream = <<>> /\ wire = <<>>

tlvstream_set_tu64(type, v) ==
    /\ Known[type] = "tu64"
    /\ stream' = tlvstream_set_raw(stream, type, towire_tlv_uint(v)) /\ UNCHANGED wire

tlvstream_set_short_channel_id(type, channel) ==
    /\ Known[type] = "scid"
    /\ \E scid \in mk_short_channel_id(channel[1], channel[2], channel[3]) :
           stream' = tlvstream_set_raw(stream, type, towire_u64(scid))
    /\ UNCHANGED wire

SetRaw(r) == stream' = tlvstream_set_raw(stream, r[1], r[2]) /\ UNCHANGED wire

\* towire_tlvstream_raw leaves the fields sorted.
Send == stream' = asort(stream) /\ UNCHANGED wire

Receive == stream = <<>> /\ wire' \in Inputs /\ UNCHANGED stream

\* One side makes a stream or the other takes one.
Next ==
    /\ wire = <<>>
    /\ \/ \E type \in DOMAIN Known :
              \/ \E v \in Numbers : tlvstream_set_tu64(type, v)
              \/ \E channel \in Channels : tlvstream_set_short_channel_id(type, channel)
       \/ \E r \in Raw : SetRaw(r)
       \/ Send
       \/ Receive

Spec == Init /\ [][Next]_vars
-----------------------------------------------------------------------------
\* A stream, however it was put together, arrives as it was: the fields in the
\* order of their types, accepted unless one is of an even type nobody allowed,
\* and no type twice; a channel in it is still that block, transaction and output.
StreamsArrive ==
    LET got == fromwire_tlv(Cursor(towire_tlvstream_raw(stream)), <<>>)
    IN  /\ got = [ok |-> TRUE, fields |-> asort(stream)]
        /\ (tlv_fields_valid(got.fields) = 0) =
               (\A i \in DOMAIN stream : tlv_type_is_allowed(stream[i].numtype))
        /\ \A i \in DOMAIN stream :
               /\ bigsize_len(stream[i].numtype) = Len(towire_bigsize(stream[i].numtype))
               /\ stream[i].numtype \in DOMAIN Known /\ Known[stream[i].numtype] = "scid" =>
                      \E scid \in tlvstream_get_short_channel_id(got.fields, stream[i].numtype) :
                          <<short_channel_id_blocknum(scid), short_channel_id_txnum(scid),
                            short_channel_id_outnum(scid)>> \in Channels

\* What is accepted has one encoding only, the one it came in: numbers, types
\* and lengths in their shortest form, types in order, values used up.
AcceptedIsCanonical ==
    LET got == fromwire_tlv(Cursor(wire), <<>>)
    IN  got.ok /\ tlv_fields_valid(got.fields) = 0 => towire_tlvstream_raw(got.fields) = wire

=============================================================================
