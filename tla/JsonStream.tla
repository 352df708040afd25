----------------------------- MODULE JsonStream -----------------------------
(***************************************************************************)
(* A stream of JSON text: the writer adds members (ccan/json_out), the     *)
(* text lies in a buffer that moves as it grows (ccan/membuf), and a       *)
(* connection writes it out in pieces while more is added                  *)
(* (common/json_stream.c).                                                 *)
(*                                                                         *)
(* A character is a string; a field name is the two characters "k" and     *)
(* ":", the quotes are "q", and "e" is a character that must be escaped.   *)
(* An address is a number; the buffer lies at mb.base and its cells are    *)
(* mb.elems.  Allocation does not fail (tal's error handler aborts).       *)
(***************************************************************************)
EXTENDS Integers, SequencesExt

CONSTANTS
    Pool,       \* cells of a new buffer (64)
    Bases,      \* addresses the allocator may give
    MaxOut      \* characters of a stream

VARIABLES
    mb,         \* the buffer: [start, end, max, elems, base]
    empty,      \* jout->empty: nothing yet in the current wrapping
    wrapping,   \* the wrappings the writer is in (of CCAN_JSON_OUT_DEBUG)
    reader,     \* the write in progress: {} or {[cp, left]}, cp an address
    len_read,   \* js->len_read
    writing,    \* js->writer is set
    waiting,    \* the connection waits for io_wake, or is done
    written,    \* every character the writer has added
    sent        \* every character the connection has written out

vars == <<mb, empty, wrapping, reader, len_read, writing, waiting, written, sent>>

Contents(b) == SubSeq(b.elems, b.start + 1, b.end)
membuf_num_elems(b) == b.end - b.start
membuf_num_space(b) == b.max - b.end
membuf_elems(b) == b.base + b.start

membuf_init(base) ==
    [start |-> 0, end |-> 0, max |-> Pool, base |-> base, elems |-> [i \in 1 .. Pool |-> "?"]]

\* Make room for num_extra more: [mb, delta], delta the move of the contents.
membuf_prepare_space(b, num_extra, base) ==
    LET oldstart == membuf_elems(b)
        r == IF b.start = b.end THEN [b EXCEPT !.start = 0, !.end = 0] ELSE b
        num == membuf_num_elems(r)
        max == r.max
        more == IF num_extra < max THEN max ELSE num_extra
        down == [r EXCEPT !.start = 0, !.end = num,
                          !.elems = [i \in 1 .. max |-> IF i <= num THEN r.elems[r.start + i] ELSE @[i]]]
        grown == [r EXCEPT !.base = base, !.max = @ + more,
                           !.elems = SubSeq(@, 1, max) \o [i \in 1 .. more |-> "?"]]
        new == IF num <= max \div 2 /\ num + num_extra <= max THEN down ELSE grown
    IN  IF membuf_num_space(r) >= num_extra THEN [mb |-> r, delta |-> 0]
        ELSE [mb |-> new, delta |-> membuf_elems(new) - oldstart]

\* chars written from the end of the contents on, and added to them; what
\* does not fit would overrun the buffer.
membuf_added(b, chars) ==
    [b EXCEPT !.end = @ + Len(chars),
              !.elems = [i \in 1 .. Max({Len(@), b.end + Len(chars)}) |->
                            IF i \in b.end + 1 .. b.end + Len(chars) THEN chars[i - b.end]
                            ELSE b.elems[i]]]

membuf_consume(b, num) == [b EXCEPT !.start = @ + num]

-----------------------------------------------------------------------------

\* Mutant of adjust_io_write: the write in progress is not moved along.
adjust_io_write_Stays(rd, delta) == rd

adjust_io_write(rd, delta) == {[r EXCEPT !.cp = @ + delta] : r \in rd}

\* Room for len characters: [mb, reader].
mkroom(b, rd, len, base) ==
    LET p == membuf_prepare_space(b, len, base)
    IN  [mb |-> p.mb, reader |-> IF p.delta # 0 THEN adjust_io_write(rd, p.delta) ELSE rd]

\* The comma and the field name that go before a member.
Before(field, e) == (IF e THEN <<>> ELSE <<",">>) \o (IF field THEN <<"k", ":">> ELSE <<>>)

\* Fields in objects, none elsewhere: check_fieldname.
check_fieldname(field) ==
    field <=> (wrapping # <<>> /\ Last(wrapping) = "{")

\* Adds text in one piece.
Direct(text, base) ==
    LET room == mkroom(mb, reader, Len(text), base)
    IN  /\ Len(written) + Len(text) <= MaxOut
        /\ mb' = membuf_added(room.mb, text)
        /\ reader' = room.reader
        /\ written' = written \o text
        /\ UNCHANGED <<len_read, writing, waiting, sent>>

\* json_out_member_direct filled in by its caller: json_add_jsonstr,
\* json_out_addstr, json_out_add_splice.
json_out_member_direct(field, chars, base) ==
    /\ writing /\ check_fieldname(field)
    /\ Direct(Before(field, empty) \o chars, base)
    /\ empty' = FALSE
    /\ UNCHANGED wrapping

json_out_start(field, type, base) ==
    /\ writing /\ check_fieldname(field) /\ Len(wrapping) < 2
    /\ wrapping = <<>> => mb.start = mb.end /\ written = <<>>
    /\ Direct(Before(field, empty) \o <<type>>, base)
    /\ empty' = TRUE
    /\ wrapping' = Append(wrapping, type)

\* Mutant of json_out_end: the wrapping that is left counts as empty.
json_out_end_Empty(base) ==
    /\ writing /\ wrapping # <<>>
    /\ Direct(<<IF Last(wrapping) = "{" THEN "}" ELSE "]">>, base)
    /\ empty' = TRUE
    /\ wrapping' = Front(wrapping)

json_out_end(base) ==
    /\ writing /\ wrapping # <<>>
    /\ Direct(<<IF Last(wrapping) = "{" THEN "}" ELSE "]">>, base)
    /\ empty' = FALSE
    /\ wrapping' = Front(wrapping)

Escaped(text) == IF text = <<"e">> THEN <<"b", "e">> ELSE text
Quoted(quote, text) == IF quote THEN <<"q">> \o text \o <<"q">> ELSE text

\* A printed member: room for what goes before it; printed in place if that
\* and its NUL fit, else more room; once more if it has to be escaped.
json_out_addv(field, quote, text, base) ==
    LET before == Before(field, empty)
        room1 == mkroom(mb, reader, Len(before), base)
        mb1 == membuf_added(room1.mb, before)
        fits == Len(Quoted(quote, text)) < membuf_num_space(mb1)
        room2 == IF fits THEN [mb |-> mb1, reader |-> room1.reader]
                 ELSE mkroom(mb1, room1.reader, Len(Quoted(quote, text)) + 1, base)
        esc == Quoted(quote, IF quote THEN Escaped(text) ELSE text)
        room3 == IF quote /\ Escaped(text) # text
                 THEN mkroom(room2.mb, room2.reader, Len(esc), base) ELSE room2
    IN  /\ writing /\ check_fieldname(field)
        /\ Len(written) + Len(before) + Len(esc) <= MaxOut
        /\ mb' = membuf_added(room3.mb, esc)
        /\ reader' = room3.reader
        /\ written' = written \o before \o esc
        /\ empty' = FALSE
        /\ UNCHANGED <<wrapping, len_read, writing, waiting, sent>>

-----------------------------------------------------------------------------

\* json_stream_output_write, with the buffer b and the count of the write that
\* has ended: what there is now is written, or the stream is over, or the
\* connection waits for more.
json_stream_output_write(b, count) ==
    LET c == membuf_consume(b, count)
        len == membuf_num_elems(c)
    IN  /\ mb' = c
        /\ len_read' = len
        /\ reader' = IF len > 0 THEN {[cp |-> membuf_elems(c), left |-> len]} ELSE {}
        /\ waiting' = (len = 0)

\* The connection takes up the stream.
json_stream_output ==
    /\ reader = {} /\ ~waiting /\ sent = <<>>
    /\ json_stream_output_write(mb, 0)
    /\ UNCHANGED <<empty, wrapping, writing, written, sent>>

\* What lies at an address.
At(addr) ==
    LET i == addr - mb.base + 1 IN IF i \in DOMAIN mb.elems THEN mb.elems[i] ELSE "?"

\* The system takes n characters (io_write); at the last the stream goes on.
WriteOut(r, n) ==
    /\ sent' = sent \o [i \in 1 .. n |-> At(r.cp + i - 1)]
    /\ IF n = r.left THEN json_stream_output_write(mb, len_read)
       ELSE reader' = {[cp |-> r.cp + n, left |-> r.left - n]} /\ UNCHANGED <<mb, len_read, waiting>>

Write ==
    /\ \E r \in reader : \E n \in 1 .. r.left : WriteOut(r, n)
    /\ UNCHANGED <<empty, wrapping, writing, written>>

\* The writer lets the connection see what there is: json_stream_flush.
json_stream_flush ==
    /\ waiting /\ writing
    /\ json_stream_output_write(mb, len_read)
    /\ UNCHANGED <<empty, wrapping, writing, written, sent>>

\* What is missing of the two newlines at the end.
json_stream_double_cr(base) ==
    LET contents == Contents(mb)
        n == Len(contents)
        cr == IF contents[n] # "n" THEN <<"n", "n">> ELSE IF contents[n - 1] # "n" THEN <<"n">> ELSE <<>>
        room == mkroom(mb, reader, Len(cr), base)
    IN  [mb |-> membuf_added(room.mb, cr), reader |-> room.reader, cr |-> cr]


\* The stream is completed, and the connection is woken up.
json_stream_close(base) ==
    /\ writing /\ wrapping = <<>> /\ membuf_num_elems(mb) >= 2
    /\ writing' = FALSE /\ empty' = TRUE
    /\ LET end == json_stream_double_cr(base)
       IN  /\ written' = written \o end.cr
           /\ IF waiting THEN json_stream_output_write(end.mb, len_read)
              ELSE mb' = end.mb /\ reader' = end.reader /\ UNCHANGED <<len_read, waiting>>
    /\ UNCHANGED <<wrapping, sent>>

\* What the writers call: members stand in an array or an object.
json_add_jsonstr(field, base) ==
    wrapping # <<>> /\ json_out_member_direct(field, <<"v">>, base)

json_add_member(field, quote, text, base) ==
    wrapping # <<>> /\ json_out_addv(field, quote, text, base)

json_array_start(field, base) == json_out_start(field, "[", base)
json_object_start(field, base) == json_out_start(field, "{", base)
json_array_end(base) == wrapping # <<>> /\ Last(wrapping) = "[" /\ json_out_end(base)
json_object_end(base) == wrapping # <<>> /\ Last(wrapping) = "{" /\ json_out_end(base)

Init ==
    /\ \E base \in Bases : mb = membuf_init(base)
    /\ empty = TRUE /\ wrapping = <<>> /\ writing = TRUE
    /\ reader = {} /\ len_read = 0 /\ waiting = FALSE
    /\ written = <<>> /\ sent = <<>>

Next ==
    \/ \E base \in Bases, field \in BOOLEAN :
        \/ json_add_jsonstr(field, base)
        \/ json_array_start(field, base) \/ json_object_start(field, base)
        \/ json_add_member(field, FALSE, <<"1">>, base)
        \/ \E text \in {<<"1">>, <<"e">>} : json_add_member(field, TRUE, text, base)
    \/ \E base \in Bases :
        json_array_end(base) \/ json_object_end(base) \/ json_stream_close(base)
    \/ json_stream_output \/ json_stream_flush \/ Write

Spec == Init /\ [][Next]_vars
FairSpec == Spec /\ WF_vars(json_stream_output) /\ WF_vars(Write)

-----------------------------------------------------------------------------

\* The connection writes out what the writer has added, in order, nothing of
\* it twice and nothing else, however the buffer moves while a write is in
\* progress: the write points at the first character that is not yet out, and
\* nothing is ever added past the end of the buffer.
SentAsWritten ==
    LET ahead == membuf_num_elems(mb) - len_read
    IN  /\ mb.end <= mb.max
        /\ IsPrefix(sent, written)
        /\ \A r \in reader :
            [i \in 1 .. r.left |-> At(r.cp + i - 1)] =
                SubSeq(written, Len(sent) + 1, Len(sent) + r.left)
        /\ Len(sent) + FoldSet(LAMBDA r, n : n + r.left, 0, reader) + ahead = Len(written)

\* A comma stands before every member but the first of its wrapping and
\* nowhere else, whatever wrappings are opened and closed on the way.
Follows(a, b) ==
    CASE a \in {"[", "{", ",", ":"} -> b \notin {",", ":", "n"} /\ (a = "," \/ a = ":" => b \notin {"]", "}"})
      [] a = "k" -> b = ":"
      [] a \in {"]", "}", "v", "1"} -> b \in {",", "]", "}", "n", "q"}
      [] a = "q" -> b \in {"1", "b", ",", "]", "}"}
      [] OTHER -> TRUE
WellFormed == \A i \in 1 .. Len(written) - 1 : Follows(written[i], written[i + 1])

=============================================================================
