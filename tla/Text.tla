-------------------------------- MODULE Text --------------------------------
(***************************************************************************)
(* Texts on their way in and out: the byte-by-byte UTF-8 decoder of        *)
(* ccan/utf8 as utf8_check (common/utils.c) drives it, the escaping of     *)
(* strings in ccan/json_escape, and ccan/str/hex.                          *)
(*                                                                         *)
(* The decoder works on real byte values, taken at the edges of the ranges *)
(* of the table above utf8_decode.  The escapes work on characters: "LF"   *)
(* stands for the five control characters with an escape letter of their   *)
(* own ("n"), "BEL" for the rest and for 127, "q" for the quotation mark.  *)
(***************************************************************************)
EXTENDS Integers, SequencesExt

CONSTANTS
    Bytes,      \* the bytes fed to utf8_check
    Points,     \* code points against which refusals are judged
    MaxBytes,   \* bound on the length of a text fed to utf8_check
    Strings,    \* the strings escaped, sequences of characters
    HexTexts    \* the texts taken for hexadecimal

VARIABLES
    utf8,       \* the run of utf8_check: [state, errno, need_more, fed, cur, points]
    work        \* conversions: [op, in, out], out a set with at most one element

vars == <<utf8, work>>

\* The n high bits of a byte, which is what the decoder's masks test.
High(c, n) == c \div 2^(8 - n)

(***************************************************************************)
(* UTF-8                                                                   *)
(***************************************************************************)
UTF8_STATE_INIT == [total_len |-> 0, used_len |-> 0, c |-> 0]

bad_encoding(s) == [s |-> [s EXCEPT !.total_len = s.used_len], done |-> TRUE, errno |-> "EINVAL"]

\* Mutant of finished_decoding: a code point in more bytes than it needs is accepted.
finished_decoding_NoMinimum(s) ==
    [s |-> s, done |-> TRUE,
     errno |-> IF \/ s.c = 0 \/ s.c > 1114111
                  \/ s.total_len = 3 /\ s.c \div 2048 = 27
               THEN "ERANGE" ELSE "0"]

finished_decoding(s) ==
    LET min_bits == <<0, 7, 11, 16>>[s.total_len]
    IN  [s |-> s, done |-> TRUE,
         errno |-> IF \/ s.c = 0 \/ s.c > 1114111
                      \/ s.total_len = 3 /\ s.c \div 2048 = 27
                   THEN "ERANGE"
                   ELSE IF s.c \div 2^min_bits = 0 THEN "EFBIG" ELSE "0"]

\* One call of utf8_decode: [s, done, errno], errno only when done.
utf8_decode(s, c) ==
    LET lead(total, bits) == [s |-> [total_len |-> total, used_len |-> 1, c |-> c % 2^bits],
                              done |-> FALSE, errno |-> ""]
        more == [s EXCEPT !.c = s.c * 64 + (c % 64), !.used_len = @ + 1]
    IN  IF s.used_len = s.total_len
        THEN CASE c = 0 -> bad_encoding([s EXCEPT !.used_len = 1])
               [] High(c, 1) = 0 /\ c # 0 ->
                    finished_decoding([total_len |-> 1, used_len |-> 1, c |-> c])
               [] High(c, 3) = 6 -> lead(2, 5)
               [] High(c, 4) = 14 -> lead(3, 4)
               [] High(c, 5) = 30 -> lead(4, 3)
               [] OTHER -> bad_encoding([s EXCEPT !.used_len = 1])
        ELSE IF High(c, 2) # 2 THEN bad_encoding(s)
        ELSE IF more.used_len = more.total_len THEN finished_decoding(more)
        ELSE [s |-> more, done |-> FALSE, errno |-> ""]

\* The bytes of a code point; <<>> for the ones that have none.
utf8_encode(point) ==
    LET part(n) == 128 + ((point \div 2^n) % 64)
    IN  IF point = 0 \/ point > 1114111 \/ point \div 2048 = 27 THEN <<>>
        ELSE IF point < 128 THEN <<point>>
        ELSE IF point < 2048 THEN <<192 + (point \div 64), part(0)>>
        ELSE IF point < 65536 THEN <<224 + (point \div 4096), part(6), part(0)>>
        ELSE <<240 + (point \div 262144), part(12), part(6), part(0)>>

(***************************************************************************)
(* JSON escapes                                                            *)
(***************************************************************************)
Letter == [n |-> "LF"]
Plain == {"/", "\\", "q"}
HexDigit == {"0", "a"}
Needed == {"LF", "BEL", "q", "\\"}

\* Mutant of json_escape_needed: a lone backslash needs no escape.
json_escape_needed_Quote(str) == \E i \in DOMAIN str : str[i] \in Needed \ {"\\"}

json_escape_needed(str) == \E i \in DOMAIN str : str[i] \in Needed

\* Past the end of a string stands its terminating zero.
At(str, i) == IF i \in DOMAIN str THEN str[i] ELSE "NUL"

\* What escape() writes for the character at i, and how many it takes.
EscapeAt(str, i, partial) ==
    LET c == str[i]
        next == At(str, i + 1)
        Written(s, n) == [text |-> s, took |-> n]
    IN  CASE c = "LF" -> Written(<<"\\", "n">>, 1)
          [] c = "\\" /\ partial /\ next \in DOMAIN Letter \cup Plain -> Written(<<"\\", next>>, 2)
          [] c = "\\" /\ partial /\ next = "u" /\ (\A k \in 2..5 : At(str, i + k) \in HexDigit) ->
                Written(SubSeq(str, i, i + 5), 6)
          [] c = "q" -> Written(<<"\\", "q">>, 1)
          [] c = "BEL" -> Written(<<"\\", "u", "0", "0", "0", "a">>, 1)
          [] OTHER -> Written(IF c = "\\" THEN <<"\\", "\\">> ELSE <<c>>, 1)

RECURSIVE escapeFrom(_, _, _)
escapeFrom(str, i, partial) ==
    IF i > Len(str) THEN <<>>
    ELSE LET e == EscapeAt(str, i, partial)
         IN  e.text \o escapeFrom(str, i + e.took, partial)

json_escape(str) == escapeFrom(str, 1, FALSE)
json_partial_escape(str) == escapeFrom(str, 1, TRUE)

\* {} when it meets an escape it does not know, \u among them.
RECURSIVE unescapeFrom(_, _)
unescapeFrom(s, i) ==
    LET Then(c, j) == {<<c>> \o t : t \in unescapeFrom(s, j)}
        e == At(s, i + 1)
    IN  IF i > Len(s) THEN {<<>>}
        ELSE IF s[i] # "\\" THEN Then(s[i], i + 1)
        ELSE IF e \in DOMAIN Letter THEN Then(Letter[e], i + 2)
        ELSE IF e \in Plain THEN Then(e, i + 2)
        ELSE {}

json_escape_unescape(s) == unescapeFrom(s, 1)

\* What json_out_addstr puts between the quotation marks.
json_out_addstr(str) == IF json_escape_needed(str) THEN json_escape(str) ELSE str

(***************************************************************************)
(* Hexadecimal                                                             *)
(***************************************************************************)
HexValue == "0" :> 0 @@ "9" :> 9 @@ "a" :> 10 @@ "f" :> 15 @@ "A" :> 10 @@ "F" :> 15

\* {} when the character is no hexadecimal digit.
char_to_hex(c) == IF c \in DOMAIN HexValue THEN {HexValue[c]} ELSE {}

RECURSIVE hex_decode_Short(_, _)
hex_decode_Short(str, bufsize) ==
    IF Len(str) <= 1
    THEN IF Len(str) = 0 THEN {<<>>} ELSE {}
    ELSE {<<v1 * 16 + v2>> \o rest :
            v1 \in char_to_hex(str[1]), v2 \in char_to_hex(str[2]),
            rest \in IF bufsize = 0 THEN {} ELSE hex_decode_Short(SubSeq(str, 3, Len(str)), bufsize - 1)}

\* {} unless the text is exactly bufsize bytes of hexadecimal.
RECURSIVE hex_decode(_, _)
hex_decode(str, bufsize) ==
    IF Len(str) <= 1
    THEN IF Len(str) = 0 /\ bufsize = 0 THEN {<<>>} ELSE {}
    ELSE {<<v1 * 16 + v2>> \o rest :
            v1 \in char_to_hex(str[1]), v2 \in char_to_hex(str[2]),
            rest \in IF bufsize = 0 THEN {} ELSE hex_decode(SubSeq(str, 3, Len(str)), bufsize - 1)}

hexchar(val) == CHOOSE c \in {"0", "9", "a", "f"} : HexValue[c] = val

hex_encode(buf) ==
    FlattenSeq([i \in DOMAIN buf |-> <<hexchar(buf[i] \div 16), hexchar(buf[i] % 16)>>])

-----------------------------------------------------------------------------
Init ==
    /\ utf8 = [state |-> UTF8_STATE_INIT, errno |-> "0", need_more |-> FALSE,
               fed |-> <<>>, cur |-> <<>>, points |-> <<>>]
    /\ work = [op |-> "none", in |-> <<>>, out |-> {}]

\* One turn of the loop of utf8_check; with errno set it has returned false.
utf8_check(c) ==
    LET r == utf8_decode(utf8.state, c)
        bytes == Append(utf8.cur, c)
    IN  /\ work.op = "none"
        /\ utf8.errno = "0" /\ Len(utf8.fed) < MaxBytes
        /\ utf8' = [state |-> r.s,
                    need_more |-> ~r.done,
                    errno |-> IF r.done THEN r.errno ELSE "0",
                    fed |-> Append(utf8.fed, c),
                    cur |-> IF r.done /\ r.errno = "0" THEN <<>> ELSE bytes,
                    points |-> IF r.done /\ r.errno = "0"
                               THEN Append(utf8.points, r.s.c) ELSE utf8.points]
        /\ UNCHANGED work

Convert(op, in, out) ==
    /\ utf8.fed = <<>> /\ work.op = "none"
    /\ work' = [op |-> op, in |-> in, out |-> out]
    /\ UNCHANGED utf8

AddString(str) == Convert("addstr", str, {json_out_addstr(str)})
PartialEscape(str) == Convert("partial", str, {json_partial_escape(str)})
Unescape(str) == Convert("unescape", str, json_escape_unescape(str))
HexDecode(text, n) == Convert("hex", <<text, n>>, hex_decode(text, n))

Next ==
    \/ \E c \in Bytes : utf8_check(c)
    \/ \E str \in Strings : AddString(str) \/ PartialEscape(str) \/ Unescape(str)
    \/ \E text \in HexTexts, n \in 0..3 : HexDecode(text, n)

Spec == Init /\ [][Next]_vars

-----------------------------------------------------------------------------
\* utf8_check accepts the texts that are a sequence of characters in their
\* shortest encoding and no others: what it has accepted so far is what
\* utf8_encode makes of the points it read, and bytes it refuses begin no
\* encoding of any point (common/utils.c:67, ccan/utf8/utf8.c:58).
Utf8Exact ==
    LET encoded == FlattenSeq([i \in DOMAIN utf8.points |-> utf8_encode(utf8.points[i])])
    IN  /\ encoded \o utf8.cur = utf8.fed
        /\ utf8.need_more <=> utf8.errno = "0" /\ utf8.cur # <<>>
        /\ utf8.errno # "0" => \A p \in Points : ~IsPrefix(utf8.cur, utf8_encode(p))

\* A text between quotation marks that a JSON parser reads as one string:
\* no control characters, no quotation mark and no backslash of its own.
RECURSIVE OneLiteral(_)
OneLiteral(s) ==
    \/ s = <<>>
    \/ s[1] \notin Needed /\ OneLiteral(Tail(s))
    \/ /\ s[1] = "\\" /\ Len(s) > 1
       /\ \/ s[2] \in DOMAIN Letter \cup Plain /\ OneLiteral(SubSeq(s, 3, Len(s)))
          \/ /\ s[2] = "u" /\ Len(s) > 5 /\ \A k \in 3..6 : s[k] \in HexDigit
             /\ OneLiteral(SubSeq(s, 7, Len(s)))

\* Whatever string json_out_addstr and json_partial_escape are given, the
\* result is one JSON string literal; json_escape_unescape gives back what
\* json_out_addstr was given, unless it holds a control character written
\* as \u, which it refuses; and a partial escape leaves alone what is
\* escaped already (ccan/json_escape/json_escape.c, ccan/json_out).
EscapesRead ==
    /\ work.op \in {"addstr", "partial"} => \A s \in work.out : OneLiteral(s)
    /\ work.op = "addstr" =>
          \A s \in work.out :
             /\ json_escape_unescape(s) =
                   (IF Contains(work.in, "BEL") THEN {} ELSE {work.in})
             /\ json_partial_escape(s) = s
    /\ work.op = "partial" => \A s \in work.out : json_partial_escape(s) = s

\* hex_decode fills its buffer exactly: it succeeds on the texts of two
\* digits for each byte, in either case, and on no others, and hex_encode
\* of the result is the text in lower case (ccan/str/hex/hex.c).
HexExact ==
    work.op = "hex" =>
        LET text == work.in[1]
            lower == [i \in DOMAIN text |->
                        IF text[i] = "A" THEN "a" ELSE IF text[i] = "F" THEN "f" ELSE text[i]]
        IN  IF Len(text) = 2 * work.in[2] /\ \A i \in DOMAIN text : text[i] \in DOMAIN HexValue
            THEN \E b \in work.out : work.out = {b} /\ Len(b) = work.in[2] /\ hex_encode(b) = lower
            ELSE work.out = {}
=============================================================================
