-------------------------------- MODULE Jsmn --------------------------------
(***************************************************************************)
(* Reading JSON messages from a stream: external/jsmn (with JSMN_STRICT),  *)
(* json_parse_input of common/json.c with its validation, and the read     *)
(* loop of libplugin and the tester that calls it on each chunk.           *)
(*                                                                         *)
(* A character is one of Char: the punctuation, "q" for the quote, "\\",   *)
(* "1" for what begins and continues a primitive and is ordinary in a      *)
(* string, "x" for a byte that is not UTF-8, " " for white space.  Offsets *)
(* count from 0 as in C; tokens are numbered from 1 and `toks` holds the   *)
(* ones allocated (toknext of them), so toksuper is 0 for -1.  An escape   *)
(* is one character long here: \uXXXX is left out.                         *)
(***************************************************************************)
EXTENDS JsonTokens

CONSTANTS
    Sent,       \* sequences of JSON values that the peer may send
    Garbage,    \* character sequences that need not be JSON
    Alloc       \* tokens toks_alloc allocates (10)

VARIABLES
    sent,       \* what the peer sends: messages, or garbage
    wire,       \* characters not read yet
    buf,        \* buffer, up to used
    parser,     \* [pos, toksuper]
    toks, cap,  \* the tokens allocated; tal_count(toks)
    got,        \* the token arrays handed to the caller
    state       \* "read": wait for input; "parse"; "error": plugin_err

vars == <<sent, wire, buf, parser, toks, cap, got, state>>

At(js, i) == js[i + 1]
Open(t) == t.end = -1
Token(type, start, end) == [type |-> type, start |-> start, end |-> end, size |-> 0]

\* Results of a parse that are not a success.
NOMEM == -1
INVAL == -2
PART == -3

\* A parse in progress: what jsmn_parse changes, and its result so far.
Result(s, r) == [s EXCEPT !.r = r]

\* jsmn_alloc_token: NULL when the array is full (the last is kept spare).
Full(s) == Len(s.toks) >= s.max

\* The count of the token that the next one belongs to.
Grow(tt, super) == IF super = 0 THEN tt ELSE [tt EXCEPT ![super].size = @ + 1]

jsmn_alloc_token(s, t) == [s EXCEPT !.toks = Append(@, t)]

jsmn_parse_primitive(s, js) ==
    LET ends == {i \in s.pos .. Len(js) - 1 : At(js, i) \in {" ", ",", "]", "}"}}
        upto == IF ends = {} THEN Len(js) ELSE Min(ends)
    IN  IF \E i \in s.pos .. upto - 1 : At(js, i) = "x" THEN Result(s, INVAL)
        ELSE IF ends = {} THEN Result(s, PART)
        ELSE IF Full(s) THEN Result(s, NOMEM)
        ELSE [jsmn_alloc_token(s, Token("PRIMITIVE", s.pos, upto)) EXCEPT !.pos = upto - 1]

\* Where the string that goes on at i ends, or why it does not.
RECURSIVE StringEnd(_, _)
StringEnd(js, i) ==
    IF i >= Len(js) THEN PART
    ELSE IF At(js, i) = "q" THEN i
    ELSE IF At(js, i) = "\\" /\ i + 1 < Len(js)
         THEN IF At(js, i + 1) \in {"q", "\\"} THEN StringEnd(js, i + 2) ELSE INVAL
         ELSE StringEnd(js, i + 1)

\* Mutant of jsmn_parse_string: a partial string is not gone back over.
jsmn_parse_string_Forward(s, js) ==
    LET e == StringEnd(js, s.pos + 1)
    IN  IF e < 0 THEN [s EXCEPT !.r = e, !.pos = Len(js)]
        ELSE IF Full(s) THEN Result(s, NOMEM)
        ELSE [jsmn_alloc_token(s, Token("STRING", s.pos + 1, e)) EXCEPT !.pos = e]

jsmn_parse_string(s, js) ==
    LET e == StringEnd(js, s.pos + 1)
    IN  IF e < 0 THEN Result(s, e)
        ELSE IF Full(s) THEN Result(s, NOMEM)
        ELSE [jsmn_alloc_token(s, Token("STRING", s.pos + 1, e)) EXCEPT !.pos = e]

\* '{' and '['.
OpenToken(s, c) ==
    IF Full(s) THEN Result(s, NOMEM)
    ELSE LET a == jsmn_alloc_token(s, Token(IF c = "{" THEN "OBJECT" ELSE "ARRAY", s.pos, -1))
         IN  IF s.toksuper # 0 /\ s.toks[s.toksuper].type = "OBJECT" THEN Result(a, INVAL)
             ELSE [a EXCEPT !.toks = Grow(@, s.toksuper), !.toksuper = Len(a.toks)]

LastOpen(tt, upto) == Max({0} \cup {i \in 1 .. upto : Open(tt[i])})

\* '}' and ']'.
CloseToken(s, c) ==
    LET i == LastOpen(s.toks, Len(s.toks))
    IN  IF i = 0 \/ s.toks[i].type # (IF c = "}" THEN "OBJECT" ELSE "ARRAY")
        THEN Result(s, INVAL)
        ELSE [s EXCEPT !.toks[i].end = s.pos + 1, !.toksuper = LastOpen(s.toks, i - 1)]

\* ',' after a value of an object: back from the key to the object.
Comma(s) ==
    LET open == LastOpen(s.toks, Len(s.toks))
    IN  IF s.toksuper # 0 /\ s.toks[s.toksuper].type \notin {"ARRAY", "OBJECT"} /\ open # 0
        THEN [s EXCEPT !.toksuper = open]
        ELSE s

\* A string or a primitive counts for the token it is in, once it is whole.
Counted(s, was) == IF s.r # 0 THEN s ELSE [s EXCEPT !.toks = Grow(@, was.toksuper)]

PrimitiveAsKey(s) ==
    /\ s.toksuper # 0
    /\ LET t == s.toks[s.toksuper]
       IN  t.type = "OBJECT" \/ (t.type = "STRING" /\ t.size # 0)

OneChar(s, js) ==
    LET c == At(js, s.pos)
    IN  CASE c \in {"{", "["} -> OpenToken(s, c)
          [] c \in {"}", "]"} -> CloseToken(s, c)
          [] c = "q" -> Counted(jsmn_parse_string(s, js), s)
          [] c = " " -> s
          [] c = ":" -> [s EXCEPT !.toksuper = Len(s.toks)]
          [] c = "," -> Comma(s)
          [] c = "1" -> IF PrimitiveAsKey(s) THEN Result(s, INVAL)
                        ELSE Counted(jsmn_parse_primitive(s, js), s)
          [] OTHER -> Result(s, INVAL)

RECURSIVE jsmn_parse(_, _), GoOn(_, _)
jsmn_parse(s, js) ==
    IF s.pos >= Len(js)
    THEN IF \E i \in DOMAIN s.toks : Open(s.toks[i]) THEN Result(s, PART) ELSE s
    ELSE GoOn(OneChar(s, js), js)
GoOn(s, js) == IF s.r # 0 THEN s ELSE jsmn_parse([s EXCEPT !.pos = @ + 1], js)

jsmn_init == [pos |-> 0, toksuper |-> 0]

-----------------------------------------------------------------------------
(* common/json.c.                                                          *)

utf8_check(js, t) == \A i \in t.start .. t.end - 1 : At(js, i) # "x"

\* Mutant of IsKey: a key may hold any number of values.
IsKey_AnySize(js, t) == t.type = "STRING" /\ utf8_check(js, t)

IsKey(js, t) == t.type = "STRING" /\ t.size = 1 /\ utf8_check(js, t)

\* The validators return the token after the datum, or 0 when it is invalid.
RECURSIVE validate_jsmn_datum(_, _, _), validate_jsmn_keyvalue(_, _, _), Repeat(_, _, _, _)

Repeat(js, tt, p, todo) ==
    IF p = 0 \/ todo.n = 0 THEN p
    ELSE Repeat(js, tt,
                IF todo.keyed THEN validate_jsmn_keyvalue(js, tt, p)
                ELSE validate_jsmn_datum(js, tt, p),
                [todo EXCEPT !.n = @ - 1])

validate_jsmn_datum(js, tt, p) ==
    IF p > Len(tt) THEN 0
    ELSE IF tt[p].type \in {"STRING", "PRIMITIVE"}
         THEN IF tt[p].size = 0 /\ (tt[p].type = "STRING" => utf8_check(js, tt[p]))
              THEN p + 1 ELSE 0
         ELSE Repeat(js, tt, p + 1, [n |-> tt[p].size, keyed |-> tt[p].type = "OBJECT"])

validate_jsmn_keyvalue(js, tt, p) ==
    IF p > Len(tt) \/ ~IsKey(js, tt[p]) THEN 0 ELSE validate_jsmn_datum(js, tt, p + 1)

RECURSIVE DatumsFrom(_, _, _)
DatumsFrom(js, tt, p) ==
    p # 0 /\ (p <= Len(tt) => DatumsFrom(js, tt, validate_jsmn_datum(js, tt, p)))

validate_jsmn_parse_output(js, tt) == DatumsFrom(js, tt, 1)

\* The array doubles until the tokens fit; one of it is kept for the end mark.
RECURSIVE Again(_, _, _), Fits(_, _, _)
Again(s, js, size) == Fits(jsmn_parse([s EXCEPT !.max = size - 1, !.r = 0], js), js, size)
Fits(s, js, size) == IF s.r = NOMEM THEN Again(s, js, size * 2) ELSE s @@ [cap |-> size]

\* The first value's tokens, and no more of them.
Root(s, js, tt) ==
    [ok |-> validate_jsmn_parse_output(js, tt), complete |-> TRUE,
     s |-> [s EXCEPT !.toks = tt, !.cap = Len(tt) + 1]]

\* [ok, complete] and what it leaves in the parser and the tokens.
Outcome(s, js) ==
    IF s.r = INVAL THEN [ok |-> FALSE, complete |-> FALSE, s |-> s]
    ELSE IF s.toks = <<>> \/ Open(s.toks[1]) THEN [ok |-> TRUE, complete |-> FALSE, s |-> s]
    ELSE Root(s, js, SubSeq(s.toks, 1, json_next(s.toks, 1) - 1))

json_parse_input(js) ==
    Outcome(Again([pos |-> parser.pos, toksuper |-> parser.toksuper, toks |-> toks,
                   max |-> 0, r |-> 0], js, cap), js)

-----------------------------------------------------------------------------
(* The tokens as the callers see them: with their text.                    *)

ShapeOf(js, tt) ==
    [i \in DOMAIN tt |->
        [type |-> tt[i].type, size |-> tt[i].size,
         s |-> IF tt[i].type \in {"ARRAY", "OBJECT"} THEN <<>>
               ELSE SubSeq(js, tt[i].start + 1, tt[i].end)]]

-----------------------------------------------------------------------------
(* The read loop (ld_read_json of libplugin; rpc_conn_read_response and    *)
(* the tester's payz_tester_rpc_fd are alike): every chunk is appended and *)
(* json_parse_input is called until it needs more.                         *)

Streams ==
    {[msgs |-> m, text |-> FlattenSeq([i \in DOMAIN m |-> Text(m[i]) \o <<" ">>])] :
        m \in Sent}
    \cup {[msgs |-> <<>>, text |-> g] : g \in Garbage}

Init ==
    /\ sent \in {s \in Streams : s.text # <<>>}
    /\ wire = sent.text
    /\ buf = <<>>
    /\ parser = jsmn_init
    /\ toks = <<>>
    /\ cap = Alloc
    /\ got = <<>>
    /\ state = "read"

\* read(2) returns any part of what the peer wrote; garbage comes at once.
Read(n) ==
    /\ state = "read"
    /\ sent.msgs = <<>> => n = Len(wire)
    /\ buf' = buf \o SubSeq(wire, 1, n)
    /\ wire' = SubSeq(wire, n + 1, Len(wire))
    /\ state' = "parse"
    /\ UNCHANGED <<sent, parser, toks, cap, got>>

\* A complete message is handled and moved out of the buffer.
ld_read_json_one ==
    /\ state = "parse"
    /\ \E p \in {json_parse_input(buf)} :
          IF ~p.ok
          THEN state' = "error" /\ UNCHANGED <<buf, parser, toks, cap, got>>
          ELSE /\ state' = IF p.complete THEN "parse" ELSE "read"
               /\ cap' = p.s.cap
               /\ IF p.complete
                  THEN /\ got' = Append(got, ShapeOf(buf, p.s.toks))
                       /\ buf' = SubSeq(buf, p.s.toks[1].end + 1, Len(buf))
                       /\ parser' = jsmn_init /\ toks' = <<>>
                  ELSE /\ parser' = [pos |-> p.s.pos, toksuper |-> p.s.toksuper]
                       /\ toks' = p.s.toks
                       /\ UNCHANGED <<buf, got>>
    /\ UNCHANGED <<sent, wire>>

Next == (\E n \in 1 .. Len(wire) : Read(n)) \/ ld_read_json_one

Spec == Init /\ [][Next]_vars

-----------------------------------------------------------------------------

\* Whatever chunks a stream of well-formed messages arrives in, and however
\* often a parse stops for input or for room and is resumed, the caller gets
\* the messages in order, each with exactly the tokens of its value, and has
\* got all of them when everything is read (json_parse_input: "you can append
\* more data to @input and call it again").
MessagesAsSent ==
    sent.msgs # <<>> =>
        /\ state # "error"
        /\ Len(got) <= Len(sent.msgs)
        /\ \A i \in DOMAIN got : got[i] = Tokens(sent.msgs[i])
        /\ wire = <<>> /\ state = "read" => Len(got) = Len(sent.msgs)

\* A reader of tokens, as json_get_membern and the scans are: the token after
\* the datum at p when its objects hold keys with one value each and no
\* other leaf has parts; 0 otherwise.
RECURSIVE ReadDatum(_, _), ReadParts(_, _, _, _)
ReadParts(tt, p, n, keyed) ==
    IF n = 0 \/ p = 0 THEN p
    ELSE IF p > Len(tt) THEN 0
    ELSE IF keyed
         THEN IF tt[p].type = "STRING" /\ tt[p].size = 1
              THEN ReadParts(tt, ReadDatum(tt, p + 1), n - 1, keyed) ELSE 0
         ELSE ReadParts(tt, ReadDatum(tt, p), n - 1, keyed)
ReadDatum(tt, p) ==
    IF p > Len(tt) THEN 0
    ELSE IF tt[p].type \in {"STRING", "PRIMITIVE"} /\ tt[p].size # 0 THEN 0
    ELSE ReadParts(tt, p + 1, tt[p].size, tt[p].type = "OBJECT")

\* Whatever the characters are, the tokens of an accepted message are one
\* whole value that the code after the validation can walk: it never leaves
\* the array, and the array ends where the value does.
AcceptedIsWalkable ==
    \A i \in DOMAIN got : ReadDatum(got[i], 1) = Len(got[i]) + 1
=============================================================================
