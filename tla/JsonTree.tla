------------------------------ MODULE JsonTree ------------------------------
(***************************************************************************)
(* Reading and editing parsed JSON: json_get_member, json_get_arr,         *)
(* json_tok_copy, json_tok_remove and json_scan of common/json.c, and      *)
(* json_equal of plugins/payz, all of which walk the token array.          *)
(*                                                                         *)
(* `value` is the value that the array should stand for; it is edited as a *)
(* tree.  A json_scan guide is its syntax tree: a sequence of <<name,      *)
(* guide>> in an object, of <<index, guide>> in an array, a literal, or a  *)
(* "%" with the type of token its conversion takes ("any": all of them).   *)
(***************************************************************************)
EXTENDS JsonTokens

CONSTANTS
    Values,     \* values read
    Others,     \* values they are compared with
    Guides      \* guides they are scanned with

VARIABLES tokens, value

vars == <<tokens, value>>

\* Mutant of Parts: every part is taken for one token long.
Parts_Flat(tt, i) == [n \in 1 .. tt[i].size |-> i + n]

\* The elements of an array, or the keys of an object (json_for_each_arr,
\* json_for_each_obj).
Parts(tt, i) ==
    LET RECURSIVE From(_, _)
        From(t, n) == IF n = 0 THEN <<>> ELSE <<t>> \o From(json_next(tt, t), n - 1)
    IN  From(i + 1, tt[i].size)

First(seq, sought) ==
    {seq[n] : n \in {n \in DOMAIN seq : seq[n] \in sought /\ \A m \in 1 .. n - 1 : seq[m] \notin sought}}

\* The position of the value, in a set of at most one.
json_get_membern(tt, i, label) ==
    IF tt[i].type # "OBJECT" THEN {}
    ELSE {k + 1 : k \in First(Parts(tt, i), {t \in DOMAIN tt : tt[t].type = "STRING" /\ tt[t].s = label})}

json_get_arr(tt, i, index) ==
    LET p == Parts(tt, i)
    IN  IF tt[i].type # "ARRAY" \/ index >= Len(p) THEN {} ELSE {p[index + 1]}

json_tok_copy(tt, i) == SubSeq(tt, i, json_next(tt, i) - 1)

The(S) == CHOOSE x \in S : TRUE

-----------------------------------------------------------------------------
(* json_equal.                                                             *)

\* Mutant of SameSize: only arrays are compared by size.
SameSize_Arrays(t1, t2) == t1.type = "ARRAY" => t1.size = t2.size

SameSize(t1, t2) == t1.size = t2.size

RECURSIVE json_equal(_, _, _, _)
json_equal(tt1, i, tt2, j) ==
    LET a == Parts(tt1, i)
        b == Parts(tt2, j)
    IN  /\ tt1[i].type = tt2[j].type
        /\ CASE tt1[i].type \in {"PRIMITIVE", "STRING"} -> tt1[i].s = tt2[j].s
             [] tt1[i].type = "ARRAY" ->
                    /\ SameSize(tt1[i], tt2[j])
                    /\ \A n \in DOMAIN a : json_equal(tt1, a[n], tt2, b[n])
             [] tt1[i].type = "OBJECT" ->
                    /\ SameSize(tt1[i], tt2[j])
                    /\ \A n \in DOMAIN a :
                         LET v == json_get_membern(tt2, j, tt1[a[n]].s)
                         IN  v # {} /\ json_equal(tt1, a[n] + 1, tt2, The(v))

-----------------------------------------------------------------------------
(* json_scan.  A result is [ok, out]: out is what the conversions stored,  *)
(* those before an error included.                                         *)

handle_percent(tt, i, g) ==
    IF g.takes \in {"any", tt[i].type}
    THEN [ok |-> TRUE, out |-> <<json_tok_copy(tt, i)>>]
    ELSE [ok |-> FALSE, out |-> <<>>]

Failed == [ok |-> FALSE, out |-> <<>>]

\* parse_field and parse_arrelem: where the n-th part of a guide is.
PartAt(tt, i, g, n) ==
    IF g.kind = "obj" THEN json_get_membern(tt, i, g.parts[n][1])
    ELSE json_get_arr(tt, i, g.parts[n][1])

RECURSIVE parse_guide(_, _, _), parse_list(_, _, _, _)

\* parse_fieldlist and parse_arrlist: the parts in order, up to one that fails.
parse_list(tt, i, g, n) ==
    IF n > Len(g.parts) THEN [ok |-> TRUE, out |-> <<>>]
    ELSE LET m == PartAt(tt, i, g, n)
             r == IF m = {} THEN Failed ELSE parse_guide(tt, The(m), g.parts[n][2])
             rest == parse_list(tt, i, g, n + 1)
         IN  IF ~r.ok THEN r ELSE [ok |-> rest.ok, out |-> r.out \o rest.out]

parse_obj(tt, i, g) == IF tt[i].type # "OBJECT" THEN Failed ELSE parse_list(tt, i, g, 1)

parse_arr(tt, i, g) == IF tt[i].type # "ARRAY" THEN Failed ELSE parse_list(tt, i, g, 1)

\* parse_guide, and parse_fieldval, which also takes literals: they match
\* the text of the token, a string without its quotes.
parse_guide(tt, i, g) ==
    CASE g.kind = "obj" -> parse_obj(tt, i, g)
      [] g.kind = "arr" -> parse_arr(tt, i, g)
      [] g.kind = "%" -> handle_percent(tt, i, g)
      [] g.kind = "literal" -> [ok |-> tt[i].s = g.s, out |-> <<>>]

json_scan(tt, g) == parse_guide(tt, 1, g)

-----------------------------------------------------------------------------
(* json_tok_remove.                                                        *)

\* Mutant of json_tok_remove: as many tokens as values go.
json_tok_remove_Tokens(tt, obj, tok, num) ==
    [SubSeq(tt, 1, tok - 1) \o SubSeq(tt, tok + num, Len(tt)) EXCEPT ![obj].size = @ - num]

\* num values from tok on leave the array or object at obj.
json_tok_remove(tt, obj, tok, num) ==
    LET src == Skip(tt, tok, num)
    IN  [SubSeq(tt, 1, tok - 1) \o SubSeq(tt, src, Len(tt)) EXCEPT ![obj].size = @ - num]

Init == value \in Values /\ tokens = Tokens(value)

\* Whose parts can be removed: the root, or a part of it.
Holders == {<<>>} \cup {<<n>> : n \in DOMAIN value.elems}
Held(path) ==
    IF path = <<>> THEN value
    ELSE IF value.type = "ARRAY" THEN value.elems[path[1]] ELSE value.elems[path[1]][2]
Position(path) ==
    IF path = <<>> THEN 1
    ELSE Parts(tokens, 1)[path[1]] + (IF value.type = "OBJECT" THEN 1 ELSE 0)

RemoveParts(path, from, num) ==
    LET h == Held(path)
        cut == [h EXCEPT !.elems = SubSeq(@, 1, from - 1) \o SubSeq(@, from + num, Len(@))]
        pos == Position(path)
    IN  /\ tokens' = json_tok_remove(tokens, pos, Parts(tokens, pos)[from], num)
        /\ value' = IF path = <<>> THEN cut
                    ELSE IF value.type = "ARRAY"
                         THEN [value EXCEPT !.elems[path[1]] = cut]
                         ELSE [value EXCEPT !.elems[path[1]][2] = cut]

Next ==
    /\ value.type \in {"ARRAY", "OBJECT"}
    /\ \E path \in Holders :
          /\ Held(path).type \in {"ARRAY", "OBJECT"}
          /\ \E from \in DOMAIN Held(path).elems :
                \E num \in 1 .. Len(Held(path).elems) - from + 1 : RemoveParts(path, from, num)

Spec == Init /\ [][Next]_vars

-----------------------------------------------------------------------------

\* After any number of removals, at any depth, the array is the one that the
\* edited value would be parsed into (json_tok_remove: "Remove @num json
\* values from a json array or object").
RemovalIsExact == tokens = Tokens(value)

RECURSIVE SameJson(_, _)
SameJson(v, w) ==
    /\ v.type = w.type
    /\ CASE v.type \in {"PRIMITIVE", "STRING"} -> v.s = w.s
         [] v.type = "ARRAY" ->
                /\ Len(v.elems) = Len(w.elems)
                /\ \A n \in DOMAIN v.elems : SameJson(v.elems[n], w.elems[n])
         [] v.type = "OBJECT" ->
                \E perm \in [DOMAIN w.elems -> DOMAIN v.elems] :
                    /\ Len(v.elems) = Len(w.elems)
                    /\ \A n \in DOMAIN v.elems : \E m \in DOMAIN w.elems : perm[m] = n
                    /\ \A m \in DOMAIN w.elems :
                         /\ v.elems[perm[m]][1] = w.elems[m][1]
                         /\ SameJson(v.elems[perm[m]][2], w.elems[m][2])

RECURSIVE KeysDiffer(_)
KeysDiffer(v) ==
    CASE v.type \in {"PRIMITIVE", "STRING"} -> TRUE
      [] v.type = "ARRAY" -> \A n \in DOMAIN v.elems : KeysDiffer(v.elems[n])
      [] v.type = "OBJECT" ->
            /\ \A m, n \in DOMAIN v.elems : m # n => v.elems[m][1] # v.elems[n][1]
            /\ \A n \in DOMAIN v.elems : KeysDiffer(v.elems[n][2])

\* Of values whose objects repeat no key, json_equal tells exactly whether
\* they are the same JSON, whatever order their keys are in.
EqualMeansSame ==
    KeysDiffer(value) =>
        \A w \in Others :
            KeysDiffer(w) => (json_equal(tokens, 1, Tokens(w), 1) <=> SameJson(value, w))

\* The members of a value by the tree: at most one.
Member(v, key) ==
    CASE v.type = "OBJECT" -> {v.elems[n][2] : n \in
            First([n \in DOMAIN v.elems |-> n], {n \in DOMAIN v.elems : v.elems[n][1].s = key})}
      [] v.type = "ARRAY" -> IF key < Len(v.elems) THEN {v.elems[key + 1]} ELSE {}

RECURSIVE Matches(_, _)
Matches(v, g) ==
    CASE g.kind = "%" -> g.takes \in {"any", v.type}
      [] g.kind = "literal" -> IF v.type \in {"ARRAY", "OBJECT"} THEN FALSE ELSE v.s = g.s
      [] OTHER ->
            /\ v.type = IF g.kind = "obj" THEN "OBJECT" ELSE "ARRAY"
            /\ \A n \in DOMAIN g.parts :
                  \E m \in Member(v, g.parts[n][1]) : Matches(m, g.parts[n][2])

RECURSIVE Outputs(_, _)
Outputs(v, g) ==
    CASE g.kind = "%" -> <<Tokens(v)>>
      [] g.kind = "literal" -> <<>>
      [] OTHER -> FlattenSeq([n \in DOMAIN g.parts |->
                      Outputs(The(Member(v, g.parts[n][1])), g.parts[n][2])])

\* json_scan succeeds exactly for the values its guide describes, and then
\* each "%" has got the member that stands in its place in the guide.
ScanFollowsGuide ==
    \A g \in Guides :
        LET r == json_scan(tokens, g)
        IN  /\ r.ok <=> Matches(value, g)
            /\ r.ok => r.out = Outputs(value, g)
=============================================================================
