----------------------------- MODULE JsonTokens -----------------------------
(***************************************************************************)
(* JSON values and the jsmn tokens that stand for them: tokens in preorder,*)
(* each with the number of tokens directly in it.  A key is a string token *)
(* with one token, its value, in it.                                       *)
(***************************************************************************)
EXTENDS Integers, SequencesExt

(* What a value is as text, and which tokens it should give.  A value is   *)
(* [type, s] for a primitive or a string, [type, elems] for an array, and  *)
(* [type, elems] for an object, whose elements are <<key, value>>.         *)

RECURSIVE Text(_)
Text(v) ==
    LET Joined(texts) == FlattenSeq([i \in DOMAIN texts |->
                             (IF i = 1 THEN <<>> ELSE <<",">>) \o texts[i]])
    IN  CASE v.type = "PRIMITIVE" -> v.s
          [] v.type = "STRING" -> <<"q">> \o v.s \o <<"q">>
          [] v.type = "ARRAY" ->
                <<"[">> \o Joined([i \in DOMAIN v.elems |-> Text(v.elems[i])]) \o <<"]">>
          [] v.type = "OBJECT" ->
                <<"{">> \o Joined([i \in DOMAIN v.elems |->
                              Text(v.elems[i][1]) \o <<":", " ">> \o Text(v.elems[i][2])])
                        \o <<"}">>

\* Types, sizes and texts of the tokens that jsmn makes of a value.
RECURSIVE Tokens(_)
Tokens(v) ==
    CASE v.type \in {"PRIMITIVE", "STRING"} -> <<[type |-> v.type, size |-> 0, s |-> v.s]>>
      [] v.type = "ARRAY" ->
            <<[type |-> v.type, size |-> Len(v.elems), s |-> <<>>]>>
            \o FlattenSeq([i \in DOMAIN v.elems |-> Tokens(v.elems[i])])
      [] v.type = "OBJECT" ->
            <<[type |-> v.type, size |-> Len(v.elems), s |-> <<>>]>>
            \o FlattenSeq([i \in DOMAIN v.elems |->
                   <<[type |-> "STRING", size |-> 1, s |-> v.elems[i][1].s]>>
                   \o Tokens(v.elems[i][2])])

-----------------------------------------------------------------------------

\* The token after the whole value at i.
RECURSIVE json_next(_, _), Skip(_, _, _)
Skip(tt, i, n) == IF n = 0 THEN i ELSE Skip(tt, json_next(tt, i), n - 1)
json_next(tt, i) == Skip(tt, i + 1, tt[i].size)
=============================================================================
