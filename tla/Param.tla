------------------------------- MODULE Param --------------------------------
(***************************************************************************)
(* The parameters of a command (common/param.c): given by position in an   *)
(* array, or by name in an object, each handed to the callback that its    *)
(* declaration names.                                                      *)
(*                                                                         *)
(* A declaration is [name, required, arg]: the place the callback writes   *)
(* to.  A given value is "null", "bad" (its callback refuses it) or        *)
(* another string.  In an array all names are "".                          *)
(***************************************************************************)
EXTENDS Integers, SequencesExt

CONSTANTS
    Declarations,   \* sequences of declarations
    Arrays,         \* sequences of values
    Objects         \* sequences of pairs <<name, value>>

VARIABLES
    params,         \* the declarations
    allow_extra,
    developer,      \* a build with DEVELOPER
    type,           \* "array", "object" or "other"
    given,          \* the tokens, as pairs <<name, value>>
    i,              \* the next of them
    is_set,         \* for each declaration
    out,            \* what the callbacks have written: [arg -> sequence]
    result          \* "parsing", "ok", "failed"

vars == <<params, allow_extra, developer, type, given, i, is_set, out, result>>
Inputs == <<params, allow_extra, developer, type, given>>

\* No required parameter after an optional one: check_distinct of
\* comp_req_order.
check_order(ps) == \A k \in 1 .. Len(ps) - 1 : ps[k].required \/ ~ps[k + 1].required

\* No two of the same name, none of the same place: check_unique.
check_unique(ps) ==
    \A k, l \in DOMAIN ps : k # l => ps[k].name # ps[l].name /\ ps[k].arg # ps[l].arg

check_params(ps) == Len(ps) < 2 \/ (check_order(ps) /\ check_unique(ps))

Pairs(values) == [k \in DOMAIN values |-> <<"", values[k]>>]

\* A build without DEVELOPER runs only calls that one with it lets through.
Init ==
    /\ params \in Declarations
    /\ developer \in BOOLEAN /\ (~developer => check_params(params))
    /\ allow_extra \in BOOLEAN
    /\ \/ type = "array" /\ given \in {Pairs(a) : a \in Arrays}
       \/ type = "object" /\ given \in Objects
       \/ type = "other" /\ given = <<>>
    /\ i = 1
    /\ is_set = [k \in DOMAIN params |-> FALSE]
    /\ out = [a \in {params[k].arg : k \in DOMAIN params} |-> <<>>]
    /\ result = "parsing"

command_fail == result' = "failed" /\ UNCHANGED <<i, is_set, out>>

\* The callback of declaration k on a value; one that refuses fails the
\* command.
make_callback(k, value) ==
    /\ is_set' = [is_set EXCEPT ![k] = TRUE]
    /\ IF value = "bad" THEN result' = "failed" /\ UNCHANGED <<i, out>>
       ELSE /\ out' = [out EXCEPT ![params[k].arg] = Append(@, value)]
            /\ i' = i + 1
            /\ UNCHANGED result

\* Mutant of post_check: the last required parameter is not looked at.
post_check_Short ==
    LET optional == {k \in DOMAIN params : ~params[k].required}
        first == Min(optional \cup {Len(params) + 1})
    IN  IF \E k \in 1 .. first - 2 : ~is_set[k] THEN command_fail
        ELSE result' = "ok" /\ UNCHANGED <<i, is_set, out>>

\* The required parameters are there: up to the first that is optional.
post_check ==
    LET optional == {k \in DOMAIN params : ~params[k].required}
        first == Min(optional \cup {Len(params) + 1})
    IN  IF \E k \in 1 .. first - 1 : ~is_set[k] THEN command_fail
        ELSE result' = "ok" /\ UNCHANGED <<i, is_set, out>>

parse_by_position ==
    CASE i > Len(given) -> post_check
      [] i <= Len(given) /\ i > Len(params) -> IF allow_extra THEN post_check ELSE command_fail
      [] i <= Len(given) /\ i <= Len(params) ->
            IF given[i][2] = "null" THEN i' = i + 1 /\ UNCHANGED <<is_set, out, result>>
            ELSE make_callback(i, given[i][2])

find_param(name) ==
    LET found == {k \in DOMAIN params : params[k].name = name}
    IN  IF found = {} THEN {} ELSE {Min(found)}

parse_by_name ==
    IF i > Len(given) THEN post_check
    ELSE LET p == find_param(given[i][1])
         IN  IF p = {}
             THEN IF allow_extra THEN i' = i + 1 /\ UNCHANGED <<is_set, out, result>>
                  ELSE command_fail
             ELSE \E k \in p :
                    IF is_set[k] THEN command_fail ELSE make_callback(k, given[i][2])

\* One token of param_arr, or the checks before or after them.
param_arr ==
    /\ result = "parsing"
    /\ IF developer /\ ~check_params(params) THEN command_fail
       ELSE CASE type = "array" -> parse_by_position
              [] type = "object" -> parse_by_name
              [] type = "other" -> command_fail
    /\ UNCHANGED Inputs

Next == param_arr
Spec == Init /\ [][Next]_vars

-----------------------------------------------------------------------------

\* The values given for declaration k.
ValuesFor(k) ==
    IF type = "array"
    THEN IF k <= Len(given) /\ given[k][2] # "null" THEN <<given[k][2]>> ELSE <<>>
    ELSE LET named == SelectSeq(given, LAMBDA g : g[1] = params[k].name)
         IN  [j \in DOMAIN named |-> named[j][2]]

Known(name) == \E k \in DOMAIN params : params[k].name = name

\* What the callers of param rely on, said of the tokens as a whole.
Acceptable ==
    /\ type \in {"array", "object"}
    /\ developer => check_params(params)
    /\ \A k \in DOMAIN params : /\ Len(ValuesFor(k)) <= 1
                                /\ params[k].required => ValuesFor(k) # <<>>
                                /\ \A j \in DOMAIN ValuesFor(k) : ValuesFor(k)[j] # "bad"
    /\ ~allow_extra =>
        IF type = "array" THEN Len(given) <= Len(params)
        ELSE \A j \in DOMAIN given : Known(given[j][1])

\* Exactly the parameters that make sense are taken, and those that are taken
\* have been handed to their own callback, once each, every required one among
\* them; so a handler that goes on finds all of its variables written.
ParametersExact ==
    /\ result # "parsing" => (result = "ok" <=> Acceptable)
    /\ result = "ok" => \A k \in DOMAIN params : out[params[k].arg] = ValuesFor(k)
=============================================================================
