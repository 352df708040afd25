----------------------------- MODULE Dictionary -----------------------------
(***************************************************************************)
(* What the maps of ccan promise: a partial function, extended by adding   *)
(* a key it does not have, reduced by deleting one it has, and emptied;    *)
(* the call says whether it did.                                           *)
(***************************************************************************)
CONSTANTS Key, Value

VARIABLES
    dict,   \* the partial function
    ret     \* the last call: [op, key, ok], key a set of at most one

Init ==
    /\ dict = [k \in {} |-> {}]
    /\ ret = [op |-> "clear", key |-> {}, ok |-> TRUE]

Add(k, v) ==
    /\ ret' = [op |-> "add", key |-> {k}, ok |-> k \notin DOMAIN dict]
    /\ dict' = [x \in DOMAIN dict \cup {k} |-> IF x \in DOMAIN dict THEN dict[x] ELSE v]

Del(k) ==
    /\ ret' = [op |-> "del", key |-> {k}, ok |-> k \in DOMAIN dict]
    /\ dict' = [x \in DOMAIN dict \ {k} |-> dict[x]]

Clear ==
    /\ ret' = [op |-> "clear", key |-> {}, ok |-> TRUE]
    /\ dict' = [k \in {} |-> {}]

Next ==
    \/ \E k \in Key, v \in Value : Add(k, v)
    \/ \E k \in Key : Del(k)
    \/ Clear

Spec == Init /\ [][Next]_<<dict, ret>>
=============================================================================
