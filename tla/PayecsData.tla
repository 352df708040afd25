----------------------------- MODULE PayecsData -----------------------------
(***************************************************************************)
(* The commands of plugins/payz/payecs_data.c on the Entity-Component      *)
(* table.  payecs_newentity and payecs_setcomponents change state and are  *)
(* actions; payecs_getcomponents and payecs_listentities only answer, and  *)
(* are operators on the table.                                             *)
(*                                                                         *)
(* A write specification is [entity, exact, fields]: the `entity` number   *)
(* (Null when it is missing), the `exact` flag, and the sequence of the    *)
(* other fields of the object, <<component, datum>>, in which a component  *)
(* may occur twice.  Data are opaque, so json_equal is equality.           *)
(***************************************************************************)
EXTENDS EntityTable, SequencesExt

CONSTANTS
    Component,      \* sequence: the component names in the order of a strmap
    Datum,
    Writes,         \* the `writes` arguments clients use
    Expected,       \* the `expected` arguments clients use
    Crashed         \* the outcome "the plugin is gone"

VARIABLES next_entity, entity_map, running

vars == <<next_entity, entity_map, running>>

Components == Range(Component)

\* json_to_payecs_writespec: the first of several fields of the same name is
\* kept (strmap_add refuses the others), but all are counted.
json_to_payecs_writespec(obj) ==
    LET names == {obj.fields[i][1] : i \in DOMAIN obj.fields}
        First(c) == CHOOSE i \in DOMAIN obj.fields :
                       /\ obj.fields[i][1] = c
                       /\ \A k \in DOMAIN obj.fields : obj.fields[k][1] = c => i <= k
    IN  [entity         |-> obj.entity,
         exact          |-> obj.exact,
         components     |-> [c \in names |-> obj.fields[First(c)][2]],
         num_components |-> Len(obj.fields)]

\* param_array_of_payecs_writespec accepts the argument.
Parses(objs) == \A i \in DOMAIN objs : objs[i].entity # Null

\* The names ec_get_components returns, in order.
ComponentArray(tab, e) ==
    LET IsAttached(c) == Attached(tab, e, c) IN SelectSeq(Component, IsAttached)

\* One round of the validation loop of payecs_setcomponents.
Validates(tab, spec) ==
    /\ \A c \in DOMAIN spec.components :
          spec.components[c] = ec_get_component(tab, spec.entity, c)
    /\ spec.exact => Len(ComponentArray(tab, spec.entity)) = spec.num_components

\* The detaching of an exact write, the n-th of the writes, counting from 1.
\* The loop over the components detaches components[i], i being the index of
\* the write.  Past the end of the array the read is undefined: it may end
\* the plugin, or name any component or none.
DetachOutcomes(tab, e, n) ==
    LET components == ComponentArray(tab, e)
    IN  IF components = << >> THEN {tab}
        ELSE IF n <= Len(components)
        THEN {ec_set_component(tab, e, components[n], Null)}
        ELSE {Crashed, tab} \cup {ec_set_component(tab, e, c, Null) : c \in Components}

\* The possible tables after the n-th write.
WriteOutcomes(tab, spec, n) ==
    {IF t = Crashed THEN t ELSE set_components(t, spec.entity, spec.components) :
        t \in IF spec.exact THEN DetachOutcomes(tab, spec.entity, n) ELSE {tab}}

\* Mutant of payecs_setcomponents: each write is validated by itself.
payecs_setcomponents_Interleaved(tab, writes, expected) ==
    LET Write(S, n) == UNION {IF t # Crashed /\ (n \in DOMAIN expected =>
                                     Validates(t, json_to_payecs_writespec(expected[n])))
                              THEN WriteOutcomes(t, json_to_payecs_writespec(writes[n]), n)
                              ELSE {t} : t \in S}
    IN  IF ~Parses(writes) \/ ~Parses(expected)
        THEN {[answer |-> "JSONRPC2_INVALID_PARAMS", tab |-> tab]}
        ELSE {[answer |-> "ok", tab |-> t] : t \in FoldLeftDomain(Write, {tab}, writes)}

\* The possible answers and tables of payecs_setcomponents: everything is
\* validated, then everything is written, in one go.
payecs_setcomponents(tab, writes, expected) ==
    LET Write(S, n) == UNION {IF t = Crashed THEN {t}
                              ELSE WriteOutcomes(t, json_to_payecs_writespec(writes[n]), n) :
                              t \in S}
    IN  IF ~Parses(writes) \/ ~Parses(expected)
        THEN {[answer |-> "JSONRPC2_INVALID_PARAMS", tab |-> tab]}
        ELSE IF \E i \in DOMAIN expected :
                    ~Validates(tab, json_to_payecs_writespec(expected[i]))
        THEN {[answer |-> "PAYECS_SETCOMPONENTS_UNEXPECTED_COMPONENTS", tab |-> tab]}
        ELSE {[answer |-> "ok", tab |-> t] : t \in FoldLeftDomain(Write, {tab}, writes)}


\* The entities payecs_listentities answers.  The loop over `disallowed`
\* starts at index 9.
payecs_listentities(tab, required, disallowed) ==
    LET bounds == ec_get_entity_bounds(tab)
    IN  {e \in U32 : /\ bounds.min <= e /\ e < bounds.max
                     /\ ec_get_components(tab, e) # {}
                     /\ \A i \in DOMAIN required : Attached(tab, e, required[i])
                     /\ \A i \in 9 + 1 .. Len(disallowed) : ~Attached(tab, e, disallowed[i])}
-----------------------------------------------------------------------------
Init ==
    /\ next_entity = 1
    /\ entity_map = EmptyTable
    /\ running = TRUE

payecs_newentity ==
    /\ running
    /\ next_entity' = Inc32(next_entity)
    /\ UNCHANGED <<entity_map, running>>

SetComponents(writes, expected) ==
    /\ running
    /\ \E r \in payecs_setcomponents(entity_map, writes, expected) :
          IF r.tab = Crashed
          THEN running' = FALSE /\ UNCHANGED entity_map
          ELSE entity_map' = r.tab /\ UNCHANGED running
    /\ UNCHANGED next_entity

Next ==
    \/ payecs_newentity
    \/ \E writes \in Writes, expected \in Expected : SetComponents(writes, expected)

Spec == Init /\ [][Next]_vars
-----------------------------------------------------------------------------
Get(e, c) == ec_get_component(entity_map, e, c)

\* The counter is a u32 and the table maps entities to rows that are not
\* empty (the assertion of ec_get_components, which every exact
\* specification and payecs_listentities reach).
TypeOK ==
    /\ next_entity \in U32
    /\ IsTable(entity_map, U32, Components, Datum)
    /\ \A e \in DOMAIN entity_map : entity_map[e] # EmptyRow
    /\ running \in BOOLEAN

\* The fields of a specification name different components.
NoDuplicates(obj) ==
    \A i, k \in DOMAIN obj.fields : obj.fields[i][1] = obj.fields[k][1] => i = k

\* No field of the specification is null.
NoNulls(obj) == \A i \in DOMAIN obj.fields : obj.fields[i][2] # Null

Plain(objs) == \A i \in DOMAIN objs : ~objs[i].exact

\* doc/PAYECS.md:374-388 for one specification.
Holds(obj) ==
    /\ \A i \in DOMAIN obj.fields : Get(obj.entity, obj.fields[i][1]) = obj.fields[i][2]
    /\ obj.exact => ec_get_components(entity_map, obj.entity) =
                       {obj.fields[i][1] : i \in {k \in DOMAIN obj.fields : obj.fields[k][2] # Null}}

\* The write that decides a cell: the last that names it.
Decides(writes, n, e, c) ==
    /\ writes[n].entity = e
    /\ c \in DOMAIN json_to_payecs_writespec(writes[n]).components
    /\ \A k \in n + 1 .. Len(writes) :
          writes[k].entity = e => c \notin DOMAIN json_to_payecs_writespec(writes[k]).components

\* The generalized compare-and-swap (payecs_data.c:380-390,
\* doc/PAYECS.md:390-396), cell by cell and from every table: the writes
\* happen iff every expectation holds in the table as it was before the first
\* write, and then each cell has the value of the last write that names it or
\* is as it was.  Comparing the number of components is enough for `exact`
\* when the specification has neither nulls nor duplicates.
CompareAndSwap ==
    \A writes \in Writes, expected \in Expected :
        (/\ Parses(writes) /\ Parses(expected) /\ Plain(writes)
         /\ \A i \in DOMAIN expected : NoDuplicates(expected[i])
                                       /\ (expected[i].exact => NoNulls(expected[i])))
        => \A r \in payecs_setcomponents(entity_map, writes, expected) :
              /\ (r.answer = "ok") <=> \A i \in DOMAIN expected : Holds(expected[i])
              /\ \A e \in U32, c \in Components :
                    IF r.answer = "ok" /\ \E n \in DOMAIN writes : Decides(writes, n, e, c)
                    THEN LET n == CHOOSE k \in DOMAIN writes : Decides(writes, k, e, c)
                         IN  ec_get_component(r.tab, e, c) =
                                json_to_payecs_writespec(writes[n]).components[c]
                    ELSE ec_get_component(r.tab, e, c) = Get(e, c)

\* payecs_listentities without `disallowed` answers exactly the entities that
\* have all required components, unless the largest u32 has a row: then
\* ec_get_entity_bounds wraps, and the answer is empty.
ListsRequired ==
    \A required \in SeqOf(Components, 2) :
        payecs_listentities(entity_map, required, << >>) =
           {e \in U32 : /\ U32Max \notin DOMAIN entity_map
                        /\ \E c \in Components : Attached(entity_map, e, c)
                        /\ \A i \in DOMAIN required : Attached(entity_map, e, required[i])}

\* doc/PAYECS.md:441-443: "If `disallowed` is specified, if any of the
\* `disallowed` Components are attached, then the Entity will not be
\* returned."
ListHidesDisallowed ==
    \A c \in Components : \A e \in payecs_listentities(entity_map, << >>, <<c>>) :
        ~Attached(entity_map, e, c)

\* doc/PAYECS.md:366-368: "it must be the JSON `true`, and this means that
\* before actually writing, all Components of the Entity will be detached
\* first."
ExactWriteReplaces ==
    \A writes \in Writes :
        (Len(writes) = 1 /\ Parses(writes) /\ writes[1].exact) =>
            \A r \in payecs_setcomponents(entity_map, writes, << >>) :
                \A c \in ec_get_components(r.tab, writes[1].entity) :
                    \E i \in DOMAIN writes[1].fields : writes[1].fields[i][1] = c

\* doc/PAYECS.md:379-388: `exact` indicates "that the Entity should not have
\* any other attached Components that are not specified as non-`null`"; "A
\* `null` value means the Component should be detached".  A specification
\* that says exactly what is attached is met.
ExactExpectedIsMet ==
    \A expected \in Expected :
        (Parses(expected) /\ \A i \in DOMAIN expected : NoDuplicates(expected[i])
                                                        /\ Holds(expected[i]))
        => \A r \in payecs_setcomponents(entity_map, << >>, expected) : r.answer = "ok"
=============================================================================
