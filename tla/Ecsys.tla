------------------------------- MODULE Ecsys -------------------------------
(***************************************************************************)
(* Systems and how an entity is advanced from one to the next: the pure    *)
(* part of plugins/payz/ecs/ecsys.c and plugins/payz/setsystems.c, as      *)
(* operators on a table.                                                   *)
(*                                                                         *)
(* A registered system is a record of its required and disallowed          *)
(* components, in order.  A `lightningd:systems` datum that is a JSON      *)
(* object is a function from its field names; a datum of any other shape   *)
(* is a member of Scalar.  The `systems` field is a sequence of names (a   *)
(* lone string stands for the array of that string, as                     *)
(* json_to_array_of_strings reads it) or a member of Scalar; `current` is  *)
(* a number; `error` is represented by its code, which fixes its message.  *)
(***************************************************************************)
EXTENDS EntityTable, Sequences

CONSTANT Scalar     \* JSON data with no structure that matters

ASSUME ScalarAssumption == Null \notin Scalar

SystemsComponent == "lightningd:systems"

OK == "ok"
INVALID_SYSTEMS_COMPONENT == "PAY_ECS_INVALID_SYSTEMS_COMPONENT"
NOT_ADVANCEABLE == "PAY_ECS_NOT_ADVANCEABLE"

\* Functions given by cases, the first of which counts (the prover does not
\* open TLC's :> and @@).
Single(x, v) == [k \in {x} |-> v]
f ++ g == [k \in DOMAIN f \cup DOMAIN g |-> IF k \in DOMAIN f THEN f[k] ELSE g[k]]

Registered(required, disallowed) ==
    [required |-> required, disallowed |-> disallowed]

IsObject(v) == v \notin Scalar \cup {Null}

\* Mutant of payz_generic_setsystems_tok: leaves a component that is not an
\* object alone.
setsystems_OnlyObjects(tab, e, field, v) ==
    LET old  == ec_get_component(tab, e, SystemsComponent)
        kept == IF IsObject(old) THEN DOMAIN old \ {field} ELSE {}
    IN  IF old \in Scalar
        THEN tab
        ELSE ec_set_component(tab, e, SystemsComponent,
                [f \in kept \cup {field} |-> IF f = field THEN v ELSE old[f]])

\* payz_generic_setsystems_tok: write one field, keep the others if the
\* component is an object, else start a new object.
setsystems(tab, e, field, v) ==
    LET old  == ec_get_component(tab, e, SystemsComponent)
        kept == IF IsObject(old) THEN DOMAIN old \ {field} ELSE {}
    IN  ec_set_component(tab, e, SystemsComponent,
            [f \in kept \cup {field} |-> IF f = field THEN v ELSE old[f]])

\* An array of strings; Null for a datum that is none.
json_to_array_of_strings(v) == IF v \in Scalar THEN Null ELSE v

\* payz_generic_getsystems_tal: Null when the component or the field is
\* missing, or the field is not an array of strings.
getsystems(tab, e) ==
    LET v == ec_get_component(tab, e, SystemsComponent)
    IN  IF IsObject(v) /\ "systems" \in DOMAIN v
        THEN json_to_array_of_strings(v["systems"])
        ELSE Null

\* All required components attached, no disallowed one; a system without
\* required components matches nothing.
system_matches(tab, e, system) ==
    /\ system.required # << >>
    /\ \A i \in DOMAIN system.required : Attached(tab, e, system.required[i])
    /\ \A i \in DOMAIN system.disallowed : ~Attached(tab, e, system.disallowed[i])

\* Mutant of Invocation: passes every component of the entity.
Invocation_WholeRow(tab, e, name, system) ==
    [system |-> name, entity |-> e, components |-> Row(tab, e)]

\* run_system: the payecs_system_invoke notification, with the required
\* components as they are now.
Invocation(tab, e, name, system) ==
    [system |-> name,
     entity |-> e,
     components |-> [c \in {system.required[i] : i \in DOMAIN system.required} |->
                        ec_get_component(tab, e, c)]]

ecsys_advance_error(tab, e, code) ==
    [code |-> code, tab |-> setsystems(tab, e, "error", code), sent |-> << >>]

\* Mutant of ecsys_advance: the notification is built before `current` is
\* updated.
ecsys_advance_EarlySnapshot(system_map, tab, e) ==
    LET systems == getsystems(tab, e)
        stops == {i \in DOMAIN systems :
                    \/ systems[i] \notin DOMAIN system_map
                    \/ system_matches(tab, e, system_map[systems[i]])}
        i == CHOOSE k \in stops : \A j \in stops : k <= j
    IN  IF systems = Null THEN ecsys_advance_error(tab, e, INVALID_SYSTEMS_COMPONENT)
        ELSE IF stops = {} THEN ecsys_advance_error(tab, e, NOT_ADVANCEABLE)
        ELSE IF systems[i] \notin DOMAIN system_map
             THEN ecsys_advance_error(tab, e, INVALID_SYSTEMS_COMPONENT)
        ELSE [code |-> OK, tab |-> setsystems(tab, e, "current", i - 1),
              sent |-> <<Invocation(tab, e, systems[i], system_map[systems[i]])>>]

\* ecsys_advance: scan `systems` in order up to the first name that is not
\* registered (an error) or whose system matches; record its index in
\* `current`, then send the notification.
ecsys_advance(system_map, tab, e) ==
    LET systems == getsystems(tab, e)
        stops == {i \in DOMAIN systems :
                    \/ systems[i] \notin DOMAIN system_map
                    \/ system_matches(tab, e, system_map[systems[i]])}
        i   == CHOOSE k \in stops : \A j \in stops : k <= j
        new == setsystems(tab, e, "current", i - 1)
    IN  IF systems = Null
        THEN ecsys_advance_error(tab, e, INVALID_SYSTEMS_COMPONENT)
        ELSE IF stops = {}
        THEN ecsys_advance_error(tab, e, NOT_ADVANCEABLE)
        ELSE IF systems[i] \notin DOMAIN system_map
        THEN ecsys_advance_error(tab, e, INVALID_SYSTEMS_COMPONENT)
        ELSE [code |-> OK,
              tab  |-> new,
              sent |-> <<Invocation(new, e, systems[i], system_map[systems[i]])>>]
=============================================================================
