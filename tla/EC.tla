--------------------------------- MODULE EC ---------------------------------
(***************************************************************************)
(* The Entity-Component table as a component of its own: `struct ec` of    *)
(* plugins/payz/ecs/ec.c with its two mutating operations, called in any   *)
(* order with any arguments.                                               *)
(***************************************************************************)
EXTENDS EntityTable

CONSTANTS
    Component,  \* the component names in use
    Datum       \* the non-null JSON data in use

ASSUME DatumAssumption == Null \notin Datum

VARIABLES
    next_entity,    \* the counter of ec_newentity
    entity_map      \* the table

vars == <<next_entity, entity_map>>

\* ec_new
Init ==
    /\ next_entity = 1
    /\ entity_map = EmptyTable

\* Mutant of ec_newentity: a counter wider than u32.
ec_newentity_Wide ==
    /\ next_entity' = next_entity + 1
    /\ UNCHANGED entity_map

\* Returns next_entity.
ec_newentity ==
    /\ next_entity' = Inc32(next_entity)
    /\ UNCHANGED entity_map

SetComponent(e, c, v) ==
    /\ entity_map' = ec_set_component(entity_map, e, c, v)
    /\ UNCHANGED next_entity

Next ==
    \/ ec_newentity
    \/ \E e \in U32, c \in Component, v \in Datum \cup {Null} : SetComponent(e, c, v)

Spec == Init /\ [][Next]_vars
-----------------------------------------------------------------------------
\* The table is a map from u32 entities to maps from names to data.
TypeOK ==
    /\ next_entity \in U32
    /\ IsTable(entity_map, U32, Component, Datum)

\* The assertion of ec_get_components: "If the components were empty then
\* the entityrow should have been deleted", whatever was attached and
\* detached before.
NoEmptyRow == \A e \in DOMAIN entity_map : DOMAIN entity_map[e] # {}

\* ec_get_entity_bounds returns an interval that holds every entity with a
\* row, and is empty only when there is none, as ec.h says, provided the last
\* u32 has no row.
BoundsCoverRows ==
    LET b == ec_get_entity_bounds(entity_map)
    IN  U32Max \notin DOMAIN entity_map =>
            /\ DOMAIN entity_map \subseteq b.min .. (b.max - 1)
            /\ (b.min = b.max) <=> (DOMAIN entity_map = {})

\* Both together: the bounds are exact on every table that the operations can
\* build, which is one of u32 entities.
BoundsExact == TypeOK /\ BoundsCoverRows

\* What the callers of ec_get_component see of the table.
Cells == [e \in U32 |-> [c \in Component |-> ec_get_component(entity_map, e, c)]]

Abstract == INSTANCE CellMap WITH cells <- Cells, Entity <- U32

\* The rows that come and go are invisible: through ec_get_component the
\* table is a plain map of independent cells.
ImplementsCells == Abstract!Spec
=============================================================================
