------------------------------ MODULE ECProofs ------------------------------
(***************************************************************************)
(* The Entity-Component table keeps its type and never holds an empty row, *)
(* and implements CellMap, for every set of component names and data and   *)
(* every width of the entity numbers.                                      *)
(***************************************************************************)
EXTENDS EC, TLAPS

\* The entity counter and the table keep their types under every sequence of
\* ec_newentity and ec_set_component.
THEOREM TypeCorrect == Spec => []TypeOK
<1>1. Init => TypeOK
  BY U32MaxAssumption DEF Init, TypeOK, U32, EmptyTable, IsTable
<1>2. TypeOK /\ [Next]_vars => TypeOK'
  <2> SUFFICES ASSUME TypeOK, [Next]_vars PROVE TypeOK'
    OBVIOUS
  <2>1. CASE ec_newentity
    BY <2>1, U32MaxAssumption DEF TypeOK, ec_newentity, U32, Inc32
  <2>2. ASSUME NEW e \in U32, NEW c \in Component, NEW v \in Datum \cup {Null},
               SetComponent(e, c, v)
        PROVE  TypeOK'
    BY <2>2, SetIsTable DEF TypeOK, SetComponent
  <2>3. CASE UNCHANGED vars
    BY <2>3 DEF TypeOK, vars
  <2> QED
    BY <2>1, <2>2, <2>3 DEF Next
<1> QED
  BY <1>1, <1>2, PTL DEF Spec

\* The assertion of ec_get_components (ec.c) holds in every reachable table:
\* an entity whose last component is detached loses its row.
THEOREM RowsNeverEmpty == Spec => []NoEmptyRow
<1>1. Init => NoEmptyRow
  BY DEF Init, NoEmptyRow, EmptyTable
<1>2. NoEmptyRow /\ [Next]_vars => NoEmptyRow'
  <2> SUFFICES ASSUME NoEmptyRow, [Next]_vars PROVE NoEmptyRow'
    OBVIOUS
  <2>1. CASE ec_newentity
    BY <2>1 DEF NoEmptyRow, ec_newentity
  <2>2. ASSUME NEW e \in U32, NEW c \in Component, NEW v \in Datum \cup {Null},
               SetComponent(e, c, v)
        PROVE  NoEmptyRow'
    BY <2>2, SetNoEmptyRow DEF NoEmptyRow, SetComponent
  <2>3. CASE UNCHANGED vars
    BY <2>3 DEF NoEmptyRow, vars
  <2> QED
    BY <2>1, <2>2, <2>3 DEF Next
<1> QED
  BY <1>1, <1>2, PTL DEF Spec

\* In a table of u32 entities of which the last has no row, the interval of
\* ec_get_entity_bounds holds every row, and is empty only with the table.
LEMMA BoundsHold == TypeOK => BoundsCoverRows
<1> SUFFICES ASSUME TypeOK, U32Max \notin DOMAIN entity_map
             PROVE  LET b == ec_get_entity_bounds(entity_map)
                    IN  /\ DOMAIN entity_map \subseteq b.min .. (b.max - 1)
                        /\ (b.min = b.max) <=> (DOMAIN entity_map = {})
  BY DEF BoundsCoverRows
<1> DEFINE b == ec_get_entity_bounds(entity_map)
<1>1. DOMAIN entity_map \subseteq U32
  BY DEF TypeOK, IsTable
<1>2. CASE DOMAIN entity_map = {}
  BY <1>2 DEF ec_get_entity_bounds
<1>3. CASE DOMAIN entity_map # {}
  <2>1. /\ b.min \in DOMAIN entity_map
        /\ \A e \in DOMAIN entity_map : b.min <= e
        /\ \E last \in DOMAIN entity_map :
              (\A e \in DOMAIN entity_map : e <= last) /\ b.max = Inc32(last)
    BY <1>1, <1>3, BoundsOfTable
  <2> HIDE DEF b
  <2>2. PICK last \in DOMAIN entity_map :
            (\A e \in DOMAIN entity_map : e <= last) /\ b.max = Inc32(last)
    BY <2>1
  <2>3. last \in 0 .. U32Max - 1 /\ b.min \in 0 .. U32Max /\ b.min <= last
    BY <1>1, <2>1, <2>2, U32MaxAssumption DEF U32
  <2>4. b.max = last + 1
    BY <2>2, <2>3, U32MaxAssumption DEF Inc32
  <2>5. \A e \in DOMAIN entity_map : e \in b.min .. (b.max - 1)
    BY <1>1, <2>1, <2>2, <2>3, <2>4, U32MaxAssumption DEF U32
  <2>6. b.min # b.max
    BY <2>3, <2>4
  <2> QED
    BY <1>3, <2>5, <2>6 DEF b
<1> QED
  BY <1>2, <1>3

\* Callers that walk from min up to max (payecs_listentities) meet every entity
\* that has a component, whatever the width of the entity numbers, as long as
\* no one uses the last one.
THEOREM BoundsAlwaysExact == Spec => []BoundsExact
<1>1. TypeOK => BoundsExact
  BY BoundsHold DEF BoundsExact
<1> QED
  BY <1>1, TypeCorrect, PTL

\* Through ec_get_component the table with its rows behaves as a plain map of
\* cells: one ec_set_component writes one cell.
THEOREM TableImplementsCells == Spec => ImplementsCells
<1>1. Init => Abstract!Init
  BY DEF Init, Abstract!Init, Cells, EmptyTable, ec_get_component, Attached,
         ec_get_components, Row, EmptyRow
<1>2. [Next]_vars => [Abstract!Next]_Cells
  <2> SUFFICES ASSUME [Next]_vars PROVE [Abstract!Next]_Cells
    OBVIOUS
  <2>1. CASE ec_newentity
    BY <2>1 DEF ec_newentity, Cells
  <2>2. ASSUME NEW e \in U32, NEW c \in Component, NEW v \in Datum \cup {Null},
               SetComponent(e, c, v)
        PROVE  Abstract!Next
    <3>1. \A x \in U32, k \in Component :
            ec_get_component(entity_map', x, k) =
              IF x = e /\ k = c THEN v ELSE ec_get_component(entity_map, x, k)
      BY <2>2, GetAfterSet DEF SetComponent
    <3>2. Cells' = [Cells EXCEPT ![e][c] = v]
      BY <3>1 DEF Cells
    <3> QED
      BY <3>2 DEF Abstract!Next, Abstract!Write
  <2>3. CASE UNCHANGED vars
    BY <2>3 DEF vars, Cells
  <2> QED
    BY <2>1, <2>2, <2>3 DEF Next
<1> QED
  BY <1>1, <1>2, PTL DEF Spec, ImplementsCells, Abstract!Spec
=============================================================================
