---------------------------- MODULE EntityTable ----------------------------
(***************************************************************************)
(* The Entity-Component table of plugins/payz/ecs/ec.c as a value, and the *)
(* functions of that file as operators on it.                              *)
(*                                                                         *)
(* A table maps the entities that have a row (the intmap `entity_map`) to  *)
(* their rows, and a row (the strmap `component_map`) maps the names of    *)
(* the attached components to their JSON data.  A datum is an opaque       *)
(* value; the JSON `null` and the C NULL pointer, which ec_set_component   *)
(* treats alike, are the value Null.  Lemmas on what a write does to what  *)
(* every reader sees are at the end.                                       *)
(***************************************************************************)
EXTENDS Integers, WellFoundedInduction, TLAPS

CONSTANT
    Null,       \* the JSON datum `null`: "this component is detached"
    U32Max      \* the largest u32, 2^32 - 1 in the program

ASSUME U32MaxAssumption == U32Max \in Nat \ {0}

\* The entity identifiers: C's u32.
U32 == 0 .. U32Max

\* u32 arithmetic: x + 1 wraps to 0 after U32Max.
Inc32(x) == (x + 1) % (U32Max + 1)

\* No entity has a row (uintmap_init in ec_new).
EmptyTable == [e \in {} |-> Null]

EmptyRow == [c \in {} |-> Null]

\* The row of an entity; an entity without one has nothing attached.
Row(tab, e) == IF e \in DOMAIN tab THEN tab[e] ELSE EmptyRow

\* The names ec_get_components returns (no row: the C NULL, an empty array).
ec_get_components(tab, e) == DOMAIN Row(tab, e)

\* The boolean ec_get_component returns.
Attached(tab, e, c) == c \in ec_get_components(tab, e)

\* The datum ec_get_component returns: `null` when nothing is attached.
ec_get_component(tab, e, c) ==
    IF Attached(tab, e, c) THEN tab[e][c] ELSE Null

\* Mutant of ec_set_component: the row outlives its last cell.
ec_set_component_KeepsEmptyRow(tab, e, c, v) ==
    LET old == Row(tab, e)
        new == IF v = Null
               THEN [k \in DOMAIN old \ {c} |-> old[k]]
               ELSE [k \in DOMAIN old \cup {c} |-> IF k = c THEN v ELSE old[k]]
    IN  [x \in DOMAIN tab \cup {e} |-> IF x = e THEN new ELSE tab[x]]

\* Mutant of ec_set_component: detaching one cell deletes the whole row.
ec_set_component_DropsRow(tab, e, c, v) ==
    LET new == [k \in ec_get_components(tab, e) \cup {c} |->
                  IF k = c THEN v ELSE tab[e][k]]
        rows == IF v = Null THEN DOMAIN tab \ {e} ELSE DOMAIN tab \cup {e}
    IN  [x \in rows |-> IF x = e THEN new ELSE tab[x]]

\* Attaching replaces the cell and creates the row when it is the first;
\* a Null datum detaches, and the row goes with its last cell.
ec_set_component(tab, e, c, v) ==
    LET old == Row(tab, e)
        new == IF v = Null
               THEN [k \in DOMAIN old \ {c} |-> old[k]]
               ELSE [k \in DOMAIN old \cup {c} |-> IF k = c THEN v ELSE old[k]]
        rows == IF DOMAIN new = {} THEN DOMAIN tab \ {e} ELSE DOMAIN tab \cup {e}
    IN  [x \in rows |-> IF x = e THEN new ELSE tab[x]]

\* Mutant of set_components: the row outlives its last cell.
set_components_KeepsEmptyRow(tab, e, comps) ==
    LET old  == Row(tab, e)
        kept == {k \in DOMAIN old \cup DOMAIN comps :
                    k \in DOMAIN comps => comps[k] # Null}
        new  == [k \in kept |-> IF k \in DOMAIN comps THEN comps[k] ELSE old[k]]
    IN  [x \in DOMAIN tab \cup {e} |-> IF x = e THEN new ELSE tab[x]]

\* ec_set_component for every component that comps names: what iterating over
\* a set of distinct names amounts to, in whatever order.
set_components(tab, e, comps) ==
    LET old  == Row(tab, e)
        kept == {k \in DOMAIN old \cup DOMAIN comps :
                    k \in DOMAIN comps => comps[k] # Null}
        new  == [k \in kept |-> IF k \in DOMAIN comps THEN comps[k] ELSE old[k]]
        rows == IF kept = {} THEN DOMAIN tab \ {e} ELSE DOMAIN tab \cup {e}
    IN  [x \in rows |-> IF x = e THEN new ELSE tab[x]]

\* Mutant of ec_get_entity_bounds: max is the last entity, not one past it.
ec_get_entity_bounds_Inclusive(tab) ==
    IF DOMAIN tab = {}
    THEN [min |-> 0, max |-> 0]
    ELSE [min |-> CHOOSE e \in DOMAIN tab : \A x \in DOMAIN tab : e <= x,
          max |-> CHOOSE e \in DOMAIN tab : \A x \in DOMAIN tab : x <= e]

\* The half-open interval [min, max) of ec_get_entity_bounds.
ec_get_entity_bounds(tab) ==
    IF DOMAIN tab = {}
    THEN [min |-> 0, max |-> 0]
    ELSE [min |-> CHOOSE e \in DOMAIN tab : \A x \in DOMAIN tab : e <= x,
          max |-> Inc32(CHOOSE e \in DOMAIN tab : \A x \in DOMAIN tab : x <= e)]

\* tab is a map from Entities to maps from Components to D.
IsTable(tab, Entities, Components, D) ==
    /\ tab = [e \in DOMAIN tab |-> [c \in DOMAIN tab[e] |-> tab[e][c]]]
    /\ DOMAIN tab \subseteq Entities
    /\ \A e \in DOMAIN tab :
          /\ DOMAIN tab[e] \subseteq Components
          /\ \A c \in DOMAIN tab[e] : tab[e][c] \in D
-----------------------------------------------------------------------------
\* After ec_set_component a component is attached iff it was just written
\* with a datum, or it is another one and was attached before.
LEMMA AttachedAfterSet ==
    ASSUME NEW tab, NEW e, NEW c, NEW v, NEW x, NEW k
    PROVE  Attached(ec_set_component(tab, e, c, v), x, k) <=>
              IF x = e /\ k = c THEN v # Null ELSE Attached(tab, x, k)
  BY DEF Attached, ec_get_components, ec_set_component, Row, EmptyRow

\* ec_get_component reads back what ec_set_component wrote to that cell (a
\* write of Null included), and every other cell as it was.
LEMMA GetAfterSet ==
    ASSUME NEW tab, NEW e, NEW c, NEW v, NEW x, NEW k
    PROVE  ec_get_component(ec_set_component(tab, e, c, v), x, k) =
              IF x = e /\ k = c THEN v ELSE ec_get_component(tab, x, k)
  BY DEF ec_get_component, Attached, ec_get_components, ec_set_component, Row, EmptyRow

\* ec_set_component keeps the table a map of maps of data.
LEMMA SetIsTable ==
    ASSUME NEW Entities, NEW Components, NEW D, NEW tab,
           IsTable(tab, Entities, Components, D),
           NEW e \in Entities, NEW c \in Components, NEW v \in D \cup {Null}
    PROVE  IsTable(ec_set_component(tab, e, c, v), Entities, Components, D)
<1> DEFINE old == Row(tab, e)
           new == IF v = Null
                  THEN [k \in DOMAIN old \ {c} |-> old[k]]
                  ELSE [k \in DOMAIN old \cup {c} |-> IF k = c THEN v ELSE old[k]]
           rows == IF DOMAIN new = {} THEN DOMAIN tab \ {e} ELSE DOMAIN tab \cup {e}
           res == [x \in rows |-> IF x = e THEN new ELSE tab[x]]
<1>1. ec_set_component(tab, e, c, v) = res
  BY DEF ec_set_component
<1>2. DOMAIN old \subseteq Components /\ \A k \in DOMAIN old : old[k] \in D
  BY DEF IsTable, Row, EmptyRow
<1>3. /\ new = [k \in DOMAIN new |-> new[k]]
      /\ DOMAIN new \subseteq Components
      /\ \A k \in DOMAIN new : new[k] \in D
  BY <1>2
<1>4. \A x \in DOMAIN tab : tab[x] = [k \in DOMAIN tab[x] |-> tab[x][k]]
  BY DEF IsTable
<1> HIDE DEF new, old
<1>5. DOMAIN res = rows /\ rows \subseteq Entities
  BY DEF IsTable
<1>6. \A x \in rows : /\ res[x] = [k \in DOMAIN res[x] |-> res[x][k]]
                      /\ DOMAIN res[x] \subseteq Components
                      /\ \A k \in DOMAIN res[x] : res[x][k] \in D
  BY <1>3, <1>4, Zenon DEF IsTable
<1>7. res = [x \in DOMAIN res |-> [k \in DOMAIN res[x] |-> res[x][k]]]
  BY <1>5, <1>6, Zenon
<1>8. DOMAIN res \subseteq Entities /\ \A x \in DOMAIN res :
         DOMAIN res[x] \subseteq Components /\ \A k \in DOMAIN res[x] : res[x][k] \in D
  BY <1>5, <1>6, Zenon
<1> HIDE DEF res, rows
<1>9. IsTable(res, Entities, Components, D)
  BY <1>7, <1>8 DEF IsTable
<1> QED
  BY <1>1, <1>9

\* ec_set_component never leaves an empty row behind.
LEMMA SetNoEmptyRow ==
    ASSUME NEW tab, \A x \in DOMAIN tab : DOMAIN tab[x] # {},
           NEW e, NEW c, NEW v
    PROVE  LET new == ec_set_component(tab, e, c, v)
           IN  \A x \in DOMAIN new : DOMAIN new[x] # {}
  BY Zenon DEF ec_set_component, Row, EmptyRow

\* The entity numbers are ordered, so the least and the greatest key that
\* ec_get_entity_bounds asks the intmap for exist.
LEMMA LeastExists ==
    ASSUME NEW S, S \subseteq Nat, S # {}
    PROVE  \E n \in S : \A m \in S : n <= m
<1> DEFINE R == {p \in Nat \X Nat : p[1] < p[2]}
<1>1. IsWellFoundedOn(R, Nat)
  BY NatLessThanWellFounded, Zenon DEF OpToRel
<1> HIDE DEF R
<1>2. PICK n \in S : \A m \in S : ~ (<<m, n>> \in R)
  BY <1>1, WFMin, Zenon
<1>3. ASSUME NEW m \in S PROVE n <= m
  <2>1. <<m, n>> \in Nat \X Nat /\ <<m, n>>[1] = m /\ <<m, n>>[2] = n
    OBVIOUS
  <2>2. m < n => <<m, n>> \in R
    BY <2>1, Zenon DEF R
  <2> QED
    BY <1>2, <2>2
<1> QED
  BY <1>3

\* The greatest key of a bounded set exists too: the upper bound of
\* ec_get_entity_bounds.
LEMMA GreatestExists ==
    ASSUME NEW N \in Nat, NEW S, S \subseteq 0 .. N, S # {}
    PROVE  \E n \in S : \A m \in S : m <= n
<1> DEFINE T == {N - n : n \in S}
<1>1. T \subseteq Nat
  OBVIOUS
<1>0. T # {}
  BY Zenon
<1>2. PICK d \in T : \A x \in T : d <= x
  BY <1>0, <1>1, LeastExists, Zenon
<1>3. PICK n \in S : d = N - n
  OBVIOUS
<1>4. \A m \in S : N - m \in T
  OBVIOUS
<1>5. \A m \in S : m <= n
  BY <1>2, <1>3, <1>4
<1> QED
  BY <1>5

\* ec_get_entity_bounds returns the least interval that holds the entities
\* with a row, the wrap-around of u32 included.
LEMMA BoundsOfTable ==
    ASSUME NEW tab, DOMAIN tab \subseteq U32, DOMAIN tab # {}
    PROVE  LET b == ec_get_entity_bounds(tab)
           IN  /\ b.min \in DOMAIN tab /\ \A e \in DOMAIN tab : b.min <= e
               /\ \E last \in DOMAIN tab : /\ \A e \in DOMAIN tab : e <= last
                                           /\ b.max = Inc32(last)
<1> DEFINE S == DOMAIN tab
           min == CHOOSE e \in S : \A x \in S : e <= x
           last == CHOOSE e \in S : \A x \in S : x <= e
<1>1. S \subseteq Nat /\ S # {} /\ S \subseteq 0 .. U32Max /\ U32Max \in Nat
  BY U32MaxAssumption DEF U32
<1> HIDE DEF S
<1>2. \E e \in S : \A x \in S : e <= x
  BY <1>1, LeastExists, Zenon
<1>3. \E e \in S : \A x \in S : x <= e
  BY <1>1, GreatestExists, Zenon
<1>4. min \in S /\ \A x \in S : min <= x
  BY <1>2
<1>5. last \in S /\ \A x \in S : x <= last
  BY <1>3
<1>6. ec_get_entity_bounds(tab) = [min |-> min, max |-> Inc32(last)]
  BY <1>1 DEF ec_get_entity_bounds, S
<1> HIDE DEF min, last
<1> QED
  BY <1>4, <1>5, <1>6 DEF S
=============================================================================
