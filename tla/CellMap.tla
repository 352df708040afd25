------------------------------ MODULE CellMap ------------------------------
(***************************************************************************)
(* What the Entity-Component table promises its callers, with no rows in   *)
(* sight: every (entity, component) pair is a cell, a cell is empty (Null) *)
(* or holds one datum, and writing a cell changes that cell alone.         *)
(***************************************************************************)
CONSTANTS Entity, Component, Datum, Null

VARIABLE cells

Init == cells = [e \in Entity |-> [c \in Component |-> Null]]

Write(e, c, v) == cells' = [cells EXCEPT ![e][c] = v]

Next == \E e \in Entity, c \in Component, v \in Datum \cup {Null} : Write(e, c, v)

Spec == Init /\ [][Next]_cells
=============================================================================
