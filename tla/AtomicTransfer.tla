--------------------------- MODULE AtomicTransfer ---------------------------
(***************************************************************************)
(* What read-modify-write sequences on several entities should amount to:  *)
(* a unit moves from one account to another in one step.                   *)
(***************************************************************************)
EXTENDS Integers

CONSTANT Account
VARIABLE funds

Init == funds \in [Account -> Nat]

Move(a, b) ==
    /\ funds[a] > 0
    /\ funds' = [funds EXCEPT ![a] = @ - 1, ![b] = @ + 1]

Next == \E a \in Account : \E b \in Account \ {a} : Move(a, b)

Spec == Init /\ [][Next]_funds
=============================================================================
