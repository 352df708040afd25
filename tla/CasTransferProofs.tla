-------------------------- MODULE CasTransferProofs --------------------------
(***************************************************************************)
(* Compare-and-swap clients implement atomic transfers, for any number of  *)
(* clients and accounts, and are only ever sent back by another client's   *)
(* success.                                                                *)
(*                                                                         *)
(* For the first, the samples need no invariant beyond their type: when    *)
(* payecs_setcomponents accepts them, they are the current values.  For    *)
(* the second, the invariant is that the samples of a client are current   *)
(* unless another client has written since it began to sample.             *)
(***************************************************************************)
EXTENDS CasTransfer, TLAPS

\* What an accepted payecs_setcomponents does to every account.
LEMMA SwapBalances ==
    ASSUME TypeOK, NEW c \in Client, Swap(c), Expectation(c)
    PROVE  /\ from[c] # to[c] /\ source[c] > 0
           /\ Balance(from[c]) = source[c] /\ Balance(to[c]) = target[c]
           /\ \A a \in Account :
                 Balance(a)' = IF a = to[c] THEN target[c] + 1
                               ELSE IF a = from[c] THEN source[c] - 1 ELSE Balance(a)
<1> DEFINE half == ec_set_component(entity_map, from[c], Funds, source[c] - 1)
<1>1. entity_map' = ec_set_component(half, to[c], Funds, target[c] + 1)
  BY DEF Swap
<1>2. from[c] # to[c] /\ source[c] > 0
  BY DEF TypeOK, Swap
<1>3. \A a : ec_get_component(half, a, Funds) =
               IF a = from[c] THEN source[c] - 1 ELSE ec_get_component(entity_map, a, Funds)
  BY GetAfterSet
<1> HIDE DEF half
<1>4. \A a : ec_get_component(entity_map', a, Funds) =
               IF a = to[c] THEN target[c] + 1 ELSE ec_get_component(half, a, Funds)
  BY <1>1, GetAfterSet
<1> QED
  BY <1>2, <1>3, <1>4 DEF Balance, Expectation

\* Steps that leave the table alone.
LEMMA BalanceKept ==
    ASSUME UNCHANGED entity_map
    PROVE  \A a : Balance(a)' = Balance(a)
  BY DEF Balance

\* The samples of a client are current unless another one has written.
Fresh ==
    \A c \in Client : ~disturbed[c] =>
        /\ pc[c] \in {"target", "swap"} => source[c] = Balance(from[c])
        /\ pc[c] = "swap" => target[c] = Balance(to[c])

LEMMA TypeInit == Init => TypeOK
<1> SUFFICES ASSUME Init PROVE TypeOK
  OBVIOUS
<1>1. PICK f \in [Account -> 0 .. MaxFunds] :
         entity_map = [a \in Account |-> [k \in {Funds} |-> f[a]]]
  BY DEF Init
<1>2. \A a \in Account : Balance(a) = f[a]
  BY <1>1 DEF Balance, ec_get_component, Attached, ec_get_components, Row
<1>3. \A a \in Account : Balance(a) \in Nat
  BY <1>2, NumberAssumption
<1> QED
  BY <1>3 DEF Init, TypeOK

LEMMA TypeStep == TypeOK /\ [Next]_vars => TypeOK'
<1> SUFFICES ASSUME TypeOK, [Next]_vars PROVE TypeOK'
  OBVIOUS
<1>1. ASSUME NEW c \in Client, Start(c) PROVE TypeOK'
  <2>1. \A a \in Account : Balance(a)' \in Nat
    BY <1>1, BalanceKept DEF Start, TypeOK
  <2> QED
    BY <1>1, <2>1 DEF Start, TypeOK
<1>2. ASSUME NEW c \in Client, SampleSource(c) PROVE TypeOK'
  <2>1. \A a \in Account : Balance(a)' \in Nat
    BY <1>2, BalanceKept DEF SampleSource, TypeOK
  <2>2. Balance(from[c]) \in Nat
    BY DEF TypeOK
  <2> QED
    BY <1>2, <2>1, <2>2 DEF SampleSource, TypeOK
<1>3. ASSUME NEW c \in Client, SampleTarget(c) PROVE TypeOK'
  <2>1. \A a \in Account : Balance(a)' \in Nat
    BY <1>3, BalanceKept DEF SampleTarget, TypeOK
  <2>2. Balance(to[c]) \in Nat
    BY DEF TypeOK
  <2> QED
    BY <1>3, <2>1, <2>2 DEF SampleTarget, TypeOK
<1>4. ASSUME NEW c \in Client, Swap(c) PROVE TypeOK'
  <2>1. \A a \in Account : Balance(a)' \in Nat
    <3>1. CASE Expectation(c)
      BY <1>4, <3>1, SwapBalances DEF TypeOK
    <3>2. CASE ~Expectation(c)
      BY <1>4, <3>2, BalanceKept DEF Swap, TypeOK
    <3> QED
      BY <3>1, <3>2
  <2>2. /\ pc' \in [Client -> {"idle", "source", "target", "swap"}]
        /\ \A d \in Client \ {c} : pc'[d] = pc[d] /\ source'[d] = source[d]
        /\ pc'[c] \in {"idle", "source"}
        /\ disturbed' \in [Client -> BOOLEAN]
        /\ source' \in [Client -> Nat] /\ target' \in [Client -> Nat]
        /\ UNCHANGED <<from, to>>
    BY <1>4 DEF Swap, TypeOK
  <2>3. pc[c] = "swap"
    BY <1>4 DEF Swap
  <2> QED
    BY <2>1, <2>2, <2>3 DEF TypeOK
<1>5. CASE UNCHANGED vars
  BY <1>5, BalanceKept DEF vars, TypeOK
<1> QED
  BY <1>1, <1>2, <1>3, <1>4, <1>5 DEF Next, Work

\* Every account always holds a number and the clients' records keep their
\* types, whatever samples payecs_getcomponents returned.
THEOREM TransferTypeCorrect == Spec => []TypeOK
  BY TypeInit, TypeStep, PTL DEF Spec
-----------------------------------------------------------------------------
\* A step of a client is an atomic transfer or leaves all accounts alone.
THEOREM TransferIsAtomic == Spec => ImplementsAtomic
<1> DEFINE F == [a \in Account |-> Balance(a)]
<1>1. Init => Atomic!Init
  BY TypeInit DEF TypeOK, Atomic!Init
<1>2. TypeOK /\ [Next]_vars => [Atomic!Next]_F
  <2> SUFFICES ASSUME TypeOK, [Next]_vars PROVE Atomic!Next \/ UNCHANGED F
    OBVIOUS
  <2>1. ASSUME UNCHANGED entity_map PROVE UNCHANGED F
    BY <2>1, BalanceKept
  <2>2. ASSUME NEW c \in Client, Swap(c), Expectation(c) PROVE Atomic!Next
    <3>1. from[c] \in Account /\ to[c] \in Account \ {from[c]} /\ target[c] \in Nat
      BY <2>2, SwapBalances DEF TypeOK
    <3>2. F[from[c]] > 0
      BY <2>2, <3>1, SwapBalances
    <3>3. F' = [F EXCEPT ![from[c]] = @ - 1, ![to[c]] = @ + 1]
      BY <2>2, <3>1, SwapBalances
    <3>4. Atomic!Move(from[c], to[c])
      BY <3>2, <3>3 DEF Atomic!Move
    <3> QED
      BY <3>1, <3>4 DEF Atomic!Next
  <2> QED
    BY <2>1, <2>2 DEF Next, Work, Start, SampleSource, SampleTarget, Swap, vars
<1> QED
  BY <1>1, <1>2, TransferTypeCorrect, PTL DEF Spec, ImplementsAtomic, Atomic!Spec
-----------------------------------------------------------------------------
LEMMA FreshStep == TypeOK /\ Fresh /\ [Next]_vars => Fresh'
<1> SUFFICES ASSUME TypeOK, Fresh, [Next]_vars,
                    NEW d \in Client, ~disturbed'[d]
             PROVE  /\ pc'[d] \in {"target", "swap"} => source'[d] = Balance(from[d])'
                    /\ pc'[d] = "swap" => target'[d] = Balance(to[d])'
  BY DEF Fresh
<1>1. ASSUME NEW c \in Client, Start(c)
      PROVE  /\ pc'[d] \in {"target", "swap"} => source'[d] = Balance(from[d])'
             /\ pc'[d] = "swap" => target'[d] = Balance(to[d])'
  BY <1>1 DEF Start, TypeOK, Fresh, Balance
<1>2. ASSUME NEW c \in Client, SampleSource(c)
      PROVE  /\ pc'[d] \in {"target", "swap"} => source'[d] = Balance(from[d])'
             /\ pc'[d] = "swap" => target'[d] = Balance(to[d])'
  BY <1>2 DEF SampleSource, TypeOK, Fresh, Balance
<1>3. ASSUME NEW c \in Client, SampleTarget(c)
      PROVE  /\ pc'[d] \in {"target", "swap"} => source'[d] = Balance(from[d])'
             /\ pc'[d] = "swap" => target'[d] = Balance(to[d])'
  BY <1>3 DEF SampleTarget, TypeOK, Fresh, Balance
<1>4. ASSUME NEW c \in Client, Swap(c)
      PROVE  /\ pc'[d] \in {"target", "swap"} => source'[d] = Balance(from[d])'
             /\ pc'[d] = "swap" => target'[d] = Balance(to[d])'
  <2>1. CASE d = c
    BY <1>4, <2>1 DEF Swap, TypeOK
  <2>2. CASE d # c
    BY <1>4, <2>2 DEF Swap, TypeOK, Fresh, Balance
  <2> QED
    BY <2>1, <2>2
<1>5. CASE UNCHANGED vars
  BY <1>5 DEF vars, Fresh, Balance
<1> QED
  BY <1>1, <1>2, <1>3, <1>4, <1>5 DEF Next, Work

\* payecs_setcomponents answers 2244 to a client only if another client's
\* payecs_setcomponents succeeded after the client began to sample.
THEOREM FailureHasCause == Spec => NoSpuriousFailure
<1>1. Init => Fresh
  BY DEF Init, Fresh
<1>2. TypeOK /\ Fresh /\ [Next]_vars =>
         [\A c \in Client : (pc[c] = "swap" /\ pc'[c] = "source") => disturbed[c]]_vars
  <2> SUFFICES ASSUME TypeOK, Fresh, Next, NEW c \in Client,
                      pc[c] = "swap", pc'[c] = "source"
               PROVE  disturbed[c]
    OBVIOUS
  <2>1. PICK d \in Client : Start(d) \/ Work(d)
    BY DEF Next
  <2>2. d = c /\ Swap(c)
    BY <2>1 DEF Work, Start, SampleSource, SampleTarget, Swap, TypeOK
  <2>3. ~Expectation(c)
    BY <2>2 DEF Swap, TypeOK
  <2> QED
    BY <2>3 DEF Fresh, Expectation, TypeOK
<1>3. TypeOK /\ Fresh /\ [Next]_vars => Fresh'
  BY FreshStep
<1> QED
  BY <1>1, <1>2, <1>3, TransferTypeCorrect, PTL DEF Spec, NoSpuriousFailure
=============================================================================
