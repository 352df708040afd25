----------------------------- MODULE CasTransfer -----------------------------
(***************************************************************************)
(* Read-modify-write on two entities with payecs_setcomponents, the way    *)
(* the comment in plugins/payz/payecs_data.c and doc/PAYECS.md prescribe:  *)
(* "you sample the current state of the entities, compute, then write out  *)
(* the results, with the sampled current state also passed in.  If that    *)
(* validation fails, then you re-sample again and re-compute."             *)
(*                                                                         *)
(* Clients move units between accounts, each an entity with one component  *)
(* that holds a number.  Each command is a step; the steps of the clients  *)
(* interleave, so that the two samples of a client may be from different   *)
(* moments, and both may be out of date when it writes.                    *)
(***************************************************************************)
EXTENDS EntityTable

CONSTANTS
    Client,
    Account,
    MaxFunds    \* bound: the number an account begins with

VARIABLES
    entity_map,
    pc,         \* "idle", then "source", "target", "swap": the next command
    from, to,   \* the accounts of the client's transfer
    source, target, \* the samples
    disturbed   \* history: others wrote since the client began to sample

vars == <<entity_map, pc, from, to, source, target, disturbed>>

ASSUME AccountAssumption == Account \subseteq U32 \ {0}
ASSUME NumberAssumption == Null \notin Nat /\ MaxFunds \in Nat

Funds == "example:funds"

Balance(a) == ec_get_component(entity_map, a, Funds)

\* The accounts have been filled in.
Init ==
    /\ \E f \in [Account -> 0 .. MaxFunds] :
          entity_map = [a \in Account |-> [c \in {Funds} |-> f[a]]]
    /\ pc = [c \in Client |-> "idle"]
    /\ \E a \in Account : from = [c \in Client |-> a] /\ to = [c \in Client |-> a]
    /\ source = [c \in Client |-> 0]
    /\ target = [c \in Client |-> 0]
    /\ disturbed = [c \in Client |-> FALSE]

\* A client decides on a transfer.
Start(c) ==
    /\ pc[c] = "idle"
    /\ \E a \in Account : \E b \in Account \ {a} :
          from' = [from EXCEPT ![c] = a] /\ to' = [to EXCEPT ![c] = b]
    /\ pc' = [pc EXCEPT ![c] = "source"]
    /\ UNCHANGED <<entity_map, source, target, disturbed>>

\* payecs_getcomponents on the first entity; an empty account ends it.
SampleSource(c) ==
    /\ pc[c] = "source"
    /\ source' = [source EXCEPT ![c] = Balance(from[c])]
    /\ pc' = [pc EXCEPT ![c] = IF Balance(from[c]) > 0 THEN "target" ELSE "idle"]
    /\ disturbed' = [disturbed EXCEPT ![c] = FALSE]
    /\ UNCHANGED <<entity_map, from, to, target>>

\* payecs_getcomponents on the second entity.
SampleTarget(c) ==
    /\ pc[c] = "target"
    /\ target' = [target EXCEPT ![c] = Balance(to[c])]
    /\ pc' = [pc EXCEPT ![c] = "swap"]
    /\ UNCHANGED <<entity_map, from, to, source, disturbed>>

\* Mutant of Expectation: only the first entity of `expected` is validated.
Expectation_First(c) == Balance(from[c]) = source[c]

\* Mutant of Expectation: the wrong value is compared.
Expectation_Written(c) == Balance(from[c]) = source[c] /\ Balance(to[c]) = target[c] + 1

\* The validation of payecs_setcomponents, with both samples as `expected`.
Expectation(c) == Balance(from[c]) = source[c] /\ Balance(to[c]) = target[c]

\* payecs_setcomponents with two writes; error 2244 sends the client back.
Swap(c) ==
    /\ pc[c] = "swap"
    /\ IF Expectation(c)
       THEN /\ entity_map' = ec_set_component(
                                ec_set_component(entity_map, from[c], Funds, source[c] - 1),
                                to[c], Funds, target[c] + 1)
            /\ pc' = [pc EXCEPT ![c] = "idle"]
            /\ disturbed' = [d \in Client |-> d # c]
       ELSE /\ pc' = [pc EXCEPT ![c] = "source"]
            /\ UNCHANGED <<entity_map, disturbed>>
    /\ source' = [source EXCEPT ![c] = 0]
    /\ target' = [target EXCEPT ![c] = 0]
    /\ UNCHANGED <<from, to>>

Work(c) == SampleSource(c) \/ SampleTarget(c) \/ Swap(c)

Next == \E c \in Client : Start(c) \/ Work(c)

Spec == Init /\ [][Next]_vars

\* A client that has begun goes on; one that is idle need not begin.
FairSpec == Spec /\ \A c \in Client : WF_vars(Work(c))
-----------------------------------------------------------------------------
\* The variables keep their types, and every account has a number.
TypeOK ==
    /\ \A a \in Account : Balance(a) \in Nat
    /\ pc \in [Client -> {"idle", "source", "target", "swap"}]
    /\ from \in [Client -> Account]
    /\ to \in [Client -> Account]
    /\ \A c \in Client : pc[c] # "idle" => from[c] # to[c]
    /\ source \in [Client -> Nat]
    /\ target \in [Client -> Nat]
    /\ \A c \in Client : pc[c] \in {"target", "swap"} => source[c] > 0
    /\ disturbed \in [Client -> BOOLEAN]

Atomic == INSTANCE AtomicTransfer WITH funds <- [a \in Account |-> Balance(a)]

\* The clients' read-modify-write sequences are atomic transfers: no update
\* is lost and no unit made up, although samples are torn and stale
\* (doc/PAYECS.md:398-405).
ImplementsAtomic == Atomic!Spec

\* Validation fails for a reason: a client that is sent back to sample again
\* was overtaken by another one's write since it began to sample.
NoSpuriousFailure ==
    [][\A c \in Client : (pc[c] = "swap" /\ pc'[c] = "source") => disturbed[c]]_vars

\* However the clients get in each other's way, some client gets done: they
\* never all send each other back for ever.
SomeoneFinishes ==
    (\A c \in Client : pc[c] # "idle") ~> (\E c \in Client : pc[c] = "idle")
=============================================================================
