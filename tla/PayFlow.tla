------------------------------- MODULE PayFlow -------------------------------
(***************************************************************************)
(* The default payment flow at work: entities are filled in by a client,   *)
(* advanced, and handed from system to system.  Every handler of the       *)
(* plugin runs to completion in its event loop, so a handler is one step;  *)
(* what interleaves are the handlers, between which the following is in    *)
(* flight:                                                                 *)
(*   - payecs_system_invoke notifications, sent to lightningd and relayed  *)
(*     back in order (wire), each with the components as they were when    *)
(*     the entity was advanced;                                            *)
(*   - `decode` requests of parse_invoice that lightningd has not answered *)
(*     and systems of other plugins that are at work (jobs).               *)
(* The client and the other plugins follow the protocol of doc/PAYECS.md:  *)
(* a client fills in an entity, sets its systems and advances it, then     *)
(* only looks; a plugin touches an entity from the invocation of its       *)
(* system until it advances the entity.                                    *)
(***************************************************************************)
EXTENDS DefaultSystems

CONSTANTS
    Entity,         \* the entities, one payment each
    External,       \* registrations of other plugins' systems, by name
    ExternalWrites, \* the components each of those writes, by name
    Prepend,        \* the names clients prepend to the default systems
    Request,        \* [given: components, valid: BOOLEAN, invoice: fields]
    Nonce,          \* the random nonces
    DefaultDatum,   \* the value of a defaulter
    Flag,           \* the JSON `true`
    ErrorObject     \* a JSON-RPC error object

VARIABLES
    entity_map,     \* the Entity-Component table
    wire,           \* the notifications in flight, oldest first
    jobs,           \* how often an entity is held by a waiting system
    phase,          \* how far the entity's client has come
    request         \* what the client wants: chosen once

vars == <<entity_map, wire, jobs, phase, request>>

ASSUME EntityAssumption == Entity \subseteq U32 \ {0}

ASSUME ExternalAssumption ==
    /\ DOMAIN External \cap DOMAIN Builtin = {}
    /\ DOMAIN ExternalWrites = DOMAIN External
    /\ Prepend \in Seq(DOMAIN External)

system_map == Builtin ++ External

DecodeJob == <<"lightningd:parse_invoice", "decoding">>

\* A system that waits: parse_invoice for the answer of `decode`; a system of
\* another plugin before its payecs_setcomponents, then before its
\* payecs_advance.
Job == {DecodeJob} \cup ((DOMAIN External) \X {"invoked", "written"})

\* The component parse_invoice_decode_ok makes of a field of the answer.
InvoiceComponent ==
    [type        |-> "lightningd:invoice:type",
     amount_msat |-> "lightningd:invoice:amount_msat",
     currency    |-> "lightningd:invoice:currency"]

\* The components that are decided once.
Settled ==
    {Defaulted[name] : name \in DOMAIN Defaulted}
    \cup {"lightningd:nonce", "lightningd:amount", "lightningd:invoice",
          "lightningd:main-payment", "lightningd:error"}

\* The components that only the systems of the flow attach.
Reserved ==
    {SystemsComponent, "lightningd:parse_invoice:ran", "lightningd:error"}

\* The `systems` field that payecs_setdefaultsystems writes, and the objects
\* that ecsys_advance makes with it.
AllSystems == Prepend \o default_systems

SystemsObjects ==
    LET Current == 0 .. Len(AllSystems) - 1
        Error   == {NOT_ADVANCEABLE}
    IN  [systems : {AllSystems}] \cup [systems : {AllSystems}, current : Current]
        \cup [systems : {AllSystems}, error : Error]
        \cup [systems : {AllSystems}, current : Current, error : Error]

\* A JSON object or array is neither `null` nor a datum without structure.
ASSUME ObjectAssumption ==
    (SystemsObjects \cup {AllSystems}) \cap (Scalar \cup {Null}) = {}

ASSUME DataAssumption ==
    Nonce \cup {DefaultDatum, Flag, ErrorObject} \subseteq Scalar

\* What clients give is theirs to give; `decode` answers with fields that
\* parse_invoice_decode_ok knows.
ASSUME RequestAssumption ==
    \A r \in Request :
        /\ DOMAIN r.given \cap Reserved = {}
        /\ \A c \in DOMAIN r.given : r.given[c] \in Scalar
        /\ DOMAIN r.invoice \subseteq DOMAIN InvoiceComponent
        /\ \A f \in DOMAIN r.invoice : r.invoice[f] \in Scalar

\* Other plugins leave alone what the flow decides, and supply the amount of an
\* invoice only where there is none.
ASSUME WritesAssumption ==
    \A name \in DOMAIN ExternalWrites :
        LET writes     == ExternalWrites[name]
            disallowed == External[name].disallowed
        IN  /\ DOMAIN writes \cap (Settled \cup Reserved) = {}
            /\ \A c \in DOMAIN writes : writes[c] \in Scalar \cup {Null}
            /\ "lightningd:invoice:amount_msat" \in DOMAIN writes =>
                  \E i \in DOMAIN disallowed : disallowed[i] = "lightningd:invoice:amount_msat"

Init ==
    /\ entity_map = EmptyTable
    /\ wire = << >>
    /\ jobs = [e \in Entity |-> [j \in Job |-> 0]]
    /\ phase = [e \in Entity |-> "fresh"]
    /\ request \in [Entity -> Request]

-----------------------------------------------------------------------------
\* The entity is advanced in table tab, with the notifications in `rest`
\* still in flight (ecs_advance; an error ends in the `error` field).
AdvanceIn(tab, e, rest) ==
    \E t \in {tab} : \E r \in {ecsys_advance(system_map, t, e)} :
        /\ entity_map' = r.tab
        /\ wire' = rest \o r.sent

\* The payecs_advance command.
payecs_advance(e) == AdvanceIn(entity_map, e, wire)

\* payecs_system_notification and ecs_system_notify: the oldest notification
\* arrives, and it is for the system `name`.
Invoked(name) == wire # << >> /\ Head(wire).system = name

\* The entity and the component values of the notification that arrives.
Subject == Head(wire).entity
Passed(c) == Head(wire).components[c]

\* ecs_advance_done: the handler ends by advancing the entity.
ecs_advance_done(tab, e) == AdvanceIn(tab, e, Tail(wire))

\* ecs_done: the handler ends and nothing more is sent.
ecs_done(tab) == entity_map' = tab /\ wire' = Tail(wire)

\* A system fails the payment: the error is attached, the systems detached.
Failure == Single("lightningd:error", ErrorObject) ++ Single(SystemsComponent, Null)

Begin(e, j) == jobs' = [jobs EXCEPT ![e][j] = @ + 1]
End(e, j) == jobs[e][j] > 0 /\ jobs' = [jobs EXCEPT ![e][j] = @ - 1]
-----------------------------------------------------------------------------
\* The client, following doc/PAYECS.md.

ClientFills(e) ==
    /\ phase[e] = "fresh"
    /\ entity_map' = set_components(entity_map, e, request[e].given)
    /\ phase' = [phase EXCEPT ![e] = "filled"]
    /\ UNCHANGED <<wire, jobs, request>>

ClientSetsSystems(e) ==
    /\ phase[e] = "filled"
    /\ entity_map' = payecs_setdefaultsystems(system_map, entity_map, e, Prepend, << >>)
    /\ phase' = [phase EXCEPT ![e] = "ready"]
    /\ UNCHANGED <<wire, jobs, request>>

ClientAdvances(e) ==
    /\ phase[e] = "ready"
    /\ payecs_advance(e)
    /\ phase' = [phase EXCEPT ![e] = "started"]
    /\ UNCHANGED <<jobs, request>>
-----------------------------------------------------------------------------
\* The built-in systems.

generate_nonce ==
    /\ Invoked("lightningd:generate_nonce")
    /\ \E n \in Nonce :
          ecs_advance_done(ec_set_component(entity_map, Subject, "lightningd:nonce", n), Subject)
    /\ UNCHANGED <<jobs, phase, request>>

\* Mutant of parse_invoice: advances although `decode` is not answered yet.
parse_invoice_Advances ==
    /\ Invoked("lightningd:parse_invoice")
    /\ ecs_advance_done(
          ec_set_component(entity_map, Subject, "lightningd:parse_invoice:ran", Flag), Subject)
    /\ Begin(Subject, DecodeJob)
    /\ UNCHANGED <<phase, request>>

\* Mutant of parse_invoice: does not keep itself from running again.
parse_invoice_Repeats ==
    /\ Invoked("lightningd:parse_invoice")
    /\ ecs_done(entity_map)
    /\ Begin(Subject, DecodeJob)
    /\ UNCHANGED <<phase, request>>

parse_invoice ==
    /\ Invoked("lightningd:parse_invoice")
    /\ ecs_done(ec_set_component(entity_map, Subject, "lightningd:parse_invoice:ran", Flag))
    /\ Begin(Subject, DecodeJob)
    /\ UNCHANGED <<phase, request>>

parse_invoice_decode_ok(e) ==
    LET fields == request[e].invoice
        comps  == [c \in {InvoiceComponent[f] : f \in DOMAIN fields} |->
                     fields[CHOOSE f \in DOMAIN fields : InvoiceComponent[f] = c]]
    IN  /\ End(e, DecodeJob)
        /\ request[e].valid
        /\ AdvanceIn(set_components(entity_map, e, comps), e, wire)
        /\ UNCHANGED <<phase, request>>

\* Mutant of parse_invoice_decode_ng: leaves the systems attached.
parse_invoice_decode_ng_Keeps(e) ==
    /\ End(e, DecodeJob)
    /\ entity_map' = ec_set_component(entity_map, e, "lightningd:error", ErrorObject)
    /\ UNCHANGED <<wire, phase, request>>

\* `decode` fails on an invalid invoice, and may fail on any.
parse_invoice_decode_ng(e) ==
    /\ End(e, DecodeJob)
    /\ entity_map' = set_components(entity_map, e, Failure)
    /\ UNCHANGED <<wire, phase, request>>

\* The name of the promoted component is the type's; one type is in use.
promote_invoice_type ==
    /\ Invoked("lightningd:promote_invoice_type")
    /\ ecs_advance_done(
          ec_set_component(entity_map, Subject, "lightningd:invoice:type:bolt11 invoice", Flag),
          Subject)
    /\ UNCHANGED <<jobs, phase, request>>

invoice_amount_msat ==
    /\ Invoked("lightningd:invoice_amount_msat")
    /\ ecs_advance_done(
          set_components(entity_map, Subject,
             Single("lightningd:invoice:amount_msat", Null)
             ++ Single("lightningd:amount", Passed("lightningd:invoice:amount_msat"))),
          Subject)
    /\ UNCHANGED <<jobs, phase, request>>

fail_invoice_amount_and_amount ==
    /\ Invoked("lightningd:fail_invoice_amount_and_amount")
    /\ ecs_done(set_components(entity_map, Subject, Failure))
    /\ UNCHANGED <<jobs, phase, request>>

\* defaulter_riskfactor, _maxfeepercent, _retry_for, _maxdelay, _exemptfee.
defaulter(name) ==
    /\ Invoked(name)
    /\ ecs_advance_done(
          ec_set_component(entity_map, Subject, Defaulted[name], DefaultDatum), Subject)
    /\ UNCHANGED <<jobs, phase, request>>
-----------------------------------------------------------------------------
\* The systems of other plugins, following doc/PAYECS.md.

ExternalInvoked(name) ==
    /\ Invoked(name)
    /\ ecs_done(entity_map)
    /\ Begin(Subject, <<name, "invoked">>)
    /\ UNCHANGED <<phase, request>>

ExternalSets(name, e) ==
    /\ jobs[e][<<name, "invoked">>] > 0
    /\ jobs' = [jobs EXCEPT ![e][<<name, "invoked">>] = @ - 1,
                            ![e][<<name, "written">>] = @ + 1]
    /\ entity_map' = set_components(entity_map, e, ExternalWrites[name])
    /\ UNCHANGED <<wire, phase, request>>

ExternalAdvances(name, e) ==
    /\ End(e, <<name, "written">>)
    /\ payecs_advance(e)
    /\ UNCHANGED <<phase, request>>
-----------------------------------------------------------------------------
\* The oldest notification reaches the plugin it is for.
Deliver ==
    \/ generate_nonce
    \/ parse_invoice
    \/ promote_invoice_type
    \/ invoice_amount_msat
    \/ fail_invoice_amount_and_amount
    \/ \E name \in DOMAIN Defaulted : defaulter(name)
    \/ \E name \in DOMAIN External : ExternalInvoked(name)

DecodeAnswered(e) == parse_invoice_decode_ok(e) \/ parse_invoice_decode_ng(e)

ExternalWorks(e) ==
    \E name \in DOMAIN External : ExternalSets(name, e) \/ ExternalAdvances(name, e)

Client(e) == ClientFills(e) \/ ClientSetsSystems(e) \/ ClientAdvances(e)

Next ==
    \/ Deliver
    \/ \E e \in Entity : DecodeAnswered(e) \/ ExternalWorks(e) \/ Client(e)

Spec == Init /\ [][Next]_vars

\* lightningd relays what it is sent and answers its requests, and a plugin
\* whose system was invoked finishes; a client need not go on.
Fairness ==
    /\ WF_vars(Deliver)
    /\ \A e \in Entity : WF_vars(DecodeAnswered(e)) /\ WF_vars(ExternalWorks(e))

FairSpec == Spec /\ Fairness
-----------------------------------------------------------------------------
Get(e, c) == ec_get_component(entity_map, e, c)
Has(e, c) == Attached(entity_map, e, c)

Started(e) == phase[e] = "started"
OnWire(e) == \E i \in DOMAIN wire : wire[i].entity = e
AtWork(e) == \E j \in Job : jobs[e][j] > 0

\* The entity was started and no one holds it any more.
Halted(e) == Started(e) /\ ~OnWire(e) /\ ~AtWork(e)

SystemsObject(e) == Get(e, SystemsComponent)

\* The variables keep their types; a notification is for a registered system
\* and carries exactly the components that system requires (run_system).
TypeOK ==
    /\ DOMAIN entity_map \subseteq Entity
    /\ \A e \in DOMAIN entity_map : \A c \in DOMAIN entity_map[e] \ {SystemsComponent} :
          entity_map[e][c] \in Scalar
    /\ \A i \in DOMAIN wire :
          /\ wire[i].system \in DOMAIN system_map
          /\ wire[i].entity \in Entity
          /\ LET required == system_map[wire[i].system].required
             IN  DOMAIN wire[i].components = {required[k] : k \in DOMAIN required}
    /\ jobs \in [Entity -> [Job -> Nat]]
    /\ phase \in [Entity -> {"fresh", "filled", "ready", "started"}]
    /\ request \in [Entity -> Request]

\* The implicit lock of doc/PAYECS.md ("as long as all Systems ... follow the
\* above", lines 409-413): an entity that was started is in at most one hand,
\* counting notifications in flight, unanswered `decode` requests and systems
\* of other plugins at work; one that was not is in none.
OneHolder ==
    /\ \A i, k \in DOMAIN wire : wire[i].entity = wire[k].entity => i = k
    /\ \A i \in DOMAIN wire : Started(wire[i].entity) /\ ~AtWork(wire[i].entity)
    /\ \A e \in Entity, j \in Job : jobs[e][j] > 0 =>
          /\ Started(e)
          /\ jobs[e][j] = 1
          /\ \A k \in Job \ {j} : jobs[e][k] = 0

\* What a notification says is still so when it arrives, however many
\* handlers ran since run_system wrote it: its system still matches the
\* entity, the component values are the entity's, and `current` is the index
\* of the system in `systems`.
InvocationCurrent ==
    \A i \in DOMAIN wire :
        LET m == wire[i]
            s == SystemsObject(m.entity)
        IN  /\ system_matches(entity_map, m.entity, system_map[m.system])
            /\ \A c \in DOMAIN m.components : m.components[c] = Get(m.entity, c)
            /\ IsObject(s) /\ s["systems"][s["current"] + 1] = m.system

\* No entity is dropped: one that no one holds any more says why.  Either a
\* system failed it (`lightningd:error` attached, `lightningd:systems`
\* detached, doc/PAYECS-REF.md:53-56), or its `error` field says that it is
\* not advanceable and indeed none of its systems matches.
NeverAbandoned ==
    \A e \in Entity : Halted(e) =>
        \/ Has(e, "lightningd:error") /\ ~Has(e, SystemsComponent)
        \/ /\ ~Has(e, "lightningd:error")
           /\ IsObject(SystemsObject(e))
           /\ "error" \in DOMAIN SystemsObject(e)
           /\ SystemsObject(e)["error"] = NOT_ADVANCEABLE
           /\ \A i \in DOMAIN getsystems(entity_map, e) :
                 ~system_matches(entity_map, e, system_map[getsystems(entity_map, e)[i]])

\* A flow that ends without `lightningd:error` did all of its work: the nonce
\* is there, a main payment has every default, an invoice was decoded, and
\* the amount of the invoice, which nothing else gave, is the amount to pay
\* and was moved, not copied.
HaltedFlowIsComplete ==
    \A e \in Entity : Halted(e) /\ ~Has(e, "lightningd:error") =>
        /\ Has(e, "lightningd:nonce")
        /\ Has(e, "lightningd:main-payment") =>
              \A name \in DOMAIN Defaulted : Has(e, Defaulted[name])
        /\ Has(e, "lightningd:invoice") => Has(e, "lightningd:parse_invoice:ran")
        /\ ~Has(e, "lightningd:invoice:amount_msat")
        /\ (Has(e, "lightningd:invoice") /\ "amount_msat" \in DOMAIN request[e].invoice) =>
              /\ Get(e, "lightningd:amount") = request[e].invoice["amount_msat"]
              /\ "lightningd:amount" \notin DOMAIN request[e].given

\* The variables keep their types, and a flow that ends without
\* `lightningd:error` did all of its work (plugins/payz/systems).
FlowComplete == TypeOK /\ HaltedFlowIsComplete

\* Once attached, a parameter of the payment, the nonce, the amount and the
\* error never change: no system of the flow runs a second time over its own
\* result or over a value the client gave (the disallowed components of
\* systems/defaulter.c, nonce.c and invoice_amount.c).
SettledOnce ==
    [][\A e \in Entity, c \in Settled : Has(e, c) => Get(e, c)' = Get(e, c)]_vars

\* lightningd:promote_invoice_type will match once the invoice is decoded.
NeedsPromotion(e) ==
    /\ "type" \in DOMAIN request[e].invoice
    /\ "lightningd:promote_invoice_type:ran" \notin DOMAIN request[e].given

\* doc/PAYECS-REF.md:129-132: "The default flow will check if
\* `lightningd:amount` does not exist but `lightningd:invoice:amount_msat`
\* does; if so, it detaches `lightningd:invoice:amount_msat` and attaches its
\* value to `lightningd:amount`."  Whenever the first holds of an entity in
\* the flow, the second follows, or the flow fails.
AmountIsMoved ==
    \A e \in Entity :
        (Started(e) /\ Has(e, "lightningd:invoice:amount_msat") /\ ~Has(e, "lightningd:amount"))
        ~> (Has(e, "lightningd:amount") \/ Has(e, "lightningd:error"))
=============================================================================
