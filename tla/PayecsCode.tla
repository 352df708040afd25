---------------------------- MODULE PayecsCode ----------------------------
(***************************************************************************)
(* The commands of plugins/payz/payecs_code.c that register systems and    *)
(* run entities through them, on the state they share: the registry of     *)
(* external systems (`payecs_registry`), the map of all systems            *)
(* (`system_map` of ecsys.c) and the entity table.  The commands of any    *)
(* number of clients arrive in any order and each is handled in one step.  *)
(*                                                                         *)
(* What a client may write directly to a component (payecs_setcomponents)  *)
(* is the constant Writable; what the systems do when they are invoked is  *)
(* the subject of PayFlow.                                                 *)
(***************************************************************************)
EXTENDS DefaultSystems, TLAPS

CONSTANTS
    Entity,         \* the entities clients use
    Registration,   \* what clients pass to payecs_newsystem
    Prepended,      \* what they pass to payecs_setdefaultsystems
    Appended,
    Writable        \* component -> the data clients write to it

ASSUME EntityAssumption == Entity \subseteq U32

ASSUME ListAssumption == \A l \in Prepended \cup Appended : l \in Seq({l[i] : i \in DOMAIN l})

\* The objects clients write to `lightningd:systems`, and what becomes of them
\* and of new ones as payecs_setdefaultsystems and ecsys_advance write fields.
GivenObjects ==
    IF SystemsComponent \in DOMAIN Writable
    THEN {v \in Writable[SystemsComponent] : IsObject(v)} ELSE {}

Lists == {p \o default_systems \o a : p \in Prepended, a \in Appended}

GivenFields == UNION {DOMAIN v : v \in GivenObjects}
GivenData == UNION {{v[f] : f \in DOMAIN v} : v \in GivenObjects}

SystemsField == GivenFields \cup {"systems", "current", "error"}
SystemsDatum ==
    GivenData \cup Lists \cup (Nat \cup {INVALID_SYSTEMS_COMPONENT, NOT_ADVANCEABLE})

SystemsObject(v) == \E F \in SUBSET SystemsField : v \in [F -> SystemsDatum]

\* The `systems` field of an object, if it has one, is an array or a datum
\* without structure.
ListOrScalar(v) ==
    "systems" \in DOMAIN v =>
        v["systems"] \in Scalar \/ DOMAIN v["systems"] \subseteq Nat \ {0}

\* JSON objects and arrays are not data without structure.
ASSUME ObjectAssumption ==
    /\ \A v \in GivenObjects : SystemsObject(v) /\ ListOrScalar(v)
    /\ \A v \in Scalar \cup {Null} : ~SystemsObject(v) /\ v \notin Lists

VARIABLES
    payecs_registry,    \* external systems, as payecs_newsystem knows them
    system_map,         \* all systems, as ecsys_advance knows them
    entity_map,         \* the entity table
    running,            \* FALSE once an assert has aborted the plugin
    sent,               \* the notifications of the last payecs_advance
    checked             \* history: entities whose list payecs_setdefaultsystems wrote

registries == <<payecs_registry, system_map>>
vars == <<payecs_registry, system_map, entity_map, running, sent, checked>>

\* setup_payz_top has registered the built-in systems.
Init ==
    /\ payecs_registry = EmptyTable
    /\ system_map = Builtin
    /\ entity_map = EmptyTable
    /\ running = TRUE
    /\ sent = << >>
    /\ checked = {}

\* ccan's strmap_add, of a name that is not a member.
strmap_add(map, name, v) ==
    [n \in DOMAIN map \cup {name} |-> IF n = name THEN v ELSE map[n]]

\* ecs_register asserts that a disallowed component follows a required one.
RegisterAborts(r) == r.required = << >> /\ r.disallowed # << >>

\* Mutant of payecs_newsystem: the built-in check comes after the entry is made.
payecs_newsystem_BuiltinLast(r) ==
    LET reg == Registered(r.required, r.disallowed)
        new == r.system \notin DOMAIN payecs_registry
        fresh == r.system \notin DOMAIN system_map
    IN  /\ running
        /\ payecs_registry' = IF new THEN strmap_add(payecs_registry, r.system, reg)
                              ELSE payecs_registry
        /\ running' = ~(new /\ fresh /\ RegisterAborts(r))
        /\ system_map' = IF new /\ fresh /\ running' THEN strmap_add(system_map, r.system, reg)
                         ELSE system_map
        /\ UNCHANGED <<entity_map, sent, checked>>

\* Mutant of payecs_newsystem: a conflicting registration replaces the old one.
payecs_newsystem_Replaces(r) ==
    LET reg == Registered(r.required, r.disallowed)
        ok  == r.system \notin DOMAIN Builtin
    IN  /\ running
        /\ payecs_registry' = IF ok THEN strmap_add(payecs_registry, r.system, reg)
                              ELSE payecs_registry
        /\ running' = ~(ok /\ RegisterAborts(r))
        /\ system_map' = IF ok /\ running' THEN strmap_add(system_map, r.system, reg)
                         ELSE system_map
        /\ UNCHANGED <<entity_map, sent, checked>>

\* payecs_newsystem: a name already in the registry (with the same parameters:
\* success, with others: failure) or built in (failure) changes nothing; a new
\* one enters the registry and then system_map, unless ecs_register aborts.
payecs_newsystem(r) ==
    LET reg == Registered(r.required, r.disallowed)
        new == /\ r.system \notin DOMAIN payecs_registry
               /\ r.system \notin DOMAIN system_map
    IN  /\ running
        /\ payecs_registry' = IF new THEN strmap_add(payecs_registry, r.system, reg)
                              ELSE payecs_registry
        /\ running' = ~(new /\ RegisterAborts(r))
        /\ system_map' = IF new /\ running' THEN strmap_add(system_map, r.system, reg)
                         ELSE system_map
        /\ UNCHANGED <<entity_map, sent, checked>>

\* The payecs_setdefaultsystems command.
SetDefaultSystems(e, prepend, append) ==
    /\ running
    /\ entity_map' = payecs_setdefaultsystems(system_map, entity_map, e, prepend, append)
    /\ checked' = IF AllRegistered(system_map, prepend, append) THEN checked \cup {e}
                  ELSE checked
    /\ UNCHANGED <<registries, running, sent>>

\* The payecs_advance command.
payecs_advance(e) ==
    LET r == ecsys_advance(system_map, entity_map, e)
    IN  /\ running
        /\ entity_map' = r.tab
        /\ sent' = r.sent
        /\ UNCHANGED <<registries, running, checked>>

\* A client attaches, replaces or detaches one component.
ClientWrites(e, c, v) ==
    /\ running
    /\ entity_map' = ec_set_component(entity_map, e, c, v)
    /\ checked' = IF c = SystemsComponent THEN checked \ {e} ELSE checked
    /\ UNCHANGED <<registries, running, sent>>

Next ==
    \/ \E r \in Registration : payecs_newsystem(r)
    \/ \E e \in Entity, p \in Prepended, a \in Appended : SetDefaultSystems(e, p, a)
    \/ \E e \in Entity : payecs_advance(e)
    \/ \E e \in Entity, c \in DOMAIN Writable :
          \E v \in Writable[c] : ClientWrites(e, c, v)

Spec == Init /\ [][Next]_vars

-----------------------------------------------------------------------------
Registrations == {Registered(r.required, r.disallowed) : r \in Registration}

\* Type invariant.
TypeOK ==
    /\ \A n \in DOMAIN payecs_registry : payecs_registry[n] \in Registrations
    /\ DOMAIN payecs_registry \subseteq {r.system : r \in Registration}
    /\ DOMAIN system_map \subseteq DOMAIN Builtin \cup DOMAIN payecs_registry
    /\ DOMAIN entity_map \subseteq Entity
    /\ \A e \in DOMAIN entity_map : Row(entity_map, e) # EmptyRow
    /\ running \in BOOLEAN
    /\ Len(sent) <= 1
    /\ checked \subseteq Entity

\* payecs_register and ecsys_register keep two maps of the same systems: while
\* the plugin runs, system_map is the built-in systems plus exactly the
\* registry, no name is in both, and both know it by the same components.  The
\* assert of ecsys_register (errno != EEXIST) rests on this.
RegistryAgrees ==
    running =>
        /\ DOMAIN payecs_registry \cap DOMAIN Builtin = {}
        /\ DOMAIN system_map = DOMAIN payecs_registry \cup DOMAIN Builtin
        /\ \A n \in DOMAIN payecs_registry : system_map[n] = payecs_registry[n]
        /\ \A n \in DOMAIN Builtin : system_map[n] = Builtin[n]

\* No command unregisters a system or changes its components: a list that was
\* valid stays valid, and a plugin that repeats its payecs_newsystem after a
\* restart finds what it registered.
RegistrationPermanent ==
    [][\A n \in DOMAIN system_map :
         n \in DOMAIN system_map' /\ system_map'[n] = system_map[n]]_vars

\* payecs_setdefaultsystems validates the names it is given, so that an entity
\* whose list it wrote is never refused as PAY_ECS_INVALID_SYSTEMS_COMPONENT,
\* however many advances, failed advances and registrations come between.
CheckedListsAdvance ==
    \A e \in checked :
        ecsys_advance(system_map, entity_map, e).code # INVALID_SYSTEMS_COMPONENT

\* payecs_advance_ng and ecsys_err_wrap assert that they can read error.message
\* from the component: from every reachable table, malformed components
\* included, a failing advance leaves an object that has the error.
ErrorIsReadable ==
    \A e \in Entity :
        LET r == ecsys_advance(system_map, entity_map, e)
            v == ec_get_component(r.tab, e, SystemsComponent)
        IN  r.code # OK => IsObject(v) /\ "error" \in DOMAIN v /\ v["error"] = r.code

\* payecs_advance accepts what payecs_setdefaultsystems validated, and can read
\* what it wrote after an error (plugins/payz/payecs_code.c, ecs/setsystems.c).
AdvanceAnswers == TypeOK /\ CheckedListsAdvance /\ ErrorIsReadable

\* Every payecs_newsystem is answered, with success or with a conflict, as the
\* @return of payecs_register has it; the plugin never aborts.
NewsystemAnswers == running

-----------------------------------------------------------------------------
\* Proofs: for every set of clients, registrations and lists, the two maps that
\* hold the registered systems agree, and a registration is permanent.

\* The only step that changes either map is the payecs_newsystem of a name that
\* neither the registry nor system_map has.
LEMMA NewsystemStep ==
  ASSUME NEW r, payecs_newsystem(r), running' = TRUE, RegistryAgrees, running = TRUE
  PROVE  RegistryAgrees'
  <1>1. CASE UNCHANGED <<payecs_registry, system_map>>
    BY <1>1 DEF RegistryAgrees
  <1>2. CASE /\ r.system \notin DOMAIN payecs_registry
             /\ r.system \notin DOMAIN system_map
    <2> DEFINE reg == Registered(r.required, r.disallowed)
    <2>1. /\ payecs_registry' = strmap_add(payecs_registry, r.system, reg)
          /\ system_map' = strmap_add(system_map, r.system, reg)
      BY <1>2 DEF payecs_newsystem
    <2> HIDE DEF reg
    <2> QED
      BY <1>2, <2>1 DEF RegistryAgrees, strmap_add
  <1> QED
    BY <1>1, <1>2 DEF payecs_newsystem

\* While the plugin runs, system_map of ecsys.c is exactly the built-in systems
\* plus payecs_registry of payecs_code.c, so that the strmap_add of
\* ecsys_register never meets a name that is already there.
THEOREM RegistriesAgree == Spec => []RegistryAgrees
  <1>1. Init => RegistryAgrees
    BY DEF Init, RegistryAgrees, EmptyTable
  <1>2. RegistryAgrees /\ [Next]_vars => RegistryAgrees'
    <2> SUFFICES ASSUME RegistryAgrees, [Next]_vars, running'
                 PROVE  RegistryAgrees'
      BY DEF RegistryAgrees
    <2>1. CASE UNCHANGED vars
      BY <2>1 DEF vars, RegistryAgrees
    <2>2. ASSUME NEW r \in Registration, payecs_newsystem(r)
          PROVE  RegistryAgrees'
      <3>1. running = TRUE /\ running' = TRUE
        BY <2>2 DEF payecs_newsystem
      <3> QED
        BY <2>2, <3>1, NewsystemStep
    <2>3. ASSUME UNCHANGED <<payecs_registry, system_map, running>>
          PROVE  RegistryAgrees'
      BY <2>3 DEF RegistryAgrees
    <2> QED
      BY <2>1, <2>2, <2>3, Zenon DEF Next, registries, SetDefaultSystems, payecs_advance,
         ClientWrites
  <1> QED
    BY <1>1, <1>2, PTL DEF Spec

\* No step of any client removes a registered system from system_map or changes
\* the components it was registered with.
THEOREM RegistrationsStay == Spec => RegistrationPermanent
  <1>1. [Next]_vars => [\A n \in DOMAIN system_map :
            n \in DOMAIN system_map' /\ system_map'[n] = system_map[n]]_vars
    <2> SUFFICES ASSUME Next, NEW n \in DOMAIN system_map
                 PROVE  n \in DOMAIN system_map' /\ system_map'[n] = system_map[n]
      OBVIOUS
    <2>1. ASSUME NEW r \in Registration, payecs_newsystem(r)
          PROVE  n \in DOMAIN system_map' /\ system_map'[n] = system_map[n]
      BY <2>1 DEF payecs_newsystem, strmap_add
    <2>2. ASSUME UNCHANGED system_map
          PROVE  n \in DOMAIN system_map' /\ system_map'[n] = system_map[n]
      BY <2>2
    <2> QED
      BY <2>1, <2>2 DEF Next, registries, SetDefaultSystems, payecs_advance, ClientWrites
  <1> QED
    BY <1>1, PTL DEF Spec, RegistrationPermanent
-----------------------------------------------------------------------------
\* A `lightningd:systems` component, as clients and the plugin leave it.
WellShaped(v) ==
    \/ v \in Scalar \cup {Null}
    \/ SystemsObject(v) /\ ListOrScalar(v)

\* One with a list of registered systems.
Validated(v) ==
    /\ SystemsObject(v)
    /\ "systems" \in DOMAIN v
    /\ v["systems"] \in Lists
    /\ \A i \in DOMAIN v["systems"] : v["systems"][i] \in DOMAIN system_map

\* The inductive invariant: a list that payecs_setdefaultsystems validated is
\* still in the component, under whatever fields later advances wrote, and
\* every name on it is still registered.
AdvanceInv ==
    /\ TypeOK
    /\ DOMAIN Builtin \subseteq DOMAIN system_map
    /\ \A e \in Entity : WellShaped(ec_get_component(entity_map, e, SystemsComponent))
    /\ \A e \in checked : Validated(ec_get_component(entity_map, e, SystemsComponent))
\* What payecs_setdefaultsystems and ecsys_advance write to the component.
Written(field, v) ==
    \/ field = "systems" /\ v \in Lists
    \/ field = "current" /\ v \in Nat
    \/ field = "error" /\ v \in {INVALID_SYSTEMS_COMPONENT, NOT_ADVANCEABLE}

\* The object payz_generic_setsystems_tok (setsystems.c) makes of a component.
ObjectSet(old, field, v) ==
    [f \in (IF IsObject(old) THEN DOMAIN old \ {field} ELSE {}) \cup {field} |->
        IF f = field THEN v ELSE old[f]]

\* The lists payecs_setdefaultsystems writes (payecs_code.c) are arrays, and no
\* scalar datum.
LEMMA ListsAre ==
    ASSUME NEW p \in Prepended, NEW a \in Appended
    PROVE  LET l == p \o default_systems \o a
           IN  /\ DOMAIN l \subseteq Nat \ {0} /\ l \notin Scalar \cup {Null}
               /\ \A S : /\ \A i \in DOMAIN p : p[i] \in S
                         /\ \A i \in DOMAIN default_systems : default_systems[i] \in S
                         /\ \A i \in DOMAIN a : a[i] \in S
                         => \A i \in DOMAIN l : l[i] \in S
<1> DEFINE d == default_systems
           U == {p[i] : i \in DOMAIN p} \cup {d[i] : i \in DOMAIN d} \cup {a[i] : i \in DOMAIN a}
           l == p \o d \o a
<1>1. p \in Seq({p[i] : i \in DOMAIN p}) /\ a \in Seq({a[i] : i \in DOMAIN a})
  BY ListAssumption
<1>2. d \in Seq({d[i] : i \in DOMAIN d})
  BY DEF default_systems
<1> HIDE DEF d
<1>3. p \in Seq(U) /\ a \in Seq(U) /\ d \in Seq(U)
  BY <1>1, <1>2
<1>4. ASSUME NEW S, \A i \in DOMAIN p : p[i] \in S, \A i \in DOMAIN d : d[i] \in S,
             \A i \in DOMAIN a : a[i] \in S
      PROVE  \A i \in DOMAIN l : l[i] \in S
  <2>1. p \in Seq(S) /\ a \in Seq(S) /\ d \in Seq(S)
    BY <1>3, <1>4
  <2> QED
    BY <2>1
<1>5. DOMAIN l \subseteq Nat \ {0}
  <2> HIDE DEF U
  <2> QED
    BY <1>3
<1>6. l \in Lists
  BY DEF Lists, d
<1> QED
  BY <1>4, <1>5, <1>6, ObjectAssumption, Zenon DEF d

\* setup_payz_top registers every system it puts on the list of defaults (top.c).
LEMMA DefaultsRegistered ==
    \A i \in DOMAIN default_systems : default_systems[i] \in DOMAIN Builtin
<1>1. DOMAIN Defaulted = {"lightningd:default_riskfactor", "lightningd:default_maxfeepercent",
         "lightningd:default_retry_for", "lightningd:default_maxdelay",
         "lightningd:default_exemptfee"}
  BY Zenon DEF Defaulted, ++, Single
<1>2. DOMAIN Builtin = DOMAIN Defaulted \cup
         {"lightningd:generate_nonce", "lightningd:parse_invoice",
          "lightningd:promote_invoice_type", "lightningd:invoice_amount_msat",
          "lightningd:fail_invoice_amount_and_amount"}
  BY Zenon DEF Builtin, system_nonce, system_parse_invoice, system_invoice_amount,
               system_defaulter, ++, Single
<1> QED
  BY <1>1, <1>2 DEF default_systems

\* Writing a field (payz_generic_setsystems_tok) leaves an object that has it,
\* and the fields it had.
LEMMA ObjectAfterSet ==
    ASSUME NEW old, WellShaped(old), NEW field, NEW v, Written(field, v)
    PROVE  LET new == ObjectSet(old, field, v)
           IN  /\ WellShaped(new) /\ SystemsObject(new) /\ IsObject(new)
               /\ field \in DOMAIN new /\ new[field] = v
               /\ SystemsObject(old) =>
                     \A f \in DOMAIN old \ {field} : f \in DOMAIN new /\ new[f] = old[f]
<1> DEFINE kept == IF IsObject(old) THEN DOMAIN old \ {field} ELSE {}
           new == [f \in kept \cup {field} |-> IF f = field THEN v ELSE old[f]]
<1>1. new = ObjectSet(old, field, v)
  BY DEF ObjectSet
<1>2. SystemsObject(old) => IsObject(old)
  BY ObjectAssumption DEF IsObject
<1>3. IsObject(old) => SystemsObject(old)
  BY DEF WellShaped, IsObject
<1>4. kept \subseteq SystemsField /\ \A f \in kept : old[f] \in SystemsDatum
  BY <1>3 DEF SystemsObject
<1>5. field \in SystemsField /\ v \in SystemsDatum
  <2>1. /\ {"systems", "current", "error"} \subseteq SystemsField
        /\ Lists \cup Nat \cup {INVALID_SYSTEMS_COMPONENT, NOT_ADVANCEABLE} \subseteq SystemsDatum
    BY Zenon DEF SystemsField, SystemsDatum
  <2> QED
    BY <2>1, Zenon DEF Written
<1>6. DOMAIN new = kept \cup {field} /\ new[field] = v /\ \A f \in kept \ {field} : new[f] = old[f]
  OBVIOUS
<1>7. SystemsObject(new)
  <2>1. new \in [kept \cup {field} -> SystemsDatum] /\ kept \cup {field} \in SUBSET SystemsField
    BY <1>4, <1>5
  <2> HIDE DEF new, kept
  <2> QED
    BY <2>1 DEF SystemsObject
<1>8. IsObject(new)
  BY <1>7, ObjectAssumption DEF IsObject
<1>9. ListOrScalar(new)
  <2>1. CASE field = "systems"
    <3>1. v \in Lists
      BY <2>1 DEF Written
    <3>2. PICK p \in Prepended, a \in Appended : v = p \o default_systems \o a
      BY <3>1 DEF Lists
    <3>3. DOMAIN v \subseteq Nat \ {0}
      BY <3>2, ListsAre
    <3> HIDE DEF new, kept
    <3> QED
      BY <2>1, <3>3, <1>6 DEF ListOrScalar
  <2>2. CASE field # "systems"
    <3>1. "systems" \in kept => IsObject(old) /\ "systems" \in DOMAIN old
      OBVIOUS
    <3>2. "systems" \in kept =>
             old["systems"] \in Scalar \/ DOMAIN old["systems"] \subseteq Nat \ {0}
      BY <3>1 DEF WellShaped, IsObject, ListOrScalar
    <3> HIDE DEF new, kept
    <3> QED
      BY <2>2, <3>2, <1>6 DEF ListOrScalar
  <2> QED
    BY <2>1, <2>2
<1>10. SystemsObject(old) =>
         \A f \in DOMAIN old \ {field} : f \in DOMAIN new /\ new[f] = old[f]
  BY <1>2
<1> HIDE DEF new
<1>11. WellShaped(new)
  BY <1>7, <1>9 DEF WellShaped
<1> QED
  BY <1>1, <1>6, <1>7, <1>8, <1>10, <1>11

\* payz_generic_setsystems_tok writes one cell (setsystems.c).
LEMMA SetsystemsIs ==
    ASSUME NEW tab, NEW e, NEW field, NEW v
    PROVE  setsystems(tab, e, field, v) =
              ec_set_component(tab, e, SystemsComponent,
                 ObjectSet(ec_get_component(tab, e, SystemsComponent), field, v))
  BY DEF setsystems, ObjectSet

\* ecsys_advance (ecsys.c) writes `current` if it invokes a system, and `error`
\* if it fails.
LEMMA AdvanceWrites ==
    ASSUME NEW map, NEW tab, NEW e, WellShaped(ec_get_component(tab, e, SystemsComponent))
    PROVE  LET r == ecsys_advance(map, tab, e)
           IN  /\ Len(r.sent) <= 1
               /\ \E field \in {"current", "error"} : \E v :
                     /\ Written(field, v) /\ r.tab = setsystems(tab, e, field, v)
                     /\ r.code # OK => field = "error" /\ v = r.code
<1> DEFINE systems == getsystems(tab, e)
           stops == {i \in DOMAIN systems :
                       \/ systems[i] \notin DOMAIN map
                       \/ system_matches(tab, e, map[systems[i]])}
           i   == CHOOSE k \in stops : \A j \in stops : k <= j
           new == setsystems(tab, e, "current", i - 1)
           r == ecsys_advance(map, tab, e)
<1>1. systems = Null \/ DOMAIN systems \subseteq Nat \ {0}
  BY DEF getsystems, json_to_array_of_strings, WellShaped, ListOrScalar, IsObject
<1>2. \/ \E code \in {INVALID_SYSTEMS_COMPONENT, NOT_ADVANCEABLE} :
            r = ecsys_advance_error(tab, e, code)
      \/ /\ systems # Null /\ stops # {}
         /\ \E m : r = [code |-> OK, tab |-> new, sent |-> <<m>>]
  <2> HIDE DEF systems, stops, i, new
  <2> QED
    BY Zenon DEF ecsys_advance, systems, stops, i, new
<1> HIDE DEF systems, r
<1>3. ASSUME NEW code \in {INVALID_SYSTEMS_COMPONENT, NOT_ADVANCEABLE},
             r = ecsys_advance_error(tab, e, code)
      PROVE  /\ Len(r.sent) <= 1
             /\ Written("error", code) /\ r.tab = setsystems(tab, e, "error", code)
             /\ code = r.code
  <2>1. r = [code |-> code, tab |-> setsystems(tab, e, "error", code), sent |-> << >>]
    BY <1>3 DEF ecsys_advance_error
  <2>2. r.sent = << >> /\ r.code = code /\ r.tab = setsystems(tab, e, "error", code)
    BY <2>1
  <2> QED
    BY <2>2 DEF Written
<1>4. ASSUME systems # Null, stops # {},
             NEW m, r = [code |-> OK, tab |-> new, sent |-> <<m>>]
      PROVE  /\ Len(r.sent) <= 1
             /\ Written("current", i - 1) /\ r.tab = setsystems(tab, e, "current", i - 1)
             /\ r.code = OK
  <2>1. stops \subseteq Nat \ {0}
    BY <1>1, <1>4
  <2> HIDE DEF stops
  <2>2. \E k \in stops : \A j \in stops : k <= j
    BY <1>4, <2>1, LeastExists, Zenon
  <2>3. i \in Nat \ {0}
    BY <2>1, <2>2, Zenon
  <2> HIDE DEF i
  <2>4. i - 1 \in Nat
    BY <2>3
  <2>5. r.sent = <<m>> /\ r.code = OK /\ r.tab = new
    BY <1>4
  <2> QED
    BY <2>4, <2>5 DEF Written
<1> HIDE DEF stops, i, new
<1>5. r.tab = r.tab /\ "error" \in {"current", "error"} /\ "current" \in {"current", "error"}
  OBVIOUS
<1> QED
  BY <1>2, <1>3, <1>4, <1>5, Zenon DEF r

\* ecsys_advance accepts a list of registered systems (ecsys.c).
LEMMA ValidatedAdvances ==
    ASSUME NEW e, Validated(ec_get_component(entity_map, e, SystemsComponent))
    PROVE  ecsys_advance(system_map, entity_map, e).code # INVALID_SYSTEMS_COMPONENT
<1> DEFINE v == ec_get_component(entity_map, e, SystemsComponent)
           systems == getsystems(entity_map, e)
           stops == {i \in DOMAIN systems :
                       \/ systems[i] \notin DOMAIN system_map
                       \/ system_matches(entity_map, e, system_map[systems[i]])}
           i   == CHOOSE k \in stops : \A j \in stops : k <= j
           new == setsystems(entity_map, e, "current", i - 1)
           r == ecsys_advance(system_map, entity_map, e)
<1>1. systems = v["systems"] /\ systems \in Lists
      /\ \A k \in DOMAIN systems : systems[k] \in DOMAIN system_map
  BY ObjectAssumption DEF Validated, getsystems, json_to_array_of_strings, IsObject
<1>2. systems # Null /\ DOMAIN systems \subseteq Nat
  <2>1. PICK p \in Prepended, a \in Appended : systems = p \o default_systems \o a
    BY <1>1 DEF Lists
  <2> HIDE DEF systems
  <2> QED
    BY <2>1, ListsAre
<1> HIDE DEF v, systems
<1>3. stops # {} => systems[i] \in DOMAIN system_map
  <2>1. stops \subseteq Nat /\ stops \subseteq DOMAIN systems
    BY <1>2
  <2> HIDE DEF stops
  <2>2. stops # {} => \E k \in stops : \A j \in stops : k <= j
    BY <2>1, LeastExists, Zenon
  <2>3. stops # {} => i \in stops
    BY <2>2
  <2> HIDE DEF i
  <2> QED
    BY <1>1, <2>1, <2>3, Zenon
<1>4. \/ r = ecsys_advance_error(entity_map, e, NOT_ADVANCEABLE)
      \/ \E m : r = [code |-> OK, tab |-> new, sent |-> <<m>>]
  <2> HIDE DEF stops, i, new
  <2> QED
    BY <1>2, <1>3, Zenon DEF ecsys_advance, systems, stops, i, new
<1> HIDE DEF stops, i, new, r
<1>5. r.code \in {OK, NOT_ADVANCEABLE}
  BY <1>4 DEF ecsys_advance_error
<1> QED
  BY <1>5 DEF r, OK, NOT_ADVANCEABLE, INVALID_SYSTEMS_COMPONENT

-----------------------------------------------------------------------------
\* The table the commands keep: rows of entities, none of them empty (ec.c).
TableOK(tab) == DOMAIN tab \subseteq Entity /\ \A e \in DOMAIN tab : tab[e] # EmptyRow

\* ec_set_component keeps it so.
LEMMA TableAfterSet ==
    ASSUME NEW tab, TableOK(tab), NEW e \in Entity, NEW c, NEW v
    PROVE  TableOK(ec_set_component(tab, e, c, v))
  BY DEF TableOK, ec_set_component, Row, EmptyRow

\* A command that writes one field of the component of one entity
\* (payecs_setdefaultsystems, payecs_advance).
LEMMA FieldWritten ==
    ASSUME AdvanceInv, UNCHANGED <<payecs_registry, system_map, running>>, NEW e \in Entity,
           NEW field, NEW v, Written(field, v), entity_map' = setsystems(entity_map, e, field, v)
    PROVE  /\ TableOK(entity_map')
           /\ \A x \in Entity : WellShaped(ec_get_component(entity_map', x, SystemsComponent))
           /\ \A x \in Entity \ {e} : ec_get_component(entity_map', x, SystemsComponent) =
                                         ec_get_component(entity_map, x, SystemsComponent)
           /\ LET old == ec_get_component(entity_map, e, SystemsComponent)
                  new == ec_get_component(entity_map', e, SystemsComponent)
              IN  /\ SystemsObject(new) /\ field \in DOMAIN new /\ new[field] = v
                  /\ Validated(old) /\ field # "systems" => Validated(new)
<1> DEFINE C(t, x) == ec_get_component(t, x, SystemsComponent)
           old == C(entity_map, e)
           obj == ObjectSet(old, field, v)
<1>1. entity_map' = ec_set_component(entity_map, e, SystemsComponent, obj)
  BY SetsystemsIs
<1>2. WellShaped(old)
  BY DEF AdvanceInv
<1>3. /\ WellShaped(obj) /\ SystemsObject(obj) /\ field \in DOMAIN obj /\ obj[field] = v
      /\ SystemsObject(old) =>
            \A f \in DOMAIN old \ {field} : f \in DOMAIN obj /\ obj[f] = old[f]
  BY <1>2, ObjectAfterSet
<1>4. TableOK(entity_map)
  BY DEF AdvanceInv, TypeOK, TableOK, Row
<1> HIDE DEF obj
<1>5. TableOK(entity_map')
  BY <1>1, <1>4, TableAfterSet
<1>6. \A x : C(entity_map', x) = IF x = e THEN obj ELSE C(entity_map, x)
  BY <1>1, GetAfterSet
<1>7. ASSUME NEW x \in Entity PROVE WellShaped(C(entity_map', x))
  BY <1>3, <1>6 DEF AdvanceInv
<1> HIDE DEF old
<1>8. Validated(old) /\ field # "systems" => Validated(obj)
  BY <1>3 DEF Validated
<1>9. C(entity_map', e) = obj
  BY <1>6
<1> QED
  BY <1>3, <1>5, <1>6, <1>7, <1>8, <1>9 DEF old

\* Every command of every client keeps AdvanceInv.
LEMMA AdvanceStep == AdvanceInv /\ [Next]_vars => AdvanceInv'
<1> DEFINE C(t, x) == ec_get_component(t, x, SystemsComponent)
<1> SUFFICES ASSUME AdvanceInv, [Next]_vars PROVE AdvanceInv'
  OBVIOUS
<1>1. ASSUME NEW r \in Registration, payecs_newsystem(r) PROVE AdvanceInv'
  <2> DEFINE reg == Registered(r.required, r.disallowed)
  <2>1. UNCHANGED <<entity_map, sent, checked>> /\ running' \in BOOLEAN
    BY <1>1 DEF payecs_newsystem
  <2>2. \/ UNCHANGED <<payecs_registry, system_map>>
        \/ /\ payecs_registry' = strmap_add(payecs_registry, r.system, reg)
           /\ system_map' \in {system_map, strmap_add(system_map, r.system, reg)}
    BY <1>1 DEF payecs_newsystem
  <2>3. reg \in Registrations /\ r.system \in {n.system : n \in Registration}
    BY DEF Registrations
  <2> HIDE DEF reg
  <2>4. DOMAIN system_map \subseteq DOMAIN system_map'
    BY <2>2 DEF strmap_add
  <2>5. /\ \A n \in DOMAIN payecs_registry' : payecs_registry'[n] \in Registrations
        /\ DOMAIN payecs_registry' \subseteq {n.system : n \in Registration}
        /\ DOMAIN system_map' \subseteq DOMAIN Builtin \cup DOMAIN payecs_registry'
    BY <2>2, <2>3 DEF strmap_add, AdvanceInv, TypeOK
  <2>6. TypeOK'
    BY <2>1, <2>5 DEF AdvanceInv, TypeOK, Registrations
  <2>7. \A x \in Entity : WellShaped(C(entity_map', x))
    BY <2>1 DEF AdvanceInv
  <2>8. ASSUME NEW x \in checked PROVE Validated(C(entity_map, x))'
    BY <2>1, <2>4 DEF AdvanceInv, Validated
  <2> QED
    BY <2>1, <2>4, <2>6, <2>7, <2>8 DEF AdvanceInv
<1>2. ASSUME NEW e \in Entity, NEW p \in Prepended, NEW a \in Appended,
             SetDefaultSystems(e, p, a)
      PROVE  AdvanceInv'
  <2> DEFINE l == p \o default_systems \o a
  <2>1. UNCHANGED <<payecs_registry, system_map, running, sent>>
    BY <1>2 DEF SetDefaultSystems, registries
  <2>2. CASE ~AllRegistered(system_map, p, a)
    <3>1. UNCHANGED <<entity_map, checked>>
      BY <1>2, <2>2 DEF SetDefaultSystems, payecs_setdefaultsystems
    <3> QED
      BY <2>1, <3>1 DEF AdvanceInv, TypeOK, Validated
  <2>3. CASE AllRegistered(system_map, p, a)
    <3>1. entity_map' = setsystems(entity_map, e, "systems", l) /\ checked' = checked \cup {e}
      BY <1>2, <2>3 DEF SetDefaultSystems, payecs_setdefaultsystems
    <3>2. l \in Lists /\ Written("systems", l)
      BY DEF Lists, Written
    <3>3. \A i \in DOMAIN l : l[i] \in DOMAIN system_map
      <4>1. \A i \in DOMAIN default_systems : default_systems[i] \in DOMAIN system_map
        BY DefaultsRegistered DEF AdvanceInv
      <4> QED
        BY <2>3, <4>1, ListsAre, Zenon DEF AllRegistered
    <3> HIDE DEF l
    <3>4. /\ TableOK(entity_map')
          /\ \A x \in Entity : WellShaped(C(entity_map', x))
          /\ \A x \in Entity \ {e} : C(entity_map', x) = C(entity_map, x)
          /\ SystemsObject(C(entity_map', e)) /\ "systems" \in DOMAIN C(entity_map', e)
          /\ C(entity_map', e)["systems"] = l
      BY <2>1, <3>1, <3>2, FieldWritten
    <3>5. TypeOK'
      BY <2>1, <3>1, <3>4 DEF AdvanceInv, TypeOK, TableOK, Row
    <3>6. Validated(C(entity_map, e))'
      BY <2>1, <3>2, <3>3, <3>4 DEF Validated
    <3>7. ASSUME NEW x \in checked, x # e PROVE Validated(C(entity_map, x))'
      BY <2>1, <3>4, <3>7 DEF Validated, AdvanceInv, TypeOK
    <3> QED
      BY <2>1, <3>1, <3>4, <3>5, <3>6, <3>7 DEF AdvanceInv
  <2> QED
    BY <2>2, <2>3
<1>3. ASSUME NEW e \in Entity, payecs_advance(e) PROVE AdvanceInv'
  <2> DEFINE r == ecsys_advance(system_map, entity_map, e)
  <2>1. /\ UNCHANGED <<payecs_registry, system_map, running, checked>>
        /\ entity_map' = r.tab /\ sent' = r.sent
    BY <1>3 DEF payecs_advance, registries
  <2>2. WellShaped(C(entity_map, e))
    BY DEF AdvanceInv
  <2>3. PICK field \in {"current", "error"} : \E v :
           Written(field, v) /\ r.tab = setsystems(entity_map, e, field, v)
    BY <2>2, AdvanceWrites, Zenon
  <2>4. PICK v : Written(field, v) /\ r.tab = setsystems(entity_map, e, field, v)
    BY <2>3
  <2>5. Len(r.sent) <= 1
    BY <2>2, AdvanceWrites, Zenon
  <2> HIDE DEF r
  <2>6. /\ TableOK(entity_map')
        /\ \A x \in Entity : WellShaped(C(entity_map', x))
        /\ \A x \in Entity \ {e} : C(entity_map', x) = C(entity_map, x)
        /\ Validated(C(entity_map, e)) => Validated(C(entity_map', e))
    BY <2>1, <2>4, FieldWritten
  <2>7. TypeOK'
    BY <2>1, <2>5, <2>6 DEF AdvanceInv, TypeOK, TableOK, Row
  <2>8. ASSUME NEW x \in checked PROVE Validated(C(entity_map, x))'
    BY <2>1, <2>6 DEF Validated, AdvanceInv, TypeOK
  <2> QED
    BY <2>1, <2>6, <2>7, <2>8 DEF AdvanceInv
<1>4. ASSUME NEW e \in Entity, NEW c \in DOMAIN Writable, NEW v \in Writable[c],
             ClientWrites(e, c, v)
      PROVE  AdvanceInv'
  <2>1. /\ UNCHANGED <<payecs_registry, system_map, running, sent>>
        /\ entity_map' = ec_set_component(entity_map, e, c, v)
        /\ checked' = IF c = SystemsComponent THEN checked \ {e} ELSE checked
    BY <1>4 DEF ClientWrites, registries
  <2>2. TableOK(entity_map)
    BY DEF AdvanceInv, TypeOK, TableOK, Row
  <2>3. TableOK(entity_map')
    BY <2>1, <2>2, TableAfterSet
  <2>4. \A x : C(entity_map', x) =
           IF x = e /\ SystemsComponent = c THEN v ELSE C(entity_map, x)
    BY <2>1, GetAfterSet
  <2>5. SystemsComponent = c => WellShaped(v)
    BY ObjectAssumption DEF GivenObjects, WellShaped, IsObject
  <2>6. TypeOK'
    BY <2>1, <2>3 DEF AdvanceInv, TypeOK, TableOK, Row
  <2>7. ASSUME NEW x \in Entity PROVE WellShaped(C(entity_map', x))
    BY <2>4, <2>5 DEF AdvanceInv
  <2>8. ASSUME NEW x \in checked' PROVE Validated(C(entity_map, x))'
    <3>1. C(entity_map', x) = C(entity_map, x) /\ x \in checked
      BY <2>1, <2>4, <2>8
    <3> QED
      BY <2>1, <3>1 DEF Validated, AdvanceInv
  <2> QED
    BY <2>1, <2>6, <2>7, <2>8 DEF AdvanceInv
<1>5. CASE UNCHANGED vars
  BY <1>5 DEF vars, AdvanceInv, TypeOK, Validated
<1> QED
  BY <1>1, <1>2, <1>3, <1>4, <1>5 DEF Next

\* For every set of clients, registrations, lists and writes, malformed
\* components included: payecs_advance never refuses the list of an entity that
\* payecs_setdefaultsystems validated, and what it writes on failure is an
\* object with the error, which payecs_advance_ng can read.
THEOREM AdvanceAlwaysAnswers == Spec => []AdvanceAnswers
<1>1. Init => AdvanceInv
  BY DEF Init, AdvanceInv, TypeOK, EmptyTable, WellShaped, ec_get_component, Attached,
         ec_get_components, Row, EmptyRow
<1>2. AdvanceInv => AdvanceAnswers
  <2> SUFFICES ASSUME AdvanceInv PROVE AdvanceAnswers
    OBVIOUS
  <2>1. CheckedListsAdvance
    BY ValidatedAdvances DEF AdvanceInv, CheckedListsAdvance
  <2>2. ASSUME NEW e \in Entity,
               ecsys_advance(system_map, entity_map, e).code # OK
        PROVE  LET r == ecsys_advance(system_map, entity_map, e)
                   v == ec_get_component(r.tab, e, SystemsComponent)
               IN  IsObject(v) /\ "error" \in DOMAIN v /\ v["error"] = r.code
    <3> DEFINE r == ecsys_advance(system_map, entity_map, e)
               old == ec_get_component(entity_map, e, SystemsComponent)
               obj == ObjectSet(old, "error", r.code)
    <3>1. WellShaped(old)
      BY DEF AdvanceInv
    <3>2. Written("error", r.code) /\ r.tab = setsystems(entity_map, e, "error", r.code)
      BY <2>2, <3>1, AdvanceWrites, Zenon
    <3> HIDE DEF r
    <3>3. IsObject(obj) /\ "error" \in DOMAIN obj /\ obj["error"] = r.code
      BY <3>1, <3>2, ObjectAfterSet
    <3>4. r.tab = ec_set_component(entity_map, e, SystemsComponent, obj)
      BY <3>2, SetsystemsIs
    <3> HIDE DEF obj
    <3>5. ec_get_component(r.tab, e, SystemsComponent) = obj
      BY <3>4, GetAfterSet
    <3> QED
      BY <3>3, <3>5 DEF r
  <2>3. ErrorIsReadable
    BY <2>2 DEF ErrorIsReadable
  <2> QED
    BY <2>1, <2>3 DEF AdvanceAnswers, AdvanceInv
<1> QED
  BY <1>1, <1>2, AdvanceStep, PTL DEF Spec
=============================================================================
