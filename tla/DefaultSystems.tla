--------------------------- MODULE DefaultSystems ---------------------------
(***************************************************************************)
(* The built-in systems of the default payment flow: their registrations   *)
(* (plugins/payz/systems/*.c), their order (plugins/payz/top.c), and the   *)
(* payecs_setdefaultsystems command that gives them to an entity           *)
(* (plugins/payz/payecs_code.c).                                           *)
(***************************************************************************)
EXTENDS Ecsys

system_nonce ==
    Single("lightningd:generate_nonce",
        Registered(<<"lightningd:systems">>, <<"lightningd:nonce">>))

system_parse_invoice ==
    Single("lightningd:parse_invoice",
        Registered(<<"lightningd:invoice">>, <<"lightningd:parse_invoice:ran">>))
    ++ Single("lightningd:promote_invoice_type",
        Registered(<<"lightningd:invoice:type">>, <<"lightningd:promote_invoice_type:ran">>))

system_invoice_amount ==
    Single("lightningd:invoice_amount_msat",
        Registered(<<"lightningd:invoice:amount_msat">>, <<"lightningd:amount">>))
    ++ Single("lightningd:fail_invoice_amount_and_amount",
        Registered(<<"lightningd:invoice:amount_msat", "lightningd:amount">>, << >>))

\* The component each defaulter attaches when it is missing.
Defaulted ==
    Single("lightningd:default_riskfactor",       "lightningd:riskfactor")
    ++ Single("lightningd:default_maxfeepercent", "lightningd:maxfeepercent")
    ++ Single("lightningd:default_retry_for",     "lightningd:retry_for")
    ++ Single("lightningd:default_maxdelay",      "lightningd:maxdelay")
    ++ Single("lightningd:default_exemptfee",     "lightningd:exemptfee")

\* Mutant of system_defaulter: forgets the disallowed component.
system_defaulter_Overwrites ==
    [name \in DOMAIN Defaulted |-> Registered(<<"lightningd:main-payment">>, << >>)]

system_defaulter ==
    [name \in DOMAIN Defaulted |->
        Registered(<<"lightningd:main-payment">>, <<Defaulted[name]>>)]

\* What setup_payz_top registers.
Builtin ==
    system_nonce ++ system_parse_invoice ++ system_invoice_amount ++ system_defaulter

\* Mutant of default_systems: a descriptor is not concatenated.
default_systems_Short ==
    <<"lightningd:generate_nonce",
      "lightningd:parse_invoice",
      "lightningd:promote_invoice_type",
      "lightningd:default_riskfactor",
      "lightningd:default_maxfeepercent",
      "lightningd:default_retry_for",
      "lightningd:default_maxdelay",
      "lightningd:default_exemptfee">>

\* The names in the order setup_payz_top concatenates the descriptors.
default_systems ==
    <<"lightningd:generate_nonce",
      "lightningd:parse_invoice",
      "lightningd:promote_invoice_type",
      "lightningd:invoice_amount_msat",
      "lightningd:fail_invoice_amount_and_amount",
      "lightningd:default_riskfactor",
      "lightningd:default_maxfeepercent",
      "lightningd:default_retry_for",
      "lightningd:default_maxdelay",
      "lightningd:default_exemptfee">>

\* Mutant of AllRegistered: `append` is not validated.
AllRegistered_PrependOnly(system_map, prepend, append) ==
    \A i \in DOMAIN prepend : prepend[i] \in DOMAIN system_map

\* payecs_setdefaultsystems finds every name it is given (ecs_system_exists).
AllRegistered(system_map, prepend, append) ==
    /\ \A i \in DOMAIN prepend : prepend[i] \in DOMAIN system_map
    /\ \A i \in DOMAIN append : append[i] \in DOMAIN system_map

\* The table after payecs_setdefaultsystems; a name that is not registered
\* fails the command (JSONRPC2_INVALID_PARAMS) before anything is written.
payecs_setdefaultsystems(system_map, tab, e, prepend, append) ==
    IF AllRegistered(system_map, prepend, append)
    THEN setsystems(tab, e, "systems", prepend \o default_systems \o append)
    ELSE tab
=============================================================================
