------------------------------ MODULE MCFlow ------------------------------
(***************************************************************************)
(* Two instances of PayFlow in one: in the behaviours called "safe" the    *)
(* client makes any of its requests; in those called "live", which are     *)
(* fair, it makes those that tell halting flows from endless ones, with    *)
(* one nonce.                                                              *)
(***************************************************************************)
EXTENDS PayFlow, TLC

CONSTANTS true, main, invoice, msat, converted, coin, bolt11, chosen,
          nonce1, nonce2, dflt, err

MCScalar ==
    {true, main, invoice, msat, converted, coin, bolt11, chosen, nonce1, nonce2, dflt, err}

Main == "lightningd:main-payment" :> main
Invoice == "lightningd:invoice" :> invoice
Promoted == "lightningd:promote_invoice_type:ran" :> true
NoFields == [f \in {} |-> Null]

\* A payment without invoice, one parameter given by the client.
Plain == [given   |-> Main @@ "lightningd:riskfactor" :> chosen,
          valid   |-> FALSE,
          invoice |-> NoFields]

\* An invoice with an amount, whose type another party has promoted.
Priced == [given   |-> Main @@ Invoice @@ Promoted,
           valid   |-> TRUE,
           invoice |-> "amount_msat" :> msat @@ "type" :> bolt11]

\* The invoice and the client both give an amount.
TwoAmounts == [given   |-> Main @@ Invoice @@ "lightningd:amount" :> chosen,
               valid   |-> TRUE,
               invoice |-> "amount_msat" :> msat]

\* A string that `decode` rejects.
Garbage == [given |-> Main @@ Invoice, valid |-> FALSE, invoice |-> NoFields]

\* An invoice in another currency, which a prepended system converts.
Foreign == [given   |-> Invoice,
            valid   |-> TRUE,
            invoice |-> "currency" :> coin]

\* The answer of `decode` as lightningd gives it.
Typed == [given   |-> Main @@ Invoice,
          valid   |-> TRUE,
          invoice |-> "amount_msat" :> msat @@ "type" :> bolt11]

MCRequest == {Plain, Priced, TwoAmounts, Garbage, Foreign, Typed}
LiveRequest == {Priced, Foreign, Typed}

MCExternal ==
    "example:currency" :>
        Registered(<<"lightningd:invoice:currency">>, <<"lightningd:invoice:amount_msat">>)
MCExternalWrites ==
    "example:currency" :>
        ("lightningd:invoice:currency" :> Null
         @@ "lightningd:invoice:amount_msat" :> converted)
MCPrepend == <<"example:currency">>
MCNonce == {nonce1, nonce2}
OneNonce == {nonce1}

-----------------------------------------------------------------------------

VARIABLE which

Live == INSTANCE PayFlow WITH Request <- LiveRequest, Nonce <- OneNonce

MCInit ==
    \/ which = "safe" /\ Init
    \/ which = "live" /\ Live!Init

MCNext ==
    /\ UNCHANGED which
    /\ \/ which = "safe" /\ Next
       \/ which = "live" /\ Live!Next

\* See Fairness of PayFlow.
LiveFairness ==
    /\ WF_vars(which = "live" /\ Live!Deliver)
    /\ \A e \in Entity : /\ WF_vars(which = "live" /\ Live!DecodeAnswered(e))
                         /\ WF_vars(which = "live" /\ Live!ExternalWorks(e))

MCSpec == MCInit /\ [][MCNext]_<<which, vars>> /\ LiveFairness
LiveSpec == which = "live" /\ Live!Init /\ [][MCNext]_<<which, vars>> /\ LiveFairness

-----------------------------------------------------------------------------
\* The flow ends for every entity whose invoice has no `type`, or whose type
\* some other party marked as promoted, also while the flow of another entity
\* goes round for ever: notifications are relayed in order, so none starves
\* (advance and re-advance by the systems of plugins/payz/systems).
LiveFlowHalts ==
    \A e \in Entity :
        (which = "live" /\ Started(e) /\ ~NeedsPromotion(e)) ~> Halted(e)
=============================================================================
