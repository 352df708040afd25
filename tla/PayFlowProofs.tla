---------------------------- MODULE PayFlowProofs ----------------------------
(***************************************************************************)
(* The payment flow is correct for any number of entities, any systems of  *)
(* other plugins that keep to WritesAssumption and any requests: its lock  *)
(* holds, what a notification says is current when it arrives, a flow that *)
(* halts says why and did all its work, and what is decided stays decided. *)
(*                                                                         *)
(* The argument has two inductive invariants.                              *)
(*                                                                         *)
(* HolderInv says who holds an entity.  An entity is handed on, never      *)
(* copied: a handler that leaves an entity to a waiting job consumes its   *)
(* notification, and ecsys_advance sends at most one notification, for the *)
(* entity it is given.  What makes this inductive is that the wire is a    *)
(* sequence of notifications for different entities.                       *)
(*                                                                         *)
(* FlowInv says, with HolderInv, what the row of an entity may be.  While  *)
(* someone holds the entity, it is going: it has a `lightningd:systems`    *)
(* object with the systems of the flow and no `lightningd:error`.  When no *)
(* one does, it stopped, with one of these two, and then no system of the  *)
(* flow matches it.  A notification is current for the row, and the row of *)
(* an entity that a plugin was told of still matches the plugin's system.  *)
(* The amount of a decoded invoice is followed from the answer of `decode` *)
(* to `lightningd:invoice:amount_msat` to `lightningd:amount`              *)
(* (AmountFollowed); only while `decode` is unanswered it is nowhere.      *)
(*                                                                         *)
(* A step moves one entity (OneEntityMoves), so that each handler needs a  *)
(* lemma only about the row it writes (After_...); ecsys_advance of a row  *)
(* that is going is one lemma for all of them (AdvanceGoing).              *)
(***************************************************************************)
EXTENDS PayFlow, TLAPS

\* An entity has a notification on the queue.
On(w, e) == \E i \in DOMAIN w : w[i].entity = e

\* A queue of notifications for different entities.
Queue(w) ==
    /\ \E S : w \in Seq(S)
    /\ \A i \in DOMAIN w : w[i].entity \in Entity
    /\ \A i, k \in DOMAIN w : w[i].entity = w[k].entity => i = k

\* Who holds an entity: inductive on its own.
HolderInv ==
    /\ Queue(wire)
    /\ jobs \in [Entity -> [Job -> Nat]]
    /\ phase \in [Entity -> {"fresh", "filled", "ready", "started"}]
    /\ \A e \in Entity : On(wire, e) => Started(e) /\ \A j \in Job : jobs[e][j] = 0
    /\ \A e \in Entity, j \in Job : jobs[e][j] > 0 =>
          /\ Started(e)
          /\ jobs[e][j] = 1
          /\ \A k \in Job \ {j} : jobs[e][k] = 0

-----------------------------------------------------------------------------
\* ecsys_advance sends nothing, or one notification for the entity advanced.
LEMMA AdvanceSendsOne ==
    ASSUME NEW map, NEW tab, NEW e
    PROVE  LET sent == ecsys_advance(map, tab, e).sent
           IN  sent = << >> \/ \E m : sent = <<m>> /\ m.entity = e
<1> DEFINE systems == getsystems(tab, e)
           stops == {i \in DOMAIN systems :
                       \/ systems[i] \notin DOMAIN map
                       \/ system_matches(tab, e, map[systems[i]])}
           i == CHOOSE k \in stops : \A j \in stops : k <= j
           new == setsystems(tab, e, "current", i - 1)
           msg == Invocation(new, e, systems[i], map[systems[i]])
           err(code) == [code |-> code, tab |-> setsystems(tab, e, "error", code), sent |-> << >>]
<1>1. \/ \E code : ecsys_advance(map, tab, e) = err(code)
      \/ ecsys_advance(map, tab, e) = [code |-> OK, tab |-> new, sent |-> <<msg>>]
  BY Zenon DEF ecsys_advance, ecsys_advance_error
<1>2. msg.entity = e
  BY DEF Invocation
<1> HIDE DEF systems, stops, i, new, msg
<1> QED
  BY <1>1, <1>2

\* run_system appends at the end, element by element.
LEMMA Appended ==
    ASSUME NEW S, NEW w \in Seq(S), NEW m
    PROVE  /\ DOMAIN w = 1 .. Len(w) /\ Len(w) \in Nat
           /\ w \o <<m>> \in Seq(S \cup {m})
           /\ DOMAIN (w \o <<m>>) = 1 .. Len(w) + 1
           /\ \A i \in 1 .. Len(w) : (w \o <<m>>)[i] = w[i]
           /\ (w \o <<m>>)[Len(w) + 1] = m
<1> DEFINE T == S \cup {m}
<1>1. w \in Seq(T) /\ <<m>> \in Seq(T) /\ Len(<<m>>) = 1
  OBVIOUS
<1> HIDE DEF T
<1>2. w \o <<m>> \in Seq(T) /\ Len(w \o <<m>>) = Len(w) + 1
  BY <1>1
<1>3. DOMAIN (w \o <<m>>) = 1 .. Len(w) + 1
  BY <1>2
<1>4. \A i \in 1 .. Len(w) : (w \o <<m>>)[i] = w[i]
  BY <1>1
<1>5. (w \o <<m>>)[Len(w) + 1] = m
  BY <1>1
<1> QED
  BY <1>2, <1>3, <1>4, <1>5 DEF T

\* ecsys_advance_error appends nothing.
LEMMA NothingAppended ==
    ASSUME NEW S, NEW w \in Seq(S)
    PROVE  w \o << >> = w
  OBVIOUS

\* Taking the oldest notification off the queue takes its entity off.
LEMMA QueuePop ==
    ASSUME NEW w, Queue(w), w # << >>
    PROVE  /\ Head(w).entity \in Entity
           /\ On(w, Head(w).entity)
           /\ Queue(Tail(w))
           /\ \A e : On(Tail(w), e) => On(w, e) /\ e # Head(w).entity
<1>1. PICK S : w \in Seq(S)
  BY DEF Queue
<1>2. /\ Len(w) \in Nat \ {0} /\ DOMAIN w = 1 .. Len(w)
      /\ Head(w) = w[1] /\ 1 \in DOMAIN w
  BY <1>1
<1>3. /\ Tail(w) \in Seq(S) /\ DOMAIN Tail(w) = 1 .. Len(w) - 1
      /\ \A i \in DOMAIN Tail(w) : Tail(w)[i] = w[i + 1] /\ i + 1 \in DOMAIN w /\ i + 1 # 1
  BY <1>1, <1>2
<1> QED
  BY <1>2, <1>3 DEF Queue, On

\* Appending a notification for an entity that is not on the queue.
LEMMA QueuePush ==
    ASSUME NEW w, Queue(w), NEW m, m.entity \in Entity, ~On(w, m.entity)
    PROVE  /\ Queue(w \o <<m>>)
           /\ \A e : On(w \o <<m>>, e) => On(w, e) \/ e = m.entity
<1>1. PICK S : w \in Seq(S)
  BY DEF Queue
<1> DEFINE v == w \o <<m>>
<1>2. /\ v \in Seq(S \cup {m})
      /\ DOMAIN w = 1 .. Len(w) /\ Len(w) \in Nat
      /\ DOMAIN v = 1 .. Len(w) + 1
      /\ \A i \in 1 .. Len(w) : v[i] = w[i]
      /\ v[Len(w) + 1] = m
  BY <1>1, Appended
<1> HIDE DEF v
<1>3. Queue(v) /\ \A e : On(v, e) => On(w, e) \/ e = m.entity
  BY <1>2 DEF Queue, On
<1> QED
  BY <1>3 DEF v

\* AdvanceIn, for an entity that is not on the rest of the queue.
LEMMA QueueAdvance ==
    ASSUME NEW tab, NEW e \in Entity, NEW rest, Queue(rest), ~On(rest, e),
           AdvanceIn(tab, e, rest)
    PROVE  Queue(wire') /\ \A x : On(wire', x) => On(rest, x) \/ x = e
<1> DEFINE sent == ecsys_advance(system_map, tab, e).sent
<1>1. wire' = rest \o sent
  BY DEF AdvanceIn
<1>2. CASE sent = << >>
  <2>1. rest \o << >> = rest
    BY NothingAppended DEF Queue
  <2> QED
    BY <1>1, <1>2, <2>1
<1>3. CASE \E m : sent = <<m>> /\ m.entity = e
  BY <1>1, <1>3, QueuePush
<1> QED
  BY <1>2, <1>3, AdvanceSendsOne
-----------------------------------------------------------------------------
\* The handlers that keep the entity going: nobody else gets to hold it.
LEMMA HandedOn ==
    ASSUME HolderInv, wire # << >>, NEW tab, ecs_advance_done(tab, Subject),
           UNCHANGED <<jobs, phase>>
    PROVE  HolderInv'
<1> DEFINE e == Subject
<1>1. e \in Entity /\ On(wire, e) /\ Queue(Tail(wire)) /\ ~On(Tail(wire), e)
      /\ \A x : On(Tail(wire), x) => On(wire, x)
  BY QueuePop DEF HolderInv, Subject
<1>2. AdvanceIn(tab, e, Tail(wire))
  BY DEF ecs_advance_done
<1> HIDE DEF e
<1>3. Queue(wire') /\ \A x : On(wire', x) => On(wire, x)
  BY <1>1, <1>2, QueueAdvance
<1>4. Queue(wire)'
  BY <1>3 DEF Queue
<1>5. \A x : On(wire, x)' => On(wire, x)
  BY <1>3 DEF On
<1> QED
  BY <1>4, <1>5 DEF HolderInv, Started

\* The handlers that leave the entity to a job that waits.
LEMMA HandedToJob ==
    ASSUME HolderInv, wire # << >>, wire' = Tail(wire),
           NEW j \in Job, Begin(Subject, j), UNCHANGED phase
    PROVE  HolderInv'
<1> DEFINE e == Subject
<1>1. e \in Entity /\ On(wire, e) /\ Queue(wire')
      /\ \A x : On(wire', x) => On(wire, x) /\ x # e
  BY QueuePop DEF HolderInv, Subject
<1>2. jobs' = [jobs EXCEPT ![e] = [jobs[e] EXCEPT ![j] = jobs[e][j] + 1]]
  BY DEF Begin
<1> HIDE DEF e
<1>3. Queue(wire)'
  BY <1>1 DEF Queue
<1>4. \A x : On(wire, x)' => On(wire, x) /\ x # e
  BY <1>1, Zenon DEF On
<1>5. Started(e) /\ \A k \in Job : jobs[e][k] = 0
  BY <1>1 DEF HolderInv
<1>6. jobs' \in [Entity -> [Job -> Nat]]
  BY <1>1, <1>2 DEF HolderInv
<1>7. /\ \A x \in Entity \ {e} : jobs'[x] = jobs[x]
      /\ jobs'[e][j] = 1 /\ \A k \in Job \ {j} : jobs'[e][k] = 0
  BY <1>1, <1>2, <1>5 DEF HolderInv
<1>8. \A x \in Entity : On(wire, x)' => Started(x)' /\ \A k \in Job : jobs'[x][k] = 0
  BY <1>4, <1>7 DEF HolderInv, Started
<1>9. \A x \in Entity, i \in Job : jobs'[x][i] > 0 =>
         Started(x)' /\ jobs'[x][i] = 1 /\ \A k \in Job \ {i} : jobs'[x][k] = 0
  <2> SUFFICES ASSUME NEW x \in Entity, NEW i \in Job, jobs'[x][i] > 0
               PROVE  Started(x)' /\ jobs'[x][i] = 1 /\ \A k \in Job \ {i} : jobs'[x][k] = 0
    OBVIOUS
  <2>1. CASE x = e
    BY <2>1, <1>5, <1>7 DEF Started
  <2>2. CASE x # e
    BY <2>2, <1>7 DEF HolderInv, Started
  <2> QED
    BY <2>1, <2>2
<1> QED
  BY <1>3, <1>6, <1>8, <1>9 DEF HolderInv

\* A job that ends holds the entity alone: afterwards no one does.
LEMMA JobEnds ==
    ASSUME HolderInv, NEW e \in Entity, NEW j \in Job, End(e, j)
    PROVE  /\ Started(e) /\ ~On(wire, e)
           /\ jobs' \in [Entity -> [Job -> Nat]]
           /\ \A x \in Entity \ {e} : jobs'[x] = jobs[x]
           /\ \A k \in Job : jobs'[e][k] = 0
<1>1. jobs[e][j] = 1 /\ Started(e) /\ \A k \in Job \ {j} : jobs[e][k] = 0
  BY DEF HolderInv, End
<1>2. jobs' = [jobs EXCEPT ![e] = [jobs[e] EXCEPT ![j] = jobs[e][j] - 1]]
  BY DEF End
<1>3. ~On(wire, e)
  BY <1>1 DEF HolderInv
<1> QED
  BY <1>1, <1>2, <1>3 DEF HolderInv

\* A job that ends and advances the entity (payecs_advance or
\* parse_invoice_decode_ok).
LEMMA JobAdvances ==
    ASSUME HolderInv, NEW e \in Entity, NEW j \in Job, End(e, j), NEW tab,
           AdvanceIn(tab, e, wire), UNCHANGED phase
    PROVE  HolderInv'
<1>1. Queue(wire') /\ \A x : On(wire', x) => On(wire, x) \/ x = e
  BY JobEnds, QueueAdvance DEF HolderInv
<1>2. Queue(wire)'
  BY <1>1 DEF Queue
<1>3. \A x : On(wire, x)' => On(wire, x) \/ x = e
  BY <1>1 DEF On
<1> QED
  BY <1>2, <1>3, JobEnds DEF HolderInv, Started

\* Steps that leave the wire alone.
LEMMA WireKept ==
    ASSUME UNCHANGED wire
    PROVE  (Queue(wire)' <=> Queue(wire)) /\ \A x : On(wire, x)' <=> On(wire, x)
  BY DEF Queue, On
-----------------------------------------------------------------------------
\* Before the first step no one holds an entity.
LEMMA HolderInitially == Init => HolderInv
  BY DEF Init, HolderInv, Queue, On

\* A count of zero (`jobs`, of unanswered `decode` requests and other plugins
\* at work) is no holder, one is.
LEMMA Counted == 1 > 0 /\ \A n : n = 0 => ~(n > 0)
  OBVIOUS

\* The jobs: the `decode` call of parse_invoice, and the work of other plugins.
LEMMA JobsAre ==
    /\ DecodeJob \in Job
    /\ \A name \in DOMAIN External : <<name, "invoked">> \in Job /\ <<name, "written">> \in Job
  BY DEF Job

\* Every handler, answer and client step hands an entity on to at most one.
LEMMA HolderStep ==
    ASSUME HolderInv, [Next]_vars
    PROVE  HolderInv'
<1>1. CASE generate_nonce
  BY <1>1, HandedOn DEF generate_nonce, Invoked
<1>2. CASE parse_invoice
  BY <1>2, HandedToJob DEF parse_invoice, Invoked, ecs_done, Job
<1>3. CASE promote_invoice_type
  BY <1>3, HandedOn, Zenon DEF promote_invoice_type, Invoked
<1>4. CASE invoice_amount_msat
  BY <1>4, HandedOn DEF invoice_amount_msat, Invoked
<1>5. CASE fail_invoice_amount_and_amount
  <2>1. wire # << >> /\ wire' = Tail(wire) /\ UNCHANGED <<jobs, phase>>
    BY <1>5 DEF fail_invoice_amount_and_amount, Invoked, ecs_done
  <2>2. Queue(Tail(wire)) /\ \A x : On(Tail(wire), x) => On(wire, x)
    BY <2>1, QueuePop DEF HolderInv
  <2>3. Queue(wire)' /\ \A x : On(wire, x)' => On(wire, x)
    BY <2>1, <2>2 DEF Queue, On
  <2> QED
    BY <2>1, <2>3 DEF HolderInv, Started
<1>6. ASSUME NEW name \in DOMAIN Defaulted, defaulter(name) PROVE HolderInv'
  BY <1>6, HandedOn DEF defaulter, Invoked
<1>7. ASSUME NEW name \in DOMAIN External, ExternalInvoked(name) PROVE HolderInv'
  <2>1. <<name, "invoked">> \in Job
    BY JobsAre, Zenon
  <2> QED
    BY <1>7, <2>1, HandedToJob DEF ExternalInvoked, Invoked, ecs_done
<1>8. ASSUME NEW e \in Entity, parse_invoice_decode_ok(e) PROVE HolderInv'
  BY <1>8, JobAdvances DEF parse_invoice_decode_ok, Job
<1>9. ASSUME NEW e \in Entity, parse_invoice_decode_ng(e) PROVE HolderInv'
  <2>1. DecodeJob \in Job
    BY JobsAre, Zenon
  <2>2. /\ UNCHANGED <<wire, phase>>
        /\ Started(e) /\ ~On(wire, e)
        /\ jobs' \in [Entity -> [Job -> Nat]]
        /\ \A x \in Entity \ {e} : jobs'[x] = jobs[x]
        /\ \A k \in Job : jobs'[e][k] = 0
    BY <1>9, <2>1, JobEnds DEF parse_invoice_decode_ng
  <2>3. Queue(wire)' /\ \A x : On(wire, x)' => On(wire, x)
    BY <2>2, WireKept DEF HolderInv
  <2>4. \A x \in Entity : Started(x)' <=> Started(x)
    BY <2>2 DEF Started
  <2>5. \A x \in Entity : On(wire, x)' => Started(x)' /\ \A k \in Job : jobs'[x][k] = 0
    BY <2>2, <2>3, <2>4 DEF HolderInv
  <2>6. \A x \in Entity, i \in Job : jobs'[x][i] > 0 =>
           Started(x)' /\ jobs'[x][i] = 1 /\ \A k \in Job \ {i} : jobs'[x][k] = 0
    <3> SUFFICES ASSUME NEW x \in Entity, NEW i \in Job, jobs'[x][i] > 0
                 PROVE  Started(x)' /\ jobs'[x][i] = 1 /\ \A k \in Job \ {i} : jobs'[x][k] = 0
      OBVIOUS
    <3>1. x # e /\ jobs'[x] = jobs[x]
      BY <2>2
    <3> QED
      BY <3>1, <2>4 DEF HolderInv
  <2> QED
    BY <2>2, <2>3, <2>5, <2>6 DEF HolderInv
<1>10. ASSUME NEW name \in DOMAIN External, NEW e \in Entity, ExternalSets(name, e)
       PROVE  HolderInv'
  <2> DEFINE j == <<name, "invoked">>
             k == <<name, "written">>
  <2>1. j \in Job /\ k \in Job /\ j # k
    BY DEF Job
  <2>2. /\ jobs[e][j] > 0 /\ UNCHANGED <<wire, phase>>
        /\ jobs' = [jobs EXCEPT ![e] = [jobs[e] EXCEPT ![j] = jobs[e][j] - 1,
                                                       ![k] = jobs[e][k] + 1]]
    BY <1>10, <2>1, Zenon DEF ExternalSets, HolderInv
  <2> HIDE DEF j, k
  <2>3. Started(e) /\ jobs[e][j] = 1 /\ \A i \in Job \ {j} : jobs[e][i] = 0
    BY <2>1, <2>2 DEF HolderInv
  <2>4. /\ jobs' \in [Entity -> [Job -> Nat]]
        /\ \A x \in Entity \ {e} : jobs'[x] = jobs[x]
        /\ jobs'[e][k] = 1 /\ \A i \in Job \ {k} : jobs'[e][i] = 0
    BY <2>1, <2>2, <2>3 DEF HolderInv
  <2>5. ~On(wire, e)
    BY <2>1, <2>2 DEF HolderInv
  <2>6. \A x \in Entity, i \in Job : jobs'[x][i] > 0 =>
           Started(x)' /\ jobs'[x][i] = 1 /\ \A l \in Job \ {i} : jobs'[x][l] = 0
    <3> SUFFICES ASSUME NEW x \in Entity, NEW i \in Job, jobs'[x][i] > 0
                 PROVE  Started(x)' /\ jobs'[x][i] = 1 /\ \A l \in Job \ {i} : jobs'[x][l] = 0
      OBVIOUS
    <3>1. CASE x = e
      BY <3>1, <2>2, <2>3, <2>4 DEF Started
    <3>2. CASE x # e
      BY <3>2, <2>2, <2>4 DEF HolderInv, Started
    <3> QED
      BY <3>1, <3>2
  <2>7. \A x \in Entity : On(wire, x)' => Started(x)' /\ \A l \in Job : jobs'[x][l] = 0
    BY <2>2, <2>4, <2>5, WireKept DEF HolderInv, Started
  <2> QED
    BY <2>2, <2>4, <2>6, <2>7, WireKept, Zenon DEF HolderInv
<1>11. ASSUME NEW name \in DOMAIN External, NEW e \in Entity, ExternalAdvances(name, e)
       PROVE  HolderInv'
  <2>1. <<name, "written">> \in Job
    BY JobsAre, Zenon
  <2> QED
    BY <1>11, <2>1, JobAdvances DEF ExternalAdvances, payecs_advance
<1>12. ASSUME NEW e \in Entity, ClientFills(e) \/ ClientSetsSystems(e) PROVE HolderInv'
  <2>1. /\ UNCHANGED <<wire, jobs>>
        /\ phase' \in [Entity -> {"fresh", "filled", "ready", "started"}]
        /\ \A x \in Entity : Started(x) => Started(x)'
    BY <1>12, Zenon DEF ClientFills, ClientSetsSystems, HolderInv, Started
  <2> QED
    BY <2>1, WireKept DEF HolderInv
<1>13. ASSUME NEW e \in Entity, ClientAdvances(e) PROVE HolderInv'
  <2>1. /\ ~On(wire, e) /\ AdvanceIn(entity_map, e, wire) /\ UNCHANGED jobs
        /\ \A j \in Job : jobs[e][j] = 0
        /\ phase' = [phase EXCEPT ![e] = "started"]
    BY <1>13 DEF ClientAdvances, payecs_advance, HolderInv, Started
  <2>2. Queue(wire') /\ \A x : On(wire', x) => On(wire, x) \/ x = e
    BY <2>1, QueueAdvance DEF HolderInv
  <2>3. Queue(wire)' /\ \A x : On(wire, x)' => On(wire, x) \/ x = e
    BY <2>2 DEF Queue, On
  <2>4. /\ phase' \in [Entity -> {"fresh", "filled", "ready", "started"}]
        /\ \A x \in Entity : Started(x) => Started(x)'
        /\ Started(e)'
    BY <2>1 DEF HolderInv, Started
  <2>5. \A x \in Entity : On(wire, x)' => Started(x)' /\ \A j \in Job : jobs'[x][j] = 0
    BY <2>1, <2>3, <2>4 DEF HolderInv
  <2> QED
    BY <2>1, <2>3, <2>4, <2>5 DEF HolderInv
<1>14. CASE UNCHANGED vars
  <2>1. UNCHANGED <<wire, jobs, phase>>
    BY <1>14 DEF vars
  <2> QED
    BY <2>1, WireKept DEF HolderInv, Started
<1> QED
  BY <1>1, <1>2, <1>3, <1>4, <1>5, <1>6, <1>7, <1>8, <1>9, <1>10, <1>11, <1>12, <1>13, <1>14
     DEF Next, Deliver, DecodeAnswered, ExternalWorks, Client

\* The hands of every behaviour (HolderInv is inductive).
LEMMA HolderHolds == Spec => []HolderInv
<1>1. HolderInv /\ [Next]_vars => HolderInv'
  BY HolderStep
<1> QED
  BY <1>1, HolderInitially, PTL DEF Spec

\* The implicit lock (doc/PAYECS.md:409-413): however handlers, answers of
\* `decode`, clients and other plugins interleave, an entity is in at most one
\* hand, and in none before its client advances it.
THEOREM EntityHasOneHolder == Spec => []OneHolder
<1>1. HolderInv => OneHolder
  BY DEF HolderInv, OneHolder, Queue, On, AtWork
<1> QED
  BY <1>1, HolderHolds, PTL
-----------------------------------------------------------------------------
\* The row ec_set_component and set_components make of a row.
RowSet(r, c, v) ==
    IF v = Null THEN [k \in DOMAIN r \ {c} |-> r[k]]
    ELSE [k \in DOMAIN r \cup {c} |-> IF k = c THEN v ELSE r[k]]

RowSets(r, comps) ==
    [k \in {k \in DOMAIN r \cup DOMAIN comps : k \in DOMAIN comps => comps[k] # Null} |->
        IF k \in DOMAIN comps THEN comps[k] ELSE r[k]]

\* ec_set_component (ec.c) writes one cell of one row.
LEMMA RowAfterSet ==
    ASSUME NEW tab, NEW e, NEW c, NEW v, NEW x
    PROVE  Row(ec_set_component(tab, e, c, v), x) =
              IF x = e THEN RowSet(Row(tab, e), c, v) ELSE Row(tab, x)
<1> DEFINE old == Row(tab, e)
           new == RowSet(old, c, v)
           rows == IF DOMAIN new = {} THEN DOMAIN tab \ {e} ELSE DOMAIN tab \cup {e}
<1>1. ec_set_component(tab, e, c, v) = [y \in rows |-> IF y = e THEN new ELSE tab[y]]
  BY DEF ec_set_component, RowSet
<1>2. DOMAIN new = {} => new = EmptyRow
  BY DEF RowSet, EmptyRow
<1> HIDE DEF new
<1>3. Row(ec_set_component(tab, e, c, v), x) = IF x = e THEN new ELSE Row(tab, x)
  BY <1>1, <1>2 DEF Row
<1> QED
  BY <1>3 DEF new

\* set_components (ecs.c, payecs_setcomponents) writes cells of one row.
LEMMA RowAfterSets ==
    ASSUME NEW tab, NEW e, NEW comps, NEW x
    PROVE  Row(set_components(tab, e, comps), x) =
              IF x = e THEN RowSets(Row(tab, e), comps) ELSE Row(tab, x)
<1> DEFINE old == Row(tab, e)
           new == RowSets(old, comps)
           rows == IF DOMAIN new = {} THEN DOMAIN tab \ {e} ELSE DOMAIN tab \cup {e}
<1>1. set_components(tab, e, comps) = [y \in rows |-> IF y = e THEN new ELSE tab[y]]
  BY DEF set_components, RowSets
<1>2. DOMAIN new = {} => new = EmptyRow
  BY DEF RowSets, EmptyRow
<1> HIDE DEF new
<1>3. Row(set_components(tab, e, comps), x) = IF x = e THEN new ELSE Row(tab, x)
  BY <1>1, <1>2 DEF Row
<1> QED
  BY <1>3 DEF new

\* The `lightningd:systems` objects of the flow are objects, list its systems,
\* and have no `error` but PAY_ECS_NOT_ADVANCEABLE (ecsys.c).
LEMMA ObjectsAre ==
    ASSUME NEW o \in SystemsObjects
    PROVE  /\ o \notin Scalar /\ o # Null
           /\ "systems" \in DOMAIN o /\ o["systems"] = AllSystems
           /\ "error" \in DOMAIN o => o["error"] = NOT_ADVANCEABLE
  BY ObjectAssumption DEF SystemsObjects

\* Writing `current` (payz_generic_setsystems_tok) keeps the object one of them.
LEMMA ObjectsAdvanced ==
    ASSUME NEW o \in SystemsObjects, NEW i \in 0 .. Len(AllSystems) - 1
    PROVE  [f \in (DOMAIN o \ {"current"}) \cup {"current"} |->
              IF f = "current" THEN i ELSE o[f]] \in SystemsObjects
  BY DEF SystemsObjects

\* So does writing the `error` of ecsys_advance_error.
LEMMA ObjectsFailed ==
    ASSUME NEW o \in SystemsObjects
    PROVE  [f \in (DOMAIN o \ {"error"}) \cup {"error"} |->
              IF f = "error" THEN NOT_ADVANCEABLE ELSE o[f]] \in SystemsObjects
  BY DEF SystemsObjects

-----------------------------------------------------------------------------
\* The registrations of systems/defaulter.c.
LEMMA DefaultedIs ==
    /\ DOMAIN Defaulted = {"lightningd:default_riskfactor", "lightningd:default_maxfeepercent",
          "lightningd:default_retry_for", "lightningd:default_maxdelay",
          "lightningd:default_exemptfee"}
    /\ Defaulted["lightningd:default_riskfactor"] = "lightningd:riskfactor"
    /\ Defaulted["lightningd:default_maxfeepercent"] = "lightningd:maxfeepercent"
    /\ Defaulted["lightningd:default_retry_for"] = "lightningd:retry_for"
    /\ Defaulted["lightningd:default_maxdelay"] = "lightningd:maxdelay"
    /\ Defaulted["lightningd:default_exemptfee"] = "lightningd:exemptfee"
  BY Zenon DEF Defaulted, ++, Single

\* The registrations of plugins/payz/systems that the flow rests on.
LEMMA BuiltinIs ==
    /\ DOMAIN Builtin = DOMAIN Defaulted \cup
          {"lightningd:generate_nonce", "lightningd:parse_invoice",
           "lightningd:promote_invoice_type", "lightningd:invoice_amount_msat",
           "lightningd:fail_invoice_amount_and_amount"}
    /\ Builtin["lightningd:generate_nonce"] =
          Registered(<<"lightningd:systems">>, <<"lightningd:nonce">>)
    /\ Builtin["lightningd:parse_invoice"] =
          Registered(<<"lightningd:invoice">>, <<"lightningd:parse_invoice:ran">>)
    /\ Builtin["lightningd:invoice_amount_msat"] =
          Registered(<<"lightningd:invoice:amount_msat">>, <<"lightningd:amount">>)
    /\ Builtin["lightningd:fail_invoice_amount_and_amount"] =
          Registered(<<"lightningd:invoice:amount_msat", "lightningd:amount">>, << >>)
    /\ \A name \in DOMAIN Defaulted :
          Builtin[name] = Registered(<<"lightningd:main-payment">>, <<Defaulted[name]>>)
  BY DefaultedIs, ZenonT(30)
     DEF Builtin, system_nonce, system_parse_invoice, system_invoice_amount, system_defaulter,
         ++, Single

\* The registry: the built-in systems and those of other plugins.
LEMMA SystemMapIs ==
    /\ DOMAIN system_map = DOMAIN Builtin \cup DOMAIN External
    /\ \A name \in DOMAIN Builtin : system_map[name] = Builtin[name]
    /\ \A name \in DOMAIN External : system_map[name] = External[name]
  BY ExternalAssumption DEF system_map, ++

\* Every name payecs_setdefaultsystems writes is registered, and every
\* built-in system is among them (top.c).
LEMMA SystemsAreRegistered ==
    /\ AllSystems \in Seq(DOMAIN system_map)
    /\ \A name \in DOMAIN Builtin : \E i \in DOMAIN AllSystems : AllSystems[i] = name
<1>1. default_systems \in Seq(DOMAIN Builtin)
  BY BuiltinIs, DefaultedIs DEF default_systems
<1>2. \A name \in DOMAIN Builtin : \E i \in 1 .. Len(default_systems) : default_systems[i] = name
  BY BuiltinIs, DefaultedIs DEF default_systems
<1>3. /\ Prepend \in Seq(DOMAIN system_map) /\ default_systems \in Seq(DOMAIN system_map)
      /\ Len(default_systems) \in Nat /\ Len(Prepend) \in Nat
  BY <1>1, SystemMapIs, ExternalAssumption
<1> HIDE DEF default_systems
<1>4. AllSystems \in Seq(DOMAIN system_map)
  BY <1>3 DEF AllSystems
<1>5. ASSUME NEW name \in DOMAIN Builtin PROVE \E i \in DOMAIN AllSystems : AllSystems[i] = name
  <2>1. PICK i \in 1 .. Len(default_systems) : default_systems[i] = name
    BY <1>2
  <2>2. Len(Prepend) + i \in DOMAIN AllSystems /\ AllSystems[Len(Prepend) + i] = default_systems[i]
    BY <1>3, <2>1 DEF AllSystems
  <2> QED
    BY <2>1, <2>2
<1> QED
  BY <1>4, <1>5

-----------------------------------------------------------------------------
\* Components by what they mean for the flow.
Ran == "lightningd:parse_invoice:ran"
Msat == "lightningd:invoice:amount_msat"
Paid == "lightningd:amount"
Error == "lightningd:error"

\* system_matches, of a row.
RowMatches(r, system) ==
    /\ system.required # << >>
    /\ \A i \in DOMAIN system.required : system.required[i] \in DOMAIN r
    /\ \A i \in DOMAIN system.disallowed : system.disallowed[i] \notin DOMAIN r

\* A system that requires one component and disallows one, and a system that
\* requires two, as most built-in ones are registered (systems/*.c).
LEMMA MatchesSmall ==
    ASSUME NEW r, NEW c, NEW d
    PROVE  /\ RowMatches(r, Registered(<<c>>, <<d>>)) <=> c \in DOMAIN r /\ d \notin DOMAIN r
           /\ RowMatches(r, Registered(<<c, d>>, << >>)) <=> c \in DOMAIN r /\ d \in DOMAIN r
<1>1. /\ <<c>> # << >> /\ DOMAIN <<c>> = {1} /\ <<c>>[1] = c
      /\ DOMAIN <<d>> = {1} /\ <<d>>[1] = d
      /\ <<c, d>> # << >> /\ DOMAIN <<c, d>> = {1, 2} /\ <<c, d>>[1] = c /\ <<c, d>>[2] = d
  OBVIOUS
<1>2. RowMatches(r, Registered(<<c>>, <<d>>)) <=> c \in DOMAIN r /\ d \notin DOMAIN r
  BY <1>1, Zenon DEF RowMatches, Registered
<1>3. RowMatches(r, Registered(<<c, d>>, << >>)) <=> c \in DOMAIN r /\ d \in DOMAIN r
  BY <1>1 DEF RowMatches, Registered
<1> QED
  BY <1>2, <1>3

\* The row of an entity that the flow can go on with.
Going(r) ==
    /\ Error \notin DOMAIN r
    /\ SystemsComponent \in DOMAIN r
    /\ r[SystemsComponent] \in SystemsObjects

\* The row of an entity that the flow is done with: failed, or advanced until
\* no system matched.
Stopped(r) ==
    \/ Error \in DOMAIN r /\ SystemsComponent \notin DOMAIN r
    \/ /\ Going(r)
       /\ "error" \in DOMAIN r[SystemsComponent]
       /\ \A i \in DOMAIN AllSystems : ~RowMatches(r, system_map[AllSystems[i]])

\* The notification says of the row what is so.
Current(m, r) ==
    /\ m.system \in DOMAIN system_map
    /\ RowMatches(r, system_map[m.system])
    /\ LET required == system_map[m.system].required
       IN  DOMAIN m.components = {required[k] : k \in DOMAIN required}
    /\ \A c \in DOMAIN m.components : m.components[c] = r[c]
    /\ "current" \in DOMAIN r[SystemsComponent]
    /\ AllSystems[r[SystemsComponent]["current"] + 1] = m.system

\* What differs between two rows is at most the object of the systems.
SameButSystems(r, s) ==
    /\ DOMAIN s = DOMAIN r
    /\ \A c \in DOMAIN r \ {SystemsComponent} : s[c] = r[c]

\* system_matches (ecsys.c) looks at one row only.
LEMMA MatchesRow ==
    ASSUME NEW tab, NEW e, NEW system
    PROVE  system_matches(tab, e, system) <=> RowMatches(Row(tab, e), system)
  BY Zenon DEF system_matches, RowMatches, Attached, ec_get_components

\* ecsys_advance (ecsys.c) of an entity that is going: its row gets a new
\* object, and either none of its systems matches, or the one that is told
\* does.
LEMMA AdvanceGoing ==
    ASSUME NEW tab, NEW e, Going(Row(tab, e))
    PROVE  LET res == ecsys_advance(system_map, tab, e)
               new == Row(res.tab, e)
           IN  /\ \A x : x # e => Row(res.tab, x) = Row(tab, x)
               /\ DOMAIN res.tab \subseteq DOMAIN tab \cup {e}
               /\ Going(new) /\ SameButSystems(Row(tab, e), new)
               /\ \/ res.sent = << >> /\ Stopped(new)
                  \/ \E m : res.sent = <<m>> /\ m.entity = e /\ Current(m, new)
<1> DEFINE r == Row(tab, e)
           old == r[SystemsComponent]
           stops == {i \in DOMAIN AllSystems :
                       \/ AllSystems[i] \notin DOMAIN system_map
                       \/ system_matches(tab, e, system_map[AllSystems[i]])}
           i == CHOOSE k \in stops : \A j \in stops : k <= j
           res == ecsys_advance(system_map, tab, e)
           With(field, v) == [f \in (DOMAIN old \ {field}) \cup {field} |->
                                 IF f = field THEN v ELSE old[f]]
           Set(o) == ec_set_component(tab, e, SystemsComponent, o)
<1>1. /\ old \in SystemsObjects /\ ec_get_component(tab, e, SystemsComponent) = old
      /\ IsObject(old) /\ "systems" \in DOMAIN old /\ old["systems"] = AllSystems
  BY ObjectsAre DEF Going, ec_get_component, Attached, ec_get_components, Row, IsObject, EmptyRow
<1>2. getsystems(tab, e) = AllSystems /\ AllSystems # Null
  BY <1>1, ObjectAssumption DEF getsystems, json_to_array_of_strings
<1>3. \A field, v : setsystems(tab, e, field, v) = Set(With(field, v))
  BY <1>1 DEF setsystems
<1>4. ASSUME NEW o \in SystemsObjects, NEW t, t = Set(o)
      PROVE  /\ \A x : x # e => Row(t, x) = Row(tab, x)
             /\ DOMAIN t \subseteq DOMAIN tab \cup {e}
             /\ Going(Row(t, e)) /\ SameButSystems(r, Row(t, e))
             /\ Row(t, e)[SystemsComponent] = o
             /\ \A system : RowMatches(Row(t, e), system) <=> RowMatches(r, system)
  <2>1. o # Null
    BY ObjectsAre
  <2>2. \A x : Row(t, x) = IF x = e THEN RowSet(r, SystemsComponent, o) ELSE Row(tab, x)
    BY <1>4, RowAfterSet
  <2>3. Row(t, e) = [k \in DOMAIN r |-> IF k = SystemsComponent THEN o ELSE r[k]]
    BY <2>1, <2>2 DEF RowSet, Going
  <2>4. DOMAIN t \subseteq DOMAIN tab \cup {e}
    BY <1>4 DEF ec_set_component
  <2> HIDE DEF r, Set
  <2> QED
    BY <2>2, <2>3, <2>4 DEF Going, SameButSystems, RowMatches, r
<1>5. /\ Len(AllSystems) \in Nat /\ DOMAIN AllSystems = 1 .. Len(AllSystems)
      /\ \A k \in DOMAIN AllSystems : AllSystems[k] \in DOMAIN system_map
  BY SystemsAreRegistered
<1> HIDE DEF Set, With, res, r, old
<1>6. CASE stops = {}
  <2> DEFINE o == With("error", NOT_ADVANCEABLE)
  <2>1. res = ecsys_advance_error(tab, e, NOT_ADVANCEABLE)
    BY <1>2, <1>6 DEF ecsys_advance, res
  <2>2. res.tab = setsystems(tab, e, "error", NOT_ADVANCEABLE) /\ res.sent = << >>
    BY <2>1 DEF ecsys_advance_error
  <2>3. setsystems(tab, e, "error", NOT_ADVANCEABLE) = Set(o)
    BY <1>3
  <2>4. o \in SystemsObjects /\ "error" \in DOMAIN o
    BY <1>1, ObjectsFailed DEF With
  <2>5. \A k \in DOMAIN AllSystems : ~RowMatches(r, system_map[AllSystems[k]])
    BY <1>6, MatchesRow DEF r
  <2> HIDE DEF o
  <2>6. res.tab = Set(o)
    BY <2>2, <2>3
  <2>7. Stopped(Row(res.tab, e))
    BY <1>4, <2>4, <2>5, <2>6, Zenon DEF Stopped
  <2> QED
    BY <1>4, <2>2, <2>4, <2>6, <2>7, ZenonT(30) DEF res, r
<1>7. CASE stops # {}
  <2>1. stops \subseteq Nat
    BY <1>5
  <2>2. \E k \in stops : \A j \in stops : k <= j
    <3> HIDE DEF stops
    <3> QED
      BY <1>7, <2>1, LeastExists, Zenon
  <2>3. i \in stops
    BY <2>2, Zenon
  <2> DEFINE name == AllSystems[i]
             o == With("current", i - 1)
             tab2 == Set(o)
             msg == Invocation(tab2, e, name, system_map[name])
  <2>4. /\ name \in DOMAIN system_map /\ i \in 1 .. Len(AllSystems)
        /\ RowMatches(r, system_map[name])
    BY <1>5, <2>3, MatchesRow DEF r
  <2>5. res = [code |-> OK, tab |-> setsystems(tab, e, "current", i - 1),
               sent |-> <<Invocation(setsystems(tab, e, "current", i - 1), e, name, system_map[name])>>]
    BY <1>2, <1>7, <2>4, Zenon DEF ecsys_advance, res
  <2> HIDE DEF i, stops
  <2>6. setsystems(tab, e, "current", i - 1) = tab2
    BY <1>3
  <2> HIDE DEF tab2
  <2>7. res.tab = tab2 /\ res.sent = <<msg>>
    BY <2>5, <2>6
  <2>8. i - 1 \in 0 .. Len(AllSystems) - 1 /\ (i - 1) + 1 = i
    <3>1. Len(AllSystems) \in Nat /\ i \in 1 .. Len(AllSystems)
      BY <1>5, <2>4
    <3> QED
      BY <3>1
  <2>9. o \in SystemsObjects
    BY <1>1, <2>8, ObjectsAdvanced, Zenon DEF With
  <2>10. "current" \in DOMAIN o /\ o["current"] + 1 = i
    BY <2>8 DEF With
  <2> HIDE DEF o
  <2>11. /\ Going(Row(tab2, e)) /\ SameButSystems(r, Row(tab2, e))
         /\ Row(tab2, e)[SystemsComponent] = o
         /\ RowMatches(Row(tab2, e), system_map[name])
         /\ DOMAIN tab2 \subseteq DOMAIN tab \cup {e}
         /\ \A x : x # e => Row(tab2, x) = Row(tab, x)
    BY <1>4, <2>4, <2>9, Zenon DEF tab2
  <2>12. /\ msg.entity = e /\ msg.system = name
         /\ LET required == system_map[name].required
            IN  /\ DOMAIN msg.components = {required[k] : k \in DOMAIN required}
                /\ \A k \in DOMAIN required :
                      msg.components[required[k]] = ec_get_component(tab2, e, required[k])
    BY DEF Invocation
  <2> HIDE DEF msg
  <2>13. \A c : c \in DOMAIN Row(tab2, e) => ec_get_component(tab2, e, c) = Row(tab2, e)[c]
    BY Zenon DEF ec_get_component, Attached, ec_get_components, Row, EmptyRow
  <2>14. \A c \in DOMAIN msg.components : msg.components[c] = Row(tab2, e)[c]
    BY <2>11, <2>12, <2>13 DEF RowMatches
  <2>15. Current(msg, Row(tab2, e))
    <3>1. "current" \in DOMAIN Row(tab2, e)[SystemsComponent]
          /\ AllSystems[Row(tab2, e)[SystemsComponent]["current"] + 1] = name
      BY <2>10, <2>11
    <3> HIDE DEF name
    <3>2. msg.system = name
      BY <2>12
    <3>3. LET required == system_map[msg.system].required
          IN  DOMAIN msg.components = {required[k] : k \in DOMAIN required}
      BY <2>12
    <3> QED
      BY <2>4, <2>11, <2>14, <3>1, <3>2, <3>3, Zenon DEF Current
  <2> QED
    BY <2>7, <2>11, <2>12, <2>15 DEF res, r
<1> QED
  BY <1>6, <1>7, Zenon

-----------------------------------------------------------------------------
\* The amount of the invoice, once `decode` answered: in the component that
\* parse_invoice_decode_ok wrote, or moved to `lightningd:amount`; there, if
\* nothing else gave an amount.
AmountFollowed(r, req) ==
    Ran \in DOMAIN r /\ Error \notin DOMAIN r /\ "amount_msat" \in DOMAIN req.invoice =>
        \/ Msat \in DOMAIN r /\ (Paid \in DOMAIN r \/ r[Msat] = req.invoice["amount_msat"])
        \/ /\ Msat \notin DOMAIN r
           /\ Paid \in DOMAIN r /\ r[Paid] = req.invoice["amount_msat"]
           /\ Paid \notin DOMAIN req.given

\* The row, by how far the client has come and whether someone holds the
\* entity.
Phased(r, ph, held) ==
    /\ ph = "fresh" => DOMAIN r = {}
    /\ ph = "filled" => DOMAIN r \cap Reserved = {}
    /\ ph = "ready" => Going(r) /\ Ran \notin DOMAIN r
    /\ ph = "started" => IF held THEN Going(r) ELSE Stopped(r)

\* The data of the row.
RowInv(r, req, ph, decoding) ==
    /\ \A c \in DOMAIN r \ {SystemsComponent} : r[c] \in Scalar
    /\ ph # "fresh" /\ Paid \in DOMAIN req.given => Paid \in DOMAIN r
    /\ decoding \/ AmountFollowed(r, req)

\* Someone holds the entity.
Held(w, jb, e) == On(w, e) \/ \E j \in Job : jb[e][j] > 0

\* What holds of one entity.
EntityInv(tab, w, jb, ph, req, e) ==
    /\ Phased(Row(tab, e), ph[e], Held(w, jb, e))
    /\ RowInv(Row(tab, e), req[e], ph[e], jb[e][DecodeJob] > 0)
    /\ \A name \in DOMAIN External :
          jb[e][<<name, "invoked">>] > 0 => RowMatches(Row(tab, e), system_map[name])

\* What holds of all entities and of the notifications, as a predicate of the
\* values of the variables so that it can be stated of the next ones.
FlowInvOf(tab, w, jb, ph, req) ==
    /\ req \in [Entity -> Request]
    /\ DOMAIN tab \subseteq Entity
    /\ \A e \in Entity : EntityInv(tab, w, jb, ph, req, e)
    /\ \A i \in DOMAIN w : Current(w[i], Row(tab, w[i].entity))

\* The second inductive invariant.
FlowInv == FlowInvOf(entity_map, wire, jobs, phase, request)

\* No decided component of row r is lost or changed in row s.
KeepsSettled(r, s) == \A c \in Settled \cap DOMAIN r : c \in DOMAIN s /\ s[c] = r[c]

\* What every step of the flow achieves.
Kept ==
    /\ FlowInvOf(entity_map', wire', jobs', phase', request')
    /\ \A e \in Entity : KeepsSettled(Row(entity_map, e), Row(entity_map', e))

\* FlowInvOf of the next values is FlowInv in the next state (every handler).
LEMMA FlowPrimed == FlowInvOf(entity_map', wire', jobs', phase', request') => FlowInv'
  BY Zenon DEF FlowInv, FlowInvOf, EntityInv, Phased, RowInv, AmountFollowed, Going, Stopped,
                   Current,
         RowMatches, Held, On, Row

\* A handler moves one entity: the invariant holds afterwards if it holds of
\* that entity, its jobs and its notification.
LEMMA OneEntityMoves ==
    ASSUME FlowInv, Queue(wire), Queue(wire'), NEW x \in Entity,
           request' = request, DOMAIN entity_map' \subseteq Entity,
           \A e \in Entity \ {x} :
              /\ Row(entity_map', e) = Row(entity_map, e)
              /\ jobs'[e] = jobs[e] /\ phase'[e] = phase[e]
              /\ On(wire', e) <=> On(wire, e),
           \A i \in DOMAIN wire' : IF wire'[i].entity = x
                                   THEN Current(wire'[i], Row(entity_map', x))
                                   ELSE \E k \in DOMAIN wire : wire'[i] = wire[k],
           EntityInv(entity_map', wire', jobs', phase', request, x),
           KeepsSettled(Row(entity_map, x), Row(entity_map', x))
    PROVE  Kept
<1>1. ASSUME NEW e \in Entity PROVE EntityInv(entity_map', wire', jobs', phase', request, e)
  <2>1. CASE e = x
    BY <2>1
  <2>2. CASE e # x
    <3>1. EntityInv(entity_map, wire, jobs, phase, request, e)
      BY DEF FlowInv, FlowInvOf
    <3>2. Held(wire', jobs', e) <=> Held(wire, jobs, e)
      BY <2>2 DEF Held
    <3>3. /\ Row(entity_map', e) = Row(entity_map, e) /\ phase'[e] = phase[e] /\ jobs'[e] = jobs[e]
      BY <2>2
    <3>4. Held(wire', jobs', e) \in BOOLEAN /\ Held(wire, jobs, e) \in BOOLEAN
      BY DEF Held, On
    <3>5. Phased(Row(entity_map', e), phase'[e], Held(wire', jobs', e))
      BY <3>1, <3>2, <3>3, Zenon DEF EntityInv, Phased
    <3> QED
      BY <3>1, <3>3, <3>5, Zenon DEF EntityInv
  <2> QED
    BY <2>1, <2>2
<1>2. ASSUME NEW i \in DOMAIN wire' PROVE Current(wire'[i], Row(entity_map', wire'[i].entity))
  <2>1. CASE wire'[i].entity = x
    BY <2>1, Zenon
  <2>2. CASE wire'[i].entity # x
    <3>1. PICK k \in DOMAIN wire : wire'[i] = wire[k]
      BY <2>2, Zenon
    <3>2. Current(wire[k], Row(entity_map, wire[k].entity)) /\ wire[k].entity \in Entity \ {x}
      BY <2>2, <3>1 DEF FlowInv, FlowInvOf, Queue
    <3> QED
      BY <3>1, <3>2, Zenon
  <2> QED
    BY <2>1, <2>2, Zenon
<1>3. \A e \in Entity : KeepsSettled(Row(entity_map, e), Row(entity_map', e))
  BY Zenon DEF KeepsSettled
<1>4. request' \in [Entity -> Request]
  BY Zenon DEF FlowInv, FlowInvOf
<1> QED
  BY <1>1, <1>2, <1>3, <1>4, Zenon DEF Kept, FlowInvOf

-----------------------------------------------------------------------------
\* The queue without its head, element by element (ecs_system_notify takes
\* the oldest notification).
LEMMA QueueTail ==
    ASSUME NEW w, Queue(w), w # << >>
    PROVE  /\ \A i \in DOMAIN Tail(w) : \E k \in DOMAIN w : Tail(w)[i] = w[k]
           /\ \A e : e # Head(w).entity => (On(Tail(w), e) <=> On(w, e))
           /\ \E k \in DOMAIN w : w[k] = Head(w)
<1>1. PICK S : w \in Seq(S)
  BY DEF Queue
<1>2. /\ Len(w) \in Nat \ {0} /\ DOMAIN w = 1 .. Len(w)
      /\ Head(w) = w[1] /\ 1 \in DOMAIN w
  BY <1>1
<1>3. /\ DOMAIN Tail(w) = 1 .. Len(w) - 1
      /\ \A i \in DOMAIN Tail(w) : Tail(w)[i] = w[i + 1] /\ i + 1 \in DOMAIN w
  BY <1>1, <1>2
<1>4. ASSUME NEW e, e # Head(w).entity, On(w, e) PROVE On(Tail(w), e)
  <2>1. PICK k \in DOMAIN w : w[k].entity = e
    BY <1>4 DEF On
  <2>2. k # 1 /\ k \in Nat
    BY <1>2, <1>4, <2>1
  <2>3. k - 1 \in DOMAIN Tail(w) /\ k - 1 + 1 = k
    BY <1>2, <1>3, <2>2
  <2>4. Tail(w)[k - 1] = w[k]
    BY <1>3, <2>3
  <2> QED
    BY <2>1, <2>3, <2>4 DEF On
<1>5. ASSUME NEW e, On(Tail(w), e) PROVE On(w, e)
  BY <1>3, <1>5 DEF On
<1> QED
  BY <1>2, <1>3, <1>4, <1>5

\* The queue after run_system appended a notification, element by element.
LEMMA QueueAppended ==
    ASSUME NEW w, Queue(w), NEW m, NEW v, v = w \o <<m>>
    PROVE  /\ \A i \in DOMAIN v : v[i] = m \/ \E k \in DOMAIN w : v[i] = w[k]
           /\ \A e : On(w, e) => On(v, e)
           /\ On(v, m.entity)
<1>1. PICK S : w \in Seq(S)
  BY DEF Queue
<1>2. /\ v \in Seq(S \cup {m})
      /\ DOMAIN w = 1 .. Len(w) /\ Len(w) \in Nat
      /\ DOMAIN v = 1 .. Len(w) + 1
      /\ \A i \in 1 .. Len(w) : v[i] = w[i]
      /\ v[Len(w) + 1] = m
  BY <1>1, Appended
<1> QED
  BY <1>2 DEF On

\* What a handler of entity x leaves in flight: nothing for x, and all that
\* was in flight for the others.
Rest(rest, x) ==
    /\ Queue(rest) /\ ~On(rest, x)
    /\ \A i \in DOMAIN rest : \E k \in DOMAIN wire : rest[i] = wire[k]
    /\ \A e \in Entity \ {x} : On(rest, e) <=> On(wire, e)

\* A handler that a notification reached starts from the rest of the wire.
LEMMA RestTail ==
    ASSUME HolderInv, wire # << >>
    PROVE  Subject \in Entity /\ On(wire, Subject) /\ Rest(Tail(wire), Subject)
  BY QueuePop, QueueTail DEF HolderInv, Subject, Rest

\* A handler of an entity that is not on the wire (the answer of `decode`,
\* payecs_advance) starts from all of it.
LEMMA RestWire ==
    ASSUME HolderInv, NEW x \in Entity, ~On(wire, x)
    PROVE  Rest(wire, x)
  BY DEF HolderInv, Rest

\* Only the row of x is written.
Writes(tab, x) ==
    /\ DOMAIN tab \subseteq Entity
    /\ \A e \in Entity \ {x} : Row(tab, e) = Row(entity_map, e)

\* ec_set_component writes only the row of its entity.
LEMMA SetWrites ==
    ASSUME FlowInv, NEW x \in Entity, NEW c, NEW v
    PROVE  Writes(ec_set_component(entity_map, x, c, v), x)
<1>1. DOMAIN ec_set_component(entity_map, x, c, v) \subseteq DOMAIN entity_map \cup {x}
  BY DEF ec_set_component
<1> QED
  BY <1>1, RowAfterSet DEF Writes, FlowInv, FlowInvOf

\* set_components writes only the row of its entity.
LEMMA SetsWrites ==
    ASSUME FlowInv, NEW x \in Entity, NEW comps
    PROVE  Writes(set_components(entity_map, x, comps), x)
<1>1. DOMAIN set_components(entity_map, x, comps) \subseteq DOMAIN entity_map \cup {x}
  BY DEF set_components
<1> QED
  BY <1>1, RowAfterSets DEF Writes, FlowInv, FlowInvOf

\* The step leaves the hands of other entities alone.
Others(x) == \A e \in Entity \ {x} : jobs'[e] = jobs[e] /\ phase'[e] = phase[e]

\* AdvanceIn, of an entity that is going (ecs_advance).
LEMMA AdvanceInGoing ==
    ASSUME NEW tab, NEW x, NEW rest, AdvanceIn(tab, x, rest), Going(Row(tab, x))
    PROVE  LET new == Row(entity_map', x)
           IN  /\ \A e : e # x => Row(entity_map', e) = Row(tab, e)
               /\ DOMAIN entity_map' \subseteq DOMAIN tab \cup {x}
               /\ Going(new) /\ SameButSystems(Row(tab, x), new)
               /\ \E sent : /\ wire' = rest \o sent
                            /\ \/ sent = << >> /\ Stopped(new)
                               \/ \E m : sent = <<m>> /\ m.entity = x /\ Current(m, new)
<1> DEFINE res == ecsys_advance(system_map, tab, x)
<1>1. entity_map' = res.tab /\ wire' = rest \o res.sent
  BY Zenon DEF AdvanceIn
<1>2. /\ \A e : e # x => Row(res.tab, e) = Row(tab, e)
      /\ DOMAIN res.tab \subseteq DOMAIN tab \cup {x}
      /\ Going(Row(res.tab, x)) /\ SameButSystems(Row(tab, x), Row(res.tab, x))
      /\ \/ res.sent = << >> /\ Stopped(Row(res.tab, x))
         \/ \E m : res.sent = <<m>> /\ m.entity = x /\ Current(m, Row(res.tab, x))
  BY AdvanceGoing
<1> HIDE DEF res
<1> QED
  BY <1>1, <1>2, Zenon

\* A handler that writes the row of x and advances x keeps the invariant if
\* the row it wrote is going (ecs_advance_done, payecs_advance).
LEMMA AdvanceKeeps ==
    ASSUME FlowInv, HolderInv, HolderInv', NEW x \in Entity, NEW tab, NEW rest,
           Rest(rest, x), Writes(tab, x), AdvanceIn(tab, x, rest),
           Others(x), phase'[x] = "started", \A j \in Job : jobs'[x][j] = 0, request' = request,
           Going(Row(tab, x)), RowInv(Row(tab, x), request[x], "started", FALSE),
           KeepsSettled(Row(entity_map, x), Row(tab, x))
    PROVE  Kept
<1> DEFINE r == Row(tab, x)
           new == Row(entity_map', x)
<1>1. PICK sent : wire' = rest \o sent /\ \/ sent = << >> /\ Stopped(new)
                                          \/ \E m : sent = <<m>> /\ m.entity = x /\ Current(m, new)
  <2>1. \E sent : wire' = rest \o sent /\ \/ sent = << >> /\ Stopped(new)
                                          \/ \E m : sent = <<m>> /\ m.entity = x /\ Current(m, new)
    BY AdvanceInGoing, SMTT(30)
  <2> QED
    BY <2>1, Zenon
<1>2. /\ \A e : e # x => Row(entity_map', e) = Row(tab, e)
      /\ DOMAIN entity_map' \subseteq DOMAIN tab \cup {x}
      /\ Going(new) /\ SameButSystems(r, new)
  BY AdvanceInGoing
<1>3. Queue(wire) /\ Queue(wire')
  BY Zenon DEF HolderInv, Queue
<1>4. /\ IF On(wire', x) THEN TRUE ELSE Stopped(new)
      /\ \A e \in Entity \ {x} : On(wire', e) <=> On(wire, e)
      /\ \A i \in DOMAIN wire' : IF wire'[i].entity = x THEN Current(wire'[i], new)
                                 ELSE \E k \in DOMAIN wire : wire'[i] = wire[k]
  <2>1. CASE sent = << >> /\ Stopped(new)
    <3>1. wire' = rest
      BY <1>1, <2>1, NothingAppended, Zenon DEF Rest, Queue
    <3> QED
      BY <2>1, <3>1, Zenon DEF Rest, On
  <2>2. CASE \E m : sent = <<m>> /\ m.entity = x /\ Current(m, new)
    <3>1. PICK m : sent = <<m>> /\ m.entity = x /\ Current(m, new)
      BY <2>2, ZenonT(30)
    <3>2. wire' = rest \o <<m>> /\ Queue(rest) /\ ~On(rest, m.entity) /\ m.entity \in Entity
      BY <1>1, <3>1 DEF Rest
    <3>3. On(wire', x) /\ \A e : On(wire', e) => On(rest, e) \/ e = x
      BY <3>1, <3>2, QueueAppended, QueuePush, Zenon
    <3>4. \A e : On(rest, e) => On(wire', e)
      BY <3>2, QueueAppended, ZenonT(30)
    <3>5. \A i \in DOMAIN wire' : wire'[i] = m \/ \E k \in DOMAIN rest : wire'[i] = rest[k]
      BY <3>2, QueueAppended, SMTT(30)
    <3>6. \A k \in DOMAIN rest : rest[k].entity # x
      BY DEF Rest, On
    <3>7. \A e \in Entity \ {x} : On(wire', e) <=> On(wire, e)
      BY <3>3, <3>4, Zenon DEF Rest
    <3>8. ASSUME NEW i \in DOMAIN wire'
          PROVE  IF wire'[i].entity = x THEN Current(wire'[i], new)
                 ELSE \E k \in DOMAIN wire : wire'[i] = wire[k]
      <4>1. CASE wire'[i] = m
        BY <3>1, <4>1, Zenon
      <4>2. CASE \E k \in DOMAIN rest : wire'[i] = rest[k]
        BY <3>6, <4>2, Zenon DEF Rest
      <4> QED
        BY <3>5, <4>1, <4>2, Zenon
    <3> QED
      BY <3>3, <3>7, <3>8, Zenon
  <2> QED
    BY <1>1, <2>1, <2>2, Zenon
<1>5. RowInv(new, request[x], "started", FALSE)
  BY <1>2, Zenon DEF SameButSystems, RowInv, AmountFollowed, SystemsComponent,
                           Ran, Error, Msat, Paid
<1>6. KeepsSettled(Row(entity_map, x), new)
  <2>1. SystemsComponent \notin Settled
    BY DefaultedIs, Zenon DEF Settled, SystemsComponent
  <2> QED
    BY <1>2, <2>1, ZenonT(30) DEF KeepsSettled, SameButSystems
<1>7. EntityInv(entity_map', wire', jobs', phase', request, x)
  <2>1. DecodeJob \in Job /\ \A name \in DOMAIN External : <<name, "invoked">> \in Job
    BY JobsAre, ZenonT(30)
  <2>2. /\ ~(jobs'[x][DecodeJob] > 0)
        /\ \A name \in DOMAIN External : ~(jobs'[x][<<name, "invoked">>] > 0)
    BY <2>1
  <2>3. Phased(new, "started", Held(wire', jobs', x))
    BY <1>2, <1>4, Zenon DEF Phased, Held
  <2>4. RowInv(new, request[x], "started", jobs'[x][DecodeJob] > 0)
    BY <1>5, Zenon DEF RowInv
  <2> QED
    BY <2>2, <2>3, <2>4, Zenon DEF EntityInv
<1>8. DOMAIN entity_map' \subseteq Entity
  BY <1>2, Zenon DEF Writes
<1>9. \A e \in Entity \ {x} : /\ Row(entity_map', e) = Row(entity_map, e)
                              /\ jobs'[e] = jobs[e] /\ phase'[e] = phase[e]
                              /\ On(wire', e) <=> On(wire, e)
  BY <1>2, <1>4, Zenon DEF Writes, Others
<1> HIDE DEF new, r
<1> QED
  BY <1>3, <1>4, <1>6, <1>7, <1>8, <1>9, OneEntityMoves, ZenonT(30) DEF new

-----------------------------------------------------------------------------
\* What a handler finds when its notification arrives: the entity started, is
\* held by no job, is going, and is as the notification says
\* (payecs_system_notification).
LEMMA AtDelivery ==
    ASSUME FlowInv, HolderInv, wire # << >>
    PROVE  LET x == Subject
               r == Row(entity_map, x)
           IN  /\ x \in Entity /\ phase[x] = "started" /\ \A j \in Job : jobs[x][j] = 0
               /\ Going(r) /\ RowInv(r, request[x], "started", FALSE)
               /\ Current(Head(wire), r) /\ Rest(Tail(wire), x)
               /\ request[x] \in Request
<1> DEFINE x == Subject
           r == Row(entity_map, x)
<1>1. x \in Entity /\ On(wire, x) /\ Rest(Tail(wire), x)
  BY RestTail
<1>2. phase[x] = "started" /\ \A j \in Job : jobs[x][j] = 0
  BY <1>1 DEF HolderInv, Started
<1>3. EntityInv(entity_map, wire, jobs, phase, request, x) /\ request[x] \in Request
  BY <1>1, Zenon DEF FlowInv, FlowInvOf
<1>4. Current(Head(wire), r)
  BY QueueTail DEF HolderInv, FlowInv, FlowInvOf, Subject
<1>5. DecodeJob \in Job
  BY JobsAre, Zenon
<1>6. ~(jobs[x][DecodeJob] > 0) /\ Held(wire, jobs, x)
  BY <1>1, <1>2, <1>5 DEF Held
<1> HIDE DEF x
<1>7. Going(r)
  BY <1>2, <1>3, <1>6, ZenonT(30) DEF EntityInv, Phased
<1>8. RowInv(r, request[x], "started", FALSE)
  BY <1>2, <1>3, <1>6, Zenon DEF EntityInv, RowInv
<1> QED
  BY <1>1, <1>2, <1>3, <1>4, <1>7, <1>8, Zenon DEF x

\* What a job that holds an entity finds (the answer of `decode`, a plugin
\* at work): nobody else holds it, and it is going.
LEMMA AtWorkOn ==
    ASSUME FlowInv, HolderInv, NEW x \in Entity, NEW j \in Job, jobs[x][j] > 0
    PROVE  LET r == Row(entity_map, x)
           IN  /\ phase[x] = "started" /\ ~On(wire, x) /\ Rest(wire, x)
               /\ jobs[x][j] = 1 /\ \A k \in Job \ {j} : jobs[x][k] = 0
               /\ Going(r) /\ RowInv(r, request[x], "started", j = DecodeJob)
               /\ \A name \in DOMAIN External :
                     j = <<name, "invoked">> => RowMatches(r, system_map[name])
               /\ request[x] \in Request
<1> DEFINE r == Row(entity_map, x)
<1>1. /\ phase[x] = "started" /\ ~On(wire, x)
      /\ jobs[x][j] = 1 /\ \A k \in Job \ {j} : jobs[x][k] = 0
  BY Counted, Zenon DEF HolderInv, Started
<1>2. EntityInv(entity_map, wire, jobs, phase, request, x) /\ request[x] \in Request
  BY DEF FlowInv, FlowInvOf
<1>3. Held(wire, jobs, x)
  BY DEF Held
<1>4. Going(r)
  BY <1>1, <1>2, <1>3, Zenon DEF EntityInv, Phased
<1>5. DecodeJob \in Job
  BY JobsAre, Zenon
<1>6. jobs[x][DecodeJob] > 0 <=> j = DecodeJob
  BY <1>1, <1>5
<1>7. RowInv(r, request[x], "started", j = DecodeJob)
  BY <1>1, <1>2, <1>6, ZenonT(30) DEF EntityInv, RowInv
<1>8. \A name \in DOMAIN External : j = <<name, "invoked">> => RowMatches(r, system_map[name])
  BY <1>2 DEF EntityInv
<1> QED
  BY <1>1, <1>2, <1>4, <1>7, <1>8, RestWire, Zenon

-----------------------------------------------------------------------------
\* The handlers that end in ecs_advance_done.
LEMMA DeliveryAdvances ==
    ASSUME FlowInv, HolderInv, HolderInv', wire # << >>, NEW tab, NEW x, x = Subject,
           ecs_advance_done(tab, x), UNCHANGED <<jobs, phase, request>>, Writes(tab, x),
           Going(Row(tab, x)), RowInv(Row(tab, x), request[x], "started", FALSE),
           KeepsSettled(Row(entity_map, x), Row(tab, x))
    PROVE  Kept
<1>1. AdvanceIn(tab, x, Tail(wire))
  BY DEF ecs_advance_done
<1>2. /\ x \in Entity /\ Rest(Tail(wire), x) /\ Others(x)
      /\ phase'[x] = "started" /\ \A j \in Job : jobs'[x][j] = 0
  BY AtDelivery DEF Others
<1> QED
  BY <1>1, <1>2, AdvanceKeeps, Zenon

\* A job that begins is the only one of its entity (parse_invoice, a plugin
\* that is told).
LEMMA JobBegins ==
    ASSUME jobs \in [Entity -> [Job -> Nat]], NEW x \in Entity, NEW j \in Job, Begin(x, j),
           \A k \in Job : jobs[x][k] = 0
    PROVE  /\ \A e \in Entity \ {x} : jobs'[e] = jobs[e]
           /\ jobs'[x][j] = 1 /\ \A k \in Job \ {j} : jobs'[x][k] = 0
<1>1. jobs' = [jobs EXCEPT ![x] = [jobs[x] EXCEPT ![j] = jobs[x][j] + 1]]
  BY DEF Begin
<1> QED
  BY <1>1

\* The handlers that leave the entity to a job: parse_invoice until `decode`
\* is answered, a system of another plugin.
LEMMA DeliveryBegins ==
    ASSUME FlowInv, HolderInv, HolderInv', wire # << >>, NEW tab, NEW x, x = Subject,
           ecs_done(tab), NEW j \in Job, Begin(x, j), UNCHANGED <<phase, request>>, Writes(tab, x),
           Going(Row(tab, x)), RowInv(Row(tab, x), request[x], "started", j = DecodeJob),
           \A name \in DOMAIN External :
              j = <<name, "invoked">> => RowMatches(Row(tab, x), system_map[name]),
           KeepsSettled(Row(entity_map, x), Row(tab, x))
    PROVE  Kept
<1>1. entity_map' = tab /\ wire' = Tail(wire)
  BY Zenon DEF ecs_done
<1>2. /\ x \in Entity /\ Rest(Tail(wire), x) /\ phase'[x] = "started"
      /\ \A k \in Job : jobs[x][k] = 0
  BY AtDelivery, Zenon
<1>3. /\ \A e \in Entity \ {x} : jobs'[e] = jobs[e]
      /\ jobs'[x][j] = 1 /\ \A k \in Job \ {j} : jobs'[x][k] = 0
  BY <1>2, JobBegins, Zenon DEF HolderInv
<1>4. DecodeJob \in Job /\ \A name \in DOMAIN External : <<name, "invoked">> \in Job
  BY JobsAre, Zenon
<1>5. Phased(Row(entity_map', x), "started", Held(wire', jobs', x))
  <2>1. Held(wire', jobs', x)
    BY <1>3, Counted, Zenon DEF Held
  <2> QED
    BY <1>1, <2>1, ZenonT(30) DEF Phased
<1>6. jobs'[x][DecodeJob] > 0 <=> j = DecodeJob
  BY <1>3, <1>4
<1>7. RowInv(Row(entity_map', x), request[x], phase'[x], jobs'[x][DecodeJob] > 0)
  BY <1>1, <1>2, <1>6, ZenonT(30) DEF RowInv
<1>8. \A name \in DOMAIN External :
         jobs'[x][<<name, "invoked">>] > 0 => RowMatches(Row(entity_map', x), system_map[name])
  BY <1>1, <1>3, <1>4
<1>9. EntityInv(entity_map', wire', jobs', phase', request, x)
  BY <1>2, <1>5, <1>7, <1>8, Zenon DEF EntityInv
<1>10. Queue(wire) /\ Queue(wire')
  BY <1>1, <1>2, Zenon DEF HolderInv, Rest
<1>11. \A i \in DOMAIN wire' : wire'[i].entity # x /\ \E k \in DOMAIN wire : wire'[i] = wire[k]
  BY <1>1, <1>2, Zenon DEF Rest, On
<1>12. \A e \in Entity \ {x} : /\ Row(entity_map', e) = Row(entity_map, e)
                               /\ jobs'[e] = jobs[e] /\ phase'[e] = phase[e]
                               /\ On(wire', e) <=> On(wire, e)
  BY <1>1, <1>2, <1>3, Zenon DEF Rest, Writes
<1> QED
  BY <1>1, <1>2, <1>9, <1>10, <1>11, <1>12, OneEntityMoves, ZenonT(30) DEF Writes

\* The handlers that fail the payment: `lightningd:error` attached,
\* `lightningd:systems` detached.
LEMMA FailureKeeps ==
    ASSUME FlowInv, HolderInv, NEW x \in Entity,
           entity_map' = set_components(entity_map, x, Failure),
           Rest(wire', x), Others(x), phase'[x] = "started", \A j \in Job : jobs'[x][j] = 0,
           request' = request,
           Going(Row(entity_map, x)), RowInv(Row(entity_map, x), request[x], "started", TRUE)
    PROVE  Kept
<1> DEFINE r == Row(entity_map, x)
           new == Row(entity_map', x)
<1>1. Writes(entity_map', x) /\ new = RowSets(r, Failure)
  <2>1. Writes(set_components(entity_map, x, Failure), x)
    BY SetsWrites
  <2>2. Row(set_components(entity_map, x, Failure), x) = RowSets(r, Failure)
    BY RowAfterSets, SMTT(30)
  <2> QED
    BY <2>1, <2>2, Zenon
<1>2. /\ DOMAIN Failure = {Error, SystemsComponent} /\ Error # SystemsComponent
      /\ Failure[Error] = ErrorObject /\ Failure[SystemsComponent] = Null
      /\ ErrorObject \in Scalar /\ ErrorObject # Null
  BY DataAssumption, ScalarAssumption DEF Failure, ++, Single, Error, SystemsComponent
<1> HIDE DEF r, new
<1>3. /\ DOMAIN new = (DOMAIN r \cup {Error}) \ {SystemsComponent}
      /\ new[Error] = ErrorObject
      /\ \A c \in DOMAIN r \ {Error, SystemsComponent} : new[c] = r[c]
  BY <1>1, <1>2, Zenon DEF RowSets
<1>4. Stopped(new) /\ ~Going(new)
  BY <1>3, <1>2, Zenon DEF Stopped, Going
<1>5. RowInv(new, request[x], "started", FALSE)
  <2>1. Paid \notin {Error, SystemsComponent}
    BY Zenon DEF Paid, Error, SystemsComponent
  <2> QED
    BY <1>2, <1>3, <2>1, Zenon DEF RowInv, AmountFollowed, r
<1>6. KeepsSettled(r, new)
  <2>1. SystemsComponent \notin Settled
    BY DefaultedIs, Zenon DEF Settled, SystemsComponent
  <2> QED
    BY <1>3, <2>1, Zenon DEF KeepsSettled, Going, r
<1>7. DecodeJob \in Job /\ \A name \in DOMAIN External : <<name, "invoked">> \in Job
  BY JobsAre, ZenonT(30)
<1>8. ~(jobs'[x][DecodeJob] > 0) /\ ~Held(wire', jobs', x)
      /\ \A name \in DOMAIN External : ~(jobs'[x][<<name, "invoked">>] > 0)
  BY <1>7, Counted, Zenon DEF Rest, Held
<1>9. RowInv(new, request[x], "started", jobs'[x][DecodeJob] > 0)
  BY <1>5, <1>8, ZenonT(30) DEF RowInv
<1>10. Phased(new, "started", Held(wire', jobs', x))
  BY <1>4, <1>8 DEF Phased
<1>11. EntityInv(entity_map', wire', jobs', phase', request, x)
  BY <1>8, <1>9, <1>10, Zenon DEF EntityInv, new
<1>12. Queue(wire) /\ Queue(wire')
  BY Zenon DEF HolderInv, Rest
<1>13. \A i \in DOMAIN wire' : wire'[i].entity # x /\ \E k \in DOMAIN wire : wire'[i] = wire[k]
  BY DEF Rest, On
<1>14. \A e \in Entity \ {x} : /\ Row(entity_map', e) = Row(entity_map, e)
                               /\ jobs'[e] = jobs[e] /\ phase'[e] = phase[e]
                               /\ On(wire', e) <=> On(wire, e)
  BY <1>1, Zenon DEF Rest, Writes, Others
<1> QED
  BY <1>1, <1>6, <1>11, <1>12, <1>13, <1>14, OneEntityMoves, Zenon DEF Writes, new, r

-----------------------------------------------------------------------------
\* A system attaches a component: if it is not one that the flow hangs on,
\* and not one that was decided, the row is as good as before.
LEMMA RowGains ==
    ASSUME NEW r, NEW req, NEW c, NEW v \in Scalar, NEW decoding \in BOOLEAN,
           Going(r), RowInv(r, req, "started", decoding),
           c \notin {SystemsComponent, Error, Msat, Paid}, c = Ran => decoding,
           c \in Settled => c \notin DOMAIN r
    PROVE  /\ Going(RowSet(r, c, v)) /\ RowInv(RowSet(r, c, v), req, "started", decoding)
           /\ KeepsSettled(r, RowSet(r, c, v))
<1> DEFINE new == RowSet(r, c, v)
<1>1. new = [k \in DOMAIN r \cup {c} |-> IF k = c THEN v ELSE r[k]]
  BY ScalarAssumption DEF RowSet
<1> HIDE DEF new
<1>2. Going(new)
  BY <1>1 DEF Going
<1>3. KeepsSettled(r, new)
  BY <1>1 DEF KeepsSettled
<1>4. \A k \in DOMAIN new \ {SystemsComponent} : new[k] \in Scalar
  BY <1>1 DEF RowInv
<1>5. decoding \/ AmountFollowed(new, req)
  BY <1>1 DEF RowInv, AmountFollowed
<1>6. Paid \in DOMAIN req.given => Paid \in DOMAIN new
  BY <1>1 DEF RowInv
<1>7. RowInv(new, req, "started", decoding)
  BY <1>4, <1>5, <1>6 DEF RowInv
<1> QED
  BY <1>2, <1>3, <1>7 DEF new

\* A handler that attaches one component and advances (nonce.c, defaulter.c,
\* system_promote_invoice_type).
LEMMA GainAdvances ==
    ASSUME FlowInv, HolderInv, HolderInv', wire # << >>, NEW c, NEW v \in Scalar,
           ecs_advance_done(ec_set_component(entity_map, Subject, c, v), Subject),
           UNCHANGED <<jobs, phase, request>>,
           c \notin {SystemsComponent, Error, Msat, Paid, Ran},
           c \in Settled => c \notin DOMAIN Row(entity_map, Subject)
    PROVE  Kept
<1> DEFINE x == Subject
           tab == ec_set_component(entity_map, x, c, v)
           r == Row(entity_map, x)
<1>1. /\ x \in Entity /\ Going(r) /\ RowInv(r, request[x], "started", FALSE)
  BY AtDelivery, ZenonT(30)
<1>2. Writes(tab, x) /\ Row(tab, x) = RowSet(r, c, v)
  BY <1>1, SetWrites, RowAfterSet
<1>3. /\ Going(RowSet(r, c, v)) /\ RowInv(RowSet(r, c, v), request[x], "started", FALSE)
      /\ KeepsSettled(r, RowSet(r, c, v))
  BY <1>1, RowGains, Zenon
<1>4. ecs_advance_done(tab, x)
  OBVIOUS
<1> HIDE DEF tab, r
<1>5. Going(Row(tab, x)) /\ RowInv(Row(tab, x), request[x], "started", FALSE)
      /\ KeepsSettled(Row(entity_map, x), Row(tab, x))
  BY <1>2, <1>3, Zenon DEF r
<1> HIDE DEF x
<1>6. x = Subject
  BY Zenon DEF x
<1> QED
  BY <1>2, <1>4, <1>5, <1>6, DeliveryAdvances, Zenon

\* A handler that is reached matches (InvocationCurrent, at the head).
LEMMA Matching ==
    ASSUME FlowInv, HolderInv, NEW name, Invoked(name)
    PROVE  /\ wire # << >> /\ name \in DOMAIN system_map
           /\ RowMatches(Row(entity_map, Subject), system_map[name])
  BY AtDelivery, Zenon DEF Invoked, Current

\* generate_nonce (systems/nonce.c): there was no nonce.
LEMMA After_generate_nonce ==
    ASSUME FlowInv, HolderInv, HolderInv', generate_nonce
    PROVE  Kept
<1> DEFINE c == "lightningd:nonce"
<1>1. PICK n \in Nonce : ecs_advance_done(ec_set_component(entity_map, Subject, c, n), Subject)
  BY DEF generate_nonce
<1>2. wire # << >> /\ UNCHANGED <<jobs, phase, request>>
  BY DEF generate_nonce, Invoked
<1>3. n \in Scalar
  BY DataAssumption
<1>4. c \notin DOMAIN Row(entity_map, Subject)
  <2>1. RowMatches(Row(entity_map, Subject), Builtin["lightningd:generate_nonce"])
    BY Matching, SystemMapIs, BuiltinIs DEF generate_nonce
  <2>2. Builtin["lightningd:generate_nonce"] = Registered(<<"lightningd:systems">>, <<c>>)
    BY BuiltinIs
  <2> QED
    BY <2>1, <2>2, MatchesSmall, ZenonT(30)
<1>5. c \notin {SystemsComponent, Error, Msat, Paid, Ran}
  BY Zenon DEF SystemsComponent, Error, Msat, Paid, Ran
<1> HIDE DEF c
<1> QED
  BY <1>1, <1>2, <1>3, <1>4, <1>5, GainAdvances

\* promote_invoice_type (systems/parse_invoice.c).
LEMMA After_promote_invoice_type ==
    ASSUME FlowInv, HolderInv, HolderInv', promote_invoice_type
    PROVE  Kept
<1> DEFINE c == "lightningd:invoice:type:bolt11 invoice"
<1>1. /\ ecs_advance_done(ec_set_component(entity_map, Subject, c, Flag), Subject)
      /\ wire # << >> /\ UNCHANGED <<jobs, phase, request>>
  BY Zenon DEF promote_invoice_type, Invoked
<1>2. Flag \in Scalar
  BY DataAssumption
<1>3. c \notin {SystemsComponent, Error, Msat, Paid, Ran} /\ c \notin Settled
  BY DefaultedIs, Zenon DEF SystemsComponent, Error, Msat, Paid, Ran, Settled
<1> HIDE DEF c
<1> QED
  BY <1>1, <1>2, <1>3, GainAdvances

\* The defaulters (systems/defaulter.c): the component was not attached.
LEMMA After_defaulter ==
    ASSUME FlowInv, HolderInv, HolderInv', NEW name \in DOMAIN Defaulted, defaulter(name)
    PROVE  Kept
<1> DEFINE c == Defaulted[name]
<1>1. /\ ecs_advance_done(ec_set_component(entity_map, Subject, c, DefaultDatum), Subject)
      /\ wire # << >> /\ UNCHANGED <<jobs, phase, request>>
  BY DEF defaulter, Invoked
<1>2. DefaultDatum \in Scalar
  BY DataAssumption
<1>3. c \notin DOMAIN Row(entity_map, Subject)
  <2>1. RowMatches(Row(entity_map, Subject), Builtin[name])
    BY Matching, SystemMapIs, BuiltinIs DEF defaulter
  <2>2. RowMatches(Row(entity_map, Subject), Registered(<<"lightningd:main-payment">>, <<c>>))
    BY <2>1, BuiltinIs
  <2> HIDE DEF c
  <2> QED
    BY <2>2, MatchesSmall, Zenon
<1>4. c \notin {SystemsComponent, Error, Msat, Paid, Ran}
  BY DefaultedIs DEF SystemsComponent, Error, Msat, Paid, Ran
<1> HIDE DEF c
<1> QED
  BY <1>1, <1>2, <1>3, <1>4, GainAdvances, Zenon

\* parse_invoice (systems/parse_invoice.c): the entity waits for `decode`.
LEMMA After_parse_invoice ==
    ASSUME FlowInv, HolderInv, HolderInv', parse_invoice
    PROVE  Kept
<1> DEFINE x == Subject
           tab == ec_set_component(entity_map, x, Ran, Flag)
           r == Row(entity_map, x)
<1>1. /\ wire # << >> /\ ecs_done(tab) /\ Begin(x, DecodeJob) /\ UNCHANGED <<phase, request>>
  BY DEF parse_invoice, Invoked, Ran
<1>2. x \in Entity /\ Going(r) /\ RowInv(r, request[x], "started", FALSE)
  BY <1>1, AtDelivery, Zenon
<1>3. RowInv(r, request[x], "started", TRUE)
  BY <1>2 DEF RowInv
<1>4. Writes(tab, x) /\ Row(tab, x) = RowSet(r, Ran, Flag)
  BY <1>2, SetWrites, RowAfterSet
<1>5. Ran \notin {SystemsComponent, Error, Msat, Paid} /\ Ran \notin Settled /\ Flag \in Scalar
  BY DefaultedIs, DataAssumption DEF SystemsComponent, Error, Msat, Paid, Ran, Settled
<1>6. /\ Going(RowSet(r, Ran, Flag)) /\ RowInv(RowSet(r, Ran, Flag), request[x], "started", TRUE)
      /\ KeepsSettled(r, RowSet(r, Ran, Flag))
  BY <1>2, <1>3, <1>5, RowGains, Zenon
<1>7. DecodeJob \in Job /\ \A name : DecodeJob # <<name, "invoked">>
  BY DEF Job, DecodeJob
<1> HIDE DEF tab, r
<1>8. Going(Row(tab, x)) /\ RowInv(Row(tab, x), request[x], "started", DecodeJob = DecodeJob)
      /\ KeepsSettled(Row(entity_map, x), Row(tab, x))
  BY <1>4, <1>6, Zenon DEF r, RowInv
<1> HIDE DEF x
<1>9. x = Subject
  BY DEF x
<1> QED
  BY <1>1, <1>4, <1>7, <1>8, <1>9, DeliveryBegins, Zenon

\* A system of another plugin is told; the row matches it while it works.
LEMMA After_ExternalInvoked ==
    ASSUME FlowInv, HolderInv, HolderInv', NEW name \in DOMAIN External, ExternalInvoked(name)
    PROVE  Kept
<1> DEFINE x == Subject
           j == <<name, "invoked">>
<1>1. /\ wire # << >> /\ ecs_done(entity_map) /\ Begin(x, j) /\ UNCHANGED <<phase, request>>
  BY DEF ExternalInvoked, Invoked
<1>2. /\ x \in Entity /\ Going(Row(entity_map, x))
      /\ RowInv(Row(entity_map, x), request[x], "started", FALSE)
  BY <1>1, AtDelivery, Zenon
<1>3. RowMatches(Row(entity_map, x), system_map[name])
  BY Matching, Zenon DEF ExternalInvoked
<1>4. j \in Job /\ \A n \in DOMAIN External : j = <<n, "invoked">> => n = name
  BY Zenon DEF Job
<1>5. RowInv(Row(entity_map, x), request[x], "started", j = DecodeJob)
  BY <1>2, Zenon DEF RowInv
<1>6. Writes(entity_map, x) /\ KeepsSettled(Row(entity_map, x), Row(entity_map, x))
  BY Zenon DEF Writes, KeepsSettled, FlowInv, FlowInvOf
<1>7. \A n \in DOMAIN External :
         j = <<n, "invoked">> => RowMatches(Row(entity_map, x), system_map[n])
  BY <1>3, <1>4
<1> HIDE DEF x, j
<1>8. x = Subject
  BY DEF x
<1> QED
  BY <1>1, <1>2, <1>4, <1>5, <1>6, <1>7, <1>8, DeliveryBegins, Zenon

\* invoice_amount_msat (systems/invoice_amount.c): the value passed is still
\* the entity's, so that the amount is moved, and there was no other.
LEMMA After_invoice_amount_msat ==
    ASSUME FlowInv, HolderInv, HolderInv', invoice_amount_msat
    PROVE  Kept
<1> DEFINE x == Subject
           r == Row(entity_map, x)
           v == Passed(Msat)
           comps == Single(Msat, Null) ++ Single(Paid, v)
           tab == set_components(entity_map, x, comps)
           new == Row(tab, x)
<1>1. wire # << >> /\ ecs_advance_done(tab, x) /\ UNCHANGED <<jobs, phase, request>>
  BY DEF invoice_amount_msat, Invoked, Msat, Paid
<1>2. /\ x \in Entity /\ Going(r) /\ RowInv(r, request[x], "started", FALSE)
      /\ Current(Head(wire), r)
  BY <1>1, AtDelivery, Zenon
<1>3. /\ Head(wire).system = "lightningd:invoice_amount_msat"
      /\ system_map["lightningd:invoice_amount_msat"] = Registered(<<Msat>>, <<Paid>>)
  BY SystemMapIs, BuiltinIs DEF invoice_amount_msat, Invoked, Msat, Paid
<1>4. Msat \in DOMAIN r /\ Paid \notin DOMAIN r /\ Head(wire).components[Msat] = r[Msat]
  <2>1. /\ RowMatches(r, Registered(<<Msat>>, <<Paid>>))
        /\ DOMAIN Head(wire).components = {<<Msat>>[k] : k \in DOMAIN <<Msat>>}
        /\ \A c \in DOMAIN Head(wire).components : Head(wire).components[c] = r[c]
    BY <1>2, <1>3 DEF Current, Registered
  <2>2. Msat \in DOMAIN r /\ Paid \notin DOMAIN r
    BY <2>1, MatchesSmall, Zenon
  <2>3. Msat \in {<<Msat>>[k] : k \in DOMAIN <<Msat>>}
    OBVIOUS
  <2> QED
    BY <2>1, <2>2, <2>3, ZenonT(30)
<1>5. Writes(tab, x) /\ new = RowSets(r, comps)
  BY <1>2, SetsWrites, RowAfterSets
<1>6. /\ Msat # Paid /\ Msat # SystemsComponent /\ Paid # SystemsComponent
      /\ Msat # Ran /\ Paid # Ran /\ Msat # Error /\ Paid # Error
      /\ Msat \notin Settled
  BY DefaultedIs DEF Msat, Paid, SystemsComponent, Ran, Error, Settled
<1>7. v = r[Msat] /\ v \in Scalar /\ v # Null
  BY <1>2, <1>4, <1>6, ScalarAssumption, Zenon DEF Passed, RowInv
<1> HIDE DEF r, v
<1>8. /\ DOMAIN comps = {Msat, Paid} /\ comps[Msat] = Null /\ comps[Paid] = v
  BY <1>6 DEF ++, Single
<1> HIDE DEF comps
<1>9. /\ DOMAIN new = (DOMAIN r \cup {Paid}) \ {Msat}
      /\ new[Paid] = v /\ \A c \in DOMAIN r \ {Msat, Paid} : new[c] = r[c]
  BY <1>5, <1>6, <1>7, <1>8, Zenon DEF RowSets
<1> HIDE DEF new
<1>10. Going(new)
  BY <1>2, <1>6, <1>9, SMTT(30) DEF Going
<1>11. KeepsSettled(r, new)
  BY <1>4, <1>6, <1>9 DEF KeepsSettled
<1>12. RowInv(new, request[x], "started", FALSE)
  <2>1. \A c \in DOMAIN new \ {SystemsComponent} : new[c] \in Scalar
    BY <1>2, <1>7, <1>9, Zenon DEF RowInv
  <2>2. Paid \in DOMAIN new /\ Msat \notin DOMAIN new /\ Paid \notin DOMAIN request[x].given
    BY <1>2, <1>4, <1>6, <1>9, ZenonT(30) DEF RowInv
  <2>3. AmountFollowed(new, request[x])
    BY <1>2, <1>4, <1>6, <1>7, <1>9, <2>2 DEF RowInv, AmountFollowed
  <2> QED
    BY <2>1, <2>2, <2>3, Zenon DEF RowInv
<1> HIDE DEF tab
<1>13. Going(Row(tab, x)) /\ RowInv(Row(tab, x), request[x], "started", FALSE)
       /\ KeepsSettled(Row(entity_map, x), Row(tab, x))
  BY <1>10, <1>11, <1>12, Zenon DEF r, new
<1> HIDE DEF x
<1>14. x = Subject
  BY DEF x
<1> QED
  BY <1>1, <1>5, <1>13, <1>14, DeliveryAdvances, Zenon

\* fail_invoice_amount_and_amount (systems/invoice_amount.c).
LEMMA After_fail_invoice_amount_and_amount ==
    ASSUME FlowInv, HolderInv, HolderInv', fail_invoice_amount_and_amount
    PROVE  Kept
<1> DEFINE x == Subject
<1>1. /\ wire # << >> /\ wire' = Tail(wire) /\ UNCHANGED <<jobs, phase, request>>
      /\ entity_map' = set_components(entity_map, x, Failure)
  BY DEF fail_invoice_amount_and_amount, Invoked, ecs_done
<1>2. /\ x \in Entity /\ Going(Row(entity_map, x)) /\ phase[x] = "started"
      /\ RowInv(Row(entity_map, x), request[x], "started", FALSE)
      /\ Rest(Tail(wire), x) /\ \A j \in Job : jobs[x][j] = 0
  BY <1>1, AtDelivery, ZenonT(30)
<1>3. RowInv(Row(entity_map, x), request[x], "started", TRUE)
  BY <1>2, Zenon DEF RowInv
<1>4. Others(x)
  BY <1>1 DEF Others
<1> HIDE DEF x
<1> QED
  BY <1>1, <1>2, <1>3, <1>4, FailureKeeps, Zenon

\* parse_invoice_decode_ng (systems/parse_invoice.c).
LEMMA After_parse_invoice_decode_ng ==
    ASSUME FlowInv, HolderInv, HolderInv', NEW e \in Entity, parse_invoice_decode_ng(e)
    PROVE  Kept
<1>1. /\ End(e, DecodeJob) /\ entity_map' = set_components(entity_map, e, Failure)
      /\ UNCHANGED <<wire, phase, request>>
  BY DEF parse_invoice_decode_ng
<1>2. DecodeJob \in Job /\ jobs[e][DecodeJob] > 0
  BY <1>1 DEF Job, End
<1>3. /\ Rest(wire, e) /\ phase[e] = "started" /\ Going(Row(entity_map, e))
      /\ RowInv(Row(entity_map, e), request[e], "started", DecodeJob = DecodeJob)
  BY <1>2, AtWorkOn, Zenon
<1>4. RowInv(Row(entity_map, e), request[e], "started", TRUE)
  BY <1>3, Zenon DEF RowInv
<1>5. Others(e) /\ \A k \in Job : jobs'[e][k] = 0
  BY <1>1, <1>2, JobEnds, Zenon DEF Others
<1>6. /\ Rest(wire', e) /\ phase'[e] = "started" /\ request' = request
      /\ Going(Row(entity_map, e)) /\ entity_map' = set_components(entity_map, e, Failure)
  BY <1>1, <1>3, Zenon
<1> QED
  BY <1>4, <1>5, <1>6, FailureKeeps, Zenon

\* parse_invoice_decode_ok (systems/parse_invoice.c): every field of the
\* answer goes to a component of its own, the amount among them.
LEMMA After_parse_invoice_decode_ok ==
    ASSUME FlowInv, HolderInv, HolderInv', NEW e \in Entity, parse_invoice_decode_ok(e)
    PROVE  Kept
<1> DEFINE fields == request[e].invoice
           comps == [c \in {InvoiceComponent[f] : f \in DOMAIN fields} |->
                       fields[CHOOSE f \in DOMAIN fields : InvoiceComponent[f] = c]]
           tab == set_components(entity_map, e, comps)
           r == Row(entity_map, e)
           new == Row(tab, e)
<1>1. /\ End(e, DecodeJob) /\ AdvanceIn(tab, e, wire) /\ UNCHANGED <<phase, request>>
  BY DEF parse_invoice_decode_ok
<1>2. DecodeJob \in Job /\ jobs[e][DecodeJob] > 0
  BY <1>1 DEF Job, End
<1>3. /\ Rest(wire, e) /\ phase[e] = "started" /\ Going(r) /\ request[e] \in Request
      /\ RowInv(r, request[e], "started", DecodeJob = DecodeJob)
  BY <1>2, AtWorkOn, Zenon
<1>4. Others(e) /\ \A k \in Job : jobs'[e][k] = 0
  BY <1>1, <1>2, JobEnds, Zenon DEF Others
<1>5. /\ DOMAIN fields \subseteq DOMAIN InvoiceComponent
      /\ \A f \in DOMAIN fields : fields[f] \in Scalar
  BY <1>3, RequestAssumption, Zenon
<1>6. /\ DOMAIN InvoiceComponent = {"type", "amount_msat", "currency"}
      /\ \A f, g \in DOMAIN InvoiceComponent : InvoiceComponent[f] = InvoiceComponent[g] => f = g
      /\ InvoiceComponent["amount_msat"] = Msat
      /\ \A f \in DOMAIN InvoiceComponent :
            InvoiceComponent[f] \notin Settled \cup Reserved
                                           \cup {SystemsComponent, Error, Ran, Paid}
  BY DefaultedIs DEF InvoiceComponent, Msat, Settled, Reserved, SystemsComponent, Error, Ran, Paid
<1> HIDE DEF fields
<1>7. \A f \in DOMAIN fields :
         (CHOOSE g \in DOMAIN fields : InvoiceComponent[g] = InvoiceComponent[f]) = f
  BY <1>5, <1>6
<1>8. /\ DOMAIN comps = {InvoiceComponent[f] : f \in DOMAIN fields}
      /\ \A f \in DOMAIN fields : comps[InvoiceComponent[f]] = fields[f]
  BY <1>7
<1>9. Writes(tab, e) /\ new = RowSets(r, comps)
  BY SetsWrites, RowAfterSets
<1> HIDE DEF comps, r, tab
<1>10. /\ \A c \in DOMAIN comps : comps[c] \in Scalar /\ comps[c] # Null
       /\ \A c \in DOMAIN comps :
             c \notin Settled \cup Reserved \cup {SystemsComponent, Error, Ran, Paid}
       /\ "amount_msat" \in DOMAIN fields =>
              Msat \in DOMAIN comps /\ comps[Msat] = fields["amount_msat"]
  <2>1. \A c \in DOMAIN comps : comps[c] \in Scalar /\ comps[c] # Null
    BY <1>5, <1>8, ScalarAssumption, SMTT(30)
  <2>2. \A c \in DOMAIN comps :
           c \notin Settled \cup Reserved \cup {SystemsComponent, Error, Ran, Paid}
    BY <1>5, <1>6, <1>8
  <2>3. "amount_msat" \in DOMAIN fields =>
            Msat \in DOMAIN comps /\ comps[Msat] = fields["amount_msat"]
    BY <1>6, <1>8, SMTT(30)
  <2> QED
    BY <2>1, <2>2, <2>3, Zenon
<1>11. /\ DOMAIN new = DOMAIN r \cup DOMAIN comps
       /\ \A c \in DOMAIN new : new[c] = IF c \in DOMAIN comps THEN comps[c] ELSE r[c]
  BY <1>9, <1>10 DEF RowSets
<1> HIDE DEF new
<1>12. Going(new)
  BY <1>3, <1>10, <1>11, Zenon DEF Going
<1>13. KeepsSettled(r, new)
  BY <1>10, <1>11 DEF KeepsSettled
<1>14. RowInv(new, request[e], "started", FALSE)
  <2>1. \A c \in DOMAIN new \ {SystemsComponent} : new[c] \in Scalar
    BY <1>3, <1>10, <1>11, Zenon DEF RowInv
  <2>2. Paid \in DOMAIN request[e].given => Paid \in DOMAIN new
    BY <1>3, <1>11, Zenon DEF RowInv
  <2>3. AmountFollowed(new, request[e])
    BY <1>10, <1>11 DEF AmountFollowed, fields
  <2> QED
    BY <2>1, <2>2, <2>3, Zenon DEF RowInv
<1> QED
  BY <1>1, <1>3, <1>4, <1>9, <1>12, <1>13, <1>14, AdvanceKeeps, ZenonT(30) DEF new, r

\* A plugin is done and calls payecs_advance.
LEMMA After_ExternalAdvances ==
    ASSUME FlowInv, HolderInv, HolderInv', NEW name \in DOMAIN External, NEW e \in Entity,
           ExternalAdvances(name, e)
    PROVE  Kept
<1> DEFINE j == <<name, "written">>
<1>1. End(e, j) /\ AdvanceIn(entity_map, e, wire) /\ UNCHANGED <<phase, request>>
  BY DEF ExternalAdvances, payecs_advance
<1>2. j \in Job /\ jobs[e][j] > 0 /\ j # DecodeJob
  BY <1>1 DEF Job, End, DecodeJob
<1> HIDE DEF j
<1>3. /\ Rest(wire, e) /\ phase[e] = "started" /\ Going(Row(entity_map, e))
      /\ RowInv(Row(entity_map, e), request[e], "started", j = DecodeJob)
  BY <1>2, AtWorkOn, Zenon
<1>4. RowInv(Row(entity_map, e), request[e], "started", FALSE)
  BY <1>2, <1>3, ZenonT(30) DEF RowInv
<1>5. Others(e) /\ \A k \in Job : jobs'[e][k] = 0
  BY <1>1, <1>2, JobEnds DEF Others
<1>6. Writes(entity_map, e) /\ KeepsSettled(Row(entity_map, e), Row(entity_map, e))
  BY Zenon DEF Writes, KeepsSettled, FlowInv, FlowInvOf
<1> QED
  BY <1>1, <1>3, <1>4, <1>5, <1>6, AdvanceKeeps, Zenon

\* The client calls payecs_advance.
LEMMA After_ClientAdvances ==
    ASSUME FlowInv, HolderInv, HolderInv', NEW e \in Entity, ClientAdvances(e)
    PROVE  Kept
<1>1. /\ phase[e] = "ready" /\ AdvanceIn(entity_map, e, wire) /\ UNCHANGED <<jobs, request>>
      /\ phase'[e] = "started" /\ \A x \in Entity \ {e} : phase'[x] = phase[x]
  BY DEF ClientAdvances, payecs_advance, HolderInv
<1>2. ~On(wire, e) /\ \A j \in Job : jobs[e][j] = 0
  BY <1>1, SMTT(30) DEF HolderInv, Started
<1>3. Rest(wire, e) /\ Others(e)
  BY <1>1, <1>2, RestWire DEF Others
<1>4. EntityInv(entity_map, wire, jobs, phase, request, e)
  BY DEF FlowInv, FlowInvOf
<1>5. Going(Row(entity_map, e)) /\ Ran \notin DOMAIN Row(entity_map, e)
  BY <1>1, <1>4, Zenon DEF EntityInv, Phased
<1>6. RowInv(Row(entity_map, e), request[e], "started", FALSE)
  BY <1>1, <1>4, <1>5, Zenon DEF EntityInv, RowInv, AmountFollowed
<1>7. Writes(entity_map, e) /\ KeepsSettled(Row(entity_map, e), Row(entity_map, e))
  BY Zenon DEF Writes, KeepsSettled, FlowInv, FlowInvOf
<1> QED
  BY <1>1, <1>2, <1>3, <1>5, <1>6, <1>7, AdvanceKeeps, ZenonT(30)

\* A step of one entity that is not on the wire and leaves the wire alone
\* (payecs_setcomponents, payecs_setdefaultsystems).
LEMMA OffWireKeeps ==
    ASSUME FlowInv, HolderInv, NEW x \in Entity, ~On(wire, x), UNCHANGED <<wire, request>>,
           Writes(entity_map', x), Others(x),
           Phased(Row(entity_map', x), phase'[x], \E j \in Job : jobs'[x][j] > 0),
           RowInv(Row(entity_map', x), request[x], phase'[x], jobs'[x][DecodeJob] > 0),
           \A name \in DOMAIN External : ~(jobs'[x][<<name, "invoked">>] > 0),
           KeepsSettled(Row(entity_map, x), Row(entity_map', x))
    PROVE  Kept
<1>1. Held(wire', jobs', x) <=> \E j \in Job : jobs'[x][j] > 0
  BY Zenon DEF Held
<1>2. EntityInv(entity_map', wire', jobs', phase', request, x)
  BY <1>1, Zenon DEF EntityInv, Phased
<1>3. Queue(wire) /\ Queue(wire') /\ request' = request
  BY Zenon DEF HolderInv
<1>4. \A i \in DOMAIN wire' : wire'[i].entity # x /\ \E k \in DOMAIN wire : wire'[i] = wire[k]
  BY Zenon DEF On
<1>5. \A e \in Entity \ {x} : /\ Row(entity_map', e) = Row(entity_map, e)
                              /\ jobs'[e] = jobs[e] /\ phase'[e] = phase[e]
                              /\ On(wire', e) <=> On(wire, e)
  BY Zenon DEF Writes, Others
<1> QED
  BY <1>2, <1>3, <1>4, <1>5, OneEntityMoves, Zenon DEF Writes

\* A plugin calls payecs_setcomponents: it does not touch what is decided,
\* and supplies the amount of an invoice only where there was none.
LEMMA After_ExternalSets ==
    ASSUME FlowInv, HolderInv, HolderInv', NEW name \in DOMAIN External, NEW e \in Entity,
           ExternalSets(name, e)
    PROVE  Kept
<1> DEFINE j == <<name, "invoked">>
           k == <<name, "written">>
           comps == ExternalWrites[name]
           r == Row(entity_map, e)
           new == Row(entity_map', e)
<1>1. /\ j \in Job /\ k \in Job /\ j # k /\ DecodeJob \in Job /\ DecodeJob # j /\ DecodeJob # k
      /\ \A n \in DOMAIN External : <<n, "invoked">> \in Job /\ <<n, "invoked">> # k
  BY DEF Job, DecodeJob
<1>2. /\ jobs[e][j] > 0 /\ UNCHANGED <<wire, phase, request>>
      /\ jobs' = [jobs EXCEPT ![e] = [jobs[e] EXCEPT ![j] = jobs[e][j] - 1,
                                                     ![k] = jobs[e][k] + 1]]
      /\ entity_map' = set_components(entity_map, e, comps)
  BY <1>1, Zenon DEF ExternalSets, HolderInv
<1> HIDE DEF j, k
<1>3. /\ phase[e] = "started" /\ ~On(wire, e)
      /\ jobs[e][j] = 1 /\ \A i \in Job \ {j} : jobs[e][i] = 0
      /\ Going(r) /\ RowInv(r, request[e], "started", j = DecodeJob)
      /\ RowMatches(r, system_map[name])
  <2>1. j = <<name, "invoked">>
    BY DEF j
  <2> QED
    BY <1>1, <1>2, <2>1, AtWorkOn, Zenon
<1>4. /\ \A x \in Entity \ {e} : jobs'[x] = jobs[x]
      /\ jobs'[e][k] = 1 /\ \A i \in Job \ {k} : jobs'[e][i] = 0
  <2>1. jobs \in [Entity -> [Job -> Nat]]
    BY DEF HolderInv
  <2>2. e \in Entity /\ j \in Job /\ k \in Job /\ j # k
    BY <1>1, <1>2, Zenon
  <2>3. jobs[e][j] = 1 /\ \A i \in Job \ {j} : jobs[e][i] = 0
    BY <1>3, Zenon
  <2>4. jobs' = [jobs EXCEPT ![e] = [jobs[e] EXCEPT ![j] = jobs[e][j] - 1,
                                                    ![k] = jobs[e][k] + 1]]
    BY <1>2, Zenon
  <2> QED
    BY <2>1, <2>2, <2>3, <2>4, SMTT(30)
<1>5. Writes(entity_map', e) /\ new = RowSets(r, comps)
  BY <1>2, SetsWrites, RowAfterSets
<1>6. /\ DOMAIN comps \cap (Settled \cup Reserved) = {}
      /\ \A c \in DOMAIN comps : comps[c] \in Scalar \cup {Null}
      /\ Msat \in DOMAIN comps =>
            \E i \in DOMAIN External[name].disallowed : External[name].disallowed[i] = Msat
  BY WritesAssumption, ExternalAssumption, Zenon DEF Msat
<1>7. Msat \in DOMAIN comps => Msat \notin DOMAIN r
  <2>1. system_map[name] = External[name]
    BY SystemMapIs, Zenon
  <2> QED
    BY <1>3, <1>6, <2>1, Zenon DEF RowMatches
<1>8. {SystemsComponent, Error, Ran, Paid} \subseteq Settled \cup Reserved
  BY Zenon DEF SystemsComponent, Error, Ran, Paid, Settled, Reserved
<1> HIDE DEF comps, r, new
<1>9. /\ DOMAIN new = {c \in DOMAIN r \cup DOMAIN comps : c \in DOMAIN comps => comps[c] # Null}
      /\ \A c \in DOMAIN new : new[c] = IF c \in DOMAIN comps THEN comps[c] ELSE r[c]
  BY <1>5, Zenon DEF RowSets
<1>10. \A c \in {SystemsComponent, Error, Ran, Paid} \cup Settled :
          /\ c \in DOMAIN new <=> c \in DOMAIN r
          /\ c \in DOMAIN r => new[c] = r[c]
  BY <1>6, <1>8, <1>9, ZenonT(30)
<1>11. Going(new)
  BY <1>3, <1>10, ZenonT(30) DEF Going
<1>12. KeepsSettled(r, new)
  BY <1>10 DEF KeepsSettled
<1>13. RowInv(new, request[e], "started", FALSE)
  <2>1. \A c \in DOMAIN new \ {SystemsComponent} : new[c] \in Scalar
    BY <1>3, <1>6, <1>9 DEF RowInv
  <2>2. Paid \in DOMAIN request[e].given => Paid \in DOMAIN new
    BY <1>3, <1>10, Zenon DEF RowInv
  <2>3. AmountFollowed(r, request[e])
    BY <1>1, <1>3, Zenon DEF RowInv
  <2>4. Msat \notin DOMAIN comps => (Msat \in DOMAIN new <=> Msat \in DOMAIN r)
                                    /\ (Msat \in DOMAIN r => new[Msat] = r[Msat])
    BY <1>9, Zenon
  <2>5. AmountFollowed(new, request[e])
    BY <1>7, <1>10, <2>3, <2>4, Zenon DEF AmountFollowed
  <2> QED
    BY <2>1, <2>2, <2>5, ZenonT(30) DEF RowInv
<1>14. /\ ~(jobs'[e][DecodeJob] > 0) /\ \E i \in Job : jobs'[e][i] > 0
       /\ \A n \in DOMAIN External : ~(jobs'[e][<<n, "invoked">>] > 0)
  BY <1>1, <1>4
<1>15. RowInv(new, request[e], phase'[e], jobs'[e][DecodeJob] > 0)
  BY <1>2, <1>3, <1>13, <1>14, Zenon DEF RowInv
<1>16. Phased(new, phase'[e], \E i \in Job : jobs'[e][i] > 0)
  BY <1>2, <1>3, <1>11, <1>14, Zenon DEF Phased
<1>17. Others(e)
  BY <1>2, <1>4 DEF Others
<1> QED
  BY <1>2, <1>3, <1>5, <1>12, <1>14, <1>15, <1>16, <1>17, OffWireKeeps, Zenon DEF new, r

\* Nobody holds an entity that its client has not advanced (payecs_advance).
LEMMA BeforeStart ==
    ASSUME FlowInv, HolderInv, NEW e \in Entity, phase[e] # "started"
    PROVE  /\ ~On(wire, e) /\ \A j \in Job : jobs[e][j] = 0
           /\ ~(jobs[e][DecodeJob] > 0)
           /\ \A name \in DOMAIN External : ~(jobs[e][<<name, "invoked">>] > 0)
           /\ EntityInv(entity_map, wire, jobs, phase, request, e)
           /\ request[e] \in Request
<1>1. ~On(wire, e) /\ \A j \in Job : jobs[e][j] = 0
  BY DEF HolderInv, Started
<1>2. DecodeJob \in Job /\ \A name \in DOMAIN External : <<name, "invoked">> \in Job
  BY JobsAre, ZenonT(30)
<1>3. /\ ~(jobs[e][DecodeJob] > 0)
      /\ \A name \in DOMAIN External : ~(jobs[e][<<name, "invoked">>] > 0)
  BY <1>1, <1>2
<1>4. EntityInv(entity_map, wire, jobs, phase, request, e) /\ request[e] \in Request
  BY Zenon DEF FlowInv, FlowInvOf
<1> QED
  BY <1>1, <1>3, <1>4, Zenon

\* The client calls payecs_setcomponents on a new entity.
LEMMA After_ClientFills ==
    ASSUME FlowInv, HolderInv, HolderInv', NEW e \in Entity, ClientFills(e)
    PROVE  Kept
<1> DEFINE given == request[e].given
           r == Row(entity_map, e)
           new == Row(entity_map', e)
<1>1. /\ phase[e] = "fresh" /\ entity_map' = set_components(entity_map, e, given)
      /\ UNCHANGED <<wire, jobs, request>>
      /\ phase'[e] = "filled" /\ \A x \in Entity \ {e} : phase'[x] = phase[x]
  BY DEF ClientFills, HolderInv
<1>2. /\ ~On(wire, e) /\ \A j \in Job : jobs'[e][j] = 0
      /\ \A name \in DOMAIN External : ~(jobs'[e][<<name, "invoked">>] > 0)
      /\ DOMAIN r = {} /\ request[e] \in Request
  BY <1>1, BeforeStart, Zenon DEF EntityInv, Phased
<1>3. /\ DOMAIN given \cap Reserved = {}
      /\ \A c \in DOMAIN given : given[c] \in Scalar /\ given[c] # Null
  BY <1>2, RequestAssumption, ScalarAssumption, ZenonT(30)
<1> HIDE DEF given
<1>4. Writes(entity_map', e) /\ new = RowSets(r, given)
  <2>1. Writes(set_components(entity_map, e, given), e)
    BY SetsWrites, Zenon
  <2>2. Row(set_components(entity_map, e, given), e) = RowSets(Row(entity_map, e), given)
    BY RowAfterSets
  <2>3. entity_map' = set_components(entity_map, e, given)
    BY <1>1
  <2> QED
    BY <2>1, <2>2, <2>3
<1> HIDE DEF r, new
<1>5. DOMAIN new = DOMAIN given /\ \A c \in DOMAIN new : new[c] = given[c]
  BY <1>2, <1>3, <1>4, ZenonT(30) DEF RowSets
<1>6. RowInv(new, request[e], "filled", jobs'[e][DecodeJob] > 0)
  <2>1. Ran \in Reserved
    BY DEF Ran, Reserved
  <2>2. AmountFollowed(new, request[e])
    BY <1>3, <1>5, <2>1, Zenon DEF AmountFollowed
  <2> QED
    BY <1>3, <1>5, <2>2 DEF RowInv, given
<1>7. Phased(new, "filled", \E j \in Job : jobs'[e][j] > 0)
  BY <1>3, <1>5, Zenon DEF Phased
<1>8. KeepsSettled(r, new)
  BY <1>2, Zenon DEF KeepsSettled
<1>9. Others(e)
  BY <1>1 DEF Others
<1> QED
  BY <1>1, <1>2, <1>4, <1>6, <1>7, <1>8, <1>9, OffWireKeeps, ZenonT(30) DEF r, new

\* The client calls payecs_setdefaultsystems.
LEMMA After_ClientSetsSystems ==
    ASSUME FlowInv, HolderInv, HolderInv', NEW e \in Entity, ClientSetsSystems(e)
    PROVE  Kept
<1> DEFINE r == Row(entity_map, e)
           new == Row(entity_map', e)
           o == [f \in {"systems"} |-> AllSystems]
<1>1. /\ phase[e] = "filled"
      /\ entity_map' = payecs_setdefaultsystems(system_map, entity_map, e, Prepend, << >>)
      /\ UNCHANGED <<wire, jobs, request>>
      /\ phase'[e] = "ready" /\ \A x \in Entity \ {e} : phase'[x] = phase[x]
  BY DEF ClientSetsSystems, HolderInv
<1>2. /\ ~On(wire, e) /\ \A j \in Job : jobs'[e][j] = 0
      /\ \A name \in DOMAIN External : ~(jobs'[e][<<name, "invoked">>] > 0)
      /\ DOMAIN r \cap Reserved = {} /\ ~(jobs[e][DecodeJob] > 0)
      /\ RowInv(r, request[e], "filled", jobs[e][DecodeJob] > 0)
  BY <1>1, BeforeStart, Zenon DEF EntityInv, Phased
<1>3. SystemsComponent \notin DOMAIN r /\ Error \notin DOMAIN r /\ Ran \notin DOMAIN r
  BY <1>2, Zenon DEF Reserved, Error, Ran
<1>4. \A i \in DOMAIN Prepend : Prepend[i] \in DOMAIN system_map
  BY ExternalAssumption, SystemMapIs
<1>5. Prepend \o default_systems \o << >> = AllSystems
  <2>1. AllSystems \o << >> = AllSystems
    BY SystemsAreRegistered, NothingAppended
  <2> QED
    BY <2>1 DEF AllSystems
<1>6. entity_map' = setsystems(entity_map, e, "systems", AllSystems)
  <2>1. \A i \in DOMAIN << >> : << >>[i] \in DOMAIN system_map
    OBVIOUS
  <2>2. payecs_setdefaultsystems(system_map, entity_map, e, Prepend, << >>) =
           setsystems(entity_map, e, "systems", Prepend \o default_systems \o << >>)
    BY <1>4, <2>1, Zenon DEF payecs_setdefaultsystems, AllRegistered
  <2> QED
    BY <1>1, <1>5, <2>2, Zenon
<1>7. ec_get_component(entity_map, e, SystemsComponent) = Null
  BY <1>3 DEF ec_get_component, Attached, ec_get_components
<1>8. entity_map' = ec_set_component(entity_map, e, SystemsComponent, o)
  <2>1. ~IsObject(Null)
    BY DEF IsObject
  <2>2. entity_map' = ec_set_component(entity_map, e, SystemsComponent,
            [f \in {} \cup {"systems"} |-> IF f = "systems" THEN AllSystems ELSE Null[f]])
    BY <1>6, <1>7, <2>1 DEF setsystems
  <2>3. [f \in {} \cup {"systems"} |-> IF f = "systems" THEN AllSystems ELSE Null[f]] = o
    OBVIOUS
  <2> QED
    BY <2>2, <2>3
<1>9. o \in SystemsObjects
  BY DEF SystemsObjects
<1>10. o # Null
  BY <1>9, ObjectsAre
<1>11. Writes(entity_map', e) /\ new = RowSet(r, SystemsComponent, o)
  BY <1>8, SetWrites, RowAfterSet
<1> HIDE DEF r, new, o
<1>12. /\ DOMAIN new = DOMAIN r \cup {SystemsComponent} /\ new[SystemsComponent] = o
       /\ \A c \in DOMAIN r : new[c] = r[c]
  BY <1>3, <1>10, <1>11 DEF RowSet
<1>13. Error # SystemsComponent /\ Ran # SystemsComponent
  BY Zenon DEF Error, Ran, SystemsComponent
<1>14. Going(new) /\ Ran \notin DOMAIN new
  BY <1>3, <1>9, <1>12, <1>13 DEF Going
<1>15. RowInv(new, request[e], "ready", jobs'[e][DecodeJob] > 0)
  BY <1>1, <1>2, <1>12, <1>14, ZenonT(30) DEF RowInv, AmountFollowed
<1>16. Phased(new, "ready", \E j \in Job : jobs'[e][j] > 0)
  BY <1>14 DEF Phased
<1>17. KeepsSettled(r, new)
  BY <1>12 DEF KeepsSettled
<1>18. Others(e)
  BY <1>1 DEF Others
<1> QED
  BY <1>1, <1>2, <1>11, <1>15, <1>16, <1>17, <1>18, OffWireKeeps, Zenon DEF r, new

-----------------------------------------------------------------------------
\* Before the first step no entity has a row (ec_new).
LEMMA FlowInitially == Init => FlowInv
<1> SUFFICES ASSUME Init PROVE FlowInv
  OBVIOUS
<1>1. \A e \in Entity : Row(entity_map, e) = EmptyRow /\ DOMAIN EmptyRow = {}
  BY DEF Init, EmptyTable, Row, EmptyRow
<1>2. \A e \in Entity, j \in Job : ~(jobs[e][j] > 0)
  BY DEF Init
<1>3. DecodeJob \in Job /\ \A name \in DOMAIN External : <<name, "invoked">> \in Job
  BY JobsAre, Zenon
<1>4. ASSUME NEW e \in Entity PROVE EntityInv(entity_map, wire, jobs, phase, request, e)
  <2>1. phase[e] = "fresh" /\ ~(jobs[e][DecodeJob] > 0)
        /\ \A name \in DOMAIN External : ~(jobs[e][<<name, "invoked">>] > 0)
    BY <1>2, <1>3, ZenonT(40) DEF Init
  <2>2. /\ RowInv(EmptyRow, request[e], "fresh", FALSE)
        /\ Phased(EmptyRow, "fresh", Held(wire, jobs, e))
    BY <1>1 DEF RowInv, Phased, AmountFollowed
  <2>3. RowInv(EmptyRow, request[e], "fresh", jobs[e][DecodeJob] > 0)
    BY <2>1, <2>2, Zenon DEF RowInv
  <2> QED
    BY <1>1, <2>1, <2>2, <2>3, Zenon DEF EntityInv
<1>5. wire = << >> /\ DOMAIN entity_map = {} /\ request \in [Entity -> Request]
  BY DEF Init, EmptyTable
<1> QED
  BY <1>4, <1>5 DEF FlowInv, FlowInvOf

\* Every step of the flow, handler by handler.
LEMMA FlowStep ==
    ASSUME FlowInv, HolderInv, HolderInv', [Next]_vars
    PROVE  Kept
<1>1. CASE Deliver
  BY Zenon, <1>1, After_generate_nonce, After_parse_invoice, After_promote_invoice_type,
     After_invoice_amount_msat, After_fail_invoice_amount_and_amount, After_defaulter,
     After_ExternalInvoked DEF Deliver
<1>2. ASSUME NEW e \in Entity, DecodeAnswered(e) PROVE Kept
  BY <1>2, After_parse_invoice_decode_ok, After_parse_invoice_decode_ng DEF DecodeAnswered
<1>3. ASSUME NEW e \in Entity, ExternalWorks(e) PROVE Kept
  BY <1>3, After_ExternalSets, After_ExternalAdvances DEF ExternalWorks
<1>4. ASSUME NEW e \in Entity, Client(e) PROVE Kept
  BY <1>4, After_ClientFills, After_ClientSetsSystems, After_ClientAdvances, Zenon DEF Client
<1>5. CASE UNCHANGED vars
  <2>1. /\ entity_map' = entity_map /\ wire' = wire /\ jobs' = jobs /\ phase' = phase
        /\ request' = request
    BY <1>5 DEF vars
  <2>2. \A e \in Entity : KeepsSettled(Row(entity_map, e), Row(entity_map', e))
    BY <2>1 DEF KeepsSettled
  <2> QED
    BY <2>1, <2>2 DEF Kept, FlowInv
<1> QED
  BY <1>1, <1>2, <1>3, <1>4, <1>5, Zenon DEF Next

\* What ec_get_component tells of a row.
LEMMA RowTells ==
    ASSUME NEW e, NEW c
    PROVE  /\ Has(e, c) <=> c \in DOMAIN Row(entity_map, e)
           /\ Get(e, c) = IF c \in DOMAIN Row(entity_map, e) THEN Row(entity_map, e)[c] ELSE Null
<1>1. c \in DOMAIN Row(entity_map, e) => Row(entity_map, e) = entity_map[e]
  BY Zenon DEF Row, EmptyRow
<1> QED
  BY <1>1 DEF Has, Get, ec_get_component, Attached, ec_get_components

\* What payz_generic_getsystems_tal finds in a row that is going.
LEMMA GoingTells ==
    ASSUME NEW e, Going(Row(entity_map, e))
    PROVE  /\ SystemsObject(e) = Row(entity_map, e)[SystemsComponent]
           /\ SystemsObject(e) \in SystemsObjects /\ IsObject(SystemsObject(e))
           /\ "systems" \in DOMAIN SystemsObject(e) /\ SystemsObject(e)["systems"] = AllSystems
           /\ getsystems(entity_map, e) = AllSystems
<1>1. /\ SystemsObject(e) = Row(entity_map, e)[SystemsComponent]
      /\ SystemsObject(e) \in SystemsObjects
  BY RowTells, Zenon DEF Going, SystemsObject
<1>2. /\ IsObject(SystemsObject(e)) /\ "systems" \in DOMAIN SystemsObject(e)
      /\ SystemsObject(e)["systems"] = AllSystems
  BY <1>1, ObjectsAre DEF IsObject
<1>3. AllSystems \notin Scalar
  BY ObjectAssumption
<1>4. ec_get_component(entity_map, e, SystemsComponent) = SystemsObject(e)
  BY DEF SystemsObject, Get
<1> QED
  BY <1>1, <1>2, <1>3, <1>4, Zenon DEF getsystems, json_to_array_of_strings

\* The notifications are current: what run_system wrote still holds.
LEMMA FlowIsCurrent == HolderInv /\ FlowInv => InvocationCurrent
<1> SUFFICES ASSUME HolderInv, FlowInv, NEW i \in DOMAIN wire
             PROVE  LET m == wire[i]
                        s == SystemsObject(m.entity)
                    IN  /\ system_matches(entity_map, m.entity, system_map[m.system])
                        /\ \A c \in DOMAIN m.components : m.components[c] = Get(m.entity, c)
                        /\ IsObject(s) /\ s["systems"][s["current"] + 1] = m.system
  BY Zenon DEF InvocationCurrent
<1> DEFINE m == wire[i]
           e == m.entity
           r == Row(entity_map, e)
<1>1. /\ e \in Entity /\ On(wire, e) /\ Current(m, r)
      /\ EntityInv(entity_map, wire, jobs, phase, request, e)
  BY Zenon DEF HolderInv, Queue, On, FlowInv, FlowInvOf
<1>2. phase[e] = "started" /\ Held(wire, jobs, e)
  BY <1>1 DEF HolderInv, Started, Held
<1> HIDE DEF m
<1>3. Going(r)
  BY <1>1, <1>2, Zenon DEF EntityInv, Phased
<1>4. system_matches(entity_map, e, system_map[m.system])
  BY <1>1, MatchesRow, Zenon DEF Current
<1>5. \A c \in DOMAIN m.components : m.components[c] = Get(e, c)
  <2>1. \A c \in DOMAIN m.components : c \in DOMAIN r /\ m.components[c] = r[c]
    BY <1>1, Zenon DEF Current, RowMatches
  <2> QED
    BY <2>1, RowTells, Zenon
<1>6. /\ IsObject(SystemsObject(e))
      /\ SystemsObject(e)["systems"][SystemsObject(e)["current"] + 1] = m.system
  BY <1>1, <1>3, GoingTells, Zenon DEF Current
<1> QED
  BY <1>4, <1>5, <1>6, Zenon DEF m

\* The row of an entity that nobody holds is stopped (ecsys_advance_error or
\* a failure).
LEMMA HaltedStopped ==
    ASSUME FlowInv, NEW e \in Entity, Halted(e)
    PROVE  Stopped(Row(entity_map, e)) /\ RowInv(Row(entity_map, e), request[e], "started", FALSE)
<1>1. /\ phase[e] = "started" /\ ~Held(wire, jobs, e)
  BY DEF Halted, Started, OnWire, AtWork, Held, On
<1>2. EntityInv(entity_map, wire, jobs, phase, request, e)
  BY DEF FlowInv, FlowInvOf
<1>3. DecodeJob \in Job
  BY JobsAre, ZenonT(30)
<1>4. ~(jobs[e][DecodeJob] > 0)
  BY <1>1, <1>3 DEF Held
<1>5. Stopped(Row(entity_map, e))
  BY <1>1, <1>2, Zenon DEF EntityInv, Phased
<1>6. RowInv(Row(entity_map, e), request[e], "started", FALSE)
  BY <1>1, <1>2, <1>4, Zenon DEF EntityInv, RowInv
<1> QED
  BY <1>5, <1>6, Zenon

\* An entity that nobody holds says why (ecsys_advance_error, Failure).
LEMMA FlowNeverAbandons == HolderInv /\ FlowInv => NeverAbandoned
<1> SUFFICES ASSUME FlowInv, NEW e \in Entity, Halted(e)
    PROVE  \/ Has(e, "lightningd:error") /\ ~Has(e, SystemsComponent)
           \/ /\ ~Has(e, "lightningd:error")
              /\ IsObject(SystemsObject(e))
              /\ "error" \in DOMAIN SystemsObject(e)
              /\ SystemsObject(e)["error"] = NOT_ADVANCEABLE
              /\ \A i \in DOMAIN getsystems(entity_map, e) :
                    ~system_matches(entity_map, e, system_map[getsystems(entity_map, e)[i]])
  BY Zenon DEF NeverAbandoned
<1> DEFINE r == Row(entity_map, e)
<1>1. Stopped(r)
  BY HaltedStopped, Zenon
<1>2. CASE Error \in DOMAIN r /\ SystemsComponent \notin DOMAIN r
  BY <1>2, RowTells, Zenon DEF Error
<1>3. CASE /\ Going(r) /\ "error" \in DOMAIN r[SystemsComponent]
           /\ \A i \in DOMAIN AllSystems : ~RowMatches(r, system_map[AllSystems[i]])
  <2>1. /\ SystemsObject(e) = r[SystemsComponent] /\ SystemsObject(e) \in SystemsObjects
        /\ IsObject(SystemsObject(e)) /\ getsystems(entity_map, e) = AllSystems
    BY <1>3, GoingTells, Zenon
  <2>2. ~Has(e, "lightningd:error")
    BY <1>3, RowTells, Zenon DEF Going, Error
  <2>3. "error" \in DOMAIN SystemsObject(e) /\ SystemsObject(e)["error"] = NOT_ADVANCEABLE
    BY <1>3, <2>1, ObjectsAre, Zenon
  <2>4. \A i \in DOMAIN AllSystems : ~system_matches(entity_map, e, system_map[AllSystems[i]])
    BY <1>3, MatchesRow, Zenon
  <2> QED
    BY <2>1, <2>2, <2>3, <2>4, Zenon
<1> QED
  BY <1>1, <1>2, <1>3, Zenon DEF Stopped

\* The invariants give the types of the variables (ec.c, run_system).
LEMMA FlowTyped == HolderInv /\ FlowInv => TypeOK
<1> SUFFICES ASSUME HolderInv, FlowInv PROVE TypeOK
  OBVIOUS
<1>1. DOMAIN entity_map \subseteq Entity /\ request \in [Entity -> Request]
  BY DEF FlowInv, FlowInvOf
<1>2. ASSUME NEW e \in DOMAIN entity_map, NEW c \in DOMAIN entity_map[e] \ {SystemsComponent}
      PROVE  entity_map[e][c] \in Scalar
  <2>1. Row(entity_map, e) = entity_map[e] /\ e \in Entity
    BY <1>1 DEF Row
  <2> QED
    BY <2>1, Zenon DEF FlowInv, FlowInvOf, EntityInv, RowInv
<1>3. ASSUME NEW i \in DOMAIN wire
      PROVE  /\ wire[i].system \in DOMAIN system_map
             /\ wire[i].entity \in Entity
             /\ LET required == system_map[wire[i].system].required
                IN  DOMAIN wire[i].components = {required[k] : k \in DOMAIN required}
  BY Zenon DEF HolderInv, Queue, FlowInv, FlowInvOf, Current
<1> QED
  BY <1>1, <1>2, <1>3, Zenon DEF HolderInv, TypeOK

\* No built-in system matches a row that stopped, which is to say that each
\* of them has done its work (ecsys_advance, plugins/payz/systems).
LEMMA FlowCompletes == HolderInv /\ FlowInv => HaltedFlowIsComplete
<1> SUFFICES ASSUME FlowInv, NEW e \in Entity, Halted(e), ~Has(e, "lightningd:error")
    PROVE  /\ Has(e, "lightningd:nonce")
           /\ Has(e, "lightningd:main-payment") =>
                 \A name \in DOMAIN Defaulted : Has(e, Defaulted[name])
           /\ Has(e, "lightningd:invoice") => Has(e, "lightningd:parse_invoice:ran")
           /\ ~Has(e, "lightningd:invoice:amount_msat")
           /\ (Has(e, "lightningd:invoice") /\ "amount_msat" \in DOMAIN request[e].invoice) =>
                 /\ Get(e, "lightningd:amount") = request[e].invoice["amount_msat"]
                 /\ "lightningd:amount" \notin DOMAIN request[e].given
  BY Zenon DEF HaltedFlowIsComplete
<1> DEFINE r == Row(entity_map, e)
<1>1. /\ Going(r) /\ \A i \in DOMAIN AllSystems : ~RowMatches(r, system_map[AllSystems[i]])
      /\ RowInv(r, request[e], "started", FALSE)
  BY HaltedStopped, RowTells, ZenonT(30) DEF Stopped, Error
<1>2. \A name \in DOMAIN Builtin : ~RowMatches(r, Builtin[name])
  BY <1>1, SystemsAreRegistered, SystemMapIs, ZenonT(30)
<1> HIDE DEF r
<1>3. ASSUME NEW c, NEW d, ~RowMatches(r, Registered(<<c>>, <<d>>)), c \in DOMAIN r
      PROVE  d \in DOMAIN r
  BY <1>3, MatchesSmall, Zenon
<1>4. \A c, d : ~RowMatches(r, Registered(<<c, d>>, << >>)) /\ c \in DOMAIN r => d \notin DOMAIN r
  BY MatchesSmall, Zenon
<1>5. "lightningd:nonce" \in DOMAIN r
  <2>1. ~RowMatches(r, Registered(<<"lightningd:systems">>, <<"lightningd:nonce">>))
    BY <1>2, BuiltinIs
  <2> QED
    BY <1>1, <1>3, <2>1, Zenon DEF Going, SystemsComponent
<1>6. ASSUME "lightningd:main-payment" \in DOMAIN r, NEW name \in DOMAIN Defaulted
      PROVE  Defaulted[name] \in DOMAIN r
  <2>1. ~RowMatches(r, Registered(<<"lightningd:main-payment">>, <<Defaulted[name]>>))
    BY <1>2, BuiltinIs
  <2> QED
    BY <1>3, <1>6, <2>1, Zenon
<1>7. "lightningd:invoice" \in DOMAIN r => Ran \in DOMAIN r
  <2>1. ~RowMatches(r, Registered(<<"lightningd:invoice">>, <<Ran>>))
    BY <1>2, BuiltinIs DEF Ran
  <2> QED
    BY <1>3, <2>1
<1>8. Msat \notin DOMAIN r
  <2>1. /\ ~RowMatches(r, Registered(<<Msat>>, <<Paid>>))
        /\ ~RowMatches(r, Registered(<<Msat, Paid>>, << >>))
    BY <1>2, BuiltinIs, Zenon DEF Msat, Paid
  <2> QED
    BY <1>3, <1>4, <2>1, Zenon
<1>9. "lightningd:invoice" \in DOMAIN r /\ "amount_msat" \in DOMAIN request[e].invoice =>
         /\ Paid \in DOMAIN r /\ r[Paid] = request[e].invoice["amount_msat"]
         /\ Paid \notin DOMAIN request[e].given
  BY <1>1, <1>7, <1>8, Zenon DEF RowInv, AmountFollowed, Going
<1> QED
  BY <1>5, <1>6, <1>7, <1>8, <1>9, RowTells, Zenon DEF r, Ran, Msat, Paid

\* A step that keeps the rows keeps what ec_get_component returns for the
\* decided components.
LEMMA KeptSettles ==
    Kept => \A e \in Entity, c \in Settled : Has(e, c) => Get(e, c)' = Get(e, c)
<1> SUFFICES ASSUME Kept, NEW e \in Entity, NEW c \in Settled, Has(e, c)
             PROVE  Get(e, c)' = Get(e, c)
  OBVIOUS
<1>1. c \in DOMAIN Row(entity_map, e) /\ Get(e, c) = Row(entity_map, e)[c]
  BY RowTells
<1>2. c \in DOMAIN Row(entity_map', e) /\ Row(entity_map', e)[c] = Row(entity_map, e)[c]
  BY <1>1 DEF Kept, KeepsSettled
<1>3. Get(e, c)' = Row(entity_map', e)[c]
  <2>1. Row(entity_map', e) = entity_map'[e]
    BY <1>2 DEF Row, EmptyRow
  <2> QED
    BY <1>2, <2>1, SMTT(30) DEF Get, ec_get_component, Attached, ec_get_components
<1> QED
  BY <1>1, <1>2, <1>3

\* HolderInv and FlowInv hold in every reachable state of the flow.
LEMMA FlowHolds == Spec => [](HolderInv /\ FlowInv)
<1>1. FlowInv /\ HolderInv /\ HolderInv' /\ [Next]_vars => FlowInv'
  BY FlowStep, FlowPrimed DEF Kept
<1> QED
  BY <1>1, FlowInitially, HolderHolds, PTL DEF Spec

\* What run_system puts in a payecs_system_invoke notification is still so
\* when the handler of the system gets it, for any number of entities and
\* however the handlers interleave.
THEOREM InvocationAlwaysCurrent == Spec => []InvocationCurrent
  BY FlowHolds, FlowIsCurrent, PTL

\* ecsys_advance never drops an entity: one that no handler, job or
\* notification holds has failed (Failure of parse_invoice.c and
\* invoice_amount.c) or has NOT_ADVANCEABLE as its `error` and no system that
\* matches.
THEOREM EntityNeverAbandoned == Spec => []NeverAbandoned
  BY FlowHolds, FlowNeverAbandons, PTL

\* A flow that halts without `lightningd:error` has its nonce, its defaults
\* and its decoded invoice, and moved the amount of the invoice to
\* `lightningd:amount` (plugins/payz/systems); TypeOK holds with it.
THEOREM HaltedFlowComplete == Spec => []FlowComplete
<1>1. HolderInv /\ FlowInv => FlowComplete
  BY FlowTyped, FlowCompletes DEF FlowComplete
<1> QED
  BY <1>1, FlowHolds, PTL

\* No step of the flow changes or detaches a component that is decided: the
\* disallowed components of the built-in systems keep each from running over
\* its own result.
THEOREM DecidedOnce == Spec => SettledOnce
<1> DEFINE Step == \A e \in Entity, c \in Settled : Has(e, c) => Get(e, c)' = Get(e, c)
<1>1. FlowInv /\ HolderInv /\ HolderInv' /\ [Next]_vars => Step
  BY FlowStep, KeptSettles
<1> HIDE DEF Step
<1>2. Spec => [][Step]_vars
  BY <1>1, FlowHolds, PTL DEF Spec
<1> QED
  BY <1>2 DEF Step, SettledOnce
=============================================================================
