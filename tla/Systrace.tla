------------------------------ MODULE Systrace ------------------------------
(***************************************************************************)
(* What the plugin does with a payecs_system_invoke notification           *)
(* (payecs_system_notification): it records it in the system trace         *)
(* (payecs_systrace_add), which keeps the Limit most recent entries, and   *)
(* runs the function of the system if it is a built-in one                 *)
(* (ecs_system_notify).  Any plugin may raise the notification, so the     *)
(* fields it should have may be Missing.                                   *)
(*                                                                         *)
(* The trace entry's time stamp is left out; what the function does is in  *)
(* PayFlow.                                                                *)
(***************************************************************************)
EXTENDS Integers, Sequences

CONSTANTS
    Limit,      \* the initial payecs_systraces_remaining, 100000
    SizeMax,    \* the largest size_t
    MaxSeen,    \* bound: how many well-formed notifications arrive
    Entity,
    Builtin,    \* the systems with a function: name -> required components
    Name,       \* the names that occur, of built-in systems and others
    Component,
    Missing     \* a field that is absent or ill-formed

ASSUME LimitAssumption == Limit \in Nat \ {0} /\ SizeMax \in Nat /\ Limit <= SizeMax

ASSUME NameAssumption == DOMAIN Builtin \subseteq Name

VARIABLES
    payecs_systraces,           \* the list, oldest first
    payecs_systraces_remaining, \* free places, a size_t
    seen,       \* history: every notification with a system and an entity
    executed    \* history: every notification whose function was run

vars == <<payecs_systraces, payecs_systraces_remaining, seen, executed>>

Payload ==
    [system : Name \cup {Missing}, entity : Entity \cup {Missing}, components : SUBSET Component]

WellFormed(p) == p.system # Missing /\ p.entity # Missing

Init ==
    /\ payecs_systraces = << >>
    /\ payecs_systraces_remaining = Limit
    /\ seen = << >>
    /\ executed = << >>

\* Mutant of payecs_systrace_add: dropping an entry gives no place back, and
\* the counter goes below 0.
payecs_systrace_add_NoCredit(p) ==
    LET full == payecs_systraces_remaining = 0
        kept == IF full THEN Tail(payecs_systraces) ELSE payecs_systraces
    IN  IF ~WellFormed(p)
        THEN UNCHANGED <<payecs_systraces, payecs_systraces_remaining>>
        ELSE /\ payecs_systraces' = Append(kept, p)
             /\ payecs_systraces_remaining' = (payecs_systraces_remaining - 1) % (SizeMax + 1)

\* Mutant of payecs_systrace_add: the newest entry is dropped.
payecs_systrace_add_DropsNewest(p) ==
    LET full == payecs_systraces_remaining = 0
        kept == IF full
                THEN SubSeq(payecs_systraces, 1, Len(payecs_systraces) - 1)
                ELSE payecs_systraces
        free == IF full THEN 1 ELSE payecs_systraces_remaining
    IN  IF ~WellFormed(p)
        THEN UNCHANGED <<payecs_systraces, payecs_systraces_remaining>>
        ELSE /\ payecs_systraces' = Append(kept, p)
             /\ payecs_systraces_remaining' = free - 1

\* Mutant of payecs_systrace_add: makes room whenever few places are left.
payecs_systrace_add_DropsEarly(p) ==
    LET full == payecs_systraces_remaining <= 1 /\ payecs_systraces # << >>
        kept == IF full THEN Tail(payecs_systraces) ELSE payecs_systraces
        free == IF full THEN payecs_systraces_remaining + 1 ELSE payecs_systraces_remaining
    IN  IF p.entity = Missing
        THEN UNCHANGED <<payecs_systraces, payecs_systraces_remaining>>
        ELSE IF p.system = Missing
        THEN payecs_systraces' = kept /\ payecs_systraces_remaining' = free
        ELSE /\ payecs_systraces' = Append(kept, p)
             /\ payecs_systraces_remaining' = free - 1

\* Room is made before the rest of the notification is looked at, so one
\* without a system may cost an entry.
payecs_systrace_add(p) ==
    LET full == payecs_systraces_remaining = 0
        kept == IF full THEN Tail(payecs_systraces) ELSE payecs_systraces
        free == IF full THEN payecs_systraces_remaining + 1 ELSE payecs_systraces_remaining
    IN  IF p.entity = Missing
        THEN UNCHANGED <<payecs_systraces, payecs_systraces_remaining>>
        ELSE IF p.system = Missing
        THEN payecs_systraces' = kept /\ payecs_systraces_remaining' = free
        ELSE /\ payecs_systraces' = Append(kept, p)
             /\ payecs_systraces_remaining' = (free - 1) % (SizeMax + 1)

\* Mutant of Runs: a function runs although the entity is not identified.
Runs_Unidentified(p) ==
    /\ p.system \in DOMAIN Builtin
    /\ Builtin[p.system] \subseteq p.components

\* ecs_system_notify runs the function of the system.
Runs(p) ==
    /\ p.system # Missing
    /\ p.system \in DOMAIN Builtin
    /\ p.entity # Missing
    /\ Builtin[p.system] \subseteq p.components

payecs_system_notification(p) ==
    /\ WellFormed(p) => Len(seen) < MaxSeen
    /\ payecs_systrace_add(p)
    /\ seen' = IF WellFormed(p) THEN Append(seen, p) ELSE seen
    /\ executed' = IF Runs(p) THEN Append(executed, p) ELSE executed

\* The answer of the payecs_systrace command.
payecs_systrace(e) ==
    LET OfEntity(p) == p.entity = e IN SelectSeq(payecs_systraces, OfEntity)

Next == \E p \in Payload : payecs_system_notification(p)

Spec == Init /\ [][Next]_vars
-----------------------------------------------------------------------------
\* The trace is a list of well-formed notifications, and its length and the
\* free places add up to the limit: the size_t never wraps below 0.
TypeOK ==
    /\ payecs_systraces \in Seq(Payload)
    /\ seen \in Seq(Payload)
    /\ executed \in Seq(Payload)
    /\ payecs_systraces_remaining \in 0 .. Limit
    /\ Len(payecs_systraces) + payecs_systraces_remaining = Limit

\* doc/PAYECS.md:473-474, "Only the most recent 100,000 System invocations":
\* the trace is the end of the history, without gap and in order.
NewestRetained ==
    LET n == Len(payecs_systraces)
    IN  /\ n <= Len(seen)
        /\ payecs_systraces = SubSeq(seen, Len(seen) - n + 1, Len(seen))

\* Nothing is dropped before the limit is reached, and ill-formed
\* notifications, however many, cost one entry at most: payecs_systrace_add
\* makes room for one that it then does not add.
OneEntryLost ==
    \/ Len(payecs_systraces) = Len(seen)
    \/ Len(payecs_systraces) >= Limit - 1

\* What the payecs_systrace command shows of an entity agrees with what was
\* done to it: no function runs for a notification the trace does not take
\* (payecs_systrace_add and ecs_system_notify check it independently).
ExecutedIsTraced ==
    \A e \in Entity \cup {Missing} :
        LET OfEntity(p) == p.entity = e
            ran   == SelectSeq(executed, OfEntity)
            shown == SelectSeq(payecs_systrace(e), Runs)
            n     == Len(shown)
        IN  /\ n <= Len(ran)
            /\ shown = SubSeq(ran, Len(ran) - n + 1, Len(ran))
            /\ Len(payecs_systraces) = Len(seen) => n = Len(ran)
=============================================================================
