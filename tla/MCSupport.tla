----------------------------- MODULE MCSupport -----------------------------
(***************************************************************************)
(* Instances for TLC of what the plugin is written on: the trace of the    *)
(* systems, the tree of allocations, the timers and the event loop.  They  *)
(* do not touch each other: a behaviour is one of a single component,      *)
(* chosen at the start.  The slots hold the variables of that component    *)
(* (those of Systrace have names of their own), and are Idle for the       *)
(* others.                                                                 *)
(***************************************************************************)
EXTENDS Systrace, TLC

\* One built-in system; the other is of another plugin.
MCBuiltin == [n \in {"nonce"} |-> {"systems"}]

CONSTANT Addr

\* Addresses have no order.
Symmetry == Permutations(Addr)

VARIABLES which, s1, s2, s3, s4, s5, s6

\* Three objects at three addresses, with a destructor each at most.
TA == INSTANCE Tal WITH
    Addr <- Addr, MaxId <- 3, MaxDtors <- 1,
    heap <- s1, children <- s2, ids <- s3, takenarr <- s4, fault <- s5, doomed <- s6

\* Two timers, four levels of two buckets.
TM == INSTANCE Timer WITH
    Bits <- 1, Levels <- 4, MaxTime <- 5, Timers <- {"t1", "t2"},
    timers <- s1, result <- s2

\* Two connections, and one address to wait on.
IO == INSTANCE IoLoop WITH Conn <- {"a", "b"}, Waits <- {"w"}, io <- s1

-----------------------------------------------------------------------------
Idle == <<>>
IdleFrom3 == s3 = Idle /\ s4 = Idle /\ s5 = Idle /\ s6 = Idle
from2 == <<s2, s3, s4, s5, s6>>
from3 == <<s3, s4, s5, s6>>
slots == <<s1, s2, s3, s4, s5, s6>>

MCInit ==
    /\ Init
    /\ \/ which = "systrace" /\ s1 = Idle /\ s2 = Idle /\ IdleFrom3
       \/ which = "tal" /\ TA!Init
       \/ which = "timer" /\ TM!Init /\ IdleFrom3
       \/ which = "io" /\ IO!Init /\ s2 = Idle /\ IdleFrom3

MCNext ==
    /\ UNCHANGED which
    /\ \/ which = "systrace" /\ Next /\ UNCHANGED slots
       \/ /\ UNCHANGED vars
          /\ \/ which = "tal" /\ TA!Next
             \/ which = "timer" /\ TM!Next /\ UNCHANGED from3
             \/ which = "io" /\ IO!Next /\ UNCHANGED from2
             \/ which \in {"tal", "io"} /\ UNCHANGED slots      \* these may stop

MCSpec == MCInit /\ [][MCNext]_<<which, vars, slots>>

-----------------------------------------------------------------------------
\* Nothing is dropped from the trace before its limit is reached, ill-formed
\* notifications cost one entry at most, and no function runs for a notification
\* the trace does not take (plugins/payz/payecs_code.c payecs_systrace_add,
\* ecs_system_notify): see OneEntryLost and ExecutedIsTraced.
TraceExact == which = "systrace" => TypeOK /\ OneEntryLost /\ ExecutedIsTraced

\* Every object is on the list of its parent's children, once, and nothing
\* freed is on a list; whatever destructors do while a tree is freed, nothing is
\* freed twice or used after it was freed; what was freed is gone with all that
\* hung under it and was not stolen in time (ccan/tal/tal.c del_tree); and
\* tal_first and tal_next go over the children of an object.
TalFreesTrees ==
    which = "tal" =>
        TA!TreeSound /\ TA!FreesOnce /\ TA!FreesSubtree /\ TA!WalksMeetChildren

\* timers_expire returns the earliest timer that is due, and none only if none
\* is; timer_earliest is exact; every timer is in the place timers_check
\* expects it in (ccan/timer/timer.c).
TimersInOrder ==
    which = "timer" => /\ TM!ExpiresTheEarliestDue
                       /\ TM!EarliestExact
                       /\ TM!EveryTimerInPlace

\* The always list holds the always plans of open connections, once each; a
\* descriptor still to be scanned is ready only for plans that poll; and
\* num_waiting counts the descriptors that poll waits for (ccan/io/poll.c,
\* ccan/io/io.c).
IoLoopSound ==
    which = "io" => IO!AlwaysListExact /\ IO!ReadyPlansPoll /\ IO!WaitingCounted
=============================================================================
