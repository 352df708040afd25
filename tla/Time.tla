-------------------------------- MODULE Time --------------------------------
(***************************************************************************)
(* Times of ccan/time on their way through one loop: a timer is added in   *)
(* nanoseconds, kept in grains (ccan/timer), and slept for in milliseconds *)
(* by the io_loop of ccan/io/poll.c; the waits of the tester compare the   *)
(* time gone by with a timeout.  There is one timer, the earliest: module  *)
(* Timer has the order among several.                                      *)
(*                                                                         *)
(* A struct timespec is a record of seconds and nanoseconds.  Thousand is  *)
(* 1000 in the program and small here; a grain is Thousand nanoseconds.    *)
(***************************************************************************)
EXTENDS Integers

CONSTANTS
    Thousand,   \* of each unit in the next: ns, us, ms, s
    Rels,       \* the delays of timers and the timeouts, in nanoseconds
    Steps,      \* nanoseconds by which the clock moves on
    INT_MAX,    \* the longest poll can be asked for, in milliseconds
    MaxTime     \* bound: the clock stops here

VARIABLES
    now,        \* CLOCK_MONOTONIC, as a struct timemono
    ns,         \* the same clock, in nanoseconds since it started
    timer,      \* {} or the one timer: [time in grains, when in nanoseconds]
    pc,         \* io_loop: "loop", "poll" or "return"
    sleep,      \* where pollfn returns by itself, in nanoseconds; -1 for never
    wait        \* a wait of the tester: [start, timeout, from, late]

vars == <<now, ns, timer, pc, sleep, wait>>

Second == Thousand * Thousand * Thousand
TIMER_GRANULARITY == Thousand

Timespec(s, n) == [tv_sec |-> s, tv_nsec |-> n]

time_greater_(a, b) ==
    \/ a.tv_sec > b.tv_sec
    \/ a.tv_sec = b.tv_sec /\ a.tv_nsec > b.tv_nsec

time_sub_(recent, old) ==
    IF old.tv_nsec > recent.tv_nsec
    THEN Timespec(recent.tv_sec - old.tv_sec - 1, Second + recent.tv_nsec - old.tv_nsec)
    ELSE Timespec(recent.tv_sec - old.tv_sec, recent.tv_nsec - old.tv_nsec)

\* Mutant of time_add_: a full second of nanoseconds is not carried.
time_add_Limit(a, b) ==
    LET nsec == a.tv_nsec + b.tv_nsec
    IN  IF nsec > Second THEN Timespec(a.tv_sec + b.tv_sec + 1, nsec - Second)
        ELSE Timespec(a.tv_sec + b.tv_sec, nsec)

time_add_(a, b) ==
    LET nsec == a.tv_nsec + b.tv_nsec
    IN  IF nsec >= Second THEN Timespec(a.tv_sec + b.tv_sec + 1, nsec - Second)
        ELSE Timespec(a.tv_sec + b.tv_sec, nsec)

timemono_add(a, b) == time_add_(a, b)
timemono_between(recent, old) == time_sub_(recent, old)
timemono_since(old) == timemono_between(now, old)
time_greater(a, b) == time_greater_(a, b)

\* Mutant of time_to_msec: rounded up.
time_to_msec_Up(t) ==
    ((t.tv_nsec + Thousand * Thousand - 1) \div (Thousand * Thousand)) + t.tv_sec * Thousand

time_to_msec(t) == (t.tv_nsec \div (Thousand * Thousand)) + t.tv_sec * Thousand
time_to_nsec(t) == t.tv_nsec + t.tv_sec * Second

time_from_sec(sec) == Timespec(sec, 0)
time_from_msec(msec) == Timespec(msec \div Thousand, (msec % Thousand) * Thousand * Thousand)
time_from_usec(usec) ==
    Timespec(usec \div (Thousand * Thousand), (usec % (Thousand * Thousand)) * Thousand)
time_from_nsec(nsec) == Timespec(nsec \div Second, nsec % Second)

time_to_grains(t) ==
    t.tv_sec * (Second \div TIMER_GRANULARITY) + (t.tv_nsec \div TIMER_GRANULARITY)

grains_to_time(grains) ==
    LET perSec == Second \div TIMER_GRANULARITY
    IN  Timespec(grains \div perSec, (grains % perSec) * TIMER_GRANULARITY)

\* A delay in the coarsest unit that gives it exactly, as callers write it.
Delay(rel) ==
    IF rel % Second = 0 THEN time_from_sec(rel \div Second)
    ELSE IF rel % (Thousand * Thousand) = 0 THEN time_from_msec(rel \div (Thousand * Thousand))
    ELSE IF rel % Thousand = 0 THEN time_from_usec(rel \div Thousand)
    ELSE time_from_nsec(rel)

-----------------------------------------------------------------------------
NoWait == [start |-> Timespec(0, 0), timeout |-> Timespec(0, 0), from |-> -1, late |-> FALSE]

Init ==
    /\ now = Timespec(0, 0) /\ ns = 0
    /\ timer = {} /\ pc = "loop" /\ sleep = -1 /\ wait = NoWait

\* Time passes, also past the moment at which poll should have returned.
Tick(d) ==
    /\ ns + d <= MaxTime
    /\ now' = timemono_add(now, time_from_nsec(d))
    /\ ns' = ns + d
    /\ UNCHANGED <<timer, pc, sleep, wait>>

timer_addrel(rel) ==
    /\ wait = NoWait /\ timer = {} /\ pc = "loop" /\ ns + rel <= MaxTime
    /\ timer' = {[time |-> time_to_grains(timemono_add(now, Delay(rel))), when |-> ns + rel]}
    /\ UNCHANGED <<now, ns, pc, sleep, wait>>

\* The milliseconds io_loop asks poll for when t is its first timer.
ms_timeout(t) ==
    LET next == time_to_msec(timemono_between(grains_to_time(t.time), now))
    IN  IF next < INT_MAX THEN next ELSE INT_MAX

\* Mutant of io_loop: no time left is taken for no timer.
io_loop_NoZero ==
    /\ wait = NoWait /\ pc = "loop"
    /\ \/ \E t \in timer :
            /\ t.time <= time_to_grains(now)
            /\ pc' = "return" /\ UNCHANGED sleep
       \/ \E t \in timer :
            /\ t.time > time_to_grains(now)
            /\ pc' = "poll"
            /\ sleep' = IF ms_timeout(t) = 0 THEN -1 ELSE ns + ms_timeout(t) * Thousand * Thousand
       \/ timer = {} /\ pc' = "poll" /\ sleep' = -1
    /\ UNCHANGED <<now, ns, timer, wait>>

\* The turn of io_loop from looking at the clock to pollfn.
io_loop ==
    /\ wait = NoWait /\ pc = "loop"
    /\ \/ \E t \in timer :
            /\ t.time <= time_to_grains(now)
            /\ pc' = "return" /\ UNCHANGED sleep
       \/ \E t \in timer :
            /\ t.time > time_to_grains(now)
            /\ pc' = "poll"
            /\ sleep' = ns + ms_timeout(t) * Thousand * Thousand
       \/ timer = {} /\ pc' = "poll" /\ sleep' = -1
    /\ UNCHANGED <<now, ns, timer, wait>>

\* pollfn returns: an event, a signal, or its timeout is over.
pollReturns ==
    /\ pc = "poll"
    /\ pc' = "loop" /\ sleep' = -1
    /\ UNCHANGED <<now, ns, timer, wait>>

\* The caller of io_loop gets the expired timer and comes back.
timerExpired ==
    /\ pc = "return"
    /\ timer' = {} /\ pc' = "loop"
    /\ UNCHANGED <<now, ns, sleep, wait>>

\* The waits of the tester, another process without timers: start a wait,
\* and give it up.
waitStarts(rel) ==
    /\ wait.from = -1 /\ timer = {} /\ pc = "loop"
    /\ wait' = [start |-> now, timeout |-> Delay(rel), from |-> ns, late |-> FALSE]
    /\ UNCHANGED <<now, ns, timer, pc, sleep>>

waitGivesUp ==
    /\ wait.from # -1 /\ ~wait.late
    /\ time_greater(timemono_since(wait.start), wait.timeout)
    /\ wait' = [wait EXCEPT !.late = TRUE]
    /\ UNCHANGED <<now, ns, timer, pc, sleep>>

Next ==
    \/ \E d \in Steps : Tick(d)
    \/ \E rel \in Rels : timer_addrel(rel) \/ waitStarts(rel)
    \/ io_loop \/ pollReturns \/ timerExpired \/ waitGivesUp

\* The loop runs, poll returns once its timeout is over, and time passes.
Spec ==
    /\ Init /\ [][Next]_vars
    /\ WF_vars(io_loop) /\ WF_vars(timerExpired)
    /\ WF_vars(pollReturns /\ sleep \in 0 .. ns)
    /\ WF_vars(\E d \in Steps : Tick(d))

-----------------------------------------------------------------------------
\* Sums and differences of times never lose or gain: the clock moved by
\* timemono_add is the number of nanoseconds gone by, with less than a second
\* of them in tv_nsec, and a wait that is given up has lasted longer than its
\* timeout (ccan/time/time.h:313 and :407, tester/loop.c:33).
TimesExact ==
    /\ time_to_nsec(now) = ns
    /\ now.tv_nsec \in 0 .. Second - 1
    /\ wait.late => ns - wait.from > time_to_nsec(wait.timeout)

\* io_loop neither sleeps past its first timer nor asks poll for a time in
\* the past, and it hands out a timer no sooner than one grain before the
\* time it was set for: poll's milliseconds are cut off, never rounded up
\* (ccan/io/poll.c:402, ccan/timer/timer.c:38).
SleepsToTheTimer ==
    \A t \in timer :
        /\ pc = "poll" /\ sleep # -1 =>
              sleep >= 0 /\ sleep <= t.when
        /\ pc = "return" => ns > t.when - TIMER_GRANULARITY

\* Every timer is handed out in the end: the timeout that io_loop computes
\* does not keep it from looking at the clock again (ccan/io/poll.c:370).
TimerFires == (timer # {}) ~> (pc = "return")
=============================================================================
