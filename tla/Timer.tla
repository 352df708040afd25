-------------------------------- MODULE Timer --------------------------------
(***************************************************************************)
(* ccan/timer: timers in levels of buckets, each level 2^Bits times        *)
(* coarser than the one below, a list of far ones, and watermarks (first,  *)
(* firsts) that are lower bounds until somebody updates them.  Levels are  *)
(* allocated when needed.  The lists of ccan/list are sequences here.      *)
(***************************************************************************)
EXTENDS Integers, SequencesExt

CONSTANTS
    Bits,       \* TIMER_LEVEL_BITS, 5 in the program
    Levels,     \* ARRAY_SIZE(timers->level), 13 in the program
    Timers,     \* the timers
    MaxTime     \* bound: times in grains, small enough for the top level to be idle

VARIABLES
    timers,     \* struct timers, with the time of each timer
    result      \* history: the last call and what it returned

vars == <<timers, result>>

PER_LEVEL == 2^Bits
Never == 2^(Bits * Levels) - 1      \* -1ULL
Nil == << >>                        \* a level that is not allocated
Level == 0 .. Levels - 1

\* Bits of a number, 0 for 0 (ilog64).
ilog64(n) == CHOOSE k \in 0 .. Bits * Levels : n < 2^k /\ (k > 0 => n >= 2^(k - 1))
Bit(n, i) == (n \div 2^i) % 2
\* The bits that differ, counted from the highest one that does.
Changed(m, n) == CHOOSE k \in 1 .. Bits * Levels :
                    Bit(m, k - 1) # Bit(n, k - 1) /\ \A i \in k .. Bits * Levels : Bit(m, i) = Bit(n, i)

timers_init(start) ==
    [far |-> << >>, base |-> start, first |-> Never,
     firsts |-> [l \in 0 .. Levels |-> Never],
     level |-> [l \in Level |-> Nil],
     time |-> [t \in Timers |-> 0]]

level_of(T, time) == ilog64((time - T.base) \div 2) \div Bits
Least(a, b) == IF a < b THEN a ELSE b
EmptyLevel == [b \in 0 .. PER_LEVEL - 1 |-> << >>]
Has(T, l) == T.level[l] # Nil
Bucket(l, time) == (time \div 2^(l * Bits)) % PER_LEVEL

timer_add_raw(T, t) ==
    LET l == level_of(T, T.time[t])
    IN  IF ~Has(T, l)
        THEN [T EXCEPT !.far = Append(@, t), !.firsts[Levels] = Least(@, T.time[t])]
        ELSE [T EXCEPT !.level[l][Bucket(l, T.time[t])] = Append(@, t),
                       !.firsts[l] = Least(@, T.time[t])]

\* Mutant of timer_addmono: a time in the past is kept.
timer_addmono_Past(T, t, when) ==
    timer_add_raw([T EXCEPT !.time[t] = when, !.first = Least(@, when)], t)

\* A time in the past is imminent.
timer_addmono(T, t, when) ==
    LET time == IF when < T.base THEN T.base ELSE when
    IN  timer_add_raw([T EXCEPT !.time[t] = time, !.first = Least(@, time)], t)

\* Off whatever list it is on.  The watermarks stay.
timer_del(T, t) ==
    LET Off(s) == SelectSeq(s, LAMBDA u : u # t)
    IN  [T EXCEPT !.far = Off(@),
                  !.level = [l \in Level |-> IF Has(T, l) THEN [b \in DOMAIN @[l] |-> Off(@[l][b])]
                                             ELSE Nil]]

\* The far timers up to a time, and the rest.
FarUpTo(T, when) == SelectSeq(T.far, LAMBDA t : T.time[t] <= when)
FarAfter(T, when) == SelectSeq(T.far, LAMBDA t : T.time[t] > when)
Horizon(T, l) == T.base + 2^((l + 1) * Bits) - 1
AddAll(T, list) == FoldLeft(timer_add_raw, T, list)

add_level(T, l) ==
    AddAll([T EXCEPT !.level[l] = EmptyLevel, !.far = FarAfter(T, Horizon(T, l))],
           FarUpTo(T, Horizon(T, l)))

\* At level 0 a bucket is one grain wide and its first timer is enough.
find_first(T, l) ==
    LET Seen(s) == IF l = 0 THEN {s[k] : k \in DOMAIN s \cap {1}} ELSE ToSet(s)
        seen == IF l = Levels THEN ToSet(T.far) ELSE UNION {Seen(T.level[l][b]) : b \in DOMAIN T.level[l]}
    IN  IF seen = {} THEN Never ELSE Min({T.time[t] : t \in seen})

\* Mutant of brute_force_first: it stops at the first level that has a timer.
brute_force_first_FirstLevel(T) ==
    LET Step(f, l) ==
            IF f.found # Never THEN f
            ELSE LET first == find_first(T, l)
                 IN  [found |-> Least(f.found, first), T |-> [f.T EXCEPT !.firsts[l] = first]]
        levels == SelectSeq([l \in 1 .. Levels |-> l - 1], LAMBDA l : \A k \in 0 .. l : Has(T, k))
    IN  FoldLeft(Step, [found |-> Never, T |-> T], levels \o <<Levels>>)

\* The levels in order up to the first that is not allocated, and the far
\* list, each only if its watermark says it may have an earlier one.
brute_force_first(T) ==
    LET Step(f, l) ==
            IF f.found # Never /\ T.firsts[l] >= f.found THEN f
            ELSE LET first == find_first(T, l)
                 IN  [found |-> Least(f.found, first), T |-> [f.T EXCEPT !.firsts[l] = first]]
        levels == SelectSeq([l \in 1 .. Levels |-> l - 1], LAMBDA l : \A k \in 0 .. l : Has(T, k))
    IN  FoldLeft(Step, [found |-> Never, T |-> T], levels \o <<Levels>>)

\* The rest of the lowest level first; then everything.
get_first(T) ==
    LET rest == {b \in T.base % PER_LEVEL .. PER_LEVEL - 1 :
                    Has(T, 0) /\ T.level[0][b] # << >>}
    IN  IF rest # {} THEN [found |-> T.time[T.level[0][Min(rest)][1]], T |-> T]
        ELSE brute_force_first(T)

\* timer_earliest is this, with first converted to a time.
update_first(T) == LET g == get_first(T) IN [g.T EXCEPT !.first = g.found]

\* Every bucket that time enters is emptied, from the level of the highest bit
\* that changes down; a level that is missing is added; all are put back.
timer_fast_forward(T, time) ==
    LET top == (Changed(time, T.base) - 1) \div Bits
        Down(f, l) ==
            IF ~Has(f.T, l)
            THEN [T |-> [f.T EXCEPT !.far = FarAfter(f.T, Horizon(T, l))],
                  list |-> f.list \o FarUpTo(f.T, Horizon(T, l)), need |-> {l}]
            ELSE [T |-> [f.T EXCEPT !.level[l][Bucket(l, time)] = << >>],
                  list |-> f.list \o f.T.level[l][Bucket(l, time)], need |-> f.need]
        out == FoldLeft(Down, [T |-> T, list |-> << >>, need |-> {}],
                        [k \in 1 .. top + 1 |-> top + 1 - k])
        grown == IF out.need = {} THEN out.T ELSE add_level(out.T, Min(out.need))
    IN  IF time = T.base THEN T
        ELSE AddAll([grown EXCEPT !.base = time], out.list)

RECURSIVE ExpireLoop(_, _)
\* Forward to the first watermark until a timer is found there or none is due.
ExpireLoop(T, time) ==
    IF T.first > time THEN [T |-> timer_fast_forward(T, time), t |-> {}]
    ELSE LET F   == timer_fast_forward(T, T.first)
             off == F.base % PER_LEVEL
             q   == F.level[0][off]
         IN  IF q # << >>
             THEN [T |-> [F EXCEPT !.level[0][off] = Tail(q)], t |-> {q[1]}]
             ELSE LET U == update_first(F)
                  IN  IF U.first = Never THEN [T |-> U, t |-> {}] ELSE ExpireLoop(U, time)

\* Mutant of timers_expire: first is trusted though its timer was deleted.
timers_expire_TrustsFirst(T, time) ==
    IF time < T.base THEN [T |-> T, t |-> {}]
    ELSE IF ~Has(T, 0) /\ T.far = << >> THEN [T |-> T, t |-> {}]
    ELSE LET G == IF Has(T, 0) THEN T ELSE add_level(T, 0)
             F == timer_fast_forward(G, Least(G.first, time))
             q == F.level[0][F.base % PER_LEVEL]
         IN  IF G.first > time \/ q = << >> THEN [T |-> F, t |-> {}]
             ELSE [T |-> [F EXCEPT !.level[0][F.base % PER_LEVEL] = Tail(q)], t |-> {q[1]}]

timers_expire(T, time) ==
    IF time < T.base THEN [T |-> T, t |-> {}]
    ELSE IF ~Has(T, 0) /\ T.far = << >> THEN [T |-> T, t |-> {}]
    ELSE ExpireLoop(IF Has(T, 0) THEN T ELSE add_level(T, 0), time)
-----------------------------------------------------------------------------
Buckets(T) == UNION {{T.level[l][b] : b \in DOMAIN T.level[l]} : l \in Level}
Pending(T) == ToSet(T.far) \cup UNION {ToSet(s) : s \in Buckets(T)}
Call(name, time, t) == [call |-> name, time |-> time, t |-> t]

Init ==
    /\ timers = timers_init(0)
    /\ result = Call("init", 0, {})

Add(t, when) ==
    /\ t \notin Pending(timers)
    /\ timers' = timer_addmono(timers, t, when)
    /\ result' = Call("add", 0, {})

Del(t) ==
    /\ t \in Pending(timers)
    /\ timers' = timer_del(timers, t)
    /\ result' = Call("del", 0, {})

timer_earliest ==
    /\ timers' = update_first(timers)
    /\ result' = Call("earliest", timers'.first, {})

Expire(time) ==
    /\ LET e == timers_expire(timers, time)
       IN  timers' = e.T /\ result' = Call("expire", time, e.t)

Next ==
    \/ \E t \in Timers : Del(t) \/ \E when \in 0 .. MaxTime : Add(t, when)
    \/ timer_earliest
    \/ \E time \in 0 .. MaxTime : Expire(time)

Spec == Init /\ [][Next]_vars
-----------------------------------------------------------------------------
\* timers_expire returns a timer that is due, and the earliest one; it returns
\* none only if none is due, though timers were added in the past, deleted
\* while their time was the watermark, or moved between levels.
ExpiresTheEarliestDue ==
    result.call = "expire" =>
        IF result.t = {} THEN \A u \in Pending(timers) : timers.time[u] > result.time
        ELSE \A t \in result.t :
                /\ timers.time[t] <= result.time
                /\ \A u \in Pending(timers) : timers.time[u] >= timers.time[t]

\* timer_earliest, which sets how long poll sleeps, is exact.
EarliestExact ==
    result.call = "earliest" =>
        result.time = IF Pending(timers) = {} THEN Never
                      ELSE Min({timers.time[u] : u \in Pending(timers)})

\* No timer is lost or on two lists, and each is where timers_check expects
\* it: in a bucket of its level that is not behind base, or among the far
\* ones beyond the levels, and not before a watermark.
EveryTimerInPlace ==
    /\ \A s, q \in {timers.far} \cup Buckets(timers) : s # q => ToSet(s) \cap ToSet(q) = {}
    /\ \A l \in Level : Has(timers, l) => \A b \in DOMAIN timers.level[l] :
          \A t \in ToSet(timers.level[l][b]) :
              LET per  == 2^(l * Bits)
                  low  == (timers.base \div per) * per + (IF l = 0 THEN 0 ELSE per)
              IN  /\ timers.time[t] >= IF l = 0 THEN timers.base ELSE low
                  /\ timers.time[t] < (IF l = 0 THEN timers.base ELSE low) + per * PER_LEVEL
                  /\ Bucket(l, timers.time[t]) = b
                  /\ timers.time[t] >= timers.firsts[l]
    /\ LET l   == Min({k \in 0 .. Levels : k = Levels \/ ~Has(timers, k)})
           per == 2^(l * Bits)
       IN  \A t \in ToSet(timers.far) :
              timers.time[t] >= Max({timers.firsts[Levels], (timers.base \div per) * per + per - 1})
=============================================================================
