----------------------------- MODULE TimeProofs -----------------------------
(***************************************************************************)
(* Proofs about Time: the arithmetic of ccan/time is exact, and io_loop    *)
(* never sleeps past its first timer nor hands it out more than a grain    *)
(* early, for any number of units to the next one, any delays and any      *)
(* steps of the clock.                                                     *)
(***************************************************************************)
EXTENDS Time, TLAPS

\* The times the functions of ccan/time take and return.
Timespecs == [tv_sec : Int, tv_nsec : 0 .. Second - 1]

\* The clock shows the nanoseconds gone by; a wait knows when it began, and
\* has lasted longer than its timeout once it is given up.
ClockInv ==
    /\ ns \in Int /\ now \in Timespecs /\ time_to_nsec(now) = ns
    /\ wait \in [start : Timespecs, timeout : Timespecs, from : Int, late : BOOLEAN]
    /\ wait.from # -1 => time_to_nsec(wait.start) = wait.from
    /\ wait.late => wait.from # -1 /\ ns - wait.from > time_to_nsec(wait.timeout)

\* A second is some number of nanoseconds, and more than none.
LEMMA SecondNat == ASSUME Thousand \in Nat \ {0} PROVE Second \in Nat \ {0}
BY DEF Second

\* time_add_ carries exactly when it must.
LEMMA AddExact ==
    ASSUME Second \in Nat \ {0}, NEW a \in Timespecs, NEW b \in Timespecs
    PROVE  /\ time_add_(a, b) \in Timespecs
           /\ time_to_nsec(time_add_(a, b)) = time_to_nsec(a) + time_to_nsec(b)
<1> DEFINE S == Second
<1>1. /\ a.tv_sec \in Int /\ a.tv_nsec \in 0 .. S - 1
      /\ b.tv_sec \in Int /\ b.tv_nsec \in 0 .. S - 1
  BY DEF Timespecs
<1>2. /\ (a.tv_sec + b.tv_sec + 1) * S = a.tv_sec * S + b.tv_sec * S + S
      /\ (a.tv_sec + b.tv_sec) * S = a.tv_sec * S + b.tv_sec * S
  BY <1>1
<1> HIDE DEF S
<1>3. CASE a.tv_nsec + b.tv_nsec >= S
  BY <1>1, <1>2, <1>3 DEF time_add_, time_to_nsec, Timespec, Timespecs, S
<1>4. CASE ~(a.tv_nsec + b.tv_nsec >= S)
  BY <1>1, <1>2, <1>4 DEF time_add_, time_to_nsec, Timespec, Timespecs, S
<1> QED BY <1>3, <1>4

\* time_sub_ borrows exactly when it must.
LEMMA SubExact ==
    ASSUME Second \in Nat \ {0}, NEW a \in Timespecs, NEW b \in Timespecs
    PROVE  /\ time_sub_(a, b) \in Timespecs
           /\ time_to_nsec(time_sub_(a, b)) = time_to_nsec(a) - time_to_nsec(b)
<1> DEFINE S == Second
<1>1. /\ a.tv_sec \in Int /\ a.tv_nsec \in 0 .. S - 1
      /\ b.tv_sec \in Int /\ b.tv_nsec \in 0 .. S - 1
  BY DEF Timespecs
<1>2. /\ (a.tv_sec - b.tv_sec - 1) * S = a.tv_sec * S - b.tv_sec * S - S
      /\ (a.tv_sec - b.tv_sec) * S = a.tv_sec * S - b.tv_sec * S
  BY <1>1
<1> HIDE DEF S
<1>3. CASE b.tv_nsec > a.tv_nsec
  BY <1>1, <1>2, <1>3 DEF time_sub_, time_to_nsec, Timespec, Timespecs, S
<1>4. CASE ~(b.tv_nsec > a.tv_nsec)
  BY <1>1, <1>2, <1>4 DEF time_sub_, time_to_nsec, Timespec, Timespecs, S
<1> QED BY <1>3, <1>4

\* time_greater_, field by field, is the order of the nanoseconds.
LEMMA GreaterExact ==
    ASSUME Second \in Nat \ {0}, NEW a \in Timespecs, NEW b \in Timespecs
    PROVE  time_greater_(a, b) <=> time_to_nsec(a) > time_to_nsec(b)
<1> DEFINE S == Second
           d == a.tv_sec - b.tv_sec
<1>1. /\ a.tv_sec \in Int /\ a.tv_nsec \in 0 .. S - 1
      /\ b.tv_sec \in Int /\ b.tv_nsec \in 0 .. S - 1
  BY DEF Timespecs
<1>2. a.tv_sec * S = b.tv_sec * S + d * S
  BY <1>1
<1>3. CASE d >= 1
  <2>1. d * S >= S
    BY <1>1, <1>3
  <2> QED
    BY <2>1, <1>1, <1>2, <1>3 DEF time_greater_, time_to_nsec
<1>4. CASE d = 0
  <2>1. a.tv_sec = b.tv_sec /\ a.tv_sec * S \in Int
    BY <1>1, <1>4
  <2> QED
    BY <2>1, <1>1 DEF time_greater_, time_to_nsec
<1>5. CASE d <= -1
  <2>1. d * S <= -S
    BY <1>1, <1>5
  <2> QED
    BY <2>1, <1>1, <1>2, <1>5 DEF time_greater_, time_to_nsec
<1> QED BY <1>1, <1>3, <1>4, <1>5

\* Division with remainder, by any positive number.
LEMMA DivMod ==
    ASSUME NEW n \in Int, NEW k \in Nat \ {0}
    PROVE  /\ n \div k \in Int /\ n % k \in 0 .. k - 1
           /\ n = (n \div k) * k + (n % k)
OBVIOUS

\* time_from_nsec loses nothing.
LEMMA NsecExact ==
    ASSUME Second \in Nat \ {0}, NEW n \in Nat
    PROVE  time_to_nsec(time_from_nsec(n)) = n
<1> DEFINE v == n \div Second
           w == n % Second
<1>1. n \in Int /\ v \in Int /\ w \in Int /\ n = v * Second + w
  BY DivMod
<1>2. time_from_nsec(n) = [tv_sec |-> v, tv_nsec |-> w]
  BY DEF time_from_nsec, Timespec
<1> HIDE DEF v, w
<1> QED BY <1>1, <1>2 DEF time_to_nsec

\* The constructors of struct timerel, whatever the unit, give less than a
\* second of nanoseconds.
LEMMA DelayNormal ==
    ASSUME Thousand \in Nat \ {0}, NEW rel \in Nat
    PROVE  Delay(rel) \in Timespecs /\ time_from_nsec(rel) \in Timespecs
<1> DEFINE T == Thousand
<1>1. T * T \in Nat \ {0} /\ Second = T * T * T /\ Second \in Nat \ {0}
  BY DEF Second
<1>2. ASSUME NEW n \in Nat PROVE time_from_nsec(n) \in Timespecs
  BY <1>1 DEF time_from_nsec, Timespec, Timespecs
<1>3. ASSUME NEW n \in Nat PROVE time_from_sec(n) \in Timespecs
  BY <1>1 DEF time_from_sec, Timespec, Timespecs
<1>4. ASSUME NEW n \in Nat PROVE time_from_msec(n) \in Timespecs
  <2>1. n % T \in 0 .. T - 1 /\ n \div T \in Int
    BY DEF T
  <2>2. (n % T) * T * T \in 0 .. Second - 1
    <3>1. (n % T) * (T * T) <= (T - 1) * (T * T)
      BY <2>1, <1>1
    <3>2. (T - 1) * (T * T) = T * T * T - T * T
      BY <1>1
    <3>3. (n % T) * (T * T) = (n % T) * T * T /\ (n % T) * (T * T) \in Nat
      BY <2>1, <1>1
    <3> QED BY <3>1, <3>2, <3>3, <1>1
  <2> QED BY <2>1, <2>2 DEF time_from_msec, Timespec, Timespecs
<1>5. ASSUME NEW n \in Nat PROVE time_from_usec(n) \in Timespecs
  <2>1. n % (T * T) \in 0 .. T * T - 1 /\ n \div (T * T) \in Int
    BY <1>1
  <2>2. (n % (T * T)) * T \in 0 .. Second - 1
    <3>1. (n % (T * T)) * T <= (T * T - 1) * T
      BY <2>1, <1>1
    <3>2. (T * T - 1) * T = T * T * T - T
      BY <1>1
    <3>3. (n % (T * T)) * T \in Nat
      BY <2>1
    <3> QED BY <3>1, <3>2, <3>3, <1>1
  <2> QED BY <2>1, <2>2 DEF time_from_usec, Timespec, Timespecs
<1>6. /\ rel \div Second \in Nat /\ rel \div (T * T) \in Nat /\ rel \div T \in Nat
  BY <1>1
<1> QED BY <1>2, <1>3, <1>4, <1>5, <1>6 DEF Delay

-----------------------------------------------------------------------------
\* Every step keeps the clock and the waits right.
LEMMA ClockStep ==
    ASSUME Thousand \in Nat \ {0}, Rels \subseteq Nat, Steps \subseteq Nat,
           ClockInv, [Next]_vars
    PROVE  ClockInv'
<1>s. Second \in Nat \ {0}
  BY SecondNat
<1>1. ASSUME NEW d \in Steps, Tick(d) PROVE ClockInv'
  <2>1. time_from_nsec(d) \in Timespecs /\ d \in Nat
    BY DelayNormal
  <2>2. time_to_nsec(time_from_nsec(d)) = d
    BY <1>s, <2>1, NsecExact
  <2>3. now' \in Timespecs /\ time_to_nsec(now)' = ns'
    <3>1. now' = time_add_(now, time_from_nsec(d)) /\ ns' = ns + d
      BY <1>1 DEF Tick, timemono_add
    <3>2. time_to_nsec(now)' = time_to_nsec(now')
      BY DEF time_to_nsec
    <3> QED BY <3>1, <3>2, <1>s, <2>1, <2>2, AddExact DEF ClockInv
  <2>4. wait' = wait /\ ns' = ns + d
    BY <1>1 DEF Tick
  <2>5. time_to_nsec(wait.start)' = time_to_nsec(wait.start)
        /\ time_to_nsec(wait.timeout)' = time_to_nsec(wait.timeout)
    BY <2>4 DEF time_to_nsec
  <2>6. wait.late => time_to_nsec(wait.timeout) \in Int
    BY <1>s DEF ClockInv, time_to_nsec, Timespecs
  <2> QED BY <2>1, <2>3, <2>4, <2>5, <2>6 DEF ClockInv
<1>2. ASSUME NEW rel \in Rels, waitStarts(rel) PROVE ClockInv'
  <2>1. Delay(rel) \in Timespecs
    BY DelayNormal
  <2>2. /\ wait' = [start |-> now, timeout |-> Delay(rel), from |-> ns, late |-> FALSE]
        /\ now' = now /\ ns' = ns
    BY <1>2 DEF waitStarts
  <2>3. wait'.start = now /\ wait'.from = ns /\ ~wait'.late
    BY <2>2
  <2>4. time_to_nsec(wait.start)' = time_to_nsec(now) /\ time_to_nsec(now)' = time_to_nsec(now)
    BY <2>2, <2>3 DEF time_to_nsec
  <2> QED BY <2>1, <2>2, <2>3, <2>4 DEF ClockInv
<1>3. CASE waitGivesUp
  <2> DEFINE gone == time_sub_(now, wait.start)
  <2>1. /\ time_greater_(gone, wait.timeout) /\ wait.from # -1
        /\ wait' = [wait EXCEPT !.late = TRUE] /\ now' = now /\ ns' = ns
    BY <1>3 DEF waitGivesUp, time_greater, timemono_since, timemono_between
  <2>2. wait.start \in Timespecs /\ wait.timeout \in Timespecs /\ wait.from \in Int /\ now \in Timespecs
    BY DEF ClockInv
  <2>3. gone \in Timespecs /\ time_to_nsec(gone) = ns - wait.from
    BY <2>1, <2>2, <1>s, SubExact DEF ClockInv
  <2>4. ns - wait.from > time_to_nsec(wait.timeout)
    BY <2>1, <2>2, <2>3, <1>s, GreaterExact
  <2>5. wait'.start = wait.start /\ wait'.timeout = wait.timeout /\ wait'.from = wait.from
        /\ wait' \in [start : Timespecs, timeout : Timespecs, from : Int, late : BOOLEAN]
    BY <2>1 DEF ClockInv
  <2>6. time_to_nsec(wait.start)' = time_to_nsec(wait.start)
        /\ time_to_nsec(wait.timeout)' = time_to_nsec(wait.timeout)
        /\ time_to_nsec(now)' = time_to_nsec(now)
    BY <2>1, <2>5 DEF time_to_nsec
  <2> QED BY <2>1, <2>4, <2>5, <2>6 DEF ClockInv
<1>4. CASE UNCHANGED <<now, ns, wait>>
  BY <1>4 DEF ClockInv, time_to_nsec
<1> QED
  BY <1>1, <1>2, <1>3, <1>4
     DEF Next, vars, timer_addrel, io_loop, pollReturns, timerExpired

\* For every number of units in the next, all delays and all steps of the
\* clock: sums, differences and comparisons of struct timespec are exact, and
\* a wait that is given up has outlasted its timeout.
THEOREM ClockExact ==
    ASSUME Thousand \in Nat \ {0}, Rels \subseteq Nat, Steps \subseteq Nat
    PROVE  Spec => []TimesExact
<1>1. Init => ClockInv
  <2>1. Second \in Nat \ {0}
    BY SecondNat
  <2> QED
    BY <2>1 DEF Init, ClockInv, NoWait, Timespec, Timespecs, time_to_nsec
<1>2. ClockInv /\ [Next]_vars => ClockInv'
  BY ClockStep
<1>3. ClockInv => TimesExact
  BY DEF ClockInv, TimesExact, Timespecs
<1> QED
  BY <1>1, <1>2, <1>3, PTL DEF Spec

-----------------------------------------------------------------------------
\* A multiple divides without rest.
LEMMA DivMul ==
    ASSUME NEW n \in Int, NEW k \in Nat \ {0}
    PROVE  (n * k) \div k = n
<1> DEFINE q == (n * k) \div k
           r == (n * k) % k
<1>1. q \in Int /\ r \in 0 .. k - 1 /\ n * k = q * k + r
  <2> DEFINE m == n * k
  <2>1. m \in Int
    OBVIOUS
  <2> HIDE DEF m
  <2>2. m \div k \in Int /\ m % k \in 0 .. k - 1 /\ m = (m \div k) * k + (m % k)
    BY <2>1, DivMod
  <2> QED BY <2>2 DEF m
<1>2. (n - q) * k = r
  BY <1>1
<1> HIDE DEF q, r
<1>3. CASE n - q >= 1
  <2>1. (n - q) * k >= k
    BY <1>1, <1>3
  <2> QED BY <2>1, <1>1, <1>2
<1>4. CASE n - q <= -1
  <2>1. (n - q) * k <= -k
    BY <1>1, <1>4
  <2> QED BY <2>1, <1>1, <1>2
<1>5. n = q
  BY <1>1, <1>3, <1>4
<1> QED BY <1>5 DEF q

\* Grains to the second.
LEMMA PerSecond ==
    ASSUME Thousand \in Nat \ {0}
    PROVE  /\ Thousand * Thousand \in Nat \ {0}
           /\ Second = (Thousand * Thousand) * Thousand
           /\ Second \div TIMER_GRANULARITY = Thousand * Thousand
<1>1. Thousand * Thousand \in Nat \ {0} /\ Second = (Thousand * Thousand) * Thousand
  BY DEF Second
<1>2. Thousand * Thousand \in Int
  BY <1>1
<1> QED BY <1>1, <1>2, DivMul DEF TIMER_GRANULARITY

\* time_to_grains cuts off less than a grain.
LEMMA GrainsFloor ==
    ASSUME Thousand \in Nat \ {0}, NEW t \in Timespecs
    PROVE  /\ time_to_grains(t) \in Int
           /\ time_to_grains(t) * Thousand <= time_to_nsec(t)
           /\ time_to_nsec(t) < time_to_grains(t) * Thousand + Thousand
<1> DEFINE T == Thousand
           P == Thousand * Thousand
           g == t.tv_nsec \div T
<1>1. t.tv_sec \in Int /\ t.tv_nsec \in Int
  BY SecondNat DEF Timespecs
<1>2. g \in Int /\ g * T <= t.tv_nsec /\ t.tv_nsec < g * T + T
  <2> DEFINE m == t.tv_nsec
  <2>1. m \in Int
    BY <1>1
  <2> HIDE DEF m
  <2>2. m \div Thousand \in Int /\ m % Thousand \in 0 .. Thousand - 1
        /\ m = (m \div Thousand) * Thousand + (m % Thousand)
    BY <2>1, DivMod
  <2> DEFINE v == m \div Thousand
             w == m % Thousand
  <2>3. v \in Int /\ w \in 0 .. Thousand - 1 /\ m = v * Thousand + w
    BY <2>2
  <2> HIDE DEF v, w
  <2>4. v \in Int /\ v * Thousand <= m /\ m < v * Thousand + Thousand
    BY <2>1, <2>3
  <2> QED BY <2>4 DEF m, v
<1>3. time_to_grains(t) = t.tv_sec * P + g
  BY PerSecond DEF time_to_grains, TIMER_GRANULARITY
<1>4. time_to_nsec(t) = t.tv_nsec + t.tv_sec * (P * T)
  BY PerSecond DEF time_to_nsec
<1>5. P \in Int
  BY PerSecond
<1> HIDE DEF P, g
<1>6. (t.tv_sec * P + g) * T = t.tv_sec * (P * T) + g * T
  BY <1>1, <1>2, <1>5
<1>7. t.tv_sec * (P * T) \in Int /\ g * T \in Int /\ t.tv_sec * P + g \in Int
  BY <1>1, <1>2, <1>5
<1> QED BY <1>1, <1>2, <1>3, <1>4, <1>6, <1>7

\* grains_to_time loses nothing.
LEMMA GrainsExact ==
    ASSUME Thousand \in Nat \ {0}, NEW grains \in Int
    PROVE  /\ grains_to_time(grains) \in Timespecs
           /\ time_to_nsec(grains_to_time(grains)) = grains * Thousand
<1> DEFINE T == Thousand
           P == Thousand * Thousand
           q == grains \div P
           r == grains % P
<1>1. P \in Nat \ {0} /\ Second = P * T
  BY PerSecond
<1>2. q \in Int /\ r \in 0 .. P - 1 /\ grains = q * P + r
  BY <1>1, DivMod
<1>3. grains_to_time(grains) = [tv_sec |-> q, tv_nsec |-> r * T]
  BY PerSecond DEF grains_to_time, Timespec, TIMER_GRANULARITY
<1> HIDE DEF P, q, r
<1>4. r * T \in 0 .. P * T - 1
  <2>1. r * T <= (P - 1) * T /\ r * T \in Nat
    BY <1>1, <1>2
  <2>2. (P - 1) * T = P * T - T /\ P * T \in Int
    BY <1>1
  <2> QED BY <2>1, <2>2
<1>5. r * T + q * (P * T) = (q * P + r) * T
  BY <1>1, <1>2
<1> QED BY <1>1, <1>2, <1>3, <1>4, <1>5 DEF Timespecs, time_to_nsec

\* time_to_msec cuts off, and is not negative for what is not negative.
LEMMA MsecFloor ==
    ASSUME Thousand \in Nat \ {0}, NEW t \in Timespecs
    PROVE  /\ time_to_msec(t) \in Int
           /\ time_to_msec(t) * Thousand * Thousand <= time_to_nsec(t)
           /\ time_to_nsec(t) >= 0 => time_to_msec(t) >= 0
<1> DEFINE T == Thousand
           P == Thousand * Thousand
           q == t.tv_nsec \div P
<1>1. P \in Nat \ {0} /\ Second = P * T
  BY PerSecond
<1>2. t.tv_sec \in Int /\ t.tv_nsec \in Nat /\ t.tv_nsec < P * T
  BY SecondNat, <1>1 DEF Timespecs
<1>3. q \in Nat /\ q * P <= t.tv_nsec
  <2>1. q \in Int /\ t.tv_nsec % P \in 0 .. P - 1 /\ t.tv_nsec = q * P + (t.tv_nsec % P)
    <3> DEFINE m == t.tv_nsec
    <3>1. m \in Int /\ P \in Nat \ {0}
      BY <1>1, <1>2
    <3> HIDE DEF m, P
    <3>2. m \div P \in Int /\ m % P \in 0 .. P - 1 /\ m = (m \div P) * P + (m % P)
      BY <3>1, DivMod
    <3> QED BY <3>2 DEF m
  <2>2. q \in Nat
    BY <1>1, <1>2
  <2> QED BY <2>1, <2>2, <1>1, <1>2
<1>4. time_to_msec(t) = q + t.tv_sec * T
  BY DEF time_to_msec
<1>5. time_to_nsec(t) = t.tv_nsec + t.tv_sec * (P * T)
  BY <1>1 DEF time_to_nsec
<1>6. time_to_msec(t) * T * T = time_to_msec(t) * P /\ time_to_msec(t) \in Int
  BY <1>2, <1>3, <1>4
<1> HIDE DEF P, q
<1>7. (q + t.tv_sec * T) * P = q * P + t.tv_sec * (P * T)
  BY <1>1, <1>2, <1>3
<1>8. /\ t.tv_sec * (P * T) \in Int /\ q * P \in Nat
      /\ t.tv_sec >= 0 => t.tv_sec * (P * T) >= 0
  <2>1. P * T \in Nat
    BY <1>1
  <2> QED BY <2>1, <1>1, <1>2, <1>3
<1>9. time_to_nsec(t) >= 0 => t.tv_sec >= 0
  <2> SUFFICES ASSUME t.tv_sec <= -1 PROVE time_to_nsec(t) < 0
    BY <1>2, <1>5, <1>8
  <2>1. P * T \in Nat
    BY <1>1
  <2>2. t.tv_sec * (P * T) <= -(P * T)
    BY <2>1, <1>2
  <2> QED BY <2>1, <2>2, <1>2, <1>5, <1>8
<1>10. t.tv_sec >= 0 => t.tv_sec * T >= 0
  BY <1>2
<1> QED BY <1>2, <1>3, <1>4, <1>5, <1>6, <1>7, <1>8, <1>9, <1>10

\* The constructors of struct timerel lose nothing.
LEMMA DelayExact ==
    ASSUME Thousand \in Nat \ {0}, NEW rel \in Nat
    PROVE  time_to_nsec(Delay(rel)) = rel
<1> DEFINE T == Thousand
           P == Thousand * Thousand
<1>1. P \in Nat \ {0} /\ Second = P * T /\ Second \in Nat \ {0} /\ T \in Nat \ {0}
  BY PerSecond, SecondNat
<1> HIDE DEF T, P
<1>2. ASSUME NEW k \in Nat \ {0}, rel % k = 0 PROVE rel \div k \in Nat /\ rel = (rel \div k) * k
  <2>1. rel \in Int
    OBVIOUS
  <2>2. rel \div k \in Int /\ rel = (rel \div k) * k + (rel % k)
    BY <2>1, DivMod
  <2>3. rel \div k \in Nat
    OBVIOUS
  <2> DEFINE v == rel \div k
  <2>4. v \in Nat /\ rel = v * k + 0
    BY <2>2, <2>3, <1>2
  <2> HIDE DEF v
  <2>5. v \in Nat /\ rel = v * k
    BY <2>4
  <2> QED BY <2>5 DEF v
<1>3. ASSUME NEW n \in Nat PROVE time_to_nsec(time_from_sec(n)) = n * Second
  BY <1>1 DEF time_from_sec, time_to_nsec, Timespec
<1>4. ASSUME NEW n \in Nat PROVE time_to_nsec(time_from_msec(n)) = n * P
  <2> DEFINE v == n \div T
             w == n % T
  <2>1. v \in Int /\ w \in Int /\ n = v * T + w
    BY <1>1, DivMod
  <2>2. time_from_msec(n) = [tv_sec |-> v, tv_nsec |-> w * T * T]
    BY DEF time_from_msec, Timespec, T
  <2> HIDE DEF v, w
  <2>3. time_to_nsec(time_from_msec(n)) = w * T * T + v * (P * T)
    BY <2>2, <1>1 DEF time_to_nsec
  <2>4. w * T * T = w * P
    BY <1>1, <2>1 DEF P, T
  <2>5. w * P + v * (P * T) = (v * T + w) * P
    BY <1>1, <2>1
  <2> QED BY <2>1, <2>3, <2>4, <2>5
<1>5. ASSUME NEW n \in Nat PROVE time_to_nsec(time_from_usec(n)) = n * T
  <2> DEFINE v == n \div P
             w == n % P
  <2>1. v \in Int /\ w \in Int /\ n = v * P + w
    BY <1>1, DivMod
  <2>2. time_from_usec(n) = [tv_sec |-> v, tv_nsec |-> w * T]
    BY DEF time_from_usec, Timespec, T, P
  <2> HIDE DEF v, w
  <2>3. time_to_nsec(time_from_usec(n)) = w * T + v * (P * T)
    BY <2>2, <1>1 DEF time_to_nsec
  <2>4. w * T + v * (P * T) = (v * P + w) * T
    BY <1>1, <2>1
  <2> QED BY <2>1, <2>3, <2>4
<1>6. time_to_nsec(time_from_nsec(rel)) = rel
  BY SecondNat, NsecExact
<1>7. CASE rel % Second = 0
  <2>1. Delay(rel) = time_from_sec(rel \div Second)
    BY <1>7 DEF Delay
  <2> QED BY <2>1, <1>1, <1>2, <1>3, <1>7
<1>8. CASE rel % Second # 0 /\ rel % P = 0
  <2>1. Delay(rel) = time_from_msec(rel \div P)
    BY <1>8 DEF Delay, P
  <2> QED BY <2>1, <1>1, <1>2, <1>4, <1>8
<1>9. CASE rel % Second # 0 /\ rel % P # 0 /\ rel % T = 0
  <2>1. Delay(rel) = time_from_usec(rel \div T)
    BY <1>9 DEF Delay, P, T
  <2> QED BY <2>1, <1>1, <1>2, <1>5, <1>9
<1>10. CASE rel % Second # 0 /\ rel % P # 0 /\ rel % T # 0
  <2>1. Delay(rel) = time_from_nsec(rel)
    BY <1>10 DEF Delay, P, T
  <2> QED BY <2>1, <1>6
<1> QED BY <1>7, <1>8, <1>9, <1>10

-----------------------------------------------------------------------------
\* The timer stands in the grain of the time it was set for, poll is asked to
\* return in that grain at the latest, and io_loop returns no sooner than it.
SleepInv ==
    /\ ns >= 0
    /\ \A t, u \in timer : t = u
    /\ \A t \in timer :
          /\ t.time \in Int /\ t.when \in Int
          /\ t.time * Thousand <= t.when /\ t.when < t.time * Thousand + Thousand
          /\ pc = "poll" /\ sleep # -1 =>
                sleep \in Nat /\ sleep <= t.time * Thousand
          /\ pc = "return" => t.time * Thousand <= ns

\* Every step keeps the timer and the sleep in line.
LEMMA SleepStep ==
    ASSUME Thousand \in Nat \ {0}, Rels \subseteq Nat, Steps \subseteq Nat, INT_MAX \in Nat,
           ClockInv, SleepInv, [Next]_vars
    PROVE  SleepInv'
<1>s. Second \in Nat \ {0} /\ ns \in Nat /\ now \in Timespecs /\ time_to_nsec(now) = ns
  BY SecondNat DEF ClockInv, SleepInv
<1>1. ASSUME NEW d \in Steps, Tick(d) PROVE SleepInv'
  <2>1. d \in Nat /\ ns' = ns + d /\ timer' = timer /\ pc' = pc /\ sleep' = sleep
    BY <1>1 DEF Tick
  <2>2. ASSUME NEW t \in timer PROVE t.time * Thousand \in Int
    BY DEF SleepInv
  <2> QED BY <2>1, <2>2, <1>s DEF SleepInv
<1>2. ASSUME NEW rel \in Rels, timer_addrel(rel) PROVE SleepInv'
  <2> DEFINE at == timemono_add(now, Delay(rel))
  <2>1. rel \in Nat /\ Delay(rel) \in Timespecs /\ time_to_nsec(Delay(rel)) = rel
    BY DelayNormal, DelayExact
  <2>2. at \in Timespecs /\ time_to_nsec(at) = ns + rel
    BY <2>1, <1>s, AddExact DEF timemono_add
  <2>3. /\ timer' = {[time |-> time_to_grains(at), when |-> ns + rel]}
        /\ pc = "loop" /\ pc' = pc /\ ns' = ns
    BY <1>2 DEF timer_addrel
  <2> HIDE DEF at
  <2>4. /\ time_to_grains(at) \in Int
        /\ time_to_grains(at) * Thousand <= ns + rel
        /\ ns + rel < time_to_grains(at) * Thousand + Thousand
    BY <2>2, GrainsFloor
  <2>5. ASSUME NEW t \in timer' PROVE t.time = time_to_grains(at) /\ t.when = ns + rel
    BY <2>3
  <2> QED BY <2>1, <2>3, <2>4, <2>5, <1>s DEF SleepInv
<1>3. CASE io_loop
  <2>1. timer' = timer /\ ns' = ns
    BY <1>3 DEF io_loop
  <2>2. ASSUME NEW t \in timer, t.time <= time_to_grains(now), pc' = "return"
        PROVE  SleepInv'
    <3>1. time_to_grains(now) \in Int /\ time_to_grains(now) * Thousand <= ns
      BY <1>s, GrainsFloor
    <3>2. t.time \in Int
      BY DEF SleepInv
    <3>3. t.time * Thousand <= time_to_grains(now) * Thousand
      BY <3>1, <3>2, <2>2
    <3>4. t.time * Thousand <= ns
      BY <3>1, <3>2, <3>3, <1>s
    <3>5. \A u \in timer : u = t
      BY DEF SleepInv
    <3> QED BY <2>1, <2>2, <3>4, <3>5 DEF SleepInv
  <2>3. ASSUME NEW t \in timer, t.time > time_to_grains(now), pc' = "poll",
               sleep' = ns + ms_timeout(t) * Thousand * Thousand
        PROVE  SleepInv'
    <3> DEFINE left == timemono_between(grains_to_time(t.time), now)
               next == time_to_msec(left)
    <3>1. t.time \in Int
      BY DEF SleepInv
    <3>2. grains_to_time(t.time) \in Timespecs
          /\ time_to_nsec(grains_to_time(t.time)) = t.time * Thousand
      BY <3>1, GrainsExact
    <3>3. left \in Timespecs /\ time_to_nsec(left) = t.time * Thousand - ns
      BY <3>2, <1>s, SubExact DEF timemono_between
    <3>4. ms_timeout(t) = IF next < INT_MAX THEN next ELSE INT_MAX
      BY DEF ms_timeout
    <3> HIDE DEF left
    <3>5. next \in Int /\ next * Thousand * Thousand <= t.time * Thousand - ns
          /\ (t.time * Thousand - ns >= 0 => next >= 0)
      BY <3>3, MsecFloor
    <3>6. t.time * Thousand - ns >= 0
      <4>1. time_to_grains(now) \in Int /\ ns < time_to_grains(now) * Thousand + Thousand
        BY <1>s, GrainsFloor
      <4>2. t.time * Thousand >= (time_to_grains(now) + 1) * Thousand
        BY <4>1, <3>1, <2>3
      <4>3. (time_to_grains(now) + 1) * Thousand = time_to_grains(now) * Thousand + Thousand
        BY <4>1
      <4> QED BY <4>1, <4>2, <4>3, <3>1, <1>s
    <3> HIDE DEF next
    <3>7. sleep' \in Nat /\ sleep' <= t.time * Thousand
      <4> DEFINE m == ms_timeout(t)
                 k == Thousand * Thousand
      <4>1. m \in Nat /\ m <= next /\ next \in Int
        BY <3>4, <3>5, <3>6
      <4>2. k \in Nat
        OBVIOUS
      <4>3. m * Thousand * Thousand = m * k /\ next * Thousand * Thousand = next * k
        BY <4>1
      <4>4. sleep' = ns + m * Thousand * Thousand
        BY <2>3
      <4> HIDE DEF m, k
      <4>5. m * k \in Nat /\ m * k <= next * k /\ next * k \in Int
        BY <4>1, <4>2
      <4> QED BY <4>3, <4>4, <4>5, <3>1, <3>5, <1>s
    <3>8. \A u \in timer : u = t
      BY DEF SleepInv
    <3> QED BY <2>1, <2>3, <3>7, <3>8 DEF SleepInv
  <2>4. ASSUME timer = {} PROVE SleepInv'
    BY <2>1, <2>4 DEF SleepInv
  <2> QED BY <1>3, <2>2, <2>3, <2>4 DEF io_loop
<1>4. CASE pollReturns
  BY <1>4 DEF pollReturns, SleepInv
<1>5. CASE timerExpired
  BY <1>5 DEF timerExpired, SleepInv
<1>6. CASE UNCHANGED <<ns, timer, pc, sleep>>
  BY <1>6 DEF SleepInv
<1> QED
  BY <1>1, <1>2, <1>3, <1>4, <1>5, <1>6 DEF Next, vars, waitStarts, waitGivesUp

\* For every number of units in the next, all delays and all steps of the
\* clock: io_loop asks poll to return no later than its first timer is due,
\* never in the past, and hands the timer out less than a grain early.
THEOREM TimerInTime ==
    ASSUME Thousand \in Nat \ {0}, Rels \subseteq Nat, Steps \subseteq Nat, INT_MAX \in Nat
    PROVE  Spec => []SleepsToTheTimer
<1>1. Init => ClockInv /\ SleepInv
  <2>1. Second \in Nat \ {0}
    BY SecondNat
  <2>2. Init => ClockInv
    BY <2>1 DEF Init, ClockInv, NoWait, Timespec, Timespecs, time_to_nsec
  <2>3. Init => SleepInv
    BY DEF Init, SleepInv
  <2> QED BY <2>2, <2>3
<1>2. ClockInv /\ SleepInv /\ [Next]_vars => (ClockInv /\ SleepInv)'
  BY ClockStep, SleepStep
<1>3. ClockInv /\ SleepInv => SleepsToTheTimer
  <2> SUFFICES ASSUME ClockInv, SleepInv, NEW t \in timer
               PROVE  /\ pc = "poll" /\ sleep # -1 => sleep >= 0 /\ sleep <= t.when
                      /\ pc = "return" => ns > t.when - TIMER_GRANULARITY
    BY DEF SleepsToTheTimer
  <2>1. t.time * Thousand \in Int /\ t.when \in Int /\ ns \in Int
    BY DEF ClockInv, SleepInv
  <2> QED BY <2>1 DEF SleepInv, TIMER_GRANULARITY
<1> QED
  BY <1>1, <1>2, <1>3, PTL DEF Spec
=============================================================================
