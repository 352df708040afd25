------------------------------- MODULE IoLoop -------------------------------
(***************************************************************************)
(* The loop of ccan/io with an arbitrary client: a callback sets any plan  *)
(* of its connection that is unset, or closes it, and before that may wake *)
(* waiters, open or close another connection or make itself exclusive.     *)
(***************************************************************************)
EXTENDS Io

CONSTANT Waits  \* the addresses io_wait waits on

VARIABLE io

\* The arbitrary client.  What a callback may do before it returns a plan.
Effects(s, c) ==
    {s} \cup {backend_wake(s, w) : w \in Waits}
        \cup {destroy_conn(s, e) : e \in ToSet(s.fds) \ {c}}
        \cup {backend_new_plan(PollFor(add_fd(s, e), e, "IN", "cb"), e) :
                  e \in Conn \ ToSet(s.fds)}
        \cup {backend_set_exclusive(s, c, "IN", b) : b \in BOOLEAN}

\* The plans it may leave for its connection; both unset is an assertion failure.
SetOne(s, c, d) ==
    IF s.plan[c][d].status # "UNSET" THEN {s}
    ELSE {s, set_always(s, c, d, "cb"), PollFor(s, c, d, "cb")}
             \cup {io_wait_dir(s, c, d, w, "cb") : w \in Waits}
Planned(s, c) ==
    {t \in UNION {SetOne(u, c, "OUT") : u \in SetOne(s, c, "IN")} :
        \E d \in Dir : t.plan[c][d].status # "UNSET"}

\* next_plan: the callback runs with its plan unset, then events are set up
\* unless it closed the connection.
next_plan(s, c) ==
    UNION {{backend_new_plan(t, c) : t \in Planned(e, c)} \cup {destroy_conn(e, c)} :
              e \in Effects(s, c)}

\* do_plan on a ready plan: an error closes, a short read or write goes on,
\* the end of it calls next.
do_plan(s, c, d) ==
    {destroy_conn(s, c), [s EXCEPT !.plan[c][d].status = "STARTED"]}
        \cup next_plan([s EXCEPT !.plan[c][d] = Unset], c)

\* Input first; output only if the input plan left the connection open.
io_ready(s, c, flags) ==
    LET after == IF "IN" \in flags THEN do_plan(s, c, "IN") ELSE {s}
    IN  IF "OUT" \notin flags THEN after
        ELSE UNION {IF IsOpen(t, c) THEN do_plan(t, c, "OUT") ELSE {t} : t \in after}

Init ==
    io \in {backend_new_plan(PollFor(add_fd(IoInit, c), c, "IN", "cb"), c) : c \in Conn}

HandleAlways ==
    /\ io.i = 0 /\ Eligible(io) # {}
    /\ io' \in next_plan(TakeAlways(io), io.always[Last1(io)][1])

Poll ==
    /\ io.i = 0 /\ Eligible(io) = {}
    /\ io.fds # << >>
    /\ io' \in PollReturns(io)

Scan ==
    /\ io.i > 0 /\ ~ScanOver(io)
    /\ LET c     == io.fds[io.i]
           flags == io.revents[c]
       IN  io' \in IF flags \cap Dir # {} THEN io_ready(Scanned(io), c, flags)
                   ELSE IF flags # {} THEN {destroy_conn(Scanned(io), c)}
                   ELSE {Scanned(io)}

ScanEnd ==
    /\ io.i > 0 /\ ScanOver(io)
    /\ io' = [io EXCEPT !.i = 0, !.r = 0]

Next == HandleAlways \/ Poll \/ Scan \/ ScanEnd

Spec == Init /\ [][Next]_io
-----------------------------------------------------------------------------
\* The always list holds exactly the always plans of open connections, once
\* each: io_do_always meets no plan of a freed connection.
AlwaysListExact ==
    /\ ToSet(io.always) = {p \in Conn \X Dir : /\ IsOpen(io, p[1])
                                               /\ io.plan[p[1]][p[2]].status = "ALWAYS"}
    /\ IsInjective(io.always)

\* A descriptor still to be scanned is ready only for plans that poll, though
\* callbacks earlier in the scan woke, closed and opened connections: the
\* assertion of do_plan.
ReadyPlansPoll ==
    \A n \in DOMAIN io.fds : io.i > 0 /\ n >= io.i =>
        \A d \in io.revents[io.fds[n]] \cap Dir :
            io.plan[io.fds[n]][d].status \in Polling

\* The number the loop asserts on before it sleeps counts the descriptors that
\* poll waits for, and those are the ones with a polling plan.
WaitingCounted ==
    /\ io.num_waiting = Cardinality({c \in ToSet(io.fds) : io.events[c] # {}})
    /\ \A c \in ToSet(io.fds) : io.events[c] = setup_pfd(io, c)

=============================================================================
