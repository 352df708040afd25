--------------------------------- MODULE Io ---------------------------------
(***************************************************************************)
(* ccan/io: connections with an input and an output plan each, and the     *)
(* loop that serves them.  The operators are functions on one record, the  *)
(* static variables of poll.c and the plans of io.c; the module of a       *)
(* client gives the `next' callbacks (IoLoop, Libplugin).                  *)
(***************************************************************************)
EXTENDS Integers, SequencesExt

CONSTANT Conn   \* the connections that may be open

Dir == {"IN", "OUT"}
Polling == {"NOTSTARTED", "STARTED"}
None == "none"

Plan(status, wait, next) == [status |-> status, wait |-> wait, next |-> next]
Unset == Plan("UNSET", None, None)

IoInit ==
    [fds         |-> << >>,                         \* open, in pollfds order
     plan        |-> [c \in Conn |-> [d \in Dir |-> Unset]],
     events      |-> [c \in Conn |-> {}],           \* pollfds[].events
     revents     |-> [c \in Conn |-> {}],
     num_waiting |-> 0,
     always      |-> << >>,
     excl        |-> {},                            \* num_exclusive is its size
     ret         |-> FALSE,                         \* io_loop_return
     i           |-> 0,                             \* of the scan, or 0
     r           |-> 0]

IsOpen(s, c) == c \in ToSet(s.fds)
Count(b) == IF b THEN 1 ELSE 0

\* The last takes the place of the one removed.
SwapRemove(q, n) == IF n = Len(q) THEN Front(q) ELSE [Front(q) EXCEPT ![n] = Last(q)]
IndexOf(q, e) == CHOOSE n \in DOMAIN q : q[n] = e

\* Mutant of add_fd: revents is not cleared.
add_fd_StaleRevents(s, c) ==
    [s EXCEPT !.fds = Append(@, c), !.events[c] = {}, !.plan[c] = [d \in Dir |-> Unset]]

add_fd(s, c) ==
    [s EXCEPT !.fds = Append(@, c), !.events[c] = {}, !.revents[c] = {},
              !.plan[c] = [d \in Dir |-> Unset]]

del_fd(s, c) ==
    [s EXCEPT !.num_waiting = @ - Count(s.events[c] # {}),
              !.fds = SwapRemove(@, IndexOf(@, c)),
              !.excl = {p \in @ : p[1] # c},
              !.events[c] = {}]

remove_from_always(s, c, d) ==
    IF s.plan[c][d].status # "ALWAYS" THEN s
    ELSE [s EXCEPT !.always = SwapRemove(@, IndexOf(@, <<c, d>>))]

\* Mutant of destroy_conn: the output plan stays on the always list.
destroy_conn_InOnly(s, c) == remove_from_always(del_fd(s, c), c, "IN")

\* io_close; the finish callback is the client's.
destroy_conn(s, c) ==
    remove_from_always(remove_from_always(del_fd(s, c), c, "IN"), c, "OUT")

set_always(s, c, d, next) ==
    [s EXCEPT !.always = Append(@, <<c, d>>), !.plan[c][d] = Plan("ALWAYS", None, next)]

io_wait_dir(s, c, d, wait, next) ==
    [s EXCEPT !.plan[c][d] = Plan("WAITING", wait, next)]

\* io_read, io_read_partial, io_write and io_write_partial of a length > 0.
PollFor(s, c, d, next) ==
    [s EXCEPT !.plan[c][d] = Plan("NOTSTARTED", None, next)]

io_do_wakeup(s, c, d, wait) ==
    IF s.plan[c][d].status = "WAITING" /\ s.plan[c][d].wait = wait
    THEN set_always(s, c, d, s.plan[c][d].next) ELSE s

backend_wake(s, wait) ==
    FoldLeft(LAMBDA t, c : io_do_wakeup(io_do_wakeup(t, c, "IN", wait), c, "OUT", wait),
             s, s.fds)

backend_set_exclusive(s, c, d, excl) ==
    [s EXCEPT !.excl = IF excl THEN @ \cup {<<c, d>>} ELSE @ \ {<<c, d>>}]

setup_pfd(s, c) == {d \in Dir : s.plan[c][d].status \in Polling}

\* Mutant of backend_new_plan: the old events stay counted.
backend_new_plan_Recount(s, c) ==
    [s EXCEPT !.num_waiting = @ + Count(setup_pfd(s, c) # {}),
              !.events[c] = setup_pfd(s, c)]

backend_new_plan(s, c) ==
    [s EXCEPT !.num_waiting = @ - Count(s.events[c] # {}) + Count(setup_pfd(s, c) # {}),
              !.events[c] = setup_pfd(s, c)]

\* The always plans that may run, and the state in which one of them has been
\* taken off the list and its next function is about to be called.
Eligible(s) == {n \in DOMAIN s.always : s.excl = {} \/ s.always[n] \in s.excl}
Last1(s) == Max(Eligible(s))
TakeAlways(s) ==
    [s EXCEPT !.always = SwapRemove(@, Last1(s)),
              !.plan[s.always[Last1(s)][1]][s.always[Last1(s)][2]] = Unset]

\* What poll is asked about while some plan is exclusive (exclude_pollfds).
Polled(s, c) == {d \in s.events[c] : s.excl = {} \/ <<c, d>> \in s.excl}

\* poll returns with at least one event; restore_pollfds follows.
Happens(s) ==
    UNION {{c} \X (IF Polled(s, c) = {} THEN {} ELSE Polled(s, c) \cup {"HUP"}) :
              c \in ToSet(s.fds)}
PollReturns(s) ==
    {[s EXCEPT !.revents = [c \in Conn |-> IF IsOpen(s, c) THEN {d \in Dir \cup {"HUP"} : <<c, d>> \in ready}
                                           ELSE @[c]],
               !.events  = [c \in Conn |-> IF s.excl # {} /\ IsOpen(s, c)
                                           THEN setup_pfd(s, c) ELSE @[c]],
               !.i = 1,
               !.r = Cardinality({e[1] : e \in ready})] :
        ready \in SUBSET Happens(s) \ {{}}}

\* The end of the scan, or its next index with revents cleared.
ScanOver(s) == s.i > Len(s.fds) \/ s.ret \/ s.r = 0
Scanned(s) == [s EXCEPT !.i = @ + 1, !.r = @ - Count(s.revents[s.fds[s.i]] # {}),
                        !.revents[s.fds[s.i]] = {}]
=============================================================================
