-------------------------------- MODULE Tester --------------------------------
(***************************************************************************)
(* plugins/payz/tester: the harness that spawns the plugin, gives it the   *)
(* handshake and the test's commands on stdin, reads its stdout, reflects  *)
(* its payecs_system_trigger notifications, and plays lightningd's RPC     *)
(* socket from queues of responses the test adds.                          *)
(*                                                                         *)
(* The plugin is the environment: it answers every command once, in any    *)
(* order with its notifications, connects, sends requests, closes,         *)
(* crashes, and exits at end of file on stdin, which it drains.  A message *)
(* is a unit on stdout (the log entries, which are printed, are left out); *)
(* requests on the RPC socket have a size, because the code that reads     *)
(* them counts bytes in pages of 4096 (Page).  Time is two flags: the      *)
(* current loop is late, the current wait is overdue.                      *)
(***************************************************************************)
EXTENDS Integers, SequencesExt

CONSTANTS
    Method,     \* RPC methods, listconfigs among them
    Calls,      \* the calls of the test program
    Page,       \* bytes of the first read: 4096 in the program
    MaxConn,    \* bound: file descriptors for connections
    MaxCalls,   \* bound: calls of the test program
    MaxSends    \* bound: messages and requests the plugin starts

VARIABLES
    t,      \* struct payz_tester with its spawn, command and rpc objects
    w       \* the plugin, the pipes and the sockets between the two

vars == <<t, w>>

Conn == 1 .. MaxConn
Listen == 0
IdMod == 2      \* ids are compared only while one command is outstanding
Listconfigs == 0                    \* the one response that is built in
NoRequests == [m \in Method |-> << >>]
Closed == [open |-> FALSE, requests |-> NoRequests]

payz_tester_rpc_new ==
    [fds |-> <<Listen>>, conns |-> [c \in Conn |-> Closed], responses |-> NoRequests]

\* The object after the fork, before the handshake.
payz_tester_new ==
    [phase |-> "send", call |-> "getmanifest", ready |-> FALSE, id |-> 1, todo |-> << >>, off |-> 0,
     late |-> FALSE, overdue |-> FALSE, calls |-> 0, added |-> 0,
     queue |-> << >>, rpc |-> payz_tester_rpc_new, why |-> "none"]

payz_tester_spawn_new ==
    [alive |-> TRUE, eof |-> FALSE, stdout |-> << >>, open |-> {}, sends |-> 0,
     backlog |-> 0, sock |-> [c \in Conn |-> << >>], up |-> [c \in Conn |-> FALSE],
     resolved |-> << >>]

Init == t = payz_tester_new /\ w = payz_tester_spawn_new

\* errx: exit(1), whose handler frees the tester only once payz_tester_init
\* has got it from payz_tester_new.
errx(T, why) == [T EXCEPT !.phase = IF T.ready THEN "atexit" ELSE "exited", !.why = why,
                               !.todo = << >>, !.queue = << >>, !.late = FALSE, !.overdue = FALSE]
-----------------------------------------------------------------------------
(* Commands.                                                               *)


\* write_timed to a plugin that is gone is an error, else it all arrives.
payz_tester_command_send ==
    /\ t.phase = "send"
    /\ IF ~w.alive THEN t' = errx(t, "epipe") /\ UNCHANGED w
       ELSE /\ t' = [t EXCEPT !.phase = "loop"]
            /\ w' = [w EXCEPT !.open = @ \cup {t.id}]

Answer == {"value", "null", "error"}
\* The answers that satisfy the caller, by call.
Accepted == [getmanifest |-> Answer, init |-> Answer, systrace |-> Answer, listentities |-> Answer,
             ok |-> {"value", "null"}, expect |-> {"value"}, expectfail |-> {"error"},
             wait |-> {"value", "null"}, waitdetach |-> {"value", "null"}]

\* What the caller does with the answer: payz_tester_new, the
\* payz_tester_command_* checks, and the loop of
\* payz_tester_wait_component_generic.
Judge(T, answer) ==
    CASE answer \notin Accepted[T.call] -> errx(T, "expect")
      [] T.call = "getmanifest" -> [T EXCEPT !.phase = "send", !.call = "init"]
      [] T.call = "init" -> [T EXCEPT !.phase = "idle", !.ready = TRUE]
      [] T.call = "systrace" -> [T EXCEPT !.phase = "send", !.call = "listentities"]
      [] T.call = "listentities" -> errx(T, "timeout")
      [] <<T.call, answer>> \in {<<"wait", "null">>, <<"waitdetach", "value">>} ->
            [T EXCEPT !.phase = "send", !.call = IF T.overdue THEN "systrace" ELSE @]
      [] OTHER -> [T EXCEPT !.phase = "idle", !.overdue = FALSE]

\* The callback of the loop: a response in the queue, which must have the id.
wait_for_response ==
    /\ t.phase = "loop" /\ t.todo = << >> /\ t.queue # << >>
    /\ LET r == Head(t.queue)
           T == [t EXCEPT !.queue = Tail(@), !.late = FALSE]
       IN  IF r.id # t.id THEN t' = errx(T, "id")
           ELSE t' = Judge([T EXCEPT !.id = (@ + 1) % IdMod], r.answer)
    /\ UNCHANGED w
-----------------------------------------------------------------------------
(* The loop.                                                               *)

StdoutReady == w.stdout # << >> \/ ~w.alive
Ready(c) == IF c = Listen THEN w.backlog > 0 ELSE w.sock[c] # << >> \/ ~w.up[c]
RpcReady == SelectSeq(t.rpc.fds, Ready)

\* Mutant of payz_tester_loop_: only poll ends, not the time.
payz_tester_loop_Untimed ==
    /\ t.phase = "loop" /\ t.todo = << >> /\ t.queue = << >>
    /\ StdoutReady \/ RpcReady # << >>
    /\ t' = [t EXCEPT !.todo = (IF StdoutReady THEN <<"stdout">> ELSE << >>)
                               \o (IF RpcReady # << >> THEN <<"rpc">> ELSE << >>)]
    /\ UNCHANGED w

\* One turn without a response: late, or poll, whose events are handled in order.
payz_tester_loop_ ==
    /\ t.phase = "loop" /\ t.todo = << >> /\ t.queue = << >>
    /\ IF t.late THEN t' = errx(t, "timeout")
       ELSE /\ StdoutReady \/ RpcReady # << >>
            /\ t' = [t EXCEPT !.todo = (IF StdoutReady THEN <<"stdout">> ELSE << >>)
                                       \o (IF RpcReady # << >> THEN <<"rpc">> ELSE << >>)]
    /\ UNCHANGED w

\* Everything one read gives: triggers are reflected to stdin, which fails if
\* the plugin is gone, and responses queued.
payz_tester_command_check ==
    /\ t.phase = "loop" /\ t.todo # << >> /\ Head(t.todo) = "stdout"
    /\ IF w.stdout = << >> THEN t' = errx(t, "eof") /\ UNCHANGED w
       ELSE \E n \in 1 .. Len(w.stdout) :
            LET got(type) == SelectSeq(SubSeq(w.stdout, 1, n), LAMBDA m : m.type = type)
                T == [t EXCEPT !.todo = Tail(@), !.queue = @ \o got("response")]
            IN  /\ t' = IF got("trigger") # << >> /\ ~w.alive THEN errx(T, "epipe") ELSE T
                /\ w' = [w EXCEPT !.stdout = SubSeq(@, n + 1, Len(@))]

\* The RPC part polls again, then takes its file descriptors one by one.
payz_tester_rpc_check ==
    /\ t.phase = "loop" /\ t.todo # << >> /\ Head(t.todo) = "rpc"
    /\ t' = [t EXCEPT !.phase = "rpc", !.todo = RpcReady]
    /\ UNCHANGED w

Handled(T) == [T EXCEPT !.todo = Tail(@), !.off = 0, !.phase = IF Len(T.todo) = 1 THEN "loop" ELSE "rpc"]

payz_tester_rpc_conn_new(T, fd) ==
    [T EXCEPT !.rpc.fds = Append(@, fd), !.rpc.conns[fd].open = TRUE]

\* What was connected before the plugin exited is accepted all the same.
payz_tester_rpc_listenfd ==
    /\ t.phase = "rpc" /\ t.todo # << >> /\ Head(t.todo) = Listen
    /\ LET fd == Min({c \in Conn : ~t.rpc.conns[c].open /\ ~w.up[c]})
       IN  /\ t' = Handled(payz_tester_rpc_conn_new(t, fd))
           /\ w' = [w EXCEPT !.backlog = @ - 1, !.up[fd] = w.alive]

\* Mutant of payz_tester_rpc_queues_pop: the response stays in its queue.
payz_tester_rpc_queues_pop_Peek(T, method) == [T |-> T, r |-> Head(T.rpc.responses[method])]

payz_tester_rpc_queues_pop(T, method) ==
    [T |-> [T EXCEPT !.rpc.responses[method] = Tail(@)], r |-> Head(T.rpc.responses[method])]

\* The reply is written with the id of the request, unless the plugin has closed
\* the connection, which is an error.
payz_tester_rpc_resolve(s, c, m, id, r) ==
    IF s.W.up[c] THEN [s EXCEPT !.W.resolved = Append(@, [m |-> m, id |-> id, r |-> r])]
    ELSE [s EXCEPT !.T = errx(@, "epipe")]

payz_tester_rpc_conn_add_request(s, c, q) ==
    [s EXCEPT !.T.rpc.conns[c].requests[q.method] = Append(@, q.id)]

\* A request takes the response that waits for its method, or waits itself.
payz_tester_rpc_conn_process(s, c, q) ==
    IF q.method = "listconfigs"
    THEN payz_tester_rpc_resolve(s, c, q.method, q.id, Listconfigs)
    ELSE IF s.T.rpc.responses[q.method] = << >>
    THEN payz_tester_rpc_conn_add_request(s, c, q)
    ELSE LET p == payz_tester_rpc_queues_pop(s.T, q.method)
         IN  payz_tester_rpc_resolve([s EXCEPT !.T = p.T], c, q.method, q.id, p.r)

\* One after the other, as long as the tester runs.
payz_tester_rpc_conn_feed(T, W, c, data) ==
    FoldLeft(LAMBDA s, q : IF s.T.why = "none" THEN payz_tester_rpc_conn_process(s, c, q) ELSE s,
             [T |-> T, W |-> W], data)

Size(data) == FoldLeft(LAMBDA n, q : n + q.size, 0, data)
\* All the connection's requests that are complete when `read` returns.
Data(c) == w.sock[c]

\* Mutant of payz_tester_rpc_fd: only end of file ends the reading.
payz_tester_rpc_fd_ToEof ==
    /\ t.phase = "rpc" /\ t.todo # << >> /\ Head(t.todo) # Listen
    /\ ~w.up[Head(t.todo)]
    /\ LET c == Head(t.todo)
           s == payz_tester_rpc_conn_feed(Handled([t EXCEPT !.rpc.fds = SelectSeq(@, LAMBDA x : x # c),
                                                            !.rpc.conns[c] = Closed]),
                                          [w EXCEPT !.sock[c] = << >>], c, Data(c))
       IN  t' = s.T /\ w' = s.W

\* read() until it gives less than was asked for: a page first, then the rest of
\* the buffer.  The poll in between looks at events, which is never 0, so after
\* a full buffer the next read waits for more.  A short read ends it; nothing at
\* all is end of file.
payz_tester_rpc_fd ==
    /\ t.phase = "rpc" /\ t.todo # << >> /\ Head(t.todo) # Listen
    /\ LET c == Head(t.todo)
           off == Size(Data(c))
       IN  IF off > t.off /\ off % Page = 0
           THEN t' = [t EXCEPT !.off = off] /\ UNCHANGED w
           ELSE /\ off > t.off \/ ~w.up[c]
                /\ IF off = 0
                   THEN /\ t' = Handled([t EXCEPT !.rpc.fds = SelectSeq(@, LAMBDA x : x # c),
                                                  !.rpc.conns[c] = Closed])
                        /\ UNCHANGED w
                   ELSE LET s == payz_tester_rpc_conn_feed(Handled(t), [w EXCEPT !.sock[c] = << >>], c, Data(c))
                        IN  t' = s.T /\ w' = s.W
-----------------------------------------------------------------------------
(* The test program.                                                       *)

payz_tester_command_impl ==
    /\ t.phase = "idle" /\ t.calls < MaxCalls
    /\ \E call \in Calls :
          t' = [t EXCEPT !.phase = "send", !.call = call, !.calls = @ + 1]
    /\ UNCHANGED w

\* Mutant of payz_tester_rpc_add_response_obj: queued though a request waits.
payz_tester_rpc_add_response_obj_Queue(s, method, r) ==
    [s EXCEPT !.T.rpc.responses[method] = Append(@, r)]

payz_tester_rpc_queues_push(s, method, r) ==
    [s EXCEPT !.T.rpc.responses[method] = Append(@, r)]

\* The request that has waited longest on this connection.
payz_tester_rpc_conn_tryrespond(s, c, method, r) ==
    payz_tester_rpc_resolve([s EXCEPT !.T.rpc.conns[c].requests[method] = Tail(@)],
                            c, method, Head(s.T.rpc.conns[c].requests[method]), r)

\* The first connection in the order of the map that has a request waiting gets
\* the response; with none it is queued.
payz_tester_rpc_add_response_obj(s, method, r) ==
    LET waiting == {c \in Conn : s.T.rpc.conns[c].open /\ s.T.rpc.conns[c].requests[method] # << >>}
    IN  IF waiting = {} THEN payz_tester_rpc_queues_push(s, method, r)
        ELSE payz_tester_rpc_conn_tryrespond(s, Min(waiting), method, r)

\* listconfigs is answered by the tester itself.
payz_tester_rpc_add_response ==
    /\ t.phase = "idle" /\ t.calls < MaxCalls
    /\ \E m \in Method \ {"listconfigs"} :
          LET T == [t EXCEPT !.calls = @ + 1, !.added = @ + 1]
              s == payz_tester_rpc_add_response_obj([T |-> T, W |-> w], m, T.added)
          IN  t' = s.T /\ w' = s.W

\* The test returns from main.
Exit ==
    /\ t.phase = "idle"
    /\ t' = [t EXCEPT !.phase = "atexit"]
    /\ UNCHANGED w

\* payz_tester_spawn_destructor closes stdin; waitpid says 0 while the plugin
\* runs and ECHILD after, since SIGCHLD is ignored; then stdout is slurped.
payz_tester_spawn_destructor ==
    /\ t.phase = "atexit"
    /\ IF ~w.eof THEN w' = [w EXCEPT !.eof = TRUE] /\ UNCHANGED t
       ELSE /\ ~w.alive
            /\ w' = [w EXCEPT !.stdout = << >>]
            /\ t' = [t EXCEPT !.phase = "exited", !.rpc = payz_tester_rpc_new]

\* The time of the loop is up; nobody looks before it comes round.
Late ==
    /\ t.phase = "loop" /\ t.todo = << >> /\ t.queue = << >> /\ ~t.late
    /\ t' = [t EXCEPT !.late = TRUE]
    /\ UNCHANGED w

Overdue ==
    /\ t.phase \in {"send", "loop", "rpc"} /\ t.call \in {"wait", "waitdetach"} /\ ~t.overdue
    /\ t' = [t EXCEPT !.overdue = TRUE]
    /\ UNCHANGED w

TesterNext ==
    \/ payz_tester_command_send \/ wait_for_response \/ payz_tester_loop_
    \/ payz_tester_command_check \/ payz_tester_rpc_check \/ payz_tester_rpc_listenfd
    \/ payz_tester_rpc_fd \/ payz_tester_spawn_destructor
TestProgram == payz_tester_command_impl \/ payz_tester_rpc_add_response \/ Exit
-----------------------------------------------------------------------------
(* The plugin.                                                             *)

PluginAnswers ==
    /\ w.alive
    /\ \E id \in w.open, a \in Answer :
          w' = [w EXCEPT !.open = @ \ {id},
                         !.stdout = Append(@, [type |-> "response", id |-> id, answer |-> a])]
    /\ UNCHANGED t

PluginNotifies ==
    /\ w.alive /\ w.sends < MaxSends /\ t.ready
    /\ w' = [w EXCEPT !.sends = @ + 1,
                      !.stdout = Append(@, [type |-> "trigger", id |-> IdMod, answer |-> "null"])]
    /\ UNCHANGED t

\* It learns of the socket from init.
PluginConnects ==
    /\ w.alive /\ w.sends < MaxSends /\ t.call # "getmanifest"
    /\ w.backlog + Cardinality({c \in Conn : w.up[c] \/ t.rpc.conns[c].open}) < MaxConn
    /\ w' = [w EXCEPT !.sends = @ + 1, !.backlog = @ + 1]
    /\ UNCHANGED t

PluginRequests ==
    /\ w.alive /\ w.sends < MaxSends
    /\ \E c \in Conn, m \in Method :
          /\ w.up[c]
          /\ w' = [w EXCEPT !.sends = @ + 1,
                            !.sock[c] = Append(@, [id |-> w.sends, method |-> m, size |-> 1])]
    /\ UNCHANGED t

PluginCloses ==
    /\ w.alive
    /\ \E c \in Conn : w.up[c] /\ w' = [w EXCEPT !.up[c] = FALSE]
    /\ UNCHANGED t

\* At end of file on stdin, or in the middle of anything.
PluginExits ==
    /\ w.alive
    /\ w' = [w EXCEPT !.alive = FALSE, !.up = [c \in Conn |-> FALSE]]
    /\ UNCHANGED t

Plugin == PluginAnswers \/ PluginNotifies \/ PluginConnects
          \/ PluginRequests \/ PluginCloses \/ PluginExits

\* What else the plugin does once the tester is on its way out reaches nobody.
Next ==
    \/ TesterNext \/ TestProgram \/ Late \/ Overdue
    \/ t.phase \notin {"atexit", "exited"} /\ Plugin
    \/ t.phase = "atexit" /\ PluginExits

\* The tester runs, time passes, and a plugin whose stdin is closed exits.
Fairness == WF_vars(TesterNext) /\ WF_vars(Late) /\ WF_vars(Overdue) /\ WF_vars(w.eof /\ PluginExits)

Spec == Init /\ [][Next]_vars /\ Fairness
-----------------------------------------------------------------------------
\* A response never sits in its queue while a request for its method waits on
\* an open connection: whichever comes second finds the other.
NoneWaitsForTheOther ==
    \A m \in Method : t.rpc.responses[m] # << >> =>
        \A c \in Conn : t.rpc.conns[c].open => t.rpc.conns[c].requests[m] = << >>

\* Every request is answered at most once, and the responses of one method are
\* used once each, in the order the test added them.
EachResponseOnce ==
    \A i, j \in DOMAIN w.resolved : i < j =>
        LET x == w.resolved[i]
            y == w.resolved[j]
        IN  x.id # y.id /\ (x.m = y.m /\ x.m # "listconfigs" => x.r < y.r)

\* Whatever the plugin interleaves with its answers, the answer a command gets
\* is its own: the check of the id in wait_for_response never fails.
AnswerIsOwn == t.why # "id"

\* "This call does not block on input" (payz_tester_rpc_check).
RpcCheckReturns == (t.phase = "rpc") ~> (t.phase # "rpc")

\* A command ends: with its answer, or with the timeout of the loop.
CommandEnds == (t.phase = "loop") ~> (t.phase \in {"idle", "exited"})
=============================================================================
