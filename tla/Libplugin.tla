------------------------------ MODULE Libplugin ------------------------------
(***************************************************************************)
(* plugins/libplugin.c: the loop of a plugin between lightningd's pipes    *)
(* and its RPC socket, with payz's handlers on top.                        *)
(*                                                                         *)
(* `p' is struct plugin with the state of ccan/io in p.io.  A callback of  *)
(* the loop runs to its end before the loop goes on: while p.at is not     *)
(* "loop" only that callback steps.  A message is a sequence of units, so  *)
(* that a read may end inside one.  A handler answers its command or sends *)
(* a request whose answer calls it back; lightningd answers requests in    *)
(* any order, with a result or an error.                                   *)
(***************************************************************************)
EXTENDS Io, Functions

CONSTANTS
    Unruly,     \* may the first message be other than getmanifest?
    Units,      \* units of a message on stdin
    MaxMsg,     \* bound: commands and notifications lightningd sends
    MaxReq      \* bound: requests of all handlers together

VARIABLES p, ld
vars == <<p, ld>>

-----------------------------------------------------------------------------
ld_send(q, out) ==
    [q EXCEPT !.js_arr = Append(@, out), !.io = backend_wake(@, "plugin")]


ld_rpc_send(q, req) ==
    [q EXCEPT !.rpc_js_arr = Append(@, req), !.io = backend_wake(@, "io_rpc_conn")]

Output(type, n) == [type |-> type, n |-> n]

\* Mutant of plugin_exit: it exits at once.
plugin_exit_Direct(q, code) == [q EXCEPT !.exiting = TRUE, !.code = code, !.exit = code]

\* It runs a loop of its own in which only stdout is served, and never returns.
plugin_exit(q, code) ==
    [q EXCEPT !.exiting = TRUE, !.code = code, !.at = "loop",
              !.io = [backend_wake(backend_set_exclusive(@, "stdout", "OUT", TRUE), "plugin")
                        EXCEPT !.i = 0, !.r = 0]]

jsonrpc_finish_and_send(q, out) == ld_send(q, out)
plugin_logv(q) == jsonrpc_finish_and_send(q, Output("log", 0))
plugin_notification_end(q) == jsonrpc_finish_and_send(q, Output("trigger", 0))
plugin_err(q) == plugin_exit(plugin_logv(q), 1)

\* The exit status of a process that runs.
NotYet == -1
exit(q, code) == [q EXCEPT !.exit = code]
Ended(q) == q.exiting \/ q.exit # NotYet

\* Mutant of command_complete: the command is not freed.
command_complete_Kept(q, n, type) == ld_send(q, Output(type, n))

\* The answer is queued and the command freed.
command_complete(q, n, type) == [ld_send(q, Output(type, n)) EXCEPT !.cmds = @ \ {n}]
command_done_raw(q, n) == command_complete(q, n, "result")
command_done_err(q, n) == command_complete(q, n, "error")

notification_handled(q, n) == [q EXCEPT !.cmds = @ \ {n}]

\* A request of command n is entered under an id; it is sent when complete.
Requested(q, id, n) ==
    [q EXCEPT !.sent = @ + 1,
              !.out_reqs = [i \in DOMAIN @ \cup {id} |-> IF i = id THEN n ELSE @[i]],
              !.req = [id |-> id, cmd |-> n]]

jsonrpc_request_start_(q, n) == Requested(q, q.sent, n)

send_outreq(q) == ld_rpc_send(q, q.req)

\* What a handler or a callback does with its command: it passes on a result
\* or an error, or asks lightningd for something first.  One that advances an
\* entity triggers the next system before it is done.
Handle(q, m) ==
    (IF m.method = "notification"
     THEN {notification_handled(t, m.n) : t \in {q, plugin_notification_end(q)}}
     ELSE {command_done_raw(t, m.n) : t \in {q, plugin_notification_end(q)}}
          \cup {command_done_err(q, m.n)})
    \cup (IF q.sent < MaxReq THEN {send_outreq(jsonrpc_request_start_(q, m.n))} ELSE {})

handle_getmanifest(q) == [command_complete(q, 0, "manifest") EXCEPT !.manifested = TRUE]

rpc_conn_init(q) ==
    LET opened == PollFor(add_fd(q.io, "rpc"), "rpc", "IN", "rpc_conn_read_response")
        both   == io_wait_dir(opened, "rpc", "OUT", "io_rpc_conn", "rpc_conn_write_request")
    IN  [q EXCEPT !.io = backend_new_plan(both, "rpc")]

\* A whole message is read, or lightningd has gone, or the read fails.
read_json_from_rpc(q) == {q, exit(q, 0), plugin_err(q)}

\* ... and it may be malformed, or neither a result nor an error.
read_rpc_reply(q) == read_json_from_rpc(q) \cup {plugin_err(q)}

\* Mutant of rpc_scan: what cannot be scanned is passed over.
rpc_scan_Lenient(q) ==
    {q} \cup {IF Ended(t) THEN t ELSE [t EXCEPT !.default_maxdelay = TRUE] : t \in read_rpc_reply(q)}

\* The answer to listconfigs is an error, or lacks the field, or has it.
rpc_scan(q) ==
    {plugin_err(q)} \cup
    {IF Ended(t) THEN t ELSE [t EXCEPT !.default_maxdelay = TRUE] : t \in read_rpc_reply(q)}

\* Bad parameters, or an option that is refused; no connection, which is
\* logged and fails in the first read; otherwise payz_top_init, and when that
\* returns the connection is handed to the loop and init is answered.
handle_init(q) ==
    LET done(t) == [command_complete(rpc_conn_init(t), 0, "init") EXCEPT !.initialized = TRUE]
    IN  {plugin_err(q), plugin_err(plugin_logv(q))} \cup
        {IF Ended(t) THEN t ELSE done(t) : t \in rpc_scan(q)}

ld_command_handle(q, m) ==
    CASE ~q.manifested ->
            IF m.method = "getmanifest" THEN {handle_getmanifest(q)} ELSE {plugin_err(q)}
      [] q.manifested /\ ~q.initialized ->
            IF m.method = "init" THEN handle_init(q) ELSE {plugin_err(q)}
      [] OTHER ->
            IF m.method \in {"command", "notification"}
            THEN Handle([q EXCEPT !.cmds = @ \cup {m.n}], m)
            ELSE {plugin_err(q)}

\* Mutant of handle_rpc_reply: the request stays in out_reqs.
handle_rpc_reply_Keep(q, a) ==
    IF a.id \notin DOMAIN q.out_reqs THEN {plugin_err(q)}
    ELSE LET n == q.out_reqs[a.id] IN Handle(q, [method |-> q.kind[n], n |-> n])

\* cb or errcb of the request, which is taken off the map first.
handle_rpc_reply(q, a) ==
    IF a.id \notin DOMAIN q.out_reqs THEN {plugin_err(q)}
    ELSE LET n == q.out_reqs[a.id]
         IN  Handle([q EXCEPT !.out_reqs = Restrict(@, DOMAIN @ \ {a.id})],
                    [method |-> q.kind[n], n |-> n])
-----------------------------------------------------------------------------
\* The first message of a buffer is complete when its last unit is there.
Complete(buf) == \E k \in DOMAIN buf : buf[k].last
EndOfFirst(buf) == Min({k \in DOMAIN buf : buf[k].last})
Drop(buf, k) == SubSeq(buf, k + 1, Len(buf))

\* Mutant of ld_read_json: the buffer does not grow.
ld_read_json_Fixed(q, got) == [q EXCEPT !.buffer = @ \o got, !.at = "ld_read_json"]

\* A full buffer is doubled; then every complete message is handled.
ld_read_json(q, got) ==
    [q EXCEPT !.buffer = @ \o got, !.at = "ld_read_json",
              !.size = IF Len(q.buffer) + Len(got) = @ THEN 2 * @ ELSE @]

ld_read_json_one(q) ==
    LET done(t) == IF Ended(t) THEN t
                   ELSE [t EXCEPT !.buffer = Drop(@, EndOfFirst(@))]
    IN  {done(t) : t \in ld_command_handle(q, q.buffer[EndOfFirst(q.buffer)].msg)}

rpc_read_response_one(q) ==
    LET done(t) == IF t.exiting THEN t ELSE [t EXCEPT !.rpc_buffer = Tail(@)]
    IN  {done(t) : t \in handle_rpc_reply(q, q.rpc_buffer[1])}

\* Mutant of ld_write_json: the loop goes on when the last output is out.
ld_write_json_GoesOn(q) ==
    IF q.js_arr # << >>
    THEN [q EXCEPT !.io = PollFor(@, "stdout", "OUT", "json_stream_output_write")]
    ELSE [q EXCEPT !.io = io_wait_dir(@, "stdout", "OUT", "plugin", "ld_write_json")]

ld_write_json(q) ==
    IF q.js_arr # << >>
    THEN [q EXCEPT !.io = PollFor(@, "stdout", "OUT", "json_stream_output_write")]
    ELSE [q EXCEPT !.io = [io_wait_dir(@, "stdout", "OUT", "plugin", "ld_write_json")
                             EXCEPT !.ret = @ \/ q.exiting]]

\* The head of the queue is written: ld_stream_complete drops it and goes on.
ld_stream_complete(q) == ld_write_json([q EXCEPT !.js_arr = Tail(@)])

rpc_conn_write_request(q) ==
    IF q.rpc_js_arr # << >>
    THEN [q EXCEPT !.io = PollFor(@, "rpc", "OUT", "json_stream_output_write")]
    ELSE [q EXCEPT !.io = io_wait_dir(@, "rpc", "OUT", "io_rpc_conn", "rpc_conn_write_request")]

rpc_stream_complete(q) == rpc_conn_write_request([q EXCEPT !.rpc_js_arr = Tail(@)])

NewPlan(q, c) == [q EXCEPT !.io = backend_new_plan(@, c)]
-----------------------------------------------------------------------------
\* stdin_conn_init reads, stdout_conn_init waits on its input plan.
new_plugin ==
    LET in  == backend_new_plan(PollFor(add_fd(IoInit, "stdin"), "stdin", "IN", "ld_read_json"),
                                "stdin")
        out == io_wait_dir(add_fd(in, "stdout"), "stdout", "IN", "plugin", "ld_write_json")
    IN  [io |-> out, at |-> "loop", manifested |-> FALSE, initialized |-> FALSE,
         exiting |-> FALSE, code |-> 0, exit |-> NotYet, default_maxdelay |-> FALSE,
         buffer |-> << >>, size |-> 2, rpc_buffer |-> << >>, js_arr |-> << >>,
         rpc_js_arr |-> << >>, out_reqs |-> [i \in {} |-> 0], sent |-> 0, cmds |-> {},
         req |-> [id |-> 0, cmd |-> 0], kind |-> << >>]

Init ==
    /\ p = new_plugin
    /\ ld = [pipe |-> << >>, sent |-> 0, got |-> << >>, asked |-> {}, answers |-> << >>,
             dead |-> FALSE]

Running == p.exit = NotYet
InLoop == Running /\ p.at = "loop" /\ ~p.io.ret

\* External: one message at a time until init is answered, then up to MaxMsg.
Received(type) == \E k \in DOMAIN ld.got : ld.got[k].type = type
LdSends ==
    /\ ~ld.dead
    /\ \E m \in {"getmanifest", "init", "command", "notification"} :
        /\ \/ ld.sent = 0 /\ (m = "getmanifest" \/ Unruly)
           \/ m = "init" /\ ld.sent = 1 /\ Received("manifest")
           \/ m \in {"command", "notification"} /\ ld.sent \in 2 .. MaxMsg + 1 /\ Received("init")
        /\ ld' = [ld EXCEPT !.sent = @ + 1,
                            !.pipe = @ \o [k \in 1 .. Units |->
                                [msg |-> [method |-> m, n |-> ld.sent + 1], last |-> k = Units]]]
        /\ p' = [p EXCEPT !.kind = Append(@, m)]

\* External: any request received is answered, in any order.
LdAnswers ==
    /\ ~ld.dead
    /\ \E a \in ld.asked :
           ld' = [ld EXCEPT !.asked = @ \ {a}, !.answers = Append(@, a)]
    /\ UNCHANGED p

\* External: lightningd ends and its pipes with it.
LdDies == ~ld.dead /\ ld' = [ld EXCEPT !.dead = TRUE] /\ UNCHANGED p

\* handle_always: the plan's callback, then its events.
HandleAlways ==
    /\ InLoop /\ p.io.i = 0 /\ Eligible(p.io) # {}
    /\ LET plan == p.io.always[Last1(p.io)]
           next == p.io.plan[plan[1]][plan[2]].next
           q    == [p EXCEPT !.io = TakeAlways(@)]
       IN  p' = NewPlan(IF next = "ld_write_json" THEN ld_write_json(q)
                        ELSE rpc_conn_write_request(q), plan[1])
    /\ UNCHANGED ld

\* Input is ready when there is some or lightningd is gone.
Readable(c) == ld.dead \/ (IF c = "rpc" THEN ld.answers # << >> ELSE ld.pipe # << >>)
Poll ==
    /\ InLoop /\ p.io.i = 0 /\ Eligible(p.io) = {}
    /\ \E s \in PollReturns(p.io) :
        /\ \A c \in Conn : "HUP" \notin s.revents[c]
        /\ \A c \in ToSet(s.fds) : "IN" \in Polled(p.io, c) /\ Readable(c) => "IN" \in s.revents[c]
        /\ \A c \in ToSet(s.fds) : "IN" \in s.revents[c] => Readable(c)
        /\ p' = [p EXCEPT !.io = s]
    /\ UNCHANGED ld

Turn(c, d) ==
    /\ InLoop /\ p.io.i > 0 /\ ~ScanOver(p.io)
    /\ p.io.fds[p.io.i] = c
    /\ d \in p.io.revents[c]
    /\ d = "OUT" => "IN" \notin p.io.revents[c]

\* The plan is unset and revents cleared as its io function reports the end;
\* the scan moves on when the connection has no other side to serve.
Served(q, c, d) ==
    LET s == IF q.io.revents[c] = {d} THEN Scanned(q.io)
             ELSE [q.io EXCEPT !.revents[c] = @ \ {d}]
    IN  [q EXCEPT !.io = [s EXCEPT !.plan[c][d] = Unset]]

ReadStdin ==
    /\ Turn("stdin", "IN")
    /\ IF ld.pipe = << >>
       THEN p' = exit(p, 0) /\ UNCHANGED ld
       ELSE \E k \in 1 .. Len(ld.pipe) :
                /\ k <= p.size - Len(p.buffer)
                /\ p' = ld_read_json(Served(p, "stdin", "IN"), SubSeq(ld.pipe, 1, k))
                /\ ld' = [ld EXCEPT !.pipe = Drop(@, k)]

\* One turn of ld_read_json's loop; then it reads again.
HandleInput ==
    /\ Running /\ p.at = "ld_read_json"
    /\ IF Complete(p.buffer) THEN p' \in ld_read_json_one(p)
       ELSE p' = NewPlan([p EXCEPT !.at = "loop",
                                   !.io = PollFor(@, "stdin", "IN", "ld_read_json")], "stdin")
    /\ UNCHANGED ld

\* The rpc socket closed is an error, the pipe closed is the end.
ReadRpc ==
    /\ Turn("rpc", "IN")
    /\ IF ld.answers = << >>
       THEN p' = plugin_err([p EXCEPT !.io = destroy_conn(@, "rpc")]) /\ UNCHANGED ld
       ELSE \E k \in 1 .. Len(ld.answers) :
                /\ p' = [Served(p, "rpc", "IN") EXCEPT
                           !.rpc_buffer = SubSeq(ld.answers, 1, k), !.at = "rpc_conn_read_response"]
                /\ ld' = [ld EXCEPT !.answers = Drop(@, k)]

HandleReply ==
    /\ Running /\ p.at = "rpc_conn_read_response"
    /\ IF p.rpc_buffer # << >> THEN p' \in rpc_read_response_one(p)
       ELSE p' = NewPlan([p EXCEPT !.at = "loop",
                                   !.io = PollFor(@, "rpc", "IN", "rpc_conn_read_response")], "rpc")
    /\ UNCHANGED ld

WriteStdout ==
    /\ Turn("stdout", "OUT")
    /\ IF ld.dead THEN p' = exit(p, 0) /\ UNCHANGED ld
       ELSE /\ p' = NewPlan(ld_stream_complete(Served(p, "stdout", "OUT")), "stdout")
            /\ ld' = [ld EXCEPT !.got = Append(@, p.js_arr[1])]

\* Writing to a closed socket leaves the plan unset: the read will fail.
WriteRpc ==
    /\ Turn("rpc", "OUT")
    /\ IF ld.dead THEN p' = NewPlan(Served(p, "rpc", "OUT"), "rpc") /\ UNCHANGED ld
       ELSE /\ p' = NewPlan(rpc_stream_complete(Served(p, "rpc", "OUT")), "rpc")
            /\ ld' = [ld EXCEPT !.asked = @ \cup {p.rpc_js_arr[1]}]

ScanIdle ==
    /\ InLoop /\ p.io.i > 0
    /\ \/ ScanOver(p.io) /\ p' = [p EXCEPT !.io.i = 0, !.io.r = 0]
       \/ /\ ~ScanOver(p.io) /\ p.io.revents[p.io.fds[p.io.i]] = {}
          /\ p' = [p EXCEPT !.io = Scanned(@)]
    /\ UNCHANGED ld

\* plugin_exit's loop returned.
Exit == Running /\ p.io.ret /\ p' = exit(p, p.code) /\ UNCHANGED ld

PluginNext ==
    \/ HandleAlways \/ Poll \/ ScanIdle \/ ReadStdin \/ HandleInput \/ ReadRpc
    \/ HandleReply \/ WriteStdout \/ WriteRpc \/ Exit

Next == LdSends \/ LdAnswers \/ LdDies \/ PluginNext

\* The plugin runs whenever it can, and lightningd answers what it is asked.
Fairness == WF_vars(PluginNext) /\ WF_vars(LdAnswers)

Spec == Init /\ [][Next]_vars /\ Fairness
-----------------------------------------------------------------------------
Answers(n) ==
    {k \in DOMAIN ld.got : ld.got[k].n = n /\ ld.got[k].type \in {"result", "error"}}
Queued(n) ==
    {k \in DOMAIN p.js_arr : p.js_arr[k].n = n /\ p.js_arr[k].type \in {"result", "error"}}

\* A command is answered once at most, and it is freed exactly when its
\* answer is queued; a notification is never answered.
AnsweredOnce ==
    \A n \in 1 .. ld.sent :
        LET answers == Cardinality(Answers(n)) + Cardinality(Queued(n))
        IN  /\ answers <= Count(p.kind[n] = "command")
            /\ answers = 1 => n \notin p.cmds

\* The answer to a request finds it in out_reqs, under the command that sent
\* it, and that command is not freed: whatever the order of the answers, no
\* callback gets another's command and "unknown id" is never met.
AnswersFindTheirRequest ==
    /\ \A a \in ld.asked \cup ToSet(ld.answers) \cup ToSet(p.rpc_buffer) \cup ToSet(p.rpc_js_arr) :
           \/ a.id \in DOMAIN p.out_reqs /\ p.out_reqs[a.id] = a.cmd
           \/ p.exiting \/ ~Running
    /\ \A id \in DOMAIN p.out_reqs : p.out_reqs[id] \in p.cmds

\* Handlers, the default of maxdelay included (defaulter.c asserts it is set),
\* run after a successful init only.
ServesAfterInit == p.cmds # {} => p.initialized /\ p.default_maxdelay

\* The plugin never sleeps for good ("You can't tell them all to go to
\* sleep!"), and the buffer it reads into always has room.
LoopCanWake ==
    InLoop /\ p.io.i = 0 /\ Eligible(p.io) = {}
        => p.io.num_waiting > 0 /\ Len(p.buffer) < p.size

\* A plugin that exits by itself has first written all its output.
FlushedAtExit == p.exit = 1 => p.js_arr = << >>

\* plugin_exit "makes sure to flush output" and exits (libplugin.h): once it
\* is called the process ends.
ExitHappens == p.exiting ~> ~Running

=============================================================================
