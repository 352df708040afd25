----------------------------- MODULE MCPlugin -----------------------------
(***************************************************************************)
(* Instances for TLC of the plugin's side: the commands of payecs_code,    *)
(* the plugin library with lightningd, a JSON stream with the connection   *)
(* that writes it out, and the timers of an event loop.  They do not touch *)
(* each other: a behaviour is one of a single component, chosen at the     *)
(* start, and the others keep their initial state.                         *)
(***************************************************************************)
EXTENDS PayecsCode, TLC

\* Two external systems, one of them registered in two conflicting ways, a
\* built-in name, and systems without required components.
CONSTANTS scalar, datum

MCScalar == {scalar}

New(system, required, disallowed) ==
    [system |-> system, required |-> required, disallowed |-> disallowed]

MCRegistration ==
    {New("example:a", <<"example:c">>, << >>),
     New("example:a", <<"example:c">>, <<"lightningd:nonce">>),
     New("example:b", << >>, << >>),
     New("example:b", << >>, <<"example:c">>),
     New("lightningd:generate_nonce", <<"example:c">>, << >>)}

MCPrepended == {<< >>, <<"example:a">>}

MCAppended == {<< >>, <<"example:b">>}

EmptyObject == [f \in {} |-> Null]

\* Detached, not an object, without a list, with a field that is not an array,
\* with a list nobody validated.
MCWritable ==
    "lightningd:systems" :>
        {Null, scalar, EmptyObject,
         "systems" :> scalar,
         "systems" :> <<"example:a", "example:b">>}
    @@ "lightningd:nonce" :> {Null, datum}
    @@ "example:c" :> {Null, datum}

-----------------------------------------------------------------------------

VARIABLES
    which,                          \* the component of this behaviour
    p, ld,
    mb, empty, wrapping, reader, len_read, writing, waiting, written, js_sent,
    now, ns, timer, pc, sleep, wait

\* Messages of two reads, two commands or notifications, and two requests.
LP == INSTANCE Libplugin WITH
    Conn <- {"stdin", "stdout", "rpc"}, Unruly <- FALSE, Units <- 2, MaxMsg <- 2, MaxReq <- 2

\* A buffer of four cells that may move when it grows.
ST == INSTANCE JsonStream WITH Pool <- 4, Bases <- {0, 100}, MaxOut <- 6, sent <- js_sent

\* Two nanoseconds to the microsecond, and so on: a millisecond is 4, a
\* second 8.  Poll is never asked for more than one millisecond.
TI == INSTANCE Time WITH
    Thousand <- 2, Rels <- {1, 3, 4, 6, 8, 11}, Steps <- {1, 3, 8}, INT_MAX <- 1, MaxTime <- 20

-----------------------------------------------------------------------------
pluginVars == <<p, ld>>
streamVars == <<mb, empty, wrapping, reader, len_read, writing, waiting, written, js_sent>>
timeVars == <<now, ns, timer, pc, sleep, wait>>

MCInit ==
    /\ which \in {"payecs_code", "libplugin", "stream", "time"}
    /\ Init /\ LP!Init /\ TI!Init
    /\ ST!Init /\ (which # "stream" => mb.base = 0)

MCNext ==
    /\ UNCHANGED which
    /\ \/ which = "payecs_code" /\ Next /\ UNCHANGED <<pluginVars, streamVars, timeVars>>
       \/ which = "libplugin" /\ LP!Next /\ UNCHANGED <<vars, streamVars, timeVars>>
       \/ which = "stream" /\ ST!Next /\ UNCHANGED <<vars, pluginVars, timeVars>>
       \/ which = "time" /\ TI!Next /\ UNCHANGED <<vars, pluginVars, streamVars>>

\* The fairness of each component, in the behaviours that are its own.
Fairness ==
    /\ WF_pluginVars(which = "libplugin" /\ LP!PluginNext)
    /\ WF_pluginVars(which = "libplugin" /\ LP!LdAnswers)
    /\ WF_streamVars(which = "stream" /\ ST!json_stream_output)
    /\ WF_streamVars(which = "stream" /\ ST!Write)
    /\ WF_timeVars(which = "time" /\ TI!io_loop)
    /\ WF_timeVars(which = "time" /\ TI!timerExpired)
    /\ WF_timeVars(which = "time" /\ TI!pollReturns /\ sleep \in 0 .. ns)
    /\ WF_timeVars(which = "time" /\ \E d \in {1, 3, 8} : TI!Tick(d))

MCSpec == MCInit /\ [][MCNext]_<<which, vars, pluginVars, streamVars, timeVars>> /\ Fairness
CodeSpec == which = "payecs_code" /\ MCInit /\ [][MCNext]_<<which, vars, pluginVars, streamVars, timeVars>>

-----------------------------------------------------------------------------
\* A command is answered once at most, a notification never; the answer to a
\* request finds it under the command that sent it, and that command is not
\* freed; handlers run after a successful init only; the plugin never sleeps
\* for good and has room to read into; and one that exits by itself has first
\* written all its output (plugins/libplugin.c, systems/defaulter.c:167).
PluginServes ==
    which = "libplugin" => /\ LP!AnsweredOnce
                           /\ LP!AnswersFindTheirRequest
                           /\ LP!ServesAfterInit
                           /\ LP!LoopCanWake
                           /\ LP!FlushedAtExit


\* The connection writes out what was added to the stream, in order and once,
\* however the buffer moves (common/json_stream.c, ccan/membuf), and commas
\* stand where they must and nowhere else (ccan/json_out/json_out.c).
StreamAsWritten == which = "stream" => ST!SentAsWritten /\ ST!WellFormed


\* Sums and differences of times are exact, and no wait is given up before its
\* time (ccan/time/time.h, tester/loop.c).  io_loop never sleeps past its first
\* timer, hands it out no sooner than a grain before its time, and hands every
\* timer out in the end (ccan/io/poll.c, ccan/timer/timer.c).
TimersOnTime ==
    /\ [](which = "time" => TI!TimesExact /\ TI!SleepsToTheTimer)
    /\ TI!TimerFires
=============================================================================
