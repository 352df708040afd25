----------------------------- MODULE MCClients -----------------------------
(***************************************************************************)
(* Instances for TLC of the programs that use the plugin's commands: the   *)
(* clients that transfer funds by compare-and-swap, and the tester with a  *)
(* plugin.  They do not touch each other: a behaviour is one of a single   *)
(* component, chosen at the start, and the other keeps its initial state.  *)
(***************************************************************************)
EXTENDS CasTransfer, TLC

CONSTANTS c1, c2

MCClient == {c1, c2}

VARIABLES
    which,                          \* the component of this behaviour
    t, w

\* A test of two calls; three things the plugin does by itself, too few to
\* fill the page of the first read.
TE == INSTANCE Tester WITH
    Method <- {"listconfigs", "pay"}, Calls <- {"wait"}, Page <- 4,
    MaxConn <- 1, MaxCalls <- 2, MaxSends <- 3

-----------------------------------------------------------------------------
testerVars == <<t, w>>

MCInit ==
    /\ which \in {"cas", "tester"}
    /\ Init /\ TE!Init
    /\ which = "tester" => \A a \in Account, c \in Client : Balance(a) = 0 /\ from[c] = 1

MCNext ==
    /\ UNCHANGED which
    /\ \/ which = "cas" /\ Next /\ UNCHANGED testerVars
       \/ which = "tester" /\ TE!Next /\ UNCHANGED vars
       \/ which = "tester" /\ t.phase = "exited" /\ UNCHANGED <<testerVars, vars>>

\* The fairness of each component, in the behaviours that are its own.
Fairness ==
    /\ \A c \in Client : WF_vars(which = "cas" /\ Work(c))
    /\ WF_testerVars(which = "tester" /\ TE!TesterNext)
    /\ WF_testerVars(which = "tester" /\ TE!Late)
    /\ WF_testerVars(which = "tester" /\ TE!Overdue)
    /\ WF_testerVars(which = "tester" /\ w.eof /\ TE!PluginExits)

MCSpec == MCInit /\ [][MCNext]_<<which, vars, testerVars>> /\ Fairness

-----------------------------------------------------------------------------

\* A command of a test ends, with its answer or with the timeout of the loop
\* (tester/loop.c, tester/command.c); and payz_tester_rpc_check returns, as long
\* as what is read does not end where a page does (tester/rpc.c).
CommandEnds == TE!CommandEnds /\ TE!RpcCheckReturns

=============================================================================
