------------------------------ MODULE Launcher -------------------------------
(***************************************************************************)
(* The commands that start and stop the daemon: C:tolunnet itself with     *)
(* START, STOP, RECONFIG, STATUS, STATS or no keyword (main() of           *)
(* src/src/task/daemon_main.c), NetShutdown, TolunnetControl and the       *)
(* buttons of TolunnetPrefs.  They know the daemon by its public port      *)
(* alone.  What the daemon does between AddPort and RemPort is module      *)
(* DaemonLifecycle; here it serves, may refuse a STOP, and answers one it  *)
(* accepts after its port is gone.                                         *)
(***************************************************************************)
EXTENDS Integers

CONSTANTS
    LaTools,    \* command invocations, one command each
    LaDaemons   \* daemon processes

NoDaemon == "none"

\* What the constants must satisfy.
LaAssumption == NoDaemon \notin LaDaemons

VARIABLES
    la_store,   \* a configuration store exists
    la_daemon,  \* phase of each daemon process
    la_tool,    \* [cmd, step, asked: the daemon a STOP went to, rc: -1 while running]
    la_break,   \* daemons sent SIGBREAKF_CTRL_C
    la_met      \* history: pairs that had both looked and not yet added a port
lavars == <<la_store, la_daemon, la_tool, la_break, la_met>>

LaCommands == {"START", "STOP", "QUERY", "NETSHUTDOWN", "RESTART", "PREFSSTART", "PREFSSTOP"}
Stoppers == {"STOP", "NETSHUTDOWN", "RESTART"}
Public == {d \in LaDaemons : la_daemon[d] \in {"serving", "stopping"}}
Looked == {d \in LaDaemons : la_daemon[d] = "starting"}

----------------------------------------------------------------------------
AtStep(t, step) == la_tool[t].step = step
Step(t, step) == la_tool' = [la_tool EXCEPT ![t].step = step]
Exit(t, rc) == la_tool' = [la_tool EXCEPT ![t].step = "out", ![t].rc = rc]
Become(d, phase) == la_daemon' = [la_daemon EXCEPT ![d] = phase]

\* FindPort() in a loop of Delay(5): go on when there is no port, give up
\* while there is one.
NoLook(no, yes) == no \/ yes
LookForPort(no, yes) == \/ Public = {} /\ no
                        \/ Public # {} /\ yes

\* START and the RESTART that got this far, or the Prefs button, which looks
\* once and wants no store: a new process runs C:tolunnet.
Launch(t) ==
    \E d \in LaDaemons :
        /\ la_daemon[d] = "none" /\ Become(d, "launched") /\ Exit(t, 0)
ToolStart(t) ==
    /\ AtStep(t, "start")
    /\ LookForPort(/\ \/ (la_store \/ la_tool[t].cmd = "PREFSSTART") /\ Launch(t)
                      \/ ~la_store /\ la_tool[t].cmd # "PREFSSTART" /\ Exit(t, 5) /\ UNCHANGED la_daemon,
                   Exit(t, 5) /\ UNCHANGED la_daemon)
    /\ UNCHANGED <<la_store, la_break, la_met>>

\* The first look of STOP and NetShutdown.
ToolStopLooks(t) ==
    /\ AtStep(t, "stop")
    /\ LookForPort(Exit(t, 5), Step(t, "ask"))
    /\ UNCHANGED <<la_store, la_daemon, la_break, la_met>>

\* tn_ipc_oneshot(STOP): the port is found again and the message put under one
\* Forbid(); by now it may be gone.  The daemon refuses (EBUSY), or holds the
\* message while it shuts down.
ToolStopAsks(t) ==
    /\ AtStep(t, "ask")
    /\ \/ Public = {} /\ Exit(t, 5) /\ UNCHANGED la_daemon
       \/ Public # {} /\ Exit(t, 5) /\ UNCHANGED la_daemon
       \/ \E d \in Public :
            /\ la_daemon[d] = "serving" /\ Become(d, "stopping")
            /\ la_tool' = [la_tool EXCEPT ![t].step = "wait", ![t].asked = d]
    /\ UNCHANGED <<la_store, la_break, la_met>>

\* The answer: STOP says "stopped", NetShutdown looks for the port once more,
\* RESTART goes on to START.
AnsweredEarly(t) == la_tool[t].asked # NoDaemon
StopAnswered(t) == la_tool[t].asked # NoDaemon /\ la_daemon[la_tool[t].asked] = "gone"
ToolStopped(t) ==
    /\ AtStep(t, "wait") /\ StopAnswered(t)
    /\ \/ la_tool[t].cmd = "STOP" /\ Exit(t, 0)
       \/ la_tool[t].cmd = "NETSHUTDOWN" /\ LookForPort(Exit(t, 0), Exit(t, 5))
       \/ la_tool[t].cmd = "RESTART" /\ Step(t, "start")
    /\ UNCHANGED <<la_store, la_daemon, la_break, la_met>>

\* RECONFIG, STATUS and STATS put one question; -1 means no daemon.
ToolAsks(t) ==
    /\ AtStep(t, "query")
    /\ LookForPort(Exit(t, 5), \E rc \in {0, 5} : Exit(t, rc))
    /\ UNCHANGED <<la_store, la_daemon, la_break, la_met>>

\* daemon_stop() of TolunnetPrefs: found and signalled under one Forbid().
PrefsStop(t) ==
    /\ AtStep(t, "signal")
    /\ Exit(t, 0)
    /\ \/ Public = {} /\ UNCHANGED la_break
       \/ \E d \in Public : la_break' = la_break \cup {d}
    /\ UNCHANGED <<la_store, la_daemon, la_met>>

\* A user gives a command.
FirstStep == [START |-> "start", PREFSSTART |-> "start", STOP |-> "stop", NETSHUTDOWN |-> "stop",
              RESTART |-> "stop", QUERY |-> "query", PREFSSTOP |-> "signal"]
ToolBegins(t) ==
    /\ AtStep(t, "none")
    /\ \E c \in LaCommands :
          la_tool' = [la_tool EXCEPT ![t] = [cmd |-> c, step |-> FirstStep[c], asked |-> NoDaemon, rc |-> -1]]
    /\ UNCHANGED <<la_store, la_daemon, la_break, la_met>>

----------------------------------------------------------------------------
\* The new process is C:tolunnet without a keyword: it looks for the port (20
\* times), for a store, and in tn_task_real_main for the port again (10
\* times); then the timer, lwIP and the device are opened.
DaemonLooks(d) ==
    /\ la_daemon[d] = "launched"
    /\ LookForPort(/\ Become(d, IF la_store THEN "starting" ELSE "gone")
                   /\ la_met' = la_met \cup (IF la_store THEN {{d, e} : e \in Looked} ELSE {}),
                   Become(d, "gone") /\ UNCHANGED la_met)
    /\ UNCHANGED <<la_store, la_tool, la_break>>
\* AddPort(), long after the look, or a failure on the way to it.
DaemonUp(d) ==
    /\ la_daemon[d] = "starting" /\ (Become(d, "serving") \/ Become(d, "gone"))
    /\ UNCHANGED <<la_store, la_tool, la_break, la_met>>
\* RemPort() and the end: of a STOP, or of a break with no client left.
DaemonDown(d) ==
    /\ la_daemon[d] = "stopping" \/ (la_daemon[d] = "serving" /\ d \in la_break)
    /\ Become(d, "gone")
    /\ UNCHANGED <<la_store, la_tool, la_break, la_met>>
\* The gate finds a client that opened meanwhile: the STOP is answered EBUSY.
DaemonStays(d) ==
    /\ la_daemon[d] = "stopping" /\ Become(d, "serving")
    /\ la_tool' = [t \in LaTools |-> IF AtStep(t, "wait") /\ la_tool[t].asked = d
                                     THEN [la_tool[t] EXCEPT !.step = "out", !.rc = 5] ELSE la_tool[t]]
    /\ UNCHANGED <<la_store, la_break, la_met>>

LaInit ==
    /\ la_store \in BOOLEAN
    /\ la_daemon = [d \in LaDaemons |-> "none"] /\ la_break = {} /\ la_met = {}
    /\ la_tool = [t \in LaTools |-> [cmd |-> "none", step |-> "none", asked |-> NoDaemon, rc |-> -1]]
LaNext ==
    \/ \E t \in LaTools : \/ ToolBegins(t) \/ ToolStart(t) \/ ToolStopLooks(t) \/ ToolStopAsks(t)
                          \/ ToolStopped(t) \/ ToolAsks(t) \/ PrefsStop(t)
    \/ \E d \in LaDaemons : DaemonLooks(d) \/ DaemonUp(d) \/ DaemonDown(d) \/ DaemonStays(d)

----------------------------------------------------------------------------
LaTypeOK ==
    /\ la_store \in BOOLEAN /\ la_break \subseteq LaDaemons /\ la_met \subseteq SUBSET LaDaemons
    /\ la_daemon \in [LaDaemons -> {"none", "launched", "starting", "serving", "stopping", "gone"}]
    /\ la_tool \in [LaTools -> [cmd : LaCommands \cup {"none"},
          step : {"none", "start", "stop", "ask", "wait", "query", "signal", "out"},
          asked : LaDaemons \cup {NoDaemon}, rc : {-1, 0, 5}]]

\* Two daemons have a public port at once only when each of them had looked for
\* one before the other added its own, which the distance between the look and
\* AddPort() allows; no race of the commands and no shutdown under way lets a
\* second one in any other way.  And a command that says "stopped" (STOP,
\* NetShutdown, the first half of RESTART) is right about the daemon it asked.
SecondPortRaced ==
    /\ \A d, e \in Public : d # e => {d, e} \in la_met
    /\ \A t \in LaTools :
          la_tool[t].cmd \in Stoppers /\ (la_tool[t].rc = 0 \/ AtStep(t, "start"))
             => la_daemon[la_tool[t].asked] = "gone"
----------------------------------------------------------------------------
(* The strengthening of SecondPortRaced that every step keeps. *)

\* A daemon that has looked for the port and has not removed its own.
Underway(d) == la_daemon[d] \in {"starting", "serving", "stopping"}

\* A tool's step is one of its command's, it has no exit code before it is out,
\* and one that reports a stop was answered by a daemon that has ended.
ToolTrue(c) ==
    /\ c.step # "out" => c.rc = -1
    /\ c.step = "none" => c.cmd = "none"
    /\ c.step = "query" => c.cmd = "QUERY"
    /\ c.step = "signal" => c.cmd = "PREFSSTOP"
    /\ c.step \in {"stop", "ask", "wait"} => c.cmd \in Stoppers
    /\ c.cmd \in Stoppers /\ (c.rc = 0 \/ c.step = "start") =>
          c.asked \in LaDaemons /\ la_daemon[c.asked] = "gone"

LaInv ==
    /\ LaTypeOK
    /\ \A d, e \in LaDaemons : Underway(d) /\ Underway(e) => d = e \/ {d, e} \in la_met
    /\ \A t \in LaTools : ToolTrue(la_tool[t])
=============================================================================
