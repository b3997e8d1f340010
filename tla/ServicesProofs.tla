--------------------------- MODULE ServicesProofs ---------------------------
(***************************************************************************)
(* Proofs about the parts of MCServices.  A behaviour is a behaviour of     *)
(* one part, so each theorem has an inductive invariant of that part alone, *)
(* stated in the part's own module, and PartStays carries it over the steps *)
(* of the others.  Inside a part's section v1, v2, ... are its variables in *)
(* the order MCServices instantiates them.                                  *)
(***************************************************************************)
EXTENDS MCServices, FiniteSetTheorems, TLAPS

\* No step turns one part into another (ServicesNext).
LEMMA PartStays == [ServicesNext]_services => part' = part
BY DEF ServicesNext, services

----------------------------------------------------------------------------
(* Launcher: v1 la_store, v2 la_daemon, v3 la_tool, v4 la_break, v5 la_met. *)

\* No daemon and no tool: nothing is under way and nobody has reported a stop.
LEMMA LauncherInit == La!LaInit => La!LaInv
BY DEF La!LaInit, La!LaInv, La!LaTypeOK, La!ToolTrue, La!Underway, La!Stoppers, La!LaCommands, La!NoDaemon

\* A daemon that has ended stays ended (every Become comes from another phase).
LEMMA GoneStays ==
    ASSUME La!LaInv, La!LaNext, NEW d \in LaDaemons, v2[d] = "gone"
    PROVE  v2'[d] = "gone"
<1> USE DEF La!Become, La!LaInv, La!LaTypeOK
<1>1. CASE \E t \in LaTools : La!ToolStart(t)
  BY <1>1 DEF La!ToolStart, La!Launch, La!LookForPort
<1>2. CASE \E t \in LaTools : La!ToolStopAsks(t)
  BY <1>2 DEF La!ToolStopAsks
<1>3. CASE \E t \in LaTools : La!ToolBegins(t) \/ La!ToolStopLooks(t) \/ La!ToolStopped(t) \/ La!ToolAsks(t) \/ La!PrefsStop(t)
  BY <1>3 DEF La!ToolBegins, La!ToolStopLooks, La!ToolStopped, La!ToolAsks, La!PrefsStop
<1>4. CASE \E e \in LaDaemons : La!DaemonLooks(e) \/ La!DaemonUp(e) \/ La!DaemonDown(e) \/ La!DaemonStays(e)
  BY <1>4 DEF La!DaemonLooks, La!DaemonUp, La!DaemonDown, La!DaemonStays, La!LookForPort
<1> QED BY <1>1, <1>2, <1>3, <1>4 DEF La!LaNext

\* One tool's own record apart, a step keeps what every tool has reported.
LEMMA ToolsTrue ==
    ASSUME La!LaInv, La!LaNext, NEW t \in LaTools,
           \A u \in LaTools \ {t} : v3'[u] = v3[u],
           La!ToolTrue(v3[t])'
    PROVE  \A u \in LaTools : La!ToolTrue(v3[u])'
<1>1. \A d \in LaDaemons : v2[d] = "gone" => v2'[d] = "gone"
  BY GoneStays
<1> QED BY <1>1 DEF La!LaInv, La!ToolTrue, La!Stoppers

\* START: a daemon is launched only when there is no port.
LEMMA ToolStartKeeps ==
    ASSUME La!LaInv, La!LaNext, NEW t \in LaTools, La!ToolStart(t)
    PROVE  La!LaInv'
<1> USE DEF La!LaInv, La!LaTypeOK, La!ToolStart, La!AtStep, La!Exit
<1>1. La!LaTypeOK'
  BY DEF La!Launch, La!LookForPort, La!Become
<1>2. \A d, e \in LaDaemons : La!Underway(d)' /\ La!Underway(e)' => d = e \/ {d, e} \in v5'
  BY DEF La!Launch, La!LookForPort, La!Become, La!Underway
<1>3. La!ToolTrue(v3[t])'
  <2>1. v3[t].step = "start" /\ La!ToolTrue(v3[t]) OBVIOUS
  <2>2. v3'[t].step = "out" /\ v3'[t].cmd = v3[t].cmd /\ v3'[t].asked = v3[t].asked
    BY DEF La!Launch, La!LookForPort
  <2>3. \A d \in LaDaemons : v2[d] = "gone" => v2'[d] = "gone"
    BY GoneStays
  <2> QED BY <2>1, <2>2, <2>3 DEF La!ToolTrue, La!Stoppers
<1>4. \A u \in LaTools \ {t} : v3'[u] = v3[u]
  BY DEF La!Launch, La!LookForPort
<1>5. \A u \in LaTools : La!ToolTrue(v3[u])'
  BY <1>3, <1>4, ToolsTrue
<1> QED BY <1>1, <1>2, <1>5

\* STOP: the request goes to a daemon that serves, which holds it and shuts down.
LEMMA ToolStopAsksKeeps ==
    ASSUME La!LaInv, La!LaNext, NEW t \in LaTools, La!ToolStopAsks(t)
    PROVE  La!LaInv'
<1> USE DEF La!LaInv, La!LaTypeOK, La!ToolStopAsks, La!AtStep, La!Exit
<1>1. La!LaTypeOK'
  BY DEF La!Become, La!Public
<1>2. \A d, e \in LaDaemons : La!Underway(d)' /\ La!Underway(e)' => d = e \/ {d, e} \in v5'
  BY DEF La!Become, La!Underway, La!Public
<1>3. La!ToolTrue(v3[t])'
  <2>1. v3[t].step = "ask" /\ v3[t].rc = -1 /\ v3[t].cmd \in La!Stoppers BY DEF La!ToolTrue
  <2>2. /\ v3'[t].cmd = v3[t].cmd
        /\ \/ v3'[t].step = "out" /\ v3'[t].rc = 5
           \/ v3'[t].step = "wait" /\ v3'[t].rc = -1
    BY <2>1
  <2> QED BY <2>1, <2>2 DEF La!ToolTrue, La!Stoppers
<1>4. \A u \in LaTools \ {t} : v3'[u] = v3[u]
  OBVIOUS
<1>5. \A u \in LaTools : La!ToolTrue(v3[u])'
  BY <1>3, <1>4, ToolsTrue
<1> QED BY <1>1, <1>2, <1>5

\* The steps of a tool that change no daemon: it begins, looks for the port, is
\* answered by the daemon it asked, puts a question, or signals a break.
LEMMA ToolAloneKeeps ==
    ASSUME La!LaInv, La!LaNext, NEW t \in LaTools,
           \/ La!ToolBegins(t) \/ La!ToolStopLooks(t) \/ La!ToolStopped(t)
           \/ La!ToolAsks(t) \/ La!PrefsStop(t)
    PROVE  La!LaInv'
<1> USE DEF La!LaInv, La!LaTypeOK, La!AtStep, La!Exit, La!Step, La!LookForPort
<1>1. v2' = v2 /\ v5' = v5
  BY DEF La!ToolBegins, La!ToolStopLooks, La!ToolStopped, La!ToolAsks, La!PrefsStop
<1>2. \A d, e \in LaDaemons : La!Underway(d)' /\ La!Underway(e)' => d = e \/ {d, e} \in v5'
  BY <1>1 DEF La!Underway
<1>3. CASE La!ToolBegins(t)
  <2>1. PICK c \in La!LaCommands :
          v3' = [v3 EXCEPT ![t] = [cmd |-> c, step |-> La!FirstStep[c], asked |-> La!NoDaemon, rc |-> -1]]
    BY <1>3 DEF La!ToolBegins
  <2>2. /\ La!FirstStep[c] \in {"start", "stop", "query", "signal"}
        /\ La!FirstStep[c] = "start" => c \notin La!Stoppers
        /\ La!FirstStep[c] = "stop" => c \in La!Stoppers
        /\ La!FirstStep[c] = "query" => c = "QUERY"
        /\ La!FirstStep[c] = "signal" => c = "PREFSSTOP"
    BY DEF La!FirstStep, La!LaCommands, La!Stoppers
  <2>3. La!LaTypeOK' BY <1>1, <1>3, <2>1, <2>2 DEF La!ToolBegins
  <2>4. La!ToolTrue(v3[t])' BY <2>1, <2>2 DEF La!ToolTrue
  <2>5. \A u \in LaTools : La!ToolTrue(v3[u])'
    BY <2>1, <2>4, ToolsTrue
  <2> QED BY <1>2, <2>3, <2>5
<1>4. CASE La!ToolStopped(t)
  <2>1. /\ v3[t].step = "wait" /\ v3[t].rc = -1
        /\ v3[t].asked \in LaDaemons /\ v2[v3[t].asked] = "gone"
    <3>1. v3[t].asked # La!NoDaemon /\ v3[t].asked \in LaDaemons \cup {La!NoDaemon}
      BY <1>4 DEF La!ToolStopped, La!StopAnswered
    <3> QED BY <1>4, <3>1 DEF La!ToolStopped, La!StopAnswered, La!ToolTrue
  <2>2. La!LaTypeOK' BY <1>1, <1>4 DEF La!ToolStopped
  <2>3. /\ v3'[t].cmd = v3[t].cmd /\ v3'[t].asked = v3[t].asked
        /\ \/ v3'[t].step = "out" /\ v3'[t].rc \in {0, 5}
           \/ v3'[t].step = "start" /\ v3'[t].rc = -1
        /\ \A u \in LaTools \ {t} : v3'[u] = v3[u]
    BY <1>4, <2>1 DEF La!ToolStopped
  <2>4. La!ToolTrue(v3[t])' BY <1>1, <2>1, <2>3 DEF La!ToolTrue, La!Stoppers
  <2>5. \A u \in LaTools : La!ToolTrue(v3[u])'
    BY <2>3, <2>4, ToolsTrue
  <2> QED BY <1>2, <2>2, <2>5
<1>5. CASE La!ToolStopLooks(t)
  <2>1. v3[t].step = "stop" /\ v3[t].rc = -1 /\ v3[t].cmd \in La!Stoppers
    BY <1>5 DEF La!ToolStopLooks, La!ToolTrue
  <2>2. La!LaTypeOK' BY <1>1, <1>5 DEF La!ToolStopLooks
  <2>3. /\ v3'[t].cmd = v3[t].cmd
        /\ \/ v3'[t].step = "out" /\ v3'[t].rc = 5
           \/ v3'[t].step = "ask" /\ v3'[t].rc = -1
        /\ \A u \in LaTools \ {t} : v3'[u] = v3[u]
    BY <1>5, <2>1 DEF La!ToolStopLooks
  <2>4. La!ToolTrue(v3[t])' BY <2>1, <2>3 DEF La!ToolTrue, La!Stoppers
  <2>5. \A u \in LaTools : La!ToolTrue(v3[u])'
    BY <2>3, <2>4, ToolsTrue
  <2> QED BY <1>2, <2>2, <2>5
<1>6. CASE La!ToolAsks(t) \/ La!PrefsStop(t)
  <2>1. v3[t].cmd \notin La!Stoppers
    BY <1>6 DEF La!ToolAsks, La!PrefsStop, La!ToolTrue, La!Stoppers
  <2>2. La!LaTypeOK' BY <1>1, <1>6 DEF La!ToolAsks, La!PrefsStop, La!Public
  <2>3. /\ v3'[t].cmd = v3[t].cmd /\ v3'[t].step = "out"
        /\ \A u \in LaTools \ {t} : v3'[u] = v3[u]
    BY <1>6 DEF La!ToolAsks, La!PrefsStop
  <2>4. La!ToolTrue(v3[t])' BY <2>1, <2>3 DEF La!ToolTrue
  <2>5. \A u \in LaTools : La!ToolTrue(v3[u])'
    BY <2>3, <2>4, ToolsTrue
  <2> QED BY <1>2, <2>2, <2>5
<1> QED BY <1>3, <1>4, <1>5, <1>6

\* The daemon: it looks, adds its port or fails, ends, or refuses the STOP it holds.
LEMMA DaemonKeeps ==
    ASSUME La!LaInv, La!LaNext, NEW d \in LaDaemons,
           La!DaemonLooks(d) \/ La!DaemonUp(d) \/ La!DaemonDown(d) \/ La!DaemonStays(d)
    PROVE  La!LaInv'
<1> USE DEF La!LaInv, La!LaTypeOK, La!Become, La!LookForPort
<1>1. \A e \in LaDaemons : v2[e] = "gone" => v2'[e] = "gone"
  BY GoneStays
<1>2. CASE La!DaemonStays(d)
  <2>1. La!LaTypeOK'
    <3>1. v2' \in [LaDaemons -> {"none", "launched", "starting", "serving", "stopping", "gone"}]
      BY <1>2 DEF La!DaemonStays
    <3>2. \A u \in LaTools : v3'[u] \in [cmd : La!LaCommands \cup {"none"},
          step : {"none", "start", "stop", "ask", "wait", "query", "signal", "out"},
          asked : LaDaemons \cup {La!NoDaemon}, rc : {-1, 0, 5}]
      <4> SUFFICES ASSUME NEW u \in LaTools
                   PROVE  v3'[u] \in [cmd : La!LaCommands \cup {"none"},
                            step : {"none", "start", "stop", "ask", "wait", "query", "signal", "out"},
                            asked : LaDaemons \cup {La!NoDaemon}, rc : {-1, 0, 5}]
        OBVIOUS
      <4>1. PICK c : c = v3[u] OBVIOUS
      <4>2. v3'[u] = c \/ v3'[u] = [c EXCEPT !.step = "out", !.rc = 5]
        BY <1>2, <4>1 DEF La!DaemonStays
      <4> QED BY <4>1, <4>2
    <3> QED BY <1>2, <3>1, <3>2 DEF La!DaemonStays
  <2>2. \A e, f \in LaDaemons : La!Underway(e)' /\ La!Underway(f)' => e = f \/ {e, f} \in v5'
    BY <1>2 DEF La!DaemonStays, La!Underway
  <2>3. \A u \in LaTools : La!ToolTrue(v3[u])'
    <3> SUFFICES ASSUME NEW u \in LaTools PROVE La!ToolTrue(v3[u])'
      OBVIOUS
    <3>1. CASE La!AtStep(u, "wait") /\ v3[u].asked = d
      <4>1. v3'[u].step = "out" /\ v3'[u].rc = 5
        BY <1>2, <3>1 DEF La!DaemonStays
      <4> QED BY <4>1 DEF La!ToolTrue
    <3>2. CASE ~(La!AtStep(u, "wait") /\ v3[u].asked = d)
      <4>1. v3'[u] = v3[u]
        BY <1>2, <3>2 DEF La!DaemonStays
      <4> QED BY <1>1, <4>1 DEF La!ToolTrue, La!Stoppers
    <3> QED BY <3>1, <3>2
  <2> QED BY <2>1, <2>2, <2>3
<1>3. CASE La!DaemonLooks(d) \/ La!DaemonUp(d) \/ La!DaemonDown(d)
  <2>1. v3' = v3 BY <1>3 DEF La!DaemonLooks, La!DaemonUp, La!DaemonDown
  <2>2. La!LaTypeOK'
    <3>1. v5' \subseteq SUBSET LaDaemons
      <4>1. {{d, e} : e \in La!Looked} \subseteq SUBSET LaDaemons BY DEF La!Looked
      <4>2. v5' = v5 \/ v5' = v5 \cup {{d, e} : e \in La!Looked} \/ v5' = v5 \cup {}
        BY <1>3 DEF La!DaemonLooks, La!DaemonUp, La!DaemonDown
      <4> QED BY <4>1, <4>2
    <3>2. v2' \in [LaDaemons -> {"none", "launched", "starting", "serving", "stopping", "gone"}]
          /\ UNCHANGED <<v1, v3, v4>>
      BY <1>3 DEF La!DaemonLooks, La!DaemonUp, La!DaemonDown
    <3> QED BY <3>1, <3>2
  <2>3. \A e, f \in LaDaemons : La!Underway(e)' /\ La!Underway(f)' => e = f \/ {e, f} \in v5'
    <3>1. CASE La!DaemonLooks(d)
      <4>1. \A e \in LaDaemons \ {d} : v2'[e] = v2[e] BY <3>1 DEF La!DaemonLooks
      <4>2. CASE v2'[d] = "gone" /\ \A S \in v5 : S \in v5'
        BY <4>1, <4>2 DEF La!Underway
      <4>3. CASE La!Public = {} /\ v5' = v5 \cup {{d, e} : e \in La!Looked}
        <5>1. \A e \in LaDaemons \ {d} : La!Underway(e)' => La!Underway(e) /\ {d, e} \in v5' /\ {e, d} \in v5'
          <6> SUFFICES ASSUME NEW e \in LaDaemons \ {d}, La!Underway(e)'
                       PROVE  La!Underway(e) /\ {d, e} \in v5' /\ {e, d} \in v5'
            OBVIOUS
          <6>1. La!Underway(e) BY <4>1 DEF La!Underway
          <6>2. e \in La!Looked BY <4>3, <6>1 DEF La!Underway, La!Public, La!Looked
          <6>3. {d, e} \in v5' BY <4>3, <6>2
          <6>4. {e, d} = {d, e} OBVIOUS
          <6> QED BY <6>1, <6>3, <6>4
        <5> QED BY <4>3, <5>1
      <4> QED BY <3>1, <4>2, <4>3 DEF La!DaemonLooks
    <3>2. CASE La!DaemonUp(d) \/ La!DaemonDown(d)
      <4>1. v5' = v5 /\ \A e \in LaDaemons : La!Underway(e)' => La!Underway(e)
        BY <3>2 DEF La!DaemonUp, La!DaemonDown, La!Underway
      <4> QED BY <4>1
    <3> QED BY <1>3, <3>1, <3>2
  <2>4. \A u \in LaTools : La!ToolTrue(v3[u])'
    BY <1>1, <2>1 DEF La!ToolTrue, La!Stoppers
  <2> QED BY <2>2, <2>3, <2>4
<1> QED BY <1>2, <1>3

\* Every step of Launcher keeps its invariant.
LEMMA LauncherStep ==
    ASSUME La!LaInv, [La!LaNext]_La!lavars
    PROVE  La!LaInv'
<1>1. CASE UNCHANGED La!lavars
  BY <1>1 DEF La!lavars, La!LaInv, La!LaTypeOK, La!Underway, La!ToolTrue
<1>2. CASE La!LaNext
  <2> HIDE DEF La!LaInv
  <2>1. CASE \E t \in LaTools : La!ToolStart(t)
    BY <1>2, <2>1, ToolStartKeeps
  <2>2. CASE \E t \in LaTools : La!ToolStopAsks(t)
    BY <1>2, <2>2, ToolStopAsksKeeps
  <2>3. CASE \E t \in LaTools : \/ La!ToolBegins(t) \/ La!ToolStopLooks(t) \/ La!ToolStopped(t)
                                \/ La!ToolAsks(t) \/ La!PrefsStop(t)
    BY <1>2, <2>3, ToolAloneKeeps
  <2>4. CASE \E d \in LaDaemons : \/ La!DaemonLooks(d) \/ La!DaemonUp(d) \/ La!DaemonDown(d)
                                  \/ La!DaemonStays(d)
    BY <1>2, <2>4, DaemonKeeps
  <2> QED BY <1>2, <2>1, <2>2, <2>3, <2>4 DEF La!LaNext
<1> QED BY <1>1, <1>2

\* However START, STOP, RESTART, NetShutdown and the Prefs buttons race, for any
\* number of tools and daemon processes: two daemons have a public port at once
\* only when each had looked for one before the other added its own, and a tool
\* that reports the daemon it asked as stopped is right (daemon_main.c,
\* NetShutdown.c).
THEOREM SecondPort == ServicesSpec => []SecondPortRaced
<1> DEFINE I == part = "launcher" => La!LaInv
<1>1. ServicesInit => I
  BY LauncherInit DEF ServicesInit
<1>2. I /\ [ServicesNext]_services => I'
  <2> SUFFICES ASSUME La!LaInv, part = "launcher", [ServicesNext]_services PROVE La!LaInv'
    BY PartStays
  <2>1. [La!LaNext]_La!lavars BY DEF ServicesNext, services, La!lavars
  <2> HIDE DEF La!LaInv
  <2> QED BY <2>1, LauncherStep
<1>3. I => SecondPortRaced
  <2> SUFFICES ASSUME La!LaInv, part = "launcher" PROVE La!SecondPortRaced
    BY DEF SecondPortRaced
  <2>1. \A d, e \in La!Public : d # e => {d, e} \in v5
    BY DEF La!LaInv, La!Public, La!Underway
  <2>2. \A t \in LaTools : v3[t].cmd \in La!Stoppers /\ (v3[t].rc = 0 \/ v3[t].step = "start")
                             => v2[v3[t].asked] = "gone"
    BY DEF La!LaInv, La!ToolTrue
  <2> QED BY <2>1, <2>2 DEF La!SecondPortRaced, La!AtStep
<1> QED BY <1>1, <1>2, <1>3, PTL DEF ServicesSpec

----------------------------------------------------------------------------
(* Reconfig: v1 key, v2 file, v3 dprefs, v4 rc_running, v5 told, v6 s_host, *)
(* v7 s_dst, v8 s_armed, v9 s_pcb, v10 lookups, v11 stale, v12 unheard, v13 *)
(* listed, v14 boot.                                                        *)

\* What Reconfig asks of its constants.
LEMMA ReconfigConstants ==
    /\ 0 \in RcValues /\ RcValues \subseteq Nat /\ Quads \subseteq RcValues \ {0}
    /\ TN_MAX_SELECTORS \in RcValues \ {0} /\ DriverMtu \in RcValues \ {0}
BY ServicesAssumption DEF ServicesAssumption, Rc!RcAssumption

\* The daemon starts with its preferences in force and syslog off.
LEMMA ReconfigInit == ASSUME Rc!RcInit PROVE Rc!RcInv
<1> USE ReconfigConstants
<1>1. Rc!Selectors(v2) \in RcValues /\ v2 \in RcValues /\ v2 \in Nat /\ Rc!Selectors(v2) \in Nat
  BY DEF Rc!RcInit, Rc!Selectors
<1>2. v4 = Rc!AtStart /\ v3 = v2 /\ v13 = {v2} \cap Rc!Listable /\ v14 = v2 /\ v5 = FALSE
  BY DEF Rc!RcInit
<1>3. /\ v1 = "SELECTORS" => v4 = Rc!Selectors(v2)
      /\ v1 = "MTU" => v4 = IF v2 # 0 /\ v2 < DriverMtu THEN v2 ELSE DriverMtu
      /\ v1 = "DNS" => v4 = IF v2 \in Quads THEN v2 ELSE 0
      /\ v1 \notin {"SELECTORS", "MTU", "DNS"} => v4 = v2
  BY <1>2 DEF Rc!AtStart
<1>4. v4 \in RcValues BY <1>1, <1>3
<1>5. v13 \subseteq RcValues \ {0} BY <1>2 DEF Rc!Listable
<1>6. Rc!RcTypeOK BY <1>1, <1>2, <1>4, <1>5 DEF Rc!RcInit, Rc!RcTypeOK
<1>7. v1 = "MTU" => v4 \in v13 \cup {DriverMtu} /\ \A v \in v13 \cup {DriverMtu} : v4 <= v
  <2> SUFFICES ASSUME v1 = "MTU"
               PROVE  v4 \in v13 \cup {DriverMtu} /\ \A v \in v13 \cup {DriverMtu} : v4 <= v
    OBVIOUS
  <2>1. v13 = {v2} \ {0} BY <1>1, <1>2 DEF Rc!Listable
  <2>2. DriverMtu \in Nat OBVIOUS
  <2> QED BY <1>1, <1>3, <2>1, <2>2
<1>8. v1 = "DNS" => v4 \in (IF v2 \in Quads THEN {v2} ELSE IF v13 = {} THEN {0} ELSE v13)
  BY <1>1, <1>2, <1>3 DEF Rc!Listable
<1>9. v1 = "DNS" /\ v2 \in Quads => v2 \in v13
  BY <1>2 DEF Rc!Listable
<1>10. v1 = "SYSLOG" => v6 = v2 /\ v2 = 0 BY DEF Rc!RcInit
<1>11. v1 = "SELECTORS" => ~(v4 < Rc!Selectors(v2)) BY <1>1, <1>3
<1>12. Rc!FollowsPrefs
  BY <1>2, <1>3, <1>7, <1>8, <1>10, <1>11 DEF Rc!FollowsPrefs
<1>13. Rc!ForwardsTo /\ v10 \subseteq v11 \cup {v6} BY DEF Rc!RcInit, Rc!ForwardsTo
<1> QED BY <1>2, <1>6, <1>9, <1>12, <1>13 DEF Rc!RcInv, Rc!DeviationTold

\* What holds of syslog.c's own state.
SyslogSound ==
    /\ v6 \in RcValues /\ v7 \in RcValues /\ v8 \in BOOLEAN /\ v9 \in BOOLEAN
    /\ v10 \subseteq RcValues /\ v11 \subseteq RcValues /\ v12 \in BOOLEAN
    /\ v8 => v9 /\ v7 \in v11 \cup {v6}
    /\ v10 \subseteq v11 \cup {v6}

\* tn_syslog_apply forwards to the new host only and notes the lookups it
\* overtakes; a host it accepts is armed or looked up.
LEMMA SyslogApplies ==
    ASSUME SyslogSound, NEW host \in RcValues, NEW ok \in BOOLEAN, Rc!tn_syslog_apply(host, ok)
    PROVE  /\ SyslogSound'
           /\ ok => v6' = host /\ (host # 0 /\ ~v8' => host \in v10')
<1> USE ReconfigConstants DEF SyslogSound
<1>1. CASE host = 0 /\ ok /\ Rc!tn_syslog_shutdown
  BY <1>1 DEF Rc!tn_syslog_shutdown
<1>2. CASE ~ok /\ UNCHANGED Rc!logv
  BY <1>2 DEF Rc!logv
<1>3. CASE /\ v9' = TRUE /\ v6' = host /\ v11' = (v11 \cup v10) \ {host} /\ v12' = FALSE
           /\ \/ v7' = host /\ v8' = TRUE /\ v10' = v10
              \/ v8' = FALSE /\ v10' = v10 \cup {host} /\ v7' = v7
              \/ ~ok /\ v8' = FALSE /\ v10' = v10 /\ v7' = v7
  BY <1>3
<1> QED BY <1>1, <1>2, <1>3 DEF Rc!tn_syslog_apply

\* RECONFIG: what is in force afterwards follows from the preferences and from
\* what the reply says.
LEMMA ReconfigKeeps ==
    ASSUME Rc!RcInv, NEW loaded \in BOOLEAN, Rc!tn_ipc_cmd_reconfig(loaded)
    PROVE  Rc!RcInv'
<1> USE ReconfigConstants
<1> DEFINE new == IF loaded THEN v2 ELSE 0
           live == v1 \notin {"IP", "MDNS", "AUTOIP"} /\ v3 # new
           restart == v1 = "IP" /\ v3 # new
<1>1. PICK ok \in BOOLEAN :
        /\ IF v1 = "SYSLOG" /\ live THEN Rc!tn_syslog_apply(new, ok)
           ELSE UNCHANGED Rc!logv /\ (ok \/ (live /\ Rc!StepMayFail(new)))
        /\ v4' = IF v1 = "SYSLOG" THEN v6' ELSE Rc!InForce(new, live, ok)
        /\ v5' = IF live THEN ~ok ELSE IF restart THEN v4' # new ELSE v5
  BY DEF Rc!tn_ipc_cmd_reconfig, Rc!tn_recfg_diff
<1>2. v1' = v1 /\ v2' = v2 /\ v3' = new /\ v13' = v13 \cup ({new} \cap Rc!Listable) /\ v14' = v14
  BY DEF Rc!tn_ipc_cmd_reconfig
<1>3. /\ new \in RcValues /\ Rc!Selectors(new) \in RcValues
      /\ Rc!RcTypeOK /\ Rc!FollowsPrefs /\ v4 \in Nat /\ new \in Nat /\ v5 \in BOOLEAN
      /\ v1 = "DNS" /\ v3 \in Quads => v3 \in v13
  BY DEF Rc!RcInv, Rc!DeviationTold, Rc!RcTypeOK, Rc!Selectors
<1> HIDE DEF new, live, restart
<1>4. SyslogSound BY DEF Rc!RcInv, Rc!DeviationTold, Rc!ForwardsTo, Rc!RcTypeOK, SyslogSound
<1>5. /\ SyslogSound'
      /\ v1 = "SYSLOG" /\ live /\ ok => v6' = new /\ (new # 0 /\ ~v8' => new \in v10')
      /\ ~(v1 = "SYSLOG" /\ live) => UNCHANGED <<v6, v7, v8, v9, v10, v11, v12>>
  <2>1. CASE v1 = "SYSLOG" /\ live
    BY <1>1, <1>3, <1>4, <2>1, SyslogApplies
  <2>2. CASE ~(v1 = "SYSLOG" /\ live)
    BY <1>1, <1>4, <2>2 DEF Rc!logv, SyslogSound
  <2> QED BY <2>1, <2>2
<1>6. v4' \in RcValues
  BY <1>1, <1>3, <1>5 DEF Rc!InForce, Rc!RcTypeOK, SyslogSound
<1>7. v13' \subseteq RcValues \ {0} /\ v13 \subseteq v13'
  BY <1>2, <1>3 DEF Rc!Listable, Rc!RcTypeOK
<1>8. Rc!RcTypeOK'
  BY <1>1, <1>2, <1>3, <1>5, <1>6, <1>7 DEF Rc!RcTypeOK, SyslogSound
<1>9. v1 \in {"IP", "LOG", "STATS", "AUTOIP"} /\ v4' # new => v5'
  BY <1>1, <1>3 DEF Rc!InForce, Rc!FollowsPrefs, Rc!RcTypeOK, live, restart
<1>10. v1 = "SELECTORS" /\ v4' < Rc!Selectors(new) => v5'
  <2> SUFFICES ASSUME v1 = "SELECTORS", v4' < Rc!Selectors(new) PROVE v5'
    OBVIOUS
  <2>1. v4' = IF live /\ ok /\ Rc!Selectors(new) > v4 THEN Rc!Selectors(new) ELSE v4
    BY <1>1 DEF Rc!InForce
  <2>2. v4 \in Nat /\ v4' \in Nat /\ Rc!Selectors(new) \in Nat
    BY <1>3, <1>6
  <2>3. v4' = v4 /\ v4' # Rc!Selectors(new) /\ ~(live /\ ok)
    BY <2>1, <2>2
  <2>4. CASE live BY <1>1, <2>3, <2>4
  <2>5. CASE ~live
    <3>1. v3 = new BY <2>5 DEF live
    <3>2. v5 BY <1>3, <2>3, <3>1 DEF Rc!FollowsPrefs
    <3>3. ~restart BY <3>1 DEF restart
    <3> QED BY <1>1, <2>5, <3>2, <3>3
  <2> QED BY <2>4, <2>5
<1>11. v1 \in {"MTU", "DNS", "MDNS"} => ~v5'
  <2> SUFFICES ASSUME v1 \in {"MTU", "DNS", "MDNS"} PROVE ~v5' OBVIOUS
  <2>1. ~v5 BY <1>3 DEF Rc!FollowsPrefs
  <2>2. ok BY <1>1 DEF Rc!StepMayFail
  <2>3. ~restart BY DEF restart
  <2> QED BY <1>1, <2>1, <2>2, <2>3
<1>12. v1 = "MTU" => v4' \in v13' \cup {DriverMtu} /\ \A v \in v13' \cup {DriverMtu} : v4' <= v
  <2> SUFFICES ASSUME v1 = "MTU"
               PROVE  v4' \in v13' \cup {DriverMtu} /\ \A v \in v13' \cup {DriverMtu} : v4' <= v
    OBVIOUS
  <2>1. v4' = IF new # 0 /\ new < v4 THEN new ELSE v4 BY <1>1 DEF Rc!InForce
  <2>2. v13' = v13 \cup ({new} \ {0}) BY <1>2, <1>3 DEF Rc!Listable
  <2>3. v4 \in v13 \cup {DriverMtu} /\ \A v \in v13 \cup {DriverMtu} : v4 <= v
    BY <1>3 DEF Rc!FollowsPrefs
  <2>4. v13 \subseteq Nat /\ DriverMtu \in Nat BY <1>3 DEF Rc!RcTypeOK
  <2> QED BY <1>3, <2>1, <2>2, <2>3, <2>4
<1>13. v1 = "DNS" => v4' \in (IF new \in Quads THEN {new} ELSE IF v13' = {} THEN {0} ELSE v13')
  <2> SUFFICES ASSUME v1 = "DNS", new \notin Quads PROVE v4' \in (IF v13' = {} THEN {0} ELSE v13')
    BY <1>1 DEF Rc!InForce
  <2>1. v4' = v4 BY <1>1 DEF Rc!InForce
  <2>2. v13' = v13 BY <1>2 DEF Rc!Listable
  <2>3. v4 \in (IF v3 \in Quads THEN {v3} ELSE IF v13 = {} THEN {0} ELSE v13)
    BY <1>3 DEF Rc!FollowsPrefs
  <2> QED BY <1>3, <2>1, <2>2, <2>3
<1>14. v1 = "DNS" /\ new \in Quads => new \in v13' BY <1>2 DEF Rc!Listable
<1>15. v1 = "MDNS" => v4' = v14' BY <1>1, <1>2, <1>3 DEF Rc!InForce, Rc!FollowsPrefs
<1>16. v1 = "SYSLOG" => /\ v6' # new => v5'
                        /\ new # 0 /\ ~v8' => v5' \/ new \in v10' \/ v12'
  <2> SUFFICES ASSUME v1 = "SYSLOG"
               PROVE  /\ v6' # new => v5'
                      /\ new # 0 /\ ~v8' => v5' \/ new \in v10' \/ v12'
    OBVIOUS
  <2>1. CASE live BY <1>1, <1>5, <2>1
  <2>2. CASE ~live
    <3>1. v3 = new /\ ~restart BY <2>2 DEF live, restart
    <3>2. v5' = v5 BY <1>1, <2>2, <3>1
    <3>3. UNCHANGED <<v6, v8, v10, v12>> BY <1>5, <2>2
    <3> QED BY <1>3, <3>1, <3>2, <3>3 DEF Rc!FollowsPrefs
  <2> QED BY <2>1, <2>2
<1>17. Rc!FollowsPrefs'
  BY <1>2, <1>9, <1>10, <1>11, <1>12, <1>13, <1>15, <1>16 DEF Rc!FollowsPrefs, Rc!Selectors
<1>18. Rc!ForwardsTo' /\ (v10 \subseteq v11 \cup {v6})'
  BY <1>5 DEF SyslogSound, Rc!ForwardsTo
<1> QED BY <1>2, <1>8, <1>14, <1>17, <1>18 DEF Rc!RcInv, Rc!DeviationTold

\* Every step of Reconfig keeps its invariant.
LEMMA ReconfigStep ==
    ASSUME Rc!RcInv, [Rc!RcNext]_Rc!rcvars
    PROVE  Rc!RcInv'
<1>1. CASE UNCHANGED Rc!rcvars
  BY <1>1 DEF Rc!rcvars, Rc!logv, Rc!RcInv, Rc!RcTypeOK, Rc!DeviationTold, Rc!FollowsPrefs,
     Rc!ForwardsTo, Rc!Selectors
<1>2. CASE \E loaded \in BOOLEAN : Rc!tn_ipc_cmd_reconfig(loaded)
  <2> HIDE DEF Rc!RcInv
  <2> QED BY <1>2, ReconfigKeeps
<1>3. CASE \E v \in RcValues : Rc!EditKey(v)
  BY <1>3 DEF Rc!EditKey, Rc!logv, Rc!RcInv, Rc!RcTypeOK, Rc!DeviationTold, Rc!FollowsPrefs,
     Rc!ForwardsTo, Rc!Selectors
<1>4. CASE \E v \in RcValues : Rc!tn_syslog_dns_cb(v)
  <2>1. PICK h \in RcValues, found \in BOOLEAN : Rc!Answered(h, found /\ v9)
    BY <1>4 DEF Rc!tn_syslog_dns_cb
  <2>2. /\ v1' = v1 /\ v2' = v2 /\ v3' = v3 /\ v4' = v4 /\ v5' = v5 /\ v6' = v6 /\ v9' = v9
        /\ v11' = v11 /\ v13' = v13 /\ v14' = v14 /\ h \in v10 /\ v10' = v10 \ {h}
        /\ \/ v9 /\ v7' = h /\ v8' = TRUE /\ v12' = v12
           \/ v7' = v7 /\ v8' = v8 /\ v12' = (v12 \/ h = v6)
    BY <2>1 DEF Rc!Answered
  <2>3. Rc!RcTypeOK /\ Rc!FollowsPrefs /\ Rc!ForwardsTo /\ v10 \subseteq v11 \cup {v6}
        /\ (v1 = "DNS" /\ v3 \in Quads => v3 \in v13)
    BY DEF Rc!RcInv, Rc!DeviationTold
  <2>4. Rc!RcTypeOK' BY <2>2, <2>3 DEF Rc!RcTypeOK
  <2>5. Rc!ForwardsTo'
    <3>1. CASE v9 /\ v7' = h /\ v8' = TRUE BY <2>2, <2>3, <3>1 DEF Rc!ForwardsTo
    <3>2. CASE v7' = v7 /\ v8' = v8 BY <2>2, <2>3, <3>2 DEF Rc!ForwardsTo
    <3> QED BY <2>2, <3>1, <3>2
  <2>6. v1 = "SYSLOG" /\ v3 # 0 /\ ~v8' => v5 \/ v3 \in v10' \/ v12'
    <3> SUFFICES ASSUME v1 = "SYSLOG", v3 # 0, ~v8', ~v5 PROVE v3 \in v10' \/ v12' OBVIOUS
    <3>1. v7' = v7 /\ v8' = v8 /\ v12' = (v12 \/ h = v6) BY <2>2
    <3>2. v6 = v3 /\ (v3 \in v10 \/ v12) BY <2>3, <3>1 DEF Rc!FollowsPrefs
    <3> QED BY <2>2, <3>1, <3>2
  <2>7. Rc!FollowsPrefs' BY <2>2, <2>3, <2>6 DEF Rc!FollowsPrefs, Rc!Selectors
  <2> QED BY <2>2, <2>3, <2>4, <2>5, <2>7 DEF Rc!RcInv, Rc!DeviationTold
<1> QED BY <1>1, <1>2, <1>3, <1>4 DEF Rc!RcNext

\* For every set of values and every sequence of edits, RECONFIGs, failures and
\* late syslog lookups: which value of each kind of key is in force, what the
\* replies said of it and what no reply says, and where the log is forwarded, the
\* late answer for a replaced host included (ipc_status.c, netif_mgr.c, syslog.c).
THEOREM Deviations == ServicesSpec => []DeviationTold
<1> DEFINE I == part = "reconfig" => Rc!RcInv
<1>1. ServicesInit => I
  BY ReconfigInit DEF ServicesInit
<1>2. I /\ [ServicesNext]_services => I'
  <2> SUFFICES ASSUME Rc!RcInv, part = "reconfig", [ServicesNext]_services PROVE Rc!RcInv'
    BY PartStays
  <2>1. [Rc!RcNext]_Rc!rcvars BY DEF ServicesNext, services, Rc!rcvars, Rc!logv
  <2> HIDE DEF Rc!RcInv
  <2> QED BY <2>1, ReconfigStep
<1>3. I => DeviationTold
  BY DEF DeviationTold, Rc!RcInv
<1> QED BY <1>1, <1>2, <1>3, PTL DEF ServicesSpec

----------------------------------------------------------------------------
(* The daemon.  LibraryProofs has the proofs, in the module's own            *)
(* variables; here they are instantiated as MCServices instantiates the      *)
(* module.                                                                   *)

LibP == INSTANCE LibraryProofs WITH
    phase <- v1, held <- v2, public <- v3, listed <- v4, queue <- v5, pend <- v6, got <- v7,
    running <- v8, stopping <- v9, stopMsg <- v10, bases <- v11, openCnt <- v12, timer <- v13,
    armed <- v14, rx <- v15, owner <- v16, holders <- v17, parked <- v18, client <- v19,
    tool <- v20, discarded <- v21,
    kind <- v1, local <- v2, remote <- v3, opt_rcvbuf <- v4, dg_rx <- v5, accepted <- v6,
    taken <- v7, widest <- v8, lb_size <- v1, lb_open <- v2, lb_mask <- v3, lb_events <- v4,
    lb_owed <- v5, lb_last <- v6, lb_turn <- v7, lb_cb <- v8, lb_crt <- v9, lb_told <- v10,
    lb_asked <- v11, lb_left <- v12,
    nb_errno <- v1, nb_err <- v2, nb_own <- v3, nb_herr <- v4, nb_idx <- v5, nb_row <- v6,
    nb_blocks <- v7, sb_opts <- v1, sb_mem <- v2, sb_list <- v3, sb_out <- v4, sb_ret <- v5,
    sb_old <- v6, ug_contexts <- v1, ug_users <- v2, ug_loaded <- v3, ug_delexp <- v4,
    ug_here <- v5, ug_insert <- v6, ug_holds <- v7, ug_used <- v8, ug_named <- v9,
    ug_walk <- v10, ss_pc <- v1, ss_ok <- v2, ss_script <- v3, ss_had <- v4, ss_lib <- v5,
    ss_icon <- v6, ss_undo <- v7, ss_faults <- v8, ss_user <- v9, ss_first <- v10, ss_cut <-
    v11, ss_at <- v12

\* The daemon's module and its proofs' instantiate to the same formulas.
LEMMA SameDaemon ==
    /\ Life!LifeAssumption <=> LibP!LifeAssumption
    /\ Life!LifeInit <=> LibP!LifeInit
    /\ Life!LifeNext <=> LibP!LifeNext
    /\ UNCHANGED Life!lifevars <=> UNCHANGED LibP!lifevars
    /\ Life!OpenersServed <=> LibP!OpenersServed
    /\ Life!RequestsRemembered <=> LibP!RequestsRemembered
    /\ Life!StoppedMeansReleased <=> LibP!StoppedMeansReleased
<1>1. Life!LifeAssumption <=> LibP!LifeAssumption
  BY ZenonT(60) DEF Life!LifeAssumption, LibP!LifeAssumption, Life!IsFiniteSet, LibP!IsFiniteSet
<1>2. Life!LifeInit <=> LibP!LifeInit
  BY ZenonT(60) DEF Life!LifeInit, LibP!LifeInit
<1>3. Life!LifeNext <=> LibP!LifeNext
  BY ZenonT(60) DEF Life!slotv, LibP!slotv, Life!timev, LibP!timev, Life!Steps, LibP!Steps,
      Life!tn_fail_log, LibP!tn_fail_log, Life!tn_fail_timer, LibP!tn_fail_timer,
      Life!tn_fail_s2, LibP!tn_fail_s2, Life!tn_fail_netif, LibP!tn_fail_netif,
      Life!tn_fail_port, LibP!tn_fail_port, Life!FailLabel, LibP!FailLabel, Life!NextStep,
      LibP!NextStep, Life!AfterReply, LibP!AfterReply, Life!ReplyClient, LibP!ReplyClient,
      Life!ReplyTool, LibP!ReplyTool, Life!Drained, LibP!Drained, Life!DrainPort,
      LibP!DrainPort, Life!Start, LibP!Start, Life!StartStep, LibP!StartStep, Life!StartDone,
      LibP!StartDone, Life!StartFails, LibP!StartFails, Life!Dead, LibP!Dead, Life!ReapedCnt,
      LibP!ReapedCnt, Life!ReapAnd, LibP!ReapAnd,
      Life!tn_reap_dead_clients, LibP!tn_reap_dead_clients, Life!NoReap,
      LibP!NoReap, Life!Wakes, LibP!Wakes, Life!HandleBreak, LibP!HandleBreak, Life!Serving,
      LibP!Serving, Life!Unchanged_IPC, LibP!Unchanged_IPC, Life!tn_ipc_cmd_stop,
      LibP!tn_ipc_cmd_stop, Life!ServeOpen, LibP!ServeOpen, Life!ServeClose, LibP!ServeClose,
      Life!ServeRecv, LibP!ServeRecv, Life!ServeMsg, LibP!ServeMsg, Life!PortEmpty,
      LibP!PortEmpty, Life!MayComplete, LibP!MayComplete, Life!ServeRx, LibP!ServeRx,
      Life!ServeTick, LibP!ServeTick, Life!LoopCheck, LibP!LoopCheck, Life!EnterShutdown,
      LibP!EnterShutdown, Life!NormaliseTimer, LibP!NormaliseTimer, Life!BackToService,
      LibP!BackToService, Life!Gate, LibP!Gate, Life!PassGate, LibP!PassGate, Life!TearDown,
      LibP!TearDown, Life!ShutdownDone, LibP!ShutdownDone, Life!Client_UNCHANGED,
      LibP!Client_UNCHANGED, Life!Send, LibP!Send, Life!RoomForOneMore, LibP!RoomForOneMore,
      Life!LibOpen, LibP!LibOpen, Life!LibOpenSends, LibP!LibOpenSends, Life!LibOpenFails,
      LibP!LibOpenFails, Life!TakeSlot, LibP!TakeSlot, Life!LibCall, LibP!LibCall,
      Life!LibClose, LibP!LibClose, Life!LibCloseDone, LibP!LibCloseDone, Life!TaskDies,
      LibP!TaskDies, Life!tn_lib_expunge, LibP!tn_lib_expunge, Life!Expunge, LibP!Expunge,
      Life!tn_ipc_oneshot, LibP!tn_ipc_oneshot, Life!Raise, LibP!Raise,
      Life!Outside_UNCHANGED, LibP!Outside_UNCHANGED, Life!TimerFires, LibP!TimerFires,
      Life!PacketArrives, LibP!PacketArrives, Life!CtrlC, LibP!CtrlC, Life!DaemonNext,
      LibP!DaemonNext, Life!ClientNext, LibP!ClientNext, Life!LifeNext, LibP!LifeNext,
      Life!Cardinality, LibP!Cardinality
<1>4. UNCHANGED Life!lifevars <=> UNCHANGED LibP!lifevars
  BY ZenonT(60) DEF Life!slotv, LibP!slotv, Life!timev, LibP!timev, Life!lifevars, LibP!lifevars
<1>5. Life!OpenersServed <=> LibP!OpenersServed
  BY ZenonT(60) DEF Life!OpenersKeepTheDaemon, LibP!OpenersKeepTheDaemon, Life!OpenCountExact,
      LibP!OpenCountExact, Life!ServiceMeansListed, LibP!ServiceMeansListed,
      Life!OpenersServed, LibP!OpenersServed, Life!Cardinality, LibP!Cardinality
<1>6. Life!RequestsRemembered <=> LibP!RequestsRemembered
  BY ZenonT(60) DEF Life!NothingLeftBehind, LibP!NothingLeftBehind, Life!NoSleepingRequest,
      LibP!NoSleepingRequest, Life!TickAlive, LibP!TickAlive, Life!RequestsHeld,
      LibP!RequestsHeld, Life!RequestsRemembered, LibP!RequestsRemembered
<1>7. Life!StoppedMeansReleased <=> LibP!StoppedMeansReleased
  BY ZenonT(60) DEF Life!StoppedMeansReleased, LibP!StoppedMeansReleased
<1> QED BY <1>1, <1>2, <1>3, <1>4, <1>5, <1>6, <1>7

\* The daemon's invariant holds of the part that is the daemon.
LEMMA DaemonPart ==
    /\ ServicesInit => (part = "daemon" => LibP!LifeInv)
    /\ (part = "daemon" => LibP!LifeInv) /\ [ServicesNext]_services
         => (part = "daemon" => LibP!LifeInv)'
<1>0. LibP!LifeAssumption BY ServicesAssumption, SameDaemon
<1>1. ServicesInit => (part = "daemon" => LibP!LifeInv)
  BY <1>0, SameDaemon, LibP!LifeStarts DEF ServicesInit
<1>2. ASSUME part = "daemon" => LibP!LifeInv, [ServicesNext]_services, part' = "daemon"
      PROVE  LibP!LifeInv'
  <2>1. part = "daemon" /\ LibP!LifeInv BY <1>2, PartStays
  <2>2. [Life!LifeNext]_Life!lifevars
    BY <1>2, <2>1 DEF ServicesNext, services, Life!lifevars, Life!timev, Life!slotv
  <2>3. [LibP!LifeNext]_LibP!lifevars BY <2>2, SameDaemon
  <2> QED BY <1>0, <2>1, <2>3, LibP!LifeKeeps
<1> QED BY <1>1, <1>2

\* Whoever has the library open has a daemon that serves and can be found,
\* whatever Ctrl-C, STOP, an expunge and dying tasks do (the main loop and the
\* gate of daemon_main.c, tn_lib_open, tn_lib_close and tn_lib_expunge).
THEOREM Served == ServicesSpec => []OpenersServed
<1> DEFINE I == part = "daemon" => LibP!LifeInv
<1>1. ServicesInit => I BY DaemonPart
<1>2. I /\ [ServicesNext]_services => I' BY DaemonPart
<1>3. I => OpenersServed BY SameDaemon, LibP!LifeServes DEF OpenersServed
<1> QED BY <1>1, <1>2, <1>3, PTL DEF ServicesSpec

\* As long as one base at a time has a descriptor of a slot, no request is
\* forgotten while the daemon sleeps or shuts down, a daemon that has ended has
\* released everything, and STOP is answered only after that (tn_ipc_cmd_stop,
\* tn_reap_dead_clients, the main loop and the shutdown of daemon_main.c).
THEOREM NoneForgotten == ~Shared => (ServicesSpec => NothingForgotten)
<1> SUFFICES ASSUME ~Shared PROVE ServicesSpec => NothingForgotten OBVIOUS
<1> DEFINE I == part = "daemon" => LibP!LifeInv
<1>0. LibP!LifeAssumption BY ServicesAssumption, SameDaemon
<1>1. ServicesInit => I BY DaemonPart
<1>2. I /\ [ServicesNext]_services => I' BY DaemonPart
<1>3. I => (part = "daemon" => Life!RequestsRemembered)
  BY <1>0, SameDaemon, LibP!LifeRemembers
<1>4. I /\ [ServicesNext]_services => [part = "daemon" => Life!StoppedMeansReleased]_services
  <2> SUFFICES ASSUME LibP!LifeInv, part = "daemon", [ServicesNext]_services
               PROVE  Life!StoppedMeansReleased
    OBVIOUS
  <2>1. [Life!LifeNext]_Life!lifevars
    BY DEF ServicesNext, services, Life!lifevars, Life!timev, Life!slotv
  <2>2. [LibP!LifeNext]_LibP!lifevars BY <2>1, SameDaemon
  <2> QED BY <1>0, <2>2, SameDaemon, LibP!LifeReleases
<1> QED BY <1>1, <1>2, <1>3, <1>4, PTL DEF ServicesSpec, NothingForgotten

(* The other parts whose proofs, in the parts' own variables, are in        *)
(* LibraryProofs.                                                           *)

\* Datagrams and its proofs' copy of it instantiate to the same formulas.
LEMMA SameDatagram ==
    /\ Dg!DgAssumption <=> LibP!DgAssumption
    /\ Dg!DgInit <=> LibP!DgInit
    /\ Dg!DgNext <=> LibP!DgNext
    /\ UNCHANGED Dg!dgvars <=> UNCHANGED LibP!dgvars
    /\ Dg!DatagramsExact <=> LibP!DatagramsExact
<1>1. Dg!DgAssumption <=> LibP!DgAssumption
  BY ZenonT(60) DEF Dg!DgAssumption, LibP!DgAssumption
<1>2. Dg!DgInit <=> LibP!DgInit
  BY ZenonT(60) DEF Dg!DgInit, LibP!DgInit
<1>3. Dg!DgNext <=> LibP!DgNext
  BY ZenonT(60) DEF Dg!queuev, LibP!queuev, Dg!Endpoint, LibP!Endpoint, Dg!QueuedIn,
      LibP!QueuedIn, Dg!Queued, LibP!Queued, Dg!OfKind, LibP!OfKind, Dg!tn_ipc_cmd_bind,
      LibP!tn_ipc_cmd_bind, Dg!tn_ipc_cmd_connect, LibP!tn_ipc_cmd_connect,
      Dg!tn_dgram_rcvbuf_full, LibP!tn_dgram_rcvbuf_full, Dg!DgArrives, LibP!DgArrives,
      Dg!tn_ipc_cmd_recvfrom, LibP!tn_ipc_cmd_recvfrom, Dg!SetRcvBuf, LibP!SetRcvBuf, Dg!DgNext,
      LibP!DgNext, Dg!Max, LibP!Max
<1>4. UNCHANGED Dg!dgvars <=> UNCHANGED LibP!dgvars
  BY ZenonT(60) DEF Dg!dgvars, LibP!dgvars
<1>5. Dg!DatagramsExact <=> LibP!DatagramsExact
  BY ZenonT(60) DEF Dg!Endpoint, LibP!Endpoint, Dg!NoName, LibP!NoName, Dg!QueuedIn,
      LibP!QueuedIn, Dg!Queued, LibP!Queued, Dg!OfKind, LibP!OfKind, Dg!is_connected,
      LibP!is_connected, Dg!tn_ipc_cmd_getpeername, LibP!tn_ipc_cmd_getpeername, Dg!Sent,
      LibP!Sent, Dg!Refused, LibP!Refused, Dg!send_len, LibP!send_len, Dg!Handed, LibP!Handed,
      Dg!tn_ipc_cmd_sendto, LibP!tn_ipc_cmd_sendto,
      Dg!tn_ipc_cmd_sendmsg, LibP!tn_ipc_cmd_sendmsg, Dg!SendPathsAgree, LibP!SendPathsAgree,
      Dg!DatagramsInOrder, LibP!DatagramsInOrder, Dg!DatagramsExact, LibP!DatagramsExact,
      Dg!Max, LibP!Max
<1> QED BY <1>1, <1>2, <1>3, <1>4, <1>5

\* The invariant of the datagram sockets holds of the part that is Datagrams.
LEMMA DatagramPart ==
    /\ LibP!DgAssumption
    /\ ServicesInit => (part = "datagrams" => LibP!DgInv)
    /\ part = "datagrams" /\ [ServicesNext]_services => [LibP!DgNext]_LibP!dgvars
    /\ (part = "datagrams" => LibP!DgInv) /\ [ServicesNext]_services
         => (part = "datagrams" => LibP!DgInv)'
<1>1. LibP!DgAssumption BY ServicesAssumption, SameDatagram
<1>2. ServicesInit => (part = "datagrams" => LibP!DgInv)
  BY <1>1, SameDatagram, LibP!DgStarts DEF ServicesInit
<1>3. part = "datagrams" /\ [ServicesNext]_services => [LibP!DgNext]_LibP!dgvars
  <2> SUFFICES ASSUME part = "datagrams", [ServicesNext]_services PROVE [LibP!DgNext]_LibP!dgvars
    OBVIOUS
  <2>1. [Dg!DgNext]_Dg!dgvars BY DEF ServicesNext, services, Dg!dgvars
  <2> QED BY <2>1, SameDatagram
<1>4. ASSUME part = "datagrams" => LibP!DgInv, [ServicesNext]_services, part' = "datagrams"
      PROVE  LibP!DgInv'
  <2>1. part = "datagrams" /\ LibP!DgInv BY <1>4, PartStays
  <2> QED BY <1>1, <1>3, <1>4, <2>1, LibP!DgKeeps
<1> QED BY <1>1, <1>2, <1>3, <1>4

\* LibFds and its proofs' copy of it instantiate to the same formulas.
LEMMA SameDescriptor ==
    /\ Lb!LbAssumption <=> LibP!LbAssumption
    /\ Lb!LbInit <=> LibP!LbInit
    /\ Lb!LbNext <=> LibP!LbNext
    /\ UNCHANGED Lb!lbvars <=> UNCHANGED LibP!lbvars
    /\ Lb!EventsTakeTurns <=> LibP!EventsTakeTurns
    /\ Lb!MirrorAgrees <=> LibP!MirrorAgrees
    /\ Lb!EventsAsked <=> LibP!EventsAsked
<1>1. Lb!LbAssumption <=> LibP!LbAssumption
  BY ZenonT(60) DEF Lb!LbAssumption, LibP!LbAssumption
<1>2. Lb!LbInit <=> LibP!LbInit
  BY ZenonT(60) DEF Lb!Fds, LibP!Fds, Lb!LbInit, LibP!LbInit
<1>3. Lb!LbNext <=> LibP!LbNext
  BY ZenonT(60) DEF Lb!lbasked, LibP!lbasked, Lb!NewSocket, LibP!NewSocket, Lb!lbevents,
      LibP!lbevents, Lb!lbmirror, LibP!lbmirror, Lb!Fds, LibP!Fds,
      Lb!Live, LibP!Live, Lb!LowestFd, LibP!LowestFd, Lb!Spare, LibP!Spare, Lb!Agreed,
      LibP!Agreed, Lb!OpenFd, LibP!OpenFd, Lb!Freed, LibP!Freed, Lb!CloseFd, LibP!CloseFd,
      Lb!Dup2Fd, LibP!Dup2Fd, Lb!FileUses, LibP!FileUses, Lb!SetFdCallback, LibP!SetFdCallback,
      Lb!CopyEvents, LibP!CopyEvents, Lb!SetDtableSize, LibP!SetDtableSize, Lb!SetEventMask,
      LibP!SetEventMask, Lb!tn_record_socket_event, LibP!tn_record_socket_event, Lb!NextEvent,
      LibP!NextEvent, Lb!GetSocketEvents, LibP!GetSocketEvents, Lb!LbNext, LibP!LbNext
<1>4. UNCHANGED Lb!lbvars <=> UNCHANGED LibP!lbvars
  BY ZenonT(60) DEF Lb!lbvars, LibP!lbvars
<1>5. Lb!EventsTakeTurns <=> LibP!EventsTakeTurns
  BY ZenonT(60) DEF Lb!EventsTakeTurns, LibP!EventsTakeTurns
<1>6. Lb!MirrorAgrees <=> LibP!MirrorAgrees
  BY ZenonT(60) DEF Lb!Fds, LibP!Fds, Lb!MirrorAgrees, LibP!MirrorAgrees
<1>7. Lb!EventsAsked <=> LibP!EventsAsked
  BY ZenonT(60) DEF Lb!EventsAsked, LibP!EventsAsked
<1> QED BY <1>1, <1>2, <1>3, <1>4, <1>5, <1>6, <1>7

\* The invariant of the descriptors and events holds of the part that is LibFds.
LEMMA DescriptorPart ==
    /\ LibP!LbAssumption
    /\ ServicesInit => (part = "descriptors" => LibP!LbInv)
    /\ part = "descriptors" /\ [ServicesNext]_services => [LibP!LbNext]_LibP!lbvars
    /\ (part = "descriptors" => LibP!LbInv) /\ [ServicesNext]_services
         => (part = "descriptors" => LibP!LbInv)'
<1>1. LibP!LbAssumption BY ServicesAssumption, SameDescriptor
<1>2. ServicesInit => (part = "descriptors" => LibP!LbInv)
  BY <1>1, SameDescriptor, LibP!LbStarts DEF ServicesInit
<1>3. part = "descriptors" /\ [ServicesNext]_services => [LibP!LbNext]_LibP!lbvars
  <2> SUFFICES ASSUME part = "descriptors", [ServicesNext]_services PROVE [LibP!LbNext]_LibP!lbvars
    OBVIOUS
  <2>1. [Lb!LbNext]_Lb!lbvars BY DEF ServicesNext, services, Lb!lbvars
  <2> QED BY <2>1, SameDescriptor
<1>4. ASSUME part = "descriptors" => LibP!LbInv, [ServicesNext]_services, part' = "descriptors"
      PROVE  LibP!LbInv'
  <2>1. part = "descriptors" /\ LibP!LbInv BY <1>4, PartStays
  <2> QED BY <1>1, <1>3, <1>4, <2>1, LibP!LbKeeps
<1> QED BY <1>1, <1>2, <1>3, <1>4

\* LibNames and its proofs' copy of it instantiate to the same formulas.
LEMMA SameName ==
    /\ Nb!NbAssumption <=> LibP!NbAssumption
    /\ Nb!NbInit <=> LibP!NbInit
    /\ Nb!NbNext <=> LibP!NbNext
    /\ UNCHANGED Nb!nbvars <=> UNCHANGED LibP!nbvars
    /\ Nb!ErrnoIsTheCallers <=> LibP!ErrnoIsTheCallers
<1>1. Nb!NbAssumption <=> LibP!NbAssumption
  BY ZenonT(60) DEF Nb!NbAssumption, LibP!NbAssumption
<1>2. Nb!NbInit <=> LibP!NbInit
  BY ZenonT(60) DEF Nb!NbInit, LibP!NbInit
<1>3. Nb!NbNext <=> LibP!NbNext
  BY ZenonT(60) DEF Nb!nberr, LibP!nberr, Nb!nbwalk, LibP!nbwalk, Nb!Cut, LibP!Cut,
      Nb!tn_set_errno_val, LibP!tn_set_errno_val, Nb!Fails, LibP!Fails, Nb!CallFails,
      LibP!CallFails, Nb!SetErrnoPtr, LibP!SetErrnoPtr, Nb!ClearsErrno, LibP!ClearsErrno,
      Nb!tn_syslog_send, LibP!tn_syslog_send, Nb!Herrno, LibP!Herrno, Nb!Resolved,
      LibP!Resolved, Nb!gethostbyname, LibP!gethostbyname, Nb!gethostbyaddr, LibP!gethostbyaddr,
      Nb!gethostbyname_r, LibP!gethostbyname_r, Nb!getaddrinfo, LibP!getaddrinfo,
      Nb!freeaddrinfo, LibP!freeaddrinfo, Nb!getservbyname, LibP!getservbyname, Nb!setservent,
      LibP!setservent, Nb!getservent, LibP!getservent, Nb!NameLookup, LibP!NameLookup,
      Nb!NbNext, LibP!NbNext
<1>4. UNCHANGED Nb!nbvars <=> UNCHANGED LibP!nbvars
  BY ZenonT(60) DEF Nb!nbvars, LibP!nbvars
<1>5. Nb!ErrnoIsTheCallers <=> LibP!ErrnoIsTheCallers
  BY ZenonT(60) DEF Nb!Cut, LibP!Cut, Nb!Errno, LibP!Errno, Nb!ErrnoIsTheCallers,
      LibP!ErrnoIsTheCallers
<1> QED BY <1>1, <1>2, <1>3, <1>4, <1>5

\* The invariant of the errno and names holds of the part that is LibNames.
LEMMA NamePart ==
    /\ LibP!NbAssumption
    /\ ServicesInit => (part = "names" => LibP!NbInv)
    /\ part = "names" /\ [ServicesNext]_services => [LibP!NbNext]_LibP!nbvars
    /\ (part = "names" => LibP!NbInv) /\ [ServicesNext]_services
         => (part = "names" => LibP!NbInv)'
<1>1. LibP!NbAssumption BY ServicesAssumption, SameName
<1>2. ServicesInit => (part = "names" => LibP!NbInv)
  BY <1>1, SameName, LibP!NbStarts DEF ServicesInit
<1>3. part = "names" /\ [ServicesNext]_services => [LibP!NbNext]_LibP!nbvars
  <2> SUFFICES ASSUME part = "names", [ServicesNext]_services PROVE [LibP!NbNext]_LibP!nbvars
    OBVIOUS
  <2>1. [Nb!NbNext]_Nb!nbvars BY DEF ServicesNext, services, Nb!nbvars
  <2> QED BY <2>1, SameName
<1>4. ASSUME part = "names" => LibP!NbInv, [ServicesNext]_services, part' = "names"
      PROVE  LibP!NbInv'
  <2>1. part = "names" /\ LibP!NbInv BY <1>4, PartStays
  <2> QED BY <1>1, <1>3, <1>4, <2>1, LibP!NbKeeps
<1> QED BY <1>1, <1>2, <1>3, <1>4

\* SbtcTags and its proofs' copy of it instantiate to the same formulas.
LEMMA SameTagList ==
    /\ Sb!SbAssumption <=> LibP!SbAssumption
    /\ Sb!SbInit <=> LibP!SbInit
    /\ Sb!SbNext <=> LibP!SbNext
    /\ UNCHANGED Sb!sbvars <=> UNCHANGED LibP!sbvars
    /\ Sb!TagListExact <=> LibP!TagListExact
<1>1. Sb!SbAssumption <=> LibP!SbAssumption
  BY ZenonT(60) DEF Sb!SbAssumption, LibP!SbAssumption
<1>2. Sb!SbInit <=> LibP!SbInit
  BY ZenonT(60) DEF Sb!SbSettings, LibP!SbSettings, Sb!Cells, LibP!Cells, Sb!SbInit, LibP!SbInit
<1>3. Sb!SbNext <=> LibP!SbNext
  BY ZenonT(60) DEF Sb!SbSettings, LibP!SbSettings, Sb!Codes, LibP!Codes, Sb!Tags, LibP!Tags,
      Sb!tn_sbtc_dispatch_tag, LibP!tn_sbtc_dispatch_tag, Sb!Loaded, LibP!Loaded, Sb!Applied,
      LibP!Applied, Sb!TagLoop, LibP!TagLoop, Sb!SocketBaseTagList, LibP!SocketBaseTagList,
      Sb!Returned, LibP!Returned, Sb!SbNext, LibP!SbNext
<1>4. UNCHANGED Sb!sbvars <=> UNCHANGED LibP!sbvars
  BY ZenonT(60) DEF Sb!sbvars, LibP!sbvars
<1>5. Sb!TagListExact <=> LibP!TagListExact
  BY ZenonT(60) DEF Sb!SbSettings, LibP!SbSettings, Sb!TagListExact, LibP!TagListExact
<1> QED BY <1>1, <1>2, <1>3, <1>4, <1>5

\* The invariant of the tag lists holds of the part that is SbtcTags.
LEMMA TagListPart ==
    /\ LibP!SbAssumption
    /\ ServicesInit => (part = "tags" => LibP!SbInv)
    /\ part = "tags" /\ [ServicesNext]_services => [LibP!SbNext]_LibP!sbvars
    /\ (part = "tags" => LibP!SbInv) /\ [ServicesNext]_services
         => (part = "tags" => LibP!SbInv)'
<1>1. LibP!SbAssumption BY ServicesAssumption, SameTagList
<1>2. ServicesInit => (part = "tags" => LibP!SbInv)
  BY <1>1, SameTagList, LibP!SbStarts DEF ServicesInit
<1>3. part = "tags" /\ [ServicesNext]_services => [LibP!SbNext]_LibP!sbvars
  <2> SUFFICES ASSUME part = "tags", [ServicesNext]_services PROVE [LibP!SbNext]_LibP!sbvars
    OBVIOUS
  <2>1. [Sb!SbNext]_Sb!sbvars BY DEF ServicesNext, services, Sb!sbvars
  <2> QED BY <2>1, SameTagList
<1>4. ASSUME part = "tags" => LibP!SbInv, [ServicesNext]_services, part' = "tags"
      PROVE  LibP!SbInv'
  <2>1. part = "tags" /\ LibP!SbInv BY <1>4, PartStays
  <2> QED BY <1>1, <1>3, <1>4, <2>1, LibP!SbKeeps
<1> QED BY <1>1, <1>2, <1>3, <1>4

\* Usergroup and its proofs' copy of it instantiate to the same formulas.
LEMMA SameGroup ==
    /\ Ug!UgAssumption <=> LibP!UgAssumption
    /\ Ug!UgInit <=> LibP!UgInit
    /\ Ug!UgNext <=> LibP!UgNext
    /\ UNCHANGED Ug!ugvars <=> UNCHANGED LibP!ugvars
    /\ Ug!StartsClean <=> LibP!StartsClean
<1>1. Ug!UgAssumption <=> LibP!UgAssumption
  BY ZenonT(60) DEF Ug!UgAssumption, LibP!UgAssumption, Ug!IsFiniteSet, LibP!IsFiniteSet
<1>2. Ug!UgInit <=> LibP!UgInit
  BY ZenonT(60) DEF Ug!NoTask, LibP!NoTask, Ug!UgInit, LibP!UgInit
<1>3. Ug!UgNext <=> LibP!UgNext
  BY ZenonT(60) DEF Ug!ugbase, LibP!ugbase, Ug!NoTask, LibP!NoTask, Ug!ug_ctx_init,
      LibP!ug_ctx_init, Ug!Slots, LibP!Slots, Ug!FirstOf, LibP!FirstOf, Ug!LibOpenCnt,
      LibP!LibOpenCnt, Ug!ug_ctx_lookup, LibP!ug_ctx_lookup, Ug!Mine, LibP!Mine, Ug!ug_lib_open,
      LibP!ug_lib_open, Ug!ug_ctx_closed, LibP!ug_ctx_closed, Ug!Expunged, LibP!Expunged,
      Ug!ug_lib_close, LibP!ug_lib_close, Ug!ug_lib_expunge, LibP!ug_lib_expunge, Ug!ug_init_c,
      LibP!ug_init_c, Ug!ChangeOwn, LibP!ChangeOwn, Ug!NameOther, LibP!NameOther, Ug!LinkNew,
      LibP!LinkNew, Ug!Loads, LibP!Loads, Ug!ug_db_ensure_loaded, LibP!ug_db_ensure_loaded,
      Ug!ug_db_getpwent, LibP!ug_db_getpwent, Ug!ug_db_setpwent, LibP!ug_db_setpwent, Ug!UgNext,
      LibP!UgNext, Ug!Cardinality, LibP!Cardinality
<1>4. UNCHANGED Ug!ugvars <=> UNCHANGED LibP!ugvars
  BY ZenonT(60) DEF Ug!ugvars, LibP!ugvars
<1>5. Ug!StartsClean <=> LibP!StartsClean
  BY ZenonT(60) DEF Ug!Slots, LibP!Slots, Ug!StartsClean, LibP!StartsClean, Ug!Cardinality,
      LibP!Cardinality
<1> QED BY <1>1, <1>2, <1>3, <1>4, <1>5

\* The invariant of the usergroup.library holds of the part that is Usergroup.
LEMMA GroupPart ==
    /\ LibP!UgAssumption
    /\ ServicesInit => (part = "usergroup" => LibP!UgInv)
    /\ part = "usergroup" /\ [ServicesNext]_services => [LibP!UgNext]_LibP!ugvars
    /\ (part = "usergroup" => LibP!UgInv) /\ [ServicesNext]_services
         => (part = "usergroup" => LibP!UgInv)'
<1>1. LibP!UgAssumption BY ServicesAssumption, SameGroup
<1>2. ServicesInit => (part = "usergroup" => LibP!UgInv)
  BY <1>1, SameGroup, LibP!UgStarts DEF ServicesInit
<1>3. part = "usergroup" /\ [ServicesNext]_services => [LibP!UgNext]_LibP!ugvars
  <2> SUFFICES ASSUME part = "usergroup", [ServicesNext]_services PROVE [LibP!UgNext]_LibP!ugvars
    OBVIOUS
  <2>1. [Ug!UgNext]_Ug!ugvars BY DEF ServicesNext, services, Ug!ugvars
  <2> QED BY <2>1, SameGroup
<1>4. ASSUME part = "usergroup" => LibP!UgInv, [ServicesNext]_services, part' = "usergroup"
      PROVE  LibP!UgInv'
  <2>1. part = "usergroup" /\ LibP!UgInv BY <1>4, PartStays
  <2> QED BY <1>1, <1>3, <1>4, <2>1, LibP!UgKeeps
<1> QED BY <1>1, <1>2, <1>3, <1>4

\* StackSwap and its proofs' copy of it instantiate to the same formulas.
LEMMA SameSwap ==
    /\ Ss!SsAssumption <=> LibP!SsAssumption
    /\ Ss!SsInit <=> LibP!SsInit
    /\ Ss!SsNext <=> LibP!SsNext
    /\ UNCHANGED Ss!ssvars <=> UNCHANGED LibP!ssvars
    /\ Ss!SwapReversible <=> LibP!SwapReversible
<1>1. Ss!SsAssumption <=> LibP!SsAssumption
  BY ZenonT(60) DEF Ss!IsOwn, LibP!IsOwn, Ss!Lines, LibP!Lines, Ss!SsLines, LibP!SsLines,
      Ss!SsAssumption, LibP!SsAssumption
<1>2. Ss!SsInit <=> LibP!SsInit
  BY ZenonT(60) DEF Ss!Picked, LibP!Picked, Ss!IsOwn, LibP!IsOwn, Ss!UserOf, LibP!UserOf,
      Ss!SsInit, LibP!SsInit
<1>3. Ss!SsNext <=> LibP!SsNext
  BY ZenonT(60) DEF Ss!history, LibP!history, Ss!Seeds, LibP!Seeds, Ss!Seeded, LibP!Seeded,
      Ss!Picked, LibP!Picked, Ss!IsOwn, LibP!IsOwn,
      Ss!UserOf, LibP!UserOf, Ss!Lines, LibP!Lines, Ss!Mapped, LibP!Mapped,
      Ss!tn_parse_startup_script, LibP!tn_parse_startup_script, Ss!tn_uncomment_startup_script,
      LibP!tn_uncomment_startup_script, Ss!Inside, LibP!Inside, Ss!WithoutBlock,
      LibP!WithoutBlock, Ss!Block, LibP!Block, Ss!MayFail, LibP!MayFail, Ss!NoFault,
      LibP!NoFault, Ss!Goes, LibP!Goes, Ss!Within, LibP!Within, Ss!Files_UNCHANGED,
      LibP!Files_UNCHANGED, Ss!OnlyScript, LibP!OnlyScript, Ss!OnlyLib, LibP!OnlyLib,
      Ss!Abandon, LibP!Abandon, Ss!Finish, LibP!Finish, Ss!Backup, LibP!Backup,
      Ss!write_undo_stacks_script, LibP!write_undo_stacks_script, Ss!Rewrites, LibP!Rewrites,
      Ss!NewText, LibP!NewText, Ss!Needed, LibP!Needed, Ss!After, LibP!After, Ss!Failed,
      LibP!Failed, Ss!Ended, LibP!Ended, Ss!WriteNew, LibP!WriteNew, Ss!DropPrev, LibP!DropPrev,
      Ss!MoveOld, LibP!MoveOld, Ss!MoveNew, LibP!MoveNew, Ss!Lib, LibP!Lib, Ss!Park, LibP!Park,
      Ss!ToBackup, LibP!ToBackup, Ss!Unpark, LibP!Unpark, Ss!Swap, LibP!Swap, Ss!UndoStacksScript, LibP!UndoStacksScript, Ss!Icon,
      LibP!Icon, Ss!SsPowerCut, LibP!SsPowerCut, Ss!UserEdits, LibP!UserEdits, Ss!Reinstall,
      LibP!Reinstall, Ss!SsNext, LibP!SsNext
<1>4. UNCHANGED Ss!ssvars <=> UNCHANGED LibP!ssvars
  BY ZenonT(60) DEF Ss!ssvars, LibP!ssvars
<1>5. Ss!SwapReversible <=> LibP!SwapReversible
  BY ZenonT(60) DEF Ss!Picked, LibP!Picked, Ss!IsOwn, LibP!IsOwn, Ss!UserOf, LibP!UserOf,
      Ss!Lines, LibP!Lines, Ss!UserLinesKept, LibP!UserLinesKept, Ss!OriginalComesBack,
      LibP!OriginalComesBack, Ss!SwapReversible, LibP!SwapReversible
<1> QED BY <1>1, <1>2, <1>3, <1>4, <1>5

\* The invariant of the stack replacement holds of the part that is StackSwap.
LEMMA SwapPart ==
    /\ LibP!SsAssumption
    /\ ServicesInit => (part = "swap" => LibP!SsInv)
    /\ part = "swap" /\ [ServicesNext]_services => [LibP!SsNext]_LibP!ssvars
    /\ (part = "swap" => LibP!SsInv) /\ [ServicesNext]_services
         => (part = "swap" => LibP!SsInv)'
<1>1. LibP!SsAssumption BY ServicesAssumption, SameSwap
<1>2. ServicesInit => (part = "swap" => LibP!SsInv)
  BY <1>1, SameSwap, LibP!SsStarts DEF ServicesInit
<1>3. part = "swap" /\ [ServicesNext]_services => [LibP!SsNext]_LibP!ssvars
  <2> SUFFICES ASSUME part = "swap", [ServicesNext]_services PROVE [LibP!SsNext]_LibP!ssvars
    OBVIOUS
  <2>1. [Ss!SsNext]_Ss!ssvars BY DEF ServicesNext, services, Ss!ssvars
  <2> QED BY <2>1, SameSwap
<1>4. ASSUME part = "swap" => LibP!SsInv, [ServicesNext]_services, part' = "swap"
      PROVE  LibP!SsInv'
  <2>1. part = "swap" /\ LibP!SsInv BY <1>4, PartStays
  <2> QED BY <1>1, <1>3, <1>4, <2>1, LibP!SsKeeps
<1> QED BY <1>1, <1>2, <1>3, <1>4

\* The two send paths of a UDP or RAW socket decide alike whatever bind and
\* connect came before, and datagrams are received in the order they came, each
\* once, from a queue within its bounds (ipc_dgram.c, ipc_msg.c, ipc_socket.c).
THEOREM DatagramsHold == ServicesSpec => []DatagramsExact
<1> DEFINE I == part = "datagrams" => LibP!DgInv
<1>1. ServicesInit => I BY DatagramPart
<1>2. I /\ [ServicesNext]_services => I' BY DatagramPart
<1>3. I => DatagramsExact BY DatagramPart, SameDatagram, LibP!DgExact DEF DatagramsExact
<1> QED BY <1>1, <1>2, <1>3, PTL DEF ServicesSpec

\* No socket event waits for more reports than there are descriptors, none is
\* recorded for a socket that neither set a mask nor found one at its number, and
\* the C runtime's table mirrors the library's but for calls that failed or were
\* made with no callback set; errno is that of the last call that
\* failed, and a SocketBaseTags call has done exactly the tags before the one it
\* refuses (lib_vectors.c, sbtc_dispatch.c).
THEOREM LibraryHolds == ServicesSpec => []LibraryExact
<1> DEFINE I == part = "descriptors" => LibP!LbInv
           J == part = "names" => LibP!NbInv
           K == part = "tags" => LibP!SbInv
<1>1. ServicesInit => I /\ J /\ K BY DescriptorPart, NamePart, TagListPart
<1>2. I /\ [ServicesNext]_services => I' BY DescriptorPart
<1>3. J /\ [ServicesNext]_services => J' BY NamePart
<1>4. K /\ [ServicesNext]_services => K' BY TagListPart
<1>5. I => (part = "descriptors" => Lb!EventsTakeTurns /\ Lb!EventsAsked /\ Lb!MirrorAgrees)
  BY DescriptorPart, SameDescriptor, LibP!LbExact
<1>6. J => (part = "names" => Nb!ErrnoIsTheCallers) BY SameName, LibP!NbErrno
<1>7. K => (part = "tags" => Sb!TagListExact) BY TagListPart, SameTagList, LibP!SbExact
<1>8. I /\ J /\ K => LibraryExact BY <1>5, <1>6, <1>7 DEF LibraryExact
<1> QED BY <1>1, <1>2, <1>3, <1>4, <1>8, PTL DEF ServicesSpec

\* A program that opens usergroup.library finds no identity that a former owner
\* of its task address left, and one context counts its opens and holds its
\* cursor, although a lookup links a new context in a second step (ug_context.c, ug_init.c).
THEOREM CleanStart == ServicesSpec => []StartsClean
<1> DEFINE I == part = "usergroup" => LibP!UgInv
<1>1. ServicesInit => I BY GroupPart
<1>2. I /\ [ServicesNext]_services => I' BY GroupPart
<1>3. I => StartsClean BY GroupPart, SameGroup, LibP!UgExact DEF StartsClean
<1> QED BY <1>1, <1>2, <1>3, PTL DEF ServicesSpec

\* Replacing another stack and undoing it never lose a startup line of the user
\* or the library that was there, whichever step fails and wherever the power
\* goes, and an undo that reports success has put everything back
\* (stack_detect.c, boot_block.c, safe_replace.c, TolunnetSetup.c).
THEOREM SwapUndone == ServicesSpec => []SwapReversible
<1> DEFINE I == part = "swap" => LibP!SsInv
<1>1. ServicesInit => I BY SwapPart
<1>2. I /\ [ServicesNext]_services => I' BY SwapPart
<1>3. I => SwapReversible BY SwapPart, SameSwap, LibP!SsHolds DEF SwapReversible
<1> QED BY <1>1, <1>2, <1>3, PTL DEF ServicesSpec

----------------------------------------------------------------------------
(* The parts whose proofs, in the parts' own variables, are in PartProofs.  *)

PartP == INSTANCE PartProofs WITH
    dns_pending <- v1, dns_pending_count <- v2, dns_eff <- v3, lwip_dns <- v4, dns_client <-
    v5, unit <- v1, rd <- v2, read_armed <- v3, wr <- v4, tx_busy <- v5, ev <- v6,
    event_armed <- v7, event_supported <- v8, event_strikes <- v9, handled <- v10, link_down
    <- v11, mac <- v12, six <- v13, opt_name <- v1, oslot <- v2, mcast_joins <- v1,
    igmp_use <- v2, mc_addr <- v4, mc_stuck <- v5,
    mc_open <- v3, mainloop_ticks <- v1, timeo <- v2, dpend <- v3, deadline <- v4, waited <-
    v5, due <- v6, rearmed <- v7, onzero <- v8, cl_pc <- v1, cl_held <- v2, cl_io <- v3, cl_armed <- v4,
    cl_boot <- v5, eclock <- v6, cl_now <- v7, cl_at <- v8, cl_clash <- v9, g_routes <- v1,
    eth <- v2, disk <- v1, now <- v2, arc <- v3, saver <- v4, kept <- v5, offered <- v6,
    exposed <- v7, settled <- v8, pe_pc <- v1, pe_held <- v2, pe_timer <- v3, pe_prefs <-
    v4, pe_win <- v5, pe_last <- v6, pe_devs <- v7, pe_env <- v8, pe_newer <- v9, pe_daemon
    <- v10, pe_buttons <- v11, pe_wish <- v12, pe_edits <- v13, ws <- v1, wz_gad <- v2,
    wz_lock <- v3, wz_adv <- v4, wz_run <- v5, wz_rexx <- v6, wz_left <- v7, wz_wish <- v8,
    wz_prefs <- v9, wz_config <- v10, wz_finishes <- v11, ht_size <- v1, ht_pc <- v2, ht_url
    <- v3, redirect_count <- v4, resume_offset <- v5, resp_start <- v6, total_written <- v7,
    ht_file <- v8, status_code <- v9, framing <- v10, content_length <- v11, ht_wire <- v12,
    ht_fin <- v13, chunk <- v14, exit_code <- v15, ft_pc <- v1, ft_said <- v2, ft_kind <-
    v3, ft_port <- v4, ft_count <- v5, ft_xrc <- v6, ft_told <- v7, ft_rc <- v8, ft_break <-
    v9, ft_left <- v10, ft_verbs <- v11, ft_replies <- v12, ft_srv <- v13, ft_data <- v14,
    ft_lost <- v15, ft_missed <- v16

\* DnsPending and its proofs' copy of it instantiate to the same formulas.
LEMMA SameDns ==
    /\ Dns!DnsAssumption <=> PartP!DnsAssumption
    /\ Dns!DnsInit <=> PartP!DnsInit
    /\ Dns!DnsNext <=> PartP!DnsNext
    /\ UNCHANGED Dns!dnsvars <=> UNCHANGED PartP!dnsvars
    /\ Dns!WaitersTracked <=> PartP!WaitersTracked
    /\ Dns!NoStaleAnswer <=> PartP!NoStaleAnswer
<1>1. Dns!DnsAssumption <=> PartP!DnsAssumption
  BY ZenonT(60) DEF Dns!DnsAssumption, PartP!DnsAssumption
<1>2. Dns!DnsInit <=> PartP!DnsInit
  BY ZenonT(60) DEF Dns!DnsSlots, PartP!DnsSlots, Dns!DnsKeys, PartP!DnsKeys, Dns!DnsInit,
      PartP!DnsInit
<1>3. Dns!DnsNext <=> PartP!DnsNext
  BY ZenonT(60) DEF Dns!DnsSlots, PartP!DnsSlots, Dns!DnsKeys, PartP!DnsKeys, Dns!RecordsInUse,
      PartP!RecordsInUse, Dns!Of, PartP!Of, Dns!Owed, PartP!Owed, Dns!FullLwip, PartP!FullLwip,
      Dns!ClientIs, PartP!ClientIs, Dns!tn_dns_matches, PartP!tn_dns_matches, Dns!Released,
      PartP!Released, Dns!DnsLookup, PartP!DnsLookup, Dns!tn_ipc_cmd_gethostbyname,
      PartP!tn_ipc_cmd_gethostbyname, Dns!tn_dns_found_cb, PartP!tn_dns_found_cb, Dns!DnsCancel,
      PartP!DnsCancel, Dns!tn_dns_cancel_for_base, PartP!tn_dns_cancel_for_base, Dns!DnsClose,
      PartP!DnsClose, Dns!DnsOpen, PartP!DnsOpen, Dns!DnsReconfig, PartP!DnsReconfig,
      Dns!DnsNext, PartP!DnsNext, Dns!Cardinality, PartP!Cardinality
<1>4. UNCHANGED Dns!dnsvars <=> UNCHANGED PartP!dnsvars
  BY ZenonT(60) DEF Dns!dnsvars, PartP!dnsvars
<1>5. Dns!WaitersTracked <=> PartP!WaitersTracked
  BY ZenonT(60) DEF Dns!DnsSlots, PartP!DnsSlots, Dns!DnsKeys, PartP!DnsKeys, Dns!RecordsInUse,
      PartP!RecordsInUse, Dns!Owed, PartP!Owed, Dns!WaitersTracked, PartP!WaitersTracked,
      Dns!Cardinality, PartP!Cardinality
<1>6. Dns!NoStaleAnswer <=> PartP!NoStaleAnswer
  BY ZenonT(60) DEF Dns!NoStaleAnswer, PartP!NoStaleAnswer
<1> QED BY <1>1, <1>2, <1>3, <1>4, <1>5, <1>6

\* The invariant of the lookups holds of the part that is DnsPending.
LEMMA DnsPart ==
    /\ PartP!DnsAssumption
    /\ ServicesInit => (part = "dns" => PartP!DnsInv)
    /\ part = "dns" /\ [ServicesNext]_services => [PartP!DnsNext]_PartP!dnsvars
    /\ (part = "dns" => PartP!DnsInv) /\ [ServicesNext]_services
         => (part = "dns" => PartP!DnsInv)'
<1>1. PartP!DnsAssumption BY ServicesAssumption, SameDns
<1>2. ServicesInit => (part = "dns" => PartP!DnsInv)
  BY <1>1, SameDns, PartP!DnsStarts DEF ServicesInit
<1>3. part = "dns" /\ [ServicesNext]_services => [PartP!DnsNext]_PartP!dnsvars
  <2> SUFFICES ASSUME part = "dns", [ServicesNext]_services PROVE [PartP!DnsNext]_PartP!dnsvars
    OBVIOUS
  <2>1. [Dns!DnsNext]_Dns!dnsvars BY DEF ServicesNext, services, Dns!dnsvars
  <2> QED BY <2>1, SameDns
<1>4. ASSUME part = "dns" => PartP!DnsInv, [ServicesNext]_services, part' = "dns"
      PROVE  PartP!DnsInv'
  <2>1. part = "dns" /\ PartP!DnsInv BY <1>4, PartStays
  <2> QED BY <1>1, <1>3, <1>4, <2>1, PartP!DnsKeeps
<1> QED BY <1>1, <1>2, <1>3, <1>4

\* Sana2 and its proofs' copy of it instantiate to the same formulas.
LEMMA SameDriver ==
    /\ S2!S2Assumption <=> PartP!S2Assumption
    /\ S2!S2Init <=> PartP!S2Init
    /\ S2!S2Next <=> PartP!S2Next
    /\ UNCHANGED S2!s2vars <=> UNCHANGED PartP!s2vars
    /\ S2!RequestsAccounted <=> PartP!RequestsAccounted
    /\ S2!TickRestoresReads <=> PartP!TickRestoresReads
<1>1. S2!S2Assumption <=> PartP!S2Assumption
  BY ZenonT(60) DEF S2!S2Assumption, PartP!S2Assumption
<1>2. S2!S2Init <=> PartP!S2Init
  BY ZenonT(60) DEF S2!S2Init, PartP!S2Init
<1>3. S2!S2Next <=> PartP!S2Next
  BY ZenonT(60) DEF S2!rdv, PartP!rdv, S2!wrv, PartP!wrv, S2!evv, PartP!evv, S2!Replied,
      PartP!Replied, S2!tn_s2_addr_usable, PartP!tn_s2_addr_usable, S2!ChosenMac,
      PartP!ChosenMac, S2!MacAfterConfig, PartP!MacAfterConfig, S2!tn_s2_open, PartP!tn_s2_open,
      S2!tn_s2_online, PartP!tn_s2_online, S2!tn_s2_tx_init, PartP!tn_s2_tx_init, S2!PoolUp,
      PartP!PoolUp, S2!tn_s2_arm_reads, PartP!tn_s2_arm_reads, S2!tn_s2_arm_events,
      PartP!tn_s2_arm_events, S2!DriverRead, PartP!DriverRead, S2!DriverWrite,
      PartP!DriverWrite, S2!DriverEvent, PartP!DriverEvent, S2!NotPolling, PartP!NotPolling,
      S2!tn_sana2_poll_input, PartP!tn_sana2_poll_input, S2!Rearmed, PartP!Rearmed,
      S2!tn_s2_rearm_reads, PartP!tn_s2_rearm_reads, S2!tn_s2_tx_drain, PartP!tn_s2_tx_drain,
      S2!S2Tick, PartP!S2Tick, S2!FirstFree, PartP!FirstFree, S2!SendOn, PartP!SendOn,
      S2!tn_s2_send, PartP!tn_s2_send, S2!LinkAfter, PartP!LinkAfter,
      S2!tn_s2_handle_event_bits, PartP!tn_s2_handle_event_bits, S2!tn_s2_poll_events,
      PartP!tn_s2_poll_events, S2!PollEnds, PartP!PollEnds, S2!Retired, PartP!Retired,
      S2!tn_s2_offline_close, PartP!tn_s2_offline_close, S2!S2Next, PartP!S2Next
<1>4. UNCHANGED S2!s2vars <=> UNCHANGED PartP!s2vars
  BY ZenonT(60) DEF S2!rdv, PartP!rdv, S2!wrv, PartP!wrv, S2!evv, PartP!evv, S2!s2vars,
      PartP!s2vars
<1>5. S2!RequestsAccounted <=> PartP!RequestsAccounted
  BY ZenonT(60) DEF S2!Ours, PartP!Ours, S2!tn_s2_addr_usable, PartP!tn_s2_addr_usable,
      S2!FlagsTellOwnership, PartP!FlagsTellOwnership, S2!StationAddressUsable,
      PartP!StationAddressUsable, S2!RequestsAccounted, PartP!RequestsAccounted
<1>6. S2!TickRestoresReads <=> PartP!TickRestoresReads
  BY ZenonT(60) DEF S2!rdv, PartP!rdv, S2!evv, PartP!evv, S2!Ours, PartP!Ours, S2!Replied,
      PartP!Replied, S2!NotPolling, PartP!NotPolling, S2!Rearmed, PartP!Rearmed,
      S2!tn_s2_rearm_reads, PartP!tn_s2_rearm_reads, S2!tn_s2_tx_drain, PartP!tn_s2_tx_drain,
      S2!S2Tick, PartP!S2Tick, S2!TickRestoresReads, PartP!TickRestoresReads
<1> QED BY <1>1, <1>2, <1>3, <1>4, <1>5, <1>6

\* The invariant of the network interface holds of the part that is Sana2.
LEMMA DriverPart ==
    /\ PartP!S2Assumption
    /\ ServicesInit => (part = "sana2" => PartP!S2Inv)
    /\ part = "sana2" /\ [ServicesNext]_services => [PartP!S2Next]_PartP!s2vars
    /\ (part = "sana2" => PartP!S2Inv) /\ [ServicesNext]_services
         => (part = "sana2" => PartP!S2Inv)'
<1>1. PartP!S2Assumption BY ServicesAssumption, SameDriver
<1>2. ServicesInit => (part = "sana2" => PartP!S2Inv)
  BY <1>1, SameDriver, PartP!S2Starts DEF ServicesInit
<1>3. part = "sana2" /\ [ServicesNext]_services => [PartP!S2Next]_PartP!s2vars
  <2> SUFFICES ASSUME part = "sana2", [ServicesNext]_services PROVE [PartP!S2Next]_PartP!s2vars
    OBVIOUS
  <2>1. [S2!S2Next]_S2!s2vars BY DEF ServicesNext, services, S2!s2vars, S2!rdv, S2!wrv, S2!evv
  <2> QED BY <2>1, SameDriver
<1>4. ASSUME part = "sana2" => PartP!S2Inv, [ServicesNext]_services, part' = "sana2"
      PROVE  PartP!S2Inv'
  <2>1. part = "sana2" /\ PartP!S2Inv BY <1>4, PartStays
  <2> QED BY <1>1, <1>3, <1>4, <2>1, PartP!S2Keeps
<1> QED BY <1>1, <1>2, <1>3, <1>4

\* SocketOptions and its proofs' copy of it instantiate to the same formulas.
LEMMA SameOptions ==
    /\ Opt!OptAssumption <=> PartP!OptAssumption
    /\ Opt!OptInit <=> PartP!OptInit
    /\ Opt!OptNext <=> PartP!OptNext
    /\ UNCHANGED Opt!optvars <=> UNCHANGED PartP!optvars
    /\ Opt!OptionInForce <=> PartP!OptionInForce
<1>1. Opt!OptAssumption <=> PartP!OptAssumption
  BY ZenonT(60) DEF Opt!OptAssumption, PartP!OptAssumption
<1>2. Opt!OptInit <=> PartP!OptInit
  BY ZenonT(60) DEF Opt!Booleans, PartP!Booleans, Opt!OptNames, PartP!OptNames, Opt!FreeOpt,
      PartP!FreeOpt, Opt!OptInit, PartP!OptInit
<1>3. Opt!OptNext <=> PartP!OptNext
  BY ZenonT(60) DEF Opt!Booleans, PartP!Booleans, Opt!StoredAtStart, PartP!StoredAtStart,
      Opt!LiveAtStart, PartP!LiveAtStart, Opt!FreeOpt, PartP!FreeOpt, Opt!NewOpt, PartP!NewOpt,
      Opt!Connected, PartP!Connected, Opt!PutOpt, PartP!PutOpt, Opt!OptSocket, PartP!OptSocket,
      Opt!MaxSegLimit, PartP!MaxSegLimit, Opt!AcceptsValue, PartP!AcceptsValue, Opt!StoredAs,
      PartP!StoredAs, Opt!WritesListener, PartP!WritesListener, Opt!LiveAs, PartP!LiveAs,
      Opt!tn_ipc_cmd_setsockopt, PartP!tn_ipc_cmd_setsockopt, Opt!OptConnect, PartP!OptConnect,
      Opt!OptConnected, PartP!OptConnected, Opt!OptListen, PartP!OptListen, Opt!InheritLive,
      PartP!InheritLive, Opt!InheritStored, PartP!InheritStored,
      Opt!OptAccept, PartP!OptAccept, Opt!OptPeer, PartP!OptPeer, Opt!OptClose, PartP!OptClose,
      Opt!OptNext, PartP!OptNext
<1>4. UNCHANGED Opt!optvars <=> UNCHANGED PartP!optvars
  BY ZenonT(60) DEF Opt!optvars, PartP!optvars
<1>5. Opt!OptionInForce <=> PartP!OptionInForce
  BY ZenonT(60) DEF Opt!Connected, PartP!Connected, Opt!Reported, PartP!Reported,
      Opt!InForce, PartP!InForce, Opt!Answer, PartP!Answer,
      Opt!OptionInForce, PartP!OptionInForce
<1> QED BY <1>1, <1>2, <1>3, <1>4, <1>5

\* The invariant of the socket options holds of the part that is SocketOptions.
LEMMA OptionsPart ==
    /\ PartP!OptAssumption
    /\ ServicesInit => (part = "options" => PartP!OptInv)
    /\ part = "options" /\ [ServicesNext]_services => [PartP!OptNext]_PartP!optvars
    /\ (part = "options" => PartP!OptInv) /\ [ServicesNext]_services
         => (part = "options" => PartP!OptInv)'
<1>1. PartP!OptAssumption BY ServicesAssumption, SameOptions
<1>2. ServicesInit => (part = "options" => PartP!OptInv)
  BY <1>1, SameOptions, PartP!OptStarts DEF ServicesInit
<1>3. part = "options" /\ [ServicesNext]_services => [PartP!OptNext]_PartP!optvars
  <2> SUFFICES ASSUME part = "options", [ServicesNext]_services PROVE [PartP!OptNext]_PartP!optvars
    OBVIOUS
  <2>1. [Opt!OptNext]_Opt!optvars BY DEF ServicesNext, services, Opt!optvars
  <2> QED BY <2>1, SameOptions
<1>4. ASSUME part = "options" => PartP!OptInv, [ServicesNext]_services, part' = "options"
      PROVE  PartP!OptInv'
  <2>1. part = "options" /\ PartP!OptInv BY <1>4, PartStays
  <2> QED BY <1>1, <1>3, <1>4, <2>1, PartP!OptKeeps
<1> QED BY <1>1, <1>2, <1>3, <1>4

\* Multicast and its proofs' copy of it instantiate to the same formulas.
LEMMA SameGroups ==
    /\ Mc!McAssumption <=> PartP!McAssumption
    /\ Mc!McInit <=> PartP!McInit
    /\ Mc!McNext <=> PartP!McNext
    /\ UNCHANGED Mc!mcvars <=> UNCHANGED PartP!mcvars
    /\ Mc!MembershipsHaveOwners <=> PartP!MembershipsHaveOwners
<1>1. Mc!McAssumption <=> PartP!McAssumption
  BY ZenonT(60) DEF Mc!McAssumption, PartP!McAssumption, Mc!McJoins, PartP!McJoins
<1>2. Mc!McInit <=> PartP!McInit
  BY ZenonT(60) DEF Mc!McRecords, PartP!McRecords, Mc!McInit, PartP!McInit
<1>3. Mc!McNext <=> PartP!McNext
  BY ZenonT(60) DEF Mc!McRecords, PartP!McRecords, Mc!FreeRecords, PartP!FreeRecords,
      Mc!RecordsOf, PartP!RecordsOf, Mc!First, PartP!First, Mc!Joinable, PartP!Joinable,
      Mc!igmp_joingroup, PartP!igmp_joingroup, Mc!igmp_leavegroup, PartP!igmp_leavegroup,
      Mc!IP_ADD_MEMBERSHIP, PartP!IP_ADD_MEMBERSHIP, Mc!IP_DROP_MEMBERSHIP,
      PartP!IP_DROP_MEMBERSHIP, Mc!tn_mcast_leave_all, PartP!tn_mcast_leave_all, Mc!McSocket,
      PartP!McSocket, Mc!Reaches, PartP!Reaches, Mc!McReaddress, PartP!McReaddress, Mc!McNext, PartP!McNext, Mc!Cardinality, PartP!Cardinality
<1>4. UNCHANGED Mc!mcvars <=> UNCHANGED PartP!mcvars
  BY ZenonT(60) DEF Mc!mcvars, PartP!mcvars
<1>5. Mc!MembershipsHaveOwners <=> PartP!MembershipsHaveOwners
  BY ZenonT(60) DEF Mc!McRecords, PartP!McRecords, Mc!FreeRecords, PartP!FreeRecords,
      Mc!MembershipsHaveOwners, PartP!MembershipsHaveOwners, Mc!Cardinality, PartP!Cardinality
<1> QED BY <1>1, <1>2, <1>3, <1>4, <1>5

\* The invariant of the multicast groups holds of the part that is Multicast.
LEMMA GroupsPart ==
    /\ PartP!McAssumption
    /\ ServicesInit => (part = "multicast" => (PartP!McTypeOK /\ PartP!MembershipsHaveOwners))
    /\ part = "multicast" /\ [ServicesNext]_services => [PartP!McNext]_PartP!mcvars
    /\ (part = "multicast" => (PartP!McTypeOK /\ PartP!MembershipsHaveOwners)) /\ [ServicesNext]_services
         => (part = "multicast" => (PartP!McTypeOK /\ PartP!MembershipsHaveOwners))'
<1>1. PartP!McAssumption BY ServicesAssumption, SameGroups
<1>2. ServicesInit => (part = "multicast" => (PartP!McTypeOK /\ PartP!MembershipsHaveOwners))
  BY <1>1, SameGroups, PartP!McStarts DEF ServicesInit
<1>3. part = "multicast" /\ [ServicesNext]_services => [PartP!McNext]_PartP!mcvars
  <2> SUFFICES ASSUME part = "multicast", [ServicesNext]_services PROVE [PartP!McNext]_PartP!mcvars
    OBVIOUS
  <2>1. [Mc!McNext]_Mc!mcvars BY DEF ServicesNext, services, Mc!mcvars
  <2> QED BY <2>1, SameGroups
<1>4. ASSUME part = "multicast" => (PartP!McTypeOK /\ PartP!MembershipsHaveOwners), [ServicesNext]_services, part' = "multicast"
      PROVE  (PartP!McTypeOK /\ PartP!MembershipsHaveOwners)'
  <2>1. part = "multicast" /\ (PartP!McTypeOK /\ PartP!MembershipsHaveOwners) BY <1>4, PartStays
  <2> QED BY <1>1, <1>3, <1>4, <2>1, PartP!McKeeps
<1> QED BY <1>1, <1>2, <1>3, <1>4

\* Deadlines and its proofs' copy of it instantiate to the same formulas.
LEMMA SameDeadlines ==
    /\ Dl!DlAssumption <=> PartP!DlAssumption
    /\ Dl!DlInit <=> PartP!DlInit
    /\ Dl!DlNext <=> PartP!DlNext
    /\ UNCHANGED Dl!dlvars <=> UNCHANGED PartP!dlvars
    /\ Dl!SleepsNoLonger <=> PartP!SleepsNoLonger
    /\ Dl!NeverEarly <=> PartP!NeverEarly
<1>1. Dl!DlAssumption <=> PartP!DlAssumption
  BY ZenonT(60) DEF Dl!DlAssumption, PartP!DlAssumption
<1>2. Dl!DlInit <=> PartP!DlInit
  BY ZenonT(60) DEF Dl!Ways, PartP!Ways, Dl!DlInit, PartP!DlInit
<1>3. Dl!DlNext <=> PartP!DlNext
  BY ZenonT(60) DEF Dl!Ways, PartP!Ways, Dl!Timevals, PartP!Timevals, Dl!TicksOf, PartP!TicksOf,
      Dl!Nudged, PartP!Nudged, Dl!DeadlineOf, PartP!DeadlineOf, Dl!Tracked, PartP!Tracked,
      Dl!DlPark, PartP!DlPark, Dl!DlSet, PartP!DlSet, Dl!DlAnswered, PartP!DlAnswered, Dl!Past,
      PartP!Past, Dl!DlTick, PartP!DlTick, Dl!DlNext, PartP!DlNext
<1>4. UNCHANGED Dl!dlvars <=> UNCHANGED PartP!dlvars
  BY ZenonT(60) DEF Dl!dlvars, PartP!dlvars
<1>5. Dl!SleepsNoLonger <=> PartP!SleepsNoLonger
  BY ZenonT(60) DEF Dl!Ways, PartP!Ways, Dl!TakenForNone, PartP!TakenForNone,
      Dl!SleepsNoLonger, PartP!SleepsNoLonger
<1>6. Dl!NeverEarly <=> PartP!NeverEarly
  BY ZenonT(60) DEF Dl!Ways, PartP!Ways, Dl!Past, PartP!Past, Dl!DlTick, PartP!DlTick,
      Dl!TakenForNone, PartP!TakenForNone, Dl!NeverEarly, PartP!NeverEarly
<1> QED BY <1>1, <1>2, <1>3, <1>4, <1>5, <1>6

\* The invariant of the timeouts holds of the part that is Deadlines.
LEMMA DeadlinesPart ==
    /\ PartP!DlAssumption
    /\ ServicesInit => (part = "deadlines" => PartP!DlInv)
    /\ part = "deadlines" /\ [ServicesNext]_services => [PartP!DlNext]_PartP!dlvars
    /\ (part = "deadlines" => PartP!DlInv) /\ [ServicesNext]_services
         => (part = "deadlines" => PartP!DlInv)'
<1>1. PartP!DlAssumption BY ServicesAssumption, SameDeadlines
<1>2. ServicesInit => (part = "deadlines" => PartP!DlInv)
  BY <1>1, SameDeadlines, PartP!DlStarts DEF ServicesInit
<1>3. part = "deadlines" /\ [ServicesNext]_services => [PartP!DlNext]_PartP!dlvars
  <2> SUFFICES ASSUME part = "deadlines", [ServicesNext]_services PROVE [PartP!DlNext]_PartP!dlvars
    OBVIOUS
  <2>1. [Dl!DlNext]_Dl!dlvars BY DEF ServicesNext, services, Dl!dlvars
  <2> QED BY <2>1, SameDeadlines
<1>4. ASSUME part = "deadlines" => PartP!DlInv, [ServicesNext]_services, part' = "deadlines"
      PROVE  PartP!DlInv'
  <2>1. part = "deadlines" /\ PartP!DlInv BY <1>4, PartStays
  <2> QED BY <1>1, <1>3, <1>4, <2>1, PartP!DlKeeps
<1> QED BY <1>1, <1>2, <1>3, <1>4

\* Clock and its proofs' copy of it instantiate to the same formulas.
LEMMA SameClock ==
    /\ Cl!ClAssumption <=> PartP!ClAssumption
    /\ Cl!ClInit <=> PartP!ClInit
    /\ Cl!ClNext <=> PartP!ClNext
    /\ UNCHANGED Cl!clvars <=> UNCHANGED PartP!clvars
    /\ Cl!TimerRequestsOurs <=> PartP!TimerRequestsOurs
    /\ Cl!ClockAdvances <=> PartP!ClockAdvances
<1>1. Cl!ClAssumption <=> PartP!ClAssumption
  BY ZenonT(60) DEF Cl!ClAssumption, PartP!ClAssumption
<1>2. Cl!ClInit <=> PartP!ClInit
  BY ZenonT(60) DEF Cl!ClInit, PartP!ClInit
<1>3. Cl!ClNext <=> PartP!ClNext
  BY ZenonT(60) DEF Cl!TickParts, PartP!TickParts, Cl!TimeParts, PartP!TimeParts,
      Cl!TimeChannel, PartP!TimeChannel, Cl!tn_timer_init, PartP!tn_timer_init, Cl!Asks,
      PartP!Asks, Cl!tn_rand_init, PartP!tn_rand_init, Cl!tn_timer_arm, PartP!tn_timer_arm,
      Cl!TimerDone, PartP!TimerDone, Cl!tn_timer_ack, PartP!tn_timer_ack, Cl!tn_timer_fini,
      PartP!tn_timer_fini, Cl!tn_eclock_to_ms, PartP!tn_eclock_to_ms, Cl!sys_now, PartP!sys_now,
      Cl!ClTick, PartP!ClTick, Cl!ClNext, PartP!ClNext
<1>4. UNCHANGED Cl!clvars <=> UNCHANGED PartP!clvars
  BY ZenonT(60) DEF Cl!clvars, PartP!clvars
<1>5. Cl!TimerRequestsOurs <=> PartP!TimerRequestsOurs
  BY ZenonT(60) DEF Cl!TimerRequestsOurs, PartP!TimerRequestsOurs
<1>6. Cl!ClockAdvances <=> PartP!ClockAdvances
  BY ZenonT(60) DEF Cl!tn_eclock_to_ms, PartP!tn_eclock_to_ms, Cl!sys_now, PartP!sys_now,
      Cl!TimerRequestsOurs, PartP!TimerRequestsOurs, Cl!ClockAdvances, PartP!ClockAdvances
<1> QED BY <1>1, <1>2, <1>3, <1>4, <1>5, <1>6

\* The invariant of the timer holds of the part that is Clock.
LEMMA ClockPart ==
    /\ PartP!ClAssumption
    /\ ServicesInit => (part = "clock" => PartP!ClInv)
    /\ part = "clock" /\ [ServicesNext]_services => [PartP!ClNext]_PartP!clvars
    /\ (part = "clock" => PartP!ClInv) /\ [ServicesNext]_services
         => (part = "clock" => PartP!ClInv)'
<1>1. PartP!ClAssumption BY ServicesAssumption, SameClock
<1>2. ServicesInit => (part = "clock" => PartP!ClInv)
  BY <1>1, SameClock, PartP!ClStarts DEF ServicesInit
<1>3. part = "clock" /\ [ServicesNext]_services => [PartP!ClNext]_PartP!clvars
  <2> SUFFICES ASSUME part = "clock", [ServicesNext]_services PROVE [PartP!ClNext]_PartP!clvars
    OBVIOUS
  <2>1. [Cl!ClNext]_Cl!clvars BY DEF ServicesNext, services, Cl!clvars
  <2> QED BY <2>1, SameClock
<1>4. ASSUME part = "clock" => PartP!ClInv, [ServicesNext]_services, part' = "clock"
      PROVE  PartP!ClInv'
  <2>1. part = "clock" /\ PartP!ClInv BY <1>4, PartStays
  <2> QED BY <1>1, <1>3, <1>4, <2>1, PartP!ClKeeps
<1> QED BY <1>1, <1>2, <1>3, <1>4

\* Routes and its proofs' copy of it instantiate to the same formulas.
LEMMA SameRouting ==
    /\ Rt!RtAssumption <=> PartP!RtAssumption
    /\ Rt!RtInit <=> PartP!RtInit
    /\ Rt!RtNext <=> PartP!RtNext
    /\ UNCHANGED Rt!rtvars <=> UNCHANGED PartP!rtvars
    /\ Rt!RoutedAsListed <=> PartP!RoutedAsListed
    /\ Rt!StaticAddressStays <=> PartP!StaticAddressStays
<1>1. Rt!RtAssumption <=> PartP!RtAssumption
  BY ZenonT(60) DEF Rt!Bits, PartP!Bits, Rt!Addr, PartP!Addr, Rt!RtAssumption,
      PartP!RtAssumption
<1>2. Rt!RtInit <=> PartP!RtInit
  BY ZenonT(60) DEF Rt!Indices, PartP!Indices, Rt!RtInit, PartP!RtInit
<1>3. Rt!RtNext <=> PartP!RtNext
  BY ZenonT(60) DEF Rt!Bits, PartP!Bits, Rt!Addr, PartP!Addr, Rt!Indices, PartP!Indices,
      Rt!RoutesInUse, PartP!RoutesInUse, Rt!Lowest, PartP!Lowest, Rt!mask_is_contiguous,
      PartP!mask_is_contiguous, Rt!Installable, PartP!Installable, Rt!Same, PartP!Same,
      Rt!tn_route_add, PartP!tn_route_add, Rt!tn_route_delete, PartP!tn_route_delete,
      Rt!IFCTL_UP, PartP!IFCTL_UP, Rt!IFCTL_DOWN, PartP!IFCTL_DOWN, Rt!Given, PartP!Given,
      Rt!IFCTL_SET, PartP!IFCTL_SET, Rt!DhcpBound, PartP!DhcpBound, Rt!DhcpLost, PartP!DhcpLost,
      Rt!RouteCommand, PartP!RouteCommand, Rt!RtNext, PartP!RtNext
<1>4. UNCHANGED Rt!rtvars <=> UNCHANGED PartP!rtvars
  BY ZenonT(60) DEF Rt!rtvars, PartP!rtvars
<1>5. Rt!RoutedAsListed <=> PartP!RoutedAsListed
  <2>1. Rt!Addr = PartP!Addr /\ Rt!RoutesInUse = PartP!RoutesInUse
    BY ZenonT(60) DEF Rt!Bits, PartP!Bits, Rt!Addr, PartP!Addr, Rt!Indices, PartP!Indices,
        Rt!RoutesInUse, PartP!RoutesInUse
  <2>2. \A S : Rt!Cardinality(S) = PartP!Cardinality(S)
    BY ZenonT(60) DEF Rt!Cardinality, PartP!Cardinality
  <2>3. \A d : Rt!tn_route_lookup(d) = PartP!tn_route_lookup(d)
    <3> TAKE d
    <3>1. \A m : Rt!mask_prefix_len(m) = PartP!mask_prefix_len(m)
      BY <2>2 DEF Rt!mask_prefix_len, PartP!mask_prefix_len
    <3>2. \A S : Rt!Lowest(S) = PartP!Lowest(S) BY ZenonT(60) DEF Rt!Lowest, PartP!Lowest
    <3> QED BY ZenonT(60), <2>1, <3>1, <3>2 DEF Rt!tn_route_lookup, PartP!tn_route_lookup
  <2>4. \A n : Rt!Netif(n) = PartP!Netif(n)
    BY ZenonT(60) DEF Rt!lo, PartP!lo, Rt!Netif, PartP!Netif
  <2>5. \A n : Rt!Configured(n) <=> PartP!Configured(n)
    BY ZenonT(60), <2>4 DEF Rt!Configured, PartP!Configured
  <2>6. \A n, a : Rt!OnLink(n, a) <=> PartP!OnLink(n, a)
    BY ZenonT(60), <2>4, <2>5 DEF Rt!OnLink, PartP!OnLink
  <2>7. \A d : Rt!tn_route_hook_src(d) = PartP!tn_route_hook_src(d)
    BY <2>3, <2>4, <2>5, <2>6 DEF Rt!tn_route_hook_src, PartP!tn_route_hook_src, Rt!FirstOf,
        PartP!FirstOf
  <2>8. \A d : Rt!ip4_route(d) = PartP!ip4_route(d)
    BY <2>4, <2>6, <2>7 DEF Rt!ip4_route, PartP!ip4_route, Rt!FirstOf, PartP!FirstOf
  <2>9. \A n, d : Rt!NextHop(n, d) = PartP!NextHop(n, d)
    BY <2>3, <2>4, <2>6 DEF Rt!NextHop, PartP!NextHop, Rt!tn_route_gw_get,
        PartP!tn_route_gw_get
  <2>10. \A i, d : Rt!Covering(i, d) <=> PartP!Covering(i, d)
    BY ZenonT(60) DEF Rt!Covering, PartP!Covering
  <2> QED
    BY ZenonT(60), <2>1, <2>6, <2>8, <2>9, <2>10, <2>2 DEF Rt!RoutedAsListed, PartP!RoutedAsListed
<1>6. Rt!StaticAddressStays <=> PartP!StaticAddressStays
  BY ZenonT(60) DEF Rt!Given, PartP!Given, Rt!IFCTL_SET, PartP!IFCTL_SET, Rt!StaticAddressStays,
      PartP!StaticAddressStays
<1> QED BY <1>1, <1>2, <1>3, <1>4, <1>5, <1>6

\* The invariant of the routing table holds of the part that is Routes.
LEMMA RoutingPart ==
    /\ PartP!RtAssumption
    /\ ServicesInit => (part = "routes" => PartP!RtInv)
    /\ part = "routes" /\ [ServicesNext]_services => [PartP!RtNext]_PartP!rtvars
    /\ (part = "routes" => PartP!RtInv) /\ [ServicesNext]_services
         => (part = "routes" => PartP!RtInv)'
<1>1. PartP!RtAssumption BY ServicesAssumption, SameRouting
<1>2. ServicesInit => (part = "routes" => PartP!RtInv)
  BY <1>1, SameRouting, PartP!RtStarts DEF ServicesInit
<1>3. part = "routes" /\ [ServicesNext]_services => [PartP!RtNext]_PartP!rtvars
  <2> SUFFICES ASSUME part = "routes", [ServicesNext]_services PROVE [PartP!RtNext]_PartP!rtvars
    OBVIOUS
  <2>1. [Rt!RtNext]_Rt!rtvars BY DEF ServicesNext, services, Rt!rtvars
  <2> QED BY <2>1, SameRouting
<1>4. ASSUME part = "routes" => PartP!RtInv, [ServicesNext]_services, part' = "routes"
      PROVE  PartP!RtInv'
  <2>1. part = "routes" /\ PartP!RtInv BY <1>4, PartStays
  <2> QED BY <1>1, <1>3, <1>4, <2>1, PartP!RtKeeps
<1> QED BY <1>1, <1>2, <1>3, <1>4

\* PrefsStore and its proofs' copy of it instantiate to the same formulas.
LEMMA SameStore ==
    /\ Ps!PsAssumption <=> PartP!PsAssumption
    /\ Ps!PsInit <=> PartP!PsInit
    /\ Ps!PsNext <=> PartP!PsNext
    /\ UNCHANGED Ps!psvars <=> UNCHANGED PartP!psvars
    /\ Ps!ConfigSurvives <=> PartP!ConfigSurvives
    /\ Ps!SaveKeepsSettings <=> PartP!SaveKeepsSettings
<1>1. Ps!PsAssumption <=> PartP!PsAssumption
  BY ZenonT(60) DEF Ps!Texts, PartP!Texts, Ps!PsAssumption, PartP!PsAssumption
<1>2. Ps!PsInit <=> PartP!PsInit
  BY ZenonT(60) DEF Ps!Stores, PartP!Stores, Ps!Suffixes, PartP!Suffixes, Ps!Idle, PartP!Idle,
      Ps!PsInit, PartP!PsInit
<1>3. Ps!PsNext <=> PartP!PsNext
  BY ZenonT(60) DEF Ps!Suffixes, PartP!Suffixes, Ps!Idle, PartP!Idle, Ps!tn_prefs_default,
      PartP!tn_prefs_default, Ps!Parsed, PartP!Parsed, Ps!tn_config_format,
      PartP!tn_config_format, Ps!tn_config_merge_preserve, PartP!tn_config_merge_preserve,
      Ps!tn_prefs_open_recover, PartP!tn_prefs_open_recover, Ps!Later, PartP!Later, Ps!Readable,
      PartP!Readable, Ps!tn_prefs_load, PartP!tn_prefs_load, Ps!PutFile, PartP!PutFile,
      Ps!Mounted, PartP!Mounted, Ps!At, PartP!At, Ps!StartSave, PartP!StartSave, Ps!NextStore,
      PartP!NextStore, Ps!Done, PartP!Done, Ps!OpenTmp, PartP!OpenTmp, Ps!WriteTmp,
      PartP!WriteTmp, Ps!DeleteBak, PartP!DeleteBak, Ps!RenameOld, PartP!RenameOld,
      Ps!RenameNew, PartP!RenameNew, Ps!PowerCut, PartP!PowerCut, Ps!Edit, PartP!Edit,
      Ps!PsNext, PartP!PsNext
<1>4. UNCHANGED Ps!psvars <=> UNCHANGED PartP!psvars
  BY ZenonT(60) DEF Ps!psvars, PartP!psvars
<1>5. Ps!ConfigSurvives <=> PartP!ConfigSurvives
  BY ZenonT(60) DEF Ps!tn_prefs_default, PartP!tn_prefs_default, Ps!Parsed, PartP!Parsed,
      Ps!tn_prefs_open_recover, PartP!tn_prefs_open_recover, Ps!Later, PartP!Later, Ps!Readable,
      PartP!Readable, Ps!tn_prefs_load, PartP!tn_prefs_load, Ps!ConfigSurvives,
      PartP!ConfigSurvives
<1>6. Ps!SaveKeepsSettings <=> PartP!SaveKeepsSettings
  BY ZenonT(60) DEF Ps!Idle, PartP!Idle, Ps!PutFile, PartP!PutFile, Ps!At, PartP!At,
      Ps!NextStore, PartP!NextStore, Ps!Done, PartP!Done, Ps!RenameNew, PartP!RenameNew,
      Ps!SaveKeepsSettings, PartP!SaveKeepsSettings
<1> QED BY <1>1, <1>2, <1>3, <1>4, <1>5, <1>6

\* The invariant of the configuration store holds of the part that is PrefsStore.
LEMMA StorePart ==
    /\ PartP!PsAssumption
    /\ ServicesInit => (part = "prefs" => PartP!PsInv)
    /\ part = "prefs" /\ [ServicesNext]_services => [PartP!PsNext]_PartP!psvars
    /\ (part = "prefs" => PartP!PsInv) /\ [ServicesNext]_services
         => (part = "prefs" => PartP!PsInv)'
<1>1. PartP!PsAssumption BY ServicesAssumption, SameStore
<1>2. ServicesInit => (part = "prefs" => PartP!PsInv)
  BY <1>1, SameStore, PartP!PsStarts DEF ServicesInit
<1>3. part = "prefs" /\ [ServicesNext]_services => [PartP!PsNext]_PartP!psvars
  <2> SUFFICES ASSUME part = "prefs", [ServicesNext]_services PROVE [PartP!PsNext]_PartP!psvars
    OBVIOUS
  <2>1. [Ps!PsNext]_Ps!psvars BY DEF ServicesNext, services, Ps!psvars
  <2> QED BY <2>1, SameStore
<1>4. ASSUME part = "prefs" => PartP!PsInv, [ServicesNext]_services, part' = "prefs"
      PROVE  PartP!PsInv'
  <2>1. part = "prefs" /\ PartP!PsInv BY <1>4, PartStays
  <2> QED BY <1>1, <1>3, <1>4, <2>1, PartP!PsKeeps
<1> QED BY <1>1, <1>2, <1>3, <1>4

\* PrefsEditor and its proofs' copy of it instantiate to the same formulas.
LEMMA SameEditor ==
    /\ Pe!PeAssumption <=> PartP!PeAssumption
    /\ Pe!PeInit <=> PartP!PeInit
    /\ Pe!PeNext <=> PartP!PeNext
    /\ UNCHANGED Pe!pevars <=> UNCHANGED PartP!pevars
    /\ Pe!SavedIsRun <=> PartP!SavedIsRun
<1>1. Pe!PeAssumption <=> PartP!PeAssumption
  BY ZenonT(60) DEF Pe!PeAssumption, PartP!PeAssumption
<1>2. Pe!PeInit <=> PartP!PeInit
  BY ZenonT(60) DEF Pe!NoCfg, PartP!NoCfg, Pe!PeInit, PartP!PeInit
<1>3. Pe!PeNext <=> PartP!PeNext
  BY ZenonT(60) DEF Pe!NoCfg, PartP!NoCfg, Pe!Cfgs, PartP!Cfgs, Pe!stores, PartP!stores,
      Pe!daemon_running, PartP!daemon_running, Pe!Loaded, PartP!Loaded, Pe!Libraries,
      PartP!Libraries, Pe!Display, PartP!Display, Pe!Needed, PartP!Needed, Pe!InterfaceGadgets,
      PartP!InterfaceGadgets, Pe!ButtonsFor, PartP!ButtonsFor, Pe!PeOpen, PartP!PeOpen,
      Pe!PeOpenFails, PartP!PeOpenFails, Pe!PeCleanup, PartP!PeCleanup, Pe!PeType, PartP!PeType,
      Pe!PeMode, PartP!PeMode, Pe!FromGadgets, PartP!FromGadgets, Pe!Shown, PartP!Shown,
      Pe!PeWrite, PartP!PeWrite, Pe!Leaves, PartP!Leaves, Pe!after_save_use,
      PartP!after_save_use, Pe!daemon_start, PartP!daemon_start, Pe!update_daemon_buttons,
      PartP!update_daemon_buttons, Pe!PeAnswer, PartP!PeAnswer, Pe!PeStart, PartP!PeStart,
      Pe!daemon_stop, PartP!daemon_stop, Pe!PePoll, PartP!PePoll, Pe!PeCancel, PartP!PeCancel,
      Pe!PollDue, PartP!PollDue, Pe!DaemonComesAndGoes, PartP!DaemonComesAndGoes, Pe!PeNext,
      PartP!PeNext
<1>4. UNCHANGED Pe!pevars <=> UNCHANGED PartP!pevars
  BY ZenonT(60) DEF Pe!pevars, PartP!pevars
<1>5. Pe!SavedIsRun <=> PartP!SavedIsRun
  BY ZenonT(60) DEF Pe!NoCfg, PartP!NoCfg, Pe!daemon_running, PartP!daemon_running,
      Pe!SavedIsRun, PartP!SavedIsRun
<1> QED BY <1>1, <1>2, <1>3, <1>4, <1>5

\* The invariant of the preferences editor holds of the part that is PrefsEditor.
LEMMA EditorPart ==
    /\ PartP!PeAssumption
    /\ ServicesInit => (part = "editor" => PartP!PeInv)
    /\ part = "editor" /\ [ServicesNext]_services => [PartP!PeNext]_PartP!pevars
    /\ (part = "editor" => PartP!PeInv) /\ [ServicesNext]_services
         => (part = "editor" => PartP!PeInv)'
<1>1. PartP!PeAssumption BY ServicesAssumption, SameEditor
<1>2. ServicesInit => (part = "editor" => PartP!PeInv)
  BY <1>1, SameEditor, PartP!PeStarts DEF ServicesInit
<1>3. part = "editor" /\ [ServicesNext]_services => [PartP!PeNext]_PartP!pevars
  <2> SUFFICES ASSUME part = "editor", [ServicesNext]_services PROVE [PartP!PeNext]_PartP!pevars
    OBVIOUS
  <2>1. [Pe!PeNext]_Pe!pevars BY DEF ServicesNext, services, Pe!pevars
  <2> QED BY <2>1, SameEditor
<1>4. ASSUME part = "editor" => PartP!PeInv, [ServicesNext]_services, part' = "editor"
      PROVE  PartP!PeInv'
  <2>1. part = "editor" /\ PartP!PeInv BY <1>4, PartStays
  <2> QED BY <1>1, <1>3, <1>4, <2>1, PartP!PeKeeps
<1> QED BY <1>1, <1>2, <1>3, <1>4

\* Wizard and its proofs' copy of it instantiate to the same formulas.
LEMMA SameWizard ==
    /\ Wz!WzAssumption <=> PartP!WzAssumption
    /\ Wz!WzInit <=> PartP!WzInit
    /\ Wz!WzNext <=> PartP!WzNext
    /\ UNCHANGED Wz!wzvars <=> UNCHANGED PartP!wzvars
    /\ Wz!FinishWrites <=> PartP!FinishWrites
<1>1. Wz!WzAssumption <=> PartP!WzAssumption
  BY ZenonT(60) DEF Wz!WzAssumption, PartP!WzAssumption
<1>2. Wz!WzInit <=> PartP!WzInit
  BY ZenonT(60) DEF Wz!EmptyText, PartP!EmptyText, Wz!NoWish, PartP!NoWish, Wz!GadgetsOf,
      PartP!GadgetsOf, Wz!WzInit, PartP!WzInit
<1>3. Wz!WzNext <=> PartP!WzNext
  <2>1. Wz!Types <=> PartP!Types
    BY ZenonT(60) DEF Wz!wzfiles, PartP!wzfiles, Wz!PageWifi, PartP!PageWifi, Wz!PageAddress,
        PartP!PageAddress, Wz!Types, PartP!Types
  <2>2. Wz!ShowPass <=> PartP!ShowPass
    BY ZenonT(60) DEF Wz!wzfiles, PartP!wzfiles, Wz!PageWifi, PartP!PageWifi, Wz!PageAddress,
        PartP!PageAddress, Wz!EmptyText, PartP!EmptyText, Wz!sync_page_gadgets_to_state,
        PartP!sync_page_gadgets_to_state, Wz!Synced, PartP!Synced, Wz!Filled, PartP!Filled,
        Wz!GadgetsOf, PartP!GadgetsOf, Wz!rebuild_page_gadgets, PartP!rebuild_page_gadgets,
        Wz!Rebuilt, PartP!Rebuilt, Wz!ShowPass, PartP!ShowPass
  <2>3. Wz!PickNet <=> PartP!PickNet
    BY ZenonT(60) DEF Wz!wzfiles, PartP!wzfiles, Wz!PageWifi, PartP!PageWifi, Wz!PageAddress,
        PartP!PageAddress, Wz!EmptyText, PartP!EmptyText, Wz!HiddenAp, PartP!HiddenAp,
        Wz!sync_page_gadgets_to_state, PartP!sync_page_gadgets_to_state, Wz!Synced, PartP!Synced,
        Wz!Filled, PartP!Filled, Wz!GadgetsOf, PartP!GadgetsOf, Wz!rebuild_page_gadgets,
        PartP!rebuild_page_gadgets, Wz!Rebuilt, PartP!Rebuilt, Wz!PickNet, PartP!PickNet
  <2>4. Wz!tn_wifi_scan <=> PartP!tn_wifi_scan
    BY ZenonT(60) DEF Wz!wzfiles, PartP!wzfiles, Wz!PageWifi, PartP!PageWifi, Wz!PageAddress,
        PartP!PageAddress, Wz!EmptyText, PartP!EmptyText, Wz!sync_page_gadgets_to_state,
        PartP!sync_page_gadgets_to_state, Wz!Synced, PartP!Synced, Wz!Filled, PartP!Filled,
        Wz!GadgetsOf, PartP!GadgetsOf, Wz!rebuild_page_gadgets, PartP!rebuild_page_gadgets,
        Wz!Rebuilt, PartP!Rebuilt, Wz!tn_wifi_scan, PartP!tn_wifi_scan
  <2>5. Wz!SetMode <=> PartP!SetMode
    BY ZenonT(60) DEF Wz!wzfiles, PartP!wzfiles, Wz!PageWifi, PartP!PageWifi, Wz!PageAddress,
        PartP!PageAddress, Wz!EmptyText, PartP!EmptyText, Wz!sync_page_gadgets_to_state,
        PartP!sync_page_gadgets_to_state, Wz!Synced, PartP!Synced, Wz!Filled, PartP!Filled,
        Wz!GadgetsOf, PartP!GadgetsOf, Wz!rebuild_page_gadgets, PartP!rebuild_page_gadgets,
        Wz!Rebuilt, PartP!Rebuilt, Wz!SetMode, PartP!SetMode
  <2>6. Wz!SelectHw <=> PartP!SelectHw
    BY ZenonT(60) DEF Wz!wzfiles, PartP!wzfiles, Wz!PageHw, PartP!PageHw, Wz!PageWifi,
        PartP!PageWifi, Wz!PageAddress, PartP!PageAddress, Wz!EmptyText, PartP!EmptyText,
        Wz!sync_page_gadgets_to_state, PartP!sync_page_gadgets_to_state, Wz!Synced, PartP!Synced,
        Wz!Filled, PartP!Filled, Wz!GadgetsOf, PartP!GadgetsOf, Wz!rebuild_page_gadgets,
        PartP!rebuild_page_gadgets, Wz!Rebuilt, PartP!Rebuilt, Wz!SelectHw, PartP!SelectHw
  <2>7. Wz!RunTests <=> PartP!RunTests
    BY ZenonT(60) DEF Wz!wzfiles, PartP!wzfiles, Wz!PageWifi, PartP!PageWifi, Wz!PageAddress,
        PartP!PageAddress, Wz!PageTest, PartP!PageTest, Wz!EmptyText, PartP!EmptyText,
        Wz!sync_page_gadgets_to_state, PartP!sync_page_gadgets_to_state, Wz!Synced, PartP!Synced,
        Wz!Filled, PartP!Filled, Wz!GadgetsOf, PartP!GadgetsOf, Wz!rebuild_page_gadgets,
        PartP!rebuild_page_gadgets, Wz!Rebuilt, PartP!Rebuilt, Wz!RunTests, PartP!RunTests
  <2>8. Wz!NextOrReturn <=> PartP!NextOrReturn
    <3>1. \A w : Wz!Synced(w) = PartP!Synced(w)
      BY ZenonT(60) DEF Wz!PageWifi, PartP!PageWifi, Wz!PageAddress, PartP!PageAddress,
          Wz!sync_page_gadgets_to_state, PartP!sync_page_gadgets_to_state, Wz!Synced, PartP!Synced
    <3>2. \A w : Wz!tn_wifi_write_prefs_multi(w) <=> PartP!tn_wifi_write_prefs_multi(w)
      BY ZenonT(60) DEF Wz!EmptyText, PartP!EmptyText, Wz!HiddenAp, PartP!HiddenAp, Wz!Ssid,
          PartP!Ssid, Wz!Writable, PartP!Writable, Wz!tn_wifi_write_prefs_multi,
          PartP!tn_wifi_write_prefs_multi
    <3>3. \A w : Wz!Writable(w) <=> PartP!Writable(w)
      BY ZenonT(60) DEF Wz!EmptyText, PartP!EmptyText, Wz!HiddenAp, PartP!HiddenAp, Wz!Ssid,
          PartP!Ssid, Wz!Writable, PartP!Writable
    <3>4. \A w : Wz!rebuild_page_gadgets(w) <=> PartP!rebuild_page_gadgets(w)
      BY ZenonT(60) DEF Wz!PageWifi, PartP!PageWifi, Wz!PageAddress, PartP!PageAddress,
          Wz!EmptyText, PartP!EmptyText, Wz!sync_page_gadgets_to_state,
          PartP!sync_page_gadgets_to_state, Wz!Synced, PartP!Synced, Wz!Filled, PartP!Filled,
          Wz!GadgetsOf, PartP!GadgetsOf, Wz!rebuild_page_gadgets, PartP!rebuild_page_gadgets
    <3>5. \A w : Wz!apply_wizard_finish(w) <=> PartP!apply_wizard_finish(w)
      BY ZenonT(60), <3>2 DEF Wz!PageWifi, PartP!PageWifi, Wz!PageAddress, PartP!PageAddress,
          Wz!EmptyText, PartP!EmptyText, Wz!sync_page_gadgets_to_state,
          PartP!sync_page_gadgets_to_state, Wz!Synced, PartP!Synced, Wz!apply_wizard_finish,
          PartP!apply_wizard_finish
    <3>6. \A w : (Wz!validate_address_page(w) <=> PartP!validate_address_page(w))
                 /\ Wz!Onwards(w) = PartP!Onwards(w)
      BY ZenonT(60) DEF Wz!PageWifi, PartP!PageWifi, Wz!PageAddress, PartP!PageAddress,
          Wz!validate_address_page, PartP!validate_address_page, Wz!Onwards, PartP!Onwards
    <3>7. PICK s : s = Wz!Synced(v1) OBVIOUS
    <3>8. Wz!Synced(v1) = s /\ PartP!Synced(v1) = s BY <3>1, <3>7
    <3>9. Wz!advance_next_page <=> PartP!advance_next_page
      BY ZenonT(60), <3>2, <3>3, <3>4, <3>5, <3>6, <3>8 DEF Wz!wzfiles, PartP!wzfiles,
          Wz!PageWifi, PartP!PageWifi, Wz!PageAddress, PartP!PageAddress, Wz!PageTest,
          PartP!PageTest, Wz!EmptyText, PartP!EmptyText, Wz!advance_next_page,
          PartP!advance_next_page
    <3> QED
      BY ZenonT(60), <3>9 DEF Wz!PageTest, PartP!PageTest, Wz!NextOrReturn, PartP!NextOrReturn
  <2>9. Wz!retreat_back_page <=> PartP!retreat_back_page
    BY ZenonT(60) DEF Wz!wzfiles, PartP!wzfiles, Wz!PageHw, PartP!PageHw, Wz!PageWifi,
        PartP!PageWifi, Wz!PageAddress, PartP!PageAddress, Wz!EmptyText, PartP!EmptyText,
        Wz!sync_page_gadgets_to_state, PartP!sync_page_gadgets_to_state, Wz!Synced, PartP!Synced,
        Wz!Filled, PartP!Filled, Wz!GadgetsOf, PartP!GadgetsOf, Wz!rebuild_page_gadgets,
        PartP!rebuild_page_gadgets, Wz!Rebuilt, PartP!Rebuilt, Wz!Backwards, PartP!Backwards,
        Wz!retreat_back_page, PartP!retreat_back_page
  <2>10. Wz!Stop <=> PartP!Stop
    BY ZenonT(60) DEF Wz!wzfiles, PartP!wzfiles, Wz!Stop, PartP!Stop
  <2>11. Wz!open_advanced_window <=> PartP!open_advanced_window
    BY ZenonT(60) DEF Wz!wzfiles, PartP!wzfiles, Wz!PageAddress, PartP!PageAddress,
        Wz!open_advanced_window, PartP!open_advanced_window
  <2>12. Wz!AdvancedCheckbox <=> PartP!AdvancedCheckbox
    BY ZenonT(60) DEF Wz!wzfiles, PartP!wzfiles, Wz!AdvancedCheckbox, PartP!AdvancedCheckbox
  <2>13. Wz!close_advanced_window <=> PartP!close_advanced_window
    BY ZenonT(60) DEF Wz!wzfiles, PartP!wzfiles, Wz!close_advanced_window,
        PartP!close_advanced_window
  <2>14. Wz!RexxSend <=> PartP!RexxSend
    BY ZenonT(60) DEF Wz!wzfiles, PartP!wzfiles, Wz!RexxSend, PartP!RexxSend
  <2>15. Wz!tn_setup_rexx_process <=> PartP!tn_setup_rexx_process
    BY ZenonT(60) DEF Wz!wzfiles, PartP!wzfiles, Wz!PageHw, PartP!PageHw, Wz!PageWifi,
        PartP!PageWifi, Wz!PageAddress, PartP!PageAddress, Wz!PageTest, PartP!PageTest,
        Wz!EmptyText, PartP!EmptyText, Wz!sync_page_gadgets_to_state,
        PartP!sync_page_gadgets_to_state, Wz!Synced, PartP!Synced, Wz!Filled, PartP!Filled,
        Wz!GadgetsOf, PartP!GadgetsOf, Wz!rebuild_page_gadgets, PartP!rebuild_page_gadgets,
        Wz!Onwards, PartP!Onwards, Wz!Backwards, PartP!Backwards, Wz!RexxMoves, PartP!RexxMoves,
        Wz!tn_setup_rexx_process, PartP!tn_setup_rexx_process
  <2>16. Wz!RexxDone <=> PartP!RexxDone
    BY ZenonT(60) DEF Wz!wzfiles, PartP!wzfiles, Wz!PageWifi, PartP!PageWifi, Wz!PageAddress,
        PartP!PageAddress, Wz!EmptyText, PartP!EmptyText, Wz!HiddenAp, PartP!HiddenAp,
        Wz!sync_page_gadgets_to_state, PartP!sync_page_gadgets_to_state, Wz!Synced, PartP!Synced,
        Wz!Ssid, PartP!Ssid, Wz!Writable, PartP!Writable, Wz!tn_wifi_write_prefs_multi,
        PartP!tn_wifi_write_prefs_multi, Wz!apply_wizard_finish, PartP!apply_wizard_finish,
        Wz!Answered, PartP!Answered, Wz!RexxDone, PartP!RexxDone
  <2>17. Wz!Quit <=> PartP!Quit
    BY ZenonT(60) DEF Wz!wzfiles, PartP!wzfiles, Wz!Answered, PartP!Answered, Wz!Quit, PartP!Quit
  <2> QED BY <2>1, <2>2, <2>3, <2>4, <2>5, <2>6, <2>7, <2>8, <2>9, <2>10, <2>11, <2>12, <2>13,
      <2>14, <2>15, <2>16, <2>17 DEF Wz!WzNext, PartP!WzNext
<1>4. UNCHANGED Wz!wzvars <=> UNCHANGED PartP!wzvars
  BY ZenonT(60) DEF Wz!wzvars, PartP!wzvars
<1>5. Wz!FinishWrites <=> PartP!FinishWrites
  BY ZenonT(60) DEF Wz!EmptyText, PartP!EmptyText, Wz!HiddenAp, PartP!HiddenAp, Wz!FinishWrites,
      PartP!FinishWrites
<1> QED BY <1>1, <1>2, <1>3, <1>4, <1>5

\* The invariant of the setup wizard holds of the part that is Wizard.
LEMMA WizardPart ==
    /\ PartP!WzAssumption
    /\ ServicesInit => (part = "wizard" => PartP!WzInv)
    /\ part = "wizard" /\ [ServicesNext]_services => [PartP!WzNext]_PartP!wzvars
    /\ (part = "wizard" => PartP!WzInv) /\ [ServicesNext]_services
         => (part = "wizard" => PartP!WzInv)'
<1>1. PartP!WzAssumption BY ServicesAssumption, SameWizard
<1>2. ServicesInit => (part = "wizard" => PartP!WzInv)
  BY <1>1, SameWizard, PartP!WzStarts DEF ServicesInit
<1>3. part = "wizard" /\ [ServicesNext]_services => [PartP!WzNext]_PartP!wzvars
  <2> SUFFICES ASSUME part = "wizard", [ServicesNext]_services PROVE [PartP!WzNext]_PartP!wzvars
    OBVIOUS
  <2>1. [Wz!WzNext]_Wz!wzvars BY DEF ServicesNext, services, Wz!wzvars
  <2> QED BY <2>1, SameWizard
<1>4. ASSUME part = "wizard" => PartP!WzInv, [ServicesNext]_services, part' = "wizard"
      PROVE  PartP!WzInv'
  <2>1. part = "wizard" /\ PartP!WzInv BY <1>4, PartStays
  <2> QED BY <1>1, <1>3, <1>4, <2>1, PartP!WzKeeps
<1> QED BY <1>1, <1>2, <1>3, <1>4

\* HttpGet and its proofs' copy of it instantiate to the same formulas.
LEMMA SameFetch ==
    /\ Ht!HtAssumption <=> PartP!HtAssumption
    /\ Ht!HtInit <=> PartP!HtInit
    /\ Ht!HtNext <=> PartP!HtNext
    /\ UNCHANGED Ht!htvars <=> UNCHANGED PartP!htvars
    /\ Ht!SuccessMeansWhole <=> PartP!SuccessMeansWhole
<1>1. Ht!HtAssumption <=> PartP!HtAssumption
  BY ZenonT(60) DEF Ht!HtAssumption, PartP!HtAssumption
<1>2. Ht!HtInit <=> PartP!HtInit
  BY ZenonT(60) DEF Ht!Bytes, PartP!Bytes, Ht!HtInit, PartP!HtInit
<1>3. Ht!HtNext <=> PartP!HtNext
  BY ZenonT(60) DEF Ht!response, PartP!response, Ht!counts, PartP!counts, Ht!Bytes, PartP!Bytes,
      Ht!Tok, PartP!Tok, Ht!Data, PartP!Data, Ht!Chunks, PartP!Chunks, Ht!ExitsWith,
      PartP!ExitsWith, Ht!Resume, PartP!Resume, Ht!Connect, PartP!Connect, Ht!HttpAnswers,
      PartP!HttpAnswers, Ht!Int32, PartP!Int32, Ht!OtherAnswer, PartP!OtherAnswer, Ht!OddAnswer, PartP!OddAnswer, Ht!OpenOutput, PartP!OpenOutput,
      Ht!Redirected, PartP!Redirected, Ht!Headers, PartP!Headers, Ht!Chunk, PartP!Chunk,
      Ht!tn_chunk_feed, PartP!tn_chunk_feed, Ht!Writes, PartP!Writes, Ht!BodyDone,
      PartP!BodyDone, Ht!Feed, PartP!Feed, Ht!EofOk, PartP!EofOk, Ht!BodyEnds, PartP!BodyEnds,
      Ht!HtNext, PartP!HtNext
<1>4. UNCHANGED Ht!htvars <=> UNCHANGED PartP!htvars
  BY ZenonT(60) DEF Ht!htvars, PartP!htvars
<1>5. Ht!SuccessMeansWhole <=> PartP!SuccessMeansWhole
  BY ZenonT(60) DEF Ht!Bytes, PartP!Bytes, Ht!FirstByte, PartP!FirstByte, Ht!AnswerLen,
      PartP!AnswerLen, Ht!SuccessMeansWhole, PartP!SuccessMeansWhole
<1> QED BY <1>1, <1>2, <1>3, <1>4, <1>5

\* The invariant of the download holds of the part that is HttpGet.
LEMMA FetchPart ==
    /\ PartP!HtAssumption
    /\ ServicesInit => (part = "http" => PartP!HtInv)
    /\ part = "http" /\ [ServicesNext]_services => [PartP!HtNext]_PartP!htvars
    /\ (part = "http" => PartP!HtInv) /\ [ServicesNext]_services
         => (part = "http" => PartP!HtInv)'
<1>1. PartP!HtAssumption BY ServicesAssumption, SameFetch
<1>2. ServicesInit => (part = "http" => PartP!HtInv)
  BY <1>1, SameFetch, PartP!HtStarts DEF ServicesInit
<1>3. part = "http" /\ [ServicesNext]_services => [PartP!HtNext]_PartP!htvars
  <2> SUFFICES ASSUME part = "http", [ServicesNext]_services PROVE [PartP!HtNext]_PartP!htvars
    OBVIOUS
  <2>1. [Ht!HtNext]_Ht!htvars BY DEF ServicesNext, services, Ht!htvars
  <2> QED BY <2>1, SameFetch
<1>4. ASSUME part = "http" => PartP!HtInv, [ServicesNext]_services, part' = "http"
      PROVE  PartP!HtInv'
  <2>1. part = "http" /\ PartP!HtInv BY <1>4, PartStays
  <2> QED BY <1>1, <1>3, <1>4, <2>1, PartP!HtKeeps
<1> QED BY <1>1, <1>2, <1>3, <1>4

\* Ftp and its proofs' copy of it instantiate to the same formulas.
LEMMA SameSession ==
    /\ Ft!FtAssumption <=> PartP!FtAssumption
    /\ Ft!FtInit <=> PartP!FtInit
    /\ Ft!FtNext <=> PartP!FtNext
    /\ UNCHANGED Ft!ftvars <=> UNCHANGED PartP!ftvars
    /\ Ft!FtReportTrue <=> PartP!FtReportTrue
<1>1. Ft!FtAssumption <=> PartP!FtAssumption
  BY ZenonT(60) DEF Ft!FtAssumption, PartP!FtAssumption
<1>2. Ft!FtInit <=> PartP!FtInit
  BY ZenonT(60) DEF Ft!Idles, PartP!Idles, Ft!NoData, PartP!NoData, Ft!FtInit, PartP!FtInit
<1>3. Ft!FtNext <=> PartP!FtNext
  BY ZenonT(60) DEF Ft!ftnet, PartP!ftnet, Ft!ftuser, PartP!ftuser, Ft!Idles, PartP!Idles,
      Ft!ClosedByClient, PartP!ClosedByClient, Ft!MayMiss, PartP!MayMiss, Ft!AfterReplyTo,
      PartP!AfterReplyTo, Ft!FailsOn, PartP!FailsOn, Ft!Complete, PartP!Complete, Ft!GoOn,
      PartP!GoOn, Ft!Say, PartP!Say, Ft!Hear, PartP!Hear, Ft!ftp_data_connect,
      PartP!ftp_data_connect, Ft!CreateLocal, PartP!CreateLocal, Ft!TransferEnds,
      PartP!TransferEnds, Ft!ftp_recv_to, PartP!ftp_recv_to, Ft!PutLoop, PartP!PutLoop,
      Ft!Prompt, PartP!Prompt, Ft!Command, PartP!Command, Ft!OpenHost, PartP!OpenHost,
      Ft!PressCtrlC, PartP!PressCtrlC, Ft!ftclient, PartP!ftclient, Ft!FtpAnswers,
      PartP!FtpAnswers, Ft!ServerCommand, PartP!ServerCommand, Ft!ServerCopies,
      PartP!ServerCopies, Ft!ServerEnds, PartP!ServerEnds, Ft!ServerGone, PartP!ServerGone,
      Ft!FtNext, PartP!FtNext
<1>4. UNCHANGED Ft!ftvars <=> UNCHANGED PartP!ftvars
  BY ZenonT(60) DEF Ft!ftvars, PartP!ftvars
<1>5. Ft!FtReportTrue <=> PartP!FtReportTrue
  BY ZenonT(60) DEF Ft!FtReportTrue, PartP!FtReportTrue
<1> QED BY <1>1, <1>2, <1>3, <1>4, <1>5

\* The invariant of the ftp session holds of the part that is Ftp.
LEMMA SessionPart ==
    /\ PartP!FtAssumption
    /\ ServicesInit => (part = "ftp" => PartP!FtInv)
    /\ part = "ftp" /\ [ServicesNext]_services => [PartP!FtNext]_PartP!ftvars
    /\ (part = "ftp" => PartP!FtInv) /\ [ServicesNext]_services
         => (part = "ftp" => PartP!FtInv)'
<1>1. PartP!FtAssumption BY ServicesAssumption, SameSession
<1>2. ServicesInit => (part = "ftp" => PartP!FtInv)
  BY <1>1, SameSession, PartP!FtStarts DEF ServicesInit
<1>3. part = "ftp" /\ [ServicesNext]_services => [PartP!FtNext]_PartP!ftvars
  <2> SUFFICES ASSUME part = "ftp", [ServicesNext]_services PROVE [PartP!FtNext]_PartP!ftvars
    OBVIOUS
  <2>1. [Ft!FtNext]_Ft!ftvars BY DEF ServicesNext, services, Ft!ftvars
  <2> QED BY <2>1, SameSession
<1>4. ASSUME part = "ftp" => PartP!FtInv, [ServicesNext]_services, part' = "ftp"
      PROVE  PartP!FtInv'
  <2>1. part = "ftp" /\ PartP!FtInv BY <1>4, PartStays
  <2> QED BY <1>1, <1>3, <1>4, <2>1, PartP!FtKeeps
<1> QED BY <1>1, <1>2, <1>3, <1>4

\* Whoever waits for a lookup has one record of it that lwIP still owes a
\* callback, and a late callback never answers another question
\* (tn_ipc_cmd_gethostbyname, tn_dns_found_cb, tn_dns_cancel_for_base).
THEOREM LookupsOwn == ServicesSpec => DnsAnswersOwn
<1> DEFINE I == part = "dns" => PartP!DnsInv
<1>1. ServicesInit => I BY DnsPart
<1>2. I /\ [ServicesNext]_services => I' BY DnsPart
<1>3. I => (part = "dns" => Dns!WaitersTracked) BY DnsPart, SameDns, PartP!DnsTracked
<1>4. I /\ [ServicesNext]_services => [part = "dns" => Dns!NoStaleAnswer]_services
  BY DnsPart, SameDns, PartP!DnsFresh
<1> QED BY <1>1, <1>2, <1>3, <1>4, PTL DEF ServicesSpec, DnsAnswersOwn

\* The flags of the SANA-II interface say which requests the driver has, so that
\* none is sent twice or outlives the unit; the station address can receive; and
\* a tick sends the reads that failed again (sana2_netif.c).
THEOREM DriverExact == ServicesSpec => DriverRequests
<1> DEFINE I == part = "sana2" => PartP!S2Inv
<1>1. ServicesInit => I BY DriverPart
<1>2. I /\ [ServicesNext]_services => I' BY DriverPart
<1>3. I => (part = "sana2" => S2!RequestsAccounted) BY SameDriver DEF PartP!S2Inv
<1>4. I /\ [ServicesNext]_services => [part = "sana2" => S2!TickRestoresReads]_services
  BY SameDriver, PartP!S2Restores
<1> QED BY <1>1, <1>2, <1>3, <1>4, PTL DEF ServicesSpec, DriverRequests

\* An option asked for is reported and in force on the socket and on those
\* accepted from it (ipc_setsockopt.c, ipc_getsockopt.c, ipc_tcp.c), and every
\* group lwIP is a member of has a socket that is still open and joined it.
THEOREM OptionsKept == ServicesSpec => []OptionsHold
<1> DEFINE I == part = "options" => PartP!OptInv
           J == part = "multicast" => (PartP!McTypeOK /\ PartP!MembershipsHaveOwners)
<1>1. ServicesInit => I /\ J BY OptionsPart, GroupsPart
<1>2. I /\ J /\ [ServicesNext]_services => (I /\ J)' BY OptionsPart, GroupsPart
<1>3. I /\ J => OptionsHold
  BY OptionsPart, SameOptions, SameGroups, PartP!OptHolds DEF OptionsHold
<1> QED BY <1>1, <1>2, <1>3, PTL DEF ServicesSpec

\* A timeout ends a wait in time and never early, wherever the tick counter
\* wraps; only one due on the counter's tick 0 is lost, for a recv and for a
\* request re-armed while it is parked, and that one no tick ever ends
\* (slot_table.c, ipc_tcp.c, ipc_setsockopt.c); the timer request is never
\* sent while the device has it, and lwIP's clock advances with the time, also
\* where its 32 bits wrap (timers.c).
THEOREM OnTime == ServicesSpec => DeadlinesKept
<1> DEFINE I == part = "deadlines" => PartP!DlInv
           J == part = "clock" => PartP!ClInv
<1>1. ServicesInit => I /\ J BY DeadlinesPart, ClockPart
<1>2. I /\ J /\ [ServicesNext]_services => (I /\ J)' BY DeadlinesPart, ClockPart
<1>3. I => (part = "deadlines" => Dl!SleepsNoLonger)
  BY DeadlinesPart, SameDeadlines, PartP!DlInTime
<1>4. I /\ [ServicesNext]_services => [part = "deadlines" => Dl!NeverEarly]_services
  BY DeadlinesPart, SameDeadlines, PartP!DlNotEarly
<1>5. J => (part = "clock" => Cl!TimerRequestsOurs) BY SameClock DEF PartP!ClInv
<1>6. J /\ [ServicesNext]_services => [part = "clock" => Cl!ClockAdvances]_services
  BY ClockPart, SameClock, PartP!ClRuns
<1> QED BY <1>1, <1>2, <1>3, <1>4, <1>5, <1>6, PTL DEF ServicesSpec, DeadlinesKept

\* A packet leaves by the route with the longest mask that covers its address,
\* to that route's gateway, and no two routes are for one network (route.c, with
\* lwIP's ip4_route around its hooks); only IFCTL SET changes an address that was
\* set by hand, however late a lease arrives or expires (ipc_ifctl.c).
THEOREM RoutesExact == ServicesSpec => RoutesHold
<1> DEFINE I == part = "routes" => PartP!RtInv
<1>1. ServicesInit => I BY RoutingPart
<1>2. I /\ [ServicesNext]_services => I' BY RoutingPart
<1>3. I => (part = "routes" => Rt!RoutedAsListed) BY RoutingPart, SameRouting, PartP!RtRouted
<1>4. I /\ [ServicesNext]_services => [part = "routes" => Rt!StaticAddressStays]_services
  BY RoutingPart, SameRouting, PartP!RtStays
<1> QED BY <1>1, <1>2, <1>3, <1>4, PTL DEF ServicesSpec, RoutesHold

\* Once a save reached every store, a restart loads what it wrote; a cut of
\* power or a failed disk operation loses no configuration that a save had not
\* left unprotected; and a save keeps the settings and the lines that it does
\* not know (prefs.c, safe_replace.c, config_text.c).
THEOREM ConfigSafe == ServicesSpec => ConfigKept
<1> DEFINE I == part = "prefs" => PartP!PsInv
<1>1. ServicesInit => I BY StorePart
<1>2. I /\ [ServicesNext]_services => I' BY StorePart
<1>3. I => (part = "prefs" => Ps!ConfigSurvives) BY StorePart, SameStore, PartP!PsSurvives
<1>4. I /\ [ServicesNext]_services => [part = "prefs" => Ps!SaveKeepsSettings]_services
  BY StorePart, SameStore, PartP!PsSaves
<1> QED BY <1>1, <1>2, <1>3, <1>4, PTL DEF ServicesSpec, ConfigKept

\* The wizard's Finish writes what the user last typed, picked or set, whichever
\* pages, windows and ARexx commands it took to get there, and leaves no message
\* unanswered (TolunnetSetup.c, setup_rexx.c); after a Save of the editor that
\* wrote every store, what the window showed is what is loaded and run
\* (TolunnetPrefs.c).
THEOREM WishesWritten == ServicesSpec => WishWritten
<1> DEFINE I == part = "wizard" => PartP!WzInv
           J == part = "editor" => PartP!PeInv
<1>1. ServicesInit => I /\ J BY WizardPart, EditorPart
<1>2. I /\ J /\ [ServicesNext]_services => (I /\ J)' BY WizardPart, EditorPart
<1>3. I /\ [ServicesNext]_services => [part = "wizard" => Wz!FinishWrites]_services
  BY WizardPart, SameWizard, PartP!WzFinish
<1>4. J => (part = "editor" => Pe!SavedIsRun) BY EditorPart, SameEditor, PartP!PeSaved
<1> QED BY <1>1, <1>2, <1>3, <1>4, PTL DEF ServicesSpec, WishWritten

\* What a success of TolunnetGet says of the file, for every size of the resource
\* and however the server answers, frames, redirects, resumes or cuts it: complete
\* when the answer carries the resource and its Content-Length fits an int32_t (in
\* a file opened anew, from the resumed byte on); at least as many bytes as were
\* read for a length that does not fit; nothing of the resource for an answer
\* below 400 that carries none (TolunnetGet.c, http_url.c).
THEOREM WholeOnSuccess == ServicesSpec => []SuccessMeansWhole
<1> DEFINE I == part = "http" => PartP!HtInv
<1>1. ServicesInit => I BY FetchPart
<1>2. I /\ [ServicesNext]_services => I' BY FetchPart
<1>3. I => SuccessMeansWhole BY SameFetch DEF SuccessMeansWhole, PartP!HtInv
<1> QED BY <1>1, <1>2, <1>3, PTL DEF ServicesSpec

\* A file that ftp reports received or sent went over whole, though breaks leave
\* replies unread that later commands read, and is the one asked for as long as
\* none was left (ftp.c).
THEOREM ReportsTrue == ServicesSpec => []FtReportTrue
<1> DEFINE I == part = "ftp" => PartP!FtInv
<1>1. ServicesInit => I BY SessionPart
<1>2. I /\ [ServicesNext]_services => I' BY SessionPart
<1>3. I => FtReportTrue BY SameSession, PartP!FtReports DEF FtReportTrue
<1> QED BY <1>1, <1>2, <1>3, PTL DEF ServicesSpec
=============================================================================
