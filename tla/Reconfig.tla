------------------------------ MODULE Reconfig ------------------------------
(***************************************************************************)
(* RECONFIG: the daemon loads its preferences again, sorts the changed keys*)
(* into those it can apply and those that need a restart, applies and      *)
(* reports (tn_ipc_cmd_reconfig in src/task/ipc_status.c, tn_recfg_diff in *)
(* src/common/config_text.c, tn_apply_live_config in src/task/netif_mgr.c, *)
(* tn_log_open_file in src/common/log.c).  The SYSLOG key forwards the log *)
(* to a host that may have to be looked up first (src/task/syslog.c).      *)
(*                                                                         *)
(* The keys do not influence each other, so a behaviour follows one key,   *)
(* which stands for its kind: IP for the keys that need a restart, STATS   *)
(* for LOGLEVEL, PRIORITY and DATABASE_ORDER, DNS for DNS2, its port and   *)
(* HOSTNAME, MDNS for TX_QUEUE and DIAG, which only the start looks at,    *)
(* AUTOIP for itself.  A value of 0 is the unset key.                      *)
(***************************************************************************)
EXTENDS Naturals

CONSTANTS RcValues,   \* 0 and some others
          Quads,      \* values that are addresses; as SYSLOG the others are names
          TN_MAX_SELECTORS,  \* what an unset SELECTORS asks for
          DriverMtu          \* s2if.mtu, what the driver reported

RcKeys == {"IP", "LOG", "STATS", "SELECTORS", "MTU", "DNS", "MDNS", "AUTOIP", "SYSLOG"}

\* What the constants must satisfy.
RcAssumption == 0 \in RcValues /\ RcValues \subseteq Nat /\ Quads \subseteq RcValues \ {0}
                /\ TN_MAX_SELECTORS \in RcValues \ {0} /\ DriverMtu \in RcValues \ {0}

VARIABLES key, file,       \* the key followed, its value in the store
          dprefs,          \* d->prefs
          rc_running,      \* what the daemon acts on
          told,            \* history: the last reply that named the key said restart or failed
          s_host, s_dst, s_armed, s_pcb,   \* syslog.c; an address is that of its host
          lookups,         \* history and lwIP: names whose answer has yet to come
          stale,           \* history: names replaced while their lookup was under way
          unheard,         \* history: the lookup of s_host found no address
          listed,          \* history: the values loaded so far that the key can take
          boot             \* history: the value the daemon started with
logv == <<s_host, s_dst, s_armed, s_pcb, lookups, stale, unheard>>
rcvars == <<key, file, dprefs, rc_running, told, logv, listed, boot>>

----------------------------------------------------------------------------
(* syslog.c *)

tn_syslog_shutdown ==
    /\ s_pcb' = FALSE /\ s_armed' = FALSE /\ s_host' = 0 /\ unheard' = FALSE
    /\ stale' = stale \cup lookups /\ UNCHANGED <<s_dst, lookups>>

\* ok is the result of tn_syslog_apply.
tn_syslog_apply(host, ok) ==
    \/ host = 0 /\ ok /\ tn_syslog_shutdown
    \/ host # 0 /\ ~ok /\ ~s_pcb /\ UNCHANGED logv              \* udp_new fails
    \/ /\ host # 0 /\ s_pcb' = TRUE /\ s_host' = host
       /\ stale' = (stale \cup lookups) \ {host} /\ unheard' = FALSE
       /\ \/ ok /\ host \in Quads /\ s_dst' = host /\ s_armed' = TRUE /\ UNCHANGED lookups
          \/ ok /\ host \notin Quads /\ s_dst' = host /\ s_armed' = TRUE /\ UNCHANGED lookups  \* cached
          \/ /\ ok /\ host \notin Quads /\ s_armed' = FALSE /\ lookups' = lookups \cup {host}
             /\ UNCHANGED s_dst
          \/ ~ok /\ host \notin Quads /\ s_armed' = FALSE /\ UNCHANGED <<s_dst, lookups>>

\* The name answered is not looked at: an answer that comes late counts for the
\* host configured now.
Answered(h, taken) ==
    /\ h \in lookups /\ lookups' = lookups \ {h}
    /\ IF taken THEN s_dst' = h /\ s_armed' = TRUE /\ UNCHANGED unheard
       ELSE unheard' = (unheard \/ h = s_host) /\ UNCHANGED <<s_dst, s_armed>>
    /\ UNCHANGED <<key, file, dprefs, rc_running, told, s_host, s_pcb, stale, listed, boot>>

\* An answer taken although forwarding was switched off.
ArmAnyway(h) == \E found \in BOOLEAN : Answered(h, found)

\* The answer for a name, found or not.
tn_syslog_dns_cb(h) == \E found \in BOOLEAN : Answered(h, found /\ s_pcb)

----------------------------------------------------------------------------
(* RECONFIG *)

\* A comparison that forgets the interface address.
DiffWithoutIp(old, new) == [restart |-> FALSE, live |-> key \notin {"IP", "MDNS", "AUTOIP"} /\ old # new]

\* The key is in the restart mask, in the live mask, or (AUTOIP, MDNS,
\* TX_QUEUE, DIAG) in neither.
tn_recfg_diff(old, new) ==
    [restart |-> key = "IP" /\ old # new, live |-> key \notin {"IP", "MDNS", "AUTOIP"} /\ old # new]

Selectors(v) == IF v = 0 THEN TN_MAX_SELECTORS ELSE v

\* What the daemon acts on afterwards; an unset LOG or STATS is a value too.
\* SELECTORS only grows, MTU only shrinks, a server that is no longer listed or
\* is no address leaves the old one, a log file that cannot be opened leaves
\* none, and AUTOIP is read from the preferences when it is needed.
InForce(new, live, ok) ==
    CASE key = "DNS" -> IF new \in Quads THEN new ELSE rc_running
      [] key = "MTU" -> IF new # 0 /\ new < rc_running THEN new ELSE rc_running
      [] key = "SELECTORS" -> IF live /\ ok /\ Selectors(new) > rc_running THEN Selectors(new) ELSE rc_running
      [] key = "LOG" -> IF ~live THEN rc_running ELSE IF ok THEN new ELSE 0
      [] key = "STATS" -> IF live THEN new ELSE rc_running
      [] key = "AUTOIP" -> new
      [] OTHER -> rc_running

StepMayFail(new) == \/ key = "LOG" /\ new # 0
                    \/ key = "SELECTORS" /\ Selectors(new) > rc_running

\* The values that can be put in force: an address for DNS, any set value else.
Listable == IF key = "DNS" THEN Quads ELSE RcValues \ {0}

\* A store that cannot be loaded leaves the defaults in d->prefs, and they are
\* applied like any others.
tn_ipc_cmd_reconfig(loaded) ==
    LET new == IF loaded THEN file ELSE 0
        diff == tn_recfg_diff(dprefs, new)
    IN /\ dprefs' = new
       /\ \E ok \in BOOLEAN :
            /\ IF key = "SYSLOG" /\ diff.live THEN tn_syslog_apply(new, ok)
               ELSE UNCHANGED logv /\ (ok \/ (diff.live /\ StepMayFail(new)))
            /\ rc_running' = IF key = "SYSLOG" THEN s_host' ELSE InForce(new, diff.live, ok)
            /\ told' = IF diff.live THEN ~ok
                       ELSE IF diff.restart THEN rc_running' # new ELSE told
       /\ listed' = listed \cup ({new} \cap Listable)
       /\ UNCHANGED <<key, file, boot>>

EditKey(v) == file' = v /\ v # file /\ UNCHANGED <<key, dprefs, rc_running, told, logv, listed, boot>>

\* What the start puts in force.
AtStart == CASE key = "SELECTORS" -> Selectors(file)
             [] key = "MTU" -> IF file # 0 /\ file < DriverMtu THEN file ELSE DriverMtu
             [] key = "DNS" -> IF file \in Quads THEN file ELSE 0
             [] OTHER -> file

\* SYSLOG starts unset: the start applies it as RECONFIG does.
RcInit ==
    /\ key \in RcKeys /\ file \in RcValues /\ dprefs = file /\ told = FALSE
    /\ rc_running = AtStart /\ (key = "SYSLOG" => file = 0)
    /\ s_host = 0 /\ s_dst = 0 /\ s_armed = FALSE /\ s_pcb = FALSE
    /\ lookups = {} /\ stale = {} /\ unheard = FALSE
    /\ listed = {file} \cap Listable /\ boot = file

RcNext == \/ \E loaded \in BOOLEAN : tn_ipc_cmd_reconfig(loaded)
          \/ \E v \in RcValues : EditKey(v) \/ tn_syslog_dns_cb(v)

----------------------------------------------------------------------------
RcTypeOK ==
    /\ key \in RcKeys /\ file \in RcValues /\ dprefs \in RcValues /\ rc_running \in RcValues
    /\ told \in BOOLEAN /\ s_host \in RcValues /\ s_dst \in RcValues
    /\ s_armed \in BOOLEAN /\ s_pcb \in BOOLEAN /\ lookups \subseteq RcValues
    /\ stale \subseteq RcValues /\ unheard \in BOOLEAN
    /\ listed \subseteq RcValues \ {0} /\ boot \in RcValues

\* After any edits, RECONFIGs and failures, what the daemon acts on is fixed by
\* its preferences as follows.  A restart key, LOG, STATS and AUTOIP are as the
\* preferences say, or the last reply that named the key said restart or failed.
\* SELECTORS is no smaller than asked, or the reply said failed.  MTU is the
\* smallest value the preferences ever held, or the driver's, and no reply says
\* so.  DNS is as listed; with no address listed an earlier server stays, and no
\* reply says so.  MDNS is as it was at the start, and no reply says so.  SYSLOG
\* waits for the host in the preferences or forwards, unless the reply said
\* failed or, with no reply, its lookup found nothing.
FollowsPrefs ==
    /\ key \in {"IP", "LOG", "STATS", "AUTOIP"} /\ rc_running # dprefs => told
    /\ key = "SELECTORS" /\ rc_running < Selectors(dprefs) => told
    /\ key = "MTU" => /\ rc_running \in listed \cup {DriverMtu} /\ ~told
                      /\ \A v \in listed \cup {DriverMtu} : rc_running <= v
    /\ key = "DNS" => /\ rc_running \in (IF dprefs \in Quads THEN {dprefs}
                                         ELSE IF listed = {} THEN {0} ELSE listed)
                      /\ ~told
    /\ key = "MDNS" => rc_running = boot /\ ~told
    /\ key = "SYSLOG" => /\ s_host # dprefs => told
                         /\ dprefs # 0 /\ ~s_armed => told \/ dprefs \in lookups \/ unheard

\* The log is forwarded only with a socket, to the configured host or to one that
\* was replaced while its lookup was under way: syslog.c takes that late answer
\* for the host configured now and keeps forwarding to it.
ForwardsTo == s_armed => s_pcb /\ s_dst \in stale \cup {s_host}

\* What RECONFIG leaves in force, and what its replies leave unsaid.
DeviationTold == FollowsPrefs /\ ForwardsTo

\* What every step keeps: DeviationTold, that a name whose answer has yet to come
\* is the configured one or was replaced, and that a server in force was listed.
RcInv ==
    /\ RcTypeOK /\ DeviationTold /\ lookups \subseteq stale \cup {s_host}
    /\ key = "DNS" /\ dprefs \in Quads => dprefs \in listed
=============================================================================
