------------------------------- MODULE Sana2 -------------------------------
(***************************************************************************)
(* The SANA-II interface, src/sana2/sana2_netif.c: who owns each I/O       *)
(* request (the task, the driver, or the reply port between them), the     *)
(* re-arming of reads, the pool of writes, link events and their storm     *)
(* defence, opening, configuring and closing the unit.                     *)
(*                                                                         *)
(* A request is "none" (not allocated), "idle" (ours), "driver" (sent),    *)
(* "done" or "bad" (replied, in our port, without or with an error).  A    *)
(* SendIO on a request that is not idle corrupts the driver's queue: the   *)
(* flags read_armed, tx_busy and event_armed exist to prevent that.        *)
(***************************************************************************)
EXTENDS Naturals, FiniteSets

CONSTANTS S2Reads,         \* TN_S2_NREADS requests
          S2Writes,        \* TX_QUEUE requests; {} is the synchronous path
          EventBatch,      \* TN_S2_EVENT_BATCH
          EventStrikes,    \* capped batches before events are given up
          StationAddrs     \* addresses: "zero", "ones", "group" or usable ones

\* What the constants must satisfy.
S2Assumption == EventBatch \in Nat \ {0} /\ EventStrikes \in Nat \ {0}

VARIABLES unit,            \* "closed", "open", "online"
          rd, read_armed,  \* the reads and their flags
          wr, tx_busy,     \* the writes and their flags
          ev, event_armed, event_supported, event_strikes,
          handled,         \* completions taken in this poll; 0 outside one
          link_down,
          mac,             \* the station address the stack uses
          six              \* addr_bytes is 6, from S2_DEVICEQUERY

rdv == <<rd, read_armed>>
wrv == <<wr, tx_busy>>
evv == <<ev, event_armed, event_supported, event_strikes, handled>>
s2vars == <<unit, rdv, wrv, evv, link_down, mac, six>>

ReqStates == {"none", "idle", "driver", "done", "bad"}
Ours(req) == req \in {"none", "idle"}
Replied(req) == req \in {"done", "bad"}

(***************************************************************************)
(* The station address.                                                    *)
(***************************************************************************)
tn_s2_addr_usable(a, n6) == a \notin {"zero", "ones"} /\ (n6 => a # "group")

\* cur and factory are the addresses of S2_GETSTATIONADDRESS; "random" is
\* the locally administered fallback, which only a 6-byte address has.
ChosenMac(cur, factory, n6) ==
    LET first == IF cur = "ones" THEN factory ELSE cur
        fac_valid == cur # "ones" /\ tn_s2_addr_usable(factory, n6)
    IN CASE tn_s2_addr_usable(first, n6) -> first
         [] ~tn_s2_addr_usable(first, n6) /\ fac_valid -> factory
         [] ~tn_s2_addr_usable(first, n6) /\ ~fac_valid -> IF n6 THEN "random" ELSE first

\* What S2_CONFIGINTERFACE leaves: the address the unit reports if usable.
MacAfterConfig(chosen, reported, n6) ==
    IF tn_s2_addr_usable(reported, n6) THEN reported ELSE chosen

tn_s2_open ==
    /\ unit = "closed" /\ unit' = "open"
    /\ UNCHANGED <<rdv, wrv, evv, link_down, mac, six>>

\* The query or the configuration may fail, and the daemon closes the unit.
tn_s2_online ==
    /\ unit = "open"
    /\ unit' = "online"
    /\ six' \in BOOLEAN
    /\ \E cur, factory, reported \in StationAddrs :
          mac' = MacAfterConfig(ChosenMac(cur, factory, six'), reported, six')
    /\ UNCHANGED <<rdv, wrv, evv, link_down>>

\* The pool, all or none of it; without it writes are synchronous.
tn_s2_tx_init ==
    /\ unit = "online" /\ \A i \in S2Writes : wr[i] = "none"
    /\ \A i \in S2Reads : rd[i] = "none"
    /\ S2Writes # {}
    /\ wr' = [i \in S2Writes |-> "idle"] /\ tx_busy' = [i \in S2Writes |-> FALSE]
    /\ UNCHANGED <<unit, rdv, evv, link_down, mac, six>>

PoolUp == \E i \in S2Writes : wr[i] # "none"

\* Every read is allocated and sent, or those before a failed one are undone.
tn_s2_arm_reads ==
    /\ unit = "online" /\ \A i \in S2Reads : rd[i] = "none"
    /\ rd' = [i \in S2Reads |-> "driver"] /\ read_armed' = [i \in S2Reads |-> TRUE]
    /\ UNCHANGED <<unit, wrv, evv, link_down, mac, six>>

\* Link events, unless the pool is up.
tn_s2_arm_events ==
    /\ unit = "online" /\ ev = "none" /\ ~PoolUp
    /\ \A i \in S2Reads : rd[i] # "none"
    /\ ev' = "driver" /\ event_armed' = TRUE /\ event_supported' = TRUE
    /\ UNCHANGED <<unit, rdv, wrv, event_strikes, handled, link_down, mac, six>>

(***************************************************************************)
(* The driver.                                                             *)
(***************************************************************************)
DriverRead ==
    /\ \E i \in S2Reads, r \in {"done", "bad"} :
         rd[i] = "driver" /\ rd' = [rd EXCEPT ![i] = r]
    /\ UNCHANGED <<unit, read_armed, wrv, evv, link_down, mac, six>>

DriverWrite ==
    /\ \E i \in S2Writes, r \in {"done", "bad"} :
         wr[i] = "driver" /\ wr' = [wr EXCEPT ![i] = r]
    /\ UNCHANGED <<unit, rdv, tx_busy, evv, link_down, mac, six>>

DriverEvent ==
    /\ ev = "driver" /\ ev' \in {"done", "bad"}
    /\ UNCHANGED <<unit, rdv, wrv, event_armed, event_supported, event_strikes, handled,
                   link_down, mac, six>>

(***************************************************************************)
(* The task.  Between its steps it may be inside tn_s2_poll_events.        *)
(***************************************************************************)
NotPolling == handled = 0

\* One completed read: delivered or dropped, and sent again while the link is
\* up; one that failed stays idle until the tick or the link's return.
tn_sana2_poll_input ==
    /\ NotPolling
    /\ \E i \in S2Reads :
         /\ Replied(rd[i])
         /\ LET again == rd[i] = "done" /\ ~link_down IN
            /\ rd' = [rd EXCEPT ![i] = IF again THEN "driver" ELSE "idle"]
            /\ read_armed' = [read_armed EXCEPT ![i] = again]
    /\ UNCHANGED <<unit, wrv, evv, link_down, mac, six>>

\* Re-arming that looks at every read, armed or not.
RearmBlindly == /\ rd' = [i \in S2Reads |-> IF rd[i] = "none" THEN "none" ELSE "driver"]
                /\ read_armed' = [i \in S2Reads |-> rd[i] # "none"]

Rearmed(down) ==
    IF down THEN UNCHANGED rdv
    ELSE /\ rd' = [i \in S2Reads |-> IF rd[i] # "none" /\ ~read_armed[i]
                                     THEN "driver" ELSE rd[i]]
         /\ read_armed' = [i \in S2Reads |-> rd[i] # "none"]

tn_s2_rearm_reads == Rearmed(link_down)

\* Completed writes go back to the pool.
tn_s2_tx_drain ==
    /\ wr' = [i \in S2Writes |-> IF Replied(wr[i]) THEN "idle" ELSE wr[i]]
    /\ tx_busy' = [i \in S2Writes |-> IF Replied(wr[i]) THEN FALSE ELSE tx_busy[i]]

\* The tick: sys_check_timeouts has run; reads are re-armed, writes reaped.
S2Tick ==
    /\ NotPolling /\ unit = "online"
    /\ tn_s2_rearm_reads /\ tn_s2_tx_drain
    /\ UNCHANGED <<unit, evv, link_down, mac, six>>

\* A frame: the pool is drained, and while every slot is busy the task waits
\* for the driver.
SendWithoutDrain(i) == /\ ~tx_busy[i]
                       /\ wr' = [wr EXCEPT ![i] = "driver"]
                       /\ UNCHANGED tx_busy

FirstFree(i) == ~tx_busy[i]
SendOn(i) ==
    /\ FirstFree(i)
    /\ wr' = [wr EXCEPT ![i] = "driver"]
    /\ tx_busy' = [tx_busy EXCEPT ![i] = TRUE]

tn_s2_send ==
    /\ NotPolling /\ unit = "online" /\ PoolUp
    /\ \/ \E i \in S2Writes : Replied(wr[i]) /\ tn_s2_tx_drain
       \/ /\ ~ \E i \in S2Writes : Replied(wr[i])
          /\ \E i \in S2Writes : SendOn(i)
    /\ UNCHANGED <<unit, rdv, evv, link_down, mac, six>>

\* The bits of one event: OFFLINE and ONLINE, in that order.
LinkAfter(bits) ==
    LET down == link_down \/ "OFFLINE" \in bits IN down /\ "ONLINE" \notin bits

tn_s2_handle_event_bits(bits) ==
    /\ link_down' = LinkAfter(bits)
    /\ IF "ONLINE" \in bits /\ (link_down \/ "OFFLINE" \in bits)
       THEN Rearmed(FALSE) ELSE UNCHANGED rdv

\* One completion of S2_ONEVENT.  A rejected request is not sent again; the
\* last of a batch is sent again once and ends the poll, unless it is the
\* last strike, after which events are given up.
tn_s2_poll_events ==
    /\ Replied(ev)
    /\ \/ /\ ev = "bad"
          /\ ev' = "idle" /\ event_armed' = FALSE /\ event_supported' = FALSE
          /\ handled' = 0
          /\ UNCHANGED <<rdv, link_down, event_strikes>>
       \/ /\ ev = "done"
          /\ \E bits \in SUBSET {"OFFLINE", "ONLINE"} : tn_s2_handle_event_bits(bits)
          /\ LET full == handled + 1 >= EventBatch
                 strikes == IF full THEN event_strikes + 1 ELSE event_strikes
                 storm == full /\ strikes >= EventStrikes
             IN /\ event_strikes' = strikes
                /\ handled' = IF full THEN 0 ELSE handled + 1
                /\ ev' = IF storm THEN "idle" ELSE "driver"
                /\ event_armed' = ~storm
                /\ event_supported' = (event_supported /\ ~storm)
    /\ UNCHANGED <<unit, wrv, mac, six>>

\* GetMsg found the port empty: back to the main loop.
PollEnds ==
    /\ handled > 0 /\ ~Replied(ev)
    /\ handled' = 0
    /\ UNCHANGED <<unit, rdv, wrv, ev, event_armed, event_supported, event_strikes,
                   link_down, mac, six>>

\* What closing waits for: nothing that a flag says is out.
Retired == /\ event_armed => ev # "driver"
           /\ \A i \in S2Writes : tx_busy[i] => wr[i] # "driver"
           /\ \A i \in S2Reads : read_armed[i] => rd[i] # "driver"

\* CheckIO, AbortIO and WaitIO on every request marked as sent, then the
\* device is closed and the requests are freed.
tn_s2_offline_close ==
    /\ NotPolling /\ unit # "closed"
    /\ Retired
    /\ unit' = "closed"
    /\ rd' = [i \in S2Reads |-> IF rd[i] = "driver" THEN "driver" ELSE "none"]
    /\ read_armed' = [i \in S2Reads |-> FALSE]
    /\ wr' = [i \in S2Writes |-> IF wr[i] = "driver" THEN "driver" ELSE "none"]
    /\ tx_busy' = [i \in S2Writes |-> FALSE]
    /\ ev' = IF ev = "driver" THEN "driver" ELSE "none"
    /\ event_armed' = FALSE /\ event_supported' = FALSE /\ event_strikes' = 0 /\ handled' = 0
    /\ link_down' = FALSE /\ mac' = "zero" /\ six' = FALSE

S2Init ==
    /\ unit = "closed" /\ link_down = FALSE /\ mac = "zero" /\ six = FALSE
    /\ rd = [i \in S2Reads |-> "none"] /\ read_armed = [i \in S2Reads |-> FALSE]
    /\ wr = [i \in S2Writes |-> "none"] /\ tx_busy = [i \in S2Writes |-> FALSE]
    /\ ev = "none" /\ event_armed = FALSE /\ event_supported = FALSE
    /\ event_strikes = 0 /\ handled = 0

S2Next == \/ tn_s2_open \/ tn_s2_online \/ tn_s2_tx_init \/ tn_s2_arm_reads
          \/ tn_s2_arm_events \/ DriverRead \/ DriverWrite \/ DriverEvent
          \/ tn_sana2_poll_input \/ S2Tick \/ tn_s2_send \/ tn_s2_poll_events
          \/ PollEnds \/ tn_s2_offline_close

----------------------------------------------------------------------------
\* The requests, their flags and the link are well formed.
S2TypeOK ==
    /\ unit \in {"closed", "open", "online"} /\ link_down \in BOOLEAN
    /\ rd \in [S2Reads -> ReqStates] /\ read_armed \in [S2Reads -> BOOLEAN]
    /\ wr \in [S2Writes -> ReqStates] /\ tx_busy \in [S2Writes -> BOOLEAN]
    /\ ev \in ReqStates /\ event_armed \in BOOLEAN /\ event_supported \in BOOLEAN
    /\ event_strikes \in 0 .. EventStrikes /\ handled \in 0 .. EventBatch
    /\ mac \in StationAddrs \cup {"zero", "random"} /\ six \in BOOLEAN

\* Each flag says exactly whether its request is out: the driver is never
\* sent a request it already has, and closing the unit aborts and collects
\* every request that is out, so none outlives the device.
FlagsTellOwnership ==
    /\ \A i \in S2Reads  : read_armed[i] <=> ~Ours(rd[i])
    /\ \A i \in S2Writes : tx_busy[i] <=> ~Ours(wr[i])
    /\ event_armed <=> ~Ours(ev)
    /\ unit = "closed" => /\ \A i \in S2Reads : rd[i] = "none"
                          /\ \A i \in S2Writes : wr[i] = "none"
                          /\ ev = "none"

\* A unit with 6-byte addresses that is online has one that can receive: never
\* all zeros, all ones or a group address, whatever the driver reported.  With
\* any other width the code has no fallback, and what the driver reported stays.
StationAddressUsable == unit = "online" /\ six => tn_s2_addr_usable(mac, six)

\* A tick with the link up leaves every read with the driver or replied: an
\* error completion costs one tick of reception, never the slot.
TickRestoresReads ==
    S2Tick /\ ~link_down => \A i \in S2Reads : rd[i] # "none" => ~Ours(rd'[i])

\* The requests sent to the SANA-II driver are accounted for from the opening
\* of the unit to its close, and reception recovers from failed reads.
RequestsAccounted == FlagsTellOwnership /\ StationAddressUsable
DriverRequests == []RequestsAccounted /\ [][TickRestoresReads]_s2vars
----------------------------------------------------------------------------
(* The strengthening of RequestsAccounted that every step keeps: a poll stops *)
(* before its batch is full, and events that are not given up have a strike   *)
(* left.                                                                      *)

S2Inv ==
    /\ S2TypeOK /\ RequestsAccounted
    /\ handled < EventBatch /\ (ev # "idle" => event_strikes < EventStrikes)
=============================================================================
