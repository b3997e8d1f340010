---------------------------- MODULE MCServices -----------------------------
(***************************************************************************)
(* The services around the socket calls: the daemon's life cycle, the       *)
(* device, routing, options, configuration, the library's own tables,        *)
(* usergroup.library, and the commands and tools.  They share no state with  *)
(* one another that their properties read, so a behaviour is a behaviour of  *)
(* one of them: `part' says which, and v1, v2, ... hold its variables, in    *)
(* the order of its declaration; the rest are "-".                           *)
(***************************************************************************)
EXTENDS Integers, Sequences, FiniteSets, TLC

CONSTANTS
    Clients, Tools, MaxBases, Reads, LifeActors, Shared, NoOne,
    DnsBases, DnsNames, DnsFold, TN_DNS_PENDING_MAX, DnsLimits, LwipRequests,
    NoDns,
    S2Reads, S2Writes, EventBatch, EventStrikes, StationAddrs,
    OptSlots, OptInts, U8, U32, MsPerSec, TCP_MSS, NoOpt,
    McSlots, McGroups, McAddrs, McAny, TN_MCAST_JOINS_MAX, IgmpGroups, McUses,
    NoJoin,
    TickModulus, MsModulus, MsPerSecond, MsPerTick, TvSecs, TvMs,
    W, TN_MAX_ROUTES, RtDests, RtGws, IfAddrs, IfMasks, IfGws, LoAddr, LoMask,
    NoRoute,
    DgAddrs, DgPorts, DgLens, MaxUdp, RcvBufs, TN_MAX_RX_QUEUE_PER_SOCKET,
    DgTotal,
    Settings, DefaultSetting, Odd, MaxDate, NoFile,
    RcValues, Quads, TN_MAX_SELECTORS, DriverMtu,
    LbMaxFds, LbMinSize,
    NbByte, NbErrs, NbTransient, NbServices, NbBlocks,
    SbValues, SbLength,
    UgTasks, UgProcs, UgBuiltin, UgFile, UgOpens, UgFree,
    TfSizes, TfModulus, TfLife, TfNet, TfRetries, STRAY_MAX,
    HtSizes, HtRedirects, ChunkMax, HtWrap,
    FtSize, FtCommands, FtBreaks,
    TlKeys, TlTyped, TlSends, TlDrain,
    PrCount, PrHops, PrQueries, PrDist, PrRunts, PrOthers, PrQueue,
    SsScripts, SsLater, SsFaults, NoText,
    WzNets, WzEdits, WzMsgs,
    LaTools, LaDaemons,
    ClModulus, ClPerMs, ClBoots, ClLast,
    NcFile, NcUp, NcDown, NcTake, NcRatios, NcTimeouts,
    PeTexts, PeMtus, MtuLow, MtuHigh, PeEdits

VARIABLES part, v1, v2, v3, v4, v5, v6, v7, v8, v9, v10, v11, v12, v13, v14,
          v15, v16, v17, v18, v19, v20, v21
services == <<part, v1, v2, v3, v4, v5, v6, v7, v8, v9, v10, v11, v12, v13,
              v14, v15, v16, v17, v18, v19, v20, v21>>

\* The variables after the n-th: "-" at the start, and never changed.
Rest17 == <<v17, v18, v19, v20, v21>>
Rest16 == <<v16, Rest17>>
Rest15 == <<v15, Rest16>>
Rest14 == <<v14, Rest15>>
Rest13 == <<v13, Rest14>>
Rest12 == <<v12, Rest13>>
Rest11 == <<v11, Rest12>>
Rest10 == <<v10, Rest11>>
Rest9 == <<v9, Rest10>>
Rest8 == <<v8, Rest9>>
Rest7 == <<v7, Rest8>>
Rest6 == <<v6, Rest7>>
Rest5 == <<v5, Rest6>>
Rest4 == <<v4, Rest5>>
Rest3 == <<v3, Rest4>>
Off17 == v17 = "-" /\ v18 = "-" /\ v19 = "-" /\ v20 = "-" /\ v21 = "-"
Off16 == v16 = "-" /\ Off17
Off15 == v15 = "-" /\ Off16
Off14 == v14 = "-" /\ Off15
Off13 == v13 = "-" /\ Off14
Off12 == v12 = "-" /\ Off13
Off11 == v11 = "-" /\ Off12
Off10 == v10 = "-" /\ Off11
Off9 == v9 = "-" /\ Off10
Off8 == v8 = "-" /\ Off9
Off7 == v7 = "-" /\ Off8
Off6 == v6 = "-" /\ Off7
Off5 == v5 = "-" /\ Off6
Off4 == v4 = "-" /\ Off5
Off3 == v3 = "-" /\ Off4

----------------------------------------------------------------------------
Life == INSTANCE DaemonLifecycle WITH
    phase <- v1, held <- v2, public <- v3, listed <- v4, queue <- v5, pend <-
    v6, got <- v7, running <- v8, stopping <- v9, stopMsg <- v10, bases <-
    v11, openCnt <- v12, timer <- v13, armed <- v14, rx <- v15, owner <- v16,
    holders <- v17, parked <- v18, client <- v19, tool <- v20, discarded <-
    v21
Dns == INSTANCE DnsPending WITH
    dns_pending <- v1, dns_pending_count <- v2, dns_eff <- v3, lwip_dns <- v4,
    dns_client <- v5
S2 == INSTANCE Sana2 WITH
    unit <- v1, rd <- v2, read_armed <- v3, wr <- v4, tx_busy <- v5, ev <- v6,
    event_armed <- v7, event_supported <- v8, event_strikes <- v9, handled <-
    v10, link_down <- v11, mac <- v12, six <- v13
Opt == INSTANCE SocketOptions WITH
    opt_name <- v1, oslot <- v2
Mc == INSTANCE Multicast WITH
    mcast_joins <- v1, igmp_use <- v2, mc_open <- v3, mc_addr <- v4, mc_stuck
    <- v5
Dl == INSTANCE Deadlines WITH
    mainloop_ticks <- v1, timeo <- v2, dpend <- v3, deadline <- v4, waited <-
    v5, due <- v6, rearmed <- v7, onzero <- v8
Rt == INSTANCE Routes WITH
    g_routes <- v1, eth <- v2
Dg == INSTANCE Datagrams WITH
    kind <- v1, local <- v2, remote <- v3, opt_rcvbuf <- v4, dg_rx <- v5,
    accepted <- v6, taken <- v7, widest <- v8
Ps == INSTANCE PrefsStore WITH
    disk <- v1, now <- v2, arc <- v3, saver <- v4, kept <- v5, offered <- v6,
    exposed <- v7, settled <- v8
Rc == INSTANCE Reconfig WITH
    key <- v1, file <- v2, dprefs <- v3, rc_running <- v4, told <- v5, s_host
    <- v6, s_dst <- v7, s_armed <- v8, s_pcb <- v9, lookups <- v10, stale
    <- v11, unheard <- v12, listed <- v13, boot <- v14
Lb == INSTANCE LibFds WITH
    lb_size <- v1, lb_open <- v2, lb_mask <- v3, lb_events <- v4, lb_owed <-
    v5, lb_last <- v6, lb_turn <- v7, lb_cb <- v8, lb_crt <- v9, lb_told <-
    v10, lb_asked <- v11, lb_left <- v12
Nb == INSTANCE LibNames WITH
    nb_errno <- v1, nb_err <- v2, nb_own <- v3, nb_herr <- v4, nb_idx <- v5,
    nb_row <- v6, nb_blocks <- v7
Sb == INSTANCE SbtcTags WITH
    sb_opts <- v1, sb_mem <- v2, sb_list <- v3, sb_out <- v4, sb_ret <- v5,
    sb_old <- v6
Ug == INSTANCE Usergroup WITH
    ug_contexts <- v1, ug_users <- v2, ug_loaded <- v3, ug_delexp <- v4,
    ug_here <- v5, ug_insert <- v6, ug_holds <- v7, ug_used <- v8, ug_named <-
    v9, ug_walk <- v10
Tf == INSTANCE Tftp WITH
    tf_op <- v1, tf_size <- v2, tf_pc <- v3, tf_waiting <- v4, tf_tries <- v5,
    tf_stray <- v6, tf_tid <- v7, tf_n <- v8, tf_file <- v9, tf_up <- v10,
    tf_down <- v11, tf_srv <- v12
Ht == INSTANCE HttpGet WITH
    ht_size <- v1, ht_pc <- v2, ht_url <- v3, redirect_count <- v4,
    resume_offset <- v5, resp_start <- v6, total_written <- v7, ht_file <- v8,
    status_code <- v9, framing <- v10, content_length <- v11, ht_wire <- v12,
    ht_fin <- v13, chunk <- v14, exit_code <- v15
Ft == INSTANCE Ftp WITH
    ft_pc <- v1, ft_said <- v2, ft_kind <- v3, ft_port <- v4, ft_count <- v5,
    ft_xrc <- v6, ft_told <- v7, ft_rc <- v8, ft_break <- v9, ft_left <- v10,
    ft_verbs <- v11, ft_replies <- v12, ft_srv <- v13, ft_data <- v14, ft_lost
    <- v15, ft_missed <- v16
Tl == INSTANCE Telnet WITH
    tl_run <- v1, tl_parse <- v2, tl_wire <- v3, tl_meant <- v4, tl_cmds <-
    v5, tl_us <- v6, tl_typed <- v7, tl_text <- v8, tl_eof <- v9, tl_idle <-
    v10, tl_sends <- v11, tl_cut <- v12
Pr == INSTANCE Probe WITH
    pr_tool <- v1, pr_step <- v2, pr_at <- v3, pr_sent <- v4, pr_queue <- v5,
    pr_tries <- v6, pr_rows <- v7, pr_sum <- v8, pr_reached <- v9, pr_rc <-
    v10
Ss == INSTANCE StackSwap WITH
    ss_pc <- v1, ss_ok <- v2, ss_script <- v3, ss_had <- v4, ss_lib <- v5,
    ss_icon <- v6, ss_undo <- v7, ss_faults <- v8, ss_user <- v9, ss_first <-
    v10, ss_cut <- v11, ss_at <- v12
Wz == INSTANCE Wizard WITH
    ws <- v1, wz_gad <- v2, wz_lock <- v3, wz_adv <- v4, wz_run <- v5, wz_rexx
    <- v6, wz_left <- v7, wz_wish <- v8, wz_prefs <- v9, wz_config <- v10,
    wz_finishes <- v11
La == INSTANCE Launcher WITH
    la_store <- v1, la_daemon <- v2, la_tool <- v3, la_break <- v4,
    la_met <- v5
Cl == INSTANCE Clock WITH
    cl_pc <- v1, cl_held <- v2, cl_io <- v3, cl_armed <- v4, cl_boot <- v5,
    eclock <- v6, cl_now <- v7, cl_at <- v8, cl_clash <- v9
Nc == INSTANCE Netcat WITH
    nc_pc <- v1, nc_tty <- v2, nc_timeout <- v3, nc_left <- v4, nc_eof <- v5,
    nc_fins <- v6, nc_idle <- v7, nc_up <- v8, nc_down <- v9, nc_shown <- v10,
    nc_peer <- v11, nc_lost <- v12, nc_how <- v13
Pe == INSTANCE PrefsEditor WITH
    pe_pc <- v1, pe_held <- v2, pe_timer <- v3, pe_prefs <- v4, pe_win <- v5,
    pe_last <- v6, pe_devs <- v7, pe_env <- v8, pe_newer <- v9, pe_daemon <-
    v10, pe_buttons <- v11, pe_wish <- v12, pe_edits <- v13

\* What each module asks of its constants.
ASSUME ServicesAssumption ==
    /\ Life!LifeAssumption /\ Dns!DnsAssumption /\ S2!S2Assumption
    /\ Opt!OptAssumption /\ Mc!McAssumption /\ Dl!DlAssumption
    /\ Rt!RtAssumption /\ Dg!DgAssumption /\ Ps!PsAssumption
    /\ Rc!RcAssumption /\ Lb!LbAssumption /\ Nb!NbAssumption
    /\ Sb!SbAssumption /\ Ug!UgAssumption /\ Tf!TfAssumption
    /\ Ht!HtAssumption /\ Ft!FtAssumption /\ Tl!TlAssumption
    /\ Pr!PrAssumption /\ Ss!SsAssumption /\ Wz!WzAssumption
    /\ La!LaAssumption /\ Cl!ClAssumption /\ Nc!NcAssumption
    /\ Pe!PeAssumption

----------------------------------------------------------------------------
ServicesInit ==
    \/ part = "daemon" /\ Life!LifeInit
    \/ part = "dns" /\ Dns!DnsInit /\ Off6
    \/ part = "sana2" /\ S2!S2Init /\ Off14
    \/ part = "options" /\ Opt!OptInit /\ Off3
    \/ part = "multicast" /\ Mc!McInit /\ Off6
    \/ part = "deadlines" /\ Dl!DlInit /\ Off9
    \/ part = "routes" /\ Rt!RtInit /\ Off3
    \/ part = "datagrams" /\ Dg!DgInit /\ Off9
    \/ part = "prefs" /\ Ps!PsInit /\ Off9
    \/ part = "reconfig" /\ Rc!RcInit /\ Off15
    \/ part = "descriptors" /\ Lb!LbInit /\ Off13
    \/ part = "names" /\ Nb!NbInit /\ Off8
    \/ part = "tags" /\ Sb!SbInit /\ Off7
    \/ part = "usergroup" /\ Ug!UgInit /\ Off11
    \/ part = "tftp" /\ Tf!TfInit /\ Off13
    \/ part = "http" /\ Ht!HtInit /\ Off16
    \/ part = "ftp" /\ Ft!FtInit /\ Off17
    \/ part = "telnet" /\ Tl!TlInit /\ Off13
    \/ part = "probe" /\ Pr!PrInit /\ Off11
    \/ part = "swap" /\ Ss!SsInit /\ Off13
    \/ part = "wizard" /\ Wz!WzInit /\ Off12
    \/ part = "launcher" /\ La!LaInit /\ Off6
    \/ part = "clock" /\ Cl!ClInit /\ Off10
    \/ part = "netcat" /\ Nc!NcInit /\ Off14
    \/ part = "editor" /\ Pe!PeInit /\ Off14

ServicesNext ==
    \/ part = "daemon" /\ Life!LifeNext /\ UNCHANGED part
    \/ part = "dns" /\ Dns!DnsNext /\ UNCHANGED <<part, Rest6>>
    \/ part = "sana2" /\ S2!S2Next /\ UNCHANGED <<part, Rest14>>
    \/ part = "options" /\ Opt!OptNext /\ UNCHANGED <<part, Rest3>>
    \/ part = "multicast" /\ Mc!McNext /\ UNCHANGED <<part, Rest6>>
    \/ part = "deadlines" /\ Dl!DlNext /\ UNCHANGED <<part, Rest9>>
    \/ part = "routes" /\ Rt!RtNext /\ UNCHANGED <<part, Rest3>>
    \/ part = "datagrams" /\ Dg!DgNext /\ UNCHANGED <<part, Rest9>>
    \/ part = "prefs" /\ Ps!PsNext /\ UNCHANGED <<part, Rest9>>
    \/ part = "reconfig" /\ Rc!RcNext /\ UNCHANGED <<part, Rest15>>
    \/ part = "descriptors" /\ Lb!LbNext /\ UNCHANGED <<part, Rest13>>
    \/ part = "names" /\ Nb!NbNext /\ UNCHANGED <<part, Rest8>>
    \/ part = "tags" /\ Sb!SbNext /\ UNCHANGED <<part, Rest7>>
    \/ part = "usergroup" /\ Ug!UgNext /\ UNCHANGED <<part, Rest11>>
    \/ part = "tftp" /\ Tf!TfNext /\ UNCHANGED <<part, Rest13>>
    \/ part = "http" /\ Ht!HtNext /\ UNCHANGED <<part, Rest16>>
    \/ part = "ftp" /\ Ft!FtNext /\ UNCHANGED <<part, Rest17>>
    \/ part = "telnet" /\ Tl!TlNext /\ UNCHANGED <<part, Rest13>>
    \/ part = "probe" /\ Pr!PrNext /\ UNCHANGED <<part, Rest11>>
    \/ part = "swap" /\ Ss!SsNext /\ UNCHANGED <<part, Rest13>>
    \/ part = "wizard" /\ Wz!WzNext /\ UNCHANGED <<part, Rest12>>
    \/ part = "launcher" /\ La!LaNext /\ UNCHANGED <<part, Rest6>>
    \/ part = "clock" /\ Cl!ClNext /\ UNCHANGED <<part, Rest10>>
    \/ part = "netcat" /\ Nc!NcNext /\ UNCHANGED <<part, Rest14>>
    \/ part = "editor" /\ Pe!PeNext /\ UNCHANGED <<part, Rest14>>

ServicesSpec == ServicesInit /\ [][ServicesNext]_services

----------------------------------------------------------------------------
\* The state of every part is well formed.
PartsTypeOK ==
    /\ part = "daemon" => Life!LifeTypeOK
    /\ part = "dns" => Dns!DnsTypeOK
    /\ part = "sana2" => S2!S2TypeOK
    /\ part = "options" => Opt!OptTypeOK
    /\ part = "multicast" => Mc!McTypeOK
    /\ part = "deadlines" => Dl!DlTypeOK
    /\ part = "routes" => Rt!RtTypeOK
    /\ part = "datagrams" => Dg!DgTypeOK
    /\ part = "prefs" => Ps!PsTypeOK
    /\ part = "reconfig" => Rc!RcTypeOK
    /\ part = "descriptors" => Lb!LbTypeOK
    /\ part = "names" => Nb!NbTypeOK
    /\ part = "tags" => Sb!SbTypeOK
    /\ part = "usergroup" => Ug!UgTypeOK
    /\ part = "tftp" => Tf!TfTypeOK
    /\ part = "http" => Ht!HtTypeOK
    /\ part = "ftp" => Ft!FtTypeOK
    /\ part = "telnet" => Tl!TlTypeOK
    /\ part = "probe" => Pr!PrTypeOK
    /\ part = "swap" => Ss!SsTypeOK
    /\ part = "wizard" => Wz!WzTypeOK
    /\ part = "launcher" => La!LaTypeOK
    /\ part = "clock" => Cl!ClTypeOK
    /\ part = "netcat" => Nc!NcTypeOK
    /\ part = "editor" => Pe!PeTypeOK

\* Whoever has the library open has a daemon that serves and can be found,
\* whatever Ctrl-C, STOP, expunge and the reap of dead tasks race with opens.
OpenersServed == part = "daemon" => Life!OpenersServed

\* Whatever the order of breaks, stops, deaths and refusals at the shutdown
\* gate: no request is forgotten while the daemon sleeps or shuts down, and a
\* daemon that has ended, or answered STOP, has released everything.
NothingForgotten ==
    /\ [](part = "daemon" => Life!RequestsRemembered)
    /\ [][part = "daemon" => Life!StoppedMeansReleased]_services

\* Every lookup under way is tracked, and a late DNS callback never completes
\* a later lookup that reuses the message (ipc_netdb.c).
DnsAnswersOwn ==
    /\ [](part = "dns" => Dns!WaitersTracked)
    /\ [][part = "dns" => Dns!NoStaleAnswer]_services

\* The requests sent to the SANA-II driver are accounted for from the opening
\* of the unit to its close, and reception recovers from failed reads.
DriverRequests ==
    /\ [](part = "sana2" => S2!RequestsAccounted)
    /\ [][part = "sana2" => S2!TickRestoresReads]_services

\* What a program asked for with setsockopt is reported and in force on the
\* socket and on those accepted from it, or what the code puts in its place is
\* (SocketOptions), and every group lwIP is a member of has a socket that is
\* still open and joined it, or lost its interface's address before its close.
OptionsHold ==
    /\ part = "options" => Opt!OptionInForce
    /\ part = "multicast" => Mc!MembershipsHaveOwners

\* SO_RCVTIMEO and SO_SNDTIMEO end a wait in time and, wherever the tick
\* counter wraps, never early, but for the wait due on tick 0 that reads as one
\* without a timeout (Deadlines); the tick that counts is one timer request that
\* is never sent twice, and lwIP's clock advances with the time (timers.c).
DeadlinesKept ==
    /\ [](part = "deadlines" => Dl!SleepsNoLonger)
    /\ [][part = "deadlines" => Dl!NeverEarly]_services
    /\ [](part = "clock" => Cl!TimerRequestsOurs)
    /\ [][part = "clock" => Cl!ClockAdvances]_services

\* Packets go where the routing table says, and an address set by hand is
\* changed by nobody else.
RoutesHold ==
    /\ [](part = "routes" => Rt!RoutedAsListed)
    /\ [][part = "routes" => Rt!StaticAddressStays]_services

\* Every datagram is received once and in order, within the limits of the queue;
\* the two send calls agree on where one may go but for MSG_OOB, a short name and
\* the checks sendmsg lacks for RAW.
DatagramsExact == part = "datagrams" => Dg!DatagramsExact

\* No save loses the configuration, wherever the power fails inside it, nor a
\* line of it the program does not know.
ConfigKept ==
    /\ [](part = "prefs" => Ps!ConfigSurvives)
    /\ [][part = "prefs" => Ps!SaveKeepsSettings]_services

\* What RECONFIG leaves in force of every kind of key, what its replies say of it
\* and what they leave unsaid, and where the log is forwarded.
DeviationTold == part = "reconfig" => Rc!DeviationTold

\* What the library keeps for its caller is exact: socket events are reported
\* in turn, to sockets that asked or found a mask left at their number, and the C
\* runtime's descriptor table mirrors fd_map (LibFds), errno
\* is that of the last call that failed (LibNames), and a SocketBaseTags call
\* has done exactly the tags before the one it refuses (SbtcTags).
LibraryExact ==
    /\ part = "descriptors" => Lb!EventsTakeTurns /\ Lb!EventsAsked /\ Lb!MirrorAgrees
    /\ part = "names" => Nb!ErrnoIsTheCallers
    /\ part = "tags" => Sb!TagListExact

\* A program that opens usergroup.library finds no identity a former owner of
\* its task address left, and one context counts its opens.
StartsClean == part = "usergroup" => Ug!StartsClean

\* A TFTP transfer that reports success has the whole file, and no duplicate,
\* late or foreign block ever enters one.
TransferExact == part = "tftp" => Tf!TransferExact

\* What exit code 0 of TolunnetGet says of the file, across redirects, resumed
\* downloads and every framing of the body: complete when the answer carries the
\* resource and its Content-Length fits an int32_t, and else what HttpGet says.
SuccessMeansWhole == part = "http" => Ht!SuccessMeansWhole

\* The ftp client reports a file received or sent only when it was.
FtReportTrue == part = "ftp" => Ft!FtReportTrue

\* What the telnet client shows is what the server meant, its view of the
\* server's options is right once both are quiet, and what is typed leaves as if
\* it had come in one read, but for a line end cut between its CR and its LF,
\* which gets a second CR; and nc passes on all that a peer said before it closed,
\* and waits for a peer that waits for it only when that peer answers a block
\* with more than one recv() takes.
TelnetExact ==
    /\ part = "telnet" => Tl!TelnetExact
    /\ part = "netcat" => Nc!RelayExact

\* An answer is credited to the probe it answers, by ping, traceroute and
\* nslookup, however late it comes.
AnswersOwnProbe == part = "probe" => Pr!AnswersOwnProbe

\* Replacing another TCP/IP stack can be undone: no line of the user's is lost
\* and the original comes back, whichever step fails or is cut off, but for a cut
\* between the two renames of the library or of the script and a rename whose
\* failure nobody looks at, as StackSwap states them.
SwapReversible == part = "swap" => Ss!SwapReversible

\* The first Finish of the setup wizard writes what the user last typed, picked
\* and kept, and every ARexx message has been answered when it ends; a Save of
\* the preferences editor reaches the daemon, whenever that starts or ends.
WishWritten ==
    /\ [][part = "wizard" => Wz!FinishWrites]_services
    /\ [](part = "editor" => Pe!SavedIsRun)

\* A second daemon port comes only from two daemons that both looked for one before
\* either added its own, and a command that reports the daemon stopped is right.
SecondPortRaced == part = "launcher" => La!SecondPortRaced

----------------------------------------------------------------------------
(* Values for Services.cfg. *)

ServicesSymmetry == Permutations(Clients) \cup Permutations(Tools)
MCDnsFold    == [n \in DnsNames |-> IF n = "A" THEN "a" ELSE n]
MCSsScripts  == {<<"u1", "stack", "u2">>, <<"stack">>}
MCWzNets     == <<"n1", "Unknown AP">>
MCNbServices == <<[name |-> "echo", proto |-> "tcp"], [name |-> "echo", proto |-> "udp"],
                  [name |-> "ftp", proto |-> "tcp"]>>
=============================================================================
