# Verification of the tolunnet socket service

tolunnet is a TCP/IP stack for AmigaOS: a daemon task that runs lwIP over SANA-II
devices, and `bsdsocket.library`, through which programs call it. This directory
holds TLA+ models of the daemon and the library, TLC configurations that check them
on small instances, and TLAPS proofs for instances of every size. Source paths are given
relative to the repository root, as in `src/task/slot_table.c`.

- [1. The system](#1-the-system)
- [2. Modules and how they correspond to the code](#2-modules-and-how-they-correspond-to-the-code)
- [3. Runs, bounds and fairness](#3-runs-bounds-and-fairness)
- [4. Proofs](#4-proofs)
- [5. Findings](#5-findings)
- [6. What is not modelled](#6-what-is-not-modelled)
- [7. Plan](#7-plan)

## 1. The system

Every program that opens `bsdsocket.library` gets a *base*: its descriptor table
(`fd_map`), its signal masks, a reply port and an embedded request message. A library
call fills a message, sends it to the daemon's port and waits for the reply. The
daemon is one task: it handles one message, one timer event or one device event at a
time and owns all sockets. A request that cannot be answered at once is *parked* in
the daemon and replied from a later lwIP callback or a tick.

| Component | State | Operations | Interacts with |
|---|---|---|---|
| Slot table (`task/slot_table.c`, `task/ipc_socket.c`) | 64 global slots (`in_use`, `ref_count`, owner, park id, queues, pending requests), the registry `open_bases` | OPEN, CLOSE, SOCKET, CLOSESOCKET, DUP2, RELEASESOCKET, OBTAINSOCKET, reap | descriptor tables of all bases, selectors, lwIP pcbs |
| Descriptor tables (`lib/lib_vectors.c`) | `fd_map`, `dtablesize` of a base | SBTC_DTABLESIZE, the fd callback | written by the daemon's handlers and by the client |
| Select (`task/ipc_select.c`, `lib/lib_vectors.c`) | selector table, `selector_count`, readiness of slots, signals of client tasks | WaitSelect loop; SELECT_ARM, SELECT_DISARM, WAITSELECT; `tn_signal_socket` | every callback that changes readiness; timer.device |
| IPC call (`lib/lib_vectors.c`, `task/ipc_dispatch.c`, `task/ipc_status.c`) | messages, reply port and its signal bit, orphan chain, CANCEL message | `tn_ipc_call`, break, watchdog, CANCEL, CloseLibrary | all requests |
| TCP operations (`task/ipc_tcp.c`) | pending connect, accept, recv and send of a slot, receive queue, shutdown and error flags | connect, listen, accept, send, recv, shutdown and the lwIP callbacks | slots, select, CANCEL, reap |
| Accept queue (`task/slot_table.c`) | connections not yet accepted, their early data and errors | accept callback, early receive and error callbacks, handover | TCP, slots |
| Datagrams (`task/ipc_dgram.c`, `task/ipc_msg.c`) | receive queue of packets | sendto, recvfrom, sendmsg, recvmsg | slots, select |
| DNS (`task/ipc_netdb.c`) | table of pending look-ups | gethostbyname and relatives, late answers | CANCEL, CLOSE, lwIP |
| Main loop (`task/daemon_main.c`, `task/ipc_status.c`) | running, stop requested, shutdown gate | Ctrl-C, STOP, RECONFIG, reap of dead clients | all |
| SANA-II (`sana2/sana2_netif.c`) | read and write request pools, link state | re-arm reads, send, online and offline events | main loop, lwIP |
| Routes and interfaces (`task/route*.c`, `task/ipc_route.c`, `task/netif_mgr.c`, `task/ipc_ifctl.c`) | route table, interface list | add, delete, look-up, configure | lwIP |
| Socket options (`task/ipc_setsockopt.c`, `task/ipc_getsockopt.c`) | values in the slot and in the pcb, group memberships, timeouts | set, get, inheritance at accept | TCP, ticks, lwIP |
| Configuration (`common/config_text.c`, `common/prefs.c`, `common/safe_replace.c`, `task/syslog.c`) | three stores on disk, the running values | load, save, RECONFIG | editor, daemon, DNS |
| Library tables (`lib/lib_vectors.c`, `common/sbtc_dispatch.c`) | events, event masks, the C runtime's copy of the descriptors, errno, service cursor | GetSocketEvents, SocketBaseTags, names | daemon, program |
| usergroup.library (`usergroup/`) | a context per task, the user database | open, close, identity calls | programs |
| Setup wizard and stack replacement (`cmds/TolunnetSetup.c`, `setup/`) | pages, gadgets, startup script, libraries | Finish, undo, ARexx | disk |
| Commands (`cmds/`) | one dialogue each | tftp, TolunnetGet, ftp, telnet, ping, traceroute, nslookup, sntp, start and stop | servers, daemon |

**What is hard.** A slot may be shared by several descriptors of several programs and
by a park id, and is freed and reused at once. Programs die without closing. A client
sleeps on a signal that the daemon raises only if its bookkeeping says somebody is
armed. A request that was given up may be answered later, into memory the client may
have reused; CANCEL names its target by address. Signal bits outlive the messages they
announced. Timers complete early. Bounded searches, tables and counters run full or
wrap. None of this is reached by tests that make one call after the other.

**What makes each component correct.**
Slot table: a socket lives exactly as long as a handle names it; ids are unique; owners
are registered; nothing of a closed base remains.
Select: a ready socket wakes its waiter; no selector is left behind; a timeout is
neither early nor missed.
IPC: message memory is on one list at a time and not freed while it is there; a call
that waits without a bound waits for a reply that will come; CANCEL hits its target only.
TCP, accept queue and DNS: each request is answered exactly once, by an event that is
its own; data is neither lost nor reordered in a handover.
Main loop: STOP is answered exactly once; the daemon leaves only when no base is open.
SANA-II: the number of outstanding reads and free write requests is conserved.
Options, routes and configuration: what was set is in force, or the caller was told.
Disk writers: one usable generation survives a failure at any step.
Commands: what they report is what happened.

`PROJECT.json` lists the hazards at their source lines, each with the properties that
address it.

## 2. Modules and how they correspond to the code

`PROJECT.json` ("map") gives the source lines of each definition. Definitions keep the
names of the C functions where one definition stands for one function. Each property's
*mutant* (a plausible slip in the code: a dropped call, an off-by-one, a missing reset)
is defined just before the definition it alters and is named there: it is a deliberate
mistake, used nowhere, and putting it in the place of the definition makes the property
fail.

The four modules of the socket calls come first; the services around them follow in one
table.

### SlotTable, SocketHandles (slots, descriptors, park ids, registry)

The daemon handles one message at a time, so each handler is one action.

| Variable | Code |
|---|---|
| `sockets` | `d->sockets[]`: in_use, type, ref_count, is_parked, park_id, owner_base |
| `fd_map`, `dtablesize` | the base's `fd_map`, `dtablesize` |
| `open_bases`, `next_park_id` | the daemon's registry and id counter |
| `accepting` | the base of the slot's `pending_accept_msg` |
| `client` | ghost: whether a base's task has it open, has closed it, or is gone |
| `strays` | history: bases that left the registry with an accept still parked |

Handlers: `tn_ipc_cmd_open` (with the sweep for dead tasks when the registry is full),
`_close`, `_socket`, `_accept` (a connection handed over at once, or the request parked),
`_cancel` of a parked accept, `_closesocket`, `_dup2`, `_releasesocket`, `_obtainsocket`; lwIP's
`tn_tcp_accept_cb`, which gives a slot and a descriptor to the base of the parked accept without
asking whether it is registered; the client's `SetDTableSize`; `TaskDies` and
`tn_reap_dead_clients`, which forgets the accepts on slots a dead base owns and no others. Failures on the way (no descriptor, no slot, no pcb) are
alternatives of the action, with what the code gives back. A refused request changes
nothing in the daemon: `Refuse`. A loop of `tn_slot_unref` calls over the descriptors of
a base is one application of `tn_slot_unref(slot, n)`. The memory of a reaped base is never
freed, so no later OpenLibrary gets a stray's address: a stray stays closed.

`SocketHandles` is the promise to programs without counters, slots or owners: a socket
exists exactly as long as a descriptor or a park id names it. `SlotTable` implements it
with `exists` the slots in use and `parked` the ids of parked slots (`ImplementsHandles`).

### SelectWait (WaitSelect and the selector table)

Both sides of WaitSelect. `call[b]` is the client's position in `tn_lvo_waitselect`,
with the time elapsed and the time it last measured; `selectors`, `max_selectors` and
`selector_count` are the daemon's; `sigs` are the signal bits pending at each task;
`ready` is what a poll of a slot would report. One action per request
(`tn_ipc_cmd_select_arm`, `Disarm`, `tn_ipc_cmd_waitselect`) and per place where the
client sleeps or decides (`StartWaiting`, `Loop`, `Wake`, `Sleep`). `SocketEvent` is an
lwIP callback with its `tn_signal_socket`; `ShutWr` changes readiness without a signal,
as `shutdown` does; `Drain` is another holder of the socket taking the data. The timer
may fire at any moment, as the code expects of timer.device.

### IpcCall (tn_ipc_call, watchdog, CANCEL, CloseLibrary)

One client and the daemon. Messages are memory: heap `Blocks` and the `Embedded` one.
`inbox` and `replies` are the two ports, `parked` the requests whose reply is deferred,
`reply_sig` the reply port's signal bit, which `GetMsg` leaves alone and `Wait()` clears.
`cl` is the client's position inside `tn_ipc_call` and `tn_ipc_cancel_inflight`. Three
kinds of request are told apart: answered at once, parked where CLOSE finds it (recv,
send, DNS), parked where CLOSE may leave it (connect, accept). The daemon may take
arbitrarily long. `tn_ensure_timer` and each allocation may fail. An untimed call is not
started while the embedded message is still on a list. The code has no such check
(`lib/lib_vectors.c:269`): what Exec does with a message that is put twice is undefined, so
the model stops there, and `EmbeddedComesBack` (finding 4) shows that the code can get there.

### SocketCalls (parked requests, TCP callbacks, receive and accept queues)

connect, accept, recv and send are answered at once or kept in one of the slot's four
`pending_*_msg` fields. The module has the whole life of those requests on sockets that
several clients share (ReleaseCopyOfSocket, ObtainSocket).

| Variable | Code |
|---|---|
| `slot` | `d->sockets[]`: state, shutdown flags, error, receive queue, accept queue with early data, the four pending requests, the bases that hold a descriptor, the park |
| `owed` | per base: the deferred request it sleeps on (the client's side of `TN_IPC_DEFER`) |
| `pcb` | lwIP's control blocks: state, registered callbacks, `tcp_arg`, whether refused data and a FIN behind it wait |

One action per handler and per callback. Shared parts keep their names:
`tn_service_pending_recv` (the parked recv is run again), `tn_tcp_detach_finished`,
`tn_slot_reply_send`, `tn_slot_free`. They work on a *world*: the slot at hand with the
owed replies, so that a callback that queues data, serves the recv and sees the FIN is one
step, as it is in the daemon.

Abstractions. Data is a count of queued packets; which part of a packet a recv takes is
free. Deadlines are free: a parked recv or send may time out at any time. A base holds a
slot or does not; descriptors, reference counts, owners, dup2 and deaths are in SlotTable.
Handlers that drain the loopback run callbacks in their middle; these are steps of their
own just before or after. lwIP is environment: `Redeliver` is its
`tcp_process_refused_data`, `Expire` its slow timer, `tcp_close` the outcomes of a close
with the callbacks taken away. A pcb may send FIN with data, be refused, be reset at any
time, and end in silence after CLOSING or TIME_WAIT.

### The services around the socket calls

| Module | Code | State and actions |
|---|---|---|
| DaemonLifecycle | `task/daemon_main.c`, `task/ipc_status.c`, `lib/lib_init.c`, `common/ipc_client.c` | the start step by step with its failure labels, the main loop (port, reads, tick, Ctrl-C), STOP, the reap of dead tasks (also by an OPEN that finds the registry full), the shutdown gate under Forbid, return to service and tear-down; OpenLibrary, CloseLibrary, Expunge and one-shot tools around it |
| DnsPending | `task/ipc_netdb.c` | the table of look-ups; cache hits, callbacks, CANCEL, CLOSE, reap, a limit changed by RECONFIG; messages and bases reused under one address |
| Sana2 | `sana2/sana2_netif.c` | owner of each I/O request; open, online, station address, reads, writes, events with their storm defence, offline and close; the driver may fail any request |
| Clock | `task/timers.c` | who has the tick request, the optional second request, arm, ack, seed and close as the main loop calls them, sys_now and its wrap |
| SocketOptions, Multicast, Deadlines | `task/ipc_setsockopt.c`, `task/ipc_getsockopt.c`, parts of `task/ipc_tcp.c`, `task/slot_table.c` | stored and live value of one option from socket() to close, and when it was asked; group memberships of slots and of lwIP over changes of the interface address; deadlines on a tick counter that wraps |
| Routes | `task/route.c`, `task/route_hook.c`, `task/ipc_route.c`, `task/ipc_ifctl.c` | route table, longest match, lwIP's hooks, interface set against a DHCP client. An address is the set of its one bits |
| Datagrams | `task/ipc_dgram.c`, `task/ipc_msg.c` | names of the ends, where a datagram goes, the receive queue with both of its limits, a recvfrom that takes a part |
| PrefsStore, Reconfig | `common/config_text.c`, `common/prefs.c`, `common/safe_replace.c`, `task/ipc_status.c`, `task/syslog.c` | the three stores with their temporary and backup names, one disk operation per step, power cuts; RECONFIG of one key of each kind (restart, live, growing, shrinking, looked at only at the start), the syslog host and its look-up |
| LibFds, LibNames, SbtcTags | `lib/lib_vectors.c`, `lib/lib_unimpl.c`, `common/sbtc_dispatch.c` | events, event masks and the C runtime's copy of the descriptor table; errno and its pointer, host and service names; the walk over a tag list |
| Usergroup | `usergroup/` | contexts by task address, open and close counts, the unlocked step between look-up and link, getpwent |
| Tftp, HttpGet, Ftp, Telnet, Netcat, Probe | `cmds/tftp.c`, `cmds/TolunnetGet.c`, `cmds/ftp.c`, `cmds/telnet.c`, `cmds/nc.c`, `cmds/TolunnetPing.c`, `traceroute.c`, `nslookup.c`, `sntp.c` | each client against an external server and a network that loses, delays, duplicates or cuts |
| StackSwap, Wizard | `setup/stack_detect.c`, `setup/boot_block.c`, `cmds/TolunnetSetup.c`, `setup/setup_rexx.c`, `setup/wifi_mgr.c` | apply and undo of a stack replacement with failing steps and power cuts; pages, gadgets, Finish and the ARexx port |
| Launcher | `cmds/TolunnetControl.c`, `cmds/NetShutdown.c`, `cmds/TolunnetPrefs.c`, `main()` of `task/daemon_main.c` | commands that start and stop daemons they know by the public port only |
| PrefsEditor | `cmds/TolunnetPrefs.c` | what the window shows, what the editor holds, what the stores and the daemon have; Save, Use, start, stop and the poll while the daemon comes and goes |

These modules share no state that their properties read: they meet through calls whose
outcome each of them takes from a set. `MCServices` therefore composes them as a
*disjoint sum*: `part` is chosen in the initial state, the variables of that module live
in `v1`, `v2`, ... through `INSTANCE ... WITH`, and a behaviour is a behaviour of that
module. Every property of the run says `part = "x" => ...` of one of them, or of two or
three that belong together. `ServicesAssumption` collects what the constants must satisfy.

## 3. Runs, bounds and fairness

| Run | Module, cfg | Shows |
|---|---|---|
| slot_table | MCSlotTable, SlotTable.cfg | reference counts exact; `TablesSound`: freed slots unreachable, park ids unique, owners, descriptors and waiting accepts those of registered bases or of strays, registry bounded; a parked socket stays until obtained; the refinement of SocketHandles |
| select_wait | MCSelectWait, SelectWait.cfg | `SelectorsSound`: SELECT_ARM never runs out of entries, selectors belong to registered and waiting clients; the counter is at most one short; no early timeout |
| select_timed | MCSelectWait, SelectTimed.cfg | a timed WaitSelect returns (liveness) |
| ipc_call | MCIpcCall, IpcCall.cfg | `MessagesSound`: memory on a list is allocated, on one list only, waited-for replies are on their way; CANCEL hits its own call; an answered CLOSE releases what it says |
| socket_calls | MCSocketCalls, SocketCalls.cfg | `NobodySleepsForNothing`: no recv or accept sleeps on news that is there, a parked send or connect has a circuit that will end it; `PcbsAccountedFor`: slots and pcbs point at each other and no pcb leaks; slot state follows lwIP; `AnsweredOnce`: no second reply, no dropped request |
| services | MCServices, Services.cfg | the promise of each service, below |
| select_lost_wake, accept_overwritten, eof_before_fin, ipc_close_timeout, ipc_stale_signal, ipc_embedded_reuse | | violations, see Findings |

What `services` shows:

| Property | Of | Says |
|---|---|---|
| OpenersServed | DaemonLifecycle | whoever has the library open has a daemon that serves and can be found; the open count is exact |
| NothingForgotten | DaemonLifecycle | no request is left while the daemon sleeps, none is dropped at shutdown, the tick stays alive, and a STOP reported as done finds everything released |
| DnsAnswersOwn | DnsPending | look-ups are tracked, and a late callback never completes a later one in the same message |
| DriverRequests | Sana2 | no request is sent while the driver has it, none is lost, all are back before the unit closes; a tick restores failed reads |
| OptionsHold | SocketOptions, Multicast | for each option and each moment at which it was asked, what getsockopt reports and what is in force afterwards, over listen, connect and accept (section 5: where that is not what was asked); lwIP is in no group beyond the records of open sockets and the leaves that failed |
| DeadlinesKept | Deadlines, Clock | a wait is not shorter than asked and not longer, wherever the counter wraps; due on tick 0, a send waits one tick more, and a recv or a re-armed request is the only one that loses its deadline; timer.device never gets a request it already has, and sys_now advances with the time over its own wrap |
| RoutesHold | Routes | packets leave as the longest match says, on-link first; a static address is not overwritten by DHCP |
| DatagramsExact | Datagrams | each datagram once, in order, with its sender, within both limits; sendto and sendmsg decide alike for UDP past the two checks sendmsg makes first, and for RAW sendmsg sends also what sendto refuses |
| ConfigKept | PrefsStore | a readable generation survives a power cut at any step of a save; a save keeps lines it does not know |
| DeviationTold | Reconfig | per kind of key, what is in force after a RECONFIG: as configured, or the caller was told; or, for MTU, DNS and MDNS, what stays in force without a word; the log goes to the configured host or to one replaced during its look-up |
| LibraryExact | LibFds, LibNames, SbtcTags | events in turn, and only by a mask of the socket or one left at its number; descriptor copy in step but where a call failed or no callback was set; errno the caller's, tags done up to the refused one |
| StartsClean | Usergroup | no identity of a former task at the same address; one context counts the opens |
| TransferExact, FtReportTrue | Tftp, Ftp | success means the whole file, each byte once |
| SuccessMeansWhole | HttpGet | exit code 0 means the whole resource after a 200 or 206 whose length fits an int32_t; what the file holds in the other cases |
| TelnetExact | Telnet, Netcat | data and commands are told apart at every cut; option state agrees once quiet; a cut of the input changes only a line end cut inside, which gets a second CR; nc reads a closed connection to its end, half closes once, and blocks against a peer that blocks on it only if that answers a block with more than one recv() takes |
| AnswersOwnProbe | Probe | an answer is credited to the probe it answers |
| SwapReversible | StackSwap | undo brings back the original; no line of the user's is lost |
| WishWritten | Wizard, PrefsEditor | the first Finish writes what was last typed, picked and kept; after a Save of the editor a running daemon has what its window showed |
| SecondPortRaced | Launcher | a second public port comes only from two daemons that had both looked before either added its own; a command that says "stopped" is right |

Bounds.

- `slot_table`: three clients with a registry of two, so that a third one meets the full
  registry and the sweep; two slots, so that slots run out and are reused at once;
  descriptor tables of one or two entries, so that they run out, shrink and grow; ids up
  to 3 with one explicit id in use, so that UNIQUE_ID wraps onto ids that are parked. A
  slot is shared by at most four descriptors and the park. `Listeners` lets accepts be parked on
  one of the two slots, and `MaxStrays` ends the parking once a base left with one, so that the
  stray's late connection, its slot and its descriptor are reached and the run stays small. No
  deadlock check: when a stray and the closed clients are all there is, nothing need happen. The proofs of section 4
  remove these bounds. One socket type suffices: types matter only to
  ObtainSocket's comparison, which is exercised by asking for another type.
- `select_wait`: two clients on one socket with readiness of one kind (`write`, which has
  both signalled and silent changes); kinds are treated alike. The table grows from two
  to three entries. `Budget` 2 and `Slack` 1 leave room for a wake that is too early, one
  within the slack, and one at the end. One client can get a signal it asked for, the
  other a break. `select_timed` has no such signals: with them a call returns sooner.
- `ipc_call`: three heap blocks allow the CANCEL message, one call and one orphan at
  once, and exhaustion of memory. `MaxSpins` is 1 in place of 4: the spins are
  only counted, so the limit is reached after two foreign replies and not five, with the
  same code on both sides of it. `ipc_stale_signal` uses the code's 4. The run stops when
  the library is closed, hence no deadlock check. Bases and blocks are interchangeable,
  which the symmetry sets use; the liveness runs use none.

- `socket_calls`: two clients, two slots, two pcbs, stream and datagram sockets, queues of
  one entry, so that every queue and table is full in some state. `MaxOpened` 1 lets
  programs call socket() only while no socket is in use; the second slot is then reached
  through accept, which is where two slots interact (215,730 states). With three pcbs
  (1,013,452 states, three minutes) the result is the same. No deadlock check: all clients
  may sleep while no packet comes.
- `services`: two or three of everything, so that tables of two run full and their entries
  are reused; counters are scaled so that they wrap (ticks 16, milliseconds 12, block
  numbers 4, errno bytes 4); one fault, one break or one power cut per behaviour in the disk
  and dialogue models, at any step (two in StackSwap: a backup that fails matters only before a cut). `LifeActors` lets three of the two clients and two tools
  be active at once. Sizes up to 9 against an int32_t of 8 values give a Content-Length that is
  read as a smaller, a zero and a negative number; two keys typed in reads of up to two give
  a line end cut in the middle; two daemons and three commands give overlapping starts; peers
  that answer a block with 0 to 3 against a recv() of 2 lie on both sides of nc's limit.
  `Shared = FALSE` leaves out the one case of section 5 that is kept out by a constant. 1.89 million distinct states;
  clients and tools are interchangeable, which the symmetry set uses. No deadlock check:
  programs end, and a daemon that was stopped may stay so.

Fairness. `SelectWait!FairSpec` is weak fairness of the clock and of each client's own
steps with the daemon's answers: Exec schedules a ready task, the daemon's loop serves
every message in its port, and timer.device completes requests. Nothing is assumed of
socket events, programs or signals. `IpcCall!ClientFairSpec` is weak fairness of the
client inside a call only (its timer included): the daemon may be wedged, which is the
case the watchdog is made for.

## 4. Proofs

TLC checks one small instance; the theorems below hold for every value of the constants
that the assumptions allow. Each is proved the same way: an inductive invariant that the
initial states satisfy and every step keeps, one lemma per action or per shared helper,
and the property from the invariant. The invariants were checked by TLC before they were
proved. `PROJECT.json` ("theorems") names the property of the runs that each one states.

| Module | Theorems | Inductive invariant |
|---|---|---|
| SlotTableProofs | `TypeCorrect`, `RefCountsExact`, `TablesConsistent`, `ParkHolds`, `TableImplementsHandles` | `IInv` |
| SelectWaitProofs | `TypeCorrect`, `SelectorTableSound`, `CounterNeverDrifts`, `TimeoutsDue` | `IInv` |
| IpcCallProofs | `TypeCorrect`, `MemorySound`, `NeverInterrupted`, `CloseSound` | `IInv` |
| SocketCallsProofs | `TypeCorrect`, `SleepersWake`, `PcbsSound`, `StatesAgree`, `RequestsSound` | `IInv` |
| LibraryProofs | `DaemonServes`, `DaemonRemembers` (of the daemon by itself); lemmas about Datagrams, LibFds, LibNames, SbtcTags, Usergroup and StackSwap by themselves | `LifeInv`, `DgInv`, `LbInv`, `NbInv`, `SbInv`, `UgInv`, `SsInv` |
| PartProofs | lemmas about DnsPending, Sana2, SocketOptions, Multicast, Deadlines, Clock, Routes, PrefsStore, HttpGet, Ftp, Wizard and PrefsEditor by themselves | `DnsInv`, `S2Inv`, `OptInv`, `DlInv`, `ClInv`, `RtInv`, `PsInv`, `HtInv`, `FtInv`, `WzInv`, `PeInv` |
| ServicesProofs | `Served`, `NoneForgotten`, `SecondPort`, `Deviations`, `DatagramsHold`, `LibraryHolds`, `CleanStart`, `LookupsOwn`, `DriverExact`, `OptionsKept`, `OnTime`, `RoutesExact`, `ConfigSafe`, `WishesWritten`, `WholeOnSuccess`, `ReportsTrue`, `SwapUndone` | those of the parts, `LaInv`, `RcInv` |
| ToolsProofs | `OwnAnswers`, `Transfers` | `PrInv`, `TfInv` |

### Slot table

None of the properties is inductive alone. `RefCountExact` needs that a free slot has no
handle (or a new socket would start with foreign references), and that closing a base
reaches all its descriptors, which holds because they lie inside `dtablesize`
(`DescriptorsAccountedFor`). `FreeSlotUnreachable` needs exact counts. `OwnerRegistered`
needs that only registered bases act, but for the accept callback, which acts for the base of a
parked accept: that base is registered or a stray, because leaving the registry with an accept
parked is what makes a stray (`Leave`). `IInv` is their conjunction with `TypeOK`, written
per slot: `SlotCounted(slot, H)` relates a slot record to the set `H` of descriptors that
name it. One lemma per primitive (init, free, unref, ref, park, obtain, clear owner) says
how it moves the pair; `SetDescriptor` says how a write to `fd_map` moves `H`. Each
handler then only says which descriptors come and go; `NextIInv` collects them. The
heaviest steps are `LeaveStep` (all descriptors of several bases at once) and `Dup2Step`
(the released slot may be the very one that is duplicated). `RegistryBounded` is shown
beside `IInv`: the reap only shrinks the registry (`RegistryShrinks`), and OPEN adds to it
only below the bound (`RegisterBounded`).

`ParkHolds` is the action property `ParkedUntilObtained`: with `IInv`, each handler either
keeps the slot of a park id or is the ObtainSocket that takes it. `TableImplementsHandles`
is the refinement `Spec => Handle!HSpec`: with exact counts a slot is in use exactly when a
handle names it, so every handler maps to a step of SocketHandles or to a stutter.

### Select

`SelectorsSound` says that SELECT_ARM finds an entry. That needs one entry per base
(`OneEach`), entries of open bases only (`ArmedByBase`) and none beyond the size of the table
(`BeyondFree`): then armed entries are fewer than bases, and bases no more than entries
(`OneSelectorEach`). `WatchingWaits` ties an armed entry with signals to a program inside
WaitSelect. `TimeoutsDue` needs `ClockHonest`: what the client measured is not more than what
has passed.

### IPC call

`MessagesSound` needs to know where each message is for every position of the client inside
`tn_ipc_call` (`ClientShape`, `CallOut`, `CancelOwned`) and that the lists are disjoint and
without repeats. `NoStrayInterrupt` is about the order of the daemon's port: `CancelsBefore`
says that a CANCEL whose target is reused lies ahead of the new call. `CloseReleases` needs
that CLOSE is the last message sent (`CloseLast`).

### Socket calls

The four properties are one invariant, per object: `GoodSlot(s, slot, pcb)` (who may sleep in
it, what its circuit is, what its accept queue holds), `GoodPcb(p, pcb, slots)` (whose it is
and that both sides agree) and `GoodBuckets` (a pending field names a base that is owed that
very request). Frame lemmas say that an object not touched stays good, so each handler is
proved for the slot and the pcbs it touches.

### Daemon, commands and services

`LifeInv` says for each position of the daemon which resources it holds (`HeldSound`), that
the library is listed and counted (`LibSound`), where each call is (`CallsSound`), that a
message in the port or a tick has its signal (`SignalsSound`), and that a STOP is answered from
the position after the release (`StopSound`). `NoneForgotten` assumes `~Shared`, as in the run:
section 5 names the case it leaves out.

- `SecondPort`: of two daemons between their look for the port and the removal of their own,
  each had looked before the other added its port; a tool's position says what it knows of the
  daemon it asked (`ToolTrue`).
- `Deviations`: a look-up of syslog is for the host that is configured or for one replaced
  meanwhile (`stale`), and a DNS server in force was listed once (`listed`).
- `OwnAnswers`: numbers of outstanding probes grow and are below the next one, so a late
  answer of a former probe never matches the current one.
- `Transfers`: each packet under way belongs to a session and is less than a round of the
  block counter old; block numbers then decide which block it is.
- `LookupsOwn` (`DnsInv`): a record and its waiting client name one another, no client has
  two, and lwIP owes a callback that matches. The last part makes a stale answer impossible:
  whoever matches asked that question.
- `DriverExact` (`S2Inv`): beside the flags of all requests, that a poll of events ends before
  its batch and that requests not given up have a strike left.
- `OptionsKept` (`OptInv`): what a slot stores follows from what was asked and when (early, on a
  connection, on the listener), fits the pcb's field, and is live as `InForce` says in every
  state with a pcb. The multicast property is inductive with its types.
- `OnTime` (`DlInv`, `ClInv`): a deadline is 0 exactly for a request without a timeout or for one
  that tick 0 takes for such a request; else it is the tick counter plus the ticks left, modulo
  its range, and what is left is between one and less than half the range. So the signed
  comparison of the code is right on both sides of the wrap; likewise for `sys_now`.
- `RoutesExact` (`RtInv`): every entry was installable and no two are for one network. Masks
  are then chains of one another where they cover the same address, prefix length is
  cardinality, and the entry with the most bits is the only best one: the first match of the
  code's loop among the longest is that one.
- `DatagramsHold` (`DgInv`): the queue goes on where the receiver stopped, the bytes counted are
  those of the queue (running totals of its prefixes), and they are within the widest receive
  buffer a program may set, unless one datagram larger than it is all there is.
- `LibraryHolds` (`LbInv`, `NbInv`, `SbInv`): a descriptor with a mask was asked for or left one;
  the turns a descriptor has waited and its distance
  from the event cursor are together less than the table; the library's copy of the error is
  the last one set; after the first i tags every setting is that of the last tag that set it.
- `CleanStart` (`UgInv`): the first context of a task counts its opens and has its cursor, a
  second one of the same task counts nothing.
- `ConfigSafe` (`PsInv`): at each step of a save, which of the main, temporary and backup file
  is whole, and of which generation.
- `SwapUndone` (`SsInv`): every file that may become the live script is whole (its boot blocks
  closed, nothing of a block outside one) and has the user's lines in their order; a script that
  was there is rewritten for the first time only after its backup was made, or the failed copy is
  on record (`"seed"` in `ss_cut`); where the library is at each step; what an undo has put back
  so far. That a rewrite keeps the user's lines is shown for scripts of any length, by the lines
  taken up to each place (`Takes`).
- `WishesWritten` (`WzInv`, `PeInv`): what the wizard's pages show is what was asked for, and
  each queued event has its answer owed; the editor's gadgets agree with the settings it loaded
  or the user typed, a value of MTU 0 excepted (section 5).
- `WholeOnSuccess` (`HtInv`): what is left of the stream is a run of the chunk parser from its
  present state, so a success at the last chunk means the whole body; without chunks the file
  and what is left are the rest of the resource, so the count at which the body ends says how
  much of it is there, also when the length read is not the one sent (`Int32`).
- `ReportsTrue` (`FtInv`): the replies since the data connection was made belong to it, and the
  ports of the connections order the replies.

`MCServices` instantiates each module with shared variables (section 2). What PartProofs and
LibraryProofs prove in a module's own variables is instantiated the same way (`PartP`,
`LibP`), lemmas `Same...` show that both instances are the same formulas, and lemmas
`...Part` that a step of `ServicesSpec` is a step of the part that was chosen.

### Assumptions

On constants, each stated in the module that declares them and evaluated by TLC:

- SlotTable: finitely many clients, table sizes ordered as in the headers, more park ids
  than slots (the UNIQUE_ID search ends; in the code ids are 31 bits and slots 64).
- SelectWait: no more bases than selectors at the start (16 each in the headers; the table
  only grows), `Bits` only user signals and break (`KnownBits`).
- IpcCall: finitely many blocks, none of them the embedded message. SocketCalls: finitely
  many slots, queues of at least one entry.
- Markers (`NoOne`, `NoDns`, `NoJoin`, `NoOpt`, `NoRoute`, ...) are no values of what they mark
  the absence of; NULL is no pointer to an object.
- Deadlines: the longest timeout, in ticks, is below half the range of the tick counter
  (2^32 ms at 100 ms per tick against 2^31). Clock: its range is at least 2, and
  `sys_now` is asked again within half of it (the daemon ticks).
- Tftp: no packet lives through a round of the 16-bit block counter
  (`TfLife <= TfModulus - 2`). Probe: MAXHOPS and QUERIES at least 1, as `traceroute.c`
  makes sure. DaemonLifecycle: finitely many clients, at least one read request.
- Usergroup: finitely many tasks. Datagrams: addresses and ports are numbers. PrefsStore: "no file"
  is no text. StackSwap: a first script has none of the lines that only TolunnetSetup writes, the
  lines added later are the user's, "no file" is no text. PrefsEditor: 0 and both bounds of the
  code are among the MTUs.
- Where a recursive function over a sequence is reasoned about (the chunk parser, the bytes
  queued, the tag list, the lines picked from a script), the induction is done by hand: a least
  index at which the claim fails, and its predecessor (`LeastNat`).

### Only model-checked

- Liveness: `TimedReturns`, `WatchdogReturns`; fairness is out of the prover's reach.
- `TelnetExact`: the reference parser is a fold over streams of any length, and the property
  compares it with a flattened sequence of everything printed; that is an induction over the
  whole history, not over a position in it.
- `PartsTypeOK`: it includes the types of telnet and nc, which have no inductive invariant here.
  What the proofs need of the types of the other parts is in the invariants above.
- The six violations are counterexamples and need no proof.

## 5. Findings

Each is a run that TLC refutes; the property is quoted from the repository.

1. **A lone selector counts as none** (`task/ipc_select.c:338`, run select_lost_wake).
   SELECT_ARM increments `selector_count` and then recomputes it before `in_use` is set.
   With one armed selector the counter is 0, `tn_signal_socket` skips the scan, and an
   untimed WaitSelect sleeps through its event. `CountWithinOne` (run select_wait) shows
   that the counter is never more than one short.
2. **CloseLibrary after a timed-out CLOSE** (`lib/lib_vectors.c:628`, run
   ipc_close_timeout). The result of CLOSE is not looked at; messages, reply port and
   base are freed while the daemon still has them.
3. **A stale reply signal disables the watchdog** (`lib/lib_vectors.c:449`, run
   ipc_stale_signal). A drain takes replies off the port and leaves the signal bit set; the
   next watched call wakes, finds nothing and goes on in WaitPort, without timer or break.
4. **The embedded message returned unanswered** (`lib/lib_vectors.c:453`, run
   ipc_embedded_reuse). When late replies of abandoned calls use up the search, an untimed
   call returns with its message still at the daemon.

5. **accept() overwrites accept()** (`task/ipc_tcp.c:606`, run accept_overwritten). Two
   clients that share a listener both call accept(): the second request replaces the first
   in `pending_accept_msg`. Nothing answers the first any more; CANCEL does not find it and
   takes it for answered. recv and send refuse in that case (EALREADY). `AnsweredOnce` (run
   socket_calls) shows that all other requests are kept.
6. **A clean EOF in place of the last data** (`task/ipc_tcp.c:301`, run eof_before_fin). The
   receive queue is full when the last segment comes with its FIN; it is refused and lwIP
   keeps it. If the client has shut down its side (LAST_ACK), the peer's ACK ends the pcb,
   the refused data is dropped, and `tn_tcp_err_cb` takes ERR_CLSD for a close whose FIN was
   seen: recv() reports EOF, and the end of the stream is missing without an error.

A shutdown(SHUT_RDWR) by one holder does not wake a recv or connect another holder sleeps
in, and neither does SHUT_RD a recv: the properties of socket_calls state these exceptions.

Met while modelling the services. Each of these cases is in a run unless it says otherwise: the
property there states what the code does in that case and that nothing else brings it about;
none has a run of its own.

- **Late accepts of dead clients** (`task/ipc_tcp.c:356`, `task/daemon_main.c:126`). The comment
  "parked accept/connect messages are also cleared silently" (`task/daemon_main.c:122`) is true only of slots the
  dead base owns. ObtainSocket moves the owner, so an accept may wait on a slot of another base:
  it survives the reap, and the next connection gives a slot and a descriptor to a base that is
  in no registry. Nobody closes them again. After a CloseLibrary the same takes an accept that
  its own program abandoned after a time-out, without a CANCEL because that message too had been
  given up (`lib/lib_vectors.c:97`); the base is then freed memory. `TablesSound` allows these *strays* and no other base.
- **Shared slots and the reap** (`task/daemon_main.c:127`). The reap clears the requests
  parked on slots the dead base *owns*. With `Shared = TRUE` a live client's request on such
  a slot is dropped and never answered. The run leaves this case out (`Shared = FALSE`).
- **Two daemons** (`task/daemon_main.c:349` and `:507`). The look for a running daemon and the
  AddPort are far apart; two that start together both publish a port. `SecondPortRaced` shows
  that there is no other way to a second one.
  `NetShutdown` reads `msg.err_no` uninitialised when the call itself failed (line 47), and
  waits 2 s where its comments say 5 s; START says "started" without a look at the result.
- **Deadlines on tick 0** (`task/slot_table.c:723`, `task/ipc_setsockopt.c:181` and `:207`). A
  deadline of 0 means none, and only the send path moves one that lands there on to tick 1
  (`task/ipc_tcp.c:833`). When the counter wraps, a recv due on tick 0 and a request that setsockopt
  re-arms for it sleep without a timeout.
- **RECONFIG.** An MTU is only ever lowered, so that a larger or removed value stays out of force;
  a DNS server that is removed, or replaced by what is no address, stays in force; MDNS, TX_QUEUE and DIAG are
  looked at by the start alone; and MDNS switched off makes the daemon leave out
  `tn_mdns_cleanup` when it stops. No reply names any of them as needing a restart.
- **Configuration.** `CompareDates(env, devs) > 0` means that DEVS: is the newer file, so the
  comment "ENV overrides ONLY if newer than DEVS" (`common/prefs.c:124`) describes the opposite.
  A first save has no former generation to fall back on; `tn_prefs_any_store_exists` looks at
  main names only, although the load recovers from `_tmp` and `.bak`; each save drops a DIAG
  line, a known key that is not written.
- **Link events** (`sana2/sana2_netif.c:815`). When event requests are given up while the link is
  down, nothing reports it up again and reception stays off.
- **Options.** getsockopt(IP_TTL) reports 64 while the pcb uses lwIP's 255 until the option is
  set; TCP_MAXSEG set before connect is replaced by the handshake, and TCP_NODELAY 0 set before
  connect by Nagle turned off; of what was asked on a listener, an accepted socket gets neither IP_TTL nor
  TCP_NODELAY 0, and SO_REUSEADDR in its pcb but not in its record.
- **Memberships** (`task/ipc_setsockopt.c:46`). A close ignores that igmp_leavegroup fails when the
  interface has another address than at the join: lwIP stays in the group with nobody to leave
  it. A slot may drop a group that only another slot joined (line 514).
- **Datagrams.** sendmsg repeats the checks of sendto for UDP ("same checks", `task/ipc_msg.c:113`)
  and lacks EISCONN and EDESTADDRREQ for RAW, where a datagram without a name goes to INADDR_ANY;
  it does not drain the loopback for RAW. sendto looks neither at MSG_OOB nor at the length of
  the name, which sendmsg refuses. Both cut a RAW payload at 65535 bytes and report success.
- **syslog** (`task/syslog.c:25`). A late DNS answer for a replaced host re-arms the old one, and
  forwarding goes there until the next change of SYSLOG.
- **Library.** CloseSocket leaves `events[fd]` and `event_masks[fd]`, so the next socket on the
  descriptor starts with the old mask, where `task/slot_table.c:686` says the default is none, and
  may report an event of the old socket; Dup2Socket asks no FDCB_CHECK and may take the number of
  a file of the C runtime; sockets open when the callback is set are not announced to it;
  FDCB_FREE is called before the request that may fail; vsyslog does not restore errno for a
  program that cleared its own variable (`lib/lib_vectors.c:2507`); SET on tags that can only be
  read is accepted.
- **usergroup.library.** "Lookup and insert form one critical section"
  (`usergroup/ug_context.c:94`) is not so for the Open vector, which runs under Forbid.
- **TolunnetGet.** Content-Length is read into an int32_t without a check
  (`common/http_url.c:194`): a length past 2^31 is read as a smaller number, which ends the body early, or
  as a negative one, which makes a cut connection a success. An answer that is not HTTP, and any
  status below 400 that is no redirect (100, 204, 304; `cmds/TolunnetGet.c:297`), is stored with exit code 0; a 206
  whose file cannot be reopened is written as a new file, which then lacks its beginning;
  resuming sends no If-Range.
- **ftp** (`cmds/ftp.c:496`). A local file that cannot be created, or Ctrl-C, leaves a reply unread
  and the next command takes it for its own; the comment at line 66 says the session stays usable.
- **telnet.** CR and LF of a typed line cut between two reads become CR CR LF; after the end of
  input the output is drained for ten recv() calls, not for the 2 s of the comment (line 169).
- **Stack replacement** (`setup/stack_detect.c:703`). A power cut between the two library renames
  leaves the original under the park name, which UNDOSTACKS does not look at (the script that
  calls it does, when no library is there) and a second Finish deletes; the boot block's own
  backup (`setup/boot_block.c:161`) may fail unnoticed, and with a power cut between the two
  renames of the script the next rewrite then deletes the last copy of the user's lines; the
  renames of library and icon are not looked at, so undo reports success when one failed; the
  script does not know `.pre-tolunnet`; a BEGIN marker without its END swallows the rest of the script.
- **Wizard** (`cmds/TolunnetSetup.c:2364`). A second Finish from the queue writes Wireless.prefs as
  an open network, because the first one wiped the passphrase; a Next queued behind Cancel
  finishes; the string gadgets of the Advanced window are never read back.
- **Preferences editor** (`cmds/TolunnetPrefs.c:943`). The result of a save is not looked at and
  the requester says "Configuration written" in any case. Use writes ENV: alone, the newer file
  then, which the reversed comparison above makes the load pass over: Use has no effect. A Save
  whose ENV: write fails leaves an older ENV: that is loaded in place of DEVS:; `SavedIsRun` is
  about Saves that wrote every store. An MTU of 0, "keep the driver's", is shown as 1500 and
  saved as 1500 untouched. What another program saved since the editor started is overwritten.
- **nc** (`cmds/nc.c:57`). Between two blocks of a file nc reads the connection once. A peer that
  answers each block with more than one recv() takes fills its direction in time and stops
  reading while nc sits in send(): neither goes on. With a silent peer each
  block costs a second, and the exit code is 0 whatever was lost.
- **Station address** (`sana2/sana2_netif.c:289`). A device whose address is not 6 bytes long has no
  fallback: with neither a current nor a factory address it goes on without a usable one.
- **Probes.** UDP ping and sntp take the first datagram that comes for the answer.

## 6. What is not modelled

- Return values and error numbers of requests, except where they decide what the client
  does next. In `SlotTable` a connection may be there for any stream slot: whether it
  listens is TCP state.
- The SIGIO fallback of WaitSelect without a signal bit, and the call that finds no daemon
  (ENETDOWN).
- Byte contents: packets, files and settings are counts, indices or classes. Frame formats,
  copy hooks and the multicast filter of SANA-II; ancillary data; the legacy file
  `DEVS:tolunet.config`; parsing of URLs, addresses and command lines.
- Pages' layout, drawing, catalogs, hardware detection and the network tests of the wizard;
  the layout of TolunnetPrefs and the programs its Ping, Setup and Undo run; nc over UDP;
  detection of installed stacks; crypt and the record format of the user database; the
  crash log and log formatting.
- iperf, whois, arp, snapshot, hostname, CheckNetConfig and the status commands: one
  request and formatted output each.
- lwIP and Exec are environment: their effects on the modelled state are actions, marked
  external in the map.

The public headers (`include/`) hold declarations and constants; together with vendored
code, tests and the parts above they are most of what the map leaves uncovered.

## 7. Plan

Done: all modules of section 2; proofs of the four modules of the socket calls, the refinement
of SocketHandles, and all promises of the services but two (end of section 4). Next:

1. **Byte streams**: SocketCalls with packets instead of counts, against an abstract stream
   per connection (refinement), early data included.
2. Liveness of the daemon: every STOP is answered once the last base is closed.
