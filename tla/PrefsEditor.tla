---------------------------- MODULE PrefsEditor ----------------------------
(***************************************************************************)
(* The preferences editor (src/cmds/TolunnetPrefs.c): it loads the         *)
(* configuration once, copies it into gadgets, and Save and Use copy the   *)
(* gadgets back, write the stores and tell the daemon, which may start or  *)
(* end at any moment in between.  One string stands for the text gadgets.  *)
(* The stores are those of PrefsStore, whose writes are one step here:     *)
(* Save writes DEVS:, ENVARC: and ENV: in this order, Use ENV: alone.      *)
(***************************************************************************)
EXTENDS Integers

CONSTANTS PeTexts,          \* what can be in a text gadget
          PeMtus,           \* numbers in the MTU gadget, 0 for an empty one
          MtuLow, MtuHigh,  \* 576 and 1500
          PeEdits           \* bound: changes the user makes
NoCfg == [text |-> "none", dhcp |-> FALSE, mtu |-> 0]

\* What the constants must satisfy.
PeAssumption == /\ "none" \notin PeTexts
                /\ PeMtus \subseteq Nat /\ {0, MtuLow, MtuHigh} \subseteq PeMtus
                /\ 0 < MtuLow /\ MtuLow <= MtuHigh /\ PeEdits \in Nat

VARIABLES pe_pc,      \* "start", "loop", "notify", "asks", "out"
          pe_held,    \* libraries, screen, gadgets, window and timer held
          pe_timer,   \* the poll request: "none", "sent" or "done"
          pe_prefs,   \* the editor's TnPrefs
          pe_win,     \* what the window shows
          pe_last,    \* Save was pressed: the editor ends when the daemon was told
          pe_devs, pe_env,   \* the stores
          pe_newer,   \* DEVS: is the newer of the two
          pe_daemon,  \* the configuration the daemon loaded last, or NoCfg
          pe_buttons, \* [start, stop]: which of them can be pressed
          pe_wish,    \* history: what the window showed at a Save that wrote every store
          pe_edits
pevars == <<pe_pc, pe_held, pe_timer, pe_prefs, pe_win, pe_last, pe_devs, pe_env, pe_newer,
            pe_daemon, pe_buttons, pe_wish, pe_edits>>

Cfgs == [text : PeTexts, dhcp : BOOLEAN, mtu : PeMtus]
stores == <<pe_devs, pe_env, pe_newer>>
daemon_running == pe_daemon # NoCfg

\* tn_prefs_load as PrefsStore has it: ENV: is read when DEVS: is the newer one.
Loaded == IF pe_newer THEN pe_env ELSE pe_devs

----------------------------------------------------------------------------
(* Starting and ending. *)

\* In the order in which main() gets them; each needs those before it.
Libraries == {"intuition", "graphics", "gadtools"}
Display   == {"screen", "visual", "context"}
Needed    == Libraries \cup Display \cup {"gadgets", "window"}

\* The gadgets show the preferences, and an MTU of 0 as the default.
InterfaceGadgets(p) == [p EXCEPT !.mtu = IF @ = 0 THEN MtuHigh ELSE @]
ButtonsFor(running) == [start |-> ~running, stop |-> running]

\* icon.library and the timer are not needed; a port without a device is kept.
PeOpen ==
    /\ pe_pc = "start" /\ pe_pc' = "loop"
    /\ \E icon \in {{}, {"icon"}}, timer \in {{}, {"timer port"}, {"timer port", "timer"}} :
          /\ pe_held' = Needed \cup icon \cup timer
          /\ pe_timer' = IF "timer" \in timer THEN "sent" ELSE "none"
    /\ pe_prefs' = Loaded /\ pe_win' = InterfaceGadgets(Loaded)
    /\ pe_buttons' = ButtonsFor(daemon_running)
    /\ UNCHANGED <<pe_last, stores, pe_daemon, pe_wish, pe_edits>>

\* Something on the way could not be had: a library ends the program at once,
\* anything later goes to cleanup.
PeOpenFails ==
    /\ pe_pc = "start" /\ pe_pc' = "out" /\ pe_held' = {}
    /\ UNCHANGED <<pe_timer, pe_prefs, pe_win, pe_last, stores, pe_daemon, pe_buttons, pe_wish, pe_edits>>

\* The poll request is aborted and waited for unless it is done already.
PeCleanup == /\ pe_pc' = "out" /\ pe_held' = {} /\ pe_timer' = "none"

----------------------------------------------------------------------------
(* The user. *)

PeType(c) ==
    /\ pe_pc = "loop" /\ pe_edits < PeEdits /\ pe_edits' = pe_edits + 1
    /\ c.dhcp = pe_win.dhcp /\ c # pe_win /\ pe_win' = c
    /\ UNCHANGED <<pe_pc, pe_held, pe_timer, pe_prefs, pe_last, stores, pe_daemon, pe_buttons, pe_wish>>

\* The cycle gadget is read from its event, not from the gadget.
PeMode ==
    /\ pe_pc = "loop" /\ pe_edits < PeEdits /\ pe_edits' = pe_edits + 1
    /\ pe_win' = [pe_win EXCEPT !.dhcp = ~@] /\ pe_prefs' = [pe_prefs EXCEPT !.dhcp = pe_win'.dhcp]
    /\ UNCHANGED <<pe_pc, pe_held, pe_timer, pe_last, stores, pe_daemon, pe_buttons, pe_wish>>

\* Save and Use that write what was loaded.
SavesOld == pe_prefs

FromGadgets ==
    [text |-> pe_win.text, dhcp |-> pe_prefs.dhcp,
     mtu |-> IF pe_win.mtu \in MtuLow .. MtuHigh THEN pe_win.mtu ELSE 0]

\* What the user asks for: a window with an MTU out of range asks for the default.
Shown == [pe_win EXCEPT !.mtu = IF @ < MtuLow \/ @ > MtuHigh THEN 0 ELSE @]

\* The result of tn_prefs_save is not looked at.
PeWrite(use) ==
    /\ pe_pc = "loop" /\ pe_pc' = "notify" /\ pe_prefs' = FromGadgets /\ pe_last' = ~use
    /\ \/ /\ ~use /\ pe_devs' = FromGadgets
          /\ \/ pe_env' = FromGadgets /\ pe_newer' = FALSE /\ pe_wish' = Shown
             \/ pe_newer' = TRUE /\ UNCHANGED <<pe_env, pe_wish>>    \* ENV: is best effort
       \/ use /\ pe_env' = FromGadgets /\ pe_newer' = FALSE /\ UNCHANGED <<pe_devs, pe_wish>>
       \/ UNCHANGED <<stores, pe_wish>>
    /\ UNCHANGED <<pe_held, pe_timer, pe_win, pe_daemon, pe_buttons, pe_edits>>

Leaves == IF pe_last THEN PeCleanup ELSE pe_pc' = "loop" /\ UNCHANGED <<pe_held, pe_timer>>

\* The daemon is not told.
SaysNothing ==
    /\ pe_pc = "notify" /\ Leaves
    /\ UNCHANGED <<pe_prefs, pe_win, pe_last, stores, pe_daemon, pe_buttons, pe_wish, pe_edits>>

\* A running daemon gets RECONFIG and loads the stores; if its port goes
\* before the message is sent, nothing happens.
after_save_use ==
    /\ pe_pc = "notify"
    /\ IF daemon_running THEN pe_daemon' = Loaded /\ Leaves
       ELSE pe_pc' = "asks" /\ UNCHANGED <<pe_daemon, pe_held, pe_timer>>
    /\ UNCHANGED <<pe_prefs, pe_win, pe_last, stores, pe_buttons, pe_wish, pe_edits>>

\* daemon_start looks for a running one itself and does not wait: the daemon
\* may be there at once, later (DaemonComesAndGoes) or never.
daemon_start == pe_daemon' \in {pe_daemon} \cup (IF daemon_running THEN {} ELSE {Loaded})
update_daemon_buttons == pe_buttons' = ButtonsFor(pe_daemon' # NoCfg)

\* "Start the network stack now?"
PeAnswer ==
    /\ pe_pc = "asks" /\ Leaves
    /\ \/ daemon_start /\ update_daemon_buttons
       \/ UNCHANGED <<pe_daemon, pe_buttons>>
    /\ UNCHANGED <<pe_prefs, pe_win, pe_last, stores, pe_wish, pe_edits>>

\* The buttons may be behind the daemon by a poll.
PeStart ==
    /\ pe_pc = "loop" /\ pe_buttons.start /\ daemon_start /\ update_daemon_buttons
    /\ UNCHANGED <<pe_pc, pe_held, pe_timer, pe_prefs, pe_win, pe_last, stores, pe_wish, pe_edits>>

\* Ctrl-C to the daemon, if it is there; it may refuse, or take its time.
daemon_stop ==
    /\ pe_pc = "loop" /\ pe_buttons.stop /\ pe_daemon' \in {pe_daemon, NoCfg} /\ update_daemon_buttons
    /\ UNCHANGED <<pe_pc, pe_held, pe_timer, pe_prefs, pe_win, pe_last, stores, pe_wish, pe_edits>>

PePoll ==
    /\ pe_pc = "loop" /\ pe_timer = "done" /\ pe_timer' = "sent"
    /\ pe_buttons' = ButtonsFor(daemon_running)
    /\ UNCHANGED <<pe_pc, pe_held, pe_prefs, pe_win, pe_last, stores, pe_daemon, pe_wish, pe_edits>>

\* Cancel, Esc, the close gadget or Ctrl-C.
PeCancel ==
    /\ pe_pc = "loop" /\ PeCleanup
    /\ UNCHANGED <<pe_prefs, pe_win, pe_last, stores, pe_daemon, pe_buttons, pe_wish, pe_edits>>

----------------------------------------------------------------------------
(* The rest of the system. *)

PollDue == /\ pe_timer = "sent" /\ pe_timer' = "done"
           /\ UNCHANGED <<pe_pc, pe_held, pe_prefs, pe_win, pe_last, stores, pe_daemon, pe_buttons,
                          pe_wish, pe_edits>>

\* The daemon is started from a shell, or ends.
DaemonComesAndGoes ==
    /\ pe_daemon' = IF daemon_running THEN NoCfg ELSE Loaded
    /\ UNCHANGED <<pe_pc, pe_held, pe_timer, pe_prefs, pe_win, pe_last, stores, pe_buttons, pe_wish, pe_edits>>

PeInit ==
    /\ pe_pc = "start" /\ pe_held = {} /\ pe_timer = "none" /\ pe_last = FALSE
    /\ pe_devs \in [text : PeTexts, dhcp : BOOLEAN, mtu : {0, MtuLow}] /\ pe_env = pe_devs
    /\ pe_newer = FALSE /\ pe_daemon \in {NoCfg, pe_devs}
    /\ pe_prefs = pe_devs /\ pe_win = pe_devs /\ pe_buttons = [start |-> FALSE, stop |-> FALSE]
    /\ pe_wish = NoCfg /\ pe_edits = 0

PeNext == \/ PeOpen \/ PeOpenFails \/ PeMode \/ after_save_use \/ PeAnswer \/ PeStart
          \/ daemon_stop \/ PePoll \/ PeCancel \/ PollDue \/ DaemonComesAndGoes
          \/ \E c \in Cfgs : PeType(c)
          \/ \E use \in BOOLEAN : PeWrite(use)

----------------------------------------------------------------------------
PeTypeOK ==
    /\ pe_pc \in {"start", "loop", "notify", "asks", "out"} /\ pe_timer \in {"none", "sent", "done"}
    /\ pe_held \subseteq Needed \cup {"icon", "timer port", "timer"}
    /\ {pe_prefs, pe_win, pe_devs, pe_env} \subseteq Cfgs /\ {pe_daemon, pe_wish} \subseteq Cfgs \cup {NoCfg}
    /\ pe_last \in BOOLEAN /\ pe_newer \in BOOLEAN /\ pe_edits \in 0 .. PeEdits
    /\ pe_buttons \in [start : BOOLEAN, stop : BOOLEAN]

\* Once a Save has written every store, a daemon that runs has loaded what the
\* window showed, whether it ran before, was started by the editor or came and
\* went meanwhile; and the editor leaves nothing behind when it ends.
SavedIsRun ==
    pe_pc = "out" => /\ pe_held = {} /\ pe_timer = "none"
                     /\ pe_wish # NoCfg /\ daemon_running => pe_daemon = pe_wish
=============================================================================
