------------------------------- MODULE Wizard -------------------------------
(***************************************************************************)
(* The setup wizard (src/src/cmds/TolunnetSetup.c, src/src/setup/          *)
(* setup_rexx.c, wifi_mgr.c): five pages whose string gadgets are copies   *)
(* of the wizard state g_ws, copied back by a sync before each rebuild; a  *)
(* passphrase that is shown as stars; a sibling Advanced window; and an    *)
(* ARexx port that moves the same state.  Finish writes Wireless.prefs and *)
(* the configuration.  One field stands for the address fields: "" empty,  *)
(* "bad" or "ok".                                                          *)
(***************************************************************************)
EXTENDS Integers, Sequences

CONSTANTS
    WzNets,  \* the networks a scan finds, strongest first; "Unknown AP" is a hidden one
    WzEdits, \* bound on what the user types
    WzMsgs   \* bound on the ARexx messages

\* What the constants must satisfy.
WzAssumption == WzNets \in Seq(STRING) /\ WzEdits \in Nat /\ WzMsgs \in Nat

VARIABLES
    ws,       \* the wizard state g_ws
    wz_gad,   \* the page's gadgets: [page, ssid, pass, masked, manual, addr]
    wz_lock,  \* the Advanced window is open: the Next and the Back button are disabled
    wz_adv,   \* the Advanced window's checkbox, "no" when it is not open
    wz_run,   \* "yes", "drain" (stopped, with window messages left), "rexx", "out"
    wz_rexx,  \* [sent, port: messages waiting, parked: a FINISH, done, cancel, replied, used]
    wz_left,  \* edits still to come
    wz_wish,  \* what the user last typed, picked or set
    wz_prefs, wz_config, \* what the files say
    wz_finishes          \* how often Finish was applied, up to 2
wzvars == <<ws, wz_gad, wz_lock, wz_adv, wz_run, wz_rexx, wz_left, wz_wish, wz_prefs, wz_config,
            wz_finishes>>
wzfiles == <<wz_prefs, wz_config, wz_finishes>>

PageHw == 1
PageWifi == 2
PageAddress == 3
PageTest == 4
EmptyText == ""
HiddenAp == "Unknown AP"   \* what the list shows for a network without a name
NoWish == [ssid |-> EmptyText, pass |-> EmptyText, addr |-> EmptyText, adv |-> FALSE]

----------------------------------------------------------------------------
\* A sync that trusts the buffer of a masked passphrase gadget.
SyncStars(w, g) ==
    CASE g.page = PageWifi ->
           [w EXCEPT !.pass = g.pass, !.ssid = IF g.ssid # w.shown THEN g.ssid ELSE @,
                     !.shown = IF g.ssid # w.shown THEN g.ssid ELSE @]
      [] g.page = PageAddress /\ g.manual -> [w EXCEPT !.addr = g.addr]
      [] OTHER -> w
\* The gadgets to the state: the passphrase only from a gadget built unmasked,
\* the SSID only when it was edited since the gadget was built or synced.
sync_page_gadgets_to_state(w, g) ==
    CASE g.page = PageWifi ->
           [w EXCEPT !.pass = IF g.masked THEN @ ELSE g.pass,
                     !.ssid = IF g.ssid # w.shown THEN g.ssid ELSE @,
                     !.shown = IF g.ssid # w.shown THEN g.ssid ELSE @]
      [] g.page = PageAddress /\ g.manual -> [w EXCEPT !.addr = g.addr]
      [] OTHER -> w
Synced(w) == sync_page_gadgets_to_state(w, wz_gad)

\* rebuild_page_gadgets: syncs the old page, then builds the gadgets of the
\* current one; an empty SSID field is filled with the selected network.
Filled(w) == IF w.page = PageWifi /\ w.ssid = EmptyText /\ w.sel \in DOMAIN w.nets
             THEN [w EXCEPT !.ssid = w.nets[w.sel], !.shown = w.nets[w.sel]]
             ELSE [w EXCEPT !.shown = IF w.page = PageWifi THEN w.ssid ELSE @]
GadgetsOf(w) == [page |-> w.page, ssid |-> w.ssid, pass |-> IF w.show THEN w.pass ELSE "*",
                 masked |-> ~w.show, manual |-> w.mode = 1, addr |-> w.addr]
rebuild_page_gadgets(w) ==
    /\ ws' = Filled(Synced(w)) /\ wz_gad' = GadgetsOf(ws')
    /\ wz_lock' = [wz_lock EXCEPT !.back = (w.page = 0)]   \* update_nav_buttons

\* tn_build_wireless_prefs: the SSID field, else the selected network; a hidden
\* network's placeholder and a bad passphrase are refused, and an empty
\* passphrase makes the block of an open network.
Ssid(w) == IF w.ssid = EmptyText /\ w.sel \in DOMAIN w.nets THEN w.nets[w.sel] ELSE w.ssid
Writable(w) == Ssid(w) \notin {EmptyText, HiddenAp} /\ w.pass # "bad"
tn_wifi_write_prefs_multi(w) ==
    wz_prefs' = IF Writable(w) THEN [ssid |-> Ssid(w), pass |-> w.pass] ELSE wz_prefs

\* validate_address_page: in manual mode every address field must be valid.
validate_address_page(w) == w.mode = 1 => w.addr = "ok"

\* apply_wizard_finish: sync, the wireless preferences, the configuration, and
\* the passphrase wiped.
apply_wizard_finish(w) ==
    LET f == Synced(w) IN
    /\ IF f.wireless THEN tn_wifi_write_prefs_multi(f) ELSE UNCHANGED wz_prefs
    /\ wz_config' = [mode |-> f.mode, addr |-> f.addr, adv |-> f.adv]
    /\ wz_finishes' = IF wz_finishes = 2 THEN 2 ELSE wz_finishes + 1
    /\ ws' = [f EXCEPT !.pass = EmptyText]

----------------------------------------------------------------------------
\* The user types, into the gadgets of the page that is up.
Types ==
    /\ wz_run = "yes" /\ wz_left > 0 /\ wz_left' = wz_left - 1
    /\ \/ \E s \in {"own"} :
             /\ wz_gad.page = PageWifi /\ wz_gad' = [wz_gad EXCEPT !.ssid = s]
             /\ wz_wish' = [wz_wish EXCEPT !.ssid = s] /\ UNCHANGED ws
       \/ \E p \in {"bad", "word"} :   \* pass_edit_hook_fn keeps the real text
             /\ wz_gad.page = PageWifi /\ wz_wish' = [wz_wish EXCEPT !.pass = p]
             /\ IF wz_gad.masked
                THEN ws' = [ws EXCEPT !.pass = p] /\ UNCHANGED wz_gad
                ELSE wz_gad' = [wz_gad EXCEPT !.pass = p] /\ UNCHANGED ws
       \/ \E a \in {"bad", "ok"} :
             /\ wz_gad.page = PageAddress /\ wz_gad.manual
             /\ wz_gad' = [wz_gad EXCEPT !.addr = a]
             /\ wz_wish' = [wz_wish EXCEPT !.addr = a] /\ UNCHANGED ws
    /\ UNCHANGED <<wz_lock, wz_adv, wz_run, wz_rexx, wzfiles>>

\* GADGETUP of a page gadget.
Rebuilt(w) == rebuild_page_gadgets(w) /\ UNCHANGED <<wz_adv, wz_run, wz_rexx, wz_left, wzfiles>>
ShowPass ==
    /\ wz_run = "yes" /\ wz_gad.page = PageWifi
    /\ Rebuilt([Synced(ws) EXCEPT !.show = ~@]) /\ UNCHANGED wz_wish
PickNet ==
    /\ wz_run = "yes" /\ wz_gad.page = PageWifi
    /\ \E i \in DOMAIN ws.nets :
         LET s == IF ws.nets[i] = HiddenAp THEN EmptyText ELSE ws.nets[i] IN
         /\ Rebuilt([Synced(ws) EXCEPT !.sel = i, !.ssid = s])
         /\ wz_wish' = [wz_wish EXCEPT !.ssid = s]
tn_wifi_scan ==
    /\ wz_run = "yes" /\ wz_gad.page = PageWifi /\ ws.wireless
    /\ Rebuilt([ws EXCEPT !.nets = WzNets, !.sel = 1]) /\ UNCHANGED wz_wish
SetMode ==
    /\ wz_run = "yes" /\ wz_gad.page = PageAddress
    /\ \E m \in {0, 1} : Rebuilt([ws EXCEPT !.mode = m]) /\ UNCHANGED wz_wish
SelectHw ==
    /\ wz_run = "yes" /\ wz_gad.page = PageHw
    /\ \E w \in BOOLEAN : Rebuilt([ws EXCEPT !.wireless = w]) /\ UNCHANGED wz_wish
RunTests ==
    /\ wz_run = "yes" /\ wz_gad.page = PageTest
    /\ \E b \in BOOLEAN : Rebuilt([ws EXCEPT !.passed = b]) /\ UNCHANGED wz_wish

----------------------------------------------------------------------------
Onwards(w) == IF w.page = PageWifi - 1 /\ ~w.wireless THEN PageAddress ELSE w.page + 1
Backwards(w) == IF w.page = PageWifi + 1 /\ ~w.wireless THEN PageHw ELSE w.page - 1

\* advance_next_page, which leaves the WiFi page only when the preferences were
\* written and the adapter associated, and the Address page when it is valid;
\* on the last page it is Finish.
advance_next_page ==
    LET s == Synced(ws) IN
    /\ \/ /\ s.page = PageWifi /\ s.wireless
          /\ IF s.ssid = EmptyText THEN UNCHANGED wz_prefs ELSE tn_wifi_write_prefs_multi(s)
          /\ \/ s.ssid # EmptyText /\ Writable(s) /\ rebuild_page_gadgets([s EXCEPT !.page = PageAddress])
             \/ ws' = s /\ UNCHANGED <<wz_gad, wz_lock>>
          /\ UNCHANGED <<wz_config, wz_finishes, wz_rexx, wz_run>>
       \/ /\ s.page = PageAddress /\ ~validate_address_page(s)
          /\ ws' = s /\ UNCHANGED <<wz_gad, wz_lock, wzfiles, wz_rexx, wz_run>>
       \/ /\ s.page < PageTest /\ ~wz_rexx.done
          /\ ~(s.page = PageWifi /\ s.wireless) /\ (s.page = PageAddress => validate_address_page(s))
          /\ rebuild_page_gadgets([s EXCEPT !.page = Onwards(s)])
          /\ UNCHANGED <<wzfiles, wz_rexx, wz_run>>
       \/ /\ s.page = PageTest \/ wz_rexx.done
          /\ apply_wizard_finish(s) /\ wz_rexx' = [wz_rexx EXCEPT !.done = TRUE]
          /\ wz_run' = "drain" /\ UNCHANGED <<wz_gad, wz_lock>>
    /\ UNCHANGED <<wz_adv, wz_left, wz_wish>>

\* The Next button, and RETURN, which the Advanced window does not lock and
\* which runs the tests again on the last page until they have passed.
NextOrReturn ==
    /\ wz_run \in {"yes", "drain"}
    /\ ~wz_lock.next \/ ws.page # PageTest \/ ws.passed
    /\ advance_next_page
retreat_back_page ==
    /\ wz_run = "yes" /\ ~wz_lock.back /\ ws.page > 0
    /\ Rebuilt([Synced(ws) EXCEPT !.page = Backwards(ws)]) /\ UNCHANGED wz_wish

\* Close gadget, Cancel button or ESC: the loop ends, but only after the window
\* messages that are already queued; of those the model keeps Next and RETURN,
\* which write.
Stop == /\ wz_run = "yes" /\ wz_run' = "drain"
        /\ UNCHANGED <<ws, wz_gad, wz_lock, wz_adv, wz_rexx, wz_left, wz_wish, wzfiles>>

----------------------------------------------------------------------------
\* The Advanced window: its values reach the state only with OK.
open_advanced_window ==
    /\ wz_run = "yes" /\ wz_gad.page = PageAddress /\ wz_adv = "no"
    /\ wz_adv' = IF ws.adv THEN "set" ELSE "clear"
    /\ wz_lock' = [next |-> TRUE, back |-> TRUE]
    /\ UNCHANGED <<ws, wz_gad, wz_run, wz_rexx, wz_left, wz_wish, wzfiles>>
AdvancedCheckbox ==
    /\ wz_run = "yes" /\ wz_adv # "no" /\ wz_adv' = IF wz_adv = "set" THEN "clear" ELSE "set"
    /\ UNCHANGED <<ws, wz_gad, wz_lock, wz_run, wz_rexx, wz_left, wz_wish, wzfiles>>
close_advanced_window ==
    /\ wz_run = "yes" /\ wz_adv # "no" /\ wz_adv' = "no"
    /\ wz_lock' = [next |-> FALSE, back |-> ws.page = 0]
    /\ \/ /\ ws' = [ws EXCEPT !.adv = (wz_adv = "set")]
          /\ wz_wish' = [wz_wish EXCEPT !.adv = (wz_adv = "set")]
       \/ UNCHANGED <<ws, wz_wish>>
    /\ UNCHANGED <<wz_gad, wz_run, wz_rexx, wz_left, wzfiles>>

----------------------------------------------------------------------------
\* A script sends a message; tn_setup_rexx_process takes all there are.
RexxSend ==
    /\ wz_run = "yes" /\ wz_rexx.sent < WzMsgs
    /\ wz_rexx' = [wz_rexx EXCEPT !.sent = @ + 1, !.port = @ + 1]
    /\ UNCHANGED <<ws, wz_gad, wz_lock, wz_adv, wz_run, wz_left, wz_wish, wzfiles>>
RexxMoves(w) ==
    /\ rebuild_page_gadgets(w) /\ UNCHANGED wz_wish
    /\ wz_rexx' = [wz_rexx EXCEPT !.port = @ - 1, !.replied = @ + 1, !.used = TRUE]
tn_setup_rexx_process ==
    /\ wz_run \in {"yes", "rexx"} /\ wz_rexx.port > 0 /\ wz_run' = "rexx"
    /\ \/ RexxMoves([ws EXCEPT !.page = IF @ < PageTest THEN Onwards(ws) ELSE @])
       \/ RexxMoves([ws EXCEPT !.page = IF @ > 0 THEN Backwards(ws) ELSE @])
       \/ \E n \in 0 .. PageTest : RexxMoves([ws EXCEPT !.page = n])
       \/ \E m \in {0, 1} : RexxMoves([ws EXCEPT !.mode = m])
       \/ \E i \in DOMAIN ws.nets :   \* SELECT; an edit not yet synced wins over it
             /\ ws.page = PageWifi /\ rebuild_page_gadgets([ws EXCEPT !.sel = i, !.ssid = ws.nets[i]])
             /\ wz_wish' = IF wz_gad.ssid # ws.shown THEN wz_wish
                           ELSE [wz_wish EXCEPT !.ssid = ws.nets[i]]
             /\ wz_rexx' = [wz_rexx EXCEPT !.port = @ - 1, !.replied = @ + 1, !.used = TRUE]
       \/ /\ wz_rexx' = IF wz_rexx.parked THEN [wz_rexx EXCEPT !.port = @ - 1, !.replied = @ + 1]
                        ELSE [wz_rexx EXCEPT !.port = @ - 1, !.parked = TRUE, !.done = TRUE, !.used = TRUE]
          /\ UNCHANGED <<ws, wz_gad, wz_lock, wz_wish>>
       \/ /\ wz_rexx' = [wz_rexx EXCEPT !.port = @ - 1, !.replied = @ + 1, !.cancel = TRUE]
          /\ UNCHANGED <<ws, wz_gad, wz_lock, wz_wish>>
    /\ UNCHANGED <<wz_adv, wz_left, wzfiles>>

\* The end of the program: a FINISH that is still parked and the messages still
\* on the port are answered.
Answered == [wz_rexx EXCEPT !.replied = @ + wz_rexx.port + (IF wz_rexx.parked THEN 1 ELSE 0),
                            !.port = 0, !.parked = FALSE]
\* After the ARexx messages: Finish, the end, or back to the loop.
RexxDone ==
    /\ wz_run = "rexx" /\ UNCHANGED <<wz_gad, wz_lock, wz_left, wz_wish>>
    /\ \/ /\ wz_rexx.done /\ apply_wizard_finish(ws)
          /\ wz_run' = "out" /\ wz_rexx' = Answered /\ wz_adv' = "no"
       \/ /\ ~wz_rexx.done /\ wz_rexx.cancel /\ wz_run' = "out" /\ wz_rexx' = Answered /\ wz_adv' = "no"
          /\ UNCHANGED <<ws, wzfiles>>
       \/ /\ ~wz_rexx.done /\ ~wz_rexx.cancel /\ wz_rexx.port = 0 /\ wz_run' = "yes"
          /\ UNCHANGED <<ws, wz_rexx, wz_adv, wzfiles>>
\* The window messages are used up, or Ctrl-C.
Quit ==
    /\ wz_run \in {"yes", "drain"} /\ wz_run' = "out" /\ wz_rexx' = Answered /\ wz_adv' = "no"
    /\ UNCHANGED <<ws, wz_gad, wz_lock, wz_left, wz_wish, wzfiles>>

WzInit ==
    /\ ws = [page |-> 0, ssid |-> EmptyText, shown |-> EmptyText, pass |-> EmptyText, show |-> FALSE, sel |-> 1,
             nets |-> <<>>, mode |-> 0, addr |-> EmptyText, wireless |-> TRUE, passed |-> FALSE, adv |-> FALSE]
    /\ wz_gad = GadgetsOf(ws) /\ wz_lock = [next |-> FALSE, back |-> TRUE] /\ wz_adv = "no"
    /\ wz_run = "yes" /\ wz_left = WzEdits /\ wz_wish = NoWish /\ wz_finishes = 0
    /\ wz_rexx = [port |-> 0, parked |-> FALSE, done |-> FALSE, cancel |-> FALSE, replied |-> 0,
                  sent |-> 0, used |-> FALSE]
    /\ wz_prefs = [ssid |-> EmptyText, pass |-> EmptyText] /\ wz_config = [mode |-> 0, addr |-> EmptyText, adv |-> FALSE]

WzNext == \/ Types \/ ShowPass \/ PickNet \/ tn_wifi_scan \/ SetMode \/ SelectHw \/ RunTests
          \/ NextOrReturn \/ retreat_back_page \/ Stop \/ open_advanced_window \/ AdvancedCheckbox
          \/ close_advanced_window \/ RexxSend \/ tn_setup_rexx_process \/ RexxDone \/ Quit

----------------------------------------------------------------------------
WzTypeOK == /\ ws.page \in 0 .. PageTest /\ wz_run \in {"yes", "drain", "rexx", "out"}
            /\ wz_finishes \in 0 .. 2 /\ wz_left \in 0 .. WzEdits

\* The first Finish writes what the user last typed, picked and kept: the
\* network and passphrase of a wireless adapter (when both are usable), the
\* addresses and the Advanced setting, through every order of edits, list
\* picks, Show toggles, page changes and ARexx commands.  The manual address of
\* a Finish that no ARexx command had a part in has been validated; and when the
\* program ends every ARexx message has been answered, once.
FinishWrites ==
    /\ wz_run' = "out" => wz_rexx'.replied = wz_rexx'.sent
    /\ wz_finishes = 0 /\ wz_finishes' = 1 =>
         /\ ws.wireless /\ wz_wish.ssid \notin {EmptyText, HiddenAp} /\ wz_wish.pass # "bad"
              => wz_prefs' = [ssid |-> wz_wish.ssid, pass |-> wz_wish.pass]
         /\ wz_config'.addr = wz_wish.addr /\ wz_config'.adv = wz_wish.adv
         /\ ~wz_rexx.used /\ wz_config'.mode = 1 => wz_config'.addr = "ok"

WishWritten == [][FinishWrites]_wzvars
=============================================================================
