------------------------------- MODULE Telnet --------------------------------
(***************************************************************************)
(* The telnet command (src/src/cmds/telnet.c): a byte-wise parser that     *)
(* takes commands out of what the server sends, option negotiation that    *)
(* answers changes only, and the conversion of what is typed.  recv() may  *)
(* cut the stream anywhere, in the middle of a command too.  The server is *)
(* external: it follows the negotiation rules of RFC 1143.                 *)
(***************************************************************************)
EXTENDS Integers, Sequences
LOCAL INSTANCE SequencesExt

CONSTANTS
    TlKeys,    \* bytes a Read() of standard input may hold
    TlTyped,   \* bound on the bytes typed
    TlSends,   \* bound on what the server sends of its own accord
    TlDrain    \* iterations after the end of input: 10

\* What the constants must satisfy.
TlAssumption == TlTyped \in Nat /\ TlSends \in Nat /\ TlDrain \in Nat

VARIABLES
    tl_run,    \* "run" or "out"
    tl_parse,  \* [st: tn_state, cmd: pending_cmd, him: tn_him, shown: bytes written]
    tl_wire,   \* bytes on the way from the server
    tl_meant,  \* what the server meant to be shown
    tl_cmds,   \* option commands on the way to the server
    tl_us,     \* the server's side of each option
    tl_typed, tl_text, \* bytes typed, and what was sent for them
    tl_cut,    \* history: where a LF came in the buffer after its CR's
    tl_eof,    \* stdin_eof
    tl_idle,   \* idle
    tl_sends   \* what the server has sent of its own accord
tlvars == <<tl_run, tl_parse, tl_wire, tl_meant, tl_cmds, tl_us, tl_typed, tl_text,
            tl_cut, tl_eof, tl_idle, tl_sends>>
tlserver == <<tl_meant, tl_us, tl_sends>>

TlOptions == {"echo", "other"}
Verbs == {"WILL", "WONT", "DO", "DONT"}
tn_want_him(opt) == opt = "echo"   \* OPT_ECHO and OPT_SGA

----------------------------------------------------------------------------
\* tn_handle_opt: s is [parse, out]; each change of state is answered once.
SayOpt(s, verb, opt) == [s EXCEPT !.out = Append(@, <<verb, opt>>)]
SetHim(s, opt, v) == [s EXCEPT !.him[opt] = v]
RefusalIgnored(s, verb, opt) ==
    IF verb = "WILL" /\ s.him[opt] # "yes" THEN SetHim(s, opt, "yes") ELSE s
tn_handle_opt(s, verb, opt) ==
    CASE verb = "WILL" /\ s.him[opt] = "wantyes" -> SetHim(s, opt, "yes")
      [] verb = "WILL" /\ s.him[opt] = "no" ->
            IF tn_want_him(opt) THEN SayOpt(SetHim(s, opt, "yes"), "DO", opt)
            ELSE SayOpt(s, "DONT", opt)
      [] verb = "WONT" /\ s.him[opt] = "yes" -> SayOpt(SetHim(s, opt, "no"), "DONT", opt)
      [] verb = "WONT" /\ s.him[opt] = "wantyes" -> SetHim(s, opt, "no")
      [] verb = "DO" -> SayOpt(s, "WONT", opt)
      [] OTHER -> s

\* One byte through the switch of main().
To(s, st) == [s EXCEPT !.st = st]
Show(s, b) == [s EXCEPT !.shown = Append(@, b)]
ParseByte(s, b) ==
    CASE s.st = "data"  -> IF b = "IAC" THEN To(s, "iac") ELSE Show(s, b)
      [] s.st = "iac"   -> IF b = "IAC" THEN To(Show(s, b), "data")
                           ELSE IF b = "SB" THEN To(s, "sb")
                           ELSE IF b \in Verbs THEN [To(s, "opt") EXCEPT !.cmd = b]
                           ELSE To(s, "data")
      [] s.st = "opt"   -> To(tn_handle_opt(s, s.cmd, b), "data")
      [] s.st = "sb"    -> IF b = "IAC" THEN To(s, "sbiac") ELSE s
      [] s.st = "sbiac" -> To(s, IF b = "SE" THEN "data" ELSE "sb")

\* tn_to_nvt over one buffer: a LF not preceded, in this buffer, by a CR gets
\* one; IAC is doubled.
Nvt(in, i) == CASE in[i] = "LF" /\ (i = 1 \/ in[i - 1] # "CR") -> <<"CR", "LF">>
                [] in[i] = "IAC" -> <<"IAC", "IAC">>
                [] OTHER -> <<in[i]>>
tn_to_nvt(in) == FlattenSeq([i \in DOMAIN in |-> Nvt(in, i)])

----------------------------------------------------------------------------
\* The receive half of an iteration: n bytes through the parser, whose state
\* outlives the buffer; the answers go out at once.
ReceiveAfresh(n) ==
    LET s == FoldLeft(ParseByte, [To(tl_parse, "data") EXCEPT !.out = <<>>], SubSeq(tl_wire, 1, n))
    IN  /\ tl_parse' = [s EXCEPT !.out = <<>>]
        /\ tl_cmds' = tl_cmds \o s.out
        /\ tl_wire' = SubSeq(tl_wire, n + 1, Len(tl_wire))
Receive(n) ==
    LET s == FoldLeft(ParseByte, tl_parse, SubSeq(tl_wire, 1, n))
    IN  /\ tl_parse' = [s EXCEPT !.out = <<>>]
        /\ tl_cmds' = tl_cmds \o s.out
        /\ tl_wire' = SubSeq(tl_wire, n + 1, Len(tl_wire))

\* The input half: a buffer of what is typed, the end of input (the socket is
\* half closed), or one iteration of the drain.
TypeKeys(in) ==
    /\ ~tl_eof /\ Len(tl_typed) + Len(in) <= TlTyped
    /\ tl_typed' = tl_typed \o in /\ tl_text' = tl_text \o tn_to_nvt(in)
    /\ tl_cut' = tl_cut \cup { i \in {Len(tl_typed) + 1} :
                                in # <<>> /\ tl_typed # <<>> /\ Last(tl_typed) = "CR" /\ in[1] = "LF" }
    /\ tl_idle' = 0 /\ UNCHANGED <<tl_run, tl_eof>>
EndOfInput ==
    /\ ~tl_eof /\ tl_eof' = TRUE
    /\ UNCHANGED <<tl_run, tl_typed, tl_text, tl_cut, tl_idle>>
DrainOnce ==
    /\ tl_eof /\ tl_idle' = tl_idle + 1
    /\ tl_run' = IF tl_idle' >= TlDrain THEN "out" ELSE tl_run
    /\ UNCHANGED <<tl_eof, tl_typed, tl_text, tl_cut>>

\* One iteration of the loop of main(): what has arrived (nothing, if
\* WaitSelect() ran out), then the input; an interactive one may have none.
TlIterate ==
    /\ tl_run = "run"
    /\ \E n \in 0..Len(tl_wire) : Receive(n)
    /\ \/ \E k \in 0..2 : \E in \in [1..k -> TlKeys] : TypeKeys(in)
       \/ EndOfInput
       \/ DrainOnce
    /\ UNCHANGED tlserver

\* recv() returns 0 or fails, or the user presses Ctrl-C.
TlLeave ==
    /\ tl_run = "run" /\ tl_run' = "out"
    /\ UNCHANGED <<tl_parse, tl_wire, tl_cmds, tl_typed, tl_text, tl_cut, tl_eof, tl_idle, tlserver>>

----------------------------------------------------------------------------
\* The server speaks: text, a doubled IAC, a subnegotiation with an escaped
\* IAC in it, a command without an option; or it asks something of the client.
Units == { [wire |-> <<"x">>, meant |-> <<"x">>],
           [wire |-> <<"IAC", "IAC">>, meant |-> <<"IAC">>],
           [wire |-> <<"IAC", "SB", "x", "IAC", "IAC", "IAC", "SE">>, meant |-> <<>>],
           [wire |-> <<"IAC", "NOP">>, meant |-> <<>>],
           [wire |-> <<"IAC", "DO", "other">>, meant |-> <<>>] }
ServerSays ==
    /\ tl_sends < TlSends /\ tl_sends' = tl_sends + 1
    /\ \E u \in Units : tl_wire' = tl_wire \o u.wire /\ tl_meant' = tl_meant \o u.meant
    /\ UNCHANGED <<tl_run, tl_parse, tl_cmds, tl_us, tl_typed, tl_text, tl_cut, tl_eof, tl_idle>>

\* It changes an option of its own, and waits for the answer.
ServerChanges(opt) ==
    /\ tl_sends < TlSends /\ tl_sends' = tl_sends + 1
    /\ \/ tl_us[opt] = "off" /\ tl_us' = [tl_us EXCEPT ![opt] = "wanton"]
          /\ tl_wire' = tl_wire \o <<"IAC", "WILL", opt>>
       \/ tl_us[opt] = "on" /\ tl_us' = [tl_us EXCEPT ![opt] = "wantoff"]
          /\ tl_wire' = tl_wire \o <<"IAC", "WONT", opt>>
    /\ UNCHANGED <<tl_run, tl_parse, tl_meant, tl_cmds, tl_typed, tl_text, tl_cut, tl_eof, tl_idle>>

\* It reads a command of the client: a request is granted or refused, an
\* answer closes what it began, a repetition is ignored.
ServerHears ==
    /\ tl_cmds # <<>> /\ tl_cmds' = Tail(tl_cmds)
    /\ LET verb == Head(tl_cmds)[1]  opt == Head(tl_cmds)[2]  us == tl_us[opt]
           Answer(state, bytes) == tl_us' = [tl_us EXCEPT ![opt] = state] /\ tl_wire' = tl_wire \o bytes
       IN  \/ verb = "DO" /\ us = "off" /\ Answer("on", <<"IAC", "WILL", opt>>)
           \/ verb = "DO" /\ us = "off" /\ Answer("off", <<"IAC", "WONT", opt>>)
           \/ verb = "DO" /\ us = "wanton" /\ Answer("on", <<>>)
           \/ verb = "DONT" /\ us = "on" /\ Answer("off", <<"IAC", "WONT", opt>>)
           \/ verb = "DONT" /\ us \in {"wanton", "wantoff"} /\ Answer("off", <<>>)
           \/ verb = "WONT" /\ Answer(us, <<>>)
           \/ verb = "DO" /\ us \in {"on", "wantoff"} /\ Answer(us, <<>>)
           \/ verb = "DONT" /\ us = "off" /\ Answer(us, <<>>)
    /\ UNCHANGED <<tl_run, tl_parse, tl_meant, tl_typed, tl_text, tl_cut, tl_eof, tl_idle, tl_sends>>

\* Connected: the client has asked the server to echo.
TlInit ==
    /\ tl_run = "run" /\ tl_wire = <<>> /\ tl_meant = <<>> /\ tl_sends = 0
    /\ tl_parse = [st |-> "data", cmd |-> "none", shown |-> <<>>, out |-> <<>>,
                   him |-> [o \in TlOptions |-> IF tn_want_him(o) THEN "wantyes" ELSE "no"]]
    /\ tl_cmds = <<<<"DO", "echo">>>> /\ tl_us = [o \in TlOptions |-> "off"]
    /\ tl_typed = <<>> /\ tl_text = <<>> /\ tl_cut = {} /\ tl_eof = FALSE /\ tl_idle = 0
TlNext == TlIterate \/ TlLeave \/ ServerSays \/ ServerHears \/ \E o \in TlOptions : ServerChanges(o)

----------------------------------------------------------------------------
TlTypeOK ==
    /\ tl_run \in {"run", "out"} /\ tl_eof \in BOOLEAN /\ tl_idle \in 0..TlDrain
    /\ tl_parse.st \in {"data", "iac", "opt", "sb", "sbiac"}
    /\ tl_parse.him \in [TlOptions -> {"no", "yes", "wantyes"}]
    /\ tl_us \in [TlOptions -> {"off", "on", "wanton", "wantoff"}]
    /\ tl_cmds \in Seq(Verbs \X TlOptions) /\ tl_sends \in 0..TlSends

\* However recv() cuts the stream, the console shows the server's text and
\* nothing else, and once both directions are empty the two sides agree on
\* every option, the crossing of a request with its own offer included; what
\* was typed has left as if it had been read in one buffer, except that a line
\* end whose CR and LF come in two buffers leaves with a second CR.
TelnetExact ==
    /\ IsPrefix(tl_parse.shown, tl_meant)
    /\ tl_wire = <<>> => tl_parse.shown = tl_meant /\ tl_parse.st = "data"
    /\ tl_wire = <<>> /\ tl_cmds = <<>> =>
          \A o \in TlOptions : (tl_us[o] = "on") <=> (tl_parse.him[o] = "yes")
    /\ tl_text = FlattenSeq([i \in DOMAIN tl_typed |->
                             IF i \in tl_cut THEN <<"CR", "LF">> ELSE Nvt(tl_typed, i)])
=============================================================================
