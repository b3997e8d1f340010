--------------------------------- MODULE Ftp ---------------------------------
(***************************************************************************)
(* The ftp command (src/src/cmds/ftp.c): an interactive client with one    *)
(* control connection, whose replies are a queue that nothing numbers, and *)
(* a passive data connection per transfer.  A reply left unread (by Ctrl-C *)
(* say) is the first one the next command reads.  Replies are classes of   *)
(* codes: "pre" 1xx, "ok" 2xx, "pasv" 227, "need" 331, "err" 400 and up,   *)
(* and "none" for a failed call (-1).                                      *)
(***************************************************************************)
EXTENDS Integers, Sequences

CONSTANTS
    FtSize,     \* blocks of the file to transfer
    FtCommands, \* bound on the commands of a session
    FtBreaks    \* bound on the times the user presses Ctrl-C

\* What the constants must satisfy.
FtAssumption == FtSize \in Nat /\ FtCommands \in Nat /\ FtBreaks \in Nat

VARIABLES
    ft_pc,      \* what the client is doing; "prompt" between commands
    ft_said,    \* it has sent the command of ft_pc and waits for the reply
    ft_kind,    \* of a transfer: "get", "put" or "ls"
    ft_port,    \* the port of the last 227 reply
    ft_count,   \* blocks received, or sent
    ft_xrc,     \* how the copy ended
    ft_told,    \* the file was reported received or sent
    ft_rc,      \* TN_CMD_OK or TN_CMD_FAIL
    ft_break,   \* SIGBREAKF_CTRL_C is set
    ft_left,    \* [commands, breaks] still to come
    ft_verbs, ft_replies, \* the control connection, to and from the server
    ft_srv,     \* [port: passive port listened on or 0, last: newest port, job, what: the last job, done]
    ft_data,    \* the data connection: blocks on the way, and who has it open
    ft_lost,    \* the server is gone
    ft_missed   \* a reply of this connection has been left unread
ftvars == <<ft_pc, ft_said, ft_kind, ft_port, ft_count, ft_xrc, ft_told, ft_rc, ft_break,
            ft_left, ft_verbs, ft_replies, ft_srv, ft_data, ft_lost, ft_missed>>
ftnet == <<ft_verbs, ft_srv, ft_data, ft_lost, ft_missed>>
ftuser == <<ft_break, ft_left>>

Idles == [port |-> 0, last |-> 0, job |-> "no", what |-> "no", done |-> 0]
NoData == [up |-> 0, down |-> 0, server |-> FALSE, client |-> FALSE]
ClosedByClient == [ft_data EXCEPT !.client = FALSE, !.down = 0]

\* A socket call may fail when a break is pending or the server is gone.
MayMiss == ft_break \/ ft_lost

----------------------------------------------------------------------------
\* What follows the reply c to each command of main(): the next command, and
\* whether the exit code becomes TN_CMD_FAIL.  "none" is not >= 400.
AfterReplyTo(pc, c) ==
    CASE pc = "greet" -> IF c \in {"none", "pre"} THEN "closed" ELSE "USER"
      [] pc = "USER"  -> IF c = "need" THEN "PASS" ELSE "closed"
      [] pc = "TYPE"  -> IF c = "err" THEN "prompt" ELSE "PASV"
      [] pc = "PASV"  -> IF c = "pasv" THEN "connect" ELSE "prompt"
      [] pc = "XFER"  -> IF c # "pre" THEN "prompt" ELSE IF ft_kind = "get" THEN "create" ELSE "copy"
      [] pc = "QUIT"  -> "closed"
      [] OTHER        -> "prompt"
FailsOn(pc, c) == \/ pc # "QUIT" /\ c = "err"
                  \/ AfterReplyTo(pc, c) \in {"closed", "prompt"} /\ pc \in {"greet", "USER", "PASV", "XFER"}

\* A transfer believed whole when the closing reply alone is good.
CodeAlone(xrc, c) == c \in {"ok", "pasv"}
\* The end of get and put: the copy reached its end and the closing reply is 2xx.
Complete(xrc, c) == xrc = 0 /\ c \in {"ok", "pasv"}

\* main() goes on with the reply c: closing what the step closes.
GoOn(c) ==
    /\ IF ft_pc = "final"
       THEN /\ ft_pc' = "prompt" /\ ft_told' = (Complete(ft_xrc, c) /\ ft_kind # "ls")
            /\ ft_rc' = IF Complete(ft_xrc, c) THEN ft_rc ELSE "fail"
       ELSE /\ ft_pc' = AfterReplyTo(ft_pc, c) /\ UNCHANGED ft_told
            /\ ft_rc' = IF FailsOn(ft_pc, c) THEN "fail" ELSE ft_rc
    /\ ft_data' = IF ft_pc = "XFER" /\ c # "pre" THEN ClosedByClient ELSE ft_data
    /\ ft_said' = FALSE

\* The first half of ftp_cmd_resp: send the verb; a failed send is a "none".
Say ==
    /\ ft_pc \in {"USER", "PASS", "TYPE", "PASV", "XFER", "QUIT", "simple"} /\ ~ft_said
    /\ \/ /\ ~ft_lost /\ ft_said' = TRUE
          /\ ft_verbs' = Append(ft_verbs, IF ft_pc = "XFER" THEN ft_kind ELSE ft_pc)
          /\ UNCHANGED <<ft_pc, ft_told, ft_rc, ft_data>>
       \/ MayMiss /\ GoOn("none") /\ UNCHANGED ft_verbs
    /\ UNCHANGED <<ft_kind, ft_port, ft_count, ft_xrc, ftuser, ft_replies, ft_srv, ft_lost, ft_missed>>

\* The second half: ftp_read_line until the reply is complete.
Hear ==
    /\ ft_said \/ ft_pc \in {"greet", "final"}
    /\ \/ /\ ft_replies # <<>> /\ ft_replies' = Tail(ft_replies)
          /\ GoOn(Head(ft_replies).code)
          /\ ft_port' = IF ft_pc = "PASV" THEN Head(ft_replies).port ELSE ft_port
          /\ UNCHANGED ft_missed
       \/ (ft_break \/ (ft_lost /\ ft_replies = <<>>)) /\ GoOn("none")
          /\ ft_missed' = TRUE /\ UNCHANGED <<ft_replies, ft_port>>
    /\ UNCHANGED <<ft_kind, ft_count, ft_xrc, ftuser, ft_verbs, ft_srv, ft_lost>>

\* ftp_data_connect: only the port the server listens on answers.  For put the
\* local file is opened next, and may be missing.
ftp_data_connect ==
    /\ ft_pc = "connect" /\ UNCHANGED <<ft_said, ft_kind, ft_port, ft_xrc, ft_told, ft_replies, ftuser>>
    /\ \/ /\ ft_port # 0 /\ ft_port = ft_srv.port /\ ~ft_lost
          /\ \/ ft_pc' = "XFER" /\ UNCHANGED ft_rc
             \/ ft_kind = "put" /\ ft_pc' = "prompt" /\ ft_rc' = "fail"
          /\ ft_count' = 0 /\ ft_data' = [up |-> 0, down |-> 0, server |-> TRUE, client |-> (ft_pc' = "XFER")]
       \/ /\ ft_pc' = "prompt" /\ ft_rc' = "fail" /\ UNCHANGED <<ft_count, ft_data>>
    /\ UNCHANGED <<ft_verbs, ft_srv, ft_lost, ft_missed>>

\* get opens the local file.  When that fails it goes back to the prompt, and
\* leaves the closing reply of the transfer unread.
CreateLocal ==
    /\ ft_pc = "create"
    /\ \/ ft_pc' = "copy" /\ UNCHANGED <<ft_rc, ft_data, ft_missed>>
       \/ ft_pc' = "prompt" /\ ft_rc' = "fail" /\ ft_data' = ClosedByClient /\ ft_missed' = TRUE
    /\ UNCHANGED <<ft_said, ft_kind, ft_port, ft_count, ft_xrc, ft_told, ftuser, ft_replies, ft_verbs,
                   ft_srv, ft_lost>>

----------------------------------------------------------------------------
TransferEnds(xrc) == ft_pc' = "final" /\ ft_xrc' = xrc /\ ft_data' = ClosedByClient
\* ftp_recv_to: blocks to the file or the screen until end of file.
ftp_recv_to ==
    /\ ft_pc = "copy" /\ ft_kind \in {"get", "ls"}
    /\ \/ ft_break /\ ft_break' = FALSE /\ TransferEnds(1) /\ UNCHANGED ft_count
       \/ /\ ft_data.down > 0 /\ UNCHANGED ft_break
          /\ \/ /\ ft_data' = [ft_data EXCEPT !.down = @ - 1] /\ ft_count' = ft_count + 1
                /\ UNCHANGED <<ft_pc, ft_xrc>>
             \/ TransferEnds(-2) /\ UNCHANGED ft_count
       \/ ft_data.down = 0 /\ ~ft_data.server /\ TransferEnds(0) /\ UNCHANGED <<ft_count, ft_break>>
       \/ ft_lost /\ TransferEnds(-1) /\ UNCHANGED <<ft_count, ft_break>>
    /\ UNCHANGED <<ft_said, ft_kind, ft_port, ft_told, ft_rc, ft_left, ft_replies, ft_verbs,
                   ft_srv, ft_lost, ft_missed>>
\* The upload loop of put.
PutLoop ==
    /\ ft_pc = "copy" /\ ft_kind = "put"
    /\ \/ ft_break /\ ft_break' = FALSE /\ TransferEnds(1) /\ UNCHANGED ft_count
       \/ /\ ft_count < FtSize /\ UNCHANGED ft_break
          /\ \/ /\ ft_data' = [ft_data EXCEPT !.up = @ + 1]
                /\ ft_count' = ft_count + 1 /\ UNCHANGED <<ft_pc, ft_xrc>>
             \/ ~ft_data.server /\ TransferEnds(-1) /\ UNCHANGED ft_count
             \/ TransferEnds(-2) /\ UNCHANGED ft_count
       \/ ft_count = FtSize /\ TransferEnds(0) /\ UNCHANGED <<ft_count, ft_break>>
    /\ UNCHANGED <<ft_said, ft_kind, ft_port, ft_told, ft_rc, ft_left, ft_replies, ft_verbs,
                   ft_srv, ft_lost, ft_missed>>

----------------------------------------------------------------------------
\* The command loop at the prompt.  A break left over is consumed here (a SCRIPT
\* stops instead, which is a shorter session of this model).
Prompt ==
    /\ ft_pc \in {"prompt", "closed"} /\ ft_break /\ ft_break' = FALSE
    /\ UNCHANGED <<ft_pc, ft_said, ft_kind, ft_port, ft_count, ft_xrc, ft_told, ft_rc, ft_left,
                   ft_replies, ftnet>>
Command ==
    /\ ft_pc = "prompt" /\ ~ft_break /\ ft_left.commands > 0
    /\ ft_left' = [ft_left EXCEPT !.commands = @ - 1] /\ ft_told' = FALSE
    /\ \/ ft_pc' \in {"simple", "QUIT"} /\ UNCHANGED ft_kind
       \/ ft_pc' = "TYPE" /\ ft_kind' \in {"get", "put", "ls"}
    /\ UNCHANGED <<ft_said, ft_port, ft_count, ft_xrc, ft_rc, ft_break, ft_replies, ftnet>>
\* open: a new connection, with ftp_rx_reset; the greeting is coming.
OpenHost ==
    /\ ft_pc = "closed" /\ ~ft_break /\ ft_left.commands > 0
    /\ ft_left' = [ft_left EXCEPT !.commands = @ - 1]
    /\ \/ /\ ~ft_lost /\ ft_pc' = "greet" /\ ft_verbs' = <<>> /\ ft_srv' = Idles
          /\ \E c \in {"ok", "err"} : ft_replies' = <<[code |-> c, port |-> 0]>>
          /\ ft_missed' = FALSE
          /\ UNCHANGED ft_rc
       \/ ft_rc' = "fail" /\ UNCHANGED <<ft_pc, ft_verbs, ft_replies, ft_srv, ft_missed>>
    /\ UNCHANGED <<ft_said, ft_kind, ft_port, ft_count, ft_xrc, ft_told, ft_break, ft_data, ft_lost>>
PressCtrlC ==
    /\ ~ft_break /\ ft_left.breaks > 0 /\ ft_break' = TRUE
    /\ ft_left' = [ft_left EXCEPT !.breaks = @ - 1]
    /\ UNCHANGED <<ft_pc, ft_said, ft_kind, ft_port, ft_count, ft_xrc, ft_told, ft_rc, ft_replies, ftnet>>

----------------------------------------------------------------------------
\* The server: commands in order, one transfer at a time.
ftclient == <<ft_pc, ft_said, ft_kind, ft_port, ft_count, ft_xrc, ft_told, ft_rc, ftuser, ft_missed>>
FtpAnswers(codes) == ft_replies' = ft_replies \o [i \in DOMAIN codes |-> [code |-> codes[i], port |-> ft_srv'.port]]
ServerCommand ==
    /\ ~ft_lost /\ ft_srv.job = "no" /\ ft_verbs # <<>> /\ ft_verbs' = Tail(ft_verbs)
    /\ LET v == Head(ft_verbs) IN
       \/ /\ v \in {"get", "put", "ls"}
          /\ \/ /\ ft_srv.port # 0 /\ ft_data.server
                /\ ft_srv' = [ft_srv EXCEPT !.port = 0, !.job = v, !.what = v, !.done = 0] /\ FtpAnswers(<<"pre">>)
             \/ \E a \in {<<"err">>, <<"pre", "err">>} :
                   ft_srv' = [ft_srv EXCEPT !.port = 0] /\ FtpAnswers(a)
       \/ /\ v = "PASV"
          /\ ft_srv' = [ft_srv EXCEPT !.port = ft_srv.last + 1, !.last = @ + 1] /\ FtpAnswers(<<"pasv">>)
       \/ /\ v \notin {"get", "put", "ls"} /\ UNCHANGED ft_srv
          /\ \E c \in {"ok", "err"} \cup (IF v = "USER" THEN {"need"} ELSE {}) : FtpAnswers(<<c>>)
    /\ ft_data' = IF Head(ft_verbs) \in {"get", "put", "ls"} /\ ft_srv'.job = "no"
                  THEN [ft_data EXCEPT !.server = FALSE] ELSE ft_data
    /\ UNCHANGED <<ftclient, ft_lost>>
ServerCopies ==
    /\ ~ft_lost /\ ft_srv.job # "no"
    /\ IF ft_srv.job = "put"
       THEN ft_data.up > 0 /\ ft_data' = [ft_data EXCEPT !.up = @ - 1]
       ELSE /\ ft_srv.done < FtSize
            /\ ft_data' = [ft_data EXCEPT !.down = IF ft_data.client THEN @ + 1 ELSE 0]
    /\ ft_srv' = [ft_srv EXCEPT !.done = @ + 1]
    /\ UNCHANGED <<ftclient, ft_replies, ft_verbs, ft_lost>>
\* It ends the transfer, well or (at any time) with an error.
ServerEnds ==
    /\ ~ft_lost /\ ft_srv.job # "no"
    /\ ft_srv' = [ft_srv EXCEPT !.job = "no"] /\ ft_data' = [ft_data EXCEPT !.server = FALSE]
    /\ \/ /\ IF ft_srv.job = "put" THEN ft_data.up = 0 /\ ~ft_data.client ELSE ft_srv.done = FtSize
          /\ FtpAnswers(<<"ok">>)
       \/ FtpAnswers(<<"err">>)
    /\ UNCHANGED <<ftclient, ft_verbs, ft_lost>>
ServerGone ==
    /\ ~ft_lost /\ ft_lost' = TRUE /\ ft_verbs' = <<>>
    /\ ft_srv' = [ft_srv EXCEPT !.job = "no", !.port = 0] /\ ft_data' = [ft_data EXCEPT !.server = FALSE]
    /\ UNCHANGED <<ftclient, ft_replies>>

FtInit ==
    /\ ft_pc = "closed" /\ ft_said = FALSE /\ ft_kind = "get" /\ ft_port = 0 /\ ft_count = 0
    /\ ft_xrc = 0 /\ ft_told = FALSE /\ ft_rc = "ok" /\ ft_break = FALSE
    /\ ft_left = [commands |-> FtCommands, breaks |-> FtBreaks]
    /\ ft_verbs = <<>> /\ ft_replies = <<>> /\ ft_srv = Idles /\ ft_data = NoData /\ ft_lost = FALSE
    /\ ft_missed = FALSE

FtNext == Say \/ Hear \/ ftp_data_connect \/ CreateLocal \/ ftp_recv_to \/ PutLoop \/ Prompt \/ Command
          \/ OpenHost \/ PressCtrlC \/ ServerCommand \/ ServerCopies \/ ServerEnds \/ ServerGone

----------------------------------------------------------------------------
FtTypeOK ==
    /\ ft_pc \in {"closed", "prompt", "greet", "USER", "PASS", "simple", "TYPE", "PASV", "connect",
                  "XFER", "create", "copy", "final", "QUIT"}
    /\ ft_xrc \in {0, 1, -1, -2} /\ ft_count \in 0 .. FtSize /\ ft_data.up \in 0 .. FtSize /\ ft_data.down \in 0 .. FtSize

\* A file reported "received" or "sent" went over whole: though a break, or a
\* local file that cannot be created, left replies of an earlier command unread,
\* so that later commands read each other's, though the server ends the data
\* connection early (which looks like the end of the file) and though it goes
\* away.  On a connection of which no
\* reply was left unread it is also the transfer that was asked for.
FtReportTrue ==
    ft_told => /\ ~ft_missed => ft_srv.what = ft_kind
               /\ FtSize = (IF ft_kind = "get" THEN ft_count ELSE ft_srv.done)
=============================================================================
