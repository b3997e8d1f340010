----------------------------- MODULE StackSwap -----------------------------
(***************************************************************************)
(* Replacing another TCP/IP stack and undoing it: what Finish in           *)
(* TolunnetSetup does to S:User-Startup, LIBS:bsdsocket.library and the    *)
(* WBStartup icon, step by step, with steps that fail and power cuts       *)
(* between any two of them.  src/setup/stack_detect.c,                     *)
(* src/setup/boot_block.c, src/common/safe_replace.c and the Finish and    *)
(* UNDOSTACKS parts of src/cmds/TolunnetSetup.c.                           *)
(*                                                                         *)
(* A startup script is a sequence of lines: the user's, lines that start   *)
(* the other stack ("stack", "off" once disabled), and the boot block      *)
(* ("BEGIN", "body", "END").  S:Network-Startup is rewritten like          *)
(* S:User-Startup and is left out.                                         *)
(***************************************************************************)
EXTENDS Naturals, Sequences

CONSTANTS SsScripts,  \* the startup scripts there may be at first
          SsLater,    \* lines the user may add later
          SsFaults,   \* failing steps and power cuts in a behaviour
          NoText      \* no such file

VARIABLES ss_pc,       \* the next step, or "idle", "undone"
          ss_at,       \* inside a rewrite: "prev", "old" or "new" is next, else ""
          ss_ok,       \* the operation has had no failure so far
          ss_script,   \* the script's live, new, prev and bak files
          ss_had,      \* tn_safe_replace moved the live file away
          ss_lib,      \* the library's live, park and backup names
          ss_icon,     \* the WBStartup icon is in place
          ss_undo,     \* S:tolunnet-undo-stacks exists
          ss_faults,
          ss_user,     \* history: the lines the user wrote
          ss_first,    \* history: those of the first script
          ss_cut       \* history: a cut left a file out of place, or no backup was made

ssvars == <<ss_pc, ss_at, ss_ok, ss_script, ss_had, ss_lib, ss_icon, ss_undo, ss_faults,
            ss_user, ss_first, ss_cut>>
history == <<ss_user, ss_first, ss_cut>>

\* The lines of a text at the places in I, in their order.
Picked(text, I) ==
    LET Taken[i \in 0 .. Len(text)] ==
            IF i = 0 THEN <<>>
            ELSE IF i \in I THEN Append(Taken[i - 1], text[i]) ELSE Taken[i - 1]
    IN Taken[Len(text)]

IsOwn(line) == line \notin {"stack", "off", "BEGIN", "body", "END"}
UserOf(text) == IF text = NoText THEN <<>>
                ELSE Picked(text, {i \in DOMAIN text : IsOwn(text[i])})
Lines(text)  == {text[i] : i \in DOMAIN text}

\* Every line a script may have.
SsLines == {"stack", "off", "BEGIN", "body", "END"} \cup SsLater
               \cup UNION {Lines(text) : text \in SsScripts}

\* What the constants must satisfy: a first script has no line that only
\* TolunnetSetup writes, and the user adds lines of their own.
SsAssumption ==
    /\ SsFaults \in Nat /\ SsScripts \subseteq Seq(SsLines) /\ NoText \notin Seq(SsLines)
    /\ \A text \in SsScripts : Lines(text) \cap {"off", "BEGIN", "body", "END"} = {}
    /\ \A line \in SsLater : IsOwn(line)

\* tn_parse_startup_script and tn_uncomment_startup_script.
Mapped(text, from, to) == [i \in DOMAIN text |-> IF text[i] = from THEN to ELSE text[i]]
tn_parse_startup_script(text) == Mapped(text, "stack", "off")
tn_uncomment_startup_script(text) == Mapped(text, "off", "stack")

\* Every line outside the block.  What follows a BEGIN without an END is
\* inside it.
Inside(text, i) ==
    \E b \in 1 .. i : text[b] = "BEGIN" /\ ~ \E e \in b .. i - 1 : text[e] = "END"
WithoutBlock(text) == Picked(text, {i \in DOMAIN text : ~Inside(text, i)})

Block == <<"BEGIN", "body", "END">>

----------------------------------------------------------------------------
\* A step goes on to the next one, or fails within the bound.
MayFail == ss_faults < SsFaults /\ ss_faults' = ss_faults + 1
NoFault == UNCHANGED ss_faults
Goes(pc) == ss_pc' = pc /\ ss_at' = ""
Within(step) == ss_at' = step /\ UNCHANGED ss_pc
Files_UNCHANGED == UNCHANGED <<ss_script, ss_had, ss_lib, ss_icon, ss_undo>>
OnlyScript == UNCHANGED <<ss_lib, ss_icon, ss_undo, history>>
OnlyLib    == UNCHANGED <<ss_script, ss_had, ss_icon, ss_undo, history>>

\* The boot block of Finish is written even when the stacks were not replaced;
\* after UNDOSTACKS it is removed even when a line could not be restored.
Abandon(undoing) == ss_ok' = FALSE /\ Goes(IF undoing THEN "unblock" ELSE "block")

Finish(cmd) ==
    /\ ss_pc \in {"idle", "undone"}
    /\ Goes(IF cmd = "apply" THEN "backup" ELSE "restore")
    /\ ss_ok' = TRUE /\ NoFault /\ Files_UNCHANGED /\ UNCHANGED history

\* S:User-Startup.tolunnet-bak, once; a failed copy changes nothing.
Backup ==
    /\ ss_pc = "backup"
    /\ \/ /\ IF ss_script.live # NoText /\ ss_script.bak = NoText
             THEN ss_script' = [ss_script EXCEPT !.bak = ss_script.live]
             ELSE UNCHANGED ss_script
          /\ Goes("undoscript") /\ NoFault /\ UNCHANGED ss_ok
       \/ /\ ss_script.live # NoText /\ ss_script.bak = NoText
          /\ MayFail /\ Abandon(FALSE) /\ UNCHANGED ss_script
    /\ UNCHANGED ss_had /\ OnlyScript

write_undo_stacks_script ==
    /\ ss_pc = "undoscript"
    /\ \/ ss_undo' = TRUE /\ Goes("disable") /\ NoFault /\ UNCHANGED ss_ok
       \/ ~ss_undo /\ MayFail /\ Abandon(FALSE) /\ UNCHANGED ss_undo
    /\ UNCHANGED <<ss_script, ss_had, ss_lib, ss_icon, history>>

\* The four rewrites of the script: what each writes, whether it has anything
\* to do, and where it goes on.
Rewrites == {"disable", "restore", "block", "unblock"}
NewText(r) ==
    LET text == IF ss_script.live = NoText THEN <<>> ELSE ss_script.live IN
    CASE r = "disable" -> tn_parse_startup_script(text)
      [] r = "restore" -> tn_uncomment_startup_script(text)
      [] r = "block"   -> WithoutBlock(text) \o Block
      [] r = "unblock" -> WithoutBlock(text)
Needed(r) ==
    CASE r = "disable" -> ss_script.live # NoText /\ "stack" \in Lines(ss_script.live)
      [] r = "restore" -> ss_script.live # NoText /\ "off" \in Lines(ss_script.live)
      [] r = "block"   -> TRUE
      [] r = "unblock" -> ss_script.live # NoText
After(r)  == [disable |-> "park", restore |-> "unpark", block |-> "idle", unblock |-> "undone"][r]
\* A failed rewrite: "disable" and "restore" give the operation up.
Failed(r) == \/ r = "disable" /\ Abandon(FALSE)
             \/ r = "restore" /\ Abandon(TRUE)
             \/ r \in {"block", "unblock"} /\ ss_ok' = FALSE /\ Goes("idle")
Ended(r) == IF After(r) = "undone" /\ ~ss_ok THEN Goes("idle") ELSE Goes(After(r))

\* The boot block has a backup of its own made once; a copy that fails is not
\* noticed.
Seeds(r)  == r \in {"block", "unblock"} /\ ss_script.live # NoText /\ ss_script.bak = NoText
Seeded(r) == IF Seeds(r) THEN [ss_script EXCEPT !.bak = ss_script.live] ELSE ss_script

\* The text goes to <file>.tolunnet-new.
WriteNew(r) ==
    /\ ss_pc = r /\ ss_at = ""
    /\ \/ ~Needed(r) /\ Ended(r) /\ NoFault /\ UNCHANGED <<ss_script, ss_ok, ss_cut>>
       \/ /\ Needed(r) /\ NoFault /\ Within("prev") /\ UNCHANGED <<ss_ok, ss_cut>>
          /\ ss_script' = [Seeded(r) EXCEPT !.new = NewText(r)]
       \/ /\ Needed(r) /\ Seeds(r) /\ MayFail /\ Within("prev") /\ UNCHANGED ss_ok
          /\ ss_script' = [ss_script EXCEPT !.new = NewText(r)]
          /\ ss_cut' = ss_cut \cup {"seed"}
       \/ /\ Needed(r) /\ MayFail /\ Failed(r) /\ UNCHANGED ss_cut
          /\ ss_script' \in {ss_script, Seeded(r)}
    /\ UNCHANGED <<ss_had, ss_lib, ss_icon, ss_undo, ss_user, ss_first>>

\* tn_safe_replace: delete the old generation, move the live file there, move
\* the new one in; if that fails, move the live file back.  A rename onto a
\* file that is there fails.
DropPrev(r) ==
    /\ ss_pc = r /\ ss_at = "prev"
    /\ \/ ss_script' = [ss_script EXCEPT !.prev = NoText] /\ NoFault
       \/ ss_script.prev # NoText /\ MayFail /\ UNCHANGED ss_script
    /\ Within("old") /\ UNCHANGED <<ss_ok, ss_had>> /\ OnlyScript

MoveOld(r) ==
    /\ ss_pc = r /\ ss_at = "old"
    /\ \/ /\ ss_script.prev = NoText
          /\ ss_script' = [ss_script EXCEPT !.prev = ss_script.live, !.live = NoText]
          /\ ss_had' = (ss_script.live # NoText) /\ NoFault
       \/ /\ \/ ss_script.prev # NoText /\ NoFault
             \/ ss_script.prev = NoText /\ ss_script.live # NoText /\ MayFail
          /\ ss_had' = FALSE /\ UNCHANGED ss_script
    /\ Within("new") /\ UNCHANGED ss_ok /\ OnlyScript

MoveNew(r) ==
    /\ ss_pc = r /\ ss_at = "new"
    /\ \/ /\ ss_script.live = NoText /\ NoFault
          /\ ss_script' = [ss_script EXCEPT !.live = ss_script.new, !.new = NoText]
          /\ Ended(r) /\ UNCHANGED ss_ok
       \/ /\ IF ss_script.live = NoText THEN MayFail ELSE NoFault
          /\ ss_script' = [ss_script EXCEPT !.new = NoText,
                 !.live = IF ss_had THEN ss_script.prev ELSE @,
                 !.prev = IF ss_had THEN NoText ELSE @]
          /\ Failed(r)
    /\ UNCHANGED ss_had /\ OnlyScript

----------------------------------------------------------------------------
\* The library: parked first, then under the backup name; an older backup is
\* kept and the library stays.
Lib(live, park, backup) == ss_lib' = [live |-> live, park |-> park, backup |-> backup]

Park ==
    /\ ss_pc = "park" /\ UNCHANGED ss_ok /\ OnlyLib
    /\ \/ ss_lib.live = "none" /\ Goes("icon") /\ NoFault /\ UNCHANGED ss_lib
       \/ ss_lib.live # "none" /\ Lib("none", ss_lib.live, ss_lib.backup)
          /\ Goes("parked") /\ NoFault
       \/ ss_lib.live # "none" /\ MayFail /\ Lib(ss_lib.live, "none", ss_lib.backup)
          /\ Goes("icon")

\* A swap that puts the library under the backup name whatever is there.
OverBackup ==
    /\ ss_pc = "parked" /\ Goes("icon") /\ UNCHANGED ss_ok /\ OnlyLib
    /\ Lib("none", "none", ss_lib.park) /\ NoFault

ToBackup ==
    /\ ss_pc = "parked" /\ Goes("icon") /\ UNCHANGED ss_ok /\ OnlyLib
    /\ \/ ss_lib.backup = "none" /\ Lib("none", "none", ss_lib.park) /\ NoFault
       \/ /\ Lib(ss_lib.park, "none", ss_lib.backup)
          /\ IF ss_lib.backup = "none" THEN MayFail ELSE NoFault

\* Undo: the backup back to its name, what is there parked and then deleted.
Unpark ==
    /\ ss_pc = "unpark" /\ UNCHANGED ss_ok /\ OnlyLib
    /\ \/ ss_lib.backup = "none" /\ UNCHANGED ss_lib /\ Goes("icon back") /\ NoFault
       \/ /\ ss_lib.backup # "none" /\ ss_lib.live = "none"
          /\ Lib(ss_lib.backup, ss_lib.park, "none") /\ Goes("icon back") /\ NoFault
       \/ /\ ss_lib.backup # "none" /\ ss_lib.live # "none"
          /\ Lib("none", ss_lib.live, ss_lib.backup) /\ Goes("swap") /\ NoFault
       \/ /\ ss_lib.backup # "none" /\ MayFail /\ Goes("icon back")
          /\ Lib(ss_lib.live, IF ss_lib.live = "none" THEN ss_lib.park ELSE "none", ss_lib.backup)

Swap ==
    /\ ss_pc = "swap" /\ UNCHANGED ss_ok /\ OnlyLib /\ Goes("icon back")
    /\ \/ Lib(ss_lib.backup, "none", "none") /\ NoFault
       \/ Lib(ss_lib.park, "none", ss_lib.backup) /\ MayFail

\* A rename of the icon that fails is not noticed.
Icon ==
    /\ \/ ss_pc = "icon" /\ ss_icon' \in {FALSE, ss_icon} /\ Goes("block") /\ UNCHANGED ss_undo
       \/ /\ ss_pc = "icon back" /\ ss_icon' \in {TRUE, ss_icon} /\ ss_undo' = FALSE
          /\ Goes("unblock")
    /\ IF ss_icon' = (ss_pc = "icon back") THEN NoFault ELSE MayFail
    /\ UNCHANGED <<ss_ok, ss_script, ss_had, ss_lib, history>>

\* The rest of S:tolunnet-undo-stacks, after UNDOSTACKS or without it: a
\* library that is not there comes from a backup name it knows or from the
\* park name.
UndoStacksScript ==
    /\ ss_pc \in {"idle", "undone"} /\ Goes("idle") /\ ss_icon' = TRUE /\ ss_undo' = FALSE
    /\ \/ /\ ss_lib.live = "none" /\ ss_lib.backup # "none"
          /\ Lib(ss_lib.backup, ss_lib.park, "none")
       \/ /\ ss_lib.live = "none" /\ ss_lib.park # "none"
          /\ Lib(ss_lib.park, "none", ss_lib.backup)
       \/ (ss_lib.live # "none" \/ ss_lib.park = "none") /\ UNCHANGED ss_lib
    /\ NoFault /\ UNCHANGED <<ss_ok, ss_script, ss_had, history>>

\* The power goes between two steps.
SsPowerCut ==
    /\ ss_pc \notin {"idle", "undone"} /\ MayFail
    /\ Goes("idle") /\ ss_ok' = FALSE
    /\ ss_cut' = ss_cut \cup (IF ss_lib.park # "none" THEN {"library"} ELSE {})
                        \cup (IF ss_at = "new" THEN {"script"} ELSE {})
    /\ Files_UNCHANGED /\ UNCHANGED <<ss_user, ss_first>>

\* The user adds a line, or installs a library where none is.
UserEdits(line) ==
    /\ ss_pc \in {"idle", "undone"} /\ ss_script.live # NoText
    /\ line \notin Lines(ss_script.live) /\ Goes("idle")
    /\ ss_script' = [ss_script EXCEPT !.live = Append(@, line)]
    /\ ss_user' = Append(UserOf(ss_script.live), line)
    /\ NoFault /\ UNCHANGED <<ss_ok, ss_had, ss_lib, ss_icon, ss_undo, ss_first, ss_cut>>
Reinstall ==
    /\ ss_pc \in {"idle", "undone"} /\ ss_lib.live = "none"
    /\ Lib("new", ss_lib.park, ss_lib.backup) /\ Goes("idle")
    /\ NoFault /\ UNCHANGED ss_ok /\ OnlyLib

SsInit ==
    /\ ss_pc = "idle" /\ ss_at = "" /\ ss_ok = TRUE /\ ss_had = FALSE
    /\ \E text \in SsScripts \cup {NoText} :
         /\ ss_script = [live |-> text, new |-> NoText, prev |-> NoText, bak |-> NoText]
         /\ ss_user = UserOf(text) /\ ss_first = UserOf(text)
    /\ ss_lib = [live |-> "orig", park |-> "none", backup |-> "none"]
    /\ ss_icon = TRUE /\ ss_undo = FALSE /\ ss_faults = 0 /\ ss_cut = {}

SsNext ==
    \/ \E cmd \in {"apply", "undo"} : Finish(cmd)
    \/ Backup \/ write_undo_stacks_script \/ Park \/ ToBackup \/ Unpark \/ Swap \/ Icon
    \/ \E r \in Rewrites : WriteNew(r) \/ DropPrev(r) \/ MoveOld(r) \/ MoveNew(r)
    \/ UndoStacksScript \/ SsPowerCut \/ Reinstall \/ \E line \in SsLater : UserEdits(line)

----------------------------------------------------------------------------
SsTypeOK ==
    /\ ss_at \in {"", "prev", "old", "new"}
    /\ ss_ok \in BOOLEAN /\ ss_had \in BOOLEAN /\ ss_icon \in BOOLEAN /\ ss_undo \in BOOLEAN
    /\ DOMAIN ss_script = {"live", "new", "prev", "bak"}
    /\ \A name \in {"live", "park", "backup"} : ss_lib[name] \in {"none", "orig", "new"}
    /\ ss_faults \in 0 .. SsFaults /\ ss_cut \subseteq {"library", "script", "seed"}

\* The user's startup lines survive.  When no operation is under way the live
\* script has all of them in their order, whatever failed, unless a power cut
\* struck between the two renames; and those of the first run are never lost,
\* not even then, unless the boot block's own backup could not be made either.
UserLinesKept ==
    /\ ss_pc \in {"idle", "undone"} /\ "script" \notin ss_cut => UserOf(ss_script.live) = ss_user
    /\ \/ {"script", "seed"} \subseteq ss_cut
       \/ \E name \in {"live", "prev", "bak"} :
         LET own == UserOf(ss_script[name]) IN
         Len(own) >= Len(ss_first) /\ SubSeq(own, 1, Len(ss_first)) = ss_first

\* The library the other stack came with is never lost, and an undo that
\* reports success has put everything back: no disabled line, no boot block
\* and, as long as nothing failed, the library under its name and the icon
\* (both are renamed without a look at the result).  The exception is a cut
\* between the two renames of the library: UNDOSTACKS does not look at the
\* park name, and a second Finish deletes what is parked there.
OriginalComesBack ==
    \/ "library" \in ss_cut
    \/ /\ "orig" \in {ss_lib.live, ss_lib.park, ss_lib.backup}
       /\ ss_pc = "undone" =>
            /\ ~ss_undo /\ (ss_faults > 0 \/ (ss_icon /\ ss_lib.live = "orig"))
            /\ ss_script.live # NoText =>
                 Lines(ss_script.live) \cap {"off", "BEGIN", "body"} = {}

\* What the user had before the swap is kept, and can be had back.
SwapReversible == UserLinesKept /\ OriginalComesBack
=============================================================================
