----------------------------- MODULE PrefsStore -----------------------------
(***************************************************************************)
(* The configuration files: tn_prefs_load and tn_prefs_save                *)
(* (src/common/prefs.c), the replacement of a file with one generation of  *)
(* backup (src/common/safe_replace.c), the text they hold                  *)
(* (src/common/config_text.c), and the programs that load, change and save *)
(* (src/cmds/hostname.c, the SAVE and USE gadgets of TolunnetPrefs.c).     *)
(*                                                                         *)
(* A text is one formatted setting, DIAG (a key the parser and the list of *)
(* known keys have and the formatter has not), and the lines whose key is  *)
(* unknown.  The power may fail between any two operations on the disk.    *)
(***************************************************************************)
EXTENDS Naturals

CONSTANTS Settings, DefaultSetting,
          Odd,         \* unknown lines a user may have put into the file
          MaxDate,     \* bound: file dates handed out
          NoFile

Stores == {"DEVS", "ENVARC", "ENV"}
Suffixes == {"", "_tmp", ".bak"}
Texts == [kind : {"empty", "part", "whole"}, known : Settings, diag : BOOLEAN,
          odd : SUBSET Odd, date : 0 .. MaxDate]
Prefs == [known : Settings, diag : BOOLEAN]

\* What the constants must satisfy.
PsAssumption == DefaultSetting \in Settings /\ MaxDate \in Nat /\ NoFile \notin Texts

VARIABLES disk,      \* [Stores -> [Suffixes -> text or NoFile]]
          now,       \* the clock that dates files
          arc,       \* ENVARC: is mounted
          saver,     \* the program that saves: where it is in tn_prefs_save
          kept,      \* history: the last text installed as DEVS:tolunnet.config
          offered,   \* history: the last text completed beside it
          exposed,   \* history: a save began without a file at that path
          settled    \* history: the last save reached every store, nothing since
psvars == <<disk, now, arc, saver, kept, offered, exposed, settled>>

Idle == [pc |-> "idle", store |-> "DEVS", use |-> FALSE, prefs |-> [known |-> DefaultSetting, diag |-> FALSE],
         text |-> NoFile, had |-> FALSE]

----------------------------------------------------------------------------
(* config_text.c *)

tn_prefs_default == [known |-> DefaultSetting, diag |-> FALSE]

\* tn_config_parse_line over the lines of a file that was cut short: the
\* settings behind the cut keep their defaults.
Parsed(t) == IF t.kind = "whole" THEN [known |-> t.known, diag |-> t.diag] ELSE tn_prefs_default

\* No DIAG line is written.
tn_config_format(p) == [kind |-> "whole", known |-> p.known, diag |-> FALSE, odd |-> {}, date |-> now]

\* A merge that keeps nothing of the old file.
MergeNothing(p, prev) == tn_config_format(p)

\* Lines with an unknown key are carried over; DIAG is a known one.
tn_config_merge_preserve(p, prev) ==
    [tn_config_format(p) EXCEPT !.odd = IF prev = NoFile THEN {} ELSE prev.odd]

----------------------------------------------------------------------------
(* Reading. *)

tn_prefs_open_recover(s) ==
    IF disk[s][""] # NoFile THEN disk[s][""]
    ELSE IF disk[s]["_tmp"] # NoFile THEN disk[s]["_tmp"] ELSE disk[s][".bak"]

\* dos.library CompareDates(a, b) > 0: b is the later one.
Later(a, b) == b.date > a.date

\* An empty file is not loaded, and ENVARC: is tried in its place.
Readable(t) == t # NoFile /\ t.kind # "empty"
tn_prefs_load ==
    LET devs == tn_prefs_open_recover("DEVS")
        env == disk["ENV"][""]
        first == IF devs # NoFile /\ env # NoFile
                 THEN IF Later(env, devs) THEN env ELSE devs
                 ELSE IF devs # NoFile THEN devs ELSE env
        last == tn_prefs_open_recover("ENVARC")
    IN IF Readable(first) THEN Parsed(first)
       ELSE IF Readable(last) THEN Parsed(last) ELSE tn_prefs_default

\* The daemon does not start without one; only the first names are looked for.
tn_prefs_any_store_exists == \E s \in Stores : disk[s][""] # NoFile

----------------------------------------------------------------------------
(* Writing: tn_prefs_write_one, then tn_safe_replace, one disk operation at *)
(* a time.                                                                  *)

PutFile(s, x, t) == disk' = [disk EXCEPT ![s][x] = t]
Mounted(s) == s # "ENVARC" \/ arc
At(pc) == saver.pc = pc

\* hostname NAME; SAVE and USE of the preferences editor.
StartSave(v, use) ==
    /\ At("idle")
    /\ saver' = [Idle EXCEPT !.pc = "open", !.store = IF use THEN "ENV" ELSE "DEVS", !.use = use,
                             !.prefs = [tn_prefs_load EXCEPT !.known = v]]
    /\ settled' = FALSE
    /\ UNCHANGED <<disk, now, arc, kept, offered, exposed>>

\* The stores after the first are best effort; a failure of the first ends it.
NextStore(ok) ==
    IF saver.store = "ENV" \/ (saver.store = "DEVS" /\ ~ok) THEN Idle
    ELSE [saver EXCEPT !.pc = "open", !.store = IF saver.store = "DEVS" THEN "ENVARC" ELSE "ENV",
                       !.text = NoFile, !.had = FALSE]

Done(ok) == saver' = NextStore(ok)

OpenTmp ==
    /\ At("open") /\ now < MaxDate /\ now' = now + 1
    /\ LET s == saver.store IN
       \/ /\ Mounted(s)
          /\ PutFile(s, "_tmp", [kind |-> "empty", known |-> DefaultSetting, diag |-> FALSE, odd |-> {}, date |-> now'])
          /\ saver' = [saver EXCEPT !.pc = "write",
                          !.text = [tn_config_merge_preserve(saver.prefs, disk[s][""])
                                       EXCEPT !.date = now']]
          /\ exposed' = (exposed \/ (s = "DEVS" /\ disk[s][""] = NoFile))
       \/ Done(FALSE) /\ UNCHANGED <<disk, exposed>>
    /\ UNCHANGED <<arc, kept, offered, settled>>

WriteTmp ==
    /\ At("write")
    /\ LET s == saver.store IN
       \/ /\ PutFile(s, "_tmp", saver.text) /\ saver' = [saver EXCEPT !.pc = "delbak"]
          /\ offered' = IF s = "DEVS" THEN saver.text ELSE offered
       \/ PutFile(s, "_tmp", NoFile) /\ Done(FALSE) /\ UNCHANGED offered   \* Write or Close fails
    /\ UNCHANGED <<now, arc, kept, exposed, settled>>

\* A replacement that makes room before it has a backup.
DeleteFirst ==
    /\ At("delbak") /\ disk' = [disk EXCEPT ![saver.store][".bak"] = NoFile, ![saver.store][""] = NoFile]
    /\ saver' = [saver EXCEPT !.pc = "backup"]
    /\ UNCHANGED <<now, arc, kept, offered, exposed, settled>>

DeleteBak ==
    /\ At("delbak") /\ PutFile(saver.store, ".bak", NoFile)
    /\ saver' = [saver EXCEPT !.pc = "backup"]
    /\ UNCHANGED <<now, arc, kept, offered, exposed, settled>>

\* Rename(path, bak): fails when there is no file there, and otherwise may.
RenameOld ==
    /\ At("backup")
    /\ LET old == disk[saver.store][""] IN
       \/ /\ old # NoFile
          /\ disk' = [disk EXCEPT ![saver.store][".bak"] = old, ![saver.store][""] = NoFile]
          /\ saver' = [saver EXCEPT !.pc = "install", !.had = TRUE]
       \/ UNCHANGED disk /\ saver' = [saver EXCEPT !.pc = "install"]
    /\ UNCHANGED <<now, arc, kept, offered, exposed, settled>>

\* Rename(tmp, path): fails while the old file is still there.
RenameNew ==
    /\ At("install")
    /\ LET s == saver.store IN
       \/ /\ disk[s][""] = NoFile
          /\ disk' = [disk EXCEPT ![s][""] = disk[s]["_tmp"], ![s]["_tmp"] = NoFile]
          /\ Done(TRUE)
          /\ kept' = IF s = "DEVS" THEN saver.text ELSE kept
          /\ exposed' = (exposed /\ s # "DEVS")
          /\ settled' = (s = "ENV" /\ ~saver.use)
       \/ /\ IF saver.had
             THEN disk' = [disk EXCEPT ![s][""] = disk[s][".bak"], ![s][".bak"] = NoFile, ![s]["_tmp"] = NoFile]
             ELSE PutFile(s, "_tmp", NoFile)
          /\ Done(FALSE) /\ UNCHANGED <<kept, exposed, settled>>
    /\ UNCHANGED <<now, arc, offered>>

\* A power cut.  A file being written may have got part of its text; ENV: is
\* in memory and is filled from ENVARC: when the machine starts again.
PowerCut ==
    /\ now < MaxDate /\ now' = now + 1
    /\ \E cut \in {"empty", "part"} :
         LET left == IF At("write") /\ saver.store # "ENV"
                     THEN [disk EXCEPT ![saver.store]["_tmp"].kind = cut] ELSE disk
             env == IF arc /\ left["ENVARC"][""] # NoFile
                    THEN [left["ENVARC"][""] EXCEPT !.date = now'] ELSE NoFile
         IN disk' = [left EXCEPT !["ENV"] = [x \in Suffixes |-> IF x = "" THEN env ELSE NoFile]]
    /\ saver' = Idle
    /\ settled' = (settled /\ At("idle"))
    /\ UNCHANGED <<arc, kept, offered, exposed>>

\* The user edits the file by hand.
Edit(v, diag, odd) ==
    /\ At("idle") /\ now < MaxDate /\ now' = now + 1
    /\ LET t == [kind |-> "whole", known |-> v, diag |-> diag, odd |-> odd, date |-> now'] IN
       PutFile("DEVS", "", t) /\ kept' = t
    /\ exposed' = FALSE /\ settled' = FALSE
    /\ UNCHANGED <<arc, saver, offered>>

PsInit ==
    /\ disk = [s \in Stores |-> [x \in Suffixes |-> NoFile]]
    /\ now = 0 /\ arc \in BOOLEAN /\ saver = Idle
    /\ kept = NoFile /\ offered = NoFile /\ exposed = FALSE /\ settled = FALSE

PsNext ==
    \/ \E v \in Settings, use \in BOOLEAN : StartSave(v, use)
    \/ OpenTmp \/ WriteTmp \/ DeleteBak \/ RenameOld \/ RenameNew \/ PowerCut
    \/ \E v \in Settings, diag \in BOOLEAN, odd \in SUBSET Odd : Edit(v, diag, odd)

----------------------------------------------------------------------------
PsTypeOK ==
    /\ disk \in [Stores -> [Suffixes -> Texts \cup {NoFile}]]
    /\ now \in 0 .. MaxDate /\ arc \in BOOLEAN /\ exposed \in BOOLEAN /\ settled \in BOOLEAN
    /\ kept \in Texts \cup {NoFile} /\ offered \in Texts \cup {NoFile}
    /\ saver.pc \in {"idle", "open", "write", "delbak", "backup", "install"}
    /\ saver.store \in Stores /\ saver.prefs \in Prefs

\* A configuration survives: wherever the power fails inside a save, or one of
\* its disk operations does, the next start reads the whole old text or the
\* whole new one, provided the save found a file to replace (one that did not,
\* because it is the first or because it follows a power cut between the two
\* renames, has no such guarantee); and once a save has reached every store, a
\* load returns what was saved, after a restart of the machine as well.
ConfigSurvives ==
    /\ kept # NoFile /\ ~exposed => tn_prefs_open_recover("DEVS") \in {kept, offered}
    /\ settled => tn_prefs_load.known = kept.known

\* Installing the new text of a file keeps every unknown line the replaced file
\* had, and stores the setting that the program chose.
SaveKeepsSettings ==
    LET s == saver.store IN
    RenameNew /\ disk'[s][""] # NoFile /\ disk'[s][""] = disk[s]["_tmp"] =>
        /\ disk'[s][""].known = saver.prefs.known
        /\ saver.had => disk[s][".bak"].odd \subseteq disk'[s][""].odd

\* No save loses the configuration, nor a line of it the program does not know.
ConfigKept == []ConfigSurvives /\ [][SaveKeepsSettings]_psvars
=============================================================================
