------------------------------ MODULE SbtcTags ------------------------------
(***************************************************************************)
(* SocketBaseTagList: a program's list of SBTC tags, classified by         *)
(* tn_sbtc_dispatch_tag (src/src/common/sbtc_dispatch.c) and applied in    *)
(* order by the vector (src/src/lib/lib_vectors.c) until one fails.  A tag *)
(* sets or gets one setting, by value or through a cell of the program's   *)
(* memory (SBTF_REF).  SBTC_DTABLESIZE is in LibFds, errno in LibNames.    *)
(***************************************************************************)
EXTENDS Integers, Sequences

CONSTANTS
    SbValues,   \* values of settings, and addresses of cells; 0 is NULL
    SbLength    \* the longest list

\* What the constants must satisfy.
SbAssumption == SbValues \subseteq Nat /\ 0 \in SbValues /\ SbLength \in Nat

VARIABLES
    sb_opts,    \* the settings of the base
    sb_mem,     \* the cells of the program
    sb_list,    \* the list of the call that has just returned, as it was given
    sb_out,     \* its ti_Data afterwards
    sb_ret,     \* its result: 0, or the 1-based index of the failing tag
    sb_old      \* the settings before it
sbvars == <<sb_opts, sb_mem, sb_list, sb_out, sb_ret, sb_old>>

\* "mask" stands for the settings a program may set and get, "errnoptr" for the
\* pointer tags, whose SBTF_REF is ignored when they set, "release" for those
\* it may only get, whose setting is accepted and ignored.
SbSettings == {"mask", "errnoptr", "release"}
Codes == SbSettings \cup {"unknown"}
Cells == SbValues \ {0}
Tags  == [code : Codes, set : BOOLEAN, ref : BOOLEAN, data : SbValues]

\* tn_sbtc_dispatch_tag: what is to be done with one tag.
tn_sbtc_dispatch_tag(tag) ==
    IF tag.code = "unknown" THEN "fail"
    ELSE IF tag.set /\ tag.code = "release" THEN "ignore"
    ELSE IF tag.set THEN "set" ELSE "get"

\* What a tag sets: SBTF_REF loads it from the cell, for the plain settings.
Loaded(tag, mem) ==
    IF tag.ref /\ tag.data # 0 /\ tag.code # "errnoptr" THEN mem[tag.data] ELSE tag.data

\* One tag applied to [opts, mem, out].
Applied(st, tag, i) ==
    LET op == tn_sbtc_dispatch_tag(tag) IN
    IF op = "set" THEN [st EXCEPT !.opts[tag.code] = Loaded(tag, st.mem)]
    ELSE IF op # "get" THEN st
    ELSE IF tag.ref /\ tag.data # 0 THEN [st EXCEPT !.mem[tag.data] = st.opts[tag.code]]
    ELSE [st EXCEPT !.out[i] = st.opts[tag.code]]

\* A loop that passes over a failing tag and reports it at the end.
PassesOver(list, st0) ==
    LET Upto[i \in 0 .. Len(list)] ==
          IF i = 0 THEN st0
          ELSE LET st == Upto[i - 1]
                   bad == tn_sbtc_dispatch_tag(list[i]) = "fail"
               IN [Applied(st, list[i], i) EXCEPT !.ret = IF bad /\ @ = 0 THEN i ELSE @]
    IN Upto[Len(list)]

\* The loop over the list: it stops at the first tag that fails.
TagLoop(list, st0) ==
    LET Upto[i \in 0 .. Len(list)] ==
          IF i = 0 THEN st0
          ELSE LET st == Upto[i - 1] IN
               IF st.ret # 0 THEN st
               ELSE IF tn_sbtc_dispatch_tag(list[i]) = "fail" THEN [st EXCEPT !.ret = i]
               ELSE Applied(st, list[i], i)
    IN Upto[Len(list)]

SocketBaseTagList(list) ==
    /\ sb_list = <<>>
    /\ LET st == TagLoop(list, [opts |-> sb_opts, mem |-> sb_mem, ret |-> 0,
                                out |-> [i \in DOMAIN list |-> list[i].data]])
       IN sb_opts' = st.opts /\ sb_mem' = st.mem /\ sb_out' = st.out /\ sb_ret' = st.ret
    /\ sb_list' = list /\ sb_old' = sb_opts

\* The program goes on.
Returned ==
    /\ sb_list # <<>> /\ sb_list' = <<>> /\ sb_out' = <<>> /\ sb_ret' = 0
    /\ sb_old' = sb_opts /\ UNCHANGED <<sb_opts, sb_mem>>

SbInit ==
    /\ sb_opts = [c \in SbSettings |-> 0] /\ sb_mem \in [Cells -> SbValues]
    /\ sb_list = <<>> /\ sb_out = <<>> /\ sb_ret = 0 /\ sb_old = sb_opts
SbNext ==
    \/ \E n \in 1 .. SbLength : \E list \in [1 .. n -> Tags] : SocketBaseTagList(list)
    \/ Returned

----------------------------------------------------------------------------
SbTypeOK ==
    /\ sb_opts \in [SbSettings -> SbValues] /\ sb_mem \in [Cells -> SbValues]
    /\ sb_ret \in 0 .. Len(sb_list) /\ Len(sb_out) = Len(sb_list)

\* The result tells the program exactly what was done: every tag before the
\* failing one is in force and nothing from it on has changed anything; with
\* result 0 the whole list is.  So the last value set is the setting, a setting
\* no tag names is what it was, and a get sees the sets before it.
TagListExact ==
    LET done == IF sb_ret = 0 THEN Len(sb_list) ELSE sb_ret - 1
        Sets(i, c) == sb_list[i].set /\ sb_list[i].code = c /\ c # "release"
        Setters(c, n) == {i \in 1 .. n : Sets(i, c)}
        Last(c, n) == CHOOSE i \in Setters(c, n) : \A j \in Setters(c, n) : j <= i
        Value(i) == ~sb_list[i].ref \/ sb_list[i].data = 0
    IN /\ sb_ret # 0 => sb_list[sb_ret].code = "unknown"
       /\ \A i \in 1 .. done : sb_list[i].code # "unknown"
       /\ \A c \in SbSettings :
            IF Setters(c, done) = {} THEN sb_opts[c] = sb_old[c]
            ELSE LET i == Last(c, done) IN Value(i) => sb_opts[c] = sb_list[i].data
       /\ \A i \in DOMAIN sb_list :
            LET t == sb_list[i] IN
            IF i > done \/ t.set \/ ~Value(i) THEN sb_out[i] = t.data
            ELSE Setters(t.code, i - 1) = {} => sb_out[i] = sb_old[t.code]
=============================================================================
