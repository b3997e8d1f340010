------------------------------ MODULE Usergroup ------------------------------
(***************************************************************************)
(* usergroup.library (src/src/usergroup): one base for all tasks, with a   *)
(* context per task (credentials, errno pointers, the cursor of getpwent)  *)
(* that its Open and Close vectors count, and the user database that is    *)
(* read from its files by the first Process that asks.  Open and Close run *)
(* under Forbid; every other function looks its context up with base->lock *)
(* held, but allocates and links a new one in a second step.               *)
(***************************************************************************)
EXTENDS Integers, Sequences, FiniteSets

CONSTANTS
    UgTasks,    \* task addresses; a new program or task may get an old one
    UgProcs,    \* those that are Processes and may read files
    UgBuiltin, UgFile, \* how many users are built in, and how many are in the files
    UgOpens,    \* bound on the opens one program holds
    UgFree      \* the task of a context in the free pool

\* What the constants must satisfy.
UgAssumption == /\ IsFiniteSet(UgTasks) /\ UgProcs \subseteq UgTasks /\ UgFree \notin UgTasks
                /\ UgBuiltin \in Nat /\ UgFile \in Nat /\ UgOpens \in Nat \ {0}

VARIABLES
    ug_contexts, \* the list of contexts
    ug_users,    \* how many users the list has
    ug_loaded,   \* files_loaded
    ug_delexp,   \* LIBF_DELEXP
    ug_here,     \* the base is in memory
    ug_insert,   \* [by, task]: a lookup that has missed and is about to link
    ug_holds,    \* how often each task's program has the library open
    ug_used,     \* the program has changed its context
    ug_named,    \* another task has named this one (UGT_OWNER, getcredentials)
    ug_walk      \* how many users the task's walk has given, -1 before it
ugvars == <<ug_contexts, ug_users, ug_loaded, ug_delexp, ug_here, ug_insert, ug_holds,
            ug_used, ug_named, ug_walk>>
ugbase == <<ug_users, ug_loaded, ug_delexp, ug_here>>

NoTask == [by |-> UgFree, task |-> UgFree]
\* ug_ctx_init: default credentials, no errno pointers, no cursor.
ug_ctx_init(task) == [task |-> task, opens |-> 0, set |-> FALSE, cur |-> 0]
Slots(task) == {i \in DOMAIN ug_contexts : ug_contexts[i].task = task}
FirstOf(S) == CHOOSE i \in S : \A j \in S : i <= j
LibOpenCnt == Cardinality({p \in UgTasks \X (1 .. UgOpens) : p[2] <= ug_holds[p[1]]})

----------------------------------------------------------------------------
\* ug_ctx_lookup with make: the task's context, a spare one, or a new one.
ug_ctx_lookup(task) ==
    IF Slots(task) # {} THEN ug_contexts
    ELSE IF Slots(UgFree) # {} THEN [ug_contexts EXCEPT ![FirstOf(Slots(UgFree))] = ug_ctx_init(task)]
    ELSE Append(ug_contexts, ug_ctx_init(task))
Mine(list, task) == FirstOf({i \in DOMAIN list : list[i].task = task})

\* The Open vector.
ug_lib_open(t) ==
    /\ ug_here /\ ug_holds[t] < UgOpens
    /\ LET list == ug_ctx_lookup(t) IN
       ug_contexts' = [list EXCEPT ![Mine(list, t)].opens = @ + 1]
    /\ ug_holds' = [ug_holds EXCEPT ![t] = @ + 1]
    /\ ug_delexp' = FALSE
    /\ UNCHANGED <<ug_users, ug_loaded, ug_here, ug_insert, ug_used, ug_named, ug_walk>>

\* A last Close that only counts.
CountOnly(ctx) == [ctx EXCEPT !.opens = @ - 1]
\* The last Close of a task gives its context back to the pool.
ug_ctx_closed(ctx) == IF ctx.opens > 1 THEN [ctx EXCEPT !.opens = @ - 1] ELSE ug_ctx_init(UgFree)

Expunged == /\ ug_here' = FALSE /\ ug_contexts' = <<>> /\ ug_delexp' = FALSE
            /\ UNCHANGED <<ug_users, ug_loaded>>
ug_lib_close(t) ==
    /\ ug_holds[t] > 0 /\ ug_insert.by # t
    /\ ug_holds' = [ug_holds EXCEPT ![t] = @ - 1]
    /\ IF LibOpenCnt = 1 /\ ug_delexp THEN Expunged
       ELSE /\ ug_contexts' = IF Slots(t) = {} THEN ug_contexts
                              ELSE [ug_contexts EXCEPT ![FirstOf(Slots(t))] = ug_ctx_closed(@)]
            /\ UNCHANGED ugbase
    /\ IF ug_holds[t] = 1
       THEN /\ ug_used' = ug_used \ {t} /\ ug_walk' = [ug_walk EXCEPT ![t] = -1]
            /\ ug_named' = IF Cardinality(Slots(t)) = 1 THEN ug_named \ {t} ELSE ug_named
       ELSE UNCHANGED <<ug_used, ug_walk, ug_named>>
    /\ UNCHANGED ug_insert

\* Expunge, by memory pressure: only when nobody has the library open.
ug_lib_expunge ==
    /\ ug_here /\ UNCHANGED <<ug_insert, ug_holds, ug_used, ug_walk>>
    /\ \/ LibOpenCnt > 0 /\ ug_delexp' = TRUE
          /\ UNCHANGED <<ug_contexts, ug_users, ug_loaded, ug_here, ug_named>>
       \/ LibOpenCnt = 0 /\ Expunged /\ ug_named' = {}

\* A later OpenLibrary loads it again.
ug_init_c ==
    /\ ~ug_here /\ ug_here' = TRUE /\ ug_users' = UgBuiltin /\ ug_loaded' = FALSE
    /\ UNCHANGED <<ug_contexts, ug_delexp, ug_insert, ug_holds, ug_used, ug_named, ug_walk>>

----------------------------------------------------------------------------
\* A program changes its own context: credentials, umask, login, errno pointer.
ChangeOwn(t) ==
    /\ ug_holds[t] > 0 /\ ug_insert = NoTask
    /\ LET list == ug_ctx_lookup(t) IN ug_contexts' = [list EXCEPT ![Mine(list, t)].set = TRUE]
    /\ ug_used' = ug_used \cup {t}
    /\ UNCHANGED <<ugbase, ug_insert, ug_holds, ug_named, ug_walk>>

\* Another task's context: UGT_OWNER sets its errno pointer.  The lock is held
\* from the scan to the link, but the Open vector does not take it.
NameOther(t, u) ==
    /\ ug_holds[t] > 0 /\ t # u /\ ug_insert = NoTask
    /\ ug_named' = ug_named \cup {u}
    /\ IF Slots(u) \cup Slots(UgFree) # {}
       THEN /\ LET list == ug_ctx_lookup(u) IN
               ug_contexts' = [list EXCEPT ![Mine(list, u)].set = TRUE]
            /\ UNCHANGED ug_insert
       ELSE ug_insert' = [by |-> t, task |-> u] /\ UNCHANGED ug_contexts
    /\ UNCHANGED <<ugbase, ug_holds, ug_used, ug_walk>>
LinkNew ==
    /\ ug_insert # NoTask /\ ug_insert' = NoTask
    /\ ug_contexts' = Append(ug_contexts, [ug_ctx_init(ug_insert.task) EXCEPT !.set = TRUE])
    /\ ug_named' = ug_named \cup {ug_insert.task}
    /\ UNCHANGED <<ugbase, ug_holds, ug_used, ug_walk>>

----------------------------------------------------------------------------
\* ug_db_ensure_loaded: the files once, by the first Process that asks.
Loads(t) == ~ug_loaded /\ t \in UgProcs
ug_db_ensure_loaded(t) ==
    /\ ug_loaded' = (ug_loaded \/ Loads(t))
    /\ ug_users' = IF Loads(t) THEN ug_users + UgFile ELSE ug_users
    /\ UNCHANGED <<ug_delexp, ug_here>>

\* getpwent: the cursor of this task; cur is the row it stands before, 0 for
\* none.  A cursor behind the last row stays there when rows are added.
ug_db_getpwent(t) ==
    /\ ug_holds[t] > 0 /\ ug_insert = NoTask /\ ug_db_ensure_loaded(t)
    /\ LET list == ug_ctx_lookup(t)
           i == Mine(list, t)
           cur == IF list[i].cur = 0 THEN 1 ELSE list[i].cur
       IN IF cur <= ug_users'
          THEN /\ ug_contexts' = [list EXCEPT ![i].cur = cur + 1]
               /\ ug_walk' = [ug_walk EXCEPT ![t] = (IF @ = -1 THEN 0 ELSE @) + 1]
               /\ UNCHANGED ug_named
          ELSE /\ ug_contexts' = [list EXCEPT ![i].cur = cur]
               /\ UNCHANGED <<ug_walk, ug_named>>
    /\ UNCHANGED <<ug_insert, ug_holds, ug_used>>

\* setpwent (and endpwent, whose NULL cursor getpwent takes for the head).
ug_db_setpwent(t) ==
    /\ ug_holds[t] > 0 /\ ug_insert = NoTask /\ ug_db_ensure_loaded(t)
    /\ LET list == ug_ctx_lookup(t) IN ug_contexts' = [list EXCEPT ![Mine(list, t)].cur = 1]
    /\ ug_walk' = [ug_walk EXCEPT ![t] = -1]
    /\ UNCHANGED <<ug_insert, ug_holds, ug_used, ug_named>>

UgInit ==
    /\ ug_contexts = <<>> /\ ug_users = UgBuiltin /\ ug_loaded = FALSE /\ ug_delexp = FALSE
    /\ ug_here = TRUE /\ ug_insert = NoTask /\ ug_holds = [t \in UgTasks |-> 0]
    /\ ug_used = {} /\ ug_named = {} /\ ug_walk = [t \in UgTasks |-> -1]

UgNext ==
    \/ \E t \in UgTasks : \/ ug_lib_open(t) \/ ug_lib_close(t) \/ ChangeOwn(t)
                          \/ ug_db_getpwent(t) \/ ug_db_setpwent(t)
                          \/ \E u \in UgTasks : NameOther(t, u)
    \/ LinkNew \/ ug_lib_expunge \/ ug_init_c

----------------------------------------------------------------------------
UgTypeOK ==
    /\ \A i \in DOMAIN ug_contexts : /\ ug_contexts[i].task \in UgTasks \cup {UgFree}
                                     /\ ug_contexts[i].opens \in 0 .. UgOpens
    /\ ug_users \in {UgBuiltin, UgBuiltin + UgFile} /\ ug_holds \in [UgTasks -> 0 .. UgOpens]
    /\ ug_used \subseteq UgTasks /\ ug_named \subseteq UgTasks

\* A program starts clean: until it changes something itself its context has
\* the defaults, though an earlier program ran on the same Process or the Task
\* address belonged to somebody else; its context counts exactly its own opens,
\* it has no second context, and a walk gives each user once.  The exception is
\* a task that another one has named: the context made for it before it opens
\* the library keeps what was set, and may be its second.
StartsClean ==
    \A t \in UgTasks \ ug_named :
      /\ Cardinality(Slots(t)) <= 1
      /\ \A i \in Slots(t) : /\ ug_contexts[i].opens = ug_holds[t]
                             /\ t \notin ug_used => ~ug_contexts[i].set
                             /\ ug_walk[t] = -1 => ug_contexts[i].cur \in {0, 1}
      /\ ug_walk[t] # -1 /\ t \in UgProcs => ug_walk[t] <= ug_users
      /\ Slots(t) = {} => ug_holds[t] = 0
=============================================================================
