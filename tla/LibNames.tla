------------------------------ MODULE LibNames ------------------------------
(***************************************************************************)
(* Errors and names in an opener's library base: errno, reported through a *)
(* program variable of 1, 2 or 4 bytes, h_errno, the log lines a program   *)
(* sends to the daemon, the resolver calls, and the walks through the      *)
(* tables of services, protocols and networks                              *)
(* (src/src/lib/lib_vectors.c, lib_unimpl.c).  An IPC call is one step; it *)
(* answers, or it fails with an error.                                     *)
(***************************************************************************)
EXTENDS Integers, Sequences

CONSTANTS
    NbByte,      \* 2^8: what a byte-wide errno variable keeps of a code
    NbErrs,      \* error codes, one of them above NbByte
    NbTransient, \* the codes gethostbyname turns into TRY_AGAIN
    NbServices,  \* rows [name, proto] of g_services
    NbBlocks     \* bound on the addrinfo blocks a program holds

\* What the constants must satisfy.
NbAssumption == /\ NbByte \in Nat \ {0} /\ NbErrs \subseteq Nat \ {0}
                /\ NbTransient \subseteq NbErrs /\ NbBlocks \in Nat
                /\ \A i \in DOMAIN NbServices : DOMAIN NbServices[i] = {"name", "proto"}

VARIABLES
    nb_errno,   \* [task, width, cell]: task_errno, the variable and its width
    nb_err,     \* the error of the last failed call since the variable was set
    nb_own,     \* the program has written the variable itself since
    nb_herr,    \* task_herrno
    nb_idx,     \* servent_idx
    nb_row,     \* servent_data, which lookups and walks share
    nb_blocks   \* addrinfo blocks allocated and not freed

nbvars == <<nb_errno, nb_err, nb_own, nb_herr, nb_idx, nb_row, nb_blocks>>
nberr  == <<nb_errno, nb_err, nb_own>>
nbwalk == <<nb_idx, nb_row>>

----------------------------------------------------------------------------
\* tn_set_errno_val: task_errno whole, the program's variable cut to its width.
Cut(err, width) == IF width = 1 THEN err % NbByte ELSE err
tn_set_errno_val(e, err) == [e EXCEPT !.task = err, !.cell = Cut(err, e.width)]
Errno == nb_errno.cell

Fails(err) == nb_errno' = tn_set_errno_val(nb_errno, err) /\ nb_err' = err /\ nb_own' = FALSE

\* A refused argument, a failed call, or a vector that is not implemented.
CallFails(err) == Fails(err) /\ UNCHANGED <<nb_herr, nbwalk, nb_blocks>>

\* SetErrnoPtr and the SBTC_ERRNO*PTR tags: the variable keeps what is in it.
SetErrnoPtr(width) ==
    /\ nb_errno' = [nb_errno EXCEPT !.width = width, !.cell = 0] /\ nb_own' = TRUE
    /\ UNCHANGED <<nb_err, nb_herr, nbwalk, nb_blocks>>

\* The program sets its errno to 0.
ClearsErrno ==
    /\ nb_errno' = [nb_errno EXCEPT !.cell = 0] /\ nb_own' = TRUE
    /\ UNCHANGED <<nb_err, nb_herr, nbwalk, nb_blocks>>

\* A log line that leaves the error of its own call behind.
SendAndForget(err) ==
    /\ nb_errno' = IF err = 0 THEN nb_errno ELSE tn_set_errno_val(nb_errno, err)
    /\ UNCHANGED <<nb_err, nb_own, nb_herr, nbwalk, nb_blocks>>

\* vsyslog: whatever the call to the daemon did to errno is put back.
tn_syslog_send(err) ==
    LET sent == IF err = 0 THEN nb_errno ELSE tn_set_errno_val(nb_errno, err)
    IN /\ nb_errno' = IF sent.task # nb_errno.task
                      THEN tn_set_errno_val(sent, nb_errno.task) ELSE sent
       /\ UNCHANGED <<nb_err, nb_own, nb_herr, nbwalk, nb_blocks>>

----------------------------------------------------------------------------
\* gethostbyname: an address, NULL from the daemon (err = 0), or a failed call.
Herrno(err) == IF err \in NbTransient THEN "TRY_AGAIN" ELSE "HOST_NOT_FOUND"
Resolved(found, err) ==
    IF found THEN UNCHANGED <<nberr, nb_herr>>
    ELSE /\ nb_herr' = Herrno(err)
         /\ IF err = 0 THEN UNCHANGED nberr ELSE Fails(err)
gethostbyname(found, err) == Resolved(found, err) /\ UNCHANGED <<nbwalk, nb_blocks>>

\* gethostbyaddr is not implemented: always HOST_NOT_FOUND and ENOENT.
gethostbyaddr(ENOENT) ==
    nb_herr' = "HOST_NOT_FOUND" /\ Fails(ENOENT) /\ UNCHANGED <<nbwalk, nb_blocks>>

\* gethostbyname_r copies the daemon's record; a short buffer is ERANGE.
gethostbyname_r(ERANGE) == Fails(ERANGE) /\ UNCHANGED <<nb_herr, nbwalk, nb_blocks>>

\* getaddrinfo: hints, a numeric name or the resolver, then one block.
getaddrinfo(numeric, found, err, memory) ==
    /\ IF numeric THEN UNCHANGED <<nberr, nb_herr>> ELSE Resolved(found, err)
    /\ nb_blocks' = IF (numeric \/ found) /\ memory THEN nb_blocks + 1 ELSE nb_blocks
    /\ nb_blocks < NbBlocks /\ UNCHANGED nbwalk
freeaddrinfo == nb_blocks > 0 /\ nb_blocks' = nb_blocks - 1 /\ UNCHANGED <<nberr, nb_herr, nbwalk>>

----------------------------------------------------------------------------
\* The first row of that name, and of that protocol if one is given.
getservbyname(name, proto) ==
    LET Rows == {i \in DOMAIN NbServices : /\ NbServices[i].name = name
                                           /\ proto \in {"any", NbServices[i].proto}}
    IN NbServices[CHOOSE i \in Rows : \A j \in Rows : i <= j]

\* setservent and endservent both begin a new walk.
setservent == nb_idx' = 0 /\ UNCHANGED <<nb_row, nberr, nb_herr, nb_blocks>>

\* getservent: the row under the cursor, looked up again by its name only, so
\* that of two rows with one name the first is given twice.
getservent ==
    /\ IF nb_idx = Len(NbServices) THEN UNCHANGED nbwalk
       ELSE /\ nb_idx' = nb_idx + 1
            /\ nb_row' = getservbyname(NbServices[nb_idx + 1].name, "any")
    /\ UNCHANGED <<nberr, nb_herr, nb_blocks>>
NameLookup(row) ==
    /\ nb_row' = getservbyname(row.name, row.proto)
    /\ UNCHANGED <<nb_idx, nberr, nb_herr, nb_blocks>>

NbInit ==
    /\ nb_errno = [task |-> 0, width |-> 4, cell |-> 0] /\ nb_err = 0 /\ nb_own = FALSE
    /\ nb_herr = "none" /\ nb_idx = 0 /\ nb_row = NbServices[1] /\ nb_blocks = 0

NbNext ==
    \/ \E err \in NbErrs : CallFails(err) \/ gethostbyaddr(err) \/ gethostbyname_r(err)
    \/ \E width \in {1, 4} : SetErrnoPtr(width)
    \/ ClearsErrno \/ freeaddrinfo \/ setservent \/ getservent
    \/ \E i \in DOMAIN NbServices : NameLookup(NbServices[i])
    \/ \E err \in NbErrs \cup {0} :
         \/ tn_syslog_send(err)
         \/ \E found \in BOOLEAN : \/ gethostbyname(found, err)
                                   \/ \E num, mem \in BOOLEAN : getaddrinfo(num, found, err, mem)

----------------------------------------------------------------------------
NbTypeOK ==
    /\ nb_errno.task \in NbErrs \cup {0} /\ nb_errno.width \in {1, 4} /\ nb_own \in BOOLEAN
    /\ nb_herr \in {"none", "TRY_AGAIN", "HOST_NOT_FOUND"}
    /\ nb_idx \in 0 .. Len(NbServices) /\ nb_blocks \in 0 .. NbBlocks

\* Errno() and the program's variable have the last failed call's error, cut to
\* the variable's width, and a log line in between does not change it, daemon
\* or not - unless the program wrote the variable itself: syslog then puts back
\* the library's copy over it.
ErrnoIsTheCallers ==
    ~nb_own => Errno = Cut(nb_err, nb_errno.width)
=============================================================================
