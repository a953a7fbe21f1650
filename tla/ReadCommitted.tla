---------------------------- MODULE ReadCommitted ----------------------------
(***************************************************************************)
(* The database as the handlers see it: PostgreSQL under the READ          *)
(* COMMITTED isolation that `prisma.$transaction(async (tx) => ...)` gets  *)
(* when no isolation level is asked for (TransactionInterceptor asks for   *)
(* none).  A row has one committed version (db), at most one uncommitted   *)
(* newer version (draft), and the transaction that wrote it and holds its  *)
(* row lock (holder).  Every statement reads the versions committed when   *)
(* the statement starts, overlaid with its own transaction's writes; a     *)
(* write to a row another transaction holds waits until that one ends.     *)
(*                                                                         *)
(* The component modules extend this one, give rows their meaning, and say *)
(* which statements a handler issues and in which order.                   *)
(***************************************************************************)

CONSTANTS
    Request,    \* the slots in which GraphQL or REST requests execute
    Key,        \* the primary keys of all the rows of the component's tables
    NoRequest,  \* the holder of a row nobody has locked
    Absent      \* the version of a row that is not there

ASSUME NoRequestIsNoRequest == NoRequest \notin Request

VARIABLES
    db,      \* [Key -> committed version]
    draft,   \* [Key -> newest version, committed or not]
    holder   \* [Key -> the request that wrote draft[k] and has not ended]

tables == <<db, draft, holder>>

TablesInit ==
    /\ db = [k \in Key |-> Absent]
    /\ draft = [k \in Key |-> Absent]
    /\ holder = [k \in Key |-> NoRequest]

\* What a statement of request r reads.
Visible(r) == [k \in Key |-> IF holder[k] = r THEN draft[k] ELSE db[k]]

\* The requests r has to wait for before it can write the rows K.
Blockers(r, K) == {holder[k] : k \in K} \ {r, NoRequest}

\* Keys the sequence of a table may still hand out (an id that a rolled back
\* insert used is handed out again: nobody has seen it).
Unused(Ids) == {k \in Ids : holder[k] = NoRequest /\ draft[k] = Absent}

\* Request r writes the versions rows[k] of the rows k \in DOMAIN rows and
\* keeps their locks; the caller has checked that nobody blocks it.
Put(r, rows) ==
    /\ draft' = [k \in Key |-> IF k \in DOMAIN rows THEN rows[k] ELSE draft[k]]
    /\ holder' = [k \in Key |-> IF k \in DOMAIN rows THEN r ELSE holder[k]]
    /\ UNCHANGED db

Released(r) == [k \in Key |-> IF holder[k] = r THEN NoRequest ELSE holder[k]]

\* The interceptor's callback resolved: everything r wrote becomes visible at once.
CommitTx(r) ==
    /\ db' = Visible(r)
    /\ holder' = Released(r)
    /\ UNCHANGED draft

\* The interceptor's callback threw, the transaction timed out, the server
\* chose it as a deadlock victim, or the process died: nothing r wrote stays.
RollbackTx(r) ==
    /\ draft' = [k \in Key |-> IF holder[k] = r THEN db[k] ELSE draft[k]]
    /\ holder' = Released(r)
    /\ UNCHANGED db
==============================================================================
