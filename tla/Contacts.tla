------------------------------- MODULE Contacts -------------------------------
(***************************************************************************)
(* The social graph (src/src/contact): invites, contacts and user blocks.  *)
(*                                                                         *)
(* A request of one of the seven mutations starts when the guards and the  *)
(* argument pipes have read what they need (outside the transaction, so    *)
(* what they read may be stale later).  It then issues its SQL statements  *)
(* one by one, in the order Script gives, inside the transaction the       *)
(* TransactionInterceptor opened; requests in different slots interleave   *)
(* between any two statements.  A validator that throws, a unique index    *)
(* that refuses a row, and Abort (timeout, deadlock victim, crash) all     *)
(* roll the transaction back.                                              *)
(***************************************************************************)
EXTENDS ReadCommitted, Naturals, FiniteSets, Sequences, Relation

CONSTANTS
    User,                          \* the registered users, never deleted here
    Admin,                         \* those of them whose role is ADMIN
    NoUser,                        \* removedByUserId = null
    InviteId, ContactId, BlockId,  \* primary keys: the bounds on the rows ever inserted
    Offered                        \* the mutations clients send: all, or some to bound a run

ASSUME AdminsAreUsers == Admin \subseteq User /\ NoUser \notin User
ASSUME KeysAreIds ==
    /\ Key = InviteId \cup ContactId \cup BlockId
    /\ InviteId \cap ContactId = {}
    /\ InviteId \cap BlockId = {}
    /\ ContactId \cap BlockId = {}

VARIABLE req   \* [Request -> what the handler running in that slot knows]

vars == <<db, draft, holder, req>>

InviteStatus == {"PENDING", "ACCEPTED", "REJECTED"}

\* reactedAt is null exactly while the status is PENDING, and removedAt is null
\* exactly while removedByUserId is: the code always sets them together.
InviteRow == [inviter : User, invitee : User, status : InviteStatus]
ContactRow == [source : User, target : User, invite : InviteId, removedBy : User \cup {NoUser}]
BlockRow == [blocked : User, blocker : User, removedBy : User \cup {NoUser}]

ASSUME AbsentIsNoRow == Absent \notin InviteRow \cup ContactRow \cup BlockRow

\* The statements of each handler in the order the code awaits them.
Script == [
    none |-> <<"idle">>,
    createInvite |-> <<"validateInviteNotExists", "validateReverseInviteNotExists",
        "validateContactNotExists", "validateInviterIsNotBlocked",
        "validateInviteeIsNotBlocked", "insertInvite", "commit">>,
    acceptInvite |-> <<"validateInviteIsPending", "validateContactNotExists",
        "validateInviterIsNotBlocked", "validateInviteeIsNotBlocked",
        "setInviteAccepted", "insertContact", "insertReverseContact", "commit">>,
    rejectInvite |-> <<"validateInviteIsPending", "validateContactNotExists",
        "validateInviterIsNotBlocked", "validateInviteeIsNotBlocked",
        "setInviteRejected", "commit">>,
    rejectInviteAndBlockUser |-> <<"validateInviteIsPending", "validateContactNotExists",
        "validateInviterIsNotBlocked", "validateInviteeIsNotBlocked",
        "setInviteRejected", "insertBlock", "findContactPair", "removeContactPair",
        "commit">>,
    blockUser |-> <<"validateNoUserBlockExists", "insertBlock", "findContactPair",
        "removeContactPair", "commit">>,
    unblockUser |-> <<"validateUserBlockExists", "removeUserBlock", "commit">>,
    deleteContact |-> <<"removeDirectContact", "getReverseContact",
        "removeReverseContact", "commit">>]

Op == DOMAIN Script

ASSUME OfferedAreOps == Offered \subseteq Op \ {"none"}

\* a and b are the two users in the order the services pass them: inviter and
\* invitee, blocked and blocker, source and target.
Idle == [op |-> "none", pc |-> 1, caller |-> NoUser, a |-> NoUser, b |-> NoUser,
         row |-> Absent, found |-> {}]

RequestState ==
    [op : Op, pc : Nat, caller : User \cup {NoUser}, a : User \cup {NoUser},
     b : User \cup {NoUser}, row : Key \cup {Absent}, found : SUBSET ContactId]

Current(r) == Script[req[r].op][req[r].pc]
At(r, statement) == Current(r) = statement

-------------------------------------------------------------------------------
(* Rows that count: what the partial unique indexes range over and what the *)
(* `count` queries look for.                                                *)

PendingInvite(row, inviter, invitee) ==
    row # Absent /\ row.inviter = inviter /\ row.invitee = invitee /\ row.status = "PENDING"
ActiveContact(row, source, target) ==
    row # Absent /\ row.source = source /\ row.target = target /\ row.removedBy = NoUser
ActiveBlock(row, blocked, blocker) ==
    row # Absent /\ row.blocked = blocked /\ row.blocker = blocker /\ row.removedBy = NoUser

\* The versions, committed or not, that an insert meets in the unique index.
SameInvite(a, b) == {i \in InviteId : PendingInvite(db[i], a, b) \/ PendingInvite(draft[i], a, b)}
SameContact(a, b) == {c \in ContactId : ActiveContact(db[c], a, b) \/ ActiveContact(draft[c], a, b)}
SameBlock(a, b) == {k \in BlockId : ActiveBlock(db[k], a, b) \/ ActiveBlock(draft[k], a, b)}

isInviteExists(r, a, b) == \E i \in InviteId : PendingInvite(Visible(r)[i], a, b)
isContactExists(r, a, b) == \E c \in ContactId : ActiveContact(Visible(r)[c], a, b)
isUserBlockExists(r, blocked, blocker) ==
    \E k \in BlockId : ActiveBlock(Visible(r)[k], blocked, blocker)

-------------------------------------------------------------------------------
(* How a request moves on.                                                  *)

Advance(r) == req' = [req EXCEPT ![r].pc = @ + 1]

Throw(r) == RollbackTx(r) /\ req' = [req EXCEPT ![r] = Idle]

\* `if (...) throw`: the handler goes on with the next statement or rolls back.
Validate(r, ok) ==
    \/ ok /\ Advance(r) /\ UNCHANGED tables
    \/ ~ok /\ Throw(r)

\* A query whose answer the handler keeps.
Find(r, rows) ==
    /\ req' = [req EXCEPT ![r].found = rows, ![r].pc = @ + 1]
    /\ UNCHANGED tables

\* The rows whose locks or index entries the current statement needs.
Needs(r) ==
    CASE Current(r) \in {"setInviteAccepted", "setInviteRejected", "removeDirectContact"}
            -> {req[r].row}
      [] Current(r) \in {"removeContactPair", "removeReverseContact"} -> req[r].found
      [] Current(r) = "removeUserBlock"
            -> {k \in BlockId : ActiveBlock(Visible(r)[k], req[r].a, req[r].b)}
      [] Current(r) = "insertInvite" -> SameInvite(req[r].a, req[r].b)
      [] Current(r) = "insertContact" -> SameContact(req[r].a, req[r].b)
      [] Current(r) = "insertReverseContact" -> SameContact(req[r].b, req[r].a)
      [] Current(r) = "insertBlock" -> SameBlock(req[r].a, req[r].b)
      [] OTHER -> {}

WaitsFor(r) == Blockers(r, Needs(r))

\* An INSERT into a table with a partial unique index.  When the ids run out
\* (a bound of the model) it fails as a refused row does.
Insert(r, Ids, row, duplicate) ==
    \/ /\ ~duplicate /\ Unused(Ids) # {}
       /\ Put(r, [k \in {CHOOSE k \in Unused(Ids) : TRUE} |-> row])
       /\ Advance(r)
    \/ (duplicate \/ Unused(Ids) = {}) /\ Throw(r)

\* An UPDATE of the rows K.
Update(r, K, Change(_)) ==
    /\ Put(r, [k \in K |-> Change(Visible(r)[k])])
    /\ Advance(r)

Accepted(row) == [row EXCEPT !.status = "ACCEPTED"]
\* Mutant: a status the enum does not have.
RejectedAsDeclined(row) == [row EXCEPT !.status = "DECLINED"]
Rejected(row) == [row EXCEPT !.status = "REJECTED"]
\* Mutant: removing what is removed puts it back.
ToggledBy(u, row) == [row EXCEPT !.removedBy = IF row.removedBy = NoUser THEN u ELSE NoUser]
RemovedBy(u, row) == [row EXCEPT !.removedBy = u]

-------------------------------------------------------------------------------
(* Guards, pipes and the start of a handler.                                *)

\* @Access.allow: { self: <subject> } with the permission every user gets by
\* default, or the role ADMIN.
Entitled(caller, subject) == caller = subject \/ caller \in Admin

Start(r, op, caller, a, b, row) ==
    /\ req[r].op = "none"
    /\ op \in Offered
    /\ req' = [req EXCEPT ![r] = [op |-> op, pc |-> 1, caller |-> caller, a |-> a, b |-> b,
                                  row |-> row, found |-> {}]]
    /\ UNCHANGED tables

\* The handlers of invites do not use the caller once the guard let it in,
\* except rejectInviteAndBlockUser.  Nothing asks that inviter # invitee.
createInvite(r) == \E a, b \in User : Start(r, "createInvite", NoUser, a, b, Absent)

acceptInvite(r) ==
    \E i \in InviteId :
        /\ db[i] # Absent
        /\ Start(r, "acceptInvite", NoUser, db[i].inviter, db[i].invitee, i)

rejectInvite(r) ==
    \E i \in InviteId :
        /\ db[i] # Absent
        /\ Start(r, "rejectInvite", NoUser, db[i].inviter, db[i].invitee, i)

rejectInviteAndBlockUser(r) ==
    \E i \in InviteId, caller \in User :
        /\ db[i] # Absent
        /\ Entitled(caller, db[i].invitee)
        /\ Start(r, "rejectInviteAndBlockUser", caller, db[i].inviter, db[i].invitee, i)

\* SelfBlockForbiddenError is thrown before anything is read.
blockUser(r) ==
    \E blocked, blocker, caller \in User :
        /\ Entitled(caller, blocker)
        /\ blocked # blocker
        /\ Start(r, "blockUser", caller, blocked, blocker, Absent)

unblockUser(r) ==
    \E blocked, blocker, caller \in User :
        /\ Entitled(caller, blocker)
        /\ blocked # blocker
        /\ Start(r, "unblockUser", caller, blocked, blocker, Absent)

\* Mutant: nobody asks who is calling.
deleteContactUnguarded(r) ==
    \E c \in ContactId, caller \in User :
        /\ db[c] # Absent
        /\ db[c].removedBy = NoUser
        /\ Start(r, "deleteContact", caller, db[c].source, db[c].target, c)

\* validateDeleteContact looks at the contact ContactByIdPipe read, never at
\* the row inside the transaction: its verdict belongs to this step.
deleteContact(r) ==
    \E c \in ContactId, caller \in User :
        /\ db[c] # Absent
        /\ Entitled(caller, db[c].source)
        /\ db[c].removedBy = NoUser
        /\ Start(r, "deleteContact", caller, db[c].source, db[c].target, c)

Begin(r) ==
    \/ createInvite(r)
    \/ acceptInvite(r)
    \/ rejectInvite(r)
    \/ rejectInviteAndBlockUser(r)
    \/ blockUser(r)
    \/ unblockUser(r)
    \/ deleteContact(r)

-------------------------------------------------------------------------------
(* The validators: each is one query inside the transaction.                *)

validateInviteNotExists(r) ==
    /\ At(r, "validateInviteNotExists")
    /\ Validate(r, ~isInviteExists(r, req[r].a, req[r].b))

\* Mutant: the reverse check looks in the same direction again.
validateInviteNotExistsTwice(r) ==
    /\ At(r, "validateReverseInviteNotExists")
    /\ Validate(r, ~isInviteExists(r, req[r].a, req[r].b))

validateReverseInviteNotExists(r) ==
    /\ At(r, "validateReverseInviteNotExists")
    /\ Validate(r, ~isInviteExists(r, req[r].b, req[r].a))

\* Mutant: the status of the invite is not looked at.
validateNothing(r) ==
    /\ At(r, "validateInviteIsPending")
    /\ Validate(r, TRUE)

validateInviteIsPending(r) ==
    /\ At(r, "validateInviteIsPending")
    /\ Validate(r, Visible(r)[req[r].row].status = "PENDING")

validateContactNotExists(r) ==
    /\ At(r, "validateContactNotExists")
    /\ Validate(r, ~isContactExists(r, req[r].a, req[r].b))

validateInviterIsNotBlocked(r) ==
    /\ At(r, "validateInviterIsNotBlocked")
    /\ Validate(r, ~isUserBlockExists(r, req[r].a, req[r].b))

\* Mutant: the two users are passed in the wrong order.
validateInviterIsNotBlockedTwice(r) ==
    /\ At(r, "validateInviteeIsNotBlocked")
    /\ Validate(r, ~isUserBlockExists(r, req[r].a, req[r].b))

validateInviteeIsNotBlocked(r) ==
    /\ At(r, "validateInviteeIsNotBlocked")
    /\ Validate(r, ~isUserBlockExists(r, req[r].b, req[r].a))

validateNoUserBlockExists(r) ==
    /\ At(r, "validateNoUserBlockExists")
    /\ Validate(r, ~isUserBlockExists(r, req[r].a, req[r].b))

validateUserBlockExists(r) ==
    /\ At(r, "validateUserBlockExists")
    /\ Validate(r, isUserBlockExists(r, req[r].a, req[r].b))

-------------------------------------------------------------------------------
(* The statements that write.                                               *)

insertInvite(r) ==
    /\ At(r, "insertInvite")
    /\ WaitsFor(r) = {}
    /\ Insert(r, InviteId, [inviter |-> req[r].a, invitee |-> req[r].b, status |-> "PENDING"],
              isInviteExists(r, req[r].a, req[r].b))

\* Mutant: the contacts are made and the invite is forgotten.
setNothing(r) ==
    /\ At(r, "setInviteAccepted")
    /\ Advance(r)
    /\ UNCHANGED tables

\* Updated by primary key: the status read before is not looked at again.
setInviteAccepted(r) ==
    /\ At(r, "setInviteAccepted")
    /\ WaitsFor(r) = {}
    /\ Update(r, {req[r].row}, Accepted)

\* Mutant: a rejected invite is stored as an accepted one.
setInviteAcceptedInstead(r) ==
    /\ At(r, "setInviteRejected")
    /\ WaitsFor(r) = {}
    /\ Update(r, {req[r].row}, Accepted)

setInviteRejected(r) ==
    /\ At(r, "setInviteRejected")
    /\ WaitsFor(r) = {}
    /\ Update(r, {req[r].row}, Rejected)

\* Mutant: no unique index on contacts.
createContactUnindexed(r, source, target) ==
    Insert(r, ContactId,
           [source |-> source, target |-> target, invite |-> req[r].row, removedBy |-> NoUser],
           FALSE)

createContact(r, source, target) ==
    Insert(r, ContactId,
           [source |-> source, target |-> target, invite |-> req[r].row, removedBy |-> NoUser],
           isContactExists(r, source, target))

insertContact(r) ==
    /\ At(r, "insertContact")
    /\ WaitsFor(r) = {}
    /\ createContact(r, req[r].a, req[r].b)

\* Mutant: the second row of the pair is forgotten.
skipReverseContact(r) ==
    /\ At(r, "insertReverseContact")
    /\ Advance(r)
    /\ UNCHANGED tables

insertReverseContact(r) ==
    /\ At(r, "insertReverseContact")
    /\ WaitsFor(r) = {}
    /\ createContact(r, req[r].b, req[r].a)

\* Mutant: no unique index on blocks.
insertBlockUnindexed(r) ==
    /\ At(r, "insertBlock")
    /\ Insert(r, BlockId, [blocked |-> req[r].a, blocker |-> req[r].b, removedBy |-> NoUser], FALSE)

insertBlock(r) ==
    /\ At(r, "insertBlock")
    /\ WaitsFor(r) = {}
    /\ Insert(r, BlockId, [blocked |-> req[r].a, blocker |-> req[r].b, removedBy |-> NoUser],
              isUserBlockExists(r, req[r].a, req[r].b))

\* Mutant: only the contact of the blocked user is found.
findDirectContact(r) ==
    /\ At(r, "findContactPair")
    /\ Find(r, {c \in ContactId : ActiveContact(Visible(r)[c], req[r].a, req[r].b)})

\* removeContactPairByUserIds is one UPDATE: it picks the active rows of the
\* pair in its snapshot, waits for their locks, and updates those that are
\* still active then.
findContactPair(r) ==
    /\ At(r, "findContactPair")
    /\ Find(r, {c \in ContactId : \/ ActiveContact(Visible(r)[c], req[r].a, req[r].b)
                                  \/ ActiveContact(Visible(r)[c], req[r].b, req[r].a)})

removeContactPair(r) ==
    /\ At(r, "removeContactPair")
    /\ WaitsFor(r) = {}
    /\ Update(r, {c \in req[r].found : Visible(r)[c].removedBy = NoUser},
              LAMBDA row : RemovedBy(req[r].caller, row))

removeUserBlock(r) ==
    /\ At(r, "removeUserBlock")
    /\ WaitsFor(r) = {}
    /\ \/ Needs(r) # {} /\ Update(r, Needs(r), LAMBDA row : RemovedBy(req[r].caller, row))
       \/ Needs(r) = {} /\ Throw(r)

\* By primary key, whatever became of the row since the pipe read it.
removeDirectContact(r) ==
    /\ At(r, "removeDirectContact")
    /\ WaitsFor(r) = {}
    /\ Update(r, {req[r].row}, LAMBDA row : RemovedBy(req[r].caller, row))

\* Mutant: source and target are not swapped.
getSameContact(r) ==
    /\ At(r, "getReverseContact")
    /\ Find(r, {c \in ContactId : ActiveContact(Visible(r)[c], req[r].a, req[r].b)})

getReverseContact(r) ==
    /\ At(r, "getReverseContact")
    /\ Find(r, {c \in ContactId : ActiveContact(Visible(r)[c], req[r].b, req[r].a)})

\* With no reverse contact found nothing is left to do.
removeReverseContact(r) ==
    /\ At(r, "removeReverseContact")
    /\ WaitsFor(r) = {}
    /\ Update(r, req[r].found, LAMBDA row : RemovedBy(req[r].caller, row))

-------------------------------------------------------------------------------
(* The end of a request.                                                    *)

commit(r) ==
    /\ At(r, "commit")
    /\ CommitTx(r)
    /\ req' = [req EXCEPT ![r] = Idle]

\* Prisma's 5 s limit on an interactive transaction, a lost connection, a crash.
Abort(r) == req[r].op # "none" /\ Throw(r)

\* PostgreSQL breaks a cycle of transactions waiting for each other.
InDeadlock(r) ==
    /\ WaitsFor(r) # {}
    /\ TransitiveClosure([x, y \in Request |-> y \in WaitsFor(x)], Request)[r, r]
\* Mutant: nobody breaks a cycle of waits.
NoVictim(r) == FALSE
DeadlockVictim(r) == InDeadlock(r) /\ Abort(r)

Validators(r) ==
    \/ validateInviteNotExists(r)
    \/ validateReverseInviteNotExists(r)
    \/ validateInviteIsPending(r)
    \/ validateContactNotExists(r)
    \/ validateInviterIsNotBlocked(r)
    \/ validateInviteeIsNotBlocked(r)
    \/ validateNoUserBlockExists(r)
    \/ validateUserBlockExists(r)

Writes(r) ==
    \/ insertInvite(r)
    \/ setInviteAccepted(r)
    \/ setInviteRejected(r)
    \/ insertContact(r)
    \/ insertReverseContact(r)
    \/ insertBlock(r)
    \/ findContactPair(r)
    \/ removeContactPair(r)
    \/ removeUserBlock(r)
    \/ removeDirectContact(r)
    \/ getReverseContact(r)
    \/ removeReverseContact(r)

Run(r) == Validators(r) \/ Writes(r) \/ commit(r)

Init == TablesInit /\ req = [r \in Request |-> Idle]

Next == \E r \in Request : Begin(r) \/ Run(r) \/ Abort(r)

Spec == Init /\ [][Next]_vars

\* The event loop keeps resolving a handler's promises and PostgreSQL grants
\* row locks in the order they were asked for, so a request whose statement
\* can run again and again does run; the deadlock detector does its work.
Fairness == \A r \in Request : SF_vars(Run(r)) /\ WF_vars(DeadlockVictim(r))
FairSpec == Spec /\ Fairness

-------------------------------------------------------------------------------
(* What holds however requests interleave.                                  *)

RowOf(k) ==
    IF k \in InviteId THEN InviteRow ELSE IF k \in ContactId THEN ContactRow ELSE BlockRow

Rows == InviteRow \cup ContactRow \cup BlockRow
Versioned == {t \in [Key -> Rows \cup {Absent}] : \A k \in Key : t[k] \in RowOf(k) \cup {Absent}}

\* Every version of a row, committed or not, is a row of its own table, locks
\* are held by requests, and a request is what its handler can know.
TypeOK ==
    /\ db \in Versioned
    /\ draft \in Versioned
    /\ holder \in [Key -> Request \cup {NoRequest}]
    /\ req \in [Request -> RequestState]

\* The invites, contacts and blocks the partial unique indexes protect are
\* unique however the checks of two createInvite, acceptInvite or blockUser
\* requests overlap.
UniqueRows ==
    \A a, b \in User :
        /\ \A i, j \in InviteId : PendingInvite(db[i], a, b) /\ PendingInvite(db[j], a, b) => i = j
        /\ \A c, d \in ContactId : ActiveContact(db[c], a, b) /\ ActiveContact(db[d], a, b) => c = d
        /\ \A k, l \in BlockId : ActiveBlock(db[k], a, b) /\ ActiveBlock(db[l], a, b) => k = l

Mirrors(c, d) == c.source = d.target /\ c.target = d.source /\ c.invite = d.invite

\* createContactPair is all or nothing: every contact row was committed
\* together with the row of the other direction.
ContactsComeInPairs ==
    \A c \in ContactId : db[c] # Absent =>
        \E d \in ContactId \ {c} : db[d] # Absent /\ Mirrors(db[c], db[d])

\* A contact comes from an invite between the same two users that is closed.
ContactsFromAnsweredInvites ==
    \A c \in ContactId : db[c] # Absent =>
        LET i == db[db[c].invite] IN
        /\ i # Absent
        /\ i.status # "PENDING"
        /\ {db[c].source, db[c].target} = {i.inviter, i.invitee}

\* Nobody is their own contact.  createInvite lets a user invite themself and
\* acceptInvite lets them accept: only the second row of createContactPair
\* running into the unique index undoes it.
NoSelfContact == \A c \in ContactId : db[c] # Absent => db[c].source # db[c].target

\* A contact is removed by one of the two users or by an admin, although the
\* guard that checked the caller ran before the transaction, on another read.
RemovedByEntitled ==
    \A c \in ContactId :
        db[c] # Absent => db[c].removedBy \in {NoUser, db[c].source, db[c].target} \cup Admin

\* Rows are history: none disappears, an answered invite is never pending
\* again, a removed contact or block never comes back.
RowsAreHistory ==
    [][\A k \in Key : db[k] # Absent =>
        /\ db'[k] # Absent
        /\ k \in InviteId /\ db[k].status # "PENDING" => db'[k].status # "PENDING"
        /\ k \notin InviteId /\ db[k].removedBy # NoUser => db'[k].removedBy # NoUser]_db

\* Every request ends: waits for row locks and index entries are resolved by
\* the other request's end or by the deadlock detector.
RequestsEnd == \A r \in Request : req[r].op # "none" ~> req[r].op = "none"

-------------------------------------------------------------------------------
(* What holds when requests do not overlap (one slot); some of it is lost   *)
(* with two, and the runs that show it name these definitions too.          *)

\* A block removes the contact and keeps a new one from being made.
NoContactAcrossBlock ==
    \A a, b \in User :
        ~ /\ \E c \in ContactId : ActiveContact(db[c], a, b)
          /\ \E k \in BlockId : ActiveBlock(db[k], a, b) \/ ActiveBlock(db[k], b, a)

\* The two directions of a contact are active or removed together.
SymmetricContacts ==
    \A a, b \in User :
        (\E c \in ContactId : ActiveContact(db[c], a, b))
            => \E c \in ContactId : ActiveContact(db[c], b, a)

\* Between two users at most one invite is open, whoever sent it.
OneOpenInviteBetween ==
    \A a, b \in User : \A i, j \in InviteId :
        PendingInvite(db[i], a, b) /\ PendingInvite(db[j], b, a) => i = j

\* Contacts exist for the accepted invites, one pair for each, and for no other.
ContactsIffAccepted ==
    \A i \in InviteId : db[i] # Absent =>
        Cardinality({c \in ContactId : db[c] # Absent /\ db[c].invite = i})
            = (IF db[i].status = "ACCEPTED" THEN 2 ELSE 0)

\* An answer is final.
AnswerIsFinal ==
    [][\A i \in InviteId :
        db[i] # Absent /\ db[i].status # "PENDING" => db'[i] = db[i]]_db

Graph == INSTANCE SocialGraph WITH
    Person <- User,
    pending <- {<<db[i].inviter, db[i].invitee>> :
                    i \in {i \in InviteId : db[i] # Absent /\ db[i].status = "PENDING"}},
    friends <- {{db[c].source, db[c].target} :
                    c \in {c \in ContactId : db[c] # Absent /\ db[c].removedBy = NoUser}},
    blocks <- {<<db[k].blocked, db[k].blocker>> :
                    k \in {k \in BlockId : db[k] # Absent /\ db[k].removedBy = NoUser}}

\* Requests that do not overlap implement the social graph.
ImplementsGraph == Graph!GraphSpec
===============================================================================
