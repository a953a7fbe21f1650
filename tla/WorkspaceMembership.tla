-------------------------- MODULE WorkspaceMembership --------------------------
(***************************************************************************)
(* The members of one workspace (src/src/workspace-membership): invites,   *)
(* memberships, and the permissions members hold.                          *)
(*                                                                         *)
(* Requests execute as in Contacts: access guard and pipes read committed  *)
(* rows outside the transaction, then the handler issues the statements of *)
(* its Script inside it.  In this component most status checks look at the *)
(* row the pipe read and belong to the start of the request.               *)
(***************************************************************************)
EXTENDS ReadCommitted, Naturals, FiniteSets, Sequences, Functions

CONSTANTS
    User, Admin,         \* the users, and those whose role is ADMIN
    Owner,               \* the workspace's owner; ownerId never changes
    NoUser,              \* removedByUserId = null
    Permission,          \* the workspace permissions of the instance
    PermissionLists,     \* the permissions[] arguments clients send
    Withheld,            \* permissions the owner and the admins never hand out here
    InviteId, MemberId,  \* primary keys: the bounds on the rows ever inserted
    Offered              \* the mutations clients send

ASSUME PeopleAreUsers == Admin \subseteq User /\ Owner \in User /\ NoUser \notin User
ASSUME ListsArePermissions == PermissionLists \subseteq Seq(Permission)
ASSUME PermissionRowsHaveKeys ==
    /\ Key = InviteId \cup MemberId \cup (User \X Permission)
    /\ InviteId \cap MemberId = {}
    /\ (InviteId \cup MemberId) \cap (User \X Permission) = {}

VARIABLE req   \* [Request -> what the handler running in that slot knows]

vars == <<db, draft, holder, req>>

InviteRow == [inviter : User, invitee : User, permissions : PermissionLists,
              status : {"PENDING", "ACCEPTED", "REJECTED", "CANCELLED"}]
MemberRow == [user : User, invite : InviteId, removedBy : User \cup {NoUser}]
\* UserWorkspacePermission has no column but its key, user and permission:
\* the row at <<user, permission>> is there or not.
Granted == [granted |-> TRUE]
PermissionRow == {Granted}

ASSUME AbsentIsNoRow == Absent \notin InviteRow \cup MemberRow \cup PermissionRow

\* The statements of each handler in the order the code awaits them.
Script == [
    none |-> <<"idle">>,
    createWorkspaceInvite |-> <<"validateInviteNotExists", "validateNotAlreadyMember",
        "validateInviterHasPermissions", "insertInvite", "commit">>,
    acceptWorkspaceInvite |-> <<"validateNotAlreadyMember", "setInviteStatus",
        "insertMember", "seedPermissions", "commit">>,
    rejectWorkspaceInvite |-> <<"setInviteStatus", "commit">>,
    cancelWorkspaceInvite |-> <<"setInviteStatus", "commit">>,
    grantWorkspaceMemberPermissions |-> <<"validateActorIsMember", "validateActorHolds",
        "insertPermissions", "commit">>,
    revokeWorkspaceMemberPermissions |-> <<"validateActorIsMember", "validateActorHolds",
        "deletePermissions", "commit">>,
    removeMember |-> <<"validateNotOwner", "setMemberRemoved", "revokeAllPermissions",
        "commit">>]

Op == DOMAIN Script

ASSUME OfferedAreOps == Offered \subseteq Op \ {"none"}

Idle == [op |-> "none", pc |-> 1, caller |-> NoUser, subject |-> NoUser, row |-> Absent,
         list |-> <<>>]

\* subject is the user the request is about: invitee or member.
RequestState ==
    [op : Op, pc : Nat, caller : User \cup {NoUser}, subject : User \cup {NoUser},
     row : InviteId \cup MemberId \cup {Absent}, list : PermissionLists \cup {<<>>}]

Current(r) == Script[req[r].op][req[r].pc]
At(r, statement) == Current(r) = statement

-------------------------------------------------------------------------------
PendingInvite(row, user) == row # Absent /\ row.invitee = user /\ row.status = "PENDING"
ActiveMember(row, user) == row # Absent /\ row.user = user /\ row.removedBy = NoUser

\* The versions, committed or not, that an insert meets in a unique index; the
\* one on workspace_member.invite_id covers removed members too.
SameInvite(u) == {i \in InviteId : PendingInvite(db[i], u) \/ PendingInvite(draft[i], u)}
SameMember(u, i) ==
    {m \in MemberId : \/ ActiveMember(db[m], u) \/ ActiveMember(draft[m], u)
                      \/ db[m] # Absent /\ db[m].invite = i
                      \/ draft[m] # Absent /\ draft[m].invite = i}

isMember(t, u) == \E m \in MemberId : ActiveMember(t[m], u)
Held(t, u, list) == {p \in Range(list) : t[<<u, p>>] # Absent}

\* granted.length === permissions.length: a permission listed twice is counted
\* once on the left and twice on the right.
HoldsAll(t, u, list) == Cardinality(Held(t, u, list)) = Len(list)

\* The rows of user u for the permissions of a list.
RowsOf(u, list) == {<<u, p>> : p \in Range(list)}

-------------------------------------------------------------------------------
Advance(r) == req' = [req EXCEPT ![r].pc = @ + 1]
Throw(r) == RollbackTx(r) /\ req' = [req EXCEPT ![r] = Idle]

Validate(r, ok) ==
    \/ ok /\ Advance(r) /\ UNCHANGED tables
    \/ ~ok /\ Throw(r)

\* Mutant: a removal takes the permissions of the request's list only.
DeletesListed(r) == {k \in RowsOf(req[r].subject, req[r].list) : Visible(r)[k] # Absent}

\* A DELETE locks the rows it finds; one that waits finds them again when it
\* goes on.  It neither sees nor waits for rows not yet committed.
Deletes(r) ==
    {k \in (IF At(r, "deletePermissions") THEN RowsOf(req[r].subject, req[r].list)
            ELSE {req[r].subject} \X Permission) : Visible(r)[k] # Absent}

Needs(r) ==
    CASE Current(r) \in {"setInviteStatus", "setMemberRemoved"} -> {req[r].row}
      [] Current(r) = "insertInvite" -> SameInvite(req[r].subject)
      [] Current(r) = "insertMember" -> SameMember(req[r].subject, req[r].row)
      [] Current(r) \in {"seedPermissions", "insertPermissions"}
            -> RowsOf(req[r].subject, req[r].list)
      [] Current(r) \in {"deletePermissions", "revokeAllPermissions"} -> Deletes(r)
      [] OTHER -> {}

WaitsFor(r) == Blockers(r, Needs(r))

Write(r, rows) == Put(r, rows) /\ Advance(r)

\* An INSERT of one row; when the ids run out (a bound) it fails as a refused one.
Insert(r, Ids, row, duplicate) ==
    \/ /\ ~duplicate /\ Unused(Ids) # {}
       /\ Write(r, [k \in {CHOOSE k \in Unused(Ids) : TRUE} |-> row])
    \/ (duplicate \/ Unused(Ids) = {}) /\ Throw(r)

-------------------------------------------------------------------------------
(* Access rules, pipes and the start of a handler.                          *)

\* WorkspacePermissionAccessStrategy: an active member holding the permission.
Trusted(u, permission) ==
    isMember(db, u) /\ permission \in Permission /\ db[<<u, permission>>] # Absent

\* A bound on the inputs, not a rule of the code.
HandsOut(caller, list) == caller \in Admin \cup {Owner} => Range(list) \cap Withheld = {}

Start(r, op, caller, subject, row, list) ==
    /\ req[r].op = "none"
    /\ op \in Offered
    /\ req' = [req EXCEPT ![r] = [op |-> op, pc |-> 1, caller |-> caller,
                                  subject |-> subject, row |-> row, list |-> list]]
    /\ UNCHANGED tables

\* An admin may create the invite in the name of any inviter.
createWorkspaceInvite(r) ==
    \E caller, inviter, invitee \in User, list \in PermissionLists :
        /\ \/ /\ caller = inviter
              /\ caller = Owner \/ Trusted(caller, "CREATE_WORKSPACE_INVITE")
           \/ caller \in Admin
        /\ HandsOut(caller, list)
        /\ Start(r, "createWorkspaceInvite", inviter, invitee, Absent, list)

\* Mutant: the status of the invite the pipe read is not looked at.
AnswerAny(r, op) ==
    \E i \in InviteId :
        /\ db[i] # Absent
        /\ Start(r, op, NoUser, db[i].invitee, i, db[i].permissions)

\* The invite the pipe reads must be pending; nothing looks at it again.
Answer(r, op) ==
    \E i \in InviteId :
        /\ db[i] # Absent
        /\ db[i].status = "PENDING"
        /\ Start(r, op, NoUser, db[i].invitee, i, db[i].permissions)

acceptWorkspaceInvite(r) == Answer(r, "acceptWorkspaceInvite")
rejectWorkspaceInvite(r) == Answer(r, "rejectWorkspaceInvite")
cancelWorkspaceInvite(r) == Answer(r, "cancelWorkspaceInvite")

\* Whether the member is still active is not asked.
grantWorkspaceMemberPermissions(r) ==
    \E m \in MemberId, caller \in User, list \in PermissionLists :
        /\ db[m] # Absent
        /\ caller \in Admin \cup {Owner} \/ Trusted(caller, "GRANT_WORKSPACE_PERMISSION")
        /\ HandsOut(caller, list)
        /\ Start(r, "grantWorkspaceMemberPermissions", caller, db[m].user, m, list)

revokeWorkspaceMemberPermissions(r) ==
    \E m \in MemberId, caller \in User, list \in PermissionLists :
        /\ db[m] # Absent
        /\ caller \in Admin \cup {Owner} \/ Trusted(caller, "REVOKE_WORKSPACE_PERMISSION")
        /\ Start(r, "revokeWorkspaceMemberPermissions", caller, db[m].user, m, list)

\* leaveWorkspace and removeWorkspaceMember run the same handler.
Remove(r, MayRemove(_, _)) ==
    \E m \in MemberId, caller \in User :
        /\ db[m] # Absent
        /\ MayRemove(caller, db[m].user)
        /\ db[m].removedBy = NoUser
        /\ Start(r, "removeMember", caller, db[m].user, m, <<>>)

leaveWorkspace(r) == Remove(r, LAMBDA caller, user : caller = user \/ caller \in Admin)

removeWorkspaceMember(r) ==
    Remove(r, LAMBDA caller, user :
        caller \in Admin \cup {Owner} \/ Trusted(caller, "REMOVE_WORKSPACE_MEMBER"))

Begin(r) ==
    \/ createWorkspaceInvite(r)
    \/ acceptWorkspaceInvite(r)
    \/ rejectWorkspaceInvite(r)
    \/ cancelWorkspaceInvite(r)
    \/ grantWorkspaceMemberPermissions(r)
    \/ revokeWorkspaceMemberPermissions(r)
    \/ leaveWorkspace(r)
    \/ removeWorkspaceMember(r)

-------------------------------------------------------------------------------
(* The statements.  For createWorkspaceInvite the caller is the inviter.    *)

validateInviteNotExists(r) ==
    /\ At(r, "validateInviteNotExists")
    /\ Validate(r, ~\E i \in InviteId : PendingInvite(Visible(r)[i], req[r].subject))

\* Mutant: members can be invited again.
validateNothing(r) ==
    /\ At(r, "validateNotAlreadyMember")
    /\ Validate(r, TRUE)

validateNotAlreadyMember(r) ==
    /\ At(r, "validateNotAlreadyMember")
    /\ Validate(r, ~isMember(Visible(r), req[r].subject))

\* Whether the inviter is a member is not asked here.
validateInviterHasPermissions(r) ==
    /\ At(r, "validateInviterHasPermissions")
    /\ Validate(r, \/ req[r].list = <<>>
                   \/ req[r].caller = Owner
                   \/ HoldsAll(Visible(r), req[r].caller, req[r].list))

insertInvite(r) ==
    /\ At(r, "insertInvite")
    /\ WaitsFor(r) = {}
    /\ Insert(r, InviteId,
              [inviter |-> req[r].caller, invitee |-> req[r].subject,
               permissions |-> req[r].list, status |-> "PENDING"],
              \E i \in InviteId : PendingInvite(Visible(r)[i], req[r].subject))

\* Mutant: a status the enum does not have.
OutcomeRevoked == [acceptWorkspaceInvite |-> "ACCEPTED", rejectWorkspaceInvite |-> "REJECTED",
                   cancelWorkspaceInvite |-> "REVOKED"]
\* Mutant: a rejection is stored as an acceptance.
OutcomeAlwaysAccepted == [acceptWorkspaceInvite |-> "ACCEPTED",
    rejectWorkspaceInvite |-> "ACCEPTED", cancelWorkspaceInvite |-> "CANCELLED"]
Outcome == [acceptWorkspaceInvite |-> "ACCEPTED", rejectWorkspaceInvite |-> "REJECTED",
            cancelWorkspaceInvite |-> "CANCELLED"]

\* Mutant: the member is made and the invite forgotten.
setNothing(r) ==
    /\ At(r, "setInviteStatus")
    /\ Advance(r)
    /\ UNCHANGED tables

\* Updated by primary key, whatever the status is by now.
setInviteStatus(r) ==
    /\ At(r, "setInviteStatus")
    /\ WaitsFor(r) = {}
    /\ Write(r, [i \in {req[r].row} |->
                    [Visible(r)[i] EXCEPT !.status = Outcome[req[r].op]]])

\* Mutant: no unique index on members.
insertMemberUnindexed(r) ==
    /\ At(r, "insertMember")
    /\ Insert(r, MemberId,
              [user |-> req[r].subject, invite |-> req[r].row, removedBy |-> NoUser], FALSE)

\* Mutant: the permissions are seeded and the member forgotten.
skipMember(r) ==
    /\ At(r, "insertMember")
    /\ Advance(r)
    /\ UNCHANGED tables

insertMember(r) ==
    /\ At(r, "insertMember")
    /\ WaitsFor(r) = {}
    /\ Insert(r, MemberId,
              [user |-> req[r].subject, invite |-> req[r].row, removedBy |-> NoUser],
              \E m \in MemberId :
                  \/ ActiveMember(Visible(r)[m], req[r].subject)
                  \/ Visible(r)[m] # Absent /\ Visible(r)[m].invite = req[r].row)

\* createMany without skipDuplicates: a permission the user has already, or
\* one listed twice, fails the whole acceptance.
seedPermissions(r) ==
    /\ At(r, "seedPermissions")
    /\ WaitsFor(r) = {}
    /\ LET held == Held(Visible(r), req[r].subject, req[r].list)
           twice == Cardinality(Range(req[r].list)) # Len(req[r].list)
       IN \/ /\ held = {} /\ ~twice
             /\ Write(r, [k \in RowsOf(req[r].subject, req[r].list) |-> Granted])
          \/ (held # {} \/ twice) /\ Throw(r)

\* validateActorCanModify: nothing is asked of an empty list, the owner, an admin.
Unchecked(r) == req[r].list = <<>> \/ req[r].caller \in Admin \cup {Owner}

validateActorIsMember(r) ==
    /\ At(r, "validateActorIsMember")
    /\ Validate(r, Unchecked(r) \/ isMember(Visible(r), req[r].caller))

\* Mutant: members pass on what they do not hold.
validateActorMayCall(r) ==
    /\ At(r, "validateActorHolds")
    /\ Advance(r)
    /\ UNCHANGED tables

validateActorHolds(r) ==
    /\ At(r, "validateActorHolds")
    /\ Validate(r, Unchecked(r) \/ HoldsAll(Visible(r), req[r].caller, req[r].list))

\* createMany with skipDuplicates.
insertPermissions(r) ==
    /\ At(r, "insertPermissions")
    /\ WaitsFor(r) = {}
    /\ Write(r, [k \in {k \in RowsOf(req[r].subject, req[r].list) : Visible(r)[k] = Absent}
                    |-> Granted])

deletePermissions(r) ==
    /\ At(r, "deletePermissions")
    /\ WaitsFor(r) = {}
    /\ Write(r, [k \in Deletes(r) |-> Absent])

validateNotOwner(r) ==
    /\ At(r, "validateNotOwner")
    /\ Validate(r, req[r].subject # Owner)

\* Mutant: removing what is removed puts it back.
toggleMemberRemoved(r) ==
    /\ At(r, "setMemberRemoved")
    /\ WaitsFor(r) = {}
    /\ Write(r, [m \in {req[r].row} |->
                    [Visible(r)[m] EXCEPT !.removedBy = IF @ = NoUser THEN req[r].caller ELSE NoUser]])

\* Updated by primary key: a member removed meanwhile is removed once more.
setMemberRemoved(r) ==
    /\ At(r, "setMemberRemoved")
    /\ WaitsFor(r) = {}
    /\ Write(r, [m \in {req[r].row} |-> [Visible(r)[m] EXCEPT !.removedBy = req[r].caller]])

revokeAllPermissions(r) ==
    /\ At(r, "revokeAllPermissions")
    /\ WaitsFor(r) = {}
    /\ Write(r, [k \in Deletes(r) |-> Absent])

commit(r) ==
    /\ At(r, "commit")
    /\ CommitTx(r)
    /\ req' = [req EXCEPT ![r] = Idle]

\* Time limit, deadlock victim, lost connection, crash.
Abort(r) == req[r].op # "none" /\ Throw(r)

Run(r) ==
    \/ validateInviteNotExists(r)
    \/ validateNotAlreadyMember(r)
    \/ validateInviterHasPermissions(r)
    \/ insertInvite(r)
    \/ setInviteStatus(r)
    \/ insertMember(r)
    \/ seedPermissions(r)
    \/ validateActorIsMember(r)
    \/ validateActorHolds(r)
    \/ insertPermissions(r)
    \/ deletePermissions(r)
    \/ validateNotOwner(r)
    \/ setMemberRemoved(r)
    \/ revokeAllPermissions(r)
    \/ commit(r)

Init == TablesInit /\ req = [r \in Request |-> Idle]

Next == \E r \in Request : Begin(r) \/ Run(r) \/ Abort(r)

Spec == Init /\ [][Next]_vars
-------------------------------------------------------------------------------
(* What holds however requests interleave.                                  *)

RowOf(k) ==
    IF k \in InviteId THEN InviteRow ELSE IF k \in MemberId THEN MemberRow ELSE PermissionRow

Rows == InviteRow \cup MemberRow \cup PermissionRow
Versioned == {t \in [Key -> Rows \cup {Absent}] : \A k \in Key : t[k] \in RowOf(k) \cup {Absent}}

\* Every version of a row, committed or not, is a row of its own table, locks
\* are held by requests, and a request is what its handler can know.
TypeOK ==
    /\ db \in Versioned
    /\ draft \in Versioned
    /\ holder \in [Key -> Request \cup {NoRequest}]
    /\ req \in [Request -> RequestState]

\* However two accepts or two invitations overlap, nobody has two seats or two
\* open invites, and an invite never makes two members, not even one after the
\* other.
OneSeatEach ==
    /\ \A u \in User, i, j \in InviteId : PendingInvite(db[i], u) /\ PendingInvite(db[j], u) => i = j
    /\ \A m, n \in MemberId : db[m] # Absent /\ db[n] # Absent /\ m # n =>
        /\ db[m].invite # db[n].invite
        /\ db[m].removedBy = NoUser /\ db[n].removedBy = NoUser => db[m].user # db[n].user

\* Every member ever was invited, and the invite has been answered.
MembersWereInvited ==
    \A m \in MemberId : db[m] # Absent =>
        LET i == db[db[m].invite] IN
        i # Absent /\ i.invitee = db[m].user /\ i.status # "PENDING"

\* Anti-escalation: a permission that neither the owner nor an admin ever hands
\* out is held by nobody, whatever members invite, grant and revoke among
\* themselves.
WithheldStayWithheld ==
    \A u \in User, p \in Permission \cap Withheld : db[<<u, p>>] = Absent

\* Whoever holds a permission is or was a member.
HoldersWereMembers ==
    \A u \in User, p \in Permission : db[<<u, p>>] # Absent =>
        \E m \in MemberId : db[m] # Absent /\ db[m].user = u

\* Invites and memberships are history: none disappears, an answered invite is
\* never open again, a removed member stays removed and keeps its invite.
RowsAreHistory ==
    [][/\ \A i \in InviteId : db[i] # Absent =>
            db'[i] # Absent /\ (db[i].status # "PENDING" => db'[i].status # "PENDING")
       /\ \A m \in MemberId : db[m] # Absent =>
            /\ db'[m] # Absent
            /\ db'[m].user = db[m].user /\ db'[m].invite = db[m].invite
            /\ db[m].removedBy # NoUser => db'[m].removedBy # NoUser]_db

-------------------------------------------------------------------------------
(* What holds when requests do not overlap.                                 *)

\* Accepted invites made one member each, and no other invite made any.
MembersIffAccepted ==
    \A i \in InviteId : db[i] # Absent =>
        Cardinality({m \in MemberId : db[m] # Absent /\ db[m].invite = i})
            = (IF db[i].status = "ACCEPTED" THEN 1 ELSE 0)

\* PENDING -> ACCEPTED | REJECTED | CANCELLED and nothing after that.
AnswerIsFinal ==
    [][\A i \in InviteId :
        db[i] # Absent /\ db[i].status # "PENDING" => db'[i] = db[i]]_db

\* The removal of a member takes all their permissions with it.
RemovalRevokes ==
    [][\A m \in MemberId :
        db[m] # Absent /\ db[m].removedBy = NoUser /\ db'[m].removedBy # NoUser =>
            \A p \in Permission : db'[<<db[m].user, p>>] = Absent]_db

Members(removed) ==
    {db[m].user : m \in {m \in MemberId : db[m] # Absent /\ (db[m].removedBy # NoUser <=> removed)}}

Seats == INSTANCE Roster WITH
    Person <- User,
    open <- {<<db[i].invitee, Range(db[i].permissions)>> :
                i \in {i \in InviteId : db[i] # Absent /\ db[i].status = "PENDING"}},
    seated <- Members(FALSE),
    former <- Members(TRUE),
    rights <- {k \in User \X Permission : db[k] # Absent}

\* Requests that do not overlap implement the roster.
ImplementsRoster == Seats!RosterSpec
===============================================================================
