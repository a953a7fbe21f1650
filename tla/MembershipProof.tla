---------------------------- MODULE MembershipProof ----------------------------
(***************************************************************************)
(* Theorems about WorkspaceMembership for any users, permissions, ids and  *)
(* number of requests at once.                                             *)
(*                                                                         *)
(* The properties speak of committed rows.  IInv says the same of the rows *)
(* still uncommitted, and what each request knows at each statement.       *)
(***************************************************************************)
EXTENDS WorkspaceMembership, ReadCommittedProof, FiniteSetTheorems, TLAPS

\* Rows that are never deleted.
Ids == InviteId \cup MemberId

Closed(k, row) == IF k \in InviteId THEN row.status # "PENDING" ELSE row.removedBy # NoUser

\* Two versions of one row: no UPDATE changes whom it is about.
SameSubject(k, old, row) ==
    /\ k \in InviteId => row.invitee = old.invitee /\ row.permissions = old.permissions
    /\ k \in MemberId => row.user = old.user /\ row.invite = old.invite

\* row is a later version of old: about the same, and closed if old was.
Later(k, old, row) == SameSubject(k, old, row) /\ (Closed(k, old) => Closed(k, row))

Versions == \A k \in Ids : db[k] # Absent => draft[k] # Absent /\ Later(k, db[k], draft[k])

Answering == {"acceptWorkspaceInvite", "rejectWorkspaceInvite", "cancelWorkspaceInvite"}
AboutMember == {"grantWorkspaceMemberPermissions", "revokeWorkspaceMemberPermissions",
                "removeMember"}

Clean(list) == Range(list) \cap Withheld = {}

HandingOn == {"createWorkspaceInvite", "grantWorkspaceMemberPermissions"}

\* The statements before the check that whoever hands permissions on holds them.
Unchecking == {"validateInviteNotExists", "validateNotAlreadyMember",
               "validateInviterHasPermissions", "validateActorIsMember", "validateActorHolds"}

\* Invite i is answered by request r, not yet committed, and was for user u.
AnsweredFor(r, i, u) ==
    /\ i \in InviteId
    /\ db[i] # Absent
    /\ holder[i] = r
    /\ draft[i].status # "PENDING"
    /\ draft[i].invitee = u

\* Request r has made user u a member.
SeatedBy(r, u) == \E m \in MemberId : holder[m] = r /\ draft[m] # Absent /\ draft[m].user = u

\* What a request was started with still holds.
Known(r) ==
    /\ req[r].op = "none" => req[r] = Idle
    /\ req[r].op # "none" => req[r].subject \in User
    /\ req[r].op = "createWorkspaceInvite" => req[r].list \in PermissionLists
    /\ req[r].op \in AboutMember \cup {"createWorkspaceInvite"} => req[r].caller \in User
    /\ req[r].op \in Answering =>
        /\ req[r].row \in InviteId
        /\ db[req[r].row] # Absent
        /\ db[req[r].row].invitee = req[r].subject
        /\ db[req[r].row].permissions = req[r].list
    /\ req[r].op \in AboutMember =>
        /\ req[r].row \in MemberId
        /\ db[req[r].row] # Absent
        /\ db[req[r].row].user = req[r].subject

\* What a request has done or checked by the statement it is at.
Placed(r) ==
    /\ req[r].pc \in 1..Len(Script[req[r].op])
    /\ At(r, "insertMember") => AnsweredFor(r, req[r].row, req[r].subject)
    /\ At(r, "seedPermissions") => SeatedBy(r, req[r].subject)
    /\ req[r].op \in HandingOn =>
        \/ Clean(req[r].list)
        \/ req[r].caller \notin Admin \cup {Owner} /\ Current(r) \in Unchecking

RequestsOK == \A r \in Request : Known(r) /\ Placed(r)

\* The two versions meet in a unique index, or could not both be true.
Clash(k, row, l, other) ==
    /\ row # Absent /\ other # Absent
    /\ \/ /\ {k, l} \subseteq InviteId
          /\ row.status = "PENDING" /\ other.status = "PENDING"
          /\ row.invitee = other.invitee
       \/ /\ {k, l} \subseteq MemberId
          /\ \/ row.invite = other.invite
             \/ row.removedBy = NoUser /\ other.removedBy = NoUser /\ row.user = other.user

\* No two versions that could be committed together clash.
IndexesOK ==
    \A k, l \in Key : k # l =>
        /\ ~Clash(k, db[k], l, db[l])
        /\ ~Clash(k, draft[k], l, draft[l])
        /\ holder[k] # holder[l] => ~Clash(k, db[k], l, draft[l])

\* A member not yet committed comes from an invite the same request answers.
OriginsOK ==
    /\ \A m \in MemberId : db[m] = Absent /\ draft[m] # Absent =>
        AnsweredFor(holder[m], draft[m].invite, draft[m].user)
    /\ MembersWereInvited

\* Whoever is being given a permission is a member, or one the same request makes.
HoldersOK ==
    /\ \A u \in User, p \in Permission : db[<<u, p>>] = Absent /\ draft[<<u, p>>] # Absent =>
        \/ SeatedBy(holder[<<u, p>>], u)
        \/ \E m \in MemberId : db[m] # Absent /\ db[m].user = u
    /\ HoldersWereMembers

\* No version of an invite or of a permission row is about a withheld permission.
CleanOK ==
    \A t \in {db, draft} :
        /\ \A i \in InviteId : t[i] # Absent => Clean(t[i].permissions)
        /\ \A u \in User, p \in Permission \cap Withheld : t[<<u, p>>] = Absent

IInv ==
    /\ TypeOK /\ FreeRowsAreCommitted /\ Versions /\ RequestsOK
    /\ IndexesOK /\ OriginsOK /\ HoldersOK /\ CleanOK

-------------------------------------------------------------------------------
(* The scripts.                                                             *)

LEMMA OpsAre ==
    Op = {"none", "createWorkspaceInvite"} \cup Answering \cup AboutMember
BY DEF Op, Script, Answering, AboutMember

LEMMA ScriptSteps ==
    ASSUME NEW op \in Op, NEW pc \in 1..Len(Script[op]), NEW s, s = Script[op][pc]
    PROVE
        /\ s \notin {"commit", "idle"} => pc + 1 \in 1..Len(Script[op])
        /\ s \notin {"commit", "idle", "setInviteStatus"} => Script[op][pc + 1] # "insertMember"
        /\ s = "insertMember" => op = "acceptWorkspaceInvite"
        /\ s \notin {"commit", "idle", "insertMember"} => Script[op][pc + 1] # "seedPermissions"
        /\ s = "seedPermissions" => op = "acceptWorkspaceInvite"
        /\ s = "setInviteStatus" => op \in Answering
        /\ s \in {"insertInvite", "validateInviterHasPermissions"} => op = "createWorkspaceInvite"
        /\ s \in {"insertPermissions", "deletePermissions", "setMemberRemoved",
                  "revokeAllPermissions"} => op \in AboutMember
        /\ s = "insertPermissions" => op = "grantWorkspaceMemberPermissions"
        /\ s = "setMemberRemoved" => op = "removeMember"
        /\ /\ s \in Unchecking \ {"validateInviterHasPermissions", "validateActorHolds"}
           /\ op \in HandingOn
           => Script[op][pc + 1] \in Unchecking
        /\ s = "idle" <=> op = "none"
<1>1. CASE op = "none"
  BY <1>1 DEF Script, Answering, AboutMember, Unchecking, HandingOn
<1>2. CASE op = "createWorkspaceInvite"
  BY <1>2 DEF Script, Answering, AboutMember, Unchecking, HandingOn
<1>3. CASE op = "acceptWorkspaceInvite"
  BY <1>3 DEF Script, Answering, AboutMember, Unchecking, HandingOn
<1>4. CASE op = "rejectWorkspaceInvite"
  BY <1>4 DEF Script, Answering, AboutMember, Unchecking, HandingOn
<1>5. CASE op = "cancelWorkspaceInvite"
  BY <1>5 DEF Script, Answering, AboutMember, Unchecking, HandingOn
<1>6. CASE op = "grantWorkspaceMemberPermissions"
  BY <1>6 DEF Script, Answering, AboutMember, Unchecking, HandingOn
<1>7. CASE op = "revokeWorkspaceMemberPermissions"
  BY <1>7 DEF Script, Answering, AboutMember, Unchecking, HandingOn
<1>8. CASE op = "removeMember"
  BY <1>8 DEF Script, Answering, AboutMember, Unchecking, HandingOn
<1>9. QED
  BY <1>1, <1>2, <1>3, <1>4, <1>5, <1>6, <1>7, <1>8, OpsAre DEF Answering, AboutMember

LEMMA FirstStatements ==
    ASSUME NEW op \in Op
    PROVE  /\ 1 \in 1..Len(Script[op])
           /\ Script[op][1] \notin {"insertMember", "seedPermissions"}
           /\ op \in HandingOn => Script[op][1] \in Unchecking
<1>1. CASE op = "none"
  BY <1>1 DEF Script, Unchecking, HandingOn
<1>2. CASE op = "createWorkspaceInvite"
  BY <1>2 DEF Script, Unchecking, HandingOn
<1>3. CASE op = "acceptWorkspaceInvite"
  BY <1>3 DEF Script, Unchecking, HandingOn
<1>4. CASE op = "rejectWorkspaceInvite"
  BY <1>4 DEF Script, Unchecking, HandingOn
<1>5. CASE op = "cancelWorkspaceInvite"
  BY <1>5 DEF Script, Unchecking, HandingOn
<1>6. CASE op = "grantWorkspaceMemberPermissions"
  BY <1>6 DEF Script, Unchecking, HandingOn
<1>7. CASE op = "revokeWorkspaceMemberPermissions"
  BY <1>7 DEF Script, Unchecking, HandingOn
<1>8. CASE op = "removeMember"
  BY <1>8 DEF Script, Unchecking, HandingOn
<1>9. QED
  BY <1>1, <1>2, <1>3, <1>4, <1>5, <1>6, <1>7, <1>8, OpsAre DEF Answering, AboutMember

-------------------------------------------------------------------------------
(* Rows and lists.                                                           *)

LEMMA TableOf ==
    ASSUME NEW k \in Key
    PROVE  /\ k \in InviteId => k \in Ids /\ k \notin MemberId /\ RowOf(k) = InviteRow
           /\ k \in MemberId => k \in Ids /\ k \notin InviteId /\ RowOf(k) = MemberRow
           /\ k \in User \X Permission => k \notin Ids /\ RowOf(k) = PermissionRow
           /\ k \in InviteId \/ k \in MemberId \/ k \in User \X Permission
           /\ RowOf(k) \subseteq Rows
           /\ Absent \notin RowOf(k)
BY PermissionRowsHaveKeys, AbsentIsNoRow DEF RowOf, Rows, Ids

LEMMA KeysOfTables ==
    /\ Ids \subseteq Key /\ InviteId \subseteq Key /\ MemberId \subseteq Key
    /\ \A u \in User, p \in Permission : <<u, p>> \in Key
BY PermissionRowsHaveKeys DEF Ids

LEMMA LaterIsOrder ==
    ASSUME NEW k, NEW x, NEW y, NEW z
    PROVE  Later(k, x, x) /\ (Later(k, x, y) /\ Later(k, y, z) => Later(k, x, z))
BY DEF Later, SameSubject

\* A list has no more members than entries: granted.length === permissions.length
\* is never true of a list of which one permission is not held.
LEMMA HoldsAllHoldsEach ==
    ASSUME NEW t, NEW u, NEW list \in Seq(Permission), HoldsAll(t, u, list),
           NEW p \in Range(list)
    PROVE  t[<<u, p>>] # Absent
<1> DEFINE N == 1..Len(list)
<1>1. list \in Surjection(N, Range(list)) /\ Len(list) \in Nat
  BY DEF Range, Surjection
<1>2. IsFiniteSet(N) /\ Cardinality(N) = Len(list)
  <2>1. 1 \in Int /\ Len(list) \in Int /\ 1 + Len(list) - 1 = Len(list)
    BY <1>1
  <2>2. /\ IsFiniteSet(N)
        /\ Cardinality(N) = IF 1 > Len(list) THEN 0 ELSE Len(list) - 1 + 1
    BY <2>1, FS_Interval
  <2>3. QED
    BY <1>1, <2>2
<1>3. IsFiniteSet(Range(list)) /\ Cardinality(Range(list)) <= Len(list)
  BY <1>1, <1>2, FS_Surjection
<1>4. Held(t, u, list) \in SUBSET Range(list)
  BY DEF Held
<1>5. /\ Cardinality(Held(t, u, list)) <= Cardinality(Range(list))
      /\ Cardinality(Range(list)) = Cardinality(Held(t, u, list)) => Range(list) = Held(t, u, list)
      /\ Cardinality(Held(t, u, list)) \in Nat /\ Cardinality(Range(list)) \in Nat
  BY <1>3, <1>4, FS_Subset, FS_CardinalityType
<1>6. Range(list) = Held(t, u, list)
  BY <1>3, <1>5 DEF HoldsAll
<1>7. QED
  BY <1>6 DEF Held

-------------------------------------------------------------------------------
(* The kinds of steps.                                                       *)

OthersWait(r) == \A q \in Request \ {r} : req'[q] = req[q]

Clear(r, k, row) ==
    \A l \in Key :
        /\ ~Clash(k, row, l, draft[l])
        /\ holder[l] # r => ~Clash(k, row, l, db[l])

\* An invite or a member that r may insert under key k.
Appears(r, k, row) ==
    /\ row # Absent
    /\ Clear(r, k, row)
    /\ k \in InviteId => Clean(row.permissions)
    /\ k \in MemberId => AnsweredFor(r, row.invite, row.user)

\* A permission that r may give a user.
MayHold(r, u, p) ==
    /\ p \notin Withheld
    /\ SeatedBy(r, u) \/ \E m \in MemberId : db[m] # Absent /\ db[m].user = u

Lawful(r, k, row) ==
    /\ k \in Key
    /\ row \in RowOf(k) \cup {Absent}
    /\ k \in Ids =>
        IF draft[k] = Absent THEN Appears(r, k, row)
        ELSE row # Absent /\ Later(k, draft[k], row)
    /\ k \in User \X Permission /\ row # Absent => MayHold(r, k[1], k[2])

Passes(r) ==
    /\ UNCHANGED tables
    /\ req' \in [Request -> RequestState]
    /\ OthersWait(r)
    /\ Known(r)' /\ Placed(r)'

\* One statement writes permission rows, or one row of the other tables.
WritesLawfully(r, rows) ==
    /\ Writes(r, rows)
    /\ \A k \in DOMAIN rows : Lawful(r, k, rows[k])
    /\ \A k, l \in DOMAIN rows : {k, l} \subseteq Ids => k = l
    /\ req' \in [Request -> RequestState]
    /\ OthersWait(r)
    /\ Known(r)' /\ Placed(r)'

Kinds(r) == Passes(r) \/ Throw(r) \/ commit(r) \/ \E rows : WritesLawfully(r, rows)

LEMMA Statement ==
    ASSUME IInv, NEW r \in Request
    PROVE  /\ req[r].op \in Op
           /\ req[r].pc \in 1..Len(Script[req[r].op])
           /\ Current(r) = Script[req[r].op][req[r].pc]
           /\ req[r] \in RequestState
           /\ Known(r) /\ Placed(r)
BY DEF IInv, TypeOK, RequestsOK, Placed, RequestState, Current

LEMMA Typed ==
    ASSUME IInv, NEW k \in Key
    PROVE  /\ db[k] \in RowOf(k) \cup {Absent}
           /\ draft[k] \in RowOf(k) \cup {Absent}
           /\ holder[k] \in Request \cup {NoRequest}
           /\ holder[k] = NoRequest => draft[k] = db[k]
           /\ k \in Ids /\ db[k] # Absent => draft[k] # Absent /\ Later(k, db[k], draft[k])
BY DEF IInv, TypeOK, Versioned, FreeRowsAreCommitted, Versions

LEMMA InviteFields ==
    ASSUME NEW row \in InviteRow
    PROVE  /\ row.inviter \in User /\ row.invitee \in User
           /\ row.permissions \in PermissionLists
           /\ row.permissions \in Seq(Permission)
           /\ row # Absent
BY ListsArePermissions, AbsentIsNoRow DEF InviteRow

LEMMA MemberFields ==
    ASSUME NEW row \in MemberRow
    PROVE  /\ row.user \in User /\ row.invite \in InviteId
           /\ row.removedBy \in User \cup {NoUser} /\ row # Absent
BY AbsentIsNoRow DEF MemberRow

LEMMA RangeOfList ==
    ASSUME NEW list \in PermissionLists \cup {<<>>}
    PROVE  list \in Seq(Permission) /\ Range(list) \subseteq Permission
<1>1. <<>> \in Seq(Permission)
  OBVIOUS
<1>2. list \in Seq(Permission)
  BY <1>1, ListsArePermissions
<1>3. QED
  BY <1>2 DEF Range

LEMMA KnownStays ==
    ASSUME NEW q \in Request, Known(q),
           req'[q] = req[q] \/ req[q].op # "none",
           req'[q].op = req[q].op, req'[q].caller = req[q].caller,
           req'[q].subject = req[q].subject, req'[q].row = req[q].row,
           req'[q].list = req[q].list,
           \A k \in Ids : db[k] # Absent => db'[k] # Absent /\ Later(k, db[k], db'[k])
    PROVE  Known(q)'
<1>1. req[q].op \in Answering =>
        /\ db'[req'[q].row] # Absent
        /\ db'[req'[q].row].invitee = req'[q].subject
        /\ db'[req'[q].row].permissions = req'[q].list
  BY DEF Known, Later, SameSubject, Ids
<1>2. req[q].op \in AboutMember =>
        db'[req'[q].row] # Absent /\ db'[req'[q].row].user = req'[q].subject
  BY DEF Known, Later, SameSubject, Ids
<1>3. QED
  BY <1>1, <1>2 DEF Known

LEMMA Advanced ==
    ASSUME IInv, NEW r \in Request, Advance(r), Current(r) \notin {"commit", "idle"}
    PROVE  /\ req' \in [Request -> RequestState]
           /\ OthersWait(r)
           /\ req'[r].op = req[r].op /\ req'[r].caller = req[r].caller
           /\ req'[r].subject = req[r].subject /\ req'[r].row = req[r].row
           /\ req'[r].list = req[r].list
           /\ req[r].op # "none"
           /\ req'[r].pc \in 1..Len(Script[req'[r].op])
           /\ Current(r)' = Script[req[r].op][req[r].pc + 1]
<1>1. req[r].pc + 1 \in 1..Len(Script[req[r].op]) /\ req[r].op # "none"
  BY Statement, ScriptSteps
<1>2. req' = [req EXCEPT ![r].pc = @ + 1] /\ req \in [Request -> RequestState]
  BY DEF Advance, IInv, TypeOK
<1>3. req'[r] = [req[r] EXCEPT !.pc = @ + 1] /\ OthersWait(r)
  BY <1>2 DEF OthersWait
<1>4. [req[r] EXCEPT !.pc = @ + 1] \in RequestState
  BY <1>1, Statement DEF RequestState
<1>5. req' \in [Request -> RequestState]
  BY <1>2, <1>3, <1>4
<1>6. /\ req'[r].op = req[r].op /\ req'[r].pc = req[r].pc + 1
      /\ req'[r].caller = req[r].caller
      /\ req'[r].subject = req[r].subject /\ req'[r].row = req[r].row
      /\ req'[r].list = req[r].list
  BY <1>3, Statement DEF RequestState
<1>7. QED
  BY <1>1, <1>3, <1>5, <1>6 DEF Current

\* A request that goes on to its next statement with no row committed meanwhile.
LEMMA KnowsMore ==
    ASSUME IInv, NEW r \in Request, Advance(r), Current(r) \notin {"commit", "idle"},
           db' = db,
           At(r, "setInviteStatus") => AnsweredFor(r, req[r].row, req[r].subject)',
           At(r, "insertMember") => SeatedBy(r, req[r].subject)',
           req[r].op \in HandingOn
               /\ Current(r) \in {"validateInviterHasPermissions", "validateActorHolds"}
               => Clean(req[r].list)
    PROVE  Known(r)' /\ Placed(r)'
<1>1. Known(r)'
  <2>1. \A k \in Ids : db[k] # Absent => db'[k] # Absent /\ Later(k, db[k], db'[k])
    BY LaterIsOrder
  <2>2. QED
    BY <2>1, Statement, Advanced, KnownStays
<1>2. At(r, "insertMember")' => AnsweredFor(r, req[r].row, req[r].subject)'
  BY Advanced, Statement, ScriptSteps DEF At
<1>3. At(r, "seedPermissions")' => SeatedBy(r, req[r].subject)'
  BY Advanced, Statement, ScriptSteps DEF At
<1>4. req[r].op \in HandingOn =>
        \/ Clean(req[r].list)
        \/ req[r].caller \notin Admin \cup {Owner} /\ Current(r)' \in Unchecking
  <2>1. Placed(r)
    BY Statement
  <2>2. CASE Current(r) \in Unchecking \ {"validateInviterHasPermissions", "validateActorHolds"}
    BY <2>1, <2>2, Advanced, Statement, ScriptSteps DEF Placed, HandingOn
  <2>3. CASE Current(r) \notin Unchecking
    BY <2>1, <2>3 DEF Placed
  <2>4. QED
    BY <2>2, <2>3
<1>5. QED
  BY <1>1, <1>2, <1>3, <1>4, Advanced DEF Placed, Clean

-------------------------------------------------------------------------------
(* The start of a request, and the statements that only look.                *)

LEMMA StartPasses ==
    ASSUME IInv, NEW r \in Request, NEW op \in Op, NEW caller \in User \cup {NoUser},
           NEW subject \in User, NEW row \in InviteId \cup MemberId \cup {Absent},
           NEW list \in PermissionLists \cup {<<>>},
           Start(r, op, caller, subject, row, list),
           op = "createWorkspaceInvite" => list \in PermissionLists,
           op \in AboutMember \cup {"createWorkspaceInvite"} => caller \in User,
           op \in Answering =>
               /\ row \in InviteId /\ db[row] # Absent
               /\ db[row].invitee = subject /\ db[row].permissions = list,
           op \in AboutMember =>
               row \in MemberId /\ db[row] # Absent /\ db[row].user = subject,
           op \in HandingOn => HandsOut(caller, list)
    PROVE  Passes(r)
<1> DEFINE q == [op |-> op, pc |-> 1, caller |-> caller, subject |-> subject, row |-> row,
                 list |-> list]
<1>1. q \in RequestState
  BY DEF RequestState
<1>2. req' = [req EXCEPT ![r] = q] /\ UNCHANGED tables /\ op # "none"
  BY OfferedAreOps DEF Start
<1>3. req' \in [Request -> RequestState] /\ req'[r] = q /\ OthersWait(r)
  BY <1>1, <1>2 DEF IInv, TypeOK, OthersWait
<1>4. Current(r)' = Script[op][1]
  BY <1>3 DEF Current
<1>5. Known(r)'
  BY <1>2, <1>3 DEF Known, tables
<1>6. Placed(r)'
  BY <1>3, <1>4, FirstStatements DEF Placed, At, HandsOut, Clean
<1>7. QED
  BY <1>2, <1>3, <1>5, <1>6 DEF Passes

LEMMA BeginPasses ==
    ASSUME IInv, NEW r \in Request, Begin(r)
    PROVE  Passes(r)
<1> USE DEF Answering, AboutMember, HandingOn
<1>1. ASSUME NEW i \in InviteId, db[i] # Absent
      PROVE  db[i].invitee \in User /\ db[i].permissions \in PermissionLists
  BY <1>1, Typed, KeysOfTables, TableOf, InviteFields
<1>2. ASSUME NEW m \in MemberId, db[m] # Absent
      PROVE  db[m].user \in User
  BY <1>2, Typed, KeysOfTables, TableOf, MemberFields
<1>3. ASSUME NEW op \in {"acceptWorkspaceInvite", "rejectWorkspaceInvite",
                         "cancelWorkspaceInvite"},
             Answer(r, op)
      PROVE  Passes(r)
  BY <1>3, <1>1, StartPasses, OpsAre DEF Answer
<1>4. CASE createWorkspaceInvite(r)
  <2>1. PICK caller, inviter, invitee \in User, list \in PermissionLists :
          /\ caller = inviter \/ caller \in Admin
          /\ HandsOut(caller, list)
          /\ Start(r, "createWorkspaceInvite", inviter, invitee, Absent, list)
    BY <1>4 DEF createWorkspaceInvite
  <2>2. HandsOut(inviter, list)
    BY <2>1 DEF HandsOut
  <2>3. QED
    BY <2>1, <2>2, StartPasses, OpsAre
<1>5. CASE acceptWorkspaceInvite(r)
  BY <1>3, <1>5 DEF acceptWorkspaceInvite
<1>6. CASE rejectWorkspaceInvite(r)
  BY <1>3, <1>6 DEF rejectWorkspaceInvite
<1>7. CASE cancelWorkspaceInvite(r)
  BY <1>3, <1>7 DEF cancelWorkspaceInvite
<1>8. CASE grantWorkspaceMemberPermissions(r)
  BY <1>8, <1>2, StartPasses, OpsAre DEF grantWorkspaceMemberPermissions
<1>9. CASE revokeWorkspaceMemberPermissions(r)
  BY <1>9, <1>2, StartPasses, OpsAre DEF revokeWorkspaceMemberPermissions
<1>10. CASE leaveWorkspace(r)
  BY <1>2, <1>10, StartPasses, OpsAre DEF leaveWorkspace, Remove
<1>11. CASE removeWorkspaceMember(r)
  BY <1>2, <1>11, StartPasses, OpsAre DEF removeWorkspaceMember, Remove
<1>12. QED
  BY <1>4, <1>5, <1>6, <1>7, <1>8, <1>9, <1>10, <1>11 DEF Begin

LEMMA AdvancePasses ==
    ASSUME IInv, NEW r \in Request, Advance(r), UNCHANGED tables,
           Current(r) \notin {"commit", "idle", "setInviteStatus", "insertMember"},
           req[r].op \in HandingOn
               /\ Current(r) \in {"validateInviterHasPermissions", "validateActorHolds"}
               => Clean(req[r].list)
    PROVE  Passes(r)
<1>1. db' = db
  BY DEF tables
<1>2. Known(r)' /\ Placed(r)'
  BY <1>1, KnowsMore DEF At
<1>3. QED
  BY <1>2, Advanced DEF Passes

\* What the inviter or the actor holds is not withheld.
LEMMA HeldIsClean ==
    ASSUME IInv, NEW r \in Request, req[r].op \in HandingOn,
           HoldsAll(Visible(r), req[r].caller, req[r].list)
    PROVE  Clean(req[r].list)
<1>1. req[r].caller \in User
  BY Statement DEF Known, HandingOn, AboutMember
<1>2. req[r].list \in Seq(Permission) /\ Range(req[r].list) \subseteq Permission
  BY Statement, RangeOfList DEF RequestState
<1>3. ASSUME NEW p \in Range(req[r].list), p \in Withheld
      PROVE  FALSE
  <2>1. Visible(r)[<<req[r].caller, p>>] # Absent
    BY <1>2, <1>3, HoldsAllHoldsEach
  <2>2. <<req[r].caller, p>> \in Key /\ p \in Permission \cap Withheld
    BY <1>1, <1>2, <1>3, KeysOfTables
  <2>3. db[<<req[r].caller, p>>] = Absent /\ draft[<<req[r].caller, p>>] = Absent
    BY <1>1, <2>2 DEF IInv, CleanOK
  <2>4. QED
    BY <2>1, <2>2, <2>3, ReadsRow
<1>4. QED
  BY <1>3 DEF Clean

LEMMA EmptyIsClean ==
    ASSUME NEW list, list = <<>>
    PROVE  Clean(list)
BY DEF Clean, Range

Validates(r) ==
    \/ validateInviteNotExists(r)
    \/ validateNotAlreadyMember(r)
    \/ validateInviterHasPermissions(r)
    \/ validateActorIsMember(r)
    \/ validateActorHolds(r)
    \/ validateNotOwner(r)

LEMMA ValidatorKinds ==
    ASSUME IInv, NEW r \in Request, Validates(r)
    PROVE  Passes(r) \/ Throw(r)
<1> SUFFICES ASSUME ~Throw(r)
             PROVE  Passes(r)
  OBVIOUS
<1>1. Advance(r) /\ UNCHANGED tables
  BY DEF Validates, Validate, validateInviteNotExists, validateNotAlreadyMember,
         validateInviterHasPermissions, validateActorIsMember, validateActorHolds,
         validateNotOwner
<1>2. Current(r) \notin {"commit", "idle", "setInviteStatus", "insertMember"}
  BY DEF Validates, At, validateInviteNotExists, validateNotAlreadyMember,
         validateInviterHasPermissions, validateActorIsMember, validateActorHolds,
         validateNotOwner
<1>3. ASSUME req[r].op \in HandingOn, At(r, "validateInviterHasPermissions")
      PROVE  Clean(req[r].list)
  <2>1. \/ req[r].list = <<>>
        \/ req[r].caller = Owner
        \/ HoldsAll(Visible(r), req[r].caller, req[r].list)
    BY <1>3 DEF Validates, Validate, At, validateInviteNotExists, validateNotAlreadyMember,
         validateInviterHasPermissions, validateActorIsMember, validateActorHolds,
         validateNotOwner
  <2>2. QED
    BY <1>3, <2>1, Statement, EmptyIsClean, HeldIsClean DEF Placed
<1>4. ASSUME req[r].op \in HandingOn, At(r, "validateActorHolds")
      PROVE  Clean(req[r].list)
  <2>1. Unchecked(r) \/ HoldsAll(Visible(r), req[r].caller, req[r].list)
    BY <1>4 DEF Validates, Validate, At, validateInviteNotExists, validateNotAlreadyMember,
         validateInviterHasPermissions, validateActorIsMember, validateActorHolds,
         validateNotOwner
  <2>2. QED
    BY <1>4, <2>1, Statement, EmptyIsClean, HeldIsClean DEF Placed, Unchecked
<1>5. QED
  BY <1>1, <1>2, <1>3, <1>4, AdvancePasses DEF At

-------------------------------------------------------------------------------
(* The statements that write.                                                *)

\* A statement that waited for nobody writes what it may, and r goes on.
LEMMA WriteKind ==
    ASSUME IInv, NEW r \in Request, NEW rows, Write(r, rows), WaitsFor(r) = {},
           Current(r) \in {"insertInvite", "setInviteStatus", "insertMember", "seedPermissions",
                           "insertPermissions", "deletePermissions", "setMemberRemoved",
                           "revokeAllPermissions"},
           \A k \in DOMAIN rows : Free(r, k) /\ Lawful(r, k, rows[k]),
           \A k, l \in DOMAIN rows : {k, l} \subseteq Ids => k = l,
           At(r, "setInviteStatus") =>
               /\ req[r].row \in DOMAIN rows
               /\ rows[req[r].row].status # "PENDING"
               /\ rows[req[r].row].invitee = req[r].subject,
           At(r, "insertMember") =>
               \E m \in MemberId \cap DOMAIN rows :
                   rows[m] # Absent /\ rows[m].user = req[r].subject
    PROVE  WritesLawfully(r, rows)
<1>1. Put(r, rows) /\ Advance(r)
  BY DEF Write
<1>2. db' = db /\ \A k \in DOMAIN rows : k \in Key /\ draft'[k] = rows[k] /\ holder'[k] = r
  BY <1>1, PutRow DEF Put, Lawful
<1>3. Writes(r, rows)
  BY <1>1 DEF Writes
<1>4. At(r, "setInviteStatus") => AnsweredFor(r, req[r].row, req[r].subject)'
  <2> SUFFICES ASSUME At(r, "setInviteStatus")
               PROVE  AnsweredFor(r, req[r].row, req[r].subject)'
    OBVIOUS
  <2>1. req[r].op \in Answering
    BY Statement, ScriptSteps DEF At
  <2>2. req[r].row \in InviteId /\ db[req[r].row] # Absent
    BY <2>1, Statement DEF Known
  <2>3. req'[r].row = req[r].row /\ req'[r].subject = req[r].subject
    BY <1>1, Advanced
  <2>4. QED
    BY <1>2, <2>2, <2>3 DEF AnsweredFor
<1>5. At(r, "insertMember") => SeatedBy(r, req[r].subject)'
  <2>1. req'[r].subject = req[r].subject
    BY <1>1, Advanced
  <2>2. QED
    BY <1>2, <2>1 DEF SeatedBy
<1>6. Known(r)' /\ Placed(r)'
  BY <1>1, <1>2, <1>4, <1>5, KnowsMore
<1>7. QED
  BY <1>1, <1>3, <1>6, Advanced DEF WritesLawfully

\* An INSERT that did not fail: its row has an id of its own.
LEMMA InsertsOne ==
    ASSUME IInv, NEW r \in Request, NEW Keys \in SUBSET Ids, NEW row, NEW duplicate,
           Insert(r, Keys, row, duplicate), ~Throw(r)
    PROVE  /\ ~duplicate
           /\ \E k \in Keys :
                /\ k \in Key /\ draft[k] = Absent /\ holder[k] = NoRequest
                /\ Write(r, [l \in {k} |-> row])
<1> DEFINE k == CHOOSE k \in Unused(Keys) : TRUE
<1>1. ~duplicate /\ Unused(Keys) # {} /\ Write(r, [l \in {k} |-> row])
  BY DEF Insert
<1>2. k \in Unused(Keys)
  BY <1>1
<1>3. k \in Keys /\ k \in Key /\ draft[k] = Absent /\ holder[k] = NoRequest
  BY <1>2, KeysOfTables DEF Unused
<1> HIDE DEF k
<1>4. QED
  BY <1>1, <1>3

\* A row that meets in an index only versions r waited for, and none r sees.
LEMMA PlaceIsFree ==
    ASSUME IInv, NEW r \in Request, NEW k, NEW row, NEW Same, Blockers(r, Same) = {},
           \A l \in Key : Clash(k, row, l, db[l]) \/ Clash(k, row, l, draft[l]) => l \in Same,
           \A l \in Key : ~Clash(k, row, l, Visible(r)[l])
    PROVE  Clear(r, k, row)
<1> SUFFICES ASSUME NEW l \in Key
             PROVE  /\ ~Clash(k, row, l, draft[l])
                    /\ holder[l] # r => ~Clash(k, row, l, db[l])
  BY DEF Clear
<1>1. Visible(r)[l] = IF holder[l] = r THEN draft[l] ELSE db[l]
  BY ReadsRow
<1>2. holder[l] = NoRequest => draft[l] = db[l]
  BY Typed
<1>3. l \in Same => holder[l] \in {r, NoRequest}
  BY DEF Blockers
<1>4. CASE holder[l] = r
  BY <1>1, <1>4
<1>5. CASE holder[l] = NoRequest
  BY <1>1, <1>2, <1>5
<1>6. CASE l \notin Same
  BY <1>6
<1>7. QED
  BY <1>3, <1>4, <1>5, <1>6

LEMMA InsertInviteKind ==
    ASSUME IInv, NEW r \in Request, insertInvite(r), ~Throw(r)
    PROVE  \E rows : WritesLawfully(r, rows)
<1> DEFINE row == [inviter |-> req[r].caller, invitee |-> req[r].subject,
                   permissions |-> req[r].list, status |-> "PENDING"]
           duplicate == \E i \in InviteId : PendingInvite(Visible(r)[i], req[r].subject)
<1>1. At(r, "insertInvite") /\ WaitsFor(r) = {} /\ Insert(r, InviteId, row, duplicate)
  BY DEF insertInvite
<1>2. req[r].op = "createWorkspaceInvite"
  BY <1>1, Statement, ScriptSteps DEF At
<1>3. row \in InviteRow
  BY <1>2, Statement DEF Known, InviteRow
<1>4. Clean(req[r].list)
  BY <1>1, <1>2, Statement DEF Placed, HandingOn, Unchecking, At
<1>5. /\ ~duplicate
      /\ \E k \in InviteId : /\ k \in Key /\ draft[k] = Absent /\ holder[k] = NoRequest
                             /\ Write(r, [l \in {k} |-> row])
  <2>1. InviteId \in SUBSET Ids
    BY DEF Ids
  <2> HIDE DEF row, duplicate
  <2>2. QED
    BY <1>1, <2>1, InsertsOne
<1>6. PICK k \in InviteId : /\ k \in Key /\ draft[k] = Absent /\ holder[k] = NoRequest
                            /\ Write(r, [l \in {k} |-> row])
  BY <1>5
<1>7. Blockers(r, SameInvite(req[r].subject)) = {}
  BY <1>1 DEF WaitsFor, Needs, At
<1>8. ASSUME NEW l \in Key, NEW other
      PROVE  Clash(k, row, l, other) => l \in InviteId /\ PendingInvite(other, req[r].subject)
  BY TableOf, <1>6 DEF Clash, PendingInvite
<1>9. Clear(r, k, row)
  <2>1. \A l \in Key : Clash(k, row, l, db[l]) \/ Clash(k, row, l, draft[l])
            => l \in SameInvite(req[r].subject)
    BY <1>8 DEF SameInvite
  <2>2. \A l \in Key : ~Clash(k, row, l, Visible(r)[l])
    BY <1>5, <1>8
  <2> HIDE DEF row
  <2>3. QED
    BY <1>7, <2>1, <2>2, PlaceIsFree
<1>10. row # Absent /\ row.permissions = req[r].list
  BY <1>3, InviteFields
<1> DEFINE rows == [l \in {k} |-> row]
<1>11. Lawful(r, k, row)
  BY <1>3, <1>4, <1>6, <1>9, <1>10, TableOf DEF Lawful, Appears
<1> HIDE DEF row
<1>12. /\ \A l \in DOMAIN rows : Free(r, l) /\ Lawful(r, l, rows[l])
       /\ \A l, m \in DOMAIN rows : {l, m} \subseteq Ids => l = m
  BY <1>6, <1>11 DEF Free
<1> HIDE DEF rows
<1>13. Write(r, rows)
  BY <1>6 DEF rows
<1>14. QED
  BY <1>1, <1>12, <1>13, WriteKind DEF At

LEMMA InsertMemberKind ==
    ASSUME IInv, NEW r \in Request, insertMember(r), ~Throw(r)
    PROVE  \E rows : WritesLawfully(r, rows)
<1> DEFINE row == [user |-> req[r].subject, invite |-> req[r].row, removedBy |-> NoUser]
           duplicate == \E m \in MemberId :
               \/ ActiveMember(Visible(r)[m], req[r].subject)
               \/ Visible(r)[m] # Absent /\ Visible(r)[m].invite = req[r].row
<1>1. At(r, "insertMember") /\ WaitsFor(r) = {} /\ Insert(r, MemberId, row, duplicate)
  BY DEF insertMember
<1>2. req[r].op = "acceptWorkspaceInvite"
  BY <1>1, Statement, ScriptSteps DEF At
<1>3. row \in MemberRow
  BY <1>2, Statement DEF Known, MemberRow, Answering
<1>4. AnsweredFor(r, req[r].row, req[r].subject)
  BY <1>1, Statement DEF Placed
<1>5. /\ ~duplicate
      /\ \E k \in MemberId : /\ k \in Key /\ draft[k] = Absent /\ holder[k] = NoRequest
                             /\ Write(r, [l \in {k} |-> row])
  <2>1. MemberId \in SUBSET Ids
    BY DEF Ids
  <2> HIDE DEF row, duplicate
  <2>2. QED
    BY <1>1, <2>1, InsertsOne
<1>6. PICK k \in MemberId : /\ k \in Key /\ draft[k] = Absent /\ holder[k] = NoRequest
                            /\ Write(r, [l \in {k} |-> row])
  BY <1>5
<1>7. Blockers(r, SameMember(req[r].subject, req[r].row)) = {}
  BY <1>1 DEF WaitsFor, Needs, At
<1>8. ASSUME NEW l \in Key, NEW other, Clash(k, row, l, other)
      PROVE  /\ l \in MemberId
             /\ \/ ActiveMember(other, req[r].subject)
                \/ other # Absent /\ other.invite = req[r].row
  BY TableOf, <1>6, <1>8 DEF Clash, ActiveMember
<1>9. Clear(r, k, row)
  <2>1. \A l \in Key : Clash(k, row, l, db[l]) \/ Clash(k, row, l, draft[l])
            => l \in SameMember(req[r].subject, req[r].row)
    BY <1>8 DEF SameMember
  <2>2. \A l \in Key : ~Clash(k, row, l, Visible(r)[l])
    BY <1>5, <1>8
  <2> HIDE DEF row
  <2>3. QED
    BY <1>7, <2>1, <2>2, PlaceIsFree
<1>10. row # Absent /\ row.user = req[r].subject /\ row.invite = req[r].row
  BY <1>3, MemberFields
<1> DEFINE rows == [l \in {k} |-> row]
<1>11. Lawful(r, k, row)
  BY <1>3, <1>4, <1>6, <1>9, <1>10, TableOf DEF Lawful, Appears
<1> HIDE DEF row
<1>12. /\ \A l \in DOMAIN rows : Free(r, l) /\ Lawful(r, l, rows[l])
       /\ \A l, m \in DOMAIN rows : {l, m} \subseteq Ids => l = m
       /\ k \in DOMAIN rows /\ rows[k] = row
  BY <1>6, <1>11 DEF Free
<1> HIDE DEF rows
<1>13. Write(r, rows)
  BY <1>6 DEF rows
<1>14. QED
  BY <1>1, <1>6, <1>10, <1>12, <1>13, WriteKind DEF At

\* An UPDATE by primary key of a row that nobody blocks.
LEMMA UpdateKind ==
    ASSUME IInv, NEW r \in Request, NEW new,
           Write(r, [k \in {req[r].row} |-> new]), WaitsFor(r) = {},
           Needs(r) = {req[r].row},
           Current(r) \in {"setInviteStatus", "setMemberRemoved"},
           req[r].row \in Ids, draft[req[r].row] # Absent,
           new \in RowOf(req[r].row),
           Later(req[r].row, draft[req[r].row], new),
           At(r, "setInviteStatus") =>
               new.status # "PENDING" /\ new.invitee = req[r].subject
    PROVE  \E rows : WritesLawfully(r, rows)
<1> DEFINE rows == [k \in {req[r].row} |-> new]
<1>1. req[r].row \in Key /\ Free(r, req[r].row)
  BY KeysOfTables, UnblockedRowsAreFree DEF WaitsFor
<1>2. new # Absent /\ req[r].row \notin User \X Permission
  BY <1>1, TableOf
<1>3. Lawful(r, req[r].row, new)
  BY <1>1, <1>2 DEF Lawful
<1>4. /\ \A k \in DOMAIN rows : Free(r, k) /\ Lawful(r, k, rows[k])
      /\ \A k, l \in DOMAIN rows : {k, l} \subseteq Ids => k = l
      /\ req[r].row \in DOMAIN rows /\ rows[req[r].row] = new
  BY <1>1, <1>3
<1>5. Write(r, rows)
  OBVIOUS
<1> HIDE DEF rows
<1>6. QED
  BY <1>4, <1>5, WriteKind DEF At

LEMMA AnswerKind ==
    ASSUME IInv, NEW r \in Request, setInviteStatus(r)
    PROVE  \E rows : WritesLawfully(r, rows)
<1> DEFINE i == req[r].row
           status == Outcome[req[r].op]
           new == [draft[i] EXCEPT !.status = status]
<1>1. /\ At(r, "setInviteStatus") /\ WaitsFor(r) = {} /\ Needs(r) = {i}
      /\ Write(r, [k \in {i} |-> [Visible(r)[k] EXCEPT !.status = status]])
  BY DEF setInviteStatus, Needs, At
<1>2. req[r].op \in Answering
  BY <1>1, Statement, ScriptSteps DEF At
<1>3. status \in {"ACCEPTED", "REJECTED", "CANCELLED"}
  BY <1>2 DEF Outcome, Answering
<1>4. i \in InviteId /\ db[i] # Absent /\ db[i].invitee = req[r].subject
  BY <1>2, Statement DEF Known
<1>5. i \in Key /\ i \in Ids /\ i \notin MemberId /\ RowOf(i) = InviteRow
  BY <1>4, KeysOfTables, TableOf
<1>6. draft[i] # Absent /\ Later(i, db[i], draft[i]) /\ draft[i] \in InviteRow
  BY <1>4, <1>5, Typed
<1>7. Free(r, i) /\ Visible(r)[i] = draft[i]
  BY <1>1, <1>5, UnblockedRowsAreFree, FreeRowIsNewest DEF WaitsFor, IInv
<1> HIDE DEF i, status
<1>8. /\ new \in InviteRow /\ new.status = status
      /\ new.invitee = draft[i].invitee /\ new.permissions = draft[i].permissions
  BY <1>3, <1>6 DEF InviteRow
<1>9. Later(i, draft[i], new) /\ new.status # "PENDING" /\ new.invitee = req[r].subject
  BY <1>3, <1>4, <1>5, <1>6, <1>8 DEF Later, SameSubject, Closed
<1>10. Write(r, [k \in {i} |-> new])
  <2>1. [k \in {i} |-> [Visible(r)[k] EXCEPT !.status = status]] = [k \in {i} |-> new]
    BY <1>7
  <2>2. QED
    BY <1>1, <2>1
<1> HIDE DEF new
<1>11. QED
  BY <1>1, <1>5, <1>6, <1>8, <1>9, <1>10, UpdateKind DEF At, i

LEMMA RemovalKind ==
    ASSUME IInv, NEW r \in Request, setMemberRemoved(r)
    PROVE  \E rows : WritesLawfully(r, rows)
<1> DEFINE m == req[r].row
           caller == req[r].caller
           new == [draft[m] EXCEPT !.removedBy = caller]
<1>1. /\ At(r, "setMemberRemoved") /\ WaitsFor(r) = {} /\ Needs(r) = {m}
      /\ Write(r, [k \in {m} |-> [Visible(r)[k] EXCEPT !.removedBy = caller]])
  BY DEF setMemberRemoved, Needs, At
<1>2. req[r].op \in AboutMember
  BY <1>1, Statement, ScriptSteps DEF At
<1>3. caller \in User /\ caller # NoUser
  BY <1>2, Statement, PeopleAreUsers DEF Known
<1>4. m \in MemberId /\ db[m] # Absent
  BY <1>2, Statement DEF Known
<1>5. m \in Key /\ m \in Ids /\ m \notin InviteId /\ RowOf(m) = MemberRow
  BY <1>4, KeysOfTables, TableOf
<1>6. draft[m] # Absent /\ Later(m, db[m], draft[m]) /\ draft[m] \in MemberRow
  BY <1>4, <1>5, Typed
<1>7. Free(r, m) /\ Visible(r)[m] = draft[m]
  BY <1>1, <1>5, UnblockedRowsAreFree, FreeRowIsNewest DEF WaitsFor, IInv
<1> HIDE DEF m, caller
<1>8. /\ new \in MemberRow /\ new.removedBy = caller
      /\ new.user = draft[m].user /\ new.invite = draft[m].invite
  BY <1>3, <1>6 DEF MemberRow
<1>9. Later(m, draft[m], new)
  BY <1>3, <1>5, <1>6, <1>8 DEF Later, SameSubject, Closed
<1>10. Write(r, [k \in {m} |-> new])
  <2>1. [k \in {m} |-> [Visible(r)[k] EXCEPT !.removedBy = caller]] = [k \in {m} |-> new]
    BY <1>7
  <2>2. QED
    BY <1>1, <2>1
<1> HIDE DEF new
<1>11. QED
  BY <1>1, <1>5, <1>6, <1>8, <1>9, <1>10, UpdateKind DEF At, m

\* Permission rows: the statement waited for all of them.
LEMMA PermissionsKind ==
    ASSUME IInv, NEW r \in Request, NEW K \in SUBSET (User \X Permission), NEW version,
           Write(r, [k \in K |-> version]), WaitsFor(r) = {}, K \subseteq Needs(r),
           Current(r) \in {"seedPermissions", "insertPermissions", "deletePermissions",
                           "revokeAllPermissions"},
           \/ version = Absent
           \/ version = Granted /\ \A k \in K : MayHold(r, k[1], k[2])
    PROVE  \E rows : WritesLawfully(r, rows)
<1> DEFINE rows == [k \in K |-> version]
<1>1. \A k \in K : k \in Key /\ k \notin Ids /\ RowOf(k) = PermissionRow /\ Free(r, k)
  BY PermissionRowsHaveKeys, TableOf, UnblockedRowsAreFree DEF WaitsFor
<1>2. \A k \in K : Lawful(r, k, version)
  BY <1>1 DEF Lawful, PermissionRow
<1>3. /\ \A k \in DOMAIN rows : Free(r, k) /\ Lawful(r, k, rows[k])
      /\ \A k, l \in DOMAIN rows : {k, l} \subseteq Ids => k = l
  BY <1>1, <1>2
<1>4. Write(r, rows)
  OBVIOUS
<1> HIDE DEF rows
<1>5. QED
  BY <1>3, <1>4, WriteKind DEF At

LEMMA SeedKind ==
    ASSUME IInv, NEW r \in Request, seedPermissions(r), ~Throw(r)
    PROVE  \E rows : WritesLawfully(r, rows)
<1> DEFINE K == RowsOf(req[r].subject, req[r].list)
<1>1. /\ At(r, "seedPermissions") /\ WaitsFor(r) = {} /\ Needs(r) = K
      /\ Write(r, [k \in K |-> Granted])
  BY DEF seedPermissions, Needs, At
<1>2. req[r].op = "acceptWorkspaceInvite"
  BY <1>1, Statement, ScriptSteps DEF At
<1>3. req[r].subject \in User /\ Range(req[r].list) \subseteq Permission
  BY <1>2, Statement, RangeOfList DEF Known, RequestState
<1>4. Clean(req[r].list)
  BY <1>2, Statement DEF Known, Answering, IInv, CleanOK
<1>5. SeatedBy(r, req[r].subject)
  BY <1>1, Statement DEF Placed
<1>6. ASSUME NEW k \in K
      PROVE  k \in User \X Permission /\ MayHold(r, k[1], k[2])
  <2>1. PICK p \in Range(req[r].list) : k = <<req[r].subject, p>>
    BY DEF RowsOf
  <2>2. QED
    BY <1>3, <1>4, <1>5, <2>1 DEF MayHold, Clean
<1> HIDE DEF K
<1>7. QED
  BY <1>1, <1>6, PermissionsKind DEF At

LEMMA GrantKind ==
    ASSUME IInv, NEW r \in Request, insertPermissions(r)
    PROVE  \E rows : WritesLawfully(r, rows)
<1> DEFINE K == {k \in RowsOf(req[r].subject, req[r].list) : Visible(r)[k] = Absent}
<1>1. /\ At(r, "insertPermissions") /\ WaitsFor(r) = {} /\ K \subseteq Needs(r)
      /\ Write(r, [k \in K |-> Granted])
  BY DEF insertPermissions, Needs, At
<1>2. req[r].op = "grantWorkspaceMemberPermissions"
  BY <1>1, Statement, ScriptSteps DEF At
<1>3. req[r].subject \in User /\ Range(req[r].list) \subseteq Permission
  BY <1>2, Statement, RangeOfList DEF Known, RequestState
<1>4. Clean(req[r].list)
  BY <1>1, <1>2, Statement DEF Placed, HandingOn, Unchecking, At
<1>5. \E m \in MemberId : db[m] # Absent /\ db[m].user = req[r].subject
  BY <1>2, Statement DEF Known, AboutMember
<1>6. ASSUME NEW k \in K
      PROVE  k \in User \X Permission /\ MayHold(r, k[1], k[2])
  <2>1. PICK p \in Range(req[r].list) : k = <<req[r].subject, p>>
    BY DEF RowsOf
  <2>2. QED
    BY <1>3, <1>4, <1>5, <2>1 DEF MayHold, Clean
<1> HIDE DEF K
<1>7. QED
  BY <1>1, <1>6, PermissionsKind DEF At

LEMMA RevokeKind ==
    ASSUME IInv, NEW r \in Request, deletePermissions(r) \/ revokeAllPermissions(r)
    PROVE  \E rows : WritesLawfully(r, rows)
<1>1. /\ Current(r) \in {"deletePermissions", "revokeAllPermissions"}
      /\ WaitsFor(r) = {} /\ Needs(r) = Deletes(r)
      /\ Write(r, [k \in Deletes(r) |-> Absent])
  BY DEF deletePermissions, revokeAllPermissions, Needs, At
<1>2. req[r].subject \in User /\ Range(req[r].list) \subseteq Permission
  BY <1>1, Statement, ScriptSteps, RangeOfList DEF Known, RequestState
<1>3. Deletes(r) \in SUBSET (User \X Permission)
  BY <1>2 DEF Deletes, RowsOf
<1>4. QED
  BY <1>1, <1>3, PermissionsKind

LEMMA Classified ==
    ASSUME IInv, NEW r \in Request, Begin(r) \/ Run(r) \/ Abort(r)
    PROVE  Kinds(r)
<1>1. CASE Begin(r)
  BY <1>1, BeginPasses DEF Kinds
<1>2. CASE Abort(r)
  BY <1>2 DEF Abort, Kinds
<1>3. CASE Validates(r)
  BY <1>3, ValidatorKinds DEF Kinds
<1>4. CASE insertInvite(r) \/ insertMember(r) \/ seedPermissions(r)
  BY <1>4, InsertInviteKind, InsertMemberKind, SeedKind DEF Kinds
<1>5. CASE setInviteStatus(r) \/ setMemberRemoved(r)
  BY <1>5, AnswerKind, RemovalKind DEF Kinds
<1>6. CASE insertPermissions(r) \/ deletePermissions(r) \/ revokeAllPermissions(r)
  BY <1>6, GrantKind, RevokeKind DEF Kinds
<1>7. CASE commit(r)
  BY <1>7 DEF Kinds
<1>8. QED
  BY <1>1, <1>2, <1>3, <1>4, <1>5, <1>6, <1>7 DEF Run, Validates

-------------------------------------------------------------------------------
(* Every step keeps the invariant.                                           *)

LEMMA IdleIsKnown == Idle \in RequestState
BY OpsAre DEF Idle, RequestState

\* What any step does to one row.
LEMMA Effects ==
    ASSUME IInv, NEW r \in Request, Kinds(r), NEW k \in Key
    PROVE  /\ ~Free(r, k) => db'[k] = db[k] /\ draft'[k] = draft[k] /\ holder'[k] = holder[k]
           /\ holder'[k] \in {holder[k], r, NoRequest}
           /\ db'[k] = db[k] \/ (holder[k] = r /\ db'[k] = draft[k])
           /\ k \in Ids /\ db[k] # Absent => db'[k] # Absent /\ Later(k, db[k], db'[k])
<1>0. /\ Later(k, db[k], db[k])
      /\ k \in Ids /\ db[k] # Absent => draft[k] # Absent /\ Later(k, db[k], draft[k])
  BY LaterIsOrder, Typed
<1>1. CASE Passes(r)
  BY <1>0, <1>1 DEF Passes, tables
<1>2. CASE Throw(r)
  BY <1>0, <1>2, RollbackRow DEF Throw, Free
<1>3. CASE commit(r)
  BY <1>0, <1>3, CommitRow DEF commit, Free
<1>4. ASSUME NEW rows, WritesLawfully(r, rows)
      PROVE  /\ ~Free(r, k) => db'[k] = db[k] /\ draft'[k] = draft[k] /\ holder'[k] = holder[k]
             /\ holder'[k] \in {holder[k], r}
             /\ db'[k] = db[k]
  BY <1>4, PutRow DEF WritesLawfully, Writes
<1>5. QED
  BY <1>0, <1>1, <1>2, <1>3, <1>4 DEF Kinds

\* What a lawful statement does to one row.
LEMMA WrittenRow ==
    ASSUME IInv, NEW r \in Request, NEW rows, WritesLawfully(r, rows), NEW k \in Key
    PROVE  /\ db'[k] = db[k]
           /\ \/ draft'[k] = draft[k] /\ holder'[k] = holder[k]
              \/ /\ k \in DOMAIN rows /\ Free(r, k)
                 /\ draft'[k] = rows[k] /\ holder'[k] = r
                 /\ Lawful(r, k, draft'[k])
           /\ k \in Ids /\ draft[k] # Absent => draft'[k] # Absent /\ Later(k, draft[k], draft'[k])
<1>1. Put(r, rows) /\ (k \in DOMAIN rows => Free(r, k) /\ Lawful(r, k, rows[k]))
  BY DEF WritesLawfully, Writes
<1>2. CASE k \in DOMAIN rows
  BY <1>1, <1>2, PutRow DEF Lawful
<1>3. CASE k \notin DOMAIN rows
  BY <1>1, <1>3, PutRow, LaterIsOrder
<1>4. QED
  BY <1>2, <1>3

LEMMA TypeKept ==
    ASSUME IInv, NEW r \in Request, Kinds(r)
    PROVE  TypeOK'
<1>1. \A k \in Key : RowOf(k) \subseteq Rows
  BY TableOf
<1>2. req' \in [Request -> RequestState]
  <2>1. req \in [Request -> RequestState]
    BY DEF IInv, TypeOK
  <2>2. QED
    BY <2>1, IdleIsKnown DEF Kinds, Passes, Throw, commit, WritesLawfully
<1>3. /\ DOMAIN db = Key /\ db = [k \in Key |-> db[k]]
      /\ DOMAIN draft = Key /\ draft = [k \in Key |-> draft[k]]
      /\ DOMAIN holder = Key /\ holder = [k \in Key |-> holder[k]]
  BY DEF IInv, TypeOK, Versioned
<1>4. /\ db' = [k \in Key |-> db'[k]]
      /\ draft' = [k \in Key |-> draft'[k]]
      /\ holder' = [k \in Key |-> holder'[k]]
  <2>1. CASE UNCHANGED tables
    BY <1>3, <2>1 DEF tables
  <2>2. CASE RollbackTx(r)
    BY <1>3, <2>2 DEF RollbackTx, Released
  <2>3. CASE CommitTx(r)
    BY <1>3, <2>3 DEF CommitTx, Released, Visible
  <2>4. ASSUME NEW rows, Put(r, rows)
        PROVE  <1>4
    BY <1>3, <2>4 DEF Put
  <2>5. QED
    BY <2>1, <2>2, <2>3, <2>4 DEF Kinds, Passes, Throw, commit, WritesLawfully, Writes
<1>5. ASSUME NEW k \in Key
      PROVE  /\ db'[k] \in RowOf(k) \cup {Absent}
             /\ draft'[k] \in RowOf(k) \cup {Absent}
             /\ holder'[k] \in Request \cup {NoRequest}
  <2>1. db'[k] \in {db[k], draft[k]} /\ holder'[k] \in {holder[k], r, NoRequest}
    BY Effects
  <2>2. draft'[k] \in RowOf(k) \cup {Absent}
    <3>1. CASE Passes(r)
      BY <3>1, Typed DEF Passes, tables
    <3>2. CASE Throw(r)
      BY <3>2, Typed, RollbackRow DEF Throw
    <3>3. CASE commit(r)
      BY <3>3, Typed, CommitRow DEF commit
    <3>4. ASSUME NEW rows, WritesLawfully(r, rows)
          PROVE  draft'[k] \in RowOf(k) \cup {Absent}
      BY <3>4, Typed, WrittenRow DEF Lawful
    <3>5. QED
      BY <3>1, <3>2, <3>3, <3>4 DEF Kinds
  <2>3. QED
    BY <2>1, <2>2, Typed
<1>6. QED
  BY <1>1, <1>2, <1>4, <1>5 DEF TypeOK, Versioned

LEMMA VersionsKept ==
    ASSUME IInv, NEW r \in Request, Kinds(r)
    PROVE  FreeRowsAreCommitted' /\ Versions'
<1>1. FreeRowsAreCommitted'
  <2>1. FreeRowsAreCommitted
    BY DEF IInv
  <2>2. \/ UNCHANGED tables \/ CommitTx(r) \/ RollbackTx(r) \/ \E rows : Put(r, rows)
    BY DEF Kinds, Passes, Throw, commit, WritesLawfully, Writes
  <2>3. QED
    BY <2>1, <2>2, FreeRowsStayCommitted
<1>2. ASSUME NEW k \in Ids, db'[k] # Absent
      PROVE  draft'[k] # Absent /\ Later(k, db'[k], draft'[k])
  <2>1. k \in Key /\ (db[k] # Absent => draft[k] # Absent /\ Later(k, db[k], draft[k]))
    BY KeysOfTables, Typed
  <2>2. CASE Passes(r)
    BY <1>2, <2>1, <2>2 DEF Passes, tables
  <2>3. CASE Throw(r)
    BY <1>2, <2>1, <2>3, RollbackRow, LaterIsOrder DEF Throw
  <2>4. CASE commit(r)
    BY <1>2, <2>1, <2>4, CommitRow, LaterIsOrder DEF commit
  <2>5. ASSUME NEW rows, WritesLawfully(r, rows)
        PROVE  draft'[k] # Absent /\ Later(k, db'[k], draft'[k])
    <3>1. /\ db'[k] = db[k]
          /\ draft[k] # Absent => draft'[k] # Absent /\ Later(k, draft[k], draft'[k])
      BY <2>1, <2>5, WrittenRow
    <3>2. QED
      BY <1>2, <2>1, <3>1, LaterIsOrder
  <2>6. QED
    BY <2>2, <2>3, <2>4, <2>5 DEF Kinds
<1>3. QED
  BY <1>1, <1>2 DEF Versions

LEMMA RequestsKept ==
    ASSUME IInv, NEW r \in Request, Kinds(r)
    PROVE  RequestsOK'
<1> SUFFICES ASSUME NEW q \in Request
             PROVE  Known(q)' /\ Placed(q)'
  BY DEF RequestsOK
<1>1. CASE q # r
  <2>1. req'[q] = req[q]
    BY <1>1 DEF Kinds, Passes, Throw, commit, WritesLawfully, OthersWait, IInv, TypeOK
  <2>2. \A k \in Key : holder[k] = q =>
            db'[k] = db[k] /\ draft'[k] = draft[k] /\ holder'[k] = q
    BY <1>1, Effects, NoRequestIsNoRequest DEF Free
  <2>3. Known(q)'
    <3>1. \A k \in Ids : db[k] # Absent => db'[k] # Absent /\ Later(k, db[k], db'[k])
      BY Effects, KeysOfTables
    <3>2. QED
      BY <2>1, <3>1, Statement, KnownStays
  <2>4. At(q, "insertMember")' => AnsweredFor(q, req[q].row, req[q].subject)'
    BY <2>1, <2>2, KeysOfTables, Statement DEF Placed, AnsweredFor, At, Current
  <2>5. At(q, "seedPermissions")' => SeatedBy(q, req[q].subject)'
    BY <2>1, <2>2, KeysOfTables, Statement DEF Placed, SeatedBy, At, Current
  <2>6. QED
    BY <2>1, <2>3, <2>4, <2>5, Statement DEF Placed, Current
<1>2. CASE q = r /\ req'[r] = Idle
  <2>1. Current(r)' = "idle"
    BY <1>2 DEF Current, Idle, Script
  <2>2. QED
    BY <1>2, <2>1, FirstStatements, OpsAre
    DEF Known, Placed, Idle, At, Answering, AboutMember, HandingOn
<1>3. CASE q = r /\ ~(req'[r] = Idle)
  BY <1>3 DEF Kinds, Passes, WritesLawfully, Throw, commit, IInv, TypeOK
<1>4. QED
  BY <1>1, <1>2, <1>3

\* An UPDATE meets in an index only what the row met before it.
LEMMA LaterClashesLess ==
    ASSUME NEW k \in Key, NEW old, NEW row, NEW l \in Key, NEW other,
           old # Absent, Later(k, old, row)
    PROVE  Clash(k, row, l, other) => Clash(k, old, l, other)
<1>1. CASE k \in InviteId
  BY <1>1, TableOf DEF Clash, Later, SameSubject, Closed
<1>2. CASE k \in MemberId
  BY <1>2, TableOf DEF Clash, Later, SameSubject, Closed
<1>3. QED
  BY <1>1, <1>2 DEF Clash

LEMMA ClashIsMutual ==
    ASSUME NEW k, NEW row, NEW l, NEW other
    PROVE  /\ Clash(k, row, l, other) => Clash(l, other, k, row)
           /\ Clash(k, row, l, other) => k \in Ids /\ l \in Ids
BY DEF Clash, Ids

\* The indexes in front of one row written: what it meets, drafts and others' committed rows.
LEMMA WrittenMeetsNone ==
    ASSUME IInv, NEW r \in Request, NEW k \in Ids, NEW row, Free(r, k), Lawful(r, k, row),
           NEW l \in Key, l # k
    PROVE  /\ ~Clash(k, row, l, draft[l])
           /\ holder[l] # r => ~Clash(k, row, l, db[l])
<1>1. k \in Key
  BY KeysOfTables
<1>2. CASE draft[k] = Absent
  BY <1>2 DEF Lawful, Appears, Clear
<1>3. CASE draft[k] # Absent
  <2>1. /\ ~Clash(k, draft[k], l, draft[l])
        /\ holder[l] # r => ~Clash(k, draft[k], l, db[l])
    <3>1. /\ ~Clash(k, draft[k], l, draft[l])
          /\ ~Clash(k, db[k], l, db[l])
          /\ holder[l] # holder[k] => ~Clash(l, db[l], k, draft[k])
      BY <1>1 DEF IInv, IndexesOK
    <3>2. holder[k] = NoRequest => draft[k] = db[k]
      BY <1>1, Typed
    <3>3. QED
      BY <3>1, <3>2, ClashIsMutual DEF Free
  <2>2. Later(k, draft[k], row)
    BY <1>3 DEF Lawful
  <2>3. QED
    BY <1>1, <1>3, <2>1, <2>2, LaterClashesLess
<1>4. QED
  BY <1>2, <1>3

LEMMA IndexesKept ==
    ASSUME IInv, NEW r \in Request, Kinds(r)
    PROVE  IndexesOK'
<1> SUFFICES ASSUME NEW k \in Key, NEW l \in Key, k # l
             PROVE  /\ ~Clash(k, db'[k], l, db'[l])
                    /\ ~Clash(k, draft'[k], l, draft'[l])
                    /\ holder'[k] # holder'[l] => ~Clash(k, db'[k], l, draft'[l])
  BY DEF IndexesOK, Clash
<1>1. /\ ~Clash(k, db[k], l, db[l])
      /\ ~Clash(k, draft[k], l, draft[l])
      /\ holder[k] # holder[l] => ~Clash(k, db[k], l, draft[l])
      /\ holder[k] # holder[l] => ~Clash(l, db[l], k, draft[k])
  BY DEF IInv, IndexesOK
<1>2. CASE Passes(r)
  BY <1>1, <1>2 DEF Passes, tables
<1>3. CASE Throw(r)
  <2>1. RollbackTx(r)
    BY <1>3 DEF Throw
  <2>2. /\ db'[k] = db[k]
        /\ holder[k] = r => draft'[k] = db[k] /\ holder'[k] = NoRequest
        /\ holder[k] # r => draft'[k] = draft[k] /\ holder'[k] = holder[k]
    BY <2>1, RollbackRow
  <2>3. /\ db'[l] = db[l]
        /\ holder[l] = r => draft'[l] = db[l] /\ holder'[l] = NoRequest
        /\ holder[l] # r => draft'[l] = draft[l] /\ holder'[l] = holder[l]
    BY <2>1, RollbackRow
  <2>4. QED
    BY <1>1, <2>2, <2>3, ClashIsMutual
<1>4. CASE commit(r)
  <2>1. CommitTx(r)
    BY <1>4 DEF commit
  <2>2. /\ draft'[k] = draft[k]
        /\ holder[k] = r => db'[k] = draft[k] /\ holder'[k] = NoRequest
        /\ holder[k] # r => db'[k] = db[k] /\ holder'[k] = holder[k]
    BY <2>1, CommitRow
  <2>3. /\ draft'[l] = draft[l]
        /\ holder[l] = r => db'[l] = draft[l] /\ holder'[l] = NoRequest
        /\ holder[l] # r => db'[l] = db[l] /\ holder'[l] = holder[l]
    BY <2>1, CommitRow
  <2>4. QED
    BY <1>1, <2>2, <2>3, ClashIsMutual
<1>5. ASSUME NEW rows, WritesLawfully(r, rows)
      PROVE  /\ ~Clash(k, db'[k], l, db'[l])
             /\ ~Clash(k, draft'[k], l, draft'[l])
             /\ holder'[k] # holder'[l] => ~Clash(k, db'[k], l, draft'[l])
  <2>1. /\ db'[k] = db[k]
        /\ \/ draft'[k] = draft[k] /\ holder'[k] = holder[k]
           \/ /\ k \in DOMAIN rows /\ Free(r, k)
              /\ holder'[k] = r /\ Lawful(r, k, draft'[k])
    BY <1>5, WrittenRow
  <2>2. /\ db'[l] = db[l]
        /\ \/ draft'[l] = draft[l] /\ holder'[l] = holder[l]
           \/ /\ l \in DOMAIN rows /\ Free(r, l)
              /\ holder'[l] = r /\ Lawful(r, l, draft'[l])
    BY <1>5, WrittenRow
  <2>3. CASE k \notin Ids \/ l \notin Ids
    BY <2>3, ClashIsMutual
  <2>4. CASE draft'[k] = draft[k] /\ holder'[k] = holder[k]
             /\ draft'[l] = draft[l] /\ holder'[l] = holder[l]
    BY <1>1, <2>1, <2>2, <2>4
  <2>5. CASE /\ k \in Ids /\ l \in Ids
             /\ k \in DOMAIN rows /\ Free(r, k) /\ holder'[k] = r /\ Lawful(r, k, draft'[k])
             /\ draft'[l] = draft[l] /\ holder'[l] = holder[l]
    <3>1. ~Clash(k, draft'[k], l, draft[l])
      BY <2>5, WrittenMeetsNone
    <3>2. ASSUME holder[l] # r
          PROVE  ~Clash(k, db[k], l, draft[l])
      <4>1. CASE holder[k] = r
        BY <1>1, <3>2, <4>1
      <4>2. CASE holder[k] = NoRequest
        BY <1>1, <4>2, Typed
      <4>3. QED
        BY <2>5, <4>1, <4>2 DEF Free
    <3>3. QED
      BY <1>1, <2>1, <2>2, <2>5, <3>1, <3>2
  <2>6. CASE /\ k \in Ids /\ l \in Ids
             /\ l \in DOMAIN rows /\ Free(r, l) /\ holder'[l] = r /\ Lawful(r, l, draft'[l])
             /\ draft'[k] = draft[k] /\ holder'[k] = holder[k]
    <3>1. /\ ~Clash(l, draft'[l], k, draft[k])
          /\ holder[k] # r => ~Clash(l, draft'[l], k, db[k])
      BY <2>6, WrittenMeetsNone
    <3>2. QED
      BY <1>1, <2>1, <2>2, <2>6, <3>1, ClashIsMutual
  <2>7. k \in Ids /\ l \in Ids => ~(k \in DOMAIN rows /\ l \in DOMAIN rows)
    BY <1>5 DEF WritesLawfully
  <2>8. QED
    BY <2>1, <2>2, <2>3, <2>4, <2>5, <2>6, <2>7
<1>6. QED
  BY <1>2, <1>3, <1>4, <1>5 DEF Kinds

\* The seat a transaction has made and the invite it has answered stay while it writes.
LEMMA OwnRowsStay ==
    ASSUME IInv, NEW r \in Request, NEW rows, WritesLawfully(r, rows)
    PROVE  /\ \A i, u : AnsweredFor(r, i, u) => AnsweredFor(r, i, u)'
           /\ \A u : SeatedBy(r, u) => SeatedBy(r, u)'
<1>1. ASSUME NEW k \in Ids, holder[k] = r, draft[k] # Absent
      PROVE  holder'[k] = r /\ draft'[k] # Absent /\ Later(k, draft[k], draft'[k])
  BY <1>1, KeysOfTables, WrittenRow, LaterIsOrder
<1>2. ASSUME NEW i, NEW u, AnsweredFor(r, i, u)
      PROVE  AnsweredFor(r, i, u)'
  <2>1. i \in InviteId /\ i \in Ids /\ i \in Key /\ db[i] # Absent /\ holder[i] = r
    BY <1>2, KeysOfTables DEF AnsweredFor, Ids
  <2>2. db'[i] = db[i] /\ draft[i] # Absent
    BY <2>1, Typed, WrittenRow
  <2>3. QED
    BY <1>1, <1>2, <2>1, <2>2, TableOf DEF AnsweredFor, Later, SameSubject, Closed
<1>3. ASSUME NEW u, SeatedBy(r, u)
      PROVE  SeatedBy(r, u)'
  <2>1. PICK m \in MemberId : holder[m] = r /\ draft[m] # Absent /\ draft[m].user = u
    BY <1>3 DEF SeatedBy
  <2>2. m \in Ids
    BY DEF Ids
  <2>3. QED
    BY <1>1, <2>1, <2>2 DEF SeatedBy, Later, SameSubject
<1>4. QED
  BY <1>2, <1>3

\* What another transaction has written stays whatever r does.
LEMMA OthersRowsStay ==
    ASSUME IInv, NEW r \in Request, Kinds(r), NEW q \in Request \ {r}
    PROVE  /\ \A i, u : AnsweredFor(q, i, u) => AnsweredFor(q, i, u)'
           /\ \A u : SeatedBy(q, u) => SeatedBy(q, u)'
<1>1. \A k \in Key : holder[k] = q => db'[k] = db[k] /\ draft'[k] = draft[k] /\ holder'[k] = q
  BY Effects, NoRequestIsNoRequest DEF Free
<1>2. QED
  BY <1>1, KeysOfTables DEF AnsweredFor, SeatedBy

LEMMA OriginsKept ==
    ASSUME IInv, NEW r \in Request, Kinds(r)
    PROVE  OriginsOK'
<1>1. ASSUME NEW m \in MemberId, db[m] = Absent, draft[m] # Absent
      PROVE  AnsweredFor(holder[m], draft[m].invite, draft[m].user)
  BY <1>1 DEF IInv, OriginsOK
<1>2. ASSUME NEW m \in MemberId, db'[m] = Absent, draft'[m] # Absent
      PROVE  AnsweredFor(holder[m], draft[m].invite, draft[m].user)'
  <2>1. m \in Key /\ m \in Ids /\ m \notin InviteId
    BY KeysOfTables, TableOf
  <2>2. db[m] = Absent
    BY <1>2, <2>1, Effects
  <2>3. holder'[m] \in Request
    <3>1. FreeRowsAreCommitted' /\ TypeOK'
      BY VersionsKept, TypeKept
    <3>2. QED
      BY <1>2, <2>1, <3>1 DEF FreeRowsAreCommitted, TypeOK
  <2>4. CASE holder'[m] = holder[m] /\ draft'[m] = draft[m] /\ holder[m] # r
    BY <1>1, <1>2, <2>2, <2>3, <2>4, OthersRowsStay
  <2>5. CASE ~Free(r, m)
    BY <2>1, <2>4, <2>5, Effects DEF Free
  <2>6. CASE Free(r, m)
    <3>1. ASSUME NEW rows, WritesLawfully(r, rows)
          PROVE  AnsweredFor(holder[m], draft[m].invite, draft[m].user)'
      <4>1. CASE draft[m] = Absent
        <5>1. holder'[m] = r /\ Lawful(r, m, draft'[m])
          BY <1>2, <2>1, <3>1, <4>1, WrittenRow
        <5>2. AnsweredFor(r, draft'[m].invite, draft'[m].user)
          BY <2>1, <4>1, <5>1 DEF Lawful, Appears
        <5>3. QED
          BY <3>1, <5>1, <5>2, OwnRowsStay
      <4>2. CASE draft[m] # Absent
        <5>1. holder[m] = r
          BY <2>1, <2>2, <2>6, <4>2, Typed DEF Free
        <5>2. AnsweredFor(r, draft[m].invite, draft[m].user)
          BY <1>1, <2>2, <4>2, <5>1
        <5>3. holder'[m] = r /\ Later(m, draft[m], draft'[m])
          BY <2>1, <3>1, <4>2, <5>1, WrittenRow
        <5>4. draft'[m].invite = draft[m].invite /\ draft'[m].user = draft[m].user
          BY <5>3 DEF Later, SameSubject
        <5>5. QED
          BY <3>1, <5>2, <5>3, <5>4, OwnRowsStay
      <4>3. QED
        BY <4>1, <4>2
    <3>2. CASE Passes(r)
      BY <1>1, <1>2, <2>2, <3>2 DEF Passes, tables, AnsweredFor
    <3>3. CASE Throw(r)
      BY <1>2, <2>1, <2>2, <2>6, <3>3, Typed, RollbackRow DEF Throw, Free
    <3>4. CASE commit(r)
      BY <1>2, <2>1, <2>2, <2>6, <3>4, Typed, CommitRow DEF commit, Free
    <3>5. QED
      BY <3>1, <3>2, <3>3, <3>4 DEF Kinds
  <2>7. QED
    BY <2>5, <2>6
<1>3. ASSUME NEW m \in MemberId, db'[m] # Absent
      PROVE  LET i == db'[db'[m].invite] IN
             i # Absent /\ i.invitee = db'[m].user /\ i.status # "PENDING"
  <2>1. m \in Key /\ m \in Ids
    BY KeysOfTables, TableOf
  <2>2. CASE db[m] # Absent
    <3>1. db'[m].invite = db[m].invite /\ db'[m].user = db[m].user
      BY <2>1, <2>2, Effects DEF Later, SameSubject
    <3>2. db[m].invite \in InviteId
      BY <2>1, <2>2, Typed, TableOf, MemberFields
    <3>3. LET i == db[db[m].invite] IN
          i # Absent /\ i.invitee = db[m].user /\ i.status # "PENDING"
      BY <2>2 DEF IInv, OriginsOK, MembersWereInvited
    <3>4. LET i == db[db[m].invite]
              j == db'[db[m].invite]
          IN  j # Absent /\ Later(db[m].invite, i, j)
      BY <3>2, <3>3, KeysOfTables, Effects DEF Ids
    <3>5. QED
      BY <3>1, <3>2, <3>3, <3>4 DEF Later, SameSubject, Closed
  <2>3. CASE db[m] = Absent
    <3>1. holder[m] = r /\ db'[m] = draft[m]
      BY <1>3, <2>1, <2>3, Effects
    <3>2. commit(r)
      BY <1>3, <2>3 DEF Kinds, Passes, tables, Throw, RollbackTx, WritesLawfully, Writes, Put
    <3>3. AnsweredFor(r, draft[m].invite, draft[m].user)
      BY <1>1, <1>3, <2>3, <3>1
    <3>4. LET i == draft[m].invite IN
          db'[i] = draft[i] /\ i \in InviteId /\ i \in Key /\ db[i] # Absent
      BY <3>2, <3>3, KeysOfTables, CommitRow DEF commit, AnsweredFor
    <3>5. draft[draft[m].invite] # Absent
      BY <3>4, Typed DEF Ids
    <3>6. QED
      BY <3>1, <3>3, <3>4, <3>5 DEF AnsweredFor
  <2>4. QED
    BY <2>2, <2>3
<1>4. QED
  BY <1>2, <1>3 DEF OriginsOK, MembersWereInvited

CommittedMember(u) == \E m \in MemberId : db[m] # Absent /\ db[m].user = u

LEMMA MembersStay ==
    ASSUME IInv, NEW r \in Request, Kinds(r), NEW u, CommittedMember(u)
    PROVE  CommittedMember(u)'
<1>1. PICK m \in MemberId : db[m] # Absent /\ db[m].user = u
  BY DEF CommittedMember
<1>2. db'[m] # Absent /\ Later(m, db[m], db'[m])
  BY <1>1, KeysOfTables, Effects DEF Ids
<1>3. QED
  BY <1>1, <1>2 DEF CommittedMember, Later, SameSubject

LEMMA HoldersKept ==
    ASSUME IInv, NEW r \in Request, Kinds(r)
    PROVE  HoldersOK'
<1>1. ASSUME NEW u \in User, NEW p \in Permission
      PROVE  /\ db[<<u, p>>] = Absent /\ draft[<<u, p>>] # Absent =>
                    SeatedBy(holder[<<u, p>>], u) \/ CommittedMember(u)
             /\ db[<<u, p>>] # Absent => CommittedMember(u)
  BY DEF IInv, HoldersOK, HoldersWereMembers, CommittedMember
<1>2. ASSUME NEW u \in User, NEW p \in Permission, ~CommittedMember(u)',
             db'[<<u, p>>] = Absent, draft'[<<u, p>>] # Absent
      PROVE  SeatedBy(holder[<<u, p>>], u)'
  <2> DEFINE k == <<u, p>>
  <2>1. k \in Key /\ k \in User \X Permission /\ k[1] = u
    BY KeysOfTables
  <2>2. ~CommittedMember(u) /\ db[k] = Absent
    BY <1>1, <1>2, MembersStay
  <2>3. draft[k] # Absent => SeatedBy(holder[k], u) /\ holder[k] \in Request
    BY <1>1, <2>1, <2>2, Typed
  <2> HIDE DEF k
  <2>4. CASE ~Free(r, k)
    <3>1. draft[k] # Absent /\ holder'[k] = holder[k] /\ holder[k] # r
      BY <1>2, <2>1, <2>4, Effects DEF Free, k
    <3>2. QED
      BY <2>3, <3>1, OthersRowsStay DEF k
  <2>5. CASE Free(r, k)
    <3>1. ASSUME NEW rows, WritesLawfully(r, rows)
          PROVE  SeatedBy(holder[k], u)'
      <4>1. CASE k \in DOMAIN rows /\ holder'[k] = r /\ Lawful(r, k, draft'[k])
        <5>1. SeatedBy(r, u)
          BY <1>2, <2>1, <2>2, <4>1 DEF Lawful, MayHold, CommittedMember, k
        <5>2. QED
          BY <3>1, <4>1, <5>1, OwnRowsStay
      <4>2. CASE draft'[k] = draft[k] /\ holder'[k] = holder[k]
        <5>1. draft[k] # Absent /\ holder[k] = r
          BY <1>2, <2>3, <2>5, <4>2, NoRequestIsNoRequest DEF Free, k
        <5>2. QED
          BY <2>3, <3>1, <4>2, <5>1, OwnRowsStay
      <4>3. QED
        BY <2>1, <3>1, <4>1, <4>2, WrittenRow
    <3>2. CASE Passes(r)
      BY <1>2, <2>3, <3>2 DEF Passes, tables, SeatedBy, k
    <3>3. CASE Throw(r)
      BY <1>2, <2>1, <2>2, <2>5, <3>3, Typed, RollbackRow DEF Throw, Free, k
    <3>4. CASE commit(r)
      BY <1>2, <2>1, <2>2, <2>5, <3>4, Typed, CommitRow DEF commit, Free, k
    <3>5. QED
      BY <3>1, <3>2, <3>3, <3>4 DEF Kinds, k
  <2>6. QED
    BY <2>4, <2>5 DEF k
<1>3. ASSUME NEW u \in User, NEW p \in Permission, db'[<<u, p>>] # Absent
      PROVE  CommittedMember(u)'
  <2>1. <<u, p>> \in Key
    BY KeysOfTables
  <2>2. CASE db[<<u, p>>] # Absent
    BY <1>1, <2>2, MembersStay
  <2>3. CASE db[<<u, p>>] = Absent
    <3>1. holder[<<u, p>>] = r /\ draft[<<u, p>>] # Absent
      BY <1>3, <2>1, <2>3, Effects
    <3>2. SeatedBy(r, u) \/ CommittedMember(u)
      BY <1>1, <2>3, <3>1
    <3>3. CASE SeatedBy(r, u)
      <4>1. commit(r)
        BY <1>3, <2>3 DEF Kinds, Passes, tables, Throw, RollbackTx, WritesLawfully, Writes, Put
      <4>2. PICK m \in MemberId : holder[m] = r /\ draft[m] # Absent /\ draft[m].user = u
        BY <3>3 DEF SeatedBy
      <4>3. db'[m] = draft[m]
        BY <4>1, <4>2, KeysOfTables, CommitRow DEF commit
      <4>4. QED
        BY <4>2, <4>3 DEF CommittedMember
    <3>4. QED
      BY <3>2, <3>3, MembersStay
  <2>4. QED
    BY <2>2, <2>3
<1>4. QED
  BY <1>2, <1>3 DEF HoldersOK, HoldersWereMembers, CommittedMember

LEMMA CleanKept ==
    ASSUME IInv, NEW r \in Request, Kinds(r)
    PROVE  CleanOK'
<1> DEFINE Fine(k, row) ==
        /\ k \in InviteId /\ row # Absent => Clean(row.permissions)
        /\ k \in User \X (Permission \cap Withheld) => row = Absent
<1>1. ASSUME NEW k \in Key
      PROVE  Fine(k, db[k]) /\ Fine(k, draft[k])
  BY DEF IInv, CleanOK
<1>2. ASSUME NEW k \in Key
      PROVE  Fine(k, db'[k]) /\ Fine(k, draft'[k])
  <2>1. Fine(k, db'[k])
    <3>1. db'[k] = db[k] \/ db'[k] = draft[k]
      BY Effects
    <3> HIDE DEF Fine
    <3>2. QED
      BY <1>1, <3>1
  <2>2. CASE draft'[k] = draft[k] \/ draft'[k] = db[k]
    <3> HIDE DEF Fine
    <3>1. QED
      BY <1>1, <2>2, <2>1
  <2>3. ASSUME NEW rows, WritesLawfully(r, rows)
        PROVE  Fine(k, draft'[k])
    <3>1. CASE draft'[k] = draft[k]
      BY <2>1, <2>2, <3>1
    <3>2. CASE Lawful(r, k, draft'[k]) /\ k \in InviteId
      <4>1. k \in Ids /\ k \notin User \X Permission
        BY <3>2, TableOf
      <4>2. CASE draft[k] = Absent
        BY <3>2, <4>1, <4>2 DEF Lawful, Appears
      <4>3. CASE draft[k] # Absent
        BY <1>1, <3>2, <4>1, <4>3 DEF Lawful, Later, SameSubject
      <4>4. QED
        BY <4>2, <4>3
    <3>3. CASE Lawful(r, k, draft'[k]) /\ k \notin InviteId
      BY <3>3 DEF Lawful, MayHold
    <3>4. QED
      BY <2>3, <3>1, <3>2, <3>3, WrittenRow
  <2>4. QED
    BY <2>1, <2>2, <2>3, RollbackRow, CommitRow DEF Kinds, Passes, tables, Throw, commit
<1>3. QED
  BY <1>2, KeysOfTables DEF CleanOK

LEMMA InitialIInv == Init => IInv
<1> SUFFICES ASSUME Init
             PROVE  IInv
  OBVIOUS
<1>1. /\ \A k \in Key : db[k] = Absent /\ draft[k] = Absent /\ holder[k] = NoRequest
      /\ \A r \in Request : req[r] = Idle
  BY DEF Init, TablesInit
<1>2. TypeOK
  BY IdleIsKnown DEF Init, TablesInit, TypeOK, Versioned
<1>3. RequestsOK
  <2>1. ASSUME NEW r \in Request
        PROVE  Known(r) /\ Placed(r)
    <3>1. Idle.op = "none" /\ Idle.pc = 1
      BY DEF Idle
    <3>2. Current(r) = Script["none"][1] /\ "none" \in Op
      BY <1>1, <3>1, OpsAre DEF Current
    <3>3. "none" \notin Answering \cup AboutMember \cup HandingOn
      BY DEF Answering, AboutMember, HandingOn
    <3>4. QED
      BY <1>1, <3>1, <3>2, <3>3, FirstStatements DEF Known, Placed, At, HandingOn
  <2>2. QED
    BY <2>1 DEF RequestsOK
<1>4. FreeRowsAreCommitted /\ Versions
  BY <1>1, KeysOfTables DEF FreeRowsAreCommitted, Versions
<1>5. IndexesOK
  BY <1>1 DEF IndexesOK, Clash
<1>6. OriginsOK /\ HoldersOK /\ CleanOK
  BY <1>1, KeysOfTables
  DEF OriginsOK, MembersWereInvited, HoldersOK, HoldersWereMembers, CleanOK
<1>7. QED
  BY <1>2, <1>3, <1>4, <1>5, <1>6 DEF IInv

LEMMA NextKeepsIInv == IInv /\ [Next]_vars => IInv'
<1> SUFFICES ASSUME IInv, [Next]_vars
             PROVE  IInv'
  OBVIOUS
<1>1. ASSUME NEW r \in Request, Begin(r) \/ Run(r) \/ Abort(r)
      PROVE  IInv'
  <2>1. Kinds(r)
    BY <1>1, Classified
  <2>2. TypeOK' /\ FreeRowsAreCommitted' /\ Versions' /\ RequestsOK'
    BY <2>1, TypeKept, VersionsKept, RequestsKept
  <2>3. IndexesOK' /\ OriginsOK' /\ HoldersOK' /\ CleanOK'
    BY <2>1, IndexesKept, OriginsKept, HoldersKept, CleanKept
  <2>4. QED
    BY <2>2, <2>3 DEF IInv
<1>2. CASE UNCHANGED vars
  <2>1. /\ db' = db /\ draft' = draft /\ holder' = holder /\ req' = req
    BY <1>2 DEF vars
  <2>2. TypeOK' /\ FreeRowsAreCommitted' /\ Versions'
    BY <2>1 DEF IInv, TypeOK, FreeRowsAreCommitted, Versions
  <2>3. RequestsOK'
    BY <2>1 DEF IInv, RequestsOK, Known, Placed, AnsweredFor, SeatedBy, At, Current
  <2>4. IndexesOK' /\ CleanOK'
    BY <2>1 DEF IInv, IndexesOK, CleanOK
  <2>5. OriginsOK' /\ HoldersOK'
    BY <2>1 DEF IInv, OriginsOK, AnsweredFor, MembersWereInvited, HoldersOK, SeatedBy,
                HoldersWereMembers
  <2>6. QED
    BY <2>2, <2>3, <2>4, <2>5 DEF IInv
<1>3. QED
  BY <1>1, <1>2 DEF Next

\* The inductive invariant: the properties below, with what they say of rows
\* still uncommitted and of what each request knows.
THEOREM InvariantHolds == Spec => []IInv
<1>1. Init => IInv
  BY InitialIInv
<1>2. IInv /\ [Next]_vars => IInv'
  BY NextKeepsIInv
<1>3. QED
  BY <1>1, <1>2, PTL DEF Spec

\* Rows stay rows of their tables and requests what their handlers can know,
\* whatever the interleaving and the number of requests.
THEOREM TypesAreCorrect == Spec => []TypeOK
<1>1. IInv => TypeOK
  BY DEF IInv
<1>2. QED
  BY <1>1, InvariantHolds, PTL

LEMMA SeatsNow ==
    ASSUME IInv
    PROVE  OneSeatEach
<1>1. \A k, l \in Ids : k # l => ~Clash(k, db[k], l, db[l])
  BY KeysOfTables DEF IInv, IndexesOK
<1>2. \A u \in User, i, j \in InviteId :
          PendingInvite(db[i], u) /\ PendingInvite(db[j], u) => i = j
  BY <1>1 DEF Clash, PendingInvite, Ids
<1>3. \A m, n \in MemberId : db[m] # Absent /\ db[n] # Absent /\ m # n =>
          /\ db[m].invite # db[n].invite
          /\ db[m].removedBy = NoUser /\ db[n].removedBy = NoUser => db[m].user # db[n].user
  BY <1>1 DEF Clash, Ids
<1>4. QED
  BY <1>2, <1>3 DEF OneSeatEach

\* The checks of createWorkspaceInvite and acceptWorkspaceInvite, and the waits
\* on the unique indexes behind them, leave nobody two open invites or two
\* seats, and no invite two members.
THEOREM SeatsAreUnique == Spec => []OneSeatEach
<1>1. IInv => OneSeatEach
  BY SeatsNow
<1>2. QED
  BY <1>1, InvariantHolds, PTL

\* Every member goes back to an answered invite of theirs: the invite and the
\* member are written by one transaction.
THEOREM MembersHaveInvites == Spec => []MembersWereInvited
<1>1. IInv => MembersWereInvited
  BY DEF IInv, OriginsOK
<1>2. QED
  BY <1>1, InvariantHolds, PTL

\* Permissions are given to members only, although grants never ask whether
\* the member is still active.
THEOREM HoldersAreMembers == Spec => []HoldersWereMembers
<1>1. IInv => HoldersWereMembers
  BY DEF IInv, HoldersOK
<1>2. QED
  BY <1>1, InvariantHolds, PTL

\* Anti-escalation: what neither the owner nor an admin hands out cannot be
\* made up by members, however many invite and grant, and whatever the checks
\* of validateActorCanModify read while others write.
THEOREM NobodyEscalates == Spec => []WithheldStayWithheld
<1>1. IInv => WithheldStayWithheld
  BY DEF IInv, CleanOK, WithheldStayWithheld
<1>2. QED
  BY <1>1, InvariantHolds, PTL

\* No invite or member disappears, is reopened or changes whom it is about.
THEOREM HistoryStays == Spec => RowsAreHistory
<1> DEFINE Kept ==
        /\ \A i \in InviteId : db[i] # Absent =>
             db'[i] # Absent /\ (db[i].status # "PENDING" => db'[i].status # "PENDING")
        /\ \A m \in MemberId : db[m] # Absent =>
             /\ db'[m] # Absent
             /\ db'[m].user = db[m].user /\ db'[m].invite = db[m].invite
             /\ db[m].removedBy # NoUser => db'[m].removedBy # NoUser
<1>1. IInv /\ [Next]_vars => [Kept]_db
  <2> SUFFICES ASSUME IInv, [Next]_vars, db' # db
               PROVE  Kept
    OBVIOUS
  <2>1. PICK r \in Request : Begin(r) \/ Run(r) \/ Abort(r)
    BY DEF Next, vars
  <2>2. \A k \in Ids : db[k] # Absent => db'[k] # Absent /\ Later(k, db[k], db'[k])
    BY <2>1, KeysOfTables, Classified, Effects
  <2>3. \A m \in MemberId : m \notin InviteId
    BY PermissionRowsHaveKeys
  <2>4. QED
    BY <2>2, <2>3 DEF Later, SameSubject, Closed, Ids
<1>2. QED
  BY <1>1, InvariantHolds, PTL DEF Spec, RowsAreHistory

-------------------------------------------------------------------------------
(***************************************************************************)
(* One slot: requests that do not overlap keep invites, members and        *)
(* permissions in step and implement Roster.                               *)
(*                                                                         *)
(* A request alone reads what it wrote itself, or what is committed.  The  *)
(* row a pipe read is therefore still as it was when the request writes    *)
(* it, although no statement looks at its status again.                    *)
(***************************************************************************)

\* r is the only slot: no two requests overlap.
Alone(r) == Request = {r}

-------------------------------------------------------------------------------
(* The roster of a table t.                                                  *)

OpenOf(t) ==
    {<<t[i].invitee, Range(t[i].permissions)>> :
        i \in {i \in InviteId : t[i] # Absent /\ t[i].status = "PENDING"}}
PeopleOf(t, removed) ==
    {t[m].user : m \in {m \in MemberId : t[m] # Absent /\ (t[m].removedBy # NoUser <=> removed)}}
RightsOf(t) == {k \in User \X Permission : t[k] # Absent}

MembersOf(t, i) == {m \in MemberId : t[m] # Absent /\ t[m].invite = i}

\* Accepted invites have one member, the others none.
Answered(t) ==
    \A i \in InviteId : t[i] # Absent =>
        IF t[i].status = "ACCEPTED" THEN \E m \in MemberId : MembersOf(t, i) = {m}
        ELSE MembersOf(t, i) = {}

-------------------------------------------------------------------------------
(* What a request alone has checked of the committed rows, and written, at   *)
(* each statement.                                                           *)

Checked(q) ==
    /\ q.op = "createWorkspaceInvite" =>
        /\ q.pc > 1 => \A i \in InviteId : ~PendingInvite(db[i], q.subject)
        /\ q.pc > 2 => ~isMember(db, q.subject)
    /\ q.op \in Answering => db[q.row].status = "PENDING"
    /\ q.op = "removeMember" =>
        /\ db[q.row].removedBy = NoUser
        /\ q.pc > 1 => q.subject # Owner

OnlyDiffer(K) == \A k \in Key \ K : draft[k] = db[k]
New(k, row) == db[k] = Absent /\ draft[k] = row

InviteFor(q) ==
    [inviter |-> q.caller, invitee |-> q.subject, permissions |-> q.list, status |-> "PENDING"]
SeatFor(q) == [user |-> q.subject, invite |-> q.row, removedBy |-> NoUser]

AnsweredRow(q) == [db[q.row] EXCEPT !.status = Outcome[q.op]]
RemovedRow(q) == [db[q.row] EXCEPT !.removedBy = q.caller]

AllOf(u) == {u} \X Permission

Inviting(q) ==
    \/ q.pc <= 4 /\ OnlyDiffer({})
    \/ q.pc = 5 /\ \E i \in InviteId : New(i, InviteFor(q)) /\ OnlyDiffer({i})

\* The invitee has seat m, and from the next statement on the permissions.
Seating(q, m) ==
    /\ New(m, SeatFor(q))
    /\ \/ q.pc = 4 /\ OnlyDiffer({q.row, m})
       \/ /\ q.pc = 5
          /\ \A k \in RowsOf(q.subject, q.list) : New(k, Granted)
          /\ OnlyDiffer({q.row, m} \cup RowsOf(q.subject, q.list))

Accepting(q) ==
    \/ q.pc <= 2 /\ OnlyDiffer({})
    \/ /\ q.pc > 2 /\ draft[q.row] = AnsweredRow(q)
       /\ \/ q.pc = 3 /\ OnlyDiffer({q.row})
          \/ q.pc > 3 /\ \E m \in MemberId : Seating(q, m)

Declining(q) ==
    \/ q.pc = 1 /\ OnlyDiffer({})
    \/ q.pc = 2 /\ draft[q.row] = AnsweredRow(q) /\ OnlyDiffer({q.row})

Modifying(q, row) ==
    \/ q.pc <= 3 /\ OnlyDiffer({})
    \/ /\ q.pc = 4
       /\ \A k \in RowsOf(q.subject, q.list) : draft[k] = row
       /\ OnlyDiffer(RowsOf(q.subject, q.list))

Removing(q) ==
    \/ q.pc <= 2 /\ OnlyDiffer({})
    \/ /\ q.pc > 2 /\ draft[q.row] = RemovedRow(q)
       /\ \/ q.pc = 3 /\ OnlyDiffer({q.row})
          \/ /\ q.pc = 4
             /\ \A k \in AllOf(q.subject) : draft[k] = Absent
             /\ OnlyDiffer({q.row} \cup AllOf(q.subject))

Written(q) ==
    /\ q.op = "none" => OnlyDiffer({})
    /\ q.op = "createWorkspaceInvite" => Inviting(q)
    /\ q.op = "acceptWorkspaceInvite" => Accepting(q)
    /\ q.op \in {"rejectWorkspaceInvite", "cancelWorkspaceInvite"} => Declining(q)
    /\ q.op = "grantWorkspaceMemberPermissions" => Modifying(q, Granted)
    /\ q.op = "revokeWorkspaceMemberPermissions" => Modifying(q, Absent)
    /\ q.op = "removeMember" => Removing(q)

SerialInv(r) == IInv /\ Answered(db) /\ Checked(req[r]) /\ Written(req[r])

-------------------------------------------------------------------------------
(* Steps of a request alone.                                                 *)

\* r goes on with its next statement, about the same.
Goes(r) ==
    /\ db' = db
    /\ req'[r].op = req[r].op /\ req'[r].pc = req[r].pc + 1
    /\ req'[r].caller = req[r].caller /\ req'[r].subject = req[r].subject
    /\ req'[r].row = req[r].row /\ req'[r].list = req[r].list

\* The rows K get the versions rows.
Changed(K, rows) ==
    /\ \A k \in K : draft'[k] = rows[k]
    /\ \A k \in Key \ K : draft'[k] = draft[k]

LEMMA SeesDraft ==
    ASSUME IInv, NEW r \in Request, Alone(r)
    PROVE  Visible(r) = draft
<1>1. \A k \in Key : holder[k] \in {r, NoRequest}
  BY DEF IInv, TypeOK, Alone
<1>2. \A k \in Key : Visible(r)[k] = draft[k]
  BY <1>1 DEF Visible, IInv, FreeRowsAreCommitted
<1>3. draft = [k \in Key |-> draft[k]]
  BY DEF IInv, TypeOK, Versioned
<1>4. Visible(r) = [k \in Key |-> Visible(r)[k]]
  BY DEF Visible
<1>5. QED
  BY <1>2, <1>3, <1>4

LEMMA NothingWritten ==
    ASSUME IInv, OnlyDiffer({})
    PROVE  draft = db
BY DEF IInv, TypeOK, Versioned, OnlyDiffer

LEMMA AdvanceGoes ==
    ASSUME IInv, NEW r \in Request, Advance(r), db' = db
    PROVE  Goes(r)
BY DEF IInv, TypeOK, RequestState, Advance, Goes

\* A validator that passes leaves the tables as they are.
LEMMA ValidatorPasses ==
    ASSUME IInv, NEW r \in Request, NEW ok, Validate(r, ok), ~Throw(r)
    PROVE  /\ ok /\ Goes(r) /\ draft' = draft
           /\ OnlyDiffer({}) => OnlyDiffer({})'
<1>1. ok /\ Advance(r) /\ UNCHANGED tables
  BY DEF Validate
<1>2. QED
  BY <1>1, AdvanceGoes DEF tables, OnlyDiffer

LEMMA InsertGoes ==
    ASSUME IInv, NEW r \in Request, NEW Table \in {InviteId, MemberId}, NEW row,
           NEW duplicate, Insert(r, Table, row, duplicate), ~Throw(r)
    PROVE  /\ Goes(r)
           /\ \E k \in Table : /\ draft[k] = Absent /\ db[k] = Absent
                               /\ Changed({k}, [l \in {k} |-> row])
<1> DEFINE k == CHOOSE k \in Unused(Table) : TRUE
<1>1. /\ Unused(Table) # {}
      /\ Put(r, [l \in {k} |-> row])
      /\ Advance(r)
  BY DEF Insert, Write
<1>2. k \in Unused(Table)
  BY <1>1
<1> HIDE DEF k
<1>3. k \in Table /\ k \in Key /\ k \in Ids /\ draft[k] = Absent
  BY <1>2, KeysOfTables DEF Unused, Ids
<1>4. db[k] = Absent
  BY <1>3, Typed
<1>5. db' = db
  BY <1>1 DEF Put
<1>6. Changed({k}, [l \in {k} |-> row])
  BY <1>1, <1>3 DEF Put, Changed
<1>7. QED
  BY <1>1, <1>3, <1>4, <1>5, <1>6, AdvanceGoes

LEMMA WriteGoes ==
    ASSUME IInv, NEW r \in Request, NEW rows, DOMAIN rows \subseteq Key, Write(r, rows)
    PROVE  Goes(r) /\ Changed(DOMAIN rows, rows)
<1>1. db' = db /\ Advance(r)
  BY DEF Write, Put
<1>2. Changed(DOMAIN rows, rows)
  BY DEF Write, Put, Changed
<1>3. QED
  BY <1>1, <1>2, AdvanceGoes

\* The statement r is at is the one that runs.
RunsStatement(r) ==
    /\ At(r, "validateInviteNotExists") => validateInviteNotExists(r)
    /\ At(r, "validateNotAlreadyMember") => validateNotAlreadyMember(r)
    /\ At(r, "validateInviterHasPermissions") => validateInviterHasPermissions(r)
    /\ At(r, "insertInvite") => insertInvite(r)
    /\ At(r, "setInviteStatus") => setInviteStatus(r)
    /\ At(r, "insertMember") => insertMember(r)
    /\ At(r, "seedPermissions") => seedPermissions(r)
    /\ At(r, "validateActorIsMember") => validateActorIsMember(r)
    /\ At(r, "validateActorHolds") => validateActorHolds(r)
    /\ At(r, "insertPermissions") => insertPermissions(r)
    /\ At(r, "deletePermissions") => deletePermissions(r)
    /\ At(r, "validateNotOwner") => validateNotOwner(r)
    /\ At(r, "setMemberRemoved") => setMemberRemoved(r)
    /\ At(r, "revokeAllPermissions") => revokeAllPermissions(r)
    /\ At(r, "commit") => commit(r)
    /\ ~At(r, "idle")

LEMMA RunIs ==
    ASSUME NEW r, Run(r)
    PROVE  RunsStatement(r)
<1>1. CASE validateInviteNotExists(r)
  <2>1. Current(r) = "validateInviteNotExists"
    BY <1>1 DEF validateInviteNotExists, At
  <2>2. QED
    BY <1>1, <2>1 DEF At, RunsStatement
<1>2. CASE validateNotAlreadyMember(r)
  <2>1. Current(r) = "validateNotAlreadyMember"
    BY <1>2 DEF validateNotAlreadyMember, At
  <2>2. QED
    BY <1>2, <2>1 DEF At, RunsStatement
<1>3. CASE validateInviterHasPermissions(r)
  <2>1. Current(r) = "validateInviterHasPermissions"
    BY <1>3 DEF validateInviterHasPermissions, At
  <2>2. QED
    BY <1>3, <2>1 DEF At, RunsStatement
<1>4. CASE insertInvite(r)
  <2>1. Current(r) = "insertInvite"
    BY <1>4 DEF insertInvite, At
  <2>2. QED
    BY <1>4, <2>1 DEF At, RunsStatement
<1>5. CASE setInviteStatus(r)
  <2>1. Current(r) = "setInviteStatus"
    BY <1>5 DEF setInviteStatus, At
  <2>2. QED
    BY <1>5, <2>1 DEF At, RunsStatement
<1>6. CASE insertMember(r)
  <2>1. Current(r) = "insertMember"
    BY <1>6 DEF insertMember, At
  <2>2. QED
    BY <1>6, <2>1 DEF At, RunsStatement
<1>7. CASE seedPermissions(r)
  <2>1. Current(r) = "seedPermissions"
    BY <1>7 DEF seedPermissions, At
  <2>2. QED
    BY <1>7, <2>1 DEF At, RunsStatement
<1>8. CASE validateActorIsMember(r)
  <2>1. Current(r) = "validateActorIsMember"
    BY <1>8 DEF validateActorIsMember, At
  <2>2. QED
    BY <1>8, <2>1 DEF At, RunsStatement
<1>9. CASE validateActorHolds(r)
  <2>1. Current(r) = "validateActorHolds"
    BY <1>9 DEF validateActorHolds, At
  <2>2. QED
    BY <1>9, <2>1 DEF At, RunsStatement
<1>10. CASE insertPermissions(r)
  <2>1. Current(r) = "insertPermissions"
    BY <1>10 DEF insertPermissions, At
  <2>2. QED
    BY <1>10, <2>1 DEF At, RunsStatement
<1>11. CASE deletePermissions(r)
  <2>1. Current(r) = "deletePermissions"
    BY <1>11 DEF deletePermissions, At
  <2>2. QED
    BY <1>11, <2>1 DEF At, RunsStatement
<1>12. CASE validateNotOwner(r)
  <2>1. Current(r) = "validateNotOwner"
    BY <1>12 DEF validateNotOwner, At
  <2>2. QED
    BY <1>12, <2>1 DEF At, RunsStatement
<1>13. CASE setMemberRemoved(r)
  <2>1. Current(r) = "setMemberRemoved"
    BY <1>13 DEF setMemberRemoved, At
  <2>2. QED
    BY <1>13, <2>1 DEF At, RunsStatement
<1>14. CASE revokeAllPermissions(r)
  <2>1. Current(r) = "revokeAllPermissions"
    BY <1>14 DEF revokeAllPermissions, At
  <2>2. QED
    BY <1>14, <2>1 DEF At, RunsStatement
<1>15. CASE commit(r)
  <2>1. Current(r) = "commit"
    BY <1>15 DEF commit, At
  <2>2. QED
    BY <1>15, <2>1 DEF At, RunsStatement
<1>16. QED
  BY <1>1, <1>2, <1>3, <1>4, <1>5, <1>6, <1>7, <1>8, <1>9, <1>10, <1>11, <1>12, <1>13, <1>14, <1>15 DEF Run

-------------------------------------------------------------------------------
(* Requests go on as Checked and Written say.                                *)

Continues(r) == Goes(r) /\ Checked(req[r])' /\ Written(req[r])'

LEMMA ScriptLengths ==
    /\ Len(Script["createWorkspaceInvite"]) = 5 /\ Len(Script["acceptWorkspaceInvite"]) = 5
    /\ Len(Script["rejectWorkspaceInvite"]) = 2 /\ Len(Script["cancelWorkspaceInvite"]) = 2
    /\ Len(Script["grantWorkspaceMemberPermissions"]) = 4
    /\ Len(Script["revokeWorkspaceMemberPermissions"]) = 4
    /\ Len(Script["removeMember"]) = 4
BY DEF Script

\* What r's next statement can rely on.
LEMMA Situation ==
    ASSUME NEW r \in Request, SerialInv(r), Alone(r), Run(r)
    PROVE  /\ IInv /\ RunsStatement(r) /\ Visible(r) = draft
           /\ req[r].pc \in 1..Len(Script[req[r].op])
           /\ req[r].op # "none" /\ req[r].subject \in User
           /\ Known(r) /\ Placed(r)
           /\ Checked(req[r]) /\ Written(req[r])
<1>1. IInv /\ RunsStatement(r) /\ Visible(r) = draft
  BY RunIs, SeesDraft DEF SerialInv
<1>2. req[r].pc \in 1..Len(Script[req[r].op]) /\ Known(r) /\ Placed(r)
  BY <1>1, Statement
<1>3. req[r].op # "none"
  BY <1>1, <1>2 DEF RunsStatement, At, Current, Script
<1>4. QED
  BY <1>1, <1>2, <1>3 DEF SerialInv, Known

LEMMA CreateContinues ==
    ASSUME NEW r \in Request, SerialInv(r), Alone(r), Run(r), ~Throw(r), ~commit(r),
           req[r].op = "createWorkspaceInvite"
    PROVE  Continues(r)
<1> DEFINE q == req[r]
<1>1. /\ IInv /\ RunsStatement(r) /\ Visible(r) = draft
      /\ Checked(q) /\ Inviting(q)
  BY Situation DEF Written
<1>2. q.pc \in 1..5
  BY Situation, ScriptLengths
<1>3. ASSUME Goes(r), Checked(q)', Inviting(q)'
      PROVE  Continues(r)
  BY <1>3 DEF Continues, Goes, Written
<1>4. CASE q.pc <= 3
  <2>1. draft = db /\ OnlyDiffer({})
    BY <1>1, <1>2, <1>4, NothingWritten DEF Inviting
  <2>2. ASSUME NEW ok, Validate(r, ok), ok /\ Goes(r) => Checked(q)'
        PROVE  Continues(r)
    <3>1. ok /\ Goes(r) /\ OnlyDiffer({})'
      BY <1>1, <2>1, <2>2, ValidatorPasses
    <3>2. Inviting(q)'
      BY <1>2, <1>4, <3>1 DEF Inviting, Goes
    <3>3. QED
      BY <1>3, <2>2, <3>1, <3>2
  <2>3. CASE q.pc = 1
    <3>1. validateInviteNotExists(r)
      BY <1>1, <2>3 DEF RunsStatement, At, Current, Script
    <3>2. Validate(r, ~\E i \in InviteId : PendingInvite(db[i], q.subject))
      BY <1>1, <2>1, <3>1 DEF validateInviteNotExists
    <3>3. ~(\E i \in InviteId : PendingInvite(db[i], q.subject)) /\ Goes(r) => Checked(q)'
      BY <1>1, <2>3 DEF Checked, Goes, Answering
    <3>4. QED
      BY <2>2, <3>2, <3>3
  <2>4. CASE q.pc = 2
    <3>1. validateNotAlreadyMember(r)
      BY <1>1, <2>4 DEF RunsStatement, At, Current, Script
    <3>2. Validate(r, ~isMember(db, q.subject))
      BY <1>1, <2>1, <3>1 DEF validateNotAlreadyMember
    <3>3. ~isMember(db, q.subject) /\ Goes(r) => Checked(q)'
      BY <1>1, <2>4 DEF Checked, Goes, Answering, isMember
    <3>4. QED
      BY <2>2, <3>2, <3>3
  <2>5. CASE q.pc = 3
    <3>1. validateInviterHasPermissions(r)
      BY <1>1, <2>5 DEF RunsStatement, At, Current, Script
    <3>2. PICK ok : Validate(r, ok)
      BY <3>1 DEF validateInviterHasPermissions
    <3>3. Goes(r) => Checked(q)'
      BY <1>1, <2>5 DEF Checked, Goes, Answering, isMember
    <3>4. QED
      BY <2>2, <3>2, <3>3
  <2>6. QED
    BY <1>2, <1>4, <2>3, <2>4, <2>5
<1>5. CASE q.pc = 4
  <2>1. insertInvite(r)
    BY <1>1, <1>5 DEF RunsStatement, At, Current, Script
  <2>2. Goes(r) /\ \E i \in InviteId : db[i] = Absent /\ Changed({i}, [l \in {i} |-> InviteFor(q)])
    BY <1>1, <2>1, InsertGoes DEF insertInvite, InviteFor
  <2>3. Inviting(q)'
    BY <1>1, <1>2, <1>5, <2>2 DEF Inviting, OnlyDiffer, New, InviteFor, Changed, Goes
  <2>4. Checked(q)'
    BY <1>1, <1>5, <2>2 DEF Checked, Goes, Answering, isMember
  <2>5. QED
    BY <1>3, <2>2, <2>3, <2>4
<1>6. CASE q.pc = 5
  BY <1>1, <1>6 DEF RunsStatement, At, Current, Script
<1>7. QED
  BY <1>2, <1>4, <1>5, <1>6

\* What a request about an invite, or about a member, can rely on.
LEMMA AboutRow ==
    ASSUME IInv, NEW r \in Request
    PROVE  /\ req[r].op \in Answering =>
                /\ req[r].row \in InviteId /\ req[r].row \in Key
                /\ db[req[r].row] \in InviteRow
                /\ db[req[r].row].invitee = req[r].subject
                /\ db[req[r].row].permissions = req[r].list
           /\ req[r].op \in AboutMember =>
                /\ req[r].row \in MemberId /\ req[r].row \in Key
                /\ db[req[r].row] \in MemberRow
                /\ db[req[r].row].user = req[r].subject
                /\ req[r].caller \in User
           /\ req[r].op # "none" => req[r].subject \in User
           /\ Range(req[r].list) \subseteq Permission
<1>1. Known(r) /\ req[r] \in RequestState
  BY Statement
<1>2. Range(req[r].list) \subseteq Permission
  BY <1>1, RangeOfList DEF RequestState
<1>3. ASSUME req[r].op \in Answering
      PROVE  /\ req[r].row \in InviteId /\ req[r].row \in Key
             /\ db[req[r].row] \in InviteRow
  <2>1. req[r].row \in InviteId /\ req[r].row \in Key /\ db[req[r].row] # Absent
    BY <1>1, <1>3, KeysOfTables DEF Known
  <2>2. QED
    BY <2>1, Typed, TableOf
<1>4. ASSUME req[r].op \in AboutMember
      PROVE  /\ req[r].row \in MemberId /\ req[r].row \in Key
             /\ db[req[r].row] \in MemberRow
  <2>1. req[r].row \in MemberId /\ req[r].row \in Key /\ db[req[r].row] # Absent
    BY <1>1, <1>4, KeysOfTables DEF Known
  <2>2. QED
    BY <2>1, Typed, TableOf
<1>5. QED
  BY <1>1, <1>2, <1>3, <1>4 DEF Known

LEMMA PermissionKeys ==
    ASSUME NEW u \in User, NEW list, Range(list) \subseteq Permission
    PROVE  /\ RowsOf(u, list) \subseteq AllOf(u)
           /\ AllOf(u) \subseteq User \X Permission
           /\ AllOf(u) \subseteq Key
BY PermissionRowsHaveKeys DEF RowsOf, AllOf

LEMMA AcceptContinues ==
    ASSUME NEW r \in Request, SerialInv(r), Alone(r), Run(r), ~Throw(r), ~commit(r),
           req[r].op = "acceptWorkspaceInvite"
    PROVE  Continues(r)
<1> DEFINE q == req[r]
           K == RowsOf(q.subject, q.list)
<1>1. /\ IInv /\ RunsStatement(r) /\ Visible(r) = draft
      /\ Checked(q) /\ Accepting(q) /\ q.op \in Answering
      /\ q.subject \in User
  BY Situation DEF Written, Answering
<1>2. q.pc \in 1..5
  BY Situation, ScriptLengths
<1>3. /\ q.row \in InviteId /\ q.row \in Key
      /\ K \subseteq AllOf(q.subject) /\ K \subseteq Key
  BY <1>1, AboutRow, PermissionKeys
<1>4. ASSUME Goes(r), Accepting(q)'
      PROVE  Continues(r)
  BY <1>1, <1>4 DEF Continues, Goes, Checked, Written, Answering
<1>5. CASE q.pc = 1
  <2>1. validateNotAlreadyMember(r)
    BY <1>1, <1>5 DEF RunsStatement, At, Current, Script
  <2>2. OnlyDiffer({})
    BY <1>1, <1>5 DEF Accepting
  <2>3. PICK ok : Validate(r, ok)
    BY <2>1 DEF validateNotAlreadyMember
  <2>4. Goes(r) /\ OnlyDiffer({})'
    BY <1>1, <2>2, <2>3, ValidatorPasses
  <2>5. Accepting(q)'
    BY <1>5, <2>4 DEF Accepting, Goes
  <2>6. QED
    BY <1>4, <2>4, <2>5
<1>6. CASE q.pc = 2
  <2>1. setInviteStatus(r)
    BY <1>1, <1>6 DEF RunsStatement, At, Current, Script
  <2>2. draft = db
    BY <1>1, <1>6, NothingWritten DEF Accepting
  <2>3. Goes(r) /\ Changed({q.row}, [i \in {q.row} |-> AnsweredRow(q)])
    BY <1>1, <1>3, <2>1, <2>2, WriteGoes DEF setInviteStatus, AnsweredRow
  <2>4. (q.pc = 3 /\ draft[q.row] = AnsweredRow(q) /\ OnlyDiffer({q.row}))'
    BY <1>6, <2>2, <2>3 DEF OnlyDiffer, Changed, Goes, AnsweredRow
  <2>5. Accepting(q)'
    BY <2>4 DEF Accepting
  <2>6. QED
    BY <1>4, <2>3, <2>5
<1>7. CASE q.pc = 3
  <2>1. insertMember(r)
    BY <1>1, <1>7 DEF RunsStatement, At, Current, Script
  <2>2. PICK m \in MemberId :
            Goes(r) /\ db[m] = Absent /\ Changed({m}, [l \in {m} |-> SeatFor(q)])
    BY <1>1, <2>1, InsertGoes DEF insertMember, SeatFor
  <2>3. draft[q.row] = AnsweredRow(q) /\ OnlyDiffer({q.row})
    BY <1>1, <1>7 DEF Accepting
  <2>4. m \in Key /\ m # q.row
    BY <1>3, PermissionRowsHaveKeys
  <2>5. (/\ q.pc = 4
         /\ draft[q.row] = AnsweredRow(q)
         /\ New(m, SeatFor(q))
         /\ OnlyDiffer({q.row, m}))'
    BY <1>3, <1>7, <2>2, <2>3, <2>4 DEF OnlyDiffer, New, Changed, Goes, SeatFor, AnsweredRow
  <2>6. Seating(q, m)'
    BY <2>5 DEF Seating
  <2>7. Accepting(q)'
    BY <2>5, <2>6 DEF Accepting
  <2>8. QED
    BY <1>4, <2>2, <2>7
<1>8. CASE q.pc = 4
  <2>1. seedPermissions(r)
    BY <1>1, <1>8 DEF RunsStatement, At, Current, Script
  <2>2. Held(draft, q.subject, q.list) = {} /\ Write(r, [k \in K |-> Granted])
    BY <1>1, <2>1 DEF seedPermissions
  <2>3. \A k \in K : draft[k] = Absent
    BY <2>2 DEF Held, RowsOf
  <2>4. Goes(r) /\ Changed(K, [k \in K |-> Granted])
    <3> DEFINE rows == [k \in K |-> Granted]
    <3>1. DOMAIN rows = K /\ Write(r, rows)
      BY <2>2
    <3>2. Goes(r) /\ Changed(DOMAIN rows, rows)
      BY <1>1, <1>3, <3>1, WriteGoes
    <3>3. QED
      BY <3>1, <3>2
  <2>5. draft[q.row] = AnsweredRow(q)
    BY <1>1, <1>8 DEF Accepting
  <2>6. PICK m \in MemberId : New(m, SeatFor(q)) /\ OnlyDiffer({q.row, m})
    <3>1. PICK m \in MemberId : Seating(q, m)
      BY <1>1, <1>8 DEF Accepting
    <3>2. New(m, SeatFor(q)) /\ OnlyDiffer({q.row, m})
      BY <1>8, <3>1 DEF Seating
    <3>3. QED
      BY <3>2
  <2>7. \A k \in K : k # q.row /\ k # m /\ db[k] = Absent
    <3>1. q.row \notin AllOf(q.subject) /\ m \notin AllOf(q.subject)
      BY <1>1, <1>3, PermissionRowsHaveKeys DEF AllOf
    <3>2. QED
      BY <1>3, <2>3, <2>6, <3>1 DEF OnlyDiffer
  <2>8. m \in Key
    BY KeysOfTables
  <2>9. draft'[q.row] = draft[q.row] /\ draft'[m] = draft[m] /\ \A k \in K : draft'[k] = Granted
    BY <1>3, <2>4, <2>7, <2>8 DEF Changed
  <2>10. \A k \in Key \ ({q.row, m} \cup K) : draft'[k] = db[k]
    BY <2>4, <2>6 DEF Changed, OnlyDiffer
  <2>11. (/\ q.pc = 5
          /\ draft[q.row] = AnsweredRow(q)
          /\ New(m, SeatFor(q))
          /\ \A k \in RowsOf(q.subject, q.list) : New(k, Granted)
          /\ OnlyDiffer({q.row, m} \cup RowsOf(q.subject, q.list)))'
    BY <1>8, <2>4, <2>5, <2>6, <2>7, <2>9, <2>10
       DEF OnlyDiffer, New, Goes, SeatFor, AnsweredRow, RowsOf
  <2>12. Seating(q, m)'
    BY <2>11 DEF Seating
  <2>13. Accepting(q)'
    BY <2>11, <2>12 DEF Accepting
  <2>14. QED
    BY <1>4, <2>4, <2>13
<1>9. CASE q.pc = 5
  BY <1>1, <1>9 DEF RunsStatement, At, Current, Script
<1>10. QED
  BY <1>2, <1>5, <1>6, <1>7, <1>8, <1>9

LEMMA DeclineContinues ==
    ASSUME NEW r \in Request, SerialInv(r), Alone(r), Run(r), ~Throw(r), ~commit(r),
           req[r].op \in {"rejectWorkspaceInvite", "cancelWorkspaceInvite"}
    PROVE  Continues(r)
<1> DEFINE q == req[r]
<1>1. /\ IInv /\ RunsStatement(r) /\ Visible(r) = draft
      /\ Checked(q) /\ Declining(q) /\ q.op \in Answering
  BY Situation DEF Written, Answering
<1>2. q.pc \in 1..2
  BY Situation, ScriptLengths
<1>3. q.row \in InviteId /\ q.row \in Key
  BY <1>1, AboutRow
<1>4. CASE q.pc = 1
  <2>1. setInviteStatus(r)
    BY <1>1, <1>4 DEF RunsStatement, At, Current, Script
  <2>2. draft = db
    BY <1>1, <1>4, NothingWritten DEF Declining
  <2>3. Goes(r) /\ Changed({q.row}, [i \in {q.row} |-> AnsweredRow(q)])
    BY <1>1, <1>3, <2>1, <2>2, WriteGoes DEF setInviteStatus, AnsweredRow
  <2>4. (q.pc = 2 /\ draft[q.row] = AnsweredRow(q) /\ OnlyDiffer({q.row}))'
    BY <1>4, <2>2, <2>3 DEF OnlyDiffer, Changed, Goes, AnsweredRow
  <2>5. Declining(q)'
    BY <2>4 DEF Declining
  <2>6. QED
    BY <1>1, <2>3, <2>5 DEF Continues, Goes, Checked, Written, Answering
<1>5. CASE q.pc = 2
  BY <1>1, <1>5 DEF RunsStatement, At, Current, Script
<1>6. QED
  BY <1>2, <1>4, <1>5

LEMMA ModifyContinues ==
    ASSUME NEW r \in Request, SerialInv(r), Alone(r), Run(r), ~Throw(r), ~commit(r),
           req[r].op \in {"grantWorkspaceMemberPermissions", "revokeWorkspaceMemberPermissions"}
    PROVE  Continues(r)
<1> DEFINE q == req[r]
           K == RowsOf(q.subject, q.list)
           row == IF q.op = "grantWorkspaceMemberPermissions" THEN Granted ELSE Absent
<1>1. /\ IInv /\ RunsStatement(r) /\ Visible(r) = draft
      /\ Modifying(q, row) /\ q.op \in AboutMember
      /\ q.subject \in User
  BY Situation DEF Written, AboutMember
<1>2. q.pc \in 1..4
  BY Situation, ScriptLengths
<1>3. K \subseteq AllOf(q.subject) /\ K \subseteq Key /\ K \subseteq User \X Permission
  BY <1>1, AboutRow, PermissionKeys
<1>4. ASSUME Goes(r), Modifying(q, row)'
      PROVE  Continues(r)
  BY <1>1, <1>4 DEF Continues, Goes, Checked, Written, Answering
<1>5. CASE q.pc <= 2
  <2>1. OnlyDiffer({})
    BY <1>1, <1>2, <1>5 DEF Modifying
  <2>2. q.pc = 1 => validateActorIsMember(r)
    BY <1>1 DEF RunsStatement, At, Current, Script
  <2>3. q.pc = 2 => validateActorHolds(r)
    BY <1>1 DEF RunsStatement, At, Current, Script
  <2>4. \E ok : Validate(r, ok)
    BY <1>2, <1>5, <2>2, <2>3 DEF validateActorIsMember, validateActorHolds
  <2>5. Goes(r) /\ OnlyDiffer({})'
    BY <1>1, <2>1, <2>4, ValidatorPasses
  <2>6. Modifying(q, row)'
    BY <1>2, <1>5, <2>5 DEF Modifying, Goes
  <2>7. QED
    BY <1>4, <2>5, <2>6
<1>6. CASE q.pc = 3
  <2>1. draft = db
    BY <1>1, <1>6, NothingWritten DEF Modifying
  <2>2. Goes(r) /\ (\A k \in K : draft'[k] = row) /\ \A k \in Key \ K : draft'[k] = draft[k]
    <3>1. CASE q.op = "grantWorkspaceMemberPermissions"
      <4> DEFINE L == {k \in K : draft[k] = Absent}
                 rows == [k \in L |-> Granted]
      <4>1. insertPermissions(r)
        BY <1>1, <1>6, <3>1 DEF RunsStatement, At, Current, Script
      <4>2. Write(r, rows) /\ DOMAIN rows = L
        BY <1>1, <4>1 DEF insertPermissions
      <4>3. Goes(r) /\ Changed(DOMAIN rows, rows)
        BY <1>1, <1>3, <4>2, WriteGoes
      <4>4. \A k \in K \ L : draft[k] = Granted
        <5> SUFFICES ASSUME NEW k \in K \ L
                     PROVE  draft[k] = Granted
          OBVIOUS
        <5>1. k \in Key /\ k \in User \X Permission /\ draft[k] # Absent
          BY <1>3
        <5>2. draft[k] \in PermissionRow
          BY <1>1, <5>1, Typed, TableOf
        <5>3. QED
          BY <5>2 DEF PermissionRow
      <4>5. QED
        BY <1>3, <3>1, <4>2, <4>3, <4>4 DEF Changed
    <3>2. CASE q.op = "revokeWorkspaceMemberPermissions"
      <4> DEFINE L == Deletes(r)
                 rows == [k \in L |-> Absent]
      <4>1. deletePermissions(r)
        BY <1>1, <1>6, <3>2 DEF RunsStatement, At, Current, Script
      <4>2. L = {k \in K : draft[k] # Absent}
        BY <1>1, <4>1 DEF Deletes, deletePermissions
      <4>3. Write(r, rows) /\ DOMAIN rows = L
        BY <4>1 DEF deletePermissions
      <4>4. Goes(r) /\ Changed(DOMAIN rows, rows)
        BY <1>1, <1>3, <4>2, <4>3, WriteGoes
      <4>5. QED
        BY <1>3, <3>2, <4>2, <4>3, <4>4 DEF Changed
    <3>3. QED
      BY <3>1, <3>2
  <2>3. Modifying(q, row)'
    BY <1>6, <2>1, <2>2 DEF Modifying, OnlyDiffer, Goes, RowsOf
  <2>4. QED
    BY <1>4, <2>2, <2>3
<1>7. CASE q.pc = 4
  BY <1>1, <1>7 DEF RunsStatement, At, Current, Script
<1>8. QED
  BY <1>2, <1>5, <1>6, <1>7

LEMMA RemoveContinues ==
    ASSUME NEW r \in Request, SerialInv(r), Alone(r), Run(r), ~Throw(r), ~commit(r),
           req[r].op = "removeMember"
    PROVE  Continues(r)
<1> DEFINE q == req[r]
           K == AllOf(q.subject)
<1>1. /\ IInv /\ RunsStatement(r) /\ Visible(r) = draft
      /\ Checked(q) /\ Removing(q) /\ q.op \in AboutMember
      /\ q.subject \in User
  BY Situation DEF Written, AboutMember
<1>2. q.pc \in 1..4
  BY Situation, ScriptLengths
<1>3. q.row \in MemberId /\ q.row \in Key /\ K \subseteq Key /\ q.row \notin K
  BY <1>1, AboutRow, PermissionKeys, PermissionRowsHaveKeys DEF AllOf
<1>4. ASSUME Goes(r), Removing(q)', q.subject # Owner
      PROVE  Continues(r)
  BY <1>1, <1>4 DEF Continues, Goes, Checked, Written, Answering
<1>5. CASE q.pc = 1
  <2>1. validateNotOwner(r)
    BY <1>1, <1>5 DEF RunsStatement, At, Current, Script
  <2>2. OnlyDiffer({})
    BY <1>1, <1>5 DEF Removing
  <2>3. q.subject # Owner /\ Goes(r) /\ OnlyDiffer({})'
    BY <1>1, <2>1, <2>2, ValidatorPasses DEF validateNotOwner
  <2>4. Removing(q)'
    BY <1>5, <2>3 DEF Removing, Goes
  <2>5. QED
    BY <1>4, <2>3, <2>4
<1>6. CASE q.pc = 2
  <2>1. setMemberRemoved(r)
    BY <1>1, <1>6 DEF RunsStatement, At, Current, Script
  <2>2. draft = db /\ q.subject # Owner
    BY <1>1, <1>6, NothingWritten DEF Removing, Checked
  <2>3. Goes(r) /\ Changed({q.row}, [i \in {q.row} |-> RemovedRow(q)])
    BY <1>1, <1>3, <2>1, <2>2, WriteGoes DEF setMemberRemoved, RemovedRow
  <2>4. (q.pc = 3 /\ draft[q.row] = RemovedRow(q) /\ OnlyDiffer({q.row}))'
    BY <1>6, <2>2, <2>3 DEF OnlyDiffer, Changed, Goes, RemovedRow
  <2>5. Removing(q)'
    BY <2>4 DEF Removing
  <2>6. QED
    BY <1>4, <2>2, <2>3, <2>5
<1>7. CASE q.pc = 3
  <2> DEFINE L == Deletes(r)
             rows == [k \in L |-> Absent]
  <2>1. revokeAllPermissions(r)
    BY <1>1, <1>7 DEF RunsStatement, At, Current, Script
  <2>2. L = {k \in K : draft[k] # Absent}
    BY <1>1, <2>1 DEF Deletes, revokeAllPermissions, At, AllOf
  <2>3. Write(r, rows) /\ DOMAIN rows = L
    BY <2>1 DEF revokeAllPermissions
  <2>4. Goes(r) /\ Changed(DOMAIN rows, rows)
    BY <1>1, <1>3, <2>2, <2>3, WriteGoes
  <2>5. (\A k \in K : draft'[k] = Absent) /\ \A k \in Key \ K : draft'[k] = draft[k]
    BY <1>3, <2>2, <2>3, <2>4 DEF Changed
  <2>6. draft[q.row] = RemovedRow(q) /\ OnlyDiffer({q.row}) /\ q.subject # Owner
    BY <1>1, <1>7 DEF Removing, Checked
  <2>7. (/\ q.pc = 4 /\ draft[q.row] = RemovedRow(q)
         /\ \A k \in AllOf(q.subject) : draft[k] = Absent
         /\ OnlyDiffer({q.row} \cup AllOf(q.subject)))'
    BY <1>3, <1>7, <2>4, <2>5, <2>6 DEF OnlyDiffer, Goes, RemovedRow, AllOf
  <2>8. Removing(q)'
    BY <2>7 DEF Removing
  <2>9. QED
    BY <1>4, <2>4, <2>6, <2>8
<1>8. CASE q.pc = 4
  BY <1>1, <1>8 DEF RunsStatement, At, Current, Script
<1>9. QED
  BY <1>2, <1>5, <1>6, <1>7, <1>8

-------------------------------------------------------------------------------
(* What rows say of the roster.                                              *)

SameInvites == \A i \in InviteId : draft[i] = db[i]
SameMembers == \A m \in MemberId : draft[m] = db[m]
SamePermissions == \A k \in User \X Permission : draft[k] = db[k]

SameOpen == OpenOf(draft) = OpenOf(db)
SamePeople == \A removed \in BOOLEAN : PeopleOf(draft, removed) = PeopleOf(db, removed)
SameRights == RightsOf(draft) = RightsOf(db)

LEMMA UntouchedRows ==
    /\ SameInvites => SameOpen
    /\ SameMembers => SamePeople
    /\ SamePermissions => SameRights
<1>1. SameInvites => SameOpen
  BY DEF SameInvites, SameOpen, OpenOf
<1>2. SameMembers => SamePeople
  BY DEF SameMembers, SamePeople, PeopleOf
<1>3. SamePermissions => SameRights
  BY DEF SamePermissions, SameRights, RightsOf
<1>4. QED
  BY <1>1, <1>2, <1>3

LEMMA NewInvite ==
    ASSUME NEW i \in InviteId, db[i] = Absent, draft[i] # Absent, draft[i].status = "PENDING",
           \A j \in InviteId \ {i} : draft[j] = db[j]
    PROVE  OpenOf(draft) = OpenOf(db) \cup {<<draft[i].invitee, Range(draft[i].permissions)>>}
<1> DEFINE new == <<draft[i].invitee, Range(draft[i].permissions)>>
<1>1. ASSUME NEW x \in OpenOf(draft)
      PROVE  x \in OpenOf(db) \cup {new}
  BY DEF OpenOf
<1>2. ASSUME NEW x \in OpenOf(db)
      PROVE  x \in OpenOf(draft)
  BY DEF OpenOf
<1>3. new \in OpenOf(draft)
  BY DEF OpenOf
<1>4. QED
  BY <1>1, <1>2, <1>3

LEMMA AnsweredInvite ==
    ASSUME OneSeatEach, NEW i \in InviteId, NEW p \in User, PendingInvite(db[i], p),
           draft[i].status # "PENDING", \A j \in InviteId \ {i} : draft[j] = db[j]
    PROVE  /\ <<p, Range(db[i].permissions)>> \in OpenOf(db)
           /\ OpenOf(draft) = OpenOf(db) \ {<<p, Range(db[i].permissions)>>}
<1> DEFINE old == <<p, Range(db[i].permissions)>>
<1>1. old \in OpenOf(db)
  BY DEF OpenOf, PendingInvite
<1>2. ASSUME NEW x \in OpenOf(draft)
      PROVE  x \in OpenOf(db) \ {old}
  <2>1. PICK j \in InviteId : /\ draft[j] # Absent /\ draft[j].status = "PENDING"
                              /\ x = <<draft[j].invitee, Range(draft[j].permissions)>>
    BY DEF OpenOf
  <2>2. j # i /\ draft[j] = db[j]
    BY <2>1
  <2>3. ~PendingInvite(db[j], p)
    BY <2>2 DEF OneSeatEach
  <2>4. x[1] # p
    BY <2>1, <2>2, <2>3 DEF PendingInvite
  <2>5. QED
    BY <2>1, <2>2, <2>4 DEF OpenOf
<1>3. ASSUME NEW x \in OpenOf(db) \ {old}
      PROVE  x \in OpenOf(draft)
  BY DEF OpenOf, PendingInvite
<1>4. QED
  BY <1>1, <1>2, <1>3

LEMMA NewMember ==
    ASSUME NEW m \in MemberId, db[m] = Absent, draft[m] # Absent, draft[m].removedBy = NoUser,
           \A n \in MemberId \ {m} : draft[n] = db[n]
    PROVE  /\ PeopleOf(draft, FALSE) = PeopleOf(db, FALSE) \cup {draft[m].user}
           /\ PeopleOf(draft, TRUE) = PeopleOf(db, TRUE)
<1>1. ASSUME NEW x \in PeopleOf(draft, FALSE)
      PROVE  x \in PeopleOf(db, FALSE) \cup {draft[m].user}
  BY DEF PeopleOf
<1>2. ASSUME NEW x \in PeopleOf(db, FALSE)
      PROVE  x \in PeopleOf(draft, FALSE)
  BY DEF PeopleOf
<1>3. draft[m].user \in PeopleOf(draft, FALSE)
  BY DEF PeopleOf
<1>4. ASSUME NEW x
      PROVE  x \in PeopleOf(draft, TRUE) <=> x \in PeopleOf(db, TRUE)
  BY DEF PeopleOf
<1>5. QED
  BY <1>1, <1>2, <1>3, <1>4

LEMMA RemovedMember ==
    ASSUME OneSeatEach, NEW m \in MemberId, NEW p \in User, ActiveMember(db[m], p),
           draft[m] # Absent, draft[m].user = p, draft[m].removedBy # NoUser,
           \A n \in MemberId \ {m} : draft[n] = db[n]
    PROVE  /\ p \in PeopleOf(db, FALSE)
           /\ PeopleOf(draft, FALSE) = PeopleOf(db, FALSE) \ {p}
           /\ PeopleOf(draft, TRUE) = PeopleOf(db, TRUE) \cup {p}
<1>1. p \in PeopleOf(db, FALSE) /\ p \in PeopleOf(draft, TRUE)
  BY DEF PeopleOf, ActiveMember
<1>2. ASSUME NEW x \in PeopleOf(draft, FALSE)
      PROVE  x \in PeopleOf(db, FALSE) \ {p}
  <2>1. PICK n \in MemberId : draft[n] # Absent /\ draft[n].removedBy = NoUser /\ x = draft[n].user
    BY DEF PeopleOf
  <2>2. n # m /\ draft[n] = db[n]
    BY <2>1
  <2>3. db[n].user # db[m].user
    BY <2>1, <2>2 DEF OneSeatEach, ActiveMember
  <2>4. QED
    BY <2>1, <2>2, <2>3 DEF PeopleOf, ActiveMember
<1>3. ASSUME NEW x \in PeopleOf(db, FALSE) \ {p}
      PROVE  x \in PeopleOf(draft, FALSE)
  BY DEF PeopleOf, ActiveMember
<1>4. ASSUME NEW x \in PeopleOf(draft, TRUE)
      PROVE  x \in PeopleOf(db, TRUE) \cup {p}
  BY DEF PeopleOf
<1>5. ASSUME NEW x \in PeopleOf(db, TRUE)
      PROVE  x \in PeopleOf(draft, TRUE)
  BY DEF PeopleOf, ActiveMember
<1>6. QED
  BY <1>1, <1>2, <1>3, <1>4, <1>5

LEMMA ChangedRights ==
    ASSUME NEW K \in SUBSET (User \X Permission),
           \A k \in (User \X Permission) \ K : draft[k] = db[k]
    PROVE  /\ (\A k \in K : draft[k] # Absent) => RightsOf(draft) = RightsOf(db) \cup K
           /\ (\A k \in K : draft[k] = Absent) => RightsOf(draft) = RightsOf(db) \ K
BY DEF RightsOf

LEMMA RowsAreProduct ==
    ASSUME NEW u, NEW list
    PROVE  RowsOf(u, list) = {u} \X Range(list)
BY DEF RowsOf

-------------------------------------------------------------------------------
(* The steps of the roster.                                                  *)

Invites(p, R) ==
    /\ p \notin PeopleOf(db, FALSE)
    /\ \A i \in OpenOf(db) : i[1] # p
    /\ OpenOf(draft) = OpenOf(db) \cup {<<p, R>>}
    /\ SamePeople /\ SameRights
Joins(p, R) ==
    /\ <<p, R>> \in OpenOf(db)
    /\ ({p} \X R) \cap RightsOf(db) = {}
    /\ OpenOf(draft) = OpenOf(db) \ {<<p, R>>}
    /\ PeopleOf(draft, FALSE) = PeopleOf(db, FALSE) \cup {p}
    /\ PeopleOf(draft, TRUE) = PeopleOf(db, TRUE)
    /\ RightsOf(draft) = RightsOf(db) \cup ({p} \X R)
Declines(p, R) ==
    /\ <<p, R>> \in OpenOf(db)
    /\ OpenOf(draft) = OpenOf(db) \ {<<p, R>>}
    /\ SamePeople /\ SameRights
Modifies(p, R) ==
    /\ p \in PeopleOf(db, FALSE) \cup PeopleOf(db, TRUE)
    /\ \/ RightsOf(draft) = RightsOf(db) \cup ({p} \X R)
       \/ RightsOf(draft) = RightsOf(db) \ ({p} \X R)
    /\ SameOpen /\ SamePeople
Leaves(p) ==
    /\ p \in PeopleOf(db, FALSE)
    /\ p # Owner
    /\ PeopleOf(draft, FALSE) = PeopleOf(db, FALSE) \ {p}
    /\ PeopleOf(draft, TRUE) = PeopleOf(db, TRUE) \cup {p}
    /\ RightsOf(draft) = RightsOf(db) \ ({p} \X Permission)
    /\ SameOpen

RosterMove(p) ==
    \/ Leaves(p)
    \/ \E R \in SUBSET Permission : Invites(p, R) \/ Joins(p, R) \/ Declines(p, R) \/ Modifies(p, R)

LEMMA MovesAreRosterSteps ==
    ASSUME db' = draft, NEW p \in User, RosterMove(p)
    PROVE  Seats!RosterNext
<1>1. /\ OpenOf(db)' = OpenOf(draft)
      /\ PeopleOf(db, FALSE)' = PeopleOf(draft, FALSE)
      /\ PeopleOf(db, TRUE)' = PeopleOf(draft, TRUE)
      /\ RightsOf(db)' = RightsOf(draft)
  BY DEF OpenOf, PeopleOf, RightsOf
<1>2. SamePeople => /\ PeopleOf(draft, FALSE) = PeopleOf(db, FALSE)
                    /\ PeopleOf(draft, TRUE) = PeopleOf(db, TRUE)
  BY DEF SamePeople
<1>3. Members(FALSE) = PeopleOf(db, FALSE) /\ Members(TRUE) = PeopleOf(db, TRUE)
  BY DEF Members, PeopleOf
<1>4. Members(FALSE)' = PeopleOf(db, FALSE)' /\ Members(TRUE)' = PeopleOf(db, TRUE)'
  BY DEF Members, PeopleOf
<1>5. ASSUME NEW R \in SUBSET Permission, Invites(p, R)
      PROVE  Seats!Invite(p, R)
  <2>1. SUFFICES /\ p \notin Members(FALSE)
                 /\ \A i \in OpenOf(db) : i[1] # p
                 /\ OpenOf(db)' = OpenOf(db) \cup {<<p, R>>}
                 /\ Members(FALSE)' = Members(FALSE) /\ Members(TRUE)' = Members(TRUE)
                 /\ RightsOf(db)' = RightsOf(db)
    BY DEF Seats!Invite, OpenOf, RightsOf
  <2>2. QED
    BY <1>1, <1>2, <1>3, <1>4, <1>5 DEF Invites, SameRights
<1>6. ASSUME NEW R \in SUBSET Permission, Joins(p, R)
      PROVE  Seats!Join(p, R)
  <2>1. SUFFICES /\ <<p, R>> \in OpenOf(db)
                 /\ ({p} \X R) \cap RightsOf(db) = {}
                 /\ OpenOf(db)' = OpenOf(db) \ {<<p, R>>}
                 /\ Members(FALSE)' = Members(FALSE) \cup {p}
                 /\ Members(TRUE)' = Members(TRUE)
                 /\ RightsOf(db)' = RightsOf(db) \cup ({p} \X R)
    BY DEF Seats!Join, OpenOf, RightsOf
  <2>2. QED
    BY <1>1, <1>3, <1>4, <1>6 DEF Joins
<1>7. ASSUME NEW R \in SUBSET Permission, Declines(p, R)
      PROVE  Seats!Decline(p, R)
  <2>1. SUFFICES /\ <<p, R>> \in OpenOf(db)
                 /\ OpenOf(db)' = OpenOf(db) \ {<<p, R>>}
                 /\ Members(FALSE)' = Members(FALSE) /\ Members(TRUE)' = Members(TRUE)
                 /\ RightsOf(db)' = RightsOf(db)
    BY DEF Seats!Decline, OpenOf, RightsOf
  <2>2. QED
    BY <1>1, <1>2, <1>3, <1>4, <1>7 DEF Declines, SameRights
<1>8. ASSUME NEW R \in SUBSET Permission, Modifies(p, R)
      PROVE  Seats!Grant(p, R) \/ Seats!Revoke(p, R)
  <2>1. SUFFICES /\ p \in Members(FALSE) \cup Members(TRUE)
                 /\ \/ RightsOf(db)' = RightsOf(db) \cup ({p} \X R)
                    \/ RightsOf(db)' = RightsOf(db) \ ({p} \X R)
                 /\ OpenOf(db)' = OpenOf(db)
                 /\ Members(FALSE)' = Members(FALSE) /\ Members(TRUE)' = Members(TRUE)
    BY DEF Seats!Grant, Seats!Revoke, OpenOf, RightsOf
  <2>2. QED
    BY <1>1, <1>2, <1>3, <1>4, <1>8 DEF Modifies, SameOpen
<1>9. ASSUME Leaves(p)
      PROVE  Seats!Leave(p)
  <2>1. SUFFICES /\ p \in Members(FALSE) /\ p # Owner
                 /\ Members(FALSE)' = Members(FALSE) \ {p}
                 /\ Members(TRUE)' = Members(TRUE) \cup {p}
                 /\ RightsOf(db)' = RightsOf(db) \ ({p} \X Permission)
                 /\ OpenOf(db)' = OpenOf(db)
    BY DEF Seats!Leave, OpenOf, RightsOf
  <2>2. QED
    BY <1>1, <1>3, <1>4, <1>9 DEF Leaves, SameOpen
<1>10. QED
  BY <1>5, <1>6, <1>7, <1>8, <1>9 DEF RosterMove, Seats!RosterNext

-------------------------------------------------------------------------------
(* What each mutation has done to the roster when it commits.                *)

LEMMA CommitShowsDraft ==
    ASSUME NEW r \in Request, SerialInv(r), Alone(r), commit(r)
    PROVE  /\ db' = draft /\ draft' = draft /\ req'[r] = Idle
           /\ req[r].op \in Op \ {"none"} /\ req[r].pc = Len(Script[req[r].op])
<1>1. IInv /\ Visible(r) = draft
  BY SeesDraft DEF SerialInv
<1>2. db' = draft /\ draft' = draft /\ req'[r] = Idle
  BY <1>1 DEF commit, CommitTx, IInv, TypeOK
<1>3. req[r].op \in Op /\ req[r].pc \in 1..Len(Script[req[r].op])
  BY <1>1, Statement
<1>4. Script[req[r].op][req[r].pc] = "commit"
  BY DEF commit, At, Current
<1>5. req[r].op # "none"
  BY <1>3, <1>4 DEF Script
<1>6. req[r].pc = Len(Script[req[r].op])
  <2>1. CASE req[r].op = "createWorkspaceInvite"
    BY <1>3, <1>4, <2>1, ScriptLengths DEF Script
  <2>2. CASE req[r].op = "acceptWorkspaceInvite"
    BY <1>3, <1>4, <2>2, ScriptLengths DEF Script
  <2>3. CASE req[r].op = "rejectWorkspaceInvite"
    BY <1>3, <1>4, <2>3, ScriptLengths DEF Script
  <2>4. CASE req[r].op = "cancelWorkspaceInvite"
    BY <1>3, <1>4, <2>4, ScriptLengths DEF Script
  <2>5. CASE req[r].op = "grantWorkspaceMemberPermissions"
    BY <1>3, <1>4, <2>5, ScriptLengths DEF Script
  <2>6. CASE req[r].op = "revokeWorkspaceMemberPermissions"
    BY <1>3, <1>4, <2>6, ScriptLengths DEF Script
  <2>7. CASE req[r].op = "removeMember"
    BY <1>3, <1>4, <2>7, ScriptLengths DEF Script
  <2>8. QED
    BY <1>3, <1>5, <2>1, <2>2, <2>3, <2>4, <2>5, <2>6, <2>7, OpsAre DEF Answering, AboutMember
<1>7. QED
  BY <1>2, <1>3, <1>5, <1>6

\* What is answered is as it was.
AnswersStand ==
    \A i \in InviteId : db[i] # Absent /\ db[i].status # "PENDING" => draft[i] = db[i]

\* Who has been removed holds nothing any more.
RemovalsTakeAll ==
    \A m \in MemberId :
        db[m] # Absent /\ db[m].removedBy = NoUser /\ draft[m].removedBy # NoUser =>
            \A p \in Permission : draft[<<db[m].user, p>>] = Absent

Lands(r) ==
    /\ RosterMove(req[r].subject)
    /\ Answered(draft) /\ AnswersStand /\ RemovalsTakeAll

\* An invite that is not there has no member.
LEMMA NewInviteHasNoMember ==
    ASSUME IInv, NEW i \in InviteId, db[i] = Absent
    PROVE  MembersOf(db, i) = {}
BY DEF IInv, OriginsOK, MembersWereInvited, MembersOf

\* Nothing changes for the members of the invites that stay.
LEMMA AnswersStay ==
    ASSUME IInv, Answered(db),
           \A m \in MemberId : (draft[m] # Absent <=> db[m] # Absent)
                                /\ (db[m] # Absent => draft[m].invite = db[m].invite),
           \A i \in InviteId : draft[i] # Absent =>
                \/ draft[i] = db[i]
                \/ draft[i].status # "ACCEPTED" /\ db[i] = Absent
                \/ draft[i].status # "ACCEPTED" /\ db[i].status # "ACCEPTED"
    PROVE  Answered(draft)
<1>1. ASSUME NEW i
      PROVE  MembersOf(draft, i) = MembersOf(db, i)
  BY DEF MembersOf
<1>2. ASSUME NEW i \in InviteId, draft[i] # Absent
      PROVE  IF draft[i].status = "ACCEPTED" THEN \E m \in MemberId : MembersOf(draft, i) = {m}
             ELSE MembersOf(draft, i) = {}
  BY <1>1, <1>2, NewInviteHasNoMember DEF Answered
<1>3. QED
  BY <1>2 DEF Answered

LEMMA SeatsStay ==
    ASSUME SameMembers
    PROVE  /\ RemovalsTakeAll
           /\ \A m \in MemberId : (draft[m] # Absent <=> db[m] # Absent)
                                   /\ (db[m] # Absent => draft[m].invite = db[m].invite)
BY DEF SameMembers, RemovalsTakeAll

LEMMA CreateLands ==
    ASSUME NEW r \in Request, SerialInv(r), Alone(r), commit(r),
           req[r].op = "createWorkspaceInvite"
    PROVE  Lands(r)
<1> DEFINE q == req[r]
           R == Range(q.list)
<1>1. /\ IInv /\ Answered(db) /\ Checked(q) /\ Inviting(q) /\ q.pc = 5
      /\ q.subject \in User /\ R \subseteq Permission
  BY CommitShowsDraft, ScriptLengths, AboutRow DEF SerialInv, Written
<1>2. /\ \A i \in InviteId : ~PendingInvite(db[i], q.subject)
      /\ ~isMember(db, q.subject)
  BY <1>1 DEF Checked
<1>3. PICK i \in InviteId : New(i, InviteFor(q)) /\ OnlyDiffer({i})
  BY <1>1 DEF Inviting
<1>4. /\ db[i] = Absent /\ draft[i] = InviteFor(q)
      /\ draft[i].status = "PENDING" /\ draft[i].invitee = q.subject
      /\ draft[i].permissions = q.list
  BY <1>3 DEF New, InviteFor
<1>5. draft[i] # Absent
  <2>1. q.caller \in User /\ q.list \in PermissionLists
    BY <1>1, Statement DEF Known
  <2>2. InviteFor(q) \in InviteRow
    BY <1>1, <2>1 DEF InviteFor, InviteRow
  <2>3. QED
    BY <1>4, <2>2, InviteFields
<1>6. SameMembers /\ SamePermissions /\ \A j \in InviteId \ {i} : draft[j] = db[j]
  BY <1>3, PermissionRowsHaveKeys DEF OnlyDiffer, SameMembers, SamePermissions
<1>7. Invites(q.subject, R)
  <2>1. OpenOf(draft) = OpenOf(db) \cup {<<q.subject, R>>}
    BY <1>4, <1>5, <1>6, NewInvite
  <2>2. \A x \in OpenOf(db) : x[1] # q.subject
    BY <1>2 DEF OpenOf, PendingInvite
  <2>3. q.subject \notin PeopleOf(db, FALSE)
    BY <1>2 DEF PeopleOf, isMember, ActiveMember
  <2>4. QED
    BY <1>6, <2>1, <2>2, <2>3, UntouchedRows DEF Invites
<1>8. Answered(draft) /\ RemovalsTakeAll
  BY <1>1, <1>4, <1>6, SeatsStay, AnswersStay
<1>9. AnswersStand
  BY <1>4, <1>6 DEF AnswersStand
<1>10. QED
  BY <1>1, <1>7, <1>8, <1>9 DEF Lands, RosterMove

\* What an answer finds, and leaves of its invite, at its commit.
LEMMA AnswerFinds ==
    ASSUME NEW r \in Request, IInv, Checked(req[r]), req[r].op \in Answering,
           draft[req[r].row] = AnsweredRow(req[r])
    PROVE  /\ req[r].subject \in User /\ req[r].row \in InviteId
           /\ PendingInvite(db[req[r].row], req[r].subject)
           /\ db[req[r].row].permissions = req[r].list
           /\ draft[req[r].row].status = Outcome[req[r].op]
           /\ draft[req[r].row].status # "PENDING"
<1> DEFINE q == req[r]
<1>1. /\ q.subject \in User /\ q.row \in InviteId /\ db[q.row] \in InviteRow
      /\ db[q.row].invitee = q.subject /\ db[q.row].permissions = q.list
  BY AboutRow DEF Answering
<1>2. db[q.row].status = "PENDING" /\ db[q.row] # Absent
  BY <1>1, InviteFields DEF Checked
<1>3. draft[q.row].status = Outcome[q.op]
  BY <1>1 DEF AnsweredRow, InviteRow
<1>4. Outcome[q.op] # "PENDING"
  BY DEF Outcome, Answering
<1>5. QED
  BY <1>1, <1>2, <1>3, <1>4 DEF PendingInvite

LEMMA DeclineLands ==
    ASSUME NEW r \in Request, SerialInv(r), Alone(r), commit(r),
           req[r].op \in {"rejectWorkspaceInvite", "cancelWorkspaceInvite"}
    PROVE  Lands(r)
<1> DEFINE q == req[r]
           R == Range(q.list)
<1>1. /\ IInv /\ Answered(db) /\ Checked(q) /\ Declining(q) /\ q.pc = 2
      /\ q.op \in Answering
  BY CommitShowsDraft, ScriptLengths DEF SerialInv, Written, Answering
<1>2. draft[q.row] = AnsweredRow(q) /\ OnlyDiffer({q.row})
  BY <1>1 DEF Declining
<1>3. /\ q.subject \in User /\ q.row \in InviteId /\ PendingInvite(db[q.row], q.subject)
      /\ db[q.row].permissions = q.list /\ draft[q.row].status # "PENDING"
      /\ draft[q.row].status = Outcome[q.op]
  BY <1>1, <1>2, AnswerFinds
<1>4. draft[q.row].status # "ACCEPTED" /\ R \subseteq Permission
  BY <1>1, <1>3, AboutRow DEF Outcome
<1>5. SameMembers /\ SamePermissions /\ \A j \in InviteId \ {q.row} : draft[j] = db[j]
  BY <1>2, <1>3, PermissionRowsHaveKeys DEF OnlyDiffer, SameMembers, SamePermissions
<1>6. OneSeatEach
  BY <1>1, SeatsNow
<1>7. Declines(q.subject, R)
  BY <1>3, <1>5, <1>6, AnsweredInvite, UntouchedRows DEF Declines
<1>8. Answered(draft) /\ RemovalsTakeAll
  BY <1>1, <1>3, <1>4, <1>5, SeatsStay, AnswersStay DEF PendingInvite
<1>9. AnswersStand
  BY <1>3, <1>5 DEF AnswersStand, PendingInvite
<1>10. QED
  BY <1>4, <1>7, <1>8, <1>9 DEF Lands, RosterMove

LEMMA AcceptLands ==
    ASSUME NEW r \in Request, SerialInv(r), Alone(r), commit(r),
           req[r].op = "acceptWorkspaceInvite"
    PROVE  Lands(r)
<1> DEFINE q == req[r]
           i == q.row
           K == RowsOf(q.subject, q.list)
           R == Range(q.list)
<1>1. /\ IInv /\ Answered(db) /\ Checked(q) /\ Accepting(q) /\ q.pc = 5
      /\ q.op \in Answering
  BY CommitShowsDraft, ScriptLengths DEF SerialInv, Written, Answering
<1>2. draft[i] = AnsweredRow(q) /\ \E m \in MemberId : Seating(q, m)
  BY <1>1 DEF Accepting
<1>3. /\ q.subject \in User /\ i \in InviteId /\ PendingInvite(db[i], q.subject)
      /\ db[i].permissions = q.list /\ draft[i].status = "ACCEPTED"
  BY <1>1, <1>2, AnswerFinds DEF Outcome
<1>4. R \subseteq Permission /\ K \subseteq User \X Permission /\ K = {q.subject} \X R
  BY <1>1, <1>3, AboutRow, PermissionKeys, RowsAreProduct
<1>5. PICK m \in MemberId : Seating(q, m)
  BY <1>2
<1>6. /\ New(m, SeatFor(q))
      /\ \A k \in K : New(k, Granted)
      /\ OnlyDiffer({i, m} \cup K)
  BY <1>1, <1>5 DEF Seating
<1>7. /\ db[m] = Absent /\ draft[m] = SeatFor(q)
      /\ draft[m].user = q.subject /\ draft[m].invite = i /\ draft[m].removedBy = NoUser
      /\ \A k \in K : db[k] = Absent /\ draft[k] = Granted
  BY <1>6 DEF New, SeatFor
<1>8. draft[m] # Absent /\ \A k \in K : draft[k] # Absent
  <2>1. SeatFor(q) \in MemberRow
    BY <1>3 DEF SeatFor, MemberRow
  <2>2. QED
    BY <1>7, <2>1, AbsentIsNoRow DEF PermissionRow
<1>9. /\ \A j \in InviteId \ {i} : draft[j] = db[j]
      /\ \A n \in MemberId \ {m} : draft[n] = db[n]
      /\ \A k \in (User \X Permission) \ K : draft[k] = db[k]
  BY <1>3, <1>4, <1>6, PermissionRowsHaveKeys DEF OnlyDiffer
<1>10. OneSeatEach
  BY <1>1, SeatsNow
<1>11. Joins(q.subject, R)
  <2>1. /\ <<q.subject, R>> \in OpenOf(db)
        /\ OpenOf(draft) = OpenOf(db) \ {<<q.subject, R>>}
    BY <1>3, <1>9, <1>10, AnsweredInvite
  <2>2. /\ PeopleOf(draft, FALSE) = PeopleOf(db, FALSE) \cup {q.subject}
        /\ PeopleOf(draft, TRUE) = PeopleOf(db, TRUE)
    BY <1>7, <1>8, <1>9, NewMember
  <2>3. RightsOf(draft) = RightsOf(db) \cup K
    BY <1>4, <1>8, <1>9, ChangedRights
  <2>4. K \cap RightsOf(db) = {}
    BY <1>7 DEF RightsOf
  <2>5. QED
    BY <1>4, <2>1, <2>2, <2>3, <2>4 DEF Joins
<1>12. Answered(draft)
  <2>1. MembersOf(db, i) = {}
    BY <1>1, <1>3 DEF Answered, PendingInvite
  <2>2. MembersOf(draft, i) = {m}
    BY <1>7, <1>8, <1>9, <2>1 DEF MembersOf
  <2>3. ASSUME NEW j \in InviteId \ {i}
        PROVE  MembersOf(draft, j) = MembersOf(db, j)
    BY <1>7, <1>9 DEF MembersOf
  <2>4. QED
    BY <1>1, <1>3, <1>9, <2>2, <2>3 DEF Answered
<1>13. AnswersStand
  BY <1>3, <1>9 DEF AnswersStand, PendingInvite
<1>14. RemovalsTakeAll
  BY <1>7, <1>9 DEF RemovalsTakeAll
<1>15. QED
  BY <1>4, <1>11, <1>12, <1>13, <1>14 DEF Lands, RosterMove

LEMMA ModifyLands ==
    ASSUME NEW r \in Request, SerialInv(r), Alone(r), commit(r),
           req[r].op \in {"grantWorkspaceMemberPermissions", "revokeWorkspaceMemberPermissions"}
    PROVE  Lands(r)
<1> DEFINE q == req[r]
           K == RowsOf(q.subject, q.list)
           R == Range(q.list)
           row == IF q.op = "grantWorkspaceMemberPermissions" THEN Granted ELSE Absent
<1>1. /\ IInv /\ Answered(db) /\ Modifying(q, row) /\ q.pc = 4
      /\ q.op \in AboutMember /\ q.op # "none"
  BY CommitShowsDraft, ScriptLengths DEF SerialInv, Written, AboutMember
<1>2. (\A k \in K : draft[k] = row) /\ OnlyDiffer(K)
  BY <1>1 DEF Modifying
<1>3. /\ q.subject \in User /\ q.row \in MemberId
      /\ db[q.row] \in MemberRow /\ db[q.row].user = q.subject
      /\ R \subseteq Permission
  BY <1>1, AboutRow
<1>4. K \subseteq User \X Permission /\ K = {q.subject} \X R
  BY <1>3, PermissionKeys, RowsAreProduct
<1>5. /\ SameInvites /\ SameMembers
      /\ \A k \in (User \X Permission) \ K : draft[k] = db[k]
  BY <1>2, <1>4, PermissionRowsHaveKeys DEF OnlyDiffer, SameInvites, SameMembers
<1>6. q.subject \in PeopleOf(db, FALSE) \cup PeopleOf(db, TRUE)
  BY <1>3, MemberFields DEF PeopleOf
<1>7. (\A k \in K : draft[k] # Absent) \/ (\A k \in K : draft[k] = Absent)
  BY <1>2, AbsentIsNoRow DEF PermissionRow
<1>8. RightsOf(draft) = RightsOf(db) \cup K \/ RightsOf(draft) = RightsOf(db) \ K
  BY <1>4, <1>5, <1>7, ChangedRights
<1>9. Modifies(q.subject, R)
  BY <1>4, <1>5, <1>6, <1>8, UntouchedRows DEF Modifies
<1>10. Answered(draft) /\ RemovalsTakeAll
  BY <1>1, <1>5, SeatsStay, AnswersStay DEF SameInvites
<1>11. AnswersStand
  BY <1>5 DEF AnswersStand, SameInvites
<1>12. QED
  BY <1>3, <1>9, <1>10, <1>11 DEF Lands, RosterMove

LEMMA RemoveLands ==
    ASSUME NEW r \in Request, SerialInv(r), Alone(r), commit(r), req[r].op = "removeMember"
    PROVE  Lands(r)
<1> DEFINE q == req[r]
           K == AllOf(q.subject)
<1>1. /\ IInv /\ Answered(db) /\ Checked(q) /\ Removing(q) /\ q.pc = 4
      /\ q.op \in AboutMember /\ q.op # "none"
  BY CommitShowsDraft, ScriptLengths DEF SerialInv, Written, AboutMember
<1>2. /\ draft[q.row] = RemovedRow(q)
      /\ \A k \in K : draft[k] = Absent
      /\ OnlyDiffer({q.row} \cup K)
  BY <1>1 DEF Removing
<1>3. /\ q.subject \in User /\ q.row \in MemberId /\ q.caller \in User
      /\ db[q.row] \in MemberRow /\ db[q.row].user = q.subject
  BY <1>1, AboutRow
<1>4. db[q.row].removedBy = NoUser /\ q.subject # Owner /\ db[q.row] # Absent
  BY <1>1, <1>3, MemberFields DEF Checked
<1>5. /\ draft[q.row] \in MemberRow
      /\ draft[q.row].user = q.subject /\ draft[q.row].invite = db[q.row].invite
      /\ draft[q.row].removedBy = q.caller
  BY <1>2, <1>3 DEF RemovedRow, MemberRow
<1>6. draft[q.row] # Absent /\ draft[q.row].removedBy # NoUser
  BY <1>3, <1>5, MemberFields, PeopleAreUsers
<1>7. K \subseteq User \X Permission /\ K = {q.subject} \X Permission
  BY <1>3 DEF AllOf
<1>8. /\ SameInvites
      /\ \A n \in MemberId \ {q.row} : draft[n] = db[n]
      /\ \A k \in (User \X Permission) \ K : draft[k] = db[k]
  BY <1>2, <1>3, <1>7, PermissionRowsHaveKeys DEF OnlyDiffer, SameInvites
<1>9. OneSeatEach
  BY <1>1, SeatsNow
<1>10. Leaves(q.subject)
  <2>1. /\ q.subject \in PeopleOf(db, FALSE)
        /\ PeopleOf(draft, FALSE) = PeopleOf(db, FALSE) \ {q.subject}
        /\ PeopleOf(draft, TRUE) = PeopleOf(db, TRUE) \cup {q.subject}
    BY <1>3, <1>4, <1>5, <1>6, <1>8, <1>9, RemovedMember DEF ActiveMember
  <2>2. RightsOf(draft) = RightsOf(db) \ K
    BY <1>2, <1>7, <1>8, ChangedRights
  <2>3. QED
    BY <1>4, <1>7, <1>8, <2>1, <2>2, UntouchedRows DEF Leaves
<1>11. Answered(draft)
  <2>1. \A m \in MemberId : (draft[m] # Absent <=> db[m] # Absent)
                             /\ (db[m] # Absent => draft[m].invite = db[m].invite)
    BY <1>3, <1>4, <1>5, <1>6, <1>8
  <2>2. QED
    BY <1>1, <1>8, <2>1, AnswersStay DEF SameInvites
<1>12. RemovalsTakeAll
  <2>1. \A m \in MemberId \ {q.row} : db[m] # Absent /\ db[m].removedBy = NoUser =>
            draft[m].removedBy = NoUser
    BY <1>8
  <2>2. \A p \in Permission : draft[<<q.subject, p>>] = Absent
    BY <1>2, <1>7
  <2>3. QED
    BY <1>3, <2>1, <2>2 DEF RemovalsTakeAll
<1>13. AnswersStand
  BY <1>8 DEF AnswersStand, SameInvites
<1>14. QED
  BY <1>10, <1>11, <1>12, <1>13 DEF Lands, RosterMove

\* A commit is a step of the roster.
LEMMA CommitLands ==
    ASSUME NEW r \in Request, SerialInv(r), Alone(r), commit(r)
    PROVE  /\ db' = draft /\ draft' = draft /\ req'[r] = Idle
           /\ Answered(draft) /\ AnswersStand /\ RemovalsTakeAll /\ Seats!RosterNext
<1>1. /\ db' = draft /\ draft' = draft /\ req'[r] = Idle
      /\ req[r].op \in Op \ {"none"}
  BY CommitShowsDraft
<1>2. Lands(r)
  BY <1>1, OpsAre, CreateLands, AcceptLands, DeclineLands, ModifyLands, RemoveLands
     DEF Answering, AboutMember
<1>3. req[r].subject \in User
  BY <1>1, AboutRow DEF SerialInv
<1>4. QED
  BY <1>1, <1>2, <1>3, MovesAreRosterSteps DEF Lands

-------------------------------------------------------------------------------
(* The invariant of a request alone.                                         *)

LEMMA IdleIsInOrder ==
    ASSUME NEW r \in Request, req'[r] = Idle, draft' = db'
    PROVE  Checked(req[r])' /\ Written(req[r])'
BY DEF Checked, Written, OnlyDiffer, Idle, Answering

LEMMA StartIsInOrder ==
    ASSUME NEW r \in Request, IInv, OnlyDiffer({}), NEW op, NEW caller, NEW subject, NEW row,
           NEW list, Start(r, op, caller, subject, row, list),
           op \in Answering => db[row].status = "PENDING",
           op = "removeMember" => db[row].removedBy = NoUser
    PROVE  /\ db' = db
           /\ Checked(req[r])' /\ Written(req[r])'
<1>1. /\ db' = db /\ draft' = draft
      /\ req'[r].op = op /\ req'[r].pc = 1 /\ req'[r].row = row
  BY DEF Start, tables, IInv, TypeOK
<1>2. OnlyDiffer({})'
  BY <1>1 DEF OnlyDiffer
<1>3. Checked(req[r])'
  BY <1>1 DEF Checked
<1>4. Written(req[r])'
  BY <1>1, <1>2 DEF Written, Inviting, Accepting, Declining, Modifying, Removing
<1>5. QED
  BY <1>1, <1>3, <1>4

LEMMA BeginIsInOrder ==
    ASSUME NEW r \in Request, IInv, Written(req[r]), Begin(r)
    PROVE  db' = db /\ Checked(req[r])' /\ Written(req[r])'
<1>1. req[r].op = "none"
  BY DEF Begin, createWorkspaceInvite, acceptWorkspaceInvite, rejectWorkspaceInvite,
         cancelWorkspaceInvite, Answer, grantWorkspaceMemberPermissions,
         revokeWorkspaceMemberPermissions, leaveWorkspace, removeWorkspaceMember, Remove, Start
<1>2. OnlyDiffer({})
  BY <1>1 DEF Written
<1>3. CASE createWorkspaceInvite(r)
  BY <1>2, <1>3, StartIsInOrder DEF createWorkspaceInvite, Answering
<1>4. CASE acceptWorkspaceInvite(r) \/ rejectWorkspaceInvite(r) \/ cancelWorkspaceInvite(r)
  <2>1. PICK op \in Answering : Answer(r, op)
    BY <1>4 DEF acceptWorkspaceInvite, rejectWorkspaceInvite, cancelWorkspaceInvite, Answering
  <2>2. PICK i \in InviteId :
            /\ db[i].status = "PENDING"
            /\ Start(r, op, NoUser, db[i].invitee, i, db[i].permissions)
    BY <2>1 DEF Answer
  <2>3. QED
    BY <1>2, <2>2, StartIsInOrder DEF Answering
<1>5. CASE grantWorkspaceMemberPermissions(r)
  BY <1>2, <1>5, StartIsInOrder DEF grantWorkspaceMemberPermissions, Answering
<1>6. CASE revokeWorkspaceMemberPermissions(r)
  BY <1>2, <1>6, StartIsInOrder DEF revokeWorkspaceMemberPermissions, Answering
<1>7. CASE leaveWorkspace(r) \/ removeWorkspaceMember(r)
  <2>1. PICK m \in MemberId, caller \in User :
            /\ db[m].removedBy = NoUser
            /\ Start(r, "removeMember", caller, db[m].user, m, <<>>)
    BY <1>7 DEF leaveWorkspace, removeWorkspaceMember, Remove
  <2>2. QED
    BY <1>2, <2>1, StartIsInOrder DEF Answering
<1>8. QED
  BY <1>3, <1>4, <1>5, <1>6, <1>7 DEF Begin

LEMMA ThrowIsInOrder ==
    ASSUME NEW r \in Request, IInv, Alone(r), Throw(r)
    PROVE  db' = db /\ Checked(req[r])' /\ Written(req[r])'
<1>1. db' = db /\ req'[r] = Idle
  BY DEF Throw, RollbackTx, IInv, TypeOK
<1>2. draft' = db'
  <2>1. \A k \in Key : holder[k] \in {r, NoRequest}
    BY DEF IInv, TypeOK, Alone
  <2>2. \A k \in Key : holder[k] # r => draft[k] = db[k]
    BY <2>1 DEF IInv, FreeRowsAreCommitted
  <2>3. draft' = [k \in Key |-> db[k]]
    BY <2>2 DEF Throw, RollbackTx
  <2>4. db = [k \in Key |-> db[k]]
    BY DEF IInv, TypeOK, Versioned
  <2>5. QED
    BY <1>1, <2>3, <2>4
<1>3. QED
  BY <1>1, <1>2, IdleIsInOrder

\* A step of the request alone keeps accepted invites and members in step, and
\* is a step of Roster or leaves the committed rows alone.
LEMMA StepInOrder ==
    ASSUME NEW r \in Request, SerialInv(r), Alone(r), Begin(r) \/ Run(r) \/ Abort(r)
    PROVE  /\ Answered(db)' /\ Checked(req[r])' /\ Written(req[r])'
           /\ db' = db \/ Seats!RosterNext
<1>1. IInv /\ Answered(db) /\ Written(req[r])
  BY DEF SerialInv
<1>2. db' = db => Answered(db)'
  BY <1>1 DEF Answered, MembersOf
<1>3. CASE Begin(r)
  BY <1>1, <1>2, <1>3, BeginIsInOrder
<1>4. CASE Throw(r)
  BY <1>1, <1>2, <1>4, ThrowIsInOrder
<1>5. CASE commit(r)
  <2>1. /\ db' = draft /\ draft' = draft /\ req'[r] = Idle
        /\ Answered(draft) /\ Seats!RosterNext
    BY <1>5, CommitLands
  <2>2. Answered(db)'
    BY <2>1 DEF Answered, MembersOf
  <2>3. QED
    BY <2>1, <2>2, IdleIsInOrder
<1>6. CASE Run(r) /\ ~Throw(r) /\ ~commit(r)
  <2>1. req[r].op # "none" /\ req[r].op \in Op
    BY <1>1, <1>6, Situation, Statement
  <2>2. Continues(r)
    BY <1>6, <2>1, OpsAre, CreateContinues, AcceptContinues, DeclineContinues, ModifyContinues,
       RemoveContinues DEF Answering, AboutMember
  <2>3. QED
    BY <1>2, <2>2 DEF Continues, Goes
<1>7. QED
  BY <1>3, <1>4, <1>5, <1>6 DEF Abort

LEMMA InitialSerial ==
    ASSUME NEW r \in Request, Init
    PROVE  SerialInv(r)
<1>1. \A k \in Key : db[k] = Absent /\ draft[k] = Absent
  BY DEF Init, TablesInit
<1>2. IInv
  BY InitialIInv
<1>3. Answered(db)
  BY <1>1, KeysOfTables DEF Answered
<1>4. req[r].op = "none"
  BY DEF Init, Idle
<1>5. Checked(req[r]) /\ Written(req[r])
  BY <1>1, <1>4 DEF Checked, Written, OnlyDiffer, Answering
<1>6. QED
  BY <1>2, <1>3, <1>5 DEF SerialInv

LEMMA NextKeepsSerial ==
    ASSUME NEW r \in Request, Alone(r), SerialInv(r), [Next]_vars
    PROVE  SerialInv(r)' /\ (db' = db \/ Seats!RosterNext)
<1>1. IInv'
  BY NextKeepsIInv DEF SerialInv
<1>2. CASE Next
  <2>1. Begin(r) \/ Run(r) \/ Abort(r)
    BY <1>2 DEF Next, Alone
  <2>2. QED
    BY <1>1, <2>1, StepInOrder DEF SerialInv
<1>3. CASE UNCHANGED vars
  <2>1. db' = db /\ draft' = draft /\ req' = req
    BY <1>3 DEF vars
  <2>2. Answered(db)'
    BY <2>1 DEF SerialInv, Answered, MembersOf
  <2>3. Checked(req[r])'
    BY <2>1 DEF SerialInv, Checked, isMember
  <2>4. Written(req[r])'
    <3>1. \A K : OnlyDiffer(K)' <=> OnlyDiffer(K)
      BY <2>1 DEF OnlyDiffer
    <3>2. \A k, row : New(k, row)' <=> New(k, row)
      BY <2>1 DEF New
    <3>3. Accepting(req[r])' <=> Accepting(req[r])
      BY <2>1 DEF Accepting, Seating, New, OnlyDiffer, AnsweredRow, SeatFor, RowsOf
    <3>4. Inviting(req[r])' <=> Inviting(req[r])
      BY <2>1 DEF Inviting, New, OnlyDiffer, InviteFor
    <3>5. Declining(req[r])' <=> Declining(req[r])
      BY <2>1 DEF Declining, OnlyDiffer, AnsweredRow
    <3>6. \A row \in {Granted, Absent} : Modifying(req[r], row)' <=> Modifying(req[r], row)
      BY <2>1 DEF Modifying, OnlyDiffer, RowsOf
    <3>7. Removing(req[r])' <=> Removing(req[r])
      BY <2>1 DEF Removing, OnlyDiffer, RemovedRow, AllOf
    <3>8. QED
      BY <2>1, <3>1, <3>3, <3>4, <3>5, <3>6, <3>7 DEF SerialInv, Written
  <2>5. QED
    BY <1>1, <2>1, <2>2, <2>3, <2>4 DEF SerialInv
<1>4. QED
  BY <1>2, <1>3

LEMMA OnlyCommitsShow ==
    ASSUME NEW r \in Request, Alone(r), SerialInv(r), [Next]_vars, db' # db
    PROVE  commit(r)
<1>1. Begin(r) \/ Run(r) \/ Abort(r)
  BY DEF Next, vars, Alone
<1>2. Kinds(r)
  BY <1>1, Classified DEF SerialInv
<1>3. ASSUME NEW rows, WritesLawfully(r, rows)
      PROVE  db' = db
  BY <1>3 DEF WritesLawfully, Writes, Put
<1>4. QED
  BY <1>2, <1>3 DEF Kinds, Passes, Throw, RollbackTx, tables

-------------------------------------------------------------------------------
(* The theorems: what requests that do not overlap keep.                     *)

\* The inductive invariant: accepted invites and members go together, and the
\* request that runs has checked and written what its script says.
THEOREM SerialInvariantHolds ==
    ASSUME NEW r \in Request, Alone(r)
    PROVE  Spec => []SerialInv(r)
<1>1. Init => SerialInv(r)
  BY InitialSerial
<1>2. SerialInv(r) /\ [Next]_vars => SerialInv(r)'
  BY NextKeepsSerial
<1>3. QED
  BY <1>1, <1>2, PTL DEF Spec

\* acceptWorkspaceInvite makes exactly one member of an invite, and no other
\* mutation makes any.
THEOREM AcceptedInvitesHaveMembers ==
    ASSUME NEW r \in Request, Alone(r)
    PROVE  Spec => []MembersIffAccepted
<1>1. SerialInv(r) => MembersIffAccepted
  <2> SUFFICES ASSUME SerialInv(r), NEW i \in InviteId, db[i] # Absent
               PROVE  Cardinality(MembersOf(db, i)) = IF db[i].status = "ACCEPTED" THEN 1 ELSE 0
    BY DEF MembersIffAccepted, MembersOf
  <2>1. IF db[i].status = "ACCEPTED" THEN \E m \in MemberId : MembersOf(db, i) = {m}
        ELSE MembersOf(db, i) = {}
    BY DEF SerialInv, Answered
  <2>2. QED
    BY <2>1, FS_Singleton, FS_EmptySet
<1>2. QED
  BY <1>1, SerialInvariantHolds, PTL

\* setInviteStatus updates by primary key and looks at nothing; the status the
\* pipe read before the transaction is what keeps an answer from being replaced.
THEOREM AnswersAreFinal ==
    ASSUME NEW r \in Request, Alone(r)
    PROVE  Spec => AnswerIsFinal
<1> DEFINE Final == \A i \in InviteId :
                        db[i] # Absent /\ db[i].status # "PENDING" => db'[i] = db[i]
<1>1. SerialInv(r) /\ [Next]_vars => [Final]_db
  <2> SUFFICES ASSUME SerialInv(r), [Next]_vars, db' # db
               PROVE  Final
    OBVIOUS
  <2>1. db' = draft /\ AnswersStand
    BY OnlyCommitsShow, CommitLands
  <2>2. QED
    BY <2>1 DEF AnswersStand
<1>2. QED
  BY <1>1, SerialInvariantHolds, PTL DEF Spec, AnswerIsFinal

\* removeMember leaves the member it removes no permission: revokeAllPermissions
\* sees every row there is when nobody grants alongside.
THEOREM RemovalsRevoke ==
    ASSUME NEW r \in Request, Alone(r)
    PROVE  Spec => RemovalRevokes
<1> DEFINE Revoked == \A m \in MemberId :
                db[m] # Absent /\ db[m].removedBy = NoUser /\ db'[m].removedBy # NoUser =>
                    \A p \in Permission : db'[<<db[m].user, p>>] = Absent
<1>1. SerialInv(r) /\ [Next]_vars => [Revoked]_db
  <2> SUFFICES ASSUME SerialInv(r), [Next]_vars, db' # db
               PROVE  Revoked
    OBVIOUS
  <2>1. db' = draft /\ RemovalsTakeAll
    BY OnlyCommitsShow, CommitLands
  <2>2. QED
    BY <2>1 DEF RemovalsTakeAll
<1>2. QED
  BY <1>1, SerialInvariantHolds, PTL DEF Spec, RemovalRevokes

\* Requests that do not overlap implement Roster: a commit is one step of it,
\* and no other step shows.
THEOREM MembershipImplementsRoster ==
    ASSUME NEW r \in Request, Alone(r)
    PROVE  Spec => ImplementsRoster
<1>1. Init => Seats!RosterInit
  <2> SUFFICES ASSUME Init
               PROVE  Seats!RosterInit
    OBVIOUS
  <2>1. \A k \in Key : db[k] = Absent
    BY DEF Init, TablesInit
  <2>2. Members(FALSE) = {} /\ Members(TRUE) = {}
    BY <2>1, KeysOfTables DEF Members
  <2>3. OpenOf(db) = {} /\ RightsOf(db) = {}
    BY <2>1, PermissionRowsHaveKeys DEF OpenOf, RightsOf
  <2>4. QED
    BY <2>2, <2>3 DEF Seats!RosterInit, OpenOf, RightsOf
<1>2. SerialInv(r) /\ [Next]_vars => [Seats!RosterNext]_(Seats!roster)
  <2> SUFFICES ASSUME SerialInv(r), [Next]_vars
               PROVE  Seats!RosterNext \/ UNCHANGED Seats!roster
    OBVIOUS
  <2>1. db' = db \/ Seats!RosterNext
    BY NextKeepsSerial
  <2>2. db' = db => UNCHANGED Seats!roster
    BY DEF Seats!roster, Members
  <2>3. QED
    BY <2>1, <2>2
<1>3. QED
  BY <1>1, <1>2, SerialInvariantHolds, PTL DEF Spec, ImplementsRoster, Seats!RosterSpec
===============================================================================
