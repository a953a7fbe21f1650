----------------------------- MODULE AccessRules -----------------------------
(* The access check in front of every gated resolver (src/src/access): the   *)
(* guard infers the rows the arguments lead to, pipe after pipe, evaluates   *)
(* the leaves of the resolver's rule side by side, each with reads of its    *)
(* own, and combines them.  Seats, permissions and rows change meanwhile.    *)
EXTENDS Integers, FiniteSets, Sequences

CONSTANTS
  Rows,        \* the database before the first call: id -> row
  Callers,     \* the users who call, and Nobody
  Nobody,      \* a request without a signed-in user
  NoRow,       \* nothing found
  MaxChanges   \* bound: changes by others during one call

(* The rows of the tables that rules are about; an invite stands for one to  *)
(* a workspace or to a contact.                                              *)
AnyRow ==
  LET ids == DOMAIN Rows
  IN  [id : ids, table : {"user"}, role : {"USER", "ADMIN"}]
        \cup [id : ids, table : {"workspace"}, owner : ids]
        \cup [id : ids, table : {"item", "tag"}, workspace : ids]
        \cup [id : ids, table : {"payment"}, item : ids]
        \cup [id : ids, table : {"member"}, user : ids, workspace : ids, active : BOOLEAN]
        \cup [id : ids, table : {"invite"}, inviter : ids, invitee : ids, workspace : ids]
        \cup [id : ids, table : {"contact"}, source : ids]

In(table, i) == i \in DOMAIN Rows /\ Rows[i].table = table

ASSUME Shapes == \A i \in DOMAIN Rows : Rows[i] \in AnyRow /\ Rows[i].id = i
(* The foreign keys of the schema.                                           *)
ASSUME References ==
  \A i \in DOMAIN Rows :
    /\ In("payment", i) => In("item", Rows[i].item)
    /\ Rows[i].table \in {"item", "tag", "member", "invite"} => In("workspace", Rows[i].workspace)
    /\ In("member", i) => In("user", Rows[i].user)
    /\ In("invite", i) => In("user", Rows[i].inviter) /\ In("user", Rows[i].invitee)
    /\ In("contact", i) => In("user", Rows[i].source)
ASSUME CallersAreUsers == \A u \in Callers \ {Nobody} : In("user", u)
ASSUME Bounded == MaxChanges \in Nat
ASSUME Apart == Nobody \notin DOMAIN Rows /\ NoRow \notin AnyRow

VARIABLES
  rows,      \* the tables: id -> row, for the rows that exist
  trusted,   \* the users who have their user permissions
  grants,    \* userWorkspacePermission: <<user, workspace, permission>>
  call,      \* the check under way
  seen       \* history: what held at some moment of this check, and whether
             \* the caller was entitled at every one

vars == <<rows, trusted, grants, call, seen>>
-------------------------------------------------------------------------------
(* Rules: leaves under "or" and "and".                                       *)
Or(subs)   == [kind |-> "or", subs |-> subs]
And(subs)  == [kind |-> "and", subs |-> subs]
Admin      == [kind |-> "role", role |-> "ADMIN"]
Self(k)    == [kind |-> "self", key |-> k]
Trusted    == [kind |-> "userPermission"]
Owner(k)   == [kind |-> "owner", key |-> k]
May(p, k)  == [kind |-> "permission", permission |-> p, key |-> k]
Member(k)  == [kind |-> "workspaceRole", key |-> k]

OwnerOrMay(p, k) == Or({Owner(k), May(p, k)})

(* @Infer: where a key starts, an argument or another key, and the fields    *)
(* its pipes follow from row to row ("id" looks the argument itself up).     *)
Arg(a, pipes)  == [arg |-> TRUE, from |-> a, pipes |-> pipes]
From(k, pipes) == [arg |-> FALSE, from |-> k, pipes |-> pipes]

\* One more key.
With(infer, k, entry) ==
  [x \in DOMAIN infer \cup {k} |-> IF x = k THEN entry ELSE infer[x]]

ById(k)          == [x \in {k} |-> Arg(k, <<"id">>)]
WorkspaceOf(k)   == With(ById(k), "workspace", From(k, <<"workspace">>))
WorkspaceByPay   ==
  With(ById("payment"), "workspace", From("payment", <<"item", "workspace">>))

Gate(infer, rule)       == [infer |-> infer, rule |-> rule]
MayInIt(infer, p)       == Gate(infer, Or({OwnerOrMay(p, "workspace"), Admin}))
MembersRead(infer)      == Gate(infer, Or({Member("workspace"), Admin}))
OwnersOnly(infer)       == Gate(infer, Or({Owner("workspace"), Admin}))
Oneself(infer, k)       == Gate(infer, Or({And({Self(k), Trusted}), Admin}))
AdminsOnly              == Gate(<<>>, Admin)
BothSides(a, b, p)      ==
  Gate([first  |-> Arg(a, <<"id", "workspace">>),
        second |-> Arg(b, <<"id", "workspace">>)],
       Or({Admin, And({OwnerOrMay(p, "first"), OwnerOrMay(p, "second")})}))
-------------------------------------------------------------------------------
(* The rules as the resolvers carry them.                                    *)
ItemAccess ==
  [createItem |-> MayInIt(ById("workspace"), "CREATE_ITEM"),
   updateItem |-> MayInIt(WorkspaceOf("item"), "UPDATE_ITEM"),
   deleteItem |-> MayInIt(WorkspaceOf("item"), "DELETE_ITEM")]

ItemReading == [item  |-> MembersRead(WorkspaceOf("item")),
                items |-> MembersRead(ById("workspace"))]

PaymentAccess ==
  [createPayment |-> MayInIt(WorkspaceOf("item"), "CREATE_PAYMENT"),
   updatePayment |-> MayInIt(WorkspaceByPay, "UPDATE_PAYMENT"),
   deletePayment |-> MayInIt(WorkspaceByPay, "DELETE_PAYMENT")]

PaymentReading == [payment  |-> MembersRead(WorkspaceByPay),
                   payments |-> MembersRead(WorkspaceOf("item"))]

TagAccess ==
  [createTag |-> MayInIt(ById("workspace"), "CREATE_TAG"),
   updateTag |-> MayInIt(WorkspaceOf("tag"), "UPDATE_TAG"),
   deleteTag |-> MayInIt(WorkspaceOf("tag"), "DELETE_TAG")]

TagReading == [tags |-> MembersRead(ById("workspace")),
               tag  |-> MembersRead(WorkspaceOf("tag"))]

ItemTagAccess == [assignTag   |-> BothSides("item", "tag", "ASSIGN_TAG"),
                  unassignTag |-> BothSides("item", "tag", "UNASSIGN_TAG")]

ItemMergeAccess == [mergeItems |-> BothSides("item", "merging", "MERGE_ITEMS")]

ItemExtractAccess ==
  [extractAsItem |-> MayInIt([workspace |-> Arg("item", <<"id", "workspace">>)],
                             "EXTRACT_ITEM")]

ItemStakeAccess ==
  [setItemStakes    |-> MayInIt(WorkspaceOf("item"), "OVERRIDE_ITEM_STAKES"),
   setItemStakeRule |-> MayInIt(WorkspaceOf("item"), "OVERRIDE_ITEM_STAKES")]

WorkspaceStakeAccess ==
  [updateWorkspaceStakeRule |->
     MayInIt(ById("workspace"), "UPDATE_WORKSPACE_STAKE_RULE")]

WorkspaceAccess ==
  [createWorkspace |-> Gate(<<>>, Or({Trusted, Admin})),
   updateWorkspace |-> OwnersOnly(ById("workspace")),
   deleteWorkspace |-> OwnersOnly(ById("workspace"))]

SeatAccess ==
  [leaveWorkspace |->
     Gate(With(ById("member"), "memberUser", From("member", <<"user">>)),
          Or({Self("memberUser"), Admin})),
   removeWorkspaceMember |->
     MayInIt(WorkspaceOf("member"), "REMOVE_WORKSPACE_MEMBER")]

SeatPermissionAccess ==
  [grantWorkspaceMemberPermissions |->
     MayInIt(WorkspaceOf("member"), "GRANT_WORKSPACE_PERMISSION"),
   revokeWorkspaceMemberPermissions |->
     MayInIt(WorkspaceOf("member"), "REVOKE_WORKSPACE_PERMISSION")]

Invitee == With(ById("invite"), "inviteeUser", From("invite", <<"invitee">>))

WorkspaceInviteAccess ==
  [createWorkspaceInvite |->
     Gate(With(ById("workspace"), "inviterUser", Arg("user", <<"id">>)),
          Or({And({OwnerOrMay("CREATE_WORKSPACE_INVITE", "workspace"),
                   Self("inviterUser")}), Admin})),
   acceptWorkspaceInvite |-> Oneself(Invitee, "inviteeUser"),
   rejectWorkspaceInvite |-> Oneself(Invitee, "inviteeUser"),
   cancelWorkspaceInvite |->
     Gate(With(WorkspaceOf("invite"), "inviter", From("invite", <<"inviter">>)),
          Or({Owner("workspace"), Self("inviter"), Admin}))]

ContactInviteAccess ==
  [createInvite             |-> Oneself([inviter |-> Arg("user", <<"id">>)], "inviter"),
   createInviteByEmail      |-> Oneself([inviter |-> Arg("user", <<"id">>)], "inviter"),
   acceptInvite             |-> Oneself(Invitee, "inviteeUser"),
   rejectInvite             |-> Oneself(Invitee, "inviteeUser"),
   rejectInviteAndBlockUser |-> Oneself(Invitee, "inviteeUser")]

ContactAccess ==
  [deleteContact |->
     Oneself(With(ById("contact"), "sourceUser", From("contact", <<"source">>)),
             "sourceUser")]

UserBlockAccess == [blockUser   |-> Oneself(ById("user"), "user"),
                    unblockUser |-> Oneself(ById("user"), "user")]

UserAccess == [updateUser |-> Oneself(ById("user"), "user"),
               deleteUser |-> AdminsOnly, banUser |-> AdminsOnly,
               unbanUser  |-> AdminsOnly]

UserReading == [users |-> AdminsOnly,
                user  |-> Gate(ById("user"), Or({Self("user"), Admin})),
                userPermissions |-> AdminsOnly]

Gates ==
  LET groups == {ItemAccess, ItemReading, PaymentAccess, PaymentReading, TagAccess,
                 TagReading, ItemTagAccess, ItemMergeAccess, ItemExtractAccess,
                 ItemStakeAccess, WorkspaceStakeAccess, WorkspaceAccess, SeatAccess,
                 SeatPermissionAccess, WorkspaceInviteAccess, ContactInviteAccess,
                 ContactAccess, UserBlockAccess, UserAccess, UserReading}
  IN  [op \in UNION {DOMAIN g : g \in groups} |->
         (CHOOSE g \in groups : op \in DOMAIN g)[op]]

Open == "me"    \* a resolver without @Access
-------------------------------------------------------------------------------
(* What the leaves read.                                                     *)
\* executeRule and isRuleMatch call themselves on the parts of a rule; no rule of
\* a resolver is nested deeper than three "or"s and "and"s.
Opened(rules) ==
  UNION {IF rule.kind \in {"or", "and"} THEN rule.subs ELSE {rule} : rule \in rules}

Leaves(rule) == Opened(Opened(Opened({rule})))

Stored == {"userPermission", "workspaceRole", "permission"}
  \* the kinds of leaves that query the database; the others compare what the
  \* guard holds already

activeMember(table, u, w) ==
  \E i \in DOMAIN table : /\ table[i].table = "member" /\ table[i].active
                          /\ table[i].user = u /\ table[i].workspace = w

granted(u, w, p) == <<u, w, p>> \in grants

Row(k) == call.keys[k].row

(* The leaves that ask the database nothing.                                 *)
UserRole(leaf)       == call.user.role = leaf.role
UserSelf(leaf)       == call.user.id = Row(leaf.key).id
WorkspaceOwner(leaf) == Row(leaf.key).owner = call.user.id

isLeafMatch(leaf) ==
  CASE leaf.kind = "role"  -> UserRole(leaf)
    [] leaf.kind = "self"  -> UserSelf(leaf)
    [] leaf.kind = "owner" -> WorkspaceOwner(leaf)
    [] OTHER               -> call.leaves[leaf] = "yes"

Combined(rule, Match(_)) ==
  CASE rule.kind = "or"  -> \E s \in rule.subs : Match(s)
    [] rule.kind = "and" -> \A s \in rule.subs : Match(s)
    [] OTHER             -> isLeafMatch(rule)

isRuleMatch(rule) ==
  Combined(rule, LAMBDA part : Combined(part, LAMBDA piece : Combined(piece, isLeafMatch)))
-------------------------------------------------------------------------------
(* What a caller is entitled to, independently of how the guard finds out.   *)
Find(table, id) == IF id \in DOMAIN table THEN table[id] ELSE NoRow

\* From a row on to the next; no key has more than two pipes.
Onward(row, id, f) ==
  IF f = "id" THEN Find(rows, id) ELSE IF row = NoRow THEN NoRow ELSE Find(rows, row[f])

Follow(start, id, pipes) ==
  LET first == Onward(start, id, pipes[1])
  IN  IF Len(pipes) = 1 THEN first ELSE Onward(first, id, pipes[2])

Reach(infer, args, k) ==
  LET e == infer[k]
  IN  IF e.arg THEN Follow(NoRow, args[e.from], e.pipes)
      ELSE Follow(Find(rows, args[infer[e.from].from]), 0, e.pipes)

Places(infer, args) ==
  {r \in {Reach(infer, args, k) : k \in DOMAIN infer} : r # NoRow /\ r.table = "workspace"}

People(infer, args) ==
  {r \in {Reach(infer, args, k) : k \in DOMAIN infer} : r # NoRow /\ r.table = "user"}

PermissionsOf(rule) == {l.permission : l \in {x \in Leaves(rule) : x.kind = "permission"}}

Reads  == DOMAIN ItemReading \cup DOMAIN PaymentReading \cup DOMAIN TagReading

(* Entitled to op: in every place the arguments lead to, its owner, or one   *)
(* with a seat (and, to change anything, the permission) there; acting for   *)
(* nobody but oneself; administrators always.  A test stands for each        *)
(* reading of "with a seat" and "with the permission": now, or ever.         *)
EntitledBy(op, user, places, people, Seated(_), Holds(_, _)) ==
  LET perms == PermissionsOf(Gates[op].rule)
      InPlace(w) == \/ w.owner = user.id
                    \/ op \in Reads /\ Seated(w.id)
                    \/ perms # {} /\ Seated(w.id) /\ \A p \in perms : Holds(w.id, p)
      Acting == \A person \in people : person.id = user.id
      Leaf(kind) == \E l \in Leaves(Gates[op].rule) : l.kind = kind
  IN  \/ user.role = "ADMIN"
      \/ op = "cancelWorkspaceInvite" /\ (Acting \/ \A w \in places : w.owner = user.id)
      \/ /\ op # "cancelWorkspaceInvite"
         /\ op \notin {"deleteUser", "banUser", "unbanUser", "users", "userPermissions"}
         /\ \A w \in places : InPlace(w)
         /\ Acting
         /\ Leaf("userPermission") => user.id \in trusted
-------------------------------------------------------------------------------
NoCall == [state |-> "idle"]
NoSight == [seats |-> {}, grants |-> {}, lapsed |-> FALSE, changes |-> 0]

Init ==
  /\ \E active \in [{i \in DOMAIN Rows : Rows[i].table = "member"} -> BOOLEAN] :
       rows = [i \in DOMAIN Rows |->
                 IF i \in DOMAIN active THEN [Rows[i] EXCEPT !.active = active[i]]
                 ELSE Rows[i]]
  /\ trusted \in {{}, {i \in DOMAIN Rows : Rows[i].table = "user"}}
  /\ grants = {}
  /\ call = NoCall
  /\ seen = NoSight

Gated == call.state = "checking"

(* The history: seats and permissions the caller had at some moment, and     *)
(* whether there was one at which it was not entitled.                       *)
Observe(changes) ==
  IF call'.state # "checking" THEN seen' = seen
  ELSE LET u == call'.user.id
           seats == {w \in {p.id : p \in call'.places} : activeMember(rows', u, w)}
           mine == {g \in grants' : g[1] = u}
       IN  seen' = [seats   |-> seen.seats \cup seats,
                    grants  |-> seen.grants \cup mine,
                    lapsed  |-> \/ seen.lapsed
                                \/ ~EntitledBy(call'.op, call'.user, call'.places,
                                     call'.people, LAMBDA w : w \in seats,
                                     LAMBDA w, p : <<u, w, p>> \in mine),
                    changes |-> seen.changes + changes]

(* A request arrives at the guard.  What the caller may do beforehand is     *)
(* any set of the permissions the rule asks about.                           *)
Request(op, user, args) ==
  /\ call = NoCall
  /\ call' = [state |-> "checking", op |-> op, user |-> user, args |-> args,
              places |-> Places(Gates[op].infer, args),
              people |-> People(Gates[op].infer, args),
              keys |-> [k \in DOMAIN Gates[op].infer |->
                          [row |-> NoRow, left |-> Gates[op].infer[k].pipes]],
              leaves |-> [l \in {x \in Leaves(Gates[op].rule) : x.kind \in Stored}
                            |-> "open"]]
  /\ grants' \in SUBSET ({user.id} \X {w.id : w \in call'.places}
                           \X PermissionsOf(Gates[op].rule))
  /\ UNCHANGED <<rows, trusted>>
  /\ Observe(0)

Answer(verdict) ==
  /\ call' = [state |-> verdict, op |-> call.op, user |-> call.user,
              places |-> call.places, people |-> call.people]
  /\ UNCHANGED <<rows, trusted, grants, seen>>

(* canActivate before any rule: resolvers without @Access are open to all,   *)
(* the others closed to a request without a user.                            *)
RequestOpen(user) ==
  /\ call = NoCall
  /\ call' = [state |-> "allowed", op |-> Open, user |-> user]
  /\ UNCHANGED <<rows, trusted, grants, seen>>

RequestSignedOut(op) ==
  /\ call = NoCall
  /\ call' = [state |-> "refused", op |-> op, user |-> Nobody]
  /\ UNCHANGED <<rows, trusted, grants, seen>>

(* The value the pipes of key k continue from.                               *)
Source(k) ==
  LET e == Gates[call.op].infer[k]
  IN  IF e.arg \/ Row(k) # NoRow THEN Row(k) ELSE Row(e.from)

Ready(k) ==
  LET e == Gates[call.op].infer[k]
  IN  call.keys[k].left # <<>> /\ (~e.arg => call.keys[e.from].left = <<>>)

(* resolveInferredEntities: one pipe of one key; the keys run side by side   *)
(* and one that builds on another waits for it.                              *)
Pipe(k) ==
  LET left == call.keys[k].left
      id   == IF Head(left) = "id" THEN call.args[Gates[call.op].infer[k].from]
              ELSE Source(k)[Head(left)]
  IN  /\ Gated /\ Ready(k)
      /\ IF id \in DOMAIN rows
         THEN /\ call' = [call EXCEPT !.keys[k] = [row |-> rows[id], left |-> Tail(left)]]
              /\ UNCHANGED <<rows, trusted, grants>>
              /\ Observe(0)
         ELSE Answer("notFound")

Inferred == \A k \in DOMAIN call.keys : call.keys[k].left = <<>>

YesNo(b) == IF b THEN "yes" ELSE "no"

Decide(leaf, answer) ==
  /\ call' = [call EXCEPT !.leaves[leaf] = answer]
  /\ UNCHANGED <<rows, trusted, grants>>
  /\ Observe(0)

Asking(leaf, kind, at) ==
  Gated /\ Inferred /\ leaf.kind = kind /\ call.leaves[leaf] = at

UserPermission(leaf) ==
  Asking(leaf, "userPermission", "open") /\ Decide(leaf, YesNo(call.user.id \in trusted))

\* mutant: an owner needs a seat like everybody else
UserToWorkspaceSeated(leaf) ==
  /\ Asking(leaf, "workspaceRole", "open")
  /\ Decide(leaf, YesNo(activeMember(rows, call.user.id, Row(leaf.key).id)))

UserToWorkspace(leaf) ==
  /\ Asking(leaf, "workspaceRole", "open")
  /\ Decide(leaf, YesNo(\/ Row(leaf.key).owner = call.user.id
                        \/ activeMember(rows, call.user.id, Row(leaf.key).id)))

\* mutant: removedAt is not asked about
WorkspaceSeatEver(leaf) ==
  /\ Asking(leaf, "permission", "open")
  /\ Decide(leaf, IF \E i \in DOMAIN rows : /\ rows[i].table = "member"
                                           /\ rows[i].user = call.user.id
                                           /\ rows[i].workspace = Row(leaf.key).id
                  THEN "seated" ELSE "no")

(* WorkspacePermissionAccessStrategy: the seat first, then the grants.       *)
WorkspaceSeat(leaf) ==
  /\ Asking(leaf, "permission", "open")
  /\ Decide(leaf, IF activeMember(rows, call.user.id, Row(leaf.key).id) THEN "seated" ELSE "no")

WorkspaceGrants(leaf) ==
  /\ Asking(leaf, "permission", "seated")
  /\ Decide(leaf, YesNo(granted(call.user.id, Row(leaf.key).id, leaf.permission)))

Verdict ==
  /\ Gated /\ Inferred
  /\ \A l \in DOMAIN call.leaves : call.leaves[l] \in {"yes", "no"}
  /\ Answer(IF isRuleMatch(Gates[call.op].rule) THEN "allowed" ELSE "refused")

Finish ==
  /\ call.state \in {"allowed", "refused", "notFound"}
  /\ call' = NoCall /\ seen' = NoSight /\ grants' = {}
  /\ UNCHANGED <<rows, trusted>>
-------------------------------------------------------------------------------
(* What others do meanwhile, each in a transaction of its own.               *)
Meanwhile == Gated /\ seen.changes < MaxChanges

Named(w) == w \in {p.id : p \in call.places} /\ w \in DOMAIN rows

SeatTaken(i) ==
  /\ Meanwhile
  /\ i \in DOMAIN rows /\ rows[i].table = "member" /\ ~rows[i].active
  /\ rows[i].user = call.user.id /\ Named(rows[i].workspace)
  /\ rows' = [rows EXCEPT ![i].active = TRUE]
  /\ UNCHANGED <<trusted, grants, call>>
  /\ Observe(1)

SeatLost(i) ==
  /\ Meanwhile
  /\ i \in DOMAIN rows /\ rows[i].table = "member" /\ rows[i].active
  /\ rows[i].user = call.user.id /\ Named(rows[i].workspace)
  /\ rows' = [rows EXCEPT ![i].active = FALSE]
  /\ grants' = {g \in grants : g[1] # rows[i].user \/ g[2] # rows[i].workspace}
  /\ UNCHANGED <<trusted, call>>
  /\ Observe(1)

Granted(w, p) ==
  /\ Meanwhile /\ Named(w) /\ ~granted(call.user.id, w, p)
  /\ grants' = grants \cup {<<call.user.id, w, p>>}
  /\ UNCHANGED <<rows, trusted, call>>
  /\ Observe(1)

Revoked(w, p) ==
  /\ Meanwhile /\ Named(w) /\ granted(call.user.id, w, p)
  /\ grants' = grants \ {<<call.user.id, w, p>>}
  /\ UNCHANGED <<rows, trusted, call>>
  /\ Observe(1)

(* A merge moves the payments of one item to another and deletes the first.  *)
ItemMerged(i, host) ==
  /\ Meanwhile
  /\ {i, host} \subseteq DOMAIN rows /\ i # host
  /\ rows[i].table = "item" /\ rows[host].table = "item"
  /\ rows[i].workspace = rows[host].workspace /\ Named(rows[i].workspace)
  /\ rows' = [r \in DOMAIN rows \ {i} |->
                IF rows[r].table = "payment" /\ rows[r].item = i
                THEN [rows[r] EXCEPT !.item = host] ELSE rows[r]]
  /\ UNCHANGED <<trusted, grants, call>>
  /\ Observe(1)

Perms == IF Gated THEN PermissionsOf(Gates[call.op].rule) ELSE {}

ArgsFor(op) ==
  LET infer == Gates[op].infer
      names == {infer[k].from : k \in {x \in DOMAIN infer : infer[x].arg}}
      Sort(a) == CASE a = "merging" -> "item" [] OTHER -> a
  IN  {f \in [names -> DOMAIN Rows] : \A a \in names : Rows[f[a]].table = Sort(a)}

Next ==
  \/ \E u \in Callers \ {Nobody}, op \in DOMAIN Gates :
       \E args \in ArgsFor(op) : Request(op, Rows[u], args)
  \/ \E u \in Callers : RequestOpen(u)
  \/ \E op \in DOMAIN Gates : RequestSignedOut(op)
  \/ \E k \in (IF Gated THEN DOMAIN call.keys ELSE {}) : Pipe(k)
  \/ \E l \in (IF Gated THEN DOMAIN call.leaves ELSE {}) :
       \/ UserPermission(l) \/ UserToWorkspace(l)
       \/ WorkspaceSeat(l) \/ WorkspaceGrants(l)
  \/ Verdict \/ Finish
  \/ \E i \in DOMAIN Rows : SeatTaken(i) \/ SeatLost(i)
  \/ \E w \in DOMAIN Rows, p \in Perms : Granted(w, p) \/ Revoked(w, p)
  \/ \E i, host \in DOMAIN Rows : ItemMerged(i, host)

Spec == Init /\ [][Next]_vars
-------------------------------------------------------------------------------
(* Whoever passes the guard was entitled, as far as separate reads can tell: *)
(* in every workspace the arguments lead to it was the owner, or had a seat  *)
(* there at some moment of the check and each permission asked for at some   *)
(* moment of it; and it acts for itself.  (isRuleMatch and the strategies.)  *)
AllowedWereEntitled ==
  call.state = "allowed" /\ call.op # Open =>
    EntitledBy(call.op, call.user, call.places, call.people,
               LAMBDA w : w \in seen.seats,
               LAMBDA w, p : <<call.user.id, w, p>> \in seen.grants)

(* Nobody entitled throughout the check is turned away, whatever seats and   *)
(* permissions others gain and lose and wherever a merge moves the payment   *)
(* meanwhile.                                                                *)
RefusedHadLapsed ==
  call.state = "refused" /\ call.user # Nobody => seen.lapsed
===============================================================================
