------------------------------ MODULE AccessProof ------------------------------
(***************************************************************************)
(* Theorems about AccessRules for any database whose foreign keys hold,    *)
(* any callers and any number of changes during a check.                   *)
(*                                                                         *)
(* Every gate is of one of ten kinds (Kinds): what its rule asks and to    *)
(* which workspaces and users its keys lead.  RowsOK is what others leave  *)
(* of the rows.  CheckOK is about the check under way: how far each key    *)
(* has come and that it ends at the row the arguments lead to (KeysOK),    *)
(* that these are the places and people the history speaks of (PlacesOK),  *)
(* that what holds now was seen (SightOK), and what each answer of a leaf  *)
(* tells of it (LeavesOK).  At the verdict each kind is settled apart.     *)
(***************************************************************************)
EXTENDS AccessRules, TLAPS

-------------------------------------------------------------------------------
(* The gates.                                                                *)

\* The table of the row an argument names.
Sort(a) == IF a = "merging" THEN "item" ELSE a

\* What a field of a row of a table refers to.
Fields ==
  {<<"item", "workspace", "workspace">>, <<"tag", "workspace", "workspace">>,
   <<"member", "workspace", "workspace">>, <<"invite", "workspace", "workspace">>,
   <<"member", "user", "user">>, <<"invite", "invitee", "user">>,
   <<"invite", "inviter", "user">>, <<"contact", "source", "user">>}

\* How key k of infer finds its row: the row an argument a names; the workspace of
\* that row; a row to which that of another key j, named by a, refers; or the
\* workspace of a payment.
Looks(infer, k, a) ==
  infer[k] = Arg(a, <<"id">>)
LooksUp(infer, k, a) ==
  infer[k] = Arg(a, <<"id", "workspace">>) /\ Sort(a) \in {"item", "tag"}
Refers(infer, k, j, a, f, t) ==
  /\ j \in DOMAIN infer /\ infer[j] = Arg(a, <<"id">>)
  /\ infer[k] = From(j, <<f>>) /\ <<Sort(a), f, t>> \in Fields
RefersOn(infer, k, j) ==
  /\ j \in DOMAIN infer /\ infer[j] = Arg("payment", <<"id">>)
  /\ infer[k] = From(j, <<"item", "workspace">>)

\* The table key k ends in.
EndsIn(infer, k, t) ==
  \/ \E a : Looks(infer, k, a) /\ t = Sort(a)
  \/ \E a : LooksUp(infer, k, a) /\ t = "workspace"
  \/ \E j, a, f : Refers(infer, k, j, a, f, t)
  \/ \E j : RefersOn(infer, k, j) /\ t = "workspace"

\* The keys of infer that lead to workspaces are ps, those to users us.
Leads(infer, ps, us) ==
  \A k \in DOMAIN infer :
    \E t : /\ EndsIn(infer, k, t)
           /\ t = "workspace" <=> k \in ps
           /\ t = "user" <=> k \in us

Gathers(infer, ps, us) == ps \cup us \subseteq DOMAIN infer /\ Leads(infer, ps, us)

LEMMA GatheringNothing == Gathers(<<>>, {}, {})
BY DEF Gathers, Leads

LEMMA GatheringById ==
  ASSUME NEW k, Sort(k) = k
  PROVE  Gathers(ById(k), IF k = "workspace" THEN {k} ELSE {}, IF k = "user" THEN {k} ELSE {})
<1>1. DOMAIN ById(k) = {k} /\ ById(k)[k] = Arg(k, <<"id">>)
  BY DEF ById
<1>2. EndsIn(ById(k), k, k)
  BY <1>1 DEF EndsIn, Looks
<1>3. QED
  BY <1>1, <1>2 DEF Gathers, Leads

LEMMA GatheringUser ==
  ASSUME NEW k
  PROVE  Gathers([x \in {k} |-> Arg("user", <<"id">>)], {}, {k})
<1> DEFINE infer == [x \in {k} |-> Arg("user", <<"id">>)]
<1>1. DOMAIN infer = {k} /\ infer[k] = Arg("user", <<"id">>)
  OBVIOUS
<1> HIDE DEF infer
<1>2. EndsIn(infer, k, "user")
  BY <1>1 DEF EndsIn, Looks, Sort
<1>3. Gathers(infer, {}, {k})
  BY <1>1, <1>2 DEF Gathers, Leads
<1>4. QED
  BY <1>3 DEF infer

\* A key put to infer changes nothing of the others.
LEMMA GatheringMore ==
  ASSUME NEW infer, NEW ps, NEW us, Gathers(infer, ps, us),
         NEW k, k \notin DOMAIN infer, NEW entry, NEW t \in {"workspace", "user"},
         EndsIn(With(infer, k, entry), k, t)
  PROVE  Gathers(With(infer, k, entry), IF t = "workspace" THEN ps \cup {k} ELSE ps,
                 IF t = "user" THEN us \cup {k} ELSE us)
<1> DEFINE more == With(infer, k, entry)
<1>1. /\ DOMAIN more = DOMAIN infer \cup {k} /\ more[k] = entry
      /\ \A x \in DOMAIN infer : more[x] = infer[x]
  BY DEF With
<1>2. ASSUME NEW x \in DOMAIN infer, NEW u, EndsIn(infer, x, u)
      PROVE  EndsIn(more, x, u)
  <2> HIDE DEF more
  <2>1. QED
    BY <1>1, <1>2 DEF EndsIn, Looks, LooksUp, Refers, RefersOn
<1>3. EndsIn(more, k, t)
  OBVIOUS
<1> HIDE DEF more
<1>4. Gathers(more, IF t = "workspace" THEN ps \cup {k} ELSE ps,
              IF t = "user" THEN us \cup {k} ELSE us)
  BY <1>1, <1>2, <1>3 DEF Gathers, Leads
<1>5. QED
  BY <1>4 DEF more

AdminOps == {"deleteUser", "banUser", "unbanUser", "users", "userPermissions"}
Plain(op) == op \notin AdminOps \cup {"cancelWorkspaceInvite"}

\* The kinds of gates: what is asked of the caller, and where.
Works(op, g) ==
  /\ \E p : g.rule = Or({OwnerOrMay(p, "workspace"), Admin})
  /\ Gathers(g.infer, {"workspace"}, {}) /\ Plain(op) /\ op \notin Reads
WorksTwice(op, g) ==
  /\ \E p : g.rule = Or({Admin, And({OwnerOrMay(p, "first"), OwnerOrMay(p, "second")})})
  /\ Gathers(g.infer, {"first", "second"}, {}) /\ Plain(op) /\ op \notin Reads
Shows(op, g) ==
  /\ g.rule = Or({Member("workspace"), Admin})
  /\ Gathers(g.infer, {"workspace"}, {}) /\ Plain(op) /\ op \in Reads
Owns(op, g) ==
  /\ g.rule = Or({Owner("workspace"), Admin})
  /\ Gathers(g.infer, {"workspace"}, {}) /\ Plain(op) /\ op \notin Reads
Acts(op, g) ==
  /\ \E k : /\ g.rule = Or({And({Self(k), Trusted}), Admin})
            /\ Gathers(g.infer, {}, {k})
  /\ Plain(op) /\ op \notin Reads
ActsFreely(op, g) ==
  /\ \E k : g.rule = Or({Self(k), Admin}) /\ Gathers(g.infer, {}, {k})
  /\ Plain(op) /\ op \notin Reads
Administers(op, g) == g = AdminsOnly /\ op \in AdminOps
Founds(op, g) == g = Gate(<<>>, Or({Trusted, Admin})) /\ Plain(op) /\ op \notin Reads
Invites(op, g) ==
  /\ \E p : g.rule = Or({And({OwnerOrMay(p, "workspace"), Self("inviterUser")}), Admin})
  /\ Gathers(g.infer, {"workspace"}, {"inviterUser"}) /\ Plain(op) /\ op \notin Reads
Cancels(op, g) ==
  /\ g.rule = Or({Owner("workspace"), Self("inviter"), Admin})
  /\ Gathers(g.infer, {"workspace"}, {"inviter"}) /\ op = "cancelWorkspaceInvite"

Kinds(op, g) ==
  \/ Works(op, g) \/ WorksTwice(op, g) \/ Shows(op, g) \/ Owns(op, g) \/ Acts(op, g)
  \/ ActsFreely(op, g) \/ Administers(op, g) \/ Founds(op, g) \/ Invites(op, g) \/ Cancels(op, g)

ReadOps == {"item", "items", "payment", "payments", "tag", "tags"}

LEMMA ReadsAre == Reads = ReadOps
BY DEF Reads, ReadOps, ItemReading, PaymentReading, TagReading

LEMMA GatheringWorkspace == Gathers(ById("workspace"), {"workspace"}, {})
<1>1. Sort("workspace") = "workspace"
  BY DEF Sort
<1>2. QED
  BY <1>1, GatheringById

LEMMA GatheringWorkspaceOf ==
  ASSUME NEW k \in {"item", "tag", "member", "invite"}
  PROVE  Gathers(WorkspaceOf(k), {"workspace"}, {})
<1>1. Sort(k) = k
  BY DEF Sort
<1>2. Gathers(ById(k), {}, {})
  BY <1>1, GatheringById
<1> DEFINE entry == From(k, <<"workspace">>)
<1>3. DOMAIN ById(k) = {k} /\ ById(k)[k] = Arg(k, <<"id">>)
  BY DEF ById
<1>4. Refers(WorkspaceOf(k), "workspace", k, k, "workspace", "workspace")
  BY <1>1, <1>3 DEF Refers, Fields, WorkspaceOf, With
<1>5. EndsIn(With(ById(k), "workspace", entry), "workspace", "workspace")
  BY <1>4 DEF EndsIn, WorkspaceOf
<1> HIDE DEF entry
<1>6. Gathers(With(ById(k), "workspace", entry), {} \cup {"workspace"}, {})
  BY <1>2, <1>3, <1>5, GatheringMore
<1>7. QED
  BY <1>6 DEF WorkspaceOf, entry

LEMMA GatheringWorkspaceByPay == Gathers(WorkspaceByPay, {"workspace"}, {})
<1> DEFINE entry == From("payment", <<"item", "workspace">>)
           infer == ById("payment")
<1>1. Sort("payment") = "payment"
  BY DEF Sort
<1>2. Gathers(infer, {}, {})
  BY <1>1, GatheringById
<1>3. DOMAIN infer = {"payment"} /\ infer["payment"] = Arg("payment", <<"id">>)
  BY DEF ById
<1>4. RefersOn(WorkspaceByPay, "workspace", "payment")
  BY <1>3 DEF RefersOn, WorkspaceByPay, With
<1>5. EndsIn(With(infer, "workspace", entry), "workspace", "workspace")
  BY <1>4 DEF EndsIn, WorkspaceByPay
<1> HIDE DEF entry, infer
<1>6. Gathers(With(infer, "workspace", entry), {} \cup {"workspace"}, {})
  BY <1>2, <1>3, <1>5, GatheringMore
<1>7. QED
  BY <1>6 DEF WorkspaceByPay, entry, infer

\* The user that a row refers to.
LEMMA GatheringUserOf ==
  ASSUME NEW infer, NEW ps, Gathers(infer, ps, {}), NEW j \in DOMAIN infer,
         infer[j] = Arg(j, <<"id">>), NEW f, <<j, f, "user">> \in Fields,
         NEW k, k \notin DOMAIN infer
  PROVE  Gathers(With(infer, k, From(j, <<f>>)), ps, {k})
<1> DEFINE entry == From(j, <<f>>)
           more == With(infer, k, entry)
<1>1. more[k] = entry /\ more[j] = Arg(j, <<"id">>) /\ j \in DOMAIN more
  BY DEF With
<1>2. Sort(j) = j
  BY DEF Sort, Fields
<1> HIDE DEF more
<1>3. Refers(more, k, j, j, f, "user")
  BY <1>1, <1>2 DEF Refers
<1>4. EndsIn(more, k, "user")
  BY <1>3 DEF EndsIn
<1> USE DEF more
<1> HIDE DEF entry
<1>5. Gathers(With(infer, k, entry), ps, {} \cup {k})
  BY <1>4, GatheringMore
<1>6. QED
  BY <1>5 DEF entry

LEMMA MayInItWorks ==
  ASSUME NEW op, Plain(op), op \notin Reads, NEW infer, Gathers(infer, {"workspace"}, {}), NEW p
  PROVE  Kinds(op, MayInIt(infer, p))
BY DEF Kinds, Works, MayInIt, Gate

LEMMA MembersReadShows ==
  ASSUME NEW op, Plain(op), op \in Reads, NEW infer, Gathers(infer, {"workspace"}, {})
  PROVE  Kinds(op, MembersRead(infer))
BY DEF Kinds, Shows, MembersRead, Gate

LEMMA OneselfActs ==
  ASSUME NEW op, Plain(op), op \notin Reads, NEW infer, NEW k, Gathers(infer, {}, {k})
  PROVE  Kinds(op, Oneself(infer, k))
BY DEF Kinds, Acts, Oneself, Gate

LEMMA BothSidesWork ==
  ASSUME NEW op, Plain(op), op \notin Reads, NEW a, NEW b,
         Sort(a) \in {"item", "tag"}, Sort(b) \in {"item", "tag"}, NEW p
  PROVE  Kinds(op, BothSides(a, b, p))
<1> DEFINE infer == BothSides(a, b, p).infer
<1>1. /\ DOMAIN infer = {"first", "second"}
      /\ infer["first"] = Arg(a, <<"id", "workspace">>)
      /\ infer["second"] = Arg(b, <<"id", "workspace">>)
  BY DEF BothSides, Gate
<1>2. BothSides(a, b, p).rule
        = Or({Admin, And({OwnerOrMay(p, "first"), OwnerOrMay(p, "second")})})
  BY DEF BothSides, Gate
<1> HIDE DEF infer
<1>3. EndsIn(infer, "first", "workspace") /\ EndsIn(infer, "second", "workspace")
  BY <1>1 DEF EndsIn, LooksUp
<1>4. Gathers(infer, {"first", "second"}, {})
  BY <1>1, <1>3 DEF Gathers, Leads
<1>5. QED
  BY <1>2, <1>4 DEF Kinds, WorksTwice, infer

LEMMA GatheringInvitee == Gathers(Invitee, {}, {"inviteeUser"})
<1>1. Sort("invite") = "invite"
  BY DEF Sort
<1>2. Gathers(ById("invite"), {}, {})
  BY <1>1, GatheringById
<1>3. DOMAIN ById("invite") = {"invite"} /\ ById("invite")["invite"] = Arg("invite", <<"id">>)
  BY DEF ById
<1>4. <<"invite", "invitee", "user">> \in Fields
  BY DEF Fields
<1>5. QED
  BY <1>2, <1>3, <1>4, GatheringUserOf DEF Invitee

LEMMA GatheringOneUser == Gathers(ById("user"), {}, {"user"})
<1>1. Sort("user") = "user"
  BY DEF Sort
<1>2. QED
  BY <1>1, GatheringById

-------------------------------------------------------------------------------
(* Every gate is of one of the kinds.                                        *)

LEMMA ItemGates ==
  /\ \A op \in DOMAIN ItemAccess : Kinds(op, ItemAccess[op])
  /\ \A op \in DOMAIN ItemReading : Kinds(op, ItemReading[op])
  /\ \A op \in DOMAIN ItemExtractAccess : Kinds(op, ItemExtractAccess[op])
  /\ \A op \in DOMAIN ItemStakeAccess : Kinds(op, ItemStakeAccess[op])
<1> DEFINE extract == [workspace |-> Arg("item", <<"id", "workspace">>)]
<1>1. EndsIn(extract, "workspace", "workspace")
  BY DEF EndsIn, LooksUp, Sort
<1>2. DOMAIN extract = {"workspace"}
  OBVIOUS
<1> HIDE DEF extract
<1>3. Gathers(extract, {"workspace"}, {})
  BY <1>1, <1>2 DEF Gathers, Leads
<1>4. \A op \in DOMAIN ItemAccess : Plain(op) /\ op \notin Reads
  BY ReadsAre DEF ReadOps, ItemAccess, Plain, AdminOps
<1>5. \A op \in DOMAIN ItemReading : Plain(op) /\ op \in Reads
  BY ReadsAre DEF ReadOps, ItemReading, Plain, AdminOps
<1>6. \A op \in DOMAIN ItemExtractAccess \cup DOMAIN ItemStakeAccess : Plain(op) /\ op \notin Reads
  BY ReadsAre DEF ReadOps, ItemExtractAccess, ItemStakeAccess, Plain, AdminOps
<1>7. \A op \in DOMAIN ItemAccess : Kinds(op, ItemAccess[op])
  BY <1>4, MayInItWorks, GatheringWorkspace, GatheringWorkspaceOf DEF ItemAccess
<1>8. \A op \in DOMAIN ItemReading : Kinds(op, ItemReading[op])
  BY <1>5, MembersReadShows, GatheringWorkspace, GatheringWorkspaceOf DEF ItemReading
<1>9. \A op \in DOMAIN ItemExtractAccess : Kinds(op, ItemExtractAccess[op])
  BY <1>3, <1>6, MayInItWorks DEF ItemExtractAccess, extract
<1>10. \A op \in DOMAIN ItemStakeAccess : Kinds(op, ItemStakeAccess[op])
  BY <1>6, MayInItWorks, GatheringWorkspaceOf DEF ItemStakeAccess
<1>11. QED
  BY <1>7, <1>8, <1>9, <1>10

LEMMA PaymentAndTagGates ==
  /\ \A op \in DOMAIN PaymentAccess : Kinds(op, PaymentAccess[op])
  /\ \A op \in DOMAIN PaymentReading : Kinds(op, PaymentReading[op])
  /\ \A op \in DOMAIN TagAccess : Kinds(op, TagAccess[op])
  /\ \A op \in DOMAIN TagReading : Kinds(op, TagReading[op])
<1>1. \A op \in DOMAIN PaymentAccess \cup DOMAIN TagAccess : Plain(op) /\ op \notin Reads
  BY ReadsAre DEF ReadOps, PaymentAccess, TagAccess, Plain, AdminOps
<1>2. \A op \in DOMAIN PaymentReading \cup DOMAIN TagReading : Plain(op) /\ op \in Reads
  BY ReadsAre DEF ReadOps, PaymentReading, TagReading, Plain, AdminOps
<1>3. \A op \in DOMAIN PaymentAccess : Kinds(op, PaymentAccess[op])
  BY <1>1, MayInItWorks, GatheringWorkspaceByPay, GatheringWorkspaceOf DEF PaymentAccess
<1>4. \A op \in DOMAIN PaymentReading : Kinds(op, PaymentReading[op])
  BY <1>2, MembersReadShows, GatheringWorkspaceByPay, GatheringWorkspaceOf DEF PaymentReading
<1>5. \A op \in DOMAIN TagAccess : Kinds(op, TagAccess[op])
  BY <1>1, MayInItWorks, GatheringWorkspace, GatheringWorkspaceOf DEF TagAccess
<1>6. \A op \in DOMAIN TagReading : Kinds(op, TagReading[op])
  BY <1>2, MembersReadShows, GatheringWorkspace, GatheringWorkspaceOf DEF TagReading
<1>7. QED
  BY <1>3, <1>4, <1>5, <1>6

LEMMA TwoSidedGates ==
  /\ \A op \in DOMAIN ItemTagAccess : Kinds(op, ItemTagAccess[op])
  /\ \A op \in DOMAIN ItemMergeAccess : Kinds(op, ItemMergeAccess[op])
<1>1. \A op \in DOMAIN ItemTagAccess \cup DOMAIN ItemMergeAccess : Plain(op) /\ op \notin Reads
  BY ReadsAre DEF ReadOps, ItemTagAccess, ItemMergeAccess, Plain, AdminOps
<1>2. /\ Sort("item") \in {"item", "tag"} /\ Sort("tag") \in {"item", "tag"}
      /\ Sort("merging") \in {"item", "tag"}
  BY DEF Sort
<1>3. \A op \in DOMAIN ItemTagAccess : Kinds(op, ItemTagAccess[op])
  BY <1>1, <1>2, BothSidesWork DEF ItemTagAccess
<1>4. \A op \in DOMAIN ItemMergeAccess : Kinds(op, ItemMergeAccess[op])
  BY <1>1, <1>2, BothSidesWork DEF ItemMergeAccess
<1>5. QED
  BY <1>3, <1>4

LEMMA WorkspaceGates ==
  /\ \A op \in DOMAIN WorkspaceStakeAccess : Kinds(op, WorkspaceStakeAccess[op])
  /\ \A op \in DOMAIN WorkspaceAccess : Kinds(op, WorkspaceAccess[op])
<1>1. \A op \in DOMAIN WorkspaceStakeAccess \cup DOMAIN WorkspaceAccess :
          Plain(op) /\ op \notin Reads
  BY ReadsAre DEF ReadOps, WorkspaceStakeAccess, WorkspaceAccess, Plain, AdminOps
<1>2. \A op \in DOMAIN WorkspaceStakeAccess : Kinds(op, WorkspaceStakeAccess[op])
  BY <1>1, MayInItWorks, GatheringWorkspace DEF WorkspaceStakeAccess
<1>3. Kinds("createWorkspace", WorkspaceAccess.createWorkspace)
  BY <1>1 DEF Kinds, Founds, WorkspaceAccess
<1>4. ASSUME NEW op \in {"updateWorkspace", "deleteWorkspace"}
      PROVE  Kinds(op, OwnersOnly(ById("workspace")))
  <2>1. Plain(op) /\ op \notin Reads
    BY <1>1 DEF WorkspaceAccess
  <2>2. QED
    BY <2>1, GatheringWorkspace DEF Kinds, Owns, OwnersOnly, Gate
<1>5. \A op \in DOMAIN WorkspaceAccess : Kinds(op, WorkspaceAccess[op])
  BY <1>3, <1>4 DEF WorkspaceAccess
<1>6. QED
  BY <1>2, <1>5

LEMMA SeatGates ==
  /\ \A op \in DOMAIN SeatAccess : Kinds(op, SeatAccess[op])
  /\ \A op \in DOMAIN SeatPermissionAccess : Kinds(op, SeatPermissionAccess[op])
<1>1. \A op \in DOMAIN SeatAccess \cup DOMAIN SeatPermissionAccess : Plain(op) /\ op \notin Reads
  BY ReadsAre DEF ReadOps, SeatAccess, SeatPermissionAccess, Plain, AdminOps
<1>2. \A op \in DOMAIN SeatPermissionAccess : Kinds(op, SeatPermissionAccess[op])
  BY <1>1, MayInItWorks, GatheringWorkspaceOf DEF SeatPermissionAccess
<1>3. Gathers(ById("member"), {}, {})
  <2>1. Sort("member") = "member"
    BY DEF Sort
  <2>2. QED
    BY <2>1, GatheringById
<1>4. DOMAIN ById("member") = {"member"} /\ ById("member")["member"] = Arg("member", <<"id">>)
  BY DEF ById
<1>5. <<"member", "user", "user">> \in Fields
  BY DEF Fields
<1>6. Gathers(With(ById("member"), "memberUser", From("member", <<"user">>)), {}, {"memberUser"})
  BY <1>3, <1>4, <1>5, GatheringUserOf
<1>7. Kinds("leaveWorkspace", SeatAccess.leaveWorkspace)
  BY <1>1, <1>6 DEF Kinds, ActsFreely, SeatAccess, Gate
<1>8. Kinds("removeWorkspaceMember", SeatAccess.removeWorkspaceMember)
  BY <1>1, MayInItWorks, GatheringWorkspaceOf DEF SeatAccess
<1>9. QED
  BY <1>2, <1>7, <1>8 DEF SeatAccess

LEMMA WorkspaceInviteGates ==
  \A op \in DOMAIN WorkspaceInviteAccess : Kinds(op, WorkspaceInviteAccess[op])
<1>1. \A op \in {"createWorkspaceInvite", "acceptWorkspaceInvite", "rejectWorkspaceInvite"} :
          Plain(op) /\ op \notin Reads
  BY ReadsAre DEF ReadOps, Plain, AdminOps
<1>2. Kinds("createWorkspaceInvite", WorkspaceInviteAccess.createWorkspaceInvite)
  <2> DEFINE entry == Arg("user", <<"id">>)
             infer == ById("workspace")
             more == With(infer, "inviterUser", entry)
  <2>1. DOMAIN infer = {"workspace"}
    BY DEF ById
  <2>2. more["inviterUser"] = Arg("user", <<"id">>)
    BY DEF With
  <2>3. Sort("user") = "user"
    BY DEF Sort
  <2> HIDE DEF more
  <2>4. EndsIn(more, "inviterUser", "user")
    BY <2>2, <2>3 DEF EndsIn, Looks
  <2>5. Gathers(infer, {"workspace"}, {})
    BY GatheringWorkspace
  <2> USE DEF more
  <2> HIDE DEF infer, entry
  <2>6. Gathers(With(infer, "inviterUser", entry), {"workspace"}, {} \cup {"inviterUser"})
    BY <2>1, <2>4, <2>5, GatheringMore
  <2>7. WorkspaceInviteAccess.createWorkspaceInvite
          = Gate(more, Or({And({OwnerOrMay("CREATE_WORKSPACE_INVITE", "workspace"),
                                Self("inviterUser")}), Admin}))
    BY DEF WorkspaceInviteAccess, infer, entry
  <2>8. Gathers(more, {"workspace"}, {"inviterUser"})
    BY <2>6
  <2> HIDE DEF more
  <2>9. QED
    BY <1>1, <2>7, <2>8 DEF Kinds, Invites, Gate
<1>3. Kinds("cancelWorkspaceInvite", WorkspaceInviteAccess.cancelWorkspaceInvite)
  <2> DEFINE infer == WorkspaceOf("invite")
  <2>1. Gathers(infer, {"workspace"}, {})
    BY GatheringWorkspaceOf
  <2>2. DOMAIN infer = {"invite", "workspace"} /\ infer["invite"] = Arg("invite", <<"id">>)
    BY DEF WorkspaceOf, With, ById
  <2>3. <<"invite", "inviter", "user">> \in Fields
    BY DEF Fields
  <2>4. WorkspaceInviteAccess.cancelWorkspaceInvite
          = Gate(With(infer, "inviter", From("invite", <<"inviter">>)),
                 Or({Owner("workspace"), Self("inviter"), Admin}))
    BY DEF WorkspaceInviteAccess
  <2> HIDE DEF infer
  <2>5. Gathers(With(infer, "inviter", From("invite", <<"inviter">>)), {"workspace"}, {"inviter"})
    BY <2>1, <2>2, <2>3, GatheringUserOf
  <2>6. QED
    BY <2>4, <2>5 DEF Kinds, Cancels, Gate
<1>4. ASSUME NEW op \in {"acceptWorkspaceInvite", "rejectWorkspaceInvite"}
      PROVE  Kinds(op, Oneself(Invitee, "inviteeUser"))
  BY <1>1, OneselfActs, GatheringInvitee
<1>5. QED
  BY <1>2, <1>3, <1>4 DEF WorkspaceInviteAccess

LEMMA ContactGates ==
  /\ \A op \in DOMAIN ContactInviteAccess : Kinds(op, ContactInviteAccess[op])
  /\ \A op \in DOMAIN ContactAccess : Kinds(op, ContactAccess[op])
  /\ \A op \in DOMAIN UserBlockAccess : Kinds(op, UserBlockAccess[op])
<1>1. \A op \in DOMAIN ContactInviteAccess \cup DOMAIN ContactAccess \cup DOMAIN UserBlockAccess :
          Plain(op) /\ op \notin Reads
  BY ReadsAre DEF ReadOps, ContactInviteAccess, ContactAccess, UserBlockAccess, Plain, AdminOps
<1>2. \A op \in DOMAIN UserBlockAccess : Kinds(op, UserBlockAccess[op])
  BY <1>1, OneselfActs, GatheringOneUser DEF UserBlockAccess
<1>3. Gathers([inviter |-> Arg("user", <<"id">>)], {}, {"inviter"})
  BY GatheringUser
<1>4. \A op \in DOMAIN ContactInviteAccess : Kinds(op, ContactInviteAccess[op])
  BY <1>1, <1>3, OneselfActs, GatheringInvitee DEF ContactInviteAccess
<1>5. Gathers(ById("contact"), {}, {})
  <2>1. Sort("contact") = "contact"
    BY DEF Sort
  <2>2. QED
    BY <2>1, GatheringById
<1>6. DOMAIN ById("contact") = {"contact"} /\ ById("contact")["contact"] = Arg("contact", <<"id">>)
  BY DEF ById
<1>7. <<"contact", "source", "user">> \in Fields
  BY DEF Fields
<1>8. Gathers(With(ById("contact"), "sourceUser", From("contact", <<"source">>)), {},
              {"sourceUser"})
  BY <1>5, <1>6, <1>7, GatheringUserOf
<1>9. \A op \in DOMAIN ContactAccess : Kinds(op, ContactAccess[op])
  BY <1>1, <1>8, OneselfActs DEF ContactAccess
<1>10. QED
  BY <1>2, <1>4, <1>9

LEMMA UserGates ==
  /\ \A op \in DOMAIN UserAccess : Kinds(op, UserAccess[op])
  /\ \A op \in DOMAIN UserReading : Kinds(op, UserReading[op])
<1>1. \A op \in {"updateUser", "user"} : Plain(op) /\ op \notin Reads
  BY ReadsAre DEF ReadOps, Plain, AdminOps
<1>2. \A op \in AdminOps : Kinds(op, AdminsOnly)
  BY DEF Kinds, Administers
<1>3. Kinds("updateUser", UserAccess.updateUser)
  BY <1>1, OneselfActs, GatheringOneUser DEF UserAccess
<1>4. Kinds("user", UserReading.user)
  BY <1>1, GatheringOneUser DEF Kinds, ActsFreely, UserReading, Gate
<1>5. QED
  BY <1>2, <1>3, <1>4 DEF UserAccess, UserReading, AdminOps

\* What the resolvers ask is of one of ten kinds.
LEMMA EveryGateHasAKind == \A op \in DOMAIN Gates : Kinds(op, Gates[op])
<1> DEFINE groups == {ItemAccess, ItemReading, PaymentAccess, PaymentReading, TagAccess,
                      TagReading, ItemTagAccess, ItemMergeAccess, ItemExtractAccess,
                      ItemStakeAccess, WorkspaceStakeAccess, WorkspaceAccess, SeatAccess,
                      SeatPermissionAccess, WorkspaceInviteAccess, ContactInviteAccess,
                      ContactAccess, UserBlockAccess, UserAccess, UserReading}
<1>1. \A g \in groups : \A op \in DOMAIN g : Kinds(op, g[op])
  BY ItemGates, PaymentAndTagGates, TwoSidedGates, WorkspaceGates, SeatGates,
     WorkspaceInviteGates, ContactGates, UserGates
<1>2. Gates = [op \in UNION {DOMAIN g : g \in groups} |->
                 (CHOOSE g \in groups : op \in DOMAIN g)[op]]
  BY DEF Gates
<1> HIDE DEF groups
<1>3. ASSUME NEW op \in DOMAIN Gates PROVE Kinds(op, Gates[op])
  <2>1. \E g \in groups : op \in DOMAIN g
    BY <1>2
  <2> DEFINE g == CHOOSE g \in groups : op \in DOMAIN g
  <2>2. g \in groups /\ op \in DOMAIN g
    BY <2>1
  <2>3. Gates[op] = g[op]
    BY <1>2
  <2>4. QED
    BY <1>1, <2>2, <2>3
<1>4. QED
  BY <1>3

-------------------------------------------------------------------------------
(* The rows, whatever others do.                                             *)

\* row is row i of the database as it is at some time: a payment may be moved to
\* another item of its workspace, and a seat be lost and taken.
OfRow(row, i) ==
  /\ row \in AnyRow /\ row.id = i /\ row.table = Rows[i].table
  /\ row.table = "payment" =>
       In("item", row.item) /\ Rows[row.item].workspace = Rows[Rows[i].item].workspace
  /\ row.table = "member" => row.user = Rows[i].user /\ row.workspace = Rows[i].workspace
  /\ row.table \notin {"payment", "member"} => row = Rows[i]

RowsOK ==
  /\ DOMAIN rows \subseteq DOMAIN Rows
  /\ \A i \in DOMAIN Rows : ~In("item", i) => i \in DOMAIN rows
  /\ \A i \in DOMAIN rows : OfRow(rows[i], i)
  /\ \A i \in DOMAIN rows : In("payment", i) => rows[i].item \in DOMAIN rows

\* The arguments name rows of the tables they are for.
ArgsOK(infer, args) ==
  \A k \in DOMAIN infer : infer[k].arg =>
    In(Sort(infer[k].from), args[infer[k].from])

\* Where key k ends.
Final(infer, args, k) ==
  LET e == infer[k]
      start == Rows[args[IF e.arg THEN e.from ELSE infer[e.from].from]]
  IN  IF Len(e.pipes) = 1
      THEN IF e.arg THEN start ELSE Rows[start[e.pipes[1]]]
      ELSE Rows[IF e.arg THEN start.workspace ELSE Rows[start.item].workspace]

LEMMA FieldsOfRows ==
  ASSUME NEW row \in AnyRow
  PROVE  /\ row.table \in {"user", "workspace", "item", "tag", "payment", "member", "invite",
                           "contact"}
         /\ row.table = "workspace" => row.owner \in DOMAIN Rows
         /\ row.table = "payment" => row.item \in DOMAIN Rows
         /\ row.table \in {"item", "tag", "member", "invite"} => row.workspace \in DOMAIN Rows
BY DEF AnyRow

LEMMA RowsOfRows ==
  ASSUME NEW i \in DOMAIN Rows
  PROVE  Rows[i] \in AnyRow /\ Rows[i].id = i /\ Rows[i] # NoRow
BY Shapes, Apart

\* What a field refers to.
LEMMA FieldsReferTo ==
  ASSUME NEW table, NEW f, NEW t, <<table, f, t>> \in Fields, NEW i, In(table, i),
         NEW row, OfRow(row, i)
  PROVE  /\ row[f] = Rows[i][f] /\ In(t, Rows[i][f]) /\ t \in {"workspace", "user"}
         /\ f \notin {"id", "item"}
<1>1. i \in DOMAIN Rows /\ Rows[i].table = table
  BY DEF In
<1>2. row[f] = Rows[i][f] /\ In(t, Rows[i][f])
  <2>1. CASE table = "item" /\ f = "workspace" /\ t = "workspace"
    BY <1>1, <2>1, References DEF OfRow
  <2>2. CASE table = "tag" /\ f = "workspace" /\ t = "workspace"
    BY <1>1, <2>2, References DEF OfRow
  <2>3. CASE table = "member" /\ f = "workspace" /\ t = "workspace"
    BY <1>1, <2>3, References DEF OfRow
  <2>4. CASE table = "invite" /\ f = "workspace" /\ t = "workspace"
    BY <1>1, <2>4, References DEF OfRow
  <2>5. CASE table = "member" /\ f = "user" /\ t = "user"
    BY <1>1, <2>5, References DEF OfRow, In
  <2>6. CASE table = "invite" /\ f = "invitee" /\ t = "user"
    BY <1>1, <2>6, References DEF OfRow, In
  <2>7. CASE table = "invite" /\ f = "inviter" /\ t = "user"
    BY <1>1, <2>7, References DEF OfRow, In
  <2>8. CASE table = "contact" /\ f = "source" /\ t = "user"
    BY <1>1, <2>8, References DEF OfRow, In
  <2>9. QED
    BY <2>1, <2>2, <2>3, <2>4, <2>5, <2>6, <2>7, <2>8 DEF Fields
<1>3. QED
  BY <1>2 DEF Fields

\* Rows of workspaces and users stay what they are.
LEMMA PlacesStay ==
  ASSUME RowsOK, NEW t \in {"workspace", "user"}, NEW i, In(t, i)
  PROVE  i \in DOMAIN rows /\ rows[i] = Rows[i]
<1>1. i \in DOMAIN Rows /\ Rows[i].table = t /\ ~In("item", i)
  BY DEF In
<1>2. i \in DOMAIN rows
  BY <1>1 DEF RowsOK
<1>3. OfRow(rows[i], i)
  BY <1>2 DEF RowsOK
<1>4. QED
  BY <1>1, <1>2, <1>3 DEF OfRow

LEMMA RowsAreRows ==
  ASSUME RowsOK, NEW i \in DOMAIN rows
  PROVE  /\ i \in DOMAIN Rows /\ rows[i] \in AnyRow /\ rows[i] # NoRow /\ OfRow(rows[i], i)
         /\ rows[i].table = Rows[i].table
BY Apart DEF RowsOK, OfRow

LEMMA FinalRows ==
  ASSUME NEW infer, NEW args, ArgsOK(infer, args), NEW k \in DOMAIN infer, NEW t,
         EndsIn(infer, k, t)
  PROVE  /\ Final(infer, args, k).id \in DOMAIN Rows
         /\ Final(infer, args, k) = Rows[Final(infer, args, k).id]
         /\ Final(infer, args, k).table = t
         /\ In(t, Final(infer, args, k).id)
<1> DEFINE e == infer[k]
           Is(i) == In(t, i) /\ Final(infer, args, k) = Rows[i]
<1>1. ASSUME NEW a, Looks(infer, k, a), t = Sort(a)
      PROVE  Is(args[a])
  <2>1. e.arg /\ e.from = a /\ Len(e.pipes) = 1
    BY <1>1 DEF Looks, Arg
  <2>2. QED
    BY <1>1, <2>1 DEF Final, ArgsOK
<1>2. ASSUME NEW a, LooksUp(infer, k, a), t = "workspace"
      PROVE  Is(Rows[args[a]].workspace)
  <2>1. e.arg /\ e.from = a /\ Len(e.pipes) = 2
    BY <1>2 DEF LooksUp, Arg
  <2>2. In(Sort(a), args[a])
    BY <2>1 DEF ArgsOK
  <2>3. In("workspace", Rows[args[a]].workspace)
    BY <1>2, <2>2, References DEF LooksUp, In
  <2>4. QED
    BY <1>2, <2>1, <2>3 DEF Final
<1>3. ASSUME NEW j, NEW a, NEW f, Refers(infer, k, j, a, f, t)
      PROVE  Is(Rows[args[a]][f])
  <2>1. /\ ~e.arg /\ e.from = j /\ Len(e.pipes) = 1 /\ e.pipes[1] = f
        /\ infer[j].arg /\ infer[j].from = a /\ j \in DOMAIN infer
    BY <1>3 DEF Refers, Arg, From
  <2>2. In(Sort(a), args[a])
    BY <2>1 DEF ArgsOK
  <2>3. In(t, Rows[args[a]][f])
    <3>1. args[a] \in DOMAIN Rows /\ Rows[args[a]].table = Sort(a)
      BY <2>2 DEF In
    <3>2. <<Sort(a), f, t>> \in Fields /\ Sort(a) \notin {"payment"}
      BY <1>3 DEF Refers, Fields
    <3>3. OfRow(Rows[args[a]], args[a])
      BY <3>1, <3>2, RowsOfRows DEF OfRow
    <3>4. QED
      BY <2>2, <3>2, <3>3, FieldsReferTo
  <2>4. QED
    BY <2>1, <2>3 DEF Final
<1>4. ASSUME NEW j, RefersOn(infer, k, j), t = "workspace"
      PROVE  Is(Rows[Rows[args["payment"]].item].workspace)
  <2>1. /\ ~e.arg /\ e.from = j /\ Len(e.pipes) = 2
        /\ infer[j].arg /\ infer[j].from = "payment" /\ j \in DOMAIN infer
    BY <1>4 DEF RefersOn, Arg, From
  <2>2. In("payment", args["payment"])
    BY <2>1 DEF ArgsOK, Sort
  <2>3. In("item", Rows[args["payment"]].item)
    BY <2>2, References DEF In
  <2>4. In("workspace", Rows[Rows[args["payment"]].item].workspace)
    BY <2>3, References DEF In
  <2>5. QED
    BY <1>4, <2>1, <2>4 DEF Final
<1>5. ASSUME NEW i, Is(i)
      PROVE  /\ Final(infer, args, k).id = i /\ i \in DOMAIN Rows
             /\ Final(infer, args, k) = Rows[i] /\ Rows[i].table = t /\ In(t, i)
  BY <1>5, RowsOfRows DEF In
<1> HIDE DEF Is
<1>6. \E i : Is(i)
  BY <1>1, <1>2, <1>3, <1>4 DEF EndsIn
<1>7. QED
  BY <1>5, <1>6

\* The row the arguments name for key k.
Start(infer, args, k) ==
  args[IF infer[k].arg THEN infer[k].from ELSE infer[infer[k].from].from]

\* When a request arrives, every key of a row that is there leads to a row, and
\* those that lead to a workspace or a user to the one they end at.
LEMMA KeysReach ==
  ASSUME RowsOK, NEW infer, NEW args, ArgsOK(infer, args), NEW k \in DOMAIN infer, NEW t,
         EndsIn(infer, k, t)
  PROVE  /\ Start(infer, args, k) \notin DOMAIN rows => Reach(infer, args, k) = NoRow
         /\ Start(infer, args, k) \in DOMAIN rows =>
              /\ Reach(infer, args, k) # NoRow /\ Reach(infer, args, k).table = t
              /\ t \in {"workspace", "user"} => Reach(infer, args, k) = Final(infer, args, k)
<1> DEFINE e == infer[k]
           s == Start(infer, args, k)
           r == Reach(infer, args, k)
           Goal == /\ s \notin DOMAIN rows => r = NoRow
                   /\ s \in DOMAIN rows =>
                        /\ r # NoRow /\ r.table = t
                        /\ t \in {"workspace", "user"} => r = Final(infer, args, k)
<1>1. ASSUME NEW a, Looks(infer, k, a), t = Sort(a)
      PROVE  Goal
  <2>1. e.arg /\ e.from = a /\ e.pipes = <<"id">> /\ Len(e.pipes) = 1
    BY <1>1 DEF Looks, Arg
  <2>2. s = args[a] /\ In(t, s)
    BY <1>1, <2>1 DEF Start, ArgsOK
  <2>3. r = Find(rows, s)
    BY <2>1, <2>2 DEF Reach, Follow, Onward
  <2>4. CASE s \in DOMAIN rows
    <3>1. r = rows[s] /\ r # NoRow /\ r.table = t
      BY <2>2, <2>3, <2>4, RowsAreRows DEF Find, In
    <3>2. Final(infer, args, k) = Rows[s]
      BY <2>1, <2>2 DEF Final
    <3>3. t \in {"workspace", "user"} => r = Final(infer, args, k)
      BY <2>2, <3>1, <3>2, PlacesStay
    <3>4. QED
      BY <2>4, <3>1, <3>3
  <2>5. CASE s \notin DOMAIN rows
    BY <2>3, <2>5 DEF Find
  <2>6. QED
    BY <2>4, <2>5
<1>2. ASSUME NEW a, LooksUp(infer, k, a), t = "workspace"
      PROVE  Goal
  <2>1. /\ e.arg /\ e.from = a /\ Len(e.pipes) = 2
        /\ e.pipes[1] = "id" /\ e.pipes[2] = "workspace"
    BY <1>2 DEF LooksUp, Arg
  <2>2. s = args[a] /\ In(Sort(a), s) /\ Sort(a) \in {"item", "tag"}
    BY <1>2, <2>1 DEF Start, ArgsOK, LooksUp
  <2>3. r = IF Find(rows, s) = NoRow THEN NoRow ELSE Find(rows, Find(rows, s).workspace)
    BY <2>1, <2>2 DEF Reach, Follow, Onward
  <2>4. CASE s \in DOMAIN rows
    <3>1. Find(rows, s) = rows[s] /\ rows[s] # NoRow /\ rows[s] = Rows[s]
      BY <2>2, <2>4, RowsAreRows DEF Find, In, OfRow
    <3>2. In("workspace", Rows[s].workspace)
      BY <2>2, References DEF In
    <3>3. r = Rows[Rows[s].workspace]
      BY <2>3, <3>1, <3>2, PlacesStay DEF Find
    <3>4. Final(infer, args, k) = Rows[Rows[s].workspace]
      BY <2>1, <2>2 DEF Final
    <3>5. r # NoRow /\ r.table = t
      BY <1>2, <3>2, <3>3, RowsOfRows DEF In
    <3>6. QED
      BY <2>4, <3>3, <3>4, <3>5
  <2>5. CASE s \notin DOMAIN rows
    BY <2>3, <2>5 DEF Find
  <2>6. QED
    BY <2>4, <2>5
<1>3. ASSUME NEW j, NEW a, NEW f, Refers(infer, k, j, a, f, t)
      PROVE  Goal
  <2>1. /\ ~e.arg /\ e.from = j /\ Len(e.pipes) = 1 /\ e.pipes[1] = f
        /\ infer[j].arg /\ infer[j].from = a /\ j \in DOMAIN infer
        /\ <<Sort(a), f, t>> \in Fields
    BY <1>3 DEF Refers, Arg, From
  <2>2. s = args[a] /\ In(Sort(a), s)
    BY <2>1 DEF Start, ArgsOK
  <2>3. f \notin {"id", "item"}
    BY <2>1 DEF Fields
  <2>4. r = IF Find(rows, s) = NoRow THEN NoRow ELSE Find(rows, Find(rows, s)[f])
    BY <2>1, <2>2, <2>3 DEF Reach, Follow, Onward
  <2>5. CASE s \in DOMAIN rows
    <3>1. Find(rows, s) = rows[s] /\ rows[s] # NoRow /\ OfRow(rows[s], s)
      BY <2>5, RowsAreRows DEF Find
    <3>2. rows[s][f] = Rows[s][f] /\ In(t, Rows[s][f]) /\ t \in {"workspace", "user"}
      BY <2>1, <2>2, <3>1, FieldsReferTo
    <3>3. r = Rows[Rows[s][f]]
      BY <2>4, <3>1, <3>2, PlacesStay DEF Find
    <3>4. Final(infer, args, k) = Rows[Rows[s][f]]
      BY <2>1, <2>2 DEF Final
    <3>5. r # NoRow /\ r.table = t
      BY <3>2, <3>3, RowsOfRows DEF In
    <3>6. QED
      BY <2>5, <3>3, <3>4, <3>5
  <2>6. CASE s \notin DOMAIN rows
    BY <2>4, <2>6 DEF Find
  <2>7. QED
    BY <2>5, <2>6
<1>4. ASSUME NEW j, RefersOn(infer, k, j), t = "workspace"
      PROVE  Goal
  <2>1. /\ ~e.arg /\ e.from = j /\ Len(e.pipes) = 2
        /\ e.pipes[1] = "item" /\ e.pipes[2] = "workspace"
        /\ infer[j].arg /\ infer[j].from = "payment" /\ j \in DOMAIN infer
    BY <1>4 DEF RefersOn, Arg, From
  <2>2. s = args["payment"] /\ In("payment", s)
    BY <2>1 DEF Start, ArgsOK, Sort
  <2> DEFINE first == IF Find(rows, s) = NoRow THEN NoRow ELSE Find(rows, Find(rows, s).item)
  <2>3. r = IF first = NoRow THEN NoRow ELSE Find(rows, first.workspace)
    BY <2>1, <2>2 DEF Reach, Follow, Onward
  <2>4. s \in DOMAIN rows /\ rows[s] # NoRow /\ OfRow(rows[s], s) /\ rows[s].item \in DOMAIN rows
    <3>1. s \in DOMAIN rows
      BY <2>2 DEF RowsOK, In
    <3>2. QED
      BY <2>2, <3>1, RowsAreRows DEF RowsOK
  <2>5. /\ In("item", rows[s].item)
        /\ Rows[rows[s].item].workspace = Rows[Rows[s].item].workspace
    BY <2>2, <2>4 DEF OfRow, In
  <2>6. first = rows[rows[s].item]
    BY <2>4 DEF Find
  <2>7. first # NoRow /\ first = Rows[rows[s].item]
    BY <2>4, <2>5, <2>6, RowsAreRows DEF OfRow, In
  <2> HIDE DEF first
  <2>8. In("workspace", Rows[rows[s].item].workspace)
    BY <2>5, References DEF In
  <2>9. r = Rows[Rows[Rows[s].item].workspace]
    BY <2>3, <2>5, <2>7, <2>8, PlacesStay DEF Find
  <2>10. Final(infer, args, k) = Rows[Rows[Rows[s].item].workspace]
    BY <2>1, <2>2 DEF Final
  <2>11. r # NoRow /\ r.table = t
    BY <1>4, <2>5, <2>8, <2>9, RowsOfRows DEF In
  <2>12. QED
    BY <2>4, <2>9, <2>10, <2>11
<1> HIDE DEF Goal
<1>5. Goal
  BY <1>1, <1>2, <1>3, <1>4 DEF EndsIn
<1>6. QED
  BY <1>5 DEF Goal

\* Others keep the rows in order.
LEMMA MergesKeepRows ==
  ASSUME RowsOK, NEW i, NEW host, ItemMerged(i, host)
  PROVE  RowsOK' /\ DOMAIN rows' \subseteq DOMAIN rows
<1>1. /\ i \in DOMAIN rows /\ host \in DOMAIN rows /\ i # host
      /\ rows[i].table = "item" /\ rows[host].table = "item"
      /\ rows[i].workspace = rows[host].workspace
      /\ rows' = [r \in DOMAIN rows \ {i} |->
                    IF rows[r].table = "payment" /\ rows[r].item = i
                    THEN [rows[r] EXCEPT !.item = host] ELSE rows[r]]
  BY DEF ItemMerged
<1>2. In("item", i) /\ In("item", host) /\ Rows[i].workspace = Rows[host].workspace
  BY <1>1, RowsAreRows DEF OfRow, In
<1>3. DOMAIN rows' = DOMAIN rows \ {i}
  BY <1>1
<1>4. ASSUME NEW x \in DOMAIN rows', ~(rows[x].table = "payment" /\ rows[x].item = i)
      PROVE  /\ OfRow(rows'[x], x)
             /\ In("payment", x) => rows'[x].item \in DOMAIN rows'
  <2>1. rows'[x] = rows[x]
    BY <1>1, <1>3, <1>4
  <2>2. QED
    BY <1>3, <1>4, <2>1, RowsAreRows DEF RowsOK, In
<1>5. ASSUME NEW x \in DOMAIN rows', rows[x].table = "payment", rows[x].item = i
      PROVE  OfRow(rows'[x], x) /\ rows'[x].item = host
  <2>1. rows'[x] = [rows[x] EXCEPT !.item = host]
    BY <1>1, <1>3, <1>5
  <2>2. rows[x] \in AnyRow /\ OfRow(rows[x], x) /\ x \in DOMAIN Rows
    BY <1>3, RowsAreRows
  <2>3. rows[x] \in [id : DOMAIN Rows, table : {"payment"}, item : DOMAIN Rows]
    BY <1>5, <2>2 DEF AnyRow
  <2>4. /\ rows'[x] \in [id : DOMAIN Rows, table : {"payment"}, item : DOMAIN Rows]
        /\ rows'[x].id = rows[x].id /\ rows'[x].table = "payment" /\ rows'[x].item = host
    BY <1>2, <2>1, <2>3 DEF In
  <2>5. rows'[x] \in AnyRow
    BY <2>4 DEF AnyRow
  <2>6. QED
    BY <1>2, <1>5, <2>2, <2>4, <2>5 DEF OfRow
<1>6. ASSUME NEW x \in DOMAIN rows'
      PROVE  /\ OfRow(rows'[x], x)
             /\ In("payment", x) => rows'[x].item \in DOMAIN rows'
  <2>1. host \in DOMAIN rows'
    BY <1>1, <1>3
  <2>2. QED
    BY <1>4, <1>5, <2>1
<1>7. \A x \in DOMAIN Rows : ~In("item", x) => x \in DOMAIN rows'
  BY <1>2, <1>3 DEF RowsOK
<1>8. DOMAIN rows' \subseteq DOMAIN Rows /\ DOMAIN rows' \subseteq DOMAIN rows
  BY <1>3 DEF RowsOK
<1>9. QED
  BY <1>6, <1>7, <1>8 DEF RowsOK

LEMMA SeatsKeepRows ==
  ASSUME RowsOK, NEW i \in DOMAIN rows, rows[i].table = "member", NEW b \in BOOLEAN,
         rows' = [rows EXCEPT ![i].active = b]
  PROVE  RowsOK' /\ DOMAIN rows' = DOMAIN rows
<1>1. DOMAIN rows' = DOMAIN rows /\ \A x \in DOMAIN rows : x # i => rows'[x] = rows[x]
  OBVIOUS
<1>2. rows'[i] = [rows[i] EXCEPT !.active = b]
  OBVIOUS
<1>3. OfRow(rows[i], i) /\ i \in DOMAIN Rows
  BY RowsAreRows
<1> DEFINE seats == [id : DOMAIN Rows, table : {"member"}, user : DOMAIN Rows,
                     workspace : DOMAIN Rows, active : BOOLEAN]
<1>4. rows[i] \in seats
  BY <1>3 DEF AnyRow, OfRow
<1>5. /\ rows'[i] \in seats
      /\ rows'[i].id = rows[i].id /\ rows'[i].table = "member"
      /\ rows'[i].user = rows[i].user /\ rows'[i].workspace = rows[i].workspace
  BY <1>2, <1>4
<1>6. rows'[i] \in AnyRow
  BY <1>5 DEF AnyRow
<1>7. OfRow(rows'[i], i) /\ ~In("payment", i)
  BY <1>3, <1>5, <1>6 DEF OfRow, In
<1>8. QED
  BY <1>1, <1>7 DEF RowsOK

LEMMA StepsKeepRows ==
  ASSUME RowsOK, [Next]_vars
  PROVE  RowsOK' /\ DOMAIN rows' \subseteq DOMAIN rows /\ trusted' = trusted
<1> DEFINE Kept == RowsOK' /\ DOMAIN rows' \subseteq DOMAIN rows /\ trusted' = trusted
           Same == rows' = rows /\ trusted' = trusted
<1>1. CASE Same
  BY <1>1 DEF RowsOK
<1>2. ASSUME NEW i, SeatTaken(i) \/ SeatLost(i) PROVE Kept
  <2>1. /\ i \in DOMAIN rows /\ rows[i].table = "member" /\ trusted' = trusted
        /\ \E b \in BOOLEAN : rows' = [rows EXCEPT ![i].active = b]
    BY <1>2 DEF SeatTaken, SeatLost
  <2>2. QED
    BY <2>1, SeatsKeepRows
<1>3. ASSUME NEW i, NEW host, ItemMerged(i, host) PROVE Kept
  BY <1>3, MergesKeepRows DEF ItemMerged
<1>4. ASSUME NEW op, NEW u, NEW args, Request(op, u, args) PROVE Same
  BY <1>4 DEF Request
<1>5. ASSUME NEW u, RequestOpen(u) PROVE Same
  BY <1>5 DEF RequestOpen
<1>6. ASSUME NEW op, RequestSignedOut(op) PROVE Same
  BY <1>6 DEF RequestSignedOut
<1>7. ASSUME NEW k, Pipe(k) PROVE Same
  BY <1>7 DEF Pipe, Answer
<1>8. ASSUME NEW l,
             \/ UserPermission(l) \/ UserToWorkspace(l)
             \/ WorkspaceSeat(l) \/ WorkspaceGrants(l)
      PROVE  Same
  BY <1>8 DEF UserPermission, UserToWorkspace, WorkspaceSeat, WorkspaceGrants, Decide
<1>9. ASSUME Verdict \/ Finish PROVE Same
  BY <1>9 DEF Verdict, Finish, Answer
<1>10. ASSUME NEW w, NEW p, Granted(w, p) \/ Revoked(w, p) PROVE Same
  BY <1>10 DEF Granted, Revoked
<1>11. CASE UNCHANGED vars
  BY <1>1, <1>11 DEF vars
<1> HIDE DEF Same
<1>12. Kept
  BY <1>1, <1>2, <1>3, <1>4, <1>5, <1>6, <1>7, <1>8, <1>9, <1>10, <1>11 DEF Next
<1>13. QED
  BY <1>12

-------------------------------------------------------------------------------
(* Rules: their leaves, and when they match.                                 *)

Simple(leaf) == leaf.kind \notin {"or", "and"}

LEMMA LeavesAreSimple ==
  \A k, p : Simple(Owner(k)) /\ Simple(May(p, k)) /\ Simple(Member(k)) /\ Simple(Self(k))
            /\ Simple(Trusted) /\ Simple(Admin)
BY DEF Simple, Owner, May, Member, Self, Trusted, Admin

LEMMA PartsOpen ==
  ASSUME NEW rules, NEW subs
  PROVE  /\ Opened(rules \cup {Or(subs)}) = Opened(rules) \cup subs
         /\ Opened(rules \cup {And(subs)}) = Opened(rules) \cup subs
         /\ \A leaf : Simple(leaf) => Opened(rules \cup {leaf}) = Opened(rules) \cup {leaf}
<1> DEFINE of(rule) == IF rule.kind \in {"or", "and"} THEN rule.subs ELSE {rule}
<1>1. /\ of(Or(subs)) = subs /\ of(And(subs)) = subs
      /\ \A leaf : Simple(leaf) => of(leaf) = {leaf}
  BY DEF Or, And, Simple
<1>2. \A s : Opened(s) = UNION {of(rule) : rule \in s}
  BY DEF Opened
<1> HIDE DEF of
<1>3. \A rule : Opened(rules \cup {rule}) = Opened(rules) \cup of(rule)
  BY <1>2
<1>4. QED
  BY <1>1, <1>3

LEMMA NothingOpens == Opened({}) = {}
BY DEF Opened

LEMMA OneOpens ==
  ASSUME NEW subs
  PROVE  Opened({Or(subs)}) = subs /\ Opened({And(subs)}) = subs
<1>1. \A x : {x} = {} \cup {x}
  OBVIOUS
<1>2. QED
  BY <1>1, NothingOpens, PartsOpen

LEMMA LeavesOpen ==
  ASSUME NEW leaves, \A l \in leaves : Simple(l)
  PROVE  Opened(leaves) = leaves
BY DEF Opened, Simple

\* Beside leaves, a part opens to its parts.
LEMMA OneOpensBeside ==
  ASSUME NEW leaves, \A l \in leaves : Simple(l), NEW subs
  PROVE  /\ Opened(leaves \cup {Or(subs)}) = leaves \cup subs
         /\ Opened(leaves \cup {And(subs)}) = leaves \cup subs
<1>1. Opened(leaves) = leaves
  BY LeavesOpen
<1>2. QED
  BY <1>1, PartsOpen

LEMMA LeavesWorks ==
  ASSUME NEW p, NEW k
  PROVE  Leaves(Or({OwnerOrMay(p, k), Admin})) = {Owner(k), May(p, k), Admin}
<1>1. Opened({Or({OwnerOrMay(p, k), Admin})}) = {Admin} \cup {Or({Owner(k), May(p, k)})}
  BY OneOpens DEF OwnerOrMay
<1>2. \A l \in {Owner(k), May(p, k), Admin} : Simple(l)
  BY LeavesAreSimple
<1>3. Opened({Admin} \cup {Or({Owner(k), May(p, k)})}) = {Admin} \cup {Owner(k), May(p, k)}
  <2>1. \A l \in {Admin} : Simple(l)
    BY LeavesAreSimple
  <2>2. QED
    BY <2>1, OneOpensBeside
<1>4. Opened({Owner(k), May(p, k), Admin}) = {Owner(k), May(p, k), Admin}
  BY <1>2, LeavesOpen
<1>5. {Admin} \cup {Owner(k), May(p, k)} = {Owner(k), May(p, k), Admin}
  OBVIOUS
<1>6. QED
  BY <1>1, <1>3, <1>4, <1>5 DEF Leaves

LEMMA LeavesWorksTwice ==
  ASSUME NEW p
  PROVE  Leaves(Or({Admin, And({OwnerOrMay(p, "first"), OwnerOrMay(p, "second")})}))
           = {Owner("first"), May(p, "first"), Owner("second"), May(p, "second"), Admin}
<1> DEFINE one == {Owner("first"), May(p, "first")}
           two == {Owner("second"), May(p, "second")}
           both == {Or(one), Or(two)}
<1>1. \A l \in {Admin} \cup one \cup two : Simple(l)
  BY LeavesAreSimple
<1>2. both = {OwnerOrMay(p, "first"), OwnerOrMay(p, "second")}
  BY DEF OwnerOrMay
<1> HIDE DEF one, two
<1>3. {Admin} \cup both = {Admin} \cup {Or(one)} \cup {Or(two)}
  OBVIOUS
<1>4. Opened({Admin} \cup {Or(one)} \cup {Or(two)}) = Opened({Admin} \cup {Or(one)}) \cup two
  BY PartsOpen
<1>5. Opened({Admin} \cup {Or(one)}) = {Admin} \cup one
  <2>1. \A l \in {Admin} : Simple(l)
    BY LeavesAreSimple
  <2>2. QED
    BY <2>1, OneOpensBeside
<1> HIDE DEF both
<1>6. Opened({Or({Admin, And(both)})}) = {Admin} \cup {And(both)}
  BY OneOpens
<1>7. Opened({Admin} \cup {And(both)}) = {Admin} \cup both
  <2>1. \A l \in {Admin} : Simple(l)
    BY LeavesAreSimple
  <2>2. QED
    BY <2>1, OneOpensBeside
<1>8. Opened({Admin} \cup one \cup two) = {Admin} \cup one \cup two
  BY <1>1, LeavesOpen
<1>9. Leaves(Or({Admin, And(both)})) = {Admin} \cup one \cup two
  BY <1>3, <1>4, <1>5, <1>6, <1>7, <1>8 DEF Leaves
<1>10. {Admin} \cup one \cup two
         = {Owner("first"), May(p, "first"), Owner("second"), May(p, "second"), Admin}
  BY DEF one, two
<1>11. QED
  BY <1>2, <1>9, <1>10

LEMMA LeavesInvites ==
  ASSUME NEW p, NEW k, NEW j
  PROVE  Leaves(Or({And({OwnerOrMay(p, k), Self(j)}), Admin}))
           = {Owner(k), May(p, k), Self(j), Admin}
<1> DEFINE one == {Owner(k), May(p, k)}
           both == {OwnerOrMay(p, k), Self(j)}
<1>1. \A l \in {Admin, Self(j)} \cup one : Simple(l)
  BY LeavesAreSimple
<1>2. {Admin} \cup both = {Admin, Self(j)} \cup {Or(one)}
  BY DEF OwnerOrMay
<1> HIDE DEF one
<1>3. Opened({Admin, Self(j)} \cup {Or(one)}) = {Admin, Self(j)} \cup one
  <2>1. \A l \in {Admin, Self(j)} : Simple(l)
    BY LeavesAreSimple
  <2>2. QED
    BY <2>1, OneOpensBeside
<1> HIDE DEF both
<1>4. Opened({Or({And(both), Admin})}) = {Admin} \cup {And(both)}
  BY OneOpens
<1>5. Opened({Admin} \cup {And(both)}) = {Admin} \cup both
  <2>1. \A l \in {Admin} : Simple(l)
    BY LeavesAreSimple
  <2>2. QED
    BY <2>1, OneOpensBeside
<1>6. Leaves(Or({And(both), Admin})) = {Admin, Self(j)} \cup one
  BY <1>2, <1>3, <1>4, <1>5 DEF Leaves
<1>7. QED
  BY <1>6 DEF both, one

LEMMA LeavesActs ==
  ASSUME NEW j
  PROVE  Leaves(Or({And({Self(j), Trusted}), Admin})) = {Self(j), Trusted, Admin}
<1> DEFINE both == {Self(j), Trusted}
<1>1. \A l \in {Admin} \cup both : Simple(l)
  BY LeavesAreSimple
<1> HIDE DEF both
<1>2. Opened({Or({And(both), Admin})}) = {Admin} \cup {And(both)}
  BY OneOpens
<1>3. Opened({Admin} \cup {And(both)}) = {Admin} \cup both
  <2>1. \A l \in {Admin} : Simple(l)
    BY LeavesAreSimple
  <2>2. QED
    BY <2>1, OneOpensBeside
<1>4. Opened({Admin} \cup both) = {Admin} \cup both
  BY <1>1, LeavesOpen
<1>5. Leaves(Or({And(both), Admin})) = {Admin} \cup both
  BY <1>2, <1>3, <1>4 DEF Leaves
<1>6. QED
  BY <1>5 DEF both

LEMMA LeavesOfOr ==
  ASSUME NEW leaves, \A l \in leaves : Simple(l)
  PROVE  Leaves(Or(leaves)) = leaves
BY OneOpens, LeavesOpen DEF Leaves

LEMMA LeavesAdmin == Leaves(Admin) = {Admin}
BY LeavesOpen, LeavesAreSimple DEF Leaves

\* Matching, part by part.
Piece(piece) == Combined(piece, isLeafMatch)
Part(part) == Combined(part, LAMBDA piece : Combined(piece, isLeafMatch))

LEMMA PiecesMatch ==
  ASSUME NEW subs
  PROVE  /\ Piece(Or(subs)) <=> \E s \in subs : isLeafMatch(s)
         /\ \A leaf : Simple(leaf) => (Piece(leaf) <=> isLeafMatch(leaf))
BY DEF Piece, Combined, Or, And, Simple

LEMMA PartsMatch ==
  ASSUME NEW subs
  PROVE  /\ Part(Or(subs)) <=> \E s \in subs : Piece(s)
         /\ Part(And(subs)) <=> \A s \in subs : Piece(s)
         /\ \A leaf : Simple(leaf) => (Part(leaf) <=> isLeafMatch(leaf))
BY DEF Part, Piece, Combined, Or, And, Simple

LEMMA RulesMatch ==
  ASSUME NEW subs
  PROVE  /\ isRuleMatch(Or(subs)) <=> \E s \in subs : Part(s)
         /\ \A leaf : Simple(leaf) => (isRuleMatch(leaf) <=> isLeafMatch(leaf))
BY DEF isRuleMatch, Part, Combined, Or, And, Simple

\* The leaves match.
LEMMA LeavesMatch ==
  ASSUME NEW k, NEW p
  PROVE  /\ isLeafMatch(Admin) <=> call.user.role = "ADMIN"
         /\ isLeafMatch(Self(k)) <=> call.user.id = Row(k).id
         /\ isLeafMatch(Owner(k)) <=> Row(k).owner = call.user.id
         /\ isLeafMatch(Trusted) <=> call.leaves[Trusted] = "yes"
         /\ isLeafMatch(May(p, k)) <=> call.leaves[May(p, k)] = "yes"
         /\ isLeafMatch(Member(k)) <=> call.leaves[Member(k)] = "yes"
BY DEF isLeafMatch, Admin, Self, Owner, Trusted, May, Member, UserRole, UserSelf, WorkspaceOwner

-------------------------------------------------------------------------------
(* A check under way.                                                        *)

Infer == Gates[call.op].infer
Rule  == Gates[call.op].rule
Asked == {l \in Leaves(Rule) : l.kind \in Stored}
End(k) == Final(Infer, call.args, k)

CallOK ==
  /\ call = [state |-> "checking", op |-> call.op, user |-> call.user, args |-> call.args,
             places |-> call.places, people |-> call.people,
             keys |-> [k \in DOMAIN Infer |-> call.keys[k]],
             leaves |-> [l \in Asked |-> call.leaves[l]]]
  /\ call.op \in DOMAIN Gates
  /\ ArgsOK(Infer, call.args)

\* A key has not begun, has come to the row whose workspace it leads to, or has ended.
Looked(k) == Infer[k].arg /\ Len(Infer[k].pipes) = 1
KeyOK(k) ==
  LET key == call.keys[k]
  IN  \/ key.row = NoRow /\ key.left = Infer[k].pipes
      \/ /\ key.row # NoRow /\ key.left = <<"workspace">>
         /\ Len(Infer[k].pipes) = 2 /\ key.row.workspace = End(k).id
      \/ /\ key.row # NoRow /\ key.left = <<>>
         /\ IF Looked(k) THEN OfRow(key.row, call.args[Infer[k].from]) ELSE key.row = End(k)
KeysOK == \A k \in DOMAIN Infer : KeyOK(k)

\* The row a key starts at is there, or was when the key began.
Here(k) ==
  \/ Start(Infer, call.args, k) \in DOMAIN rows
  \/ Row(IF Infer[k].arg THEN k ELSE Infer[k].from) # NoRow
PlacesOK ==
  /\ \A w \in call.places : \E k \in DOMAIN Infer : w = End(k) /\ EndsIn(Infer, k, "workspace")
  /\ \A u \in call.people : \E k \in DOMAIN Infer : u = End(k) /\ EndsIn(Infer, k, "user")
  /\ \A k \in DOMAIN Infer :
        Here(k) => /\ EndsIn(Infer, k, "workspace") => End(k) \in call.places
                   /\ EndsIn(Infer, k, "user") => End(k) \in call.people

\* What holds now is among what was seen.
Entitled ==
  EntitledBy(call.op, call.user, call.places, call.people,
    LAMBDA w : w \in {x \in {p.id : p \in call.places} : activeMember(rows, call.user.id, x)},
    LAMBDA w, p : <<call.user.id, w, p>> \in {g \in grants : g[1] = call.user.id})
SightOK ==
  /\ \A w \in call.places :
        activeMember(rows, call.user.id, w.id) => w.id \in seen.seats
  /\ \A g \in grants : g[1] = call.user.id => g \in seen.grants
  /\ Entitled \/ seen.lapsed

\* What an answer tells.
LeafOK(l) ==
  LET a == call.leaves[l]
      u == call.user
      w == End(l.key)
      spared == seen.lapsed \/ u.role = "ADMIN" \/ w.owner = u.id
  IN  /\ l.kind = "userPermission" =>
           (a = "yes" => u.id \in trusted) /\ (a = "no" => u.id \notin trusted)
      /\ l.kind = "workspaceRole" =>
           /\ a = "yes" => w.owner = u.id \/ w.id \in seen.seats
           /\ a = "no" => w.owner # u.id /\ spared
      /\ l.kind = "permission" =>
           /\ a \in {"seated", "yes"} => w.id \in seen.seats
           /\ a = "yes" => <<u.id, w.id, l.permission>> \in seen.grants
           /\ a = "no" => spared
LeavesOK == \A l \in Asked : LeafOK(l)

CheckOK == CallOK /\ KeysOK /\ PlacesOK /\ SightOK /\ LeavesOK

-------------------------------------------------------------------------------
(* What the leaves ask about.                                                *)

LEMMA GatheredEnds ==
  ASSUME NEW infer, NEW ps, NEW us, Gathers(infer, ps, us)
  PROVE  /\ \A k \in ps : k \in DOMAIN infer /\ EndsIn(infer, k, "workspace")
         /\ \A k \in us : k \in DOMAIN infer /\ EndsIn(infer, k, "user")
         /\ \A k \in DOMAIN infer : \E t : EndsIn(infer, k, t)
BY DEF Gathers, Leads

\* The kinds of leaves.
LEMMA KindsOfLeaves ==
  \A k, p :
    /\ Owner(k).kind = "owner" /\ Self(k).kind = "self" /\ Admin.kind = "role"
    /\ Trusted.kind = "userPermission"
    /\ Member(k).kind = "workspaceRole" /\ Member(k).key = k
    /\ May(p, k).kind = "permission" /\ May(p, k).key = k /\ May(p, k).permission = p
BY DEF Owner, Self, Admin, Trusted, Member, May

LEMMA LeavesAsk ==
  ASSUME NEW op \in DOMAIN Gates, NEW l \in Leaves(Gates[op].rule), l.kind \in Stored
  PROVE  /\ Plain(op)
         /\ l.kind = "workspaceRole" \/ l.kind = "permission" =>
              l.key \in DOMAIN Gates[op].infer /\ EndsIn(Gates[op].infer, l.key, "workspace")
         /\ l.kind = "workspaceRole" => op \in Reads
         /\ l.kind = "permission" => op \notin Reads
<1> DEFINE g == Gates[op]
           Goal == /\ Plain(op)
                   /\ l.kind = "workspaceRole" \/ l.kind = "permission" =>
                        l.key \in DOMAIN g.infer /\ EndsIn(g.infer, l.key, "workspace")
                   /\ l.kind = "workspaceRole" => op \in Reads
                   /\ l.kind = "permission" => op \notin Reads
<1>1. Kinds(op, g)
  BY EveryGateHasAKind
<1>2. l \in Leaves(g.rule) /\ l.kind \in {"userPermission", "workspaceRole", "permission"}
  BY DEF Stored
<1> SUFFICES Goal
  OBVIOUS
<1> HIDE DEF g
<1>3. CASE Works(op, g)
  <2>1. PICK p : g.rule = Or({OwnerOrMay(p, "workspace"), Admin})
    BY <1>3 DEF Works
  <2>2. l \in {Owner("workspace"), May(p, "workspace"), Admin}
    BY <1>2, <2>1, LeavesWorks
  <2>3. l = May(p, "workspace")
    BY <1>2, <2>2, KindsOfLeaves
  <2>4. QED
    BY <1>3, <2>3, KindsOfLeaves, GatheredEnds DEF Works
<1>4. CASE WorksTwice(op, g)
  <2>1. PICK p : g.rule = Or({Admin, And({OwnerOrMay(p, "first"), OwnerOrMay(p, "second")})})
    BY <1>4 DEF WorksTwice
  <2>2. l \in {Owner("first"), May(p, "first"), Owner("second"), May(p, "second"), Admin}
    BY <1>2, <2>1, LeavesWorksTwice
  <2>3. l = May(p, "first") \/ l = May(p, "second")
    BY <1>2, <2>2, KindsOfLeaves
  <2>4. \A k \in {"first", "second"} : k \in DOMAIN g.infer /\ EndsIn(g.infer, k, "workspace")
    BY <1>4, GatheredEnds DEF WorksTwice
  <2>5. QED
    BY <1>4, <2>3, <2>4, KindsOfLeaves DEF WorksTwice
<1>5. CASE Shows(op, g)
  <2>1. Leaves(g.rule) = {Member("workspace"), Admin}
    <3>1. \A x \in {Member("workspace"), Admin} : Simple(x)
      BY LeavesAreSimple
    <3>2. QED
      BY <1>5, <3>1, LeavesOfOr DEF Shows
  <2>2. l = Member("workspace")
    BY <1>2, <2>1, KindsOfLeaves
  <2>3. QED
    BY <1>5, <2>2, KindsOfLeaves, GatheredEnds DEF Shows
<1>6. CASE Owns(op, g)
  <2>1. \A x \in {Owner("workspace"), Admin} : Simple(x)
    BY LeavesAreSimple
  <2>2. Leaves(g.rule) = {Owner("workspace"), Admin}
    BY <1>6, <2>1, LeavesOfOr DEF Owns
  <2>3. QED
    BY <1>2, <2>2, KindsOfLeaves
<1>7. CASE Acts(op, g)
  <2>1. PICK k : g.rule = Or({And({Self(k), Trusted}), Admin})
    BY <1>7 DEF Acts
  <2>2. l \in {Self(k), Trusted, Admin}
    BY <1>2, <2>1, LeavesActs
  <2>3. l.kind = "userPermission"
    BY <1>2, <2>2, KindsOfLeaves
  <2>4. QED
    BY <1>7, <2>3 DEF Acts
<1>8. CASE ActsFreely(op, g)
  <2>1. PICK k : g.rule = Or({Self(k), Admin})
    BY <1>8 DEF ActsFreely
  <2>2. \A x \in {Self(k), Admin} : Simple(x)
    BY LeavesAreSimple
  <2>3. l \in {Self(k), Admin}
    BY <1>2, <2>1, <2>2, LeavesOfOr
  <2>4. QED
    BY <1>2, <2>3, KindsOfLeaves
<1>9. CASE Administers(op, g)
  <2>1. l \in {Admin}
    BY <1>2, <1>9, LeavesAdmin DEF Administers, AdminsOnly, Gate
  <2>2. QED
    BY <1>2, <2>1, KindsOfLeaves
<1>10. CASE Founds(op, g)
  <2>1. g.rule = Or({Trusted, Admin})
    BY <1>10 DEF Founds, Gate
  <2>2. \A x \in {Trusted, Admin} : Simple(x)
    BY LeavesAreSimple
  <2>3. l \in {Trusted, Admin}
    BY <1>2, <2>1, <2>2, LeavesOfOr
  <2>4. l.kind = "userPermission"
    BY <1>2, <2>3, KindsOfLeaves
  <2>5. QED
    BY <1>10, <2>4 DEF Founds
<1>11. CASE Invites(op, g)
  <2>1. PICK p : g.rule = Or({And({OwnerOrMay(p, "workspace"), Self("inviterUser")}), Admin})
    BY <1>11 DEF Invites
  <2>2. l \in {Owner("workspace"), May(p, "workspace"), Self("inviterUser"), Admin}
    BY <1>2, <2>1, LeavesInvites
  <2>3. l = May(p, "workspace")
    BY <1>2, <2>2, KindsOfLeaves
  <2>4. QED
    BY <1>11, <2>3, KindsOfLeaves, GatheredEnds DEF Invites
<1>12. CASE Cancels(op, g)
  <2>1. \A x \in {Owner("workspace"), Self("inviter"), Admin} : Simple(x)
    BY LeavesAreSimple
  <2>2. Leaves(g.rule) = {Owner("workspace"), Self("inviter"), Admin}
    BY <1>12, <2>1, LeavesOfOr DEF Cancels
  <2>3. QED
    BY <1>2, <2>2, KindsOfLeaves
<1>13. QED
  BY <1>1, <1>3, <1>4, <1>5, <1>6, <1>7, <1>8, <1>9, <1>10, <1>11, <1>12 DEF Kinds

-------------------------------------------------------------------------------
(* What is seen.                                                             *)

LEMMA Observed ==
  ASSUME NEW n, Observe(n), call'.state = "checking", trusted' = trusted
  PROVE  /\ SightOK'
         /\ seen.seats \subseteq seen'.seats /\ seen.grants \subseteq seen'.grants
         /\ seen.lapsed => seen'.lapsed
<1> DEFINE u == call'.user.id
           seats == {w \in {p.id : p \in call'.places} : activeMember(rows', u, w)}
           mine == {g \in grants' : g[1] = u}
           entitled == EntitledBy(call'.op, call'.user, call'.places, call'.people,
                          LAMBDA w : w \in seats, LAMBDA w, p : <<u, w, p>> \in mine)
<1>1. seen' = [seats |-> seen.seats \cup seats, grants |-> seen.grants \cup mine,
               lapsed |-> seen.lapsed \/ ~entitled, changes |-> seen.changes + n]
  BY DEF Observe
<1>2. entitled <=> Entitled'
  BY DEF Entitled, EntitledBy
<1> HIDE DEF entitled
<1>3. seen'.lapsed <=> seen.lapsed \/ ~entitled
  BY <1>1
<1>4. seen'.seats = seen.seats \cup seats /\ seen'.grants = seen.grants \cup mine
  BY <1>1
<1>5. \A w \in call'.places : activeMember(rows', u, w.id) => w.id \in seats
  OBVIOUS
<1>6. \A g \in grants' : g[1] = u => g \in mine
  OBVIOUS
<1>7. QED
  BY <1>2, <1>3, <1>4, <1>5, <1>6 DEF SightOK

\* Who is not entitled now has lapsed.
LEMMA NotEntitled ==
  ASSUME SightOK, call.user.role # "ADMIN", Plain(call.op),
         \/ \E w \in call.places :
              /\ w.owner # call.user.id
              /\ call.op \in Reads => ~activeMember(rows, call.user.id, w.id)
              /\ \/ ~activeMember(rows, call.user.id, w.id)
                 \/ PermissionsOf(Rule) = {}
                 \/ \E p \in PermissionsOf(Rule) : <<call.user.id, w.id, p>> \notin grants
         \/ \E person \in call.people : person.id # call.user.id
         \/ call.user.id \notin trusted /\ \E l \in Leaves(Rule) : l.kind = "userPermission"
  PROVE  seen.lapsed
<1>1. call.op # "cancelWorkspaceInvite"
  BY DEF Plain
<1>2. ~Entitled
  BY <1>1 DEF Entitled, EntitledBy, Rule
<1>3. QED
  BY <1>2 DEF SightOK

LEMMA NoAdministrator ==
  ASSUME SightOK, call.user.role # "ADMIN", call.op \in AdminOps
  PROVE  seen.lapsed
<1>1. ~Entitled
  BY DEF Entitled, EntitledBy, AdminOps
<1>2. QED
  BY <1>1 DEF SightOK

LEMMA NeitherInviterNorOwner ==
  ASSUME SightOK, call.user.role # "ADMIN", call.op = "cancelWorkspaceInvite",
         \E w \in call.places : w.owner # call.user.id,
         \E person \in call.people : person.id # call.user.id
  PROVE  seen.lapsed
<1>1. ~Entitled
  BY DEF Entitled, EntitledBy
<1>2. QED
  BY <1>1 DEF SightOK

-------------------------------------------------------------------------------
(* What a step of a check keeps.                                             *)

LEMMA SameCheck ==
  ASSUME call'.op = call.op, call'.args = call.args
  PROVE  /\ Infer' = Infer /\ Rule' = Rule /\ Asked' = Asked
         /\ \A k : End(k)' = End(k) /\ (Looked(k)' <=> Looked(k))
<1>1. Infer' = Infer /\ Rule' = Rule
  BY DEF Infer, Rule
<1>2. QED
  BY <1>1 DEF Asked, End, Looked

LEMMA AnswersStay ==
  ASSUME call'.op = call.op, call'.args = call.args, call'.user = call.user,
         trusted' = trusted, seen.seats \subseteq seen'.seats,
         seen.grants \subseteq seen'.grants, seen.lapsed => seen'.lapsed,
         NEW l, call'.leaves[l] = call.leaves[l], LeafOK(l)
  PROVE  LeafOK(l)'
<1>1. End(l.key)' = End(l.key)
  BY SameCheck
<1>2. QED
  BY <1>1 DEF LeafOK

LEMMA PlacesKept ==
  ASSUME PlacesOK, call'.op = call.op, call'.args = call.args, call'.places = call.places,
         call'.people = call.people, \A k \in DOMAIN Infer : Here(k)' => Here(k)
  PROVE  PlacesOK'
<1>1. Infer' = Infer /\ \A k : End(k)' = End(k)
  BY SameCheck
<1>2. QED
  BY <1>1 DEF PlacesOK

\* Others leave the check as it is.
LEMMA OthersKeepChecks ==
  ASSUME CheckOK, call' = call, DOMAIN rows' \subseteq DOMAIN rows, trusted' = trusted,
         NEW n, Observe(n)
  PROVE  CheckOK'
<1>1. call'.state = "checking"
  BY DEF CheckOK, CallOK
<1>2. /\ SightOK'
      /\ seen.seats \subseteq seen'.seats /\ seen.grants \subseteq seen'.grants
      /\ seen.lapsed => seen'.lapsed
  BY <1>1, Observed
<1>3. Infer' = Infer /\ Rule' = Rule /\ Asked' = Asked
      /\ \A k : End(k)' = End(k) /\ (Looked(k)' <=> Looked(k))
  BY SameCheck
<1>4. CallOK'
  BY <1>3 DEF CheckOK, CallOK
<1>5. KeysOK'
  BY <1>3 DEF CheckOK, KeysOK, KeyOK
<1>6. \A k \in DOMAIN Infer : Here(k)' => Here(k)
  BY <1>3 DEF Here, Row
<1>7. PlacesOK'
  BY <1>6, PlacesKept DEF CheckOK
<1>8. LeavesOK'
  BY <1>2, <1>3, AnswersStay DEF CheckOK, LeavesOK
<1>9. QED
  BY <1>2, <1>4, <1>5, <1>7, <1>8 DEF CheckOK

\* A leaf gets its answer, and it is a true one.
LEMMA AnswersKeepChecks ==
  ASSUME CheckOK, NEW leaf \in Asked, NEW answer, Decide(leaf, answer),
         call'.leaves[leaf] = answer => LeafOK(leaf)'
  PROVE  CheckOK'
<1>1. /\ call' = [call EXCEPT !.leaves[leaf] = answer]
      /\ rows' = rows /\ trusted' = trusted /\ grants' = grants /\ Observe(0)
  BY DEF Decide
<1>2. call = [state |-> "checking", op |-> call.op, user |-> call.user, args |-> call.args,
              places |-> call.places, people |-> call.people,
              keys |-> [k \in DOMAIN Infer |-> call.keys[k]],
              leaves |-> [l \in Asked |-> call.leaves[l]]]
  BY DEF CheckOK, CallOK
<1>3. call' = [state |-> "checking", op |-> call.op, user |-> call.user, args |-> call.args,
               places |-> call.places, people |-> call.people, keys |-> call.keys,
               leaves |-> [call.leaves EXCEPT ![leaf] = answer]]
  BY <1>1, <1>2
<1>4. /\ call'.state = "checking" /\ call'.op = call.op /\ call'.user = call.user
      /\ call'.args = call.args /\ call'.places = call.places /\ call'.people = call.people
      /\ call'.keys = call.keys /\ call'.leaves = [call.leaves EXCEPT ![leaf] = answer]
  BY <1>3
<1>5. /\ call.leaves = [l \in Asked |-> call.leaves[l]]
      /\ call.keys = [k \in DOMAIN Infer |-> call.keys[k]]
  BY <1>2
<1>6. /\ SightOK'
      /\ seen.seats \subseteq seen'.seats /\ seen.grants \subseteq seen'.grants
      /\ seen.lapsed => seen'.lapsed
  BY <1>1, <1>4, Observed
<1>7. Infer' = Infer /\ Rule' = Rule /\ Asked' = Asked
      /\ \A k : End(k)' = End(k) /\ (Looked(k)' <=> Looked(k))
  BY <1>4, SameCheck
<1>8. /\ call'.leaves = [l \in Asked |-> call'.leaves[l]] /\ call'.leaves[leaf] = answer
      /\ \A l \in Asked : l # leaf => call'.leaves[l] = call.leaves[l]
  BY <1>4, <1>5
<1>9. CallOK'
  <2>1. call' = [state |-> "checking", op |-> call'.op, user |-> call'.user, args |-> call'.args,
                 places |-> call'.places, people |-> call'.people,
                 keys |-> [k \in DOMAIN Infer |-> call'.keys[k]],
                 leaves |-> [l \in Asked |-> call'.leaves[l]]]
    BY <1>3, <1>4, <1>5, <1>8
  <2>2. QED
    BY <1>4, <1>7, <2>1 DEF CheckOK, CallOK
<1>10. KeysOK'
  BY <1>4, <1>7 DEF CheckOK, KeysOK, KeyOK
<1>11. \A k \in DOMAIN Infer : Here(k)' => Here(k)
  BY <1>1, <1>4, <1>7 DEF Here, Row
<1>12. PlacesOK'
  BY <1>4, <1>11, PlacesKept DEF CheckOK
<1>13. LeavesOK'
  <2>1. ASSUME NEW l \in Asked PROVE LeafOK(l)'
    <3>1. CASE l = leaf
      BY <1>8, <3>1
    <3>2. CASE l # leaf
      BY <1>1, <1>4, <1>6, <1>8, <3>2, AnswersStay DEF CheckOK, LeavesOK
    <3>3. QED
      BY <3>1, <3>2
  <2>2. QED
    BY <1>7, <2>1 DEF LeavesOK
<1>14. QED
  BY <1>6, <1>9, <1>10, <1>12, <1>13 DEF CheckOK

\* The row of the place a leaf is about.
LEMMA InferredEnds ==
  ASSUME RowsOK, CheckOK, Inferred, NEW k \in DOMAIN Infer, NEW t \in {"workspace", "user"},
         EndsIn(Infer, k, t)
  PROVE  /\ Row(k) = End(k) /\ Here(k)
         /\ t = "workspace" => End(k) \in call.places
         /\ t = "user" => End(k) \in call.people
<1>1. ArgsOK(Infer, call.args) /\ DOMAIN call.keys = DOMAIN Infer
  BY DEF CheckOK, CallOK
<1>2. \A j \in DOMAIN Infer : call.keys[j].left = <<>> /\ KeyOK(j)
  BY <1>1 DEF Inferred, CheckOK, KeysOK
<1>3. \A j \in DOMAIN Infer : Len(Infer[j].pipes) \in {1, 2} => Row(j) # NoRow
  <2>1. ASSUME NEW j \in DOMAIN Infer, Row(j) = NoRow PROVE Infer[j].pipes = <<>>
    BY <1>2, <2>1 DEF KeyOK, Row
  <2>2. Len(<<>>) = 0
    OBVIOUS
  <2>3. QED
    BY <2>1, <2>2
<1>4. /\ Len(Infer[k].pipes) \in {1, 2}
      /\ ~Infer[k].arg => /\ Infer[k].from \in DOMAIN Infer
                          /\ Len(Infer[Infer[k].from].pipes) \in {1, 2}
      /\ Looked(k) => t = Sort(Infer[k].from)
  <2>1. ASSUME NEW a, Looks(Infer, k, a), t = Sort(a)
        PROVE  Infer[k].arg /\ Infer[k].from = a /\ Len(Infer[k].pipes) = 1
    BY <2>1 DEF Looks, Arg
  <2>2. ASSUME NEW a, LooksUp(Infer, k, a)
        PROVE  Infer[k].arg /\ Len(Infer[k].pipes) = 2
    BY <2>2 DEF LooksUp, Arg
  <2>3. ASSUME NEW j, NEW a, NEW f, Refers(Infer, k, j, a, f, t)
        PROVE  /\ ~Infer[k].arg /\ Infer[k].from = j /\ Len(Infer[k].pipes) = 1
               /\ j \in DOMAIN Infer /\ Len(Infer[j].pipes) = 1
    BY <2>3 DEF Refers, Arg, From
  <2>4. ASSUME NEW j, RefersOn(Infer, k, j)
        PROVE  /\ ~Infer[k].arg /\ Infer[k].from = j /\ Len(Infer[k].pipes) = 2
               /\ j \in DOMAIN Infer /\ Len(Infer[j].pipes) = 1
    BY <2>4 DEF RefersOn, Arg, From
  <2>5. QED
    BY <2>1, <2>2, <2>3, <2>4 DEF EndsIn, Looked
<1>5. Here(k)
  BY <1>3, <1>4 DEF Here
<1>6. /\ End(k).id \in DOMAIN Rows /\ End(k) = Rows[End(k).id] /\ End(k).table = t
  BY <1>1, FinalRows DEF End
<1>7. Row(k) = End(k)
  <2>1. CASE Looked(k)
    <3>1. OfRow(Row(k), call.args[Infer[k].from])
      BY <1>2, <1>3, <1>4, <2>1 DEF KeyOK, Row
    <3>2. End(k) = Rows[call.args[Infer[k].from]]
      BY <2>1 DEF End, Final, Looked
    <3>3. Row(k) = Rows[call.args[Infer[k].from]]
      BY <1>6, <3>1, <3>2 DEF OfRow
    <3>4. QED
      BY <3>2, <3>3
  <2>2. CASE ~Looked(k)
    BY <1>2, <1>3, <1>4, <2>2 DEF KeyOK, Row
  <2>3. QED
    BY <2>1, <2>2
<1>8. QED
  BY <1>5, <1>7 DEF CheckOK, PlacesOK

\* The leaves find out what holds now.
LEMMA LeafKeepsChecks ==
  ASSUME RowsOK, CheckOK, NEW leaf \in Asked,
         \/ UserPermission(leaf) \/ UserToWorkspace(leaf)
         \/ WorkspaceSeat(leaf) \/ WorkspaceGrants(leaf)
  PROVE  CheckOK'
<1> DEFINE w == End(leaf.key)
           u == call.user
<1>1. call.op \in DOMAIN Gates /\ leaf \in Leaves(Rule) /\ leaf.kind \in Stored
  BY DEF CheckOK, CallOK, Asked
<1>2. /\ Plain(call.op)
      /\ leaf.kind = "workspaceRole" \/ leaf.kind = "permission" =>
           leaf.key \in DOMAIN Infer /\ EndsIn(Infer, leaf.key, "workspace")
      /\ leaf.kind = "workspaceRole" => call.op \in Reads
      /\ leaf.kind = "permission" => call.op \notin Reads
  BY <1>1, LeavesAsk DEF Infer, Rule
<1>3. Inferred
  BY DEF UserPermission, UserToWorkspace, WorkspaceSeat, WorkspaceGrants, Asking
<1>4. leaf.kind = "workspaceRole" \/ leaf.kind = "permission" =>
        Row(leaf.key) = w /\ w \in call.places
  BY <1>2, <1>3, InferredEnds
<1>5. SightOK
  BY DEF CheckOK
<1>6. leaf.kind = "permission" => leaf.permission \in PermissionsOf(Rule)
  BY <1>1 DEF PermissionsOf
<1>7. ASSUME NEW answer, Decide(leaf, answer)
      PROVE  /\ call'.leaves[leaf] = answer /\ call'.user = u /\ End(leaf.key)' = w
             /\ trusted' = trusted /\ seen.seats \subseteq seen'.seats
             /\ seen.grants \subseteq seen'.grants /\ (seen.lapsed => seen'.lapsed)
  <2>1. call' = [call EXCEPT !.leaves[leaf] = answer] /\ trusted' = trusted /\ Observe(0)
    BY <1>7 DEF Decide
  <2>2. call = [state |-> "checking", op |-> call.op, user |-> call.user, args |-> call.args,
                places |-> call.places, people |-> call.people,
                keys |-> [k \in DOMAIN Infer |-> call.keys[k]],
                leaves |-> [l \in Asked |-> call.leaves[l]]]
    BY DEF CheckOK, CallOK
  <2>3. call' = [state |-> "checking", op |-> call.op, user |-> call.user, args |-> call.args,
                 places |-> call.places, people |-> call.people, keys |-> call.keys,
                 leaves |-> [call.leaves EXCEPT ![leaf] = answer]]
    BY <2>1, <2>2
  <2>4. leaf \in DOMAIN call.leaves
    BY <2>2
  <2>5. /\ call'.state = "checking" /\ call'.leaves[leaf] = answer /\ call'.user = u
        /\ call'.op = call.op /\ call'.args = call.args
    BY <2>3, <2>4
  <2>6. QED
    BY <2>1, <2>5, Observed, SameCheck
<1>8. CASE UserPermission(leaf)
  <2> DEFINE answer == YesNo(u.id \in trusted)
  <2>1. leaf.kind = "userPermission" /\ Decide(leaf, answer)
    BY <1>8 DEF UserPermission, Asking
  <2>2. (answer = "yes" => u.id \in trusted) /\ (answer = "no" => u.id \notin trusted)
    BY DEF YesNo
  <2> HIDE DEF answer
  <2>3. LeafOK(leaf)'
    BY <1>7, <2>1, <2>2 DEF LeafOK
  <2>4. QED
    BY <2>1, <2>3, AnswersKeepChecks
<1>9. CASE UserToWorkspace(leaf)
  <2> DEFINE answer == YesNo(Row(leaf.key).owner = u.id
                             \/ activeMember(rows, u.id, Row(leaf.key).id))
  <2>1. leaf.kind = "workspaceRole" /\ Decide(leaf, answer)
    BY <1>9 DEF UserToWorkspace, Asking
  <2>2. /\ answer = "yes" => w.owner = u.id \/ activeMember(rows, u.id, w.id)
        /\ answer = "no" => w.owner # u.id /\ ~activeMember(rows, u.id, w.id)
    BY <1>4, <2>1 DEF YesNo
  <2> HIDE DEF answer
  <2>3. answer = "yes" => w.owner = u.id \/ w.id \in seen.seats
    BY <1>4, <1>5, <2>1, <2>2 DEF SightOK
  <2>4. answer = "no" => w.owner # u.id /\ (u.role = "ADMIN" \/ seen.lapsed)
    BY <1>2, <1>4, <1>5, <2>1, <2>2, NotEntitled
  <2>5. LeafOK(leaf)'
    BY <1>7, <2>1, <2>3, <2>4 DEF LeafOK
  <2>6. QED
    BY <2>1, <2>5, AnswersKeepChecks
<1>10. CASE WorkspaceSeat(leaf)
  <2> DEFINE answer == IF activeMember(rows, u.id, Row(leaf.key).id) THEN "seated" ELSE "no"
  <2>1. leaf.kind = "permission" /\ Decide(leaf, answer)
    BY <1>10 DEF WorkspaceSeat, Asking
  <2>2. /\ answer \in {"seated", "no"}
        /\ answer = "seated" => activeMember(rows, u.id, w.id)
        /\ answer = "no" => ~activeMember(rows, u.id, w.id)
    BY <1>4, <2>1
  <2> HIDE DEF answer
  <2>3. answer = "seated" => w.id \in seen.seats
    BY <1>4, <1>5, <2>1, <2>2 DEF SightOK
  <2>4. answer = "no" => w.owner = u.id \/ u.role = "ADMIN" \/ seen.lapsed
    BY <1>2, <1>4, <1>5, <2>1, <2>2, NotEntitled
  <2>5. LeafOK(leaf)'
    BY <1>7, <2>1, <2>2, <2>3, <2>4 DEF LeafOK
  <2>6. QED
    BY <2>1, <2>5, AnswersKeepChecks
<1>11. CASE WorkspaceGrants(leaf)
  <2> DEFINE answer == YesNo(granted(u.id, Row(leaf.key).id, leaf.permission))
  <2>1. /\ leaf.kind = "permission" /\ Decide(leaf, answer)
        /\ call.leaves[leaf] = "seated"
    BY <1>11 DEF WorkspaceGrants, Asking
  <2>2. /\ answer \in {"yes", "no"}
        /\ answer = "yes" => <<u.id, w.id, leaf.permission>> \in grants
        /\ answer = "no" => <<u.id, w.id, leaf.permission>> \notin grants
    BY <1>4, <2>1 DEF YesNo, granted
  <2> HIDE DEF answer
  <2>3. w.id \in seen.seats
    BY <2>1 DEF CheckOK, LeavesOK, LeafOK
  <2>4. answer = "yes" => <<u.id, w.id, leaf.permission>> \in seen.grants
    <3>1. <<u.id, w.id, leaf.permission>>[1] = u.id
      OBVIOUS
    <3>2. QED
      BY <1>5, <2>2, <3>1 DEF SightOK
  <2>5. answer = "no" => w.owner = u.id \/ u.role = "ADMIN" \/ seen.lapsed
    BY <1>2, <1>4, <1>5, <1>6, <2>1, <2>2, NotEntitled
  <2>6. LeafOK(leaf)'
    BY <1>7, <2>1, <2>2, <2>3, <2>4, <2>5 DEF LeafOK
  <2>7. QED
    BY <2>1, <2>6, AnswersKeepChecks
<1>12. QED
  BY <1>8, <1>9, <1>10, <1>11

\* Every key of a gate ends somewhere.
LEMMA EveryKeyEnds ==
  ASSUME NEW op \in DOMAIN Gates, NEW k \in DOMAIN Gates[op].infer
  PROVE  \E t : EndsIn(Gates[op].infer, k, t)
<1> DEFINE g == Gates[op]
           Gathered == \E ps, us : Gathers(g.infer, ps, us)
<1>1. Kinds(op, g) /\ k \in DOMAIN g.infer
  BY EveryGateHasAKind
<1> HIDE DEF g
<1>2. CASE Administers(op, g) \/ Founds(op, g)
  <2>1. g.infer = <<>>
    BY <1>2 DEF Administers, Founds, AdminsOnly, Gate
  <2>2. DOMAIN <<>> = {}
    OBVIOUS
  <2>3. FALSE
    BY <1>1, <2>1, <2>2
  <2>4. QED
    BY <2>3
<1>3. CASE Works(op, g) \/ WorksTwice(op, g) \/ Shows(op, g) \/ Owns(op, g)
  <2>1. Gathered
    BY <1>3 DEF Works, WorksTwice, Shows, Owns
  <2>2. QED
    BY <1>1, <2>1, GatheredEnds DEF g
<1>4. CASE Acts(op, g) \/ ActsFreely(op, g) \/ Invites(op, g) \/ Cancels(op, g)
  <2>1. Gathered
    BY <1>4 DEF Acts, ActsFreely, Invites, Cancels
  <2>2. QED
    BY <1>1, <2>1, GatheredEnds DEF g
<1>5. QED
  BY <1>1, <1>2, <1>3, <1>4 DEF Kinds

\* A key that builds on another builds on one that an argument names.
LEMMA KeysStartAtArgs ==
  ASSUME NEW infer, NEW k, NEW t, EndsIn(infer, k, t), ~infer[k].arg
  PROVE  infer[k].from \in DOMAIN infer /\ infer[infer[k].from].arg
<1>1. ASSUME NEW a, Looks(infer, k, a) \/ LooksUp(infer, k, a) PROVE infer[k].arg
  BY <1>1 DEF Looks, LooksUp, Arg
<1>2. ASSUME NEW j, NEW a, NEW f, Refers(infer, k, j, a, f, t)
      PROVE  infer[k].from = j /\ j \in DOMAIN infer /\ infer[j].arg
  BY <1>2 DEF Refers, From, Arg
<1>3. ASSUME NEW j, RefersOn(infer, k, j)
      PROVE  infer[k].from = j /\ j \in DOMAIN infer /\ infer[j].arg
  BY <1>3 DEF RefersOn, From, Arg
<1>4. QED
  BY <1>1, <1>2, <1>3 DEF EndsIn

\* A key comes on by one pipe.
LEMMA PipesLead ==
  ASSUME RowsOK, CheckOK, NEW k \in DOMAIN Infer, Ready(k), NEW id,
         id = (IF Head(call.keys[k].left) = "id" THEN call.args[Infer[k].from]
               ELSE Source(k)[Head(call.keys[k].left)]),
         id \in DOMAIN rows, NEW key,
         key = [row |-> rows[id], left |-> Tail(call.keys[k].left)]
  PROVE  /\ key.row # NoRow
         /\ \/ /\ key.left = <<"workspace">>
               /\ Len(Infer[k].pipes) = 2 /\ key.row.workspace = End(k).id
            \/ /\ key.left = <<>>
               /\ IF Looked(k) THEN OfRow(key.row, call.args[Infer[k].from])
                  ELSE key.row = End(k)
         /\ Row(k) = NoRow /\ Infer[k].arg => Start(Infer, call.args, k) \in DOMAIN rows
<1> DEFINE infer == Infer
           args == call.args
           left == call.keys[k].left
           e == infer[k]
           Goal == /\ key.row # NoRow
                   /\ \/ /\ key.left = <<"workspace">>
                         /\ Len(e.pipes) = 2 /\ key.row.workspace = End(k).id
                      \/ /\ key.left = <<>>
                         /\ IF Looked(k) THEN OfRow(key.row, args[e.from])
                            ELSE key.row = End(k)
                   /\ Row(k) = NoRow /\ e.arg => Start(infer, args, k) \in DOMAIN rows
<1>1. ArgsOK(infer, args) /\ call.op \in DOMAIN Gates
  BY DEF CheckOK, CallOK
<1>2. PICK t : EndsIn(infer, k, t)
  BY <1>1, EveryKeyEnds DEF Infer
<1>3. /\ rows[id] # NoRow /\ OfRow(rows[id], id) /\ id \in DOMAIN Rows
      /\ rows[id].table = Rows[id].table
  BY RowsAreRows
<1>4. key.row = rows[id] /\ key.left = Tail(left)
  OBVIOUS
<1>5. left # <<>> /\ (~e.arg => call.keys[e.from].left = <<>>)
  BY DEF Ready, Infer
<1>6. Source(k) = IF e.arg \/ Row(k) # NoRow THEN Row(k) ELSE Row(e.from)
  BY DEF Source, Infer
<1>7. KeyOK(k)
  BY DEF CheckOK, KeysOK
<1>8. id = IF Head(left) = "id" THEN args[e.from] ELSE Source(k)[Head(left)]
  OBVIOUS
<1>9. k \in DOMAIN infer /\ End(k) = Final(infer, args, k)
  BY DEF End
<1> SUFFICES Goal
  OBVIOUS
<1> HIDE DEF infer
<1>10. CASE Row(k) # NoRow
  <2>1. left = <<"workspace">> /\ Len(e.pipes) = 2 /\ Row(k).workspace = End(k).id
    BY <1>5, <1>7, <1>10 DEF KeyOK, Row, infer
  <2>2. id = End(k).id /\ Tail(left) = <<>>
    BY <1>6, <1>8, <1>10, <2>1
  <2>3. ~Looked(k)
    BY <2>1 DEF Looked, infer
  <2>4. t = "workspace"
    <3>1. ASSUME NEW a, Looks(infer, k, a) PROVE FALSE
      BY <2>1, <3>1 DEF Looks, Arg
    <3>2. ASSUME NEW j, NEW a, NEW f, Refers(infer, k, j, a, f, t) PROVE FALSE
      BY <2>1, <3>2 DEF Refers, From
    <3>3. QED
      BY <1>2, <3>1, <3>2 DEF EndsIn
  <2>5. In("workspace", End(k).id) /\ End(k) = Rows[End(k).id]
    BY <1>1, <1>2, <2>4, FinalRows DEF End, infer
  <2>6. rows[id] = End(k)
    BY <2>2, <2>5, PlacesStay
  <2>7. QED
    BY <1>3, <1>4, <1>10, <2>2, <2>3, <2>6
<1>11. CASE Row(k) = NoRow
  <2>1. left = e.pipes
    BY <1>5, <1>7, <1>11 DEF KeyOK, Row, infer
  <2>2. ASSUME NEW a, Looks(infer, k, a) PROVE Goal
    <3>1. e.arg /\ e.from = a /\ e.pipes = <<"id">> /\ Len(e.pipes) = 1
      BY <2>2 DEF Looks, Arg
    <3>2. id = args[a] /\ Tail(left) = <<>>
      BY <1>8, <2>1, <3>1
    <3>3. Looked(k) /\ Start(infer, args, k) = args[a]
      BY <3>1 DEF Looked, Start, infer
    <3>4. QED
      BY <1>3, <1>4, <3>1, <3>2, <3>3
  <2>3. ASSUME NEW a, LooksUp(infer, k, a) PROVE Goal
    <3>1. e.arg /\ e.from = a /\ e.pipes = <<"id", "workspace">> /\ Len(e.pipes) = 2
      BY <2>3 DEF LooksUp, Arg
    <3>2. id = args[a] /\ Tail(left) = <<"workspace">>
      BY <1>8, <2>1, <3>1
    <3>3. In(Sort(a), args[a]) /\ Sort(a) \in {"item", "tag"}
      BY <1>9, <1>1, <2>3, <3>1 DEF ArgsOK, LooksUp
    <3>4. rows[id] = Rows[id] /\ In("workspace", Rows[id].workspace)
      <4>1. Rows[id].table \in {"item", "tag"}
        BY <3>2, <3>3 DEF In
      <4>2. QED
        BY <1>3, <4>1, References DEF OfRow
    <3>5. End(k) = Rows[Rows[args[a]].workspace]
      BY <1>9, <3>1 DEF Final
    <3>6. End(k) = Rows[Rows[id].workspace]
      BY <3>2, <3>5
    <3>7. End(k).id = Rows[id].workspace
      BY <3>4, <3>6, RowsOfRows DEF In
    <3>8. Start(infer, args, k) = id
      BY <3>1, <3>2 DEF Start
    <3>9. QED
      BY <1>3, <1>4, <3>1, <3>2, <3>4, <3>7, <3>8
  <2>4. ASSUME NEW j, NEW a, NEW f, Refers(infer, k, j, a, f, t) PROVE Goal
    <3>1. /\ ~e.arg /\ e.from = j /\ e.pipes = <<f>> /\ Len(e.pipes) = 1
          /\ infer[j].arg /\ infer[j].from = a /\ j \in DOMAIN infer
          /\ infer[j].pipes = <<"id">> /\ Len(infer[j].pipes) = 1
          /\ <<Sort(a), f, t>> \in Fields
      BY <2>4 DEF Refers, Arg, From
    <3>2. f # "id"
      BY <3>1 DEF Fields
    <3>3. id = Row(j)[f] /\ Tail(left) = <<>>
      BY <1>6, <1>8, <1>11, <2>1, <3>1, <3>2
    <3>4. OfRow(Row(j), args[a])
      <4>1. KeyOK(j) /\ call.keys[j].left = <<>>
        BY <1>5, <3>1 DEF CheckOK, KeysOK, infer
      <4>2. Looked(j)
        BY <3>1 DEF Looked, infer
      <4>3. QED
        BY <3>1, <4>1, <4>2 DEF KeyOK, Row, infer
    <3>5. In(Sort(a), args[a])
      BY <1>1, <3>1 DEF ArgsOK
    <3>6. Row(j)[f] = Rows[args[a]][f] /\ In(t, Rows[args[a]][f]) /\ t \in {"workspace", "user"}
      BY <3>1, <3>4, <3>5, FieldsReferTo
    <3>7. rows[id] = Rows[Rows[args[a]][f]]
      BY <3>3, <3>6, PlacesStay
    <3>8. End(k) = Rows[Rows[args[a]][f]] /\ ~Looked(k)
      BY <3>1 DEF End, Final, Looked, infer
    <3>9. QED
      BY <1>3, <1>4, <3>1, <3>3, <3>7, <3>8
  <2>5. ASSUME NEW j, RefersOn(infer, k, j) PROVE Goal
    <3>1. /\ ~e.arg /\ e.from = j /\ e.pipes = <<"item", "workspace">> /\ Len(e.pipes) = 2
          /\ infer[j].arg /\ infer[j].from = "payment" /\ j \in DOMAIN infer
          /\ infer[j].pipes = <<"id">> /\ Len(infer[j].pipes) = 1
      BY <2>5 DEF RefersOn, Arg, From
    <3>2. id = Row(j).item /\ Tail(left) = <<"workspace">>
      BY <1>6, <1>8, <1>11, <2>1, <3>1
    <3>3. OfRow(Row(j), args["payment"])
      <4>1. KeyOK(j) /\ call.keys[j].left = <<>>
        BY <1>5, <3>1 DEF CheckOK, KeysOK, infer
      <4>2. Looked(j)
        BY <3>1 DEF Looked, infer
      <4>3. QED
        BY <3>1, <4>1, <4>2 DEF KeyOK, Row, infer
    <3>4. In("payment", args["payment"])
      BY <1>1, <3>1 DEF ArgsOK, Sort
    <3>5. In("item", id) /\ Rows[id].workspace = Rows[Rows[args["payment"]].item].workspace
      BY <3>2, <3>3, <3>4 DEF OfRow, In
    <3>6. rows[id] = Rows[id] /\ In("workspace", Rows[id].workspace)
      BY <1>3, <3>5, References DEF OfRow, In
    <3>7. End(k) = Rows[Rows[Rows[args["payment"]].item].workspace]
      BY <1>9, <3>1 DEF Final
    <3>8. End(k) = Rows[Rows[id].workspace]
      BY <3>5, <3>7
    <3>9. End(k).id = Rows[id].workspace
      BY <3>6, <3>8, RowsOfRows DEF In
    <3>10. QED
      BY <1>3, <1>4, <3>1, <3>2, <3>6, <3>9
  <2>6. QED
    BY <1>2, <2>2, <2>3, <2>4, <2>5 DEF EndsIn
<1>12. QED
  BY <1>10, <1>11

LEMMA PipeKeepsChecks ==
  ASSUME RowsOK, CheckOK, NEW k \in DOMAIN Infer, Pipe(k), call'.state = "checking"
  PROVE  CheckOK'
<1> DEFINE left == call.keys[k].left
           id == IF Head(left) = "id" THEN call.args[Infer[k].from] ELSE Source(k)[Head(left)]
           key == [row |-> rows[id], left |-> Tail(left)]
<1>1. /\ Ready(k) /\ id \in DOMAIN rows
      /\ call' = [call EXCEPT !.keys[k] = key]
      /\ rows' = rows /\ trusted' = trusted /\ grants' = grants /\ Observe(0)
  BY DEF Pipe, Answer, Infer
<1>2. /\ key.row # NoRow
      /\ \/ /\ key.left = <<"workspace">>
            /\ Len(Infer[k].pipes) = 2 /\ key.row.workspace = End(k).id
         \/ /\ key.left = <<>>
            /\ IF Looked(k) THEN OfRow(key.row, call.args[Infer[k].from])
               ELSE key.row = End(k)
      /\ Row(k) = NoRow /\ Infer[k].arg => Start(Infer, call.args, k) \in DOMAIN rows
  <2> DEFINE i == id
             new == key
  <2>1. Ready(k) /\ i \in DOMAIN rows
    BY <1>1
  <2>2. i = (IF Head(call.keys[k].left) = "id" THEN call.args[Infer[k].from]
             ELSE Source(k)[Head(call.keys[k].left)])
    OBVIOUS
  <2>3. new = [row |-> rows[i], left |-> Tail(call.keys[k].left)]
    OBVIOUS
  <2> HIDE DEF i, new
  <2>4. /\ new.row # NoRow
        /\ \/ /\ new.left = <<"workspace">>
              /\ Len(Infer[k].pipes) = 2 /\ new.row.workspace = End(k).id
           \/ /\ new.left = <<>>
              /\ IF Looked(k) THEN OfRow(new.row, call.args[Infer[k].from])
                 ELSE new.row = End(k)
        /\ Row(k) = NoRow /\ Infer[k].arg => Start(Infer, call.args, k) \in DOMAIN rows
    BY <2>1, <2>2, <2>3, PipesLead
  <2>5. QED
    BY <2>4 DEF new
<1> HIDE DEF key, id, left
<1>3. call = [state |-> "checking", op |-> call.op, user |-> call.user, args |-> call.args,
              places |-> call.places, people |-> call.people,
              keys |-> [x \in DOMAIN Infer |-> call.keys[x]],
              leaves |-> [l \in Asked |-> call.leaves[l]]]
  BY DEF CheckOK, CallOK
<1>4. call' = [state |-> "checking", op |-> call.op, user |-> call.user, args |-> call.args,
               places |-> call.places, people |-> call.people,
               keys |-> [call.keys EXCEPT ![k] = key], leaves |-> call.leaves]
  BY <1>1, <1>3
<1>5. /\ call'.state = "checking" /\ call'.op = call.op /\ call'.user = call.user
      /\ call'.args = call.args /\ call'.places = call.places /\ call'.people = call.people
      /\ call'.leaves = call.leaves /\ call'.keys = [call.keys EXCEPT ![k] = key]
  BY <1>4
<1>6. /\ call.leaves = [l \in Asked |-> call.leaves[l]]
      /\ call.keys = [x \in DOMAIN Infer |-> call.keys[x]]
  BY <1>3
<1>7. /\ SightOK'
      /\ seen.seats \subseteq seen'.seats /\ seen.grants \subseteq seen'.grants
      /\ seen.lapsed => seen'.lapsed
  BY <1>1, <1>5, Observed
<1>8. Infer' = Infer /\ Rule' = Rule /\ Asked' = Asked
      /\ \A x : End(x)' = End(x) /\ (Looked(x)' <=> Looked(x))
  BY <1>5, SameCheck
<1>9. /\ call'.keys = [x \in DOMAIN Infer |-> call'.keys[x]] /\ call'.keys[k] = key
      /\ \A x \in DOMAIN Infer : x # k => call'.keys[x] = call.keys[x]
  BY <1>5, <1>6
<1>10. CallOK'
  <2>1. call' = [state |-> "checking", op |-> call'.op, user |-> call'.user, args |-> call'.args,
                 places |-> call'.places, people |-> call'.people,
                 keys |-> [x \in DOMAIN Infer |-> call'.keys[x]],
                 leaves |-> [l \in Asked |-> call'.leaves[l]]]
    BY <1>4, <1>5, <1>6, <1>9
  <2>2. QED
    BY <1>5, <1>8, <2>1 DEF CheckOK, CallOK
<1>11. KeysOK'
  <2>1. ASSUME NEW x \in DOMAIN Infer PROVE KeyOK(x)'
    <3>1. CASE x = k
      BY <1>2, <1>5, <1>8, <1>9, <3>1 DEF KeyOK
    <3>2. CASE x # k
      <4>1. KeyOK(x)
        BY DEF CheckOK, KeysOK
      <4>2. QED
        BY <1>5, <1>8, <1>9, <3>2, <4>1 DEF KeyOK
    <3>3. QED
      BY <3>1, <3>2
  <2>2. QED
    BY <1>8, <2>1 DEF KeysOK
<1>12. ASSUME NEW x \in DOMAIN Infer, Here(x)' PROVE Here(x)
  <2> DEFINE root == IF Infer[x].arg THEN x ELSE Infer[x].from
  <2>1. Start(Infer, call.args, x)' = Start(Infer, call.args, x)
    BY <1>5, <1>8 DEF Start
  <2>2. CASE root = k /\ Row(k) = NoRow /\ Infer[k].arg
    <3>1. Start(Infer, call.args, x) = Start(Infer, call.args, k)
      BY <2>2 DEF Start
    <3>2. QED
      BY <1>2, <2>2, <3>1 DEF Here
  <2>3. CASE root = k /\ Row(k) # NoRow
    BY <2>3 DEF Here
  <2>4. CASE root = k /\ ~Infer[k].arg
    <3>1. call.op \in DOMAIN Gates
      BY DEF CheckOK, CallOK
    <3>2. \E t : EndsIn(Infer, x, t)
      BY <3>1, EveryKeyEnds DEF Infer
    <3>3. QED
      BY <2>4, <3>2, KeysStartAtArgs
  <2>5. CASE root # k
    <3>1. call'.keys[root] = call.keys[root]
      BY <1>5, <1>6, <2>5
    <3>2. QED
      BY <1>1, <1>5, <1>8, <1>12, <2>1, <3>1 DEF Here, Row
  <2>6. QED
    BY <2>2, <2>3, <2>4, <2>5
<1>13. PlacesOK'
  BY <1>5, <1>12, PlacesKept DEF CheckOK
<1>14. LeavesOK'
  BY <1>1, <1>5, <1>7, <1>8, AnswersStay DEF CheckOK, LeavesOK
<1>15. QED
  BY <1>7, <1>10, <1>11, <1>13, <1>14 DEF CheckOK

LEMMA RequestsCheck ==
  ASSUME RowsOK, NEW op \in DOMAIN Gates, NEW user, NEW args \in ArgsFor(op),
         Request(op, user, args)
  PROVE  CheckOK'
<1> DEFINE infer == Gates[op].infer
<1>1. /\ call' = [state |-> "checking", op |-> op, user |-> user, args |-> args,
              places |-> Places(infer, args), people |-> People(infer, args),
              keys |-> [k \in DOMAIN infer |-> [row |-> NoRow, left |-> infer[k].pipes]],
              leaves |-> [l \in {x \in Leaves(Gates[op].rule) : x.kind \in Stored} |-> "open"]]
      /\ rows' = rows /\ trusted' = trusted /\ Observe(0)
  BY DEF Request
<1>2. /\ call'.state = "checking" /\ call'.op = op /\ call'.args = args
      /\ call'.places = Places(infer, args) /\ call'.people = People(infer, args)
      /\ call'.keys = [k \in DOMAIN infer |-> [row |-> NoRow, left |-> infer[k].pipes]]
      /\ call'.leaves = [l \in {x \in Leaves(Gates[op].rule) : x.kind \in Stored} |-> "open"]
  BY <1>1
<1>3. SightOK'
  BY <1>1, <1>2, Observed
<1>4. /\ Infer' = infer /\ Rule' = Gates[op].rule
      /\ Asked' = {x \in Leaves(Gates[op].rule) : x.kind \in Stored}
  BY <1>2 DEF Infer, Rule, Asked
<1>5. \A k : End(k)' = Final(infer, args, k)
  BY <1>2, <1>4 DEF End
<1>6. ArgsOK(infer, args)
  <2>1. \A k \in DOMAIN infer : infer[k].arg =>
          args[infer[k].from] \in DOMAIN Rows
          /\ Rows[args[infer[k].from]].table = Sort(infer[k].from)
    BY DEF ArgsFor, Sort
  <2>2. QED
    BY <2>1 DEF ArgsOK, In
<1>7. \A k \in DOMAIN infer : \E t : EndsIn(infer, k, t)
  BY EveryKeyEnds
<1> HIDE DEF infer
<1>8. CallOK'
  <2>1. ArgsOK(Infer, call.args)'
    BY <1>2, <1>4, <1>6 DEF ArgsOK
  <2>2. QED
    BY <1>1, <1>2, <1>4, <2>1 DEF CallOK
<1>9. KeysOK'
  BY <1>2, <1>4 DEF KeysOK, KeyOK
<1>10. LeavesOK'
  <2>1. \A l \in Asked' : call'.leaves[l] = "open"
    BY <1>2, <1>4
  <2>2. QED
    BY <2>1 DEF LeavesOK, LeafOK
<1>11. ASSUME NEW k \in DOMAIN infer, NEW t, EndsIn(infer, k, t)
       PROVE  /\ Start(infer, args, k) \notin DOMAIN rows => Reach(infer, args, k) = NoRow
              /\ Start(infer, args, k) \in DOMAIN rows =>
                   /\ Reach(infer, args, k) # NoRow /\ Reach(infer, args, k).table = t
                   /\ t \in {"workspace", "user"} => Reach(infer, args, k) = Final(infer, args, k)
  BY <1>6, <1>11, KeysReach
<1>12. PlacesOK'
  <2>1. \A w \in Places(infer, args) :
          \E k \in DOMAIN infer : w = Final(infer, args, k) /\ EndsIn(infer, k, "workspace")
    BY <1>7, <1>11 DEF Places
  <2>2. \A w \in People(infer, args) :
          \E k \in DOMAIN infer : w = Final(infer, args, k) /\ EndsIn(infer, k, "user")
    BY <1>7, <1>11 DEF People
  <2>3. \A k \in DOMAIN infer : Start(infer, args, k) \in DOMAIN rows =>
          /\ EndsIn(infer, k, "workspace") => Final(infer, args, k) \in Places(infer, args)
          /\ EndsIn(infer, k, "user") => Final(infer, args, k) \in People(infer, args)
    BY <1>11 DEF Places, People
  <2>4. ASSUME NEW k \in DOMAIN infer, Here(k)' PROVE Start(infer, args, k) \in DOMAIN rows
    <3>1. ~infer[k].arg => infer[k].from \in DOMAIN infer
      BY <1>7, KeysStartAtArgs
    <3>3. call'.keys[IF infer[k].arg THEN k ELSE infer[k].from].row = NoRow
      BY <1>2, <3>1
    <3>4. QED
      BY <1>1, <1>2, <1>4, <2>4, <3>3 DEF Here, Row
  <2>5. QED
    BY <1>2, <1>4, <1>5, <2>1, <2>2, <2>3, <2>4 DEF PlacesOK
<1>13. QED
  BY <1>3, <1>8, <1>9, <1>10, <1>12 DEF CheckOK

-------------------------------------------------------------------------------
(* The verdict, for each kind of gate.                                       *)

\* What was seen is enough.
EntitledOnSight ==
  EntitledBy(call.op, call.user, call.places, call.people, LAMBDA w : w \in seen.seats,
             LAMBDA w, p : <<call.user.id, w, p>> \in seen.grants)

Decided ==
  RowsOK /\ CheckOK /\ Inferred /\ \A l \in DOMAIN call.leaves : call.leaves[l] \in {"yes", "no"}

Right ==
  /\ isRuleMatch(Rule) => EntitledOnSight
  /\ ~isRuleMatch(Rule) => seen.lapsed

LEMMA AdministratorsAre == call.user.role = "ADMIN" => EntitledOnSight
BY DEF EntitledOnSight, EntitledBy

LEMMA EntitledWhen ==
  ASSUME Plain(call.op),
         \A w \in call.places :
           \/ w.owner = call.user.id
           \/ call.op \in Reads /\ w.id \in seen.seats
           \/ /\ PermissionsOf(Rule) # {} /\ w.id \in seen.seats
              /\ \A p \in PermissionsOf(Rule) : <<call.user.id, w.id, p>> \in seen.grants,
         \A person \in call.people : person.id = call.user.id,
         (\E l \in Leaves(Rule) : l.kind = "userPermission") => call.user.id \in trusted
  PROVE  EntitledOnSight
<1>1. /\ call.op # "cancelWorkspaceInvite"
      /\ call.op \notin {"deleteUser", "banUser", "unbanUser", "users", "userPermissions"}
  BY DEF Plain, AdminOps
<1>2. QED
  BY <1>1 DEF EntitledOnSight, EntitledBy, Rule

LEMMA PlacesGathered ==
  ASSUME Decided, NEW ps, NEW us, Gathers(Infer, ps, us)
  PROVE  /\ call.places = {End(k) : k \in ps} /\ call.people = {End(k) : k \in us}
         /\ \A k \in ps \cup us : Row(k) = End(k)
<1>1. RowsOK /\ CheckOK /\ Inferred /\ ArgsOK(Infer, call.args)
  BY DEF Decided, CheckOK, CallOK
<1>2. /\ \A k \in ps : k \in DOMAIN Infer /\ EndsIn(Infer, k, "workspace")
      /\ \A k \in us : k \in DOMAIN Infer /\ EndsIn(Infer, k, "user")
  BY GatheredEnds
<1>3. \A k \in DOMAIN Infer : \A t : EndsIn(Infer, k, t) => End(k).table = t
  BY <1>1, FinalRows DEF End
<1>4. ASSUME NEW k \in DOMAIN Infer
      PROVE  /\ EndsIn(Infer, k, "workspace") => k \in ps
             /\ EndsIn(Infer, k, "user") => k \in us
  <2>1. PICK t : /\ EndsIn(Infer, k, t)
                 /\ t = "workspace" <=> k \in ps
                 /\ t = "user" <=> k \in us
    BY DEF Gathers, Leads
  <2>2. QED
    BY <1>3, <2>1
<1>5. /\ \A k \in ps : Row(k) = End(k) /\ End(k) \in call.places
      /\ \A k \in us : Row(k) = End(k) /\ End(k) \in call.people
  BY <1>1, <1>2, InferredEnds
<1>6. /\ \A w \in call.places : \E k \in ps : w = End(k)
      /\ \A u \in call.people : \E k \in us : u = End(k)
  BY <1>1, <1>4 DEF CheckOK, PlacesOK
<1>7. QED
  BY <1>5, <1>6

LEMMA DecidedLeaves ==
  ASSUME Decided, NEW l \in Leaves(Rule), l.kind \in Stored
  PROVE  call.leaves[l] \in {"yes", "no"} /\ LeafOK(l)
<1>1. l \in Asked
  BY DEF Asked
<1>2. DOMAIN call.leaves = Asked
  BY DEF Decided, CheckOK, CallOK
<1>3. QED
  BY <1>1, <1>2 DEF Decided, CheckOK, LeavesOK

LEMMA MayTells ==
  ASSUME Decided, NEW p, NEW k, May(p, k) \in Leaves(Rule)
  PROVE  /\ call.leaves[May(p, k)] \in {"yes", "no"}
         /\ call.leaves[May(p, k)] = "yes" =>
              End(k).id \in seen.seats /\ <<call.user.id, End(k).id, p>> \in seen.grants
         /\ call.leaves[May(p, k)] = "no" =>
              seen.lapsed \/ call.user.role = "ADMIN" \/ End(k).owner = call.user.id
<1> DEFINE l == May(p, k)
<1>1. l.kind = "permission" /\ l.key = k /\ l.permission = p
  BY KindsOfLeaves
<1>2. l \in Leaves(Rule) /\ l.kind \in Stored
  BY <1>1 DEF Stored
<1> HIDE DEF l
<1>3. call.leaves[l] \in {"yes", "no"} /\ LeafOK(l)
  BY <1>2, DecidedLeaves
<1>4. /\ call.leaves[l] \in {"yes", "no"}
      /\ call.leaves[l] = "yes" =>
           End(k).id \in seen.seats /\ <<call.user.id, End(k).id, p>> \in seen.grants
      /\ call.leaves[l] = "no" =>
           seen.lapsed \/ call.user.role = "ADMIN" \/ End(k).owner = call.user.id
  BY <1>1, <1>3 DEF LeafOK
<1>5. QED
  BY <1>4 DEF l

LEMMA TrustedTells ==
  ASSUME Decided, Trusted \in Leaves(Rule)
  PROVE  /\ call.leaves[Trusted] \in {"yes", "no"}
         /\ call.leaves[Trusted] = "yes" <=> call.user.id \in trusted
<1>1. Trusted.kind = "userPermission" /\ Trusted.kind \in Stored
  BY KindsOfLeaves DEF Stored
<1>2. call.leaves[Trusted] \in {"yes", "no"} /\ LeafOK(Trusted)
  BY <1>1, DecidedLeaves
<1>3. QED
  BY <1>1, <1>2 DEF LeafOK

LEMMA MemberTells ==
  ASSUME Decided, NEW k, Member(k) \in Leaves(Rule)
  PROVE  /\ call.leaves[Member(k)] \in {"yes", "no"}
         /\ call.leaves[Member(k)] = "yes" =>
              End(k).owner = call.user.id \/ End(k).id \in seen.seats
         /\ call.leaves[Member(k)] = "no" =>
              seen.lapsed \/ call.user.role = "ADMIN"
<1> DEFINE l == Member(k)
<1>1. l.kind = "workspaceRole" /\ l.key = k
  BY KindsOfLeaves
<1>2. l \in Leaves(Rule) /\ l.kind \in Stored
  BY <1>1 DEF Stored
<1> HIDE DEF l
<1>3. call.leaves[l] \in {"yes", "no"} /\ LeafOK(l)
  BY <1>2, DecidedLeaves
<1>4. /\ call.leaves[l] \in {"yes", "no"}
      /\ call.leaves[l] = "yes" => End(k).owner = call.user.id \/ End(k).id \in seen.seats
      /\ call.leaves[l] = "no" => seen.lapsed \/ call.user.role = "ADMIN"
  BY <1>1, <1>3 DEF LeafOK
<1>5. QED
  BY <1>4 DEF l

LEMMA OwnerOrMayMatches ==
  ASSUME NEW p, NEW k, Row(k) = End(k)
  PROVE  LET held == End(k).owner = call.user.id \/ call.leaves[May(p, k)] = "yes"
         IN  (Piece(OwnerOrMay(p, k)) <=> held) /\ (Part(OwnerOrMay(p, k)) <=> held)
<1>1. Simple(Owner(k)) /\ Simple(May(p, k))
  BY LeavesAreSimple
<1>2. /\ isLeafMatch(Owner(k)) <=> End(k).owner = call.user.id
      /\ isLeafMatch(May(p, k)) <=> call.leaves[May(p, k)] = "yes"
  BY LeavesMatch
<1>3. /\ Piece(Owner(k)) <=> isLeafMatch(Owner(k))
      /\ Piece(May(p, k)) <=> isLeafMatch(May(p, k))
  BY <1>1, PiecesMatch
<1>4. Piece(Or({Owner(k), May(p, k)})) <=> \E s \in {Owner(k), May(p, k)} : isLeafMatch(s)
  BY PiecesMatch
<1>5. Part(Or({Owner(k), May(p, k)})) <=> \E s \in {Owner(k), May(p, k)} : Piece(s)
  BY PartsMatch
<1>6. OwnerOrMay(p, k) = Or({Owner(k), May(p, k)})
  BY DEF OwnerOrMay
<1>7. QED
  BY <1>2, <1>3, <1>4, <1>5, <1>6

LEMMA AdminMatches ==
  /\ isRuleMatch(Admin) <=> call.user.role = "ADMIN"
  /\ Part(Admin) <=> call.user.role = "ADMIN"
<1>1. Simple(Admin)
  BY LeavesAreSimple
<1>2. QED
  BY <1>1, LeavesMatch, PartsMatch, RulesMatch

LEMMA SelfMatches ==
  ASSUME NEW k, Row(k) = End(k)
  PROVE  /\ Part(Self(k)) <=> End(k).id = call.user.id
         /\ Piece(Self(k)) <=> End(k).id = call.user.id
<1>1. Simple(Self(k))
  BY LeavesAreSimple
<1>2. isLeafMatch(Self(k)) <=> End(k).id = call.user.id
  BY LeavesMatch
<1>3. QED
  BY <1>1, <1>2, PartsMatch, PiecesMatch

LEMMA OwnerMatches ==
  ASSUME NEW k, Row(k) = End(k)
  PROVE  Part(Owner(k)) <=> End(k).owner = call.user.id
<1>1. Simple(Owner(k))
  BY LeavesAreSimple
<1>2. isLeafMatch(Owner(k)) <=> End(k).owner = call.user.id
  BY LeavesMatch
<1>3. QED
  BY <1>1, <1>2, PartsMatch

LEMMA WorksRight ==
  ASSUME Decided, Works(call.op, Gates[call.op])
  PROVE  Right
<1> DEFINE w == End("workspace")
           u == call.user
<1>1. PICK p : Rule = Or({OwnerOrMay(p, "workspace"), Admin})
  BY DEF Works, Rule
<1>2. Plain(call.op) /\ Gathers(Infer, {"workspace"}, {})
  BY DEF Works, Infer
<1>3. call.places = {w} /\ call.people = {} /\ Row("workspace") = w
  BY <1>2, PlacesGathered
<1>4. Leaves(Rule) = {Owner("workspace"), May(p, "workspace"), Admin}
  BY <1>1, LeavesWorks
<1> DEFINE a == call.leaves[May(p, "workspace")]
<1>5. /\ a \in {"yes", "no"}
      /\ a = "yes" => w.id \in seen.seats /\ <<u.id, w.id, p>> \in seen.grants
      /\ a = "no" => seen.lapsed \/ u.role = "ADMIN" \/ w.owner = u.id
  BY <1>4, MayTells
<1>6. isRuleMatch(Rule) <=> w.owner = u.id \/ a = "yes" \/ u.role = "ADMIN"
  <2>1. isRuleMatch(Rule) <=> Part(OwnerOrMay(p, "workspace")) \/ Part(Admin)
    BY <1>1, RulesMatch
  <2>2. QED
    BY <1>3, <2>1, OwnerOrMayMatches, AdminMatches
<1>7. PermissionsOf(Rule) = {p} /\ ~\E l \in Leaves(Rule) : l.kind = "userPermission"
  BY <1>4, KindsOfLeaves DEF PermissionsOf
<1> HIDE DEF w, u, a
<1>8. w.owner = u.id \/ a = "yes" => EntitledOnSight
  BY <1>2, <1>3, <1>5, <1>7, EntitledWhen DEF u
<1>9. u.role = "ADMIN" => EntitledOnSight
  BY AdministratorsAre DEF u
<1>10. QED
  BY <1>5, <1>6, <1>8, <1>9 DEF Right

LEMMA WorksTwiceRight ==
  ASSUME Decided, WorksTwice(call.op, Gates[call.op])
  PROVE  Right
<1> DEFINE w(k) == End(k)
           u == call.user
           ks == {"first", "second"}
<1>1. PICK p : Rule = Or({Admin, And({OwnerOrMay(p, "first"), OwnerOrMay(p, "second")})})
  BY DEF WorksTwice, Rule
<1>2. Plain(call.op) /\ Gathers(Infer, ks, {})
  BY DEF WorksTwice, Infer
<1>3. call.places = {w(k) : k \in ks} /\ call.people = {} /\ \A k \in ks : Row(k) = w(k)
  BY <1>2, PlacesGathered
<1>4. Leaves(Rule)
        = {Owner("first"), May(p, "first"), Owner("second"), May(p, "second"), Admin}
  BY <1>1, LeavesWorksTwice
<1> DEFINE a(k) == call.leaves[May(p, k)]
<1>5. \A k \in ks :
        /\ a(k) \in {"yes", "no"}
        /\ a(k) = "yes" => w(k).id \in seen.seats /\ <<u.id, w(k).id, p>> \in seen.grants
        /\ a(k) = "no" => seen.lapsed \/ u.role = "ADMIN" \/ w(k).owner = u.id
  BY <1>4, MayTells
<1>6. isRuleMatch(Rule)
        <=> u.role = "ADMIN" \/ \A k \in ks : w(k).owner = u.id \/ a(k) = "yes"
  <2> DEFINE both == {OwnerOrMay(p, "first"), OwnerOrMay(p, "second")}
  <2>1. isRuleMatch(Rule) <=> Part(Admin) \/ Part(And(both))
    BY <1>1, RulesMatch
  <2>2. Part(And(both)) <=> \A s \in both : Piece(s)
    BY PartsMatch
  <2>3. \A k \in ks : Piece(OwnerOrMay(p, k)) <=> w(k).owner = u.id \/ a(k) = "yes"
    BY <1>3, OwnerOrMayMatches
  <2>4. QED
    BY <2>1, <2>2, <2>3, AdminMatches
<1>7. PermissionsOf(Rule) = {p} /\ ~\E l \in Leaves(Rule) : l.kind = "userPermission"
  BY <1>4, KindsOfLeaves DEF PermissionsOf
<1> HIDE DEF w, u, a, ks
<1>8. (\A k \in ks : w(k).owner = u.id \/ a(k) = "yes") => EntitledOnSight
  BY <1>2, <1>3, <1>5, <1>7, EntitledWhen DEF u
<1>9. u.role = "ADMIN" => EntitledOnSight
  BY AdministratorsAre DEF u
<1>10. QED
  BY <1>5, <1>6, <1>8, <1>9 DEF Right

LEMMA ShowsRight ==
  ASSUME Decided, Shows(call.op, Gates[call.op])
  PROVE  Right
<1> DEFINE w == End("workspace")
           u == call.user
           a == call.leaves[Member("workspace")]
<1>1. /\ Rule = Or({Member("workspace"), Admin}) /\ Plain(call.op) /\ call.op \in Reads
      /\ Gathers(Infer, {"workspace"}, {})
  BY DEF Shows, Rule, Infer
<1>2. call.places = {w} /\ call.people = {}
  BY <1>1, PlacesGathered
<1>3. Simple(Member("workspace")) /\ Simple(Admin)
  BY LeavesAreSimple
<1>4. Leaves(Rule) = {Member("workspace"), Admin}
  BY <1>1, <1>3, LeavesOfOr
<1>5. /\ a \in {"yes", "no"}
      /\ a = "yes" => w.owner = u.id \/ w.id \in seen.seats
      /\ a = "no" => seen.lapsed \/ u.role = "ADMIN"
  BY <1>4, MemberTells
<1>6. isRuleMatch(Rule) <=> a = "yes" \/ u.role = "ADMIN"
  <2>1. isRuleMatch(Rule) <=> Part(Member("workspace")) \/ Part(Admin)
    BY <1>1, RulesMatch
  <2>2. QED
    BY <1>3, <2>1, PartsMatch, AdminMatches, LeavesMatch
<1>7. ~\E l \in Leaves(Rule) : l.kind = "userPermission"
  BY <1>4, KindsOfLeaves
<1> HIDE DEF w, u, a
<1>8. a = "yes" => EntitledOnSight
  BY <1>1, <1>2, <1>5, <1>7, EntitledWhen DEF u
<1>9. u.role = "ADMIN" => EntitledOnSight
  BY AdministratorsAre DEF u
<1>10. QED
  BY <1>5, <1>6, <1>8, <1>9 DEF Right

LEMMA OwnsRight ==
  ASSUME Decided, Owns(call.op, Gates[call.op])
  PROVE  Right
<1> DEFINE w == End("workspace")
           u == call.user
<1>1. /\ Rule = Or({Owner("workspace"), Admin}) /\ Plain(call.op) /\ call.op \notin Reads
      /\ Gathers(Infer, {"workspace"}, {})
  BY DEF Owns, Rule, Infer
<1>2. call.places = {w} /\ call.people = {} /\ Row("workspace") = w
  BY <1>1, PlacesGathered
<1>3. Simple(Owner("workspace")) /\ Simple(Admin)
  BY LeavesAreSimple
<1>4. Leaves(Rule) = {Owner("workspace"), Admin}
  BY <1>1, <1>3, LeavesOfOr
<1>5. isRuleMatch(Rule) <=> w.owner = u.id \/ u.role = "ADMIN"
  <2>1. isRuleMatch(Rule) <=> Part(Owner("workspace")) \/ Part(Admin)
    BY <1>1, RulesMatch
  <2>2. QED
    BY <1>2, <2>1, OwnerMatches, AdminMatches
<1>6. PermissionsOf(Rule) = {} /\ ~\E l \in Leaves(Rule) : l.kind = "userPermission"
  BY <1>4, KindsOfLeaves DEF PermissionsOf
<1> HIDE DEF w, u
<1>7. w.owner = u.id => EntitledOnSight
  BY <1>1, <1>2, <1>6, EntitledWhen DEF u
<1>8. u.role = "ADMIN" => EntitledOnSight
  BY AdministratorsAre DEF u
<1>9. w.owner # u.id /\ u.role # "ADMIN" => seen.lapsed
  <2>1. SightOK
    BY DEF Decided, CheckOK
  <2>2. QED
    BY <1>1, <1>2, <1>6, <2>1, NotEntitled DEF u
<1>10. QED
  BY <1>5, <1>7, <1>8, <1>9 DEF Right

LEMMA ActsRight ==
  ASSUME Decided, Acts(call.op, Gates[call.op])
  PROVE  Right
<1> DEFINE u == call.user
           a == call.leaves[Trusted]
<1>1. PICK k : Rule = Or({And({Self(k), Trusted}), Admin}) /\ Gathers(Infer, {}, {k})
  BY DEF Acts, Rule, Infer
<1> DEFINE w == End(k)
<1>2. Plain(call.op)
  BY DEF Acts
<1>3. call.places = {} /\ call.people = {w} /\ Row(k) = w
  BY <1>1, PlacesGathered
<1>4. Leaves(Rule) = {Self(k), Trusted, Admin}
  BY <1>1, LeavesActs
<1>5. a \in {"yes", "no"} /\ (a = "yes" <=> u.id \in trusted)
  BY <1>4, TrustedTells
<1>6. isRuleMatch(Rule) <=> (w.id = u.id /\ a = "yes") \/ u.role = "ADMIN"
  <2>1. isRuleMatch(Rule) <=> Part(And({Self(k), Trusted})) \/ Part(Admin)
    BY <1>1, RulesMatch
  <2>2. Part(And({Self(k), Trusted})) <=> \A s \in {Self(k), Trusted} : Piece(s)
    BY PartsMatch
  <2>3. Piece(Self(k)) <=> w.id = u.id
    BY <1>3, SelfMatches
  <2>4. Piece(Trusted) <=> a = "yes"
    BY LeavesAreSimple, PiecesMatch, LeavesMatch
  <2>5. QED
    BY <2>1, <2>2, <2>3, <2>4, AdminMatches
<1>7. \E l \in Leaves(Rule) : l.kind = "userPermission"
  BY <1>4, KindsOfLeaves
<1> HIDE DEF w, u, a
<1>8. w.id = u.id /\ a = "yes" => EntitledOnSight
  BY <1>2, <1>3, <1>5, EntitledWhen DEF u
<1>9. u.role = "ADMIN" => EntitledOnSight
  BY AdministratorsAre DEF u
<1>10. ~(w.id = u.id /\ a = "yes") /\ u.role # "ADMIN" => seen.lapsed
  <2>1. SightOK
    BY DEF Decided, CheckOK
  <2>2. QED
    BY <1>2, <1>3, <1>5, <1>7, <2>1, NotEntitled DEF u
<1>11. QED
  BY <1>6, <1>8, <1>9, <1>10 DEF Right

LEMMA ActsFreelyRight ==
  ASSUME Decided, ActsFreely(call.op, Gates[call.op])
  PROVE  Right
<1> DEFINE u == call.user
<1>1. PICK k : Rule = Or({Self(k), Admin}) /\ Gathers(Infer, {}, {k})
  BY DEF ActsFreely, Rule, Infer
<1> DEFINE w == End(k)
<1>2. Plain(call.op)
  BY DEF ActsFreely
<1>3. call.places = {} /\ call.people = {w} /\ Row(k) = w
  BY <1>1, PlacesGathered
<1>4. Simple(Self(k)) /\ Simple(Admin)
  BY LeavesAreSimple
<1>5. Leaves(Rule) = {Self(k), Admin}
  BY <1>1, <1>4, LeavesOfOr
<1>6. isRuleMatch(Rule) <=> w.id = u.id \/ u.role = "ADMIN"
  <2>1. isRuleMatch(Rule) <=> Part(Self(k)) \/ Part(Admin)
    BY <1>1, RulesMatch
  <2>2. QED
    BY <1>3, <2>1, SelfMatches, AdminMatches
<1>7. ~\E l \in Leaves(Rule) : l.kind = "userPermission"
  BY <1>5, KindsOfLeaves
<1> HIDE DEF w, u
<1>8. w.id = u.id => EntitledOnSight
  BY <1>2, <1>3, <1>7, EntitledWhen DEF u
<1>9. u.role = "ADMIN" => EntitledOnSight
  BY AdministratorsAre DEF u
<1>10. w.id # u.id /\ u.role # "ADMIN" => seen.lapsed
  <2>1. SightOK
    BY DEF Decided, CheckOK
  <2>2. QED
    BY <1>2, <1>3, <2>1, NotEntitled DEF u
<1>11. QED
  BY <1>6, <1>8, <1>9, <1>10 DEF Right

LEMMA AdministersRight ==
  ASSUME Decided, Administers(call.op, Gates[call.op])
  PROVE  Right
<1>1. Rule = Admin /\ call.op \in AdminOps
  BY DEF Administers, AdminsOnly, Gate, Rule
<1>2. isRuleMatch(Rule) <=> call.user.role = "ADMIN"
  BY <1>1, AdminMatches
<1>3. SightOK
  BY DEF Decided, CheckOK
<1>4. QED
  BY <1>1, <1>2, <1>3, AdministratorsAre, NoAdministrator DEF Right

LEMMA FoundsRight ==
  ASSUME Decided, Founds(call.op, Gates[call.op])
  PROVE  Right
<1> DEFINE u == call.user
           a == call.leaves[Trusted]
<1>1. Rule = Or({Trusted, Admin}) /\ Infer = <<>> /\ Plain(call.op)
  BY DEF Founds, Gate, Rule, Infer
<1>2. call.places = {} /\ call.people = {}
  <2>1. Gathers(Infer, {}, {})
    BY <1>1, GatheringNothing
  <2>2. QED
    BY <2>1, PlacesGathered
<1>3. Simple(Trusted) /\ Simple(Admin)
  BY LeavesAreSimple
<1>4. Leaves(Rule) = {Trusted, Admin}
  BY <1>1, <1>3, LeavesOfOr
<1>5. a \in {"yes", "no"} /\ (a = "yes" <=> u.id \in trusted)
  BY <1>4, TrustedTells
<1>6. isRuleMatch(Rule) <=> a = "yes" \/ u.role = "ADMIN"
  <2>1. isRuleMatch(Rule) <=> Part(Trusted) \/ Part(Admin)
    BY <1>1, RulesMatch
  <2>2. QED
    BY <1>3, <2>1, PartsMatch, AdminMatches, LeavesMatch
<1>7. \E l \in Leaves(Rule) : l.kind = "userPermission"
  BY <1>4, KindsOfLeaves
<1> HIDE DEF u, a
<1>8. a = "yes" => EntitledOnSight
  BY <1>1, <1>2, <1>5, EntitledWhen DEF u
<1>9. u.role = "ADMIN" => EntitledOnSight
  BY AdministratorsAre DEF u
<1>10. a # "yes" /\ u.role # "ADMIN" => seen.lapsed
  <2>1. SightOK
    BY DEF Decided, CheckOK
  <2>2. QED
    BY <1>1, <1>5, <1>7, <2>1, NotEntitled DEF u
<1>11. QED
  BY <1>6, <1>8, <1>9, <1>10 DEF Right

LEMMA InvitesRight ==
  ASSUME Decided, Invites(call.op, Gates[call.op])
  PROVE  Right
<1> DEFINE w == End("workspace")
           h == End("inviterUser")
           u == call.user
<1>1. PICK p : Rule = Or({And({OwnerOrMay(p, "workspace"), Self("inviterUser")}), Admin})
  BY DEF Invites, Rule
<1>2. Plain(call.op) /\ Gathers(Infer, {"workspace"}, {"inviterUser"})
  BY DEF Invites, Infer
<1>3. /\ call.places = {w} /\ call.people = {h}
      /\ Row("workspace") = w /\ Row("inviterUser") = h
  BY <1>2, PlacesGathered
<1>4. Leaves(Rule) = {Owner("workspace"), May(p, "workspace"), Self("inviterUser"), Admin}
  BY <1>1, LeavesInvites
<1> DEFINE a == call.leaves[May(p, "workspace")]
<1>5. /\ a \in {"yes", "no"}
      /\ a = "yes" => w.id \in seen.seats /\ <<u.id, w.id, p>> \in seen.grants
      /\ a = "no" => seen.lapsed \/ u.role = "ADMIN" \/ w.owner = u.id
  BY <1>4, MayTells
<1>6. isRuleMatch(Rule)
        <=> ((w.owner = u.id \/ a = "yes") /\ h.id = u.id) \/ u.role = "ADMIN"
  <2> DEFINE both == {OwnerOrMay(p, "workspace"), Self("inviterUser")}
  <2>1. isRuleMatch(Rule) <=> Part(And(both)) \/ Part(Admin)
    BY <1>1, RulesMatch
  <2>2. Part(And(both)) <=> \A s \in both : Piece(s)
    BY PartsMatch
  <2>3. Piece(OwnerOrMay(p, "workspace")) <=> w.owner = u.id \/ a = "yes"
    BY <1>3, OwnerOrMayMatches
  <2>4. Piece(Self("inviterUser")) <=> h.id = u.id
    BY <1>3, SelfMatches
  <2>5. QED
    BY <2>1, <2>2, <2>3, <2>4, AdminMatches
<1>7. PermissionsOf(Rule) = {p} /\ ~\E l \in Leaves(Rule) : l.kind = "userPermission"
  BY <1>4, KindsOfLeaves DEF PermissionsOf
<1> HIDE DEF w, h, u, a
<1>8. (w.owner = u.id \/ a = "yes") /\ h.id = u.id => EntitledOnSight
  BY <1>2, <1>3, <1>5, <1>7, EntitledWhen DEF u
<1>9. u.role = "ADMIN" => EntitledOnSight
  BY AdministratorsAre DEF u
<1>10. h.id # u.id /\ u.role # "ADMIN" => seen.lapsed
  <2>1. SightOK
    BY DEF Decided, CheckOK
  <2>2. QED
    BY <1>2, <1>3, <2>1, NotEntitled DEF u
<1>11. QED
  BY <1>5, <1>6, <1>8, <1>9, <1>10 DEF Right

LEMMA CancelsRight ==
  ASSUME Decided, Cancels(call.op, Gates[call.op])
  PROVE  Right
<1> DEFINE w == End("workspace")
           h == End("inviter")
           u == call.user
<1>1. /\ Rule = Or({Owner("workspace"), Self("inviter"), Admin})
      /\ Gathers(Infer, {"workspace"}, {"inviter"}) /\ call.op = "cancelWorkspaceInvite"
  BY DEF Cancels, Rule, Infer
<1>2. /\ call.places = {w} /\ call.people = {h}
      /\ Row("workspace") = w /\ Row("inviter") = h
  BY <1>1, PlacesGathered
<1>3. isRuleMatch(Rule) <=> w.owner = u.id \/ h.id = u.id \/ u.role = "ADMIN"
  <2>1. isRuleMatch(Rule) <=> Part(Owner("workspace")) \/ Part(Self("inviter")) \/ Part(Admin)
    BY <1>1, RulesMatch
  <2>2. Part(Owner("workspace")) <=> w.owner = u.id
    BY <1>2, OwnerMatches
  <2>3. Part(Self("inviter")) <=> h.id = u.id
    BY <1>2, SelfMatches
  <2>4. QED
    BY <2>1, <2>2, <2>3, AdminMatches
<1>4. w.owner = u.id \/ h.id = u.id => EntitledOnSight
  BY <1>1, <1>2 DEF EntitledOnSight, EntitledBy
<1>5. u.role = "ADMIN" => EntitledOnSight
  BY AdministratorsAre
<1>6. w.owner # u.id /\ h.id # u.id /\ u.role # "ADMIN" => seen.lapsed
  <2>1. SightOK
    BY DEF Decided, CheckOK
  <2>2. QED
    BY <1>1, <1>2, <2>1, NeitherInviterNorOwner
<1>7. QED
  BY <1>3, <1>4, <1>5, <1>6 DEF Right

LEMMA VerdictsAreRight ==
  ASSUME Decided
  PROVE  Right
<1>1. Kinds(call.op, Gates[call.op])
  BY EveryGateHasAKind DEF Decided, CheckOK, CallOK
<1>2. QED
  BY <1>1, WorksRight, WorksTwiceRight, ShowsRight, OwnsRight, ActsRight, ActsFreelyRight,
     AdministersRight, FoundsRight, InvitesRight, CancelsRight DEF Kinds

-------------------------------------------------------------------------------
(* The inductive invariant.                                                  *)

AccessInv == RowsOK /\ (Gated => CheckOK) /\ AllowedWereEntitled /\ RefusedHadLapsed

LEMMA StartsInOrder == Init => AccessInv
<1> SUFFICES ASSUME Init PROVE AccessInv
  OBVIOUS
<1>1. call.state = "idle"
  BY DEF Init, NoCall
<1>2. PICK active \in [{i \in DOMAIN Rows : Rows[i].table = "member"} -> BOOLEAN] :
        rows = [i \in DOMAIN Rows |->
                  IF i \in DOMAIN active THEN [Rows[i] EXCEPT !.active = active[i]]
                  ELSE Rows[i]]
  BY DEF Init
<1>3. ASSUME NEW i \in DOMAIN Rows
      PROVE  OfRow(rows[i], i) /\ (In("payment", i) => rows[i].item \in DOMAIN rows)
  <2>1. CASE Rows[i].table # "member"
    <3>1. rows[i] = Rows[i]
      BY <1>2, <2>1
    <3>2. In("payment", i) => In("item", Rows[i].item)
      BY References
    <3>3. Rows[i].table = "payment" => In("payment", i)
      BY DEF In
    <3>4. QED
      BY <1>2, <2>1, <3>1, <3>2, <3>3, RowsOfRows DEF OfRow, In
  <2>2. CASE Rows[i].table = "member"
    <3> DEFINE seats == [id : DOMAIN Rows, table : {"member"}, user : DOMAIN Rows,
                         workspace : DOMAIN Rows, active : BOOLEAN]
    <3>1. rows[i] = [Rows[i] EXCEPT !.active = active[i]] /\ active[i] \in BOOLEAN
      BY <1>2, <2>2
    <3>2. Rows[i] \in seats
      BY <2>2, RowsOfRows DEF AnyRow
    <3>3. /\ rows[i] \in seats /\ rows[i].table = "member" /\ rows[i].id = Rows[i].id
          /\ rows[i].user = Rows[i].user /\ rows[i].workspace = Rows[i].workspace
      BY <3>1, <3>2
    <3>4. rows[i] \in AnyRow
      BY <3>3 DEF AnyRow
    <3>5. QED
      BY <2>2, <3>3, <3>4, RowsOfRows DEF OfRow, In
  <2>3. QED
    BY <2>1, <2>2
<1>4. RowsOK
  BY <1>2, <1>3 DEF RowsOK
<1>5. QED
  BY <1>1, <1>4 DEF AccessInv, Gated, AllowedWereEntitled, RefusedHadLapsed

\* While a check goes on and goes on in order, there is no verdict yet.
LEMMA StillChecking ==
  ASSUME RowsOK', CheckOK'
  PROVE  AccessInv'
<1>1. call'.state = "checking"
  BY DEF CheckOK, CallOK
<1>2. QED
  BY <1>1 DEF AccessInv, AllowedWereEntitled, RefusedHadLapsed

\* What a verdict is.
LEMMA VerdictsStand ==
  ASSUME AccessInv, Verdict, RowsOK'
  PROVE  AccessInv'
<1>1. /\ call.state = "checking" /\ Inferred /\ CheckOK
      /\ \A l \in DOMAIN call.leaves : call.leaves[l] \in {"yes", "no"}
  BY DEF AccessInv, Verdict, Gated
<1>2. Right
  BY <1>1, VerdictsAreRight DEF AccessInv, Decided
<1>3. /\ trusted' = trusted /\ seen' = seen
      /\ call' = [state |-> IF isRuleMatch(Rule) THEN "allowed" ELSE "refused",
                  op |-> call.op, user |-> call.user, places |-> call.places,
                  people |-> call.people]
  BY DEF Verdict, Answer, Rule
<1>4. /\ call'.op = call.op /\ call'.user = call.user
      /\ call'.places = call.places /\ call'.people = call.people
      /\ call'.state = (IF isRuleMatch(Rule) THEN "allowed" ELSE "refused")
  BY <1>3
<1>5. CASE isRuleMatch(Rule)
  <2>1. EntitledOnSight
    BY <1>2, <1>5 DEF Right
  <2>2. AllowedWereEntitled'
    BY <1>3, <1>4, <2>1 DEF AllowedWereEntitled, EntitledOnSight, EntitledBy
  <2>3. QED
    BY <1>4, <1>5, <2>2 DEF AccessInv, Gated, RefusedHadLapsed
<1>6. CASE ~isRuleMatch(Rule)
  <2>1. seen'.lapsed
    BY <1>2, <1>3, <1>6 DEF Right
  <2>2. QED
    BY <1>4, <1>6, <2>1 DEF AccessInv, Gated, AllowedWereEntitled, RefusedHadLapsed
<1>7. QED
  BY <1>5, <1>6

LEMMA StepsKeepAccess == AccessInv /\ [Next]_vars => AccessInv'
<1> SUFFICES ASSUME AccessInv, [Next]_vars PROVE AccessInv'
  OBVIOUS
<1>1. RowsOK' /\ DOMAIN rows' \subseteq DOMAIN rows /\ trusted' = trusted
  BY StepsKeepRows DEF AccessInv
<1>2. RowsOK /\ (Gated => CheckOK)
  BY DEF AccessInv
<1>3. ASSUME NEW u, NEW op \in DOMAIN Gates, NEW args \in ArgsFor(op), Request(op, u, args)
      PROVE  AccessInv'
  BY <1>1, <1>2, <1>3, RequestsCheck, StillChecking
<1>4. ASSUME NEW u, RequestOpen(u) PROVE AccessInv'
  <2>1. call'.state = "allowed" /\ call'.op = Open
    BY <1>4 DEF RequestOpen
  <2>2. QED
    BY <1>1, <2>1 DEF AccessInv, Gated, AllowedWereEntitled, RefusedHadLapsed
<1>5. ASSUME NEW op, RequestSignedOut(op) PROVE AccessInv'
  <2>1. call'.state = "refused" /\ call'.user = Nobody
    BY <1>5 DEF RequestSignedOut
  <2>2. QED
    BY <1>1, <2>1 DEF AccessInv, Gated, AllowedWereEntitled, RefusedHadLapsed
<1>6. ASSUME NEW k \in (IF Gated THEN DOMAIN call.keys ELSE {}), Pipe(k) PROVE AccessInv'
  <2>1. CheckOK /\ k \in DOMAIN Infer
    BY <1>2 DEF CheckOK, CallOK
  <2>2. CASE call'.state = "checking"
    BY <1>1, <1>2, <1>6, <2>1, <2>2, PipeKeepsChecks, StillChecking
  <2>3. CASE call'.state # "checking"
    <3>1. call' = [state |-> "notFound", op |-> call.op, user |-> call.user,
                   places |-> call.places, people |-> call.people]
      <4>1. call = [state |-> "checking", op |-> call.op, user |-> call.user,
                    args |-> call.args, places |-> call.places, people |-> call.people,
                    keys |-> [x \in DOMAIN Infer |-> call.keys[x]],
                    leaves |-> [l \in Asked |-> call.leaves[l]]]
        BY <2>1 DEF CheckOK, CallOK
      <4>2. ASSUME NEW key, call' = [call EXCEPT !.keys[k] = key] PROVE call'.state = "checking"
        BY <4>1, <4>2
      <4>3. QED
        BY <1>6, <2>3, <4>2 DEF Pipe, Answer
    <3>2. call'.state = "notFound"
      BY <3>1
    <3>3. QED
      BY <1>1, <3>2 DEF AccessInv, Gated, AllowedWereEntitled, RefusedHadLapsed
  <2>4. QED
    BY <2>2, <2>3
<1>7. ASSUME NEW l \in (IF Gated THEN DOMAIN call.leaves ELSE {}),
             \/ UserPermission(l) \/ UserToWorkspace(l)
             \/ WorkspaceSeat(l) \/ WorkspaceGrants(l)
      PROVE  AccessInv'
  <2>1. CheckOK
    BY <1>2, <1>7
  <2>2. l \in Asked
    BY <1>7, <2>1 DEF CheckOK, CallOK
  <2>3. QED
    BY <1>1, <1>2, <1>7, <2>1, <2>2, LeafKeepsChecks, StillChecking
<1>8. CASE Verdict
  BY <1>1, <1>8, VerdictsStand
<1>9. CASE Finish
  <2>1. call'.state = "idle"
    BY <1>9 DEF Finish, NoCall
  <2>2. QED
    BY <1>1, <2>1 DEF AccessInv, Gated, AllowedWereEntitled, RefusedHadLapsed
<1>10. ASSUME Meanwhile, call' = call, Observe(1) PROVE AccessInv'
  <2>1. CheckOK
    BY <1>2, <1>10 DEF Meanwhile
  <2>2. QED
    BY <1>1, <1>10, <2>1, OthersKeepChecks, StillChecking
<1>11. ASSUME NEW i, SeatTaken(i) \/ SeatLost(i) PROVE AccessInv'
  BY <1>10, <1>11 DEF SeatTaken, SeatLost
<1>12. ASSUME NEW w, NEW p, Granted(w, p) \/ Revoked(w, p) PROVE AccessInv'
  BY <1>10, <1>12 DEF Granted, Revoked
<1>13. ASSUME NEW i, NEW host, ItemMerged(i, host) PROVE AccessInv'
  BY <1>10, <1>13 DEF ItemMerged
<1>14. CASE UNCHANGED vars
  <2>1. /\ rows' = rows /\ trusted' = trusted /\ grants' = grants /\ call' = call
        /\ seen' = seen
    BY <1>14 DEF vars
  <2>2. Gated => CheckOK'
    <3>1. Infer' = Infer /\ Rule' = Rule /\ Asked' = Asked
          /\ \A k : End(k)' = End(k) /\ (Looked(k)' <=> Looked(k))
      BY <2>1, SameCheck
    <3>2. CallOK => CallOK'
      BY <2>1, <3>1 DEF CallOK
    <3>3. KeysOK => KeysOK'
      BY <2>1, <3>1 DEF KeysOK, KeyOK
    <3>4. PlacesOK => PlacesOK'
      <4>1. \A k \in DOMAIN Infer : Here(k)' => Here(k)
        BY <2>1, <3>1 DEF Here, Row
      <4>2. QED
        BY <2>1, <4>1, PlacesKept
    <3>5. LeavesOK => LeavesOK'
      BY <2>1, <3>1, AnswersStay DEF LeavesOK
    <3>6. SightOK => SightOK'
      BY <2>1 DEF SightOK, Entitled, EntitledBy, activeMember
    <3>7. QED
      BY <1>2, <3>2, <3>3, <3>4, <3>5, <3>6 DEF CheckOK
  <2>3. CASE Gated
    BY <1>1, <2>2, <2>3, StillChecking
  <2>4. CASE ~Gated
    <3>1. ~Gated'
      BY <2>1, <2>4 DEF Gated
    <3>2. AllowedWereEntitled' /\ RefusedHadLapsed'
      BY <2>1 DEF AccessInv, AllowedWereEntitled, RefusedHadLapsed, EntitledBy
    <3>3. QED
      BY <1>1, <3>1, <3>2 DEF AccessInv
  <2>5. QED
    BY <2>3, <2>4
<1>15. QED
  BY <1>3, <1>4, <1>5, <1>6, <1>7, <1>8, <1>9, <1>11, <1>12, <1>13, <1>14 DEF Next

(* The rows, and what the check under way has found out, are always in order.*)
THEOREM InvariantHolds == Spec => []AccessInv
BY StartsInOrder, StepsKeepAccess, PTL DEF Spec

-------------------------------------------------------------------------------
(* Whoever passes the guard was entitled, as far as separate reads can tell, *)
(* whatever the rows and whatever others do meanwhile.                       *)
THEOREM AllowedAreEntitled == Spec => []AllowedWereEntitled
<1>1. AccessInv => AllowedWereEntitled
  BY DEF AccessInv
<1>2. QED
  BY <1>1, InvariantHolds, PTL

(* Nobody entitled throughout the check is turned away by a rule.            *)
THEOREM RefusedHaveLapsed == Spec => []RefusedHadLapsed
<1>1. AccessInv => RefusedHadLapsed
  BY DEF AccessInv
<1>2. QED
  BY <1>1, InvariantHolds, PTL
===============================================================================
