-------------------------------- MODULE Ledger --------------------------------
(***************************************************************************)
(* What a workspace keeps: items, their payments, tags and stakes, the     *)
(* workspace itself, and the audit log (src/src/item, payment, tag,        *)
(* item-tag, item-merge, item-extract, item-stake, workspace-stake,        *)
(* workspace, workspace-history).                                          *)
(*                                                                         *)
(* Requests execute as in Contacts: access guard and pipes read committed  *)
(* rows outside the transaction and the handler keeps what they read       *)
(* (seen), then it issues the statements of its Script inside it.  Members *)
(* come and go by the requests of WorkspaceMembership, of which only the   *)
(* committed effects are here (SeatTaken, SeatLost).                       *)
(***************************************************************************)
EXTENDS ReadCommitted, Integers, FiniteSets, Sequences, Functions

CONSTANTS
    Workspace, ItemId, PaymentId, TagId,   \* primary keys: the bounds on the rows ever inserted
    Member, MemberOf,    \* workspace members and the workspace of each
    OwnerSeat,           \* the members who own their workspace: they cannot be removed
    FirstSeat,           \* who has a seat at the start
    Title, Rule,         \* titles, stake rules
    Sent, SentForPayment,  \* the titles clients send
    DefaultRule,         \* the column default of workspace.stake_rule
    PaymentLists,        \* the paymentIds[] arguments clients send
    StakeLists,          \* the stakes[] arguments: sequences of [member, value]
    Population,          \* the rows committed at the start
    Null,                \* SQL null, and no value
    Gone,                \* the version of a row that was deleted; ids are not reused
    Mixes,               \* the sets of mutations clients mix, a bound
    MaxRequests          \* the bound on the requests ever sent

W == INSTANCE WorkspaceHistory

\* An item_tag row is keyed by item and tag, an item_stake row by item and member.
Pair == (ItemId \X TagId) \cup (ItemId \X Member)

ASSUME RowsHaveKeys == Key = Workspace \cup ItemId \cup PaymentId \cup TagId \cup Pair
ASSUME TablesAreDisjoint ==
    /\ Workspace \cap (ItemId \cup PaymentId \cup TagId \cup Pair) = {}
    /\ ItemId \cap (PaymentId \cup TagId \cup Pair) = {}
    /\ PaymentId \cap (TagId \cup Pair) = {}
    /\ TagId \cap (Pair \cup Member) = {}
ASSUME MembersHaveWorkspaces ==
    /\ MemberOf \in [Member -> Workspace] /\ OwnerSeat \subseteq Member
    /\ FirstSeat \in [Member -> {"coming", "active", "removed"}]
ASSUME ClientsSendValues ==
    /\ Sent \subseteq Title /\ SentForPayment \subseteq Title \cup {Null}
    /\ DefaultRule \in Rule /\ Null \notin Rule
    /\ PaymentLists \subseteq Seq(PaymentId)
    /\ StakeLists \subseteq Seq([member : Member, value : Int])

VARIABLES
    req,         \* [Request -> what the handler running in that slot knows]
    seat,        \* [Member -> whether the member has yet to join, is active, or was removed]
    history,     \* [Workspace -> the newest committed entry of its audit log]
    offered,     \* the mix of this behaviour
    overlapped,  \* whether two requests ever were in progress at once
    sent         \* how many requests were sent

vars == <<db, draft, holder, req, seat, history, offered, overlapped, sent>>

WorkspaceRow == [title : Title, stakeRule : Rule]
ItemRow == [workspace : Workspace, title : Title, stakeRule : Rule \cup {Null}]
PaymentRow == [item : ItemId, payer : Member, title : Title \cup {Null}]
TagRow == [workspace : Workspace, title : Title]
ItemTagRow == [tagged : {TRUE}]
StakeRow == [value : Nat]

ASSUME MissingRowsAreNoRows ==
    /\ Absent # Gone
    /\ {Absent, Gone} \cap (WorkspaceRow \cup ItemRow \cup PaymentRow \cup TagRow) = {}
    /\ {Absent, Gone} \cap (ItemTagRow \cup StakeRow) = {}

\* The statements of each handler in the order the code awaits them.
Script == [
    none |-> <<"idle">>,
    createWorkspace |-> <<"insertWorkspace", "commit">>,
    updateWorkspace |-> <<"setWorkspace", "commit">>,
    updateWorkspaceStakeRule |-> <<"setWorkspaceRule", "commit">>,
    deleteWorkspace |-> <<"dropWorkspace", "commit">>,
    createItem |-> <<"insertItem", "commit">>,
    updateItem |-> <<"setItem", "commit">>,
    deleteItem |-> <<"dropItem", "commit">>,
    createPayment |-> <<"insertPayment", "commit">>,
    updatePayment |-> <<"checkPayer", "setPayment", "commit">>,
    deletePayment |-> <<"findItem", "dropPayment", "commit">>,
    createTag |-> <<"insertTag", "commit">>,
    updateTag |-> <<"readTag", "setTag", "commit">>,
    deleteTag |-> <<"readTag", "dropTag", "commit">>,
    assignTag |-> <<"checkNotAssigned", "insertItemTag", "commit">>,
    unassignTag |-> <<"checkAssigned", "deleteItemTag", "commit">>,
    mergeItems |-> <<"titlePayments", "movePayments", "clearTags", "deleteMerging",
                     "readHost", "commit">>,
    extractAsItem |-> <<"validatePayments", "insertExtracted", "moveListed", "readTags",
                        "copyTags", "commit">>,
    setItemStakes |-> <<"validateStakes", "readStakes", "upsertStakes", "clearRule", "commit">>,
    setItemStakeRule |-> <<"readStakes", "setRule", "deleteStakes", "commit">>]

Op == DOMAIN Script

ASSUME MixesAreOps == UNION Mixes \subseteq (Op \ {"none"}) \cup {"SeatTaken", "SeatLost"}

\* of and with are the entities the pipes loaded, seen the rows they read, arg the
\* other arguments, got what a later statement read, made the id it inserted.
Idle == [op |-> "none", pc |-> 1, of |-> Null, with |-> Null, seen |-> <<>>,
         arg |-> Null, got |-> Null, made |-> Null]

Current(r) == Script[req[r].op][req[r].pc]
At(r, statement) == Current(r) = statement

-------------------------------------------------------------------------------
Exists(version) == version \notin {Absent, Gone}

\* Tables of entities keep the versions of deleted rows apart from unused ids.
Deleted(k) == IF k \in Pair THEN Absent ELSE Gone

\* The rows a row refers to by a foreign key; all of them cascade.
Parents(k, row) ==
    CASE k \in ItemId \cup TagId -> {row.workspace}
      [] k \in PaymentId -> {row.item}
      [] k \in Pair -> {k[1]} \cup ({k[2]} \cap TagId)
      [] OTHER -> {}

\* The rows of t that the deletion of row k takes with it.
Family(t, k) ==
    LET Of(K) == {c \in Key : Exists(t[c]) /\ Parents(c, t[c]) \cap K # {}}
    IN {k} \cup Of({k}) \cup Of(Of({k}))

PaymentsOf(t, i) == {p \in PaymentId : Exists(t[p]) /\ t[p].item = i}
TagsOf(t, i) == {x \in TagId : Exists(t[<<i, x>>])}
StakesOf(t, i) == {m \in Member : Exists(t[<<i, m>>])}
StakeValues(t, i) == [m \in StakesOf(t, i) |-> t[<<i, m>>].value]

\* The members nobody has removed.
Active == {m \in Member : seat[m] = "active"}

\* The workspace an existing row belongs to.
HomeOf(t, k) ==
    CASE k \in Workspace -> k
      [] k \in PaymentId -> t[t[k].item].workspace
      [] k \in Pair -> t[k[1]].workspace
      [] OTHER -> t[k].workspace

-------------------------------------------------------------------------------
(* Rows that go together.                                                    *)

\* Every row is a row of its own table.
Typed(t) ==
    /\ \A w \in Workspace : Exists(t[w]) => t[w] \in WorkspaceRow
    /\ \A i \in ItemId : Exists(t[i]) => t[i] \in ItemRow
    /\ \A p \in PaymentId : Exists(t[p]) => t[p] \in PaymentRow
    /\ \A x \in TagId : Exists(t[x]) => t[x] \in TagRow
    /\ \A k \in ItemId \X TagId : Exists(t[k]) => t[k] \in ItemTagRow
    /\ \A k \in ItemId \X Member : Exists(t[k]) => t[k] \in StakeRow

\* No row refers to a row that is not there, and payers, tags and stakes are of
\* the workspace of their item.
OneWorkspace(t) ==
    /\ \A k \in Key : Exists(t[k]) => \A p \in Parents(k, t[k]) : Exists(t[p])
    /\ \A p \in PaymentId : Exists(t[p]) => MemberOf[t[p].payer] = HomeOf(t, p)
    /\ \A k \in ItemId \X TagId : Exists(t[k]) => HomeOf(t, k) = HomeOf(t, k[2])
    /\ \A k \in ItemId \X Member : Exists(t[k]) => HomeOf(t, k) = MemberOf[k[2]]

\* A stake rule and custom stakes exclude each other.
RuleOrStakes(t) ==
    \A i \in ItemId : Exists(t[i]) /\ t[i].stakeRule # Null => StakesOf(t, i) = {}

\* No row is stored as a JSON null.
ASSUME NullIsNoRow ==
    \A k \in Key : \A row \in WorkspaceRow \cup ItemRow \cup PaymentRow \cup TagRow :
        W!Json(k, row) # Null

Populated == [k \in Key |-> IF k \in DOMAIN Population THEN Population[k] ELSE Absent]

ASSUME PopulationGoesTogether ==
    Typed(Populated) /\ OneWorkspace(Populated) /\ RuleOrStakes(Populated)

-------------------------------------------------------------------------------
SameLog == UNCHANGED <<seat, history, offered, overlapped, sent>>

Advance(r) == req' = [req EXCEPT ![r].pc = @ + 1]
Throw(r) == RollbackTx(r) /\ SameLog /\ req' = [req EXCEPT ![r] = Idle]

\* A statement that only reads; the handler throws unless ok holds of what it read.
Read(r, statement, ok, what) ==
    /\ At(r, statement)
    /\ \/ /\ ok
          /\ req' = [req EXCEPT ![r].pc = @ + 1, ![r].got = what]
          /\ SameLog
          /\ UNCHANGED tables
       \/ ~ok /\ Throw(r)

\* A statement waits for whoever holds a row it writes, is deleting a row it
\* refers to, or has written a row that refers to one it deletes.
WaitsFor(r, rows) ==
    LET kept == {k \in DOMAIN rows : Exists(rows[k])}
        parents == UNION {Parents(k, rows[k]) : k \in kept}
        children == UNION {Family(draft, k) : k \in DOMAIN rows \ kept}
    IN Blockers(r, DOMAIN rows \cup children \cup {k \in parents : draft[k] = Gone})

Linked(r, rows) ==
    \A k \in DOMAIN rows : Exists(rows[k]) =>
        \A p \in Parents(k, rows[k]) : Exists(Visible(r)[p])

\* ok is the condition under which the statement finds what it is about.
Execute(r, statement, ok, rows) ==
    /\ At(r, statement)
    /\ WaitsFor(r, rows) = {}
    /\ \/ ok /\ Linked(r, rows) /\ Put(r, rows) /\ Advance(r) /\ SameLog
       \/ ~(ok /\ Linked(r, rows)) /\ Throw(r)

\* An INSERT under the next id; when the ids run out (a bound) it fails.
Insert(r, statement, Ids, row) ==
    /\ At(r, statement)
    /\ LET ids == Unused(Ids)
           k == CHOOSE k \in ids : TRUE
           rows == [x \in {k} |-> row]
       IN IF ids = {} THEN Throw(r)
          ELSE /\ WaitsFor(r, rows) = {}
               /\ IF Linked(r, rows)
                  THEN /\ Put(r, rows)
                       /\ req' = [req EXCEPT ![r].pc = @ + 1, ![r].made = k]
                       /\ SameLog
                  ELSE Throw(r)

\* Those of the rows K that the statement finds.
Found(r, K) == {k \in K : Exists(Visible(r)[k])}

\* DELETE of row k, with everything that refers to it.
Delete(r, statement, k) ==
    Execute(r, statement, Exists(Visible(r)[k]),
            [c \in Family(Visible(r), k) |-> Deleted(c)])

-------------------------------------------------------------------------------
(* The start of a handler.                                                   *)

Start(r, op, of, with, arg) ==
    /\ req[r].op = "none"
    /\ op \in offered
    /\ sent < MaxRequests
    /\ sent' = sent + 1
    /\ overlapped' = (overlapped \/ \E s \in Request \ {r} : req[s].op # "none")
    /\ req' = [req EXCEPT ![r] = [Idle EXCEPT !.op = op, !.of = of, !.with = with,
                    !.arg = arg, !.seen = [k \in {of, with} \cap Key |-> db[k]]]]
    /\ UNCHANGED <<db, draft, holder, seat, history, offered>>

There(K) == {k \in K : Exists(db[k])}

createWorkspace(r) == \E x \in Sent : Start(r, "createWorkspace", Null, Null, x)
updateWorkspace(r) ==
    \E w \in There(Workspace), x \in Sent : Start(r, "updateWorkspace", w, Null, x)
updateWorkspaceStakeRule(r) ==
    \E w \in There(Workspace), rule \in Rule :
        Start(r, "updateWorkspaceStakeRule", w, Null, rule)
deleteWorkspace(r) == \E w \in There(Workspace) : Start(r, "deleteWorkspace", w, Null, Null)

createItem(r) ==
    \E w \in There(Workspace), x \in Sent : Start(r, "createItem", w, Null, x)
updateItem(r) == \E i \in There(ItemId), x \in Sent : Start(r, "updateItem", i, Null, x)
deleteItem(r) == \E i \in There(ItemId) : Start(r, "deleteItem", i, Null, Null)

\* The payer is a member of the item's workspace; whether an active one is not asked.
createPayment(r) ==
    \E i \in There(ItemId), m \in Member, x \in SentForPayment :
        /\ MemberOf[m] = db[i].workspace
        /\ Start(r, "createPayment", i, m, x)
updatePayment(r) ==
    \E p \in There(PaymentId), m \in Member, x \in SentForPayment :
        Start(r, "updatePayment", p, m, x)
deletePayment(r) == \E p \in There(PaymentId) : Start(r, "deletePayment", p, Null, Null)

createTag(r) == \E w \in There(Workspace), x \in Sent : Start(r, "createTag", w, Null, x)
updateTag(r) == \E t \in There(TagId), x \in Sent : Start(r, "updateTag", t, Null, x)
deleteTag(r) == \E t \in There(TagId) : Start(r, "deleteTag", t, Null, Null)

\* itemAndTagToSameWorkspace and itemsToSameWorkspace compare the piped rows.
TwoOfOneWorkspace(r, op, Others) ==
    \E i \in There(ItemId), k \in There(Others) :
        /\ db[i].workspace = db[k].workspace
        /\ Start(r, op, i, k, Null)
assignTag(r) == TwoOfOneWorkspace(r, "assignTag", TagId)
unassignTag(r) == TwoOfOneWorkspace(r, "unassignTag", TagId)

\* The host is of, the merging item with; they may be the same item.
mergeItems(r) == TwoOfOneWorkspace(r, "mergeItems", ItemId)

extractAsItem(r) ==
    \E i \in There(ItemId), list \in PaymentLists, x \in Sent :
        /\ list # <<>>
        /\ Start(r, "extractAsItem", i, Null, [payments |-> list, title |-> x])

setItemStakes(r) ==
    \E i \in There(ItemId), list \in StakeLists : Start(r, "setItemStakes", i, Null, list)

\* Nothing is done when the item, as the pipe read it, has the rule already.
setItemStakeRule(r) ==
    \E i \in There(ItemId), rule \in Rule :
        /\ db[i].stakeRule # rule
        /\ Start(r, "setItemStakeRule", i, Null, rule)

Begin(r) ==
    \/ createWorkspace(r) \/ updateWorkspace(r) \/ updateWorkspaceStakeRule(r)
    \/ deleteWorkspace(r)
    \/ createItem(r) \/ updateItem(r) \/ deleteItem(r)
    \/ createPayment(r) \/ updatePayment(r) \/ deletePayment(r)
    \/ createTag(r) \/ updateTag(r) \/ deleteTag(r)
    \/ assignTag(r) \/ unassignTag(r)
    \/ mergeItems(r) \/ extractAsItem(r)
    \/ setItemStakes(r) \/ setItemStakeRule(r)

-------------------------------------------------------------------------------
(* The statements.                                                           *)

\* Mutant: no column default.
insertWorkspaceBare(r) ==
    Insert(r, "insertWorkspace", Workspace, [title |-> req[r].arg, stakeRule |-> Null])

insertWorkspace(r) ==
    Insert(r, "insertWorkspace", Workspace, [title |-> req[r].arg, stakeRule |-> DefaultRule])

\* An UPDATE of one column of the row the request is about; it fails when the row is gone.
SetColumn(r, statement, column) ==
    LET rows == [k \in Found(r, {req[r].of}) |->
                    [Visible(r)[k] EXCEPT ![column] = req[r].arg]]
    IN Execute(r, statement, DOMAIN rows # {}, rows)

setWorkspace(r) == SetColumn(r, "setWorkspace", "title")
setWorkspaceRule(r) == SetColumn(r, "setWorkspaceRule", "stakeRule")

\* The entry is written first and goes with the workspace; see commit.
dropWorkspace(r) == Delete(r, "dropWorkspace", req[r].of)

\* The item starts with the workspace's rule as the pipe read it.
insertItem(r) ==
    Insert(r, "insertItem", ItemId,
           [workspace |-> req[r].of, title |-> req[r].arg,
            stakeRule |-> req[r].seen[req[r].of].stakeRule])
setItem(r) == SetColumn(r, "setItem", "title")
dropItem(r) == Delete(r, "dropItem", req[r].of)

insertPayment(r) ==
    Insert(r, "insertPayment", PaymentId,
           [item |-> req[r].of, payer |-> req[r].with, title |-> req[r].arg])

\* findUniqueOrThrow of the item the payment was in when the pipe read it.
ItemThen(r) == Visible(r)[req[r].seen[req[r].of].item]
findItem(r) == Read(r, "findItem", Exists(ItemThen(r)), ItemThen(r).workspace)

\* Mutant: any member may be made the payer.
checkItemOnly(r) == Read(r, "checkPayer", Exists(ItemThen(r)), ItemThen(r).workspace)
checkPayer(r) ==
    Read(r, "checkPayer",
         Exists(ItemThen(r)) /\ MemberOf[req[r].with] = ItemThen(r).workspace,
         ItemThen(r).workspace)

setPayment(r) ==
    LET rows == [p \in Found(r, {req[r].of}) |->
                    [Visible(r)[p] EXCEPT !.payer = req[r].with, !.title = req[r].arg]]
    IN Execute(r, "setPayment", DOMAIN rows # {}, rows)
dropPayment(r) == Delete(r, "dropPayment", req[r].of)

insertTag(r) ==
    Insert(r, "insertTag", TagId, [workspace |-> req[r].of, title |-> req[r].arg])
\* updateTag and deleteTag read the tag again, without locking it.
readTag(r) == Read(r, "readTag", Exists(Visible(r)[req[r].of]), Visible(r)[req[r].of])
setTag(r) == SetColumn(r, "setTag", "title")
dropTag(r) == Delete(r, "dropTag", req[r].of)

Assignment(r) == <<req[r].of, req[r].with>>
checkNotAssigned(r) == Read(r, "checkNotAssigned", ~Exists(Visible(r)[Assignment(r)]), Null)
checkAssigned(r) == Read(r, "checkAssigned", Exists(Visible(r)[Assignment(r)]), Null)
\* The unique index refuses a pair that was assigned meanwhile.
insertItemTag(r) ==
    Execute(r, "insertItemTag", ~Exists(Visible(r)[Assignment(r)]),
            [k \in {Assignment(r)} |-> [tagged |-> TRUE]])
deleteItemTag(r) == Delete(r, "deleteItemTag", Assignment(r))

\* Untitled payments of the merging item get its title, as the pipe read it.
titlePayments(r) ==
    Execute(r, "titlePayments", TRUE,
            [p \in {p \in PaymentsOf(Visible(r), req[r].with) : Visible(r)[p].title = Null} |->
                [Visible(r)[p] EXCEPT !.title = req[r].seen[req[r].with].title]])
MoveTo(r, statement, payments, i) ==
    Execute(r, statement, TRUE,
            [p \in Found(r, payments) |-> [Visible(r)[p] EXCEPT !.item = i]])
movePayments(r) ==
    MoveTo(r, "movePayments", PaymentsOf(Visible(r), req[r].with), req[r].of)
clearTags(r) ==
    Execute(r, "clearTags", TRUE,
            [k \in {<<req[r].with, x>> : x \in TagsOf(Visible(r), req[r].with)} |-> Absent])
deleteMerging(r) == Delete(r, "deleteMerging", req[r].with)
readHost(r) ==
    Read(r, "readHost", TRUE,
         IF Exists(Visible(r)[req[r].of]) THEN W!Json(req[r].of, Visible(r)[req[r].of]) ELSE Null)

\* Mutant: that the payments are the item's is not asked.
validatePaymentCount(r) ==
    Read(r, "validatePayments",
         Len(req[r].arg.payments) # Cardinality(PaymentsOf(Visible(r), req[r].of)), Null)

\* An id listed twice counts twice.
validatePayments(r) ==
    LET all == PaymentsOf(Visible(r), req[r].of)
    IN Read(r, "validatePayments",
            /\ Range(req[r].arg.payments) \subseteq all
            /\ Len(req[r].arg.payments) # Cardinality(all), Null)
\* The extracted item has no stake rule.
insertExtracted(r) ==
    Insert(r, "insertExtracted", ItemId,
           [workspace |-> req[r].seen[req[r].of].workspace, title |-> req[r].arg.title,
            stakeRule |-> Null])
\* By id, wherever the payments are by now.
moveListed(r) == MoveTo(r, "moveListed", Range(req[r].arg.payments), req[r].made)
readTags(r) == Read(r, "readTags", TRUE, TagsOf(Visible(r), req[r].of))
copyTags(r) ==
    Execute(r, "copyTags", TRUE,
            [k \in {<<req[r].made, x>> : x \in req[r].got} |-> [tagged |-> TRUE]])

-------------------------------------------------------------------------------
(* Stakes.                                                                   *)

SumOfStakes(list) == SumFunction([n \in DOMAIN list |-> list[n].value])

\* Mutant: stakes may add up to nothing.
ValidWithoutSum(i, list) ==
    LET members == [n \in DOMAIN list |-> list[n].member]
    IN /\ IsInjective(members)
       /\ Range(members) = {m \in Active : MemberOf[m] = i.workspace}
       /\ \A n \in DOMAIN list : list[n].value >= 0

\* No member twice, every active member of the workspace and nobody else, no
\* negative value, a positive sum.
ValidStakes(i, list) ==
    LET members == [n \in DOMAIN list |-> list[n].member]
    IN /\ IsInjective(members)
       /\ Range(members) = {m \in Active : MemberOf[m] = i.workspace}
       /\ \A n \in DOMAIN list : list[n].value >= 0
       /\ SumOfStakes(list) > 0

validateStakes(r) ==
    Read(r, "validateStakes", ValidStakes(req[r].seen[req[r].of], req[r].arg), Null)
readStakes(r) == Read(r, "readStakes", TRUE, StakeValues(Visible(r), req[r].of))

\* The stakes of a list by member.
Listed(list) ==
    [m \in {list[n].member : n \in DOMAIN list} |->
        (CHOOSE s \in Range(list) : s.member = m).value]
\* One upsert per stake; as each waits for whoever holds its row until that one
\* ends, they are one step.
upsertStakes(r) ==
    LET stakes == Listed(req[r].arg)
    IN Execute(r, "upsertStakes", TRUE,
               [k \in {<<req[r].of, m>> : m \in DOMAIN stakes} |-> [value |-> stakes[k[2]]]])

\* Mutant: the rule stays.
keepRule(r) == At(r, "clearRule") /\ Advance(r) /\ SameLog /\ UNCHANGED tables

\* Only when the item, as the pipe read it, had a rule.
clearRule(r) ==
    /\ At(r, "clearRule")
    /\ IF req[r].seen[req[r].of].stakeRule = Null
       THEN Advance(r) /\ SameLog /\ UNCHANGED tables
       ELSE LET rows == [i \in Found(r, {req[r].of}) |->
                            [Visible(r)[i] EXCEPT !.stakeRule = Null]]
            IN Execute(r, "clearRule", DOMAIN rows # {}, rows)

setRule(r) == SetColumn(r, "setRule", "stakeRule")
deleteStakes(r) ==
    Execute(r, "deleteStakes", TRUE,
            [k \in {<<req[r].of, m>> : m \in StakesOf(Visible(r), req[r].of)} |-> Absent])

-------------------------------------------------------------------------------
(* The audit log.  The event a handler emits before it returns has one       *)
(* listener, which inserts one entry in the same transaction.                *)

Seen(r) == req[r].seen[req[r].of]
Now(r, k) == Visible(r)[k]
LogOf(r) ==
    IF req[r].op = "createWorkspace" THEN req[r].made
    ELSE IF req[r].op \in {"updatePayment", "deletePayment"} THEN req[r].got
    ELSE IF req[r].of \in Workspace THEN req[r].of
    ELSE Seen(r).workspace

EntryOf(r) ==
    LET q == req[r]
        w == LogOf(r)
    IN CASE q.op = "createWorkspace" -> W!WorkspaceCreated(w, Now(r, q.made))
         [] q.op \in {"updateWorkspace", "updateWorkspaceStakeRule"}
                -> W!WorkspaceUpdated(w, Seen(r), Now(r, q.of))
         [] q.op = "createItem" -> W!ItemCreated(w, q.made, Now(r, q.made))
         [] q.op = "updateItem" -> W!ItemUpdated(w, q.of, Seen(r), Now(r, q.of))
         [] q.op = "deleteItem" -> W!ItemDeleted(w, q.of, Seen(r))
         [] q.op = "createPayment" -> W!PaymentCreated(w, q.made, Now(r, q.made))
         [] q.op = "updatePayment" -> W!PaymentUpdated(w, q.of, Seen(r), Now(r, q.of))
         [] q.op = "deletePayment" -> W!PaymentDeleted(w, q.of, Seen(r))
         [] q.op = "createTag" -> W!TagCreated(w, q.made, Now(r, q.made))
         [] q.op = "updateTag" -> W!TagUpdated(w, q.of, q.got, Now(r, q.of))
         [] q.op = "deleteTag" -> W!TagDeleted(w, q.of, q.got)
         [] q.op = "assignTag" -> W!ItemTagAssigned(w, q.of, q.with)
         [] q.op = "unassignTag" -> W!ItemTagUnassigned(w, q.of, q.with)
         [] q.op = "mergeItems"
                -> W!ItemMerged(w, W!Json(q.of, Seen(r)), W!Json(q.with, q.seen[q.with]), q.got)
         [] q.op = "extractAsItem"
                -> W!ItemExtracted(w, W!Json(q.of, Seen(r)), W!Json(q.made, Now(r, q.made)))
         [] q.op = "setItemStakes"
                -> W!ItemStakesChanged(w, q.of, Seen(r).stakeRule, q.got, Null,
                                       Listed(q.arg))
         [] q.op = "setItemStakeRule"
                -> W!ItemStakesChanged(w, q.of, Seen(r).stakeRule, q.got, q.arg, <<>>)

\* The entries of a workspace go when it goes, the one about its deletion with them.
commit(r) ==
    /\ At(r, "commit")
    /\ CommitTx(r)
    /\ history' = [w \in Workspace |->
            IF ~Exists(Visible(r)[w]) THEN Null
            ELSE IF w = LogOf(r) THEN EntryOf(r) ELSE history[w]]
    /\ req' = [req EXCEPT ![r] = Idle]
    /\ UNCHANGED <<seat, offered, overlapped, sent>>

\* Time limit, deadlock victim, lost connection, crash.
Abort(r) == req[r].op # "none" /\ Throw(r)

Run(r) ==
    \/ insertWorkspace(r) \/ setWorkspace(r) \/ setWorkspaceRule(r) \/ dropWorkspace(r)
    \/ insertItem(r) \/ setItem(r) \/ dropItem(r)
    \/ insertPayment(r) \/ findItem(r) \/ checkPayer(r) \/ setPayment(r) \/ dropPayment(r)
    \/ insertTag(r) \/ readTag(r) \/ setTag(r) \/ dropTag(r)
    \/ checkNotAssigned(r) \/ insertItemTag(r) \/ checkAssigned(r) \/ deleteItemTag(r)
    \/ titlePayments(r) \/ movePayments(r) \/ clearTags(r) \/ deleteMerging(r) \/ readHost(r)
    \/ validatePayments(r) \/ insertExtracted(r) \/ moveListed(r) \/ readTags(r) \/ copyTags(r)
    \/ validateStakes(r) \/ readStakes(r) \/ upsertStakes(r) \/ clearRule(r)
    \/ setRule(r) \/ deleteStakes(r)
    \/ commit(r)

-------------------------------------------------------------------------------
(* Members come and go.  A member who comes back is a new row, and the       *)
(* stakes of one who goes stay.  Their entries in the log are left out.      *)

SeatChanges(change, m, from, to) ==
    /\ change \in offered
    /\ sent < MaxRequests
    /\ sent' = sent + 1
    /\ overlapped' = (overlapped \/ \E r \in Request : req[r].op # "none")
    /\ Exists(db[MemberOf[m]]) /\ seat[m] = from
    /\ seat' = [seat EXCEPT ![m] = to]
    /\ UNCHANGED <<db, draft, holder, req, history, offered>>

SeatTaken(m) == SeatChanges("SeatTaken", m, "coming", "active")
SeatLost(m) == m \notin OwnerSeat /\ SeatChanges("SeatLost", m, "active", "removed")

-------------------------------------------------------------------------------
Init ==
    /\ db = Populated
    /\ draft = db
    /\ holder = [k \in Key |-> NoRequest]
    /\ req = [r \in Request |-> Idle]
    /\ seat = FirstSeat
    /\ history = [w \in Workspace |-> Null]
    /\ offered \in Mixes
    /\ overlapped = FALSE
    /\ sent = 0

Next ==
    \/ \E r \in Request : Begin(r) \/ Run(r) \/ Abort(r)
    \/ \E m \in Member : SeatTaken(m) \/ SeatLost(m)

Spec == Init /\ [][Next]_vars
-------------------------------------------------------------------------------
(* What holds however requests interleave.                                  *)

\* Every version of a row is a row of its own table, and locks are held by requests.
TypeOK ==
    /\ DOMAIN db = Key /\ DOMAIN draft = Key
    /\ Typed(db) /\ Typed(draft)
    /\ holder \in [Key -> Request \cup {NoRequest}]
    /\ DOMAIN req = Request
    /\ \A r \in Request : req[r].op \in Op /\ req[r].pc \in DOMAIN Script[req[r].op]
    /\ seat \in [Member -> {"coming", "active", "removed"}]
    /\ \A w \in Workspace : history[w] = Null \/ history[w].workspace = w

\* Whatever is moved, merged, extracted and deleted meanwhile, no row refers to
\* a row that is gone, and payments, payers, tags and stakes stay in the
\* workspace of their item.
OneWorkspaceEach == OneWorkspace(db)

\* A request changes rows of one workspace only, the one its access rule looked
\* at and whose log it is entered in, although payments are moved by id and
\* checked by an earlier statement.
TouchesOneWorkspace ==
    [][\A r \in Request : commit(r) =>
        \A k \in Key : db'[k] # db[k] =>
            /\ Exists(db[k]) => HomeOf(db, k) = LogOf(r)
            /\ Exists(db'[k]) => HomeOf(db', k) = LogOf(r)]_vars

\* Item i, if it is split by custom stakes, can be: an active member has a stake in it.
Usable(i) ==
    Exists(db[i]) /\ db[i].stakeRule = Null /\ StakesOf(db, i) # {} =>
        \E m \in StakesOf(db, i) \cap Active : db[<<i, m>>].value > 0

\* Custom stakes that can be used stop being so only because a member who has
\* one goes, or has gone since the stakes that a request now commits were checked.
\* However setting stakes, setting rules, merges, deletions and members coming
\* and going interleave, nothing else leaves the active members with a sum of
\* nothing to divide the costs of the item by.
CustomStakesUsable ==
    [][\A i \in ItemId : Usable(i) =>
        \/ Usable(i)'
        \/ \E m \in StakesOf(db, i) : db[<<i, m>>].value > 0 /\ SeatLost(m)
        \/ \E r \in Request :
            /\ req[r].op = "setItemStakes" /\ req[r].of = i /\ commit(r)
            /\ \E s \in Range(req[r].arg) : s.value > 0 /\ seat[s.member] = "removed"]_vars

-------------------------------------------------------------------------------
(* What holds as long as requests do not overlap.                           *)

\* Whether stakes or a rule are set, and whatever items are merged, extracted and
\* deleted before and after, an item never has both a rule and custom stakes.
RuleExcludesStakes == overlapped \/ RuleOrStakes(db)

TitleIn(t, k) == IF Exists(t[k]) THEN t[k].title ELSE Null

TableOf(e) ==
    CASE e.action \in {"ITEM_CREATED", "ITEM_UPDATED", "ITEM_DELETED", "ITEM_MERGED"} -> ItemId
      [] e.action \in {"PAYMENT_CREATED", "PAYMENT_UPDATED", "PAYMENT_DELETED"} -> PaymentId
      [] e.action \in {"TAG_CREATED", "TAG_UPDATED", "TAG_DELETED"} -> TagId
      [] e.action \in {"WORKSPACE_CREATED", "WORKSPACE_UPDATED"} -> Workspace
      [] OTHER -> {}

\* The diff and the message a reader is shown of an entry tell which titles the
\* commit changed and from what to what; an entry about stakes tells the rule
\* before and after, the stakes before, and those of active members after.
EntryTellsTheChange ==
    [][\A r \in Request : commit(r) /\ ~overlapped /\ history'[LogOf(r)] # Null =>
        LET e == history'[LogOf(r)]
            changed == {k \in TableOf(e) : TitleIn(db, k) # TitleIn(db', k)}
            Json(t, i, M) ==
                [itemId |-> i, stakeRule |-> t[i].stakeRule,
                 stakes |-> W!StakesOrNull(Restrict(StakeValues(t, i), StakesOf(t, i) \cap M))]
        IN /\ TableOf(e) # {} =>
                /\ {<<c[2], c[3]>> : c \in {c \in W!Changes(e) : c[1] = "title"}}
                        = {<<TitleIn(db, k), TitleIn(db', k)>> : k \in changed}
                /\ changed \subseteq W!Named(e)
           /\ e.action = "ITEM_STAKES_CHANGED" =>
                /\ e.oldValue = Json(db, req[r].of, Member)
                /\ e.newValue = Json(db', req[r].of, Active)]_vars

\* The payments of a merged item go on in the host.
MergeKeepsPayments ==
    [][\A r \in Request : commit(r) /\ req[r].op = "mergeItems" =>
        \A p \in PaymentsOf(db, req[r].with) : Exists(db'[p])]_vars
===============================================================================
