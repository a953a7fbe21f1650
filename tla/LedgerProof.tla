------------------------------ MODULE LedgerProof ------------------------------
(***************************************************************************)
(* Theorems about Ledger for any workspaces, members, ids, mixes of        *)
(* mutations and number of requests at once.                               *)
(*                                                                         *)
(* Every row belongs to one workspace as long as it is there, and every    *)
(* request works in one workspace.  IInv says what a request knows of that *)
(* at each statement, and how rows not yet committed refer to each other.  *)
(***************************************************************************)
EXTENDS Ledger, ReadCommittedProof, FiniteSetTheorems, WellFoundedInduction, TLAPS

\* The tables with a primary key of their own; their ids are not reused.
Entity == Workspace \cup ItemId \cup PaymentId \cup TagId

RowOf(k) ==
    IF k \in Workspace THEN WorkspaceRow
    ELSE IF k \in ItemId THEN ItemRow
    ELSE IF k \in PaymentId THEN PaymentRow
    ELSE IF k \in TagId THEN TagRow
    ELSE IF k \in ItemId \X TagId THEN ItemTagRow
    ELSE StakeRow

\* The workspace of a version of an entity, told from that version alone.
RowHome(k, row) ==
    IF k \in Workspace THEN k
    ELSE IF k \in PaymentId THEN MemberOf[row.payer]
    ELSE row.workspace

\* What a row tells of its workspace by itself; an item_tag row tells nothing.
Belongs(k, row, w) ==
    /\ k \in Entity => RowHome(k, row) = w
    /\ k \in ItemId \X Member => MemberOf[k[2]] = w

\* Row k of t and the rows it refers to are in workspace w.
Fits(t, k, w) ==
    /\ Belongs(k, t[k], w)
    /\ \A p \in Parents(k, t[k]) : Exists(t[p]) /\ RowHome(p, t[p]) = w

\* The entity whose workspace a row is in.
Owner(k) == IF k \in Pair THEN k[1] ELSE k

\* What a row is survives every update, and what is deleted stays so.
Versions ==
    \A k \in Entity :
        /\ db[k] # Absent => draft[k] # Absent
        /\ db[k] = Gone => draft[k] = Gone
        /\ Exists(db[k]) /\ Exists(draft[k]) => RowHome(k, db[k]) = RowHome(k, draft[k])

\* Whoever deletes a row holds what refers to it.
ChildrenHeld ==
    \A k \in Key : \A p \in Entity :
        draft[p] = Gone /\ Exists(db[p]) /\ Exists(db[k]) /\ p \in Parents(k, db[k])
            => holder[k] = holder[p]

\* A row refers to committed rows or to rows of its own transaction.
ParentsSeen ==
    \A k \in Key : Exists(draft[k]) =>
        \A p \in Parents(k, draft[k]) : Exists(db[p]) \/ holder[p] = holder[k]

\* Request r has seen entity k, and every version of it is in workspace w.
Knows(r, k, w) ==
    /\ k \in Entity
    /\ db[k] # Absent \/ (holder[k] = r /\ draft[k] # Absent)
    /\ Exists(db[k]) => RowHome(k, db[k]) = w
    /\ Exists(draft[k]) => RowHome(k, draft[k]) = w

\* The workspace a request works in.
Base(r) ==
    IF req[r].op = "createWorkspace" THEN req[r].made
    ELSE IF req[r].of \in Workspace THEN req[r].of
    ELSE IF req[r].of \in PaymentId THEN MemberOf[req[r].seen[req[r].of].payer]
    ELSE req[r].seen[req[r].of].workspace

OfWorkspace == {"updateWorkspace", "updateWorkspaceStakeRule", "deleteWorkspace", "createItem",
                "createTag"}
OfItem == {"updateItem", "deleteItem", "createPayment", "assignTag", "unassignTag", "mergeItems",
           "extractAsItem", "setItemStakes", "setItemStakeRule"}
OfPayment == {"updatePayment", "deletePayment"}
OfTag == {"updateTag", "deleteTag"}

\* The arguments are what clients send.
Arguments(r) ==
    /\ req[r].op \in {"createWorkspace", "updateWorkspace", "createItem", "updateItem",
                      "createTag", "updateTag"} => req[r].arg \in Title
    /\ req[r].op \in {"updateWorkspaceStakeRule", "setItemStakeRule"} => req[r].arg \in Rule
    /\ req[r].op \in {"createPayment", "updatePayment"} => req[r].arg \in Title \cup {Null}
    /\ req[r].op = "extractAsItem" =>
        req[r].arg.payments \in Seq(PaymentId) /\ req[r].arg.title \in Title
    /\ req[r].op = "setItemStakes" => req[r].arg \in Seq([member : Member, value : Int])

\* What a request was started with still holds.
Known(r) ==
    /\ DOMAIN req[r] = DOMAIN Idle
    /\ req[r].op = "none" => req[r] = Idle
    /\ req[r].op \in OfWorkspace => req[r].of \in Workspace
    /\ req[r].op \in OfItem => req[r].of \in ItemId /\ req[r].seen[req[r].of] \in ItemRow
    /\ req[r].op \in OfPayment =>
        /\ req[r].of \in PaymentId
        /\ req[r].seen[req[r].of] \in PaymentRow
        /\ Knows(r, req[r].seen[req[r].of].item, Base(r))
    /\ req[r].op \in OfTag => req[r].of \in TagId /\ req[r].seen[req[r].of] \in TagRow
    /\ req[r].op \notin {"none", "createWorkspace"} => Knows(r, req[r].of, Base(r))
    /\ req[r].op = "createItem" => req[r].seen[req[r].of] \in WorkspaceRow
    /\ req[r].op \in {"assignTag", "unassignTag"} =>
        req[r].with \in TagId /\ Knows(r, req[r].with, Base(r))
    /\ req[r].op = "mergeItems" =>
        /\ req[r].with \in ItemId
        /\ req[r].seen[req[r].with] \in ItemRow
        /\ Knows(r, req[r].with, Base(r))
    /\ req[r].op = "createPayment" => req[r].with \in Member /\ MemberOf[req[r].with] = Base(r)
    /\ req[r].op = "updatePayment" => req[r].with \in Member
    /\ Arguments(r)

\* What a request has read, checked or made by the statement it is at.
Placed(r) ==
    /\ req[r].pc \in 1..Len(Script[req[r].op])
    /\ req[r].op \in OfPayment /\ req[r].pc > 1 => req[r].got = Base(r)
    /\ req[r].op = "updatePayment" /\ req[r].pc > 1 => MemberOf[req[r].with] = Base(r)
    /\ req[r].op = "createWorkspace" /\ req[r].pc > 1 => req[r].made \in Workspace
    /\ req[r].op = "deleteWorkspace" /\ req[r].pc > 1 =>
        holder[req[r].of] = r /\ draft[req[r].of] = Gone
    /\ req[r].op = "extractAsItem" /\ req[r].pc > 1 =>
        \A p \in Range(req[r].arg.payments) : Knows(r, p, Base(r))
    /\ req[r].op = "extractAsItem" /\ req[r].pc > 2 =>
        req[r].made \in ItemId /\ Knows(r, req[r].made, Base(r))
    /\ At(r, "copyTags") => \A x \in req[r].got : x \in TagId /\ Knows(r, x, Base(r))
    /\ req[r].op = "setItemStakes" /\ req[r].pc > 1 =>
        \A n \in DOMAIN req[r].arg :
            MemberOf[req[r].arg[n].member] = Base(r) /\ req[r].arg[n].value >= 0

RequestsOK == \A r \in Request : Known(r) /\ Placed(r)

\* A request holds rows of its workspace only, and none before it knows which that is.
HeldOK ==
    \A r \in Request, k \in Key : holder[k] = r =>
        /\ req[r].op # "none" /\ ~At(r, "insertWorkspace")
        /\ Knows(r, Owner(k), Base(r))

IInv ==
    /\ TypeOK /\ FreeRowsAreCommitted /\ Versions
    /\ OneWorkspaceEach /\ OneWorkspace(draft) /\ ChildrenHeld /\ ParentsSeen
    /\ RequestsOK /\ HeldOK

-------------------------------------------------------------------------------
(* Rows and what they refer to.                                              *)

LEMMA KeysOfTables ==
    ASSUME NEW k \in Key
    PROVE  /\ k \in Entity \/ k \in Pair
           /\ ~(k \in Entity /\ k \in Pair)
           /\ k \in Workspace => k \notin ItemId \cup PaymentId \cup TagId
           /\ k \in ItemId => k \notin PaymentId \cup TagId
           /\ k \in PaymentId => k \notin TagId
           /\ k \in Pair => \/ k \in ItemId \X TagId /\ k \notin ItemId \X Member
                            \/ k \in ItemId \X Member /\ k \notin ItemId \X TagId
BY RowsHaveKeys, TablesAreDisjoint DEF Entity, Pair

LEMMA EntitiesHaveKeys == Entity \subseteq Key /\ Pair \subseteq Key
BY RowsHaveKeys DEF Entity

LEMMA PairsOf ==
    ASSUME NEW i \in ItemId
    PROVE  /\ \A x \in TagId : /\ <<i, x>> \in Key /\ <<i, x>> \in Pair
                               /\ <<i, x>> \in ItemId \X TagId
                               /\ <<i, x>>[1] = i /\ <<i, x>>[2] = x
           /\ \A m \in Member : /\ <<i, m>> \in Key /\ <<i, m>> \in Pair
                                /\ <<i, m>> \in ItemId \X Member
                                /\ <<i, m>>[1] = i /\ <<i, m>>[2] = m
BY RowsHaveKeys DEF Pair

LEMMA TypedIs ==
    ASSUME NEW t
    PROVE  Typed(t) <=> \A k \in Key : Exists(t[k]) => t[k] \in RowOf(k)
<1>1. ASSUME Typed(t), NEW k \in Key, Exists(t[k])
      PROVE  t[k] \in RowOf(k)
  <2>1. CASE k \in Entity
    BY <1>1, <2>1, KeysOfTables DEF Typed, RowOf, Entity
  <2>2. CASE k \in Pair
    BY <1>1, <2>2, KeysOfTables DEF Typed, RowOf, Entity
  <2>3. QED
    BY <2>1, <2>2, KeysOfTables
<1>2. ASSUME \A k \in Key : Exists(t[k]) => t[k] \in RowOf(k)
      PROVE  Typed(t)
  <2>1. \A k \in Entity : Exists(t[k]) => t[k] \in RowOf(k)
    BY <1>2, EntitiesHaveKeys
  <2>2. \A k \in Pair : Exists(t[k]) => t[k] \in RowOf(k)
    BY <1>2, EntitiesHaveKeys
  <2>3. /\ \A w \in Workspace : Exists(t[w]) => t[w] \in WorkspaceRow
        /\ \A i \in ItemId : Exists(t[i]) => t[i] \in ItemRow
        /\ \A p \in PaymentId : Exists(t[p]) => t[p] \in PaymentRow
        /\ \A x \in TagId : Exists(t[x]) => t[x] \in TagRow
    BY <2>1, EntitiesHaveKeys, KeysOfTables DEF RowOf, Entity
  <2>4. /\ \A k \in ItemId \X TagId : Exists(t[k]) => t[k] \in ItemTagRow
        /\ \A k \in ItemId \X Member : Exists(t[k]) => t[k] \in StakeRow
    BY <2>2, EntitiesHaveKeys, KeysOfTables DEF RowOf, Entity, Pair
  <2>5. QED
    BY <2>3, <2>4 DEF Typed
<1>3. QED
  BY <1>1, <1>2

\* Payments and pairs refer to items and tags, those to workspaces.
LEMMA ParentsAre ==
    ASSUME NEW k \in Key, NEW row \in RowOf(k)
    PROVE  /\ k \in Workspace => Parents(k, row) = {}
           /\ k \in ItemId \cup TagId =>
                row.workspace \in Workspace /\ Parents(k, row) = {row.workspace}
           /\ k \in PaymentId =>
                row.item \in ItemId /\ row.payer \in Member /\ Parents(k, row) = {row.item}
           /\ k \in ItemId \X TagId =>
                k[1] \in ItemId /\ k[2] \in TagId /\ Parents(k, row) = {k[1], k[2]}
           /\ k \in ItemId \X Member =>
                k[1] \in ItemId /\ k[2] \in Member /\ Parents(k, row) = {k[1]}
<1>1. CASE k \in Entity
  BY <1>1, KeysOfTables DEF Entity, RowOf, Parents, ItemRow, TagRow, PaymentRow, Pair
<1>2. CASE k \in Pair
  BY <1>2, KeysOfTables, TablesAreDisjoint DEF Entity, Pair, Parents
<1>3. QED
  BY <1>1, <1>2, KeysOfTables

LEMMA Levels ==
    ASSUME NEW k \in Key, NEW row \in RowOf(k), NEW p \in Parents(k, row)
    PROVE  /\ p \in Key /\ p \in Entity /\ p \notin Pair /\ p \notin PaymentId
           /\ k \notin Workspace
           /\ k \in ItemId \cup TagId => p \in Workspace
           /\ k \in PaymentId \cup Pair => p \in ItemId \cup TagId
<1>1. k \in ItemId \cup TagId \cup PaymentId \cup (ItemId \X TagId) \cup (ItemId \X Member)
  BY ParentsAre, KeysOfTables DEF Entity, Pair
<1>2. p \in Workspace \cup ItemId \cup TagId
  BY <1>1, ParentsAre
<1>3. p \in Entity /\ p \in Key
  BY <1>2, EntitiesHaveKeys DEF Entity
<1>4. QED
  BY <1>1, <1>2, <1>3, ParentsAre, KeysOfTables DEF Entity, Pair

LEMMA OwnerIsParent ==
    ASSUME NEW k \in Key, NEW row \in RowOf(k)
    PROVE  /\ k \in Entity => Owner(k) = k
           /\ k \in Pair => Owner(k) \in Parents(k, row)
           /\ Owner(k) \in Entity /\ Owner(k) \in Key
<1>1. k \in Pair => Owner(k) \in Parents(k, row)
  BY ParentsAre DEF Owner, Pair
<1>2. k \in Entity => Owner(k) = k
  BY KeysOfTables DEF Owner
<1>3. QED
  BY <1>1, <1>2, KeysOfTables, Levels

\* OneWorkspace, row by row.
LEMMA OneWorkspaceIs ==
    ASSUME NEW t, Typed(t)
    PROVE  OneWorkspace(t) <=> \A k \in Key : Exists(t[k]) => \E w \in Workspace : Fits(t, k, w)
<1>0. ASSUME NEW k \in Key, Exists(t[k])
      PROVE  t[k] \in RowOf(k)
  BY <1>0, TypedIs
<1>1. ASSUME OneWorkspace(t), NEW k \in Key, Exists(t[k])
      PROVE  \E w \in Workspace : Fits(t, k, w)
  <2>1. \A p \in Parents(k, t[k]) : Exists(t[p])
    BY <1>1 DEF OneWorkspace
  <2>2. CASE k \in Workspace
    <3>1. Parents(k, t[k]) = {} /\ Belongs(k, t[k], k)
      BY <1>0, <1>1, <2>2, ParentsAre, KeysOfTables DEF Belongs, RowHome, Pair, Entity
    <3>2. QED
      BY <2>2, <3>1 DEF Fits
  <2>3. CASE k \in ItemId \cup TagId
    <3>1. t[k].workspace \in Workspace /\ Parents(k, t[k]) = {t[k].workspace}
      BY <1>0, <1>1, <2>3, ParentsAre
    <3>2. Belongs(k, t[k], t[k].workspace)
      BY <2>3, KeysOfTables DEF Belongs, RowHome, Pair, Entity
    <3>3. RowHome(t[k].workspace, t[t[k].workspace]) = t[k].workspace
      BY <3>1 DEF RowHome
    <3>4. QED
      BY <2>1, <3>1, <3>2, <3>3 DEF Fits
  <2>4. CASE k \in PaymentId
    <3>1. /\ t[k].item \in ItemId /\ t[k].payer \in Member /\ Parents(k, t[k]) = {t[k].item}
          /\ t[k].item \in Key
      BY <1>0, <1>1, <2>4, ParentsAre, EntitiesHaveKeys DEF Entity
    <3>2. MemberOf[t[k].payer] = t[t[k].item].workspace
      BY <1>1, <2>4, KeysOfTables, EntitiesHaveKeys DEF OneWorkspace, HomeOf, Pair, Entity
    <3>3. MemberOf[t[k].payer] \in Workspace
      BY <3>1, MembersHaveWorkspaces
    <3>4. Belongs(k, t[k], MemberOf[t[k].payer])
      BY <2>4, KeysOfTables DEF Belongs, RowHome, Pair, Entity
    <3>5. RowHome(t[k].item, t[t[k].item]) = MemberOf[t[k].payer]
      BY <3>1, <3>2, KeysOfTables DEF RowHome
    <3>6. QED
      BY <2>1, <3>1, <3>3, <3>4, <3>5 DEF Fits
  <2>5. CASE k \in ItemId \X TagId
    <3>1. /\ k[1] \in ItemId /\ k[2] \in TagId /\ Parents(k, t[k]) = {k[1], k[2]}
          /\ k[1] \in Key /\ k[2] \in Key
      BY <1>0, <1>1, <2>5, ParentsAre, EntitiesHaveKeys DEF Entity
    <3>2. k \in Pair /\ k \notin Entity /\ k \notin ItemId \X Member
      BY <2>5, KeysOfTables DEF Pair
    <3>3. t[k[1]].workspace = t[k[2]].workspace
      BY <1>1, <2>5, <3>1, <3>2, KeysOfTables DEF OneWorkspace, HomeOf, Entity
    <3>4. t[k[1]] \in RowOf(k[1])
      BY <1>0, <2>1, <3>1
    <3>5. t[k[1]].workspace \in Workspace
      BY <3>1, <3>4, ParentsAre
    <3>6. /\ RowHome(k[1], t[k[1]]) = t[k[1]].workspace
          /\ RowHome(k[2], t[k[2]]) = t[k[2]].workspace
      BY <3>1, KeysOfTables DEF RowHome
    <3>7. Belongs(k, t[k], t[k[1]].workspace)
      BY <3>2 DEF Belongs
    <3>8. QED
      BY <2>1, <3>1, <3>3, <3>5, <3>6, <3>7 DEF Fits
  <2>6. CASE k \in ItemId \X Member
    <3>1. /\ k[1] \in ItemId /\ k[2] \in Member /\ Parents(k, t[k]) = {k[1]} /\ k[1] \in Key
      BY <1>0, <1>1, <2>6, ParentsAre, EntitiesHaveKeys DEF Entity
    <3>2. k \in Pair /\ k \notin Entity
      BY <2>6, KeysOfTables DEF Pair
    <3>3. t[k[1]].workspace = MemberOf[k[2]]
      BY <1>1, <2>6, <3>1, <3>2, KeysOfTables DEF OneWorkspace, HomeOf, Entity
    <3>4. RowHome(k[1], t[k[1]]) = t[k[1]].workspace
      BY <3>1, KeysOfTables DEF RowHome
    <3>5. Belongs(k, t[k], MemberOf[k[2]]) /\ MemberOf[k[2]] \in Workspace
      BY <3>1, <3>2, MembersHaveWorkspaces DEF Belongs
    <3>6. QED
      BY <2>1, <3>1, <3>3, <3>4, <3>5 DEF Fits
  <2>7. QED
    BY <2>2, <2>3, <2>4, <2>5, <2>6, KeysOfTables DEF Entity, Pair
<1>2. ASSUME \A k \in Key : Exists(t[k]) => \E w \in Workspace : Fits(t, k, w)
      PROVE  OneWorkspace(t)
  <2>1. ASSUME NEW k \in Key, Exists(t[k])
        PROVE  \A p \in Parents(k, t[k]) : Exists(t[p])
    BY <1>2, <2>1 DEF Fits
  <2>2. ASSUME NEW k \in PaymentId, Exists(t[k])
        PROVE  MemberOf[t[k].payer] = HomeOf(t, k)
    <3>1. k \in Key /\ k \in Entity /\ k \notin Workspace \cup Pair
      BY EntitiesHaveKeys, KeysOfTables DEF Entity
    <3>2. PICK w \in Workspace : Fits(t, k, w)
      BY <1>2, <2>2, <3>1
    <3>3. t[k].item \in ItemId /\ Parents(k, t[k]) = {t[k].item} /\ t[k].item \in Key
      BY <1>0, <2>2, <3>1, ParentsAre, EntitiesHaveKeys DEF Entity
    <3>4. RowHome(k, t[k]) = w /\ RowHome(t[k].item, t[t[k].item]) = w
      BY <3>1, <3>2, <3>3 DEF Fits, Belongs
    <3>5. RowHome(k, t[k]) = MemberOf[t[k].payer] /\ HomeOf(t, k) = t[t[k].item].workspace
      BY <2>2, <3>1 DEF RowHome, HomeOf
    <3>6. RowHome(t[k].item, t[t[k].item]) = t[t[k].item].workspace
      BY <3>3, KeysOfTables DEF RowHome
    <3>7. QED
      BY <3>4, <3>5, <3>6
  <2>3. ASSUME NEW k \in ItemId \X TagId, Exists(t[k])
        PROVE  HomeOf(t, k) = HomeOf(t, k[2])
    <3>1. k \in Key /\ k \in Pair /\ k \notin Workspace \cup PaymentId
      BY EntitiesHaveKeys, KeysOfTables DEF Pair, Entity
    <3>2. PICK w \in Workspace : Fits(t, k, w)
      BY <1>2, <2>3, <3>1
    <3>3. /\ k[1] \in ItemId /\ k[2] \in TagId /\ Parents(k, t[k]) = {k[1], k[2]}
          /\ k[1] \in Key /\ k[2] \in Key
      BY <1>0, <2>3, <3>1, ParentsAre, EntitiesHaveKeys DEF Entity
    <3>4. RowHome(k[1], t[k[1]]) = w /\ RowHome(k[2], t[k[2]]) = w
      BY <3>2, <3>3 DEF Fits
    <3>5. /\ RowHome(k[1], t[k[1]]) = t[k[1]].workspace
          /\ RowHome(k[2], t[k[2]]) = t[k[2]].workspace
      BY <3>3, KeysOfTables DEF RowHome
    <3>6. k[2] \notin Workspace \cup PaymentId \cup Pair
      BY <3>3, KeysOfTables DEF Entity
    <3>7. HomeOf(t, k) = t[k[1]].workspace /\ HomeOf(t, k[2]) = t[k[2]].workspace
      BY <3>1, <3>6 DEF HomeOf
    <3>8. QED
      BY <3>4, <3>5, <3>7
  <2>4. ASSUME NEW k \in ItemId \X Member, Exists(t[k])
        PROVE  HomeOf(t, k) = MemberOf[k[2]]
    <3>1. k \in Key /\ k \in Pair /\ k \notin Workspace \cup PaymentId
      BY EntitiesHaveKeys, KeysOfTables DEF Pair, Entity
    <3>2. PICK w \in Workspace : Fits(t, k, w)
      BY <1>2, <2>4, <3>1
    <3>3. k[1] \in ItemId /\ Parents(k, t[k]) = {k[1]} /\ k[1] \in Key
      BY <1>0, <2>4, <3>1, ParentsAre, EntitiesHaveKeys DEF Entity
    <3>4. RowHome(k[1], t[k[1]]) = w /\ MemberOf[k[2]] = w
      BY <3>2, <3>3, <2>4 DEF Fits, Belongs
    <3>5. RowHome(k[1], t[k[1]]) = t[k[1]].workspace
      BY <3>3, KeysOfTables DEF RowHome
    <3>6. QED
      BY <3>1, <3>4, <3>5 DEF HomeOf
  <2>5. QED
    BY <2>1, <2>2, <2>3, <2>4 DEF OneWorkspace
<1>3. QED
  BY <1>1, <1>2

\* The workspace of a row is that of its owner.
LEMMA HomesAgree ==
    ASSUME NEW t, Typed(t), OneWorkspace(t), NEW k \in Key, Exists(t[k])
    PROVE  Exists(t[Owner(k)]) /\ HomeOf(t, k) = RowHome(Owner(k), t[Owner(k)])
<1>0. t[k] \in RowOf(k)
  BY TypedIs
<1>1. PICK w \in Workspace : Fits(t, k, w)
  BY OneWorkspaceIs
<1>2. CASE k \in Workspace
  BY <1>2, KeysOfTables DEF HomeOf, RowHome, Owner, Entity
<1>3. CASE k \in ItemId \cup TagId
  BY <1>3, KeysOfTables DEF HomeOf, RowHome, Owner, Entity
<1>4. CASE k \in PaymentId
  <2>1. k \notin Workspace \cup Pair /\ k \in Entity /\ Owner(k) = k
    BY <1>4, KeysOfTables DEF Owner, Entity
  <2>2. HomeOf(t, k) = MemberOf[t[k].payer]
    BY <1>4 DEF OneWorkspace
  <2>3. QED
    BY <1>4, <2>1, <2>2 DEF RowHome
<1>5. CASE k \in Pair
  <2>1. k \notin Workspace \cup PaymentId /\ Owner(k) = k[1] /\ k[1] \in ItemId
    BY <1>5, KeysOfTables DEF Owner, Entity, Pair
  <2>2. k[1] \in Key /\ k[1] \notin Workspace \cup PaymentId
    BY <2>1, EntitiesHaveKeys, KeysOfTables DEF Entity
  <2>3. Exists(t[k[1]])
    BY <1>0, <1>1, <1>5, <2>1, OwnerIsParent DEF Fits
  <2>4. QED
    BY <1>5, <2>1, <2>2, <2>3 DEF HomeOf, RowHome
<1>6. QED
  BY <1>2, <1>3, <1>4, <1>5, KeysOfTables DEF Entity

-------------------------------------------------------------------------------
(* What a request sees goes together, and tells it the workspaces of rows.    *)

LEMMA TablesAre ==
    ASSUME IInv
    PROVE  /\ \A k \in Key : /\ Exists(db[k]) => db[k] \in RowOf(k)
                             /\ Exists(draft[k]) => draft[k] \in RowOf(k)
                             /\ holder[k] \in Request \cup {NoRequest}
                             /\ holder[k] = NoRequest => draft[k] = db[k]
           /\ \A k \in Key : Exists(db[k]) => \E w \in Workspace : Fits(db, k, w)
           /\ \A k \in Key : Exists(draft[k]) => \E w \in Workspace : Fits(draft, k, w)
           /\ Typed(db) /\ Typed(draft)
BY TypedIs, OneWorkspaceIs DEF IInv, TypeOK, OneWorkspaceEach, FreeRowsAreCommitted

LEMMA SeesTyped ==
    ASSUME IInv, NEW r \in Request
    PROVE  /\ Typed(Visible(r))
           /\ \A k \in Key : Exists(Visible(r)[k]) => Visible(r)[k] \in RowOf(k)
<1>1. \A k \in Key : Exists(Visible(r)[k]) => Visible(r)[k] \in RowOf(k)
  BY TablesAre, ReadsRow
<1>2. QED
  BY <1>1, TypedIs

LEMMA VersionsAre ==
    ASSUME IInv, NEW k \in Key, k \in Entity
    PROVE  /\ db[k] = Absent \/ db[k] = Gone \/ Exists(db[k])
           /\ draft[k] = Absent \/ draft[k] = Gone \/ Exists(draft[k])
           /\ Exists(db[k]) => db[k] # Absent /\ db[k] # Gone
           /\ Exists(draft[k]) => draft[k] # Absent /\ draft[k] # Gone
           /\ db[k] # Absent => draft[k] # Absent
           /\ db[k] = Gone => draft[k] = Gone
           /\ Exists(db[k]) /\ Exists(draft[k]) => RowHome(k, db[k]) = RowHome(k, draft[k])
BY DEF IInv, Versions, Exists

\* What r has seen of an entity says where every version of it is.
LEMMA SeeingIsKnowing ==
    ASSUME IInv, NEW r \in Request, NEW k \in Entity, Exists(Visible(r)[k])
    PROVE  \A w : Knows(r, k, w) <=> RowHome(k, Visible(r)[k]) = w
<1>1. k \in Key /\ k \in Entity
  BY EntitiesHaveKeys
<1>2. CASE holder[k] = r
  BY <1>1, <1>2, VersionsAre, ReadsRow DEF Knows
<1>3. CASE holder[k] # r
  BY <1>1, <1>3, VersionsAre, ReadsRow DEF Knows
<1>4. QED
  BY <1>2, <1>3

\* A row that r sees refers to rows that r sees.
LEMMA SeesParents ==
    ASSUME IInv, NEW r \in Request, NEW k \in Key, Exists(Visible(r)[k]),
           NEW p \in Parents(k, Visible(r)[k])
    PROVE  /\ p \in Key /\ p \in Entity
           /\ Exists(Visible(r)[p])
           /\ holder[k] = r => Exists(draft[p]) /\ RowHome(p, Visible(r)[p]) = RowHome(p, draft[p])
           /\ holder[k] # r => Exists(db[p]) /\ RowHome(p, Visible(r)[p]) = RowHome(p, db[p])
<1>1. p \in Key /\ p \in Entity
  BY SeesTyped, Levels
<1>2. CASE holder[k] = r
  <2>1. Exists(draft[k]) /\ p \in Parents(k, draft[k])
    BY <1>2, ReadsRow
  <2>2. Exists(draft[p])
    BY <2>1, TablesAre DEF Fits
  <2>3. Exists(db[p]) \/ holder[p] = r
    BY <1>2, <2>1 DEF IInv, ParentsSeen
  <2>4. QED
    BY <1>1, <1>2, <2>2, <2>3, ReadsRow, VersionsAre
<1>3. CASE holder[k] # r
  <2>1. Exists(db[k]) /\ p \in Parents(k, db[k])
    BY <1>3, ReadsRow
  <2>2. Exists(db[p])
    BY <2>1, TablesAre DEF Fits
  <2>3. holder[p] = r => Exists(draft[p])
    <3>1. draft[p] = Gone => holder[k] = holder[p]
      BY <1>1, <2>1, <2>2 DEF IInv, ChildrenHeld
    <3>2. QED
      BY <1>1, <1>3, <2>2, <3>1, VersionsAre
  <2>4. QED
    BY <1>1, <1>3, <2>2, <2>3, ReadsRow, VersionsAre
<1>4. QED
  BY <1>2, <1>3

LEMMA SeesOneWorkspace ==
    ASSUME IInv, NEW r \in Request
    PROVE  /\ OneWorkspace(Visible(r))
           /\ \A k \in Key : Exists(Visible(r)[k]) =>
                \E w \in Workspace : Fits(Visible(r), k, w)
<1>1. ASSUME NEW k \in Key, Exists(Visible(r)[k])
      PROVE  \E w \in Workspace : Fits(Visible(r), k, w)
  <2>1. CASE holder[k] = r
    <3>1. Visible(r)[k] = draft[k]
      BY <2>1, ReadsRow
    <3>2. PICK w \in Workspace : Fits(draft, k, w)
      BY <1>1, <3>1, TablesAre
    <3>3. \A p \in Parents(k, Visible(r)[k]) :
            Exists(Visible(r)[p]) /\ RowHome(p, Visible(r)[p]) = w
      BY <1>1, <2>1, <3>1, <3>2, SeesParents DEF Fits
    <3>4. QED
      BY <3>1, <3>2, <3>3 DEF Fits
  <2>2. CASE holder[k] # r
    <3>1. Visible(r)[k] = db[k]
      BY <2>2, ReadsRow
    <3>2. PICK w \in Workspace : Fits(db, k, w)
      BY <1>1, <3>1, TablesAre
    <3>3. \A p \in Parents(k, Visible(r)[k]) :
            Exists(Visible(r)[p]) /\ RowHome(p, Visible(r)[p]) = w
      BY <1>1, <2>2, <3>1, <3>2, SeesParents DEF Fits
    <3>4. QED
      BY <3>1, <3>2, <3>3 DEF Fits
  <2>3. QED
    BY <2>1, <2>2
<1>2. QED
  BY <1>1, SeesTyped, OneWorkspaceIs

\* From the workspace of a parent r tells that of what refers to it.
LEMMA KnowsKin ==
    ASSUME IInv, NEW r \in Request, NEW k \in Key, Exists(Visible(r)[k]),
           NEW p \in Parents(k, Visible(r)[k]), NEW w, Knows(r, p, w)
    PROVE  /\ \A q \in Parents(k, Visible(r)[k]) : Knows(r, q, w)
           /\ Knows(r, Owner(k), w)
           /\ Belongs(k, Visible(r)[k], w)
<1>1. PICK v \in Workspace : Fits(Visible(r), k, v)
  BY SeesOneWorkspace
<1>2. \A q \in Parents(k, Visible(r)[k]) : Knows(r, q, v)
  BY <1>1, SeesParents, SeeingIsKnowing DEF Fits
<1>3. v = w
  BY <1>1, SeesParents, SeeingIsKnowing DEF Fits
<1>4. CASE k \in Entity
  <2>1. RowHome(k, Visible(r)[k]) = w /\ Owner(k) = k
    BY <1>1, <1>3, <1>4, KeysOfTables DEF Fits, Belongs, Owner
  <2>2. QED
    BY <1>1, <1>2, <1>3, <1>4, <2>1, SeeingIsKnowing DEF Fits
<1>5. CASE k \in Pair
  BY <1>1, <1>2, <1>3, <1>5, SeesTyped, OwnerIsParent DEF Fits
<1>6. QED
  BY <1>4, <1>5, KeysOfTables

-------------------------------------------------------------------------------
(* What statements, commits and rollbacks do to the tables.                   *)

RowsOK ==
    /\ DOMAIN db = Key /\ DOMAIN draft = Key /\ holder \in [Key -> Request \cup {NoRequest}]
    /\ Typed(db) /\ Typed(draft)
    /\ FreeRowsAreCommitted /\ Versions
    /\ OneWorkspaceEach /\ OneWorkspace(draft) /\ ChildrenHeld /\ ParentsSeen

\* A version of row k that r may write about workspace w.
Lawful(r, k, row, w) ==
    /\ k \in Key
    /\ Exists(row) /\ row \in RowOf(k)
    /\ k \in Entity => \/ draft[k] = Absent
                       \/ Exists(draft[k]) /\ RowHome(k, draft[k]) = w
    /\ Belongs(k, row, w)
    /\ \A p \in Parents(k, row) :
        /\ Exists(draft[p]) /\ RowHome(p, draft[p]) = w
        /\ Exists(db[p]) \/ holder[p] = r

KeepsRows(r, rows, w) ==
    /\ Writes(r, rows)
    /\ w \in Workspace
    /\ \A k \in DOMAIN rows : Lawful(r, k, rows[k], w)

\* r deletes rows of workspace w and all that refers to them.
DropsRows(r, rows, w) ==
    /\ Writes(r, rows)
    /\ \A k \in DOMAIN rows :
        /\ k \in Key
        /\ Exists(draft[k]) /\ rows[k] = Deleted(k)
        /\ Knows(r, Owner(k), w)
        /\ \A c \in Key :
            /\ Exists(draft[c]) /\ k \in Parents(c, draft[c]) => c \in DOMAIN rows
            /\ Exists(db[c]) /\ k \in Parents(c, db[c]) => c \in DOMAIN rows \/ holder[c] = r

LEMMA RowsAre ==
    ASSUME IInv
    PROVE  /\ DOMAIN db = Key /\ DOMAIN draft = Key
           /\ holder \in [Key -> Request \cup {NoRequest}]
           /\ FreeRowsAreCommitted
BY DEF IInv, TypeOK

LEMMA ShapesStay ==
    ASSUME IInv, NEW r \in Request,
           (\E rows : Put(r, rows)) \/ CommitTx(r) \/ RollbackTx(r)
    PROVE  /\ DOMAIN db' = Key /\ DOMAIN draft' = Key
           /\ holder' \in [Key -> Request \cup {NoRequest}]
           /\ FreeRowsAreCommitted'
<1>1. FreeRowsAreCommitted'
  BY RowsAre, FreeRowsStayCommitted
<1>2. ASSUME NEW rows, Put(r, rows)
      PROVE  DOMAIN db' = Key /\ DOMAIN draft' = Key /\ holder' \in [Key -> Request \cup {NoRequest}]
  BY <1>2, RowsAre DEF Put
<1>3. CASE CommitTx(r)
  BY <1>1, <1>3, RowsAre DEF CommitTx, Released, Visible
<1>4. CASE RollbackTx(r)
  BY <1>1, <1>4, RowsAre DEF RollbackTx, Released
<1>5. QED
  BY <1>1, <1>2, <1>3, <1>4

\* The parts of RowsOK row by row.
LEMMA RowsFit ==
    ASSUME DOMAIN db' = Key, DOMAIN draft' = Key,
           holder' \in [Key -> Request \cup {NoRequest}],
           FreeRowsAreCommitted', Versions', ChildrenHeld', ParentsSeen',
           \A k \in Key : Exists(db'[k]) =>
                db'[k] \in RowOf(k) /\ \E w \in Workspace : Fits(db', k, w),
           \A k \in Key : Exists(draft'[k]) =>
                draft'[k] \in RowOf(k) /\ \E w \in Workspace : Fits(draft', k, w)
    PROVE  RowsOK'
<1>1. Typed(db') /\ Typed(draft')
  BY TypedIs
<1>2. OneWorkspace(db') /\ OneWorkspace(draft')
  BY <1>1, OneWorkspaceIs
<1>3. QED
  BY <1>1, <1>2 DEF RowsOK, OneWorkspaceEach

LEMMA CommitsRows ==
    ASSUME IInv, NEW r \in Request, CommitTx(r)
    PROVE  /\ RowsOK'
           /\ \A q \in Request \ {r} : \A k, w : Knows(q, k, w) => Knows(q, k, w)'
<1>1. draft' = draft /\ db' = Visible(r)
  BY DEF CommitTx
<1>2. Versions'
  <2>1. ASSUME NEW k \in Entity
        PROVE  /\ db'[k] # Absent => draft'[k] # Absent
               /\ db'[k] = Gone => draft'[k] = Gone
               /\ Exists(db'[k]) /\ Exists(draft'[k]) => RowHome(k, db'[k]) = RowHome(k, draft'[k])
    BY EntitiesHaveKeys, CommitRow, VersionsAre
  <2>2. QED
    BY <2>1 DEF Versions
<1>3. ChildrenHeld'
  <2>1. ASSUME NEW k \in Key, NEW p \in Entity, draft'[p] = Gone, Exists(db'[p]),
               Exists(db'[k]), p \in Parents(k, db'[k])
        PROVE  holder'[k] = holder'[p]
    <3>1. p \in Key /\ draft[p] = Gone
      BY <1>1, <2>1, EntitiesHaveKeys
    <3>2. holder[p] # r /\ Exists(db[p])
      BY <2>1, <3>1, CommitRow, VersionsAre DEF Exists
    <3>3. CASE holder[k] = r
      <4>1. Exists(draft[k]) /\ p \in Parents(k, draft[k])
        BY <2>1, <3>3, CommitRow
      <4>2. Exists(draft[p])
        BY <4>1, TablesAre DEF Fits
      <4>3. QED
        BY <3>1, <4>2 DEF Exists
    <3>4. CASE holder[k] # r
      <4>1. Exists(db[k]) /\ p \in Parents(k, db[k])
        BY <2>1, <3>4, CommitRow
      <4>2. holder[k] = holder[p]
        BY <2>1, <3>1, <3>2, <4>1 DEF IInv, ChildrenHeld
      <4>3. QED
        BY <3>1, <3>2, <3>4, <4>2, CommitRow
    <3>5. QED
      BY <3>3, <3>4
  <2>2. QED
    BY <2>1 DEF ChildrenHeld
<1>4. ParentsSeen'
  <2>1. ASSUME NEW k \in Key, Exists(draft'[k]), NEW p \in Parents(k, draft'[k])
        PROVE  Exists(db'[p]) \/ holder'[p] = holder'[k]
    <3>1. Exists(draft[k]) /\ p \in Parents(k, draft[k])
      BY <1>1, <2>1
    <3>2. p \in Key /\ Exists(draft[p])
      BY <3>1, TablesAre, Levels DEF Fits
    <3>3. Exists(db[p]) \/ holder[p] = holder[k]
      BY <3>1 DEF IInv, ParentsSeen
    <3>4. QED
      BY <3>2, <3>3, CommitRow
  <2>2. QED
    BY <2>1 DEF ParentsSeen
<1>5. \A q \in Request \ {r} : \A k, w : Knows(q, k, w) => Knows(q, k, w)'
  <2>1. ASSUME NEW q \in Request \ {r}, NEW k, NEW w, Knows(q, k, w)
        PROVE  Knows(q, k, w)'
    <3>1. k \in Entity /\ k \in Key
      BY <2>1, EntitiesHaveKeys DEF Knows
    <3>2. QED
      BY <2>1, <3>1, CommitRow, VersionsAre DEF Knows
  <2>2. QED
    BY <2>1
<1>6. \A k \in Key : Exists(db'[k]) =>
        db'[k] \in RowOf(k) /\ \E w \in Workspace : Fits(db', k, w)
  BY <1>1, SeesTyped, SeesOneWorkspace
<1>7. \A k \in Key : Exists(draft'[k]) =>
        draft'[k] \in RowOf(k) /\ \E w \in Workspace : Fits(draft', k, w)
  BY <1>1, TablesAre
<1>8. RowsOK'
  BY <1>2, <1>3, <1>4, <1>6, <1>7, ShapesStay, RowsFit
<1>9. QED
  BY <1>5, <1>8

LEMMA RollsRowsBack ==
    ASSUME IInv, NEW r \in Request, RollbackTx(r)
    PROVE  /\ RowsOK'
           /\ \A q \in Request \ {r} : \A k, w : Knows(q, k, w) => Knows(q, k, w)'
<1>1. db' = db
  BY DEF RollbackTx
<1>2. Versions'
  <2>1. ASSUME NEW k \in Entity
        PROVE  /\ db'[k] # Absent => draft'[k] # Absent
               /\ db'[k] = Gone => draft'[k] = Gone
               /\ Exists(db'[k]) /\ Exists(draft'[k]) => RowHome(k, db'[k]) = RowHome(k, draft'[k])
    BY EntitiesHaveKeys, RollbackRow, VersionsAre
  <2>2. QED
    BY <2>1 DEF Versions
<1>3. ChildrenHeld'
  <2>1. ASSUME NEW k \in Key, NEW p \in Entity, draft'[p] = Gone, Exists(db'[p]),
               Exists(db'[k]), p \in Parents(k, db'[k])
        PROVE  holder'[k] = holder'[p]
    <3>1. p \in Key /\ Exists(db[p]) /\ Exists(db[k]) /\ p \in Parents(k, db[k])
      BY <1>1, <2>1, EntitiesHaveKeys
    <3>2. holder[p] # r /\ draft[p] = Gone
      BY <2>1, <3>1, RollbackRow DEF Exists
    <3>3. holder[k] = holder[p]
      BY <2>1, <3>1, <3>2 DEF IInv, ChildrenHeld
    <3>4. QED
      BY <3>1, <3>2, <3>3, RollbackRow
  <2>2. QED
    BY <2>1 DEF ChildrenHeld
<1>4. ParentsSeen'
  <2>1. ASSUME NEW k \in Key, Exists(draft'[k]), NEW p \in Parents(k, draft'[k])
        PROVE  Exists(db'[p]) \/ holder'[p] = holder'[k]
    <3>1. CASE holder[k] = r
      <4>1. Exists(db[k]) /\ p \in Parents(k, db[k])
        BY <2>1, <3>1, RollbackRow
      <4>2. QED
        BY <1>1, <4>1, TablesAre DEF Fits
    <3>2. CASE holder[k] # r
      <4>1. Exists(draft[k]) /\ p \in Parents(k, draft[k])
        BY <2>1, <3>2, RollbackRow
      <4>2. p \in Key
        BY <4>1, TablesAre, Levels
      <4>3. Exists(db[p]) \/ holder[p] = holder[k]
        BY <4>1 DEF IInv, ParentsSeen
      <4>4. QED
        BY <3>2, <4>2, <4>3, RollbackRow
    <3>3. QED
      BY <3>1, <3>2
  <2>2. QED
    BY <2>1 DEF ParentsSeen
<1>5. \A q \in Request \ {r} : \A k, w : Knows(q, k, w) => Knows(q, k, w)'
  <2>1. ASSUME NEW q \in Request \ {r}, NEW k, NEW w, Knows(q, k, w)
        PROVE  Knows(q, k, w)'
    <3>1. k \in Entity /\ k \in Key
      BY <2>1, EntitiesHaveKeys DEF Knows
    <3>2. QED
      BY <2>1, <3>1, RollbackRow, VersionsAre DEF Knows
  <2>2. QED
    BY <2>1
<1>6. \A k \in Key : Exists(db'[k]) =>
        db'[k] \in RowOf(k) /\ \E w \in Workspace : Fits(db', k, w)
  BY <1>1, TablesAre
<1>7. ASSUME NEW k \in Key, Exists(draft'[k])
      PROVE  draft'[k] \in RowOf(k) /\ \E w \in Workspace : Fits(draft', k, w)
  <2>1. CASE holder[k] = r
    <3>1. draft'[k] = db[k]
      BY <2>1, RollbackRow
    <3>2. PICK w \in Workspace : Fits(db, k, w)
      BY <1>7, <3>1, TablesAre
    <3>3. ASSUME NEW p \in Parents(k, db[k])
          PROVE  Exists(draft'[p]) /\ RowHome(p, draft'[p]) = w
      <4>1. p \in Key /\ p \in Entity /\ Exists(db[p]) /\ RowHome(p, db[p]) = w
        BY <1>7, <3>1, <3>2, <3>3, TablesAre, Levels DEF Fits
      <4>2. draft[p] = Gone => holder[p] = r
        BY <1>7, <2>1, <3>1, <3>3, <4>1 DEF IInv, ChildrenHeld
      <4>3. QED
        BY <4>1, <4>2, RollbackRow, VersionsAre
    <3>4. Fits(draft', k, w)
      BY <3>1, <3>2, <3>3 DEF Fits
    <3>5. QED
      BY <1>7, <3>1, <3>4, TablesAre
  <2>2. CASE holder[k] # r
    <3>1. draft'[k] = draft[k]
      BY <2>2, RollbackRow
    <3>2. PICK w \in Workspace : Fits(draft, k, w)
      BY <1>7, <3>1, TablesAre
    <3>3. ASSUME NEW p \in Parents(k, draft[k])
          PROVE  Exists(draft'[p]) /\ RowHome(p, draft'[p]) = w
      <4>1. p \in Key /\ p \in Entity /\ Exists(draft[p]) /\ RowHome(p, draft[p]) = w
        BY <1>7, <3>1, <3>2, <3>3, TablesAre, Levels DEF Fits
      <4>2. Exists(db[p]) \/ holder[p] = holder[k]
        BY <1>7, <3>1, <3>3 DEF IInv, ParentsSeen
      <4>3. QED
        BY <2>2, <4>1, <4>2, RollbackRow, VersionsAre
    <3>4. Fits(draft', k, w)
      BY <3>1, <3>2, <3>3 DEF Fits
    <3>5. QED
      BY <1>7, <3>1, <3>4, TablesAre
  <2>3. QED
    BY <2>1, <2>2
<1>8. RowsOK'
  BY <1>2, <1>3, <1>4, <1>6, <1>7, ShapesStay, RowsFit
<1>9. QED
  BY <1>5, <1>8

LEMMA WrittenRow ==
    ASSUME NEW r \in Request, NEW rows, Writes(r, rows), NEW k \in Key
    PROVE  /\ db'[k] = db[k]
           /\ k \in DOMAIN rows =>
                draft'[k] = rows[k] /\ holder'[k] = r /\ holder[k] \in {r, NoRequest}
           /\ k \notin DOMAIN rows => draft'[k] = draft[k] /\ holder'[k] = holder[k]
BY PutRow DEF Writes, Free

LEMMA KeepsTheRows ==
    ASSUME IInv, NEW r \in Request, NEW rows, NEW w, KeepsRows(r, rows, w)
    PROVE  /\ RowsOK'
           /\ \A q \in Request : \A k, v : Knows(q, k, v) => Knows(q, k, v)'
           /\ \A k \in DOMAIN rows : Knows(r, Owner(k), w)'
<1>1. Writes(r, rows) /\ db' = db /\ w \in Workspace
  BY DEF KeepsRows, Writes, Put
<1>2. ASSUME NEW k \in DOMAIN rows
      PROVE  /\ k \in Key /\ Exists(rows[k]) /\ rows[k] \in RowOf(k)
             /\ k \in Entity =>
                    /\ RowHome(k, rows[k]) = w
                    /\ draft[k] = Absent \/ (Exists(draft[k]) /\ RowHome(k, draft[k]) = w)
             /\ Belongs(k, rows[k], w)
             /\ \A p \in Parents(k, rows[k]) :
                    /\ Exists(draft[p]) /\ RowHome(p, draft[p]) = w
                    /\ Exists(db[p]) \/ holder[p] = r
  BY DEF KeepsRows, Lawful, Belongs
\* A parent stays where it is.
<1>3. ASSUME NEW p \in Key, p \in Entity, Exists(draft[p])
      PROVE  Exists(draft'[p]) /\ RowHome(p, draft'[p]) = RowHome(p, draft[p])
  BY <1>1, <1>2, <1>3, WrittenRow, VersionsAre
<1>4. Versions'
  <2>1. ASSUME NEW k \in Entity
        PROVE  /\ db'[k] # Absent => draft'[k] # Absent
               /\ db'[k] = Gone => draft'[k] = Gone
               /\ Exists(db'[k]) /\ Exists(draft'[k]) => RowHome(k, db'[k]) = RowHome(k, draft'[k])
    <3>1. k \in Key /\ k \in Entity
      BY EntitiesHaveKeys
    <3>2. CASE k \in DOMAIN rows
      <4>1. draft'[k] = rows[k] /\ Exists(rows[k]) /\ db'[k] = db[k]
        BY <1>1, <1>2, <3>1, <3>2, WrittenRow
      <4>2. db[k] # Gone
        BY <1>2, <3>1, <3>2, VersionsAre, MissingRowsAreNoRows DEF Exists
      <4>3. Exists(db[k]) => RowHome(k, db[k]) = w
        BY <1>2, <3>1, <3>2, VersionsAre
      <4>4. draft'[k] # Absent
        BY <4>1 DEF Exists
      <4>5. QED
        BY <1>2, <3>1, <3>2, <4>1, <4>2, <4>3, <4>4
    <3>3. CASE k \notin DOMAIN rows
      BY <1>1, <3>1, <3>3, WrittenRow, VersionsAre
    <3>4. QED
      BY <3>2, <3>3
  <2>2. QED
    BY <2>1 DEF Versions
<1>5. ChildrenHeld'
  <2>1. ASSUME NEW k \in Key, NEW p \in Entity, draft'[p] = Gone, Exists(db'[p]),
               Exists(db'[k]), p \in Parents(k, db'[k])
        PROVE  holder'[k] = holder'[p]
    <3>1. p \in Key /\ Exists(db[p]) /\ Exists(db[k]) /\ p \in Parents(k, db[k])
      BY <1>1, <2>1, EntitiesHaveKeys
    <3>2. p \notin DOMAIN rows
      BY <1>1, <1>2, <2>1, <3>1, WrittenRow DEF Exists
    <3>3. draft[p] = Gone /\ holder'[p] = holder[p]
      BY <1>1, <2>1, <3>1, <3>2, WrittenRow
    <3>4. holder[k] = holder[p]
      BY <2>1, <3>1, <3>3 DEF IInv, ChildrenHeld
    <3>5. holder[p] # NoRequest
      BY <3>1, <3>3, TablesAre DEF Exists
    <3>6. QED
      BY <1>1, <3>3, <3>4, <3>5, WrittenRow
  <2>2. QED
    BY <2>1 DEF ChildrenHeld
<1>6. ParentsSeen'
  <2>1. ASSUME NEW k \in Key, Exists(draft'[k]), NEW p \in Parents(k, draft'[k])
        PROVE  Exists(db'[p]) \/ holder'[p] = holder'[k]
    <3>1. CASE k \in DOMAIN rows
      <4>1. draft'[k] = rows[k] /\ holder'[k] = r
        BY <1>1, <3>1, WrittenRow
      <4>2. p \in Key /\ (Exists(db[p]) \/ holder[p] = r)
        BY <1>2, <2>1, <3>1, <4>1, Levels
      <4>3. QED
        BY <1>1, <4>1, <4>2, WrittenRow
    <3>2. CASE k \notin DOMAIN rows
      <4>1. Exists(draft[k]) /\ p \in Parents(k, draft[k]) /\ holder'[k] = holder[k]
        BY <1>1, <2>1, <3>2, WrittenRow
      <4>2. p \in Key /\ Exists(draft[p])
        BY <4>1, TablesAre, Levels DEF Fits
      <4>3. Exists(db[p]) \/ holder[p] = holder[k]
        BY <4>1 DEF IInv, ParentsSeen
      <4>4. holder[p] = NoRequest => Exists(db[p])
        BY <4>2, TablesAre
      <4>5. QED
        BY <1>1, <4>1, <4>2, <4>3, <4>4, WrittenRow
    <3>3. QED
      BY <3>1, <3>2
  <2>2. QED
    BY <2>1 DEF ParentsSeen
<1>7. \A k \in Key : Exists(db'[k]) =>
        db'[k] \in RowOf(k) /\ \E v \in Workspace : Fits(db', k, v)
  BY <1>1, TablesAre
<1>8. ASSUME NEW k \in Key, Exists(draft'[k])
      PROVE  draft'[k] \in RowOf(k) /\ \E v \in Workspace : Fits(draft', k, v)
  <2>1. CASE k \in DOMAIN rows
    <3>1. draft'[k] = rows[k]
      BY <1>1, <2>1, WrittenRow
    <3>2. ASSUME NEW p \in Parents(k, rows[k])
          PROVE  Exists(draft'[p]) /\ RowHome(p, draft'[p]) = w
      BY <1>2, <1>3, <2>1, <3>2, Levels
    <3>3. Fits(draft', k, w)
      BY <1>2, <2>1, <3>1, <3>2 DEF Fits
    <3>4. QED
      BY <1>1, <1>2, <2>1, <3>1, <3>3
  <2>2. CASE k \notin DOMAIN rows
    <3>1. draft'[k] = draft[k]
      BY <1>1, <2>2, WrittenRow
    <3>2. draft[k] \in RowOf(k) /\ Exists(draft[k])
      BY <1>8, <3>1, TablesAre
    <3>3. PICK v \in Workspace : Fits(draft, k, v)
      BY <3>2, TablesAre
    <3>4. ASSUME NEW p \in Parents(k, draft[k])
          PROVE  Exists(draft'[p]) /\ RowHome(p, draft'[p]) = v
      BY <1>3, <3>2, <3>3, <3>4, Levels DEF Fits
    <3>5. Fits(draft', k, v)
      BY <3>1, <3>3, <3>4 DEF Fits
    <3>6. QED
      BY <3>1, <3>2, <3>5
  <2>3. QED
    BY <2>1, <2>2
<1>9. RowsOK'
  BY <1>1, <1>4, <1>5, <1>6, <1>7, <1>8, ShapesStay, RowsFit DEF Writes
<1>10. ASSUME NEW q \in Request, NEW k, NEW v, Knows(q, k, v)
       PROVE  Knows(q, k, v)'
  <2>1. k \in Entity /\ k \in Key /\ db'[k] = db[k]
    BY <1>1, <1>10, EntitiesHaveKeys DEF Knows
  <2>2. CASE k \in DOMAIN rows
    <3>1. draft[k] # Absent
      BY <1>10, <2>1, VersionsAre DEF Knows
    <3>2. Exists(draft[k]) /\ RowHome(k, draft[k]) = w /\ RowHome(k, rows[k]) = w
      BY <1>2, <2>1, <2>2, <3>1
    <3>3. draft'[k] = rows[k] /\ holder'[k] = r /\ holder[k] \in {r, NoRequest}
      BY <1>1, <2>1, <2>2, WrittenRow
    <3>4. draft'[k] # Absent
      BY <1>2, <2>2, <3>3 DEF Exists
    <3>5. db'[k] # Absent \/ (holder'[k] = q /\ draft'[k] # Absent)
      BY <1>10, <2>1, <3>3, <3>4, NoRequestIsNoRequest DEF Knows
    <3>6. v = w
      BY <1>10, <3>2 DEF Knows
    <3>7. QED
      BY <1>10, <2>1, <3>2, <3>3, <3>5, <3>6 DEF Knows
  <2>3. CASE k \notin DOMAIN rows
    BY <1>1, <1>10, <2>1, <2>3, WrittenRow DEF Knows
  <2>4. QED
    BY <2>2, <2>3
<1>11. ASSUME NEW k \in DOMAIN rows
       PROVE  Knows(r, Owner(k), w)'
  <2>1. CASE k \in Entity
    <3>1. Owner(k) = k /\ k \in Key
      BY <1>2, <2>1, KeysOfTables DEF Owner
    <3>2. draft'[k] = rows[k] /\ holder'[k] = r /\ db'[k] = db[k]
      BY <1>1, <1>2, <1>11, WrittenRow
    <3>3. draft'[k] # Absent
      BY <1>2, <3>2 DEF Exists
    <3>4. Exists(db[k]) => RowHome(k, db[k]) = w
      BY <1>2, <2>1, VersionsAre
    <3>5. QED
      BY <1>2, <2>1, <3>1, <3>2, <3>3, <3>4 DEF Knows
  <2>2. CASE k \in Pair
    <3>1. Owner(k) \in Parents(k, rows[k]) /\ Owner(k) \in Entity /\ Owner(k) \in Key
      BY <1>2, <2>2, OwnerIsParent
    <3>2. /\ Exists(draft[Owner(k)]) /\ RowHome(Owner(k), draft[Owner(k)]) = w
          /\ Exists(db[Owner(k)]) \/ holder[Owner(k)] = r
      BY <1>2, <3>1
    <3>3. Knows(r, Owner(k), w)
      BY <3>1, <3>2, VersionsAre DEF Knows
    <3>4. QED
      BY <1>10, <3>3
  <2>3. QED
    BY <1>2, <2>1, <2>2, KeysOfTables
<1>12. QED
  BY <1>9, <1>10, <1>11

LEMMA DropsTheRows ==
    ASSUME IInv, NEW r \in Request, NEW rows, NEW w, DropsRows(r, rows, w)
    PROVE  /\ RowsOK'
           /\ \A q \in Request : \A k, v : Knows(q, k, v) => Knows(q, k, v)'
           /\ \A k \in DOMAIN rows : Knows(r, Owner(k), w)'
<1>1. Writes(r, rows) /\ db' = db
  BY DEF DropsRows, Writes, Put
<1>2. ASSUME NEW k \in DOMAIN rows
      PROVE  /\ k \in Key
             /\ Exists(draft[k]) /\ rows[k] = Deleted(k) /\ ~Exists(rows[k])
             /\ k \in Entity => rows[k] = Gone
             /\ Knows(r, Owner(k), w)
             /\ \A c \in Key :
                 /\ Exists(draft[c]) /\ k \in Parents(c, draft[c]) => c \in DOMAIN rows
                 /\ Exists(db[c]) /\ k \in Parents(c, db[c]) => c \in DOMAIN rows \/ holder[c] = r
  BY KeysOfTables DEF DropsRows, Deleted, Exists
<1>3. Versions'
  <2>1. ASSUME NEW k \in Entity
        PROVE  /\ db'[k] # Absent => draft'[k] # Absent
               /\ db'[k] = Gone => draft'[k] = Gone
               /\ Exists(db'[k]) /\ Exists(draft'[k]) => RowHome(k, db'[k]) = RowHome(k, draft'[k])
    <3>1. k \in Key /\ k \in Entity
      BY EntitiesHaveKeys
    <3>2. CASE k \in DOMAIN rows
      BY <1>1, <1>2, <3>1, <3>2, WrittenRow, MissingRowsAreNoRows
    <3>3. CASE k \notin DOMAIN rows
      BY <1>1, <3>1, <3>3, WrittenRow, VersionsAre
    <3>4. QED
      BY <3>2, <3>3
  <2>2. QED
    BY <2>1 DEF Versions
<1>4. ChildrenHeld'
  <2>1. ASSUME NEW k \in Key, NEW p \in Entity, draft'[p] = Gone, Exists(db'[p]),
               Exists(db'[k]), p \in Parents(k, db'[k])
        PROVE  holder'[k] = holder'[p]
    <3>1. p \in Key /\ Exists(db[p]) /\ Exists(db[k]) /\ p \in Parents(k, db[k])
      BY <1>1, <2>1, EntitiesHaveKeys
    <3>2. CASE p \in DOMAIN rows
      <4>1. k \in DOMAIN rows \/ holder[k] = r
        BY <1>2, <3>1, <3>2
      <4>2. QED
        BY <1>1, <3>1, <3>2, <4>1, WrittenRow
    <3>3. CASE p \notin DOMAIN rows
      <4>1. draft[p] = Gone /\ holder'[p] = holder[p]
        BY <1>1, <2>1, <3>1, <3>3, WrittenRow
      <4>2. holder[k] = holder[p]
        BY <2>1, <3>1, <4>1 DEF IInv, ChildrenHeld
      <4>3. holder[p] # NoRequest
        BY <3>1, <4>1, TablesAre DEF Exists
      <4>4. QED
        BY <1>1, <4>1, <4>2, <4>3, WrittenRow
    <3>4. QED
      BY <3>2, <3>3
  <2>2. QED
    BY <2>1 DEF ChildrenHeld
\* What is still there is as it was, and so is what it refers to.
<1>5. ASSUME NEW k \in Key, Exists(draft'[k])
      PROVE  /\ Exists(draft[k]) /\ draft'[k] = draft[k] /\ holder'[k] = holder[k]
             /\ \A p \in Parents(k, draft[k]) :
                    /\ p \in Key /\ p \notin DOMAIN rows
                    /\ draft'[p] = draft[p] /\ holder'[p] = holder[p]
  <2>1. k \notin DOMAIN rows
    BY <1>1, <1>2, <1>5, WrittenRow
  <2>2. Exists(draft[k]) /\ draft'[k] = draft[k] /\ holder'[k] = holder[k]
    BY <1>1, <1>5, <2>1, WrittenRow
  <2>3. \A p \in Parents(k, draft[k]) : p \in Key /\ p \notin DOMAIN rows
    BY <1>2, <2>1, <2>2, TablesAre, Levels
  <2>4. QED
    BY <1>1, <2>2, <2>3, WrittenRow
<1>6. ParentsSeen'
  <2>1. ASSUME NEW k \in Key, Exists(draft'[k]), NEW p \in Parents(k, draft'[k])
        PROVE  Exists(db'[p]) \/ holder'[p] = holder'[k]
    BY <1>1, <1>5, <2>1 DEF IInv, ParentsSeen
  <2>2. QED
    BY <2>1 DEF ParentsSeen
<1>7. \A k \in Key : Exists(db'[k]) =>
        db'[k] \in RowOf(k) /\ \E v \in Workspace : Fits(db', k, v)
  BY <1>1, TablesAre
<1>8. ASSUME NEW k \in Key, Exists(draft'[k])
      PROVE  draft'[k] \in RowOf(k) /\ \E v \in Workspace : Fits(draft', k, v)
  <2>1. PICK v \in Workspace : Fits(draft, k, v)
    BY <1>5, <1>8, TablesAre
  <2>2. Fits(draft', k, v)
    BY <1>5, <1>8, <2>1 DEF Fits
  <2>3. QED
    BY <1>5, <1>8, <2>2, TablesAre
<1>9. RowsOK'
  BY <1>1, <1>3, <1>4, <1>6, <1>7, <1>8, ShapesStay, RowsFit DEF Writes
<1>10. ASSUME NEW q \in Request, NEW k, NEW v, Knows(q, k, v)
       PROVE  Knows(q, k, v)'
  <2>1. k \in Entity /\ k \in Key /\ db'[k] = db[k]
    BY <1>1, <1>10, EntitiesHaveKeys DEF Knows
  <2>2. CASE k \in DOMAIN rows
    <3>1. draft'[k] = Gone /\ holder'[k] = r /\ holder[k] \in {r, NoRequest}
      BY <1>1, <1>2, <2>1, <2>2, WrittenRow
    <3>2. draft'[k] # Absent /\ ~Exists(draft'[k])
      BY <3>1, MissingRowsAreNoRows DEF Exists
    <3>3. db'[k] # Absent \/ (holder'[k] = q /\ draft'[k] # Absent)
      BY <1>10, <2>1, <3>1, <3>2, NoRequestIsNoRequest DEF Knows
    <3>4. QED
      BY <1>10, <2>1, <3>2, <3>3 DEF Knows
  <2>3. CASE k \notin DOMAIN rows
    BY <1>1, <1>10, <2>1, <2>3, WrittenRow DEF Knows
  <2>4. QED
    BY <2>2, <2>3
<1>11. QED
  BY <1>2, <1>9, <1>10

-------------------------------------------------------------------------------
(* The scripts.                                                             *)

LEMMA OpsAre ==
    Op = {"none", "createWorkspace"} \cup OfWorkspace \cup OfItem \cup OfPayment \cup OfTag
BY DEF Op, Script, OfWorkspace, OfItem, OfPayment, OfTag

\* Where each statement stands.
LEMMA StatementsAre ==
    ASSUME NEW op \in Op, NEW pc \in 1..Len(Script[op]), NEW s, s = Script[op][pc]
    PROVE
        /\ s = "insertWorkspace" => op = "createWorkspace" /\ pc = 1
        /\ s = "setWorkspace" => op = "updateWorkspace" /\ pc = 1
        /\ s = "setWorkspaceRule" => op = "updateWorkspaceStakeRule" /\ pc = 1
        /\ s = "dropWorkspace" => op = "deleteWorkspace" /\ pc = 1
        /\ s = "insertItem" => op = "createItem" /\ pc = 1
        /\ s = "setItem" => op = "updateItem" /\ pc = 1
        /\ s = "dropItem" => op = "deleteItem" /\ pc = 1
        /\ s = "insertPayment" => op = "createPayment" /\ pc = 1
        /\ s = "checkPayer" => op = "updatePayment" /\ pc = 1
        /\ s = "setPayment" => op = "updatePayment" /\ pc = 2
        /\ s = "findItem" => op = "deletePayment" /\ pc = 1
        /\ s = "dropPayment" => op = "deletePayment" /\ pc = 2
        /\ s = "insertTag" => op = "createTag" /\ pc = 1
        /\ s = "readTag" => op \in {"updateTag", "deleteTag"} /\ pc = 1
        /\ s = "setTag" => op = "updateTag" /\ pc = 2
        /\ s = "dropTag" => op = "deleteTag" /\ pc = 2
        /\ s = "checkNotAssigned" => op = "assignTag" /\ pc = 1
        /\ s = "insertItemTag" => op = "assignTag" /\ pc = 2
        /\ s = "checkAssigned" => op = "unassignTag" /\ pc = 1
        /\ s = "deleteItemTag" => op = "unassignTag" /\ pc = 2
        /\ s = "titlePayments" => op = "mergeItems" /\ pc = 1
        /\ s = "movePayments" => op = "mergeItems" /\ pc = 2
        /\ s = "clearTags" => op = "mergeItems" /\ pc = 3
        /\ s = "deleteMerging" => op = "mergeItems" /\ pc = 4
        /\ s = "readHost" => op = "mergeItems" /\ pc = 5
        /\ s = "validatePayments" => op = "extractAsItem" /\ pc = 1
        /\ s = "insertExtracted" => op = "extractAsItem" /\ pc = 2
        /\ s = "moveListed" => op = "extractAsItem" /\ pc = 3
        /\ s = "readTags" => op = "extractAsItem" /\ pc = 4
        /\ s = "copyTags" => op = "extractAsItem" /\ pc = 5
        /\ s = "validateStakes" => op = "setItemStakes" /\ pc = 1
        /\ s = "readStakes" => op \in {"setItemStakes", "setItemStakeRule"}
        /\ s = "readStakes" /\ op = "setItemStakes" => pc = 2
        /\ s = "upsertStakes" => op = "setItemStakes" /\ pc = 3
        /\ s = "clearRule" => op = "setItemStakes" /\ pc = 4
        /\ s = "setRule" => op = "setItemStakeRule" /\ pc = 2
        /\ s = "deleteStakes" => op = "setItemStakeRule" /\ pc = 3
        /\ s = "idle" <=> op = "none"
        /\ op = "createWorkspace" => s \in {"insertWorkspace", "commit"}
        /\ s \notin {"commit", "idle"} =>
            /\ pc + 1 \in 1..Len(Script[op])
            /\ Script[op][pc + 1] # "insertWorkspace"
            /\ Script[op][pc + 1] = "copyTags" => s = "readTags"
<1>1. CASE op = "none"
  BY <1>1 DEF Script
<1>2. CASE op = "createWorkspace"
  BY <1>2 DEF Script
<1>3. CASE op = "updateWorkspace"
  BY <1>3 DEF Script
<1>4. CASE op = "updateWorkspaceStakeRule"
  BY <1>4 DEF Script
<1>5. CASE op = "deleteWorkspace"
  BY <1>5 DEF Script
<1>6. CASE op = "createItem"
  BY <1>6 DEF Script
<1>7. CASE op = "updateItem"
  BY <1>7 DEF Script
<1>8. CASE op = "deleteItem"
  BY <1>8 DEF Script
<1>9. CASE op = "createPayment"
  BY <1>9 DEF Script
<1>10. CASE op = "updatePayment"
  BY <1>10 DEF Script
<1>11. CASE op = "deletePayment"
  BY <1>11 DEF Script
<1>12. CASE op = "createTag"
  BY <1>12 DEF Script
<1>13. CASE op = "updateTag"
  BY <1>13 DEF Script
<1>14. CASE op = "deleteTag"
  BY <1>14 DEF Script
<1>15. CASE op = "assignTag"
  BY <1>15 DEF Script
<1>16. CASE op = "unassignTag"
  BY <1>16 DEF Script
<1>17. CASE op = "mergeItems"
  BY <1>17 DEF Script
<1>18. CASE op = "extractAsItem"
  BY <1>18 DEF Script
<1>19. CASE op = "setItemStakes"
  BY <1>19 DEF Script
<1>20. CASE op = "setItemStakeRule"
  BY <1>20 DEF Script
<1>21. QED
  BY <1>1, <1>2, <1>3, <1>4, <1>5, <1>6, <1>7, <1>8, <1>9, <1>10, <1>11, <1>12, <1>13, <1>14, <1>15, <1>16, <1>17, <1>18, <1>19, <1>20, OpsAre
     DEF OfWorkspace, OfItem, OfPayment, OfTag

LEMMA FirstStatements ==
    ASSUME NEW op \in Op
    PROVE  /\ 1 \in 1..Len(Script[op])
           /\ Script[op][1] # "copyTags"
<1>1. CASE op = "none"
  BY <1>1 DEF Script
<1>2. CASE op = "createWorkspace"
  BY <1>2 DEF Script
<1>3. CASE op = "updateWorkspace"
  BY <1>3 DEF Script
<1>4. CASE op = "updateWorkspaceStakeRule"
  BY <1>4 DEF Script
<1>5. CASE op = "deleteWorkspace"
  BY <1>5 DEF Script
<1>6. CASE op = "createItem"
  BY <1>6 DEF Script
<1>7. CASE op = "updateItem"
  BY <1>7 DEF Script
<1>8. CASE op = "deleteItem"
  BY <1>8 DEF Script
<1>9. CASE op = "createPayment"
  BY <1>9 DEF Script
<1>10. CASE op = "updatePayment"
  BY <1>10 DEF Script
<1>11. CASE op = "deletePayment"
  BY <1>11 DEF Script
<1>12. CASE op = "createTag"
  BY <1>12 DEF Script
<1>13. CASE op = "updateTag"
  BY <1>13 DEF Script
<1>14. CASE op = "deleteTag"
  BY <1>14 DEF Script
<1>15. CASE op = "assignTag"
  BY <1>15 DEF Script
<1>16. CASE op = "unassignTag"
  BY <1>16 DEF Script
<1>17. CASE op = "mergeItems"
  BY <1>17 DEF Script
<1>18. CASE op = "extractAsItem"
  BY <1>18 DEF Script
<1>19. CASE op = "setItemStakes"
  BY <1>19 DEF Script
<1>20. CASE op = "setItemStakeRule"
  BY <1>20 DEF Script
<1>21. QED
  BY <1>1, <1>2, <1>3, <1>4, <1>5, <1>6, <1>7, <1>8, <1>9, <1>10, <1>11, <1>12, <1>13, <1>14, <1>15, <1>16, <1>17, <1>18, <1>19, <1>20, OpsAre
     DEF OfWorkspace, OfItem, OfPayment, OfTag

-------------------------------------------------------------------------------
(* How a request goes on.                                                    *)

OthersWait(r) == \A q \in Request \ {r} : req'[q] = req[q]

\* r is at its next statement, with another answer or another id at most.
Moves(r) ==
    /\ DOMAIN req' = Request /\ OthersWait(r)
    /\ DOMAIN req'[r] = DOMAIN Idle
    /\ req'[r].pc = req[r].pc + 1
    /\ req'[r].op = req[r].op /\ req'[r].of = req[r].of /\ req'[r].with = req[r].with
    /\ req'[r].seen = req[r].seen /\ req'[r].arg = req[r].arg

\* r knows after the step what it has to know, and still works where it did.
Goes(r) ==
    /\ DOMAIN req' = Request /\ OthersWait(r)
    /\ history' = history
    /\ req'[r].op \in Op
    /\ Known(r)' /\ Placed(r)'
    /\ \/ req[r].op = "none"
       \/ /\ req'[r].op # "none" /\ ~At(r, "insertWorkspace")'
          /\ At(r, "insertWorkspace") \/ Base(r)' = Base(r)

Passes(r) == UNCHANGED tables /\ Goes(r)

Changes(r) ==
    /\ req[r].op # "none"
    /\ \E rows : KeepsRows(r, rows, Base(r)') \/ DropsRows(r, rows, Base(r)')
    /\ Goes(r)

Kinds(r) == Passes(r) \/ Throw(r) \/ commit(r) \/ Changes(r)

LEMMA Statement ==
    ASSUME IInv, NEW r \in Request
    PROVE  /\ req[r].op \in Op
           /\ req[r].pc \in 1..Len(Script[req[r].op]) /\ req[r].pc \in Nat
           /\ Current(r) = Script[req[r].op][req[r].pc]
           /\ DOMAIN req = Request
           /\ DOMAIN req[r] = DOMAIN Idle
           /\ Known(r) /\ Placed(r)
<1>1. Known(r) /\ Placed(r) /\ req[r].op \in Op /\ DOMAIN req = Request
  BY DEF IInv, TypeOK, RequestsOK
<1>2. Len(Script[req[r].op]) \in Nat
  BY <1>1, OpsAre DEF Script, OfWorkspace, OfItem, OfPayment, OfTag
<1>3. QED
  BY <1>1, <1>2 DEF Known, Placed, Current

LEMMA BasesAre ==
    ASSUME IInv, NEW r \in Request, req[r].op # "none",
           req[r].op = "createWorkspace" => req[r].pc > 1
    PROVE  /\ Base(r) \in Workspace
           /\ req[r].op = "createWorkspace" => Base(r) = req[r].made
           /\ req[r].op \in OfWorkspace => Base(r) = req[r].of
           /\ req[r].op \in OfItem \cup OfTag => Base(r) = req[r].seen[req[r].of].workspace
           /\ req[r].op \in OfPayment => Base(r) = MemberOf[req[r].seen[req[r].of].payer]
<1>1. Known(r) /\ Placed(r) /\ req[r].op \in Op
  BY Statement
<1>2. CASE req[r].op = "createWorkspace"
  BY <1>1, <1>2 DEF Base, Placed, OfWorkspace, OfItem, OfPayment, OfTag
<1>3. CASE req[r].op \in OfWorkspace
  BY <1>1, <1>3 DEF Base, Known, OfWorkspace, OfItem, OfPayment, OfTag
<1>4. CASE req[r].op \in OfItem
  <2>1. req[r].of \in ItemId /\ req[r].seen[req[r].of] \in ItemRow
    BY <1>1, <1>4 DEF Known
  <2>2. req[r].of \notin Workspace \cup PaymentId
    BY <2>1, EntitiesHaveKeys, KeysOfTables DEF Entity
  <2>3. QED
    BY <1>4, <2>1, <2>2 DEF Base, ItemRow, OfWorkspace, OfItem, OfPayment, OfTag
<1>5. CASE req[r].op \in OfTag
  <2>1. req[r].of \in TagId /\ req[r].seen[req[r].of] \in TagRow
    BY <1>1, <1>5 DEF Known
  <2>2. req[r].of \notin Workspace \cup PaymentId
    BY <2>1, EntitiesHaveKeys, KeysOfTables DEF Entity
  <2>3. QED
    BY <1>5, <2>1, <2>2 DEF Base, TagRow, OfWorkspace, OfItem, OfPayment, OfTag
<1>6. CASE req[r].op \in OfPayment
  <2>1. req[r].of \in PaymentId /\ req[r].seen[req[r].of] \in PaymentRow
    BY <1>1, <1>6 DEF Known
  <2>2. req[r].of \notin Workspace
    BY <2>1, EntitiesHaveKeys, KeysOfTables DEF Entity
  <2>3. req[r].seen[req[r].of].payer \in Member
    BY <2>1 DEF PaymentRow
  <2>4. Base(r) = MemberOf[req[r].seen[req[r].of].payer]
    BY <1>6, <2>1, <2>2 DEF Base, OfPayment
  <2>5. QED
    BY <1>6, <2>3, <2>4, MembersHaveWorkspaces DEF OfWorkspace, OfItem, OfPayment, OfTag
<1>7. QED
  BY <1>1, <1>2, <1>3, <1>4, <1>5, <1>6, OpsAre

LEMMA KnownStays ==
    ASSUME NEW q \in Request, Known(q),
           DOMAIN req'[q] = DOMAIN Idle,
           req'[q] = req[q] \/ req[q].op # "none",
           req'[q].op = req[q].op, req'[q].of = req[q].of, req'[q].with = req[q].with,
           req'[q].seen = req[q].seen, req'[q].arg = req[q].arg,
           Base(q)' = Base(q) \/ req[q].op = "createWorkspace",
           \A k, w : Knows(q, k, w) => Knows(q, k, w)'
    PROVE  Known(q)'
<1> DEFINE op == req[q].op
           of == req[q].of
           seen == req[q].seen
           with == req[q].with
<1>0. op \notin {"none", "createWorkspace"} => Base(q)' = Base(q)
  OBVIOUS
<1>1. op = "none" => req'[q] = Idle
  BY DEF Known
<1>2. op \in OfPayment =>
        /\ of \in PaymentId /\ seen[of] \in PaymentRow
        /\ Knows(q, seen[of].item, Base(q))'
  BY <1>0 DEF Known, OfPayment
<1>3. op \notin {"none", "createWorkspace"} => Knows(q, of, Base(q))'
  BY <1>0 DEF Known
<1>4. op \in {"assignTag", "unassignTag"} => with \in TagId /\ Knows(q, with, Base(q))'
  BY <1>0 DEF Known
<1>5. op = "mergeItems" => with \in ItemId /\ seen[with] \in ItemRow /\ Knows(q, with, Base(q))'
  BY <1>0 DEF Known
<1>6. op = "createPayment" => with \in Member /\ MemberOf[with] = Base(q)'
  BY <1>0 DEF Known
<1>7. Arguments(q)'
  BY DEF Known, Arguments
<1>8. QED
  BY <1>1, <1>2, <1>3, <1>4, <1>5, <1>6, <1>7 DEF Known

\* What somebody else does leaves a request what it knows.
LEMMA OthersStay ==
    ASSUME IInv, NEW r \in Request, NEW q \in Request \ {r}, req'[q] = req[q],
           \/ UNCHANGED tables
           \/ \E rows : Writes(r, rows)
           \/ CommitTx(r)
           \/ RollbackTx(r),
           \A k, w : Knows(q, k, w) => Knows(q, k, w)'
    PROVE  Known(q)' /\ Placed(q)' /\ Base(q)' = Base(q)
<1>1. Base(q)' = Base(q)
  BY DEF Base
<1>2. Known(q)'
  BY <1>1, KnownStays, Statement
<1>3. req[q].op = "deleteWorkspace" /\ req[q].pc > 1 =>
        holder'[req[q].of] = q /\ draft'[req[q].of] = Gone
  <2>1. HAVE req[q].op = "deleteWorkspace" /\ req[q].pc > 1
  <2>2. req[q].of \in Workspace
    BY <2>1, Statement DEF Known, OfWorkspace
  <2>3. req[q].of \in Key /\ holder[req[q].of] = q /\ draft[req[q].of] = Gone
    BY <2>1, <2>2, Statement, EntitiesHaveKeys DEF Placed, Entity
  <2>4. ~Free(r, req[q].of)
    BY <2>3, NoRequestIsNoRequest DEF Free
  <2>5. QED
    BY <2>3, <2>4, HeldRowsStay
<1>4. At(q, "copyTags")' <=> At(q, "copyTags")
  BY DEF At, Current
<1>5. Placed(q)'
  BY <1>1, <1>3, <1>4, Statement DEF Placed
<1>6. QED
  BY <1>1, <1>2, <1>5

\* What r reads, checks or makes on its way.
Finds(r) ==
    /\ req[r].op \in OfPayment =>
        IF req[r].pc = 1 THEN req'[r].got = Base(r) ELSE req'[r].got = req[r].got
    /\ req[r].op = "updatePayment" /\ req[r].pc = 1 => MemberOf[req[r].with] = Base(r)
    /\ req[r].op = "createWorkspace" => req'[r].made \in Workspace
    /\ req[r].op = "deleteWorkspace" => holder'[req[r].of] = r /\ draft'[req[r].of] = Gone
    /\ req[r].op = "extractAsItem" /\ req[r].pc = 1 =>
        \A p \in Range(req[r].arg.payments) : Knows(r, p, Base(r))
    /\ req[r].op = "extractAsItem" /\ req[r].pc = 2 =>
        req'[r].made \in ItemId /\ Knows(r, req[r].made, Base(r))'
    /\ req[r].op = "extractAsItem" /\ req[r].pc > 2 => req'[r].made = req[r].made
    /\ At(r, "readTags") => \A x \in req'[r].got : x \in TagId /\ Knows(r, x, Base(r))
    /\ req[r].op = "setItemStakes" /\ req[r].pc = 1 =>
        \A n \in DOMAIN req[r].arg :
            MemberOf[req[r].arg[n].member] = Base(r) /\ req[r].arg[n].value >= 0

LEMMA MovesOn ==
    ASSUME IInv, NEW r \in Request, Moves(r), Current(r) \notin {"commit", "idle"},
           history' = history, Finds(r),
           \A k, w : Knows(r, k, w) => Knows(r, k, w)'
    PROVE  /\ Goes(r)
           /\ req[r].op # "none"
<1> DEFINE op == req[r].op
           pc == req[r].pc
<1>1. /\ op # "none" /\ op \in Op /\ pc + 1 \in 1..Len(Script[op]) /\ pc \in Nat /\ pc > 0
      /\ Known(r) /\ Placed(r)
      /\ Script[op][pc + 1] # "insertWorkspace"
      /\ Script[op][pc + 1] = "copyTags" => At(r, "readTags")
      /\ At(r, "insertWorkspace") => op = "createWorkspace"
  BY Statement, StatementsAre DEF At
<1>2. req'[r].op = op /\ req'[r].pc = pc + 1 /\ Current(r)' = Script[op][pc + 1]
  BY DEF Moves, Current
<1>3. op # "createWorkspace" => Base(r)' = Base(r)
  BY DEF Base, Moves
<1>4. Known(r)'
  BY <1>1, <1>3, KnownStays DEF Moves
<1>5. Placed(r)'
  <2>1. op \in OfPayment => req'[r].got = Base(r)'
    BY <1>1, <1>3 DEF Finds, Placed, OfPayment
  <2>2. op = "updatePayment" => MemberOf[req'[r].with] = Base(r)'
    BY <1>1, <1>3 DEF Finds, Placed, Moves
  <2>3. op = "deleteWorkspace" => holder'[req'[r].of] = r /\ draft'[req'[r].of] = Gone
    BY DEF Finds, Moves
  <2>4. op = "extractAsItem" => \A p \in Range(req'[r].arg.payments) : Knows(r, p, Base(r))'
    BY <1>1, <1>3 DEF Finds, Placed, Moves
  <2>5. op = "extractAsItem" /\ pc + 1 > 2 => req'[r].made \in ItemId /\ Knows(r, req[r].made, Base(r))'
    BY <1>1, <1>3 DEF Finds, Placed, Moves
  <2>6. At(r, "copyTags")' => \A x \in req'[r].got : x \in TagId /\ Knows(r, x, Base(r))'
    <3>1. HAVE At(r, "copyTags")'
    <3>2. At(r, "readTags")
      BY <1>1, <1>2, <3>1 DEF At
    <3>3. op = "extractAsItem"
      BY <3>2, Statement, StatementsAre DEF At
    <3>4. QED
      BY <1>3, <3>2, <3>3 DEF Finds
  <2>7. op = "setItemStakes" =>
            \A n \in DOMAIN req'[r].arg :
                MemberOf[req'[r].arg[n].member] = Base(r)' /\ req'[r].arg[n].value >= 0
    BY <1>1, <1>3 DEF Finds, Placed, Moves
  <2>8. QED
    BY <1>1, <1>2, <2>1, <2>2, <2>3, <2>4, <2>5, <2>6, <2>7 DEF Placed, Finds
<1>6. At(r, "insertWorkspace") \/ Base(r)' = Base(r)
  BY <1>3, Statement, StatementsAre DEF At
<1>7. QED
  BY <1>1, <1>2, <1>4, <1>5, <1>6 DEF Goes, Moves, At

-------------------------------------------------------------------------------
(* Statements in general.                                                    *)

Reads(r, what) ==
    /\ req' = [req EXCEPT ![r].pc = @ + 1, ![r].got = what]
    /\ SameLog
    /\ UNCHANGED tables

Executes(r, rows) ==
    /\ WaitsFor(r, rows) = {}
    /\ Linked(r, rows)
    /\ Put(r, rows)
    /\ SameLog

Inserts(r, k, row) ==
    /\ draft[k] = Absent
    /\ Executes(r, [x \in {k} |-> row])
    /\ req' = [req EXCEPT ![r].pc = @ + 1, ![r].made = k]

LEMMA ReadMoves ==
    ASSUME IInv, NEW r \in Request, NEW what, Reads(r, what)
    PROVE  /\ Moves(r) /\ UNCHANGED tables /\ history' = history
           /\ req'[r].got = what /\ req'[r].made = req[r].made
<1>1. DOMAIN req = Request /\ DOMAIN req[r] = DOMAIN Idle
  BY Statement
<1>2. req'[r] = [req[r] EXCEPT !.pc = @ + 1, !.got = what] /\ DOMAIN req' = Request /\ OthersWait(r)
  BY <1>1 DEF Reads, OthersWait
<1>3. QED
  BY <1>1, <1>2 DEF Moves, Idle, Reads, SameLog

LEMMA AdvanceMoves ==
    ASSUME IInv, NEW r \in Request, Advance(r)
    PROVE  /\ Moves(r)
           /\ req'[r].got = req[r].got /\ req'[r].made = req[r].made
<1>1. DOMAIN req = Request /\ DOMAIN req[r] = DOMAIN Idle
  BY Statement
<1>2. req'[r] = [req[r] EXCEPT !.pc = @ + 1] /\ DOMAIN req' = Request /\ OthersWait(r)
  BY <1>1 DEF Advance, OthersWait
<1>3. QED
  BY <1>1, <1>2 DEF Moves, Idle

LEMMA InsertMoves ==
    ASSUME IInv, NEW r \in Request, NEW k, NEW row, Inserts(r, k, row)
    PROVE  /\ Moves(r) /\ history' = history
           /\ req'[r].got = req[r].got /\ req'[r].made = k
<1>1. DOMAIN req = Request /\ DOMAIN req[r] = DOMAIN Idle
  BY Statement
<1>2. req'[r] = [req[r] EXCEPT !.pc = @ + 1, !.made = k] /\ DOMAIN req' = Request /\ OthersWait(r)
  BY <1>1 DEF Inserts, OthersWait
<1>3. QED
  BY <1>1, <1>2 DEF Moves, Idle, Inserts, Executes, SameLog

\* An INSERT takes an id that no version of any row has.
LEMMA InsertDoes ==
    ASSUME NEW r \in Request, NEW statement, NEW Ids, NEW row, Insert(r, statement, Ids, row)
    PROVE  Throw(r) \/ \E k \in Ids : Inserts(r, k, row)
<1> DEFINE k == CHOOSE k \in Unused(Ids) : TRUE
<1>1. CASE Unused(Ids) = {}
  BY <1>1 DEF Insert
<1>2. CASE Unused(Ids) # {}
  <2>1. k \in Unused(Ids)
    BY <1>2
  <2>2. k \in Ids /\ draft[k] = Absent
    BY <2>1 DEF Unused
  <2>3. Throw(r) \/ Inserts(r, k, row)
    BY <1>2, <2>2 DEF Insert, Inserts, Executes
  <2>4. QED
    BY <2>2, <2>3
<1>3. QED
  BY <1>1, <1>2

\* What a statement waited for, and what it finds its rows referring to.
LEMMA ExecutesFreely ==
    ASSUME IInv, NEW r \in Request, NEW rows, Executes(r, rows)
    PROVE  /\ Writes(r, rows)
           /\ \A k \in DOMAIN rows : Free(r, k)
           /\ \A k \in DOMAIN rows, c \in Key :
                ~Exists(rows[k]) /\ c \in Family(draft, k) => Free(r, c)
           /\ \A k \in DOMAIN rows, p \in Key : Exists(rows[k]) /\ p \in Parents(k, rows[k]) =>
                Exists(Visible(r)[p]) /\ (draft[p] = Gone => Free(r, p))
<1> DEFINE kept == {k \in DOMAIN rows : Exists(rows[k])}
           parents == UNION {Parents(k, rows[k]) : k \in kept}
           children == UNION {Family(draft, k) : k \in DOMAIN rows \ kept}
           all == DOMAIN rows \cup children \cup {k \in parents : draft[k] = Gone}
<1>1. Blockers(r, all) = {}
  BY DEF Executes, WaitsFor
<1>2. \A k \in all : Free(r, k)
  BY <1>1, UnblockedRowsAreFree
<1>3. \A k \in DOMAIN rows : Free(r, k)
  BY <1>2
<1>4. ASSUME NEW k \in DOMAIN rows, NEW c \in Key, ~Exists(rows[k]), c \in Family(draft, k)
      PROVE  Free(r, c)
  BY <1>2, <1>4
<1>5. ASSUME NEW k \in DOMAIN rows, NEW p \in Key, Exists(rows[k]), p \in Parents(k, rows[k])
      PROVE  Exists(Visible(r)[p]) /\ (draft[p] = Gone => Free(r, p))
  <2>1. Exists(Visible(r)[p])
    BY <1>5 DEF Executes, Linked
  <2>2. p \in parents
    BY <1>5
  <2>3. QED
    BY <1>2, <2>1, <2>2
<1>6. Writes(r, rows)
  BY <1>3 DEF Executes, Writes
<1>7. QED
  BY <1>3, <1>4, <1>5, <1>6

\* Of a row it need not wait for, r sees the newest version.
LEMMA SeesFree ==
    ASSUME IInv, NEW r \in Request, NEW k \in Key, Free(r, k)
    PROVE  Visible(r)[k] = draft[k]
BY FreeRowIsNewest DEF IInv

\* A row that belongs to workspace w, as do the rows it refers to.
Fitting(r, k, row, w) ==
    /\ k \in Key
    /\ Exists(row) /\ row \in RowOf(k)
    /\ k \in Entity => \/ draft[k] = Absent
                       \/ Exists(Visible(r)[k]) /\ RowHome(k, Visible(r)[k]) = w
    /\ Belongs(k, row, w)
    /\ \A p \in Parents(k, row) : Exists(Visible(r)[p]) => RowHome(p, Visible(r)[p]) = w

LEMMA FittingIsLawful ==
    ASSUME IInv, NEW r \in Request, NEW rows, Executes(r, rows), NEW w \in Workspace,
           \A k \in DOMAIN rows : Fitting(r, k, rows[k], w)
    PROVE  KeepsRows(r, rows, w)
<1>1. ASSUME NEW k \in DOMAIN rows
      PROVE  Lawful(r, k, rows[k], w)
  <2>1. Fitting(r, k, rows[k], w)
    OBVIOUS
  <2>2. k \in Key /\ Exists(rows[k]) /\ rows[k] \in RowOf(k) /\ Belongs(k, rows[k], w)
    BY <2>1 DEF Fitting
  <2>3. k \in Entity => \/ draft[k] = Absent
                        \/ Exists(draft[k]) /\ RowHome(k, draft[k]) = w
    <3>1. Visible(r)[k] = draft[k]
      BY <2>2, ExecutesFreely, SeesFree
    <3>2. QED
      BY <2>1, <3>1 DEF Fitting
  <2>4. ASSUME NEW p \in Parents(k, rows[k])
        PROVE  /\ Exists(draft[p]) /\ RowHome(p, draft[p]) = w
               /\ Exists(db[p]) \/ holder[p] = r
    <3>1. p \in Key /\ p \in Entity
      BY <2>2, Levels
    <3>2. Exists(Visible(r)[p]) /\ RowHome(p, Visible(r)[p]) = w
      BY <2>1, <2>2, <3>1, ExecutesFreely DEF Fitting
    <3>3. draft[p] = Gone => Visible(r)[p] = draft[p]
      BY <2>2, <3>1, ExecutesFreely, SeesFree
    <3>4. CASE holder[p] = r
      BY <3>1, <3>2, <3>4, ReadsRow
    <3>5. CASE holder[p] # r
      <4>1. Visible(r)[p] = db[p]
        BY <3>1, <3>5, ReadsRow
      <4>2. Exists(draft[p])
        BY <3>1, <3>2, <3>3, <4>1, VersionsAre
      <4>3. QED
        BY <3>1, <3>2, <4>1, <4>2, VersionsAre
    <3>6. QED
      BY <3>4, <3>5
  <2>5. QED
    BY <2>2, <2>3, <2>4 DEF Lawful
<1>2. QED
  BY <1>1, ExecutesFreely DEF KeepsRows

\* The statements that insert and update.
LEMMA KeepingChanges ==
    ASSUME IInv, NEW r \in Request, NEW rows, Executes(r, rows),
           NEW w \in Workspace, w = Base(r)',
           \A k \in DOMAIN rows : Fitting(r, k, rows[k], w),
           Moves(r), Current(r) \notin {"commit", "idle"},
           (\A k \in DOMAIN rows : Knows(r, Owner(k), w)') => Finds(r)
    PROVE  Changes(r)
<1>1. KeepsRows(r, rows, w)
  BY FittingIsLawful
<1>2. /\ \A k, v : Knows(r, k, v) => Knows(r, k, v)'
      /\ \A k \in DOMAIN rows : Knows(r, Owner(k), w)'
  BY <1>1, KeepsTheRows
<1>3. history' = history
  BY DEF Executes, SameLog
<1>4. Goes(r) /\ req[r].op # "none"
  BY <1>2, <1>3, MovesOn
<1>5. QED
  BY <1>1, <1>4 DEF Changes

LEMMA DroppingChanges ==
    ASSUME IInv, NEW r \in Request, NEW rows, DropsRows(r, rows, Base(r)'),
           history' = history,
           Moves(r), Current(r) \notin {"commit", "idle"}, Finds(r)
    PROVE  Changes(r)
<1>1. \A k, v : Knows(r, k, v) => Knows(r, k, v)'
  BY DropsTheRows
<1>2. Goes(r) /\ req[r].op # "none"
  BY <1>1, MovesOn
<1>3. QED
  BY <1>2 DEF Changes

\* The statements that only read.
LEMMA ReadingPasses ==
    ASSUME IInv, NEW r \in Request, UNCHANGED tables, history' = history,
           Moves(r), Current(r) \notin {"commit", "idle"}, Finds(r)
    PROVE  Passes(r)
<1>1. \A k, v : Knows(r, k, v) => Knows(r, k, v)'
  BY DEF tables, Knows
<1>2. QED
  BY <1>1, MovesOn DEF Passes

-------------------------------------------------------------------------------
(* The start of a request.                                                   *)

LEMMA CommittedIsKnown ==
    ASSUME IInv, NEW r \in Request, NEW k \in Entity, Exists(db[k])
    PROVE  /\ Knows(r, k, RowHome(k, db[k]))
           /\ k \in Key /\ db[k] \in RowOf(k)
           /\ \A p \in Parents(k, db[k]) : Knows(r, p, RowHome(k, db[k]))
<1>1. k \in Key
  BY EntitiesHaveKeys
<1>2. Knows(r, k, RowHome(k, db[k])) /\ db[k] \in RowOf(k)
  BY <1>1, VersionsAre, TablesAre DEF Knows
<1>3. PICK w \in Workspace : Fits(db, k, w)
  BY <1>1, TablesAre
<1>4. w = RowHome(k, db[k])
  BY <1>3 DEF Fits, Belongs
<1>5. ASSUME NEW p \in Parents(k, db[k])
      PROVE  Knows(r, p, RowHome(k, db[k]))
  <2>1. p \in Key /\ p \in Entity /\ Exists(db[p]) /\ RowHome(p, db[p]) = w
    BY <1>1, <1>2, <1>3, Levels DEF Fits
  <2>2. QED
    BY <1>4, <2>1, VersionsAre DEF Knows
<1>6. QED
  BY <1>1, <1>2, <1>5

LEMMA StartPasses ==
    ASSUME IInv, NEW r \in Request, NEW op \in Op, NEW of, NEW with, NEW arg,
           Start(r, op, of, with, arg), op # "none",
           op # "createWorkspace" => of \in Entity /\ Exists(db[of]),
           op \in OfWorkspace => of \in Workspace,
           op \in OfItem => of \in ItemId,
           op \in OfPayment => of \in PaymentId,
           op \in OfTag => of \in TagId,
           op \in {"assignTag", "unassignTag", "mergeItems"} =>
                /\ with \in IF op = "mergeItems" THEN ItemId ELSE TagId
                /\ Exists(db[with]) /\ db[of].workspace = db[with].workspace,
           op = "createPayment" => with \in Member /\ MemberOf[with] = db[of].workspace,
           op = "updatePayment" => with \in Member,
           op \in {"createWorkspace", "updateWorkspace", "createItem", "updateItem",
                   "createTag", "updateTag"} => arg \in Title,
           op \in {"updateWorkspaceStakeRule", "setItemStakeRule"} => arg \in Rule,
           op \in {"createPayment", "updatePayment"} => arg \in Title \cup {Null},
           op = "extractAsItem" => arg.payments \in Seq(PaymentId) /\ arg.title \in Title,
           op = "setItemStakes" => arg \in Seq([member : Member, value : Int])
    PROVE  Passes(r)
<1> DEFINE q == [Idle EXCEPT !.op = op, !.of = of, !.with = with,
                    !.arg = arg, !.seen = [k \in {of, with} \cap Key |-> db[k]]]
           w == RowHome(of, db[of])
<1>1. req[r].op = "none" /\ req' = [req EXCEPT ![r] = q] /\ UNCHANGED tables /\ history' = history
  BY DEF Start, tables
<1>2. req'[r] = q /\ DOMAIN req' = Request /\ OthersWait(r)
  BY <1>1, Statement DEF OthersWait
<1>3. /\ DOMAIN q = DOMAIN Idle
      /\ q.op = op /\ q.pc = 1 /\ q.of = of /\ q.with = with /\ q.arg = arg
      /\ q.seen = [k \in {of, with} \cap Key |-> db[k]]
  BY DEF Idle
<1>4. /\ 1 \in 1..Len(Script[op])
      /\ Current(r)' = Script[op][1] /\ Script[op][1] # "copyTags"
  BY <1>2, <1>3, FirstStatements DEF Current
<1>5. Placed(r)'
  BY <1>2, <1>3, <1>4 DEF Placed, At
<1>6. Arguments(r)'
  BY <1>2, <1>3 DEF Arguments
<1>7. ASSUME op # "createWorkspace"
      PROVE  /\ of \in Key /\ of \in Entity /\ Exists(db[of]) /\ q.seen[of] = db[of]
             /\ db[of] \in RowOf(of)
             /\ Knows(r, of, w)
             /\ \A p \in Parents(of, db[of]) : Knows(r, p, w)
  BY <1>3, <1>7, CommittedIsKnown
<1>8. op # "createWorkspace" => Base(r)' = w
  <2>1. CASE op \in OfWorkspace
    BY <1>2, <1>3, <2>1 DEF Base, RowHome, OfWorkspace
  <2>2. CASE op \in OfPayment
    <3>1. of \in PaymentId /\ of \notin Workspace
      BY <1>7, <2>2, KeysOfTables DEF OfPayment
    <3>2. QED
      BY <1>2, <1>3, <1>7, <2>2, <3>1 DEF Base, RowHome, OfPayment
  <2>3. CASE op \in OfItem \cup OfTag
    <3>1. of \notin Workspace \cup PaymentId
      BY <1>7, <2>3, KeysOfTables DEF OfItem, OfTag
    <3>2. QED
      BY <1>2, <1>3, <1>7, <2>3, <3>1 DEF Base, RowHome, OfItem, OfTag
  <2>4. QED
    BY <2>1, <2>2, <2>3, OpsAre
<1>9. \A k, v : Knows(r, k, v) => Knows(r, k, v)'
  BY <1>1 DEF tables, Knows
<1>10. op # "createWorkspace" => Knows(r, of, Base(r))'
  BY <1>7, <1>8, <1>9
<1>11. op \in OfPayment => db[of] \in PaymentRow /\ Knows(r, db[of].item, Base(r))'
  <2>1. HAVE op \in OfPayment
  <2>2. op # "createWorkspace"
    BY <2>1 DEF OfPayment
  <2>3. db[of] \in PaymentRow /\ db[of].item \in Parents(of, db[of])
    BY <1>7, <2>1, <2>2, KeysOfTables, ParentsAre DEF RowOf
  <2>4. PICK item : item = db[of].item
    OBVIOUS
  <2>5. Knows(r, item, Base(r))'
    BY <1>7, <1>8, <1>9, <2>2, <2>3, <2>4
  <2>6. QED
    BY <1>1, <2>3, <2>4, <2>5 DEF tables
<1>12. /\ op \in OfItem => db[of] \in ItemRow
       /\ op \in OfTag => db[of] \in TagRow
       /\ op = "createItem" => db[of] \in WorkspaceRow
  BY <1>7, KeysOfTables DEF RowOf, OfItem, OfTag, OfWorkspace
<1>13. op \in {"assignTag", "unassignTag", "mergeItems"} =>
        /\ q.seen[with] = db[with] /\ Knows(r, with, Base(r))'
        /\ op = "mergeItems" => db[with] \in ItemRow
  <2>1. HAVE op \in {"assignTag", "unassignTag", "mergeItems"}
  <2>2. with \in ItemId \cup TagId /\ with \in Entity /\ of \in ItemId
    BY <2>1 DEF Entity, OfItem
  <2>3. with \in Key /\ Knows(r, with, RowHome(with, db[with])) /\ db[with] \in RowOf(with)
    BY <2>1, <2>2, CommittedIsKnown
  <2>4. RowHome(with, db[with]) = w
    BY <1>7, <2>1, <2>2, <2>3, KeysOfTables DEF RowHome
  <2>5. op = "mergeItems" => db[with] \in ItemRow
    BY <2>1, <2>3, KeysOfTables DEF RowOf
  <2>6. QED
    BY <1>3, <1>8, <1>9, <2>1, <2>3, <2>4, <2>5
<1>14. op = "createPayment" => MemberOf[with] = Base(r)'
  <2>1. HAVE op = "createPayment"
  <2>2. of \in ItemId
    BY <2>1 DEF OfItem
  <2>3. w = db[of].workspace
    BY <1>7, <2>1, <2>2, KeysOfTables DEF RowHome
  <2>4. QED
    BY <1>8, <2>1, <2>3
<1>15. Known(r)'
  BY <1>1, <1>2, <1>3, <1>6, <1>7, <1>10, <1>11, <1>12, <1>13, <1>14
     DEF Known, tables, OfPayment, OfItem, OfTag, OfWorkspace
<1>16. QED
  BY <1>1, <1>2, <1>3, <1>5, <1>15 DEF Passes, Goes

LEMMA BeginPasses ==
    ASSUME IInv, NEW r \in Request, Begin(r)
    PROVE  Passes(r)
<1> USE DEF OfWorkspace, OfItem, OfPayment, OfTag
<1>1. /\ There(Workspace) \subseteq Workspace /\ There(ItemId) \subseteq ItemId
      /\ There(PaymentId) \subseteq PaymentId /\ There(TagId) \subseteq TagId
      /\ \A K : \A k \in There(K) : Exists(db[k])
      /\ Workspace \subseteq Entity /\ ItemId \subseteq Entity
      /\ PaymentId \subseteq Entity /\ TagId \subseteq Entity
  BY DEF There, Entity
<1>2. /\ Sent \subseteq Title /\ SentForPayment \subseteq Title \cup {Null}
      /\ \A list \in PaymentLists : list \in Seq(PaymentId)
      /\ \A list \in StakeLists : list \in Seq([member : Member, value : Int])
  BY ClientsSendValues
<1>3. CASE createWorkspace(r)
  BY <1>2, <1>3, StartPasses, OpsAre DEF createWorkspace
<1>4. CASE updateWorkspace(r)
  BY <1>1, <1>2, <1>4, StartPasses, OpsAre DEF updateWorkspace
<1>5. CASE updateWorkspaceStakeRule(r)
  BY <1>1, <1>5, StartPasses, OpsAre DEF updateWorkspaceStakeRule
<1>6. CASE deleteWorkspace(r)
  BY <1>1, <1>6, StartPasses, OpsAre DEF deleteWorkspace
<1>7. CASE createItem(r)
  BY <1>1, <1>2, <1>7, StartPasses, OpsAre DEF createItem
<1>8. CASE updateItem(r)
  BY <1>1, <1>2, <1>8, StartPasses, OpsAre DEF updateItem
<1>9. CASE deleteItem(r)
  BY <1>1, <1>9, StartPasses, OpsAre DEF deleteItem
<1>10. CASE createPayment(r)
  BY <1>1, <1>2, <1>10, StartPasses, OpsAre DEF createPayment
<1>11. CASE updatePayment(r)
  BY <1>1, <1>2, <1>11, StartPasses, OpsAre DEF updatePayment
<1>12. CASE deletePayment(r)
  BY <1>1, <1>12, StartPasses, OpsAre DEF deletePayment
<1>13. CASE createTag(r)
  BY <1>1, <1>2, <1>13, StartPasses, OpsAre DEF createTag
<1>14. CASE updateTag(r)
  BY <1>1, <1>2, <1>14, StartPasses, OpsAre DEF updateTag
<1>15. CASE deleteTag(r)
  BY <1>1, <1>15, StartPasses, OpsAre DEF deleteTag
<1>16. CASE assignTag(r)
  BY <1>1, <1>16, StartPasses, OpsAre DEF assignTag, TwoOfOneWorkspace
<1>17. CASE unassignTag(r)
  BY <1>1, <1>17, StartPasses, OpsAre DEF unassignTag, TwoOfOneWorkspace
<1>18. CASE mergeItems(r)
  BY <1>1, <1>18, StartPasses, OpsAre DEF mergeItems, TwoOfOneWorkspace
<1>19. CASE extractAsItem(r)
  <2>1. PICK i \in There(ItemId), list \in PaymentLists, x \in Sent :
          Start(r, "extractAsItem", i, Null, [payments |-> list, title |-> x])
    BY <1>19 DEF extractAsItem
  <2>2. QED
    BY <1>1, <1>2, <2>1, StartPasses, OpsAre
<1>20. CASE setItemStakes(r)
  BY <1>1, <1>2, <1>20, StartPasses, OpsAre DEF setItemStakes
<1>21. CASE setItemStakeRule(r)
  BY <1>1, <1>21, StartPasses, OpsAre DEF setItemStakeRule
<1>22. QED
  BY <1>3, <1>4, <1>5, <1>6, <1>7, <1>8, <1>9, <1>10, <1>11, <1>12, <1>13, <1>14, <1>15, <1>16,
     <1>17, <1>18, <1>19, <1>20, <1>21 DEF Begin

-------------------------------------------------------------------------------
(* The statements that only look.                                            *)

LEMMA ReadingGoesOn ==
    ASSUME IInv, NEW r \in Request, NEW what, Reads(r, what),
           Current(r) \notin {"commit", "idle"},
           req'[r].got = what /\ req'[r].made = req[r].made => Finds(r)
    PROVE  Passes(r)
BY ReadMoves, ReadingPasses

LEMMA HomesAre ==
    ASSUME NEW k, NEW row
    PROVE  /\ k \in Workspace => RowHome(k, row) = k
           /\ k \in ItemId \cup TagId => RowHome(k, row) = row.workspace
           /\ k \in PaymentId => RowHome(k, row) = MemberOf[row.payer]
<1>1. CASE k \in Entity
  BY <1>1, EntitiesHaveKeys, KeysOfTables DEF RowHome, Entity
<1>2. CASE k \notin Entity
  BY <1>2 DEF RowHome, Entity
<1>3. QED
  BY <1>1, <1>2

\* The payments, tags and stakes of an item that r sees.
LEMMA SeesOfItem ==
    ASSUME IInv, NEW r \in Request, NEW i \in ItemId, NEW w, Knows(r, i, w)
    PROVE  /\ \A p \in PaymentsOf(Visible(r), i) :
                /\ p \in PaymentId /\ p \in Key /\ Exists(Visible(r)[p])
                /\ Visible(r)[p] \in PaymentRow /\ Visible(r)[p].item = i
                /\ Knows(r, p, w) /\ MemberOf[Visible(r)[p].payer] = w
           /\ \A x \in TagsOf(Visible(r), i) :
                x \in TagId /\ Exists(Visible(r)[<<i, x>>]) /\ Knows(r, x, w)
           /\ \A m \in StakesOf(Visible(r), i) :
                m \in Member /\ Exists(Visible(r)[<<i, m>>])
<1>1. ASSUME NEW p \in PaymentsOf(Visible(r), i)
      PROVE  /\ p \in PaymentId /\ p \in Key /\ Exists(Visible(r)[p])
             /\ Visible(r)[p] \in PaymentRow /\ Visible(r)[p].item = i
             /\ Knows(r, p, w) /\ MemberOf[Visible(r)[p].payer] = w
  <2>1. p \in PaymentId /\ Exists(Visible(r)[p]) /\ Visible(r)[p].item = i
    BY DEF PaymentsOf
  <2>2. p \in Key /\ p \in Entity
    BY <2>1, EntitiesHaveKeys DEF Entity
  <2>3. Visible(r)[p] \in RowOf(p)
    BY <2>1, <2>2, SeesTyped
  <2>4. i \in Parents(p, Visible(r)[p]) /\ Visible(r)[p] \in PaymentRow
    BY <2>1, <2>2, <2>3, ParentsAre, KeysOfTables DEF RowOf
  <2>5. Knows(r, Owner(p), w) /\ Belongs(p, Visible(r)[p], w)
    BY <2>1, <2>2, <2>4, KnowsKin
  <2>6. QED
    BY <2>1, <2>2, <2>4, <2>5, KeysOfTables, HomesAre DEF Owner, Belongs
<1>2. ASSUME NEW x \in TagsOf(Visible(r), i)
      PROVE  x \in TagId /\ Exists(Visible(r)[<<i, x>>]) /\ Knows(r, x, w)
  <2>1. x \in TagId /\ Exists(Visible(r)[<<i, x>>])
    BY DEF TagsOf
  <2>2. /\ <<i, x>> \in Key /\ <<i, x>> \in ItemId \X TagId
        /\ <<i, x>>[1] = i /\ <<i, x>>[2] = x
    BY <2>1, PairsOf
  <2>3. Visible(r)[<<i, x>>] \in RowOf(<<i, x>>)
    BY <2>1, <2>2, SeesTyped
  <2>4. Parents(<<i, x>>, Visible(r)[<<i, x>>]) = {i, x}
    BY <2>2, <2>3, ParentsAre
  <2>5. Knows(r, x, w)
    BY <2>1, <2>2, <2>4, KnowsKin
  <2>6. QED
    BY <2>1, <2>5
<1>3. ASSUME NEW m \in StakesOf(Visible(r), i)
      PROVE  m \in Member /\ Exists(Visible(r)[<<i, m>>])
  BY DEF StakesOf
<1>4. QED
  BY <1>1, <1>2, <1>3

LEMMA ItemThenIsKnown ==
    ASSUME IInv, NEW r \in Request, req[r].op \in OfPayment, Exists(ItemThen(r))
    PROVE  ItemThen(r).workspace = Base(r)
<1> DEFINE i == req[r].seen[req[r].of].item
<1>1. req[r].seen[req[r].of] \in PaymentRow /\ Knows(r, i, Base(r))
  BY Statement DEF Known
<1>2. i \in ItemId
  BY <1>1 DEF PaymentRow
<1>3. RowHome(i, Visible(r)[i]) = Base(r)
  BY <1>1, <1>2, SeeingIsKnowing DEF ItemThen, Entity
<1>4. QED
  BY <1>2, <1>3, HomesAre DEF ItemThen

LEMMA LookingPasses ==
    ASSUME IInv, NEW r \in Request,
           \/ findItem(r) \/ checkPayer(r) \/ readTag(r) \/ checkNotAssigned(r) \/ checkAssigned(r)
           \/ readHost(r) \/ validatePayments(r) \/ readTags(r) \/ validateStakes(r)
           \/ readStakes(r)
    PROVE  Passes(r) \/ Throw(r)
<1> USE DEF OfWorkspace, OfItem, OfPayment, OfTag
<1>1. CASE findItem(r)
  <2>1. /\ At(r, "findItem")
        /\ Throw(r) \/ (Exists(ItemThen(r)) /\ Reads(r, ItemThen(r).workspace))
    BY <1>1 DEF findItem, Read, Reads
  <2>2. /\ Current(r) = "findItem" /\ req[r].op = "deletePayment" /\ req[r].pc = 1
    BY <2>1, Statement, StatementsAre DEF At
  <2>3. Exists(ItemThen(r)) => ItemThen(r).workspace = Base(r)
    BY <2>2, ItemThenIsKnown
  <2>4. Exists(ItemThen(r)) /\ req'[r].got = ItemThen(r).workspace => Finds(r)
    BY <2>2, <2>3 DEF Finds, At
  <2>5. QED
    BY <2>1, <2>2, <2>4, ReadingGoesOn
<1>2. CASE checkPayer(r)
  <2>1. /\ At(r, "checkPayer")
        /\ \/ Throw(r)
           \/ /\ Exists(ItemThen(r)) /\ MemberOf[req[r].with] = ItemThen(r).workspace
              /\ Reads(r, ItemThen(r).workspace)
    BY <1>2 DEF checkPayer, Read, Reads
  <2>2. /\ Current(r) = "checkPayer" /\ req[r].op = "updatePayment" /\ req[r].pc = 1
    BY <2>1, Statement, StatementsAre DEF At
  <2>3. Exists(ItemThen(r)) => ItemThen(r).workspace = Base(r)
    BY <2>2, ItemThenIsKnown
  <2>4. /\ Exists(ItemThen(r)) /\ MemberOf[req[r].with] = ItemThen(r).workspace
        /\ req'[r].got = ItemThen(r).workspace
        => Finds(r)
    BY <2>2, <2>3 DEF Finds, At
  <2>5. QED
    BY <2>1, <2>2, <2>4, ReadingGoesOn
<1>3. CASE readTag(r)
  <2>1. /\ At(r, "readTag")
        /\ Throw(r) \/ Reads(r, Visible(r)[req[r].of])
    BY <1>3 DEF readTag, Read, Reads
  <2>2. /\ Current(r) = "readTag" /\ req[r].op \in {"updateTag", "deleteTag"}
    BY <2>1, Statement, StatementsAre DEF At
  <2>3. Finds(r)
    BY <2>2 DEF Finds, At
  <2>4. QED
    BY <2>1, <2>2, <2>3, ReadingGoesOn
<1>4. CASE checkNotAssigned(r)
  <2>1. At(r, "checkNotAssigned") /\ (Throw(r) \/ Reads(r, Null))
    BY <1>4 DEF checkNotAssigned, Read, Reads
  <2>2. Current(r) = "checkNotAssigned" /\ req[r].op = "assignTag"
    BY <2>1, Statement, StatementsAre DEF At
  <2>3. Finds(r)
    BY <2>2 DEF Finds, At
  <2>4. QED
    BY <2>1, <2>2, <2>3, ReadingGoesOn
<1>5. CASE checkAssigned(r)
  <2>1. At(r, "checkAssigned") /\ (Throw(r) \/ Reads(r, Null))
    BY <1>5 DEF checkAssigned, Read, Reads
  <2>2. Current(r) = "checkAssigned" /\ req[r].op = "unassignTag"
    BY <2>1, Statement, StatementsAre DEF At
  <2>3. Finds(r)
    BY <2>2 DEF Finds, At
  <2>4. QED
    BY <2>1, <2>2, <2>3, ReadingGoesOn
<1>6. CASE readHost(r)
  <2>1. At(r, "readHost") /\ \E what : Throw(r) \/ Reads(r, what)
    BY <1>6 DEF readHost, Read, Reads
  <2>2. Current(r) = "readHost" /\ req[r].op = "mergeItems"
    BY <2>1, Statement, StatementsAre DEF At
  <2>3. Finds(r)
    BY <2>2 DEF Finds, At
  <2>4. QED
    BY <2>1, <2>2, <2>3, ReadingGoesOn
<1>7. CASE validatePayments(r)
  <2>1. /\ At(r, "validatePayments")
        /\ \/ Throw(r)
           \/ /\ Range(req[r].arg.payments) \subseteq PaymentsOf(Visible(r), req[r].of)
              /\ Reads(r, Null)
    BY <1>7 DEF validatePayments, Read, Reads
  <2>2. Current(r) = "validatePayments" /\ req[r].op = "extractAsItem" /\ req[r].pc = 1
    BY <2>1, Statement, StatementsAre DEF At
  <2>3. req[r].of \in ItemId /\ Knows(r, req[r].of, Base(r))
    BY <2>2, Statement DEF Known
  <2>4. Range(req[r].arg.payments) \subseteq PaymentsOf(Visible(r), req[r].of) => Finds(r)
    BY <2>2, <2>3, SeesOfItem DEF Finds, At
  <2>5. QED
    BY <2>1, <2>2, <2>4, ReadingGoesOn
<1>8. CASE readTags(r)
  <2>1. /\ At(r, "readTags")
        /\ Throw(r) \/ Reads(r, TagsOf(Visible(r), req[r].of))
    BY <1>8 DEF readTags, Read, Reads
  <2>2. Current(r) = "readTags" /\ req[r].op = "extractAsItem" /\ req[r].pc = 4
    BY <2>1, Statement, StatementsAre DEF At
  <2>3. req[r].of \in ItemId /\ Knows(r, req[r].of, Base(r))
    BY <2>2, Statement DEF Known
  <2>4. \A x \in TagsOf(Visible(r), req[r].of) : x \in TagId /\ Knows(r, x, Base(r))
    BY <2>3, SeesOfItem
  <2>5. req'[r].got = TagsOf(Visible(r), req[r].of) /\ req'[r].made = req[r].made => Finds(r)
    BY <2>2, <2>4 DEF Finds
  <2>6. QED
    BY <2>1, <2>2, <2>5, ReadingGoesOn
<1>9. CASE validateStakes(r)
  <2>1. /\ At(r, "validateStakes")
        /\ \/ Throw(r)
           \/ ValidStakes(req[r].seen[req[r].of], req[r].arg) /\ Reads(r, Null)
    BY <1>9 DEF validateStakes, Read, Reads
  <2>2. Current(r) = "validateStakes" /\ req[r].op = "setItemStakes" /\ req[r].pc = 1
    BY <2>1, Statement, StatementsAre DEF At
  <2>3. Base(r) = req[r].seen[req[r].of].workspace
    BY <2>2, BasesAre
  <2>4. ASSUME ValidStakes(req[r].seen[req[r].of], req[r].arg), NEW n \in DOMAIN req[r].arg
        PROVE  MemberOf[req[r].arg[n].member] = Base(r) /\ req[r].arg[n].value >= 0
    <3> DEFINE members == [m \in DOMAIN req[r].arg |-> req[r].arg[m].member]
    <3>1. /\ Range(members) = {m \in Active : MemberOf[m] = req[r].seen[req[r].of].workspace}
          /\ req[r].arg[n].value >= 0
      BY <2>4 DEF ValidStakes
    <3>2. members[n] \in Range(members) /\ members[n] = req[r].arg[n].member
      BY DEF Range
    <3>3. QED
      BY <2>3, <3>1, <3>2
  <2>5. ValidStakes(req[r].seen[req[r].of], req[r].arg) => Finds(r)
    BY <2>2, <2>4 DEF Finds, At
  <2>6. QED
    BY <2>1, <2>2, <2>5, ReadingGoesOn
<1>10. CASE readStakes(r)
  <2>1. /\ At(r, "readStakes")
        /\ Throw(r) \/ Reads(r, StakeValues(Visible(r), req[r].of))
    BY <1>10 DEF readStakes, Read, Reads
  <2>2. /\ Current(r) = "readStakes" /\ req[r].op \in {"setItemStakes", "setItemStakeRule"}
        /\ req[r].op = "setItemStakes" => req[r].pc = 2
    BY <2>1, Statement, StatementsAre DEF At
  <2>3. Finds(r)
    BY <2>2 DEF Finds, At
  <2>4. QED
    BY <2>1, <2>2, <2>3, ReadingGoesOn
<1>11. QED
  BY <1>1, <1>2, <1>3, <1>4, <1>5, <1>6, <1>7, <1>8, <1>9, <1>10

-------------------------------------------------------------------------------
(* The statements that update rows.                                          *)

LEMMA RowsExist ==
    ASSUME NEW k \in Key, NEW row \in RowOf(k)
    PROVE  Exists(row)
BY MissingRowsAreNoRows DEF RowOf, Exists

LEMMA MovingKeepsBase ==
    ASSUME NEW r \in Request, Moves(r), req[r].op # "createWorkspace"
    PROVE  Base(r)' = Base(r)
BY DEF Moves, Base

\* A new version of an entity that refers to no other rows than the one r sees.
LEMMA UpdateFits ==
    ASSUME IInv, NEW r \in Request, NEW k \in Entity, NEW w, Knows(r, k, w),
           Exists(Visible(r)[k]), NEW row \in RowOf(k),
           RowHome(k, row) = RowHome(k, Visible(r)[k]),
           Parents(k, row) = Parents(k, Visible(r)[k])
    PROVE  Fitting(r, k, row, w)
<1>1. k \in Key /\ k \notin Pair
  BY EntitiesHaveKeys, KeysOfTables
<1>2. RowHome(k, Visible(r)[k]) = w
  BY SeeingIsKnowing
<1>3. PICK v \in Workspace : Fits(Visible(r), k, v)
  BY <1>1, SeesOneWorkspace
<1>4. v = w
  BY <1>2, <1>3 DEF Fits, Belongs
<1>5. Belongs(k, row, w)
  BY <1>1, <1>2 DEF Belongs, Pair
<1>6. QED
  BY <1>1, <1>2, <1>3, <1>4, <1>5, RowsExist DEF Fitting, Fits

LEMMA UpdatingChanges ==
    ASSUME IInv, NEW r \in Request, NEW rows, Executes(r, rows), Advance(r),
           Current(r) \notin {"commit", "idle", "insertWorkspace"},
           \A k \in DOMAIN rows :
                /\ k \in Entity /\ Exists(Visible(r)[k]) /\ Knows(r, k, Base(r))
                /\ rows[k] \in RowOf(k)
                /\ RowHome(k, rows[k]) = RowHome(k, Visible(r)[k])
                /\ Parents(k, rows[k]) = Parents(k, Visible(r)[k]),
           req'[r].got = req[r].got /\ req'[r].made = req[r].made => Finds(r)
    PROVE  Changes(r)
<1>1. Moves(r) /\ Finds(r)
  BY AdvanceMoves
<1>2. req[r].op \notin {"none", "createWorkspace"}
  BY Statement, StatementsAre
<1>3. Base(r) \in Workspace /\ Base(r)' = Base(r)
  BY <1>1, <1>2, BasesAre, MovingKeepsBase
<1>4. \A k \in DOMAIN rows : Fitting(r, k, rows[k], Base(r))
  BY UpdateFits
<1>5. QED
  BY <1>1, <1>3, <1>4, KeepingChanges

LEMMA SetColumnRow ==
    ASSUME NEW k \in Key, k \in Workspace \cup ItemId \cup TagId, NEW row \in RowOf(k),
           NEW column, NEW v,
           \/ column = "title" /\ v \in Title
           \/ column = "stakeRule" /\ v \in Rule /\ k \notin TagId
           \/ column = "stakeRule" /\ v = Null /\ k \in ItemId
    PROVE  /\ [row EXCEPT ![column] = v] \in RowOf(k)
           /\ RowHome(k, [row EXCEPT ![column] = v]) = RowHome(k, row)
           /\ Parents(k, [row EXCEPT ![column] = v]) = Parents(k, row)
<1> DEFINE new == [row EXCEPT ![column] = v]
<1>1. CASE k \in Workspace
  <2>1. row \in WorkspaceRow /\ RowOf(k) = WorkspaceRow
    BY <1>1 DEF RowOf
  <2>2. new \in WorkspaceRow
    BY <1>1, <2>1, KeysOfTables DEF WorkspaceRow
  <2>3. RowHome(k, new) = RowHome(k, row)
    BY <1>1, HomesAre
  <2>4. Parents(k, new) = {} /\ Parents(k, row) = {}
    BY <1>1, <2>1, <2>2, ParentsAre
  <2>5. QED
    BY <2>1, <2>2, <2>3, <2>4
<1>2. CASE k \in ItemId
  <2>1. row \in ItemRow /\ RowOf(k) = ItemRow
    BY <1>2, KeysOfTables DEF RowOf
  <2>2. new \in ItemRow /\ new.workspace = row.workspace
    BY <1>2, <2>1 DEF ItemRow
  <2>3. RowHome(k, new) = new.workspace /\ RowHome(k, row) = row.workspace
    BY <1>2, KeysOfTables DEF RowHome
  <2>4. Parents(k, new) = {new.workspace} /\ Parents(k, row) = {row.workspace}
    BY <1>2, <2>1, <2>2, ParentsAre
  <2>5. QED
    BY <2>1, <2>2, <2>3, <2>4
<1>3. CASE k \in TagId
  <2>1. row \in TagRow /\ RowOf(k) = TagRow
    BY <1>3, KeysOfTables DEF RowOf
  <2>2. new \in TagRow /\ new.workspace = row.workspace
    BY <1>3, <2>1, KeysOfTables DEF TagRow
  <2>3. RowHome(k, new) = new.workspace /\ RowHome(k, row) = row.workspace
    BY <1>3, KeysOfTables DEF RowHome
  <2>4. Parents(k, new) = {new.workspace} /\ Parents(k, row) = {row.workspace}
    BY <1>3, <2>1, <2>2, ParentsAre
  <2>5. QED
    BY <2>1, <2>2, <2>3, <2>4
<1>4. QED
  BY <1>1, <1>2, <1>3

LEMMA SetColumnChanges ==
    ASSUME IInv, NEW r \in Request, NEW statement, NEW column,
           SetColumn(r, statement, column),
           statement \notin {"commit", "idle", "insertWorkspace"},
           req[r].of \in Workspace \cup ItemId \cup TagId,
           Knows(r, req[r].of, Base(r)),
           \/ column = "title" /\ req[r].arg \in Title
           \/ column = "stakeRule" /\ req[r].arg \in Rule /\ req[r].of \notin TagId,
           req'[r].got = req[r].got /\ req'[r].made = req[r].made => Finds(r)
    PROVE  Changes(r) \/ Throw(r)
<1> DEFINE k == req[r].of
           rows == [x \in Found(r, {k}) |-> [Visible(r)[x] EXCEPT ![column] = req[r].arg]]
<1>1. At(r, statement) /\ (Throw(r) \/ (Executes(r, rows) /\ Advance(r)))
  BY DEF SetColumn, Execute, Executes
<1>2. Current(r) \notin {"commit", "idle", "insertWorkspace"}
  BY <1>1 DEF At
<1>3. k \in Entity /\ k \in Key
  BY EntitiesHaveKeys DEF Entity
<1>4. \A x \in DOMAIN rows : x = k /\ Exists(Visible(r)[x])
  BY DEF Found
<1>5. ASSUME NEW x \in DOMAIN rows
      PROVE  /\ rows[x] \in RowOf(x)
             /\ RowHome(x, rows[x]) = RowHome(x, Visible(r)[x])
             /\ Parents(x, rows[x]) = Parents(x, Visible(r)[x])
  <2>1. x = k /\ Visible(r)[x] \in RowOf(x)
    BY <1>3, <1>4, SeesTyped
  <2>2. rows[x] = [Visible(r)[x] EXCEPT ![column] = req[r].arg]
    OBVIOUS
  <2>3. \/ column = "title" /\ req[r].arg \in Title
        \/ column = "stakeRule" /\ req[r].arg \in Rule /\ x \notin TagId
    BY <2>1
  <2>4. x \in Key /\ x \in Workspace \cup ItemId \cup TagId
    BY <1>3, <2>1
  <2>5. PICK row \in RowOf(x) : row = Visible(r)[x]
    BY <2>1
  <2>6. /\ [row EXCEPT ![column] = req[r].arg] \in RowOf(x)
        /\ RowHome(x, [row EXCEPT ![column] = req[r].arg]) = RowHome(x, row)
        /\ Parents(x, [row EXCEPT ![column] = req[r].arg]) = Parents(x, row)
    BY <2>3, <2>4, SetColumnRow
  <2>7. QED
    BY <2>2, <2>5, <2>6
<1>6. QED
  BY <1>1, <1>2, <1>3, <1>4, <1>5, UpdatingChanges

LEMMA SettingChanges ==
    ASSUME IInv, NEW r \in Request,
           \/ setWorkspace(r) \/ setWorkspaceRule(r) \/ setItem(r) \/ setTag(r) \/ setRule(r)
    PROVE  Changes(r) \/ Throw(r)
<1> USE DEF OfWorkspace, OfItem, OfPayment, OfTag
<1>1. CASE setWorkspace(r)
  <2>1. SetColumn(r, "setWorkspace", "title") /\ Current(r) = "setWorkspace"
    BY <1>1 DEF setWorkspace, SetColumn, Execute, At
  <2>2. req[r].op = "updateWorkspace"
    BY <2>1, Statement, StatementsAre
  <2>3. req[r].of \in Workspace /\ Knows(r, req[r].of, Base(r)) /\ req[r].arg \in Title
    BY <2>2, Statement DEF Known, Arguments
  <2>4. Finds(r)
    BY <2>1, <2>2 DEF Finds, At
  <2>5. QED
    BY <2>1, <2>3, <2>4, SetColumnChanges
<1>2. CASE setWorkspaceRule(r)
  <2>1. SetColumn(r, "setWorkspaceRule", "stakeRule") /\ Current(r) = "setWorkspaceRule"
    BY <1>2 DEF setWorkspaceRule, SetColumn, Execute, At
  <2>2. req[r].op = "updateWorkspaceStakeRule"
    BY <2>1, Statement, StatementsAre
  <2>3. req[r].of \in Workspace /\ Knows(r, req[r].of, Base(r)) /\ req[r].arg \in Rule
    BY <2>2, Statement DEF Known, Arguments
  <2>4. Finds(r)
    BY <2>1, <2>2 DEF Finds, At
  <2>5. QED
    BY <2>1, <2>3, <2>4, SetColumnChanges, EntitiesHaveKeys, KeysOfTables DEF Entity
<1>3. CASE setItem(r)
  <2>1. SetColumn(r, "setItem", "title") /\ Current(r) = "setItem"
    BY <1>3 DEF setItem, SetColumn, Execute, At
  <2>2. req[r].op = "updateItem"
    BY <2>1, Statement, StatementsAre
  <2>3. req[r].of \in ItemId /\ Knows(r, req[r].of, Base(r)) /\ req[r].arg \in Title
    BY <2>2, Statement DEF Known, Arguments
  <2>4. Finds(r)
    BY <2>1, <2>2 DEF Finds, At
  <2>5. QED
    BY <2>1, <2>3, <2>4, SetColumnChanges
<1>4. CASE setTag(r)
  <2>1. SetColumn(r, "setTag", "title") /\ Current(r) = "setTag"
    BY <1>4 DEF setTag, SetColumn, Execute, At
  <2>2. req[r].op = "updateTag"
    BY <2>1, Statement, StatementsAre
  <2>3. req[r].of \in TagId /\ Knows(r, req[r].of, Base(r)) /\ req[r].arg \in Title
    BY <2>2, Statement DEF Known, Arguments
  <2>4. Finds(r)
    BY <2>1, <2>2 DEF Finds, At
  <2>5. QED
    BY <2>1, <2>3, <2>4, SetColumnChanges
<1>5. CASE setRule(r)
  <2>1. SetColumn(r, "setRule", "stakeRule") /\ Current(r) = "setRule"
    BY <1>5 DEF setRule, SetColumn, Execute, At
  <2>2. req[r].op = "setItemStakeRule"
    BY <2>1, Statement, StatementsAre
  <2>3. req[r].of \in ItemId /\ Knows(r, req[r].of, Base(r)) /\ req[r].arg \in Rule
    BY <2>2, Statement DEF Known, Arguments
  <2>4. Finds(r)
    BY <2>1, <2>2 DEF Finds, At
  <2>5. QED
    BY <2>1, <2>3, <2>4, SetColumnChanges, EntitiesHaveKeys, KeysOfTables DEF Entity
<1>6. QED
  BY <1>1, <1>2, <1>3, <1>4, <1>5

LEMMA PaymentRowAgain ==
    ASSUME NEW p \in PaymentId, NEW row \in PaymentRow, NEW new \in PaymentRow,
           MemberOf[new.payer] = MemberOf[row.payer], new.item = row.item
    PROVE  /\ new \in RowOf(p)
           /\ RowHome(p, new) = RowHome(p, row)
           /\ Parents(p, new) = Parents(p, row)
<1>1. p \in Key /\ RowOf(p) = PaymentRow
  BY EntitiesHaveKeys, KeysOfTables DEF RowOf, Entity
<1>2. RowHome(p, new) = MemberOf[new.payer] /\ RowHome(p, row) = MemberOf[row.payer]
  BY <1>1, KeysOfTables DEF RowHome
<1>3. Parents(p, new) = {new.item} /\ Parents(p, row) = {row.item}
  BY <1>1, ParentsAre
<1>4. QED
  BY <1>1, <1>2, <1>3

LEMMA setPaymentChanges ==
    ASSUME IInv, NEW r \in Request, setPayment(r)
    PROVE  Changes(r) \/ Throw(r)
<1> DEFINE k == req[r].of
           V == Visible(r)[k]
           rows == [p \in Found(r, {k}) |->
                        [Visible(r)[p] EXCEPT !.payer = req[r].with, !.title = req[r].arg]]
<1>1. At(r, "setPayment") /\ (Throw(r) \/ (Executes(r, rows) /\ Advance(r)))
  BY DEF setPayment, Execute, Executes
<1>2. Current(r) = "setPayment" /\ req[r].op = "updatePayment" /\ req[r].pc = 2
  <2>1. Current(r) = "setPayment"
    BY <1>1 DEF At
  <2>2. QED
    BY <2>1, Statement, StatementsAre
<1>3. /\ k \in PaymentId /\ Knows(r, k, Base(r)) /\ req[r].with \in Member
      /\ req[r].arg \in Title \cup {Null}
      /\ MemberOf[req[r].with] = Base(r)
  BY <1>2, Statement DEF Known, Placed, Arguments, OfPayment
<1>4. k \in Entity /\ k \in Key
  BY <1>3, EntitiesHaveKeys DEF Entity
<1>5. \A x \in DOMAIN rows : x = k /\ Exists(Visible(r)[x])
  BY DEF Found
<1>6. ASSUME NEW x \in DOMAIN rows
      PROVE  /\ rows[x] \in RowOf(x)
             /\ RowHome(x, rows[x]) = RowHome(x, Visible(r)[x])
             /\ Parents(x, rows[x]) = Parents(x, Visible(r)[x])
  <2>1. x = k /\ Exists(V)
    BY <1>5
  <2>2. V \in RowOf(k) /\ RowHome(k, V) = Base(r)
    BY <1>3, <1>4, <2>1, SeesTyped, SeeingIsKnowing
  <2>3. V \in PaymentRow /\ MemberOf[V.payer] = Base(r)
    BY <1>3, <1>4, <2>2, KeysOfTables DEF RowOf, RowHome
  <2>4. PICK row \in PaymentRow : row = V
    BY <2>3
  <2>5. PICK new : new = [row EXCEPT !.payer = req[r].with, !.title = req[r].arg]
    OBVIOUS
  <2>6. new \in PaymentRow /\ new.payer = req[r].with /\ new.item = row.item
    BY <1>3, <2>5 DEF PaymentRow
  <2>7. /\ new \in RowOf(k)
        /\ RowHome(k, new) = RowHome(k, row)
        /\ Parents(k, new) = Parents(k, row)
    BY <1>3, <2>3, <2>4, <2>6, PaymentRowAgain
  <2>8. rows[x] = new
    BY <2>1, <2>4, <2>5
  <2>9. QED
    BY <2>1, <2>4, <2>7, <2>8
<1>7. req'[r].got = req[r].got => Finds(r)
  BY <1>2 DEF Finds, At, OfPayment
<1>8. QED
  BY <1>1, <1>2, <1>3, <1>4, <1>5, <1>6, <1>7, UpdatingChanges

LEMMA titlePaymentsChanges ==
    ASSUME IInv, NEW r \in Request, titlePayments(r)
    PROVE  Changes(r) \/ Throw(r)
<1> DEFINE i == req[r].with
           title == req[r].seen[i].title
           rows == [p \in {p \in PaymentsOf(Visible(r), i) : Visible(r)[p].title = Null} |->
                        [Visible(r)[p] EXCEPT !.title = title]]
<1>1. At(r, "titlePayments") /\ (Throw(r) \/ (Executes(r, rows) /\ Advance(r)))
  BY DEF titlePayments, Execute, Executes
<1>2. Current(r) = "titlePayments" /\ req[r].op = "mergeItems"
  BY <1>1, Statement, StatementsAre DEF At
<1>3. i \in ItemId /\ Knows(r, i, Base(r)) /\ title \in Title
  BY <1>2, Statement DEF Known, ItemRow
<1>4. ASSUME NEW p \in DOMAIN rows
      PROVE  /\ p \in PaymentId /\ p \in Entity /\ Exists(Visible(r)[p]) /\ Knows(r, p, Base(r))
             /\ Visible(r)[p] \in PaymentRow
  BY <1>3, SeesOfItem DEF Entity
<1>5. ASSUME NEW p \in DOMAIN rows
      PROVE  /\ rows[p] \in RowOf(p)
             /\ RowHome(p, rows[p]) = RowHome(p, Visible(r)[p])
             /\ Parents(p, rows[p]) = Parents(p, Visible(r)[p])
  <2>1. PICK row \in PaymentRow : row = Visible(r)[p]
    BY <1>4
  <2>2. p \in PaymentId
    BY <1>4
  <2>3. PICK new : new = [row EXCEPT !.title = title]
    OBVIOUS
  <2>4. new \in PaymentRow /\ new.payer = row.payer /\ new.item = row.item
    BY <1>3, <2>3 DEF PaymentRow
  <2>5. /\ new \in RowOf(p)
        /\ RowHome(p, new) = RowHome(p, row)
        /\ Parents(p, new) = Parents(p, row)
    BY <2>2, <2>4, PaymentRowAgain
  <2>6. rows[p] = new
    BY <2>1, <2>3
  <2>7. QED
    BY <2>1, <2>5, <2>6
<1>6. Finds(r)
  BY <1>2 DEF Finds, At, OfPayment
<1>7. QED
  BY <1>1, <1>2, <1>4, <1>5, <1>6, UpdatingChanges

LEMMA clearRuleGoesOn ==
    ASSUME IInv, NEW r \in Request, clearRule(r)
    PROVE  Passes(r) \/ Changes(r) \/ Throw(r)
<1> DEFINE k == req[r].of
           rows == [i \in Found(r, {k}) |-> [Visible(r)[i] EXCEPT !.stakeRule = Null]]
<1>1. /\ At(r, "clearRule")
      /\ \/ Advance(r) /\ SameLog /\ UNCHANGED tables
         \/ Throw(r)
         \/ Executes(r, rows) /\ Advance(r)
  BY DEF clearRule, Execute, Executes
<1>2. Current(r) = "clearRule" /\ req[r].op = "setItemStakes" /\ req[r].pc = 4
  BY <1>1, Statement, StatementsAre DEF At
<1>3. k \in ItemId /\ Knows(r, k, Base(r))
  BY <1>2, Statement DEF Known, OfItem
<1>4. k \in Entity /\ k \in Key
  BY <1>3, EntitiesHaveKeys DEF Entity
<1>5. \A x \in DOMAIN rows : x = k /\ Exists(Visible(r)[x])
  BY DEF Found
<1>6. ASSUME NEW x \in DOMAIN rows
      PROVE  /\ rows[x] \in RowOf(x)
             /\ RowHome(x, rows[x]) = RowHome(x, Visible(r)[x])
             /\ Parents(x, rows[x]) = Parents(x, Visible(r)[x])
  <2>1. x = k /\ Visible(r)[x] \in RowOf(x)
    BY <1>4, <1>5, SeesTyped
  <2>2. PICK row \in RowOf(x) : row = Visible(r)[x]
    BY <2>1
  <2>3. /\ [row EXCEPT !["stakeRule"] = Null] \in RowOf(x)
        /\ RowHome(x, [row EXCEPT !["stakeRule"] = Null]) = RowHome(x, row)
        /\ Parents(x, [row EXCEPT !["stakeRule"] = Null]) = Parents(x, row)
    BY <1>3, <1>4, <2>1, SetColumnRow
  <2>4. rows[x] = [row EXCEPT !.stakeRule = Null]
    BY <2>2
  <2>5. QED
    BY <2>2, <2>3, <2>4
<1>7. Finds(r)
  BY <1>2 DEF Finds, At, OfPayment
<1>8. CASE Advance(r) /\ SameLog /\ UNCHANGED tables
  BY <1>2, <1>7, <1>8, AdvanceMoves, ReadingPasses DEF SameLog
<1>9. CASE Executes(r, rows) /\ Advance(r)
  BY <1>2, <1>3, <1>4, <1>5, <1>6, <1>7, <1>9, UpdatingChanges
<1>10. QED
  BY <1>1, <1>8, <1>9

\* Payments that r knows go to an item that r knows.
LEMMA MovingChanges ==
    ASSUME IInv, NEW r \in Request, NEW statement, NEW payments, NEW i \in ItemId,
           MoveTo(r, statement, payments, i),
           statement \notin {"commit", "idle", "insertWorkspace"},
           Knows(r, i, Base(r)),
           \A p \in payments : p \in PaymentId /\ Knows(r, p, Base(r)),
           req'[r].got = req[r].got /\ req'[r].made = req[r].made => Finds(r)
    PROVE  Changes(r) \/ Throw(r)
<1> DEFINE rows == [p \in Found(r, payments) |-> [Visible(r)[p] EXCEPT !.item = i]]
<1>1. At(r, statement) /\ (Throw(r) \/ (Executes(r, rows) /\ Advance(r)))
  BY DEF MoveTo, Execute, Executes
<1>2. SUFFICES ASSUME Executes(r, rows), Advance(r)
               PROVE  Changes(r)
  BY <1>1
<1>3. Current(r) \notin {"commit", "idle", "insertWorkspace"}
  BY <1>1 DEF At
<1>4. Moves(r) /\ Finds(r)
  BY <1>2, AdvanceMoves
<1>5. req[r].op \notin {"none", "createWorkspace"}
  BY <1>3, Statement, StatementsAre
<1>6. Base(r) \in Workspace /\ Base(r)' = Base(r)
  BY <1>4, <1>5, BasesAre, MovingKeepsBase
<1>7. ASSUME NEW p \in DOMAIN rows
      PROVE  Fitting(r, p, rows[p], Base(r))
  <2>1. p \in PaymentId /\ Knows(r, p, Base(r)) /\ Exists(Visible(r)[p])
    BY DEF Found
  <2>2. p \in Key /\ p \in Entity /\ p \notin Pair
    BY <2>1, EntitiesHaveKeys, KeysOfTables DEF Entity
  <2>3. PICK row \in RowOf(p) : row = Visible(r)[p]
    BY <2>1, <2>2, SeesTyped
  <2>4. row \in PaymentRow /\ RowOf(p) = PaymentRow
    BY <2>1, <2>2, KeysOfTables DEF RowOf
  <2>5. rows[p] = [row EXCEPT !.item = i]
    BY <2>3
  <2>6. rows[p] \in PaymentRow /\ rows[p].payer = row.payer /\ rows[p].item = i
    BY <2>4, <2>5 DEF PaymentRow
  <2>7. RowHome(p, row) = Base(r)
    BY <2>1, <2>2, <2>3, SeeingIsKnowing
  <2>8. RowHome(p, rows[p]) = MemberOf[rows[p].payer] /\ RowHome(p, row) = MemberOf[row.payer]
    BY <2>1, <2>2, KeysOfTables DEF RowHome
  <2>9. Parents(p, rows[p]) = {i}
    BY <2>1, <2>2, <2>4, <2>6, ParentsAre
  <2>10. Exists(Visible(r)[i]) => RowHome(i, Visible(r)[i]) = Base(r)
    BY SeeingIsKnowing DEF Entity
  <2>11. Belongs(p, rows[p], Base(r))
    BY <2>2, <2>6, <2>7, <2>8 DEF Belongs, Pair
  <2>12. QED
    BY <2>1, <2>2, <2>3, <2>4, <2>6, <2>7, <2>9, <2>10, <2>11, RowsExist DEF Fitting
<1>8. QED
  BY <1>2, <1>3, <1>4, <1>6, <1>7, KeepingChanges

LEMMA MergedPaymentsChange ==
    ASSUME IInv, NEW r \in Request, movePayments(r)
    PROVE  Changes(r) \/ Throw(r)
<1> DEFINE payments == PaymentsOf(Visible(r), req[r].with)
<1>1. MoveTo(r, "movePayments", payments, req[r].of) /\ Current(r) = "movePayments"
  BY DEF movePayments, MoveTo, Execute, At
<1>2. req[r].op = "mergeItems"
  BY <1>1, Statement, StatementsAre
<1>3. /\ req[r].of \in ItemId /\ Knows(r, req[r].of, Base(r))
      /\ req[r].with \in ItemId /\ Knows(r, req[r].with, Base(r))
  BY <1>2, Statement DEF Known, OfItem
<1>4. \A p \in payments : p \in PaymentId /\ Knows(r, p, Base(r))
  BY <1>3, SeesOfItem
<1>5. Finds(r)
  BY <1>1, <1>2 DEF Finds, At, OfPayment
<1>6. QED
  BY <1>1, <1>3, <1>4, <1>5, MovingChanges

LEMMA ListedPaymentsChange ==
    ASSUME IInv, NEW r \in Request, moveListed(r)
    PROVE  Changes(r) \/ Throw(r)
<1> DEFINE payments == Range(req[r].arg.payments)
<1>1. MoveTo(r, "moveListed", payments, req[r].made) /\ Current(r) = "moveListed"
  BY DEF moveListed, MoveTo, Execute, At
<1>2. req[r].op = "extractAsItem" /\ req[r].pc = 3
  BY <1>1, Statement, StatementsAre
<1>3. /\ req[r].made \in ItemId /\ Knows(r, req[r].made, Base(r))
      /\ \A p \in payments : Knows(r, p, Base(r))
  BY <1>2, Statement DEF Placed
<1>4. \A p \in payments : p \in PaymentId
  BY <1>2, Statement DEF Known, Arguments, Range
<1>5. req'[r].made = req[r].made => Finds(r)
  BY <1>1, <1>2 DEF Finds, At, OfPayment
<1>6. QED
  BY <1>1, <1>3, <1>4, <1>5, MovingChanges

-------------------------------------------------------------------------------
(* The statements that insert rows.                                          *)

LEMMA InsertingChanges ==
    ASSUME IInv, NEW r \in Request, NEW k \in Entity, NEW row \in RowOf(k), Inserts(r, k, row),
           NEW w \in Workspace, w = Base(r)',
           RowHome(k, row) = w,
           \A p \in Parents(k, row) : Exists(Visible(r)[p]) => RowHome(p, Visible(r)[p]) = w,
           Current(r) \notin {"commit", "idle"},
           Knows(r, k, w)' /\ req'[r].got = req[r].got => Finds(r)
    PROVE  Changes(r)
<1> DEFINE rows == [x \in {k} |-> row]
<1>1. Executes(r, rows) /\ draft[k] = Absent
  BY DEF Inserts
<1>2. Moves(r) /\ req'[r].got = req[r].got
  BY InsertMoves
<1>3. k \in Key /\ k \notin Pair
  BY EntitiesHaveKeys, KeysOfTables
<1>4. Belongs(k, row, w)
  BY <1>3 DEF Belongs, Pair
<1>5. Fitting(r, k, row, w)
  BY <1>1, <1>3, <1>4, RowsExist DEF Fitting
<1>6. \A x \in DOMAIN rows : Fitting(r, x, rows[x], w)
  BY <1>5
<1>7. (\A x \in DOMAIN rows : Knows(r, Owner(x), w)') => Finds(r)
  <2>1. HAVE \A x \in DOMAIN rows : Knows(r, Owner(x), w)'
  <2>2. Owner(k) = k /\ k \in DOMAIN rows
    BY <1>3 DEF Owner
  <2>3. Knows(r, k, w)'
    BY <2>1, <2>2
  <2>4. QED
    BY <1>2, <2>3
<1>8. QED
  BY <1>1, <1>2, <1>6, <1>7, KeepingChanges

LEMMA insertWorkspaceChanges ==
    ASSUME IInv, NEW r \in Request, insertWorkspace(r)
    PROVE  Changes(r) \/ Throw(r)
<1> DEFINE row == [title |-> req[r].arg, stakeRule |-> DefaultRule]
<1>1. Insert(r, "insertWorkspace", Workspace, row) /\ Current(r) = "insertWorkspace"
  BY DEF insertWorkspace, Insert, At
<1>2. req[r].op = "createWorkspace" /\ req[r].pc = 1
  BY <1>1, Statement, StatementsAre
<1>3. SUFFICES ASSUME NEW k \in Workspace, Inserts(r, k, row)
               PROVE  Changes(r)
  BY <1>1, InsertDoes
<1>4. k \in Entity /\ k \in Key
  BY EntitiesHaveKeys DEF Entity
<1>5. row \in RowOf(k)
  BY <1>2, Statement, ClientsSendValues DEF Known, Arguments, WorkspaceRow, RowOf
<1>6. RowHome(k, row) = k /\ Parents(k, row) = {}
  BY <1>4, <1>5, HomesAre, ParentsAre
<1>7. req'[r].made = k /\ req'[r].op = "createWorkspace"
  BY <1>2, <1>3, InsertMoves DEF Moves
<1>8. Base(r)' = k
  BY <1>7 DEF Base
<1>9. Finds(r)
  BY <1>1, <1>2, <1>7 DEF Finds, At, OfPayment
<1>10. QED
  BY <1>1, <1>3, <1>4, <1>5, <1>6, <1>8, <1>9, InsertingChanges

LEMMA insertItemChanges ==
    ASSUME IInv, NEW r \in Request, insertItem(r)
    PROVE  Changes(r) \/ Throw(r)
<1> DEFINE row == [workspace |-> req[r].of, title |-> req[r].arg,
                   stakeRule |-> req[r].seen[req[r].of].stakeRule]
<1>1. Insert(r, "insertItem", ItemId, row) /\ Current(r) = "insertItem"
  BY DEF insertItem, Insert, At
<1>2. req[r].op = "createItem" /\ req[r].pc = 1
  BY <1>1, Statement, StatementsAre
<1>3. SUFFICES ASSUME NEW k \in ItemId, Inserts(r, k, row)
               PROVE  Changes(r)
  BY <1>1, InsertDoes
<1>4. k \in Entity /\ k \in Key
  BY EntitiesHaveKeys DEF Entity
<1>5. /\ req[r].of \in Workspace /\ req[r].arg \in Title
      /\ req[r].seen[req[r].of] \in WorkspaceRow
  BY <1>2, Statement DEF Known, Arguments, OfWorkspace
<1>6. row \in ItemRow
  BY <1>5 DEF ItemRow, WorkspaceRow
<1>7. row \in RowOf(k)
  BY <1>4, <1>6, KeysOfTables DEF RowOf
<1>8. Base(r) = req[r].of /\ Base(r)' = Base(r)
  BY <1>2, <1>3, BasesAre, MovingKeepsBase, InsertMoves DEF OfWorkspace
<1>9. RowHome(k, row) = req[r].of /\ Parents(k, row) = {req[r].of}
  BY <1>4, <1>7, HomesAre, ParentsAre
<1>10. \A p \in Parents(k, row) : RowHome(p, Visible(r)[p]) = req[r].of
  BY <1>5, <1>9, HomesAre
<1>11. Finds(r)
  BY <1>1, <1>2 DEF Finds, At, OfPayment
<1>12. QED
  BY <1>1, <1>3, <1>4, <1>5, <1>7, <1>8, <1>9, <1>10, <1>11, InsertingChanges

LEMMA insertTagChanges ==
    ASSUME IInv, NEW r \in Request, insertTag(r)
    PROVE  Changes(r) \/ Throw(r)
<1> DEFINE row == [workspace |-> req[r].of, title |-> req[r].arg]
<1>1. Insert(r, "insertTag", TagId, row) /\ Current(r) = "insertTag"
  BY DEF insertTag, Insert, At
<1>2. req[r].op = "createTag" /\ req[r].pc = 1
  BY <1>1, Statement, StatementsAre
<1>3. SUFFICES ASSUME NEW k \in TagId, Inserts(r, k, row)
               PROVE  Changes(r)
  BY <1>1, InsertDoes
<1>4. k \in Entity /\ k \in Key
  BY EntitiesHaveKeys DEF Entity
<1>5. req[r].of \in Workspace /\ req[r].arg \in Title
  BY <1>2, Statement DEF Known, Arguments, OfWorkspace
<1>6. row \in TagRow
  BY <1>5 DEF TagRow
<1>7. row \in RowOf(k)
  BY <1>4, <1>6, KeysOfTables DEF RowOf
<1>8. Base(r) = req[r].of /\ Base(r)' = Base(r)
  BY <1>2, <1>3, BasesAre, MovingKeepsBase, InsertMoves DEF OfWorkspace
<1>9. RowHome(k, row) = req[r].of /\ Parents(k, row) = {req[r].of}
  BY <1>4, <1>7, HomesAre, ParentsAre
<1>10. \A p \in Parents(k, row) : RowHome(p, Visible(r)[p]) = req[r].of
  BY <1>5, <1>9, HomesAre
<1>11. Finds(r)
  BY <1>1, <1>2 DEF Finds, At, OfPayment
<1>12. QED
  BY <1>1, <1>3, <1>4, <1>5, <1>7, <1>8, <1>9, <1>10, <1>11, InsertingChanges

LEMMA insertPaymentChanges ==
    ASSUME IInv, NEW r \in Request, insertPayment(r)
    PROVE  Changes(r) \/ Throw(r)
<1> DEFINE row == [item |-> req[r].of, payer |-> req[r].with, title |-> req[r].arg]
<1>1. Insert(r, "insertPayment", PaymentId, row) /\ Current(r) = "insertPayment"
  BY DEF insertPayment, Insert, At
<1>2. req[r].op = "createPayment" /\ req[r].pc = 1
  BY <1>1, Statement, StatementsAre
<1>3. SUFFICES ASSUME NEW k \in PaymentId, Inserts(r, k, row)
               PROVE  Changes(r)
  BY <1>1, InsertDoes
<1>4. k \in Entity /\ k \in Key
  BY EntitiesHaveKeys DEF Entity
<1>5. /\ req[r].of \in ItemId /\ req[r].of \in Entity /\ Knows(r, req[r].of, Base(r))
      /\ req[r].with \in Member /\ MemberOf[req[r].with] = Base(r)
      /\ req[r].arg \in Title \cup {Null}
  BY <1>2, Statement DEF Known, Arguments, OfItem, Entity
<1>6. row \in PaymentRow
  BY <1>5 DEF PaymentRow
<1>7. row \in RowOf(k)
  BY <1>4, <1>6, KeysOfTables DEF RowOf
<1>8. Base(r) \in Workspace /\ Base(r)' = Base(r)
  BY <1>2, <1>3, BasesAre, MovingKeepsBase, InsertMoves
<1>9. RowHome(k, row) = Base(r) /\ Parents(k, row) = {req[r].of}
  BY <1>4, <1>5, <1>7, HomesAre, ParentsAre
<1>10. \A p \in Parents(k, row) : Exists(Visible(r)[p]) => RowHome(p, Visible(r)[p]) = Base(r)
  BY <1>5, <1>9, SeeingIsKnowing
<1>11. Finds(r)
  BY <1>1, <1>2 DEF Finds, At, OfPayment
<1>12. QED
  BY <1>1, <1>3, <1>4, <1>7, <1>8, <1>9, <1>10, <1>11, InsertingChanges

LEMMA insertExtractedChanges ==
    ASSUME IInv, NEW r \in Request, insertExtracted(r)
    PROVE  Changes(r) \/ Throw(r)
<1> DEFINE row == [workspace |-> req[r].seen[req[r].of].workspace,
                   title |-> req[r].arg.title, stakeRule |-> Null]
<1>1. Insert(r, "insertExtracted", ItemId, row) /\ Current(r) = "insertExtracted"
  BY DEF insertExtracted, Insert, At
<1>2. req[r].op = "extractAsItem" /\ req[r].pc = 2
  BY <1>1, Statement, StatementsAre
<1>3. SUFFICES ASSUME NEW k \in ItemId, Inserts(r, k, row)
               PROVE  Changes(r)
  BY <1>1, InsertDoes
<1>4. k \in Entity /\ k \in Key
  BY EntitiesHaveKeys DEF Entity
<1>5. req[r].arg.title \in Title
  BY <1>2, Statement DEF Known, Arguments
<1>6. /\ Base(r) \in Workspace /\ Base(r)' = Base(r)
      /\ Base(r) = req[r].seen[req[r].of].workspace
  BY <1>2, <1>3, BasesAre, MovingKeepsBase, InsertMoves DEF OfItem
<1>7. row \in ItemRow
  BY <1>5, <1>6 DEF ItemRow
<1>8. row \in RowOf(k)
  BY <1>4, <1>7, KeysOfTables DEF RowOf
<1>9. RowHome(k, row) = Base(r) /\ Parents(k, row) = {Base(r)}
  BY <1>4, <1>6, <1>8, HomesAre, ParentsAre
<1>10. \A p \in Parents(k, row) : RowHome(p, Visible(r)[p]) = Base(r)
  BY <1>6, <1>9, HomesAre
<1>11. req'[r].made = k
  BY <1>3, InsertMoves
<1>12. Knows(r, k, Base(r))' => Finds(r)
  BY <1>1, <1>2, <1>11 DEF Finds, At, OfPayment
<1>13. PICK w \in Workspace : w = Base(r) /\ w = Base(r)'
  BY <1>6
<1>14. Knows(r, k, w)' => Finds(r)
  BY <1>12, <1>13
<1>15. QED
  BY <1>1, <1>3, <1>4, <1>8, <1>9, <1>10, <1>13, <1>14, InsertingChanges

\* Tags and stakes of an item that r knows.
LEMMA PairingChanges ==
    ASSUME IInv, NEW r \in Request, NEW rows, Executes(r, rows), Advance(r),
           Current(r) \notin {"commit", "idle", "insertWorkspace"},
           NEW i \in ItemId, Knows(r, i, Base(r)),
           \A k \in DOMAIN rows :
                \/ \E x \in TagId :
                    k = <<i, x>> /\ Knows(r, x, Base(r)) /\ rows[k] \in ItemTagRow
                \/ \E m \in Member :
                    k = <<i, m>> /\ MemberOf[m] = Base(r) /\ rows[k] \in StakeRow,
           req'[r].got = req[r].got /\ req'[r].made = req[r].made => Finds(r)
    PROVE  Changes(r)
<1>1. Moves(r) /\ Finds(r)
  BY AdvanceMoves
<1>2. req[r].op \notin {"none", "createWorkspace"}
  BY Statement, StatementsAre
<1>3. Base(r) \in Workspace /\ Base(r)' = Base(r)
  BY <1>1, <1>2, BasesAre, MovingKeepsBase
<1>4. i \in Entity /\ (Exists(Visible(r)[i]) => RowHome(i, Visible(r)[i]) = Base(r))
  BY SeeingIsKnowing DEF Entity
<1>5. ASSUME NEW k \in DOMAIN rows
      PROVE  Fitting(r, k, rows[k], Base(r))
  <2>1. ASSUME NEW x \in TagId, k = <<i, x>>, Knows(r, x, Base(r)), rows[k] \in ItemTagRow
        PROVE  Fitting(r, k, rows[k], Base(r))
    <3>1. /\ k \in Key /\ k \in Pair /\ k \in ItemId \X TagId /\ k[1] = i /\ k[2] = x
          /\ k \notin Entity /\ k \notin ItemId \X Member
      BY <2>1, PairsOf, KeysOfTables
    <3>2. rows[k] \in RowOf(k)
      BY <2>1, <3>1 DEF RowOf, Entity
    <3>3. Parents(k, rows[k]) = {i, x}
      BY <3>1, <3>2, ParentsAre
    <3>4. x \in Entity /\ (Exists(Visible(r)[x]) => RowHome(x, Visible(r)[x]) = Base(r))
      BY <2>1, SeeingIsKnowing DEF Entity
    <3>5. Belongs(k, rows[k], Base(r))
      BY <3>1 DEF Belongs
    <3>6. QED
      BY <1>4, <3>1, <3>2, <3>3, <3>4, <3>5, RowsExist DEF Fitting
  <2>2. ASSUME NEW m \in Member, k = <<i, m>>, MemberOf[m] = Base(r), rows[k] \in StakeRow
        PROVE  Fitting(r, k, rows[k], Base(r))
    <3>1. /\ k \in Key /\ k \in Pair /\ k \in ItemId \X Member /\ k[1] = i /\ k[2] = m
          /\ k \notin Entity /\ k \notin ItemId \X TagId
      BY <2>2, PairsOf, KeysOfTables
    <3>2. rows[k] \in RowOf(k)
      BY <2>2, <3>1 DEF RowOf, Entity
    <3>3. Parents(k, rows[k]) = {i}
      BY <3>1, <3>2, ParentsAre
    <3>4. Belongs(k, rows[k], Base(r))
      BY <2>2, <3>1 DEF Belongs
    <3>5. QED
      BY <1>4, <3>1, <3>2, <3>3, <3>4, RowsExist DEF Fitting
  <2>3. QED
    BY <2>1, <2>2
<1>6. QED
  BY <1>1, <1>3, <1>5, KeepingChanges

LEMMA insertItemTagChanges ==
    ASSUME IInv, NEW r \in Request, insertItemTag(r)
    PROVE  Changes(r) \/ Throw(r)
<1> DEFINE rows == [k \in {Assignment(r)} |-> [tagged |-> TRUE]]
<1>1. At(r, "insertItemTag") /\ (Throw(r) \/ (Executes(r, rows) /\ Advance(r)))
  BY DEF insertItemTag, Execute, Executes
<1>2. Current(r) = "insertItemTag"
  BY <1>1 DEF At
<1>3. req[r].op = "assignTag"
  BY <1>2, Statement, StatementsAre
<1>4. /\ req[r].of \in ItemId /\ Knows(r, req[r].of, Base(r))
      /\ req[r].with \in TagId /\ Knows(r, req[r].with, Base(r))
  BY <1>3, Statement DEF Known, OfItem
<1>5. \A k \in DOMAIN rows : k = <<req[r].of, req[r].with>> /\ rows[k] \in ItemTagRow
  BY DEF Assignment, ItemTagRow
<1>6. Finds(r)
  BY <1>2, <1>3 DEF Finds, At, OfPayment
<1>7. QED
  BY <1>1, <1>2, <1>4, <1>5, <1>6, PairingChanges

LEMMA copyTagsChanges ==
    ASSUME IInv, NEW r \in Request, copyTags(r)
    PROVE  Changes(r) \/ Throw(r)
<1> DEFINE rows == [k \in {<<req[r].made, x>> : x \in req[r].got} |-> [tagged |-> TRUE]]
<1>1. At(r, "copyTags") /\ (Throw(r) \/ (Executes(r, rows) /\ Advance(r)))
  BY DEF copyTags, Execute, Executes
<1>2. Current(r) = "copyTags"
  BY <1>1 DEF At
<1>3. req[r].op = "extractAsItem" /\ req[r].pc = 5
  BY <1>2, Statement, StatementsAre
<1>4. /\ req[r].made \in ItemId /\ Knows(r, req[r].made, Base(r))
      /\ \A x \in req[r].got : x \in TagId /\ Knows(r, x, Base(r))
  BY <1>1, <1>3, Statement DEF Placed
<1>5. \A k \in DOMAIN rows :
        /\ \E x \in req[r].got : k = <<req[r].made, x>>
        /\ rows[k] \in ItemTagRow
  BY DEF ItemTagRow
<1>6. req'[r].made = req[r].made => Finds(r)
  BY <1>2, <1>3 DEF Finds, At, OfPayment
<1>7. \A k \in DOMAIN rows :
        \E x \in TagId : k = <<req[r].made, x>> /\ Knows(r, x, Base(r)) /\ rows[k] \in ItemTagRow
  BY <1>4, <1>5
<1>8. QED
  BY <1>1, <1>2, <1>4, <1>6, <1>7, PairingChanges

LEMMA ListedAre ==
    ASSUME NEW list \in Seq([member : Member, value : Int]),
           \A n \in DOMAIN list : list[n].value >= 0,
           NEW m \in DOMAIN Listed(list)
    PROVE  /\ Listed(list)[m] \in Nat
           /\ \E n \in DOMAIN list : list[n] \in [member : Member, value : Int] /\ list[n].member = m
<1> DEFINE s == CHOOSE s \in Range(list) : s.member = m
<1>1. PICK n \in DOMAIN list : list[n].member = m
  BY DEF Listed
<1>2. list[n] \in Range(list)
  BY <1>1 DEF Range
<1>3. s \in Range(list)
  BY <1>1, <1>2
<1>4. PICK l \in DOMAIN list : s = list[l]
  BY <1>3 DEF Range
<1>5. list[n] \in [member : Member, value : Int] /\ list[l] \in [member : Member, value : Int]
  <2> HIDE DEF s
  <2>1. PICK S : S = [member : Member, value : Int]
    OBVIOUS
  <2>2. list \in Seq(S)
    BY <2>1
  <2>3. list[n] \in S /\ list[l] \in S
    BY <1>1, <1>4, <2>2
  <2>4. QED
    BY <2>1, <2>3
<1>6. list[l].value \in Int /\ list[l].value >= 0
  BY <1>5
<1>7. list[l].value \in Nat
  BY <1>6
<1>8. Listed(list)[m] = s.value
  BY DEF Listed
<1>9. QED
  BY <1>1, <1>4, <1>5, <1>7, <1>8

LEMMA upsertStakesChanges ==
    ASSUME IInv, NEW r \in Request, upsertStakes(r)
    PROVE  Changes(r) \/ Throw(r)
<1> DEFINE list == req[r].arg
           stakes == Listed(list)
           rows == [k \in {<<req[r].of, m>> : m \in DOMAIN stakes} |-> [value |-> stakes[k[2]]]]
<1>1. At(r, "upsertStakes") /\ (Throw(r) \/ (Executes(r, rows) /\ Advance(r)))
  BY DEF upsertStakes, Execute, Executes
<1>2. Current(r) = "upsertStakes"
  BY <1>1 DEF At
<1>3. req[r].op = "setItemStakes" /\ req[r].pc = 3
  BY <1>2, Statement, StatementsAre
<1>4. /\ req[r].of \in ItemId /\ Knows(r, req[r].of, Base(r))
      /\ list \in Seq([member : Member, value : Int])
  BY <1>3, Statement DEF Known, Arguments, OfItem
<1>5. ASSUME NEW m \in DOMAIN stakes
      PROVE  m \in Member /\ MemberOf[m] = Base(r) /\ stakes[m] \in Nat
  <2>1. \A n \in DOMAIN list : MemberOf[list[n].member] = Base(r) /\ list[n].value >= 0
    BY <1>3, Statement DEF Placed
  <2>2. /\ stakes[m] \in Nat
        /\ \E n \in DOMAIN list : list[n] \in [member : Member, value : Int] /\ list[n].member = m
    BY <1>4, <2>1, ListedAre
  <2>3. QED
    BY <2>1, <2>2
<1>6. ASSUME NEW k \in DOMAIN rows
      PROVE  \E m \in Member :
                k = <<req[r].of, m>> /\ MemberOf[m] = Base(r) /\ rows[k] \in StakeRow
  <2>1. PICK m \in DOMAIN stakes : k = <<req[r].of, m>>
    OBVIOUS
  <2>2. rows[k] = [value |-> stakes[m]]
    BY <2>1
  <2>3. rows[k] \in StakeRow
    BY <1>5, <2>2 DEF StakeRow
  <2>4. QED
    BY <1>5, <2>1, <2>3
<1>7. Finds(r)
  BY <1>2, <1>3 DEF Finds, At, OfPayment
<1>8. QED
  BY <1>1, <1>2, <1>4, <1>6, <1>7, PairingChanges

-------------------------------------------------------------------------------
(* The statements that delete rows.                                          *)

ChildrenOf(t, K) == {c \in Key : Exists(t[c]) /\ Parents(c, t[c]) \cap K # {}}

LEMMA FamilyIs ==
    ASSUME NEW t, NEW k
    PROVE  Family(t, k) = {k} \cup ChildrenOf(t, {k}) \cup ChildrenOf(t, ChildrenOf(t, {k}))
BY DEF Family, ChildrenOf

\* Deleting a workspace reaches everything in two steps.
LEMMA FamilyCloses ==
    ASSUME IInv, NEW r \in Request, NEW k \in Key, NEW c \in Key, Exists(Visible(r)[c]),
           NEW d \in Parents(c, Visible(r)[c]), d \in Family(Visible(r), k)
    PROVE  c \in Family(Visible(r), k)
<1> DEFINE t == Visible(r)
<1>1. d \in Entity /\ d \in Key /\ d \in Workspace \cup ItemId \cup TagId
  <2>1. t[c] \in RowOf(c)
    BY SeesTyped
  <2>2. d \in Entity /\ d \in Key /\ d \notin PaymentId
    BY <2>1, Levels
  <2>3. QED
    BY <2>2 DEF Entity
<1>2. CASE d \in {k} \cup ChildrenOf(t, {k})
  <2>1. c \in ChildrenOf(t, {k}) \cup ChildrenOf(t, ChildrenOf(t, {k}))
    BY <1>2 DEF ChildrenOf
  <2>2. QED
    BY <2>1, FamilyIs
<1>3. CASE d \in ChildrenOf(t, ChildrenOf(t, {k}))
  <2>1. PICK q \in ChildrenOf(t, {k}) : Exists(t[d]) /\ q \in Parents(d, t[d])
    BY <1>3 DEF ChildrenOf
  <2>2. q \in Key /\ Exists(t[q]) /\ k \in Parents(q, t[q])
    BY <2>1 DEF ChildrenOf
  <2>3. t[d] \in RowOf(d) /\ t[q] \in RowOf(q)
    BY <1>1, <2>1, <2>2, SeesTyped
  <2>4. d \notin Workspace /\ q \notin Workspace
    BY <1>1, <2>1, <2>2, <2>3, Levels
  <2>5. d \in ItemId \cup TagId => q \in Workspace
    BY <1>1, <2>1, <2>3, Levels
  <2>6. QED
    BY <1>1, <2>4, <2>5
<1>4. QED
  BY <1>2, <1>3, FamilyIs

LEMMA FamilyIsKnown ==
    ASSUME IInv, NEW r \in Request, NEW k \in Key, Exists(Visible(r)[k]),
           NEW w, Knows(r, Owner(k), w), NEW c \in Family(Visible(r), k)
    PROVE  c \in Key /\ Exists(Visible(r)[c]) /\ Knows(r, Owner(c), w)
<1> DEFINE t == Visible(r)
<1>1. ASSUME NEW p \in Key, Knows(r, Owner(p), w), NEW x \in Key, Exists(t[x]),
             p \in Parents(x, t[x])
      PROVE  Knows(r, Owner(x), w)
  <2>1. p \in Entity /\ p \notin Pair
    BY <1>1, SeesTyped, Levels
  <2>2. Owner(p) = p
    BY <2>1 DEF Owner
  <2>3. QED
    BY <1>1, <2>2, KnowsKin
<1>2. \A x \in ChildrenOf(t, {k}) : x \in Key /\ Exists(t[x]) /\ Knows(r, Owner(x), w)
  BY <1>1 DEF ChildrenOf
<1>3. \A x \in ChildrenOf(t, ChildrenOf(t, {k})) :
        x \in Key /\ Exists(t[x]) /\ Knows(r, Owner(x), w)
  <2>1. ASSUME NEW x \in ChildrenOf(t, ChildrenOf(t, {k}))
        PROVE  x \in Key /\ Exists(t[x]) /\ Knows(r, Owner(x), w)
    <3>1. x \in Key /\ Exists(t[x])
      BY DEF ChildrenOf
    <3>2. PICK p \in ChildrenOf(t, {k}) : p \in Parents(x, t[x])
      BY DEF ChildrenOf
    <3>3. QED
      BY <1>1, <1>2, <3>1, <3>2
  <2>2. QED
    BY <2>1
<1>4. QED
  BY <1>2, <1>3, FamilyIs

LEMMA DeletingChanges ==
    ASSUME IInv, NEW r \in Request, NEW statement, NEW k \in Key, Delete(r, statement, k),
           statement \notin {"commit", "idle", "insertWorkspace"},
           Knows(r, Owner(k), Base(r)),
           /\ holder'[k] = r /\ draft'[k] = Deleted(k)
           /\ req'[r].got = req[r].got /\ req'[r].made = req[r].made
           => Finds(r)
    PROVE  Changes(r) \/ Throw(r)
<1> DEFINE t == Visible(r)
           rows == [c \in Family(t, k) |-> Deleted(c)]
<1>1. At(r, statement) /\ (Throw(r) \/ (Exists(t[k]) /\ Executes(r, rows) /\ Advance(r)))
  BY DEF Delete, Execute, Executes
<1>2. SUFFICES ASSUME Exists(t[k]), Executes(r, rows), Advance(r)
               PROVE  Changes(r)
  BY <1>1
<1>3. Current(r) \notin {"commit", "idle", "insertWorkspace"}
  BY <1>1 DEF At
<1>4. Moves(r) /\ req'[r].got = req[r].got /\ req'[r].made = req[r].made
  BY <1>2, AdvanceMoves
<1>5. req[r].op \notin {"none", "createWorkspace"}
  BY <1>3, Statement, StatementsAre
<1>6. Base(r)' = Base(r)
  BY <1>4, <1>5, MovingKeepsBase
<1>7. Writes(r, rows) /\ DOMAIN rows = Family(t, k)
  BY <1>2, ExecutesFreely
<1>8. ASSUME NEW c \in Family(t, k)
      PROVE  /\ c \in Key
             /\ Exists(draft[c]) /\ rows[c] = Deleted(c) /\ ~Exists(rows[c])
             /\ Knows(r, Owner(c), Base(r))
  <2>1. c \in Key /\ Exists(t[c]) /\ Knows(r, Owner(c), Base(r))
    BY <1>2, FamilyIsKnown
  <2>2. t[c] = draft[c]
    BY <1>2, <1>7, <2>1, ExecutesFreely, SeesFree
  <2>3. rows[c] = Deleted(c)
    OBVIOUS
  <2>4. ~Exists(rows[c])
    BY <2>3 DEF Deleted, Exists
  <2>5. QED
    BY <2>1, <2>2, <2>3, <2>4
<1>9. ASSUME NEW d \in Family(t, k), NEW c \in Key
      PROVE  /\ Exists(draft[c]) /\ d \in Parents(c, draft[c]) => c \in Family(t, k)
             /\ Exists(db[c]) /\ d \in Parents(c, db[c]) => c \in Family(t, k) \/ holder[c] = r
  <2>1. ASSUME Exists(draft[c]), d \in Parents(c, draft[c])
        PROVE  c \in Family(t, k)
    <3>1. c \in Family(draft, d)
      BY <2>1, FamilyIs DEF ChildrenOf
    <3>2. Free(r, c)
      BY <1>2, <1>7, <1>8, <3>1, ExecutesFreely
    <3>3. t[c] = draft[c]
      BY <3>2, SeesFree
    <3>4. QED
      BY <2>1, <3>3, FamilyCloses
  <2>2. ASSUME Exists(db[c]), d \in Parents(c, db[c]), holder[c] # r
        PROVE  c \in Family(t, k)
    <3>1. t[c] = db[c]
      BY <2>2, ReadsRow
    <3>2. QED
      BY <2>2, <3>1, FamilyCloses
  <2>3. QED
    BY <2>1, <2>2
<1>10. DropsRows(r, rows, Base(r))
  BY <1>7, <1>8, <1>9 DEF DropsRows
<1>11. k \in Family(t, k)
  BY FamilyIs
<1>12. holder'[k] = r /\ draft'[k] = Deleted(k)
  BY <1>7, <1>8, <1>11, WrittenRow
<1>13. Finds(r) /\ history' = history
  BY <1>2, <1>4, <1>12 DEF Executes, SameLog
<1>14. QED
  BY <1>3, <1>4, <1>6, <1>10, <1>13, DroppingChanges

\* Tags or stakes of an item that r knows; nothing refers to those.
LEMMA ClearingChanges ==
    ASSUME IInv, NEW r \in Request, NEW i \in ItemId, NEW K,
           Executes(r, [k \in {<<i, x>> : x \in K} |-> Absent]), Advance(r),
           Current(r) \notin {"commit", "idle", "insertWorkspace"},
           K \subseteq TagId \/ K \subseteq Member,
           \A x \in K : Exists(Visible(r)[<<i, x>>]),
           Knows(r, i, Base(r)), Finds(r)
    PROVE  Changes(r)
<1> DEFINE rows == [k \in {<<i, x>> : x \in K} |-> Absent]
<1>1. Moves(r) /\ history' = history
  BY AdvanceMoves DEF Executes, SameLog
<1>2. req[r].op \notin {"none", "createWorkspace"}
  BY Statement, StatementsAre
<1>3. Base(r)' = Base(r)
  BY <1>1, <1>2, MovingKeepsBase
<1>4. Writes(r, rows)
  BY ExecutesFreely
<1>5. ASSUME NEW k \in DOMAIN rows
      PROVE  /\ k \in Key /\ Exists(draft[k]) /\ rows[k] = Deleted(k)
             /\ Knows(r, Owner(k), Base(r))
             /\ \A c \in Key :
                 /\ Exists(draft[c]) => k \notin Parents(c, draft[c])
                 /\ Exists(db[c]) => k \notin Parents(c, db[c])
  <2>1. PICK x \in K : k = <<i, x>>
    OBVIOUS
  <2>2. k \in Key /\ k \in Pair /\ k[1] = i
    BY <2>1, PairsOf
  <2>3. Owner(k) = i /\ Deleted(k) = Absent
    BY <2>2 DEF Owner, Deleted
  <2>4. Exists(draft[k])
    BY <2>1, <2>2, ExecutesFreely, SeesFree
  <2>5. \A c \in Key : /\ Exists(draft[c]) => k \notin Parents(c, draft[c])
                       /\ Exists(db[c]) => k \notin Parents(c, db[c])
    BY <2>2, TablesAre, Levels
  <2>6. QED
    BY <2>2, <2>3, <2>4, <2>5
<1>6. DropsRows(r, rows, Base(r))
  BY <1>4, <1>5 DEF DropsRows
<1>7. QED
  BY <1>1, <1>3, <1>6, DroppingChanges

LEMMA DroppingDeletes ==
    ASSUME IInv, NEW r \in Request,
           \/ dropWorkspace(r) \/ dropItem(r) \/ dropPayment(r) \/ dropTag(r)
           \/ deleteItemTag(r) \/ deleteMerging(r)
    PROVE  Changes(r) \/ Throw(r)
<1> USE DEF OfWorkspace, OfItem, OfPayment, OfTag
<1> DEFINE of == req[r].of
           with == req[r].with
<1>0. ASSUME NEW e \in Entity
      PROVE  e \in Key /\ Owner(e) = e /\ Deleted(e) = Gone
  BY EntitiesHaveKeys, KeysOfTables DEF Owner, Deleted
<1>1. CASE dropWorkspace(r)
  <2>1. Delete(r, "dropWorkspace", of) /\ Current(r) = "dropWorkspace"
    BY <1>1 DEF dropWorkspace, Delete, Execute, At
  <2>2. req[r].op = "deleteWorkspace"
    BY <2>1, Statement, StatementsAre
  <2>3. of \in Entity /\ Knows(r, of, Base(r))
    BY <2>2, Statement DEF Known, Entity
  <2>4. holder'[of] = r /\ draft'[of] = Deleted(of) => Finds(r)
    BY <1>0, <2>1, <2>2, <2>3 DEF Finds, At
  <2>5. QED
    BY <1>0, <2>1, <2>3, <2>4, DeletingChanges
<1>2. CASE dropItem(r)
  <2>1. Delete(r, "dropItem", of) /\ Current(r) = "dropItem"
    BY <1>2 DEF dropItem, Delete, Execute, At
  <2>2. req[r].op = "deleteItem"
    BY <2>1, Statement, StatementsAre
  <2>3. of \in Entity /\ Knows(r, of, Base(r))
    BY <2>2, Statement DEF Known, Entity
  <2>4. Finds(r)
    BY <2>1, <2>2 DEF Finds, At
  <2>5. QED
    BY <1>0, <2>1, <2>3, <2>4, DeletingChanges
<1>3. CASE dropPayment(r)
  <2>1. Delete(r, "dropPayment", of) /\ Current(r) = "dropPayment"
    BY <1>3 DEF dropPayment, Delete, Execute, At
  <2>2. req[r].op = "deletePayment" /\ req[r].pc = 2
    BY <2>1, Statement, StatementsAre
  <2>3. of \in Entity /\ Knows(r, of, Base(r))
    BY <2>2, Statement DEF Known, Entity
  <2>4. req'[r].got = req[r].got => Finds(r)
    BY <2>1, <2>2 DEF Finds, At
  <2>5. QED
    BY <1>0, <2>1, <2>3, <2>4, DeletingChanges
<1>4. CASE dropTag(r)
  <2>1. Delete(r, "dropTag", of) /\ Current(r) = "dropTag"
    BY <1>4 DEF dropTag, Delete, Execute, At
  <2>2. req[r].op = "deleteTag"
    BY <2>1, Statement, StatementsAre
  <2>3. of \in Entity /\ Knows(r, of, Base(r))
    BY <2>2, Statement DEF Known, Entity
  <2>4. Finds(r)
    BY <2>1, <2>2 DEF Finds, At
  <2>5. QED
    BY <1>0, <2>1, <2>3, <2>4, DeletingChanges
<1>5. CASE deleteItemTag(r)
  <2>1. Delete(r, "deleteItemTag", <<of, with>>) /\ Current(r) = "deleteItemTag"
    BY <1>5 DEF deleteItemTag, Assignment, Delete, Execute, At
  <2>2. req[r].op = "unassignTag"
    BY <2>1, Statement, StatementsAre
  <2>3. of \in ItemId /\ with \in TagId /\ Knows(r, of, Base(r))
    BY <2>2, Statement DEF Known
  <2>4. <<of, with>> \in Key /\ Owner(<<of, with>>) = of
    BY <2>3, PairsOf DEF Owner
  <2>5. Finds(r)
    BY <2>1, <2>2 DEF Finds, At
  <2>6. QED
    BY <2>1, <2>3, <2>4, <2>5, DeletingChanges
<1>6. CASE deleteMerging(r)
  <2>1. Delete(r, "deleteMerging", with) /\ Current(r) = "deleteMerging"
    BY <1>6 DEF deleteMerging, Delete, Execute, At
  <2>2. req[r].op = "mergeItems"
    BY <2>1, Statement, StatementsAre
  <2>3. with \in Entity /\ Knows(r, with, Base(r))
    BY <2>2, Statement DEF Known, Entity
  <2>4. Finds(r)
    BY <2>1, <2>2 DEF Finds, At
  <2>5. QED
    BY <1>0, <2>1, <2>3, <2>4, DeletingChanges
<1>7. QED
  BY <1>1, <1>2, <1>3, <1>4, <1>5, <1>6

LEMMA DroppingClears ==
    ASSUME IInv, NEW r \in Request, clearTags(r) \/ deleteStakes(r)
    PROVE  Changes(r) \/ Throw(r)
<1> USE DEF OfWorkspace, OfItem, OfPayment, OfTag
<1>1. CASE clearTags(r)
  <2> DEFINE i == req[r].with
             K == TagsOf(Visible(r), i)
             rows == [k \in {<<i, x>> : x \in K} |-> Absent]
  <2>1. At(r, "clearTags") /\ (Throw(r) \/ (Executes(r, rows) /\ Advance(r)))
    BY <1>1 DEF clearTags, Execute, Executes
  <2>2. Current(r) = "clearTags"
    BY <2>1 DEF At
  <2>3. req[r].op = "mergeItems"
    BY <2>2, Statement, StatementsAre
  <2>4. i \in ItemId /\ Knows(r, i, Base(r))
    BY <2>3, Statement DEF Known
  <2>5. Finds(r)
    BY <2>2, <2>3 DEF Finds, At
  <2>6. K \subseteq TagId /\ \A x \in K : Exists(Visible(r)[<<i, x>>])
    BY DEF TagsOf
  <2>7. QED
    BY <2>1, <2>2, <2>4, <2>5, <2>6, ClearingChanges
<1>2. CASE deleteStakes(r)
  <2> DEFINE i == req[r].of
             K == StakesOf(Visible(r), i)
             rows == [k \in {<<i, x>> : x \in K} |-> Absent]
  <2>1. At(r, "deleteStakes") /\ (Throw(r) \/ (Executes(r, rows) /\ Advance(r)))
    BY <1>2 DEF deleteStakes, Execute, Executes
  <2>2. Current(r) = "deleteStakes"
    BY <2>1 DEF At
  <2>3. req[r].op = "setItemStakeRule"
    BY <2>2, Statement, StatementsAre
  <2>4. i \in ItemId /\ Knows(r, i, Base(r))
    BY <2>3, Statement DEF Known
  <2>5. Finds(r)
    BY <2>2, <2>3 DEF Finds, At
  <2>6. K \subseteq Member /\ \A x \in K : Exists(Visible(r)[<<i, x>>])
    BY DEF StakesOf
  <2>7. QED
    BY <2>1, <2>2, <2>4, <2>5, <2>6, ClearingChanges
<1>3. QED
  BY <1>1, <1>2

-------------------------------------------------------------------------------
(* Every step keeps the invariant.                                           *)

LEMMA StepsAre ==
    ASSUME IInv, NEW r \in Request, Begin(r) \/ Run(r) \/ Abort(r)
    PROVE  Kinds(r)
<1>1. CASE Begin(r)
  BY <1>1, BeginPasses DEF Kinds
<1>2. CASE Abort(r)
  BY <1>2 DEF Abort, Kinds
<1>3. CASE Run(r)
  <2>1. CASE \/ insertWorkspace(r) \/ insertItem(r) \/ insertPayment(r) \/ insertTag(r)
             \/ insertItemTag(r) \/ insertExtracted(r) \/ copyTags(r) \/ upsertStakes(r)
    BY <2>1, insertWorkspaceChanges, insertItemChanges, insertPaymentChanges, insertTagChanges,
       insertItemTagChanges, insertExtractedChanges, copyTagsChanges, upsertStakesChanges
       DEF Kinds
  <2>2. CASE \/ setWorkspace(r) \/ setWorkspaceRule(r) \/ setItem(r) \/ setTag(r) \/ setRule(r)
             \/ setPayment(r) \/ titlePayments(r) \/ movePayments(r) \/ moveListed(r)
             \/ clearRule(r)
    BY <2>2, SettingChanges, setPaymentChanges, titlePaymentsChanges, MergedPaymentsChange,
       ListedPaymentsChange, clearRuleGoesOn DEF Kinds
  <2>3. CASE \/ dropWorkspace(r) \/ dropItem(r) \/ dropPayment(r) \/ dropTag(r)
             \/ deleteItemTag(r) \/ deleteMerging(r) \/ clearTags(r) \/ deleteStakes(r)
    BY <2>3, DroppingDeletes, DroppingClears DEF Kinds
  <2>4. CASE \/ findItem(r) \/ checkPayer(r) \/ readTag(r) \/ checkNotAssigned(r)
             \/ checkAssigned(r) \/ readHost(r) \/ validatePayments(r) \/ readTags(r)
             \/ validateStakes(r) \/ readStakes(r)
    BY <2>4, LookingPasses DEF Kinds
  <2>5. CASE commit(r)
    BY <2>5 DEF Kinds
  <2>6. QED
    BY <1>3, <2>1, <2>2, <2>3, <2>4, <2>5 DEF Run
<1>4. QED
  BY <1>1, <1>2, <1>3

LEMMA StepsTouch ==
    ASSUME NEW r \in Request, Kinds(r)
    PROVE  \/ UNCHANGED tables
           \/ \E rows : Writes(r, rows)
           \/ CommitTx(r)
           \/ RollbackTx(r)
BY DEF Kinds, Passes, Throw, commit, Changes, KeepsRows, DropsRows

\* The tables, and what every other request knows of them.
LEMMA RowsStayOK ==
    ASSUME IInv, NEW r \in Request, Kinds(r)
    PROVE  /\ RowsOK'
           /\ \A q \in Request \ {r} : \A k, w : Knows(q, k, w) => Knows(q, k, w)'
<1>1. CASE Passes(r)
  <2>1. db' = db /\ draft' = draft /\ holder' = holder
    BY <1>1 DEF Passes, tables
  <2>2. RowsOK
    BY DEF IInv, TypeOK, RowsOK
  <2>3. RowsOK'
    BY <2>1, <2>2 DEF RowsOK, FreeRowsAreCommitted, Versions, OneWorkspaceEach, ChildrenHeld,
       ParentsSeen
  <2>4. \A q \in Request : \A k, w : Knows(q, k, w) => Knows(q, k, w)'
    BY <2>1 DEF Knows
  <2>5. QED
    BY <2>3, <2>4
<1>2. CASE Throw(r)
  BY <1>2, RollsRowsBack DEF Throw
<1>3. CASE commit(r)
  BY <1>3, CommitsRows DEF commit
<1>4. CASE Changes(r)
  <2>1. PICK w : w = Base(r)'
    OBVIOUS
  <2>2. PICK rows : KeepsRows(r, rows, w) \/ DropsRows(r, rows, w)
    BY <1>4, <2>1 DEF Changes
  <2>3. QED
    BY <2>2, KeepsTheRows, DropsTheRows
<1>5. QED
  BY <1>1, <1>2, <1>3, <1>4 DEF Kinds

LEMMA RequestsAre ==
    ASSUME IInv, NEW r \in Request, Kinds(r)
    PROVE  /\ DOMAIN req' = Request /\ OthersWait(r)
           /\ Goes(r) \/ (req'[r] = Idle /\ (Throw(r) \/ commit(r)))
<1>1. DOMAIN req = Request
  BY Statement
<1>2. CASE Goes(r)
  BY <1>2 DEF Goes
<1>3. CASE Throw(r) \/ commit(r)
  BY <1>1, <1>3 DEF Throw, commit, OthersWait
<1>4. QED
  BY <1>2, <1>3 DEF Kinds, Passes, Changes

LEMMA IdleIsOK ==
    ASSUME NEW r \in Request, req'[r] = Idle
    PROVE  Known(r)' /\ Placed(r)' /\ req'[r].op \in Op
<1>1. req'[r].op = "none" /\ req'[r].pc = 1 /\ DOMAIN req'[r] = DOMAIN Idle
  BY DEF Idle
<1>2. Script["none"] = <<"idle">> /\ "none" \in Op
  BY DEF Script, Op
<1>3. Known(r)'
  BY <1>1 DEF Known, Arguments, OfWorkspace, OfItem, OfPayment, OfTag
<1>4. 1 \in 1..Len(Script["none"]) /\ Script["none"][1] = "idle"
  BY <1>2
<1>5. ~At(r, "copyTags")'
  BY <1>1, <1>4 DEF At, Current
<1>6. Placed(r)'
  BY <1>1, <1>4, <1>5 DEF Placed, OfPayment
<1>7. QED
  BY <1>1, <1>2, <1>3, <1>6

LEMMA RequestsStayOK ==
    ASSUME IInv, NEW r \in Request, Kinds(r)
    PROVE  /\ RequestsOK'
           /\ \A q \in Request : req'[q].op \in Op
           /\ \A q \in Request \ {r} : Base(q)' = Base(q)
<1>1. ASSUME NEW q \in Request \ {r}
      PROVE  Known(q)' /\ Placed(q)' /\ req'[q].op \in Op /\ Base(q)' = Base(q)
  <2>1. req'[q] = req[q]
    BY RequestsAre DEF OthersWait
  <2>2. \A k, w : Knows(q, k, w) => Knows(q, k, w)'
    BY RowsStayOK
  <2>3. Known(q)' /\ Placed(q)' /\ Base(q)' = Base(q)
    BY <2>1, <2>2, StepsTouch, OthersStay
  <2>4. QED
    BY <2>1, <2>3, Statement
<1>2. Known(r)' /\ Placed(r)' /\ req'[r].op \in Op
  BY RequestsAre, IdleIsOK DEF Goes
<1>3. QED
  BY <1>1, <1>2 DEF RequestsOK

LEMMA HeldStaysOK ==
    ASSUME IInv, NEW r \in Request, Kinds(r)
    PROVE  HeldOK'
<1> SUFFICES ASSUME NEW q \in Request, NEW k \in Key, holder'[k] = q
             PROVE  /\ req'[q].op # "none" /\ ~At(q, "insertWorkspace")'
                    /\ Knows(q, Owner(k), Base(q))'
  BY DEF HeldOK
<1>0. holder[k] = q => /\ req[q].op # "none" /\ ~At(q, "insertWorkspace")
                       /\ Knows(q, Owner(k), Base(q))
  BY DEF IInv, HeldOK
<1>1. CASE q # r
  <2>1. holder[k] = q
    <3>1. CASE UNCHANGED tables
      BY <3>1 DEF tables
    <3>2. ASSUME NEW rows, Writes(r, rows)
          PROVE  holder[k] = q
      BY <1>1, <3>2, WrittenRow
    <3>3. CASE CommitTx(r)
      BY <1>1, <3>3, CommitRow, NoRequestIsNoRequest
    <3>4. CASE RollbackTx(r)
      BY <1>1, <3>4, RollbackRow, NoRequestIsNoRequest
    <3>5. QED
      BY <3>1, <3>2, <3>3, <3>4, StepsTouch
  <2>2. req'[q] = req[q] /\ Base(q)' = Base(q)
    BY <1>1, RequestsAre, RequestsStayOK DEF OthersWait
  <2>3. Knows(q, Owner(k), Base(q))'
    BY <1>0, <1>1, <2>1, <2>2, RowsStayOK
  <2>4. QED
    BY <1>0, <2>1, <2>2, <2>3 DEF At, Current
<1>2. CASE q = r
  <2>1. CASE Passes(r)
    <3>1. holder[k] = r
      BY <1>2, <2>1 DEF Passes, tables
    <3>2. Base(r)' = Base(r) /\ req'[r].op # "none" /\ ~At(r, "insertWorkspace")'
      BY <1>0, <1>2, <2>1, <3>1 DEF Passes, Goes
    <3>3. Knows(r, Owner(k), Base(r))'
      BY <1>0, <1>2, <2>1, <3>1, <3>2 DEF Passes, tables, Knows
    <3>4. QED
      BY <1>2, <3>2, <3>3
  <2>2. CASE Throw(r) \/ commit(r)
    BY <1>2, <2>2, CommitRow, RollbackRow, NoRequestIsNoRequest DEF Throw, commit
  <2>3. CASE Changes(r)
    <3>1. PICK w : w = Base(r)'
      OBVIOUS
    <3>2. PICK rows : KeepsRows(r, rows, w) \/ DropsRows(r, rows, w)
      BY <2>3, <3>1 DEF Changes
    <3>3. /\ \A e, v : Knows(r, e, v) => Knows(r, e, v)'
          /\ \A e \in DOMAIN rows : Knows(r, Owner(e), w)'
      BY <3>2, KeepsTheRows, DropsTheRows
    <3>4. /\ req'[r].op # "none" /\ ~At(r, "insertWorkspace")'
          /\ At(r, "insertWorkspace") \/ Base(r)' = Base(r)
      BY <2>3 DEF Changes, Goes
    <3>5. CASE k \in DOMAIN rows
      BY <1>2, <3>1, <3>3, <3>4, <3>5
    <3>6. CASE k \notin DOMAIN rows
      <4>1. holder[k] = r
        BY <1>2, <3>2, <3>6, WrittenRow DEF KeepsRows, DropsRows
      <4>2. Knows(r, Owner(k), w)'
        BY <1>0, <1>2, <3>1, <3>3, <3>4, <4>1
      <4>3. QED
        BY <1>2, <3>1, <3>4, <4>2
    <3>7. QED
      BY <3>5, <3>6
  <2>4. QED
    BY <2>1, <2>2, <2>3 DEF Kinds
<1>3. QED
  BY <1>1, <1>2

-------------------------------------------------------------------------------
(* The audit log.                                                            *)

LEMMA CommitsCome ==
    ASSUME IInv, NEW r \in Request, commit(r)
    PROVE  /\ req[r].op \in Op \ {"none"} /\ req[r].pc > 1
           /\ Known(r) /\ Placed(r)
<1>1. Script[req[r].op][req[r].pc] = "commit"
  BY DEF commit, At, Current
<1>2. /\ req[r].op \in Op /\ req[r].pc \in 1..Len(Script[req[r].op]) /\ req[r].pc \in Nat
      /\ Known(r) /\ Placed(r)
  BY Statement
<1>3. \A op \in Op : Script[op][1] # "commit"
  BY OpsAre DEF Script, OfWorkspace, OfItem, OfPayment, OfTag
<1>4. req[r].op # "none"
  BY <1>1, <1>2, StatementsAre
<1>5. req[r].pc # 1
  BY <1>1, <1>2, <1>3
<1>6. QED
  BY <1>2, <1>4, <1>5

\* A request is entered in the log of the workspace it works in.
LEMMA LogIsBase ==
    ASSUME IInv, NEW r \in Request, commit(r)
    PROVE  LogOf(r) = Base(r) /\ Base(r) \in Workspace
<1>1. /\ req[r].op \in Op \ {"none"} /\ req[r].pc > 1
      /\ Known(r) /\ Placed(r)
  BY CommitsCome
<1>2. Base(r) \in Workspace
  BY <1>1, BasesAre
<1>3. CASE req[r].op \in OfPayment
  <2>1. req[r].got = Base(r)
    BY <1>1, <1>3 DEF Placed
  <2>2. QED
    BY <1>2, <1>3, <2>1 DEF LogOf, OfPayment
<1>4. CASE req[r].op \notin OfPayment
  <2>1. req[r].of \in PaymentId => req[r].op = "createWorkspace"
    <3>1. req[r].op \in OfWorkspace \cup OfItem \cup OfTag \cup {"createWorkspace"}
      BY <1>1, <1>4, OpsAre
    <3>2. req[r].op \in OfWorkspace \cup OfItem \cup OfTag =>
            req[r].of \in Workspace \cup ItemId \cup TagId
      BY <1>1 DEF Known
    <3>3. QED
      BY <3>1, <3>2, EntitiesHaveKeys, KeysOfTables DEF Entity
  <2>2. QED
    BY <1>2, <1>4, <2>1 DEF LogOf, Base, Seen, OfPayment
<1>5. QED
  BY <1>2, <1>3, <1>4

LEMMA EntriesSayWhere ==
    ASSUME IInv, NEW r \in Request, commit(r), Exists(Visible(r)[LogOf(r)])
    PROVE  EntryOf(r).workspace = LogOf(r)
<1> DEFINE op == req[r].op
<1>1. op \in Op \ {"none"} /\ req[r].pc > 1 /\ Known(r) /\ Placed(r)
  BY CommitsCome
<1>2. op # "deleteWorkspace"
  <2>1. ASSUME op = "deleteWorkspace"
        PROVE  FALSE
    <3>1. req[r].of \in Workspace /\ holder[req[r].of] = r /\ draft[req[r].of] = Gone
      BY <1>1, <2>1 DEF Known, Placed, OfWorkspace
    <3>2. Visible(r)[req[r].of] = Gone
      BY <3>1, EntitiesHaveKeys, ReadsRow DEF Entity
    <3>3. LogOf(r) = req[r].of
      BY <2>1, <3>1 DEF LogOf
    <3>4. QED
      BY <3>2, <3>3 DEF Exists
  <2>2. QED
    BY <2>1
<1>3. op \in {"createWorkspace", "updateWorkspace", "updateWorkspaceStakeRule", "createItem",
              "updateItem", "deleteItem", "createPayment", "updatePayment", "deletePayment",
              "createTag", "updateTag", "deleteTag", "assignTag", "unassignTag", "mergeItems",
              "extractAsItem", "setItemStakes", "setItemStakeRule"}
  BY <1>1, <1>2, OpsAre DEF OfWorkspace, OfItem, OfPayment, OfTag
<1>4. \A action, w, old, new : W!Entry(action, w, old, new).workspace = w
  BY DEF W!Entry
<1>5. CASE op \in {"createWorkspace", "updateWorkspace", "updateWorkspaceStakeRule"}
  BY <1>4, <1>5 DEF EntryOf, W!WorkspaceCreated, W!WorkspaceUpdated
<1>6. CASE op \in {"createItem", "updateItem", "deleteItem"}
  BY <1>4, <1>6 DEF EntryOf, W!ItemCreated, W!ItemUpdated, W!ItemDeleted
<1>7. CASE op \in {"createPayment", "updatePayment", "deletePayment"}
  BY <1>4, <1>7 DEF EntryOf, W!PaymentCreated, W!PaymentUpdated, W!PaymentDeleted
<1>8. CASE op \in {"createTag", "updateTag", "deleteTag"}
  BY <1>4, <1>8 DEF EntryOf, W!TagCreated, W!TagUpdated, W!TagDeleted
<1>9. CASE op \in {"assignTag", "unassignTag", "mergeItems", "extractAsItem"}
  BY <1>4, <1>9 DEF EntryOf, W!ItemTagAssigned, W!ItemTagUnassigned, W!ItemMerged, W!ItemExtracted
<1>10. CASE op \in {"setItemStakes", "setItemStakeRule"}
  BY <1>4, <1>10 DEF EntryOf, W!ItemStakesChanged
<1>11. QED
  BY <1>3, <1>5, <1>6, <1>7, <1>8, <1>9, <1>10

LEMMA LogsStayOK ==
    ASSUME IInv, NEW r \in Request, Kinds(r), NEW w \in Workspace
    PROVE  history'[w] = Null \/ history'[w].workspace = w
<1>1. history[w] = Null \/ history[w].workspace = w
  BY DEF IInv, TypeOK
<1>2. CASE commit(r)
  <2>1. history'[w] = IF ~Exists(Visible(r)[w]) THEN Null
                      ELSE IF w = LogOf(r) THEN EntryOf(r) ELSE history[w]
    BY <1>2 DEF commit
  <2>2. w = LogOf(r) /\ Exists(Visible(r)[w]) => EntryOf(r).workspace = w
    BY <1>2, EntriesSayWhere
  <2>3. QED
    BY <1>1, <2>1, <2>2
<1>3. CASE ~commit(r)
  BY <1>1, <1>3 DEF Kinds, Passes, Changes, Goes, Throw, SameLog
<1>4. QED
  BY <1>2, <1>3

LEMMA BeginIsStart ==
    ASSUME NEW r \in Request, Begin(r)
    PROVE  \E op, of, with, arg :
                /\ Start(r, op, of, with, arg)
                /\ op = "setItemStakes" => of \in Key
<1>1. CASE setItemStakes(r)
  <2>1. PICK i \in There(ItemId), list \in StakeLists :
            Start(r, "setItemStakes", i, Null, list)
    BY <1>1 DEF setItemStakes
  <2>2. i \in Key
    BY EntitiesHaveKeys DEF There, Entity
  <2>3. QED
    BY <2>1, <2>2
<1>2. CASE \/ createWorkspace(r) \/ updateWorkspace(r) \/ updateWorkspaceStakeRule(r)
           \/ deleteWorkspace(r) \/ createItem(r) \/ updateItem(r) \/ deleteItem(r)
           \/ createPayment(r) \/ updatePayment(r) \/ deletePayment(r)
  BY <1>2 DEF createWorkspace, updateWorkspace, updateWorkspaceStakeRule, deleteWorkspace,
     createItem, updateItem, deleteItem, createPayment, updatePayment, deletePayment
<1>3. CASE \/ createTag(r) \/ updateTag(r) \/ deleteTag(r) \/ assignTag(r) \/ unassignTag(r)
           \/ mergeItems(r) \/ setItemStakeRule(r)
  BY <1>3 DEF createTag, updateTag, deleteTag, assignTag, unassignTag, mergeItems,
     setItemStakeRule, TwoOfOneWorkspace
<1>4. CASE extractAsItem(r)
  <2>1. PICK i, list, x : Start(r, "extractAsItem", i, Null, [payments |-> list, title |-> x])
    BY <1>4 DEF extractAsItem
  <2>2. QED
    BY <2>1
<1>5. QED
  BY <1>1, <1>2, <1>3, <1>4 DEF Begin

\* Only the start of a request tells that requests overlap, and none changes a seat.
LEMMA OverlapIsNoticedAtStart ==
    ASSUME NEW r \in Request, Run(r) \/ Abort(r)
    PROVE  overlapped' = overlapped /\ seat' = seat
<1>1. Throw(r) => overlapped' = overlapped /\ seat' = seat
  BY DEF Throw, SameLog
<1>2. ASSUME NEW statement, NEW ok, NEW what, Read(r, statement, ok, what)
      PROVE  overlapped' = overlapped /\ seat' = seat
  BY <1>1, <1>2 DEF Read, SameLog
<1>3. ASSUME NEW statement, NEW ok, NEW rows, Execute(r, statement, ok, rows)
      PROVE  overlapped' = overlapped /\ seat' = seat
  BY <1>1, <1>3 DEF Execute, SameLog
<1>4. ASSUME NEW statement, NEW Ids, NEW row, Insert(r, statement, Ids, row)
      PROVE  overlapped' = overlapped /\ seat' = seat
  BY <1>1, <1>4 DEF Insert, SameLog
<1>5. CASE \/ insertWorkspace(r) \/ insertItem(r) \/ insertPayment(r) \/ insertTag(r)
           \/ insertExtracted(r)
  BY <1>4, <1>5 DEF insertWorkspace, insertItem, insertPayment, insertTag, insertExtracted
<1>6. CASE \/ findItem(r) \/ checkPayer(r) \/ readTag(r) \/ checkNotAssigned(r)
           \/ checkAssigned(r) \/ readHost(r) \/ validatePayments(r) \/ readTags(r)
           \/ validateStakes(r) \/ readStakes(r)
  BY <1>2, <1>6 DEF findItem, checkPayer, readTag, checkNotAssigned, checkAssigned, readHost,
     validatePayments, readTags, validateStakes, readStakes
<1>7. CASE \/ setWorkspace(r) \/ setWorkspaceRule(r) \/ setItem(r) \/ setTag(r) \/ setRule(r)
           \/ setPayment(r) \/ titlePayments(r) \/ movePayments(r) \/ moveListed(r)
           \/ insertItemTag(r) \/ copyTags(r) \/ upsertStakes(r) \/ clearTags(r) \/ deleteStakes(r)
  BY <1>3, <1>7 DEF setWorkspace, setWorkspaceRule, setItem, setTag, setRule, SetColumn,
     setPayment, titlePayments, movePayments, moveListed, MoveTo, insertItemTag, copyTags,
     upsertStakes, clearTags, deleteStakes
<1>8. CASE \/ dropWorkspace(r) \/ dropItem(r) \/ dropPayment(r) \/ dropTag(r)
           \/ deleteItemTag(r) \/ deleteMerging(r)
  BY <1>3, <1>8 DEF dropWorkspace, dropItem, dropPayment, dropTag, deleteItemTag, deleteMerging,
     Delete
<1>9. CASE clearRule(r)
  BY <1>3, <1>9 DEF clearRule, SameLog
<1>10. CASE commit(r) \/ Abort(r)
  BY <1>1, <1>10 DEF commit, Abort
<1>11. QED
  BY <1>5, <1>6, <1>7, <1>8, <1>9, <1>10 DEF Run

LEMMA SeatsStay ==
    ASSUME NEW r \in Request, Begin(r) \/ Run(r) \/ Abort(r)
    PROVE  seat' = seat
<1>1. CASE Begin(r)
  BY <1>1, BeginIsStart DEF Start
<1>2. QED
  BY <1>1, OverlapIsNoticedAtStart

-------------------------------------------------------------------------------
(* The invariant.                                                            *)

LEMMA PcsAre ==
    ASSUME NEW op \in Op
    PROVE  DOMAIN Script[op] = 1..Len(Script[op])
BY OpsAre DEF Script, OfWorkspace, OfItem, OfPayment, OfTag

LEMMA InitialIInv == Init => IInv
<1> SUFFICES ASSUME Init PROVE IInv
  OBVIOUS
<1>1. /\ db = Populated /\ draft = db /\ DOMAIN db = Key
      /\ holder = [k \in Key |-> NoRequest]
      /\ DOMAIN req = Request /\ \A r \in Request : req[r] = Idle
      /\ seat \in [Member -> {"coming", "active", "removed"}]
      /\ \A w \in Workspace : history[w] = Null
  BY MembersHaveWorkspaces DEF Init, Populated
<1>2. Typed(db) /\ OneWorkspace(db)
  BY <1>1, PopulationGoesTogether
<1>3. Idle.op = "none" /\ Idle.pc = 1
  BY DEF Idle
<1>4. Script["none"] = <<"idle">> /\ "none" \in Op
  BY DEF Script, Op
<1>5. TypeOK
  BY <1>1, <1>2, <1>3, <1>4 DEF TypeOK
<1>6. FreeRowsAreCommitted /\ Versions
  BY <1>1 DEF FreeRowsAreCommitted, Versions
<1>7. OneWorkspaceEach /\ OneWorkspace(draft)
  BY <1>1, <1>2 DEF OneWorkspaceEach
<1>8. ChildrenHeld
  BY <1>1, EntitiesHaveKeys DEF ChildrenHeld
<1>9. ParentsSeen
  BY <1>1, <1>2 DEF ParentsSeen, OneWorkspace
<1>10. RequestsOK
  <2>1. ASSUME NEW r \in Request
        PROVE  Known(r) /\ Placed(r)
    <3>1. req[r] = Idle
      BY <1>1
    <3>2. Known(r)
      BY <1>3, <3>1 DEF Known, Arguments, OfWorkspace, OfItem, OfPayment, OfTag
    <3>3. Len(<<"idle">>) = 1 /\ <<"idle">>[1] = "idle"
      OBVIOUS
    <3>4. ~At(r, "copyTags") /\ 1 \in 1..Len(Script["none"])
      BY <1>3, <1>4, <3>1, <3>3 DEF At, Current
    <3>5. req[r].op = "none" /\ req[r].pc = 1
      BY <1>3, <3>1
    <3>6. Placed(r)
      BY <3>4, <3>5 DEF Placed, OfPayment
    <3>7. QED
      BY <3>2, <3>6
  <2>2. QED
    BY <2>1 DEF RequestsOK
<1>11. HeldOK
  BY <1>1, NoRequestIsNoRequest DEF HeldOK
<1>12. QED
  BY <1>5, <1>6, <1>7, <1>8, <1>9, <1>10, <1>11 DEF IInv

\* Tables and requests that stay as they are, whoever has a seat.
LEMMA StandingStill ==
    ASSUME IInv, UNCHANGED <<db, draft, holder, req, history>>,
           seat' \in [Member -> {"coming", "active", "removed"}]
    PROVE  IInv'
<1>1. \A q, k, w : Knows(q, k, w)' <=> Knows(q, k, w)
  BY DEF Knows
<1>2. /\ TypeOK' /\ FreeRowsAreCommitted' /\ Versions' /\ OneWorkspaceEach'
      /\ OneWorkspace(draft)' /\ ChildrenHeld' /\ ParentsSeen'
  BY DEF IInv, TypeOK, FreeRowsAreCommitted, Versions, OneWorkspaceEach, ChildrenHeld,
     ParentsSeen
<1>3. ASSUME NEW q \in Request
      PROVE  Known(q)' /\ Placed(q)' /\ Base(q)' = Base(q)
  <2>1. Base(q)' = Base(q) /\ DOMAIN req'[q] = DOMAIN Idle
    BY Statement DEF Base
  <2>2. Known(q)'
    BY <1>1, <2>1, Statement, KnownStays
  <2>3. At(q, "copyTags")' <=> At(q, "copyTags")
    BY DEF At, Current
  <2>4. Placed(q)'
    BY <1>1, <2>1, <2>3, Statement DEF Placed
  <2>5. QED
    BY <2>1, <2>2, <2>4
<1>4. HeldOK'
  BY <1>1, <1>3 DEF IInv, HeldOK, At, Current
<1>5. QED
  BY <1>2, <1>3, <1>4 DEF IInv, RequestsOK

LEMMA NextKeepsIInv == IInv /\ [Next]_vars => IInv'
<1> SUFFICES ASSUME IInv, [Next]_vars PROVE IInv'
  OBVIOUS
<1>0. seat \in [Member -> {"coming", "active", "removed"}]
  BY DEF IInv, TypeOK
<1>1. CASE UNCHANGED vars
  BY <1>0, <1>1, StandingStill DEF vars
<1>2. ASSUME NEW r \in Request, Begin(r) \/ Run(r) \/ Abort(r)
      PROVE  IInv'
  <2>1. Kinds(r)
    BY <1>2, StepsAre
  <2>2. RowsOK'
    BY <2>1, RowsStayOK
  <2>3. RequestsOK' /\ \A q \in Request : req'[q].op \in Op
    BY <2>1, RequestsStayOK
  <2>4. HeldOK'
    BY <2>1, HeldStaysOK
  <2>5. \A q \in Request : req'[q].pc \in DOMAIN Script[req'[q].op]
    BY <2>3, PcsAre DEF RequestsOK, Placed
  <2>6. DOMAIN req' = Request
    BY <2>1, RequestsAre
  <2>7. \A w \in Workspace : history'[w] = Null \/ history'[w].workspace = w
    BY <2>1, LogsStayOK
  <2>8. seat' \in [Member -> {"coming", "active", "removed"}]
    BY <1>0, <1>2, SeatsStay
  <2>9. TypeOK'
    BY <2>2, <2>3, <2>5, <2>6, <2>7, <2>8 DEF RowsOK, TypeOK
  <2>10. QED
    BY <2>2, <2>3, <2>4, <2>9 DEF RowsOK, IInv
<1>3. ASSUME NEW m \in Member, SeatTaken(m) \/ SeatLost(m)
      PROVE  IInv'
  BY <1>0, <1>3, StandingStill DEF SeatTaken, SeatLost, SeatChanges
<1>4. QED
  BY <1>1, <1>2, <1>3 DEF Next

\* In every reachable state, requests in progress included: what a handler has
\* read or checked about workspaces stays true until it commits.
THEOREM InvariantHolds == Spec => []IInv
BY InitialIInv, NextKeepsIInv, PTL DEF Spec

\* Every row is a row of its own table, requests are at statements of their
\* scripts, and a workspace's log holds entries of that workspace.
THEOREM TypesAreCorrect == Spec => []TypeOK
<1>1. IInv => TypeOK
  BY DEF IInv
<1>2. QED
  BY <1>1, InvariantHolds, PTL

\* Whatever handlers move, merge, extract, assign and delete meanwhile: foreign
\* keys, payers, tags and stakes never leave the workspace of their item.
THEOREM RowsStayTogether == Spec => []OneWorkspaceEach
<1>1. IInv => OneWorkspaceEach
  BY DEF IInv
<1>2. QED
  BY <1>1, InvariantHolds, PTL

\* A committing request changes rows of the workspace whose log it is entered
\* in and of no other.
LEMMA CommitsTouchOneWorkspace ==
    ASSUME IInv, NEW r \in Request, commit(r), NEW k \in Key, db'[k] # db[k]
    PROVE  /\ Exists(db[k]) => HomeOf(db, k) = LogOf(r)
           /\ Exists(db'[k]) => HomeOf(db', k) = LogOf(r)
<1>1. db' = Visible(r) /\ holder[k] = r
  BY CommitRow DEF commit, CommitTx
<1>2. Knows(r, Owner(k), LogOf(r)) /\ Owner(k) \in Entity
  BY <1>1, LogIsBase DEF IInv, HeldOK, Knows
<1>3. ASSUME Exists(db[k])
      PROVE  HomeOf(db, k) = LogOf(r)
  <2>1. Typed(db) /\ OneWorkspace(db)
    BY DEF IInv, TypeOK, OneWorkspaceEach
  <2>2. Exists(db[Owner(k)]) /\ HomeOf(db, k) = RowHome(Owner(k), db[Owner(k)])
    BY <1>3, <2>1, HomesAgree
  <2>3. QED
    BY <1>2, <2>2 DEF Knows
<1>4. ASSUME Exists(Visible(r)[k])
      PROVE  HomeOf(Visible(r), k) = LogOf(r)
  <2>1. Typed(Visible(r)) /\ OneWorkspace(Visible(r))
    BY SeesTyped, SeesOneWorkspace
  <2>2. /\ Exists(Visible(r)[Owner(k)])
        /\ HomeOf(Visible(r), k) = RowHome(Owner(k), Visible(r)[Owner(k)])
    BY <1>4, <2>1, HomesAgree
  <2>3. QED
    BY <1>2, <2>2, SeeingIsKnowing
<1>5. QED
  BY <1>1, <1>3, <1>4

\* Statements that find rows by id never reach into another workspace than the
\* one the request was let into by its access rule: nothing it commits does.
THEOREM RequestsTouchOneWorkspace == Spec => TouchesOneWorkspace
<1>1. IInv /\ [Next]_vars =>
        [\A r \in Request : commit(r) =>
            \A k \in Key : db'[k] # db[k] =>
                /\ Exists(db[k]) => HomeOf(db, k) = LogOf(r)
                /\ Exists(db'[k]) => HomeOf(db', k) = LogOf(r)]_vars
  BY CommitsTouchOneWorkspace
<1>2. QED
  BY <1>1, InvariantHolds, PTL DEF Spec, TouchesOneWorkspace

-------------------------------------------------------------------------------
(* Requests that do not overlap: a stake rule and custom stakes.             *)

NotBoth(t, i) == Exists(t[i]) /\ t[i].stakeRule # Null => StakesOf(t, i) = {}

\* r is between the two writes of a change of item i's stakes.
Between(r, i) == req[r].of = i /\ (At(r, "clearRule") \/ At(r, "deleteStakes"))

AtMostOne == \A q, s \in Request : req[q].op # "none" /\ req[s].op # "none" => q = s

\* Also in versions not committed yet an item has both only half way through a
\* change of its stakes; and setItemStakes decides whether there is a rule to
\* clear by a row that nobody changes meanwhile.
Exclusive ==
    /\ AtMostOne
    /\ RuleOrStakes(db)
    /\ \A i \in ItemId : NotBoth(draft, i) \/ \E r \in Request : Between(r, i)
    /\ \A r \in Request : req[r].op = "setItemStakes" /\ req[r].pc < 5 =>
            draft[req[r].of] = req[r].seen[req[r].of]

SerialInv == overlapped \/ Exclusive

LEMMA RuleOrStakesIs ==
    ASSUME NEW t
    PROVE  RuleOrStakes(t) <=> \A i \in ItemId : NotBoth(t, i)
BY DEF RuleOrStakes, NotBoth

LEMMA SameRowsNotBoth ==
    ASSUME NEW t, NEW u, NEW i \in ItemId, u[i] = t[i],
           \A m \in Member : u[<<i, m>>] = t[<<i, m>>],
           NotBoth(t, i)
    PROVE  NotBoth(u, i)
BY DEF NotBoth, StakesOf

LEMMA SameTableNotBoth ==
    ASSUME NEW t, NEW u, \A k \in Key : u[k] = t[k], NEW i \in ItemId, NotBoth(t, i)
    PROVE  NotBoth(u, i)
<1>1. i \in Key /\ \A m \in Member : <<i, m>> \in Key
  BY EntitiesHaveKeys, PairsOf DEF Entity
<1>2. QED
  BY <1>1, SameRowsNotBoth

\* Whoever is between two writes is setting stakes.
LEMMA BetweenIs ==
    ASSUME IInv, NEW r \in Request, NEW i, Between(r, i)
    PROVE  req[r].op \in {"setItemStakes", "setItemStakeRule"}
BY Statement, StatementsAre DEF Between, At

LEMMA TheOthersAreIdle ==
    ASSUME IInv, AtMostOne, NEW r \in Request, req[r].op # "none"
    PROVE  /\ \A q \in Request \ {r} : req[q].op = "none"
           /\ \A k \in Key : Free(r, k) /\ Visible(r)[k] = draft[k]
<1>1. \A q \in Request \ {r} : req[q].op = "none"
  BY DEF AtMostOne
<1>2. ASSUME NEW k \in Key
      PROVE  Free(r, k)
  <2>1. holder[k] \in Request \cup {NoRequest}
    BY DEF IInv, TypeOK
  <2>2. holder[k] \in Request => req[holder[k]].op # "none"
    BY DEF IInv, HeldOK
  <2>3. QED
    BY <1>1, <2>1, <2>2 DEF Free
<1>3. QED
  BY <1>1, <1>2, SeesFree

\* Before a step of r only r can be between two writes.
LEMMA NotBothBefore ==
    ASSUME IInv, Exclusive, NEW r \in Request, req[r].op # "none", NEW i \in ItemId
    PROVE  NotBoth(draft, i) \/ Between(r, i)
<1>1. SUFFICES ASSUME NEW q \in Request, Between(q, i)
               PROVE  q = r
  BY DEF Exclusive
<1>2. req[q].op # "none"
  BY <1>1, BetweenIs
<1>3. QED
  BY <1>2 DEF Exclusive, AtMostOne

LEMMA NobodyStartsBetween ==
    ASSUME NEW r \in Request, OthersWait(r), AtMostOne, req[r].op # "none",
           DOMAIN req' = Request
    PROVE  AtMostOne'
BY DEF AtMostOne, OthersWait

\* An abandoned request leaves the committed rows.
LEMMA ThrowKeepsExclusive ==
    ASSUME IInv, Exclusive, NEW r \in Request, req[r].op # "none", Throw(r)
    PROVE  Exclusive'
<1>1. OthersWait(r) /\ DOMAIN req' = Request /\ req'[r] = Idle
  BY Statement DEF Throw, OthersWait
<1>2. \A q \in Request : req'[q].op = "none"
  BY <1>1, TheOthersAreIdle DEF Exclusive, OthersWait, Idle
<1>3. \A k \in Key : draft'[k] = db[k] /\ db'[k] = db[k]
  <2>1. ASSUME NEW k \in Key
        PROVE  draft'[k] = db[k] /\ db'[k] = db[k]
    <3>1. Free(r, k) /\ holder[k] \in Request \cup {NoRequest}
      BY TheOthersAreIdle DEF Exclusive, IInv, TypeOK
    <3>2. holder[k] # r => draft[k] = db[k]
      BY <3>1 DEF Free, IInv, FreeRowsAreCommitted
    <3>3. QED
      BY <3>2, RollbackRow DEF Throw
  <2>2. QED
    BY <2>1
<1>4. \A i \in ItemId : NotBoth(db, i)
  BY RuleOrStakesIs DEF Exclusive
<1>5. \A i \in ItemId : NotBoth(db', i) /\ NotBoth(draft', i)
  BY <1>3, <1>4, SameTableNotBoth
<1>6. RuleOrStakes(db')
  BY <1>5, RuleOrStakesIs
<1>7. AtMostOne'
  BY <1>2 DEF AtMostOne
<1>8. QED
  BY <1>2, <1>5, <1>6, <1>7 DEF Exclusive

LEMMA CommitKeepsExclusive ==
    ASSUME IInv, Exclusive, NEW r \in Request, commit(r)
    PROVE  Exclusive'
<1>1. OthersWait(r) /\ DOMAIN req' = Request /\ req'[r] = Idle /\ req[r].op # "none"
  BY Statement, CommitsCome DEF commit, OthersWait
<1>2. \A q \in Request : req'[q].op = "none"
  BY <1>1, TheOthersAreIdle DEF Exclusive, OthersWait, Idle
<1>3. \A k \in Key : draft'[k] = draft[k] /\ db'[k] = draft[k]
  <2>1. ASSUME NEW k \in Key
        PROVE  draft'[k] = draft[k] /\ db'[k] = draft[k]
    <3>1. Free(r, k)
      BY <1>1, TheOthersAreIdle DEF Exclusive
    <3>2. holder[k] # r => draft[k] = db[k]
      BY <3>1 DEF Free, IInv, FreeRowsAreCommitted
    <3>3. QED
      BY <3>2, CommitRow DEF commit
  <2>2. QED
    BY <2>1
<1>4. \A i \in ItemId : NotBoth(draft, i)
  <2>1. \A i : ~Between(r, i)
    BY DEF commit, Between, At
  <2>2. QED
    BY <1>1, <2>1, NotBothBefore
<1>5. \A i \in ItemId : NotBoth(db', i) /\ NotBoth(draft', i)
  BY <1>3, <1>4, SameTableNotBoth
<1>6. RuleOrStakes(db')
  BY <1>5, RuleOrStakesIs
<1>7. AtMostOne'
  BY <1>2 DEF AtMostOne
<1>8. QED
  BY <1>2, <1>5, <1>6, <1>7 DEF Exclusive

\* A step of r in a transaction, of which only what it does to rules and stakes matters.
LEMMA MovingKeepsExclusive ==
    ASSUME IInv, Exclusive, NEW r \in Request, req[r].op # "none", Moves(r),
           \A k \in Key : db'[k] = db[k],
           \A i \in ItemId : NotBoth(draft, i) \/ Between(r, i) =>
                NotBoth(draft', i) \/ Between(r, i)',
           req[r].op = "setItemStakes" /\ req[r].pc < 4 =>
                draft'[req[r].of] = draft[req[r].of]
    PROVE  Exclusive'
<1>1. \A q \in Request \ {r} : req[q].op = "none" /\ req'[q] = req[q]
  BY TheOthersAreIdle DEF Exclusive, Moves, OthersWait
<1>2. AtMostOne'
  BY NobodyStartsBetween DEF Exclusive, Moves
<1>3. RuleOrStakes(db')
  BY SameTableNotBoth, RuleOrStakesIs DEF Exclusive
<1>4. \A i \in ItemId : NotBoth(draft', i) \/ Between(r, i)'
  BY NotBothBefore
<1>5. ASSUME NEW q \in Request, req'[q].op = "setItemStakes", req'[q].pc < 5
      PROVE  draft'[req'[q].of] = req'[q].seen[req'[q].of]
  <2>1. q = r
    BY <1>1, <1>5
  <2>2. req[r].pc \in Nat
    BY Statement
  <2>3. req[r].op = "setItemStakes" /\ req[r].pc < 4
    BY <1>5, <2>1, <2>2 DEF Moves
  <2>4. draft[req[r].of] = req[r].seen[req[r].of]
    BY <2>2, <2>3 DEF Exclusive
  <2>5. QED
    BY <2>1, <2>3, <2>4 DEF Moves
<1>6. QED
  BY <1>2, <1>3, <1>4, <1>5 DEF Exclusive

\* Statements that neither give an item a rule nor a stake.
Tame(r, rows) ==
    /\ Current(r) \notin {"clearRule", "deleteStakes"} /\ req[r].op # "setItemStakes"
    /\ \A k \in DOMAIN rows : k \in ItemId /\ Exists(rows[k]) =>
            \/ draft[k] = Absent
            \/ Exists(draft[k]) /\ rows[k].stakeRule = draft[k].stakeRule
    /\ \A k \in DOMAIN rows : k \in ItemId \X Member => ~Exists(rows[k])

\* A row that was never there has no stakes.
LEMMA NewItemsHaveNoStakes ==
    ASSUME IInv, NEW i \in ItemId, draft[i] = Absent
    PROVE  StakesOf(draft, i) = {}
<1>1. OneWorkspace(draft)
  BY DEF IInv
<1>2. ASSUME NEW m \in Member, Exists(draft[<<i, m>>])
      PROVE  FALSE
  <2>1. <<i, m>> \in Key /\ <<i, m>> \in Pair /\ <<i, m>>[1] = i
    BY PairsOf
  <2>2. i \in Parents(<<i, m>>, draft[<<i, m>>])
    BY <2>1, KeysOfTables DEF Parents, Entity
  <2>3. Exists(draft[i])
    BY <1>1, <1>2, <2>1, <2>2 DEF OneWorkspace
  <2>4. QED
    BY <2>3 DEF Exists
<1>3. QED
  BY <1>2 DEF StakesOf

LEMMA TameKeepsExclusive ==
    ASSUME IInv, Exclusive, NEW r \in Request, req[r].op # "none", Moves(r),
           NEW rows, Put(r, rows), Tame(r, rows)
    PROVE  Exclusive'
<1>1. ASSUME NEW i \in ItemId, NotBoth(draft, i) \/ Between(r, i)
      PROVE  NotBoth(draft', i)
  <2>1. NotBoth(draft, i)
    BY <1>1 DEF Between, At, Tame
  <2>2. i \in Key /\ \A m \in Member : <<i, m>> \in Key /\ <<i, m>> \in ItemId \X Member
    BY EntitiesHaveKeys, PairsOf DEF Entity
  <2>3. \A m \in Member : Exists(draft'[<<i, m>>]) => Exists(draft[<<i, m>>])
    BY <2>2, PutRow DEF Tame
  <2>4. StakesOf(draft', i) \subseteq StakesOf(draft, i)
    BY <2>3 DEF StakesOf
  <2>5. Exists(draft'[i]) => \/ draft[i] = Absent
                             \/ Exists(draft[i]) /\ draft'[i].stakeRule = draft[i].stakeRule
    BY <2>2, PutRow DEF Tame
  <2>6. draft[i] = Absent => StakesOf(draft, i) = {}
    BY NewItemsHaveNoStakes
  <2>7. QED
    BY <2>1, <2>4, <2>5, <2>6 DEF NotBoth
<1>2. \A k \in Key : db'[k] = db[k]
  BY PutRow
<1>3. req[r].op # "setItemStakes"
  BY DEF Tame
<1>4. QED
  BY <1>1, <1>2, <1>3, MovingKeepsExclusive

\* A write of rows that are tame.
WritesTamely(r) ==
    /\ Moves(r) /\ req[r].op # "none"
    /\ \E rows : Put(r, rows) /\ Tame(r, rows)

LEMMA StatementOf ==
    ASSUME IInv, NEW r \in Request, NEW statement, At(r, statement)
    PROVE  Current(r) = statement /\ Script[req[r].op][req[r].pc] = statement
BY DEF At, Current

\* An INSERT of a row that is no stake.
LEMMA InsertingIsTame ==
    ASSUME IInv, NEW r \in Request, NEW statement, NEW Ids, NEW row,
           Insert(r, statement, Ids, row), Ids \subseteq Entity,
           req[r].op \notin {"none", "setItemStakes"},
           statement \notin {"clearRule", "deleteStakes"}
    PROVE  WritesTamely(r) \/ Throw(r)
<1>1. SUFFICES ASSUME NEW k \in Ids, Inserts(r, k, row)
               PROVE  WritesTamely(r)
  BY InsertDoes
<1>2. Moves(r)
  BY <1>1, InsertMoves
<1>3. Put(r, [x \in {k} |-> row]) /\ draft[k] = Absent
  BY <1>1 DEF Inserts, Executes
<1>4. k \in Entity /\ k \in Key /\ k \notin Pair
  BY EntitiesHaveKeys, KeysOfTables
<1>5. Current(r) = statement
  BY DEF Insert, At
<1>6. Tame(r, [x \in {k} |-> row])
  BY <1>3, <1>4, <1>5 DEF Tame, Pair
<1>7. QED
  BY <1>2, <1>3, <1>6 DEF WritesTamely

LEMMA InsertsAreTame ==
    ASSUME IInv, NEW r \in Request,
           \/ insertWorkspace(r) \/ insertItem(r) \/ insertPayment(r) \/ insertTag(r)
           \/ insertExtracted(r)
    PROVE  WritesTamely(r) \/ Throw(r)
<1>0. Workspace \subseteq Entity /\ ItemId \subseteq Entity /\ PaymentId \subseteq Entity
      /\ TagId \subseteq Entity
  BY DEF Entity
<1>1. \E statement \in {"insertWorkspace", "insertItem", "insertPayment", "insertTag",
                        "insertExtracted"} : At(r, statement)
  BY DEF insertWorkspace, insertItem, insertPayment, insertTag, insertExtracted, Insert
<1>2. req[r].op \notin {"none", "setItemStakes"}
  BY <1>1, StatementOf, Statement, StatementsAre
<1>3. CASE insertWorkspace(r)
  BY <1>0, <1>2, <1>3, InsertingIsTame DEF insertWorkspace
<1>4. CASE insertItem(r)
  BY <1>0, <1>2, <1>4, InsertingIsTame DEF insertItem
<1>5. CASE insertPayment(r)
  BY <1>0, <1>2, <1>5, InsertingIsTame DEF insertPayment
<1>6. CASE insertTag(r)
  BY <1>0, <1>2, <1>6, InsertingIsTame DEF insertTag
<1>7. CASE insertExtracted(r)
  BY <1>0, <1>2, <1>7, InsertingIsTame DEF insertExtracted
<1>8. QED
  BY <1>3, <1>4, <1>5, <1>6, <1>7

\* A statement that writes rows of which none is an item with a rule or a stake.
LEMMA ExecutingIsTame ==
    ASSUME IInv, NEW r \in Request, NEW statement, NEW ok, NEW rows,
           Execute(r, statement, ok, rows),
           req[r].op \notin {"none", "setItemStakes"},
           statement \notin {"clearRule", "deleteStakes"},
           \A k \in DOMAIN rows : k \in ItemId /\ Exists(rows[k]) =>
                Exists(draft[k]) /\ rows[k].stakeRule = draft[k].stakeRule,
           \A k \in DOMAIN rows : k \in ItemId \X Member => ~Exists(rows[k])
    PROVE  WritesTamely(r) \/ Throw(r)
<1>1. CASE Throw(r)
  BY <1>1
<1>2. CASE Put(r, rows) /\ Advance(r)
  <2>1. Moves(r)
    BY <1>2, AdvanceMoves
  <2>2. Tame(r, rows)
    BY DEF Tame, Execute, At
  <2>3. QED
    BY <1>2, <2>1, <2>2 DEF WritesTamely
<1>3. QED
  BY <1>1, <1>2 DEF Execute

\* Deletions, with whatever they cascade over.
LEMMA DeletingIsTame ==
    ASSUME IInv, NEW r \in Request, NEW statement, NEW k, Delete(r, statement, k),
           req[r].op \notin {"none", "setItemStakes"},
           statement \notin {"clearRule", "deleteStakes"}
    PROVE  WritesTamely(r) \/ Throw(r)
<1>1. \A c : ~Exists(Deleted(c))
  BY DEF Deleted, Exists
<1>2. QED
  BY <1>1, ExecutingIsTame DEF Delete

LEMMA DeletesAreTame ==
    ASSUME IInv, NEW r \in Request,
           \/ dropWorkspace(r) \/ dropItem(r) \/ dropPayment(r) \/ dropTag(r)
           \/ deleteItemTag(r) \/ deleteMerging(r) \/ clearTags(r)
    PROVE  WritesTamely(r) \/ Throw(r)
<1>1. \E statement \in {"dropWorkspace", "dropItem", "dropPayment", "dropTag",
                        "deleteItemTag", "deleteMerging", "clearTags"} : At(r, statement)
  BY DEF dropWorkspace, dropItem, dropPayment, dropTag, deleteItemTag, deleteMerging, clearTags,
     Delete, Execute
<1>2. req[r].op \notin {"none", "setItemStakes"}
  BY <1>1, StatementOf, Statement, StatementsAre
<1>3. CASE clearTags(r)
  <2> DEFINE rows == [k \in {<<req[r].with, x>> : x \in TagsOf(Visible(r), req[r].with)} |-> Absent]
  <2>1. Execute(r, "clearTags", TRUE, rows)
    BY <1>3 DEF clearTags
  <2>2. \A k \in DOMAIN rows : ~Exists(rows[k])
    BY DEF Exists
  <2> HIDE DEF rows
  <2>3. QED
    BY <1>2, <2>1, <2>2, ExecutingIsTame
<1>4. CASE \/ dropWorkspace(r) \/ dropItem(r) \/ dropPayment(r) \/ dropTag(r)
           \/ deleteItemTag(r) \/ deleteMerging(r)
  <2>1. \E statement, k : /\ Delete(r, statement, k)
                          /\ statement \notin {"clearRule", "deleteStakes"}
    BY <1>4 DEF dropWorkspace, dropItem, dropPayment, dropTag, deleteItemTag, deleteMerging
  <2>2. QED
    BY <1>2, <2>1, DeletingIsTame
<1>5. QED
  BY <1>3, <1>4

\* An UPDATE of another column than the rule of an item.
LEMMA ColumnsAreTame ==
    ASSUME IInv, Exclusive, NEW r \in Request,
           \/ setWorkspace(r) \/ setWorkspaceRule(r) \/ setItem(r) \/ setTag(r)
    PROVE  WritesTamely(r) \/ Throw(r)
<1>1. PICK statement \in {"setWorkspace", "setWorkspaceRule", "setItem", "setTag"},
           column \in {"title", "stakeRule"} :
           /\ SetColumn(r, statement, column)
           /\ statement = "setItem" => column = "title"
  BY DEF setWorkspace, setWorkspaceRule, setItem, setTag
<1>2. At(r, statement)
  BY <1>1 DEF SetColumn, Execute
<1>3. /\ req[r].op \notin {"none", "setItemStakes"}
      /\ statement = "setItem" \/ req[r].op \in OfWorkspace \cup OfTag
  BY <1>2, StatementOf, Statement, StatementsAre DEF OfWorkspace, OfTag
<1>4. \/ statement = "setItem"
      \/ req[r].of \in Workspace \cup TagId
  BY <1>3, Statement DEF Known
<1>5. req[r].op \notin {"none", "setItemStakes"} /\ req[r].of \in Workspace \cup ItemId \cup TagId
  <2>1. statement = "setItem" => req[r].op = "updateItem"
    BY <1>2, StatementOf, Statement, StatementsAre
  <2>2. QED
    BY <1>3, <1>4, <2>1, Statement DEF Known, OfItem
<1> DEFINE k == req[r].of
           rows == [x \in Found(r, {k}) |-> [Visible(r)[x] EXCEPT ![column] = req[r].arg]]
<1>6. k \in Key /\ k \in Entity
  BY <1>5, EntitiesHaveKeys DEF Entity
<1>7. k \notin Pair /\ (statement # "setItem" => k \notin ItemId)
  BY <1>4, <1>6, KeysOfTables
<1>8. \A x \in DOMAIN rows : x = k /\ Exists(Visible(r)[k])
  BY DEF Found
<1>9. Visible(r)[k] = draft[k]
  BY <1>5, <1>6, TheOthersAreIdle DEF Exclusive
<1>10. ASSUME NEW x \in DOMAIN rows, x \in ItemId, Exists(rows[x])
       PROVE  Exists(draft[x]) /\ rows[x].stakeRule = draft[x].stakeRule
  <2>1. x = k /\ column = "title" /\ Exists(draft[k])
    BY <1>1, <1>7, <1>8, <1>9, <1>10
  <2>2. draft[k] \in ItemRow
    BY <1>10, <2>1 DEF IInv, TypeOK, Typed
  <2>3. rows[x] = [draft[k] EXCEPT !["title"] = req[r].arg]
    BY <1>9, <2>1
  <2>4. QED
    BY <2>1, <2>2, <2>3 DEF ItemRow
<1>11. \A x \in DOMAIN rows : x \notin ItemId \X Member
  BY <1>7, <1>8 DEF Pair
<1>12. Execute(r, statement, DOMAIN rows # {}, rows)
  BY <1>1 DEF SetColumn
<1>13. QED
  BY <1>5, <1>10, <1>11, <1>12, ExecutingIsTame

\* Rows of other tables.
LEMMA OtherTablesAreTame ==
    ASSUME IInv, NEW r \in Request, NEW statement, NEW ok, NEW rows,
           Execute(r, statement, ok, rows),
           req[r].op \notin {"none", "setItemStakes"},
           statement \notin {"clearRule", "deleteStakes"},
           \A k \in DOMAIN rows : k \in PaymentId \cup (ItemId \X TagId)
    PROVE  WritesTamely(r) \/ Throw(r)
<1>1. \A k \in DOMAIN rows : k \notin ItemId /\ k \notin ItemId \X Member
  BY EntitiesHaveKeys, KeysOfTables DEF Entity, Pair
<1>2. QED
  BY <1>1, ExecutingIsTame

\* Statements about payments and tags write no other rows.
LEMMA PaymentsAndTagsExecute ==
    ASSUME IInv, NEW r \in Request,
           \/ setPayment(r) \/ titlePayments(r) \/ movePayments(r) \/ moveListed(r)
           \/ insertItemTag(r) \/ copyTags(r)
    PROVE  /\ req[r].op \notin {"none", "setItemStakes"}
           /\ \E statement, ok, rows :
                /\ Execute(r, statement, ok, rows)
                /\ statement \notin {"clearRule", "deleteStakes"}
                /\ \A k \in DOMAIN rows : k \in PaymentId \cup (ItemId \X TagId)
<1>1. \E statement \in {"setPayment", "titlePayments", "movePayments", "moveListed",
                        "insertItemTag", "copyTags"} : At(r, statement)
  BY DEF setPayment, titlePayments, movePayments, moveListed, insertItemTag, copyTags, MoveTo,
     Execute
<1>2. req[r].op \notin {"none", "setItemStakes"}
  BY <1>1, StatementOf, Statement, StatementsAre
<1>3. CASE setPayment(r)
  <2>1. At(r, "setPayment")
    BY <1>3 DEF setPayment, Execute
  <2>2. req[r].op = "updatePayment"
    BY <2>1, StatementOf, Statement, StatementsAre
  <2>3. req[r].of \in PaymentId
    BY <2>2, Statement DEF Known, OfPayment
  <2> DEFINE rows == [p \in Found(r, {req[r].of}) |->
                        [Visible(r)[p] EXCEPT !.payer = req[r].with, !.title = req[r].arg]]
  <2>4. \A k \in DOMAIN rows : k \in PaymentId
    BY <2>3 DEF Found
  <2>5. Execute(r, "setPayment", DOMAIN rows # {}, rows)
    BY <1>3 DEF setPayment
  <2> HIDE DEF rows
  <2>6. QED
    BY <1>2, <2>4, <2>5
<1>4. CASE titlePayments(r)
  <2> DEFINE rows == [p \in {p \in PaymentsOf(Visible(r), req[r].with) : Visible(r)[p].title = Null} |->
                        [Visible(r)[p] EXCEPT !.title = req[r].seen[req[r].with].title]]
  <2>1. \A k \in DOMAIN rows : k \in PaymentId
    BY DEF PaymentsOf
  <2>2. Execute(r, "titlePayments", TRUE, rows)
    BY <1>4 DEF titlePayments
  <2> HIDE DEF rows
  <2>3. QED
    BY <1>2, <2>1, <2>2
<1>5. CASE movePayments(r)
  <2>1. \A k \in Found(r, PaymentsOf(Visible(r), req[r].with)) : k \in PaymentId
    BY DEF Found, PaymentsOf
  <2> DEFINE rows == [p \in Found(r, PaymentsOf(Visible(r), req[r].with)) |->
                        [Visible(r)[p] EXCEPT !.item = req[r].of]]
  <2>2. Execute(r, "movePayments", TRUE, rows)
    BY <1>5 DEF movePayments, MoveTo
  <2>3. \A k \in DOMAIN rows : k \in PaymentId
    BY <2>1
  <2> HIDE DEF rows
  <2>4. QED
    BY <1>2, <2>2, <2>3
<1>6. CASE moveListed(r)
  <2>1. At(r, "moveListed")
    BY <1>6 DEF moveListed, MoveTo, Execute
  <2>2. req[r].op = "extractAsItem"
    BY <2>1, StatementOf, Statement, StatementsAre
  <2>3. req[r].arg.payments \in Seq(PaymentId)
    BY <2>2, Statement DEF Known, Arguments
  <2>4. \A k \in Found(r, Range(req[r].arg.payments)) : k \in PaymentId
    BY <2>3 DEF Found, Range
  <2> DEFINE rows == [p \in Found(r, Range(req[r].arg.payments)) |->
                        [Visible(r)[p] EXCEPT !.item = req[r].made]]
  <2>5. Execute(r, "moveListed", TRUE, rows)
    BY <1>6 DEF moveListed, MoveTo
  <2>6. \A k \in DOMAIN rows : k \in PaymentId
    BY <2>4
  <2> HIDE DEF rows
  <2>7. QED
    BY <1>2, <2>5, <2>6
<1>7. CASE insertItemTag(r)
  <2>1. At(r, "insertItemTag")
    BY <1>7 DEF insertItemTag, Execute
  <2>2. req[r].op = "assignTag"
    BY <2>1, StatementOf, Statement, StatementsAre
  <2>3. req[r].of \in ItemId /\ req[r].with \in TagId
    BY <2>2, Statement DEF Known, OfItem
  <2>4. \A k \in {Assignment(r)} : k \in ItemId \X TagId
    BY <2>3 DEF Assignment
  <2>5. QED
    BY <1>2, <1>7, <2>4 DEF insertItemTag
<1>8. CASE copyTags(r)
  <2>1. At(r, "copyTags")
    BY <1>8 DEF copyTags, Execute
  <2>2. req[r].op = "extractAsItem" /\ req[r].pc = 5
    BY <2>1, StatementOf, Statement, StatementsAre
  <2>3. req[r].made \in ItemId /\ \A x \in req[r].got : x \in TagId
    BY <2>1, <2>2, Statement DEF Placed
  <2> DEFINE rows == [k \in {<<req[r].made, x>> : x \in req[r].got} |-> [tagged |-> TRUE]]
  <2>4. \A k \in DOMAIN rows : k \in ItemId \X TagId
    BY <2>3
  <2>5. Execute(r, "copyTags", TRUE, rows)
    BY <1>8 DEF copyTags
  <2> HIDE DEF rows
  <2>6. QED
    BY <1>2, <2>4, <2>5
<1>9. QED
  BY <1>3, <1>4, <1>5, <1>6, <1>7, <1>8

LEMMA PaymentsAndTagsAreTame ==
    ASSUME IInv, NEW r \in Request,
           \/ setPayment(r) \/ titlePayments(r) \/ movePayments(r) \/ moveListed(r)
           \/ insertItemTag(r) \/ copyTags(r)
    PROVE  WritesTamely(r) \/ Throw(r)
BY PaymentsAndTagsExecute, OtherTablesAreTame

-------------------------------------------------------------------------------
\* Items that a statement about another item leaves alone.
LEMMA OtherItemsStay ==
    ASSUME IInv, Exclusive, NEW r \in Request, req[r].op # "none", NEW i \in ItemId,
           req[r].of # i, draft'[i] = draft[i],
           \A m \in Member : draft'[<<i, m>>] = draft[<<i, m>>]
    PROVE  NotBoth(draft', i)
<1>1. NotBoth(draft, i)
  BY NotBothBefore DEF Between
<1>2. QED
  BY <1>1, SameRowsNotBoth

LEMMA upsertStakesKeepsExclusive ==
    ASSUME IInv, Exclusive, NEW r \in Request, upsertStakes(r)
    PROVE  Throw(r) \/ Exclusive'
<1> DEFINE of == req[r].of
           stakes == Listed(req[r].arg)
           rows == [k \in {<<of, m>> : m \in DOMAIN stakes} |-> [value |-> stakes[k[2]]]]
<1>1. /\ At(r, "upsertStakes")
      /\ Throw(r) \/ (Put(r, rows) /\ Advance(r))
  BY DEF upsertStakes, Execute
<1>2. req[r].op = "setItemStakes" /\ req[r].pc = 3
  BY <1>1, StatementOf, Statement, StatementsAre
<1>3. of \in ItemId /\ of \in Key /\ req[r].arg \in Seq([member : Member, value : Int])
  BY <1>2, Statement, EntitiesHaveKeys DEF Known, Arguments, OfItem, Entity
<1>4. SUFFICES ASSUME Put(r, rows), Moves(r)
               PROVE  Exclusive'
  BY <1>1, AdvanceMoves
<1>5. \A k \in DOMAIN rows : \E m \in Member : k = <<of, m>>
  <2>1. ASSUME NEW m \in DOMAIN stakes
        PROVE  m \in Member
    <3>1. PICK n \in DOMAIN req[r].arg : req[r].arg[n].member = m
      BY DEF Listed
    <3>2. PICK S : S = [member : Member, value : Int]
      OBVIOUS
    <3>3. req[r].arg \in Seq(S)
      BY <1>3, <3>2
    <3>4. req[r].arg[n] \in S
      BY <3>1, <3>3
    <3>5. QED
      BY <3>1, <3>2, <3>4
  <2>2. QED
    BY <2>1
<1> HIDE DEF rows
<1>6. \A i \in ItemId : i \notin DOMAIN rows
  BY <1>3, <1>5, PairsOf, KeysOfTables DEF Entity
<1>7. draft'[of] = draft[of] /\ \A k \in Key : db'[k] = db[k]
  BY <1>3, <1>4, <1>6, PutRow
<1>8. \A i : i = of => Between(r, i)'
  <2>1. Script["setItemStakes"][4] = "clearRule"
    BY DEF Script
  <2>2. QED
    BY <1>2, <1>4, <2>1 DEF Between, At, Current, Moves
<1>9. ASSUME NEW i \in ItemId, i # of
      PROVE  NotBoth(draft', i)
  <2>1. i \in Key /\ \A m \in Member : <<i, m>> \in Key /\ <<i, m>> \notin DOMAIN rows
    BY <1>5, <1>9, EntitiesHaveKeys, PairsOf DEF Entity
  <2>2. QED
    BY <1>2, <1>4, <1>6, <1>9, <2>1, PutRow, OtherItemsStay
<1>10. QED
  BY <1>2, <1>4, <1>7, <1>8, <1>9, MovingKeepsExclusive

LEMMA clearRuleKeepsExclusive ==
    ASSUME IInv, Exclusive, NEW r \in Request, clearRule(r)
    PROVE  Throw(r) \/ Exclusive'
<1> DEFINE of == req[r].of
           rows == [i \in Found(r, {of}) |-> [Visible(r)[i] EXCEPT !.stakeRule = Null]]
<1>1. /\ At(r, "clearRule")
      /\ \/ Throw(r)
         \/ Put(r, rows) /\ DOMAIN rows # {} /\ Advance(r)
         \/ req[r].seen[of].stakeRule = Null /\ UNCHANGED tables /\ Advance(r)
  BY DEF clearRule, Execute
<1>2. req[r].op = "setItemStakes" /\ req[r].pc = 4
  BY <1>1, StatementOf, Statement, StatementsAre
<1>3. of \in ItemId /\ of \in Key
  BY <1>2, Statement, EntitiesHaveKeys DEF Known, OfItem, Entity
<1>4. Advance(r) => Moves(r)
  BY AdvanceMoves
<1>5. CASE req[r].seen[of].stakeRule = Null /\ UNCHANGED tables /\ Advance(r)
  <2>1. draft[of] = req[r].seen[of]
    BY <1>2 DEF Exclusive
  <2>2. draft' = draft /\ db' = db
    BY <1>5 DEF tables
  <2>3. NotBoth(draft', of)
    BY <1>5, <2>1, <2>2 DEF NotBoth
  <2>4. ASSUME NEW i \in ItemId, i # of
        PROVE  NotBoth(draft', i)
    BY <1>2, <2>2, <2>4, OtherItemsStay
  <2>5. QED
    BY <1>2, <1>4, <1>5, <2>2, <2>3, <2>4, MovingKeepsExclusive
<1>6. CASE Put(r, rows) /\ DOMAIN rows # {} /\ Advance(r)
  <2>1. DOMAIN rows = {of} /\ rows[of] = [Visible(r)[of] EXCEPT !.stakeRule = Null]
        /\ Exists(Visible(r)[of])
    BY <1>6 DEF Found
  <2>2. Visible(r)[of] \in ItemRow
    <3>1. Visible(r)[of] \in RowOf(of)
      BY <1>3, <2>1, SeesTyped
    <3>2. QED
      BY <1>3, <3>1, KeysOfTables DEF RowOf
  <2>3. rows[of].stakeRule = Null
    BY <2>1, <2>2 DEF ItemRow
  <2> HIDE DEF rows
  <2>4. draft'[of] = rows[of] /\ \A k \in Key : db'[k] = db[k]
    BY <1>3, <1>6, <2>1, PutRow
  <2>5. NotBoth(draft', of)
    BY <2>3, <2>4 DEF NotBoth
  <2>6. ASSUME NEW i \in ItemId, i # of
        PROVE  NotBoth(draft', i)
    <3>1. i \in Key /\ \A m \in Member : <<i, m>> \in Key /\ <<i, m>> # of
      BY <1>3, EntitiesHaveKeys, PairsOf, KeysOfTables DEF Entity
    <3>2. QED
      BY <1>2, <1>6, <2>1, <2>6, <3>1, PutRow, OtherItemsStay
  <2>7. QED
    BY <1>2, <1>4, <1>6, <2>4, <2>5, <2>6, MovingKeepsExclusive
<1>7. QED
  BY <1>1, <1>5, <1>6

LEMMA setRuleKeepsExclusive ==
    ASSUME IInv, Exclusive, NEW r \in Request, setRule(r)
    PROVE  Throw(r) \/ Exclusive'
<1> DEFINE of == req[r].of
           rows == [i \in Found(r, {of}) |-> [Visible(r)[i] EXCEPT !["stakeRule"] = req[r].arg]]
<1>1. /\ At(r, "setRule")
      /\ Throw(r) \/ (Put(r, rows) /\ Advance(r))
  BY DEF setRule, SetColumn, Execute
<1>2. req[r].op = "setItemStakeRule" /\ req[r].pc = 2
  BY <1>1, StatementOf, Statement, StatementsAre
<1>3. of \in ItemId /\ of \in Key
  BY <1>2, Statement, EntitiesHaveKeys DEF Known, OfItem, Entity
<1>4. SUFFICES ASSUME Put(r, rows), Moves(r)
               PROVE  Exclusive'
  BY <1>1, AdvanceMoves
<1>5. DOMAIN rows \subseteq {of}
  BY DEF Found
<1> HIDE DEF rows
<1>6. \A k \in Key : db'[k] = db[k]
  BY <1>4, PutRow
<1>7. \A i : i = of => Between(r, i)'
  <2>1. Script["setItemStakeRule"][3] = "deleteStakes"
    BY DEF Script
  <2>2. QED
    BY <1>2, <1>4, <2>1 DEF Between, At, Current, Moves
<1>8. ASSUME NEW i \in ItemId, i # of
      PROVE  NotBoth(draft', i)
  <2>1. i \in Key /\ \A m \in Member : <<i, m>> \in Key /\ <<i, m>> # of
    BY <1>3, EntitiesHaveKeys, PairsOf, KeysOfTables DEF Entity
  <2>2. QED
    BY <1>2, <1>4, <1>5, <1>8, <2>1, PutRow, OtherItemsStay
<1>9. QED
  BY <1>2, <1>4, <1>6, <1>7, <1>8, MovingKeepsExclusive

LEMMA deleteStakesKeepsExclusive ==
    ASSUME IInv, Exclusive, NEW r \in Request, deleteStakes(r)
    PROVE  Throw(r) \/ Exclusive'
<1> DEFINE of == req[r].of
           rows == [k \in {<<of, m>> : m \in StakesOf(Visible(r), of)} |-> Absent]
<1>1. /\ At(r, "deleteStakes")
      /\ Throw(r) \/ (Put(r, rows) /\ Advance(r))
  BY DEF deleteStakes, Execute
<1>2. req[r].op = "setItemStakeRule" /\ req[r].pc = 3
  BY <1>1, StatementOf, Statement, StatementsAre
<1>3. of \in ItemId /\ of \in Key
  BY <1>2, Statement, EntitiesHaveKeys DEF Known, OfItem, Entity
<1>4. SUFFICES ASSUME Put(r, rows), Moves(r)
               PROVE  Exclusive'
  BY <1>1, AdvanceMoves
<1>5. \A k \in DOMAIN rows : (\E m \in Member : k = <<of, m>>) /\ rows[k] = Absent
  BY DEF StakesOf
<1>6. \A m \in Member : Exists(Visible(r)[<<of, m>>]) => <<of, m>> \in DOMAIN rows
  BY DEF StakesOf
<1> HIDE DEF rows
<1>7. \A k \in Key : db'[k] = db[k]
  BY <1>4, PutRow
<1>8. NotBoth(draft', of)
  <2>1. ASSUME NEW m \in Member
        PROVE  ~Exists(draft'[<<of, m>>])
    <3>1. <<of, m>> \in Key
      BY <1>3, PairsOf
    <3>2. Visible(r)[<<of, m>>] = draft[<<of, m>>]
      BY <1>2, <3>1, TheOthersAreIdle DEF Exclusive
    <3>3. <<of, m>> \in DOMAIN rows => draft'[<<of, m>>] = Absent
      BY <1>4, <1>5, <3>1, PutRow
    <3>4. <<of, m>> \notin DOMAIN rows => draft'[<<of, m>>] = draft[<<of, m>>]
      BY <1>4, <3>1, PutRow
    <3>5. QED
      BY <1>6, <3>2, <3>3, <3>4 DEF Exists
  <2>2. QED
    BY <2>1 DEF NotBoth, StakesOf
<1>9. ASSUME NEW i \in ItemId, i # of
      PROVE  NotBoth(draft', i)
  <2>1. i \in Key /\ \A m \in Member : <<i, m>> \in Key /\ <<i, m>> \notin DOMAIN rows
    BY <1>5, <1>9, EntitiesHaveKeys, PairsOf DEF Entity
  <2>2. i \notin DOMAIN rows
    BY <1>3, <1>5, PairsOf, KeysOfTables DEF Entity
  <2>3. QED
    BY <1>2, <1>4, <1>9, <2>1, <2>2, PutRow, OtherItemsStay
<1>10. QED
  BY <1>2, <1>4, <1>7, <1>8, <1>9, MovingKeepsExclusive

-------------------------------------------------------------------------------
LEMMA ReadingMoves ==
    ASSUME IInv, NEW r \in Request, NEW statement, NEW ok, NEW what, Read(r, statement, ok, what),
           statement \notin {"idle", "clearRule", "deleteStakes"}
    PROVE  \/ Throw(r)
           \/ /\ Moves(r) /\ UNCHANGED tables /\ req[r].op # "none"
              /\ Current(r) \notin {"clearRule", "deleteStakes"}
<1>1. Current(r) = statement /\ Script[req[r].op][req[r].pc] = statement
  BY StatementOf DEF Read
<1>2. req[r].op # "none"
  BY <1>1, Statement, StatementsAre
<1>3. Reads(r, what) => Moves(r) /\ UNCHANGED tables
  BY ReadMoves
<1>4. QED
  BY <1>1, <1>2, <1>3 DEF Read, Reads

LEMMA ReadsKeepExclusive ==
    ASSUME IInv, Exclusive, NEW r \in Request,
           \/ findItem(r) \/ checkPayer(r) \/ readTag(r) \/ checkNotAssigned(r)
           \/ checkAssigned(r) \/ readHost(r) \/ validatePayments(r) \/ readTags(r)
           \/ validateStakes(r) \/ readStakes(r)
    PROVE  Throw(r) \/ Exclusive'
<1>1. SUFFICES ASSUME Moves(r), UNCHANGED tables, req[r].op # "none",
                      Current(r) \notin {"clearRule", "deleteStakes"}
               PROVE  Exclusive'
  <2>1. CASE findItem(r)
    BY <1>1, <2>1, ReadingMoves DEF findItem
  <2>2. CASE checkPayer(r)
    BY <1>1, <2>2, ReadingMoves DEF checkPayer
  <2>3. CASE readTag(r)
    BY <1>1, <2>3, ReadingMoves DEF readTag
  <2>4. CASE checkNotAssigned(r)
    BY <1>1, <2>4, ReadingMoves DEF checkNotAssigned
  <2>5. CASE checkAssigned(r)
    BY <1>1, <2>5, ReadingMoves DEF checkAssigned
  <2>6. CASE readHost(r)
    <3>1. PICK what : Read(r, "readHost", TRUE, what)
      BY <2>6 DEF readHost
    <3>2. QED
      BY <1>1, <3>1, ReadingMoves
  <2>7. CASE validatePayments(r)
    BY <1>1, <2>7, ReadingMoves DEF validatePayments
  <2>8. CASE readTags(r)
    <3>1. PICK what : Read(r, "readTags", TRUE, what)
      BY <2>8 DEF readTags
    <3>2. QED
      BY <1>1, <3>1, ReadingMoves
  <2>9. CASE validateStakes(r)
    BY <1>1, <2>9, ReadingMoves DEF validateStakes
  <2>10. CASE readStakes(r)
    <3>1. PICK what : Read(r, "readStakes", TRUE, what)
      BY <2>10 DEF readStakes
    <3>2. QED
      BY <1>1, <3>1, ReadingMoves
  <2>11. QED
    BY <2>1, <2>2, <2>3, <2>4, <2>5, <2>6, <2>7, <2>8, <2>9, <2>10
<1>2. db' = db /\ draft' = draft
  BY <1>1 DEF tables
<1>3. \A i \in ItemId : NotBoth(draft, i) \/ Between(r, i) => NotBoth(draft', i)
  BY <1>1, <1>2 DEF Between, At
<1>4. QED
  BY <1>1, <1>2, <1>3, MovingKeepsExclusive

\* The first request after all others have ended sees the committed rows, and
\* nothing else is there.
LEMMA StartingKeepsExclusive ==
    ASSUME IInv, Exclusive, NEW r \in Request, NEW op, NEW of, NEW with, NEW arg,
           Start(r, op, of, with, arg), op = "setItemStakes" => of \in Key,
           ~overlapped'
    PROVE  Exclusive'
<1> DEFINE q == [Idle EXCEPT !.op = op, !.of = of, !.with = with,
                    !.arg = arg, !.seen = [k \in {of, with} \cap Key |-> db[k]]]
<1>1. req' = [req EXCEPT ![r] = q] /\ db' = db /\ draft' = draft
  BY DEF Start
<1>2. req'[r] = q /\ DOMAIN req' = Request /\ OthersWait(r)
  BY <1>1, Statement DEF OthersWait
<1>3. \A s \in Request : req[s].op = "none"
  BY DEF Start
<1>4. q.op = op /\ q.of = of /\ q.seen = [k \in {of, with} \cap Key |-> db[k]]
  BY DEF Idle
<1>5. AtMostOne'
  BY <1>2, <1>3 DEF AtMostOne, OthersWait
<1>6. RuleOrStakes(db') /\ \A i \in ItemId : NotBoth(draft', i)
  <2>1. \A s \in Request, i \in ItemId : ~Between(s, i)
    BY <1>3, BetweenIs
  <2>2. QED
    BY <1>1, <2>1 DEF Exclusive
<1>7. op = "setItemStakes" => draft'[of] = q.seen[of]
  <2>1. HAVE op = "setItemStakes"
  <2>2. holder[of] = NoRequest
    BY <1>3, <2>1 DEF IInv, TypeOK, HeldOK
  <2>3. draft[of] = db[of]
    BY <2>1, <2>2 DEF IInv, FreeRowsAreCommitted
  <2>4. QED
    BY <1>1, <1>4, <2>1, <2>3
<1>8. ASSUME NEW s \in Request, req'[s].op = "setItemStakes"
      PROVE  draft'[req'[s].of] = req'[s].seen[req'[s].of]
  <2>1. s = r
    BY <1>2, <1>3, <1>8 DEF OthersWait
  <2>2. req'[s] = q
    BY <1>2, <2>1
  <2> HIDE DEF q
  <2>3. QED
    BY <1>4, <1>7, <1>8, <2>2
<1>9. QED
  BY <1>5, <1>6, <1>8 DEF Exclusive

LEMMA RunsAreRequests ==
    ASSUME IInv, NEW r \in Request, Run(r)
    PROVE  req[r].op # "none"
<1>1. ~At(r, "idle")
  BY DEF Run, At, insertWorkspace, insertItem, insertPayment, insertTag, insertExtracted, Insert,
     findItem, checkPayer, readTag, checkNotAssigned, checkAssigned, readHost,
     validatePayments, readTags, validateStakes, readStakes, Read,
     setWorkspace, setWorkspaceRule, setItem, setTag, setRule, SetColumn,
     setPayment, titlePayments, movePayments, moveListed, MoveTo, insertItemTag, copyTags,
     upsertStakes, clearTags, deleteStakes, dropWorkspace, dropItem, dropPayment, dropTag,
     deleteItemTag, deleteMerging, Delete, Execute, clearRule, commit
<1>2. QED
  BY <1>1, Statement, StatementsAre DEF At

LEMMA RunKeepsExclusive ==
    ASSUME IInv, Exclusive, NEW r \in Request, Run(r) \/ Abort(r)
    PROVE  Exclusive'
<1>1. req[r].op # "none"
  <2>1. CASE Abort(r)
    BY <2>1 DEF Abort
  <2>2. CASE Run(r)
    BY <2>2, RunsAreRequests
  <2>3. QED
    BY <2>1, <2>2
<1>2. Throw(r) => Exclusive'
  BY <1>1, ThrowKeepsExclusive
<1>3. WritesTamely(r) => Exclusive'
  BY TameKeepsExclusive DEF WritesTamely
<1>4. CASE \/ insertWorkspace(r) \/ insertItem(r) \/ insertPayment(r) \/ insertTag(r)
           \/ insertExtracted(r)
           \/ dropWorkspace(r) \/ dropItem(r) \/ dropPayment(r) \/ dropTag(r)
           \/ deleteItemTag(r) \/ deleteMerging(r) \/ clearTags(r)
           \/ setWorkspace(r) \/ setWorkspaceRule(r) \/ setItem(r) \/ setTag(r)
           \/ setPayment(r) \/ titlePayments(r) \/ movePayments(r) \/ moveListed(r)
           \/ insertItemTag(r) \/ copyTags(r)
  BY <1>2, <1>3, <1>4, InsertsAreTame, DeletesAreTame, ColumnsAreTame, PaymentsAndTagsAreTame
<1>5. CASE upsertStakes(r) \/ clearRule(r) \/ setRule(r) \/ deleteStakes(r)
  BY <1>2, <1>5, upsertStakesKeepsExclusive, clearRuleKeepsExclusive, setRuleKeepsExclusive,
     deleteStakesKeepsExclusive
<1>6. CASE \/ findItem(r) \/ checkPayer(r) \/ readTag(r) \/ checkNotAssigned(r)
           \/ checkAssigned(r) \/ readHost(r) \/ validatePayments(r) \/ readTags(r)
           \/ validateStakes(r) \/ readStakes(r)
  BY <1>2, <1>6, ReadsKeepExclusive
<1>7. CASE commit(r)
  BY <1>7, CommitKeepsExclusive
<1>8. CASE Abort(r)
  BY <1>2, <1>8 DEF Abort
<1>9. QED
  BY <1>4, <1>5, <1>6, <1>7, <1>8 DEF Run

LEMMA ExclusiveStays ==
    ASSUME Exclusive, UNCHANGED <<db, draft, req>>
    PROVE  Exclusive'
<1>1. \A r, i : Between(r, i)' <=> Between(r, i)
  BY DEF Between, At, Current
<1>2. QED
  BY <1>1 DEF Exclusive, AtMostOne

LEMMA NextKeepsSerialInv == IInv /\ SerialInv /\ [Next]_vars => SerialInv'
<1> SUFFICES ASSUME IInv, SerialInv, [Next]_vars, ~overlapped'
             PROVE  Exclusive'
  BY DEF SerialInv
<1>1. CASE UNCHANGED vars
  BY <1>1, ExclusiveStays DEF vars, SerialInv
<1>2. ASSUME NEW r \in Request, Begin(r)
      PROVE  Exclusive'
  <2>1. PICK op, of, with, arg :
            /\ Start(r, op, of, with, arg)
            /\ op = "setItemStakes" => of \in Key
    BY <1>2, BeginIsStart
  <2>2. ~overlapped
    BY <2>1 DEF Start
  <2>3. QED
    BY <2>1, <2>2, StartingKeepsExclusive DEF SerialInv
<1>3. ASSUME NEW r \in Request, Run(r) \/ Abort(r)
      PROVE  Exclusive'
  BY <1>3, OverlapIsNoticedAtStart, RunKeepsExclusive DEF SerialInv
<1>4. ASSUME NEW m \in Member, SeatTaken(m) \/ SeatLost(m)
      PROVE  Exclusive'
  <2>1. db' = db /\ draft' = draft /\ req' = req /\ ~overlapped
    BY <1>4 DEF SeatTaken, SeatLost, SeatChanges
  <2>2. QED
    BY <2>1, ExclusiveStays DEF SerialInv
<1>5. QED
  BY <1>1, <1>2, <1>3, <1>4 DEF Next

LEMMA InitialSerialInv == Init => SerialInv
<1> SUFFICES ASSUME Init PROVE Exclusive
  BY DEF SerialInv
<1>1. db = Populated /\ draft = db /\ \A r \in Request : req[r] = Idle
  BY DEF Init
<1>2. Idle.op = "none"
  BY DEF Idle
<1>3. RuleOrStakes(db) /\ \A i \in ItemId : NotBoth(draft, i)
  BY <1>1, PopulationGoesTogether, RuleOrStakesIs
<1>4. QED
  BY <1>1, <1>2, <1>3 DEF Exclusive, AtMostOne

\* Requests that never overlap leave no item with both a stake rule and custom
\* stakes: setItemStakes and setItemStakeRule clear what the other has set, and
\* no update, merge, extraction or deletion before or after brings it back.
THEOREM RulesExcludeStakes == Spec => []RuleExcludesStakes
<1>1. SerialInv => RuleExcludesStakes
  BY DEF SerialInv, Exclusive, RuleExcludesStakes
<1>2. QED
  BY <1>1, InitialIInv, NextKeepsIInv, InitialSerialInv, NextKeepsSerialInv, PTL DEF Spec

-------------------------------------------------------------------------------
(* Custom stakes, however requests and members' coming and going interleave. *)

SetsStakes == {"setItemStakes", "setItemStakeRule"}

\* Members never go back to where they came from.
WasActive(m) == m \in Member /\ seat[m] # "coming"

\* The stakes that r checked are those of all active members, unless a seat has
\* changed since, and one of them is positive.
ChecksOut(r) ==
    req[r].op = "setItemStakes" /\ req[r].pc > 1 =>
        /\ \A m \in DOMAIN Listed(req[r].arg) : WasActive(m)
        /\ ~overlapped => DOMAIN Listed(req[r].arg) = {m \in Active : MemberOf[m] = Base(r)}
        /\ \E m \in DOMAIN Listed(req[r].arg) : Listed(req[r].arg)[m] > 0

\* The stakes that r listed are the ones it will commit.
Wrote(r) ==
    req[r].op = "setItemStakes" /\ req[r].pc > 3 =>
        \A m \in DOMAIN Listed(req[r].arg) :
            /\ holder[<<req[r].of, m>>] = r
            /\ draft[<<req[r].of, m>>] = [value |-> Listed(req[r].arg)[m]]

\* The item r has given a rule will have one.
RuleSet(r) ==
    req[r].op = "setItemStakeRule" /\ req[r].pc > 2 =>
        holder[req[r].of] = r /\ draft[req[r].of].stakeRule # Null

SplitsAnew(r, i) == req[r].op \in SetsStakes /\ req[r].of = i

\* What r does to an item that it does not set the stakes or the rule of.
Kept(r, i) ==
    \/ SplitsAnew(r, i)
    \/ holder[i] = r /\ draft[i] = Gone
    \/ /\ \A m \in Member : holder[<<i, m>>] # r
       /\ holder[i] = r => db[i] = Absent \/ draft[i].stakeRule = db[i].stakeRule

StakesInv ==
    \A r \in Request :
        /\ ChecksOut(r) /\ Wrote(r) /\ RuleSet(r)
        /\ \A i \in ItemId : Kept(r, i)

\* The rows r writes delete item i, or leave its rule and its stakes alone.
Mild(r, rows, i) ==
    \/ i \in DOMAIN rows /\ rows[i] = Gone
    \/ /\ \A m \in Member : <<i, m>> \notin DOMAIN rows
       /\ i \in DOMAIN rows =>
            \/ draft[i] = Absent
            \/ Exists(Visible(r)[i]) /\ rows[i].stakeRule = Visible(r)[i].stakeRule

WritesMildly(r) ==
    \E rows :
        /\ Writes(r, rows)
        /\ \A i \in ItemId : SplitsAnew(r, i) \/ Mild(r, rows, i)

LEMMA StakeKeys ==
    ASSUME NEW i \in ItemId, NEW m \in Member
    PROVE  /\ <<i, m>> \in Key /\ <<i, m>> \in ItemId \X Member
           /\ <<i, m>> \notin Entity /\ <<i, m>> \notin ItemId \X TagId
           /\ <<i, m>>[1] = i /\ <<i, m>>[2] = m
<1>1. <<i, m>> \in Key /\ <<i, m>> \in Pair /\ <<i, m>> \in ItemId \X Member
  BY PairsOf
<1>2. QED
  BY <1>1, KeysOfTables

LEMMA ItemKeys ==
    ASSUME NEW i \in ItemId
    PROVE  i \in Key /\ i \in Entity /\ i \notin Pair /\ RowOf(i) = ItemRow
BY EntitiesHaveKeys, KeysOfTables DEF Entity, RowOf

-------------------------------------------------------------------------------
\* What statements write of the stakes.

LEMMA OtherRowsAreMild ==
    ASSUME IInv, NEW r \in Request, NEW statement, NEW ok, NEW rows,
           Execute(r, statement, ok, rows),
           \A k \in DOMAIN rows : k \notin ItemId /\ k \notin ItemId \X Member
    PROVE  WritesMildly(r) \/ Throw(r)
<1>1. CASE Throw(r)
  BY <1>1
<1>2. CASE Executes(r, rows)
  <2>1. Writes(r, rows)
    BY <1>2, ExecutesFreely
  <2>2. \A i \in ItemId : Mild(r, rows, i)
    BY DEF Mild
  <2>3. QED
    BY <2>1, <2>2 DEF WritesMildly
<1>3. QED
  BY <1>1, <1>2 DEF Execute, Executes

LEMMA InsertIsMild ==
    ASSUME IInv, NEW r \in Request, NEW statement, NEW Ids, NEW row,
           Insert(r, statement, Ids, row), Ids \subseteq Entity
    PROVE  WritesMildly(r) \/ Throw(r)
<1>1. SUFFICES ASSUME NEW k \in Ids, Inserts(r, k, row)
               PROVE  WritesMildly(r)
  BY InsertDoes
<1> DEFINE rows == [x \in {k} |-> row]
<1>2. Executes(r, rows) /\ draft[k] = Absent /\ DOMAIN rows = {k} /\ k \in Entity
  BY <1>1 DEF Inserts
<1> HIDE DEF rows
<1>3. Writes(r, rows)
  BY <1>2, ExecutesFreely
<1>4. \A i \in ItemId : Mild(r, rows, i)
  BY <1>2, StakeKeys DEF Mild
<1>5. QED
  BY <1>3, <1>4 DEF WritesMildly

LEMMA InsertsAreMild ==
    ASSUME IInv, NEW r \in Request,
           \/ insertWorkspace(r) \/ insertItem(r) \/ insertPayment(r) \/ insertTag(r)
           \/ insertExtracted(r)
    PROVE  WritesMildly(r) \/ Throw(r)
<1>1. Workspace \subseteq Entity /\ ItemId \subseteq Entity /\ PaymentId \subseteq Entity
      /\ TagId \subseteq Entity
  BY DEF Entity
<1>2. CASE insertWorkspace(r)
  BY <1>1, <1>2, InsertIsMild DEF insertWorkspace
<1>3. CASE insertItem(r)
  BY <1>1, <1>3, InsertIsMild DEF insertItem
<1>4. CASE insertPayment(r)
  BY <1>1, <1>4, InsertIsMild DEF insertPayment
<1>5. CASE insertTag(r)
  BY <1>1, <1>5, InsertIsMild DEF insertTag
<1>6. CASE insertExtracted(r)
  BY <1>1, <1>6, InsertIsMild DEF insertExtracted
<1>7. QED
  BY <1>2, <1>3, <1>4, <1>5, <1>6

\* Only setRule and clearRule set the rule of an item, the one they are about.
LEMMA ColumnsAreMild ==
    ASSUME IInv, NEW r \in Request,
           \/ setWorkspace(r) \/ setWorkspaceRule(r) \/ setItem(r) \/ setTag(r) \/ setRule(r)
           \/ clearRule(r)
    PROVE  WritesMildly(r) \/ Throw(r) \/ UNCHANGED tables
<1> DEFINE of == req[r].of
           set == [x \in Found(r, {of}) |-> [Visible(r)[x] EXCEPT !.stakeRule = Null]]
<1>1. PICK statement \in {"setWorkspace", "setWorkspaceRule", "setItem", "setTag", "setRule",
                          "clearRule"} : At(r, statement)
  BY DEF setWorkspace, setWorkspaceRule, setItem, setTag, setRule, clearRule, SetColumn, Execute
<1>2. /\ req[r].op \in OfWorkspace \cup OfItem \cup OfTag
      /\ statement \in {"setRule", "clearRule"} => req[r].op \in SetsStakes
      /\ statement = "setWorkspaceRule" => req[r].op \in OfWorkspace
  BY <1>1, StatementOf, Statement, StatementsAre DEF OfWorkspace, OfItem, OfTag, SetsStakes
<1>3. of \in Entity /\ (req[r].op \in OfWorkspace => of \in Workspace)
  BY <1>2, Statement DEF Known, Entity
<1>4. of \notin ItemId \X Member /\ (of \in Workspace => of \notin ItemId)
  BY <1>3, EntitiesHaveKeys, KeysOfTables DEF Pair
<1>5. \A x \in Found(r, {of}) : x = of /\ Exists(Visible(r)[x])
  BY DEF Found
<1>6. ASSUME NEW s, NEW column, SetColumn(r, s, column),
             column = "title" \/ req[r].op \in SetsStakes \/ of \in Workspace
      PROVE  WritesMildly(r) \/ Throw(r)
  <2> DEFINE rows == [x \in Found(r, {of}) |-> [Visible(r)[x] EXCEPT ![column] = req[r].arg]]
  <2>1. Throw(r) \/ Executes(r, rows)
    BY <1>6 DEF SetColumn, Execute, Executes
  <2>2. ASSUME NEW i \in ItemId, ~SplitsAnew(r, i)
        PROVE  Mild(r, rows, i)
    <3>0. \A x \in DOMAIN rows : x = of
      BY <1>5
    <3>1. \A m \in Member : <<i, m>> \notin DOMAIN rows
      BY <1>4, <3>0, StakeKeys
    <3>2. ASSUME i \in DOMAIN rows
          PROVE  Exists(Visible(r)[i]) /\ rows[i].stakeRule = Visible(r)[i].stakeRule
      <4>1. i = of /\ Exists(Visible(r)[i])
        BY <1>5, <3>2
      <4>2. column = "title"
        BY <1>4, <1>6, <2>2, <4>1 DEF SplitsAnew
      <4>3. Visible(r)[i] \in ItemRow
        BY <4>1, ItemKeys, SeesTyped
      <4>4. rows[i] = [Visible(r)[i] EXCEPT !["title"] = req[r].arg]
        BY <3>2, <4>1, <4>2
      <4>5. QED
        BY <4>1, <4>3, <4>4 DEF ItemRow
    <3>3. QED
      BY <3>1, <3>2 DEF Mild
  <2> HIDE DEF rows
  <2>3. QED
    BY <2>1, <2>2, ExecutesFreely DEF WritesMildly
<1>7. CASE clearRule(r)
  <2>1. UNCHANGED tables \/ Throw(r) \/ Executes(r, set)
    BY <1>7 DEF clearRule, Execute, Executes
  <2>2. At(r, "clearRule")
    BY <1>7 DEF clearRule
  <2>3. req[r].op \in SetsStakes
    BY <2>2, StatementOf, Statement, StatementsAre DEF SetsStakes
  <2>4. ASSUME NEW i \in ItemId, ~SplitsAnew(r, i)
        PROVE  Mild(r, set, i)
    <3>1. \A x \in DOMAIN set : x = of
      BY <1>5
    <3>2. i # of
      BY <2>3, <2>4 DEF SplitsAnew
    <3>3. \A m \in Member : <<i, m>> \notin DOMAIN set
      BY <1>4, <3>1, StakeKeys
    <3>4. i \notin DOMAIN set
      BY <3>1, <3>2
    <3> HIDE DEF set
    <3>5. QED
      BY <3>3, <3>4 DEF Mild
  <2> HIDE DEF set
  <2>5. QED
    BY <2>1, <2>4, ExecutesFreely DEF WritesMildly
<1>8. CASE setRule(r)
  <2>1. At(r, "setRule")
    BY <1>8 DEF setRule, SetColumn, Execute
  <2>2. req[r].op \in SetsStakes
    BY <2>1, StatementOf, Statement, StatementsAre DEF SetsStakes
  <2>3. QED
    BY <1>6, <1>8, <2>2 DEF setRule
<1>9. CASE setWorkspaceRule(r)
  <2>1. At(r, "setWorkspaceRule")
    BY <1>9 DEF setWorkspaceRule, SetColumn, Execute
  <2>2. req[r].op \in OfWorkspace
    BY <2>1, StatementOf, Statement, StatementsAre DEF OfWorkspace
  <2>3. QED
    BY <1>3, <1>6, <1>9, <2>2 DEF setWorkspaceRule
<1>10. QED
  BY <1>6, <1>7, <1>8, <1>9 DEF setWorkspace, setItem, setTag

\* A deletion that takes a stake takes the item too.
LEMMA DeletingIsMild ==
    ASSUME IInv, NEW r \in Request, NEW statement, NEW k \in Key, Delete(r, statement, k),
           k \notin ItemId \X Member
    PROVE  WritesMildly(r) \/ Throw(r)
<1> DEFINE t == Visible(r)
           rows == [c \in Family(t, k) |-> Deleted(c)]
<1>1. Throw(r) \/ Executes(r, rows)
  BY DEF Delete, Execute, Executes
<1>2. SUFFICES ASSUME Executes(r, rows) PROVE WritesMildly(r)
  BY <1>1
<1>3. Writes(r, rows)
  BY <1>2, ExecutesFreely
<1>4. ASSUME NEW i \in ItemId
      PROVE  Mild(r, rows, i)
  <2>1. i \in DOMAIN rows => rows[i] = Gone
    BY ItemKeys DEF Deleted
  <2>2. \A m \in Member : /\ <<i, m>> \in Key /\ <<i, m>> # k
                          /\ Exists(t[<<i, m>>]) => Parents(<<i, m>>, t[<<i, m>>]) = {i}
    BY StakeKeys, SeesTyped, ParentsAre
  <2>3. \A K : \A m \in Member : <<i, m>> \in ChildrenOf(t, K) <=> Exists(t[<<i, m>>]) /\ i \in K
    BY <2>2 DEF ChildrenOf
  <2>4. \A m \in Member : <<i, m>> \in Family(t, k) => i = k \/ i \in ChildrenOf(t, {k})
    BY <2>2, <2>3, FamilyIs
  <2>5. (\E m \in Member : <<i, m>> \in DOMAIN rows) => i \in DOMAIN rows
    BY <2>4, FamilyIs
  <2>6. CASE i \in DOMAIN rows
    BY <2>1, <2>6 DEF Mild
  <2>7. CASE i \notin DOMAIN rows
    BY <2>5, <2>7 DEF Mild
  <2>8. QED
    BY <2>6, <2>7
<1>5. QED
  BY <1>3, <1>4 DEF WritesMildly

LEMMA DeletesAreMild ==
    ASSUME IInv, NEW r \in Request,
           \/ dropWorkspace(r) \/ dropItem(r) \/ dropPayment(r) \/ dropTag(r)
           \/ deleteItemTag(r) \/ deleteMerging(r)
    PROVE  WritesMildly(r) \/ Throw(r)
<1> DEFINE of == req[r].of
           with == req[r].with
<1>1. PICK statement \in {"dropWorkspace", "dropItem", "dropPayment", "dropTag",
                          "deleteItemTag", "deleteMerging"} : \E k :
            /\ Delete(r, statement, k)
            /\ statement = "deleteItemTag" => k = <<of, with>>
            /\ statement = "deleteMerging" => k = with
            /\ statement \notin {"deleteItemTag", "deleteMerging"} => k = of
  BY DEF dropWorkspace, dropItem, dropPayment, dropTag, deleteItemTag, deleteMerging, Assignment
<1>2. PICK k :
            /\ Delete(r, statement, k)
            /\ statement = "deleteItemTag" => k = <<of, with>>
            /\ statement = "deleteMerging" => k = with
            /\ statement \notin {"deleteItemTag", "deleteMerging"} => k = of
  BY <1>1
<1>3. At(r, statement)
  BY <1>2 DEF Delete, Execute
<1>4. /\ statement = "deleteItemTag" => req[r].op = "unassignTag"
      /\ statement = "deleteMerging" => req[r].op = "mergeItems"
      /\ req[r].op \in OfWorkspace \cup OfItem \cup OfPayment \cup OfTag /\ req[r].op # "none"
  BY <1>3, StatementOf, Statement, StatementsAre DEF OfWorkspace, OfItem, OfPayment, OfTag
<1>5. /\ of \in Entity
      /\ statement = "deleteItemTag" => of \in ItemId /\ with \in TagId
      /\ statement = "deleteMerging" => with \in Entity
  BY <1>4, Statement DEF Known, Entity, OfItem
<1>6. CASE statement = "deleteItemTag"
  <2>1. k \in Key /\ k \in ItemId \X TagId
    BY <1>2, <1>5, <1>6, PairsOf
  <2>2. k \notin ItemId \X Member
    BY <2>1, KeysOfTables DEF Pair
  <2>3. QED
    BY <1>2, <1>4, <2>1, <2>2, DeletingIsMild
<1>7. CASE statement # "deleteItemTag"
  <2>1. k \in Entity /\ k \in Key
    BY <1>2, <1>5, <1>7, EntitiesHaveKeys
  <2>2. k \notin ItemId \X Member
    BY <2>1, KeysOfTables DEF Pair
  <2>3. QED
    BY <1>2, <1>4, <2>1, <2>2, DeletingIsMild
<1>8. QED
  BY <1>6, <1>7

LEMMA ListedMembers ==
    ASSUME IInv, NEW r \in Request, req[r].op = "setItemStakes", req[r].pc > 1
    PROVE  /\ DOMAIN Listed(req[r].arg) \subseteq Member
           /\ \A m \in DOMAIN Listed(req[r].arg) : Listed(req[r].arg)[m] \in Nat
<1>1. \A n \in DOMAIN req[r].arg : req[r].arg[n].value >= 0
  BY Statement DEF Placed
<1>2. req[r].arg \in Seq([member : Member, value : Int])
  BY Statement DEF Known, Arguments
<1>3. ASSUME NEW m \in DOMAIN Listed(req[r].arg)
      PROVE  m \in Member /\ Listed(req[r].arg)[m] \in Nat
  <2>1. PICK list : list = req[r].arg
    OBVIOUS
  <2>2. /\ Listed(list)[m] \in Nat
        /\ \E n \in DOMAIN list : list[n] \in [member : Member, value : Int] /\ list[n].member = m
    BY <1>1, <1>2, <1>3, <2>1, ListedAre
  <2>3. QED
    BY <2>1, <2>2
<1>4. QED
  BY <1>3

LEMMA ClearingIsMild ==
    ASSUME IInv, NEW r \in Request, clearTags(r) \/ deleteStakes(r) \/ upsertStakes(r)
    PROVE  WritesMildly(r) \/ Throw(r)
<1>1. CASE clearTags(r)
  <2> DEFINE rows == [k \in {<<req[r].with, x>> : x \in TagsOf(Visible(r), req[r].with)} |-> Absent]
  <2>1. Execute(r, "clearTags", TRUE, rows)
    BY <1>1 DEF clearTags
  <2>2. At(r, "clearTags")
    BY <1>1 DEF clearTags, Execute
  <2>3. req[r].op = "mergeItems"
    BY <2>2, StatementOf, Statement, StatementsAre
  <2>4. req[r].with \in ItemId
    BY <2>3, Statement DEF Known
  <2>5. \A k \in DOMAIN rows : k \in ItemId \X TagId
    <3> DEFINE X == TagsOf(Visible(r), req[r].with)
    <3>1. X \subseteq TagId
      BY DEF TagsOf
    <3> HIDE DEF X
    <3>2. QED
      BY <2>4, <3>1 DEF X
  <2>6. \A k \in DOMAIN rows : k \notin ItemId \X Member /\ k \notin ItemId
    BY <2>5, ItemKeys, EntitiesHaveKeys, KeysOfTables DEF Pair
  <2> HIDE DEF rows
  <2>7. QED
    BY <2>1, <2>6, OtherRowsAreMild
<1>2. ASSUME NEW K \in SUBSET Member, NEW rows, Throw(r) \/ Executes(r, rows),
             req[r].op \in SetsStakes, DOMAIN rows = {<<req[r].of, m>> : m \in K}
      PROVE  WritesMildly(r) \/ Throw(r)
  <2>1. SUFFICES ASSUME Executes(r, rows) PROVE WritesMildly(r)
    BY <1>2
  <2>2. Writes(r, rows)
    BY <2>1, ExecutesFreely
  <2>3. req[r].of \in ItemId
    BY <1>2, Statement DEF Known, OfItem, SetsStakes
  <2>4. ASSUME NEW i \in ItemId, ~SplitsAnew(r, i)
        PROVE  Mild(r, rows, i)
    <3>1. i # req[r].of
      BY <1>2, <2>4 DEF SplitsAnew
    <3>2. \A m \in Member : <<i, m>> \notin DOMAIN rows
      BY <1>2, <3>1
    <3>3. i \notin DOMAIN rows
      BY <1>2, <2>3, ItemKeys, PairsOf
    <3>4. QED
      BY <3>2, <3>3 DEF Mild
  <2>5. QED
    BY <2>2, <2>4 DEF WritesMildly
<1>3. CASE deleteStakes(r)
  <2> DEFINE K == StakesOf(Visible(r), req[r].of)
             rows == [k \in {<<req[r].of, m>> : m \in K} |-> Absent]
  <2>1. At(r, "deleteStakes") /\ (Throw(r) \/ Executes(r, rows))
    BY <1>3 DEF deleteStakes, Execute, Executes
  <2>2. req[r].op \in SetsStakes
    BY <2>1, StatementOf, Statement, StatementsAre DEF SetsStakes
  <2>3. K \in SUBSET Member
    BY DEF StakesOf
  <2>4. DOMAIN rows = {<<req[r].of, m>> : m \in K}
    OBVIOUS
  <2> HIDE DEF rows, K
  <2>5. QED
    BY <1>2, <2>1, <2>2, <2>3, <2>4
<1>4. CASE upsertStakes(r)
  <2> DEFINE stakes == Listed(req[r].arg)
             K == DOMAIN stakes
             rows == [k \in {<<req[r].of, m>> : m \in K} |-> [value |-> stakes[k[2]]]]
  <2>1. At(r, "upsertStakes") /\ (Throw(r) \/ Executes(r, rows))
    BY <1>4 DEF upsertStakes, Execute, Executes
  <2>2. req[r].op = "setItemStakes" /\ req[r].pc = 3
    BY <2>1, StatementOf, Statement, StatementsAre
  <2>3. K \in SUBSET Member
    BY <2>2, ListedMembers
  <2>4. DOMAIN rows = {<<req[r].of, m>> : m \in K}
    OBVIOUS
  <2> HIDE DEF rows, K, stakes
  <2>5. QED
    BY <1>2, <2>1, <2>2, <2>3, <2>4 DEF SetsStakes
<1>5. QED
  BY <1>1, <1>3, <1>4

LEMMA StakesAreWrittenMildly ==
    ASSUME IInv, NEW r \in Request, Begin(r) \/ Run(r) \/ Abort(r)
    PROVE  UNCHANGED tables \/ CommitTx(r) \/ RollbackTx(r) \/ WritesMildly(r)
<1>1. Throw(r) => RollbackTx(r)
  BY DEF Throw
<1>2. CASE Begin(r)
  BY <1>2, BeginPasses DEF Passes
<1>3. CASE Abort(r)
  BY <1>1, <1>3 DEF Abort
<1>4. CASE \/ setPayment(r) \/ titlePayments(r) \/ movePayments(r) \/ moveListed(r)
           \/ insertItemTag(r) \/ copyTags(r)
  <2>1. PICK statement, ok, rows :
            /\ Execute(r, statement, ok, rows)
            /\ \A k \in DOMAIN rows : k \in PaymentId \cup (ItemId \X TagId)
    BY <1>4, PaymentsAndTagsExecute
  <2>2. \A k \in DOMAIN rows : k \notin ItemId /\ k \notin ItemId \X Member
    BY <2>1, ItemKeys, EntitiesHaveKeys, KeysOfTables DEF Entity, Pair
  <2>3. QED
    BY <1>1, <2>1, <2>2, OtherRowsAreMild
<1>5. CASE Run(r)
  <2>1. CASE \/ insertWorkspace(r) \/ insertItem(r) \/ insertPayment(r) \/ insertTag(r)
             \/ insertExtracted(r)
    BY <1>1, <2>1, InsertsAreMild
  <2>2. CASE \/ setWorkspace(r) \/ setWorkspaceRule(r) \/ setItem(r) \/ setTag(r) \/ setRule(r)
             \/ clearRule(r)
    BY <1>1, <2>2, ColumnsAreMild
  <2>3. CASE \/ dropWorkspace(r) \/ dropItem(r) \/ dropPayment(r) \/ dropTag(r)
             \/ deleteItemTag(r) \/ deleteMerging(r) \/ clearTags(r) \/ deleteStakes(r)
             \/ upsertStakes(r)
    BY <1>1, <2>3, DeletesAreMild, ClearingIsMild
  <2>4. CASE \/ findItem(r) \/ checkPayer(r) \/ readTag(r) \/ checkNotAssigned(r)
             \/ checkAssigned(r) \/ readHost(r) \/ validatePayments(r) \/ readTags(r)
             \/ validateStakes(r) \/ readStakes(r)
    BY <1>1, <2>4, LookingPasses DEF Passes
  <2>5. CASE commit(r)
    BY <2>5 DEF commit
  <2>6. QED
    BY <1>4, <1>5, <2>1, <2>2, <2>3, <2>4, <2>5 DEF Run
<1>6. QED
  BY <1>2, <1>3, <1>5

-------------------------------------------------------------------------------
\* What a request that sets stakes has checked.

LEMMA SumOfZeros ==
  ASSUME NEW S, IsFiniteSet(S), NEW f, \A x \in S : f[x] = 0
  PROVE  SumFunctionOnSet(f, S) = 0
  <1> DEFINE Iterates(it) ==
        it = [s \in SUBSET S |-> IF s = {} THEN 0
                 ELSE LET x == CHOOSE x \in s : TRUE IN f[x] + it[s \ {x}]]
  <1>1. Iterates([s \in SUBSET S |-> 0])
    <2> DEFINE z == [s \in SUBSET S |-> 0]
    <2>1. ASSUME NEW s \in SUBSET S, s # {} PROVE
        LET x == CHOOSE x \in s : TRUE IN f[x] + z[s \ {x}] = 0
      <3> DEFINE x == CHOOSE x \in s : TRUE
      <3>1. x \in s
        BY <2>1
      <3>2. f[x] = 0 /\ s \ {x} \in SUBSET S
        BY <3>1
      <3> HIDE DEF x
      <3>3. z[s \ {x}] = 0
        BY <3>2
      <3>4. f[x] + z[s \ {x}] = 0
        BY <3>2, <3>3
      <3> QED
        BY <3>4 DEF x
    <2> QED
      BY <2>1
  <1> DEFINE it == CHOOSE it : Iterates(it)
  <1>2. Iterates(it)
    BY <1>1
  <1>3. SumFunctionOnSet(f, S) = it[S]
    BY DEF SumFunctionOnSet, FoldFunctionOnSet, MapThenFoldSet
  <1> HIDE DEF it
  <1>4. it[{}] = 0
    BY <1>2
  <1>5. ASSUME NEW s \in SUBSET S, s # {}
        PROVE  \E x \in s : it[s] = f[x] + it[s \ {x}]
    <2> DEFINE x == CHOOSE x \in s : TRUE
    <2>1. x \in s
      BY <1>5
    <2>2. it[s] = f[x] + it[s \ {x}]
      BY <1>2, <1>5
    <2> QED
      BY <2>1, <2>2
  <1> HIDE DEF Iterates
  <1> DEFINE T == {n \in Nat : \E s \in SUBSET S : Cardinality(s) = n /\ it[s] # 0}
  <1>6. T = {}
    <2> SUFFICES ASSUME T # {} PROVE FALSE
      OBVIOUS
    <2>1. PICK n \in T : \A m \in T : ~ (<<m, n>> \in OpToRel(<, Nat))
      BY NatLessThanWellFounded, WFMin
    <2>2. PICK s \in SUBSET S : Cardinality(s) = n /\ it[s] # 0
      OBVIOUS
    <2>3. s # {}
      BY <1>4, <2>2
    <2>4. PICK x \in s : it[s] = f[x] + it[s \ {x}]
      BY <1>5, <2>3
    <2>5. IsFiniteSet(s)
      BY FS_Subset
    <2>6. Cardinality(s \ {x}) = n - 1 /\ Cardinality(s \ {x}) \in Nat
      BY <2>2, <2>5, FS_RemoveElement, FS_CardinalityType
    <2>7. it[s \ {x}] # 0
      BY <2>2, <2>4
    <2>8. n - 1 \in T
      BY <2>6, <2>7
    <2> HIDE DEF T
    <2>9. n \in Nat
      BY DEF T
    <2>10. <<n - 1, n>> \in OpToRel(<, Nat)
      BY <2>6, <2>9 DEF OpToRel
    <2> QED
      BY <2>1, <2>8, <2>10
  <1>7. it[S] = 0
    BY <1>6, FS_CardinalityType
  <1> QED
    BY <1>3, <1>7

\* Stakes that do not add up to nothing have a positive one.
LEMMA ValidStakesAreUsable ==
    ASSUME NEW i, NEW list \in Seq([member : Member, value : Int]), ValidStakes(i, list)
    PROVE  /\ DOMAIN Listed(list) = {m \in Active : MemberOf[m] = i.workspace}
           /\ \E m \in DOMAIN Listed(list) : Listed(list)[m] > 0
<1> DEFINE members == [n \in DOMAIN list |-> list[n].member]
           values == [n \in DOMAIN list |-> list[n].value]
<1>1. /\ \A n, l \in DOMAIN list : list[n].member = list[l].member => n = l
      /\ Range(members) = {m \in Active : MemberOf[m] = i.workspace}
      /\ \A n \in DOMAIN list : list[n].value >= 0
      /\ SumFunction(values) > 0
  BY DEF ValidStakes, IsInjective, SumOfStakes
<1>2. DOMAIN Listed(list) = Range(members)
  BY DEF Listed, Range
<1>3. \A n \in DOMAIN list : list[n].value \in Int
  <2>1. PICK S : S = [member : Member, value : Int]
    OBVIOUS
  <2>2. list \in Seq(S)
    BY <2>1
  <2>3. \A n \in DOMAIN list : list[n] \in S
    BY <2>2
  <2>4. QED
    BY <2>1, <2>3
<1>4. PICK n \in DOMAIN list : list[n].value # 0
  <2> SUFFICES ASSUME \A n \in DOMAIN list : list[n].value = 0
               PROVE  FALSE
    OBVIOUS
  <2>1. IsFiniteSet(DOMAIN list)
    <3>1. PICK S : S = [member : Member, value : Int]
      OBVIOUS
    <3>2. list \in Seq(S)
      BY <3>1
    <3>3. DOMAIN list = 1..Len(list) /\ Len(list) \in Nat
      BY <3>2
    <3>4. QED
      BY <3>3, FS_Interval
  <2>2. \A n \in DOMAIN list : values[n] = 0
    OBVIOUS
  <2>3. DOMAIN values = DOMAIN list
    OBVIOUS
  <2> HIDE DEF values
  <2>4. SumFunctionOnSet(values, DOMAIN list) = 0
    BY <2>1, <2>2, SumOfZeros
  <2>5. SumFunction(values) = 0
    BY <2>3, <2>4 DEF SumFunction
  <2>6. QED
    BY <1>1, <2>5
<1>5. list[n].value > 0
  BY <1>1, <1>3, <1>4
<1>6. list[n].member \in DOMAIN Listed(list)
  BY DEF Listed
<1>7. Listed(list)[list[n].member] = list[n].value
  <2> DEFINE m == list[n].member
             s == CHOOSE s \in Range(list) : s.member = m
  <2>1. list[n] \in Range(list) /\ list[n].member = m
    BY DEF Range
  <2>2. s \in Range(list) /\ s.member = m
    BY <2>1
  <2>3. PICK l \in DOMAIN list : s = list[l]
    BY <2>2 DEF Range
  <2>4. l = n
    BY <1>1, <2>2, <2>3
  <2>5. Listed(list)[m] = s.value
    BY <1>6 DEF Listed
  <2>6. QED
    BY <2>3, <2>4, <2>5
<1>8. QED
  BY <1>1, <1>2, <1>5, <1>6, <1>7

\* A request in progress goes to its next statement or ends.
Ends(r) == req'[r] = Idle /\ (Throw(r) \/ commit(r))

LEMMA RunsMoveOrEnd ==
    ASSUME IInv, NEW r \in Request, Run(r) \/ Abort(r)
    PROVE  Moves(r) \/ Ends(r)
<1>0. DOMAIN req = Request
  BY Statement
<1>1. Throw(r) => Ends(r)
  BY <1>0 DEF Throw, Ends
<1>2. ASSUME NEW statement, NEW ok, NEW what, Read(r, statement, ok, what)
      PROVE  Moves(r) \/ Ends(r)
  BY <1>1, <1>2, ReadMoves DEF Read, Reads
<1>3. ASSUME NEW statement, NEW ok, NEW rows, Execute(r, statement, ok, rows)
      PROVE  Moves(r) \/ Ends(r)
  BY <1>1, <1>3, AdvanceMoves DEF Execute
<1>4. ASSUME NEW statement, NEW Ids, NEW row, Insert(r, statement, Ids, row)
      PROVE  Moves(r) \/ Ends(r)
  BY <1>1, <1>4, InsertDoes, InsertMoves
<1>5. CASE \/ insertWorkspace(r) \/ insertItem(r) \/ insertPayment(r) \/ insertTag(r)
           \/ insertExtracted(r)
  BY <1>4, <1>5 DEF insertWorkspace, insertItem, insertPayment, insertTag, insertExtracted
<1>6. CASE \/ findItem(r) \/ checkPayer(r) \/ readTag(r) \/ checkNotAssigned(r)
           \/ checkAssigned(r) \/ readHost(r) \/ validatePayments(r) \/ readTags(r)
           \/ validateStakes(r) \/ readStakes(r)
  BY <1>2, <1>6 DEF findItem, checkPayer, readTag, checkNotAssigned, checkAssigned, readHost,
     validatePayments, readTags, validateStakes, readStakes
<1>7. CASE \/ setWorkspace(r) \/ setWorkspaceRule(r) \/ setItem(r) \/ setTag(r) \/ setRule(r)
           \/ setPayment(r) \/ titlePayments(r) \/ movePayments(r) \/ moveListed(r)
           \/ insertItemTag(r) \/ copyTags(r) \/ upsertStakes(r) \/ clearTags(r) \/ deleteStakes(r)
  BY <1>3, <1>7 DEF setWorkspace, setWorkspaceRule, setItem, setTag, setRule, SetColumn,
     setPayment, titlePayments, movePayments, moveListed, MoveTo, insertItemTag, copyTags,
     upsertStakes, clearTags, deleteStakes
<1>8. CASE \/ dropWorkspace(r) \/ dropItem(r) \/ dropPayment(r) \/ dropTag(r)
           \/ deleteItemTag(r) \/ deleteMerging(r)
  BY <1>3, <1>8 DEF dropWorkspace, dropItem, dropPayment, dropTag, deleteItemTag, deleteMerging,
     Delete
<1>9. CASE clearRule(r)
  BY <1>3, <1>9, AdvanceMoves DEF clearRule
<1>10. CASE commit(r) \/ Abort(r)
  BY <1>0, <1>1, <1>10 DEF commit, Abort, Ends
<1>11. QED
  BY <1>5, <1>6, <1>7, <1>8, <1>9, <1>10 DEF Run

\* Which statement runs at which place.
LEMMA StakeStatementsRun ==
    ASSUME NEW r \in Request, Run(r)
    PROVE  /\ Current(r) = "validateStakes" => validateStakes(r)
           /\ Current(r) = "upsertStakes" => upsertStakes(r)
           /\ Current(r) = "clearRule" => clearRule(r)
           /\ Current(r) = "setRule" => setRule(r)
           /\ Current(r) = "deleteStakes" => deleteStakes(r)
BY DEF Run, At, insertWorkspace, insertItem, insertPayment, insertTag, insertExtracted, Insert,
   findItem, checkPayer, readTag, checkNotAssigned, checkAssigned, readHost,
   validatePayments, readTags, readStakes, Read,
   setWorkspace, setWorkspaceRule, setItem, setTag, SetColumn,
   setPayment, titlePayments, movePayments, moveListed, MoveTo, insertItemTag, copyTags,
   clearTags, dropWorkspace, dropItem, dropPayment, dropTag,
   deleteItemTag, deleteMerging, Delete, Execute, commit,
   validateStakes, upsertStakes, clearRule, setRule, deleteStakes

\* setItemStakes starts with its check.
LEMMA FirstIsTheCheck ==
    ASSUME IInv, NEW r \in Request, Run(r), req[r].op = "setItemStakes", req[r].pc = 1,
           Moves(r)
    PROVE  ValidStakes(req[r].seen[req[r].of], req[r].arg)
<1>1. Current(r) = "validateStakes"
  BY DEF Current, Script
<1>2. validateStakes(r)
  BY <1>1, StakeStatementsRun
<1>3. ~Throw(r)
  <2>1. DOMAIN req = Request
    BY Statement
  <2>2. Idle.op = "none"
    BY DEF Idle
  <2>3. QED
    BY <2>1, <2>2 DEF Throw, Moves
<1>4. QED
  BY <1>2, <1>3 DEF validateStakes, Read

LEMMA ChecksStayOut ==
    ASSUME IInv, StakesInv, NEW r \in Request, Begin(r) \/ Run(r) \/ Abort(r),
           OthersWait(r), \A q \in Request \ {r} : Base(q)' = Base(q), NEW q \in Request
    PROVE  ChecksOut(q)'
<1>1. seat' = seat /\ (overlapped => overlapped')
  <2>1. Begin(r) => (overlapped => overlapped')
    BY BeginIsStart DEF Start
  <2>2. QED
    BY <2>1, SeatsStay, OverlapIsNoticedAtStart
<1>2. \A m : WasActive(m)' <=> WasActive(m)
  BY <1>1 DEF WasActive
<1>3. Active' = Active
  BY <1>1 DEF Active
<1>4. CASE q # r
  <2>1. req'[q] = req[q] /\ Base(q)' = Base(q) /\ ChecksOut(q)
    BY <1>4 DEF OthersWait, StakesInv
  <2>2. QED
    BY <1>1, <1>2, <1>3, <2>1 DEF ChecksOut
<1>5. CASE q = r /\ Begin(r)
  <2>1. PICK op, of, with, arg : Start(r, op, of, with, arg)
    BY <1>5, BeginIsStart
  <2>2. req'[r].pc = 1
    BY <2>1, Statement DEF Start, Idle
  <2>3. QED
    BY <1>5, <2>2 DEF ChecksOut
<1>6. CASE q = r /\ Ends(r)
  BY <1>6 DEF Ends, ChecksOut, Idle
<1>7. CASE q = r /\ (Run(r) \/ Abort(r)) /\ Moves(r)
  <2>1. /\ req'[r].op = req[r].op /\ req'[r].pc = req[r].pc + 1 /\ req[r].pc \in Nat
        /\ req'[r].of = req[r].of /\ req'[r].seen = req[r].seen /\ req'[r].arg = req[r].arg
        /\ req[r].pc > 0
    BY <1>7, Statement DEF Moves
  <2>2. SUFFICES ASSUME req[r].op = "setItemStakes"
                 PROVE  /\ \A m \in DOMAIN Listed(req[r].arg) : WasActive(m)
                        /\ ~overlapped => DOMAIN Listed(req[r].arg) = {m \in Active : MemberOf[m] = Base(r)}
                        /\ \E m \in DOMAIN Listed(req[r].arg) : Listed(req[r].arg)[m] > 0
    <3>1. req[r].op = "setItemStakes" => Base(r)' = Base(r)
      BY <2>1 DEF Base
    <3>2. QED
      BY <1>1, <1>2, <1>3, <1>7, <2>1, <3>1 DEF ChecksOut
  <2>3. CASE req[r].pc > 1
    BY <2>2, <2>3 DEF StakesInv, ChecksOut
  <2>4. CASE req[r].pc = 1
    <3>1. Run(r)
      <4>1. Abort(r) => req'[r] = Idle
        BY Statement DEF Abort, Throw
      <4>2. Idle.op = "none"
        BY DEF Idle
      <4>3. QED
        BY <1>7, <2>1, <2>2, <4>1, <4>2
    <3>2. ValidStakes(req[r].seen[req[r].of], req[r].arg)
      BY <1>7, <2>2, <2>4, <3>1, FirstIsTheCheck
    <3>3. req[r].arg \in Seq([member : Member, value : Int])
      BY <2>2, Statement DEF Known, Arguments
    <3>4. Base(r) = req[r].seen[req[r].of].workspace
      BY <2>2, BasesAre DEF OfItem
    <3>5. PICK i, list : i = req[r].seen[req[r].of] /\ list = req[r].arg
      OBVIOUS
    <3>6. /\ DOMAIN Listed(list) = {m \in Active : MemberOf[m] = i.workspace}
          /\ \E m \in DOMAIN Listed(list) : Listed(list)[m] > 0
      BY <3>2, <3>3, <3>5, ValidStakesAreUsable
    <3>7. \A m \in Active : WasActive(m)
      BY DEF Active, WasActive
    <3>8. QED
      BY <3>4, <3>5, <3>6, <3>7
  <2>5. QED
    BY <2>1, <2>3, <2>4
<1>8. QED
  BY <1>4, <1>5, <1>6, <1>7, RunsMoveOrEnd

-------------------------------------------------------------------------------
\* What a request has written it keeps until it ends, and nobody else touches it.
LEMMA OthersLeaveItAlone ==
    ASSUME IInv, NEW r \in Request, Kinds(r), NEW q \in Request \ {r}, NEW k \in Key
    PROVE  /\ holder[k] = q => holder'[k] = q /\ draft'[k] = draft[k] /\ db'[k] = db[k]
           /\ holder'[k] = q => holder[k] = q
<1>1. \/ UNCHANGED tables
      \/ \E rows : Writes(r, rows)
      \/ CommitTx(r)
      \/ RollbackTx(r)
  BY StepsTouch
<1>2. holder[k] = q => ~Free(r, k)
  BY NoRequestIsNoRequest DEF Free
<1>3. holder[k] = q => holder'[k] = q /\ draft'[k] = draft[k] /\ db'[k] = db[k]
  BY <1>1, <1>2, HeldRowsStay
<1>4. holder'[k] = q => holder[k] = q
  <2>1. UNCHANGED tables => holder'[k] = holder[k]
    BY DEF tables
  <2>2. (\E rows : Writes(r, rows)) => holder'[k] \in {r, holder[k]}
    BY WrittenRow
  <2>3. CommitTx(r) \/ RollbackTx(r) => holder'[k] \in {NoRequest, holder[k]}
    BY CommitRow, RollbackRow
  <2>4. QED
    BY <1>1, <2>1, <2>2, <2>3, NoRequestIsNoRequest
<1>5. QED
  BY <1>3, <1>4

LEMMA OthersKeepTheirStakes ==
    ASSUME IInv, StakesInv, NEW r \in Request, Kinds(r), OthersWait(r), NEW q \in Request \ {r}
    PROVE  /\ Wrote(q)' /\ RuleSet(q)'
           /\ \A i \in ItemId : Kept(q, i)'
<1>1. req'[q] = req[q]
  BY DEF OthersWait
<1>2. Wrote(q)'
  <2>1. SUFFICES ASSUME req[q].op = "setItemStakes", req[q].pc > 3,
                        NEW m \in DOMAIN Listed(req[q].arg)
                 PROVE  /\ holder'[<<req[q].of, m>>] = q
                        /\ draft'[<<req[q].of, m>>] = [value |-> Listed(req[q].arg)[m]]
    BY <1>1 DEF Wrote
  <2>2. /\ holder[<<req[q].of, m>>] = q
        /\ draft[<<req[q].of, m>>] = [value |-> Listed(req[q].arg)[m]]
    BY <2>1 DEF StakesInv, Wrote
  <2>3. req[q].of \in ItemId /\ m \in Member
    BY <2>1, Statement, ListedMembers DEF Known, OfItem
  <2>4. QED
    BY <2>2, <2>3, StakeKeys, OthersLeaveItAlone
<1>3. RuleSet(q)'
  <2>1. SUFFICES ASSUME req[q].op = "setItemStakeRule", req[q].pc > 2
                 PROVE  holder'[req[q].of] = q /\ draft'[req[q].of].stakeRule # Null
    BY <1>1 DEF RuleSet
  <2>2. holder[req[q].of] = q /\ draft[req[q].of].stakeRule # Null
    BY <2>1 DEF StakesInv, RuleSet
  <2>3. req[q].of \in Key
    BY <2>1, Statement, ItemKeys DEF Known, OfItem
  <2>4. QED
    BY <2>2, <2>3, OthersLeaveItAlone
<1>4. ASSUME NEW i \in ItemId
      PROVE  Kept(q, i)'
  <2>1. /\ holder[i] = q => holder'[i] = q /\ draft'[i] = draft[i] /\ db'[i] = db[i]
        /\ holder'[i] = q => holder[i] = q
    BY ItemKeys, OthersLeaveItAlone
  <2>2. \A m \in Member : holder'[<<i, m>>] = q => holder[<<i, m>>] = q
    BY StakeKeys, OthersLeaveItAlone
  <2>3. Kept(q, i)
    BY DEF StakesInv
  <2>4. SplitsAnew(q, i)' <=> SplitsAnew(q, i)
    BY <1>1 DEF SplitsAnew
  <2>5. QED
    BY <2>1, <2>2, <2>3, <2>4 DEF Kept
<1>5. QED
  BY <1>2, <1>3, <1>4

\* A request that holds nothing has touched nothing.
LEMMA HoldingNothing ==
    ASSUME NEW r \in Request, \A k \in Key : holder'[k] # r, NEW i \in ItemId
    PROVE  Kept(r, i)'
BY ItemKeys, StakeKeys DEF Kept

\* The request's own statements.
LEMMA MildWritesKeep ==
    ASSUME IInv, StakesInv, NEW r \in Request, NEW rows, Writes(r, rows), NEW i \in ItemId,
           Mild(r, rows, i)
    PROVE  Kept(r, i)' \/ SplitsAnew(r, i)
<1>1. /\ i \in Key /\ db'[i] = db[i]
      /\ i \in DOMAIN rows => draft'[i] = rows[i] /\ holder'[i] = r /\ holder[i] \in {r, NoRequest}
      /\ i \notin DOMAIN rows => draft'[i] = draft[i] /\ holder'[i] = holder[i]
  BY ItemKeys, WrittenRow
<1>2. CASE i \in DOMAIN rows /\ rows[i] = Gone
  BY <1>1, <1>2 DEF Kept
<1>3. CASE ~(i \in DOMAIN rows /\ rows[i] = Gone)
  <2>1. \A m \in Member : holder'[<<i, m>>] = holder[<<i, m>>]
    BY <1>3, StakeKeys, WrittenRow DEF Mild
  <2>2. Kept(r, i)
    BY DEF StakesInv
  <2>3. CASE i \notin DOMAIN rows
    BY <1>1, <2>1, <2>2, <2>3 DEF Kept
  <2>4. CASE i \in DOMAIN rows /\ draft[i] = Absent
    <3>1. db[i] = Absent
      BY <2>4, ItemKeys, VersionsAre
    <3>2. QED
      BY <1>1, <2>1, <2>2, <2>4, <3>1, MissingRowsAreNoRows DEF Kept
  <2>5. CASE i \in DOMAIN rows /\ Exists(Visible(r)[i]) /\ rows[i].stakeRule = Visible(r)[i].stakeRule
    <3>1. Visible(r)[i] = IF holder[i] = r THEN draft[i] ELSE db[i]
      BY <1>1, ReadsRow
    <3>2. CASE holder[i] = r
      BY <1>1, <2>1, <2>2, <2>5, <3>1, <3>2 DEF Kept, Exists
    <3>3. CASE holder[i] # r
      BY <1>1, <2>1, <2>2, <2>5, <3>1, <3>3 DEF Kept
    <3>4. QED
      BY <3>2, <3>3
  <2>6. QED
    BY <1>3, <2>3, <2>4, <2>5 DEF Mild
<1>4. QED
  BY <1>2, <1>3

LEMMA ItsOwnStakes ==
    ASSUME IInv, StakesInv, NEW r \in Request, Begin(r) \/ Run(r) \/ Abort(r), NEW i \in ItemId
    PROVE  Kept(r, i)'
<1>0. DOMAIN req = Request
  BY Statement
<1>1. CASE CommitTx(r) \/ RollbackTx(r)
  <2>1. \A k \in Key : holder'[k] # r
    BY <1>1, CommitRow, RollbackRow, NoRequestIsNoRequest
  <2>2. QED
    BY <2>1, HoldingNothing
<1>2. CASE Begin(r)
  <2>1. PICK op, of, with, arg : Start(r, op, of, with, arg)
    BY <1>2, BeginIsStart
  <2>2. req[r].op = "none" /\ holder' = holder
    BY <2>1 DEF Start
  <2>3. \A k \in Key : holder'[k] # r
    BY <2>2 DEF IInv, HeldOK
  <2>4. QED
    BY <2>3, HoldingNothing
<1>3. CASE (Run(r) \/ Abort(r)) /\ ~(CommitTx(r) \/ RollbackTx(r))
  <2>1. Moves(r)
    BY <1>3, RunsMoveOrEnd DEF Ends, Throw, commit
  <2>2. SplitsAnew(r, i)' <=> SplitsAnew(r, i)
    BY <2>1 DEF Moves, SplitsAnew
  <2>3. CASE UNCHANGED tables
    <3>1. db' = db /\ draft' = draft /\ holder' = holder
      BY <2>3 DEF tables
    <3>2. QED
      BY <2>2, <3>1 DEF StakesInv, Kept
  <2>4. CASE WritesMildly(r)
    <3>1. PICK rows :
            /\ Writes(r, rows)
            /\ \A j \in ItemId : SplitsAnew(r, j) \/ Mild(r, rows, j)
      BY <2>4 DEF WritesMildly
    <3>2. CASE SplitsAnew(r, i)
      BY <2>2, <3>2 DEF Kept
    <3>3. CASE ~SplitsAnew(r, i)
      BY <3>1, <3>3, MildWritesKeep
    <3>4. QED
      BY <3>2, <3>3
  <2>5. QED
    BY <1>3, <2>3, <2>4, StakesAreWrittenMildly
<1>4. QED
  BY <1>1, <1>2, <1>3

LEMMA ItsOwnWrites ==
    ASSUME IInv, IInv', StakesInv, NEW r \in Request, Begin(r) \/ Run(r) \/ Abort(r)
    PROVE  Wrote(r)' /\ RuleSet(r)'
<1> DEFINE of == req[r].of
<1>1. CASE Begin(r)
  <2>1. PICK op, o, with, arg : Start(r, op, o, with, arg)
    BY <1>1, BeginIsStart
  <2>2. req'[r].pc = 1
    BY <2>1, Statement DEF Start, Idle
  <2>3. QED
    BY <2>2 DEF Wrote, RuleSet
<1>2. CASE Ends(r)
  BY <1>2 DEF Ends, Wrote, RuleSet, Idle
<1>3. CASE (Run(r) \/ Abort(r)) /\ Moves(r) /\ ~Ends(r)
  <2>1. /\ req'[r].op = req[r].op /\ req'[r].pc = req[r].pc + 1 /\ req[r].pc \in Nat
        /\ req'[r].of = of /\ req'[r].arg = req[r].arg
    BY <1>3, Statement DEF Moves
  <2>2. req'[r].pc \in 1..Len(Script[req'[r].op])
    BY DEF IInv, RequestsOK, Placed
  <2>3. DOMAIN req = Request /\ Current(r) = Script[req[r].op][req[r].pc]
    BY Statement
  <2>4. ~Throw(r) /\ ~commit(r)
    BY <1>3, <2>3 DEF Ends, Throw, commit
  <2>5. Run(r)
    BY <1>3, <2>4 DEF Abort
  <2>6. CASE req[r].op = "setItemStakes" /\ req[r].pc > 2
    <3> DEFINE L == Listed(req[r].arg)
    <3>1. of \in ItemId /\ DOMAIN L \subseteq Member
      BY <2>6, Statement, ListedMembers DEF Known, OfItem
    <3>2. Len(Script["setItemStakes"]) = 5
      BY DEF Script
    <3>3. req[r].pc \in {3, 4}
      BY <2>1, <2>2, <2>6, <3>2
    <3>4. CASE req[r].pc = 3
      <4> DEFINE rows == [k \in {<<of, m>> : m \in DOMAIN L} |-> [value |-> L[k[2]]]]
      <4>1. Current(r) = "upsertStakes"
        BY <2>3, <2>6, <3>4 DEF Script
      <4>2. Executes(r, rows)
        BY <2>4, <2>5, <4>1, StakeStatementsRun DEF upsertStakes, Execute, Executes
      <4>3. Put(r, rows)
        BY <4>2 DEF Executes
      <4> HIDE DEF L
      <4>4. \A m \in DOMAIN L : <<of, m>> \in DOMAIN rows /\ rows[<<of, m>>] = [value |-> L[m]]
        OBVIOUS
      <4> HIDE DEF rows
      <4>5. \A m \in DOMAIN L : holder'[<<of, m>>] = r /\ draft'[<<of, m>>] = [value |-> L[m]]
        BY <3>1, <4>3, <4>4, StakeKeys, PutRow
      <4>6. QED
        BY <2>1, <2>6, <4>5 DEF Wrote, RuleSet, L
    <3>5. CASE req[r].pc = 4
      <4> DEFINE rows == [i \in Found(r, {of}) |-> [Visible(r)[i] EXCEPT !.stakeRule = Null]]
      <4>1. Current(r) = "clearRule"
        BY <2>3, <2>6, <3>5 DEF Script
      <4>2. UNCHANGED tables \/ Executes(r, rows)
        BY <2>4, <2>5, <4>1, StakeStatementsRun DEF clearRule, Execute, Executes
      <4>3. DOMAIN rows \subseteq {of}
        BY DEF Found
      <4> HIDE DEF rows, L
      <4>4. \A m \in DOMAIN L :
                /\ holder'[<<of, m>>] = holder[<<of, m>>]
                /\ draft'[<<of, m>>] = draft[<<of, m>>]
        <5>1. CASE UNCHANGED tables
          BY <5>1 DEF tables
        <5>2. CASE Executes(r, rows)
          BY <3>1, <4>3, <5>2, StakeKeys, ItemKeys, PutRow DEF Executes
        <5>3. QED
          BY <4>2, <5>1, <5>2
      <4>5. \A m \in DOMAIN L : holder[<<of, m>>] = r /\ draft[<<of, m>>] = [value |-> L[m]]
        BY <2>6, <3>5 DEF StakesInv, Wrote, L
      <4>6. QED
        BY <2>1, <2>6, <4>4, <4>5 DEF Wrote, RuleSet, L
    <3>6. QED
      BY <3>3, <3>4, <3>5
  <2>7. CASE req[r].op = "setItemStakeRule" /\ req[r].pc > 1
    <3>1. of \in ItemId /\ of \in Key /\ of \notin Pair
      BY <2>7, Statement, ItemKeys DEF Known, OfItem
    <3>2. Len(Script["setItemStakeRule"]) = 4
      BY DEF Script
    <3>3. req[r].pc \in {2, 3}
      BY <2>1, <2>2, <2>7, <3>2
    <3>4. CASE req[r].pc = 2
      <4> DEFINE rows == [k \in Found(r, {of}) |-> [Visible(r)[k] EXCEPT !["stakeRule"] = req[r].arg]]
      <4>1. Current(r) = "setRule"
        BY <2>3, <2>7, <3>4 DEF Script
      <4>2. Executes(r, rows) /\ DOMAIN rows # {}
        BY <2>4, <2>5, <4>1, StakeStatementsRun DEF setRule, SetColumn, Execute, Executes
      <4>3. of \in DOMAIN rows /\ Exists(Visible(r)[of])
        BY <4>2 DEF Found
      <4>4. Visible(r)[of] \in ItemRow
        BY <3>1, <4>3, SeesTyped, ItemKeys
      <4>5. rows[of].stakeRule = req[r].arg
        BY <4>3, <4>4 DEF ItemRow
      <4>6. req[r].arg # Null
        BY <2>7, Statement, ClientsSendValues DEF Known, Arguments
      <4> HIDE DEF rows
      <4>7. holder'[of] = r /\ draft'[of] = rows[of]
        BY <3>1, <4>2, <4>3, PutRow DEF Executes
      <4>8. QED
        BY <2>1, <2>7, <4>5, <4>6, <4>7 DEF Wrote, RuleSet
    <3>5. CASE req[r].pc = 3
      <4> DEFINE K == StakesOf(Visible(r), of)
                 rows == [k \in {<<of, m>> : m \in K} |-> Absent]
      <4>1. Current(r) = "deleteStakes"
        BY <2>3, <2>7, <3>5 DEF Script
      <4>2. Executes(r, rows)
        BY <2>4, <2>5, <4>1, StakeStatementsRun DEF deleteStakes, Execute, Executes
      <4>3. K \subseteq Member
        BY DEF StakesOf
      <4>4. \A k \in DOMAIN rows : \E m \in K : k = <<of, m>>
        OBVIOUS
      <4> HIDE DEF rows, K
      <4>5. of \notin DOMAIN rows
        BY <3>1, <4>3, <4>4, PairsOf
      <4>6. holder'[of] = holder[of] /\ draft'[of] = draft[of]
        BY <3>1, <4>2, <4>5, PutRow DEF Executes
      <4>7. holder[of] = r /\ draft[of].stakeRule # Null
        BY <2>7, <3>5 DEF StakesInv, RuleSet
      <4>8. QED
        BY <2>1, <2>7, <4>6, <4>7 DEF Wrote, RuleSet
    <3>6. QED
      BY <3>3, <3>4, <3>5
  <2>8. CASE /\ ~(req[r].op = "setItemStakes" /\ req[r].pc > 2)
             /\ ~(req[r].op = "setItemStakeRule" /\ req[r].pc > 1)
    BY <2>1, <2>8 DEF Wrote, RuleSet
  <2>9. QED
    BY <2>6, <2>7, <2>8
<1>4. QED
  BY <1>1, <1>2, <1>3, RunsMoveOrEnd

LEMMA NextKeepsStakesInv == IInv /\ IInv' /\ StakesInv /\ [Next]_vars => StakesInv'
<1> SUFFICES ASSUME IInv, IInv', StakesInv, [Next]_vars PROVE StakesInv'
  OBVIOUS
<1>1. CASE UNCHANGED vars
  <2>1. UNCHANGED <<db, draft, holder, req, seat, overlapped>>
    BY <1>1 DEF vars
  <2>2. \A q : Base(q)' = Base(q)
    BY <2>1 DEF Base
  <2>3. Active' = Active /\ \A m : WasActive(m)' <=> WasActive(m)
    BY <2>1 DEF Active, WasActive
  <2>4. \A q \in Request : ChecksOut(q)'
    BY <2>1, <2>2, <2>3 DEF StakesInv, ChecksOut
  <2>5. QED
    BY <2>1, <2>4 DEF StakesInv, Wrote, RuleSet, Kept, SplitsAnew
<1>2. ASSUME NEW r \in Request, Begin(r) \/ Run(r) \/ Abort(r)
      PROVE  StakesInv'
  <2>1. Kinds(r)
    BY <1>2, StepsAre
  <2>2. OthersWait(r) /\ \A q \in Request \ {r} : Base(q)' = Base(q)
    BY <2>1, RequestsAre, RequestsStayOK
  <2>3. \A q \in Request : ChecksOut(q)'
    BY <1>2, <2>2, ChecksStayOut
  <2>4. \A q \in Request \ {r} : Wrote(q)' /\ RuleSet(q)' /\ \A i \in ItemId : Kept(q, i)'
    BY <2>1, <2>2, OthersKeepTheirStakes
  <2>5. Wrote(r)' /\ RuleSet(r)' /\ \A i \in ItemId : Kept(r, i)'
    BY <1>2, ItsOwnWrites, ItsOwnStakes
  <2>6. QED
    BY <2>3, <2>4, <2>5 DEF StakesInv
<1>3. ASSUME NEW m \in Member, SeatTaken(m) \/ SeatLost(m)
      PROVE  StakesInv'
  <2>1. /\ UNCHANGED <<db, draft, holder, req>>
        /\ seat' = [seat EXCEPT ![m] = "active"] \/ seat' = [seat EXCEPT ![m] = "removed"]
        /\ overlapped' = (overlapped \/ \E q \in Request : req[q].op # "none")
    BY <1>3 DEF SeatTaken, SeatLost, SeatChanges
  <2>2. \A q : Base(q)' = Base(q)
    BY <2>1 DEF Base
  <2>3. \A n : WasActive(n) => WasActive(n)'
    BY <2>1 DEF WasActive, IInv, TypeOK
  <2>4. \A q \in Request : ChecksOut(q)'
    BY <2>1, <2>2, <2>3 DEF StakesInv, ChecksOut
  <2>5. QED
    BY <2>1, <2>4 DEF StakesInv, Wrote, RuleSet, Kept, SplitsAnew
<1>4. QED
  BY <1>1, <1>2, <1>3 DEF Next

LEMMA InitialStakesInv == Init => StakesInv
<1> SUFFICES ASSUME Init PROVE StakesInv
  OBVIOUS
<1>1. /\ \A r \in Request : req[r] = Idle
      /\ \A k \in Key : holder[k] = NoRequest
  BY DEF Init
<1>2. \A r \in Request, i \in ItemId : Kept(r, i)
  BY <1>1, ItemKeys, StakeKeys, NoRequestIsNoRequest DEF Kept
<1>3. ASSUME NEW r \in Request
      PROVE  ChecksOut(r) /\ Wrote(r) /\ RuleSet(r)
  <2>1. req[r].op = "none"
    BY <1>1 DEF Idle
  <2>2. QED
    BY <2>1 DEF ChecksOut, Wrote, RuleSet
<1>4. QED
  BY <1>2, <1>3 DEF StakesInv

-------------------------------------------------------------------------------
\* What a commit does to an item that is split by custom stakes.

LEMMA ListedStakesCount ==
    ASSUME IInv, StakesInv, NEW r \in Request, commit(r), req[r].op = "setItemStakes",
           NEW i, i = req[r].of
    PROVE  \/ Usable(i)'
           \/ \E s \in Range(req[r].arg) : s.value > 0 /\ seat[s.member] = "removed"
<1> DEFINE list == req[r].arg
           L == Listed(list)
<1>1. req[r].pc = 5 /\ i \in ItemId
  <2>1. At(r, "commit")
    BY DEF commit
  <2>2. Script[req[r].op][req[r].pc] = "commit" /\ req[r].pc \in 1..Len(Script[req[r].op])
    BY <2>1, StatementOf, Statement
  <2>3. req[r].pc = 5
    BY <2>2 DEF Script
  <2>4. QED
    BY <2>3, Statement DEF Known, OfItem
<1>2. DOMAIN L \subseteq Member /\ \A m \in DOMAIN L : L[m] \in Nat
  BY <1>1, ListedMembers
<1>3. PICK m \in DOMAIN L : L[m] > 0 /\ WasActive(m)
  <2>1. ChecksOut(r) /\ req[r].pc > 1
    BY <1>1 DEF StakesInv
  <2>2. QED
    BY <2>1 DEF ChecksOut
<1>4. holder[<<i, m>>] = r /\ draft[<<i, m>>] = [value |-> L[m]]
  BY <1>1, <1>3 DEF StakesInv, Wrote
<1>5. m \in Member /\ db'[<<i, m>>] = [value |-> L[m]] /\ seat' = seat
  BY <1>1, <1>2, <1>3, <1>4, StakeKeys, CommitRow DEF commit
<1>6. [value |-> L[m]] \in StakeRow /\ [value |-> L[m]].value = L[m]
  BY <1>2, <1>3 DEF StakeRow
<1>7. CASE seat[m] = "active"
  <2>1. m \in StakesOf(db', i) \cap Active'
    BY <1>5, <1>6, <1>7, MissingRowsAreNoRows DEF StakesOf, Exists, Active
  <2>2. db'[<<i, m>>].value > 0
    BY <1>3, <1>5, <1>6
  <2>3. QED
    BY <2>1, <2>2 DEF Usable
<1>8. CASE seat[m] # "active"
  <2>1. seat[m] = "removed"
    BY <1>3, <1>8 DEF WasActive, IInv, TypeOK
  <2>2. PICK n \in DOMAIN list : list[n].member = m
    BY <1>3 DEF Listed
  <2> DEFINE s == CHOOSE s \in Range(list) : s.member = m
  <2>3. list[n] \in Range(list)
    BY <2>2 DEF Range
  <2>4. s \in Range(list) /\ s.member = m
    BY <2>2, <2>3
  <2>5. L[m] = s.value
    BY <1>3 DEF Listed
  <2>6. QED
    BY <1>3, <2>1, <2>4, <2>5
<1>9. QED
  BY <1>7, <1>8

LEMMA MissingItemsHaveNoStakes ==
    ASSUME IInv, NEW i \in ItemId, db[i] = Absent
    PROVE  StakesOf(db, i) = {}
<1>1. ASSUME NEW m \in Member, Exists(db[<<i, m>>])
      PROVE  FALSE
  <2>1. <<i, m>> \in Key /\ <<i, m>> \in Pair /\ <<i, m>>[1] = i
    BY PairsOf
  <2>2. i \in Parents(<<i, m>>, db[<<i, m>>])
    BY <2>1, KeysOfTables DEF Parents, Entity
  <2>3. Exists(db[i])
    BY <1>1, <2>1, <2>2 DEF IInv, OneWorkspaceEach, OneWorkspace
  <2>4. QED
    BY <2>3 DEF Exists
<1>2. QED
  BY <1>1 DEF StakesOf

LEMMA CommitsLeaveUsable ==
    ASSUME IInv, IInv', StakesInv, NEW r \in Request, commit(r), NEW i \in ItemId, Usable(i)
    PROVE  \/ Usable(i)'
           \/ /\ req[r].op = "setItemStakes" /\ req[r].of = i
              /\ \E s \in Range(req[r].arg) : s.value > 0 /\ seat[s.member] = "removed"
<1>1. CommitTx(r) /\ seat' = seat /\ i \in Key
  BY ItemKeys DEF commit
<1>2. Active' = Active
  BY <1>1 DEF Active
<1>3. CASE SplitsAnew(r, i) /\ req[r].op = "setItemStakes"
  BY <1>3, ListedStakesCount DEF SplitsAnew
<1>4. CASE SplitsAnew(r, i) /\ req[r].op = "setItemStakeRule"
  <2>1. At(r, "commit")
    BY DEF commit
  <2>2. Script[req[r].op][req[r].pc] = "commit" /\ req[r].pc \in 1..Len(Script[req[r].op])
    BY <2>1, StatementOf, Statement
  <2>3. req[r].pc = 4
    BY <1>4, <2>2 DEF Script
  <2>4. holder[i] = r /\ draft[i].stakeRule # Null
    BY <1>4, <2>3 DEF StakesInv, RuleSet, SplitsAnew
  <2>5. db'[i].stakeRule # Null
    BY <1>1, <2>4, CommitRow
  <2>6. QED
    BY <2>5 DEF Usable
<1>5. CASE holder[i] = r /\ draft[i] = Gone
  <2>1. ~Exists(db'[i])
    BY <1>1, <1>5, CommitRow DEF Exists
  <2>2. QED
    BY <2>1 DEF Usable
<1>6. CASE /\ \A m \in Member : holder[<<i, m>>] # r
           /\ holder[i] = r => db[i] = Absent \/ draft[i].stakeRule = db[i].stakeRule
  <2>1. \A m \in Member : db'[<<i, m>>] = db[<<i, m>>]
    BY <1>1, <1>6, StakeKeys, CommitRow
  <2>2. StakesOf(db', i) = StakesOf(db, i) /\ StakesOf(db, i) \subseteq Member
    BY <2>1 DEF StakesOf
  <2>3. CASE db[i] = Absent
    <3>1. StakesOf(db, i) = {}
      BY <2>3, MissingItemsHaveNoStakes
    <3>2. QED
      BY <2>2, <3>1 DEF Usable
  <2>4. CASE db[i] # Absent /\ Exists(db'[i])
    <3>1. Exists(db[i]) /\ db'[i].stakeRule = db[i].stakeRule
      <4>1. CASE holder[i] = r
        <5>1. db'[i] = draft[i] /\ draft[i].stakeRule = db[i].stakeRule
          BY <1>1, <1>6, <2>4, <4>1, CommitRow
        <5>2. Exists(db[i])
          BY <2>4, <5>1, ItemKeys, VersionsAre DEF Exists
        <5>3. QED
          BY <5>1, <5>2
      <4>2. CASE holder[i] # r
        BY <1>1, <2>4, <4>2, CommitRow
      <4>3. QED
        BY <4>1, <4>2
    <3>2. QED
      BY <1>2, <2>1, <2>2, <3>1 DEF Usable
  <2>5. CASE ~Exists(db'[i])
    BY <2>5 DEF Usable
  <2>6. QED
    BY <2>3, <2>4, <2>5
<1>7. Kept(r, i)
  BY DEF StakesInv
<1>8. QED
  BY <1>3, <1>4, <1>5, <1>6, <1>7 DEF Kept, SplitsAnew, SetsStakes

LEMMA StepsLeaveUsable ==
    ASSUME IInv, IInv', StakesInv, [Next]_vars, NEW i \in ItemId, Usable(i)
    PROVE  \/ Usable(i)'
           \/ \E m \in StakesOf(db, i) : db[<<i, m>>].value > 0 /\ SeatLost(m)
           \/ \E r \in Request :
                /\ req[r].op = "setItemStakes" /\ req[r].of = i /\ commit(r)
                /\ \E s \in Range(req[r].arg) : s.value > 0 /\ seat[s.member] = "removed"
<1>1. CASE db' = db /\ seat' = seat
  <2>1. Active' = Active
    BY <1>1 DEF Active
  <2>2. QED
    BY <1>1, <2>1 DEF Usable, StakesOf
<1>2. ASSUME NEW r \in Request, Begin(r) \/ Run(r) \/ Abort(r), ~commit(r)
      PROVE  db' = db
  <2>1. Kinds(r)
    BY <1>2, StepsAre
  <2>2. QED
    BY <1>2, <2>1 DEF Kinds, Passes, tables, Throw, RollbackTx, Changes, KeepsRows, DropsRows,
       Writes, Put
<1>3. ASSUME NEW r \in Request, Begin(r) \/ Run(r) \/ Abort(r)
      PROVE  \/ db' = db /\ seat' = seat
             \/ Usable(i)'
             \/ /\ commit(r) /\ req[r].op = "setItemStakes" /\ req[r].of = i
                /\ \E s \in Range(req[r].arg) : s.value > 0 /\ seat[s.member] = "removed"
  BY <1>2, <1>3, CommitsLeaveUsable, SeatsStay
<1>4. ASSUME NEW m \in Member, SeatTaken(m) \/ SeatLost(m)
      PROVE  \/ Usable(i)'
             \/ \E n \in StakesOf(db, i) : db[<<i, n>>].value > 0 /\ SeatLost(n)
  <2>1. /\ db' = db /\ seat \in [Member -> {"coming", "active", "removed"}]
        /\ SeatTaken(m) => seat' = [seat EXCEPT ![m] = "active"]
        /\ SeatLost(m) => seat' = [seat EXCEPT ![m] = "removed"]
    BY <1>4 DEF SeatTaken, SeatLost, SeatChanges, IInv, TypeOK
  <2>2. SUFFICES ASSUME Exists(db[i]), db[i].stakeRule = Null, StakesOf(db, i) # {}
                 PROVE  \/ Usable(i)'
                        \/ \E n \in StakesOf(db, i) : db[<<i, n>>].value > 0 /\ SeatLost(n)
    BY <2>1 DEF Usable, StakesOf
  <2>3. PICK n \in StakesOf(db, i) \cap Active : db[<<i, n>>].value > 0
    BY <2>2 DEF Usable
  <2>4. n \in Member /\ seat[n] = "active" /\ n \in StakesOf(db, i)
    BY <2>3 DEF Active
  <2>5. CASE n = m /\ SeatLost(m)
    BY <2>3, <2>4, <2>5
  <2>6. CASE ~(n = m /\ SeatLost(m))
    <3>1. n \in Active'
      BY <1>4, <2>1, <2>4, <2>6 DEF Active
    <3>2. StakesOf(db', i) = StakesOf(db, i)
      BY <2>1 DEF StakesOf
    <3>3. QED
      BY <2>1, <2>3, <2>4, <3>1, <3>2 DEF Usable
  <2>7. QED
    BY <2>5, <2>6
<1>5. CASE UNCHANGED vars
  BY <1>1, <1>5 DEF vars
<1>6. QED
  BY <1>1, <1>3, <1>4, <1>5 DEF Next

\* However setItemStakes, setItemStakeRule, merges, extractions, deletions and
\* members coming and going interleave: an item whose custom stakes can be used
\* loses that only when a member with a positive stake goes, or has gone between
\* the check of the stakes that a request sets and its commit.
THEOREM StakesStayUsable == Spec => CustomStakesUsable
<1>1. IInv /\ IInv' /\ StakesInv /\ [Next]_vars =>
        [\A i \in ItemId : Usable(i) =>
            \/ Usable(i)'
            \/ \E m \in StakesOf(db, i) : db[<<i, m>>].value > 0 /\ SeatLost(m)
            \/ \E r \in Request :
                /\ req[r].op = "setItemStakes" /\ req[r].of = i /\ commit(r)
                /\ \E s \in Range(req[r].arg) : s.value > 0 /\ seat[s.member] = "removed"]_vars
  BY StepsLeaveUsable
<1>2. QED
  BY <1>1, InitialIInv, NextKeepsIInv, InitialStakesInv, NextKeepsStakesInv, PTL
     DEF Spec, CustomStakesUsable

-------------------------------------------------------------------------------
(* Requests that do not overlap: what the audit log tells.                  *)

\* The tables whose titles a request may change.
Titled(op) ==
    IF op \in {"createWorkspace", "updateWorkspace", "updateWorkspaceStakeRule"} THEN Workspace
    ELSE IF op \in {"createItem", "updateItem", "deleteItem", "mergeItems"} THEN ItemId
    ELSE IF op \in OfPayment \cup {"createPayment"} THEN PaymentId
    ELSE IF op \in OfTag \cup {"createTag"} THEN TagId
    ELSE {}

Creates == {"createWorkspace", "createItem", "createPayment", "createTag"}

\* The row that the entry of request r is going to be about.
Subject(r) ==
    IF req[r].op \in Creates THEN req[r].made
    ELSE IF req[r].op = "mergeItems" THEN req[r].with
    ELSE req[r].of

\* What the pipes read is what is committed.
SawCommitted(r) ==
    /\ \A k \in {req[r].of, req[r].with} \cap Key : req[r].seen[k] = db[k]
    /\ req[r].op \in OfWorkspace => Exists(db[req[r].of])

\* Nothing is written before the handler has read what it tells of the state before.
Untouched(r) ==
    req[r].pc = 1 \/ (req[r].op = "setItemStakes" /\ req[r].pc = 2) =>
        \A k \in Key : draft[k] = db[k]

OneTitle(r) ==
    \A k \in Titled(req[r].op) : k # Subject(r) => TitleIn(draft, k) = TitleIn(db, k)

\* What is done of a create, update, deletion or merge, by the statement r is at.
Settled(r) ==
    LET q == req[r]
    IN /\ q.op \in Creates /\ q.pc > 1 =>
            /\ q.made \in Titled(q.op)
            /\ ~Exists(db[q.made])
            /\ Exists(draft[q.made])
       /\ \/ q.op \in {"updateWorkspace", "updateWorkspaceStakeRule", "updateItem"} /\ q.pc > 1
          \/ q.op \in {"updatePayment", "updateTag"} /\ q.pc > 2
          => Exists(draft[q.of])
       /\ \/ q.op = "deleteItem" /\ q.pc > 1
          \/ q.op \in {"deletePayment", "deleteTag"} /\ q.pc > 2
          => ~Exists(draft[q.of])
       /\ q.op \in OfTag /\ q.pc > 1 => q.got = db[q.of]
       /\ q.op = "mergeItems" /\ q.pc > 4 => ~Exists(draft[q.with])
       /\ q.op = "mergeItems" /\ q.pc > 5 => W!Field(q.got, "title") = TitleIn(draft, q.of)

\* The stakes in draft of the active members of item i.
ActiveStakes(t, i) == Restrict(StakeValues(t, i), StakesOf(t, i) \cap Active)

\* What is done of a change of stakes, by the statement r is at.
Split(r) ==
    LET q == req[r]
    IN /\ q.op = "setItemStakes" =>
            /\ q.pc > 2 => q.got = StakeValues(db, q.of)
            /\ q.pc > 3 => ActiveStakes(draft, q.of) = Listed(q.arg)
            /\ q.pc > 4 => draft[q.of].stakeRule = Null
       /\ q.op = "setItemStakeRule" =>
            /\ q.pc > 1 => q.got = StakeValues(db, q.of)
            /\ q.pc > 2 => draft[q.of].stakeRule = q.arg
            /\ q.pc > 3 => StakesOf(draft, q.of) = {}

Told(r) ==
    req[r].op # "none" =>
        SawCommitted(r) /\ Untouched(r) /\ OneTitle(r) /\ Settled(r) /\ Split(r)

TellingInv == overlapped \/ \A r \in Request : Told(r)

LEMMA TitledKeys ==
    ASSUME NEW op \in Op
    PROVE  /\ Titled(op) \subseteq Key
           /\ Titled(op) \in {Workspace, ItemId, PaymentId, TagId, {}}
BY EntitiesHaveKeys DEF Titled, Entity

\* Who is on its way has not ended.
LEMMA MovingIsNoEnd ==
    ASSUME IInv, NEW r \in Request, Moves(r), req[r].op # "none"
    PROVE  ~Throw(r) /\ ~commit(r)
<1>1. DOMAIN req = Request
  BY Statement
<1>2. Idle.op = "none"
  BY DEF Idle
<1>3. QED
  BY <1>1, <1>2 DEF Throw, commit, Moves

\* A statement of r of which only what it does to titles and stakes matters.
LEMMA MovingTells ==
    ASSUME IInv, NEW r \in Request, req[r].op # "none", Told(r), Moves(r),
           \A k \in Key : db'[k] = db[k],
           req[r].op = "setItemStakes" /\ req[r].pc = 1 => draft' = draft,
           \A k \in Titled(req[r].op) : k # Subject(r)' =>
                draft'[k] = draft[k] \/ TitleIn(draft, k)' = TitleIn(draft, k),
           req[r].op \in Creates => req[r].pc = 1,
           Settled(r)', Split(r)'
    PROVE  Told(r)'
<1>1. /\ req'[r].op = req[r].op /\ req'[r].of = req[r].of /\ req'[r].with = req[r].with
      /\ req'[r].seen = req[r].seen /\ req'[r].pc = req[r].pc + 1 /\ req[r].pc \in Nat
      /\ req[r].pc > 0 /\ req[r].op \in Op
  BY Statement DEF Moves
<1>2. SawCommitted(r)'
  <2>1. req[r].op \in OfWorkspace => req[r].of \in Key
    BY Statement, EntitiesHaveKeys DEF Known, Entity
  <2>2. SawCommitted(r)
    BY DEF Told
  <2>3. \A k \in {req[r].of, req[r].with} \cap Key : req'[r].seen[k] = db'[k]
    BY <1>1, <2>2 DEF SawCommitted
  <2>4. req[r].op \in OfWorkspace => Exists(db'[req[r].of])
    BY <2>1, <2>2 DEF SawCommitted
  <2>5. QED
    BY <1>1, <2>3, <2>4 DEF SawCommitted
<1>3. Untouched(r)'
  <2>1. req'[r].pc # 1
    BY <1>1
  <2>2. req[r].pc = 1 => \A k \in Key : draft[k] = db[k]
    BY DEF Told, Untouched
  <2>3. req'[r].op = "setItemStakes" /\ req'[r].pc = 2 => draft' = draft /\ req[r].pc = 1
    BY <1>1
  <2>4. QED
    BY <2>1, <2>2, <2>3 DEF Untouched
<1>4. OneTitle(r)'
  <2>1. SUFFICES ASSUME NEW k \in Titled(req[r].op), k # Subject(r)'
                 PROVE  TitleIn(draft, k)' = TitleIn(db, k)'
    BY <1>1 DEF OneTitle
  <2>2. k \in Key
    BY <1>1, <2>1, TitledKeys
  <2>3. TitleIn(draft, k) = TitleIn(db, k)
    <3>1. CASE req[r].op \in Creates
      <4>1. draft[k] = db[k]
        BY <2>2, <3>1 DEF Told, Untouched
      <4>2. QED
        BY <4>1 DEF TitleIn
    <3>2. CASE req[r].op \notin Creates
      <4>1. Subject(r)' = Subject(r)
        BY <1>1, <3>2 DEF Subject
      <4>2. QED
        BY <2>1, <4>1 DEF Told, OneTitle
    <3>3. QED
      BY <3>1, <3>2
  <2>4. TitleIn(draft, k)' = TitleIn(draft, k)
    BY <2>1 DEF TitleIn
  <2>5. TitleIn(db, k)' = TitleIn(db, k)
    BY <2>2 DEF TitleIn
  <2>6. QED
    BY <2>3, <2>4, <2>5
<1>5. QED
  BY <1>2, <1>3, <1>4 DEF Told

Plain == {"deleteWorkspace", "assignTag", "unassignTag", "extractAsItem"}

\* Requests whose entries tell of no titles.
LEMMA PlainTells ==
    ASSUME IInv, NEW r \in Request, req[r].op \in Plain, Told(r), Moves(r),
           \A k \in Key : db'[k] = db[k]
    PROVE  Told(r)'
<1>1. req'[r].op = req[r].op
  BY DEF Moves
<1>2. Titled(req[r].op) = {} /\ req[r].op \notin Creates
  BY DEF Plain, Titled, Creates, OfPayment, OfTag
<1>3. Settled(r)'
  BY <1>1 DEF Settled, Plain, Creates, OfTag
<1>4. Split(r)'
  BY <1>1 DEF Split, Plain
<1>5. QED
  BY <1>2, <1>3, <1>4, MovingTells DEF Plain

\* What a statement that writes the rows does.
LEMMA ExecutingMoves ==
    ASSUME IInv, NEW r \in Request, req[r].op # "none", Moves(r),
           NEW statement, NEW ok, NEW rows, Execute(r, statement, ok, rows)
    PROVE  /\ ok /\ Put(r, rows)
           /\ Script[req[r].op][req[r].pc] = statement
           /\ req'[r].got = req[r].got /\ req'[r].made = req[r].made
           /\ req'[r].op = req[r].op /\ req'[r].of = req[r].of /\ req'[r].with = req[r].with
           /\ req'[r].arg = req[r].arg /\ req'[r].pc = req[r].pc + 1
           /\ req[r].op \in Op /\ req[r].pc \in 1..Len(Script[req[r].op]) /\ req[r].pc \in Nat
           /\ \A k \in Key : db'[k] = db[k]
<1>1. ok /\ Put(r, rows) /\ Advance(r) /\ At(r, statement)
  BY MovingIsNoEnd DEF Execute
<1>2. QED
  BY <1>1, AdvanceMoves, StatementOf, Statement, PutRow DEF Moves

-------------------------------------------------------------------------------
LEMMA InsertingTells ==
    ASSUME IInv, NEW r \in Request, Told(r), Moves(r), req[r].op \in Creates,
           NEW statement, NEW row, Insert(r, statement, Titled(req[r].op), row),
           Exists(row), req[r].pc = 1
    PROVE  Told(r)'
<1>1. req[r].op # "none" /\ req[r].op \in Op
  BY Statement DEF Creates
<1>2. PICK k \in Titled(req[r].op) : Inserts(r, k, row)
  BY <1>1, MovingIsNoEnd, InsertDoes
<1>3. /\ req'[r].made = k /\ req'[r].op = req[r].op
      /\ Put(r, [x \in {k} |-> row]) /\ draft[k] = Absent
  <2>1. req'[r].made = k
    BY <1>2, InsertMoves
  <2>2. req'[r].op = req[r].op
    BY DEF Moves
  <2>3. QED
    BY <1>2, <2>1, <2>2 DEF Inserts, Executes
<1>4. k \in Key /\ k \in Entity
  <2>1. Titled(req[r].op) \subseteq Entity
    BY DEF Creates, Titled, Entity, OfPayment, OfTag
  <2>2. QED
    BY <2>1, EntitiesHaveKeys
<1>5. ~Exists(db[k])
  BY <1>3, <1>4, VersionsAre
<1>6. /\ \A x \in Key : db'[x] = db[x]
      /\ draft'[k] = row
      /\ \A x \in Key : x # k => draft'[x] = draft[x]
  BY <1>3, <1>4, PutRow
<1>7. Settled(r)'
  BY <1>2, <1>3, <1>4, <1>5, <1>6 DEF Settled, Creates, OfTag
<1>8. Split(r)'
  BY <1>3 DEF Split, Creates
<1>9. Subject(r)' = k
  BY <1>3 DEF Subject
<1>10. \A x \in Titled(req[r].op) : x # k => draft'[x] = draft[x]
  BY <1>1, <1>6, TitledKeys
<1>11. req[r].op # "setItemStakes"
  BY DEF Creates
<1>12. QED
  BY <1>1, <1>6, <1>7, <1>8, <1>9, <1>10, <1>11, MovingTells

LEMMA InsertsTell ==
    ASSUME IInv, NEW r \in Request, Told(r), Moves(r),
           insertWorkspace(r) \/ insertItem(r) \/ insertPayment(r) \/ insertTag(r)
    PROVE  Told(r)'
<1>0. /\ req[r].op \in Op /\ req[r].pc \in 1..Len(Script[req[r].op])
      /\ Current(r) = Script[req[r].op][req[r].pc] /\ Known(r)
  BY Statement
<1>1. CASE insertWorkspace(r)
  <2>1. At(r, "insertWorkspace")
    BY <1>1 DEF insertWorkspace, Insert
  <2>2. req[r].op = "createWorkspace" /\ req[r].pc = 1
    BY <1>0, <2>1, StatementsAre DEF At
  <2>3. req[r].op \in Creates /\ Titled(req[r].op) = Workspace
    BY <2>2 DEF Creates, Titled
  <2> DEFINE row == [title |-> req[r].arg, stakeRule |-> DefaultRule]
  <2>4. row \in WorkspaceRow
    BY <1>0, <2>2, ClientsSendValues DEF Known, Arguments, WorkspaceRow
  <2>5. Exists(row)
    BY <2>4, MissingRowsAreNoRows DEF Exists
  <2>6. Insert(r, "insertWorkspace", Workspace, row)
    BY <1>1 DEF insertWorkspace
  <2> HIDE DEF row
  <2>7. QED
    BY <2>2, <2>3, <2>5, <2>6, InsertingTells
<1>2. CASE insertItem(r)
  <2>1. At(r, "insertItem")
    BY <1>2 DEF insertItem, Insert
  <2>2. req[r].op = "createItem" /\ req[r].pc = 1
    BY <1>0, <2>1, StatementsAre DEF At
  <2>3. req[r].op \in Creates /\ Titled(req[r].op) = ItemId
    BY <2>2 DEF Creates, Titled
  <2> DEFINE row == [workspace |-> req[r].of, title |-> req[r].arg,
                     stakeRule |-> req[r].seen[req[r].of].stakeRule]
  <2>4. row \in ItemRow
    <3>1. req[r].seen[req[r].of] \in WorkspaceRow /\ req[r].of \in Workspace /\ req[r].arg \in Title
      BY <1>0, <2>2 DEF Known, Arguments, OfWorkspace
    <3>2. req[r].seen[req[r].of].stakeRule \in Rule
      BY <3>1 DEF WorkspaceRow
    <3>3. QED
      BY <3>1, <3>2 DEF ItemRow
  <2>5. Exists(row)
    BY <2>4, MissingRowsAreNoRows DEF Exists
  <2>6. Insert(r, "insertItem", ItemId, row)
    BY <1>2 DEF insertItem
  <2> HIDE DEF row
  <2>7. QED
    BY <2>2, <2>3, <2>5, <2>6, InsertingTells
<1>3. CASE insertPayment(r)
  <2>1. At(r, "insertPayment")
    BY <1>3 DEF insertPayment, Insert
  <2>2. req[r].op = "createPayment" /\ req[r].pc = 1
    BY <1>0, <2>1, StatementsAre DEF At
  <2>3. req[r].op \in Creates /\ Titled(req[r].op) = PaymentId
    BY <2>2 DEF Creates, Titled, OfPayment
  <2> DEFINE row == [item |-> req[r].of, payer |-> req[r].with, title |-> req[r].arg]
  <2>4. row \in PaymentRow
    BY <1>0, <2>2 DEF Known, Arguments, PaymentRow, OfItem
  <2>5. Exists(row)
    BY <2>4, MissingRowsAreNoRows DEF Exists
  <2>6. Insert(r, "insertPayment", PaymentId, row)
    BY <1>3 DEF insertPayment
  <2> HIDE DEF row
  <2>7. QED
    BY <2>2, <2>3, <2>5, <2>6, InsertingTells
<1>4. CASE insertTag(r)
  <2>1. At(r, "insertTag")
    BY <1>4 DEF insertTag, Insert
  <2>2. req[r].op = "createTag" /\ req[r].pc = 1
    BY <1>0, <2>1, StatementsAre DEF At
  <2>3. req[r].op \in Creates /\ Titled(req[r].op) = TagId
    BY <2>2 DEF Creates, Titled, OfPayment, OfTag
  <2> DEFINE row == [workspace |-> req[r].of, title |-> req[r].arg]
  <2>4. row \in TagRow
    BY <1>0, <2>2 DEF Known, Arguments, TagRow, OfWorkspace
  <2>5. Exists(row)
    BY <2>4, MissingRowsAreNoRows DEF Exists
  <2>6. Insert(r, "insertTag", TagId, row)
    BY <1>4 DEF insertTag
  <2> HIDE DEF row
  <2>7. QED
    BY <2>2, <2>3, <2>5, <2>6, InsertingTells
<1>5. QED
  BY <1>1, <1>2, <1>3, <1>4

\* Every script ends with its commit.
LEMMA LastStatements ==
    ASSUME NEW op \in Op, NEW pc \in 1..Len(Script[op])
    PROVE  /\ Script[op][pc] = "commit" =>
                /\ op # "none" /\ pc > 1 /\ pc = Len(Script[op])
                /\ op \in {"updatePayment", "deletePayment", "updateTag", "deleteTag"} => pc = 3
                /\ op = "mergeItems" => pc = 6
                /\ op = "setItemStakes" => pc = 5
                /\ op = "setItemStakeRule" => pc = 4
           /\ Script[op][pc] = "readStakes" =>
                \/ op = "setItemStakes" /\ pc = 2
                \/ op = "setItemStakeRule" /\ pc = 1
<1>1. CASE op = "none"
  BY <1>1 DEF Script
<1>2. CASE op = "createWorkspace"
  BY <1>2 DEF Script
<1>3. CASE op = "updateWorkspace"
  BY <1>3 DEF Script
<1>4. CASE op = "updateWorkspaceStakeRule"
  BY <1>4 DEF Script
<1>5. CASE op = "deleteWorkspace"
  BY <1>5 DEF Script
<1>6. CASE op = "createItem"
  BY <1>6 DEF Script
<1>7. CASE op = "updateItem"
  BY <1>7 DEF Script
<1>8. CASE op = "deleteItem"
  BY <1>8 DEF Script
<1>9. CASE op = "createPayment"
  BY <1>9 DEF Script
<1>10. CASE op = "updatePayment"
  BY <1>10 DEF Script
<1>11. CASE op = "deletePayment"
  BY <1>11 DEF Script
<1>12. CASE op = "createTag"
  BY <1>12 DEF Script
<1>13. CASE op = "updateTag"
  BY <1>13 DEF Script
<1>14. CASE op = "deleteTag"
  BY <1>14 DEF Script
<1>15. CASE op = "assignTag"
  BY <1>15 DEF Script
<1>16. CASE op = "unassignTag"
  BY <1>16 DEF Script
<1>17. CASE op = "mergeItems"
  BY <1>17 DEF Script
<1>18. CASE op = "extractAsItem"
  BY <1>18 DEF Script
<1>19. CASE op = "setItemStakes"
  BY <1>19 DEF Script
<1>20. CASE op = "setItemStakeRule"
  BY <1>20 DEF Script
<1>21. op \in {"none", "createWorkspace", "updateWorkspace", "updateWorkspaceStakeRule",
             "deleteWorkspace", "createItem", "updateItem", "deleteItem", "createPayment",
             "updatePayment", "deletePayment", "createTag", "updateTag", "deleteTag",
             "assignTag", "unassignTag", "mergeItems", "extractAsItem", "setItemStakes",
             "setItemStakeRule"}
  BY OpsAre DEF OfWorkspace, OfItem, OfPayment, OfTag
<1>22. QED
  BY <1>1, <1>2, <1>3, <1>4, <1>5, <1>6, <1>7, <1>8, <1>9, <1>10,
     <1>11, <1>12, <1>13, <1>14, <1>15, <1>16, <1>17, <1>18, <1>19, <1>20, <1>21, Zenon

\* At which statements a request is what it is.
LEMMA Stands ==
    ASSUME IInv, NEW r \in Request, NEW s, At(r, s)
    PROVE  /\ s = "setWorkspace" => req[r].op = "updateWorkspace"
           /\ s = "setWorkspaceRule" => req[r].op = "updateWorkspaceStakeRule"
           /\ s = "setItem" => req[r].op = "updateItem"
           /\ s = "setTag" => req[r].op = "updateTag" /\ req[r].pc = 2
           /\ s = "checkPayer" => req[r].op = "updatePayment" /\ req[r].pc = 1
           /\ s = "setPayment" => req[r].op = "updatePayment" /\ req[r].pc = 2
           /\ s = "findItem" => req[r].op = "deletePayment" /\ req[r].pc = 1
           /\ s = "dropItem" => req[r].op = "deleteItem"
           /\ s = "dropPayment" => req[r].op = "deletePayment"
           /\ s = "readTag" => req[r].op \in OfTag /\ req[r].pc = 1
           /\ s = "dropTag" => req[r].op = "deleteTag" /\ req[r].pc = 2
           /\ s = "titlePayments" => req[r].op = "mergeItems" /\ req[r].pc = 1
           /\ s = "movePayments" => req[r].op = "mergeItems" /\ req[r].pc = 2
           /\ s = "clearTags" => req[r].op = "mergeItems" /\ req[r].pc = 3
           /\ s = "deleteMerging" => req[r].op = "mergeItems" /\ req[r].pc = 4
           /\ s = "readHost" => req[r].op = "mergeItems" /\ req[r].pc = 5
           /\ s = "validateStakes" => req[r].op = "setItemStakes" /\ req[r].pc = 1
           /\ s = "readStakes" =>
                \/ req[r].op = "setItemStakes" /\ req[r].pc = 2
                \/ req[r].op = "setItemStakeRule" /\ req[r].pc = 1
           /\ s = "upsertStakes" => req[r].op = "setItemStakes" /\ req[r].pc = 3
           /\ s = "clearRule" => req[r].op = "setItemStakes" /\ req[r].pc = 4
           /\ s = "setRule" => req[r].op = "setItemStakeRule" /\ req[r].pc = 2
           /\ s = "deleteStakes" => req[r].op = "setItemStakeRule" /\ req[r].pc = 3
           /\ s \in {"dropWorkspace", "checkNotAssigned", "insertItemTag", "checkAssigned",
                     "deleteItemTag", "validatePayments", "insertExtracted", "moveListed",
                     "readTags", "copyTags"} => req[r].op \in Plain
           /\ s = "commit" =>
                /\ req[r].op # "none" /\ req[r].pc > 1
                /\ req[r].op \in {"updatePayment", "deletePayment", "updateTag", "deleteTag"} =>
                        req[r].pc = 3
                /\ req[r].op = "mergeItems" => req[r].pc = 6
                /\ req[r].op = "setItemStakes" => req[r].pc = 5
                /\ req[r].op = "setItemStakeRule" => req[r].pc = 4
<1>1. /\ req[r].op \in Op /\ req[r].pc \in 1..Len(Script[req[r].op])
      /\ Script[req[r].op][req[r].pc] = s
  BY Statement, StatementOf
<1>2. PICK op \in Op : op = req[r].op
  BY <1>1
<1>3. PICK pc \in 1..Len(Script[op]) : pc = req[r].pc /\ Script[op][pc] = s
  BY <1>1, <1>2
<1>4. QED
  BY <1>2, <1>3, StatementsAre, LastStatements, SMTT(60) DEF Plain, OfTag

Updates == {"updateWorkspace", "updateWorkspaceStakeRule", "updateItem", "updatePayment",
            "updateTag"}

\* An update writes the row it is about, which is still there.
LEMMA UpdatingTells ==
    ASSUME IInv, NEW r \in Request, Told(r), Moves(r), req[r].op \in Updates,
           NEW statement, NEW rows, Execute(r, statement, DOMAIN rows # {}, rows),
           DOMAIN rows \subseteq {req[r].of}, req[r].of \in Key,
           req[r].of \in DOMAIN rows => Exists(rows[req[r].of]),
           req[r].op \in OfTag => req[r].pc > 1
    PROVE  Told(r)'
<1>1. req[r].op # "none" /\ req[r].op \notin Creates
  BY DEF Updates, Creates
<1>2. /\ DOMAIN rows # {} /\ Put(r, rows)
      /\ req'[r].got = req[r].got
      /\ req'[r].op = req[r].op /\ req'[r].of = req[r].of /\ req'[r].with = req[r].with
      /\ req'[r].pc = req[r].pc + 1 /\ req[r].pc \in Nat /\ req[r].op \in Op
      /\ \A k \in Key : db'[k] = db[k]
  BY <1>1, ExecutingMoves
<1>3. /\ Exists(draft'[req[r].of])
      /\ \A k \in Key : k # req[r].of => draft'[k] = draft[k]
  BY <1>2, PutRow
<1>4. Settled(r)'
  <2>1. req[r].op \in OfTag => req[r].got = db[req[r].of]
    BY <1>1 DEF Told, Settled
  <2>2. QED
    BY <1>2, <1>3, <2>1 DEF Settled, Updates, Creates
<1>5. Split(r)'
  BY <1>2 DEF Split, Updates
<1>6. Subject(r)' = req[r].of
  BY <1>2, <1>1 DEF Subject, Updates
<1>7. \A k \in Titled(req[r].op) : k # Subject(r)' => draft'[k] = draft[k]
  BY <1>2, <1>3, <1>6, TitledKeys
<1>8. req[r].op # "setItemStakes"
  BY DEF Updates
<1>9. QED
  BY <1>1, <1>2, <1>4, <1>5, <1>7, <1>8, MovingTells

LEMMA SettingTells ==
    ASSUME IInv, NEW r \in Request, Told(r), Moves(r), req[r].op \in Updates,
           NEW statement, NEW column, SetColumn(r, statement, column),
           req[r].of \in Workspace \cup ItemId \cup TagId,
           \/ column = "title" /\ req[r].arg \in Title
           \/ column = "stakeRule" /\ req[r].arg \in Rule /\ req[r].of \notin TagId,
           req[r].op \in OfTag => req[r].pc > 1
    PROVE  Told(r)'
<1> DEFINE k == req[r].of
           rows == [x \in Found(r, {k}) |-> [Visible(r)[x] EXCEPT ![column] = req[r].arg]]
<1>1. k \in Key
  BY EntitiesHaveKeys DEF Entity
<1>2. k \in DOMAIN rows => Exists(rows[k])
  <2>1. HAVE k \in DOMAIN rows
  <2>2. Visible(r)[k] \in RowOf(k)
    BY <1>1, <2>1, SeesTyped DEF Found
  <2>3. rows[k] = [Visible(r)[k] EXCEPT ![column] = req[r].arg]
    BY <2>1
  <2>4. PICK row \in RowOf(k) : row = Visible(r)[k]
    BY <2>2
  <2>5. [row EXCEPT ![column] = req[r].arg] \in RowOf(k)
    BY <1>1, SetColumnRow
  <2>6. QED
    BY <1>1, <2>3, <2>4, <2>5, RowsExist
<1>3. DOMAIN rows \subseteq {k}
  BY DEF Found
<1>4. Execute(r, statement, DOMAIN rows # {}, rows)
  BY DEF SetColumn
<1> HIDE DEF rows
<1>5. QED
  BY <1>1, <1>2, <1>3, <1>4, UpdatingTells

LEMMA SettersTell ==
    ASSUME IInv, NEW r \in Request, Told(r), Moves(r),
           setWorkspace(r) \/ setWorkspaceRule(r) \/ setItem(r) \/ setTag(r)
    PROVE  Told(r)'
<1>0. Known(r)
  BY Statement
<1>1. CASE setWorkspace(r)
  <2>1. SetColumn(r, "setWorkspace", "title") /\ At(r, "setWorkspace")
    BY <1>1 DEF setWorkspace, SetColumn, Execute
  <2>2. req[r].op = "updateWorkspace"
    BY <2>1, Stands
  <2>3. req[r].of \in Workspace /\ req[r].arg \in Title
    BY <1>0, <2>2 DEF Known, Arguments, OfWorkspace
  <2>4. req[r].op \in Updates /\ req[r].op \notin OfTag
    BY <2>2 DEF Updates, OfTag
  <2>5. QED
    BY <2>1, <2>3, <2>4, SettingTells
<1>2. CASE setWorkspaceRule(r)
  <2>1. SetColumn(r, "setWorkspaceRule", "stakeRule") /\ At(r, "setWorkspaceRule")
    BY <1>2 DEF setWorkspaceRule, SetColumn, Execute
  <2>2. req[r].op = "updateWorkspaceStakeRule"
    BY <2>1, Stands
  <2>3. req[r].of \in Workspace /\ req[r].arg \in Rule
    BY <1>0, <2>2 DEF Known, Arguments, OfWorkspace
  <2>4. req[r].of \notin TagId
    BY <2>3, EntitiesHaveKeys, KeysOfTables DEF Entity
  <2>5. req[r].op \in Updates /\ req[r].op \notin OfTag
    BY <2>2 DEF Updates, OfTag
  <2>6. QED
    BY <2>1, <2>3, <2>4, <2>5, SettingTells
<1>3. CASE setItem(r)
  <2>1. SetColumn(r, "setItem", "title") /\ At(r, "setItem")
    BY <1>3 DEF setItem, SetColumn, Execute
  <2>2. req[r].op = "updateItem"
    BY <2>1, Stands
  <2>3. req[r].of \in ItemId /\ req[r].arg \in Title
    BY <1>0, <2>2 DEF Known, Arguments, OfItem
  <2>4. req[r].op \in Updates /\ req[r].op \notin OfTag
    BY <2>2 DEF Updates, OfTag
  <2>5. QED
    BY <2>1, <2>3, <2>4, SettingTells
<1>4. CASE setTag(r)
  <2>1. SetColumn(r, "setTag", "title") /\ At(r, "setTag")
    BY <1>4 DEF setTag, SetColumn, Execute
  <2>2. req[r].op = "updateTag" /\ req[r].pc = 2
    BY <2>1, Stands
  <2>3. req[r].of \in TagId /\ req[r].arg \in Title
    BY <1>0, <2>2 DEF Known, Arguments, OfTag
  <2>4. req[r].op \in Updates /\ req[r].pc > 1
    BY <2>2 DEF Updates
  <2>5. QED
    BY <2>1, <2>3, <2>4, SettingTells
<1>5. QED
  BY <1>1, <1>2, <1>3, <1>4

LEMMA setPaymentTells ==
    ASSUME IInv, NEW r \in Request, Told(r), Moves(r), setPayment(r)
    PROVE  Told(r)'
<1> DEFINE k == req[r].of
           rows == [p \in Found(r, {k}) |->
                        [Visible(r)[p] EXCEPT !.payer = req[r].with, !.title = req[r].arg]]
<1>1. At(r, "setPayment") /\ Execute(r, "setPayment", DOMAIN rows # {}, rows)
  BY DEF setPayment, Execute
<1>2. req[r].op = "updatePayment"
  BY <1>1, Stands
<1>3. /\ k \in PaymentId /\ k \in Key /\ req[r].with \in Member
      /\ req[r].arg \in Title \cup {Null}
  BY <1>2, Statement, EntitiesHaveKeys DEF Known, Arguments, OfPayment, Entity
<1>4. k \in DOMAIN rows => Exists(rows[k])
  <2>1. HAVE k \in DOMAIN rows
  <2>2. Visible(r)[k] \in RowOf(k)
    BY <1>3, <2>1, SeesTyped DEF Found
  <2>3. Visible(r)[k] \in PaymentRow
    BY <1>3, <2>2, KeysOfTables DEF RowOf
  <2>4. PICK row \in PaymentRow : row = Visible(r)[k]
    BY <2>3
  <2>5. PICK new : new = [row EXCEPT !.payer = req[r].with, !.title = req[r].arg]
    OBVIOUS
  <2>6. new \in PaymentRow
    BY <1>3, <2>5 DEF PaymentRow
  <2>7. rows[k] = new
    BY <2>1, <2>4, <2>5
  <2>8. QED
    BY <2>6, <2>7, MissingRowsAreNoRows DEF Exists
<1>5. DOMAIN rows \subseteq {k}
  BY DEF Found
<1> HIDE DEF rows
<1>6. req[r].op \in Updates /\ req[r].op \notin OfTag
  BY <1>2 DEF Updates, OfTag
<1>7. QED
  BY <1>1, <1>3, <1>4, <1>5, <1>6, UpdatingTells

\* A deletion cascades over rows of other tables.
LEMMA FamilyIsElsewhere ==
    ASSUME IInv, NEW r \in Request, NEW k \in ItemId \cup PaymentId \cup TagId,
           NEW c \in Family(Visible(r), k), c # k
    PROVE  c \in Key /\ ((c \in PaymentId /\ k \in ItemId) \/ c \in Pair)
<1>1. k \in Key /\ k \notin Workspace /\ k \notin Pair
  BY EntitiesHaveKeys, KeysOfTables DEF Entity
<1>2. ASSUME NEW x \in Key, Exists(Visible(r)[x]), NEW p \in Parents(x, Visible(r)[x])
      PROVE  /\ p \notin Pair /\ p \notin PaymentId
             /\ p \notin Workspace => x \in PaymentId \cup Pair
             /\ x \in PaymentId => p \in ItemId
  <2>1. Visible(r)[x] \in RowOf(x)
    BY <1>2, SeesTyped
  <2>2. /\ p \in Entity /\ p \notin Pair /\ p \notin PaymentId /\ x \notin Workspace
        /\ x \in ItemId \cup TagId => p \in Workspace
    BY <2>1, Levels
  <2>3. x \in PaymentId => p \in ItemId
    BY <2>1, ParentsAre
  <2>4. QED
    BY <2>2, <2>3, KeysOfTables DEF Entity
<1>3. \A x \in ChildrenOf(Visible(r), {k}) : x \in Key /\ ((x \in PaymentId /\ k \in ItemId) \/ x \in Pair)
  BY <1>1, <1>2 DEF ChildrenOf
<1>4. ChildrenOf(Visible(r), ChildrenOf(Visible(r), {k})) = {}
  BY <1>2, <1>3 DEF ChildrenOf
<1>5. QED
  BY <1>3, <1>4, FamilyIs

Deletes == {"deleteItem", "deletePayment", "deleteTag"}

LEMMA DroppingTells ==
    ASSUME IInv, NEW r \in Request, Told(r), Moves(r), req[r].op \in Deletes \cup {"mergeItems"},
           NEW statement, NEW k, Delete(r, statement, k), k = Subject(r),
           k \in Titled(req[r].op),
           req[r].op \in OfTag => req[r].pc > 1,
           req[r].op = "mergeItems" => req[r].pc = 4
    PROVE  Told(r)'
<1>1. req[r].op # "none" /\ req[r].op \notin Creates /\ req[r].op # "setItemStakes"
  BY DEF Deletes, Creates
<1> DEFINE rows == [c \in Family(Visible(r), k) |-> Deleted(c)]
<1>2. Execute(r, statement, Exists(Visible(r)[k]), rows)
  BY DEF Delete
<1>3. k \in DOMAIN rows /\ rows[k] = Deleted(k)
  BY FamilyIs
<1>4. \A c \in DOMAIN rows : c = k \/ c \notin Titled(req[r].op)
  <2>1. ASSUME NEW c \in DOMAIN rows, c # k
        PROVE  c \notin Titled(req[r].op)
    <3>1. k \in ItemId \cup PaymentId \cup TagId
      BY DEF Deletes, Titled, OfPayment, OfTag
    <3>2. c \in Key /\ ((c \in PaymentId /\ k \in ItemId) \/ c \in Pair)
      BY <2>1, <3>1, FamilyIsElsewhere
    <3>3. k \in Key
      BY <3>1, EntitiesHaveKeys DEF Entity
    <3>4. Titled(req[r].op) \in {ItemId, PaymentId, TagId}
      BY DEF Deletes, Titled, OfPayment, OfTag
    <3>5. QED
      BY <3>2, <3>3, <3>4, KeysOfTables DEF Entity
  <2>2. QED
    BY <2>1
<1> HIDE DEF rows
<1>5. /\ Put(r, rows)
      /\ req'[r].got = req[r].got
      /\ req'[r].op = req[r].op /\ req'[r].of = req[r].of /\ req'[r].with = req[r].with
      /\ req'[r].pc = req[r].pc + 1 /\ req[r].pc \in Nat /\ req[r].op \in Op
      /\ \A x \in Key : db'[x] = db[x]
  BY <1>1, <1>2, ExecutingMoves
<1>6. Titled(req[r].op) \subseteq Key
  BY <1>5, TitledKeys
<1>7. ~Exists(draft'[k]) /\ \A x \in Titled(req[r].op) : x # k => draft'[x] = draft[x]
  BY <1>3, <1>4, <1>5, <1>6, PutRow DEF Deleted, Exists
<1>8. Subject(r)' = k
  BY <1>1, <1>5 DEF Subject
<1>9. Settled(r)'
  <2>1. req[r].op \in OfTag => req[r].got = db[req[r].of] /\ req[r].of \in Key
    BY <1>1, <1>6 DEF Told, Settled, Subject, OfTag
  <2>2. CASE req[r].op = "mergeItems"
    BY <1>5, <1>7, <2>2 DEF Settled, Subject, Creates, OfTag
  <2>3. CASE req[r].op \in Deletes
    BY <1>5, <1>7, <2>1, <2>3 DEF Settled, Subject, Creates, Deletes
  <2>4. QED
    BY <2>2, <2>3
<1>10. Split(r)'
  BY <1>5 DEF Split, Deletes
<1>11. QED
  BY <1>1, <1>5, <1>7, <1>8, <1>9, <1>10, MovingTells

LEMMA DropsTell ==
    ASSUME IInv, NEW r \in Request, Told(r), Moves(r),
           dropItem(r) \/ dropPayment(r) \/ dropTag(r) \/ deleteMerging(r)
    PROVE  Told(r)'
<1>0. Known(r)
  BY Statement
<1>1. CASE dropItem(r)
  <2>1. Delete(r, "dropItem", req[r].of) /\ At(r, "dropItem")
    BY <1>1 DEF dropItem, Delete, Execute
  <2>2. req[r].op = "deleteItem"
    BY <2>1, Stands
  <2>3. req[r].of \in ItemId
    BY <1>0, <2>2 DEF Known, OfItem
  <2>4. /\ req[r].op \in Deletes /\ req[r].op \notin OfTag /\ req[r].op # "mergeItems"
        /\ Titled(req[r].op) = ItemId /\ Subject(r) = req[r].of
    BY <2>2 DEF Deletes, OfTag, Titled, Subject, Creates
  <2>5. QED
    BY <2>1, <2>3, <2>4, DroppingTells
<1>2. CASE dropPayment(r)
  <2>1. Delete(r, "dropPayment", req[r].of) /\ At(r, "dropPayment")
    BY <1>2 DEF dropPayment, Delete, Execute
  <2>2. req[r].op = "deletePayment"
    BY <2>1, Stands
  <2>3. req[r].of \in PaymentId
    BY <1>0, <2>2 DEF Known, OfPayment
  <2>4. /\ req[r].op \in Deletes /\ req[r].op \notin OfTag /\ req[r].op # "mergeItems"
        /\ Titled(req[r].op) = PaymentId /\ Subject(r) = req[r].of
    BY <2>2 DEF Deletes, OfTag, OfPayment, Titled, Subject, Creates
  <2>5. QED
    BY <2>1, <2>3, <2>4, DroppingTells
<1>3. CASE dropTag(r)
  <2>1. Delete(r, "dropTag", req[r].of) /\ At(r, "dropTag")
    BY <1>3 DEF dropTag, Delete, Execute
  <2>2. req[r].op = "deleteTag" /\ req[r].pc = 2
    BY <2>1, Stands
  <2>3. req[r].of \in TagId
    BY <1>0, <2>2 DEF Known, OfTag
  <2>4. /\ req[r].op \in Deletes /\ req[r].op # "mergeItems" /\ req[r].pc > 1
        /\ Titled(req[r].op) = TagId /\ Subject(r) = req[r].of
    BY <2>2 DEF Deletes, OfTag, OfPayment, Titled, Subject, Creates
  <2>5. QED
    BY <2>1, <2>3, <2>4, DroppingTells
<1>4. CASE deleteMerging(r)
  <2>1. Delete(r, "deleteMerging", req[r].with) /\ At(r, "deleteMerging")
    BY <1>4 DEF deleteMerging, Delete, Execute
  <2>2. req[r].op = "mergeItems" /\ req[r].pc = 4
    BY <2>1, Stands
  <2>3. req[r].with \in ItemId
    BY <1>0, <2>2 DEF Known
  <2>4. /\ req[r].op \notin OfTag
        /\ Titled(req[r].op) = ItemId /\ Subject(r) = req[r].with
    BY <2>2 DEF OfTag, Titled, Subject, Creates
  <2>5. QED
    BY <2>1, <2>2, <2>3, <2>4, DroppingTells
<1>5. QED
  BY <1>1, <1>2, <1>3, <1>4

-------------------------------------------------------------------------------
\* What a statement that reads does.
LEMMA ReadingMovesOn ==
    ASSUME IInv, NEW r \in Request, req[r].op # "none", Moves(r),
           NEW what, Reads(r, what)
    PROVE  /\ db' = db /\ draft' = draft
           /\ req'[r].got = what
           /\ req'[r].op = req[r].op /\ req'[r].of = req[r].of /\ req'[r].with = req[r].with
           /\ req'[r].arg = req[r].arg /\ req'[r].pc = req[r].pc + 1
           /\ req[r].pc \in Nat
BY ReadMoves, Statement DEF Moves, tables

LEMMA LooksTell ==
    ASSUME IInv, NEW r \in Request, req[r].op # "none", Told(r), Moves(r), Exclusive,
           checkPayer(r) \/ findItem(r) \/ readTag(r) \/ readHost(r)
    PROVE  Told(r)'
<1>0. \A k \in Key : Visible(r)[k] = draft[k]
  BY TheOthersAreIdle DEF Exclusive
<1>1. CASE checkPayer(r) \/ findItem(r)
  <2>1. PICK statement, ok, what :
            statement \in {"checkPayer", "findItem"} /\ Read(r, statement, ok, what)
    BY <1>1 DEF checkPayer, findItem
  <2>2. req[r].op \in OfPayment /\ req[r].pc = 1
    BY <2>1, Stands DEF Read, OfPayment
  <2>3. /\ db' = db /\ draft' = draft
        /\ req'[r].op = req[r].op /\ req'[r].pc = 2
    <3>1. Reads(r, what)
      BY <2>1, MovingIsNoEnd DEF Read, Reads
    <3>2. QED
      BY <2>2, <3>1, ReadingMovesOn
  <2>4. Settled(r)' /\ Split(r)' /\ req[r].op \notin Creates /\ req[r].op # "setItemStakes"
    BY <2>2, <2>3 DEF Settled, Split, Creates, OfPayment, OfTag
  <2>5. QED
    BY <2>3, <2>4, MovingTells
<1>2. CASE readTag(r)
  <2>1. Read(r, "readTag", Exists(Visible(r)[req[r].of]), Visible(r)[req[r].of])
    BY <1>2 DEF readTag
  <2>2. req[r].op \in OfTag /\ req[r].pc = 1
    BY <2>1, Stands DEF Read
  <2>3. /\ db' = db /\ draft' = draft /\ req'[r].of = req[r].of
        /\ req'[r].op = req[r].op /\ req'[r].pc = 2
        /\ req'[r].got = Visible(r)[req[r].of]
    <3>1. Reads(r, Visible(r)[req[r].of])
      BY <2>1, MovingIsNoEnd DEF Read, Reads
    <3>2. QED
      BY <2>2, <3>1, ReadingMovesOn
  <2>4. req[r].of \in Key
    BY <2>2, Statement, EntitiesHaveKeys DEF Known, Entity
  <2>5. Visible(r)[req[r].of] = db[req[r].of]
    BY <1>0, <2>2, <2>4 DEF Told, Untouched
  <2>6. Settled(r)' /\ Split(r)' /\ req[r].op \notin Creates /\ req[r].op # "setItemStakes"
    BY <2>2, <2>3, <2>5 DEF Settled, Split, Creates, OfTag
  <2>7. QED
    BY <2>3, <2>6, MovingTells
<1>3. CASE readHost(r)
  <2> DEFINE row == Visible(r)[req[r].of]
             what == IF Exists(row) THEN W!Json(req[r].of, row) ELSE Null
  <2>1. Read(r, "readHost", TRUE, what)
    BY <1>3 DEF readHost
  <2> HIDE DEF what, row
  <2>2. req[r].op = "mergeItems" /\ req[r].pc = 5
    BY <2>1, Stands DEF Read
  <2>3. /\ db' = db /\ draft' = draft /\ req'[r].of = req[r].of /\ req'[r].with = req[r].with
        /\ req'[r].op = req[r].op /\ req'[r].pc = req[r].pc + 1
        /\ req'[r].got = what
    <3>1. Reads(r, what)
      BY <2>1, MovingIsNoEnd DEF Read, Reads
    <3>2. QED
      BY <3>1, ReadingMovesOn
  <2>4. req[r].of \in Key /\ req[r].of \in ItemId
    BY <2>2, Statement, EntitiesHaveKeys DEF Known, OfItem, Entity
  <2>5. row = draft[req[r].of] /\ (Exists(row) => row \in ItemRow)
    BY <1>0, <2>4, SeesTyped, KeysOfTables DEF RowOf, row
  <2>6. W!Field(what, "title") = TitleIn(draft, req[r].of)
    <3>1. CASE Exists(row)
      <4>1. what = W!Json(req[r].of, row)
        BY <3>1 DEF what
      <4>2. TitleIn(draft, req[r].of) = row.title
        BY <2>5, <3>1 DEF TitleIn
      <4>3. "title" \in DOMAIN row
        BY <2>5, <3>1 DEF ItemRow
      <4>4. what # Null
        BY <2>4, <2>5, <3>1, <4>1, NullIsNoRow
      <4>5. QED
        BY <4>1, <4>2, <4>3, <4>4 DEF W!Field, W!Json
    <3>2. CASE ~Exists(row)
      BY <2>5, <3>2 DEF W!Field, TitleIn, what
    <3>3. QED
      BY <3>1, <3>2
  <2>7. ~Exists(draft[req[r].with])
    BY <2>2 DEF Told, Settled
  <2>8. W!Field(what, "title") = TitleIn(draft', req[r].of)
    BY <2>3, <2>6
  <2>9. Settled(r)' /\ Split(r)' /\ req[r].op \notin Creates /\ req[r].op # "setItemStakes"
    BY <2>2, <2>3, <2>7, <2>8 DEF Settled, Split, Creates, OfTag
  <2>10. QED
    BY <2>3, <2>9, MovingTells
<1>4. QED
  BY <1>1, <1>2, <1>3

\* The statements of a merge that write payments and tags.
LEMMA MergingTells ==
    ASSUME IInv, NEW r \in Request, Told(r), Moves(r), req[r].op = "mergeItems",
           req[r].pc < 4,
           NEW statement, NEW rows, Execute(r, statement, TRUE, rows),
           \A k \in DOMAIN rows : k \in PaymentId \cup Pair
    PROVE  Told(r)'
<1>1. /\ Put(r, rows)
      /\ req'[r].op = req[r].op /\ req'[r].pc = req[r].pc + 1 /\ req[r].pc \in Nat
      /\ \A k \in Key : db'[k] = db[k]
  BY ExecutingMoves
<1>2. Titled(req[r].op) = ItemId
  BY DEF Titled
<1>3. \A k \in ItemId : k \in Key /\ k \notin DOMAIN rows
  BY EntitiesHaveKeys, KeysOfTables DEF Entity
<1>4. \A k \in ItemId : draft'[k] = draft[k]
  BY <1>1, <1>3, PutRow
<1>5. Settled(r)' /\ Split(r)' /\ req[r].op \notin Creates
  BY <1>1 DEF Settled, Split, Creates, OfTag
<1>6. QED
  BY <1>1, <1>2, <1>4, <1>5, MovingTells

LEMMA MergesTell ==
    ASSUME IInv, NEW r \in Request, Told(r), Moves(r),
           titlePayments(r) \/ movePayments(r) \/ clearTags(r)
    PROVE  Told(r)'
<1>1. CASE titlePayments(r)
  <2> DEFINE rows == [p \in {p \in PaymentsOf(Visible(r), req[r].with) : Visible(r)[p].title = Null} |->
                        [Visible(r)[p] EXCEPT !.title = req[r].seen[req[r].with].title]]
  <2>1. Execute(r, "titlePayments", TRUE, rows) /\ At(r, "titlePayments")
    BY <1>1 DEF titlePayments, Execute
  <2>2. \A k \in DOMAIN rows : k \in PaymentId
    BY DEF PaymentsOf
  <2> HIDE DEF rows
  <2>3. req[r].op = "mergeItems" /\ req[r].pc < 4
    BY <2>1, Stands
  <2>4. QED
    BY <2>1, <2>2, <2>3, MergingTells
<1>2. CASE movePayments(r)
  <2> DEFINE rows == [p \in Found(r, PaymentsOf(Visible(r), req[r].with)) |->
                        [Visible(r)[p] EXCEPT !.item = req[r].of]]
  <2>1. Execute(r, "movePayments", TRUE, rows) /\ At(r, "movePayments")
    BY <1>2 DEF movePayments, MoveTo, Execute
  <2>2. \A k \in DOMAIN rows : k \in PaymentId
    BY DEF PaymentsOf, Found
  <2> HIDE DEF rows
  <2>3. req[r].op = "mergeItems" /\ req[r].pc < 4
    BY <2>1, Stands
  <2>4. QED
    BY <2>1, <2>2, <2>3, MergingTells
<1>3. CASE clearTags(r)
  <2> DEFINE rows == [k \in {<<req[r].with, x>> : x \in TagsOf(Visible(r), req[r].with)} |-> Absent]
  <2>1. Execute(r, "clearTags", TRUE, rows) /\ At(r, "clearTags")
    BY <1>3 DEF clearTags, Execute
  <2>2. req[r].op = "mergeItems" /\ req[r].pc < 4
    BY <2>1, Stands
  <2>3. req[r].with \in ItemId
    BY <2>2, Statement DEF Known
  <2>4. \A k \in DOMAIN rows : k \in Pair
    BY <2>3, PairsOf DEF TagsOf
  <2> HIDE DEF rows
  <2>5. QED
    BY <2>1, <2>2, <2>4, MergingTells
<1>4. QED
  BY <1>1, <1>2, <1>3

-------------------------------------------------------------------------------
LEMMA SameStakeValues ==
    ASSUME NEW t, NEW u, NEW i, \A m \in Member : t[<<i, m>>] = u[<<i, m>>]
    PROVE  /\ StakesOf(t, i) = StakesOf(u, i)
           /\ StakeValues(t, i) = StakeValues(u, i)
           /\ ActiveStakes(t, i) = ActiveStakes(u, i)
<1>1. StakesOf(t, i) = StakesOf(u, i)
  BY DEF StakesOf
<1>2. \A m \in StakesOf(t, i) : t[<<i, m>>].value = u[<<i, m>>].value
  BY DEF StakesOf
<1>3. StakeValues(t, i) = StakeValues(u, i)
  BY <1>1, <1>2 DEF StakeValues
<1>4. QED
  BY <1>1, <1>3 DEF ActiveStakes

\* Requests about stakes change no titles.
LEMMA SplittingTells ==
    ASSUME IInv, NEW r \in Request, Told(r), Moves(r), req[r].op \in SetsStakes,
           \A k \in Key : db'[k] = db[k],
           req[r].op = "setItemStakes" /\ req[r].pc = 1 => draft' = draft,
           Split(r)'
    PROVE  Told(r)'
<1>1. req'[r].op = req[r].op
  BY DEF Moves
<1>2. Titled(req[r].op) = {} /\ req[r].op \notin Creates /\ req[r].op # "none"
  BY DEF SetsStakes, Titled, Creates, OfPayment, OfTag
<1>3. Settled(r)'
  BY <1>1 DEF Settled, SetsStakes, Creates, OfTag
<1>4. QED
  BY <1>2, <1>3, MovingTells

LEMMA readStakesTells ==
    ASSUME IInv, NEW r \in Request, Told(r), Moves(r), Exclusive, readStakes(r)
    PROVE  Told(r)'
<1> DEFINE i == req[r].of
           what == StakeValues(Visible(r), i)
<1>1. Read(r, "readStakes", TRUE, what) /\ At(r, "readStakes")
  BY DEF readStakes, Read
<1>2. \/ req[r].op = "setItemStakes" /\ req[r].pc = 2
      \/ req[r].op = "setItemStakeRule" /\ req[r].pc = 1
  BY <1>1, Stands
<1>3. req[r].op # "none" /\ req[r].op \in SetsStakes
  BY <1>2 DEF SetsStakes
<1>4. i \in ItemId
  BY <1>2, Statement DEF Known, OfItem
<1>5. what = StakeValues(db, i)
  <2>1. \A m \in Member : Visible(r)[<<i, m>>] = db[<<i, m>>]
    BY <1>2, <1>3, <1>4, StakeKeys, TheOthersAreIdle DEF Told, Untouched, Exclusive
  <2>2. QED
    BY <2>1, SameStakeValues
<1> HIDE DEF what
<1>6. /\ db' = db /\ draft' = draft /\ req'[r].got = what
      /\ req'[r].op = req[r].op /\ req'[r].of = i /\ req'[r].pc = req[r].pc + 1
  <2>1. Reads(r, what)
    BY <1>1, <1>3, MovingIsNoEnd DEF Read, Reads
  <2>2. QED
    BY <1>3, <2>1, ReadingMovesOn
<1>7. Split(r)'
  BY <1>2, <1>5, <1>6 DEF Split
<1>8. QED
  BY <1>3, <1>6, <1>7, SplittingTells

LEMMA validateStakesTells ==
    ASSUME IInv, NEW r \in Request, Told(r), Moves(r), validateStakes(r)
    PROVE  Told(r)'
<1>1. At(r, "validateStakes")
  BY DEF validateStakes, Read
<1>2. req[r].op = "setItemStakes" /\ req[r].pc = 1
  BY <1>1, Stands
<1>3. req[r].op # "none" /\ req[r].op \in SetsStakes
  BY <1>2 DEF SetsStakes
<1>4. Reads(r, Null)
  BY <1>3, MovingIsNoEnd DEF validateStakes, Read, Reads
<1>5. /\ db' = db /\ draft' = draft
      /\ req'[r].op = req[r].op /\ req'[r].pc = req[r].pc + 1
  BY <1>3, <1>4, ReadingMovesOn
<1>6. Split(r)'
  BY <1>2, <1>5 DEF Split
<1>7. QED
  BY <1>3, <1>5, <1>6, SplittingTells

\* An active member who is not listed has no stake.
LEMMA OthersHaveNoStake ==
    ASSUME IInv, NEW r \in Request, Exclusive, req[r].op = "setItemStakes", req[r].pc = 3,
           NEW m \in Member, MemberOf[m] # Base(r)
    PROVE  ~Exists(draft[<<req[r].of, m>>])
<1> DEFINE i == req[r].of
           k == <<i, m>>
<1>1. SUFFICES ASSUME Exists(draft[k]) PROVE FALSE
  OBVIOUS
<1>2. i \in ItemId /\ draft[i] = req[r].seen[i]
  BY Statement DEF Known, OfItem, Exclusive
<1>3. Base(r) = draft[i].workspace
  BY <1>2, BasesAre DEF OfItem
<1>4. k \in Key /\ k \in Pair /\ k \in ItemId \X Member /\ k[1] = i /\ k[2] = m
  BY <1>2, PairsOf
<1>5. k \notin Workspace /\ k \notin PaymentId
  BY <1>4, KeysOfTables DEF Entity
<1> HIDE DEF k
<1>6. HomeOf(draft, k) = MemberOf[m]
  BY <1>1, <1>4 DEF IInv, OneWorkspace
<1>7. HomeOf(draft, k) = draft[i].workspace
  BY <1>4, <1>5 DEF HomeOf
<1>8. QED
  BY <1>3, <1>6, <1>7

LEMMA upsertStakesTells ==
    ASSUME IInv, NEW r \in Request, Told(r), Moves(r), Exclusive, ~overlapped, ChecksOut(r),
           upsertStakes(r), seat' = seat
    PROVE  Told(r)'
<1> DEFINE i == req[r].of
           L == Listed(req[r].arg)
           rows == [k \in {<<i, m>> : m \in DOMAIN L} |-> [value |-> L[k[2]]]]
<1>1. At(r, "upsertStakes") /\ Execute(r, "upsertStakes", TRUE, rows)
  BY DEF upsertStakes, Execute
<1>2. req[r].op = "setItemStakes" /\ req[r].pc = 3
  BY <1>1, Stands
<1>3. req[r].op # "none" /\ req[r].op \in SetsStakes
  BY <1>2 DEF SetsStakes
<1>4. /\ i \in ItemId /\ req[r].arg \in Seq([member : Member, value : Int])
      /\ \A n \in DOMAIN req[r].arg : req[r].arg[n].value >= 0
  <2>1. i \in ItemId
    BY <1>2, Statement DEF Known, OfItem
  <2>2. req[r].arg \in Seq([member : Member, value : Int])
    BY <1>2, Statement DEF Known, Arguments
  <2>3. req[r].pc > 1
    BY <1>2
  <2>4. Placed(r)
    BY Statement
  <2>5. \A n \in DOMAIN req[r].arg : req[r].arg[n].value >= 0
    BY <1>2, <2>3, <2>4 DEF Placed
  <2>6. QED
    BY <2>1, <2>2, <2>5
<1>5. DOMAIN L = {m \in Active : MemberOf[m] = Base(r)} /\ DOMAIN L \subseteq Member
  <2>1. DOMAIN L = {m \in Active : MemberOf[m] = Base(r)}
    BY <1>2 DEF ChecksOut
  <2>2. Active \subseteq Member
    BY DEF Active
  <2>3. QED
    BY <2>1, <2>2
<1>6. \A m \in DOMAIN L : L[m] \in Nat
  BY <1>4, ListedAre
<1>7. L = [m \in DOMAIN L |-> L[m]]
  BY DEF Listed
<1> HIDE DEF L
<1>8. ASSUME NEW m \in DOMAIN L
      PROVE  /\ <<i, m>> \in DOMAIN rows
             /\ rows[<<i, m>>] = [value |-> L[m]]
  <2>1. <<i, m>> \in {<<i, n>> : n \in DOMAIN L} /\ <<i, m>>[2] = m
    OBVIOUS
  <2>2. QED
    BY <2>1
<1>9. \A m \in Member : <<i, m>> \in DOMAIN rows => m \in DOMAIN L
  OBVIOUS
<1> HIDE DEF rows
<1>10. /\ Put(r, rows)
       /\ req'[r].got = req[r].got /\ req'[r].arg = req[r].arg /\ req'[r].of = i
       /\ req'[r].op = req[r].op /\ req'[r].pc = req[r].pc + 1
       /\ \A k \in Key : db'[k] = db[k]
  BY <1>1, <1>3, ExecutingMoves
<1>11. ASSUME NEW m \in DOMAIN L
       PROVE  Exists(draft'[<<i, m>>]) /\ draft'[<<i, m>>].value = L[m]
  <2>1. m \in Member /\ <<i, m>> \in Key
    BY <1>4, <1>5, StakeKeys
  <2>2. draft'[<<i, m>>] = [value |-> L[m]]
    BY <1>8, <1>10, <2>1, PutRow
  <2>3. [value |-> L[m]] \in StakeRow
    BY <1>6 DEF StakeRow
  <2>4. QED
    BY <2>2, <2>3, MissingRowsAreNoRows DEF Exists
<1>12. ASSUME NEW m \in Member, m \in Active, m \notin DOMAIN L
       PROVE  ~Exists(draft'[<<i, m>>])
  <2>1. <<i, m>> \in Key /\ <<i, m>> \notin DOMAIN rows
    BY <1>4, <1>9, <1>12, StakeKeys
  <2>2. draft'[<<i, m>>] = draft[<<i, m>>]
    BY <1>10, <2>1, PutRow
  <2>3. MemberOf[m] # Base(r)
    BY <1>5, <1>12
  <2>4. QED
    BY <1>2, <2>2, <2>3, OthersHaveNoStake
<1>13. StakesOf(draft', i) \cap Active = DOMAIN L
  BY <1>5, <1>11, <1>12 DEF StakesOf
<1>14. ActiveStakes(draft', i) = L
  <2>1. \A m \in DOMAIN L : m \in StakesOf(draft', i)
    BY <1>13
  <2>2. \A m \in DOMAIN L : StakeValues(draft', i)[m] = L[m]
    BY <1>11, <2>1 DEF StakeValues
  <2>3. ActiveStakes(draft', i) = [m \in DOMAIN L |-> StakeValues(draft', i)[m]]
    BY <1>13 DEF ActiveStakes, Restrict
  <2>4. QED
    BY <1>7, <2>2, <2>3
<1>15. StakeValues(db', i) = StakeValues(db, i)
  <2>1. \A m \in Member : db'[<<i, m>>] = db[<<i, m>>]
    BY <1>4, <1>10, StakeKeys
  <2>2. QED
    BY <2>1, SameStakeValues
<1>16. Split(r)'
  <2>1. req[r].got = StakeValues(db, i)
    BY <1>2, <1>3 DEF Told, Split
  <2>2. req'[r].pc = 4
    BY <1>2, <1>10
  <2>3. ActiveStakes(draft', i) = Listed(req[r].arg)
    BY <1>14 DEF L
  <2>4. ActiveStakes(draft, req[r].of)' = ActiveStakes(draft', i)
    BY <1>10 DEF ActiveStakes, StakeValues, StakesOf, Active
  <2>5. QED
    BY <1>2, <1>10, <1>15, <2>1, <2>2, <2>3, <2>4 DEF Split
<1>17. QED
  BY <1>2, <1>3, <1>10, <1>16, SplittingTells

LEMMA clearRuleTells ==
    ASSUME IInv, NEW r \in Request, Told(r), Moves(r), Exclusive, clearRule(r), seat' = seat
    PROVE  Told(r)'
<1> DEFINE i == req[r].of
           rows == [x \in Found(r, {i}) |-> [Visible(r)[x] EXCEPT !.stakeRule = Null]]
<1>1. /\ At(r, "clearRule")
      /\ \/ Throw(r)
         \/ Put(r, rows) /\ DOMAIN rows # {}
         \/ req[r].seen[i].stakeRule = Null /\ UNCHANGED tables
  BY DEF clearRule, Execute
<1>2. req[r].op = "setItemStakes" /\ req[r].pc = 4
  BY <1>1, Stands
<1>3. req[r].op # "none" /\ req[r].op \in SetsStakes
  BY <1>2 DEF SetsStakes
<1>4. i \in ItemId /\ i \in Key
  BY <1>2, Statement, EntitiesHaveKeys DEF Known, OfItem, Entity
<1>5. draft[i] = req[r].seen[i] /\ Visible(r)[i] = draft[i]
  BY <1>2, <1>3, <1>4, TheOthersAreIdle DEF Exclusive
<1>6. /\ draft'[i].stakeRule = Null
      /\ \A k \in Key : db'[k] = db[k]
      /\ \A k \in Key : k # i => draft'[k] = draft[k]
  <2>1. CASE UNCHANGED tables /\ req[r].seen[i].stakeRule = Null
    BY <1>5, <2>1 DEF tables
  <2>2. CASE Put(r, rows) /\ DOMAIN rows # {}
    <3>1. DOMAIN rows = {i} /\ rows[i] = [draft[i] EXCEPT !.stakeRule = Null]
      BY <1>5, <2>2 DEF Found
    <3>2. draft[i] \in ItemRow
      BY <1>2, <1>5, Statement DEF Known, OfItem
    <3>3. rows[i].stakeRule = Null
      BY <3>1, <3>2 DEF ItemRow
    <3> HIDE DEF rows
    <3>4. draft'[i] = rows[i]
      BY <1>4, <2>2, <3>1, PutRow
    <3>5. \A k \in Key : db'[k] = db[k]
      BY <2>2, PutRow
    <3>6. \A k \in Key : k # i => draft'[k] = draft[k]
      BY <2>2, <3>1, PutRow
    <3>7. QED
      BY <3>3, <3>4, <3>5, <3>6
  <2>3. QED
    BY <1>1, <1>3, <2>1, <2>2, MovingIsNoEnd
<1> HIDE DEF rows
<1>7. \A m \in Member : draft'[<<i, m>>] = draft[<<i, m>>] /\ db'[<<i, m>>] = db[<<i, m>>]
  <2>1. ASSUME NEW m \in Member
        PROVE  <<i, m>> \in Key /\ <<i, m>> # i
    BY <1>4, EntitiesHaveKeys, PairsOf, KeysOfTables DEF Entity
  <2>2. QED
    BY <1>6, <2>1
<1>8. ActiveStakes(draft', i) = ActiveStakes(draft, i) /\ StakeValues(db', i) = StakeValues(db, i)
  BY <1>7, SameStakeValues
<1>9. Split(r)'
  <2>1. req[r].got = StakeValues(db, i) /\ ActiveStakes(draft, i) = Listed(req[r].arg)
    BY <1>2, <1>3 DEF Told, Split
  <2>2. /\ req'[r].op = req[r].op /\ req'[r].of = i /\ req'[r].arg = req[r].arg
        /\ req'[r].got = req[r].got
    <3>1. Advance(r)
      BY <1>1, <1>3, MovingIsNoEnd DEF clearRule, Execute
    <3>2. QED
      BY <3>1, Statement DEF Advance, Moves
  <2>3. ActiveStakes(draft, req[r].of)' = ActiveStakes(draft', i)
    BY <2>2 DEF ActiveStakes, StakeValues, StakesOf, Active
  <2>4. QED
    BY <1>2, <1>6, <1>8, <2>1, <2>2, <2>3 DEF Split
<1>10. QED
  BY <1>2, <1>3, <1>6, <1>9, SplittingTells

LEMMA setRuleTells ==
    ASSUME IInv, NEW r \in Request, Told(r), Moves(r), Exclusive, setRule(r)
    PROVE  Told(r)'
<1> DEFINE i == req[r].of
           rows == [x \in Found(r, {i}) |-> [Visible(r)[x] EXCEPT !["stakeRule"] = req[r].arg]]
<1>1. At(r, "setRule") /\ Execute(r, "setRule", DOMAIN rows # {}, rows)
  BY DEF setRule, SetColumn, Execute
<1>2. req[r].op = "setItemStakeRule" /\ req[r].pc = 2
  BY <1>1, Stands
<1>3. req[r].op # "none" /\ req[r].op \in SetsStakes
  BY <1>2 DEF SetsStakes
<1>4. i \in ItemId /\ i \in Key
  BY <1>2, Statement, EntitiesHaveKeys DEF Known, OfItem, Entity
<1>5. DOMAIN rows \subseteq {i} /\ \A x \in DOMAIN rows : Exists(Visible(r)[x])
  BY DEF Found
<1>6. i \in DOMAIN rows => rows[i].stakeRule = req[r].arg
  <2>1. HAVE i \in DOMAIN rows
  <2>2. Visible(r)[i] \in RowOf(i)
    BY <1>4, <1>5, <2>1, SeesTyped
  <2>3. Visible(r)[i] \in ItemRow
    BY <1>4, <2>2, KeysOfTables DEF RowOf
  <2>4. QED
    BY <2>1, <2>3 DEF ItemRow
<1> HIDE DEF rows
<1>7. /\ DOMAIN rows # {} /\ Put(r, rows)
      /\ req'[r].got = req[r].got /\ req'[r].arg = req[r].arg /\ req'[r].of = i
      /\ req'[r].op = req[r].op /\ req'[r].pc = req[r].pc + 1
      /\ \A k \in Key : db'[k] = db[k]
  BY <1>1, <1>3, ExecutingMoves
<1>8. draft'[i].stakeRule = req[r].arg
  BY <1>4, <1>5, <1>6, <1>7, PutRow
<1>9. StakeValues(db', i) = StakeValues(db, i)
  <2>1. \A m \in Member : db'[<<i, m>>] = db[<<i, m>>]
    BY <1>4, <1>7, StakeKeys
  <2>2. QED
    BY <2>1, SameStakeValues
<1>10. Split(r)'
  <2>1. req[r].got = StakeValues(db, i)
    BY <1>2, <1>3 DEF Told, Split
  <2>2. QED
    BY <1>2, <1>7, <1>8, <1>9, <2>1 DEF Split
<1>11. QED
  BY <1>2, <1>3, <1>7, <1>10, SplittingTells

LEMMA deleteStakesTells ==
    ASSUME IInv, NEW r \in Request, Told(r), Moves(r), Exclusive, deleteStakes(r)
    PROVE  Told(r)'
<1> DEFINE i == req[r].of
           rows == [k \in {<<i, m>> : m \in StakesOf(Visible(r), i)} |-> Absent]
<1>1. At(r, "deleteStakes") /\ Execute(r, "deleteStakes", TRUE, rows)
  BY DEF deleteStakes, Execute
<1>2. req[r].op = "setItemStakeRule" /\ req[r].pc = 3
  BY <1>1, Stands
<1>3. req[r].op # "none" /\ req[r].op \in SetsStakes
  BY <1>2 DEF SetsStakes
<1>4. i \in ItemId /\ i \in Key
  BY <1>2, Statement, EntitiesHaveKeys DEF Known, OfItem, Entity
<1>5. \A k \in DOMAIN rows : (\E m \in Member : k = <<i, m>>) /\ rows[k] = Absent
  BY DEF StakesOf
<1>6. \A m \in Member : Exists(Visible(r)[<<i, m>>]) => <<i, m>> \in DOMAIN rows
  BY DEF StakesOf
<1> HIDE DEF rows
<1>7. /\ Put(r, rows)
      /\ req'[r].got = req[r].got /\ req'[r].arg = req[r].arg /\ req'[r].of = i
      /\ req'[r].op = req[r].op /\ req'[r].pc = req[r].pc + 1
      /\ \A k \in Key : db'[k] = db[k]
  BY <1>1, <1>3, ExecutingMoves
<1>8. StakesOf(draft', i) = {}
  <2>1. ASSUME NEW m \in Member
        PROVE  ~Exists(draft'[<<i, m>>])
    <3>1. <<i, m>> \in Key
      BY <1>4, PairsOf
    <3>2. Visible(r)[<<i, m>>] = draft[<<i, m>>]
      BY <1>3, <3>1, TheOthersAreIdle DEF Exclusive
    <3>3. <<i, m>> \in DOMAIN rows => draft'[<<i, m>>] = Absent
      BY <1>5, <1>7, <3>1, PutRow
    <3>4. <<i, m>> \notin DOMAIN rows => draft'[<<i, m>>] = draft[<<i, m>>]
      BY <1>7, <3>1, PutRow
    <3>5. QED
      BY <1>6, <3>2, <3>3, <3>4 DEF Exists
  <2>2. QED
    BY <2>1 DEF StakesOf
<1>9. draft'[i] = draft[i]
  <2>1. i \notin DOMAIN rows
    BY <1>4, <1>5, PairsOf, KeysOfTables DEF Entity
  <2>2. QED
    BY <1>4, <1>7, <2>1, PutRow
<1>10. StakeValues(db', i) = StakeValues(db, i)
  <2>1. \A m \in Member : db'[<<i, m>>] = db[<<i, m>>]
    BY <1>4, <1>7, StakeKeys
  <2>2. QED
    BY <2>1, SameStakeValues
<1>11. Split(r)'
  <2>1. req[r].got = StakeValues(db, i) /\ draft[i].stakeRule = req[r].arg
    BY <1>2, <1>3 DEF Told, Split
  <2>2. QED
    BY <1>2, <1>7, <1>8, <1>9, <1>10, <2>1 DEF Split
<1>12. QED
  BY <1>2, <1>3, <1>7, <1>11, SplittingTells

-------------------------------------------------------------------------------
\* A request on its way commits nothing.
LEMMA MovingCommitsNothing ==
    ASSUME IInv, NEW r \in Request, Run(r), Moves(r)
    PROVE  \A k \in Key : db'[k] = db[k]
<1>1. req[r].op # "none"
  BY RunsAreRequests
<1>2. Passes(r) \/ Changes(r)
  BY <1>1, StepsAre, MovingIsNoEnd DEF Kinds
<1>3. CASE Passes(r)
  BY <1>3 DEF Passes, tables
<1>4. CASE Changes(r)
  <2>1. PICK rows : Writes(r, rows)
    BY <1>4 DEF Changes, KeepsRows, DropsRows
  <2>2. QED
    BY <2>1, WrittenRow
<1>5. QED
  BY <1>2, <1>3, <1>4

LEMMA RestsTell ==
    ASSUME IInv, NEW r \in Request, Told(r), Run(r), Moves(r),
           \/ dropWorkspace(r) \/ checkNotAssigned(r) \/ insertItemTag(r)
           \/ checkAssigned(r) \/ deleteItemTag(r) \/ validatePayments(r)
           \/ insertExtracted(r) \/ moveListed(r) \/ readTags(r) \/ copyTags(r)
    PROVE  Told(r)'
<1>1. PICK s \in {"dropWorkspace", "checkNotAssigned", "insertItemTag", "checkAssigned",
                  "deleteItemTag", "validatePayments", "insertExtracted", "moveListed",
                  "readTags", "copyTags"} : At(r, s)
  BY DEF dropWorkspace, deleteItemTag, Delete, checkNotAssigned, checkAssigned, Read,
     insertItemTag, validatePayments, insertExtracted, Insert, moveListed, MoveTo, readTags,
     copyTags, Execute
<1>2. req[r].op \in Plain
  BY <1>1, Stands
<1>3. QED
  BY <1>2, MovingCommitsNothing, PlainTells

\* Every statement keeps what r is going to tell true.
LEMMA RunTells ==
    ASSUME IInv, StakesInv, Exclusive, ~overlapped, NEW r \in Request, Told(r), Run(r), Moves(r)
    PROVE  Told(r)'
<1>1. ChecksOut(r) /\ req[r].op # "none" /\ seat' = seat
  BY RunsAreRequests, SeatsStay DEF StakesInv
<1>2. CASE \/ insertWorkspace(r) \/ insertItem(r) \/ insertPayment(r) \/ insertTag(r)
           \/ setWorkspace(r) \/ setWorkspaceRule(r) \/ setItem(r) \/ setTag(r)
           \/ setPayment(r)
           \/ dropItem(r) \/ dropPayment(r) \/ dropTag(r) \/ deleteMerging(r)
  BY <1>2, InsertsTell, SettersTell, setPaymentTells, DropsTell
<1>3. CASE \/ checkPayer(r) \/ findItem(r) \/ readTag(r) \/ readHost(r)
           \/ titlePayments(r) \/ movePayments(r) \/ clearTags(r)
  BY <1>1, <1>3, LooksTell, MergesTell
<1>4. CASE \/ validateStakes(r) \/ readStakes(r) \/ upsertStakes(r) \/ clearRule(r)
           \/ setRule(r) \/ deleteStakes(r)
  BY <1>1, <1>4, validateStakesTells, readStakesTells, upsertStakesTells, clearRuleTells,
     setRuleTells, deleteStakesTells
<1>5. CASE \/ dropWorkspace(r) \/ checkNotAssigned(r) \/ insertItemTag(r)
           \/ checkAssigned(r) \/ deleteItemTag(r) \/ validatePayments(r)
           \/ insertExtracted(r) \/ moveListed(r) \/ readTags(r) \/ copyTags(r)
  BY <1>5, RestsTell
<1>6. ~commit(r)
  BY RunsAreRequests, MovingIsNoEnd
<1>7. QED
  BY <1>2, <1>3, <1>4, <1>5, <1>6 DEF Run

\* A request is started with rows that are there.
LEMMA BeginsWithRows ==
    ASSUME NEW r \in Request, Begin(r)
    PROVE  \E op, of, with, arg :
                /\ Start(r, op, of, with, arg)
                /\ op \in OfWorkspace => of \in Key /\ Exists(db[of])
<1>1. \A w \in There(Workspace) : w \in Key /\ Exists(db[w])
  BY EntitiesHaveKeys DEF There, Entity
<1>2. CASE \/ createWorkspace(r) \/ updateWorkspace(r) \/ updateWorkspaceStakeRule(r)
           \/ deleteWorkspace(r) \/ createItem(r) \/ createTag(r)
  BY <1>1, <1>2 DEF createWorkspace, updateWorkspace, updateWorkspaceStakeRule,
     deleteWorkspace, createItem, createTag, OfWorkspace
<1>3. CASE \/ updateItem(r) \/ deleteItem(r) \/ createPayment(r) \/ updatePayment(r)
           \/ deletePayment(r) \/ updateTag(r) \/ deleteTag(r) \/ assignTag(r)
           \/ unassignTag(r) \/ mergeItems(r) \/ setItemStakes(r) \/ setItemStakeRule(r)
  BY <1>3 DEF updateItem, deleteItem, createPayment, updatePayment, deletePayment, updateTag,
     deleteTag, assignTag, unassignTag, mergeItems, TwoOfOneWorkspace, setItemStakes,
     setItemStakeRule, OfWorkspace
<1>4. CASE extractAsItem(r)
  <2>1. PICK i, list, x : Start(r, "extractAsItem", i, Null, [payments |-> list, title |-> x])
    BY <1>4 DEF extractAsItem
  <2>2. QED
    BY <2>1 DEF OfWorkspace
<1>5. QED
  BY <1>2, <1>3, <1>4 DEF Begin

LEMMA IdleTells ==
    ASSUME NEW q \in Request, req'[q].op = "none"
    PROVE  Told(q)'
BY DEF Told

LEMMA StartTells ==
    ASSUME IInv, NEW r \in Request, NEW op, NEW of, NEW with, NEW arg,
           Start(r, op, of, with, arg), op \in OfWorkspace => of \in Key /\ Exists(db[of]),
           ~overlapped'
    PROVE  \A q \in Request : Told(q)'
<1> DEFINE new == [Idle EXCEPT !.op = op, !.of = of, !.with = with,
                    !.arg = arg, !.seen = [k \in {of, with} \cap Key |-> db[k]]]
<1>1. req' = [req EXCEPT ![r] = new] /\ db' = db /\ draft' = draft
  BY DEF Start
<1>2. req'[r] = new /\ DOMAIN req' = Request /\ OthersWait(r)
  BY <1>1, Statement DEF OthersWait
<1>3. \A s \in Request : req[s].op = "none"
  BY DEF Start
<1>4. /\ new.op = op /\ new.of = of /\ new.with = with /\ new.pc = 1
      /\ new.seen = [k \in {of, with} \cap Key |-> db[k]]
  BY DEF Idle
<1> HIDE DEF new
<1>5. \A k \in Key : draft'[k] = db[k] /\ db'[k] = db[k]
  <2>1. ASSUME NEW k \in Key PROVE draft[k] = db[k]
    <3>1. holder[k] = NoRequest
      BY <1>3 DEF IInv, TypeOK, HeldOK
    <3>2. QED
      BY <3>1 DEF IInv, FreeRowsAreCommitted
  <2>2. QED
    BY <1>1, <2>1
<1>6. \A q \in Request \ {r} : Told(q)'
  BY <1>2, <1>3, IdleTells DEF OthersWait
<1>7. ASSUME op # "none"
      PROVE  Told(r)'
  <2>1. /\ req'[r].op = op /\ req'[r].of = of /\ req'[r].with = with /\ req'[r].pc = 1
        /\ req'[r].seen = [k \in {of, with} \cap Key |-> db[k]]
    BY <1>2, <1>4
  <2>2. SawCommitted(r)'
    BY <1>5, <2>1 DEF SawCommitted
  <2>3. Untouched(r)'
    BY <1>5 DEF Untouched
  <2>4. OneTitle(r)'
    <3>1. ASSUME NEW k \in Titled(op)
          PROVE  TitleIn(draft, k)' = TitleIn(db, k)'
      <4>1. k \in Key
        BY EntitiesHaveKeys DEF Titled, Entity
      <4>2. QED
        BY <1>5, <4>1 DEF TitleIn
    <3>2. QED
      BY <2>1, <3>1 DEF OneTitle
  <2>5. Settled(r)'
    BY <2>1 DEF Settled
  <2>6. Split(r)'
    BY <2>1 DEF Split
  <2>7. QED
    BY <2>2, <2>3, <2>4, <2>5, <2>6 DEF Told
<1>8. op = "none" => Told(r)'
  BY <1>2, <1>4, IdleTells
<1>9. QED
  BY <1>6, <1>7, <1>8

LEMMA NextKeepsTelling ==
    IInv /\ SerialInv /\ StakesInv /\ TellingInv /\ [Next]_vars => TellingInv'
<1> SUFFICES ASSUME IInv, SerialInv, StakesInv, TellingInv, [Next]_vars, ~overlapped'
             PROVE  \A q \in Request : Told(q)'
  BY DEF TellingInv
<1>1. CASE UNCHANGED vars
  <2>1. UNCHANGED <<db, draft, req, seat, overlapped>>
    BY <1>1 DEF vars
  <2>2. \A q \in Request : Told(q)
    BY <2>1 DEF TellingInv
  <2>3. ASSUME NEW q \in Request
        PROVE  Told(q)'
    <3>1. SawCommitted(q)' <=> SawCommitted(q)
      BY <2>1 DEF SawCommitted
    <3>2. Untouched(q)' <=> Untouched(q)
      BY <2>1 DEF Untouched
    <3>3. OneTitle(q)' <=> OneTitle(q)
      BY <2>1 DEF OneTitle, Subject, TitleIn
    <3>4. Settled(q)' <=> Settled(q)
      BY <2>1 DEF Settled, TitleIn
    <3>5. Split(q)' <=> Split(q)
      BY <2>1 DEF Split, ActiveStakes, StakeValues, StakesOf, Active
    <3>6. QED
      BY <2>1, <2>2, <3>1, <3>2, <3>3, <3>4, <3>5 DEF Told
  <2>4. QED
    BY <2>3
<1>2. ASSUME NEW r \in Request, Begin(r)
      PROVE  \A q \in Request : Told(q)'
  <2>1. PICK op, of, with, arg :
            /\ Start(r, op, of, with, arg)
            /\ op \in OfWorkspace => of \in Key /\ Exists(db[of])
    BY <1>2, BeginsWithRows
  <2>2. QED
    BY <2>1, StartTells
<1>3. ASSUME NEW r \in Request, Run(r) \/ Abort(r)
      PROVE  \A q \in Request : Told(q)'
  <2>1. ~overlapped
    BY <1>3, OverlapIsNoticedAtStart
  <2>2. Exclusive /\ Told(r)
    BY <2>1 DEF SerialInv, TellingInv
  <2>3. req[r].op # "none"
    BY <1>3, RunsAreRequests DEF Abort
  <2>4. Kinds(r)
    BY <1>3, StepsAre
  <2>5. OthersWait(r)
    BY <2>4, RequestsAre
  <2>6. \A q \in Request \ {r} : Told(q)'
    BY <2>2, <2>3, <2>5, TheOthersAreIdle, IdleTells DEF Exclusive, OthersWait
  <2>7. CASE Ends(r)
    BY <2>6, <2>7, IdleTells DEF Ends, Idle
  <2>8. CASE Moves(r)
    <3>1. Run(r)
      BY <1>3, <2>3, <2>8, MovingIsNoEnd DEF Abort
    <3>2. QED
      BY <2>1, <2>2, <2>6, <2>8, <3>1, RunTells
  <2>9. QED
    BY <1>3, <2>7, <2>8, RunsMoveOrEnd
<1>4. ASSUME NEW m \in Member, SeatTaken(m) \/ SeatLost(m)
      PROVE  \A q \in Request : Told(q)'
  <2>1. req' = req /\ \A q \in Request : req[q].op = "none"
    BY <1>4 DEF SeatTaken, SeatLost, SeatChanges
  <2>2. QED
    BY <2>1, IdleTells
<1>5. QED
  BY <1>1, <1>2, <1>3, <1>4 DEF Next

LEMMA InitialTelling == Init => TellingInv
<1>1. Idle.op = "none"
  BY DEF Idle
<1>2. QED
  BY <1>1 DEF Init, TellingInv, Told

-------------------------------------------------------------------------------
(* What is told.                                                             *)

\* The title and the id that the JSON of a row shows.
LEMMA StoredTitle ==
    ASSUME NEW k \in Entity, NEW row \in RowOf(k)
    PROVE  /\ W!Field(W!Json(k, row), "title") = row.title
           /\ W!Field(W!Json(k, row), "id") = k
<1>1. k \in Key
  BY EntitiesHaveKeys
<1>2. row \in WorkspaceRow \cup ItemRow \cup PaymentRow \cup TagRow
  BY KeysOfTables DEF RowOf, Entity
<1>3. W!Json(k, row) # Null
  BY <1>1, <1>2, NullIsNoRow
<1>4. "title" \in DOMAIN row
  BY <1>2 DEF WorkspaceRow, ItemRow, PaymentRow, TagRow
<1>5. /\ DOMAIN W!Json(k, row) = {"id"} \cup DOMAIN row
      /\ W!Json(k, row)["title"] = row["title"]
      /\ W!Json(k, row)["id"] = k
  BY <1>4 DEF W!Json
<1>6. QED
  BY <1>3, <1>4, <1>5 DEF W!Field

\* A diff that shows titles shows the title's change.
LEMMA DiffShowsTheTitle ==
    ASSUME NEW old, NEW new, NEW keys, "title" \in keys
    PROVE  {<<c[2], c[3]>> : c \in {c \in W!Diff(old, new, keys) : c[1] = "title"}}
             = IF W!Field(old, "title") # W!Field(new, "title")
               THEN {<<W!Field(old, "title"), W!Field(new, "title")>>} ELSE {}
<1> DEFINE F(f) == <<f, W!Field(old, f), W!Field(new, f)>>
           D == W!Diff(old, new, keys)
           differ == {f \in keys : W!Field(old, f) # W!Field(new, f)}
<1>1. D = {F(f) : f \in differ}
  BY DEF W!Diff
<1>2. \A f : F(f)[1] = f /\ F(f)[2] = W!Field(old, f) /\ F(f)[3] = W!Field(new, f)
  OBVIOUS
<1> HIDE DEF F, D
<1>3. {c \in D : c[1] = "title"} = IF "title" \in differ THEN {F("title")} ELSE {}
  BY <1>1, <1>2
<1>4. "title" \in differ <=> W!Field(old, "title") # W!Field(new, "title")
  OBVIOUS
<1> HIDE DEF differ
<1>5. CASE "title" \in differ
  BY <1>2, <1>3, <1>4, <1>5 DEF D
<1>6. CASE "title" \notin differ
  BY <1>3, <1>4, <1>6 DEF D
<1>7. QED
  BY <1>5, <1>6

\* Entry e tells which titles of its table differ between t and u.
TellsTitles(e, t, u) ==
    LET changed == {k \in TableOf(e) : TitleIn(t, k) # TitleIn(u, k)}
    IN /\ {<<c[2], c[3]>> : c \in {c \in W!Changes(e) : c[1] = "title"}}
            = {<<TitleIn(t, k), TitleIn(u, k)>> : k \in changed}
       /\ changed \subseteq W!Named(e)

LEMMA OneTitleIsTold ==
    ASSUME NEW t, NEW u, NEW e, NEW k \in TableOf(e),
           \A x \in TableOf(e) : x # k => TitleIn(t, x) = TitleIn(u, x),
           {<<c[2], c[3]>> : c \in {c \in W!Changes(e) : c[1] = "title"}}
             = IF TitleIn(t, k) # TitleIn(u, k)
               THEN {<<TitleIn(t, k), TitleIn(u, k)>>} ELSE {},
           k \in W!Named(e)
    PROVE  TellsTitles(e, t, u)
<1> DEFINE changed == {x \in TableOf(e) : TitleIn(t, x) # TitleIn(u, x)}
<1>1. changed = IF TitleIn(t, k) # TitleIn(u, k) THEN {k} ELSE {}
  OBVIOUS
<1> HIDE DEF changed
<1>2. {<<TitleIn(t, x), TitleIn(u, x)>> : x \in changed}
        = IF TitleIn(t, k) # TitleIn(u, k) THEN {<<TitleIn(t, k), TitleIn(u, k)>>} ELSE {}
  <2>1. CASE TitleIn(t, k) # TitleIn(u, k)
    BY <1>1, <2>1
  <2>2. CASE TitleIn(t, k) = TitleIn(u, k)
    BY <1>1, <2>2
  <2>3. QED
    BY <2>1, <2>2
<1>3. changed \subseteq W!Named(e)
  BY <1>1
<1>4. QED
  BY <1>2, <1>3 DEF TellsTitles, changed

\* An entry about one row with the row's JSON before and after, or null.
LEMMA OneRowIsTold ==
    ASSUME NEW t, NEW u, NEW e, NEW keys, NEW k \in TableOf(e),
           \A x \in TableOf(e) : x # k => TitleIn(t, x) = TitleIn(u, x),
           W!Changes(e) = W!Diff(e.oldValue, e.newValue, keys), "title" \in keys,
           W!Field(e.oldValue, "title") = TitleIn(t, k),
           W!Field(e.newValue, "title") = TitleIn(u, k),
           k \in W!Named(e)
    PROVE  TellsTitles(e, t, u)
BY DiffShowsTheTitle, OneTitleIsTold

\* What a request that commits without another in progress has done.
LEMMA CommitsAll ==
    ASSUME IInv, NEW r \in Request, Exclusive, commit(r)
    PROVE  /\ req[r].op # "none"
           /\ \A k \in Key : db'[k] = draft[k] /\ Visible(r)[k] = draft[k]
<1>1. req[r].op # "none"
  BY CommitsCome
<1>2. ASSUME NEW k \in Key
      PROVE  db'[k] = draft[k] /\ Visible(r)[k] = draft[k]
  <2>1. Free(r, k) /\ Visible(r)[k] = draft[k]
    BY <1>1, TheOthersAreIdle DEF Exclusive
  <2>2. holder[k] # r => draft[k] = db[k]
    BY <2>1 DEF Free, IInv, FreeRowsAreCommitted
  <2>3. QED
    BY <2>1, <2>2, CommitRow DEF commit
<1>3. QED
  BY <1>1, <1>2

LEMMA EntriesAreWritten ==
    ASSUME IInv, NEW r \in Request, commit(r), history'[LogOf(r)] # Null
    PROVE  /\ history'[LogOf(r)] = EntryOf(r)
           /\ req[r].op # "deleteWorkspace"
<1> DEFINE w == LogOf(r)
<1>1. w \in Workspace
  BY LogIsBase
<1>2. history'[w] = IF ~Exists(Visible(r)[w]) THEN Null ELSE EntryOf(r)
  BY <1>1 DEF commit
<1>3. Exists(Visible(r)[w]) /\ history'[w] = EntryOf(r)
  BY <1>2
<1>4. ASSUME req[r].op = "deleteWorkspace"
      PROVE  FALSE
  <2>1. req[r].of \in Workspace /\ holder[req[r].of] = r /\ draft[req[r].of] = Gone
    BY <1>4, CommitsCome DEF Known, Placed, OfWorkspace
  <2>2. Visible(r)[req[r].of] = Gone
    BY <2>1, EntitiesHaveKeys, ReadsRow DEF Entity
  <2>3. w = req[r].of
    BY <1>4, <2>1 DEF LogOf
  <2>4. QED
    BY <1>3, <2>2, <2>3 DEF Exists
<1>5. QED
  BY <1>3, <1>4

\* The request's row as its handler read it, and the rows its commit leaves.
LEMMA TheRowItSaw ==
    ASSUME IInv, NEW r \in Request, Told(r),
           req[r].op \in OfWorkspace \cup OfItem \cup OfPayment \cup OfTag
    PROVE  /\ req[r].of \in Entity /\ req[r].of \in Key
           /\ req[r].seen[req[r].of] = db[req[r].of]
           /\ Exists(db[req[r].of])
<1>1. Known(r)
  BY Statement
<1>2. SawCommitted(r)
  BY DEF Told, OfWorkspace, OfItem, OfPayment, OfTag
<1>3. req[r].of \in Entity /\ req[r].of \in Key
  BY <1>1, EntitiesHaveKeys DEF Known, Entity
<1>4. req[r].seen[req[r].of] = db[req[r].of]
  BY <1>2, <1>3 DEF SawCommitted
<1>5. CASE req[r].op \in OfWorkspace
  BY <1>2, <1>3, <1>4, <1>5 DEF SawCommitted
<1>6. CASE req[r].op \in OfItem \cup OfPayment \cup OfTag
  <2>1. req[r].seen[req[r].of] \in ItemRow \cup PaymentRow \cup TagRow
    BY <1>1, <1>6 DEF Known
  <2>2. QED
    BY <1>3, <1>4, <2>1, MissingRowsAreNoRows DEF Exists
<1>7. QED
  BY <1>3, <1>4, <1>5, <1>6

LEMMA TitlesAreStored ==
    ASSUME IInv, NEW k \in Entity
    PROVE  /\ Exists(db[k]) =>
                /\ W!Field(W!Json(k, db[k]), "title") = TitleIn(db, k)
                /\ W!Field(W!Json(k, db[k]), "id") = k
           /\ Exists(draft[k]) =>
                /\ W!Field(W!Json(k, draft[k]), "title") = TitleIn(draft, k)
                /\ W!Field(W!Json(k, draft[k]), "id") = k
<1>1. k \in Key
  BY EntitiesHaveKeys
<1>2. QED
  BY <1>1, TablesAre, StoredTitle DEF TitleIn

LEMMA CommittedTitles ==
    ASSUME IInv, NEW r \in Request, Exclusive, Told(r), commit(r)
    PROVE  /\ \A k \in Entity : TitleIn(db', k) = TitleIn(draft, k) /\ Now(r, k) = draft[k]
           /\ \A k \in Titled(req[r].op) : k # Subject(r) => TitleIn(db, k) = TitleIn(db', k)
           /\ Settled(r) /\ Split(r)
<1>1. \A k \in Entity : TitleIn(db', k) = TitleIn(draft, k) /\ Now(r, k) = draft[k]
  BY CommitsAll, EntitiesHaveKeys DEF TitleIn, Now
<1>2. OneTitle(r) /\ Settled(r) /\ Split(r)
  BY CommitsAll DEF Told
<1>3. Titled(req[r].op) \subseteq Entity
  BY DEF Titled, Entity
<1>4. QED
  BY <1>1, <1>2, <1>3 DEF OneTitle

\* An entry that shows one row, of the table Titled(op) and the columns keys.
ShowsRow(e, op, keys, k) ==
    /\ TableOf(e) = Titled(op)
    /\ W!Changes(e) = W!Diff(e.oldValue, e.newValue, keys) /\ "title" \in keys
    /\ W!Named(e) = {k}

LEMMA CreationsAreTold ==
    ASSUME IInv, NEW r \in Request, Exclusive, Told(r), commit(r), req[r].op \in Creates,
           NEW e, NEW keys, ShowsRow(e, req[r].op, keys, W!Field(e.newValue, "id")),
           e.oldValue = Null, e.newValue = W!Json(req[r].made, Now(r, req[r].made))
    PROVE  TellsTitles(e, db, db')
<1> DEFINE k == req[r].made
<1>1. req[r].pc > 1
  BY CommitsCome
<1>2. k \in Titled(req[r].op) /\ ~Exists(db[k]) /\ Exists(draft[k])
  BY <1>1, CommittedTitles DEF Settled
<1>3. k \in Entity
  BY <1>2 DEF Titled, Entity
<1>4. e.newValue = W!Json(k, draft[k]) /\ TitleIn(db', k) = TitleIn(draft, k)
  BY <1>3, CommittedTitles
<1>5. W!Field(e.newValue, "title") = TitleIn(db', k) /\ W!Field(e.newValue, "id") = k
  BY <1>2, <1>3, <1>4, TitlesAreStored
<1>6. W!Field(e.oldValue, "title") = TitleIn(db, k)
  BY <1>2 DEF W!Field, TitleIn
<1>7. \A x \in TableOf(e) : x # k => TitleIn(db, x) = TitleIn(db', x)
  BY CommittedTitles DEF Subject, ShowsRow
<1>8. k \in TableOf(e) /\ k \in W!Named(e)
  BY <1>2, <1>5 DEF ShowsRow
<1>9. QED
  BY <1>5, <1>6, <1>7, <1>8, OneRowIsTold DEF ShowsRow

Changing == Updates \cup {"deleteItem", "deletePayment", "deleteTag"}

LEMMA ChangesAreTold ==
    ASSUME IInv, NEW r \in Request, Exclusive, Told(r), commit(r), req[r].op \in Changing,
           NEW e, NEW keys, ShowsRow(e, req[r].op, keys, W!Field(e.oldValue, "id")),
           e.oldValue = W!Json(req[r].of, db[req[r].of]),
           IF req[r].op \in Updates
           THEN e.newValue = W!Json(req[r].of, Now(r, req[r].of)) /\ Exists(draft[req[r].of])
           ELSE e.newValue = Null /\ ~Exists(draft[req[r].of])
    PROVE  TellsTitles(e, db, db')
<1> DEFINE k == req[r].of
<1>1. k \in Entity /\ k \in Key /\ Exists(db[k]) /\ k \in Titled(req[r].op)
  <2>1. Known(r)
    BY Statement
  <2>2. k \in Titled(req[r].op)
    BY <2>1 DEF Known, Changing, Updates, Titled, OfWorkspace, OfItem, OfPayment, OfTag
  <2>3. QED
    BY <2>2, TheRowItSaw DEF Changing, Updates, OfWorkspace, OfItem, OfPayment, OfTag
<1>2. TitleIn(db', k) = TitleIn(draft, k) /\ Now(r, k) = draft[k]
  BY <1>1, CommittedTitles
<1>3. W!Field(e.oldValue, "title") = TitleIn(db, k) /\ W!Field(e.oldValue, "id") = k
  BY <1>1, TitlesAreStored
<1>4. W!Field(e.newValue, "title") = TitleIn(db', k)
  <2>1. CASE req[r].op \in Updates
    BY <1>1, <1>2, <2>1, TitlesAreStored
  <2>2. CASE req[r].op \notin Updates
    BY <1>2, <2>2 DEF W!Field, TitleIn
  <2>3. QED
    BY <2>1, <2>2
<1>5. Subject(r) = k
  BY DEF Subject, Changing, Updates, Creates
<1>6. \A x \in TableOf(e) : x # k => TitleIn(db, x) = TitleIn(db', x)
  BY <1>5, CommittedTitles DEF ShowsRow
<1>7. k \in TableOf(e) /\ k \in W!Named(e)
  BY <1>1, <1>3 DEF ShowsRow
<1>8. QED
  BY <1>3, <1>4, <1>6, <1>7, OneRowIsTold DEF ShowsRow

\* A merge shows what became of the titles of both items, which may be one.
LEMMA MergesAreTold ==
    ASSUME IInv, NEW r \in Request, Exclusive, Told(r), commit(r), req[r].op = "mergeItems"
    PROVE  TellsTitles(EntryOf(r), db, db')
<1> DEFINE q == req[r]
           e == EntryOf(r)
           host == W!Json(q.of, db[q.of])
           merging == W!Json(q.with, db[q.with])
<1>1. /\ q.of \in ItemId /\ q.with \in ItemId /\ q.of \in Key /\ q.with \in Key
      /\ q.of \in Entity /\ q.with \in Entity
      /\ q.seen[q.of] \in ItemRow /\ q.seen[q.with] \in ItemRow
  BY Statement, EntitiesHaveKeys DEF Known, OfItem, Entity
<1>2. q.seen[q.of] = db[q.of] /\ q.seen[q.with] = db[q.with]
  BY <1>1 DEF Told, SawCommitted
<1>3. Exists(db[q.of]) /\ Exists(db[q.with])
  BY <1>1, <1>2, MissingRowsAreNoRows DEF Exists
<1>4. q.pc = 6
  BY Stands DEF commit
<1>5. ~Exists(draft[q.with]) /\ W!Field(q.got, "title") = TitleIn(draft, q.of)
  BY <1>4, CommittedTitles DEF Settled
<1>6. e = W!ItemMerged(LogOf(r), host, merging, q.got)
  BY <1>2 DEF EntryOf, Seen
<1>7. /\ e.action = "ITEM_MERGED"
      /\ e.oldValue.hostItem = host /\ e.oldValue.mergingItem = merging
      /\ e.newValue.hostItem = q.got /\ e.newValue.mergingItem = Null
      /\ TableOf(e) = ItemId
  BY <1>6 DEF W!ItemMerged, W!Entry, TableOf
<1> HIDE DEF e
<1>8. W!Changes(e) = W!Diff(host, q.got, {"title"}) \cup W!Diff(merging, Null, {"title"})
  BY <1>7 DEF W!Changes, W!MergedItemDiff
<1>9. q.with \in W!Named(e)
  <2>1. W!Field(merging, "id") = q.with
    BY <1>1, <1>3, TitlesAreStored
  <2>2. QED
    BY <1>7, <2>1 DEF W!Named
<1>10. \A x \in ItemId : x # q.with => TitleIn(db, x) = TitleIn(db', x)
  BY CommittedTitles DEF Subject, Creates, Titled
<1>11. /\ W!Field(host, "title") = TitleIn(db, q.of)
       /\ W!Field(merging, "title") = TitleIn(db, q.with)
       /\ W!Field(q.got, "title") = TitleIn(db', q.of)
       /\ W!Field(Null, "title") = TitleIn(db', q.with)
  <2>1. TitleIn(db', q.of) = TitleIn(draft, q.of) /\ TitleIn(db', q.with) = TitleIn(draft, q.with)
    BY <1>1, CommittedTitles
  <2>2. TitleIn(draft, q.with) = Null /\ W!Field(Null, "title") = Null
    BY <1>5 DEF TitleIn, W!Field
  <2>3. QED
    BY <1>1, <1>3, <1>5, <2>1, <2>2, TitlesAreStored
<1> DEFINE of(D) == {<<c[2], c[3]>> : c \in {c \in D : c[1] = "title"}}
           was == TitleIn(db, q.with)
           is == TitleIn(db', q.with)
           change == IF was # is THEN {<<was, is>>} ELSE {}
<1>12. of(W!Diff(merging, Null, {"title"})) = change
  BY <1>11, DiffShowsTheTitle
<1>13. of(W!Diff(host, q.got, {"title"})) \subseteq change
  <2>1. CASE q.of = q.with
    BY <1>11, <2>1, DiffShowsTheTitle
  <2>2. CASE q.of # q.with
    BY <1>1, <1>10, <1>11, <2>2, DiffShowsTheTitle
  <2>3. QED
    BY <2>1, <2>2
<1>14. \A A, B : of(A \cup B) = of(A) \cup of(B)
  OBVIOUS
<1>15. of(W!Changes(e)) = change
  BY <1>8, <1>12, <1>13, <1>14
<1>16. TellsTitles(e, db, db')
  BY <1>1, <1>7, <1>9, <1>10, <1>15, OneTitleIsTold
<1>17. QED
  BY <1>16 DEF e

\* The entries of requests that insert, update or delete one row, and what they show.
LEMMA RowEntries ==
    ASSUME NEW action \in DOMAIN W!DiffKeys \ {"ITEM_STAKES_CHANGED", "ITEM_TAG_ASSIGNED",
                                               "ITEM_TAG_UNASSIGNED"},
           NEW w, NEW old, NEW new
    PROVE  LET e == W!Entry(action, w, old, new)
           IN /\ e.action = action /\ e.oldValue = old /\ e.newValue = new
              /\ W!Changes(e) = W!Diff(old, new, W!DiffKeys[action])
              /\ "title" \in W!DiffKeys[action]
              /\ W!Named(e) = IF action \in {"ITEM_CREATED", "PAYMENT_CREATED", "TAG_CREATED",
                                             "WORKSPACE_CREATED"}
                              THEN {W!Field(new, "id")} ELSE {W!Field(old, "id")}
<1> DEFINE e == W!Entry(action, w, old, new)
<1>1. e.action = action /\ e.oldValue = old /\ e.newValue = new
  BY DEF W!Entry
<1>2. action \in {"ITEM_CREATED", "ITEM_UPDATED", "ITEM_DELETED", "PAYMENT_CREATED",
                  "PAYMENT_UPDATED", "PAYMENT_DELETED", "TAG_CREATED", "TAG_UPDATED",
                  "TAG_DELETED", "WORKSPACE_CREATED", "WORKSPACE_UPDATED"}
  BY DEF W!DiffKeys
<1> HIDE DEF e
<1>3. W!Changes(e) = W!Diff(old, new, W!DiffKeys[action])
  BY <1>1, <1>2 DEF W!Changes
<1>4. "title" \in W!DiffKeys[action]
  BY <1>2 DEF W!DiffKeys
<1>5. W!Named(e) = IF action \in {"ITEM_CREATED", "PAYMENT_CREATED", "TAG_CREATED",
                                  "WORKSPACE_CREATED"}
                   THEN {W!Field(new, "id")} ELSE {W!Field(old, "id")}
  BY <1>1, <1>2 DEF W!Named
<1>6. QED
  BY <1>1, <1>3, <1>4, <1>5 DEF e

LEMMA CreationEntriesTell ==
    ASSUME IInv, NEW r \in Request, Exclusive, Told(r), commit(r), req[r].op \in Creates
    PROVE  TellsTitles(EntryOf(r), db, db')
<1> DEFINE q == req[r]
           new == W!Json(q.made, Now(r, q.made))
<1>1. PICK action, w :
               /\ action \in {"WORKSPACE_CREATED", "ITEM_CREATED", "PAYMENT_CREATED",
                             "TAG_CREATED"}
               /\ EntryOf(r) = W!Entry(action, w, Null, new)
               /\ action = "WORKSPACE_CREATED" => q.op = "createWorkspace"
               /\ action = "ITEM_CREATED" => q.op = "createItem"
               /\ action = "PAYMENT_CREATED" => q.op = "createPayment"
               /\ action = "TAG_CREATED" => q.op = "createTag"
  <2>1. CASE q.op = "createWorkspace"
    <3>1. LogOf(r) = q.made
      BY <2>1 DEF LogOf
    <3>2. EntryOf(r) = W!Entry("WORKSPACE_CREATED", q.made, Null, new)
      BY <2>1, <3>1 DEF EntryOf, W!WorkspaceCreated
    <3>3. QED
      BY <2>1, <3>2
  <2>2. CASE q.op = "createItem"
    <3>1. EntryOf(r) = W!Entry("ITEM_CREATED", LogOf(r), Null, new)
      BY <2>2 DEF EntryOf, W!ItemCreated
    <3>2. QED
      BY <2>2, <3>1
  <2>3. CASE q.op = "createPayment"
    <3>1. EntryOf(r) = W!Entry("PAYMENT_CREATED", LogOf(r), Null, new)
      BY <2>3 DEF EntryOf, W!PaymentCreated
    <3>2. QED
      BY <2>3, <3>1
  <2>4. CASE q.op = "createTag"
    <3>1. EntryOf(r) = W!Entry("TAG_CREATED", LogOf(r), Null, new)
      BY <2>4 DEF EntryOf, W!TagCreated
    <3>2. QED
      BY <2>4, <3>1
  <2>5. QED
    BY <2>1, <2>2, <2>3, <2>4 DEF Creates
<1> DEFINE e == EntryOf(r)
<1>2. action \in DOMAIN W!DiffKeys \ {"ITEM_STAKES_CHANGED", "ITEM_TAG_ASSIGNED",
                                      "ITEM_TAG_UNASSIGNED"}
  BY <1>1 DEF W!DiffKeys
<1> HIDE DEF new
<1>3. /\ e.action = action /\ e.oldValue = Null /\ e.newValue = new
      /\ W!Changes(e) = W!Diff(Null, new, W!DiffKeys[action])
      /\ "title" \in W!DiffKeys[action]
      /\ W!Named(e) = {W!Field(new, "id")}
  BY <1>1, <1>2, RowEntries
<1> HIDE DEF e
<1>4. TableOf(e) = Titled(q.op)
  BY <1>1, <1>3 DEF TableOf, Titled, OfPayment, OfTag
<1>5. ShowsRow(e, q.op, W!DiffKeys[action], W!Field(e.newValue, "id"))
  BY <1>3, <1>4 DEF ShowsRow
<1>6. TellsTitles(e, db, db')
  BY <1>3, <1>5, CreationsAreTold DEF new
<1>7. QED
  BY <1>6 DEF e

LEMMA UpdateEntriesTell ==
    ASSUME IInv, NEW r \in Request, Exclusive, Told(r), commit(r), req[r].op \in Updates
    PROVE  TellsTitles(EntryOf(r), db, db')
<1> DEFINE q == req[r]
           old == W!Json(q.of, db[q.of])
           new == W!Json(q.of, Now(r, q.of))
<1>0. /\ Seen(r) = db[q.of]
      /\ q.op \in OfTag => q.got = db[q.of]
      /\ Exists(draft[q.of])
  <2>1. Seen(r) = db[q.of]
    BY TheRowItSaw DEF Seen, Updates, OfWorkspace, OfItem, OfPayment, OfTag
  <2>2. /\ q.pc > 1
        /\ q.op \in {"updatePayment", "updateTag"} => q.pc = 3
    BY Stands DEF commit
  <2>3. Settled(r)
    BY CommittedTitles
  <2>4. q.op \in OfTag => q.got = db[q.of]
    BY <2>2, <2>3 DEF Settled
  <2>5. Exists(draft[q.of])
    BY <2>2, <2>3 DEF Settled, Updates
  <2>6. QED
    BY <2>1, <2>4, <2>5
<1>1. PICK action, w :
               /\ action \in {"WORKSPACE_UPDATED", "ITEM_UPDATED", "PAYMENT_UPDATED",
                             "TAG_UPDATED"}
               /\ EntryOf(r) = W!Entry(action, w, old, new)
               /\ action = "WORKSPACE_UPDATED" =>
                    q.op \in {"updateWorkspace", "updateWorkspaceStakeRule"}
               /\ action = "ITEM_UPDATED" => q.op = "updateItem"
               /\ action = "PAYMENT_UPDATED" => q.op = "updatePayment"
               /\ action = "TAG_UPDATED" => q.op = "updateTag"
  <2>1. CASE q.op \in {"updateWorkspace", "updateWorkspaceStakeRule"}
    <3>1. LogOf(r) = q.of
      BY <2>1, Statement DEF LogOf, Known, OfWorkspace
    <3>2. EntryOf(r) = W!Entry("WORKSPACE_UPDATED", q.of, old, new)
      BY <1>0, <2>1, <3>1 DEF EntryOf, W!WorkspaceUpdated
    <3>3. QED
      BY <2>1, <3>2
  <2>2. CASE q.op = "updateItem"
    <3>1. EntryOf(r) = W!Entry("ITEM_UPDATED", LogOf(r), old, new)
      BY <1>0, <2>2 DEF EntryOf, W!ItemUpdated
    <3>2. QED
      BY <2>2, <3>1
  <2>3. CASE q.op = "updatePayment"
    <3>1. EntryOf(r) = W!Entry("PAYMENT_UPDATED", LogOf(r), old, new)
      BY <1>0, <2>3 DEF EntryOf, W!PaymentUpdated
    <3>2. QED
      BY <2>3, <3>1
  <2>4. CASE q.op = "updateTag"
    <3>1. EntryOf(r) = W!Entry("TAG_UPDATED", LogOf(r), old, new)
      BY <1>0, <2>4 DEF EntryOf, W!TagUpdated, OfTag
    <3>2. QED
      BY <2>4, <3>1
  <2>5. QED
    BY <2>1, <2>2, <2>3, <2>4 DEF Updates
<1> DEFINE e == EntryOf(r)
<1>2. action \in DOMAIN W!DiffKeys \ {"ITEM_STAKES_CHANGED", "ITEM_TAG_ASSIGNED",
                                      "ITEM_TAG_UNASSIGNED"}
  BY <1>1 DEF W!DiffKeys
<1> HIDE DEF old, new
<1>3. /\ e.action = action /\ e.oldValue = old /\ e.newValue = new
      /\ W!Changes(e) = W!Diff(old, new, W!DiffKeys[action])
      /\ "title" \in W!DiffKeys[action]
      /\ W!Named(e) = {W!Field(old, "id")}
  BY <1>1, <1>2, RowEntries
<1> HIDE DEF e
<1>4. TableOf(e) = Titled(q.op)
  BY <1>1, <1>3 DEF TableOf, Titled, OfPayment, OfTag
<1>5. ShowsRow(e, q.op, W!DiffKeys[action], W!Field(e.oldValue, "id"))
  BY <1>3, <1>4 DEF ShowsRow
<1>6. TellsTitles(e, db, db')
  BY <1>0, <1>3, <1>5, ChangesAreTold DEF old, new, Changing
<1>7. QED
  BY <1>6 DEF e

LEMMA DeletionEntriesTell ==
    ASSUME IInv, NEW r \in Request, Exclusive, Told(r), commit(r),
           req[r].op \in {"deleteItem", "deletePayment", "deleteTag"}
    PROVE  TellsTitles(EntryOf(r), db, db')
<1> DEFINE q == req[r]
           old == W!Json(q.of, db[q.of])
<1>0. /\ Seen(r) = db[q.of]
      /\ q.op \in OfTag => q.got = db[q.of]
      /\ ~Exists(draft[q.of])
  <2>1. Seen(r) = db[q.of]
    BY TheRowItSaw DEF Seen, OfItem, OfPayment, OfTag
  <2>2. /\ q.pc > 1
        /\ q.op \in {"deletePayment", "deleteTag"} => q.pc = 3
    BY Stands DEF commit
  <2>3. Settled(r)
    BY CommittedTitles
  <2>4. q.op \in OfTag => q.got = db[q.of]
    BY <2>2, <2>3 DEF Settled
  <2>5. ~Exists(draft[q.of])
    BY <2>2, <2>3 DEF Settled
  <2>6. QED
    BY <2>1, <2>4, <2>5
<1>1. PICK action, w :
               /\ action \in {"ITEM_DELETED", "PAYMENT_DELETED", "TAG_DELETED"}
               /\ EntryOf(r) = W!Entry(action, w, old, Null)
               /\ action = "ITEM_DELETED" => q.op = "deleteItem"
               /\ action = "PAYMENT_DELETED" => q.op = "deletePayment"
               /\ action = "TAG_DELETED" => q.op = "deleteTag"
  <2>1. CASE q.op = "deleteItem"
    <3>1. EntryOf(r) = W!Entry("ITEM_DELETED", LogOf(r), old, Null)
      BY <1>0, <2>1 DEF EntryOf, W!ItemDeleted
    <3>2. QED
      BY <2>1, <3>1
  <2>2. CASE q.op = "deletePayment"
    <3>1. EntryOf(r) = W!Entry("PAYMENT_DELETED", LogOf(r), old, Null)
      BY <1>0, <2>2 DEF EntryOf, W!PaymentDeleted
    <3>2. QED
      BY <2>2, <3>1
  <2>3. CASE q.op = "deleteTag"
    <3>1. EntryOf(r) = W!Entry("TAG_DELETED", LogOf(r), old, Null)
      BY <1>0, <2>3 DEF EntryOf, W!TagDeleted, OfTag
    <3>2. QED
      BY <2>3, <3>1
  <2>4. QED
    BY <2>1, <2>2, <2>3
<1> DEFINE e == EntryOf(r)
<1>2. action \in DOMAIN W!DiffKeys \ {"ITEM_STAKES_CHANGED", "ITEM_TAG_ASSIGNED",
                                      "ITEM_TAG_UNASSIGNED"}
  BY <1>1 DEF W!DiffKeys
<1> HIDE DEF old
<1>3. /\ e.action = action /\ e.oldValue = old /\ e.newValue = Null
      /\ W!Changes(e) = W!Diff(old, Null, W!DiffKeys[action])
      /\ "title" \in W!DiffKeys[action]
      /\ W!Named(e) = {W!Field(old, "id")}
  BY <1>1, <1>2, RowEntries
<1> HIDE DEF e
<1>4. TableOf(e) = Titled(q.op)
  BY <1>1, <1>3 DEF TableOf, Titled, OfPayment, OfTag
<1>5. ShowsRow(e, q.op, W!DiffKeys[action], W!Field(e.oldValue, "id"))
  BY <1>3, <1>4 DEF ShowsRow
<1>6. q.op \in Changing /\ q.op \notin Updates
  BY DEF Changing, Updates
<1>7. TellsTitles(e, db, db')
  BY <1>0, <1>3, <1>5, <1>6, ChangesAreTold DEF old
<1>8. QED
  BY <1>7 DEF e

\* How item i is split in t, by the stakes of the members M.
SplitOf(t, i, M) ==
    [itemId |-> i, stakeRule |-> t[i].stakeRule,
     stakes |-> W!StakesOrNull(Restrict(StakeValues(t, i), StakesOf(t, i) \cap M))]

LEMMA StakeEntriesTell ==
    ASSUME IInv, NEW r \in Request, Exclusive, Told(r), commit(r), req[r].op \in SetsStakes
    PROVE  /\ EntryOf(r).action = "ITEM_STAKES_CHANGED"
           /\ EntryOf(r).oldValue = SplitOf(db, req[r].of, Member)
           /\ EntryOf(r).newValue = SplitOf(db', req[r].of, Active)
<1> DEFINE q == req[r]
           i == q.of
           e == EntryOf(r)
<1>1. i \in ItemId /\ i \in Key
  BY Statement, EntitiesHaveKeys DEF Known, OfItem, SetsStakes, Entity
<1>2. Seen(r) = db[i]
  BY TheRowItSaw DEF Seen, SetsStakes, OfItem
<1>3. /\ q.op = "setItemStakes" => q.pc = 5
      /\ q.op = "setItemStakeRule" => q.pc = 4
  BY Stands DEF commit
<1>4. q.got = StakeValues(db, i)
  BY <1>3, CommittedTitles DEF Split, SetsStakes
<1>5. StakesOf(db', i) = StakesOf(draft, i) /\ ActiveStakes(db', i) = ActiveStakes(draft, i)
  <2>1. \A m \in Member : db'[<<i, m>>] = draft[<<i, m>>]
    BY <1>1, CommitsAll, StakeKeys
  <2>2. QED
    BY <2>1, SameStakeValues
<1>6. db'[i].stakeRule = draft[i].stakeRule
  BY <1>1, CommitsAll
<1>7. Restrict(StakeValues(db, i), StakesOf(db, i) \cap Member) = StakeValues(db, i)
  <2>1. StakesOf(db, i) \cap Member = StakesOf(db, i)
    BY DEF StakesOf
  <2>2. QED
    BY <2>1 DEF Restrict, StakeValues
<1>8. CASE q.op = "setItemStakes"
  <2>1. e = W!ItemStakesChanged(LogOf(r), i, db[i].stakeRule, q.got, Null, Listed(q.arg))
    BY <1>2, <1>8 DEF EntryOf
  <2>2. draft[i].stakeRule = Null /\ ActiveStakes(draft, i) = Listed(q.arg)
    BY <1>3, <1>8, CommittedTitles DEF Split
  <2>3. SplitOf(db', i, Active)
          = [itemId |-> i, stakeRule |-> Null, stakes |-> W!StakesOrNull(Listed(q.arg))]
    BY <1>5, <1>6, <2>2 DEF SplitOf, ActiveStakes
  <2>4. SplitOf(db, i, Member)
          = [itemId |-> i, stakeRule |-> db[i].stakeRule, stakes |-> W!StakesOrNull(q.got)]
    BY <1>4, <1>7 DEF SplitOf
  <2>5. QED
    BY <2>1, <2>3, <2>4 DEF W!ItemStakesChanged, W!Entry
<1>9. CASE q.op = "setItemStakeRule"
  <2>1. e = W!ItemStakesChanged(LogOf(r), i, db[i].stakeRule, q.got, q.arg, <<>>)
    BY <1>2, <1>9 DEF EntryOf
  <2>2. draft[i].stakeRule = q.arg /\ StakesOf(draft, i) = {}
    BY <1>3, <1>9, CommittedTitles DEF Split
  <2>3. W!StakesOrNull(<<>>) = Null
    BY DEF W!StakesOrNull
  <2>4. W!StakesOrNull(Restrict(StakeValues(db', i), StakesOf(db', i) \cap Active)) = Null
    <3>1. StakesOf(db', i) \cap Active = {}
      BY <1>5, <2>2
    <3>2. DOMAIN Restrict(StakeValues(db', i), StakesOf(db', i) \cap Active) = {}
      BY <3>1 DEF Restrict
    <3>3. QED
      BY <3>2 DEF W!StakesOrNull
  <2>5. SplitOf(db', i, Active)
          = [itemId |-> i, stakeRule |-> q.arg, stakes |-> W!StakesOrNull(<<>>)]
    BY <1>6, <2>2, <2>3, <2>4 DEF SplitOf
  <2>6. SplitOf(db, i, Member)
          = [itemId |-> i, stakeRule |-> db[i].stakeRule, stakes |-> W!StakesOrNull(q.got)]
    BY <1>4, <1>7 DEF SplitOf
  <2>7. QED
    BY <2>1, <2>5, <2>6 DEF W!ItemStakesChanged, W!Entry
<1>10. QED
  BY <1>8, <1>9 DEF SetsStakes

\* Whatever a request commits alone, its entry tells.
LEMMA EntriesTell ==
    ASSUME IInv, NEW r \in Request, Exclusive, Told(r), commit(r), history'[LogOf(r)] # Null
    PROVE  LET e == history'[LogOf(r)]
           IN /\ TableOf(e) # {} => TellsTitles(e, db, db')
              /\ e.action = "ITEM_STAKES_CHANGED" =>
                    /\ e.oldValue = SplitOf(db, req[r].of, Member)
                    /\ e.newValue = SplitOf(db', req[r].of, Active)
<1> DEFINE op == req[r].op
           e == EntryOf(r)
<1>1. history'[LogOf(r)] = e /\ op # "deleteWorkspace" /\ op \in Op \ {"none"}
  BY EntriesAreWritten, CommitsCome
<1>2. CASE op \in Creates \cup Updates \cup {"deleteItem", "deletePayment", "deleteTag",
                                             "mergeItems"}
  <2>1. TellsTitles(e, db, db')
    BY <1>2, CreationEntriesTell, UpdateEntriesTell, DeletionEntriesTell, MergesAreTold
  <2>2. e.action # "ITEM_STAKES_CHANGED"
    <3>1. \A action, w, old, new : W!Entry(action, w, old, new).action = action
      BY DEF W!Entry
    <3>2. CASE op \in Creates
      BY <3>1, <3>2 DEF EntryOf, Creates, W!WorkspaceCreated, W!ItemCreated, W!PaymentCreated,
         W!TagCreated
    <3>3. CASE op \in Updates
      BY <3>1, <3>3 DEF EntryOf, Updates, W!WorkspaceUpdated, W!ItemUpdated, W!PaymentUpdated,
         W!TagUpdated
    <3>4. CASE op \in {"deleteItem", "deletePayment", "deleteTag", "mergeItems"}
      BY <3>1, <3>4 DEF EntryOf, W!ItemDeleted, W!PaymentDeleted, W!TagDeleted, W!ItemMerged
    <3>5. QED
      BY <1>2, <3>2, <3>3, <3>4
  <2>3. QED
    BY <1>1, <2>1, <2>2
<1>3. CASE op \in SetsStakes
  <2>1. /\ e.action = "ITEM_STAKES_CHANGED"
        /\ e.oldValue = SplitOf(db, req[r].of, Member)
        /\ e.newValue = SplitOf(db', req[r].of, Active)
    BY <1>3, StakeEntriesTell
  <2> HIDE DEF e
  <2>2. TableOf(e) = {}
    BY <2>1 DEF TableOf
  <2>3. QED
    BY <1>1, <2>1, <2>2
<1>4. CASE op \in {"assignTag", "unassignTag", "extractAsItem"}
  <2>1. e.action \in {"ITEM_TAG_ASSIGNED", "ITEM_TAG_UNASSIGNED", "ITEM_EXTRACTED"}
    BY <1>4 DEF EntryOf, W!ItemTagAssigned, W!ItemTagUnassigned, W!ItemExtracted, W!Entry
  <2> HIDE DEF e
  <2>2. TableOf(e) = {}
    BY <2>1 DEF TableOf
  <2>3. QED
    BY <1>1, <2>1, <2>2
<1>5. QED
  BY <1>1, <1>2, <1>3, <1>4, OpsAre
     DEF Creates, Updates, SetsStakes, OfWorkspace, OfItem, OfPayment, OfTag

\* As long as requests do not overlap, the log is right: what it shows of titles
\* is what the request it was written by changed, and of stakes how the item was
\* split before and how its active members split it now.
THEOREM EntriesTellTheChange == Spec => EntryTellsTheChange
<1> DEFINE Json(t, i, M) ==
                [itemId |-> i, stakeRule |-> t[i].stakeRule,
                 stakes |-> W!StakesOrNull(Restrict(StakeValues(t, i), StakesOf(t, i) \cap M))]
           Tell == \A r \in Request : commit(r) /\ ~overlapped /\ history'[LogOf(r)] # Null =>
                LET e == history'[LogOf(r)]
                    changed == {k \in TableOf(e) : TitleIn(db, k) # TitleIn(db', k)}
                IN /\ TableOf(e) # {} =>
                        /\ {<<c[2], c[3]>> : c \in {c \in W!Changes(e) : c[1] = "title"}}
                                = {<<TitleIn(db, k), TitleIn(db', k)>> : k \in changed}
                        /\ changed \subseteq W!Named(e)
                   /\ e.action = "ITEM_STAKES_CHANGED" =>
                        /\ e.oldValue = Json(db, req[r].of, Member)
                        /\ e.newValue = Json(db', req[r].of, Active)
<1>1. IInv /\ SerialInv /\ TellingInv /\ [Next]_vars => [Tell]_vars
  BY EntriesTell DEF SerialInv, TellingInv, TellsTitles, SplitOf
<1>2. Spec => []SerialInv
  BY InitialSerialInv, NextKeepsSerialInv, InvariantHolds, PTL DEF Spec
<1>3. Spec => []StakesInv
  BY InitialStakesInv, NextKeepsStakesInv, InvariantHolds, PTL DEF Spec
<1>4. Spec => []TellingInv
  BY <1>2, <1>3, InitialTelling, NextKeepsTelling, InvariantHolds, PTL DEF Spec
<1>5. QED
  BY <1>1, <1>2, <1>4, InvariantHolds, PTL DEF Spec, EntryTellsTheChange
===============================================================================
