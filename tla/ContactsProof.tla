---------------------------- MODULE ContactsProof ----------------------------
(***************************************************************************)
(* Theorems about Contacts for any users, ids and number of requests.      *)
(*                                                                         *)
(* The properties of Contacts speak of committed rows; what makes them     *)
(* inductive is the same said of the rows still uncommitted, and of what   *)
(* a request knows at each statement.                                      *)
(*                                                                         *)
(* The second half is about one slot: requests that do not overlap keep    *)
(* the social graph in order and implement SocialGraph.                    *)
(***************************************************************************)
EXTENDS Contacts, TLAPS, FiniteSetTheorems

Closed(k, row) == IF k \in InviteId THEN row.status # "PENDING" ELSE row.removedBy # NoUser

\* Two versions of one row: no UPDATE changes whom it is about.
SameEnds(k, old, row) ==
    /\ k \in InviteId => row.inviter = old.inviter /\ row.invitee = old.invitee
    /\ k \in ContactId =>
        row.source = old.source /\ row.target = old.target /\ row.invite = old.invite
    /\ k \in BlockId => row.blocked = old.blocked /\ row.blocker = old.blocker

\* row is a later version of old: the same ends, and closed if old was.
Later(k, old, row) == SameEnds(k, old, row) /\ (Closed(k, old) => Closed(k, row))

\* A row has a draft of its own only while it is locked, and then it is later.
Versions ==
    \A k \in Key :
        /\ holder[k] = NoRequest => draft[k] = db[k]
        /\ db[k] # Absent => draft[k] # Absent /\ Later(k, db[k], draft[k])

Answering == {"acceptInvite", "rejectInvite", "rejectInviteAndBlockUser"}

\* What a request knows still holds.
RequestOK(r) ==
    /\ req[r].pc \in 1..Len(Script[req[r].op])
    /\ req[r].op = "none" => req[r] = Idle
    /\ req[r].op # "none" => req[r].a \in User /\ req[r].b \in User
    /\ req[r].op \in Answering =>
        /\ req[r].row \in InviteId
        /\ db[req[r].row] # Absent
        /\ db[req[r].row].inviter = req[r].a
        /\ db[req[r].row].invitee = req[r].b
    /\ req[r].op = "deleteContact" =>
        /\ req[r].row \in ContactId
        /\ db[req[r].row] # Absent
        /\ db[req[r].row].source = req[r].a
        /\ db[req[r].row].target = req[r].b
        /\ Entitled(req[r].caller, req[r].a)
    /\ req[r].op \in {"rejectInviteAndBlockUser", "blockUser", "unblockUser"} =>
        Entitled(req[r].caller, req[r].b)
    /\ req[r].op \in {"rejectInviteAndBlockUser", "blockUser", "unblockUser", "deleteContact"} =>
        req[r].caller \in User
    /\ \A c \in req[r].found :
        /\ draft[c] # Absent
        /\ db[c] # Absent \/ holder[c] = r
        /\ {draft[c].source, draft[c].target} = {req[r].a, req[r].b}

RequestsOK == \A r \in Request : RequestOK(r)

SameTable(k, l) == {k, l} \subseteq InviteId \/ {k, l} \subseteq ContactId \/ {k, l} \subseteq BlockId

\* Version row of the row k holds the place (a, b) of its table's partial unique index.
Occupies(k, row, a, b) ==
    \/ k \in InviteId /\ PendingInvite(row, a, b)
    \/ k \in ContactId /\ ActiveContact(row, a, b)
    \/ k \in BlockId /\ ActiveBlock(row, a, b)

\* No two versions that could be committed together hold the same place.
IndexesOK ==
    \A a, b \in User : \A k, l \in Key : k # l /\ SameTable(k, l) =>
        /\ ~(Occupies(k, db[k], a, b) /\ Occupies(l, db[l], a, b))
        /\ ~(Occupies(k, draft[k], a, b) /\ Occupies(l, draft[l], a, b))
        /\ holder[k] # holder[l] =>
            ~(Occupies(k, db[k], a, b) /\ Occupies(l, draft[l], a, b))

Uncommitted(k) == db[k] = Absent /\ draft[k] # Absent

\* The direct contact is written and the reverse one not yet.
HalfPair(r, c) ==
    /\ At(r, "insertReverseContact")
    /\ holder[c] = r
    /\ ActiveContact(draft[c], req[r].a, req[r].b)
    /\ draft[c].invite = req[r].row

PairsOK ==
    /\ \A c \in ContactId : Uncommitted(c) =>
        \/ HalfPair(holder[c], c)
        \/ \E d \in ContactId \ {c} :
            holder[d] = holder[c] /\ draft[d] # Absent /\ Mirrors(draft[c], draft[d])
    /\ \A c \in ContactId : Uncommitted(c) =>
        HalfPair(holder[c], c) \/ draft[c].source # draft[c].target
    /\ \A r \in Request : At(r, "insertReverseContact") =>
        \E c \in ContactId : Uncommitted(c) /\ HalfPair(r, c)

\* The invite i, as request r has answered it, is the one contact row comes from.
AnsweredBy(r, i, row) ==
    /\ i \in InviteId
    /\ db[i] # Absent
    /\ holder[i] = r
    /\ draft[i].status # "PENDING"
    /\ {row.source, row.target} = {draft[i].inviter, draft[i].invitee}

OriginsOK ==
    /\ \A c \in ContactId : Uncommitted(c) => AnsweredBy(holder[c], draft[c].invite, draft[c])
    /\ \A r \in Request : Current(r) \in {"insertContact", "insertReverseContact"} =>
        AnsweredBy(r, req[r].row, [source |-> req[r].a, target |-> req[r].b])

RemovalsOK ==
    \A c \in ContactId : draft[c] # Absent =>
        draft[c].removedBy \in {NoUser, draft[c].source, draft[c].target} \cup Admin

IInv ==
    /\ TypeOK /\ Versions /\ RequestsOK
    /\ IndexesOK /\ UniqueRows
    /\ PairsOK /\ ContactsComeInPairs /\ NoSelfContact
    /\ OriginsOK /\ ContactsFromAnsweredInvites
    /\ RemovalsOK /\ RemovedByEntitled

-------------------------------------------------------------------------------
(* The scripts.                                                             *)

LEMMA OpsAre ==
    Op = {"none", "createInvite", "acceptInvite", "rejectInvite",
          "rejectInviteAndBlockUser", "blockUser", "unblockUser", "deleteContact"}
BY DEF Op, Script

LEMMA ScriptSteps ==
    ASSUME NEW op \in Op, NEW pc \in 1..Len(Script[op]),
           NEW s, s = Script[op][pc]
    PROVE
        /\ s \notin {"commit", "idle"} => pc + 1 \in 1..Len(Script[op])
        /\ s = "insertContact" => Script[op][pc + 1] = "insertReverseContact"
        /\ s = "insertReverseContact" => Script[op][pc + 1] = "commit"
        /\ s \notin {"commit", "idle", "setInviteAccepted"} => Script[op][pc + 1] # "insertContact"
        /\ s \notin {"commit", "idle", "insertContact"} =>
            Script[op][pc + 1] # "insertReverseContact"
        /\ s \in {"setInviteAccepted", "insertContact", "insertReverseContact"} => op = "acceptInvite"
        /\ s \in {"validateInviteIsPending", "setInviteRejected"} => op \in Answering
        /\ s \in {"insertBlock", "findContactPair", "removeContactPair"} =>
            op \in {"rejectInviteAndBlockUser", "blockUser"}
        /\ s = "removeUserBlock" => op = "unblockUser"
        /\ s \in {"removeDirectContact", "getReverseContact", "removeReverseContact"} =>
            op = "deleteContact"
        /\ s = "insertInvite" => op = "createInvite"
        /\ s = "idle" <=> op = "none"
<1>1. CASE op = "none"
  BY <1>1 DEF Script, Answering
<1>2. CASE op = "createInvite"
  BY <1>2 DEF Script, Answering
<1>3. CASE op = "acceptInvite"
  BY <1>3 DEF Script, Answering
<1>4. CASE op = "rejectInvite"
  BY <1>4 DEF Script, Answering
<1>5. CASE op = "rejectInviteAndBlockUser"
  BY <1>5 DEF Script, Answering
<1>6. CASE op = "blockUser"
  BY <1>6 DEF Script, Answering
<1>7. CASE op = "unblockUser"
  BY <1>7 DEF Script, Answering
<1>8. CASE op = "deleteContact"
  BY <1>8 DEF Script, Answering
<1>9. QED
  BY <1>1, <1>2, <1>3, <1>4, <1>5, <1>6, <1>7, <1>8, OpsAre

LEMMA FirstStatements ==
    ASSUME NEW op \in Op
    PROVE  1 \in 1..Len(Script[op]) /\ Script[op][1] \notin {"insertContact", "insertReverseContact"}
<1>1. CASE op = "none"
  BY <1>1 DEF Script
<1>2. CASE op = "createInvite"
  BY <1>2 DEF Script
<1>3. CASE op = "acceptInvite"
  BY <1>3 DEF Script
<1>4. CASE op = "rejectInvite"
  BY <1>4 DEF Script
<1>5. CASE op = "rejectInviteAndBlockUser"
  BY <1>5 DEF Script
<1>6. CASE op = "blockUser"
  BY <1>6 DEF Script
<1>7. CASE op = "unblockUser"
  BY <1>7 DEF Script
<1>8. CASE op = "deleteContact"
  BY <1>8 DEF Script
<1>9. QED
  BY <1>1, <1>2, <1>3, <1>4, <1>5, <1>6, <1>7, <1>8, OpsAre

-------------------------------------------------------------------------------
(* The kinds of steps.  Every action is one of Quiet, Closing, InsertsRow,   *)
(* Throw and commit; each kind is described by what the invariant needs to   *)
(* know of it.                                                               *)

OthersWait(r) == \A q \in Request \ {r} : req'[q] = req[q]

\* Nothing is written; what the request knows is right.
Quiet(r) ==
    /\ UNCHANGED tables
    /\ req' \in [Request -> RequestState]
    /\ OthersWait(r)
    /\ RequestOK(r)'
    /\ Current(r) # "insertReverseContact"
    /\ Current(r)' \notin {"insertContact", "insertReverseContact"}

\* Row k gets a later version that is closed, by somebody entitled to.
Closes(r, k) ==
    /\ holder[k] \in {r, NoRequest}
    /\ holder'[k] = r
    /\ draft[k] # Absent
    /\ draft'[k] \in RowOf(k)
    /\ Later(k, draft[k], draft'[k])
    /\ Closed(k, draft'[k])
    /\ k \in ContactId =>
        draft'[k].removedBy \in {NoUser, draft[k].source, draft[k].target} \cup Admin

Closing(r) ==
    /\ db' = db
    /\ draft' \in Versioned
    /\ holder' \in [Key -> Request \cup {NoRequest}]
    /\ \A k \in Key : Closes(r, k) \/ (draft'[k] = draft[k] /\ holder'[k] = holder[k])
    /\ Advance(r)
    /\ At(r, "setInviteAccepted") => Closes(r, req[r].row)
    /\ Current(r) \notin {"commit", "idle", "insertContact", "insertReverseContact"}

\* A new row is written under the unused key k.
Inserts(r, k, row) ==
    /\ db' = db
    /\ draft[k] = Absent /\ holder[k] = NoRequest
    /\ draft' = [draft EXCEPT ![k] = row]
    /\ holder' = [holder EXCEPT ![k] = r]
    /\ Advance(r)

\* The row is of its table, its place in the index is free, and a contact is
\* the one of its statement.
InsertsRow(r, k, row) ==
    /\ Inserts(r, k, row)
    /\ row \in RowOf(k)
    /\ Current(r) \in {"insertInvite", "insertBlock", "insertContact", "insertReverseContact"}
    /\ \A l \in Key : \A a, b \in User : SameTable(k, l) /\ Occupies(k, row, a, b) =>
        /\ ~Occupies(l, draft[l], a, b)
        /\ holder[l] # r => ~Occupies(l, db[l], a, b)
    /\ k \in ContactId <=> Current(r) \in {"insertContact", "insertReverseContact"}
    /\ k \in ContactId => row.invite = req[r].row /\ row.removedBy = NoUser
    /\ At(r, "insertContact") => row.source = req[r].a /\ row.target = req[r].b
    /\ At(r, "insertReverseContact") => row.source = req[r].b /\ row.target = req[r].a

Kinds(r) ==
    \/ Quiet(r)
    \/ Throw(r)
    \/ commit(r)
    \/ Closing(r)
    \/ \E k \in Key, row \in Rows : InsertsRow(r, k, row)

Basics == TypeOK /\ Versions /\ RequestsOK /\ OriginsOK

LEMMA CurrentRow ==
    ASSUME Basics, NEW r \in Request, NEW k \in Key
    PROVE  /\ Visible(r)[k] \in RowOf(k) \cup {Absent}
           /\ holder[k] \in {r, NoRequest} => Visible(r)[k] = draft[k]
BY DEF Basics, TypeOK, Versions, Versioned, Visible

LEMMA Statement ==
    ASSUME Basics, NEW r \in Request
    PROVE  /\ req[r].op \in Op
           /\ req[r].pc \in 1..Len(Script[req[r].op])
           /\ Current(r) = Script[req[r].op][req[r].pc]
           /\ req[r] \in RequestState
BY DEF Basics, TypeOK, RequestsOK, RequestOK, RequestState, Current

LEMMA StartIsQuiet ==
    ASSUME Basics, NEW r \in Request,
           NEW op \in {"createInvite", "acceptInvite", "rejectInvite",
                       "rejectInviteAndBlockUser", "blockUser", "unblockUser", "deleteContact"},
           NEW caller \in User \cup {NoUser}, NEW a \in User, NEW b \in User,
           NEW row \in Key \cup {Absent},
           Start(r, op, caller, a, b, row),
           op \in Answering =>
               row \in InviteId /\ db[row] # Absent /\ db[row].inviter = a /\ db[row].invitee = b,
           op = "deleteContact" =>
               /\ row \in ContactId /\ db[row] # Absent
               /\ db[row].source = a /\ db[row].target = b
               /\ Entitled(caller, a),
           op \in {"rejectInviteAndBlockUser", "blockUser", "unblockUser"} => Entitled(caller, b),
           op \in {"rejectInviteAndBlockUser", "blockUser", "unblockUser", "deleteContact"} =>
               caller \in User
    PROVE  Quiet(r)
<1> DEFINE q == [op |-> op, pc |-> 1, caller |-> caller, a |-> a, b |-> b, row |-> row,
                 found |-> {}]
<1>1. op \in Op /\ q \in RequestState
  BY OpsAre DEF RequestState
<1>2. req' = [req EXCEPT ![r] = q] /\ UNCHANGED tables
  BY DEF Start
<1>3. req' \in [Request -> RequestState] /\ req'[r] = q /\ OthersWait(r)
  BY <1>1, <1>2 DEF Basics, TypeOK, OthersWait
<1>4. Current(r)' = Script[op][1]
  BY <1>3 DEF Current
<1>5. RequestOK(r)'
  BY <1>1, <1>2, <1>3, FirstStatements DEF RequestOK, tables, Entitled
<1>6. Current(r) = "idle"
  BY Statement, ScriptSteps DEF Start
<1>7. QED
  BY <1>1, <1>2, <1>3, <1>4, <1>5, <1>6, FirstStatements DEF Quiet

LEMMA BeginIsQuiet ==
    ASSUME Basics, NEW r \in Request, Begin(r)
    PROVE  Quiet(r)
<1>1. ASSUME NEW i \in InviteId, db[i] # Absent
      PROVE  i \in Key /\ db[i].inviter \in User /\ db[i].invitee \in User
  BY <1>1, KeysAreIds DEF Basics, TypeOK, Versioned, RowOf, InviteRow
<1>2. ASSUME NEW c \in ContactId, db[c] # Absent
      PROVE  c \in Key /\ db[c].source \in User /\ db[c].target \in User
  BY <1>2, KeysAreIds DEF Basics, TypeOK, Versioned, RowOf, ContactRow
<1>3. CASE createInvite(r)
  BY <1>3, StartIsQuiet DEF createInvite, Answering
<1>4. CASE acceptInvite(r)
  BY <1>4, <1>1, StartIsQuiet DEF acceptInvite, Answering
<1>5. CASE rejectInvite(r)
  BY <1>5, <1>1, StartIsQuiet DEF rejectInvite, Answering
<1>6. CASE rejectInviteAndBlockUser(r)
  BY <1>6, <1>1, StartIsQuiet DEF rejectInviteAndBlockUser, Answering
<1>7. CASE blockUser(r)
  BY <1>7, StartIsQuiet DEF blockUser, Answering
<1>8. CASE unblockUser(r)
  BY <1>8, StartIsQuiet DEF unblockUser, Answering
<1>9. CASE deleteContact(r)
  BY <1>9, <1>2, StartIsQuiet DEF deleteContact, Answering
<1>10. QED
  BY <1>3, <1>4, <1>5, <1>6, <1>7, <1>8, <1>9 DEF Begin

\* A request goes on knowing what it knew while rows only get later versions,
\* and uncommitted ones at worst go back.
LEMMA KnowledgeLasts ==
    ASSUME Basics, NEW q \in Request,
           req'[q] \in RequestState,
           req'[q].pc \in 1..Len(Script[req'[q].op]),
           req'[q].op = "none" => req'[q] = Idle,
           req'[q].op = req[q].op, req'[q].caller = req[q].caller, req'[q].a = req[q].a,
           req'[q].b = req[q].b, req'[q].row = req[q].row, req'[q].found = req[q].found,
           \A k \in Key : db[k] # Absent => db'[k] # Absent /\ Later(k, db[k], db'[k]),
           \A k \in Key : draft[k] # Absent /\ (db[k] # Absent \/ holder[k] = q) =>
               /\ draft'[k] # Absent
               /\ SameEnds(k, draft[k], draft'[k])
               /\ db'[k] # Absent \/ holder'[k] = q
    PROVE  RequestOK(q)'
<1>1. RequestOK(q) /\ req[q] \in RequestState
  BY DEF Basics, TypeOK, RequestsOK
<1>2. req[q].op \in Answering =>
        /\ req'[q].row \in InviteId /\ db'[req'[q].row] # Absent
        /\ db'[req'[q].row].inviter = req'[q].a /\ db'[req'[q].row].invitee = req'[q].b
  BY <1>1, KeysAreIds DEF RequestOK, Later, SameEnds
<1>3. req[q].op = "deleteContact" =>
        /\ req'[q].row \in ContactId /\ db'[req'[q].row] # Absent
        /\ db'[req'[q].row].source = req'[q].a /\ db'[req'[q].row].target = req'[q].b
  BY <1>1, KeysAreIds DEF RequestOK, Later, SameEnds
<1>4. ASSUME NEW c \in req'[q].found
      PROVE  /\ draft'[c] # Absent
             /\ db'[c] # Absent \/ holder'[c] = q
             /\ {draft'[c].source, draft'[c].target} = {req'[q].a, req'[q].b}
  <2>1. c \in Key /\ c \in ContactId
    BY <1>1, <1>4, KeysAreIds DEF RequestState
  <2>2. QED
    BY <1>1, <1>4, <2>1 DEF RequestOK, Later, SameEnds
<1>5. QED
  BY <1>1, <1>2, <1>3, <1>4 DEF RequestOK, Entitled

LEMMA Advanced ==
    ASSUME Basics, NEW r \in Request, Advance(r), Current(r) \notin {"commit", "idle"}
    PROVE  /\ req' \in [Request -> RequestState]
           /\ OthersWait(r)
           /\ req'[r] = [req[r] EXCEPT !.pc = @ + 1]
           /\ req'[r].op # "none"
           /\ req'[r].pc \in 1..Len(Script[req'[r].op])
           /\ Current(r)' = Script[req[r].op][req[r].pc + 1]
<1>1. req[r].pc + 1 \in 1..Len(Script[req[r].op]) /\ req[r].op # "none"
  BY Statement, ScriptSteps
<1>2. req' = [req EXCEPT ![r].pc = @ + 1] /\ req \in [Request -> RequestState]
  BY DEF Advance, Basics, TypeOK
<1>3. req'[r] = [req[r] EXCEPT !.pc = @ + 1] /\ OthersWait(r)
  BY <1>2 DEF OthersWait
<1>4. [req[r] EXCEPT !.pc = @ + 1] \in RequestState
  BY <1>1, Statement DEF RequestState
<1>5. req' \in [Request -> RequestState]
  BY <1>2, <1>3, <1>4
<1>6. req'[r].op = req[r].op /\ req'[r].pc = req[r].pc + 1
  BY <1>3, Statement DEF RequestState
<1>7. QED
  BY <1>1, <1>3, <1>5, <1>6 DEF Current

LEMMA AdvanceIsQuiet ==
    ASSUME Basics, NEW r \in Request, Advance(r), UNCHANGED tables,
           Current(r) \notin {"commit", "idle", "setInviteAccepted", "insertContact",
                            "insertReverseContact"}
    PROVE  Quiet(r)
<1>1. /\ req' \in [Request -> RequestState]
      /\ OthersWait(r)
      /\ req'[r] = [req[r] EXCEPT !.pc = @ + 1]
      /\ req'[r].op # "none"
      /\ req'[r].pc \in 1..Len(Script[req'[r].op])
      /\ Current(r)' = Script[req[r].op][req[r].pc + 1]
  BY Advanced
<1>2. /\ req'[r].op = req[r].op /\ req'[r].caller = req[r].caller /\ req'[r].a = req[r].a
      /\ req'[r].b = req[r].b /\ req'[r].row = req[r].row /\ req'[r].found = req[r].found
  BY <1>1, Statement DEF RequestState
<1>3. RequestOK(r)'
  BY <1>1, <1>2, KnowledgeLasts DEF tables, Later, SameEnds
<1>4. Current(r)' \notin {"insertContact", "insertReverseContact"}
  BY <1>1, Statement, ScriptSteps
<1>5. QED
  BY <1>1, <1>3, <1>4 DEF Quiet

LEMMA ValidatorKinds ==
    ASSUME Basics, NEW r \in Request, Validators(r)
    PROVE  Quiet(r) \/ Throw(r)
<1>1. ASSUME NEW ok \in BOOLEAN, Validate(r, ok),
             Current(r) \notin {"commit", "idle", "setInviteAccepted", "insertContact",
                              "insertReverseContact"}
      PROVE  Quiet(r) \/ Throw(r)
  BY <1>1, AdvanceIsQuiet DEF Validate
<1>2. CASE validateInviteNotExists(r)
  BY <1>1, <1>2 DEF validateInviteNotExists, At, isInviteExists
<1>3. CASE validateReverseInviteNotExists(r)
  BY <1>1, <1>3 DEF validateReverseInviteNotExists, At, isInviteExists
<1>4. CASE validateInviteIsPending(r)
  BY <1>1, <1>4 DEF validateInviteIsPending, At
<1>5. CASE validateContactNotExists(r)
  BY <1>1, <1>5 DEF validateContactNotExists, At, isContactExists
<1>6. CASE validateInviterIsNotBlocked(r)
  BY <1>1, <1>6 DEF validateInviterIsNotBlocked, At, isUserBlockExists
<1>7. CASE validateInviteeIsNotBlocked(r)
  BY <1>1, <1>7 DEF validateInviteeIsNotBlocked, At, isUserBlockExists
<1>8. CASE validateNoUserBlockExists(r)
  BY <1>1, <1>8 DEF validateNoUserBlockExists, At, isUserBlockExists
<1>9. CASE validateUserBlockExists(r)
  BY <1>1, <1>9 DEF validateUserBlockExists, At, isUserBlockExists
<1>10. QED
  BY <1>2, <1>3, <1>4, <1>5, <1>6, <1>7, <1>8, <1>9 DEF Validators

\* The two statements that look contacts up and remember what they found.
LEMMA FindIsQuiet ==
    ASSUME Basics, NEW r \in Request, NEW F \in SUBSET ContactId, Find(r, F),
           Current(r) \in {"findContactPair", "getReverseContact"},
           \A c \in F : \/ ActiveContact(Visible(r)[c], req[r].a, req[r].b)
                        \/ ActiveContact(Visible(r)[c], req[r].b, req[r].a)
    PROVE  Quiet(r)
<1>1. req' = [req EXCEPT ![r].found = F, ![r].pc = @ + 1] /\ UNCHANGED tables
  BY DEF Find
<1>2. req[r].pc + 1 \in 1..Len(Script[req[r].op]) /\ req[r].op # "none"
  BY Statement, ScriptSteps
<1>3. req'[r] = [req[r] EXCEPT !.found = F, !.pc = @ + 1] /\ OthersWait(r)
  BY <1>1 DEF OthersWait, Basics, TypeOK
<1>4. req'[r] = [op |-> req[r].op, pc |-> req[r].pc + 1, caller |-> req[r].caller,
                 a |-> req[r].a, b |-> req[r].b, row |-> req[r].row, found |-> F]
  BY <1>3, Statement DEF RequestState
<1>5. req'[r] \in RequestState
  <2>1. req[r].pc + 1 \in Nat
    BY <1>2
  <2>2. /\ req[r].op \in Op /\ req[r].caller \in User \cup {NoUser}
        /\ req[r].a \in User \cup {NoUser} /\ req[r].b \in User \cup {NoUser}
        /\ req[r].row \in Key \cup {Absent}
    BY Statement DEF RequestState
  <2>3. QED
    BY <1>4, <2>1, <2>2 DEF RequestState
<1>6. /\ req'[r].op = req[r].op /\ req'[r].caller = req[r].caller /\ req'[r].a = req[r].a
      /\ req'[r].b = req[r].b /\ req'[r].row = req[r].row /\ req'[r].found = F
      /\ req'[r].pc = req[r].pc + 1
  BY <1>4, <1>5
<1>7. req' \in [Request -> RequestState]
  BY <1>1, <1>5 DEF Basics, TypeOK
<1>8. ASSUME NEW c \in F
      PROVE  /\ draft[c] # Absent
             /\ db[c] # Absent \/ holder[c] = r
             /\ {draft[c].source, draft[c].target} = {req[r].a, req[r].b}
  <2>1. c \in ContactId /\ c \in Key
    BY <1>8, KeysAreIds
  <2>2. Visible(r)[c] # Absent /\ {Visible(r)[c].source, Visible(r)[c].target} = {req[r].a, req[r].b}
    BY <1>8 DEF ActiveContact
  <2>3. Visible(r)[c] = IF holder[c] = r THEN draft[c] ELSE db[c]
    BY <2>1 DEF Visible
  <2>4. db[c] # Absent => draft[c] # Absent /\ Later(c, db[c], draft[c])
    BY <2>1 DEF Basics, Versions
  <2>5. QED
    BY <2>1, <2>2, <2>3, <2>4 DEF Later, SameEnds
<1>9. RequestOK(r)
  BY DEF Basics, RequestsOK
<1>10. RequestOK(r)'
  BY <1>1, <1>2, <1>6, <1>8, <1>9 DEF RequestOK, tables, Entitled
<1>11. Current(r)' \notin {"insertContact", "insertReverseContact"}
  BY <1>6, Statement, ScriptSteps DEF Current
<1>12. QED
  BY <1>1, <1>3, <1>7, <1>10, <1>11 DEF Quiet

LEMMA FindKinds ==
    ASSUME Basics, NEW r \in Request, findContactPair(r) \/ getReverseContact(r)
    PROVE  Quiet(r)
<1>1. CASE findContactPair(r)
  BY <1>1, FindIsQuiet DEF findContactPair, At
<1>2. CASE getReverseContact(r)
  BY <1>2, FindIsQuiet DEF getReverseContact, At
<1>3. QED
  BY <1>1, <1>2

-------------------------------------------------------------------------------
(* The updates close rows.                                                   *)

\* An UPDATE of rows that nobody blocks.
LEMMA UpdateCloses ==
    ASSUME Basics, NEW r \in Request, NEW K \in SUBSET Key, NEW rows,
           Blockers(r, K) = {}, DOMAIN rows = K,
           Put(r, rows), Advance(r),
           Current(r) \notin {"commit", "idle", "insertContact", "insertReverseContact"},
           At(r, "setInviteAccepted") => req[r].row \in K,
           \A k \in K :
               /\ draft[k] # Absent
               /\ rows[k] \in RowOf(k)
               /\ Later(k, draft[k], rows[k])
               /\ Closed(k, rows[k])
               /\ k \in ContactId =>
                   rows[k].removedBy \in {NoUser, draft[k].source, draft[k].target} \cup Admin
    PROVE  Closing(r)
<1>1. \A k \in K : holder[k] \in {r, NoRequest}
  BY DEF Blockers
<1>2. /\ db' = db
      /\ draft' = [k \in Key |-> IF k \in K THEN rows[k] ELSE draft[k]]
      /\ holder' = [k \in Key |-> IF k \in K THEN r ELSE holder[k]]
  BY DEF Put
<1>3. \A k \in K : Closes(r, k)
  BY <1>1, <1>2 DEF Closes
<1>4. ASSUME NEW k \in Key
      PROVE  Closes(r, k) \/ (draft'[k] = draft[k] /\ holder'[k] = holder[k])
  <2>1. CASE k \in K
    BY <1>3, <2>1
  <2>2. CASE k \notin K
    BY <1>2, <2>2
  <2>3. QED
    BY <2>1, <2>2
<1>5. draft' \in Versioned
  <2>1. \A k \in Key : draft'[k] \in RowOf(k) \cup {Absent}
    BY <1>2 DEF Basics, TypeOK, Versioned
  <2>2. \A k \in Key : RowOf(k) \subseteq Rows
    BY DEF RowOf, Rows
  <2>3. QED
    BY <1>2, <2>1, <2>2 DEF Versioned
<1>6. holder' \in [Key -> Request \cup {NoRequest}]
  BY <1>2 DEF Basics, TypeOK
<1>7. QED
  BY <1>2, <1>3, <1>4, <1>5, <1>6 DEF Closing

LEMMA AnswerCloses ==
    ASSUME Basics, NEW r \in Request, setInviteAccepted(r) \/ setInviteRejected(r)
    PROVE  Closing(r)
<1>1. /\ req[r].row \in InviteId /\ req[r].row \in Key
      /\ draft[req[r].row] # Absent
  <2>1. Current(r) \in {"setInviteAccepted", "setInviteRejected"}
    BY DEF setInviteAccepted, setInviteRejected, At
  <2>2. req[r].op \in Answering
    BY <2>1, Statement, ScriptSteps DEF Answering
  <2>3. RequestOK(r)
    BY DEF Basics, RequestsOK
  <2>4. QED
    BY <2>2, <2>3, KeysAreIds DEF RequestOK, Basics, Versions
<1>2. draft[req[r].row] \in InviteRow
  BY <1>1 DEF Basics, TypeOK, Versioned, RowOf
<1>3. ASSUME NEW row \in InviteRow, NEW status \in {"ACCEPTED", "REJECTED"}
      PROVE  LET new == [row EXCEPT !.status = status]
             IN  new \in InviteRow /\ new.status = status
                 /\ new.inviter = row.inviter /\ new.invitee = row.invitee
  BY <1>3 DEF InviteRow, InviteStatus
<1>4. req[r].row \notin ContactId /\ req[r].row \notin BlockId
  BY <1>1, KeysAreIds
<1>5. CASE setInviteAccepted(r)
  <2> DEFINE rows == [k \in {req[r].row} |-> Accepted(Visible(r)[k])]
  <2>1. Blockers(r, {req[r].row}) = {} /\ Put(r, rows) /\ Advance(r)
    BY <1>5 DEF setInviteAccepted, At, WaitsFor, Needs, Update
  <2>2. /\ Accepted(draft[req[r].row]) \in RowOf(req[r].row)
        /\ Later(req[r].row, draft[req[r].row], Accepted(draft[req[r].row]))
        /\ Closed(req[r].row, Accepted(draft[req[r].row]))
    BY <1>1, <1>2, <1>3, <1>4 DEF Accepted, Later, SameEnds, Closed, RowOf
  <2>3. rows[req[r].row] = Accepted(draft[req[r].row])
    BY <1>1, <2>1, CurrentRow DEF Blockers
  <2>4. QED
    BY <1>1, <1>4, <1>5, <2>1, <2>2, <2>3, UpdateCloses DEF setInviteAccepted, At
<1>6. CASE setInviteRejected(r)
  <2> DEFINE rows == [k \in {req[r].row} |-> Rejected(Visible(r)[k])]
  <2>1. Blockers(r, {req[r].row}) = {} /\ Put(r, rows) /\ Advance(r)
    BY <1>6 DEF setInviteRejected, At, WaitsFor, Needs, Update
  <2>2. /\ Rejected(draft[req[r].row]) \in RowOf(req[r].row)
        /\ Later(req[r].row, draft[req[r].row], Rejected(draft[req[r].row]))
        /\ Closed(req[r].row, Rejected(draft[req[r].row]))
    BY <1>1, <1>2, <1>3, <1>4 DEF Rejected, Later, SameEnds, Closed, RowOf
  <2>3. rows[req[r].row] = Rejected(draft[req[r].row])
    BY <1>1, <2>1, CurrentRow DEF Blockers
  <2>4. QED
    BY <1>1, <1>4, <1>6, <2>1, <2>2, <2>3, UpdateCloses DEF setInviteRejected, At
<1>7. QED
  BY <1>5, <1>6

\* The three statements that remove contacts.
LEMMA RemovalCloses ==
    ASSUME Basics, NEW r \in Request, NEW K \in SUBSET ContactId,
           Blockers(r, K) = {},
           Put(r, [c \in K |-> RemovedBy(req[r].caller, Visible(r)[c])]), Advance(r),
           Current(r) \in {"removeContactPair", "removeDirectContact", "removeReverseContact"},
           \A c \in K : draft[c] # Absent
                        /\ {draft[c].source, draft[c].target} = {req[r].a, req[r].b}
    PROVE  Closing(r)
<1>1. /\ req[r].caller \in User
      /\ req[r].caller \in {req[r].a, req[r].b} \cup Admin
  <2>1. /\ req[r].op \in {"rejectInviteAndBlockUser", "blockUser"} \/ req[r].op = "deleteContact"
    BY Statement, ScriptSteps
  <2>2. RequestOK(r)
    BY DEF Basics, RequestsOK
  <2>3. QED
    BY <2>1, <2>2 DEF RequestOK, Entitled
<1>2. req[r].caller # NoUser
  BY <1>1, AdminsAreUsers
<1>3. ASSUME NEW c \in K
      PROVE  LET new == RemovedBy(req[r].caller, draft[c])
             IN  /\ draft[c] # Absent
                 /\ new \in RowOf(c)
                 /\ Later(c, draft[c], new)
                 /\ Closed(c, new)
                 /\ new.removedBy \in {NoUser, draft[c].source, draft[c].target} \cup Admin
  <2>1. c \in Key /\ c \notin InviteId /\ c \notin BlockId /\ c \in ContactId
    BY <1>3, KeysAreIds
  <2>2. draft[c] \in ContactRow /\ RowOf(c) = ContactRow
    BY <1>3, <2>1 DEF Basics, TypeOK, Versioned, RowOf
  <2> DEFINE new == RemovedBy(req[r].caller, draft[c])
  <2>3. /\ new \in ContactRow /\ new.removedBy = req[r].caller
        /\ new.source = draft[c].source /\ new.target = draft[c].target
        /\ new.invite = draft[c].invite
    BY <1>1, <2>2 DEF RemovedBy, ContactRow
  <2>4. new.removedBy \in {NoUser, draft[c].source, draft[c].target} \cup Admin
    BY <1>1, <1>3, <2>3
  <2>5. QED
    BY <1>2, <1>3, <2>1, <2>2, <2>3, <2>4 DEF Later, SameEnds, Closed
<1>4. K \in SUBSET Key
  BY KeysAreIds
<1> DEFINE rows == [c \in K |-> RemovedBy(req[r].caller, Visible(r)[c])]
<1>5. \A c \in K : rows[c] = RemovedBy(req[r].caller, draft[c])
  BY <1>4, CurrentRow DEF Blockers
<1>6. DOMAIN rows = K /\ Put(r, rows)
  OBVIOUS
<1> HIDE DEF rows
<1>7. QED
  BY <1>3, <1>4, <1>5, <1>6, UpdateCloses DEF At

LEMMA RemovalKinds ==
    ASSUME Basics, NEW r \in Request,
           removeContactPair(r) \/ removeDirectContact(r) \/ removeReverseContact(r)
    PROVE  Closing(r)
<1>1. RequestOK(r) /\ req[r] \in RequestState
  BY Statement DEF Basics, RequestsOK
<1>2. req[r].found \in SUBSET ContactId
  BY <1>1 DEF RequestState
<1>3. ASSUME NEW c \in req[r].found
      PROVE  draft[c] # Absent /\ {draft[c].source, draft[c].target} = {req[r].a, req[r].b}
  BY <1>1, <1>3 DEF RequestOK
<1>4. CASE removeContactPair(r)
  <2> DEFINE K == {c \in req[r].found : Visible(r)[c].removedBy = NoUser}
  <2>1. Blockers(r, K) = {}
    BY <1>4 DEF removeContactPair, At, WaitsFor, Needs, Blockers
  <2>2. K \in SUBSET ContactId
    BY <1>2
  <2>3. Put(r, [c \in K |-> RemovedBy(req[r].caller, Visible(r)[c])]) /\ Advance(r)
    BY <1>4 DEF removeContactPair, Update
  <2>4. QED
    BY <1>3, <1>4, <2>1, <2>2, <2>3, RemovalCloses DEF removeContactPair, At
<1>5. CASE removeReverseContact(r)
  <2>1. Blockers(r, req[r].found) = {}
    BY <1>5 DEF removeReverseContact, At, WaitsFor, Needs
  <2>2. /\ Put(r, [c \in req[r].found |-> RemovedBy(req[r].caller, Visible(r)[c])])
        /\ Advance(r)
    BY <1>5 DEF removeReverseContact, Update
  <2>3. QED
    BY <1>2, <1>3, <1>5, <2>1, <2>2, RemovalCloses DEF removeReverseContact, At
<1>6. CASE removeDirectContact(r)
  <2>1. Blockers(r, {req[r].row}) = {}
    BY <1>6 DEF removeDirectContact, At, WaitsFor, Needs
  <2>2. /\ Put(r, [c \in {req[r].row} |-> RemovedBy(req[r].caller, Visible(r)[c])])
        /\ Advance(r)
    BY <1>6 DEF removeDirectContact, Update
  <2>3. req[r].op = "deleteContact"
    BY <1>6, Statement, ScriptSteps DEF removeDirectContact, At
  <2>4. /\ req[r].row \in ContactId /\ req[r].row \in Key
        /\ db[req[r].row] # Absent
        /\ db[req[r].row].source = req[r].a /\ db[req[r].row].target = req[r].b
    BY <1>1, <2>3, KeysAreIds DEF RequestOK
  <2>5. draft[req[r].row] # Absent /\ Later(req[r].row, db[req[r].row], draft[req[r].row])
    BY <2>4 DEF Basics, Versions
  <2>6. {draft[req[r].row].source, draft[req[r].row].target} = {req[r].a, req[r].b}
    BY <2>4, <2>5 DEF Later, SameEnds
  <2>7. QED
    BY <1>6, <2>1, <2>2, <2>4, <2>5, <2>6, RemovalCloses DEF removeDirectContact, At
<1>7. QED
  BY <1>4, <1>5, <1>6

LEMMA UnblockKinds ==
    ASSUME Basics, NEW r \in Request, removeUserBlock(r)
    PROVE  Closing(r) \/ Throw(r)
<1>1. CASE Throw(r)
  BY <1>1
<1>2. CASE ~Throw(r)
  <2> DEFINE K == {k \in BlockId : ActiveBlock(Visible(r)[k], req[r].a, req[r].b)}
  <2>1. Needs(r) = K /\ Current(r) = "removeUserBlock"
    BY DEF removeUserBlock, At, Needs
  <2> DEFINE rows == [k \in K |-> RemovedBy(req[r].caller, Visible(r)[k])]
  <2>2. Blockers(r, K) = {} /\ Put(r, rows) /\ Advance(r)
    BY <1>2, <2>1 DEF removeUserBlock, WaitsFor, Update
  <2>3. req[r].caller \in User /\ req[r].caller # NoUser
    <3>1. req[r].op = "unblockUser"
      BY <2>1, Statement, ScriptSteps
    <3>2. QED
      BY <3>1, AdminsAreUsers DEF Basics, RequestsOK, RequestOK
  <2>4. ASSUME NEW k \in K
        PROVE  LET new == RemovedBy(req[r].caller, draft[k])
               IN  /\ draft[k] # Absent
                   /\ new \in RowOf(k)
                   /\ Later(k, draft[k], new)
                   /\ Closed(k, new)
                   /\ k \notin ContactId
    <3>1. k \in BlockId /\ k \in Key /\ k \notin InviteId /\ k \notin ContactId
      BY <2>4, KeysAreIds
    <3>2. Visible(r)[k] # Absent /\ holder[k] \in {r, NoRequest}
      BY <2>2, <2>4 DEF ActiveBlock, Blockers
    <3>3. draft[k] # Absent /\ draft[k] \in BlockRow /\ RowOf(k) = BlockRow
      BY <3>1, <3>2, CurrentRow DEF RowOf
    <3>4. LET new == RemovedBy(req[r].caller, draft[k])
          IN  new \in BlockRow /\ new.removedBy = req[r].caller
              /\ new.blocked = draft[k].blocked /\ new.blocker = draft[k].blocker
      BY <2>3, <3>3 DEF RemovedBy, BlockRow
    <3>5. QED
      BY <2>3, <3>1, <3>3, <3>4 DEF Later, SameEnds, Closed
  <2>5. K \in SUBSET Key
    BY KeysAreIds
  <2>6. \A k \in K : rows[k] = RemovedBy(req[r].caller, draft[k])
    BY <2>2, <2>5, CurrentRow DEF Blockers
  <2>7. DOMAIN rows = K
    OBVIOUS
  <2> HIDE DEF K, rows
  <2>8. QED
    BY <2>1, <2>2, <2>4, <2>5, <2>6, <2>7, UpdateCloses DEF At
<1>3. QED
  BY <1>1, <1>2

-------------------------------------------------------------------------------
(* The inserts, and the classification of every step.                        *)

LEMMA InsertsOne ==
    ASSUME Basics, NEW r \in Request, NEW Ids \in SUBSET Key, NEW row,
           NEW duplicate \in BOOLEAN, Insert(r, Ids, row, duplicate)
    PROVE  Throw(r) \/ (~duplicate /\ \E k \in Ids : Inserts(r, k, row))
<1>1. CASE ~Throw(r)
  <2> DEFINE k == CHOOSE k \in Unused(Ids) : TRUE
  <2>1. /\ ~duplicate /\ Unused(Ids) # {} /\ Advance(r)
        /\ Put(r, [j \in {k} |-> row])
    BY <1>1 DEF Insert
  <2>2. k \in Unused(Ids)
    BY <2>1
  <2>3. k \in Ids /\ k \in Key /\ draft[k] = Absent /\ holder[k] = NoRequest
    BY <2>2 DEF Unused
  <2> HIDE DEF k
  <2>4. /\ draft' = [j \in Key |-> IF j \in {k} THEN row ELSE draft[j]]
        /\ holder' = [j \in Key |-> IF j \in {k} THEN r ELSE holder[j]]
        /\ db' = db
    BY <2>1 DEF Put
  <2>5. draft' = [draft EXCEPT ![k] = row] /\ holder' = [holder EXCEPT ![k] = r]
    BY <2>3, <2>4 DEF Basics, TypeOK, Versioned
  <2>6. QED
    BY <2>1, <2>3, <2>4, <2>5 DEF Inserts
<1>2. QED
  BY <1>1

\* A statement that waited for nobody and found no duplicate met no version
\* that can end up beside its own row.
LEMMA PlaceIsFree ==
    ASSUME Basics, NEW r \in Request, NEW Same \in SUBSET Key,
           NEW l \in Key, NEW a \in User, NEW b \in User,
           Blockers(r, Same) = {},
           Occupies(l, db[l], a, b) \/ Occupies(l, draft[l], a, b) => l \in Same,
           ~Occupies(l, Visible(r)[l], a, b)
    PROVE  /\ ~Occupies(l, draft[l], a, b)
           /\ holder[l] # r => ~Occupies(l, db[l], a, b)
<1>1. Visible(r)[l] = IF holder[l] = r THEN draft[l] ELSE db[l]
  BY DEF Visible
<1>2. holder[l] = NoRequest => draft[l] = db[l]
  BY DEF Basics, Versions
<1>3. l \in Same => holder[l] \in {r, NoRequest}
  BY DEF Blockers
<1>4. CASE holder[l] = r
  BY <1>1, <1>4
<1>5. CASE holder[l] = NoRequest
  BY <1>1, <1>2, <1>5
<1>6. CASE l \notin Same
  BY <1>6
<1>7. QED
  BY <1>3, <1>4, <1>5, <1>6

LEMMA InsertKinds ==
    ASSUME Basics, NEW r \in Request,
           insertInvite(r) \/ insertBlock(r) \/ insertContact(r) \/ insertReverseContact(r)
    PROVE  Throw(r) \/ \E k \in Key, row \in Rows : InsertsRow(r, k, row)
<1> SUFFICES ASSUME ~Throw(r)
             PROVE  \E k \in Key, row \in Rows : InsertsRow(r, k, row)
  OBVIOUS
<1>1. InviteId \in SUBSET Key /\ ContactId \in SUBSET Key /\ BlockId \in SUBSET Key
  BY KeysAreIds
<1>2. req[r].a \in User /\ req[r].b \in User
  <2>1. req[r].op # "none"
    BY Statement, ScriptSteps
    DEF insertInvite, insertBlock, insertContact, insertReverseContact, At
  <2>2. QED
    BY <2>1 DEF Basics, RequestsOK, RequestOK
<1>3. CASE insertInvite(r)
  <2> DEFINE row == [inviter |-> req[r].a, invitee |-> req[r].b, status |-> "PENDING"]
  <2>1. row \in InviteRow /\ row \in Rows
    BY <1>2 DEF InviteRow, InviteStatus, Rows
  <2>2. isInviteExists(r, req[r].a, req[r].b) \in BOOLEAN
    BY DEF isInviteExists
  <2>3. Current(r) = "insertInvite" /\ Blockers(r, SameInvite(req[r].a, req[r].b)) = {}
    BY <1>3 DEF insertInvite, At, WaitsFor, Needs
  <2>4. PICK k \in InviteId : Inserts(r, k, row)
    BY <1>1, <1>3, <2>2, InsertsOne DEF insertInvite
  <2>5. ~isInviteExists(r, req[r].a, req[r].b)
    BY <1>1, <1>3, <2>2, InsertsOne DEF insertInvite
  <2>6. k \in Key /\ k \notin ContactId /\ k \notin BlockId
    BY KeysAreIds
  <2>7. ASSUME NEW l \in Key, NEW a \in User, NEW b \in User,
               SameTable(k, l), Occupies(k, row, a, b)
        PROVE  /\ ~Occupies(l, draft[l], a, b)
               /\ holder[l] # r => ~Occupies(l, db[l], a, b)
    <3>1. l \in InviteId /\ l \notin ContactId /\ l \notin BlockId
      BY <2>6, <2>7, KeysAreIds DEF SameTable
    <3>2. a = req[r].a /\ b = req[r].b
      BY <2>6, <2>7 DEF Occupies, PendingInvite
    <3>3. Occupies(l, db[l], a, b) \/ Occupies(l, draft[l], a, b) => l \in SameInvite(a, b)
      BY <3>1 DEF Occupies, SameInvite
    <3>4. ~Occupies(l, Visible(r)[l], a, b)
      BY <2>5, <3>1, <3>2 DEF Occupies, isInviteExists
    <3>5. SameInvite(a, b) \in SUBSET Key
      BY <1>1 DEF SameInvite
    <3>6. QED
      BY <2>3, <3>2, <3>3, <3>4, <3>5, PlaceIsFree
  <2> HIDE DEF row
  <2>8. QED
    BY <2>1, <2>3, <2>4, <2>6, <2>7 DEF InsertsRow, RowOf, At
<1>4. CASE insertBlock(r)
  <2> DEFINE row == [blocked |-> req[r].a, blocker |-> req[r].b, removedBy |-> NoUser]
  <2>1. row \in BlockRow /\ row \in Rows
    BY <1>2 DEF BlockRow, Rows
  <2>2. isUserBlockExists(r, req[r].a, req[r].b) \in BOOLEAN
    BY DEF isUserBlockExists
  <2>3. Current(r) = "insertBlock" /\ Blockers(r, SameBlock(req[r].a, req[r].b)) = {}
    BY <1>4 DEF insertBlock, At, WaitsFor, Needs
  <2>4. PICK k \in BlockId : Inserts(r, k, row)
    BY <1>1, <1>4, <2>2, InsertsOne DEF insertBlock
  <2>5. ~isUserBlockExists(r, req[r].a, req[r].b)
    BY <1>1, <1>4, <2>2, InsertsOne DEF insertBlock
  <2>6. k \in Key /\ k \notin ContactId /\ k \notin InviteId
    BY KeysAreIds
  <2>7. ASSUME NEW l \in Key, NEW a \in User, NEW b \in User,
               SameTable(k, l), Occupies(k, row, a, b)
        PROVE  /\ ~Occupies(l, draft[l], a, b)
               /\ holder[l] # r => ~Occupies(l, db[l], a, b)
    <3>1. l \in BlockId /\ l \notin ContactId /\ l \notin InviteId
      BY <2>6, <2>7, KeysAreIds DEF SameTable
    <3>2. a = req[r].a /\ b = req[r].b
      BY <2>6, <2>7 DEF Occupies, ActiveBlock
    <3>3. Occupies(l, db[l], a, b) \/ Occupies(l, draft[l], a, b) => l \in SameBlock(a, b)
      BY <3>1 DEF Occupies, SameBlock
    <3>4. ~Occupies(l, Visible(r)[l], a, b)
      BY <2>5, <3>1, <3>2 DEF Occupies, isUserBlockExists
    <3>5. SameBlock(a, b) \in SUBSET Key
      BY <1>1 DEF SameBlock
    <3>6. QED
      BY <2>3, <3>2, <3>3, <3>4, <3>5, PlaceIsFree
  <2> HIDE DEF row
  <2>8. QED
    BY <2>1, <2>3, <2>4, <2>6, <2>7 DEF InsertsRow, RowOf, At
<1>5. ASSUME NEW source \in User, NEW target \in User,
             createContact(r, source, target),
             Blockers(r, SameContact(source, target)) = {},
             Current(r) \in {"insertContact", "insertReverseContact"},
             At(r, "insertContact") => source = req[r].a /\ target = req[r].b,
             At(r, "insertReverseContact") => source = req[r].b /\ target = req[r].a
      PROVE  \E k \in Key, row \in Rows : InsertsRow(r, k, row)
  <2> DEFINE row == [source |-> source, target |-> target, invite |-> req[r].row,
                     removedBy |-> NoUser]
  <2>1. req[r].row \in InviteId
    <3>1. req[r].op = "acceptInvite"
      BY <1>5, Statement, ScriptSteps
    <3>2. QED
      BY <3>1 DEF Basics, RequestsOK, RequestOK, Answering
  <2>2. row \in ContactRow /\ row \in Rows
    BY <2>1 DEF ContactRow, Rows
  <2>3. isContactExists(r, source, target) \in BOOLEAN
    BY DEF isContactExists
  <2>4. PICK k \in ContactId : Inserts(r, k, row)
    BY <1>1, <1>5, <2>3, InsertsOne DEF createContact
  <2>5. ~isContactExists(r, source, target)
    BY <1>1, <1>5, <2>3, InsertsOne DEF createContact
  <2>6. k \in Key /\ k \notin InviteId /\ k \notin BlockId
    BY KeysAreIds
  <2>7. ASSUME NEW l \in Key, NEW a \in User, NEW b \in User,
               SameTable(k, l), Occupies(k, row, a, b)
        PROVE  /\ ~Occupies(l, draft[l], a, b)
               /\ holder[l] # r => ~Occupies(l, db[l], a, b)
    <3>1. l \in ContactId /\ l \notin InviteId /\ l \notin BlockId
      BY <2>6, <2>7, KeysAreIds DEF SameTable
    <3>2. a = source /\ b = target
      BY <2>6, <2>7 DEF Occupies, ActiveContact
    <3>3. Occupies(l, db[l], a, b) \/ Occupies(l, draft[l], a, b) => l \in SameContact(a, b)
      BY <3>1 DEF Occupies, SameContact
    <3>4. ~Occupies(l, Visible(r)[l], a, b)
      BY <2>5, <3>1, <3>2 DEF Occupies, isContactExists
    <3>5. SameContact(a, b) \in SUBSET Key
      BY <1>1 DEF SameContact
    <3>6. QED
      BY <1>5, <3>2, <3>3, <3>4, <3>5, PlaceIsFree
  <2>8. row.source = source /\ row.target = target /\ row.invite = req[r].row
        /\ row.removedBy = NoUser
    OBVIOUS
  <2> HIDE DEF row
  <2>9. QED
    BY <1>5, <2>2, <2>4, <2>6, <2>7, <2>8 DEF InsertsRow, RowOf, At
<1>6. CASE insertContact(r)
  <2>1. Current(r) = "insertContact" /\ Blockers(r, SameContact(req[r].a, req[r].b)) = {}
    BY <1>6 DEF insertContact, At, WaitsFor, Needs
  <2>2. QED
    BY <1>2, <1>5, <1>6, <2>1 DEF insertContact, At
<1>7. CASE insertReverseContact(r)
  <2>1. Current(r) = "insertReverseContact" /\ Blockers(r, SameContact(req[r].b, req[r].a)) = {}
    BY <1>7 DEF insertReverseContact, At, WaitsFor, Needs
  <2>2. QED
    BY <1>2, <1>5, <1>7, <2>1 DEF insertReverseContact, At
<1>8. QED
  BY <1>3, <1>4, <1>6, <1>7

LEMMA Classified ==
    ASSUME Basics, NEW r \in Request, Begin(r) \/ Run(r) \/ Abort(r)
    PROVE  Kinds(r)
<1>1. CASE Begin(r)
  BY <1>1, BeginIsQuiet DEF Kinds
<1>2. CASE Abort(r)
  BY <1>2 DEF Abort, Kinds
<1>3. CASE Validators(r)
  BY <1>3, ValidatorKinds DEF Kinds
<1>4. CASE commit(r)
  BY <1>4 DEF Kinds
<1>5. CASE Writes(r)
  BY <1>5, InsertKinds, AnswerCloses, RemovalKinds, UnblockKinds, FindKinds DEF Writes, Kinds
<1>6. QED
  BY <1>1, <1>2, <1>3, <1>4, <1>5 DEF Run


-------------------------------------------------------------------------------
(* What every step does to the rows.                                         *)

LEMMA IdleIsKnown == Idle \in RequestState
BY OpsAre DEF Idle, RequestState

\* Ids of one table are not ids of another.
LEMMA TableOf ==
    ASSUME NEW k \in Key
    PROVE  /\ k \in InviteId => k \notin ContactId /\ k \notin BlockId /\ RowOf(k) = InviteRow
           /\ k \in ContactId => k \notin InviteId /\ k \notin BlockId /\ RowOf(k) = ContactRow
           /\ k \in BlockId => k \notin InviteId /\ k \notin ContactId /\ RowOf(k) = BlockRow
           /\ k \in InviteId \/ k \in ContactId \/ k \in BlockId
           /\ RowOf(k) \subseteq Rows
           /\ Absent \notin RowOf(k)
BY KeysAreIds, AbsentIsNoRow DEF RowOf, Rows

LEMMA LaterIsOrder ==
    ASSUME NEW k, NEW x, NEW y, NEW z
    PROVE  Later(k, x, x) /\ (Later(k, x, y) /\ Later(k, y, z) => Later(k, x, z))
BY DEF Later, SameEnds

\* The rows of a transaction are written, committed and rolled back by it alone.
LEMMA Effects ==
    ASSUME Basics, NEW r \in Request, Kinds(r), NEW k \in Key
    PROVE  /\ holder[k] \notin {r, NoRequest} =>
                db'[k] = db[k] /\ draft'[k] = draft[k] /\ holder'[k] = holder[k]
           /\ holder'[k] \in {holder[k], r, NoRequest}
           /\ db'[k] \in {db[k], Visible(r)[k]}
           /\ db[k] # Absent => db'[k] # Absent /\ Later(k, db[k], db'[k])
           /\ draft[k] # Absent /\ db[k] # Absent =>
                draft'[k] # Absent /\ SameEnds(k, draft[k], draft'[k])
<1>1. Visible(r)[k] = IF holder[k] = r THEN draft[k] ELSE db[k]
  BY DEF Visible
<1>2. db[k] # Absent => draft[k] # Absent /\ Later(k, db[k], draft[k])
  BY DEF Basics, Versions
<1>3. Later(k, db[k], db[k]) /\ SameEnds(k, draft[k], draft[k])
  BY DEF Later, SameEnds
<1>4. CASE Quiet(r)
  BY <1>3, <1>4 DEF Quiet, tables
<1>5. CASE Throw(r)
  <2>1. /\ db' = db
        /\ draft'[k] = IF holder[k] = r THEN db[k] ELSE draft[k]
        /\ holder'[k] = IF holder[k] = r THEN NoRequest ELSE holder[k]
    BY <1>5 DEF Throw, RollbackTx, Released
  <2>2. QED
    BY <1>2, <1>3, <2>1 DEF Later, SameEnds
<1>6. CASE commit(r)
  <2>1. /\ db'[k] = Visible(r)[k]
        /\ draft' = draft
        /\ holder'[k] = IF holder[k] = r THEN NoRequest ELSE holder[k]
    BY <1>6 DEF commit, CommitTx, Released
  <2>2. QED
    BY <1>1, <1>2, <1>3, <2>1
<1>7. CASE Closing(r)
  <2>1. db' = db
    BY <1>7 DEF Closing
  <2>2. CASE Closes(r, k)
    <3>1. draft'[k] # Absent
      BY <2>2, TableOf DEF Closes
    <3>2. QED
      BY <1>3, <2>1, <2>2, <3>1 DEF Closes, Later
  <2>3. CASE draft'[k] = draft[k] /\ holder'[k] = holder[k]
    BY <1>3, <2>1, <2>3
  <2>4. QED
    BY <1>7, <2>2, <2>3 DEF Closing
<1>8. ASSUME NEW j \in Key, NEW row \in Rows, InsertsRow(r, j, row)
      PROVE  /\ db' = db
             /\ k # j => draft'[k] = draft[k] /\ holder'[k] = holder[k]
             /\ k = j => draft[k] = Absent /\ holder[k] = NoRequest /\ holder'[k] = r
  BY <1>8 DEF InsertsRow, Inserts, Basics, TypeOK, Versioned
<1>9. CASE \E j \in Key, row \in Rows : InsertsRow(r, j, row)
  BY <1>2, <1>3, <1>8, <1>9
<1>10. QED
  BY <1>4, <1>5, <1>6, <1>7, <1>9 DEF Kinds

\* Requests do not move each other, and a request that moves keeps what it knows.
LEMMA Moves ==
    ASSUME Basics, NEW r \in Request, Kinds(r)
    PROVE  /\ req' \in [Request -> RequestState]
           /\ OthersWait(r)
           /\ RequestOK(r)'
<1>1. CASE Quiet(r)
  BY <1>1 DEF Quiet
<1>2. CASE Throw(r) \/ commit(r)
  <2>1. req' = [req EXCEPT ![r] = Idle]
    BY <1>2 DEF Throw, commit
  <2>2. req' \in [Request -> RequestState] /\ OthersWait(r) /\ req'[r] = Idle
    BY <2>1, IdleIsKnown DEF Basics, TypeOK, OthersWait
  <2>3. 1 \in 1..Len(Script["none"]) /\ "none" \notin Answering
    BY DEF Script, Answering
  <2>4. RequestOK(r)'
    BY <2>2, <2>3 DEF RequestOK, Idle
  <2>5. QED
    BY <2>2, <2>4
<1>3. ASSUME Advance(r), Current(r) \notin {"commit", "idle"},
             \A k \in Key : draft[k] # Absent /\ holder[k] = r =>
                draft'[k] # Absent /\ SameEnds(k, draft[k], draft'[k]) /\ holder'[k] = r
      PROVE  /\ req' \in [Request -> RequestState]
             /\ OthersWait(r)
             /\ RequestOK(r)'
  <2>1. /\ req' \in [Request -> RequestState]
        /\ OthersWait(r)
        /\ req'[r] = [req[r] EXCEPT !.pc = @ + 1]
        /\ req'[r].op # "none"
        /\ req'[r].pc \in 1..Len(Script[req'[r].op])
    BY <1>3, Advanced
  <2>2. /\ req'[r].op = req[r].op /\ req'[r].caller = req[r].caller /\ req'[r].a = req[r].a
        /\ req'[r].b = req[r].b /\ req'[r].row = req[r].row /\ req'[r].found = req[r].found
    BY <2>1, Statement DEF RequestState
  <2>3. \A k \in Key : db[k] # Absent => db'[k] # Absent /\ Later(k, db[k], db'[k])
    BY Effects
  <2>4. \A k \in Key : draft[k] # Absent /\ (db[k] # Absent \/ holder[k] = r) =>
            /\ draft'[k] # Absent
            /\ SameEnds(k, draft[k], draft'[k])
            /\ db'[k] # Absent \/ holder'[k] = r
    BY <1>3, Effects
  <2>5. RequestOK(r)'
    BY <2>1, <2>2, <2>3, <2>4, KnowledgeLasts
  <2>6. QED
    BY <2>1, <2>5
<1>4. CASE Closing(r)
  <2>1. \A k \in Key : Closes(r, k) =>
            draft'[k] # Absent /\ SameEnds(k, draft[k], draft'[k]) /\ holder'[k] = r
    BY TableOf DEF Closes, Later
  <2>2. \A k \in Key : draft[k] # Absent /\ holder[k] = r =>
            draft'[k] # Absent /\ SameEnds(k, draft[k], draft'[k]) /\ holder'[k] = r
    BY <1>4, <2>1 DEF Closing, SameEnds
  <2>3. QED
    BY <1>3, <1>4, <2>2 DEF Closing
<1>5. CASE \E k \in Key, row \in Rows : InsertsRow(r, k, row)
  <2>1. PICK j \in Key, row \in Rows : InsertsRow(r, j, row)
    BY <1>5
  <2>2. \A k \in Key : draft[k] # Absent => draft'[k] = draft[k] /\ holder'[k] = holder[k]
    BY <2>1 DEF InsertsRow, Inserts, Basics, TypeOK, Versioned
  <2>3. QED
    BY <1>3, <2>1, <2>2 DEF InsertsRow, Inserts, SameEnds
<1>6. QED
  BY <1>1, <1>2, <1>4, <1>5 DEF Kinds

-------------------------------------------------------------------------------
(* Every kind of step keeps each part of the invariant.                      *)

LEMMA TypeKept ==
    ASSUME Basics, NEW r \in Request, Kinds(r)
    PROVE  TypeOK'
<1>1. req' \in [Request -> RequestState]
  BY Moves
<1>2. Visible(r) \in Versioned
  BY DEF Basics, TypeOK, Versioned, Visible
<1>3. CASE Quiet(r)
  BY <1>1, <1>3 DEF Quiet, tables, Basics, TypeOK
<1>4. CASE Throw(r)
  BY <1>1, <1>4 DEF Throw, RollbackTx, Released, Basics, TypeOK, Versioned
<1>5. CASE commit(r)
  BY <1>1, <1>2, <1>5 DEF commit, CommitTx, Released, Basics, TypeOK
<1>6. CASE Closing(r)
  BY <1>1, <1>6 DEF Closing, Basics, TypeOK
<1>7. CASE \E k \in Key, row \in Rows : InsertsRow(r, k, row)
  <2>1. PICK k \in Key, row \in Rows : InsertsRow(r, k, row)
    BY <1>7
  <2>2. draft' = [draft EXCEPT ![k] = row] /\ db' = db /\ holder' = [holder EXCEPT ![k] = r]
        /\ row \in RowOf(k)
    BY <2>1 DEF InsertsRow, Inserts
  <2>3. draft' \in Versioned
    BY <2>2 DEF Basics, TypeOK, Versioned
  <2>4. QED
    BY <1>1, <2>2, <2>3 DEF Basics, TypeOK
<1>8. QED
  BY <1>3, <1>4, <1>5, <1>6, <1>7 DEF Kinds

LEMMA VersionsKept ==
    ASSUME Basics, NEW r \in Request, Kinds(r)
    PROVE  Versions'
<1> SUFFICES ASSUME NEW k \in Key
             PROVE  /\ holder'[k] = NoRequest => draft'[k] = db'[k]
                    /\ db'[k] # Absent => draft'[k] # Absent /\ Later(k, db'[k], draft'[k])
  BY DEF Versions
<1>1. /\ holder[k] = NoRequest => draft[k] = db[k]
      /\ db[k] # Absent => draft[k] # Absent /\ Later(k, db[k], draft[k])
  BY DEF Basics, Versions
<1>2. Visible(r)[k] = IF holder[k] = r THEN draft[k] ELSE db[k]
  BY DEF Visible
<1>3. Later(k, db[k], db[k]) /\ Later(k, draft[k], draft[k])
  BY LaterIsOrder
<1>4. CASE Quiet(r)
  BY <1>1, <1>4 DEF Quiet, tables
<1>5. CASE Throw(r)
  <2>1. /\ db' = db
        /\ draft'[k] = IF holder[k] = r THEN db[k] ELSE draft[k]
        /\ holder'[k] = IF holder[k] = r THEN NoRequest ELSE holder[k]
    BY <1>5 DEF Throw, RollbackTx, Released
  <2>2. QED
    BY <1>1, <1>3, <2>1
<1>6. CASE commit(r)
  <2>1. /\ db'[k] = Visible(r)[k]
        /\ draft' = draft
        /\ holder'[k] = IF holder[k] = r THEN NoRequest ELSE holder[k]
    BY <1>6 DEF commit, CommitTx, Released
  <2>2. QED
    BY <1>1, <1>2, <1>3, <2>1
<1>7. CASE Closing(r)
  <2>1. db' = db
    BY <1>7 DEF Closing
  <2>2. CASE Closes(r, k)
    <3>1. draft'[k] # Absent /\ holder'[k] # NoRequest /\ Later(k, draft[k], draft'[k])
      BY <2>2, TableOf, NoRequestIsNoRequest DEF Closes
    <3>2. QED
      BY <1>1, <2>1, <3>1, LaterIsOrder
  <2>3. CASE draft'[k] = draft[k] /\ holder'[k] = holder[k]
    BY <1>1, <2>1, <2>3
  <2>4. QED
    BY <1>7, <2>2, <2>3 DEF Closing
<1>8. CASE \E j \in Key, row \in Rows : InsertsRow(r, j, row)
  <2>1. PICK j \in Key, row \in Rows : InsertsRow(r, j, row)
    BY <1>8
  <2>2. /\ db' = db
        /\ k # j => draft'[k] = draft[k] /\ holder'[k] = holder[k]
        /\ k = j => draft[k] = Absent /\ holder'[k] = r
    BY <2>1 DEF InsertsRow, Inserts, Basics, TypeOK, Versioned
  <2>3. QED
    BY <1>1, <2>2, NoRequestIsNoRequest
<1>9. QED
  BY <1>4, <1>5, <1>6, <1>7, <1>8 DEF Kinds

LEMMA RequestsKept ==
    ASSUME Basics, NEW r \in Request, Kinds(r)
    PROVE  RequestsOK'
<1>1. \A k \in Key : db[k] # Absent => db'[k] # Absent /\ Later(k, db[k], db'[k])
  BY Effects
<1>2. ASSUME NEW q \in Request \ {r}
      PROVE  RequestOK(q)'
  <2>1. req'[q] = req[q] /\ req' \in [Request -> RequestState]
    BY Moves DEF OthersWait
  <2>2. RequestOK(q) /\ req[q] \in RequestState
    BY DEF Basics, RequestsOK, TypeOK
  <2>3. ASSUME NEW k \in Key, draft[k] # Absent, db[k] # Absent \/ holder[k] = q
        PROVE  /\ draft'[k] # Absent
               /\ SameEnds(k, draft[k], draft'[k])
               /\ db'[k] # Absent \/ holder'[k] = q
    <3>1. CASE db[k] # Absent
      BY <2>3, <3>1, Effects
    <3>2. CASE holder[k] = q
      BY <2>3, <3>2, Effects, NoRequestIsNoRequest DEF SameEnds
    <3>3. QED
      BY <2>3, <3>1, <3>2
  <2>4. /\ req'[q].pc \in 1..Len(Script[req'[q].op])
        /\ req'[q].op = "none" => req'[q] = Idle
    BY <2>1, <2>2 DEF RequestOK
  <2>5. QED
    BY <1>1, <2>1, <2>2, <2>3, <2>4, KnowledgeLasts
<1>3. QED
  BY <1>2, Moves DEF RequestsOK

\* A closed version holds no place, and neither does a row that is not there.
LEMMA ClosedHoldsNoPlace ==
    ASSUME NEW k \in Key, NEW row, NEW a, NEW b, Occupies(k, row, a, b)
    PROVE  row # Absent /\ ~Closed(k, row)
BY TableOf DEF Occupies, PendingInvite, ActiveContact, ActiveBlock, Closed

LEMMA IndexesKept ==
    ASSUME Basics, IndexesOK, NEW r \in Request, Kinds(r)
    PROVE  IndexesOK'
<1> SUFFICES ASSUME NEW a \in User, NEW b \in User, NEW k \in Key, NEW l \in Key,
                    k # l, SameTable(k, l)
             PROVE  /\ ~(Occupies(k, db'[k], a, b) /\ Occupies(l, db'[l], a, b))
                    /\ ~(Occupies(k, draft'[k], a, b) /\ Occupies(l, draft'[l], a, b))
                    /\ holder'[k] # holder'[l] =>
                        ~(Occupies(k, db'[k], a, b) /\ Occupies(l, draft'[l], a, b))
  BY DEF IndexesOK, Occupies, SameTable, PendingInvite, ActiveContact, ActiveBlock
<1> SameTable(l, k)
  BY DEF SameTable
<1>1. /\ ~(Occupies(k, db[k], a, b) /\ Occupies(l, db[l], a, b))
      /\ ~(Occupies(k, draft[k], a, b) /\ Occupies(l, draft[l], a, b))
      /\ holder[k] # holder[l] => ~(Occupies(k, db[k], a, b) /\ Occupies(l, draft[l], a, b))
      /\ holder[k] # holder[l] => ~(Occupies(l, db[l], a, b) /\ Occupies(k, draft[k], a, b))
  BY DEF IndexesOK
<1>2. ASSUME NEW j \in Key
      PROVE  /\ holder[j] = NoRequest => draft[j] = db[j]
             /\ db[j] # Absent => draft[j] # Absent
             /\ Visible(r)[j] = IF holder[j] = r THEN draft[j] ELSE db[j]
  BY DEF Basics, Versions, Visible
<1>3. CASE Quiet(r)
  BY <1>1, <1>3 DEF Quiet, tables
<1>4. CASE Throw(r)
  <2>1. ASSUME NEW j \in Key
        PROVE  /\ db' = db
               /\ draft'[j] = IF holder[j] = r THEN db[j] ELSE draft[j]
               /\ holder'[j] = IF holder[j] = r THEN NoRequest ELSE holder[j]
    BY <1>4 DEF Throw, RollbackTx, Released
  <2>2. QED
    BY <1>1, <2>1
<1>5. CASE commit(r)
  <2>1. ASSUME NEW j \in Key
        PROVE  /\ db'[j] = IF holder[j] = r THEN draft[j] ELSE db[j]
               /\ draft' = draft
               /\ holder'[j] = IF holder[j] = r THEN NoRequest ELSE holder[j]
    BY <1>2, <1>5 DEF commit, CommitTx, Released
  <2>2. QED
    BY <1>1, <2>1
<1>6. CASE Closing(r)
  <2>1. ASSUME NEW j \in Key
        PROVE  /\ db' = db
               /\ \/ /\ holder[j] \in {r, NoRequest} /\ holder'[j] = r
                     /\ ~Occupies(j, draft'[j], a, b)
                  \/ draft'[j] = draft[j] /\ holder'[j] = holder[j]
    <3>1. Closes(r, j) => /\ holder[j] \in {r, NoRequest} /\ holder'[j] = r
                          /\ ~Occupies(j, draft'[j], a, b)
      BY ClosedHoldsNoPlace DEF Closes
    <3>2. QED
      BY <1>6, <3>1 DEF Closing
  <2>2. QED
    BY <1>1, <1>2, <2>1
<1>7. CASE \E j \in Key, row \in Rows : InsertsRow(r, j, row)
  <2>1. PICK j \in Key, row \in Rows : InsertsRow(r, j, row)
    BY <1>7
  <2>2. ASSUME NEW i \in Key
        PROVE  /\ db' = db
               /\ i # j => draft'[i] = draft[i] /\ holder'[i] = holder[i]
               /\ i = j => /\ draft[i] = Absent /\ draft'[i] = row /\ holder'[i] = r
                           /\ db[i] = Absent
    BY <1>2, <2>1 DEF InsertsRow, Inserts, Basics, TypeOK, Versioned
  <2>3. ASSUME NEW i \in Key, SameTable(j, i), Occupies(j, row, a, b)
        PROVE  /\ ~Occupies(i, draft[i], a, b)
               /\ holder[i] # r => ~Occupies(i, db[i], a, b)
    BY <2>1, <2>3 DEF InsertsRow
  <2>4. ~Occupies(j, db[j], a, b)
    BY <2>2, ClosedHoldsNoPlace
  <2>5. CASE k = j
    BY <2>2, <2>3, <2>4, <2>5
  <2>6. CASE l = j
    BY <2>2, <2>3, <2>4, <2>6
  <2>7. CASE k # j /\ l # j
    BY <1>1, <2>2, <2>7
  <2>8. QED
    BY <2>5, <2>6, <2>7
<1>8. QED
  BY <1>3, <1>4, <1>5, <1>6, <1>7 DEF Kinds

LEMMA UniqueFromIndexes ==
    ASSUME IndexesOK
    PROVE  UniqueRows
<1> SUFFICES ASSUME NEW a \in User, NEW b \in User
             PROVE
        /\ \A i, j \in InviteId : PendingInvite(db[i], a, b) /\ PendingInvite(db[j], a, b) => i = j
        /\ \A c, d \in ContactId : ActiveContact(db[c], a, b) /\ ActiveContact(db[d], a, b) => c = d
        /\ \A k, l \in BlockId : ActiveBlock(db[k], a, b) /\ ActiveBlock(db[l], a, b) => k = l
  BY DEF UniqueRows
<1>1. \A i, j \in InviteId :
        PendingInvite(db[i], a, b) /\ PendingInvite(db[j], a, b) => i = j
  BY KeysAreIds DEF IndexesOK, SameTable, Occupies
<1>2. \A c, d \in ContactId :
        ActiveContact(db[c], a, b) /\ ActiveContact(db[d], a, b) => c = d
  BY KeysAreIds DEF IndexesOK, SameTable, Occupies
<1>3. \A k, l \in BlockId :
        ActiveBlock(db[k], a, b) /\ ActiveBlock(db[l], a, b) => k = l
  BY KeysAreIds DEF IndexesOK, SameTable, Occupies
<1>4. QED
  BY <1>1, <1>2, <1>3

\* An uncommitted row is locked, by the request that goes on to commit it or not.
LEMMA UncommittedIsHeld ==
    ASSUME Basics, NEW c \in Key, Uncommitted(c)
    PROVE  holder[c] \in Request
BY DEF Basics, TypeOK, Versions, Uncommitted

\* A step of r that inserts nothing adds no uncommitted row.
LEMMA NoneAdded ==
    ASSUME Basics, NEW r \in Request, NEW c \in Key, Uncommitted(c)',
           Quiet(r) \/ Throw(r) \/ commit(r) \/ Closing(r)
    PROVE  Uncommitted(c) /\ holder'[c] = holder[c] /\ SameEnds(c, draft[c], draft'[c])
<1>1. /\ holder[c] = NoRequest => draft[c] = db[c]
      /\ Visible(r)[c] = IF holder[c] = r THEN draft[c] ELSE db[c]
      /\ db'[c] = Absent /\ draft'[c] # Absent
  BY DEF Basics, Versions, Visible, Uncommitted
<1>2. CASE Quiet(r)
  BY <1>1, <1>2 DEF Quiet, tables, Uncommitted, SameEnds
<1>3. CASE Throw(r)
  <2>1. /\ db' = db
        /\ draft'[c] = IF holder[c] = r THEN db[c] ELSE draft[c]
        /\ holder'[c] = IF holder[c] = r THEN NoRequest ELSE holder[c]
    BY <1>3 DEF Throw, RollbackTx, Released
  <2>2. QED
    BY <1>1, <2>1 DEF Uncommitted, SameEnds
<1>4. CASE commit(r)
  <2>1. /\ db'[c] = Visible(r)[c]
        /\ draft' = draft
        /\ holder'[c] = IF holder[c] = r THEN NoRequest ELSE holder[c]
    BY <1>4 DEF commit, CommitTx, Released
  <2>2. QED
    BY <1>1, <2>1 DEF Uncommitted, SameEnds
<1>5. CASE Closing(r)
  <2>1. db' = db
    BY <1>5 DEF Closing
  <2>2. CASE Closes(r, c)
    BY <1>1, <2>1, <2>2 DEF Closes, Later, Uncommitted
  <2>3. CASE draft'[c] = draft[c] /\ holder'[c] = holder[c]
    BY <1>1, <2>1, <2>3 DEF Uncommitted, SameEnds
  <2>4. QED
    BY <1>5, <2>2, <2>3 DEF Closing
<1>6. QED
  BY <1>2, <1>3, <1>4, <1>5

\* A transaction that ends leaves nothing uncommitted.
LEMMA NoneLeft ==
    ASSUME NEW r \in Request, NEW c \in Key, Throw(r) \/ commit(r), Uncommitted(c)'
    PROVE  holder[c] # r
<1>1. CASE Throw(r)
  BY <1>1 DEF Throw, RollbackTx, Uncommitted
<1>2. CASE commit(r)
  BY <1>2 DEF commit, CommitTx, Visible, Uncommitted
<1>3. QED
  BY <1>1, <1>2

\* A row inserted is the only one that becomes uncommitted.
LEMMA OneAdded ==
    ASSUME Basics, NEW r \in Request, NEW j \in Key, NEW row \in Rows, InsertsRow(r, j, row),
           NEW c \in Key
    PROVE  /\ c # j => draft'[c] = draft[c] /\ holder'[c] = holder[c]
           /\ c = j => draft[c] = Absent /\ holder[c] = NoRequest
                       /\ draft'[c] = row /\ holder'[c] = r /\ row # Absent /\ db[c] = Absent
           /\ db' = db
           /\ Uncommitted(c)' <=> Uncommitted(c) \/ c = j
<1>1. row # Absent
  BY TableOf DEF InsertsRow
<1>2. db[c] # Absent => draft[c] # Absent
  BY DEF Basics, Versions
<1>3. QED
  BY <1>1, <1>2 DEF InsertsRow, Inserts, Basics, TypeOK, Versioned, Uncommitted

\* The half of a pair another request has written stays as it is.
LEMMA HalfPairStays ==
    ASSUME Basics, NEW r \in Request, Kinds(r), NEW q \in Request \ {r}, NEW c \in ContactId
    PROVE  HalfPair(q, c) => HalfPair(q, c)' /\ holder'[c] = q
<1>1. c \in Key
  BY KeysAreIds
<1>2. req'[q] = req[q]
  BY Moves DEF OthersWait
<1>3. holder[c] = q =>
        db'[c] = db[c] /\ draft'[c] = draft[c] /\ holder'[c] = holder[c]
  BY <1>1, Effects, NoRequestIsNoRequest
<1>4. QED
  BY <1>2, <1>3 DEF HalfPair, At, Current

\* After a step that is not one of the inserts of createContactPair the
\* request is not between them, and before it it was not either.
LEMMA NotBetween ==
    ASSUME Basics, NEW r \in Request,
           \/ Quiet(r) \/ Throw(r) \/ commit(r) \/ Closing(r)
           \/ Advance(r) /\ Current(r) \in {"insertInvite", "insertBlock"}
    PROVE  /\ ~At(r, "insertReverseContact")'
           /\ ~Throw(r) => ~At(r, "insertReverseContact")
<1>1. CASE Quiet(r)
  BY <1>1 DEF Quiet, At
<1>2. CASE Throw(r) \/ commit(r)
  <2>1. req'[r] = Idle
    BY <1>2 DEF Throw, commit, Basics, TypeOK
  <2>2. Current(r)' = "idle"
    BY <2>1 DEF Current, Idle, Script
  <2>3. commit(r) => Current(r) = "commit"
    BY DEF commit, At
  <2>4. QED
    BY <1>2, <2>2, <2>3 DEF At
<1>3. CASE Advance(r) /\ Current(r) \notin {"commit", "idle", "insertContact", "insertReverseContact"}
  <2>1. Current(r)' = Script[req[r].op][req[r].pc + 1]
    BY <1>3, Advanced
  <2>2. Script[req[r].op][req[r].pc + 1] # "insertReverseContact"
    BY <1>3, Statement, ScriptSteps
  <2>3. QED
    BY <1>3, <2>1, <2>2 DEF At
<1>4. QED
  BY <1>1, <1>2, <1>3 DEF Closing

\* What PairsOK says of the uncommitted contact c.
Paired(c) ==
    \/ HalfPair(holder[c], c)
    \/ /\ draft[c].source # draft[c].target
       /\ \E d \in ContactId \ {c} :
            holder[d] = holder[c] /\ draft[d] # Absent /\ Mirrors(draft[c], draft[d])

LEMMA PairedStays ==
    ASSUME Basics, PairsOK, NEW r \in Request, Kinds(r), NEW c \in ContactId, Uncommitted(c),
           holder[c] # r
    PROVE  Paired(c)'
<1>1. c \in Key /\ ContactId \subseteq Key
  BY KeysAreIds
<1>2. holder[c] \in Request \ {r}
  BY <1>1, UncommittedIsHeld
<1>3. ASSUME NEW d \in ContactId, holder[d] = holder[c]
      PROVE  draft'[d] = draft[d] /\ holder'[d] = holder[d]
  BY <1>1, <1>2, <1>3, Effects, NoRequestIsNoRequest
<1>4. HalfPair(holder[c], c) => HalfPair(holder[c], c)'
  BY <1>2, HalfPairStays
<1>5. Paired(c)
  BY DEF PairsOK, Paired
<1>6. QED
  BY <1>2, <1>3, <1>4, <1>5 DEF Paired, HalfPair

LEMMA PairsKept ==
    ASSUME Basics, PairsOK, NEW r \in Request, Kinds(r)
    PROVE  PairsOK'
<1>1. ContactId \subseteq Key
  BY KeysAreIds
<1>2. SUFFICES /\ \A c \in ContactId : Uncommitted(c)' => Paired(c)'
               /\ \A q \in Request : At(q, "insertReverseContact")' =>
                    \E c \in ContactId : Uncommitted(c)' /\ HalfPair(q, c)'
  BY DEF PairsOK, Paired
<1>3. ASSUME NEW q \in Request \ {r}, At(q, "insertReverseContact")'
      PROVE  \E c \in ContactId : Uncommitted(c)' /\ HalfPair(q, c)'
  <2>1. At(q, "insertReverseContact")
    BY <1>3, Moves DEF OthersWait, At, Current
  <2>2. PICK c \in ContactId : Uncommitted(c) /\ HalfPair(q, c)
    BY <2>1 DEF PairsOK
  <2>3. HalfPair(q, c)'
    BY <2>2, HalfPairStays
  <2>4. db'[c] = db[c] /\ draft'[c] = draft[c]
    BY <1>1, <2>2, Effects, NoRequestIsNoRequest DEF HalfPair
  <2>5. Uncommitted(c)'
    BY <2>2, <2>4 DEF Uncommitted
  <2>6. QED
    BY <2>3, <2>5
<1>4. CASE Quiet(r) \/ Throw(r) \/ commit(r) \/ Closing(r)
  <2>1. ASSUME NEW c \in ContactId, Uncommitted(c)'
        PROVE  Paired(c)'
    <3>1. Uncommitted(c) /\ holder'[c] = holder[c] /\ SameEnds(c, draft[c], draft'[c])
      BY <1>1, <1>4, <2>1, NoneAdded
    <3>2. CASE holder[c] # r
      BY <3>1, <3>2, PairedStays
    <3>3. CASE holder[c] = r
      <4>1. ~HalfPair(r, c)
        BY <1>1, <1>4, <2>1, <3>3, NotBetween, NoneLeft DEF HalfPair
      <4>2. Quiet(r) \/ Closing(r)
        BY <1>1, <1>4, <2>1, <3>3, NoneLeft
      <4>3. PICK d \in ContactId \ {c} :
                holder[d] = r /\ draft[d] # Absent /\ Mirrors(draft[c], draft[d])
        BY <3>1, <3>3, <4>1 DEF PairsOK
      <4>4. /\ holder'[d] = r /\ draft'[d] # Absent
            /\ SameEnds(d, draft[d], draft'[d])
        <5>1. CASE Quiet(r)
          BY <4>3, <5>1 DEF Quiet, tables, SameEnds
        <5>2. CASE Closing(r)
          <6>1. d \in Key
            BY <1>1
          <6>2. CASE Closes(r, d)
            BY <6>1, <6>2, TableOf DEF Closes, Later
          <6>3. CASE draft'[d] = draft[d] /\ holder'[d] = holder[d]
            BY <4>3, <6>3 DEF SameEnds
          <6>4. QED
            BY <5>2, <6>1, <6>2, <6>3 DEF Closing
        <5>3. QED
          BY <4>2, <5>1, <5>2
      <4>5. draft[c].source # draft[c].target
        BY <3>1, <3>3, <4>1 DEF PairsOK
      <4>6. Mirrors(draft'[c], draft'[d]) /\ draft'[c].source # draft'[c].target
        BY <3>1, <4>3, <4>4, <4>5 DEF Mirrors, SameEnds
      <4>7. QED
        BY <3>1, <3>3, <4>4, <4>6 DEF Paired
    <3>4. QED
      BY <3>2, <3>3
  <2>2. ~At(r, "insertReverseContact")'
    BY <1>4, NotBetween
  <2>3. QED
    BY <1>2, <1>3, <2>1, <2>2
<1>5. ASSUME NEW k \in Key, NEW row \in Rows, InsertsRow(r, k, row)
      PROVE  /\ \A c \in ContactId : Uncommitted(c)' => Paired(c)'
             /\ At(r, "insertReverseContact")' =>
                    \E c \in ContactId : Uncommitted(c)' /\ HalfPair(r, c)'
  <2>1. ASSUME NEW c \in ContactId
        PROVE  /\ c # k => draft'[c] = draft[c] /\ holder'[c] = holder[c]
               /\ c = k => draft[c] = Absent /\ holder[c] = NoRequest
                           /\ draft'[c] = row /\ holder'[c] = r /\ row # Absent /\ db[c] = Absent
               /\ Uncommitted(c)' <=> Uncommitted(c) \/ c = k
    BY <1>1, <1>5, OneAdded
  <2>2. \A c \in ContactId : Uncommitted(c) /\ holder[c] # r => Paired(c)'
    BY PairedStays
  <2>3. CASE Current(r) \in {"insertInvite", "insertBlock"}
    <3>1. ~At(r, "insertReverseContact") /\ ~At(r, "insertReverseContact")'
      <4>1. Advance(r)
        BY <1>5 DEF InsertsRow, Inserts
      <4>2. ~At(r, "insertReverseContact")'
        BY <2>3, <4>1, NotBetween
      <4>3. QED
        BY <2>3, <4>2 DEF At
    <3>2. k \notin ContactId
      BY <1>5, <2>3 DEF InsertsRow
    <3>3. ASSUME NEW c \in ContactId, Uncommitted(c), holder[c] = r
          PROVE  Paired(c)'
      <4>1. PICK d \in ContactId \ {c} :
                holder[d] = r /\ draft[d] # Absent /\ Mirrors(draft[c], draft[d])
        BY <3>1, <3>3 DEF PairsOK, HalfPair
      <4>2. draft[c].source # draft[c].target
        BY <3>1, <3>3 DEF PairsOK, HalfPair
      <4>3. /\ draft'[c] = draft[c] /\ holder'[c] = r
            /\ draft'[d] = draft[d] /\ holder'[d] = r
        BY <2>1, <3>2, <3>3, <4>1
      <4>4. QED
        BY <4>1, <4>2, <4>3 DEF Paired
    <3>4. QED
      BY <2>1, <2>2, <3>1, <3>2, <3>3
  <2>4. CASE Current(r) = "insertContact"
    <3>1. /\ k \in ContactId /\ row.source = req[r].a /\ row.target = req[r].b
          /\ row.invite = req[r].row /\ row.removedBy = NoUser
          /\ Advance(r)
      BY <1>5, <2>4 DEF InsertsRow, Inserts, At
    <3>2. /\ Current(r)' = "insertReverseContact"
          /\ req'[r].a = req[r].a /\ req'[r].b = req[r].b /\ req'[r].row = req[r].row
      <4>1. /\ req'[r] = [req[r] EXCEPT !.pc = @ + 1]
            /\ Current(r)' = Script[req[r].op][req[r].pc + 1]
        BY <2>4, <3>1, Advanced
      <4>2. Script[req[r].op][req[r].pc + 1] = "insertReverseContact"
        BY <2>4, Statement, ScriptSteps
      <4>3. QED
        BY <4>1, <4>2, Statement DEF RequestState
    <3>3. HalfPair(r, k)'
      BY <2>1, <3>1, <3>2 DEF HalfPair, At, ActiveContact
    <3>4. ASSUME NEW c \in ContactId, Uncommitted(c), holder[c] = r
          PROVE  Paired(c)'
      <4>1. PICK d \in ContactId \ {c} :
                holder[d] = r /\ draft[d] # Absent /\ Mirrors(draft[c], draft[d])
        BY <2>4, <3>4 DEF PairsOK, HalfPair, At
      <4>2. draft[c].source # draft[c].target
        BY <2>4, <3>4 DEF PairsOK, HalfPair, At
      <4>3. /\ draft'[c] = draft[c] /\ holder'[c] = r
            /\ draft'[d] = draft[d] /\ holder'[d] = r
        BY <2>1, <3>4, <4>1 DEF Uncommitted
      <4>4. QED
        BY <4>1, <4>2, <4>3 DEF Paired
    <3>5. Paired(k)'
      BY <2>1, <3>1, <3>3 DEF Paired
    <3>6. QED
      BY <2>1, <2>2, <3>1, <3>3, <3>4, <3>5
  <2>5. CASE Current(r) = "insertReverseContact"
    <3>1. /\ k \in ContactId /\ row.source = req[r].b /\ row.target = req[r].a
          /\ row.invite = req[r].row /\ row.removedBy = NoUser
          /\ Advance(r)
      BY <1>5, <2>5 DEF InsertsRow, Inserts, At
    <3>2. ~At(r, "insertReverseContact")'
      <4>1. Current(r)' = Script[req[r].op][req[r].pc + 1]
        BY <2>5, <3>1, Advanced
      <4>2. Script[req[r].op][req[r].pc + 1] # "insertReverseContact"
        BY <2>5, Statement, ScriptSteps
      <4>3. QED
        BY <4>1, <4>2 DEF At
    <3>3. PICK h \in ContactId : Uncommitted(h) /\ HalfPair(r, h)
      BY <2>5 DEF PairsOK, At
    <3>4. h # k /\ draft'[h] = draft[h] /\ holder'[h] = r
      BY <2>1, <3>3 DEF Uncommitted, HalfPair
    <3>5. draft'[k] = row /\ holder'[k] = r /\ row # Absent
      BY <2>1, <3>1
    <3>6. req[r].a # req[r].b
      <4>1. SUFFICES ASSUME req[r].a = req[r].b
                     PROVE  FALSE
        OBVIOUS
      <4>2. SameTable(k, h) /\ h \in Key /\ req[r].a \in User
        <5>1. req[r].op = "acceptInvite"
          BY <2>5, Statement, ScriptSteps
        <5>2. QED
          BY <1>1, <3>1, <5>1 DEF SameTable, Basics, RequestsOK, RequestOK
      <4>3. Occupies(k, row, req[r].a, req[r].a)
        BY <3>1, <3>5, <4>1 DEF Occupies, ActiveContact
      <4>4. Occupies(h, draft[h], req[r].a, req[r].a)
        BY <3>3, <4>1 DEF Occupies, HalfPair
      <4>5. QED
        BY <1>5, <4>2, <4>3, <4>4 DEF InsertsRow
    <3>7. Paired(k)'
      <4>1. Mirrors(draft'[k], draft'[h])
        BY <3>1, <3>3, <3>4, <3>5 DEF Mirrors, HalfPair, ActiveContact
      <4>2. draft'[h] # Absent
        BY <3>3, <3>4 DEF Uncommitted
      <4>3. draft'[k].source # draft'[k].target
        BY <3>1, <3>5, <3>6
      <4>4. QED
        BY <3>1, <3>3, <3>4, <3>5, <4>1, <4>2, <4>3 DEF Paired
    <3>8. ASSUME NEW c \in ContactId, Uncommitted(c), holder[c] = r
          PROVE  Paired(c)'
      <4>1. c # k /\ draft'[c] = draft[c] /\ holder'[c] = r
        BY <2>1, <3>8 DEF Uncommitted
      <4>2. CASE HalfPair(r, c)
        <5>1. Mirrors(draft'[c], draft'[k]) /\ draft'[c].source # draft'[c].target
          BY <3>1, <3>5, <3>6, <4>1, <4>2 DEF Mirrors, HalfPair, ActiveContact
        <5>2. QED
          BY <3>1, <3>5, <4>1, <5>1 DEF Paired
      <4>3. CASE ~HalfPair(r, c)
        <5>1. PICK d \in ContactId \ {c} :
                  holder[d] = r /\ draft[d] # Absent /\ Mirrors(draft[c], draft[d])
          BY <3>8, <4>3 DEF PairsOK
        <5>2. draft[c].source # draft[c].target
          BY <3>8, <4>3 DEF PairsOK
        <5>3. draft'[d] = draft[d] /\ holder'[d] = r
          BY <2>1, <5>1
        <5>4. QED
          BY <4>1, <5>1, <5>2, <5>3 DEF Paired
      <4>4. QED
        BY <4>2, <4>3
    <3>9. QED
      BY <2>1, <2>2, <3>2, <3>7, <3>8
  <2>6. QED
    BY <1>5, <2>3, <2>4, <2>5 DEF InsertsRow
<1>6. CASE \E k \in Key, row \in Rows : InsertsRow(r, k, row)
  BY <1>2, <1>3, <1>5, <1>6
<1>7. QED
  BY <1>4, <1>6 DEF Kinds

\* What an answered invite means to a request lasts.
LEMMA AnswerStays ==
    ASSUME Basics, NEW r \in Request, Kinds(r), NEW q \in Request, NEW i, NEW row,
           AnsweredBy(q, i, row),
           q # r \/ ~(Throw(r) \/ commit(r))
    PROVE  /\ i \in InviteId
           /\ db'[i] # Absent
           /\ holder'[i] = q
           /\ draft'[i].status # "PENDING"
           /\ {row.source, row.target} = {draft'[i].inviter, draft'[i].invitee}
<1>1. /\ i \in Key /\ i \in InviteId /\ i \notin ContactId
      /\ db[i] # Absent /\ draft[i] # Absent
      /\ holder[i] = q /\ q # NoRequest
  BY KeysAreIds, NoRequestIsNoRequest DEF AnsweredBy, Basics, Versions
<1>2. db'[i] # Absent
  BY <1>1, Effects
<1>3. /\ holder'[i] = q
      /\ draft'[i].status # "PENDING"
      /\ draft'[i].inviter = draft[i].inviter /\ draft'[i].invitee = draft[i].invitee
  <2>1. CASE q # r
    BY <1>1, <2>1, Effects DEF AnsweredBy
  <2>2. CASE q = r /\ Quiet(r)
    BY <1>1, <2>2 DEF AnsweredBy, Quiet, tables
  <2>3. CASE q = r /\ Closing(r)
    <3>1. CASE Closes(r, i)
      BY <1>1, <2>3, <3>1 DEF Closes, Closed, Later, SameEnds
    <3>2. CASE draft'[i] = draft[i] /\ holder'[i] = holder[i]
      BY <1>1, <3>2 DEF AnsweredBy
    <3>3. QED
      BY <1>1, <2>3, <3>1, <3>2 DEF Closing
  <2>4. ASSUME NEW k \in Key, NEW version \in Rows, InsertsRow(r, k, version)
        PROVE  draft'[i] = draft[i] /\ holder'[i] = holder[i]
    BY <1>1, <2>4, OneAdded
  <2>5. CASE \E k \in Key, version \in Rows : InsertsRow(r, k, version)
    BY <1>1, <2>4, <2>5 DEF AnsweredBy
  <2>6. QED
    BY <2>1, <2>2, <2>3, <2>5 DEF Kinds
<1>4. {row.source, row.target} = {draft[i].inviter, draft[i].invitee}
  BY DEF AnsweredBy
<1>5. QED
  BY <1>1, <1>2, <1>3, <1>4 DEF AnsweredBy

LEMMA OriginsKept ==
    ASSUME Basics, NEW r \in Request, Kinds(r)
    PROVE  OriginsOK'
<1>1. ContactId \subseteq Key
  BY KeysAreIds
<1>2. ASSUME NEW c \in ContactId, Uncommitted(c),
             holder[c] # r \/ ~(Throw(r) \/ commit(r)),
             SameEnds(c, draft[c], draft'[c]), holder'[c] = holder[c]
      PROVE  AnsweredBy(holder[c], draft[c].invite, draft[c])'
  <2>1. PICK q \in Request : q = holder[c]
    BY <1>1, <1>2, UncommittedIsHeld
  <2>2. AnsweredBy(q, draft[c].invite, draft[c])
    BY <1>2, <2>1 DEF Basics, OriginsOK
  <2>3. /\ draft'[c].source = draft[c].source /\ draft'[c].target = draft[c].target
        /\ draft'[c].invite = draft[c].invite
    BY <1>2 DEF SameEnds
  <2>4. LET i == draft[c].invite
        IN  /\ i \in InviteId
            /\ db'[i] # Absent
            /\ holder'[i] = q
            /\ draft'[i].status # "PENDING"
            /\ {draft[c].source, draft[c].target} = {draft'[i].inviter, draft'[i].invitee}
    BY <1>2, <2>1, <2>2, AnswerStays
  <2>5. QED
    BY <1>2, <2>1, <2>3, <2>4 DEF AnsweredBy
<1>3. ASSUME NEW q \in Request,
             q # r \/ ~(Throw(r) \/ commit(r)),
             Current(q) \in {"insertContact", "insertReverseContact"},
             req'[q].a = req[q].a, req'[q].b = req[q].b, req'[q].row = req[q].row
      PROVE  AnsweredBy(q, req[q].row, [source |-> req[q].a, target |-> req[q].b])'
  <2> DEFINE row == [source |-> req[q].a, target |-> req[q].b]
  <2>1. AnsweredBy(q, req[q].row, row)
    BY <1>3 DEF Basics, OriginsOK
  <2>2. LET i == req[q].row
        IN  /\ i \in InviteId
            /\ db'[i] # Absent
            /\ holder'[i] = q
            /\ draft'[i].status # "PENDING"
            /\ {row.source, row.target} = {draft'[i].inviter, draft'[i].invitee}
    BY <1>3, <2>1, AnswerStays
  <2>3. QED
    BY <1>3, <2>2 DEF AnsweredBy
<1>4. ASSUME NEW q \in Request \ {r}, Current(q)' \in {"insertContact", "insertReverseContact"}
      PROVE  AnsweredBy(q, req[q].row, [source |-> req[q].a, target |-> req[q].b])'
  <2>1. req'[q] = req[q]
    BY Moves DEF OthersWait
  <2>2. QED
    BY <1>3, <1>4, <2>1 DEF Current
<1>5. ASSUME Current(r)' \in {"insertContact", "insertReverseContact"}
      PROVE  AnsweredBy(r, req[r].row, [source |-> req[r].a, target |-> req[r].b])'
  <2>1. ~Quiet(r) /\ ~Throw(r) /\ ~commit(r)
    <3>1. req'[r] = Idle => Current(r)' = "idle"
      BY DEF Current, Idle, Script
    <3>2. QED
      BY <1>5, <3>1 DEF Quiet, Throw, commit, Basics, TypeOK
  <2>2. Advance(r) /\ Current(r) \notin {"commit", "idle"}
    BY <2>1 DEF Kinds, Closing, InsertsRow, Inserts
  <2>3. /\ req'[r] = [req[r] EXCEPT !.pc = @ + 1]
        /\ Current(r)' = Script[req[r].op][req[r].pc + 1]
    BY <2>2, Advanced
  <2>4. req'[r].a = req[r].a /\ req'[r].b = req[r].b /\ req'[r].row = req[r].row
    BY <2>3, Statement DEF RequestState
  <2>5. Current(r) \in {"setInviteAccepted", "insertContact"}
    BY <1>5, <2>2, <2>3, Statement, ScriptSteps
  <2>6. CASE Current(r) = "insertContact"
    BY <1>3, <2>1, <2>4, <2>6
  <2>7. CASE Current(r) = "setInviteAccepted"
    <3>1. Closes(r, req[r].row) /\ db' = db
      BY <2>1, <2>7 DEF Kinds, Closing, InsertsRow, At
    <3>2. req[r].op \in Answering
      BY <2>7, Statement, ScriptSteps DEF Answering
    <3>3. /\ req[r].row \in InviteId /\ req[r].row \in Key
          /\ db[req[r].row] # Absent
          /\ db[req[r].row].inviter = req[r].a /\ db[req[r].row].invitee = req[r].b
      BY <3>2, KeysAreIds DEF Basics, RequestsOK, RequestOK
    <3>4. Later(req[r].row, db[req[r].row], draft[req[r].row])
      BY <3>3 DEF Basics, Versions
    <3>5. /\ holder'[req[r].row] = r
          /\ draft'[req[r].row].status # "PENDING"
          /\ draft'[req[r].row].inviter = req[r].a /\ draft'[req[r].row].invitee = req[r].b
      BY <3>1, <3>3, <3>4 DEF Closes, Closed, Later, SameEnds
    <3>6. QED
      BY <2>4, <3>1, <3>3, <3>5 DEF AnsweredBy
  <2>8. QED
    BY <2>5, <2>6, <2>7
<1>6. ASSUME NEW c \in ContactId, Uncommitted(c)'
      PROVE  AnsweredBy(holder[c], draft[c].invite, draft[c])'
  <2>1. CASE Quiet(r) \/ Throw(r) \/ commit(r) \/ Closing(r)
    BY <1>1, <1>2, <1>6, <2>1, NoneAdded, NoneLeft
  <2>2. ASSUME NEW k \in Key, NEW row \in Rows, InsertsRow(r, k, row)
        PROVE  AnsweredBy(holder[c], draft[c].invite, draft[c])'
    <3>1. /\ c # k => draft'[c] = draft[c] /\ holder'[c] = holder[c]
          /\ c = k => draft'[c] = row /\ holder'[c] = r
          /\ Uncommitted(c)' <=> Uncommitted(c) \/ c = k
      BY <1>1, <2>2, OneAdded
    <3>2. Advance(r)
      BY <2>2 DEF InsertsRow, Inserts
    <3>3. ~Throw(r) /\ ~commit(r)
      <4>1. Current(r) \notin {"commit", "idle"}
        BY <2>2 DEF InsertsRow
      <4>2. req'[r].op # "none"
        BY <3>2, <4>1, Advanced
      <4>3. QED
        BY <4>2 DEF Throw, commit, Idle, Basics, TypeOK
    <3>4. CASE c # k
      BY <1>2, <1>6, <3>1, <3>3, <3>4 DEF SameEnds
    <3>5. CASE c = k
      <4>1. /\ Current(r) \in {"insertContact", "insertReverseContact"}
            /\ row.invite = req[r].row
            /\ {row.source, row.target} = {req[r].a, req[r].b}
        BY <2>2, <3>5 DEF InsertsRow, At
      <4> DEFINE ends == [source |-> req[r].a, target |-> req[r].b]
      <4>2. AnsweredBy(r, req[r].row, ends)
        BY <4>1 DEF Basics, OriginsOK
      <4>3. LET i == req[r].row
            IN  /\ i \in InviteId
                /\ db'[i] # Absent
                /\ holder'[i] = r
                /\ draft'[i].status # "PENDING"
                /\ {ends.source, ends.target} = {draft'[i].inviter, draft'[i].invitee}
        BY <3>3, <4>2, AnswerStays
      <4>4. QED
        BY <3>1, <3>5, <4>1, <4>3 DEF AnsweredBy
    <3>6. QED
      BY <3>4, <3>5
  <2>3. CASE \E k \in Key, row \in Rows : InsertsRow(r, k, row)
    BY <2>2, <2>3
  <2>4. QED
    BY <2>1, <2>3 DEF Kinds
<1>7. QED
  BY <1>4, <1>5, <1>6 DEF OriginsOK

LEMMA RemovalsKept ==
    ASSUME Basics, RemovalsOK, RemovedByEntitled, NEW r \in Request, Kinds(r)
    PROVE  RemovalsOK'
<1> SUFFICES ASSUME NEW c \in ContactId, draft'[c] # Absent
             PROVE  draft'[c].removedBy \in {NoUser, draft'[c].source, draft'[c].target} \cup Admin
  BY DEF RemovalsOK
<1>1. c \in Key
  BY KeysAreIds
<1>2. CASE draft'[c] = draft[c]
  BY <1>2 DEF RemovalsOK
<1>3. CASE draft'[c] = db[c]
  BY <1>3 DEF RemovedByEntitled
<1>4. CASE Quiet(r)
  BY <1>2, <1>4 DEF Quiet, tables
<1>5. CASE Throw(r)
  BY <1>1, <1>2, <1>3, <1>5 DEF Throw, RollbackTx
<1>6. CASE commit(r)
  BY <1>2, <1>6 DEF commit, CommitTx
<1>7. CASE Closing(r)
  <2>1. CASE Closes(r, c)
    BY <2>1 DEF Closes, Later, SameEnds
  <2>2. QED
    BY <1>1, <1>2, <1>7, <2>1 DEF Closing
<1>8. CASE \E k \in Key, row \in Rows : InsertsRow(r, k, row)
  <2>1. PICK k \in Key, row \in Rows : InsertsRow(r, k, row)
    BY <1>8
  <2>2. CASE c = k
    <3>1. draft'[c] = row
      BY <1>1, <2>1, <2>2, OneAdded
    <3>2. QED
      BY <2>1, <2>2, <3>1 DEF InsertsRow
  <2>3. CASE c # k
    BY <1>1, <1>2, <2>1, <2>3, OneAdded
  <2>4. QED
    BY <2>2, <2>3
<1>9. QED
  BY <1>4, <1>5, <1>6, <1>7, <1>8 DEF Kinds

\* What a commit makes of a contact: it was uncommitted or there already.
LEMMA Committed ==
    ASSUME Basics, NEW r \in Request, commit(r), NEW c \in ContactId, db'[c] # Absent
    PROVE  /\ db[c] = Absent => Uncommitted(c) /\ holder[c] = r /\ db'[c] = draft[c]
           /\ db[c] # Absent => SameEnds(c, db[c], db'[c])
           /\ holder[c] = r => db'[c] = draft[c]
           /\ db'[c] \in {db[c], draft[c]}
<1>1. c \in Key
  BY KeysAreIds
<1>2. db'[c] = IF holder[c] = r THEN draft[c] ELSE db[c]
  BY <1>1 DEF commit, CommitTx, Visible
<1>3. db[c] # Absent => Later(c, db[c], db'[c])
  BY <1>1, Effects DEF Kinds
<1>4. QED
  BY <1>2, <1>3 DEF Uncommitted, Later

LEMMA OnlyCommitsShow ==
    ASSUME NEW r \in Request, Kinds(r), ~commit(r)
    PROVE  db' = db
BY DEF Kinds, Quiet, tables, Throw, RollbackTx, Closing, InsertsRow, Inserts

LEMMA CommittedPairsKept ==
    ASSUME Basics, PairsOK, ContactsComeInPairs, NoSelfContact, NEW r \in Request, Kinds(r)
    PROVE  ContactsComeInPairs' /\ NoSelfContact'
<1>1. CASE ~commit(r)
  BY <1>1, OnlyCommitsShow DEF ContactsComeInPairs, NoSelfContact
<1>2. CASE commit(r)
  <2>1. ASSUME NEW c \in ContactId, db'[c] # Absent
        PROVE  /\ \E d \in ContactId \ {c} : db'[d] # Absent /\ Mirrors(db'[c], db'[d])
               /\ db'[c].source # db'[c].target
    <3>1. CASE db[c] = Absent
      <4>1. Uncommitted(c) /\ holder[c] = r /\ db'[c] = draft[c]
        BY <1>2, <2>1, <3>1, Committed
      <4>2. ~HalfPair(r, c)
        BY <1>2 DEF HalfPair, commit, At
      <4>3. PICK d \in ContactId \ {c} :
                holder[d] = r /\ draft[d] # Absent /\ Mirrors(draft[c], draft[d])
        BY <4>1, <4>2 DEF PairsOK
      <4>4. draft[c].source # draft[c].target
        BY <4>1, <4>2 DEF PairsOK
      <4>5. db'[d] = draft[d]
        BY <1>2, <4>3, KeysAreIds DEF commit, CommitTx, Visible
      <4>6. QED
        BY <4>1, <4>3, <4>4, <4>5
    <3>2. CASE db[c] # Absent
      <4>1. PICK d \in ContactId \ {c} : db[d] # Absent /\ Mirrors(db[c], db[d])
        BY <3>2 DEF ContactsComeInPairs
      <4>2. d \in Key
        BY KeysAreIds
      <4>3. db'[d] # Absent
        BY <4>1, <4>2, Effects
      <4>4. SameEnds(c, db[c], db'[c]) /\ SameEnds(d, db[d], db'[d])
        BY <1>2, <2>1, <3>2, <4>1, <4>3, Committed
      <4>5. db[c].source # db[c].target
        BY <3>2 DEF NoSelfContact
      <4>6. QED
        BY <4>1, <4>3, <4>4, <4>5 DEF Mirrors, SameEnds
    <3>3. QED
      BY <3>1, <3>2
  <2>2. QED
    BY <2>1 DEF ContactsComeInPairs, NoSelfContact, Mirrors
<1>3. QED
  BY <1>1, <1>2

LEMMA CommittedOriginsKept ==
    ASSUME Basics, ContactsFromAnsweredInvites, NEW r \in Request, Kinds(r)
    PROVE  ContactsFromAnsweredInvites'
<1>1. CASE ~commit(r)
  BY <1>1, OnlyCommitsShow DEF ContactsFromAnsweredInvites
<1>2. CASE commit(r)
  <2> SUFFICES ASSUME NEW c \in ContactId, db'[c] # Absent
               PROVE  /\ db'[db'[c].invite] # Absent
                      /\ db'[db'[c].invite].status # "PENDING"
                      /\ {db'[c].source, db'[c].target}
                            = {db'[db'[c].invite].inviter, db'[db'[c].invite].invitee}
    BY DEF ContactsFromAnsweredInvites
  <2>1. CASE db[c] = Absent
    <3>1. Uncommitted(c) /\ holder[c] = r /\ db'[c] = draft[c]
      BY <1>2, <2>1, Committed
    <3>2. AnsweredBy(r, draft[c].invite, draft[c])
      BY <3>1 DEF Basics, OriginsOK
    <3>3. /\ draft[c].invite \in Key
          /\ draft[draft[c].invite] # Absent
      BY <3>2, KeysAreIds DEF AnsweredBy, Basics, Versions
    <3>4. db'[draft[c].invite] = draft[draft[c].invite]
      BY <1>2, <3>2, <3>3 DEF commit, CommitTx, Visible, AnsweredBy
    <3>5. QED
      BY <3>1, <3>2, <3>3, <3>4 DEF AnsweredBy
  <2>2. CASE db[c] # Absent
    <3>1. /\ db'[c].source = db[c].source /\ db'[c].target = db[c].target
          /\ db'[c].invite = db[c].invite
      BY <1>2, <2>2, Committed DEF SameEnds
    <3>2. db[c].invite \in InviteId /\ db[c].invite \in Key
      <4>1. c \in Key /\ RowOf(c) = ContactRow
        BY KeysAreIds, TableOf
      <4>2. db[c] \in ContactRow
        BY <2>2, <4>1 DEF Basics, TypeOK, Versioned
      <4>3. QED
        BY <4>2, KeysAreIds DEF ContactRow
    <3>3. /\ db[db[c].invite] # Absent
          /\ db[db[c].invite].status # "PENDING"
          /\ {db[c].source, db[c].target}
                = {db[db[c].invite].inviter, db[db[c].invite].invitee}
      BY <2>2 DEF ContactsFromAnsweredInvites
    <3>4. /\ db'[db[c].invite] # Absent
          /\ Later(db[c].invite, db[db[c].invite], db'[db[c].invite])
      BY <3>2, <3>3, Effects
    <3>5. QED
      BY <3>1, <3>2, <3>3, <3>4 DEF Later, SameEnds, Closed
  <2>3. QED
    BY <2>1, <2>2
<1>3. QED
  BY <1>1, <1>2

LEMMA CommittedRemovalsKept ==
    ASSUME Basics, RemovalsOK, RemovedByEntitled, NEW r \in Request, Kinds(r)
    PROVE  RemovedByEntitled'
<1>1. CASE ~commit(r)
  BY <1>1, OnlyCommitsShow DEF RemovedByEntitled
<1>2. CASE commit(r)
  BY <1>2, Committed DEF RemovedByEntitled, RemovalsOK
<1>3. QED
  BY <1>1, <1>2

-------------------------------------------------------------------------------
(* The theorems.                                                             *)

LEMMA InitialIInv == Init => IInv
<1> SUFFICES ASSUME Init
             PROVE  IInv
  OBVIOUS
<1>1. /\ \A k \in Key : db[k] = Absent /\ draft[k] = Absent /\ holder[k] = NoRequest
      /\ \A r \in Request : req[r] = Idle
  BY DEF Init, TablesInit
<1>2. TypeOK
  BY IdleIsKnown DEF Init, TablesInit, TypeOK, Versioned
<1>3. \A r \in Request : Current(r) = "idle"
  <2>1. Script["none"][1] = "idle"
    BY DEF Script
  <2>2. Idle.op = "none" /\ Idle.pc = 1
    BY DEF Idle
  <2>3. QED
    BY <1>1, <2>1, <2>2 DEF Current
<1>4. RequestsOK
  <2>1. 1 \in 1..Len(Script["none"]) /\ "none" \notin Answering
    BY DEF Script, Answering
  <2>2. Idle.op = "none" /\ Idle.pc = 1 /\ Idle.found = {}
    BY DEF Idle
  <2>3. ASSUME NEW r \in Request
        PROVE  RequestOK(r)
    <3>1. req[r] = Idle
      BY <1>1
    <3>2. QED
      BY <2>1, <2>2, <3>1 DEF RequestOK
  <2>4. QED
    BY <2>3 DEF RequestsOK
<1>5. ContactId \subseteq Key /\ InviteId \subseteq Key /\ BlockId \subseteq Key
  BY KeysAreIds
<1>6. IndexesOK
  BY <1>1, ClosedHoldsNoPlace DEF IndexesOK
<1>7. UniqueRows
  BY <1>6, UniqueFromIndexes
<1>8. PairsOK /\ ContactsComeInPairs /\ NoSelfContact
  BY <1>1, <1>3, <1>5 DEF PairsOK, ContactsComeInPairs, NoSelfContact, Uncommitted, At
<1>9. OriginsOK /\ ContactsFromAnsweredInvites
  BY <1>1, <1>3, <1>5 DEF OriginsOK, ContactsFromAnsweredInvites, Uncommitted
<1>10. RemovalsOK /\ RemovedByEntitled
  BY <1>1, <1>5 DEF RemovalsOK, RemovedByEntitled
<1>11. Versions
  BY <1>1 DEF Versions
<1>12. QED
  BY <1>2, <1>4, <1>6, <1>7, <1>8, <1>9, <1>10, <1>11 DEF IInv

LEMMA NextKeepsIInv == IInv /\ [Next]_vars => IInv'
<1> SUFFICES ASSUME IInv, [Next]_vars
             PROVE  IInv'
  OBVIOUS
<1>1. Basics
  BY DEF IInv, Basics
<1>2. ASSUME NEW r \in Request, Begin(r) \/ Run(r) \/ Abort(r)
      PROVE  IInv'
  <2>1. Kinds(r)
    BY <1>1, <1>2, Classified
  <2>2. TypeOK' /\ Versions' /\ RequestsOK'
    BY <1>1, <2>1, TypeKept, VersionsKept, RequestsKept
  <2>3. IndexesOK'
    BY <1>1, <2>1, IndexesKept DEF IInv
  <2>4. UniqueRows'
    BY <2>3, UniqueFromIndexes, PTL
  <2>5. PairsOK' /\ ContactsComeInPairs' /\ NoSelfContact'
    BY <1>1, <2>1, PairsKept, CommittedPairsKept DEF IInv
  <2>6. OriginsOK' /\ ContactsFromAnsweredInvites'
    BY <1>1, <2>1, OriginsKept, CommittedOriginsKept DEF IInv
  <2>7. RemovalsOK' /\ RemovedByEntitled'
    BY <1>1, <2>1, RemovalsKept, CommittedRemovalsKept DEF IInv
  <2>8. QED
    BY <2>2, <2>3, <2>4, <2>5, <2>6, <2>7 DEF IInv
<1>3. CASE UNCHANGED vars
  <2>1. /\ db' = db /\ draft' = draft /\ holder' = holder /\ req' = req
    BY <1>3 DEF vars
  <2>2. TypeOK' /\ Versions' /\ RequestsOK'
    BY <2>1 DEF IInv, TypeOK, Versions, RequestsOK, RequestOK
  <2>3. IndexesOK' /\ UniqueRows'
    BY <2>1 DEF IInv, IndexesOK, UniqueRows
  <2>4. PairsOK' /\ ContactsComeInPairs' /\ NoSelfContact'
    BY <2>1 DEF IInv, PairsOK, ContactsComeInPairs, NoSelfContact, Uncommitted, HalfPair, At,
                Current
  <2>5. OriginsOK' /\ ContactsFromAnsweredInvites' /\ RemovalsOK' /\ RemovedByEntitled'
    BY <2>1 DEF IInv, OriginsOK, AnsweredBy, ContactsFromAnsweredInvites, RemovalsOK,
                RemovedByEntitled, Uncommitted, Current
  <2>6. QED
    BY <2>2, <2>3, <2>4, <2>5 DEF IInv
<1>4. QED
  BY <1>2, <1>3 DEF Next

\* The inductive invariant: the properties below, with what they say of rows
\* still uncommitted and of what each request knows.
THEOREM InvariantHolds == Spec => []IInv
<1>1. Init => IInv
  BY InitialIInv
<1>2. IInv /\ [Next]_vars => IInv'
  BY NextKeepsIInv
<1>3. QED
  BY <1>1, <1>2, PTL DEF Spec

\* Rows stay rows of their tables whatever the interleaving and the number of
\* requests.
THEOREM TypesAreCorrect == Spec => []TypeOK
<1>1. IInv => TypeOK
  BY DEF IInv
<1>2. QED
  BY <1>1, InvariantHolds, PTL

\* The checks of createInvite, createContact and blockUser, and the waits on
\* the partial unique indexes behind them, leave no duplicate.
THEOREM RowsAreUnique == Spec => []UniqueRows
<1>1. IInv => UniqueRows
  BY DEF IInv
<1>2. QED
  BY <1>1, InvariantHolds, PTL

\* createContactPair is all or nothing.
THEOREM ContactsArePaired == Spec => []ContactsComeInPairs
<1>1. IInv => ContactsComeInPairs
  BY DEF IInv
<1>2. QED
  BY <1>1, InvariantHolds, PTL

\* Nobody becomes their own contact, although anybody may invite themself and
\* accept: the pair is its own reverse and the index refuses it.
THEOREM NobodyIsTheirOwnContact == Spec => []NoSelfContact
<1>1. IInv => NoSelfContact
  BY DEF IInv
<1>2. QED
  BY <1>1, InvariantHolds, PTL

\* Every contact goes back to an answered invite of the same two users.
THEOREM ContactsHaveOrigins == Spec => []ContactsFromAnsweredInvites
<1>1. IInv => ContactsFromAnsweredInvites
  BY DEF IInv
<1>2. QED
  BY <1>1, InvariantHolds, PTL

\* Whoever removed a contact was entitled to, although the guard ran earlier
\* and on another read.
THEOREM RemovalsAreEntitled == Spec => []RemovedByEntitled
<1>1. IInv => RemovedByEntitled
  BY DEF IInv
<1>2. QED
  BY <1>1, InvariantHolds, PTL

\* No row disappears or is reopened.
THEOREM HistoryStays == Spec => RowsAreHistory
<1> DEFINE Kept == \A k \in Key : db[k] # Absent =>
        /\ db'[k] # Absent
        /\ k \in InviteId /\ db[k].status # "PENDING" => db'[k].status # "PENDING"
        /\ k \notin InviteId /\ db[k].removedBy # NoUser => db'[k].removedBy # NoUser
<1>1. IInv /\ [Next]_vars => [Kept]_db
  <2> SUFFICES ASSUME IInv, [Next]_vars, db' # db
               PROVE  Kept
    OBVIOUS
  <2>1. PICK r \in Request : Begin(r) \/ Run(r) \/ Abort(r)
    BY DEF Next, vars
  <2>2. Basics
    BY DEF IInv, Basics
  <2>3. \A k \in Key : db[k] # Absent => db'[k] # Absent /\ Later(k, db[k], db'[k])
    BY <2>1, <2>2, Classified, Effects
  <2>4. QED
    BY <2>3 DEF Later, Closed
<1>2. QED
  BY <1>1, InvariantHolds, PTL DEF Spec, RowsAreHistory

-------------------------------------------------------------------------------
(* Requests that do not overlap.  A request alone reads what it wrote        *)
(* itself, or what is committed: what its validators found still holds when  *)
(* it commits, and the rows it has written by then are told by its script.   *)

\* r is the only slot: no two requests overlap.
Alone(r) == Request = {r}

-------------------------------------------------------------------------------
(* The social graph of a table t.                                            *)

Waits(t, p, q) == \E i \in InviteId : PendingInvite(t[i], p, q)
Friend(t, p, q) == \E c \in ContactId : ActiveContact(t[c], p, q)
Bars(t, p, q) == \E k \in BlockId : ActiveBlock(t[k], p, q)

Unbarred(t, p, q) == ~Bars(t, p, q) /\ ~Bars(t, q, p)

ContactsOf(t, i) == {c \in ContactId : t[c] # Absent /\ t[c].invite = i}

Symmetric(t) == \A p, q \in User : Friend(t, p, q) => Friend(t, q, p)
FriendsFree(t) == \A p, q \in User : Friend(t, p, q) => Unbarred(t, p, q)
OneWay(t) == \A p, q \in User : Waits(t, p, q) /\ Waits(t, q, p) => p = q
Answered(t) ==
    \A i \in InviteId : t[i] # Absent =>
        IF t[i].status = "ACCEPTED"
        THEN \E c, d \in ContactId : c # d /\ ContactsOf(t, i) = {c, d}
        ELSE ContactsOf(t, i) = {}

GoodGraph(t) == Symmetric(t) /\ FriendsFree(t) /\ OneWay(t) /\ Answered(t)

-------------------------------------------------------------------------------
(* What a request alone has checked of the committed rows, and written, at   *)
(* each statement.                                                           *)

\* From which statement on the validators of an invite's operation have passed.
CleanPair(q, contactAt, inviterAt, inviteeAt) ==
    /\ q.pc > contactAt => ~Friend(db, q.a, q.b)
    /\ q.pc > inviterAt => ~Bars(db, q.a, q.b)
    /\ q.pc > inviteeAt => ~Bars(db, q.b, q.a)

Invitable(q) ==
    /\ q.pc > 1 => ~Waits(db, q.a, q.b)
    /\ q.pc > 2 => ~Waits(db, q.b, q.a)
    /\ CleanPair(q, 3, 4, 5)

Answerable(q) ==
    /\ q.pc > 1 => db[q.row].status = "PENDING"
    /\ CleanPair(q, 2, 3, 4)

Checked(q) ==
    /\ q.op = "createInvite" => Invitable(q)
    /\ q.op \in Answering => Answerable(q)
    /\ q.op = "blockUser" => q.a # q.b /\ (q.pc > 1 => ~Bars(db, q.a, q.b))
    /\ q.op = "unblockUser" => q.a # q.b
    /\ q.op = "deleteContact" => db[q.row].removedBy = NoUser

OnlyDiffer(K) == \A k \in Key \ K : draft[k] = db[k]
New(k, row) == db[k] = Absent /\ draft[k] = row

InviteFor(q) == [inviter |-> q.a, invitee |-> q.b, status |-> "PENDING"]
BlockFor(q) == [blocked |-> q.a, blocker |-> q.b, removedBy |-> NoUser]
ContactFor(q, source, target) ==
    [source |-> source, target |-> target, invite |-> q.row, removedBy |-> NoUser]

\* The active contacts between the two users.
Between(t, p, q) == {c \in ContactId : ActiveContact(t[c], p, q) \/ ActiveContact(t[c], q, p)}
Blocking(t, p, q) == {k \in BlockId : ActiveBlock(t[k], p, q)}

Removed(q, K) == \A k \in K : draft[k] = RemovedBy(q.caller, db[k])

Inviting(q) ==
    \/ q.pc <= 6 /\ OnlyDiffer({})
    \/ q.pc = 7 /\ \E i \in InviteId : New(i, InviteFor(q)) /\ OnlyDiffer({i})

Accepting(q) ==
    \/ q.pc <= 5 /\ OnlyDiffer({})
    \/ /\ q.pc > 5 /\ draft[q.row] = Accepted(db[q.row])
       /\ \/ q.pc = 6 /\ OnlyDiffer({q.row})
          \/ /\ q.pc > 6
             /\ \E c \in ContactId :
                /\ New(c, ContactFor(q, q.a, q.b))
                /\ \/ q.pc = 7 /\ OnlyDiffer({q.row, c})
                   \/ /\ q.pc = 8 /\ q.a # q.b
                      /\ \E d \in ContactId \ {c} :
                            New(d, ContactFor(q, q.b, q.a)) /\ OnlyDiffer({q.row, c, d})

Rejecting(q) ==
    \/ q.pc <= 5 /\ OnlyDiffer({})
    \/ /\ q.pc > 5 /\ draft[q.row] = Rejected(db[q.row])
       /\ \/ q.pc = 6 /\ OnlyDiffer({q.row})
          \/ /\ q.pc > 6
             /\ q.op = "rejectInviteAndBlockUser"
             /\ q.pc = 8 => q.found = {}
             /\ \E k \in BlockId : New(k, BlockFor(q)) /\ OnlyDiffer({q.row, k})

BlockingUser(q) ==
    \/ q.pc <= 2 /\ OnlyDiffer({})
    \/ /\ q.pc > 2
       /\ \E k \in BlockId :
            /\ New(k, BlockFor(q))
            /\ \/ q.pc <= 4 /\ OnlyDiffer({k})
               \/ /\ q.pc = 5
                  /\ Removed(q, Between(db, q.a, q.b))
                  /\ OnlyDiffer({k} \cup Between(db, q.a, q.b))
       /\ q.pc = 4 => q.found = Between(db, q.a, q.b)

Unblocking(q) ==
    \/ q.pc <= 2 /\ OnlyDiffer({})
    \/ /\ q.pc = 3 /\ Blocking(db, q.a, q.b) # {}
       /\ Removed(q, Blocking(db, q.a, q.b))
       /\ OnlyDiffer(Blocking(db, q.a, q.b))

Deleting(q) ==
    LET reverse == {c \in ContactId : ActiveContact(db[c], q.b, q.a)}
    IN \/ q.pc = 1 /\ OnlyDiffer({})
       \/ /\ q.pc > 1 /\ Removed(q, {q.row})
          /\ q.pc = 3 => q.found = reverse
          /\ \/ q.pc <= 3 /\ OnlyDiffer({q.row})
             \/ /\ q.pc = 4 /\ Removed(q, reverse)
                /\ OnlyDiffer({q.row} \cup reverse)

Written(q) ==
    /\ q.op = "none" => OnlyDiffer({})
    /\ q.op = "createInvite" => Inviting(q)
    /\ q.op = "acceptInvite" => Accepting(q)
    /\ q.op \in {"rejectInvite", "rejectInviteAndBlockUser"} => Rejecting(q)
    /\ q.op = "blockUser" => BlockingUser(q)
    /\ q.op = "unblockUser" => Unblocking(q)
    /\ q.op = "deleteContact" => Deleting(q)

SerialInv(r) == IInv /\ GoodGraph(db) /\ Checked(req[r]) /\ Written(req[r])

-------------------------------------------------------------------------------
(* Steps of a request alone.                                                 *)

\* r goes on with its next statement, about the same.
Goes(r) ==
    /\ db' = db
    /\ req'[r].op = req[r].op /\ req'[r].pc = req[r].pc + 1
    /\ req'[r].caller = req[r].caller
    /\ req'[r].a = req[r].a /\ req'[r].b = req[r].b /\ req'[r].row = req[r].row

\* The rows K get the versions rows.
Changed(K, rows) ==
    /\ \A k \in K : draft'[k] = rows[k]
    /\ \A k \in Key \ K : draft'[k] = draft[k]

LEMMA SeesDraft ==
    ASSUME IInv, NEW r \in Request, Alone(r)
    PROVE  Visible(r) = draft
<1>1. \A k \in Key : holder[k] \in {r, NoRequest}
  BY DEF IInv, TypeOK, Alone
<1>2. \A k \in Key : Visible(r)[k] = draft[k]
  BY <1>1 DEF Visible, IInv, Versions
<1>3. DOMAIN draft = Key /\ draft = [k \in Key |-> draft[k]]
  BY DEF IInv, TypeOK, Versioned
<1>4. Visible(r) = [k \in Key |-> Visible(r)[k]]
  BY DEF Visible
<1>5. QED
  BY <1>2, <1>3, <1>4

LEMMA NothingWritten ==
    ASSUME IInv, OnlyDiffer({})
    PROVE  draft = db
BY DEF IInv, TypeOK, Versioned, OnlyDiffer

LEMMA AboutUsers ==
    ASSUME IInv, NEW r \in Request, req[r].op # "none"
    PROVE  /\ req[r].a \in User /\ req[r].b \in User
           /\ req[r].op \in Answering =>
                /\ req[r].row \in InviteId /\ db[req[r].row] # Absent
                /\ db[req[r].row].inviter = req[r].a /\ db[req[r].row].invitee = req[r].b
           /\ req[r].op = "deleteContact" =>
                /\ req[r].row \in ContactId /\ db[req[r].row] # Absent
                /\ db[req[r].row].source = req[r].a /\ db[req[r].row].target = req[r].b
           /\ req[r].op \in {"rejectInviteAndBlockUser", "blockUser", "unblockUser",
                             "deleteContact"} => req[r].caller \in User
BY DEF IInv, RequestsOK, RequestOK

LEMMA AdvanceGoes ==
    ASSUME IInv, NEW r \in Request, Advance(r), db' = db
    PROVE  Goes(r) /\ req'[r].found = req[r].found
BY DEF IInv, TypeOK, RequestState, Advance, Goes

LEMMA ValidateGoes ==
    ASSUME IInv, NEW r \in Request, NEW ok, Validate(r, ok), ~Throw(r)
    PROVE  ok /\ Goes(r) /\ draft' = draft
<1>1. ok /\ Advance(r) /\ UNCHANGED tables
  BY DEF Validate
<1>2. QED
  BY <1>1, AdvanceGoes DEF tables

LEMMA FindGoes ==
    ASSUME IInv, NEW r \in Request, NEW rows, Find(r, rows)
    PROVE  Goes(r) /\ req'[r].found = rows /\ draft' = draft
BY DEF IInv, TypeOK, RequestState, Find, Goes, tables

LEMMA InsertGoes ==
    ASSUME IInv, NEW r \in Request, NEW Ids \in {InviteId, ContactId, BlockId}, NEW row,
           NEW duplicate, Insert(r, Ids, row, duplicate), ~Throw(r)
    PROVE  /\ ~duplicate
           /\ Goes(r) /\ req'[r].found = req[r].found
           /\ \E k \in Ids : /\ draft[k] = Absent /\ db[k] = Absent
                             /\ Changed({k}, [l \in {k} |-> row])
<1> DEFINE k == CHOOSE k \in Unused(Ids) : TRUE
<1>1. /\ ~duplicate /\ Unused(Ids) # {}
      /\ Put(r, [l \in {k} |-> row])
      /\ Advance(r)
  BY DEF Insert
<1>2. k \in Unused(Ids)
  BY <1>1
<1> HIDE DEF k
<1>3. k \in Ids /\ k \in Key /\ draft[k] = Absent
  BY <1>2, KeysAreIds DEF Unused
<1>4. db[k] = Absent
  BY <1>3 DEF IInv, Versions
<1>5. db' = db
  BY <1>1 DEF Put
<1>6. Changed({k}, [l \in {k} |-> row])
  BY <1>1, <1>3 DEF Put, Changed
<1>7. QED
  BY <1>1, <1>3, <1>4, <1>5, <1>6, AdvanceGoes

LEMMA PutGoes ==
    ASSUME IInv, NEW r \in Request, NEW rows, DOMAIN rows \subseteq Key, Put(r, rows), Advance(r)
    PROVE  Goes(r) /\ req'[r].found = req[r].found /\ Changed(DOMAIN rows, rows)
<1>1. db' = db
  BY DEF Put
<1>2. Changed(DOMAIN rows, rows)
  BY DEF Put, Changed
<1>3. QED
  BY <1>1, <1>2, AdvanceGoes

\* The statement r is at is the one that runs.
RunsStatement(r) ==
    /\ At(r, "validateInviteNotExists") => validateInviteNotExists(r)
    /\ At(r, "validateReverseInviteNotExists") => validateReverseInviteNotExists(r)
    /\ At(r, "validateInviteIsPending") => validateInviteIsPending(r)
    /\ At(r, "validateContactNotExists") => validateContactNotExists(r)
    /\ At(r, "validateInviterIsNotBlocked") => validateInviterIsNotBlocked(r)
    /\ At(r, "validateInviteeIsNotBlocked") => validateInviteeIsNotBlocked(r)
    /\ At(r, "validateNoUserBlockExists") => validateNoUserBlockExists(r)
    /\ At(r, "validateUserBlockExists") => validateUserBlockExists(r)
    /\ At(r, "insertInvite") => insertInvite(r)
    /\ At(r, "setInviteAccepted") => setInviteAccepted(r)
    /\ At(r, "setInviteRejected") => setInviteRejected(r)
    /\ At(r, "insertContact") => insertContact(r)
    /\ At(r, "insertReverseContact") => insertReverseContact(r)
    /\ At(r, "insertBlock") => insertBlock(r)
    /\ At(r, "findContactPair") => findContactPair(r)
    /\ At(r, "removeContactPair") => removeContactPair(r)
    /\ At(r, "removeUserBlock") => removeUserBlock(r)
    /\ At(r, "removeDirectContact") => removeDirectContact(r)
    /\ At(r, "getReverseContact") => getReverseContact(r)
    /\ At(r, "removeReverseContact") => removeReverseContact(r)
    /\ At(r, "commit") => commit(r)
    /\ ~At(r, "idle")

LEMMA RunIs ==
    ASSUME NEW r, Run(r)
    PROVE  RunsStatement(r)
<1>1. CASE validateInviteNotExists(r)
  <2>1. Current(r) = "validateInviteNotExists"
    BY <1>1 DEF validateInviteNotExists, At
  <2>2. QED
    BY <1>1, <2>1 DEF At, RunsStatement
<1>2. CASE validateReverseInviteNotExists(r)
  <2>1. Current(r) = "validateReverseInviteNotExists"
    BY <1>2 DEF validateReverseInviteNotExists, At
  <2>2. QED
    BY <1>2, <2>1 DEF At, RunsStatement
<1>3. CASE validateInviteIsPending(r)
  <2>1. Current(r) = "validateInviteIsPending"
    BY <1>3 DEF validateInviteIsPending, At
  <2>2. QED
    BY <1>3, <2>1 DEF At, RunsStatement
<1>4. CASE validateContactNotExists(r)
  <2>1. Current(r) = "validateContactNotExists"
    BY <1>4 DEF validateContactNotExists, At
  <2>2. QED
    BY <1>4, <2>1 DEF At, RunsStatement
<1>5. CASE validateInviterIsNotBlocked(r)
  <2>1. Current(r) = "validateInviterIsNotBlocked"
    BY <1>5 DEF validateInviterIsNotBlocked, At
  <2>2. QED
    BY <1>5, <2>1 DEF At, RunsStatement
<1>6. CASE validateInviteeIsNotBlocked(r)
  <2>1. Current(r) = "validateInviteeIsNotBlocked"
    BY <1>6 DEF validateInviteeIsNotBlocked, At
  <2>2. QED
    BY <1>6, <2>1 DEF At, RunsStatement
<1>7. CASE validateNoUserBlockExists(r)
  <2>1. Current(r) = "validateNoUserBlockExists"
    BY <1>7 DEF validateNoUserBlockExists, At
  <2>2. QED
    BY <1>7, <2>1 DEF At, RunsStatement
<1>8. CASE validateUserBlockExists(r)
  <2>1. Current(r) = "validateUserBlockExists"
    BY <1>8 DEF validateUserBlockExists, At
  <2>2. QED
    BY <1>8, <2>1 DEF At, RunsStatement
<1>9. CASE insertInvite(r)
  <2>1. Current(r) = "insertInvite"
    BY <1>9 DEF insertInvite, At
  <2>2. QED
    BY <1>9, <2>1 DEF At, RunsStatement
<1>10. CASE setInviteAccepted(r)
  <2>1. Current(r) = "setInviteAccepted"
    BY <1>10 DEF setInviteAccepted, At
  <2>2. QED
    BY <1>10, <2>1 DEF At, RunsStatement
<1>11. CASE setInviteRejected(r)
  <2>1. Current(r) = "setInviteRejected"
    BY <1>11 DEF setInviteRejected, At
  <2>2. QED
    BY <1>11, <2>1 DEF At, RunsStatement
<1>12. CASE insertContact(r)
  <2>1. Current(r) = "insertContact"
    BY <1>12 DEF insertContact, At
  <2>2. QED
    BY <1>12, <2>1 DEF At, RunsStatement
<1>13. CASE insertReverseContact(r)
  <2>1. Current(r) = "insertReverseContact"
    BY <1>13 DEF insertReverseContact, At
  <2>2. QED
    BY <1>13, <2>1 DEF At, RunsStatement
<1>14. CASE insertBlock(r)
  <2>1. Current(r) = "insertBlock"
    BY <1>14 DEF insertBlock, At
  <2>2. QED
    BY <1>14, <2>1 DEF At, RunsStatement
<1>15. CASE findContactPair(r)
  <2>1. Current(r) = "findContactPair"
    BY <1>15 DEF findContactPair, At
  <2>2. QED
    BY <1>15, <2>1 DEF At, RunsStatement
<1>16. CASE removeContactPair(r)
  <2>1. Current(r) = "removeContactPair"
    BY <1>16 DEF removeContactPair, At
  <2>2. QED
    BY <1>16, <2>1 DEF At, RunsStatement
<1>17. CASE removeUserBlock(r)
  <2>1. Current(r) = "removeUserBlock"
    BY <1>17 DEF removeUserBlock, At
  <2>2. QED
    BY <1>17, <2>1 DEF At, RunsStatement
<1>18. CASE removeDirectContact(r)
  <2>1. Current(r) = "removeDirectContact"
    BY <1>18 DEF removeDirectContact, At
  <2>2. QED
    BY <1>18, <2>1 DEF At, RunsStatement
<1>19. CASE getReverseContact(r)
  <2>1. Current(r) = "getReverseContact"
    BY <1>19 DEF getReverseContact, At
  <2>2. QED
    BY <1>19, <2>1 DEF At, RunsStatement
<1>20. CASE removeReverseContact(r)
  <2>1. Current(r) = "removeReverseContact"
    BY <1>20 DEF removeReverseContact, At
  <2>2. QED
    BY <1>20, <2>1 DEF At, RunsStatement
<1>21. CASE commit(r)
  <2>1. Current(r) = "commit"
    BY <1>21 DEF commit, At
  <2>2. QED
    BY <1>21, <2>1 DEF At, RunsStatement
<1>22. QED
  BY <1>1, <1>2, <1>3, <1>4, <1>5, <1>6, <1>7, <1>8, <1>9, <1>10, <1>11, <1>12, <1>13, <1>14,
     <1>15, <1>16, <1>17, <1>18, <1>19, <1>20, <1>21 DEF Run, Validators, Writes

-------------------------------------------------------------------------------
(* Requests go on as Checked and Written say.                                *)

Continues(r) == Goes(r) /\ Checked(req[r])' /\ Written(req[r])'

LEMMA Scripted ==
    ASSUME IInv, NEW r \in Request
    PROVE  req[r].pc \in 1..Len(Script[req[r].op])
BY DEF IInv, RequestsOK, RequestOK

\* What r's next statement can rely on.
LEMMA Situation ==
    ASSUME NEW r \in Request, SerialInv(r), Alone(r), Run(r)
    PROVE  /\ IInv /\ RunsStatement(r) /\ Visible(r) = draft
           /\ req[r].pc \in 1..Len(Script[req[r].op])
           /\ req[r].a \in User /\ req[r].b \in User
           /\ Checked(req[r]) /\ Written(req[r])
<1>1. IInv /\ RunsStatement(r) /\ Visible(r) = draft
  BY RunIs, SeesDraft DEF SerialInv
<1>2. req[r].pc \in 1..Len(Script[req[r].op])
  BY <1>1, Scripted
<1>3. req[r].op # "none"
  BY <1>1, <1>2 DEF RunsStatement, At, Current, Script
<1>4. QED
  BY <1>1, <1>2, <1>3, AboutUsers DEF SerialInv

\* A validator that passes leaves the tables as they are.
LEMMA ValidatorPasses ==
    ASSUME NEW r \in Request, IInv, NEW ok, Validate(r, ok), ~Throw(r)
    PROVE  /\ ok /\ Goes(r) /\ draft' = draft
           /\ OnlyDiffer({}) => OnlyDiffer({})'
BY ValidateGoes DEF OnlyDiffer, Goes

LEMMA ScriptLengths ==
    /\ Len(Script["createInvite"]) = 7 /\ Len(Script["acceptInvite"]) = 8
    /\ Len(Script["rejectInvite"]) = 6 /\ Len(Script["rejectInviteAndBlockUser"]) = 9
    /\ Len(Script["blockUser"]) = 5 /\ Len(Script["unblockUser"]) = 3
    /\ Len(Script["deleteContact"]) = 4
BY DEF Script

LEMMA Looks ==
    ASSUME NEW r, Visible(r) = draft, NEW p, NEW q
    PROVE  /\ isInviteExists(r, p, q) <=> Waits(draft, p, q)
           /\ isContactExists(r, p, q) <=> Friend(draft, p, q)
           /\ isUserBlockExists(r, p, q) <=> Bars(draft, p, q)
BY DEF isInviteExists, isContactExists, isUserBlockExists, Waits, Friend, Bars

LEMMA CreateInviteContinues ==
    ASSUME NEW r \in Request, SerialInv(r), Alone(r), Run(r), ~Throw(r), ~commit(r),
           req[r].op = "createInvite"
    PROVE  Continues(r)
<1> DEFINE q == req[r]
<1>1. /\ IInv /\ RunsStatement(r) /\ Visible(r) = draft
      /\ q.a \in User /\ q.b \in User
      /\ Invitable(q) /\ Inviting(q)
  BY Situation DEF Checked, Written
<1>2. q.pc \in 1..7
  BY Situation, ScriptLengths
<1>3. ASSUME Goes(r), Invitable(q)', Inviting(q)'
      PROVE  Continues(r)
  BY <1>3 DEF Continues, Goes, Checked, Written, Answering
<1>4. CASE q.pc <= 5
  <2>1. draft = db /\ OnlyDiffer({})
    BY <1>1, <1>2, <1>4, NothingWritten DEF Inviting
  <2>2. ASSUME NEW ok, Validate(r, ok), ok /\ Goes(r) => Invitable(q)'
        PROVE  Continues(r)
    <3>1. ok /\ Goes(r) /\ OnlyDiffer({})'
      BY <1>1, <2>1, <2>2, ValidatorPasses
    <3>2. Inviting(q)'
      BY <1>2, <1>4, <3>1 DEF Inviting, Goes
    <3>3. QED
      BY <1>3, <2>2, <3>1, <3>2
  <2>3. CASE q.pc = 1
    <3>1. validateInviteNotExists(r)
      BY <1>1, <2>3 DEF RunsStatement, At, Current, Script
    <3>2. Validate(r, ~Waits(db, q.a, q.b))
      BY <1>1, <2>1, <3>1, Looks DEF validateInviteNotExists
    <3>3. ~Waits(db, q.a, q.b) /\ Goes(r) => Invitable(q)'
      BY <1>1, <2>3 DEF Invitable, CleanPair, Goes
    <3>4. QED
      BY <2>2, <3>2, <3>3
  <2>4. CASE q.pc = 2
    <3>1. validateReverseInviteNotExists(r)
      BY <1>1, <2>4 DEF RunsStatement, At, Current, Script
    <3>2. Validate(r, ~Waits(db, q.b, q.a))
      BY <1>1, <2>1, <3>1, Looks DEF validateReverseInviteNotExists
    <3>3. ~Waits(db, q.b, q.a) /\ Goes(r) => Invitable(q)'
      BY <1>1, <2>4 DEF Invitable, CleanPair, Goes
    <3>4. QED
      BY <2>2, <3>2, <3>3
  <2>5. CASE q.pc = 3
    <3>1. validateContactNotExists(r)
      BY <1>1, <2>5 DEF RunsStatement, At, Current, Script
    <3>2. Validate(r, ~Friend(db, q.a, q.b))
      BY <1>1, <2>1, <3>1, Looks DEF validateContactNotExists
    <3>3. ~Friend(db, q.a, q.b) /\ Goes(r) => Invitable(q)'
      BY <1>1, <2>5 DEF Invitable, CleanPair, Goes
    <3>4. QED
      BY <2>2, <3>2, <3>3
  <2>6. CASE q.pc = 4
    <3>1. validateInviterIsNotBlocked(r)
      BY <1>1, <2>6 DEF RunsStatement, At, Current, Script
    <3>2. Validate(r, ~Bars(db, q.a, q.b))
      BY <1>1, <2>1, <3>1, Looks DEF validateInviterIsNotBlocked
    <3>3. ~Bars(db, q.a, q.b) /\ Goes(r) => Invitable(q)'
      BY <1>1, <2>6 DEF Invitable, CleanPair, Goes
    <3>4. QED
      BY <2>2, <3>2, <3>3
  <2>7. CASE q.pc = 5
    <3>1. validateInviteeIsNotBlocked(r)
      BY <1>1, <2>7 DEF RunsStatement, At, Current, Script
    <3>2. Validate(r, ~Bars(db, q.b, q.a))
      BY <1>1, <2>1, <3>1, Looks DEF validateInviteeIsNotBlocked
    <3>3. ~Bars(db, q.b, q.a) /\ Goes(r) => Invitable(q)'
      BY <1>1, <2>7 DEF Invitable, CleanPair, Goes
    <3>4. QED
      BY <2>2, <3>2, <3>3
  <2>8. QED
    BY <1>2, <1>4, <2>3, <2>4, <2>5, <2>6, <2>7
<1>5. CASE q.pc = 6
  <2>1. insertInvite(r)
    BY <1>1, <1>5 DEF RunsStatement, At, Current, Script
  <2>2. Goes(r) /\ \E i \in InviteId : db[i] = Absent /\ Changed({i}, [l \in {i} |-> InviteFor(q)])
    BY <1>1, <2>1, InsertGoes DEF insertInvite, InviteFor
  <2>3. Inviting(q)'
    BY <1>1, <1>2, <1>5, <2>2 DEF Inviting, OnlyDiffer, New, InviteFor, Changed, Goes
  <2>4. Invitable(q)'
    BY <1>1, <1>5, <2>2 DEF Invitable, CleanPair, Goes
  <2>5. QED
    BY <1>3, <2>2, <2>3, <2>4
<1>6. CASE q.pc = 7
  BY <1>1, <1>6 DEF RunsStatement, At, Current, Script
<1>7. QED
  BY <1>2, <1>4, <1>5, <1>6

LEMMA AnswerContinues ==
    ASSUME NEW r \in Request, SerialInv(r), Alone(r), Run(r), ~Throw(r), ~commit(r),
           req[r].op \in Answering, req[r].pc <= 4
    PROVE  Continues(r)
<1> DEFINE q == req[r]
           wrote == (q.op = "acceptInvite" => Accepting(q)) /\ (q.op # "acceptInvite" => Rejecting(q))
<1>1. /\ IInv /\ RunsStatement(r) /\ Visible(r) = draft
      /\ q.a \in User /\ q.b \in User
      /\ Answerable(q) /\ wrote
  BY Situation DEF Checked, Written, Answering
<1>2. q.pc \in 1..9 /\ q.pc <= 4
  BY Situation, ScriptLengths DEF Answering
<1>3. draft = db /\ OnlyDiffer({})
  BY <1>1, <1>2, NothingWritten DEF Accepting, Rejecting
<1>4. ASSUME NEW ok, Validate(r, ok), ok /\ Goes(r) => Answerable(q)'
      PROVE  Continues(r)
  <2>1. ok /\ Goes(r) /\ OnlyDiffer({})'
    BY <1>1, <1>3, <1>4, ValidatorPasses
  <2>2. Accepting(q)' /\ Rejecting(q)'
    BY <1>2, <2>1 DEF Accepting, Rejecting, Goes
  <2>3. Checked(q)' /\ Written(q)'
    BY <1>4, <2>1, <2>2 DEF Checked, Written, Goes, Answering
  <2>4. QED
    BY <2>1, <2>3 DEF Continues
<1>5. CASE q.pc = 1
  <2>1. validateInviteIsPending(r)
    BY <1>1, <1>5 DEF RunsStatement, At, Current, Script, Answering
  <2>2. Validate(r, db[q.row].status = "PENDING")
    BY <1>1, <1>3, <2>1 DEF validateInviteIsPending
  <2>3. db[q.row].status = "PENDING" /\ Goes(r) => Answerable(q)'
    BY <1>1, <1>5 DEF Answerable, CleanPair, Goes
  <2>4. QED
    BY <1>4, <2>2, <2>3
<1>6. CASE q.pc = 2
  <2>1. validateContactNotExists(r)
    BY <1>1, <1>6 DEF RunsStatement, At, Current, Script, Answering
  <2>2. Validate(r, ~Friend(db, q.a, q.b))
    BY <1>1, <1>3, <2>1, Looks DEF validateContactNotExists
  <2>3. ~Friend(db, q.a, q.b) /\ Goes(r) => Answerable(q)'
    BY <1>1, <1>6 DEF Answerable, CleanPair, Goes
  <2>4. QED
    BY <1>4, <2>2, <2>3
<1>7. CASE q.pc = 3
  <2>1. validateInviterIsNotBlocked(r)
    BY <1>1, <1>7 DEF RunsStatement, At, Current, Script, Answering
  <2>2. Validate(r, ~Bars(db, q.a, q.b))
    BY <1>1, <1>3, <2>1, Looks DEF validateInviterIsNotBlocked
  <2>3. ~Bars(db, q.a, q.b) /\ Goes(r) => Answerable(q)'
    BY <1>1, <1>7 DEF Answerable, CleanPair, Goes
  <2>4. QED
    BY <1>4, <2>2, <2>3
<1>8. CASE q.pc = 4
  <2>1. validateInviteeIsNotBlocked(r)
    BY <1>1, <1>8 DEF RunsStatement, At, Current, Script, Answering
  <2>2. Validate(r, ~Bars(db, q.b, q.a))
    BY <1>1, <1>3, <2>1, Looks DEF validateInviteeIsNotBlocked
  <2>3. ~Bars(db, q.b, q.a) /\ Goes(r) => Answerable(q)'
    BY <1>1, <1>8 DEF Answerable, CleanPair, Goes
  <2>4. QED
    BY <1>4, <2>2, <2>3
<1>9. QED
  BY <1>2, <1>5, <1>6, <1>7, <1>8

\* Past the validators, what they found stays.
LEMMA AnswerableLasts ==
    ASSUME NEW r \in Request, IInv, Answerable(req[r]), Goes(r), req[r].pc > 4
    PROVE  Answerable(req[r])'
BY DEF Answerable, CleanPair, Goes, IInv, TypeOK, RequestState

LEMMA AcceptContinues ==
    ASSUME NEW r \in Request, SerialInv(r), Alone(r), Run(r), ~Throw(r), ~commit(r),
           req[r].op = "acceptInvite"
    PROVE  Continues(r)
<1> DEFINE q == req[r]
<1>1. /\ IInv /\ RunsStatement(r) /\ Visible(r) = draft
      /\ q.a \in User /\ q.b \in User
      /\ Answerable(q) /\ Accepting(q)
      /\ q.row \in InviteId /\ db[q.row] # Absent /\ q.row \in Key
  BY Situation, AboutUsers, KeysAreIds DEF Checked, Written, Answering
<1>2. q.pc \in 1..8
  BY Situation, ScriptLengths
<1>3. ASSUME Goes(r), q.pc > 4, Accepting(q)'
      PROVE  Continues(r)
  BY <1>1, <1>3, AnswerableLasts DEF Continues, Goes, Checked, Written, Answering
<1>4. CASE q.pc <= 4
  BY <1>4, AnswerContinues DEF Answering
<1>5. CASE q.pc = 5
  <2>1. setInviteAccepted(r)
    BY <1>1, <1>5 DEF RunsStatement, At, Current, Script
  <2>2. draft = db
    BY <1>1, <1>5, NothingWritten DEF Accepting
  <2>3. Goes(r) /\ Changed({q.row}, [k \in {q.row} |-> Accepted(draft[k])])
    BY <1>1, <2>1, PutGoes DEF setInviteAccepted, Update
  <2>4. Accepting(q)'
    BY <1>1, <1>2, <1>5, <2>2, <2>3 DEF Accepting, OnlyDiffer, Changed, Goes
  <2>5. QED
    BY <1>3, <1>5, <2>3, <2>4
<1>6. CASE q.pc = 6
  <2>1. insertContact(r)
    BY <1>1, <1>6 DEF RunsStatement, At, Current, Script
  <2>2. PICK c \in ContactId :
            Goes(r) /\ db[c] = Absent /\ Changed({c}, [l \in {c} |-> ContactFor(q, q.a, q.b)])
    BY <1>1, <2>1, InsertGoes DEF insertContact, createContact, ContactFor
  <2>3. (/\ q.pc = 7
         /\ draft[q.row] = Accepted(db[q.row])
         /\ New(c, ContactFor(q, q.a, q.b))
         /\ OnlyDiffer({q.row, c}))'
    BY <1>1, <1>6, <2>2, KeysAreIds DEF Accepting, OnlyDiffer, New, Changed, Goes, ContactFor
  <2>4. Accepting(q)'
    BY <2>2, <2>3 DEF Accepting
  <2>5. QED
    BY <1>3, <1>6, <2>2, <2>4
<1>7. CASE q.pc = 7
  <2>1. insertReverseContact(r)
    BY <1>1, <1>7 DEF RunsStatement, At, Current, Script
  <2>2. /\ ~Friend(draft, q.b, q.a)
        /\ Goes(r)
        /\ \E d \in ContactId : /\ draft[d] = Absent /\ db[d] = Absent
                                /\ Changed({d}, [l \in {d} |-> ContactFor(q, q.b, q.a)])
    BY <1>1, <2>1, InsertGoes, Looks DEF insertReverseContact, createContact, ContactFor
  <2>3. PICK d \in ContactId : /\ draft[d] = Absent /\ db[d] = Absent
                               /\ Changed({d}, [l \in {d} |-> ContactFor(q, q.b, q.a)])
    BY <2>2
  <2>4. PICK c \in ContactId : New(c, ContactFor(q, q.a, q.b)) /\ OnlyDiffer({q.row, c})
    BY <1>1, <1>7 DEF Accepting
  <2>5. ContactFor(q, q.a, q.b) # Absent
    BY <1>1, AbsentIsNoRow, AdminsAreUsers DEF ContactFor, ContactRow
  <2>6. ActiveContact(draft[c], q.a, q.b) /\ d # c
    BY <2>3, <2>4, <2>5 DEF New, ActiveContact, ContactFor
  <2>7. q.a # q.b
    BY <2>2, <2>6 DEF Friend
  <2>8. draft[q.row] = Accepted(db[q.row])
    BY <1>1, <1>7 DEF Accepting
  <2>9. d \in Key /\ c \in Key /\ d # q.row
    BY <1>1, KeysAreIds
  <2>10. (/\ q.pc = 8 /\ q.a # q.b
          /\ draft[q.row] = Accepted(db[q.row])
          /\ New(c, ContactFor(q, q.a, q.b))
          /\ New(d, ContactFor(q, q.b, q.a))
          /\ OnlyDiffer({q.row, c, d}))'
    BY <1>1, <1>7, <2>2, <2>3, <2>4, <2>6, <2>7, <2>8, <2>9 DEF OnlyDiffer, New, Changed, Goes, ContactFor
  <2>11. Accepting(q)'
    BY <2>6, <2>10 DEF Accepting
  <2>12. QED
    BY <1>3, <1>7, <2>2, <2>11
<1>8. CASE q.pc = 8
  BY <1>1, <1>8 DEF RunsStatement, At, Current, Script
<1>9. QED
  BY <1>2, <1>4, <1>5, <1>6, <1>7, <1>8

\* Contacts are not touched by an answer that rejects.
LEMMA RejectContinues ==
    ASSUME NEW r \in Request, SerialInv(r), Alone(r), Run(r), ~Throw(r), ~commit(r),
           req[r].op \in {"rejectInvite", "rejectInviteAndBlockUser"}
    PROVE  Continues(r)
<1> DEFINE q == req[r]
<1>1. /\ IInv /\ RunsStatement(r) /\ Visible(r) = draft
      /\ q.a \in User /\ q.b \in User
      /\ Answerable(q) /\ Rejecting(q)
      /\ q.row \in InviteId /\ db[q.row] # Absent /\ q.row \in Key
  BY Situation, AboutUsers, KeysAreIds DEF Checked, Written, Answering
<1>2. q.pc \in 1..9
  <2>1. CASE req[r].op = "rejectInvite"
    <3>1. req[r].pc \in 1..Len(Script[req[r].op]) /\ Len(Script[req[r].op]) = 6
      BY <2>1, Situation, ScriptLengths
    <3>2. QED
      BY <3>1
  <2>2. CASE req[r].op = "rejectInviteAndBlockUser"
    BY <2>2, Situation, ScriptLengths
  <2>3. QED
    BY <2>1, <2>2
<1>3. ASSUME Goes(r), q.pc > 4, Rejecting(q)'
      PROVE  Continues(r)
  BY <1>1, <1>3, AnswerableLasts DEF Continues, Goes, Checked, Written, Answering
<1>4. CASE q.pc <= 4
  BY <1>4, AnswerContinues DEF Answering
<1>5. CASE q.pc = 5
  <2>1. setInviteRejected(r)
    BY <1>1, <1>5 DEF RunsStatement, At, Current, Script
  <2>2. draft = db
    BY <1>1, <1>5, NothingWritten DEF Rejecting
  <2>3. Goes(r) /\ Changed({q.row}, [k \in {q.row} |-> Rejected(draft[k])])
    BY <1>1, <2>1, PutGoes DEF setInviteRejected, Update
  <2>4. Rejecting(q)'
    BY <1>1, <1>2, <1>5, <2>2, <2>3 DEF Rejecting, OnlyDiffer, Changed, Goes
  <2>5. QED
    BY <1>3, <1>5, <2>3, <2>4
<1>6. CASE q.pc = 6
  <2>1. q.op = "rejectInviteAndBlockUser"
    BY <1>1, <1>6 DEF RunsStatement, At, Current, Script
  <2>2. insertBlock(r)
    BY <1>1, <1>6, <2>1 DEF RunsStatement, At, Current, Script
  <2>3. PICK k \in BlockId :
            Goes(r) /\ db[k] = Absent /\ Changed({k}, [l \in {k} |-> BlockFor(q)])
    BY <1>1, <2>2, InsertGoes DEF insertBlock, BlockFor
  <2>4. (/\ q.pc = 7
         /\ q.op = "rejectInviteAndBlockUser"
         /\ draft[q.row] = Rejected(db[q.row])
         /\ New(k, BlockFor(q))
         /\ OnlyDiffer({q.row, k}))'
    BY <1>1, <1>6, <2>1, <2>3, KeysAreIds DEF Rejecting, OnlyDiffer, New, Changed, Goes, BlockFor
  <2>5. Rejecting(q)'
    BY <2>4 DEF Rejecting
  <2>6. QED
    BY <1>3, <1>6, <2>3, <2>5
<1>7. CASE q.pc \in {7, 8}
  <2>1. q.op = "rejectInviteAndBlockUser"
    BY <1>1, <1>7 DEF Rejecting
  <2>2. PICK k \in BlockId : New(k, BlockFor(q)) /\ OnlyDiffer({q.row, k})
    BY <1>1, <1>7 DEF Rejecting
  <2>3. Goes(r) /\ draft' = draft /\ (q.pc = 8 => q.found = {})'
    <3>1. CASE q.pc = 7
      <4>1. findContactPair(r)
        BY <1>1, <2>1, <3>1 DEF RunsStatement, At, Current, Script
      <4>2. \A c \in ContactId : draft[c] = db[c]
        BY <1>1, <2>2, KeysAreIds DEF OnlyDiffer
      <4>3. ~Friend(db, q.a, q.b) /\ ~Friend(db, q.b, q.a)
        BY <1>1, <3>1 DEF Answerable, CleanPair, SerialInv, GoodGraph, Symmetric
      <4>4. Between(draft, q.a, q.b) = {}
        BY <4>2, <4>3 DEF Between, Friend
      <4>5. QED
        BY <1>1, <3>1, <4>1, <4>4, FindGoes DEF findContactPair, Between, Goes
    <3>2. CASE q.pc = 8
      <4>1. removeContactPair(r)
        BY <1>1, <2>1, <3>2 DEF RunsStatement, At, Current, Script
      <4>2. q.found = {}
        BY <1>1, <3>2 DEF Rejecting
      <4>3. PICK rows : DOMAIN rows = {} /\ Put(r, rows) /\ Advance(r)
        BY <4>1, <4>2 DEF removeContactPair, Update
      <4>4. Goes(r) /\ \A l \in Key : draft'[l] = draft[l]
        BY <1>1, <4>3, PutGoes DEF Changed
      <4>5. draft' = draft
        BY <1>1, <4>3, <4>4 DEF Put, IInv, TypeOK, Versioned
      <4>6. QED
        BY <3>2, <4>4, <4>5 DEF Goes
    <3>3. QED
      BY <1>7, <3>1, <3>2
  <2>4. (/\ q.pc > 5 /\ q.pc > 6
         /\ q.op = "rejectInviteAndBlockUser"
         /\ draft[q.row] = Rejected(db[q.row])
         /\ New(k, BlockFor(q))
         /\ OnlyDiffer({q.row, k}))'
    BY <1>1, <1>7, <2>1, <2>2, <2>3 DEF Rejecting, OnlyDiffer, New, Goes, BlockFor
  <2>5. Rejecting(q)'
    BY <2>3, <2>4 DEF Rejecting
  <2>6. QED
    BY <1>3, <1>7, <2>3, <2>5
<1>8. CASE q.pc = 9
  BY <1>1, <1>8 DEF RunsStatement, At, Current, Script, Rejecting
<1>9. QED
  BY <1>2, <1>4, <1>5, <1>6, <1>7, <1>8

LEMMA BlockUserContinues ==
    ASSUME NEW r \in Request, SerialInv(r), Alone(r), Run(r), ~Throw(r), ~commit(r),
           req[r].op = "blockUser"
    PROVE  Continues(r)
<1> DEFINE q == req[r]
<1>1. /\ IInv /\ RunsStatement(r) /\ Visible(r) = draft
      /\ q.a \in User /\ q.b \in User
      /\ q.a # q.b /\ (q.pc > 1 => ~Bars(db, q.a, q.b))
      /\ BlockingUser(q)
  BY Situation DEF Checked, Written
<1>2. q.pc \in 1..5
  BY Situation, ScriptLengths
<1>3. ASSUME Goes(r), ~Bars(db, q.a, q.b), BlockingUser(q)'
      PROVE  Continues(r)
  BY <1>1, <1>3 DEF Continues, Goes, Checked, Written, Answering
<1>4. CASE q.pc = 1
  <2>1. validateNoUserBlockExists(r)
    BY <1>1, <1>4 DEF RunsStatement, At, Current, Script
  <2>2. draft = db /\ OnlyDiffer({})
    BY <1>1, <1>4, NothingWritten DEF BlockingUser
  <2>3. Validate(r, ~Bars(db, q.a, q.b))
    BY <1>1, <2>1, <2>2, Looks DEF validateNoUserBlockExists
  <2>4. ~Bars(db, q.a, q.b) /\ Goes(r) /\ OnlyDiffer({})'
    BY <1>1, <2>2, <2>3, ValidatorPasses
  <2>5. BlockingUser(q)'
    BY <1>4, <2>4 DEF BlockingUser, Goes
  <2>6. QED
    BY <1>3, <2>4, <2>5
<1>5. CASE q.pc = 2
  <2>1. insertBlock(r)
    BY <1>1, <1>5 DEF RunsStatement, At, Current, Script
  <2>2. PICK k \in BlockId :
            Goes(r) /\ db[k] = Absent /\ Changed({k}, [l \in {k} |-> BlockFor(q)])
    BY <1>1, <2>1, InsertGoes DEF insertBlock, BlockFor
  <2>3. OnlyDiffer({})
    BY <1>1, <1>5 DEF BlockingUser
  <2>4. (/\ q.pc > 2 /\ q.pc <= 4 /\ q.pc # 4
         /\ New(k, BlockFor(q))
         /\ OnlyDiffer({k}))'
    BY <1>1, <1>5, <2>2, <2>3, KeysAreIds DEF OnlyDiffer, New, Changed, Goes, BlockFor
  <2>5. BlockingUser(q)'
    BY <2>4 DEF BlockingUser
  <2>6. QED
    BY <1>1, <1>3, <1>5, <2>2, <2>5
<1>6. CASE q.pc = 3
  <2>1. findContactPair(r)
    BY <1>1, <1>6 DEF RunsStatement, At, Current, Script
  <2>2. PICK k \in BlockId : New(k, BlockFor(q)) /\ OnlyDiffer({k})
    BY <1>1, <1>6 DEF BlockingUser
  <2>3. Between(draft, q.a, q.b) = Between(db, q.a, q.b)
    BY <2>2, KeysAreIds DEF Between, OnlyDiffer
  <2>4. Goes(r) /\ draft' = draft /\ req'[r].found = Between(db, q.a, q.b)
    BY <1>1, <2>1, <2>3, FindGoes DEF findContactPair, Between
  <2>5. (/\ q.pc > 2 /\ q.pc <= 4
         /\ New(k, BlockFor(q))
         /\ OnlyDiffer({k})
         /\ q.found = Between(db, q.a, q.b))'
    BY <1>1, <1>6, <2>2, <2>4 DEF OnlyDiffer, New, Goes, BlockFor
  <2>6. BlockingUser(q)'
    BY <2>5 DEF BlockingUser
  <2>7. QED
    BY <1>1, <1>3, <1>6, <2>4, <2>6
<1>7. CASE q.pc = 4
  <2> DEFINE K == Between(db, q.a, q.b)
  <2>1. removeContactPair(r)
    BY <1>1, <1>7 DEF RunsStatement, At, Current, Script
  <2>2. PICK k \in BlockId : New(k, BlockFor(q)) /\ OnlyDiffer({k})
    BY <1>1, <1>7 DEF BlockingUser
  <2>3. q.found = K
    BY <1>1, <1>7 DEF BlockingUser
  <2>4. \A c \in ContactId : draft[c] = db[c]
    BY <2>2, KeysAreIds DEF OnlyDiffer
  <2>5. K \subseteq ContactId /\ \A c \in K : db[c].removedBy = NoUser
    BY DEF Between, ActiveContact
  <2>6. {c \in q.found : Visible(r)[c].removedBy = NoUser} = K
    BY <1>1, <2>3, <2>4, <2>5
  <2> HIDE DEF K
  <2>7. Put(r, [c \in K |-> RemovedBy(q.caller, draft[c])]) /\ Advance(r)
    BY <1>1, <2>1, <2>6 DEF removeContactPair, Update
  <2>8. K \subseteq Key
    BY <2>5, KeysAreIds
  <2>9. Goes(r) /\ Changed(K, [c \in K |-> RemovedBy(q.caller, draft[c])])
    BY <1>1, <2>7, <2>8, PutGoes
  <2>10. k \in Key /\ k \notin K
    BY <2>5, KeysAreIds
  <2>11. /\ \A c \in K : draft'[c] = RemovedBy(q.caller, db[c])
         /\ draft'[k] = draft[k]
         /\ \A l \in Key \ ({k} \cup K) : draft'[l] = db[l]
    BY <2>2, <2>4, <2>5, <2>9, <2>10 DEF Changed, OnlyDiffer
  <2>12. K' = K
    BY <2>9 DEF K, Goes, Between
  <2>13. (/\ q.pc > 2 /\ q.pc = 5
          /\ New(k, BlockFor(q))
          /\ Removed(q, K)
          /\ OnlyDiffer({k} \cup K))'
    BY <1>7, <2>2, <2>9, <2>11, <2>12 DEF Removed, OnlyDiffer, New, Goes, BlockFor
  <2>14. BlockingUser(q)'
    BY <2>13 DEF BlockingUser, K
  <2>15. QED
    BY <1>1, <1>3, <1>7, <2>9, <2>14
<1>8. CASE q.pc = 5
  BY <1>1, <1>8 DEF RunsStatement, At, Current, Script
<1>9. QED
  BY <1>2, <1>4, <1>5, <1>6, <1>7, <1>8

LEMMA UnblockUserContinues ==
    ASSUME NEW r \in Request, SerialInv(r), Alone(r), Run(r), ~Throw(r), ~commit(r),
           req[r].op = "unblockUser"
    PROVE  Continues(r)
<1> DEFINE q == req[r]
           K == Blocking(db, q.a, q.b)
<1>1. /\ IInv /\ RunsStatement(r) /\ Visible(r) = draft
      /\ q.a \in User /\ q.b \in User /\ q.a # q.b
      /\ Unblocking(q)
  BY Situation DEF Checked, Written
<1>2. q.pc \in 1..3
  BY Situation, ScriptLengths
<1>3. ASSUME Goes(r), Unblocking(q)'
      PROVE  Continues(r)
  BY <1>1, <1>3 DEF Continues, Goes, Checked, Written, Answering
<1>4. CASE q.pc = 1
  <2>1. validateUserBlockExists(r)
    BY <1>1, <1>4 DEF RunsStatement, At, Current, Script
  <2>2. OnlyDiffer({})
    BY <1>1, <1>4 DEF Unblocking
  <2>3. Goes(r) /\ OnlyDiffer({})'
    BY <1>1, <2>1, <2>2, ValidatorPasses DEF validateUserBlockExists
  <2>4. Unblocking(q)'
    BY <1>4, <2>3 DEF Unblocking, Goes
  <2>5. QED
    BY <1>3, <2>3, <2>4
<1>5. CASE q.pc = 2
  <2>1. removeUserBlock(r)
    BY <1>1, <1>5 DEF RunsStatement, At, Current, Script
  <2>2. OnlyDiffer({}) /\ draft = db
    BY <1>1, <1>5, NothingWritten DEF Unblocking
  <2>3. Needs(r) = K
    BY <1>1, <2>1, <2>2 DEF Needs, removeUserBlock, At, Blocking
  <2> HIDE DEF K
  <2>4. K # {} /\ Put(r, [k \in K |-> RemovedBy(q.caller, draft[k])]) /\ Advance(r)
    BY <1>1, <2>1, <2>3 DEF removeUserBlock, Update
  <2>5. K \subseteq Key
    BY KeysAreIds DEF K, Blocking
  <2>6. Goes(r) /\ Changed(K, [k \in K |-> RemovedBy(q.caller, draft[k])])
    BY <1>1, <2>4, <2>5, PutGoes
  <2>7. K' = K
    BY <2>6 DEF K, Goes, Blocking
  <2>8. (/\ q.pc = 3 /\ K # {}
         /\ Removed(q, K)
         /\ OnlyDiffer(K))'
    BY <1>5, <2>2, <2>4, <2>5, <2>6, <2>7 DEF Removed, OnlyDiffer, Changed, Goes
  <2>9. Unblocking(q)'
    BY <2>8 DEF Unblocking, K
  <2>10. QED
    BY <1>3, <2>6, <2>9
<1>6. CASE q.pc = 3
  BY <1>1, <1>6 DEF RunsStatement, At, Current, Script
<1>7. QED
  BY <1>2, <1>4, <1>5, <1>6

LEMMA DeleteContactContinues ==
    ASSUME NEW r \in Request, SerialInv(r), Alone(r), Run(r), ~Throw(r), ~commit(r),
           req[r].op = "deleteContact"
    PROVE  Continues(r)
<1> DEFINE q == req[r]
           K == {c \in ContactId : ActiveContact(db[c], q.b, q.a)}
<1>1. /\ IInv /\ RunsStatement(r) /\ Visible(r) = draft
      /\ q.a \in User /\ q.b \in User /\ db[q.row].removedBy = NoUser
      /\ q.row \in ContactId /\ q.row \in Key /\ q.caller \in User
      /\ db[q.row] # Absent /\ db[q.row].source = q.a /\ db[q.row].target = q.b
      /\ Deleting(q)
  BY Situation, AboutUsers, KeysAreIds DEF Checked, Written
<1>2. q.pc \in 1..4
  BY Situation, ScriptLengths
<1>3. ASSUME Goes(r), Deleting(q)'
      PROVE  Continues(r)
  BY <1>1, <1>3 DEF Continues, Goes, Checked, Written, Answering
<1>4. q.row \notin K
  BY <1>1 DEF IInv, NoSelfContact, ActiveContact
<1>5. K \subseteq ContactId /\ K \subseteq Key
  BY KeysAreIds
<1>6. CASE q.pc = 1
  <2>1. removeDirectContact(r)
    BY <1>1, <1>6 DEF RunsStatement, At, Current, Script
  <2>2. draft = db
    BY <1>1, <1>6, NothingWritten DEF Deleting
  <2>3. Goes(r) /\ Changed({q.row}, [k \in {q.row} |-> RemovedBy(q.caller, draft[k])])
    BY <1>1, <2>1, PutGoes DEF removeDirectContact, Update
  <2>4. (/\ q.pc = 2 /\ q.pc > 1 /\ q.pc <= 3 /\ q.pc # 3
         /\ Removed(q, {q.row})
         /\ OnlyDiffer({q.row}))'
    BY <1>1, <1>6, <2>2, <2>3 DEF Removed, OnlyDiffer, Changed, Goes
  <2>5. Deleting(q)'
    BY <2>4 DEF Deleting
  <2>6. QED
    BY <1>3, <2>3, <2>5
<1>7. CASE q.pc = 2
  <2>1. getReverseContact(r)
    BY <1>1, <1>7 DEF RunsStatement, At, Current, Script
  <2>2. Removed(q, {q.row}) /\ OnlyDiffer({q.row})
    BY <1>1, <1>7 DEF Deleting
  <2>3. \A c \in ContactId \ {q.row} : draft[c] = db[c]
    BY <2>2, KeysAreIds DEF OnlyDiffer
  <2>4. ~ActiveContact(draft[q.row], q.b, q.a)
    <3>1. db[q.row] \in ContactRow
      BY <1>1, KeysAreIds DEF IInv, TypeOK, Versioned, RowOf
    <3>2. draft[q.row].removedBy = q.caller
      BY <2>2, <3>1 DEF Removed, RemovedBy, ContactRow
    <3>3. QED
      BY <1>1, <3>2, AdminsAreUsers DEF ActiveContact
  <2>5. {c \in ContactId : ActiveContact(draft[c], q.b, q.a)} = K
    BY <1>4, <2>3, <2>4
  <2>6. Goes(r) /\ draft' = draft /\ req'[r].found = K
    BY <1>1, <2>1, <2>5, FindGoes DEF getReverseContact
  <2>7. K' = K
    BY <2>6 DEF Goes
  <2>8. (/\ q.pc > 1 /\ q.pc <= 3
         /\ Removed(q, {q.row})
         /\ OnlyDiffer({q.row})
         /\ q.found = K)'
    BY <1>7, <2>2, <2>6, <2>7 DEF Removed, OnlyDiffer, Goes
  <2>9. Deleting(q)'
    BY <2>8 DEF Deleting
  <2>10. QED
    BY <1>3, <2>6, <2>9
<1>8. CASE q.pc = 3
  <2>1. removeReverseContact(r)
    BY <1>1, <1>8 DEF RunsStatement, At, Current, Script
  <2>2. Removed(q, {q.row}) /\ OnlyDiffer({q.row}) /\ q.found = K
    BY <1>1, <1>8 DEF Deleting
  <2> HIDE DEF K
  <2>3. Put(r, [c \in K |-> RemovedBy(q.caller, draft[c])]) /\ Advance(r)
    BY <1>1, <2>1, <2>2 DEF removeReverseContact, Update
  <2>4. Goes(r) /\ Changed(K, [c \in K |-> RemovedBy(q.caller, draft[c])])
    BY <1>1, <1>5, <2>3, PutGoes
  <2>5. \A c \in K : draft[c] = db[c]
    BY <1>4, <1>5, <2>2 DEF OnlyDiffer
  <2>6. K' = K
    BY <2>4 DEF K, Goes
  <2>7. (/\ q.pc > 1 /\ q.pc = 4 /\ q.pc # 3
         /\ Removed(q, {q.row})
         /\ Removed(q, K)
         /\ OnlyDiffer({q.row} \cup K))'
    BY <1>1, <1>4, <1>5, <1>8, <2>2, <2>4, <2>5, <2>6 DEF Removed, OnlyDiffer, Changed, Goes
  <2>8. Deleting(q)'
    BY <2>7 DEF Deleting, K
  <2>9. QED
    BY <1>3, <2>4, <2>8
<1>9. CASE q.pc = 4
  BY <1>1, <1>9 DEF RunsStatement, At, Current, Script
<1>10. QED
  BY <1>2, <1>6, <1>7, <1>8, <1>9

-------------------------------------------------------------------------------
(* The sets SocialGraph speaks of.                                           *)

PendingOf(t) ==
    {<<t[i].inviter, t[i].invitee>> :
        i \in {i \in InviteId : t[i] # Absent /\ t[i].status = "PENDING"}}
FriendsOf(t) ==
    {{t[c].source, t[c].target} :
        c \in {c \in ContactId : t[c] # Absent /\ t[c].removedBy = NoUser}}
BlocksOf(t) ==
    {<<t[k].blocked, t[k].blocker>> :
        k \in {k \in BlockId : t[k] # Absent /\ t[k].removedBy = NoUser}}

LEMMA TypedRows ==
    ASSUME NEW t \in Versioned
    PROVE  /\ \A i \in InviteId : t[i] # Absent => t[i] \in InviteRow
           /\ \A c \in ContactId : t[c] # Absent => t[c] \in ContactRow
           /\ \A k \in BlockId : t[k] # Absent => t[k] \in BlockRow
BY KeysAreIds DEF Versioned, RowOf

LEMMA PendingSet ==
    ASSUME NEW t \in Versioned
    PROVE  /\ PendingOf(t) \subseteq User \X User
           /\ \A p, q \in User : <<p, q>> \in PendingOf(t) <=> Waits(t, p, q)
<1>1. PendingOf(t) \subseteq User \X User
  BY TypedRows DEF PendingOf, InviteRow
<1>2. \A p, q \in User : <<p, q>> \in PendingOf(t) <=> Waits(t, p, q)
  BY DEF PendingOf, Waits, PendingInvite
<1>3. QED
  BY <1>1, <1>2

LEMMA BlockSet ==
    ASSUME NEW t \in Versioned
    PROVE  /\ BlocksOf(t) \subseteq User \X User
           /\ \A p, q \in User : <<p, q>> \in BlocksOf(t) <=> Bars(t, p, q)
<1>1. BlocksOf(t) \subseteq User \X User
  BY TypedRows DEF BlocksOf, BlockRow
<1>2. \A p, q \in User : <<p, q>> \in BlocksOf(t) <=> Bars(t, p, q)
  BY DEF BlocksOf, Bars, ActiveBlock
<1>3. QED
  BY <1>1, <1>2

LEMMA FriendSet ==
    ASSUME NEW t \in Versioned, Symmetric(t)
    PROVE  /\ \A x \in FriendsOf(t) : \E p, q \in User : x = {p, q}
           /\ \A p, q \in User : {p, q} \in FriendsOf(t) <=> Friend(t, p, q)
<1>1. \A x \in FriendsOf(t) : \E p, q \in User : x = {p, q}
  BY TypedRows DEF FriendsOf, ContactRow
<1>2. ASSUME NEW p \in User, NEW q \in User, Friend(t, p, q)
      PROVE  {p, q} \in FriendsOf(t)
  BY <1>2 DEF FriendsOf, Friend, ActiveContact
<1>3. ASSUME NEW p \in User, NEW q \in User, {p, q} \in FriendsOf(t)
      PROVE  Friend(t, p, q)
  <2>1. PICK c \in ContactId : /\ t[c] # Absent /\ t[c].removedBy = NoUser
                               /\ {p, q} = {t[c].source, t[c].target}
    BY <1>3 DEF FriendsOf
  <2>2. (t[c].source = p /\ t[c].target = q) \/ (t[c].source = q /\ t[c].target = p)
    BY <2>1
  <2>3. Friend(t, p, q) \/ Friend(t, q, p)
    BY <2>1, <2>2 DEF Friend, ActiveContact
  <2>4. QED
    BY <2>3 DEF Symmetric
<1>4. QED
  BY <1>1, <1>2, <1>3

LEMMA SamePending ==
    ASSUME NEW t \in Versioned, NEW u \in Versioned, NEW S \in SUBSET (User \X User),
           \A p, q \in User : Waits(u, p, q) <=> <<p, q>> \in S
    PROVE  PendingOf(u) = S
<1>1. \A p, q \in User : <<p, q>> \in PendingOf(u) <=> <<p, q>> \in S
  BY PendingSet
<1>2. PendingOf(u) \subseteq User \X User
  BY PendingSet
<1>3. QED
  BY <1>1, <1>2

LEMMA SameBlocks ==
    ASSUME NEW u \in Versioned, NEW S \in SUBSET (User \X User),
           \A p, q \in User : Bars(u, p, q) <=> <<p, q>> \in S
    PROVE  BlocksOf(u) = S
<1>1. \A p, q \in User : <<p, q>> \in BlocksOf(u) <=> <<p, q>> \in S
  BY BlockSet
<1>2. BlocksOf(u) \subseteq User \X User
  BY BlockSet
<1>3. QED
  BY <1>1, <1>2

LEMMA SameFriends ==
    ASSUME NEW u \in Versioned, Symmetric(u), NEW S,
           \A x \in S : \E p, q \in User : x = {p, q},
           \A p, q \in User : Friend(u, p, q) <=> {p, q} \in S
    PROVE  FriendsOf(u) = S
<1>1. \A p, q \in User : {p, q} \in FriendsOf(u) <=> {p, q} \in S
  BY FriendSet
<1>2. \A x \in FriendsOf(u) : \E p, q \in User : x = {p, q}
  BY FriendSet
<1>3. \A x : x \in FriendsOf(u) <=> x \in S
  BY <1>1, <1>2
<1>4. QED
  BY <1>3

\* How the sets change with the relations.
LEMMA PendingChanges ==
    ASSUME NEW t \in Versioned, NEW u \in Versioned, NEW a \in User, NEW b \in User
    PROVE  /\ (\A p, q \in User : Waits(u, p, q) <=> Waits(t, p, q) \/ (p = a /\ q = b))
                => PendingOf(u) = PendingOf(t) \cup {<<a, b>>}
           /\ (\A p, q \in User : Waits(u, p, q) <=> Waits(t, p, q) /\ ~(p = a /\ q = b))
                => PendingOf(u) = PendingOf(t) \ {<<a, b>>}
           /\ (\A p, q \in User : Waits(u, p, q) <=> Waits(t, p, q))
                => PendingOf(u) = PendingOf(t)
<1> DEFINE more == PendingOf(t) \cup {<<a, b>>}
           less == PendingOf(t) \ {<<a, b>>}
<1>1. /\ more \in SUBSET (User \X User)
      /\ less \in SUBSET (User \X User)
      /\ PendingOf(t) \in SUBSET (User \X User)
  BY PendingSet
<1>2. \A p, q \in User : /\ <<p, q>> \in PendingOf(t) <=> Waits(t, p, q)
                         /\ <<p, q>> \in more <=> Waits(t, p, q) \/ (p = a /\ q = b)
                         /\ <<p, q>> \in less <=> Waits(t, p, q) /\ ~(p = a /\ q = b)
  BY PendingSet
<1> HIDE DEF more, less
<1>3. ASSUME \A p, q \in User : Waits(u, p, q) <=> Waits(t, p, q) \/ (p = a /\ q = b)
      PROVE  PendingOf(u) = more
  <2>1. \A p, q \in User : Waits(u, p, q) <=> <<p, q>> \in more
    BY <1>2, <1>3
  <2>2. QED
    BY <1>1, <2>1, SamePending
<1>4. ASSUME \A p, q \in User : Waits(u, p, q) <=> Waits(t, p, q) /\ ~(p = a /\ q = b)
      PROVE  PendingOf(u) = less
  <2>1. \A p, q \in User : Waits(u, p, q) <=> <<p, q>> \in less
    BY <1>2, <1>4
  <2>2. QED
    BY <1>1, <2>1, SamePending
<1>5. ASSUME \A p, q \in User : Waits(u, p, q) <=> Waits(t, p, q)
      PROVE  PendingOf(u) = PendingOf(t)
  BY <1>1, <1>2, <1>5, SamePending
<1>6. QED
  BY <1>3, <1>4, <1>5 DEF more, less

LEMMA BlocksChange ==
    ASSUME NEW t \in Versioned, NEW u \in Versioned, NEW a \in User, NEW b \in User
    PROVE  /\ (\A p, q \in User : Bars(u, p, q) <=> Bars(t, p, q) \/ (p = a /\ q = b))
                => BlocksOf(u) = BlocksOf(t) \cup {<<a, b>>}
           /\ (\A p, q \in User : Bars(u, p, q) <=> Bars(t, p, q) /\ ~(p = a /\ q = b))
                => BlocksOf(u) = BlocksOf(t) \ {<<a, b>>}
           /\ (\A p, q \in User : Bars(u, p, q) <=> Bars(t, p, q))
                => BlocksOf(u) = BlocksOf(t)
<1> DEFINE more == BlocksOf(t) \cup {<<a, b>>}
           less == BlocksOf(t) \ {<<a, b>>}
<1>1. /\ more \in SUBSET (User \X User)
      /\ less \in SUBSET (User \X User)
      /\ BlocksOf(t) \in SUBSET (User \X User)
  BY BlockSet
<1>2. \A p, q \in User : /\ <<p, q>> \in BlocksOf(t) <=> Bars(t, p, q)
                         /\ <<p, q>> \in more <=> Bars(t, p, q) \/ (p = a /\ q = b)
                         /\ <<p, q>> \in less <=> Bars(t, p, q) /\ ~(p = a /\ q = b)
  BY BlockSet
<1> HIDE DEF more, less
<1>3. ASSUME \A p, q \in User : Bars(u, p, q) <=> Bars(t, p, q) \/ (p = a /\ q = b)
      PROVE  BlocksOf(u) = more
  <2>1. \A p, q \in User : Bars(u, p, q) <=> <<p, q>> \in more
    BY <1>2, <1>3
  <2>2. QED
    BY <1>1, <2>1, SameBlocks
<1>4. ASSUME \A p, q \in User : Bars(u, p, q) <=> Bars(t, p, q) /\ ~(p = a /\ q = b)
      PROVE  BlocksOf(u) = less
  <2>1. \A p, q \in User : Bars(u, p, q) <=> <<p, q>> \in less
    BY <1>2, <1>4
  <2>2. QED
    BY <1>1, <2>1, SameBlocks
<1>5. ASSUME \A p, q \in User : Bars(u, p, q) <=> Bars(t, p, q)
      PROVE  BlocksOf(u) = BlocksOf(t)
  BY <1>1, <1>2, <1>5, SameBlocks
<1>6. QED
  BY <1>3, <1>4, <1>5 DEF more, less

LEMMA FriendsChange ==
    ASSUME NEW t \in Versioned, NEW u \in Versioned, NEW a \in User, NEW b \in User,
           Symmetric(t)
    PROVE  /\ (\A p, q \in User : Friend(u, p, q) <=> Friend(t, p, q) \/ {p, q} = {a, b})
                => Symmetric(u) /\ FriendsOf(u) = FriendsOf(t) \cup {{a, b}}
           /\ (\A p, q \in User : Friend(u, p, q) <=> Friend(t, p, q) /\ {p, q} # {a, b})
                => Symmetric(u) /\ FriendsOf(u) = FriendsOf(t) \ {{a, b}}
           /\ (\A p, q \in User : Friend(u, p, q) <=> Friend(t, p, q))
                => Symmetric(u) /\ FriendsOf(u) = FriendsOf(t)
<1> DEFINE more == FriendsOf(t) \cup {{a, b}}
           less == FriendsOf(t) \ {{a, b}}
<1>1. /\ \A x \in FriendsOf(t) : \E p, q \in User : x = {p, q}
      /\ \A x \in more : \E p, q \in User : x = {p, q}
      /\ \A x \in less : \E p, q \in User : x = {p, q}
  BY FriendSet
<1>2. \A p, q \in User : /\ {p, q} \in FriendsOf(t) <=> Friend(t, p, q)
                         /\ {p, q} \in more <=> Friend(t, p, q) \/ {p, q} = {a, b}
                         /\ {p, q} \in less <=> Friend(t, p, q) /\ {p, q} # {a, b}
  BY FriendSet
<1> HIDE DEF more, less
<1>3. ASSUME \A p, q \in User : Friend(u, p, q) <=> Friend(t, p, q) \/ {p, q} = {a, b}
      PROVE  Symmetric(u) /\ FriendsOf(u) = more
  <2>1. Symmetric(u)
    BY <1>3 DEF Symmetric
  <2>2. \A p, q \in User : Friend(u, p, q) <=> {p, q} \in more
    BY <1>2, <1>3
  <2>3. QED
    BY <1>1, <2>1, <2>2, SameFriends
<1>4. ASSUME \A p, q \in User : Friend(u, p, q) <=> Friend(t, p, q) /\ {p, q} # {a, b}
      PROVE  Symmetric(u) /\ FriendsOf(u) = less
  <2>1. Symmetric(u)
    BY <1>4 DEF Symmetric
  <2>2. \A p, q \in User : Friend(u, p, q) <=> {p, q} \in less
    BY <1>2, <1>4
  <2>3. QED
    BY <1>1, <2>1, <2>2, SameFriends
<1>5. ASSUME \A p, q \in User : Friend(u, p, q) <=> Friend(t, p, q)
      PROVE  Symmetric(u) /\ FriendsOf(u) = FriendsOf(t)
  <2>1. Symmetric(u)
    BY <1>5 DEF Symmetric
  <2>2. QED
    BY <1>1, <1>2, <1>5, <2>1, SameFriends
<1>6. QED
  BY <1>3, <1>4, <1>5 DEF more, less

-------------------------------------------------------------------------------
(* What a commit changes: how the relations of draft differ from db's.       *)

SameWaits == \A p, q \in User : Waits(draft, p, q) <=> Waits(db, p, q)
OneMoreWaits(a, b) ==
    \A p, q \in User : Waits(draft, p, q) <=> Waits(db, p, q) \/ (p = a /\ q = b)
OneLessWaits(a, b) ==
    \A p, q \in User : Waits(draft, p, q) <=> Waits(db, p, q) /\ ~(p = a /\ q = b)

SameBars == \A p, q \in User : Bars(draft, p, q) <=> Bars(db, p, q)
OneMoreBars(a, b) ==
    \A p, q \in User : Bars(draft, p, q) <=> Bars(db, p, q) \/ (p = a /\ q = b)
OneLessBars(a, b) ==
    \A p, q \in User : Bars(draft, p, q) <=> Bars(db, p, q) /\ ~(p = a /\ q = b)

SameFriendships == \A p, q \in User : Friend(draft, p, q) <=> Friend(db, p, q)
OneMorePair(a, b) ==
    \A p, q \in User : Friend(draft, p, q) <=> Friend(db, p, q) \/ {p, q} = {a, b}
OneLessPair(a, b) ==
    \A p, q \in User : Friend(draft, p, q) <=> Friend(db, p, q) /\ {p, q} # {a, b}

SameContactRows == \A c \in ContactId : draft[c] = db[c]

LEMMA UntouchedTables ==
    /\ (\A i \in InviteId : draft[i] = db[i]) => SameWaits
    /\ SameContactRows => SameFriendships
    /\ (\A k \in BlockId : draft[k] = db[k]) => SameBars
BY DEF SameWaits, SameBars, SameFriendships, SameContactRows, Waits, Bars, Friend

LEMMA NewInvite ==
    ASSUME NEW i \in InviteId, NEW a \in User, NEW b \in User, db[i] = Absent,
           draft[i] = [inviter |-> a, invitee |-> b, status |-> "PENDING"],
           draft[i] # Absent, \A j \in InviteId \ {i} : draft[j] = db[j]
    PROVE  OneMoreWaits(a, b)
<1> SUFFICES ASSUME NEW p \in User, NEW q \in User
             PROVE  Waits(draft, p, q) <=> Waits(db, p, q) \/ (p = a /\ q = b)
  BY DEF OneMoreWaits
<1>1. \A j \in InviteId \ {i} : PendingInvite(draft[j], p, q) <=> PendingInvite(db[j], p, q)
  OBVIOUS
<1>2. ~PendingInvite(db[i], p, q) /\ (PendingInvite(draft[i], p, q) <=> p = a /\ q = b)
  BY DEF PendingInvite
<1>3. QED
  BY <1>1, <1>2 DEF Waits

LEMMA NewBlock ==
    ASSUME NEW k \in BlockId, NEW a \in User, NEW b \in User, db[k] = Absent,
           draft[k] = [blocked |-> a, blocker |-> b, removedBy |-> NoUser],
           draft[k] # Absent, \A l \in BlockId \ {k} : draft[l] = db[l]
    PROVE  OneMoreBars(a, b)
<1> SUFFICES ASSUME NEW p \in User, NEW q \in User
             PROVE  Bars(draft, p, q) <=> Bars(db, p, q) \/ (p = a /\ q = b)
  BY DEF OneMoreBars
<1>1. \A l \in BlockId \ {k} : ActiveBlock(draft[l], p, q) <=> ActiveBlock(db[l], p, q)
  OBVIOUS
<1>2. ~ActiveBlock(db[k], p, q) /\ (ActiveBlock(draft[k], p, q) <=> p = a /\ q = b)
  BY DEF ActiveBlock
<1>3. QED
  BY <1>1, <1>2 DEF Bars

\* The pair of rows of one contact.
LEMMA NewPair ==
    ASSUME NEW c \in ContactId, NEW d \in ContactId \ {c}, NEW a \in User, NEW b \in User,
           NEW i, db[c] = Absent, db[d] = Absent,
           draft[c] = [source |-> a, target |-> b, invite |-> i, removedBy |-> NoUser],
           draft[d] = [source |-> b, target |-> a, invite |-> i, removedBy |-> NoUser],
           draft[c] # Absent, draft[d] # Absent,
           \A e \in ContactId \ {c, d} : draft[e] = db[e]
    PROVE  OneMorePair(a, b)
<1> SUFFICES ASSUME NEW p \in User, NEW q \in User
             PROVE  Friend(draft, p, q) <=> Friend(db, p, q) \/ {p, q} = {a, b}
  BY DEF OneMorePair
<1>1. \A e \in ContactId \ {c, d} : ActiveContact(draft[e], p, q) <=> ActiveContact(db[e], p, q)
  OBVIOUS
<1>2. /\ ~ActiveContact(db[c], p, q) /\ (ActiveContact(draft[c], p, q) <=> p = a /\ q = b)
      /\ ~ActiveContact(db[d], p, q) /\ (ActiveContact(draft[d], p, q) <=> p = b /\ q = a)
  BY DEF ActiveContact
<1>3. {p, q} = {a, b} <=> (p = a /\ q = b) \/ (p = b /\ q = a)
  OBVIOUS
<1>4. QED
  BY <1>1, <1>2, <1>3 DEF Friend

\* An answer ends the one open invite from a to b.
LEMMA AnsweredInvite ==
    ASSUME IInv, NEW i \in InviteId, NEW a \in User, NEW b \in User, PendingInvite(db[i], a, b),
           draft[i].status # "PENDING", \A j \in InviteId \ {i} : draft[j] = db[j]
    PROVE  OneLessWaits(a, b)
<1> SUFFICES ASSUME NEW p \in User, NEW q \in User
             PROVE  Waits(draft, p, q) <=> Waits(db, p, q) /\ ~(p = a /\ q = b)
  BY DEF OneLessWaits
<1>1. \A j \in InviteId \ {i} : PendingInvite(draft[j], p, q) <=> PendingInvite(db[j], p, q)
  OBVIOUS
<1>2. ~PendingInvite(draft[i], p, q) /\ (PendingInvite(db[i], p, q) => p = a /\ q = b)
  BY DEF PendingInvite
<1>3. p = a /\ q = b => \A j \in InviteId \ {i} : ~PendingInvite(db[j], p, q)
  BY DEF IInv, UniqueRows
<1>4. QED
  BY <1>1, <1>2, <1>3 DEF Waits

LEMMA LiftedBlock ==
    ASSUME NEW a \in User, NEW b \in User, \A k \in Blocking(db, a, b) : draft[k].removedBy # NoUser,
           \A k \in BlockId \ Blocking(db, a, b) : draft[k] = db[k]
    PROVE  OneLessBars(a, b)
<1> SUFFICES ASSUME NEW p \in User, NEW q \in User
             PROVE  Bars(draft, p, q) <=> Bars(db, p, q) /\ ~(p = a /\ q = b)
  BY DEF OneLessBars
<1>1. ASSUME NEW k \in BlockId
      PROVE  ActiveBlock(draft[k], p, q) <=> ActiveBlock(db[k], p, q) /\ ~(p = a /\ q = b)
  BY DEF ActiveBlock, Blocking
<1>2. QED
  BY <1>1 DEF Bars

LEMMA EndedContact ==
    ASSUME NEW a \in User, NEW b \in User, \A c \in Between(db, a, b) : draft[c].removedBy # NoUser,
           \A c \in ContactId \ Between(db, a, b) : draft[c] = db[c]
    PROVE  OneLessPair(a, b)
<1> SUFFICES ASSUME NEW p \in User, NEW q \in User
             PROVE  Friend(draft, p, q) <=> Friend(db, p, q) /\ {p, q} # {a, b}
  BY DEF OneLessPair
<1>1. {p, q} = {a, b} <=> (p = a /\ q = b) \/ (p = b /\ q = a)
  OBVIOUS
<1>2. ASSUME NEW c \in ContactId
      PROVE  ActiveContact(draft[c], p, q) <=> ActiveContact(db[c], p, q) /\ {p, q} # {a, b}
  BY <1>1 DEF ActiveContact, Between
<1>3. QED
  BY <1>2 DEF Friend

\* Contact rows that stay about the same invites.
LEMMA SameOrigins ==
    ASSUME \A c \in ContactId : /\ draft[c] = Absent <=> db[c] = Absent
                                /\ db[c] # Absent => draft[c].invite = db[c].invite
    PROVE  \A i : ContactsOf(draft, i) = ContactsOf(db, i)
BY DEF ContactsOf

-------------------------------------------------------------------------------
(* The steps of SocialGraph in terms of the relations.                       *)

Invites(a, b) ==
    /\ ~Waits(db, a, b) /\ ~Waits(db, b, a) /\ ~Friend(db, a, b) /\ Unbarred(db, a, b)
    /\ OneMoreWaits(a, b) /\ SameFriendships /\ SameBars
Answers(a, b) ==
    /\ Waits(db, a, b) /\ ~Friend(db, a, b) /\ Unbarred(db, a, b)
    /\ OneLessWaits(a, b)
Accepts(a, b) == a # b /\ Answers(a, b) /\ OneMorePair(a, b) /\ SameBars
Rejects(a, b) == Answers(a, b) /\ SameFriendships /\ SameBars
RejectsAndBlocks(a, b) == Answers(a, b) /\ SameFriendships /\ OneMoreBars(a, b)
Blocks(a, b) ==
    /\ a # b /\ ~Bars(db, a, b)
    /\ OneMoreBars(a, b) /\ OneLessPair(a, b) /\ SameWaits
Unblocks(a, b) ==
    /\ a # b /\ Bars(db, a, b)
    /\ OneLessBars(a, b) /\ SameFriendships /\ SameWaits
Unfriends(a, b) == Friend(db, a, b) /\ OneLessPair(a, b) /\ SameBars /\ SameWaits

GraphMove(a, b) ==
    \/ Invites(a, b)
    \/ Accepts(a, b)
    \/ Rejects(a, b)
    \/ RejectsAndBlocks(a, b)
    \/ Blocks(a, b)
    \/ Unblocks(a, b)
    \/ Unfriends(a, b)

LEMMA SetsFollow ==
    ASSUME IInv, Symmetric(db), NEW a \in User, NEW b \in User
    PROVE  /\ OneMoreWaits(a, b) => PendingOf(draft) = PendingOf(db) \cup {<<a, b>>}
           /\ OneLessWaits(a, b) => PendingOf(draft) = PendingOf(db) \ {<<a, b>>}
           /\ SameWaits => PendingOf(draft) = PendingOf(db)
           /\ OneMoreBars(a, b) => BlocksOf(draft) = BlocksOf(db) \cup {<<a, b>>}
           /\ OneLessBars(a, b) => BlocksOf(draft) = BlocksOf(db) \ {<<a, b>>}
           /\ SameBars => BlocksOf(draft) = BlocksOf(db)
           /\ OneMorePair(a, b) =>
                Symmetric(draft) /\ FriendsOf(draft) = FriendsOf(db) \cup {{a, b}}
           /\ OneLessPair(a, b) =>
                Symmetric(draft) /\ FriendsOf(draft) = FriendsOf(db) \ {{a, b}}
           /\ SameFriendships => Symmetric(draft) /\ FriendsOf(draft) = FriendsOf(db)
<1>1. db \in Versioned /\ draft \in Versioned
  BY DEF IInv, TypeOK
<1>2. /\ OneMoreWaits(a, b) => PendingOf(draft) = PendingOf(db) \cup {<<a, b>>}
      /\ OneLessWaits(a, b) => PendingOf(draft) = PendingOf(db) \ {<<a, b>>}
      /\ SameWaits => PendingOf(draft) = PendingOf(db)
  BY <1>1, PendingChanges DEF OneMoreWaits, OneLessWaits, SameWaits
<1>3. /\ OneMoreBars(a, b) => BlocksOf(draft) = BlocksOf(db) \cup {<<a, b>>}
      /\ OneLessBars(a, b) => BlocksOf(draft) = BlocksOf(db) \ {<<a, b>>}
      /\ SameBars => BlocksOf(draft) = BlocksOf(db)
  BY <1>1, BlocksChange DEF OneMoreBars, OneLessBars, SameBars
<1>4. /\ OneMorePair(a, b) =>
            Symmetric(draft) /\ FriendsOf(draft) = FriendsOf(db) \cup {{a, b}}
      /\ OneLessPair(a, b) =>
            Symmetric(draft) /\ FriendsOf(draft) = FriendsOf(db) \ {{a, b}}
      /\ SameFriendships => Symmetric(draft) /\ FriendsOf(draft) = FriendsOf(db)
  BY <1>1, FriendsChange DEF OneMorePair, OneLessPair, SameFriendships
<1>5. QED
  BY <1>2, <1>3, <1>4

LEMMA StepsKeepOrder ==
    ASSUME IInv, GoodGraph(db), NEW a \in User, NEW b \in User, GraphMove(a, b)
    PROVE  Symmetric(draft) /\ FriendsFree(draft) /\ OneWay(draft)
<1>1. Symmetric(db) /\ FriendsFree(db) /\ OneWay(db)
  BY DEF GoodGraph
<1>2. ~Friend(db, b, a) \/ Friend(db, a, b)
  BY <1>1 DEF Symmetric
<1>3. \A p, q \in User : {p, q} = {a, b} <=> (p = a /\ q = b) \/ (p = b /\ q = a)
  OBVIOUS
<1>4. CASE Invites(a, b)
  <2>1. Symmetric(draft)
    BY <1>1, <1>4, SetsFollow DEF Invites
  <2>2. FriendsFree(draft) /\ OneWay(draft)
    BY <1>1, <1>4 DEF Invites, FriendsFree, OneWay, Unbarred, OneMoreWaits, SameFriendships,
                      SameBars
  <2>3. QED
    BY <2>1, <2>2
<1>5. CASE Accepts(a, b)
  <2>1. Symmetric(draft)
    BY <1>1, <1>5, SetsFollow DEF Accepts
  <2>2. FriendsFree(draft)
    BY <1>1, <1>3, <1>5 DEF Accepts, Answers, FriendsFree, Unbarred, OneMorePair, SameBars
  <2>3. OneWay(draft)
    BY <1>1, <1>5 DEF Accepts, Answers, OneWay, OneLessWaits
  <2>4. QED
    BY <2>1, <2>2, <2>3
<1>6. CASE Rejects(a, b)
  <2>1. Symmetric(draft)
    BY <1>1, <1>6, SetsFollow DEF Rejects
  <2>2. FriendsFree(draft) /\ OneWay(draft)
    BY <1>1, <1>6 DEF Rejects, Answers, FriendsFree, OneWay, Unbarred, OneLessWaits,
                      SameFriendships, SameBars
  <2>3. QED
    BY <2>1, <2>2
<1>7. CASE RejectsAndBlocks(a, b)
  <2>1. Symmetric(draft)
    BY <1>1, <1>7, SetsFollow DEF RejectsAndBlocks
  <2>2. FriendsFree(draft) /\ OneWay(draft)
    BY <1>1, <1>2, <1>7 DEF RejectsAndBlocks, Answers, FriendsFree, OneWay, Unbarred,
                            OneLessWaits, SameFriendships, OneMoreBars
  <2>3. QED
    BY <2>1, <2>2
<1>8. CASE Blocks(a, b)
  <2>1. Symmetric(draft)
    BY <1>1, <1>8, SetsFollow DEF Blocks
  <2>2. FriendsFree(draft)
    BY <1>1, <1>3, <1>8 DEF Blocks, FriendsFree, Unbarred, OneLessPair, OneMoreBars
  <2>3. OneWay(draft)
    BY <1>1, <1>8 DEF Blocks, OneWay, SameWaits
  <2>4. QED
    BY <2>1, <2>2, <2>3
<1>9. CASE Unblocks(a, b)
  <2>1. Symmetric(draft)
    BY <1>1, <1>9, SetsFollow DEF Unblocks
  <2>2. FriendsFree(draft) /\ OneWay(draft)
    BY <1>1, <1>9 DEF Unblocks, FriendsFree, OneWay, Unbarred, SameWaits, SameFriendships,
                      OneLessBars
  <2>3. QED
    BY <2>1, <2>2
<1>10. CASE Unfriends(a, b)
  <2>1. Symmetric(draft)
    BY <1>1, <1>10, SetsFollow DEF Unfriends
  <2>2. FriendsFree(draft) /\ OneWay(draft)
    BY <1>1, <1>10 DEF Unfriends, FriendsFree, OneWay, Unbarred, SameWaits, OneLessPair,
                       SameBars
  <2>3. QED
    BY <2>1, <2>2
<1>11. QED
  BY <1>4, <1>5, <1>6, <1>7, <1>8, <1>9, <1>10 DEF GraphMove

LEMMA StepsAreGraphSteps ==
    ASSUME IInv, GoodGraph(db), NEW a \in User, NEW b \in User, GraphMove(a, b), db' = draft
    PROVE  Graph!GraphNext
<1>1. Symmetric(db) /\ db \in Versioned
  BY DEF GoodGraph, IInv, TypeOK
<1>2. /\ <<a, b>> \in PendingOf(db) <=> Waits(db, a, b)
      /\ <<b, a>> \in PendingOf(db) <=> Waits(db, b, a)
      /\ <<a, b>> \in BlocksOf(db) <=> Bars(db, a, b)
      /\ <<b, a>> \in BlocksOf(db) <=> Bars(db, b, a)
      /\ {a, b} \in FriendsOf(db) <=> Friend(db, a, b)
  BY <1>1, PendingSet, BlockSet, FriendSet
<1>3. /\ PendingOf(db)' = PendingOf(draft)
      /\ BlocksOf(db)' = BlocksOf(draft)
      /\ FriendsOf(db)' = FriendsOf(draft)
  BY DEF PendingOf, BlocksOf, FriendsOf
<1>4. Invites(a, b) => Graph!Invite(a, b)
  <2>1. SUFFICES ASSUME Invites(a, b)
                 PROVE  /\ <<a, b>> \notin PendingOf(db) /\ <<b, a>> \notin PendingOf(db)
                        /\ {a, b} \notin FriendsOf(db)
                        /\ <<a, b>> \notin BlocksOf(db) /\ <<b, a>> \notin BlocksOf(db)
                        /\ PendingOf(db)' = PendingOf(db) \cup {<<a, b>>}
                        /\ FriendsOf(db)' = FriendsOf(db) /\ BlocksOf(db)' = BlocksOf(db)
    BY DEF Graph!Invite, Graph!NobodyBlocks, PendingOf, FriendsOf, BlocksOf
  <2>2. QED
    BY <1>1, <1>2, <1>3, <2>1, SetsFollow DEF Invites, Unbarred
<1>5. Accepts(a, b) => Graph!Accept(a, b)
  <2>1. SUFFICES ASSUME Accepts(a, b)
                 PROVE  /\ a # b
                        /\ <<a, b>> \in PendingOf(db)
                        /\ <<a, b>> \notin BlocksOf(db) /\ <<b, a>> \notin BlocksOf(db)
                        /\ PendingOf(db)' = PendingOf(db) \ {<<a, b>>}
                        /\ FriendsOf(db)' = FriendsOf(db) \cup {{a, b}}
                        /\ BlocksOf(db)' = BlocksOf(db)
    BY DEF Graph!Accept, Graph!Answer, Graph!NobodyBlocks, PendingOf, FriendsOf, BlocksOf
  <2>2. QED
    BY <1>1, <1>2, <1>3, <2>1, SetsFollow DEF Accepts, Answers, Unbarred
<1>6. Rejects(a, b) => Graph!Reject(a, b)
  <2>1. SUFFICES ASSUME Rejects(a, b)
                 PROVE  /\ <<a, b>> \in PendingOf(db)
                        /\ <<a, b>> \notin BlocksOf(db) /\ <<b, a>> \notin BlocksOf(db)
                        /\ PendingOf(db)' = PendingOf(db) \ {<<a, b>>}
                        /\ FriendsOf(db)' = FriendsOf(db) /\ BlocksOf(db)' = BlocksOf(db)
    BY DEF Graph!Reject, Graph!Answer, Graph!NobodyBlocks, PendingOf, FriendsOf, BlocksOf
  <2>2. QED
    BY <1>1, <1>2, <1>3, <2>1, SetsFollow DEF Rejects, Answers, Unbarred
<1>7. RejectsAndBlocks(a, b) => Graph!RejectAndBlock(a, b)
  <2>1. SUFFICES ASSUME RejectsAndBlocks(a, b)
                 PROVE  /\ <<a, b>> \in PendingOf(db)
                        /\ <<a, b>> \notin BlocksOf(db) /\ <<b, a>> \notin BlocksOf(db)
                        /\ PendingOf(db)' = PendingOf(db) \ {<<a, b>>}
                        /\ BlocksOf(db)' = BlocksOf(db) \cup {<<a, b>>}
                        /\ FriendsOf(db)' = FriendsOf(db)
    BY DEF Graph!RejectAndBlock, Graph!Answer, Graph!NobodyBlocks, PendingOf, FriendsOf, BlocksOf
  <2>2. QED
    BY <1>1, <1>2, <1>3, <2>1, SetsFollow DEF RejectsAndBlocks, Answers, Unbarred
<1>8. Blocks(a, b) => Graph!Block(a, b)
  <2>1. SUFFICES ASSUME Blocks(a, b)
                 PROVE  /\ a # b
                        /\ <<a, b>> \notin BlocksOf(db)
                        /\ BlocksOf(db)' = BlocksOf(db) \cup {<<a, b>>}
                        /\ FriendsOf(db)' = FriendsOf(db) \ {{a, b}}
                        /\ PendingOf(db)' = PendingOf(db)
    BY DEF Graph!Block, PendingOf, FriendsOf, BlocksOf
  <2>2. QED
    BY <1>1, <1>2, <1>3, <2>1, SetsFollow DEF Blocks
<1>9. Unblocks(a, b) => Graph!Unblock(a, b)
  <2>1. SUFFICES ASSUME Unblocks(a, b)
                 PROVE  /\ a # b
                        /\ <<a, b>> \in BlocksOf(db)
                        /\ BlocksOf(db)' = BlocksOf(db) \ {<<a, b>>}
                        /\ PendingOf(db)' = PendingOf(db) /\ FriendsOf(db)' = FriendsOf(db)
    BY DEF Graph!Unblock, PendingOf, FriendsOf, BlocksOf
  <2>2. QED
    BY <1>1, <1>2, <1>3, <2>1, SetsFollow DEF Unblocks
<1>10. Unfriends(a, b) => Graph!Unfriend(a, b)
  <2>1. SUFFICES ASSUME Unfriends(a, b)
                 PROVE  /\ {a, b} \in FriendsOf(db)
                        /\ FriendsOf(db)' = FriendsOf(db) \ {{a, b}}
                        /\ PendingOf(db)' = PendingOf(db) /\ BlocksOf(db)' = BlocksOf(db)
    BY DEF Graph!Unfriend, PendingOf, FriendsOf, BlocksOf
  <2>2. QED
    BY <1>1, <1>2, <1>3, <2>1, SetsFollow DEF Unfriends
<1>11. QED
  BY <1>4, <1>5, <1>6, <1>7, <1>8, <1>9, <1>10 DEF GraphMove, Graph!GraphNext

-------------------------------------------------------------------------------
(* What each mutation has done to the graph when it commits.                 *)

LEMMA CommitShowsDraft ==
    ASSUME NEW r \in Request, SerialInv(r), Alone(r), commit(r)
    PROVE  /\ db' = draft /\ draft' = draft /\ req'[r] = Idle
           /\ req[r].op \in Op \ {"none"} /\ req[r].pc = Len(Script[req[r].op])
<1>1. IInv /\ Visible(r) = draft /\ RunsStatement(r)
  BY SeesDraft, RunIs DEF SerialInv, Run
<1>2. db' = draft /\ draft' = draft /\ req'[r] = Idle
  BY <1>1 DEF commit, CommitTx, IInv, TypeOK
<1>3. req[r].op \in Op /\ req[r].pc \in 1..Len(Script[req[r].op])
  BY <1>1, Scripted DEF IInv, TypeOK, RequestState
<1>4. Script[req[r].op][req[r].pc] = "commit"
  BY DEF commit, At, Current
<1>5. req[r].op # "none"
  BY <1>3, <1>4 DEF Script
<1>6. req[r].pc = Len(Script[req[r].op])
  <2>1. CASE req[r].op = "createInvite"
    BY <1>3, <1>4, <2>1, ScriptLengths DEF Script
  <2>2. CASE req[r].op = "acceptInvite"
    BY <1>3, <1>4, <2>2, ScriptLengths DEF Script
  <2>3. CASE req[r].op = "rejectInvite"
    BY <1>3, <1>4, <2>3, ScriptLengths DEF Script
  <2>4. CASE req[r].op = "rejectInviteAndBlockUser"
    BY <1>3, <1>4, <2>4, ScriptLengths DEF Script
  <2>5. CASE req[r].op = "blockUser"
    BY <1>3, <1>4, <2>5, ScriptLengths DEF Script
  <2>6. CASE req[r].op = "unblockUser"
    BY <1>3, <1>4, <2>6, ScriptLengths DEF Script
  <2>7. CASE req[r].op = "deleteContact"
    BY <1>3, <1>4, <2>7, ScriptLengths DEF Script
  <2>8. QED
    BY <1>3, <1>5, <2>1, <2>2, <2>3, <2>4, <2>5, <2>6, <2>7, OpsAre
<1>7. QED
  BY <1>2, <1>3, <1>5, <1>6

\* An invite's contacts are told by its status; contacts are of invites that are there.
LEMMA NewInviteHasNoContact ==
    ASSUME IInv, NEW i \in InviteId, db[i] = Absent
    PROVE  ContactsOf(db, i) = {}
BY DEF IInv, ContactsFromAnsweredInvites, ContactsOf

\* Nothing changes for the contacts of the invites that stay.
LEMMA AnswersStay ==
    ASSUME IInv, Answered(db), SameContactRows,
           \A i \in InviteId : draft[i] # Absent =>
                \/ draft[i] = db[i]
                \/ draft[i].status # "ACCEPTED" /\ db[i] = Absent
                \/ draft[i].status # "ACCEPTED" /\ db[i].status # "ACCEPTED"
    PROVE  Answered(draft)
<1>1. \A i : ContactsOf(draft, i) = ContactsOf(db, i)
  BY SameOrigins DEF SameContactRows
<1>2. ASSUME NEW i \in InviteId, draft[i] # Absent
      PROVE  IF draft[i].status = "ACCEPTED"
             THEN \E c, d \in ContactId : c # d /\ ContactsOf(draft, i) = {c, d}
             ELSE ContactsOf(draft, i) = {}
  BY <1>1, <1>2, NewInviteHasNoContact DEF Answered
<1>3. QED
  BY <1>2 DEF Answered

\* What is answered is as it was.
AnswersStand ==
    \A i \in InviteId : db[i] # Absent /\ db[i].status # "PENDING" => draft[i] = db[i]

Lands(r) == GraphMove(req[r].a, req[r].b) /\ Answered(draft) /\ AnswersStand

LEMMA CreateInviteLands ==
    ASSUME NEW r \in Request, SerialInv(r), Alone(r), commit(r), req[r].op = "createInvite"
    PROVE  Lands(r)
<1> DEFINE q == req[r]
<1>1. /\ IInv /\ Answered(db) /\ Invitable(q) /\ Inviting(q) /\ q.pc = 7
      /\ q.a \in User /\ q.b \in User
  BY CommitShowsDraft, ScriptLengths, AboutUsers DEF SerialInv, Checked, Written, GoodGraph
<1>2. /\ ~Waits(db, q.a, q.b) /\ ~Waits(db, q.b, q.a) /\ ~Friend(db, q.a, q.b)
      /\ Unbarred(db, q.a, q.b)
  BY <1>1 DEF Invitable, CleanPair, Unbarred
<1>3. PICK i \in InviteId : New(i, InviteFor(q)) /\ OnlyDiffer({i})
  BY <1>1 DEF Inviting
<1>4. /\ db[i] = Absent /\ draft[i] = InviteFor(q)
      /\ draft[i] # Absent /\ draft[i].status = "PENDING"
  BY <1>1, <1>3, AbsentIsNoRow DEF New, InviteFor, InviteRow, InviteStatus
<1>5. /\ SameContactRows
      /\ \A j \in InviteId \ {i} : draft[j] = db[j]
      /\ \A k \in BlockId : draft[k] = db[k]
  BY <1>3, KeysAreIds DEF OnlyDiffer, SameContactRows
<1>6. OneMoreWaits(q.a, q.b) /\ SameFriendships /\ SameBars
  BY <1>1, <1>4, <1>5, NewInvite, UntouchedTables DEF InviteFor
<1>7. Answered(draft)
  BY <1>1, <1>4, <1>5, AnswersStay
<1>8. AnswersStand
  BY <1>4, <1>5 DEF AnswersStand
<1>9. QED
  BY <1>2, <1>6, <1>7, <1>8 DEF Lands, GraphMove, Invites

\* What an answer finds and does to the invite, at its commit.
LEMMA AnswerFinds ==
    ASSUME NEW r \in Request, SerialInv(r), Alone(r), req[r].op \in Answering, req[r].pc > 5
    PROVE  /\ req[r].a \in User /\ req[r].b \in User /\ req[r].row \in InviteId
           /\ PendingInvite(db[req[r].row], req[r].a, req[r].b)
           /\ db[req[r].row] \in InviteRow
           /\ Waits(db, req[r].a, req[r].b) /\ ~Friend(db, req[r].a, req[r].b)
           /\ Unbarred(db, req[r].a, req[r].b)
<1> DEFINE q == req[r]
<1>1. IInv /\ Answerable(q) /\ q.op # "none" /\ q.pc \in Nat
  BY DEF SerialInv, Checked, Answering, IInv, TypeOK, RequestState
<1>2. /\ q.a \in User /\ q.b \in User /\ q.row \in InviteId
      /\ db[q.row] # Absent /\ db[q.row].inviter = q.a /\ db[q.row].invitee = q.b
  BY <1>1, AboutUsers
<1>3. db[q.row].status = "PENDING" /\ ~Friend(db, q.a, q.b) /\ Unbarred(db, q.a, q.b)
  BY <1>1 DEF Answerable, CleanPair, Unbarred
<1>4. PendingInvite(db[q.row], q.a, q.b) /\ Waits(db, q.a, q.b)
  BY <1>2, <1>3 DEF PendingInvite, Waits
<1>5. db[q.row] \in InviteRow
  BY <1>1, <1>2, TypedRows DEF IInv, TypeOK
<1>6. QED
  BY <1>2, <1>3, <1>4, <1>5

LEMMA AcceptInviteLands ==
    ASSUME NEW r \in Request, SerialInv(r), Alone(r), commit(r), req[r].op = "acceptInvite"
    PROVE  Lands(r)
<1> DEFINE q == req[r]
           i == q.row
<1>1. IInv /\ Answered(db) /\ Accepting(q) /\ q.pc = 8 /\ q.op \in Answering
  BY CommitShowsDraft, ScriptLengths DEF SerialInv, Written, GoodGraph, Answering
<1>2. /\ q.a \in User /\ q.b \in User /\ i \in InviteId
      /\ PendingInvite(db[i], q.a, q.b) /\ db[i] \in InviteRow
      /\ Waits(db, q.a, q.b) /\ ~Friend(db, q.a, q.b) /\ Unbarred(db, q.a, q.b)
  BY <1>1, AnswerFinds
<1>3. /\ draft[i] = Accepted(db[i])
      /\ \E c \in ContactId :
            /\ New(c, ContactFor(q, q.a, q.b))
            /\ q.a # q.b
            /\ \E d \in ContactId \ {c} :
                New(d, ContactFor(q, q.b, q.a)) /\ OnlyDiffer({i, c, d})
  <2>1. ~(q.pc <= 5) /\ q.pc # 6 /\ q.pc # 7
    BY <1>1
  <2>2. QED
    BY <1>1, <2>1 DEF Accepting
<1>4. PICK c \in ContactId :
        /\ New(c, ContactFor(q, q.a, q.b))
        /\ q.a # q.b
        /\ \E d \in ContactId \ {c} :
            New(d, ContactFor(q, q.b, q.a)) /\ OnlyDiffer({i, c, d})
  BY <1>3
<1>5. PICK d \in ContactId \ {c} :
        /\ New(c, ContactFor(q, q.a, q.b)) /\ New(d, ContactFor(q, q.b, q.a))
        /\ OnlyDiffer({i, c, d})
  BY <1>4
<1>6. /\ draft[c] \in ContactRow /\ draft[d] \in ContactRow
      /\ draft[c] # Absent /\ draft[d] # Absent
  BY <1>2, <1>5, AbsentIsNoRow DEF New, ContactFor, ContactRow
<1>7. /\ \A e \in ContactId \ {c, d} : draft[e] = db[e]
      /\ \A j \in InviteId \ {i} : draft[j] = db[j]
      /\ \A k \in BlockId : draft[k] = db[k]
  BY <1>2, <1>5, KeysAreIds DEF OnlyDiffer
<1>8. draft[i].status = "ACCEPTED"
  BY <1>2, <1>3 DEF Accepted, InviteRow
<1>9. OneLessWaits(q.a, q.b) /\ SameBars
  BY <1>1, <1>2, <1>7, <1>8, AnsweredInvite, UntouchedTables
<1>10. OneMorePair(q.a, q.b)
  BY <1>2, <1>5, <1>6, <1>7, NewPair DEF New, ContactFor
<1>11. Answered(draft)
  <2>1. ContactsOf(db, i) = {}
    BY <1>1, <1>2 DEF Answered, PendingInvite
  <2>2. ContactsOf(draft, i) = {c, d}
    BY <1>5, <1>6, <1>7, <2>1 DEF ContactsOf, New, ContactFor
  <2>3. ASSUME NEW j \in InviteId \ {i}
        PROVE  ContactsOf(draft, j) = ContactsOf(db, j)
    BY <1>5, <1>7, <2>3 DEF ContactsOf, New, ContactFor
  <2>4. QED
    BY <1>1, <1>7, <1>8, <2>2, <2>3 DEF Answered
<1>12. AnswersStand
  BY <1>2, <1>7 DEF AnswersStand, PendingInvite
<1>13. QED
  BY <1>2, <1>4, <1>9, <1>10, <1>11, <1>12 DEF Lands, GraphMove, Accepts, Answers

LEMMA RejectLands ==
    ASSUME NEW r \in Request, SerialInv(r), Alone(r), commit(r),
           req[r].op \in {"rejectInvite", "rejectInviteAndBlockUser"}
    PROVE  Lands(r)
<1> DEFINE q == req[r]
           i == q.row
<1>1. /\ IInv /\ Answered(db) /\ Rejecting(q) /\ q.op \in Answering
      /\ q.op = "rejectInvite" => q.pc = 6
      /\ q.op = "rejectInviteAndBlockUser" => q.pc = 9
      /\ q.pc > 5
  <2>1. Rejecting(q)
    BY DEF SerialInv, Written
  <2>2. IInv /\ Answered(db) /\ q.op \in Answering
    BY DEF SerialInv, GoodGraph, Answering
  <2>3. /\ q.op = "rejectInvite" => q.pc = 6
        /\ q.op = "rejectInviteAndBlockUser" => q.pc = 9
    BY CommitShowsDraft, ScriptLengths
  <2>4. QED
    BY <2>1, <2>2, <2>3
<1>2. /\ q.a \in User /\ q.b \in User /\ i \in InviteId
      /\ PendingInvite(db[i], q.a, q.b) /\ db[i] \in InviteRow
      /\ Waits(db, q.a, q.b) /\ ~Friend(db, q.a, q.b) /\ Unbarred(db, q.a, q.b)
  BY <1>1, AnswerFinds
<1>3. draft[i].status = "REJECTED" /\ db[i].status = "PENDING"
  BY <1>1, <1>2 DEF Rejecting, Rejected, InviteRow, PendingInvite
<1>4. ASSUME SameContactRows, \A j \in InviteId \ {i} : draft[j] = db[j]
      PROVE  OneLessWaits(q.a, q.b) /\ SameFriendships /\ Answered(draft) /\ AnswersStand
  <2>1. OneLessWaits(q.a, q.b) /\ SameFriendships /\ Answered(draft)
    BY <1>1, <1>2, <1>3, <1>4, AnsweredInvite, UntouchedTables, AnswersStay
  <2>2. AnswersStand
    BY <1>3, <1>4 DEF AnswersStand
  <2>3. QED
    BY <2>1, <2>2
<1>5. CASE q.op = "rejectInvite"
  <2>1. OnlyDiffer({i})
    BY <1>1, <1>5 DEF Rejecting
  <2>2. /\ SameContactRows /\ \A j \in InviteId \ {i} : draft[j] = db[j]
        /\ \A k \in BlockId : draft[k] = db[k]
    BY <1>2, <2>1, KeysAreIds DEF OnlyDiffer, SameContactRows
  <2>3. SameBars
    BY <2>2, UntouchedTables
  <2>4. QED
    BY <1>2, <1>4, <2>2, <2>3 DEF Lands, GraphMove, Rejects, Answers
<1>6. CASE q.op = "rejectInviteAndBlockUser"
  <2>1. PICK k \in BlockId : New(k, BlockFor(q)) /\ OnlyDiffer({i, k})
    BY <1>1, <1>6 DEF Rejecting
  <2>2. /\ SameContactRows /\ \A j \in InviteId \ {i} : draft[j] = db[j]
        /\ \A l \in BlockId \ {k} : draft[l] = db[l]
    BY <1>2, <2>1, KeysAreIds DEF OnlyDiffer, SameContactRows
  <2>3. draft[k] # Absent
    BY <1>2, <2>1, AbsentIsNoRow DEF New, BlockFor, BlockRow
  <2>4. OneMoreBars(q.a, q.b)
    BY <1>2, <2>1, <2>2, <2>3, NewBlock DEF New, BlockFor
  <2>5. QED
    BY <1>2, <1>4, <2>2, <2>4 DEF Lands, GraphMove, RejectsAndBlocks, Answers
<1>7. QED
  BY <1>5, <1>6

\* Removing rows takes them from no invite.
LEMMA RemovalsKeepAnswers ==
    ASSUME IInv, Answered(db), NEW u \in User, NEW K \in SUBSET ContactId,
           \A c \in K : db[c] # Absent /\ draft[c] = RemovedBy(u, db[c]),
           \A c \in ContactId \ K : draft[c] = db[c],
           \A i \in InviteId : draft[i] = db[i]
    PROVE  Answered(draft) /\ \A c \in K : draft[c].removedBy # NoUser
<1>1. ASSUME NEW c \in K
      PROVE  /\ draft[c] # Absent /\ db[c] # Absent /\ draft[c].invite = db[c].invite
             /\ draft[c].removedBy = u
  <2>1. db[c] \in ContactRow
    BY TypedRows DEF IInv, TypeOK
  <2>2. draft[c] \in ContactRow /\ draft[c].invite = db[c].invite /\ draft[c].removedBy = u
    BY <2>1 DEF RemovedBy, ContactRow
  <2>3. QED
    BY <2>2, AbsentIsNoRow
<1>2. \A i : ContactsOf(draft, i) = ContactsOf(db, i)
  <2>1. \A c \in ContactId : /\ draft[c] = Absent <=> db[c] = Absent
                             /\ db[c] # Absent => draft[c].invite = db[c].invite
    BY <1>1
  <2>2. QED
    BY <2>1, SameOrigins
<1>3. Answered(draft)
  BY <1>2 DEF Answered
<1>4. QED
  BY <1>1, <1>3, AdminsAreUsers

LEMMA BlockUserLands ==
    ASSUME NEW r \in Request, SerialInv(r), Alone(r), commit(r), req[r].op = "blockUser"
    PROVE  Lands(r)
<1> DEFINE q == req[r]
           K == Between(db, q.a, q.b)
<1>1. /\ IInv /\ Answered(db) /\ BlockingUser(q) /\ q.pc = 5
      /\ q.a \in User /\ q.b \in User /\ q.caller \in User
      /\ q.a # q.b /\ ~Bars(db, q.a, q.b)
  <2>1. BlockingUser(q) /\ q.a # q.b /\ (q.pc > 1 => ~Bars(db, q.a, q.b))
    BY DEF SerialInv, Written, Checked
  <2>2. IInv /\ Answered(db)
    BY DEF SerialInv, GoodGraph
  <2>3. q.pc = 5
    BY CommitShowsDraft, ScriptLengths
  <2>4. QED
    BY <2>1, <2>2, <2>3, AboutUsers
<1>2. PICK k \in BlockId : New(k, BlockFor(q)) /\ Removed(q, K) /\ OnlyDiffer({k} \cup K)
  <2>1. q.pc > 2 /\ ~(q.pc <= 2) /\ ~(q.pc <= 4)
    BY <1>1
  <2>2. QED
    BY <1>1, <2>1 DEF BlockingUser
<1>3. K \subseteq ContactId /\ \A c \in K : db[c] # Absent
  BY DEF Between, ActiveContact
<1> HIDE DEF K
<1>4. /\ \A c \in ContactId \ K : draft[c] = db[c]
      /\ \A i \in InviteId : draft[i] = db[i]
      /\ \A l \in BlockId \ {k} : draft[l] = db[l]
  BY <1>2, <1>3, KeysAreIds DEF OnlyDiffer
<1>5. draft[k] # Absent
  BY <1>1, <1>2, AbsentIsNoRow DEF New, BlockFor, BlockRow
<1>6. Answered(draft) /\ \A c \in K : draft[c].removedBy # NoUser
  BY <1>1, <1>2, <1>3, <1>4, RemovalsKeepAnswers DEF Removed
<1>7. OneMoreBars(q.a, q.b)
  BY <1>1, <1>2, <1>4, <1>5, NewBlock DEF New, BlockFor
<1>8. OneLessPair(q.a, q.b) /\ SameWaits
  BY <1>1, <1>4, <1>6, EndedContact, UntouchedTables DEF K
<1>9. AnswersStand
  BY <1>4 DEF AnswersStand
<1>10. QED
  BY <1>1, <1>6, <1>7, <1>8, <1>9 DEF Lands, GraphMove, Blocks

LEMMA UnblockUserLands ==
    ASSUME NEW r \in Request, SerialInv(r), Alone(r), commit(r), req[r].op = "unblockUser"
    PROVE  Lands(r)
<1> DEFINE q == req[r]
           K == Blocking(db, q.a, q.b)
<1>1. /\ IInv /\ Answered(db) /\ Unblocking(q) /\ q.pc = 3
      /\ q.a \in User /\ q.b \in User /\ q.caller \in User /\ q.a # q.b
  <2>1. Unblocking(q) /\ q.a # q.b
    BY DEF SerialInv, Written, Checked
  <2>2. IInv /\ Answered(db)
    BY DEF SerialInv, GoodGraph
  <2>3. q.pc = 3
    BY CommitShowsDraft, ScriptLengths
  <2>4. QED
    BY <2>1, <2>2, <2>3, AboutUsers
<1>2. K # {} /\ Removed(q, K) /\ OnlyDiffer(K)
  BY <1>1 DEF Unblocking
<1>3. K \subseteq BlockId /\ \A k \in K : db[k] # Absent
  BY DEF Blocking, ActiveBlock
<1>4. Bars(db, q.a, q.b)
  BY <1>2 DEF Bars, Blocking
<1> HIDE DEF K
<1>5. /\ SameContactRows
      /\ \A i \in InviteId : draft[i] = db[i]
      /\ \A k \in BlockId \ K : draft[k] = db[k]
  BY <1>2, <1>3, KeysAreIds DEF OnlyDiffer, SameContactRows
<1>6. \A k \in K : draft[k].removedBy # NoUser
  <2>1. ASSUME NEW k \in K
        PROVE  draft[k].removedBy = q.caller
    <3>1. db[k] \in BlockRow
      BY <1>1, <1>3, TypedRows DEF IInv, TypeOK
    <3>2. QED
      BY <1>2, <3>1 DEF Removed, RemovedBy, BlockRow
  <2>2. QED
    BY <1>1, <2>1, AdminsAreUsers
<1>7. OneLessBars(q.a, q.b) /\ SameWaits /\ SameFriendships
  BY <1>1, <1>5, <1>6, LiftedBlock, UntouchedTables DEF K
<1>8. Answered(draft)
  BY <1>1, <1>5, AnswersStay
<1>9. AnswersStand
  BY <1>5 DEF AnswersStand
<1>10. QED
  BY <1>1, <1>4, <1>7, <1>8, <1>9 DEF Lands, GraphMove, Unblocks

LEMMA DeleteContactLands ==
    ASSUME NEW r \in Request, SerialInv(r), Alone(r), commit(r), req[r].op = "deleteContact"
    PROVE  Lands(r)
<1> DEFINE q == req[r]
           reverse == {c \in ContactId : ActiveContact(db[c], q.b, q.a)}
           K == Between(db, q.a, q.b)
<1>1. /\ IInv /\ Answered(db) /\ Deleting(q) /\ q.pc = 4
      /\ q.a \in User /\ q.b \in User /\ q.caller \in User
      /\ q.row \in ContactId /\ ActiveContact(db[q.row], q.a, q.b)
  <2>1. Deleting(q) /\ db[q.row].removedBy = NoUser
    BY DEF SerialInv, Written, Checked
  <2>2. IInv /\ Answered(db)
    BY DEF SerialInv, GoodGraph
  <2>3. q.pc = 4
    BY CommitShowsDraft, ScriptLengths
  <2>4. QED
    BY <2>1, <2>2, <2>3, AboutUsers DEF ActiveContact
<1>2. Removed(q, {q.row} \cup reverse) /\ OnlyDiffer({q.row} \cup reverse)
  <2>1. q.pc > 1 /\ q.pc # 1 /\ ~(q.pc <= 3)
    BY <1>1
  <2>2. QED
    BY <1>1, <2>1 DEF Deleting, Removed
<1>3. K = {q.row} \cup reverse
  BY <1>1 DEF IInv, UniqueRows, Between
<1>4. K \subseteq ContactId /\ \A c \in K : db[c] # Absent
  BY DEF Between, ActiveContact
<1>5. Removed(q, K) /\ OnlyDiffer(K)
  BY <1>2, <1>3
<1> HIDE DEF K
<1>6. /\ \A c \in ContactId \ K : draft[c] = db[c]
      /\ \A i \in InviteId : draft[i] = db[i]
      /\ \A k \in BlockId : draft[k] = db[k]
  BY <1>4, <1>5, KeysAreIds DEF OnlyDiffer
<1>7. Answered(draft) /\ \A c \in K : draft[c].removedBy # NoUser
  BY <1>1, <1>4, <1>5, <1>6, RemovalsKeepAnswers DEF Removed
<1>8. OneLessPair(q.a, q.b) /\ SameWaits /\ SameBars
  BY <1>1, <1>6, <1>7, EndedContact, UntouchedTables DEF K
<1>9. Friend(db, q.a, q.b)
  BY <1>1 DEF Friend
<1>10. AnswersStand
  BY <1>6 DEF AnswersStand
<1>11. QED
  BY <1>7, <1>8, <1>9, <1>10 DEF Lands, GraphMove, Unfriends

\* A commit is a step of the social graph and leaves it in order.
LEMMA CommitLands ==
    ASSUME NEW r \in Request, SerialInv(r), Alone(r), commit(r)
    PROVE  /\ db' = draft /\ draft' = draft /\ req'[r] = Idle
           /\ GoodGraph(draft) /\ AnswersStand /\ Graph!GraphNext
<1>1. /\ db' = draft /\ draft' = draft /\ req'[r] = Idle
      /\ req[r].op \in Op \ {"none"}
  BY CommitShowsDraft
<1>2. Lands(r)
  BY <1>1, OpsAre, CreateInviteLands, AcceptInviteLands, RejectLands, BlockUserLands,
     UnblockUserLands, DeleteContactLands
<1>3. IInv /\ GoodGraph(db) /\ req[r].a \in User /\ req[r].b \in User
  BY <1>1, AboutUsers DEF SerialInv
<1>4. GoodGraph(draft)
  BY <1>2, <1>3, StepsKeepOrder DEF Lands, GoodGraph
<1>5. Graph!GraphNext
  BY <1>1, <1>2, <1>3, StepsAreGraphSteps DEF Lands
<1>6. QED
  BY <1>1, <1>2, <1>4, <1>5 DEF Lands

-------------------------------------------------------------------------------
(* The invariant of a request alone.                                         *)

LEMMA GraphUnchanged ==
    ASSUME GoodGraph(db), db' = db
    PROVE  GoodGraph(db)'
BY DEF GoodGraph, Symmetric, FriendsFree, OneWay, Answered, Unbarred, Friend, Bars, Waits, ContactsOf

LEMMA IdleIsInOrder ==
    ASSUME NEW r \in Request, req'[r] = Idle, draft' = db'
    PROVE  Checked(req[r])' /\ Written(req[r])'
BY DEF Checked, Written, OnlyDiffer, Idle, Answering

LEMMA StartIsInOrder ==
    ASSUME NEW r \in Request, IInv, OnlyDiffer({}), NEW op, NEW caller, NEW a, NEW b, NEW row,
           Start(r, op, caller, a, b, row),
           op \in {"blockUser", "unblockUser"} => a # b,
           op = "deleteContact" => db[row].removedBy = NoUser
    PROVE  /\ db' = db
           /\ Checked(req[r])' /\ Written(req[r])'
<1>1. /\ db' = db /\ draft' = draft
      /\ req'[r].op = op /\ req'[r].pc = 1 /\ req'[r].a = a /\ req'[r].b = b
      /\ req'[r].row = row
  BY DEF Start, tables, IInv, TypeOK
<1>2. OnlyDiffer({})'
  BY <1>1 DEF OnlyDiffer
<1>3. Checked(req[r])'
  BY <1>1 DEF Checked, Invitable, Answerable, CleanPair
<1>4. Written(req[r])'
  BY <1>1, <1>2 DEF Written, Inviting, Accepting, Rejecting, BlockingUser, Unblocking, Deleting
<1>5. QED
  BY <1>1, <1>3, <1>4

LEMMA BeginIsInOrder ==
    ASSUME NEW r \in Request, IInv, Written(req[r]), Begin(r)
    PROVE  db' = db /\ Checked(req[r])' /\ Written(req[r])'
<1>1. req[r].op = "none"
  BY DEF Begin, createInvite, acceptInvite, rejectInvite, rejectInviteAndBlockUser, blockUser,
         unblockUser, deleteContact, Start
<1>2. OnlyDiffer({})
  BY <1>1 DEF Written
<1>3. CASE createInvite(r)
  BY <1>2, <1>3, StartIsInOrder DEF createInvite
<1>4. CASE acceptInvite(r)
  BY <1>2, <1>4, StartIsInOrder DEF acceptInvite
<1>5. CASE rejectInvite(r)
  BY <1>2, <1>5, StartIsInOrder DEF rejectInvite
<1>6. CASE rejectInviteAndBlockUser(r)
  BY <1>2, <1>6, StartIsInOrder DEF rejectInviteAndBlockUser
<1>7. CASE blockUser(r)
  BY <1>2, <1>7, StartIsInOrder DEF blockUser
<1>8. CASE unblockUser(r)
  BY <1>2, <1>8, StartIsInOrder DEF unblockUser
<1>9. CASE deleteContact(r)
  BY <1>2, <1>9, StartIsInOrder DEF deleteContact
<1>10. QED
  BY <1>3, <1>4, <1>5, <1>6, <1>7, <1>8, <1>9 DEF Begin

LEMMA ThrowIsInOrder ==
    ASSUME NEW r \in Request, IInv, Alone(r), Throw(r)
    PROVE  db' = db /\ Checked(req[r])' /\ Written(req[r])'
<1>1. db' = db /\ req'[r] = Idle
  BY DEF Throw, RollbackTx, IInv, TypeOK
<1>2. draft' = db'
  <2>1. \A k \in Key : holder[k] \in {r, NoRequest}
    BY DEF IInv, TypeOK, Alone
  <2>2. \A k \in Key : holder[k] # r => draft[k] = db[k]
    BY <2>1 DEF IInv, Versions
  <2>3. draft' = [k \in Key |-> db[k]]
    BY <2>2 DEF Throw, RollbackTx
  <2>4. db = [k \in Key |-> db[k]]
    BY DEF IInv, TypeOK, Versioned
  <2>5. QED
    BY <1>1, <2>3, <2>4
<1>3. QED
  BY <1>1, <1>2, IdleIsInOrder

\* A step of the request alone keeps the graph in order, and is a step of
\* SocialGraph or leaves the committed rows alone.
LEMMA StepInOrder ==
    ASSUME NEW r \in Request, SerialInv(r), Alone(r), Begin(r) \/ Run(r) \/ Abort(r)
    PROVE  /\ GoodGraph(db)' /\ Checked(req[r])' /\ Written(req[r])'
           /\ db' = db \/ Graph!GraphNext
<1>1. IInv /\ GoodGraph(db) /\ Written(req[r])
  BY DEF SerialInv
<1>2. CASE Begin(r)
  BY <1>1, <1>2, BeginIsInOrder, GraphUnchanged
<1>3. CASE Throw(r)
  BY <1>1, <1>3, ThrowIsInOrder, GraphUnchanged
<1>4. CASE commit(r)
  <2>1. /\ db' = draft /\ draft' = draft /\ req'[r] = Idle
        /\ GoodGraph(draft) /\ Graph!GraphNext
    BY <1>4, CommitLands
  <2>2. GoodGraph(db)'
    BY <2>1 DEF GoodGraph, Symmetric, FriendsFree, OneWay, Answered, Unbarred, Friend, Bars, Waits,
                ContactsOf
  <2>3. QED
    BY <2>1, <2>2, IdleIsInOrder
<1>5. CASE Run(r) /\ ~Throw(r) /\ ~commit(r)
  <2>1. req[r].op # "none"
    <3>1. RunsStatement(r) /\ req[r].pc \in 1..Len(Script[req[r].op])
      BY <1>1, <1>5, RunIs, Scripted
    <3>2. QED
      BY <3>1 DEF RunsStatement, At, Current, Script
  <2>2. req[r].op \in Op
    BY <1>1 DEF IInv, TypeOK, RequestState
  <2>3. Continues(r)
    BY <1>5, <2>1, <2>2, OpsAre, CreateInviteContinues, AcceptContinues, RejectContinues,
       BlockUserContinues, UnblockUserContinues, DeleteContactContinues
  <2>4. QED
    BY <1>1, <2>3, GraphUnchanged DEF Continues, Goes
<1>6. QED
  BY <1>2, <1>3, <1>4, <1>5 DEF Abort

LEMMA InitialSerial ==
    ASSUME NEW r \in Request, Init
    PROVE  SerialInv(r)
<1>1. \A k \in Key : db[k] = Absent /\ draft[k] = Absent
  BY DEF Init, TablesInit
<1>2. IInv
  BY InitialIInv
<1>3. GoodGraph(db)
  <2>1. \A i \in InviteId : db[i] = Absent
    BY <1>1, KeysAreIds
  <2>2. \A c \in ContactId : db[c] = Absent
    BY <1>1, KeysAreIds
  <2>3. QED
    BY <2>1, <2>2 DEF GoodGraph, Symmetric, FriendsFree, OneWay, Answered, Friend, Waits,
                      ActiveContact, PendingInvite
<1>4. req[r].op = "none"
  BY DEF Init, Idle
<1>5. Checked(req[r]) /\ Written(req[r])
  BY <1>1, <1>4 DEF Checked, Written, OnlyDiffer, Answering
<1>6. QED
  BY <1>2, <1>3, <1>5 DEF SerialInv

LEMMA NextKeepsSerial ==
    ASSUME NEW r \in Request, Alone(r), SerialInv(r), [Next]_vars
    PROVE  SerialInv(r)' /\ (db' = db \/ Graph!GraphNext)
<1>1. IInv'
  BY NextKeepsIInv DEF SerialInv
<1>2. CASE Next
  <2>1. Begin(r) \/ Run(r) \/ Abort(r)
    BY <1>2 DEF Next, Alone
  <2>2. QED
    BY <1>1, <2>1, StepInOrder DEF SerialInv
<1>3. CASE UNCHANGED vars
  <2>1. db' = db /\ draft' = draft /\ req' = req
    BY <1>3 DEF vars
  <2>2. GoodGraph(db)'
    BY <2>1, GraphUnchanged DEF SerialInv
  <2>3. Checked(req[r])'
    BY <2>1 DEF SerialInv, Checked, Invitable, Answerable, CleanPair, Friend, Waits, Bars
  <2>4. Written(req[r])'
    BY <2>1 DEF SerialInv, Written, OnlyDiffer, New, Removed, Inviting, Accepting, Rejecting,
                BlockingUser, Unblocking, Deleting, Between
  <2>5. QED
    BY <1>1, <2>1, <2>2, <2>3, <2>4 DEF SerialInv
<1>4. QED
  BY <1>2, <1>3

-------------------------------------------------------------------------------
(* The theorems: what requests that do not overlap keep.                     *)

\* The inductive invariant: the graph is in order, and the request that runs
\* has checked and written what its script says.
THEOREM SerialInvariantHolds ==
    ASSUME NEW r \in Request, Alone(r)
    PROVE  Spec => []SerialInv(r)
<1>1. Init => SerialInv(r)
  BY InitialSerial
<1>2. SerialInv(r) /\ [Next]_vars => SerialInv(r)'
  BY NextKeepsSerial
<1>3. QED
  BY <1>1, <1>2, PTL DEF Spec

\* blockUser and rejectInviteAndBlockUser leave no contact across the block
\* they make, and acceptInvite makes none across a block that is there.
THEOREM BlocksPartContacts ==
    ASSUME NEW r \in Request, Alone(r)
    PROVE  Spec => []NoContactAcrossBlock
<1>1. SerialInv(r) => NoContactAcrossBlock
  BY DEF SerialInv, GoodGraph, FriendsFree, Unbarred, Friend, Bars, NoContactAcrossBlock
<1>2. QED
  BY <1>1, SerialInvariantHolds, PTL

\* acceptInvite inserts both rows of a pair, and deleteContact and
\* removeContactPairByUserIds remove both.
THEOREM ContactsStaySymmetric ==
    ASSUME NEW r \in Request, Alone(r)
    PROVE  Spec => []SymmetricContacts
<1>1. SerialInv(r) => SymmetricContacts
  BY DEF SerialInv, GoodGraph, Symmetric, Friend, SymmetricContacts
<1>2. QED
  BY <1>1, SerialInvariantHolds, PTL

\* createInvite looks for an open invite in both directions before it inserts
\* one.
THEOREM OneInviteIsOpen ==
    ASSUME NEW r \in Request, Alone(r)
    PROVE  Spec => []OneOpenInviteBetween
<1>1. SerialInv(r) => OneOpenInviteBetween
  <2> SUFFICES ASSUME SerialInv(r), NEW a \in User, NEW b \in User,
                      NEW i \in InviteId, NEW j \in InviteId,
                      PendingInvite(db[i], a, b), PendingInvite(db[j], b, a)
               PROVE  i = j
    BY DEF OneOpenInviteBetween
  <2>1. Waits(db, a, b) /\ Waits(db, b, a)
    BY DEF Waits
  <2>2. a = b
    BY <2>1 DEF SerialInv, GoodGraph, OneWay
  <2>3. QED
    BY <2>2 DEF SerialInv, IInv, UniqueRows
<1>2. QED
  BY <1>1, SerialInvariantHolds, PTL

\* acceptInvite makes exactly one pair of contacts, and no other mutation
\* makes any.
THEOREM AcceptedInvitesHavePairs ==
    ASSUME NEW r \in Request, Alone(r)
    PROVE  Spec => []ContactsIffAccepted
<1>1. SerialInv(r) => ContactsIffAccepted
  <2> SUFFICES ASSUME SerialInv(r), NEW i \in InviteId, db[i] # Absent
               PROVE  Cardinality(ContactsOf(db, i)) = IF db[i].status = "ACCEPTED" THEN 2 ELSE 0
    BY DEF ContactsIffAccepted, ContactsOf
  <2>1. IF db[i].status = "ACCEPTED"
        THEN \E c, d \in ContactId : c # d /\ ContactsOf(db, i) = {c, d}
        ELSE ContactsOf(db, i) = {}
    BY DEF SerialInv, GoodGraph, Answered
  <2>2. CASE db[i].status = "ACCEPTED"
    <3>1. PICK c, d \in ContactId : c # d /\ ContactsOf(db, i) = {c, d}
      BY <2>1, <2>2
    <3>2. IsFiniteSet({c}) /\ Cardinality({c}) = 1
      BY FS_Singleton
    <3>3. Cardinality({c} \cup {d}) = 2
      <4>1. Cardinality({c} \cup {d}) = Cardinality({c}) + 1
        BY <3>1, <3>2, FS_AddElement, Zenon
      <4>2. QED
        BY <3>2, <4>1
    <3>4. {c} \cup {d} = {c, d}
      OBVIOUS
    <3>5. QED
      BY <2>2, <3>1, <3>3, <3>4
  <2>3. CASE db[i].status # "ACCEPTED"
    BY <2>1, <2>3, FS_EmptySet
  <2>4. QED
    BY <2>2, <2>3
<1>2. QED
  BY <1>1, SerialInvariantHolds, PTL

\* setInviteAccepted and setInviteRejected update by primary key without
\* looking at the status; validateInviteIsPending, some statements before, is
\* what keeps an answer from being replaced.
THEOREM AnswersAreFinal ==
    ASSUME NEW r \in Request, Alone(r)
    PROVE  Spec => AnswerIsFinal
<1> DEFINE Final == \A i \in InviteId :
                        db[i] # Absent /\ db[i].status # "PENDING" => db'[i] = db[i]
<1>1. SerialInv(r) /\ [Next]_vars => [Final]_db
  <2> SUFFICES ASSUME SerialInv(r), [Next]_vars, db' # db
               PROVE  Final
    OBVIOUS
  <2>1. Begin(r) \/ Run(r) \/ Abort(r)
    BY DEF Next, vars, Alone
  <2>2. commit(r)
    <3>1. Kinds(r)
      BY <2>1, Classified DEF SerialInv, IInv, Basics
    <3>2. QED
      BY <3>1, OnlyCommitsShow
  <2>3. db' = draft /\ AnswersStand
    BY <2>2, CommitLands
  <2>4. QED
    BY <2>3 DEF AnswersStand
<1>2. QED
  BY <1>1, SerialInvariantHolds, PTL DEF Spec, AnswerIsFinal

\* Requests that do not overlap implement SocialGraph: a commit is one step of
\* it, and no other step shows.
THEOREM ContactsImplementGraph ==
    ASSUME NEW r \in Request, Alone(r)
    PROVE  Spec => ImplementsGraph
<1>1. Init => Graph!GraphInit
  <2> SUFFICES ASSUME Init
               PROVE  Graph!GraphInit
    OBVIOUS
  <2>1. \A k \in Key : db[k] = Absent
    BY DEF Init, TablesInit
  <2>2. QED
    BY <2>1, KeysAreIds DEF Graph!GraphInit
<1>2. SerialInv(r) /\ [Next]_vars => [Graph!GraphNext]_(Graph!graph)
  <2> SUFFICES ASSUME SerialInv(r), [Next]_vars
               PROVE  Graph!GraphNext \/ UNCHANGED Graph!graph
    OBVIOUS
  <2>1. db' = db \/ Graph!GraphNext
    BY NextKeepsSerial
  <2>2. db' = db => UNCHANGED Graph!graph
    BY DEF Graph!graph
  <2>3. QED
    BY <2>1, <2>2
<1>3. QED
  BY <1>1, <1>2, SerialInvariantHolds, PTL DEF Spec, ImplementsGraph, Graph!GraphSpec
===============================================================================
