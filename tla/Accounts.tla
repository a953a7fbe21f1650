------------------------------- MODULE Accounts -------------------------------
(***************************************************************************)
(* User accounts: registration, profile, ban and deletion (src/src/user),  *)
(* confirmation of the e-mail address (confirm-email, resend-email),       *)
(* password reset (reset-password), invites by e-mail, which make ghost    *)
(* users (contact/email-invite), what the other invites (contact/invite)   *)
(* do to ghosts and their invites, and the sessions of users (auth).       *)
(*                                                                         *)
(* Mutations and e-mail invites execute in a transaction, as in Contacts,  *)
(* which has what becomes of contacts and blocks: here they only refuse.   *)
(* Login, refresh, logout, confirmation and reset have none: each of their *)
(* statements commits at once.  A link is in the mail from the moment it   *)
(* is sent, whatever becomes of the transaction that sent it.              *)
(***************************************************************************)
EXTENDS ReadCommitted, Tokens, Naturals, FiniteSets, Bags, TLC

CONSTANTS
    UserId, InviteId,   \* primary keys: the bounds on the rows ever inserted
    Address,            \* e-mail addresses in lower case
    Lower, Untagged,    \* [Typed -> Address], [Address -> Address]: toLowerCase, without +tag
    Password,
    Null, Gone,         \* SQL null; the version of a row that was deleted
    Worlds,             \* the situations behaviours start in: rows, links, sessions, blocks
                        \* between users, the way addresses are confirmed, the requests sent
    MaxExpired,         \* the bound on tokens that expire
    MaxRequests         \* the bound on requests ever sent

Typed == DOMAIN Lower    \* addresses as clients type them
ContactKey == UserId \X UserId
Code == Nat
GhostEmail == UserId \X Address    \* the hash of inviter and address
Random == "random"                 \* a password nobody knows
Kind == {"confirm", "reset", "invite"}

VARIABLES
    req,         \* [Request -> what the handler running in that slot knows]
    links,       \* the links mailed to users or handed to them
    codes,       \* how many temporary codes were made: each is a new uuid
    world,       \* the situation this behaviour started in
    overlapped,  \* whether two requests ever were in progress at once
    sent,        \* how many requests were sent
    proven,      \* the <<user, address>> for which somebody followed a link mailed there
    byHand,      \* the users somebody updated, the invites made or answered without a mail
    spent,       \* the bag of one-time codes, invites and refresh tokens that were taken
    ended        \* the tokens that a finished logout or refresh was to end

ghostVars == <<world, overlapped, sent, proven, byHand, spent, ended>>
vars == <<tables, tokenVars, req, links, codes, ghostVars>>

UserRow == [email : Address \cup GhostEmail, password : Password \cup {Random},
            confirmCode : Code \cup {Null}, resetCode : Code \cup {Null}, banned : BOOLEAN]
InviteRow == [inviter : UserId, invitee : UserId,
              status : {"PENDING", "ACCEPTED", "REJECTED"}]
ContactRow == [invite : InviteId]
Link == [kind : Kind, user : UserId, code : Code \cup {Null}, to : Address \cup GhostEmail,
         invite : InviteId \cup {Null}, resetCode : Code \cup {Null}]

Exists(version) == version \notin {Absent, Gone}

RowsTyped(t) ==
    /\ \A u \in UserId : Exists(t[u]) => t[u] \in UserRow
    /\ \A i \in InviteId : Exists(t[i]) => t[i] \in InviteRow
    /\ \A k \in ContactKey : Exists(t[k]) => t[k] \in ContactRow

Signers(t, sessions) ==
    \A s \in Session : sessions[s] # Nobody => sessions[s] \in UserId /\ t[sessions[s]] # Absent

\* The rows a world begins with.
Populated(w) ==
    [k \in Key |-> IF k \in DOMAIN Worlds[w].users THEN Worlds[w].users[k] ELSE Absent]

\* Codes up to n were made, each for one user.
CodesAreUnique(t, n) ==
    \A u \in UserId : Exists(t[u]) =>
        /\ {t[u].confirmCode, t[u].resetCode} \subseteq 0..n \cup {Null}
        /\ \A v \in UserId \ {u} : Exists(t[v]) =>
              /\ t[u].confirmCode = Null \/ t[u].confirmCode # t[v].confirmCode
              /\ t[u].resetCode = Null \/ t[u].resetCode # t[v].resetCode

Works(t, l) == Exists(t[l.user]) /\ t[l.user].confirmCode = l.code
Waiting(version) == Exists(version) /\ version.status = "PENDING"
\* A link that works is about the address it was mailed to, or about the invite
\* that waits for the ghost it names.
ConfirmsMailed(t, l) == l.kind = "confirm" /\ Works(t, l) => t[l.user].email = l.to
NamesItsInvite(t, l) ==
    l.kind = "invite" /\ Works(t, l) =>
        t[l.invite] # Absent /\ (Waiting(t[l.invite]) => t[l.invite].invitee = l.user)
\* Links for reset may be without a code.
LinksCoded(mail, n) == \A l \in mail : l.kind \in {"confirm", "invite"} => l.code \in 0..n

\* Users who are confirmed have followed a link mailed to their address.
ConfirmedAreProven(t, reached) ==
    \A u \in UserId : Exists(t[u]) /\ t[u].confirmCode = Null => <<u, t[u].email>> \in reached

ASSUME AccountKeys ==
    /\ Key = UserId \cup InviteId \cup ContactKey
    /\ UserId \cap InviteId = {} /\ ContactKey \cap (UserId \cup InviteId) = {}
ASSUME MissingRowsAreNoRows ==
    Absent # Gone /\ {Absent, Gone} \cap (UserRow \cup InviteRow \cup ContactRow) = {}
ASSUME Addresses ==
    /\ Lower \in [Typed -> Address] /\ Untagged \in [Address -> Address]
    /\ \A e \in Typed \cap Address : Lower[e] = e
    /\ (Typed \cup Address) \cap GhostEmail = {}
ASSUME NullIsNoCode == Null \notin Code
ASSUME WorldsAreTyped ==
    \A w \in DOMAIN Worlds :
        LET start == Worlds[w]
        IN /\ RowsTyped(Populated(w))
           /\ DOMAIN start.sessions = Session /\ Signers(Populated(w), start.sessions)
           /\ start.links \subseteq Link /\ start.codes \in Code
           /\ \A l \in start.links : l.kind = "invite" => l.invite \in InviteId
           /\ start.passwords \subseteq Password
ASSUME WorldsAreSound ==
    \A w \in DOMAIN Worlds :
        LET start == Worlds[w]
            rows == Populated(w)
        IN /\ CodesAreUnique(rows, start.codes) /\ LinksCoded(start.links, start.codes)
           /\ \A l \in start.links : ConfirmsMailed(rows, l) /\ NamesItsInvite(rows, l)
           /\ start.strategy = "manual" \/ start.strategy = "auto"
           /\ start.strategy = "manual" => ConfirmedAreProven(rows, start.proven)

\* The statements of each handler in the order the code awaits them.
Script == [
    none |-> <<"idle">>,
    createUser |-> <<"checkEmailFree", "insertUser", "setConfirmCode", "mailConfirm", "commit">>,
    updateUser |-> <<"readUser", "setUser", "commit">>,
    changeEmail |-> <<"setConfirmCode", "mailConfirm", "commit">>,
    deleteUser |-> <<"dropUser", "commit">>,
    banUser |-> <<"setBanned", "commit">>,
    unbanUser |-> <<"setBanned", "commit">>,
    resendConfirmEmail |-> <<"readUnconfirmed", "renewConfirmCode", "mailConfirm", "done">>,
    confirmEmail |-> <<"checkConfirmCode", "clearConfirmCode">>,
    forgotPassword |-> <<"findActive", "renewResetCode", "mailReset", "done">>,
    resendForgotPasswordEmail |-> <<"findActive", "mailReset", "done">>,
    resetPassword |-> <<"checkResetCode", "setPassword">>,
    createInviteByEmail |-> <<"checkNoGhost", "findInvitee", "insertGhost", "insertInvite",
                              "mailInvite", "commit">>,
    acceptEmailInvite |-> <<"readGhost", "readInvite", "findRealUser">>,
    createInvite |-> <<"validateCreateInvite", "insertInvite", "commit">>,
    acceptInvite |-> <<"validateAnswer", "answerInvite", "insertContacts", "commit">>,
    rejectInvite |-> <<"validateAnswer", "answerInvite", "commit">>,
    acceptByRealUser |-> <<"validateCreateInvite", "redirectInvite", "insertContacts",
                           "deleteGhost", "commit">>,
    acceptByGhost |-> <<"becomeUser", "setInviteAccepted", "insertContacts", "commit">>,
    rejectEmailInvite |-> <<"readGhost", "readInvite", "deleteGhost", "commit">>,
    login |-> <<"authenticate", "deliver">>,
    refreshToken |-> <<"verifyRefreshToken", "authenticateUser", "invalidateAccessToken",
                       "invalidateRefreshToken", "deliver">>,
    logout |-> <<"AuthGuard", "verifyRefreshToken", "invalidateRefreshToken",
                 "invalidateAccessToken", "done">>,
    query |-> <<"AuthGuard", "done">>]

Op == DOMAIN Script

\* arg is the argument of the request, seen the row its pipe read, got what the
\* last statement read or returned, user and invite the rows it is about; access
\* and refresh are the sessions of the tokens it carries; late are those of these
\* tokens that had ended before it began.
Idle == [op |-> "none", pc |-> 1, arg |-> Null, seen |-> Null, got |-> Null,
         user |-> Null, invite |-> Null, access |-> Null, refresh |-> Null, late |-> {}]

At(r, statement) == Script[req[r].op][req[r].pc] = statement

-------------------------------------------------------------------------------
(* Statements.                                                               *)

Parents(k, row) ==
    CASE k \in InviteId -> {row.inviter, row.invitee}
      [] k \in ContactKey -> {k[1], k[2], row.invite}
      [] OTHER -> {}

\* The rows of t that the deletion of row k takes with it.
Family(t, k) ==
    LET Of(K) == {c \in Key : Exists(t[c]) /\ Parents(c, t[c]) \cap K # {}}
    IN {k} \cup Of({k}) \cup Of(Of({k}))
Deleted(k) == IF k \in ContactKey THEN Absent ELSE Gone

ParentsThere(t) == \A k \in Key : Exists(t[k]) => \A p \in Parents(k, t[k]) : Exists(t[p])

IsGhost(version) == Exists(version) /\ version.email \in GhostEmail
GhostOf(version, inviter) == IsGhost(version) /\ version.email[1] = inviter

\* Ghosts wait for the answer to the invite that made them, and such invites for the
\* answer of a ghost, one invite for each.  Left out are invites that were made or
\* answered by hand, and users whom somebody gave an address.
AwaitAnswer(t, hands) ==
    /\ \A g \in UserId :
          IsGhost(t[g]) /\ Exists(t[t[g].email[1]]) =>
            \E i \in InviteId : /\ Exists(t[i]) /\ t[i].invitee = g /\ t[i].inviter = t[g].email[1]
                                /\ Waiting(t[i]) \/ i \in hands
    /\ \A i \in InviteId \ hands :
          Waiting(t[i]) =>
            /\ GhostOf(t[t[i].invitee], t[i].inviter) \/ t[i].invitee \in hands
            /\ \A j \in InviteId \ (hands \cup {i}) : Waiting(t[j]) => t[j].invitee # t[i].invitee

\* Whoever invited a ghost was a user; a ghost was mailed the one invite it has.
ASSUME WorldsGoTogether ==
    \A w \in DOMAIN Worlds :
        LET rows == Populated(w)
        IN /\ ParentsThere(rows) /\ AwaitAnswer(rows, {})
           /\ \A g \in UserId : IsGhost(rows[g]) => rows[rows[g].email[1]] # Absent
           /\ \A l \in Worlds[w].links, i \in InviteId :
                 l.kind = "invite" /\ Waiting(rows[i]) /\ rows[i].invitee = l.user => i = l.invite

ByEmail(t, e) == {u \in UserId : Exists(t[u]) /\ t[u].email = e}
SameOpen(t, row) ==
    {i \in InviteId : Waiting(t[i]) /\ t[i].inviter = row.inviter /\ t[i].invitee = row.invitee}
OpenIn(rows) == {rows[k] : k \in {k \in DOMAIN rows \cap InviteId : Waiting(rows[k])}}
EmailsOf(rows) == {rows[k].email : k \in {k \in DOMAIN rows \cap UserId : Exists(rows[k])}}

WaitsFor(r, rows) ==
    LET kept == {k \in DOMAIN rows : Exists(rows[k])}
        parents == UNION {Parents(k, rows[k]) : k \in kept}
        children == UNION {Family(draft, k) : k \in DOMAIN rows \ kept}
        sameEmail == UNION {ByEmail(db, e) \cup ByEmail(draft, e) : e \in EmailsOf(rows)}
        sameInvite == UNION {SameOpen(db, row) \cup SameOpen(draft, row) : row \in OpenIn(rows)}
    IN Blockers(r, DOMAIN rows \cup children \cup sameEmail \cup sameInvite
                    \cup {k \in parents : draft[k] = Gone})

\* Foreign keys, the unique e-mail address and the one open invite from a user to another.
Legal(r, rows) ==
    /\ \A k \in DOMAIN rows : Exists(rows[k]) =>
            \A p \in Parents(k, rows[k]) : Exists(Visible(r)[p])
    /\ \A e \in EmailsOf(rows) : ByEmail(Visible(r), e) \subseteq DOMAIN rows
    /\ \A row \in OpenIn(rows) : SameOpen(Visible(r), row) \subseteq DOMAIN rows

Stay == UNCHANGED <<tokenVars, links, codes, ghostVars>>
NewCodes(n) == codes' = codes + n /\ UNCHANGED <<tokenVars, links, ghostVars>>
\* A one-time thing is taken.
Take(thing) ==
    /\ spent' = spent (+) SetToBag({thing})
    /\ UNCHANGED <<tokenVars, links, codes, world, overlapped, sent, proven, byHand, ended>>

\* The request ends with what it knows forgotten; a transaction is rolled back.
Throw(r) == RollbackTx(r) /\ Stay /\ req' = [req EXCEPT ![r] = Idle]

\* What the handlers know when a statement gave r's handler `got`.
Knows(r, got) == [req EXCEPT ![r].pc = @ + 1, ![r].got = got]
Goes(r) == Knows(r, req[r].got)

Read(r, statement, ok, got) ==
    /\ At(r, statement)
    /\ \/ ok /\ req' = Knows(r, got) /\ Stay /\ UNCHANGED tables
       \/ ~ok /\ Throw(r)

\* A write inside a transaction; done is what changes besides the rows and what
\* the handler knows.
Execute(r, statement, ok, rows, knows, done) ==
    /\ At(r, statement)
    /\ WaitsFor(r, rows) = {}
    /\ \/ ok /\ Legal(r, rows) /\ Put(r, rows) /\ req' = knows /\ done
       \/ ~(ok /\ Legal(r, rows)) /\ Throw(r)

\* A write outside any transaction commits at once.
ExecuteNow(r, statement, ok, rows, knows, done) ==
    /\ At(r, statement)
    /\ WaitsFor(r, rows) = {}
    /\ \/ /\ ok
          /\ db' = [k \in Key |-> IF k \in DOMAIN rows THEN rows[k] ELSE db[k]]
          /\ draft' = [k \in Key |-> IF k \in DOMAIN rows THEN rows[k] ELSE draft[k]]
          /\ UNCHANGED holder
          /\ req' = knows
          /\ done
       \/ ~ok /\ Throw(r)

One(k, row) == [x \in {k} |-> row]
Now(r) == Visible(r)[req[r].user]
\* What an UPDATE of row k to this version writes: nothing when it is gone.
SetRow(r, k, row) == [c \in {c \in {k} : Exists(Visible(r)[c])} |-> row]
Set(r, row) == SetRow(r, req[r].user, row)
\* The rows a DELETE of row k takes with it.
Dropped(r, k) == [c \in Family(Visible(r), k) |-> Deleted(c)]
Finished(r) == [req EXCEPT ![r] = Idle]

-------------------------------------------------------------------------------
(* The requests.                                                             *)

Carried(q) ==
    {<<q.access, "access">>, <<q.refresh, "refresh">>} \cap Token

\* reached are the <<user, address>> whose mail the client must have read.
Start(r, op, known, reached) ==
    /\ req[r].op = "none"
    /\ op \in Worlds[world].offered
    /\ sent < MaxRequests
    /\ sent' = sent + 1
    /\ overlapped' = (overlapped \/ \E s \in Request \ {r} : req[s].op # "none")
    /\ req' = [req EXCEPT ![r] = [known EXCEPT !.op = op, !.late = Carried(known) \cap ended]]
    /\ proven' = proven \cup reached
    /\ UNCHANGED <<tables, tokenVars, links, codes, world, byHand, spent, ended>>

Users == {u \in UserId : Exists(db[u])}
\* Nobody reads the mail of a ghost's placeholder.
Received(kind) == {l \in links : l.kind = kind /\ l.to \in Address}

Chosen == Worlds[world].passwords   \* the passwords clients choose or try

createUser(r) ==
    \E e \in Typed, p \in Chosen :
        Start(r, "createUser", [Idle EXCEPT !.arg = [email |-> e, password |-> p]], {})
\* Users act for themselves, an ADMIN for any user, a ghost included.
updateUser(r) ==
    \E u \in Users, e \in Typed, p \in Chosen :
        Start(r, "updateUser",
              [Idle EXCEPT !.user = u, !.arg = [email |-> e, password |-> p]], {})
deleteUser(r) ==
    \E u \in Users : Start(r, "deleteUser", [Idle EXCEPT !.user = u, !.seen = db[u]], {})
banUser(r) ==
    \E u \in Users :
        ~db[u].banned /\ Start(r, "banUser", [Idle EXCEPT !.user = u, !.arg = TRUE], {})
unbanUser(r) ==
    \E u \in Users :
        db[u].banned /\ Start(r, "unbanUser", [Idle EXCEPT !.user = u, !.arg = FALSE], {})

resendConfirmEmail(r) ==
    \E u \in Users : Start(r, "resendConfirmEmail", [Idle EXCEPT !.user = u], {})
confirmEmail(r) ==
    \E l \in Received("confirm") :
        Start(r, "confirmEmail", [Idle EXCEPT !.user = l.user, !.arg = l.code],
              {<<l.user, l.to>>})

forgotPassword(r) ==
    \E e \in Typed : Start(r, "forgotPassword", [Idle EXCEPT !.arg = e], {})
resendForgotPasswordEmail(r) ==
    \E e \in Typed : Start(r, "resendForgotPasswordEmail", [Idle EXCEPT !.arg = e], {})
resetPassword(r) ==
    \E l \in Received("reset"), p \in Chosen :
        Start(r, "resetPassword",
              [Idle EXCEPT !.user = l.user, !.arg = [code |-> l.code, password |-> p]], {})

createInviteByEmail(r) ==
    \E u \in Users, e \in Typed :
        Start(r, "createInviteByEmail",
              [Idle EXCEPT !.user = u, !.arg = Untagged[Lower[e]]], {})
FollowInvite(r, op) ==
    \E l \in Received("invite") :
        Start(r, op, [Idle EXCEPT !.user = l.user, !.invite = l.invite, !.arg = l],
              {<<l.user, l.to>>})
acceptEmailInvite(r) == FollowInvite(r, "acceptEmailInvite")
rejectEmailInvite(r) == FollowInvite(r, "rejectEmailInvite")

createInvite(r) ==
    \E a \in Users, b \in UserId :
        Start(r, "createInvite", [Idle EXCEPT !.got = [inviter |-> a, invitee |-> b]], {})
\* The invitee answers, or an ADMIN, who is let answer for a ghost too.
AnswerInvite(r, op) ==
    \E i \in InviteId : Exists(db[i]) /\ Start(r, op, [Idle EXCEPT !.invite = i], {})
acceptInvite(r) == AnswerInvite(r, "acceptInvite")
rejectInvite(r) == AnswerInvite(r, "rejectInvite")

login(r) ==
    \E e \in Typed, p \in Chosen :
        Start(r, "login", [Idle EXCEPT !.arg = [email |-> e, password |-> p]], {})
Sessions == {t[1] : t \in Signed}
refreshToken(r) ==
    \E s \in Sessions, a \in Sessions \cup {Null} :
        Start(r, "refreshToken", [Idle EXCEPT !.refresh = s, !.access = a], {})
logout(r) ==
    \E s \in Sessions, a \in Sessions \cup {Null} :
        Start(r, "logout", [Idle EXCEPT !.refresh = s, !.access = a], {})
\* Any request that is for users only.
query(r) == \E s \in Sessions : Start(r, "query", [Idle EXCEPT !.access = s], {})

Begin(r) ==
    \/ createUser(r) \/ updateUser(r) \/ deleteUser(r) \/ banUser(r) \/ unbanUser(r)
    \/ resendConfirmEmail(r) \/ confirmEmail(r)
    \/ forgotPassword(r) \/ resendForgotPasswordEmail(r) \/ resetPassword(r)
    \/ createInviteByEmail(r) \/ acceptEmailInvite(r) \/ rejectEmailInvite(r)
    \/ createInvite(r) \/ acceptInvite(r) \/ rejectInvite(r)
    \/ login(r) \/ refreshToken(r) \/ logout(r) \/ query(r)

-------------------------------------------------------------------------------
(* Users and the confirmation of their addresses.                            *)

checkEmailFree(r) ==
    Read(r, "checkEmailFree", ByEmail(Visible(r), Lower[req[r].arg.email]) = {}, Null)

\* The id, or nothing when the ids have run out (a bound): the statement fails.
NextId(Ids) == CHOOSE k \in Ids : Unused(Ids) # {} => k \in Unused(Ids)

InsertUser(r, email) ==
    LET u == NextId(UserId)
        row == [email |-> email, password |-> req[r].arg.password, confirmCode |-> Null,
                resetCode |-> Null, banned |-> FALSE]
    IN Execute(r, "insertUser", Unused(UserId) # {}, One(u, row),
               [Knows(r, row) EXCEPT ![r].user = u], Stay)
\* Mutant: the address is kept as it was typed.
insertUserAsTyped(r) == InsertUser(r, req[r].arg.email)
insertUser(r) == InsertUser(r, Lower[req[r].arg.email])

readUser(r) == Read(r, "readUser", Exists(Now(r)), Now(r))

\* The address as typed is compared with the stored one, which is in lower case.
setUser(r) ==
    LET arg == req[r].arg
        rows == Set(r, [Now(r) EXCEPT !.email = Lower[arg.email], !.password = arg.password])
        knows == Knows(r, rows[req[r].user])
    IN Execute(r, "setUser", DOMAIN rows # {}, rows,
               IF req[r].got.email = arg.email THEN knows
               ELSE [knows EXCEPT ![r].op = "changeEmail", ![r].pc = 1], Stay)

\* runConfirmationProcess: a new code, or none where addresses are confirmed by themselves.
NewConfirmCode == IF Worlds[world].strategy = "manual" THEN codes + 1 ELSE Null
ConfirmCodeSet(r) == [Goes(r) EXCEPT ![r].got.confirmCode = NewConfirmCode]

setConfirmCode(r) ==
    LET rows == Set(r, [Now(r) EXCEPT !.confirmCode = NewConfirmCode])
    IN Execute(r, "setConfirmCode", DOMAIN rows # {}, rows, ConfirmCodeSet(r), NewCodes(1))

Mail(r, statement, mail) ==
    /\ At(r, statement)
    /\ links' = links \cup mail
    /\ req' = Goes(r)
    /\ UNCHANGED <<tables, tokenVars, codes, ghostVars>>

PlainLink(r, kind, code) ==
    [kind |-> kind, user |-> req[r].user, code |-> code, to |-> req[r].got.email,
     invite |-> Null, resetCode |-> Null]

\* The link with the new code goes to the address the handler has read.
mailConfirm(r) ==
    Mail(r, "mailConfirm",
         IF req[r].got.confirmCode = Null THEN {}
         ELSE {PlainLink(r, "confirm", req[r].got.confirmCode)})

\* The WHERE of the deletion is the whole row as the pipe read it.
dropUser(r) ==
    Execute(r, "dropUser", Now(r) = req[r].seen, Dropped(r, req[r].user), Goes(r), Stay)

setBanned(r) ==
    LET rows == Set(r, [Now(r) EXCEPT !.banned = req[r].arg])
    IN Execute(r, "setBanned", DOMAIN rows # {}, rows, Goes(r), Stay)

\* For a user who is not there or confirmed already nothing happens, as if it threw.
readUnconfirmed(r) ==
    Read(r, "readUnconfirmed", Exists(Now(r)) /\ Now(r).confirmCode # Null, Now(r))
renewConfirmCode(r) ==
    LET rows == Set(r, [Now(r) EXCEPT !.confirmCode = NewConfirmCode])
    IN ExecuteNow(r, "renewConfirmCode", DOMAIN rows # {}, rows, ConfirmCodeSet(r), NewCodes(1))

\* Mutant: any link that was ever mailed to the user will do.
checkUserThere(r) == Read(r, "checkConfirmCode", Exists(Now(r)), Null)
checkConfirmCode(r) ==
    Read(r, "checkConfirmCode", Exists(Now(r)) /\ Now(r).confirmCode = req[r].arg, Null)
clearConfirmCode(r) ==
    LET rows == Set(r, [Now(r) EXCEPT !.confirmCode = Null])
    IN ExecuteNow(r, "clearConfirmCode", DOMAIN rows # {}, rows, Finished(r),
                  Take(<<"confirm", req[r].arg>>))

-------------------------------------------------------------------------------
(* Passwords.                                                                *)

\* The address is looked up as it was typed.
WithEmail(r, typed) == {u \in UserId : Exists(Visible(r)[u]) /\ Visible(r)[u].email = typed}

findActive(r) ==
    /\ At(r, "findActive")
    /\ LET found == {u \in WithEmail(r, req[r].arg) :
                        Visible(r)[u].confirmCode = Null /\ ~Visible(r)[u].banned}
       IN \/ \E u \in found :
                /\ req' = [Knows(r, Visible(r)[u]) EXCEPT ![r].user = u]
                /\ Stay
                /\ UNCHANGED tables
          \/ found = {} /\ Throw(r)

renewResetCode(r) ==
    LET rows == Set(r, [Now(r) EXCEPT !.resetCode = codes + 1])
    IN ExecuteNow(r, "renewResetCode", DOMAIN rows # {}, rows,
                  Knows(r, rows[req[r].user]), NewCodes(1))

\* A user without a code is mailed a link without one.
mailReset(r) == Mail(r, "mailReset", {PlainLink(r, "reset", req[r].got.resetCode)})

checkResetCode(r) ==
    Read(r, "checkResetCode",
         /\ req[r].arg.code # Null
         /\ Exists(Now(r)) /\ Now(r).resetCode = req[r].arg.code, Null)

setPassword(r) ==
    LET rows == Set(r, [Now(r) EXCEPT !.password = req[r].arg.password, !.resetCode = Null])
    IN ExecuteNow(r, "setPassword", DOMAIN rows # {}, rows, Finished(r),
                  Take(<<"reset", req[r].arg.code>>))

-------------------------------------------------------------------------------
(* Invites by e-mail, and by the id of the invitee.                          *)

NoBlockBetween(a, b) == {<<a, b>>, <<b, a>>} \cap Worlds[world].blocked = {}
NoContact(r, a, b) == ~Exists(Visible(r)[<<a, b>>])

checkNoGhost(r) ==
    Read(r, "checkNoGhost", ByEmail(Visible(r), <<req[r].user, req[r].arg>>) = {}, Null)

\* Who has the address already may be neither blocked, blocking nor a contact.
findInvitee(r) ==
    Read(r, "findInvitee",
         \A v \in WithEmail(r, req[r].arg) :
            NoBlockBetween(req[r].user, v) /\ NoContact(r, req[r].user, v), Null)

insertGhost(r) ==
    LET g == NextId(UserId)
        row == [email |-> <<req[r].user, req[r].arg>>, password |-> Random,
                confirmCode |-> codes + 1, resetCode |-> codes + 2, banned |-> FALSE]
    IN Execute(r, "insertGhost", Unused(UserId) # {}, One(g, row),
               Knows(r, [inviter |-> req[r].user, invitee |-> g, row |-> row]), NewCodes(2))

insertInvite(r) ==
    LET i == NextId(InviteId)
        row == [inviter |-> req[r].got.inviter, invitee |-> req[r].got.invitee,
                status |-> "PENDING"]
    IN Execute(r, "insertInvite", Unused(InviteId) # {}, One(i, row),
               [Goes(r) EXCEPT ![r].invite = i], Stay)

mailInvite(r) ==
    LET ghost == req[r].got.row
    IN Mail(r, "mailInvite",
            {[kind |-> "invite", user |-> req[r].got.invitee, code |-> ghost.confirmCode,
              to |-> req[r].arg, invite |-> req[r].invite, resetCode |-> ghost.resetCode]})

readGhost(r) ==
    Read(r, "readGhost", Exists(Now(r)) /\ Now(r).confirmCode = req[r].arg.code, Null)
InviteNow(r) == Visible(r)[req[r].invite]
readInvite(r) ==
    Read(r, "readInvite", Exists(InviteNow(r)) /\ InviteNow(r).status = "PENDING", InviteNow(r))

\* From here on got holds the inviter, the invitee and the code of the password reset
\* the invitee is handed.  A user who registered with the address meanwhile accepts
\* in the place of the ghost.
findRealUser(r) ==
    /\ At(r, "findRealUser")
    /\ LET real == WithEmail(r, req[r].arg.to)
           Becomes(op, u, code) ==
                req' = [req EXCEPT ![r].op = op, ![r].pc = 1,
                            ![r].got = [inviter |-> req[r].got.inviter, invitee |-> u,
                                        resetCode |-> code]]
       IN \/ \E u \in real : Becomes("acceptByRealUser", u, Visible(r)[u].resetCode)
          \/ real = {} /\ Becomes("acceptByGhost", req[r].user, req[r].arg.resetCode)
    /\ Stay
    /\ UNCHANGED tables

validateCreateInvite(r) ==
    LET a == req[r].got.inviter
        b == req[r].got.invitee
    IN Read(r, "validateCreateInvite",
            /\ \A i \in InviteId :
                  LET row == Visible(r)[i]
                  IN Exists(row) /\ row.status = "PENDING" => {row.inviter, row.invitee} # {a, b}
            /\ NoContact(r, a, b)
            /\ NoBlockBetween(a, b), req[r].got)

validateAnswer(r) ==
    LET row == InviteNow(r)
    IN Read(r, "validateAnswer",
            /\ Exists(row) /\ row.status = "PENDING"
            /\ NoContact(r, row.inviter, row.invitee)
            /\ NoBlockBetween(row.inviter, row.invitee), Null)

\* By id, whatever became of the invite since: got is the row as it was answered.
answerInvite(r) ==
    LET answer == IF req[r].op = "acceptInvite" THEN "ACCEPTED" ELSE "REJECTED"
        rows == SetRow(r, req[r].invite, [InviteNow(r) EXCEPT !.status = answer])
    IN Execute(r, "answerInvite", DOMAIN rows # {}, rows, Knows(r, rows[req[r].invite]), Stay)

SetInvite(r, statement, row) ==
    LET rows == SetRow(r, req[r].invite, row)
    IN Execute(r, statement, DOMAIN rows # {}, rows, Goes(r), Stay)
redirectInvite(r) ==
    SetInvite(r, "redirectInvite",
              [InviteNow(r) EXCEPT !.invitee = req[r].got.invitee, !.status = "ACCEPTED"])
setInviteAccepted(r) ==
    SetInvite(r, "setInviteAccepted", [InviteNow(r) EXCEPT !.status = "ACCEPTED"])

\* The ghost is confirmed under the address the link was mailed to.
becomeUser(r) ==
    LET rows == Set(r, [Now(r) EXCEPT !.confirmCode = Null, !.email = req[r].arg.to])
    IN Execute(r, "becomeUser", DOMAIN rows # {}, rows, Goes(r), Stay)

\* Both directions; the unique index refuses either, and a contact with oneself.
insertContacts(r) ==
    LET a == req[r].got.inviter
        b == req[r].got.invitee
    IN Execute(r, "insertContacts", a # b /\ NoContact(r, a, b) /\ NoContact(r, b, a),
               [k \in {<<a, b>>, <<b, a>>} |-> [invite |-> req[r].invite]], Goes(r), Stay)

\* Mutant: the ghost stays beside the real user.
keepGhost(r) == At(r, "deleteGhost") /\ req' = Goes(r) /\ Stay /\ UNCHANGED tables
deleteGhost(r) ==
    Execute(r, "deleteGhost", Exists(Now(r)), Dropped(r, req[r].user), Goes(r), Stay)

\* Whoever accepted an invite is handed a link to set a password.
Answered(r) == req[r].op \in {"acceptByRealUser", "acceptByGhost", "rejectEmailInvite"}
ByHand(q) ==
    (IF q.op \in {"updateUser", "changeEmail"} THEN {q.user} ELSE {})
    \cup (IF q.op \in {"createInvite", "acceptInvite", "rejectInvite"} THEN {q.invite} ELSE {})
commit(r) ==
    /\ At(r, "commit")
    /\ CommitTx(r)
    /\ req' = Finished(r)
    /\ spent' = IF Answered(r) THEN spent (+) SetToBag({<<"invite", req[r].invite>>}) ELSE spent
    /\ links' = links \cup
            IF req[r].op \in {"acceptByRealUser", "acceptByGhost"}
            THEN {[kind |-> "reset", user |-> req[r].got.invitee, code |-> req[r].got.resetCode,
                   to |-> req[r].arg.to, invite |-> Null, resetCode |-> Null]}
            ELSE {}
    /\ byHand' = byHand \cup ByHand(req[r])
    /\ UNCHANGED <<tokenVars, codes, world, overlapped, sent, proven, ended>>

-------------------------------------------------------------------------------
(* Sessions.                                                                 *)

\* Neither waiting for confirmation nor banned.
MayHaveSession(row) == row.confirmCode = Null /\ ~row.banned

\* The address is looked up as it was typed.
authenticate(r) ==
    /\ At(r, "authenticate")
    /\ LET found == {u \in WithEmail(r, req[r].arg.email) :
                        /\ Visible(r)[u].password = req[r].arg.password
                        /\ MayHaveSession(Visible(r)[u])}
       IN \/ \E u \in found :
                req' = [Goes(r) EXCEPT ![r].user = u] /\ Stay /\ UNCHANGED tables
          \/ found = {} /\ Throw(r)

verifyRefreshToken(r) ==
    Read(r, "verifyRefreshToken", Verifies(<<req[r].refresh, "refresh">>), Null)

authenticateUser(r) ==
    LET u == holderOf[req[r].refresh]
    IN /\ At(r, "authenticateUser")
       /\ \/ /\ Exists(db[u]) /\ MayHaveSession(db[u])
             /\ req' = [Goes(r) EXCEPT ![r].user = u]
             /\ Stay
             /\ UNCHANGED tables
          \/ ~(Exists(db[u]) /\ MayHaveSession(db[u])) /\ Throw(r)

\* The access token is of no concern when it is not there or somebody else's.
OwnAccess(q) == q.access # Null /\ holderOf[q.access] = holderOf[q.refresh]
ToEnd(q) ==
    {<<q.refresh, "refresh">>} \cup (IF OwnAccess(q) THEN {<<q.access, "access">>} ELSE {})

invalidateAccessToken(r) ==
    /\ At(r, "invalidateAccessToken")
    /\ IF OwnAccess(req[r])
       THEN invalidateToken(<<req[r].access, "access">>)
       ELSE UNCHANGED tokenVars
    /\ req' = Goes(r)
    /\ UNCHANGED <<tables, links, codes, ghostVars>>

\* Mutant: a refresh token can be used again.
keepRefreshToken(r) ==
    /\ At(r, "invalidateRefreshToken")
    /\ req' = Goes(r)
    /\ Stay
    /\ UNCHANGED tables
invalidateRefreshToken(r) ==
    /\ At(r, "invalidateRefreshToken")
    /\ invalidateToken(<<req[r].refresh, "refresh">>)
    /\ req' = Goes(r)
    /\ UNCHANGED <<tables, links, codes, ghostVars>>

\* The new pair reaches the client with the response, and no earlier.
deliver(r) ==
    /\ At(r, "deliver")
    /\ \/ \E s \in Unsigned :
            /\ s = CHOOSE t \in Unsigned : TRUE
            /\ createTokens(s, req[r].user)
            /\ IF req[r].op = "refreshToken"
               THEN /\ spent' = spent (+) SetToBag({<<"refresh", req[r].refresh>>})
                    /\ ended' = ended \cup ToEnd(req[r])
               ELSE UNCHANGED <<spent, ended>>
            /\ req' = Finished(r)
            /\ UNCHANGED <<tables, links, codes, world, overlapped, sent, proven, byHand>>
       \/ Unsigned = {} /\ Throw(r)

\* verify, the list in Redis and the user's row; whether the user is banned is not asked.
AuthGuard(r) ==
    LET a == req[r].access
    IN Read(r, "AuthGuard",
            a = Null \/ (Verifies(<<a, "access">>) /\ Exists(db[holderOf[a]])), Null)

done(r) ==
    /\ At(r, "done")
    /\ ended' = IF req[r].op = "logout" THEN ended \cup ToEnd(req[r]) ELSE ended
    /\ req' = Finished(r)
    /\ UNCHANGED <<tables, tokenVars, links, codes, world, overlapped, sent, proven, byHand, spent>>

-------------------------------------------------------------------------------
\* Time limit, deadlock victim, lost connection, mail that cannot be sent, crash.
Abort(r) == req[r].op # "none" /\ Throw(r)

Run(r) ==
    \/ checkEmailFree(r) \/ insertUser(r) \/ readUser(r) \/ setUser(r) \/ setConfirmCode(r)
    \/ mailConfirm(r) \/ dropUser(r) \/ setBanned(r)
    \/ readUnconfirmed(r) \/ renewConfirmCode(r) \/ checkConfirmCode(r) \/ clearConfirmCode(r)
    \/ findActive(r) \/ renewResetCode(r) \/ mailReset(r) \/ checkResetCode(r) \/ setPassword(r)
    \/ checkNoGhost(r) \/ findInvitee(r) \/ insertGhost(r) \/ insertInvite(r) \/ mailInvite(r)
    \/ readGhost(r) \/ readInvite(r) \/ findRealUser(r) \/ validateCreateInvite(r)
    \/ validateAnswer(r) \/ answerInvite(r)
    \/ redirectInvite(r) \/ setInviteAccepted(r) \/ becomeUser(r) \/ insertContacts(r)
    \/ deleteGhost(r)
    \/ authenticate(r) \/ verifyRefreshToken(r) \/ authenticateUser(r)
    \/ invalidateAccessToken(r) \/ invalidateRefreshToken(r) \/ AuthGuard(r)
    \/ deliver(r) \/ commit(r) \/ done(r)

Time ==
    /\ \/ Cardinality(expired) < MaxExpired /\ \E t \in Token : Expire(t)
       \/ \E t \in Token : Forget(t)
    /\ UNCHANGED <<tables, req, links, codes, ghostVars>>

Init ==
    /\ world \in DOMAIN Worlds
    /\ LET start == Worlds[world]
       IN /\ db = Populated(world)
          /\ holderOf = start.sessions
          /\ links = start.links
          /\ codes = start.codes
          /\ proven = start.proven
    /\ draft = db
    /\ holder = [k \in Key |-> NoRequest]
    /\ TokensInit
    /\ req = [r \in Request |-> Idle]
    /\ overlapped = FALSE
    /\ sent = 0
    /\ byHand = {}
    /\ spent = EmptyBag
    /\ ended = {}

Next == Time \/ \E r \in Request : Begin(r) \/ Run(r) \/ Abort(r)

Spec == Init /\ [][Next]_vars
-------------------------------------------------------------------------------
(* What holds however requests interleave.                                   *)

\* Every version of a row is a row of its own table; whoever links point at and
\* tokens are signed for was a user.
TypeOK ==
    /\ RowsTyped(db) /\ RowsTyped(draft)
    /\ \A r \in Request : req[r].op \in Op /\ req[r].pc \in DOMAIN Script[req[r].op]
    /\ links \subseteq Link
    /\ Signers(db, holderOf)
    /\ invalidated \cup expired \subseteq Token

\* An invite by e-mail is open as long as its ghost waits for the answer, and no
\* longer, and no ghost waits for two, whoever registers, invites, answers or is
\* deleted meanwhile: until somebody gives the ghost an address or answers its
\* invite by id, as an ADMIN may.
GhostsAwaitAnswer == AwaitAnswer(db, byHand)

\* Tokens that a logout or a refresh has ended open nothing to a request that
\* comes later, although Redis forgets about them.
LoggedOutStaysOut ==
    [][\A r \in Request :
        /\ AuthGuard(r) /\ req'[r] # Idle => <<req[r].access, "access">> \notin req[r].late
        /\ verifyRefreshToken(r) /\ req'[r] # Idle
                => <<req[r].refresh, "refresh">> \notin req[r].late]_vars

-------------------------------------------------------------------------------
(* What holds as long as requests do not overlap.                            *)

\* Where addresses are confirmed by hand, a confirmed account has an address
\* whose owner followed a link mailed to it, through any changes of address.
ConfirmedMeansProven ==
    overlapped \/ Worlds[world].strategy = "auto" \/
        ConfirmedAreProven(db, proven)

\* Confirmation and reset codes, e-mail invites and refresh tokens are good once.
OneTimeMeansOnce ==
    overlapped \/ \A thing \in BagToSet(spent) : spent[thing] = 1
===============================================================================
