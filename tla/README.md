# Cost-X API: TLA+ models, model checking and proofs

Cost-X is a NestJS GraphQL service (`src/src`) on PostgreSQL (Prisma) and Redis.
Users keep expenses in shared workspaces: items hold payments and tags, members
of a workspace carry stakes of an item's cost, users are each other's contacts.
This directory holds TLA+ models of its core logic, TLC configurations that
check them on small instances, and TLAPS proofs for every instance.

## How the service executes a request

Everything hard in this program comes from one execution scheme:

1. The access guard (`access/`) loads what the rule needs (`@Infer` pipes) and
   decides; it reads outside any transaction.
2. `TransactionInterceptor` (`common/interceptor`) opens one interactive Prisma
   transaction per GraphQL mutation; no isolation level is given, so PostgreSQL
   runs it READ COMMITTED; Prisma ends it after 5 s.
3. Argument pipes load the entities named by the arguments, again with the
   plain client, outside the transaction.
4. The resolver calls validators and services, which await SQL statements one
   by one inside the transaction; event listeners (`workspace-history`) write
   in the same transaction. An exception rolls everything back.

So between two statements of a request any other request may commit; what a
guard or a pipe read may be stale; a check and the write it protects are two
statements; only row locks and unique indexes keep requests apart. The services
that verify e-mails and reset passwords run without a transaction.

## Inventory

| component | state | operations | hard behaviour | what makes it correct | where |
|---|---|---|---|---|---|
| contact | Invite, Contact, UserBlock rows | create, accept, reject, reject-and-block an invite; block, unblock; delete a contact | write skew, stale pipes, crossed accepts | unique rows, contacts in pairs, no contact across a block, answers final | `Contacts` |
| contact: e-mail invites | ghost users, links | invite by e-mail, accept, reject | accept against reject, registration meanwhile, direct invites and admins on the same rows | a ghost exists as long as its invite waits, unless somebody acts on either by id | `Accounts` |
| prisma, common/interceptor | row versions, locks | commit, roll back, wait, deadlock | isolation | atomic, no lost lock | `ReadCommitted` |
| workspace-membership | WorkspaceInvite, WorkspaceMember, UserWorkspacePermission | invite, accept, reject, cancel; grant, revoke; leave, remove | stale invites and members, grants during a removal, seeds against left-over permissions | one seat per user, members were invited, no permission nobody handed out, removal revokes | `WorkspaceMembership` |
| workspace | Workspace | create, update, delete | cascade | nothing of it stays behind | `Ledger` |
| item, payment, tag, item-tag, consistency | rows of a workspace | create, update, delete, assign, unassign | check then insert, cascade, stale pipes | all of one workspace, no dangling row | `Ledger` |
| item-merge, item-extract | payments and tags of items | merge, extract | multi-statement moves by id | no payment lost or taken from elsewhere | `Ledger` |
| workspace-stake, item-stake | rules, custom stakes | set stakes, set rule; members come and go | stale rule, removed members | stakes only without a rule; custom stakes of active members add up to something, until a member who has a positive one goes | `Ledger` |
| workspace-history | WorkspaceHistory (append) | listeners of all events, diffs, messages | same transaction, cascade | the entry tells the change | `WorkspaceHistory`, `Ledger` |
| user, confirm-email, resend-email, reset-password, password | User rows, one-time codes | register, change e-mail, confirm, reset, ban, delete | codes used twice, no transaction, resends that overlap a change | a code works once, a confirmed address was proven | `Accounts` |
| auth, token, redis | pairs of tokens, list of ended ones | login, refresh, logout, guard | double use of a token, expiry | ended tokens stay ended | `Accounts`, `Tokens` |
| access | none | evaluate a rule tree over inferred rows | reads side by side while seats and permissions change | lets in the entitled, all of them and only them | `AccessRules` |
| item-cost, items-aggregation, payments-aggregation | none | counts, dates, costs, per parent, batched | separate reads, batches over parents, empty items | answers are totals | `Aggregation` |
| currency-rate | rate rows | find, pull, save | concurrent misses, a bank that fails | rates are the published ones | `CurrencyRates` |
| graphql, group, date | none | request-local caches and helpers | - | - | the batch of a loader: `Aggregation` |
| mail, spreadsheet, data-migration | none | outgoing mail, one-shot import | - | - | - |

## Modules

| module | what it is |
|---|---|
| `ReadCommitted` | PostgreSQL as the handlers see it: committed versions, one uncommitted version per row with its lock holder, what a statement reads, commit and rollback |
| `Contacts` | the contact component on `ReadCommitted`: the statements of its seven mutations, their properties, and the refinement mapping |
| `SocialGraph` | what the contact component promises, without rows, statements or transactions |
| `WorkspaceMembership` | the invites, members and permissions of one workspace on `ReadCommitted`: the statements of eight mutations |
| `Roster` | what workspace membership promises: open invites, seats, former members, rights |
| `Ledger` | what a workspace keeps, on `ReadCommitted`: the statements of nineteen mutations of items, payments, tags, stakes and workspaces, and members who come and go |
| `WorkspaceHistory` | the audit log as operators: the entry of each event, its diff and the ids its message names; composed into `Ledger` |
| `Accounts` | users, codes, e-mail invites, what invites by id do to them, and sessions: twenty requests, some in a transaction of `ReadCommitted`, some without |
| `Tokens` | signed tokens that expire and the list of ended ones in Redis; composed into `Accounts` |
| `AccessRules` | the guard: the 48 rules, the inference of rows through pipes, the strategies with the queries each makes |
| `CurrencyRates` | stored and published rates; composed into `Aggregation` |
| `Aggregation` | queries for metrics, read by read: items, loaders, costs, rates, reductions |
| `MCContacts`, `MCMembership`, `MCLedger`, `MCAccounts`, `MCAccess`, `MCAggregation` | the instances for TLC: keys, initial rows, arguments, symmetry sets |
| `ContactsProof`, `MembershipProof`, `LedgerProof`, `AccountsProof` | the inductive invariant of `Contacts`, `WorkspaceMembership`, `Ledger`, `Accounts`, and what follows from it however requests interleave; then what holds as long as they do not overlap (in `AccountsProof` also the ghosts and their invites, however requests interleave), in `ContactsProof` and `MembershipProof` with one slot: that `SocialGraph` and `Roster` are implemented |
| `AccessProof` | the kinds of gates, the inductive invariant of a check in `AccessRules`, and the verdict of each kind |
| `AggregationProof` | sums, minima and maxima over finite sets; the inductive invariants of the rates and of the answers of `Aggregation` |
| `ReadCommittedProof`, `SocialGraphProof` | what a write, a commit and a rollback leave in place, used by the proofs of the components; a theorem of `SocialGraph` |

The components meet in the rows they share. `WorkspaceMembership` writes the seats
and permissions the guard of `AccessRules` reads (`SeatTaken`, `SeatLost`, `Granted`,
`Revoked` are its committed effects); `Ledger` writes what `Aggregation` reads
(`PaymentAdded` ... `CurrencyChanged` are its committed effects); it sees the members of
`WorkspaceMembership` come and go (`SeatTaken`, `SeatLost` again). `Accounts` and `Contacts` share the `Invite`
rows: what becomes of contacts and blocks is told by `Contacts`, what becomes of ghosts by `Accounts`; every guard of every module is a rule of `AccessRules`.

### ReadCommitted

`db[k]` is the committed version of row `k`, `draft[k]` its newest version and
`holder[k]` the request that wrote `draft[k]` and has not ended. `Visible(r)`
is what a statement of `r` reads: everything committed when it starts plus its
own writes. A write waits while another request holds a row it needs
(`Blockers`). `CommitTx` publishes all of a request's writes at once,
`RollbackTx` forgets them. A statement is one step, which is what a READ
COMMITTED snapshot gives it; an UPDATE ... WHERE that waits for a lock
evaluates its condition again on the new version, so such a statement is two
steps (`findContactPair`, then `removeContactPair`).

### Contacts

A request sits in a slot of `Request`. `req[r]` holds the mutation (`op`), the
next statement (`pc`, an index into `Script[op]`), and what the handler knows:
the caller, the two users, the row a pipe loaded, the rows a query returned.

- `createInvite(r)` ... `deleteContact(r)` are the starts of the seven
  mutations: guard and pipes, reading committed rows outside the transaction.
  Where a check looks only at what a pipe read (`validateDeleteContact`,
  `SelfBlockForbiddenError`) it belongs to this step.
- `validate...(r)` are the validators, one query each; a failing one throws,
  which rolls back and empties the slot.
- `insertInvite`, `setInviteAccepted`, `insertContact`, ... are the writes, in
  the order of the `await`s. An insert waits for uncommitted rows at its
  place in the partial unique index (`WHERE reactedAt IS NULL`, `WHERE removedAt
  IS NULL`, from the migration) and throws when a committed one is there.
- `commit(r)`; `Abort(r)` at any statement (5 s limit, lost connection, crash);
  `DeadlockVictim(r)` when waits form a cycle.

Data is abstracted: timestamps are gone (`reactedAt` is set exactly with the
status and `removedAt` exactly with `removedByUserId`), users do not change,
e-mails to users and logging are left out. Users are never deleted in this model: the deletion of
users and ghosts, with its cascade over invites and contacts, is in `Accounts`.

### WorkspaceMembership

Built the same way; one workspace, whose owner never changes and is no member
row. A row of `UserWorkspacePermission` has no column but its key, so its key is
`<<user, permission>>` and the row is there or not.

- The status of an invite (`Answer`) and `removedAt` of a member (`Remove`) are
  checked on what the pipe read, outside the transaction, so they belong to the
  start of the request. Guard and pipes are one step although they are several
  queries: the guard loads the same row first, and what the later pipe must still
  find (PENDING, not removed) never comes back once gone, so it was true when
  the guard decided; the step stands for that earlier moment.
- `Script.removeMember` serves `leaveWorkspace` and `removeWorkspaceMember`, which
  differ in their guards only. For `createWorkspaceInvite` the caller kept in the
  request is the inviter: nothing later asks for anybody else.
- `deletePermissions` and `revokeAllPermissions` are single steps: a DELETE by key has
  nothing to evaluate again after a wait but whether the row is there. It does not
  see, nor wait for, rows another transaction has inserted and not committed.
- A list of permissions is a sequence, since the code compares its *length* with
  the number of rows found (`HoldsAll`) and `createMany` without `skipDuplicates`
  fails on a repeated one (`seedPermissions`).
- `Withheld` is a parameter of the question, not of the code: the permissions which
  the owner and the admins, who may hand out anything, do not hand out in an
  instance (`HandsOut`). `WithheldStayWithheld` says nobody comes to hold them: that is
  the anti-escalation promise of CODEBASE_MAP.md:329.

The mutations' history entries are written in the same transaction by listeners
of `workspace-history` and read by none of these handlers; they are left out.

### Ledger and WorkspaceHistory

Built like `Contacts`: `Script` gives the statements of each mutation, `of` and `with`
in `req[r]` are the rows its pipes loaded and `seen` what they read then; handlers go
on to use `seen`, however old it is. Rows refer to each other by foreign keys that
cascade: deleting a row takes its `Family` with it, and a statement that inserts or
moves a child waits for, and fails after, the deletion of its parent. An id once
deleted (`Gone`) is not used again. A title stands for every column a client sets.

A member is coming, active or removed (`seat`); `SeatTaken` and `SeatLost` are the commits of an accepted invite and of a removal, which
write no row a handler here locks. A member who comes back is a new row. Members who own their workspace
(`OwnerSeat`) are never removed; usually the owner has no member row at all. `Active` is read by `validateStakes`,
and anew at every statement: a member may go between the check of the stakes and their commit.

An event listener runs inside the transaction, so the entry of a request becomes
`history[w]`, the newest entry of the workspace's log, when it commits. What
`WorkspaceHistory` models is what the entry is made of (rows read by a pipe before,
rows returned by the update), what the reader's diff is (white-listed fields that
differ) and which ids the message names. The entries about invites, members and
permissions are left out, so `SeatTaken` and `SeatLost` log nothing.

### Accounts and Tokens

A request that has a transaction uses `Execute`, one that has none
`ExecuteNow`: login, refresh, logout, confirmation and reset commit statement by
statement. A link is in the mail as soon as it is sent, even if the transaction
that sent it rolls back. Codes are numbers that never repeat (they are UUIDs);
addresses are typed in upper or lower case and with or without a `+tag` (`Lower`,
`Untagged`). A ghost, the user made for an e-mail invite, has a placeholder address
made of inviter and invitee. Guards let users act for themselves and an ADMIN for anybody, ghosts included, so
`updateUser`, `createInviteByEmail`, `createInvite` and the two answers by id range over all users and invites; who is an ADMIN does not
change what they do. The invites by id (`createInvite`, `acceptInvite`, `rejectInvite`) are here because they write the same
rows: validators are one step each (`validateCreateInvite`, `validateAnswer`), for which `Contacts` has a step
per query, and blocks are those of the world; contacts are made here and never removed. A session is the pair of tokens one authentication signs;
`Expire` is the clock, `Forget` is Redis dropping an entry whose token is over.
History variables (`proven`, `byHand`, `spent`, `ended`, `late`, `overlapped`) remember who
followed which link, whom somebody updated and which invites were made or answered by id, what was used up,
what a logout ended; no action reads them.

### AccessRules

`Gates` holds, for each of the 48 resolvers that carry `@Access.allow`, where its
entities come from (`Arg`, `From` and the pipes) and its rule. A check runs as the
code does: one `Pipe` at a time, keys side by side unless one builds on another;
then the leaves, each with its own queries (the permission strategy asks for the seat
and then for the grants, in two); then `Verdict`. Between any two reads others take
and lose seats and permissions and merge items, which moves a payment to another item
of its workspace. What the caller is *entitled* to is defined apart from the rules
(`EntitledBy`): owner, seat and permission in every workspace the arguments lead to,
acting for oneself, or an administrator. Which user permission a rule names is
abstracted to whether the user has been given its user permissions (`trusted`).
The code walks a rule and its pipes by recursion and loops; no rule of a resolver is nested
deeper than three `or`s and `and`s and no key has more than two pipes, so `Leaves` and
`isRuleMatch` go three deep and `Follow` two far; `AccessProof` shows of all 48 gates that this reaches every leaf.

### Aggregation and CurrencyRates

A query goes through the reads the resolvers and loaders make: the items of every
parent (`FindItems`), the loader's query or, for a cost in the default currency, the
payments, the workspaces, their currencies and the rates (`FindRates`, `Pull`, `Save`),
then the reduction. The loader's batch is the items of all parents together, as
DataLoader collects the keys of one tick; that the whole query is one batch per loader is
an assumption about the GraphQL executor. The items are reduced in any order, no
`ORDER BY` settling it. `AnswersAreTotals` has its own definition of the items of a parent (`ItemsOf`, from
what the filters mean), apart from the `ItemIds` the query finds. What a query lost, and for which of two
reasons, is kept in `lost`, a history that no action reads. A rate is a pair (quotient), the days are numbers and null is
before the first. An undefined default currency, which arises when the items
are deleted meanwhile, filters nothing in Prisma and is modelled so.

## Runs

| run | question | instance | result |
|---|---|---|---|
| `contacts_serial` | Do requests one after the other keep every promise, and implement `SocialGraph`? | 1 slot, 3 users, 2 invites, 4 contacts, 1 block | holds |
| `contacts_concurrent` | What survives every interleaving of any two mutations? | 2 slots, 2 users, 1 invite, 2 contacts, 2 blocks | holds |
| `contacts_liveness` | Does every request end? | 2 slots, 2 crossed invites, 2 contacts; create, accept | holds under `Fairness` |
| `contacts_block_race` | Does a block remove the contact when requests overlap? | 2 slots; create, accept, block | violated |
| `membership_serial` | Do requests one after the other keep every promise, and implement `Roster`? | 1 slot, 3 users (the owner an admin), 1 permission, lists of none, one and the same twice, 2 invites, 2 members | holds |
| `membership_concurrent` | What survives every interleaving of any two mutations? | 2 slots, 2 users, 2 permissions (one withheld), 2 invites, 2 members | holds |
| `ledger` | What do three requests, two at a time, leave of a workspace? | 2 slots, 3 requests or changes of members, 3 workspaces, 4 items, 3 payments, 2 tags, 5 members (one removed, one coming), six mixes of mutations | holds |
| `ledger_merge` | Does a merge keep the payments? | as `ledger`; merge, create a payment | violated |
| `accounts` | Do codes, invites, bans and sessions do what they are for? | 2 slots, 3 requests, 3 users, 2 invites, 3 pairs of tokens, 1 expiry, eleven worlds | holds |
| `access` | Does the guard let in the entitled, and only them? | 1 check at a time, 2 changes during it; 2 workspaces with a payment in each, an owner, a member, an admin, nobody | holds |
| `aggregation` | Are the answers totals, the rates the published ones, and does every query end? | 2 queries, 2 workspaces, 3 items, 4 payments, 3 currencies, 2 days, 1 change, a bank that may fail | holds under `FairSpec` |
| `aggregation_cost` | Is the cost of each of two workspaces its total? | 1 query, nothing changing or failing | violated |

**Bounds.** The sizes of `InviteId`, `ContactId`, `BlockId` and `MemberId` bound how many
rows are ever inserted in one behaviour; when they run out an insert fails as a
refused one does (it throws), so a bound only removes behaviours. Row ids are
interchangeable, so the lowest unused one is taken. Two slots are enough for
every hazard listed: each is a race of two requests, and a deadlock of two.
Two users suffice for all pair properties; a third (`contacts_serial`) lets two
pairs be busy and gives the caller somebody else to be. That an admin's requests
change nothing is shown for contacts by the proofs only, which leave `Admin` open. Two invites with
four contacts let a pair become contacts, part and become contacts again. `Offered`
limits the mutations of the larger instances to those the question is about
(rejecting and cancelling a workspace invite are the same statements but for the
status, so `membership_serial` leaves out the cancellation and
`membership_concurrent` the rejection). For membership two invites and two members let a user join, leave
and join again. The two permissions of `membership_concurrent` are the one that lets its
holder grant and one that does not; the owner hands out the first only.
Users and slots are symmetric where no admin and no liveness is involved.

`Mixes` of `ledger` are the sets of mutations that touch the same rows: payments against
merges, extractions and deletions of their item; tags likewise; stakes against rules and
deletions; stakes and rules against members who come and go; workspaces and items. Three requests let one run between two others or alongside a
second (`MaxRequests`); the rows of `MCPopulation` are the least that give each
mutation something of its own workspace and something of another to get wrong, with a payment listed
twice, stakes that add up to nothing, a negative one, one of a foreign member, one of a member yet to come and one left by a
member who was removed.
`Worlds` of `accounts` are where behaviours begin, each with the requests that
matter from there: an address moving, a forgotten password, a pending e-mail
invite, one whose ghost an admin or a stranger acts on by id (`byHandToo`), the invitee registered meanwhile, one who is blocked, a session. They are states which
other requests lead to; starting there keeps three requests enough. `MaxExpired` lets any one
token expire and Redis forget it; each token is ended and verified by itself. In `access` two changes (`MaxChanges`) are what it takes to come and go
within a check; each check begins with any set of the permissions its rule asks for.
In `aggregation` one change falls between any two reads of any query; `Worlds` are the
metrics alone, costs in one currency, costs and rates with two, and two queries
that pull rates at once. A second workspace, a tag on items of both and an item without payments
give the batches something to mix up.

**Fairness.** `SF_vars(Run(r))` for each slot: the event loop resolves a
handler's promises and PostgreSQL grants locks in order of arrival, so a
statement that is possible again and again is executed. `WF_vars(DeadlockVictim(r))`:
PostgreSQL's detector runs after `deadlock_timeout`. No fairness for the start of
requests nor for `Abort`: nobody promises them. `RequestsEnd` fails without the detector.
In `Aggregation`, `WF_vars(Step(q))` per query: its next read or reduction stays possible until
it is taken, since Node runs the continuation of a promise once and the database and the
bank answer, if only with an error. `Pull` may always fail when `MayFail`; what `EveryQueryEnds` says
is that no rate is waited for twice or for ever.

**Deadlock** is checked in every run but `ledger`, `ledger_merge` and `accounts`, which stop when
their `MaxRequests` are sent: elsewhere a slot that is idle can always take a
request, and a request that waits can always be aborted.

`overlapped` (in `Ledger` and `Accounts`) remembers whether two requests ever were in
progress at once; the properties that say `overlapped \/ ...` are promises for requests one
after the other, in the same run as the ones that survive any interleaving.

### What the three violations show

- *Contact across a block* (`contacts_block_race`). Ann has invited Bob. `acceptInvite`
  checks for blocks; `blockUser` inserts its block, finds no committed contact, commits;
  the accept inserts its pair and commits. README.md:38 and :272 of `src/src/contact` say a
  block removes the contact. Nothing short of a lock or SERIALIZABLE prevents it.
- *A merge that loses payments* (`ledger_merge`). `merge` checks that both items
  are of one workspace and never that they are two: merging an item into itself moves its
  payments to itself, deletes it, and the cascade takes them. A payment created on the merging item
  after the `updateMany` goes the same way. README.md:51 and :58 of `src/src/item-merge` promise the
  host survives with all payments.
- *A cost of nothing* (`aggregation_cost`). One query for `costInDefaultCurrency` of two
  workspaces whose default currencies differ puts the items of both in one batch;
  `getDefaultCurrencyByItemIds` throws for it, the resolver filters the errors out and sums
  the rest: 0, for both. README.md:29 of `src/src/payments-aggregation` promises the total,
  and items-aggregation's README shows such a query (:89).

### Divergences noted without a run

Seen while modelling; the models do what the code does.

- *contact*: a user who invites themself and rejects with a block gets a block row on
  themself (`README.md:270`: "Cannot block yourself"). A `deleteContact` whose contact was
  removed and made anew meanwhile removes one row of the new pair only.
- *workspace-membership*: a grant that commits during a removal survives it
  (`CODEBASE_MAP.md:331`), and `Roster!Join` records that its holder can then not accept an invite that seeds
  it; two answers to one invite both pass the check and the later one overwrites.
- *access*: the permission
  strategy reads the seat and the permissions by two queries; a member who leaves and rejoins in between can be
  let in on both (`AllowedWereEntitled` therefore speaks of some moment of the check for each).
- *item-extract*: `paymentIds` may repeat one; the check compares lengths and an item's only payment can be
  extracted (`item-extract/README.md:68`). An extracted item has neither the rule nor the stakes of its source.
- *item-stake*: two requests that both read the old rule leave custom stakes under a rule. `setItemStakes` must be given the
  active members, upserts a stake for each and deletes none, so the stake of a member who was removed stays, though
  `CODEBASE_MAP.md:823` says `setItemStakes` resets it and :409 calls it a full replacement; `setItemStakeRule` alone
  deletes. `validateStakes` refuses stakes that add up to nothing, yet lets zeros through (`item-stake.e2e.spec.ts:579`), and removing a
  member looks at no stakes (`workspace-member.service.ts:44`, `CODEBASE_MAP.md:423`): when the one member with a positive stake leaves or is
  removed, the item stays in custom mode with an active sum of 0. No overlap is needed. `CustomStakesUsable` says that this is the
  only way, and that a removal between the check of new stakes and their commit does the same. The entry in the log gives the upserted stakes as the new ones and does not show the one that is left:
  `EntryTellsTheChange` promises those of active members only.
- *workspace-history*: old values are those a pipe read and stale under overlap; no message is made for
  invites and members; `changes.service.ts:61` throws for the actions it does not list; the WORKSPACE_DELETED
  entry is deleted by the cascade it announces.
- *accounts*: the guard does not look at `isBanned` (`auth.guard.ts:35`, against
  `user/README.md:203`): a ban keeps nobody out who is logged in. Two refreshes at once with one token both succeed
  (`auth/README.md:80`), as do two uses of one reset link (`reset-password/README.md:53`). Login does
  not lower-case the address and `updateUser` compares it as typed. A user who came by an e-mail invite is
  never given the default user permissions; deleting the inviter leaves the ghost; for an invitee who registered
  meanwhile the reset link is made of a code that is null; a confirmation
  can be resent to a ghost. The accept by a ghost and a reject that overlap delete a confirmed account.
- *e-mail invites and invites by id*: neither asks whether a user is a ghost. Anyone may invite a ghost by its id, so that it
  waits for two answers or an invite waits for a ghost of somebody else; an ADMIN may accept or reject the invite of a ghost
  (`invite.mutation.resolver.ts:79`, `:102`), which then stays for good, its link answered with an error; an ADMIN may give a ghost an address
  (`user.mutation.resolver.ts:31`), and its invite waits for a user who is no ghost. `GhostsAwaitAnswer` excepts the users and invites
  so acted on (`byHand`) and no others: what is left says that neither e-mail invites, registrations, deletions nor
  any other request bring this about.
- *payments-aggregation*: the first date of several items is wrong as soon as one has no payment in range
  (`earliest-aggregation.service.ts:13` compares null with `<`); counts and dates ignore `PaymentsFilter.ids`;
  the field's filter is always an object, so the parent's filter is never the fallback that
  `payments-aggregation/README.md:34` describes; a failing bank shows as a cost of 0. `KnownGap` is the exact list of
  what `AnswersAreTotals` excepts, parent by parent: the first date of a parent one of whose own items has no payment in range;
  counts and dates under a filter with ids; a cost of a parent one of whose own items was deleted meanwhile; and a cost
  of 0 where the batch was lost because the bank failed or its items had two default currencies.

## Proofs

Every theorem is proved for any sets of users, ids and slots (one slot where it says so). The
assumptions are the `ASSUME`s of the modules, which say of the constants what PostgreSQL, the schema and the
clients say of the values they stand for:

| module | assumed |
|---|---|
| `ReadCommitted` | `NoRequest` is no request |
| `Contacts` | `Absent` is no row, `NoUser` no user; the three sets of ids are disjoint and make up `Key`; admins are users; `Offered` are mutations |
| `WorkspaceMembership` | the same of its keys; the owner and the admins are users; clients send sequences of permissions |
| `Ledger` | the same of its keys (`RowsHaveKeys`, `TablesAreDisjoint`, `MissingRowsAreNoRows`); members have workspaces, and those who own theirs are members; everybody is coming, active or removed at first; clients send titles, rules and sequences of payments; the null is no rule; the rows an instance begins with are rows of one workspace each, and no item has both a rule and stakes (`PopulationGoesTogether`); no row reads as a JSON null (`NullIsNoRow`) |
| `Accounts` | `Key` is made of its ids; a missing row is no row; `Lower` and `Untagged` yield addresses, `Lower` leaves those in lower case alone, and nobody types a ghost's placeholder; SQL null is no code; the rows, links and sessions a world begins with are of their types (`WorldsAreTyped`), each of their codes is on one row, a link that works is about its address or its invite, and, where addresses are confirmed by hand, whoever is confirmed has followed a link (`WorldsAreSound`); the rows of a world go together: parents are there, ghosts wait for an answer, whoever invited a ghost was a user, and the one invite that waits for a ghost is the one its link names (`WorldsGoTogether`) |
| `AccessRules` | a row has the shape of its table and its own id (`Shapes`), the foreign keys of the schema hold (`References`), callers are users (`CallersAreUsers`), nobody and a missing row are no row (`Apart`) |
| `CurrencyRates`, `Aggregation` | the bank publishes positive rates, none of them of BYN; an absent currency is no currency, and a query for a rate names both of its currencies (`RatesAskName`); what is asked is what the GraphQL schema lets through, and names parents and filters, of items by `tagIds` and `title` (`AsksAreTyped`); tables are finite, a payment has a cost in a currency on a day, and an item a workspace that is there, as the foreign key demands (`WorldsAreTyped`, `LateAreTyped`); only where the bank is said not to fail (`MayFail` is FALSE) has it a rate for the day of every payment (`BankPublishes`), with `MayFail` nothing is assumed of it |

| theorem | states |
|---|---|
| `ContactsProof!InvariantHolds` | `Spec => []IInv` |
| `ContactsProof!TypesAreCorrect` | `TypeOK` |
| `ContactsProof!RowsAreUnique` | `UniqueRows` |
| `ContactsProof!ContactsArePaired` | `ContactsComeInPairs` |
| `ContactsProof!NobodyIsTheirOwnContact` | `NoSelfContact` |
| `ContactsProof!ContactsHaveOrigins` | `ContactsFromAnsweredInvites` |
| `ContactsProof!RemovalsAreEntitled` | `RemovedByEntitled` |
| `ContactsProof!HistoryStays` | `RowsAreHistory` |
| `SocialGraphProof!FriendsStayFree` | `GraphSpec => []FriendsAreFree` |
| `ContactsProof!SerialInvariantHolds` | with one slot `r`: `Spec => []SerialInv(r)` |
| `ContactsProof!BlocksPartContacts` | with one slot: `NoContactAcrossBlock` |
| `ContactsProof!ContactsStaySymmetric` | with one slot: `SymmetricContacts` |
| `ContactsProof!OneInviteIsOpen` | with one slot: `OneOpenInviteBetween` |
| `ContactsProof!AcceptedInvitesHavePairs` | with one slot: `ContactsIffAccepted` |
| `ContactsProof!AnswersAreFinal` | with one slot: `AnswerIsFinal` |
| `ContactsProof!ContactsImplementGraph` | with one slot: `ImplementsGraph`, the refinement of `SocialGraph` |
| `MembershipProof!InvariantHolds` | `Spec => []IInv` |
| `MembershipProof!TypesAreCorrect` | `TypeOK` |
| `MembershipProof!SeatsAreUnique` | `OneSeatEach` |
| `MembershipProof!MembersHaveInvites` | `MembersWereInvited` |
| `MembershipProof!HoldersAreMembers` | `HoldersWereMembers` |
| `MembershipProof!NobodyEscalates` | `WithheldStayWithheld` |
| `MembershipProof!HistoryStays` | `RowsAreHistory` |
| `MembershipProof!SerialInvariantHolds` | with one slot `r`: `Spec => []SerialInv(r)` |
| `MembershipProof!AcceptedInvitesHaveMembers` | with one slot: `MembersIffAccepted` |
| `MembershipProof!AnswersAreFinal` | with one slot: `AnswerIsFinal` |
| `MembershipProof!RemovalsRevoke` | with one slot: `RemovalRevokes` |
| `MembershipProof!MembershipImplementsRoster` | with one slot: `ImplementsRoster`, the refinement of `Roster` |
| `LedgerProof!InvariantHolds` | `Spec => []IInv` |
| `LedgerProof!TypesAreCorrect` | `TypeOK` |
| `LedgerProof!RowsStayTogether` | `OneWorkspaceEach` |
| `LedgerProof!RequestsTouchOneWorkspace` | `TouchesOneWorkspace` |
| `LedgerProof!RulesExcludeStakes` | `RuleExcludesStakes` |
| `LedgerProof!StakesStayUsable` | `CustomStakesUsable` |
| `LedgerProof!EntriesTellTheChange` | `EntryTellsTheChange` |
| `AccountsProof!InvariantHolds` | `Spec => []IInv` |
| `AccountsProof!EndedTokensStayOut` | `LoggedOutStaysOut` |
| `AccountsProof!TypingHolds` | `Spec => []Typing` |
| `AccountsProof!TypesAreCorrect` | `TypeOK` |
| `AccountsProof!SerialInvariantHolds` | `Spec => []SerialInv` |
| `AccountsProof!CodesWorkOnce` | `OneTimeMeansOnce` |
| `AccountsProof!ConfirmedWereProven` | `ConfirmedMeansProven` |
| `AccountsProof!GhostsAreKnown` | `Spec => []Haunted` |
| `AccountsProof!GhostsAreAnswered` | `GhostsAwaitAnswer` |
| `AggregationProof!RatesInvariantHolds` | `Spec => []RatesInv` |
| `AggregationProof!RatesStayAsPublished` | `RatesAsPublished` |
| `AggregationProof!TotalsInvariantHolds` | `Spec => []TotalsInv` |
| `AggregationProof!AnswersStayTotals` | `AnswersAreTotals` |
| `AccessProof!InvariantHolds` | `Spec => []AccessInv` |
| `AccessProof!AllowedAreEntitled` | `AllowedWereEntitled` |
| `AccessProof!RefusedHaveLapsed` | `RefusedHadLapsed` |

### Contacts, however requests interleave

None of the invariants is inductive: they speak of committed rows, and what
makes a commit safe is what the uncommitted rows and the request look like.
`IInv` adds, in this order:

1. `Versions`: a row's uncommitted version has the ends of its committed one and
   is closed (answered, removed) if that was; rows nobody holds have one version.
2. `RequestsOK`: what a request's `row` and users mean at each statement; the
   ends of a row never change, so stale knowledge of them stays true.
3. `IndexesOK`: no two rows of a table occupy one place in its index, counting
   committed and uncommitted versions together. That is why two inserts that do
   not see each other still cannot both succeed.
4. `PairsOK`: every contact version has its reverse, or belongs to a request that
   stands right between the two inserts (`HalfPair`). A self-contact would need its
   own index place twice, so the half pair of a self-invite never becomes whole.
5. `OriginsOK`, `RemovalsOK`: the same for the invite a contact names and
   for who removed it.

Each statement is one of five kinds (`Quiet`, `Throw`, `commit`, `Closing`,
`InsertsRow`); `Classified` proves it once per action, and each part of `IInv` is
then preserved by kind (`VersionsKept`, `IndexesKept`, `PairsKept`, ...), not by
action.

### Contacts, requests one after the other

`SerialInv(r)` adds to `IInv` what only a request alone can rely on: it reads what it wrote
itself or what is committed (`SeesDraft`), and nobody else commits.

1. `GoodGraph(db)`: contacts are symmetric (`Symmetric`) and not across blocks (`FriendsFree`), at most one
   of two people waits for the other (`OneWay`), and an invite has a pair of contacts exactly when it was accepted
   (`Answered`).
2. `Checked(req[r])`: what the validators passed so far found still holds of the committed rows.
3. `Written(req[r])`: which rows the uncommitted versions differ in at each statement of the script, and how.

The proof follows each script statement by statement (`...Continues`), then says what its commit does
to the relations `Waits`, `Friend` and `Bars` (`...Lands`): one move of the graph, from which
`GoodGraph` is kept (`CommitLands`) and the step is one of `SocialGraph`'s (`StepsAreGraphSteps`).
The hypothesis of one slot cannot go: `contacts_block_race` shows what two slots do.

### WorkspaceMembership

`IInv` has `Versions`, `RequestsOK`, `IndexesOK` and `OriginsOK` as above, and

- `HoldersOK`: whoever is being given a permission is a member, or one the same request makes;
- `CleanOK`: no version of an invite or of a permission row is about a withheld permission; and `Placed` adds
  that no request which has passed the check on its caller's permissions has one in its list. That is the invariant behind
  `NobodyEscalates`: to pass a permission on one must hold it, in a version that is committed or one's own.

A step `Passes`, throws, commits or `WritesLawfully`; each part of `IInv` is preserved by kind.

With one slot, `SerialInv(r)` adds `Answered(db)` (an invite has one member exactly when it was accepted), `Checked` and
`Written` as for contacts. What is checked here is mostly what a pipe read before the transaction: the status
of the invite, the member not being removed. That a commit is a step of `Roster` (`RosterMove`) needs `OneSeatEach` too: taking one
invite away empties its person's place in `open`, and removing one member their seat.

### Ledger

`OneWorkspace(t)` says that the rows of a table that refer to each other are of one
workspace. `IInv` says it of the newest versions too, and adds

- `ChildrenHeld` and `ParentsSeen`, the foreign keys: whoever deletes a row holds all that refers to it, and
  what is new refers to committed rows or to rows of its own transaction;
- `RequestsOK`: what a request knows of the rows its pipes loaded (`Knows`, `Base`) stays true, as no
  row changes its workspace, though all it has read of their columns may be stale;
- `HeldOK`: a request holds rows of its own workspace only, and none before it knows which that is.

`RequestsTouchOneWorkspace` follows: the rows a commit changes are those the request holds.

That an item has a stake rule or custom stakes and never both is true only while requests do not overlap, for both
services decide by a row read before the transaction. `SerialInv` is `overlapped \/ Exclusive`, and `Exclusive` says, besides
that at most one request is under way (`AtMostOne`) and that the committed rows are right:

- an uncommitted version has both only half way through a change of stakes: `Between` its two writes;
- the row by which `setItemStakes` decides whether there is a rule to clear is still the newest version of the item.

Every statement but those of the two services that set stakes and rules is `Tame`: it gives no item a rule and no
item a stake, so `Exclusive` is kept by kind again.

That custom stakes stay usable (`CustomStakesUsable`: an active member has a positive one) holds however requests interleave, though they are many rows and
nobody locks the item or the members. The property is about steps, since a removal may take the last positive stake: if an
item is usable before a step and not after, the step removes a member with a positive stake, or commits stakes one of whose positive
members was removed since the check. `StakesInv` says why no other step does it:

- `ChecksOut`: the stakes that a request has checked are of members who were active, have a positive one among them, and
  are those of all active members unless something has overlapped. That a positive sum means a positive stake (`SumOfZeros`) is an
  induction over the fold that adds them up, done by taking a smallest set that contradicts it (`WFMin`);
- `Wrote`: after the upsert the request holds all of its stakes, as it listed them, so it commits its positive ones itself,
  whatever another request has done to the item's stakes in between;
- `RuleSet`: who deletes the stakes of an item holds the item and has given it a rule, and an item with a rule asks for no stakes.
  Without this condition in `Usable` the property would be false;
- `Kept`: any other request deletes the item, or leaves its rule and its stakes alone (`Mild` is what its statements write).

A change of seats writes no row (`SeatChanges`), and a member who goes never was the only one with a positive stake unless
they had one.

What the log tells of a commit (`EntryTellsTheChange`) is true of requests that do not overlap, for the old values are those
a pipe read before the transaction. `TellingInv` is `overlapped` or, for each request, `Told`:

- `SawCommitted`: what its pipes read is what is committed, and `Untouched`: nothing is written before the
  last read of what the entry tells of the state before;
- `OneTitle`: among the rows whose titles the request may change (`Titled`), the committed and the newest version
  differ at most in the one the entry will be about (`Subject`), whatever else cascades;
- `Settled`: what has been done to that row at each statement: made, titled, deleted, or, for a merge, gone after its
  payments and tags moved to the host, whose title is the one read again for the entry. When an item is merged with itself
  the host is the row that goes; read again it is null, and both halves of the diff tell of the one deletion;
- `Split`: of a change of stakes, what it read before, and which stakes and rule it has written since.

Statements keep `Told` by kind: those that write titles (`UpdatingTells`, `InsertingTells`, `DroppingTells`), those that write
stakes (`SplittingTells`), and the rest (`PlainTells`). At the commit the newest versions become the committed ones, so
that the diff of the subject's JSON (`DiffShowsTheTitle`) is the difference of the committed titles (`OneTitleIsTold`). A first
form of the property took the stakes of *all* members as the new ones. It could not be proved, and with a removed
member in its instance `ledger` shows why: the stake of that member outlasts the change and is not in the entry.

### Accounts

For any token: `Ended` says that once a logout ended it, it is over or on the list (`Over`), or a logout that ended
it is on its way to put it there (`Carries`). The step that delivers the list's entry, the clock and Redis's
forgetting all keep it, since Redis forgets only what is expired.

`TypeOK` needs to know what a handler carries from one statement to the next, for that is what it writes: `Typing` says
of each operation, place by place, whether it has a user (`HasUser`), the user's row (`HasRow`) or an invite, and that
its argument is one a client can send. Handlers without a transaction hold no row (`HoldsNothing`), so what they write is
committed and nothing else is. A token is signed for who was a user (`Lasting`: ids are never used again).

`OneTimeMeansOnce` and `ConfirmedMeansProven` are about requests that do not overlap, in any number of slots, and
need one invariant between them, `SerialInv`: `overlapped` or `Orderly`. A confirmation is decided by one statement
(`checkConfirmCode`), made by another (`clearConfirmCode`) and rests on the link a third one mailed, to an address that
`setUser` may have changed since. So `Upright` relates the rows, committed or not, to the mail and to what was taken:

- each code is on one row (`CodesAreUnique`), and none that was taken is on any (`Unspent`); `codes` bounds them all,
  so a new code is on no row, in no link and not taken;
- a confirm link that works was mailed to the address its user has now (`AddressTrue`); the user between the two
  writes of a registration or a change of address (`Halfway`) is the one exception, and only among uncommitted rows;
- an invite link that works names the ghost that the waiting invite is for (`NamesItsInvite`), and an invite that was
  answered never waits again (`Closed`).

`Informed` is what the one handler at work relies on, statement by statement: what it has read is still so
(`ReadsHold`), what it has written is there (`WritesHold`), and the link it came by was mailed (`FollowedLinks`). Two
requests side by side break `ReadsHold`: that is why the properties say `overlapped`. Almost every write is of one
kind, `Follows`: one user's row gets its old code, a new one or none, other users stay or go, no invite begins to
wait again; `SoundFollows` and `WritingOrderly` settle it once. That handlers crash and roll back in between is a case of its own (`ThrowOrderly`).

`GhostsAwaitAnswer` has no such excuse: it holds while an accept, a reject, another accept by a user who registered in the
meantime, invites and answers by id and the deletion of either user run side by side on the rows of one invite, though none of them locks what it has
read. It excepts what was done by id and nothing that came of overlap. `Haunted` says why:

- `Families`, the foreign keys, of the committed rows and of the newest: who deletes a row holds its children with it
  (`ChildrenHeld`), and what is new refers to rows that are committed or its own (`ParentsSeen`). An invite goes with one
  of its users only (`InvitesFollow`), and nobody comes back (`GoneForGood`);
- `Wrote`: what each handler has written at each statement, which nobody else has read, and the only rows it holds. A commit publishes
  just these: a new ghost with its invite (`WroteInvite`), an accepted invite with its ghost turned into a
  user or deleted (`WroteAsGhost`, `WroteAsUser`), an invite made or answered by id, which is `byHand` from then on
  (`WroteOpen`, `WroteAnswer`), one user's row, or rows that are deleted with their family;
- `Knowing`: what remains true of the rows a handler read earlier. The invite it answers waits for the ghost it was sent to (`Names`)
  until somebody accepts it. Then the ghost has become a user or is gone (`Claimed`). Either way no other invite that came by
  mail waits for that ghost (`Sole`), so that turning it into a user or deleting it leaves no invite without its ghost;
- `InviteLinksOK`: invites are mailed before their transaction commits, so a link names its invite, or is of a
  transaction that is about to commit (`Sending`), or of one that failed, and then no row has its code (`Dead`).

The proof shows first, by kind of write (`PutKeepsFamilies`, `DropKeepsFamilies`, `CommitKeepsFamilies`,
`RollbackKeepsFamilies`), that the keys hold, then statement by statement what each handler has written, and last what a
commit leaves to all others (`DbGrows`).

### Aggregation

A row is saved from a rate some query pulled, and a rate is found in a row some query saved: `RatesInv` says that both
are as published, and so is the rate a query holds between the two (`PulledPublished`). Queries save the same rate twice, and a
query saves after others have; neither needs to be told apart, since all of them save what was published. It says further
that a query for a rate has on its list what its quotient still lacks (`KeysOf`), so that with an empty list and nothing missing
the quotient is the published one (`QuotientPublished`). `InHand` leaves out the undefined currency, for which a query
takes any rate of the day: a query for a rate never asks for it, and a cost does only when its items are gone.

`AnswersAreTotals` compares an answer, gathered by several reads and reduced item by item, with a total over one
database. Its proof has two halves. The first is about data alone, and is an induction:

- the sum of the library over a finite set goes by whichever element `CHOOSE` yields; it goes by any (`SumByEach`), and
  over two sets apart it is the two sums (`SumSplits`);
- the total of no item is the value a reduction starts from (`TotalOfNone`), and the total of one item more is reduced
  from that of the item and that of the rest (`TotalOfOneMore`). For the first date this needs a payment of
  every item: this is where `earliest-aggregation.service.ts:13` fails and `KnownGap` begins;
- so the values of single items, reduced in any order, are the total of all (`ReducedIsTotal`).

The induction theorems of the library take an operator, which no prover here can instantiate. Inductions are therefore made
on a set of numbers, of the sizes or lengths at which a claim fails: it has a least element (`LeastNumber`, from which
`OverFinite` follows), and the claim holds below it. A recursive function of the library is first shown to exist as a table
(`SumsExist`, `ReductionsExist`), and the `CHOOSE` of its definition then obeys the recursion.

The second half is the invariant. `TotalsInv` says of each query which reads it has made and that each tells how one
database was that the query has seen since it was asked (`saw`): the items at one moment (`HasItems`), the payments at
another (`HasPayments`), the workspaces and the currency at a third and a fourth (`HasPlaces`, `ItsCurrency`). All values are metrics of
single items at one and the same moment (`HasValues`); values of several moments would add up to the metric of none. It is
the batch that makes this so: one query fetches the payments of all items. A payment is exchanged at the rates `RatesInv` knows
as published (`Exchanged`), so a cost is the total in the currency found (`CostIsItsTotal`). That one currency is right for
the items of all parents is `OneDefault`: a batch with two currencies is lost, and `LostIt` keeps why. What a query has come to know
it keeps as it sees more (`SeesMore`): a change by others adds a moment and takes none away.

### AccessRules

The properties compare what 48 rules found, read by read, with what the caller is entitled to, which is defined without
the rules. So the proof first sorts the gates: each is of one of ten kinds (`EveryGateHasAKind`), by the form of its
rule and by which of its keys lead to workspaces and which to users (`Gathers`). A resolver whose rule asked about another
key than the one its pipes lead to a workspace by would be of no kind. `AccessInv` then says, of the rows and of the check under way:

- `RowsOK`: what others may have done to the rows. Only items disappear and a payment stays with an item of its workspace
  (`OfRow`), so wherever the arguments led when the request arrived they lead at every later read (`KeysReach`, `PipesLead`);
- `KeysOK`: how far each key has come, and that it ends at the row its argument leads to by the foreign keys (`Final`),
  although the rows between were read at different times; `PlacesOK`: these are the places and people of the request;
- `SightOK`: what holds now was seen, and a caller not entitled now has `lapsed`;
- `LeavesOK`: what each answer tells. A yes says that the seat or the permission was there at some moment, a no
  that the caller lapsed, or is an administrator or owns the place, and then another leaf of the rule says yes.

At the verdict each kind is settled by itself (`WorksRight` ... `CancelsRight`). The proof did not go through at first: the modelled
merge moved every payment, also those of another workspace's items, to the surviving item, so a payment could lead to
another workspace in the middle of a check. The code moves the payments of the merged item only
(`item-merge.service.ts:31`), and so does the model now; the instance has a payment in each workspace to see it.

### What is only model-checked

- Liveness (`RequestsEnd`, `EveryQueryEnds`): fairness and `ENABLED` are out of the prover's reach.
- Whatever a run shows to be violated (`MergeKeepsPayments` and the two of the contact and cost runs).

## Not modelled, and what is left

Every safety invariant and every action property that a passing run checks is a theorem. What stays with TLC is
liveness alone.

Not modelled: history entries of invites and members (no diff or message is made of them);
queries that only list rows; `CurrencyRateService.get`, `findOrPull`,
`getPaymentsCount`, DENY rules and arrays as rules, which no resolver reaches; `filterPayments`, which picks
rows of an item already loaded for display (it leaves out the day `dateTo`, which the filter of the
queries, `payment.service.ts:160`, includes).

Left out for good: mail, spreadsheet and data-migration (pure I/O), GraphQL
plumbing, group and date helpers (no state), JWT and bcrypt (external).
