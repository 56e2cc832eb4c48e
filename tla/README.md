# Verification of the hoduong back end

The program is a NestJS service over PostgreSQL (through Sequelize), Redis and a
Bull queue. It keeps the members of a family, their accounts and roles, and the
family tree they form. This directory holds TLA+ models of the parts of it that
have state worth reasoning about, TLC configurations that check them on small
instances, and TLAPS proofs of what matters for instances of any size.

    tlc -workers 2 -config UserStatus.cfg MCUserStatus.tla    # a run
    tlapm RoleSyncProofs.tla                                  # the proofs of a module

Paths below are relative to `src/src/` unless they start with `docs/`, which is
`src/docs/`, or `sequelize/`, which is `src/sequelize/`.

## 1. The system

One Node.js process serves HTTP requests. A handler runs until its next `await`,
then other handlers run; every statement it sends to PostgreSQL or Redis is such a
point. PostgreSQL is used at its default isolation level, READ COMMITTED: a
statement sees what is committed when it runs and what its own transaction wrote,
and a row that a transaction has written is locked until the transaction ends.
Nothing in the code asks for more (no `SELECT ... FOR UPDATE`, no advisory lock,
no version column), so checks made on rows that were merely read can be out of
date when the write arrives. That is the theme of most of what follows.

| Component | State | Operations | Talks to | What makes it correct |
|---|---|---|---|---|
| Family tree service (`modules/nodes`, `modules/couples`) | tables `nodes`, `couples` | create, attach, update, remove | transaction service, user repository | one root, a couple for every live node, member counts that lose no update |
| Family tree view (`modules/nodes/helpers/node.mapper.ts`) | none | tree, parents, children | node repository | the three views tell one tree |
| User status (`UserService.changeUserStatus`, `restoreUser`, strategies) | `users.status` | change, restore | audit hook | only legal moves, every change logged, every request ends |
| User update (`UserService.update`) | `users`, `user_roles` | update with role list | list cache | the roles are those of the list |
| User creation (`CreateUserUseCase`) | `users`, `user_roles`, tree, the pool of connections | create | user, role and tree services, audit hook | unique contacts, no half-made member, no wait for a connection for ever |
| Audit log (`shared/model/base.model.ts`) | `audit_logs` | three hooks | every model | a row for every change that is reported done |
| List cache (`core/services/base.service.ts`, `redis/redis.service.ts`) | Redis lists | getPagination, create, update, delete | Redis, repository | a page is never out of date for long |
| Generic records (`core/services/base.service.ts`, `domain/repositories/base.repository.ts`) | tables `roles`, `permissions` | create, update, delete, getById | audit hook, interceptor, filter | what the client is told is so |
| Error mapping (`core/interceptors`, `core/filters`) | none | error to status | every handler | a refusal changed nothing |
| Login, lockout, session (`modules/auth/services/auth.service.ts`) | counter and lock of a user, session record in Redis | login, refresh | user service, Redis | the lock counts failures and stays, a session shows the user's roles |
| Access control (`core/guards`, `modules/rbac`) | none, reads the session | JWT guard, role guard | Redis, role repository | a request passes with permissions that are granted now |
| Sign-up by code (`sign-up`, `OTP.service.ts`) | code record in Redis | register, verify | mail queue, Redis | no code stored and forgotten, counters honoured |
| Mail queue (`bull`) | Bull jobs | add, process | sign-up | a mail is sent, or its job is gone |
| Rate limit guard | counter in Redis | pass or refuse | Redis | a client is let in again |
| Lists and search (`modules/users/query`, `UserRepository`, `NodeService.getAll`) | none | page, sort, count | Sequelize | walking the pages shows everybody once |
| Schema (`sequelize/migrations`, `infrastructure/database`, the models) | tables, keys, `SequelizeMeta` | migrate, undo, synchronise | PostgreSQL | the tables are those the services work on |
| Linked lists (`core/data-structures`) | pointers | append, prepend | nothing | they are the sequences they stand for |

`PROJECT.json` lists every component with its status, those that are not modelled
too, and every hazard with its line.

The parts meet in few places. Members are made by `CreateUserUseCase` and looked up
by sign-up (module `Registration`). A login copies the roles of a user into a
session that guards judge later by tables that others change (module `Access`). The
tree's tables are read by its views (`FamilyTreeView`). Every service depends on
the schema (`Schema`), on the interceptor and the filter (`Records`), and on the
pool of connections (`CreateUser`).

## 2. Modules

| Module | Models | Role |
|---|---|---|
| `AccountLifecycle` | the transitions that `userStatusStrategy.ts` allows, and restore | abstract specification |
| `UserStatus` | `changeUserStatus`, `restoreUser`, their transaction and audit hook | implements `AccountLifecycle` |
| `FamilyTree` | `NodeService.create`, `attachMemberToTree`, `update`, `remove` with the repositories below them | detailed |
| `FamilyTreeView` | `getAllAsTree` with `mapEntityToTree`, `getParents`, `getChilds` | operators over the tables of `FamilyTree` |
| `RoleSync` | `UserService.update` | detailed |
| `ListCache` | `BaseService.getPagination`, `create`, `update`, `delete`, `RedisService.delCache` | detailed |
| `Login`, `RoleGuard`, `Access` | login, lockout and session; the guards and what changes roles; both on one session store | two components, composed |
| `CreateUser`, `SignUp`, `Registration` | `CreateUserUseCase.execute`; sign-up with its record and mail queue; both on one `users` table | two components, composed |
| `MemberSearch`, `Records`, `RateLimit`, `LinkedLists`, `Services` | the paginated lists; the generic records with interceptor and filter; the rate limit guard; the lists | four components, each behaviour of one of them |
| `DequeSpec` | a sequence that grows at both ends | abstract specification of `LinkedLists` |
| `Schema` | the migrations, their undo, and the synchronisation at the start | detailed |
| `MC*` | constants for TLC, imported trees, symmetry sets | model checking |
| `*Proofs` | inductive invariants, lemmas, theorems | proofs |

An operator whose name has the form `Definition_Mistake` and that stands before
`Definition` is that definition with a mistake the code might have made (a dropped
guard, a statement sent outside its transaction). No specification uses it; put in
place of the definition it makes the property that `PROJECT.json` names with it
fail, which shows that the property depends on the code.

### UserStatus

`status` is the committed column, `holder` the row locks, `logged` the audit rows,
`req` what every handler is in the middle of. `Validate` is `changeUserStatus` up
to `sequelize.transaction()`: one read, the early return for an unchanged status,
the strategy's check. Between it and `Save` (the UPDATE, which waits for the row)
other handlers run. `LogUpdate` is the AfterUpdate hook, which inserts its row on
another connection; `Commit` and `Fail` are the two ends of the `try`; `Crash` ends
the process. `restoreUser` is `FindArchived` and `Restore`, one UPDATE by id. Calls
that return or throw before they write change nothing and are no steps.
`overtaken` is history: the handlers whose user another one changed since they
read it.

### FamilyTree and FamilyTreeView

`nodes` and `couples` are the committed tables. An open transaction keeps its
uncommitted rows in `draft[h]` and `newCouples[h]`; a row in `draft[h]` is locked
by `h`. `tx[h]` is the request: the fields of its DTO and the stage it has reached,
one stage for each statement. `Commit` merges the drafts into the tables,
`Rollback` (a check that throws, an error, a deadlock that PostgreSQL ends, a dying
process) drops them. Two constants say in which database the service runs:
`UniqueIndexes` (the unique indexes of the migrations), and `SchemaComplete`: the
repositories filter on a column `status`, which neither the model nor a migration
of `nodes` declares, so that on the schema as declared the statements that use it
fail. With `SchemaComplete` FALSE the model has exactly the operations that still
work; with TRUE it shows what the code does once the column is there.

The view has no state: `TreeBelow` is the recursion of `mapEntityToTree`, which
leaves out every child whose user is active, with all below it; `Parents` and
`Childs` are the two look-ups by user.

### RoleSync

`roles` holds the committed rows of `user_roles`. A request opens its transaction
(`Begin`), writes the columns of the user (`UpdateUser`), reads the current roles
and computes the diff (`ReadRoles`), deletes (`DeleteRoles`), inserts
(`InsertRoles`) and commits. Of the columns only this is kept: whether the request
changes one. If it does, Sequelize sends an UPDATE, which locks the row of the user
until the end of the transaction; if not, it sends none and takes no lock.
`InsertRoles` cannot happen while the unique constraint `(user_id, role_id)`
forbids it; the request then ends in `Fail`, as an error does. `added`, `dropped`
and `unlocked` are history.

### ListCache

`cache` is what Redis holds for one entity, `rows` the table, abstracted to the
number of its last committed write, `req` the requests in flight. A read that
misses is `Miss`, `Query`, `Store`, with awaits in between. A write starts its
invalidation first (`StartWrite` sends KEYS); `FindKeys` and `DeleteKeys` are the
two calls of `delCache`; `Commit` is the write itself, which `create` and `update`
do not keep back for the invalidation and `delete` does. `CleanFails` is the error
that `cleanCacheRedis` swallows. `Bare` is the key of a request without
parameters: it ends in `list`, while the invalidation looks for `list:*`, so that
`FindKeys` never finds it. `Tick` lets time pass, `Older` is Redis's expiry.

### Login, RoleGuard, Access

`Login` is one account. `attempts` and `lock` are its columns; locks are numbered in
the order in which they are set (0 is none) and run out in that order, so that "this
lock or a later one" can be told. A login (`req[h]`) goes through `Find`,
`ResetExpired`, `RefuseWrong` or `Accept`, `ResetAccepted`, `ReadRoles` and
`StoreSession`; what it decides on is the row it read in `Find`. A wrong password
starts a count that nobody awaits: `due` counts those that have not read the row
yet, `held[n]` those that are about to write `n` (`ReadCounter`, `WriteCounter`).
`shadowed` is a property of the build: `failed_login_attempts` is declared as a
class field without `declare`, and with class fields of ES2023 such a field hides
Sequelize's accessor. Then the sum is NaN, PostgreSQL refuses it, nobody handles the
rejection, and the process ends. Both builds are explored. `wrong`, `tally`,
`mixed` are history: wrong passwords, those since the counter was last cleared, and
whether two counts have overlapped since.

`RoleGuard` holds the role tables and the guarded requests: `JWTAuthGuard` verifies
the token (`Authenticate`), `RbacGuard` reads the session once and then looks up one
role name after the other (`LookUp`), while `EditTables` renames, deletes, grants,
revokes and assigns. `seen` is history: what the names granted between the arrival
of the request and its decision. `Access` composes both over `sessions`, `tokens`
and `now`; `lastHad` is history.

### CreateUser, SignUp, Registration

`CreateUser` numbers the steps of the use case (`Steps`): two checks on what is
committed, the insert of the member with the audit row its hook writes, the default
role, the role, node and couple with an audit row each, the commit. A request holds
one connection of the pool from `Begin` to its end; a step in `Borrowing` needs
another one (`free > 0`), as the code does not pass the transaction to it. `Insert`
waits for a transaction that has inserted the same key, `Refuse` is the statement
that meets a committed one, `TimeOut` the pool's timer, `Fail` any other error.
The audit rows commit for themselves and stay when the request rolls back.

`SignUp` is one address. The handler of a first request stores the record and then
queues the mail (`StoreFirst`, `MailFirst`), that of a later one queues first and
stores then (`MailAgain`, `StoreAgain`); between the two it is in `Midway`. The
minute of a first code begins before it is stored (`next` of the handler). `verifyOtp` reads, and writes the whole
record back with one more wrong try (`StoreWrong`). A job is tried once and removed
when it fails (`MailFails`). `mails`, `stale` and `raced` are history. `mails` counts the codes when they
are queued, apart from the record, and keeps when the next one is due; `cut` is the
number of those whose request failed or died before the record was stored. `stale`
are the handlers that have read a record which is no longer there; `raced` says that
one of them wrote it back.

`Registration` composes them: `findEmail` of sign-up sees the committed members.

### Services and its parts

`MemberSearch` walks a client over the pages of one list: `findAndCountAll` is two
queries on two connections (`torn` when somebody came or went between them), ties of
the order are broken by PostgreSQL as it likes. `Records` takes a call of
`BaseService` from its reads through its statement and its audit row to the status
that `BaseResponseInterceptor` and `AllExceptionsFilter` make of what was thrown
(`Intercept`, `Filter`). `RateLimit` is `INCR`, `EXPIRE` and `TTL` as three commands
with crashes between them. `LinkedLists` keeps nodes, `head`, `tail` and `size`;
`Told` is what the methods of the lists report, and the refinement maps it to
`DequeSpec`. The four share no state; `Services` picks one at the start of a
behaviour, so that one run checks them all without multiplying their states.

### Schema

`maker[t]` says whether a migration or the synchronisation made table `t` (or that
it is not there), `keys[t]` which of its indexes and constraints exist, `recorded`
is `SequelizeMeta`. `command` is a run of `sequelize-cli`, statement by statement,
which can be cut anywhere; `StartApplication` and `SyncTable` create what is missing
from the models. `Migrated` and `Modelled` are the columns of both sources with
whether a row must bring a value, `Named` and `Brings` what the services ask for and
insert.

## 3. Runs

| Run | Instance | What it checks |
|---|---|---|
| `user_status` | one user, two handlers, failures and crashes, fair | `StatusIsLogged`, `LegalUnlessOvertaken`, `RequestsEnd` |
| `user_status_serial` | three users, one handler | `LifecycleSpec`: the service implements `AccountLifecycle` |
| `family_tree` | three users, three nodes, two handlers, no unique index, no update | `Acyclic`, `LiveNodeHasCouple`, `CountMovesByOne` |
| `family_tree_serial` | three users, three nodes, one handler, with spouses | `OneLiveRoot`, `OnlyChild`, `ViewsAgree` |
| `family_tree_updates` | an imported root and one more node and user, two handlers, unique indexes | `KeysAreUnique`, `RemovedStaysRemoved` |
| `role_sync` | one user, three roles, two handlers | `OnlyOverlapsMix`, `LockedUpdateReplaces` |
| `list_cache` | a page and the bare list, two handlers, two writes, entries of two ticks, fair | `StaleForATimeOnly`, `FreshUnlessOverlapped`, `Converges` |
| `access` | two logins, one guarded request, two roles, two permissions, one session | `LockIsRespected`, `NeverOvercounted`, `LockedAtTheThird`, `PassesOnLiveGrants`, `RevokedForATimeOnly` |
| `registration` | two creations of two members with one name, a pool of two, two sign-ups, fair | `ContactsAreUnique`, `MembersAreWhole`, `CreationsEnd`, `CodesAreLimited`, `OneCodeAMinute`, `StoredCodeWasSent` |
| `services` | one part at a time: three members, two ids and names, two callers, lists of three, fair | `PagesTellTheList`, `AnswersAreTrue`, `DoneIsLogged`, `RefusalsEnd`, `ListsAreSequences` |
| `schema` | one cut, one undo, starts at any time | `OnlyDisturbedCommandsFail`, `RecordedIsComplete`, `OnlyKnownDrift` |
| `family_tree_cycle` | three nodes, one handler, updates | the violation of `Acyclic` in section 6 |

`UserStatus`, `FamilyTree`, `RoleSync` and `ListCache` have a `TypeOK` that their runs
check; the types of `Access` and of `Registration` are part of their proofs. What the
other properties say:

- `StatusIsLogged`: a status other than PENDING has an audit row, although the row
  is written outside the transaction.
- `LegalUnlessOvertaken`: only a request whose user was changed after it read makes
  an illegal move.
- `RequestsEnd`: nobody waits for a row for ever.
- `Acyclic`: creating, attaching and removing make no cycle, however they overlap.
- `LiveNodeHasCouple`: no interleaving or failure leaves a node of the tree without
  a live couple.
- `CountMovesByOne`: two overlapping requests below one father both count.
- `RemovedStaysRemoved`: an update that read a node before its removal does not
  bring it back, because `node.update` saves only the columns that differ.
- `KeysAreUnique`, `OneLiveRoot`, `OnlyChild`: what the checks alone give to
  requests that do not overlap, and what the indexes give to those that do.
- `ViewsAgree`: the tree shows the nodes that hang on the root by nodes of the tree
  whose users are not active, and nothing else, and `getParents` and `getChilds`
  tell the same edges.
- `OnlyOverlapsMix`: two overlapping updates of a user can leave a mix of their role
  lists, but a role deviates from the list of the request that commits only when a
  commit in between decided otherwise.
- `LockedUpdateReplaces`: updates that change a column exclude each other, and
  leave exactly their list.
- `StaleForATimeOnly`: whatever overlaps, fails or dies, a page is out of date for
  less than its life in Redis and the delay of the SET that stored it.
- `FreshUnlessOverlapped`: the invalidation suffices for reads and writes that do
  not overlap. The bare list is exempt: it is never invalidated.
- `Converges`: once the writes cease, the cache comes to show the table.
- `LockIsRespected`: only a request that found the account before a lock was set
  lifts it (it resets an older lock, or accepts a password, by id alone).
- `NeverOvercounted`: the counter and the locks stay behind the wrong passwords.
- `LockedAtTheThird`: counts that do not overlap lock at the third and not before.
- `PassesOnLiveGrants`: a request passes on permissions that its session's roles
  granted while it was judged, although they are read at different moments. One
  permission may supply the resource and another the action: so the code decides.
- `RevokedForATimeOnly`: a role lives on in sessions after it is taken, for less
  than the life of a session.
- `ContactsAreUnique`: the unique columns decide, whatever the checks before saw.
- `MembersAreWhole`: whoever is committed has a role, an audit row for each row, and
  a node exactly if he has a couple.
- `CreationsEnd`: requests that hold all connections of the pool and each wait for
  one more come to an end.
- `CodesAreLimited`: the codes that are mailed exceed the count in the record by no
  more than the requests that are between the mail and the SET, or failed or died
  there; the wrong codes are counted one by one; both counts keep their limits. All
  of it unless a handler wrote back a record that was replaced meanwhile.
- `OneCodeAMinute`: a code is mailed again no sooner than a minute after the one
  before it, with the same exceptions. The minute of a first code runs from the time
  it was asked for (`lastTime` is taken before the scan), that of another from the
  time it was queued.
- `StoredCodeWasSent`: a code that can be verified was mailed, waits in the queue,
  is about to be queued, or its job or process has failed.
- `PagesTellTheList`: a walk shows whoever was there all the while, and nobody
  twice, under the conditions that the two parts of it name.
- `AnswersAreTrue`: what is answered with a 4xx has changed nothing, and of several
  deletions of a row one is told that it was.
- `DoneIsLogged`: what is answered with success has its audit row.
- `RefusalsEnd`: a client over the limit is let in again, unless a process died
  between INCR and EXPIRE.
- `ListsAreSequences`: the pointer structures implement `DequeSpec`.
- `OnlyDisturbedCommandsFail`: the migrations run in the order of their names,
  unless one was cut or the application made a table first.
- `RecordedIsComplete`: what `SequelizeMeta` records is there with all its keys.
- `OnlyKnownDrift`: migration and model of a table agree on what the services need,
  whichever made it, but for the tables that are named.

### Bounds

Two handlers are what it takes for one request to be overtaken by another, to meet
its lock or to read what it has not committed; the theorems cover any number.

- `FamilyTree`: three nodes and three users allow a father, a child and a third node
  to attach, move or cycle through. `OrderMin` and `OrderMax` bound `child_order`,
  which attach and remove move by one: the range lets each happen, in `family_tree`
  twice in a row.
- `RoleSync`: three roles allow a role that is kept, one that is added and one that
  is dropped in the same diff.
- `ListCache`: an entry lives `TTL` = 2 ticks (30 seconds in the code), so that it
  can be young, old and gone; `Delay` bounds how long a page is on its way between
  query and SET, which the code does not bound (a timeout of the Redis client
  would); `MaxWrites` = 2 lets a page be outdated and outdated again. A write after
  the bound is one that changes no row.
- `Access`: `MaxWrong` = 4 lets a lock be set at the third wrong password and a
  count arrive after it; `SessionLife` = 1, `MaxNow` = 1 and `MaxEdits` = 2 let a
  role be revoked and the session expire. `QuietWrong` = 0: wrong passwords on the
  one hand, changes of tables, guards and the clock on the other are explored side
  by side; the two halves meet in sessions and tokens only, which both contain.
- `Registration`: a pool of two is held in full by two requests (`PoolSize`; the
  default is 5). `LimitSend` = `LimitCheck` = 1, `MaxCodes` = 3 and `MaxTime` = 2
  let both limits be met and the minute pass; `Life` = 2 lets the record expire;
  `MaxClients` = 2. `Bounded` explores creations and sign-ups side by side, and both
  together in small states (`QuietCodes` = 1: one creation, one code). It never cuts
  a behaviour of creations alone, so that liveness is judged on those in full.
- `Services`: pages of one member and three pages (`Limit`, `LastPage`; the code
  allows 10 pages), two moves in or out; a limit of two requests (`RateMost`) with
  `Most` = 4 counted; lists of up to three nodes.
- `Schema`: `MaxCuts` = `MaxUndos` = 1; every table of the program is in it.

`CHECK_DEADLOCK FALSE` stands where all requests can be at rest with the small
tables full or a bound reached. Symmetry is used in runs without liveness only, on
sets whose members are merely compared.

### Fairness

`UserStatus!FairSpec`: weak fairness for the steps of a handler that wait for
nothing (the event loop resumes a settled `await`), strong fairness for the two
that wait for a row, since PostgreSQL queues the waiters of a row in the order of
their arrival. `ListCache!FairSpec`: weak fairness for the steps of a handler (both
servers answer) and for the passing of time. `CreateUser!Fairness`: strong fairness
for the steps of a request and for its refusal, since both the pool and PostgreSQL
serve those who wait in the order of their arrival, and weak fairness for the
pool's timer. Without the timer (`TimeOut_Never`) two requests hold the pool and
wait for each other for ever. `RateLimit`: weak fairness for Redis's expiry and the
clock. Nothing is assumed about failures; `Crash` and new requests are never assumed
to happen, or not to happen.

## 4. Proofs

Every theorem holds for all values of the constants that satisfy the named
assumptions of the module; the runs check the same properties first. An assumption
of a component that is instantiated (`LoginConstants`, `CreateConstants`, ...) is
assumed by the module that composes it (`AccessAssumption`,
`RegistrationAssumption`), which TLC evaluates.

**UserStatusProofs.** `IInv` adds to `StatusIsLogged` what makes it inductive, and the
moves legal: `Fresh` (a request that is not overtaken still sees the status it
read), `Validated` (a request in flight passed its strategy) and `AboutToCommit` (a
request past its hook has its audit row). The row lock takes no part in it: it
delays a request and decides nothing. Theorems: `TypeCorrect`, `StatusIsLoggedHolds`, `LegalUnlessOvertakenHolds`, and, for a single handler,
`SerialServiceIsLifecycle`: every step is a step of `AccountLifecycle` or leaves
the statuses alone.

**FamilyTreeProofs.** `LiveNodeHasCouple` is not inductive: a commit publishes rows
that were written long before. `IInv` therefore speaks of the open transactions:
`Established` (what a request found still holds, because rows never go away),
`RowLocks` (no two drafts of one row), `DraftsReviveNothing`, `NewRowHasCouple` and
`FathersExist`. Theorems: `TypeCorrect`, `LiveNodeHasCoupleHolds`,
`RemovedStaysRemovedHolds`. `AcyclicWithoutUpdates` needs more: `AInv` says that no
update is in flight and that a draft keeps the father of a committed row; then a
set of nodes that hang on one another for ever would contain a committed one, and
all of it would have been committed. The theorem assumes that clients send no
update, and the run `family_tree_cycle` shows that the assumption is needed.
`CountMovesByOneHolds` needs `CInv`: what a request has written so far (`Counts`)
keeps the count of its father exactly one off the committed row, which no other
request can move since the draft holds its row lock. `KeysAreUniqueHolds` assumes
`UniqueIndexes`, the indexes of the migrations, and strengthens the property to all
rows, committed or not (`KInv`), because the indexes of PostgreSQL bind a statement
before it commits; that indexes hold over what was imported is the assumption
`IndexesHold`. `OneLiveRootHolds` and `OnlyChildHolds` are about a service that takes
one request at a time (`NoOverlap`), from an imported tree that keeps the property
(`ImportedOne`); `SInv` carries the check of a request to the row it inserts: what
was found free is still free (`FoundFree`), and a draft puts nobody under a father
but a new node that is alone there (`AddsOne`). The first holds for every kind of
request, updates too, since an update that names no father writes back the one it
has read, and so makes no root; the second assumes that clients send no update,
which moves a node below a father without asking whether he has a child.
`ViewsAgreeHolds` assumes the same. `TreeBelow` and `Line` grow by generations, as
the code's recursion does; since the ids are finite (`NodesAreFinite`) the growth
comes to rest, at the least set that is closed under children, or under fathers
(`TreeIsClosure`, `LineIsClosure`). With one root, one child at most and no circle
(the invariants above), and one node per user (`OInv`, which rests on the checks of a
single handler and not on `UniqueIndexes`), a node
whose line is shown all the way hangs on the root: else the nodes above it would go
on for ever, in a circle (`OneTreeAgrees`).

**RoleSyncProofs.** `DiffsAreValid` says that the diff of a request still accounts
for the committed rows, but for what commits since its read have decided: it is
kept by every commit of a rival because that rival leaves only roles it wants, and
removes only roles it does not. `OneLock` and `LockKeepsOut` say that two requests
never hold the row of one user, so that only a request without lock commits beside
one with it. Theorems: `TypeCorrect`, `OnlyOverlapsMixHolds`,
`LockedUpdateReplacesHolds`.

**ListCacheProofs.** `EntryAges` says that the ticks for which an entry has been out
of date and those it has left to live add up to at most `TTL + Delay`; `PageAges`
bounds what a page brings along. `PagesAreCurrent` and `EntriesAreCurrent` say that
what no write has overlapped is current, or that every write under way is still to
remove it. Theorems: `TypeCorrect`, `StaleForATimeOnlyHolds`,
`FreshUnlessOverlappedHolds`.

**AccessProofs.** That a lock has a third wrong password of its own is not
inductive, since the counts that are under way will still add to it. `LocksAreEarned`
keeps a balance: the wrong passwords that are neither due, nor in hand, nor spent
on a lock are at least what the counter shows, and two more than the counts in hand
where a lock is on. `OneAtATime` says what a history without overlap looks like,
`CameBefore` that a request knows only locks that were set when it came,
`SessionsAreDated` that what a session names was the user's when it was read, and
`FoundWasLive` that what a guard has found so far is in what it has seen. Theorems:
`TypeCorrect` and one for each of the five properties of the run.

**RegistrationProofs.** `CreateInv`: an open transaction holds the rows of exactly
the steps behind it (`InStep`), and no key is in two places, be they committed or
drafts (`KeysDiffer`). `GoesOn` is what all steps of a request share; `EndKeeps` is
the commit, which publishes a complete draft, and every other end. `SignUpInv`:
what a handler has read is still so unless it is in `stale` (`FreshReads`); while no
write was stale, `Counts` says that the counters keep their limits (`Limited`), that
the codes mailed are balanced by the count, the requests midway and those cut there
(`Balanced`, a matter of cardinalities, for any finite set of requests), and that the
record knows when the next code is due once nobody is midway (`Due`); and every code
that is stored or about to be stored is on its way (`NoneForgotten`). Theorems: `InvariantsHold`, which is also that neither part
disturbs the other, `ContactsAreUniqueHolds`, `MembersAreWholeHolds`,
`CodesAreLimitedHolds`, `OneCodeAMinuteHolds`, `StoredCodeWasSentHolds`.

**ServicesProofs.** `GoesOnce` follows a record that is deleted: the calls that found
it may be many, the one whose statement took it away (`Took`) is one, it is not told
yet or has been told, and the row does not come back. `DrawnFirst` says that a call
is about an id that was drawn, so that a creation, which draws another, revives
nothing. `GoesOn` and `Ends` are the two ways a step of a call can go; what is
answered to which error is computed once (`StatusesAre`, `FailuresAre`). Theorems:
`RecordInvHolds`, `AnswersAreTrueHolds`, `DoneIsLoggedHolds`.

`PagesTellTheListHolds` follows a member through the pages by his rank, the number
of members before him in the order of the list. While nobody comes ranks only fall,
so that who has been on a page is behind the pages to come (`Behind`); while nobody
goes they only rise, so that who has not been on one is still ahead (`Reached`). An
order without ties makes the place of a member on the list his rank. The total
counts at least those shown, since the join with the roles (`Joined`) holds one
pair at least for each of them.

`ListsAreSequencesHolds` is the refinement of `DequeSpec`. Each list is a chain along
an order `p` of its nodes (`IsChain`): `next` leads along `p`, `prev` against it, and
`head` and `tail` are its ends. `append` and `prepend` make another chain, along `p`
with the new node at one of its ends (`PutLastIsChain`, `PutFirstIsChain`), and
whoever walks a chain reads the data along `p` (`WalkIs`). What the deque shows is
therefore what the list tells (`ToldIs`), and every step is one of the deque.

**SchemaProofs.** The tables, keys and migrations are those the repository declares;
what is arbitrary is how often commands are begun, undone and cut (`MaxCuts`,
`MaxUndos`) and when the application starts between them. `RInv` says what a command
has done of its migration (`Progress`: the statements before the next one have left
their table and keys) and that a recorded migration is complete but for an undo under
way (`StaysComplete`); `RecordedIsCompleteHolds` follows. `Makers` (a migration makes
only the tables it declares) reduces `OnlyKnownDriftHolds` to a comparison of each
declaration with its model. `OnlyDisturbedCommandsFailHolds` rests on `UInv`: as long
as nothing was cut and the application made no table, what is recorded is a prefix
of the order (`MetaInOrder`), the command at hand is the next after it or its last
(`CommandInOrder`), and the tables that exist are the recorded ones and that of the
command (`TablesInOrder`); the migrations that a table refers to come before it
(`RefsComeBefore`), and no key is declared over a column its table lacks
(`KeysFit`), so that each statement runs.

Only model-checked, and why:

- the liveness properties `RequestsEnd`, `Converges`, `CreationsEnd` and
  `RefusalsEnd`: fairness and ENABLED are out of the prover's reach;
- the violations.

Every safety invariant, every action property and both refinements of the passing
runs have their theorem. Where one needs an induction over numbers (how far a tree
has grown, how far a walk has come), it is made by the least element of a set of
numbers (`LeastElement`, from the well-foundedness of <), since the theorems of the
library that take the formula to be proved as a parameter cannot be used.

## 5. Abstractions, and what is not modelled

- A statement that has to wait for a lock is evaluated when the lock is free;
  PostgreSQL evaluates its condition before the wait and again on the row after it.
- A statement locks all its rows at once. Circles of locks between transactions are
  ended by PostgreSQL, which fails one of them: `Fail` and `Rollback` are always
  possible, so a circle is covered by them, and no property claims that none forms.
- A commit takes effect or fails; the loss of the answer to a commit is left out.
- Columns that only record who wrote and when are left out, and so is
  `NodeService.changeStatus`, which writes nothing else. `deleted_at` of a user is
  never set.
- Passwords and codes are compared, never computed: argon2's answer and the tried
  code are choices. Codes are drawn fresh; two draws of the same six digits are left
  out.
- One entity has one family of cache keys; `ListCache` is an instance of it. The
  invalidation that `UserService` triggers has the same form.
- Filters and keywords of a list are abstracted to who satisfies them.
- Outside `src/` and modelled from its use: row locks and visibility of PostgreSQL,
  the pool of Sequelize, expiry of Redis, the order of sequelize-cli, the end of the
  process.

Not modelled, and why:

- Code without a caller: `runInSavepoint`, the version counter of `RedisService`,
  `upsert`, `bulkUpdate`, `bulkDelete`, `findByFields` and others of the
  repositories, `prepareSearchParams`, `order.builder.ts`, `addOrderJob`,
  `email.worker.ts`, `email-processor.ts`, `resetVerifyOtp` (its schedule is
  commented out). `detachMemberByUserId` and `attachMemberToTree` are not modelled as
  entry points of their own; what the latter does is the attach branch of `create`.
- Orders: the service is commented out.
- MCP transport: `AppModule` registers `mcp.controller.ts`. It keeps the open
  connections of the MCP SDK and touches no state of the application, since the
  handler of its one tool is commented out; whether two connections may overlap is
  decided by `Server.connect` of the SDK.
- Analytics and passwords keep no state; `ErrorService` and `LoggingInterceptor` are
  text; the rest of the bootstrap is wiring.
- Read-only queries are no actions; what a modelled operation reads is part of it.

Some of what is modelled is code that exists but is not reached at present; it is
modelled as it would run: `verifyOtp` has no route, `RbacGuard` and the decorator of
`RateLimitGuard` are on no route, the linked lists are used by nothing.

## 6. Divergences

What documents, comments or names say and the code does not keep. The first has a
run. The next four are properties of `FamilyTree` that fail in the given
configuration when they are added to it.

- "Family trees must not contain cycles" (`docs/business-rules.md:242`): update
  writes `father_id` without looking at where the new father hangs, and one request
  puts a node below its own descendant (run `family_tree_cycle`).
- "Add parent child relationship ... Success" (`docs/test-scenarios.md:55-58`): on
  the schema as declared every creation below an existing father fails, as the query
  for its children filters on a column that does not exist (`ChildCanBeAdded`,
  `FamilyTreeUpdates.cfg` with `SchemaComplete = FALSE`).
- "Orphan nodes are not allowed" (`docs/business-rules.md:245`): a father is looked
  up by id, removed or not, and gets a live child (`NoOrphan`,
  `FamilyTreeSerial.cfg`).
- "A family tree must have exactly one root node" (`docs/business-rules.md:236`):
  two overlapping creations make two roots, and no index covers a father that is
  null (`OneLiveRoot`, `FamilyTree.cfg`).
- "Concurrent updates must be handled safely" (`docs/business-rules.md:358`): an
  update that names no father writes back the one it read first
  (`UnnamedFatherIsKept`, `FamilyTreeUpdates.cfg`).
- "Generation levels must be derived consistently" (`docs/business-rules.md:248`):
  a couple's level is derived once; moving a node leaves its level and those of its
  descendants as they were.
- The tree leaves out every node below the root whose user is active, with all below
  it; `getChilds` answers at most one child, as a list.
- A status change that is overtaken makes moves the strategies forbid, for example
  PENDING to SUSPENDED when a restore is committed in between. `LegalUnlessOvertaken`
  states what is left.
- A restore leaves no audit row: it goes through the static `Model.update`, for
  which no AfterUpdate hook runs. `StatusIsLogged` exempts PENDING for that reason.
- The audit row of a status change or of a creation is inserted outside its
  transaction and stays when that is rolled back.
- Two overlapping updates of roles alone leave a mix of their lists.
- The list without parameters is never invalidated, and only expires.

Login and guards:

- Overlapping wrong passwords count once (`mixed`); the count of a wrong password can
  arrive after a right one has cleared the counter.
- A token that `refreshToken` signs carries neither `sub` nor `session_id`
  (`modules/auth/services/auth.service.ts:183`), so that the role guard refuses it.
- A session that is gone is a TypeError, which is answered 400 and not with the 401
  "Session expired" the guard has for it. A session lives 84600 seconds, half an
  hour less than the access token that names it.

Sign-up and creation:

- The mail says that the code is valid for 5 minutes, the record lives a day; a wrong
  try writes it back without expiry, so that it never goes.
- Sending a code again resets the count of wrong tries.
- A right code never creates an account: `createUserWithEmailOnly` gives values that
  the model refuses.
- `scanlAlKeys` opens a connection to Redis for each call and closes none.
- The mail of a later code is queued before the code is stored: if storing fails, or
  the process dies, the mail names a code that was never valid, and neither the count
  nor the time of the next one knows of it. So more codes can be mailed than the
  limit allows, and two within a minute; `CodesAreLimited` and `OneCodeAMinute` state
  what is left. The same happens when two requests read one record.

Answers and lists:

- `BaseService.update` swallows every error and answers 204, also for a row that does
  not exist. An audit row that fails after the change answers 500, although the row
  has changed. Data errors that the table of `pg-error-codes.enum.ts` maps to 400
  are answered 409, and 40P01 and 40001, which it maps to 409, with 500. A plain
  error becomes a TypeError in the interceptor and is answered 400.
- `getById` looks for a cache entry that nothing fills.
- Two overlapping deletions of a row both write a DELETE audit row; one is answered
  204, the other that nothing was found.
- A list's rows and its total are two queries and can disagree; with a filter on the
  role a member is counted once for each of his roles; an order with ties may show a
  member on two pages and another on none.
- `BaseRepository.search` reports the number of pages as `totalRecord`
  (`docs/api-contract.md:162` has the number of records) and ignores `sortBy`;
  `findWithPagination` reads `orderBy`, `orderDirection` and `filters`, which no DTO
  carries. `base.service.spec.ts` expects a BadRequest for page 0 and limit 101,
  which the service does not raise.
- A process that dies between INCR and EXPIRE leaves a rate counter for ever.

Schema:

- `nodes` and `couples` have no column `status`, which the repositories filter on, and
  ask for values that no insert brings (`generation_order`; `marriage_date`,
  `marriage_status`, `marriage_date_type`);
  `PermissionsModel` has a column `name` that the migration does not create.
- A migration that is cut after its first index cannot be run again; the migration of
  roles fails if the application started first, because the table it finds lacks
  `ascii_name`.
- The migrated `permissions` have `action` and `resource` unique each by itself;
  `users.ascii_name` is unique, `phone` is required although the DTO has it optional;
  several columns are required in the migrations and not in the models.

## 7. Plan

Done: the tree with its views, status, roles, cache, login with lockout, sessions and
guards, creation over the pool, sign-up with its queue, the generic records and
their answers, the paginated lists, the rate limit, the linked lists, the schema.

Left, in this order:

1. `attachMemberToTree` and `detachMemberByUserId` as entry points of their own once
   they have callers, and `CreateUser` with the stages of `FamilyTree` in place of
   its two inserts.
2. `verifyOtp` with the account it creates, once the values it gives are accepted.
