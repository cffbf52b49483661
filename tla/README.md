# Verification of the Shoxsaroy CRM backend

TLA+ models, TLC runs and TLAPS proofs for the NestJS 11 / TypeORM / PostgreSQL
backend of this repository: a multi-tenant CRM in which organizations sell the
apartments of their buildings, with a showroom (public screens and MQTT
devices) beside the web client. Paths below are relative to `src/` of the
repository (`apartments/apartments.service.ts` is
`src/apartments/apartments.service.ts`).

## 1. The system

| part | state it keeps | operations | modules |
|---|---|---|---|
| organizations (tenants) | row, due dates, block flag | create with first admin, update, remove | `Tenancy`, `PaymentDue`, `Accounts` (flag) |
| branches | row, MQTT credentials, block flag | create with staff account, update, remove | `Tenancy`, `Accounts` (flag) |
| users | role, organization, branch, password, permissions | create, removeMany, updateScope, updatePermissions, adminChangePassword, changePassword | `Tenancy` (whose), `Accounts` (password, permissions) |
| blocks, floors, apartments | a tree under a branch; codes, levels, numbers, hotspots | create, bulk create, update, duplicate, copy, clone, move, remove | `Tenancy` (who and where), `FloorPlan` (what) |
| apartments on sale | status, seller | changeStatus, update, showroom changes, remove | `Sales` |
| clients, contracts | rows that refer to all of the above | create, removeMany, bulkRemove | `Tenancy`, `Sales` |
| AccessService | none | assertBranch and its relatives | predicates of `Tenancy` |
| RealtimeGateway | who views which apartment (memory), sockets | connect, enter, leave, disconnect; `apartment.updated` | `Presence`, `Sales` |
| payment due job | the mark on an organization | daily run | `PaymentDue` |
| password reset, notifications | notification rows | request, approve, markRead | `Accounts` |
| request guards, login | none (rows are read per request) | jwt, roles, permissions, block flags | `Accounts`; the actor in `Tenancy` |
| branch MQTT clients | client cache and idle timers (memory) | publish, connect, close, destroy | `BranchMqtt` |
| migration runner | applied files, backups on disk | run at start, manual run | `Migrations`, `MigrationLog` |
| backups | files, whole database | dump, upload, restore | `Backups` |
| organization payments, analytics, encryption, config, health, logging, scripts | own rows or nothing | - | not modelled |

**How they interact.** HTTP handlers share nothing but the database (and the
gateway and MQTT cache in memory). A handler authenticates, reads a few rows,
checks them, awaits again, and writes; no row is locked, and only a few
multi-statement writes run in a transaction. `repository.save(entity)` writes
back *every* column in which the loaded copy differs from the row, and inserts
the row again when it is gone, so a slow request can undo a fast one or revive
what was deleted. The foreign keys (CASCADE down the tree, RESTRICT from
contracts, SET NULL for people) act on their own. Browser clients of a branch
are told by socket.io events emitted after a save, without order between
requests. The cron job is one more client of the organizations table.

**What is hard.** Interleavings between a check and its write; stale copies
saved over newer rows; removal cascades meeting requests in flight; events out
of order or ahead of their commit; several tabs of one user; a job that fails
between two statements; timers that outlive what they were set for; a process
that dies in the middle of a migration; tables dumped one by one while they
change, and filled again one by one after they were dropped. The list with lines
is in `PROJECT.json` (`hazards`), each with the properties about it; two have
none and say why. Where a race is simply lost by the code as it is, its property
excuses it by a history variable and checks that nothing else has the same
effect; the hazard's note says so.

## 2. Conventions

* One SQL statement or one committed transaction is one step. In `Tenancy` and
  `Sales` a request between its checks and its write is a record of `inflight`
  that carries what it read, and two identical requests may be in flight: a step
  may leave an identical record behind. In `Accounts` and `FloorPlan` a request
  is a slot of `req`. `Drop` is an error (or a restart) after the checks.
* `Op_Flaw` is `Op` with one plausible mistake. No action uses it: it documents
  the mistake each property would catch (`mutants` in `PROJECT.json`).
* History variables (`home`, `moved`, `revived`, `homes`, `stored`, `early`, `crossed`, `shared`,
  `strays`, `notified`, `repeated`, `touched`, `cut`; `waiting`, `adrift`, `shut`;
  `saved`, `empty`, `hurt`, `refused`; `granted`, `loose`, `crowded`, `wish`, `clobbered`,
  `retired` and a request's `open`, `late`; `crowded`, `patched`, `born`,
  `unsure`) are never read by a guard, and neither is `origin` of `FloorPlan`
  but to draw ids that were never used (`stored` and `early` of `Sales` likewise). A restore's `touched` is one, too.
* Names, prices, phone numbers, images and other columns that are stored and
  never computed with are left out.
* `XProofs` holds the theorems about `X`; `MCX` extends it, so that TLC checks
  the very inductive invariant that the proof uses, and the ASSUMEs.

## 3. Tenancy (`Tenancy`, `TenancyProofs`, `MCTenancy`)

The tables of organizations, branches, blocks, apartments, clients, users and
contracts as sets of ids: `live` rows, their CASCADE reference (`parent`), a
user's role and SET NULL references (`user`), a contract's references
(`contract`). Floors are folded into the step from apartment to block, because
no endpoint moves a floor or an apartment. `Delete` is a DELETE with everything
the entities' `onDelete` rules do. Each endpoint is an action that loads and
checks (`CreateContract`, `CheckContract`, `UpdateScope`, ...) followed by the
write it awaits (`SaveContract`, `SaveUser`, `CommitDelete`, ...). An actor is
the user's row as `JwtStrategy.validate` read it at the start of the request: it
may be stale by the write. The branch of a new branch's staff account is
committed before the account, as in `branches.service.ts:69`.

Properties:

* `ContractTenancy`: contract, client and seller are of one organization,
  whatever happens between the three reads and the INSERT of `contracts.create`.
* `ContractHome`: a contract is of the organization that owns its apartment,
  unless a superadmin moved the block between organizations.
* `StaffHome`: a user's branch belongs to the user's organization, in spite of
  the stale full-row save of `adminChangePassword`.
* `SuperadminFixed`: the API neither makes nor removes superadmins.
* `Isolation` (action property): no step of a tenant's request inserts, changes or
  deletes a row of another organization, whatever it read before and whatever
  cascades, SET NULLs and stale saves it runs into. The rows of a step are those
  that differ after it (`Written`), each judged by where it was, or is if it is
  new (`Foreign`). Ways out: blocks a superadmin moved, users whom a stale save
  revived, and the contracts on or by these (`Escaped`).
* `RemovableUnlessMoved`: the DELETE of an organization is not RESTRICTed by a
  contract of another one, whatever raced with `contracts.create`, unless a block
  was moved to it.
* `OrgRemovable` (violated): the comment on `organizations.remove` promises that
  contracts go first so that the cascade can run. A block moved to the
  organization brings apartments whose contracts are of the other organization;
  those contracts stay and RESTRICT rejects the whole transaction.

Runs. Ids of one table are interchangeable (symmetry); `CHECK_DEADLOCK FALSE`
because the instance really ends when every id has been used and nothing is
left to call.

| run | bounds | question |
|---|---|---|
| `tenancy_contracts` | 2 organizations, 2 branches, 2 blocks, 1 apartment, 1 client, 3 users, 1 contract, 2 requests in flight | contracts against block moves, branch removals and stale saves of two tenants |
| `tenancy_users` | 2 organizations, 2 branches, 4 users, 2 in flight | user rows against scope changes and removals, without `adminChangePassword` |
| `tenancy_all` | one row per table, the endpoints the others leave out, `adminChangePassword` among them | the inductive invariant |
| `tenancy_remove` | as the first, 1 block | `OrgRemovable` is violated |

Two requests in flight are enough for each stale read (one holds it, the other
changes it; completed requests are unlimited), two organizations for every
confusion of tenants.

Proved for all sizes: `Consistent` (the inductive invariant `IInv`),
`TypeCorrect`, `ContractTenancyHolds`, `ContractHomeHolds`, `StaffHomeHolds`,
`SuperadminFixedHolds`, `RemovableUnlessMovedHolds`, `IsolationHolds`, and
`AuthorizedHolds`, the state on which isolation rests: what a request of a tenant
is about to write still belongs to that tenant, although access was checked
earlier. The safety properties are not inductive: they depend on
what requests in flight have read. `IInv` adds, for every request, that what it
read is either immutable once the row exists (the organization of a branch,
client or contract; a user's organization of birth, which may only become NULL)
or recorded in `moved` (`ReadOK`). `Steady` states once that no step breaks such
a fact, so the steps that only add a request and those that write are proved
separately. For `Authorized` it also adds that every row a tenant's request is
about to write is `Owned` by the tenant (`Entitled`): a row that is gone counts
as well, since only a stale save brings a row back (`NoReturn`), and that is
recorded in `revived`. All of this is `Core`; `IInv` adds `SellersOK`, that the
seller of a contract exists, which needs the SET NULL of `Delete`.

`Isolation` is proved write by write. A save or an INSERT changes the rows it
names, and those are the tenant's by `Entitled`; a DELETE reaches further, and
`DeleteOwn` follows it: blocks and apartments below rows of a tenant are the
tenant's (`ChainOK`), a user who loses his branch is of the branch's organization
(`UsersOK`), and so is a contract that loses its seller (`ContractsOK`,
`SellersOK`). `RemovableUnlessMoved` comes from the same chains: a contract that
RESTRICTs the cascade hangs on an apartment that is not at home, so its block was
moved.

## 4. Sales (`Sales`, `SalesProofs`, `MCSales`)

The apartments of one block: `row` (status, seller), `told` (the status in the
last `apartment.updated` event), and requests between load, save and emit. All
endpoints that write or emit are actions, the showroom's two included; the
event of a save follows it as a step of its own, because other requests may
save in between. `cloneFromFloor` emits *inside* its transaction
(`apartments.service.ts:512`), so `Clone` tells before `CommitClone` stores.

The block does not stay where it is. `BulkAssignBranch` is a superadmin's move of
it, with its sold apartments, to a branch of another organization; `house` is the
organization that has it and `homes` those that had it. The code keeps the
sellers of the earlier organization, and copies loaded before the move are saved
after it. `RemoveFloor` and `RemoveOrganization` take rows, users and contracts
away without telling anybody; `ReviveUser` is the stale save of
`adminChangePassword`. The branches of one organization are not told apart, since
`updateScope` gives any of its workers the branch of the block; an event goes to
the room of the branch a request found, and `told` is the last one in any room.

* `SellerFromHouse`: whoever is credited with a sale exists and is `Credible`: of
  an organization that has had the block, or without one (superadmins, whom a
  superadmin may name, and the users of a removed organization). It is not "of the
  organization that has the block now": the move makes that false, and `homes` is
  the excuse.
* `LastTold`: the last event of an apartment tells the status stored, or another
  event is on its way. Two saves and two events may cross, the code does not order
  them: an apartment saved while an event of it was pending is `crossed` until a
  save finds none pending.
* `SaleKept`: the row of a sold apartment, status and seller, changes only
  because a request asked for the status it then has, saved a copy loaded from
  another row (the lost update that a save of the whole row allows), or because
  its seller was deleted.
* `ToldWasStored` (proved, in no run): no event tells of a status the apartment
  never had, clones before their commit (`early`) excepted. A clone that rolls back
  leaves browsers with an apartment that does not exist.
* `NotForSaleHasNoNewContract` (violated): `contracts.create` refuses an
  apartment marked not for sale, but the mark can be set between the check
  (line 57) and the INSERT (line 90).

Run `sales`: 1 apartment, 1 contract, 2 organizations, a worker of one, an admin of
the other and a superadmin, the statuses for sale and sold, 2 requests in flight.
Apartments do not interact, so one is enough; two organizations and the superadmin
make moves and strangers. The ids may run out: `CHECK_DEADLOCK FALSE`. Run
`sales_contract` asks for not for sale as well and shows the violation.

Proved: `Consistent`, `SellerFromHouseHolds`, `LastToldHolds`,
`ToldWasStoredHolds`, `SaleKeptHolds`. The invariant says of a copy in flight that
it names only credible users, that its status is the asked or the loaded one, and
that a status on its way to the browsers has been stored (`RequestOK`), and of the
events in flight that those of an apartment that is not `crossed` tell its row; the
action property `SaleKept` follows from it step by step.

## 5. Presence (`Presence`, `PresenceProofs`, `MCPresence`)

`RealtimeGateway` keeps two tables in memory: `presence` (branch, apartment,
user) and `socketMeta` (socket to place). The message handlers are synchronous
and so one step; `handleConnection` awaits, and the socket may drop meanwhile
(`HandleDisconnect` from "checking"). A restart closes all sockets and empties
both tables. Phases (viewing, editing) and names are left out, and so is the
room itself: every change of the list is emitted to it in the same step.

* `NoGhost`: whoever is listed has an open socket there. Exception `strays`: the
  client names the apartment it leaves, and leaving another one than entered
  forgets the socket's place without unlisting it.
* `Listed`: whoever is at an apartment is listed. Exception `shared`: the list
  is by user, so when two tabs (or an old and a new connection after a network
  loss) are at one apartment, the first to go takes both off the list.

Run `presence`: 3 sockets, 2 users, 2 apartments, 1 branch, deadlock checked:
two tabs of one user and a second user, and a place to move to. Branches only
prefix the key. Proved for all sizes: `Consistent`, `NoGhostHolds`,
`ListedHolds`; the strengthening is that a socket is at one place at most, of
its own user, only while open, and that sockets that meet are in `shared`.

## 6. Payment due job (`PaymentDue`, `PaymentDueProofs`, `MCPaymentDue`)

`Fire` reads the overdue organizations, `Notify` saves one notification, `Mark`
writes `lastNotifiedPaymentDueAt`; `Fail` ends the run at any statement, and so
does the notification of an organization removed meanwhile (its foreign key
throws, and the loop ends for everybody after it). `Update`/`SaveUpdate` are
`organizations.update` with its stale save. Dates are days `1..LastDay`; the
calendar stops at `LastDay`, after which every day looks alike to the job.

* `NotLost`: a mark (and any copy of it in flight) is a date that was told.
* `Once`: a date is told twice only if the mark was changed by a save or a
  removal, or a run was cut before its mark.
  The entity's comment "Cron idempotency" promises more than that: a run cut
  between lines 38 and 46 of the service tells the same date again.
* `Reminded` (liveness): an organization that stays overdue is told in the end.

Fairness of `FairSpec`: weak fairness of `Fire` (the scheduler starts the job
every day) and of the run's own next statement. Failures and requests are
bounded (`MaxFailures`, `MaxRequests`), so that runs are not cut for ever;
nothing is assumed of updates. Bounds of `payment_due`: 2 organizations (one
after the one that fails), 2 dates (set, change, set again), 4 updates or
removals, 1 failure, 1 update in flight. One process runs the job
(`docker-compose.yml` starts one).

Proved: `Consistent`, `NotLostHolds`, `OnceHolds` and `DueIsTakenUp`, the safety
half of `Reminded`: a run takes up every untold debt, whatever mark updates have
left on the organization (by `NotLost` it is not the mark of this debt), and tells
what it took up unless it fails or meets an organization removed since it began.
`Steady(o)` describes an
organization that nothing touched or cut: what was told of it is its mark or
about to be, its due date cannot change under a run once it is marked, and no
copy in flight holds the mark a run is about to make. It is what makes a second
notification impossible.

## 7. Branch MQTT clients (`BranchMqtt`, `BranchMqttProofs`, `MCBranchMqtt`)

`BranchMqttService` keeps one client per branch in a `Map`, each entry with the
time it was last used and a timer. `publish` awaits its branch, the connection
and the acknowledgement; between two awaits nothing interrupts it, so each of
`PublishCached`, `Connect`, `Connected`, `GiveUp` (error or 15 s), `Acknowledged`
and `PublishFails` is one step. `Due` is a timer with `CloseIdle`;
`OnModuleDestroy` ends what is cached. A client is named by the publish that
made it. `Tick` lets time pass: `timer` and `strays` run down, and a timer that
is due may be served any number of ticks later. What two concurrent connects do
is the point: the second entry replaces the first, whose client stays open and
whose timer (`strays`) later looks at the new entry.

* `InUse`: no timer, late or stray, ends a client under a publish that waited
  for the broker less than `IDLE_MS`. It holds because of the look at `lastUsed`
  in `closeIdle`, which only stray timers need.
* `NoOtherLeak`: clients stay open outside the cache only after a concurrent
  connect replaced them or their connect was given up (`adrift`: these are never
  ended, not even by `onModuleDestroy`), and a cached client is never an ended
  one.
* `Closed` (liveness): an entry does not stay for ever. Fairness: weak fairness
  of `Tick` and of each branch's due timers (the event loop serves timers);
  nothing of the broker. Publishes are finitely many (`Requests`): a branch in
  constant use is never closed, by design.

Run `branch_mqtt`: 3 publishes (one that uses, two that connect at once), 2
branches in every assignment, `Idle` = 2 ticks (used, used a while ago, idle);
deadlock checked. Proved for all sizes: `Consistent`, `InUseHolds`,
`NoOtherLeakHolds`; `Using` says that the entry of a publish's client was used
no longer ago than the publish began to wait, which makes `closeIdle` safe.
`ClosingAdvances` is the safety half of `Closed`: as long as no request touches
its branch, no step takes an entry farther from its end (`Distance`), stray timers
that set its timer again included; every tick takes it closer until its timer is
due, and the timer at distance 0 ends it. Only that ticks and due timers do come is
left to `Closed`: publishes are finitely many, and each touches its branch twice at most.
The module assumes that NULL is neither a publish nor a time.

## 8. Migration runner (`Migrations`, `MigrationLog`, `MigrationsProofs`, `MCMigrations`)

`MigrationLog` is what the runner promises: a statement takes effect once there
is a backup for it and those before it in its file are in effect or refused; a
file is recorded when each of its statements is. `Migrations` is the runner: a run is
at `pendingFiles`, `takeJsonBackup` (table by table, errors swallowed) or
`applyFile`; `ApplyStatement` skips the five codes of `isIdempotentError` and
throws the others, which ends the run; `onModuleInit` swallows that and the
backend goes on. The comment at lines 208-216 of the service calls all five codes
"already exists", and four of them mostly mean that (`alreadyExists`: 42710, 42P07,
42701, 42723). But PostgreSQL raises 42P16 (`invalidTable`: a second primary key,
DROP NOT NULL on a key) for a statement that did not take effect, and 42701 for an
ALTER of several clauses that failed whole because one of its columns exists. Such
a statement (`Refusable`) is skipped and its file recorded, and no later start
tries it again: `refused` remembers it. None of the files in `migrations/` has one
today: their ALTERs say IF NOT EXISTS in every clause, and the NOT NULL dropped is
not that of a key. `Crash` ends all runs, and the query they waited for may still
take effect later (`orphans`, `Land`). `RunManually` has no caller in `src/` but
its comment plans one; it starts only after the run of the start is over, and
two of them may overlap. Statements are numbered; `Guarded` ones have IF (NOT)
EXISTS, others raise an `alreadyExists` the second time. An initial database may
have any of the statements in effect (it was made by `synchronize`). The SQL
itself, `splitSqlStatements` and restoring a backup are left out.

* `Implements` (refinement, `Log!Spec` with `safe` as what a written backup came
  before): whatever crashes, fails, lands late or overlaps, no file is recorded of
  which a statement is neither in effect nor `refused`. `Excused` is what
  the code does without: statements of tables not in `TABLES_TO_BACKUP`, and of
  tables a read of which failed, which the backup then holds as `[]`.
* `InOrder` (action property): a run changes the schema for a file only when
  every deployed file of a smaller name is recorded.
* `Converges` (liveness): in the end every deployed file is recorded, unless an
  error of the surroundings ended the last run of the start. Fairness: weak
  fairness of `Start` (`restart: unless-stopped`) and of the start's own steps;
  crashes and failures are bounded.

Run `migrations`: 2 files with 2 and 1 statements (one on a listed table that may
be refused, an unguarded CREATE TYPE, a guarded DROP COLUMN of another table), 1 crash, 1 failure, 2 manual runs,
any deployed subset of the files; the system stops when nothing is left to run,
so deadlock is not checked. Proved for all sizes: `Consistent`, `RecordedIsWhole`,
`AppliedInOrder`, `KeepsPromise`, the refinement, and `StartLeavesAllApplied`, the
safety half of `Converges`: a start that came to its end without an error of its
surroundings leaves every deployed file recorded, and each of its statements in
effect or refusable (`Settled`, the part of `IInv` beside `Core`).
`RecordedIsWhole` says of every recorded file that its statements are in effect
but for those `refused`, which are refusable: a project whose files have no such
statement, as today, has every recorded file in effect as a whole. `Reading` and `BackedUp`
carry it: what was not in effect when a run read its table is in its backup, and
effects are never undone, so that what a run is about to change was saved by
that very run; `Left` says the same of queries a dead run left behind.

## 9. Accounts (`Accounts`, `AccountsProofs`, `MCAccounts`)

One organization with one branch: its accounts (`user`: password, one
permission that stands for the list), the password reset notifications (`note`),
the two block flags (`blocked`), and the superadmin `Root`. A request is a slot
of `req` and goes through the guards in the order of `app.module.ts`: `Arrive`
is `JwtStrategy.validate` with the roles and permissions decided on that very
read; `OrganizationBlockedGuard` and `BranchBlockedGuard` each await a query of
their own, and after them the handler does. The handlers are those of
`AuthService`, `AdminNotificationsService` and every other writer of an account
(`users.*`, with `removeMany`'s cascade to the notifications) or of a flag.
Writes of a loaded entity are saves of the whole row; since `passwordHash` is
not selected by a load, a save carries a password only where the handler set
one, and an account that is gone can be inserted again only by those
(`Savable`). Passwords are numbers: each one set is new (`minted`).

What the code allows, read from the model: `requestPasswordReset` means to look
for unread pending requests, but TypeORM ignores `readAt: null` in a `where`, so
a request that was read and not decided blocks new ones as well (`Pending`).

* `GrantedOnce`: an approved request has set a password, and sets one twice only
  after approvals that overlapped, one cut between password and mark, or
  `markRead`'s stale save of the row (`loose`).
* `OneOpen`: an account has one undecided request at most, unless two calls of
  it overlapped (`crowded`) or a stale save reopened an old one.
* `ShutOut`: whoever is in a handler found his organization, and if he is staff
  his branch, unblocked at some moment since his request came. A request that
  passed a guard before the block goes on: that is the excuse, and no other.
* `OldPasswordDead`: a replaced password never opens the account again, although
  stale rows are saved after the change and deleted accounts come back.
* `RightsKept`: a member of staff has the permissions `updatePermissions` stored
  last, unless a save of a row loaded before wrote older ones back
  (`clobbered`), which the approval of a reset can do as well.

Run `accounts`: an admin and a member of staff, 2 notifications, 2 requests at a
time, 2 new passwords. Four workloads (which endpoints a behaviour may call) keep
apart what does not meet in a property: blocking, deciding, setting passwords,
saving permissions. Two requests are enough for each race, the number of
completed requests is unlimited, and one account with a second beside it shows
what is kept per account. The ids and passwords run out: `CHECK_DEADLOCK FALSE`.

Proved for all sizes: `Consistent` and the five properties. `Good` says of a
request what it still knows after others moved on: the parts found open, that
its password has never been anybody's, that the permission it loaded is the
stored one unless it is `late`, how often its notification was granted; `Apart`
says what two requests cannot both hold without a history variable knowing.

## 10. Floor plans and backups (`FloorPlan`, `Backups`, `BackupsProofs`, `MCBackups`)

`FloorPlan` is the tree of one branch as its services write it: `block`,
`floor` (block, level, hotspots) and `apartment` (floor, number). Who may call is
in `Tenancy`; here everybody may. Levels have no unique index, only a check
before the write (`CreateFloor`/`InsertFloor`, `UpdateFloor`/`CheckLevel`/
`SaveFloor`); numbers have one, and checks beside it (`UpdateApartment`/
`CheckNumber`/`SaveApartment`, `CopyNext`/`SaveCopy`). `CreateApartment`,
`BulkCreateOnFloor` with `Allocated`, `CopyFromFloor` (apartment by apartment,
each committed for itself), `CloneFromFloor` (one transaction, with the plan on
request) and `DuplicateBlock` (one transaction, hotspots remapped by `Remap`)
load first and insert later what may be stale by then. `UpdateBlock`/`SaveBlock`
are the save of a loaded block (`update`, `bulkAssignBranch`), which inserts it
again when it is gone. The hotspots of a floor are whatever list of UUIDs the
request of `floors.create` or `floors.update` carries (`Plans`):
`create-floor.dto.ts` asks for UUIDs and nobody for apartments of the floor. The bulk removals are
loops of `RemoveBlock`, `RemoveFloor` and `RemoveApartment`, which so stand for
each of their rounds.

`Backups` adds `AdminBackupsService`: `ReadTable` is one query of the dump,
`WriteFile` the file; `Restore` begins with DROP SCHEMA (or without,
`clearAndWrite` false), then `CreateSchema`, `Synchronize` and one `InsertMany`
per table, each committed for itself because the transaction of line 235 is that of
another connection. Three of the ten tables stand for the chain of foreign keys; the
order of both lists is the same and goes from parents to children. Dump and
restore may fail at every step, the requests of `FloorPlan` go on beside them
(while there are tables), and a restore may be tried again on what is left.

* `OneFloorPerLevel`: a block has two floors of one level only if two writers of
  its floors overlapped and one of them set a level (`crowded`).
* `HotspotHome`: the hotspots of a floor name apartments of that floor or none
  that exists, whatever plans are copied, saved late, revived or restored;
  except for a pair in `patched`: a request drew on that floor a hotspot of an
  apartment that was not there, or a clone or a duplicate kept that of an
  apartment it did not copy. So an apartment drawn on its own floor does not come
  to be on another one by a copy, a late save or a restore.
* `NumbersFree`: numbers a request found free stay free until another gives
  numbers away on that floor (`unsure`): the unique index rejects for no other
  reason.
* `DumpClosed`: a parent that is missing in a dump was inserted while the dump
  ran. Removals leave no orphans, because parents are read first.
* `Restorable`: after the drop, no INSERT of a file without orphans is rejected,
  at the first try or after a failed one, unless a request changes the tables
  meanwhile (`touched`).
* `RestoredWhole` (action property): the last INSERT of such a restore leaves the
  tables with the rows of the file and no others, nothing lost of a level, a
  hotspot or a number, also when an earlier try was cut after some of its tables.

Run `backups`: 2 blocks, 3 floors, 4 apartments, 2 levels, 3 numbers, 2 slots, 1
dump, restores without bound, plans without a hotspot or with that of one
apartment, on whichever floor. Ten workloads each start with a block of one or two
floors and race a few endpoints: two writers of levels, a plan copied while it is
edited or its floors and apartments go, a duplicate beside edits, copies beside
insertions, renumbering, a dump beside insertions and removals, and restores beside
floors, plans and numbers. Two copies of two apartments meet every skipped,
partial and rejected copy; one dump is enough, because it is the file of every
later restore and the initial tables are an earlier one. The ids run out:
`CHECK_DEADLOCK FALSE`.

Proved for all sizes: `Consistent`, the six properties, and `AllocatedNumbers`:
`allocateFreeNumericApartmentNumbers` returns as many numbers as were asked for,
free and above every number of the floor. The invariant
(`Core`) hangs on `origin`: a floor keeps its block and an apartment its floor
through stale saves, revivals and restores, so that every copy in a request or a
file stays `Sound`; `LevelOK` and `Apart` keep two writers of a block from one
level without being known to `crowded`; `DumpOK` says that the rows of the table
read last are in the dump or were born during it, and `RestoreOK` that an
untouched database holds exactly what the file says so far. The proof keeps
`Core` under the requests first and adds dump and restore afterwards.

## 11. The runs

| run | expects | shows |
|---|---|---|
| `tenancy_contracts`, `tenancy_users`, `tenancy_all` | pass | section 3: isolation of tenants, contracts, users, the inductive invariant |
| `tenancy_remove` | violation | the comment on `organizations.remove` does not hold after a move of a block |
| `sales` | pass | section 4: sellers through moves and removals, the last event, the end of a sale |
| `sales_contract` | violation | a contract on an apartment marked not for sale |
| `presence` | pass | section 5: the list of viewers |
| `payment_due` | pass | section 6: nothing lost, nothing told twice without a cause, told in the end |
| `accounts` | pass | section 9: resets, passwords, permissions, block flags |
| `backups` | pass | section 10: levels, hotspots of any request, numbers, dumps, restores and what they leave |
| `branch_mqtt` | pass | section 7: which clients end, and when |
| `migrations` | pass | section 8: the refinement with refused statements, the order, convergence |

## 12. What is proved, checked, left out

Proofs assume only the named ASSUMEs (tables share no ids, groups of users are
disjoint, bounds are naturals, dates are not NULL, workloads start with tables
the API leaves, with whatever hotspots). Each module's inductive invariant `IInv` and every safety and
action property of the passing runs is proved. Liveness (`Reminded`, `Closed`, `Converges`) and deadlock
freedom are model-checked only, since the prover handles neither fairness nor
ENABLED; of each liveness property the half that speaks of single steps or states
is a theorem (`DueIsTakenUp`, `ClosingAdvances`, `StartLeavesAllApplied`). The database's own guarantees (atomic statements, READ COMMITTED,
foreign keys, unique indexes) and what TypeORM's `save` does are modelled as the
actions say and not verified.

Not modelled, and why:

* Analytics only counts; it keeps no state and writes none.
* Organization payments are one INSERT and one DELETE by id, without a check
  before them, of rows nothing else reads.
* Login and `me` write nothing; that a token names an account and nothing else is
  all the guards rely on. Token signatures and throttling are libraries.
* Encryption, configuration, health, logging and the error filter are pure
  functions or output.
* The lists a showroom reads, its address codes, payloads and their signatures
  are functions of rows; the two endpoints that write are in `Sales`.
* Block codes: a unique index keeps them unique whatever `pickUniqueCopyCode`
  proposes. Names, images, prices and labels that are not integers are data.
* Numbers from 2^53 on, where `allocateFreeNumericApartmentNumbers` adds one
  without effect and does not return; `Numbers` stays below.
* Of backups: restoring an `.sql` file (`psql`, another program), uploading,
  listing and downloading files by name.
* The maintenance scripts, run by hand against an idle database, and the SQL of the
  migrations.
