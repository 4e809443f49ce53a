# Cloud account manager: TLA+ specifications and proofs

The repository is a Go service with which several users manage their
DigitalOcean accounts: an HTTP API and job workers share one PostgreSQL
database, and the workers call the provider. This directory holds TLA+
specifications of the parts that keep state, the TLC configurations that check them
on small instances, and TLAPS proofs for every size.

Paths below are relative to the repository (`src/internal/...` is written
`internal/...`). `PROJECT.json` maps every definition to the lines it models.

## 1. The system

### 1.1 Components

| Component | State it keeps | Operations | Makes it correct |
|---|---|---|---|
| Job queue (`store.go` 481-583) | `jobs` rows, `last_synced_at` | `EnqueueJob`, `ClaimJob`, `UpdateJob`, `EnqueueStaleSyncs`, cascade delete | each job is carried out by one loop, at most once; results are final; jobs are not forgotten; one scheduled sync per account |
| Worker (`worker.go` 38-141), `main.go` | loops, scheduler, context | claim, process, report; stop, crash, restart | a running job is really being carried out; the scheduler keeps every account synced |
| Connection pool and user lock (`database.go`, `worker.go` 538-552) | connections, `pg_advisory_lock` | acquire, lock, release | nobody waits for ever for a connection |
| Account sync (`worker.go` 143-215, `UpsertDroplets`) | `droplets` rows, the account's status | read account, validate, list, store | rows come to agree with the provider and the owner, the status with the token; what is kept with a row survives |
| Droplet creation and quota (`worker.go` 217-357, 494-536) | droplets, passwords | lock, sync, check, request, sync, save | quota; a reported success is true |
| Droplet actions and deletion (`worker.go` 353-445) | provider actions | act, wait, mark, delete | a password shown as active is the machine's |
| Managed root credentials (`droplets.go` 265-321, `store.go` 415-434) | `managed_credentials` | save, mark stale, update, reveal | a saved password is not lost |
| Account management (`accounts.go`, `admin.go` 333-364) | `cloud_accounts` | create, replace token, unlink, transfer | rows follow the owner; a new token is not judged by the old one's failure |
| Users, sessions, one-time tokens (`auth.go`, `admin.go` 71-164, `store.go` 36-207) | `users`, `sessions`, `one_time_tokens` | register, verify, login, reset, disable, demote | one active administrator is left; a disabled user stays out; a reset ends old sessions; tokens work once |
| Middleware and rate limiter (`server.go`) | entries per client | session, CSRF, recent password check, limit | the limit holds over any window; refused attempts do not prolong a refusal |
| Settings (`admin.go` 180-277) | `system_settings` | read, save key by key | what was reported as saved is what is stored; the SMTP password belongs to its host |
| Migrations (`database.go` 37-87, `main.go`) | the schema, `schema_migrations` | apply in order, at every start | a serving process has its schema; a failed start can be repeated |
| DigitalOcean client (`client.go`) | none | requests, paging, polling | a listing is complete |
| SMTP, encryption, configuration, audit, usage, catalog proxy, front end, scripts | none that decisions depend on | | |

### 1.2 How they interact

    browser -> HTTP handlers --insert--> jobs table <--claim/update-- worker loops -> DigitalOcean
                    |                        ^                             |
                    |                        +---- scheduler (stale accounts)
                    +--> cloud_accounts, droplets, managed_credentials <---+

Handlers and loops meet only in the database. There is no message between
them, and a row read in one statement may be old in the next. Deleting a
`cloud_accounts` row deletes its jobs, droplets and credentials by cascade,
even in the middle of a job.

### 1.3 What is hard

* Several loops, in several processes, claim from one queue (`FOR UPDATE SKIP
  LOCKED`), die, are stopped or lose the answer of a commit.
* A job is a long series of provider calls and statements without a
  transaction: accounts are transferred or unlinked, droplets appear and go,
  other jobs write the same rows in between.
* The provider's answers are lost, its actions end later than the wait for
  them, and an action polled with an error is taken for a failed one.
* `lockUser` holds one pooled connection and needs others.
* Checks and writes are separate statements in the handlers (last
  administrator, one-time tokens, login during a reset, settings).
* A listing is read page by page while it changes, with a token that may be
  replaced or withdrawn meanwhile.
* Every process migrates the database when it starts.

`PROJECT.json` lists each of these as a hazard with its line and the
properties that cover it, or why none does.

## 2. The modules

| Module | What it is |
|---|---|
| `JobLifecycle` | what a user of the queue may rely on: a job is submitted, started once, finished once or left, removed with its account |
| `JobQueue` | the queue, the loops, the scheduler and the processes; implements `JobLifecycle` |
| `JobQueueProofs` | its theorems |
| `ConnPool` | connections and advisory locks of one process |
| `ConnPoolProofs` | its theorems |
| `Inventory` | droplets, rows, passwords and the four job handlers step by step |
| `InventoryProofs` | types, and what protects saved passwords |
| `InventoryResultProofs` | what jobs report, the quota, current passwords |
| `AccountSync` | one account: its token, status and rows, and `syncAccount` page by page |
| `AccountSyncProofs` | its theorems |
| `Identity` | users, one-time links, sessions and the handlers around them |
| `IdentityProofs` | its theorems |
| `Migration` | processes that start, migrate and serve |
| `RateLimiter` | the limiter of a route and a client |
| `RateLimiterProofs` | lemmas on its windows |
| `Settings` | the settings page |
| `ApiServer` | composes `Migration`, `RateLimiter` and `Settings`: processes on one database, some answering HTTP |
| `ApiServerProofs` | the theorems of these four |
| `MCJobQueue`, `MCConnPool`, `MCInventory`, `MCAccountSync`, `MCIdentity`, `MCApiServer` | constants for TLC |

Operators whose comment begins with "Mutant" are plausible bugs next to the
definition they would replace. No specification uses them. With one put in its
place, the property it is listed with fails.

### 2.1 JobQueue

`state`, `info` and `attempts` are the columns of a job row; `account` and
`due` say whether an account row exists and whether its `last_synced_at` is
NULL or too old; `proc` is a process's context (up, cancelled, gone); `pc`,
`held` and `result` are the local variables of a loop; `inflight` holds the
INSERTs into `jobs` that have begun and not committed.

* `ClaimJob` is two actions. `ClaimSelect` takes the oldest visible queued row
  that no other transaction has locked, `ClaimCommit` writes `running`. In
  between the account may be unlinked only by waiting for the row lock. The
  commit may land with its answer lost (`ClaimCommitUnseen`).
* `Work` is the whole `process` call with its result, `UpdateJob` the report,
  `UpdateJobLost` the report that fails: the database is gone, or the context
  is cancelled, which is certain after a stop (worker.go:122 uses the same
  context as the job).
* An INSERT is two steps. `Issue` begins it (`EnqueueFirstSync`, `EnqueueJob`,
  `SelectStale`): `created_at` is `now()`, the start of the transaction, and
  `EnqueueStaleSyncs` reads its snapshot. `Commit` makes the rows visible, so
  requests that overlap can be claimed against their stamps. `Refuse` is the
  foreign-key failure of the whole batch, `Cancel` a statement that fails with
  its request, with the context of a stopping process, or by an outage.
  `created_at` is kept as a rank among the stamps that still wait, and the
  database's clock is taken not to go back.
* A statement whose process dies, or whose answer is lost (`AnswerLost`), is
  rolled back or goes on by itself: as an "orphan" it may commit at any time,
  also after the process has come back (`Abandon`).
* `FirstSyncNotEnqueued` is the answer "account saved, job not created"
  (accounts.go:117). It costs nothing of any bound, so `AccountsStaySynced`
  must hold in spite of it.
* `Stop`, `Die`, `Exit`, `Crash` and `Restart` are the ends and beginnings of a
  process. A loop that notices the cancelled context leaves; the process exits
  when all have, or at once if it is `serve` with an embedded worker, whose
  main goroutine does not wait for them. (`defer pool.Close()` waits for
  connections in use; the model lets an embedded process end at any moment,
  which allows more.)
* `replaceCloudAccountToken` enqueues a sync like `syncCloudAccount`, and the
  rollback of `createCloudAccount` is `DeleteCloudAccount` of an account that
  is still "adding".

### 2.2 ConnPool

Every client (loop or handler) is in one phase; `stmt` is the connection its
statement runs on, `lockConn` the one `lockUser` keeps. `AcquireLockConn`,
`Lock` (which waits on the server while holding the connection) and `Unlock`
are the steps of `lockUser`; the other phases issue up to `MaxStatements`
statements, each on a connection of its own. `Acquire` waits while none is
free. A statement ends by itself; the provider's calls need no connection and
are part of the phase.

### 2.3 Inventory

Provider: `cloud` (droplets that exist), `password` (version of the root
password of each machine), `resetting` (unfinished actions that change it).
Database: `owner` (`cloud_accounts.user_id`), `rows` (a droplet row with its
credential). Loop: `pc`, the job and what `accountClient`, `syncAccount` and
the handler keep in local variables: `user`, `reader`, `listed`, `left`,
`todo`, `acting`, `done`, `failed`.

| Handler | Steps |
|---|---|
| sync | `Take`, `SyncList`, `SyncStore` (or `SyncFails` at any of them), `Report` |
| create | `Take`, `LockUser`, `SyncRead`, `SyncList`, `SyncStore`, `CheckQuota`, `Request` per request, the three sync steps again, `SaveCredential` per password, `SavedAll`, `Report` |
| reset, restore, power | `Take`, per droplet `ActOne` and `Waited` (with the mark), `WorkDone`, sync, `Report` |
| delete | `Take`, per droplet `DeleteOne`, `WorkDone`, sync, `Report` |

"reset" stands for `password_reset` and `rebuild`, "restore" for `restore`,
which replaces the disk as a rebuild does and is not followed by a mark
(worker.go:393), "power" for the other actions. `ListDroplets` reads a page of
`PageSize` droplets at each `SyncList`, newest first; `pages` counts them, and a
droplet that is destroyed meanwhile makes those behind it move up. A
password-mode job sends one request per name, a key-mode job one for all. A call may be refused, or take effect with its answer lost; both cost
one of `MaxOutages`. `Transfer`, `Unlink`, `UpdateRootCredential` and
`ConsoleDestroy` happen at any time. Which jobs wait in the queue is not
modelled here: a loop may take any of `Requests`, which is more than the queue
allows, and a job names only droplets that have had a row (`known`).

Two variables are history. `kept`: the droplets a listing cannot miss, those
that existed when it began, as long as no droplet of the account goes between
two of its pages. `stray`: the droplets whose password changes with nobody to
mark it. They are restored, or reset by a call whose answer was lost, by a
process that died before the mark or by a job whose mark failed, or their
password was entered while a change that nobody waits for was under way. A
droplet ceases to be one when a user enters its present password.

Abstractions: the three quotas count alike, so one stands for them; a
transaction (`UpsertDroplets`, `TransferCloudAccount`) is one step, so a
mixture of old and new owners that two overlapping transactions could leave for
one sync is not shown; validation columns, projects and names are left out; an update of a password
by a user saves what the machine has at that time. `AccountSync` has the status
and the tokens instead of the passwords and the other jobs.

### 2.4 AccountSync

Provider: `grant` (what a token may do) and `cloud` (the team's droplets in the
order of the listing). Database: `token`, `status` and `owner` of the account,
`rows`. A loop keeps what `accountClient` read (`reader`), the outcome of
`client.Account` (`verdict`), and the droplets and the number of the page it
has come to (`listed`, `page`).

| Code | Actions |
|---|---|
| `accountClient`, `client.Account` | `Ask`: between the two the token may be replaced, which changes nothing for the loop |
| `UpdateAccountValidation`, `MarkAccountValidationError` | `Record` |
| `ListDroplets` | `ListDroplets`, once per page |
| `UpsertDroplets` | `Store` |
| `replaceCloudAccountToken` | `CheckToken` (the provider's answer, the same team), `ReplaceToken` (the statement) |
| `adminTransferAccount` | `Transfer` |

Any call and any statement may fail, which costs one of `MaxEvents`; so do
withdrawn tokens, checked tokens, transfers and droplets that come or go.
External: a page is a slice of the present list, droplets come at either end,
those behind a destroyed one move up. A token of another team (`foreign`) lists
nothing and is refused by `SameTeam`. `about`, `raced` and `kept` are history.

### 2.5 Identity

`user` is a row with its role, status, `email_verified_at` and password (the
number of resets before it); `link` the one-time tokens whose mail has
arrived; `session` the sessions. `req` is what each request is doing: a handler
begins with the statements that read, and goes on one statement at a time with
what it has read, until it finishes or a statement fails.

| Handler | Steps |
|---|---|
| `register`, `resendVerification`, `forgotPassword` | `Register`, `ResendVerification`, `ForgotPassword`, then `SendLink` (`ReplaceOneTimeToken`, `sendEmail`) |
| `verifyEmail` | `VerifyEmail` (the token is used up), `ActivateUser` |
| `resetPassword` | `ResetPassword` (the token is used up), `FinishReset` (`UpdatePassword` and the sessions, one transaction) |
| `login` | `Login` (reads the user), `CreateSession` |
| `reauth` | `Reauth` (with the middleware's row), `FinishReauth` |
| `adminUpdateUser` | `AdminUpdateUser` (the middleware's row), `GetUserByID`, `ActiveAdminCount`, `UpdateUserAdmin` |
| `adminCreateUser`, command `admin` | `AdminCreateUser`, `RunAdmin` |
| `authMiddleware`, `requireAdmin`, `requireRecentAuth` | `Principal`, `TrustedAdmin` |

Refusals that touch no row are left out (a wrong password, an unknown link).
Once `AdminUpdateUser` has read the administrator's own row (server.go:139),
nothing looks at it again: an administrator who is demoted meanwhile still gets
the change through.
`Conflicts` names the pairs of requests that may act on what the other
changes; `crossed` records which of these pairs have run at the same time, and
`MaxOverlaps` bounds how many different ones do.
A `resetPassword` beside a `reauth` is not one of them: `MarkRecentAuth` is an
UPDATE and must find the deleted session gone.

### 2.6 Migration, RateLimiter, Settings, ApiServer

`Migration`: a process is `down`, creates `schema_migrations`, checks the next
version, applies it (`RunSQL`, then the version's row and `Commit`), and
serves. `Release` is the number of migrations in its binary. Two transactions
that create the same table: the second one waits, and fails if the first
commits (the SQL has no IF NOT EXISTS); `fatal` ends the process, which is
started again. A commit may land with its answer lost. `main` migrates before
every command that uses the database, so `worker` and `serve` are alike here.

`RateLimiter`: `Counted` is what the mutex protects, `Tick` the clock,
`admitted` the list of the times at which requests went through, for each
process. The limiter is in the memory of a
process; `Forget` is its loss. (The `Retry-After` header is not modelled; it is
cut down to whole seconds, so it can name a time at which the client is still
refused.)

`Settings`: a save is a request that writes key after key, SMTP last, with the
CASE of `SetSettingWithSecret` for the password; it may fail at any key or die
with its process.

`ApiServer` lets requests and saves happen only in a serving process and takes
the memory and the requests of a process with it when it dies.

## 3. What is checked

| Run | Instance | Shows |
|---|---|---|
| `queue_safety` | 2 processes with embedded workers, 1 loop each, 1 account, 2 jobs (1 of the API), 1 ageing, 1 fault, 1 stop, 1 orphaned statement; 597,659 states | no job is in two hands (`OneLoopPerJob`) or started twice (`StartedOnce`), running jobs are being carried out while nothing is lost (`RunningIsOwned`), a scheduler never has two of its own syncs of an account pending (`OneScheduledSync`), no job starts before one that had been filed when it was requested (`StartInOrder`), results are final (`FinishedIsFinal`), and the queue implements `JobLifecycle` (`JobContract`) |
| `queue_live` | 1 process, 1 loop, 2 accounts, 4 jobs, 1 ageing, one outage, fault or stop, restarts; 101,272 states. The API files no job: every sync is the scheduler's, also the first one of an account | every queued job is started (`JobsStart`); undisturbed, every job ends (`JobsFinish`) and every account is synced, the one whose batch was refused because the other was unlinked included (`AccountsStaySynced`) |
| `queue_stop` | 1 process, 1 stop | **violated**: see finding 1 |
| `pool_enough` | 2 loops, 1 handler, 3 connections, 2 users; 8,985 states | somebody can always go on (`NotStuck`), and every job ends (`LoopsReturn`) |
| `pool_short` | 2 loops, 1 handler, 2 connections | **violated**: see finding 2 |
| `inventory_serial` | 1 loop, 2 users, 1 account, 2 droplets on pages of one, jobs of every kind, 1 failing call, crash, transfer, unlinking, console; 373,840 states | a reported success is true (`SuccessIsTrue`), a sync deletes the saved password of a droplet only if its listing could miss it (`SyncsSpare`), a password shown as active is current but for strays (`ActiveIsCurrent`), and the rows come to mirror the provider and the owner (`InventoryConverges`) |
| `inventory_create` | 2 loops, 2 accounts of one user, 4 droplets on pages of two, quota 2, 3 create jobs, a crash; 349,612 states | `lockUser` and the two syncs keep the quota (`QuotaHeld`) and the passwords when create jobs overlap |
| `inventory_race` | 2 loops, a sync and a create job | **violated**: see finding 3 |
| `account_sync` | 2 loops, 3 tokens, 2 users, 3 droplets on pages of one, 3 events; 661,000 states | what is shown is about the stored token (`VerdictIsAboutToken`), no row is dropped by a failed or partial listing (`RowsSurvive`), status and rows come to be true whatever crossed before (`StatusConverges`, `RowsConverge`) |
| `identity` | 2 users, 2 sessions, 2 requests, 1 reset, failing statements, any one kind of conflict; 1,565,025 states | an active administrator remains (`AdminRemains`), no session is left on a replaced password (`SessionsMatchPassword`), a disabled user stays out (`DisabledStaysOut`), each whatever crosses it but the pair of requests it names |
| `identity_admin` | the same without a reset | **violated**: see finding 4 |
| `server` | an API process with 2 migrations, a worker with 1, 1 death; limit 2, window 1; 2 saves, 3 pages; 601,000 states | a serving process has its schema (`ServesOnSchema`), what is recorded is what is in effect (`SchemaIsRecorded`), every process comes up again (`StaysUp`); less than twice the limit in any window (`AdmissionsBounded`), no refusal because of refusals (`RefusalsJustified`); a save that succeeds is whole (`SavedIsWhole`), the SMTP password fits its host (`SecretMatchesHost`) |

`CHECK_DEADLOCK FALSE` stands where the bounded workload runs out, which for
the model is the end. `pool_enough`, `pool_short` and `account_sync` have no
such end and check deadlock as well.

### 3.1 Findings

1. A sync whose worker is stopped reports with the cancelled context
   (worker.go:122). The row stays `running`, nothing takes it back, and
   `EnqueueStaleSyncs` skips accounts with a running sync (store.go:578), so
   one restart can end the periodic sync of an account.
2. With 20 or more loops, `lockUser` can hold all 20 connections of the pool
   while each create job waits for another one. `WORKER_CONCURRENCY` may be 32.
3. A sync that lists before a create job's request and stores after its end
   deletes the new droplet's row and, by cascade, the password just saved. The
   job says "succeeded"; the password existed nowhere else. Two loops are
   enough.
4. `adminUpdateUser` counts the active administrators in one statement
   (admin.go:148) and changes the user in another (admin.go:154). Two requests
   that suspend or demote one of the last two each both read 2, and nobody who
   could administer is left, against the answer admin.go:150 gives.

Further behaviour met on the way. A run against it would only repeat what the
code plainly does, or restate a property with its condition dropped:

* `restore` replaces the disk and with it the root password, but only
  `password_reset` and `rebuild` are followed by a mark (worker.go:393): the
  saved password of a restored droplet stays "active". With the strays left in,
  TLC shows it within 17 steps and without a failing call.
* `dropletAction` discards the error of `MarkRootCredentialStale`
  (worker.go:395): the reset is reported as a success while the old password
  stays "active". `ActiveIsCurrent` takes the droplet for a stray.
* A listing of several pages misses a droplet that moves up while another one
  is destroyed, and `UpsertDroplets` deletes its row with the saved password,
  also with one loop and no failing call. `SyncsSpare` says that this and
  finding 3 are the only ways to lose one.
* Two requests that overlap may be carried out against the order in which they
  were answered or sent, since `created_at` is stamped before the commit.
* Without the condition on `crossed` in the properties of `identity`, TLC also
  shows a login that read the old password and stores its session after the
  reset, and a second verification link that is being used while its user is
  disabled and brings the user back.
* A disabled user who never verified is brought back by the verification link;
  `DisabledStaysOut` speaks of verified users.
* A verified user whom an administrator sets to `pending` is asked to verify
  (auth.go:167) and refused a link (auth.go:102).
* README.md:292 says that the unit file's migration before the start keeps the
  worker from racing with it, and ARCHITECTURE.md:32 that migrations must be
  serial. main.go:58 migrates before every command, so they do race;
  `server` shows that this is harmless, but for a process that has to be
  started again.

### 3.2 Bounds

The hazards are races of two actors over one row, one account or one user, or
one lost step. Two loops, processes or requests, two accounts or users and one
or two faults reach each of them, and every mutant of `PROJECT.json` is caught
within these bounds. The bounds are: jobs filed (`MaxApiJobs`, `MaxJobs`),
ageing of an account (`MaxTicks`), failing provider or database calls
(`MaxOutages`), crashes and lost statements (`MaxFaults`, `MaxCrashes`,
`MaxDeaths`), stops (`MaxStops`), these three of `JobQueue` together
(`MaxMishaps`), statements nobody waits for (`MaxOrphans`), statements per job
(`MaxStatements`), droplets per account (`MaxDroplets`, which also acts as the account's droplet
limit), transfers, unlinkings and console deletions; all disturbances of
`AccountSync` together (`MaxEvents`); password resets and overlaps (`MaxResets`,
`MaxOverlaps`); time and requests of the limiter (`MaxClock`, `MaxAttempts`);
saves and their failures (`MaxSaves`, `MaxFailures`). Syncs, ticks of the
scheduler that find nothing, updates of a password, logins, changes by
administrators and restarts are not bounded.

The two keys of `server` stand for the six of the code: one that is written
before SMTP and SMTP. One client and one route suffice for the limiter, whose
entries do not touch each other. Pages of one droplet give a droplet the room to
move across a page that is being read: in `account_sync` with two droplets at
the beginning and one more, in `inventory_serial` with two. `inventory_create`
has listings of one page, as accounts of ordinary size have (200 droplets fit on
one in the code).

Some properties are about behaviours in which something does not happen, and
say so: `RunningIsOwned`, `JobsFinish` and `AccountsStaySynced` need no crash,
no stop and no lost statement (finding 1 shows why; the other hazards of the
first sync, of a refused batch and of failing calls stay), `StartInOrder` needs
the same where there are several loops, since a claim that is given up returns a
row that others have passed. `QuotaHeld` needs no lost answer, no crash and no
transfer (droplets would be uncounted), `InventoryConverges` no crash,
`VerdictIsAboutToken` no sync that was waiting for the provider while its token
was replaced, `RowsSurvive` no droplet destroyed between two pages, and each
property of `Identity` no overlap of the one pair of requests that breaks it.
`ActiveIsCurrent` has no such condition, but droplets that it excepts one by
one (`stray`, section 2.3), and `SyncsSpare` names the steps that lose a
password instead of excluding them.

`inventory_create` has create jobs only, which a deployment never has for long,
since the scheduler files syncs. What it shows is that create jobs do not
disturb each other; a sync beside them breaks `CredentialKept` (finding 3) and,
for the same reason, the quota. `SyncsSpare` is what is left of `CredentialKept`
when all kinds of jobs run.

### 3.3 Fairness

* `JobQueue`: loops and the scheduler poll on tickers for ever, so their steps
  are weakly fair, and so are `Exit` and `Restart`: both service files restart
  the process (`restart: unless-stopped`, `Restart=on-failure`), and the
  operator starts it again after an upgrade. A statement that a process waits
  for ends (`Commit` or `Refuse`, weakly fair). Jobs, users, statements of the
  API and abandoned ones, cancellations, outages, crashes and stops have no
  fairness.
* `ConnPool`: a statement that has a connection ends, a loop that can go on
  does; `Acquire` is strongly fair, since pgxpool serves waiters in order of
  arrival, and so is `Lock`, for which PostgreSQL keeps a queue.
* `Inventory`: the steps of a job are weakly fair, the provider ends the
  actions it accepted, and a sync of each account is taken again and again
  (strong fairness of `Take`). The last is what `AccountsStaySynced` shows of
  the scheduler while no process is stopped or dies, so `InventoryConverges`
  speaks of behaviours without a crash.
* `AccountSync`: the same scheduler, so each loop goes on with its sync and
  starts another one (weak fairness of `Sync`). There are no crashes in it. Two
  loops never stop syncing the same account, which allows more overlap than a
  scheduler that files one sync at a time and users who file more. The failing
  calls, the administrators and the provider have no fairness. `StatusConverges`
  and `RowsConverge` say that this is enough once the events are over; which
  sync was the last before that does not matter.
* `Migration`: a process that is down is started again by systemd, docker
  compose or the operator, and its statements end (weak fairness of
  `Migrate`). Requests to the API and saves have no fairness.
* `Identity` has none: that somebody is let in at last depends on users and
  mail.

## 4. What is proved

TLAPS checks these for every value of the constants that satisfies the named
assumptions of the modules: any number of users, accounts, processes, loops,
jobs, droplets, migrations and bounds. Every safety invariant and every action
property that a passing run checks is stated by one of them.

| Theorem | Says | If |
|---|---|---|
| `JobQueueProofs!TypeCorrect` | types, and a busy loop holds a job | |
| `JobQueueProofs!Exclusive` | `[]OneLoopPerJob` | |
| `JobQueueProofs!AtMostOneStart` | `[]StartedOnce` | |
| `JobQueueProofs!ResultsAreFinal` | `FinishedIsFinal` | |
| `JobQueueProofs!RunningJobsAreOwned` | `[]RunningIsOwned` | |
| `JobQueueProofs!OneSyncScheduled` | `[]OneScheduledSync` | |
| `JobQueueProofs!JobsStartInOrder` | `[]StartInOrder` | |
| `JobQueueProofs!QueueKeepsContract` | `JobQueue` implements `JobLifecycle` | |
| `ConnPoolProofs!TypeCorrect` | types | |
| `ConnPoolProofs!EnoughConnections` | `[]NotStuck` | more connections than loops |
| `InventoryProofs!TypeCorrect` | types, and rows only of linked accounts | |
| `InventoryProofs!SyncsKeepListed` | `SyncsSpare` | |
| `InventoryProofs!CredentialsKept` | `CredentialKept` | `SingleLoop`, `OnePage` |
| `InventoryResultProofs!SuccessTold` | `[]SuccessIsTrue` | `NoRivals` |
| `InventoryResultProofs!QuotaKept` | `[]QuotaHeld` | `OnePage`, `SingleLoop \/ CreatesOnly` |
| `InventoryResultProofs!PasswordsCurrent` | `[]ActiveIsCurrent` | `SingleLoop \/ NoneSaved` |
| `AccountSyncProofs!TypeCorrect` | types | |
| `AccountSyncProofs!VerdictAboutToken` | `[]VerdictIsAboutToken` | |
| `AccountSyncProofs!RowsKept` | `RowsSurvive` | |
| `IdentityProofs!TypeCorrect` | types | |
| `IdentityProofs!AdminStays` | `[]AdminRemains` | |
| `IdentityProofs!SessionsMatch` | `[]SessionsMatchPassword` | |
| `IdentityProofs!DisabledStay` | `DisabledStaysOut` | |
| `ApiServerProofs!TypeCorrect` | types | |
| `ApiServerProofs!ServedOnSchema` | `[]ServesOnSchema` | |
| `ApiServerProofs!RecordedSchema` | `[]SchemaIsRecorded` | |
| `ApiServerProofs!LimitHolds` | `[]AdmissionsBounded` | |
| `ApiServerProofs!RefusedForAdmitted` | `RefusalsJustified` | |
| `ApiServerProofs!WholeIsSaved` | `[]SavedIsWhole` | |
| `ApiServerProofs!SecretWithHost` | `[]SecretMatchesHost` | |

The last column is a hypothesis of the theorem about the constants.
`SingleLoop`: there is one job loop (`WORKER_CONCURRENCY` is 1 and one process
works). `OnePage`: the droplets of an account fit on one page of a listing.
`CreatesOnly`: all jobs are create jobs, in any number of loops. `NoRivals`:
`SingleLoop`, or `OnePage`, `CreatesOnly` and no transfers. `NoneSaved`: no
create job saves passwords. They are not there for the prover: with a second
loop that syncs beside a create job, or with a listing of several pages of which
a droplet goes while it is read, the properties are false (section 3.1).
`inventory_serial` has one loop and two pages, so it is an instance of
`SyncsKeepListed`, `SuccessTold` and `PasswordsCurrent`; `inventory_create` has
two loops and one page, so it is one of `SyncsKeepListed`, `SuccessTold` and
`QuotaKept`, and shows of `CredentialKept` what is not proved. `SyncsKeepListed`
has no hypothesis and holds of every deployment. Conditions on behaviours (no
crash, no lost answer, no overlap of two requests) are part of the properties
themselves (section 3.2).

**Queue.** `OneLoopPerJob` is not inductive: nothing in it says that a job
being worked on is no longer queued. The inductive invariant `IInv` is
`TypeOK /\ LoopOK /\ QueueInv`: a busy loop holds a job (`LoopOK`); a job
being claimed is `queued` and one being worked on is `running`, unless its
account is gone; `attempts` is at most 1, and 0 while a job is absent or
queued; an absent row has no columns. A claim needs a queued, unlocked row, so it can neither
take a job that was started nor one in another loop's hands. The refinement
maps a job to its state and to whether a loop holds it; each action is a step
of `JobLifecycle` or leaves both alone. The action of `EnqueueStaleSyncs` that
inserts many rows is one `Submit` of a set. `RunningIsOwned` needs in addition
that no process is `stopping` before a stop (`NoneStopping`).

`OneScheduledSync` is kept although the scheduler inserts what an earlier
snapshot showed it. A process has one INSERT of its scheduler under way at a
time (`OneStatement`), and what that one has read stays free of syncs the same
scheduler filed (`ReadAreFree`), since nothing else files them; so when it
commits, an account gets at most one (`OneScheduled`). A statement that is
abandoned ceases to be the scheduler's, which is why it does not count.

`StartInOrder` is about requests of which one had been filed when the other was
made, for of two that overlap the later one can commit, and start, first. A job
filed earlier has an earlier stamp than a statement that began knowing it, as
long as it is queued (`StatementsStamped`, `RowsStamped`; a rank is used again
only when no waiting row or statement has it). A claim takes the oldest row that is not
locked, so what was filed before it is under way or in another loop's claim
(`TakenInOrder`). With several loops that needs that a claim is never given up;
with one loop there is no other claim.

**Pool.** When no statement runs, the taken connections are those `lockUser`
keeps, at most one per loop: by the pigeonhole principle one is free. A loop
that waits for an advisory lock waits for a loop that holds it, which is not
itself waiting for a lock and can use the free connection. `TypeOK` alone is
inductive.

**Inventory.** `TypeOK` needs `PhaseOK`, which says what kind of job is in
which phase, that a sync under way has read an owner, and that `left` is
between 1 and the number asked for, all of it for a key-mode job: otherwise
`left` could go below zero. The rest is built in layers.

* `JobInv`: create jobs of one user exclude each other (`LockOK`), and as long
  as nothing was transferred a job and its sync know the owner of their account
  (`OwnerOK`). So two create jobs are never on one linked account.
* `SyncsSpare` needs `ListingOK`: of the droplets a listing cannot miss
  (`kept`), each has been read or stands on a page still ahead. A new droplet
  comes in front and moves the others only further ahead (`PlaceGrows`), and one
  that goes while pages are being read empties `kept`. So when the listing is
  complete, what is stored contains all of `kept`, in any number of loops.
* `CredentialKept` needs `ListingFresh`: what a loop is about to store contains
  every droplet of the account that exists. With one page that is so when it is
  listed, and only `Request` makes droplets: with one loop nobody is there to do
  it before the storing, with create jobs the lock forbids it. A sync beside a
  create job is the step that fails, and TLC shows how (finding 3).
* `SuccessIsTrue` needs that ids are used once (`BornOK`), that made and not
  yet requested droplets of an unfailed create job add up to the number asked
  for (`CountOK`), that those made are saved or still to be saved (`SavedOK`;
  nobody stores between the saving and the report with one loop, and a fresh
  listing has them under the lock), and that an unfailed delete job has only the
  droplets left that it has yet to delete (`DeleteOK`).
* `QuotaHeld` needs that rows carry the owner of their account (`RowsOwned`),
  that every droplet has a row or was made by the create job that holds its
  owner's lock (`Recorded`), and that a job which is about to send requests has
  room for all of them (`RoomLeft`). `CheckQuota` counts rows, right after a
  sync of its own under the lock: at that point the rows are all the user has,
  in every account.
* `ActiveIsCurrent` is not inductive because an accepted action changes the
  password later. `CurrentOK` adds that no action is about to change a password
  shown as active, unless a loop waits for it or the droplet is a stray. A wait
  ends with the mark or leaves a stray (`ResetsEnd`), a stray stays one until
  its password is entered (`StraysStay`), and only an accepted action changes a
  password (`PasswordSteps`, `ResettingSteps`). What a create job saves is still
  the machine's first password (`FreshOK`), with one loop.

**Account sync.** A droplet that a listing cannot miss has been read or is on
a page still ahead (`KeptOK`); a droplet added in front moves the others only
further ahead, and one that is destroyed while pages are being read ends the
promise, which is the property's condition. Until a token is
replaced under a sync, every sync that waits to record its verdict has asked
with the stored token (`VerdictsOK`). Rows, tokens and pages of any size.

**Identity.** Links, sessions and requests are about users that have a row
(`RowsOK`), and pairs of requests that conflict are recorded when they run
together (`OverlapsOK`). Then: what `adminUpdateUser` is about to write spares
the administrators or leaves another one (`AdminsOK`); every login or
reauthentication in progress, and every session, has compared the user's
present password (`PasswordsOK`); a verification under way is the last of its
user, and a verified user has no link left (`VerificationOK`).

**Server.** A process that has come to version `n` finds all before it in the
schema, and of the transactions that apply the same version at most one is
past the point where the others wait, with the version not yet in effect
(`PlaceOK`). A limiter's entry counts what went through in its window; the
stretch of one window before it has room left, because the request that opened
the previous window is not in it (`EntryOK`). Any stretch as long as a window
meets at most these two, so less than twice the limit gets through. A save that
nothing was written over finds its page in every key it has passed
(`WrittenOK`). Each part is proved from its own invariant; a process that dies
takes only its own requests and entries with it.

## 5. Only model-checked

All liveness: `JobsStart`, `JobsFinish`, `AccountsStaySynced`, `LoopsReturn`,
`InventoryConverges`, `StatusConverges`, `RowsConverge`, `StaysUp`. TLAPS has
no rule for fairness and none for ENABLED. The findings are counterexamples, so
TLC alone shows them.

## 6. Not modelled

* Encryption, configuration, audit log, status page, usage and lists, catalog
  and SSH key proxy: I/O or library calls without state that later decisions
  read.
* The dialogue with the mail server (`deliverSMTP`): `Identity` has its three
  outcomes.
* CSRF tokens, headers and maintenance mode: they compare a request with itself
  or with one row.
* Quotas and names of users as `adminUpdateUser` writes them: `Quota` is a
  constant of `Inventory`.
* The worker heartbeat: writes a row the status page reads.
* Who filed a job: the worker does not look at it, so a job of a former owner
  runs after a transfer.
* Front end, installers and release scripts: outside the running service.

## 7. Plan

Done: the modules of section 2, their runs, and a theorem for every safety and
action property of a passing run. What would come next:

1. The hazards without a property (`PROJECT.json`): a one-time token that is
   used up and then not acted on, a verified user set to `pending`, the queued
   jobs of a former owner, a mark that fails, a restore, a create job retried
   after a lost answer. What the code does there is modelled or described; a
   property of them says something once the code promises something.
2. An abstract specification of a user's inventory (droplets, a password that
   is known or not) that `Inventory` implements while `NoRivals` holds, as
   `JobQueue` implements `JobLifecycle`.
3. Weaker hypotheses for the theorems of `Inventory`: any number of loops, as
   long as no sync runs on the account of a create job.
4. The safety half of the convergence properties: a sync that nothing crossed
   leaves rows that equal the listing and the owner it read.
