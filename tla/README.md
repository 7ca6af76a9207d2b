# Hwala core: a verification project

Hwala is a multi-tenant payment ledger: a NestJS API over PostgreSQL (through
Prisma) and Redis (ioredis and BullMQ). Tenants open accounts, move money
between them, place holds and capture or release them; every operation is
recorded in a ledger and announced to the tenant's webhook.

The modules in this directory model the parts of the program that keep and move
state, TLC checks them on small instances, and TLAPS proves theorems about the
core for every value of the constants. Definitions keep the names of the code;
`PROJECT.json` says which lines each of them stands for (paths such as
`src/transfer/transfer.service.ts` below are relative to the repository).

    tlc -config MCTransfer.cfg MCTransferService           # one run
    tlapm TransferServiceProofs.tla                        # the proofs

## 1. The system

| component | state it keeps | operations | hard behaviour | what makes it correct |
|---|---|---|---|---|
| **Transfer core** `src/transfer/transfer.service.ts` | `Account`, `LedgerEntry`, `WebhookOutbox` in PostgreSQL | `executeTransfer`, `holdFunds`, `captureHold`, `releaseHold`, each one interactive transaction | calls side by side under READ COMMITTED; row locks; lookups before the locks; timeouts and rollbacks | calls are serializable; no overdraft; money conserved in each tenant; entries explain balances; no deadlock |
| **Accounts** `src/accounts/accounts.service.ts` | `Account` rows | `createAccount`, lookups, `reconcileTenantBalance` | an account appears while calls run | a tenant's entries sum to zero |
| **Outbox dispatch** `src/webhook/outbox.processor.ts` | `WebhookOutbox.status/attempts`, `isProcessing` and the batch in memory | a poll every five seconds in every API and worker process | processes overlap; a crash or a lost answer between two writes | no event vanishes; each gets somewhere; the limit on attempts is kept |
| **Webhook delivery** `src/transfer/webhook.processor.ts`, BullMQ | jobs in Redis | deliver, retry with backoff, give up | retries; merchants that never answer | a failure for good is recorded |
| **Failed webhooks** `src/webhook/webhook-dlq.controller.ts` | `WebhookFailure` | list, retry, dismiss | a retry beside a dismissal; a crash between queue and delete | a retried row is in the queue before it is deleted |
| **Idempotent requests** `src/common/interceptors/idempotency/idempotency.interceptor.ts` | one Redis record per key | intercept a POST | concurrent retries; failures between its three Redis calls; a store nobody waits for | one effect per key; faithful replays |
| **Transfer velocity** `src/security/security.service.ts` and **risk** `src/risk/risk.service.ts` | sorted sets in Redis, `RiskFlag` | count the attempts of a minute, reject or block, flag; update a flag | pipelines of two processes interleave; a slow Redis, a failing command; the fallback count; flags written outside any transaction | the limits hold; nobody is rejected or blocked without cause; flags say what was decided |
| **Reconciliation** `src/reconciliation/reconciliation.service.ts` | none | compare ledger and accounts every night | two reads while calls commit | no false alarm |
| **Exchange** `src/exchange/exchange.service.ts` | cache of rates in Redis | rate, convert | overlapping fetches stored out of order; a provider that stalls; rounding of small rates | the source named in an answer is where its rates are from; a conversion is near its table; every call is answered |
| **API keys, audit** `src/api-keys`, `src/auth/api-key.guard.ts`, `src/audit` | `ApiKey`, `AuditLog` | create, validate, revoke | use during and after revocation; two revocations at once; the entry fails after the change | a revoked key stays refused; one entry each; a tenant's keys are its own |
| **Users and sessions** `src/auth` | `User`; tokens, which only clients keep | register, login, validate | two registrations of one address; claims that nobody reads again | one user per address; keys are managed by members of their tenant |
| **Health, metrics, bootstrap, rate limits, deployment** | counters, configuration | probes | - | - |

How they interact:

- A request passes the guards, the idempotency interceptor (Redis), the velocity
  and risk rules (Redis) and then runs one transaction of the transfer core
  (PostgreSQL). They share no memory across processes: `Account` row locks and
  Redis keys are the only coordination.
- The transaction writes its `WebhookOutbox` row with its balances and entries.
  Pollers hand pending rows to BullMQ, the worker delivers them, and what could
  not be queued goes to `WebhookFailure`, from where an administrator retries.
- The nightly job reads ledger and accounts beside all this.
- `values-production.yaml` runs several API and several worker replicas, each
  with the cron of `OutboxProcessor`: there are always several pollers.

Two facts of the wiring bear on the models. `TransferService` asks for a
`SecurityService` (`transfer.service.ts:23`, a TypeScript optional without
`@Optional()`), and `TransferModule` does not import `SecurityModule`, which
exports nothing: the injector cannot provide it. The velocity rule is modelled
as the service defines it, for whoever calls it. And the risk and velocity rules
run before the transaction begins, so neither is part of `TransferService.tla`.

## 2. Modules

| module | models | extends |
|---|---|---|
| `Ledger` | the money state, the lookups, checks and writes of the four transactions and `createAccount`; `LedgerSpec` makes each call one step: the abstract specification | - |
| `LedgerAccounting` | properties of the money state that sum over accounts or events | `Ledger` |
| `TransferService` | the same calls as they run: lookup, row locks in sorted order, checks, commit or rollback, any number side by side | `Ledger` |
| `Reconciliation` | the nightly job while the calls of `Ledger` commit | `Ledger` |
| `Delivery` | what delivery comes to for one event, stage by stage: an abstract specification | - |
| `Outbox` | outbox rows, pollers, queue, worker, failures, administrators; implements `Delivery` | - |
| `Idempotency` | the requests that carry one key | - |
| `Screening` | the rules in front of a transfer: both sorted sets command by command, the fallback count, the flags and their update | - |
| `ApiKeys` | API keys, the guards that admit requests with them, and the audit entries about them | - |
| `Access` | users, logins and tokens in front of the requests of `ApiKeys`; implements `ApiKeys` | `ApiKeys` |
| `ExchangeRates` | conversions with the cache, the provider and the constants behind them | - |
| `...Proofs` | theorems and proofs about `Ledger`, `TransferService`, `Reconciliation`, `Outbox`, `Idempotency`, `Screening`, `ExchangeRates`, and `Access` with `ApiKeys` | their components, `TLAPS` |
| `MC...` | the small instances; nothing but constants and symmetry sets | the component |

Three compositions: `TransferService` refines `LedgerSpec`, so that
`Reconciliation` can run beside whole calls; `Outbox` refines `Delivery`;
`Access` puts the sessions in front of `ApiKeys` and adds no behaviour to it.

Some definitions are followed or preceded by a variant marked `fault:`. It is
the definition with a plausible bug in it (a dropped check, an order swapped);
`PROJECT.json` pairs each property with the variant that breaks it. No
specification uses the variants.

### Ledger and TransferService

State: `tenantOf`, `kind`, `balance`, `holdBalance` are the columns of `Account`
(an id without a row has `tenantOf = NoRow`), `holds` the `LedgerEntry` rows of
type HOLD, which capture and release look up by transaction id, `ledger` the sum
of the entries of each type and account, `outbox` the payloads of the
`WebhookOutbox` rows. `opening` is a history variable: what a row was inserted
with. `TransferService` adds `pc`, `call` (what the call was asked for and has
looked up) and `lockedBy`.

| code | model |
|---|---|
| argument checks, fee, `findFirst` of the revenue account, `findFirst` of the hold | `BeginTransfer`, `BeginHold`, `BeginCapture`, `BeginRelease` |
| `[...ids].sort()`, one `SELECT ... FOR UPDATE` per id | `LockRow`, `NextToLock` |
| the checks after the locks | `Check`, `Allowed` |
| updates, entries, outbox event, commit | `Commit`, `Post` |
| any exception, the transaction's timeout, a lost session | `Rollback` |
| `createAccount` | `CreateAccount` |

The checks are one step and the writes are another because every existing row
they touch is locked by then. That is an argument, so it is a theorem as well
(`Serialized`): the fault variants in which a row is not locked break it.

Abstractions. Amounts are whole cents; `MaxColumn` stands for the largest value
of DECIMAL(12,2), and a commit that does not fit fails. The `version` column is
incremented and never compared, and is left out. Entries are kept as sums per
type and account, apart from HOLD entries. The balance checks of the code add
and compare doubles (`transfer.service.ts:81`, `:131`) and the model whole
cents: the sum of an amount and a fee need not be the double nearest to it, so
that a call whose balance is exactly what it needs may be refused by the code;
one that is a cent short is refused by both. `toFixed(2)` of a double may round an exact half
cent either way, so `Fees` allows both. UUIDs may
be written in upper case, which the sort of strings sees and the database does
not (`Spellings`; ids are taken to begin with a letter, so that upper case sorts
first). A transfer in `LedgerSpec` may insert a revenue row even when there is
one, since two first fees side by side do that (finding below).

### Outbox

`status` and `attempts` are the row; `pc` and `batch` are what a poller has in
memory, with the attempts as it read them; `jobs[e][n]` counts the jobs of an
event that have failed `n` times. Each write of the loop is a step with the
outcomes *done*, *refused*, *unanswered* (done, and the answer is lost),
followed by the catch block the code would enter: the inner one, which reverts
or fails the row, or the outer one, which ends the poll. `Crash` loses the
memory of a poller, `Break` that of an administrator's request. Retry adds the
job and then deletes the row; both requests may meet a row that another has
deleted. `process()` reads the tenant before it looks for a URL, so a job
without a URL can fail, too (`DeliveryFails`).

### Idempotency

One key, so one record. `Acquire` is `SET NX`, `Read` the `GET` with its four
outcomes, `Handle` the guarded call, `Store` the `SET` in `tap()`, `Release` the
`DEL` in `catchError()`. `tap()` is not awaited and a rejected `SET` there has
no handler. The response body is abstracted to the request it was made for, the
fingerprint to a payload. The record expires after a day, which no request
outlives.

A handler takes effect, or throws with nothing done, or throws although it has
taken effect: `$transaction` rejects as well when it does not hear of its COMMIT
(`transfer.service.ts:247-253`), and the interceptor cannot tell the difference.
The faults are `"handler"`, `"commit"`, `"redis"` and `"crash"`. `executed` and
`released` are kept for the properties: the requests that have taken effect and
those that have given the key back since the record was last dropped for its age.

### Screening

One sending account. `rule` says which service an attempt is at: first
`enforceTransferVelocity`, which rejects, then `evaluateTransaction`, which
blocks. Each has a sorted set and a key of its own; the pipelines are alike, the
comparisons are not (`>=` and `>`). A process has one connection, on which
pipelines follow each other; those of two processes interleave command by
command. `stamp` is `Date.now()` before the pipeline is sent.

| code | model |
|---|---|
| `zremrangebyscore`, `zcard`, `zadd`, `expire` of the pipeline | `Trim`, `Count`, `Add`, `Return` (which also compares) |
| one command fails: its result is `[error, undefined]` | outcome *failed* of that step; `counted = NaN`, which compares as small |
| `exec()` fails as a whole | `Abort`: the first service throws, the second one counts rows instead |
| the count of `LedgerEntry` rows | `Fallback` |
| `riskFlag.create` with its `catch` | `FlagVelocity`, `FlagHighValue` |
| `updateRiskFlagStatus` | `FindFlag`, `UpdateFlag` |

`delay` is how long a pipeline may take in a behaviour, and with it the limit
holds for a window that is shorter by as much: a late pipeline may find the key
expired. It may also lose it between its own `ZADD` and `EXPIRE`, as the key
lives exactly as long as the window. `MaxTrouble` bounds delay and failures
together. Statements of the database take no time here. The fallback counts the
`LedgerEntry` rows of the last minute: those of what the account received just
before the behaviour began (`Received` rows), and `TransferRows` for each of the
transfers cleared in that minute, any number of them, since their transactions
may or may not have committed (two rows, the entry of the amount and that of a
fee). A row bears the time at which its transaction began, which is taken to be
when the transfer was cleared, at most `delay` after its stamp (`Outgoing`).
`Placement` bounds how the attempts may be spread over the processes.

### ApiKeys

`keys` and `audit` are the tables; `pc`, `about` and `found` what a request does
next, is about and has read; `tooLate` and `deletedBy` are history. Each
statement is a step: `Insert` and `Log` for `createApiKey`; `Find`, `Delete` and
`Log` for `revokeApiKey`; `Validate` and `Compare` for the guards. A write is
*done*, *refused* or *unanswered*, as in `Outbox`, and `After` is the `await`
behind it: the request goes on, or throws and leaves what it has done. A secret
is random, so a request with the right one comes from someone whom a creation
has answered; other requests get no further than the comparison and are left
out. Deletion names the id only and fails when there is no row, as Prisma's
`delete` does, and an insert fails when the id is taken (`InsertOutcomes`), which
`randomUUID()` does not let happen. `Lookup` is `findUnique` with its null, and
`Missing` the check for it.

### Access

`users` are the `User` rows, `tokens` the claims of the tokens that have not
expired, `visit` the calls of `register` and `login`. `LookUp` is the
`findUnique` before `bcrypt.hash`, `CreateUser` the insert after it, which the
unique index may refuse (`Taken`); `SignIn` is the lookup and the comparison of
`login`. A token carries the tenant of the row; `JwtStrategy` reads no row
again, and `CurrentTenant` takes the tenant from the token, which is what
`BeginWithToken` asks for. Nothing in the program changes a user or a tenant, so
that a token cannot be wrong before it expires. Roles are left out: `RolesGuard`
has no handler that changes state to guard. A password is what bcrypt tells
apart. Some users are there to begin with (`Members`).

### ExchangeRates

A table of the provider is known by the time it was quoted at, so that two
tables in one answer, or an old one in the cache, are seen; the constant table is
`DefaultRates`. `stored` is history: when a call has stored its table. `Convert` holds the
early returns, `ReadCache` the `GET`, `Respond`, `LoseFetch`, `TimeOut` and
`GetBody` the fetch, `Store` the `SET ... EX` whose failure is swallowed,
`FallBack` the constants. The timer is cleared when the headers are there, so
the five seconds do not cover a wait in `GetBody`; the HTTP client has a limit of
its own for that, which the code does not set and the model does not assume.
`Round` is `toFixed`, with ties upwards; no
tie occurs in the instance. The base of a table cancels in `rates[to] /
rates[from]` and is left out, and with it that the code asks for tables of a
base that the provider's address need not name. No other service calls `convert`
yet.

### Reconciliation

`ReadLedger` and `ReadAccounts` are the `groupBy` and the `findMany`, in this
order and not in one snapshot. `CallCommits` is any step of `Ledger`, which the
`Serialized` theorem justifies. Between two nights the job keeps nothing. An
account whose entries sum to zero would be reported as an orphan by the code and
is not by the model; as accounts are never deleted, neither exists.

## 3. Runs

Checked and true:

| run | instance | shows |
|---|---|---|
| `mc_ledger` | one-step calls: 2 tenants, 5 rows, 3 calls, flat and percentage fee with ties, the nightly job beside them | entries explain balances; the events of the outbox rebuild every balance; money is conserved within a tenant; no call moves another tenant's money; no orphan is ever reported, and on a quiet ledger a mismatch is an opening balance or a hold |
| `mc_transfer` | interleaved calls: 2 calls of any kind, 2 tenants, 2 wallets and 2 rows that fees or `createAccount` insert | implements `LedgerSpec`; balances change only under lock |
| `mc_transfer_fair` | 3 calls on 3 wallets, fairness | no overdraft; no circle of waiting calls; every call that begins ends |
| `mc_outbox` | 1 poller, 2 events (one without a URL), 1 administrator, every fault | a completed row was handed to BullMQ; the limit on attempts; implements `Delivery`: no event is taken back |
| `mc_outbox_fair` | 2 pollers, 1 administrator, Redis faults, fairness | no event vanishes, each gets somewhere |
| `mc_idempotency` | 4 requests with one key, 2 payloads, every fault | two effects need a handler that threw and a key given back, perhaps by one of the two; a replay answers the same question, with what took effect |
| `mc_screening` | 4 attempts (one of high value), 1 or 2 processes, both services, a delay or a failure anywhere, an administrator of either tenant | how far each limit can be exceeded and why; no rejection, no block without cause, be it counted by Redis or in the ledger; flags say what was decided; the second velocity rule is idle while Redis answers |
| `mc_access` | 2 registrations or logins and 3 requests, 1 key, 2 tenants, 2 scopes, every fault | one user per address; keys are managed by members; a key is refused from the answer of its revocation on; one entry for all its revocations; a tenant deletes its own keys only; a request gets what its key was created with |
| `mc_exchange` | 3 conversions, 3 currencies (one the provider has at times), a key that expires, every fault, fairness | the source named in an answer is where its rates are from, also when the older of two tables is stored last; how far rounding takes a conversion from the table; every call ends unless the body stalls |

Statements of comments and docs that the code does not keep, each with a run in
which TLC shows how:

| run | statement | what happens |
|---|---|---|
| `mc_hold_twice` | a capture finalizes a hold | a hold released in part and then captured in part gives its remainder back twice |
| `mc_outbox_stuck` | pending events reach the queue | a crash leaves a row PROCESSING for ever |
| `mc_idempotency_twice` | retries are protected | a key released between `SET NX` and `GET` lets two retries through |

Smaller disagreements show in the shape of the models and have no run of their
own. With another value of a constant or another property TLC shows each of
them:

- `Spellings = {{}, {"receiver"}}` breaks `NoDeadlock`: an id in upper case is
  sorted elsewhere than the same row in lower case (`transfer.service.ts:118`,
  README "eliminating database deadlocks").
- When the answer of a COMMIT is lost the key of the request is given back and
  the retry takes effect again (`transfer.service.ts:252`,
  `idempotency.interceptor.ts:109`): `TwiceOnlyAfterFailure` allows for it, the
  comment of `transfer.controller.ts:26` does not.
- Anyone may register into any tenant (`auth.service.ts:28`). `KeysOfMembers`
  says that keys are managed with tokens of their tenant, and keeps out nobody
  who registers there first.
- Two first fees side by side insert two revenue accounts: both find none before
  either locks anything (`transfer.service.ts:83-109`).
- A captured hold keeps its HOLD entry, so a tenant's entries do not sum to zero
  again (`accounts.service.ts:100`).
- A `holdBalance` can go below zero, by the remainder given back twice.
- `PendingBelowLimit` fails with two pollers: one puts a row back to PENDING
  that used its last attempt in the other (`outbox.processor.ts:83`).
- `NoEventVanishes` fails with `"crash"`: a process dies between FAILED and the
  `WebhookFailure` row (`outbox.processor.ts:88`).
- A delivery that fails for the last time is in `exhausted` and in no
  `WebhookFailure` row: only events that could not be queued get one
  (`webhook.processor.ts:84`; README line 181 says all failed deliveries do).
- `ChangesAudited` excuses requests that failed or were lost: the entry is
  written after the change and outside of any transaction, and only the
  operations on API keys write entries at all (README line 185 says all
  sensitive operations do).
- `WithinLimit` grants each further process one attempt, since pipelines are not
  transactions, each process one more when Redis is slow, and each call that
  fails one more (`security.service.ts:12` says five a minute); `>` in
  `risk.service.ts:64` admits one transfer more than the limit of line 38, and by
  `SecuritySuffices` that rule never applies behind the other one while Redis
  answers.
- A registration whose insert is refused by the index of e-mails answers with an
  error of the database instead of the conflict of `auth.service.ts:53`.
- A fetch of rates has five seconds for its headers, and for its body what the
  HTTP client allows by default (`exchange.service.ts:205` and `:212`):
  `AnsweredUnlessBodyStalls` without its exception fails. A rate below 0.0000005 is rounded to nothing
  (`exchange.service.ts:82`), which `ConvertedAccurately` allows for.
- `MismatchesExplained` says what the nightly job reports for good: accounts
  opened with a balance, and holds that were captured
  (`reconciliation.service.ts:66`).

Bounds. A conflict in the transfer core needs two calls, and a circle of waiting
calls or a hold captured beside its release three. Two calls are enough for the
run that varies tenants, fees and insertion: it begins without a revenue account
and with two rows to insert, so that both calls may insert one. Balances of a few cents are enough
to be short of money, and `MaxColumn` is small enough to be exceeded. In
`Outbox`, `MaxAttempts = 2` (5 in the code) makes the last attempt differ from
the first, `Take = 1` (50) makes a poll leave rows behind; the attempts of two
pollers go past the limit but not far, because they stop when the row is
settled. Administrators' requests are one each, which bounds the jobs; that two
administrators lose no event, and that overlapping pollers complete no row
wrongly while anything fails, is proved and not run.

In `Screening` both limits are 2 (5, 10) and `Window = 2`: four attempts then
pass, are rejected, and lie inside, on the border of and outside a window, and
with one delay or failure (`MaxTrouble = 1`) the excess over a limit and every
fallback happen. A limit of 1 would hide that a key can be dropped under a
pipeline: what is left of the minute before, and keeps the key from being a new
one, is then enough for a rejection. One process serves all four attempts, or a
second one serves the one of high value, which is enough for a count to miss
what another process has not logged yet. With one row received and two for each
transfer the count of rows passes its limit with one other transfer and not
without, which is what `BlockedForCause` distinguishes. `SecuritySuffices` is about behaviours
with one process: two may exceed the first limit by one. In
`Access` two visits and three requests are a registration beside a login, or two
registrations of one address, and a creation, a revocation and a use; that two
revocations meet is there, too. In `ExchangeRates` three calls are a stored
table, a newer one stored before it, and a reader, and the clock runs for twice
the TTL, so that an old table stored late is still there to be read; the table of the provider
changes with every tick, one of its currencies comes and goes, and the weak one
is worth about a hundredth of the strong one. Four requests with one key are two
that take effect, one that fails, and one whose response is replayed.

`CHECK_DEADLOCK FALSE` is set everywhere: requests are finite in number, and
when they are through the system rests. Symmetry is used in runs that check
safety only, for sets whose members no constant tells apart. The largest run has
about a million distinct states.

Fairness. `TransferService`: the server goes on with a call it has begun (the
next lock when it is free, the checks, the commit or a rollback); a process that
does not has died, and the database then ends its transaction. No call is made
to start, and none is helped by a timeout before its writes, so that deadlocks
are not hidden. `Outbox`: the cron fires every five seconds and its calls
return, BullMQ hands out jobs, an administrator's request goes on. BullMQ's
connection is configured with `maxRetriesPerRequest: null`: while Redis is away
an `add` waits, and the fairness of `Add` says that Redis comes back.
`ExchangeRates`: time passes, timers fire and Redis answers, with a value or an
error; the provider is promised nothing, neither headers nor a body. The other
modules check safety only.

## 4. Proofs

All of these hold for every value of the constants that satisfies the named
assumptions of the module: any sets of accounts, tenants, calls and amounts, any
fees, any `MaxColumn`, any table to begin with; any pollers, events, requests,
keys and faults; any windows, limits and delays.

`LedgerProofs`. The invariant `LedgerIInv` consists of `LedgerTypeOK`,
`LedgerExplainsTotals`, `AvailableNonNegative` and that rows not inserted yet
are empty (`FreshRowsEmpty`), which the others need to be inductive: a fee that
inserts its row starts from zero. `LedgerIsolated` rests on `HoldsOwned` beside
it: the account of a hold belongs to the tenant of the hold, and capture and
release do not compare tenants themselves. `HoldStep`, `CaptureStep`,
`ReleaseStep`, `TransferStep` and `InsertStep` treat the writes of each
operation, `PreparedCallStep` reduces a call to them.

- `LedgerTypeCorrect`, `LedgerExplained`, `LedgerNeverOverdrawn` follow from it.
- `LedgerIsolated`: no call moves another tenant's money.
- `LedgerConserves`: what the accounts of a tenant have adds up to what they were
  opened with. The sums are `SumFunctionOnSet` of the community modules, a fold
  over a set with `CHOOSE`, of which the provers know nothing. `SumExists` and
  `SumUnique` show that it is the one function on subsets that adds up element
  by element (`IsSum`), by looking at a smallest subset for which it is not
  (`MinimalSubset`: strict inclusion is well-founded on finite sets; an induction
  over sets cannot be instantiated); `SumRemove`, `SumSame`, `SumAdd` and
  `SumMoved` follow. Each operation then moves an amount between two elements of
  one sum or leaves it alone (`CallMoves`), and a fee that inserts its row adds
  nothing (`InsertConserves`). The hypothesis is that the table is finite to
  begin with: `ConservedInv` carries that it stays so.
- `EventsTellAll`: the events of the outbox rebuild every account. `ExplainedInv`
  adds that events are about rows that exist (`EventRows`), so that a row is
  inserted with none; an event adds to the sums it belongs to and to no other
  (`EventAdded`, `EventTells`). `tx` makes the event a new element of the set.

`TransferServiceProofs`. The invariant `SInv` adds that locks belong to active
calls, that a call that has been checked has every existing row it touches
locked and is still allowed (`CheckedLocked`), that what a call has looked up is
still so (holds are never deleted, rows never change tenant), and that a row
about to be inserted is inserted by one call only (`Reserved`).

- `Serialized`: `Spec => LedgerSpec`. A commit is the one-step call, every other
  step a stutter or an insertion. `NeverOverdrawn`, `Explained`, `Isolated`,
  `Conserved` and `EventsTellAllOfCalls` carry over from the one-step calls.
- `LockedWrites`: balances change only under lock.
- `DeadlockFree`: when ids are written as the database writes them (`Spellings =
  {{}}`) and the table is finite, no calls, however many, wait for each other in
  a circle. The extra invariant, `LockedInOrder`, is that what a call has locked
  comes before what it still has to lock; in a circle the ids waited for would
  grow for ever, and `GreatestId` says that one of them is the greatest. Without
  the first assumption the statement is false.

`AccessProofs`, first about `ApiKeys`. The invariant `IInv` adds to the properties that an id about to
be inserted is new to all tables and requests (`NewToAll`), that a deleted key
is gone and nobody else is about to record its deletion (`GoneForGood`), that a
request which came too late has a revocation to point to (`LateRefused`), and
that rows, entries and requests agree about whose a key is (`OneTenant`).

- `RevokedForGood`, `RecordedOnce`, `Audited`, `TenantsKeepKeys` and
  `KeysTypeCorrect`, with every fault and for any number of requests.
- `AdmittedForWhatWasCreated`. Its invariant, `UseInv`, says that every row, and
  every row that a request has read, is as an answered or a running creation
  made it.

Then about `Access`: `AccessRefinesApiKeys` is `AccessSpec => Spec`: behind the login
the requests do a part of what `ApiKeys` lets them do, so its theorems hold
there, too (`RevokedForGoodWithSessions` is one of them).

- `OneUserOfAnEmail` and `MembersOnly`, from `SessionInv`: e-mails are distinct,
  tokens go back to a visit that has signed in, and so do the requests made with
  them, also when the token has expired since.

`OutboxProofs`. The invariant `IInv` adds to the types that nothing refers to an
event before its transaction has committed (`NothingBefore`) and that whoever is
about to complete a row, or to delete a failure for a retry, has added its job
first (`AddedFirst`).

- `OutboxTypeCorrect`, `CompletedHandedOver`.
- `DeliveryImplemented`: `Spec => Delivery!Spec` under the refinement mapping
  `StageOf`. Each step changes the stage of one event at most, along an arrow of
  `Delivery`.
- `NothingVanishes`, for `Faults \subseteq {"redis"}`: a failed row has a poller
  that records it, which then neither dies nor is refused, and a recorded
  failure is deleted for a retry only after its job was added. With crashes the
  statement is false.
- `LimitKept`, for one poller and every fault. `LimitInv` says that what this
  poller has read stays true until it writes (`ReadHolds`): the entry it is at
  has had one attempt more, the others none. With two pollers it is false.

`IdempotencyProofs`. The invariant says that a completed record is of a request
that has succeeded, and that as long as no request has given the key back,
whoever is past the key is the owner of its record (`KeyHeld`): two owners are
one. A handler that throws after its commit needs no exception to that, since a
second effect takes the key that its request gives back.

- `IdempotencyTypeCorrect`, `Faithful`, `TwiceTakesAFailure`.

`ScreeningProofs`. `CauseInv` follows the cause of a rejection backwards: what
is in a sorted set after the trimming of a pipeline is of its minute, whoever
adds to it meanwhile; so is what is counted, and a decision rests on the count
(`Caused`). What the fallback counts are rows of transfers cleared around the
attempt (`FewRows`), of which there are never fewer later (`RowsGrow`). `FlagInv` says which flags an attempt has by how far it has come,
and whose an update under way is.

`QueueInv` says how pipelines run: the queue of a process holds the attempts
whose commands are not all run, each once, and all but the first have not run
any; with `CauseInv` it gives `TypeCorrect`, and at most one pipeline of each
process between its first command and its last (`OneForEach`). `LimitInv` says
how many are admitted. An attempt that was told to be added, with no call of it
failed, is in the sorted set for a minute, unless the key expired before the
pipeline that had just added it came to its EXPIRE (`Kept`, `Missing`): that
takes time, so none are missing without a delay, and one for each process with
one (`Lag`). When an attempt counts, all that are admitted in its minute are
counted, or about to be added by another process, or missing (`CountSees`);
whoever a failed call has hidden is paid for by that call (`BrokenOnce`).

- `NobodyRejectedWithoutCause`, `NobodyBlockedWithoutCause`, `FlagsExplain`,
  `TypeCorrect`.
- `LimitKept`: `WithinLimit` for any limits, windows, delays, processes and
  failures. The first version of the property allowed a failure as many attempts
  as the limit; the proof showed that it costs one, and the property says so now.
- `NothingLeftForRisk`: `SecuritySuffices`. Without a delay both services stamp an
  attempt in the same instant (`CalmOf`), so that all the risk service counts has
  passed the security service in one minute (`CalmCounts`), which `LimitInv`
  bounds.

`ExchangeRatesProofs`. `RatesInv` says of the table in Redis that the call that
was the last to store one was sent it, and that it is there for a TTL from then
on (`CacheKept`), of a call with a table on its way that the table was quoted
before the timer fired (`Timely`), and of an answer that it is accurate. What a
source means is a property of the step that answers, since a cache moves on
after that. About the arithmetic: `Round` is off by at most a half
(`RoundedBy`), and the errors of the rate and of the amount add up as the
property says (`ErrorsAddUp`, `ConversionError`), for any units of which one
divides the other.

- `TypeCorrect`, `SourcesTold`, `Accuracy`.

`ReconciliationProofs`. Beside `LedgerIInv`, what the job has read entries of
exists (`EntriesHaveRows`; `RowsStay` says that no call deletes a row), and what
it has read is current unless a call has committed since (`ReadIsCurrent`).

- `NoOrphanReported`, `MismatchMeaning`.

Only model-checked: liveness (`EveryCallEnds`, `EveryEventAnswered`,
`AnsweredUnlessBodyStalls`), which is out of the prover's reach. Every safety
property of a passing run is a theorem. `Conserved` has the hypothesis of a
finite table, `DeadlockFree` that and one way to write an id, `NothingVanishes`
the faults of Redis only, and `LimitKept` of `Outbox` one poller: the instances
of the runs satisfy them, too.

## 5. Not modelled

- Amounts with fractions of a cent. The DTO admits them
  (`create-transfer.dto.ts:19`), and PostgreSQL rounds each new value of a
  DECIMAL(12,2) column by itself: taking half a cent from a balance of whole
  cents rounds it up again, adding half a cent to another one adds a cent. The
  conservation shown here is for amounts of whole cents.
- Roles of users (`RolesGuard`): no handler that changes state asks for one.
- Tenants: no operation changes one; `CurrentTenant` is in `Access`.
- The signing of webhooks, pagination, logging, metrics, health checks,
  bootstrap, rate limiting (a library) and manifests: no state of the program's
  own, or pure input and output.
- Reads of the API (listings, lookups, `reconcileTenantBalance`) change nothing
  and are left out.
- The clients of the database and of Redis set up connections; the stores are
  external, and modelled where they are used, with what they may refuse or lose.

## 6. Plan

Order of work, the most important behaviour first:

1. `Ledger`, `TransferService`, `LedgerAccounting` and their proofs: done.
2. `Outbox`, `Idempotency`, `Screening`, `Reconciliation`, `ApiKeys`, `Access`:
   done, with proofs.
3. `Delivery` as the promise of `Outbox`, `ExchangeRates`: done.
4. Theorems about every safety property of these: done.
5. Left: a module about the DECIMAL columns for amounts below a cent; one
   request through `Idempotency`, `Screening` and `TransferService` together;
   the outbox of `Ledger` as the source of `Outbox`.
