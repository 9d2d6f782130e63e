# Verification of no-ip-phone

TLA+ models, TLC runs and TLAPS proofs for the server and the client of
no-ip-phone: a calling service in which a tenant's *display DID* stands in for
the caller, and a call back to that DID is bridged to whoever dialled out.

Paths below are those of the repository, under `src/`.

## 1. Inventory

### The system

| part | code | state | operations |
|---|---|---|---|
| telephony webhooks | `server/src/modules/telephony` | tables `call_sessions`, `callback_sessions`, `call_events`; nonces in memory | `handleInboundCall`, `handleCallStatus`, `handleRecordingReady` |
| calls service | `server/src/modules/calls` | the same tables | `createOutboundCall`, `getCall` |
| entities, migrations | `call-session`, `callback`, `call-event`, `tenant`, `database` | the schema and its unique indexes | none |
| auth | `server/src/modules/auth` | `account_refresh_tokens` | `loginWithRole`, `refreshWithRole`, `logoutWithRole`, `me` |
| accounts | `server/src/modules/account` | `accounts` | `bootstrapAdmin`, `validateCredentials`, `createAccount`, `updateAccount` |
| rate limit | `server/src/modules/rate-limit` | counters with a TTL in Redis or in memory, the circuit of the failover store | `increment`, `reserveOnce`, `delete`, `activateFallback` |
| config | `server/src/modules/config` | tables of dial prefixes and notices | list, create, update |
| admin controllers | `server/src/modules/admin` | none | forward to accounts and config |
| user, sms | `server/src/modules/user`, `sms` | left from an earlier login by code, not called | none |
| client session | `client/lib/features/auth`, `admin/data`, `startup` | the stored token pair, the session in memory | login, restore, refresh, `_withRefresh`, logout |
| client dialer | `client/lib/features/dialer` | mode, active task, history | `dial`, `selectMode`, `refreshActiveTaskStatus`, history add and clear |
| client, the rest | `client/lib/core`, `shared`, `features/{admin,settings,config,help}` | forms, lists, one last value | I/O and layout |

### How the parts interact

The client (or any tenant system) calls `POST /calls/outbound`. That inserts a
call session and, when the DID has `callbackEnabled` and a target endpoint is
known, a *callback window*: for `DEFAULT_CALLBACK_TTL_SECONDS` a call from the
same remote number to the same DID belongs to that target. The PBX reports to
the three webhooks. `inbound-call` looks for a live window and answers "bridge
to this endpoint" or "reject for this reason"; `call-status` and
`recording-ready` record an event and move the status of a call and of the
window it names. Every webhook is recorded once in `call_events` under an
idempotency key built from the message; a repeated message is answered from
there. Producers repeat a message until they have an answer other than 500.

The client holds one session: a pair of tokens that `auth` issues and rotates.
It dials either through a prefix on the handset or through `POST /calls/outbound`,
in which case it shows the task it was given and asks `GET /calls/:id` for news of
it. The admin console lists and changes accounts, prefixes and notices and keeps
copies of the rows; processes that start insert the first two accounts
themselves. Failed logins and codes are counted by a store that lives in Redis,
in the process, or in both with a circuit between them.

Nothing calls back within the server: it is the database that ties concurrent
requests together. Each handler is a chain of awaited SQL statements in one
Node process over a connection pool, so requests interleave between any two
statements, and several processes could run at once.

### What is hard

* A handler loads rows, decides on them, and saves them some awaits later; rows
  are neither locked nor versioned.
* TypeORM's `save` re-reads the row and writes only the columns in which the
  entity differs, so a stale entity overwrites exactly what has changed since.
* The lookup of a key and the insert under its unique index are separate
  statements, for events and for accounts.
* Events arrive late, twice and out of order. Any statement can fail, the
  process can stop, an answer can be lost after the commit.
* Transactions wait for row locks and for uncommitted index entries.
* A nonce lives in milliseconds, the timestamp beside it is compared in seconds, each
  with a reading of the clock of its own.
* A refresh revokes the old token before it issues the new one, and the client
  stores the new one only after a further request.
* Two stores count under one circuit that requests in flight open and close.
* Answers come after the state they belong to has been replaced: on the dial
  page, in the lists of the console, in a handler that reads five tables.

PROJECT.json lists each at its line under `hazards`, with the properties that
speak of it.

### What makes each part correct

| part | properties |
|---|---|
| telephony | an idempotency key is recorded once; a repeated inbound call keeps its decision; what was acknowledged is in the tables; inbound calls and routing decisions are one to one; status only advances, terminal status stays; a window routes one call, is expired only on account of a recorded reject; requests never wait in a circle; every request ends, every message settles |
| nonces | a nonce is refused as long as its timestamp is accepted; a refused request spends none |
| auth and client session | no refresh token is left behind without a reason; a revoked token and a barred account get nothing; the stored pair is whole; the state `booting` is left |
| accounts, config, console | one account per username; an update changes what it names; a console that nobody disturbs shows the table; every process starts |
| rate limit | a store counts no attempt older than its TTL; a failed primary does not fail a request that may fall back; a release does not count in its own memory; the circuit closes again |
| call tasks, dialer | a task is made of rows that are in use; it is never older than the event shown with it; the page shows the task dialled last and does not go back; dialling ends |

## 2. Modules

| module | content |
|---|---|
| `CallStates` | the status dictionaries, `ShouldApply`, `ReportedStatus`, `WindowAfter` |
| `TelephonyWebhooks` | the tables, the requests, one action per statement of a handler, `CreateOutboundCall`, failures, time, administration |
| `WebhookInbox` | the abstract specification: a key is decided once, an answer repeats the decision or refuses |
| `TelephonyProperties` | the properties, the fair specification, the refinement mapping to `WebhookInbox` |
| `NonceWindow` | `verifyWebhookSignature`, which every webhook passes first |
| `CallTasks` | `createOutboundCall` and `getCall` statement by statement, the tenant of a request, and `DialController` in front of them |
| `Sessions` | the auth service with its token table, and the client's session in front of it |
| `AdminTables` | the account and config services, the first accounts, and the admin consoles |
| `RateLimit` | the three stores, the choice between them, the requests that count |
| `MCTelephony`, `MCNonceWindow`, `MCCallTasks`, `MCAdminTables`, `MCRateLimit` | the small instances; the `.cfg` files give the constants. `Sessions` needs none |
| `TelephonyWebhooks_proofs`, `TelephonyRows_proofs`, `WebhookInbox_proofs`, `NonceWindow_proofs`, `CallTasks_proofs`, `Sessions_proofs`, `AdminTables_proofs`, `RateLimit_proofs` | the TLAPS proofs |

`TelephonyProperties` composes `CallStates`, `TelephonyWebhooks` and, by
`INSTANCE ... WITH`, `WebhookInbox`. `CallTasks`, `Sessions` and `AdminTables` each
compose a service with the client that talks to it. The modules of different
tables are not composed further: a webhook shares no table with a login, and the
reports that change a task under a reader are `Report` of `CallTasks`.

### Webhooks and the abstract inbox

`callSessions` and `callbackSessions` are sequences of rows in commit order, the
index being the id; `callEvents` is a bag, because nothing refers to an event by
id and "the same row twice" must be expressible. `req[w]` is the request that
slot `w` serves: its position `pc`, the message, the entities it has loaded and
changed in memory (`call`, `callback`), what its open transaction has done
(`inserted`, `callLock`/`callCols`, `callbackLock`/`callbackCols`). An
uncommitted write exists only there, and becomes visible in `Commit`. `answers[m]` is
every HTTP answer message `m` has had. `assignedDids`, `activeEndpoints`,
`tenantActive`, `now`, `faults` are the world outside.

| action | code (`telephony.service.ts` unless said) |
|---|---|
| `Deliver`, `DeliverAgain` | the lookup of the key at the head of each handler; with an event found, `assert*EventConsistency` and `rebuildInboundDecision` |
| `LookupDid` | `lookupDidContext` and the tenant status |
| `SelectCallback` | `find` on the windows of the line, the choice of one |
| `ResolveEndpoint` | `resolveInboundTargetEndpoint`, the entry of `persistInboundRoute` |
| `Reject` (operator) | the entry of `persistInboundReject` |
| `LoadCall`, `LoadCallback` | the loads of `applyCallStatusEvent` and `applyRecordingEvent`, then the assignments to the entities |
| `InsertEvent` | the INSERT under `uk_call_events_idempotency_key` |
| `ReloadCall`/`UpdateCall`, `ReloadCallback`/`UpdateCallback` | the SELECT and the UPDATE of a TypeORM `save` |
| `Commit` | COMMIT and the answer, which may be lost (`LoseReply`) |
| `CreateOutboundCall` | `persistOutboundCall` of `calls.service.ts` |
| `Fail`, `Crash` | a statement fails (500, `telephony.controller.ts`), the process stops |
| `Tick`, `SwitchDid`, `SwitchEndpoint`, `SwitchTenant` | the clock, administration |

`StepAfter` is the order of the saves: event, call, window for a status report;
window, events for an inbound decision.

The inbox that the webhooks implement has two variables: `decided`, the verdict
of a key, and `answers`. The mapping reads the verdict off the committed event:
route or rejection for an inbound call, the status and window a report was
recorded with. `Decide` is the commit of the first delivery, `Repeat` an answer
from the table, `Refuse` a 4xx, a 500 or a rejection that leaves no event. What
holds of the inbox holds of the handlers whatever overlaps, fails or crashes.

Abstractions:

* One tenant and one provider trunk: every query after the DID lookup is scoped
  by both, so rows of others are never seen.
* Signature and nonce are `NonceWindow`; parsing and the trunk check run before
  the first await and touch no table; `Messages` are the payloads that pass. A
  repeated message is a new request with a fresh nonce, which is why any number of
  deliveries is allowed.
* An invalid E.164 number and an unassigned DID are both answered without a
  write; the model has the second.
* `inbound.received` and its `:matched` or `:rejected` companion are written by
  one transaction and are one row.
* Columns left out, because no decision reads them: provider call id of a
  session, trunk key, startedAt, answeredAt, hangup cause, lastInboundAt. matchedAt and
  expiredAt are Booleans. As a save may still differ in one of these, an UPDATE
  with no modelled column may or may not be issued (`UpdateCall`, `UpdateCallback`).
* Of several reachable endpoints any may be taken (the code has an order among
  the window's two, which no property tells apart).
* The reads of DID and tenant in `LookupDid` are one step: an administration
  change between them gives the outcome of a change before or after both. The
  windows are a later read. The DID and endpoint reads of `createOutboundCall` precede its transaction and are not
  repeated, hence the inactive endpoints that `CreateOutboundCall` may use.
* Payload times are late, early and ahead of the clock: nothing compares
  `occurred_at` with it. It decides in one place, `persistInboundReject`, where a
  window is expired by the time of the payload: a call ahead of the clock that finds
  a live window and no endpoint expires it (`ExpiredForAReject` names this case).
* PostgreSQL is READ COMMITTED. Both unique indexes are partial, so an UPDATE of
  those rows takes FOR NO KEY UPDATE, which the KEY SHARE locks of foreign keys
  do not conflict with: a report that only inserts an event does not wait for
  one that updates its call. A request writes at most one call row and one window
  row. Row lock and index entry of one UPDATE are waited for in one step.
* Numbers: both sides strip separators; the calls service keeps local forms,
  the webhooks take +digits only (`E164Remotes`).

### NonceWindow

State: the clock in milliseconds, `seen` (the Map `seenNonces`), `verifying` (the
request between its two checks), the requests that were let through, the number of
restarts. `Refusal` is the chain of checks up to the signature, in the order of the
code; `Refuse` is a request that fails one of them, `Verify` one that passes the
comparison of its timestamp at the first `Date.now()`
(`telephony.service.ts:1138`). After the hash and the HMAC, `assertNonceFresh` reads
the clock again (`:1177`): `RefuseReplay` and `Accept`. Time may pass in between, but
no other request runs, for the method has no await. `Restart` empties the memory. The
HMAC is a Boolean (`signed`). What the handler does with a request that was let through is
`TelephonyWebhooks`; one that ended in a 500 has spent its nonce and is repeated
with another (`docs/telephony/telephony-contract.md:127` asks for one).

`RepeatsOnlyAtTheEdge` is worth reading twice: a nonce lives 600 s and a timestamp
is accepted from 300 s before it to 300 s after it, both edges included. So the
same request is let through again when its timestamp was a full 300 s ahead at first
and it comes back as the nonce ends. As the timestamp is compared at one
reading of the clock and the nonce at a later one, the edge is as wide as the pause
between them: a repeat that is within the skew at the first reading may find
the nonce ended at the second. The property bounds the distance from the edge by that
pause and allows nothing else.

### CallTasks

State: `inactive`, the memberships, assignments, DIDs and endpoints that are not in
use; `tasks`, the call sessions with what is read of their windows and events;
`reqs`, the requests with what they have read so far (`left` are the statements
still to come); and `mode`, `shown`, `isDialing`, `isRefreshing` of `DialState`, with
`ops`, the calls of `dial` and `refreshActiveTaskStatus` at their awaits.

| action | code |
|---|---|
| `Authenticate`, `Refuse` | `JwtStrategy.validate`, the errors of `createOutboundCall` and `getCall` |
| `SelectAssignment`, `SelectDid`, `SelectTargetEndpoint` | `selectAssignedDid`, `selectTargetEndpoint` (`Chosen`: own first, else shared, in the order of the query) |
| `PersistOutboundCall` | `persistOutboundCall`, one transaction |
| `FindCall`, `FindWindow`, `FindLatestEvent`, `FindTargetEndpoint` | the reads of `getCall`, after the first in any order where the code awaits them together |
| `Dial`, `DialWithoutPrefix`, `DialDone`, `DialFailed` | `DialController.dial` up to and after its awaits |
| `Refresh`, `Refreshed`, `RefreshFailed`, `SelectMode` | `refreshActiveTaskStatus`, `selectMode` |
| `SwitchStatus`, `Report` | administration; a commit of a webhook on a task |

Abstractions: the free slot with the lowest number is taken (slots are alike).
Every commit of a webhook that changes a task inserts an event in the same
transaction (`Report`), which is what `EventCoversStatus` rests on. The entries of
the dial history dial without looking at `isDialing` (`home_page.dart:193-197`),
so two dials may overlap. `clientRequestId` is stored and never looked up: a dial
that is repeated after a lost answer is a second task. A 403 or 404 on a refresh
keeps the old task. The status of a tenant is read by no statement here; `getCall`
shows DID and endpoint whatever theirs is. Without the header the tenant of the
earliest active membership is taken (`docs/telephony/field-alignment.md:15`); the
header itself is sent by refreshes, which name the tenant of their task. Left
out: the contents of the history, forms and texts.

### Sessions

State: `status` of the accounts, `tokens` (`account_refresh_tokens`; a pair is the
number of its row), `calls` (the handlers between two statements), `store` and
`accessKey` (the two keys in secure storage), `page` (`AuthState.status`), `task`
(the repository operation that runs). Histories: `lost` and `replaced` count operations
that failed and logins that wrote over a stored pair; `stranded` and `outrun` are the
stored pair over which the process ended, or a login got its tokens and no profile.

| action | code |
|---|---|
| `LoginWithRole` | `loginWithRole` with `ValidateCredentials` up to the pair |
| `FindToken`, `Revoke`, `CheckAccount`, `IssueTokens` | `refreshWithRole` (the first two also `logoutWithRole`), the last also the login |
| `Me` | `me` behind `JwtStrategy` |
| `StatementFails` | an error of the database in any handler |
| `Initialize`, `Restored`, `PairCame`, `ProfileCame`, `RestoreFailed` | `initialize` and `restoreSession`, with the refresh and the profile request under it |
| `LogIn`, `LoginFailed`, `LogOut`, `LoggedOut` | `login`, `logout` of controller and repository |
| `Expire`, `ChangeStatus`, `TimeOut`, `Crash` | the end of tokens, an administrator, Dio's time limits, the app is killed |

Abstractions: one role, for the two controllers differ in keys and role only; the
device check is folded into the lookup; `touchLastLoginAt` and
`resetFailedAttempts` are part of the step before them, as nothing here reads what
they write. One operation of the client runs at a time, as its pages allow. The
router sends to the login page whoever is not `IsAuthenticated`, which asks for an
access token that has not ended (`auth_controller.dart:28-29`,
`app_router.dart:97-100`): an open session whose token ended is logged in over while it
is still in the store, and its row stays usable (`replaced`). `me`
does not check the status of the account. Dio throws on every answer that is not
2xx, so the branches for a 401 (`auth_repository.dart:101-108`,
`admin_repository.dart:146-152` and `210-220`) are never reached and a session is
refreshed only when it is restored; the model has no action for them. A logout
that failed clears the store while the page stays authenticated
(`auth_controller.dart:128-130`). Two refreshes of one token that overlap may
each issue a pair; `NoForgottenRows` counts the lost ones. `BootingEnds` is about the
state: the splash page leaves for `authenticated` and `unauthenticated` once the rest
of the start is ready (`splash_page.dart:41-49`), which is navigation and not modelled.

### AdminTables

State: `rows`, the three tables in insertion order; `calls`, the handlers between
two statements; `started`, how far `onModuleInit` of each process is; `view` and
`saving` of each console, `loading`, the loads under way.

| action | code |
|---|---|
| `CheckNewAccount`, `Insert` | `createAccount`; `createDialPrefix` and `createNotice` are `Insert` alone |
| `ReadRow`, `Compare`, `WriteRow` | the updates of both services: the read, then the re-read and the UPDATE of a TypeORM `save` (`Updated` is the assignments between) |
| `BootstrapFromEnv`, `Bootstrapped` | `onModuleInit`, `bootstrapAdmin` and its app user, per role; a process whose insert fails starts again |
| `Ask`, `Hear`, `GiveUp` | the six mutations of `AdminConsoleController`, from `_runMutation` to its end |
| `StartLoad`, `ReadList`, `Loaded`, `LoadFails` | its `load`: three requests, then one assignment; another one may be under way |
| `Clear` | `clear`, when the administrator logs out |
| `Breaks` | a statement fails or the process ends |

Abstractions: names are compared in the form `normalizeUsername` gives them
(`Normal`); formats are a set of malformed names and a password that is too short.
Values of columns are symbols, blank ones kept apart because the two services
treat them differently (`Kept`, `Nullable`). Requests come when the `Needed`
processes are up. The public lists only read and are left out. `updateAccount` does
not look at the role of the row; nor does the model. Nothing but the buttons that create
waits for `isSaving` (`admin_dashboard_page.dart:727`); the icons that edit do not
(`:757-760`), dialogs can be left, and `_runMutation` has no guard, so several requests
of one console are under way and their answers overtake each other (`Ask`). An update
that overlaps another is partly put back (`account.service.ts:206`), a load that
overlaps a mutation shows older rows (`admin_console_controller.dart:114`), and of two
updates of one row the answer heard last may be the older one; the properties except
exactly these (`overlapped`, `Disturbed`, `AskedOf`).

### RateLimit

State: the environment, the store each process chose, the counters in Redis and in
each process, the connection to Redis, the ticks until the circuit may close, what
each request is doing. `since` says, for each age, how many attempts a store has
counted that are so old or younger, for `CountsAreRecent`.
`Boot` is `release-runtime.preflight.ts` and the module factory; `Arrive`,
`CallFallback`, `CallPrimary`, `Connected`, `ExecuteOnRedis`, `Answered`,
`PrimaryFails`, `FallBack`, `Fail` are the positions of `execute` of the failover
store and of `connect` of the Redis store; `OpsOf` lists what a failed login, a good
login and the sending of a code count, reserve and reset. `RedisBreaks`,
`RedisReturns`, `Stop`, `Tick` are the world.

Abstractions: a connection is open, opening or absent; two concurrent `connect()`
may leave one open that nobody uses, which is not counted. Counting stops at
`MaxCount`, above every limit. A reset reaches only the store in use
(`failover-rate-limit.store.ts:39`), so a count may be met again after a recovery,
as long as it lives. `checkSendCode` has no caller that runs; it is modelled
because the service offers it. `NODE_ENV` is trimmed and lower-cased by the
preflight (`Normalized`) but not by the factory: with `Production` and
`RATE_LIMIT_ALLOW_FALLBACK` left out the preflight sees a release without fallback and
the factory a development with one. `ReleaseSharesItsLimits` excepts exactly this
environment, which is in the run. A cooldown of 0 is allowed. A Redis call that never
answers is not modelled (the store sets no time limit of its own): every call of the
model succeeds or fails. What the docs say of the variables
(`server/README.md:49-50`) agrees with `AllowFallback` and `Preflight`.

## 3. Runs

| run | instance | shows |
|---|---|---|
| `reports` | 3 workers, reports and a recording of one call | `NoWaitCycle`: with three transactions on one call, one window and one key no one waits for ever. Three are enough for every cycle of distinct resources: key, call row, window row |
| `serial` | 1 worker, six messages | what holds when requests do not overlap: `StatusCoversEvents`, `TerminalCallIsFinal`, `TerminalCallHasEnded`, `OneRoutePerWindow`, `ConsumedWindowStaysConsumed` |
| `retries` | 2 workers, one fault, an endpoint that goes off and on, two windows | `SessionsMatchDecisions`, `ExpiredForAReject`, `StickyInboundDecision`, `AcknowledgedIsRecorded`, `EventsRecordedOnce`, and `InboxSpec`, the refinement |
| `decisions` | 1 worker, a message for every way of being turned down, payload times before, at and after the end of a window and ahead of the clock, DID, endpoint and tenant switched | `ExpiredForAReject`; it also reaches every answer |
| `settles` | 2 workers, one fault, fair | `EveryRequestLeaves`, `EveryMessageSettles` |
| `nonce` | a second of 2 ms, 1 s of skew, 4 ms of life, 7 ms, one restart, two served requests | `OncePerLife`, `RepeatsOnlyAtTheEdge`, `OnlyServedIsRemembered`, with one request for each refusal |
| `calltasks` | two tenants, an own and a shared DID, 2 operations at a time, 3 inputs, 1 report before or after the accept event | `WithdrawnIsNotUsed`, `EventCoversStatus`, `ShownIsLastDialled`, `ShownNeverGoesBack`, `DialEnds` |
| `sessions` | one user, 3 pairs, 1 crash, 2 ends of tokens, 1 change of status, 2 lost operations | `NoForgottenRows`, `BarredGetNothing`, `SpentGivesNothing`, `StoredSessionIsWhole`, `BootingEnds` |
| `admin` | 2 processes, 2 consoles, 2 calls and 2 loads at a time, 3 steps of the consoles (requests, loads, logouts), 1 failure | `UsernamesUnique`, `UnnamedColumnsKept`, `ViewIsTheTable`, `EveryProcessStarts` |
| `ratelimit` | 1 process, 2 requests at a time, limit 2, TTL 2, cooldown 2, ten environments | `CountsAreRecent`, `FallbackNeverFails`, `ReleaseSharesItsLimits`, `RecoversToPrimary` |
| `rollback` (violated) | 2 workers | `TerminalCallIsFinal` fails once two reports of a call overlap |
| `duplicate` (violated) | 2 workers | two overlapping deliveries of a message: the second is answered 500 |

The telephony runs have one DID and one remote number that matter (d1, r1), TTL 1
and at most two ticks of time: windows are matched by equality of a line, so a
second line adds windows that no decision of the first looks at. Call 1 is the
outbound call with window 1, call 2 the inbound one; the messages name them
before they exist, which is how events come too early. Two workers are enough for
the races of one lookup or load against one commit; a third would repeat them.
Their bounds are `MaxTime`, `MaxOutbound`, `MaxFaults`, each in the guard of one
kind of action; every delivery is unbounded. In `retries` DID assignments do not
change: an unknown DID is answered without an event, so after an assignment the
same call is decided anew.

The other bounds: `nonce` needs two served requests to compare and time beyond one
life. `calltasks`: two operations make every overlap of a dial with a dial, a
refresh or a mode change; a larger instance with the header free (924,000 states)
passed as well. `sessions`: a pair that was rotated, one that was lost and the next
one; an instance with more of each (18 million states) passed the invariants.
`admin`: an update against an update, of one console or of two, a load against both or
against a load, and both processes in the middle of their inserts. `ratelimit`: two requests on either side of the
circuit's opening; codes come only where there is no failover, and an instance
with both (358,000 states) passed. `CHECK_DEADLOCK FALSE` in `sessions`, `admin` and
`calltasks`: their environments are bounded, and afterwards the system rests.

A violated run states what a document under `docs/telephony` says of the program;
PROJECT.json `findings` quotes the line.

### Differences met, without a run

* Two calls that overlap are both routed to one window: the window chosen before
  the transaction (`telephony.service.ts:339`) is saved in it unread, where
  `docs/telephony/callback-same-number-rules.md:12` gives a window to one call.
* A late event takes a window out of a terminal status (`telephony.service.ts:913`:
  `callback.failed` after fulfilled, `callback.ringing` after failed), against
  `docs/telephony/state-dictionaries.md:61-64`. It never becomes matchable again
  (`ConsumedWindowStaysConsumed`).
* A window whose target cannot be reached stays active (`telephony.service.ts:638`);
  `callback-same-number-rules.md:122` has it failed.
* A window opened by a number in local form (`calls.service.ts:561`) is not found by
  the call back, which comes in E.164; `callback-same-number-rules.md:18`.
* `callback.completed` fulfils a window as `callback.bridged` does;
  `state-dictionaries.md:78` names the latter only.
* `resolveInboundTargetEndpoint` tries the window's own two endpoints;
  `callback-same-number-rules.md:99` speaks of others of the tenant.

### Fairness

| specification | assumes | because |
|---|---|---|
| `RetryingSpec` (telephony) | a request that can go on does; one that waits for a row or an index entry is not overtaken for ever (strong fairness of the three statements that wait); a producer repeats a message until it has an answer other than 500 | the event loop runs every ready continuation; PostgreSQL queues waiters; `docs/telephony` asks it of the producer |
| `Sessions` | server and client steps happen | each request ends or meets Dio's time limits (`TimeOut` is a client step) |
| `AdminTables` | statements, answers and a started `onModuleInit` go on | as above; a process that ends is started again by its supervisor |
| `CallTasks` | `OperationEnds`: an await of `dial` or `refresh` ends | Dio's time limits for the server, the platform's answer for the handset |
| `RateLimit` | requests go on, time passes | the event loop, the clock. `RecoversToPrimary` assumes in its statement that Redis comes back for good |

`Fail`, `Crash`, `Breaks`, `StatementFails`, `TimeOut` on its own and every action of the
world outside are not fair; where they are bounded, the liveness properties are about
what follows the last of them.

## 4. Proofs

`TelephonyWebhooks_proofs` proves, for all constants that satisfy
`ConstantsAssumption` (any number of workers, messages, calls, windows; the
bounds play no part):

* `TypeCorrect`: `Spec => []TypeOK`. `TypeOK` is not inductive: it lets a request
  be at `loadCallback` without a call. `TypeInv` adds `Shape`, which says for each
  position of a request which entities it has and what its transaction holds.
* `RecordedOnce`: `Spec => []EventsRecordedOnce`. The unique index is two guards,
  against committed rows and against open transactions, and the invariant
  `RecordInv` speaks of both: open transactions hold different keys
  (`KeysInFlightDiffer`), none of which is committed (`KeysInFlightAreNew`). A
  commit then adds a key nobody has. Outbound calls do not pass the index check
  in the model, because their key is the id of a new row (`OutboundKeysAreCalls`).
  Most steps are `Quiet`: they touch no event and take no key.
* `AcknowledgedRecorded`: `Spec => []AcknowledgedIsRecorded`. Each answer is
  `Justified` when it leaves, and stays so because events and calls stay and no
  call changes the window it names (`TablesGrow`, `JustifiedGrows`). A commit justifies its
  answer by the event it inserts, which agrees with its message because `Shape`
  keeps the window and target of a status report (`EventOfConsistent`); a
  duplicate is justified by the event found, and for a routed one that needs
  `RoutesNameCalls`: a routing event names a call that exists and its window.
  `AckInv` is the two together, beside `TypeInv`.

`TelephonyRows_proofs` goes on from `TypeInv`:

* `SomeRequestGoesOn`: `Spec => []NoWaitCycle`. If all open requests waited, none would
  be committing, and locks are taken in the order event, call, window: then none
  would hold a window, none would wait for one, none would hold a call, and so on to
  the events. The exception is an inbound decision, which saves its window before
  its event. It waits at its event only for a request with its key, which is an
  inbound decision too (`InboundInserted`) and, having inserted, is about to commit.
* `SessionsAndDecisionsMatch`: `Spec => []SessionsMatchDecisions`. `RoutesInv` splits
  the property so that each part survives a new row: routes name existing rows that
  agree, no two name one call, every inbound call has one. A commit adds a call and its
  route together; what it writes about the window is right because of `Line`, which
  follows the window a decision holds, and which is of the line of its message, from
  its selection to the commit. No save writes a call's direction or window, or a
  window's line (`RowsKept`).
* `ReportsAreKept`: `StatusCoversEvents`, `EndedWhenOver`: `TerminalCallHasEnded`, and
  `OverIsOver`: `TerminalCallIsFinal`, each as `Spec /\ []CallsAlone => ...`. A report loads
  the call without a lock, changes the copy and saves the columns that differ;
  `rollback` shows that the properties fail when two of them overlap on one call.
  `CallsAlone` says just that this does not happen: no two open requests have loaded
  the same call. It leaves everything else free (any number of workers on different
  calls, decisions, dials, messages in any order, faults, crashes), so the theorems say
  what a lock taken with the first read would buy. `CallCopy` is the induction: what a
  request has in hand is computed on the row as it is now, the columns to be saved are
  the difference to it, and from the second read on the row is locked or nothing is
  saved.
* `WindowRoutesOnce`: `OneRoutePerWindow`, and `ConsumedForGood`:
  `ConsumedWindowStaysConsumed`, as `Spec /\ []WindowsAlone => ...`, where no two open
  requests have loaded the same window. `WindowCopy` says that a decision to route found
  its window active and that it still is, `RouteTakesWindow` that a window with a
  committed route is not active: so a second decision cannot find it.
* `ExpiredWithReason`: `Spec => []ExpiredForAReject`, with no condition. The window is
  expired on a copy, and saved before the event that explains it. `LapseCopy` says of
  every copy that is expired that a recorded event accounts for it, or the event its own
  transaction will insert does; the commit makes both visible at once. A window's line and `expiresAt` never
  change, events stay and the clock does not go back, so an account that was given
  stays good.
* `ServedOneAtATime`: one worker satisfies both conditions, which is the run `serial` for
  any messages, calls, windows and faults.

`WebhookInbox_proofs` proves `ImplementsInbox`: `Spec => InboxSpec`, from the same
assumption. The inductive facts are those above; each step then maps to `Decide`,
`Repeat`, `Refuse` or a stutter. Only a commit that inserted an event changes
`decided`, at one key that was undecided (`RecordInv`); a lost answer is `Decide` without
one; answers from the table are `Repeat` because a key has one event.

Two more follow from the steps of the inbox alone:

* `DecisionsStick`: `SwitchableDids = {} /\ Spec => []StickyInboundDecision`, and
  `KnownDecisionsStick`: whatever is switched, the accepted answers other than "DID
  unknown" agree. An accepted answer is the decision under its key, of which there is
  one and for good (`Sticks`), or it turned the call away before any decision was looked
  up, which an unknown DID does. `SwitchableDids = {}` is needed: a DID that is unassigned
  between two deliveries gets the second one turned away, and the runs of
  `StickyInboundDecision` have no such switch either.

`NonceWindow_proofs` proves, for every skew, life and unit of time that satisfy
`WindowAssumption`:

* `LetThroughOncePerLife`: `OncePerLife`. The invariant says that the entry of
  every request this process let through and whose life is not over is still in
  `seen`, with the end it was given; a second acceptance would have found it.
* `RepeatedOnlyAtTheEdge`: `RepeatsOnlyAtTheEdge`, from the former and the bound
  the timestamp had to satisfy at the first reading of the clock by the repeat, with the
  truncation to seconds. It uses
  `NonceLife >= 2 * (MaxSkew * Second)`, which the code meets with equality.
* `OnlyServedRemembered`: `OnlyServedIsRemembered`.

`CallTasks_proofs` proves, for any tables that satisfy `TablesAssumption` and any
number of operations, inputs and reports, from the invariant `TaskInv`:

* `NothingWithdrawnIsUsed`: `WithdrawnIsNotUsed`. `gone` of a request only shrinks,
  and stays within what is not in use (`GoneInv`); each of the four reads returns
  what is in use, or none (`ChosenInv`, `TenantInv`). The least place of a table
  exists because `<` is well founded on Nat (`MinFacts`).
* `ShownEventCovers`: `EventCoversStatus`. Alone it is not inductive: the status is
  read in one step and the event in another. `ViewInv` says what holds between: the
  table has an event as late as the status in hand, and no report makes a latest
  event older (`Grows`). For the rows, `since <= latest` is kept by `Reported`.

`AdminTables_proofs` proves, for any number of processes, consoles, calls and
requests that satisfy `BootstrapAssumption`, `OwnersAssumption` and
`RequestsAssumption` (a request names columns of its table only, as the data transfer
objects allow):

* `NamesStayUnique`: `UsernamesUnique`. An insert reads the unique index in its own
  step, and no update writes a name; `RowsInv` and `CallInv` say that rows and calls
  have the form that makes the second part true.
* `UnnamedColumnsStay`: `UnnamedColumnsKept`. `UpdateInv` says that between the read of
  a call and its `UPDATE` the row is still the one that was read, unless
  `overlapped` knows of a write; the difference that is saved then has only columns
  the request names.
* `FreshViewIsTheTable`: `ViewIsTheTable`, from `ConsoleInv`. The property speaks of a
  console that waits for nothing; the invariant says what holds while it waits
  (`FreshInv`): what it shows agrees with the table in every row for which no answer is
  still to be heard, and each such answer is the row as it is. So the entity that
  is answered has to be the row that was written: it keeps the name and the role of the
  row, and agrees with it in every column its comparison left out, as long as nobody
  else writes (`EntityInv`). Several answers may be under way and come in any order,
  because a console that was left alone asked each for a row of its own (`ApartInv`):
  hearing one disturbs no other. A new or updated account is listed because its role is
  `app_user` (`ListedInv`), and a load that ends in peace has read lists that are still
  so, whatever other loads do (`LoadInv`).

`Sessions_proofs` proves, for any users and any number of requests at one time that
satisfy `NoneAssumption`, from the invariant `AuthInv`:

* `SpentStaysSpent`: `SpentGivesNothing`, and `BarredStaysOut`: `BarredGetNothing`.
  Neither is inductive alone: `Honest` says, for every position of a request, that
  one that is spent names a revoked row and has not passed the lookup, and that one
  that is barred has an account that is not active and has not passed the check. The
  rest of `AuthInv` is what the client adds: the pairs it keeps are rows of the table,
  and the request it waits for is there and is of the kind it sent (`Linked`).
* `StoredStaysWhole`: `StoredSessionIsWhole`, from `StoreInv`. Between operations the stored
  row is good and no request that could revoke it is under way (`Clean`); inside one,
  the same holds of the pair that has been answered and is being stored. A login over an
  open session leaves its row alone, but the access token is stored before the profile is
  asked for: when that fails, the new one stands beside the old pair (`outrun`).
* `NothingForgotten`: `NoForgottenRows`. Rows alone cannot be counted: two refreshes of one
  row may both insert. `RowsInv` counts the good rows no refresh was sent for together
  with the requests that may still insert (`RowsAhead`): no step of the server makes
  that more, starting an operation moves one from the former to the latter, and one that
  is given up adds one to `lost`, a login over a stored pair one to `LeftBehind`. `LiveRows` derives the property: a good row is at rest
  or belongs to a request that counts for it.

`RateLimit_proofs` proves, for any processes, lanes, environments, limits and times to
live that satisfy `RateLimitAssumption`, the first two from `RateInv`:

* `FallbackAnswers`: `FallbackNeverFails`. Only a process in mode `redis` lets an error
  out, and a process leaves that mode only by stopping, with its requests (`Quiet`).
* `ReleaseShares`: `ReleaseSharesItsLimits`. In a release that says `production`, or sets the
  fallback explicitly, preflight and factory come to the same answer about it and leave
  no mode that counts in memory, so no process has a counter (`Shared`).
* `CountsStayRecent`: `CountsAreRecent`, from `CountInv`. A counter with `left` ticks to
  live is `Ttl - left` ticks old, and its count is at most the number of attempts that are
  not older (`Young`); that number grows with the age asked for (`Growing`). A tick moves
  both, an increment adds to both, a reset or a lost store empties both.

The assumptions about constants say what is true of any instance: in particular that
`None` is not a value of the other kinds (`NullAssumption`, `NoneAssumption`,
`OwnersAssumption`, `TablesAssumption`), which TLC evaluates in every run.

Only model-checked: the liveness properties, which are out of the prover's reach, as is
ENABLED. Every invariant and action property of a passing run is stated by a theorem,
some under the hypotheses named with it.

## 5. Not modelled, and what is left

Not modelled: user and sms services (left from an earlier login by code; imported,
not called); migrations and seeds (data definition and fixtures, run once);
filters, guards and error codes (they shape answers and keep no state); settings,
config and help pages of the client (one value, loaded and saved as a whole); HTTP
client, router, storage adapters, theme (I/O and layout). Partly: accounts and
tenants as far as the running handlers touch them (`touchLastLoginAt` writes a column
nothing reads; no handler writes a tenant), the session of the client
(`refreshSession` has no caller; deviceId), the dialer (its history is a list on one
device that no other part reads).

Left to model: the history of the dialer, should it be shared between devices.
