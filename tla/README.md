# A TLA+ verification project for my-template

The repository is a template for admin applications: a Rust core that runs
either inside a Tauri desktop window or as a headless server (`banto-serve`), an
embedded REST server that exposes the same core to browsers on the LAN, and a
set of Svelte packages for the client. This directory models the parts whose
correctness depends on the order in which things happen, checks them with TLC on
small instances and proves the most important results for every instance with
TLAPS.

Paths below are relative to the repository's root (`src/` in PROJECT.json);
`core` is `apps/admin-template/core/src`.

## 1. The system

### 1.1 Inventory

| Component | State it keeps | Operations | What is hard | What makes it correct |
|---|---|---|---|---|
| Login throttle (`crates/banto-server/src/auth.rs`) | failure records by key, behind an RwLock | `login_rate_limited`, `record_failure`, `reset_failures` | logins overlap between the lock sections; the clock is read before the lock | a lockout agrees with its streak, is not cut short, bounds the streak |
| REST sessions (`auth.rs`, `core/rest`) | token map | login, `require_auth`, role guard, audit lookups, logout | every layer of a request looks the token up again | no service after logout or expiry, no loss of an active session, a bounded map |
| Accounts (`core/users.rs`) | table `users` | setup, create, update, delete, reset, change password, verify, list | check-then-write over several statements | unique names, a remaining admin, one first setup, writes that hit what was checked |
| Settings and LAN access (`core/settings.rs`, `src-tauri/src/lib.rs`, `banto-server/src/server.rs`) | table `settings`, `AppState.server`, the listening socket | `server_apply`, `auth_config_apply`, autologin commands, start-up | overlapping commands, torn writes, a stop that waits for clients | the two modes never together, a running server that is the persisted one, no forgotten socket, commands that return |
| Attachments (`crates/banto-attachments`) | table `attachments`, body and thumbnail files | upload, get, delete, delete for a record | two stores without a common transaction, requests cut short | the table promises no file that is not there, one deletion, complete sweeps |
| Backup and restore (`core/backup.rs`, `banto-serve.rs`) | database, log, backups, staged file | create, stage (file, upload), cancel, list, delete, apply at start | crashes between file operations, best-effort steps | a whole database, nothing lost, a staged restore that is applied |
| Audit trail (`core/audit.rs`) | table `audit_log`, two settings | record, list, prune | count-then-delete from several views | the policy in force is respected |
| Items (`core/items.rs`) | table `items` | create, update, delete, import, list, get | an import of many statements beside other calls; rows and total of a list come from two statements | each call is one step of the table or none, is announced, and a page fits its total |
| List queries and storage (`banto-storage`, `banto-core`) | none | paging, sorting, filtering to SQL | three-valued comparisons, LIKE escapes, limits, two implementations of one contract | the SQL and the in-memory provider list the same |
| HTTP filters, static files (`banto-server`) | none | CSRF header, security headers, static files | - | per-request functions |
| Desktop shell (`src-tauri/src/lib.rs`) | one session, auth mode, keyring, server handle | commands guarded by role, login, setup, logout, start-up | the session is looked up, used and replaced by overlapping commands | no command without its role, a trail that says who did what, a session that is what was answered |
| Change events (`events.rs`, `admin-core/src/events.ts`) | broadcast channel, reconnecting client | publish, subscribe, reconnect | lag, gaps while reconnecting | a list that was told is fresh |
| Client data layer (`packages/admin-core`) | list, windowed list and form resources | load, `ensureRange`, `setParams`, `refresh`, submit | answers out of order, parameters that change under way | only the newest answer counts, `loading` says whether one is waited for |
| Grid (`packages/grid-svelte`), frontend | scroll position, reported window, mounted page | scroll, switch modes, change parameters | effects that run in an order the framework chooses | the rows in view are those of the table |
| Dock layout (`packages/dock-svelte`) | floating windows, tree of panels | ensure, dock, undock, move, resize, hydrate | long sequences of calls | a normal tree, a panel in one place |
| Barcode wedge (`packages/scan-wedge`) | key buffer, two times | `handleKey` | timing, terminators | a scan is one burst |
| Forms, charts, report, theme, attachments panel | user interface state | - | mostly pure functions and rendering | see PROJECT.json |

### 1.2 How the parts interact

* REST handlers and desktop commands call the same services; every service holds
  a clone of one SQLite pool, so calls interleave **per statement**. Only the
  item import uses a transaction.
* `AuthState` (tokens and throttle) is shared by all REST requests; the desktop
  window has a session of its own. Neither is told of account changes: a token
  keeps the role it was issued with.
* `server_apply` starts and stops the REST server out of a desktop command;
  `AppState.server` is the only handle on it. Its event streams are fed by a
  broadcast sender that the desktop shell owns and that outlives the server.
* Views of the audit log prune it; every guarded write appends to it.
* REST and the desktop window are two front ends over the same services. Both
  guard, call one service, write an audit entry and publish a change event, but
  REST looks its token up anew each time while the window copies its session once.
* A committed change of the items goes over the broadcast channel to the clients,
  whose `invalidate()` makes the mounted list load again.
* A staged restore is written by the running app and applied by the next start,
  before there is a pool.

### 1.3 Hazards

PROJECT.json `hazards` lists what is hard to test, each at its line, with the
properties aimed at it.

## 2. The modules

Each component has a module (state, one action per lock section, SQL statement
or file operation, properties) and an `MC` module with the symmetry and value
sets for TLC; proofs are in `<Module>Proofs`, except that AccountsProofs is about
Users and Sessions, DesktopProofs about Backup and LanAccess, and ListsProofs about
Providers (with ListQuery) and ItemsPage (with ListResources). A proof module extends
both of its components, so the second one's specification, `Next`, `TypeOK`, ... carry
its name (`SessionsSpec`, `LanSpec`, `ProvidersSpec`). Definitions that a comment calls a
slip are wrong variants of the code that no action uses: each is a defect that
the module's properties would find.

**LoginThrottle.** `failures` is the map of `FailureRecord`s (a missing record is
`NoRecord`), keyed by address and account, or by address alone. A request runs
`CheckAccount` and `Admit` (or `RateLimited`), the verification with the write on
the account key (`VerifySucceeded`, `VerifyFailed`), then the write on the address
key (`ClearIp`, `RecordIpFailure`). Each write is `record_failure` as a
whole: sweep, end of a stale streak, count, lock. `Readings` are the values the
clock can have had when it was read before the lock was taken (`MaxLag`).

**Sessions.** `Authenticate` is `require_auth`, `PassRole`/`Denied`/`Vanished` are
the role guard's second lookup, `RecordWrite` the third one for the audit
record; `LogoutStart`/`LogoutFinish` the audit lookup and the removal. `Touch`
and `IssueToken` are the map operations with eviction and sweep. Both token
policies (plain, remembered) are in every run.

**Users.** One action per SQL statement: `...Begin` is the read that starts an
operation, `CountAdmins` the guard's count, `Insert`, `UpdateWrite`,
`DeleteWrite`, `ChangeWrite`, `ResetPassword` the writes with their UNIQUE and
"no such row" outcomes. `raced[w]` (history) says that another call has
written roles or accounts since `w` began.

**LanAccess.** `settings` are the persisted keys; a call has a queue of writes
that `WriteNext` performs one by one, after `CheckAuth`/`CheckServer`. `Take`
takes the handle out of `AppState.server` and signals it; `Closed` is the
server task closing its listener, `Stopped` the return of `stop()` once no
response is open, `Start`/`StartFails` the bind, `Store` the new handle.
`OpenStream`, `CloseStream`, `CloseHeld` are browsers. `Restart` is the end of the
process at any moment followed by start-up. `overlap` and `broken` are history:
two commands have been under way together; a write of a `server_apply` has failed
since the last start.

**Attachments.** Rows, bodies and thumbnails under one id; a file is none, partial
or whole. `cut` (history) are the uploads that did not live to clean up.

**Backup.** Contents stand for what a database file says (a committed version, a
foreign database, or `Broken`); `Content` is what one sees through file and log.
`Start` ... `Swap`, `Open` are the steps of start-up, `End` the end of the process
anywhere. `MayFail` chooses which file operations may fail. `promised` (history) is the restore last
reported as staged, until it is cancelled or applied; `spoiled` (history) says that a
copy straight onto the staged file has failed, been cut or been overlapped since.

**AuditLog.** `ReadDays`, `ReadRows`, `DeleteAged`, `Count`, `DeleteExcess` are the
statements of a view that prunes; `SetDays`, `SetRows` those of a change of
policy; `Record` and `TimePasses` the world around them.

**ItemRows, ItemsStore, Items.** `ItemRows` is what both sides speak of: payloads,
`validate_item_input` (`Valid`), the trimmed content that is stored. `ItemsStore` is the
promise: a call is asked, performs one step of the table (`Perform`: `After` a whole
batch) or is refused or reported, announces and answers. `Items` is the code: the
checks, one action per statement (`Create`, `Update`, `Delete`, `ImportRow` for each row
of an import), `Begin`, `CommitImport`, `RollBack`, `Notify`, and `Cut`, which drops the
requests of any set of calls: one client, or all of them with the process. `tx` is SQLite's only write
transaction; a statement outside it waits for it (`Writable`). `ListRows` and `CountRows`
are the two reads of `list`. `raced` and `lost` are history.

**ListQuery, Providers.** `ListQuery` is what the assembled SQL returns (`WHERE` with
NULLs, `LIKE` with its escapes, `ORDER BY`, `LIMIT`/`OFFSET` in fixed-width integers).
`Providers` runs it beside the in-memory provider of `inMemory.ts` (`MatchOne`, its
comparator, slicing, its ids) under the same creates, updates and deletes. `Enumeration`
is what sorting by a strict order gives; `Less` (SQLite's order) and `CompareLess`
(`localeCompare`) are two orders. Case has two foldings as well: `Lower` is SQLite's, of ASCII
letters only, `JsLower` is JavaScript's `toLowerCase` of letters of every alphabet. The
in-memory provider compares what `String()` makes of two values (`LooseEquals`, `Numeral`).
`Portable` says which queries mean the same to both.

**Endpoints, FrontEnds.** `Endpoints` lists every REST route and desktop command as what
it goes through: the role floor, the kind of service call, whether success is audited,
what follows. `FrontEnds` takes calls through the lookups in the order of the code
(`RequireAuth`, `RequireRoleAtLeast`, `RestLookup`; `RequireRole`, `ReadMode`,
`CopySession`), the service call as one step, the audit entry (which may fail), and the
event or second read. `did` says whether that step changed anything (a service call may
answer "ok" and have nothing to change, a logout may find no token), `silent` that it changed
attachments and no event has followed. Deleting an item (`PerformDelete`) sweeps its
attachments in the same handler. A failed login is recorded under an attempted
name, which is no identity (`Attempts`). Tokens expire between any two lookups, REST
clients hang up, the app restarts with or without authentication. `Routes` and
`Commands`, the endpoints in use, are parameters; `demoted` and `raced` are history.

**ListResources, ItemsPage.** `ListResources` has the two resources of `admin-core` as
functions of their state: `Load`/`Loaded` with the token, `EnsureRange`, `SetParams`,
`Refresh`, `Arrive` and `Finish` with the generation. `ItemsPage` composes them with the
table, the broadcast channel (which drops its oldest event when it overruns), the client's
stream and the two grids; a JavaScript task with the effects flushed at its end is one
action, and the server answers in any order. `chosen` are the filters in the header of
the server grid, which the page owns: they survive a switch of grids, while each
server grid makes a windowed resource of its own. `missed` is history: the client was not,
and will not be, told of a change.

## 3. What the runs check

Every property listed here is broken by a plausible slip in the code (`mutants`).
The modules' type invariants (`TypeOK`, `SessionsTypeOK`, `LanTypeOK`,
`ProvidersTypeOK`), which also say what holds of a call between its steps, were checked
by TLC while the models were written and are proved (section 5); they are not among the
runs' properties.

| Run | Question | Bounds, and why they are enough |
|---|---|---|
| `throttle` | Do lock and streak agree, is a lockout never cut short, how far can a streak overshoot? | 3 requests, 2 accounts behind 1 address, thresholds 2 and 3, lockout of 2 ticks, time 0..4: both keys reach their thresholds, overshoot, expire and are swept. `MaxLag` = 0, for which the exact bound `LockBoundsStreak` is stated; the other properties are proved for every lag |
| `sessions` | Do logout and expiry bind every guard, does the sweep take what it should and nothing else? | 2 tokens (either policy), 2 requests, two identities, lag 1, time 0..5, beyond both expiries of both policies |
| `users` | Names unique, writes on target, guards that fail only in a race | 2 overlapping calls, 2 names, 2 roles, 4 ids; a race needs two calls |
| `lan` | Is every socket owned, does the server listen, is it the persisted one, are the modes kept apart, does every command return? | 2 commands, 2 ports, 1 browser: a race needs two commands, a moved server two ports |
| `attachments` | Does the table promise only files that are there; one deletion; complete sweeps | 3 calls on 2 attachments of 2 records; every step may fail |
| `backup` | Whole database, nothing lost, staged is applied, backups kept | 2 commands, 2 versions, suffixes 0 and 1, all five kinds of failure |
| `audit` | Is a prune sufficient, is an entry only lost in a race | 2 calls, every combination of limits 0..2, 4 entries |
| `items` | Does the service implement the store, is a silent change a cut one, is a list torn only by a commit | 2 writing calls, 1 list, ids up to 3, batches of up to 3 rows against a limit of 2, with invalid, missing, repeated and inserted rows, also invalid and missing ones in one batch; a page of 1 row |
| `providers` | Do the two providers list the same | 1 number and 1 text column, with NULL, letters of both cases, a pair of letters that only JavaScript takes for one, digits, and a wildcard; every operator, text matches on the number column too, both directions, unknown columns, pages before, at and past the end and past the 3-bit integers; tables of up to 3 rows |
| `frontends` | Does the trail say what was done and by whom, who acts beyond a role, is the session what was said | 2 calls, 2 accounts, 1 token; of the routes those that no other covers (`Covers` in MCFrontEnds: as low a floor, audited and announced alike, and a handler that can do all the other's can); of the commands those without a role floor, which guard themselves or need no guard, the change of roles, and one guarded change that announces, since a service call does the same whoever asks. The theorems are about every choice of endpoints (`Routes`, `Commands`). The properties are about one call, or one call and what another does to its identity. Calls are reused, so histories are longer than two calls |
| `feed` | Does either grid end with the rows of the table, are rows of another query shown, does `loading` end | Blocks of 2 rows, tables of 0 or 3 rows (none, or two blocks of which the last is partial), 2 scroll positions, a channel of 2 events, 1 change, 1 change of parameters, 1 failure, and any number of loads. More changes only repeat what one does to a request that is under way, and the proofs do without these bounds |
| `feed_visible` | Are the rows in view refetched by a change? (violated) | as `feed`, with a channel of 1 event |

Deadlock is checked in all runs.

Symmetry is used for safety only (`lan`, which has a liveness property, uses
none), over values that no property orders.

**Conditions in the properties.** `LastAdminLostOnlyInRace`, `SetupLateOnlyInRace`,
`BothNeedsOverlap`, `ServerAsPersisted`, `AutologinKeepsMode` and
`KeptUnlessRaced` say that a promise holds unless calls have overlapped, because
the unconditional promise is what the code does not keep (section 4).
`TornOnlyInRace`, `SessionAsSaid` and `BeyondRoleOnlyIfDemoted` are of the same kind;
They do not catch what overlapping calls do to each other; they show that nothing else
breaks the promise.
`SilentOnlyIfCut` excepts a request dropped between its commit and its event, and the
properties of ItemsPage a client that was not told of a change.
`DatabaseWhole`, `NothingLost` and `StagedIsApplied` except starts in which an
error in dealing with the log was swallowed (`faulty`), and `StagedIsApplied` copies
straight onto the staged file that did not run whole and alone (`spoiled`).
`TraceOfWhatWasDone` demands an event of every change of attachments but the sweep that
goes with an item (and a call that failed halfway). `ListsAgree` is about queries that
mean the same to both providers: compared values are not null, ordering comparisons are of numbers,
texts are sorted where both collations agree, and looked for within letters that both foldings
treat alike. `BeyondRoleOnlyIfDemoted` is about endpoints with a role floor;
`auth_config_apply`, which asks for a role only while authentication is on, is not one.

**Fairness** is assumed in LanAccess only. Each command's step is strongly fair: the
runtime polls ready tasks, and the tokio mutex of `AppState.server` is FIFO, so a
command that waits for it gets it although others lock and release it in
between. A server that was signalled closes its listener (weak fairness). Nothing is assumed of browsers: `CommandsReturn`
therefore excepts a command that waits for a browser's open stream. ItemsPage states
freshness as a safety property of quiet states instead (nothing under way, nothing
left to read), so that nothing need be assumed of the network.

## 4. Where the code and what it says disagree

With a run (PROJECT.json `findings`): the page says that a change refetches the blocks
the user sees, and after its list has once been empty it refetches nothing
(`feed_visible`). The empty window `(0, 0)` becomes the last range of
`windowed.svelte.ts`, and `refresh()` of an empty range asks for no block; where the
page's own effect still asks for `(0, 100)`, it replaces the range of a user who has
scrolled. In the same case `loading` may stay set (the exception in
`LoadingWhileWaiting`).

Without a run of their own; the unconditional forms are definitions of the modules
that a .cfg with that one property shows to be violated. The first three are in
`findings` too:

* a restore that was reported as staged is lost to a later `stage_restore_from_file`
  whose copy straight onto `restore-pending.sqlite3` fails or is cut short
  (`core/backup.rs:445`; the comment at 176-178 keeps bad files from that name; the next
  start finds a truncated one and drops it), and a cancel beside such a copy may
  have it report a restore that is not there (`Backup!ReportedIsApplied`;
  `StagedIsApplied` excepts these copies). Uploads are renamed into place and do not have this;
* an import promises "every failing row in `errors`" (`core/items.rs:304-308`), but of a batch with
  rows of both kinds it reports the invalid ones only: ids are looked up only once
  all rows are valid (`Items!EveryFailingRow`);
* the filters in the server grid's header survive a switch to the client grid and back, its
  rows do not follow them, and the CSV export follows the header
  (`+page.svelte:147-151`; `ItemsPage!ExportAsShown`);

* the last admin can be lost to two overlapping calls (`Users!AdminRemains`; what holds
  is `LastAdminLostOnlyInRace`, and for one call at a time `SerialAdminRemains`);
* LAN access and auth-disabled mode can be persisted together by overlapping commands
  (`LanAccess!NeverBoth`; `BothNeedsOverlap`);
* an event stream outlives its server and blocks `stop()`
  (`LanAccess!StreamsEndOnShutdown`; the exception in `CommandsReturn`);
* a failed swap can cost the write-ahead log of the old database
  (`Backup!UntouchedOnError`; `faulty` in `DatabaseWhole` and `NothingLost`);
* overlapping prunes, or a prune beside a change of policy, delete entries within the
  limit (`AuditLog!PolicyRespected`; `KeptUnlessRaced`).

Seen while modelling, and shown by a condition in a property instead of a run of
its own:

* `core/users.rs:222-225`, setup "only succeeds while the users table is empty":
  the check precedes the insert by a password hash (`SetupLateOnlyInRace`).
* `core/rest/mod.rs:293-294`, a missing identity in the role guard means that
  `require_auth` did not run: it also happens when the token is logged out or
  expires between the two lookups (`Vanished`), and the 403 is not audited.
* `banto-attachments/src/lib.rs:407-408`, a row never outlives its body: an upload
  that is dropped or killed after its INSERT leaves one (`cut` in `BodyThere`).
* `src-tauri/src/lib.rs:80-82`, the server is `Some` while LAN access is enabled:
  two overlapping `server_apply` calls may leave it otherwise (`overlap` in
  `ServerAsPersisted`).
* REST's logout middleware records an "ok" logout for every POST, with nobody's name
  when there was no live token (`RevokeToken`; `NamesWhoActed` admits nobody).
* `items_delete` removes the item's attachments without an `attachments` event, which
  deleting them one by one sends (`core/rest/items.rs:83-95`, `src-tauri/src/lib.rs:283-295`; the
  exception for `delete` in `TraceOfWhatWasDone`).
* A `login_failed` entry names whom the caller claimed to be, without a role
  (`core/rest/audit.rs:46-48`, `src-tauri/src/lib.rs:454-466`): an entry's name is that of an
  identity only where it says "ok" or "denied" (`NamesWhoActed`).
* `contains` and `starts_with` ignore the case of letters beyond ASCII in the in-memory
  provider (`inMemory.ts:63-70`), and respect it in SQL, where `LOWER` and `LIKE` fold ASCII
  only (`SameFolding` in `ListsAgree`). Texts are sorted by code point in SQL and by
  `localeCompare` in memory (`SameCollation`), and a comparison `<` of texts works in SQL
  alone.
* A desktop logout that overlaps a login ends the new session and records the old
  identity (`raced` in `SessionAsSaid`).
* `server_apply`, the vibrancy and autologin commands and `upload` can change something
  and then return an error, without an audit entry (the exceptions for `long` and
  `config` in `TraceOfWhatWasDone`).
* A storage error during a login is recorded as `login_failed` by REST and not at all by
  the desktop (`Verify`).
* `restore_staged` names the entity of its audit entry differently on the two surfaces.
* A block's error is cleared by a later block of the same generation that succeeds
  (`windowed.svelte.ts:128`), although its rows are still missing (`failed` in
  `RangeCurrent`).

## 5. What is proved

For every value of the constants that satisfies the modules' assumptions (any
number of requests, tokens, accounts, any policy), with no further assumption:

| Module | Theorems | Inductive invariant |
|---|---|---|
| LoginThrottleProofs | `TypeCorrect`, `LockAndStreakAgree`, `SweepDecidesAlways`, `LockoutIsKept`, `LockoutBoundsStreak` | `TypeOK /\ LockFollowsStreak`: a record is determined by its count and last failure, so the sweep's test and the streak's coincide. The overshoot bound needs, besides, that `Attempts` is finite and the clock read under the lock, and counts the requests that can still add to a key |
| AccountsProofs, on Sessions | `SessionsTypeCorrect`, `MapIsAlwaysSwept`, `ActiveSessionsSurvive`, `LogoutIsFinal`, `ExpiryIsEnforced` | `SessionsTypeOK /\ TokensInv`: the map agrees with `past`, what the token's owner knows of it. The action properties follow since a guard serves only what `Touch` has found |
| AccountsProofs, on Users | `TypeCorrect`, `NamesStayUnique`, `WritesHitTheirTarget`, `LastAdminNeedsRace`, `SetupLateNeedsRace`, `SerialAdminRemains` | what a call may rely on between its read and its write: its id was handed out and, if the account is still there, it is the one it read; a call that was not overtaken and has passed the guard has another admin. `SerialAdminRemains` is the unconditional promise for one call at a time |
| DesktopProofs, on Backup | `BackupTypeCorrect`, `RunsOnWholeDatabase`, `ReplacedIsKept`, `PromiseIsKept`, `BackupsAreKept` | `BackupInv`: every unfinished file is one call's (`Vacuuming`, `OwnFile`); what was promised is what is staged, unless a copy onto it was spoiled or is under way (`PromiseStaged`), and a start that applies it has found it whole (`StagedWhole`); unless an error was swallowed, the database is whole at every moment of a start, its log is folded in before the swap, and a copy is kept (`LogFolded`). `BackupsAreKept` needs only the first: a name is taken when no file has it |
| DesktopProofs, on LanAccess | `LanTypeCorrect`, `SocketsAreOwned`, `ServerReallyListens`, `BothTakesOverlap`, `ServerFollowsSettings`, `AutologinLeavesMode` | `Stage`: where a command is, what it is and the keys it has still to write belong together; `Loans`: a started server's socket is one command's alone and nobody has signalled it, without which storing it could hand over a dead server; `Unoverlapped`: while commands have not overlapped there is one at most, and for it (`Alone`) what its guard has seen still holds, what it has written stands, and no server is about while it changes servers |
| AttachmentsProofs | `TypeCorrect`, `ThumbnailsAreThere`, `BodiesAreThere`, `DeletionsReportOnce`, `SweepsAreComplete` | `UploadsOwn`: an upload has its id to itself, and while its row stands nobody has touched its files; `DeletionsOwn`: a deletion that works on the files has taken the row, alone, and has not reported; `SweepCovers`: what a sweep has left covers what its record still has. Neither file property holds of a step without knowing which call owns the files |
| AuditLogProofs | `TypeCorrect`, `PruneIsSufficient`, `KeptUnlessOvertaken` | what a prune knows between COUNT and DELETE: the entries there were when it counted are at most limit plus excess (`EnoughExcess`), exactly as many as long as nobody overtakes it (`UpToDate`). From there, the oldest `excess` ids are exactly those the policy gives up |
| ItemsProofs | `TypeCorrect`, `ImplementsStore`, `ChangesAreTold`, `PagesFitTotals` | `Working`: the open transaction holds the committed table with the first k rows of its import applied (`Store!After`), the ids its inserts took, and the missing rows among them, which no other call can disturb since it would need the lock. `MissingIs` and `AfterWriting` relate one statement to one more row of the batch. `PagesFitTotals` counts: ranks are a bijection from the matching rows to 0..n-1 (`PageLength`) |
| FrontEndsProofs | `TypeCorrect`, `TraceLeft`, `ActorNamed`, `WithinRole`, `SessionKept` | of one call: how far it is and what it has left behind (`Stage`, `Trace`), that only a failed login speaks of a name that was tried (`Tried`), that its token is its own, its user's or dead (`Holds`), whom it was admitted as (`Passed`); of two, that they issue different tokens (`Apart`); of every identity about, that its account has its role unless it was demoted (`AllHonest`) |
| ListsProofs, on Providers | `ProvidersTypeCorrect`, `ProvidersAgree` | `ListsInv`: until an id is handed out twice, the table is what the array holds, and the array is in the order of the ids. The lemmas on the operators carry the rest: `EnumerationOnly` (what runs through a set in a strict order is its sorted list; ranks again), `BeforeOrders` (the `ORDER BY` is a strict order for any list of entries), `ContainsIs` and `StartsWithIs` (an escaped `LIKE` is a search that ignores case), `SameMatch` (every operator), `PickedArrayed` (filtering the array), `SortedArrayed` (its stable sort is the `ORDER BY`) and `SamePage` (pages in signed integers) |
| ListsProofs, on ItemsPage | `TypeCorrect`, `ClientGridEndsCurrent`, `RangeEndsCurrent`, `OnlyThisQuery`, `FlagTellsWaiting` | `Kept`: one request for each block a call waits for, and every block of this generation that is not waited for is there or has failed; `Covered`: the last range has been asked for; `Fresh`: a client that has been told (`Told`) holds and awaits answers of the table as it is only |

The assumptions are those the modules name. They say that sentinels (`Nobody`, `NoRow`,
`NoItem`, `Gone`, `NoServer`, ...) are none of the values they stand beside, that bounds are natural
numbers, that a request has the shape its type gives it (`RequestsAssumption`), that
`Blocks` has the blocks of every range that is asked for (`ListsAssumption`), and that
`Attempts` is finite (`AttemptsAssumption`), that the wildcards of `LIKE` have no case
(`CharactersAssumption`), that different numbers have different texts (`NumeralAssumption`), that both
foldings know the same characters (`LettersAssumption`), that a column holds numbers or texts
and an operand fits its operator (`ContentsAssumption`, `QueriesAssumption`), that no table has
2^63 rows and ids are numbers (`BoundAssumption`), and that the endpoints in use are some of
those there are (`EndpointsAssumption`). The bounds of a run (`MaxId`, `MaxChanges`,
...) are constants like any other: the theorems hold for all their values.

Each proof has the lemmas `InitInv` and `NextInv` (one step or one lemma per action),
and a temporal theorem that combines them with PTL. `BackupInv` and `LanInv` were
checked by TLC, on instances like those of the runs, before they were proved, and so was
`ListsInv`. Where a proof needs an induction (the array of any length, the characters of
a text, the entries of a sort) it argues from the least counterexample (`Least`), since
the library's induction theorems take an operator as a parameter.

`ImplementsStore` is the refinement theorem `Spec => Store!Spec`: every step of the
service is a step of the store or changes nothing the store's callers see.

The theorems on LanAccess are about `LanSpec`, without fairness, and so hold of the
`FairSpec` of the run.

Every property of a passing run is proved, except `CommandsReturn` (`lan`): it is
liveness, and TLAPS proves neither ENABLED nor what follows from fairness here.
`VisibleCurrent` (`feed_visible`) is violated.

## 6. What is not modelled

* LanAccess: the raw `settings_set` command (no screen writes these keys with it),
  port 0, and the distinction of interfaces with one port.
* Attachments and Backup: a blocking file operation that ends after its request
  was dropped and after later calls on the same id; loss of power (nothing is
  fsynced); temporary names of uploads, which are private to a call.
* Backup: `delete` and `list`; a start before any database exists.
* Users: `verify` and `list` (reads), display names.
* Providers: operands of another type than their column (SQLite's conversions to a
  column's affinity beside `String()`), letters that `toLowerCase` turns into two.
* FrontEnds: what is inside a service call (the other modules have it), throttling and
  the ageing of tokens (LoginThrottle, Sessions), the values passed.
* Items: `get`, `updated_at`; ItemsPage: the form, selection and editing.
* Dock layout, barcode wedge, forms, charts, report, theme and the attachments panel:
  each is sequential, lives in one browser window and has no second actor. Their tree
  and text algorithms recurse over data of any depth, which bounded runs would cover no
  better than their unit tests, and the prover takes no RECURSIVE operator.
* The REST and Tauri providers of the client, which map calls to requests one to one.
* What TLC's instances leave to the proofs: a clock reading older than the lock
  (`MaxLag` = 0 in `throttle`), and enabling autologin (no account to do it for, `Users` = {}, in
  `lan`; disabling it is there). The properties are proved for every value.
* What each component leaves out otherwise is in its module's header and in
  PROJECT.json `components`.

## 7. Plan

Done, in this order: LoginThrottle, Sessions, Users, Attachments with proofs; LanAccess,
Backup, AuditLog; ListResources and ItemsPage (client lists composed with change
events); Items with the abstract ItemsStore; Endpoints and FrontEnds (both surfaces with
guards, trail and sessions); ListQuery and Providers; the proofs of AuditLog, Items,
FrontEnds and ItemsPage; those of Backup, LanAccess and Providers.

Left: an atomic account store that Users implements for one worker, and an atomic
restore that Backup implements when nothing is swallowed; liveness of ItemsPage under a
network that answers.

The runs are kept to twelve, one per question. Where a promise holds only under a
condition, the run has the conditional property and section 4 the account.
