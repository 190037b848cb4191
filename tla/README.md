# Verification of the gate dispatch control

TLA+ models of the hydropower gate dispatch service in `src/`, the TLC runs that check them and
TLAPS proofs about them. Paths below are relative to `src/backend/internal/` unless they say otherwise.

## 1. The system

| Part | State it keeps | Operations | What makes it correct |
|---|---|---|---|
| Status graphs (`constants/status.go`) | none | `CanTransition` | one vocabulary on both sides of the wire |
| Reservoir service (`service/reservoir.go`) | reservoirs | create, update, transition, delete | graph respected; gates stay linked |
| Gate service (`service/gate_unit.go`) | gates | create, update, transition, delete | graph respected; a gate passes `moving` |
| Directive service (`service/operation_directive.go`) | directives, approvals | create, update, transition, delete | strict order, two persons, frozen once submitted, gate follows |
| Receipt service (`service/execution_confirmation.go`) | receipts | create, update, transition, delete | one receipt per directive; receipt, directive and gate settle together |
| Versioned store (`repository/base.go`) | one table per entity | conditional full-row update, soft delete, transaction | no lost update, no half transaction |
| Audit (`service/security.go`) | append-only log | one row per change | a change and its row are one commit |
| Login, authentication (`service/security.go`, `middleware/auth.go`) | accounts, tokens | login, resolve, require role | a stale token never has more rights than the account |
| Rate limiter (`middleware/ratelimit.go`) | counters in redis, local map | count, fall back | bounded budget per window |
| Startup (`database/database.go`, `config/config.go`, `cmd/server`) | – | load, validate, connect, migrate, seed | however starts are cut or race, an instance ends up serving a usable database |
| Web client (`src/frontend/src`) | entity stores, dialog, session | load, transition, poll, login, logout | what is shown becomes the latest; a confirmed operation happens once |

The parts interact as follows. A request passes the rate limiter, authentication and the role check of
its route, then one service method. The method reads the rows it needs **one query at a time and outside
any transaction**, decides on what it read, and finally opens one transaction in which it writes its own
row, the rows of linked entities (a directive its gate; a receipt its directive and gate), the approval
evidence and one audit row per entity. Each update is conditional on a version: for the row the request
is about this is the `expectedVersion` the client sent, for linked rows the version the handler read.
Deletions are conditional on nothing but the row being alive.

Hard behaviours, all of them consequences of this: checks made on rows that change before the commit;
rows that are only read and whose version nobody compares; a client version that does not belong to the
row that was checked; full-row writes that put back old columns; two receipts counted before either is
inserted; aborts racing receipts; deletions racing anything; a crash, a timeout or an audit failure at
any point. Around them: row locks taken in several transactions at once; links by code that outlive the
rows; starts cut anywhere; a limiter whose counters are in two places; tokens that outlive rights; answers
that overtake each other in the browser. `PROJECT.json` lists them under `hazards` with their lines.

## 2. Modules

| Module | Content |
|---|---|
| `Lifecycle` | the status sets, the transition graphs as sets of pairs, the role rule of directive transitions |
| `Dispatch`, `MCDispatch` | the dispatch core: three tables, approvals, audit trail, and the concurrent handlers |
| `Permits` | abstract: what the core promises, each operation at one instant; implemented by `Dispatch` |
| `DispatchProofs`, `DispatchOutcomes` | proofs about `Dispatch`: rows, versions and persons; then outcomes and the refinement of `Permits` |
| `PermitsProofs` | what follows from the promise of `Permits` |
| `Transactions` | the transactions statement by statement, with row locks, rollback and crash |
| `AtomicStore` | abstract: a set of changes applied in one step or not at all; implemented by `Transactions` |
| `Assets`, `MCAssets` | reservoirs, gates and the facility chain receipt → directive → gate → reservoir |
| `Startup`, `MCStartup` | from a process and its environment to a serving instance, on a shared database |
| `Gateway`, `MCGateway` | rate limiter, login, authentication, error translation and audit summary |
| `WebClient` | one browser tab: entity store, dialog, polling, session |
| `TransactionsProofs`, `AssetsProofs`, `StartupProofs`, `GatewayProofs`, `WebClientProofs` | proofs about the module each is named after |

An `MC` module gives the constants values that a `.cfg` cannot write, or defines a symmetry. The layers
fit together by what each takes for granted: `WebClient` knows the server as a version check and a set of
expired tokens; `Gateway` knows a service method as read, check, commit, read again; `Dispatch` and
`Assets` know a transaction as one atomic versioned change; `Transactions` shows that it is one; `Startup`
gives the database they start from.

### Dispatch

*State.* `gates`, `directives`, `confirmations` map codes to rows; a row has `life` (absent, live,
soft-deleted), `status`, `version` and the columns the properties speak about: the linked gate, the goal
position and the two persons of a directive, the directive of a receipt. `approvals` holds the rows of
`directive_approvals`, `trail` the number and the last row of the audit log of each entity. `req` maps a
request to what its handler holds in memory: the next database access `pc`, its parameters, the version
the client sent and the rows it has read.

*Actions.* A handler is cut where the code meets the database. `Begin...` is the routing, the role check
and the first read with the checks made on it; each further query is one action (`ReadEditGate`,
`ReadLinkedGate`, `CountReceipts`, `RequireExecuting`, `ReadOutcomeDirective`, `ReadOutcomeGate`); the
transaction is one action (`Insert...`, `Commit...`, `Delete...`). `Fail` ends a handler at any point
with the database unchanged: it stands for every refusal, version conflict, unique index, failed audit
insert, cancelled context and crash of the server. A request slot is free again afterwards, so retries
and repeated clicks are further requests.

*Why a transaction may be one action.* Because `Transactions` implements `AtomicStore`, see below.

*Permits.* The abstract specification has no handlers, versions, gates' rows or audit rows: a directive is
drafted, edited, submitted, approved, started, aborted and removed, its receipt received, settled,
cancelled and discarded, each in one step under the conditions of that instant. `ImplementsPermits` maps
the rows of `Dispatch` to it by forgetting versions and gates; reads are stuttering steps. Two of its
actions are weaker than one would write them, and say so: `Remove` takes a permit in any status, and
`Receive` accepts one that has just been aborted, since neither commit compares the directive's version.

*Abstractions.* Business fields (name, facility, owner, risk, metrics, evidence, times) are left out: a
client can always send values the checks accept, and refusals are `Fail`; the facility comparison
belongs here. `confirmed_by` is written and never read by a decision. Usernames are model values;
`Fold` maps a name to what `strings.EqualFold` compares. A client's `expectedVersion` ranges from the
version its handler reads to `Lead` above it; older ones are left out because versions only grow, so
that `Matches` refuses them in every case. `Endpoints` restricts an instance to some routes; the model's
`Begin` tests it. `MaxVersion` bounds only the operations that can repeat for ever (edits of a row and
manual moves of a gate); the life of a directive and of a receipt is finite by itself. Gates start as
`seedGateUnit` creates them; directives and receipts start empty and are created by the model (the
three seeded directives differ from rows it reaches in their version numbers only).

*Slips.* An operator with the comment `Slip:` is a deliberately wrong variant of the operator after it
(a missing guard, a forgotten column). It is used by no action; with it in place of the right one the
property that guards against the slip fails, which shows that the property looks at the code.

### Transactions and AtomicStore

*State.* `rows` (committed `life` and `version` of each row), `trail` (committed audit rows), `txn`: for
each connection the statements of its transaction, how many are done, and the versions its updates
expect. The locks a transaction holds are the rows of its finished writes; an inserted row is locked by
its entry in the unique index. The rows are those of three tables and of `directive_approvals`, one for
each directive and stage.

*Actions.* `Begin` takes one of the statement lists the services run (`Plans`): a row inserted, updated or
deleted with its audit row (`CreateWithAudit`, `UpdateWithAudit`, `DeleteWithAudit`); a submission or
approval with its approval row between update and audit (`TransitionWithApproval`); a started or aborted
directive with its gate; a receipt with directive and gate. `Write` needs the lock and a row that meets the
statement, `Refuse` is `RowsAffected` 0 or the unique index and rolls back, `InsertAudit`, `Commit`,
`Rollback` (failed statement, cancelled context, lost connection) and `Crash` (all connections) complete
it. That a conditional update waits for the lock, re-evaluates its condition on the committed row and keeps
the lock to the end, and that an insert waits for an uncommitted entry of the same key, is PostgreSQL at read
committed, and external. All transactions lock in the order receipt, directive, then gate or approval. A
nested `WithinTransaction` is a savepoint whose error is always passed on.

*Refinement.* Abstractly a transaction is a job: the rows it inserts, those it deletes, and the versions it
expects of the rows it writes. `Commit` is `Apply`, which demands that **all** conditions hold at that
instant and adds one audit row for each row changed, approvals excepted, which are evidence themselves.

### Assets

*State.* One table of rows with a link to the row above, `trail`, the handlers' memory, and the history
`held` of facilities a row has had. *Actions* as in `Dispatch`: `BeginCreate`/`Insert`,
`BeginUpdate`/`ReadAuthority`/`Commit`, `BeginTransition`/`Commit`, `BeginDelete`/`Delete`, `Fail`. The
four services share this shape; what differs is data: the row above, whether an edit may change the link
(a draft only), the graph, the initial status. Facilities are names as `strings.EqualFold` tells them
apart. Directives and receipts are present as links only; their life is in `Dispatch`. As there, a client's
`expectedVersion` ranges from the version the handler reads to `Lead` above it (`ClientVersions`): no
service compares it with the row it has read, only with the row at the commit.

### Startup

*State.* For each instance its environment, as far as `Validate` and the hashing of passwords look at it, and
how far its process is; each table missing, empty, filled or wiped (soft-deleted rows only); the accounts;
how often the seeded approvals are stored. *Actions.* `Start` (load and validate), `Connect`/`Reconnect`,
`Migrate` (look for one table) and `CreateTable`, `Count`, `Insert`, `InsertApprovals`, `Serve`, and around
them `Stop`, `Exit` and `Resume` (the operator stops the container and may start it again), `Fault` (crash,
error, startup timeout), `Redeploy`, `Wipe` and `Refill` of a table by requests. Two instances may find the
same table missing; the one whose `CREATE TABLE` comes second exits. Seeding counts live rows while the
unique indexes also see deleted ones; `Fits` and `Seeded` differ in just that. `Insert` of the accounts
fails if a password is not `Hashable`: bcrypt refuses more than 72 bytes, and `Validate` has no upper bound.
A stored password stands for its hash, that is for what a login with it would be compared with. A batch
insert is one step, since gorm runs it in a transaction. `MCStartup` has a production and a development
environment that start, three that miss one rule of `Validate`, and one with a password of 73 bytes.

### Gateway

*State.* Accounts, valid tokens with the role they were issued for, one record, numbers of audit rows; the
minute, the counters in redis and in each instance; the handlers. *Actions.* `Receive`, `Increment` or
`IncrementFails` then `IncrementLocal`, `Login`, `Authenticate`, `Read`, `RefuseByRule`, `Commit`,
`ReadAgain`, `DatabaseFails`, and `CountAudits` for the queries of the summary; the environment changes
accounts, expires tokens, starts a new minute, restarts redis or an instance. A status is a success, a
refusal (401, 403, 409, 422, 429), 404 or 500. The limiter's key has no method, so reading and deleting
share a counter. Cryptography is left out: a token is as good as the login that issued it. There is no
operation that changes an account; `ChangeAccount` is whoever edits the database.

### WebClient

*State.* The server's version of one record and the expired tokens; `token` (localStorage) and `session`
(`useAuth`); the store's item, `loading`, `error`; the open dialog; the calls in flight with their answers.
*Actions.* JavaScript runs from one `await` to the next, so an action is the code between two answers:
`StartLoad` (mount, click, timer), `Confirm`, `PostSucceeds`, `GetSucceeds`, `Refused` (with the clearing
of the session by a 401), `Lost`; `ServePost` and `ServeGet` are the server, apart from the answer's
arrival, so answers overtake each other. `Login`, `Logout`, `Reload`, `Bootstrap` and its failure are the
session; `OpenDialog`, `Cancel` and `DismissError` the page; `OtherUser` and `Expire` the world.

## 3. Properties and runs

Deadlock is an error nowhere: each system may come to rest, for instance when every gate was deleted or
when the bounded edits, faults or logins are used up. That nothing stops which should go on is what the
liveness properties are for.

| Run | Instance | Checks |
|---|---|---|
| `contention` | 2 requests, the routes that move directives, receipts and gates, 1 gate, 2 directives, 1 receipt code, 2 accounts; about 970,000 states | `TypeOK`, `LockOutlivesFailure`, `GateFollowsUnlessOvertaken` |
| `races` | 2 requests, all routes, 1 gate, 1 directive, 1 receipt, 2 accounts; about 610,000 states | `SnapshotsSound`, `ApprovalEvidence`, `OutcomeAgreement`, `AuditedChanges`, `LawfulTransitions`, `FrozenAfterSubmission`, `DeletedAsDraft`, `GateFollowsUnlessOvertaken`, `ImplementsPermits` |
| `receipts` | 2 requests, dispatch and receipt routes, 2 receipt codes, 3 accounts; about 33,000 states | `TwoPersonRule`, `OutcomeAgreement`, `SettleTogether` |
| `transactions` | 2 connections, one row in each of three tables and its two approvals, expected version 1; about 70,000 states | `TypeOK`, `NoCircularWait`, `EveryTransactionEnds`, `ActsAtomically` |
| `assets` | 2 requests, one row at each level of the chain, 2 facilities, `Lead = 0`; about 190,000 states | `TypeOK`, `AuthorityHeldIt`, `ReceiptKeepsFacility`, `EvidencePerVersion`, `DeletedForGood` |
| `startup` | 2 instances, 6 environments, 2 connection attempts, 3 faults; about 370,000 states | `TypeOK`, `AccountsOfOneStart`, `SeededEvidence`, `EventuallyServes` |
| `gateway` | 2 handlers, 2 instances, 1 account, a limit of 1, 3 requests, 2 faults; about 3,100,000 states | `TypeOK`, `RateBound`, `OnlyEntitledAct`, `StatusTellsTruth`, `SummaryAddsUp` |
| `webclient` | 2 calls, 3 versions, 2 dialogs, 2 logins, 1 failure; about 800,000 states | `TypeOK`, `AtMostOnce`, `QuietWhenDone`, `SignedOut`, `ClosesOnCommit`, `EventuallyFresh` |

### Bounds

The bounds are small but reach the cases that matter. Two requests are enough for every race of a check
with one commit; with three, the extra commit must itself be between the check and the write, and the
proofs below cover any number. Two directives on one gate and, in `receipts`, two receipts on one directive are
the smallest contention; `MaxVersion = 2` lets a gate be moved and edited during the life of a directive,
whose own transitions are not bounded. The accounts are an administrator (who may use every route) and a
reviewer, and in `receipts` an operator whose name differs from the administrator's in case only. Two
transactions are the smallest circle, and the lock order is what excludes longer ones. With an expected
version of 1 a row is created, written once and deleted, and every later write or creation of it is
refused; higher versions repeat that. Three faults let both instances be cut while seeding and one of them
meet a wiped table, be stopped or be deployed anew; faults are not needed for the races of the two. A limit of one makes every second
request of a key exceed it; two faults let redis fail while the minute ends or the account changes.
Symmetry is used for requests, instances, facilities and codes of rows that do not exist initially, and
in no run with a liveness property.

### Fairness

| Module | Assumed | Because |
|---|---|---|
| `Transactions` | weak for `InsertAudit` and `Commit` | a handler that is not cut runs to its end |
| `Transactions` | strong for `Write` or `Refuse` | a row's lock queue is first come, first served |
| `Startup` | weak for each instance's `Step` | the container is restarted `unless-stopped` (`src/docker-compose.yml:43`) and a running process goes on; starting a stopped one (`Resume`) is nobody's duty |
| `WebClient` | weak for each `Answer`, and for `Bootstrap` | a request is answered or fails |
| `WebClient` | strong for some `StartLoad` | the interval timer keeps firing while the page is visible |

Nothing obliges anybody to send a request, log in, or fill a wiped table. `Dispatch`, `Assets` and
`Gateway` have safety properties only and assume no fairness.

### What the runs show

*The dispatch core.* The optimistic locking does its work wherever a version is compared. A version
identifies the contents of a row, so each commit continues from what its handler checked; the approval
rows and the columns agree; receipt and directive agree, also when an abort or a second receipt races;
every change has exactly one audit row in its own commit; the graphs are respected and a submitted
directive is frozen; what the directives, receipts and approvals go through could as well have been
operations without any duration (`ImplementsPermits`). A receipt leaves `pending` only together with its
directive (`SettleTogether`): one whose directive was aborted by hand stays pending and can only be deleted.
One that is deleted while pending cannot be replaced, since its `related_code` stays in the unique index;
its directive can then only be aborted by hand, which `OutcomeAgreement` relies on.

What a handler checks on a row that its transaction neither writes nor compares can be overtaken. Two
properties say how far that goes. `GateFollowsUnlessOvertaken`: a directive that starts leaves its gate
usable, one that is completed leaves it at the goal, one aborted while executing leaves it locked, unless the gate
stood there already when the handler read it and has been written or deleted since. `DeletedAsDraft`: a deletion
takes a draft, or a directive that was one when the deleting request looked and has been written since.
`LockOutlivesFailure` needs no such exception. The claims of the documentation have none, and fail:

| Run | Property | What happens |
|---|---|---|
| `delete_race` | `OnlyDraftsDeleted` | `Delete` reads a draft; another request submits it; the delete by id removes the submitted directive (`operation_directive.go:211`, `repository/base.go:112`) |
| `outcome_race` | `GateFollowsOutcome` | a receipt reads its gate at the goal; the gate is moved by hand; the receipt commits without touching the gate (`execution_confirmation.go:184`, also `operation_directive.go:189`) |
| `abort_refused` | `AbortIsPossible` | the gate of an executing directive is deleted; an abort of the directive is refused because its gate cannot be found (`operation_directive.go:143`), against `src/README.md:44` "any active stage can be aborted by those with the right to"; no receipt finds the gate either, so the directive stays executing |
| `version_ahead` | `LawfulTransitions` | a client sends one version more than its handler reads; the row changes to that version in between; the write matches a row nobody checked and an aborted directive becomes approved (`operation_directive.go:186`) |

`LawfulTransitions` holds when clients send versions they have seen (`Lead = 0`), and fails with `Lead = 1`.

Three more differences between words and code were met and have no run of their own. A directive whose gate
stands at its goal starts without the gate entering `moving` (`operation_directive.go:153`), although
`src/README.md:48` says it does so whenever an execution starts. `src/README.md:26` says that the old token
of a demoted account becomes invalid at the next request; the middleware keeps it and uses the account's
present role instead (`middleware/auth.go:61`), which `OnlyEntitledAct` shows to be as good. The same
line asks for start-up passwords of at least 12 characters, and those of more than 72 bytes never work on an
empty database (`database/database.go:106`).

*Transactions.* No set of transactions waits in a circle, each one ends, and together they act as single
atomic changes on rows as expected, creations and the approval rows of submissions included.

*Facilities.* Agreement is checked against the row above as it was read, which may move before the commit
and ever after. What survives is that the row above had that facility at some time (`AuthorityHeldIt`), and
that receipt and directive never part, because a directive is frozen by then. The latter needs `Lead = 0`:
the edit of a draft, sent with the version the directive will have once it executes, commits over it, and
takes it to another facility than its receipt (TLC finds this with `Lead = 1` and `MaxVersion = 3`; it is the write of
`version_ahead` again). The other properties hold with `Lead = 1` too. A deleted row is never written
again, so a link by code never comes to mean another row.

*Startup.* However two starts interleave, the accounts are those of one of them; the unique indexes refuse
the other, which exits and finds the rows on its restart. The seeded approvals are never doubled, but a
process cut between the two inserts leaves them missing for good (`orphaned`). Every instance with a valid
environment that is not stopped ends up serving, with two exceptions, and TLC shows that both are needed. A seeded
table may have been emptied by deletions: then every start inserts codes that are taken and fails, until
somebody creates a row through another instance. And a password may be too long for bcrypt: then every start
fails for as long as there are no accounts.

*Gateway.* The limit holds up to once more per instance as long as redis fails, and once more per lost
counter. A right taken away before a request came in is not exercised, whatever the token says; one taken
away during the request still is. Success and refusal tell the truth about the commit; 404 and 500 after a
write do not tell whether it happened. The five queries of the audit summary are asked in an order in
which later parts can only be larger.

*Web client.* A dialog's operation happens at most once, however often it is clicked or its answer is lost,
since the dialog keeps the version it was opened with. It closes only on a commit, if no earlier
transition was in flight when it was opened; the end of an earlier one closes whatever is open. A late 401
of an earlier session can clear the token of a new one, which is the exception in `EventuallyFresh`.

## 4. Proofs

Every theorem is checked by TLAPS for all values of the constants that satisfy the named assumptions of
the module (`CodesAssumption`, `UsersAssumption`, `TablesAssumption` ...): codes of different tables
differ, bounds are numbers, the set of instances is finite. Sets of codes, users, requests, connections,
calls and environments may be of any size. What a theorem states is a property that a run
checks on a small instance.

| Module | Theorem | States | Further assumption |
|---|---|---|---|
| `DispatchProofs` | `TypeCorrect` | `TypeOK` | – |
| | `VersionsIdentifyContents` | `SnapshotsSound` | – |
| | `TwoPersons` | `TwoPersonRule` | – |
| | `Lawful` | `LawfulTransitions` | `Lead = 0` |
| | `Frozen` | `FrozenAfterSubmission` | `Lead = 0` |
| | `Audited` | `AuditedChanges` | `Lead = 0` |
| `PermitsProofs` | `PromiseInvariant` | `Permits!PermitInv` | – |
| `DispatchOutcomes` | `HandlersImplementPermits` | `ImplementsPermits` | `Lead = 0` |
| | `ReceiptsTellOutcomes` | `OutcomeAgreement` | `Lead = 0` |
| | `EvidenceMatches` | `ApprovalEvidence` | `Lead = 0` |
| | `ReceiptsSettleDirectives` | `SettleTogether` | `Lead = 0` |
| | `GateEndsWhereWanted` | `GateFollowsUnlessOvertaken` | `Lead = 0` |
| | `LockStays` | `LockOutlivesFailure` | `Lead = 0` |
| | `DeletedWereDrafts` | `DeletedAsDraft` | – |
| `TransactionsProofs` | `StatementsAreAtomic` | `ActsAtomically` | – |
| | `NobodyWaitsInACircle` | `NoCircularWait` | – |
| | `LocksExcludeEachOther` | `TypeOK` | – |
| `AssetsProofs` | `AuthorityReallyHeldIt` | `AuthorityHeldIt` | – |
| | `ReceiptAndDirectiveAgree` | `ReceiptKeepsFacility` | `Lead = 0` |
| | `OneAuditRowPerVersion` | `EvidencePerVersion` | – |
| | `DeletedRowsStay` | `DeletedForGood` | – |
| | `AssetTypes` | `TypeOK` | – |
| `StartupProofs` | `AccountsComeFromOneStart` | `AccountsOfOneStart` | – |
| | `EvidenceIsSeededOnce` | `SeededEvidence` | – |
| | `StartupTypes` | `TypeOK` | – |
| `GatewayProofs` | `LimitHolds` | `RateBound` | – |
| | `RightsAreCurrent` | `OnlyEntitledAct` | – |
| | `StatusesAreTrue` | `StatusTellsTruth` | – |
| | `SummariesAddUp` | `SummaryAddsUp` | – |
| | `GatewayTypes` | `TypeOK` | – |
| `WebClientProofs` | `ConfirmedAtMostOnce` | `AtMostOnce` | – |
| | `ClosedByItsCommit` | `ClosesOnCommit` | – |
| | `SignedOutForGood` | `SignedOut` | – |
| | `SpinnerStops` | `QuietWhenDone` | – |
| | `ClientTypes` | `TypeOK` | – |

`Lead = 0` says that no client sends a version ahead of the row its request meets; `version_ahead` shows
that the code needs it. A dash in the rows of `Dispatch` and `Assets` means any `Lead`, that is any version a
client may send. The number of concurrent requests is never restricted.

### Dispatch: rows and versions

The argument is a chain of inductive invariants.

1. `TypeInv` adds to `TypeOK` what a handler has established when it is at a step (`HandlersChecked`: the
   guards of its earlier actions, as facts about its own memory). Without it types are not inductive: a
   commit writes the handler's memory back into a table.
2. `NextRows`: a row stays, is inserted, is written at the next version, or is soft-deleted with its
   contents kept.
3. `SnapshotInv` adds `SnapshotsSound`. A row whose version is that of a snapshot has the snapshot's
   contents, since every write raises the version.
4. `PersonsInv` states the two-person rule for the table **and for every copy a handler holds**, because
   such a copy is what a commit writes. It needs no comparison of versions, so it survives clients that
   are ahead.
5. `PunctualInv`, for `Lead = 0`: the version a handler will compare is that of the copy it holds.
6. With 3 and 5, a row that matches is the handler's copy, so what it checked on the copy holds for the
   row it overwrites: the move follows the graph, nothing of a submitted directive changes, and the audit
   row names the state the row really was in.

### Dispatch: outcomes

The relation of receipts, directives and approvals is not proved on the handlers at all. `PermitsProofs`
proves it for `Permits`, where every operation is one step (`PermitInv`: types, a draft is unsigned, the
evidence is that of the row, at most one receipt per permit, receipts and permits agree).
`DispatchOutcomes` then shows step by step that a transaction of a handler, seen through the refinement
mapping, is the operation of `Permits` it is meant to be. What makes its guard true at the commit is, for
the rows the transaction writes, step 6 above, and for what it only read, `Entitled`: the role, a failed
receipt, a directive that was executing. The last may have been aborted since, which is why `Receive`
accepts that case. `OutcomeInv` joins `PunctualInv`, `Entitled`, `Blank` (rows never inserted are blank)
and `Kept!PermitInv`, the abstract invariant read through the mapping; it is inductive because each
conjunct needs the others: the simulation needs the invariant of the permits, and that is preserved
because of the simulation. `OutcomeAgreement` and `ApprovalEvidence` are `PermitInv` read back.

### Dispatch: gates and deletions

Here a handler relies on rows its transaction does not compare, so nothing of the argument above applies to
them; what is left is what the handler itself remembers (`InformedInv`: the directive to be deleted was a
draft when it was read, the gate to start on was not locked), which nobody else can disturb. A deletion is
then either of a row at the version that was read, which is the row that was read, or of one written since:
`DeletedWereDrafts`, for any client versions. For the gates, `DirectiveMovers` says which two
commits move a directive, and `SettledOrOvertaken` what they make of its gate: written, and then at the
version and so with the contents that were read; or left alone, and then as it was read, or overtaken. `LockStays`
has no exception because a gate that is not written keeps its lock, and one that is written had been read
without it or is lifted along an edge of the graph, of which only `closed` leads out of `locked`.

### Transactions

`LockInv`: each running transaction is a prefix of one of the plans, no row is written by two of them, and
what a finished statement has checked of its row is still so (`Holds`), since only the holder of the lock
could commit a change to it. `NobodyWaitsInACircle`: every plan writes receipts before directives before
gates or approvals (`Rank`), so a transaction waits for a row later than all it has locked. Whoever holds that row, if it
waits as well, waits for a still later one; with three ranks such a chain soon ends at one that goes on.
`StatementsAreAtomic`: at `Commit` all statements have been done and `Holds` is the conjunction of
conditions that `Apply` asks for; that an inserted row is at version 0 before and 1 after is `AbsentAreNew`.

### Assets

A handler checks a facility on the row above, which may change before the commit. The proof lists what
is known of rows **for good** (`Succeeds`): versions grow, a live row of the same version is the same
row, an executing directive keeps its facility, the history keeps a facility once held. What a handler
remembers (`HandlerOK`) is stated in these terms only, so it survives the steps of the others in one
lemma, and `AssetsInv` is that with the same facts of the rows. The version a handler will compare may be
ahead of the one it read, so only `ReceiptAndDirectiveAgree`, which needs an edit in flight to miss the
directive once it executes, assumes that it is not.

### Startup

Any number of instances may stand between the count of a table and the insert into it, so the count proves
nothing. `StartupInv` rests on the first insert, which takes the codes for good: deletion is soft, so
`Fits` refuses every other instance. The approvals belong to the instance that inserted the directives:
it is about to store them, has stored them, or was cut there.

### Gateway

`RequestInv`: what a handler's step tells of its memory, and how that stands to accounts, tokens, the
record and the audit numbers as they are now. An account that has the right now
had it at some time since the request came in, which is all that authentication can know; and a query of
the summary that has been answered would not find less today.
`LimitInv` counts: a request let through in this minute has taken a place of its own, a pair of the
counter that let it through and the number it got there. A counter that is lost (redis or an instance
restarts, or a cleanup) leaves its places behind under a new name, so that the map stays injective, and
the number of places is at most the limit times the number of counters, which is the bound of
`RateBound`. This is the one theorem that needs the set of instances to be finite.

### Web client

`ClientInv`: all requests of one dialog carry the version it was opened with, and once one of them is
committed the record is past it. The dialog may be closed and forgotten while its requests are still
under way, so the invariant compares the requests with each other (`SameVersion`) and not with the dialog.

## 5. Only model-checked, and not modelled

Only model-checked are the liveness properties (`EveryTransactionEnds`, `EventuallyServes`,
`EventuallyFresh`), since fairness and `ENABLED` are out of the prover's reach. Every other property of a
passing run is a theorem. The four violations are TLC's counterexamples.

Not modelled: reads for display (lists, overview, history of an entity, runtime configuration, health),
request binding, request identifiers and logging, header values of the limiter, the client's form for new
records and its list of buttons, styles and formatting, containers and the smoke test. They keep no state
that a decision of the modelled parts depends on. Settings that `Validate` accepts whatever they are
(proxies, log level, connection string) are left out of `Startup`. External, and modelled only as they are
used: PostgreSQL's row locks, redis, changes of accounts, the browser's timer.

## 6. Plan

All modules, runs and theorems above are in place. What could still be said: why exactly the versions a client may
be ahead by matter, as a theorem about which transitions `Lead = 1` adds; and the life of a receipt in
`Assets`, which knows receipts as links only.
