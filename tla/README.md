# Anubis: TLA+ models, checks and proofs

Anubis is an identity and authorization server: it signs people in, keeps their
sessions, hands out access and refresh tokens, and answers, in the request path
of other applications, whether a token may do something. Several replicas of
`anubisd` share one Postgres; each keeps its own in-memory copy of the
authorization catalog (the gate's snapshots). This directory models the parts
whose correctness depends on the order in which things happen, and the
authorization decision, which the program computes in two ways.

Run everything from this directory, for example

    tlc -workers 2 -config Rotation.cfg MCRefreshRotation
    tlapm RefreshRotationProofs.tla

`PROJECT.json` lists the components, the runs, the variants of definitions that
must break each property, the source lines behind each definition, the findings,
the hazards and the theorems.

## The system

| Component (`src/internal/...`) | State it keeps | Operations | What is hard | Module |
| :--- | :--- | :--- | :--- | :--- |
| Rotation, revocation, sign-out (`auth/app/token`, `auth/app/session`) | `refresh_tokens`, `sessions`, `identities.token_epoch` | Refresh, Revoke, Logout, LogoutSession, LogoutAll, sign-out page | concurrent transactions at READ COMMITTED, lock order, the theft response outside the transaction, partial failure | `RefreshRotation` |
| Session creation and issue (`auth/app`, `auth/adapter/http`) | the same tables, the SSO cookie, one-time codes | login, code exchange, Issue | the exchange is not a transaction | `RefreshRotation`, `SignIn` |
| Sign-in and factors (`auth/app/signin`, `mfa`, `enroll`, `emaillink`, `device`, `accesslink`) | `credentials`, `one_time_tokens`, failure counters | password, TOTP, links, devices | single use under concurrency, stale checks, a lookup that fails | `SignIn` |
| Identities and recovery (`identity`) | `identities`, `credentials`, consents, PII | disable, erase, reset, change password | a reset racing a sign-in, two transactions replacing one password | `SignIn` |
| Gate snapshots (`gate/app/manager.go`, `gate/adapter/postgres`) | `m.data` per tenant, `dirty`, pending set, timers | Run, refreshAll, refreshPending, load, touch, Get, Stale | staleness, lost notifications, slow probes, failing loads | `SnapshotManager` |
| Revocation stream (`platform/revocation`, `auth/adapter/rpc`) | subscriber channels | Subscribe, Publish, StreamRevocations | order of swap and announcement, full channels | `SnapshotManager` |
| Decision (`gate/snapshot`, `authz/app`, `authorize()` in `platform/schema`) | none, reads a snapshot or the tables | Evaluate, GrantedNodes, Reaches, authorize | two engines over two representations of one tree | `Authorize` |
| Scope tree and feeds (`scope`) | `scope_nodes`, `scope_closure`, sync runs | add, move, bulk upsert, feed sync | multi-statement maintenance at READ COMMITTED, a row failing half way | `ScopeTree` |
| Authorization administration (`authz`) | roles, grants, shares, recorded changes | grant, revoke, bulk change, preview, undo, catalog sync | changes of the same grants at once, undo after the state moved, the cap | `GrantPlan`, `GrantChange` |
| Audit (`audit`) | queue of 4096 events, hash chain, anchors | Emit, append, anchor, verify, Close | back-pressure, several writers of one chain, shutdown and crash | `AuditChain` |
| Control plane (`control`) | operators, their refresh tokens, owner assignments, API keys | platform sign-in, rotation, enrolment, assignments | no transactions at all | `ControlPlane` |
| Tenants (`tenancy`) | tenants, realms, applications, pages, slug cache | administration | status changes and caches, a realm's policy changing under sign-ins | `SnapshotManager` (status), `SignIn` (TOTP policy) |
| Platform (`platform/*`) | key ring, rate-limit shards, job locks | rotation of keys, limits, jobs | publication before use, eviction, leader locks | not modelled |
| Provisioning, transport, console (`provisioning`, `api`, `ui`) | none of their own | imports, HTTP/Connect, pages | formats and I/O | not modelled |

How they interact. Every usecase reaches Postgres through `WithinTx` or, outside
one, with a transaction per statement. A change to any table the snapshot reads
bumps `catalog_version` in the same transaction (migrations 0001, 0006, 0040)
and NOTIFYs every replica; the manager reloads the tenant and tells the
consumers of the revocation stream what is new. Access tokens are checked
against a snapshot (denylist of revoked sessions, token epoch), refresh tokens
against the tables. Every usecase emits audit events, some inside their
transaction, into the replica's queue, which one goroutine appends to the chain
all replicas share.

What makes each part correct: a refresh token is exchanged once, a replay is
noticed and answered, signing out is complete; what the gate serves is recent,
an announced revocation is enforced, a suspended tenant stops; a code, a link
or a TOTP step works once, and a token called in is never accepted again; both
engines give the same answer on every tree; a bulk change happens at one moment
to everything it is for, and its undo discards nobody's work; every audited
event is in the chain or counted as lost, and no interleaving of those who append
looks like tampering.

## Modules

| Module | What it is |
| :--- | :--- |
| `RefreshRotation` | rotation, theft response, revocation, sign-out, code exchange over the two tables |
| `RefreshRotationInv` | the inductive invariant `IInv` |
| `RefreshRotationProofs` | proofs: `IInv` is inductive, the safety properties follow |
| `SnapshotManager` | the snapshot manager of one replica, the catalog, the revocation stream |
| `AuditLog` | what the audit log promises: one append-only sequence per tenant, counted drops, signed prefixes |
| `AuditChain` | the queue, the appender and the hash chain of several replicas, shutdown, crash, anchors; implements `AuditLog` |
| `SignIn` | one person's credentials, one-time tokens and sessions under every request that uses or ends them |
| `Authorize` | the two decision procedures, the list of granted places and the reach test, as operators |
| `ScopeTree` | the tree and its closure table under concurrent transactions, read by `Authorize` |
| `ControlPlane` | the operators: sign-in, rotation, enrolment, passwords, owner assignments |
| `GrantPlan` | what a bulk change does to one grant, as operators over `Authorize`'s constraints |
| `GrantLedger` | what bulk changes promise: each at one moment, undone only while unchanged |
| `GrantChange` | preview, apply and undo as transactions with row locks; implements `GrantLedger` |
| `ControlPlaneProofs`, `AuditChainProofs`, `SignInProofs`, `SnapshotManagerProofs`, `GrantChangeProofs` | the same for the module named: its inductive invariant and what follows; for `AuditChain` and `GrantChange` also that they implement their abstract specifications |
| `AuthorizeProofs` | what the walk and the coverage of `Authorize` compute |
| `ScopeTreeProofs` | the closure is the tree's under concurrent transactions, and the readers agree over it |
| `MC...` | the instances for TLC of the module named |

### RefreshRotation and the code

`db.go` opens transactions with the default options, so Postgres runs them at
READ COMMITTED, and the grain of the model is one SQL statement, or one row of a
statement that updates several. `status`, `sessionOf`, `family`, `succ` are the
committed columns of `refresh_tokens`, `sess` of `sessions` (`live`, or the
`revoke_reason`), `epoch` of `identities`. `tokLock` and `sesLock` are row
locks. A transaction's own uncommitted changes are exactly the rows it has
locked, plus the successor it will insert, so they need no variables:
`CommitRefresh` and `CommitLogout` write them. A multi-row UPDATE collects the
rows that match when it starts (`FamilyScan`, `SessionScan`, `AllScan`), visits
them in any order, waits for a locked one and re-evaluates its condition
(`SweepRow`, `AllRow`); a row inserted meanwhile it never sees. This is
Postgres's documented behaviour and the reason the module exists.

| Code | Actions |
| :--- | :--- |
| `refresh_interactor.go` Execute | `Refresh`, `ClaimRefresh`, `ClaimFailed`, `SessionLive`, `SessionDead`, `Issue`, `IssueRefused`, `TouchSession`, `CommitRefresh`, `RevokeDeadFamily` |
| `respondToFailedClaim` | `RefreshByHash`, `RefreshUnknown`, `FamilyScan`, `SweepRow`, `RevokeRefreshFamily`, `RevokeSession`, `RevokeSessionNotFound`, `SessionScan`, `RevokeRefreshBySessions`, `EmitReuse` |
| `revoke_interactor.go` Execute | `RevokeToken` and the same statements; `EndSession` for an access token |
| `logout_handler.go` performLogout | `EndSession` |
| `logout_interactor.go` | `Logout`, `RevokeOne`, `RevokeOneDenied`, `LogoutAll`, `AllScan`, `AllRow`, `RevokeAllSessions`, `SessionScan`, `SweepRow`, `LogoutSwept`, `CommitLogout` |
| `session_establisher.go`, `oidc_handler.go` | `Establish`, `OpenBrowserSession`, `TokenAuthCode`, `ExchangeLive`, `ExchangeDead`, `ExchangeIssue` |
| errors | `ClaimError`, `SessionLiveError`, `FamilyError`, `ResponseError`, `StatementError`, `Crash` |

Abstractions. A token's hash is its row id, a family is named by its first
token, a tenant is not represented (every statement names one). `Establish` is
one step: no other request can see its rows before it commits. `IssueRefused`
may happen to any issue, standing for an identity that is not active, a tenant
that is not serving, an application closed to the person. Signing, audit
records other than the reuse event, metrics and back-channel notification after
a commit change none of the state. Session revocations also lock the tenant's
`catalog_version` row; the model leaves that lock out, which only allows more
interleavings. `TouchSession` discards its error, but inside the transaction the
error has already aborted it, so the commit fails: `StatementError`.
`alarm`, `late` and `covered` are observations that no step reads.

### SnapshotManager and the code

Time is discrete. A query takes up to `Timeout` (load's 30 seconds) and what the
goroutine does between queries takes none. The tenant list alone has no timeout
(`manager.go:178` passes on the context of the process): `ListTenants` is the
moment Postgres reads it, `TenantsListed` the moment its answer arrives, with
`Faults` any time later, and `delay[t]`, which no step reads, is how long the last
list that named t was on its way. `pc` is where `Run`'s only goroutine is:
`select` (the loop), `list` and `listed` (Tenants), `load`, `probe` and `touch` (the version
gate), `begin`, `read`, `rest` (LoadSnapshot), `publish`, `announce`. `pushes[t]`
holds the commit time of each change of tenant t, so its length is
`catalog_version`; each change stands for a revocation. A snapshot is its
version, `BuiltAt` and `LoadedAt`; `RevokedSessions` is computed from them as
the query does, over the window before the transaction began.

`coalesceQuiet` and `coalesceMax` (250 ms, 2 s) are shorter than a unit of time:
the timer fires before time passes, but not before a poll tick that is already
waiting. Replica and database share a clock, and a revocation's `revoked_at` is
the time it commits. One stream per tenant stands for all of them; channels are
`SubBuffer` long. The lost-race test in `touch` cannot fail, since only this
goroutine writes `m.data`.

### AuditChain and the code

| Code | Actions |
| :--- | :--- |
| `chained_auditor.go` Emit | `Start` (the operation that will emit), `Emit`, `ContextDone`, `EmitKills` (a send on the closed channel) |
| run, append | `Receive`, `Begin`, `LockAuditChain`, `ReadTip`, `InsertAudit`, `AppendFails`, `AppendTimesOut`, `CountDropped` |
| `serve.go`, `application.go` | `Shutdown`, `DrainedClose`, `ForcedClose` (the grace ran out), `Exit`; `Crash`, `Restart` |
| AnchorChain | `AnchorRead`, `AnchorInsert` |
| VerifyChain, VerifyAnchors | `BrokenLinks`, `BrokenAnchors` |

Each event is emitted once, on its `Home` replica; `After` is the order its
operation has to earlier ones there. Requests, jobs and detached goroutines
differ in whether shutdown waits for them. An emitter in `InTx` holds a
connection of the pool while it is blocked, which is how the appender can be
starved; its five-second timeout is `AppendTimesOut`, enabled exactly when the
append cannot go on. A hash is the sequence of everything it commits to: number,
event and how the event's ids are spelt. The columns for actor, target and session
are uuids: whatever spelling `ParseUUID` accepted, they give back the canonical
one. So `NextRow` hashes the ids as the emitter sent them (`IdsSent`, `raw` for the
events of `RawIds`) and `BrokenLinks` as they are read back (`IdsRead`). An
append whose commit succeeds with the answer lost is an outcome of
`AppendFails`. The refinement of `AuditLog`: the log is the events of the rows in
order of `seq`, `dropped` is what was counted, a signed prefix is what an
anchor's hash commits to.

### SignIn and the code

One person and, per process, one request. A step is a statement or what lies
between two; a transaction's writes appear at its commit (`CommitCut`,
`CommitRekey`, `CommitPassword`, `CommitTotp`). `pwLock` is what serialises two
transactions that write the person's password rows: the second waits for the
first and then meets the unique index `credentials_one_password` (`IndexAdmits`).

| Code | Actions |
| :--- | :--- |
| `password_authenticator.go`, `login_interactor.go`, `oidc_handler.go` | `ReadRealm`, `ReadIdentity`, `VerifyPassword`, `WrongPassword`, `ReplaceHash`, `AskForFactor`, `RequireEnrolment`, `AllowFirstFactor` |
| one-time tokens | `CreateOneTime`, `ConsumeOneTime`, `ConsumeNothing` |
| `verify_mfa_interactor.go`, completeSecondFactor | `VerifyTotp`, `WrongCode`, `AdvanceCredentialStep`, `CodeReplayed` |
| `session_establisher.go`, `paseto_token_issuer.go` | `SessionView`, `OpenSession`, `Issue` (later issues for a session: rotation) |
| `recovery_interactor.go`, `identity_admin_interactor.go`, `enrollment_interactor.go` | `RevokeCredentialsOfKind`, `CreateCredential`, `RevokeAllSessions`, `CallIn`, `EnableIdentity`, `AdminBumpTokenEpoch`, `RevokeCredential` |
| `tenant_admin_interactor.go` UpdateRealm | `UpdateRealm` |
| errors | `DbError`, which rolls the transaction back |

`cuts` counts the call-ins (disable, sign-out everywhere, rekey, bump) and each
session carries the count its token was issued under: the two are compared in
`AcceptedTokenIsCurrent`, while the code compares epochs. `realm` is what the realm
says of TOTP: `forbidden`, `allowed`, or `overdue` (allowed, required, the deadline
over; required with the deadline to come is as `allowed`). A request uses the
policy it read at its first step (`ReadRealm`; `AllowedOf`, `EnrolmentOverdue`),
while `UpdateRealm` changes it at any time. `held` is what was demanded of the
person throughout a sign-in: the authenticators they had and the realm allowed, and
`Enrolment` itself while it was overdue; a session's `bare` is what of it was never
shown. Left out: device
keys and access links; the failure counter, a locked account being refused where
a disabled one is; expiry of one-time tokens, which only ends them sooner.

### Authorize, ScopeTree and the code

`Authorize` has no state. `CoveredBy`, `AxesSatisfied`, `Evaluate`, `GrantedNodes`
and `Reaches` follow `gate/snapshot`, walking parent pointers; `AxisEval` and
`SqlAuthorize` follow `authorize()` in `routines.go`, probing the closure. A
catalog says what both read of one identity and one permission.

`ScopeTree` keeps `parent` and `closure` as committed; a transaction's own rows
are in `tx` and its statements see both (`View`). `AddMeasure`, `AddInsert`,
`AddClose` are the statements of `scope_add_node`; `MoveProbe`, `MoveWeigh`,
`MoveSever`, `MoveSevered`, `MoveGraft`, `MoveGrafted`, `MoveReparent` those of
`scope_move_node`, a DELETE or INSERT being its scan and its writes apart. A
statement waits for rows another transaction wrote (`WaitsFor`), `Deadlock`
aborts one of a cycle and `Lose` any; `Fail` ends the transaction, or goes back
to the savepoint for a feed's row. Left out: renaming and archiving, axis roots
and slugs, which do not change the tree's shape, and locks taken by half of a
statement.

### ControlPlane and the code

The usecases in `control/app` open no transaction, so every statement is a step
and commits. `Login`, `VerifyMFA`, `Present`, `Call` are requests arriving;
`CheckPassword`, `WrongPassword`, `Rehash`, `LiveRoles`, `BeginSession`,
`ReadRow`, `VerifyCode`, `AdvanceTOTPStep` the sign-in; `Lookup`,
`ConsumeRefresh`, `AppendRefresh`, `RevokeRefreshFamily` rotation, replay and
sign-out; `Standing` and `Authority` the guard; `VerifyCurrent`,
`LastOwnerCheck`, `WriteUser`, `WriteAssignment`, `StageTOTPSecret`,
`ConfirmTOTP` what it lets through. `killed`, `cuts`, `enrolments` and the `pw`
and `code` of a token are observations. Left out: API keys, the creation of
operators, assignments to one tenant or ending by date, set-up.

### GrantPlan, GrantChange and the code

`GrantPlan` is `grantchange.Build`: which grants a change is for (`Matches`,
`Altered`), what it skips (`Skips`), what it makes of the others (`After`), what
`grant_scopes` accepts (`Writable`) and, for the properties, where a grant
reaches as the gate sees it (`Reach`). One axis and one role; a grant is its
picks, its end and whether it is revoked.

| Code | Actions |
| :--- | :--- |
| `grant_change_interactor.go` Preview, Apply | `Ask`, `Choose` (the candidates as of the statement's start), `LockCandidate` (in order of usernames, waiting, then checked again), `Plan`, `Write` |
| UndoGrantChange | `AskUndo`, `LockChange`, `LockItem` (in any order), `Compare`, `Restore` |
| `grant_repository.go` | `CreateGrant`, `RevokeGrant` |
| Postgres, `db.go` | `Deadlock`, `Lose`, `Tick` |

The refinement of `GrantLedger` is the identity on grants and recorded changes:
`Write` and `Restore` are its `Change` and `Undo`, every other step of a call
stutters.

## Runs

| Run | Bounds | Shows |
| :--- | :--- | :--- |
| `Rotation` | 3 tokens, 1 session, its owner and somebody else, 2 requests at a time; refresh, revoke, sign-out, sign-out from the browser; faults, expiry | a family is a chain of tokens, sign-out is complete and only of one's own, `contained=true` is never wrong, at most one late token, evidence is kept; `TypeOK` and `IInv` before they are proved |
| `RotationLive` | 2 tokens, 1 session, 2 requests at a time of all six kinds | every request ends, deadlocked ones by the detector |
| `Snapshot` | 1 tenant, 1 change, 7 units, faults, a hanging list and suspensions; or 1 tenant, 2 changes, 6 units, streams; or 2 tenants, 1 change each, 7 units; access tokens outlive the window by one unit | what is served is recent, rebuilt in time and catches up; a revocation is enforced for the window; what is announced is served; a synced consumer hears everything; a suspended tenant expires |
| `Audit` | 2 replicas, 1 tenant, queue 1, 1 connection, 1 stop, faults, and of 7 events: a request's on each replica, one with an id in capitals, and a mail's; or 4 on one replica, a sampled one, a job's and one inside a transaction; or one with no tenant while time passes. The first with an anchor | only raw ids break a chain nobody touched; `AuditLog` is implemented; nothing is lost without a count, in order, and everything settles |
| `SignIn` | 3 requests of 15 kinds, 3 starting states, 2 TOTP steps, 1 administrator's call (a new realm policy among them), faults | single use, the second factor the realm allows, one password, no token accepted after its call-in |
| `Authorize` | 6 places on 2 axes, 2 writers, 3 transactions of up to 2 rows, depth 3, 51 catalogs, every request | the closure is the tree's, and all four readers agree |
| `Operators` | 3 requests of 12 kinds, 2 operators, 2 starting states, 2 TOTP steps of one window, faults | one token to spend, superseded tokens refused, a code opens one session, an old password stays out |
| `Grants` | 2 people and a third whom a membership gives the role, a cap of 2; or 2 administrators, 3 calls with undo; or one person, any 2 picks, every kind of change; both defaults of the axis | nobody is left out, each kind does what it says, `GrantLedger` is implemented, every call ends |

Four more runs must end in a violation; they are described below.

Why the bounds are enough. Rotation hazards involve one rotation in flight and
one operation that ends the session or replays a token; three tokens are a
family with two rotations or two families with one. Two requests at a time can
interleave, in any number one after the other. Sign-out everywhere and the code
exchange appear in `RotationLive`; with them `Rotation` outgrows its time. The
theorems remove these bounds, here and in the other modules, from every safety
property; the runs are what liveness rests on, and what found each property
before it was proved. For the snapshots, times are scaled so
that the poll is the finest unit, max age is two, the window five and the life of
an access token six units; the
clock runs past the longest bound a property states: two max ages and a probe,
or a poll interval and three passes (the pass that just missed the change, one
over other tenants, the poll's own). A chain needs two writers and the anchor
job, one stop and one raw id; a queue of one is full as soon as it holds something, and a pool of one is
empty as soon as one emitter blocks inside a transaction. In `SignIn` and
`Operators` a hazard is a pair of requests and a third that prepares or exposes
it, each starting state standing for the requests that came before. A severed
subtree needs a chain of three and a second branch; three transactions are two
that race and one that builds on the result; either one writer adds and moves
alone or all of them add, because one that moves beside another disagrees
already (`ScopeMoves`). A cap of two
is exceeded by the third grant; an undo meets a later change and a second undo
within three calls.

Requests are bounded by the rows and epochs there are (`RoomForToken`,
`MaxEpoch`), by one request for each process (`SignIn`, `ControlPlane`), by each
event happening once (`AuditChain`), by `MaxTx` and by a scene's `calls`; the
clock stops at its bound. Runs in which everything can be done and over say
`CHECK_DEADLOCK FALSE` for that reason alone; the rotation runs, which never
stop, check deadlock. Tokens, requests, operators and tenants are symmetric
where a run says so: no definition tells two of them apart. `RotationLive`,
`Audit` and `Grants` use no symmetry, being liveness checks.

Fairness. `RefreshRotation`: strong fairness of each request's next statement (a
row lock is granted in queue order, so a request whose lock is free again and
again gets it), weak fairness of the deadlock detector, which runs after
`deadlock_timeout` in every waiting backend; `Faults` is off there, since a fault
that aborts a request ends it at once. `AuditChain`: weak fairness of the
appender's step and of the exit of a closed process: one goroutine that nothing
stops, whose every wait ends by its own timeout; emitters, shutdown and crashes
owe nothing. `GrantChange`: weak fairness of a call's next step, the detector's
abort included; calls have finitely many steps and row locks are held only by
calls. Nothing is assumed of arrivals anywhere.

### What the code does and its comments do not say

Each of these runs must find a violation; `PROJECT.json` quotes the lines.

* `SessionAnswer` (`SessionRevokedMeansDead`): a database error while the session
  is read revokes the family of a live session and answers that the session was
  revoked.
* `ScopeMoves` (`ClosureMatchesTree`): two moves at once, at the isolation level
  production uses, leave a closure row for an ancestor the node no longer has;
  the documentation says the function asserts SERIALIZABLE. An add beside a move
  does the same, and two moves can make a cycle, which `scope_index.go:145-147`
  takes for impossible.
* `OperatorOwners` (`AnOwnerRemains`): two owners who revoke each other at once
  leave none.
* `Rebuilt` (`RebuiltWithinMaxAge`): `manager.go:69-71` and ADR 0015 promise that
  nothing is served that was not built within max age. A poll just before that age
  finds the version unchanged and `touch` renews `loadedAt`, all that `Get` looks
  at: the snapshot is served for nearly another max age. `RebuiltInTime` is the
  bound the code keeps: twice max age and a probe.

Further definitions state what a comment claims and what the model refutes.
They have no run of their own; added as an INVARIANT to the configuration named,
each gives its counterexample.

* `NoTokenOutlivesPassword` (`SignIn.cfg`): a sign-in past its password check, or
  a challenge minted under the old password, opens a session after a reset
  (`recovery_interactor.go:216-219`).
* `RevokedStaysDenied` (`Snapshot.cfg`): the denylist goes back 30 minutes
  (`manager.go:65`) on the ground that this is "bounded by the longest access-token
  TTL" (`gate/.../rquery/snapshot.go:186-189`); but a token lives as long as its realm
  says (`paseto_token_issuer.go:249-250`), which nothing bounds
  (`migrations/0008_realms.sql:32`). In a realm that says more, a session revoked 30
  minutes ago drops out of the denylist and its tokens are let in again.
  `DeniedForTheWindow` is what holds whatever the realm says.
* `UntouchedChainVerifies` (`Audit.cfg`): `chainHash`, "the canonical hash every
  verifier must reproduce" (`chained_auditor.go:156`), is over the ids as the caller
  spelt them. `ParseUUID`, which says it "rejects anything that is not exactly
  canonical" (`storm.go:62-66`), accepts capitals, and `SetTenantStatus`
  (`tenant_admin_interactor.go:174`) audits the id as the request wrote it; the verifier
  reads it back in small letters and reports a break. `BreaksOnlyAtRawIds` is what
  holds: nothing else does.
* `DrainLosesNothing` (`Audit.cfg`): mail delivery, which no shutdown waits for, sends on the closed queue; the
  panic takes the process and what requests had queued (`serve.go:220-222`).
* `NoSessionOutlivesPassword` (`Operators.cfg`): after a password change a
  rotation of the old session mints a token with the new epoch
  (`platform_auth_interactor.go:57-58`).
* `FamilyStaysDead` (`Operators.cfg`): a rotation that consumed its token before a
  sign-out appends the successor after it (`control/.../rquery/refresh.go:58`).
* `DemandedSecretProved` (`Operators.cfg`): starting an enrolment again replaces
  the secret in force by one never confirmed (`platform_auth_interactor.go:569-571`).
* `CodeSpentForGood` (`Operators.cfg`): confirming an enrolment with an earlier
  code of the window lowers the last accepted step
  (`control/domain/platform_user.go:31-32`).
* `PreviewIsApplied` (`Grants.cfg`): growing to a place a grant leaves out by name
  plans two picks of one place, which the primary key of `grant_scopes` refuses
  (`platform/schema/model.go:491`): the preview shows a change that cannot be
  applied (`plan.go:42-43`).

The models, and the reading they took, also show behaviour a reader of the code
may not expect.

* Rotation. A second replay of a token reports `contained=false`, because the
  first already revoked the session, and for the same reason revoking a token of
  an ended session takes the error path (`RevokeSessionNotFound`). A client that
  presents its last token after signing out raises the alarm that means a stolen
  token (`RefreshByHash`, `EmitReuse`).
* Snapshots. A consumer synced before a tenant's first snapshot is not told of
  revocations that snapshot already holds (`News`). A suspended tenant's snapshot is
  never removed and fails every replica's readiness check after max age. A list of
  tenants that hangs (`manager.go:178`, no timeout) stops the manager for as long as it
  does, and when it comes the tenants it names are loaded once more, those suspended
  meanwhile too: `SuspendedExpires` has the list's delay in its bound.
* Audit. VerifyChain over a window selects by `occurred_at`, and the chain is
  ordered by `seq`, so a window may start in the middle of a link; only the whole
  chain is checked here. Nothing in production calls VerifyAnchors. The retention
  sweep and erasure emit inside their transactions.
* Sign-in. `replaceHash` inserts the upgraded hash of an imported password before
  it revokes the imported row, and the unique index refuses it: an imported
  password is never replaced, except when an administrator revoked it since it was
  verified; then it comes back. Two confirmations at once leave
  two live authenticators. In a realm that no longer allows TOTP a person with a live
  authenticator gets in on the password alone, as `password_authenticator.go:263-265`
  means it to be; `EnrolledFactorIsAsked` is about realms that allow it. Other reset links stay valid after a reset. Disabling
  and enabling again lets a sign-in that began before go on. Disable takes its
  locks in another order than a rekey or a sign-out everywhere; only the deadlock
  detector keeps them apart. Nothing calls ConsumeRecoveryCode.
* Decision. An exclude whose place the snapshot does not know vetoes nothing, in
  both engines.
* Operators. Disabled owners count as owners in `lastOwnerCheck`. ChangePassword
  verifies the current password before a statement that overwrites whatever is
  there by then. Starting and confirming an enrolment do not ask for standing.
* Grants. Revoking a grant that a bulk change has already revoked reports success,
  and undoing the change brings the grant back.

## Proofs

Eight modules hold theorems. Each theorem is for every value of the constants:
any sets of tokens, tenants, replicas, operators, administrators, grants and
requests in flight, with and without faults, any times, caps and windows. A
theorem about a property of a run is listed with it in `PROJECT.json`; lemmas
are not.

| Module | Theorems |
| :--- | :--- |
| `RefreshRotationProofs` | `InvariantHolds`, `TypeCorrect`, `RotationIsLinear` (`LinearFamily`), `LogoutIsComplete` (`LogoutSweepsFamilies`), `LateTokensBounded` (`AtMostOneLate`), `ContainmentIsTrue` (`ContainedIsUnusable`), `EvidenceSurvives` (`EvidenceIsKept`), `SignOutIsOnesOwn` (`OnlyOwnersSignOut`) |
| `ControlPlaneProofs` | `InvariantHolds`, `TypeCorrect`, `OneTokenOfAFamily` (`OneUsableToken`), `SupersededIsRefused` (`SupersededTokenRefused`), `OneSessionPerCode` (`CodeOpensOneSession`), `ReplacedStaysReplaced` (`OldPasswordStaysOut`) |
| `AuditChainProofs` | `InvariantHolds`, `TypeCorrect`, `ChainVerifies` (`BreaksOnlyAtRawIds`), `NoSilentLoss` (`NothingSilentlyLost`), `DrainIsOrderly` (`DrainKeepsRequests`), `OrderIsKept` (`OrderKept`), `LogImplemented` (`ImplementsLog`) |
| `SignInProofs` | `InvariantHolds`, `TypeCorrect`, `AcceptedIsCurrent` (`AcceptedTokenIsCurrent`), `OneSessionPerCode` (`OneCodeOneSession`), `OneUsePerToken` (`OneTokenOneUse`), `FactorIsAsked` (`EnrolledFactorIsAsked`), `PasswordIsUnique` (`OnePassword`) |
| `SnapshotManagerProofs` | `InvariantHolds`, `TypeCorrect`, `FreshIsRecent` (`ServedIsRecent`), `RebuiltBeforeLong` (`RebuiltInTime`), `DeniedStaysDenied` (`DeniedForTheWindow`), `EnforcedFirst` (`AnnouncedIsServed`), `SyncedMissesNothing` (`SyncedHearsAll`), `SuspendedDropsOut` (`SuspendedExpires`), `ThePollCatchesUp` (`PollCatchesUp`) |
| `AuthorizeProofs` | `AscentNests`, `CoverageIsPlain`, about the operators of `Authorize` |
| `GrantChangeProofs` | `InvariantHolds`, `TypeCorrect`, `EveryoneIsIn` (`NobodyLeftOut`), `KindsAreKept` (`KindsKeepTheirWord`), `LedgerImplemented` (`ImplementsLedger`) |
| `ScopeTreeProofs` | `InvariantHolds`, `TypeCorrect`, `ClosureIsTheTree` (`ClosureMatchesTree`), `EnginesAlike` (`EnginesAgree`), `AnswersAlike` (`AnswersAgree`), each up to the first commit that overtakes (`NoOvertaking`); `DecisionsAgree` and `ListsAgree`, about the operators over any tree and a closure that mirrors it |

Every module is built the same way. `IInv` is the inductive invariant, a
conjunction of named parts; each action has a lemma that it keeps `IInv`, one
step for each part it can disturb, and what an action leaves alone follows from
frame lemmas (`Bystander`, `EndsKeeps` and the like: a step of one request does
not disturb what another has found out). `InvariantHolds` is `Spec => []IInv`,
and the properties follow from `IInv`, or from a second invariant on top of it.
`TypeCorrect` is `Spec => []TypeOK`; the runs check `TypeOK` for the rotation and
the scope tree.

### The assumptions

Each is a named ASSUME of the module that declares the constant, evaluated by
TLC in the runs. Null values are not members of the sets they complete
everywhere. Beyond that:

* `RefreshRotation`: each session has an owner. Not even finiteness is assumed.
* `ControlPlane`: finitely many operators.
* `AuditChain`: an event comes after another only on the same replica.
* `SnapshotManager`: finitely many tenants, times are numbers, and `RebuildEvery =
  MaxAge` (`NewManager` gives both the same value). Nothing relates `AccessTTL` and
  `Window`.
* `Authorize`: finitely many places.
* `GrantPlan`, `GrantChange`: every place but the root of the axis has the root
  above it (`scope/.../rmodel/model.go:78`: "Every node but the axis root has a
  parent"), the grants there are at first are ones the database accepts, and the
  changes asked for are ones `checkSpec` lets through.
* `ScopeTree`: the trees there are at first are forests no deeper than the ceiling
  (`TreesAssumption`: what `scope_add_node` and `scope_move_node` leave), and a
  self-scoped grant has no places (`CatalogsAssumption`: `trg_self_scope_guard`,
  `routines.go:1082`). Nothing is assumed of who moves and who adds: every writer may
  do both, at once. The theorems on the tables are `Spec => ([][NoOvertaking]_vars =>
  []X)`. A commit overtakes another writer when it changes rows that writer has
  read and not yet acted on: it writes anything while the other is between the
  weighing and the UPDATE of a move, or moves something while the other has measured
  for an add or has probed for a move. The code forbids neither and `X` is false
  beyond it: `ScopeMoves` shows a move overtaken, and TLC finds the same for a move
  overtaken by an add. So the theorems say that this is the only way in which the
  closure and the tree, and with them the two engines, come apart.

### The arguments

None of the properties is inductive.

*Rotation.* `LogoutSweepsFamilies` holds because a rotation about to commit holds
its session's row lock (`TouchSession` took it) and a sign-out holds it from its
first statement, so no successor is committed between the scan of the sweep and
its commit; a successor committed before is seen by the scan. That needs who
holds which lock in which state (`TokenLocks`, `SessionLocks`), that a request is
where its usecase can be (`Control`), what a row refers to (`Shape`), and what a
sweep has still to visit (`Sweeping`). `AtMostOneLate` follows because a rotation
past its session check is the only one of its family (its claim holds the
family's one active token) and the family had no late token when the check
succeeded (`LateTokens`). `ContainedIsUnusable` follows from `Containment`: the
event claims containment only after its own `RevokeSession` committed, and a
revoked session stays revoked. A request that ends a session began as a request
of the session's owner (`Ownership`).

*Operators.* There are no transactions here: a rotation consumes a token in one
statement and appends its successor in a later one. The count of
`OneUsableToken` is kept because consuming is conditional on the token being
unspent: whoever consumed it is the one request about to append, and a spent
token stays spent (`OneOfAFamily`). A row's epoch counts what superseded it, and
whoever read the row read both (`Lockstep`). An accepted code is no newer than the
last accepted step of the enrolment in force (`CodesSpent`), so the conditional
statement that advances the step refuses it a second time.

*Audit.* The appender holds the advisory lock from reading the tip to its insert,
so what it links to is still the last row, and each link is over what its event
sent: the verifier recomputes it unless what it reads back is spelt otherwise. A crash or an error between the two
releases the lock and leaves no row (`Locked`, `Linked`, `Anchored`). Each event is
in a place that agrees with how far its emitter is (`Places`, `Accounted`), which is
what the disjunction of `NothingSilentlyLost` needs to survive a step; order is
kept because nothing of an earlier operation is still behind a later one
(`Behindhand`), and an orderly close waits for the requests (`OrderlyClose`). The refinement maps the rows and
the counters to those of `AuditLog`; all other steps stutter.

*Sign-in.* A session carries the epoch its request read with the row; what calls
tokens in raises the epoch of the row in the same statement (`Opening`). Single use
rests on conditional statements: no two requests or sessions have got through
with one token or code (`Apart`). `EnrolledFactorIsAsked` follows from the way a
request came and what it read on it (`Requesting`): what is still demanded of it was
demanded when it read the realm, so the policy it goes by is no laxer than the one
it will be measured by; `OnePassword` needs who holds
the lock on the password row between the two statements of a replacement
(`Exclusive`).

*Snapshots.* What a pass has read misses nothing from before its query began
(`InHand`, `Dated`); what is served was put there by a pass (`Kept`, `Sound`); so the
age of what is served is bounded by the clock of the pass. `SyncedHearsAll` needs that between a
subscription and its sync every publication was queued or counted (`Synced`);
`SuspendedExpires` that a pass whose list was read before the suspension is the only
one that can still touch the tenant, and how long that list was on its way
(`Leaving`); `PollCatchesUp` how long each pass
under way has been waiting and how many tenants it has before t (`Waited`,
`Absent`).

*The walk and the coverage.* `ScopeIndex` walks at most as many steps as there
are places. `AscentIsComplete` shows that this meets everything an unbounded walk
would, on any map of parents, cyclic or not: of a longer walk two steps are the
same place (the pigeonhole principle), and what comes later came earlier.
`AscentNests` follows. The induction is over the least counterexample, a set of
numbers, since the library's induction theorems take an operator; the same way
`StepsForever` shows that the recursive function of the walk exists.

*Bulk changes.* What a transaction has learnt of the rows it has locked stays
true: everybody else commits only to rows they hold. So what `Plan` recorded as
before is what is there when `Write` commits (`Writing`), and what `Compare` found
is there when `Restore` does (`Restoring`). That is also the refinement: a commit is
the ledger's change or undo at that moment, every other statement stutters. A
recorded change's number is that of a row because every record took a call
(`Counted`). `KindsKeepTheirWord` follows from `Recorded`: what is recorded of a
grant is what `After` makes of it; for growing to a branch it needs that branches
nest.

*The scope tree.* A table mirrors a map of parents (`Mirrors`) when it has each
place at distance 0 of itself and, one further, what is above its parent, and no
place above itself. A forest's reading mirrors it (`ForestMirrored`), and nothing
else does (`MirrorsPaths`: by induction over the distance, which stays below the
number of places, `PathsAreShort`). What `scope_add_node` adds and what
`scope_move_node` cuts and joins keep the mirror (`AddKeeps`, `MoveKeeps`: cutting
leaves exactly the rows within the subtree and outside it, joining passes each
path through the new parent once). The invariant says of each transaction, at
each statement, what it has made of what its savepoint saw (`AtAdd`, `AtMove`), so
that `Fail` goes back to a mirror; between rows it sees one itself (`Resting`). Two
who write are serialised by the lock on `catalog_version`, which the first write to
`scope_nodes` takes (`OneHolder`): whoever has not got it has left nothing behind
between rows or in a savepoint (`Steady`). When the holder commits, the others are at
a point where what they have read is still so: a transaction in a move has read
nothing yet that a commit which does not overtake it could change, and one that
measured for an add meets only additions, which change no row of a place that was
there (`RowsKept`). Where the closure
mirrors the tree its rows are the walk (`RowsAreTheWalk`), so the probes of
`authorize()` find what `CoveredBy` finds, for every constraint, axis, catalog and
request (`CoversIsBearing`, `AxisAgrees`).

### Only model-checked

Liveness (`Termination`, `Settles`, `CloseReturns`, `CallsEnd`): fairness and
ENABLED are out of the prover's reach. What a recursive definition
computes is proved only where it is a recursive function over a set of numbers
(the walk, the reading of a tree). The findings are violations, found by TLC.

## Not modelled, and the plan

Left out for good: imports, HTTP and Connect transport, mail, QR, XLSX and YAML
codecs, the console, generated code (by far most of the repository's lines:
protobuf, Connect and the per-table query code, without control of their own),
and the cryptography, taken to be perfect.

Not modelled yet: the key ring (a key published before it signs, kept until its
last token has expired), the rate limiter (real-valued time, per replica and
best-effort by design), the other maintenance jobs and their advisory lock,
device keys (whose number is checked before it is increased), access links,
introspection, the slug cache, memberships, roles, shares and the catalog sync.

Every safety property of the passing runs is now a theorem. Next: the key ring
and the device keys as modules of their own, and the locks a half-done statement
of `ScopeTree` holds.
