# A verification project for esppdv2

esppdv2 manages travel orders (SPD) with eight Go services around one PostgreSQL
database, NATS, Redis and MinIO, and a tool that imports a legacy database.
This directory holds TLA+ models of its parts, TLC runs that check them on small
instances, and TLAPS proofs of their most important properties for all instances.

Paths are relative to the repository (`src/`). `PROJECT.json` maps every definition
to the lines it models, and lists the runs, hazards, findings and theorems.

## 1. Inventory

| Component | State | Operations | Talks to |
|---|---|---|---|
| spd-service | table `spds` | Create, Submit (commit, then publish), Get, List | NATS `spd.submitted` |
| approval-service | tables `approvals`, `spds` | consume, Approve, Reject, ListPending | NATS `spd.submitted` |
| auth-service | `refresh_tokens`, `users.mfa_*` | Login, Refresh, Logout, MFA enroll, verify, disable | LDAP |
| shared/httpx JWTAuth, shared/jwtx | none: the token carries it | sign, accept | every service |
| document-service | bucket, table `documents` | Generate, processJob | NATS `document.generate(d)`, MinIO |
| budget-service | table `budgets` | Create, Get, publishAudit | NATS `audit.log` |
| audit-service | append-only `audit_logs` | consume, QueryLogs | NATS `audit.log` |
| reporting-service | Redis cache, 15 s | Summary, SummaryCSV | Redis |
| shared/httpx RateLimit | one counter per client | one per request | Redis |
| tools/etl | all tables, id sequences | import, bump sequences | PostgreSQL |
| notification-service | table `notifications` | SendTest, consume | NATS `notification.send` |

The services never call each other. They interact through tables they share
(`spds` is written by spd-service and approval-service, read by document-service and
reporting-service), through the tokens auth-service signs and all others believe, and
through core NATS publish/subscribe: a message goes to every replica subscribed at that
moment, at most once, and is stored nowhere. No subscription has a queue group, and
`k8s/services/*.yaml` runs two replicas of everything, so a message is handled once
*per replica*. Services run PostgreSQL at READ COMMITTED.

What is hard here: two statements (or three, outside any transaction) that others
interleave with; messages lost or handled by every replica; what was decided when
a process started (NATS or not, Redis or not) and stays so; answers, tokens and cache
entries that go on being believed after the row they came from has changed; failures
between effects that cannot be undone; a tool that is restarted, or runs beside the
services. `PROJECT.json` lists each hazard at its line.

What makes each component correct:

* SPD workflow: an SPD is drafted, submitted once, decided; a decision is backed by an
  approvals row and is final; a submitted SPD is never lost.
* Refresh tokens: an exchanged or revoked token is dead for good; a session has one live
  token; logout ends it; a session is not lost without a failure.
* Access tokens: a lost role is honoured for a bounded time; in each LDAP mode the right
  party vouches for a login; a one-time password is good for a bounded time.
* Second factor: MFA is on only with a secret the user has.
* Documents: a row never lacks its object; a job gets its document.
* Audit: the trail is truthful and complete.
* Reports: an answer is not too old, its halves fit, counts do not go back.
* Lists: a client that reads all pages has missed nothing, and comes to an end.
* Import: nothing overwritten, nothing dropped, references and free ids intact.
* Rate limit: a bound on what any span of time admits; nobody refused for ever.

## 2. The modules

`X.tla` is a model, `MCX.tla` instances for TLC, `XProofs.tla` theorems about X; AuthProofs and
HttpProofs are about two models each.

| Module | Models | Checked by | Proved in |
|---|---|---|---|
| SpdLifecycle | abstract: the statuses of an SPD | refined by SpdWorkflow | |
| SpdWorkflow | spd-service, NATS, approval replicas | `spd_*` | SpdWorkflowProofs |
| SessionLifecycle | abstract: the life of a session | refined by AuthSession | |
| AuthSession | refresh tokens: login, refresh, logout | `auth_tokens` | AuthProofs |
| AuthMfa | enroll, verify, disable, login's check | `mfa_factor` | AuthProofs |
| AccessTokens | login by mode, role in the token, acceptance, one-time passwords | `access_tokens` | AccessTokensProofs |
| DocumentJobs | document-service replicas, bucket, table | `docs_jobs` | DocumentJobsProofs |
| AuditTrail | budget-service and audit-service | `audit_trail` | AuditTrailProofs |
| ReportCache | reporting-service over Redis | `report_cache` | ReportCacheProofs |
| Paging | List of spd-service, QueryLogs of audit-service | `paged_reads` | HttpProofs |
| Etl | tools/etl beside the services | `etl_import` | EtlProofs |
| RateLimit | shared/httpx over Redis and memory | `rate_limit` | HttpProofs |

A definition named after the one below it with a suffix (`SubmitAgain`, `RefreshKeepsRole`),
marked *Variant*, is a mistake one could make in the code. No specification uses
it; it is there to show that a property notices it.

### SpdWorkflow

`spd` is table `spds` (status and creator), `approvals` is the table of that name in
id order (with, as history, the replica that inserted the row), `deciding` the open
decision transactions with the rows they lock, `unpublished` the SPDs whose Submit
has committed and not yet published, `subscribed` and `inbox` the state of NATS.

`Create`, `Submit`, `Publish`, `Consume` are one statement or one call each. Approve and
Reject differ only in the verdict and are two steps: `DecideRows` (the UPDATE of
approvals, which takes row locks and skips rows that are no longer PENDING when it
gets them) and `CommitDecision` (the UPDATE of spds and the commit: between the
two nothing another transaction does can be told from doing it before). Locks held
on rows make another decision that wants them wait, which is the guard of
`DecideRows`; a decision that finds no row answers 400 and changes nothing, hence no action.

`LegacyRows` are pending approvals imported by tools/etl: the only way to get a row that
names its approver, or an SPD with several steps. `RLSEnforced` says whether the
policies of `0002_rls.sql` bind the services. As shipped they do not: the services
connect as the owner of the tables, whom policies without FORCE exempt.
An inbox is a set because an SPD is published once (`OneRowPerReplica` depends on it
and is proved).

### AuthSession and AuthMfa

Handlers of auth-service run each statement on its own. `AuthSession` therefore has
three steps per refresh (`Check`, `Revoke`, `Grant`), and `AuthMfa` two per handler (what was
read, what is written). Any two requests may overlap; the history `serial` (in AuthMfa `waits`) says
that so far none did (and, in AuthSession, that no logout was answered although its UPDATE had
failed, which the code does: it drops the error). A client forgets a token when it receives its successor, and a
token nobody presents is of no interest. A session is named by its first token. Through
`stateOf` AuthSession implements `SessionLifecycle`: a session is open while one of its tokens
can be presented or a refresh that read one is under way, and then over. A TOTP code is abstracted to the secret it
comes from: verify and disable need a code, which the user can give when the
authenticator was given the row's secret. `imported` says that the flag came from
tools/etl, which imports it without a secret.

### AccessTokens

One user, one directory, any mode. A login goes through *password*, *otp* and *sign*; the row
of the user is read at its beginning, a refresh's at its own. `ChangeUser` is an operator who
changes role or activity in the database while requests are in flight; `Unlist` removes the user
from the directory. Nothing that a token or a code does depends on other tokens or codes, so the
module observes one of each, chosen at random: `watched` is a role, `token` any access token of
that role, `code` any one-time password; what holds of them holds of all. `lostAt`,
`unlistedAt` and `firstUse` are history. Each service has its own clock (`Skew`). A Login or Refresh
takes at most `Latency`; without such a bound a role could be signed arbitrarily late.

### DocumentJobs

`phase` says how far `processJob` is on a replica; `Store`, `InsertDocument`, `Finish` are its
three effects. A replica is *online* (reached NATS when it started), *offline* (did not:
jobs are processed inside the request) or *down*. `unsent` remembers the jobs whose
publication never arrived. The object's key contains the job, so
two replicas that process a job put the same object: an object is named by its job.

### AuditTrail

A handler of budget-service goes through *new*, *committed* (its transaction has ended),
*audited* (publishAudit has returned) and *done*. `Refuse` covers 403 and 404. `link` is what
`nats.Connect` gave when the server started. audit-service does not start without NATS.
`Sealed` budgets have a NULL column, as imports may leave it: they do not decrypt, and
the request fails after it was audited. `unsent` remembers the requests whose event was not
published: the server had no connection, or the call failed. The log is a set of rows because no
auditor enters an event twice (`EnteredOnce`).

### ReportCache

Table `spds` is reduced to its version, the number of commits that changed its counts, and a part
of an answer to the version it was read at. A request is `Miss`, one `ReadPart` per part, each in
a transaction of its own, and `Store`, which also answers; `Hit` is one step. `Started` says which
replicas have a Redis client. `told` is what clients of a key have been given at best, kept while
`steady`: while nobody had to do without Redis and no two requests computed one answer.
`SPDMonthlyCounts` passes an integer for `$1::text` (repo.go:69); whether the driver accepts that is
outside the model. If it refuses, every read of by_month is `Abort`, a behaviour the model has.

### Paging

A client asks for page after page with the limit it chose. Rows appear with stamps in any order
(an SPD's stamp is the time its transaction began, an event's is its own). `Newest` and `Pages`
are what ORDER BY, LIMIT and OFFSET may return when stamps are equal. A page of SPDs with a row
that does not decrypt fails as a whole; audit logs have no such rows.

### Etl

A row is its id, the value of its other unique column and its references. `Import`
inserts the rows whose id is free, in one transaction, and is possible when no unique
column and no reference refuses (`Importable`); `Fail` is the end of the program at any
point. A missing CSV file is skipped, which is an empty table of `Legacy`; a dry run changes nothing. `Bump` moves one sequence. `Reserve` and `Insert` are an INSERT of a service: it draws its
id before, and independently of, its commit. The services may write at any time; `early`
remembers that they did so before the tool had ended. `Seeded` allows both ways of
preparing the schema, with and without `0003_seed.sql`.

### RateLimit

Time is relative: a counter has the ticks left of its window, so the state space is finite
although time is not bounded. `store` says where a replica counts since it was last started, in
Redis or in a memory of its own; `stores` is the history of where anyone has counted. `recent`
are the admissions of the last `Window` ticks, one record each: which store admitted it, how
long ago, as which of its tick, and the count and time left that the store answered. A request
let through because Redis did not answer is there too, with count 0.

## 3. The runs

Each run takes about a minute or less on two workers.

| Run | Instance | Shows |
|---|---|---|
| spd_single | 1 replica, 3 users, a draft and an imported SPD, no policies, 1 fault of any kind | pending rows, decided rows and statuses agree; the lifecycle with final decisions |
| spd_replicas | 2 replicas, 3 users, 2 SPDs, one with two imported steps, policies in force, 1 fault | locks, decisions backed, rows immutable, one row per replica, lifecycle; no SPD lost, each eventually offered |
| spd_redecided | 2 replicas | violated: a decision is overwritten |
| auth_tokens | 5 tokens, 2 requests, 2 faults of any kind | parents dead, revocation final; without overlap one live token and a logout that ends; without faults no session lost; a session that is over stays over |
| mfa_factor | 3 secrets, 2 requests, fresh or imported account | verified secrets; lockout has no exit |
| access_tokens | 2 roles, 3 modes, 3 services whose clocks differ by up to 1 either way, tokens of 2 ticks, 2 changes | bounds on a lost role and on a code; who vouches |
| docs_jobs | 2 replicas, 2 jobs, one unbuildable, 3 faults | rows have objects; with fewer faults than replicas no published job is lost and each is done |
| audit_trail | 2 auditors, 4 requests, 1 fault | the trail is truthful; what is published is logged |
| report_cache | a summary and a CSV, 2 requests, replicas with and without Redis, 2 commits, 1 outage | bound on age; halves in order; counts do not go back while steady |
| paged_reads | 7 rows, two with equal stamps, one hidden, one broken, one late; limits 0, 1, 2 and 9 | nothing skipped; an end, unless outgrown |
| etl_import | 4 tables, 5 rows, with and without the seed, services before, beside and after, 2 runs of the tool | undisturbed, all rows, references and free ids; a second run finds nothing to insert |
| rate_limit | 2 replicas, 2 hits per 3 ticks, a restart, an outage | a bound on any 3 ticks in a row; nobody refused for ever |

Several properties hold under a condition on the history only: `OneLive` while the client
is serial, `NoLostJob` while there are fewer faults than replicas, `LegacyKept` while the
import is undisturbed, `NeverBack` while steady, `RateBounded` before an outage. The runs explore
the behaviours on both sides of each condition, and the condition is as weak as we found it to
be: each of the divergences below is what happens outside one.

`spd_redecided` shows where the code differs from what the repository's README says (the finding
in `PROJECT.json`): two replicas insert two pending rows, and the second decision overwrites the
first.

Other consequences of the code that the models have, and that have no run of their own:

* An SPD whose `spd.submitted` is lost stays SUBMITTED and can never be decided (add
  `"publish"` to `FaultKinds` of spd_replicas): the transport is core NATS, not the
  JetStream of README.md:30.
* Under the policies of `0002_rls.sql` an approver who did not create the SPD changes
  no row of `spds`, and the decision commits all the same (`DecisionsAgree` with
  `RLSEnforced`).
* Two overlapping refreshes of a token leave two live tokens, and a logout that overlaps
  a refresh leaves one (`OneLive`, `LogoutEnds` without `serial`).
* An enroll that overlaps a verify turns MFA on with a secret no code was shown for, and
  an account imported with MFA on is locked out (`EnabledVerified` without its conditions).
* A user removed from the directory keeps a session it vouched for, refresh by refresh: the
  directory is asked at login only. A directory without URL or BaseDN is as good as mode
  *disabled*, also when the mode says *required* (ldap.go, `Enabled`).
* Every replica generates every document, so a job has two rows.
* A budget-service that started without NATS leaves no trace of any access, against
  "Audit logging on all sensitive actions" (README.md:67): its requests are `unsent`.
* A report may be 15 s plus one request old, and of two requests that compute one answer the
  last to store wins, whatever it read.
* Rows imported with one stamp may be shown twice in place of each other across a page boundary;
  behind offset 10 000 (100 000) the last page comes back for ever; one row that does not
  decrypt makes its page of SPDs fail for everybody who may see it.
* With the seed applied, legacy references point at seeded rows with the same id; beside
  running services the tool ends without error although it skipped legacy rows whose ids the
  services had taken (`RefsIntact`, `LegacyKept` without `Undisturbed`).
* While Redis is down, replicas that count there do not limit at all: the in-memory
  fallback is chosen when a process starts, not when a request fails.

**Bounds.** Two replicas are the deployment, and the smallest number with which a
message is handled twice. Two rows on one SPD are the smallest number with which a
decision is overwritten; three users give a clerk who may not decide and two who may.
Faults are capped because every fault is a lost step: one less than the replicas
is the most a delivery property survives; docs_jobs has one more than the replicas, so that
one can crash and come back offline. Tokens cover a login and enough
refreshes for both requests to exchange one token and one successor. Six ticks of access_tokens
are three lifetimes of a token and three periods of a code; two changes take a role away and give
it back, or take it from row and directory. The four requests of audit_trail are both actions
by both kinds of user. Four ticks of report_cache let an entry of a slow request expire, and be
stored and read again; two requests are the fewest that race. The rows of paged_reads
overflow the largest offset. Etl's four
tables have every shape of the schema: referenced, referring, both, with live
tables in between. RateLimit's three ticks make a window's end, a full window and the next
one's start distinct, and `Burst` exceeds what the stores admit in one tick, so a bound
broken would be seen.

**Deadlock.** Most configurations say `CHECK_DEADLOCK FALSE`: their identities (SPDs, jobs,
tokens, requests, rows, ticks, runs of the tool) are finite and are used up, after which the model
stops. RateLimit never stops and is checked for deadlock.

**Fairness.** Weak fairness is assumed of what a goroutine does next without asking
anybody: the publication after Submit's commit, the callbacks of subscriptions,
the steps of processJob, publishAudit and the answer, and the passing of time.
`DocumentJobs!Take` is strongly fair per job, because one callback serves several jobs and
NATS hands messages over in order of arrival. In Paging the client goes on asking: its
end is what the property is about. Nobody is obliged to submit, to
decide, to retry or to start a process.

## 4. The proofs

All theorems hold for every value of the constants that satisfies the named
assumption of the module. None is taken on trust. Each module of proofs also has the type
invariant of its specification as a theorem; where a run does not list a type invariant, it is for
this reason.

**SpdWorkflowProofs.** The conjunction of types, locks and backing is inductive:
an open decision holds rows that are still PENDING (`LocksExclusive`), so the row its
commit changes backs the status it writes (`StatusBacked`), and no other decision can
have decided that row (`RowsImmutable`). `OneRowPerReplica` needs to be strengthened by
where the one message of an SPD can be: unpublished, in inboxes, or handled, never
two of these for one replica; `NothingBeforeSubmit` makes that possible, since nothing
exists before Submit. Rows that name different replicas are at most as many as the replicas
(`FewRowsPerSpd`). `FollowsLifecycle` maps each step to a step or a stutter of
`SpdLifecycle`. Under `SingleRow` (one replica, at most one imported row per SPD) an SPD has at
most one row, from which pending means submitted and a decision
is final, and the lifecycle is the strict one; if moreover no policies are in force, a decided row
and its SPD agree. Under `FewFaults` (no lost
publication, fewer faults than replicas) the replicas that missed an SPD are fewer
than the faults, so one has or had its event (`FewFaultsLoseNothing`).

**AuthProofs, refresh tokens.** A refresh in flight knows a token that existed and an id nobody has
inserted; past its second statement its token is dead. That gives `ParentDead` and
`RevokedForever` for any overlap and any fault. While the client waits
(`serial`), the one refresh in flight finds its token as it read it and the client has
one token per session: hence `OneLive` and `LogoutEnds`. `SessionGoesOn` is inductive with the
fact that a token nobody inserted belongs to no session: the refresh that kills the last live
token of a session is itself about to insert one. `SessionsAreOver` is the refinement of
`SessionLifecycle`: only `Login` names a new session, a successor is inserted by a refresh that
had kept its session open, and a step ends one session at most, because a step changes one token
or one request. It holds for any overlap and any fault.

**AuthProofs, second factor.** For any overlap a locked-out user stays so; while the user waits,
what the request in flight has decided on still holds when it writes.

**AccessTokensProofs.** A request in flight is at most `Latency` old, and the role it read is
the user's or was lost since it began (`RequestInv`); signing turns this into the same about the
token (`TokenInv`), from which the arithmetic of lifetime and clocks gives `RightsFresh`.
Who vouched is carried along in the same way. A code accepted in one period is the code
of a neighbouring one (`CodeInv`), and two such periods are less than three apart.

**DocumentJobsProofs.** How far a replica has come with a job tells what is in bucket and
table (`PhaseInv`): `RowsHaveObjects` and `CreatedIsStored`. `RowInv` says where a job can be when a
replica has inserted no row yet: `OneRowPerReplica`. For `NoLostJob` the replicas that no longer
hold a queued, published and unfinished job are counted: there are at most as many as faults
(`DeliveryInv`), so with fewer faults than replicas one holds it. A job has no more rows than there
are replicas (`FewRowsPerJob`).

**AuditTrailProofs** counts auditors in the same way; `TruthInv` says that no event exists before
its access was allowed and committed. `OnceInv` says where an event can be: not yet published, in
an auditor's inbox, or logged by it, never two of these, whence `EnteredOnce`.

**ReportCacheProofs.** `Since(v, t)`: version v was read and was the last one at some time from t
on. Requests have it from their start, entries from their lifetime and a latency before their end
(`EntryInv`), which is `AnswersFresh`; reads in order give `HalvesOrdered`. `NeverBack` needs
`SteadyInv`: while steady, at most one request computes an answer, there is no entry meanwhile,
and what it reads is at least what clients have been told.

**EtlProofs.** Rows only grow (`RowsStay`). While undisturbed only legacy rows are there, so an
insert that meets a taken id or value meets the same row, and a table is complete once it has been
imported (`ProgressInv`); references point at tables already complete, which a foreign key
enforces row by row (`RefsIntact`). `SequenceInv`: each sequence that was moved is at or above all
ids of its table, and ids drawn from then on are free.

`PassedInv` says that every table a run is past has the ids of all its legacy rows; since rows
only grow, the runs after a completed one find nothing to insert (`RerunsFindNothing`), are
refused nothing and change nothing (`RerunsChangeNothing`). Nothing need be undisturbed for that.

**HttpProofs, rate limit.** `RateBounded` is a bound on how many records `recent` can have. Two
admissions that a store counted name the moment their windows end; the inductive invariant says
that two windows of one store end together or at least `Window` ticks apart, that within one
window the counts differ, and that an open window is the counter's own. What the last `Window`
ticks can hold of one store is therefore at most two windows, of which the older has lost its
first admission: 2 * `MaxHits` - 1. The proof maps the admissions one-to-one into the stores
that ever counted times 1 .. 2 * `MaxHits` - 1. `FewStores` bounds the stores by replicas and
restarts, `SharedWindow` is the case of one store. That `recent` is a set hides nothing: each
admission is a record of its own (`EveryAdmissionCounts`).

**HttpProofs, paging.** A row that was there from the beginning, has a stamp of its own and has not
been given yet has at least `offset` rows before it, and an insert in front of it only adds
to them. So it is never before the page, and the last page has it (`PagingSkipsNothing`).

**What stays with TLC.** All invariants and all action properties that runs check are proved.
Liveness under fairness is out of the prover's reach and only model-checked; of each such property
the safety half is a theorem:

| Model-checked | Proved |
|---|---|
| `EventuallyQueued` | `FewFaultsLoseNothing`: the event of a submitted SPD is somewhere, or its row is |
| `EventuallyGenerated` | `FewFaultsLoseNoJob`: a job that is published and not done is held by a replica |
| `EventuallyLogged` | `FewFaultsLoseNoEvent`: an event that is published is logged or about to be |
| `NotLockedOut` | `WindowsRunOut`: no step prolongs a window, a tick shortens it, and once it is over a request passes |
| `EndsUnlessOutgrown` | `EveryPageAdvances`: a page is the last, or moves the offset on within the table, unless the table has outgrown the largest offset |

`DecisionFinalAlways` is violated as soon as an SPD has two rows; `SingleDecisionFinal` proves it
for one.

## 5. Not modelled

* notification-service: a stub whose only publisher is its own test endpoint and whose rows
  nothing reads; its delivery is the one of AuditTrail.
* The file formats of document-service, cryptography, configuration, logging, metrics: no state,
  or none that properties tell apart. A column decrypts or does not; a document can be built or not.
* Of tokens: signature, issuer and audience are taken as matching, loading of keys is file input.
  Of LDAP: the steps of one authentication are one answer or an error.
* The limits of the connection pool in shared/db: a request waits for a connection, and no
  request holds one while it waits for another.
* Soft deletion (`deleted_at`): no operation of the services sets it. SPDs and approvals imported
  as already decided, and CANCELLED: no operation of the services leaves or enters these states.
* The policies of tables other than `spds` (Paging hides rows, whatever hides them).
* Docker, Kong, Kubernetes, monitoring, scripts and load tests, but for the number of replicas and
  the seed.
