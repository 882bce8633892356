# Communication Engine: specifications, checks and proofs

TLA+ models of the parts of the Communication Engine in which steps of several
requests, workers or scheduled jobs meet on shared rows, with TLC runs on small
instances and TLAPS proofs for every instance. The code is TypeScript on Next.js;
the state is one PostgreSQL database reached through Prisma. Paths below are relative
to the repository.

Contents: [1 The system](#1-the-system) -
[2 Modules and code](#2-modules-and-code) - [3 Runs](#3-runs) -
[4 Fairness](#4-fairness) - [5 Proofs](#5-proofs) - [6 Divergences](#6-divergences) -
[7 Not modelled](#7-not-modelled) - [8 Plan](#8-plan)

Running: `tlc -config EventsCheck.cfg MCEvents` (a run's module and cfg are in
section 3), and `tlapm M.tla` for M each of `AuditChainProofs`, `WebhookDeliveryProofs`,
`CronHealthProofs`, `AuditVerifyProofs`, `RepeatsProofs`, `FcgVotingProofs`,
`MemberLifecycleProofs`, `AutoDraftProofs`.

## 1 The system

A multi-tenant service. A firm (tenant) agrees on a Firm Culture Guide (FCG) by vote,
each member refines it in a User Culture Guide (UCG), and the engine drafts and scores
messages against both. Every consequential action is appended to a per-tenant,
hash-chained audit log, and events of the log are delivered to webhooks.

There is no in-process concurrency beyond async functions, and no queue: **every
interaction is through rows of the database**. HTTP handlers and fifteen cron
routes run side by side, in several processes, under READ COMMITTED. A handler is a
list of awaited statements; between any two of them any other handler may run, the
process may die, or the statement may throw. What keeps handlers apart is a unique
index, an `UPDATE ... WHERE <expected value>`, or, for crons, a PostgreSQL advisory
lock. Where code uses none of these, it acts on what it read some awaits ago.

### Components

| Component (source) | State | Operations | Hard part | Correct when |
|---|---|---|---|---|
| **Audit chain** `lib/audit.ts` | `AuditEvent` per tenant: seq, prevHash, hash | append (read tip, insert), verify | two appenders on one tip; the caller's write has already committed | the chain always verifies, is gap free, and every action has its row |
| **Webhook fan-out** `webhooks/dispatch.ts` | `WebhookDelivery` | select subscriptions, insert all rows in one statement | subscriptions toggled or deleted in between; queries that fail and are swallowed | no delivery without an anchored event of its tenant; all of the selected are served or none |
| **Webhook worker** `webhooks/deliver.ts` | delivery status, attempt, dueness; subscription enabled, failure counter | reclaim, lock, post, retry, settle, auto-disable, reap | overlapping batches, dead workers, lost answers, backoff | one worker per row, settle once, everything settles |
| **Cron heartbeat, lock, health check** `cron-health/` | `CronHeartbeat`, advisory lock | start, lock, finish, evaluate, claim, alert | two invocations at once, claim before alert | one run per cron, spaced alerts, stalls are noticed |
| **Background verification** `audit-verify/run.ts` | `AuditChainVerification` per pass and tenant | pass: walk, dedupe, stamp, alert | overlapping passes, alert lost after its stamp | one alert per tamper and window; none missed for good |
| **FCG voting** `api/fcg/proposals`, `lib/voting` | proposal, votes, guides, electorate | draft, open, vote, evaluate, commit, settle | votes evaluated on stale reads, commits racing on a version | guides form one line of versions, outcome as the rules say |
| **Idempotency keys** `auth/api-keys/idempotency.ts` | one row per (key, route) | reserve, execute, complete, replay, purge | reservation outliving its handler or the reverse | one effect per window, replay is genuine |
| **Member lifecycle** `lifecycle/`, `ucg/propagation.ts`, `api/ucg`, `api/ai/judge` | membership, guides and their status | revoke, re-authorise, leave, reverse, sweep, draft, judge, commit, flag | sequences of these, racing the sweep, failing half way | no early or missed departure; anonymised means wiped |
| **Erasure** `dsar/erasure.ts` | the same rows, user row | erase: membership, guides, credentials | several transactions, retried | as above |
| **API keys** `auth/api-keys/store.ts` | key row | create, revoke, sweep | key created while its owner departs | no key outlives its owner |
| **Tenant termination** `termination/` | tenant status, 27 tables | notice, reverse, export, hard delete | members writing behind the deletion, foreign keys that refuse it | what is due is deleted whole, in the end |
| **Sandboxes** `sandbox/` | sandbox tenants, cohort memberships, staged proposals | provision, add, conclude | count then add; check, stage, then write the outcome | a promotion has its proposal; the cohort keeps its limit |
| **Billing** `billing/` | period, snapshots, plan | close, reopen, cron, plan change | close evaluated outside its transaction, from columns that move on | a closed month is a fair account of it |
| **Drafting and breaker** `drafts/auto-sweep.ts`, `produce-from-inbound.ts`, `circuit-breaker.ts` | pause columns of the tenant, attempts, quarantine, drafts | produce, quarantine, trip, resume, lock, pause, retry, backfill | operator and breaker on one column; one broken message; backfills beside the cron | a broken message is contained; a breaker's pause ends; a lock stands |
| **Channels, ingestion** `channels/` | authorisations, tokens, messages | connect, revoke, refresh, ingest | rotating tokens, passes that overlap | a message is stored at most once per overlapping ingest; a healthy authorisation is kept |
| **Notifications, digests** `notifications/` | dispatch rows, inbox | dispatch, escalate, nudge, acknowledge, monitor, digest | mail before row, fan-out that breaks off | nobody told twice without a cause; bad news arrives |
| **Adherence, sentiment** `adherence/`, `sentiment/` | one row per send or signal, with its escalation | escalate, nudge, acknowledge, weekly probes | as for notifications | as for notifications |
| Sessions, TOTP `auth/sessions`, `auth/totp` | session row, secret, recovery codes | touch, revoke, time out, enrol, consume | touch racing revocation | a revoked session stays revoked |
| Meetings, DSAR requests, sub-processors, terms, cross-client learning, registers | one row each | status changes | check and write by id | status follows its diagram |
| Language-model agents, search, status, UI, exports | external or read-only | | | |

How they interact:

- every operation calls `writeAuditEvent`; an append that loses its race **throws into
  the caller** after the caller's write, so it is the commonest partial failure of all
  the others (in their models: a fault between two steps);
- `writeAuditEvent` calls the fan-out; the fan-out's rows feed the worker, whose own
  outcomes are audited (these event types are excluded from the fan-out);
- the crons (delivery, verification, lifecycle, termination, drafting, digests, nudges)
  all run inside the heartbeat and the advisory lock, and the health check is itself such
  a cron;
- the verification reads the chain; the walk is the same function the admin page uses;
- the lifecycle sweep runs the purge of idempotency keys and the sweep of API keys
  after the members, in one cron;
- a committed FCG flags the UCGs that contradict it (propagation); a promoted sandbox
  stages an FCG proposal;
- ingestion stores the messages that automatic drafting picks up and that sentiment and
  adherence score; their escalations go out by `dispatchNotification`, as do the alerts
  of the health check and of the verification.

## 2 Modules and code

Conventions. A module names its actions and operators after the functions or columns
it translates. One statement (or one transaction, if its statements cannot be
interleaved with anything that matters to it) is one action; a handler's position is a
program counter. A timestamp is a small number or, where only "past or not" matters, a
Boolean. `Fault` or `Crash` stands for a died process and for a throwing statement.
Operators under a comment "Mutation of ..." are plausible wrong versions of the next
definition, used to confirm that the properties notice them.

| Module | Code | State and actions |
|---|---|---|
| `EventLog` | abstract | one append-only sequence per tenant, no event twice |
| `AuditChain` | `lib/audit.ts`, `webhooks/dispatch.ts` | `auditEvent` is the table; an operation goes `Mutate` (its own write), `ReadTip`, `CreateEvent` (insert or P2002), `SelectSubscriptions`, `Enqueue`; `EnqueueFails` is the catch of the fan-out, wherever it strikes. `Unique` is the index. SHA-256 is a free constructor. `verifyAuditChain` is the walk. |
| `DeliveryLedger` | abstract | a delivery is open, then settled once; delivered only if accepted |
| `WebhookDelivery` | `webhooks/deliver.ts`, `subscriptions.ts` | `StartBatch` (with the reclaim), `Select`, `LockDelivery`, `Load`, `Post`, `Retry` / `FinaliseDelivered` / `FinaliseDeadLetter`, `AuditOutcome`, `CheckAutoDisable`, `AutoDisable`; `ReadForUpdate` / `UpdateSubscription`, `DeleteSubscription`, `Reap`. `due` and `stale` are `nextAttemptAt` and `updatedAt` against the clock. |
| `CronHealth` | `cron-health/{record,lock,evaluate,alert}.ts` | a run goes `MarkStarted`, `Acquire`, work, `MarkSucceeded` / `MarkFailed`; the health check's work is `Evaluate`, then `Claim` and `Emit` per cron |
| `AuditVerify` | `audit-verify/run.ts` | a pass goes over the tenants: `CreateRow`, `Verify`, `Decide` (the dedupe query), `Claim` (the stamp), `Emit`. A chain is reduced to the place where the walk fails. |
| `FcgVoting` | `api/fcg/proposals/*`, `voting/*`, `api/ai/fcg-chat` | a vote goes `Begin`, `Cast`, `Tally`, then `ReadVersion`, `CommitGuide`, `Pass` or `Settle`. `Evaluate` is the state machine with its majority, quorum and close. |
| `ApiIdempotency` | `api-keys/idempotency.ts`, `api/v1/webhooks/replay` | one slot of the index; `Reserve`, `Execute`, `Complete` / `Drop`; `Lookup`, `PurgeRead`; `Sweep` |
| `MemberLifecycle` | `lifecycle/`, `ucg/propagation.ts`, `dsar/erasure.ts`, `api/ucg/[id]/commit`, `api/ai/judge`, `api/ai/ucg-chat`, `api-keys/store.ts` | `Begin` reads and checks, an action per operation writes; the sweep is a process of its own (`SweepBegin` ... `SweepRevokesKey`) |
| `Termination` | `termination/index.ts`, `api/tenant/termination`, its cron | a request reads, then writes by id (notice, reversal, export); the sweep claims a due tenant and deletes the tables in the order of the code, one statement each, with the foreign keys that may refuse one (`Restricts`); members write behind it |
| `Sandbox` | `sandbox/index.ts` | provisioning, cohort and the three outcomes; each request reads and checks, then writes statement by statement |
| `Billing` | `billing/index.ts`, `api/billing/close`, its cron, the activity columns of `lib/tenant.ts` | members' logins and drafts move the columns; a closer reads the status, then the plan, then the members, and commits a period with its snapshots; `Reopen`, `ChangePlan` |
| `AutoDraft` | `drafts/{auto-sweep,produce-from-inbound,circuit-breaker,quarantine}.ts`, the admin routes of drafting | a sweep evaluates the breaker (read, count, write: three steps), then takes inbound messages one by one; the backfills are processes of their own, which take no lock and pass by the breaker; administrators pause, resume, unquarantine |
| `Channels` | `channels/{ingest,auths,oauth-refresh}.ts`, the connect and callback routes | connecting (read, create) with the platform's or the tenant's own OAuth app, refreshing (read, ask the provider, store), a pass per authorisation, storing a message after looking for its hash |
| `Notifications` | `notifications/{dispatch,immediate,digest}.ts` and the callers of `dispatchNotification` in `sentiment/`, `adherence/`, `drafts/` and the crons | a call works through its recipients: look for the row, mail, store the row, append, or throw on the way (`DispatchFails`, `AppendFails`); `Probe`, `Audience`, `Warn` are what its caller does around that |

**Scenes.** `Events` (chain and delivery worker), `Races` (crons and billing), `Repeats`
(API calls, mail, notices), `Sweeps` (verification, health check, termination) and
`MCTenant` (voting and sandboxes) put components side by side: a variable `scene`, chosen
in the initial state, says which of them a behaviour moves, and the others stay as they
began. A run over scenes thus checks the *sum* of the state spaces and not their product.
Where the components have no row in common this loses nothing: no step of one can enable,
disable or change a step of another. `Events` is the exception. The rows that the fan-out
creates are those that the worker reads, and a subscription is deleted or disabled under
both; its scenes have a table each, the worker's with a row that is there from the
start. What this leaves out is the arrival of rows while the worker is at work, and what
one subscription's deletion does to both at once (section 8). The constants of these
modules are free, so that the theorems are about the very specifications that the runs
check; an `MCx` gives them the values of its instance. Components that do share
rows are composed inside one module (the chain and its fan-out; revocation, culture
guides, erasure and keys of a member; the drafting sweep, its breaker and the
administrators). The modules `...Proofs` hold the proofs.

Properties that belong together are stated as one conjunction of named parts
(`RowLockInv`, `ReplayInv`, `GuideInv`, `WipeInv`, `InboundInv`, `MailInv`, `TellInv`,
`BadNewsArrives`, `ClosedIsFair`); the comment at each part says what it is about.

Abstractions a reader should know of:

- *AuditChain*: a Prisma interactive transaction of a read and an insert under READ
  COMMITTED excludes nothing, so the two statements are two actions. Payload contents
  only enter the digest; an operation stands for its event. A fan-out whose subscription
  query, tenant lookup or insert throws is recorded in the history `swallowed`: the code
  reports the error and returns, and the caller cannot tell.
- *WebhookDelivery*: backoff lengths are "some time"; the batch size (50, oldest first)
  is not bounded, so starvation by old rows is described as a hazard only.
- *CronHealth*: a run of a watched cron may also fail at any time; `QuietAfter` makes it
  stop succeeding so that stalls occur within the bound.
- *FcgVoting*: quorum is compared as `100 * cast >= n * quorumPct`, which is
  `cast >= ceil(n * quorumPct / 100)` for whole numbers.
- *MemberLifecycle*: one member of one tenant. The `calm` variable, chosen once in
  `Init`, separates behaviours in which operations come one after the other from those
  in which two race with each other and with the sweep; properties say which they are
  about. `FcgVoting` has the same device, and its calm behaviours have no second opening
  of a proposal either (`OpenRead`). `calm` is an assumption about
  the environment, not a guard in the code: section 6 lists what goes wrong without it.
- *Termination*: a table is whether it holds rows of the tenant; a member may write any
  table of `Writable` until the tenant's row is gone, since no request checks the status.
- *Billing*: a month is a run of `MonthLength` ticks; money is a small number, the
  discount of a tier is kept because totals depend on the order of reads.
- *AutoDraft*: `Backfills` are the presses of the button that may be under way at once;
  each may be pressed again when it is through. `excused` records that something went wrong
  beside one broken message. Times are ages in ticks, saturated where the code stops distinguishing
  them; the call to a model fails or yields a draft. What a sweep has still to do is a set,
  of which the oldest message is next (`InHand`, `Rest`); the failures that the breaker
  counts are the rows of the window (`FailedRows`).
- *Channels*: one mailbox per member with one message in it; the provider may rotate the
  refresh token at each refresh, and the replaced one is then void. A grant belongs to
  the platform's OAuth app or to the tenant's own (`own`), and a refresh, which always goes
  out with the platform's client, is refused for the latter.
- *Notifications*: one matter per behaviour, since rows of different kinds never meet.
  `failed` holds the notices whose dispatch threw before it stored its row.

## 3 Runs

| Run | Module, cfg | Instance | Shows |
|---|---|---|---|
| `events` | `MCEvents`, `EventsCheck` | chain: tenants a (2 writers, one of a self event, 2 subscriptions) and b (1 writer); worker: 2 overlapping batches, 1 delivery, 3 attempts, threshold 1, 2 faults | the chain always verifies and is gap free; it implements `EventLog`; deliveries are anchored; a fan-out serves all the subscriptions it selected or none, and none only after a deletion or a swallowed failure; a race has a winner; one worker per row, duplicates have a cause, `DeliveryLedger` is implemented, everything settles |
| `audit_recorded` (violation) | `MCAuditChain`, `AuditChainRecorded` | 2 writers | an action whose append loses the race is not recorded |
| `delivery_poison` (violation) | `MCWebhookDelivery`, `WebhookDeliveryPoison` | a subscription whose secret does not decrypt | its delivery never settles |
| `races` | `MCRaces`, `RacesCheck` | crons: a run of a watched cron, 2 health checks, lock on and off, cooldown 2, times 1..4, 1 fault; billing: 1 member, 2 closers, 2 plans, months of 1 tick, times to 2 | one run per cron; alerts spaced with or without the lock; a closed month adds up and bills nobody who was not there |
| `races_billed` (violation) | `MCRaces`, `RacesBilled` | 1 member, 1 closer | a member who was active in the month, and again before the close, is not billed |
| `repeats` | `MCRepeats`, `RepeatsCheck` | API: 3 requests, two of one body, TTL 1, times 0..3, 1 fault; mail: 1 member, 2 ingests, 2 authorisations, 2 tokens, 1 fault; notices: an assignee, 2 administrators (one joins later), 2 calls, 2 weeks, 1 move, 1 fault | one effect per window, replays genuine, a retry gets the original; a message is stored at most once per overlapping ingest; a healthy authorisation of the platform's app is kept; nobody is told twice without a cause; bad news arrives, but to whom the dispatch itself failed |
| `member` | `MemberLifecycle`, `MemberLifecycleCheck` | 2 guides, 2 processes, grace 1, times 1..4; 6 operations one at a time, or 2 racing; 1 fault | nobody swept early, nobody returns from anonymisation, anonymised is wiped; leavers and orphaned keys go |
| `member_guides` (violation) | `MemberLifecycle`, `MemberLifecycleGuides` | 2 guides, 1 process, 7 operations | re-authorisation restores a second guide into force |
| `sweeps` | `MCSweeps`, `SweepsCheck` | verification: 2 passes on day 1, then one a day to day 4, cron lock, window 1 day, 1 fault; health: 1 watched run, 1 check, interval 1, times to 5, 1 fault; termination: window 1, times to 3, 1 row written meanwhile, 1 fault | one alert per tamper and window; every lasting tamper and stall is alerted on, even if the first alert is lost; a due tenant is deleted whole, in the end |
| `tenant` | `MCTenant`, `TenantCheck` | votes: 2 voters, 2 proposals, quorum 60 %, 1 slow opener, 1 fault; sandboxes: 1 sandbox, 3 people, 2 operators, cohort limit 1, 1 fault | guides form one line of versions; outcomes as PRD 6.1 says when nothing overlaps; a promotion has its proposal; the cohort overshoots by the racing additions only |
| `drafting` | `AutoDraft`, `DraftingCheck` | 1 inbound message, the cron and 2 backfills, thresholds 3 (breaker) and 2 (quarantine), window 1, least pause 1, thrash window 1, 1 administrator, 1 fault | a broken message is quarantined before it pauses the tenant, a lock is not lifted by the breaker, a breaker's own pause ends, no more drafts of a message than sweeps that run beside one another |
| `drafting_operator` (violation) | `AutoDraft`, `DraftingOperator` | as above, thrash window 2, without faults | the breaker clears a pause that an administrator put in its place |

Why the bounds are enough for the questions asked:

- *events*: a race on a tip is a matter of two writers; the second tenant shows that
  chains do not mix, and its event asks for the subscriptions of the first. Interference
  between selection and insertion needs two subscriptions of one tenant: one deleted, and
  one that suffers; so does an insert that stops half way. Rows
  of deliveries do not interact except through the subscription's counter, so one row
  with two workers and two faults (one to lose a worker, one to lose its successor)
  covers reclaim and retry; three attempts give a first, a middle and a last one.
- *races*: two concurrent passes are the race; the times reach beyond one cooldown, so
  that a second alert becomes due. Two closers and a change of plan between them make
  every mixture of reads.
- *tenant*: two voters suffice for two votes that both see a majority; the second proposal
  gives a second guide on the same parent. A departure of one of two changes the
  majority. `MaxOpeners` 1 lets one slow open request stay behind. With cohort limit 1,
  two operators and three people exceed it only by racing.
- *repeats*: the executor, its rival for the slot, and a third that comes after a purge;
  time passes the TTL of the first and the second reservation. Two ingests are the race
  on a hash; two tokens are a rotation. (`MCRepeats` gives two requests, the two ingests and
  the two calls the same two names: they are of different scenes, and one symmetry serves all.) A second week is when a weekly notice is due
  again, and when a newcomer is first in its audience.
- *member*: two guides are the one in force and its successor. Revoke, commit,
  re-authorise, leave, reverse and one more are six operations.
- *sweeps*: two overlapping passes, then enough days for a lost alert, its window and the
  next one; for the health check, a success, two intervals of silence, a lost alert, its
  cooldown and a second alert. One row written behind the sweep is enough to make one
  deletion fail; the next sweep comes a tick later.
- *drafting*: the message that fails reaches the quarantine (2) before the breaker's
  threshold (3), and again after an administrator lifted it; the thrash window is open in
  the tick of a resume, which is when a provider that is still out trips the breaker again,
  so that the lock is reached. Two backfills and the cron are the first case in which a
  third draft can be made.

Deadlock is not checked: in every run a finite set of requests is used up or a clock
reaches its bound (`CHECK_DEADLOCK FALSE`), which is where these systems stop.

Symmetry is used only under invariants and step properties of interchangeable model
values (`races`: health checks, closers; `tenant`: voters, operators; `repeats`: requests
of equal bodies, the two ingests, the two calls).

## 4 Fairness

Each live run states what it needs, and the code's scheduling gives it:

- *events*: `WF` of each operation's, each worker's steps: an async function that is not
  killed resumes after its await, and the scheduler goes on calling the cron route.
  `WF` of `BackoffElapses` and `GoesStale`: time passes (`EveryDeliverySettles` relies on
  a dead worker's row growing stale; `STALE_IN_FLIGHT_MS` is wall-clock time).
- *sweeps*: `WF` of `NextDay` and of the passes' steps; of `Tick` and the health check's
  run; of the termination sweep and its clock.
- *member*: `WF` of `Tick` and of the sweep's steps.
- *drafting*: `WF` of the cron's sweep, and `SF` of `Tick`; a backfill needs none, it may
  stop or take for ever. Time
  cannot be held up for good, but a tick is disabled while an evaluation, which uses
  one `now`, is under way, and evaluations recur; only strong fairness says that the
  clock moves between them.
- None is assumed of receivers, administrators, members, voters, enqueuers, watched
  crons or the retention sweep; requests may be abandoned at any step.
- Everywhere the number of faults is bounded: liveness is recovery after the last of
  them.

## 5 Proofs

Every safety and action property of a passing run is stated by a theorem, for every value
of the constants: sets of tenants, operations, workers, crons, runs, requests, voters,
proposals, people and messages are arbitrary, and so are the bounds. Each argument has the same
shape: an inductive invariant that says what the rows are *and what every request that is
under way has established*, one lemma per action, and the properties as consequences.

Assumptions, beside the named `ASSUME`s of the modules (types of the constants, positive
interval and threshold):

| Assumption | Says | Why |
|---|---|---|
| `VotingAssumption` | finitely many voters, some proposal | an electorate is counted |
| `SandboxAssumption` | finitely many people and operators, at least one; the limit is a number | a cohort is counted |
| `DeliveryAssumption` | each delivery has its subscription; `~ SlowWorkers` | a POST is cut off after 15 s (`deliver.ts`), and a row is reclaimed after 5 min: a live worker is done before. A worker that is slower breaks `RowLockInv`, as the model with `SlowWorkers` shows |
| `LockAssumption` | some tenant; the cron's lock works | without the lock the theorem is false (section 6) |
| `BillingAssumption` | finitely many members, months of positive length | snapshots are counted |
| `DraftingAssumption` | messages are numbered; no administrator has the breaker's name; finitely many backfills, none of them the cron | ids and sentinels differ by their brackets; sweeps are counted |
| `ContainmentAssumption` | finitely many messages; 0 < `QUARANTINE_THRESHOLD` < `FAILURE_THRESHOLD` | they are 3 and 5, "deliberately below" |
| `MailAssumption`, `TellAssumption` | finitely many tabs and ingests; there is a token, a week | rows are counted |

**AuditChainProofs.** `Inductive` proves `[](TypeOK /\ ChainInv)`. `ChainVerifies` is not
inductive: that a new row verifies depends on *what the tip was when it was read*. The
invariant says: every row seals its content (`Sealed`), numbers are unique and gap free
(`SeqUnique`, `GapFree`), every row's predecessor, and every tip an operation holds, is
the genesis or a row that is still there (`Linked`, `TipsKnown`, both by `WasTip`), and
the chain has a greatest row (`HasTip`). The key lemma is `AppendKeepsChain`: a row that
passes the unique index extends exactly the tip that was read, since otherwise the
number would be taken by gap freedom. Typing and structure are mutually dependent (a tip
is a typed row only if the chain has a greatest row), hence one invariant. From it:

- `ChainAlwaysVerifies`: no interleaving, lost race or crash ever makes the walk report
  tampering;
- `EventCount`: the latest sequence number is the number of events;
- `AlwaysAnchored`: deliveries carry events of their own tenant that are in the chain;
- `ImplementsEventLog`: every step of the chain is a step of `EventLog` or changes no
  log (the refinement mapping reads a tenant's events off in the order of their numbers);
- `FanoutAllOrNothing`: a fan-out that is over has given its event to every selected
  subscription that still exists, or to none; to none only if one of them was deleted
  before the insert, or a statement threw and was swallowed. It needs to know that nothing
  is selected before the event is in the chain (`SelectionIsLate`).

`EventsLockRows`, `EventsExplainDuplicates` and `EventsKeepLedger` carry the theorems about
`WebhookDelivery` over to `Events`: a step of the other scene leaves its variables alone.

**WebhookDeliveryProofs.** `IInv` has four parts: no two workers have one row (`Alone`); a
row that a worker has in hand was locked by it, and nothing but a deletion changed it since
(`WorkerOK`); a row in flight is in somebody's hands while nobody has died (`RowOK`); and a
row that may yet be posted counts all its acceptances among those that were not recorded,
but for one that a worker is about to record (`CauseOK`). The last is what makes
`DuplicatesHaveCauses` inductive: the property itself says nothing of a row between its
acceptance and its settling. `RowLocked` follows from the first three.
`ImplementsLedger` maps a row to open, delivered or given up (`Seen`) and shows that each
step is one of `DeliveryLedger` or changes nothing there: a settled row is never
reopened, and `FinaliseDelivered` always comes after an acceptance.

**CronHealthProofs.** `LockHeldByWorkers` proves `[]LockInv`: the session lock of a cron
is held exactly by the runs that are at work, through every way to leave work (return,
throw, a pass that throws, death of the process), and with the lock on by one at most.
`OneAtATime` follows. `AlertsAlwaysSpaced` proves that alerts of one cron are an
interval apart and single, for any number of racing health checks, *independently of the
lock*: it needs only the conditional update. Its invariant `AlertInv` speaks about claims
rather than alerts, because a claim precedes its alert: claims that are out (an alert
sent, or a run about to send it) are single, spaced, and not after `stalledNotifiedAt`;
and a pass has read one value of it per cron. The key lemma, `ClaimKeepsAlerts`: the
claim succeeds only if the column still is what the pass read, so the cooldown that was
computed from the old value is a cooldown against every claim that is out.

`ClosedMonthsAreFair` is about the other scene of `Races`. What a close has computed, and
what closed months hold, is one snapshot of each member, billable only with a login or a
draft in the month (`FairInv`): the columns go on changing while a close is under way, so
the snapshots are compared with the history of logins (`LoginsKept`), not with the columns.
The arithmetic is that of months (`MonthIsOf`, by the uniqueness of quotients).

**AuditVerifyProofs.** `OneAlertInWindow` needs the lock and the stamps together: since one
pass works at a time (`LockInv`), what it found by its dedupe query is still so when it
stamps its row (`VisitInv`, the "claim" conjunct), hence two stamps for one tamper are more
than the window apart (`StampInv`), and every alert is that of a stamped row.
`DeletionIsThorough` is about the termination sweep of `Sweeps`: the tables whose
deletion lies behind the sweep hold only what was written meanwhile (`SweepInv`), and the
order of the 27 deletions has the table that a foreign key protects before the one it
would refuse (`OrderMatters`, a fact about the list in the code).

**RepeatsProofs**, API calls. `OncePerWindow` (two effects of one key are a TTL apart) is a
statement about effects, but what keeps them apart is the row, which an effect outlives.
`IInv` adds: what a row says of the request that made it (`RowIsOf`); that what a late
reader is about to delete was past its time when it was read (`ReadIsPast`: the delete is
by row id, so a later reservation is safe); that the slot is taken from a request that
won it only when its time is over (`Holds`); and that requests that won are a TTL apart
(`Apart`), which is `OncePerWindow` carried back to the moment of winning. From
`Inductive`: `NoDoubleEffect`, `ReplaysAreGenuine`. `RetriesGetOriginal` is an action
property (a retry within the window of an executed request is answered with what that
one was answered) and needs a second invariant over the same steps, `Overtakes`: a request
that wins the slot, or clears it, although it began after another was served, finds
that one past its time; `TakesOver` says the same of a
row that changes hands, and is its key lemma.

**RepeatsProofs**, mail. `MailIsStoredOnce`: of one mailbox, the copies there are and the
ingests that are about to store one are together no more than the ingests (`CountsOK`),
since who is about to store has looked before there was a row, and an ingest looks once.
`HealthyAuthsStay`: a stored refresh token is the provider's, or its successor is about
to be stored, or the grant is spoilt by an error, an overlap or a lost answer (`TokensOK`);
a refusal then happens to a spoilt grant only, or to one that no refresh can serve, since
it was withdrawn or is of the tenant's own app (`Unusable`).

**RepeatsProofs**, notices. `NoticeInv` is one invariant for both properties. For
`NothingIsToldTwice`: runs of one cron are apart where the lock works, an escalation is
told by one call (`OneCall`); the chain knows before anybody is told (`ChainFirst`);
one run stores the draft's row (`DraftOnce`); whoever is being mailed has no row, and a mail has
its row or is about to get it, unless a call died or the storing of the row itself failed
(`MailsHaveRows`). For `NobodyIsLeftOut`: a call passes over nobody of its audience
(`Reaches`) but those whose own dispatch threw, where a monitor goes on; and each of the
two debts, an escalation or a nudge that is over without having reached somebody, was
paid for by a failure of its own (`Debts`): so *one* failure cannot lose both. The steps
are grouped by what they do to the rows: `QuietMove` where nothing is told, `Sound` for what
every move of a call must respect.

**FcgVotingProofs.** `GuideInv` (versions dense, an amended guide superseded, a passed
proposal has its guide) is inductive together with `LastInForce` (one guide per version,
the last in force), `ParentsKnown` and `RequestsKnow` (a request about to commit holds
a version that exists or is the next; one about to pass has its guide). The key lemma is
again the unique index: `CommitIsNext` - a commit that passes it writes exactly version
n + 1, because every smaller number is taken - from which `CommitAdds` follows.
`CountedByVersion` turns density into a count. `GuidesFormOneLine` holds for every
interleaving of votes, every failed append and every departure; `DraftsAmendTheLast`
says that the guide which a new proposal amends is the last version and that its
number is the number of guides.

`DecisionsAreJustified` is about calm behaviours, and what it has to show is that calm
is enough: the vote under way counted all members, its proposal has stayed open, and the votes
say when it writes what they said when it evaluated them (`Undisturbed`); `Right` is the
rule of PRD 6.1 in terms of the counts, and `EvaluateIsRight` the lemma that the state
machine of the code computes it. The sandboxes of `MCTenant` are proved about here as well:
`PromotionsAreStaged` (a conclusion that promotes holds a proposal that is staged, for any
number of conclusions that race: `Staged`) and `CohortsAreBounded`, where members and additions
under way are bounded together (`Bound`), because each addition counted itself out.

**MemberLifecycleProofs.** In calm behaviours, one thing happens at a time and what was
checked still holds when it is written (`OneAtATime`, `StillHolds`); the departure that
stands explains every deadline (`DepartureExplains`), from which `NobodyIsSweptEarly` and
`AnonymisedStays` follow. `AnonymisedGuidesAreWiped` needs to know where a wipe is
(`WipeGoes`): a wiped guide has no signature but between the two steps of a wipe, and an
anonymised member has nothing left but while one is through with half of it. Without calm
only the types are invariant, and section 6 lists what goes wrong.

**AutoDraftProofs.** `DraftsAreBounded`: the bound itself is not inductive, since it does not
say who may still draft. Once a message has a draft, its drafts and the sweeps that have it
in hand are together no more than the sweeps there are (`HandsInv`): nobody takes it up
any more, and each draft is made by one that lets go of it. `LockedStaysLocked`: the
cron is about to lift or to set a pause only while none is locked (`BreakerInv`).
`OneBrokenIsContained` needs an account of the failures (`ContainInv`): unless something
else went wrong, each failed call is an attempt at the one broken message, which its row
has counted or is about to count (`Counted`), and the row's count is at most the
quarantine's (`Attempted`): so the window never holds as many as the breaker asks for.
The count of the window is a cardinality, and that time only takes rows out of it is an
injection (`RowsAge`).

Only model-checked: the liveness properties `RaceHasWinner`, `EveryDeliverySettles`,
`StallIsAlerted`, `TamperIsAlerted`, `LeaverGoes`, `KeysDie`, `DueTenantGoes` and
`BreakerPauseEnds`, since fairness and ENABLED are out of the prover's reach. No module
declares a RECURSIVE operator, so all of them can be proved about.

## 6 Divergences

Shown by a violation run (the trace is TLC's; PROJECT.json quotes the statement):

- `audit_recorded`: `writeAuditEvent` does not retry, and runs after its caller's write;
  the loser of a race stays unrecorded.
- `delivery_poison`: an undecryptable secret throws before the `try`; the row is
  reclaimed for ever, with its attempt counter unchanged, and its batch is cut off.
- `member_guides`: re-authorisation restores every FROZEN guide beside one committed in
  the grace.
- `races_billed`: a month is evaluated from `lastLoginAt`, which later logins overwrite.
- `drafting_operator`: the automatic resume writes by tenant id what it decided on an
  earlier read, and clears an administrator's pause.

Seen while modelling. Where the part is modelled, the models admit these; the properties of
the passing runs are stated so as not to deny them, and no run is devoted to them.

Voting, verification, crons:

- *Two deciding votes commit two guides*: `commitProposal` does not re-check the proposal;
  two votes that read one passing tally both commit (`vote/route.ts:71`).
- *Decided proposals are overwritten*: a vote evaluated late writes its outcome over a
  decision (`vote/route.ts:114`), and a slow duplicate of the open request reopens one
  (`open/route.ts:28`).
- *The electorate drifts*: it is recomputed at each vote while votes of departed members
  stay counted (`vote/route.ts:43`, against `quorum.ts:3-7`).
- *Nothing closes an elapsed window* until the next vote (`vote/route.ts:69`).
- *Never-run crons*: a cron that fails from its first run on has no `lastSuccessAt`, is
  classed `never-run` and never alerted on (`evaluate.ts:72`); the comments of that file
  do not agree on it.
- *Verification without the lock*: `OneAlertPerTamper` fails with `LockOn = FALSE`: the
  dedupe query and the stamp touch different rows, contrary to `run.ts:45-48`.

Keys, webhooks:

- *An expired key answers 409* instead of a fresh execution on the call that finds it
  (`idempotency.ts:226-232` against `:31-32`); the next call executes.
- *An event may reach no webhook*: `enqueueWebhooks` swallows whatever its queries throw
  (`dispatch.ts:91`), as its header says (`dispatch.ts:15-18`); nothing looks later for
  events without deliveries.
- *A stale re-enable*: `updateSubscription` decides about the counter reset on what it
  read; an auto-disable in between yields an enabled subscription with a tripped counter
  (`subscriptions.ts:201`).

Members, tenants, billing:

- *Commit during the revocation grace*: the commit route looks at the membership's status
  only, which stays ACTIVE in the grace.
- *A conflicted guide is restored as COMMITTED* with `conflictedSinceFcgId` still set
  (`lifecycle/index.ts:206`).
- *A reversal races the sweep*: read before, written after, it makes an anonymised member
  active (`lifecycle/index.ts:322`).
- *A sweep that fails between membership and guides* leaves an anonymised member whose
  guides no later sweep looks at (`lifecycle/index.ts:409`).
- *The signature survives* an erasure that failed after the guides' transaction and was
  retried, since the retry skips guides already marked (`lifecycle/index.ts:374`).
- *A reversal while the deletion is under way* succeeds (`termination/index.ts:106`): the
  tenant is active again without the tables deleted so far. The route's comment says
  "Reversible until the hard-deletion sweep runs" (`termination/route.ts:19`).
- *A declined sandbox* suspends its tenant, and the comment says its cohort "can no longer
  log in" (`sandbox/index.ts:262-263`), but `getTenantContext` ignores the tenant's status.

Drafting:

- *A message may be drafted more than twice*: the backfill route takes no lock
  (`auto-sweep.ts:40-44` calls the check before the call "the safety net"), and every
  overlapping press that passed the check makes a draft of its own.
- *A draft may go uncounted*: an audit event that fails after `draft.create`
  (`produce-from-inbound.ts:481`) is an error to the sweep, and does not use up its budget.
- *A lifted quarantine does not always give a full budget*: an attempt under way across
  the lifting writes back the count it had read.
- *Regenerating and editing* check "already sent" and write after awaits, by id: both may
  change a draft that was sent meanwhile.

Channels:

- *Two connects leave two active authorisations* (`auths.ts:256-258` says only one per
  channel and membership): concurrent connects both create, and the mock connection does not revoke.
- *Two ingests store one message twice*: the hash has no unique index (`ingest.ts:217`),
  against "re-running doesn't duplicate rows".
- *Any answer but 200 revokes*: `oauth-refresh.ts:18` calls it a "hard refresh failure", so
  an outage of the provider ends healthy authorisations; and a fetch that throws leaves a
  function whose comment says it never throws.
- *A healthy authorisation of the tenant's own app is revoked at its first refresh*: the
  code is exchanged with that app's client (`oauth-callback/route.ts:68-94`), the refresh
  token with the platform's (`oauth-refresh.ts:69-74`).
- *The deadline for re-entering a password is not enforced at ingest*; extending it is a
  check and a write by id.

Notifications:

- *A newcomer in mid-week is not told*: the monitors probe one administrator's row,
  `admins[0]` of an unordered query, and return when it exists, against
  `adherence-monitor.ts:162-164` ("if a new FIRM_ADMIN joins mid-week they still receive
  their first notification"); for the same reason a week's warning may be audited twice.
- *An administrator may miss an alert for good*: the monitors catch what one dispatch throws
  and end as "alerted" (`adherence-monitor.ts:256-266`), and the next tick asks about
  `admins[0]` alone.
- *The digest may go twice*: the mail precedes the row that prevents the repetition.
- *A fan-out that broke off is not resumed* where the sweep's own warning row is written
  first; an adherence row whose `ADHERENCE_SCORED` append fails is never escalated, and a
  draft's `DRAFT_STALE_WARNED` is never appended if its dispatch's append failed.
- *A second acknowledger overwrites the first* (`acknowledgedById`).
- *One send may be scored twice* if it is ingested before it is marked as sent, and two
  sends of equal body race for one candidate draft.

## 7 Not modelled

PROJECT.json lists every part with its reason. In short: what only reads (exports,
statistics, search, status page), what is one guarded update of one row with no other
writer, calls to external services (mail, messaging, language models), wording and UI,
arithmetic of display, and cryptography (a digest is a free constructor, a secret decrypts
or does not). Where an external answer decides - the judge, a webhook receiver, a mail
provider - the models take any answer.

Within modelled parts: the contents of guides and proposals and the chat that edits them,
the suspension of a guide whose conflict outlasts its grace, the kinds of notification
that other components send through `dispatchNotification`, the batch limit of the
delivery worker, API-key authentication, the synthesis of drafts from sent mail.

## 8 Plan

Done: `EventLog`, `AuditChain`, `DeliveryLedger`, `WebhookDelivery`, `CronHealth`,
`AuditVerify`, `FcgVoting`, `ApiIdempotency`, `MemberLifecycle`, `Termination`, `Sandbox`,
`Billing`, `AutoDraft`, `Channels`, `Notifications`, and their compositions; proofs of
every safety and action property that the passing runs check.

Next, by worth:

1. Proofs: what the liveness properties rest on that is safety - that the step they wait
   for is never disabled for good (the claim of a lost alert is open again after its
   window; a row in flight whose worker died grows stale and is reclaimed).
2. `Sessions`: touch, revocation and timeout; enrolment and recovery codes of TOTP.
   Property: revoked stays revoked, a code is consumed once.
3. Review of drafts by their owner: regenerate, edit, send, mark as sent, and the scoring
   of what is sent.
4. `MemberLifecycle`, second part: conflict grace and suspension of rules.
5. Sub-processor changes: announcement, objection, effect; meetings: disclosure, opt-out,
   transcript, approval.
6. A composition of `AuditChain` and `WebhookDelivery` on one `webhookDelivery` table: an
   event whose fan-out did not fail is delivered, or given up, or its subscription is gone.
