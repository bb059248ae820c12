# Verification of the customer control plane

TLA+ specifications of `src/controlplane`, model-checked with TLC and proved
with TLAPS. Paths below are relative to the repository root; module names are
files of this directory.

The program is a governed command plane. Sources report facts about customers;
agents propose actions on them; policy, consent and a second person decide; a
leased outbox in PostgreSQL carries each admitted action to an external receiver
exactly once per key, as far as that can be known; destinations are protected by
request permits and backlog limits; and a recovery gate keeps everything closed
after a restore until the control database and the receiver have been compared.

## 1. Inventory

| Component | State it keeps | Operations | Modules |
|---|---|---|---|
| Source governance (`service.ingest`, `service.link`, `policy.field_decision`) | `cp.customers`, `cp.identities`, `cp.events`, `cp.exceptions` | ingest, link | `Governance`, `Registers` |
| Action policy (`policy.action_decision`) | none (`POLICY` is fixed) | decide | `Policy` |
| Outbox (`service.propose/approve/resolve`, `worker.py`) | `cp.proposals`, `cp.jobs`, `cp.exceptions`, a worker's memory | propose, approve, acknowledge, requeue, claim, look up, prepare, dispatch, finish, defer | `Outbox`, `EffectLedger` |
| Synthetic receiver (`mock.py`) | `remote.effects`, `remote.plans` | POST and GET `/effects` | `Outbox` (all outcomes), `Recovery` (commit) |
| Destination capacity (`capacity.py`, `capacity.sql`) | `cp.capacity_state`, `cp.request_permits`, the request log | acquire, call, release | `Capacity` |
| Backlog admission (`capacity.check_backlog`) | `cp.job_routes`, with proposals and jobs | count under a lock, admit, readmit | `Admission` |
| Recovery gate and coordinator (`recovery.sql`, `recovery.py`, `operations.compare_receipts`) | `cp.recovery_gate`, `_sessions`, `_proofs` | begin, verify, approve, resume | `Recovery` |
| Transactions and migrations (`db.py`) | schema version | connect, migrate | the atomicity of the actions; `Bootstrap` (migrate) |
| Cloud bootstrap (`cloud.py`) | runtime secrets, database roles and their passwords | bootstrap, configure, verifier | `Bootstrap`, `Release` |
| Release controller (`release.py`), restore request (`restore.py`) | ECS services and one-off tasks, the restored instance | deploy, quiesce, verify, resume, rollback; restore | `Release` |
| Teardown plan and cleanup check (`teardown.py`, `cleanup_check.py`) | none | validate a plan, establish absence | `Teardown` |
| Native acceptance workflows (`native_run`, `native_retained`, `native_application`) | RDS instances and backups, claim, checkpoints and registry in S3 | run a task, choose a point, tag, register, checkpoint, delete, restore | `NativeController` over `NativeCloud` |
| Their one-off tasks (`native_tasks`, `native_app_tasks`) | rows of the two databases, the recovery gate | seed, advance, recover, verify | `NativeTasks` |
| Watchdog, inventory, guard scripts (`native_watchdog`, `native_inventory`, `native_arming`, `scripts/native_*`) | AWS resources of one run, the guard's schedule, bucket and key | initialise, deploy, cleanup pass, check, retire, audit | `NativeGuard`, `NativeRecovery` |
| Recovery laboratory (`recovery_lab.py`) | local processes and databases | start, stop, freeze, clone, propose, once | environment of `Recovery`; `NativeTasks` |
| HTTP API (`api.py`, `contracts.py`) | none | authenticate, validate, route | not modelled |
| AWS acceptance witness, diagnostics, cost and metrics, command line, acceptance drivers, the other Terraform | none | read, report | not modelled |

How they interact. API processes and workers share only PostgreSQL: every
operation is one transaction (`db.connect`), except `worker.execute`, which is
several (claim, prepare, finish) with network calls between them. A business
transaction takes the gate row `FOR SHARE`, by itself or through the triggers of
`recovery.sql`; the coordinator takes it `FOR UPDATE`. Advisory locks serialise
ingestion (83191), request ids and, per destination, admission. The receiver is
another database: nothing orders its commits with those of the control plane.

The release controller drives the same processes from outside, as ECS services
and one-off tasks: it sees only counts and exit codes, and the tasks configure
themselves from secrets that the migration task writes. The native workflows
drive a second, disposable runtime of two RDS databases; they and the watchdog
share nothing but AWS itself and the guard bucket, in which the controller
registers what the watchdog must find.

What is hard about it:

* workers crash or stall between any two of their transactions, leases run out
  under them, and a request that was given up commits later (`worker.py:82-143`);
* consent, revision, approval and expiry change between decision and dispatch;
* business transactions straddle the closing and the reopening of the gate, a
  restore brings back rows of an earlier incident (gate, session and approval
  included), receipts land during the comparison (`recovery.py:168-252`);
* the clock of the database may be set back, permits expire under their callers,
  failures overlap (`capacity.py:129-179`);
* approvals and admissions use different clocks and locks (`service.py:158`,
  `capacity.py:72`);
* deliveries arrive late, again, or changed under one id, and identities appear
  while others look for them (`service.py:17-47`);
* a release command fails or is killed between two calls, ECS rolls services
  back and calls that stable, and one-off tasks outlive their commands
  (`release.py:81-134`); a bootstrap is killed between two secrets or two
  databases (`cloud.py:83-172`);
* point-in-time restores cut to whole seconds, the source is deleted before its
  copy exists, and cleanup runs by the clock whatever the controller is doing
  (`native_application.py:30-69`, `native_retained.py:178-294`,
  `native_watchdog.py:57-167`).

`PROJECT.json` lists these under `hazards`, each at its line and with the
properties that would catch it going wrong.

## 2. Modules and the code

Comments in each module name the functions; `PROJECT.json` maps every definition
to its lines. Abstractions common to all: uuids are members of constant sets and
never repeat, JSON payloads are records of the fields that decisions read, a
hash is the value hashed, timestamps that only decide "has it passed" are
Booleans or sets, the audit trail (append-only, never read by the program) and
the metrics are left out. A call that raises rolls back and is no step.

**Policy** is `action_decision`: the reasons in the code's order.

**Outbox** follows `worker.execute` step by step. A worker's `phase` says which
transaction or call is next (`lookup`, `prepare`, `dispatch`, `await`,
`finish`); its `mutation`, `token` and `outcome` are local variables of
`execute`. `posts` are requests on the network: the receiver may handle one at
any time later, after its sender died, or never; `Mutate` is `mock.mutate` with
every injected outcome and answers only a sender that still waits. `Elapse` lets
a backoff or a lease run out. `lapsed` is auxiliary: the claims within a job's current
budget that took over an expired lease, which `claim` grants without looking at the
budget; no step reads it. `Crash` loses a worker's memory in any phase.
`Ingest` here only changes a customer's state and revision. Left out: a job whose
destination is misconfigured (blocked at once by `execute`), the cooldown
condition of `claim` (in `Capacity`), and an admission that capacity refuses
(no step; in `Admission`). `disturbances` counts crashes, stalls, deferrals,
requeues, refused calls and closures of the gate, and is bounded.

**EffectLedger** is what the outbox promises: one intent per key that never
changes, at most one effect, equal to it, success reported only after it.

**Recovery** has the gate as a readers-writer lock. `verdicts[w]` is what
connection `w` read under its shared lock, `tx` the coordinator's transaction
with its exclusive lock and what `_observe` has seen in it. `db` is the whole
control database, so that `Backup` and `Restore` copy gate, sessions and proofs
with the business rows; `generation` is `database_identity`, which a restore and
a server restart change. `version` stands for `fingerprint`: each business
commit has a new one. `unguarded` is the rule of the runbook that services stay
down between a restore and `begin` (unless the restored gate is closed already);
it guards `StartRuntime` only. A receipt may
land at any time, during the comparison too (`tx.late`). The form checks on
bindings and witnesses are left out.

**Capacity** is one destination. `acquire` is two steps because its first
statement takes the row lock and reads the clock, and the clock is read again
later: time may pass, or be set back, between. `silence` and `reads` are the
client's timeout as httpx implements it: each silence is bounded, their number
(`MaxReads`) is not by the code. `Die` leaves a permit behind. `quiet` is
auxiliary: the elapsed seconds of cooldown still owed. A clock that jumps forward
is not modelled; it would expire permits early.

**Admission** is one destination and the transactions of `propose` (both
decisions), `approve` and `resolve` past their checks, until they commit.
`passed` and `passedHost` are `expires_at` as seen by the database and by the
API host. `late` is auxiliary: jobs approved after their reservation had ceased
to count.

**Governance** splits `ingest` in two: the look-ups under the advisory lock
(`Begin`) and the decision with all its writes (`Apply`, `Create`, `SetAside`),
so that the lock matters; a changed redelivery is `Conflict`, an equal one
changes only the audit trail and is no step. `Link` is `service.link` with the
current revision as `expected_revision`. Owners, sources and the five stages are
the policy's own.

**Registers** is what ingestion promises: for each customer and field a register
that only its owner moves, to later observations, never back in lifecycle; every
delivery id decided once; every subject bound once, one per source and customer.

**Bootstrap** is the migration task of `cloud.py`, one secret write or one
transaction per step, killed anywhere. A secret's document is its password and
token, each named by the run that drew it, and the database its DSN points at.
`Steps` are the transactions on the two databases. Everything a run knows is in
`boot` and lost when it ends.

**Release** EXTENDS it. A command is the list of its remaining calls in
`cmd.todo` (`Calls`), so that every call is a step that may fail (`CallFails`)
and after every call the controller may be killed. `Raised` is the `except` of
`resume`: from the first service start on a failure is answered with the calls of
`quiesce`. `svc` has the desired state, what is up, the revision and its
predecessor, to which the circuit breaker goes back, and the secret document its
tasks started with. `Drained` does not see a task whose stop was requested,
because `list_tasks` is asked for `desiredStatus=RUNNING`; the operator is taken to
confirm that such a task has gone before the next command, as the error of
`utility` asks. `safe` is the set of control databases that agree with the
receiver: an effect removes the others, a restore may be behind, `Reconcile`
stands for the whole of `Recovery`.

**Teardown** has no state: `ValidPlan` is the loop of `validate_plan`,
`RowStatus` and `AllAbsent` the decisions of `cleanup_check.check`. `MCRelease`
states what they mean as two named assumptions, which TLC evaluates:
`PlanIsTheInventory` over all plans of up to three changes, each an exact
deletion or one that differs in one field, and `AbsenceIsEstablished` over all
answers that AWS may truthfully give about two resources.

**NativeCloud** is the part of AWS the workflows use, external to the
repository: instances that take time to appear and disappear, deletion
protection, the automated backup (active, then retained, or deleted with its
instance), restores from either to a whole second, one-off tasks, the other
resources by kind, and the guard bucket. `Gens` are the generations of control
databases; `behind` and `matching` are two uses of the one restored instance
name. A database is the set of business keys it holds.

**NativeTasks**: a task is the list of its committed steps, and may die before
any of them; `Outcome` is its result line and exit code. `Once` and `Propose` are
`recovery_lab.Runtime`'s; `Comparable` is what `Recovery` models in full.

**NativeController**: a workflow is the list of its calls (`Sql`, `Retained`,
`Application`). `Gate` is a step of its own before every call that changes AWS,
since the deadline may pass, or a task appear, after it. The controller may fail
anywhere, leaving a task behind, asked to stop or not; started again it knows
nothing (`Idle`), except what AWS and the bucket hold. `Launch` may be answered
with a task of the same client token. `points` is what the controller chose to
restore to, and with it what was there then: `QuiescentPoint` is the later of the
observed second plus two and the second after the earliest restorable one, which RDS
reports and the model leaves open. `Each` and `Both` are the two checks of the
databases: one after the other, or the exact regional set as well.

**NativeGuard**: a pass reads the registry, writes it back unconditionally,
lists, and acts on that listing later; `PassSweeps` is the whole of `cleanup_pass`
with at most one kind failing, with `Blockers` the code's order, `InUse` what AWS
refuses, and `RowOf` that a row names an instance, not a generation. Beside it
are the registry's initialisation, the deployment, the checker's reports, the
retirement of the guard in its three stages, and the audit of what is left.
`native_deploy.py` looks at its gate once (`DeployStarts`) and then applies for as
long as it takes, so that the deployment is a process of its own: a layer of
Terraform's graph per step and each database by itself, interleaved with passes,
also past the deadline, failing or killed anywhere and continued by another apply.
`deploy.unseen` is auxiliary: the databases it asked for between a pass's listing and
its sweep that no listing has seen since under a key that still stands.

**NativeRecovery** is their composition with the fairness and the properties.

The modules are composed by what they say of the same rows: the gate's modes in
`Outbox` are the two states whose alternation `Recovery` governs; `Outbox.Defer`
and `LookupFails` are what `Capacity` refuses; `Outbox.Propose` and `Requeue`
happen when `Admission` lets them; `Outbox.Ingest` is a processed delivery of
`Governance`, whose `RevisionCounts` is why a revision determines the state.

## 3. Runs

All runs use `CHECK_DEADLOCK FALSE`: each system may rest, when every job is
settled or a bound of the model is used up. Type invariants are proved (section 5) and not run
again.

| Run | Instance | Shows |
|---|---|---|
| `outbox_safety` | 2 workers, 1 request, 2 actors, revisions 0..1, 2 attempts, 2 disturbances | effects match the durable intent and are authorised, no identity conflict, success is true, a request in flight is marked uncertain, one requeue per dead letter, bounded attempts |
| `outbox_progress` | the same, 1 disturbance, `FairSpec` | withdrawal is final, leases are fenced, settled is final, `EffectLedger` is implemented, jobs settle |
| `outbox_uncertainty` | the same, violation | finding 1 |
| `recovery` | 1 key, 1 fact, 1 connection, 2 sessions, 2 proofs, 1 restore or restart, 4 writes | an approval belongs to its closing, a closed gate stops work, the reopening is current and reconciled, sessions are spent |
| `capacity` | 2 callers, 3 permits, 2 per second, 1 at a time, permits of 3 s, silences of 1 s, one further read, cooldowns 1 and 2, clock 1..4, one set-back | budget, concurrency, cooldown |
| `capacity_trickle` | the same with two further reads and clock 1..5, violation | finding 2 |
| `admission` | 4 requests, 3 connections, limit 2 | only late approvals overfill |
| `admission_overfill` | the same, violation | finding 3 |
| `release` | 2 approved revisions and a rejected one, 3 commands, 2 runs of the migration task, the 5 secrets in Terraform's order | an opened cluster runs what was asked for, one-off tasks run alone, the executor token survives interruptions, credentials agree, services run on a reconciled database; `Teardown`'s assumptions |
| `release_split` | 1 revision, otherwise the same, violation | finding 4 |
| `native` | all three workflows, one fault (a restart, a failed deletion or a cut-off pass), deletions of databases, backups, endpoints and subnets fragile | restores at their points, no effect from behind, the source given up safely, the key outlives its data, the guard outlives the runtime, a passed run has shown its claims, all comes clean (600 168 states) |
| `governance` | 8 deliveries of 2 sources for 4 subjects, 2 customers, 2 connections | provenance, no newer observation lost, revisions, one record per source, no double creation, refusals reviewed, `Registers` is implemented |

Why these bounds. The properties of the outbox are about one key: two workers,
a request in flight from an earlier attempt and two disturbances make every pair
(crash, stall, closure, requeue, deferral) happen to one job, and with two
attempts the budget runs out. Recovery needs two sessions so that one can be
spent and restored, two proofs so that one can be stale, four writes so that a
refresh, an admission, an authorisation and a result fit in one behaviour.
Capacity at its smallest legal budget has one slot for dispatches and one
reserved; three permits and a fourth second allow one to expire while others
live. Admission has two requests more than places, and a connection more than
can hold the lock. The eight deliveries contain each conflict by construction
(late, changed under one id, regressing, partly refused, same email twice, two
records of one source). That the properties of these components hold beyond them
is what the proofs say.

Release needs three commands, so that one can be left half done, one meet its
remains and one open the cluster, and two bootstraps, so that one is interrupted
and one finishes over it; a second approved revision is what a rollback goes back
to. In `native` the program of each workflow is fixed by the code, so that only
faults are bounded: one is enough for a restart over a half-done run or a
deletion that fails once, and a fragile kind of each sort is chosen: one that
holds data, its backup, one that disappears slowly and one that others wait for.
Time counts half seconds, the least that tells a commit before and one after the
cut apart; commits are at least that far apart. A run begins at half second 2
(`StartTimes`), so that the restorable window can begin before the observation as
well as after it, by up to two seconds (`MaxWindowLag` = 4), which is enough to
make the second operand of the maximum win. The proofs have no such bound.

Symmetry is used only for invariants and action properties, over sets whose
members no definition distinguishes, never with liveness.

Fairness (`FairSpec`): weak fairness of every worker's steps, since `worker.run`
loops for ever and the HTTP client and the database time out, and of `Elapse`,
since time passes. None is assumed of the receiver, the network, the API's
callers or the coordinator: `JobsSettle` supposes instead that the gate is open
from some time on, and disturbances are bounded.

`NativeRecovery` (`Spec`): weak fairness of what AWS has begun (instances and
endpoints settle, tasks asked to stop do), of the deadline, and of the passes
(`WF_watch(Pass)`: one that changes nothing but its own place counts as running).
The guard schedules a pass every minute after the deadline and lets the
schedule end an hour later, so that an unbounded number of passes is an
idealisation of sixty; failures are bounded by `MaxFaults`. Nothing is assumed
of controller, tasks or operator. `Release` states no liveness.

Each property of a passing run has a mutant in `PROJECT.json`: a plausible slip
in the mapped code under which TLC finds it violated. The mutants are the
operators marked `Mutant of` in the modules.

## 4. Findings

1. **Uncertainty lost** (`outbox_uncertainty`). A 429 finishes an attempt with
   `uncertain=False` (`worker.py:136`) though the request of an earlier attempt
   may still commit. An exhausted job then is a dead letter marked certain with
   its effect at the receiver; `docs/failures.md:27` says "Dead letter;
   uncertainty remains visible".
2. **Concurrency** (`capacity_trickle`). The timeout of `httpx.Client`
   (`worker.py:99`) bounds each silence, not the call. A response that arrives in
   pieces outlives its 30-second permit; `capacity.py:4-6` says permits outlive
   the client timeout and "This bounds client concurrency".
3. **Backlog** (`admission_overfill`). `approve` looks at the expiry once, by its
   host's clock and without the admission lock (`service.py:158`). If it commits
   after `check_backlog` has ceased to count the reservation, the backlog exceeds
   its limit; `docs/dependency-isolation.md` calls admission atomic and bounded.
4. **Half-rebound secrets** (`release_split`). `bootstrap` rebinds the secrets to
   a restored database one write at a time (`cloud.py:138-155`). Killed in
   between, it leaves the verifier's secret on the old database and the API's on
   the restored one. A later `resume` runs the verifier on the former
   (`release.py:117`) and opens the API on the latter, behind the receiver;
   `README.md:97` says "Missing intents, mismatched hashes and missing
   acknowledged receipts keep services closed". `deploy`, which runs the bootstrap
   to its end, closes the gap: `ServicesReconciled` holds after one that finished.

One more disagreement was met and needs no run: after "Late guard evidence
detected; archive again before finalization" (`scripts/native_finalize_guard.py:80`)
a second attempt raises at `delete_schedule` (`:66`), which the first has done.
`FinalizeStops` has this step.

## 5. Proofs

Each theorem holds for every value of the constants under the `ASSUME`s of the
component's module (bounds are naturals, `None` is no row, constant sets that are
counted are finite). Each module proves that an inductive invariant
holds (`Invariance`, `SafetyInvariance`, `GuardInvariance` and so on), and derives the
properties.

**OutboxProofs**: all properties of the outbox but `JobsSettle`, and
`ImplementsLedger`. `Inv` strengthens the invariants by what their preservation
needs. `WorkersBound` and `TokensFresh`: a current token has one holder, and the
next is new, so a fenced worker can tell. `JobsAuthorised`: a job exists only for
an allowed or approved proposal. `MutationCurrent`: as long as the customer has
the proposal's revision, the stored mutation is what would be computed now, hence
`mutation_changed` and identity conflicts are unreachable. `MemoryTrue`,
`ReceiptsTrue`, `OutcomesTrue`: what a worker holds in memory is true of the rows
or the receiver, though they may be another's by now. `AttemptsPaid`: apart
from one attempt for each lapsed lease, a waiting job has one left, which a claim may
charge, and a leased one has been charged one, which a deferral may give back.

**RecoveryProofs**: all properties. `Sound` describes a database and is kept for
the backup too, since a restore makes it the database. `Exclusion` and
`VerdictsHold` are the lock; `LockIsCurrent` and `SeenIsCurrent` say that what
the coordinator has read in its transaction still holds, but for receipts;
`OpenersAreSpent` that a session that opened the gate is current again only in a
later generation, whose identity it is not bound to.

**CapacityProofs**: all properties. Budget: windows are drawn from in order, so
`used` counts the newest and later ones are empty (`BucketsInOrder`), whatever
the clock does. Cooldown: `next_probe` is as far ahead as elapsed time asks
(`Hushed`). Concurrency holds under `Patient`, that a permit lives longer than
`(MaxReads + 1) * ClientTimeout`: the permit of a call under way has not expired
(`Covered`) and permits are counted. `Patient` is what the code does not enforce
(finding 2).

**AdmissionProofs**: what is bounded is `Claimed`, the backlog without late
approvals and the request that the lock's one holder is about to add.

**GovernanceProofs**: all properties and `ImplementsRegisters`. The lock makes
what was looked up true when it is written (`OneTransaction`, `LookedUp`); the
log has one entry per delivery id, of the subject's customer (`LogTrue`), and a
customer one subject per source (`Bindings`).

**ReleaseProofs**: type correctness of `Release` and `TokensSurvive`. A bootstrap
that is killed leaves what it has written, so the invariant speaks of every state
in between: a run holds in memory what is stored (`DocsStored`), has passed every
secret before it compares or rebinds (`Collected`), and what is stored has the
token the run has decided on at its start (`TokenKept`); that a fresh run picks
the survivor's token is then what `TokensSurvive` itself provides. It holds for
any list of runtime secrets that has those of all services
(`ReleaseAssumption`), in any order. `Unfinished`, that a command under way has
a call left, types the rest of its list.

**ReleaseSafetyProofs**: the other properties of `Release`. The code's order of calls
is the argument, so the invariant speaks of the rest of the list that a command
has left: `Linked` (each call follows the one it relies on: a task the drained
check, a verdict its launch, a steady service its start), `Proper` (whatever is touched is
steady in the end, the verifier is the last task, after the first start only
starts follow) and `Shut` (a command that does not open starts nothing). All hold
of every rest of such a list, so a step that takes the head keeps them. `CmdInv`
then has each service deployed or still to be waited for; `TaskInv` that a living
task has everything down and that the next call is not one that would start a
second; `DataInv` what the transactions behind `boot.pc` have left in secrets,
roles and schemas; `SafeInv` that the verifier's success is about the bound
database and outlasts what happens up to the opening.

**NativeProofs**: type correctness and all safety properties of `NativeRecovery`.
Workflows and tasks are lists of literals, so the proofs first tabulate them:
`ProgramAt` and `StepAt` say where each kind of call and step stands, and the
rest uses only that. `StepCases` sorts every step of the system into nine classes
by what it does to the run (aside, deadline, stopped task, task, start, failure, gate,
launch, advance), so that an invariant about the run does not meet the guard's
dozen actions. There are five inductive invariants.

* `GuardInv`: a listing may be old when it is acted on, but *absent* in it is
    still absent, since a controller's restore needs a database or a backup, but for
  what a deployment has added behind it (`OnlyUnseen` in `SweepView`); a retirement
  and a deployment exclude each other (`Deploying`, `RetiringAbsent`), and a workflow
  starts only on a complete deployment made before the deadline (`Unstarted`); after the
  guard no pass and no bucket is left (`Retired`); a log group goes after its
  archive (`LogsKept`); reported absence lasts (`Audited`).
* `EffectInv`: `SoleRun`, that an application run launches each task at most once
  in all its restarts, because the claim stops a second controller at its first
  call. From it follows that what a task has checked still holds when it writes
  (`Seeding`, `Advancing`, `Matching`) and that the source knows all effects but
  the matching database's own (`SourceKnows`). In the SQL workflows tasks may be
  repeated, and the argument is that the intent comes first (`IntentFirst`).
* `SourceInv`: beyond a place of the workflow what the calls before it recorded
  is in the bucket; before the deadline a working controller has no task stopping,
  hence what it does not see listed is not alive.
* `ResultInv`: reports outlive their tasks in `ran` and may be what a restarted
  launch is answered with, so they must stay true: the behind database is restored
  once in an application run, and before the deadline never deleted in the others
  (`BehindKept`, `BehindThere`), receipts only grow (`RemoteKept`), gates once
  closed or opened stay so (`BehindClosed`, `MatchingOpen`).
* `PointInv`: each commit is later than any observation before it (`Committed`,
  `Timely`), hence a point cut down to its second includes nothing newer
  than the observation, and with the two seconds of `QuiescentPoint`, or more when the
  restorable window begins later, nothing less (`Holds`); no commit follows until the
  point has passed, since the workflow waits for it; that the
  observation of a point is of the whole source needs
  `StillSource`, nobody writes between the task and the choice.

The theorems hold for any `MaxFaults`, any `FragileKinds` and any of the three
workflows, and use nothing of the fairness.

Only model-checked: `JobsSettle` and `EventuallyClean`, since liveness under
fairness is beyond the prover, and `Teardown`'s two assumptions, which quantify
over all small plans and answers. Every other property of a passing run is a
theorem. The four violated properties are refuted by their counterexamples.

## 6. What is not modelled, and the plan

Done, in this order: the outbox (the program's reason to exist), the recovery
gate, capacity, admission, governance; then the release controller with its
bootstrap, and the native acceptance runs with their guard; then the proofs of
all safety properties. Next, if the project is continued:

* the lock orders of propose, approve, resolve, prepare, finish and ingest
  (customer, proposal, job, advisory locks): deadlock freedom.

What the new modules suppose or leave out:

* one operator: the scripts and the release commands run one at a time, and a
  task whose stop was requested has gone before the next command or restart;
* of the native workflows: checks of account, credits, prices, headroom and
  timeouts are failures that may come at any call (`ControllerFails`); evidence
  files are facts (claimed, registered, prepared); manual snapshots, the owner
  secrets' rotation and the parameters of instances are left out, and a restored
  instance has no managed secret; the bootstrap task is one step there, in
  detail in `Bootstrap`; private checkpoints are used, as the docs ask;
* of the deployment: resources of one depth in Terraform's graph are one step, the
  databases apart; a resource is made only if what AWS looks up for it still stands
  (`Needs`), otherwise it stays missing and the apply goes on with the rest, and a
  continued apply does not make again what a pass has deleted; the extra
  headroom asked of an application run
  (`runtime_deadline_gate`, 9000 s and 900 s) is not used, so that a deployment of
  every workflow may outlive the deadline, as `sql-fixture-v1` may in the code;
  deployment and retirement of the guard are not run at once by their one operator;
  what RDS does with a key whose deletion is pending, and log groups that it makes
  anew, are left out;
* one race is the code's own and `KeyOutlivesData` exempts it: a database that a
  deployment outliving `cleanup_at` asks for between the listing of a pass and its
  sweep is encrypted with a key that this sweep may schedule for deletion
  (`native_deploy.py:121`, `native_watchdog.py:145-150`). The deletion
  of the key has a waiting period of seven days; later passes delete the database
  (`EventuallyClean`). Whatever a listing has seen under the key, and
  whatever a controller restores, is covered without exemption;
* of the guard: passes do not overlap (reserved concurrency 1) but may be cut
  off; a checker may write until the retirement has waited for the last one; log
  archives are one fact.

Left out for good: `api.py` and `contracts.py` (stateless checks at the edge,
whose effect is which operation is called with which arguments),
`aws_acceptance.py` and `native_diagnostics.py` (they read AWS and compare or
print), `recovery_cost.py`, the metrics and `__main__.py` (arithmetic, log lines,
argument parsing), `recovery_lab.py`'s scenarios, the acceptance drivers
(`isolation_*`, `recovery_acceptance`, `workload`) and Terraform but for the resources
of a deployment and the binding of a restored database, which exercise or
provision the program and decide nothing in it, and the archived copies of older
sources under `docs/evidence`.

Four hazards have no property. After a restart within a closed session no code
path reopens the gate (it fails closed, and the docs ask for an operator). At the
minimum of two requests per second a look-up and a dispatch may starve each other
depending on sub-second timing, which `Capacity` lacks. A second verification of a
workflow may be answered with the task of the first (`native_run.py:227`): the
model allows both answers and nothing it states depends on which. The retirement
of the guard cannot be repeated after late evidence, which fails safe.
