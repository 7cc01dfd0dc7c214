# A verification of the workflow runtime, event delivery and screens of kaori-ai

kaori-ai is a multi-tenant platform in which an enterprise draws a workflow, a server
runs it, and the run pauses for the persons who must consent to what it does. People
meet it through one single-page frontend, in several tabs at once and over a network
that loses answers. This directory holds TLA+ models of the parts of it whose order of
steps decides whether they are correct, the TLC configurations that check small
instances, and proofs, checked by TLAPS, for instances of every size.

Contents: 1 inventory, 2 plan, 3 modules, 4 properties, 5 runs, 6 fairness,
7 proofs, 8 findings, 9 what is left out.

## 1. Inventory

| component | state it keeps | operations | how it meets the others |
|---|---|---|---|
| run state machine (`workflow_runtime/state_machine.py`) | `workflow_runs.status` | `transition_workflow_status`: lock, compare, update or raise | called by the runner only; endpoints update the column directly |
| runner (`runner.py`, `state_store.py`) | `workflow_run_nodes`, and in memory `prior_outputs`, `resolved_approvals`, the position in the order | `create_run`, `run`, `resume_after_approval`, `run_in_background` | reads the rows of an earlier walk, calls executors, the saga, the event store |
| saga (`compensation.py`) | none of its own; rows of the event log | `run_compensation_chain` | called by the runner on failure and by the stop endpoint |
| run endpoints (`workflow_builder.py`, `dlq_console.py`) | - | start, approve, reject, stop, replay | each schedules, resumes or overrides a run |
| approval gate and SLA sweep (`executors/approval.py`, `approval_escalation.py`) | `workflow_approvals` | upsert of a pending row, chain levels, threshold; escalation | row written by the gate and the oversight check, read by the endpoints and by the next walk |
| `send_email` (`executors/external.py`) | `notification_outbox` | select by `source_ref`, insert | the notification poller sends the row |
| loop regions (`runner.py`) | `loop_context` | `_execute_loop` | runs its body inside one visit of the walk |
| event store, replay, reconciler | `workflow_events` | append, project, compare with the rows | every writer of a run appends after it wrote |
| idempotency records, `call_api` | `workflow_idempotency_records`, a cache in each worker | `get_or_set`, `record_outcome` | an executor asks before it calls out |
| contracts (`routers/contracts.py`, `contract_lifecycle.py`) | `contracts`, `contract_parties`, `contract_signatures` | draft, send, sign, reject, expire | the last signature resumes the run that waits |
| tenant quotas (`shared/tenant_quotas.py`) | `tenant_quota_usage`: a counter per window | lock or insert, compare, add | called before start, replay and model calls |
| event outbox and publisher (`shared/outbox.py`) | `event_outbox` | insert in the business transaction; claim a batch with row locks, send, mark | one publisher in each process of two services, over one table; PostgreSQL to Kafka |
| direct producer (`shared/kafka_producer.py`) | - | `send_event`, without a row and without a key | what every producer of this commit still uses |
| consumers (`pipeline_consumer.py`, `gold/consumer.py`) | `processed_events`; in Kafka the committed offset of the group | validate or dead-letter, `mark_processed`, handle or start a task, commit | two groups; Kafka to PostgreSQL |
| notification outbox poller (`outbox_poller.py`) | `notification_outbox` | claim, send, mark sent or failed | writes mail that `send_email` asked for |
| gateway idempotency filter (`IdempotencyFilter.java`) | Redis keys | look up, forward, store | in front of every service |
| sessions (`AuthService.java`) | in Redis the current refresh token of a user and the ids of those used | login, refresh, logout, revoke | the gateway trusts its access tokens; the frontend exchanges its refresh tokens |
| auth-service: workspaces, billing, alerts | user, workspace and billing rows | one transaction per request | - |
| job leases (`JobLeaseService.java`, `OrphanJobSweeper.java`) | `job_leases` | acquire, heartbeat, release, sweep | around the scheduled jobs of auth-service |
| upload and bronze ingestion (`data-pipeline/routers/upload.py`, `bronze/`) | `pipeline_runs`, `bronze_files` | look for a duplicate, promise a run, ingest in the background, answer for its status | behind the gateway filter; emits the events of the outbox |
| silver and gold | two layers of tables | clean, aggregate | started by a person or an event |
| LLM gateway; memory, documents, reports, analytics | various | requests | consumers of the rest |
| frontend: workflow builder page (`60-workflow-detail.tsx`) | a copy of the workflow, edits not sent yet, a timer per card | edit, add, delete, bind, move, change the state, reload | PUT of one card, GET of the whole tree |
| frontend: session helpers (`lib/api.ts`, `lib/api/client.ts`, `p2/foundation.tsx`, `shell.tsx`) | a pair of tokens in `localStorage`, a promise of a refresh per page and helper | request, refresh, login, logout | all tabs share the storage |
| frontend: chat panel (`useChatStream.ts`) | the conversation, an open stream | send, abort, reset, a handler per frame | the chat endpoint, which keeps no conversation |
| frontend: upload page (`20-data-pipeline-step-1-upload-file.tsx`) | a list of files and their state | add, hash, send all, poll, remove | gateway filter and upload endpoint |
| frontend: analysis run page (`fnew-analysis-run-detail.tsx`) | the run shown, an interval timer | read, poll, refresh, approve | a run that goes on by itself |
| frontend: the other pages | what a form holds | read once, write once | - |

Where it is hard:

* *Interleaving.* A run has no owner. Every endpoint that touches it is a
  coroutine, on one of several workers, and nothing prevents two walkers of the
  same run: the same POST twice, an approval while the first walk is still
  pausing, a replay of a run that is not as dead as it looks.
* *Atomicity.* A walker makes each write in a transaction of its own. Stop,
  approve and replay read without a lock what they update later.
* *Stale memory.* A walker decides from the outputs and approvals it loaded at
  its start.
* *Failure.* A write that fails after its retries is swallowed and the walk goes
  on; an append of an event is swallowed too; the oversight check fails open;
  an executor can fail after its effect got out; a worker can die at any await.
* *Two systems.* A message and the mark that it was sent, or handled, live in
  Kafka and in PostgreSQL. Each may be lost without the other, and Kafka may give
  a message to another member of the group while the first still works on it.
* *Copies on a screen.* The builder shows a copy that edits change at once and
  reloads replace; requests overtake each other; handlers of several clicks run
  side by side; a closure keeps the state of the render that made it.
* *One token, many holders.* Three helpers in every tab refresh one session, each
  on its own, while another tab logs out.
* *Repetition.* A run is walked from the start after every pause and every
  replay, and must not do again what it did.

The file `PROJECT.json` lists each hazard at its line, with the properties that
would be violated if it went wrong.

What makes each component correct:

* the run as a whole: nothing reaches the outside before the persons who must
  consent have; nothing reaches it twice; what is taken back had been done; the
  run goes where its edges lead; it ends or it waits;
* the event log: its projection agrees with the rows, up to the writes that the
  code declares best effort;
* idempotency records: at most one caller performs the call;
* outboxes: each committed event is handled, and handled once; a mail is sent once;
* contracts: the last signature completes the contract, whoever gives it;
* quotas and leases: the limit is not passed, one holder at a time;
* sessions: a refresh token makes one pair; a session ends when it was ended, and
  only then;
* the builder: what was typed last is what is saved, and is not taken off the screen;
* the upload page: what it shows as uploaded has been ingested, and it shows an end;
* the chat panel: a question is posted with the conversation that is seen;
* the analysis page: the end of a run is shown, and stays shown.

## 2. Plan

Order of the modules, most important behaviour first.

1. **`RunStates`, `WorkflowRun`** - one run, its walkers, endpoints, gates and
   saga. *Done.* Proofs in `WorkflowRunProofs`. *Done.*
2. **`EventOnce`, `EventDelivery`** - producers, publishers, Kafka with
   redelivery and rebalances, consumers, tasks and the processed-events table;
   the abstract specification, each event handled at most once and only after its
   transaction committed, and the proof that the detailed one implements it.
   *Done.* Proofs in `EventDeliveryProofs`. *Done.*
3. The screens, each with what it talks to, as modules that share no state:
   `WorkflowBuilder`, `BrowserSession`, `ChatStream`, `UploadQueue` (with the gateway
   filter and the upload endpoint), `RunWatch`. *Done.* Proofs for the first four.
   *Done.*
4. The components of the backend that stand alone: `MailOutbox`,
   `ContractSigning`, `CallLedger`, `JobLease`, `TenantQuota`. *Done.* Proofs for
   all five. *Done.*
5. `RunOrder`, `WorkflowLoop` - the visiting order (Kahn's algorithm as the code
   has it, with keys that do not match) against the order by edges; the inline
   execution of a loop body, which passes no gate and no oversight. *Open.*
6. `EventStore` - `project_state`, `replay` and the reconciler, composed with
   `WorkflowRun` through the log: which rows the projection can rebuild. *Open.*

Every invariant of the passing runs is now the subject of a theorem; what is left to TLC
is liveness (section 7).

## 3. Modules

| module | what it is |
|---|---|
| `RunStates` | statuses, the transition graph of a run, `Transitioned` |
| `WorkflowRun` | the model: state, actions, specification, properties |
| `MCWorkflowRun` | the workflows and requests that TLC uses |
| `WorkflowRunProofs` | the theorems about `WorkflowRun`: types, consent, terminal statuses |
| `WorkflowWalkProofs` | and about its walks: repetition, routing, compensation, waiting, overlap |
| `EventOnce` | the abstract specification of event delivery |
| `EventDelivery` | producers, publishers, Kafka, consumers; properties; the refinement mapping |
| `MCEventDelivery` | the groups, topics and members that TLC uses |
| `EventDeliveryProofs` | the theorems about `EventDelivery` |
| `WorkflowBuilder`, `WorkflowBuilderProofs` | the builder page and the rows it edits |
| `BrowserSession`, `BrowserSessionProofs` | the tokens of a person in several tabs, and the server's side of a refresh |
| `ChatStream`, `ChatStreamProofs` | the chat panel |
| `UploadQueue`, `UploadQueueProofs` | the upload page, the gateway filter, the upload endpoint and its background task |
| `RunWatch` | the page of an analysis run |
| `TenantQuota` | the counter of a quota |
| `ContractSigning` | the signatures of a contract |
| `MailOutbox` | the poller of the mail outbox |
| `CallLedger` | `call_api` and its ledger |
| `JobLease` | the lease of a scheduled job, its heartbeats and its sweep |
| `LedgerProofs` | the theorems about `MailOutbox`, `CallLedger`, `JobLease`, `ContractSigning` and `TenantQuota`, whose rows all say what has been done already |
| `MCScreens` | one instance of each of the ten, played as scenes |

### State of `WorkflowRun`

| variables | code |
|---|---|
| `status` | `workflow_runs.status` (`"none"` before the row exists) |
| `row`, `class`, `out` | `workflow_run_nodes`: `status`, `side_effect_class`, and of `output_data` the part the walk reads, the branch taken |
| `approval`, `level` | `workflow_approvals`: one row for each pair of run and node |
| `log` | `workflow_events` of the run, restricted to the types in `Logged` |
| `pc`, `todo` | where a coroutine is: the place of its next decision, and the writes it makes before that |
| `job` | whether it walks under `run_in_background` or under `resume_after_approval` |
| `pos`, `seen`, `resolved` | the loop of `run()`: the node, `prior_outputs`, `resolved_approvals` |
| `pick`, `undo` | locals of `approve_workflow_run` and of `run_compensation_chain` |
| `fired`, `undone`, `owed`, `consent`, `signed`, `faults` | history, which no guard reads except where it stands for rows outside the run: `fired[n] > 0` is the existence of the outbox row of a `send_email` node |

### Actions of `WorkflowRun`

A process is one HTTP request. FastAPI runs a background task in the coroutine of
its request after the response, so a start or a replay becomes a walker, and an
approval becomes a resumer. An action is one transaction, one look at the
database, or one executor; between two actions any other process may step, as it
may at every `await` of the code and as it does on another worker.

The walk visits the nodes `1..N`. They are numbered in the order the code visits
them, which is that of `(sequence_order, node_id)`: `topological_order`
(`runner.py:155`) looks the ends of the edges up as strings among identifiers
that are UUIDs, finds none, and so orders nothing by edges. An edge of the model
may therefore point backwards.

At a node the walk does exactly one of: pass it because an earlier walk completed
it (`PassPrior`), skip it because no arm reaches it (`SkipDead`), pass or fail a
gate that was decided (`PassApproved`, `FailRejected`), pause for oversight
(`AskOversight`, `PauseForOversight`), or run its executor (`Proceed`, then
`GateLetsThrough`, `GatePauses`, `EffectFires`, `DedupHit`, `DedupMiss` and
`DedupInsert`, `PureCompletes`, `DecisionTaken`). The writes that follow are
queued in `todo` and made one at a time (`DoStatus`, `DoRecord`, `DoEmit`), so
that any other process can step in between.

`Disturb` collects what goes wrong: a lost write, a lost event, a definition that
does not load, an interrupted or crashed coroutine, an unknown executor, a check
that fails open, an executor that fails before or after its effect, a decision
that names no branch, a compensation that fails. `Faults` names the kinds an
instance allows and `MaxFaults` their number; a proof has both arbitrary.

### Abstractions of `WorkflowRun`

* Node outputs are `"done"`, or the arm of a decision. A `switch` is a decision
  with two arms: `matched_case` matters to the walk only as a token of an edge.
* The policy engine of a gate is a choice between its outcomes.
* The role checks of the endpoints, the quota check before a start or a replay,
  and the cached answer that replay keeps for one Idempotency-Key are left out;
  they only make requests fewer, and `Requests` bounds those.
* The race of two starts between SELECT and INSERT is decided by the unique index
  on the key, so `StartRun` is one action.
* An executor is one step that fires its effect and returns; `send_email` is two,
  because its SELECT and its INSERT are what can be interleaved.
* A saga handler is one step; what it does is outside the run.
* The resume by the last signature of a contract and the start of a run by another
  run are not modelled: to the run they are one more resumer or walker.

### State of `EventDelivery`

| variables | code |
|---|---|
| `outbox` | rows of `event_outbox`: pending until `published_at` is committed; for an event that is sent directly, whether its transaction committed and whether it was tried |
| `batch`, `sent` | of each publisher, the rows that its open transaction holds locked: still to be tried, and marked |
| `topic`, `committed`, `owner` | of each group, the messages it is subscribed to, its committed offset, and the member they are assigned to |
| `pc`, `pos`, `msg` | of each consumer, where its loop is, its position, and the message in hand |
| `tasks` | what `asyncio.create_task` left running |
| `processed` | `processed_events` |
| `handled`, `parked` | what the handlers did, and what the dead-letter topics got |
| `faults`, `struck` | history, for the bound and for the premises of properties |

### Actions of `EventDelivery`

`CommitBusiness` is the commit of a transaction that wrote a row, or of one that a
`send_event` is to follow (`SendDirect`, `LoseDirect`). A publisher opens a
transaction and locks a batch (`Claim`), sends the rows by age (`Send`,
`SendFails`) and commits all marks at once (`EndBatch`); if it dies in between,
what it sent stays sent (`RelayDies`). A consumer polls and validates (`Poll`,
`DeadLetter`), marks (`Mark`, `SkipDuplicate`), does the work or leaves it to a
task (`HandleInline`, `HandleSpawn`, `RunTask`) and commits its position
(`Commit`). Mark, work and commit are actions of their own because they are
transactions of their own: a crash, a rebalance or another member may come in
between. The two loops differ where their code does: what follows a dispatch that
raises (`DispatchFails`, `ParkFailed`, `ParkFails`) and a commit that raises
(`CommitFails`).

Kafka is modelled from how the consumers use it (`Assign`, `Revoke`, `Release`,
`CommitNothing`): one live member reads what the group is subscribed to, from the
committed offset on, and may lose it at any time.

### Abstractions of `EventDelivery`

* The partitions that a group reads are one sequence. One loop reads all of them,
  and `commit()` without arguments commits all positions, which is what matters
  here; the order between partitions is that of appending.
* Events are numbered by `created_at`. Of a payload only its kind matters: whether
  the schema accepts it, whether it has a key, whether its handler spawns a task.
* The several tasks that one message may start are one. A handler that raises
  has done nothing: the KPI handler runs in one transaction, which is rolled back.
* The columns `attempts` and `last_error` decide nothing, and are left out.
* An answer that was lost is a choice: a send that raised may have got through
  (`SendFails`), a mark that raised may have been committed (`DispatchFails`).

No producer of this commit calls `enqueue_event`: the outbox, its publishers and
`mark_processed` run, and wait for the producers to be moved to them, while the
events in use are sent directly. Instances have events of both kinds (`Keyed`).

### The ten components of `MCScreens`

**`WorkflowBuilder`.** `tree` and `selected` are the React state, `pending` and
`timer` the two refs of the debounce, `puts` and `loads` the requests in flight,
`saved` the rows of the server, `ops` the handlers under way, each with the place of
its next `await` and what it captured at the click (`old`: the open end, the
selection, or the target on the screen). A value of a field is the number of the edit
that typed it. `Edit` is `updateCard`, `FlushTimer` a timer that fires, `FlushAll` the
flush with which add and delete begin, `ClickBind` with `DropEdge` and `BindEdge` the
function `setBranchEdge`, `ClickReload` a change of state or a move. A load reads
(`LoadReads`), lands or fails, and what it selects may start another load (`Finish`),
as the effect on `loadTree` does, because `loadTree` depends on the selection.
`latest`, `unsent`, `asked` and `mishaps` are history. `mishaps` notes what may cost
an edit in this design: a failed request, two requests of one card in flight together,
an edit or a binding made on a screen that had gone back behind the person's own work.

**`BrowserSession`.** A pair of tokens is a number. `storage` is `localStorage`;
`flight` has a refresh per `Holder`, which is what runs one refresh at a time: a helper
in one tab, since two of the three keep one promise per page, or one request of axios,
which refreshes for each. A request that is denied waits for its holder's refresh or
starts it (`Denied`); the exchange is one step per call of Redis (`CheckStored`,
`BurnToken`, `StoreNew`), as in `AuthService.refresh`; the answer lands in a page that
lives (`Granted`, `Refused`) or is gone (`Dropped`). To assign `window.location.href`
only begins to load the login page (`Leave`): until the old page is unloaded (`Unload`, a
step of its own, of the browser) its requests are denied, its refreshes are answered and
write to the storage as before. A client-side push (`LogoutByPush`) unloads nothing.
`loggedOut` notes whether a living page, that of the logout included, had a refresh in
the air at the last logout, and `cutOff` whether the server was in the middle of an
exchange at the last revocation. Access tokens expire in the order of their minting.

**`ChatStream`.** `captured` is the conversation that the function `send` closes over:
it is made anew in a render where the status changed, and only then (`Render`). A
message is the turn, the role and whether it has text.

**`UploadQueue`.** `item`, `queue` and `running` are the page; `posts` the requests on
their way through the gateway (`LookUp`, `Answer`) and the endpoint (`Handle`);
`cache` the answers the gateway replays; `run` the runs that were promised, with the
state of their background task. The content of a file is its hash, and the key of a
request is the content, or the file's own where it cannot be hashed. Keys do not
expire within an instance (they live 24 hours), and a run that is "ok" stays "ok": the
event that ends an ingestion is assumed to pass its schema, since the ingest marks a
run failed when it cannot build that event.

**`RunWatch`.** `server` is the run, `shown` and `polling` the page, `reads` the GET
requests in flight, which may overtake each other. "done" stands for "error" as well.

**`TenantQuota`.** A call is a transaction of `check_and_consume`: it computes its
window, locks the row or finds none (`LockUsage`, which waits while another call holds
the row), and then refuses or adds. `raced` notes the windows that two calls opened
together.

**`ContractSigning`.** A send, a signature and a rejection are transactions that read the
status first (`BeginSend`, `BeginSign`, `BeginReject`) and write later without a condition
(`CommitSend`, `CommitSign`, `CommitReject`); a signature reads the parties in between
(`ReadParties`). Nothing is locked, so a late send puts even a contract that is in effect
back to waiting. The signature that completes the contract leaves behind a background task
of its request, which resumes the run (`ResumeRun`) or dies with its worker
(`ResumeLost`). `crossed` notes that two of these transactions were open together. The
contract of the model is one that a run waits for, since another has nothing to resume.

**`MailOutbox`.** A poller claims a batch and commits, which gives up the row locks
(`Claim`), and then sends (`SendMail`) and marks (`MarkSent`, `MarkFailure`) row by
row. Time is whether the backoff of a row is over (`BackoffEnds`). `doubled` notes the
rows that two pollers had claimed, or that were sent and not marked.

**`CallLedger`.** `entry` is the row of one key in `workflow_idempotency_records`, `known`
the workers whose in-process cache has the answer, `attempt` where each execution of the
node is: about to ask the ledger, about to call, about to keep the outcome. `calls` is
what the partner saw. `unguarded` notes that an attempt went on without a row that it had
reserved itself: the row of another was still pending, the ledger could not be reached,
or the row had expired. `Lapse` bounds what fails.

**`JobLease`.** Time is in beats, the period of the heartbeat; a day begins at 02:00,
when every pod fires the job (`due`), and has its sweep in its first beat (`sweeps`).
`lease` is the running row, of which a unique index allows one, with the beats it has to
live; `work` is who runs the job, which the lease is to keep to one. A pod has one thread
for its scheduled jobs, so its sweep waits for the job it runs, and threads of its own
for starts by hand. `missed` notes the days whose job met a lease that nobody worked
under, `lapsed` that a lease expired under its runner.

`MCScreens` gives each component a small instance and plays one of them per behaviour,
its *scene*. They share no state, so nothing is lost by that, and one run covers all.

## 4. Properties

Each is stated in words above its definition. In groups:

* *consent* - `ConsentBeforeEffect`, `OversightBeforeEffect`, `EveryLevelSigned`,
  and `ConsentInv`, the inductive invariant behind them;
* *repetition* - `EffectOnce`, `DedupOnce`, `CompletedFiresNoMore`;
* *routing* - `RoutedAsDrawn`, `OneArm`;
* *saga* - `UndoneWasFired`, `CompletedKeepsEffects`, `StopUndoes`;
* *life of the run* - `TerminalLeftByRequest`, `WaitingHasNode`, `RunSettles`,
  and, violated, `EndedStaysEnded`, `DecisionTakesEffect`;
* *types* - `TypeOK`.

And of `EventDelivery`:

* *sending* - `PublishedInTopic`, `ResentOnlyAfterFault`;
* *handling* - `OnceSpec` (the refinement of `EventOnce`) and `OnceInv`, the
  inductive invariant behind it;
* *delivery* - `Delivered`, and `CommittedWasDispatched`, which is violated;
* *types* - `TypeOK`.

Of the ten components of `MCScreens`:

* *builder* - `SettledIsSaved`: when nothing is left to send, the database has the last
  edit of every field; `PendingHasTimer`: no unsent edit is left without a timer;
  `FlushBeforeReload`: the reload that ends an add or a delete takes no edit off the
  screen; `ArmBoundOnce`: a branch leads to one card; and `PendingKeepsEdits`, which is
  violated;
* *session* - `TokenExchangedOnce`, `BouncedForAReason`, `LogoutIsFinal`,
  `RevokedStaysRevoked`;
* *chat* - `HistoryIsVisible`;
* *upload* - `ShownIsIngested`, `UploadsEnd`;
* *analysis run* - `AnalysisSettles`;
* *quota* - `PassedWithinQuota`; *contracts* - `CompleteTakesEffect`, and
  `SignedInOrder`, which is only proved; *mail* - `SentOnce`;
* *calls to partners* - `CalledOnce`; *leases* - `OneRunner`, `OrphanCostsTwoDays`.

Most of these have a premise, and the premise is the point: it names every way in which
the code lets the promise go, and the property says there is no other. For the builder
the ways are those in `mishaps`; for a session, a lost answer, two holders with one
token, or a person who logs in, out or on elsewhere; for a logout, a refresh in the air of
any page that is not unloaded, that of the logout included; for a revocation, an exchange
that is past its check; for the
chat, a conversation cleared at rest; for an upload, a duplicate of a run that is still
ingesting (`early`); for a quota, two calls that open a window; for a contract, two
requests that cross; for a mail, a row claimed twice or sent and not marked; for a call, an
attempt that goes on without a row of its own; for a lease, one that expires under its
runner. The mutant
of each property shows that a plausible slip in the code breaks it with the premise in
place. Each premise is also a hazard in `PROJECT.json`, at its line. A property with a
premise says nothing of what happens where the premise fails. What does is listed in section
8, and named beside the hazard in `PROJECT.json`: there the property does not catch the
hazard as it bites, but shows that this is the only way.

`Delivered` is conditional on the failures that the code survives (`Survived`): of
the relay, of the assignment and, in the orchestrator, of the commit. The others
lose an event: a dispatch that raises or a crash between mark and work (finding 5), a crash
before a task has run, a dead letter that is lost, the end of the
aggregator's loop. They occur in `delivery`, and are listed as hazards.

Of `WorkflowRun`, some hold only of runs of a restricted kind, and their run has that kind:
`EffectOnce` for a run started once and never replayed, since an effect without
deduplication is rightly fired again by a replay; `RoutedAsDrawn` and
`WaitingHasNode` where no write is lost, since a lost record is lost;
`CompletedKeepsEffects` with one walker until an approval adds a resumer;
`DedupOnce` without a duplicate start (finding 1).

## 5. Runs

| run | instance | what it shows |
|---|---|---|
| `walk` | six nodes: an effect, a decision, a two-level gate before an effect on one arm, an effect on the other, a join; one start, two persons, one stop; at most one failure of an executor, of a decision or of the SLA; about 5 thousand states | a run is routed as drawn, over all its pauses and walks; it fires nothing twice; it is resumed only with both signatures; a stop undoes what was recorded; and under fairness it settles |
| `recovery` | an e-mail, a gate with a threshold, a call; one start, one decision, one replay, one stop; two faults of nine kinds; about 250 thousand states | failure and replay never bypass consent, never repeat a deduplicated message or a completed effect, and undo only what was done; type correctness where every kind of write is lost |
| `crowd` | a two-level gate and a high-risk effect; a start and three more requests of any kind; one fault of five kinds; about 290 thousand states up to symmetry | the inductive invariant, with several walkers of one run, several approvers of one gate, stops and replays racing them |
| `duplicate` | two e-mails; the same start twice | `DedupOnce` is violated: finding 1 |
| `stop` | one start, one stop, one replay, one failure | `EndedStaysEnded` is violated: finding 2 |
| `order` | three nodes, the last visited before its predecessor | `RoutedAsDrawn` is violated: finding 3 |
| `resume` | one start and one decision | `DecisionTakesEffect` is violated: finding 4 |
| `delivery` | two keyed events and one malformed and direct; two publishers with batches of two; a group of two members and one of one; one failure of nine kinds; about 340 thousand states up to symmetry | nothing is marked published that is not in the topic, nothing is sent twice without a failure, nothing with a key is handled twice by a group: `EventOnce` is implemented |
| `settle` | two keyed events, one publisher, two members; two failures of four kinds; about 48 thousand states | `Delivered`: two failures one after the other still lose nothing |
| `lost` | two events, one member, one dispatch that raises | `CommittedWasDispatched` is violated: finding 5 |
| `screens` | ten scenes; for the builder four cards of which two are decisions, one edited, two fields, two acts of the person after the first edit and one failure; for the session one user, two tabs, one helper per tab, three pairs of tokens and two moves; three turns of a chat; two files of one content; two reads in flight; three calls in two windows; three parties of which two are in parallel, and two sends at once; one mail, two pollers; three attempts of a call on two workers; two pods over four days; 306 thousand states | the 18 properties of the screens and of the components behind them |
| `stripped` | the builder alone | `PendingKeepsEdits` is violated: finding 6 |

*Bounds.* For delivery, two events are the least for a batch with a second row and
for a commit that covers an earlier message; two publishers and two members are
the least that compete for a row and for a message. One failure of any kind in
`delivery` reaches every failure path, since `ParkFails` counts as one with the
dispatch that failed before it; two in `settle` let a failure hit its own recovery.
For workflow runs, three nodes are the least that put an effect before and after a gate;
six are the least with two arms, a chain, and a join over both a node before
the decision and one on an arm. Four requests let a walker, a resumer and two
rivals meet; each violation found of a run needs at most three. Two
faults let a loss be followed by the failure that replays it. `Logged` is empty
where no property reads the log, since an event that is not kept is a stutter;
in `recovery` it keeps one type, so that losing an event, and the abandoned saga,
do happen. `Faults` differs between the runs so that between them each kind
occurs. Deadlock is not checked: a run that has ended, or waits for a person, is
meant to stop.
For the screens: a first edit waits in every initial state of the builder in the sense
that its value is on the screen and in the database; two acts more are the least for an
edit and an operation, or for two operations that race, and every property of the
builder is broken by its mutant within them; the builder alone with three cards,
three acts and no failure (687 thousand states) has no error either, and is not kept
because it adds nothing but time. Three pairs of tokens let an exchange follow an
exchange, or a login. Three requests over two holders let two wait for one refresh while
another page refreshes by itself. Two files of one content meet as duplicates; one of
them cannot be hashed, so that the gateway's cache and the endpoint's own look-up are
both exercised. `MaxPolls` is 2 where the page has 150: only that there is a last poll
matters. The amounts of the three quota calls are 1, 1 and 2 against a limit of 3: any two
fit and all three do not, so that after one call has opened the window the other two each
fit and together do not; then only the row lock keeps the second from passing the limit,
and the mutant that reads without it breaks `PassedWithinQuota` in a window that is not
`raced`. Two sends at once (`MaxSends`) are the least for a late one. Three attempts of
one call, two of them on one worker, with two failures let a retry meet each state of
the row, in the worker that knows the answer and in the other. Two pods, a lease of
three beats in days of four, four days and two failures: a lease can be left behind on
one day and freed on the next but one, with a day to spare, and two lost heartbeats let
a lease expire under its runner. The real day has
72 beats; only that a lease is shorter than a day matters, and the theorem about the
lease has both arbitrary. `CHECK_DEADLOCK FALSE` because the bounds end the scenes, and because
a builder, an uploaded list and a signed contract are meant to rest.

*Symmetry.* `crowd` permutes the three requests that may ask for anything; it
checks no liveness.

## 6. Fairness

`FairSpec` has weak fairness of `Step(p)` for each process: a coroutine that has
been started and can run is run by its event loop. Nothing is assumed of
`Request` (nobody has to approve), of `Disturb`, or of the SLA sweep. `Step` is
enabled continuously from the request to the end of the coroutine, because no
coroutine waits for another, so weak fairness is enough. `RunSettles` counts
waiting for a person as settled.

`FairSpec` of `EventDelivery` has weak fairness of each publisher loop (`Relay`),
of each consumer loop (`Consume`) and of its tasks, which are coroutines of a live
event loop; of `SendDirect`, which follows the commit in the same handler; of the
assignment, since the coordinator gives unassigned partitions to a live member;
and, within `Consume`, of `Restart`, since the services are restarted by their
orchestrator. Nothing is assumed of `CommitBusiness` or of `Disturb`. A publisher
is disabled only when no row is free, and then another one holds it. Weak
fairness is enough, since only a failure disables a step of a loop, and
failures are bounded.
`FairSpec` of `MCScreens` has one weak fairness condition, over the steps that no person
decides: in the upload scene the way of a request through gateway and endpoint
(`Progress`) and the poll of a file's status (`Tick`), in the scene of the analysis page
the interval timer and the answers to requests that were sent. Timers of a page that is
open fire, and a request that was sent is answered or fails. Nothing is assumed of the
background task of an ingest, which may die without a trace, nor of the run that the
analysis page watches, nor of any person. It is one condition, not one per file or read,
because only one scene is played and every such step brings its end nearer: `MaxPolls`
bounds the polls, and reads that land free their slot. The property of the analysis page
allows "pending" as its end because the page stops asking there; an answer that old may
arrive last, and the page then waits for its person.

## 7. Proofs

`WorkflowRunProofs` assumes only `WorkflowAssumption`: the sets of nodes are sets
of nodes, gates are not effects and decisions are neither. The number of nodes,
the edges, the requests, the faults and their number are arbitrary.

| theorem | states |
|---|---|
| `TypeCorrect` | `Spec => []TypeOK` |
| `ConsentCorrect` | `Spec => []ConsentInv` |
| `ConsentFirst` | `Spec => []ConsentBeforeEffect` |
| `OversightFirst` | `Spec => []OversightBeforeEffect` |
| `ChainSigned` | `Spec => []EveryLevelSigned` |
| `TerminalLeft` | `Spec => TerminalLeftByRequest` |

*The argument for consent.* `ConsentBeforeEffect` relates what got out to what
persons decided, and is not inductive: a walker fires an effect because of what
it remembers, not because of what the rows say now. `ConsentInv` therefore says
that every copy of a decision is backed by a consent that was given: a completed
row of a gate (`RowsBacked`), an approved row (`ApprovalsBacked`), the outputs and
approvals a walker loaded (`SeenBacked`, `ResolvedBacked`), the record it is about
to write (`TodoBacked`), the gates behind its position (`WalkBacked`) and, in a
high-risk workflow, the effect it is about to fire (`ExecuteBacked`). For chains,
the level a row has reached and the level an approver picked are backed by the
signatures below them (`LevelsBacked`, `PicksBacked`): two approvers who race on
one level may set it back, and sign a level twice, but never pass one unsigned.
Consents and signatures only grow, so what was backed stays backed (`SafeGrows`,
`StillBacked`), and no row or memory that is lost, reset or overwritten can break
an implication whose conclusion persists. That is why the invariant survives any
number of concurrent walkers and any fault.

*Layout.* For each group of actions (writes, requests and handlers, visits,
executors, saga, interruptions) one lemma for types and one for consent, with a
step for each action; above them `TypeNext` and `ConsentNext`. Actions that share
an ending share a lemma (`LeaveTyped`, `MoveTyped`, `PassedTyped`, `LeaveBacked`,
`MoveBacked`, `PassedBacked`); the sequences of queued writes are handled once, in
`CodePaths` and `SafePaths`.

`TerminalLeft` needs types only: of the writers of `status`, a walker goes through
`Transitioned`, which has no edge out of a terminal status; a start writes only
where there is no row; a rejection only where the run waits.

`WorkflowWalkProofs` assumes the same, and each theorem names what else it needs.
`Forward` says that no edge points backwards in the visiting order (finding 3 is what
happens otherwise). `OneWalker`: no two processes walk the run, or have writes of a walk
left, at the same time. `OneInsert`: no two executors are between the look-up and the
insert of the same node's message. `OneDecider`: no two persons are between the approval
they picked and the check that follows it. `Losing` is the set of faults that lose a
write, an answer or a process. `Hindering` is the set of those a stop cannot make up for:
a worker that lacks a node's type, a worker that dies, a handler, an append or a write
that fails.

| theorem | on the condition that | states |
|---|---|---|
| `OnlyFiredUndone` | | `Spec => []UndoneWasFired` |
| `OneMessage` | `[]OneInsert` | `[]DedupOnce` |
| `CompletedFiresOnce` | `[]OneWalker` | `CompletedFiresNoMore` |
| `RepeatsCostFailures` | `[]OneWalker` | each effect is fired at most `1 + faults` times |
| `FiredOnce` | `[]OneWalker`, no fault of `Losing` | `[]EffectOnce` |
| `CompletedAsDrawn`, `OneArmTaken` | `[]OneWalker`, `Forward`, no write lost | `[]RoutedAsDrawn`, `[]OneArm` |
| `WaitingRunHasNode` | `[]OneWalker`, no write lost | `[]WaitingHasNode` |
| `CompletedIsKept` | the same, `Forward`, nobody replays | `[]CompletedKeepsEffects` |
| `StoppedIsUndone` | `[]OneWalker`, `Forward`, no fault of `Hindering` | `[]StopUndoes` |
| `NoOverlap` | `[]OneDecider`, one start, nobody replays, no interruption, no write lost | `[]OneWalker` |
| `CarefulRun` | `[]OneDecider`, one start, nobody replays, `Forward`, no fault of `Losing` | `EffectOnce`, `OneArm`, `RoutedAsDrawn`, `WaitingHasNode`, `CompletedKeepsEffects` |

*Why the walks must not overlap.* A walker decides by what it loaded when it began
(`prior_outputs`), and nothing makes it look again: no row is locked and no update is
conditional on what was read. Two walks of one run may therefore fire an effect twice, and
TLC shows how two come about: a start that is sent twice (finding 1); two persons who
approve the last level at once, so that both resumes pass their check; a walk that is
interrupted in its saga while a replay is about to write, and still has to release the
row. The premise is on the behaviour because the code does not rule it out;
`NoOverlap` says what does. It holds in every behaviour of `walk`, where each
person can sign once and both signatures are needed.

*The argument for repetition.* What is known of a step of the walk is stated once, as a
relation between the process before and after it (`ShedStep`, `PauseStep`,
`CompleteStep` and so on; `WalkSteps` says that there is no other kind), so that each
invariant is proved over a dozen kinds of steps, not over fifty actions.
`ShapeOf` says what may be queued where: a record is always the first of the writes that
wait, and concerns the node behind the walker. `SeenKept` is then the invariant behind
`CompletedFiresOnce`: a walker that is past loading has seen every completed row ahead of
it, because nobody else could have completed one since; so it passes them. `BoundInv`
adds the count: an effect whose completion is neither recorded nor queued was fired at
most as often as there were failures, because only a failure takes a walker from an effect
without recording it. Where `Losing` is excluded the other failures come before the effect,
and the count is zero.

*The argument for compensation* (`FiredInv`): a row is completed, or about to be, only for
an effect that was fired, and a saga undoes completed rows. It holds with any number of
walkers, because neither `fired` nor what was queued is ever taken back.

*The argument for messages* (`DedupInv`): who is about to insert has found no row, and as
long as it is the only one, still would. This one needs no single walker.

*The argument for routing.* `RouteInv` describes the rows of a run as a prefix: nodes
before a recorded one are all decided, each decided one is completed exactly if it is
reached from those before it (`RowsRouted`), and the memory of the walker is what the rows
say, up to the one record that it has queued (`SeenRouted`, `PendRouted`). `Forward` is
needed for `ReachedAgrees`: whether a node is reached depends only on those before
it. A lost record breaks the prefix, which is why no write may be lost.

*The argument for waiting.* `WaitInv`: whoever is about to write that the run waits has
recorded the node that waits, with its approval (`Waits`), and the run leaves
"awaiting_approval" before a walker touches that node again (`Starts`).

*The argument for completed runs.* `SettleInv`: a saga compensates only in a run that is
failed or cancelled, since its walker writes "failed" before it looks for what to
compensate, and from there only a replay leads back.

*The argument for stops.* A saga leaves out a node whose row was inserted under another
class than its own, which is how a skipped node, or one without an executor, is inserted;
`upsert_run_node` never changes the class. So a node that one walk skipped and a later one
ran would be owed and never compensated: `OwnClass` says that there is none, and rests on
`RouteInv` (what was skipped stays skipped), hence on `Forward` and on no lost write. Then
`OwedInv` follows the obligation: what a stop owes was completed, stays completed
(`CompletedStays`), and is undone already or awaited by a stop on its way through
"stopundo", "saga" and "undo" (`Undoes`), whose saga finds all of it. A stop has no walk
of its own (`job[p] = "none"`), so the interruption of walks may be allowed; replays,
rejections and further stops may race it.

*The argument against overlap.* `SoloInv`: a walk is a start's, and there is one start, or
a resume's; a resume was let in by an approval that was pending, one node at a time is
pending (`OnePending`), and while one is, nobody walks: the walker that asked for it
leaves in the same step. Whoever decides is the only one who does, so that after an
approval nothing is pending until the resumed walk asks again (`DecidesAlone`). A
resumer that finds the run waiting finds its walker gone, since the status is the last
thing the walker wrote (`BeginsWaiting`, which rests on `WaitInv`). It was found by
TLC, as an invariant of the instances of `walk` and `recovery`, before it was proved.

`EventDeliveryProofs` assumes only `DeliveryAssumption`: that the constants are sets of
events, groups and members, and that a batch is not empty.

| theorem | states |
|---|---|
| `TypeCorrect` | `Spec => []TypeOK` |
| `Published` | `Spec => []PublishedInTopic` |
| `HandledOnce` | `Spec => []OnceInv` |
| `SentOnceWithoutFault` | `Spec => []ResentOnlyAfterFault` |
| `Implements` | `Spec => OnceSpec` |

*The argument for at most once.* That `handled[g][e]` is at most 1 is not
inductive: a second handling is prepared by a message in hand, or by a task. `OnceInv`
says where work may be. Whoever is to work on an event with a key has it in hand
after the mark, or in a task (`Busy`), and then the event is marked and not handled
yet (`WorkMarked`); it is in one of the two places, once (`WorkOnce`), of one
member of the group (`WorkAlone`); and what is handled is marked (`DoneMarked`).
Only `Mark` begins work, and only on an event that is not marked, for which by the
same invariant nobody is busy and nothing is handled. So a redelivery, to the
same or another member, finds the mark. `WayBacked` adds that whatever is in a
batch, a topic, a hand or a task was committed by a producer. Most steps neither
begin work nor do it (`Quiet`, `QuietSteps`, `KeepWork`); `MarkBegins`,
`PollBegins`, `SpawnMoves` and `DoingOnce` treat the others. `WorkStep` also says that
a step handles no event with a key, or one for the first time, and `OnceSimulates`
maps the former to a stutter or an `Offer` and the latter to a `Handle`.

*The argument for publishing.* `PublishedInTopic` becomes inductive with
`SentInTopic`: what a publisher has marked in its open transaction has been sent.
Topics only grow (`TopicGrows`), so a rollback costs nothing but a resend.

*The argument for sending once.* `HandsInv`, through every failure: the rows that a
publisher has in hand are pending and in no other hand. `TopicInv`, until the first
failure: what is in a topic is in the hand of the publisher that sent it, marked, or is
published; so neither a publisher that takes the next row of its batch nor a direct send
appends an event that is there already.

The five modules of proofs about the screens and the components behind them assume only
the named assumptions of the modules they extend; the sets of cards, tabs, holders,
parties, pollers and so on, and every bound, are arbitrary.

| module | theorem | states |
|---|---|---|
| `WorkflowBuilderProofs` | `BuilderTyped` | `BuilderSpec => []BuilderTypeOK` |
| | `EditsAreSaved` | `BuilderSpec => []SettledIsSaved` |
| | `TimersRun` | `BuilderSpec => []PendingHasTimer` |
| | `BoundOnce` | `BuilderSpec => []ArmBoundOnce` |
| | `ReloadKeepsEdits` | `BuilderSpec => FlushBeforeReload` |
| `BrowserSessionProofs` | `SessionTyped` | `SessionSpec => []SessionTypeOK` |
| | `ExchangedOnce` | `SessionSpec => []TokenExchangedOnce` |
| | `StaysRevoked` | `SessionSpec => []RevokedStaysRevoked` |
| | `LogoutStays` | `SessionSpec => []LogoutIsFinal` |
| | `NotBounced` | `SessionSpec => []BouncedForAReason` |
| `ChatStreamProofs` | `HistoryShown` | `ChatSpec => []HistoryIsVisible` |
| `UploadQueueProofs` | `ShownWasIngested` | `UploadSpec => []ShownIsIngested` |
| `LedgerProofs` | `MailSentOnce` | `MailSpec => []SentOnce` |
| | `PartnerCalledOnce` | `CallSpec => []CalledOnce` |
| | `OneRunnerAtATime` | `LeaseSpec => []OneRunner` |
| | `FailureCostsTwoDays` | `LeaseSpec => []OrphanCostsTwoDays` |
| | `WithinQuota`, `CountsWhatPasses` | `QuotaSpec => []PassedWithinQuota`, `[]CounterExact` |
| | `InOrder` | `SigningSpec => []SignedInOrder` |
| | `CompletesOnce` | `SigningSpec => []CompleteTakesEffect` |

*The argument for the builder.* An edit is on its way from the keyboard to the database,
and `EditsSomewhere` says where: the pending patch of a card has its last edits, or
nothing is pending and the one request in flight has them, or neither and the row has
them. It holds as long as no premise has been broken, and there it is the single request
per card that matters. `CardsKnown` is needed because a new card must find no edits of
its own: whatever is shown, loaded, pending or in flight belongs to a card that exists
or did.

*The argument for branches* (`ArmInv`): while no bind was stale, one bind at a time is
under way per decision, the screen it was asked on showed the edge that is there, and it
draws its own edge only when that one is gone. No other step draws from a decision: an
addition appends to a card that is none.

*The argument for reloads* (`ReloadInv`): an addition or deletion is clean if nothing was
in flight at its click, nothing was typed since and no premise was broken. Until its load
has read the database, nothing is pending and what is in flight is what it sent itself,
which its flush waits for (`SentByItself`); so at the read `EditsSomewhere` leaves only
the database for the edits, and the tree that was read has them all (`LoadedClean`).
Edits are numbered as they are typed, so whether something was typed is known from
`typed` (`TypedBefore`), and only the answer to its one load ends an operation that waits
for it (`LoadOfOne`, `Landing`).

*The argument for the session.* `BurntFirst` gives the uniqueness of an exchange: who
stores a new pair has burnt the old token, and who burns it is the only one. For
`BouncedForAReason` the invariant must describe an undisturbed session completely
(`OneRefresh`): at most one refresh is in the air, of the token in the storage, which is
the one in Redis until that refresh is granted, and not burnt unless it is that refresh
that burnt it. `CutOffIsOut` adds to the revocation that nobody is past the check.
`NothingInAir` adds to the logout that no page which is not unloaded has a refresh, the
one being left included: with an empty storage a request that is denied starts none, so
that it stays so through the unload, and what the server still grants is dropped.

*The argument for the chat* is that the conversation `send` holds differs from the one
on the screen only by error bubbles whenever the panel can be asked, unless it was
cleared (`ChatInv`).

*The argument for contracts.* `Ordered`: who may sign comes after all who come before,
and signatures are never taken back. `AloneKnowsAll`: a transaction that never met
another knows every signature and finds the contract as it read it, so that the last
signature completes it, and a send is the only one and finds a draft. What it leaves to a
background task is said as such: a contract that is complete without a crossing is in
effect, and its run is resumed, or the task is still to run or died (`Resuming`, `Lost`);
it cannot have been forgotten.

*The argument for mail.* `ClaimedOnce`: a row that was not doubled is in one batch at
most, in none once it is marked, and was sent only if it is marked or about to be.

*The argument for the upload.* A page learns of a run from an answer, the answer from the
endpoint or from the gateway's cache, and the cache from the endpoint. `UploadInv` gives
each of them the set of things that may be said there (`Items`, `Replies`, `Posts`), and
each set allows to say of a run only that it was promised, that it is vouched for by a
duplicate, or that it is done. Runs are never taken back (`Lasting`), so what may be said
once may be said for good, however late it arrives or how often it is replayed.

*The argument for calls.* `OwnRow`: while no attempt went on without a row of its own, the
one that reserved the row is the only one that calls, it calls first, and the row is not
free again.

*The argument for leases.* `RunnerHolds`: who runs the job holds the lease, and the lease
has life left, as long as none expired under its runner; a sweep takes only a lease
without life. For the cost of an orphan the invariant counts the days ahead (`CostInv`):
the days missed, and those that the lease left behind may still cost if nothing else goes
wrong (`Owed`), are two per failure at most. Such a lease costs today, if a cron is yet to
come, and one day for every morning on which it is found before a sweep that finds it
expired; since its life is shorter than a day that is two in all (`OwedAtMostTwo`), and
whoever skips its job for an expired lease is free to sweep it, or fails (`BeatCosts`).

*The argument for quotas.* The total of a set of callers is the number of the units they
take (`Units`), so that adding a caller needs only the cardinality of a union, no
recursion (`TotalAdds`). `CounterExact`: the counter of a window is the total of what it
let through, always. Who found the row holds it, and what it saw is still there
(`FoundIsHeld`), so its comparison is with the counter it adds to. Who found no row
compared with zero, and that is still right as long as it is alone in a window that has
no row yet (`AloneWithout`), which is what not being `raced` means. A raced window can
pass its limit, but even there no increment is lost.

*Model-checked only:* the liveness properties (`Delivered`, `RunSettles`, `UploadsEnd`,
`AnalysisSettles`), which are out of the prover's reach.

## 8. Findings

1. *One key, two walks* (`duplicate`). `start_workflow_run` schedules a walk
   whether it created the run or found it, and no unique index backs the look-up
   of `send_email`. `runner.py:36` and `external.py:11` say otherwise.
2. *Ended, and not ended* (`stop`). Replay updates the status without a condition, after
   it looked, so that a stop in between is undone: this is what the run shows. Stop does
   the same (`workflow_builder.py:2831`): without a replay, TLC finds a run that
   completed after the stop had looked, and is cancelled and compensated.
   `state_machine.py:55` says a terminal run is immutable, `state_machine.py:14` that
   endpoints must not update directly, and `test_workflow_run_stop.py:11` has 409 for it.
3. *Order without edges* (`order`). See section 3. `runner.py:678` relies on the
   order by edges; a node placed before its predecessor is skipped.
4. *A decision too early* (`resume`). The gate commits its row before the run is marked as
   waiting. A rejection in between is recorded and its UPDATE does nothing, since the run
   still runs (`workflow_builder.py:2773`); an approval in between is recorded and its
   resume is refused (`runner.py:1314`). Either way the run then waits for good at a node
   that is decided. `workflow_builder.py:2690` promises the resume, and line 2691 that a
   rejected run fails terminally.
5. *A failed dispatch, committed by its successor* (`lost`). When `_dispatch`
   raises, the loop commits nothing and takes the next message; its `commit()`
   commits the position, which covers the failed one. `pipeline_consumer.py:37`
   and `:97` promise that the offset stays behind and the message comes again. The
   aggregator has the same loop for a dead letter that could not be written
   (`gold/consumer.py:89`). With a crash in place of the failed dispatch the same property
   is violated in another way: the mark is committed before the handler runs
   (`pipeline_consumer.py:127`), so that after a crash in between the message comes again,
   is skipped as a duplicate, and is committed. `outbox.py:40` has mark and work in one
   transaction.
6. *An unsent edit is stripped by a reload* (`stripped`). The comments of `updateCard` and
   `flushPatch` (`60-workflow-detail.tsx:283` and `:268`) say that a reload between edits
   cannot strip a field that was not sent. Three of the four editors send the whole
   configuration that the screen shows, and it wins over the pending one. A field is
   edited; a load that was read earlier lands, as after every opening of the page, which
   loads twice, or after a change of state or a move, which do not flush; another field
   of the card is edited: the second edit carries the old value of the first, and the
   first is lost from the screen and from what will be sent.

What else was met while modelling, without a run of its own. Most are the premises of
properties, and each can be seen by dropping the premise:

* *Logout.* It empties the storage, tells the server nothing, and lets refreshes go on: one
  that is answered before the old page is unloaded (`shell.tsx:216`), in a page that was
  only pushed to the login, or in another tab, writes its tokens back (`lib/api.ts:53`),
  although the comment at `shell.tsx:205` takes care that no usable token is left
  (`loggedOut` in `LogoutIsFinal`).
* *Revocation.* One that lands between the check and the store of a refresh is undone by
  that refresh (`AuthService.java:236`), although line 288 says "Invalidate all existing
  sessions" (`cutOff` in `RevokedStaysRevoked`).
* *Refresh.* Of two refreshes with one token the loser is refused, and its page ends the
  session that the winner has just refreshed (`Rivals` in `BouncedForAReason`).
* *Contracts.* Two parties that sign at once may leave a contract with every signature and
  without effect. Send and reject write what they decided on a status they read before
  (`contracts.py:169` and `:241`): a second send may put a contract that was refused, or is
  in effect, back to waiting, which the machine of `contract_lifecycle.py:3` has no edge for
  (`crossed` in `CompleteTakesEffect`). The resume of the run is a task in memory
  (`contracts.py:220`), and nothing repairs its loss, although the docstring of
  `sign_contract` promises the resume (`Lost` in `CompleteTakesEffect`).
* *Quota.* `FOR UPDATE` locks no row that is not there: the first two calls of a window may
  together pass the limit, which `tenant_quotas.py:18` excludes (`raced` in
  `PassedWithinQuota`). A quota of the period "rolling" limits nothing: its window starts a
  minute before the call (`tenant_quotas.py:92`) and usage is found by the start of its
  window, so each call has a row of its own.
* *Mail.* The claim commits before the rows are sent, so a poll that outlasts the backoff
  meets another that claims the same rows, and both send, although `outbox_poller.py:14`
  says that each replica claims a distinct slice (`doubled` in `SentOnce`).
* *Calls.* A retry of `call_api` that meets a pending row calls again (`action.py:265`),
  although `get_or_set` says of such a row that its caller is to treat it as cached
  (`idempotency_store.py:175`); so does every retry after an answer from 500 on, or after
  a worker that died (`unguarded` in `CalledOnce`).
* *Upload.* A file is answered as a duplicate, and shown as processed, while the run it
  duplicates is still ingesting, although `upload.py:164` takes that run to be complete
  (`early` in `ShownIsIngested`); a run whose process died in "uploading" blocks its content
  for good. The gateway caches the promise of an ingest, not its end: after the ingest has
  failed, sending the same content again replays the promise of the failed run for 24 hours
  (`IdempotencyFilter.java:130`).
* *Branches.* A branch that is bound again before the screen has reloaded after the first
  bind leads to two cards: the edge to drop is looked up on a screen that does not show it
  (`60-workflow-detail.tsx:359`; `staleBind` in `ArmBoundOnce`).
* *Oversight.* A check that fails open counts as consent, as the code says. A second walker
  may set an approved oversight row back to pending (`runner.py:1115`), and a person is
  asked again; nothing is fired for it, so it violates nothing.
* *Chat.* The panel keeps, after it was cleared at rest, the old conversation in `send`: the
  next question still carries it (`posted.cleared` in `HistoryIsVisible`).
* *Leases.* A pod that dies at 02:00 leaves a lease that lives until 03:00, so the sweep of
  02:15 cannot see it, although `BillingAggregationJob.java:36` and
  `OrphanJobSweeper.java:54` say that it does. The job of the next day meets it and
  skips; only then is it swept. A pod that dies shortly before 02:00 in a start by hand
  costs two days (`OrphanCostsTwoDays`).

## 9. What is left out, and why

*Planned, and open.* Loops of a workflow and the computation of its order; the event
store with its projection and reconciler.
The graph of node statuses in `state_machine.py` is left out because no service calls the
function that enforces it.

*Left out of modelled components.* The path of a file that is attached to a workflow card
(it is ingested before it is answered); expiry, liquidation and renegotiation of a
contract (one write each); lockout, MFA, reset by mail and the sessions of the platform
portal, which have a key each; the period "rolling" of a quota; answers of 4xx in the
gateway's cache; the BPMN, tree and report tabs of the builder page, which share no
state with its edits.

*Not suited to a model of this kind.* Data transformation (cleaning, aggregation,
prompts, parsing of YAML, BPMN and spreadsheets); one transaction per request over its
own rows (users, workspaces, OKR, billing, alerts); adapters, deployment and scripts;
the schedules that Temporal keeps.

*The rest of the frontend* is by far the larger part of its lines. It is markup and
style: forms and lists that read once and write once, and the 30 screens in
`components/platform/templates`, which are static mock-ups with their data in the source
and which no route imports. They keep no state that two steps could get wrong, and a
model of them would be a copy. The share of the frontend's lines that the definitions
stand for is small for that reason; what has state, timers, requests that overlap or a
server on the other side is modelled, page by page, above.
