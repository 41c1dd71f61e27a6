# A TLA+ verification of fusions

fusions is a Rust toolbox for services: an application core (`fusion-core`), a PostgreSQL
access layer (`fusion-sql`), a message queue (`fusion-mq`), adapters for AI providers
(`fusion-ai`), web and RPC middleware, and `hetuflow`, a workflow engine on PostgreSQL.
This directory holds TLA+ modules for the parts with behaviour over time, TLC
configurations that check them on small instances, and TLAPS proofs.

Contents: 1 Inventory · 2 Modules and their code · 3 Runs · 4 Fairness · 5 Proofs ·
6 Where code, comments and expectations part · 7 Not modelled · 8 Plan

## 1. Inventory

### hetuflow

| Part | State | Operations | Hard behaviour | What makes it correct |
|---|---|---|---|---|
| Engine: `hetuflow-service/src/service.rs` over `hetuflow-sqlx/src/lib.rs` | `workflow_instances`, `activity_instances`, timers, outbox rows, event log | `start`, `signal`, `resubmit`, `fire_timer`, `on_notification_delivered`, `on_business_callback_delivered`, `on_outbox_dead_letter` | orders of signals, timers and deliveries nobody wrote a test for; joins, rework rounds, resubmission; late answers; transactions that interleave statement by statement | never stranded, decided once, joins fire once and whole, callback only after approval, nothing left open, the log determines the projection |
| Start idempotency: `start`, `insert_instance_on_conflict` | partial unique index on the business key | insert, read the existing row, commit, roll back | callers race with each other and with status changes | one active instance per key, honest answers, everybody is answered |
| Outbox dispatcher: `hetuflow-service/src/worker.rs` | outbox rows with status, lease, attempts | poll, deliver, settle, retry, dead letter | several processes, lease expiry in mid-work, crash between delivery and settle, a follow-up that fails | settled once, followed up once, attempts within budget, settled in the end |
| Timer poller: `worker.rs` | `fire_at` of pending timers | poll and fire | a timer races the answer it guards, or another poller | covered with the engine |
| Decision core: `hetuflow-runtime/src/lib.rs` | none | `decide_start`, `decide_advance`, `decide_event_wait_timeout`, `resolve_target` | routing chains, cycles, depth guard, fan-out | decisions are defined for every accepted definition |
| Validation and lint: same file | none | `validate_definition`, `lint_definition` | must agree with what the decision core does | an accepted definition errs in known cases only; lint follows the runtime |
| Replay: `hetuflow-runtime/src/replay.rs` | none | `fold_events`, `diff_projection` | events coarser than the updates next to them | the folded log is the live projection |

Calls: the host application calls `start`, `signal` and `resubmit` in its own
transaction; the two workers open transactions of their own and call `fire_timer` and the
`on_…` methods. The engine talks to the dispatcher through outbox rows written in the
transaction that causes them, and the dispatcher back to the engine through the follow-up
that runs in the settling transaction. Every operation appends to the event log.

### The rest of the workspace

| Part | State and operations | Hard behaviour | What makes it correct |
|---|---|---|---|
| `fusion-sql`: `dbx_postgres.rs`, `dbx_sqlite.rs`, `model_manager.rs` | transaction holder with depth and savepoints; `begin_txn`, `commit_txn`, `rollback_txn`, `transaction`, `read_transaction` | failing savepoints, aborted transactions that COMMIT "successfully", lost connections and answers, dropped futures, reused savepoint names | depth follows the closures; what failed leaves nothing; Ok means committed |
| `fusion-mq/src/postgres/mod.rs` | `event_queue` rows; `publish`, `claim_pending`, `mark_processed`, `mark_failed`, `reap_zombie` | a reaped worker still marks; crash between claim and mark; lost answer of a claim | attempts within budget, exclusive handling, a settled event stays settled, nothing waits for ever |
| `fusion-ai/src/llm/usage_batch.rs`, `metered.rs`, `wire_openai_compat.rs` | bounded channel, writer task, loss counters | full channel, failing, lying and panicking writes, drain at shutdown | every loss is covered by the metrics; duplicates only from unclear writes; the writer drains |
| `fusion-ai/src/graph_flow` | sessions with a current task and a context; `FlowRunner::run`, `get`, `save`, `delete` | overlapping requests of one session, failed and timed out tasks, late children of a fan-out, skipped upserts | a stored session is what whole steps lead to; an acknowledged step stays |
| `fusion-ai/src/providers/dashscope/fun_asr.rs` | event stream, segments, uplink pump, websocket | two tasks and a provider that may say anything in any order; deadlines; endless uplinks; dropped consumers | the transcript holds what was shown; session and pump end |
| `fusion-core/src/application.rs`, `component/mod.rs` | plugin and component registries, shutdown pair behind a mutex, hooks | build order out of hash maps; concurrent registrations; shutdown against those who still ask about it; failing hooks | what can be built is built; Ok keeps its place; hooks run last and in order; shutdown ends |
| `fusion-web/src/middleware/rate_limit.rs` | token buckets under one lock | refill in floating point | one critical section per request, no interleaving |
| other providers, `fusion-rpc`, `fusion-security`, `fusion-storage`, `fusion-mail`, `fusion-weixin`, `fusion-common`, macros | requests, signatures, data types | remote errors | no protocol state of their own |

These parts meet at narrow places: hetuflow runs in the transactions of `fusion-sql`
(`HetuflowTxn` takes the rules of PostgreSQL, `FusionTxn` the wrapper), a host's plugins
register pools, providers and servers with the application, and its servers take their
shutdown receivers from it. `PROJECT.json` lists every component with its status, and
under `hazards` the lines where the hard behaviours bite, each with the properties that
watch it.

## 2. Modules and their code

```
HetuflowGraph  <-  HetuflowDefinition  <-  HetuflowWalk   <-  MCHetuflowWalk, HetuflowWalkProofs
                        ^
HetuflowReplay  <-  HetuflowEngine  <-  MCHetuflowEngine, HetuflowEngineProofs
                    HetuflowTxn     <-  MCHetuflowTxn,    HetuflowTxnProofs

HetuflowLedger  <=(implements)=  HetuflowOutbox  <-  MCHetuflowOutbox, HetuflowOutboxProofs
                                 HetuflowStart   <-  MCHetuflowStart,  HetuflowOutboxProofs

FusionTxn         <-  MCFusionTxn,         FusionTxnProofs
FusionApplication <-  MCFusionApplication, FusionApplicationProofs
FusionMq                               <-  FusionMqProofs
GraphFlow         <-  MCGraphFlow  \
AiUsage                             }  <-  FusionAiProofs
FunAsr            <-  MCFunAsr     /
```

**HetuflowGraph** is the decision core: `Resolve` is `resolve_target`, a tail recursion
written as a walk of at most `MaxResolveDepth` + 1 visits with the visited set of the
code; `DecideStart`, `DecideAdvance` and `DecideEventWaitTimeout` are the functions of
those names; `IsSatisfied` and `SkipsRemaining` are `JoinStrategy`'s. A definition is a
record of nodes, configurations and edges. A context is one value of a small set; a CEL
guard is the set of contexts where it holds and the set where it fails to evaluate, and
the items of a `for_each` are a count per context.

**HetuflowDefinition** is `validate_definition` and `lint_definition`, one operator per
node kind. Checks of texts (empty ids, template codes, CEL syntax) have nothing to check
in these records.

**HetuflowReplay** is `fold_events` and `diff_projection`. As the fold goes from left to
right, a writer can keep the folded projection instead of the log.

**HetuflowEngine** is one instance under `WorkflowService`. State: `inst` (the instance
row), `acts` (activity rows in creation order with their pending timers), `intents`
(unsettled outbox rows), `facts` (what later transactions read back from the log: fan-out
counts; plus which joins fired, for the properties), `replay` (the folded log). Each
operation is one action and one transaction; the transaction is a record that the
service's own steps transform in their order (`Schedule` is `schedule_activity`, `Finish`
is `complete_activity`, `AdvanceTo`, `SpreadOut`, `HandBack`, `TryJoin`,
`CompleteInstance` and `FailInstance` are the arms of `apply_outcome`), and an operation
that returns an error commits nothing. A join that is passed applies a further outcome;
`Apply` repeats `ApplyStep` until nothing is left to do.

**HetuflowTxn** takes that atomicity apart. Transactions of callers, pollers and
dispatchers on one instance run statement by statement at READ COMMITTED. A row has a
committed value and, while a transaction has it, an owner and a value of its own; a
statement on a row of somebody else waits and then looks again, and the database aborts
one of those that wait in a circle (`DeadlockAbort`). Only `signal` locks the instance
row first. The log's sequence number is read (`NextSeq`) before the event is inserted; the
DDL is not in the repository, so `unique`, whether (instance, seq) is unique, is a choice
of `Init`. A sweep of a join is executed as one statement.

**HetuflowWalk** walks one token through an accepted definition by the runtime's
decisions, through any branch and any join, whatever rows and counts would do: an activity
is left by every signal its kind takes, with or without an edge for it, and an event wait
with `timeout_seconds` times out with or without a target. It is the place where validation
and lint are held against the runtime over *all* wirings of a set of nodes. `Onward`,
`After` and `Route` say, apart from `Resolve`, where routing nodes may lead.

**HetuflowOutbox** is the table and any number of dispatcher processes. `Poll` is
`poll_due_outbox` in its transaction, `Deliver` the port call outside any transaction,
`Settle` the transaction of `settle_success` or `settle_failure` with its owner check.
`Crash`, `SettleRolledBack` and `Expire` of an attended lease are the faults.
`holder`, `told` and `followed` are history variables for the properties.

**HetuflowLedger** is what the outbox promises: an intent is recorded, perhaps accepted by
its receiver (more than once), and settled once, with success only if accepted.

**HetuflowStart** is the race of `start` calls at READ COMMITTED: the insert waits for an
uncommitted row of its key, inserts, or is blocked by a committed one; the read after it
is a statement with a snapshot of its own. The statuses pending and active, which the
index treats alike, are one value here; the pending one is never written by the code.
`Move` is everything that other operations do to the status of a started row.

**FusionTxn** puts the holder of `DbxPostgres` or `DbxSqlite` (counter, savepoint names,
whether a transaction is held) next to the session of the database (its own stack of
savepoints, rows written since, aborted, broken). A task runs closures: `transaction` and
`read_transaction` nest, statements fail on their own, a closure goes on after an error or
returns it, and the future of a run may be dropped while its closure runs (`Abandon`), which
calls neither `commit_txn` nor `rollback_txn`. `durable`, `promised` and `unknown` record which rows are there, which were
answered Ok, and whose COMMIT got no answer. One task uses one handle, as the code's
comment and `assert_same_owner_task` demand.

**FusionMq** is the table of one target service and its consumers. `ClaimSelect` takes rows
with SKIP LOCKED, `ClaimCommit` commits them as processing (`ClaimLost`: the commit's answer
is lost, or it fails); `MarkProcessed` and `MarkFailed` are single UPDATEs by id;
`Reap` puts back what is in processing too long. `attempts`, `reaps` and `contested` are
history: how often an event was claimed and reaped, and which events were reaped while
somebody handled them.

**AiUsage** follows a metered call from its answer to the store: what `MeteredLlmProvider`
records in either wire form, `try_send` on the bounded channel, and the writer task with
its batches, backoff, panics caught by `catch_unwind` and drain. The store may carry a
write out and report a failure.

**GraphFlow** is one session and the requests on it: `Get`, `TaskBegins`, `ChildEnds`,
`TaskEnds` with every `NextAction`, `GivesUp` (error or timeout), and `SaveInMemory` or
`SaveBegins`/`SaveCommits`. With the in-memory storage every clone of a session shares
one context (`heap`); with PostgreSQL each request works on its own copy and the upsert
compares the start times of the saving transactions. Children of a fan-out that was given
up write later (`LateWrite`).

**FunAsr** is `transcribe_realtime`: the event stream (connect, wait for task-started,
read results, drain), the uplink pump as a task of its own that the poll after task-started
starts, the provider as any sequence of
frames, and one connection that may break. Both deadlines are actions.

**FusionApplication** first builds: `Visit` is one pass of the loop body of
`build_plugins`, then of `auto_inject_component`, `EndRound` what follows the loop. Then
tasks use the shared application: `Check` and `Insert` are the two steps of
`try_add_component`, and the shutdown pair is behind a fair mutex (`line`) whose guard
`await_shutdown` keeps from `TakePair` until its hooks have run.

Operators whose comment begins with "Mutant of" are plausible bugs of the operator they
stand before. No specification uses them; `PROJECT.json` pairs each with the property
that must notice it.

## 3. Runs

| Run | Question | Bounds and why they are enough |
|---|---|---|
| `outbox` | Can a row be settled twice, over budget, or from a lost lease? Does the dispatcher implement the ledger, and is every intent settled? | 2 processes, 2 rows, batch 2, 2 attempts, 2 faults. Taking a lease over needs two processes and one stall, a second fault lets the follow-up or the process fail on top; a batch of 2 gives a worker a row it has not delivered yet; 2 attempts reach both retry and exhaustion. |
| `start_race` | One active instance per key, honest answers, everybody answered? | 3 calls, two of them on one key, 3 rows, 4 status changes: a row can leave the index and come back twice. |
| `engine_safety` | Is a live instance ever left where nobody and nothing moves it? Do joins fire twice or early, is a decided activity decided again, is the callback due without an approval, does a terminal instance leave open work, does the folded log keep up? | Serial definitions: an approval loop with condition, rework, SLA timers and a notification; an event wait with timeout, a merge and an assignment. Splits of three kinds of activity under wait_all, wait_any and 2 of 3, with an assignment behind the join that a late branch could reach again; a split with rework from both branches; approval beside assignment; a `for_each` with 0 and 2 items. 2 contexts, 2 or 3 rounds; the state space is finite because rounds are bounded by the code's own limit, so `MaxActs` = 12 is never the reason that a step is missing. |
| `txns` | Does the instance move on once, is a join missed by branches that do not see each other, is a repeated request logged once? | 2 clients and 2 workers, 3 requests sent up to twice, one activity or two branches under wait_all and wait_any, with and without unique log numbers. Each hazard needs two transactions, a deadlock two rows. |
| `delivery_twice` | Expected violation: does a delivery ever move the instance on a second time? (section 6) | 1 client, 1 worker. |
| `walk_valid` | Is validation enough for the runtime, and does lint agree with it? | 3·2·3·2·4·4·2·4·3 wirings of an approval, a condition whose guard may fail, a merge and an event wait, whose timeout, timeout target and event edge are chosen apart; rows of 8 and of 9 merges or conditions, the depth guard being 8; 4·4·3 wirings of a split with two joins; 36 of a `for_each` with items that may be no array or over its cap. Validation chooses. |
| `txn` | Does the holder's depth follow the closures, does a failed run leave nothing, does Ok mean committed? | 3 levels, 5 runs, 2 faults (dropped futures among them), 3 rows, both databases: a savepoint name is reused at depth 2 below an open run, and a fault can hit the recovery from a fault. |
| `mq` | Attempts within budget, exclusive, settled for good, settled in the end? | 2 consumers, 3 events, batch 2, budgets 0 and 2, 1 fault, 1 stall: a stalled worker, the one that took over from it, and a third event that neither has. |
| `usage` | Is every loss in the metrics, are duplicates only from unclear writes, does the writer drain? | 4 calls, capacity 2, batches of 2, 3 attempts: the channel overflows while a full batch is being retried. |
| `graph` | Is the stored session one line of whole steps, and does an acknowledged step stay? | 3 runs, 1 feed, 1 delete, 2 children, 3 graphs (step by step with a conditional edge back, one chain that leads to a missing task, jumps), 3 begun tasks, both storages: two requests overlap while a third is still to come. |
| `asr` | Does the transcript hold each sentence as it was last shown, and do session and pump end? | 2 sentences of up to 2 versions, 2 frames under way, uplinks of up to 3 items that end or not: a revision after the next sentence began, a frame in flight at every deadline. |
| `application` | Do the rounds build exactly what can be built? Who keeps a component, when do hooks run, does a shutdown end? | Every dependency relation among 3 plugins, and of 2 components on one another, on what a plugin gives and on what is missing, for which there is no order; two clashes, a missing configuration, and one application that can be built. The plugins come in one order, but over all relations that is every order. Then 2 servers, 1 shutdown, 2 await_shutdown, 2 registrations, 3 hook lists. |

Every engine run has `MaxCascade` = 6, the outcomes one transaction may apply; the longest
chain in these definitions (join, then a further node) has 3. `MaxMoves`, `MaxFaults`,
`MaxStalls`, `MaxSends`, `MaxRuns`, `MaxBegun` and the bounds of `FunAsr` limit the
environment only. Deadlock checking is off because all these systems may stop: people need
not sign anything, calls end, sessions end. `SYMMETRY` is used only where no liveness is
checked and the permuted values are interchangeable (`Alike`, `Sessions`, `Requests`).

Type invariants: each state machine but the token of `HetuflowWalk` has its `TypeOK`
(`StartTypeOK`, `UsageTypeOK`, `AsrTypeOK`). Those of the engine, `HetuflowTxn`, the outbox,
the queue and `FusionTxn` are theorems (section 5), those of `AiUsage` and `FunAsr` parts of
the invariants `Metering` and `Session`; sessions, the builder, the shutdown and the token
have their types in the invariants proved there. `HetuflowStart`'s holds on the instance
above (add `INVARIANT StartTypeOK` to its configuration to see it).

## 4. Fairness

* Outbox: each worker's poll, delivery and settle are weakly fair, since `run_forever`
  polls at every tick and logs errors instead of stopping, and the port is expected to
  answer. A lease that nobody works on expires and a backoff passes, since time passes.
  Enqueues and faults are not fair, and faults are finite in number: `EventuallySettled`
  is the claim that a row is settled once faults cease.
* Start: a transaction that does not wait for a lock goes on. Status changes by other
  transactions are not fair.
* Engine and `HetuflowTxn`: safety only. People promise nothing, so "it goes on" is stated
  as `NeverStranded`: in every state somebody can be asked, or a timer or an intent is
  there that the poller or the dispatcher will find (that they do is `EventuallySettled`).
* Queue: an idle worker polls, commits its claim and answers what it has, and
  `reap_zombie` runs again and again; crashes, lost answers and stalls are finite.
* Usage: the writer task runs; calls, and when the program drops its providers, are free.
* Fun-ASR: the runtime goes on with what is ready and the consumer polls. The start
  deadline is strongly fair, because `started_deadline` is fixed when the session begins
  and frames that come in between do not renew it; `idle_timeout` is weakly fair only,
  because each frame renews it. Sending `run-task` is assumed to be sent or refused.
  Provider, network and microphone owe nothing; hence the disjuncts of `SessionEnds`
  about a provider that never pauses.
* Application: the runtime runs a task that can go on, the mutex serves its callers in
  their order, and a server stops after the signal. Nobody has to call `shutdown`.

## 5. Proofs

Every theorem is about all values of the constants its module's assumption allows, and each
rests on one inductive invariant, `Safe` unless another name is given. TLC has checked each
of these on the instance of the component's run. The properties themselves are rarely
inductive; what had to be added is said below.

`HetuflowEngineProofs`, from `EngineAssumption`: every definition is accepted by
`validate_definition`, its entry is one of its nodes, its nodes and edges are lists, the name
that stands for "no node" is none of them, and the fields that routing carries on (results,
branches, item counts) have their types.

* `TypeIsInvariant` (`TypeOK`), `CallbackIsEarned` (`CallbackAfterApproval`) and
  `DecisionsStand` (`DecidedOnce`, an action property). The engine's actions build a
  transaction record and commit it, so the invariant is about such a record: `Sound(old,
  name, t)` says that `t` is a transaction of definition `name` whose rows are those of
  `old` or later ones (`Kept`: none is lost, and one that was decided is as it was), and
  that its outcome names nodes of the definition. Every step of the service (`Schedule`,
  `Finish`, `HandBack`, `TryJoin`, ...) is a lemma: from a sound record to a sound one. An
  action is then a chain of such steps, and `DecidedOnce` is `Kept` of its result.
* The callback needs more than its property: at most one callback intent is there (`Calls`),
  or its delivery would leave another that is due after it was executed. The rest follows
  from guards far apart: only an active instance is completed, and only one that was returned
  is started again.
* The loops (`Resolve`, `Apply`, `SpreadOut`) are recursive functions over numbers of
  steps. That such a function exists and keeps what one step keeps is proved by induction
  over the naturals, which here comes from their being well ordered (`SegmentInduction`).
  `ResolveAnswers`, `AdvanceAnswers` and `TimeoutAnswers` say that in a valid definition
  every decision answers with an outcome that names its nodes, or with an error.
* Serial definitions, those without splits, for_each and joins (`Serial`): `SerialEndsClean`
  (`NothingLeftOpen`), `SerialNeverStranded` (`NeverStranded`) and `SerialReplayKeepsUp`
  (`ReplayKeepsUp`), for every such definition. The invariant is `OneAtATime`, on top of
  `Safe`: between transactions the instance is settled (`Settled`). An active one is at work
  on its newest activity and on no other (`AtWork`), whose timers are those of its node and
  whose timeout is still there; a terminal one has nothing open; and where no return leads
  back, the folded log is the image of the rows (`Mirrored`). None of the three is inductive
  by itself: that a timeout finds a rework that waits for a person, for example, has to be
  excluded by the timers of the open activity. Inside a transaction the activity has been
  left and nothing is open (`Left`); `SerialOutcome` says which outcomes may come then (no
  fan-out, no join), each arm of `apply_outcome` takes a `Left` record to a settled one or
  to an error (`StepSettles`, `ApplySettles`), and each event folds to what the statement
  did to its row (the `Mirror` lemmas).
* `SerialNeverStranded` is about active instances, and about those that wait for rework where
  every return leads to an approval or an assignment (`ReturnsToPeople`); section 6 has the
  case that this leaves out.

`HetuflowTxnProofs`, from `TxnAssumption` (clients, workers and nobody are different, an
instance waits at finitely many activities, and at one of them if it has no join):
`TypeIsInvariant`, `InstanceAdvancesOnce` (`AdvancesOnce`), `NoJoinIsMissed`
(`JoinNotMissed`) and `RequestLoggedOnce` (`KeyLoggedOnce`).

* Types first: what a transaction has left to do is the rest of its program (`Planned`), so
  that the next statement tells what it has done.
* `Mine` is what one transaction relies on: rows it holds were active when it took them
  (`HoldsActive`), what it decided it still holds (`HoldsDecision`), whoever moves on leaves
  nothing active (`LeavesNone`), whoever does not has seen an activity that is not completed
  (`StaysBehind`), a request holds the instance's row from its lock on (`HoldsKey`). Then
  each step of one transaction keeps what the others rely on: rows change only by their
  owners.
* `OneAppends`: with unique numbers, one transaction at a time is in the log uncommitted,
  because the next waits on that number. This is all that orders two branches, and the
  proof of `JoinNotMissed` uses it at exactly the step where both would stay behind.

`FusionTxnProofs`, from `TxnAssumption` (bounds are numbers): `TypeIsInvariant`,
`DepthIsCounted` (`DepthMatches`), `SessionHoldsViews` (`ViewIsWritten`),
`FailureLeavesNothing` (`NothingUnpromised`) and `OkIsCommitted` (`KeepsPromises`). The
holder and the session keep separate stacks, and names of savepoints repeat in the session's:
`MarksOrdered` says that while no SAVEPOINT has failed the names never decrease and none is
above the level, and `MarksHoldViews` that the *last* savepoint of each level has the rows of
the closures outside of it. That is what makes ROLLBACK TO the right one. `Counted` says when
the counter is exact; once a run was abandoned it is not, until the handle goes, and only
`NothingUnpromised` is claimed: with a level too many no COMMIT is reached.

`HetuflowOutboxProofs`, from `OutboxAssumption` (types of the constants) and, as a
hypothesis of each theorem, `DistinctIds` (no two processes share a `worker_id`):

* `Safety`: `Spec => []Safe`. `Safe` is `TypeOK`, the invariants of the run, and
  `LeaseInv`: a leased row names the id of the process that took it, a row that is not
  settled has attempts left, a row in hand exists, and the answer in hand was given. The
  properties alone are not inductive. `WithinBudget` needs `SeenIsCurrent` (the count a
  worker judges by is the row's own as long as it owns the row), that needs the lease to
  name its holder, and that is where distinct ids come in: without them, taking a lease
  over leaves the earlier worker an "owner" with an old count.
* `OutboxInvariants`, `AttemptsBounded` (`WithinBudget`) and `HolderSettles`
  (`OnlyHolderSettles`, an action property) follow from it.
* `Implementation`: `Spec => KeepsPromise`, the refinement of `HetuflowLedger`. Only an
  owned settle moves a recorded intent, and the answer it settles by is in the history.

There too, of `HetuflowStart`, from `StartAssumption`: `IndexSafety` (`IndexInv`: committed and
uncommitted rows under the index have different keys, each inserting call has its own
uncommitted row, a blocker is a committed row of the key), from it `OneActive`, and
`AnswersAreHonest` for the action property. `OneActivePerKey` alone is not inductive: an
uncommitted row becomes active at commit.

`FusionMqProofs`, from `MqAssumption`: `MqTypes`, `Attempts` (`AttemptsWithinBudget`),
`Claimability` (`OpenHasBudget`, which no run lists: an open event has retries left, so
every claim can see it), `Exclusion` (`SharedOnlyIfContested`) and `Settlement`
(`SettledUnlessContested`, an action property). The invariant `Safe` adds to them that
attempts are paid for by retries, reaps and those who still have the event, and that an
event in somebody's hands is processing, or contested.

`FusionAiProofs` is about three components. Of `GraphFlow`, from `FlowAssumption`: `Safety` (`Spec => []Safe`) and from it
`AcknowledgedStays` (`AckedStays`). The property speaks of what is stored; the invariant
has to speak of everything that may be stored later: `Kept` says that what an acknowledged
lone request left is in the stored row and in the context of every request under way,
`SavesItsOwn` that a request at its save has something in its context, `Solo` that nobody
runs beside a request that is alone, and `InTime` that the upsert's comparison of
timestamps does not skip a lone save.

From `Lines`: `StoredIsLine` (`StoredIsOneLine`). A stored session is one line
because every save stores one, so the invariant says of each request under way that it has a
whole line, or one with its own task begun (`Fits`). In PostgreSQL each has a context of its
own (`OwnLines`); in memory one request at most works on the shared one while nothing was
given up and nothing overlapped (`SharedLine`).

Of `AiUsage`, from `UsageAssumption` (finitely many calls): `UsageLossIsCounted`
(`LossIsCounted`) and `UsageStoredOnce` (`StoredOnce`), both from `Metering`. A loss is the
*absence* of a call from the store, the batch and the channel, so the invariant has to say
where each call is: in at most one place and once there (`UnderWayOnce`), in the channel not
yet stored, in the batch stored at most as often as was tried and only by writes that
reported a failure. Then a step loses what it drops from one of these lists, and no list has
more calls than places, which is what the counters grow by. A dead writer leaves the channel
behind; `Tolerated` is what the property allows.

Of `FunAsr`, from `AsrAssumption`: `AsrKeepsEverySentence` (`KeepsEverySentence`) from
`Session`. `all_segments` is edited in place by `partial`, so what it holds is right only if
results arrive in the provider's order: `InOrder` follows the segments from the last one
shown through the frames under way to the one the provider sends next, whatever other frames
lie between and until the stream is over; `KeptSegments` says that each position has its
sentence as it was shown last.

`FusionApplicationProofs`, from `ApplicationAssumption` (the kinds of tasks are disjoint,
and the registries list each plugin and each component once):
`HooksLast` (`HooksRunLast`) from `Guarded` (who awaits has the mutex and the pair),
`Emptied` (from the first hook on no receiver is left, nor can one be had) and `Numbered`;
`OkKeepsItsPlace` (`AddedStays`) from the fact that of two who are between check and
insert at once, both are crowded. `RoundsBuild` (`BuildsWhatCanBeBuilt`) has an invariant of
its own, `BuildInv`: each entry is still to be visited, put off or built (`Divided`), and as
long as a round has moved nothing, what it has put off still cannot be built (`PutOff`). So
a round without progress shows that what was built is closed under building: `Buildable` is
what lies in every such set, hence nothing that is left is buildable and giving up is right.

`HetuflowWalkProofs`, from `WalkAssumption` (finitely many nodes, whose names are none of
the three markers; lists are lists), about *every* wiring of a set of nodes that validation
accepts: `SplitsConverge` (`SplitConverges`) and `LintIsSound` (`LintFollowsRuntime`).

* `ResolveStays`: from a node of a set that the static edges do not leave (`Closed`),
  `resolve_target` answers with nodes of that set. For the set of all nodes this gives that
  a decided fan-out is one of the definition's; for the set lint found it gives that the
  runtime goes nowhere else. `Walked` is the invariant that says both of every state.
* `ReachedIsClosed`: lint's search, as many passes as there are nodes, ends in a closed set,
  since a pass that adds nothing is the last one and each other adds a node. The count is
  over cardinalities, by induction over the naturals.
* `JoinRests` and `BranchCompletes`: the edge that validation demands of a branch leads to its
  join, where the runtime rests. So branches of a split, which validation has end in one join,
  complete into it.

Only model-checked:

* All liveness: `EventuallySettled`, of the outbox and of the queue, `EventuallyAnswered`,
  `Drains`, `SessionEnds`, `ShutdownEnds`. TLAPS has no support for fairness and ENABLED.
* `JoinFiresOnce` and `WaitAllIsWhole` of the engine, and its `NeverStranded`,
  `ReplayKeepsUp` and `NothingLeftOpen` for definitions with splits, for_each and joins. Each
  is false for some such definition that validation accepts, so a theorem would need a class
  of definitions that the code does not define; the runs choose members of it.
  A skipped branch strands its instance (section 6). A branch whose event wait times out into
  an end node leaves its siblings open, as does a `for_each` of approvals, one of which is
  rejected; if it is returned and resubmitted, the log and the projection part. A node behind
  a join that leads back to one of its branches makes the join fire again in its round. A
  split that names a branch twice is one arrival ahead of its join, which fires while a branch
  is open.
* `ValidNeverErrors` of `HetuflowWalk`, over the wirings of the run. Each case it names
  occurs there: without any one of them the property fails.
* What a recursive definition computes for *every* input, where the induction is over
  sequences or other data: the library's induction theorems take an operator as a parameter,
  which no prover here can instantiate. Induction over the naturals was got round as said
  above.

## 6. Where code, comments and expectations part

`delivery_twice` is a counterexample that `PROJECT.json` lists: `on_notification_delivered`
(`service.rs:546`) reads the activity without a lock and ignores what
`complete_activity_cas` changed. A manual COMPLETED signal, or the sweep of a wait_any
join, that commits in between makes the instance advance twice; `worker.rs:166` says
"advancing twice is not" part of the cost of delivering twice. `AdvancesOnce` in `txns`
excuses this case and shows that there is no other.

The code also does the following. Where a property of a passing run would contradict it,
the property names the case it excuses, or the run's definitions leave it out, as said here.

hetuflow:

* `WorkerConfig::default()` gives every process the same `worker_id` (`worker.rs:55`), so
  the owner check cannot tell a stolen lease. `DistinctIds` is a hypothesis of the proofs.
* Validation leaves these to the run, which ends in ERRORED (`ValidNeverErrors` names them):
  an event wait with `timeout_seconds` and no `timeout_target` that times out
  (`hetuflow-runtime/src/lib.rs:166`; the comment at 151 says validation has warned of it,
  and neither it nor lint does); an EVENT_RECEIVED for an event wait that has a
  `timeout_target` and no edge for the event (139); a return routed to an end, a split or a
  `for_each` (126); an edge that leads back into Start (317); routes of more than 8 routing
  nodes, and circles (185, 188); guards that fail to evaluate (311); `for_each` items that are no array
  or more than `max_fanout` (265, 271).
* An instance in rework is non-terminal but outside the unique index, so `start` makes a
  second one; `OneActivePerKey` is about active instances.
* A rework appends ACTIVITY_SCHEDULED and RETURNED_TO_REWORK for one activity, and
  `fold_events` makes two rows of it (`service.rs:979`). `ReplayKeepsUp` is about
  definitions without rework. A leftover sibling that completes after a resubmission
  clears `current_activity_id` without an event, so those of `Abandons` are left out too.
* A rejected branch, or one that times out into an end node, completes the instance and
  leaves its siblings active (`service.rs:1181`): `NothingLeftOpen` leaves out splits with
  approvals, and `engine_safety` has no definition with such a timeout.
* An empty array before a wait_any or n_of_m join never satisfies it (`service.rs:1069`,
  whose comment says it must): the `for_each` of the runs waits for all.
* A signal to the open sibling of a branch that was returned resumes the instance.
* Validation accepts a `for_each` whose items complete past the join.
* A branch whose event wait times out into its wait_all join is marked skipped
  (`service.rs:495`) and never counted there, so the instance stays active with nothing
  open. `engine_safety` has no definition with such a branch; `NeverStranded` fails on one.
* `error_workflow` changes only an active instance (`hetuflow-sqlx/src/lib.rs:725`). A return
  may lead to an event wait or a notification; if that times out or is delivered and its
  routing fails, `fail_instance` (`service.rs:1253`) appends ERRORED and the instance stays
  in rework with nothing open. `engine_safety` has no definition with such a return;
  `NeverStranded` fails on one.
* `static_out_targets` (`hetuflow-runtime/src/lib.rs:838`) has no arm for `for_each`, so
  lint reports its template and what lies behind as unreachable. `LintFollowsRuntime`
  leaves `for_each` out.
* A rework over the round limit calls `fail_instance` and then returns an error, so the
  caller's rollback undoes the errored status.
* `JoinNotMissed` rests on the uniqueness of (instance, seq) in the event log: the
  branches share no lock. The DDL that would say so is not in the repository.

The rest:

* fusion-sql: on PostgreSQL, a closure that goes on after a failed statement and returns Ok
  is answered Ok although the COMMIT rolled back (`KeepsPromises` excuses `swallowed`).
  `begin_txn` counts a savepoint before the database has it. When the future of a nested run
  is dropped (`model_manager.rs:160`), or that of an outermost run on a handle that is used
  again, its level stays counted: the runs around and after it on that handle release
  savepoints, never commit, and answer Ok (`abandoned`).
* fusion-mq: an event with `max_retries` = 0 is never claimed. Reaping counts no retry, so
  an event that kills its worker is handed out again for ever, and the "failed" branch of
  `reap_zombie` is never taken (`Claimability`). A late mark of a reaped worker can take a
  completed event back to pending (`contested`).
* usage: a panic in the call of `write_batch` itself, before its future is wrapped by
  `catch_unwind`, kills the writer (`mode = "dead"`). A write that was carried out and
  reported as failed is repeated. A `write_batch` that never returns has no timeout.
  Streams and cancelled calls are not metered, nor is an answer that reports usage but has no
  choice (`wire_openai_compat.rs:135`) or, in the responses form, neither text nor tool call
  (284): it is an error before the meter sees it (`IsOk`).
* graph_flow: the upsert's guard, "Prevent overwriting newer data"
  (`storage_postgres.rs:89`), compares the start times of the saving transactions and not
  the version that was read, so an overlapping request overwrites newer data; a save that
  the guard skips answers Ok. Clones of an in-memory session share the context, so failed
  or overlapping runs leave it half changed. A session that ended runs its last task again
  at the next request.
* Fun-ASR: a provider that keeps sending frames the session ignores renews `idle_timeout`
  for ever; sending `run-task` is not under the start deadline; a failed pump is not
  reported to the event stream.
* Application: `await_shutdown` keeps the guard over the shutdown pair until its hooks have
  run (the scrutinee of an `if let`), so whoever calls `shutdown`, `is_shutdown` or
  `shutdown_recv` meanwhile waits, also where `shutdown_recv` promises `None`
  (`application.rs:125`), and for ever if the shutdown waits for the caller (`HoldsUp`).
  A `shutdown` that comes after `await_shutdown` never signals: `ShutdownEnds` is about
  one that came before. A panicking hook loses the remaining ones. Two registrations at
  once are both told Ok (`crowded`). A plugin that another plugin adds while it is built
  goes to a registry that is overwritten afterwards, and is not built.

## 7. Not modelled, and why

* hetuflow: scopes (tenant, facility), queries, texts and payloads; `sub_workflow` nodes,
  which end in an error in the code (`schedule_activity`) and here;
  `validate_domain_driven`; CEL parsing and evaluation; JSON paths of context writes. The
  ports are interfaces of the host.
* fusion-sql: generated CRUD, filters, pagination, session variables; two tasks on one
  transactional handle, which a comment forbids and an assertion checks; a future that is
  dropped inside `begin_txn`, `commit_txn` or `rollback_txn`, between the change of the
  holder and its statement.
* fusion-ai: requests and answers of the providers are conversions of one call each;
  the assembly of streamed chat answers (`completion/streaming.rs`), `Graph::execute`
  without a session, chat history, image, voice and speech synthesis.
* fusion-core: configuration sources, `ServiceTask`, the timer wheel, tracing, JOSE.
* fusion-web's rate limiter is one critical section around floating point arithmetic,
  whose rounding TLA+ has no counterpart for; without it nothing but the refill formula
  is left.
* RPC, security, storage, mail, weixin, common and the macros keep no state between calls.
  A large part of the repository's lines are of these kinds (data types, conversions,
  generated access), which is why the share of mapped lines is small next to the share of
  stateful code.

## 8. Plan

Done: the modules of section 2. What would come next:

1. `HetuflowTxn` as a refinement of one atomic step of `HetuflowEngine`, on the paths where
   `overlooked` stays false.
2. Assembly of streamed chat answers; `ServiceTask` with its retry strategy.
