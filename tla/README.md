# FTMind: a TLA+ verification project

FTMind is a multi-tenant knowledge platform: documents are uploaded, parsed,
chunked, embedded, enriched (summary, generated questions, graph, wiki) and then
searched and quoted by chat agents. This directory holds TLA+ models of the part
of it whose correctness depends on the order of concurrent steps, the TLC
configurations that check them and TLAPS proofs of the central invariants.

Paths below are relative to `src/internal/` unless they start with `src/`.

## 1. The system

### Components, their state and their operations

| Component | State it keeps | Operations that change it | What makes it hard |
|---|---|---|---|
| Knowledge row (`application/repository/knowledge.go`) | `parse_status`, `pending_subtasks_count`, `deleted_at` of a row in `knowledges` | full-row `UpdateKnowledge` (Save), column updates, `SetFinalizing`, `FinalizeSubtask`, `DeleteKnowledge` | everybody writes it; Save writes a copy that may be minutes old |
| Document processing (`service/knowledge_process.go`) | chunks, vectors, the row | `ProcessDocument`, `processChunks`, `ReparseKnowledge`, `CancelKnowledgeParse` | four to six checkpoints between which the row may be cancelled, deleted or reparsed |
| Enrichment fan-out (`service/knowledge_post_process.go`, `service/knowledge.go`) | the counter of open subtasks, queued tasks | `Handle`, `finalizeSubtaskDetached` | a counter shared by tasks of four kinds that fail, retry, get lost and are delivered twice |
| Enrichment subtasks (`service/knowledge_process.go`, `service/extract.go`, `service/image_multimodal.go`) | summary chunk, questions, graph | one handler each, with a deferred drain | a model call of minutes between the check and the write |
| Delete (`service/knowledge_delete.go`) | row, chunks, vectors, graph | `DeleteKnowledge`, `cleanupKnowledgeResources` | runs beside the workers that write what it deletes |
| Housekeeping (`service/knowledge_housekeeping.go`) | the row | `runSweep` with a heartbeat and a queue gate | must end every stuck document and no live one |
| Task queue (asynq; `router/task.go`, `router/task_inspector.go`, `middleware/asynqdl`) | queued, active, retrying, archived tasks | enqueue, retry, dead-letter callback, dequeue, probe | at-least-once delivery; the probe knows only some task types |
| Attempts and spans (`service/knowledge_span_tracker.go`, `repository/knowledge_span_repo.go`) | `knowledge_processing_spans` | `OpenAttempt`, `LatestAttempt` | `MAX+1` in two statements; the upload task carries no attempt number |
| Image fan-in (`service/image_multimodal.go`) | Redis counter of pending images | `checkAndFinalizeAllImages` | decremented by redelivered tasks, keyed by document and not by attempt |
| Wiki ingest (`service/wiki_ingest*.go`, `repository/task_queue.go`) | `task_pending_ops`, slug locks, in-flight slots | enqueue, `ClaimBatch`, release, fail count, dead letter, scrub | claims that go stale while their holder is alive |
| Tool approval gate (`agent/approval/gate.go`) | in-memory waiters, Redis pub/sub | `RequestAndWait`, `Resolve`, subscriber | timeout, cancellation and two replicas race for one decision |
| Model limiter (`models/limiter`) | Redis ZSET of leases, local semaphores | `Acquire`, heartbeat, release, `SetGlobalLimit` | heartbeat against release, limit changed at run time |
| IM question queue (`im/qaqueue.go`, `im/service.go`) | bounded queue, per-user counters, global gate, in-flight entries, stop marker | `Enqueue`, `Remove`, worker loop, `/stop` | counters in Redis that fail open and are decremented all the same; `/stop` looks in four places for a request that moves |
| IM channel leader (`im/service.go`, `im/supervisor.go`) | open connections, a lock in Redis with a lifetime | `StartChannel`, `StopChannel`, retry and renewal loops, update, toggle, delete | several goroutines of several instances start and stop one channel |
| Answer stream (`stream`, `event`) | append-only event log | `AppendEvent`, `GetEvents` | reading by offset while it grows |
| Scheduler, MCP manager, settings, rate limiter, memory wiki, FAQ import, clone/move, agent binding, invitations | see `PROJECT.json` | | mostly one transaction or one lock per call |
| Chat pipeline, retrieval, HTTP API, CLI, front ends, document reader, deployment | | | sequential transformation, I/O or generated code |

### How the core interacts

    upload ──► row "pending" ──enqueue──► document:process
                                             │ claim, mark "processing", parse, write chunks, index,
                                             │ a checkpoint (isKnowledgeAborted) before each write
                                             ▼
                                  knowledge:post_process
                                             │ SetFinalizing: "finalizing", counter := n
                                             │ enqueue n subtasks, release those that could not be
                                             ▼
                  summary   question batches   graph   wiki
                     │ each drains once when it ends: counter := counter - 1,
                     │ then "completed" if finalizing and counter = 0
                     ▼
    cancel, reparse, delete (user)   and   the housekeeping sweep (cron)
    write the same row at any moment; the queue retries, redelivers and archives.

Between `document:process` and `knowledge:post_process` a document with images
passes the image fan-in: one `image:multimodal` task per image, each behind the
model limiter, and the last one enqueues the post-processing. The wiki subtask is a
row in `task_pending_ops` rather than a task: batches of `wiki:ingest` claim rows of
many documents and write shared pages.

The only shared state is the database row, the stores written beside it, the
queue and the attempt number. There is no lock: a handler reads the row, works
for minutes and writes, and only single SQL statements are atomic.

Two parts do not touch documents. An agent's tool call waits at the approval gate
for an answer that may come in on another replica. The IM service keeps one
connection per channel over all instances and puts what arrives there into the
question queue of the instance.

## 2. Modules

| Module | What it is | Code |
|---|---|---|
| `KnowledgeRow` | the row, and one operator per SQL statement on it | `application/repository/knowledge.go` |
| `SubtaskFanIn` | abstract specification: a document waits for a set of subtasks | none: it is what the fan-out promises |
| `EnrichmentFanOut` | one parse: `Handle`, the subtasks' drains, the queue, lost writes, crashes, the sweep | `knowledge_post_process.go`, `knowledge.go`, `repository/knowledge.go`, `knowledge_housekeeping.go` |
| `EnrichmentFanOutProofs` | inductive invariant, safety theorems, refinement proof | |
| `KnowledgePipeline` | the life of one document: both handlers, subtasks, cancel, reparse, delete, sweep | `knowledge_process.go`, `knowledge_delete.go`, `knowledge_housekeeping.go`, `router/task*.go` |
| `KnowledgePipelineProofs` | inductive invariant, `NoOrphans`, the action properties | |
| `WikiQueue` | the wiki queue of one base: rows, triggers, batches, one shared page, delete and reparse | `wiki_ingest.go`, `wiki_ingest_batch.go`, `repository/task_queue.go`, `wiki_page.go`, `knowledge_delete.go` |
| `WikiQueueProofs` | type correctness and the disjointness of claims | |
| `WikiFateProofs` | what becomes of rows and page: the other safety properties of `WikiQueue` | |
| `ModelLimiter` | the concurrency governor of one model, with Redis and in Lite mode; actions of one call | `models/limiter/*.go` |
| `ImageFanIn` | the images of one document, their counter and the hand-over to post-processing; composed with `ModelLimiter` | `image_multimodal.go`, `knowledge_process.go`, `knowledge_post_process.go` |
| `ImageFanInProofs` | inductive invariant and safety theorems of `ImageFanIn` with its gate | |
| `OneDecision` | abstract specification: a call gets one decision, and only who made it is told "ok" | none: it is what the gate promises |
| `ApprovalGate` | the waiter of a tool call, its timer and context, `Resolve` on any replica, the subscriber, acks over Redis | `agent/approval/gate.go`, `agent/tools/mcp_tool.go` |
| `ApprovalGateProofs` | inductive invariant, safety theorems, refinement proof | |
| `QAQueue` | the question queues of all instances, user counters, global gate, `/stop` | `im/qaqueue.go`, `im/service.go` |
| `QAQueueProofs` | inductive invariant and safety theorems | |
| `ChannelLeader` | which instance keeps the connection of one channel | `im/service.go`, `im/supervisor.go` |
| `ChannelLeaderProofs` | inductive invariant and safety theorems | |
| `MC...` | the constants of the TLC runs | |

`KnowledgeRow` is extended by `EnrichmentFanOut`, `KnowledgePipeline` and
`ImageFanIn`, so a statement is written once. `ImageFanIn` instantiates
`ModelLimiter` as `Gate`: each step of an image task that asks for or gives back a
slot is the conjunction of an action of both. The `map` of `PROJECT.json` names for
each definition the lines it stands for.

### State

*Documents.* `row` is the database row reduced to the three columns of section 1.
In `EnrichmentFanOut` `slot[s]` follows one unit of the counter from planning to
draining; its value says who must drain it, which the code never writes down. In
`KnowledgePipeline` `pc[p][t]` is where task `t` of parse `p` stands between two
statements, `snap` the copy of the row its handler holds (what a later Save writes
back), `store` what is persisted beside the row, `op`/`opSnap` the same for the
user's calls, and `attempt` the attempt number a parse's tasks carry.

*Wiki.* A row of `task_pending_ops` is named by its id: `log[i]` is what it says
(ingest or retract, and of which document), `row[i]` whether it is in the table and
claimed, `fails[i]` its `fail_count`. `batch[b]` is the local state of a batch: `idle`,
`claim` (between the two statements of `ClaimBatch`), `map`, `reduce`, `write` (page
read, model at work), `meta` (the update has found the text unchanged), `settle`;
`upd` is what it has to write, `stale` those that take their document off the page
(`retractStale`, of a document parsed again). `del[d]` is how far the clean-up of a
deleted or cancelled document has come. `queue` counts the waiting triggers by their kind:
`plain`, `recheck` (`scheduleStaleClaimRecheck`) and `capped` (`scheduleCappedRetry`);
the last two have a task id, so one of each exists at most. All documents contribute
to one `page`, the set of documents its `source_refs` cite. `ended`, `drained`, `late`
and `unversioned` are ghosts: how a row's work ended, how often its slot was released,
which documents were deleted while a batch was past its last look at them, and whether
an update has left the version of the page as it was.

*Images.* `parse` is the run of `document:process` at its tail, `pending` the Redis
counter, `task` the image tasks of all runs, `posts` and `reading` the post-process
tasks that wait or have read the row. `blame` and `events` are ghosts. Of the
limiter, `gate[c]` is where a call stands, `leases` the sorted set, `beats` the
heartbeats that will write again, `cap` the capacity of Lite mode's channel.

*Approval gate.* `phase[c]` is where the goroutine of call `c` stands in
`RequestAndWait`, `once` and `ch` are two fields of its waiter (a decision is named
by who made it), `from[r]` where an answer comes from, `rpc[r]` where its `Resolve`
stands and then what it returned, `owned[c]` whether the call names a user (an empty
user id disables the check), `inbox`, `job` and `acks` the publications on their
way, the one a subscriber works on and the replies on their way. Whether the waiter
is in the map follows from `phase` (`InMap`).

*Questions.* `req[r]` is where a question stands, whether it is counted and whether it has a
slot of the gate; `queue`, `perUser`, `closed` and `inflight` are an instance's memory;
`users`, `gate`, `mapping`, `events` and `marker` are keys in Redis, a counter with its
value and whether it has a TTL; `stop` is the `/stop` at work. `doomed` is a
ghost: the requests that a finished `/stop` was meant for and has reached.

*Channel.* `start[a]` is one call of `StartChannel` with the loops that come of it,
`chan[n]` the start registered on instance `n`, `open` the starts whose connection is
open and has not been told to close, `closing[n]` those of an instance that have been told
and are not closed yet, `lock` the key in Redis, `row` the channel in the database.

### Actions

There is one action per SQL statement, Redis command, queue call or checkpoint,
together with the code up to the next one; in memory a step ends where another
goroutine can see or change something: a branch of a select, `once.Do`, a locked
section. A lookup under a lock and what is done with its result after the unlock are
two steps. What a model or the document reader answers is a nondeterministic success
or failure. A fault is an action, or a disjunct of one, guarded by `CanFail` or
`Event`, which also bounds it.

A checkpoint that cannot read the row counts as "deleting" in the code, so in
`KnowledgePipeline` each checkpoint may also end the task on a live row.

### Named differences from the code

* *Fan-out.* One Save of a struct keeps the counter and `deleted_at`
  (`omitFieldsOnUpdate`). The queue is taken to acknowledge a task whose drain has
  happened; see section 5 for what follows if it does not.
* *Processing.* `ProcessDocument` is modelled for stored files; what it does for a URL
  or a `file_url` before it parses (`knowledge_process.go:2815-2935`) is left out.
* *Attempts.* `OpenAttempt` is two statements and one step; its failure (attempt 0,
  never superseded) is left out. Of the subspans only the heartbeat is there that
  the sweep reads: a row unchanged for 70 minutes or more is rendered as "no task of
  the document is in a worker or visible in a queue".
* *Wiki.* A claim goes stale only when its batch is no more, because no batch
  outlives `wikiClaimStaleAfter`; the recheck comes after the claims that were fresh
  when it was armed. The scheduler's finalize task, taxonomy and the text of pages
  are left out. Version checks of a page are the flag `moved` of its writers. Each kind
  of fault happens once at the most; a delete's scrub and the reads of its clean-up succeed,
  except that listing the pages may fail, which the code takes for "none". A reparse
  comes after the cancel before it has returned.
* *Images.* One model call per execution stands for the one or two of the code. The
  expiry of the counter key and of the lease set is left out. A cancel's update of the row
  and its removal of the queued tasks are two statements and one step. `Complete` stands for
  the whole of `EnrichmentFanOut`.
* *Approval gate.* A publication reaches every replica; the model keeps only the
  copies of the replica that owns the waiter, because the others find nothing and
  stay silent.
* *Questions.* Several requests of one user share one in-flight entry, as in the
  code. The data race on the entry's session id has no influence on the model. A gate
  without limit (`globalMaxWorkers` 0) is left out: it is never asked. A request whose
  messages cannot be created ends as one that is cancelled before them (`Abandon`).
* *Channel.* The configuration of a channel has no version here: an instance that
  keeps an old configuration is not visible. Every adapter may take as long as it likes
  to close what it was told to close; some do it in the call.

## 3. Runs

| Run | Asks | Result |
|---|---|---|
| `enrichment_fan_out` | is the counter always right, completion never early, failure never without a reason, the document never stuck, and does it all implement `SubtaskFanIn`? | holds |
| `pipeline_lifecycle` | cancel, reparse and delete at any moment: no orphaned chunks, a delete is final, the counter rises only at the hand-over, nobody but a handler past its check changes a cancelled row | holds |
| `pipeline_reparse` | a reparse while old subtasks are queued: they do not complete the new attempt, and the document comes to rest | holds |
| `pipeline_reparse_race` | can a subtask of the old attempt complete the new one? | **violated** |
| `wiki_queue` | without faults, does the queue always drain, also past failed operations, full batches and a busy page? | holds |
| `wiki_faults` | one fault of seven kinds, and a cancel, a reparse and a delete: no row is claimed twice or dropped undecided, each gives back its slot, what was written stays, a document that alone was deleted goes | holds |
| `wiki_reduce_error` | is a document whose page could not be written tried again? | **violated** |
| `image_fan_in` | retries, crashes, redelivery, reparse, cancel, a limit set anew: fan-out after the last image and once per run, no stranded document, no more calls than the limit, every slot comes back | holds |
| `approval_gate` | two answers on either replica and from anybody, a timer, a cancellation, lost and doubled messages: is "ok" true, does a tool run only on the approval of who may give it, does a decision stay, do the call and `Resolve` end? | holds |
| `qa_queue` | two instances: are the counters exact until an instance dies, do gate and user limit hold, is a question kept from being answered that `/stop` has cancelled, or that comes to its marker check after the command? | holds |
| `qa_ends` | is every queued question answered, cancelled or discarded? | holds |
| `channel_leader` | one connection at a time that has not been told to close, none that nobody can tell, a disabled channel is told to close everywhere, a dead leader is replaced | holds |

The two violated properties are what comments of the code say (quoted in the findings
of `PROJECT.json`).

* *Reparse.* `attemptSuperseded` is asked once, at the entry of a subtask; its drain
  uses that answer after the model call.
* *Reduce error.* `withSlugLock` returns the error of the function it ran as its own;
  the caller takes any such error for a cancelled context and does not collect the
  update as unapplied, so the row is trimmed although the page was never written.

### Bounds, and why they are enough

`enrichment_fan_out`: a summary, a batch and a wiki operation are the two kinds of
subtask the shortfall loop covers and the one it does not; graph tasks behave as
batches; two subtasks are enough for one to drain another's slot; the theorems need
no bound. One retry (`MaxRetry`) gives a task both a non-final and a final attempt.
Lost writes and crashes are unbounded.

`pipeline_lifecycle`: one summary subtask (the kind that saves whole rows), no retry, at
most one fault (`MaxFault`, for `Crash`, `ProcessOverQuota` and a clean-up that fails) and
any two of the three user calls (`MaxOps`), each once. All three together, without a fault,
hold as well (2.8 million states). A crash without redelivery adds no behaviour to the
safety properties: it is a handler that is never scheduled again. `pipeline_reparse`: both
kinds of subtask, one retry, one fault. `pipeline_reparse_race` is the smallest instance
that shows the trace.

`wiki_queue`, `wiki_faults`: two documents on one page are the least that contend for
it; two batches are `MaxInflight`, and the least that can overlap; `BatchSize` two
lets a batch hold both documents or leave one to the other. `MaxOps` bounds the rows
ever inserted: three are two ingests and a retract, or a row enqueued behind a
claimed one; with all faults they are two: an ingest and its retract, an ingest beside a
retract, or two ingests. `MaxQueued` merges waiting plain triggers, which do the same thing.
`MaxFail` one gives an operation a second try; with faults it is zero, so a failure
is a dead letter at once. One document suffers all that users do, a cancel, a reparse and a
delete; the other writes beside it. Three rows with all faults, a delete of one document and
a reparse of the other were checked for the first 11 million states.

`image_fan_in`: two images, one of which is last; a limit of one makes the second wait;
one retry; two runs (`MaxRuns`), so that tasks of the first meet the second. `Scenarios`
bounds which faults and interventions meet: Redis, database and a late heartbeat; Redis,
a new limit (0, meaning none, or 2) and a stalled process; crashes and failed enqueues;
a cancel with a database error; a redelivery; a reparse. Within a scenario each
happens any number of times. Any two kinds together were checked once (6.3 million states).

`approval_gate`: one call on the first of two replicas and two answers, one approving and
one rejecting, to a call that names its user or not, each from the owner, another user or
another tenant and on either replica, so that local against remote, remote against remote
and either against the timer and the context all race; a publication arrives up to twice, an
ack at any part of those who listen. Calls share nothing, so one is enough.

`qa_queue`: three questions of one user on two instances with a queue of one, two per user
and a gate of one, so that each limit is met; one `/stop` (`MaxStops`), one fault. A lost
decrement and an expired key, which loosen the counters, are among the faults of `qa_ends`
and of the theorems. `qa_ends` has one instance with two
workers, which is enough for one to wait at the gate, and the faults under which a request
must still end.

`channel_leader`: two instances, three starts (`MaxStarts`: one each and
one that replaces or retries), one toggle, one fault. With the fault "slow", a lock that
lapses during a start or a renewal, it holds as well.

### Deadlock

It is not checked (`CHECK_DEADLOCK FALSE`): a document at rest, a drained wiki queue,
a call that has returned, a question that was answered, a channel that was deleted
after the last start are the end of a behaviour. That nothing waits for ever is
`Settles`, `ComesToRest`, `Drains`, `NotStranded`, `WaitsEnd`, `ResolvesEnd`, `Ends`,
`StopsInTheEnd` and `TakenOver`.

### Fairness

All of it is weak fairness on the step of one task, goroutine or timer. Nothing is
assumed of crashes, of users, of messages or of the choice between success and failure.

* *Documents.* A worker that holds a task goes on with it (a goroutine is scheduled,
  every call has a timeout), a queued task is picked up some day (asynq serves the
  queues by weight, none is starved), a user call that was begun is carried
  through, and the sweep runs again and again (a cron job). `Settles` and
  `ComesToRest` rest on the sweep for every slot that leaks.
* *Wiki.* Triggers are picked up, batches go on, the clean-up of a deleted document is
  carried through; claims, locks and leases run out.
* *Images.* The same, and each heartbeat ticks and each lease lapses. A waiting call
  polls; that it may miss a slot, but not for ever, is the fairness of `PassGate` as
  long as a slot stays free.
* *Approval gate.* The timer of a waiting call fires, a goroutine that can go on does,
  and `Resolve` gives up after its three seconds. Its Redis calls have timeouts, so
  `Publish` or `RedisFails` happens. `WaitsEnd` and `ResolvesEnd` hold with every
  message lost.
* *Questions.* Workers dequeue and handlers go on (answers have timeouts), a request
  at the gate tries again twice a second, the gate's key expires when nobody prolongs it.
* *Channel.* Each loop ticks, the lock runs out and a long poll ends with its context
  (`PollEnds`). A websocket that was told to close is not assumed to do so. Nobody is
  assumed to start, update or message the channel.

### What the weak forms leave out

* `NoOrphans` speaks of knowledge bases that embed (others skip two checkpoints), of
  rows whose "deleting" mark has not been overwritten, and of executions without a crash,
  an exhausted quota or a failed clean-up, which is logged and not repeated.
* `CancelSticks` allows a handler past its last check to move a cancelled row, and names
  those handlers (`Unchecked`). `ComesToRest` assumes that a reparse starts when nothing
  runs (`QuietReparse`); the subtasks of the first parse may still be queued.
* `ClaimsDisjoint` speaks of rows of the table; a document may be split (section 5).
  `NoneDropped` lets a row be taken for that of a deleted document after an error of the
  database (section 5); for failed writes see `wiki_reduce_error`.
* `AppliedStays` speaks of behaviours without deletes, whose clean-ups write past lock and
  version, and excepts writers that had neither (`Unguarded`).
* `DeletedIsRetracted` speaks of a document that alone was deleted, and excepts those in
  `late`, `Unguarded` writers, and a retract that failed for good (`RetractFails`): its row
  not inserted, its page not found because a read failed, not written, refused by the model,
  given up after its retries, or replaced by a late ingest.
* `Consent` asks for the tenant only where the call names no user.
* `FanOutLast` excepts a counter that was lost, decremented again or inherited (`blame`),
  `NotStranded` a task lost on its way to the queue, `Admission` a process that stands
  still for a whole lease.
* `StopReaches` speaks of a `/stop` of a user with one unfinished request, on whatever
  instance. When the command ends that request must be cancelled or still have its marker
  check before it: one that has passed the check escapes if the look-ups have not found it
  (section 5). Lost markers are excepted, and markers that another request of the
  same user has met first. `Ends` excepts a dead instance and a lost decrement.
* `Exclusive`, `NoLeak` and `StopsInTheEnd` speak of connections that have not been told to
  close (for what may overlap see section 5); only of long polls, which keep the lock while they drain, does `Exclusive` count
  all. It excepts a Redis error and a lock that lapses during a start, `TakenOver` an adapter
  that fails.

Each exception is a fault or a step of the model and can be removed to see the trace.

## 4. Proofs

`EnrichmentFanOutProofs` proves, for every finite set of subtasks and every retry
budget: type correctness, `CounterExact`, `CompletedOnlyWhenDrained`,
`FailsForAReason`, and that `Spec` implements `SubtaskFanIn` (`Implements`). Assumptions:
`SubtaskAssumption` (`Subtask` is finite, `Wiki` a part of it) and
`MaxRetryAssumption`.

*The inductive invariant.* `CounterExact` says nothing of a row that is not
finalizing, so it is not inductive: `PostSetFinalizing` needs to know that no slot
is owed before it seeds the counter, and a promotion must not find owed slots.
`IInv` adds which slots can exist at all while `Handle` is in each of its states
and while the row is still processing. Then a drain takes one element of the owed set
with one unit of the counter (`DrainStep`), a promotion happens only at zero, when the
owed set is empty (`PromoteStep`), and the sweep resets both. `NextInv` has one case per
action; cardinalities come from the finite-set theorems.

*Refinement.* The mapping takes the owed slots as the set and the status as the
phase. A decrement that does not promote is `Settle`, a promotion `Complete`,
a write of "failed" `GiveUp`, and everything in the queue a stutter.

`ApprovalGateProofs` proves, for any sets of calls, answers and replicas, any
assignment of answers to calls, with or without Redis: type correctness,
`OkMeansMine`, `Consent`, `AnswersExact`, and that `Spec` implements `OneDecision`. Its
one assumption is `GateAssumption` (the types of the constants; the names of the timer
and the context are not answers).

*The inductive invariant.* "ok" travels: the subscriber writes it in its job, the job
becomes an ack, and the ack an answer, while the call goes on. `IInv` therefore says of
every job, ack and answer that "ok" names the decision of the call, and adds why that
stays true: a decision that was made has run `once`, so no later `deliver` wins, and it
leaves the channel only into `result` (`DecisionsKept`). For `Consent`, whoever is
about to deliver has passed the checks of the lookup (`Entitled`): the tenant's, and the
user's if the call names one. `AnswersExact` needs two more
parts: no subscriber works on a request that came in on the waiter's replica
(`OverRedis`), so whoever decided from there was told "ok" (`NearDecides`). There is one
lemma per process (`CallStepKeeps`, `ResolveStepKeeps`, `SubscriberStepKeeps`).

*Refinement.* A decision is what is in the channel or has been returned. A `deliver`
that wins is `Decide`; a local one also tells its caller. An ack that is read is `Tell`.
Everything on the wire is a stutter.

`WikiQueueProofs` proves, for any documents and batches, every bound and every fault of
the model: type correctness and `ClaimsDisjoint`. Its one assumption is `WikiAssumption`.

*The inductive invariant.* Two batches cannot hold one row because `ClaimBatch` takes
only eligible rows while held ones are fresh (`HeldFresh`): a claim becomes stale or
free only when no batch holds it, or in the step in which its batch ends. Type correctness
of the fail counts needs `Budget`: what is in the table has failed `MaxFail` times at the most,
a row not yet inserted never. A batch's record changes in many places; `Like` states
once what such a change may do, one lemma per change shows that it does, and `Consistent`
follows.

`WikiFateProofs` builds on it and proves, under the same assumption, the other four safety
properties: `NoneDropped`, `SlotReleased`, `AppliedStays` and `DeletedIsRetracted`.

*The inductive invariant.* `NoneDropped` and `SlotReleased` look at rows that have left the
table; `Judged` and `Released` follow a row through the batch that has it in hand and say
at each phase what has been decided about it and which slot given back. Both need `Queued`,
who can be queued beside whom, for a row that a later one of its document replaces is
dropped without a decision of its own. `AppliedStays` needs that a writer whose write will
be accepted has read the page as it is, unless a clean-up has written past it (`PageOK`).
The version check alone does not give that: an update that leaves the text unchanged
compares the version in one statement and writes without it in another, so while one is
at that point only the slug lock (`LockOK`) keeps the others out, and the case without it
is `Unguarded`. `Current` says which applied rows the page owes; `DeletedIsRetracted` needs
that once the retract of a document has been carried out no writer has the document any
more (`Retracted`); its exceptions are those of section 3.

`KnowledgePipelineProofs` proves, for any subtasks, retries, faults and sets of user calls, with
or without a quiet reparse, under `PipelineAssumption`: type correctness,
`CounterRisesOnlyAtHandover`, `DeletedForGood`, `CancelSticks` and `NoOrphans`. For a user who
reparses only when no handler runs and who does not cancel (`Calm`: what `pipeline_reparse`
checks, and deletes besides) it proves `CompletedOnlyWhenDrained` too. Without the first
condition the code does not keep it (`pipeline_reparse_race`), nor without the second
(section 5, documents).

*The inductive invariant.* The action properties rest on one lemma (`RowStep`): whatever a step
does, it does to the row one of ten things (`Written`), of which two put a status there without
looking; those are the work of handlers past their last checkpoint. `NoOrphans` speaks of a
moment when no task runs. `HaveOwner` says what holds on the way there: once the delete has
cleared the store, what is in it has a task that will come to a checkpoint. It needs that
the mark "deleting" on the row is the one the delete has put there and no copy of it
(`MarkByDelete`, `NoMarkedCopy`).

`CompletedOnlyWhenDrained` has an invariant of its own, `DrainInv`. The row is promoted when
its counter is zero, so the counter must never be below the number of outstanding subtasks
(`Covered`); and no copy that is saved may complete the row, or take it back to "processing"
for a second hand-over, while there are any (`Copies`, `Waiting`). Both rest on whose turn
it is: one parse at a time does more than wait in the queue, it is the one with the latest
attempt, and its document:process, its post-process and its subtasks follow each other
(`Turns`, `Opened`, `Stages`; `Leading` and `OutstandingIs` are the lemmas that use them).

`QAQueueProofs` proves, for any finite set of requests, any users, instances, workers, limits
and faults, with Redis or without, under `QAAssumption`: type correctness, `CountersExact`,
`LimitsHold` and `StopReaches`.

*The inductive invariant.* Counters are compared with cardinalities of sets of requests.
`Sane` says for each state of a request what it has been counted for, and so what its end
gives back; the ledgers (`UserLedger`, `GateLedger`, `LiteLedger`) equate each counter with
its set while nothing is lost, and bound it from below when instances die or decrements are lost:
that is what keeps the limits. `StopReaches` follows a request that the command has reached,
cancelled or with its marker check to come, and the marker of its user.

`ChannelLeaderProofs` proves, for any set of instances and any number of starts, toggles and
faults, under `LeaderAssumption`: type correctness, `NoLeak` and `Exclusive`.

*The inductive invariant.* `NoLeak` needs to know what a registered start looks like
(`Registered`), because a start may replace it. `Exclusive` needs the link between
connections and the lock: whoever is electing itself, or renews and has not been told to
stop, has the lock of its instance, and there is one of those at the most (`OneHolder`).
A long poll that was told to close keeps the lock of its instance until it has ended
(`Draining`). That a websocket closes when told is neither assumed nor claimed.

`ImageFanInProofs` proves, for any number of images, retries and runs, any limits and sets of
faults, under `ImageAssumption` and `ScenariosAssumption`: type correctness (the limiter's
included), `FanOutOnce`, `FanOutLast` and `Admission`.

*The inductive invariant.* `FanOutOnce` rests on the row: only a new run makes it
"processing" (`Seeded`). `FanOutLast` rests on the counter, which is never below the number
of images yet to be counted (`Counted`) as long as nothing has disturbed it. `Admission`
rests on the leases: whoever holds a slot of Redis has one that its heartbeat renews
(`Leased`).

TLC evaluates every assumption in the runs. Each inductive invariant was checked with TLC
on the instances of the runs, or larger ones, before it was proved.

*Only model-checked.* Liveness (`Settles`, `ComesToRest`, `Drains`, `NotStranded`,
`SlotsReturn`, `WaitsEnd`, `ResolvesEnd`, `Ends`, `StopsInTheEnd`, `TakenOver`), which under
fairness is beyond the prover. Every other property of a passing run is a theorem.
`ModelLimiter` has no theorems of its own: its instance in `ImageFanIn` is what is proved about.

## 5. Observations, what is not modelled, and the plan

### Observations

The passing runs state the strongest form of a promise that the code keeps. Where
a stronger one reads naturally and the code does not keep it, this is why.

*Documents.*
* A subtask redelivered after its drain decrements a second slot; the comment at
  `repository/knowledge.go:370` counts on one decrement per task.
* The sweep may fail a document whose wiki operation still waits: the operation is in
  a table that the probe does not read, and the wiki task is missing from
  `taskTypesForKnowledgeCancel`.
* `processChunks` and the summary task save a copy read before a cancel; Save leaves
  out the counter, but not `parse_status`. The summary task looks at the row once and
  writes minutes later, so a summary may outlive its document. And it may end a cancelled
  document as completed: the cancel resets the counter, the summary saves its copy
  "finalizing" back, and the drain of another subtask promotes the row.
* An exhausted quota after the write leaves the chunks (`knowledge_process.go:552`), a
  base without embedding skips two checkpoints (`:637`), a failed clean-up leaves a row
  "deleting" that nothing sweeps (`knowledge_delete.go:185`), and a cancel may overwrite
  that mark (`knowledge_process.go:2297`).

*Wiki.*
* Without a recheck of its own a row may wait for the next trigger: a recheck armed for
  earlier claims coalesces with a later one, and a capped retry finds its task id taken
  by the very task that asks for it.
* After the scrub of a claimed ingest a retract may be worked off before the
  ingest in flight writes; this is `late`. When a retract and a late ingest are claimed
  together, the ingest replaces the retract.
* When a task runs out of its hour the slots are released, but its rows are neither trimmed
  nor released until the claim goes stale.
* `isKnowledgeGone` is true on any error of the database, so one failed read drops the update
  of a live document, and its row is trimmed as done (`wiki_ingest.go:2363`; the comments at
  `:2347` and `:2373` speak of deleted documents).
* A document may be in two batches at once, although the comment at
  `repository/task_queue.go:80` says never: its protection is the fresh claim of its row, and
  a scrub removes that row, claimed or not; and between the two statements of `ClaimBatch` a
  second batch may take a row enqueued behind the one just claimed.
* An update that changes only the sources of a page compares the version and then writes
  with `UpdateMeta` (`repository/wiki_page.go:147`), which neither compares nor raises it. If the
  slug lock has lapsed or Redis failed, such writers may undo each other.
* A page that cannot be read counts as one that does not exist, so a retract ends with
  nothing done; a failed insert of the retract, and a failed look for its pages, are only
  logged. Each leaves a deleted document on its page.
* The clean-up of a delete writes pages without the slug lock, from a copy and past the
  version. A writer that has read the page before it does not notice and puts the document
  back; the retract that follows takes it away, unless it is given up, for instance because
  the slug was busy each time. The clean-ups of two deletes may write each other's document back.

*Images and limiter.*
* Lite mode has no counter: each image triggers the post-processing, although the
  comment at `image_multimodal.go:354` says it waits for all. `SetFinalizing`
  lets one of them fan out, but it may be one that comes before the last image.
* In Lite mode the final attempt is not recognised, so a lone image that fails for good
  never triggers the post-processing.
* Lite mode's channel keeps the capacity of its first use, so a limit set later has no
  effect until a restart (`governor.go:129`).
* On a cancelled context the decrement fails, and a failed decrement enqueues a
  post-process task.

*Approval gate.*
* Three seconds without an ack make `Resolve` answer "not found"; the decision may have
  been delivered, or be delivered later.

*Questions.*
* Each attempt at the gate prolongs the TTL of its counter (`qaqueue.go:307`), so a slot
  lost in a crash is not forgotten while anybody waits for it; the comment at line 26
  says that it heals by itself.
* A `/stop` misses a request that is between its marker check and its messages, or gets
  there while the command is at work; likewise one whose in-flight entry another request
  of the same user has deleted at its own end. No fault is needed, and one question is
  enough: it enters its in-flight entry after the look there, passes the check before the
  marker is set, and stores its mapping after the look-up. The comments at
  `im/service.go:1176` and `:1699` take the marker for the fallback in this case.
* Every `/stop` leaves its marker for 30 seconds, so it may drop the user's next question.
* A request admitted on a Redis error is decremented all the same; a decrement of an
  expired key leaves a negative counter without a TTL.
* In Lite mode a `/stop` with one request queued and one running cancels only the
  queued one.

*Channel.*
* The comment at `im/service.go:1008` releases the lock of a websocket channel on the ground
  that the connection closes synchronously; most adapters only cancel a context. Between the release of the lock and the end of the old connection two instances may be
  connected, also without a fault: WeCom's reader does not look at the context and ends with a
  failed read or its deadline, which every message renews, DingTalk, Slack and Telegram close
  in a goroutine that waits for the context, Feishu and QQBot in the call.
* The renewal loop stops the channel of its instance, not just its own connection: one
  that ends late stops the connection that has replaced it, and nothing retries until the
  next update or message.
* An update on an instance that is not the leader leaves the leader with the old
  configuration; a message starts a channel even if it is disabled, until the first
  renewal. An error of Redis during a renewal stops a healthy connection.

### Not modelled

`PROJECT.json` lists the components with status `not_modelled`, and why. What remains
is of three kinds: a single transaction or lock per call, where nothing is left to
interleave (rate limiter, agent binding, invitations, members, memory wiki); sequential
transformation whose properties are about scores, text or layout (retrieval, chat
pipeline, chunk splitting, FAQ import); and I/O, rendering and generated code (HTTP API,
CLI, front ends, document reader, API documentation, deployment), which is by far the
most of the repository. Start-up recovery, the answer stream and the data source scheduler are
small state machines that could follow.

Within the modelled parts: manual entries, batch delete, the in-process executor of
Lite mode beyond the images, two reparses at once, and the wiki's finalize task. Of the
approval gate: the failure of `EventBus.Emit` (no handler of the two events returns an
error), the crash of a replica (it takes its waiters and their agents along), and the
arguments a user may edit. Of the image task: decoding, what the chunks say, and the
preview path for PDFs. Of the IM service: de-duplication, other commands, streaming and
the adapters.

### Plan

1. An abstract specification of the wiki queue ("at most one live batch per row, every
   row decided once") that `WikiQueue` implements, with the refinement proved from the
   invariant of `WikiFateProofs`.
2. An abstract election (a connection that has not been told to close belongs to who has
   the lock) that `ChannelLeader` implements while Redis answers.
3. Start-up recovery in `KnowledgePipeline`; the answer stream as a module of its own.

## 6. Checking

    tlc -config EnrichmentFanOut.cfg MCEnrichmentFanOut.tla
    tlc -config PipelineLifecycle.cfg MCKnowledgePipeline.tla
    tlc -config WikiQueue.cfg MCWikiQueue.tla
    tlc -config WikiFaults.cfg MCWikiQueue.tla
    tlc -config ImageFanIn.cfg MCImageFanIn.tla
    tlc -config ApprovalGate.cfg MCApprovalGate.tla
    tlc -config QAQueue.cfg MCQAQueue.tla
    tlc -config ChannelLeader.cfg MCChannelLeader.tla
    tlapm EnrichmentFanOutProofs.tla
    tlapm ApprovalGateProofs.tla
    tlapm WikiQueueProofs.tla
    tlapm WikiFateProofs.tla
    tlapm KnowledgePipelineProofs.tla
    tlapm ImageFanInProofs.tla
    tlapm QAQueueProofs.tla
    tlapm ChannelLeaderProofs.tla

and likewise for the other configurations. Each run takes up to three minutes with two
workers, each proof module from nothing up to four. Faulty variants of some operators stand
beside them, marked "Faulty variant": each is a plausible bug, no specification uses it, and
substituting it for the right operator breaks the property `PROJECT.json` names.
