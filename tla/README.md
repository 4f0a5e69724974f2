# A verification of Avaloka

Avaloka is a conversational data analysis service. A FastAPI process
(`src/app/api/server.py`) takes uploads and chat turns, a LangGraph graph
(`src/app/api/workflow.py`) turns a message into a plan, generated and checked
code and its execution, Redis holds the sessions, and a Celery beat and workers
run what was scheduled. This directory holds TLA+ models of the parts in which
concurrency, failure and state kept over time decide whether the program is
right, TLC configurations that check them on small instances, and TLAPS proofs
for instances of any size.

Source lines are given as `file:line` below; `SS` is
`src/app/services/session_service.py`, `SV` `src/app/api/server.py`, `WF`
`src/app/api/workflow.py`, `PL` `src/app/agents/planner.py`, `VA`
`src/app/agents/validator.py`, `CO` `src/app/agents/coder.py`, `PS`
`src/app/services/persistence_service.py`, `CA` `src/app/core/celery_app.py` and
`MT` `src/app/agents/mta_v2/agent.py`.

Contents: [inventory](#inventory), [plan](#plan), [modules](#modules),
[runs](#runs), [fairness](#fairness), [bounds](#bounds-and-assumptions),
[proofs](#proofs), [disagreements](#where-the-code-and-its-comments-disagree),
[limits](#what-is-not-covered).

## Inventory

### Parts that are modelled

**Session store** (SS, `src/app/core/cache.py`). State: per session a JSON blob
`sess:{sid}`, a summary `sess:{sid}:meta`, per user the set `user:{uid}:sids` and
the index entries `user:{uid}:ds:{dsid}`; in the process, one asyncio lock per
session and a circuit breaker (`CACHE_DEGRADED_UNTIL`) that any failed cache
call opens for 15 seconds. Operations: `get_session`, `save_session`,
`update_session`, `delete_session`, `refresh_session_ttl`,
`find_session_by_dataset_for_user`, and `DELETE /datasets/{id}` in SV, which
deletes the keys itself. Nearly every other component reads a session, changes
its copy and writes the whole dict back; only some go through `update_session`.
What is hard: every await lets another coroutine in; a `SET` that timed out may
still be executed; `None` means missing, unreadable or skipped; the four keys
are written one after the other. It is correct if locked updates are not lost,
an acknowledged write is stored, a deleted session stays deleted, a dataset
with a session is found and one without is not.

**Chat turns** (`send_message`, SV:4850). State: the running task, the
`pending_turn` record in the session, its copy in the process
(`_PENDING_TURN_MEM`). A turn that misses its deadline is answered with a
handle; `GET /threads/{id}/pending-turn` is polled. What is hard: the task ends
before, while or after the handle is registered, two clocks measure the
deadline, Redis loses the update, an old dict is written over it. It is correct
if a poll gets the outcome that is there, and none says "running" for ever.

**Uploads** (`POST /api/upload`, SV:1785; `_finalize_upload_storage`, SV:1705 ff).
State: the push of the file to object storage, the session, the finalizer left
behind. What is hard: the push ends before or after the session is saved, the
request fails and rolls back, other requests write the session back without the
location, Redis hides the session from a check. It is correct if the location
ends in the session, a rolled back upload leaves nothing, and the object of a
session in use is not deleted.

**Scheduled tasks: dispatch** (CA, `src/app/agents/scheduler.py`,
`DELETE /tasks/{id}`). State: a RedBeat entry (definition, run count, task
list) and its place in the sorted set. What is hard: a scheduler that dies
between reserving, sending and recording a run, dispatches that fail, a
cancellation in the middle of a tick. It is correct if `max_runs` is kept, a
cancelled schedule stops and the list of runs is the runs.

**Scheduled tasks: workers** (CA, `src/app/agents/mta_v2/ray_trainer.py`,
`gcp/submit_ray_job.py`, `gcp/wait_for_ray_job_completion.py`). State: a row of
`scheduled_runs` per run and, for a training, a Ray job of its own. What is
hard: each write of the row may fail and is only logged, runs overlap, a POST
is repeated when it got no answer, a process is killed at the hard time limit.
It is correct if a row tells what its run came to, runs are numbered in order
and no success hides a job that goes on or failed.

**Ray jobs** (`src/app/infra/ray_job_runner.py`, `ray_jobs_service.py`,
`ray_jobs_store.py`). State: a row of `ray_jobs`, the job on the cluster, the
thread that polls it, the owner's requests. What is hard: runner, refresh and
stop write one row without a lock, each with a status it read earlier; a
backend dies, a Ray head forgets its jobs. It is correct if nobody makes up an
end, and the row of a job that ended comes to tell it.

**Product analytics and telemetry ingest** (`src/app/analytics/`,
`src/telemetry_service/`). State: the tables `analytics_events`,
`analytics_optout` and `analytics_meta` that all replicas share, the export
cursor, the events of the ingest. What is hard: ids are drawn in one order and
committed in another, batches overlap, an opt-out comes between the check of a
batch and its commit, replicas mint the pseudonyms' secret at once, an answer of
the ingest is lost. It is correct if what was answered 202 is kept, an opt-out
deletes all there is, and the cursor passes nothing that should have gone.

**Model training through the chat** (MT, PL, WF, `send_message`, CA). State: the
training fields of each dataset's session, the same fields and some flags in the
checkpoint of the thread, the tasks the agent scheduled. What is hard: a plan is
made, updated, confirmed and trained in different turns; a session and a
checkpoint hold overlapping fields with different lifetimes; a scheduled pass is
recognised by flags; the LLM may call the agent's tools in any order. It is correct
if nothing trains but a plan the user was shown, for the dataset the turn is
about, and once per confirmation.

**Coding subgraph** (`build_coding_graph`, WF:485). State: error flags,
feedback, retry count. The coder and five checks in a loop; checks are skipped
and then leave their flag as it was. It is correct if code that comes out
without a flag was accepted in its final form and the coder is told why its
code came back.

**Chat graph** (`build_graph`, WF:1065; nodes in PL,
`src/app/agents/avaloka_agent/`, `infra_agent.py`). State: the channels of
`ETLState`, which a `MemorySaver` keeps per thread from one turn to the next
unless somebody writes them. What is hard: about a dozen channels decide the
route, several nodes write each, and some keep what an earlier turn put there.
It is correct if a routing decision holds for its turn, only accepted code is
executed, a turn is about its own message, and each turn ends.

### How they interact

```
 browser -> SV --- invokes ----> chat graph --- code_etl ---> coding subgraph
             |  \                    |
             |   deferred turns      +-- schedule_task ---> RedBeat entry -> workers
             |  /                    +-- provision, execute -> Ray, Kubernetes
             v v                     +-- train_models ------> trainers, service
        session store (Redis)  <--- upload finalizer, sampling, persistence

 workers ---> scheduled_runs (rows), Ray jobs     runner, owner ---> ray_jobs (rows)
 browser ---> collector (replicas) ---> Postgres ---> exporter ---> ingest
```

Calls within the process are coroutines on one event loop or threads of its
executor; everything between processes goes through Redis, object storage or
the database. The deferred turn and the finalizer meet other requests only in
the session: `DeferredTurns` and `UploadFinalizer` carry the key that matters to
them and the two kinds of writes of `SessionStore` (an update on top of what is
stored, and a whole dict read earlier). The chat graph meets the coding subgraph
as a call, and the scheduler as the two channels `task_schedule` and
`task_operation`. `TrainingFlow` looks at the same turns as `ChatGraph` through the
training fields: it has the router and the scheduler node again with what
training makes of them, and the analyses as one step. `ScheduledRuns` begins with
the message `Scheduler` sends.

### Parts that are not modelled

`PROJECT.json` lists them with the reason. In short: sampling, execution on
Kubernetes, context memory, persistence, lineage, model fallback, the trainers and
the inference service behind the training agent, the mission command line with
its coordinator and thread bindings keep state and could be modelled (see the
plan); profiling, preparation, evaluation, visualization, narration, connectors,
retrieval and the benchmark compute on data frames and text; the user interface
and deployment files hold no logic of this kind.

## Plan

The order follows what would hurt most: state every request depends on, then
the long-running operations on it, then the graph.

| # | Module | Composes | Abstract specification | State |
|---|---|---|---|---|
| 1 | `SessionStore` | | `SessionRegister` | done, proved |
| 2 | `DatasetIndex` | | a set of live sessions | done, proved |
| 3 | `DeferredTurns` | the writes of 1 | at most one outcome per turn | done, proved |
| 4 | `UploadFinalizer` | the writes of 1 | | done, proved |
| 5 | `Scheduler` | | at most `MaxRuns` dispatches | done, proved |
| 6 | `CodingLoop` | | | done, proved |
| 7 | `ChatGraph` | 6 | `CodingLoop` | done, proved |
| 8 | `ScheduledRuns` | 5's messages | a log of runs | done, proved |
| 9 | `RayJobs` | | one end per job | done, proved |
| 10 | `AnalyticsExport` | collector, exporter, ingest | a set of events | done, proved |
| 11 | `TrainingFlow` | 7's turns | a plan is shown, confirmed, trained | done, proved |
| 12 | `Persistence`: retries, analyses rows, the rebuild of a session | 1 | | open |
| 13 | `MemoryPlane`, `ModelFallback` | 7 (a model that answers) | | open |
| 14 | `Coordinator`: shards, ledger and budget | | | open |
| 15 | thread bindings and `refresh_session_ttl`, next to 2 | 2 | | open |

Runs: one per question, small enough that the whole set stays within minutes;
behaviours that only contradict a comment gave way to runs of new modules and are
described [below](#where-the-code-and-its-comments-disagree). Proofs: every
safety property a run checks is proved; what is open comes with the modules
that are.

## Modules

Actions are named after the function or the node they model; `map` in
`PROJECT.json` gives the lines of each definition. Definitions whose comment
starts with "Mutant" are not part of the specifications: each is a plausible
bug of the code that one of the properties must catch.

### SessionRegister, SessionStore, SessionStoreProofs

`SessionStore` is one session. A dict is a function from its keys to the
operation that last set them, which is all that lost updates, stale writes and
revived sessions need. `blob` is the stored session; `breaker` the circuit
breaker; `lockQueue` the asyncio lock with its waiters; `copy` the dict a turn or
handler read at its start; `merged` the dict an operation is writing; `late` a
`SET` the client gave up on. `Enter`, `LockedRead`, `SetBlob` and `SaveIndexes` with
their failing forms are `update_session` and `save_session`, one step per await;
`Load` and `SaveWhole` the unlocked whole-dict writers; `DeleteBlob` a deletion;
`LateSet`, `TripBreaker` and `BreakerCloses` the environment. A session rebuilt
from its analyses row (SV:4919) is the third disjunct of `Load`.

`SessionRegister` is what the docstring of `update_session` promises: each update
lands atomically on top of what is stored. With locked updates as the only
writers, `SessionStore` implements it with `register <- blob`. With the unlocked
writers it does not (see the disagreements).

### DatasetIndex, proved about in SessionStoreProofs

The four keys of a user's sessions as sets, and the operations on them await by
await (`await` is the next one of each operation), each of which can fail;
`_mget_safe` (SS:487) turns a failed read into a missing value, so `ReadSome`
picks any subset. `before` is history: which operations were over when one began,
so that properties can say "saved before the lookup began". Index entries expire
(`refresh_session_ttl`, SS:775, does not renew them).

### DeferredTurns, DeferredTurnsProofs

The turns of one thread whose session is the one they write. `stored` is
`pending_turn` in the session, `mem` the copy in the process, `clock` tells the two
instants from which the deadline is measured (SV:6974 and the call of
`asyncio.wait`). `Overlay` and `SaveWhole` are the turn's whole-dict writes, with the
`pending_turn` it read at its start. `Poll` is what `get_pending_turn` answers.
`Restart` ends the process: running turns are `"killed"` and `mem` is gone;
`survived` notes the outcome the session had by then.

### UploadFinalizer, UploadFinalizerProofs

One dataset of an upload: `push`, `object`, `session` (the set of keys that matter,
or `Gone`), the request, the finalizer with its numbered checks, requests that
write back what they read, and deletions. Redis may fail at any read, which then
answers `None` (`Reads`), and at any write, which may have been stored all the same.
History tells which faults bear on a property: `missed` holds the checks a fault
kept from their work (an unread session ends the finalizer, and with it all later
checks), `unrolled` that a fault kept the session of a failing request, `seen` that
a check has read the session. `OnlyOrphansDeleted` has one exception, `0 \in missed`:
the finalizer's first check does take the object of a session it cannot read (see
the disagreements). That no later check does is what the property is about: the
saves of others between the checks, and their faults, must not make one.

### Scheduler, proved about in ScheduleProofs

One entry: `definition` with its enabled flag, `count`, `taskIds`, its membership in
the sorted set, and the scheduler's tick as the Redis calls between which it can
die (`Load`, `Reserve`, `Send`, `Disable`, `Record`). RedBeat itself is not in the
repository: `Load`, `Reserve` and the lock that lets one scheduler act at a time
are modelled from how `AvalokaScheduler` and `AvalokaEntry` use it.

### ScheduledRuns, proved about in ScheduleProofs

The runs of one schedule from their dispatch. A worker takes the next message
(`Take` counts the schedule's rows, `InsertStart` writes the row with the number
that follows), runs the task, and writes the end (`RecordFinish`, `RecordFailure`).
A training submits a job (`PostUnanswered`, `SubmitJob`) and waits for it. `lost` holds
the writes that failed, `killed` the runs whose process died: messages are
acknowledged when taken, so such a run is not executed again.

### RayJobs, RayJobsProofs

One job in DIRECT mode. `ray` is what the cluster answers, `row` the status in
`ray_jobs`, `runner` the thread with the status it polled last, `req` the owner's
requests with the status each has in hand. `_refresh` and `stop_job`
are a load, a question to Ray and a write, and anything may happen between them;
the runner's last write is past its deadline (`RecordTimeout`) or at the end.

### AnalyticsExport, AnalyticsExportProofs

One analyst's events. Each replica has one batch in hand (`req`), whose rows have
ids before they are committed; `table` holds the committed rows with the secret
their pseudonym is keyed by. The exporter reads behind its cursor (`Compose`, one
step: an opt-out between its lookups only leaves out more), posts and advances;
the ingest keeps an event once, may fail after keeping it, and rejects what it
must. `accepted`, `removed`, `overtaken` and `skipped` are history. What an opt-out
does not stop is in the model and in no property (see the disagreements):
`OptOutDeletes` is about the rows its delete can see.

### TrainingFlow, TrainingFlowProofs

The turns of one thread over several datasets. A plan is the number of the turn
that made it, so that "shown earlier" and "of this dataset" can be said. `state` is
what the nodes read and `MemorySaver` keeps, `session` what each dataset's session
holds, `tasks` what a worker will run with the state of its turn. `Seed` is what
`send_message` puts over the checkpoint; the flags `training_scheduled`,
`start_scheduled`, `stop_scheduled` and `task_operation` it does not name. `Called` and
`Stopped` are what the planner writes, `Gated` the plan gate, `RoutePlanner` the
router with its keyword guesses as choices. `Execute` is the training agent: the
set of outcomes of one call, with the tools of the LLM's answer (up to two) in any
order, and the same operator is what a worker runs in `RunTask`. `Overlay` and
`SaveTurn` are the merge at the end of a turn. The words of messages, the validity
of data and plans, provisioning, transfers and the execution of analyses are
choices or left out, and so are the dataset versions a modified dataset gets.

### CodingLoop, proved about in ChatGraphProofs

`step` is the node that runs next, `draft` the fields of `CodingAgentState` that the
nodes and the router read: the four error flags, `retry_count`, whether the
blueprint has a contract, whether the coder refused, the feedback. What a check
finds is a choice. `verdict` is history: what each check said of the *present*
script, reset by the coder; the flags in the state are not reset, and the
properties relate the two. `Reviews` are the reviewer's answers: a rejection with its
rationale, one with an empty rationale (the coder then makes a new blueprint,
CO:978), and a pass, which a reviewer that is switched off or gives no usable verdict
(VA:2523-2536) counts as.

### ChatGraph, ChatGraphProofs

`turn` numbers the turns of a thread, `node` is the graph's next node, `etl` the
channels the routers read. A channel that answers a message (`plan`,
`task_operation`) holds the number of its turn, so that a leftover is visible;
`task_schedule` holds who set it; `coder_definition` holds the verdicts on the
code it stands for. `SendMessage` is the reset and the byte routing of
`send_message`; each other action is a node with the router behind it. Inside
`code_etl` the graph takes the steps of `CodingLoop`, which `ChatGraph` extends.
Left out: training a model (`TrainingFlow` has it), `deploy_on_k8s`, a source the
user switches to within the turn, the planner without a model (it then makes a
stub plan), the planner's handler of an exception after a first tool call with an
empty plan and a `task_schedule` (PL:6357-6398), the reply of the transfer wizard when
`ready_to_code` is preset (PL:4956-4970), and, in `RouteAfterExecution`, an execution
without an error that has neither a result nor a preview (WF:443-451; the model asks
only for success). No property depends on these.

The `MC*` modules give the constants of a component values for TLC where a
function, a definition or a symmetry is needed; `ChatGraph`, `ScheduledRuns`,
`RayJobs` and `AnalyticsExport` need none.

## Runs

| Run | Shows |
|---|---|
| `session_locked` | Three `update_session` calls, two on one key, against a Redis that fails, times out and answers late: `NoLostUpdate` (the store implements the register), `AckMeansStored`, `EveryCallReturns`, and `LockInv`, the reason. |
| `session_mixed` | An update, a turn, an unlocked handler and a deletion: `StaysDeleted` (only a turn's rebuild revives a deleted session) and `TurnWritesAreAttempted`. |
| `index` | A save, a `delete_session`, a `DELETE /datasets/{id}` and a lookup, half done beside each other: `FindsLive`, `DeletedStaysHidden`. |
| `turns` | Three turns, one of which may overrun, and a restart: `OutcomeIsServed`, `DeferredTurnEnds`. |
| `upload_stored` | One upload, two writers of old dicts, one deletion, any faults of Redis: `RollBackLeavesNothing` (or a session a fault kept, never a lone object), `LocationSurvives` (if one check after the last write-back does its work), `OnlyOrphansDeleted` (after the first check, whatever reads fail). |
| `scheduler` | A schedule of three runs, two failures, two deaths, a cancellation: `RunsWithinBudget`, `CancelStops`, `RunsAreRecorded`, `BoundedScheduleEnds`. |
| `graph` | Two turns over a large dataset, all intents, answers, verdicts and failures: `ByteRoutingKept`, `OnlyAcceptedCodeRuns`, `NoErrorMeansAccepted`, `RetryKnowsItsFault`, `TurnEnds`. |
| `workers` | Three runs on two workers, with a lost write, a killed process and two unanswered POSTs: `NumbersFollowStarts`, `RowsTellOutcome`, `SuccessMeansJobDone`, `EndedJobsAreListed`, `EveryRunEnds`. |
| `rayjobs` | A job, its runner and two requests, with two faults: `EndsAreTrue`, `StaleRowsHaveCause`, `RowSettles`, `CallReturns`. |
| `analytics` | Two replicas with overlapping batches, an opt-out that may be taken back, a fault, an exporter that takes a row at a time: `AcceptedIsKept`, `OptOutDeletes`, `CursorPassesSent`, `EveryRowLeaves`. |
| `training` | Four turns over two datasets, with every reply, every answer of the LLM, failures, restarts and workers: `OneRunPerConfirmation`, `TrainsShownPlans`, `ServiceTasksAct`. |
| `graph_plan` | A comment of the planner, and a behaviour of the code that breaks it: the second turn's coder is handed the first turn's plan (`CodesThisTurnsPlan` is violated). |

`graph` also checks the type invariant of its module, whose range of `retry_count`
says that the coder runs at most three times. The other type invariants are
part of the invariants proved, which TLC checked with the constants of the runs
before they were proved, without being part of a run.
For every property of a passing run `PROJECT.json` names a mutant: a plausible bug
in a definition that models code, with which TLC finds the property violated.

## Fairness

Fairness is assumed only where the code's scheduling gives it:

- `SessionStore`: a coroutine inside a write gets on (`WF_vars(Write(t))`), because
  each await on Redis ends by itself, by `asyncio.timeout` or the socket timeouts of
  redis-py, and asyncio's lock is first come, first served. Nobody has to start
  an operation, and Redis has to answer nothing.
- `DeferredTurns`: the event loop runs what is ready, a graph returns or raises,
  and `asyncio.wait` fires at its deadline. That a turn is slow is never assumed.
- `Scheduler`: beat keeps ticking. Failed dispatches and deaths are bounded by
  constants (`MaxFailures`, `MaxCrashes`): without an end to them no schedule ends.
- `ChatGraph`: LangGraph runs an invocation to its end (`WF_vars(GraphStep)`);
  nobody has to send a message. That turns end does not rest on fair choices:
  the loop of the coder and the provisioning detour end by their own counters
  and flags (`TurnsShrink` proves it).
- `ScheduledRuns`: workers take the next message and get on with their runs, and a
  Ray job ends. Nothing has to be dispatched, and a process may be killed.
- `RayJobs`: the runner's thread goes on (its deadline bounds its polls), a request
  that was taken up ends, and the owner's panel, which polls, asks again
  (`WF` of `LoadRecord`). Ray need not end the job nor remember it.
- `AnalyticsExport`: each replica works on what it has in hand and the exporter's
  cron comes again; the browser sends nothing and faults are bounded.

`DatasetIndex`, `UploadFinalizer` and `TrainingFlow` have safety properties only:
in the last, what happens next is the user's choice at every turn.

## Bounds and assumptions

- `SessionStore`: three operations on two keys suffice for a holder, a waiter on the
  same key and one on another; the proofs have any number. Assumed:
  Redis has executed or dropped a late `SET` before the breaker's 15 seconds are
  over (`BreakerCloses`), and there is one API process: the lock is one of the
  process (SS:715), so two replicas could lose updates to each other.
- `DatasetIndex`: two datasets with a stored session each and a third session that
  is saved and deleted; at most two operations run at a time (`MaxInFlight`), since
  each pair of awaits meets there, and one entry may expire (`Expiring`). The
  deletion by dataset is of the other dataset, so that it only meets the lookup
  through the shared set.
- `DeferredTurns`: three turns, one slow: the slow one, one that reads the session
  before its stash and one after; one restart (`MaxRestarts`), as a second one finds
  what the first one left.
- `UploadFinalizer`: the four checks of `_UPLOAD_REASSERT_DELAYS_S`, two writers and
  one deletion; faults are not bounded. The deletion of an orphan is taken to
  succeed, which is the worst case for `OnlyOrphansDeleted`.
- `Scheduler`: `max_runs` 3, `MaxCrashes` 2, `MaxFailures` 2; `MaxCount` 8 bounds the
  reservations and is more than these allow, so it never stops a schedule.
- `ScheduledRuns`: three runs on two workers, so that a run overlaps one and
  follows another; `MaxRetries` 2 POSTs of a job, `MaxUnanswered` 2 (one job may
  fail to start), one lost write, one killed process. The proofs have any numbers.
- `RayJobs`: two requests, so that a refresh and a stop meet the runner and each
  other; two faults (`MaxFaults`).
- `AnalyticsExport`: two replicas, two events in two overlapping batches, ids 1 and 2
  (`MaxIds`: one can commit behind the other), two calls of the opt-out (out and in
  again), one fault. A
  row at a time (`Limit` 1) makes the cursor stop between them. Assumed: Postgres
  draws ids in order and shows a row when its transaction commits.
- `TrainingFlow`: four turns: one to make a plan, one to confirm, and two more in
  which a leftover of either, or another dataset's, can be taken up; two datasets.
  An answer of the LLM has at most two calls of tools: the effect of a tool depends
  only on the fields its predecessor left.
- `ChatGraph`: two turns, as what a turn can inherit is what one before it left,
  whichever that was; size "large" and two fidelities, which are
  the ones in which byte routing, the execution profile and the coder's policy
  disagree. The module and its proofs have all fidelities and sizes and any
  number of turns. Exceptions are modelled where code calls a model without a
  handler (coder, reviewer) and for the scheduler's Redis calls.

Deadlock is not checked where all operations may be over (`DatasetIndex`,
`DeferredTurns`, `UploadFinalizer`, `Scheduler`, `ScheduledRuns`, `RayJobs`,
`AnalyticsExport`, and `ChatGraph` and `TrainingFlow` after their last turn).
`SessionStore` never stops, since the breaker opens and closes.

## Proofs

All theorems hold for every value of the constants that meets the named
assumptions of the modules.

**SessionStoreProofs.** `TypeCorrect` proves `TypeOK` with one addition: a turn or
handler that is working holds a dict (it stopped otherwise). So the stored
session is a whole session or absent, never a bare delta.
`TurnsAreAttempted` follows: what a turn overlays always has its `user_id`, so
`save_session` never refuses it. `LockCorrect` proves `LockInv` and
`LockedUpdatesAreAtomic` the refinement of `SessionRegister`, both under
`OnlyUpdates` (the sets of turns, handlers and deletions are empty, and every task
is an `update_session` call). `LockInv` is inductive together with the types: only
the head of the queue is past its read; what it is about to write is the stored
session with its own key set; and if a `SET` is late then the breaker is open and
the late value is still the stored session with the late writer's key. The
last conjunct is why a late `SET` loses nothing: it opened the breaker, reads
under an open breaker give `None`, and a delta on `None` is refused, so nothing can
be written until the `SET` has landed. That is the refusal listed first among the
disagreements: the code is safe here *because* it drops updates there.
`AcksAreStored` needs one invariant more, `AckInv`: between its `SET` and its return
the holder's value stays in the blob, since by then no `SET` is late.
`DeletedStaysDeleted` is for all writers. With nothing in flight nobody holds a
dict to write; whoever begins after the deletion reads that the session is gone,
and only a turn makes something of that.

**SessionStoreProofs, the user's keys.** (`IndexSpec`, `IndexInv`.) Any sessions,
datasets and calls, and no bound on how many run at a time. One lemma per
operation says what one await of it may change (`Moves`: nobody else's variables,
and who is over takes no step; `Changes`: blobs and members go only with a
deletion of their session, come only with a save of it, and summaries come also
with a reader that owes a backfill); everything else follows from these. `OrderInv`
says that an operation lists only such as were over when it began. `KeptInv` is
what makes lookups work: a session is in its blob (in the set) when a save wrote it
and each deletion of it that began was over before some such save began; a step
that removes it would be of a deletion that is not over. `LookupInv` follows a
session a lookup must find through its stages, and `TargetInv` keeps the deletion
of a dataset to that dataset. `HiddenInv` says where a deleted session cannot be: in
no blob and no summary, and in nothing that a later reader found, owes or answers,
provided that every save of it was over before the deletion began and every
reader was over before it or began after (`Alone`).
`DatasetsAreFound` and `DeletedAreHidden` are read off the two.

**DeferredTurnsProofs.** Assumes that one turn of the thread can overrun
(`Slow = {s}`; the others are any number). With two slow turns `OutcomeIsServed`
does not hold: each overwrites the one record there is. `SlowRecords` is the heart:
each copy of `pending_turn`, stored, in the process or held by another turn, is
the slow turn's, so whatever is written back is about it; `MemFirst` says that
the process has the outcome before Redis is asked to keep it, and `Survivors` that
an outcome the session had at a restart is in every dict that can be written over
it since.

**UploadFinalizerProofs.** Any requests, deletions, checks and faults. `PushInv` and
`RequestInv` order the finalizer behind the request and the push. `RolledBack`: a
rolled back upload has no session for the first check to find, or a fault kept it.
`KeptInv`: a session that was saved is never missing without a deletion, and after
each check that did its work it has the location unless a dict was written back
since (`WrittenSince`), so one such check after the last write-back suffices.
`OrphanInv`: an object that goes without a deletion went at a first check, which
read no session, and the finalizer is over with it.

**ScheduleProofs, the scheduler.** No bound on `MaxRuns`, deaths or failures.
`CountInv`: while the schedule is enabled its count is not behind its dispatches.
`BudgetInv`: whoever can still dispatch has one dispatch left. `CancelInv`: at
most one dispatch follows the first cancellation. `RecordInv`: `task_ids`, and the
copy of it the tick holds, list the dispatches in order and miss at most one for
each death.

**ScheduleProofs, the workers.** (`RunsSpec`, `RunsInv`.) `StageInv` ties row and
job to the place of the run, `OutcomeInv` the row to the outcome, and
`RowCountInv` orders the numbers: a start counts all that the starts it saw had
counted, and those rows, so its number is higher (`NumbersAscend`, with facts
about cardinalities from the library).

**RayJobsProofs.** `HandsInv`: whoever has an end in hand, the runner, a request or
the row, has the end of the job; with `JobInv` (Ray answers an end only of a job that
ended so) no order of writes makes one up. `RowInv` keeps the reason why a row
is behind.

**ChatGraphProofs, the coding subgraph.** The inductive invariant `IInv` has five
parts: the types; `Unseen` (a check whose turn has not come has said nothing of
the script); `JudgedInv` (a check whose turn has come has judged the script and
its flag says so, or was skipped for a hard error, or, the contract only, had
nothing to check and its flag is clear); `FeedbackInv` (feedback from a check is
from one that rejected this script, and only a rejection without a word leaves
none); `PassesInv` (the coder is entered with a pass
left, and again only with an error). Without `JudgedInv`'s middle case
`NoErrorMeansAccepted` would not be inductive: flags of skipped checks are stale,
and only the hard error that caused the skip keeps the script out. `AcceptedOnly`
and `FaultKnown` are the two properties; `CodingTypes` says that the coder runs at
most three times.

**ChatGraphProofs, the graph.** `ImplementsCoding` is `Spec => CodingSpec`: the
graph touches the subgraph's variables only through the subgraph's own actions, so
the theorems of `CodingLoop` hold in every turn (`GraphAccepts`). The graph's
invariant `GInv` adds to the types and to `ByteRoutingKept` the part `CodeInv`:
code in the state was accepted; up to `code_etl` a turn has neither code nor a
plan of metrics, which is what `send_message`'s reset is for; the executing nodes
are entered with code. The planner has many ways to end, so the lemmas about it
only say what each of them leaves alone (`Keeps`), and one lemma (`PolicyDecides`)
says that the coder's policy has the last word on where code runs. `GraphTypes`,
`RoutingKept` and `OnlyAcceptedRuns` follow. `TurnsShrink` is the part of
`TurnEnds` that can be proved: a number, `Ahead`, gets smaller with each step of
the graph, so no turn goes on for ever. Nodes come in an order (`NodesAhead`) that
only the detour to provisioning goes against, and it does so once, because the
planner never clears `infrastructure_provisioned` (`Keeps`); within `code_etl`
each return to the coder takes one of three passes (`CodingAhead`, which needs
`PassesInv`). What TLC adds is that a turn is never stuck.

**TrainingFlowProofs.** Any datasets and any number of turns. `PlanInv`: a plan in a
session or in the state is of its dataset, and an earlier turn's until the agent
of this turn has acted; that is why only a plan that was shown can be trained,
even by a flag a former turn left behind. `MarkInv`: the marks of a confirmation
and of the agent's schedules live in one turn. `TaskInv` says what the state handed
to a worker holds for each kind of pass, and `CountInv` counts: whoever may
still train, or schedule, was confirmed by a confirmation that has not been used.
`OneRunPerConfirmation`, `TrainsShownPlans` and `ServiceTasksAct` are conjuncts
(`CountInv`, `ActedInv`). The planner's many answers are covered by one relation
(`Plans`: a plan is dropped or kept, and nothing is confirmed), and a call of the
agent by lemmas about its set of outcomes.

**AnalyticsExportProofs.** Any replicas, batches and bounds. `SecretInv`: replicas that
have a secret have the one stored, so all rows carry one pseudonym, and
`OptOutDeletesAll` follows. `RequestInv`: what a batch will not insert is in the table
or was removed. `IdInv`: ids are drawn upwards and once, also among rows
that are not committed. `CursorInv` and `ExportInv` carry `CursorPassesSent` through
the steps of an export: between the cursor and where it will go are only rows of
the export and rows that were drawn and not visible when it was composed.

**Only model-checked.** Liveness (`EveryCallReturns`, `DeferredTurnEnds`,
`BoundedScheduleEnds`, `TurnEnds`, `EveryRunEnds`, `RowSettles`, `CallReturns`,
`EveryRowLeaves`), which is out of the prover's reach, and the violation that
`graph_plan` shows. Every invariant and action property the runs check is proved.

## Where the code and its comments disagree

With a run that shows it:

- `graph_plan` (PL:5079). The planner clears a plan of an earlier turn on one path
  (PL:5494-5497) and on the path analyses take returns early with it: the coder
  codes the plan of the turn before.

Seen while modelling, without a run of their own:

- The finalizer takes a session it cannot read for a deleted one (SV:1755, whose
  comment says "Upload rolled back or dataset deleted before the push finished.")
  and deletes the object of a dataset that is in use. It is the exception
  `0 \in missed` of `OnlyOrphansDeleted`: without it TLC finds the property violated
  as soon as the first check of a saved session reads `None`.
- An opt-out is described as "Their rows deleted; later events refused; never
  exported" (`src/docs/analytics/DESIGN.md:273`). Rows of a batch that was let in
  before (`src/app/analytics/collector.py:216`) are stored after the delete and stay;
  rows the exporter chose before the opt-out are posted after it
  (`src/app/analytics/export.py:207-214`); and rows that stayed are exported if the
  analyst opts in again before an export has passed them. In `AnalyticsExport`, `optedOut # {} => table = {}` is violated
  by `TakeBatch`, `InsertFresh`, `SetOptOut`, `Commit`. `Compose` leaves such rows
  out while the opt-out stands.
- `save_session` is documented not to skip writes under an open breaker
  (SS:660-662). `update_session` (SS:740) re-reads under the lock; with the breaker
  open that read is `None`, the mutator runs on `{}` and the result is refused for
  want of a `user_id`.
- Fidelity alone presets a schedule (`execution_profile.py:127`), and the router
  (WF:271-275 says it must not) goes to the scheduler in a turn that has no code.
- After a broken contract the reviewer's answer (VA:2539) replaces the violation
  that the coder's comment (CO:973-976) says it has in hand; `RetryKnowsItsFault`
  exempts a coder sent back over its contract for that reason.
- A cancelled training plan comes back. The planner answers "Stopped the pending
  training flow. No training will start." (PL:5585) and sets
  `clear_training_state`; `send_message` pops the fields from its copy (SV:6291) and
  then merges the copy into the stored session (SV:6346), where they stay. The
  plan is pending again in the next turn, and a "confirm" trains it. Only an executed
  analysis that saves the whole copy, or becomes the dataset, drops them. In
  `TrainingFlow` this is `Overlay(session[Dataset])`, whatever `state.clear` says.
- The first pass of a Ray training leaves `training_scheduled` in the checkpoint
  and `enable_training` in the session, so the next turn that reaches the agent
  trains in the request, while the scheduled task trains too
  (`tests/test_mta_v2_flows_unit.py:229`: "Training runs only on an explicit
  confirmation of the plan."; `tests/test_training_flag_hygiene.py:1-3`). One
  training and one task per confirmation is what the code keeps to, which is
  `OneRunPerConfirmation`.
- The result of a scheduled training never reaches the session: `RunTask` changes
  neither `state` nor `session`, and the plan stays pending there.
- A leftover `task_operation` goes first in the scheduler node
  (`src/app/agents/scheduler.py:428`) and the schedule of a confirmed training is
  dropped; the flags that announced it stay.
- `submit_ray_job` repeats a POST that got no answer without an id of its own, so a
  job that started all the same runs untracked; one failed poll ends the runner's
  call with ERROR while the job runs; a stop may write "stopped by the user" on a
  job that had just succeeded (`src/app/infra/ray_jobs_service.py:237`).
- The hard time limit of tasks lies below the soft one (CA:34), so a run that
  meets it is killed and its row stays "running".
- An event whose row commits behind the export cursor is never exported
  (`src/app/analytics/export.py:216`): `CursorPassesSent` and `EveryRowLeaves` name
  it as their exception.
- `GET /tasks` writes back the task list it read before its scan (SV:7356): a task
  cancelled meanwhile is listed again.
- A turn's whole-dict save (SV:6949) writes back every key as it was when the turn
  began, although the comment on the persistence worker's update (PS:674-676)
  says a concurrent turn's save and the update cannot discard each other; the
  models take these writes as what the code does.
- A turn that cannot read a live session rebuilds it from its analyses row
  (SV:4919) and saves the rebuilt dict over it.
- `DELETE /datasets/{id}` removes blobs and set members and leaves summaries and
  index entries (SV:8675), so a lookup may answer with a deleted session until
  the summary expires (`_load_metas`, SS:612). It answers 204 when the blobs could
  not be read and nothing was deleted (SV:8634).
- A turn that ends between the two deadlines is deferred and stashes nothing
  (SV:6974), and one that a restart kills never ends: they are the exceptions in
  `DeferredTurnEnds`. They, a stored "running" of a turn that a later one superseded,
  and one whose copy was dropped beyond 500 threads (SV:1294), are reported as running
  for as long as the session lives.
- `pending_turn` of a training turn is stored with the kind "analysis" when the
  record it carries the kind from was lost (SV:1272).
- A `save_session` that stored the blob and failed afterwards fails the upload
  before its session is among those to roll back (SV:2345), so the session stays.
- A scheduler that dies after `Send` runs the same occurrence again: `max_runs` is
  exceeded by one for each death, which `RunsWithinBudget` states.
- `infrastructure_provisioned` is kept by the thread although PL:5690 speaks of
  "this turn"; `task_operation` stays set when its handler raises; the byte
  routing answer "no" also clears a schedule the user asked for (WF:909).
- `_session_locks` (SS:722) grows by an entry for each session and is never trimmed.

## What is not covered

The contents of messages, plans, code and data are choices: nothing here says that
a plan fits its question or that code computes what it should, only what the
program does with either. Two API processes are modelled for the analytics only.
Restarts of the API process are in `DeferredTurns`, `TrainingFlow` and `RayJobs`,
not in the other modules about the API. Time is an order of events, except for the
deadlines named above. The components listed as not modelled are in `PROJECT.json`
with their reasons. Hazards that no property forbids, because the code has
them, stand in `PROJECT.json` with a note instead of properties.
