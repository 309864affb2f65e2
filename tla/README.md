# A TLA+ verification of the swarm control plane and the agent it is built on

The repository is AI-Manus, a web agent (backend, sandbox, Vue frontend), with
*Manu-Swarm* built into it: a control plane that discovers videos, takes them
through a media pipeline, and lets operators compose and publish clips.  The
project models the swarm's core: a durable job ledger in PostgreSQL, the worker
processes that lease its jobs, the pipeline and the publication that run as jobs,
the outbox that brings jobs to workers, the event stream that brings events to
the browser, the command gateway, the patrol and the telemetry.  It models the
upstream agent too: chat tasks and their runner, the two agent flows, session
documents and files, accounts, projects, skills, MCP tools, and the sandbox's
shell, files and timer.  Everything is translated from `src/backend/app`,
`src/backend/swarm_contracts`, `src/sandbox/app` and `src/frontend/src`;
`PROJECT.json` says which lines each definition stands for.

## 1. The system

| Component | State it keeps | Operations | Meets the others through |
|---|---|---|---|
| Job ledger (`application/worker.py`, `service.py`) | rows of `swarm_jobs`, one Task object per row | schedule, claim, heartbeat, execute, fail, dead-letter, cancel | transactions that lock the `swarm_config` row |
| Pipeline handlers (`Worker.prepare`, `Worker.apply`) | status and metadata of Candidates, Compositions, trends; edges | DISCOVER, NORMALIZE, DEDUPLICATE, ANALYZE_VIDEO, ATOMIZE, CLUSTER, ROUTE, COMPOSE, RENDER, PUBLISH, COLLECT_METRICS, UPDATE_MODEL | jobs that schedule jobs |
| Publication (`Worker.publish_remote`) | `execution_intents`, the platform's posts, the Account | publish, intent, post, record | the account's status, the job's lease |
| Commands (`Service.execute`) | objects, configuration, idempotency records | create, update, approve, reject, publish, synthesize, cancel, pause, resume, configure, discovery | writes the same rows as the workers |
| Dispatcher (`infrastructure/dispatch.py`) | `outbox` | relay, republish due jobs | Celery queues, a Redis stream |
| Event ledger and stream (`Service.event`, `interfaces/api.py`) | `swarm_events`, one cursor per connection | append, stream after a cursor | WebSockets |
| Browser store (`frontend/.../control.ts`) | last sequence, connection flag, object lists, replay cursor | connect, reconnect, apply, refresh, replay | HTTP and WebSocket |
| Telemetry (`infrastructure/dispatch.py`, `api.py`) | a Redis key per agent, leases in the job rows | heartbeat, read | reads the ledger's rows |
| Media, providers | files, remote services | I/O | behind `prepare` |
| Chat tasks (`agent_domain_service.py`, `agent_task_runner.py`, `redis_task.py`) | session document, input and output streams, registry of tasks | chat, stop, join, run | WebSocket, Redis streams, asyncio tasks |
| Agent flows (`flows/*.py`, `agents/*.py`) | plan, memories, counters | plan, execute, ask, report, replan | events to the runner, tools of the sandbox |
| Sessions and projects (`mongo_session_repository.py`, `project_service.py`) | documents | update, delete, move, pin | notifications on a Redis channel |
| Files of a session (`agent_task_runner.py`, `file_service.py`) | sandbox files, the session's list, GridFS | synchronise both ways | the runner |
| Accounts and codes (`auth_service.py`, `email_service.py`) | user documents, session keys and index, cache entries | sign in and out, change, reset | MongoDB, Redis |
| Skills, MCP tools | packages, subscriptions; connections and tool names | sync, resolve; connect, call | the sandbox; external servers |
| Sandbox (`src/sandbox`) | tmux panes, files, one deadline | exec, input, kill; read, write, replace; extend, cancel | HTTP requests of the backend |

What is hard in it: a lease that runs out while its worker lives; workers that
die between two transactions; a broker that loses and repeats messages; answers
lost after an effect; operators who write the very rows a worker is about to
write; sequence numbers that become visible in another order than they are
drawn; sockets that close late.  In the upstream it is documents that are read,
changed and saved whole; coroutines that are cancelled inside their handlers; a
session whose status several writers settle; requests that share one shell or
one temporary file; caches that fail silently.  `PROJECT.json` lists each of these hazards at
its line with the properties that would catch it.

What would make each component correct:

- ledger: effects committed at most once; bounded, counted tries; settled jobs
  stay settled and agree with their Task; every job is settled in the end;
- pipeline: no candidate disappears between stages; duplicates are linked; trends
  count; a composition rests on atoms and a route; only an open job works;
- publication: one remote post per composition, never without a durable intent,
  an active account and a valid lease; all records of it agree;
- dispatcher: a persisted job reaches a worker whatever the broker does;
- event stream: the browser applies the committed prefix, in order, without a gap
  or a repetition, and catches up; its connection badge is right;
- commands: a repeated command has its first result, a stale one none; a replay
  shows the past as it was; discovery keeps at most one patrol per source;
- telemetry: an agent shown at work was there a moment ago;
- chat: a running session has somebody who will settle it, a stream loses no event
  and ends; flows: every call of the model has its response, a plan goes on where
  it stopped, a success has work behind it;
- documents, files, accounts: what was answered stays, except under the overlaps
  the code does not guard, and those are named;
- sandbox: a result belongs to its command, a file is what its requests made of
  it, the sandbox ends at the deadline it reports.

## 2. Modules

| Module | Models | Extends |
|---|---|---|
| `SwarmJobs` | the job ledger and its workers | |
| `JobPromise` | the abstract specification of the ledger | |
| `SwarmJobsProofs` | theorems about `SwarmJobs` | `SwarmJobs`, TLAPS |
| `SwarmPublish` | publication | `SwarmJobs` |
| `SwarmPublishProofs` | theorems about `SwarmPublish` | `SwarmPublish`, `SwarmJobsProofs` |
| `SwarmDispatch` | outbox, relay, broker | `SwarmJobs` |
| `SwarmDispatchProofs` | theorems about `SwarmDispatch` | `SwarmDispatch`, `SwarmJobsProofs` |
| `SwarmPipeline` | handlers from NORMALIZE to RENDER | `JobPromise` |
| `SwarmPipelineProofs` | theorems about `SwarmPipeline` | `SwarmPipeline`, TLAPS |
| `SwarmEvents` | event ledger, stream, browser connection | |
| `SwarmEventsProofs` | theorems about `SwarmEvents` | `SwarmEvents`, TLAPS |
| `AgentChat` | one session: document, tasks, runner, the chat WebSocket | |
| `AgentChatProofs` | theorems about `AgentChat` | `AgentChat`, TLAPS |
| `AgentFlow`, `AgentLoop` | the plan-and-act flow and the single-loop flow | |
| `McpTools`, `Skills` | what the flows' agents can call and read | |
| `SessionList`, `SessionFiles`, `Projects` | documents of a user's sessions | |
| `Accounts`, `EmailCodes` | the user, sign-in sessions, reset codes | |
| `SandboxShell`, `SandboxFiles`, `SandboxTimer` | the sandbox's services | |
| `SwarmPatrol`, `SwarmGateway`, `SwarmTelemetry` | discovery, commands and replays, presence | |
| `MCUpstream` | the components of the last five rows and the flows, one in focus per behaviour | all of them |
| `AgentProofs` | theorems about the flows, McpTools, Skills, SessionFiles and the sandbox | those modules, TLAPS |
| `UpstreamProofs` | theorems about the others and about `MCUpstream` | `MCUpstream`, `AgentProofs` |
| other `MC...` | small instances for TLC | |

**SwarmJobs.**  `Service.transaction` takes the row lock of `swarm_config`, so a
write transaction is one action; what lies between two transactions of a worker
is interleaving.  The columns of `swarm_jobs` are functions (`status`, `attempt`,
`token`) and sets (`due`, `live`, `cancelled`): wall-clock times are kept as the
comparisons the code makes with them, and a lease may run out, or a job become
due, at any moment.  A worker walks `idle -> claimed -> fenced -> prepared` or
`failed` (`claim`, `prepare`, `execute`); `held` is the job dict it got from
`claim`, a snapshot that goes stale.  A walk of the Task through several statuses
in one transaction is refused as a whole when one step is (`Walk`).  `Commit`
may leave its worker believing that it failed: the acknowledgement of a commit
can be lost.  The bound on the retries is each job's own `max_attempts`.

**JobPromise.**  What the ledger promises to its users: submit, try, succeed,
give up, withdraw.  `SwarmJobs` implements it under the mapping `outcomes` (what
the status of a row amounts to), `tries <- attempt`, `effects <- applied`; TLC
checks `KeepsPromise` and `LedgerKeepsPromise` proves it.

**SwarmPublish** composes `SwarmJobs` with the composition, the account, the
intent and the platform's ledger.  `RequestIntent` and `AcceptRemote` are the two
transactions of `publish_remote`; `AcceptRemote` ends prepared or, when the answer
is lost, failed.  A PUBLISH job's key is made from its composition, so a job
stands for it.

**SwarmDispatch** composes `SwarmJobs` with the outbox and the broker.  It
discharges the assumption `SwarmJobs` makes about delivery: `DeliveryIsFair` is
the weak fairness of claims that `SwarmJobs!Fairness` asks for.  Event rows of
the outbox are left out: they take turns with task rows and nothing reads the
Redis stream they go to.

**SwarmPipeline** composes the handlers over `JobPromise` in place of the workers:
a job is a candidate and a stage, `Succeed` is the commit of its handler.  Two
stages change an object in a transaction of their own within `prepare`
(`BeginAnalysis`, `BeginRender`); `preparing` counts the workers between their
fence and that transaction.  Metadata that a handler writes is there once its
effects are; operators do not rewrite metadata here.

**SwarmEvents.**  A writer draws sequence numbers under the lock and commits or
rolls back; the server reads batches after its cursor; the browser applies what
is new, reconnects with a timer, and goes offline and online.  Each socket has
its own state, so that the late close event of a replaced one is there.

**SwarmPatrol.**  `start_discovery` and a committing DISCOVER handler both look for
a live job of the source before they make one; updates by hand, dead letters and
cancels are the ways a patrol ends.  A batch may name an item twice.

**SwarmGateway.**  A command is sent, repeated after a lost answer, or sent with a
key already used; it runs in one transaction that may roll back.  The ledger of
events is the past, and `configure`, `pause_queue` and `resume_queue` write events of
their own into it.  A replay shows the last snapshots, or *any* `ReplayLimit` of them
when there are more: the query has a limit and no order.  A graph is walked round by
round, each round a statement of its own that sees what is committed by then, with
depth and limit asked for and a batch and a set of nodes that may be cut; then it
reads one node after the other.  Reads write nothing, so one is followed per
behaviour (`shot`).  `PastStands` speaks of reads of a time nothing is written of any
more (`IsPast`): what they show is as it was then, it never changes under a commit,
and it is all there was, within the limit of a replay and around every node a walk
that was not cut has passed.  Times written into events are compared, so the model
assumes what the code assumes, that the clocks of the processes agree.

**SwarmTelemetry.**  Beats and leases run out by ticks; a request reads the rows
first and the keys after, and an agent may start, leave or die in between.

**AgentChat.**  Every await of `chat`, `stop_session`, `_create_task`, the runner and
the WebSocket loop is a step boundary.  `exec` is where a coroutine is, its
exception handlers included: a cancellation inside a handler ends it with the status
unwritten, and so does a handler that raises itself, at its event or at its write of
the status (`HandlerFails`), since the task only logs it.  A stop finds the document,
then cancels the task it names, then writes the status, and that write may fail
(`StopFails`); `aim` is the task it found.  A chat works on the copy it found and
saves all of it, status and task id included, with a new sandbox and with a new task.
`orphaned` says that whoever was to settle the status as it stands was lost: with the
process, in a handler that raised or was cut off by the shutdown, or in a stop that
could not write.  The next write of the status ends it.

**AgentFlow.**  `PlanActFlow` with both agents, the tool loop and what a memory ends
with.  The flow may stop at any await.  **AgentLoop** is the other flow,
`AgentLoopFlow` with `ManusAgent`; the task runner does not build it, its tests do.
Its plan is changed by the model's reports and by the planner's rewrites, and
`manus` is the agent's copy of what it needs to know of the plan.  The steps of a plan
are taken to have distinct ids: the planner's model supplies them and nothing checks it.

**McpTools.**  Names are sequences of parts, so that one server's prefix can extend
another's.  **Skills.**  First looks race, two skills may have one name, and a message
names its skill by id, as the page does, or by name.  Every `rm -rf`, of a package that
makes room for the new one and of each directory that is swept, may be done when it is
answered, still run (no return code, which counts as a success), fail although it
runs, or not be made; the next command interrupts it.  A message may find what such a
deletion left only under the very name it was of (`lagged`), until the next message.

**SessionList** has the documents, the notifications (written after the document,
one by one) and the sidebars with their snapshot, their REST fetch, their channel and
what they put into their list themselves when a request of theirs is answered.
`clear_project_id` notifies of the sessions it read before its update.
**SessionFiles** has the synchronisation of files, step by step, the user's deletions
from the storage, and the chats that save the list of files as they found it.
**Projects** has requests of several trips each, and the chats that save a session with
the project it was in when they found it.  **Accounts** has the user document
that every request saves whole, and the keys and index of sign-in sessions;
**EmailCodes** the entry of the cache that a verification reads and writes back.

**SandboxShell** has the pane that draws prompts, the count of prompts a command
waits for, and the requests that share both.  **SandboxFiles** has plain writes,
writes through the shared temporary file, replacements and reads.  A request is
refused before its file is open (`FailEarly`) or after (`FallShort`): then the file is
empty or partial, and a temporary file stays for the next.
**SandboxTimer** has one deadline, the tasks asleep, and the calls to supervisord
that a thread has under way.

**MCUpstream** checks the small components in one run: `focus` picks the one that
moves, the variables of the others are parked.

## 3. Runs

| Run | Bounds | Shows |
|---|---|---|
| `jobs_safety` | 2 jobs (2 and 1 attempts), 2 workers, all Task updates | effects once, bounded retries, settled for good, row and Task agree, cancelled never applied |
| `jobs_liveness` | 1 job, 3 attempts, 3 workers | leases are exclusive, the promise is kept, jobs settle |
| `publish` | 1 composition, 2 attempts, 2 workers, pauses and updates | one post, agreeing records, authority |
| `dispatch` | 2 jobs, 1 worker, 2 outbox rows, 1 message per job | rows are not lost, delivery is fair |
| `pipeline` | 2 copies of one recording, 8 stages each, 1 attempt | links, trends, grounded compositions, no candidate disappears |
| `events` | 2 writers, 2 sockets, 3 sequence numbers, 2 breaks | committed prefix, catching up |
| `events_badge` | 1 event, 1 break | finding: the badge is wrong for good |
| `pipeline_cancel` | 1 candidate | finding: a cancelled job starts an analysis |
| `pipeline_synthesize` | 1 candidate | finding: a synthesis without a job |
| `chat` | 1 tab, 2 messages, 1 event on the way, 1 restart | the status is settled by somebody or the loss is named, a drained stream was complete, every stream ends |
| `upstream` | per component, in `Upstream.cfg` | the properties of the fifteen small components, by groups |
| `flow_pairing` | 2 messages, 2 calls per answer | finding: a call left without a response |

Why the bounds are enough.  Three attempts and three workers let a stale worker
meet two later leases of its job; a fourth adds nobody new.  Two jobs let one
schedule the other and a settled one be next to an open one.  Two copies of one
recording are what a link relates.  Two outbox rows make one wait behind the
other.  Three sequence numbers and batches of two leave a gap inside, before and
after a batch.  `MaxPending`, `MaxQueued`, `MaxSequence` and `MaxBreaks` bound what
the code does not; each is named where it is declared.  In the chat two messages
are enough for one to be found waiting by the runner of the other, and one
restart for a document to outlive its process; a restart before the first frame would
lose nothing and is left out.  `chat` has one tab (667 000 states): with two, a
restart and a streamed event the search does not end in useful time.  Two tabs with
two messages, and neither of these, were searched to the end without a violation,
and the two invariants of the run are theorems for any number of tabs.  In `upstream` two requests, two
sessions, two projects or two answers of one component are what an overlap is
made of; a third request overlaps one of the two.  The session list has one session,
as the entries of a list do not interact but for `clear_project_id`, which the value of
one shows; two writes are what one notification can overtake.  A second message
(`MaxSyncs`) finds in the sandbox what the first left, with one import or switch of a
skill before or between them (`MaxToggles`); the imported package has the name of an
official skill (`OtherName`).  One chat (`MaxChats` of `SessionFiles`) holds a list of
files and saves it twice; while it does, the run has only the files in `ChatDocs` in use.
A replay of one object of two and graphs of one or two nodes of two reach every limit.
Every name starting with `Max`
in a module is such a bound, except `MaxAttempts`, `MaxIter`, `MaxTurns` and
`MaxTries`, which the code has.

Deadlock is not checked where the system may stop: the pipeline is at rest once
every job is settled and no command is given.

Fairness.  Time passes, a lease nobody renews runs out, a worker that lives comes
to the end of `execute` (every media and provider call has a timeout), and the
dispatcher's loop republishes due jobs every ten seconds.  A queue that stays
paused is outside the promise (`EveryJobSettles`).  In `SwarmDispatch` strong
fairness of `Take` says that a job whose messages keep coming is claimed in the
end: a broker may lose any message but not every one for ever.  In `SwarmEvents`
the loops run on and the network comes back; breaks are finitely many, as a
network that breaks for ever delivers nothing.  In `AgentChat` the event loop runs
every runner and every stream that is ready and a flow comes to its end (its loop has a maximum
of iterations, its calls have timeouts); nothing says that a user sends, stops or
leaves, that the process restarts, or that it does not.

## 4. Findings

1. `connected` in `control.ts` is set to false by the close event of any socket,
   also of a replaced one: going offline and online quickly leaves the header at
   RECONNECTING while events arrive (`events_badge`).
2. `prepare` starts an analysis or a rendering in a transaction that does not
   look at the job again: one cancelled or given up in between leaves its
   candidate ANALYZING without a job (`pipeline_cancel`).
3. `synthesize` is accepted a second time and enqueues nothing, because the key of
   the COMPOSE job is taken: the candidate stays SYNTHESIS_QUEUED
   (`pipeline_synthesize`).
4. A question asked in one answer with another call leaves that call without a
   response in every later request to the model (`flow_pairing`); a loop cut by
   its maximum of iterations does so too.

What the models also show, of behaviours no document of the repository speaks
about.  Each is an exception named in a property, so that everything else is
checked without it.

- `AgentChat`: a message put on the stream between the runner's last look and the
  end of its task is answered only with the next one; a process lost while the
  session runs leaves it `running`, and so do a shutdown that meets a handler, a
  handler that raises itself and a stop whose write fails.
- `AgentLoop`: at the maximum of iterations the open steps are reported completed;
  a plan that was finished and is reported open again stays blocked for work until
  a replan; a reply to a question asked after the plan's end lifts the block; steps
  that fail, or go back to pending, stay as they were in the chat's timeline.
- `SessionList`: a stale copy saved whole brings back a deleted session; a REST
  answer that overtakes a notification is shown until the next one, and so is what a
  sidebar made of an entry itself; a session moved into a project between the two
  statements that clear it is taken out again and nobody is told.
- `SessionFiles`: an upload that fails after the entry was taken out loses the
  entry; a library file attached again has one id under two paths, and removing
  one removes both; a favourite belongs to a file id, and a synchronisation gives
  a new one; a chat that saves the session it found undoes what became of its list of
  files meanwhile.
- `Projects`: an update that read a project before a deletion creates it again, one
  that overlaps a pin undoes the pin; a move that overlaps a deletion leaves a
  session in a project that is gone, and so does a chat that found it there and saves it
  afterwards.
- `Accounts`: two requests that overlap may undo one another's change; a touch may
  write back a session removed by a logout of all.
- `McpTools`: a server `a_b` cannot be called behind a server `a`; a toolkit stays
  ready after connections that failed and after its cleanup; a result the server
  marks as an error is reported as a success.
- `SandboxShell`: input, an interrupt or a reset of another request may end a command's
  wait; a Ctrl-C that comes late shifts the next command's code.
- `SandboxFiles`: two writes with sudo at a time copy each other's text; a write that
  fails has emptied its file.
- `Skills`: a deletion answered while it still runs may take the new package's files
  with it, or leave a directory of a disabled skill, with nothing in the log.
- `SwarmGateway`: with more than 200 objects a replay shows an arbitrary 200 of them.
- `SwarmPatrol`: an item named twice in a batch becomes two candidates; a source made
  active again by an update has no patrol.

## 5. Proofs

Every theorem is of a specification as it stands, for every value of its constants
that the module's ASSUME allows.  Each ASSUME says what the code supplies: bounds
that are numbers, a lease that lasts, a catalog of default skills that names some
(`SkillsAssumption`), finitely many MCP servers with names that are not empty
(`McpAssumption`), an upload directory that is a place for files (`DocsAssumption`),
sentinels (`None`, `NoProj`, `NoRecord`) that are not among the values they stand
beside.  TLC evaluates them all in the runs.
Where a property of a run is not inductive, the invariant that is has it as a
conjunct, so that what is proved is what TLC checks.

### The swarm

**`SwarmJobsProofs`**, for any sets of jobs, workers, kinds and updates and any
positive `MaxAttempts`: type correctness; `AppliedExactlyOnce`, `OneLeaseHolder`,
`RetriesBounded` and `SettledAgree` as invariants; `SettledForGood` and
`CancelledNeverApplied` as action properties; and that the ledger implements
`JobPromise`.  The assumption is `JobsAssumption`.

The inductive invariant `LedgerInv` adds to these what they need to be preserved:
no token is held that has not been drawn (`TokensDrawn`: a new lease differs from
every old one), and a worker that holds the row's token remembers the row's
attempt (`SnapshotMatches`: a failure dead-letters only the last attempt).  With
`RunningTried` (a running job has been tried) each step of the ledger is a step
of the promise or leaves it alone.  `CommitShape` says once what a commit does to
the rows, for the four proofs that need it.

`RowsAndTasksMove` has a hypothesis, `UpdateTargets = {}`: the row of a job and its
Task have the same status at every moment as long as no operator writes a Task
object by hand.  With raw updates they do differ, and `SettledAgree` is what is
left; `jobs_safety` has them.

**`SwarmPublishProofs`** proves that every behaviour of `PublishSpec` is one of the
ledger (`PublicationIsLedger`), so that the theorems above hold of a publication
too, and then `PublishTypeOK`, `PostedAtMostOnce` and `RecordsAgree` as
invariants and `PostsWithAuthority` as an action property.  `PublishInv` adds to
`LedgerInv` what the workers inside `publish_remote` rely on: one that has asked
has a durable intent (`AskedHasIntent`), one that is prepared has its post
accepted (`PreparedIsAccepted`).  `LedgerOnlyShape` says that nothing but the
publication's own steps makes a job succeed or a worker prepared; with
`SettledStep`, that a success stays, it keeps the records in agreement while
operators, leases and other workers go on.

**`SwarmDispatchProofs`** proves the same of the dispatcher: `DispatchIsLedger`, hence
`DispatchKeepsPromise` (however often the broker loses or repeats a message, a job
settles once, its effects committed once), and then `DispatchTypeOK` and the action
property `RelayKeepsWork`, that a row leaves the outbox only for the broker.
`DispatchInv` needs two facts the code relies on without a word: the job a worker
holds has a row (`HeldExists`: rows are never deleted), and only finitely many
jobs were scheduled so far (`RowsFinite`), as `requeue_due` lists them and the
messages of one job are counted.  `DispatchAssumption` has the latter's reason: a
handler returns a list of tasks.

**`SwarmPipelineProofs`**, for any candidates, recordings, topics and provenances:
every step of the pipeline is a step of `JobPromise` or leaves it alone
(`PipelinePromised`); `PipelineTypeOK`; a composition rests on atoms that are there
and on a route (`CompositionGrounded`); of two copies of a recording that both are
fingerprinted one is linked to the other (`SimilarLinked`); a trend's volume is the number
of its members (`TrendCounts`).  All arguments go through the ledger: `EffectsOnce`
says that a stage's effects are there exactly when its job has succeeded, and
`PromiseKept` that a success stays.  Without the first a retried CLUSTER could count
a candidate twice.  `MembersFinite` lets members be counted at all.

**`SwarmEventsProofs`**, for any writers, sockets, sequence numbers, batch sizes and
breaks: `EventsTypeOK` and `NothingMissed`, that what a browser has applied is every
event up to its cursor.  The invariant is about gaps.  A number is drawn
by one writer at a time (`OneWriter`) and a pending one is above all committed ones
(`PendingAhead`), so that what commits later is later; hence what a socket has been
sent, and not yet given to the browser, is a *chain*: each number follows the one
before it with no committed event between them (`Streams`, `Chain`), and a
commit breaks no chain (`ChainStays`).  `QueryChain` says that what a query reads is
one.  That a set of numbers can be listed in order needs an induction; the library's
induction theorems take the statement as an operator, so `Least` gets a least
element from the well-foundedness of the subsets of an interval instead.

### The agent

**`AgentChatProofs`** proves `SettledStatus`, for any number of tabs, messages, streamed
events and restarts: a session marked running has somebody bound to settle it,
unless who was bound to was lost (`orphaned`, above).  `ChatInv` adds `CopySettled`, that the copy of the
document which `_create_task` is about to save does not say running, and
`CopyTypes`.  `OwesLabel` says that what a task owes depends on its label alone.
It also proves `DrainedStream`: a stream that ended because its task was done
delivered everything that run of the task streamed.  What a tab saw is stale as soon
as another tab starts the task again, so `StreamInv` says of each tab what it still
knows: the run it looked at is never ahead of the task's (`RunBehind`), a task it saw
done stays done for the rest of that run (`SawDone`), with its stream as it was
(`SawAll`).  `StillFollows` carries this through the steps of everybody else.
`TasksLeft` counts the frames that may still create a task against those sent, so
that the bounded set of tasks never runs out (`TaskForCreator`); it counts with a
finite set of tabs whatever `Tabs` is, because only a frame makes a tab create.
`ChatTypes`, that all variables keep their types, is not a matter of form: a task is
started, and a message queued, once per frame at most.  `CountInv` says it the
only way it is preserved, that each counter *and the tabs that may still raise it*
are together within the frames sent (`Within`, `WithinStep`).

**`AgentProofs`** has the inductive invariants of the agent's and the sandbox's small
components, and the theorems of `AgentFlow` on its own.  These are, for any number of
iterations, calls, steps and messages (`FlowAssumption`): types, `PairingKept` (every call has its response before the
memory goes to the model again), `ReplyReaches` (a user's reply becomes the response of
the call that asked), and that a flow completes with no step open and reports
success only for work that was done (`NothingLeftOpen`, `HonestSuccess`).  `FlowInv` says what a
flow relies on between two awaits: an answer still open is that of the loop under
way, or of one cut at its maximum (`OpenAnswers`); the stored plan has the same next
step as the one in memory, unless a replan came between (`StepKnown`); what a question leaves in
the session (`Waits`) is what the run finds that resumes it (`Resumes`).

**`UpstreamProofs`** proves every invariant `MCUpstream` states, `UpstreamTypeOK` included.  A behaviour is one of the
component in focus (`InFocus`, `StartsInFocus`), so `UpstreamInvariant` needs one
inductive invariant per component (those of the last eight rows are in `AgentProofs`), and
the theorems hold of each component alone:

| Component | Inductive invariant | What it adds to the property |
|---|---|---|
| `SwarmPatrol` | `PatrolInv` | types only: `PatrolKept` is inductive with them |
| `SwarmTelemetry` | `TelInv` | the ticks a process is gone plus what its key or lease has left never exceed what they were given; so does what a request has read between rows and keys (`SeenTrue`) |
| `SwarmGateway` | `GatewayInv` | the log is dated in order and its last snapshot of an object is the object (`Sound`); the open transaction extends the database only at its own start (`TxOpen`), so that no commit changes a past already shown (`ShotPast`); what a walk has taken was there, and each of its edges has both ends among its nodes (`ShotClosed`) |
| `Accounts` | `AcctInv` | a copy about to be saved differs from what was meant only in fields at risk (`CopiesTrue`); a session a touch will write back is in the index or excused (`TouchesKnown`) |
| `EmailCodes` | `CodesInv` | what a request alone has read is what the cache still holds (`AloneReads`) |
| `Projects` | `ProjInv` | two requests under way on one project are in races (`Overlapping`); what one has seen is so still, or a race says why not (`SeenStill`); before a project is made no session is in it and no chat holds one that is (`Unmade`) |
| `SessionList` | `ListInv` | an entry that differs from its document has a notification on the way that puts it right (`OnTheWay`); removals are announced of what is gone (`RemovalsTrue`) |
| `AgentFlow` | `FlowInv` | as above |
| `AgentLoop` | `LoopInv` | the plan in memory is the stored one (`PlanSame`), and an agent that changed it was told when nothing is left (`FinishKnown`) |
| `Skills` | `SkillsInv` | while nothing has changed since the runner listed the skills, each one that is not in its list any more lies in the sandbox with no deletion of it running, failed, lagged, or shares its name, and a directory of another is still on the list of the sweep or lagged (`Copied`); of the first looks nothing disturbed, one is at work and knows what it has done (`Seeded`) |
| `McpTools` | `McpInv` | the servers of the tools stay clients while the runner lives, and a tool keeps the name it was built with (`Serving`) |
| `SandboxShell` | `ShellInv` | while a client polls for a command nobody disturbed, the pane has it queued or its prompt last, within the prompts counted (`Watching`) |
| `SandboxTimer` | `TimerInv` | a shutdown under way was due, or overtaken (`Waking`) |
| `SandboxFiles` | `FilesInv` | two requests at work whose order matters are both marked (`Marks`); one that is not marked has brought its file, or the temporary one, as far as its place says (`Working`), and a file nobody has begun to change is what it should be (`Steady`) |
| `SessionFiles` | `DocsInv` | an id belongs to one path (`OwnIds`); what the runner read before a step is so still, or the property excuses it (`AtStep`); a list held by a chat names a path once and an id for one path, but for those excused (`CopiesFine`) |

The exceptions in these invariants are the ones the properties name; the proofs show
that there are no others, for any number of requests, clients, sessions and sidebars.

Three arguments need more than the invariant.  *Lists.*  `FilesInv` speaks of a file as
the prefix of its text that is written (`SubSeq`), so that one more chunk is one more
element.  `SessionFiles` takes an entry out of a list by counting, for each element
that stays, how many stay up to it (`Rank`): what `Without` returns, which the proofs
need for `Once` and `OwnIds`, then follows from facts about cardinalities, and no
induction over the list is needed.  *Names.*  A joined tool name is a sequence of
parts; `OfferedIs` says what it is a prefix and a rest of, and `RoutedTo` that with one
claimant the configured order does not matter: whichever server comes first of those
whose prefix fits, it is the one.  *Bounds.*  The invariants
that say nothing of a counter are completed by `UpstreamBounded`, which is inductive
together with them; `BoundsKept` has one step per component.

### Only model-checked

- Liveness: fairness and ENABLED are out of the prover's reach.
- The four findings, which are counterexamples.

## 6. Not modelled

- Media, provider, LLM, search and browser adapters: I/O without state of their
  own, behind steps that may return or raise.
- The worker loop of the Celery task backend: `AgentChat` models the local backend
  through the same interface.
- `COLLECT_METRICS`, `UPDATE_MODEL` and metadata updates of the pipeline: they add
  records nobody decides from.
- The console's refresh, selection, search and filters, the summaries, traces and
  shortest paths: they read committed rows and decide nothing; the next refresh
  repairs what is shown.  The Vue components are layout.
- The VNC proxy, which forwards bytes; sharing, favourites, claw and agent-settings
  routes, which write one field each; the grace period of tokens; prompts and the
  compaction of memories, which change what the model reads and not what follows
  from its answers.
- Prompt-level outcomes: the model may answer anything at any time.

## 7. Plan

1. The Celery backend's worker loop, as a second implementation of the task.
2. The refinement of a session's task: that `AgentChat`'s runner, for each message it
   takes, behaves as `AgentFlow` does between its awaits.
