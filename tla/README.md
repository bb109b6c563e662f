# ApexMind: specifications and proofs

ApexMind is a FastAPI backend, a tool worker and a Next.js page. A person chats
with a language model, uploads documents and asks about them, and gives goals to
an orchestrator that plans, calls tools and reports. What makes it more than a
relay is its safety core: every tool call passes one choke point with a
permission level, an emergency stop and human approval, and every call leaves a
row in a hash-chained audit log.

This directory holds TLA+ modules of those parts, TLC configurations that check
them on small instances, and TLAPS proofs of what matters most for every value
of the constants. `PROJECT.json` maps each definition to the lines it models,
and lists the runs, the mutants that show each property can fail, the hazards
and the findings. Paths below are relative to `src/`.

- [Inventory](#inventory)
- [Modules](#modules)
- [Runs](#runs)
- [Fairness](#fairness)
- [Proofs](#proofs)
- [Findings](#findings)
- [Assumptions and limits](#assumptions-and-limits)
- [Plan](#plan)

To check: `tlc -workers 2 -config MCRouter.cfg MCRouter`, `tlapm Router_proofs.tla`.

## Inventory

| Component | State | Operations | Interacts with | What is hard |
|---|---|---|---|---|
| Permission engine `backend/app/safety/permission_engine.py` | the ceiling, once | `decide` | called by the tool manager | the order of the rules; a ceiling out of range |
| E-STOP `safety/estop.py`, `safety/routes.py` | a flag in the process, a key in Redis | `engage`, `clear`, `is_engaged` | operators; read by tool manager and orchestrator | two stores written apart, swallowed failures, restarts |
| Approvals `safety/approvals.py` | records and events in the process | `request`, `wait`, `resolve` | tool manager waits, operators answer | a timer that races an answer; restarts |
| Tool manager `tools/manager.py` | none of its own; rows in `audit_log`, `tool_results` | `dispatch` | all of the above, the implementations, the audit log | readings that are stale after an await; a failing append anywhere |
| Code execution `tools/impl/code_exec.py`, `tool_worker/` | a job list and result lists in Redis; a process group per job | submit and wait; worker loop; `run_code` | API process and workers through Redis | lost, late and duplicated work; timeouts; processes that outlive the code |
| Audit log `audit/logger.py` | table `audit_log`, an advisory lock | `append`, `verify` | called by every model and tool call | concurrent appends; failing commits; tampering |
| Router, adapters `router/` | adapters and routes, once | `generate`, `embed`, `stream` | vendors; appends to the audit log | fall-back in the middle of things; paths past the audited wrapper |
| Orchestrator `orchestrator/`, runs page | rows `runs`, `steps`; a `RunJob`; a budget; what the page shows | `run`, `POST/GET /api/runs`, `/ws/run` | planner, tool manager, router, E-STOP, a client | concurrent steps, one of which fails; plans of any shape; an emit that raises |
| Chat `chat/`, `agents/critic.py`, chat page | `messages`; bubbles and flags of the page | one turn over a WebSocket | router, prescreen, database | broken connections and streams; events the page ignores |
| Documents `rag/`, documents page | `documents`, `doc_chunks`; flags of the page | upload, list, ask | router (embeddings, answers) | requests that fail midway or overlap; chunk borders |
| Memory `memory/` | `project_facts` | extract, upsert, list, delete | router (extraction); chat reads facts | concurrent batches on a unique key, deadlocks, deletes in between |
| Default context, sessions `chat/repository.py`, `chat/routes.py` | `users`, `projects`, `sessions` | get or create; create, list | sessions, documents and memory hang on it | first requests that race |
| Prescreen, incidents `safety/` | `safety_incidents` | regular expressions; insert | chat, orchestrator | (text) |
| Prompts, feedback, benchmarks, model list, navigation bar, schema, wiring, scripts | rows, a file, flags | plain reads and inserts | | little (see Plan) |

What makes each correct:

- *Permission engine, approvals, tool manager*: no tool is reached without a
  permission that still stands; what is reported is in the log; every call ends.
- *E-STOP*: once an operator has been told it is engaged, it reads as engaged
  until somebody begins to clear it.
- *Code execution*: code runs at most once, a result reaches its own caller, what
  is reported is over, no exception stops the worker.
- *Audit log*: the chain verifies in every state; tampering shows.
- *Router*: logged before contacted, logged before given; one provider's voice.
- *Orchestrator*: the step budget is hard, dependencies come first, no step
  starts twice, the stop holds waves back, the client and the row agree.
- *Chat*: what is shown as answered is the draft of what is stored; the model sees
  the conversation; no page waits for ever on a live connection.
- *Documents*: nothing is half stored; a short fact is found wherever the borders
  fall; the page agrees with its answers.
- *Memory*: a batch is stored whole or not at all, what is reported as stored was
  there, a deleted row does not come back, every request is answered.
- *Default context*: there is one, whoever comes first.

## Modules

A step of a module is the code of one task between two awaits: all of the
backend runs on one event loop, so nothing else happens in between, and anything
may happen at an await. `pc` names the await a call is at. Every await that
reaches outside may raise; a transaction that raises may have committed. History
variables are marked as such where they are declared. A definition whose comment
begins "Faulty:" is a wrong version of the one after it: `PROJECT.json` swaps it
in to show that a property notices.

| Module | Models | Composed of |
|---|---|---|
| `PermissionEngine` | `decide` as an operator | |
| `EStop` | the switch: `BeginEngage`/`FinishEngage` are `engage` up to and from its await, likewise `clear`; `RedisLost`, `RedisBack`, `ApiRestart` | |
| `Approvals` | `request`, `wait` (`TimerFires`, `TimeoutDenies` and `WaitReturns` are apart, as in `asyncio.wait_for`), `resolve` | |
| `ToolManager` | `dispatch`, `_finish`, `_persist`; the operators' routes; a restart | `PermissionEngine` (EXTENDS), `EStop`, `Approvals` (INSTANCE) |
| `GatedExecution` | what the tool manager promises, abstractly | refined by `ToolManager` |
| `PlanExecution` | what the execution of a plan promises, abstractly | refined by `Orchestrator` |
| `WorkerQueue` | the Redis transport of code execution, the worker's loop and `run_code` | |
| `AuditLog` | `append` statement by statement, `verify_rows`, hands on the table | |
| `Router` | one call of `generate`, `embed` or `stream` through interface, router and adapter | |
| `Orchestrator` | one `run` with its tasks, budget and rows, and its client: a polled job, or the runs page on a socket | |
| `Chat` | the chat page, the socket, the turns of a session, its messages | |
| `Documents` | the documents page, its requests, the chunker, the tables | |
| `DefaultContext` | `get_or_create_default_context`, statement by statement | |
| `Memory` | the memory routes and the sessions they extract from, statement by statement at READ COMMITTED | `DefaultContext` (INSTANCE) |
| `*_proofs` | theorems about the module they EXTEND | |
| `MC*` | values of the constants for TLC | |

State and code, where the names do not say it:

- `ToolManager.trail[d]` is the set of decisions in the audit rows of call `d`,
  `row[d]` its `tool_results` row, `seen[d]` the local `estop_engaged`.
  `clearSince[d]` (history) says that the stop was not in force at some moment
  since the call, or since the approval it got.
- `EStop.promise` and `steady` (history) say what the last operator was told, and
  whether the switch has been read from one place (Redis or the flag) since.
- `AuditLog`: a hash is the sequence of payloads it was computed from, so equal
  hashes mean equal histories. `Tampered` is the set of tables that the tests'
  changes, made past the append-only trigger, can leave of the committed one:
  rows with a later row behind them are taken out, and then the content or the
  link of some row may be overwritten. Cutting the newest rows off, or
  recomputing every hash after a change, is not among them: the code does not
  claim to notice it.
- `Router.cands` is the list the call goes through, `at` the position being
  tried; `contacted` and `given` (history) say which provider got the request
  and whose output reached the caller.
- `Orchestrator.stage[i]` is how far the task of step `i` has come; a failed wave
  leaves the other tasks running, as `asyncio.gather` does. Money and time are
  flags ("the limit has been reached"), raised at any moment. `job` is the client:
  `via` REST it is the `RunJob`, which every event reaches; via a socket it is the
  page, which notes the events that arrive while `link` holds and gets no other.
- `WorkerQueue.procs[w]` are the kinds of processes the code in hand has running:
  what counts for `run_code` is whether one stays in the process group, and
  whether it keeps the pipe that `communicate` drains.
- `Memory.writes[r]` are the uncommitted row versions of a transaction (and its
  locks), `change[r]` the columns that the ORM has still to send; `held[r]`
  (history) says which cells of its batch the table has had since it began,
  `forgotten` (history) which rows were deleted. A row's id is who inserted it and
  its key.
- `Chat`: an answer is a number of deltas, and `text` says whether a row has it as it
  was streamed or the Critic's revision in its place; a question is its turn number.
  `socket` is the page's, from `connecting` on: a question sent then leaves a bubble
  and raises. `toServer`, `toPage` are what is under way on it; `ended` (history) has
  the turns whose `done` the page handled. `final` is what `self_evaluate` returned.
  `messages` is in the order in which `get_messages` lists: rows of one transaction
  have the same time, so `StoreRefusal` puts its two in either order.
- `Documents`: a text is its number of words, a chunk a range of them; a question
  asks for a range, and a chunk is near enough when it holds it. `refresh` and
  `early` are the request for the list that the page makes when it opens, which
  `busy` knows nothing of; `late` (history) says that its answer is what is listed,
  and came after an upload.

## Runs

Numbers are distinct states with two workers. A violation run checks one
statement of a comment that the code does not keep: see Findings.

| Run | Instance | Shows |
|---|---|---|
| `tool_manager` | 2 dispatches, 1 operator, 5 registered tools (free, gated, without implementation, above the ceiling, level 5) and an unknown name; 1.5 M, dispatches symmetric | `OnlyPermittedRuns`, `StopObeyed`, `GatedRunIsLogged`, `ReportedIsAudited` |
| `tool_manager_live` | 1 dispatch, 2 operators; 70 k | `CallsEnd`, `EngageHolds`, `FirstAnswerStands`, and that the manager implements `GatedExecution` |
| `estop_outage` | 1 operator | `EngagedMeansDenied` fails |
| `audit_log` | 3 writers, 2 payloads, 4 ids; 51 k, and in each of them every tampering | `ChainVerifies`, `TamperingShows`, `ReturnedIsStored`, `GrowsAtTheEnd`, `AppendsEnd` |
| `router` | 3 providers in every combination, 2 of them with a native stream, 4 routes, picked models; 3 k | `AuditedFirst`, `OneVoice`, `GivesUpLast`, `CallEnds` |
| `router_stream` | the same | `ContactIsAudited` fails |
| `orchestrator` | both clients; 7 plans: single, join, fan wider than the budget, circle, missing dependency, repeated id, level the database rejects; budget 3; 348 k | `StepsWithinBudget`, `DependenciesFirst`, `CompletedMeansDone`, `JobAgrees`, `JobSettles`, `StopHaltsWaves`, `RunEnds`, and that the run implements `PlanExecution` |
| `worker_queue` | 2 jobs, 2 workers, any processes; 32 k | `AtMostOnce`, `ResultIsOwn`, `ReportedIsOver`, `JobsAreTaken` |
| `chat` | 2 turns, each harmful or not, up to 2 deltas; 57 k | `ShownIsStored`, `ModelSeesConversation`, `TurnEnds` |
| `documents` | 2 uploads, 2 questions, 2 in flight; texts of 0 and 6 words, chunks of 3 that overlap by 1, top 2; the opening refresh; 5.0 M, symmetric | `WholeDocuments`, `StoredIsFound`, `PageAgrees` |
| `memory` | 3 requests, a new database or one with a session and a fact; 2 keys, batches in either order, with a bad entry, with a key twice; 173 k | `OneProject`, `StoredWasThere`, `ForgottenStaysForgotten`, `WholeBatches`, `RequestsEnd` |

Why the bounds are enough:

- *Tool manager.* Dispatches share only the switch and the registry of approvals,
  in which each has its own record; a second one is there for an answer or a
  restart to hit the wrong call. Operators interfere pairwise (`contended`), so
  the live run has two. The proofs remove both bounds.
- *Audit log.* One writer holds the lock, one waits, one has failed; two payloads
  make two rows differ or agree; four ids allow a lost one before, between and
  after committed ones. `MaxId` bounds `Insert` and is the only guard that the
  code does not have.
- *Router.* A call keeps its state to itself. Routes of three candidates have a
  first, a middle and a last; one route names a provider twice.
- *Orchestrator.* The loop looks at a plan through three questions (done, ready,
  within budget), and the plans give every combination of answers. The budget
  cuts a wave in the third plan: one step done, two fit, one does not. One
  connection may break at every event; as nothing reconnects, there is no second.
- *Worker queue.* A job may be lost, late or reported while another is handled by
  the other worker, and either worker may be kept waiting while a job is on the
  list. Processes count by kind, one of each: a second of the same kind changes
  nothing that `run_code` sees.
- *Chat.* Turns are sequential; the second one sees what the first left behind.
  Three turns with two deltas have been run too (1.1 M states, no error).
- *Documents.* `MaxInFlight` bounds the guards of `OnUpload` and `OnAsk`; two in
  flight are an upload against a question, two uploads, or two racing questions.
  Six words in windows of three with stride two are three windows, the last one
  short. The fact lies across a border of windows laid side by side and within
  the overlap. With a second fact, longer than any overlap promises, the run has
  13.8 M states and no error either.
- *Memory.* Two batches in opposite orders make a circle of waits, and the third
  request deletes a row between them or is the third party of a wait. Two keys are
  enough for a circle, two values and two confidences for an UPDATE that sends one
  column, the other or both. A batch with a bad last entry, and one that names a
  key twice, are the other two that `upsert_fact` can tell apart.

`CHECK_DEADLOCK FALSE` is there where the instance really stops: an audit log
that has used its ids, a call, a run or a chat that is over, requests that have
all been made or answered. The tool manager and the worker queue may always go on, as
operators, restarts and Redis do.

### What the properties say

`StopObeyed` is the exact promise, and weaker than it may sound: a stop engaged
after `dispatch` has read the switch does not hold back a tool that needs no
approval, however long the reading is old. What holds is that a stop in force
since before the call, or for a gated tool since before its approval, and kept in
force lets nothing start. `StopHaltsWaves` is the same of waves.

`ReportedIsAudited` is likewise what holds of "every tool call must be in the
audit log" (PROGRESS.md): a tool that has run has no outcome row when the append
fails after it, but then nothing is reported either, since the exception reaches
the caller. For gated tools `GatedRunIsLogged` adds that the request is there.

`FirstAnswerStands` allows one change of a settled approval: the handler of a timer
that had already fired overwrites it with "denied". The person who approved was
told that it worked; the tool does not run.

`ShownIsStored` does not say that what is shown is what is stored, for that is
false of a revised answer: `update_message` overwrites the content with the
revision, and the page, which has no case for `revised`, goes on showing the draft.
What holds, whatever breaks, is that a turn ended with `done` is shown whole, as it
was streamed and with nothing of another turn in it, and that the row of its answer
either has that text or has a scorecard that says `revised`. The converse does not
hold: `Scorecard.revised` can come from the Critic's own JSON, with the draft as the
"revised" text. Of a refusal the page shows nothing.

`ModelSeesConversation` asks for the turns in order, and within a turn for the
question before the answer, with one exception: a refused turn. Its two rows are
written in one transaction, so they have one `created_at` (`db/models.py:45`, the
start of the transaction), and a random id decides which is listed first. Nothing
in the repository says how they should come. Questions that a broken stream has
left without an answer stay in the context, so it may have two in a row.

`PlanExecution` says more of a run than its invariants do: no wave starts, and no
row tells of an end, while a step of an earlier wave is under way; and a run whose
exception has been told starts nothing more, though the tasks of its wave go on
and store results. It promises nothing else of a run that is abandoned.

`JobAgrees` excepts what the code leaves open: a page whose connection has broken is
told nothing more, and a refused goal, which the runs page has no case for, stays
"planning…" there. Events that are emitted on a live connection count as arrived.

`JobsAreTaken` needs a worker that is not `Stuck` for good: after killing the
process group `run_code` calls `communicate()` without a timeout
(`tool_worker/executor.py:113`), which waits for as long as a process that left
the group holds the pipe. With the one worker of `docker-compose.yml` such a
process keeps every later job on the list.

`StoredWasThere` is what "stored" in the answer of an extraction can mean under READ
COMMITTED: for each value and each confidence there was a moment since the
transaction began at which the table had it. They need not have been there at the
same moment: of two extractions that find the same fact, one may send the value
and the other the confidence, and the row ends up as a mixture that neither
reported.

`PageAgrees` says of every user that the page is not busy once all requests have
ended. The rest is of a user who waits for one request before making the next: the
Ask button is disabled meanwhile, but the Enter key and the upload field are not,
and overlapping questions do race. Even then the list may lose what was called
ingested: the `refresh()` of the opening page (`documents/page.tsx:22`) is not
waited for, and when its answer is slower than a whole upload it replaces the newer
list. TLC finds that trace when `~late` is taken out of the property; with it, that
answer is shown to be the only thing that can.

`ForgottenStaysForgotten` is about rows, by their ids: no stale upsert brings a
deleted one back. A later extraction may find the same fact again in the messages
and insert it as a new row.

## Fairness

| Module | Fair | Why |
|---|---|---|
| `ToolManager` | `DispatchStep` of each call, weakly | the event loop runs what is ready; appends and tools return or raise (the HTTP clients and the execution of code have timeouts); the timer of an approval fires. The Redis client is made without a timeout (`from_url`), so that its commands return or raise, over a connection that hangs too, is an assumption. Operators, Redis and restarts are not fair |
| `AuditLog` | `Proceed` weakly, `Lock` strongly, of each writer | statements return; PostgreSQL serves the waiters of a lock in order, so a writer for which it is free again and again gets it. Failures are not fair |
| `Router` | `Step` weakly | vendors' clients have timeouts; a consumer reads on or goes. Cancellation is not fair |
| `Orchestrator` | `RunStep` and each `TaskStep` weakly | as above; the clock, the stop and restarts are not fair |
| `WorkerQueue` | `WorkerStep` of each worker weakly | the timeout of the sandbox passes, Redis answers; a dead worker's container is restarted. Losses, callers and what the submitted code does are not fair |
| `Chat` | `PageStep` and `ServerStep` weakly | events under way on a live connection arrive; the user and the network are not fair |
| `Memory` | `Proceed` of each request weakly | statements and the model call return or raise; a wait for a lock ends with the transaction that holds it, or by deadlock detection. Failures are not fair |
| `EStop`, `Approvals`, `Documents`, `DefaultContext`, `GatedExecution`, `PlanExecution` | none | safety only |

## Proofs

Every theorem below is proved by TLAPS for all values of the constants that
satisfy the named assumptions (`ConstantsAssumption`, `AuditAssumption`,
`RouterAssumption`, `PlanAssumption`, `NoJobAssumption`, `BatchAssumption`,
`NoneAssumption`, `ChatAssumption` and `DocumentsAssumption`, which the runs
evaluate; the switch and the default context need none), and nothing is taken on
trust. No property is inductive as it stands. What is stands at the top of the
proof modules, under "What is inductive" (in `AuditLog`, `Router`, `EStop` and
`DefaultContext` beside the actions); TLC has checked each of these invariants on
the instance of its component's run, too.

- **`ToolManager_proofs`.** First the switch alone: "engaged reads as engaged" is
  not inductive, since an engage that is in flight must still find the flag raised
  when it returns. `SwitchInv` adds that an engage that met no clear has none
  beside it, and that a promise of engagement has no clear in flight. Then
  `InvariantHolds` proves `IInv`: for each call, what is known at each of its
  awaits about its request (`RequestInv`), its tool (`ToolInv`), the permission it
  ran with (`RunInv`), the stop (`StopInv`) and its rows (`LogInv`), together with
  `SwitchInv` and the registry's invariant. One lemma per action; a lemma
  `FrozenKeeps` deals once and for all with the calls a step leaves alone. From
  it: `TypesHold`, `GateHolds`, `StopHolds`, `RequestLogged`, `ReportsHold`,
  `SwitchHolds`, `FirstAnswerHolds`.
  `ManagerImplements`: under the mapping at the end of `ToolManager`
  (stages from `pc` and `ran`, consent from the approved records) every step is a
  step of `GatedExecution` or a stutter. `IInv` is needed to know that a tool
  starts with the consent still standing.
- **`AuditLog_proofs`.** `ChainHolds` proves `ChainInv`: whoever holds the lock has
  in its local `prev_hash` the hash of the newest committed row, and its id is
  above all others, so a commit extends the chain by one. From it: `LogVerifies`,
  `ReturnedStays` and the action property `LogGrowsAtTheEnd`. `TamperingAlwaysShows` needs more
  of a verifying table: hashes grow along it and are injective, so a row taken
  out, overwritten or linked elsewhere leaves a row whose link or hash is wrong,
  and the first such row has only untouched ones before it. Where one would
  argue by induction over the rows, it takes a least row that differs.
- **`Router_proofs`.** `RouterInvHolds`: while a candidate is being tried, the failed
  ones are exactly the usable ones before it and nothing has been given. From it:
  `AuditComesFirst`, `OneVoiceHolds`, `GivesUpLastHolds`.
- **`Orchestrator_proofs`.** `RunInvHolds`, for every plan and both clients. What is
  done is stored and what has started was charged (`BookInv`); outside a wave
  whatever has started is done (`WaveInv`); the loop ends without a halt only when
  nothing is left that can be done (`EndInv`, by the lemma `NothingLeft` about the
  least closed set of ids); `ToldInv` and `ShownInv` say what the client knows at
  each await. `WaveFits` bounds the wave, whatever order and gaps the ready steps
  have. From it: `BudgetHolds`, `DependenciesHold`, `CompletedHolds`,
  `ClientAgrees`, and the action properties `StartsOnceHolds`,
  `StopHaltsWavesHolds`, `JobSettlesHolds`.
  `RunImplements`: seen through `Stage` and `Outcome`, at the end of `Orchestrator`,
  every step is a step of `PlanExecution` or a stutter. That waves do not overlap
  and that no row tells of an end while a task runs needs `SettledInv` besides:
  outside a wave no task is under way, and none has failed.
- **`WorkerQueue_proofs`.** `QueueInvHolds`: a job that has not been started is in
  one place on the list at most (`ListInv`), results are those of completed runs
  (`ResultInv`), and after a time-out only strays are left (`WorkerInv`). From it:
  `AtMostOnceHolds`, `ResultIsOwnHolds`, `ReportedIsOverHolds`.
- **`Memory_proofs`.** First the default context alone (`ContextInv`): the user's
  unique row is the lock; only the transaction that inserts it inserts a project,
  and whoever finds it finds its project. Steps of `Memory` map to steps of
  `DefaultContext` (`StepMapsToContext`), hence `OneProjectHolds`. Deleted rows:
  `MemoryInv` says that a row under way is locked by the one request that writes
  it and that ids still to be inserted are fresh (`ForgottenHolds`). Stored
  cells: `StoredInv` follows each cell that was looked up, from the columns still
  to be sent over the uncommitted row to the table (`StoredWasThereHolds`,
  `WholeBatchesHolds`).
- **`Documents_proofs`.** `WindowHolds` is about `chunk_text` alone: for every size,
  overlap and length, a range of words no longer than the overlap and one lies in
  some window. `DocumentsInv` has four parts. A stored document has all the
  windows of its text, and what is listed, called ingested or known to a question
  is stored (`StoreInv`); a question that can be answered is not dismissed
  (`ReplyInv`, which needs that of the chunks near enough at least one is kept);
  a busy page has a request in flight (`BusyInv`), and while the user waits, one
  at most, whose question is the latest; a list on its way to an upload has all that
  was called ingested, and so has the list shown unless it is `late` (`PageInv`).
  From it: `DocumentsAreWhole`,
  `StoredIsAlwaysFound`, `PageAlwaysAgrees`.
- **`Chat_proofs`.** `ChatInvHolds`, for any number of turns and deltas. Server and
  page meet only through what is on the socket, so the invariant says what can be
  there. Unless the connection is lost, with what would end the turn, the two are
  at rest, or the page has asked and the server not yet looked, or both are at the
  same turn (`StreamInv`); then the tokens on their way and those in the last
  bubble make up the answer so far, with the start event still before them or
  already handled (`AnswerFlows`). What the server has passed is stored, in the
  order of the turns, a question before its answer and no revision without a
  scorecard that says so (`RowsInv`, with `Stored` and `Carded`), and a refused turn
  goes its own way (`ControlInv`). From it: `EndedIsShownAndStored`, `ModelAlwaysSeesConversation`.

Only model-checked: liveness (`CallsEnd`, `AppendsEnd`, `CallEnds`, `RunEnds`,
`TurnEnds`, `JobsAreTaken`, `RequestsEnd`), which is beyond the prover here. The
two properties of the violation runs are false and have no theorem.

## Findings

- **An engaged stop may be lost over an outage of Redis** (`estop_outage`). Engaged
  while Redis is up, it is in the key and in the flag; if Redis is lost and the API
  restarts, `is_engaged` falls back to a flag that is new and reads FALSE. Engaged
  during the outage, it is in the flag only, since `engage` swallows the failing
  `SET`, and `is_engaged` asks the flag only while Redis does not answer: it is gone
  when Redis is back. Both are traces of four steps.
- **Streamed calls are not audited** (`router_stream`). The OpenAI, local and
  Anthropic adapters override `stream()`, and with it the wrapper that
  `adapters/base.py` calls the only way to a provider.

Other observations, which no property of the project contradicts, are under
"hazards" in `PROJECT.json` with a note.

## Assumptions and limits

- SHA-256 does not collide; canonical JSON of a payload is unique to it.
- PostgreSQL transactions are atomic, and advisory locks exclusive and released at
  the end of the transaction. A commit may be carried out though its caller sees
  an exception.
- One API process, as `docker-compose.yml` starts it; approvals, jobs and the
  flag of the stop are per process.
- Redis keeps its data over an outage (it has a volume); commands are atomic.
- The distance of an embedding is idealised in `Documents`. With real embeddings
  `StoredIsFound` is as good as the embedding; the model shows that chunking,
  storing and selecting lose nothing on the way.
- Prompts, wording, formats, prices, and the contents of answers are left out.
- PostgreSQL runs at READ COMMITTED, its default, which nothing in the code changes.
  There is one default project (`OneProject`), so `Memory` leaves its id out.
- A page opens one connection and makes one run or chat on it at a time; events
  emitted while it is up have arrived.
- Not modelled at all: the regular expressions of the prescreen and the incident
  rows, REST reads, the navigation bar, feedback, benchmarks, prompts,
  configuration, migrations, scripts, and the web tools. Reasons are with the
  components in `PROJECT.json`: most are sequential reads and inserts with no
  state of their own, and what they could get wrong is in their texts.

## Plan

Done, in this order: permission engine, E-STOP, approvals, tool manager with its
abstraction; audit log; router; orchestrator with its polled job; worker queue;
chat; documents; then the default context and memory, the socket and the page of
a run, `run_code` in the worker queue, tampering checked and proved on the audit
log that concurrent appends leave; the proofs above, and the plan execution that
a run implements.

To do:

1. `PlanExecution` composed with `GatedExecution` for the steps that are tool
   calls, so that `StopHaltsWaves` and `StopObeyed` meet: after a stop, what of a
   wave under way can still start a tool.
2. The navigation bar with its polls between operators and the switch, for what a
   click on a stale display does.
3. The stop as seen by the tool worker, if the worker comes to read it.
