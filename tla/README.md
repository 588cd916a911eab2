# Verification of multi-agent-s2c

multi-agent-s2c is a chat service whose answers are produced by LangGraph
agents. A question becomes an *agent run*: a row in PostgreSQL, a job in ARQ, a
stream of events in Redis and a page that watches it. The run may be cancelled,
may stop to ask its user a question, may be resumed, may start other runs, and
each of the processes that carry it may fail at any await. Around the runs stand the
services a conversation needs: threads, attachments, sandboxes, knowledge bases
with their search, catalogues of tools and models, and the page's own state. This
directory models them in TLA+, checks them with TLC on small instances, and
proves the most important properties for all instances with TLAPS.

Paths below are relative to the repository.

## 1. Inventory

| Part | Code | State it keeps | Operations | Modelled by |
|---|---|---|---|---|
| API: runs | `server/router/agent_router.py`, `server/service/agent_run_service.py` | none of its own; sessions and row locks while a call lasts | create, resume, cancel a run; stream its events | `RunRequests`, `RunEventReader` |
| Row writers and queries | `src/database/repositories/agent_run_repository.py` | table `agent_run` | `create_run`, `set_running`, `set_agent_terminal`, `request_cancel`, lookups | `AgentRunRepository`, `RunRequests` |
| Worker | `server/worker.py` | locals of `process_agent_run`: controller and listener, smoother bucket, terminal flag | one job per run: read, announce, loop over the agent stream, finalize, clean up | `RunWorker` |
| Signals and stream | `server/service/arq_queue_servcie.py`, `src/storage/redis` | cancel key, cancel channel, `run:events:{id}` | publish/await/clear a signal, write/read events | `RunWorker` (writing), `RunEventReader` (reading) |
| Agent stream producers | `server/service/thread_service.py` (`stream_agent_response`, `resume_agent_response`), `src/agents/base_agent.py` | accumulated message, session; tables `message`, `tool_call`; the thread's checkpoint | yield chunks, save messages, detect interrupts | `ThreadStream`; as an environment of `RunWorker` |
| Thread detail | `server/service/thread_service.py` (`get_thread_detail`) | none | three queries about the runs of a thread | `RunMonitor` |
| Chat page | `web/src/views/ChatView.vue`, `web/src/composables/useAgentRun.ts`, `useChat.ts`, `web/src/api/agent.ts`, `components/chat` | refs of the current run, messages, input, operation counter | open, submit, upload, monitor, reconnect, cancel, answer | `RunMonitor`, `LiveMessages`, `Composer` |
| Subagents | `server/service/subagent_service.py`, `src/agents/middlewares/subagent_middlware.py` | child conversations and runs | spawn, list, wait | spawning in `RunRequests` |
| Start-up | `src/database/manger.py`, `server/worker.py` (`startup`) | schema, agent table | create tables, rewrite run types | the rewriting in `RunRequests` |
| Attachments, library | `server/service/attachment_service.py`, `library_service.py` | rows, objects in MinIO | upload, copy into a thread, rename, delete | `Attachments` |
| Sandboxes | `src/agents/backends/sandbox`, `sandbox_server/app.py` | bindings per user and thread, locks, containers, last activity | acquire, release, destroy, shut down, reap | `Sandbox` |
| Knowledge files | `server/service/knowledge_service.py` | status of each file, objects, vectors, binding to a model | upload, parse, index, remove records | `KnowledgeFiles` |
| Threads | `server/service/thread_service.py`, `web/src/components/ChatHistoryComponent.vue` | conversations; the list shown | create, rename, delete, list, page | `Threads` |
| Parser, OCR, chunkers | `src/knowledge/flow`, `src/knowledge/file_parser` | providers of an Extractor; none | read a picture; blocks, levels, chunks | `Extraction`, `Chunkers` |
| Retrieval, evaluation | `src/knowledge/embedding_service.py`, `store/milvus`, `rag_eval`, `src/model/reranker` | none | embed, search, rerank, evaluate | `Retrieval` |
| MCP tools | `server/service/mcp_service.py` | catalogue of tools, errors, a lock, slots per server | discover, list, call | `McpTools` |
| Model catalogue | `src/model/model_cache.py`, `web/src/stores/useModelStore.ts` | Redis key, the page's copy | read, rebuild, select, check | `Catalogue` |
| Log-in | `server/router/auth_router.py`, `server/utils/auth.py`, `web/src/stores/useAuthStore.ts` | tokens in tabs and in localStorage | log in, restore, log out | `Session` |
| Agents, middlewares, skills, Langfuse, storage client | `src/agents`, `server/service/skill_service.py`, ... | configuration | - | not modelled (section 8) |

How they interact. The API commits a run and enqueues its job; the worker takes
the job, writes the row through `AgentRunRepository` and the events to Redis;
the SSE endpoint reads the events and, when they are silent, the row; the page
reads the SSE connection and the thread detail. A cancellation goes the other
way: the API commits `cancel_requested`, then sets the cancel key, then
publishes on the channel; the worker's listener looks at the key and the
channel, and its loop at both and at the row. Nobody holds a lock across two of
these stores.

What is hard about it, and what makes it correct:

* **Worker.** It touches PostgreSQL, Redis and the agent stream by turns, with
  a cancellation, a timeout, a shutdown or a crash possible at each await, and
  runs `_finalize_run` from three places, one of them inside the cleanup of
  another. Correct: the row is decided once; the stream never contradicts the
  row; content comes before the end, the question before its end; a signal
  follows its commit; a cancellation is served; the listener does not outlive
  its run.
* **Reader and page.** Every connection replays the stream from the start,
  Redis trims it and lets it expire, answers arrive after the page moved on, and
  there are four sources of the same status (stream, row behind the stream,
  thread detail, cancel response). Correct: the shown text is the stream's; a
  shown end is true and stays; an interrupted run shows its question; watching
  comes to rest.
* **Calls.** Read-check-write transactions on shared rows, an enqueue after the
  commit, several rows locked one by one. Correct: one resume run per
  question; a request gets its own run; a resumed run stays interrupted; a
  cancellation reaches everything it saw; nobody waits for ever; a committed run
  is served.

* **Threads and their messages.** Three statements delete a tree while runs
  start in it; a page of the list is read while threads move in it; every run
  saves the whole checkpoint of its thread. Correct: what was active when the
  call looked is not deleted; a thread nothing happened to is listed once; a
  message is saved once, and a completed run has saved all of its own.
* **Two stores without a transaction** (attachments, knowledge files). Correct:
  a row that is alive has its object, a status promises only what is there, and
  a file that is busy has somebody who works on it.
* **Sandboxes and catalogues.** Locks taken across HTTP calls that time out,
  reapers, discoveries that are aborted. Correct: no lock outlives its holder;
  nothing older replaces what is newer; a catalogue is of its time.
* **Text.** Windows across blocks, levels of headings, batches, indices from a
  service, one search evaluated for several K. Correct: what is stored, found and
  recommended belongs to the text it is shown with.
* **The page while the user goes on.** Correct: the live answer is a prefix of
  what the agent said; the input holds what the user gave and comes back; the
  user shown is the owner of the token.

The full list of hazards, each at its line and with the properties that guard
it, is `PROJECT.json` ("hazards").

## 2. Modules

```
AgentRunRepository            the row, and its writers as functions
   |-- RunStream              abstract: what one run promises its readers
   |      ^   \-- RunEventReader -- RunMonitor -- RunMonitorProofs    reader, page
   |      | implements
   |-- RunWorker -- RunWorkerProofs
   \-- RunRequests -- MCRunRequests                 create, resume, cancel
          \-- RunRequestsProofs

MCServices -- ServicesProofs   the services that share no state, side by side
   |-- MCParts -- PartsProofs
   |      |-- Threads         conversations, their list and the history panel
   |      |-- ThreadStream    what a run saves of its thread
   |      |-- Composer        the input of the page
   |      |-- Session         who is logged in
   |      |-- Extraction      the text of pictures
   |      |-- McpTools        the tools of MCP servers
   |      \-- Catalogue       chat models
   |-- Attachments -- AttachmentsProofs         rows and objects of attachments
   |-- KnowledgeFiles -- KnowledgeFilesProofs   parsing and indexing
   |-- MCOthers -- OthersProofs
   |      |-- Retrieval       embedding, search, reranking, evaluation
   |      |-- LiveMessages    what the page shows of a run while it speaks
   |      \-- Sandbox         sandboxes, their provider and their provisioner
   \-- Chunkers        from a parsed file to its chunks
```

**`AgentRunRepository`.** Each writer takes its row `FOR UPDATE` and commits, so
each is one step, written as a function from the locked row to the committed one
(`SetRunning`, `SetAgentTerminal`, `RequestCancel`). It has no variables: the
worker applies the functions to its one row, `RunRequests` to a table of rows
with more columns.

**`RunStream`** is the abstract specification: the status of a run and the log
of its event stream. `Begin`, `AskToStop` and `Decide` change the status;
`WriteRunning`, `WriteContent`, `WriteInteraction` and `WriteEnd` append to the
log, each under the condition a reader relies on (content only before the
decision, an end only after it and with its status, twice at the most, after
the question if the run was interrupted). The composition is by assumption and
guarantee: `RunWorker` is shown to implement it, and the reader and the page are
checked against it, without the worker's queue, signals and faults.

**`RunWorker`** is one run in detail. `pc` is where `process_agent_run` is, with
a value for every place between two awaits that reach PostgreSQL, Redis or the
agent stream; a step is what the code does from one such place to the next.

| Code | Model |
|---|---|
| `process_agent_run` up to the stream (worker.py:433-557) | `LoadRun`, `Prepare`, `SetRunRunning`, `PreCancel`, `PreClear`, `Announce` |
| `_cancellable_stream`, `StreamEventSmoother`, the loop (558-712) | `WakeCancelled`, `TakeItem`, `Flush`, `CheckKey`, `CheckRow`, `Dispatch...`, `Drain` |
| `_finalize_run` (267-317), called with its site | `Finalize`, `PublishInteraction`, `PublishEnd`, `ClearSignal`, `RepublishEnd` |
| the except and finally clauses (713-733) | `Throw`, `ReleaseCancelled`, `FinalizeCancelled`, `FinalizeFailed`, `CloseController` |
| `wait_agent_run_cancel_signal` | `CheckKeyFirst`, `Subscribe`, `ReadConfirmation`, `Recheck`, `ReadMessage` |
| `request_cancel_agent_run`, `publish_agent_run_cancel_signal` | `AskCancel`, `SetKey`, `Publish` |
| ARQ, PostgreSQL, redis-py, the process | `StartJob`, `Leave`, `AbortJob`, `CrashWorker`, `DropConnection` |

`Throw` is Python's exception control flow: the inner `try` catches an exception
of its body, and one raised in an except clause goes on to the outer `finally`.
Faults are counted and chosen from `Faults`: a Redis command fails (with or
without effect), the subscription drops, the listener fails, ARQ cancels the
task, the process dies. PostgreSQL is taken to answer. The agent stream yields
any chunks thread_service may yield, in the orders it may yield them, may raise,
end without a word, or be silent for ever. How much a bucket holds is left out
(`TakeItem` may flush at any loading chunk); the contents of chunks are not kept,
only whether an error has its text.

**`RunEventReader`** is `stream_agent_run_events` on one connection: `ReadBatch`
(XREAD from the cursor), `ReadNothing` (XREAD timed out), `Decided` (the row is
read, later, and an end is made up from it), `Send`, `Break`. Redis keeps
`log[first]` and everything after it: `RunStep` lets XADD trim approximately and
`Expire` removes the key.

**`RunMonitor`** is the page. An action is what the page does between two
awaits; what an operation waits for arrives although the page has moved on
(`op` is the current operation). `ReadDetail` performs the queries of
`get_thread_detail` one at a time, and `Restore` is `restoreRunFromThread`;
`Loop`, `Connect`, `ReceiveFrame`, `ConnectionBreaks` and `Continue` are
`monitorRun`; `SendCancel`, `CommitCancel` and `CancelReturns` are the stop
button.

**`RunRequests`** is the table and the calls on it. A call is a transaction in
steps: it reads what is committed, holds what it locked (`held`) until it
commits, and may lose its process between two steps. `CheckQuestion` and
`InsertChat` are create; `LockParent`, `LookForChild` and `InsertResume` are
resume; both go on with `Enqueue` and `MarkFailed`; `ListChildren`, `LockNext`,
`CommitCancel` and `PublishSignals` are cancel. The worker appears as far as the
rows show it (`StartJob`, `FinishJob`, `Spawn`, `EnqueueChild`), `EnsureTables`
is the statement every worker start executes on the table, and
`DeadlockDetected` is PostgreSQL's answer to calls that wait for each other. One
user and one thread; whether an answer is one of the options is left out.
`MCRunRequests` adds the symmetry of the cancel calls, which is sound because
they are told apart by nothing and the run checks an invariant only.

**`Threads`.** `ListTree`, `CheckRuns` and `SoftDelete` are the statements of
`delete_thread`; `StartWalk` and `ReadPage` are a client that follows
`next_cursor`, `SendLoad`, `ServeLoad` and `ReceiveLoad` the history panel with
its request version. Conversations are created, renamed, written to and given
runs and subagents meanwhile. Lists are sets with an order (`Before`): `Page`
is the rows that fewer than a page are ahead of, `LastOf` the one the cursor is
made from, and `walk.read` counts how often each was given. `Tree` is what the
recursive query of `list_tree_for_user` comes to, the least set that is `Closed`.

**`ThreadStream`.** `Start` and `Resume` are the two generators, `Produce` is a
step of the graph, `CommitMessages` is `save_message_from_langgraph_state` (which
looks for every message of the checkpoint before it adds it), `CheckInterrupt`,
`Fail` and `FailLate` the ways to end otherwise. The worker is here the reader of
the chunks. The checkpoint, the rows and what a save is about to add
(`RowsToAdd`) are sets of numbered messages; `Newest` and `OutputOf` are the
places where the code looks at their order. `Resume` is the failure the code has
(section 4).

**`LiveMessages`** follows a text through four places: named by
`_make_lc_message_to_standard` (`StartMessage`, `Speak`, `FinishMessage`),
buffered by `StreamEventSmoother` (`Released`), written to the stream, and read
by a page that starts over after a broken connection (`Connect`, `ReadEntry`).

**`Composer`** has one action per place where a handler of `ChatView` goes on
after an await: uploads, `submit` (`ThreadAnswers`, `RunAnswers`,
`DetailAnswers`, `Returns`), `submitResume`, `loadThread`, and the user who types,
leaves and opens another thread in between.

**`Session`** is the token in every tab and in localStorage, and the answers of
`/auth/me` and of the log-in.

**`Attachments`.** Every call of MinIO is a step, every transaction holds its
rows' locks, and each process may die. `StartUpload` ... `CommitUpload` is an
upload, `StartSend` ... `RemoveObject` a message with attachments, with its
rollback in the same actions.

**`KnowledgeFiles`.** `parse_file` and `index_file` in the steps between their
commits, the flush of the binding's INSERT with PostgreSQL's wait for the key,
the handlers of their exceptions (`Reread`, `Recover`), and deaths between them.

**`Extraction`** is `Extractor` (the order of the providers, the lock under which
one is made) and the three providers; `SubmitTask`, `QueryTask`, `Wake` and
`DownloadMarkdown` are the polling of the remote OCR. The parser makes an
Extractor per picture and names its provider; the order and the locks are the
contract of the class.

**`Chunkers`** is not a protocol: a behaviour picks a document and options and
computes. `MarkdownBlocks`, `PdfJsonBlocks`, `FrequencyLevels`, `OutlineLevels`,
`TokenChunks`, `GroupChunks` and `HierarchyChunks` are the functions of the code;
texts are sequences of units `<<block, i>>`, so that it can be said where every
token of a chunk comes from. `Retrieval` is similar, with the answers of the
services as choices.

**`Sandbox`** has both sides and the requests between them: the provider's calls
(`LockKey`, `Send`, `Answer`, `GiveUp`, `Store`), the provisioner's handlers
(`ServeGet`, `ServeCreate`, `ServeWait`, `ServeTouch`, `ServeDelete`), the reaper
(`Expire`, `Scan`, `Reap`, `ReapForget`) and containers that die.

**`McpTools`**: `StartDiscovery`, `LoadServerTools` per server and `Publish` are
`_reload_mcp_tools`; `TakeSlot` and `CallEnds` are the interceptor of calls.
**`Catalogue`**: `Hit`, `Miss`, `Set` and `RedisFails` are `get_model_catalog` of
processes of different versions, the rest is the page's store.

**`MCServices`** composes these and runs one of them at a time (`part`), so that
one configuration gives each its own bounds. The conversations are three parts,
each with some of its callers. Seven of them are instantiated in **`MCParts`**,
with the constants, the variables and the assumptions they share, so that
`PartsProofs` can speak of them without the rest; three more in **`MCOthers`**, for
`OthersProofs`. The attachments and the files are instantiated from their
modules of proofs, which extend the components, so that `ServicesProofs` can cite
their theorems.

Definitions introduced by the words "plausible slip" or "a slip" are not part of the system.
They are wrong forms of the definition that follows them, which show that the
properties can fail: `PROJECT.json` ("mutants") says which property each breaks.

## 3. Runs

| Run | What it asks | Bounds | Result |
|---|---|---|---|
| `worker_safety` | Do row, stream and signals ever contradict each other; does the worker implement `RunStream`? | 1 cancel call, 2 attempts, 2 chunks each, any 2 faults of 5 kinds | holds |
| `worker_liveness` | Is every cancellation served and every run decided? | 1 call, 3 attempts, 2 faults (drop, crash) | holds |
| `worker_cancel_race` | Can a cancelled run be reported completed? | 1 call, no fault | **violated** |
| `worker_lost_run` | Does a finished job always leave a decided run, if Redis may fail? | 1 fault | **violated** |
| `worker_unasked_cancel` | Is a run cancelled only on request? | no call, no fault | **violated** |
| `monitor_replay` | Is the text right and does watching end? | 4 log entries of which 3 are retained, 2 faults of 4 kinds, 1 visit, repeated cancels | holds |
| `monitor_pages` | Does the page show only ends that are true? | 2 visits, 1 fault of 3 kinds | holds |
| `monitor_torn_detail` | Is a run that is shown active being watched? | no fault | **violated** |
| `requests_answers` | One answer per question, one run per request, nobody waits for ever | 1 create, 2 resumes, 1 cancel, 3 request ids, 2 faults of 3 kinds | holds |
| `requests_stops` | Does a cancellation reach what it saw? | 2 cancels, a run with 2 children, 1 fault | holds |
| `services` | Each service's properties, see below | see below | holds |
| `requests_relabelled` | The same as the first question of `requests_answers`, with a worker that starts | 1 start | **violated** |

Why these bounds. In `worker_safety` two faults put one fault into the cleanup
of the other, two attempts let the second find what the first left, and two
chunks are a content chunk and a closing one, or a closing one and the
`finished` that may follow it; further chunks repeat these. In `worker_liveness`
ARQ has one attempt more than there are crashes. In `monitor_replay` the log
has one entry more than Redis retains, so it can be trimmed, and two faults let
a recovery fail itself. In `monitor_pages` two visits are the current one and a
superseded one. In `requests_answers` three request ids are one for the chat run
and two that may be equal or different for the answers; in `requests_stops` two
children are the fewest whose locks can be taken in opposite orders (this run
also starts a worker, which changes nothing there: no resume run exists).

What the passing runs show is best read from the properties, each of which is
stated in words above its definition. Some of what they rule out:

* an `end` event whose status is not the row's, although `_finalize_run` writes
  it twice, its caller may be aborted between the two, and a retried job writes
  into the same stream (`StreamTellsRun`, `ImplementsStream`);
* a signal lost between the look at the key and the subscription, or with the
  connection (`CancelTakesEffect`);
* a reconnect that repeats or loses text (`TextIsStream`), and a page that waits
  for an end that was never written or is gone (`WatchingEnds`);
* two answers to one question, a repeated request that gets another's run, a
  cancel or a failed enqueue that changes the interrupted parent (`OneAnswer`,
  `RequestGetsItsRun`, `ParentStaysInterrupted`).

The parts of `services`, their properties and bounds:

| Part | Properties | Bounds |
|---|---|---|
| attachments | `ObjectsMatchRows` | 2 files, 1 upload, 2 sends to different threads, 1 edit, 2 faults of 3 kinds |
| deletes, list, panel | `RunningIsProtected`; `ListsAreTrue` | 3 conversations, 2 instants, 2 writes, 2 loads, a walk with pages of one |
| stream | `SavedOnce`, `CompletedIsSaved` | 3 runs one after another, 4 messages, 2 faults of 4 kinds |
| files | `StatusIsTrue`, `NobodyIsWaitedFor` | 2 files, 2 calls at a time, 4 in all, 3 models of 2 dimensions, 1 fault |
| pictures | `TextIsFound` | 2 calls of one Extractor, 2 faults, an interval of 2 and a deadline of 3 ticks |
| chunks | `ChunksAreTrue` | documents of up to 3 elements of 8 kinds, 2 limits, 2 targets, 3 outlines |
| retrieval | `AnswersAreTrue`, `RecommendedIsBest` | 3 texts in batches of 2; 3 stored chunks, limits 1, 2, 4; 2 samples, 2 sets of K |
| live | `PageTellsAnswer` | 3 messages of 2 model calls, 2 deltas each, 1 broken connection |
| input | `InputIsTheUsers` | 2 items, 3 handlers, 2 visits |
| session | `ShownUserIsOwner` | 2 tabs, 2 users, 2 log-ins, 2 page loads |
| sandbox | `NothingIsHeldInVain`, `BindingMovesForward` | 1 key, 2 runs, 1 destroy, 2 containers, 1 fault of 4 kinds |
| tools | `NothingIsHeldInVain`, `CatalogueMovesForward` | 2 servers and one misconfigured, 2 runs, 1 slot, 1 change, 2 discoveries |
| models | `CatalogueIsTrue` | 2 processes, 2 versions, a time to live of 2 of 4 ticks |

Two actors are enough for each of these races, because every one of them is
between a call and another one on the same row, key or file; what needs a third
(a run after a failed one, a file that finds the binding of two others) has it.
Three conversations are a tree and a neighbour, three elements a heading, its text
and what follows; a limit of 2 cuts a text of 3 in the middle. `TypeOK` is the
conjunction of the parts' type invariants. The calls of the files, of the
pictures, of the tools and the runs with a sandbox are a symmetric set: their
modules compare them only for equality, and choose none of them.
A knowledge base starts with the first of its models: the models differ by
their dimension only, and the next one may have the same or another.

Conditions in the properties that are part of what they say: `SavedOnce` holds
for runs of a thread that follow each other (`OneRunAtATime`; with two at once both
look for the same message before either adds it); `ObjectsMatchRows` is checked for sends to
different threads; `NobodyIsWaitedFor` excepts files whose process died or whose
database refused the failure; `RecommendedIsBest` takes a largest K within
`rerank_candidate_limit` and ties broken by position; `RunningIsProtected` is
about runs that were active when the call began.

## 4. Findings

Each is the counterexample of a violation run, against a sentence of the
repository's own documents or tests (quoted in `PROJECT.json`, "findings").

1. `CancelPreventsCompletion`: `is_cancelled` and the terminal write are two
   transactions, and `set_agent_terminal` does not look for `cancel_requested`.
   A cancellation committed between them is overwritten by `completed`.
2. `JobDecidesRun`: the running event is written after the row is `running` but
   outside the inner `try`. If that write fails the job is over and the run stays
   `running`.
3. `CancelledIsAsked`: `run_controller.is_cancelled()` at worker.py:690 is not
   awaited, so an exhausted stream without a terminal chunk is always reported
   `cancelled`; the documented `failed` branch is unreachable.
4. `ActiveIsWatched`: the thread detail is put together from three reads. A run
   that ends between the first and the second is shown `running` by a page that
   has no stream address and does not monitor it.
5. `OneAnswer` with `startup`: every worker start sets the type of a resume run
   to `chat`, because it is computed from the agent's role. The run is then not
   found by `get_resume_child`, and the question can be answered again.

Disagreements and weak places met while modelling, without a run of their own.
Each is in the model as the code has it, and the properties are stated so that
they say what still holds.

* A resumed run always fails: `resume_agent_response` calls
  `_stream_agent_event_chunks` without its required argument
  (thread_service.py:1416). An `ask_human` interrupt makes `map_stream_event`
  return one value where two are unpacked, so the run fails instead of being
  interrupted.
* The subagent tools raise a `TypeError` before they create a run
  (subagent_middlware.py:354-378).
* Two sends of the same staged file to the same thread, one of which fails to
  insert, may delete the copy that the other committed
  (attachment_service.py:155).
* A run that starts between the statements of `delete_thread` is deleted with
  its thread (thread_service.py:267-284).
* `ThreadListResponse` (server/entities/thread.py:94-98) has no `has_more`, which
  the web's types and the history panel expect.
* Nobody picks up a knowledge file whose process died while it was parsing or
  indexing.
* Sandbox tools do not touch the activity of their sandbox, so a long run may
  lose it to the reaper; the client gives up after 30 s where the provisioner
  waits up to 300 s; a container may exist that the reaper does not know.
* `_TOOLS_LOADED` is set although every server failed, and `refresh_mcp_tools`
  has no caller. A call that fails after its server's answer and before the
  publication is erased from the errors.
* A question answered before `submit` has returned leaves the input disabled
  (ChatView.vue:289-314). A page that is reloaded between the save of the
  messages and the end event shows the answer twice until then.
* Requests take the token from localStorage: after a log-in in another tab a tab
  acts for a user it does not show. Any error of `/auth/me` logs out.
* The hierarchy chunker never splits a long paragraph that looks like a heading
  (hierarchy_chunker.py:170).
* The search dialog numbers no requests: it may show the results of an older
  query than the one in its input (SearchChatComponent.vue:37-66).
* An Extractor that goes on to the next provider gives it a stream the first one
  has read to its end.

## 5. Fairness

Weak fairness throughout; no property needs a strong one.

* `RunWorker`: the event loop runs every task that is ready (`WorkerStep`,
  `ListenerStep`), ARQ hands out queued jobs (`StartJob`), and a call in progress
  goes on (`Signal`). Not assumed: that anybody calls, that the agent stream
  yields, that a fault happens or does not.
* `RunMonitor`: the server answers and the page's event loop runs. Nothing is
  assumed of the run: it may never be decided and its end may never be written.
* `MCServices` states none: its properties are about safety only. Several of its
  services have no such promise in the code (a crashed parse, a reaper, a
  discovery that was aborted).
* `RunRequests`: an accepted request is carried on, and PostgreSQL detects
  deadlocks (`deadlock_timeout`). Nothing is assumed of the worker or of new
  calls. A lock that is waited for is released because its holder is carried on.

`CHECK_DEADLOCK FALSE` stands in the configurations because all of these systems
may stop: the run is decided, the page is at rest, the calls are over.

## 6. Proofs

The theorems hold for every number of callers, chunks, messages, attempts,
subagents, tabs, tools and faults. Their only assumptions are those of the modules
(`ConstantsAssumption`, `BoundsAreNumbers` and so on), which TLC evaluates in the
runs, the `Parameters` of a component, which `ServicesProofs` derives from them, and
those that a theorem states: `AnsweredOnce` that no worker starts, and
`JobsDecideTheirRun` that the run is `Undisturbed`. The parts of the invariants
were checked by TLC on the bounds of the runs before they were proved.

**The worker** (`RunWorkerProofs`). `TypeCorrect` is the type invariant, action by
action. None of the safety properties of `worker_safety` is inductive by itself.
The inductive invariant has these parts:

* `Control` relates where the job is to the row, the bucket and the pending
  item. Its heart is `DecidedQuiet`: once the row is decided the job is outside
  the loop, in `_finalize_run`, or in the loop or an except clause with an empty
  bucket, a closing chunk behind it and no further content to come. This is
  what makes it impossible to write content after the decision, and it needs
  `ItemAwaited`, `BucketReleased`, `FinKnowsRow` and `FinKnowsSite`, which say
  what each place of the program may rely on.
* `Log` is `StreamTellsRun` with `InteractionFirst` (no end is written before the
  interaction) and `Begun` (the loop runs on an announced run). Its induction
  step rests on `EventSteps`, which says once and for all which event a step may
  write and in which state, so that the log is argued about without the actions.
* The signal properties rest on what the callers know (a call that has
  committed, or has set the key, finds the run cancelled or decided).
* `RowMovesForward` needs only `RowSteps`: every step changes the row through one
  of its writers, or not at all.
* `JobsDecideTheirRun` is about the worker that reaches Redis, is not aborted by
  ARQ, and has more attempts than there are deaths. Without the first the
  property is false (finding 2); `worker_liveness`, which checks it, has the same
  bounds on the faults. `LeftDecided` says from where an attempt is left with the
  run decided, `OneTryPerFault` that only a death makes ARQ try again.
* `WorkerImplementsStream`, that `RunWorker` implements `RunStream` under
  `status <- row.status, log <- StreamLog`. Beyond `Control` and `Log` it needs
  `Ending`: at most one end is written before the second one, and an interrupted
  run's question is in the log before its end. A step changes the row or the log
  but not both (`OneStoreAtATime`), so the step simulation falls into
  `RowImplements` and `EventImplements`.

**The page** (`RunMonitorProofs`). What a page shows comes from four places, and the
invariant says of each what it may still tell:

* of the stream, `LogTellsRow` (an end has the status of the row), `QuestionFirst`
  (an interrupted run's log ends with its question and one or two ends behind it)
  and `Retained` (what trimming leaves);
* of the connection, `ConnInv` (the frames on their way are consecutive entries
  behind the cursor, or were made up from a decided row) and `Connected` (only the
  page's operation has one);
* of details and cancel responses that are still to come, `AnswersTrue` and
  `Awaiting`: those of superseded operations arrive too;
* of the page without a stream, `LeftStream` and `AskedAfterEnd`.

`ShownEndIsTrue` is a part of it, `QuestionIsShown` follows with `QuestionComes`
(the question is before the end in whatever the connection still has),
`TextIsStream` needs `TextWritten` and that frames follow each other without a
gap, and `ShownEndStays` is an action property of the same invariant: what could
take the end back was asked for before it, and `AskedAfterEnd` excludes that.

**The calls** (`RunRequestsProofs`). `RequestsTyped` is the type invariant. `RowsKept`
says what any step does to the table: an existing row keeps its identity and a
decided status, or one row is inserted by a call whose state is known. `CallSteps`
and `StopSteps` say what it does to a call, `HeldSteps` what it does to the locks.
On these rest three invariants:

* `Asking` (for `RequestsGetTheirRuns`): no two rows share a request, and a call
  that has a run has the run of its request. `request_id` being unique is
  enough; no lock is involved.
* `Resuming` (for `ParentsStayInterrupted` and `AnsweredOnce`): locks exclude
  each other; a call between `LockParent` and its commit has the lock on its
  parent, which is interrupted; and at `inserting` the parent has no resume
  child. The last is the point: it is read at `locked`, in a step of its own,
  and stays true because whoever else could insert a child would hold the same
  lock. `AnsweredOnce` also needs that rows without the type `resume` or
  `subagent` have no parent (`Roots`), which a start-up breaks: hence its
  assumption, and finding 5. `ParentsStayInterrupted` holds with start-ups too.
* `Cancelling` (for `StopsCover`): a call comes to its own row only when it
  holds all the children it listed, because no run is its own child
  (`ChildrenApart`, which needs that only runs in the table have jobs).

**Services with a module of their own.**

* `AttachmentsProofs`. An object is there because a row names it, or because a call
  is about to commit or to remove it (`Accounted`, as long as nothing has failed);
  `AvailableIsStored` is kept because a send removes an object only when its rows
  have moved on (`SendTrue`) and copies only what it has locked (`LocksApart`).
  `Parameters` leaves out two sends to the same thread where an insert may be
  refused: the rollback of one deletes the copy of the other (section 4).
* `KnowledgeFilesProofs`. `Decided`: a file that is busy has a call that will decide
  it, or its loss is recorded. The difficulty is that calls overwrite each other's
  status; `Decides` names the stages from which every way out commits a decision.
  `Readable` and `Searchable` give `StatusTrue`; the latter needs `HoldsKey`, that
  one call at a time has a binding it has not committed, and `Bound`, that nobody
  embeds with another model afterwards.

**The services of `MCParts`** (`PartsProofs`), one after the other:

* *Tools.* `DiscoveryIsExclusive`: only the holder of the lock discovers, and its
  number is the latest.
* *Log-in.* `TokensAreMade`: tokens are numbered in the order they were made and
  never made over, so an answer about an old one cannot be taken for a new one.
* *Models.* `StoppedIsTrue`: a version that was stopped has been so no longer than
  the clock has run, which bounds the age of what it left in the cache.
* *Conversations.* A deletion knows the conversations that were there when it
  listed the tree, and what it found active in them (`Knows`); what is created
  later cannot be active from the beginning (`Grown` is all a step may do to
  those that were there). A walk has been given exactly the stable conversations
  that are not behind its cursor (`WalkTrue`); `PageHasLast` and `WalkReads` are the
  facts about pages, by counting what is ahead of a row. `PanelTrue`: no request
  beyond the last one is out.
* *Messages.* While a run is active the checkpoint is its own state and has all it
  produced, and what it is about to commit is what the tables lack of it
  (`RunIsTrue`). This is where `OneRunAtATime` is used, which `RunRequests` has
  from the code.
* *Pictures.* `HasPassed`: every provider before the present one has failed or
  cannot read the file; `LocksAreTrue`: the lock of a provider is held by the call
  that makes it, which has not made it yet; `TaskIsTrue`: who gave up found the
  task not done at its deadline.
* *Input.* Every handler has an operation of its own (`OperationsTrue`); the current
  one, while it has the input on its way, keeps the input empty and closed
  (`SubmissionsTrue`), and an input that is closed has a handler that will open it
  (`ClosedForOne`). `InputIsKept` counts: an item is in one place only
  (`OneHasIt`, `OneGoes`).

**The services of `MCOthers`** (`OthersProofs`).

* *Induction.* The library's induction theorems take an operator, which the provers
  cannot instantiate, so they are replaced by forms that speak of sets:
  `NatSetInduction` (a set of numbers with zero and the next of each is all of
  them), from the well-foundedness of inclusion; `Recursion` (a function that
  follows step by step from a first value), with which a fold becomes a chain of
  values (`FoldIsNumber`, `ItemsInOrder`); and `Enumerates`, that a finite set
  has an order in which each element has the rank it should have, which
  `OneEnumeration` says is the only one. The orders of the models (the merge of the
  vector and the word search, what a client makes of the items of an entry) are
  written as enumerations.
* *Search.* `AskingIsInOrder` says of every place of the search what is known of the
  answer there: `Right` is an answer that enumerates the best chunks of those
  asked for, within the limit. `SortedIsBest` and `AcceptedIsBest` show that of a
  sort and of an answer of the reranker that the code accepts; `BestIs` that there
  is one such answer only, so that what is evaluated at K is the beginning of what
  the service answers at K (`PrefixIsServed`), and the K that is recommended is the
  best of the K that reach the target (`RecommendedBest`).
* *The live page.* `LiveInv` has, for each entry of the stream, the number of deltas
  that had been said when it was written (`upto`); an entry is what was said since
  the one before it (`IsEntry`), the buffer what was said since the last one
  (`IsLog`). The page that has read the entries up to one shows exactly what was
  said up to it (`Shows`): behind the cards that were there before the run, a card
  for each message that has begun, in the order of their beginnings (`Begins`), with
  all its deltas (`Of`, `Texts`). `NamesApart`, that a name is of one message only,
  is where `LiveParameters` is used. `TellsText` is the step: a delta goes to the
  card of its message, or makes one.
* *Sandboxes.* `KeysAreLocked` says which calls hold their key's lock, which gives
  `LocksAreReleased`; from it, no two calls of a key are past `LockKey`. `BindInv`
  bounds what a call on its way may still answer (`MayBind`, `AnswersBind`): nothing
  older than the binding, and nothing once the provider is closed.
  `BindingsMoveForward` and `ClosedStaysEmpty` follow.

**The composition** (`ServicesProofs`). Every step of a behaviour of `MCServices` is
one of the component it is about (`AttachmentsSteps` and its like), so that the
behaviour is one of the component from its first state on; with the `Parameters`
of each, the theorems above become theorems about the properties that the run
`services` checks, under the same names.

Only model-checked:

* the liveness properties (`CancelTakesEffect`, `WatchingEnds`, `CallsEnd` and the
  others with `~>` or `<>`): reasoning under fairness needs ENABLED, which this
  prover cannot handle;
* `ChunksAreTrue`, `AnswersAreTrue`, `RecommendedIsBest` and `PageTellsAnswer`: what a
  recursive function or a fold computes of every document, every list of answers or
  every history of deltas is an induction over data, and the library's induction
  theorems take an operator that the provers cannot instantiate;
* `MCServices!TypeOK` as a whole, because it includes the types of these three
  modules; the types of the other components are parts of their invariants.

## 7. Plan

In this order, the most important first.

1. Done: `AgentRunRepository`, `RunStream`, `RunWorker` with its proofs,
   `RunEventReader`, `RunMonitor`, `RunRequests`.
2. Done: the safety properties of `RunWorker`, `RunRequests` and `RunMonitor`
   proved, and `RunWorker` shown to implement `RunStream`.
3. Done: the services and `MCServices`; proofs about all of them but
   `LiveMessages`, `Chunkers` and `Retrieval`.
4. Proofs about `LiveMessages`, as far as its sequences allow: that a message is
   in the page's list once, and that what is shown is of one stream.
5. The type invariants of the parts as one theorem of `MCServices`.
6. `RunWorker`'s environment refined: `ThreadStream` as a producer that
   implements the order of chunks `RunWorker` assumes. Today both are written
   from the same code, and their agreement is not checked.
7. The subagent tools, once they reach a run.

Configurations stay few: modules whose state is small share one, and runs that
ask a question of the same module and bounds are merged.

## 8. Not modelled, and why

* LangGraph, the models, MCP servers, prompts: external; the worker sees them
  only as the chunk stream.
* PostgreSQL's own failures: every path of the worker that writes the row would
  end in the same unspecified place (ARQ's retry), and nothing in the code
  handles it.
* Waiting for a subagent's result: `wait_agent_run_result` fails before it reads
  anything (a missing argument, agent_run_service.py:264-277), so there is no
  behaviour to model beyond the spawning.
* Calls of the subagent tools: they fail before a child run exists.
* Rendering and styling; the library and knowledge pages of the web, which work
  on data of their own; the search dialog (`SearchChatComponent.vue`).
* The conversion of file formats (external libraries), RAPTOR (numeric, and no
  pipeline calls it), distances in Milvus.
* The agents' middlewares and prompts, skills, Langfuse, migrations: static
  configuration, thin clients and DDL.
* Password hashes and registration; the client of MinIO, whose calls are steps of
  `Attachments` and `KnowledgeFiles`.
* The file tools of a sandbox (`sandbox_backend.py`): a client without state.
* Commits whose answer is lost: the code has no path for them.
* The text of messages and events: a property would not tell two texts apart.
  Their order, number and completeness is modelled.
