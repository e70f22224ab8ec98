# Verification of my-nl2sql

TLA+ models of the NL2SQL assistant in this repository: a FastAPI backend that turns a
question into SQL with a LangGraph workflow, streams what happens over SSE, and keeps
metadata, prompts, an LLM cache and a retrieval index in MySQL and Qdrant.

Paths below are relative to the repository; `*.py` paths without a directory are under
`backend/`.

## The system

| part | state | operations | talks to |
|---|---|---|---|
| Workflow graph (`graph/workflow.py`) | `GraphState` per thread, checkpointed by `MemorySaver` after every super-step; `_schema_graph_cache`, `_emitter_cache` | 13 nodes, 5 routing functions | LLM service, Qdrant, metadata tables, the datasource |
| SQL gate (`sql/schema.py`) | none (FK graph per run) | `validate`, `find_join_paths`, `execute_sql` | sqlglot, the datasource |
| Ask sessions (`api/session_manager.py`, `api/sse.py`) | `_sessions`, one queue per request | ask, stop, resume, the task of a run, the SSE generator | the graph, the client |
| GraphQL questions (`api/schema.py`) | the same sessions | `askQuestion`, `askStream` | the same run; Celery |
| Celery workers (`workers/tasks.py`) | score and alert rows | `score_rag_chunks`, `scan_template_candidates` | LLM, database |
| LLM cache (`cache/llm_cache.py`, `llm/service.py`) | `llm_cache_entries`, hit log | exact and semantic lookup, insert | database, embeddings |
| RAG index (`rag/*.py`) | documents and chunks in MySQL, points in Qdrant | index, unindex, re-index, search | database, Qdrant |
| Prompts, system configuration (`db/prompts.py`, `db/system_config.py`) | versions, one active per role; one row limit | seed, create, activate, load | database |
| Templates (`services/template_recommender.py`) | recommendations, templates | scan, approve, reject | database |
| Metadata sync (`services/metadata_sync.py`) | tables, columns, foreign keys | scan, merge, re-create FKs, index | remote MySQL, RAG index |
| Admin CRUD (`api/admin_graphql.py`) | all of the above | create, update, delete, cascade | database, RAG index |
| RAG evaluation (`eval/rag_eval.py`) | cases, runs, items | run, metrics, import | RAG index |
| Clients (`apps/web`, `apps/admin`) | chat state, paused session | submit, stop, resume | SSE, GraphQL |

What is hard here. Everything runs on one asyncio loop, so handlers interleave at every
`await`; the tasks that run the graph are not tied to the requests that started them; a
session can be stopped, resumed twice at once, left by its client, or fail, at any of these
points. No transaction spans an LLM call, and none spans MySQL and Qdrant. The LLM may
answer anything.

What correct means, part by part:

* *Workflow*: whatever the LLM answers, only validated statements reach the datasource, at
  most one per run, and every run ends within a bounded number of super-steps.
* *Sessions*: the graph's thread has one runner at a time, a stop is neither lost nor
  ignored, a stream ends after its end was reported, a session is never stuck.
* *Cache*: a hit was said in the same role to a similar question, rows stay unique, and the
  cache makes a question fail only over what it could not know.
* *Index*: what is searched is what is documented: points, chunks and flags agree.
* *Prompts, configuration, templates*: one active version per role, one row limit, one
  recommendation per executed statement, one decision per recommendation, under concurrent
  edits.
* *Metadata*: what is allowed is what was asked for last, descriptions entered by hand stay, a
  foreign key has one row, nothing refers to what is gone.
* *Evaluation*: a run is whole or failed, and its numbers say what was retrieved.
* *Clients*: what the page offers to resume can be resumed, no question runs on unread, no
  reader waits for ever.

## Modules

| module | models | checked by |
|---|---|---|
| `SqlPolicy` | `SqlValidator.validate` as an operator on abstract statements | through `Workflow` |
| `Workflow` | the graph: one action per node together with the routing function behind it | `MCWorkflow`, `WorkflowProofs` |
| `WorkflowEvents` | the same steps with the events each node returns and the accumulating reducer | `MCWorkflow` (its specification is `EventsSpec`), `WorkflowProofs` |
| `AskLifecycle` | the abstract promise: ask, advance, stop, pause, resume, finish, fail | refined by `AskSession` |
| `AskSession` | sessions, tasks, queues and clients of one question over HTTP | `MCAskSession`, `AskSessionProofs` |
| `GraphqlAsk` | one question over GraphQL: the run without an emitter, subscriptions that share a queue, HTTP resumes of the same session, scoring jobs | `MCGraphqlAsk`, `GraphqlAskProofs` |
| `ChatPage` | the chat page over the sessions of the API: submit, stop, resume, events, lost connections | `MCChatPage`, `ChatPageProofs` |
| `LlmCache` | the cache as concurrent runs look up, answer and store, over the snapshots of their database sessions | `MCLlmCache`, `LlmCacheTemplatesProofs` |
| `RagIndex` | rows, flags and points of the retrieval index under index, unindex, sync, deletes, the cascade of a datasource and scoring | `MCRagIndex`, `RagProofs` |
| `Settings` | prompt versions and the row limit under startups, scripts and administrators | `MCSettings`, `SettingsProofs` |
| `Templates` | recommendations and templates under scans, approvals and rejections | `MCTemplates`, `LlmCacheTemplatesProofs` |
| `Metadata` | tables, columns, foreign keys of one datasource: synchronisation, edits, cascade | `MCMetadata`, `MetadataProofs` |
| `SchemaGraph` | the graph of allowed tables and the recommended JOINs | `MCSchemaGraph`, `WorkflowProofs` |
| `RagEval` | the metrics of a case, runs, imports and edits of cases beside the index | `MCRagEval`, `RagProofs` |
| `WorkflowProofs`, `AskSessionProofs`, `GraphqlAskProofs`, `LlmCacheTemplatesProofs`, `RagProofs`, `SettingsProofs`, `MetadataProofs`, `ChatPageProofs` | proofs | TLAPS |

The modules that edit MySQL (`LlmCache`, `RagIndex`, `Settings`, `Templates`, `Metadata`,
`RagEval`) share one picture of it. A session reads from the snapshot that its first read takes
(REPEATABLE READ); statements that write see what is committed, wait for rows that another
transaction has written, and collide with unique keys as committed by then; the ORM writes only
attributes whose value differs from the one it loaded; everything that is not committed is
undone by a failure. `Lose` (or `Fail`) is a lost connection, a dead process or the victim of a
deadlock, and can happen at every step.

Three proof modules are about two components each (`WorkflowProofs`, `LlmCacheTemplatesProofs`,
`RagProofs`). The second of the two names its initial states, steps and specification after itself
(`GraphSpec`, `TemplatesSpec`, `EvalSpec`), so that both can be extended together; nothing is composed.

### SqlPolicy and Workflow

A statement is a record of what the gate distinguishes: how sqlglot parses it (`kind`), the
tables it names, whether its outer SELECT has a LIMIT,
and whether its text ends in a line comment (in which case an appended LIMIT is not read).
`Validate` follows the early returns of `validate`: a statement that is rejected for its
tables is still rewritten, one that is not a single SELECT is not.

A state of `Workflow` is the checkpoint between two super-steps: `pc` is the next node, the
other variables are the keys of `GraphState` that steer the run or reach the datasource, and
`whitelist` is what the metadata tables say *now*. Each node is an action, with its routing
function applied to the new state, as LangGraph does. LLM answers are chosen from all the
values their parser can return: an intent, a boolean, a decision, any statement, or "cannot
answer". `UpdateTable` edits the whitelist between any two steps. `NodeRaises` ends the run
from the nodes that call something that can fail; `execute_or_return` catches.

`_retrieval_decision` is not declared in `GraphState`; whether LangGraph keeps such a key
depends on its version. When it is dropped the judge always routes on the default, which is
one of the two decisions the model allows anyway.

### WorkflowEvents

Adds `stream_events` as a count per event type, up to `Many`, which is all its properties
compare. The reducer is `a + b`, so nodes append; nodes that return `{**state}` append the whole
list to itself (`ReturnsState`). Each action of `Workflow` is taken together with what its node
returns (`EventsStep`), so `EventsSpec` has the runs of `Workflow`'s `Spec` and its properties
are checked in the same run.

### AskLifecycle and AskSession

One session, the request that asked and some that resume. A request has a task, a queue and
a client. Actions are the stretches between two real waits of a coroutine: a handler runs
whole; a task's first turn runs up to the first event of the graph; every super-step of the
graph ends in one turn that emits, looks at `cancelled`, and pauses or goes on; closing the
database session is a turn of its own (`CloseTask`), because `async with` awaits there.
`Queue.put` on an unbounded queue does not wait. Ready tasks run first in first out, so a
task that was created has its first turn before any run that is woken later
(`NoneCreated`). Events put behind a `None`, or into the queue of a client that has gone,
are read by nobody and left out of the model.

`Phase` maps a session to the lifecycle; "stopping" is running with `cancelled` set.

### LlmCache

`entries` are the committed rows, `view` what the snapshot of a run's session holds:
MySQL's REPEATABLE READ fixes it at the first read after a commit (`fresh`). `Lookup` is
`LlmCache.get` together with the decision of `LlmService` to use the response; logging a hit
commits and so renews the snapshot. `Answer` is the LLM call between lookup and insert,
`Store` is `LlmCache.set`: the unique key decides against what is committed by then. The
prompt of a role is abstracted to what it is rendered from: the question, the edition of
prompts and metadata the run loaded, and whether validation errors are listed. Roles that are
looked up are one role, roles that only `sql_safety` stores are the other. `Edit` changes
prompts or metadata at any time. `served` is a history of what each run was given.

### RagIndex

`rows` and `indexed` are what is committed in MySQL, `points` what is in Qdrant, `scored` the
chunks that quality scores or alerts refer to. An operation works over the snapshot `view` of
its transaction, in the order of `unindex_by_source` and the `_store_..._doc` methods: it deletes
the point of every document it sees (`DropPoint`, at once), then the row (`DropRow`, locked
until the end), inserts a row and writes a point (`Store`), updates the flag, which locks the
source (`MarkIndexed`), and commits rows and flags together (`Commit`). A failure rolls back everything except the points. A sync swallows what one table
raises and commits the rest (`Swallow`); the admin deletes unindex, commit, and delete the
source in a second transaction (`DeleteSource`). The cascade of a datasource unindexes what the
documents of its snapshot are about (`Todo`, `PurgedOne`) and deletes everything else in the same
transaction (`Cascade`), after which no document can be inserted (`Purged`: a document refers to its
datasource). Some sources are foreign keys (`Keys`), which have no flag and which a synchronisation of
the metadata deletes without a look at the index (`ReplaceKeys`, at any time; `Metadata` has the rest of
it). Sources are never created here: a foreign key that comes back has a new id. A document has one chunk in this code, so both
are one record, named after the operation that wrote it, which is what tells whose rows an
operation could see. Each step is one statement, and operations on the same row meet at its
lock; a statement that waits for a lock is an action that is not enabled. A deadlock of two
transactions ends one of them, which is `Fail`.

What holds is less than one would like. Points survive the failure of the operation that wrote
them; rows survive the failure of an operation that had deleted their points; two documents of
one source come from operations that overlap, as no row that both would lock exists at a first
indexing; a document outlives its source if an indexing that had read the source commits between the
two transactions of a deletion, or after them. The properties say that nothing else goes wrong: a point
without a row, a row without a point, a flag without a row, a doubled row and a document without its
source each have one of these causes. A chunk
that has been scored keeps its source from being indexed again, because the foreign keys of
scores and alerts have no cascade and the delete fails.

### Settings

`rows` and `active` are the committed versions, `limit` the committed row limit; `op` is a
session with its snapshot (`seen`, `live`, `found`), what it has locked (`held`), inserted
(`new`), set active (`on`) and written. `SeedRole` is one turn of the loop of
`seed_default_prompts`; `Deactivate`, `InsertNext` and `Commit` are the statements of
`create_prompt_version`; `activate_prompt_version` and `upgrade_prompts.py` reuse them.
`Deactivate` locks the role by its index, the gap for new versions included, but two sessions
can hold the gap of a role that has no rows yet. Mutations arrive only when some process has
started (`up`), which is what rules that case out; scripts need no process. `chosen` and `said`
are histories: whose activation committed last, and which limit was acknowledged last.

The result is better than the code looks: reading the next number before inserting it can only
make the slower editor fail, never leave a role with two active versions or none, because the
UPDATE that clears the flag locks the role first. The row limit is weaker: a limit that equals
the value its session had loaded is acknowledged and not written.

### Templates

A recommendation is named after the scan that wrote it. `BeginScan` takes the snapshot,
`Scan` is one turn of the loop, with `scalar_one_or_none` raising if the snapshot shows two
recommendations of one statement. `BeginDecide` looks at the status, `Decide` is the flush,
which waits for another decision on the row and then overrules it, `CommitDecision` the commit.
Nothing in the schema keeps two scans, or two decisions, from doing the same; the properties say
that it takes two that overlapped, whatever else happens in between.

### Metadata

One datasource. A table is a row with a name, `is_allowed` and where its description comes from;
a foreign key is a row named after the session that wrote it. `BeginSync` takes the snapshot
before `Introspect` asks the remote database, which may find any of its tables. `MergeTable` and
`AddTable` are one turn of the merge loop, for a table the snapshot has or has not; `DeleteFks` and
`InsertFks` replace the foreign keys of the synchronised tables, or `SkipFks`; `Commit` ends the
transaction. `BeginUpdate`/`Update` are `update_table`, `BeginCascade`/`Cascade`
`delete_datasource_cascade`. The other mutations are one
action each; of the two transactions of `delete_fk` and `delete_table` it is the second. `asked` is a
history. Left out: the rename of a table, the columns'
types, descriptions and blacklist (a table has columns or not), and all documents in the index: the
first transactions of the deletions, the cascade's part in the index, and the indexing that follows a
synchronisation are in `RagIndex`.

### SchemaGraph

`find_join_paths` as an action over the graph that `build_schema_from_db` builds, whose `nodes` are
the allowed tables. A table is its position in the alphabetical order of the names. `networkx.shortest_path` is external: any
shortest path, or none.

### RagEval

The metrics are operators on one case, one snapshot and one ranking: `Mode`, `Weak`, `Gold`, `Hits`,
`Recall`, `Mrr`. A ranking is any order of the points Qdrant has now, with chunks of other documents
between. A run (`BeginRun`, `Evaluate` per case, `Finish` or `FailRun`) has gold chunks from its
snapshot, while sessions index tables or take them out (`BeginIndex` reads and deletes points,
`StoreTable` or `StoreNone` deletes rows and stores, or `DeleteFails`; `CommitIndex`). As in `RagIndex`
two of them may be at one table, and leave it two chunks; the state at the start has any number of
chunks for a table. An item keeps, for the
properties, the case as it was and what was found. `Prefixes` says which table names begin with
another, as the weak match compares the beginning of a chunk's text. `before` is the history of
which sessions were over when an import began: two imports that overlap may add a question twice,
after which every later one raises. `edited` is the history of whose question was edited: such a row is
imported again, and edited back it is there twice. Left out: means over the items, filters by datasource
or case (a run over one datasource is one of the rankings that lack the others' chunks).

`Unit` stands for 1.0. The model rounds recall and rank down to `Unit` steps where the code has floats,
so `RagEvalAssumption` asks that there are at most `Unit` names and chunks: a share that is not zero is
not rounded to zero. "none" and "manual" are the names of no table and of no session, and "another" is a
question that is not of the benchmark.

What a full recall says is one-sided: every expected table that was indexed has been retrieved. The
converse has exceptions that the code cannot avoid, and `Explained` states them: a chunk that is newer
than the run's snapshot is found and not gold, and of two gold chunks of one name only one may be
found.

### GraphqlAsk

`askQuestion` creates a session with a queue and a run without an emitter; `askStream`
subscriptions take events from the queue the session has *at each turn* of `stream_events`, HTTP
clients from the queue of their own request. `_finish_stream` sends DONE only with an emitter and
puts its `None` into the session's queue of that moment. `Shown` is the conversion of `ask_stream`:
`StreamEventType` has no PAUSED, so a subscription is sent STATUS for it and hears of a stop by no other
event. `told` is the last event a reader was sent, `outcome` the status a run left the session with,
`scored` who started a scoring job; a task is `broken` when closing its database session raised after
its run had ended. Of what the graph's nodes emit only RAG_CHUNK and DONE are kept. `Sole(x)`: nobody
else takes from the queues that x reads.

### ChatPage

`page` is what `HomePage` keeps in state and refs: `loading`, the current request (`abortRef`),
`active` (`activeSessionIdRef`), `offer` (`pausedSession`), `asked` and `assistant` (the question
and the answer that are shown). A handler runs from one `await` to the next in one action:
`PressStop` up to the POST, `StopReturns` after it; `Finally` is the `finally` of a stream that ended,
was refused or aborted. A request may arrive after its connection was closed (`cut`). The server's
side of a session is taken to be the lifecycle of `AskLifecycle`, which `AskSession` is shown to
implement, with what it sends. `exposed`: the page can read
`X-Session-Id` only on the API's own origin, because the CORS middleware exposes no header; Init takes
both cases. `blame` is a history of what went wrong around a session (a stop before its stream's
STATUS, an answer to a stop that met another stream, a stop that came too late, a lost connection):
the properties say that nothing goes wrong without one of these.

## Runs

| run | bounds | about |
|---|---|---|
| `workflow` | 2 tables, 2 retrieval loops, 2 SQL retries | the graph and its events, safety and termination |
| `ask_session` | 3 requests, 2 super-steps | sessions over HTTP, safety, liveness and refinement of `AskLifecycle` |
| `graphql_ask` | 2 subscribers, 1 resume, 1 super-step | the readers of a GraphQL question: told its end, scored, waiting for a reason, and under fairness not for ever |
| `chat_page` | 2 questions, 4 requests, 1 press of stop | the page over two sessions, safety and liveness |
| `llm_cache` | 2 runs, 3 questions of which 2 are similar, 1 edit | lookups, answers and inserts |
| `rag_index` | 1 table and 1 foreign key, 2 operations, rows of 2 earlier ones | rows, flags and points, documents of sources that are gone |
| `settings` | 2 roles, 3 sessions, 4 versions, 2 limits | prompts and the row limit |
| `templates` | 2 statements, 3 sessions, 2 earlier scans | recommendations and decisions |
| `metadata` | 2 tables, 3 ids, 2 sessions, 2 other edits, 1 remote foreign key | synchronisation, edits, cascade |
| `schema_graph` | 4 tables | recommended JOINs |
| `rag_eval` | 2 tables, 1 question, 2 sessions of which 1 evaluates, 2 chunks, 2 cases, 2 edits, top 2 | what the metrics say, runs that break, doubled imports |
| `ask_stop_not_paused` | as small as the counterexample allows | violated, see findings |

Two tables are enough to have a statement with an allowed and a forbidden table; two retries and
two loops are the defaults and let each loop run zero, one and several times. Three requests let two
resumes race after a first pause, or one resume follow another; two super-steps let a stop arrive
before, in and after a middle step. `MaxStreams` bounds the requests looked at; `LastStep` stands for
the number of super-steps, which `Workflow` shows to be finite. Two subscribers compete for a
queue, and one resume is enough for a queue that is replaced while it is read. One press of the stop
button meets a second question's stream; with two presses and three requests the page's properties
hold as well (1.8 million states). Two runs are enough for the cache because an insert collides
with one other; the third question is unlike the two similar ones. Two operations are enough for
every collision in the index, and two earlier ones make a source that has two documents already; the
table and the foreign key are the two kinds of source there are. Three sessions, of settings and of
templates, let one end between the begin and the commit of another that races with a third. Two
tables of metadata have a foreign key in either direction, and the third id belongs to a table that
was deleted and came back. Four
tables have every shape of path, gap and detour between alphabetical neighbours. Of the two evaluated
tables one has a name that begins like the other's, and the chunks of the start may be those of
indexings that overlapped; two sessions are an indexing under a run, two imports or an import after
another, and two edits edit a question away and back. A run writes nothing that another one reads
(`MaxRuns` is 1). That two datasources have a table of one name is left to
the theorem. The theorems have no bounds.

`CHECK_DEADLOCK FALSE` is used where the system may really stop: a question that is done
and whose streams are closed, or sessions that are over, have nothing more to do.

**Fairness.** `Workflow`: a run that can take a node takes it, which assumes that every awaited call
returns or raises. `AskSession`, `GraphqlAsk`: the event loop runs every ready task and a client that
stays connected reads its queue. `ChatPage`: a request arrives or its connection breaks, what was sent
is received, a run goes on. Nothing is assumed of users: nobody has to ask, stop, resume or
disconnect. The modules about the database have no fairness: their sessions may stop anywhere.

## Findings

* A stop accepted after the last snapshot never pauses (`ask_stop_not_paused`): `/ask/stop` answers 200
  and the run ends as done, while the page tells the user that it can be continued.

Disagreements that were met and have no run of their own:

* The gate checks no JOIN, although the design document (section on SQL safety, "校验 JOIN 边 ∈ FK 图谱")
  lists it; `schema_graph` is stored and not read. `Safe` in `Workflow` asks for what the code checks.
* A statement that ends in a line comment runs without LIMIT, because the LIMIT is appended to that
  line; the design document says that one is added. `Safe` has the exception in words.
* The accumulated list is sent after every super-step, so one retrieval reaches a reader as several
  RAG_CHUNK events, and a subscription starts a scoring job for each; an HTTP stream starts none. The
  design document promises one score per chunk.
* A statement generated twice from one prompt ends the second run in an error, because SQL generations
  are stored in the cache and never looked up (a case of `FailureExplained`).
* An indexing that fails after it wrote its point leaves the point for good, and the next one adds a
  second (a case of `PointsExplained`).
* A stop during `finalize` gives DONE and then PAUSED; the page forgets the session at the first, so
  what is paused is not offered (the exception in `PausedIsOffered`). A stop before the first STATUS
  aborts the stream and leaves the run, and a stale session id then names the question before.
* `delete_table` fails while the table has columns or foreign keys, after it was unindexed.
* A synchronisation re-creates foreign keys under new ids and leaves the documents of the old ones in
  the index; a deletion leaves the document of an indexing that overlapped it (the cases of
  `OrphansExplained`).
* A question of the benchmark that is edited away, imported again and edited back is there twice, and
  every later import raises (the exception in `ImportedTwiceOnlyByOverlap`).
* A disconnect does not cancel the run; cache hits survive edits of prompts and metadata, as
  `prompt_version` is stored and never compared; answers of intermediate steps are cached; the search
  filter on a datasource hides glossary terms and global knowledge, which have none.

## Proofs

All theorems hold for every value of the constants, under the assumptions that limits and
sizes are natural numbers (`LimitsAssumption`, `SizesAssumption`, `EditionAssumption`,
`SettingsAssumption`, `ChatPageAssumption`), that there are ids for the tables at the start
(`MetadataAssumption`), that names and questions are finitely many (`RagEvalAssumption`, see
`RagEval` above), that subscriptions are no numbers, as requests are (`GraphqlAskAssumption`), that a
question is similar to itself (`SimilarAssumption`), and that the
operations looked at are not those that wrote the rows at the start (`PastAssumption` of `RagIndex`,
which also has foreign keys among the sources, and of `Templates`). The type invariant and the inductive invariant of the proved modules are
established here and not repeated in the runs, which keep to what they imply.

`WorkflowProofs`: `IInv` is inductive. Safety alone is not: that `sql_valid` vouches for the
current text needs to know at which nodes the flag is down (`FlagsInv`), that the retry
counter stays in bounds needs the coupling of counter and pending errors (`CountersInv`), and
that only one statement is sent needs that nothing was sent before `execute_or_return`
(`ExecutionInv`). From it: types, only safe statements run, at most one runs and it is the one
shown, an unanswerable question runs nothing, the flag is current, and every step decreases `Variant`, so a run has at most
`10 + 2 * MaxSqlRetries + 3 * MaxRagLoops` super-steps.
`EventsImplementWorkflow` shows that the graph with its events takes the steps of the graph
without them, so `IInv` holds there too. `EventsInv` says what has been told at which node of an
unfinished run: SUMMARY only on the way to `finalize` and then once (`SummaryInv`), RESULT with
the rows and ERROR only after `execute_or_return` (`ExecutionToldInv`), DONE at the end. From it: `OutcomeToldOnce` and `SilenceExplained`.

`AskSessionProofs`: `IInv` adds to the three session invariants that nothing exists before the
question is asked and that the first task starts before anything else. From it: types, one
runner, a running session has a runner and a runner a running session, stops are kept and obeyed, and every step is a step of `AskLifecycle` or a stutter.
`EndInv` adds what each queue may hold: the task of a request that is still to end puts the end
(`EventsAwaited`), nothing is in a queue before its request is there (`NothingBeforeOpen`), and
`None` comes last and right after PAUSED or DONE in what a client hears (`OutcomeIsPut`). From it:
`EndIsReported`.

`GraphqlAskProofs`, about the same session asked over GraphQL, for any number of subscriptions:
`Turns` says which requests are there and that the session's queue is of the last one, `Places` which
queue a reader can be at, `Closes` that a run that ends puts `None` into
its queue and no other does, except into the queue of a resume that lost a race. `Tells` is about whoever
reads alone: in the queue a `None` comes right after the event that says how the run of this request
ended (`Final`), or is the first and the reader has been told (`Told`); `Scores` that the retrieved chunk is before the `None` until it is taken. That
reading alone lasts backwards (`SoleBefore`) and that nobody else is at the queue (`SoleApart`) makes them
inductive. From it: `EndIsTold`, `WaiterExplained`, `RetrievalIsScored`. The proof also showed that a
subscription that reads alone never goes on to the queue of a resume (`SoleAtOne`): the client of the
resume is there.

`LlmCacheTemplatesProofs`, first half, about the cache: the invariant adds to `FailureExplained` that a run between a lookup and its
insert has not seen a usable row of its key (`StoresUnseen`), which needs that the lookup
prefers the exact row (`ExactComesFirst`), that keys are unique, and that a view never holds
more than what is committed (`SeesCommitted`). From it: a run fails in the cache only over a
row it could not see or use, and what it is served fits its question and role.

`RagProofs`, first half, about the index: that a point has a reason needs to know where the chunk of an operation can be
before it commits: in no row, no snapshot and no deletion of another (`CommittedIsOver`), among
its own new rows if it has a point (`PointsOwned`). That documents double only by overlap needs
that an operation inserts only after everything it sees of the source is gone (`NewOwned`), and
that a row goes only after its point went and no score came (`DeletesInOrder`,
`ScoresKeepChunks`) keeps the commit from orphaning a point. From it: `PointsExplained` and
`TwiceOnlyByOverlap`, for any number of operations. The other direction, that a row has its point
and a flag its row (`AgreeInv`), needs that only a sync gives up what it has begun to drop
(`DropsFinish`), that a new row comes with its point (`NewHasPoint`), and that an indexing puts a row
in the place of every source that it marks or empties (`Replaces`). Unsetting a flag is the hard
case: `unindex_item` writes it only if the snapshot had it set, so a flag that another operation set
since survives, and must have a row newer than the snapshot (`FlagsKnown`, with `ViewsNested`: of two
snapshots the later shows all rows of the earlier that are left). From it: `RowsExplained` and
`IndexedHasRow`. That a document without its source is explained (`OrphanInv`) needs to know who takes
sources away (`GoneExplained`); that a deletion which commits has deleted every document it saw, and
none of these comes back (`DeletesAll`), so that what is left was not seen; and that nobody holds an
insert over the end of a cascade (`PurgedIsEmpty`). From it: `OrphansExplained`.

`LlmCacheTemplatesProofs`, second half, about recommendations: that doubles come only from overlap needs that a later scan sees what an earlier
one committed (`SeenIsPast`), that the author of a row is over (`RecsOfOver`), and that a scan inserts
only what its snapshot does not show (`InProgress`). That a decision stands needs that a decision in
progress has nobody before it who decided the same row, and that what is decided and made a template
stays a row.

`RagProofs`, second half, about the evaluation: that a measure means what it says is decided when the
case is evaluated, and needs to know what a chunk is: of the same table in the database,
in Qdrant and in every snapshot and transaction (`ChunksAgree`), however many chunks a table has. The rest is counting:
a share of a whole is full only if it is all of it, and nothing only if it is none (`Share`), so a recall
says which gold chunks were found (`RecallOfGold`) or which tables matched (`RecallOfTables`), and a
positive reciprocal rank says that a chunk was relevant (`Rank`). That a run is whole needs a count while
it runs: its items and what it has still to do are together the cases that were enabled (`ItemsCount`).
That items refer to cases needs that the database keeps a case that a flushed item refers to, before the
run commits (`ItemsRefer`). Together: `EvalIInv`, from which `RunsAreWhole` and `MeasuresExplained`.
`CasesIInv` adds that an import sees all rows of the imports that were over when it began
(`ImportsSee`), as ids are never used again, and knows their questions where nobody edited them. From it:
`ImportedTwiceOnlyByOverlap`.

`WorkflowProofs`, second half, about the recommended JOINs: `GraphIInv` says that they are foreign keys
and relate every two neighbours that are related (`NeighboursJoined`). The argument from neighbours to any
two tables goes along the alphabet: of the tables from a on that the JOINs do not reach from a, the first
has a neighbour before it that they do reach (`JoinedUpTo`). This needs that to be related is an
equivalence, although `Related` looks only at walks no longer than there are tables: the shortest of all
walks between two tables visits no table twice, so it is one of these (`WithoutDetour`, `WalkRelates`). That
there is a least element at all (`LeastElement`) follows from the library's facts about finite sets,
without an induction over data.

`SettingsProofs`: a snapshot shows a state of the past in which every role that had versions had one
active one (`SeesThePast`); rows are never deleted, so a role seen with versions still has them.
From this an inserted version is the next one of its role or its first (`InsertsTheNext`), and what
a session sets active is either the first version of a role or in a role it has locked
(`ActivatesItsOwn`). Two sessions insert different versions, neither into a role that the other has
locked (`Apart`); the hard case is two that both find a role without versions and so want to insert
the same first one, where the unique key decides. That `create_prompt_version` without activation
leaves no role without an active version needs that a started process has seeded every role
(`UpMeansSeeded`). From it: `LoadedIsChosen`, `FailureExplained`, `LimitIsSaid` and
`VersionsInOrder`, for any number of sessions.

`MetadataProofs`: sessions meet only in what is committed, so the invariant says of each what it will
write: where it read something else than was asked for, what was asked for, and otherwise nothing
(`WritesWhatIsAsked`), into rows that are still there when it commits (`Fits`); and of two of them that
they add different tables and foreign keys of different tables (`Apart`). Ids are never used again, so a
row of a snapshot is the same table or gone. From it: `ForeignKeysOnce`, `AllowedIsAsked` and
`DescriptionStays`, for any tables, ids and sessions.

`ChatPageProofs`: nothing that a property of the page speaks of is decided in one handler, so `IInv` follows
each request from the button to the end of its stream. Requests and the questions they are about are
numbered as they are sent (`Numbered`); the page awaits the last of them and no other (`OneStream`); a
session writes to the stream of the request that runs it (`Streams`); what a stream still holds leads to
what the page goes by, DONE or PAUSED with the offer (`Queues`, from `Flows` of each stream); a run whose
stream is closed has a cause (`Unread`); a stop on its way is of the stream that is read and has been
heard if it was answered, or the page has gone on (`Pressed`); the offer is of the question that was
read last (`Offered`). From it: `UnattendedExplained`, `OfferExplained`, `ShownIsResumed`,
`PausedIsOffered`, for any number of questions, requests and uses of the button.

Every safety and action property that a run checks is stated by a theorem. Only model-checked is what
is checked under fairness: `Termination`, `StreamsClose`, `EndReachesReader`, `LoadingEnds` and the
progress half of `Promise` (that every step of a session is one of `AskLifecycle` is proved). TLAPS does
not reach fairness, whose definition is by `ENABLED`. `RunsAreBounded` proves the well-founded half of
`Termination`: no run takes more super-steps than the variant allows.

## Plan

Every component that keeps state is modelled. What is left, in this order:

1. The composition of `AskSession` with `Workflow` (the number of super-steps is its only interface).
2. Columns of a table one by one in `Metadata`; means over items in `RagEval`.

Not modelled: presentation in `apps/`, GraphQL queries, introspection SQL, prompts' wording, token
streaming (LLM_TOKEN events carry no state), the create and update mutations of knowledge entries,
templates and the glossary (one statement each), the parsing of a score and its alert in
`workers/tasks.py`, how a search filters and ranks, users and roles (tables without code).
