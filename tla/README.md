# SimpliFYR: specification, model checking and proofs

SimpliFYR turns log payloads of many formats into one semantic record. An event
whose payload carries fields its mapping does not know is *quarantined* behind a
*drift request*. An operator (or the AI automation) resolves the request, which
publishes a new mapping version and runs the held events through the engine
again. This directory specifies the parts of the backend where that promise
depends on concurrency, on failures, on the order of steps, and on several pure
functions agreeing with each other.

Paths below are relative to `src/backend/app/`.

## 1. Inventory

| Component | State it keeps | Operations | Interacts with |
|---|---|---|---|
| Quarantine and drift loop (`core/drift.py`, `api/drift.py`) | `DriftRecord` rows: status, shape (`new_fields`), listed events, baseline mapping, proposal | `create_drift` (insert or merge), analyze, auto-apply, approve, correct, reject, collapse of siblings, reprocess | called by the engine; publishes mappings; rebinds the recipe; calls the AI provider; runs the engine again |
| Processing engine (`core/engine.py`, `api/ingest.py`, `api/process.py`) | `Event` and `BatchRun` rows, raw files, a per-engine memo of resolved mappings | `process_payload`, `process_lines`, retry, batch | resolves mappings through recipe and cache; raises drift; delivers to sinks; publishes to the live hub |
| Retention, deletion, lists (`core/retention.py`, `api/events.py`) | removes `Event` rows and raw files | `delete_event`, `batch_delete_events`, `run_retention`, groups of held events | the same rows and files as the engine |
| Mapping catalogue (`api/mappings.py`, `core/publishing.py`, `api/recipes.py`, `core/mapping_cache.py`) | `Mapping`, `Recipe`, `SourceVersion` rows; cache entry of the active mapping | create, change of status, delete, publish by onboarding or approval, bind and unbind | drift requests refer to mappings; the engine resolves through recipe and cache |
| Sources, connections, environments, onboarding (`core/sources.py`, `core/environment.py`, `api/connections.py`, `api/onboarding.py`) | `Environment`, `Source`, `SourceVersion`, `Onboarding` rows | get or create, publish under a source, ingest a batch, onboard a sample or a held event, list, show and delete a connection | everything else refers to a source by name, by row, or both |
| Synthesis jobs (`api/synthesis.py`) | `SynthesisJob` rows, tasks in the thread pool | create or attach, run, reap stale rows on reads | analyses a drift request; the page polls every two seconds |
| Pipeline and watcher (`core/pipeline.py`, `adapters/`) | an `asyncio.Queue`, a drop counter, the offset in the watched file | `enqueue`, `worker_loop`, `_poll` | syslog listeners on the loop, file watcher in a thread, engine |
| Delivery (`core/delivery.py`, `core/destination_delivery.py`, `api/destinations.py`) | cached list of sinks, S3 buffers with a flusher thread each | deliver, flush, rebuild, invalidate | called by the engine and by the destinations' handlers |
| Live hub (`core/live.py`, `api/ws.py`) | a bounded queue per viewer | publish, subscribe, send, ping | engine threads, event loop |
| Formats, mapping, profiles (`parsers/`, `packages/`, `core/batch_split.py`, `core/normalized_view.py`, `core/ai/heuristic.py`) | none | detect, parse, flatten, split, map, render, propose | engine, wizard, export |
| Export (`api/export.py`) | none | a paged walk with counts; rendering through a version, a profile, as a document | reads the tables while they change |
| Kafka, rate limit, field memory, analytics, audit, training, frontend | | see section 6 | |

`PROJECT.json` lists every component with the modules that cover it, and every
hazard at its line with the properties that would catch it going wrong.

### How the code runs, and what makes it hard

* Handlers declared `def` run in a thread pool, so any number of them interleave
  between their statements. Handlers declared `async def`, the syslog callbacks
  and the in-memory workers run the synchronous engine on the event loop, one at
  a time, beside the thread pool. AI automation and synthesis run in
  `asyncio.to_thread`. Kafka consumers, the file watcher and the flushers of S3
  sinks have threads of their own.
* Sessions do not autoflush and expire on commit. The database is SQLite in WAL
  mode without enforced foreign keys, or PostgreSQL at READ COMMITTED. An UPDATE
  carries only the columns whose value differs from the one loaded. Deleting a
  vanished row is tolerated, updating one fails the commit. Almost nothing is
  protected by a constraint or a lock.
* One operation is several commits (drift request before event, version before
  recipe, reprocessing before the request's status), so a handler that dies
  leaves the first ones behind.
* Answers of the AI provider arrive minutes after the row was read.
* Delivery, raw files and rows are three places written one after the other.
* The list of sinks is a module global shared by threads without a lock, rebuilt
  while its predecessors still hold lines.
* An export and a grouping are many queries over a table that goes on changing.
* A line is flattened in two places, and re-rendered in three.

What makes each component correct: no event leaves quarantine without being
understood and none is stuck there without somebody being able to decide about
it; a payload is stored once and numbered in order of arrival; a mapping that
something refers to exists, and lookups find the newest active one; an event is
listed under the source it was stored for, and a removed connection is gone; a
request is analysed once at a time and its outcome is final; the pipeline is a
bounded first-in first-out channel that loses nothing silently; a line a sink has
taken is in one place; a viewer sees messages in order; an export ships every row
once; what is normalized keeps every field, whichever way it is shown.

## 2. Modules

Each module states its model next to the code's names: actions and operators
carry the name of the function they translate where one exists
(`create_drift`, `_compute`, `approve_drift`, `checkpoint` ...), and
`PROJECT.json` maps every definition to its lines.

| Module | Models | One step is |
|---|---|---|
| `DriftLifecycle` | engine and drift loop for one source | one read or one commit of one handler |
| `EventIngest` | identity, numbering, raw files, batches, purges, delivery order | one read, file operation, commit or delivery |
| `MappingCatalog` | mappings, versions, recipes, references, cache | one read, commit or invalidation |
| `SourceRegistry` | environments, sources, versions, knowledge and events under a name | the lookups of a request, or its commit |
| `SynthesisJobs` | jobs, workers, reads that reap | one read or commit of a worker or a poller |
| `PipelineQueue` | event loop, workers, listeners, watcher's thread | one step of the queue's operations |
| `TailedPipeline` | the watched file in front of `PipelineQueue` | a write, a line read, or a step of the pipeline |
| `BoundedChannel` | what `PipelineQueue` promises, refined by it | accept, shed, take, forget |
| `DeliverySinks` | list of sinks, buffers, flushers, destinations | one access to the list or a buffer, one upload |
| `LiveHub` | the stream of processed events to viewers | one callback of the loop or one send |
| `EventViews` | exports, groups and batch runs over the changing table | one query or one commit |
| `RecordFormats` | splitting, detection, parsers, flattening (functions) | |
| `RecordPath` | one line from upload to mapping, quarantine, output, views | one request |
| `MC*` | sets and functions for the instances TLC checks | |
| `DriftLifecycleProofs`, `EventIngestProofs`, `MappingCatalogProofs`, `SourceRegistryProofs`, `RecordPathProofs`, `BackgroundProofs`, `OutputProofs` | theorems; `BackgroundProofs` is about `SynthesisJobs`, `PipelineQueue` and `TailedPipeline`, `OutputProofs` about `DeliverySinks`, `LiveHub` and `EventViews` | |
| `FiniteNumbers` | what Max and Min of a finite set of numbers are, counting up to a number (lemmas) | |

### DriftLifecycle

State: `event[e]` (the row: absent, quarantined, normalized, and the mapping its
provenance names), `mapping` and `drift` (rows in id order), `recipe` (the
mapping the source's recipe is bound to, 0 without one), `th[t]` (what a handler
holds in its session and local variables: operation, next step, the record it
works on and the values it loaded, the version number it read, a recipe change
it has not committed, the mapping its engine resolved, the events still to
compute) and `failures`.

An event is the set of its meaningful fields; a mapping is the set of fields it
knows; the interpretation of a shape is any subset of it (`PartialAnswers`), or
all of it. `ReadOpenDrift` and `MergeIntoDrift`/`InsertDrift` are the read and
the commit of `create_drift`; the merge writes a column only when it differs from
the value loaded, as the ORM does, and never the status. `approve_drift`,
`correct_drift` and `AutoApprove` go through `ReadVersion`,
`_create_versioned_mapping`, `RebindAndCollapse`, `reprocess_quarantined`, the
engine for each held event, and `FinishApproval`. The recipe change is carried in
the session and written by whichever commit comes next. `Fail` rolls a session
back at any step.

### EventIngest

`rows`, `files`, `nextRef` (event ids), `sent` (what the sinks were handed, in
order), `replies` (what clients were told), `th`. A single ingestion looks for a
duplicate, saves the raw file and reads the next number, commits the row,
delivers. A batch prefetches identities and the highest number, then walks its
lines: a replay is answered with the stored event or with the first line of its
identity, a new line is saved, numbered, computed and delivered, and rows are
inserted a `Segment` at a time. Purges remove files one by one and then commit.
`before` and `batch` in a thread are kept only to state `BatchStep`. A thread that is
`absent` serves no request: where one slot at most does, requests come one after
the other (`Alone`).

### MappingCatalog

`mapping` (status, version, who made it, whether it is committed and not
deleted), `labels` (SourceVersion rows), `recipe`, `request` (drift requests: the
mapping and open or not), `cache`, `th`. Invalidations are separate steps after
or before the commits, as in the code; `ForeignKeys` chooses the database.
`Aborts` is a commit refused by a constraint or a vanished row. `owed` is history:
a handler died after its commit and before its invalidation, and the entry is still
there.

### SourceRegistry

`envs`, `sources`, `versions`, `mappings`, `recipes`, `drifts`, `batches`, `events`,
`onboardings` (the rows; a batch run has the ids of its events, a drift request its
mapping and whether an analysis job refers to it), `next` (the next ids), `thr[t]`
(a request: what it resolved when it began and what it found to delete). The
environment of a request is looked up ignoring case and its source by exact name and
row; both are inserted at the commit when they were missing, which is where two
requests collide. `Intact` and `Referenced` are the foreign keys, which this module
takes as enforced: the second says what keeps a removal from committing (an event or
a sample of its sources, an event of its batch runs, a request about its mappings,
an analysis job of its requests). A batch is always of the default environment
(`BatchEnv`). `Init` includes a database of an older version after the migration
that gives its events a source (`backfill`), in every order of its name and
environment pairs. `alone` marks the behaviours whose requests come one after the
other.

### SynthesisJobs

`job` (rows), `worker[j]` (where the task of job j is: waiting for a thread, at
one of its stages, gone), `drift`, `old` (jobs untouched for half an hour),
`reaping[p]` (stale rows a read has selected and not failed yet), `jobRestarts`.
`Slow` names the steps in which a live worker may go half an hour without touching
its row: waiting for a thread, and at the provider. `overdue` is history: the jobs to
which that happened.

### PipelineQueue, TailedPipeline and BoundedChannel

`queue`, `getters` (parked workers), `ready` (workers the loop will resume),
`turn` (who has the loop), `step`/`hand` (each worker), `watcher` (the thread's
position in `put_nowait`: room looked for, item appended, item counted, getter
woken), `unfinished` (the count `task_done` goes by), the items offered, taken, done,
shed and lost. `task_done` is outside the `try` of `worker_loop` and raises when
nothing is unfinished: the worker's `step` is `ended` for the rest of the process's
life. The interpreter changes threads at calls and jumps, so that `_dropped_total += 1`
and the queue's own `+= 1` are one step each and count exactly. A
worker whose queue is not empty never gives up the loop, which is why listeners
enqueue only when nobody has the turn, while the watcher's thread interleaves
with everything. `BoundedChannel` is the abstract specification: first in, first
out, shed only when full, counted, and bounded by the capacity plus one item for
each producer that looks for room and puts in separate steps. The instance in
`PipelineQueue` maps `pending` to `queue`, `Late` to 1 when the watcher is on,
and `taken` and `shed` to themselves.

`TailedPipeline` puts the file in front: `text` is a sequence of chunks, the
writes of its author; `_poll` compares the size with `offset`, `ReadLine` takes
the text up to a newline or to the end of what is there and hands it to the
watcher of `PipelineQueue`, `EndOfFile` stores the offset. It shares the queue's
variables, so everything proved of `PipelineQueue` holds in it (`TailTheorem`).

### DeliverySinks and LiveHub

`cache` and `fresh` are the list and its age, written and read by every thread at
its own pace; each build of the list makes new sinks (`builds`), whose `buffer`s
outlive it, and is as long as `_build_sink` got: any part of the enabled
destinations. A worker starts a delivery, takes the list or builds one, visits its
sinks in any order, fills buffers, and uploads the batch it swapped out; `flushing`
is the upload of a sink's own thread; the handler commits a change, flushes the
sinks of the list and drops it. `accepted`, `uploaded` and `lost` record what became
of each line.

In `LiveHub` engine threads hand a message to the loop (`ready`), `_put` copies it
to each queue with room, and a viewer's handler receives, filters, sends, pings
when its queue is empty, and leaves the hub when a send fails. `since` is the
number of messages there were when a viewer came, from which it can be said what it
missed.

### EventViews

`rows` (in id order, a deleted row leaves its place), `runs`, one batch request
and one reader. A reader counts, then reads page after page, by id for exports
and by offset for groups; `steady` and `quiet` are kept to state what it
promises. A batch stores its rows in segments and adopts them under its run at
the end. A page is the sequence the database returns: `NewestFirst` chooses the
one that lists a set of ids in descending order, and `Bucketed` says what a page
adds to the groups as a whole instead of row by row; the order in which groups
first appear is left out.

### RecordFormats and RecordPath

A line is a record of what the code can tell of a text (how it begins, whether
it is well-formed, whether the csv sniffer takes it, its header and its body);
a field's name is the sequence of its parts between dots. A value is a function
from paths to scalars: a scalar is at the path of no parts, a dictionary has its
scalars where they are in it, an empty one is a scalar of its own. `get_path` cuts
a value out of another and `set_path` puts one in, so no definition goes down a
dictionary level by level. Values are copied; the code shares dictionaries between
the parsed and the normalized payload, which a later write below such a path would
change in both. Members of a dictionary inside another have names without dots.
`detect_format`, `parse`, `extract_fields` (the pipeline)
and `_flat_fields` (the wizard) are functions; `RecordPath` uploads lines alone
or in batches, holds or normalizes them, publishes, approves and corrects
mappings with the heuristic's, memory's or an operator's paths, binds profiles,
retries, and renders the stored row again.

### How they fit together

`DriftLifecycle` and `MappingCatalog` overlap in publishing and rebinding, where
the first has the content of mappings and the second their lifecycle and cache;
`EventIngest` leaves the outcome of the engine to a constant, which
`DriftLifecycle` explains for sets of fields and `RecordPath` for values.
`SourceRegistry` is the one module with several environments.
`MCDeliverySinks` runs `DeliverySinks` or `LiveHub`, which are what leaves the
engine and share no state.

## 3. Runs

| Run | Instance | Shows |
|---|---|---|
| `drift_races` | 2 handlers, 2 events of different shapes, 3 versions, 2 requests, re-approval | the invariants that are also proved, over every interleaving of reads and commits |
| `drift_sequential` | 1 handler, 2 events of one shape and 1 of another, auto-apply, 3 versions, 1 death, fairness | one item per shape, a request that is waited for extends the version in force, held events can be decided about, resolved stays resolved, an approval empties the pile |
| `drift_stranded` | 1 handler, partial interpretations | **violation**: see section 4 |
| `ingest` | 2 requests, a batch that repeats a line, a payload the engine fails on, purges, 1 death; or 1 request at a time, 5 payloads (1 without a source), batches over several segments, purges, 1 death | answers name rows that get stored; sinks see every stored output once; and, of one request at a time, numbers in order of arrival, raw files kept, a batch equals its lines one by one (the same numbers, if the engine fails on none of them) |
| `catalog_sequential` | 1 handler, all operations, no foreign keys, 3 mappings, 2 requests, 1 death | the baseline of an open request is there; no published mapping is hidden behind an older entry of the cache; versions apart |
| `catalog_races` | 2 handlers, foreign keys, publications, changes of status, deletions, 1 request, 1 death, fairness | the cache catches up with the newest active mapping under every interleaving |
| `registry` | 2 requests in flight of 4, three spellings of two environments, batches, analysis jobs, a fresh database or two events of an older version | events know their source; a source is registered once with a version per mapping; a removed connection is gone |
| `jobs` | 1 request, 2 pollers, 2 threads, 3 jobs, slow and late workers, 1 restart, fairness | a second analysis, or another outcome, only of a job whose worker outlived the half hour; every job ends |
| `queue_pipeline` | 3 workers, of which one may end in `task_done`, capacity 2, a line written in two halves, a rotation, a datagram, 5 items, 1 restart, fairness | one worker ends at most, no worker sleeps next to work, refinement of `BoundedChannel`, accepted items are processed, what is written is tailed |
| `delivery` | 2 workers, a buffered destination and one that is not, 2 lists, 2 lines, 1 change or restart; or 1 viewer, 2 sources, queue of 2, 4 messages; or 2 viewers without a filter, 1 source, 3 messages; fairness | a line is in one place and settles; viewers see their messages in order and leave the hub when gone |
| `views_export` | 3 rows, pages of 2, 1 run, 2 shapes, filters, pinned ids, limits | an export is one walk; counts and groups are exact when nothing changed; a run owns its rows |
| `record_path` | 16 uploads of all formats, mappings with renamed, constant, nested and contending fields, 2 profiles | pipeline and wizard agree on fields; what is normalized keeps every field; documents are never empty; rendering again is faithful |

### Bounds, and why they are enough

* Two handlers: each property is broken, when the code is, by one handler acting
  on what another changed between its read and its commit; a third adds no new
  kind of pair. The proofs of section 5 are for any number.
* Two shapes and three fields: one field the baseline knows, two that can be
  learnt in either order, so that one approval can undo or pre-empt another.
  Two events of one shape make a pile (`drift_sequential`, `drift_stranded`), beside
  which an event of another shape is held, released or asked about.
* Three versions: the baseline, and two whose order matters. `PublishRoom` keeps
  the bound from cutting a publication in the middle.
* `Segment` is 2 instead of 1000, pages hold 2 rows instead of 2000, a batch for
  a sink is 2 lines instead of 500 and the queue's capacity 2 instead of 50000:
  the longest batch has four lines, so one segment is full and one is not; three
  rows are two pages; two lines fill a buffer; five items overflow the queue.
* `drift_sequential` takes in no event that needs a new request beyond the second
  (`MaxRaised`), while what has begun may raise as many as it needs (`MaxDrifts` is
  never reached): no approval is cut off by the bound.
* Three workers in `queue_pipeline`: one that may end, one that may park just as an
  item is put, and one that goes on; with two the properties fail (section 4). The
  default is four.
* `MaxFailures`, `MaxRestarts`, `MaxJobRestarts`, `MaxRefs`, `MaxItems`, `MaxJobs`,
  `MaxRequests`, `MaxRows`, `MaxRuns`, `MaxLines`, `MaxBuilds`, `MaxChanges`,
  `MaxMessages`, `MaxDatagrams`, `MaxRotations`, `MaxFields` cap counters in
  guards. One death suffices for what a death leaves behind. Two lists of sinks
  are one in use and one that was dropped with lines in its buffers. Four
  requests are two that race and two that follow.
* `MCEventIngest` restricts the first of its two parts further (`Scope`): three
  event ids, and purges only beside each other or beside single ingestions.
* `Watched` in `MCDeliverySinks` bounds the behaviours with a second viewer: both
  without a filter, one source, three messages. They are enough for one to miss
  what was published between the other's going and its own coming.
* Symmetry, only where nothing temporal is checked but action properties: over
  handlers in `drift_races`, `ingest` and `registry`, over shapes in
  `views_export`. `drift_races` also exchanges its two events jointly with the
  fields that tell their shapes apart, which leaves `Carries` and `BaseFields` as
  they are.
* `CHECK_DEADLOCK FALSE` where bounded instances end when their bounds are used
  up; a system without requests rests.

Restrictions of an instance that matter, and why they are there:

* `catalog_sequential` has the statuses that make a mapping active, `approved` and
  `published`, and `catalog_races` the one that ends it as well; `testing` differs from
  `draft` in rank only and is in neither. The proofs have all five.
  `catalog_races` leaves out binding, approval and rejection, on which what a racing
  lookup remembers does not depend.
* `drift_sequential` has complete interpretations, because `HeldIsDecidable`
  fails with partial ones (`drift_stranded`); `PartialAnswers` is arbitrary in
  the proofs of the others. Clauses `failures = 0` in `WaitedForExtendsCurrent`,
  `HeldIsDecidable`, `SentAreStored` and `RowsHaveRawFiles`, and `failures > k` in
  `ApprovalEmptiesThePile` (a death from the approval on, not one before it), say
  where a handler that died voids the promise; `owed` does in `CacheIsFresh`.
* `registry` has events of an older version only in behaviours without
  concurrency, and `RegisteredOnce` and `RemovedIsGone` speak of those.
* `FieldsAgree` and `NothingIsDropped` name the lines and mappings for which they
  fail (section 4).

### Fairness

* `DriftLifecycle!FairSpec`: weak fairness of each handler's steps. Handlers wait
  for nothing but the database and the provider, whose calls have timeouts.
* `MappingCatalog!FairSpec`: the same, and the cache entry expires (`CACHE_TTL`).
* `SynthesisJobs!FairSpec`: workers run, half an hour passes, and pages poll, as
  `NeedsReview.tsx` does every two seconds while a job is active. Without
  somebody reading, a job whose process died stays active for ever: the reads
  are what reaps.
* `TailSpec`: the loop resumes ready workers, and the watcher's thread polls for
  ever and finishes the polls it begins. Neither writing to the file nor
  datagrams are assumed.
* `MCSpec` of `MCDeliverySinks`: threads run on, a flusher wakes up every
  `flush_interval` seconds for as long as the process lives, the loop runs its
  callbacks and timers. Sends and uploads end, well or not: they have timeouts. That
  a stream falls silent is not assumed: it is a premise of the second half of
  `GoneViewersLeave`.

No fairness is assumed of deaths, restarts, new requests or operators.

## 4. Where code and documentation disagree, and known limits

`drift_stranded` is a run, with the promise it refutes: `approve_drift`
reprocesses the held events first and marks the request approved afterwards. When
the interpretation assigned no semantic, the events merge into the request under
approval, which is then closed: they stay quarantined behind no open request
until somebody retries them.

The others were met while modelling, as counterexamples of the property named
where there is one; they restrict the instances above and are not runs.

Concurrency and deaths:

* Two concurrent ingests of one shape insert two requests (`OneOpenRequestPerShape`,
  2 handlers); concurrent approvals of requests with one baseline publish one version
  number, and the second version lacks what the first has learnt.
* An analysis that loaded its record before a rejection writes its status after
  it and re-opens it (`ResolvedStaysResolved`, 2 handlers).
* A request publishes from its own baseline, which only `create_drift` re-points,
  when an event of exactly its shape comes by again. Nothing closes or re-points a
  request whose last event was released by the approval of a bigger one (one event
  lacks a field, another lacks that field and one more, the second request is
  approved first): it stays open on its old baseline, and approving it later
  publishes a newest version that forgets what was learnt since. Approving an
  approved request again (`Reapprove`) does the same. `WaitedForExtendsCurrent`
  therefore speaks of requests that a held event still waits for.
* After a death between the publication and the reprocessing, an event that was
  held behind a bigger request lacks less than any request asks, until it is
  retried (`HeldIsDecidable` with `failures > 0`).
* A handler that dies between `_create_versioned_mapping` and the next commit
  leaves the recipe on the old mapping.
* `engine.py:98` looks a duplicate up and inserts later, without a lock or a
  constraint: two concurrent ingestions of one payload store it twice, although
  `:100` says "Idempotent replay". They also take the same number.
* A batch line the engine fails on uses up a number, a single ingestion does not
  (`BatchIsLines` asks for the same numbers of a batch that is `Taken`); a batch
  that dies before its checkpoint has delivered what was never stored
  (`SentAreStored` with deaths).
* `synthesis.py:66` fails a job that waited half an hour for a thread or was that
  long at the provider; a second one is created and both run, although `:148` says
  "never fork duplicate analyses", and the first writes its outcome over the failure.
  `OneAnalysisPerDrift` and `OutcomeIsFinal` say that nothing else leads there: both
  name the jobs in `overdue`.
* `update_mapping_status` invalidates the cache for `published` and not for
  `approved`, which makes a mapping active as well, although `mapping_cache.py:10`
  says "invalidated on approve/publish": until the entry expires, lookups find the
  older mapping. `CacheIsFresh` therefore promises the published mappings only,
  `CacheCatchesUp` all of them in the end.
* An approval numbers from mapping rows and an onboarding from labels, so one of
  each may publish the same number (`PublishedApart` is about each kind).
* A request raised between the count of open references and the deletion is detached
  while open (`BaselineExists`, 2 handlers). Without foreign keys, which SQLite
  leaves off here, one raised after the references were collected is left dangling,
  and so is a recipe bound after they were. Two status changes checked on the same
  loaded row can move a mapping back.
* `get_or_create_source` in two requests registers a source twice
  (`RegisteredOnce` without `alone`).
* `queue.task_done()` (`pipeline.py:80`) is outside the `try`, and raises when the
  watcher's thread has appended an item and not counted it yet while a worker takes
  it and is done with it. Nobody starts that worker again. From then on the count is
  one too high for it to happen twice in one life of the process (`AtMostOneEnds`).
* An item the watcher puts between a worker's look and its parking wakes nobody; if
  no other worker is up it waits for the next item. With the watcher on this takes
  three workers to exclude, since one may have ended (`WorkGoesOn` with
  `PipelineWorkers = 2`), and with two an item may wait for ever
  (`AcceptedIsProcessed`). `PIPELINE_WORKERS` is four unless it is set. The watcher
  may overfill the queue by one (`WithinBound` has `LateProducers` for it).
* A half-written line is offered as two items; a rotated file that outgrows the
  offset before the next poll hides its beginning (`outgrown`); a restart offers
  the whole file again.
* A thread that saw a fresh list may find it dropped on its second read and
  deliver to nobody; a failed query is remembered as "no destinations" for a
  `CACHE_TTL`; `flush` has given its batch away when `put_object` fails; flusher
  threads of dropped sinks never end.
* A viewer with a filter learns that its browser left only from a message that
  passes or from 15 seconds without any: on a busy stream with a quiet source it
  stays in the hub. `GoneViewersLeave` promises the two cases in which it leaves.
* Messages wait for the loop: a viewer that joins meanwhile sees some published
  before it came, and not those published while nobody watched
  (`ViewersSeeInOrder` without `since`, 2 viewers).
* Groups of held events are scanned by offset: rows that leave during the scan
  make it skip others (`GroupsAreExact` speaks of quiet tables). The normalized
  count of an export with a limit is the lesser of two totals
  (`export.py:112`), not the number of normalized events among those shipped.

Names and environments:

* Deleting a connection takes the mappings, recipes, requests and batch runs of its
  name in every environment. With foreign keys it fails (`Referenced`) for as long as
  an onboarding sample or an event under another spelling of the environment refers to
  the source, an event adopted under another name or spelling refers to a batch run,
  or an analysis job, finished or not, refers to one of the requests.
* The list of connections and the page of one differ in `last_event_at`: the list
  has the time (`connections.py:168`), the page passes none (`:234`). Neither is
  modelled.
* `get_connection` answers from a mapping of another environment's connection,
  although `connections.py:93-96` says names must not leak. `create_environment`
  checks the exact name, everything else ignores case. The migration links every
  event of a name to the first source made for it (`old` in
  `EventsKnowTheirSource`).
* A sample may be analysed again after its approval, and approved again.

Formats and rendering:

* CEF or LEEF lines of one shape are cut as a csv table (`batch_split.py:128`),
  although `:12-16` promises the per-line path for everything but JSON, XML and
  csv tables; two
  raw lines with consistent delimiters pass `POST /ingest` as one csv event,
  although `ingest.py:67-70` says it fails loudly.
* `drift.py:20-21` says that an exported event must not read its wrapper keys as
  new fields; `batch_id`, `detected_format`, `raw` and `seq` are not among
  `INTERNAL_KEYS`.
* A JSON document with a member called `fields`, `text`, `rows`, `header`,
  `extensions` or `leef`, and a syslog header without a host, are flattened
  differently by wizard and pipeline (the exceptions of `FieldsAgree`).
* A field with a dot in its name is mapped and then looked up by its parts, so it
  is never normalized; of two inputs mapped to one path, one value is lost, and a
  path below another's leaf raises and fails the line (the exceptions of
  `NothingIsDropped`). A JSON array sent alone becomes an empty `normalized`.
* A markdown export through a version shows nulls for held rows, although the
  comment at `export.py:573` says it is always lossless
  (`MarkdownShowsTheLine` is about exports without one).
* A CEF header without its seven parts loses the body; XML attributes are
  dropped; csv rows with quoted delimiters are detected as raw.

## 5. Proofs

Checked by TLAPS for every value of the constants.

| Module | Theorem | Says |
|---|---|---|
| `DriftLifecycleProofs` | `TypeCorrect` | `Spec => []TypeOK` |
| | `MemoryTheorem`, `BeyondTheorem`, `ReleasedTheorem`, `HeldTheorem`, `ListsTheorem` | `Spec => []` of `MemoryIsSound`, `RequestBeyondBaseline`, `ReleasedIsUnderstood`, `HeldIsExplained`, `RequestListsItsEvents` |
| | `OneRequestTheorem`, `WaitedForTheorem` | one handler at a time, `Spec => []` of `OneOpenRequestPerShape`, `WaitedForExtendsCurrent` |
| | `ResolvedTheorem` | one handler at a time, `Spec => ResolvedStaysResolved` |
| | `DecidableTheorem` | one handler at a time, complete interpretations, `Spec => []HeldIsDecidable` |
| `EventIngestProofs` | `IngestTypeCorrect`, `ReplyTheorem`, `SentTheorem` | `Spec => []` of `TypeOK`, `ReplyNamesItsRow`, `SentAreStored` |
| | `ArrivalTheorem`, `RawFileTheorem` | `Spec => []` of `SequenceFollowsArrival`, `RowsHaveRawFiles`, which speak of requests one after the other |
| | `BatchTheorem` | `Spec => BatchIsLines`, of requests one after the other |
| `BackgroundProofs` | `OneAnalysisTheorem`, `OutcomeTheorem` | `JobsSpec => []OneAnalysisPerDrift`, `JobsSpec => OutcomeIsFinal`, with slow and late workers |
| | `QueueTypeCorrect`, `BoundTheorem`, `AccountTheorem` | `Spec => []` of `TypeOK`, `WithinBound`, `Accounted` |
| | `OneEndsTheorem` | `Spec => []AtMostOneEnds` |
| | `AwakeTheorem` | without the watcher, or with three workers or more, `Spec => []WorkGoesOn` |
| | `ChannelTheorem` | `Spec => ChannelSpec`: the pipeline implements the channel |
| | `TailTheorem` | `TailSpec => Spec`: the watched file only restricts the pipeline |
| `OutputProofs` | `DeliveryTypeCorrect`, `OnePlaceTheorem` | `Spec => []` of `TypeOK`, `InOnePlace` |
| | `StreamTheorem` | `LiveSpec => []ViewersSeeInOrder` |
| | `RunTheorem`, `WalkTheorem`, `QuietTheorem` | `ViewsSpec => []` of `RunOwnsItsRows`, `ExportIsOneWalk`, `QuietReadsAreExact` |
| `MappingCatalogProofs` | `CatalogTypeCorrect` | `Spec => []TypeOK` |
| | `BaselineTheorem`, `ApartTheorem`, `CacheTheorem` | one handler at a time, with foreign keys or without, any statuses, any deaths: `Spec => []` of `BaselineExists`, `PublishedApart`, `CacheIsFresh` |
| `SourceRegistryProofs` | `RegistryTypeCorrect`, `SourceTheorem` | `Spec => []` of `TypeOK`, `EventsKnowTheirSource` |
| | `OnceTheorem`, `RemovalTheorem` | `Spec => []RegisteredOnce`, `Spec => RemovedIsGone`, which speak of requests one after the other |
| `RecordPathProofs` | `FieldsAgreeTheorem`, `NothingIsDroppedTheorem`, `RerenderTheorem`, `MarkdownTheorem` | `Spec => []` of `FieldsAgree`, `NothingIsDropped`, `RerenderIsFaithful`, `MarkdownShowsTheLine` |

Assumptions: those named in the modules (there is a handler, events carry fields,
settings are Booleans, bounds are naturals, null values are no values). TLC
evaluates them in every run. `AwakeTheorem` has the hypothesis `EnoughWorkers`
(with the watcher, more than two), which it needs: TLC refutes `WorkGoesOn` with two
workers and the watcher.

`OneAtATime` says that there is one handler at most: requests are served one after
the other, each in all its steps, and any of them may die half-way unless the
theorem says otherwise. The theorems that have it need it: section 4 names, for
each, what two overlapping handlers do. `DecidableTheorem` also needs complete
interpretations (the run `drift_stranded`, section 4), and its property excludes
behaviours in which a handler died (`failures = 0`). What an interpretation and a
shape are is open in all of them: `Carries` is any set of fields for each event, so
that events whose shapes overlap or contain each other are covered.

*Drift.* None of the four safety invariants is inductive: a merge commits what
was read several steps ago, and an event is held or released on a verdict reached
before other handlers published. The inductive invariant `IInv` is `TypeOK`, the
four invariants and `MemoryIsSound`, which says of every step of every handler
what its memory still guarantees: the ids it keeps exist, its verdict is the one
its mapping gives, the request it will merge into has the shape it will be listed
under, and once it is about to hold an event some request explains it. These
facts are stable because mapping rows are never changed, requests never change
their shape and are never deleted, and a list of events only takes events that
carry the request's shape. The proof has one lemma per action for the typing and
one for each invariant the action can disturb; the frame lemmas (what appending a
row or changing a status preserves) are stated once and cited.

With one handler at a time more can be said. `SeqInv` adds to `IInv` that one open
request has a shape and that what a handler remembers of the request it read is
still exact (`ExactOf`), since nobody else writes in between. `RebasedInv` then
relates lookups to history as long as nobody died: they find the newest version,
except between its INSERT and the binding of the recipe; an event that is
understood by it and still held is on the list of the handler that reprocesses;
and one that stays held waits for a request that extends it
(`WaitedForExtendsCurrent`). `DecidableInv` needs that an interpretation is
complete: what is published answers the whole request, so the new version knows
its shape, and no held event is left behind the request when it is closed
(`CompleteOf`).

*Ingestion.* The proofs go in three layers. `TypeInv` adds to `TypeOK` the shape of
what a thread holds in each step: a request has its payload until it is answered,
only a batch has rows that wait. That the next sequence number exists, and is above
all others, rests on a lemma that every finite set of numbers has a maximum, by the
well-founded ordering of finite sets (`FiniteNumbers`). `NameInv` says of every
answer a thread has collected, and of every identity it remembers, that a stored row
or one of its waiting rows has that payload and that id; it is stable because rows
are only appended and keep both (`Extends`: a purge changes the other marks), and a
batch answers only after its last checkpoint. For the sinks, `OwnInv` says that an
id belongs to one request and is in no row before that request stores it, and
`SentInv` balances the account while nobody has died: an id was sent, once, exactly
if its output is stored and not *due* (a single commits before it delivers) or is
*early* (a batch delivers before its checkpoint). In a quiet state nothing is due
and nothing early. For requests one after the other, `OrderInv` says that ids and
numbers rise along the table continued by the rows a batch keeps back, that the
batch has reached the highest number, and that the number a single has read is still
above all; an append preserves it (`AppendRises`), a purge only thins the table.
`FileInv` says that a live row that refers to a file has it unless the purge at work
has removed it, that the file of a row still to be stored is there, and that what a
purge has selected is live when it commits; ids rise, so no two rows share a file
(`UnlinkFiles`).

`BatchIsLines` compares a batch with a fold over its lines (`OneByOne`), so its proof
needs an invariant between the two ends. `LineInv` says of a batch at work that what
is stored and kept back has the payloads, and if the engine fails on no line the
numbers, that the fold has after as many lines; that the batch's counter is then the
highest number of its source (`Top`); and that it recognises as a replay exactly the
lines whose payload is stored or kept back. The last is where a stale prefetch would
show: what the batch found at its start is still there, and what it has added since
it remembers. A step that takes a line moves the fold by one (`LineMoves`):
`ReplayLines` and `BrokenLine` leave both logs, `NewLine` appends the same entry to
both. The two recursive functions are unfolded one index at a time (`LogStages`,
`LineStages`) by counting up to the length of the sequence (`CountUp`).

*Jobs.* Both theorems follow from `IInv`: a task that has not ended works for an
active job (`LiveIsActive`), of two jobs of a request the first is not active
(`OneActive`), and a row that is old, or that a read has already picked to fail, has
no task left and did not complete (`OldIsDead`, `ReapedIsDead`), each unless the job
is overdue. Nothing but the half hour under a live worker makes a job overdue
(`AgeStep`), so neither restarts, nor two reads that picked the same row, nor a
second submission reach a live analysis or a told outcome.

*Pipeline.* `SafeInv` adds two facts to `TypeOK`, `WithinBound` and `Accounted`:
only the worker that has the loop holds an item, and works on it
(`HandIsWorkedOn`), and while the watcher is about to put the item it made room
for, the queue is at most full, so that it overfills by one and no more
(`RoomForLateItem`). `AwakeInv` strengthens `WorkGoesOn`: every worker has the
loop, is ready or waits for an item (`NobodyIsLost`), and one that found the
queue empty and is about to park leaves another ready, or the watcher's wake-up
still to come, if something was put since it looked (`ParkIsCovered`). The
refinement maps each step to one of the channel or to a stutter, using `SafeInv`
for the bound. `EndInv` says that the queue's count is that of what waits and what
is worked on, less an item the watcher has still to count, and one more for good once
a worker has ended (`CountAgrees`); with every worker in one place at a time
(`PlacedOnce`) a second one never finds nothing unfinished. Of three workers one is
then left to wake or to run besides the one that parks.

*Delivery.* `InOnePlace` is preserved because a worker only visits sinks that do
not know its line yet. `StillToVisit` says so of the sinks on its list and, before
it has one, of all sinks; `LinesApart`, that no two workers have the same line,
makes it stable under the others' steps; `StepsApart`, that only an upload carries
lines, makes a swapped buffer the only thing a thread holds.

*Live stream.* The numbers on their way to a viewer, those it saw, the one at hand,
those in its queue and those the loop has ready, follow each other in increasing
order, stage before stage; a message published since it came is in one of them, was
dropped by its full queue, or does not pass its filter. What it misses below one it
has seen can then only have been dropped.

*Reads of the table.* Three layers. `RunsInv`: a row names the run that stored it
from the start and is listed under it later, so `RunOwnsItsRows` needs to know, of a
batch at work, that the rows it remembers are those of its run that are left
(`MineOnly`), and that it never remembers more of them than it answered. A replayed
line would break both. `WalkInv` says where an export is: everything it shipped is
at or above the last id, and everything that matched since the count and lies there
was shipped (`Walked`); a commit of somebody else only makes `steady` smaller and
new rows appear above it. That a page of the ids below the last one, in order,
continues the walk rests on lemmas about `NewestFirst` (every finite set of numbers
has exactly one such list) and about stretches of a list. `QuietInv` adds, while
nothing changes, that the counts are the table's, that what was shipped is exactly
the part of the table read so far, and that the groups are those of the rows scanned
(`GroupsHold`); two stretches of groups join to the groups of both because every row
of the second is older (`GroupsJoin`). `steady` and `quiet` are history that no step
reads. The layers were checked by TLC on the instance of `views_export` before they
were proved.

*Catalogue.* `TypeInv` types rows, labels and threads. Its one hard part is that the
version `_create_versioned_mapping` and the wizard look for exists: a label beyond
the first is the number of some row (every lemma of an action keeps it), so
the finitely many labels leave a number free, and the least of those is what
is taken. Each action has an effect lemma, which says what it does to the rows
(`Grows`, `Replaced`, or nothing) and where its thread goes; the invariants cite
those and never open an action again. `BaselineExists` says that the mapping of an
open request is a live row, and needs that nothing was raised between the count of
the open references and the deletion (`DeleteIsSafe`); the foreign keys play no part
in it. `PublishedApart` needs
that a number which was found and not yet used is still free (`NumberIsFree`) and
that an onboarded mapping keeps its label for as long as it is there
(`OnboardedIsLabelled`). `CacheIsFresh` needs two facts while a handler is at work:
what it read to fill the cache has no newer published mapping beside it
(`EntryIsNewest`), and neither has the entry (`CacheFollows`) unless an invalidation
is still to come or is owed by a handler that died (`Excused`). Setting a mapping to
`approved` publishes nothing and disturbs neither.

*Sources.* A request looks up and commits in different steps, so `Remembered` says
what it still knows at its commit, whoever else was at work: environments are only
appended and keep their names; ids are given once (`SourceIds`, `EventIds`), so
whatever source has the id it found is the one it found, if it is still there, and
the foreign key decides that. `EventsKnowTheirSource` then survives a removal
because no event may refer to the sources that go. What a database of an older
version looks like is proved as well: a migrated pair preserves `Linked` (ids are
below the count, a source is the only one of its name and environment, a linked
event has a source of its name), and the migration is at most two of these steps.
For requests one after the other (`alone`), `AloneInv` adds that one request is at
work and that what it did not find is not there (`Exact`); so a source that was
missing is the first of its name, a removal has found everything, and a version
that was found free is new, or is the first of a name nothing was published under.
That some version is free is a lemma about finite sets (`NextVersionFacts`). The
last step of `RemovalTheorem` compares two lookups of one environment, before the
commit and after it, which may itself have added the row. A
removal commits only when nothing refers to what it takes (`Referenced`), so the rows
that are left refer to rows that are left.

*A line and its row.* `IInv` says that the row in view is, column by column, what
`_compute` gives for the row's own line, hint and mapping and some profile, that
this mapping has well-formed paths, and that a held row asks for names of fields.
None of the four properties is inductive without it: the mapping and the profile of
the source have moved on since the row was computed. It is stable because every
request that touches the row computes it again as a whole, or leaves it, and
because the versions that `approve_drift` and `correct_drift` build from a
well-formed mapping are well-formed (`VersionIsMapping`).

What remains are facts about the operators, for values, mappings and profiles of
any size, and they go through recursive functions (a mapping's fields, a profile's
fields and the missing slots are worked off one after the other) by induction on the
number of those worked off. Prefixes order the paths, the ones above a path form a
chain (`PrefixOrder`), so a write disturbs only what is comparable with its path
(`SetElsewhere`). `WriteFacts` carries over the writes of an engine that all leaves
lie below written paths and that a write no other contends with is still found;
with the exceptions it names, this is `NothingIsDropped`, since the engine looks at
the same field map that drift detection found nothing new in (`NormalizedFacts`).
`FillHasSlots` and `FillOnlyNulls` do the same for the null-filled slots:
a rendering has them all, and, when no two slots lie above each other, is the
stored payload otherwise (`OwnVersion`). `FieldsAgree` is a comparison of two
functions format by format, on the keys each parser writes (`SyslogAgrees`,
`CefAgrees`, `LeefAgrees`, `CsvAgrees`, `RawAgrees`, `DocumentAgrees`); its
exceptions are those of section 4. For `MarkdownShowsTheLine` it is enough that
`log.original` is set last but for paths beside it (`FallbackShows`), whatever the
fallback's table of paths.

`LineAssumption`, `HintAssumption`, `MappingAssumption`, `NameAssumption` say what
the constants are: fields of a line have names of one part or more, requests name
formats, mapped paths are not empty, a finite number of names occurs. A syslog
header's time and priority are never empty text: the patterns that find them match
characters. `KeyAssumption`, that the words the parsers write are strings, is there
because the provers cannot tell that a literal is one.

Only model-checked: everything about time (`ApprovalEmptiesThePile`,
`CacheCatchesUp`, `EveryJobEnds`, `AcceptedIsProcessed`, `WrittenIsTailed`,
`EveryLineSettles`, `GoneViewersLeave`: liveness under fairness is outside the
prover). The type invariants of `LiveHub` and `EventViews` describe their state;
`HubInv` and `WalkInv` contain what the proofs need of them.

## 6. Not modelled, and why

* The grammar of formats character by character, the csv and text layouts of
  exports, prompts and their parsing: left to unit tests.
* Analytics, statistics, audit, training data and evaluation: aggregates and
  appended rows that nothing reads back into the loop. Two observations: the
  training export promises the human-approved mapping and looks mappings up by
  ids that SQLite reuses after a deletion, and it reads the newest `2 * limit`
  audit rows only; the catalogue's `POST` handlers insert duplicates.
* Kafka: at-least-once redelivery meets the duplicate check of `EventIngest`;
  offsets and partitions belong to the broker.
* The rate limit: its counter is lossy by design; field memory beyond what it
  answers for a name.
* The 500-event cap of a request's list; a mapping or profile pinned by id in
  `process_lines`.
* The file sink, and the configuration forms of destinations.

One observation outside the models: `main.py` passes the future returned by
`run_in_executor` to `asyncio.create_task`, which takes a coroutine, when Kafka
ingress is enabled.

## 7. Plan

Done: all modules of section 2 and the proofs of section 5. What is left:

1. Kafka: at-least-once consumption over the duplicate check of `EventIngest`.
2. The rate limit over the shared cache.
3. An abstract quarantine (held, released, decided) that `DriftLifecycle`
   implements, and a delivery promise that composes `DeliverySinks` with
   `EventIngest`.
