# ivms777: specifications of the library, its pipeline, its models and its pages

TLA+ models of the parts of this program whose correctness depends on order: the
uploads and deletions that decide which photos there are; the job queue and the
drain passes over it; the gate every model call goes through, and what happens when
a model is exchanged for another; the memories that are rebuilt while the library
changes; a chat turn from the question to the stored answer; and the pages that
rank and page a library that changes under them. TLC checks them on small
instances. TLAPS proves every invariant and action property of the passing runs for
every instance, under the assumptions that section 4 names, and that the pipeline keeps
the promise of its queue; the liveness properties are only model-checked. Paths below are
relative to the repository; sections "§" are those of `docs/design.md`.

    tlc -workers 2 -config MCIngest.cfg MCIngest        # and the other configurations
    tlapm IngestProofs.tla                              # the proofs about one module

## 1. The system

| part | state it keeps | operations | talks to |
|---|---|---|---|
| Upload and receive (`web/upload_api.py`, `ingest/receive.py`, `web/static/upload.js`) | `uploads`, `photos`, `photo_sources` rows; original files | start, probe (link the known bytes), file (store, insert, enqueue five stages), finish (inline drain) | job table, storage |
| Job table (`ingest/jobs.py`) | one row per photo and stage: status, attempts | enqueue, claim_next, complete, fail, record_done_at, reprocess, reprocess_one, requeue_stalled | every part below, one autocommit SQL statement at a time |
| Ingest pipeline (`ingest/pipeline.py`, `worker.py`, the stage handlers, `cli.py`) | a pass's locals: stage, job in hand, photos attempted, caption batch | drain pass in three groups, backfills, five handlers | job table, derived data, models service |
| Folder deletion (`ingest/folders.py`) | the outbox `folder_deletions` | enqueue, drain of the outbox at the start of a pass | uploads, photos, files |
| Model conveyor (`modelsvc/scheduler.py`, `governor.py`, `registry.py`, `slots.py`, `backends/composite.py`) | free slots, waiters, resident set, last uses, child processes | admit, release, acquire (evict, load), call, reap idle | child processes |
| Slot switching (`models/slots.py`, `db/vectors.py`, `modelsvc/slots.py`, `web/app.py`, `web/deps.py`) | the selected model of a slot, in the database and in the models service; the width of the vector table | preview, switch, push, poll and push again, apply, heal at start | job table, conveyor, the worker's embedding |
| Downloads (`modelsvc/downloads.py`) | one state per source, `.part` files | start, run, status | the disk |
| Memories (`albums/`) | `groups`, `group_photos`, `memory_fts`, a "building" flag | rebuild (seed, curate, swap), prune, backfill, read | models service, photos, folder deletion |
| Chat (`chat/`, the chat routes) | sessions, messages, three toggles | answer directly, route, gather with tools, stream, filter citations, store | search, models service |
| Search (`search/`) | none | candidates, evidence, score, explain | vectors, tags, captions |
| Pages (`web/app.py`) | none on the server; the browser's | grid by offset, photo layer, similar strip and its wider part, panel | search, library |

**What is hard.** Nothing in the pipeline runs in a transaction: a handler's
writes, the status update and the resets of other stages are separate autocommit
statements, run by a worker process that may be killed, and in some
deployments by request threads of the app as well, while users reprocess and the
models service comes and goes. Nothing in the deployment starts a worker again that died (no
`restart:` in `compose.yaml`, no recovery in `ingest/cli.py`). In the models service, request threads meet at
three locks (the scheduler's, the governor's, the registry's) and act on state
they read before they took the next one; model processes die by themselves. A
model switch is known to four parties, none of which sees the others' state. A
memories build works for minutes on ids it read, while photos go and their ids are
given again. A chat's answer arrives in pieces that cut a citation anywhere, and
every page computes its list anew.

**What makes each part correct.** The queue: no job is stranded, retried for
ever, or parked before its attempts are used up. The pipeline: "done" means the
output is there, a caption's vector is that of the current caption, a broken
photo or a dead service holds up nothing else. Deletion: a photo goes exactly
when its last folder does, also across a restart. The conveyor: slots are
conserved, users go before batches, memory stays within its budget, and a model
in use stays loaded. Switching: what is done was made by the selected model, and
the service comes back to the selection. Memories: a memory shows the photos its
story was told of, an emptied one goes, the index agrees. Chat: only photos that
were found are shown, and a turn is stored once. Pages: a photo that was shown is found
again, with its reasons, by the request that opens it; looser gates keep every match, and
more data loses none but to the cut of the neighbours.

## 2. Modules

| module | models | kind |
|---|---|---|
| `Jobs` | the job table and its statements | operators on a table value |
| `Backlog` | what the job table promises | abstract specification |
| `Ingest` | receive's queueing, reprocess, drain passes, handlers, crashes, outages | state machine on `Jobs`; implements `Backlog` |
| `Conveyor` | scheduler, governor, registry, idle reaper, children | state machine |
| `Library` | upload sessions, receive, the deletion outbox and its cascade | state machine |
| `Slots` | the image-embedding slot: switch, push, apply, restarts, embedding | state machine on `Jobs` |
| `Memories` | rebuild, prune, backfill and page of the memories | state machine, with `seed_candidates` as operators |
| `Chat` | a chat turn, its gathering, its stream and the citation filter | state machine |
| `Similar` | the ranking of photos by similarity to one | operators on a library value |
| `Browse` | grid, photo layer, strips and panel over a library that changes | state machine on `Similar` |
| `MCIngest`, `MCConveyor`, `MCLibrary`, `MCSlots`, `MCMemories`, `MCChat`, `MCBrowse` | instances of these | model checking |
| `IngestProofs`, `PromiseProofs`, `ConveyorProofs`, `LibraryProofs`, `SlotsProofs`, `MemoriesProofs`, `ChatProofs`, `BrowseProofs` | theorems | proofs |

Parts that meet share a module rather than a channel: the deletion's cascade is in
`Library` for the photos and in `Memories` for the memories; the job table is that of
`Jobs` in both `Ingest` and `Slots`; a model that answers or does not is a choice of
`Ingest`, `Memories` and `Chat`, and a matter of its own in `Conveyor` and `Slots`.

### Ingest

*State.* `job` is the table `jobs`. `library` is the set of photo rows; `owed[p]`
counts the enqueues the request that created `p` has not run yet. `thumbs`,
`vectors`, `stamped`, `tags`, `text`, `capvec` are the columns and tables the
handlers write: `thumb_key`, `photo_vec`, `embedding_model`, `photo_tags`,
`caption`, `caption_vec`. `at`, `stage`, `held`, `tried`, `batch` are the local
variables of each drainer's pass. `sweep` is the rest of a library-wide
reprocess, which commits one stage at a time. `backend` says whether the models
service answers.

*Steps.* A step is one SQL statement, or one call of the models service with the
statement that follows it:

| code | actions |
|---|---|
| `receive` | `InsertPhoto`, `EnqueueNext` (five times) |
| `reprocess_one`, `reprocess` | `ReprocessOne`, `Reprocess` then `ResetStage` per stage |
| `drain_pass` | `BeginPass`, `ThumbnailsDry`, `EmbedsDry`, `TaxonomyDry`, `EnterCaptions`, `CaptionsDry`, `EnterVectors` |
| `claim_next` | `Select`, `ClaimHeld`: the read and the update are two statements |
| handlers | `ThumbnailWork`; `EmbedErase`, `EmbedWork`, `EmbedStamp`; `TaxonomyClear`, `TaxonomyWrite`; `CaptionSkip`, `CaptionWork`, `CaptionNote` |
| `complete`, `fail` in `drain` | `CompleteHeld`; `HandlerFails`, `HandlerFaults` |
| `backfill_caption_vectors` | `EnterVectors`, `EmbedBatch`, `WriteVector`, `MarkVector` |
| process control | `WorkerCrash`, `WorkerStart`, `AppCrash`, `QueueFails`, `BackendFlips` |

*Merged statements.* A backfill inserts one row per photo, each insert guarded by
"does not exist"; they are one step, since no other statement can tell a missing
row that is about to be inserted from one inserted now, except that a crash in
between leaves the rest to the next pass, which starts the same backfill again.
`reprocess` first enqueues what is missing and `reprocess_one` enqueues before it
resets; both orders only turn an absent row into a pending one before it is set to
pending. Two library-wide reprocesses at once are not modelled.

*Left out.* The full-text index, place facets, timestamps and error texts, the
relabelling of legacy model names at the start of a pass, and folder deletion
(`Library`). `should_preempt` is a constant False in this
program, so `requeue_running` never runs.

*Bounds.* The run that combines every fault has one photo: all five of its jobs
run, and the properties it checks are each proved for any number of photos. The
liveness runs have two, since jobs of different photos meet in the choice of the
lowest id and in the batch limit, and a broken photo must not hold up a sound one.
`MaxAttempts` (3 in the code) is 2, so that retry and parking both occur, and in `live` a
photo that failed waits for the next pass behind the `attempted` set. `BatchLimit` 1
stands for 50.
`MaxFaults`, `MaxCrashes`, `MaxResets`, `MaxFlips` and `MaxLockouts` bound the
number of handler errors, kills, reprocess requests, outages and failed
statements; one of each already combines them in every order. None of these
bounds is assumed in the proofs, where they are arbitrary numbers.

*What it promises.* `Backlog` is the queue as a user thinks of it: work is owed,
then done or parked. It has no drainers, claims, crashes or restarts. `Ingest`
implements it under the mapping at the end of the module: pending and running rows
are owed, failed ones parked; the attempts count only while the work is not done;
what is there is what the handlers left behind. Captions and tags are `Optional`: a
caption job without a thumbnail ends as done with nothing to show
(`ingest/caption.py:45`), and so does a taxonomy job of a photo with neither a vector nor
a thumbnail (`ingest/taxonomy.py:145-152`). That the mapping
exists says that a step of a handler touches the output of owed work only, that
work is done only with its output there and parked only by its last attempt, and
that crashes and requeues show nothing of themselves. With a second drainer it does
not exist: one takes the other's job, and erases the output of work that is done.

*Fairness.* Weak fairness of a worker's steps (the polling loop of `ingest/cli.py`), of the
enqueues of a request under way, and of a reprocess under way. Nothing is assumed of
users, inline drains, faults, crashes or the models service, and nothing of the start of a
worker that died: `compose.yaml` has no `restart:` entry, and `watchfiles` starts one only
when a file changes. The liveness properties have it as a premise instead (`Attended`: a
worker that is down is started again, and resumes, `docs/ingest-pipeline.md:11-12`).

### Conveyor

*State.* `at`, `need` are a request thread's place and the unit it needs;
`queue` is the heap of waiters in order of arrival, with the priority taken from
the unit (a caption is the only batch call); `free` is the number of free slots.
`lock` is the governor's lock, `loaded` the registry's ordered dictionary, `alive`
the units whose child process runs. `used`, `stale` abstract `_last_use`: the llm
units released within the idle TTL, oldest first, and those released before that.
`aged` is what one run of `reap_idle` has still to look at.

*Steps.* `_admit` is `Request`; `_release` with the stamping of last uses is
`Release`, part of every action that ends a reservation. `acquire` is `TakeLock`,
any number of `Evict`, then `Touch`, `Load`, `LoadFails` or `Refuse`. A call is
`Call`, then `Answer` or `Raise`. `reap_idle` is `ReapBegin`, `ReapCheck` and
`ReapUnload`. `Age` and `ChildDies` are the environment.

*Abstractions.* Every unit is needed alone, as in the backend. Measured free
memory is arbitrary when `Pressure` is set: it may ask for any eviction the loop
can make. A torch child answers one call at a time and its stop waits for the
call (its lock); `llama-server` is killed at once. A broken and reconnected
stream is not told apart from one that goes on. The sticky-chat window is left
out because `build_backend` never passes `chat_cooldown_s`; the endpoints that load
or unload a unit directly because nothing in the application calls them.

*Fairness.* Weak fairness of each thread: a call ends, with an answer or an
error (the llm clients have timeouts; a torch call has none, see the hazards).
Nothing is assumed of arrivals, children or the clock. Liveness is checked with one
slot, where no lock is contended for ever; with several, the locks give no
guarantee to a given thread.

### Library

*State.* `uploads`, `photos`, `sources` and `outbox` are the tables `uploads`,
`photos`, `photo_sources` and `folder_deletions`; `originals` is the store of
originals by content. `phase`, `session`, `link`, `send`, `file`, `found` are the
local variables of `run()` in a tab and of the request it waits for. `at`,
`pending`, `label`, `ids`, `affected`, `victim` are those of the worker's drain of
the outbox. `held` and `overlapped` are history: what each folder was told it has
since it was last deleted, and whether a session and a deletion were ever under way
together; `filed` is the label under which each path came. A picked file is a path and
a content, and a pick may be of several folders, with the label of the first.

*Steps.* One SQL statement or one file operation:

| code | actions |
|---|---|
| `run()` and `start` | `Start` |
| `probe`: `known_hashes`, then `link_existing` per file | `Probe`; `LinkRead`, `LinkAdd` per file; `Probed` |
| `receive` | `SendFile` (the lookup), `StoreFile`, `InsertPhoto`, `SendAdd`; `SendRefused` for a 404 |
| `finish`, or an error that ends `run()` | `Finish` |
| `enqueue_folder_deletion` | `RequestDeletion` |
| `process_folder_deletions` | `DrainBegin`, `ClearRequest` |
| `_delete_folder` | `ReadUploads`, `ReadAffected`, `DropUploads`, `CheckPhoto` per photo |
| `_delete_photo` | `EraseFiles`, `DeleteRow` |
| process control | `WorkerCrash`, `WorkerStart`, `AppCrash` |

The schema is part of the actions: cascades (`SourcesLeft`, `RowGone`), foreign keys
(`MayAdd`), `UNIQUE(owner_id, content_hash)` (`InsertPhoto`), `UNIQUE(photo_id, rel_path)`
(`AddSource`), and row ids that are given again (`NewId`).

*Left out.* Files refused before anything is written (wrong hash, not an image, full
disk), EXIF and facets, thumbnails and index rows, the memories a deletion empties, a
second drainer. One file of a session travels at a time instead of four: they have
different contents, so they meet in no row. The key of an original is its content and
suffix; it is taken for its content.

*Bounds.* Two folders with one content in common, one of them with two copies of it,
are the least in which a photo outlives a folder, a copy is linked and a copy is
dropped. Three sessions and two deletions reach "upload, share, delete, upload
again" and an id given again. Two tabs are needed for the race to insert a photo; one of
theirs is a pick of two folders.

*What holds when.* `HeldExactly` is about sessions and deletions that take turns, and about
paths that came under one label each (`FiledOnce`): a folder that is picked once by
itself and once behind another has its paths under two labels, of which only the first is
a photo's source. When
they overlap the code gives no such guarantee: a probe that links a content between
`CheckPhoto` and `DeleteRow` loses the link with the photo, and an id read by
`link_existing` may be another photo's when the path is recorded. `SourcedHasOriginal`
holds through every overlap of one session with the deletions, because a file goes
before its row; it is stated up to the worker's first crash, since a worker killed
between the two leaves a row without a file, to which the next upload of that
content links. With two tabs it fails: one tab finds the content unknown, another
stores it and its folder is deleted while the first writes the same file.

*Fairness.* Weak fairness of the worker's steps, and not of its start, as in `Ingest`:
`OutboxSettles` has the premise that a worker that is down is started again. Nothing
of tabs and users.

### Slots

*State.* `stored`, `width`, `vec`, `stamp`, `job` are the `app_settings` row, the
declared width of `photo_vec`, its rows, `photos.embedding_model` and `jobs`;
`override` is the environment. A vector is who computed it and for whom the image
was resized. `slots`, `spec`, `child`, `resident` are the models service's: its own
selection, the model the registered load callable starts, the child in the slot
manager's table, and whether the registry counts the unit as loaded. `at`, `want`,
`drops` are the locals of the requests that switch and of the poll; `point`, `photo`,
`name`, `px`, `got`, `tried` those of the worker's pass. `late` and `raced` are
history: photos whose work a switch, another model's answer or a changed environment
crossed, and whether one of the two windows of an apply was met.

*Steps.* `switch()` is `Preview`, then `Commit` (one transaction: the setting, the
rebuilt table, the reset stages); the handler then resolves the keys and pushes
(`Push`, `Apply`). The resource poll is `Ask`, `Answer` (`_repush_slots`), `PushLost`.
`SlotManager.apply` takes no lock: `Apply`, `UnloadUnit`, `DropWorker`, `Register`. The
worker: `BeginPass` reads the key once, `ClaimPhoto`, `FetchSpec` (cached for the pass),
`Reserve`, `Embed`, `Write`, `Stamp`, `Settle`. `ServiceRestart` is the models service
alone, on the defaults; `Restart` is every container, with the environment as it is
then, and `_heal_vector_width`.

*Abstractions.* One of the slots in detail: the others differ in the stages they
invalidate and in nothing else. The app, the worker and the service see the same
environment. `write_vector`'s DELETE and INSERT are one step (they are two in
`Ingest`). `Evict` is the conveyor making room.

*Bounds.* One photo, since jobs of several meet only in their order; two models of
one width, as shipped, and one of another; one user who switches once; one restart;
one lost push.

*What holds when.* `DoneIsSelected` leaves out what was crossed: a drain that holds a
photo while the switch commits finishes it with the old model, and its completion
overwrites the reset. `WidthFits` is about one user: two whose previews cross
leave the table at the other's width, until the next start heals it. `ServesSlot` holds whatever
loads and applies are interleaved but for two windows (`raced`): a load that starts a child
after an apply cleared the table and before it registers the new model, whose child is
then the old one; and an apply that changes the slots while another is past
its unload, which then registers the key it read before. Neither is noticed: the
poll compares the slots, which are right (`modelsvc/slots.py:83-106`).

*Fairness.* Weak fairness of the poll's request once it was sent, of an apply, and of a user's
request that has begun. Nothing of the worker, and nothing of the poll itself: it is a
`setInterval` of an open page (`web/static/resources.js:26`). `SlotsConverge` has it as its
premise (`Polled`); with no page open a service that restarted stays on its defaults.

### Memories

*State.* `shot`, `captioned` are the rows of `photos` with a time and a cell of about
50 km; `born` is `updated_at`, by which two photos with the same id are told apart.
`groups` and `index` are `groups` with `group_photos`, and `memory_fts`. A memory's story
is the stamps of the photos its prompt showed. `building`, `at`, `todo`, `told`, `kept`,
`rounds` are the flag and the locals of a build; `doomed`, `deleting` those of the worker's
deletion; `reading`, `listed`, `cards` those of the page. `reused`, `orphaned`, `strayed`
are history.

*Steps.* A request is `Request` (the check) and `Start` (the flag); the thread is `Seed`,
per candidate any number of `ExpandTurn` and then `Keep` or `Skip`, and `Swap` or
`SwapRefused`. `seed_candidates` is translated whole, as `SeedCandidates`: the order by
time, the home region, the limit for a stay away from home, the cuts, the order
of candidates. A candidate is the set of its photos, which have one order by time;
`SeedCandidates` is the set of the orders in which the candidates may come, of which there
is one. The deletion is `BeginDeletion`, `DeletePhoto` per photo, `PruneIndex`,
`PruneGroups`; the page is `ReadList`, `ReadCard` per memory, `Render`. `AppRestart` and
`WorkerStart` open the database, which backfills the index.

*Abstractions.* What the model answers is any answer. The signature behind the
out-of-date hint, the words of prompts, and the progress line are left out; the limit of
24 photos in a prompt is not reached.

*Bounds.* Four photos and a free row, a day at home and a night at the coast: the
least with two candidates. One builder and two builds: the second swap is the one
that gives old ids to new groups. `MaxRounds` is 1 instead of 3 and `MinSize` 2 instead of
3. `Samples` adds every library of five photos over six kinds of shot, 7776 of
them, whose budgets are spent: they are only cut, for `SeedsSound`.

*What a candidate is.* `SeedsSound` states `seed_candidates` by its result and not by its
loop: no photo is lost or in two candidates; a candidate is a stretch of time of one
region, however many photos without GPS lie in it; it has no gap that no trip has, and at
home none longer than an event's; and a stretch of one region is in one candidate over
event gaps, located or not, and over the nights of a trip if it is located throughout.
That last condition is where the code departs from its docstring (below).

*What holds when.* `TellsItsPhotos` leaves out rows given to a new photo while a build
knew the old one. `NoOrphanCard` holds up to the first crash of a worker in
mid-deletion: the repeated deletion finds no uploads and prunes nothing. `IndexInStep`
leaves out the gap between the two statements of a prune, and an app that starts in
it and indexes the memory that is about to go.

*Fairness.* Weak fairness of a build's thread: each call of a model has a timeout.

### Chat

*State.* `q`, `set`, `mine` are the question's kind, the toggles and the session read at
the start; `tool`, `pool`, `found`, `facts`, `rounds` the locals of routing and gathering;
`given` the ids `_context_photo_ids` reads back from the prompt; `said`, `held`, `shown` the
stream, the filter's buffer, and what went out; `log` the stored messages.

*Steps.* The handler is a tree of early returns, and each node is an action:
`DirectAnswer` and its `Card`; `PrimeFirst` or `PlannerFirst`; `Route`; `FetchPrimed`,
`FetchSearch`, `FetchNothing`; `GatherPrimed`, `GatherUnprimed`, then rounds of `GatherFact`,
`GatherServed`, `PlanSearch` with `GatherSearch`, and `GatherEnds`; `Build`; `Feed` per
piece; `StreamEnds`, `Fails` with `Note`, `Done`. `Leave` is a client that disconnects:
the generator is not resumed and nothing is stored. A photo may go, a memory may
lose its photos and another session may begin at any point.

`CitationFilter.feed` is the operator `Filter`, on a text of marks and ids: a recursive
function of the place in the text. It is compared with `Clean`, which removes the
citations from the whole text at once.

*Bounds.* One request at a time, as from one browser. Two photos, one of them the
id of the worked example in the prompt; five kinds of question; pieces of one and of
four marks, six marks in all; two rounds of the code's four; one turn.

*Assumptions.* The marks of a citation are no ids: an id is a run of digits.

*What holds when.* `FilterExact` and `CitesFound` leave out nested citations
(`[photo:[photo:9]9]`), whose inner one is removed and leaves an outer one, and a
full citation right after an undecided `[`, after which the buffer is flushed
unfiltered. `OneMessageATurn` allows the second message of a card that fails after its
answer was stored.

*Fairness.* Weak fairness of the handler's steps: a thread works, and its calls have
timeouts.

### Similar and Browse

*State.* A library is its rows, those that have a vector, tags and a caption
vector, and how each photo compares with the seed: five numbers of a profile. Evidence
is in thousandths, with the gates, weights and floors of `search/signals.py`, and
`idf` from a table. The cuts (`NEAREST` 30, `SIMILAR_K` 12, `LOOSE_LIMIT` 6) are constants.
`view`, `grid`, `more`, `members`, `shown`, `asked`, `wider`, `panel` are the browser's;
`members` is the album or memory whose page the photo was opened from.

*Steps.* `OpenGrid` and `Scroll` (LIMIT and OFFSET); `OpenPhoto`, which leaves the
members of the collection out of the strip (`web/app.py:1001-1007`); `ShowMore`, which
is offered while the strip is not full; `OpenMatch`, whose layer is computed anew and
leaves no members out (`web/app.py:774-777`); `Close`. Photos arrive, are embedded,
tagged, untagged and described, and leave, between any two of them. A request's
reads are one step.

*Orders.* A strip is the set of its photos: those that fewer than its length precede
(`Closer`, `Better`). Of two photos with equal scores the code keeps the order in which
they were found, and the model the lower id first.

*Assumptions on a profile.* Scores are integers: cosines between -1000 and 1000, shares
of a tag and the strength of a moment between 0 and 1000. A pair with the strength of a moment
at the strict gate is within the time the scan looks at: `_MAX_GAP_HOURS` is the time
at which a perfect place match falls to that gate (`search/moment.py:22-25`). Labels are
finitely many, each of one of the tiers, and `Idf` is between 0 and 1000
(`search/signals.py:186`) and does not fall when the library grows and the carriers of the
label stay.

*Abstractions.* Photos before their thumbnail are not in the grid's list; gate
settings and tier weights are the built-in ones and captions are used; the strength
of a moment comes with the profile. Text queries, the fusion of their rankings, hard
filters and the albums' own pages are left out.

*Bounds.* A seed and two others, each with one of seven profiles around the gates (below
the loose one, between the two, above both) and at any stage of the pipeline; one
collection; two changes; pages of one. The cuts are at 1, so that of two photos one is
pushed out of the neighbours, of the strip and of what "Show more" adds.

*What holds when.* `PanelExplains` is about matches of the default strip: of a match
behind "Show more" the panel uses other gates than the ranking. `ShownStillOpens` is about
a library that nothing left and no label of which changed since the page was opened, since a
label that spreads is worth less; whatever arrived, was embedded or described, the photo opens
with its reasons unless nearer or better ones took the places. `LostToCloser` says the
same of the admitted photos from one state to the next, seed's own readings included.
`NothingSkipped` is about a library that nothing left.

## 3. Runs

| run | configuration | shows |
|---|---|---|
| `safety` | one worker, one photo, one of each fault, crash, flip, failed statement and reprocess; captions symmetric | `TypeOK`, `RunningIsHeld`, `CaptionVectorFresh`, `ParkedStaysParked`, and `KeepsPromise`, the refinement of `Backlog` (2.6 million states) |
| `live` | one worker, two photos of which one is broken, a crash, no outage | `ThumbnailsRegardless`, `QueueDrains`, `CaptionGetsVector` |
| `conveyor` | four threads on two slots; two of the smaller models fit together and three do not, the text embedder's declared cost exceeds the budget | `TypeOK`, `SlotsAccounted`, `BudgetHeld`, `RegistryHonest`, `AdmissionOrder` (1.5 million states) |
| `conveyor_live` | three threads on one slot, no reaper | `InteractiveServed` |
| `library` | one tab, three sessions, two deletions, a crash of the worker | `TypeOK`, `SourcedHasOriginal`, `HeldExactly`, `OutboxSettles` (1.1 million states) |
| `library_tabs` | two tabs, two sessions, one deletion, a crash of the app; folders uploaded alone and picked together | `HeldExactly` |
| `slots` | as under Slots | `TypeOK`, `DoneIsSelected`, `WidthFits`, `ServesSlot`, `SlotsConverge` |
| `memories` | as under Memories | `TypeOK`, `TellsItsPhotos`, `NoOrphanCard`, `IndexInStep`, `SeedsSound`, `BuildEnds` |
| `chat` | as under Chat | `FilterExact`, `CitesFound`, `OneMessageATurn`, `WokenOnPurpose`, `TurnEnds` |
| `browse` | as under Similar and Browse | `GatesHold`, `NothingSkipped`, `PanelExplains`, `ShownStillOpens`, `LostToCloser` (1.1 million states) |
| `restart` | one session, one deletion, a crash of the worker | `HeldThroughRestarts` is violated |
| `page` | one build after another while a page is read | `NeverHalfBuilt` is violated |

Deadlock is checked in `Ingest`, `Conveyor`, `Slots` and `Browse`, whose worker, callers, poll
and browser never stop. The others come to rest when the bounds of their instances are used up: nobody
uploads, rebuilds, asks or looks any more.
Four threads on two slots give two waiters, the least that makes a hand-over a
choice.

The violated runs are the smallest instances that show a disagreement with a
sentence of the documentation or a comment, quoted in `PROJECT.json` under `findings`:

* **restart**: a deletion drops the uploads first, so one that is repeated after a crash
  finds nothing to do, and the folder's photos stay.
* **page**: the page reads the list of memories and the photos of each in separate
  statements; a swap in between, which gives the old ids to new groups, puts new
  photos under an old story.

### Where the code departs from its documents

The modules contain these behaviours and the properties are stated around them; each
is seen by the change of an instance that is named.

* An outage is charged to every pending caption, since the caption group calls nothing
  before it claims (`ingest/worker.py:48`); three polls park the backlog, against
  `docs/design.md:754-755`. `Ingest` with `MaxFlips` 1.
* A caption job that runs while the thumbnail is missing counts as done and is not
  repeated (`ingest/caption.py:45`, `docs/ingest-pipeline.md:161-162`). `Ingest` with one fault.
* A worker that starts takes the jobs that an app is draining inline (`ingest/jobs.py:165`
  against its own comment at 161-162). `Ingest` with a second drainer.
* Blank captions fill the batch of fifty for ever (`ingest/caption.py:85`). `Ingest` with
  `Blank` among its `Texts`.
* A status update that fails leaves its job running until the worker restarts
  (`ingest/worker.py:50`); `RunningIsHeld` says `lockouts = 0`.
* The idle reaper looks at last uses that a running call has not stamped yet, and may
  unload the model a chat is streaming from (`modelsvc/scheduler.py:120`).
  `LostToReaper` names it as the one exception.
* With several slots, the eviction for one call may take the worker of another
  (`modelsvc/governor.py:64`, against `modelsvc/slots.py:67-68`). `WorkerThere` with
  `Concurrency` 3 and `Pressure`.
* Folders picked together upload under the first one's label with the paths of all
  (`web/static/upload.js:23`, `docs/design.md:287-288`), and of two labels that hold a path
  only the first is its source. `Library` with a pick of both.
* A taxonomy job of a photo with neither vector nor thumbnail ends as done with no tags, and
  nothing queues it again when they arrive (`ingest/taxonomy.py:145-152`). `Ingest` with
  taxonomy not `Optional`.
* A stamp of `embedding_model` may name a model that did not make the vector; overlapping
  applies may leave `spec` off the slot, and a load in mid-apply an old child, until the
  next push of another model; `RemoteEmbedder.refresh` is never called. `Slots` without
  `late` or `raced`.
* With guardrails on and direct answers off a question swaps the models three times, where
  `chat/agent.py:713-714` promises one swap. `Chat`, by the values `last` takes.
* The ids a prompt offers include those of its own worked example (`inference/prompts.py:169`)
  and of the question. `CitesFound` names them.
* A photo without GPS cuts a stay away from home at the first night before or after it, where
  the docstring (`albums/seeds.py:63-69`) says that it does not end the stay: the longer gap
  is allowed only where the cell of the later photo is known (`albums/seeds.py:87`), and
  after such a cut the region of the stay before is still the last one. `SeedsSound` with
  `trip` not asking for located photos.
* A photo that shares only the moment scores at most 0.35, below the strict floor of 0.45, so
  it is not in the strip but behind "Show more", as `search/signals.py:152-157`,
  `docs/retrieval.md:180-183` and `tests/test_signals.py:133` have it and `MomentBehindMore` checks;
  `docs/retrieval.md:165-167`, `search/scoring.py:18-20` and `search/retriever.py:88-90` say
  of the same photo that it survives and qualifies.
* The layer of a match opened from the page of an album or a chat's photos holds the album's
  members, which that page had left out (`web/app.py:774-777` against 1001-1007 and the
  comment at 868-870): the next and the previous photo are others than those shown. `Browse`
  with `Layer(FALSE) = shown`.
* A build that kept a photo deleted meanwhile is refused whole (`SwapRefused`), and "one build
  at a time" is a check that is not made again when the flag is set (`web/app.py:656-660`).
* Looser tag gates never apply to the ranking (`_tag_similarity` is called without gates), the
  scan of moments ends where a strict gate can be met, and the panel of a match behind "Show
  more" is computed with the strict gates (`web/app.py:952`, `search/semantic.py:261-262`).
* "Show more" computes the strict strip again: after a change a photo may be in both
  (`web/app.py:886`).

## 4. Proofs

`IngestProofs` proves, for any set of photos and drainers, any captions and
ranges, any batch limit and any bounds:

* `TypeCorrect`: `Spec => []TypeOK`, in every deployment.
* With the assumption `SoleWorker` (one drainer, a worker: the deployment of
  `compose.yaml`): `AttemptsBounded`, `NoJobStranded`, `ParkedKept`,
  `OutputCorrect`, `CaptionVectorsFresh`, for `AttemptBudget`, `RunningIsHeld`,
  `ParkedStaysParked`, `DoneHasOutput` and `CaptionVectorFresh`.

The argument goes up in three inductive invariants, each of them also an
invariant of the reachable states and none of the properties inductive alone.

1. `BookInv` is about the queue's books. `Grip` says what the worker's place
   implies for the row it holds: between the claim and the status update that row is
   running or has been reset to pending, so a failure never charges a parked job;
   `BatchedStage` does the same for the caption-vector batch, which runs outside
   any claim. From these follow the attempt budget, that running rows are held, and,
   with one comparison of a step's effect on a failed row, that parked jobs stay parked.
2. `OutputInv` adds `Placed`: what the handler has already written when the worker
   stands at each of its statements. Handlers delete before they insert, so
   "done has output" needs that the row in hand is not done while its output is
   away; with two drainers another one could have marked it done, which is why the
   theorem needs the single worker.
3. `FreshInv` adds `Derived` and `BatchFresh`: a caption that was read into a
   batch is still the photo's caption when its vector is written, because the one
   drainer cannot be captioning meanwhile; and after a caption's update the stage
   `caption_embed` is pending before `caption` can be done.

`PromiseProofs` proves `PromiseKept`: with the same assumption `Spec => KeepsPromise`, every
step of the pipeline is a step of `Backlog` or shows nothing. The invariant is
`PromiseInv`: `OutputInv`, from which "done" has its output, with two facts about owed
work. `BatchOwed` says that a photo in the caption-vector batch is owed that vector until
it is marked; `Erasing`, that a worker which has erased and not yet written is in the
embed stage, whose output it then writes. The steps are sorted by what they do to the mapped
variables (`ToQueue`, `ToRenew`, `ToWork`, `ToFinish`, `ToFail`, `ToStutter`); a claim, a crash,
a restart and a requeue change no mapped variable, since pending and running are both
owed. `AttemptBudget` and `DoneHasOutput` are in no run, since every behaviour of `Backlog` has
them under the mapping; both are theorems of `IngestProofs`. `DoneHasOutput` is about thumbnails,
embeddings and caption vectors, as tags and captions may rightly be nothing.

`ConveyorProofs` proves, for any number of threads and slots, any costs, budget and
headroom, with or without memory pressure and an idle TTL:

* `TypeCorrect`, `SlotsSafe`, `BudgetSafe`, `RegistrySafe`, `AdmissionFair`, for
  `TypeOK`, `SlotsAccounted`, `BudgetHeld`, `RegistryHonest`, `AdmissionOrder`.
* with one slot, the Jetson's `gpu_concurrency` (`config.py`): `WorkerPresent`, for `WorkerThere`,
  and `OnlyTheReaper`, for `LostToReaper`: with the idle TTL that this profile sets, nothing
  but a reaper takes the model from under a call, and it takes only a unit past its
  TTL. With several slots an eviction does too, and both fail; neither is in a run.

`Inv` has three parts. `SlotInv` says that the queue holds each waiting thread
once and only threads at `queued`, which makes a hand-over an exchange of one member of
the set of slotted threads for another; `AdmissionFair` follows from it with the
fact that the heap's head exists and precedes all others (`FirstIsHead`: two
priorities, and the least of a nonempty set of places). `RegistryInv` says that the
resident set has no unit twice and that every child alive is in it, so that taking
a unit out takes out all of it; the budget follows since the cost of a subset is no
more. `IdleInv` is the types of the rest. The last two theorems rest on one lemma about a
step (`StepTakesNoModel`): with one slot every eviction, load and refusal is made by the one
call that holds it, so what is taken from a call was taken by a reaper. `Resident`, that
a torch call past its load has its child, follows, since a reaper takes llm units only. The
resident set and the queue lose elements by position (`RemoveAt`, `RemoveFirst`), since
nothing can be proved of `SelectSeq`, which is recursive.

`LibraryProofs` proves, for any sets of tabs, labels, paths and contents, any picks and
any bounds:

* `TypeCorrect`: `Spec => []TypeOK`, with it that no source dangles. `TypeInv` adds that
  the ids of both tables are bounded numbers (`IdSet`), from which an `INSERT` gets an id
  no row has (`NewIdIsNew`), and that a request at work has its file in hand.
* with the assumption `OneTab`, `OriginalsKept`: `SourcedHasOriginal`, through every
  overlap of the session with the deletions. `OriginalInv` is inductive: contents are
  unique (`Unique`); the photo being erased still has its row (`Chosen`), so that its
  content is never one that a session found unknown and is storing (`Storing`), and that
  one's file is there before its row; hence every row has its original but the
  one that is about to go (`Stored`).

* `HeldThroughTurns`: `HeldExactly`, for any number of tabs and any picks, several folders
  picked together included. `HeldInv` is inductive
  with `Turns`, which is what the property is conditional on: sessions and deletions take
  turns, nothing was killed and no path came under two labels. Then a session and a deletion are never at work
  together (`Apart`), and `Settled` says what each leaves for the other: a source's path is
  its folder's (`OwnPaths`); the files in a tab's hands are of its folder, and what it was
  told is known is (`SessionOK`); that a content that a folder was told it has
  is held by a source or about to be linked (`Agreed`); that no photo is without a source but
  those a deletion is about to erase (`Kept`); and how far the deletion has got (`Drained`).

`SlotsProofs` proves, for any users, photos, models, widths and overrides:

* `TypeCorrect`, for `TypeOK`; `Equipped` adds that whoever is about to use a key, a pixel
  size or a vector has one.
* `DoneShowsSelected`: `DoneIsSelected`. `Carried` is the worker's grip: until the
  photo is settled its row is not done, so its old vector may go first, and unless a switch
  crossed the work each statement finds what the one before it left. A switch resets
  every row that is done, and `ensure_vec_dim` drops vectors only with such a reset.
* with `OneUser`, `WidthKept`: `WidthFits`. `Foreseen` says that what the preview decided
  about the rebuild is still so at the commit. Two users refute it, as section 2 tells.
* `SlotServed`: `ServesSlot`. `Handover` says of any number of applies under way that, outside
  the two windows, whoever is about to register holds the slot's key, and that what is wrong
  is about to be put right: a unit of another model by an apply under way, a child of
  another model by one that has yet to clear the table.

`MemoriesProofs` proves, for any number of photos, builders, folders, rebuilds, deletions and
restarts:

* `TypeCorrect`, for `TypeOK`. `TypeInv` types the build's locals; that an uploaded photo
  gets a row no other has rests on the ids being numbers from one up (`NewRowIsNew`).
* `NoneLingers`: `NoOrphanCard`. No build keeps an empty memory (`KeptFull`), so a swap
  leaves none, and a deletion passes through its prune before it is over (`OrphanInv`).
* `IndexKept`: `IndexInStep`. `InStep` says of each group id what its index row may be at each
  point of a deletion: the present story; nothing, for an emptied memory between the two
  statements of the prune; nothing for either after a crash in between.
* `StoryIsOfItsPhotos`: `TellsItsPhotos`. `BuildTold` carries the same over the build: the
  candidate at work, what was told of it, and what is kept, each up to the rows that were
  given again since, which is what `reused` counts. A photo that is gone by the time of
  the swap makes the swap fail, so no stored memory is of a photo that nobody was told of.
* `StaysAreWhole`: `SeedsSound`, about the result of a loop that carries the cell of the last photo it
  could locate. The value carried has a closed form, the cell of the latest located photo
  so far; that form satisfies the recursion, and a least photo at which the two differ
  cannot exist. Places in the order of the photos are a bijection, a cut is
  exactly a missing link between neighbours, and a run is what lies between two cuts.

`ChatProofs` proves, for any questions, photos, texts, toggles and bounds:

* `MessageStored`: `OneMessageATurn`. `LogInv` says at which points of the handler a message of
  this turn can exist: at none of those before the answer (`Unanswered`), and where a card
  or a failure follows one, that one has no sources (`ThisTurn`).
* `OnlyOnPurpose`: `WokenOnPurpose`. A search that the routing or the loop is about to make
  was asked for (`asked`), and no turn starts with the model of the one before (`WakeInv`).
* `PromptHeld`: the ids that the filter lets through were found by this turn's searches or are
  named by the question or by the worked example (`PromptOfThisTurn`).
* `FilteredAsAWhole`: `FilterExact`. `StreamInv` is stronger than the property in the one way that
  makes it inductive: not only is what went out right for the text so far, it stays right
  *whatever text follows* (`Committed`), and what is held is the end of the text (`HeldOf`). A
  step of `feed` keeps this by `FilterClean`: to clean a text that goes on is to run the loop
  of `feed` on the text, and to clean what it held with what follows. Its proof is a least
  counterexample from the end of the text, by the three ways the loop stops
  (`StoppedClean`) and one pass of it (`PassClean`). A citation that is only completed by
  what follows begins in what the regular expression of the partial match finds (`LateCites`).
* `OnlyFoundCited`: `CitesFound`, from `PromptHeld`, `StreamInv` and `CleanGiven`: cleaning
  creates no citation, neither by joining what was around a removed one nor within one kept.

`BrowseProofs` proves, for any finite library, labels, profiles and page size:

* `ScrolledThrough`: `NothingSkipped`. Under `GridInv` the grid has every photo of the first
  page's library whose place in the present order is before the grid's end; arrivals
  only move places back, so the next `OFFSET` repeats tiles and skips none. It rests on
  `OrderedIds` giving each photo the place that its newer ones leave it.
* `ClickedIsExplained`: `ShownStillOpens`. While nothing left and no label changed, a photo of the
  strip that was shown is in the present strip or pushed out of it: what is missing is no
  evidence against it, so its score does not fall, and it is a candidate as long as fewer
  than `NEAREST` photos are nearer.
* `PanelIsTheRanking`: the action property `PanelExplains`. `PanelAgrees` is the algebra: the
  panel does without the scan's limit on time and without the gates on recall, and the
  strength of what they exclude is zero. It needs the assumption on profiles: the
  limit on time excludes nothing that clears the strict gate.
* `NumbersAreRight`: `GatesHold`. `Combine` folds over the signals; it is monotone by a smallest
  set of signals on which it would not be. A looser gate keeps what a strict one keeps;
  and a pair that only shares a moment scores at most 350, below the strict floor of 450, and
  at least 175, above the loose one of 120. That a photo is embedded before it is tagged
  (`Staged`) is an invariant of the library.
* `OnlyPushedOut`: `LostToCloser`, for a library of any size and any cuts: a change that only adds
  readings takes a match away only where as many photos with vectors are now closer as a query
  looks at.

Sorted sequences and sequences of selected elements are declared recursive in the library,
and nothing can be shown of them by the provers at hand; this is why rankings are functions
by place and candidates sets. The recursive functions of the models (`LastCells`, `Filter`,
`Clean`) and the fold `Combine` are within reach: the library's well-founded orders give a
least counterexample (`WFMin`), which stands for an induction. That such a function has a value
at all is shown with `PassExists` and its like.

Only model-checked:

* the liveness properties (`ThumbnailsRegardless`, `QueueDrains`, `CaptionGetsVector`,
  `InteractiveServed`, `OutboxSettles`, `SlotsConverge`, `BuildEnds`, `TurnEnds`), since fairness
  and ENABLED are beyond the prover.

`SourcedHasOriginal` with two tabs, `WidthFits` with two users and the queue's properties with
two drainers are neither checked nor proved: they fail there, as section 2 tells.

## 5. Not modelled

* **Downloads** (`modelsvc/downloads.py`): a thread per source, and a file that is to appear
  when it is complete. One race is known by reading: the planner and the caption entry of
  one model share a weights file and not a download, so two threads write one `.part`; the
  first to finish renames what the other truncated and still writes
  (`modelsvc/downloads.py:39-52`), and a failure of the second leaves a torn file
  that is reported ready.
* **Text search and the query planner** (`search/planner.py`, `rerank.py`, `fusion.py`): a
  string to filters and a ranked list, in one request and on data it does not change.
  `agent_retrieve`, `chat/retrieve.py` and the reranker are not called by the application.
* **Metadata extraction, albums, prompts, rendering, scripts**: shaping of data
  without state or an order of steps.
* **HTTP clients and the service's HTTP surface** appear as "the models service answers or
  it does not", **hardware read-outs** as the poll of `Slots`, **configuration** as the
  constants of the modules.
* Inside the modelled parts: what each section names as left out.
