------------------------------- MODULE Ingest -------------------------------
(***************************************************************************)
(* The ingest pipeline: uploads queue five stages per photo, and drainers  *)
(* run passes over the queue (ingest/pipeline.py `drain_pass`,             *)
(* ingest/worker.py `drain`, the stage handlers, ingest/cli.py `main`,     *)
(* web/app.py `drain_now` and the reprocess endpoints).                    *)
(*                                                                         *)
(* A drainer is a thread running passes: the `worker` process, which polls *)
(* for ever and requeues running jobs when it starts, or a request of the  *)
(* app whose upload just finished (`inline_drain`).  Each action is one    *)
(* statement of the program that another process can observe.              *)
(***************************************************************************)
EXTENDS Jobs, FiniteSets

CONSTANTS
    Drainers,     \* every thread that may run a pass
    Workers,      \* those that are worker processes; the rest drain inline
    Broken,       \* photos whose bytes pass the upload check but never decode
    Texts,        \* the captions the model may write
    Blank,        \* the empty caption (it may or may not be in Texts)
    NoText,       \* a NULL caption or caption_vec
    Ranges,       \* the stage ranges users ask to reprocess (any is accepted)
    BatchLimit,   \* LIMIT of the caption-vector batch
    MaxFaults,    \* bound: transient handler errors
    MaxCrashes,   \* bound: process kills
    MaxResets,    \* bound: reprocess requests
    MaxFlips,     \* bound: the models service going away or coming back
    MaxLockouts   \* bound: queue statements that fail (a locked or full database)

ASSUME IngestAssumption ==
    /\ Workers \subseteq Drainers
    /\ Broken \subseteq Photos
    /\ NoText \notin Texts
    /\ Ranges \subseteq Stages \X Stages
    /\ BatchLimit \in Nat \ {0}
    /\ MaxFaults \in Nat /\ MaxCrashes \in Nat /\ MaxResets \in Nat
    /\ MaxFlips \in Nat /\ MaxLockouts \in Nat

VARIABLES
    job,       \* the jobs table
    library,   \* ids with a photos row
    owed,      \* owed[p]: enqueues the upload request of p has still to run
    thumbs,    \* photos with a thumb_key
    vectors,   \* photos with a row in photo_vec
    stamped,   \* photos with an embedding_model
    tags,      \* tags[p]: "none", "pixel" (no image vector was there) or "full"
    text,      \* text[p]: the caption
    capvec,    \* capvec[p]: the caption whose embedding caption_vec holds
    at,        \* at[d]: where drainer d is in its pass
    stage,     \* stage[d]: the stage it drains
    held,      \* held[d]: the photo its SELECT returned
    tried,     \* tried[d]: photos already attempted in this stage of the pass
    batch,     \* batch[d]: captions read for embedding, not yet written back
    backend,   \* whether the models service answers
    sweep,     \* keys a library-wide reprocess has still to reset
    faults, crashes, resets, flips, lockouts

queue   == <<job, library, owed, sweep>>
derived == <<thumbs, vectors, stamped, tags, text, capvec>>
run     == <<at, stage, held, tried, batch>>
budget  == <<faults, crashes, resets, flips, lockouts>>
vars    == <<queue, derived, run, backend, budget>>

\* Between the claim of a job and its status update.
Holding == {"work", "erased", "full", "pixel", "note", "settle"}
Points == Holding \union {"down", "rest", "select", "claim",
                         "captions", "vectors", "embed", "write", "mark"}
MaybeText == Texts \union {NoText}

\* What a drainer's local holds outside the statements that use it.
Anyone == CHOOSE p \in Photos : TRUE
Empty  == [p \in Photos |-> NoText]

Init ==
    /\ job = EmptyTable
    /\ library = {}
    /\ owed = [p \in Photos |-> 0]
    /\ thumbs = {} /\ vectors = {} /\ stamped = {}
    /\ tags = [p \in Photos |-> "none"]
    /\ text = [p \in Photos |-> NoText]
    /\ capvec = [p \in Photos |-> NoText]
    /\ at = [d \in Drainers |-> IF d \in Workers THEN "down" ELSE "rest"]
    /\ stage = [d \in Drainers |-> "thumbnail"]
    /\ held = [d \in Drainers |-> Anyone]
    /\ tried = [d \in Drainers |-> {}]
    /\ batch = [d \in Drainers |-> Empty]
    /\ backend \in BOOLEAN
    /\ sweep = {}
    /\ faults = 0 /\ crashes = 0 /\ resets = 0 /\ flips = 0 /\ lockouts = 0

-----------------------------------------------------------------------------
(* The app: receiving an upload, and the reprocess endpoints.              *)

\* receive(): the photos row; the enqueues are statements of their own.
InsertPhoto(p) ==
    /\ p \notin library
    /\ library' = library \union {p}
    /\ owed' = [owed EXCEPT ![p] = 5]
    /\ UNCHANGED <<job, sweep, derived, run, backend, budget>>

EnqueueNext(p) ==
    /\ owed[p] > 0
    /\ job' = Enqueue(job, {<<p, StageOrder[6 - owed[p]]>>})
    /\ owed' = [owed EXCEPT ![p] = @ - 1]
    /\ UNCHANGED <<library, sweep, derived, run, backend, budget>>

\* POST /photo/{id}/reprocess: one model-derived stage of one photo.
ReprocessOne(p, s) ==
    /\ resets < MaxResets
    /\ p \in library
    /\ s \in {"taxonomy", "caption"}
    /\ job' = Reset(Enqueue(job, {<<p, s>>}), {<<p, s>>})
    /\ resets' = resets + 1
    /\ UNCHANGED <<library, owed, sweep, derived, run, backend, faults, crashes, flips, lockouts>>

\* POST /reprocess: rows are created first, then each stage is one UPDATE.
Reprocess(from, to) ==
    /\ resets < MaxResets
    /\ sweep = {}
    /\ library # {}
    /\ job' = Enqueue(job, library \X StageRange(from, to))
    /\ sweep' = library \X StageRange(from, to)
    /\ resets' = resets + 1
    /\ UNCHANGED <<library, owed, derived, run, backend, faults, crashes, flips, lockouts>>

ResetStage(s) ==
    LET K == {k \in sweep : k[2] = s}
    IN  /\ K # {}
        /\ \A k \in sweep : s \in StageRange("thumbnail", k[2])
        /\ job' = Reset(job, K)
        /\ sweep' = sweep \ K
        /\ UNCHANGED <<library, owed, derived, run, backend, budget>>

-----------------------------------------------------------------------------
(* A pass.                                                                 *)

Goto(d, point) == at' = [at EXCEPT ![d] = point]

\* Start draining stage s: a fresh set of attempted photos.
Enter(d, s) ==
    /\ Goto(d, "select")
    /\ stage' = [stage EXCEPT ![d] = s]
    /\ tried' = [tried EXCEPT ![d] = {}]

\* Go on without draining: the locals of the last stage are gone.
Leave(d, point) ==
    /\ Goto(d, point)
    /\ stage' = [stage EXCEPT ![d] = "thumbnail"]
    /\ tried' = [tried EXCEPT ![d] = {}]

\* Let go of the photo in hand.
Release(d) == held' = [held EXCEPT ![d] = Anyone]

Candidates(d) == Pending(job, stage[d]) \ tried[d]
Lowest(p, S) == p \in S /\ \A q \in S : p <= q

\* Bug variant of BeginPass: a pass that only drains, with no thumbnail backfill.
BeginPassWithoutBackfill(d) ==
    /\ at[d] = "rest"
    /\ d \in Workers \/ library # {}
    /\ Enter(d, "thumbnail")
    /\ UNCHANGED <<queue, derived, held, batch, backend, budget>>

\* The worker's poll, or an upload that finished: the pass begins by queueing
\* a thumbnail for every photo that has none.
BeginPass(d) ==
    /\ at[d] = "rest"
    /\ d \in Workers \/ library # {}
    /\ job' = Enqueue(job, {<<p, "thumbnail">> : p \in library \ thumbs})
    /\ Enter(d, "thumbnail")
    /\ UNCHANGED <<library, owed, sweep, derived, held, batch, backend, budget>>

Select(d) ==
    /\ at[d] = "select"
    /\ \E p \in Candidates(d) :
        /\ Lowest(p, Candidates(d))
        /\ held' = [held EXCEPT ![d] = p]
    /\ Goto(d, "claim")
    /\ UNCHANGED <<queue, derived, stage, tried, batch, backend, budget>>

ClaimHeld(d) ==
    /\ at[d] = "claim"
    /\ job' = Claim(job, held[d], stage[d])
    /\ tried' = [tried EXCEPT ![d] = @ \union {held[d]}]
    /\ Goto(d, "work")
    /\ UNCHANGED <<library, owed, sweep, derived, stage, held, batch, backend, budget>>

CompleteHeld(d) ==
    /\ at[d] = "settle"
    /\ job' = Complete(job, held[d], stage[d])
    /\ Goto(d, "select") /\ Release(d)
    /\ UNCHANGED <<library, owed, sweep, derived, stage, tried, batch, backend, budget>>

FailHeld(d) ==
    /\ job' = Fail(job, held[d], stage[d])
    /\ Goto(d, "select") /\ Release(d)
    /\ UNCHANGED <<library, owed, sweep, derived, stage, tried, batch, backend, crashes, resets, flips, lockouts>>

\* Bug variant of HandlerFails: the handler logs the error and returns.
HandlerSwallows(d) ==
    /\ at[d] = "work"
    /\ \/ stage[d] \in {"thumbnail", "embed"} /\ held[d] \in Broken
       \/ stage[d] = "embed" /\ ~backend
       \/ stage[d] = "caption" /\ ~backend /\ held[d] \in thumbs
    /\ Goto(d, "settle")
    /\ UNCHANGED <<queue, derived, stage, held, tried, batch, backend, budget>>

\* The handler raises because of this photo, or because the service is away.
HandlerFails(d) ==
    /\ at[d] = "work"
    /\ \/ stage[d] \in {"thumbnail", "embed"} /\ held[d] \in Broken
       \/ stage[d] = "embed" /\ ~backend
       \/ stage[d] = "caption" /\ ~backend /\ held[d] \in thumbs
    /\ FailHeld(d)
    /\ UNCHANGED faults

\* Any other exception: a full disk, a locked database, a bad model answer.
HandlerFaults(d) ==
    /\ at[d] \in Holding \ {"settle"}
    /\ faults < MaxFaults
    /\ faults' = faults + 1
    /\ FailHeld(d)

-----------------------------------------------------------------------------
(* The stage handlers.                                                     *)

AtWork(d, s) == at[d] = "work" /\ stage[d] = s

ThumbnailWork(d) ==
    /\ AtWork(d, "thumbnail")
    /\ held[d] \notin Broken
    /\ thumbs' = thumbs \union {held[d]}
    /\ Goto(d, "settle")
    /\ UNCHANGED <<queue, vectors, stamped, tags, text, capvec, stage, held, tried, batch, backend, budget>>

\* write_vector is a DELETE and an INSERT; the embedding_model stamp follows.
EmbedErase(d) ==
    /\ AtWork(d, "embed")
    /\ backend
    /\ held[d] \notin Broken
    /\ vectors' = vectors \ {held[d]}
    /\ Goto(d, "erased")
    /\ UNCHANGED <<queue, thumbs, stamped, tags, text, capvec, stage, held, tried, batch, backend, budget>>

EmbedWork(d) ==
    /\ at[d] = "erased"
    /\ vectors' = vectors \union {held[d]}
    /\ Goto(d, "note")
    /\ UNCHANGED <<queue, thumbs, stamped, tags, text, capvec, stage, held, tried, batch, backend, budget>>

EmbedStamp(d) ==
    /\ at[d] = "note" /\ stage[d] = "embed"
    /\ stamped' = stamped \union {held[d]}
    /\ Goto(d, "settle")
    /\ UNCHANGED <<queue, thumbs, vectors, tags, text, capvec, stage, held, tried, batch, backend, budget>>

\* The image vector and the thumbnail are read, the old tags deleted, the new ones
\* inserted: without a vector only the pixel tags, without a thumbnail either no
\* tags at all, and no error raised.
TaxonomyClear(d) ==
    /\ AtWork(d, "taxonomy")
    /\ tags' = [tags EXCEPT ![held[d]] = "none"]
    /\ \/ held[d] \in vectors /\ Goto(d, "full")
       \/ held[d] \in thumbs \ vectors /\ Goto(d, "pixel")
       \/ held[d] \notin thumbs \union vectors /\ Goto(d, "settle")
    /\ UNCHANGED <<queue, thumbs, vectors, stamped, text, capvec, stage, held, tried, batch, backend, budget>>

TaxonomyWrite(d) ==
    /\ at[d] \in {"full", "pixel"}
    /\ tags' = [tags EXCEPT ![held[d]] = at[d]]
    /\ Goto(d, "settle")
    /\ UNCHANGED <<queue, thumbs, vectors, stamped, text, capvec, stage, held, tried, batch, backend, budget>>

\* No thumbnail: the handler returns, and drain marks the job done.
CaptionSkip(d) ==
    /\ AtWork(d, "caption")
    /\ held[d] \notin thumbs
    /\ Goto(d, "settle")
    /\ UNCHANGED <<queue, derived, stage, held, tried, batch, backend, budget>>

CaptionWork(d) ==
    /\ AtWork(d, "caption")
    /\ held[d] \in thumbs
    /\ backend
    /\ \E c \in Texts : text' = [text EXCEPT ![held[d]] = c]
    /\ Goto(d, "note")
    /\ UNCHANGED <<queue, thumbs, vectors, stamped, tags, capvec, stage, held, tried, batch, backend, budget>>

\* Bug variant of CaptionNote: the vector's job is queued but not reset.
CaptionNoteWithoutReset(d) ==
    /\ at[d] = "note" /\ stage[d] = "caption"
    /\ job' = Enqueue(job, {<<held[d], "caption_embed">>})
    /\ Goto(d, "settle")
    /\ UNCHANGED <<library, owed, sweep, derived, stage, held, tried, batch, backend, budget>>

\* reprocess_one(caption_embed): the new caption needs a new vector.
CaptionNote(d) ==
    /\ at[d] = "note" /\ stage[d] = "caption"
    /\ LET k == <<held[d], "caption_embed">> IN job' = Reset(Enqueue(job, {k}), {k})
    /\ Goto(d, "settle")
    /\ UNCHANGED <<library, owed, sweep, derived, stage, held, tried, batch, backend, budget>>

-----------------------------------------------------------------------------
(* From one stage of the pass to the next.                                 *)

Dry(d, s) == at[d] = "select" /\ stage[d] = s /\ Candidates(d) = {}

\* Group 2a.  The taxonomy handler embeds its prompts when it is built, so a
\* backend that is away ends the pass here, before any claim.
ThumbnailsDry(d) ==
    /\ Dry(d, "thumbnail")
    /\ job' = Enqueue(job, {<<p, "embed">> : p \in library \ stamped}
                           \union {<<p, "taxonomy">> : p \in stamped})
    /\ LET work == \E s \in {"embed", "taxonomy"} :
                       \E p \in Photos : job'[<<p, s>>].st = "pending"
       IN  \/ work /\ backend /\ Enter(d, "embed")
           \/ work /\ ~backend /\ Leave(d, "rest")
           \/ ~work /\ Leave(d, "captions")
    /\ UNCHANGED <<library, owed, sweep, derived, held, batch, backend, budget>>

EmbedsDry(d) ==
    /\ Dry(d, "embed")
    /\ Enter(d, "taxonomy")
    /\ UNCHANGED <<queue, derived, held, batch, backend, budget>>

TaxonomyDry(d) ==
    /\ Dry(d, "taxonomy")
    /\ Leave(d, "captions")
    /\ UNCHANGED <<queue, derived, held, batch, backend, budget>>

\* Bug variant of EnterCaptions: nothing to caption ends the pass.
EnterCaptionsOrEnd(d) ==
    /\ at[d] = "captions"
    /\ job' = Enqueue(job, {<<p, "caption">> : p \in {q \in thumbs : text[q] = NoText}})
    /\ \/ Pending(job', "caption") # {} /\ Enter(d, "caption")
       \/ Pending(job', "caption") = {} /\ Leave(d, "rest")
    /\ UNCHANGED <<library, owed, sweep, derived, held, batch, backend, budget>>

\* Group 2b.
EnterCaptions(d) ==
    /\ at[d] = "captions"
    /\ job' = Enqueue(job, {<<p, "caption">> : p \in {q \in thumbs : text[q] = NoText}})
    /\ \/ Pending(job', "caption") # {} /\ Enter(d, "caption")
       \/ Pending(job', "caption") = {} /\ Leave(d, "vectors")
    /\ UNCHANGED <<library, owed, sweep, derived, held, batch, backend, budget>>

CaptionsDry(d) ==
    /\ Dry(d, "caption")
    /\ Leave(d, "vectors")
    /\ UNCHANGED <<queue, derived, held, batch, backend, budget>>

\* Group 2c: a batch of captions is read, embedded in one call, and written
\* back photo by photo.  The jobs stay pending while the batch is out.
Captioned == {p \in Photos : text[p] # NoText}

FirstFew(S) == {p \in S : Cardinality({q \in S : q < p}) < BatchLimit}

EnterVectors(d) ==
    /\ at[d] = "vectors"
    /\ LET vectored == {p \in Photos : capvec[p] # NoText}
           missing  == {p \in Captioned \union vectored : job[<<p, "caption_embed">>].st = "none"}
           queued   == Enqueue(job, (missing \ vectored) \X {"caption_embed"})
           read     == FirstFew(Pending(queued, "caption_embed") \intersect Captioned)
           rows     == {p \in read : text[p] # Blank}
       IN  /\ job' = RecordDone(queued, (missing \intersect vectored) \X {"caption_embed"})
           /\ batch' = [batch EXCEPT ![d] = [p \in Photos |-> IF p \in rows THEN text[p] ELSE NoText]]
           /\ Goto(d, IF rows = {} THEN "rest" ELSE "embed")
    /\ UNCHANGED <<library, owed, sweep, derived, stage, held, tried, backend, budget>>

Unwritten(d) == {p \in Photos : batch[d][p] # NoText}

\* Bug variant of EmbedBatch: the whole batch is marked before it is written.
EmbedBatchMarks(d) ==
    /\ at[d] = "embed"
    /\ job' = [k \in Keys |-> IF k \in Unwritten(d) \X {"caption_embed"}
                             THEN [job[k] EXCEPT !.st = "done"] ELSE job[k]]
    /\ Goto(d, "write")
    /\ UNCHANGED <<library, owed, sweep, derived, stage, held, tried, batch, backend, budget>>

EmbedBatch(d) ==
    /\ at[d] = "embed"
    /\ \/ backend /\ Goto(d, "write") /\ UNCHANGED batch
       \/ ~backend /\ Goto(d, "rest") /\ batch' = [batch EXCEPT ![d] = Empty]
    /\ UNCHANGED <<queue, derived, stage, held, tried, backend, budget>>

WriteVector(d) ==
    /\ at[d] = "write"
    /\ \E p \in Unwritten(d) :
        /\ Lowest(p, Unwritten(d))
        /\ held' = [held EXCEPT ![d] = p]
        /\ capvec' = [capvec EXCEPT ![p] = batch[d][p]]
    /\ Goto(d, "mark")
    /\ UNCHANGED <<queue, thumbs, vectors, stamped, tags, text, stage, tried, batch, backend, budget>>

MarkVector(d) ==
    /\ at[d] = "mark"
    /\ job' = Complete(job, held[d], "caption_embed")
    /\ batch' = [batch EXCEPT ![d][held[d]] = NoText]
    /\ Goto(d, IF Unwritten(d) \ {held[d]} = {} THEN "rest" ELSE "write") /\ Release(d)
    /\ UNCHANGED <<library, owed, sweep, derived, stage, tried, backend, budget>>

-----------------------------------------------------------------------------
(* Crashes, restarts and the models service.                               *)

\* The killed process forgets its pass; a batch is only in its memory.
Forget(D, point) ==
    /\ at' = [d \in Drainers |-> IF d \in D THEN point ELSE at[d]]
    /\ stage' = [d \in Drainers |-> IF d \in D THEN "thumbnail" ELSE stage[d]]
    /\ held' = [d \in Drainers |-> IF d \in D THEN Anyone ELSE held[d]]
    /\ tried' = [d \in Drainers |-> IF d \in D THEN {} ELSE tried[d]]
    /\ batch' = [d \in Drainers |-> IF d \in D THEN Empty ELSE batch[d]]

\* A statement of the queue itself raises.  Outside thumbnails the pass swallows
\* it and ends, and a claimed job stays running; in the thumbnail group it ends
\* the worker, and the inline drain of an upload.
QueueFails(d) ==
    /\ lockouts < MaxLockouts
    /\ at[d] \in Holding \union {"claim", "write", "mark"}
    /\ Forget({d}, IF at[d] \notin {"write", "mark"} /\ stage[d] = "thumbnail" /\ d \in Workers
                   THEN "down" ELSE "rest")
    /\ lockouts' = lockouts + 1
    /\ UNCHANGED <<queue, derived, backend, faults, crashes, resets, flips>>

WorkerCrash(d) ==
    /\ crashes < MaxCrashes
    /\ d \in Workers /\ at[d] # "down"
    /\ Forget({d}, "down")
    /\ crashes' = crashes + 1
    /\ UNCHANGED <<queue, derived, backend, faults, resets, flips, lockouts>>

\* Bug variant of WorkerStart: no requeue_stalled.
WorkerStartWithoutRequeue(d) ==
    /\ d \in Workers /\ at[d] = "down"
    /\ Goto(d, "rest")
    /\ UNCHANGED <<queue, derived, stage, held, tried, batch, backend, budget>>

\* main(): requeue_stalled, then the first pass.
WorkerStart(d) ==
    /\ d \in Workers /\ at[d] = "down"
    /\ job' = RequeueStalled(job)
    /\ Goto(d, "rest")
    /\ UNCHANGED <<library, owed, sweep, derived, stage, held, tried, batch, backend, budget>>

\* The app takes its requests with it: uploads, a sweep, the inline drains.
AppCrash ==
    /\ crashes < MaxCrashes
    /\ Forget(Drainers \ Workers, "rest")
    /\ owed' = [p \in Photos |-> 0]
    /\ sweep' = {}
    /\ crashes' = crashes + 1
    /\ UNCHANGED <<job, library, derived, backend, faults, resets, flips, lockouts>>

BackendFlips ==
    /\ flips < MaxFlips
    /\ backend' = ~backend
    /\ flips' = flips + 1
    /\ UNCHANGED <<queue, derived, run, faults, crashes, resets, lockouts>>

-----------------------------------------------------------------------------
Handler(d) ==
    \/ ThumbnailWork(d) \/ EmbedErase(d) \/ EmbedWork(d) \/ EmbedStamp(d)
    \/ TaxonomyClear(d) \/ TaxonomyWrite(d)
    \/ CaptionSkip(d) \/ CaptionWork(d) \/ CaptionNote(d)
    \/ HandlerFails(d) \/ HandlerFaults(d)

Pass(d) ==
    \/ BeginPass(d) \/ Select(d) \/ ClaimHeld(d) \/ CompleteHeld(d) \/ Handler(d)
    \/ ThumbnailsDry(d) \/ EmbedsDry(d) \/ TaxonomyDry(d)
    \/ EnterCaptions(d) \/ CaptionsDry(d)
    \/ EnterVectors(d) \/ EmbedBatch(d) \/ WriteVector(d) \/ MarkVector(d)

App ==
    \/ \E p \in Photos : InsertPhoto(p) \/ EnqueueNext(p)
    \/ \E p \in Photos, s \in Stages : ReprocessOne(p, s)
    \/ \E r \in Ranges : Reprocess(r[1], r[2])
    \/ \E s \in Stages : ResetStage(s)
    \/ AppCrash

Next ==
    \/ \E d \in Drainers : Pass(d) \/ QueueFails(d) \/ WorkerCrash(d) \/ WorkerStart(d)
    \/ App
    \/ BackendFlips

(* A worker that runs keeps polling, and a request that is under way keeps *)
(* running.  Nothing is assumed of users, faults, crashes, the models      *)
(* service, or whoever starts a worker that died.                          *)
Fairness ==
    /\ \A d \in Workers : WF_vars(Pass(d))
    /\ \A p \in Photos : WF_vars(EnqueueNext(p))
    /\ \A s \in Stages : WF_vars(ResetStage(s))

Spec == Init /\ [][Next]_vars /\ Fairness

-----------------------------------------------------------------------------
(* Properties.                                                             *)

Settled(p, s) == job[<<p, s>>].st \in {"done", "failed"}

\* Every variable stays in its domain.
TypeOK ==
    /\ job \in JobTable
    /\ library \subseteq Photos
    /\ owed \in [Photos -> 0..5]
    /\ thumbs \subseteq Photos /\ vectors \subseteq Photos /\ stamped \subseteq Photos
    /\ tags \in [Photos -> {"none", "pixel", "full"}]
    /\ text \in [Photos -> MaybeText] /\ capvec \in [Photos -> MaybeText]
    /\ at \in [Drainers -> Points]
    /\ stage \in [Drainers -> Stages]
    /\ held \in [Drainers -> Photos]
    /\ tried \in [Drainers -> SUBSET Photos]
    /\ batch \in [Drainers -> [Photos -> MaybeText]]
    /\ backend \in BOOLEAN
    /\ sweep \subseteq Keys
    /\ faults \in Nat /\ crashes \in Nat /\ resets \in Nat /\ flips \in Nat /\ lockouts \in Nat

\* A row that says "running" is in the hands of a drainer, or of one that was
\* killed and has not restarted yet: unless the queue's own statements fail, no
\* job is stranded (jobs.requeue_stalled).
RunningIsHeld ==
    lockouts = 0 =>
        \A p \in Photos, s \in Stages : job[<<p, s>>].st = "running" =>
            \E d \in Drainers :
                \/ at[d] = "down"
                \/ at[d] \in Holding /\ held[d] = p /\ stage[d] = s

\* A job that can still run has attempts left, and one is parked as failed by
\* its last attempt and by nothing less, through crashes, requeues and resets.
AttemptBudget ==
    \A k \in Keys :
        /\ job[k].st \in {"pending", "running"} => job[k].tries < MaxAttempts
        /\ job[k].st = "failed" => job[k].tries = MaxAttempts

\* What the handler of stage s leaves behind for photo p.
HasOutput(p, s) ==
    /\ s = "thumbnail" => p \in thumbs
    /\ s = "embed" => p \in vectors \intersect stamped
    /\ s = "taxonomy" => tags[p] # "none"
    /\ s = "caption" => text[p] # NoText
    /\ s = "caption_embed" => capvec[p] # NoText

\* The stages that end as done with nothing to show for a photo they find nothing
\* of: without a thumbnail no caption, without a vector either no tags.
MayFindNothing == {"taxonomy", "caption"}

\* A stage marked done has left its output behind, unless it is one that may find
\* nothing, wherever a crash or a concurrent reset fell between the handler's
\* write and the status update.
DoneHasOutput ==
    \A p \in Photos, s \in Stages \ MayFindNothing :
        job[<<p, s>>].st = "done" => HasOutput(p, s)

\* A caption vector that is marked done embeds the caption the photo has now:
\* a re-caption never leaves the old text's vector behind once it is over
\* (caption_handler's reset of caption_embed).
CaptionVectorFresh ==
    \A p \in Photos :
        /\ job[<<p, "caption_embed">>].st = "done"
        /\ job[<<p, "caption">>].st = "done"
        => capvec[p] = text[p]

\* A parked job moves again only because a user asked for a reprocess: the
\* backfills of every pass leave it alone (backfill_thumbnails).
ParkedStaysParked ==
    [][\A k \in Keys : job[k].st = "failed" /\ job'[k] # job[k]
           => resets' # resets \/ sweep' # sweep]_vars

\* The pipeline keeps the promise of the job table: every claim, crash, restart and
\* requeue, every handler's delete and write, is one of its steps or none at all
\* (ingest/jobs.py as docs/ingest-pipeline.md describes it).
State(k) ==
    IF job[k].st \in {"pending", "running"} THEN "owed"
    ELSE IF job[k].st = "failed" THEN "parked" ELSE job[k].st

Failures(k) == IF job[k].st \in {"none", "done"} THEN 0 ELSE job[k].tries

Promise == INSTANCE Backlog WITH
    Optional <- Photos \X MayFindNothing,
    state <- [k \in Keys |-> State(k)],
    tries <- [k \in Keys |-> Failures(k)],
    there <- {k \in Keys : HasOutput(k[1], k[2])}

KeepsPromise == Promise!Spec

\* Whoever runs the deployment starts a worker that died, sooner or later
\* ("Killing the container and restarting resumes exactly where it stopped",
\* docs/ingest-pipeline.md:11-12).
Attended == \A d \in Workers : []<>(at[d] # "down")

\* Where workers are started again, every received photo gets its thumbnail or is
\* parked, whatever the models service does, and even when the app died before it
\* queued the job.
ThumbnailsRegardless ==
    Attended => \A p \in Photos : p \in library ~> Settled(p, "thumbnail")

\* Where workers are started again and while the models service answers, the queue
\* keeps running dry: no job waits for ever behind the others, though a caption
\* vector waits for its caption.
QueueDrains ==
    Attended =>
    []<>(\/ ~backend
         \/ \A p \in Photos, s \in Stages :
                job[<<p, s>>].st = "pending" => s = "caption_embed" /\ text[p] \in {NoText, Blank})

\* Where workers are started again, a caption with words in it is embedded sooner or
\* later, whatever a crash cuts short between reading a batch, embedding it and
\* marking it done. (Where no caption is blank: blank ones fill the batch,
\* backfill_caption_vectors.)
CaptionGetsVector ==
    Attended => \A p \in Photos : text[p] \notin {NoText, Blank} ~> capvec[p] # NoText
=============================================================================
