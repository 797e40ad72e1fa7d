---------------------------- MODULE IngestProofs ----------------------------
(***************************************************************************)
(* What holds of the ingest pipeline for any library, any number of        *)
(* drainers, any captions and any bounds.                                  *)
(***************************************************************************)
EXTENDS Ingest, TLAPS

-----------------------------------------------------------------------------
(* The statements on the job table keep it a job table.                    *)

\* INSERT ... ON CONFLICT DO NOTHING (jobs.enqueue).
LEMMA EnqueueType ==
    ASSUME NEW J \in JobTable, NEW K
    PROVE  Enqueue(J, K) \in JobTable
BY DEF Enqueue, JobTable, Fresh, Statuses

\* UPDATE status (jobs.claim_next, jobs.complete).
LEMMA SetStatusType ==
    ASSUME NEW J \in JobTable, NEW p \in Photos, NEW s \in Stages, NEW st \in Statuses
    PROVE  SetStatus(J, p, s, st) \in JobTable
BY DEF SetStatus, JobTable, Keys

\* A job row for work already done (jobs.record_done_at).
LEMMA RecordDoneType ==
    ASSUME NEW J \in JobTable, NEW K
    PROVE  RecordDone(J, K) \in JobTable
BY DEF RecordDone, JobTable, Statuses

\* A failed attempt (jobs.fail).
LEMMA FailType ==
    ASSUME NEW J \in JobTable, NEW p \in Photos, NEW s \in Stages
    PROVE  Fail(J, p, s) \in JobTable
BY DEF Fail, JobTable, Keys, Statuses

\* A reprocess (jobs.reprocess, jobs.reprocess_one).
LEMMA ResetType ==
    ASSUME NEW J \in JobTable, NEW K
    PROVE  Reset(J, K) \in JobTable
BY DEF Reset, JobTable, Fresh, Statuses

\* The worker's first statement (jobs.requeue_stalled).
LEMMA RequeueStalledType ==
    ASSUME NEW J \in JobTable
    PROVE  RequeueStalled(J) \in JobTable
BY DEF RequeueStalled, JobTable, Statuses

\* The photo a drainer's locals are reset to is a photo.
LEMMA AnyoneType == Anyone \in Photos
BY JobsAssumption DEF Anyone

-----------------------------------------------------------------------------
(* Type correctness.                                                       *)

\* The initial states are well typed.
LEMMA InitTypeOK == Init => TypeOK
BY AnyoneType DEF Init, TypeOK, EmptyTable, JobTable, Absent, Statuses, Points, Holding,
                  Stages, MaybeText, Empty

\* The app's requests keep the types.
LEMMA AppTypeOK == TypeOK /\ App => TypeOK'
<1> SUFFICES ASSUME TypeOK, App PROVE TypeOK'
    OBVIOUS
<1>1. ASSUME NEW p \in Photos, InsertPhoto(p) PROVE TypeOK'
    BY <1>1 DEF InsertPhoto, TypeOK, derived, run, budget
<1>2. ASSUME NEW p \in Photos, EnqueueNext(p) PROVE TypeOK'
    BY <1>2, EnqueueType DEF EnqueueNext, TypeOK, derived, run, budget
<1>3. ASSUME NEW p \in Photos, NEW s \in Stages, ReprocessOne(p, s) PROVE TypeOK'
    BY <1>3, EnqueueType, ResetType DEF ReprocessOne, TypeOK, derived, run
<1>4. ASSUME NEW r \in Ranges, Reprocess(r[1], r[2]) PROVE TypeOK'
    BY <1>4, EnqueueType DEF Reprocess, StageRange, Keys, TypeOK, derived, run
<1>5. ASSUME NEW s \in Stages, ResetStage(s) PROVE TypeOK'
    BY <1>5, ResetType DEF ResetStage, TypeOK, derived, run, budget
<1>6. ASSUME AppCrash PROVE TypeOK'
    BY <1>6, AnyoneType DEF AppCrash, Forget, TypeOK, derived, Points, Holding, Stages, Empty, MaybeText
<1>7. QED
    BY <1>1, <1>2, <1>3, <1>4, <1>5, <1>6 DEF App

\* So do the steps of a pass that do not run a handler.
LEMMA PassTypeOK ==
    ASSUME NEW d \in Drainers, TypeOK, Pass(d), ~Handler(d)
    PROVE  TypeOK'
<1> USE DEF TypeOK, Goto, Enter, Leave, Release, Points, Holding, Stages
<1>1. CASE BeginPass(d)
    BY <1>1, EnqueueType DEF BeginPass, derived, budget
<1>2. CASE Select(d)
    BY <1>2 DEF Select, queue, derived, budget, Candidates, Pending
<1>3. CASE ClaimHeld(d)
    BY <1>3, SetStatusType DEF ClaimHeld, Claim, Statuses, derived, budget
<1>4. CASE CompleteHeld(d)
    BY <1>4, SetStatusType, AnyoneType DEF CompleteHeld, Complete, Statuses, derived, budget
<1>5. CASE ThumbnailsDry(d)
    BY <1>5, EnqueueType DEF ThumbnailsDry, derived, budget
<1>6. CASE EmbedsDry(d) \/ TaxonomyDry(d) \/ CaptionsDry(d)
    BY <1>6 DEF EmbedsDry, TaxonomyDry, CaptionsDry, queue, derived, budget
<1>7. CASE EnterCaptions(d)
    BY <1>7, EnqueueType DEF EnterCaptions, derived, budget
<1>8. CASE EnterVectors(d)
    <2>1. job' \in JobTable
        BY <1>8, EnqueueType, RecordDoneType DEF EnterVectors
    <2>2. batch' \in [Drainers -> [Photos -> MaybeText]]
        BY <1>8 DEF EnterVectors, MaybeText
    <2>3. at' \in [Drainers -> Points]
        BY <1>8 DEF EnterVectors
    <2>4. QED
        BY <1>8, <2>1, <2>2, <2>3 DEF EnterVectors, derived, budget
<1>9. CASE EmbedBatch(d)
    <2>1. batch' \in [Drainers -> [Photos -> MaybeText]]
        BY <1>9 DEF EmbedBatch, Empty, MaybeText
    <2>2. QED
        BY <1>9, <2>1 DEF EmbedBatch, queue, derived, budget
<1>10. CASE WriteVector(d)
    BY <1>10 DEF WriteVector, Unwritten, queue, derived, budget
<1>11. CASE MarkVector(d)
    BY <1>11, SetStatusType, AnyoneType
       DEF MarkVector, Complete, Statuses, MaybeText, derived, budget
<1>12. QED
    BY <1>1, <1>2, <1>3, <1>4, <1>5, <1>6, <1>7, <1>8, <1>9, <1>10, <1>11 DEF Pass

\* And the handlers, whether they return or raise.
LEMMA HandlerTypeOK ==
    ASSUME NEW d \in Drainers, TypeOK, Handler(d)
    PROVE  TypeOK'
<1> USE DEF TypeOK, Goto, Release, Points, Holding, Stages
<1>1. CASE ThumbnailWork(d)
    BY <1>1 DEF ThumbnailWork, queue, budget
<1>2. CASE EmbedErase(d) \/ EmbedWork(d) \/ EmbedStamp(d)
    <2>0. CASE EmbedErase(d)
        BY <2>0 DEF EmbedErase, queue, budget
    <2>1. CASE EmbedWork(d)
        BY <2>1 DEF EmbedWork, queue, budget
    <2>2. CASE EmbedStamp(d)
        BY <2>2 DEF EmbedStamp, queue, budget
    <2>3. QED
        BY <1>2, <2>0, <2>1, <2>2
<1>3. CASE TaxonomyClear(d) \/ TaxonomyWrite(d)
    BY <1>3 DEF TaxonomyClear, TaxonomyWrite, queue, budget
<1>4. CASE CaptionSkip(d)
    BY <1>4 DEF CaptionSkip, queue, derived, budget
<1>5. CASE CaptionWork(d)
    BY <1>5 DEF CaptionWork, MaybeText, queue, budget
<1>6. CASE CaptionNote(d)
    BY <1>6, EnqueueType, ResetType DEF CaptionNote, derived, budget
<1>7. CASE HandlerFails(d) \/ HandlerFaults(d)
    <2>1. FailHeld(d) /\ faults' \in Nat
        BY <1>7 DEF HandlerFails, HandlerFaults
    <2>2. QED
        BY <2>1, FailType, AnyoneType DEF FailHeld, derived
<1>8. QED
    BY <1>1, <1>2, <1>3, <1>4, <1>5, <1>6, <1>7 DEF Handler

\* Every step keeps the types.
LEMMA NextTypeOK == TypeOK /\ [Next]_vars => TypeOK'
<1> SUFFICES ASSUME TypeOK, [Next]_vars PROVE TypeOK'
    OBVIOUS
<1>1. ASSUME NEW d \in Drainers, Pass(d) PROVE TypeOK'
    BY <1>1, PassTypeOK, HandlerTypeOK
<1>2. ASSUME NEW d \in Drainers, QueueFails(d) \/ WorkerCrash(d) PROVE TypeOK'
    <2>1. PICK point \in Points : Forget({d}, point)
        BY <1>2 DEF QueueFails, WorkerCrash, Points
    <2>2. /\ at' \in [Drainers -> Points] /\ stage' \in [Drainers -> Stages]
          /\ held' \in [Drainers -> Photos] /\ tried' \in [Drainers -> SUBSET Photos]
          /\ batch' \in [Drainers -> [Photos -> MaybeText]]
        BY <2>1, AnyoneType DEF Forget, TypeOK, Stages, Empty, MaybeText
    <2>3. QED
        BY <1>2, <2>2 DEF QueueFails, WorkerCrash, TypeOK, queue, derived
<1>3. ASSUME NEW d \in Drainers, WorkerStart(d) PROVE TypeOK'
    BY <1>3, RequeueStalledType DEF WorkerStart, Goto, TypeOK, derived, budget, Points, Holding
<1>4. CASE App
    BY <1>4, AppTypeOK
<1>5. CASE BackendFlips
    BY <1>5 DEF BackendFlips, TypeOK, queue, derived, run
<1>6. CASE UNCHANGED vars
    BY <1>6 DEF vars, queue, derived, run, budget, TypeOK
<1>7. QED
    BY <1>1, <1>2, <1>3, <1>4, <1>5, <1>6 DEF Next

\* Every variable stays in its domain, for any deployment.
THEOREM TypeCorrect == Spec => []TypeOK
BY InitTypeOK, NextTypeOK, PTL DEF Spec

-----------------------------------------------------------------------------
(* One worker and no inline drain: the deployment compose.yaml runs.  Only  *)
(* then does the queue keep its books: a worker that starts beside a second *)
(* drainer takes the jobs that one is running for orphans.                  *)

SoleWorker == Drainers = Workers /\ \A d, e \in Drainers : d = e

\* Drainer d is where it was, with the photo it had.
Still(d) == at'[d] = at[d] /\ held'[d] = held[d] /\ stage'[d] = stage[d]

\* AttemptBudget, row by row.
RowOK(row) ==
    /\ row.st \in {"pending", "running"} => row.tries < MaxAttempts
    /\ row.st = "failed" => row.tries = MaxAttempts

\* A row in order that nobody is working on.
IdleRow(k) == RowOK(job[k]) /\ (lockouts = 0 => job[k].st # "running")

\* What drainer d knows of the job it works on: still pending when it claims
\* it, and then running, or pending again because a user asked for it anew.
Grip(d) ==
    /\ at[d] = "claim" => job[<<held[d], stage[d]>>].st = "pending"
    /\ at[d] \in Holding => job[<<held[d], stage[d]>>].st \in {"pending", "running"}
    /\ at[d] \in Holding \union {"select", "claim"} => stage[d] # "caption_embed"

\* The batched stage is not claimed and cannot fail.
BatchedStage == \A p \in Photos : job[<<p, "caption_embed">>].st \notin {"running", "failed"}

\* RunningIsHeld and AttemptBudget are inductive only together with the grip.
BookInv ==
    /\ TypeOK
    /\ AttemptBudget
    /\ RunningIsHeld
    /\ BatchedStage
    /\ \A d \in Drainers : Grip(d)

\* What one step of ParkedStaysParked says.
Parked ==
    \A k \in Keys : job[k].st = "failed" /\ job'[k] # job[k]
        => resets' # resets \/ sweep' # sweep

\* The rows a step of the app, a backfill or a re-caption may change: a missing
\* or reset row is fresh.
Renews == \A k \in Keys : job'[k] \in {job[k], Fresh}

\* A backfill does not touch a parked row.
SparesParked == \A k \in Keys : job[k].st = "failed" => job'[k] = job[k]

\* Enqueue and Reset only renew, and Enqueue renews nothing that is parked.
LEMMA RenewTable ==
    ASSUME TypeOK
    PROVE  /\ job' = job => Renews /\ SparesParked
           /\ \A K : job' = Enqueue(job, K) => Renews /\ SparesParked
           /\ \A K : job' = Reset(job, K) => Renews
           /\ \A K, L : job' = Reset(Enqueue(job, K), L) => Renews
<1>1. job \in JobTable
    BY DEF TypeOK
<1>2. job' = job => Renews /\ SparesParked
    BY DEF Renews, SparesParked
<1>3. ASSUME NEW K, job' = Enqueue(job, K) PROVE Renews /\ SparesParked
    BY <1>1, <1>3 DEF Enqueue, Renews, SparesParked, JobTable
<1>4. ASSUME NEW K, job' = Reset(job, K) PROVE Renews
    BY <1>1, <1>4 DEF Reset, Renews, JobTable
<1>5. ASSUME NEW K, NEW L, job' = Reset(Enqueue(job, K), L) PROVE Renews
    BY <1>1, <1>5 DEF Reset, Enqueue, Renews, JobTable
<1>6. QED
    BY <1>2, <1>3, <1>4, <1>5

\* Renewed rows break nothing while the drainers stand still.
LEMMA RenewStill ==
    ASSUME BookInv, Renews, lockouts' = lockouts, \A d \in Drainers : Still(d)
    PROVE  /\ AttemptBudget' /\ RunningIsHeld' /\ BatchedStage'
           /\ \A d \in Drainers : Grip(d)'
<1>1. /\ Fresh.st = "pending" /\ Fresh.tries = 0 /\ 0 < MaxAttempts
      /\ \A p \in Photos, s \in Stages : <<p, s>> \in Keys
    BY JobsAssumption DEF Fresh, Keys
<1>2. AttemptBudget'
    BY <1>1 DEF BookInv, AttemptBudget, Renews
<1>3. RunningIsHeld'
    BY <1>1 DEF BookInv, RunningIsHeld, Renews, Still
<1>4. BatchedStage'
    BY <1>1 DEF BookInv, BatchedStage, Renews, Stages
<1>5. ASSUME NEW d \in Drainers PROVE Grip(d)'
    BY <1>1 DEF BookInv, TypeOK, Grip, Holding, Renews, Still
<1>6. QED
    BY <1>2, <1>3, <1>4, <1>5

\* Between jobs no row says running, and a drainer that stays between jobs
\* keeps the books as long as the rows it leaves are in order.
LEMMA BetweenJobs ==
    ASSUME SoleWorker, BookInv, NEW d \in Drainers,
           at'[d] \notin Holding \union {"claim"},
           at'[d] = "select" => stage'[d] # "caption_embed",
           \A k \in Keys : IdleRow(k)',
           BatchedStage'
    PROVE  /\ AttemptBudget' /\ RunningIsHeld' /\ BatchedStage'
           /\ \A e \in Drainers : Grip(e)'
<1>1. AttemptBudget'
    BY DEF AttemptBudget, RowOK, IdleRow
<1>2. RunningIsHeld'
    BY DEF RunningIsHeld, Keys, IdleRow
<1>3. ASSUME NEW e \in Drainers PROVE Grip(e)'
    <2>1. e = d
        BY DEF SoleWorker
    <2>2. QED
        BY <2>1 DEF Grip, Holding
<1>4. QED
    BY <1>1, <1>2, <1>3

\* With one worker, a running row is the one in its hands.
LEMMA NoneRunning ==
    ASSUME SoleWorker, BookInv, lockouts = 0, NEW d \in Drainers, at[d] # "down",
           NEW k \in Keys, job[k].st = "running"
    PROVE  at[d] \in Holding /\ k = <<held[d], stage[d]>>
<1>1. PICK p \in Photos, s \in Stages : k = <<p, s>>
    BY DEF Keys
<1>2. job[<<p, s>>].st = "running"
    BY <1>1
<1>3. PICK e \in Drainers :
         at[e] = "down" \/ (at[e] \in Holding /\ held[e] = p /\ stage[e] = s)
    BY <1>1, <1>2 DEF BookInv, RunningIsHeld, Holding
<1>4. e = d
    BY DEF SoleWorker
<1>5. QED
    BY <1>1, <1>3, <1>4

\* The app's steps: only a request to reprocess moves a parked job.
LEMMA AppBooks ==
    ASSUME SoleWorker, BookInv, App
    PROVE  /\ AttemptBudget' /\ RunningIsHeld' /\ BatchedStage'
           /\ \A d \in Drainers : Grip(d)'
           /\ Parked
<1>1. Renews /\ Parked
    <2> USE RenewTable DEF BookInv, Parked, SparesParked
    <2>1. ASSUME NEW p \in Photos, InsertPhoto(p) \/ EnqueueNext(p) PROVE Renews /\ Parked
        BY <2>1 DEF InsertPhoto, EnqueueNext
    <2>2. ASSUME NEW p \in Photos, NEW s \in Stages, ReprocessOne(p, s) PROVE Renews /\ Parked
        BY <2>2 DEF ReprocessOne, TypeOK
    <2>3. ASSUME NEW r \in Ranges, Reprocess(r[1], r[2]) PROVE Renews /\ Parked
        BY <2>3 DEF Reprocess, TypeOK
    <2>4. ASSUME NEW s \in Stages, ResetStage(s) PROVE Renews /\ Parked
        BY <2>4 DEF ResetStage
    <2>5. CASE AppCrash
        BY <2>5 DEF AppCrash
    <2>6. QED
        BY <2>1, <2>2, <2>3, <2>4, <2>5 DEF App
<1>2. lockouts' = lockouts /\ \A d \in Drainers : Still(d)
    BY DEF App, InsertPhoto, EnqueueNext, ReprocessOne, Reprocess, ResetStage, AppCrash, Forget,
           run, budget, Still, SoleWorker
<1>3. QED
    BY <1>1, <1>2, RenewStill

\* The handlers: one that returns keeps the job running, one that raises charges
\* it an attempt.
LEMMA HandlerBooks ==
    ASSUME SoleWorker, BookInv, NEW d \in Drainers, Handler(d)
    PROVE  /\ AttemptBudget' /\ RunningIsHeld' /\ BatchedStage'
           /\ \A e \in Drainers : Grip(e)'
           /\ Parked
<1>1. /\ \A e \in Drainers : e = d
      /\ at[d] \in Holding /\ job \in JobTable
      /\ held[d] \in Photos /\ stage[d] \in Stages /\ <<held[d], stage[d]>> \in Keys
      /\ lockouts' = lockouts
    BY DEF SoleWorker, BookInv, TypeOK, Keys, Handler, ThumbnailWork, EmbedErase, EmbedWork,
           EmbedStamp, TaxonomyClear, TaxonomyWrite, CaptionSkip, CaptionWork, CaptionNote,
           HandlerFails, HandlerFaults, FailHeld, AtWork, Holding, budget
<1>2. CASE HandlerFails(d) \/ HandlerFaults(d)
    <2> DEFINE k == <<held[d], stage[d]>>
    <2>1. FailHeld(d)
        BY <1>2 DEF HandlerFails, HandlerFaults
    <2>2. job[k].st \in {"pending", "running"} /\ RowOK(job[k]) /\ k[2] # "caption_embed"
        BY <1>1 DEF BookInv, AttemptBudget, RowOK, Grip
    <2>3. /\ RowOK(job'[k]) /\ job'[k].st # "running"
          /\ \A j \in Keys : j # k => job'[j] = job[j]
        BY <1>1, <2>1, <2>2, JobsAssumption DEF FailHeld, Fail, RowOK, JobTable
    <2>4. \A j \in Keys : IdleRow(j)'
        BY <1>1, <2>3, NoneRunning DEF BookInv, AttemptBudget, RowOK, IdleRow, Holding
    <2>5. BatchedStage'
        BY <2>2, <2>3 DEF BookInv, BatchedStage, Keys, Stages
    <2>6. at'[d] = "select" /\ stage'[d] # "caption_embed"
        BY <1>1, <2>1 DEF FailHeld, Goto, BookInv, Grip, TypeOK
    <2>7. Parked
        BY <2>2, <2>3 DEF Parked
    <2>8. QED
        BY <2>4, <2>5, <2>6, <2>7, BetweenJobs DEF Holding
<1>3. CASE ~(HandlerFails(d) \/ HandlerFaults(d))
    <2>1. /\ at'[d] \in Holding /\ held'[d] = held[d] /\ stage'[d] = stage[d]
        BY <1>1, <1>3
           DEF BookInv, TypeOK, Handler, ThumbnailWork, EmbedErase, EmbedWork, EmbedStamp,
               TaxonomyClear, TaxonomyWrite, CaptionSkip, CaptionWork, CaptionNote, Goto, Holding
    <2>2. Renews /\ Parked
        <3>1. CASE CaptionNote(d)
            <4> DEFINE k == <<held[d], "caption_embed">>
            <4>1. job' = Reset(Enqueue(job, {k}), {k})
                BY <3>1 DEF CaptionNote
            <4>2. Renews
                BY <4>1, RenewTable DEF BookInv
            <4>3. \A j \in Keys : j # k => job'[j] = job[j]
                BY <1>1, <4>1 DEF Reset, Enqueue, JobTable
            <4>4. Parked
                BY <1>1, <4>3 DEF BookInv, BatchedStage, Parked
            <4>5. QED
                BY <4>2, <4>4
        <3>2. CASE ~CaptionNote(d)
            BY <1>3, <3>2, RenewTable
               DEF BookInv, Parked, SparesParked, Handler, ThumbnailWork, EmbedErase, EmbedWork,
                   EmbedStamp, TaxonomyClear, TaxonomyWrite, CaptionSkip, CaptionWork, queue
        <3>3. QED
            BY <3>1, <3>2
    <2>3. Fresh.st = "pending" /\ Fresh.tries = 0 /\ 0 < MaxAttempts
        BY JobsAssumption DEF Fresh
    <2>4. AttemptBudget'
        BY <2>2, <2>3 DEF BookInv, AttemptBudget, Renews
    <2>5. RunningIsHeld'
        <3> SUFFICES ASSUME lockouts = 0, NEW p \in Photos, NEW s \in Stages,
                            job'[<<p, s>>].st = "running"
                     PROVE  held'[d] = p /\ stage'[d] = s
            BY <1>1, <2>1 DEF RunningIsHeld, Holding
        <3>1. <<p, s>> \in Keys /\ job[<<p, s>>].st = "running"
            BY <2>2, <2>3 DEF Renews, Keys
        <3>2. QED
            BY <1>1, <2>1, <3>1, NoneRunning DEF Holding
    <2>6. BatchedStage'
        BY <2>2, <2>3 DEF BookInv, BatchedStage, Renews, Keys, Stages
    <2>7. Grip(d)'
        BY <1>1, <2>1, <2>2, <2>3 DEF BookInv, Grip, Renews, Holding
    <2>8. QED
        BY <1>1, <2>2, <2>4, <2>5, <2>6, <2>7
<1>4. QED
    BY <1>2, <1>3

\* The rest of the pass: it claims what is pending, completes what it ran, and
\* its backfills leave parked jobs alone.
LEMMA PassBooks ==
    ASSUME SoleWorker, BookInv, NEW d \in Drainers, Pass(d), ~Handler(d)
    PROVE  /\ AttemptBudget' /\ RunningIsHeld' /\ BatchedStage'
           /\ \A e \in Drainers : Grip(e)'
           /\ Parked
<1>1. /\ \A e \in Drainers : e = d
      /\ TypeOK /\ job \in JobTable
      /\ held[d] \in Photos /\ stage[d] \in Stages /\ <<held[d], stage[d]>> \in Keys
      /\ \A p \in Photos : <<p, "caption_embed">> \in Keys
      /\ Fresh.st = "pending" /\ RowOK(Fresh)
    BY JobsAssumption DEF SoleWorker, BookInv, TypeOK, Keys, Stages, Fresh, RowOK
<1>2. \A k \in Keys : RowOK(job[k])
    BY DEF BookInv, AttemptBudget, RowOK
<1>3. ASSUME lockouts = 0, at[d] \notin Holding \union {"down"}
      PROVE  \A k \in Keys : job[k].st # "running"
    BY <1>3, NoneRunning
<1>0. lockouts' = lockouts
    BY DEF Pass, BeginPass, Select, ClaimHeld, CompleteHeld, ThumbnailsDry, EmbedsDry, TaxonomyDry,
           EnterCaptions, CaptionsDry, EnterVectors, EmbedBatch, WriteVector, MarkVector, budget
<1>4. CASE \/ BeginPass(d) \/ ThumbnailsDry(d) \/ EmbedsDry(d) \/ TaxonomyDry(d)
           \/ EnterCaptions(d) \/ CaptionsDry(d) \/ EmbedBatch(d) \/ WriteVector(d)
    <2>1. Renews /\ SparesParked
        BY <1>1, <1>4, RenewTable
           DEF BeginPass, ThumbnailsDry, EmbedsDry, TaxonomyDry, EnterCaptions, CaptionsDry,
               EmbedBatch, WriteVector, queue
    <2>2. \A k \in Keys : IdleRow(k)'
        <3>1. at[d] \notin Holding \union {"down"}
            BY <1>4 DEF BeginPass, ThumbnailsDry, EmbedsDry, TaxonomyDry, EnterCaptions,
                        CaptionsDry, EmbedBatch, WriteVector, Dry, Holding
        <3>2. QED
            BY <1>0, <1>1, <1>2, <1>3, <2>1, <3>1 DEF Renews, IdleRow
    <2>3. BatchedStage'
        BY <1>1, <2>1 DEF BookInv, BatchedStage, Renews
    <2>4. at'[d] \notin Holding \union {"claim"} /\ (at'[d] = "select" => stage'[d] # "caption_embed")
        BY <1>1, <1>4
           DEF TypeOK, BeginPass, ThumbnailsDry, EmbedsDry, TaxonomyDry, EnterCaptions,
               CaptionsDry, EmbedBatch, WriteVector, Enter, Leave, Goto, Holding
    <2>5. Parked
        BY <2>1 DEF SparesParked, Parked
    <2>6. QED
        BY <2>2, <2>3, <2>4, <2>5, BetweenJobs
<1>5. CASE Select(d)
    <2>1. /\ job' = job /\ at[d] = "select" /\ at'[d] = "claim" /\ stage'[d] = stage[d]
          /\ held'[d] \in Candidates(d)
        BY <1>1, <1>5 DEF Select, Goto, queue, TypeOK, Lowest
    <2>2. job[<<held'[d], stage[d]>>].st = "pending" /\ stage[d] # "caption_embed"
        BY <2>1 DEF Candidates, Pending, BookInv, Grip
    <2>3. RunningIsHeld'
        BY <1>0, <1>3, <2>1 DEF RunningIsHeld, Keys, Holding
    <2>4. Grip(d)'
        BY <2>1, <2>2 DEF Grip, Holding
    <2>5. QED
        BY <1>1, <2>1, <2>3, <2>4 DEF BookInv, AttemptBudget, BatchedStage, Parked
<1>6. CASE ClaimHeld(d)
    <2> DEFINE k == <<held[d], stage[d]>>
    <2>1. /\ at[d] = "claim" /\ at'[d] = "work" /\ stage'[d] = stage[d] /\ held'[d] = held[d]
          /\ job' = Claim(job, held[d], stage[d])
        BY <1>1, <1>6 DEF ClaimHeld, Goto, TypeOK
    <2>2. job[k].st = "pending" /\ stage[d] # "caption_embed"
        BY <2>1 DEF BookInv, Grip
    <2>3. /\ job'[k].st = "running" /\ job'[k].tries = job[k].tries
          /\ \A j \in Keys : j # k => job'[j] = job[j]
        BY <1>1, <2>1, <2>2 DEF Claim, SetStatus, JobTable
    <2>4. AttemptBudget'
        BY <1>2, <2>2, <2>3 DEF AttemptBudget, RowOK
    <2>5. RunningIsHeld'
        BY <1>0, <1>3, <2>1, <2>3 DEF RunningIsHeld, Keys, Holding
    <2>6. BatchedStage'
        BY <1>1, <2>2, <2>3 DEF BookInv, BatchedStage
    <2>7. Grip(d)'
        BY <2>1, <2>2, <2>3 DEF Grip, Holding
    <2>8. QED
        BY <1>1, <2>2, <2>3, <2>4, <2>5, <2>6, <2>7 DEF Parked
<1>7. CASE CompleteHeld(d)
    <2> DEFINE k == <<held[d], stage[d]>>
    <2>1. /\ at[d] = "settle" /\ at'[d] = "select" /\ stage'[d] = stage[d]
          /\ job' = Complete(job, held[d], stage[d])
        BY <1>1, <1>7 DEF CompleteHeld, Goto, TypeOK
    <2>2. job[k].st \in {"pending", "running"} /\ stage[d] # "caption_embed"
        BY <2>1 DEF BookInv, Grip, Holding
    <2>3. /\ job'[k].st = "done"
          /\ \A j \in Keys : j # k => job'[j] = job[j]
        BY <1>1, <2>1, <2>2 DEF Complete, SetStatus, JobTable
    <2>4. \A j \in Keys : IdleRow(j)'
        <3>1. lockouts = 0 => \A j \in Keys : job[j].st = "running" => j = k
            BY <2>1, NoneRunning
        <3>2. QED
            BY <1>0, <1>2, <2>3, <3>1 DEF RowOK, IdleRow
    <2>5. BatchedStage'
        BY <1>1, <2>2, <2>3 DEF BookInv, BatchedStage
    <2>6. Parked
        BY <2>2, <2>3 DEF Parked
    <2>7. QED
        BY <2>1, <2>2, <2>4, <2>5, <2>6, BetweenJobs DEF Holding
<1>8. CASE EnterVectors(d)
    <2> DEFINE vectored == {p \in Photos : capvec[p] # NoText}
               missing  == {p \in Captioned \union vectored :
                               job[<<p, "caption_embed">>].st = "none"}
               new      == (missing \ vectored) \X {"caption_embed"}
               dated    == (missing \intersect vectored) \X {"caption_embed"}
    <2>1. /\ at[d] = "vectors" /\ at'[d] \in {"rest", "embed"}
          /\ job' = RecordDone(Enqueue(job, new), dated)
        BY <1>1, <1>8 DEF EnterVectors, Goto, TypeOK
    <2>2. \A k \in dated : k \in Keys /\ job[k].st = "none"
        BY DEF Captioned, Keys, Stages
    <2>3. \A k \in Keys : \/ job'[k] \in {job[k], Fresh}
                          \/ job'[k].st = "done" /\ job[k].st = "none"
        <3> HIDE DEF dated, new
        <3> QED
            BY <1>1, <2>1, <2>2 DEF RecordDone, Enqueue, JobTable
    <2>4. \A k \in Keys : job[k].st = "failed" => job'[k] = job[k]
        <3> HIDE DEF dated, new
        <3> QED
            BY <1>1, <2>1, <2>2 DEF RecordDone, Enqueue, JobTable
    <2>5. \A k \in Keys : IdleRow(k)'
        BY <1>0, <1>1, <1>2, <1>3, <2>1, <2>3 DEF RowOK, IdleRow, Holding
    <2>6. BatchedStage'
        BY <1>1, <2>3 DEF BookInv, BatchedStage
    <2>7. Parked
        BY <2>4 DEF Parked
    <2>8. QED
        BY <2>1, <2>5, <2>6, <2>7, BetweenJobs DEF Holding
<1>9. CASE MarkVector(d)
    <2> DEFINE k == <<held[d], "caption_embed">>
    <2>1. /\ at[d] = "mark" /\ at'[d] \in {"rest", "write"}
          /\ job' = Complete(job, held[d], "caption_embed")
        BY <1>1, <1>9 DEF MarkVector, Goto, TypeOK
    <2>2. /\ job'[k] = job[k] \/ job'[k].st = "done"
          /\ \A j \in Keys : j # k => job'[j] = job[j]
        BY <1>1, <2>1 DEF Complete, SetStatus, JobTable
    <2>3. \A j \in Keys : IdleRow(j)'
        BY <1>0, <1>2, <1>3, <2>1, <2>2 DEF RowOK, IdleRow, Holding
    <2>4. BatchedStage'
        BY <1>1, <2>2 DEF BookInv, BatchedStage
    <2>5. Parked
        BY <1>1, <2>2 DEF BookInv, BatchedStage, Parked
    <2>6. QED
        BY <2>1, <2>3, <2>4, <2>5, BetweenJobs DEF Holding
<1>10. QED
    BY <1>4, <1>5, <1>6, <1>7, <1>8, <1>9 DEF Pass

\* With one worker every step keeps the books and spares parked jobs.
LEMMA NextBooks ==
    ASSUME SoleWorker
    PROVE  BookInv /\ [Next]_vars => BookInv' /\ (Parked \/ UNCHANGED vars)
<1> SUFFICES ASSUME BookInv, [Next]_vars PROVE BookInv' /\ (Parked \/ UNCHANGED vars)
    OBVIOUS
<1> DEFINE Kept == /\ AttemptBudget' /\ RunningIsHeld' /\ BatchedStage'
                   /\ \A d \in Drainers : Grip(d)'
                   /\ Parked
<1>1. TypeOK'
    BY NextTypeOK DEF BookInv
<1>2. ASSUME NEW d \in Drainers, Pass(d) PROVE Kept
    BY <1>2, HandlerBooks, PassBooks
<1>3. ASSUME NEW d \in Drainers, QueueFails(d) \/ WorkerCrash(d) PROVE Kept
    <2>1. /\ job' = job /\ \A e \in Drainers : e = d
          /\ \/ at'[d] = "down"
             \/ at'[d] = "rest" /\ lockouts' = lockouts + 1
        BY <1>3 DEF QueueFails, WorkerCrash, Forget, queue, SoleWorker
    <2>2. lockouts \in Nat
        BY DEF BookInv, TypeOK
    <2>3. QED
        BY <2>1, <2>2
           DEF BookInv, AttemptBudget, RunningIsHeld, BatchedStage, Grip, Holding, Parked
<1>4. ASSUME NEW d \in Drainers, WorkerStart(d) PROVE Kept
    <2>1. at'[d] = "rest" /\ job' = RequeueStalled(job)
        BY <1>4 DEF WorkerStart, Goto, BookInv, TypeOK
    <2>2. \A k \in Keys : \/ job'[k] = job[k] /\ job[k].st # "running"
                         \/ /\ job[k].st = "running" /\ job'[k].st = "pending"
                            /\ job'[k].tries = job[k].tries
        BY <2>1 DEF RequeueStalled, BookInv, TypeOK, JobTable
    <2>3. \A k \in Keys : IdleRow(k)'
        BY <2>2 DEF BookInv, AttemptBudget, RowOK, IdleRow
    <2>4. BatchedStage' /\ Parked
        BY <2>2 DEF BookInv, BatchedStage, Parked, Keys, Stages
    <2>5. QED
        BY <2>1, <2>3, <2>4, BetweenJobs DEF Holding
<1>5. CASE App
    BY <1>1, <1>5, AppBooks DEF BookInv
<1>6. CASE BackendFlips
    <2>1. job' = job /\ lockouts' = lockouts /\ \A d \in Drainers : Still(d)
        BY <1>6 DEF BackendFlips, queue, run, Still
    <2>2. QED
        <3>1. Parked
            BY <2>1 DEF Parked
        <3>2. Renews
            BY <2>1, RenewTable DEF BookInv
        <3>3. QED
            BY <1>1, <2>1, <3>1, <3>2, RenewStill DEF BookInv
<1>7. CASE UNCHANGED vars
    <2>1. job' = job /\ at' = at /\ held' = held /\ stage' = stage /\ lockouts' = lockouts
        BY <1>7 DEF vars, queue, run, budget
    <2>2. AttemptBudget' /\ RunningIsHeld' /\ BatchedStage' /\ \A d \in Drainers : Grip(d)'
        BY <2>1 DEF BookInv, AttemptBudget, RunningIsHeld, BatchedStage, Grip
    <2>3. QED
        BY <1>1, <1>7, <2>2 DEF BookInv
<1>8. QED
    BY <1>1, <1>2, <1>3, <1>4, <1>5, <1>6, <1>7 DEF Next, BookInv

\* The initial state has no jobs to keep books of.
LEMMA InitBooks == Init => BookInv
BY InitTypeOK DEF Init, BookInv, AttemptBudget, RunningIsHeld, BatchedStage, Grip, EmptyTable,
                  Absent, Keys, Stages, Holding

\* One worker: a job is retried at most MaxAttempts times between resets and
\* parked by its last attempt only, through any crashes, outages and resets.
THEOREM AttemptsBounded ==
    ASSUME SoleWorker
    PROVE  Spec => []AttemptBudget
<1>1. BookInv => AttemptBudget
    BY DEF BookInv
<1>2. QED
    BY <1>1, InitBooks, NextBooks, PTL DEF Spec

\* One worker: while the queue's own statements succeed, no row says "running"
\* that nobody will come back to.
THEOREM NoJobStranded ==
    ASSUME SoleWorker
    PROVE  Spec => []RunningIsHeld
<1>1. BookInv => RunningIsHeld
    BY DEF BookInv
<1>2. QED
    BY <1>1, InitBooks, NextBooks, PTL DEF Spec

\* One worker: no backfill, pass or restart revives a parked job.
THEOREM ParkedKept ==
    ASSUME SoleWorker
    PROVE  Spec => ParkedStaysParked
<1>1. BookInv /\ [Next]_vars => [Parked]_vars
    BY NextBooks
<1>2. ParkedStaysParked <=> [][Parked]_vars
    BY DEF ParkedStaysParked, Parked
<1>3. QED
    BY <1>1, <1>2, InitBooks, NextBooks, PTL DEF Spec

-----------------------------------------------------------------------------
(* One worker: done means done.                                            *)

\* The output of a handler that is about to be marked done is on disk already.
Placed(d) ==
    /\ at[d] = "settle" => stage[d] \in MayFindNothing \/ HasOutput(held[d], stage[d])
    /\ at[d] = "note" /\ stage[d] = "embed" => held[d] \in vectors
    /\ at[d] \in {"full", "pixel"} => stage[d] = "taxonomy"
    /\ at[d] = "mark" => capvec[held[d]] # NoText

\* DoneHasOutput is not inductive alone: complete() trusts the drainer, and a
\* handler erases an output only because the job in its grip is not done.
OutputInv == BookInv /\ DoneHasOutput /\ \A d \in Drainers : Placed(d)

\* No output is taken away.
Grows ==
    /\ thumbs \subseteq thumbs' /\ vectors \subseteq vectors' /\ stamped \subseteq stamped'
    /\ \A p \in Photos : capvec[p] # NoText => capvec'[p] # NoText
    /\ \A p \in Photos : tags[p] # "none" => tags'[p] # "none"
    /\ \A p \in Photos : text[p] # NoText => text'[p] # NoText

\* No row comes to say "done", and none vanishes.
NoneDone ==
    \A k \in Keys : /\ job'[k].st = "done" => job[k].st = "done"
                    /\ job'[k].st = "none" => job[k].st = "none"

\* What every statement but complete() and record_done_at() leaves alone.
LEMMA QuietTable ==
    ASSUME TypeOK
    PROVE  /\ job' = job => NoneDone
           /\ job' = RequeueStalled(job) => NoneDone
           /\ \A K : job' = Enqueue(job, K) => NoneDone
           /\ \A K : job' = Reset(job, K) => NoneDone
           /\ \A K, L : job' = Reset(Enqueue(job, K), L) => NoneDone
           /\ \A p \in Photos, s \in Stages :
                  job' = Claim(job, p, s) \/ job' = Fail(job, p, s) => NoneDone
<1>1. job \in JobTable
    BY DEF TypeOK
<1>2. job' = job \/ job' = RequeueStalled(job) => NoneDone
    BY <1>1 DEF NoneDone, RequeueStalled, JobTable
<1>3. ASSUME NEW K, job' = Enqueue(job, K) \/ job' = Reset(job, K) PROVE NoneDone
    BY <1>1, <1>3 DEF NoneDone, Enqueue, Reset, Fresh, JobTable
<1>4. ASSUME NEW K, NEW L, job' = Reset(Enqueue(job, K), L) PROVE NoneDone
    BY <1>1, <1>4 DEF NoneDone, Enqueue, Reset, Fresh, JobTable
<1>5. ASSUME NEW p \in Photos, NEW s \in Stages, job' = Claim(job, p, s) PROVE NoneDone
    BY <1>1, <1>5 DEF NoneDone, Claim, SetStatus, JobTable, Keys
<1>6. ASSUME NEW p \in Photos, NEW s \in Stages, job' = Fail(job, p, s) PROVE NoneDone
    BY <1>1, <1>6 DEF NoneDone, Fail, JobTable, Keys
<1>7. QED
    BY <1>2, <1>3, <1>4, <1>5, <1>6

\* While outputs only grow, a step that marks nothing done breaks no promise.
LEMMA DoneStays ==
    ASSUME TypeOK, DoneHasOutput, Grows, NoneDone
    PROVE  DoneHasOutput'
<1>1. \A p \in Photos, s \in Stages : <<p, s>> \in Keys
    BY DEF Keys
<1>2. \A p \in Photos, s \in Stages : HasOutput(p, s) => HasOutput(p, s)'
    BY DEF HasOutput, Grows
<1>3. QED
    BY <1>1, <1>2 DEF DoneHasOutput, NoneDone

\* A drainer that stands still keeps its promise while outputs only grow.
LEMMA StillPlaced ==
    ASSUME TypeOK, Grows, NEW d \in Drainers, Placed(d), Still(d)
    PROVE  Placed(d)'
BY DEF TypeOK, Grows, Placed, Still, HasOutput

\* A step of the app adds and resets jobs, and completes none.
LEMMA AppQuiet == TypeOK /\ App => Grows /\ NoneDone
<1> SUFFICES ASSUME TypeOK, App PROVE Grows /\ NoneDone
    OBVIOUS
<1>1. Grows
    BY DEF App, InsertPhoto, EnqueueNext, ReprocessOne, Reprocess, ResetStage, AppCrash,
           derived, Grows
<1>2. ASSUME NEW p \in Photos, InsertPhoto(p) \/ EnqueueNext(p) PROVE NoneDone
    BY <1>2, QuietTable DEF InsertPhoto, EnqueueNext
<1>3. ASSUME NEW p \in Photos, NEW s \in Stages, ReprocessOne(p, s) PROVE NoneDone
    BY <1>3, QuietTable DEF ReprocessOne
<1>4. ASSUME NEW r \in Ranges, Reprocess(r[1], r[2]) PROVE NoneDone
    BY <1>4, QuietTable DEF Reprocess
<1>5. ASSUME NEW s \in Stages, ResetStage(s) PROVE NoneDone
    BY <1>5, QuietTable DEF ResetStage
<1>6. ASSUME AppCrash PROVE NoneDone
    BY <1>6, QuietTable DEF AppCrash
<1>7. QED
    BY <1>1, <1>2, <1>3, <1>4, <1>5, <1>6 DEF App

\* Nor does a handler: that is left to the drainer.
LEMMA HandlerQuiet ==
    ASSUME TypeOK, NEW d \in Drainers, Handler(d)
    PROVE  NoneDone
<1>1. held[d] \in Photos /\ stage[d] \in Stages
    BY DEF TypeOK
<1>2. CASE CaptionNote(d)
    BY <1>2, QuietTable DEF CaptionNote
<1>3. CASE HandlerFails(d) \/ HandlerFaults(d)
    BY <1>1, <1>3, QuietTable DEF HandlerFails, HandlerFaults, FailHeld
<1>4. QED
    BY <1>2, <1>3, QuietTable
       DEF Handler, ThumbnailWork, EmbedErase, EmbedWork, EmbedStamp, TaxonomyClear,
           TaxonomyWrite, CaptionSkip, CaptionWork, queue

\* A handler writes its output before it moves on to "settle".
LEMMA HandlerOutput ==
    ASSUME OutputInv, NEW d \in Drainers, Handler(d)
    PROVE  DoneHasOutput' /\ Placed(d)'
<1>1. TypeOK /\ DoneHasOutput /\ NoneDone /\ Grip(d) /\ Placed(d)
    BY HandlerQuiet DEF OutputInv, BookInv
<1> USE DEF TypeOK, Placed, AtWork, Goto
<1>2. CASE EmbedErase(d) \/ TaxonomyClear(d)
    <2>1. job' = job /\ job[<<held[d], stage[d]>>].st # "done"
        BY <1>1, <1>2 DEF EmbedErase, TaxonomyClear, queue, Grip, Holding
    <2>2. DoneHasOutput'
        <3> SUFFICES ASSUME NEW p \in Photos, NEW s \in Stages \ MayFindNothing,
                            job[<<p, s>>].st = "done"
                     PROVE  HasOutput(p, s)'
            BY <2>1 DEF DoneHasOutput
        <3>1. HasOutput(p, s) /\ ~(p = held[d] /\ s = stage[d])
            BY <1>1, <2>1 DEF DoneHasOutput
        <3>2. CASE EmbedErase(d)
            BY <1>1, <3>1, <3>2 DEF EmbedErase, HasOutput
        <3>3. CASE TaxonomyClear(d)
            BY <1>1, <3>1, <3>3 DEF TaxonomyClear, HasOutput
        <3>4. QED
            BY <1>2, <3>2, <3>3
    <2>3. Placed(d)'
        BY <1>1, <1>2 DEF EmbedErase, TaxonomyClear, MayFindNothing
    <2>4. QED
        BY <2>2, <2>3
<1>3. CASE ~(EmbedErase(d) \/ TaxonomyClear(d))
    <2>1. Grows
        BY <1>1, <1>3, IngestAssumption
           DEF Grows, Handler, ThumbnailWork, EmbedWork, EmbedStamp, TaxonomyWrite, CaptionSkip,
               CaptionWork, CaptionNote, HandlerFails, HandlerFaults, FailHeld, derived, Holding
    <2>2. DoneHasOutput'
        BY <1>1, <2>1, DoneStays
    <2>3. Placed(d)'
        <3>1. CASE ThumbnailWork(d) \/ CaptionSkip(d) \/ CaptionWork(d) \/ CaptionNote(d)
            BY <1>1, <3>1 DEF ThumbnailWork, CaptionSkip, CaptionWork, CaptionNote, HasOutput, MayFindNothing
        <3>2. CASE EmbedWork(d)
            BY <1>1, <3>2 DEF EmbedWork
        <3>3. CASE EmbedStamp(d)
            BY <1>1, <3>3 DEF EmbedStamp, HasOutput
        <3>4. CASE TaxonomyWrite(d)
            BY <1>1, <3>4 DEF TaxonomyWrite, HasOutput
        <3>5. CASE HandlerFails(d) \/ HandlerFaults(d)
            BY <1>1, <3>5 DEF HandlerFails, HandlerFaults, FailHeld
        <3>6. QED
            BY <1>3, <3>1, <3>2, <3>3, <3>4, <3>5 DEF Handler
    <2>4. QED
        BY <2>2, <2>3
<1>4. QED
    BY <1>2, <1>3

\* What EnterVectors does to the table: it queues what has no vector, and dates
\* what has one.
LEMMA VectorRows ==
    ASSUME TypeOK, NEW d \in Drainers, EnterVectors(d), NEW k \in Keys
    PROVE  /\ job'[k].st = "done" =>
                  \/ job[k].st = "done"
                  \/ job[k].st = "none" /\ \E p \in Photos : k = <<p, "caption_embed">> /\ capvec[p] # NoText
           /\ job'[k].st = "none" => job[k].st = "none"
<1> DEFINE vectored == {p \in Photos : capvec[p] # NoText}
           missing  == {p \in Captioned \union vectored : job[<<p, "caption_embed">>].st = "none"}
           new      == (missing \ vectored) \X {"caption_embed"}
           dated    == (missing \intersect vectored) \X {"caption_embed"}
<1>1. job' = RecordDone(Enqueue(job, new), dated) /\ job \in JobTable
    BY DEF EnterVectors, TypeOK
<1>2. k \in dated => /\ job[k].st = "none"
                     /\ \E p \in Photos : k = <<p, "caption_embed">> /\ capvec[p] # NoText
    OBVIOUS
<1>3. /\ job'[k].st = "done" => job[k].st = "done" \/ k \in dated
      /\ job'[k].st = "none" => job[k].st = "none"
    <2> HIDE DEF new, dated
    <2> QED BY <1>1 DEF RecordDone, Enqueue, Fresh, JobTable
<1>4. QED
    BY <1>2, <1>3

\* Apart from the two settling steps and the batch, a pass marks nothing done.
LEMMA PassQuiet ==
    ASSUME TypeOK, NEW d \in Drainers, Pass(d), ~Handler(d),
           ~CompleteHeld(d), ~EnterVectors(d), ~MarkVector(d)
    PROVE  NoneDone
<1>1. held[d] \in Photos /\ stage[d] \in Stages
    BY DEF TypeOK
<1>2. CASE BeginPass(d) \/ ThumbnailsDry(d) \/ EnterCaptions(d)
    BY <1>2, QuietTable DEF BeginPass, ThumbnailsDry, EnterCaptions
<1>3. CASE ClaimHeld(d)
    BY <1>1, <1>3, QuietTable DEF ClaimHeld
<1>4. QED
    BY <1>2, <1>3, QuietTable
       DEF Pass, Select, EmbedsDry, TaxonomyDry, CaptionsDry, EmbedBatch, WriteVector, queue

\* complete() marks one key done.
LEMMA CompleteRow ==
    ASSUME TypeOK, NEW p \in Photos, NEW s \in Stages, job' = Complete(job, p, s), NEW k \in Keys
    PROVE  /\ job'[k].st = "done" => job[k].st = "done" \/ k = <<p, s>>
           /\ job'[k].st = "none" => job[k].st = "none"
BY DEF Complete, SetStatus, JobTable, Keys, TypeOK

\* The rest of the pass marks done what the handler, or the batch, has written.
LEMMA PassOutput ==
    ASSUME OutputInv, NEW d \in Drainers, Pass(d), ~Handler(d)
    PROVE  DoneHasOutput' /\ Placed(d)'
<1>1. /\ TypeOK /\ DoneHasOutput /\ Placed(d)
      /\ held[d] \in Photos /\ stage[d] \in Stages /\ "caption_embed" \in Stages
      /\ \A p \in Photos, s \in Stages : <<p, s>> \in Keys
    BY DEF OutputInv, BookInv, TypeOK, Keys, Stages
<1>2. Grows
    BY <1>1 DEF Pass, BeginPass, Select, ClaimHeld, CompleteHeld, ThumbnailsDry, EmbedsDry,
                TaxonomyDry, EnterCaptions, CaptionsDry, EnterVectors, EmbedBatch, WriteVector,
                Unwritten, MarkVector, derived, Grows, TypeOK
<1>3. \A p \in Photos, s \in Stages : HasOutput(p, s) => HasOutput(p, s)'
    BY <1>2 DEF HasOutput, Grows
<1>4. DoneHasOutput'
    <2>1. CASE CompleteHeld(d)
        BY <1>1, <1>3, <2>1, CompleteRow DEF CompleteHeld, DoneHasOutput, Placed
    <2>2. CASE EnterVectors(d)
        <3> SUFFICES ASSUME NEW p \in Photos, NEW s \in Stages \ MayFindNothing,
                            job'[<<p, s>>].st = "done"
                     PROVE  HasOutput(p, s)
            BY <1>3 DEF DoneHasOutput
        <3>1. CASE job[<<p, s>>].st = "done"
            BY <1>1, <3>1 DEF DoneHasOutput
        <3>2. CASE s = "caption_embed" /\ capvec[p] # NoText
            BY <3>2 DEF HasOutput
        <3>3. QED
            BY <1>1, <2>2, <3>1, <3>2, VectorRows
    <2>3. CASE MarkVector(d)
        <3>1. HasOutput(held[d], "caption_embed")
            BY <1>1, <2>3 DEF MarkVector, Placed, HasOutput
        <3>2. QED
            BY <1>1, <1>3, <2>3, <3>1, CompleteRow DEF MarkVector, DoneHasOutput
    <2>4. QED
        BY <1>1, <1>2, <2>1, <2>2, <2>3, PassQuiet, DoneStays
<1>5. Placed(d)'
    BY <1>1 DEF Pass, BeginPass, Select, ClaimHeld, CompleteHeld, ThumbnailsDry, EmbedsDry,
                TaxonomyDry, EnterCaptions, CaptionsDry, EnterVectors, EmbedBatch, WriteVector,
                Unwritten, MarkVector, Goto, Enter, Leave, Release, TypeOK, Placed
<1>6. QED
    BY <1>4, <1>5

\* The strengthened invariant survives every step.
LEMMA NextOutputInv ==
    ASSUME SoleWorker
    PROVE  OutputInv /\ [Next]_vars => OutputInv'
<1> SUFFICES ASSUME OutputInv, [Next]_vars PROVE OutputInv'
    OBVIOUS
<1>1. BookInv' /\ TypeOK /\ DoneHasOutput /\ \A d \in Drainers : Placed(d)
    BY NextBooks DEF OutputInv, BookInv
<1> DEFINE Kept == DoneHasOutput' /\ \A d \in Drainers : Placed(d)'
<1>2. ASSUME NEW d \in Drainers, Pass(d) PROVE Kept
    BY <1>2, HandlerOutput, PassOutput DEF SoleWorker
<1>3. ASSUME NEW d \in Drainers, QueueFails(d) \/ WorkerCrash(d) \/ WorkerStart(d) PROVE Kept
    <2>1. Grows /\ NoneDone
        BY <1>1, <1>3, QuietTable DEF QueueFails, WorkerCrash, WorkerStart, queue, derived, Grows
    <2>2. at'[d] \in {"rest", "down"}
        BY <1>1, <1>3 DEF QueueFails, WorkerCrash, WorkerStart, Forget, Goto, TypeOK
    <2>3. QED
        BY <1>1, <2>1, <2>2, DoneStays DEF SoleWorker, Placed
<1>4. ASSUME App \/ BackendFlips PROVE Kept
    <2>1. Grows /\ NoneDone
        BY <1>1, <1>4, AppQuiet, QuietTable DEF BackendFlips, queue, derived, Grows
    <2>2. \A d \in Drainers : Still(d)
        BY <1>4 DEF App, InsertPhoto, EnqueueNext, ReprocessOne, Reprocess, ResetStage, AppCrash,
                    Forget, BackendFlips, run, Still, SoleWorker
    <2>3. QED
        BY <1>1, <2>1, <2>2, DoneStays, StillPlaced
<1>5. ASSUME UNCHANGED vars PROVE Kept
    BY <1>1, <1>5 DEF vars, queue, derived, run, DoneHasOutput, HasOutput, Placed
<1>6. QED
    BY <1>1, <1>2, <1>3, <1>4, <1>5 DEF Next, OutputInv

\* The initial state has no job to be done.
LEMMA InitOutputInv == Init => OutputInv
BY InitBooks DEF Init, OutputInv, DoneHasOutput, Placed, EmptyTable, Absent, Keys

\* One worker: a stage marked done has its output, wherever a crash, a restart
\* or a reset fell between the handler's statements and the status update.
THEOREM OutputCorrect ==
    ASSUME SoleWorker
    PROVE  Spec => []DoneHasOutput
<1>1. OutputInv => DoneHasOutput
    BY DEF OutputInv
<1>2. QED
    BY <1>1, InitOutputInv, NextOutputInv, PTL DEF Spec
-----------------------------------------------------------------------------
(* One worker: a finished re-caption never keeps the old text's vector.    *)

\* A caption needs a thumbnail, and a vector a caption and a job row.
Derived ==
    \A p \in Photos :
        /\ text[p] # NoText => p \in thumbs
        /\ capvec[p] # NoText => text[p] # NoText /\ job[<<p, "caption_embed">>].st # "none"

\* A vector marked done embeds the caption.
VectorAgrees(p) == job[<<p, "caption_embed">>].st = "done" => capvec[p] = text[p]

\* The captions of the batch are the photos' captions still, the vector about
\* to be marked embeds one, and a caption about to be marked done has no stale
\* vector marked done.
BatchFresh(d) ==
    /\ at[d] \in {"embed", "write", "mark"} =>
           \A p \in Photos : batch[d][p] # NoText =>
               batch[d][p] = text[p] /\ job[<<p, "caption_embed">>].st # "none"
    /\ at[d] = "mark" => capvec[held[d]] = text[held[d]]
    /\ at[d] = "settle" /\ stage[d] = "caption" => VectorAgrees(held[d])

FreshInv ==
    /\ OutputInv
    /\ CaptionVectorFresh
    /\ Derived
    /\ \A d \in Drainers : BatchFresh(d)

\* Captions and their vectors stay, and no thumbnail goes.
SameWords == text' = text /\ capvec' = capvec /\ thumbs \subseteq thumbs'

\* A step that neither writes a caption or a vector nor marks a job done, and
\* leaves the drainer outside the points that promise something of captions.
LEMMA WordsStay ==
    ASSUME SoleWorker, FreshInv, SameWords, NoneDone, NEW d \in Drainers,
           \/ Still(d) /\ batch' = batch
           \/ /\ at'[d] \notin {"embed", "write", "mark"}
              /\ at'[d] = "settle" => stage'[d] # "caption"
    PROVE  CaptionVectorFresh' /\ Derived' /\ \A e \in Drainers : BatchFresh(e)'
<1>1. /\ \A p \in Photos, s \in Stages : <<p, s>> \in Keys
      /\ "caption" \in Stages /\ "caption_embed" \in Stages
      /\ held[d] \in Photos
    BY DEF FreshInv, OutputInv, BookInv, TypeOK, Keys, Stages
<1>2. \A p \in Photos : VectorAgrees(p) => VectorAgrees(p)'
    BY <1>1 DEF VectorAgrees, NoneDone, SameWords
<1>3. CaptionVectorFresh'
    BY <1>1 DEF FreshInv, CaptionVectorFresh, NoneDone, SameWords
<1>4. Derived'
    BY <1>1 DEF FreshInv, Derived, NoneDone, SameWords
<1>5. BatchFresh(d)'
    <2>1. CASE Still(d) /\ batch' = batch
        BY <1>1, <1>2, <2>1 DEF FreshInv, BatchFresh, Still, NoneDone, SameWords
    <2>2. CASE ~(Still(d) /\ batch' = batch)
        BY <2>2 DEF BatchFresh
    <2>3. QED
        BY <2>1, <2>2
<1>6. QED
    BY <1>3, <1>4, <1>5 DEF SoleWorker

\* The handlers: a new caption takes its photo's vector job back to pending
\* before its own job can be marked done.
LEMMA HandlerFresh ==
    ASSUME SoleWorker, FreshInv, NEW d \in Drainers, Handler(d)
    PROVE  CaptionVectorFresh' /\ Derived' /\ \A e \in Drainers : BatchFresh(e)'
<1>1. /\ TypeOK /\ NoneDone /\ Grip(d) /\ Placed(d) /\ Derived /\ CaptionVectorFresh
      /\ BatchFresh(d)
      /\ \A e \in Drainers : e = d
      /\ \A p \in Photos, s \in Stages : <<p, s>> \in Keys
      /\ "caption" \in Stages /\ "caption_embed" \in Stages
      /\ held[d] \in Photos /\ stage[d] \in Stages
    BY HandlerQuiet DEF FreshInv, OutputInv, BookInv, SoleWorker, TypeOK, Keys, Stages
<1>2. CASE CaptionSkip(d)
    <2>1. /\ job' = job /\ text' = text /\ capvec' = capvec /\ thumbs' = thumbs
          /\ at' = [at EXCEPT ![d] = "settle"] /\ held' = held /\ stage' = stage
          /\ held[d] \notin thumbs
        BY <1>2 DEF CaptionSkip, queue, derived, Goto
    <2>2. capvec[held[d]] = text[held[d]]
        BY <1>1, <2>1 DEF Derived
    <2>3. QED
        BY <1>1, <2>1, <2>2 DEF TypeOK, CaptionVectorFresh, Derived, BatchFresh, VectorAgrees
<1>3. CASE CaptionWork(d)
    <2>1. /\ job' = job /\ capvec' = capvec /\ thumbs' = thumbs /\ held[d] \in thumbs
          /\ at'[d] = "note"
          /\ text'[held[d]] # NoText
          /\ \A p \in Photos : p # held[d] => text'[p] = text[p]
        BY <1>1, <1>3, IngestAssumption DEF CaptionWork, AtWork, queue, Goto, TypeOK
    <2>2. job[<<held[d], "caption">>].st # "done"
        BY <1>1, <1>3 DEF CaptionWork, AtWork, Grip, Holding
    <2>3. CaptionVectorFresh'
        BY <1>1, <2>1, <2>2 DEF CaptionVectorFresh
    <2>4. Derived'
        BY <1>1, <2>1 DEF Derived
    <2>5. QED
        BY <1>1, <2>1, <2>3, <2>4 DEF BatchFresh
<1>4. CASE CaptionNote(d)
    <2> DEFINE k == <<held[d], "caption_embed">>
    <2>1. job'[k].st = "pending"
        BY <1>1, <1>4 DEF CaptionNote, Reset, Enqueue, Fresh, JobTable, TypeOK
    <2>2. /\ text' = text /\ capvec' = capvec /\ thumbs' = thumbs
          /\ at'[d] = "settle" /\ held' = held
        BY <1>1, <1>4 DEF CaptionNote, derived, Goto, TypeOK
    <2>3. CaptionVectorFresh' /\ Derived'
        BY <1>1, <2>2 DEF CaptionVectorFresh, Derived, NoneDone
    <2>4. QED
        BY <1>1, <2>1, <2>2, <2>3 DEF BatchFresh, VectorAgrees
<1>5. CASE ~(CaptionSkip(d) \/ CaptionWork(d) \/ CaptionNote(d))
    <2>1. SameWords
        BY <1>5 DEF SameWords, Handler, ThumbnailWork, EmbedErase, EmbedWork, EmbedStamp,
                    TaxonomyClear, TaxonomyWrite, HandlerFails, HandlerFaults, FailHeld, derived
    <2>2. at'[d] \notin {"embed", "write", "mark"} /\ (at'[d] = "settle" => stage'[d] # "caption")
        BY <1>1, <1>5
           DEF Handler, ThumbnailWork, EmbedErase, EmbedWork, EmbedStamp, TaxonomyClear,
               TaxonomyWrite, HandlerFails, HandlerFaults, FailHeld, AtWork, Goto, TypeOK, Placed
    <2>3. QED
        BY <1>1, <2>1, <2>2, WordsStay
<1>6. QED
    BY <1>2, <1>3, <1>4, <1>5

\* The rest of the pass: the batch is embedded as it was read, for captions do
\* not change under the one worker that writes them.
LEMMA PassFresh ==
    ASSUME SoleWorker, FreshInv, NEW d \in Drainers, Pass(d), ~Handler(d)
    PROVE  CaptionVectorFresh' /\ Derived' /\ \A e \in Drainers : BatchFresh(e)'
<1>1. /\ TypeOK /\ Derived /\ CaptionVectorFresh /\ BatchFresh(d)
      /\ \A e \in Drainers : e = d
      /\ \A p \in Photos, s \in Stages : <<p, s>> \in Keys
      /\ "caption" \in Stages /\ "caption_embed" \in Stages
      /\ held[d] \in Photos /\ stage[d] \in Stages
    BY DEF FreshInv, OutputInv, BookInv, SoleWorker, TypeOK, Keys, Stages
<1>2. CASE CompleteHeld(d)
    <2>1. /\ job' = Complete(job, held[d], stage[d])
          /\ at[d] = "settle" /\ at'[d] = "select"
          /\ text' = text /\ capvec' = capvec /\ thumbs' = thumbs
        BY <1>1, <1>2 DEF CompleteHeld, Goto, derived, TypeOK
    <2>2. stage[d] # "caption_embed"
        BY <2>1 DEF FreshInv, OutputInv, BookInv, Grip, Holding
    <2>3. \A k \in Keys :
              /\ job'[k].st = "done" => job[k].st = "done" \/ k = <<held[d], stage[d]>>
              /\ job'[k].st = "none" => job[k].st = "none"
        BY <1>1, <2>1, CompleteRow
    <2>4. CaptionVectorFresh'
        <3> SUFFICES ASSUME NEW p \in Photos, job'[<<p, "caption_embed">>].st = "done",
                            job'[<<p, "caption">>].st = "done"
                     PROVE  capvec[p] = text[p]
            BY <2>1 DEF CaptionVectorFresh
        <3>0. \A s \in {"caption", "caption_embed"} :
                  job[<<p, s>>].st = "done" \/ (p = held[d] /\ s = stage[d])
            <4> SUFFICES ASSUME NEW s \in {"caption", "caption_embed"}
                         PROVE  job[<<p, s>>].st = "done" \/ (p = held[d] /\ s = stage[d])
                OBVIOUS
            <4>1. <<p, s>> \in Keys /\ job'[<<p, s>>].st = "done"
                BY <1>1
            <4>2. job[<<p, s>>].st = "done" \/ <<p, s>> = <<held[d], stage[d]>>
                BY <2>3, <4>1
            <4>3. QED
                BY <4>2
        <3>1. job[<<p, "caption_embed">>].st = "done"
            BY <2>2, <3>0
        <3>2. CASE job[<<p, "caption">>].st = "done"
            BY <1>1, <3>1, <3>2 DEF CaptionVectorFresh
        <3>3. CASE p = held[d] /\ stage[d] = "caption"
            BY <1>1, <2>1, <3>1, <3>3 DEF BatchFresh, VectorAgrees
        <3>4. QED
            BY <3>0, <3>2, <3>3
    <2>5. Derived'
        BY <1>1, <2>1, <2>3 DEF Derived
    <2>6. QED
        BY <1>1, <2>1, <2>4, <2>5 DEF BatchFresh
<1>3. CASE EnterVectors(d)
    <2>1. /\ text' = text /\ capvec' = capvec /\ thumbs' = thumbs
          /\ at'[d] \in {"rest", "embed"}
        BY <1>1, <1>3 DEF EnterVectors, derived, Goto, TypeOK
    <2>2. NoneDone
        BY <1>1, <1>3, VectorRows DEF Derived, NoneDone
    <2>3. \A p \in Photos : batch'[d][p] # NoText =>
              batch'[d][p] = text[p] /\ job'[<<p, "caption_embed">>].st # "none"
        <3> DEFINE vectored == {p \in Photos : capvec[p] # NoText}
                   missing  == {p \in Captioned \union vectored :
                                   job[<<p, "caption_embed">>].st = "none"}
                   queued   == Enqueue(job, (missing \ vectored) \X {"caption_embed"})
                   dated    == (missing \intersect vectored) \X {"caption_embed"}
                   read     == FirstFew(Pending(queued, "caption_embed") \intersect Captioned)
        <3>1. /\ job' = RecordDone(queued, dated) /\ queued \in JobTable
              /\ \A p \in Photos : batch'[d][p] # NoText =>
                     p \in read /\ batch'[d][p] = text[p]
            BY <1>1, <1>3, EnqueueType DEF EnterVectors, TypeOK
        <3>2. \A p \in read : queued[<<p, "caption_embed">>].st = "pending"
            <4> HIDE DEF queued
            <4> QED BY DEF FirstFew, Pending
        <3>3. \A p \in Photos : queued[<<p, "caption_embed">>].st = "pending" =>
                  job'[<<p, "caption_embed">>].st # "none"
            <4> HIDE DEF queued, dated
            <4> QED BY <1>1, <3>1 DEF RecordDone, JobTable
        <3> HIDE DEF read
        <3>4. QED
            BY <3>1, <3>2, <3>3
    <2>4. CaptionVectorFresh' /\ Derived'
        BY <1>1, <2>1, <2>2 DEF CaptionVectorFresh, Derived, NoneDone
    <2>5. QED
        BY <1>1, <2>1, <2>3, <2>4 DEF BatchFresh
<1>4. CASE EmbedBatch(d)
    <2>1. /\ job' = job /\ text' = text /\ capvec' = capvec /\ thumbs' = thumbs
          /\ at[d] = "embed"
          /\ (at'[d] = "write" /\ batch' = batch) \/ at'[d] = "rest"
        BY <1>1, <1>4 DEF EmbedBatch, queue, derived, Goto, TypeOK
    <2>2. QED
        BY <1>1, <2>1 DEF CaptionVectorFresh, Derived, BatchFresh
<1>5. CASE WriteVector(d)
    <2>1. /\ job' = job /\ text' = text /\ thumbs' = thumbs /\ batch' = batch
          /\ at[d] = "write" /\ at'[d] = "mark"
          /\ held'[d] \in Photos /\ batch[d][held'[d]] # NoText
          /\ capvec' = [capvec EXCEPT ![held'[d]] = batch[d][held'[d]]]
        BY <1>1, <1>5 DEF WriteVector, Unwritten, Lowest, queue, Goto, TypeOK
    <2>2. /\ capvec'[held'[d]] = text[held'[d]] /\ text[held'[d]] # NoText
          /\ job[<<held'[d], "caption_embed">>].st # "none"
          /\ \A p \in Photos : p # held'[d] => capvec'[p] = capvec[p]
        BY <1>1, <2>1 DEF BatchFresh, TypeOK
    <2>3. CaptionVectorFresh' /\ Derived'
        BY <1>1, <2>1, <2>2 DEF CaptionVectorFresh, Derived
    <2>4. QED
        BY <1>1, <2>1, <2>2, <2>3 DEF BatchFresh
<1>6. CASE MarkVector(d)
    <2>1. /\ job' = Complete(job, held[d], "caption_embed")
          /\ text' = text /\ capvec' = capvec /\ thumbs' = thumbs
          /\ at[d] = "mark" /\ at'[d] \in {"rest", "write"}
          /\ \A p \in Photos : batch'[d][p] # NoText => batch'[d][p] = batch[d][p]
        BY <1>1, <1>6 DEF MarkVector, derived, Goto, TypeOK
    <2>2. \A k \in Keys :
              /\ job'[k].st = "done" => job[k].st = "done" \/ k = <<held[d], "caption_embed">>
              /\ job'[k].st = "none" => job[k].st = "none"
        BY <1>1, <2>1, CompleteRow
    <2>3. capvec[held[d]] = text[held[d]]
        BY <1>1, <2>1 DEF BatchFresh
    <2>4. CaptionVectorFresh'
        BY <1>1, <2>1, <2>2, <2>3 DEF CaptionVectorFresh
    <2>5. Derived'
        BY <1>1, <2>1, <2>2 DEF Derived
    <2>6. QED
        BY <1>1, <2>1, <2>2, <2>4, <2>5 DEF BatchFresh
<1>7. CASE ~(CompleteHeld(d) \/ EnterVectors(d) \/ EmbedBatch(d) \/ WriteVector(d) \/ MarkVector(d))
    <2>1. NoneDone
        BY <1>1, <1>7, PassQuiet
    <2>2. SameWords /\ at'[d] \notin {"embed", "write", "mark", "settle"}
        BY <1>1, <1>7
           DEF SameWords, Pass, BeginPass, Select, ClaimHeld, ThumbnailsDry, EmbedsDry, TaxonomyDry,
               EnterCaptions, CaptionsDry, Enter, Leave, Goto, derived, TypeOK
    <2>3. QED
        BY <2>1, <2>2, WordsStay
<1>8. QED
    BY <1>2, <1>3, <1>4, <1>5, <1>6, <1>7

\* The strengthened invariant survives every step.
LEMMA NextFreshInv ==
    ASSUME SoleWorker
    PROVE  FreshInv /\ [Next]_vars => FreshInv'
<1> SUFFICES ASSUME FreshInv, [Next]_vars PROVE FreshInv'
    OBVIOUS
<1> DEFINE Kept == CaptionVectorFresh' /\ Derived' /\ \A e \in Drainers : BatchFresh(e)'
<1>1. OutputInv' /\ TypeOK
    BY NextOutputInv DEF FreshInv, OutputInv, BookInv
<1>2. ASSUME NEW d \in Drainers, Pass(d) PROVE Kept
    BY <1>2, HandlerFresh, PassFresh
<1>3. ASSUME NEW d \in Drainers, QueueFails(d) \/ WorkerCrash(d) \/ WorkerStart(d) PROVE Kept
    <2>1. SameWords /\ NoneDone
        BY <1>1, <1>3, QuietTable
           DEF QueueFails, WorkerCrash, WorkerStart, queue, derived, SameWords
    <2>2. at'[d] \in {"rest", "down"}
        BY <1>1, <1>3 DEF QueueFails, WorkerCrash, WorkerStart, Forget, Goto, TypeOK
    <2>3. QED
        BY <2>1, <2>2, WordsStay
<1>4. ASSUME App \/ BackendFlips PROVE Kept
    <2>1. NoneDone
        BY <1>1, <1>4, AppQuiet, QuietTable DEF BackendFlips, queue
    <2>2. SameWords
        BY <1>4 DEF App, InsertPhoto, EnqueueNext, ReprocessOne, Reprocess, ResetStage, AppCrash,
                    BackendFlips, derived, SameWords
    <2>3. ASSUME NEW d \in Drainers PROVE Still(d) /\ batch' = batch
        BY <1>1, <1>4
           DEF App, InsertPhoto, EnqueueNext, ReprocessOne, Reprocess, ResetStage, AppCrash,
               Forget, BackendFlips, run, Still, SoleWorker, TypeOK
    <2>4. CASE Drainers = {}
        BY <1>1, <2>1, <2>2, <2>4 DEF FreshInv, CaptionVectorFresh, Derived, NoneDone, SameWords,
                                      Keys, Stages
    <2>5. CASE Drainers # {}
        BY <2>1, <2>2, <2>3, <2>5, WordsStay
    <2>6. QED
        BY <2>4, <2>5
<1>5. ASSUME UNCHANGED vars PROVE Kept
    BY <1>5 DEF vars, queue, derived, run, FreshInv, CaptionVectorFresh, Derived, BatchFresh, VectorAgrees
<1>6. QED
    BY <1>1, <1>2, <1>3, <1>4, <1>5 DEF Next, FreshInv

\* One worker: once a re-caption is over, the vector the photo is searched by
\* embeds the caption it has now, whatever crashed or was reset in between.
THEOREM CaptionVectorsFresh ==
    ASSUME SoleWorker
    PROVE  Spec => []CaptionVectorFresh
<1>1. Init => FreshInv
    BY InitOutputInv
       DEF Init, FreshInv, CaptionVectorFresh, Derived, BatchFresh, EmptyTable, Absent, Keys, Stages
<1>2. FreshInv => CaptionVectorFresh
    BY DEF FreshInv
<1>3. QED
    BY <1>1, <1>2, NextFreshInv, PTL DEF Spec
=============================================================================
