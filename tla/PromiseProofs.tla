--------------------------- MODULE PromiseProofs ---------------------------
(***************************************************************************)
(* With one worker the ingest pipeline implements Backlog, for any         *)
(* library, any captions and any bounds: every step of the pipeline is a   *)
(* step of Backlog or changes nothing that Backlog tells.                  *)
(***************************************************************************)
EXTENDS IngestProofs

-----------------------------------------------------------------------------
(* From rows of the job table to steps of Backlog.                         *)

Made(k) == HasOutput(k[1], k[2])

\* What Backlog tells of key k is the same after the step.
SameTries(k) == Failures(k)' = Failures(k)
SameRow(k)   == State(k)' = State(k) /\ SameTries(k)
SameMade(k)  == Made(k)' <=> Made(k)

SameRows  == \A k \in Keys : SameRow(k)
SameThere == \A k \in Keys : SameMade(k)

\* A key is a photo and a stage, and its row tells one of Backlog's states.
LEMMA RowTypes ==
    ASSUME TypeOK, NEW k \in Keys
    PROVE  /\ k = <<k[1], k[2]>> /\ k[1] \in Photos /\ k[2] \in Stages
           /\ State(k) \in Promise!States /\ Failures(k) \in Nat
<1>1. k = <<k[1], k[2]>> /\ k[1] \in Photos /\ k[2] \in Stages
    BY DEF Keys
<1>2. job[k].st \in Statuses /\ job[k].tries \in Nat
    BY DEF TypeOK, JobTable
<1>3. QED
    BY <1>1, <1>2 DEF State, Failures, Statuses, Promise!States

\* Claims, crashes, restarts and requeues do not show.
LEMMA ToStutter ==
    ASSUME SameRows, SameThere
    PROVE  UNCHANGED Promise!vars
<1>1. [k \in Keys |-> State(k)]' = [k \in Keys |-> State(k)]
    BY DEF SameRows, SameRow
<1>2. [k \in Keys |-> Failures(k)]' = [k \in Keys |-> Failures(k)]
    BY DEF SameRows, SameRow, SameTries
<1>3. {k \in Keys : HasOutput(k[1], k[2])}' = {k \in Keys : HasOutput(k[1], k[2])}
    BY DEF SameThere, SameMade, Made
<1>4. QED
    BY <1>1, <1>2, <1>3 DEF Promise!vars

\* Missing rows become pending, or done with their output there (enqueue, record_done_at).
LEMMA ToQueue ==
    ASSUME TypeOK', SameThere,
           \A k \in Keys : /\ SameTries(k)
                           /\ \/ State(k)' = State(k)
                              \/ State(k) = "none" /\ State(k)' = "owed"
                              \/ State(k) = "none" /\ State(k)' = "done" /\ Made(k)
    PROVE  Promise!Queue
<1>1. [k \in Keys |-> Failures(k)]' = [k \in Keys |-> Failures(k)]
    BY DEF SameTries
<1>2. {k \in Keys : HasOutput(k[1], k[2])}' = {k \in Keys : HasOutput(k[1], k[2])}
    BY DEF SameThere, SameMade, Made
<1>3. \A k \in Keys : State(k)' \in Promise!States
    <2> SUFFICES ASSUME NEW k \in Keys PROVE State(k)' \in Promise!States
        OBVIOUS
    <2>1. job'[k].st \in Statuses
        BY DEF TypeOK, JobTable
    <2>2. QED
        BY <2>1 DEF State, Statuses, Promise!States
<1>4. [k \in Keys |-> State(k)]' \in [Keys -> Promise!States]
    BY <1>3
<1>5. QED
    BY <1>1, <1>2, <1>4 DEF Promise!Queue, Made

\* Rows are made fresh: the endpoints' resets, and the one of a re-caption.
LEMMA ToRenew ==
    ASSUME TypeOK, TypeOK', SameThere, Renews
    PROVE  Promise!Renew
<1>1. {k \in Keys : HasOutput(k[1], k[2])}' = {k \in Keys : HasOutput(k[1], k[2])}
    BY DEF SameThere, SameMade, Made
<1>2. \A k \in Keys :
          \/ SameRow(k)
          \/ State(k)' = "owed" /\ Failures(k)' = 0
    BY DEF Renews, Fresh, SameRow, SameTries, State, Failures
<1>3. \A k \in Keys : State(k)' \in Promise!States /\ Failures(k)' \in Nat
    <2> SUFFICES ASSUME NEW k \in Keys
                 PROVE  State(k)' \in Promise!States /\ Failures(k)' \in Nat
        OBVIOUS
    <2>1. job'[k].st \in Statuses /\ job'[k].tries \in Nat
        BY DEF TypeOK, JobTable
    <2>2. QED
        BY <2>1 DEF State, Failures, Statuses, Promise!States
<1>4. /\ [k \in Keys |-> State(k)]' \in [Keys -> Promise!States]
      /\ [k \in Keys |-> Failures(k)]' \in [Keys -> Nat]
    BY <1>3
<1>5. \A k \in Keys :
          \/ /\ [j \in Keys |-> State(j)]'[k] = [j \in Keys |-> State(j)][k]
             /\ [j \in Keys |-> Failures(j)]'[k] = [j \in Keys |-> Failures(j)][k]
          \/ /\ [j \in Keys |-> State(j)]'[k] = "owed"
             /\ [j \in Keys |-> Failures(j)]'[k] = 0
    BY <1>2 DEF SameRow, SameTries
<1>6. QED
    BY <1>1, <1>4, <1>5 DEF Promise!Renew

\* A handler writes or erases the output of the job in its hands.
LEMMA ToWork ==
    ASSUME NEW k \in Keys, State(k) = "owed", SameRows,
           \A j \in Keys : j # k => SameMade(j)
    PROVE  Promise!Work(k)
<1> DEFINE H == {j \in Keys : HasOutput(j[1], j[2])}
<1>1. /\ [j \in Keys |-> State(j)]' = [j \in Keys |-> State(j)]
      /\ [j \in Keys |-> Failures(j)]' = [j \in Keys |-> Failures(j)]
    BY DEF SameRows, SameRow, SameTries
<1>2. [j \in Keys |-> State(j)][k] = "owed"
    OBVIOUS
<1>3. \A j \in Keys : j # k => (j \in H' <=> j \in H)
    BY DEF SameMade, Made
<1>4. H' \subseteq Keys /\ H \subseteq Keys
    OBVIOUS
<1>5. H' = H \union {k} \/ H' = H \ {k}
    <2> HIDE DEF H
    <2>1. CASE k \in H'
        BY <1>3, <1>4, <2>1
    <2>2. CASE k \notin H'
        BY <1>3, <1>4, <2>2
    <2>3. QED
        BY <2>1, <2>2
<1>6. QED
    BY <1>1, <1>2, <1>5 DEF Promise!Work

\* complete(): the one row is done.
LEMMA ToFinish ==
    ASSUME NEW k \in Keys, State(k) = "owed", SameThere,
           Made(k) \/ k \in Photos \X MayFindNothing,
           State(k)' = "done", Failures(k)' = 0,
           \A j \in Keys : j # k => SameRow(j)
    PROVE  Promise!Finish(k)
<1>1. [j \in Keys |-> Failures(j)]' = [[j \in Keys |-> Failures(j)] EXCEPT ![k] = 0]
    BY DEF SameRow, SameTries
<1>2. {j \in Keys : HasOutput(j[1], j[2])}' = {j \in Keys : HasOutput(j[1], j[2])}
    BY DEF SameThere, SameMade, Made
<1>3. [j \in Keys |-> State(j)]' = [[j \in Keys |-> State(j)] EXCEPT ![k] = "done"]
    BY DEF SameRow
<1>4. /\ [j \in Keys |-> State(j)][k] = "owed"
      /\ k \in {j \in Keys : HasOutput(j[1], j[2])} \union (Photos \X MayFindNothing)
    BY DEF Made
<1>5. QED
    BY <1>1, <1>2, <1>3, <1>4 DEF Promise!Finish

\* fail(): one attempt more, and parked after the last.
LEMMA ToFail ==
    ASSUME NEW k \in Keys, State(k) = "owed", SameThere,
           Failures(k)' = Failures(k) + 1,
           State(k)' = IF Failures(k)' = MaxAttempts THEN "parked" ELSE "owed",
           \A j \in Keys : j # k => SameRow(j)
    PROVE  Promise!Fail(k)
<1> DEFINE S == [j \in Keys |-> State(j)]
           T == [j \in Keys |-> Failures(j)]
<1>1. T' = [T EXCEPT ![k] = @ + 1]
    BY DEF SameRow, SameTries
<1>2. {j \in Keys : HasOutput(j[1], j[2])}' = {j \in Keys : HasOutput(j[1], j[2])}
    BY DEF SameThere, SameMade, Made
<1>3. S' = [S EXCEPT ![k] = IF T'[k] = MaxAttempts THEN "parked" ELSE "owed"]
    BY DEF SameRow
<1>4. S[k] = "owed"
    OBVIOUS
<1>5. QED
    BY <1>1, <1>2, <1>3, <1>4 DEF Promise!Fail

-----------------------------------------------------------------------------
(* One worker: what it has read to embed is owed still.                    *)

\* The captions of the batch are those of pending jobs until each is marked.
BatchOwed(d) ==
    /\ at[d] \in {"embed", "write", "mark"} =>
           \A p \in Photos : batch[d][p] # NoText => job[<<p, "caption_embed">>].st = "pending"
    /\ at[d] = "mark" => batch[d][held[d]] # NoText

\* Only a vector is erased before it is written.
Erasing(d) == at[d] = "erased" => stage[d] = "embed"

\* Finish needs its output to be there, and the batch its jobs to be owed: a step of
\* the pipeline is one of Backlog only under OutputInv, BatchOwed and Erasing.
PromiseInv == OutputInv /\ \A d \in Drainers : BatchOwed(d) /\ Erasing(d)

\* A drainer that stands still keeps its batch owed while rows are only renewed.
LEMMA RenewOwed ==
    ASSUME TypeOK, Renews, NEW d \in Drainers, BatchOwed(d), Still(d), batch' = batch
    PROVE  BatchOwed(d)'
<1>1. \A p \in Photos : <<p, "caption_embed">> \in Keys
    BY DEF Keys, Stages
<1>2. Fresh.st = "pending"
    BY DEF Fresh
<1>3. QED
    BY <1>1, <1>2 DEF BatchOwed, Still, Renews

\* The photos EnterVectors reads are pending, and those it dates are not among them.
LEMMA VectorsOwed ==
    ASSUME TypeOK, NEW d \in Drainers, EnterVectors(d)
    PROVE  BatchOwed(d)'
<1> DEFINE vectored == {p \in Photos : capvec[p] # NoText}
           missing  == {p \in Captioned \union vectored : job[<<p, "caption_embed">>].st = "none"}
           new      == (missing \ vectored) \X {"caption_embed"}
           dated    == (missing \intersect vectored) \X {"caption_embed"}
           queued   == Enqueue(job, new)
           read     == FirstFew(Pending(queued, "caption_embed") \intersect Captioned)
           rows     == {p \in read : text[p] # Blank}
<1>1. /\ job' = RecordDone(queued, dated) /\ job \in JobTable /\ queued \in JobTable
      /\ batch' = [batch EXCEPT ![d] = [p \in Photos |-> IF p \in rows THEN text[p] ELSE NoText]]
      /\ at'[d] \in {"rest", "embed"}
    BY EnqueueType DEF EnterVectors, TypeOK, Goto
<1>2. ASSUME NEW p \in Photos, batch'[d][p] # NoText
      PROVE  queued[<<p, "caption_embed">>].st = "pending"
    <2>1. p \in rows
        BY <1>1, <1>2 DEF TypeOK
    <2>2. p \in Pending(queued, "caption_embed")
        BY <2>1 DEF FirstFew
    <2>3. QED
        BY <2>2 DEF Pending
<1>3. \A k \in Keys : queued[k].st = "pending" => k \notin dated
    <2>1. \A k \in dated : k \notin new /\ job[k].st = "none"
        OBVIOUS
    <2> HIDE DEF new, dated
    <2>2. QED
        BY <1>1, <2>1 DEF Enqueue, JobTable
<1>4. \A p \in Photos : <<p, "caption_embed">> \in Keys
    BY DEF Keys, Stages
<1>5. \A k \in Keys : k \notin dated => job'[k] = queued[k]
    <2> HIDE DEF queued, dated
    <2> QED BY <1>1 DEF RecordDone, JobTable
<1>6. ASSUME NEW p \in Photos, batch'[d][p] # NoText
      PROVE  job'[<<p, "caption_embed">>].st = "pending"
    <2> HIDE DEF queued, dated, rows
    <2> QED BY <1>2, <1>3, <1>4, <1>5, <1>6
<1>7. QED
    BY <1>1, <1>6 DEF BatchOwed

\* The app only renews rows.
LEMMA AppRenews ==
    ASSUME TypeOK, App
    PROVE  Renews
<1>1. ASSUME NEW p \in Photos, InsertPhoto(p) \/ EnqueueNext(p) PROVE Renews
    BY <1>1, RenewTable DEF InsertPhoto, EnqueueNext
<1>2. ASSUME NEW p \in Photos, NEW s \in Stages, ReprocessOne(p, s) PROVE Renews
    BY <1>2, RenewTable DEF ReprocessOne
<1>3. ASSUME NEW r \in Ranges, Reprocess(r[1], r[2]) PROVE Renews
    BY <1>3, RenewTable DEF Reprocess
<1>4. ASSUME NEW s \in Stages, ResetStage(s) PROVE Renews
    BY <1>4, RenewTable DEF ResetStage
<1>5. CASE AppCrash
    BY <1>5, RenewTable DEF AppCrash
<1>6. QED
    BY <1>1, <1>2, <1>3, <1>4, <1>5 DEF App

\* The batch stays owed through every step.
LEMMA NextPromiseInv ==
    ASSUME SoleWorker
    PROVE  PromiseInv /\ [Next]_vars => PromiseInv'
<1> SUFFICES ASSUME PromiseInv, [Next]_vars PROVE PromiseInv'
    OBVIOUS
<1> DEFINE Kept(d) == BatchOwed(d)' /\ Erasing(d)'
<1>1. TypeOK /\ OutputInv' /\ \A d \in Drainers : BatchOwed(d) /\ Erasing(d)
    BY NextOutputInv DEF PromiseInv, OutputInv, BookInv
<1>2. ASSUME NEW d \in Drainers, Pass(d) PROVE Kept(d)
    <2>1. CASE EnterVectors(d)
        BY <1>1, <2>1, VectorsOwed DEF EnterVectors, Goto, TypeOK, Erasing
    <2>2. CASE EmbedBatch(d)
        BY <1>1, <2>2 DEF EmbedBatch, Goto, queue, BatchOwed, Erasing, TypeOK
    <2>3. CASE WriteVector(d)
        BY <1>1, <2>3 DEF WriteVector, Unwritten, Goto, queue, BatchOwed, Erasing, TypeOK
    <2>4. CASE MarkVector(d)
        <3>1. /\ job' = Complete(job, held[d], "caption_embed")
              /\ at[d] = "mark" /\ at'[d] \in {"rest", "write"}
              /\ \A p \in Photos : batch'[d][p] # NoText => batch[d][p] # NoText /\ p # held[d]
            BY <1>1, <2>4 DEF MarkVector, Goto, TypeOK
        <3>2. \A p \in Photos : p # held[d] =>
                  job'[<<p, "caption_embed">>] = job[<<p, "caption_embed">>]
            BY <1>1, <3>1 DEF Complete, SetStatus, TypeOK, JobTable, Keys, Stages
        <3>3. QED
            BY <1>1, <3>1, <3>2 DEF BatchOwed, Erasing
    <2>5. CASE ~(EnterVectors(d) \/ EmbedBatch(d) \/ WriteVector(d) \/ MarkVector(d))
        <3>1. at'[d] \notin {"embed", "write", "mark"} /\ (at'[d] = "erased" => stage'[d] = "embed")
            BY <1>1, <1>2, <2>5
               DEF Pass, Handler, BeginPass, Select, ClaimHeld, CompleteHeld, ThumbnailsDry,
                   EmbedsDry, TaxonomyDry, EnterCaptions, CaptionsDry, ThumbnailWork, EmbedErase,
                   EmbedWork, EmbedStamp, TaxonomyClear, TaxonomyWrite, CaptionSkip, CaptionWork,
                   CaptionNote, HandlerFails, HandlerFaults, FailHeld, Enter, Leave, Goto, AtWork,
                   TypeOK
        <3>2. QED
            BY <3>1 DEF BatchOwed, Erasing
    <2>6. QED
        BY <2>1, <2>2, <2>3, <2>4, <2>5
<1>3. ASSUME NEW d \in Drainers, QueueFails(d) \/ WorkerCrash(d) \/ WorkerStart(d)
      PROVE  Kept(d)
    <2>1. at'[d] \in {"rest", "down"}
        BY <1>1, <1>3 DEF QueueFails, WorkerCrash, WorkerStart, Forget, Goto, TypeOK
    <2>2. QED
        BY <2>1 DEF BatchOwed, Erasing
<1>4. ASSUME App \/ BackendFlips, NEW d \in Drainers PROVE Kept(d)
    <2>1. Renews
        BY <1>1, <1>4, AppRenews, RenewTable DEF PromiseInv, OutputInv, BackendFlips, queue
    <2>2. Still(d) /\ batch' = batch
        BY <1>1, <1>4
           DEF App, InsertPhoto, EnqueueNext, ReprocessOne, Reprocess, ResetStage, AppCrash,
               Forget, BackendFlips, run, Still, SoleWorker, TypeOK
    <2>3. QED
        BY <1>1, <2>1, <2>2, RenewOwed DEF Still, Erasing
<1>5. ASSUME UNCHANGED vars, NEW d \in Drainers PROVE Kept(d)
    BY <1>1, <1>5 DEF vars, queue, run, BatchOwed, Erasing
<1>6. QED
    BY <1>1, <1>2, <1>3, <1>4, <1>5 DEF Next, PromiseInv, SoleWorker

-----------------------------------------------------------------------------
(* Every step is a step of Backlog, or none.                               *)

\* A row that is left alone tells the same.
LEMMA SameRowKept ==
    ASSUME NEW k, job'[k] = job[k]
    PROVE  SameRow(k)
<1>1. State(k)' = State(k)
    BY DEF State
<1>2. Failures(k)' = Failures(k)
    BY DEF Failures
<1>3. QED
    BY <1>1, <1>2 DEF SameRow, SameTries

\* A step that leaves the table and the outputs alone does not show.
LEMMA QuietStutter ==
    ASSUME job' = job,
           thumbs' = thumbs, vectors' = vectors, stamped' = stamped, tags' = tags, text' = text,
           capvec' = capvec
    PROVE  UNCHANGED Promise!vars
<1>1. SameRows
    BY DEF SameRows, SameRow, SameTries, State, Failures
<1>2. SameThere
    BY DEF SameThere, SameMade, Made, HasOutput
<1>3. QED
    BY <1>1, <1>2, ToStutter

\* An enqueue is a Queue.
LEMMA EnqueuePromise ==
    ASSUME TypeOK, TypeOK', NEW K, job' = Enqueue(job, K), SameThere
    PROVE  Promise!Queue
<1>1. \A k \in Keys : SameRow(k) \/ (SameTries(k) /\ State(k) = "none" /\ State(k)' = "owed")
    <2> SUFFICES ASSUME NEW k \in Keys
                 PROVE  SameRow(k) \/ (SameTries(k) /\ State(k) = "none" /\ State(k)' = "owed")
        OBVIOUS
    <2>1. job'[k] = IF k \in K /\ job[k].st = "none" THEN Fresh ELSE job[k]
        BY DEF Enqueue
    <2>2. CASE job'[k] = job[k]
        BY <2>2, SameRowKept
    <2>3. CASE job'[k] # job[k]
        <3>1. job[k].st = "none" /\ job'[k].st = "pending" /\ job'[k].tries = 0
            BY <2>1, <2>3 DEF Fresh
        <3>2. QED
            BY <3>1 DEF SameTries, State, Failures
    <2>4. QED
        BY <2>2, <2>3
<1>2. QED
    BY <1>1, ToQueue DEF SameRow

\* The app's requests: an enqueue, a reset, or nothing that shows.
LEMMA AppPromise ==
    ASSUME TypeOK, TypeOK', App
    PROVE  Promise!Next \/ UNCHANGED Promise!vars
<1>1. /\ thumbs' = thumbs /\ vectors' = vectors /\ stamped' = stamped
      /\ tags' = tags /\ text' = text /\ capvec' = capvec
    BY DEF App, InsertPhoto, EnqueueNext, ReprocessOne, Reprocess, ResetStage, AppCrash, derived
<1>2. SameThere
    BY <1>1 DEF SameThere, SameMade, Made, HasOutput
<1>3. CASE job' = job
    BY <1>1, <1>3, QuietStutter
<1>4. ASSUME NEW K, job' = Enqueue(job, K) PROVE Promise!Next
    BY <1>2, <1>4, EnqueuePromise DEF Promise!Next
<1>5. CASE Renews
    BY <1>2, <1>5, ToRenew DEF Promise!Next
<1>6. job' = job \/ (\E K : job' = Enqueue(job, K)) \/ Renews
    BY AppRenews
<1>7. QED
    BY <1>3, <1>4, <1>5, <1>6

\* The handlers: a write, an erasure, a failed attempt, or a renewed vector job.
LEMMA HandlerPromise ==
    ASSUME SoleWorker, PromiseInv, TypeOK', NEW d \in Drainers, Handler(d)
    PROVE  Promise!Next \/ UNCHANGED Promise!vars
<1>0. PICK k \in Keys : k = <<held[d], stage[d]>>
    BY DEF PromiseInv, OutputInv, BookInv, TypeOK, Keys
<1>1. /\ TypeOK /\ Grip(d) /\ Placed(d) /\ Erasing(d) /\ job \in JobTable
      /\ held[d] \in Photos /\ stage[d] \in Stages
      /\ k = <<held[d], stage[d]>> /\ k[1] = held[d] /\ k[2] = stage[d]
    BY <1>0 DEF PromiseInv, OutputInv, BookInv, TypeOK
<1>2. at[d] \in Holding
    BY DEF Handler, ThumbnailWork, EmbedErase, EmbedWork, EmbedStamp, TaxonomyClear, TaxonomyWrite,
           CaptionSkip, CaptionWork, CaptionNote, HandlerFails, HandlerFaults, AtWork, Holding
<1>3. State(k) = "owed" /\ RowOK(job[k])
    BY <1>1, <1>2 DEF Grip, State, PromiseInv, OutputInv, BookInv, AttemptBudget, RowOK
<1>4. \A j \in Keys : j = <<j[1], j[2]>>
    BY RowTypes, <1>1
<1>5. CASE \/ ThumbnailWork(d) \/ EmbedErase(d) \/ EmbedWork(d) \/ EmbedStamp(d)
           \/ TaxonomyClear(d) \/ TaxonomyWrite(d) \/ CaptionWork(d)
    <2>1. job' = job
        BY <1>5 DEF ThumbnailWork, EmbedErase, EmbedWork, EmbedStamp, TaxonomyClear, TaxonomyWrite,
                    CaptionWork, queue
    <2>2. SameRows
        BY <2>1, SameRowKept DEF SameRows
    <2>3. ASSUME NEW j \in Keys, j # k PROVE SameMade(j)
        <3>1. ~(j[1] = held[d] /\ j[2] = stage[d])
            BY <1>1, <1>4, <2>3
        <3>2. CASE ThumbnailWork(d)
            BY <1>1, <3>1, <3>2 DEF ThumbnailWork, AtWork, SameMade, Made, HasOutput
        <3>3. CASE EmbedErase(d)
            BY <1>1, <3>1, <3>3 DEF EmbedErase, AtWork, SameMade, Made, HasOutput
        <3>4. CASE EmbedWork(d)
            BY <1>1, <3>1, <3>4 DEF EmbedWork, Erasing, SameMade, Made, HasOutput
        <3>5. CASE EmbedStamp(d)
            BY <1>1, <3>1, <3>5 DEF EmbedStamp, SameMade, Made, HasOutput
        <3>6. CASE TaxonomyClear(d)
            BY <1>1, <3>1, <3>6 DEF TaxonomyClear, AtWork, SameMade, Made, HasOutput, TypeOK
        <3>7. CASE TaxonomyWrite(d)
            BY <1>1, <3>1, <3>7 DEF TaxonomyWrite, Placed, SameMade, Made, HasOutput, TypeOK
        <3>8. CASE CaptionWork(d)
            BY <1>1, <3>1, <3>8 DEF CaptionWork, AtWork, SameMade, Made, HasOutput, TypeOK
        <3>9. QED
            BY <1>5, <3>2, <3>3, <3>4, <3>5, <3>6, <3>7, <3>8
    <2>4. QED
        BY <1>1, <1>3, <2>2, <2>3, ToWork DEF Promise!Next
<1>6. CASE CaptionSkip(d)
    BY <1>6, QuietStutter DEF CaptionSkip, queue, derived
<1>7. CASE CaptionNote(d)
    <2>1. SameThere
        BY <1>7 DEF CaptionNote, derived, SameThere, SameMade, Made, HasOutput
    <2>2. Renews
        BY <1>1, <1>7, RenewTable DEF CaptionNote
    <2>3. QED
        BY <1>1, <2>1, <2>2, ToRenew DEF Promise!Next
<1>8. CASE HandlerFails(d) \/ HandlerFaults(d)
    <2>1. FailHeld(d)
        BY <1>8 DEF HandlerFails, HandlerFaults
    <2>2. SameThere
        BY <2>1 DEF FailHeld, derived, SameThere, SameMade, Made, HasOutput
    <2>3. /\ job[k].st \in {"pending", "running"} /\ job[k].tries < MaxAttempts
          /\ job[k].tries \in Nat /\ job \in JobTable
        BY <1>1, <1>2, <1>3 DEF Grip, RowOK, JobTable
    <2>4. /\ job'[k] = [st |-> IF job[k].tries + 1 >= MaxAttempts THEN "failed" ELSE "pending",
                        tries |-> job[k].tries + 1]
          /\ \A j \in Keys : j # k => job'[j] = job[j]
        BY <1>1, <2>1, <2>3 DEF FailHeld, Fail, JobTable
    <2>5. Failures(k)' = Failures(k) + 1
        BY <2>3, <2>4 DEF Failures
    <2>6. State(k)' = IF Failures(k)' = MaxAttempts THEN "parked" ELSE "owed"
        BY <2>3, <2>4, JobsAssumption DEF Failures, State
    <2>7. \A j \in Keys : j # k => SameRow(j)
        BY <2>4, SameRowKept
    <2>8. QED
        BY <1>1, <1>3, <2>2, <2>5, <2>6, <2>7, ToFail DEF Promise!Next
<1>9. QED
    BY <1>5, <1>6, <1>7, <1>8 DEF Handler

\* The vectors' jobs are found missing: queued, or dated if the vector is there.
LEMMA VectorsPromise ==
    ASSUME TypeOK, TypeOK', NEW d \in Drainers, EnterVectors(d)
    PROVE  Promise!Queue
<1> DEFINE vectored == {p \in Photos : capvec[p] # NoText}
           missing  == {p \in Captioned \union vectored : job[<<p, "caption_embed">>].st = "none"}
           new      == (missing \ vectored) \X {"caption_embed"}
           dated    == (missing \intersect vectored) \X {"caption_embed"}
<1>1. job' = RecordDone(Enqueue(job, new), dated)
    BY DEF EnterVectors
<1>2. \A k \in dated : job[k].st = "none" /\ Made(k)
    BY DEF Made, HasOutput
<1>3. SameThere
    BY DEF EnterVectors, derived, SameThere, SameMade, Made, HasOutput
<1>4. ASSUME NEW k \in Keys
      PROVE  \/ job'[k] = job[k]
             \/ job[k].st = "none" /\ job'[k] = Fresh
             \/ job[k].st = "none" /\ job'[k].st = "done" /\ Made(k)
    <2> HIDE DEF new, dated
    <2> QED BY <1>1, <1>2 DEF RecordDone, Enqueue
<1>5. ASSUME NEW k \in Keys
      PROVE  /\ SameTries(k)
             /\ \/ State(k)' = State(k)
                \/ State(k) = "none" /\ State(k)' = "owed"
                \/ State(k) = "none" /\ State(k)' = "done" /\ Made(k)
    <2>1. CASE job'[k] = job[k]
        BY <2>1, SameRowKept DEF SameRow
    <2>2. CASE job[k].st = "none" /\ job'[k] = Fresh
        BY <2>2 DEF Fresh, SameTries, Failures, State
    <2>3. CASE job[k].st = "none" /\ job'[k].st = "done" /\ Made(k)
        BY <2>3 DEF SameTries, Failures, State
    <2>4. QED
        BY <1>4, <2>1, <2>2, <2>3
<1>6. QED
    BY <1>3, <1>5, ToQueue

\* Marking a held job done.
LEMMA CompletePromise ==
    ASSUME TypeOK, NEW p \in Photos, NEW s \in Stages,
           job' = Complete(job, p, s), State(<<p, s>>) = "owed",
           HasOutput(p, s) \/ s \in MayFindNothing, SameThere
    PROVE  Promise!Next
<1>1. PICK k \in Keys : k = <<p, s>> /\ k[1] = p /\ k[2] = s
    BY DEF Keys
<1>2. job[k].st \in {"pending", "running"}
    BY <1>1, RowTypes DEF State, TypeOK, JobTable, Statuses
<1>3. job'[k].st = "done" /\ \A j \in Keys : j # k => job'[j] = job[j]
    BY <1>1, <1>2 DEF Complete, SetStatus, TypeOK, JobTable
<1>4. State(k)' = "done" /\ Failures(k)' = 0
    BY <1>3 DEF State, Failures
<1>5. \A j \in Keys : j # k => SameRow(j)
    BY <1>3, SameRowKept
<1>6. State(k) = "owed" /\ (Made(k) \/ k \in Photos \X MayFindNothing)
    BY <1>1 DEF Made
<1>7. QED
    BY <1>4, <1>5, <1>6, ToFinish DEF Promise!Next

\* The rest of the pass: backfills queue, the claim does not show, complete() finishes,
\* and a vector is the work of its pending job.
LEMMA PassPromise ==
    ASSUME SoleWorker, PromiseInv, TypeOK', NEW d \in Drainers, Pass(d), ~Handler(d)
    PROVE  Promise!Next \/ UNCHANGED Promise!vars
<1>1. /\ TypeOK /\ Grip(d) /\ Placed(d) /\ BatchOwed(d) /\ job \in JobTable
      /\ held[d] \in Photos /\ stage[d] \in Stages /\ "caption_embed" \in Stages
      /\ \A p \in Photos, s \in Stages : <<p, s>> \in Keys
    BY DEF PromiseInv, OutputInv, BookInv, TypeOK, Keys, Stages
<1>2. CASE BeginPass(d) \/ ThumbnailsDry(d) \/ EnterCaptions(d)
    <2>1. SameThere
        BY <1>2 DEF BeginPass, ThumbnailsDry, EnterCaptions, derived, SameThere, SameMade, Made, HasOutput
    <2>2. \E K : job' = Enqueue(job, K)
        BY <1>2 DEF BeginPass, ThumbnailsDry, EnterCaptions
    <2>3. QED
        BY <1>1, <2>1, <2>2, EnqueuePromise DEF Promise!Next
<1>3. CASE \/ Select(d) \/ EmbedsDry(d) \/ TaxonomyDry(d) \/ CaptionsDry(d) \/ EmbedBatch(d)
    BY <1>3, QuietStutter DEF Select, EmbedsDry, TaxonomyDry, CaptionsDry, EmbedBatch, queue, derived
<1>4. CASE ClaimHeld(d)
    <2>1. PICK k \in Keys : k = <<held[d], stage[d]>>
        BY <1>1
    <2>2. job[k].st = "pending" /\ job' = Claim(job, held[d], stage[d])
        BY <1>1, <1>4, <2>1 DEF ClaimHeld, Grip
    <2>3. /\ job'[k].st = "running" /\ job'[k].tries = job[k].tries
          /\ \A j \in Keys : j # k => job'[j] = job[j]
        BY <1>1, <2>1, <2>2 DEF Claim, SetStatus, JobTable
    <2>4. SameRow(k)
        BY <2>2, <2>3 DEF SameRow, SameTries, State, Failures
    <2>5. SameRows
        BY <2>3, <2>4, SameRowKept DEF SameRows
    <2>6. SameThere
        BY <1>4 DEF ClaimHeld, derived, SameThere, SameMade, Made, HasOutput
    <2>7. QED
        BY <2>5, <2>6, ToStutter
<1>5. CASE CompleteHeld(d)
    <2>1. SameThere
        BY <1>5 DEF CompleteHeld, derived, SameThere, SameMade, Made, HasOutput
    <2>2. /\ HasOutput(held[d], stage[d]) \/ stage[d] \in MayFindNothing
          /\ State(<<held[d], stage[d]>>) = "owed"
        BY <1>1, <1>5 DEF CompleteHeld, Placed, Grip, Holding, State
    <2>3. QED
        BY <1>1, <1>5, <2>1, <2>2, CompletePromise DEF CompleteHeld
<1>6. CASE EnterVectors(d)
    BY <1>1, <1>6, VectorsPromise DEF Promise!Next
<1>7. CASE WriteVector(d)
    <2>1. PICK p \in Photos : batch[d][p] # NoText /\ capvec' = [capvec EXCEPT ![p] = batch[d][p]]
        BY <1>7 DEF WriteVector, Unwritten
    <2>2. PICK k \in Keys : k = <<p, "caption_embed">> /\ k[2] = "caption_embed"
        BY <1>1
    <2>3. State(k) = "owed"
        BY <1>1, <1>7, <2>1, <2>2 DEF WriteVector, BatchOwed, State
    <2>4. SameRows
        BY <1>7, SameRowKept DEF WriteVector, queue, SameRows
    <2>5. ASSUME NEW j \in Keys, j # k PROVE SameMade(j)
        <3>1. ~(j[1] = p /\ j[2] = "caption_embed")
            BY <1>1, <2>2, <2>5, RowTypes
        <3>2. QED
            BY <1>1, <1>7, <2>1, <3>1, RowTypes DEF WriteVector, SameMade, Made, HasOutput, TypeOK
    <2>6. QED
        BY <2>2, <2>3, <2>4, <2>5, ToWork DEF Promise!Next
<1>8. CASE MarkVector(d)
    <2>1. SameThere
        BY <1>8 DEF MarkVector, derived, SameThere, SameMade, Made, HasOutput
    <2>2. HasOutput(held[d], "caption_embed") /\ State(<<held[d], "caption_embed">>) = "owed"
        BY <1>1, <1>8 DEF MarkVector, Placed, BatchOwed, State, HasOutput
    <2>3. QED
        BY <1>1, <1>8, <2>1, <2>2, CompletePromise DEF MarkVector
<1>9. QED
    BY <1>2, <1>3, <1>4, <1>5, <1>6, <1>7, <1>8 DEF Pass

\* Crashes, failing statements and restarts do not show: a requeue owes what was owed.
LEMMA FaultPromise ==
    ASSUME TypeOK, NEW d \in Drainers, QueueFails(d) \/ WorkerCrash(d) \/ WorkerStart(d)
    PROVE  UNCHANGED Promise!vars
<1>1. CASE QueueFails(d) \/ WorkerCrash(d)
    BY <1>1, QuietStutter DEF QueueFails, WorkerCrash, queue, derived
<1>2. CASE WorkerStart(d)
    <2>1. ASSUME NEW k \in Keys PROVE SameRow(k)
        <3>1. job'[k] = IF job[k].st = "running" THEN [job[k] EXCEPT !.st = "pending"] ELSE job[k]
            BY <1>2 DEF WorkerStart, RequeueStalled
        <3>2. CASE job[k].st = "running"
            <4>1. job'[k].st = "pending" /\ job'[k].tries = job[k].tries
                BY <3>1, <3>2 DEF TypeOK, JobTable
            <4>2. QED
                BY <3>2, <4>1 DEF SameRow, SameTries, State, Failures
        <3>3. CASE job[k].st # "running"
            BY <3>1, <3>3, SameRowKept
        <3>4. QED
            BY <3>2, <3>3
    <2>2. SameThere
        BY <1>2 DEF WorkerStart, derived, SameThere, SameMade, Made, HasOutput
    <2>3. QED
        BY <2>1, <2>2, ToStutter DEF SameRows
<1>3. QED
    BY <1>1, <1>2

\* Every step of the pipeline is a step of Backlog, or changes nothing in it.
LEMMA NextPromise ==
    ASSUME SoleWorker
    PROVE  PromiseInv /\ [Next]_vars => [Promise!Next]_(Promise!vars)
<1> SUFFICES ASSUME PromiseInv, [Next]_vars
             PROVE  Promise!Next \/ UNCHANGED Promise!vars
    OBVIOUS
<1>1. TypeOK /\ TypeOK'
    BY NextTypeOK DEF PromiseInv, OutputInv, BookInv
<1>2. ASSUME NEW d \in Drainers, Pass(d) PROVE Promise!Next \/ UNCHANGED Promise!vars
    BY <1>1, <1>2, HandlerPromise, PassPromise
<1>3. ASSUME NEW d \in Drainers, QueueFails(d) \/ WorkerCrash(d) \/ WorkerStart(d)
      PROVE  UNCHANGED Promise!vars
    BY <1>1, <1>3, FaultPromise
<1>4. CASE App
    BY <1>1, <1>4, AppPromise
<1>5. CASE BackendFlips \/ UNCHANGED vars
    BY <1>5, QuietStutter DEF BackendFlips, vars, queue, derived
<1>6. QED
    BY <1>2, <1>3, <1>4, <1>5 DEF Next

\* The empty library owes nothing.
LEMMA InitPromise == Init => PromiseInv /\ Promise!Init
<1> SUFFICES ASSUME Init PROVE PromiseInv /\ Promise!Init
    OBVIOUS
<1>1. PromiseInv
    BY InitOutputInv DEF Init, PromiseInv, BatchOwed, Erasing
<1>2. \A k \in Keys : State(k) = "none" /\ Failures(k) = 0
    BY DEF Init, EmptyTable, Absent, State, Failures
<1>3. {k \in Keys : HasOutput(k[1], k[2])} = {}
    BY DEF Init, HasOutput, Keys, Stages
<1>4. QED
    BY <1>1, <1>2, <1>3 DEF Promise!Init

\* One worker: the pipeline implements Backlog. Through claims, crashes, restarts,
\* outages, half-written outputs and resets at any point, work that was asked for is
\* owed until its output is there or its last attempt has failed.
THEOREM PromiseKept ==
    ASSUME SoleWorker
    PROVE  Spec => KeepsPromise
<1>1. Init => PromiseInv /\ Promise!Init
    BY InitPromise
<1>2. PromiseInv /\ [Next]_vars => PromiseInv'
    BY NextPromiseInv
<1>3. PromiseInv /\ [Next]_vars => [Promise!Next]_(Promise!vars)
    BY NextPromise
<1>4. QED
    BY <1>1, <1>2, <1>3, PTL DEF Spec, KeepsPromise, Promise!Spec
=============================================================================
