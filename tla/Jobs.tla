-------------------------------- MODULE Jobs --------------------------------
(***************************************************************************)
(* The per-photo, per-stage job table (ingest/jobs.py, table `jobs` of     *)
(* db/schema.sql) and the statements the program runs on it.  A table is   *)
(* a function from <<photo, stage>> to a row; every operator takes the     *)
(* table and returns the table one SQL statement leaves.                   *)
(*                                                                         *)
(* The connection is autocommit, so a statement is the unit of atomicity:  *)
(* a caller that runs two of them is two actions.                          *)
(***************************************************************************)
EXTENDS Naturals, Sequences

CONSTANTS
    Photos,        \* photo ids; the queue serves the lowest id first
    MaxAttempts    \* MAX_ATTEMPTS

ASSUME JobsAssumption ==
    /\ Photos \subseteq Nat /\ Photos # {}
    /\ MaxAttempts \in Nat \ {0}

\* The stages, in the order a pass drains them.
StageOrder == <<"thumbnail", "embed", "taxonomy", "caption", "caption_embed">>
Stages == {"thumbnail", "embed", "taxonomy", "caption", "caption_embed"}

\* "none" stands for a row that does not exist.
Statuses == {"none", "pending", "running", "done", "failed"}
Keys == Photos \X Stages

Absent == [st |-> "none", tries |-> 0]
Fresh  == [st |-> "pending", tries |-> 0]

JobTable == [Keys -> [st : Statuses, tries : Nat]]

EmptyTable == [k \in Keys |-> Absent]

\* The photos a stage could claim.
Pending(job, s) == {p \in Photos : job[<<p, s>>].st = "pending"}

\* The stages of a range, both ends included.
StageRange(from, to) ==
    {s \in Stages : \E i \in 1..5 :
        /\ StageOrder[i] = s
        /\ \E f \in 1..i : StageOrder[f] = from
        /\ \E t \in i..5 : StageOrder[t] = to}

-----------------------------------------------------------------------------
\* Bug variant of Enqueue: an upsert, so a backfill revives parked jobs.
EnqueueUpsert(job, K) ==
    [k \in Keys |-> IF k \in K /\ job[k].st \in {"none", "failed"} THEN Fresh ELSE job[k]]

\* INSERT ... ON CONFLICT DO NOTHING, for every key of K.
Enqueue(job, K) ==
    [k \in Keys |-> IF k \in K /\ job[k].st = "none" THEN Fresh ELSE job[k]]

\* UPDATE status, whatever the status was; a missing row stays missing.
SetStatus(job, p, s, st) ==
    IF job[<<p, s>>].st = "none" THEN job ELSE [job EXCEPT ![<<p, s>>].st = st]

\* claim_next's second statement.  Its first, the SELECT, is the caller's.
Claim(job, p, s) == SetStatus(job, p, s, "running")

Complete(job, p, s) == SetStatus(job, p, s, "done")

\* A row for work that was done before the stage existed.
RecordDone(job, K) ==
    [k \in Keys |-> IF k \in K THEN [st |-> "done", tries |-> job[k].tries] ELSE job[k]]

\* Bug variant of Fail: one attempt too many.
FailLate(job, p, s) ==
    LET n == job[<<p, s>>].tries + 1
    IN  IF job[<<p, s>>].st = "none"
        THEN job
        ELSE [job EXCEPT ![<<p, s>>] =
                 [st |-> IF n > MaxAttempts THEN "failed" ELSE "pending", tries |-> n]]

\* One more attempt: retried while attempts remain, then parked as failed.
Fail(job, p, s) ==
    LET n == job[<<p, s>>].tries + 1
    IN  IF job[<<p, s>>].st = "none"
        THEN job
        ELSE [job EXCEPT ![<<p, s>>] =
                 [st |-> IF n >= MaxAttempts THEN "failed" ELSE "pending", tries |-> n]]

\* A reprocess: pending again with a clean attempt count.
Reset(job, K) ==
    [k \in Keys |-> IF k \in K /\ job[k].st # "none" THEN Fresh ELSE job[k]]

\* Bug variant of RequeueStalled: a status no statement selects.
RequeueAsStalled(job) ==
    [k \in Keys |-> IF job[k].st = "running"
                    THEN [job[k] EXCEPT !.st = "stalled"] ELSE job[k]]

\* A worker's first statement: whatever is running is taken for an orphan.
RequeueStalled(job) ==
    [k \in Keys |-> IF job[k].st = "running"
                    THEN [job[k] EXCEPT !.st = "pending"] ELSE job[k]]
=============================================================================
