----------------------------- MODULE SlotsProofs -----------------------------
(***************************************************************************)
(* What holds of the image_embed slot for any catalog of models and any    *)
(* widths, any library, any number of requests that switch and any bounds. *)
(***************************************************************************)
EXTENDS Slots, TLAPS

-----------------------------------------------------------------------------
(* The statements on the job table, as a switch and the embed stage use    *)
(* them.                                                                   *)

\* One row per photo of the embed stage.
EmbedRow(table, p) == table[<<p, "embed">>].st

\* The stages a switch of the slot makes again begin with the embedding.
LEMMA SwitchInvalidatesEmbed ==
    ASSUME NEW p \in Photos
    PROVE  <<p, "embed">> \in Invalidated /\ <<p, "embed">> \in Keys
<1>1. StageOrder[2] = "embed" /\ StageOrder[3] = "taxonomy"
    BY DEF StageOrder
<1>2. "embed" \in StageRange("embed", "taxonomy")
    <2>1. 2 \in 1..5 /\ 2 \in 1..2 /\ 3 \in 2..5
        OBVIOUS
    <2>2. QED
        BY <1>1, <2>1 DEF StageRange, Stages
<1>3. QED
    BY <1>2 DEF Invalidated, Keys, Stages

\* After the requeue of a switch every photo waits to be embedded, whatever its
\* row was, or if it had none.
LEMMA RequeueRow ==
    ASSUME NEW J \in JobTable
    PROVE  Requeue(J) \in JobTable /\ \A p \in Photos : EmbedRow(Requeue(J), p) = "pending"
<1>1. Enqueue(J, Invalidated) \in JobTable
    BY DEF Enqueue, JobTable, Fresh, Statuses
<1>2. Requeue(J) \in JobTable
    BY <1>1 DEF Requeue, Reset, JobTable, Fresh, Statuses
<1>3. ASSUME NEW p \in Photos PROVE EmbedRow(Requeue(J), p) = "pending"
    BY SwitchInvalidatesEmbed DEF EmbedRow, Requeue, Reset, Enqueue, Fresh
<1>4. QED
    BY <1>2, <1>3

\* A worker that starts makes running rows pending and leaves the others.
LEMMA StalledRow ==
    ASSUME NEW J \in JobTable
    PROVE  /\ RequeueStalled(J) \in JobTable
           /\ \A p \in Photos : EmbedRow(RequeueStalled(J), p) =
                  IF EmbedRow(J, p) = "running" THEN "pending" ELSE EmbedRow(J, p)
<1>1. RequeueStalled(J) \in JobTable
    BY DEF RequeueStalled, JobTable, Statuses
<1>2. ASSUME NEW p \in Photos
      PROVE  EmbedRow(RequeueStalled(J), p) =
                 IF EmbedRow(J, p) = "running" THEN "pending" ELSE EmbedRow(J, p)
    BY SwitchInvalidatesEmbed DEF RequeueStalled, EmbedRow, JobTable
<1>3. QED
    BY <1>1, <1>2

\* The heal of a start: a table of another width owes every photo its vector.
LEMMA HealRow ==
    ASSUME NEW J \in JobTable, NEW same \in BOOLEAN,
           NEW K, K = RequeueStalled(IF same THEN J ELSE Requeue(J))
    PROVE  /\ K \in JobTable
           /\ \A p \in Photos : EmbedRow(K, p) = "done" => same /\ EmbedRow(J, p) = "done"
BY RequeueRow, StalledRow

\* Claiming, completing and failing change the row in hand and no other.
LEMMA SettleRow ==
    ASSUME NEW J \in JobTable, NEW p \in Photos,
           NEW K \in {Claim(J, p, "embed"), Complete(J, p, "embed"), Fail(J, p, "embed")}
    PROVE  /\ K \in JobTable
           /\ \A q \in Photos \ {p} : EmbedRow(K, q) = EmbedRow(J, q)
           /\ K = Claim(J, p, "embed") /\ EmbedRow(J, p) = "pending" => EmbedRow(K, p) = "running"
           /\ K = Fail(J, p, "embed") /\ EmbedRow(J, p) # "done" => EmbedRow(K, p) # "done"
<1>1. \A q \in Photos : <<q, "embed">> \in Keys
    BY DEF Keys, Stages
<1>2. CASE K \in {Claim(J, p, "embed"), Complete(J, p, "embed")}
    <2>1. PICK st \in {"running", "done"} : K = SetStatus(J, p, "embed", st)
        BY <1>2 DEF Claim, Complete
    <2>2. K \in JobTable /\ \A q \in Photos \ {p} : EmbedRow(K, q) = EmbedRow(J, q)
        BY <1>1, <2>1 DEF SetStatus, JobTable, Statuses, EmbedRow
    <2>3. EmbedRow(J, p) = "pending" => EmbedRow(Claim(J, p, "embed"), p) = "running"
        BY <1>1 DEF Claim, SetStatus, JobTable, EmbedRow
    <2>4. EmbedRow(J, p) # "done" => EmbedRow(Fail(J, p, "embed"), p) # "done"
        BY <1>1 DEF Fail, JobTable, EmbedRow
    <2>5. QED
        BY <2>2, <2>3, <2>4
<1>3. CASE K = Fail(J, p, "embed")
    <2>1. K \in JobTable /\ \A q \in Photos \ {p} : EmbedRow(K, q) = EmbedRow(J, q)
        BY <1>1, <1>3 DEF Fail, JobTable, Statuses, EmbedRow
    <2>2. EmbedRow(J, p) = "pending" => EmbedRow(Claim(J, p, "embed"), p) = "running"
        BY <1>1 DEF Claim, SetStatus, JobTable, EmbedRow
    <2>3. EmbedRow(J, p) # "done" => EmbedRow(Fail(J, p, "embed"), p) # "done"
        BY <1>1 DEF Fail, JobTable, EmbedRow
    <2>4. QED
        BY <2>1, <2>2, <2>3
<1>4. QED
    BY <1>2, <1>3

-----------------------------------------------------------------------------
(* Type correctness.                                                       *)

\* Whoever is about to use a key, a pixel size or a vector has one: a request that
\* is past its choice, an apply that is past the unload, a worker that calls.
Equipped ==
    /\ \A t \in Threads :
         at[t] \in {"previewed", "asked", "push", "drop", "register"} => want[t] \in Models
    /\ point \in {"ensure", "call"} => px \in Models
    /\ point = "write" => got \in Vectors

TypeInv == TypeOK /\ Equipped

\* Whatever is stored and whatever the environment names, the key that is
\* resolved is one of the catalog.
LEMMA ResolveType ==
    ASSUME NEW s, NEW o
    PROVE  /\ ServiceBoot(o) \in Models /\ Resolve(s, o) \in Models
           /\ s \in Models => Resolve(s, o) = s
BY SlotsAssumption DEF Resolve, ServiceBoot

\* ensure_vec_dim keeps the types of the table.
LEMMA RebuildType ==
    ASSUME TypeOK, NEW m \in Models, Rebuild(Dim[m])
    PROVE  /\ width' \in {Dim[n] : n \in Models}
           /\ vec' \in [Photos -> Vectors \union {NoVector}]
BY DEF TypeOK, Rebuild

\* The initial states are well typed.
LEMMA InitTypes == Init => TypeInv
<1> SUFFICES ASSUME Init PROVE TypeInv
    OBVIOUS
<1>1. Selected \in Models /\ slots \in Models
    BY ResolveType DEF Init, Selected
<1>2. job \in JobTable
    BY DEF Init, Enqueue, EmptyTable, JobTable, Absent, Fresh, Statuses
<1>3. photo \in Photos
    BY JobsAssumption DEF Init
<1>4. QED
    BY <1>1, <1>2, <1>3 DEF Init, TypeInv, TypeOK, Equipped, Points

\* So are the states after a step of the app.
LEMMA AppTypes == TypeInv /\ AppNext => TypeInv'
<1> SUFFICES ASSUME TypeInv, AppNext PROVE TypeInv'
    OBVIOUS
<1> USE DEF TypeInv, TypeOK, Equipped, Threads, Applying
<1>1. ASSUME NEW t \in Users, NEW m \in Models, Preview(t, m) PROVE TypeInv'
    BY <1>1 DEF Preview, database, service, worker, history
<1>2. ASSUME NEW t \in Users, Commit(t) PROVE TypeInv'
    <2>1. want[t] \in Models
        BY <1>2 DEF Commit
    <2>2. /\ width' \in {Dim[n] : n \in Models}
          /\ vec' \in [Photos -> Vectors \union {NoVector}]
        BY <1>2, <2>1, RebuildType DEF Commit
    <2>3. job' \in JobTable
        BY <1>2, RequeueRow DEF Commit
    <2>4. late' \subseteq Photos
        BY <1>2 DEF Commit, Held
    <2>5. QED
        BY <1>2, <2>1, <2>2, <2>3, <2>4 DEF Commit, service, worker, budget
<1>3. ASSUME NEW t \in Users, Push(t) PROVE TypeInv'
    BY <1>3, ResolveType DEF Push, Selected, database, service, worker, history
<1>4. CASE Ask
    BY <1>4, ResolveType DEF Ask, Selected, database, service, worker, history
<1>5. CASE Answer
    BY <1>5 DEF Answer, Compare, database, service, worker, history
<1>6. ASSUME NEW t \in Threads, PushLost(t) PROVE TypeInv'
    BY <1>6 DEF PushLost, Done, database, service, worker, history
<1>7. QED
    BY <1>1, <1>2, <1>3, <1>4, <1>5, <1>6 DEF AppNext

\* After a step of the models service, or of the governor.
LEMMA ServiceTypes == TypeInv /\ (ApplyNext \/ Evict \/ ServiceRestart) => TypeInv'
<1> SUFFICES ASSUME TypeInv, ApplyNext \/ Evict \/ ServiceRestart PROVE TypeInv'
    OBVIOUS
<1> USE DEF TypeInv, TypeOK, Equipped, Threads, Applying
<1>1. ASSUME NEW t \in Threads, Apply(t) PROVE TypeInv'
    BY <1>1 DEF Apply, Done, database, worker, budget
<1>2. ASSUME NEW t \in Threads, UnloadUnit(t) PROVE TypeInv'
    BY <1>2 DEF UnloadUnit, Unload, database, worker, history, budget
<1>3. ASSUME NEW t \in Threads, DropWorker(t) PROVE TypeInv'
    BY <1>3 DEF DropWorker, database, worker, history, budget
<1>4. ASSUME NEW t \in Threads, Register(t) PROVE TypeInv'
    BY <1>4 DEF Register, Done, database, worker, history, budget
<1>5. CASE Evict
    BY <1>5 DEF Evict, database, requests, worker, history, budget
<1>6. CASE ServiceRestart
    BY <1>6, ResolveType DEF ServiceRestart, ServiceFresh, database, Points
<1>7. QED
    BY <1>1, <1>2, <1>3, <1>4, <1>5, <1>6 DEF ApplyNext

\* After a step of the worker's pass.
LEMMA WorkerTypes == TypeInv /\ WorkerNext => TypeInv'
<1> SUFFICES ASSUME TypeInv, WorkerNext PROVE TypeInv'
    OBVIOUS
<1> USE DEF TypeInv, TypeOK, Equipped, Points
<1>1. CASE BeginPass
    BY <1>1, ResolveType DEF BeginPass, Selected, database, service, requests, history, budget
<1>2. ASSUME NEW p \in Photos, ClaimPhoto(p) PROVE TypeInv'
    <2>1. job' \in JobTable
        BY <1>2, SettleRow DEF ClaimPhoto
    <2>2. QED
        BY <1>2, <2>1 DEF ClaimPhoto, service, requests, history, budget
<1>3. CASE EndPass
    BY <1>3 DEF EndPass, database, service, requests, history, budget
<1>4. CASE FetchSpec \/ Reserve
    BY <1>4 DEF FetchSpec, Reserve, Load, database, requests, budget
<1>5. CASE Embed
    BY <1>5 DEF Embed, Vectors, database, service, requests, budget
<1>6. CASE Write
    BY <1>6 DEF Write, service, requests, history, budget
<1>7. CASE Stamp
    BY <1>7 DEF Stamp, service, requests, history, budget
<1>8. CASE Settle
    <2>1. job' \in JobTable
        BY <1>8, SettleRow DEF Settle
    <2>2. QED
        BY <1>8, <2>1 DEF Settle, service, requests, history, budget
<1>9. QED
    BY <1>1, <1>2, <1>3, <1>4, <1>5, <1>6, <1>7, <1>8 DEF WorkerNext

\* After a restart of all containers.
LEMMA RestartTypes == \A o \in Overrides : TypeInv /\ Restart(o) => TypeInv'
<1> SUFFICES ASSUME NEW o \in Overrides, TypeInv, Restart(o) PROVE TypeInv'
    OBVIOUS
<1>1. Resolve(stored, o) \in Models /\ ServiceBoot(o) \in Models
    BY ResolveType
<1>2. /\ width' \in {Dim[n] : n \in Models}
      /\ vec' \in [Photos -> Vectors \union {NoVector}]
    BY <1>1, RebuildType DEF Restart, Heal, TypeInv
<1>3. job' \in JobTable
    BY HealRow DEF Restart, Heal, TypeInv, TypeOK
<1>4. late' \subseteq Photos
    BY DEF Restart, TypeInv, TypeOK
<1>5. QED
    BY <1>1, <1>2, <1>3, <1>4
       DEF Restart, ServiceFresh, TypeInv, TypeOK, Equipped, Points, Threads

\* And after every step.
LEMMA NextTypes == TypeInv /\ [Next]_vars => TypeInv'
<1>1. TypeInv /\ UNCHANGED vars => TypeInv'
    BY DEF TypeInv, TypeOK, Equipped, vars, database, service, requests, worker, history, budget
<1>2. QED
    BY <1>1, AppTypes, ServiceTypes, WorkerTypes, RestartTypes DEF Next

\* What every later proof starts from.
LEMMA Typed == Spec => []TypeInv
BY InitTypes, NextTypes, PTL DEF Spec

\* Every variable of the slot stays in its domain: what is stored, pushed, loaded and
\* stamped is a key of the catalog, and the declared width is one of its widths.
THEOREM TypeCorrect == Spec => []TypeOK
<1>1. TypeInv => TypeOK
    BY DEF TypeInv
<1>2. QED
    BY <1>1, Typed, PTL

-----------------------------------------------------------------------------
(* What a finished embedding shows.                                        *)

\* What was written of a photo is the selected model's.
Right(p) == vec[p] = [by |-> Selected, px |-> Selected]

\* The worker's grip on the photo in its hands.  Until the row is settled it is not
\* done, so the old vector may go first; and unless something crossed the
\* work, each statement finds what the one before it left, all of one model.
Carried ==
    /\ point \in Holding => EmbedRow(job, photo) \in {"running", "pending"}
    /\ photo \notin late =>
         /\ point \in {"write", "stamp"} => name = Selected
         /\ point = "write" => got = [by |-> Selected, px |-> Selected]
         /\ point \in {"stamp", "settle"} => Right(photo)
         /\ point = "settle" => stamp[photo] = Selected

DoneInv == Carried /\ DoneIsSelected

LEMMA InitDone == Init => DoneInv
<1> SUFFICES ASSUME Init PROVE DoneInv
    OBVIOUS
<1>1. point = "idle"
    BY DEF Init
<1>2. ASSUME NEW p \in Photos PROVE job[<<p, "embed">>].st # "done"
    BY <1>2, SwitchInvalidatesEmbed DEF Init, Enqueue, EmptyTable, Absent, Fresh
<1>3. QED
    BY <1>1, <1>2 DEF DoneInv, Carried, DoneIsSelected, Holding

\* Steps that leave the tables and the worker alone leave it so.
LEMMA DoneStutter ==
    ASSUME DoneInv, UNCHANGED <<database, late, point, photo, name, got>>
    PROVE  DoneInv'
BY DEF DoneInv, Carried, DoneIsSelected, Right, EmbedRow, Selected, database

\* A switch commits: no row is done, and the work in hand counts as crossed.
LEMMA DoneCommit ==
    ASSUME TypeInv, DoneInv, NEW t \in Users, Commit(t)
    PROVE  DoneInv'
<1>1. \A p \in Photos : EmbedRow(job', p) = "pending"
    BY RequeueRow DEF Commit, TypeInv, TypeOK
<1>2. photo \in Photos /\ UNCHANGED <<point, photo>> /\ late' = late \union Held
    BY DEF Commit, worker, TypeInv, TypeOK
<1>3. Carried'
    <2>1. CASE point \in Holding
        BY <2>1, <1>1, <1>2 DEF Carried, Held
    <2>2. CASE point \notin Holding
        BY <2>2, <1>2 DEF Carried, Holding, Points
    <2>3. QED
        BY <2>1, <2>2
<1>4. DoneIsSelected'
    BY <1>1 DEF DoneIsSelected, EmbedRow
<1>5. QED
    BY <1>3, <1>4 DEF DoneInv

\* All containers restart: nothing is in hand, and what is still done was made for a
\* table of the same width; another selection counts as crossing every photo.
LEMMA DoneRestart ==
    ASSUME TypeInv, DoneInv, NEW o \in Overrides, Restart(o)
    PROVE  DoneInv'
<1>1. point' = "idle"
    BY DEF Restart
<1>2. Carried'
    BY <1>1 DEF Carried, Holding
<1>3. DoneIsSelected'
    <2>1. SUFFICES ASSUME NEW p \in Photos, p \notin late', EmbedRow(job', p) = "done"
                   PROVE  Right(p)' /\ stamp'[p] = Selected'
        BY DEF DoneIsSelected, EmbedRow, Right
    <2>2. Resolve(stored, o) = Selected /\ p \notin late
        BY <2>1 DEF Restart
    <2>3. Selected' = Selected
        BY <2>2 DEF Restart, Selected
    <2>4. width = Dim[Resolve(stored, o)] /\ EmbedRow(job, p) = "done"
        <3> DEFINE same == width = Dim[Resolve(stored, o)]
        <3>1. job' = RequeueStalled(IF same THEN job ELSE Requeue(job))
            BY DEF Restart, Heal
        <3>2. same \in BOOLEAN /\ job \in JobTable
            BY DEF TypeInv, TypeOK
        <3>3. QED
            BY <2>1, <3>1, <3>2, HealRow
    <2>5. vec' = vec /\ stamp' = stamp
        BY <2>4 DEF Restart, Heal, Rebuild
    <2>6. QED
        BY <2>2, <2>3, <2>4, <2>5 DEF DoneInv, DoneIsSelected, Right, EmbedRow
<1>4. QED
    BY <1>2, <1>3 DEF DoneInv

\* The worker's steps.
LEMMA DoneWorker ==
    ASSUME TypeInv, DoneInv, WorkerNext
    PROVE  DoneInv'
<1> USE DEF DoneInv, Carried, DoneIsSelected, Right, EmbedRow, Holding, Points
<1>0. job \in JobTable /\ photo \in Photos /\ vec \in [Photos -> Vectors \union {NoVector}]
      /\ stamp \in [Photos -> Models \union {Unset}]
    BY DEF TypeInv, TypeOK
<1>1. CASE BeginPass
    BY <1>1 DEF BeginPass, Selected, database, history
<1>2. ASSUME NEW p \in Photos, ClaimPhoto(p) PROVE DoneInv'
    <2>1. EmbedRow(job, p) = "pending" /\ job' = Claim(job, p, "embed") /\ photo' = p
          /\ point' \in {"spec", "ensure"}
          /\ UNCHANGED <<override, stored, vec, stamp, late>>
        BY <1>2 DEF ClaimPhoto, Pending, history
    <2>2. /\ \A q \in Photos \ {p} : EmbedRow(job', q) = EmbedRow(job, q)
          /\ EmbedRow(job', p) = "running"
        BY <1>0, <2>1, SettleRow
    <2>3. QED
        BY <2>1, <2>2 DEF Selected
<1>3. CASE EndPass
    BY <1>3 DEF EndPass, Selected, database, history
<1>4. CASE FetchSpec \/ Reserve
    BY <1>4 DEF FetchSpec, Reserve, Selected, database
<1>5. CASE Embed
    <2>1. UNCHANGED <<override, stored, vec, stamp, job, name, photo>> /\ point = "call"
          /\ Selected' = Selected
        BY <1>5 DEF Embed, database, Selected
    <2>2. CASE child = Unset
        BY <1>5, <2>1, <2>2 DEF Embed
    <2>3. CASE child # Unset /\ {child, px, name} = {Selected}
        <3>1. child = Selected /\ px = Selected /\ name = Selected
            BY <2>3
        <3>2. late' = late \ {photo} /\ point' = "write"
              /\ got' = [by |-> Selected, px |-> Selected]
            BY <1>5, <2>3, <3>1 DEF Embed
        <3>3. QED
            BY <2>1, <3>1, <3>2
    <2>4. CASE child # Unset /\ {child, px, name} # {Selected}
        <3>1. late' = late \union {photo} /\ point' = "write"
            BY <1>5, <2>4 DEF Embed
        <3>2. QED
            BY <2>1, <3>1
    <2>5. QED
        BY <2>2, <2>3, <2>4
<1>6. CASE Write
    <2>1. /\ UNCHANGED <<override, stored, stamp, job, name, photo, late>>
          /\ point = "write" /\ Selected' = Selected
          /\ \A q \in Photos \ {photo} : vec'[q] = vec[q]
          /\ point' \in {"stamp", "fault"}
          /\ point' = "stamp" => vec'[photo] = got
        BY <1>6, <1>0 DEF Write, history, Selected
    <2>2. QED
        BY <1>0, <2>1
<1>7. CASE Stamp
    <2>1. /\ UNCHANGED <<override, stored, vec, job, name, photo, late>>
          /\ point = "stamp" /\ point' = "settle" /\ Selected' = Selected
          /\ \A q \in Photos \ {photo} : stamp'[q] = stamp[q]
          /\ stamp'[photo] = name
        BY <1>7, <1>0 DEF Stamp, history, Selected
    <2>2. QED
        BY <1>0, <2>1
<1>8. CASE Settle
    <2>1. /\ UNCHANGED <<override, stored, vec, stamp, photo, late>>
          /\ point' = "claim" /\ Selected' = Selected
        BY <1>8 DEF Settle, history, Selected
    <2>2. \A q \in Photos \ {photo} : EmbedRow(job', q) = EmbedRow(job, q)
        BY <1>8, <1>0, SettleRow DEF Settle
    <2>3. CASE point = "settle"
        BY <2>1, <2>2, <2>3
    <2>4. CASE point = "fault"
        <3>1. EmbedRow(job', photo) # "done"
            BY <1>8, <1>0, <2>4, SettleRow DEF Settle
        <3>2. QED
            BY <2>1, <2>2, <3>1
    <2>5. QED
        BY <1>8, <2>3, <2>4 DEF Settle
<1>9. QED
    BY <1>1, <1>2, <1>3, <1>4, <1>5, <1>6, <1>7, <1>8 DEF WorkerNext

LEMMA NextDone == TypeInv /\ DoneInv /\ [Next]_vars => DoneInv'
<1> SUFFICES ASSUME TypeInv, DoneInv, [Next]_vars PROVE DoneInv'
    OBVIOUS
<1> USE DoneStutter DEF database, worker, history
<1>1. CASE AppNext
    <2>1. ASSUME NEW t \in Users, NEW m \in Models, Preview(t, m) PROVE DoneInv'
        BY <2>1 DEF Preview
    <2>2. ASSUME NEW t \in Users, Push(t) PROVE DoneInv'
        BY <2>2 DEF Push
    <2>3. ASSUME NEW t \in Threads, PushLost(t) PROVE DoneInv'
        BY <2>3 DEF PushLost
    <2>4. CASE Ask \/ Answer
        BY <2>4 DEF Ask, Answer
    <2>5. QED
        BY <1>1, <2>1, <2>2, <2>3, <2>4, DoneCommit DEF AppNext
<1>2. ASSUME NEW t \in Threads, Apply(t) \/ UnloadUnit(t) \/ DropWorker(t) \/ Register(t)
      PROVE DoneInv'
    BY <1>2 DEF Apply, UnloadUnit, DropWorker, Register
<1>3. CASE Evict
    BY <1>3 DEF Evict
<1>4. CASE ServiceRestart
    <2>1. /\ UNCHANGED <<override, stored, vec, stamp, job, photo, name, got, late>>
          /\ point' \in {point, "fault"} /\ (point' # point => point = "call")
        BY <1>4 DEF ServiceRestart
    <2>2. Selected' = Selected
        BY <2>1 DEF Selected
    <2>3. Carried'
        BY <2>1, <2>2 DEF DoneInv, Carried, Right, EmbedRow, Holding, Points
    <2>4. DoneIsSelected'
        BY <2>1, <2>2 DEF DoneInv, DoneIsSelected
    <2>5. QED
        BY <2>3, <2>4 DEF DoneInv
<1>5. CASE UNCHANGED vars
    BY <1>5 DEF vars
<1>6. QED
    BY <1>1, <1>2, <1>3, <1>4, <1>5, DoneWorker, DoneRestart DEF Next, ApplyNext

\* A photo whose embed job is done has a vector the selected model made, of an image
\* resized for it and stamped with its name, through every requeue, heal and restart.
\* This is not promised of a photo that was crossed (late): a switch committed while
\* its job was in hand, another model answered the call, or the environment names
\* another model since.
THEOREM DoneShowsSelected == Spec => []DoneIsSelected
<1>1. Init => DoneInv
    BY InitDone
<1>2. DoneInv => DoneIsSelected
    BY DEF DoneInv
<1>3. QED
    BY <1>1, <1>2, Typed, NextDone, PTL DEF Spec

-----------------------------------------------------------------------------
(* The width of the vector table.                                          *)

\* One request at a time switches the slot: one tab open on the settings page.
OneUser == \A t, u \in Users : t = u

\* What a preview decided is still so when its transaction begins.
Foreseen == \A t \in Users : at[t] = "previewed" => drops[t] = (Dim[want[t]] # width)

WidthInv == Foreseen /\ WidthFits

LEMMA InitWidth == Init => WidthInv
BY DEF Init, WidthInv, Foreseen, WidthFits, Threads

\* Steps that leave the choice, the table and the previews alone.
LEMMA WidthStill ==
    ASSUME WidthInv, UNCHANGED <<override, stored, width, drops>>,
           \A t \in Users : at'[t] = "previewed" => at[t] = "previewed" /\ want'[t] = want[t]
    PROVE  WidthInv'
<1>1. Selected' = Selected
    BY DEF Selected
<1>2. QED
    BY <1>1 DEF WidthInv, Foreseen, WidthFits

\* The app's steps: with one request, no commit comes between another's preview
\* and its commit.
LEMMA WidthApp ==
    ASSUME OneUser, TypeInv, WidthInv, AppNext
    PROVE  WidthInv'
<1>0. at \in [Threads -> Applying \union {"idle", "previewed", "stored", "asked", "push"}]
      /\ want \in [Threads -> Models \union {Unset}] /\ drops \in [Threads -> BOOLEAN]
      /\ Users \subseteq Threads /\ Poller \in Threads /\ Poller \notin Users
    BY SlotsAssumption DEF TypeInv, TypeOK, Threads
<1> USE DEF database, service, worker
<1>1. ASSUME NEW t \in Users, NEW m \in Models, Preview(t, m) PROVE WidthInv'
    <2>1. WidthFits'
        BY <1>1 DEF Preview, WidthInv, WidthFits, Selected
    <2>2. Foreseen'
        BY <1>1, <1>0 DEF Preview, WidthInv, Foreseen
    <2>3. QED
        BY <2>1, <2>2 DEF WidthInv
<1>2. ASSUME NEW t \in Users, Commit(t) PROVE WidthInv'
    <2>1. want[t] \in Models /\ Selected' = want[t]
        BY <1>2, ResolveType DEF Commit, TypeInv, Equipped, Threads, Selected
    <2>2. width' = Dim[want[t]]
        BY <1>0, <1>2, SlotsAssumption DEF Commit, Rebuild, WidthInv, Foreseen
    <2>3. \A u \in Users : at'[u] = "stored"
        BY <1>0, <1>2 DEF Commit, OneUser
    <2>4. QED
        BY <2>1, <2>2, <2>3 DEF WidthInv, WidthFits, Foreseen
<1>3. ASSUME NEW t \in Users, Push(t) PROVE WidthInv'
    BY <1>0, <1>3, WidthStill DEF Push
<1>4. CASE Ask
    BY <1>0, <1>4, WidthStill DEF Ask
<1>5. CASE Answer
    BY <1>0, <1>5, WidthStill DEF Answer
<1>6. ASSUME NEW t \in Threads, PushLost(t) PROVE WidthInv'
    BY <1>0, <1>6, WidthStill DEF PushLost, Done
<1>7. QED
    BY <1>1, <1>2, <1>3, <1>4, <1>5, <1>6 DEF AppNext

\* Nobody else touches the width, except the heal of a start, which makes it right.
LEMMA NextWidth == OneUser /\ TypeInv /\ WidthInv /\ [Next]_vars => WidthInv'
<1> SUFFICES ASSUME OneUser, TypeInv, WidthInv, [Next]_vars PROVE WidthInv'
    OBVIOUS
<1>0. at \in [Threads -> Applying \union {"idle", "previewed", "stored", "asked", "push"}]
      /\ want \in [Threads -> Models \union {Unset}] /\ Users \subseteq Threads
    BY DEF TypeInv, TypeOK, Threads
<1> USE DEF database, requests
<1>1. ASSUME NEW t \in Threads, Apply(t) \/ UnloadUnit(t) \/ DropWorker(t) \/ Register(t)
      PROVE WidthInv'
    BY <1>0, <1>1, WidthStill DEF Apply, UnloadUnit, DropWorker, Register, Done
<1>2. CASE WorkerNext
    <2>1. UNCHANGED <<override, stored, width, drops, at, want>>
        BY <1>2 DEF WorkerNext, BeginPass, ClaimPhoto, EndPass, FetchSpec, Reserve, Embed,
                    Write, Stamp, Settle
    <2>2. QED
        BY <2>1, WidthStill
<1>3. CASE Evict
    BY <1>3, WidthStill DEF Evict
<1>4. CASE ServiceRestart
    BY <1>0, <1>4, WidthStill DEF ServiceRestart, Applying
<1>5. ASSUME NEW o \in Overrides, Restart(o) PROVE WidthInv'
    <2>1. width' = Dim[Selected']
        BY <1>5 DEF Restart, Heal, Rebuild, Selected
    <2>2. QED
        BY <1>0, <1>5, <2>1 DEF Restart, WidthInv, WidthFits, Foreseen
<1>6. CASE UNCHANGED vars
    BY <1>6, WidthStill DEF vars
<1>7. QED
    BY <1>1, <1>2, <1>3, <1>4, <1>5, <1>6, WidthApp DEF Next, ApplyNext

\* With one request that switches, the declared width of photo_vec is that of the
\* selected model's vectors, through switches, a changed environment and restarts.
THEOREM WidthKept == OneUser => (Spec => []WidthFits)
<1> SUFFICES ASSUME OneUser PROVE Spec => []WidthFits
    OBVIOUS
<1>1. TypeInv /\ WidthInv /\ [Next]_vars => WidthInv'
    BY NextWidth
<1>2. WidthInv => WidthFits
    BY DEF WidthInv
<1>3. QED
    BY <1>1, <1>2, InitWidth, Typed, PTL DEF Spec

-----------------------------------------------------------------------------
(* The hand-over from one model to the next.                               *)

\* A child that runs is counted as loaded; and while no key was overtaken, the key
\* in the hands of an apply is the slot's.  Then whatever is wrong is about to be put
\* right: a unit of another model by whoever is in the middle of an apply, a child of
\* another model by whoever has not cleared the table yet.
Handover ==
    /\ resident \/ child = Unset
    /\ ~raced =>
         /\ \A t \in Threads : at[t] \in {"drop", "register"} => want[t] = slots
         /\ spec = slots \/ \E t \in Threads : at[t] \in Applying
         /\ child \in {Unset, slots} \/ \E t \in Threads : at[t] \in {"unload", "drop"}

LEMMA HandoverServes == Handover => ServesSlot
BY DEF Handover, ServesSlot, Applying

LEMMA InitServe == Init => Handover
BY DEF Init, Handover, Threads, Applying

\* Steps that leave the service and the requests in the middle of an apply alone.
LEMMA ServeStill ==
    ASSUME Handover, UNCHANGED <<service, raced>>,
           \A t \in Threads : \/ at'[t] = at[t] /\ want'[t] = want[t]
                              \/ at[t] \notin Applying /\ at'[t] \notin Applying
    PROVE  Handover'
<1>1. UNCHANGED <<slots, spec, child, resident, raced>>
    BY DEF service
<1>2. QED
    BY <1>1 DEF Handover, Applying

\* A load that starts a child has no request past the table with another key in hand:
\* the registered unit is the slot's, or the table is still to be cleared.
LEMMA ServeLoad ==
    ASSUME Handover, Load, UNCHANGED <<slots, spec, at, want>>
    PROVE  Handover'
BY DEF Handover, Load, Applying

\* The steps of an apply.
LEMMA ServeApply ==
    ASSUME TypeInv, Handover, NEW t \in Threads,
           Apply(t) \/ UnloadUnit(t) \/ DropWorker(t) \/ Register(t)
    PROVE  Handover'
<1>0. at \in [Threads -> Applying \union {"idle", "previewed", "stored", "asked", "push"}]
      /\ want \in [Threads -> Models \union {Unset}]
    BY DEF TypeInv, TypeOK
<1> USE DEF Handover, Applying
<1>1. CASE Apply(t)
    BY <1>0, <1>1 DEF Apply, Done
<1>2. CASE UnloadUnit(t)
    BY <1>0, <1>2 DEF UnloadUnit, Unload, history
<1>3. CASE DropWorker(t)
    BY <1>0, <1>3 DEF DropWorker, history
<1>4. CASE Register(t)
    BY <1>0, <1>4 DEF Register, Done, history
<1>5. QED
    BY <1>1, <1>2, <1>3, <1>4

LEMMA NextServe == TypeInv /\ Handover /\ [Next]_vars => Handover'
<1> SUFFICES ASSUME TypeInv, Handover, [Next]_vars PROVE Handover'
    OBVIOUS
<1>0. at \in [Threads -> Applying \union {"idle", "previewed", "stored", "asked", "push"}]
      /\ want \in [Threads -> Models \union {Unset}] /\ Users \subseteq Threads
      /\ Poller \in Threads
    BY DEF TypeInv, TypeOK, Threads
<1> USE DEF history
<1>1. CASE AppNext
    <2> USE <1>0, ServeStill DEF Applying
    <2>1. ASSUME NEW t \in Users, NEW m \in Models, Preview(t, m) PROVE Handover'
        BY <2>1 DEF Preview
    <2>2. ASSUME NEW t \in Users, Commit(t) PROVE Handover'
        BY <2>2 DEF Commit
    <2>3. ASSUME NEW t \in Users, Push(t) PROVE Handover'
        BY <2>3 DEF Push
    <2>4. CASE Ask
        BY <2>4 DEF Ask
    <2>5. CASE Answer
        BY <2>5 DEF Answer, Compare
    <2>6. ASSUME NEW t \in Threads, PushLost(t) PROVE Handover'
        BY <2>6 DEF PushLost, Done
    <2>7. QED
        BY <1>1, <2>1, <2>2, <2>3, <2>4, <2>5, <2>6 DEF AppNext
<1>2. CASE WorkerNext
    <2>1. ASSUME UNCHANGED <<service, requests, raced>> PROVE Handover'
        BY <2>1, ServeStill DEF requests
    <2>2. CASE FetchSpec \/ Reserve
        BY <2>2, ServeLoad DEF FetchSpec, Reserve, requests
    <2>3. ASSUME NEW p \in Photos, ClaimPhoto(p) PROVE Handover'
        BY <2>1, <2>3 DEF ClaimPhoto
    <2>4. CASE BeginPass \/ EndPass \/ Embed \/ Write \/ Stamp \/ Settle
        BY <2>1, <2>4 DEF BeginPass, EndPass, Embed, Write, Stamp, Settle
    <2>5. QED
        BY <1>2, <2>2, <2>3, <2>4 DEF WorkerNext
<1>3. CASE Evict
    BY <1>3 DEF Evict, requests, Handover
<1>4. CASE ServiceRestart
    BY <1>0, <1>4 DEF ServiceRestart, ServiceFresh, Handover, Applying
<1>5. ASSUME NEW o \in Overrides, Restart(o) PROVE Handover'
    BY <1>5 DEF Restart, ServiceFresh, Handover, Applying
<1>6. CASE UNCHANGED vars
    BY <1>6, ServeStill DEF vars, requests
<1>7. QED
    BY <1>1, <1>2, <1>3, <1>4, <1>5, <1>6, ServeApply DEF Next, ApplyNext

\* The service is on one model between pushes, whatever calls and applies were
\* interleaved: the registered unit is the slot's, and no child of the outgoing one
\* runs.  Two windows are excepted: a call that starts the outgoing model between the
\* clearing of the table and the registration, and a push that changes the slot
\* while another apply holds the key it read before.
THEOREM SlotServed == Spec => []ServesSlot
BY HandoverServes, InitServe, NextServe, Typed, PTL DEF Spec
=============================================================================
