-------------------------------- MODULE Slots --------------------------------
(***************************************************************************)
(* The image_embed slot: which model embeds the photos, and what a switch  *)
(* of it does to the index (models/slots.py, db/vectors.py, web/deps.py    *)
(* and the settings and resources routes of web/app.py, modelsvc/slots.py, *)
(* inference/remote_embedder.py, ingest/embed.py).                         *)
(*                                                                         *)
(* Four parties share it.  Requests of the app store a choice, in one      *)
(* transaction with the reset of the embed and taxonomy jobs, and then     *)
(* push it; a poll pushes it again where the models service reports other  *)
(* slots.  The service has no database: it starts on the defaults, and     *)
(* applies a push in steps that no lock holds together.  The worker reads  *)
(* the selected key once a pass, and embeds photo by photo with whatever   *)
(* child the service has.                                                  *)
(***************************************************************************)
EXTENDS Jobs

CONSTANTS
    Models,       \* the catalog keys offered for the slot on this profile
    Dim,          \* Dim[m]: the width of the vectors of m
    Default,      \* the profile's default
    Overrides,    \* values the environment gives: keys, or names that are none
    Unset,        \* no stored choice, no child, no cached spec
    NoVector,     \* no row in photo_vec
    Users,        \* requests that switch the slot
    Poller,       \* the poll of the resource bar
    MaxSwitches, MaxRestarts, MaxLosses    \* bounds

ASSUME SlotsAssumption ==
    /\ Default \in Models /\ Unset \notin Models
    /\ Dim \in [Models -> Nat]
    /\ Overrides # {}
    /\ Poller \notin Users
    /\ MaxSwitches \in Nat /\ MaxRestarts \in Nat /\ MaxLosses \in Nat

VARIABLES
    override,   \* IVMS777_EMBED_MODEL_NAME
    stored,     \* the row of app_settings
    width,      \* the declared width of photo_vec
    vec,        \* vec[p]: who made p's vector, from an image resized for whom
    stamp,      \* photos.embedding_model
    job,        \* the jobs table
    at,         \* at[t]: where a request is
    want,       \* want[t]: the key it has in hand
    drops,      \* drops[t]: its preview says the vectors go
    slots,      \* the service's own selection
    spec,       \* the model the registered load callable starts
    child,      \* the model of the child in the slot manager's table
    resident,   \* whether the registry counts the unit as loaded
    point, photo, name, px, got, tried,   \* the worker's pass
    late,       \* history: photos whose work a switch, a push or a reset crossed
    raced,      \* history: a key was overtaken between an unload and its registration
    switches, restarts, losses

database == <<override, stored, width, vec, stamp, job>>
service  == <<slots, spec, child, resident>>
requests == <<at, want, drops>>
worker   == <<point, photo, name, px, got, tried>>
history  == <<late, raced>>
budget   == <<switches, restarts, losses>>
vars     == <<database, service, requests, worker, history, budget>>

Threads == Users \union {Poller}
Applying == {"unload", "drop", "register"}
Points == {"idle", "claim", "spec", "ensure", "call", "write", "stamp", "settle", "fault"}
Holding == Points \ {"idle", "claim"}
Vectors == [by : Models, px : Models]

\* resolve_key: the stored choice, the environment's if it is offered, the default.
ServiceBoot(o) == IF o \in Models THEN o ELSE Default
Resolve(s, o)  == IF s \in Models THEN s ELSE ServiceBoot(o)
Selected == Resolve(stored, override)

\* Bug variant of Invalidated: the tags are made again, the vectors are not.
InvalidatedTags == Photos \X {"taxonomy"}

\* INVALIDATES["image_embed"], over every photo.
Invalidated == Photos \X StageRange("embed", "taxonomy")
Requeue(table) == Reset(Enqueue(table, Invalidated), Invalidated)

Held == IF point \in Holding THEN {photo} ELSE {}

Init ==
    /\ override \in Overrides
    /\ stored = Unset
    /\ width = Dim[Selected]
    /\ vec = [p \in Photos |-> NoVector]
    /\ stamp = [p \in Photos |-> Unset]
    /\ job = Enqueue(EmptyTable, Photos \X {"embed"})
    /\ at = [t \in Threads |-> "idle"]
    /\ want = [t \in Threads |-> Unset]
    /\ drops = [t \in Threads |-> FALSE]
    /\ slots = ServiceBoot(override) /\ spec = slots
    /\ child = Unset /\ resident = FALSE
    /\ point = "idle" /\ photo = CHOOSE p \in Photos : TRUE
    /\ name = Unset /\ px = Unset /\ got = NoVector /\ tried = {}
    /\ late = {} /\ raced = FALSE
    /\ switches = 0 /\ restarts = 0 /\ losses = 0

-----------------------------------------------------------------------------
(* The app: switching, and the poll that pushes again.                     *)

Done(t) == at' = [at EXCEPT ![t] = "idle"] /\ want' = [want EXCEPT ![t] = Unset]

\* switch() runs preview() before its transaction: what it decides is kept.
Preview(t, m) ==
    /\ t \in Users /\ at[t] = "idle"
    /\ switches < MaxSwitches
    /\ m # Selected
    /\ at' = [at EXCEPT ![t] = "previewed"]
    /\ want' = [want EXCEPT ![t] = m]
    /\ drops' = [drops EXCEPT ![t] = Dim[m] # width]
    /\ switches' = switches + 1
    /\ UNCHANGED <<database, service, worker, history, restarts, losses>>

\* ensure_vec_dim: another width drops the table, and every vector with it.
Rebuild(dim) ==
    /\ width' = dim
    /\ vec' = IF width = dim THEN vec ELSE [p \in Photos |-> NoVector]

\* BEGIN IMMEDIATE .. COMMIT.
Commit(t) ==
    /\ at[t] = "previewed"
    /\ at' = [at EXCEPT ![t] = "stored"]
    /\ stored' = want[t]
    /\ drops' = [drops EXCEPT ![t] = FALSE]
    /\ IF drops[t] THEN Rebuild(Dim[want[t]]) ELSE UNCHANGED <<width, vec>>
    /\ job' = Requeue(job)
    /\ late' = late \union Held
    /\ UNCHANGED <<override, stamp, service, want, worker, raced, budget>>

\* resolve_keys, then the PUT: the keys are in hand before the service sees them.
Push(t) ==
    /\ at[t] = "stored"
    /\ at' = [at EXCEPT ![t] = "push"]
    /\ want' = [want EXCEPT ![t] = Selected]
    /\ UNCHANGED <<database, service, drops, worker, history, budget>>

\* GET /api/resources resolves first and asks the service afterwards.
Ask ==
    /\ at[Poller] = "idle"
    /\ at' = [at EXCEPT ![Poller] = "asked"]
    /\ want' = [want EXCEPT ![Poller] = Selected]
    /\ UNCHANGED <<database, service, drops, worker, history, budget>>

\* Bug variant of Compare: a poll that only looks.
CompareOnly(reported, selected) == "idle"

\* _repush_slots.
Compare(reported, selected) == IF reported = selected THEN "idle" ELSE "push"

Answer ==
    /\ at[Poller] = "asked"
    /\ at' = [at EXCEPT ![Poller] = Compare(slots, want[Poller])]
    /\ want' = [want EXCEPT ![Poller] = IF at'[Poller] = "idle" THEN Unset ELSE @]
    /\ UNCHANGED <<database, service, drops, worker, history, budget>>

\* A service that refuses or is down: logged, and left to the next poll.
PushLost(t) ==
    /\ at[t] \in {"asked", "push"}
    /\ losses < MaxLosses
    /\ losses' = losses + 1
    /\ Done(t)
    /\ UNCHANGED <<database, service, drops, worker, history, switches, restarts>>

-----------------------------------------------------------------------------
(* The models service: SlotManager.apply, and a call through the registry. *)

Apply(t) ==
    /\ at[t] = "push"
    /\ slots' = want[t]
    /\ IF want[t] = slots
       THEN Done(t)
       ELSE at' = [at EXCEPT ![t] = "unload"] /\ want' = [want EXCEPT ![t] = Unset]
    /\ raced' = (raced \/ (want[t] # slots /\ \E u \in Threads : at[u] \in {"drop", "register"}))
    /\ UNCHANGED <<database, spec, child, resident, drops, worker, late, budget>>

\* registry.unload: free() takes the child out of the table and ends it.
Unload ==
    /\ child' = IF resident THEN Unset ELSE child
    /\ resident' = FALSE

\* The entry is read as the unit's registration begins.
UnloadUnit(t) ==
    /\ at[t] = "unload"
    /\ at' = [at EXCEPT ![t] = "drop"]
    /\ want' = [want EXCEPT ![t] = slots]
    /\ Unload
    /\ UNCHANGED <<database, slots, spec, drops, worker, history, budget>>

\* A pop without a stop: a child loaded meanwhile goes with its last reference.
DropWorker(t) ==
    /\ at[t] = "drop"
    /\ at' = [at EXCEPT ![t] = "register"]
    /\ child' = IF child = Unset THEN child ELSE Unset
    /\ UNCHANGED <<database, slots, spec, resident, want, drops, worker, history, budget>>

\* Bug variant of Register: the unit keeps the load callable of the outgoing model.
RegisterNothing(t) ==
    /\ at[t] = "register"
    /\ Done(t)
    /\ UNCHANGED <<database, service, drops, worker, history, budget>>

Register(t) ==
    /\ at[t] = "register"
    /\ Done(t)
    /\ spec' = want[t]
    /\ UNCHANGED <<database, slots, child, resident, drops, worker, history, budget>>

\* registry.ensure: a resident unit that lives is used; else load() reuses a
\* child that is in the table, or starts one.
Load ==
    /\ child' = IF child = Unset THEN spec ELSE child
    /\ resident' = TRUE
    /\ raced' = (raced \/ (child = Unset /\ \E t \in Threads : at[t] = "register" /\ want[t] # spec))

\* The governor makes room for another unit; never under a call's reservation.
Evict ==
    /\ resident /\ point # "call"
    /\ child' = Unset /\ resident' = FALSE
    /\ UNCHANGED <<database, slots, spec, requests, worker, history, budget>>

-----------------------------------------------------------------------------
(* The worker: the embed stage of a pass.                                  *)

\* build_embedder(conn): the key to stamp, and an empty spec cache.
BeginPass ==
    /\ point = "idle"
    /\ Pending(job, "embed") # {}
    /\ point' = "claim" /\ name' = Selected
    /\ UNCHANGED <<database, service, requests, photo, px, got, tried, history, budget>>

ClaimPhoto(p) ==
    /\ point = "claim"
    /\ p \in Pending(job, "embed") \ tried
    /\ \A q \in Pending(job, "embed") \ tried : p <= q
    /\ job' = Claim(job, p, "embed")
    /\ photo' = p /\ point' = IF px = Unset THEN "spec" ELSE "ensure"
    /\ tried' = tried \union {p}
    /\ UNCHANGED <<override, stored, width, vec, stamp, service, requests,
                   name, px, got, history, budget>>

EndPass ==
    /\ point = "claim"
    /\ Pending(job, "embed") \subseteq tried
    /\ point' = "idle" /\ name' = Unset /\ px' = Unset /\ tried' = {}
    /\ UNCHANGED <<database, service, requests, photo, got, history, budget>>

\* GET /embed/spec: the slot's preprocessing, cached for the rest of the pass.
FetchSpec ==
    /\ point = "spec"
    /\ point' = "ensure"
    /\ px' = slots
    /\ Load
    /\ UNCHANGED <<database, slots, spec, requests, photo, name, got, tried, late, budget>>

Reserve ==
    /\ point = "ensure"
    /\ point' = "call"
    /\ Load
    /\ UNCHANGED <<database, slots, spec, requests, photo, name, px, got, tried, late, budget>>

\* worker(unit).call: no child in the table is an error.
Embed ==
    /\ point = "call"
    /\ IF child = Unset
       THEN point' = "fault" /\ UNCHANGED <<got, late>>
       ELSE /\ point' = "write"
            /\ got' = [by |-> child, px |-> px]
            /\ late' = IF {child, px, name} = {Selected}
                       THEN late \ {photo} ELSE late \union {photo}
    /\ UNCHANGED <<database, service, requests, photo, name, px, tried, raced, budget>>

\* write_vector: the old row goes, and a vector of another width is refused.
Write ==
    /\ point = "write"
    /\ vec' = [vec EXCEPT ![photo] = IF Dim[got.by] = width THEN got ELSE NoVector]
    /\ point' = IF Dim[got.by] = width THEN "stamp" ELSE "fault"
    /\ got' = NoVector
    /\ UNCHANGED <<override, stored, width, stamp, job, service, requests,
                   photo, name, px, tried, history, budget>>

Stamp ==
    /\ point = "stamp"
    /\ point' = "settle"
    /\ stamp' = [stamp EXCEPT ![photo] = name]
    /\ UNCHANGED <<override, stored, width, vec, job, service, requests,
                   photo, name, px, got, tried, history, budget>>

\* complete() or fail(), whatever the status has become meanwhile.
Settle ==
    /\ point \in {"settle", "fault"}
    /\ point' = "claim"
    /\ job' = IF point = "settle" THEN Complete(job, photo, "embed") ELSE Fail(job, photo, "embed")
    /\ UNCHANGED <<override, stored, width, vec, stamp, service, requests,
                   photo, name, px, got, tried, history, budget>>

-----------------------------------------------------------------------------
(* Restarts.                                                               *)

\* The service comes back on what it can resolve without a database.
ServiceFresh(o) ==
    /\ slots' = ServiceBoot(o) /\ spec' = ServiceBoot(o)
    /\ child' = Unset /\ resident' = FALSE /\ raced' = FALSE

ServiceRestart ==
    /\ restarts < MaxRestarts
    /\ restarts' = restarts + 1
    /\ ServiceFresh(override)
    /\ at' = [t \in Threads |-> IF at[t] \in Applying THEN "idle" ELSE at[t]]
    /\ want' = [t \in Threads |-> IF at[t] \in Applying THEN Unset ELSE want[t]]
    /\ point' = IF point = "call" THEN "fault" ELSE point
    /\ UNCHANGED <<database, drops, photo, name, px, got, tried, late, switches, losses>>

\* Bug variant of Heal: the table keeps the width it was made with.
NoHeal(dim) == UNCHANGED <<width, vec>> /\ job' = RequeueStalled(job)

\* _heal_vector_width in build_context, then the worker's requeue_stalled.
Heal(dim) ==
    /\ Rebuild(dim)
    /\ job' = RequeueStalled(IF width = dim THEN job ELSE Requeue(job))

\* All containers, with the environment as it is now.
Restart(o) ==
    /\ restarts < MaxRestarts
    /\ restarts' = restarts + 1
    /\ override' = o
    /\ Heal(Dim[Resolve(stored, o)])
    /\ ServiceFresh(o)
    /\ at' = [t \in Threads |-> "idle"]
    /\ want' = [t \in Threads |-> Unset] /\ drops' = [t \in Threads |-> FALSE]
    /\ point' = "idle" /\ name' = Unset /\ px' = Unset /\ got' = NoVector /\ tried' = {}
    /\ late' = IF Resolve(stored, o) = Selected THEN late ELSE Photos
    /\ UNCHANGED <<stored, stamp, photo, switches, losses>>

-----------------------------------------------------------------------------
AppNext ==
    \/ \E t \in Users, m \in Models : Preview(t, m)
    \/ \E t \in Users : Commit(t) \/ Push(t)
    \/ Ask \/ Answer
    \/ \E t \in Threads : PushLost(t)

ApplyNext == \E t \in Threads : Apply(t) \/ UnloadUnit(t) \/ DropWorker(t) \/ Register(t)

WorkerNext ==
    \/ BeginPass \/ EndPass \/ FetchSpec \/ Reserve \/ Embed \/ Write \/ Stamp \/ Settle
    \/ \E p \in Photos : ClaimPhoto(p)

Next ==
    \/ AppNext \/ ApplyNext \/ WorkerNext
    \/ Evict \/ ServiceRestart
    \/ \E o \in Overrides : Restart(o)

\* A request that began is served.  Nothing makes a browser poll.
Fairness ==
    /\ WF_vars(Answer) /\ WF_vars(ApplyNext)
    /\ \A t \in Users : WF_vars(Commit(t) \/ Push(t))

Spec == Init /\ [][Next]_vars /\ Fairness

-----------------------------------------------------------------------------
(* Properties.                                                             *)

\* Every variable stays in its domain.
TypeOK ==
    /\ stored \in Models \union {Unset}
    /\ width \in {Dim[m] : m \in Models}
    /\ vec \in [Photos -> Vectors \union {NoVector}]
    /\ stamp \in [Photos -> Models \union {Unset}]
    /\ job \in JobTable
    /\ at \in [Threads -> Applying \union {"idle", "previewed", "stored", "asked", "push"}]
    /\ want \in [Threads -> Models \union {Unset}]
    /\ drops \in [Threads -> BOOLEAN]
    /\ slots \in Models /\ spec \in Models
    /\ child \in Models \union {Unset}
    /\ resident \in BOOLEAN
    /\ point \in Points /\ photo \in Photos
    /\ name \in Models \union {Unset} /\ px \in Models \union {Unset}
    /\ got \in Vectors \union {NoVector}
    /\ tried \subseteq Photos /\ late \subseteq Photos
    /\ raced \in BOOLEAN

\* A photo whose embed job is done has a vector of the selected model, made from an
\* image resized for it and stamped with it, unless something crossed the work on
\* it: a switch that committed while the job was held, a call that another model
\* answered, or an environment that names another model of the same width.
DoneIsSelected ==
    \A p \in Photos \ late : job[<<p, "embed">>].st = "done" =>
        vec[p] = [by |-> Selected, px |-> Selected] /\ stamp[p] = Selected

\* With one request that switches, the vector table always has the width of the
\* selected model: a KNN query never meets vectors of another length.
WidthFits == width = Dim[Selected]

\* Between pushes the registered unit is the slot's, and a child in the table is of
\* that model: the outgoing one was ended, whatever calls loaded it during an apply,
\* and whichever of two applies came last.  Two windows are left open, and only
\* they: a call that starts the outgoing model after the table was cleared and
\* before the new unit is registered, and a push that changes the slot while
\* another apply holds the key it read before.
ServesSlot ==
    (~raced /\ \A t \in Threads : at[t] \notin Applying) =>
        spec = slots /\ child \in {spec, Unset}

\* A page with the resource bar is open, and its poll begins again and again.
Polled == []<>(at[Poller] = "asked")

\* A service that lost the selection gets it back from the page that polls: once
\* switches and restarts end, its slots are the stored ones for ever.
SlotsConverge == Polled => <>[](slots = Selected)
=============================================================================
