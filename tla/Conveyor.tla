------------------------------ MODULE Conveyor ------------------------------
(***************************************************************************)
(* The model conveyor of the models service: every model call takes one of *)
(* a few slots, highest priority first, makes its model resident within a  *)
(* memory budget, runs, and lets go (modelsvc/scheduler.py, governor.py,   *)
(* registry.py, slots.py and the calls of backends/composite.py).          *)
(*                                                                         *)
(* An op is a request thread.  The scheduler's condition variable makes an *)
(* admission or a release one step; making room and loading happen under   *)
(* the governor's lock, one registry call a step; the call itself and the  *)
(* idle reaper that follows an embedding run outside both.                 *)
(***************************************************************************)
EXTENDS Naturals, Sequences, FiniteSets, SequencesExt

CONSTANTS
    Ops,          \* request threads
    NoOne,        \* nobody holds the governor's lock
    Concurrency,  \* gpu_concurrency
    Cost,         \* Cost[u]: cost_mb of a unit
    Headroom,     \* headroom_mb
    Budget,       \* budget_mb
    Pressure,     \* whether measured free memory may fall short of the budget's view
    Reaps,        \* whether llm_idle_ttl_s is set
    Supervised    \* units whose model is a child process of the service

TorchUnits == {"image_embed", "text_embed"}
LlmUnits   == {"llm", "llm_vision"}
Units      == TorchUnits \union LlmUnits

ASSUME ConveyorAssumption ==
    /\ IsFiniteSet(Ops) /\ NoOne \notin Ops
    /\ Concurrency \in Nat \ {0}
    /\ Cost \in [Units -> Nat]
    /\ Headroom \in Nat /\ Budget \in Nat
    /\ Pressure \in BOOLEAN /\ Reaps \in BOOLEAN
    /\ Supervised \subseteq Units

VARIABLES
    at,      \* at[o]: where op o is
    need,    \* need[o]: the unit it needs
    queue,   \* ops waiting for a slot, in order of arrival
    free,    \* slots nobody holds
    lock,    \* the op in the governor's critical section
    loaded,  \* what the registry calls resident, least recently used first
    alive,   \* units whose child process runs
    used,    \* llm units released less than the idle TTL ago, oldest first
    stale,   \* llm units whose last use is older than the idle TTL
    aged     \* aged[o]: candidates a reaper has still to look at

slots    == <<at, need, queue, free>>
registry == <<loaded, alive>>
idle     == <<used, stale, aged>>
vars     == <<slots, lock, registry, idle>>

Waiting == {"queued"}
Slotted == {"admitted", "room", "ready", "call"}
Reaping == {"reap", "check", "unload"}
Places  == {"idle"} \union Waiting \union Slotted \union Reaping

Init ==
    /\ at = [o \in Ops |-> "idle"]
    /\ need = [o \in Ops |-> "none"]
    /\ queue = <<>>
    /\ free = Concurrency
    /\ lock = NoOne
    /\ loaded = <<>> /\ alive = {}
    /\ used = <<>> /\ stale = {}
    /\ aged = [o \in Ops |-> {}]

-----------------------------------------------------------------------------
(* The scheduler: slots and the queue for them.                            *)

Goto(o, place) == at' = [at EXCEPT ![o] = place]

\* Captions of the ingest are batch work; everything else has a user waiting.
Priority(u) == IF u = "llm_vision" THEN 1 ELSE 2

Rank(i) == Priority(need[queue[i]])

\* A call arrives: a free slot is taken at once unless others already wait.
Request(o) ==
    /\ at[o] = "idle"
    /\ \E u \in Units : need' = [need EXCEPT ![o] = u]
    /\ \/ /\ free > 0 /\ queue = <<>>
          /\ free' = free - 1
          /\ Goto(o, "admitted") /\ UNCHANGED queue
       \/ /\ ~(free > 0 /\ queue = <<>>)
          /\ queue' = Append(queue, o)
          /\ Goto(o, "queued") /\ UNCHANGED free
    /\ UNCHANGED <<lock, registry, idle>>

\* Bug variants of First: arrival order alone, and the priorities reversed.
FirstByArrival == 1

FirstBatch ==
    CHOOSE i \in DOMAIN queue : \A j \in DOMAIN queue :
        Rank(i) < Rank(j) \/ (Rank(i) = Rank(j) /\ i <= j)

\* The head of the heap: highest priority, then first come.
First ==
    CHOOSE i \in DOMAIN queue : \A j \in DOMAIN queue :
        Rank(i) > Rank(j) \/ (Rank(i) = Rank(j) /\ i <= j)

\* Bug variant of HandOver: the slot is counted free and given away as well.
HandOverTwice(o, place) ==
    IF queue = <<>>
    THEN free' = free + 1 /\ Goto(o, place) /\ UNCHANGED queue
    ELSE /\ at' = [at EXCEPT ![o] = place, ![queue[First]] = "admitted"]
         /\ queue' = RemoveAt(queue, First)
         /\ free' = free + 1

\* _release: the slot goes straight to the winner, or is free again.
HandOver(o, place) ==
    IF queue = <<>>
    THEN free' = free + 1 /\ Goto(o, place) /\ UNCHANGED queue
    ELSE /\ at' = [at EXCEPT ![o] = place, ![queue[First]] = "admitted"]
         /\ queue' = RemoveAt(queue, First)
         /\ UNCHANGED free

\* The end of reserve(): the unit's last use is now, whatever came of the call.
Release(o, place) ==
    /\ HandOver(o, place)
    /\ need' = [need EXCEPT ![o] = "none"]
    /\ used' = IF need[o] \in LlmUnits THEN Append(RemoveFirst(used, need[o]), need[o]) ELSE used
    /\ stale' = stale \ {need[o]}
    /\ UNCHANGED aged

-----------------------------------------------------------------------------
(* The governor and the registry.                                          *)

\* The units one child process serves: llm and llm_vision share llama-server.
Family(u) == IF u \in LlmUnits THEN LlmUnits ELSE {u}

\* stop() and start() of a torch child wait for the call it is answering.
Calm(u) == u \in TorchUnits => \A p \in Ops : ~(at[p] = "call" /\ need[p] = u)

CostOf(S) ==
    LET Share(u) == IF u \in S THEN Cost[u] ELSE 0
    IN  Share("image_embed") + Share("text_embed") + Share("llm") + Share("llm_vision")

\* Bug variant of Fits: the cost of the model about to be loaded is forgotten.
FitsWithoutLoad(u) == CostOf(ToSet(loaded)) + Headroom <= Budget

\* The resident set with u in it stays within the budget.
Fits(u) == CostOf(ToSet(loaded) \union {u}) + Headroom <= Budget

\* What may be evicted for u, least recently used first.
Others(u) == RemoveFirst(loaded, u)

TakeLock(o) ==
    /\ at[o] = "admitted"
    /\ lock = NoOne
    /\ lock' = o
    /\ Goto(o, "room")
    /\ UNCHANGED <<need, queue, free, registry, idle>>

\* One turn of the eviction loop, for the budget's sake or the measured memory's.
Evict(o) ==
    /\ at[o] = "room"
    /\ Others(need[o]) # <<>>
    /\ ~Fits(need[o]) \/ Pressure
    /\ LET victim == Head(Others(need[o]))
       IN  /\ Calm(victim)
           /\ loaded' = RemoveFirst(loaded, victim)
           /\ alive' = alive \ Family(victim)
    /\ UNCHANGED <<slots, lock, idle>>

\* InsufficientMemory: nothing is left to evict and the model is too large.
Refuse(o) ==
    /\ at[o] = "room"
    /\ Others(need[o]) = <<>> /\ ~Fits(need[o])
    /\ lock' = NoOne
    /\ Release(o, "idle")
    /\ UNCHANGED registry

\* Resident, and the probe of its child agrees.
Usable(u) == u \in ToSet(loaded) /\ (u \in Supervised => Family(u) \intersect alive # {})

Touch(o) ==
    /\ at[o] = "room"
    /\ Fits(need[o]) /\ Usable(need[o])
    /\ loaded' = Append(Others(need[o]), need[o])
    /\ lock' = NoOne
    /\ Goto(o, "ready")
    /\ UNCHANGED <<need, queue, free, alive, idle>>

\* Bug variant of Kept: a load leaves the other llm unit in the resident set.
KeptSibling(u) == Others(u)

\* What stays resident when u is loaded: loading either llm unit unloads the other.
Kept(u) ==
    IF u \in LlmUnits THEN RemoveFirst(RemoveFirst(loaded, "llm"), "llm_vision") ELSE Others(u)

Load(o) ==
    /\ at[o] = "room"
    /\ Fits(need[o]) /\ ~Usable(need[o]) /\ Calm(need[o])
    /\ loaded' = Append(Kept(need[o]), need[o])
    /\ alive' = (alive \ Family(need[o])) \union {need[o]}
    /\ lock' = NoOne
    /\ Goto(o, "ready")
    /\ UNCHANGED <<need, queue, free, idle>>

\* The child does not come up: the call fails, and so does its reservation.
LoadFails(o) ==
    /\ at[o] = "room"
    /\ need[o] \in Supervised
    /\ Fits(need[o]) /\ ~Usable(need[o]) /\ Calm(need[o])
    /\ loaded' = Kept(need[o])
    /\ alive' = alive \ Family(need[o])
    /\ lock' = NoOne
    /\ Release(o, "idle")

-----------------------------------------------------------------------------
(* The call.                                                               *)

\* The request reaches the model; a torch child answers one at a time.
Call(o) ==
    /\ at[o] = "ready"
    /\ Calm(need[o])
    /\ need[o] \in Supervised => Family(need[o]) \intersect alive # {}
    /\ Goto(o, "call")
    /\ UNCHANGED <<need, queue, free, lock, registry, idle>>

\* An embedder's call is followed by the idle reaper; a text call is not.
Answer(o) ==
    /\ at[o] = "call"
    /\ need[o] \in Supervised => Family(need[o]) \intersect alive # {}
    /\ Release(o, IF need[o] \in LlmUnits THEN "idle" ELSE "reap")
    /\ UNCHANGED <<lock, registry>>

\* No worker to call, a dead child, or the model's own error.
Raise(o) ==
    /\ at[o] \in {"ready", "call"}
    /\ Release(o, "idle")
    /\ UNCHANGED <<lock, registry>>

-----------------------------------------------------------------------------
(* The idle reaper: which units are past the TTL is settled first, then    *)
(* each is looked at again and unloaded under the governor's lock.         *)

Looked(o, u) ==
    /\ aged' = [aged EXCEPT ![o] = @ \ {u}]
    /\ Goto(o, IF aged[o] = {u} THEN "idle" ELSE "check")

Candidate(o) == IF "llm" \in aged[o] THEN "llm" ELSE "llm_vision"

ReapBegin(o) ==
    /\ at[o] = "reap"
    /\ aged' = [aged EXCEPT ![o] = stale]
    /\ Goto(o, IF stale = {} THEN "idle" ELSE "check")
    /\ UNCHANGED <<need, queue, free, lock, registry, used, stale>>

ReapCheck(o) ==
    /\ at[o] = "check"
    /\ \/ /\ Candidate(o) \in stale
          /\ Goto(o, "unload") /\ UNCHANGED aged
       \/ /\ Candidate(o) \notin stale
          /\ Looked(o, Candidate(o))
    /\ UNCHANGED <<need, queue, free, lock, registry, used, stale>>

ReapUnload(o) ==
    /\ at[o] = "unload"
    /\ lock = NoOne
    /\ LET u == Candidate(o)
       IN  /\ loaded' = RemoveFirst(loaded, u)
           /\ alive' = IF u \in ToSet(loaded) THEN alive \ Family(u) ELSE alive
           /\ used' = RemoveFirst(used, u)
           /\ stale' = stale \ {u}
           /\ Looked(o, u)
    /\ UNCHANGED <<need, queue, free, lock>>

\* The TTL passes for the unit released longest ago; it is far longer than a
\* reaper takes from its release to its look at the clock.
Age ==
    /\ Reaps
    /\ \A o \in Ops : at[o] # "reap"
    /\ used # <<>>
    /\ used' = Tail(used)
    /\ stale' = stale \union {Head(used)}
    /\ UNCHANGED <<slots, lock, registry, aged>>

\* A child dies on its own; the registry does not hear of it.
ChildDies(u) ==
    /\ u \in Supervised \intersect alive
    /\ alive' = alive \ {u}
    /\ UNCHANGED <<slots, lock, loaded, idle>>

-----------------------------------------------------------------------------
Step(o) ==
    \/ TakeLock(o) \/ Evict(o) \/ Refuse(o) \/ Touch(o) \/ Load(o) \/ LoadFails(o)
    \/ Call(o) \/ Answer(o) \/ Raise(o)
    \/ ReapBegin(o) \/ ReapCheck(o) \/ ReapUnload(o)

Next ==
    \/ \E o \in Ops : Request(o) \/ Step(o)
    \/ \E u \in Units : ChildDies(u)
    \/ Age

(* A thread that can go on does, and a call ends, with an answer or an     *)
(* error.  Nothing is assumed of arrivals, of children or of the clock.    *)
Fairness == \A o \in Ops : WF_vars(Step(o))

Spec == Init /\ [][Next]_vars /\ Fairness

-----------------------------------------------------------------------------
(* Properties.                                                             *)

\* Every variable stays in its domain.
TypeOK ==
    /\ at \in [Ops -> Places]
    /\ need \in [Ops -> Units \union {"none"}]
    /\ queue \in Seq(Ops)
    /\ free \in 0..Concurrency
    /\ lock \in Ops \union {NoOne}
    /\ loaded \in Seq(Units) /\ alive \subseteq Units
    /\ used \in Seq(LlmUnits) /\ stale \subseteq LlmUnits
    /\ aged \in [Ops -> SUBSET LlmUnits]

\* A slot is neither lost nor given twice, through failures and hand-overs, and
\* none lies free while a call waits for one (Scheduler._admit, _release).
SlotsAccounted ==
    /\ free + Cardinality({o \in Ops : at[o] \in Slotted}) = Concurrency
    /\ queue # <<>> => free = 0

\* What is resident stays within the memory budget, whatever was evicted, died
\* or was loaded again meanwhile (MemoryGovernor.acquire).
BudgetHeld == loaded # <<>> => CostOf(ToSet(loaded)) + Headroom <= Budget

\* No child runs that the registry does not account for, and the two modes of
\* the one llama-server are never both called resident (SlotManager._register_llm).
RegistryHonest ==
    /\ alive \subseteq ToSet(loaded)
    /\ Cardinality(LlmUnits \intersect ToSet(loaded)) <= 1

\* A waiting call is passed only by one of higher priority, or by one of its own
\* that came first: a chat never waits behind queued captions (Scheduler._release).
AdmissionOrder ==
    [][\A i, j \in DOMAIN queue :
           /\ at[queue[i]] = "queued" /\ at'[queue[i]] = "admitted"
           /\ at'[queue[j]] = "queued"
           => \/ Priority(need[queue[i]]) > Priority(need[queue[j]])
              \/ Priority(need[queue[i]]) = Priority(need[queue[j]]) /\ i < j]_vars

\* An interactive call that waits for a slot is answered or refused in the end,
\* however much batch work and however many deaths of children there are.
InteractiveServed ==
    \A o \in Ops : at[o] = "queued" /\ need[o] # "llm_vision" ~> at[o] \in {"idle", "reap"}

\* "The scheduler makes the unit resident before any op runs, so a missing worker
\* here is a bug, not a race" (SlotManager.worker): with one slot no eviction and no
\* other call comes between a torch worker's admission and its use.
WorkerThere ==
    \A o \in Ops : at[o] = "ready" /\ need[o] \in TorchUnits => need[o] \in ToSet(loaded)

\* A call past its load whose model the registry does not call resident.
Bereft(o) == at[o] \in {"ready", "call"} /\ need[o] \notin ToSet(loaded)

\* text_stream holds "the slot (and the llm) for the WHOLE stream ... so it is not
\* evicted mid-answer" (CompositeBackend.text_stream).  With one slot nothing takes a
\* model from under its call but the idle reaper that an earlier embedding left behind,
\* and it takes only the llm unit whose last finished use is past the TTL.
LostToReaper ==
    [][\A o \in Ops :
           Bereft(o)' => \/ Bereft(o)
                         \/ \E p \in Ops : ReapUnload(p) /\ need'[o] = Candidate(p)]_vars
=============================================================================
