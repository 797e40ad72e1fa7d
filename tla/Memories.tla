------------------------------ MODULE Memories ------------------------------
(***************************************************************************)
(* The memories of the Organize tab (albums/seeds.py, memories_build.py,   *)
(* compose.py, memory_store.py, memories.py; the organize and rebuild      *)
(* routes of web/app.py; _prune_empty_memories of ingest/folders.py).      *)
(*                                                                         *)
(* A rebuild is a thread of the app: it signs the library, cuts it into    *)
(* candidates, lets the model keep or skip each, and swaps the stored      *)
(* memories in one transaction at the end.  The library does not wait for  *)
(* it: photos arrive and are captioned, the worker deletes folders one     *)
(* photo at a time, and a page reads the memories one statement at a time. *)
(***************************************************************************)
EXTENDS Naturals, FiniteSets, SequencesExt

CONSTANTS
    Ids,                  \* 1..n: the rows photos can have
    Shots,                \* what a photo can be: records [time, cell], in hours and ~50 km cells
    Arrivals,             \* what is uploaded while it runs
    Libraries,            \* the libraries a run starts from
    Samples,              \* .. and those that are only cut: nothing happens to them
    Folders,              \* the sets of photos a folder can take with it
    NoCell,               \* a photo without GPS
    NoShot, NoGroup,      \* no row
    Builders,             \* requests that ask for a rebuild
    EventGap, TripGap,    \* EVENT_GAP_HOURS, TRIP_GAP_HOURS
    MinSize,              \* min_size of seed_candidates
    MaxRounds,            \* max_rounds of compose_memory
    MaxUploads, MaxDeletions, MaxRestarts, MaxReads, MaxBuilds    \* bounds

ASSUME MemoriesAssumption ==
    /\ IsFiniteSet(Ids) /\ Ids = 1..Cardinality(Ids)
    /\ \A s \in Shots : s.time \in Nat
    /\ Arrivals \subseteq Shots
    /\ Libraries \union Samples \subseteq [Ids -> Shots \union {NoShot}]
    /\ Folders \subseteq SUBSET Ids
    /\ EventGap \in Nat /\ TripGap \in Nat /\ EventGap <= TripGap
    /\ MinSize \in Nat \ {0} /\ MaxRounds \in Nat
    /\ NoGroup \notin [photos : SUBSET Ids, story : SUBSET Nat]

VARIABLES
    shot,        \* shot[i]: the photo in row i of photos
    born,        \* born[i]: its updated_at, which nothing moves after the insert
    captioned,   \* the rows that have a caption
    clock,
    groups,      \* groups[g]: a memory, with its group_photos
    index,       \* index[g]: the story of a row of memory_fts
    building,    \* app.state.memories_building
    at,          \* at[b]: where a builder is
    todo, told, kept, rounds,   \* the locals of its build: candidates, what the model was
                 \* shown of the first of them, memories, rounds
    doomed,      \* the photos of the folder being deleted that are still there
    deleting,    \* "no", "photos", "groups", or "down": the worker is
    reading,     \* whether a page is being made
    listed,      \* its memories whose photos are still to be read
    cards,       \* the cards read so far
    reused,      \* history: rows given to a new photo while a build knew the old one
    orphaned,    \* history: a crash came between the deletion of photos and the prune
    strayed,     \* history: a backfill came between the two statements of a prune
    uploads, deletions, restarts, reads, builds

library  == <<shot, born, captioned, clock>>
memories == <<groups, index>>
build    == <<building, at, todo, told, kept, rounds>>
deleter  == <<doomed, deleting>>
reader   == <<reading, listed, cards>>
history  == <<reused, orphaned, strayed>>
budget   == <<uploads, deletions, restarts, reads, builds>>
vars == <<library, memories, build, deleter, reader, history, budget>>

Rows == {i \in Ids : shot[i] # NoShot}
Gids == 1..Cardinality(Ids)
Memories == {g \in Gids : groups[g] # NoGroup}

-----------------------------------------------------------------------------
(* seed_candidates.                                                        *)

Earlier(i, j) == shot[i].time < shot[j].time \/ (shot[i].time = shot[j].time /\ i < j)
Place(i) == Cardinality({j \in captioned : ~Earlier(i, j)})
ByTime == [n \in 1..Cardinality(captioned) |-> CHOOSE i \in captioned : Place(i) = n]

Located == {i \in captioned : shot[i].cell # NoCell}
InCell(c) == {i \in captioned : shot[i].cell = c}

\* Counter.most_common: the fullest cell, the first met among equals.
HomeRegion ==
    IF Located = {} THEN NoCell
    ELSE LET Fullest == {i \in Located : \A j \in Located :
                            Cardinality(InCell(shot[j].cell)) <= Cardinality(InCell(shot[i].cell))}
         IN  shot[CHOOSE i \in Fullest : \A j \in Fullest : i = j \/ Earlier(i, j)].cell

\* Away from home people sleep and the trip goes on.
Limit(cell, last, home) ==
    IF cell # NoCell /\ cell = last /\ cell # home THEN TripGap ELSE EventGap

\* Bug variant of LastCells: a row without GPS has no last cell either.
LastCellsLost(rows) == [n \in 0..Len(rows) |-> IF n = 0 THEN NoCell ELSE shot[rows[n]].cell]

\* The last cell survives rows without GPS, and splits.
LastCells(rows) ==
    LET last[n \in 0..Len(rows)] ==
            IF n = 0 THEN NoCell
            ELSE IF shot[rows[n]].cell # NoCell THEN shot[rows[n]].cell ELSE last[n - 1]
    IN  last

\* The rows that begin a run: a gap, or a move to another region.
Breaks(rows, last, home) ==
    {n \in DOMAIN rows :
        LET s == shot[rows[n]]
        IN  \/ n = 1
            \/ s.time > shot[rows[n - 1]].time + Limit(s.cell, last[n - 1], home)
            \/ NoCell \notin {s.cell, last[n - 1]} /\ s.cell # last[n - 1]}

RunFrom(breaks, n) ==
    {i \in captioned : n <= Place(i) /\ \A k \in breaks : k <= Place(i) => k <= n}

Runs ==
    LET rows   == ByTime
        breaks == Breaks(rows, LastCells(rows), HomeRegion)
    IN  {RunFrom(breaks, n) : n \in breaks}

First(run) == CHOOSE i \in run : \A j \in run : i = j \/ Earlier(i, j)

\* Runs long enough, the one whose first photo has the greatest id first.
SeedCandidates ==
    LET candidates == {run \in Runs : Cardinality(run) >= MinSize}
    IN  {order \in [1..Cardinality(candidates) -> candidates] :
            \A m, n \in DOMAIN order : m < n => First(order[m]) > First(order[n])}

\* What a prompt says of a candidate: a line for each of its photos that has a row, and
\* the facts of all of them.  Two photos that had the same id differ in the stamp.
Stamps(ids) == {born[i] : i \in ids \cap Rows}

-----------------------------------------------------------------------------
Idle == [b \in Builders |-> "idle"]
NoWork == [b \in Builders |-> <<>>]

Init ==
    /\ \/ /\ shot \in Libraries
          /\ uploads = 0 /\ deletions = 0 /\ restarts = 0 /\ reads = 0 /\ builds = 0
       \/ /\ shot \in Samples
          /\ uploads = MaxUploads /\ deletions = MaxDeletions /\ restarts = MaxRestarts
          /\ reads = MaxReads /\ builds = MaxBuilds
    /\ born = [i \in Ids |-> IF shot[i] = NoShot THEN 0 ELSE i]
    /\ captioned = {i \in Ids : shot[i] # NoShot}
    /\ clock = Cardinality(Ids)
    /\ groups = [g \in Gids |-> NoGroup] /\ index = [g \in Gids |-> NoGroup]
    /\ building = FALSE /\ at = Idle
    /\ todo = NoWork /\ told = [b \in Builders |-> {}] /\ kept = NoWork
    /\ rounds = [b \in Builders |-> 0]
    /\ doomed = {} /\ deleting = "no"
    /\ reading = FALSE /\ listed = <<>> /\ cards = <<>>
    /\ reused = {} /\ orphaned = FALSE /\ strayed = FALSE

(* The library around a build.                                             *)

KnownTo(b, i) ==
    \/ todo[b] # <<>> /\ i \in todo[b][1]
    \/ \E n \in DOMAIN kept[b] : i \in kept[b][n].photos

\* An INTEGER PRIMARY KEY without AUTOINCREMENT: one more than the greatest there is.
Upload(s) ==
    /\ uploads < MaxUploads
    /\ uploads' = uploads + 1
    /\ clock' = clock + 1
    /\ LET i == 1 + (IF Rows = {} THEN 0 ELSE CHOOSE j \in Rows : \A k \in Rows : k <= j)
       IN  /\ i \in Ids
           /\ shot' = [shot EXCEPT ![i] = s]
           /\ born' = [born EXCEPT ![i] = clock + 1]
           /\ reused' = IF \E b \in Builders : KnownTo(b, i) THEN reused \union {i} ELSE reused
    /\ UNCHANGED <<captioned, memories, build, deleter, reader, orphaned, strayed,
                   deletions, restarts, reads, builds>>

Caption(i) ==
    /\ i \in Rows \ captioned
    /\ captioned' = captioned \union {i}
    /\ UNCHANGED <<shot, born, clock, memories, build, deleter, reader, history, budget>>

-----------------------------------------------------------------------------
(* A rebuild.                                                              *)

\* The check ..
Request(b) ==
    /\ at[b] = "idle" /\ ~building
    /\ builds < MaxBuilds
    /\ builds' = builds + 1
    /\ at' = [at EXCEPT ![b] = "asked"]
    /\ UNCHANGED <<library, memories, building, todo, told, kept, rounds, deleter, reader,
                   history, uploads, deletions, restarts, reads>>

\* .. and, once the client and the planner model are read, the flag.
Start(b) ==
    /\ at[b] = "asked"
    /\ at' = [at EXCEPT ![b] = "seed"]
    /\ building' = TRUE
    /\ UNCHANGED <<library, memories, todo, told, kept, rounds, deleter, reader, history, budget>>

\* compose_memory reads the facts of a candidate when its turn comes: the story is
\* told of the photos that have its ids then.
Open(b, candidates) ==
    /\ todo' = [todo EXCEPT ![b] = candidates]
    /\ told' = [told EXCEPT ![b] = IF candidates = <<>> THEN {} ELSE Stamps(candidates[1])]

Seed(b) ==
    /\ at[b] = "seed"
    /\ at' = [at EXCEPT ![b] = "compose"]
    /\ \E seeds \in SeedCandidates : Open(b, seeds)
    /\ UNCHANGED <<library, memories, building, kept, rounds, deleter, reader, history, budget>>

\* Bug variant of ExpandTurn: one round too many.
ExpandTurnOnceMore(b) ==
    /\ at[b] = "compose" /\ todo[b] # <<>>
    /\ rounds[b] <= MaxRounds
    /\ rounds' = [rounds EXCEPT ![b] = @ + 1]
    /\ UNCHANGED <<library, memories, building, at, todo, told, kept, deleter, reader, history, budget>>

\* A turn asks for more context; the last one may not.
ExpandTurn(b) ==
    /\ at[b] = "compose" /\ todo[b] # <<>>
    /\ rounds[b] < MaxRounds
    /\ rounds' = [rounds EXCEPT ![b] = @ + 1]
    /\ UNCHANGED <<library, memories, building, at, todo, told, kept, deleter, reader, history, budget>>

Settle(b) ==
    /\ at[b] = "compose" /\ todo[b] # <<>>
    /\ Open(b, Tail(todo[b]))
    /\ rounds' = [rounds EXCEPT ![b] = 0]
    /\ UNCHANGED <<library, memories, building, at, deleter, reader, history, budget>>

\* An answer that keeps: the dropped photos go, and two at least must stay.
Keep(b, dropped) ==
    /\ Settle(b)
    /\ LET left == todo[b][1] \ dropped
       IN  /\ dropped \subseteq todo[b][1]
           /\ Cardinality(left) >= 2
           /\ kept' = [kept EXCEPT ![b] = Append(@, [photos |-> left, story |-> told[b]])]

\* An answer that skips, one that cannot be used, a call or a tool that fails.
Skip(b) == Settle(b) /\ UNCHANGED kept

BuildOver(b) ==
    /\ at' = [at EXCEPT ![b] = "idle"]
    /\ Open(b, <<>>)
    /\ kept' = [kept EXCEPT ![b] = <<>>] /\ rounds' = [rounds EXCEPT ![b] = 0]

Stored(b) == UNION {kept[b][n].photos : n \in DOMAIN kept[b]}

\* One photo that is gone fails its foreign key, one row of the index that the
\* delete did not find fails the insert, and the whole build with them.
Storable(b) ==
    /\ Stored(b) \subseteq Rows
    /\ \A g \in 1..Len(kept[b]) : index[g] = NoGroup \/ g \in Memories

\* Bug variant of Reindexed: the rows of the old groups stay.
ReindexedOver(b) == [g \in Gids |-> IF g > Len(kept[b]) THEN index[g] ELSE kept[b][g].story]

Reindexed(b) ==
    [g \in Gids |-> IF g <= Len(kept[b]) THEN kept[b][g].story
                    ELSE IF g \in Memories THEN NoGroup ELSE index[g]]

\* replace_memories: all old groups go, so the ids begin at one again.
Swap(b) ==
    /\ at[b] = "compose" /\ todo[b] = <<>>
    /\ Storable(b)
    /\ groups' = [g \in Gids |-> IF g > Len(kept[b]) THEN NoGroup ELSE kept[b][g]]
    /\ index' = Reindexed(b)
    /\ building' = FALSE /\ BuildOver(b)
    /\ UNCHANGED <<library, deleter, reader, history, budget>>

\* Bug variant of SwapRefused: the flag is cleared only after a build that stored.
SwapRefusedForGood(b) ==
    /\ at[b] = "compose" /\ todo[b] = <<>>
    /\ ~Storable(b)
    /\ BuildOver(b)
    /\ UNCHANGED <<library, memories, building, deleter, reader, history, budget>>

SwapRefused(b) ==
    /\ at[b] = "compose" /\ todo[b] = <<>>
    /\ ~Storable(b)
    /\ building' = FALSE /\ BuildOver(b)
    /\ UNCHANGED <<library, memories, deleter, reader, history, budget>>

-----------------------------------------------------------------------------
(* The worker deletes a folder.                                            *)

BeginDeletion(photos) ==
    /\ deleting = "no" /\ deletions < MaxDeletions
    /\ photos \subseteq Rows
    /\ deletions' = deletions + 1
    /\ doomed' = photos /\ deleting' = "photos"
    /\ UNCHANGED <<library, memories, build, reader, history, uploads, restarts, reads, builds>>

\* Bug variant of Unlinked: the memberships stay.
StillLinked(i) == groups

Unlinked(i) ==
    [g \in Gids |-> IF g \in Memories
                    THEN [groups[g] EXCEPT !.photos = @ \ {i}]
                    ELSE NoGroup]

\* The row, and its group_photos with it.
DeletePhoto(i) ==
    /\ deleting = "photos" /\ i \in doomed
    /\ doomed' = doomed \ {i}
    /\ shot' = [shot EXCEPT ![i] = NoShot] /\ born' = [born EXCEPT ![i] = 0]
    /\ captioned' = captioned \ {i}
    /\ groups' = Unlinked(i)
    /\ UNCHANGED <<clock, index, build, deleting, reader, history, budget>>

\* Bug variant of Orphans: those the index still names.
OrphansNamed == {g \in Memories : groups[g].photos = {} /\ index[g] # NoGroup}

\* _prune_empty_memories: the index first, the groups in a statement of their own.
Orphans == {g \in Memories : groups[g].photos = {}}

PruneIndex ==
    /\ deleting = "photos" /\ doomed = {}
    /\ deleting' = "groups"
    /\ index' = [g \in Gids |-> IF g \in Orphans THEN NoGroup ELSE index[g]]
    /\ UNCHANGED <<library, groups, build, doomed, reader, history, budget>>

PruneGroups ==
    /\ deleting = "groups"
    /\ deleting' = "no"
    /\ groups' = [g \in Gids |-> IF g \in Orphans THEN NoGroup ELSE groups[g]]
    /\ UNCHANGED <<library, index, build, doomed, reader, history, budget>>

\* The worker dies: the folder's uploads are gone already, so the outbox row that
\* is still there finds nothing to delete, and prunes nothing.
WorkerCrash ==
    /\ deleting \in {"photos", "groups"} /\ restarts < MaxRestarts
    /\ restarts' = restarts + 1
    /\ deleting' = "down" /\ doomed' = {}
    /\ orphaned' = TRUE
    /\ UNCHANGED <<library, memories, build, reader, reused, strayed, uploads, deletions, reads, builds>>

\* Bug variant of Backfilled: no backfill.
NotBackfilled == index

\* _backfill_memory_fts, whenever a database is opened.
Backfilled ==
    [g \in Gids |-> IF g \in Memories /\ index[g] = NoGroup THEN groups[g].story ELSE index[g]]

WorkerStart ==
    /\ deleting = "down"
    /\ deleting' = "no"
    /\ index' = Backfilled
    /\ UNCHANGED <<library, groups, build, doomed, reader, history, budget>>

-----------------------------------------------------------------------------
(* GET /organize?by=memories.                                              *)

BySize(g, h) ==
    \/ Cardinality(groups[g].photos) > Cardinality(groups[h].photos)
    \/ Cardinality(groups[g].photos) = Cardinality(groups[h].photos) /\ g < h

ReadList ==
    /\ ~reading /\ reads < MaxReads
    /\ reads' = reads + 1
    /\ reading' = TRUE
    /\ listed' = LET order == SetToSortSeq(Memories, BySize)
                 IN  [n \in DOMAIN order |-> [group |-> order[n], story |-> groups[order[n]].story]]
    /\ UNCHANGED <<library, memories, build, deleter, cards, history,
                   uploads, deletions, restarts, builds>>

PhotosOf(memory) ==
    IF memory.group \in Memories THEN Stamps(groups[memory.group].photos) ELSE {}

\* A statement per memory, each in a transaction of its own.
ReadCard ==
    /\ reading /\ listed # <<>>
    /\ listed' = Tail(listed)
    /\ cards' = Append(cards, [story  |-> listed[1].story,
                               photos |-> PhotosOf(listed[1])])
    /\ UNCHANGED <<library, memories, build, deleter, reading, history, budget>>

Render ==
    /\ reading /\ listed = <<>>
    /\ reading' = FALSE /\ cards' = <<>>
    /\ UNCHANGED <<library, memories, build, deleter, listed, history, budget>>

\* The app restarts: its threads and its flag are gone, and no build is resumed.
AppRestart ==
    /\ restarts < MaxRestarts
    /\ index' = Backfilled /\ strayed' = (strayed \/ index' # index)
    /\ restarts' = restarts + 1
    /\ building' = FALSE /\ at' = Idle
    /\ todo' = NoWork /\ told' = [b \in Builders |-> {}] /\ kept' = NoWork
    /\ rounds' = [b \in Builders |-> 0]
    /\ reading' = FALSE /\ listed' = <<>> /\ cards' = <<>>
    /\ UNCHANGED <<library, groups, deleter, reused, orphaned, uploads, deletions, reads, builds>>

-----------------------------------------------------------------------------
Turn(b) == ExpandTurn(b) \/ Skip(b) \/ \E dropped \in SUBSET Ids : Keep(b, dropped)

BuildStep(b) == Start(b) \/ Seed(b) \/ Turn(b) \/ Swap(b) \/ SwapRefused(b)

LibraryNext ==
    \/ \E s \in Arrivals : Upload(s)
    \/ \E i \in Ids : Caption(i) \/ DeletePhoto(i)
    \/ \E photos \in Folders : BeginDeletion(photos)
    \/ PruneIndex \/ PruneGroups \/ WorkerCrash \/ WorkerStart

PageNext == ReadList \/ ReadCard \/ Render

Next ==
    \/ \E b \in Builders : Request(b) \/ BuildStep(b)
    \/ LibraryNext \/ PageNext \/ AppRestart

\* A build has a thread, and each of its calls a timeout.
Fairness == \A b \in Builders : WF_vars(BuildStep(b))

Spec == Init /\ [][Next]_vars /\ Fairness

-----------------------------------------------------------------------------
(* Properties.                                                             *)

\* Every variable stays in its domain, and a build expands no memory more often than
\* it may (compose_memory's MAX_ROUNDS).
TypeOK ==
    /\ shot \in [Ids -> Shots \union {NoShot}] /\ captioned \subseteq Rows
    /\ \A g \in Memories : groups[g].photos \subseteq Ids
    /\ building \in BOOLEAN
    /\ at \in [Builders -> {"idle", "asked", "seed", "compose"}]
    /\ todo \in [Builders -> Seq(SUBSET Ids)] /\ told \in [Builders -> SUBSET (1..clock)]
    /\ kept \in [Builders -> Seq([photos : SUBSET Ids, story : SUBSET (1..clock)])]
    /\ rounds \in [Builders -> 0..MaxRounds]
    /\ doomed \subseteq Ids /\ deleting \in {"no", "photos", "groups", "down"}
    /\ orphaned \in BOOLEAN

Adjacent(i, j) ==
    /\ Earlier(i, j)
    /\ ~\E k \in captioned : Earlier(i, k) /\ Earlier(k, j)

Between(i, j) == {k \in captioned : ~Earlier(k, i) /\ ~Earlier(j, k)}

GapsWithin(S, limit) ==
    \A i, j \in S : Adjacent(i, j) => shot[j].time <= shot[i].time + limit

\* What the docstring of seed_candidates says of whole candidates.  Every photo is in
\* exactly one, with whatever was taken between two of its photos.  Its photos are of one
\* region, however many without GPS lie between them; none has a gap that no trip has,
\* and ordinary days at home stay separate.  A stretch of photos of one region that
\* begins with a located one is in one candidate: over event gaps, whichever
\* have no GPS, and over the nights of a trip if all are located.
SeedsSound ==
    LET parts == Runs
        home == HomeRegion
        Cells(S) == {shot[i].cell : i \in S} \ {NoCell}
    IN  /\ \A i \in captioned : \E part \in parts : i \in part
        /\ \A part, other \in parts : part = other \/ part \cap other = {}
        /\ \A part \in parts :
               /\ \A i, j \in part : Between(i, j) \subseteq part
               /\ \A i, j \in part \cap Located : shot[i].cell = shot[j].cell
               /\ GapsWithin(part, TripGap)
               /\ Cells(part) \subseteq {home} => GapsWithin(part, EventGap)
        /\ \A i \in Located, j \in captioned :
               LET stretch == Between(i, j)
                   trip    == stretch \subseteq Located /\ shot[i].cell # home
               IN  /\ Cells(stretch) \subseteq {shot[i].cell}
                   /\ GapsWithin(stretch, IF trip THEN TripGap ELSE EventGap)
                   => \E part \in parts : stretch \subseteq part

\* A memory shows only photos its story was told of, whatever was uploaded, deleted
\* or rebuilt since; a row that a new photo took while a build knew it is the exception.
TellsItsPhotos ==
    \A g \in Memories : \A i \in groups[g].photos \ reused :
        i \in Rows /\ born[i] \in groups[g].story

\* design.md 3.2c: an emptied memory never lingers, once the deletion has ended,
\* unless the worker died before it pruned.
NoOrphanCard == (deleting = "no" /\ ~orphaned) => Orphans = {}

\* Chat finds a memory by the story it has: the index and the groups agree, but
\* between the two statements of a prune, until the worker comes back from a crash
\* there, and after an app that started there indexed what was about to go.
IndexInStep ==
    (deleting \notin {"groups", "down"} /\ ~strayed) => \A g \in Gids :
        index[g] = IF g \in Memories THEN groups[g].story ELSE NoGroup

\* replace_memories: "Atomically swap the owner's memories, so the tab never shows a half build."
NeverHalfBuilt == \A n \in DOMAIN cards : cards[n].photos \subseteq cards[n].story

\* A build ends and takes its flag with it, whether it is stored, refused or killed:
\* the progress line never stays.
BuildEnds == building ~> ~building
=============================================================================
