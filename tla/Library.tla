------------------------------ MODULE Library ------------------------------
(***************************************************************************)
(* Which photos the library holds: upload sessions that probe, link and    *)
(* send (web/static/upload.js, web/upload_api.py, ingest/receive.py), and  *)
(* the deletion of folders through an outbox (ingest/folders.py).          *)
(*                                                                         *)
(* A step is one SQL statement or one file operation; reads that no        *)
(* statement in between can tell apart are one step.  A picked file is a   *)
(* path and the hash of its bytes; a folder is the label its uploads carry. *)
(***************************************************************************)
EXTENDS Naturals, FiniteSets, FiniteSetsExt, Functions

CONSTANTS
    Tabs,          \* browser tabs on /upload
    Labels,        \* root labels
    Paths,         \* relative paths
    Hashes,        \* contents
    Picks,         \* what a user may pick: [label, files], files a set of <<path, hash>>
    MaxUploads,    \* bound on sessions started
    MaxRequests,   \* bound on deletions asked for
    MaxWorkerCrashes, MaxAppCrashes

Files == Paths \X Hashes

ASSUME LibraryAssumption ==
    /\ IsFiniteSet(Tabs)
    /\ Picks \subseteq [label : Labels, files : SUBSET Files]
    /\ \A k \in Picks : IsFiniteSet(k.files)
    /\ {MaxUploads, MaxRequests, MaxWorkerCrashes, MaxAppCrashes} \subseteq Nat

VARIABLES
    uploads,    \* id -> root_label
    photos,     \* id -> content_hash, one row for a hash
    sources,    \* rows [photo, upload, path], one for a photo and a path
    outbox,     \* labels in folder_deletions
    originals,  \* hashes whose bytes are stored
    phase,      \* phase[t]: where the session of a tab is
    session,    \* session[t]: the id of its upload
    link,       \* link[t]: files the probe has still to link
    send,       \* send[t]: files it has still to send, with the one under way
    file,       \* file[t]: the file in hand
    found,      \* found[t]: the photo id the request has read or inserted
    at,         \* where the worker's drain of the outbox is
    pending,    \* labels this drain has still to delete
    label,      \* the label in hand
    ids,        \* its upload ids as read
    affected,   \* the photo ids still to be looked at
    victim,     \* the photo id and hash being erased
    held,       \* what a folder was told it has and was not deleted since: <<label, hash>>
    filed,      \* every path that was picked, with the label it was uploaded under
    overlapped, \* whether a session and a deletion have ever been under way together
    budget      \* sessions, requests and crashes so far

database == <<uploads, photos, sources, outbox>>
tab      == <<phase, session, link, send, file, found>>
worker   == <<at, pending, label, ids, affected, victim>>
vars     == <<database, originals, tab, worker, held, filed, overlapped, budget>>

Phases  == {"idle", "probe", "link", "linking", "send", "store", "insert", "adding"}
Places  == {"down", "idle", "uploads", "affected", "drop", "photos", "erase", "row", "clear"}
Nothing == [id |-> 0, hash |-> "none"]

Init ==
    /\ uploads = <<>> /\ photos = <<>> /\ sources = {} /\ outbox = {}
    /\ originals = {}
    /\ phase = [t \in Tabs |-> "idle"]
    /\ session = [t \in Tabs |-> 0]
    /\ link = [t \in Tabs |-> {}] /\ send = [t \in Tabs |-> {}]
    /\ file = [t \in Tabs |-> <<>>]
    /\ found = [t \in Tabs |-> 0]
    /\ at = "idle" /\ pending = {} /\ label = "none"
    /\ ids = {} /\ affected = {} /\ victim = Nothing
    /\ held = {} /\ filed = {} /\ overlapped = FALSE
    /\ budget = [uploads |-> 0, requests |-> 0, worker |-> 0, app |-> 0]

Spend(what) == budget' = [budget EXCEPT ![what] = @ + 1]

-----------------------------------------------------------------------------
(* Rows.                                                                   *)

\* A new INTEGER PRIMARY KEY: ids of deleted rows at the top are given again.
NewId(rows) == IF DOMAIN rows = {} THEN 1 ELSE Max(DOMAIN rows) + 1

Without(rows, S) == Restrict(rows, DOMAIN rows \ S)

\* SELECT id FROM photos WHERE content_hash = ?
RowsOf(h) == {p \in DOMAIN photos : photos[p] = h}

\* INSERT INTO photo_sources ... ON CONFLICT(photo_id, rel_path) DO NOTHING.
Recorded(p, path) == \E s \in sources : s.photo = p /\ s.path = path
AddSource(p, u, path) ==
    IF Recorded(p, path) THEN sources
    ELSE sources \union {[photo |-> p, upload |-> u, path |-> path]}

\* The foreign keys of that row hold, or it is not inserted at all.
MayAdd(p, u, path) == Recorded(p, path) \/ (p \in DOMAIN photos /\ u \in DOMAIN uploads)

-----------------------------------------------------------------------------
(* An upload session.                                                      *)

Enter(t, there) == phase' = [phase EXCEPT ![t] = there]

\* run() ends, with a summary or an error.
Leave(t) ==
    /\ Enter(t, "idle")
    /\ link' = [link EXCEPT ![t] = {}] /\ send' = [send EXCEPT ![t] = {}]
    /\ file' = [file EXCEPT ![t] = <<>>] /\ found' = [found EXCEPT ![t] = 0]
    /\ session' = [session EXCEPT ![t] = 0]

Start(t) ==
    /\ phase[t] = "idle"
    /\ budget.uploads < MaxUploads /\ Spend("uploads")
    /\ \E k \in Picks :
        LET id == NewId(uploads)
        IN  /\ uploads' = [u \in DOMAIN uploads \union {id} |->
                              IF u = id THEN k.label ELSE uploads[u]]
            /\ session' = [session EXCEPT ![t] = id]
            /\ send' = [send EXCEPT ![t] = k.files]
            /\ filed' = filed \union {<<f[1], k.label>> : f \in k.files}
    /\ Enter(t, "probe")
    /\ UNCHANGED <<photos, sources, outbox, originals, link, file, found, worker, held>>

\* The session's folder has these contents now, and the user is told so.
Told(t, hashes) == held \union ({uploads[session[t]]} \X hashes)

\* Bug variant of Linked: known contents are neither sent nor linked.
LinkedNone(files) == {}

\* The paths the probe records itself: those of the known contents.
Linked(files) == {f \in files : RowsOf(f[2]) # {}}

\* The probe reads once which contents are known; the client need not send them.
\* Of every other content it sends one file.
Probe(t) ==
    /\ phase[t] = "probe"
    /\ session[t] \in DOMAIN uploads
    /\ LET fresh == {f \in send[t] : RowsOf(f[2]) = {}}
       IN  /\ link' = [link EXCEPT ![t] = Linked(send[t])]
           /\ held' = Told(t, {f[2] : f \in send[t] \ fresh})
           /\ \E S \in SUBSET fresh :
               /\ \A f \in fresh : Cardinality({g \in S : g[2] = f[2]}) = 1
               /\ send' = [send EXCEPT ![t] = S]
    /\ Enter(t, "link")
    /\ UNCHANGED <<database, originals, session, file, found, worker, budget, filed>>

\* link_existing reads the photo's id; a content deleted meanwhile is passed over.
LinkRead(t) ==
    /\ phase[t] = "link"
    /\ \E f \in link[t] :
        /\ link' = [link EXCEPT ![t] = @ \ {f}]
        /\ \/ /\ RowsOf(f[2]) = {}
              /\ UNCHANGED <<phase, file, found>>
           \/ \E p \in RowsOf(f[2]) :
              /\ file' = [file EXCEPT ![t] = f] /\ found' = [found EXCEPT ![t] = p]
              /\ Enter(t, "linking")
    /\ UNCHANGED <<database, originals, session, send, worker, held, filed, budget>>

LinkAdd(t) ==
    /\ phase[t] = "linking"
    /\ MayAdd(found[t], session[t], file[t][1])
    /\ sources' = AddSource(found[t], session[t], file[t][1])
    /\ Enter(t, "link")
    /\ UNCHANGED <<uploads, photos, outbox, originals, session, link, send, file, found, worker, held, filed, budget>>

\* The probe is over.
Probed(t) ==
    /\ phase[t] = "link" /\ link[t] = {}
    /\ Enter(t, "send")
    /\ UNCHANGED <<database, originals, session, link, send, file, found, worker, held, filed, budget>>

\* A file arrives: known by now, or to be stored.
SendFile(t) ==
    /\ phase[t] = "send"
    /\ session[t] \in DOMAIN uploads
    /\ \E f \in send[t] :
        /\ send' = [send EXCEPT ![t] = @ \ {f}]
        /\ file' = [file EXCEPT ![t] = f]
        /\ \/ /\ RowsOf(f[2]) = {}
              /\ Enter(t, "store") /\ UNCHANGED found
           \/ \E p \in RowsOf(f[2]) :
              /\ found' = [found EXCEPT ![t] = p]
              /\ Enter(t, "adding")
    /\ UNCHANGED <<database, originals, session, link, worker, held, filed, budget>>

\* 404, unknown upload: the file fails and the next is tried.
SendRefused(t) ==
    /\ phase[t] = "send"
    /\ session[t] \notin DOMAIN uploads
    /\ \E f \in send[t] : send' = [send EXCEPT ![t] = @ \ {f}]
    /\ UNCHANGED <<database, originals, phase, session, link, file, found, worker, held, filed, budget>>

StoreFile(t) ==
    /\ phase[t] = "store"
    /\ originals' = originals \union {file[t][2]}
    /\ Enter(t, "insert")
    /\ UNCHANGED <<database, session, link, send, file, found, worker, held, filed, budget>>

\* UNIQUE(owner_id, content_hash): another tab's row makes the file fail.
InsertPhoto(t) ==
    /\ phase[t] = "insert"
    /\ \/ /\ RowsOf(file[t][2]) = {}
          /\ LET id == NewId(photos)
             IN  /\ photos' = [p \in DOMAIN photos \union {id} |->
                                  IF p = id THEN file[t][2] ELSE photos[p]]
                 /\ found' = [found EXCEPT ![t] = id]
          /\ Enter(t, "adding")
       \/ /\ RowsOf(file[t][2]) # {}
          /\ Enter(t, "send") /\ UNCHANGED <<photos, found>>
    /\ UNCHANGED <<uploads, sources, outbox, originals, session, link, send, file, worker, held, filed, budget>>

\* The path is recorded, or the file fails on a foreign key.
SendAdd(t) ==
    /\ phase[t] = "adding"
    /\ \/ /\ MayAdd(found[t], session[t], file[t][1])
          /\ sources' = AddSource(found[t], session[t], file[t][1])
          /\ held' = IF session[t] \in DOMAIN uploads THEN Told(t, {file[t][2]}) ELSE held
       \/ /\ ~MayAdd(found[t], session[t], file[t][1])
          /\ UNCHANGED <<sources, held>>
    /\ Enter(t, "send")
    /\ UNCHANGED <<uploads, photos, outbox, originals, session, link, send, file, found, worker, budget, filed>>

\* finish, or an error of the probe that ends the session.
Finish(t) ==
    /\ \/ phase[t] = "send" /\ send[t] = {}
       \/ phase[t] = "probe" /\ session[t] \notin DOMAIN uploads
       \/ phase[t] = "linking" /\ ~MayAdd(found[t], session[t], file[t][1])
    /\ Leave(t)
    /\ UNCHANGED <<database, originals, worker, held, filed, budget>>

SessionStep(t) ==
    \/ Probe(t) \/ LinkRead(t) \/ LinkAdd(t) \/ Probed(t)
    \/ SendFile(t) \/ SendRefused(t) \/ StoreFile(t) \/ InsertPhoto(t) \/ SendAdd(t)
    \/ Finish(t)

-----------------------------------------------------------------------------
(* Deletion of folders.                                                    *)

\* POST /upload/folder/delete, from a page that may be out of date.
RequestDeletion ==
    /\ budget.requests < MaxRequests /\ Spend("requests")
    /\ \E l \in Labels : outbox' = outbox \union {l}
    /\ UNCHANGED <<uploads, photos, sources, originals, tab, worker, held, filed>>

Go(there) == at' = there

\* A drain pass reads the outbox.
DrainBegin ==
    /\ at = "idle" /\ outbox # {}
    /\ pending' = outbox
    /\ Go("uploads")
    /\ UNCHANGED <<database, originals, tab, label, ids, affected, victim, held, filed, budget>>

\* Bug variant of ReadUploads: a folder without uploads is left in the outbox.
ReadUploadsOrLeave ==
    /\ at = "uploads"
    /\ \E l \in pending :
        /\ label' = l /\ pending' = pending \ {l}
        /\ ids' = {u \in DOMAIN uploads : uploads[u] = l}
        /\ Go(IF ids' # {} THEN "affected" ELSE IF pending' = {} THEN "idle" ELSE "uploads")
    /\ UNCHANGED <<database, originals, tab, affected, victim, held, filed, budget>>

\* The next folder's uploads; nothing more is done for a folder without any.
ReadUploads ==
    /\ at = "uploads"
    /\ \E l \in pending :
        /\ label' = l /\ pending' = pending \ {l}
        /\ ids' = {u \in DOMAIN uploads : uploads[u] = l}
        /\ Go(IF ids' # {} THEN "affected" ELSE "clear")
    /\ UNCHANGED <<database, originals, tab, affected, victim, held, filed, budget>>

ReadAffected ==
    /\ at = "affected"
    /\ affected' = {s.photo : s \in {r \in sources : r.upload \in ids}}
    /\ Go("drop")
    /\ UNCHANGED <<database, originals, tab, pending, label, ids, victim, held, filed, budget>>

\* Bug variant of SourcesLeft: the cascade is off.
SourcesLeftAll(S) == sources

\* ON DELETE CASCADE of photo_sources.upload_id.
SourcesLeft(S) == {s \in sources : s.upload \notin S}

DropUploads ==
    /\ at = "drop"
    /\ uploads' = Without(uploads, ids)
    /\ sources' = SourcesLeft(ids)
    /\ Go("photos")
    /\ UNCHANGED <<photos, outbox, originals, tab, pending, label, ids, affected, victim, held, filed, budget>>

\* Bug variant of Forsaken: any affected photo may go.
ForsakenAll(p) == TRUE

\* No folder holds the photo any more.
Forsaken(p) == \A s \in sources : s.photo # p

RowGone(p) ==
    /\ photos' = Without(photos, {p})
    /\ sources' = {s \in sources : s.photo # p}

\* Bug variant of CheckPhoto: the row goes before the files.
CheckPhotoRowFirst ==
    /\ at = "photos"
    /\ \E p \in affected :
        /\ affected' = affected \ {p}
        /\ \/ /\ Forsaken(p) /\ p \in DOMAIN photos
              /\ victim' = [id |-> p, hash |-> photos[p]]
              /\ RowGone(p)
              /\ Go("erase")
           \/ /\ ~(Forsaken(p) /\ p \in DOMAIN photos)
              /\ UNCHANGED <<at, victim, photos, sources>>
    /\ UNCHANGED <<uploads, outbox, originals, tab, pending, label, ids, held, filed, budget>>

\* The next affected photo is deleted wholly or was kept by another folder.
CheckPhoto ==
    /\ at = "photos"
    /\ \E p \in affected :
        /\ affected' = affected \ {p}
        /\ \/ /\ Forsaken(p) /\ p \in DOMAIN photos
              /\ victim' = [id |-> p, hash |-> photos[p]]
              /\ Go("erase")
           \/ /\ ~(Forsaken(p) /\ p \in DOMAIN photos)
              /\ UNCHANGED <<at, victim>>
    /\ UNCHANGED <<database, originals, tab, pending, label, ids, held, filed, budget>>

\* The original, the thumbnails and the index entries, which no key protects.
EraseFiles ==
    /\ at = "erase"
    /\ originals' = originals \ {victim.hash}
    /\ Go("row")
    /\ UNCHANGED <<database, tab, pending, label, ids, affected, victim, held, filed, budget>>

\* The row, with all that references it.
DeleteRow ==
    /\ at = "row"
    /\ RowGone(victim.id)
    /\ Go("photos") /\ victim' = Nothing
    /\ UNCHANGED <<uploads, outbox, originals, tab, pending, label, ids, affected, held, filed, budget>>

\* The folder is done and leaves the outbox.
ClearRequest ==
    /\ \/ at = "clear"
       \/ at = "photos" /\ affected = {}
    /\ outbox' = outbox \ {label}
    /\ held' = {x \in held : x[1] # label}
    /\ Go(IF pending = {} THEN "idle" ELSE "uploads")
    /\ label' = "none" /\ ids' = {}
    /\ UNCHANGED <<uploads, photos, sources, originals, tab, pending, affected, victim, budget, filed>>

WorkerStep ==
    \/ DrainBegin \/ ReadUploads \/ ReadAffected \/ DropUploads
    \/ CheckPhoto \/ EraseFiles \/ DeleteRow \/ ClearRequest

\* The worker is killed, and forgets its drain.
WorkerCrash ==
    /\ at # "down"
    /\ budget.worker < MaxWorkerCrashes /\ Spend("worker")
    /\ at' = "down" /\ pending' = {} /\ label' = "none"
    /\ ids' = {} /\ affected' = {} /\ victim' = Nothing
    /\ UNCHANGED <<database, originals, tab, held, filed>>

\* Somebody starts it again, and it goes by the outbox.
WorkerStart ==
    /\ at = "down"
    /\ Go("idle")
    /\ UNCHANGED <<database, originals, tab, pending, label, ids, affected, victim, held, filed, budget>>

\* The app is killed: every session ends with an error where it is.
AppCrash ==
    /\ budget.app < MaxAppCrashes /\ Spend("app")
    /\ \E t \in Tabs : phase[t] # "idle"
    /\ phase' = [t \in Tabs |-> "idle"]
    /\ session' = [t \in Tabs |-> 0]
    /\ link' = [t \in Tabs |-> {}] /\ send' = [t \in Tabs |-> {}]
    /\ file' = [t \in Tabs |-> <<>>]
    /\ found' = [t \in Tabs |-> 0]
    /\ UNCHANGED <<database, originals, worker, held, filed>>

-----------------------------------------------------------------------------
Uploading == \E t \in Tabs : phase[t] # "idle"
Deleting  == outbox # {} \/ at \notin {"down", "idle"}

Next ==
    /\ \/ \E t \in Tabs : Start(t) \/ SessionStep(t)
       \/ RequestDeletion
       \/ WorkerStep
       \/ WorkerCrash \/ WorkerStart
       \/ AppCrash
    /\ overlapped' = (overlapped \/ (Uploading' /\ Deleting'))

(* A worker that runs polls for ever; nothing is assumed of tabs and users, *)
(* nor that somebody starts a worker that died.                             *)
Fairness == WF_vars(WorkerStep /\ overlapped' = (overlapped \/ (Uploading' /\ Deleting')))

Spec == Init /\ [][Next]_vars /\ Fairness

-----------------------------------------------------------------------------
(* Properties.                                                             *)

\* Every variable stays in its domain, and no source refers to a missing row.
TypeOK ==
    /\ DOMAIN uploads \subseteq Nat /\ Range(uploads) \subseteq Labels
    /\ DOMAIN photos \subseteq Nat /\ Range(photos) \subseteq Hashes
    /\ sources \subseteq [photo : DOMAIN photos, upload : DOMAIN uploads, path : Paths]
    /\ outbox \subseteq Labels /\ originals \subseteq Hashes
    /\ phase \in [Tabs -> Phases]
    /\ \A t \in Tabs : link[t] \union send[t] \subseteq Files
    /\ at \in Places
    /\ pending \subseteq Labels /\ label \in Labels \union {"none"}
    /\ held \subseteq Labels \X Hashes
    /\ filed \subseteq Paths \X Labels

\* Rows of photos that some folder holds have their original stored, whatever a
\* deletion and an upload of the same content do to each other, except for the
\* moment before the row itself goes (folders._delete_photo, receive).
SourcedHasOriginal ==
    budget.worker = 0 =>
        \A s \in sources : photos[s.photo] \in originals \/ (at = "row" /\ victim.id = s.photo)

Quiet == ~Uploading /\ ~Deleting

\* The photos are those of the folders that were uploaded and not deleted since.
AsHeld == Range(photos) = {x[2] : x \in held}

\* No path came under two labels. It does when its folder is picked once by itself
\* and once behind another, whose label the whole pick takes (upload.js:134).
FiledOnce == \A x, y \in filed : x[1] = y[1] => x = y

\* A photo is in the library exactly while some folder was told it has its content,
\* over any sequence of uploads, also side by side, that take turns with deletions:
\* copies under other paths and in other folders, several folders in one pick,
\* folders uploaded twice, row ids given again (probe, receive, link_existing,
\* _delete_folder).
HeldExactly ==
    Quiet /\ ~overlapped /\ FiledOnce /\ budget.worker = 0 /\ budget.app = 0 => AsHeld

\* Where a worker that died is started again, a deletion asked for is settled in the
\* end, whether or not there is anything left to delete (process_folder_deletions).
OutboxSettles == []<>(at # "down") => \A l \in Labels : l \in outbox ~> l \notin outbox

-----------------------------------------------------------------------------
(* What the documentation promises and the code does not keep.             *)

\* HeldExactly with restarts of the worker: "so a delete is reliable across
\* restarts" (docs/design.md, 3.2c).
HeldThroughRestarts == Quiet /\ ~overlapped /\ FiledOnce /\ budget.app = 0 => AsHeld
=============================================================================
