--------------------------- MODULE LibraryProofs ---------------------------
(***************************************************************************)
(* What holds of the library for any number of tabs, folders, contents and *)
(* faults, and, with one tab, of the originals its photos need.            *)
(***************************************************************************)
EXTENDS Library, TLAPS, WellFoundedInduction

-----------------------------------------------------------------------------
(* Row ids.                                                                *)

LessThan == OpToRel(<, Nat)

\* A nonempty set of naturals has a least element.
LEMMA LeastNat ==
    ASSUME NEW S \in SUBSET Nat, S # {}
    PROVE  \E x \in S : \A y \in S : x <= y
<1>1. IsWellFoundedOn(LessThan, Nat)
    BY NatLessThanWellFounded, Zenon DEF LessThan
<1>2. \A x, y \in Nat : x < y => <<x, y>> \in LessThan
    BY DEF LessThan, OpToRel
<1>3. PICK x \in S : \A y \in S : ~(<<y, x>> \in LessThan)
    BY <1>1, WFMin
<1>4. ASSUME NEW y \in S PROVE x <= y
    <2>1. ~(y < x)
        BY <1>2, <1>3
    <2> QED BY <2>1
<1> QED BY <1>4

\* The ids of a table: numbers, of which there are finitely many.
IdSet(S) == S \subseteq Nat /\ \E n \in Nat : \A i \in S : i <= n

LEMMA GreatestId ==
    ASSUME NEW S, IdSet(S), S # {}
    PROVE  Max(S) \in S /\ \A i \in S : i <= Max(S)
<1> DEFINE U == {n \in Nat : \A i \in S : i <= n}
<1>1. S \subseteq Nat /\ U \in SUBSET Nat /\ U # {}
    BY DEF IdSet
<1>2. PICK m \in U : \A n \in U : m <= n
    <2> HIDE DEF U
    <2> QED BY <1>1, LeastNat
<1>3. m \in S
    <2>1. SUFFICES ASSUME m \notin S PROVE FALSE
        OBVIOUS
    <2>2. \A i \in S : i \in Nat /\ i < m
        BY <1>1, <1>2, <2>1
    <2>3. PICK i \in S : i \in Nat /\ i < m
        BY <2>2
    <2>4. m - 1 \in U
        <3>1. m \in Nat /\ m - 1 \in Nat
            BY <2>3
        <3>2. \A j \in S : j <= m - 1
            BY <2>2, <3>1
        <3> QED BY <3>1, <3>2
    <2>5. m <= m - 1
        BY <1>2, <2>4
    <2> QED BY <2>3, <2>5
<1>4. \E x \in S : \A i \in S : x >= i
    BY <1>1, <1>2, <1>3
<1>5. Max(S) \in S /\ \A i \in S : Max(S) >= i
    <2> HIDE DEF U
    <2> QED BY <1>4, Zenon DEF Max
<1> QED BY <1>1, <1>5

\* An INSERT gets an id that no row has.
LEMMA NewIdIsNew ==
    ASSUME NEW rows, IdSet(DOMAIN rows)
    PROVE  /\ NewId(rows) \in Nat
           /\ NewId(rows) \notin DOMAIN rows
           /\ IdSet(DOMAIN rows \union {NewId(rows)})
<1>1. CASE DOMAIN rows = {}
    BY <1>1 DEF NewId, IdSet
<1>2. CASE DOMAIN rows # {}
    <2>1. PICK m \in DOMAIN rows : NewId(rows) = m + 1 /\ \A i \in DOMAIN rows : i <= m
        BY <1>2, GreatestId DEF NewId
    <2> QED BY <2>1 DEF IdSet
<1> QED BY <1>1, <1>2

\* A table with a row more, and a table without some of its rows.
WithRow(rows, x) ==
    [i \in DOMAIN rows \union {NewId(rows)} |-> IF i = NewId(rows) THEN x ELSE rows[i]]

LEMMA OneMore ==
    ASSUME NEW T, NEW rows, NEW x \in T,
           IdSet(DOMAIN rows), Range(rows) \subseteq T
    PROVE  /\ IdSet(DOMAIN WithRow(rows, x)) /\ Range(WithRow(rows, x)) \subseteq T
           /\ NewId(rows) \in Nat
           /\ DOMAIN WithRow(rows, x) = DOMAIN rows \union {NewId(rows)}
BY NewIdIsNew DEF Range, WithRow

LEMMA Fewer ==
    ASSUME NEW T, NEW rows, NEW S,
           IdSet(DOMAIN rows), Range(rows) \subseteq T
    PROVE  /\ IdSet(DOMAIN Without(rows, S)) /\ Range(Without(rows, S)) \subseteq T
           /\ DOMAIN Without(rows, S) = DOMAIN rows \ S
BY DEF IdSet, Range, Without, Restrict
-----------------------------------------------------------------------------
(* Types, and the foreign keys.                                            *)

Tables == IdSet(DOMAIN uploads) /\ IdSet(DOMAIN photos)

Locals ==
    /\ session \in [Tabs -> Nat] /\ found \in [Tabs -> Nat]
    /\ link \in [Tabs -> SUBSET Files] /\ send \in [Tabs -> SUBSET Files]
    /\ file \in [Tabs -> Files \union {<<>>}]

\* A request that works on a file has one.
InHand ==
    \A t \in Tabs : phase[t] \in {"linking", "store", "insert", "adding"} => file[t] \in Files

TypeInv == TypeOK /\ Tables /\ Locals /\ InHand

LEMMA TypeInit == Init => TypeInv
BY DEF Init, TypeInv, TypeOK, Tables, Locals, InHand, IdSet, Phases, Places, Range

\* Recording a path keeps the foreign keys.
LEMMA AddSourceTyped ==
    ASSUME TypeInv, NEW p, NEW u, NEW x \in Paths, MayAdd(p, u, x)
    PROVE  AddSource(p, u, x) \subseteq [photo : DOMAIN photos, upload : DOMAIN uploads, path : Paths]
BY DEF TypeInv, TypeOK, MayAdd, AddSource, Recorded

LEMMA SessionTypes ==
    ASSUME TypeInv, NEW t \in Tabs, SessionStep(t)
    PROVE  TypeInv'
<1> USE DEF TypeInv, TypeOK, Tables, Locals, InHand, Phases, Enter, database, tab, worker
<1>1. CASE Probe(t)
    BY <1>1 DEF Probe, Linked, Told, RowsOf, Range, Files
<1>2. CASE LinkRead(t)
    <2>1. PICK f \in link[t] : \/ phase' = phase /\ file' = file /\ found' = found
                               \/ \E p \in RowsOf(f[2]) :
                                    /\ file' = [file EXCEPT ![t] = f]
                                    /\ found' = [found EXCEPT ![t] = p]
                                    /\ phase' = [phase EXCEPT ![t] = "linking"]
        BY <1>2 DEF LinkRead
    <2>2. link' \in [Tabs -> SUBSET Files]
        BY <1>2 DEF LinkRead
    <2>3. /\ found' \in [Tabs -> Nat] /\ file' \in [Tabs -> Files \union {<<>>}]
          /\ phase' \in [Tabs -> Phases] /\ InHand'
        <3>1. f \in Files /\ RowsOf(f[2]) \subseteq Nat
            BY DEF RowsOf, IdSet
        <3> QED BY <2>1, <3>1
    <2> QED BY <1>2, <2>2, <2>3 DEF LinkRead
<1>3. CASE LinkAdd(t)
    BY <1>3, AddSourceTyped DEF LinkAdd, Files
<1>4. CASE Probed(t)
    BY <1>4 DEF Probed
<1>5. CASE SendFile(t)
    <2>1. PICK f \in send[t] :
            /\ send' = [send EXCEPT ![t] = @ \ {f}] /\ file' = [file EXCEPT ![t] = f]
            /\ \/ phase' = [phase EXCEPT ![t] = "store"] /\ found' = found
               \/ \E p \in RowsOf(f[2]) :
                    /\ found' = [found EXCEPT ![t] = p]
                    /\ phase' = [phase EXCEPT ![t] = "adding"]
        BY <1>5 DEF SendFile
    <2>2. /\ send' \in [Tabs -> SUBSET Files] /\ file' \in [Tabs -> Files \union {<<>>}]
          /\ found' \in [Tabs -> Nat] /\ phase' \in [Tabs -> Phases] /\ InHand'
        BY <2>1, ZenonT(40) DEF RowsOf, IdSet
    <2> QED BY <1>5, <2>2 DEF SendFile
<1>6. CASE SendRefused(t)
    BY <1>6 DEF SendRefused
<1>7. CASE StoreFile(t)
    BY <1>7 DEF StoreFile, Files
<1>8. CASE InsertPhoto(t)
    <2>1. CASE photos' = photos /\ found' = found /\ phase' = [phase EXCEPT ![t] = "send"]
        BY <1>8, <2>1 DEF InsertPhoto
    <2>2. CASE /\ photos' = WithRow(photos, file[t][2])
               /\ found' = [found EXCEPT ![t] = NewId(photos)]
               /\ phase' = [phase EXCEPT ![t] = "adding"]
        <3>1. file[t] \in Files /\ file[t][2] \in Hashes
            BY <1>8 DEF InsertPhoto, Files
        <3>2. /\ IdSet(DOMAIN photos') /\ Range(photos') \subseteq Hashes
              /\ NewId(photos) \in Nat /\ DOMAIN photos \subseteq DOMAIN photos'
            <4>1. PICK h \in Hashes : photos' = WithRow(photos, h)
                BY <2>2, <3>1, Zenon
            <4>2. IdSet(DOMAIN photos) /\ Range(photos) \subseteq Hashes
                OBVIOUS
            <4>3. /\ IdSet(DOMAIN photos') /\ Range(photos') \subseteq Hashes
                  /\ NewId(photos) \in Nat /\ DOMAIN photos' = DOMAIN photos \union {NewId(photos)}
                BY ONLY <4>1, <4>2, OneMore, Zenon
            <4> QED BY <4>3
        <3>3. sources' \subseteq [photo : DOMAIN photos', upload : DOMAIN uploads', path : Paths]
            BY <1>8, <3>2 DEF InsertPhoto
        <3>4. DOMAIN photos' \subseteq Nat
            BY <3>2 DEF IdSet
        <3>5. found' \in [Tabs -> Nat] /\ phase' \in [Tabs -> Phases] /\ file' = file
            BY <1>8, <2>2, <3>2 DEF InsertPhoto
        <3>6. InHand'
            BY <2>2, <3>1, <3>5
        <3> QED BY <1>8, <3>2, <3>3, <3>4, <3>5, <3>6 DEF InsertPhoto
    <2> QED BY <1>8, <2>1, <2>2 DEF InsertPhoto, WithRow
<1>9. CASE SendAdd(t)
    BY <1>9, AddSourceTyped DEF SendAdd, Told, Range, Files
<1>10. CASE Finish(t)
    BY <1>10 DEF Finish, Leave
<1> QED BY <1>1, <1>2, <1>3, <1>4, <1>5, <1>6, <1>7, <1>8, <1>9, <1>10 DEF SessionStep

LEMMA WorkerTypes ==
    ASSUME TypeInv, WorkerStep
    PROVE  TypeInv'
<1> USE DEF TypeInv, TypeOK, Tables, Locals, InHand, Places, Go, database, tab, worker
<1>1. CASE DrainBegin
    BY <1>1 DEF DrainBegin
<1>2. CASE ReadUploads
    BY <1>2 DEF ReadUploads
<1>3. CASE ReadAffected
    BY <1>3 DEF ReadAffected
<1>4. CASE DropUploads
    <2>1. /\ IdSet(DOMAIN uploads') /\ Range(uploads') \subseteq Labels
          /\ DOMAIN uploads' = DOMAIN uploads \ ids
        <3>1. IdSet(DOMAIN uploads) /\ Range(uploads) \subseteq Labels /\ uploads' = Without(uploads, ids)
            BY <1>4 DEF DropUploads
        <3> QED BY ONLY <3>1, Fewer, Zenon
    <2>2. sources' \subseteq [photo : DOMAIN photos', upload : DOMAIN uploads', path : Paths]
        BY <1>4, <2>1 DEF DropUploads, SourcesLeft
    <2> QED BY <1>4, <2>1, <2>2 DEF DropUploads, IdSet
<1>5. CASE CheckPhoto
    BY <1>5 DEF CheckPhoto
<1>6. CASE EraseFiles
    BY <1>6 DEF EraseFiles
<1>7. CASE DeleteRow
    <2>1. /\ IdSet(DOMAIN photos') /\ Range(photos') \subseteq Hashes
          /\ DOMAIN photos' = DOMAIN photos \ {victim.id}
        <3>1. /\ IdSet(DOMAIN photos) /\ Range(photos) \subseteq Hashes
              /\ photos' = Without(photos, {victim.id})
            BY <1>7 DEF DeleteRow, RowGone
        <3> QED BY ONLY <3>1, Fewer, Zenon
    <2>2. sources' \subseteq [photo : DOMAIN photos', upload : DOMAIN uploads', path : Paths]
        BY <1>7, <2>1 DEF DeleteRow, RowGone
    <2> QED BY <1>7, <2>1, <2>2 DEF DeleteRow, IdSet
<1>8. CASE ClearRequest
    BY <1>8 DEF ClearRequest
<1> QED BY <1>1, <1>2, <1>3, <1>4, <1>5, <1>6, <1>7, <1>8 DEF WorkerStep

LEMMA TypeStep == TypeInv /\ [Next]_vars => TypeInv'
<1> SUFFICES ASSUME TypeInv, [Next]_vars PROVE TypeInv'
    OBVIOUS
<1> USE DEF TypeInv, TypeOK, Tables, Locals, InHand, Phases, Places, database, tab, worker
<1>1. ASSUME NEW t \in Tabs, Start(t) PROVE TypeInv'
    <2>1. PICK k \in Picks :
            /\ uploads' = WithRow(uploads, k.label)
            /\ session' = [session EXCEPT ![t] = NewId(uploads)]
            /\ send' = [send EXCEPT ![t] = k.files]
            /\ filed' = filed \union {<<f[1], k.label>> : f \in k.files}
        BY <1>1 DEF Start, WithRow
    <2>2. k.label \in Labels /\ k.files \subseteq Files
        BY LibraryAssumption
    <2>3. /\ IdSet(DOMAIN uploads') /\ Range(uploads') \subseteq Labels
          /\ NewId(uploads) \in Nat /\ DOMAIN uploads \subseteq DOMAIN uploads'
        <3>1. IdSet(DOMAIN uploads) /\ Range(uploads) \subseteq Labels
            OBVIOUS
        <3>2. /\ IdSet(DOMAIN uploads') /\ Range(uploads') \subseteq Labels
              /\ NewId(uploads) \in Nat
              /\ DOMAIN uploads' = DOMAIN uploads \union {NewId(uploads)}
            BY ONLY <2>1, <2>2, <3>1, OneMore, Zenon
        <3> QED BY <3>2
    <2>4. sources' \subseteq [photo : DOMAIN photos', upload : DOMAIN uploads', path : Paths]
        BY <1>1, <2>3 DEF Start
    <2>5. /\ session' \in [Tabs -> Nat] /\ send' \in [Tabs -> SUBSET Files]
          /\ DOMAIN uploads' \subseteq Nat
        BY <2>1, <2>2, <2>3 DEF IdSet
    <2>6. filed' \subseteq Paths \X Labels
        BY <2>1, <2>2 DEF Files
    <2> QED BY <1>1, <2>3, <2>4, <2>5, <2>6 DEF Start, Enter
<1>2. ASSUME NEW t \in Tabs, SessionStep(t) PROVE TypeInv'
    BY <1>2, SessionTypes
<1>3. CASE RequestDeletion
    BY <1>3 DEF RequestDeletion
<1>4. CASE WorkerStep
    BY <1>4, WorkerTypes
<1>5. CASE WorkerCrash \/ WorkerStart
    BY <1>5 DEF WorkerCrash, WorkerStart, Go
<1>6. CASE AppCrash
    BY <1>6 DEF AppCrash
<1>7. CASE UNCHANGED vars
    BY <1>7 DEF vars
<1> QED BY <1>1, <1>2, <1>3, <1>4, <1>5, <1>6, <1>7 DEF Next

\* Every variable stays in its domain and every source refers to an upload and a photo
\* that exist, for any tabs, folders, contents, crashes and bounds.
THEOREM TypeCorrect == Spec => []TypeOK
<1>1. TypeInv => TypeOK
    BY DEF TypeInv
<1> QED BY <1>1, TypeInit, TypeStep, PTL DEF Spec

-----------------------------------------------------------------------------
(* Originals, with one tab.                                                *)

OneTab == \A t, u \in Tabs : t = u

Counted == budget \in [uploads : Nat, requests : Nat, worker : Nat, app : Nat]

\* UNIQUE(owner_id, content_hash).
Unique == \A p, q \in DOMAIN photos : photos[p] = photos[q] => p = q

\* The photo being erased still has its row.
Chosen == at \in {"erase", "row"} => victim.id \in DOMAIN photos /\ photos[victim.id] = victim.hash

\* The content being stored has no row, and its file is written before it gets one.
Storing ==
    \A t \in Tabs :
        /\ phase[t] \in {"store", "insert"} => RowsOf(file[t][2]) = {}
        /\ phase[t] = "insert" => file[t][2] \in originals

\* Until a worker dies, only the row that is about to go is without its original.
Stored ==
    budget.worker = 0 =>
        \A p \in DOMAIN photos : photos[p] \in originals \/ (at = "row" /\ victim.id = p)

OriginalInv == TypeInv /\ Counted /\ Unique /\ Chosen /\ Storing /\ Stored

LEMMA OriginalInit == Init => OriginalInv
<1> SUFFICES ASSUME Init PROVE OriginalInv
    OBVIOUS
<1>1. Counted
    BY DEF Init, Counted
<1>2. Unique /\ Chosen /\ Storing /\ Stored
    BY DEF Init, Unique, Chosen, Storing, Stored
<1> QED BY <1>1, <1>2, TypeInit DEF OriginalInv

LEMMA SpendCounts ==
    ASSUME Counted, NEW what \in {"uploads", "requests", "worker", "app"}, Spend(what)
    PROVE  /\ Counted'
           /\ budget'.worker = IF what = "worker" THEN budget.worker + 1 ELSE budget.worker
BY DEF Counted, Spend

\* A step of the tab that neither stores a file nor inserts a row.
LEMMA TabKeeps ==
    ASSUME OneTab, OriginalInv, TypeInv', NEW t \in Tabs,
           UNCHANGED <<photos, originals, at, victim>>,
           Counted', budget'.worker = budget.worker,
           phase'[t] \in {"store", "insert"} => RowsOf(file'[t][2]) = {},
           phase'[t] # "insert"
    PROVE  OriginalInv'
<1>1. Unique' /\ Chosen' /\ Stored'
    BY DEF OriginalInv, Unique, Chosen, Stored
<1>2. Storing'
    BY DEF OriginalInv, Storing, OneTab, RowsOf
<1> QED BY <1>1, <1>2 DEF OriginalInv

LEMMA SessionOriginals ==
    ASSUME OneTab, OriginalInv, TypeInv', NEW t \in Tabs, SessionStep(t)
    PROVE  OriginalInv'
<1>1. /\ phase \in [Tabs -> Phases] /\ file \in [Tabs -> Files \union {<<>>}]
      /\ link \in [Tabs -> SUBSET Files] /\ send \in [Tabs -> SUBSET Files]
    BY DEF OriginalInv, TypeInv, TypeOK, Locals
<1>2. /\ at' = at /\ victim' = victim /\ Counted' /\ budget' = budget
    BY DEF SessionStep, Probe, LinkRead, LinkAdd, Probed, SendFile, SendRefused, StoreFile,
           InsertPhoto, SendAdd, Finish, worker, OriginalInv, Counted
<1>3. CASE Probe(t) \/ LinkAdd(t) \/ Probed(t) \/ SendRefused(t) \/ SendAdd(t) \/ Finish(t)
    <2>1. UNCHANGED <<photos, originals>> /\ phase'[t] \notin {"store", "insert"}
        BY <1>1, <1>3 DEF Probe, LinkAdd, Probed, SendRefused, SendAdd, Finish, Leave, Enter, database
    <2> QED BY <1>2, <2>1, TabKeeps
<1>4. CASE LinkRead(t)
    <2>1. UNCHANGED <<photos, originals>> /\ phase'[t] \notin {"store", "insert"}
        BY <1>1, <1>4 DEF LinkRead, Enter, database
    <2> QED BY <1>2, <2>1, TabKeeps
<1>5. CASE SendFile(t)
    <2>1. PICK f \in send[t] :
            /\ file' = [file EXCEPT ![t] = f]
            /\ \/ RowsOf(f[2]) = {} /\ phase' = [phase EXCEPT ![t] = "store"]
               \/ phase' = [phase EXCEPT ![t] = "adding"]
        BY <1>5 DEF SendFile, Enter
    <2>2. UNCHANGED <<photos, originals>>
        BY <1>5 DEF SendFile, database
    <2>3. phase'[t] # "insert" /\ (phase'[t] = "store" => RowsOf(file'[t][2]) = {})
        BY <1>1, <2>1
    <2> QED BY <1>2, <2>2, <2>3, TabKeeps
<1>6. CASE StoreFile(t)
    <2>1. /\ photos' = photos /\ file' = file
          /\ originals' = originals \union {file[t][2]}
          /\ phase[t] = "store" /\ phase' = [phase EXCEPT ![t] = "insert"]
        BY <1>6 DEF StoreFile, Enter, database
    <2>2. Unique' /\ Chosen' /\ Stored'
        BY <1>2, <2>1 DEF OriginalInv, Unique, Chosen, Stored
    <2>3. Storing'
        BY <1>1, <2>1 DEF OriginalInv, Storing, OneTab, RowsOf
    <2> QED BY <1>2, <2>2, <2>3 DEF OriginalInv
<1>7. CASE InsertPhoto(t)
    <2>1. CASE photos' = photos /\ phase' = [phase EXCEPT ![t] = "send"]
        <3>1. UNCHANGED originals /\ phase'[t] \notin {"store", "insert"}
            BY <1>1, <1>7, <2>1 DEF InsertPhoto
        <3> QED BY <1>2, <2>1, <3>1, TabKeeps
    <2>2. CASE /\ RowsOf(file[t][2]) = {} /\ photos' = WithRow(photos, file[t][2])
               /\ phase' = [phase EXCEPT ![t] = "adding"]
        <3>1. /\ originals' = originals /\ file' = file /\ file[t] \in Files
              /\ file[t][2] \in originals
            BY <1>7 DEF InsertPhoto, OriginalInv, Storing, TypeInv, InHand
        <3>2. PICK h : h = file[t][2] /\ photos' = WithRow(photos, h)
            BY <2>2, Zenon
        <3>3. h \in Hashes /\ IdSet(DOMAIN photos) /\ Range(photos) \subseteq Hashes
            BY <3>1, <3>2 DEF OriginalInv, TypeInv, TypeOK, Tables, Files
        <3>4. PICK id : /\ id \notin DOMAIN photos /\ DOMAIN photos' = DOMAIN photos \union {id}
                        /\ photos'[id] = h /\ \A p \in DOMAIN photos : photos'[p] = photos[p]
            <4>1. /\ NewId(photos) \notin DOMAIN photos
                  /\ DOMAIN photos' = DOMAIN photos \union {NewId(photos)}
                  /\ photos'[NewId(photos)] = h
                  /\ \A p \in DOMAIN photos : photos'[p] = photos[p]
                <5>1. NewId(photos) \notin DOMAIN photos
                    BY <3>3, NewIdIsNew
                <5>2. /\ DOMAIN WithRow(photos, h) = DOMAIN photos \union {NewId(photos)}
                      /\ WithRow(photos, h)[NewId(photos)] = h
                      /\ \A p \in DOMAIN photos : WithRow(photos, h)[p] = photos[p]
                    BY <5>1 DEF WithRow
                <5> QED BY ONLY <3>2, <5>1, <5>2, SMT
            <4> QED BY <4>1, Zenon
        <3>5. \A p \in DOMAIN photos : photos[p] # h
            BY <2>2, <3>2 DEF RowsOf
        <3>6. Unique'
            BY <3>4, <3>5 DEF OriginalInv, Unique
        <3>7. Chosen' /\ Stored'
            BY <1>2, <3>1, <3>2, <3>4 DEF OriginalInv, Chosen, Stored
        <3>8. Storing'
            BY <1>1, <2>2 DEF Storing, OneTab
        <3> QED BY <1>2, <3>6, <3>7, <3>8 DEF OriginalInv
    <2> QED BY <1>7, <2>1, <2>2 DEF InsertPhoto, WithRow, Enter
<1> QED BY <1>3, <1>4, <1>5, <1>6, <1>7 DEF SessionStep

LEMMA WorkerOriginals ==
    ASSUME OriginalInv, TypeInv', WorkerStep
    PROVE  OriginalInv'
<1>1. phase' = phase /\ file' = file /\ budget' = budget
    BY DEF WorkerStep, DrainBegin, ReadUploads, ReadAffected, DropUploads, CheckPhoto,
           EraseFiles, DeleteRow, ClearRequest, tab
<1>2. Counted'
    BY <1>1 DEF OriginalInv, Counted
<1>3. CASE DrainBegin \/ ReadUploads \/ ReadAffected \/ DropUploads \/ ClearRequest
    <2>1. /\ photos' = photos /\ originals' = originals
          /\ at \notin {"erase", "row"} /\ at' \notin {"erase", "row"}
        BY <1>3 DEF DrainBegin, ReadUploads, ReadAffected, DropUploads, ClearRequest, Go, database
    <2>2. Unique' /\ Chosen' /\ Storing' /\ Stored'
        BY <1>1, <2>1 DEF OriginalInv, Unique, Chosen, Storing, Stored, RowsOf
    <2> QED BY <1>2, <2>2 DEF OriginalInv
<1>4. CASE CheckPhoto
    <2>1. /\ photos' = photos /\ originals' = originals /\ at = "photos"
          /\ \/ at' = at /\ victim' = victim
             \/ \E p \in DOMAIN photos :
                  at' = "erase" /\ victim' = [id |-> p, hash |-> photos[p]]
        BY <1>4 DEF CheckPhoto, Go, database
    <2>2. Chosen'
        BY <2>1 DEF Chosen
    <2>3. Unique' /\ Storing' /\ Stored'
        BY <1>1, <2>1 DEF OriginalInv, Unique, Storing, Stored, RowsOf
    <2> QED BY <1>2, <2>2, <2>3 DEF OriginalInv
<1>5. CASE EraseFiles
    <2>1. /\ photos' = photos /\ originals' = originals \ {victim.hash}
          /\ at = "erase" /\ at' = "row" /\ victim' = victim
        BY <1>5 DEF EraseFiles, Go, database
    <2>2. victim.id \in DOMAIN photos /\ photos[victim.id] = victim.hash
        BY <2>1 DEF OriginalInv, Chosen
    <2>3. Unique' /\ Chosen' /\ Stored'
        BY <1>1, <2>1, <2>2 DEF OriginalInv, Unique, Chosen, Stored
    <2>4. Storing'
        BY <1>1, <2>1, <2>2 DEF OriginalInv, Storing, RowsOf
    <2> QED BY <1>2, <2>3, <2>4 DEF OriginalInv
<1>6. CASE DeleteRow
    <2>1. /\ photos' = Without(photos, {victim.id}) /\ originals' = originals
          /\ at = "row" /\ at' = "photos"
        BY <1>6 DEF DeleteRow, RowGone, Go
    <2>2. /\ DOMAIN photos' = DOMAIN photos \ {victim.id}
          /\ \A p \in DOMAIN photos' : photos'[p] = photos[p]
        BY <2>1 DEF Without, Restrict
    <2>3. Unique' /\ Chosen' /\ Stored'
        BY <1>1, <2>1, <2>2 DEF OriginalInv, Unique, Chosen, Stored
    <2>4. Storing'
        BY <1>1, <2>1, <2>2 DEF OriginalInv, Storing, RowsOf
    <2> QED BY <1>2, <2>3, <2>4 DEF OriginalInv
<1> QED BY <1>3, <1>4, <1>5, <1>6 DEF WorkerStep

LEMMA OriginalStep ==
    ASSUME OneTab
    PROVE  OriginalInv /\ [Next]_vars => OriginalInv'
<1> SUFFICES ASSUME OriginalInv, [Next]_vars PROVE OriginalInv'
    OBVIOUS
<1>1. TypeInv'
    BY TypeStep DEF OriginalInv
<1>2. Counted /\ phase \in [Tabs -> Phases]
    BY DEF OriginalInv, TypeInv, TypeOK
<1>3. ASSUME NEW t \in Tabs, Start(t) PROVE OriginalInv'
    <2>1. /\ UNCHANGED <<photos, originals, at, victim>> /\ Spend("uploads")
          /\ phase'[t] = "probe"
        BY <1>2, <1>3 DEF Start, Enter, worker
    <2>2. Counted' /\ budget'.worker = budget.worker
        BY <1>2, <2>1, SpendCounts
    <2> QED BY <1>1, <2>1, <2>2, TabKeeps
<1>4. ASSUME NEW t \in Tabs, SessionStep(t) PROVE OriginalInv'
    BY <1>1, <1>4, SessionOriginals
<1>5. CASE RequestDeletion
    <2>1. /\ UNCHANGED <<photos, originals, at, victim, phase, file>> /\ Spend("requests")
        BY <1>5 DEF RequestDeletion, tab, worker
    <2>2. Counted' /\ budget'.worker = budget.worker
        BY <1>2, <2>1, SpendCounts
    <2>3. Unique' /\ Chosen' /\ Storing' /\ Stored'
        BY <2>1, <2>2 DEF OriginalInv, Unique, Chosen, Storing, Stored, RowsOf
    <2> QED BY <1>1, <2>2, <2>3 DEF OriginalInv
<1>6. CASE WorkerStep
    BY <1>1, <1>6, WorkerOriginals
<1>7. CASE WorkerCrash
    <2>1. /\ UNCHANGED <<photos, originals, phase, file>> /\ Spend("worker") /\ at' = "down"
        BY <1>7 DEF WorkerCrash, database, tab
    <2>2. Counted' /\ budget'.worker = budget.worker + 1 /\ budget.worker \in Nat
        BY <1>2, <2>1, SpendCounts DEF Counted
    <2>3. Stored'
        BY <2>2 DEF Stored
    <2>4. Unique' /\ Chosen' /\ Storing'
        BY <2>1 DEF OriginalInv, Unique, Chosen, Storing, RowsOf
    <2> QED BY <1>1, <2>2, <2>3, <2>4 DEF OriginalInv
<1>8. CASE AppCrash
    <2>1. /\ UNCHANGED <<photos, originals, at, victim>> /\ Spend("app")
          /\ phase' = [t \in Tabs |-> "idle"]
        BY <1>8 DEF AppCrash, database, worker
    <2>2. Counted' /\ budget'.worker = budget.worker
        BY <1>2, <2>1, SpendCounts
    <2>3. Unique' /\ Chosen' /\ Storing' /\ Stored'
        BY <2>1, <2>2 DEF OriginalInv, Unique, Chosen, Storing, Stored
    <2> QED BY <1>1, <2>2, <2>3 DEF OriginalInv
<1>10. CASE WorkerStart
    <2>1. UNCHANGED <<photos, originals, phase, file, budget>> /\ at' = "idle" /\ at = "down"
        BY <1>10 DEF WorkerStart, Go, database, tab
    <2>2. Counted' /\ Unique' /\ Chosen' /\ Storing' /\ Stored'
        BY <2>1 DEF OriginalInv, Counted, Unique, Chosen, Storing, Stored, RowsOf
    <2> QED BY <1>1, <2>2 DEF OriginalInv
<1>9. CASE UNCHANGED vars
    <2>1. UNCHANGED <<photos, originals, at, victim, phase, file, budget>>
        BY <1>9 DEF vars, database, tab, worker
    <2>2. Counted' /\ Unique' /\ Chosen' /\ Storing' /\ Stored'
        BY <2>1 DEF OriginalInv, Counted, Unique, Chosen, Storing, Stored, RowsOf
    <2> QED BY <1>1, <2>2 DEF OriginalInv
<1> QED BY <1>3, <1>4, <1>5, <1>6, <1>7, <1>8, <1>9, <1>10 DEF Next

\* With one tab, a photo that some folder holds has its original stored, in whatever
\* order uploads and deletions of the same content overlap, as long as the worker
\* has not been killed between a file and its row.
THEOREM OriginalsKept ==
    ASSUME OneTab
    PROVE  Spec => []SourcedHasOriginal
<1>1. OriginalInv => SourcedHasOriginal
    BY DEF OriginalInv, TypeInv, TypeOK, Stored, SourcedHasOriginal
<1>2. Init => OriginalInv
    BY OriginalInit
<1>3. OriginalInv /\ [Next]_vars => OriginalInv'
    BY OriginalStep
<1> QED BY <1>1, <1>2, <1>3, PTL DEF Spec

-----------------------------------------------------------------------------
(* What the library holds, for any number of tabs: as long as sessions and  *)
(* deletions take turns and nothing is killed, the photos are those of the *)
(* folders that were told they have them.                                  *)

Turns == ~overlapped /\ FiledOnce /\ budget.worker = 0 /\ budget.app = 0
Apart == ~(Uploading /\ Deleting)

\* The path came under this label.
Belongs(path, l) == <<path, l>> \in filed

\* A source has a path that came under its upload's label.
OwnPaths == \A s \in sources : Belongs(s.path, uploads[s.upload])

\* Files that tab t was told are known and has still to link.
ToLink(t) == link[t] \union {f \in {file[t]} : phase[t] = "linking"}

\* The folder holds the content by a source, or is about to be linked to it.
Holds(l, h) == \E s \in sources : uploads[s.upload] = l /\ photos[s.photo] = h
Shown(l, h) == \/ Holds(l, h)
               \/ \E t \in Tabs : \E f \in ToLink(t) : uploads[session[t]] = l /\ f[2] = h

\* A session under way: its upload is there, its files are its folder's, the photo it
\* has found or inserted is that of the file in hand, and what it has to link is known.
SessionOK(t) ==
    /\ phase[t] # "idle" =>
         session[t] \in DOMAIN uploads /\ \A f \in link[t] \union send[t] : Belongs(f[1], uploads[session[t]])
    /\ phase[t] \in {"linking", "store", "insert", "adding"} => Belongs(file[t][1], uploads[session[t]])
    /\ phase[t] \in {"linking", "adding"} => found[t] \in DOMAIN photos /\ photos[found[t]] = file[t][2]
    /\ phase[t] \notin {"link", "linking"} => link[t] = {}
    /\ \A f \in ToLink(t) : <<uploads[session[t]], f[2]>> \in held /\ RowsOf(f[2]) # {}

\* The folder in hand has lost its uploads, and what it held is being looked at.
Dropping == at \in {"photos", "erase", "row", "clear"}

\* Sources and what was told agree, except for the folder that is being deleted.
Agreed ==
    /\ \A s \in sources : <<uploads[s.upload], photos[s.photo]>> \in held
    /\ \A x \in held : Shown(x[1], x[2]) \/ (Dropping /\ x[1] = label)

\* Every photo has a source, or is about to get its first, or to be looked at or erased.
Kept ==
    \A p \in DOMAIN photos :
        \/ \E s \in sources : s.photo = p
        \/ \E t \in Tabs : phase[t] = "adding" /\ found[t] = p
        \/ p \in affected
        \/ at \in {"erase", "row"} /\ victim.id = p

\* What the drain has read is still so.
Drained ==
    /\ at \in {"affected", "drop"} => ids = {u \in DOMAIN uploads : uploads[u] = label}
    /\ at = "drop" => \A s \in sources : s.upload \in ids => s.photo \in affected
    /\ Dropping => \A u \in DOMAIN uploads : uploads[u] # label
    /\ at \in {"down", "idle", "uploads", "affected", "clear"} => affected = {}
    /\ at \in {"erase", "row"} => Forsaken(victim.id)

Settled ==
    /\ OwnPaths
    /\ \A t \in Tabs : SessionOK(t)
    /\ Agreed
    /\ Kept
    /\ Drained

HeldInv == TypeInv /\ Counted /\ (Turns => Apart /\ Settled)

LEMMA BelongsOnce ==
    ASSUME FiledOnce, NEW x, NEW l, NEW m, Belongs(x, l), Belongs(x, m)
    PROVE  l = m
<1>1. <<x, l>>[1] = <<x, m>>[1] => <<x, l>> = <<x, m>>
    BY DEF FiledOnce, Belongs
<1> QED BY <1>1

LEMMA HeldInit == Init => HeldInv
<1> SUFFICES ASSUME Init PROVE HeldInv
    OBVIOUS
<1>1. Counted
    BY DEF Init, Counted
<1>2. Apart /\ OwnPaths /\ Kept /\ Drained
    BY DEF Init, Apart, Uploading, OwnPaths, Kept, Drained, Dropping
<1>3. \A t \in Tabs : SessionOK(t)
    BY DEF Init, SessionOK, ToLink
<1>4. Agreed
    BY DEF Init, Agreed
<1> QED BY <1>1, <1>2, <1>3, <1>4, TypeInit DEF HeldInv, Settled

-----------------------------------------------------------------------------
(* Sessions: no deletion is under way.                                     *)

\* A step of tab t leaves the other tabs alone, and only adds to the tables.
Other(u) ==
    /\ phase'[u] = phase[u] /\ session'[u] = session[u] /\ link'[u] = link[u]
    /\ send'[u] = send[u] /\ file'[u] = file[u] /\ found'[u] = found[u]

Grow ==
    /\ DOMAIN uploads \subseteq DOMAIN uploads' /\ \A u \in DOMAIN uploads : uploads'[u] = uploads[u]
    /\ DOMAIN photos \subseteq DOMAIN photos' /\ \A p \in DOMAIN photos : photos'[p] = photos[p]
    /\ sources \subseteq sources' /\ held \subseteq held' /\ filed \subseteq filed'

\* A session that is left alone stays in order while the tables grow.
LEMMA GrowOther ==
    ASSUME Grow, NEW t \in Tabs, SessionOK(t), Other(t)
    PROVE  SessionOK(t)'
<1>1. ToLink(t)' = ToLink(t)
    BY DEF Other, ToLink
<1>2. phase[t] # "idle" => uploads'[session'[t]] = uploads[session[t]] /\ session'[t] \in DOMAIN uploads'
    BY DEF SessionOK, Other, Grow
<1>3. ASSUME NEW f \in ToLink(t) PROVE phase[t] # "idle" /\ RowsOf(f[2])' # {}
    <2>1. phase[t] # "idle"
        BY DEF SessionOK, ToLink
    <2>2. PICK p : p \in DOMAIN photos /\ photos[p] = f[2]
        BY DEF SessionOK, RowsOf
    <2>3. p \in RowsOf(f[2])'
        BY <2>2 DEF Grow, RowsOf
    <2> QED BY <2>1, <2>3
<1>4. \A x, l : Belongs(x, l) => Belongs(x, l)'
    BY DEF Belongs, Grow
<1> QED BY <1>1, <1>2, <1>3, <1>4 DEF SessionOK, Other, Grow

\* What a step of tab t owes the rest: its own session in order, what it adds to the
\* sources told, what it tells shown, what it had to link linked or still to be linked,
\* and a photo that it inserts, or has inserted, in its hand or with a source.
SessionOwes(t) ==
    /\ SessionOK(t)'
    /\ \A s \in sources' \ sources :
         Belongs(s.path, uploads[s.upload])' /\ <<uploads'[s.upload], photos'[s.photo]>> \in held'
    /\ \A x \in held' \ held : Shown(x[1], x[2])'
    /\ \A f \in ToLink(t) :
         \/ f \in ToLink(t)' /\ session'[t] = session[t]
         \/ \E s \in sources' : uploads'[s.upload] = uploads[session[t]] /\ photos'[s.photo] = f[2]
    /\ \A p \in DOMAIN photos' \ DOMAIN photos : phase'[t] = "adding" /\ found'[t] = p
    /\ phase[t] = "adding" => \E s \in sources' : s.photo = found[t]

LEMMA SessionSettles ==
    ASSUME TypeInv, Settled, ~Deleting, Grow, worker' = worker, NEW t \in Tabs,
           \A u \in Tabs \ {t} : Other(u), SessionOwes(t)
    PROVE  Settled'
<1>0. /\ at \in {"down", "idle"} /\ at' = at /\ affected' = {} /\ affected = {}
      /\ sources \subseteq [photo : DOMAIN photos, upload : DOMAIN uploads, path : Paths]
    BY DEF Deleting, worker, Settled, Drained, TypeInv, TypeOK
<1>1. OwnPaths'
    <2>1. ASSUME NEW s \in sources' PROVE Belongs(s.path, uploads[s.upload])'
        <3>1. CASE s \in sources
            BY <1>0, <3>1 DEF Settled, OwnPaths, Grow, Belongs
        <3> QED BY <3>1 DEF SessionOwes
    <2> QED BY <2>1 DEF OwnPaths
<1>2. \A u \in Tabs : SessionOK(u)'
    <2>1. ASSUME NEW u \in Tabs PROVE SessionOK(u)'
        BY GrowOther DEF SessionOwes, Settled
    <2> QED BY <2>1
<1>3. Agreed'
    <2>1. ASSUME NEW s \in sources' PROVE <<uploads'[s.upload], photos'[s.photo]>> \in held'
        <3>1. CASE s \in sources
            BY <1>0, <3>1 DEF Settled, Agreed, Grow
        <3> QED BY <3>1 DEF SessionOwes
    <2>2. ASSUME NEW x \in held' PROVE Shown(x[1], x[2])'
        <3>1. CASE x \notin held
            BY <3>1 DEF SessionOwes
        <3>2. CASE Holds(x[1], x[2])
            BY <1>0, <3>2 DEF Holds, Grow, Shown
        <3>3. ASSUME NEW u \in Tabs, NEW f \in ToLink(u), uploads[session[u]] = x[1], f[2] = x[2]
              PROVE  Shown(x[1], x[2])'
            <4>1. session[u] \in DOMAIN uploads
                BY DEF Settled, SessionOK, ToLink
            <4>2. CASE f \in ToLink(u)' /\ session'[u] = session[u]
                BY <3>3, <4>1, <4>2 DEF Shown, Grow
            <4>3. CASE u # t
                BY <3>3, <4>2, <4>3 DEF Other, ToLink
            <4>4. CASE u = t
                BY <3>3, <4>2, <4>4 DEF SessionOwes, Shown, Holds
            <4> QED BY <4>3, <4>4
        <3>4. x \in held => Shown(x[1], x[2])
            BY <1>0 DEF Settled, Agreed, Dropping
        <3> QED BY <3>1, <3>2, <3>3, <3>4 DEF Shown
    <2> QED BY <2>1, <2>2 DEF Agreed
<1>4. Kept'
    <2>1. ASSUME NEW p \in DOMAIN photos'
          PROVE  \/ \E s \in sources' : s.photo = p
                 \/ \E u \in Tabs : phase'[u] = "adding" /\ found'[u] = p
        <3>1. CASE p \notin DOMAIN photos
            BY <3>1 DEF SessionOwes
        <3>2. CASE \E s \in sources : s.photo = p
            BY <3>2 DEF Grow
        <3>3. ASSUME NEW u \in Tabs, phase[u] = "adding", found[u] = p
              PROVE  \/ \E s \in sources' : s.photo = p
                     \/ \E v \in Tabs : phase'[v] = "adding" /\ found'[v] = p
            BY <3>3 DEF Other, SessionOwes
        <3> QED BY <1>0, <3>1, <3>2, <3>3 DEF Settled, Kept
    <2> QED BY <2>1 DEF Kept
<1>5. Drained'
    BY <1>0 DEF Drained, Dropping
<1> QED BY <1>1, <1>2, <1>3, <1>4, <1>5 DEF Settled

\* The tables are left alone, and nothing is told or filed.
Same == UNCHANGED <<uploads, photos, sources, held, filed>>

LEMMA SameGrows == Same => Grow
BY DEF Same, Grow

\* Recording a path: afterwards the photo has a source with that path, in the folder
\* of the upload, be it this one or an older one.
LEMMA Recording ==
    ASSUME TypeInv, FiledOnce, OwnPaths, NEW p, NEW u \in DOMAIN uploads, NEW x,
           MayAdd(p, u, x), sources' = AddSource(p, u, x), Belongs(x, uploads[u])
    PROVE  /\ \A s \in sources' \ sources : s.photo = p /\ s.upload = u /\ s.path = x
           /\ \E s \in sources' : s.photo = p /\ uploads[s.upload] = uploads[u]
<1>1. CASE Recorded(p, x)
    <2>1. PICK s \in sources : s.photo = p /\ s.path = x
        BY <1>1 DEF Recorded
    <2>2. uploads[s.upload] = uploads[u]
        BY <2>1, BelongsOnce DEF OwnPaths
    <2> QED BY <1>1, <2>1, <2>2 DEF AddSource
<1>2. CASE ~Recorded(p, x)
    <2>1. PICK r : /\ r = [photo |-> p, upload |-> u, path |-> x]
                   /\ sources' = sources \union {r}
        BY <1>2 DEF AddSource
    <2>2. r.photo = p /\ r.upload = u /\ r.path = x
        BY <2>1
    <2> QED BY <2>1, <2>2
<1> QED BY <1>1, <1>2

\* The types a session's proofs use.
TabTypes ==
    /\ phase \in [Tabs -> Phases] /\ session \in [Tabs -> Nat] /\ found \in [Tabs -> Nat]
    /\ link \in [Tabs -> SUBSET Files] /\ send \in [Tabs -> SUBSET Files]
    /\ file \in [Tabs -> Files \union {<<>>}]

LEMMA TabTyped == TypeInv => TabTypes
BY DEF TypeInv, TypeOK, Locals, TabTypes

\* Each step of a session that leaves the tables alone.
LEMMA QuietSteps ==
    ASSUME TabTypes, Settled, Same, NEW t \in Tabs,
           LinkRead(t) \/ Probed(t) \/ SendFile(t) \/ SendRefused(t) \/ StoreFile(t) \/ Finish(t)
    PROVE  SessionOwes(t) /\ \A u \in Tabs \ {t} : Other(u)
<1>1. \A x : RowsOf(x)' = RowsOf(x)
    BY DEF Same, RowsOf
<1>2. \A x, l : Belongs(x, l)' <=> Belongs(x, l)
    BY DEF Belongs, Same
<1>3. SessionOK(t)
    BY DEF Settled
<1> USE <1>1, <1>2, <1>3 DEF TabTypes, SessionOK, SessionOwes, ToLink, Same, Enter, Other
<1>4. CASE LinkRead(t)
    <2>1. PICK f \in link[t] :
            /\ link' = [link EXCEPT ![t] = @ \ {f}]
            /\ \/ RowsOf(f[2]) = {} /\ phase' = phase /\ file' = file /\ found' = found
               \/ \E p \in RowsOf(f[2]) :
                    /\ file' = [file EXCEPT ![t] = f] /\ found' = [found EXCEPT ![t] = p]
                    /\ phase' = [phase EXCEPT ![t] = "linking"]
        BY <1>4 DEF LinkRead
    <2>2. phase[t] = "link" /\ session' = session /\ send' = send
        BY <1>4 DEF LinkRead
    <2>3. RowsOf(f[2]) # {}
        OBVIOUS
    <2>4. PICK p \in RowsOf(f[2]) :
             /\ file' = [file EXCEPT ![t] = f] /\ found' = [found EXCEPT ![t] = p]
             /\ phase' = [phase EXCEPT ![t] = "linking"]
        BY <2>1, <2>3
    <2>5. p \in DOMAIN photos /\ photos[p] = f[2]
        BY DEF RowsOf
    <2>6. ToLink(t)' = ToLink(t)
        BY <2>1, <2>2, <2>4
    <2> QED BY <2>1, <2>2, <2>4, <2>5, <2>6
<1>5. CASE Probed(t)
    BY <1>5 DEF Probed
<1>6. CASE SendFile(t)
    <2>1. PICK f \in send[t] :
            /\ send' = [send EXCEPT ![t] = @ \ {f}] /\ file' = [file EXCEPT ![t] = f]
            /\ \/ phase' = [phase EXCEPT ![t] = "store"] /\ found' = found
               \/ \E p \in RowsOf(f[2]) :
                    /\ found' = [found EXCEPT ![t] = p]
                    /\ phase' = [phase EXCEPT ![t] = "adding"]
        BY <1>6 DEF SendFile
    <2>2. phase[t] = "send" /\ session' = session /\ link' = link
        BY <1>6 DEF SendFile
    <2>3. \A p \in RowsOf(f[2]) : p \in DOMAIN photos /\ photos[p] = f[2]
        BY DEF RowsOf
    <2> QED BY <2>1, <2>2, <2>3
<1>7. CASE SendRefused(t)
    BY <1>7 DEF SendRefused
<1>8. CASE StoreFile(t)
    BY <1>8 DEF StoreFile
<1>9. CASE Finish(t)
    <2>1. phase[t] = "send"
        <3>1. phase[t] = "linking" => MayAdd(found[t], session[t], file[t][1])
            BY DEF MayAdd
        <3> QED BY <1>9, <3>1 DEF Finish
    <2> QED BY <1>9, <2>1 DEF Finish, Leave
<1> QED BY <1>4, <1>5, <1>6, <1>7, <1>8, <1>9

\* A new session: its upload's id is new, and its files are its folder's.
LEMMA StartOwes ==
    ASSUME TypeInv, Settled, NEW t \in Tabs, Start(t)
    PROVE  Grow /\ SessionOwes(t) /\ \A u \in Tabs \ {t} : Other(u)
<1>1. PICK k \in Picks :
        /\ uploads' = WithRow(uploads, k.label)
        /\ session' = [session EXCEPT ![t] = NewId(uploads)]
        /\ send' = [send EXCEPT ![t] = k.files]
        /\ filed' = filed \union {<<f[1], k.label>> : f \in k.files}
    BY DEF Start, WithRow
<1>2. IdSet(DOMAIN uploads) /\ TabTypes
    BY TabTyped DEF TypeInv, Tables
<1>3. PICK id : id = NewId(uploads) /\ id \notin DOMAIN uploads
    BY <1>2, NewIdIsNew
<1>4. /\ DOMAIN uploads' = DOMAIN uploads \union {id} /\ uploads'[id] = k.label
      /\ \A u \in DOMAIN uploads : uploads'[u] = uploads[u]
    BY <1>1, <1>3 DEF WithRow
<1>5. /\ phase[t] = "idle" /\ phase' = [phase EXCEPT ![t] = "probe"] /\ link[t] = {}
      /\ UNCHANGED <<photos, sources, held, link, file, found>>
    BY DEF Start, Enter, Settled, SessionOK
<1>6. /\ phase'[t] = "probe" /\ session'[t] = id /\ link'[t] = {} /\ send'[t] = k.files
      /\ \A u \in Tabs \ {t} : Other(u)
    BY <1>1, <1>2, <1>3, <1>5 DEF TabTypes, Other
<1>7. \A f \in k.files : <<f[1], uploads'[id]>> \in filed'
    BY <1>1, <1>4
<1>8. SessionOK(t)'
    BY <1>4, <1>6, <1>7 DEF SessionOK, ToLink, Belongs
<1>9. Grow
    BY <1>1, <1>4, <1>5 DEF Grow
<1>10. SessionOwes(t)
    BY <1>5, <1>6, <1>8 DEF SessionOwes, ToLink
<1> QED BY <1>6, <1>9, <1>10

\* The probe: what it tells is what it has then to link.
LEMMA ProbeOwes ==
    ASSUME TabTypes, Settled, NEW t \in Tabs, Probe(t)
    PROVE  Grow /\ SessionOwes(t) /\ \A u \in Tabs \ {t} : Other(u)
<1> DEFINE l == uploads[session[t]]
           known == {f \in send[t] : RowsOf(f[2]) # {}}
<1>1. /\ phase[t] = "probe" /\ session[t] \in DOMAIN uploads /\ link[t] = {}
      /\ \A f \in send[t] : Belongs(f[1], l)
    BY DEF Probe, Settled, SessionOK
<1>2. /\ UNCHANGED <<uploads, photos, sources, session, file, found, filed>>
      /\ phase' = [phase EXCEPT ![t] = "link"]
      /\ link' = [link EXCEPT ![t] = known]
    BY DEF Probe, Linked, Enter, database
<1>3. PICK S \in SUBSET send[t] : send' = [send EXCEPT ![t] = S]
    BY DEF Probe
<1>4. held' = held \union {<<l, f[2]>> : f \in known}
    BY SMTT(20) DEF Probe, Told
<1>5. Grow /\ \A u \in Tabs \ {t} : Other(u)
    BY <1>2, <1>3, <1>4 DEF Grow, Other, TabTypes
<1>6. phase'[t] = "link" /\ link'[t] = known /\ send'[t] = S /\ session'[t] = session[t]
    BY <1>2, <1>3 DEF TabTypes
<1>7. ToLink(t)' = known
    BY <1>6 DEF ToLink
<1>8. SessionOK(t)'
    <2>1. \A f \in known : <<l, f[2]>> \in held' /\ RowsOf(f[2])' # {}
        BY <1>2, <1>4 DEF RowsOf
    <2>2. \A f \in known \union S : Belongs(f[1], l)
        BY <1>1
    <2> HIDE DEF known
    <2> QED BY <1>1, <1>2, <1>6, <1>7, <2>1, <2>2 DEF SessionOK, Belongs
<1>9. ASSUME NEW x \in held' \ held PROVE Shown(x[1], x[2])'
    <2>1. PICK f \in known : x = <<l, f[2]>>
        BY <1>4
    <2> QED BY <1>2, <1>6, <1>7, <2>1 DEF Shown
<1>10. ToLink(t) = {}
    BY <1>1 DEF ToLink
<1> QED BY <1>1, <1>2, <1>5, <1>8, <1>9, <1>10 DEF SessionOwes

\* A path is linked: the folder was told of it by the probe.
LEMMA LinkOwes ==
    ASSUME FiledOnce, TypeInv, Settled, NEW t \in Tabs, LinkAdd(t)
    PROVE  Grow /\ SessionOwes(t) /\ \A u \in Tabs \ {t} : Other(u)
<1>1. /\ phase[t] = "linking" /\ phase' = [phase EXCEPT ![t] = "link"]
      /\ UNCHANGED <<uploads, photos, held, filed, session, link, send, file, found>>
      /\ MayAdd(found[t], session[t], file[t][1])
      /\ sources' = AddSource(found[t], session[t], file[t][1])
    BY DEF LinkAdd, Enter
<1>2. /\ session[t] \in DOMAIN uploads /\ Belongs(file[t][1], uploads[session[t]])
      /\ photos[found[t]] = file[t][2] /\ <<uploads[session[t]], file[t][2]>> \in held
      /\ SessionOK(t)
    BY <1>1 DEF Settled, SessionOK, ToLink
<1>3. /\ \A s \in sources' \ sources :
           s.photo = found[t] /\ s.upload = session[t] /\ s.path = file[t][1]
      /\ \E s \in sources' : s.photo = found[t] /\ uploads[s.upload] = uploads[session[t]]
    BY <1>1, <1>2, Recording DEF Settled
<1>4. TabTypes
    BY TabTyped
<1>5. Grow /\ \A u \in Tabs \ {t} : Other(u)
    BY <1>1, <1>4 DEF Grow, Other, AddSource, TabTypes
<1>6. phase'[t] = "link"
    BY <1>1, <1>4 DEF TabTypes
<1>7. SessionOK(t)'
    BY <1>1, <1>2, <1>6 DEF SessionOK, ToLink, RowsOf, Belongs
<1>8. \A f \in ToLink(t) :
         \/ f \in ToLink(t)' /\ session'[t] = session[t]
         \/ \E s \in sources' : uploads'[s.upload] = uploads[session[t]] /\ photos'[s.photo] = f[2]
    BY <1>1, <1>2, <1>3 DEF ToLink
<1> QED BY <1>1, <1>2, <1>3, <1>5, <1>7, <1>8 DEF SessionOwes, Belongs

\* A row for the stored content, or none because another tab was first.
LEMMA InsertOwes ==
    ASSUME TypeInv, Settled, NEW t \in Tabs, InsertPhoto(t)
    PROVE  Grow /\ SessionOwes(t) /\ \A u \in Tabs \ {t} : Other(u)
<1>1. /\ phase[t] = "insert" /\ SessionOK(t) /\ link[t] = {} /\ TabTypes
      /\ UNCHANGED <<uploads, sources, held, filed, session, link, send, file>>
    BY TabTyped DEF InsertPhoto, Settled, SessionOK
<1>2. CASE UNCHANGED <<photos, found>> /\ phase' = [phase EXCEPT ![t] = "send"]
    <2>1. Grow /\ (\A u \in Tabs \ {t} : Other(u)) /\ phase'[t] = "send"
        BY <1>1, <1>2 DEF Grow, Other, TabTypes
    <2>2. SessionOK(t)'
        BY <1>1, <1>2, <2>1 DEF SessionOK, ToLink, Belongs
    <2> QED BY <1>1, <1>2, <2>1, <2>2 DEF SessionOwes, ToLink
<1>3. CASE /\ photos' = WithRow(photos, file[t][2])
           /\ found' = [found EXCEPT ![t] = NewId(photos)]
           /\ phase' = [phase EXCEPT ![t] = "adding"]
    <2>1. PICK id : id = NewId(photos) /\ id \notin DOMAIN photos
        BY NewIdIsNew DEF TypeInv, Tables
    <2>2. /\ DOMAIN photos' = DOMAIN photos \union {id} /\ photos'[id] = file[t][2]
          /\ \A p \in DOMAIN photos : photos'[p] = photos[p]
        BY <1>3, <2>1 DEF WithRow
    <2>3. phase'[t] = "adding" /\ found'[t] = id
        BY <1>1, <1>3, <2>1 DEF TabTypes
    <2>4. Grow /\ \A u \in Tabs \ {t} : Other(u)
        BY <1>1, <1>3, <2>2 DEF Grow, Other, TabTypes
    <2>5. SessionOK(t)'
        BY <1>1, <2>2, <2>3 DEF SessionOK, ToLink, Belongs
    <2>6. \A p \in DOMAIN photos' \ DOMAIN photos : phase'[t] = "adding" /\ found'[t] = p
        BY <2>2, <2>3
    <2> QED BY <1>1, <2>4, <2>5, <2>6 DEF SessionOwes, ToLink
<1> QED BY <1>2, <1>3 DEF InsertPhoto, WithRow, Enter

\* The path of a file that was sent: told and shown at once.
LEMMA SendOwes ==
    ASSUME FiledOnce, TypeInv, Settled, NEW t \in Tabs, SendAdd(t)
    PROVE  Grow /\ SessionOwes(t) /\ \A u \in Tabs \ {t} : Other(u)
<1>1. /\ phase[t] = "adding" /\ phase' = [phase EXCEPT ![t] = "send"]
      /\ UNCHANGED <<uploads, photos, filed, session, link, send, file, found>>
    BY DEF SendAdd, Enter
<1>2. /\ session[t] \in DOMAIN uploads /\ Belongs(file[t][1], uploads[session[t]])
      /\ found[t] \in DOMAIN photos /\ photos[found[t]] = file[t][2]
      /\ SessionOK(t) /\ link[t] = {} /\ TabTypes
    BY <1>1, TabTyped DEF Settled, SessionOK
<1>3. /\ MayAdd(found[t], session[t], file[t][1])
      /\ sources' = AddSource(found[t], session[t], file[t][1])
      /\ held' = held \union {<<uploads[session[t]], file[t][2]>>}
    <2>1. MayAdd(found[t], session[t], file[t][1])
        BY <1>2 DEF MayAdd
    <2> QED BY <1>2, <2>1 DEF SendAdd, Told
<1>4. /\ \A s \in sources' \ sources :
           s.photo = found[t] /\ s.upload = session[t] /\ s.path = file[t][1]
      /\ \E s \in sources' : s.photo = found[t] /\ uploads[s.upload] = uploads[session[t]]
    BY <1>2, <1>3, Recording DEF Settled
<1>5. Grow /\ (\A u \in Tabs \ {t} : Other(u)) /\ phase'[t] = "send"
    BY <1>1, <1>2, <1>3 DEF Grow, Other, AddSource, TabTypes
<1>6. SessionOK(t)'
    BY <1>1, <1>2, <1>5 DEF SessionOK, ToLink, Belongs
<1>7. \A x \in held' \ held : Shown(x[1], x[2])'
    BY <1>1, <1>2, <1>3, <1>4 DEF Shown, Holds
<1> QED BY <1>1, <1>2, <1>3, <1>4, <1>5, <1>6, <1>7 DEF SessionOwes, ToLink, Belongs

\* Any step of a session, while no deletion is under way.
LEMMA SessionHeld ==
    ASSUME FiledOnce, TypeInv, Settled, ~Deleting, NEW t \in Tabs, Start(t) \/ SessionStep(t)
    PROVE  Settled'
<1>1. worker' = worker
    BY DEF Start, SessionStep, Probe, LinkRead, LinkAdd, Probed, SendFile, SendRefused,
           StoreFile, InsertPhoto, SendAdd, Finish
<1>2. Grow /\ SessionOwes(t) /\ \A u \in Tabs \ {t} : Other(u)
    <2>1. CASE Start(t)
        BY <2>1, StartOwes
    <2>2. CASE Probe(t)
        BY <2>2, ProbeOwes, TabTyped
    <2>3. CASE LinkAdd(t)
        BY <2>3, LinkOwes
    <2>4. CASE InsertPhoto(t)
        BY <2>4, InsertOwes
    <2>5. CASE SendAdd(t)
        BY <2>5, SendOwes
    <2>6. CASE LinkRead(t) \/ Probed(t) \/ SendFile(t) \/ SendRefused(t) \/ StoreFile(t) \/ Finish(t)
        <3>1. Same
            BY <2>6 DEF LinkRead, Probed, SendFile, SendRefused, StoreFile, Finish, Same, database
        <3> QED BY <2>6, <3>1, QuietSteps, SameGrows, TabTyped
    <2> QED BY <2>1, <2>2, <2>3, <2>4, <2>5, <2>6 DEF SessionStep
<1> QED BY <1>1, <1>2, SessionSettles

-----------------------------------------------------------------------------
(* Deletions: no session is under way.                                     *)

\* While the tabs are idle, what is shown is held by a source.
LEMMA IdleShows ==
    ASSUME Settled, ~Uploading
    PROVE  /\ \A t \in Tabs : link[t] = {} /\ ToLink(t) = {}
           /\ \A l, h : Shown(l, h) => Holds(l, h)
           /\ \A p \in DOMAIN photos : \/ \E s \in sources : s.photo = p
                                       \/ p \in affected
                                       \/ at \in {"erase", "row"} /\ victim.id = p
BY DEF Settled, SessionOK, Uploading, ToLink, Shown, Kept

\* Idle tabs stay in order, whatever the worker does to the tables.
LEMMA IdleTabs ==
    ASSUME Settled, ~Uploading, UNCHANGED <<tab, filed>>
    PROVE  \A t \in Tabs : SessionOK(t)'
BY DEF Settled, SessionOK, Uploading, ToLink, tab

LEMMA WorkerHeld ==
    ASSUME TypeInv, Settled, ~Uploading, WorkerStep
    PROVE  Settled'
<1>0. UNCHANGED <<tab, filed>>
    BY DEF WorkerStep, DrainBegin, ReadUploads, ReadAffected, DropUploads, CheckPhoto,
           EraseFiles, DeleteRow, ClearRequest
<1>1. \A t \in Tabs : SessionOK(t)'
    BY <1>0, IdleTabs
<1>2. sources \subseteq [photo : DOMAIN photos, upload : DOMAIN uploads, path : Paths] /\ at \in Places
    BY DEF TypeInv, TypeOK
<1>3. OwnPaths /\ Agreed /\ Kept /\ Drained
    BY DEF Settled
\* A step that keeps the tables: what the drain has read and where it is decide.
<1>4. ASSUME UNCHANGED <<uploads, photos, sources, held>>, Drained',
             \A x \in held : Holds(x[1], x[2]) \/ (Dropping' /\ x[1] = label'),
             \A p \in DOMAIN photos : \/ \E s \in sources : s.photo = p
                                      \/ p \in affected'
                                      \/ at' \in {"erase", "row"} /\ victim'.id = p
      PROVE  Settled'
    <2>1. OwnPaths'
        BY <1>0, <1>3, <1>4 DEF OwnPaths, Belongs
    <2>2. Agreed'
        BY <1>3, <1>4 DEF Agreed, Shown, Holds
    <2>3. Kept'
        BY <1>4 DEF Kept
    <2> QED BY <1>1, <1>4, <2>1, <2>2, <2>3 DEF Settled
<1>5. /\ \A x \in held : Holds(x[1], x[2]) \/ (Dropping /\ x[1] = label)
      /\ \A p \in DOMAIN photos : \/ \E s \in sources : s.photo = p
                                  \/ p \in affected
                                  \/ at \in {"erase", "row"} /\ victim.id = p
    BY <1>3, IdleShows DEF Agreed
<1>6. CASE DrainBegin
    BY <1>3, <1>4, <1>5, <1>6 DEF DrainBegin, Drained, Dropping, Go, database
<1>7. CASE ReadUploads
    BY <1>3, <1>4, <1>5, <1>7 DEF ReadUploads, Drained, Dropping, Go, database
<1>8. CASE ReadAffected
    BY <1>3, <1>4, <1>5, <1>8 DEF ReadAffected, Drained, Dropping, Go, database
<1>9. CASE DropUploads
    <2>1. /\ at = "drop" /\ at' = "photos" /\ uploads' = Without(uploads, ids)
          /\ sources' = {s \in sources : s.upload \notin ids}
          /\ UNCHANGED <<photos, label, ids, affected, held>>
        BY <1>9 DEF DropUploads, SourcesLeft, Go
    <2>2. /\ ids = {u \in DOMAIN uploads : uploads[u] = label}
          /\ \A s \in sources : s.upload \in ids => s.photo \in affected
        BY <1>3, <2>1 DEF Drained
    <2>3. /\ DOMAIN uploads' = DOMAIN uploads \ ids
          /\ \A u \in DOMAIN uploads' : uploads'[u] = uploads[u]
        BY <2>1 DEF Without, Restrict
    <2>4. OwnPaths'
        BY <1>0, <1>2, <1>3, <2>1, <2>3 DEF OwnPaths, Belongs
    <2>5. Agreed'
        <3>1. ASSUME NEW s \in sources' PROVE <<uploads'[s.upload], photos'[s.photo]>> \in held'
            BY <1>2, <1>3, <2>1, <2>3 DEF Agreed
        <3>2. ASSUME NEW x \in held', x[1] # label PROVE Shown(x[1], x[2])'
            <4>1. PICK s \in sources : uploads[s.upload] = x[1] /\ photos[s.photo] = x[2]
                BY <1>5, <2>1, <3>2 DEF Holds
            <4>2. s \in sources' /\ s.upload \in DOMAIN uploads'
                BY <1>2, <2>1, <2>2, <2>3, <3>2, <4>1
            <4>3. uploads'[s.upload] = x[1] /\ photos'[s.photo] = x[2]
                BY <2>1, <2>3, <4>1, <4>2
            <4> QED BY <4>2, <4>3 DEF Shown, Holds
        <3> QED BY <2>1, <3>1, <3>2 DEF Agreed, Dropping
    <2>6. Kept'
        BY <1>5, <2>1, <2>2 DEF Kept
    <2>7. Drained'
        BY <2>1, <2>2, <2>3 DEF Drained, Dropping
    <2> QED BY <1>1, <2>4, <2>5, <2>6, <2>7 DEF Settled
<1>10. CASE CheckPhoto
    <2>1. /\ at = "photos" /\ UNCHANGED <<uploads, photos, sources, held, label, ids>>
          /\ \E p \in affected :
               /\ affected' = affected \ {p}
               /\ \/ Forsaken(p) /\ victim'.id = p /\ at' = "erase"
                  \/ ~(Forsaken(p) /\ p \in DOMAIN photos) /\ at' = at
        BY <1>10 DEF CheckPhoto, Go, database
    <2>2. Drained' /\ Dropping' /\ Dropping
        BY <1>3, <2>1 DEF Drained, Dropping, Forsaken
    <2>3. \A p \in DOMAIN photos : \/ \E s \in sources : s.photo = p
                                   \/ p \in affected'
                                   \/ at' \in {"erase", "row"} /\ victim'.id = p
        BY <1>5, <2>1 DEF Forsaken
    <2> QED BY <1>4, <1>5, <2>1, <2>2, <2>3
<1>11. CASE EraseFiles
    BY <1>3, <1>4, <1>5, <1>11 DEF EraseFiles, Drained, Dropping, Forsaken, Go, database
<1>12. CASE DeleteRow
    <2>1. /\ at = "row" /\ at' = "photos" /\ photos' = Without(photos, {victim.id})
          /\ UNCHANGED <<uploads, label, ids, affected, held>>
          /\ \A s \in sources : s.photo # victim.id
        BY <1>3, <1>12 DEF DeleteRow, RowGone, Go, Drained, Forsaken
    <2>2. sources' = sources
        BY <1>12, <2>1 DEF DeleteRow, RowGone
    <2>3. /\ DOMAIN photos' = DOMAIN photos \ {victim.id}
          /\ \A p \in DOMAIN photos' : photos'[p] = photos[p]
        BY <2>1 DEF Without, Restrict
    <2>4. OwnPaths'
        BY <1>0, <1>3, <2>1, <2>2 DEF OwnPaths, Belongs
    <2>5. \A s \in sources : photos'[s.photo] = photos[s.photo]
        BY <1>2, <2>1, <2>3
    <2>6. Agreed'
        <3>1. ASSUME NEW s \in sources' PROVE <<uploads'[s.upload], photos'[s.photo]>> \in held'
            BY <1>3, <2>1, <2>2, <2>5 DEF Agreed
        <3>2. ASSUME NEW x \in held' PROVE Shown(x[1], x[2])' \/ x[1] = label
            BY <1>5, <2>1, <2>2, <2>5, ZenonT(40) DEF Shown, Holds
        <3> QED BY <2>1, <3>1, <3>2 DEF Agreed, Dropping
    <2>7. Kept'
        BY <1>5, <2>1, <2>2, <2>3 DEF Kept
    <2>8. Drained'
        BY <1>3, <2>1 DEF Drained, Dropping
    <2> QED BY <1>1, <2>4, <2>6, <2>7, <2>8 DEF Settled
<1>13. CASE ClearRequest
    <2>1. /\ UNCHANGED <<uploads, photos, sources, affected>> /\ affected = {}
          /\ held' = {x \in held : x[1] # label} /\ at' \in {"idle", "uploads"}
          /\ at \notin {"erase", "row"} /\ Dropping
        BY <1>3, <1>13 DEF ClearRequest, Go, Drained, Dropping
    <2>2. OwnPaths'
        BY <1>0, <1>3, <2>1 DEF OwnPaths, Belongs
    <2>3. Agreed'
        <3>1. ASSUME NEW s \in sources' PROVE <<uploads'[s.upload], photos'[s.photo]>> \in held'
            <4>1. uploads[s.upload] # label
                BY <1>2, <1>3, <2>1 DEF Drained
            <4>2. <<uploads[s.upload], photos[s.photo]>> \in held
                BY <1>3, <2>1 DEF Agreed
            <4> QED BY <2>1, <4>1, <4>2
        <3>2. ASSUME NEW x \in held' PROVE Shown(x[1], x[2])'
            BY <1>5, <2>1 DEF Shown, Holds
        <3> QED BY <3>1, <3>2 DEF Agreed
    <2>4. Kept'
        BY <1>5, <2>1 DEF Kept
    <2>5. Drained'
        BY <2>1 DEF Drained, Dropping
    <2> QED BY <1>1, <2>2, <2>3, <2>4, <2>5 DEF Settled
<1> QED BY <1>6, <1>7, <1>8, <1>9, <1>10, <1>11, <1>12, <1>13 DEF WorkerStep

-----------------------------------------------------------------------------
(* Together.                                                               *)

\* What was spent is spent, and an overlap is remembered: a history in which
\* sessions and deletions take turns has done so at every step.
LEMMA TurnsBefore ==
    ASSUME Counted, [Next]_vars
    PROVE  Counted' /\ (Turns' => Turns)
<1>1. CASE UNCHANGED vars
    BY <1>1 DEF vars, Counted, Turns, FiledOnce
<1>2. CASE Next
    <2>1. \/ budget' = budget
          \/ \E what \in {"uploads", "requests", "worker", "app"} : Spend(what)
        BY <1>2 DEF Next, Start, SessionStep, Probe, LinkRead, LinkAdd, Probed, SendFile,
                    SendRefused, StoreFile, InsertPhoto, SendAdd, Finish, RequestDeletion,
                    WorkerStep, DrainBegin, ReadUploads, ReadAffected, DropUploads, CheckPhoto,
                    EraseFiles, DeleteRow, ClearRequest, WorkerCrash, WorkerStart, AppCrash
    <2>2. Counted' /\ budget'.worker >= budget.worker /\ budget'.app >= budget.app
        <3>1. CASE budget' = budget
            BY <3>1 DEF Counted
        <3>2. ASSUME NEW what \in {"uploads", "requests", "worker", "app"}, Spend(what)
              PROVE  Counted' /\ budget'.worker >= budget.worker /\ budget'.app >= budget.app
            BY <3>2 DEF Counted, Spend
        <3> QED BY <2>1, <3>1, <3>2
    <2>3. ~overlapped' => ~overlapped
        BY <1>2, Zenon DEF Next
    <2>4. Turns' => budget.worker = 0 /\ budget.app = 0
        BY <2>2 DEF Turns, Counted
    <2>5. filed \subseteq filed'
        BY <1>2 DEF Next, Start, SessionStep, Probe, LinkRead, LinkAdd, Probed, SendFile,
                    SendRefused, StoreFile, InsertPhoto, SendAdd, Finish, RequestDeletion,
                    WorkerStep, DrainBegin, ReadUploads, ReadAffected, DropUploads, CheckPhoto,
                    EraseFiles, DeleteRow, ClearRequest, WorkerCrash, WorkerStart, AppCrash
    <2>6. FiledOnce' => FiledOnce
        BY <2>5 DEF FiledOnce
    <2> QED BY <2>2, <2>3, <2>4, <2>6 DEF Turns
<1> QED BY <1>1, <1>2

LEMMA HeldStep == HeldInv /\ [Next]_vars => HeldInv'
<1> SUFFICES ASSUME HeldInv, [Next]_vars PROVE HeldInv'
    OBVIOUS
<1>1. TypeInv /\ TypeInv' /\ Counted' /\ (Turns' => Turns)
    BY TypeStep, TurnsBefore DEF HeldInv
<1> SUFFICES ASSUME Turns' PROVE Apart' /\ Settled'
    BY <1>1 DEF HeldInv
<1>2. Turns /\ Apart /\ Settled
    BY <1>1 DEF HeldInv
<1>3. Apart'
    BY <1>2 DEF Next, Turns, Apart, vars, database, tab, worker, Uploading, Deleting
<1>4. ASSUME NEW t \in Tabs, Start(t) \/ SessionStep(t) PROVE Settled'
    <2>1. UNCHANGED <<outbox, at>>
        BY <1>4 DEF Start, SessionStep, Probe, LinkRead, LinkAdd, Probed, SendFile, SendRefused,
                    StoreFile, InsertPhoto, SendAdd, Finish, database, worker
    <2>2. Uploading \/ Uploading'
        <3>1. CASE Start(t)
            BY <1>1, <3>1, TabTyped DEF Start, Enter, TabTypes, Uploading
        <3>2. CASE SessionStep(t)
            BY <3>2 DEF SessionStep, Probe, LinkRead, LinkAdd, Probed, SendFile, SendRefused,
                        StoreFile, InsertPhoto, SendAdd, Finish, Uploading
        <3> QED BY <1>4, <3>1, <3>2
    <2>3. ~Deleting
        BY <1>2, <1>3, <2>1, <2>2 DEF Apart, Deleting
    <2> QED BY <1>1, <1>2, <1>4, <2>3, SessionHeld DEF Turns
<1>5. ASSUME WorkerStep PROVE Settled'
    <2>1. Deleting
        BY <1>5 DEF WorkerStep, DrainBegin, ReadUploads, ReadAffected, DropUploads, CheckPhoto,
                    EraseFiles, DeleteRow, ClearRequest, Deleting
    <2> QED BY <1>1, <1>2, <1>5, <2>1, WorkerHeld DEF Apart
<1>6. ASSUME UNCHANGED <<uploads, photos, sources, tab, worker, held, filed>> PROVE Settled'
    BY <1>2, <1>6 DEF Settled, OwnPaths, Belongs, SessionOK, ToLink, RowsOf, Agreed, Shown, Holds,
                      Dropping, Kept, Drained, Forsaken, tab, worker
<1>7. ASSUME RequestDeletion PROVE Settled'
    BY <1>6, <1>7 DEF RequestDeletion
<1>8. ASSUME WorkerCrash PROVE Settled'
    BY <1>1, <1>2, <1>8 DEF WorkerCrash, Spend, Turns, HeldInv, Counted
<1>9. ASSUME AppCrash PROVE Settled'
    BY <1>1, <1>2, <1>9 DEF AppCrash, Spend, Turns, HeldInv, Counted
<1>10. ASSUME UNCHANGED vars PROVE Settled'
    BY <1>6, <1>10 DEF vars, database
<1>11. ASSUME WorkerStart PROVE Settled'
    BY <1>2, <1>11 DEF WorkerStart, Go, Settled, OwnPaths, Belongs, SessionOK, ToLink, RowsOf, Agreed,
                       Shown, Holds, Dropping, Kept, Drained, Forsaken, tab, database
<1> QED BY <1>3, <1>4, <1>5, <1>7, <1>8, <1>9, <1>10, <1>11 DEF Next

\* The photos are at every quiet moment exactly the contents that some folder was told
\* it has and that was not deleted since: for any number of tabs side by side, any
\* picks of one folder or several, copies, repeats and row ids given again, as long as
\* no path has come under two labels, sessions and deletions take turns and nothing is
\* killed.
THEOREM HeldThroughTurns == Spec => []HeldExactly
<1>1. HeldInv => HeldExactly
    <2> SUFFICES ASSUME HeldInv, Quiet, Turns PROVE AsHeld
        BY DEF HeldExactly, Turns
    <2>1. Settled /\ ~Uploading /\ at \in {"down", "idle"}
        BY DEF HeldInv, Quiet, Deleting
    <2>2. affected = {} /\ ~Dropping
        BY <2>1 DEF Settled, Drained, Dropping
    <2>3. sources \subseteq [photo : DOMAIN photos, upload : DOMAIN uploads, path : Paths]
        BY DEF HeldInv, TypeInv, TypeOK
    <2>4. ASSUME NEW p \in DOMAIN photos PROVE \E x \in held : x[2] = photos[p]
        <3>1. PICK s \in sources : s.photo = p
            BY <2>1, <2>2, IdleShows
        <3>2. <<uploads[s.upload], photos[p]>> \in held
            BY <2>1, <3>1 DEF Settled, Agreed
        <3> QED BY <3>2
    <2>5. ASSUME NEW x \in held PROVE \E p \in DOMAIN photos : photos[p] = x[2]
        <3>1. Holds(x[1], x[2])
            BY <2>1, <2>2, IdleShows DEF Settled, Agreed
        <3> QED BY <2>3, <3>1 DEF Holds
    <2> QED BY <2>4, <2>5 DEF AsHeld, Range
<1>2. Init => HeldInv
    BY HeldInit
<1>3. HeldInv /\ [Next]_vars => HeldInv'
    BY HeldStep
<1> QED BY <1>1, <1>2, <1>3, PTL DEF Spec
=============================================================================
