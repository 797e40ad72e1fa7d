--------------------------- MODULE MemoriesProofs ---------------------------
(***************************************************************************)
(* What holds of the stored memories for any number of photos, rebuilds,   *)
(* folders, captions and crashes: whatever candidates a build starts from, *)
(* the swap and the deletions leave memories that were told of the photos  *)
(* they show.  And where seed_candidates cuts the library: at the gaps,    *)
(* the moves and the nights at home, and nowhere else.                     *)
(***************************************************************************)
EXTENDS Memories, TLAPS, FiniteSetTheorems, SequenceTheorems

-----------------------------------------------------------------------------
(* Row ids.                                                                *)

LessThan == OpToRel(<, Nat)

LEMMA IdsAreNumbers == IsFiniteSet(Ids) /\ Cardinality(Ids) \in Nat /\ Ids = 1..Cardinality(Ids)
BY FS_CardinalityType, MemoriesAssumption

\* A nonempty set of ids has a greatest one: the least of its upper bounds.
LEMMA GreatestRow ==
    ASSUME NEW S \in SUBSET Ids, S # {}
    PROVE  \E j \in S : \A k \in S : k <= j
<1> DEFINE U == {n \in Nat : \A k \in S : k <= n}
<1>1. S \subseteq Nat /\ Cardinality(Ids) \in U
    BY IdsAreNumbers
<1>2. IsWellFoundedOn(LessThan, Nat)
    BY NatLessThanWellFounded, Zenon DEF LessThan
<1>3. PICK m \in U : \A n \in U : ~(<<n, m>> \in LessThan)
    <2>1. U \in SUBSET Nat /\ U # {}
        BY <1>1
    <2> HIDE DEF U
    <2> QED BY <1>2, <2>1, WFMin
<1>4. \A n \in U : ~(n < m)
    BY <1>3 DEF LessThan, OpToRel
<1>5. m \in S
    <2>1. SUFFICES ASSUME m \notin S PROVE FALSE
        OBVIOUS
    <2>2. \A k \in S : k \in Nat /\ k < m
        BY <1>1, <1>3, <2>1
    <2>3. PICK k \in S : k \in Nat /\ k < m
        BY <2>2
    <2>4. m - 1 \in Nat /\ \A j \in S : j <= m - 1
        BY <1>3, <2>2, <2>3
    <2>5. m - 1 \in U
        BY <2>4
    <2> QED BY <1>3, <1>4, <2>5
<1> QED BY <1>3, <1>5

NewRow == 1 + (IF Rows = {} THEN 0 ELSE CHOOSE j \in Rows : \A k \in Rows : k <= j)

LEMMA NewRowIsNew == NewRow \notin Rows
<1>1. CASE Rows = {}
    BY <1>1
<1>2. CASE Rows # {}
    <2>1. \E j \in Rows : \A k \in Rows : k <= j
        BY <1>2, GreatestRow DEF Rows
    <2>2. PICK j \in Rows : NewRow = 1 + j /\ \A k \in Rows : k <= j
        BY <1>2, <2>1 DEF NewRow
    <2>3. j \in Nat
        BY IdsAreNumbers DEF Rows
    <2> QED BY <2>2, <2>3
<1> QED BY <1>1, <1>2

-----------------------------------------------------------------------------
(* Types.                                                                  *)

Group == [photos : SUBSET Ids, story : SUBSET (1..clock)]

\* A row's stamp is a time that has passed.
LibraryTyped ==
    /\ shot \in [Ids -> Shots \union {NoShot}] /\ captioned \subseteq Rows
    /\ clock \in Nat /\ born \in [Ids -> Nat] /\ \A i \in Rows : born[i] \in 1..clock
    /\ doomed \subseteq Ids /\ deleting \in {"no", "photos", "groups", "down"}
    /\ orphaned \in BOOLEAN

GroupsTyped ==
    /\ groups \in [Gids -> Group \union {NoGroup}]
    /\ index \in [Gids -> (SUBSET (1..clock)) \union {NoGroup}]

\* A build keeps no empty memory.
KeptFull == \A b \in Builders : \A n \in DOMAIN kept[b] : kept[b][n].photos # {}

BuildTyped ==
    /\ building \in BOOLEAN
    /\ at \in [Builders -> {"idle", "asked", "seed", "compose"}]
    /\ todo \in [Builders -> Seq(SUBSET Ids)] /\ told \in [Builders -> SUBSET (1..clock)]
    /\ kept \in [Builders -> Seq(Group)]
    /\ rounds \in [Builders -> 0..MaxRounds]

TypeInv == LibraryTyped /\ GroupsTyped /\ BuildTyped

LEMMA AGroupIsNotNone == clock \in Nat => NoGroup \notin Group
BY MemoriesAssumption DEF Group

LEMMA MemoryIsGroup ==
    ASSUME TypeInv, NEW g \in Memories
    PROVE  g \in Gids /\ groups[g] \in Group
BY DEF Memories, TypeInv, GroupsTyped

LEMMA TypeInit == Init => TypeInv
<1> SUFFICES ASSUME Init PROVE TypeInv
    OBVIOUS
<1>1. shot \in [Ids -> Shots \union {NoShot}]
    BY MemoriesAssumption DEF Init
<1>2. LibraryTyped
    <2>1. captioned \subseteq Rows /\ clock \in Nat
        BY IdsAreNumbers DEF Init, Rows
    <2>2. born \in [Ids -> Nat] /\ \A i \in Rows : born[i] \in 1..clock
        BY IdsAreNumbers DEF Init, Rows
    <2>3. doomed = {} /\ deleting = "no" /\ orphaned = FALSE
        BY DEF Init
    <2> QED BY <1>1, <2>1, <2>2, <2>3 DEF LibraryTyped
<1>3. GroupsTyped
    <2>1. groups = [g \in Gids |-> NoGroup] /\ index = [g \in Gids |-> NoGroup]
        BY DEF Init
    <2> QED BY <2>1 DEF GroupsTyped
<1>4. BuildTyped
    <2>1. /\ building = FALSE /\ at = [b \in Builders |-> "idle"]
          /\ todo = [b \in Builders |-> <<>>] /\ told = [b \in Builders |-> {}]
          /\ kept = [b \in Builders |-> <<>>] /\ rounds = [b \in Builders |-> 0]
        BY DEF Init, Idle, NoWork
    <2>2. 0 \in 0..MaxRounds
        BY MemoriesAssumption
    <2>3. <<>> \in Seq(SUBSET Ids) /\ <<>> \in Seq(Group)
        BY EmptySeq
    <2> QED BY <2>1, <2>2, <2>3 DEF BuildTyped
<1> QED BY <1>2, <1>3, <1>4 DEF TypeInv

LEMMA StampsTyped ==
    ASSUME TypeInv, NEW ids \in SUBSET Ids
    PROVE  Stamps(ids) \subseteq 1..clock
BY DEF TypeInv, LibraryTyped, Stamps

\* The candidates are sequences: there are finitely many runs.
LEMMA SeedsTyped ==
    ASSUME TypeInv, NEW seeds \in SeedCandidates
    PROVE  seeds \in Seq(SUBSET Ids)
<1> DEFINE Long == {run \in Runs : Cardinality(run) >= MinSize}
<1>1. Long \subseteq SUBSET Ids
    BY DEF Runs, RunFrom, TypeInv, LibraryTyped, Rows
<1>2. IsFiniteSet(Long)
    BY <1>1, IdsAreNumbers, FS_SUBSET, FS_Subset
<1>3. Cardinality(Long) \in Nat
    BY <1>2, FS_CardinalityType
<1>4. seeds \in [1..Cardinality(Long) -> Long]
    BY DEF SeedCandidates
<1> QED
    <2> HIDE DEF Long
    <2> QED BY <1>1, <1>3, <1>4

\* Opening a candidate tells its story of stamps that have passed.
LEMMA OpenTyped ==
    ASSUME TypeInv, NEW b \in Builders, NEW candidates \in Seq(SUBSET Ids), Open(b, candidates)
    PROVE  todo' \in [Builders -> Seq(SUBSET Ids)] /\ told' \in [Builders -> SUBSET (1..clock)]
<1>1. candidates # <<>> => Stamps(candidates[1]) \subseteq 1..clock
    BY StampsTyped
<1> QED BY <1>1 DEF Open, TypeInv, BuildTyped

\* Only the row of the new photo changes.
LEMMA Uploaded ==
    ASSUME TypeInv, NEW s \in Arrivals, Upload(s)
    PROVE  /\ NewRow \in Ids \ Rows
           /\ clock' = clock + 1
           /\ shot' = [shot EXCEPT ![NewRow] = s] /\ born' = [born EXCEPT ![NewRow] = clock + 1]
           /\ reused' = IF \E b \in Builders : KnownTo(b, NewRow) THEN reused \union {NewRow}
                        ELSE reused
           /\ Rows \subseteq Rows' /\ Rows' \subseteq Rows \union {NewRow}
           /\ UNCHANGED <<captioned, groups, index, build, doomed, deleting, orphaned, strayed>>
<1>1. /\ NewRow \in Ids
      /\ clock' = clock + 1
      /\ shot' = [shot EXCEPT ![NewRow] = s] /\ born' = [born EXCEPT ![NewRow] = clock + 1]
      /\ reused' = IF \E b \in Builders : KnownTo(b, NewRow) THEN reused \union {NewRow}
                   ELSE reused
      /\ UNCHANGED <<captioned, groups, index, build, doomed, deleting, orphaned, strayed>>
    BY DEF Upload, NewRow, memories, deleter
<1>2. NewRow \notin Rows
    BY NewRowIsNew
<1>3. Rows \subseteq Rows' /\ Rows' \subseteq Rows \union {NewRow}
    BY <1>1, <1>2 DEF Rows, TypeInv, LibraryTyped
<1> QED BY <1>1, <1>2, <1>3

LEMMA UploadTyped ==
    ASSUME TypeInv, NEW s \in Arrivals, Upload(s)
    PROVE  TypeInv'
<1>1. /\ NewRow \in Ids \ Rows
      /\ clock' = clock + 1
      /\ shot' = [shot EXCEPT ![NewRow] = s] /\ born' = [born EXCEPT ![NewRow] = clock + 1]
      /\ Rows \subseteq Rows' /\ Rows' \subseteq Rows \union {NewRow}
      /\ UNCHANGED <<captioned, groups, index, build, doomed, deleting, orphaned, strayed>>
    BY Uploaded
<1>2. clock \in Nat /\ 1..clock \subseteq 1..(clock + 1)
    BY DEF TypeInv, LibraryTyped
<1>3. LibraryTyped'
    <2>1. s \in Shots
        BY MemoriesAssumption
    <2>2. born' \in [Ids -> Nat] /\ \A k \in Rows' : born'[k] \in 1..clock'
        BY <1>1, <1>2 DEF TypeInv, LibraryTyped
    <2>3. shot' \in [Ids -> Shots \union {NoShot}] /\ captioned' \subseteq Rows'
        BY <1>1, <2>1 DEF TypeInv, LibraryTyped
    <2> QED BY <1>1, <1>2, <2>2, <2>3 DEF TypeInv, LibraryTyped
<1>4. Group \subseteq Group'
    BY <1>1, <1>2 DEF Group
<1>5. GroupsTyped'
    <2>1. groups' \in [Gids -> Group' \union {NoGroup}]
        BY <1>1, <1>4 DEF TypeInv, GroupsTyped
    <2>2. index' \in [Gids -> (SUBSET (1..clock')) \union {NoGroup}]
        BY <1>1, <1>2 DEF TypeInv, GroupsTyped
    <2> QED BY <2>1, <2>2 DEF GroupsTyped
<1>6. BuildTyped'
    <2>1. told' \in [Builders -> SUBSET (1..clock')]
        BY <1>1, <1>2 DEF TypeInv, BuildTyped, build
    <2>2. kept' \in [Builders -> Seq(Group')]
        <3>1. \A b \in Builders : kept[b] \in Seq(Group')
            BY <1>4, SeqMonotonic DEF TypeInv, BuildTyped
        <3> QED BY <1>1, <3>1 DEF TypeInv, BuildTyped, build
    <2> QED BY <1>1, <2>1, <2>2 DEF TypeInv, BuildTyped, build
<1> QED BY <1>3, <1>5, <1>6 DEF TypeInv

\* Whatever leaves the clock leaves a typed build typed.
LEMMA SameClock ==
    ASSUME UNCHANGED clock
    PROVE  /\ Group' = Group
           /\ TypeInv /\ UNCHANGED <<shot, born, captioned, doomed, deleting, orphaned>> => LibraryTyped'
           /\ TypeInv /\ UNCHANGED <<groups, index>> => GroupsTyped'
           /\ TypeInv /\ UNCHANGED build => BuildTyped'
BY DEF Group, TypeInv, LibraryTyped, GroupsTyped, BuildTyped, build, Rows

LEMMA RequestStart ==
    ASSUME TypeInv, NEW b \in Builders, Request(b) \/ Start(b)
    PROVE  TypeInv'
<1>1. LibraryTyped' /\ GroupsTyped'
    BY SameClock DEF Request, Start, library, memories, deleter, history
<1>2. BuildTyped'
    BY DEF Request, Start, library, TypeInv, BuildTyped, Group
<1> QED BY <1>1, <1>2 DEF TypeInv

LEMMA SeedTyped ==
    ASSUME TypeInv, NEW b \in Builders, Seed(b)
    PROVE  TypeInv'
<1>1. LibraryTyped' /\ GroupsTyped'
    BY SameClock DEF Seed, library, memories, deleter, history
<1>2. BuildTyped'
    <2>1. todo' \in [Builders -> Seq(SUBSET Ids)] /\ told' \in [Builders -> SUBSET (1..clock)]
        <3>1. PICK seeds \in SeedCandidates : Open(b, seeds)
            BY DEF Seed
        <3> QED BY <3>1, SeedsTyped, OpenTyped
    <2>2. at' \in [Builders -> {"idle", "asked", "seed", "compose"}]
        BY DEF Seed, TypeInv, BuildTyped
    <2> QED BY <2>1, <2>2 DEF Seed, library, TypeInv, BuildTyped, Group
<1> QED BY <1>1, <1>2 DEF TypeInv

\* A candidate that is done with leaves the ones after it.
LEMMA SettleTyped ==
    ASSUME TypeInv, NEW b \in Builders, Settle(b)
    PROVE  /\ todo[b][1] \in SUBSET Ids /\ Tail(todo[b]) \in Seq(SUBSET Ids)
           /\ todo' \in [Builders -> Seq(SUBSET Ids)] /\ told' \in [Builders -> SUBSET (1..clock)]
           /\ rounds' \in [Builders -> 0..MaxRounds]
<1>1. todo[b] \in Seq(SUBSET Ids) /\ todo[b] # <<>>
    BY DEF Settle, TypeInv, BuildTyped
<1>2. todo[b][1] \in SUBSET Ids /\ Tail(todo[b]) \in Seq(SUBSET Ids)
    BY <1>1, HeadTailProperties
<1>3. todo' \in [Builders -> Seq(SUBSET Ids)] /\ told' \in [Builders -> SUBSET (1..clock)]
    BY <1>2, OpenTyped DEF Settle
<1>4. rounds' \in [Builders -> 0..MaxRounds]
    BY MemoriesAssumption DEF Settle, TypeInv, BuildTyped
<1> QED BY <1>2, <1>3, <1>4

\* What a Keep appends: some photos of the candidate, with the story it was told.
KeptNow(b, dropped) == [photos |-> todo[b][1] \ dropped, story |-> told[b]]

LEMMA KeepAppends ==
    ASSUME TypeInv, NEW b \in Builders, NEW dropped \in SUBSET Ids, Keep(b, dropped)
    PROVE  /\ kept' = [kept EXCEPT ![b] = Append(@, KeptNow(b, dropped))]
           /\ KeptNow(b, dropped) \in Group /\ KeptNow(b, dropped).photos # {}
<1>1. /\ kept' = [kept EXCEPT ![b] = Append(@, KeptNow(b, dropped))]
      /\ Cardinality(todo[b][1] \ dropped) >= 2 /\ Settle(b)
    BY DEF Keep, KeptNow
<1>2. todo[b][1] \ dropped # {}
    <2>1. SUFFICES ASSUME todo[b][1] \ dropped = {} PROVE FALSE
        OBVIOUS
    <2>2. Cardinality(todo[b][1] \ dropped) = 0
        BY <2>1, FS_EmptySet, Zenon
    <2> QED BY <1>1, <2>2
<1>3. todo[b][1] \in SUBSET Ids
    BY <1>1, SettleTyped
<1> QED BY <1>1, <1>2, <1>3 DEF KeptNow, Group, TypeInv, BuildTyped

LEMMA TurnTyped ==
    ASSUME TypeInv, NEW b \in Builders, Turn(b)
    PROVE  TypeInv'
<1>1. LibraryTyped' /\ GroupsTyped'
    BY SameClock DEF Turn, ExpandTurn, Skip, Keep, Settle, library, memories, deleter, history
<1>2. CASE ExpandTurn(b)
    <2>1. rounds' \in [Builders -> 0..MaxRounds]
        BY <1>2, MemoriesAssumption DEF ExpandTurn, TypeInv, BuildTyped
    <2> QED BY <1>1, <1>2, <2>1 DEF ExpandTurn, library, TypeInv, BuildTyped, Group
<1>3. CASE Skip(b)
    BY <1>1, <1>3, SettleTyped DEF Skip, Settle, library, TypeInv, BuildTyped, Group
<1>4. ASSUME NEW dropped \in SUBSET Ids, Keep(b, dropped) PROVE BuildTyped'
    <2>1. kept[b] \in Seq(Group) /\ KeptNow(b, dropped) \in Group
        BY <1>4, KeepAppends DEF TypeInv, BuildTyped
    <2>2. kept' = [kept EXCEPT ![b] = Append(@, KeptNow(b, dropped))]
        BY <1>4, KeepAppends
    <2>3. Append(kept[b], KeptNow(b, dropped)) \in Seq(Group)
        BY <2>1
    <2>4. kept' \in [Builders -> Seq(Group)]
        BY <2>2, <2>3 DEF TypeInv, BuildTyped
    <2> QED BY <1>4, <2>4, SettleTyped DEF Keep, Settle, library, TypeInv, BuildTyped, Group
<1> QED BY <1>1, <1>2, <1>3, <1>4 DEF Turn, TypeInv

LEMMA OverTyped ==
    ASSUME TypeInv, NEW b \in Builders, BuildOver(b), UNCHANGED clock, building' = FALSE
    PROVE  BuildTyped'
<1>1. <<>> \in Seq(SUBSET Ids) /\ <<>> \in Seq(Group)
    BY EmptySeq
<1>2. todo' \in [Builders -> Seq(SUBSET Ids)] /\ told' \in [Builders -> SUBSET (1..clock)]
    BY <1>1, OpenTyped DEF BuildOver
<1>3. kept' \in [Builders -> Seq(Group)] /\ rounds' \in [Builders -> 0..MaxRounds]
    BY <1>1, MemoriesAssumption DEF BuildOver, TypeInv, BuildTyped
<1>4. at' \in [Builders -> {"idle", "asked", "seed", "compose"}]
    BY DEF BuildOver, TypeInv, BuildTyped
<1> QED BY <1>2, <1>3, <1>4 DEF BuildTyped, Group

LEMMA KeptIsGroup ==
    ASSUME TypeInv, NEW b \in Builders, NEW n \in 1..Len(kept[b])
    PROVE  kept[b][n] \in Group /\ n \in DOMAIN kept[b]
<1>1. kept[b] \in Seq(Group)
    BY DEF TypeInv, BuildTyped
<1> QED BY <1>1, ElementOfSeq, LenProperties

\* Which memories there are after the swap, and how the index names them.
LEMMA Swapped ==
    ASSUME TypeInv, NEW b \in Builders, Swap(b), NEW g \in Gids
    PROVE  IF g <= Len(kept[b])
           THEN /\ g \in Memories' /\ groups'[g] = kept[b][g] /\ g \in DOMAIN kept[b]
                /\ kept[b][g] \in Group /\ index'[g] = groups'[g].story
           ELSE /\ g \notin Memories' /\ groups'[g] = NoGroup
                /\ index'[g] = IF g \in Memories THEN NoGroup ELSE index[g]
<1>1. /\ groups' = [n \in Gids |-> IF n > Len(kept[b]) THEN NoGroup ELSE kept[b][n]]
      /\ index' = Reindexed(b)
    BY DEF Swap
<1>2. Len(kept[b]) \in Nat /\ g \in Nat /\ g >= 1
    BY IdsAreNumbers, LenProperties DEF Gids, TypeInv, BuildTyped
<1>3. CASE g <= Len(kept[b])
    <2>1. kept[b][g] \in Group /\ g \in DOMAIN kept[b]
        BY <1>2, <1>3, KeptIsGroup
    <2>2. kept[b][g] # NoGroup
        BY <2>1, AGroupIsNotNone DEF TypeInv, LibraryTyped
    <2>3. groups'[g] = kept[b][g] /\ index'[g] = kept[b][g].story
        BY <1>1, <1>2, <1>3 DEF Reindexed
    <2> QED BY <1>3, <2>1, <2>2, <2>3 DEF Memories
<1>4. CASE ~(g <= Len(kept[b]))
    <2>1. groups'[g] = NoGroup /\ index'[g] = IF g \in Memories THEN NoGroup ELSE index[g]
        BY <1>1, <1>2, <1>4 DEF Reindexed
    <2> QED BY <1>4, <2>1 DEF Memories
<1> QED BY <1>3, <1>4

LEMMA SwapTyped ==
    ASSUME TypeInv, NEW b \in Builders, Swap(b) \/ SwapRefused(b)
    PROVE  TypeInv'
<1>1. LibraryTyped' /\ BuildTyped'
    BY SameClock, OverTyped DEF Swap, SwapRefused, library, deleter, history
<1>2. CASE Swap(b)
    <2>1. Group' = Group /\ clock' = clock
        BY <1>2, SameClock DEF Swap, library
    <2>2. \A g \in Gids : groups'[g] \in Group \union {NoGroup}
        BY <1>2, Swapped
    <2>3. \A g \in Gids : index'[g] \in (SUBSET (1..clock)) \union {NoGroup}
        <3>1. ASSUME NEW g \in Gids PROVE index'[g] \in (SUBSET (1..clock)) \union {NoGroup}
            BY <1>2, Swapped DEF TypeInv, GroupsTyped, Group
        <3> QED BY <3>1
    <2>4. /\ groups' = [g \in Gids |-> IF g > Len(kept[b]) THEN NoGroup ELSE kept[b][g]]
          /\ index' = Reindexed(b)
        BY <1>2 DEF Swap
    <2>5. groups' \in [Gids -> Group \union {NoGroup}]
        BY <2>2, <2>4
    <2>6. index' \in [Gids -> (SUBSET (1..clock)) \union {NoGroup}]
        BY <2>3, <2>4 DEF Reindexed
    <2>7. GroupsTyped'
        BY <2>1, <2>5, <2>6 DEF GroupsTyped
    <2> QED BY <1>1, <2>7 DEF TypeInv
<1>3. CASE SwapRefused(b)
    BY <1>1, <1>3, SameClock DEF SwapRefused, library, memories, TypeInv
<1> QED BY <1>2, <1>3

LEMMA CaptionTyped ==
    ASSUME TypeInv, NEW i \in Ids, Caption(i)
    PROVE  TypeInv'
<1>1. GroupsTyped' /\ BuildTyped'
    BY SameClock DEF Caption, memories
<1>2. LibraryTyped'
    BY DEF Caption, deleter, history, TypeInv, LibraryTyped, Rows
<1> QED BY <1>1, <1>2 DEF TypeInv

\* A photo goes, from the table and from every memory that had it.
LEMMA Deleted ==
    ASSUME TypeInv, NEW i \in Ids, DeletePhoto(i)
    PROVE  /\ Rows' \subseteq Rows \ {i} /\ Rows \ {i} \subseteq Rows'
           /\ Memories' = Memories
           /\ \A g \in Memories : /\ groups'[g].photos = groups[g].photos \ {i}
                                  /\ groups'[g].story = groups[g].story
                                  /\ groups'[g] \in Group
           /\ \A g \in Gids \ Memories : groups'[g] = NoGroup
<1>1. /\ shot' = [shot EXCEPT ![i] = NoShot]
      /\ groups' = Unlinked(i)
    BY DEF DeletePhoto
<1>2. Rows' \subseteq Rows \ {i} /\ Rows \ {i} \subseteq Rows'
    BY <1>1 DEF Rows, TypeInv, LibraryTyped
<1>3. ASSUME NEW g \in Memories
      PROVE  /\ groups'[g].photos = groups[g].photos \ {i}
             /\ groups'[g].story = groups[g].story
             /\ groups'[g] \in Group
    <2>1. g \in Gids /\ groups[g] \in Group
        BY MemoryIsGroup
    <2>2. groups'[g] = [groups[g] EXCEPT !.photos = @ \ {i}]
        BY <1>1, <2>1 DEF Unlinked
    <2> QED BY <2>1, <2>2 DEF Group
<1>4. \A g \in Gids \ Memories : groups'[g] = NoGroup
    BY <1>1 DEF Unlinked
<1>5. Memories' = Memories
    <2>1. NoGroup \notin Group
        BY AGroupIsNotNone DEF TypeInv, LibraryTyped
    <2>2. \A g \in Memories : g \in Memories'
        BY <1>3, <2>1 DEF Memories
    <2>3. \A g \in Memories' : g \in Memories
        BY <1>4 DEF Memories
    <2> QED BY <2>2, <2>3
<1> QED BY <1>2, <1>3, <1>4, <1>5

LEMMA DeleteTyped ==
    ASSUME TypeInv, NEW i \in Ids, DeletePhoto(i)
    PROVE  TypeInv'
<1>1. BuildTyped' /\ Group' = Group
    BY SameClock DEF DeletePhoto
<1>2. LibraryTyped'
    <2>1. /\ shot' = [shot EXCEPT ![i] = NoShot] /\ born' = [born EXCEPT ![i] = 0]
          /\ captioned' = captioned \ {i} /\ doomed' = doomed \ {i}
          /\ UNCHANGED <<clock, deleting, orphaned>>
        BY DEF DeletePhoto, history
    <2>2. Rows' \subseteq Rows \ {i} /\ Rows \ {i} \subseteq Rows'
        BY Deleted
    <2> QED BY <2>1, <2>2 DEF TypeInv, LibraryTyped
<1>3. GroupsTyped'
    <2>1. \A g \in Gids : groups'[g] \in Group \union {NoGroup}
        BY Deleted
    <2>2. groups' = Unlinked(i) /\ index' = index /\ clock' = clock
        BY DEF DeletePhoto
    <2>3. groups' \in [Gids -> Group \union {NoGroup}]
        BY <2>1, <2>2 DEF Unlinked
    <2> QED BY <1>1, <2>2, <2>3 DEF TypeInv, GroupsTyped
<1> QED BY <1>1, <1>2, <1>3 DEF TypeInv

\* A backfill fills only what is missing.
LEMMA BackfillTyped == TypeInv => Backfilled \in [Gids -> (SUBSET (1..clock)) \union {NoGroup}]
<1> SUFFICES ASSUME TypeInv PROVE Backfilled \in [Gids -> (SUBSET (1..clock)) \union {NoGroup}]
    OBVIOUS
<1>1. \A g \in Memories : groups[g].story \in SUBSET (1..clock)
    BY MemoryIsGroup DEF Group
<1>2. \A g \in Gids : index[g] \in (SUBSET (1..clock)) \union {NoGroup}
    BY DEF TypeInv, GroupsTyped
<1>3. \A g \in Gids : Backfilled[g] \in (SUBSET (1..clock)) \union {NoGroup}
    BY <1>1, <1>2 DEF Backfilled
<1> QED BY <1>3 DEF Backfilled

LEMMA DeleterTyped ==
    ASSUME TypeInv,
           \/ \E photos \in Folders : BeginDeletion(photos)
           \/ PruneIndex \/ PruneGroups \/ WorkerCrash \/ WorkerStart
    PROVE  TypeInv'
<1>1. ASSUME NEW photos \in Folders, BeginDeletion(photos) PROVE TypeInv'
    <2>1. GroupsTyped' /\ BuildTyped'
        BY <1>1, SameClock DEF BeginDeletion, library, memories
    <2>2. photos \subseteq Ids
        BY MemoriesAssumption
    <2>3. LibraryTyped'
        BY <1>1, <2>2 DEF BeginDeletion, library, history, TypeInv, LibraryTyped, Rows
    <2> QED BY <2>1, <2>3 DEF TypeInv
<1>2. CASE PruneIndex
    <2>1. LibraryTyped' /\ BuildTyped'
        BY <1>2, SameClock DEF PruneIndex, library, history, TypeInv, LibraryTyped, Rows
    <2>2. GroupsTyped'
        BY <1>2 DEF PruneIndex, library, TypeInv, GroupsTyped, Group
    <2> QED BY <2>1, <2>2 DEF TypeInv
<1>3. CASE PruneGroups
    <2>1. LibraryTyped' /\ BuildTyped'
        BY <1>3, SameClock DEF PruneGroups, library, history, TypeInv, LibraryTyped, Rows
    <2>2. Group' = Group /\ clock' = clock /\ index' = index
        BY <1>3, SameClock DEF PruneGroups, library
    <2>3. groups' = [g \in Gids |-> IF g \in Orphans THEN NoGroup ELSE groups[g]]
        BY <1>3 DEF PruneGroups
    <2>4. GroupsTyped'
        BY <2>2, <2>3 DEF TypeInv, GroupsTyped
    <2> QED BY <2>1, <2>4 DEF TypeInv
<1>4. CASE WorkerCrash
    <2>1. GroupsTyped' /\ BuildTyped'
        BY <1>4, SameClock DEF WorkerCrash, library, memories
    <2>2. LibraryTyped'
        BY <1>4 DEF WorkerCrash, library, TypeInv, LibraryTyped, Rows
    <2> QED BY <2>1, <2>2 DEF TypeInv
<1>5. CASE WorkerStart
    <2>1. LibraryTyped' /\ BuildTyped'
        BY <1>5, SameClock DEF WorkerStart, library, history, TypeInv, LibraryTyped, Rows
    <2>2. Group' = Group /\ clock' = clock /\ groups' = groups /\ index' = Backfilled
        BY <1>5, SameClock DEF WorkerStart, library
    <2>3. GroupsTyped'
        BY <2>2, BackfillTyped DEF TypeInv, GroupsTyped
    <2> QED BY <2>1, <2>3 DEF TypeInv
<1> QED BY <1>1, <1>2, <1>3, <1>4, <1>5

LEMMA PageTyped ==
    ASSUME TypeInv, PageNext \/ UNCHANGED vars
    PROVE  TypeInv'
<1>1. UNCHANGED <<library, memories, build, deleter, orphaned>>
    BY DEF PageNext, ReadList, ReadCard, Render, vars, history
<1> QED BY <1>1, SameClock DEF TypeInv, library, memories, deleter

LEMMA RestartTyped ==
    ASSUME TypeInv, AppRestart
    PROVE  TypeInv'
<1>1. LibraryTyped'
    BY SameClock DEF AppRestart, library, deleter
<1>2. Group' = Group /\ clock' = clock /\ groups' = groups /\ index' = Backfilled
    BY SameClock DEF AppRestart, library
<1>3. GroupsTyped'
    BY <1>2, BackfillTyped DEF TypeInv, GroupsTyped
<1>4. BuildTyped'
    <2>1. /\ building' = FALSE /\ at' = [b \in Builders |-> "idle"]
          /\ todo' = [b \in Builders |-> <<>>] /\ told' = [b \in Builders |-> {}]
          /\ kept' = [b \in Builders |-> <<>>] /\ rounds' = [b \in Builders |-> 0]
        BY DEF AppRestart, Idle, NoWork
    <2>2. 0 \in 0..MaxRounds
        BY MemoriesAssumption
    <2>3. <<>> \in Seq(SUBSET Ids) /\ <<>> \in Seq(Group')
        BY EmptySeq
    <2> QED BY <2>1, <2>2, <2>3 DEF BuildTyped
<1> QED BY <1>1, <1>3, <1>4 DEF TypeInv

LEMMA TypeNext == TypeInv /\ [Next]_vars => TypeInv'
<1> SUFFICES ASSUME TypeInv, [Next]_vars PROVE TypeInv'
    OBVIOUS
<1>1. ASSUME NEW b \in Builders, Request(b) \/ BuildStep(b) PROVE TypeInv'
    BY <1>1, RequestStart, SeedTyped, TurnTyped, SwapTyped DEF BuildStep
<1>2. CASE LibraryNext
    BY <1>2, UploadTyped, CaptionTyped, DeleteTyped, DeleterTyped DEF LibraryNext
<1>3. CASE PageNext \/ UNCHANGED vars
    BY <1>3, PageTyped
<1>4. CASE AppRestart
    BY <1>4, RestartTyped
<1> QED BY <1>1, <1>2, <1>3, <1>4 DEF Next

\* Every variable stays in its domain: among the rest, the stamps of a story are times
\* that have passed, and no candidate is expanded more often than it may (TypeOK).
THEOREM TypeCorrect == Spec => []TypeOK
<1>1. TypeInv => TypeOK
    <2> SUFFICES ASSUME TypeInv PROVE TypeOK
        OBVIOUS
    <2>1. \A g \in Memories : groups[g].photos \subseteq Ids
        BY MemoryIsGroup DEF Group
    <2> QED BY <2>1 DEF TypeInv, LibraryTyped, BuildTyped, Group, TypeOK
<1> QED BY <1>1, TypeInit, TypeNext, PTL DEF Spec

-----------------------------------------------------------------------------
(* The locals of a build, from step to step.                               *)

\* A build's story of the first candidate is of the stamps its photos had when it was
\* opened; a build that is over or killed has none.
LEMMA TodoSteps ==
    ASSUME TypeInv, [Next]_vars, NEW b \in Builders, todo'[b] # <<>>
    PROVE  \/ todo'[b] = todo[b] /\ told'[b] = told[b]
           \/ /\ told'[b] = Stamps(todo'[b][1])
              /\ UNCHANGED <<shot, born, reused>>
<1> DEFINE Same == todo'[b] = todo[b] /\ told'[b] = told[b]
           Opened == told'[b] = Stamps(todo'[b][1]) /\ UNCHANGED <<shot, born, reused>>
<1>1. ASSUME NEW a \in Builders, NEW candidates, Open(a, candidates), UNCHANGED <<shot, born, reused>>
      PROVE  Same \/ Opened
    BY <1>1 DEF Open, TypeInv, BuildTyped
<1>2. ASSUME NEW a \in Builders, Request(a) \/ BuildStep(a) PROVE Same \/ Opened
    <2>1. CASE Request(a) \/ Start(a) \/ ExpandTurn(a)
        BY <2>1 DEF Request, Start, ExpandTurn
    <2>2. CASE Seed(a)
        <3>1. PICK seeds \in SeedCandidates : Open(a, seeds)
            BY <2>2 DEF Seed
        <3> QED BY <1>1, <2>2, <3>1 DEF Seed, library, history
    <2>3. CASE Settle(a)
        BY <1>1, <2>3 DEF Settle, library, history
    <2>4. CASE BuildOver(a) /\ UNCHANGED <<library, history>>
        BY <1>1, <2>4 DEF BuildOver, library, history
    <2> QED BY <1>2, <2>1, <2>2, <2>3, <2>4 DEF BuildStep, Turn, Skip, Keep, Swap, SwapRefused
<1>3. ASSUME UNCHANGED build PROVE Same
    BY <1>3 DEF build
<1>4. CASE LibraryNext \/ PageNext \/ UNCHANGED vars
    <2>1. UNCHANGED build
        BY <1>4 DEF LibraryNext, Upload, Caption, DeletePhoto, BeginDeletion, PruneIndex,
                    PruneGroups, WorkerCrash, WorkerStart, PageNext, ReadList, ReadCard, Render, vars
    <2> QED BY <1>3, <2>1
<1>5. ASSUME AppRestart PROVE FALSE
    BY <1>5 DEF AppRestart, NoWork
<1> QED BY <1>2, <1>4, <1>5 DEF Next

\* A memory a build has kept stays as it was kept, and a new one is a Keep.
LEMMA KeptSteps ==
    ASSUME TypeInv, [Next]_vars, NEW b \in Builders, NEW n \in DOMAIN kept'[b]
    PROVE  \/ n \in DOMAIN kept[b] /\ kept'[b][n] = kept[b][n]
           \/ \E dropped \in SUBSET Ids : Keep(b, dropped) /\ kept'[b][n] = KeptNow(b, dropped)
<1> DEFINE Same == n \in DOMAIN kept[b] /\ kept'[b][n] = kept[b][n]
           New == \E dropped \in SUBSET Ids : Keep(b, dropped) /\ kept'[b][n] = KeptNow(b, dropped)
<1>1. ASSUME kept'[b] = kept[b] PROVE Same
    BY <1>1
<1>2. ASSUME NEW a \in Builders, BuildOver(a) PROVE Same
    <2>1. kept' = [kept EXCEPT ![a] = <<>>]
        BY <1>2 DEF BuildOver
    <2>2. DOMAIN <<>> = {}
        OBVIOUS
    <2>3. a # b
        BY <2>1, <2>2 DEF TypeInv, BuildTyped
    <2> QED BY <1>1, <2>1, <2>3
<1>3. ASSUME NEW a \in Builders, NEW dropped \in SUBSET Ids, Keep(a, dropped) PROVE Same \/ New
    <2>1. kept' = [kept EXCEPT ![a] = Append(@, KeptNow(a, dropped))]
        BY <1>3, KeepAppends
    <2>2. CASE a # b
        BY <1>1, <2>1, <2>2
    <2>3. CASE a = b
        <3>1. kept'[b] = Append(kept[b], KeptNow(b, dropped)) /\ kept[b] \in Seq(Group)
            BY <2>1, <2>3 DEF TypeInv, BuildTyped
        <3>2. n \in 1..(Len(kept[b]) + 1)
            BY <3>1, LenProperties
        <3>3. CASE n = Len(kept[b]) + 1
            <4>1. kept'[b][n] = KeptNow(b, dropped)
                BY <3>1, <3>3
            <4> QED BY <1>3, <2>3, <4>1
        <3>4. CASE n # Len(kept[b]) + 1
            <4>1. n \in 1..Len(kept[b])
                BY <3>1, <3>2, <3>4, LenProperties
            <4> QED BY <3>1, <4>1
        <3> QED BY <3>3, <3>4
    <2> QED BY <2>2, <2>3
<1>4. ASSUME NEW a \in Builders, Request(a) \/ BuildStep(a) PROVE Same \/ New
    <2>1. CASE Request(a) \/ Start(a) \/ Seed(a) \/ ExpandTurn(a) \/ Skip(a)
        BY <1>1, <2>1 DEF Request, Start, Seed, ExpandTurn, Skip
    <2>2. CASE Swap(a) \/ SwapRefused(a)
        BY <1>2, <2>2 DEF Swap, SwapRefused
    <2> QED BY <1>3, <1>4, <2>1, <2>2 DEF BuildStep, Turn
<1>5. CASE LibraryNext \/ PageNext \/ UNCHANGED vars
    <2>1. UNCHANGED build
        BY <1>5 DEF LibraryNext, Upload, Caption, DeletePhoto, BeginDeletion, PruneIndex,
                    PruneGroups, WorkerCrash, WorkerStart, PageNext, ReadList, ReadCard, Render, vars
    <2> QED BY <1>1, <2>1 DEF build
<1>6. ASSUME AppRestart PROVE FALSE
    <2>1. kept'[b] = <<>>
        BY <1>6 DEF AppRestart, NoWork
    <2> QED BY <2>1
<1> QED BY <1>4, <1>5, <1>6 DEF Next

LEMMA FullInit == Init => KeptFull
<1>1. Init => \A b \in Builders : kept[b] = <<>>
    BY DEF Init, NoWork
<1> QED BY <1>1 DEF KeptFull

LEMMA FullNext == TypeInv /\ KeptFull /\ [Next]_vars => KeptFull'
<1> SUFFICES ASSUME TypeInv, KeptFull, [Next]_vars, NEW b \in Builders, NEW n \in DOMAIN kept'[b]
             PROVE  kept'[b][n].photos # {}
    BY DEF KeptFull
<1>1. CASE n \in DOMAIN kept[b] /\ kept'[b][n] = kept[b][n]
    BY <1>1 DEF KeptFull
<1>2. ASSUME NEW dropped \in SUBSET Ids, Keep(b, dropped), kept'[b][n] = KeptNow(b, dropped)
      PROVE  kept'[b][n].photos # {}
    BY <1>2, KeepAppends
<1> QED BY <1>1, <1>2, KeptSteps

-----------------------------------------------------------------------------
(* Emptied memories, and the index.                                        *)

OrphanInv == ~orphaned => deleting # "down" /\ (deleting = "no" => Orphans = {})

\* A swap stores no empty memory.
LEMMA SwappedFull ==
    ASSUME TypeInv, KeptFull, NEW b \in Builders, Swap(b)
    PROVE  Orphans' = {}
<1> SUFFICES ASSUME NEW g \in Gids, g \in Memories', groups'[g].photos = {} PROVE FALSE
    BY DEF Orphans, Memories
<1>1. groups'[g] = kept[b][g] /\ g \in DOMAIN kept[b]
    BY Swapped
<1> QED BY <1>1 DEF KeptFull

LEMMA SameGroups ==
    ASSUME UNCHANGED groups
    PROVE  Memories' = Memories /\ Orphans' = Orphans
BY DEF Memories, Orphans

LEMMA OrphanNext == TypeInv /\ KeptFull /\ OrphanInv /\ [Next]_vars => OrphanInv'
<1> SUFFICES ASSUME TypeInv, KeptFull, OrphanInv, [Next]_vars, ~orphaned'
             PROVE  deleting' # "down" /\ (deleting' = "no" => Orphans' = {})
    BY DEF OrphanInv
<1>1. ASSUME UNCHANGED <<groups, deleting, orphaned>>
      PROVE  deleting' # "down" /\ (deleting' = "no" => Orphans' = {})
    BY <1>1, SameGroups DEF OrphanInv
<1>2. ASSUME NEW b \in Builders, Request(b) \/ BuildStep(b)
      PROVE  deleting' # "down" /\ (deleting' = "no" => Orphans' = {})
    <2>1. CASE Swap(b)
        BY <2>1, SwappedFull DEF Swap, deleter, history, OrphanInv
    <2>2. CASE Request(b) \/ Start(b) \/ Seed(b) \/ Turn(b) \/ SwapRefused(b)
        BY <1>1, <2>2 DEF Request, Start, Seed, Turn, ExpandTurn, Skip, Keep, Settle, SwapRefused,
                          memories, deleter, history
    <2> QED BY <1>2, <2>1, <2>2 DEF BuildStep
<1>3. CASE LibraryNext
    <2>1. ASSUME NEW s \in Arrivals, Upload(s)
          PROVE  deleting' # "down" /\ (deleting' = "no" => Orphans' = {})
        BY <1>1, <2>1 DEF Upload, memories, deleter
    <2>2. ASSUME NEW i \in Ids, Caption(i) \/ DeletePhoto(i)
          PROVE  deleting' # "down" /\ (deleting' = "no" => Orphans' = {})
        BY <1>1, <2>2 DEF Caption, DeletePhoto, memories, deleter, history
    <2>3. ASSUME NEW photos \in Folders, BeginDeletion(photos)
          PROVE  deleting' # "down" /\ (deleting' = "no" => Orphans' = {})
        BY <2>3 DEF BeginDeletion
    <2>4. CASE PruneIndex
        BY <2>4 DEF PruneIndex
    <2>5. CASE PruneGroups
        <3>1. groups' = [g \in Gids |-> IF g \in Orphans THEN NoGroup ELSE groups[g]]
            BY <2>5 DEF PruneGroups
        <3>2. Orphans' = {}
            BY <3>1 DEF Orphans, Memories
        <3> QED BY <2>5, <3>2 DEF PruneGroups
    <2>6. CASE WorkerCrash
        BY <2>6 DEF WorkerCrash
    <2>7. CASE WorkerStart
        BY <2>7 DEF WorkerStart, history, OrphanInv
    <2> QED BY <1>3, <2>1, <2>2, <2>3, <2>4, <2>5, <2>6, <2>7 DEF LibraryNext
<1>4. CASE PageNext \/ UNCHANGED vars
    BY <1>1, <1>4 DEF PageNext, ReadList, ReadCard, Render, vars, memories, deleter, history
<1>5. CASE AppRestart
    BY <1>1, <1>5 DEF AppRestart, deleter
<1> QED BY <1>2, <1>3, <1>4, <1>5 DEF Next

\* A memory whose photos were deleted with their folder does not linger as an empty
\* card (NoOrphanCard): no build stores one, and the deletion ends with a prune.
THEOREM NoneLingers == Spec => []NoOrphanCard
<1>1. Init => OrphanInv
    BY DEF Init, OrphanInv, Orphans, Memories
<1>2. OrphanInv => NoOrphanCard
    BY DEF OrphanInv, NoOrphanCard
<1> QED BY <1>1, <1>2, TypeInit, TypeNext, FullInit, FullNext, OrphanNext, PTL DEF Spec

\* A memory's row of the index, as a deletion and a crash may leave it: gone before its
\* emptied memory is, and not yet back.
InStep(g) ==
    IF g \notin Memories THEN index[g] = NoGroup
    ELSE \/ index[g] = groups[g].story /\ (deleting = "groups" => g \notin Orphans)
         \/ index[g] = NoGroup /\ ((deleting = "groups" /\ g \in Orphans) \/ deleting = "down")

IndexInv == ~strayed => \A g \in Gids : InStep(g)

LEMMA IndexNext == TypeInv /\ KeptFull /\ IndexInv /\ [Next]_vars => IndexInv'
<1> SUFFICES ASSUME TypeInv, KeptFull, IndexInv, [Next]_vars, ~strayed', NEW g \in Gids
             PROVE  InStep(g)'
    BY DEF IndexInv, Gids
<1>1. ASSUME UNCHANGED <<groups, index, deleting>>, ~strayed PROVE InStep(g)'
    BY <1>1 DEF IndexInv, InStep, Memories, Orphans
<1>2. ASSUME NEW b \in Builders, Request(b) \/ BuildStep(b) PROVE InStep(g)'
    <2>1. CASE Swap(b)
        <3>1. InStep(g) /\ Orphans' = {}
            BY <2>1, SwappedFull DEF Swap, history, IndexInv
        <3>2. CASE g <= Len(kept[b])
            BY <2>1, <3>1, <3>2, Swapped DEF InStep
        <3>3. CASE ~(g <= Len(kept[b]))
            BY <2>1, <3>1, <3>3, Swapped DEF InStep
        <3> QED BY <3>2, <3>3
    <2>2. CASE Request(b) \/ Start(b) \/ Seed(b) \/ Turn(b) \/ SwapRefused(b)
        BY <1>1, <2>2 DEF Request, Start, Seed, Turn, ExpandTurn, Skip, Keep, Settle, SwapRefused,
                          memories, deleter, history
    <2> QED BY <1>2, <2>1, <2>2 DEF BuildStep
<1>3. CASE LibraryNext
    <2>1. ASSUME NEW s \in Arrivals, Upload(s) PROVE InStep(g)'
        BY <1>1, <2>1 DEF Upload, memories, deleter
    <2>2. ASSUME NEW i \in Ids, Caption(i) PROVE InStep(g)'
        BY <1>1, <2>2 DEF Caption, memories, deleter, history
    <2>3. ASSUME NEW i \in Ids, DeletePhoto(i) PROVE InStep(g)'
        <3>1. deleting = "photos" /\ deleting' = "photos" /\ index' = index /\ strayed' = strayed
            BY <2>3 DEF DeletePhoto, history
        <3>2. g \in Memories' <=> g \in Memories
            BY <2>3, Deleted
        <3>3. g \in Memories => groups'[g].story = groups[g].story
            BY <2>3, Deleted
        <3> QED BY <3>1, <3>2, <3>3 DEF IndexInv, InStep
    <2>4. ASSUME NEW photos \in Folders, BeginDeletion(photos) PROVE InStep(g)'
        BY <2>4, SameGroups DEF BeginDeletion, memories, history, IndexInv, InStep
    <2>5. CASE PruneIndex
        <3>1. /\ deleting = "photos" /\ deleting' = "groups" /\ UNCHANGED <<groups, strayed>>
              /\ index'[g] = IF g \in Orphans THEN NoGroup ELSE index[g]
            BY <2>5 DEF PruneIndex, history
        <3>2. Memories' = Memories /\ Orphans' = Orphans /\ Orphans \subseteq Memories
            BY <3>1, SameGroups DEF Orphans
        <3> QED BY <3>1, <3>2 DEF IndexInv, InStep
    <2>6. CASE PruneGroups
        <3>1. /\ deleting = "groups" /\ deleting' = "no" /\ UNCHANGED <<index, strayed>>
              /\ groups'[g] = IF g \in Orphans THEN NoGroup ELSE groups[g]
            BY <2>6 DEF PruneGroups, history
        <3>2. g \in Memories' <=> g \in Memories \ Orphans
            BY <3>1 DEF Memories
        <3> QED BY <3>1, <3>2 DEF IndexInv, InStep, Orphans
    <2>7. CASE WorkerCrash
        <3>1. deleting' = "down" /\ UNCHANGED <<groups, index, strayed>>
            BY <2>7 DEF WorkerCrash, memories
        <3> QED BY <3>1, SameGroups DEF IndexInv, InStep
    <2>8. CASE WorkerStart
        <3>1. /\ deleting = "down" /\ deleting' = "no" /\ UNCHANGED <<groups, strayed>>
              /\ index'[g] = IF g \in Memories /\ index[g] = NoGroup THEN groups[g].story ELSE index[g]
            BY <2>8 DEF WorkerStart, history, Backfilled
        <3> QED BY <3>1, SameGroups DEF IndexInv, InStep
    <2> QED BY <1>3, <2>1, <2>2, <2>3, <2>4, <2>5, <2>6, <2>7, <2>8 DEF LibraryNext
<1>4. CASE PageNext \/ UNCHANGED vars
    BY <1>1, <1>4 DEF PageNext, ReadList, ReadCard, Render, vars, memories, deleter, history
<1>5. CASE AppRestart
    \* One that changed the index would have strayed.
    <2>1. strayed' = (strayed \/ index' # index)
        BY <1>5 DEF AppRestart
    <2>2. ~strayed /\ index' = index
        BY <2>1, Zenon
    <2> QED BY <1>1, <1>5, <2>2 DEF AppRestart, deleter
<1> QED BY <1>2, <1>3, <1>4, <1>5 DEF Next

\* Chat finds each memory by the story it has and finds none that is gone (IndexInStep):
\* replace_memories, the prune and the backfill keep memory_fts in step with groups.
THEOREM IndexKept == Spec => []IndexInStep
<1>1. Init => IndexInv
    BY DEF Init, IndexInv, InStep, Memories
<1>2. IndexInv => IndexInStep
    BY DEF IndexInv, InStep, IndexInStep
<1> QED BY <1>1, <1>2, TypeInit, TypeNext, FullInit, FullNext, IndexNext, PTL DEF Spec

-----------------------------------------------------------------------------
(* The story of a memory and the photos it shows.                          *)

\* The photos were told of, but for those that took the place of one that was.
ToldOf(ids, story) == \A i \in ids \ reused : i \in Rows => born[i] \in story

BuildTold ==
    \A b \in Builders :
        /\ todo[b] # <<>> => ToldOf(todo[b][1], told[b])
        /\ \A n \in DOMAIN kept[b] : ToldOf(kept[b][n].photos, kept[b][n].story)

TellInv == BuildTold /\ TellsItsPhotos

\* A row is taken, or all that there are were there.
LEMMA RowSteps ==
    ASSUME TypeInv, [Next]_vars
    PROVE  \/ \E s \in Arrivals : Upload(s)
           \/ reused' = reused /\ \A i \in Rows' : i \in Rows /\ born'[i] = born[i]
<1> DEFINE Kept == reused' = reused /\ \A i \in Rows' : i \in Rows /\ born'[i] = born[i]
<1>1. ASSUME UNCHANGED <<shot, born, reused>> PROVE Kept
    BY <1>1 DEF Rows
<1>2. ASSUME NEW b \in Builders, Request(b) \/ BuildStep(b) PROVE Kept
    BY <1>1, <1>2 DEF Request, BuildStep, Start, Seed, Turn, ExpandTurn, Skip, Keep, Settle,
                      Swap, SwapRefused, library, history
<1>3. ASSUME NEW i \in Ids, DeletePhoto(i) PROVE Kept
    <2>1. Rows' \subseteq Rows \ {i} /\ born' = [born EXCEPT ![i] = 0] /\ reused' = reused
        BY <1>3, Deleted DEF DeletePhoto, history
    <2> QED BY <2>1 DEF TypeInv, LibraryTyped, Rows
<1>4. ASSUME NEW i \in Ids, Caption(i) PROVE Kept
    BY <1>1, <1>4 DEF Caption, history
<1>5. ASSUME NEW photos \in Folders, BeginDeletion(photos) PROVE Kept
    BY <1>1, <1>5 DEF BeginDeletion, library, history
<1>6. CASE PruneIndex \/ PruneGroups \/ WorkerCrash \/ WorkerStart
    BY <1>1, <1>6 DEF PruneIndex, PruneGroups, WorkerCrash, WorkerStart, library, history
<1>7. CASE PageNext \/ UNCHANGED vars \/ AppRestart
    BY <1>1, <1>7 DEF PageNext, ReadList, ReadCard, Render, vars, AppRestart, library, history
<1> QED BY <1>2, <1>3, <1>4, <1>5, <1>6, <1>7 DEF Next, LibraryNext

\* What a build knows stays told, when a row is taken from under it too: the row is
\* then one that was reused.
LEMMA UploadTold ==
    ASSUME TypeInv, TellInv, NEW s \in Arrivals, Upload(s)
    PROVE  TellInv'
<1>1. /\ NewRow \in Ids \ Rows
      /\ born' = [born EXCEPT ![NewRow] = clock + 1]
      /\ reused' = IF \E b \in Builders : KnownTo(b, NewRow) THEN reused \union {NewRow}
                   ELSE reused
      /\ Rows \subseteq Rows' /\ Rows' \subseteq Rows \union {NewRow}
      /\ UNCHANGED <<groups, build>>
    BY Uploaded
<1>2. /\ reused \subseteq reused'
      /\ \A i \in Rows' : i # NewRow => i \in Rows /\ born'[i] = born[i]
      /\ \A b \in Builders : KnownTo(b, NewRow) => NewRow \in reused'
    BY <1>1 DEF TypeInv, LibraryTyped, Rows
<1>3. ASSUME NEW ids, NEW story, NewRow \in ids => NewRow \in reused', ToldOf(ids, story)
      PROVE  \A i \in ids \ reused' : i \in Rows' => born'[i] \in story
    BY <1>2, <1>3 DEF ToldOf
<1>4. BuildTold'
    <2>1. ASSUME NEW b \in Builders, todo[b] # <<>>
          PROVE  \A i \in todo[b][1] \ reused' : i \in Rows' => born'[i] \in told[b]
        <3>1. NewRow \in todo[b][1] => NewRow \in reused'
            BY <1>2, <2>1 DEF KnownTo
        <3> QED BY <1>3, <2>1, <3>1 DEF TellInv, BuildTold
    <2>2. ASSUME NEW b \in Builders, NEW n \in DOMAIN kept[b]
          PROVE  \A i \in kept[b][n].photos \ reused' : i \in Rows' => born'[i] \in kept[b][n].story
        <3>1. NewRow \in kept[b][n].photos => NewRow \in reused'
            BY <1>2, <2>2 DEF KnownTo
        <3> QED BY <1>3, <2>2, <3>1 DEF TellInv, BuildTold
    <2>3. todo' = todo /\ told' = told /\ kept' = kept
        BY <1>1 DEF build
    <2> QED BY <2>1, <2>2, <2>3 DEF BuildTold, ToldOf
<1>5. TellsItsPhotos'
    <2> SUFFICES ASSUME NEW g \in Memories, NEW i \in groups[g].photos \ reused'
                 PROVE  i \in Rows' /\ born'[i] \in groups[g].story
        BY <1>1, SameGroups DEF TellsItsPhotos
    <2>1. i \in Rows /\ born[i] \in groups[g].story
        BY <1>2 DEF TellInv, TellsItsPhotos
    <2> QED BY <1>1, <1>2, <2>1
<1> QED BY <1>4, <1>5 DEF TellInv

LEMMA BuildToldNext ==
    ASSUME TypeInv, TellInv, [Next]_vars,
           reused' = reused, \A i \in Rows' : i \in Rows /\ born'[i] = born[i]
    PROVE  BuildTold'
<1>1. ASSUME NEW ids, NEW story, ToldOf(ids, story)
      PROVE  \A i \in ids \ reused' : i \in Rows' => born'[i] \in story
    BY <1>1 DEF ToldOf
<1>2. ASSUME NEW b \in Builders, todo'[b] # <<>>
      PROVE  \A i \in todo'[b][1] \ reused' : i \in Rows' => born'[i] \in told'[b]
    <2>1. CASE todo'[b] = todo[b] /\ told'[b] = told[b]
        BY <1>1, <1>2, <2>1 DEF TellInv, BuildTold
    <2>2. CASE told'[b] = Stamps(todo'[b][1])
        BY <2>2 DEF Stamps
    <2> QED BY <1>2, <2>1, <2>2, TodoSteps
<1>3. ASSUME NEW b \in Builders, NEW n \in DOMAIN kept'[b]
      PROVE  \A i \in kept'[b][n].photos \ reused' : i \in Rows' => born'[i] \in kept'[b][n].story
    <2>1. CASE n \in DOMAIN kept[b] /\ kept'[b][n] = kept[b][n]
        BY <1>1, <2>1 DEF TellInv, BuildTold
    <2>2. ASSUME NEW dropped \in SUBSET Ids, Keep(b, dropped), kept'[b][n] = KeptNow(b, dropped)
          PROVE  \A i \in kept'[b][n].photos \ reused' : i \in Rows' => born'[i] \in kept'[b][n].story
        <3>1. ToldOf(todo[b][1], told[b])
            BY <2>2 DEF Keep, Settle, TellInv, BuildTold
        <3>2. ToldOf(kept'[b][n].photos, kept'[b][n].story)
            BY <2>2, <3>1 DEF KeptNow, ToldOf
        <3> QED BY <1>1, <3>2
    <2> QED BY <2>1, <2>2, KeptSteps
<1> QED BY <1>2, <1>3 DEF BuildTold, ToldOf

\* The swap stores what the build was told, of photos that are all there.
LEMMA SwapTells ==
    ASSUME TypeInv, TellInv, NEW b \in Builders, Swap(b)
    PROVE  TellsItsPhotos'
<1> SUFFICES ASSUME NEW g \in Memories', NEW i \in groups'[g].photos \ reused'
             PROVE  i \in Rows' /\ born'[i] \in groups'[g].story
    BY DEF TellsItsPhotos
<1>1. g \in Gids
    BY DEF Memories, Gids
<1>2. groups'[g] = kept[b][g] /\ g \in DOMAIN kept[b]
    BY <1>1, Swapped
<1>3. i \in Rows
    BY <1>2 DEF Swap, Storable, Stored
<1>4. ToldOf(kept[b][g].photos, kept[b][g].story)
    BY <1>2 DEF TellInv, BuildTold
<1>5. Rows' = Rows /\ born' = born /\ reused' = reused
    BY DEF Swap, library, history, Rows
<1> QED BY <1>2, <1>3, <1>4, <1>5 DEF ToldOf

LEMMA GroupsTell ==
    ASSUME TypeInv, TellInv, [Next]_vars, ~\E s \in Arrivals : Upload(s)
    PROVE  TellsItsPhotos'
<1>1. ASSUME UNCHANGED <<groups, shot, born, reused>> PROVE TellsItsPhotos'
    BY <1>1, SameGroups DEF TellInv, TellsItsPhotos, Rows
<1>2. ASSUME NEW b \in Builders, Request(b) \/ BuildStep(b) PROVE TellsItsPhotos'
    BY <1>1, <1>2, SwapTells DEF Request, BuildStep, Start, Seed, Turn, ExpandTurn, Skip, Keep,
                                 Settle, SwapRefused, library, memories, history
<1>3. ASSUME NEW i \in Ids, DeletePhoto(i) PROVE TellsItsPhotos'
    <2> SUFFICES ASSUME NEW g \in Memories', NEW j \in groups'[g].photos \ reused'
                 PROVE  j \in Rows' /\ born'[j] \in groups'[g].story
        BY DEF TellsItsPhotos
    <2>1. g \in Memories /\ groups'[g].photos = groups[g].photos \ {i} /\ groups'[g].story = groups[g].story
        BY <1>3, Deleted
    <2>2. j \in Rows /\ born[j] \in groups[g].story /\ j # i
        BY <1>3, <2>1 DEF DeletePhoto, history, TellInv, TellsItsPhotos
    <2>3. j \in Rows'
        BY <1>3, <2>2, Deleted
    <2> QED BY <1>3, <2>1, <2>2, <2>3 DEF DeletePhoto, TypeInv, LibraryTyped, Rows
<1>4. ASSUME NEW i \in Ids, Caption(i) PROVE TellsItsPhotos'
    BY <1>1, <1>4 DEF Caption, memories, history
<1>5. ASSUME NEW photos \in Folders, BeginDeletion(photos) PROVE TellsItsPhotos'
    BY <1>1, <1>5 DEF BeginDeletion, library, memories, history
<1>6. CASE PruneIndex \/ WorkerCrash \/ WorkerStart
    BY <1>1, <1>6 DEF PruneIndex, WorkerCrash, WorkerStart, library, memories, history
<1>7. CASE PruneGroups
    <2>1. /\ groups' = [g \in Gids |-> IF g \in Orphans THEN NoGroup ELSE groups[g]]
          /\ UNCHANGED <<shot, born, reused>>
        BY <1>7 DEF PruneGroups, library, history
    <2>2. \A g \in Memories' : g \in Memories /\ groups'[g] = groups[g]
        BY <2>1 DEF Memories
    <2> QED BY <2>1, <2>2 DEF TellInv, TellsItsPhotos, Rows
<1>8. CASE PageNext \/ UNCHANGED vars \/ AppRestart
    BY <1>1, <1>8 DEF PageNext, ReadList, ReadCard, Render, vars, AppRestart, library, memories, history
<1> QED BY <1>2, <1>3, <1>4, <1>5, <1>6, <1>7, <1>8 DEF Next, LibraryNext

LEMMA TellNext == TypeInv /\ TellInv /\ [Next]_vars => TellInv'
BY UploadTold, RowSteps, BuildToldNext, GroupsTell DEF TellInv

\* A memory shows only photos its story was told of (TellsItsPhotos), whatever is
\* uploaded, captioned, deleted, rebuilt or restarted in between, and by however many
\* builders: the foreign key refuses a build that kept a photo which is gone.
THEOREM StoryIsOfItsPhotos == Spec => []TellsItsPhotos
<1>1. Init => TellInv
    <2>1. Init => /\ \A b \in Builders : todo[b] = <<>> /\ kept[b] = <<>>
                  /\ Memories = {}
        BY DEF Init, NoWork, Memories
    <2> QED BY <2>1 DEF TellInv, BuildTold, TellsItsPhotos
<1>2. TellInv => TellsItsPhotos
    BY DEF TellInv
<1> QED BY <1>1, <1>2, TypeInit, TypeNext, TellNext, PTL DEF Spec
-----------------------------------------------------------------------------
(* The cuts of the seeding.                                                *)

LEMMA LeastPlace ==
    ASSUME NEW S \in SUBSET Nat, S # {}
    PROVE  \E m \in S : \A n \in S : m <= n
<1>1. IsWellFoundedOn(LessThan, Nat)
    BY NatLessThanWellFounded, Zenon DEF LessThan
<1>2. \A m, n \in Nat : m < n => <<m, n>> \in LessThan
    BY DEF LessThan, OpToRel
<1>3. PICK m \in S : \A n \in S : ~(<<n, m>> \in LessThan)
    BY <1>1, WFMin
<1>4. ASSUME NEW n \in S PROVE m <= n
    <2>1. ~(n < m)
        BY <1>2, <1>3
    <2> QED BY <2>1
<1> QED BY <1>4

LEMMA CaptionedFinite ==
    ASSUME LibraryTyped
    PROVE  /\ IsFiniteSet(captioned) /\ Cardinality(captioned) \in Nat
           /\ captioned \subseteq Ids
           /\ \A i \in captioned : i \in Nat /\ shot[i].time \in Nat
<1>1. captioned \subseteq Ids /\ \A i \in captioned : shot[i] \in Shots
    BY DEF LibraryTyped, Rows
<1> QED BY <1>1, IdsAreNumbers, MemoriesAssumption, FS_Subset, FS_CardinalityType

\* Earlier is a strict order of the captioned photos.
LEMMA TimesOrder ==
    ASSUME LibraryTyped, NEW i \in captioned, NEW j \in captioned
    PROVE  /\ ~Earlier(i, i)
           /\ i = j \/ Earlier(i, j) \/ Earlier(j, i)
           /\ Earlier(i, j) => ~Earlier(j, i)
           /\ \A k \in captioned : Earlier(i, k) /\ Earlier(k, j) => Earlier(i, j)
BY CaptionedFinite DEF Earlier

LEMMA PlaceType ==
    ASSUME LibraryTyped, NEW i \in captioned
    PROVE  Place(i) \in 1..Cardinality(captioned)
<1> DEFINE Upto == {k \in captioned : ~Earlier(i, k)}
<1>1. i \in Upto /\ Upto \in SUBSET captioned
    BY TimesOrder
<1>2. IsFiniteSet(Upto) /\ Cardinality(Upto) <= Cardinality(captioned)
    BY <1>1, CaptionedFinite, FS_Subset
<1>3. Cardinality(Upto) \in Nat /\ Cardinality(Upto) # 0
    BY <1>1, <1>2, FS_CardinalityType, FS_EmptySet
<1>4. Place(i) = Cardinality(Upto)
    BY DEF Place
<1> HIDE DEF Upto
<1> QED BY <1>2, <1>3, <1>4, CaptionedFinite

LEMMA LaterPlace ==
    ASSUME LibraryTyped, NEW i \in captioned, NEW j \in captioned, Earlier(i, j)
    PROVE  Place(i) < Place(j)
<1> DEFINE Upto(p) == {k \in captioned : ~Earlier(p, k)}
<1>1. j \in Upto(j) \ Upto(i)
    BY TimesOrder
<1>2. ASSUME NEW k \in captioned, ~Earlier(i, k) PROVE ~Earlier(j, k)
    BY <1>2, TimesOrder
<1>3. Upto(i) \in SUBSET Upto(j) /\ Upto(j) \in SUBSET captioned
    BY <1>2
<1>4. IsFiniteSet(Upto(j))
    BY <1>3, CaptionedFinite, FS_Subset
<1>5. /\ Cardinality(Upto(i)) <= Cardinality(Upto(j))
      /\ Cardinality(Upto(j)) = Cardinality(Upto(i)) => Upto(i) = Upto(j)
    BY <1>3, <1>4, FS_Subset
<1>6. Cardinality(Upto(i)) = Place(i) /\ Cardinality(Upto(j)) = Place(j)
    BY DEF Place
<1>7. Place(i) \in Nat /\ Place(j) \in Nat
    BY PlaceType, CaptionedFinite
<1>8. Upto(i) # Upto(j)
    BY <1>1
<1> HIDE DEF Upto
<1> QED BY <1>5, <1>6, <1>7, <1>8

LEMMA PlaceOrder ==
    ASSUME LibraryTyped, NEW i \in captioned, NEW j \in captioned
    PROVE  /\ Place(i) < Place(j) <=> Earlier(i, j)
           /\ Place(i) = Place(j) <=> i = j
<1>1. Place(i) \in Nat /\ Place(j) \in Nat
    BY PlaceType, CaptionedFinite
<1>2. CASE i = j
    BY <1>1, <1>2, TimesOrder
<1>3. CASE Earlier(i, j)
    BY <1>1, <1>3, LaterPlace, TimesOrder
<1>4. CASE Earlier(j, i)
    BY <1>1, <1>4, LaterPlace, TimesOrder
<1> QED BY <1>2, <1>3, <1>4, TimesOrder

\* The photos by time: each has its place, and each place has one.
LEMMA TimeOrder ==
    ASSUME LibraryTyped
    PROVE  /\ ByTime \in Seq(captioned) /\ Len(ByTime) = Cardinality(captioned)
           /\ DOMAIN ByTime = 1..Cardinality(captioned)
           /\ \A n \in 1..Cardinality(captioned) : ByTime[n] \in captioned /\ Place(ByTime[n]) = n
           /\ \A i \in captioned : ByTime[Place(i)] = i
<1> DEFINE N == Cardinality(captioned)
           place == [i \in captioned |-> Place(i)]
<1>1. N \in Nat /\ IsFiniteSet(captioned)
    BY CaptionedFinite
<1>2. place \in [captioned -> 1..N]
    BY PlaceType
<1>3. \A i, j \in captioned : place[i] = place[j] => i = j
    BY PlaceOrder
<1>4. place \in Injection(captioned, 1..N)
    BY <1>2, <1>3 DEF Injection, IsInjective
<1>5. IsFiniteSet(1..N) /\ Cardinality(1..N) = N
    BY <1>1, FS_Interval
<1>6. place \in Surjection(captioned, 1..N)
    <2> HIDE DEF place
    <2> QED BY <1>4, <1>5, <1>1, FS_Injection
<1>7. ASSUME NEW n \in 1..N PROVE ByTime[n] \in captioned /\ Place(ByTime[n]) = n
    <2>1. \E i \in captioned : place[i] = n
        BY <1>6 DEF Surjection
    <2>2. \E i \in captioned : Place(i) = n
        BY <2>1
    <2> QED BY <2>2 DEF ByTime
<1>8. ASSUME NEW i \in captioned PROVE ByTime[Place(i)] = i
    <2>1. Place(i) \in 1..N
        BY PlaceType
    <2> QED BY <1>7, <2>1, PlaceOrder
<1>9. DOMAIN ByTime = 1..N /\ ByTime \in [1..N -> captioned]
    <2>1. \A f : f = [n \in 1..N |-> CHOOSE i \in captioned : Place(i) = n] => f = [n \in 1..N |-> f[n]]
        OBVIOUS
    <2>2. ByTime = [n \in 1..N |-> ByTime[n]]
        BY <2>1 DEF ByTime
    <2> QED BY <1>7, <2>2
<1> QED BY <1>1, <1>7, <1>8, <1>9

-----------------------------------------------------------------------------

Count == Cardinality(captioned)

\* Any places have a greatest one.
LEMMA LastPlace ==
    ASSUME LibraryTyped, NEW S \in SUBSET (1..Count), S # {}
    PROVE  \E m \in S : \A n \in S : n <= m
<1>1. Count <= Cardinality(Ids)
    BY CaptionedFinite, IdsAreNumbers, FS_Subset DEF Count
<1>2. 1..Count \subseteq Ids
    BY <1>1, IdsAreNumbers, CaptionedFinite DEF Count
<1> QED BY <1>2, GreatestRow

CellAt(n) == shot[ByTime[n]].cell

\* The places up to n whose photo is located.
LocatedTo(n) == {m \in 1..n : CellAt(m) # NoCell}

Greatest(S) == CHOOSE m \in S : \A n \in S : n <= m

\* The cell that the pass carries past the n-th photo: the last one there was.
Carry == [n \in 0..Count |-> IF LocatedTo(n) = {} THEN NoCell ELSE CellAt(Greatest(LocatedTo(n)))]

LEMMA GreatestIs ==
    ASSUME NEW S \in SUBSET Nat, NEW m \in S, \A n \in S : n <= m
    PROVE  Greatest(S) = m
<1>1. \A k \in S : (\A n \in S : n <= k) => k = m
    OBVIOUS
<1> QED BY <1>1 DEF Greatest

Pass(last) ==
    last = [n \in 0..Count |-> IF n = 0 THEN NoCell
                               ELSE IF CellAt(n) # NoCell THEN CellAt(n) ELSE last[n - 1]]

LEMMA CarryPasses ==
    ASSUME LibraryTyped
    PROVE  Pass(Carry)
<1>1. Count \in Nat
    BY CaptionedFinite DEF Count
<1>2. ASSUME NEW n \in 0..Count
      PROVE  Carry[n] = IF n = 0 THEN NoCell ELSE IF CellAt(n) # NoCell THEN CellAt(n) ELSE Carry[n - 1]
    <2>1. CASE n = 0
        BY <2>1 DEF Carry, LocatedTo
    <2>2. CASE n # 0 /\ CellAt(n) # NoCell
        <3>1. n \in LocatedTo(n) /\ LocatedTo(n) \in SUBSET Nat /\ \A m \in LocatedTo(n) : m <= n
            BY <1>1, <2>2 DEF LocatedTo
        <3>2. Greatest(LocatedTo(n)) = n /\ LocatedTo(n) # {}
            BY <3>1, GreatestIs
        <3> QED BY <2>2, <3>2 DEF Carry
    <2>3. CASE n # 0 /\ CellAt(n) = NoCell
        <3>1. n - 1 \in 0..Count
            BY <1>1, <2>3
        <3>2. LocatedTo(n) = LocatedTo(n - 1)
            <4>1. \A m \in 1..n : m = n \/ m \in 1..(n - 1)
                OBVIOUS
            <4>2. \A m \in 1..(n - 1) : m \in 1..n
                OBVIOUS
            <4> QED BY <2>3, <4>1, <4>2 DEF LocatedTo
        <3> QED BY <2>3, <3>1, <3>2 DEF Carry
    <2> QED BY <2>1, <2>2, <2>3
<1> QED BY <1>2 DEF Pass, Carry

\* The pass computes it.
LEMMA CarriedCell ==
    ASSUME LibraryTyped
    PROVE  LastCells(ByTime) = Carry
<1> DEFINE last == LastCells(ByTime)
<1>1. Len(ByTime) = Count /\ Count \in Nat
    BY TimeOrder, CaptionedFinite DEF Count
<1>2. last = CHOOSE f : Pass(f)
    BY <1>1 DEF LastCells, Pass, CellAt
<1>3. Pass(last)
    BY <1>2, CarryPasses
<1> HIDE DEF last
<1> DEFINE Wrong == {n \in 0..Count : last[n] # Carry[n]}
<1>4. ASSUME Wrong # {} PROVE FALSE
    <2>1. Wrong \in SUBSET Nat
        BY <1>1
    <2>2. PICK n \in Wrong : \A m \in Wrong : n <= m
        <3> HIDE DEF Wrong
        <3> QED BY <1>4, <2>1, LeastPlace
    <2>3. n \in 0..Count /\ last[n] # Carry[n]
        BY <2>2
    <2>4. /\ last[n] = IF n = 0 THEN NoCell ELSE IF CellAt(n) # NoCell THEN CellAt(n) ELSE last[n - 1]
          /\ Carry[n] = IF n = 0 THEN NoCell ELSE IF CellAt(n) # NoCell THEN CellAt(n) ELSE Carry[n - 1]
        BY <1>3, <2>3, CarryPasses DEF Pass
    <2>5. n # 0 /\ last[n - 1] # Carry[n - 1]
        BY <2>3, <2>4
    <2>6. n - 1 \in 0..Count /\ ~(n <= n - 1)
        BY <1>1, <2>3, <2>5
    <2>7. n - 1 \in Wrong
        BY <2>5, <2>6
    <2> QED BY <2>2, <2>6, <2>7
<1>5. last = [n \in 0..Count |-> last[n]] /\ Carry = [n \in 0..Count |-> Carry[n]]
    BY <1>3, CarryPasses DEF Pass
<1>6. \A n \in 0..Count : last[n] = Carry[n]
    BY <1>4
<1>7. last = Carry
    BY <1>5, <1>6
<1> QED BY <1>7 DEF last

\* The last located photo before j fixes the region j is compared with.
LastCell(j) ==
    LET Before == {i \in Located : Earlier(i, j)}
    IN  IF Before = {} THEN NoCell
        ELSE shot[CHOOSE i \in Before : \A k \in Before : i = k \/ Earlier(k, i)].cell

\* It is what LastCell says of the photo that comes next.
LEMMA CarryIsLastCell ==
    ASSUME LibraryTyped, NEW j \in captioned
    PROVE  LastCell(j) = Carry[Place(j) - 1]
<1> DEFINE n == Place(j) - 1
           Before == {i \in Located : Earlier(i, j)}
<1>1. Count \in Nat /\ n \in 0..Count /\ Place(j) = n + 1 /\ Place(j) \in 1..Count
    BY PlaceType, CaptionedFinite DEF Count
<1>2. ASSUME NEW i \in Before PROVE Place(i) \in LocatedTo(n)
    <2>1. i \in captioned /\ shot[i].cell # NoCell /\ Place(i) < Place(j)
        BY <1>2, PlaceOrder DEF Located
    <2>2. Place(i) \in 1..Count /\ ByTime[Place(i)] = i
        BY <2>1, PlaceType, TimeOrder DEF Count
    <2> QED BY <1>1, <2>1, <2>2 DEF LocatedTo, CellAt
<1>3. ASSUME NEW m \in LocatedTo(n) PROVE ByTime[m] \in Before /\ Place(ByTime[m]) = m
    <2>1. m \in 1..Count /\ m < Place(j) /\ shot[ByTime[m]].cell # NoCell
        BY <1>1, <1>3 DEF LocatedTo, CellAt
    <2>2. ByTime[m] \in captioned /\ Place(ByTime[m]) = m
        BY <2>1, TimeOrder DEF Count
    <2> QED BY <2>1, <2>2, PlaceOrder DEF Located
<1>4. CASE Before = {}
    <2>1. LocatedTo(n) = {}
        BY <1>3, <1>4
    <2> QED BY <1>1, <1>4, <2>1 DEF LastCell, Carry
<1>5. CASE Before # {}
    <2>1. LocatedTo(n) # {} /\ LocatedTo(n) \in SUBSET (1..Count) /\ LocatedTo(n) \in SUBSET Nat
        BY <1>1, <1>2, <1>5 DEF LocatedTo
    <2>2. PICK m \in LocatedTo(n) : \A l \in LocatedTo(n) : l <= m
        BY <2>1, LastPlace
    <2>3. Greatest(LocatedTo(n)) = m
        BY <2>1, <2>2, GreatestIs
    <2> DEFINE i == ByTime[m]
    <2>4. i \in Before /\ Place(i) = m
        BY <1>3
    <2>5. ASSUME NEW k \in Before, k # i PROVE Earlier(k, i) /\ ~Earlier(i, k)
        <3>1. Place(k) <= m /\ k \in captioned /\ i \in captioned
            BY <1>2, <2>2, <2>4, <2>5 DEF Located
        <3>2. Place(k) # Place(i) /\ Place(k) \in Nat /\ Place(i) \in Nat
            BY <2>5, <3>1, PlaceOrder, PlaceType, CaptionedFinite
        <3> QED BY <2>4, <3>1, <3>2, PlaceOrder, TimesOrder
    <2>6. (CHOOSE p \in Before : \A k \in Before : p = k \/ Earlier(k, p)) = i
        <3>1. \A k \in Before : i = k \/ Earlier(k, i)
            BY <2>5
        <3>2. ASSUME NEW p \in Before, \A k \in Before : p = k \/ Earlier(k, p) PROVE p = i
            BY <2>4, <2>5, <3>2
        <3> HIDE DEF Before, i
        <3> QED BY <2>4, <3>1, <3>2
    <2>7. LastCell(j) = shot[i].cell
        BY <1>5, <2>6 DEF LastCell
    <2>8. Carry[n] = CellAt(m)
        BY <1>1, <2>1, <2>3 DEF Carry
    <2> QED BY <2>7, <2>8 DEF CellAt
<1> QED BY <1>4, <1>5

-----------------------------------------------------------------------------

\* The photo before j in time and j belong to one run.
Linked(i, j, home) ==
    LET here == shot[j].cell
        last == LastCell(j)
        stay == here = last /\ here \notin {NoCell, home}
    IN  /\ shot[j].time <= shot[i].time + (IF stay THEN TripGap ELSE EventGap)
        /\ NoCell \in {here, last} \/ here = last

Cuts == Breaks(ByTime, LastCells(ByTime), HomeRegion)

\* A photo begins a run unless it is linked to the one before it.
LEMMA CutIsNoLink ==
    ASSUME LibraryTyped, NEW n \in 1..Count
    PROVE  n \in Cuts <=> n = 1 \/ ~Linked(ByTime[n - 1], ByTime[n], HomeRegion)
<1> DEFINE j == ByTime[n]
           here == shot[j].cell
           last == LastCell(j)
           stay == here = last /\ here \notin {NoCell, HomeRegion}
<1>1. j \in captioned /\ Place(j) = n /\ n \in DOMAIN ByTime /\ Count \in Nat
    BY TimeOrder, CaptionedFinite DEF Count
<1>2. last = LastCells(ByTime)[n - 1]
    BY <1>1, CarryIsLastCell, CarriedCell
<1>3. n \in Cuts <=> \/ n = 1
                     \/ shot[j].time > shot[ByTime[n - 1]].time + Limit(here, last, HomeRegion)
                     \/ NoCell \notin {here, last} /\ here # last
    BY <1>1, <1>2 DEF Cuts, Breaks
<1>4. Limit(here, last, HomeRegion) = IF stay THEN TripGap ELSE EventGap
    BY DEF Limit
<1>5. ASSUME n # 1
      PROVE  shot[j].time > shot[ByTime[n - 1]].time + Limit(here, last, HomeRegion)
             <=> ~(shot[j].time <= shot[ByTime[n - 1]].time + (IF stay THEN TripGap ELSE EventGap))
    <2>1. n - 1 \in 1..Count
        BY <1>1, <1>5
    <2>2. ByTime[n - 1] \in captioned
        BY <2>1, TimeOrder DEF Count
    <2>3. shot[j].time \in Nat /\ shot[ByTime[n - 1]].time \in Nat
        BY <1>1, <2>2, CaptionedFinite
    <2>4. Limit(here, last, HomeRegion) \in Nat
        BY MemoriesAssumption DEF Limit
    <2> HIDE DEF stay, here, last, j
    <2> QED BY <1>4, <2>3, <2>4
<1>6. Linked(ByTime[n - 1], j, HomeRegion) <=>
        /\ shot[j].time <= shot[ByTime[n - 1]].time + (IF stay THEN TripGap ELSE EventGap)
        /\ NoCell \in {here, last} \/ here = last
    BY DEF Linked
<1> HIDE DEF j, here, last, stay
<1> QED BY <1>3, <1>5, <1>6 DEF j

LEMMA CutsArePlaces ==
    ASSUME LibraryTyped
    PROVE  Cuts \in SUBSET (1..Count) /\ (captioned # {} => 1 \in Cuts)
<1>1. Cuts \in SUBSET (1..Count) /\ (1 \in 1..Count => 1 \in Cuts)
    BY TimeOrder DEF Cuts, Breaks, Count
<1>2. ASSUME NEW i \in captioned PROVE 1 \in 1..Count
    BY PlaceType, CaptionedFinite DEF Count
<1> QED BY <1>1, <1>2

\* The run that begins at n has the photos for which n is the last cut.
LEMMA RunHas ==
    ASSUME LibraryTyped, NEW n, NEW i \in captioned
    PROVE  i \in RunFrom(Cuts, n) <=> n <= Place(i) /\ \A k \in Cuts : k <= Place(i) => k <= n
BY DEF RunFrom

LEMMA RunsAre == Runs = {RunFrom(Cuts, n) : n \in Cuts}
BY DEF Runs, Cuts

LEMMA EachInARun ==
    ASSUME LibraryTyped, NEW i \in captioned
    PROVE  \E n \in Cuts : i \in RunFrom(Cuts, n)
<1> DEFINE Upto == {k \in Cuts : k <= Place(i)}
<1>1. Place(i) \in 1..Count /\ Count \in Nat
    BY PlaceType, CaptionedFinite DEF Count
<1>2. Upto \in SUBSET (1..Count) /\ 1 \in Upto
    BY <1>1, CutsArePlaces
<1>3. PICK n \in Upto : \A k \in Upto : k <= n
    <2> HIDE DEF Upto
    <2> QED BY <1>2, LastPlace
<1> QED BY <1>3, RunHas

\* The whole library is in the runs, each of which has photos of one region only.
LEMMA OneRegion ==
    ASSUME LibraryTyped, NEW n \in Cuts, NEW i \in Located, NEW j \in Located,
           i \in RunFrom(Cuts, n), j \in RunFrom(Cuts, n), Place(i) < Place(j)
    PROVE  shot[i].cell = shot[j].cell
<1> DEFINE Moved == {m \in 1..Count : Place(i) < m /\ m <= Place(j) /\ CellAt(m) \notin {NoCell, shot[i].cell}}
<1> SUFFICES ASSUME shot[i].cell # shot[j].cell PROVE FALSE
    OBVIOUS
<1>1. i \in captioned /\ j \in captioned /\ shot[i].cell # NoCell /\ shot[j].cell # NoCell
    BY DEF Located
<1>2. Place(i) \in 1..Count /\ Place(j) \in 1..Count /\ Count \in Nat /\ n \in 1..Count
    BY <1>1, PlaceType, CaptionedFinite, CutsArePlaces DEF Count
<1>3. CellAt(Place(i)) = shot[i].cell /\ CellAt(Place(j)) = shot[j].cell
    BY <1>1, TimeOrder DEF CellAt
<1>4. Place(j) \in Moved /\ Moved \in SUBSET Nat
    BY <1>1, <1>2, <1>3
<1>5. PICK m \in Moved : \A l \in Moved : m <= l
    <2> HIDE DEF Moved
    <2> QED BY <1>4, LeastPlace
<1>6. m \in 1..Count /\ Place(i) < m /\ m <= Place(j) /\ CellAt(m) # NoCell /\ CellAt(m) # shot[i].cell
    BY <1>5
<1>7. Place(i) \in LocatedTo(m - 1) /\ LocatedTo(m - 1) \in SUBSET (1..Count) /\ LocatedTo(m - 1) \in SUBSET Nat
    BY <1>1, <1>2, <1>3, <1>6 DEF LocatedTo
<1>8. PICK l \in LocatedTo(m - 1) : \A k \in LocatedTo(m - 1) : k <= l
    BY <1>7, LastPlace
<1>9. CellAt(l) = shot[i].cell
    <2>1. l \in 1..Count /\ l < m /\ Place(i) <= l /\ CellAt(l) # NoCell
        BY <1>2, <1>6, <1>7, <1>8 DEF LocatedTo
    <2>2. CASE l = Place(i)
        BY <1>3, <2>2
    <2>3. CASE Place(i) < l
        <3>1. l \notin Moved
            BY <1>5, <1>6, <2>1
        <3>2. l <= Place(j)
            BY <1>2, <1>6, <2>1
        <3> QED BY <2>1, <2>3, <3>1, <3>2
    <2> QED BY <1>2, <2>1, <2>2, <2>3
<1>10. LastCell(ByTime[m]) = shot[i].cell
    <2>1. ByTime[m] \in captioned /\ Place(ByTime[m]) = m
        BY <1>6, TimeOrder DEF Count
    <2>2. Greatest(LocatedTo(m - 1)) = l
        BY <1>7, <1>8, GreatestIs
    <2>3. m - 1 \in 0..Count
        BY <1>2, <1>6
    <2>4. Carry[m - 1] = CellAt(l)
        BY <1>7, <2>2, <2>3 DEF Carry
    <2> QED BY <1>9, <2>1, <2>4, CarryIsLastCell
<1>11. ~Linked(ByTime[m - 1], ByTime[m], HomeRegion)
    BY <1>1, <1>6, <1>10 DEF Linked, CellAt
<1>12. m \in Cuts
    BY <1>6, <1>11, CutIsNoLink
<1>13. m <= n /\ n <= Place(i)
    BY <1>1, <1>6, <1>12, RunHas
<1> QED BY <1>2, <1>6, <1>13

\* Two neighbours are in one run exactly if they are linked.
LEMMA NeighboursTogether ==
    ASSUME LibraryTyped, NEW i \in captioned, NEW j \in captioned, Adjacent(i, j)
    PROVE  (\E n \in Cuts : {i, j} \subseteq RunFrom(Cuts, n)) <=> Linked(i, j, HomeRegion)
<1>1. Place(i) \in 1..Count /\ Place(j) \in 1..Count /\ Count \in Nat /\ Place(i) < Place(j)
    BY PlaceType, PlaceOrder, CaptionedFinite DEF Count, Adjacent
<1>2. Place(j) = Place(i) + 1
    <2>1. SUFFICES ASSUME Place(i) + 1 < Place(j) PROVE FALSE
        BY <1>1
    <2> DEFINE k == ByTime[Place(i) + 1]
    <2>2. Place(i) + 1 \in 1..Count
        BY <1>1, <2>1
    <2>3. k \in captioned /\ Place(k) = Place(i) + 1
        BY <2>2, TimeOrder DEF Count
    <2> HIDE DEF k
    <2>4. Place(i) < Place(k) /\ Place(k) < Place(j)
        BY <1>1, <2>1, <2>3
    <2> QED BY <2>3, <2>4, PlaceOrder DEF Adjacent
<1>3. ByTime[Place(j) - 1] = i /\ ByTime[Place(j)] = j /\ Place(j) # 1
    <2>1. Place(j) - 1 = Place(i)
        BY <1>1, <1>2
    <2> QED BY <1>1, <1>2, <2>1, TimeOrder
<1>4. Place(j) \in Cuts <=> ~Linked(i, j, HomeRegion)
    BY <1>1, <1>3, CutIsNoLink
<1>5. ASSUME NEW n \in Cuts, i \in RunFrom(Cuts, n), j \in RunFrom(Cuts, n) PROVE Place(j) \notin Cuts
    <2>1. n <= Place(i) /\ (Place(j) \in Cuts => Place(j) <= n)
        BY <1>1, <1>5, RunHas
    <2>2. n \in Nat
        BY <1>5, CutsArePlaces
    <2> QED BY <1>1, <2>1, <2>2
<1>6. ASSUME Place(j) \notin Cuts PROVE \E n \in Cuts : i \in RunFrom(Cuts, n) /\ j \in RunFrom(Cuts, n)
    <2>1. PICK n \in Cuts : i \in RunFrom(Cuts, n)
        BY EachInARun
    <2>2. n <= Place(i) /\ \A k \in Cuts : k <= Place(i) => k <= n
        BY <2>1, RunHas
    <2>3. \A k \in Cuts : k \in Nat
        BY CutsArePlaces
    <2>4. \A k \in Cuts : k <= Place(j) => k <= Place(i)
        BY <1>1, <1>2, <1>6, <2>3
    <2>5. n <= Place(j) /\ \A k \in Cuts : k <= Place(j) => k <= n
        BY <1>1, <2>2, <2>3, <2>4
    <2> QED BY <2>1, <2>5, RunHas
<1> QED BY <1>4, <1>5, <1>6

\* A run has whatever lies between two of its photos.
LEMMA NothingBetween ==
    ASSUME LibraryTyped, NEW i \in captioned, NEW k \in captioned, NEW n \in Cuts,
           i \in RunFrom(Cuts, n), k \in RunFrom(Cuts, n)
    PROVE  Between(i, k) \subseteq RunFrom(Cuts, n)
<1> SUFFICES ASSUME NEW j \in Between(i, k) PROVE j \in RunFrom(Cuts, n)
    OBVIOUS
<1>1. j \in captioned /\ ~Earlier(j, i) /\ ~Earlier(k, j)
    BY DEF Between
<1>2. Place(i) \in Nat /\ Place(j) \in Nat /\ Place(k) \in Nat /\ \A c \in Cuts : c \in Nat
    BY <1>1, PlaceType, CaptionedFinite, CutsArePlaces
<1>3. Place(i) <= Place(j) /\ Place(j) <= Place(k)
    BY <1>1, <1>2, PlaceOrder
<1>4. n <= Place(i) /\ \A c \in Cuts : c <= Place(k) => c <= n
    BY RunHas
<1>5. n <= Place(j) /\ \A c \in Cuts : c <= Place(j) => c <= n
    BY <1>2, <1>3, <1>4
<1> QED BY <1>1, <1>5, RunHas

\* No photo is in two runs.
LEMMA RunsApart ==
    ASSUME LibraryTyped, NEW i \in captioned, NEW m \in Cuts, NEW n \in Cuts,
           i \in RunFrom(Cuts, m), i \in RunFrom(Cuts, n)
    PROVE  m = n
<1>1. m \in Nat /\ n \in Nat
    BY CutsArePlaces
<1>2. m <= n /\ n <= m
    BY RunHas
<1> QED BY <1>1, <1>2

\* No run has a gap that no trip has, and one that stays at home has no gap that
\* ends an event.
LEMMA GapsOfRuns ==
    ASSUME LibraryTyped, NEW n \in Cuts,
           NEW i \in RunFrom(Cuts, n), NEW j \in RunFrom(Cuts, n), Adjacent(i, j)
    PROVE  /\ shot[j].time <= shot[i].time + TripGap
           /\ shot[j].cell \in {NoCell, HomeRegion} => shot[j].time <= shot[i].time + EventGap
<1>1. i \in captioned /\ j \in captioned
    BY DEF RunFrom
<1>2. Linked(i, j, HomeRegion)
    BY <1>1, NeighboursTogether
<1>3. shot[i].time \in Nat /\ shot[j].time \in Nat
    BY <1>1, CaptionedFinite
<1>4. EventGap \in Nat /\ TripGap \in Nat /\ EventGap <= TripGap
    BY MemoriesAssumption
<1>5. \/ shot[j].time <= shot[i].time + TripGap /\ shot[j].cell \notin {NoCell, HomeRegion}
      \/ shot[j].time <= shot[i].time + EventGap
    BY <1>2 DEF Linked
<1> QED BY <1>3, <1>4, <1>5

\* The photos from i to j are in one run if no cut is between them.
LEMMA UncutTogether ==
    ASSUME LibraryTyped, NEW i \in captioned, NEW j \in captioned,
           \A m \in Cuts : ~(Place(i) < m /\ m <= Place(j))
    PROVE  \E n \in Cuts : Between(i, j) \subseteq RunFrom(Cuts, n)
<1>1. PICK n \in Cuts : i \in RunFrom(Cuts, n)
    BY EachInARun
<1>2. n <= Place(i) /\ \A c \in Cuts : c <= Place(i) => c <= n
    BY <1>1, RunHas
<1>3. ASSUME NEW k \in Between(i, j) PROVE k \in RunFrom(Cuts, n)
    <2>1. k \in captioned /\ ~Earlier(k, i) /\ ~Earlier(j, k)
        BY DEF Between
    <2>2. Place(i) \in Nat /\ Place(j) \in Nat /\ Place(k) \in Nat /\ \A c \in Cuts : c \in Nat
        BY <2>1, PlaceType, CaptionedFinite, CutsArePlaces
    <2>3. Place(i) <= Place(k) /\ Place(k) <= Place(j)
        BY <2>1, <2>2, PlaceOrder
    <2>4. n <= Place(k) /\ \A c \in Cuts : c <= Place(k) => c <= n
        BY <1>2, <2>2, <2>3
    <2> QED BY <2>1, <2>4, RunHas
<1> QED BY <1>3

\* A stretch of one region that begins with a located photo.
Stretch(i, j) ==
    \A k \in Between(i, j) : shot[k].cell \in {NoCell, shot[i].cell}

\* The cell that is carried through it is that of its first photo.
LEMMA CarriedThrough ==
    ASSUME LibraryTyped, NEW i \in Located, NEW j \in captioned, Stretch(i, j),
           NEW m \in 1..Count, Place(i) < m, m <= Place(j)
    PROVE  LastCell(ByTime[m]) = shot[i].cell
<1>1. i \in captioned /\ shot[i].cell # NoCell
    BY DEF Located
<1>2. Place(i) \in 1..Count /\ Place(j) \in 1..Count /\ Count \in Nat
    BY <1>1, PlaceType, CaptionedFinite DEF Count
<1>3. CellAt(Place(i)) = shot[i].cell
    BY <1>1, TimeOrder DEF CellAt
<1>4. Place(i) \in LocatedTo(m - 1) /\ LocatedTo(m - 1) \in SUBSET (1..Count) /\ LocatedTo(m - 1) \in SUBSET Nat
    BY <1>1, <1>2, <1>3 DEF LocatedTo
<1>5. PICK l \in LocatedTo(m - 1) : \A k \in LocatedTo(m - 1) : k <= l
    BY <1>4, LastPlace
<1>6. l \in 1..Count /\ l < m /\ Place(i) <= l /\ CellAt(l) # NoCell
    BY <1>2, <1>4, <1>5 DEF LocatedTo
<1>7. ByTime[l] \in captioned /\ Place(ByTime[l]) = l
    BY <1>6, TimeOrder DEF Count
<1>8. ByTime[l] \in Between(i, j)
    <2>1. ~(Place(ByTime[l]) < Place(i)) /\ ~(Place(j) < Place(ByTime[l]))
        BY <1>2, <1>6, <1>7
    <2> QED BY <1>1, <1>7, <2>1, PlaceOrder DEF Between
<1>9. CellAt(l) = shot[i].cell
    BY <1>6, <1>8 DEF Stretch, CellAt
<1>10. Greatest(LocatedTo(m - 1)) = l
    BY <1>4, <1>5, GreatestIs
<1>11. Carry[m - 1] = CellAt(l)
    <2>1. m - 1 \in 0..Count
        BY <1>2
    <2> QED BY <1>4, <1>10, <2>1 DEF Carry
<1>12. ByTime[m] \in captioned /\ Place(ByTime[m]) = m
    BY TimeOrder DEF Count
<1> QED BY <1>9, <1>11, <1>12, CarryIsLastCell

\* And nothing cuts it, if its gaps are within the limit of what it is.
LEMMA StretchUncut ==
    ASSUME LibraryTyped, NEW i \in Located, NEW j \in captioned, Stretch(i, j),
           NEW limit \in {EventGap, TripGap}, GapsWithin(Between(i, j), limit),
           limit = EventGap \/ (Between(i, j) \subseteq Located /\ shot[i].cell # HomeRegion)
    PROVE  \E n \in Cuts : Between(i, j) \subseteq RunFrom(Cuts, n)
<1>1. i \in captioned /\ shot[i].cell # NoCell
    BY DEF Located
<1>2. Place(i) \in 1..Count /\ Place(j) \in 1..Count /\ Count \in Nat
    BY <1>1, PlaceType, CaptionedFinite DEF Count
<1>3. ASSUME NEW m \in Cuts, Place(i) < m, m <= Place(j) PROVE FALSE
    <2> DEFINE k == ByTime[m - 1]
               l == ByTime[m]
    <2>1. m \in 1..Count /\ m - 1 \in 1..Count
        BY <1>2, <1>3, CutsArePlaces
    <2>2. k \in captioned /\ Place(k) = m - 1 /\ l \in captioned /\ Place(l) = m
        BY <2>1, TimeOrder DEF Count
    <2>3. LastCell(l) = shot[i].cell
        BY <1>3, <2>1, CarriedThrough
    <2>4. ~Linked(k, l, HomeRegion)
        BY <1>2, <1>3, <2>1, CutIsNoLink
    <2> HIDE DEF k, l
    <2>5. k \in Between(i, j) /\ l \in Between(i, j)
        <3>1. ~(Place(k) < Place(i)) /\ ~(Place(j) < Place(k))
            BY <1>2, <1>3, <2>1, <2>2
        <3>2. ~(Place(l) < Place(i)) /\ ~(Place(j) < Place(l))
            BY <1>2, <1>3, <2>1, <2>2
        <3> QED BY <1>1, <2>2, <3>1, <3>2, PlaceOrder DEF Between
    <2>6. Adjacent(k, l)
        <3>1. Place(k) < Place(l)
            BY <2>1, <2>2
        <3>2. ASSUME NEW c \in captioned, Earlier(k, c), Earlier(c, l) PROVE FALSE
            <4>1. Place(k) < Place(c) /\ Place(c) < Place(l)
                BY <2>2, <3>2, PlaceOrder
            <4>2. Place(c) \in Nat
                BY PlaceType, <1>2 DEF Count
            <4> QED BY <2>1, <2>2, <4>1, <4>2
        <3> QED BY <2>2, <3>1, <3>2, PlaceOrder DEF Adjacent
    <2>7. shot[l].time <= shot[k].time + limit
        BY <2>5, <2>6 DEF GapsWithin
    <2>8. shot[l].time \in Nat /\ shot[k].time \in Nat /\ EventGap \in Nat /\ TripGap \in Nat /\ EventGap <= TripGap
        BY <2>2, CaptionedFinite, MemoriesAssumption
    <2>9. shot[l].cell \in {NoCell, shot[i].cell}
        BY <2>5 DEF Stretch
    <2>10. CASE limit = EventGap
        <3>1. shot[l].time <= shot[k].time + EventGap /\ shot[l].time <= shot[k].time + TripGap
            BY <2>7, <2>8, <2>10
        <3> QED BY <2>3, <2>4, <2>9, <3>1 DEF Linked
    <2>11. CASE limit = TripGap /\ Between(i, j) \subseteq Located /\ shot[i].cell # HomeRegion
        <3>1. shot[l].cell = shot[i].cell
            BY <2>5, <2>9, <2>11 DEF Located
        <3> QED BY <1>1, <2>3, <2>4, <2>7, <2>11, <3>1 DEF Linked
    <2> QED BY <2>10, <2>11
<1>4. \A m \in Cuts : ~(Place(i) < m /\ m <= Place(j))
    BY <1>3
<1> QED BY <1>1, <1>4, UncutTogether

LEMMA CutsSound == LibraryTyped => SeedsSound
<1> SUFFICES ASSUME LibraryTyped PROVE SeedsSound
    OBVIOUS
<1> DEFINE Cells(S) == {shot[i].cell : i \in S} \ {NoCell}
<1>0. \A n \in Cuts : RunFrom(Cuts, n) \subseteq captioned
    BY DEF RunFrom
<1>1. \A i \in captioned : \E part \in Runs : i \in part
    BY RunsAre, EachInARun
<1>2. \A part, other \in Runs : part = other \/ part \cap other = {}
    BY <1>0, RunsAre, RunsApart
<1>3. ASSUME NEW part \in Runs
      PROVE  /\ \A i, j \in part : Between(i, j) \subseteq part
             /\ \A i, j \in part \cap Located : shot[i].cell = shot[j].cell
             /\ GapsWithin(part, TripGap)
             /\ Cells(part) \subseteq {HomeRegion} => GapsWithin(part, EventGap)
    <2>1. PICK n \in Cuts : part = RunFrom(Cuts, n)
        BY RunsAre
    <2>2. \A i, j \in part : Between(i, j) \subseteq part
        BY <1>0, <2>1, NothingBetween
    <2>3. ASSUME NEW i \in part \cap Located, NEW j \in part \cap Located PROVE shot[i].cell = shot[j].cell
        <3>1. i \in captioned /\ j \in captioned
            BY DEF Located
        <3>2. Place(i) \in Nat /\ Place(j) \in Nat
            BY <3>1, PlaceType, CaptionedFinite
        <3>3. CASE Place(i) = Place(j)
            BY <3>1, <3>3, PlaceOrder
        <3>4. CASE Place(i) < Place(j)
            BY <2>1, <3>4, OneRegion
        <3>5. CASE Place(j) < Place(i)
            BY <2>1, <3>5, OneRegion
        <3> QED BY <3>2, <3>3, <3>4, <3>5
    <2>4. GapsWithin(part, TripGap)
        BY <2>1, GapsOfRuns DEF GapsWithin
    <2>5. ASSUME Cells(part) \subseteq {HomeRegion} PROVE GapsWithin(part, EventGap)
        <3>1. \A i \in part : shot[i].cell \in {NoCell, HomeRegion}
            BY <2>5
        <3> QED BY <2>1, <3>1, GapsOfRuns DEF GapsWithin
    <2> HIDE DEF Cells
    <2> QED BY <2>2, <2>3, <2>4, <2>5
<1>4. ASSUME NEW i \in Located, NEW j \in captioned,
             Cells(Between(i, j)) \subseteq {shot[i].cell},
             GapsWithin(Between(i, j),
                        IF Between(i, j) \subseteq Located /\ shot[i].cell # HomeRegion THEN TripGap ELSE EventGap)
      PROVE  \E part \in Runs : Between(i, j) \subseteq part
    <2>1. Stretch(i, j)
        BY <1>4 DEF Stretch
    <2>2. PICK limit \in {EventGap, TripGap} :
            /\ GapsWithin(Between(i, j), limit)
            /\ limit = EventGap \/ (Between(i, j) \subseteq Located /\ shot[i].cell # HomeRegion)
        BY <1>4
    <2>3. \E n \in Cuts : Between(i, j) \subseteq RunFrom(Cuts, n)
        BY <2>1, <2>2, StretchUncut
    <2> QED BY <2>3, RunsAre
<1> QED BY <1>1, <1>2, <1>3, <1>4 DEF SeedsSound

\* The candidates of a build are whole stays and whole days (SeedsSound), for any
\* photos, times, regions and limits: what the one pass decides photo by photo, with the
\* cell it carries, amounts to what the docstring says of each candidate.
THEOREM StaysAreWhole == Spec => []SeedsSound
<1>1. TypeInv => SeedsSound
    BY CutsSound DEF TypeInv
<1> QED BY <1>1, TypeInit, TypeNext, PTL DEF Spec
=============================================================================
