---------------------------- MODULE BrowseProofs ----------------------------
(***************************************************************************)
(* What holds of browsing for any library and any page size: a grid that   *)
(* is scrolled while photos arrive skips none, a thumbnail of a strip      *)
(* opens with its reasons unless others pushed it out meanwhile, and they  *)
(* are those of the score that put it there.  And of the scores: they grow *)
(* with the evidence, so looser gates lose no match and more data loses    *)
(* one to nearer photos only, and the floor is above what a moment gives.  *)
(***************************************************************************)
EXTENDS Browse, TLAPS, FiniteSetTheorems, SequenceTheorems, WellFoundedInduction

-----------------------------------------------------------------------------
(* The order of the grid.                                                  *)

LEMMA PhotosFinite ==
    ASSUME NEW S \in SUBSET Photos
    PROVE  S \subseteq Nat /\ IsFiniteSet(S) /\ Cardinality(S) \in Nat
<1>1. S \subseteq Nat /\ IsFiniteSet(Photos)
    BY SimilarAssumption
<1>2. IsFiniteSet(S)
    BY <1>1, FS_Subset
<1> QED BY <1>1, <1>2, FS_CardinalityType

\* The photos that a photo comes after.
Newer(rows, p) == {r \in rows : r > p}

LEMMA FewerAreNewer ==
    ASSUME NEW rows \in SUBSET Photos, NEW p \in rows
    PROVE  /\ Cardinality(Newer(rows, p)) \in Nat
           /\ Cardinality(Newer(rows, p)) < Cardinality(rows)
<1>1. Newer(rows, p) \in SUBSET rows /\ p \notin Newer(rows, p) /\ IsFiniteSet(rows)
    BY PhotosFinite DEF Newer
<1>2. /\ Cardinality(Newer(rows, p)) <= Cardinality(rows)
      /\ Cardinality(rows) = Cardinality(Newer(rows, p)) => rows = Newer(rows, p)
      /\ IsFiniteSet(Newer(rows, p))
    BY <1>1, FS_Subset
<1>3. Cardinality(Newer(rows, p)) \in Nat /\ Cardinality(rows) \in Nat
    BY <1>2, FS_CardinalityType, PhotosFinite
<1> QED BY <1>1, <1>2, <1>3

\* No two photos come after equally many.
LEMMA NewerDiffers ==
    ASSUME NEW rows \in SUBSET Photos, NEW p \in rows, NEW r \in rows, r > p
    PROVE  Cardinality(Newer(rows, r)) < Cardinality(Newer(rows, p))
<1>1. p \in Nat /\ r \in Nat /\ \A k \in rows : k \in Nat
    BY PhotosFinite
<1>2. Newer(rows, r) \in SUBSET Newer(rows, p) /\ r \in Newer(rows, p) \ Newer(rows, r)
    <2>1. \A k \in rows : k > r => k > p
        BY <1>1
    <2>2. ~(r > r)
        BY <1>1
    <2> QED BY <2>1, <2>2 DEF Newer
<1>3. IsFiniteSet(Newer(rows, p))
    BY PhotosFinite, FS_Subset DEF Newer
<1>4. /\ Cardinality(Newer(rows, r)) <= Cardinality(Newer(rows, p))
      /\ Cardinality(Newer(rows, p)) = Cardinality(Newer(rows, r)) => Newer(rows, p) = Newer(rows, r)
    BY <1>2, <1>3, FS_Subset
<1>5. Cardinality(Newer(rows, p)) \in Nat /\ Cardinality(Newer(rows, r)) \in Nat
    BY FewerAreNewer
<1> QED BY <1>2, <1>4, <1>5

NewestFirst(rows) ==
    [n \in 1..Cardinality(rows) |-> CHOOSE p \in rows : Cardinality(Newer(rows, p)) = n - 1]

\* Every photo has its place in the order ..
LEMMA InPlace ==
    ASSUME NEW rows \in SUBSET Photos, NEW p \in rows
    PROVE  NewestFirst(rows)[Cardinality(Newer(rows, p)) + 1] = p
<1> DEFINE n == Cardinality(Newer(rows, p)) + 1
<1>1. n \in 1..Cardinality(rows) /\ n - 1 = Cardinality(Newer(rows, p))
    BY FewerAreNewer, PhotosFinite
<1>2. ASSUME NEW r \in rows, r # p PROVE Cardinality(Newer(rows, r)) # Cardinality(Newer(rows, p))
    <2>1. p \in Nat /\ r \in Nat
        BY PhotosFinite
    <2>2. CASE r > p
        BY <2>2, NewerDiffers, FewerAreNewer
    <2>3. CASE p > r
        BY <2>3, NewerDiffers, FewerAreNewer
    <2> QED BY <1>2, <2>1, <2>2, <2>3
<1>3. (CHOOSE r \in rows : Cardinality(Newer(rows, r)) = n - 1) = p
    BY <1>1, <1>2
<1> QED BY <1>1, <1>3 DEF NewestFirst

\* .. and every place a photo.
LEMMA OrderOfPhotos ==
    ASSUME NEW rows \in SUBSET Photos
    PROVE  /\ NewestFirst(rows) \in Seq(rows)
           /\ Len(NewestFirst(rows)) = Cardinality(rows)
<1> DEFINE N == Cardinality(rows)
           place == [p \in rows |-> Cardinality(Newer(rows, p)) + 1]
<1>1. N \in Nat /\ IsFiniteSet(rows)
    BY PhotosFinite
<1>2. place \in [rows -> 1..N]
    BY <1>1, FewerAreNewer
<1>3. \A p, r \in rows : place[p] = place[r] => p = r
    <2> SUFFICES ASSUME NEW p \in rows, NEW r \in rows, place[p] = place[r], p # r PROVE FALSE
        OBVIOUS
    <2>1. p \in Nat /\ r \in Nat
        BY PhotosFinite
    <2>2. Cardinality(Newer(rows, p)) \in Nat /\ Cardinality(Newer(rows, r)) \in Nat
        BY FewerAreNewer
    <2>3. CASE r > p
        BY <2>2, <2>3, NewerDiffers
    <2>4. CASE p > r
        BY <2>2, <2>4, NewerDiffers
    <2> QED BY <2>1, <2>3, <2>4
<1>4. place \in Injection(rows, 1..N)
    BY <1>2, <1>3 DEF Injection, IsInjective
<1>5. IsFiniteSet(1..N) /\ Cardinality(1..N) = N
    BY <1>1, FS_Interval
<1>6. place \in Surjection(rows, 1..N)
    <2> HIDE DEF place
    <2> QED BY <1>4, <1>5, FS_Injection
<1>7. ASSUME NEW n \in 1..N PROVE NewestFirst(rows)[n] \in rows
    <2>1. PICK p \in rows : place[p] = n
        BY <1>6 DEF Surjection
    <2> QED BY <2>1, InPlace
<1>8. \A f : f = [n \in 1..N |-> CHOOSE p \in rows : Cardinality(Newer(rows, p)) = n - 1]
              => f = [n \in 1..N |-> f[n]]
    OBVIOUS
<1>9. NewestFirst(rows) \in [1..N -> rows]
    BY <1>7, <1>8 DEF NewestFirst
<1> QED BY <1>1, <1>9

IsSlice(S, s, m, n) ==
    /\ SubSeq(s, m, n) \in Seq(S)
    /\ Len(SubSeq(s, m, n)) = IF m <= n THEN n - m + 1 ELSE 0
    /\ \A i \in 1..(n - m + 1) : SubSeq(s, m, n)[i] = s[m + i - 1]

LEMMA Slice ==
    ASSUME NEW S, NEW s \in Seq(S), NEW m \in Nat \ {0}, NEW n \in Int, n <= Len(s)
    PROVE  IsSlice(S, s, m, n)
BY DEF IsSlice

\* A page holds the photos whose place is in it; one that is not full is the last.
LEMMA PageHolds ==
    ASSUME library.rows \in SUBSET Photos, NEW offset \in Nat
    PROVE  /\ FetchPage(offset) \in Seq(Photos)
           /\ Len(FetchPage(offset)) # PageSize => Cardinality(library.rows) < offset + PageSize
           /\ \A p \in library.rows :
                 offset <= Cardinality(Newer(library.rows, p))
                 /\ Cardinality(Newer(library.rows, p)) < offset + PageSize
                 => p \in ToSet(FetchPage(offset))
<1> DEFINE rows == library.rows
           N == Cardinality(rows)
           last == IF N < offset + PageSize THEN N ELSE offset + PageSize
           s == NewestFirst(rows)
<1>1. s \in Seq(rows) /\ Len(s) = N /\ N \in Nat /\ PageSize \in Nat \ {0}
    BY OrderOfPhotos, PhotosFinite, BrowseAssumption
<1>2. FetchPage(offset) = SubSeq(s, offset + 1, last)
    BY <1>1 DEF FetchPage, OrderedIds, NewestFirst, Newer
<1> HIDE DEF s
<1>3. last \in Int /\ last <= Len(s) /\ offset + 1 \in Nat \ {0}
    BY <1>1
<1> HIDE DEF last
<1>4. /\ FetchPage(offset) \in Seq(rows)
      /\ Len(FetchPage(offset)) = IF offset + 1 <= last THEN last - offset ELSE 0
      /\ \A i \in 1..(last - offset) : FetchPage(offset)[i] = s[offset + i]
    <2> DEFINE m == offset + 1
    <2>1. m \in Nat \ {0}
        BY <1>3
    <2>2. FetchPage(offset) = SubSeq(s, m, last)
        BY <1>2
    <2> HIDE DEF m
    <2>3. /\ SubSeq(s, m, last) \in Seq(rows)
          /\ Len(SubSeq(s, m, last)) = IF m <= last THEN last - m + 1 ELSE 0
          /\ \A i \in 1..(last - m + 1) : SubSeq(s, m, last)[i] = s[m + i - 1]
        <3>1. IsSlice(rows, s, m, last)
            BY <1>1, <1>3, <2>1, Slice
        <3> QED BY <3>1 DEF IsSlice
    <2>4. last - m + 1 = last - offset /\ \A i \in Int : m + i - 1 = offset + i
        BY <1>3 DEF m
    <2>5. \A i \in 1..(last - offset) : FetchPage(offset)[i] = s[offset + i]
        <3>1. ASSUME NEW i \in 1..(last - offset) PROVE FetchPage(offset)[i] = s[offset + i]
            <4>1. i \in Int /\ i \in 1..(last - m + 1)
                BY <1>3, <2>4
            <4>2. SubSeq(s, m, last)[i] = s[m + i - 1] /\ m + i - 1 = offset + i
                BY <2>3, <2>4, <4>1
            <4> QED BY <2>2, <4>2
        <3> QED BY <3>1
    <2>6. Len(FetchPage(offset)) = IF offset + 1 <= last THEN last - offset ELSE 0
        BY <2>2, <2>3, <2>4 DEF m
    <2> QED BY <2>2, <2>3, <2>5, <2>6
<1>5. FetchPage(offset) \in Seq(Photos)
    BY <1>4, SeqMonotonic
<1>6. Len(FetchPage(offset)) # PageSize => N < offset + PageSize
    BY <1>1, <1>4 DEF last
<1>7. ASSUME NEW p \in rows, offset <= Cardinality(Newer(rows, p)), Cardinality(Newer(rows, p)) < offset + PageSize
      PROVE  p \in ToSet(FetchPage(offset))
    <2> DEFINE n == Cardinality(Newer(rows, p))
    <2>1. n \in Nat /\ n < N
        BY FewerAreNewer
    <2>2. n + 1 <= last /\ last \in Int
        BY <1>1, <1>7, <2>1 DEF last
    <2>3. n + 1 - offset \in 1..(last - offset) /\ offset + (n + 1 - offset) = n + 1
        BY <1>7, <2>1, <2>2
    <2>4. s[n + 1] = p
        BY InPlace DEF s
    <2>5. FetchPage(offset)[n + 1 - offset] = p
        BY <1>4, <2>3, <2>4
    <2>6. n + 1 - offset \in DOMAIN FetchPage(offset)
        <3>1. Len(FetchPage(offset)) = last - offset
            BY <1>4, <2>1, <2>2, <2>3
        <3> QED BY <1>4, <2>3, <3>1, LenProperties
    <2> QED BY <2>5, <2>6 DEF ToSet
<1> QED BY <1>5, <1>6, <1>7

-----------------------------------------------------------------------------
(* The library and the views.                                              *)

Library ==
    [rows : SUBSET Photos, embedded : SUBSET Photos, tagged : SUBSET Photos,
     described : SUBSET Photos, alike : [Others -> Profiles]]

TypeInv ==
    /\ library \in Library
    /\ view \in {"none", "grid", "photo", "match"}
    /\ grid \in Seq(Photos)
    /\ gone \in BOOLEAN /\ retagged \in BOOLEAN

\* e is d with more photos, or with more of them embedded or described.
MoreData(d, e) ==
    /\ e.tagged = d.tagged /\ e.alike = d.alike
    /\ d.rows \subseteq e.rows
    /\ d.embedded \subseteq e.embedded /\ d.described \subseteq e.described

\* What a change of the library may do.
LEMMA Changed ==
    ASSUME TypeInv, NEW p \in Photos,
           Arrive(p) \/ Leave(p) \/ Embed(p) \/ Tag(p) \/ Untag(p) \/ Describe(p)
    PROVE  /\ library' \in Library
           /\ UNCHANGED <<view, page>>
           /\ gone' \in BOOLEAN /\ retagged' \in BOOLEAN
           /\ ~gone' => ~gone /\ library.rows \subseteq library'.rows
           /\ ~gone' /\ ~retagged' => ~retagged /\ MoreData(library, library')
<1> USE DEF TypeInv, Library, MoreData
<1>1. ASSUME NEW next, NEW leaves \in BOOLEAN, NEW tags \in BOOLEAN, Change(next, leaves, tags),
             next \in Library,
             ~leaves => library.rows \subseteq next.rows,
             ~leaves /\ ~tags => MoreData(library, next)
      PROVE  /\ library' \in Library
             /\ UNCHANGED <<view, page>>
             /\ gone' \in BOOLEAN /\ retagged' \in BOOLEAN
             /\ ~gone' => ~gone /\ library.rows \subseteq library'.rows
             /\ ~gone' /\ ~retagged' => ~retagged /\ MoreData(library, library')
    <2>1. library' = next /\ UNCHANGED <<view, page>>
        BY <1>1 DEF Change
    <2>2. gone' = (gone \/ leaves) /\ retagged' = (retagged \/ tags)
        BY <1>1 DEF Change
    <2>3. /\ gone' \in BOOLEAN /\ retagged' \in BOOLEAN
          /\ ~gone' => ~gone /\ ~leaves
          /\ ~retagged' => ~retagged /\ ~tags
        BY <1>1, <2>2, Zenon
    <2> HIDE DEF MoreData
    <2> QED BY <1>1, <2>1, <2>3
<1>2. CASE Arrive(p)
    BY <1>1, <1>2 DEF Arrive
<1>3. CASE Leave(p)
    BY <1>1, <1>3 DEF Leave
<1>4. CASE Embed(p)
    BY <1>1, <1>4 DEF Embed
<1>5. CASE Tag(p)
    BY <1>1, <1>5 DEF Tag
<1>6. CASE Untag(p)
    BY <1>1, <1>6 DEF Untag
<1>7. CASE Describe(p)
    BY <1>1, <1>7 DEF Describe
<1> QED BY <1>2, <1>3, <1>4, <1>5, <1>6, <1>7

LEMMA TypeInit == Init => TypeInv
<1> SUFFICES ASSUME Init PROVE TypeInv
    OBVIOUS
<1>1. PICK stage \in [Photos -> 0..4], alike \in [Others -> Profiles] :
          library = [rows |-> At(stage, 1), embedded |-> At(stage, 2), tagged |-> At(stage, 3),
                     described |-> At(stage, 4), alike |-> alike]
    BY DEF Init
<1>2. \A n : At(stage, n) \in SUBSET Photos
    BY DEF At
<1>3. library \in Library
    BY <1>1, <1>2 DEF Library
<1>4. grid = <<>> /\ <<>> \in Seq(Photos) /\ view = "none" /\ gone = FALSE /\ retagged = FALSE
    BY EmptySeq DEF Init
<1> QED BY <1>3, <1>4 DEF TypeInv

\* The library is one of photos, and the views are made of them.
LEMMA TypeNext == TypeInv /\ [Next]_vars => TypeInv'
<1> SUFFICES ASSUME TypeInv, [Next]_vars PROVE TypeInv'
    OBVIOUS
<1>1. library.rows \in SUBSET Photos
    BY DEF TypeInv, Library
<1>2. CASE OpenGrid
    <2>1. grid' \in Seq(Photos)
        BY <1>1, <1>2, PageHolds DEF OpenGrid
    <2> QED BY <1>2, <2>1 DEF OpenGrid, TypeInv
<1>3. CASE Scroll
    <2>1. grid \in Seq(Photos) /\ Len(grid) \in Nat
        BY LenProperties DEF TypeInv
    <2>2. FetchPage(Len(grid)) \in Seq(Photos)
        BY <1>1, <2>1, PageHolds
    <2>3. grid' \in Seq(Photos)
        BY <1>3, <2>1, <2>2, ConcatProperties DEF Scroll
    <2> QED BY <1>3, <2>3 DEF Scroll, since, TypeInv
<1>4. CASE OpenPhoto \/ Close
    <2>1. grid' = <<>> /\ <<>> \in Seq(Photos)
        BY <1>4, EmptySeq DEF OpenPhoto, Close
    <2> QED BY <1>4, <2>1 DEF OpenPhoto, Close, TypeInv
<1>5. CASE ShowMore
    BY <1>5 DEF ShowMore, since, TypeInv
<1>6. ASSUME NEW p \in Others, NEW loose \in BOOLEAN, OpenMatch(p, loose) PROVE TypeInv'
    BY <1>6 DEF OpenMatch, since, TypeInv
<1>7. ASSUME NEW p \in Photos,
             Arrive(p) \/ Leave(p) \/ Embed(p) \/ Tag(p) \/ Untag(p) \/ Describe(p)
      PROVE  TypeInv'
    <2>1. library' \in Library /\ UNCHANGED <<view, page>> /\ gone' \in BOOLEAN /\ retagged' \in BOOLEAN
        BY <1>7, Changed
    <2> QED BY <2>1 DEF page, TypeInv
<1>8. CASE UNCHANGED vars
    BY <1>8 DEF vars, page, since, TypeInv
<1> QED BY <1>2, <1>3, <1>4, <1>5, <1>6, <1>7, <1>8 DEF Next

-----------------------------------------------------------------------------
(* The grid.                                                               *)

\* Of the photos that were there at first, the grid has those whose place is before its
\* end: a photo that arrives only moves them back.
GridInv ==
    view = "grid" /\ ~gone =>
        /\ first \subseteq library.rows
        /\ \A p \in first : Cardinality(Newer(library.rows, p)) < Len(grid) => p \in ToSet(grid)
        /\ ~more => first \subseteq ToSet(grid)

LEMMA NewerGrow ==
    ASSUME NEW rows \in SUBSET Photos, NEW later \in SUBSET Photos, rows \subseteq later, NEW p \in rows
    PROVE  Cardinality(Newer(rows, p)) <= Cardinality(Newer(later, p))
<1>1. Newer(rows, p) \in SUBSET Newer(later, p) /\ Newer(later, p) \in SUBSET Photos
    BY DEF Newer
<1> QED BY <1>1, PhotosFinite, FS_Subset

\* A page goes on where the grid ends.
LEMMA PageAdded ==
    ASSUME TypeInv, NEW g \in Seq(Photos), NEW S \in SUBSET library.rows,
           \A p \in S : Cardinality(Newer(library.rows, p)) < Len(g) => p \in ToSet(g)
    PROVE  LET longer == g \o FetchPage(Len(g))
           IN  /\ \A p \in S : Cardinality(Newer(library.rows, p)) < Len(longer) => p \in ToSet(longer)
               /\ Len(longer) # Len(g) + PageSize => S \subseteq ToSet(longer)
<1> DEFINE new == FetchPage(Len(g))
           longer == g \o new
           rank(p) == Cardinality(Newer(library.rows, p))
<1>1. library.rows \in SUBSET Photos /\ Len(g) \in Nat /\ PageSize \in Nat \ {0}
    BY LenProperties, BrowseAssumption DEF TypeInv, Library
<1>2. /\ new \in Seq(Photos)
      /\ Len(new) # PageSize => Cardinality(library.rows) < Len(g) + PageSize
      /\ \A p \in library.rows : Len(g) <= rank(p) /\ rank(p) < Len(g) + PageSize => p \in ToSet(new)
    BY <1>1, PageHolds
<1>3. \A p \in library.rows : rank(p) \in Nat /\ rank(p) < Cardinality(library.rows)
    BY <1>1, FewerAreNewer
<1> HIDE DEF new, rank
<1>4. /\ Len(longer) = Len(g) + Len(new) /\ Len(new) \in Nat
      /\ ToSet(g) \subseteq ToSet(longer) /\ ToSet(new) \subseteq ToSet(longer)
    <2>1. /\ longer \in Seq(Photos) /\ Len(longer) = Len(g) + Len(new)
          /\ \A i \in 1..Len(g) + Len(new) : longer[i] = IF i <= Len(g) THEN g[i] ELSE new[i - Len(g)]
        BY <1>2, ConcatProperties
    <2>2. DOMAIN g = 1..Len(g) /\ DOMAIN new = 1..Len(new) /\ DOMAIN longer = 1..Len(longer)
          /\ Len(new) \in Nat
        BY <1>2, <2>1, LenProperties
    <2>3. ASSUME NEW i \in DOMAIN g PROVE g[i] \in ToSet(longer)
        <3>1. i \in DOMAIN longer /\ longer[i] = g[i]
            BY <1>1, <2>1, <2>2
        <3> QED BY <3>1 DEF ToSet
    <2>4. ASSUME NEW i \in DOMAIN new PROVE new[i] \in ToSet(longer)
        <3>1. Len(g) + i \in 1..Len(g) + Len(new) /\ ~(Len(g) + i <= Len(g)) /\ Len(g) + i - Len(g) = i
            BY <1>1, <2>2
        <3>2. longer[Len(g) + i] = new[i] /\ Len(g) + i \in DOMAIN longer
            BY <2>1, <2>2, <3>1
        <3> QED BY <3>2 DEF ToSet
    <2> QED BY <2>1, <2>2, <2>3, <2>4 DEF ToSet
<1> HIDE DEF longer
<1>5. ASSUME NEW p \in S, rank(p) < Len(g) + PageSize PROVE p \in ToSet(longer)
    <2>1. CASE rank(p) < Len(g)
        BY <1>4, <2>1 DEF rank
    <2>2. CASE ~(rank(p) < Len(g))
        BY <1>1, <1>2, <1>3, <1>4, <1>5, <2>2
    <2> QED BY <2>1, <2>2
<1>6. \A p \in S : rank(p) < Cardinality(library.rows) /\ Cardinality(library.rows) \in Nat
    BY <1>1, <1>3, PhotosFinite
<1>7. CASE Len(new) = PageSize
    BY <1>1, <1>4, <1>5, <1>7 DEF rank, longer, new
<1>8. CASE Len(new) # PageSize
    <2>1. \A p \in S : rank(p) \in Nat /\ rank(p) < Len(g) + PageSize
        BY <1>1, <1>2, <1>3, <1>6, <1>8
    <2>2. S \subseteq ToSet(longer)
        BY <1>5, <2>1
    <2> QED BY <2>2 DEF longer, new
<1> QED BY <1>7, <1>8

LEMMA GridNext == TypeInv /\ GridInv /\ [Next]_vars => GridInv'
<1> SUFFICES ASSUME TypeInv, GridInv, [Next]_vars, view' = "grid", ~gone' PROVE GridInv'
    BY DEF GridInv
<1>1. library.rows \in SUBSET Photos /\ PageSize \in Nat \ {0}
    BY BrowseAssumption DEF TypeInv, Library
<1>2. CASE OpenGrid
    <2>1. <<>> \in Seq(Photos) /\ Len(<<>>) = 0
        BY EmptySeq
    <2>2. \A p \in library.rows : Cardinality(Newer(library.rows, p)) < Len(<<>>) => p \in ToSet(<<>>)
        <3>1. \A p \in library.rows : Cardinality(Newer(library.rows, p)) \in Nat
            BY <1>1, FewerAreNewer
        <3>2. \A n \in Nat : ~(n < 0)
            OBVIOUS
        <3> QED BY <2>1, <3>1, <3>2, Zenon
    <2>3. <<>> \o FetchPage(Len(<<>>)) = FetchPage(0)
        BY <1>1, <2>1, PageHolds, ConcatEmptySeq
    <2>4. /\ \A p \in library.rows :
                Cardinality(Newer(library.rows, p)) < Len(FetchPage(0)) => p \in ToSet(FetchPage(0))
          /\ Len(FetchPage(0)) # 0 + PageSize => library.rows \subseteq ToSet(FetchPage(0))
        BY <2>1, <2>2, <2>3, PageAdded
    <2>5. /\ grid' = FetchPage(0) /\ first' = library.rows /\ more' = (Len(grid') = PageSize)
          /\ library' = library
        BY <1>2 DEF OpenGrid
    <2>6. ~more' => Len(FetchPage(0)) # 0 + PageSize
        <3>1. 0 + PageSize = PageSize
            BY <1>1
        <3> QED BY <2>5, <3>1, Zenon
    <2> QED BY <2>4, <2>5, <2>6, Zenon DEF GridInv
<1>3. CASE Scroll
    <2>1. /\ view = "grid" /\ ~gone /\ library' = library /\ first' = first
          /\ grid' = grid \o FetchPage(Len(grid))
          /\ more' = (Len(grid') = Len(grid) + PageSize)
        BY <1>3 DEF Scroll, since
    <2>2. /\ first \in SUBSET library.rows /\ grid \in Seq(Photos)
          /\ \A p \in first : Cardinality(Newer(library.rows, p)) < Len(grid) => p \in ToSet(grid)
        BY <2>1 DEF GridInv, TypeInv
    <2>3. /\ \A p \in first : Cardinality(Newer(library.rows, p)) < Len(grid') => p \in ToSet(grid')
          /\ Len(grid') # Len(grid) + PageSize => first \subseteq ToSet(grid')
        BY <2>1, <2>2, PageAdded
    <2> QED BY <2>1, <2>2, <2>3 DEF GridInv
<1>4. CASE OpenPhoto \/ Close
    BY <1>4 DEF OpenPhoto, Close
<1>5. CASE ShowMore
    BY <1>5 DEF ShowMore
<1>6. ASSUME NEW p \in Others, NEW loose \in BOOLEAN, OpenMatch(p, loose) PROVE GridInv'
    BY <1>6 DEF OpenMatch
<1>7. ASSUME NEW p \in Photos,
             Arrive(p) \/ Leave(p) \/ Embed(p) \/ Tag(p) \/ Untag(p) \/ Describe(p)
      PROVE  GridInv'
    <2>1. /\ library'.rows \in SUBSET Photos /\ library.rows \subseteq library'.rows
          /\ view = "grid" /\ ~gone /\ UNCHANGED <<grid, first, more>>
        BY <1>7, Changed DEF page, Library
    <2>2. grid \in Seq(Photos) /\ Len(grid) \in Nat
        BY LenProperties DEF TypeInv
    <2>3. ASSUME NEW r \in first, Cardinality(Newer(library'.rows, r)) < Len(grid)
          PROVE  r \in ToSet(grid)
        <3>1. r \in library.rows
            BY <2>1 DEF GridInv
        <3>2. /\ Cardinality(Newer(library.rows, r)) <= Cardinality(Newer(library'.rows, r))
              /\ Cardinality(Newer(library.rows, r)) \in Nat
              /\ Cardinality(Newer(library'.rows, r)) \in Nat
            BY <1>1, <2>1, <3>1, NewerGrow, FewerAreNewer
        <3>3. Cardinality(Newer(library.rows, r)) < Len(grid)
            BY <2>2, <2>3, <3>2
        <3> QED BY <2>1, <3>3 DEF GridInv
    <2> QED BY <2>1, <2>3 DEF GridInv
<1>8. CASE UNCHANGED vars
    BY <1>8 DEF vars, page, since, GridInv
<1> QED BY <1>2, <1>3, <1>4, <1>5, <1>6, <1>7, <1>8 DEF Next

\* A grid scrolled to its end has every photo that was there at its first page
\* (NothingSkipped), though pages are cut by offset while photos arrive at the front.
THEOREM ScrolledThrough == Spec => []NothingSkipped
<1>1. Init => GridInv
    BY DEF Init, GridInv
<1>2. GridInv => NothingSkipped
    BY DEF GridInv, NothingSkipped
<1> QED BY <1>1, <1>2, TypeInit, TypeNext, GridNext, PTL DEF Spec

-----------------------------------------------------------------------------
(* The panel.                                                              *)

LEMMA BelowTheGate ==
    ASSUME NEW raw \in Int, NEW gate \in Int, ~(raw >= gate)
    PROVE  Strength(raw, gate) = 0
BY DEF Strength

LEMMA ProfileFields ==
    ASSUME NEW pair \in Profile
    PROVE  /\ pair.image \in Int /\ pair.image <= 1000
           /\ pair.caption \in Int /\ pair.caption <= 1000
           /\ pair.moment \in Int /\ pair.moment <= 1000
           /\ pair.tags \in [Labels -> 0..1000]
<1>1. pair.image \in Cosine /\ pair.caption \in Cosine /\ pair.moment \in Share
      /\ pair.tags \in [Labels -> Share]
    BY DEF Profile
<1>2. /\ \A n \in Cosine : n \in Int /\ n <= 1000
      /\ \A n \in Share : n \in Int /\ n <= 1000
      /\ [Labels -> Share] = [Labels -> 0..1000]
    BY DEF Cosine, Share
<1> QED BY <1>1, <1>2

\* The panel leaves out the limits the ranking has: on the time between two photos, which
\* none that clears the gate exceeds, and on what clears a gate, which is nothing below it.
LEMMA PanelAgrees ==
    ASSUME TypeInv, NEW p \in Others, p \in library.rows
    PROVE  Breakdown(library, p, STRICT) = Evidence(library, p, STRICT)
<1> DEFINE d == library
<1>1. p # Seed /\ d.alike[p] \in Profiles /\ d.alike[p] \in Profile
    BY BrowseAssumption DEF Others, TypeInv, Library
<1>2. /\ d.alike[p].moment >= STRICT.moment => d.alike[p].soon
      /\ d.alike[p].caption \in Int /\ d.alike[p].moment \in Int
      /\ STRICT.caption \in Int /\ STRICT.moment \in Int
    <2>1. d.alike[p].moment >= STRICT.moment => d.alike[p].soon
        BY <1>1, BrowseAssumption
    <2>2. d.alike[p].caption \in Int /\ d.alike[p].moment \in Int
        BY <1>1, ProfileFields
    <2> QED BY <2>1, <2>2 DEF STRICT
<1>3. (650 * 0) \div 1000 = 0 /\ (350 * 0) \div 1000 = 0
    OBVIOUS
<1>4. (IF {Seed, p} \subseteq d.described THEN CaptionEvidence(d.alike[p].caption, STRICT) ELSE 0)
      = IF p \in CaptionHits(d, STRICT) THEN CaptionEvidence(d.alike[p].caption, STRICT) ELSE 0
    <2>1. ~(d.alike[p].caption >= STRICT.caption) => CaptionEvidence(d.alike[p].caption, STRICT) = 0
        BY <1>2, <1>3, BelowTheGate DEF CaptionEvidence
    <2> QED BY <1>1, <2>1 DEF CaptionHits
<1>5. (IF p \in d.rows THEN MomentEvidence(d.alike[p].moment, STRICT) ELSE 0)
      = IF p \in MomentHits(d, STRICT) THEN MomentEvidence(d.alike[p].moment, STRICT) ELSE 0
    <2>1. ~(d.alike[p].moment >= STRICT.moment) => MomentEvidence(d.alike[p].moment, STRICT) = 0
        BY <1>2, <1>3, BelowTheGate DEF MomentEvidence
    <2> QED BY <1>1, <1>2, <2>1 DEF MomentHits
<1> QED BY <1>4, <1>5 DEF Breakdown, Evidence

\* semantic.py, similarity_breakdown: the panel and the ranking never disagree about what
\* drove a match (PanelExplains), for all scores, labels and pairs.
THEOREM PanelIsTheRanking == Spec => PanelExplains
<1> DEFINE Explained ==
        view # "match" /\ panel'.evidence # <<>> /\ ~panel'.loose
        => panel'.evidence = Evidence(library, panel'.id, STRICT)
<1>1. TypeInv /\ [Next]_vars => [Explained]_panel
    <2> SUFFICES ASSUME TypeInv, [Next]_vars, panel' # panel, panel'.evidence # <<>>
                 PROVE  panel'.evidence = Evidence(library, panel'.id, STRICT)
        OBVIOUS
    <2>1. ASSUME NEW p \in Others, NEW loose \in BOOLEAN, OpenMatch(p, loose)
          PROVE  panel'.evidence = Evidence(library, panel'.id, STRICT)
        <3>1. /\ p \in library.rows
              /\ panel'.id = p /\ panel'.evidence \in {<<>>, Breakdown(library, p, STRICT)}
            BY <2>1 DEF OpenMatch
        <3> QED BY <3>1, PanelAgrees
    <2>2. CASE OpenGrid \/ Scroll \/ OpenPhoto \/ ShowMore
        BY <2>2 DEF OpenGrid, Scroll, OpenPhoto, ShowMore
    <2>3. CASE Close
        BY <2>3 DEF Close, NoPanel
    <2>4. ASSUME NEW p \in Photos,
                 Arrive(p) \/ Leave(p) \/ Embed(p) \/ Tag(p) \/ Untag(p) \/ Describe(p)
          PROVE  FALSE
        BY <2>4, Changed DEF page
    <2>5. CASE UNCHANGED vars
        BY <2>5 DEF vars, page
    <2> QED BY <2>1, <2>2, <2>3, <2>4, <2>5 DEF Next
<1> QED BY <1>1, TypeInit, TypeNext, PTL DEF Spec, PanelExplains
-----------------------------------------------------------------------------
(* The score.                                                              *)

\* What a signal leaves, and in which order they are taken.
Leaves(e, left) == (left * (1000 - (IF e > 990 THEN 990 ELSE e))) \div 1000
Whole == 1000000
Next1(signals) == CHOOSE signal \in signals : TRUE

LeftBy(left, evidence, signals) ==
    IF signals = {} THEN Whole
    ELSE Leaves(evidence[Next1(signals)], left[signals \ {Next1(signals)}])

Left(evidence) == CHOOSE left : left = [signals \in SUBSET Signals |-> LeftBy(left, evidence, signals)]

LEMMA CombineIs ==
    ASSUME NEW evidence, DOMAIN evidence = Signals
    PROVE  Combine(evidence) = (1000000 - Left(evidence)[Signals]) \div 1000
BY DEF Combine, FoldFunction, FoldFunctionOnSet, MapThenFoldSet, Left, LeftBy, Whole, Leaves, Next1

SignalSets(n) == {signals \in SUBSET Signals : Cardinality(signals) <= n}

LEMMA SignalsFinite ==
    /\ IsFiniteSet(Signals)
    /\ \A signals \in SUBSET Signals : IsFiniteSet(signals) /\ Cardinality(signals) \in Nat
    /\ \A signals \in SUBSET Signals : signals # {} =>
          /\ Next1(signals) \in signals
          /\ signals \ {Next1(signals)} \in SUBSET Signals
          /\ Cardinality(signals) = Cardinality(signals \ {Next1(signals)}) + 1
<1>1. IsFiniteSet(Signals)
    <2>1. IsFiniteSet({"image", "caption", "moment"})
        <3>1. IsFiniteSet({"image"}) /\ IsFiniteSet({"caption"}) /\ IsFiniteSet({"moment"})
            BY FS_Singleton
        <3>2. IsFiniteSet(({"image"} \union {"caption"}) \union {"moment"})
            BY <3>1, FS_Union
        <3>3. ({"image"} \union {"caption"}) \union {"moment"} = {"image", "caption", "moment"}
            OBVIOUS
        <3> QED BY <3>2, <3>3
    <2> QED BY <2>1, SimilarAssumption, FS_Union DEF Signals
<1>2. ASSUME NEW signals \in SUBSET Signals PROVE IsFiniteSet(signals) /\ Cardinality(signals) \in Nat
    BY <1>1, FS_Subset, FS_CardinalityType
<1>3. ASSUME NEW signals \in SUBSET Signals, signals # {}
      PROVE  /\ Next1(signals) \in signals
             /\ signals \ {Next1(signals)} \in SUBSET Signals
             /\ Cardinality(signals) = Cardinality(signals \ {Next1(signals)}) + 1
    <2>1. Next1(signals) \in signals
        BY <1>3 DEF Next1
    <2>2. Cardinality(signals \ {Next1(signals)}) = Cardinality(signals) - 1
        BY <1>2, <2>1, FS_RemoveElement
    <2> QED BY <1>2, <2>1, <2>2
<1> QED BY <1>1, <1>2, <1>3

LessThan == OpToRel(<, Nat)

LEMMA LeastSize ==
    ASSUME NEW S \in SUBSET Nat, S # {}
    PROVE  \E m \in S : \A n \in S : m <= n
<1>1. IsWellFoundedOn(LessThan, Nat)
    BY NatLessThanWellFounded, Zenon DEF LessThan
<1>2. \A m, n \in Nat : m < n => <<m, n>> \in LessThan
    BY DEF LessThan, OpToRel
<1>3. PICK m \in S : \A n \in S : ~(<<n, m>> \in LessThan)
    BY <1>1, WFMin
<1>4. ASSUME NEW n \in S PROVE m <= n
    <2>1. ~(n < m)
        BY <1>2, <1>3
    <2> QED BY <2>1
<1> QED BY <1>4

\* The fold exists: it can be continued from the sets of one size to the next.
LEMMA FoldContinues ==
    ASSUME NEW evidence, NEW n \in Nat, NEW less,
           n = 0 \/ \A s \in SignalSets(n - 1) : less[s] = LeftBy(less, evidence, s)
    PROVE  \E longer : \A s \in SignalSets(n) : longer[s] = LeftBy(longer, evidence, s)
<1> DEFINE longer == [s \in SignalSets(n) |-> LeftBy(less, evidence, s)]
<1>1. ASSUME NEW s \in SignalSets(n), s # {} PROVE longer[s \ {Next1(s)}] = less[s \ {Next1(s)}]
    <2> DEFINE rest == s \ {Next1(s)}
    <2>1. rest \in SignalSets(n - 1) /\ rest \in SignalSets(n) /\ n # 0
        <3>1. s \in SUBSET Signals /\ Cardinality(s) <= n
            BY DEF SignalSets
        <3>2. rest \in SUBSET Signals /\ Cardinality(s) = Cardinality(rest) + 1
            BY <1>1, <3>1, SignalsFinite
        <3> HIDE DEF rest
        <3>3. Cardinality(rest) \in Nat
            BY <3>2, SignalsFinite
        <3>4. Cardinality(rest) <= n - 1 /\ Cardinality(rest) <= n /\ n # 0
            BY <3>1, <3>2, <3>3
        <3> QED BY <3>2, <3>4 DEF SignalSets
    <2>2. less[rest] = LeftBy(less, evidence, rest)
        BY <2>1
    <2>3. longer[rest] = LeftBy(less, evidence, rest)
        <3> HIDE DEF rest
        <3> QED BY <2>1
    <2> QED BY <2>2, <2>3
<1>2. ASSUME NEW s \in SignalSets(n) PROVE longer[s] = LeftBy(longer, evidence, s)
    <2>1. longer[s] = LeftBy(less, evidence, s)
        OBVIOUS
    <2> HIDE DEF longer
    <2> QED BY <1>1, <2>1 DEF LeftBy
<1> HIDE DEF longer
<1> QED BY <1>2

LEMMA FoldExists ==
    ASSUME NEW evidence
    PROVE  Left(evidence) = [signals \in SUBSET Signals |-> LeftBy(Left(evidence), evidence, signals)]
<1> DEFINE Folds(n) == \E left : \A s \in SignalSets(n) : left[s] = LeftBy(left, evidence, s)
           Stuck == {n \in Nat : ~Folds(n)}
<1>1. ASSUME NEW n \in Nat, n = 0 \/ Folds(n - 1) PROVE Folds(n)
    <2>1. CASE n = 0
        BY <2>1, FoldContinues
    <2>2. CASE n # 0
        <3>1. PICK less : \A s \in SignalSets(n - 1) : less[s] = LeftBy(less, evidence, s)
            BY <1>1, <2>2
        <3> QED BY <3>1, FoldContinues
    <2> QED BY <2>1, <2>2
<1> HIDE DEF Folds
<1>2. Stuck = {}
    <2> SUFFICES ASSUME Stuck # {} PROVE FALSE
        OBVIOUS
    <2>1. PICK n \in Stuck : \A m \in Stuck : n <= m
        <3>1. Stuck \in SUBSET Nat
            OBVIOUS
        <3> HIDE DEF Stuck
        <3> QED BY <3>1, LeastSize
    <2>2. n \in Nat /\ n # 0 /\ ~Folds(n - 1)
        BY <1>1, <2>1
    <2>3. n - 1 \in Nat /\ ~(n <= n - 1)
        BY <2>2
    <2>4. n - 1 \in Stuck
        BY <2>2, <2>3
    <2> QED BY <2>1, <2>3, <2>4
<1>3. Cardinality(Signals) \in Nat /\ SignalSets(Cardinality(Signals)) = SUBSET Signals
    BY SignalsFinite, FS_Subset DEF SignalSets
<1>4. Folds(Cardinality(Signals))
    BY <1>2, <1>3
<1>5. PICK left : \A s \in SUBSET Signals : left[s] = LeftBy(left, evidence, s)
    BY <1>3, <1>4 DEF Folds
<1> DEFINE fold == [s \in SUBSET Signals |-> left[s]]
<1>6. ASSUME NEW s \in SUBSET Signals PROVE fold[s] = LeftBy(fold, evidence, s)
    BY <1>5, SignalsFinite DEF LeftBy
<1>7. fold = [s \in SUBSET Signals |-> LeftBy(fold, evidence, s)]
    <2>1. fold = [s \in SUBSET Signals |-> fold[s]]
        OBVIOUS
    <2> HIDE DEF fold
    <2> QED BY <1>6, <2>1
<1>8. \E f : f = [s \in SUBSET Signals |-> LeftBy(f, evidence, s)]
    <2> HIDE DEF fold
    <2> QED BY <1>7
<1> QED BY <1>8 DEF Left

\* A set of signals without a property is found by its least one: what holds of the
\* empty set and of a set if of what Next1 leaves of it holds of all.
LEMMA FoldStep ==
    ASSUME NEW evidence, NEW signals \in SUBSET Signals
    PROVE  Left(evidence)[signals] =
              IF signals = {} THEN Whole
              ELSE Leaves(evidence[Next1(signals)], Left(evidence)[signals \ {Next1(signals)}])
<1>1. PICK fold : fold = Left(evidence)
    OBVIOUS
<1>2. fold = [s \in SUBSET Signals |-> LeftBy(fold, evidence, s)]
    BY <1>1, FoldExists
<1>3. fold[signals] = LeftBy(fold, evidence, signals)
    BY <1>2
<1> QED BY <1>1, <1>3 DEF LeftBy

\* The least counterexample, by its number of signals.
LEMMA LeastSignals ==
    ASSUME NEW Wrong \in SUBSET (SUBSET Signals), {} \notin Wrong,
           \A s \in Wrong : s \ {Next1(s)} \in Wrong
    PROVE  Wrong = {}
<1> SUFFICES ASSUME Wrong # {} PROVE FALSE
    OBVIOUS
<1> DEFINE sizes == {Cardinality(s) : s \in Wrong}
<1>1. sizes \in SUBSET Nat /\ sizes # {}
    BY SignalsFinite
<1>2. PICK m \in sizes : \A n \in sizes : m <= n
    <2> HIDE DEF sizes
    <2> QED BY <1>1, LeastSize
<1>3. PICK s \in Wrong : m = Cardinality(s)
    BY <1>2
<1> DEFINE rest == s \ {Next1(s)}
<1>4. rest \in Wrong /\ rest \in SUBSET Signals /\ Cardinality(s) = Cardinality(rest) + 1
    BY <1>3, SignalsFinite
<1> HIDE DEF rest
<1>5. Cardinality(rest) \in Nat /\ Cardinality(rest) \in sizes
    BY <1>4, SignalsFinite
<1> QED BY <1>2, <1>3, <1>4, <1>5

LEMMA Product ==
    ASSUME NEW l \in Nat, NEW m \in Nat, NEW c \in Nat, NEW d \in Nat, m <= l, c <= d
    PROVE  m * c <= l * d /\ m * c \in Nat /\ l * d \in Nat
<1>1. m * c <= m * d
    OBVIOUS
<1>2. m * d <= l * d
    OBVIOUS
<1>3. m * c \in Nat /\ l * d \in Nat /\ m * d \in Nat
    OBVIOUS
<1> QED BY <1>1, <1>2, <1>3

LEMMA LeavesLess ==
    ASSUME NEW a \in Nat, NEW b \in Nat, a <= b, NEW l \in Nat, NEW m \in Nat, m <= l
    PROVE  Leaves(a, l) \in Nat /\ Leaves(b, m) \in Nat /\ Leaves(b, m) <= Leaves(a, l)
<1> DEFINE c == 1000 - (IF b > 990 THEN 990 ELSE b)
           d == 1000 - (IF a > 990 THEN 990 ELSE a)
<1>1. c \in Nat /\ d \in Nat /\ c <= d
    OBVIOUS
<1>2. Leaves(a, l) = (l * d) \div 1000 /\ Leaves(b, m) = (m * c) \div 1000
    BY DEF Leaves
<1> HIDE DEF c, d
<1>3. m * c <= l * d /\ m * c \in Nat /\ l * d \in Nat
    BY <1>1, Product
<1>4. \A x, y \in Nat : x <= y => x \div 1000 \in Nat /\ y \div 1000 \in Nat /\ x \div 1000 <= y \div 1000
    OBVIOUS
<1> QED BY <1>2, <1>3, <1>4

\* More evidence leaves less ..
LEMMA LeftLess ==
    ASSUME NEW a \in [Signals -> Nat], NEW b \in [Signals -> Nat],
           \A signal \in Signals : a[signal] <= b[signal],
           NEW signals \in SUBSET Signals
    PROVE  /\ Left(a)[signals] \in Nat /\ Left(b)[signals] \in Nat
           /\ Left(b)[signals] <= Left(a)[signals]
<1> DEFINE Less(s) == Left(a)[s] \in Nat /\ Left(b)[s] \in Nat /\ Left(b)[s] <= Left(a)[s]
           Wrong == {s \in SUBSET Signals : ~Less(s)}
<1>1. Less({})
    <2>1. Left(a)[{}] = Whole /\ Left(b)[{}] = Whole
        BY FoldStep
    <2> QED BY <2>1 DEF Whole
<1>2. ASSUME NEW s \in SUBSET Signals, s # {}, Less(s \ {Next1(s)}) PROVE Less(s)
    <2> DEFINE n == Next1(s)
               rest == s \ {n}
    <2>1. n \in Signals /\ rest \in SUBSET Signals
        BY <1>2, SignalsFinite
    <2>2. Left(a)[s] = Leaves(a[n], Left(a)[rest]) /\ Left(b)[s] = Leaves(b[n], Left(b)[rest])
        BY <1>2, FoldStep
    <2>3. a[n] \in Nat /\ b[n] \in Nat /\ a[n] <= b[n]
        BY <2>1
    <2> HIDE DEF n
    <2>4. Left(a)[rest] \in Nat /\ Left(b)[rest] \in Nat /\ Left(b)[rest] <= Left(a)[rest]
        BY <1>2 DEF n
    <2> HIDE DEF rest
    <2>5. /\ Leaves(a[n], Left(a)[rest]) \in Nat /\ Leaves(b[n], Left(b)[rest]) \in Nat
          /\ Leaves(b[n], Left(b)[rest]) <= Leaves(a[n], Left(a)[rest])
        BY <2>3, <2>4, LeavesLess
    <2> QED BY <2>2, <2>5
<1> HIDE DEF Less
<1>3. Wrong = {}
    <2>1. {} \notin Wrong /\ Wrong \in SUBSET (SUBSET Signals)
        BY <1>1
    <2>2. ASSUME NEW s \in Wrong PROVE s \ {Next1(s)} \in Wrong
        BY <1>1, <1>2, SignalsFinite
    <2> HIDE DEF Wrong
    <2> QED BY <2>1, <2>2, LeastSignals
<1>4. Less(signals)
    BY <1>3
<1> QED BY <1>4 DEF Less

\* .. and is a higher score.
LEMMA CombineMore ==
    ASSUME NEW a \in [Signals -> Nat], NEW b \in [Signals -> Nat],
           \A signal \in Signals : a[signal] <= b[signal]
    PROVE  Combine(a) \in Int /\ Combine(b) \in Int /\ Combine(a) <= Combine(b)
<1>1. Combine(a) = (1000000 - Left(a)[Signals]) \div 1000 /\ Combine(b) = (1000000 - Left(b)[Signals]) \div 1000
    BY CombineIs
<1>2. Left(a)[Signals] \in Nat /\ Left(b)[Signals] \in Nat /\ Left(b)[Signals] <= Left(a)[Signals]
    BY LeftLess
<1> QED BY <1>1, <1>2, SMT

\* A score of one signal is its evidence.
LEMMA MomentAlone ==
    ASSUME NEW e \in [Signals -> Nat], e["moment"] <= 350,
           \A signal \in Signals \ {"moment"} : e[signal] = 0
    PROVE  Combine(e) = e["moment"]
<1> DEFINE m == e["moment"]
           Leaving(s) == Left(e)[s] = IF "moment" \in s THEN 1000 * (1000 - m) ELSE Whole
           Wrong == {s \in SUBSET Signals : ~Leaving(s)}
<1>1. m \in Nat /\ m <= 350 /\ "moment" \in Signals
    BY DEF Signals
<1>2. Leaving({})
    <2>1. Left(e)[{}] = Whole
        BY FoldStep
    <2> QED BY <2>1
<1>3. ASSUME NEW s \in SUBSET Signals, s # {}, Leaving(s \ {Next1(s)}) PROVE Leaving(s)
    <2> DEFINE n == Next1(s)
               rest == s \ {n}
    <2>1. n \in s /\ n \in Signals /\ rest \in SUBSET Signals
        BY <1>3, SignalsFinite
    <2>2. Left(e)[s] = Leaves(e[n], Left(e)[rest])
        BY <1>3, FoldStep
    <2>3. CASE n = "moment"
        <3>1. "moment" \in s /\ "moment" \notin rest /\ e[n] = m
            BY <2>1, <2>3
        <3>2. Left(e)[s] = Leaves(m, Whole)
            BY <1>3, <2>2, <3>1
        <3> HIDE DEF m
        <3>3. Leaves(m, Whole) = 1000 * (1000 - m)
            BY <1>1, SMT DEF Leaves, Whole
        <3> QED BY <3>1, <3>2, <3>3
    <2>4. CASE n # "moment"
        <3>1. ("moment" \in s <=> "moment" \in rest) /\ e[n] = 0
            BY <2>1, <2>4
        <3>2. \A l \in Nat : Leaves(0, l) = l
            BY DEF Leaves
        <3>3. Left(e)[rest] \in Nat /\ Left(e)[rest] = IF "moment" \in s THEN 1000 * (1000 - m) ELSE Whole
            BY <1>1, <1>3, <3>1, SMT DEF Whole
        <3> QED BY <2>2, <3>1, <3>2, <3>3
    <2> QED BY <2>3, <2>4
<1> HIDE DEF Leaving
<1>4. Wrong = {}
    <2>1. {} \notin Wrong /\ Wrong \in SUBSET (SUBSET Signals)
        BY <1>2
    <2>2. ASSUME NEW s \in Wrong PROVE s \ {Next1(s)} \in Wrong
        BY <1>2, <1>3, SignalsFinite
    <2> HIDE DEF Wrong
    <2> QED BY <2>1, <2>2, LeastSignals
<1>5. Left(e)[Signals] = 1000 * (1000 - m)
    BY <1>1, <1>4 DEF Leaving
<1>6. Combine(e) = (1000000 - Left(e)[Signals]) \div 1000
    BY CombineIs
<1> HIDE DEF m
<1>7. (1000000 - 1000 * (1000 - m)) \div 1000 = m
    <2>1. 1000000 - 1000 * (1000 - m) = 1000 * m
        BY <1>1
    <2>2. (1000 * m) \div 1000 = m
        BY <1>1
    <2> QED BY <2>1, <2>2
<1>8. Combine(e) = m
    BY <1>5, <1>6, <1>7
<1> QED BY <1>8 DEF m

-----------------------------------------------------------------------------
(* Evidence.                                                               *)

\* Photos are embedded before they are tagged.
Staged(d) == d.tagged \subseteq d.embedded /\ d.embedded \subseteq d.rows

LEMMA Strengths ==
    ASSUME NEW raw \in Int
    PROVE  /\ Strength(raw, 800) \in Nat /\ Strength(raw, 660) \in Nat /\ Strength(raw, 750) \in Nat
           /\ Strength(raw, 680) \in Nat /\ Strength(raw, 200) \in Nat /\ Strength(raw, 80) \in Nat
           /\ raw <= 1000 => /\ Strength(raw, 800) <= Strength(raw, 660) /\ Strength(raw, 660) <= 1000
                             /\ Strength(raw, 750) <= Strength(raw, 680)
                             /\ Strength(raw, 200) <= Strength(raw, 80) /\ Strength(raw, 200) <= 1000
BY SMTT(60) DEF Strength

LEMMA Gates ==
    /\ STRICT.image = 800 /\ STRICT.caption = 750 /\ STRICT.moment = 200 /\ STRICT.floor = 450
    /\ LOOSE.image = 660 /\ LOOSE.caption = 680 /\ LOOSE.moment = 80 /\ LOOSE.floor = 120
BY DEF STRICT, LOOSE

\* What a comparison gives, and what looser gates make of it.
LEMMA RawEvidence ==
    ASSUME NEW raw \in Int, NEW gates \in {STRICT, LOOSE}
    PROVE  /\ ImageEvidence(raw, gates) \in Nat /\ CaptionEvidence(raw, gates) \in Nat
           /\ MomentEvidence(raw, gates) \in Nat
           /\ raw <= 1000 => /\ ImageEvidence(raw, STRICT) <= ImageEvidence(raw, LOOSE)
                             /\ CaptionEvidence(raw, STRICT) <= CaptionEvidence(raw, LOOSE)
                             /\ MomentEvidence(raw, STRICT) <= MomentEvidence(raw, LOOSE)
                             /\ MomentEvidence(raw, STRICT) <= 350
<1>1. \A x, y \in Nat : x <= y => /\ (950 * x) \div 1000 \in Nat /\ (650 * x) \div 1000 \in Nat
                                  /\ (350 * x) \div 1000 \in Nat
                                  /\ (950 * x) \div 1000 <= (950 * y) \div 1000
                                  /\ (650 * x) \div 1000 <= (650 * y) \div 1000
                                  /\ (350 * x) \div 1000 <= (350 * y) \div 1000
    OBVIOUS
<1>2. \A x \in Nat : x <= 1000 => (350 * x) \div 1000 <= 350
    OBVIOUS
<1>3. /\ Strength(raw, gates.image) \in Nat /\ Strength(raw, gates.caption) \in Nat
      /\ Strength(raw, gates.moment) \in Nat
    <2>1. CASE gates = STRICT
        <3>1. gates.image = 800 /\ gates.caption = 750 /\ gates.moment = 200
            BY <2>1, Gates
        <3>2. Strength(raw, 800) \in Nat /\ Strength(raw, 750) \in Nat /\ Strength(raw, 200) \in Nat
            BY Strengths
        <3> QED BY <3>1, <3>2
    <2>2. CASE gates = LOOSE
        <3>1. gates.image = 660 /\ gates.caption = 680 /\ gates.moment = 80
            BY <2>2, Gates
        <3>2. Strength(raw, 660) \in Nat /\ Strength(raw, 680) \in Nat /\ Strength(raw, 80) \in Nat
            BY Strengths
        <3> QED BY <3>1, <3>2
    <2> QED BY <2>1, <2>2
<1>4. /\ ImageEvidence(raw, gates) \in Nat /\ CaptionEvidence(raw, gates) \in Nat
      /\ MomentEvidence(raw, gates) \in Nat
    BY <1>1, <1>3 DEF ImageEvidence, CaptionEvidence, MomentEvidence
<1>5. ASSUME raw <= 1000
      PROVE  /\ ImageEvidence(raw, STRICT) <= ImageEvidence(raw, LOOSE)
             /\ CaptionEvidence(raw, STRICT) <= CaptionEvidence(raw, LOOSE)
             /\ MomentEvidence(raw, STRICT) <= MomentEvidence(raw, LOOSE)
             /\ MomentEvidence(raw, STRICT) <= 350
    <2>1. /\ Strength(raw, 800) \in Nat /\ Strength(raw, 660) \in Nat /\ Strength(raw, 750) \in Nat
          /\ Strength(raw, 680) \in Nat /\ Strength(raw, 200) \in Nat /\ Strength(raw, 80) \in Nat
        BY Strengths
    <2>2. /\ Strength(raw, 800) <= Strength(raw, 660) /\ Strength(raw, 750) <= Strength(raw, 680)
          /\ Strength(raw, 200) <= Strength(raw, 80) /\ Strength(raw, 200) <= 1000
        BY <1>5, Strengths
    <2> QED BY <1>1, <1>2, <2>1, <2>2, Gates DEF ImageEvidence, CaptionEvidence, MomentEvidence
<1> QED BY <1>4, <1>5

\* A moment that clears the strict gate is worth half of its weight at least.
LEMMA MomentAtTheGate ==
    ASSUME NEW raw \in Int, raw >= 200
    PROVE  MomentEvidence(raw, STRICT) >= 175
<1>1. Strength(raw, 200) >= 500 /\ Strength(raw, 200) \in Int
    BY SMTT(30) DEF Strength
<1>2. \A x \in Int : x >= 500 => (350 * x) \div 1000 >= 175
    OBVIOUS
<1> QED BY <1>1, <1>2, Gates DEF MomentEvidence

\* What a shared label is worth, from its weight, the agreement and its rarity.
Worth(weight, agreement, idf) ==
    (((weight * agreement) \div 1000) * (IDF_FLOOR + (600 * idf) \div 1000)) \div 1000

LEMMA RarerIsWorthMore ==
    ASSUME NEW weight \in Nat, NEW agreement \in Nat, NEW i \in Nat, NEW j \in Nat, i <= j
    PROVE  /\ Worth(weight, agreement, i) \in Nat /\ Worth(weight, agreement, j) \in Nat
           /\ Worth(weight, agreement, i) <= Worth(weight, agreement, j)
<1> DEFINE w == (weight * agreement) \div 1000
           a == IDF_FLOOR + (600 * i) \div 1000
           b == IDF_FLOOR + (600 * j) \div 1000
<1>1. \A x, y \in Nat : x * y \in Nat /\ x \div 1000 \in Nat
    OBVIOUS
<1>2. w \in Nat
    BY <1>1
<1>3. a \in Nat /\ b \in Nat /\ a <= b
    BY DEF IDF_FLOOR
<1>4. Worth(weight, agreement, i) = (w * a) \div 1000 /\ Worth(weight, agreement, j) = (w * b) \div 1000
    BY DEF Worth
<1> HIDE DEF w, a, b
<1>5. w * a \in Nat /\ w * b \in Nat /\ w * a <= w * b
    BY <1>2, <1>3, Product
<1>6. \A x, y \in Nat : x <= y => x \div 1000 \in Nat /\ y \div 1000 \in Nat /\ x \div 1000 <= y \div 1000
    OBVIOUS
<1> QED BY <1>4, <1>5, <1>6

LEMMA Agreement ==
    ASSUME NEW d \in Library, NEW p \in Others, NEW label \in Labels
    PROVE  d.alike[p].tags[label] \in Nat /\ TierWeight[Tier[label]] \in Nat
<1>1. d.alike[p].tags[label] \in Nat
    <2>1. d.alike[p] \in Profile
        BY BrowseAssumption DEF Library
    <2> DEFINE pair == d.alike[p]
    <2>2. pair.tags \in [Labels -> 0..1000]
        <3>1. pair \in Profile
            BY <2>1
        <3> HIDE DEF pair
        <3> QED BY <3>1, ProfileFields
    <2>3. d.alike[p].tags[label] \in 0..1000
        <3> DEFINE tags == pair.tags
        <3>1. tags \in [Labels -> 0..1000]
            BY <2>2
        <3> HIDE DEF tags
        <3>2. tags[label] \in 0..1000
            BY <3>1
        <3> QED BY <3>2 DEF tags
    <2> DEFINE agreement == d.alike[p].tags[label]
    <2>4. agreement \in 0..1000
        BY <2>3
    <2> HIDE DEF agreement
    <2>5. agreement \in Nat
        BY <2>4
    <2> QED BY <2>5 DEF agreement
<1>2. TierWeight[Tier[label]] \in Nat
    <2>1. Tier[label] \in {"subject", "where", "look", "quality"}
        BY SimilarAssumption
    <2> QED BY <2>1 DEF TierWeight
<1> QED BY <1>1, <1>2

\* The seed's labels are counted in a library of at least their carriers.
LEMMA CarrierCount ==
    ASSUME NEW d \in Library, Staged(d), NEW label \in Labels, Seed \in Carriers(d, label)
    PROVE  /\ Cardinality(Photos) \in Nat
           /\ Cardinality(d.rows) \in 1..Cardinality(Photos)
           /\ Cardinality(Carriers(d, label)) \in 1..Cardinality(d.rows)
           /\ Damping(d, label) \in Nat
<1> DEFINE n == Cardinality(d.rows)
           m == Cardinality(Carriers(d, label))
<1>1. d.rows \in SUBSET Photos /\ Carriers(d, label) \in SUBSET d.rows /\ d.tagged \in SUBSET Photos
    BY DEF Library, Carriers, Staged
<1>2. IsFiniteSet(d.rows) /\ IsFiniteSet(Photos) /\ n \in Nat /\ Cardinality(Photos) \in Nat
    BY <1>1, PhotosFinite
<1>3. m \in Nat /\ m # 0 /\ m <= n /\ n <= Cardinality(Photos)
    <2>1. IsFiniteSet(Carriers(d, label)) /\ m <= n /\ n <= Cardinality(Photos)
        BY <1>1, <1>2, FS_Subset
    <2> QED BY <2>1, FS_CardinalityType, FS_EmptySet
<1> HIDE DEF n, m
<1>4. n \in 1..Cardinality(Photos) /\ m \in 1..n
    BY <1>2, <1>3
<1>5. Idf[n][m] \in Nat
    <2>1. \A k \in 1..Cardinality(Photos) : \A j \in 1..k : Idf[k][j] \in Share
        BY SimilarAssumption DEF Share
    <2>2. Idf[n][m] \in Share
        BY <1>4, <2>1, Zenon
    <2> DEFINE i == Idf[n][m]
    <2>3. i \in 0..1000
        BY <2>2 DEF Share
    <2> HIDE DEF i
    <2>4. i \in Nat
        BY <2>3
    <2> QED BY <2>4 DEF i
<1> QED BY <1>2, <1>4, <1>5 DEF Damping, n, m

LEMMA TagIsEvidence ==
    ASSUME NEW d \in Library, Staged(d), NEW p \in Others, NEW label \in Labels
    PROVE  TagEvidence(d, p, label, STRICT) \in Nat
<1>1. CASE Seed \in Carriers(d, label)
    <2>1. Damping(d, label) \in Nat
        BY <1>1, CarrierCount
    <2>2. Worth(TierWeight[Tier[label]], d.alike[p].tags[label], Damping(d, label)) \in Nat
        <3>1. Damping(d, label) <= Damping(d, label)
            BY <2>1
        <3> QED BY <2>1, <3>1, Agreement, RarerIsWorthMore
    <2> QED BY <2>2 DEF TagEvidence, Worth
<1>2. CASE Seed \notin Carriers(d, label)
    BY <1>2 DEF TagEvidence
<1> QED BY <1>1, <1>2

LEMMA EvidenceIs ==
    ASSUME NEW d \in Library, Staged(d), NEW p \in Others, NEW gates \in {STRICT, LOOSE}
    PROVE  Evidence(d, p, gates) \in [Signals -> Nat]
<1>1. d.alike[p] \in Profile
    BY BrowseAssumption DEF Library
<1>2. d.alike[p].image \in Int /\ d.alike[p].caption \in Int /\ d.alike[p].moment \in Int
    BY <1>1, ProfileFields
<1>3. /\ ImageEvidence(d.alike[p].image, gates) \in Nat
      /\ CaptionEvidence(d.alike[p].caption, gates) \in Nat
      /\ MomentEvidence(d.alike[p].moment, gates) \in Nat
    BY <1>2, RawEvidence
<1>4. \A label \in Labels : TagEvidence(d, p, label, STRICT) \in Nat
    BY TagIsEvidence
<1>5. \A signal \in Signals : signal \in {"image", "caption", "moment"} \/ signal \in Labels
    BY DEF Signals
<1>6. ASSUME NEW signal \in Signals PROVE Evidence(d, p, gates)[signal] \in Nat
    <2>1. CASE signal = "image"
        BY <1>3, <2>1 DEF Evidence
    <2>2. CASE signal = "caption"
        BY <1>3, <2>2 DEF Evidence
    <2>3. CASE signal = "moment"
        BY <1>3, <2>3 DEF Evidence
    <2>4. CASE signal \notin {"image", "caption", "moment"}
        BY <1>4, <1>5, <2>4 DEF Evidence
    <2> QED BY <2>1, <2>2, <2>3, <2>4
<1>7. DOMAIN Evidence(d, p, gates) = Signals /\ \A e : e = Evidence(d, p, gates) => e = [signal \in Signals |-> e[signal]]
    BY DEF Evidence
<1> QED BY <1>6, <1>7

LEMMA ScoreIs ==
    ASSUME NEW d \in Library, Staged(d), NEW p \in Others, NEW gates \in {STRICT, LOOSE}
    PROVE  Score(d, p, gates) \in Int
<1>1. Evidence(d, p, gates) \in [Signals -> Nat]
    BY EvidenceIs
<1>2. \A signal \in Signals : Evidence(d, p, gates)[signal] <= Evidence(d, p, gates)[signal]
    BY <1>1
<1> QED BY <1>1, <1>2, CombineMore DEF Score

\* The looser gates let more of everything through.
LEMMA LooserEvidence ==
    ASSUME NEW d \in Library, Staged(d), NEW p \in Others, NEW signal \in Signals
    PROVE  Evidence(d, p, STRICT)[signal] <= Evidence(d, p, LOOSE)[signal]
<1>1. d.alike[p] \in Profile
    BY BrowseAssumption DEF Library
<1>2. /\ d.alike[p].image \in Int /\ d.alike[p].image <= 1000
      /\ d.alike[p].caption \in Int /\ d.alike[p].caption <= 1000
      /\ d.alike[p].moment \in Int /\ d.alike[p].moment <= 1000
    BY <1>1, ProfileFields
<1>3. /\ ImageEvidence(d.alike[p].image, STRICT) <= ImageEvidence(d.alike[p].image, LOOSE)
      /\ CaptionEvidence(d.alike[p].caption, STRICT) <= CaptionEvidence(d.alike[p].caption, LOOSE)
      /\ MomentEvidence(d.alike[p].moment, STRICT) <= MomentEvidence(d.alike[p].moment, LOOSE)
      /\ 0 <= CaptionEvidence(d.alike[p].caption, LOOSE) /\ 0 <= MomentEvidence(d.alike[p].moment, LOOSE)
    <2>1. /\ ImageEvidence(d.alike[p].image, STRICT) <= ImageEvidence(d.alike[p].image, LOOSE)
          /\ CaptionEvidence(d.alike[p].caption, STRICT) <= CaptionEvidence(d.alike[p].caption, LOOSE)
          /\ MomentEvidence(d.alike[p].moment, STRICT) <= MomentEvidence(d.alike[p].moment, LOOSE)
        BY <1>2, RawEvidence
    <2>2. /\ CaptionEvidence(d.alike[p].caption, LOOSE) \in Nat
          /\ MomentEvidence(d.alike[p].moment, LOOSE) \in Nat
        BY <1>2, RawEvidence
    <2>3. \A n \in Nat : 0 <= n
        OBVIOUS
    <2> QED BY <2>1, <2>2, <2>3
<1>4. /\ p \in CaptionHits(d, STRICT) => p \in CaptionHits(d, LOOSE)
      /\ p \in MomentHits(d, STRICT) => p \in MomentHits(d, LOOSE)
    BY <1>2, Gates DEF CaptionHits, MomentHits
<1>5. Evidence(d, p, STRICT)[signal] \in Nat /\ Evidence(d, p, LOOSE)[signal] \in Nat
    BY EvidenceIs
<1>6. CASE signal = "image"
    <2>1. 0 <= 0
        OBVIOUS
    <2> QED BY <1>3, <1>5, <1>6, <2>1 DEF Evidence
<1>7. CASE signal = "caption"
    BY <1>3, <1>4, <1>5, <1>7 DEF Evidence
<1>8. CASE signal = "moment"
    BY <1>3, <1>4, <1>5, <1>8 DEF Evidence
<1>9. CASE signal \notin {"image", "caption", "moment"}
    <2>1. Evidence(d, p, STRICT)[signal] = Evidence(d, p, LOOSE)[signal]
        BY <1>9 DEF Evidence
    <2> QED BY <1>5, <2>1
<1> QED BY <1>6, <1>7, <1>8, <1>9

LEMMA AdmittedAreOthers ==
    ASSUME NEW d \in Library, NEW gates, NEW k
    PROVE  Admitted(d, gates, k) \in SUBSET Others
BY DEF Admitted, Candidates, MomentHits, Neighbours, TagHits, CaptionHits, Library, Others

-----------------------------------------------------------------------------
(* The gates and the floor.                                                *)

\* A photo is embedded before it is tagged, and there before it is embedded.
LEMMA StagedInit == Init => Staged(library)
<1> SUFFICES ASSUME Init PROVE Staged(library)
    OBVIOUS
<1>1. PICK stage \in [Photos -> 0..4], alike \in [Others -> Profiles] :
          library = [rows |-> At(stage, 1), embedded |-> At(stage, 2), tagged |-> At(stage, 3),
                     described |-> At(stage, 4), alike |-> alike]
    BY DEF Init
<1>2. \A p \in Photos : stage[p] \in 0..4
    OBVIOUS
<1>3. At(stage, 3) \subseteq At(stage, 2) /\ At(stage, 2) \subseteq At(stage, 1)
    BY <1>2 DEF At
<1> QED BY <1>1, <1>3 DEF Staged

LEMMA StagedNext == TypeInv /\ Staged(library) /\ [Next]_vars => Staged(library')
<1> SUFFICES ASSUME TypeInv, Staged(library), [Next]_vars PROVE Staged(library')
    OBVIOUS
<1> USE DEF TypeInv, Library, Change
<1>1. CASE OpenGrid \/ Scroll \/ OpenPhoto \/ ShowMore \/ Close
    BY <1>1 DEF OpenGrid, Scroll, OpenPhoto, ShowMore, Close
<1>2. ASSUME NEW p \in Others, NEW loose \in BOOLEAN, OpenMatch(p, loose) PROVE Staged(library')
    BY <1>2 DEF OpenMatch
<1>3. ASSUME NEW p \in Photos, Arrive(p) PROVE Staged(library')
    BY <1>3 DEF Arrive, Staged
<1>4. ASSUME NEW p \in Photos, Leave(p) PROVE Staged(library')
    BY <1>4 DEF Leave, Staged
<1>5. ASSUME NEW p \in Photos, Embed(p) PROVE Staged(library')
    BY <1>5 DEF Embed, Staged
<1>6. ASSUME NEW p \in Photos, Tag(p) PROVE Staged(library')
    BY <1>6 DEF Tag, Staged
<1>7. ASSUME NEW p \in Photos, Untag(p) PROVE Staged(library')
    BY <1>7 DEF Untag, Staged
<1>8. ASSUME NEW p \in Photos, Describe(p) PROVE Staged(library')
    BY <1>8 DEF Describe, Staged
<1>9. CASE UNCHANGED vars
    BY <1>9 DEF vars
<1> QED BY <1>1, <1>2, <1>3, <1>4, <1>5, <1>6, <1>7, <1>8, <1>9 DEF Next

LEMMA LooserAdmits ==
    ASSUME library \in Library, Staged(library)
    PROVE  LooserKeeps
<1> SUFFICES ASSUME NEW p \in Admitted(library, STRICT, SIMILAR_K)
             PROVE  /\ p \in Admitted(library, LOOSE, SIMILAR_K + LOOSE_LIMIT)
                    /\ Score(library, p, LOOSE) >= Score(library, p, STRICT)
    BY DEF LooserKeeps
<1> DEFINE d == library
<1>1. p \in Others
    BY AdmittedAreOthers
<1>2. /\ p \in Candidates(d, STRICT, SIMILAR_K)
      /\ Qualifies(Evidence(d, p, STRICT)) /\ Score(d, p, STRICT) >= 450
    BY Gates DEF Admitted
<1>3. d.alike[p].caption \in Int /\ d.alike[p].moment \in Int
    BY <1>1, ProfileFields, BrowseAssumption DEF Library
<1>4. /\ p \in MomentHits(d, STRICT) => p \in MomentHits(d, LOOSE)
      /\ p \in CaptionHits(d, STRICT) => p \in CaptionHits(d, LOOSE)
    BY <1>3, Gates DEF MomentHits, CaptionHits
<1>5. p \in Candidates(d, LOOSE, SIMILAR_K + LOOSE_LIMIT)
    <2>1. p \in Neighbours(d, Reach(SIMILAR_K)) => p \in Neighbours(d, Reach(SIMILAR_K + LOOSE_LIMIT))
        <3>1. /\ Reach(SIMILAR_K) \in Nat /\ Reach(SIMILAR_K + LOOSE_LIMIT) \in Nat
              /\ Reach(SIMILAR_K) <= Reach(SIMILAR_K + LOOSE_LIMIT)
            BY SimilarAssumption DEF Reach
        <3>2. Cardinality(Closer(d, p)) \in Nat
            BY PhotosFinite DEF Closer, Library
        <3> QED BY <3>1, <3>2 DEF Neighbours
    <2> QED BY <1>2, <1>4, <2>1 DEF Candidates
<1>6. /\ Evidence(d, p, STRICT) \in [Signals -> Nat] /\ Evidence(d, p, LOOSE) \in [Signals -> Nat]
      /\ \A signal \in Signals : Evidence(d, p, STRICT)[signal] <= Evidence(d, p, LOOSE)[signal]
    BY <1>1, EvidenceIs, LooserEvidence
<1>7. /\ Score(d, p, STRICT) \in Int /\ Score(d, p, LOOSE) \in Int
      /\ Score(d, p, STRICT) <= Score(d, p, LOOSE)
    BY <1>6, CombineMore DEF Score
<1>8. Qualifies(Evidence(d, p, LOOSE))
    <2>1. PICK signal \in Signals : Content(signal) /\ Evidence(d, p, STRICT)[signal] > 0
        BY <1>2 DEF Qualifies
    <2>2. Evidence(d, p, LOOSE)[signal] > 0
        BY <1>6, <2>1
    <2> QED BY <2>1, <2>2 DEF Qualifies
<1>9. Score(d, p, LOOSE) >= 120
    BY <1>2, <1>7
<1> QED BY <1>5, <1>7, <1>8, <1>9, Gates DEF Admitted

LEMMA MomentIsNotEnough ==
    ASSUME library \in Library, Staged(library)
    PROVE  MomentBehindMore
<1> SUFFICES ASSUME NEW p \in MomentHits(library, STRICT),
                    \A signal \in Signals \ {"moment"} : Evidence(library, p, STRICT)[signal] = 0
             PROVE  p \notin Strip(library) /\ p \in Admitted(library, LOOSE, SIMILAR_K + LOOSE_LIMIT)
    BY DEF MomentBehindMore
<1> DEFINE e == Evidence(library, p, STRICT)
           l == Evidence(library, p, LOOSE)
           raw == library.alike[p].moment
<1>1. p \in Others /\ raw \in Int /\ raw <= 1000 /\ raw >= 200 /\ "moment" \in Signals
    <2>1. p \in Others
        BY DEF MomentHits, Library, Others
    <2>2. raw \in Int /\ raw <= 1000
        BY <2>1, ProfileFields, BrowseAssumption DEF Library
    <2> QED BY <2>1, <2>2, Gates DEF MomentHits, Signals
<1>2. /\ e \in [Signals -> Nat] /\ l \in [Signals -> Nat]
      /\ \A signal \in Signals : e[signal] <= l[signal]
    BY <1>1, EvidenceIs, LooserEvidence
<1>3. e["moment"] >= 175 /\ e["moment"] <= 350
    <2>1. MomentEvidence(raw, STRICT) >= 175
        BY <1>1, MomentAtTheGate
    <2>2. MomentEvidence(raw, STRICT) <= 350
        BY <1>1, RawEvidence
    <2>3. e["moment"] = MomentEvidence(raw, STRICT)
        BY <1>1 DEF Evidence
    <2> QED BY <2>1, <2>2, <2>3
<1>4. Combine(e) = e["moment"]
    <2>1. \A signal \in Signals \ {"moment"} : e[signal] = 0
        OBVIOUS
    <2> HIDE DEF e
    <2> QED BY <1>2, <1>3, <2>1, MomentAlone
<1>5. Combine(e) <= Combine(l) /\ Combine(l) \in Int
    <2> HIDE DEF e, l
    <2> QED BY <1>2, CombineMore
<1>6. p \notin Strip(library)
    <2>1. Score(library, p, STRICT) = e["moment"] /\ e["moment"] \in Int
        BY <1>1, <1>2, <1>4 DEF Score
    <2>2. ~(Score(library, p, STRICT) >= 450)
        <3> HIDE DEF e
        <3> QED BY <1>3, <2>1
    <2> QED BY <2>2, Gates DEF Strip, SimilarPhotos, Admitted
<1>7. p \in Candidates(library, LOOSE, SIMILAR_K + LOOSE_LIMIT)
    BY <1>1, Gates DEF MomentHits, Candidates
<1>8. l["moment"] > 0 /\ Content("moment")
    BY <1>1, <1>2, <1>3 DEF Content
<1>9. Score(library, p, LOOSE) >= 120
    <2>1. Score(library, p, LOOSE) = Combine(l) /\ e["moment"] \in Int
        BY <1>1, <1>2 DEF Score
    <2> HIDE DEF e, l
    <2> QED BY <1>3, <1>4, <1>5, <2>1
<1> QED BY <1>1, <1>6, <1>7, <1>8, <1>9, Gates DEF Admitted, Qualifies

\* The numbers of the gates and of the floor (scoring.py) do what they are for in any
\* library (GatesHold): looser gates lose no photo and weaken no match, and a photo that
\* only shares the moment is behind "Show more", whatever the labels and how rare they are.
THEOREM NumbersAreRight == Spec => []GatesHold
<1>1. TypeInv /\ Staged(library) => GatesHold
    BY LooserAdmits, MomentIsNotEnough DEF TypeInv, GatesHold
<1>2. TypeInv /\ Staged(library) /\ [Next]_vars => Staged(library)'
    BY StagedNext DEF Staged
<1> QED BY <1>1, <1>2, StagedInit, TypeInit, TypeNext, PTL DEF Spec

-----------------------------------------------------------------------------
(* Missing data.                                                           *)

\* The same photos carry a label, of more photos.
LEMMA SameTags ==
    ASSUME NEW d \in Library, Staged(d), NEW e \in Library, Staged(e), MoreData(d, e), NEW p \in Others,
           NEW label \in Labels
    PROVE  TagEvidence(d, p, label, STRICT) <= TagEvidence(e, p, label, STRICT)
<1> DEFINE agreement == d.alike[p].tags[label]
           weight == TierWeight[Tier[label]]
           i == Damping(d, label)
           j == Damping(e, label)
           shared == {Seed, p} \subseteq Carriers(d, label) /\ agreement >= TagGate(label, STRICT)
<1>1. Carriers(e, label) = Carriers(d, label) /\ e.alike[p].tags[label] = agreement
    BY DEF MoreData, Carriers
<1>2. /\ TagEvidence(d, p, label, STRICT) = IF shared /\ i > 0 THEN Worth(weight, agreement, i) ELSE 0
      /\ TagEvidence(e, p, label, STRICT) = IF shared /\ j > 0 THEN Worth(weight, agreement, j) ELSE 0
    BY <1>1 DEF TagEvidence, Worth
<1>3. TagEvidence(e, p, label, STRICT) \in Nat
    BY TagIsEvidence
<1>4. agreement \in Nat /\ weight \in Nat
    BY Agreement
<1>5. ASSUME Seed \in Carriers(d, label) PROVE i \in Nat /\ j \in Nat /\ i <= j
    <2> DEFINE n == Cardinality(d.rows)
               o == Cardinality(e.rows)
               m == Cardinality(Carriers(d, label))
    <2>1. /\ n \in 1..Cardinality(Photos) /\ o \in 1..Cardinality(Photos) /\ m \in 1..n
          /\ i \in Nat /\ j \in Nat
        BY <1>1, <1>5, CarrierCount
    <2>2. n <= o
        <3>1. IsFiniteSet(e.rows) /\ d.rows \in SUBSET e.rows
            BY PhotosFinite DEF MoreData, Library
        <3> QED BY <3>1, FS_Subset
    <2>3. i = Idf[n][m] /\ j = Idf[o][m]
        BY <1>1 DEF Damping
    <2> HIDE DEF n, o, m, i, j
    <2>4. \A k, l \in 1..Cardinality(Photos) : \A c \in 1..k : k <= l => Idf[k][c] <= Idf[l][c]
        BY SimilarAssumption
    <2>5. Idf[n][m] <= Idf[o][m]
        BY <2>1, <2>2, <2>4, Zenon
    <2> QED BY <2>1, <2>3, <2>5
<1>6. CASE shared /\ i > 0
    <2>1. i \in Nat /\ j \in Nat /\ i <= j
        BY <1>5, <1>6
    <2> HIDE DEF agreement, weight, i, j
    <2>2. j > 0
        BY <1>6, <2>1
    <2>3. Worth(weight, agreement, i) <= Worth(weight, agreement, j)
        BY <1>4, <2>1, RarerIsWorthMore
    <2> QED BY <1>2, <1>6, <2>2, <2>3
<1>7. CASE ~(shared /\ i > 0)
    <2>1. TagEvidence(d, p, label, STRICT) = 0
        BY <1>2, <1>7
    <2> QED BY <1>3, <2>1
<1> QED BY <1>6, <1>7

\* Each signal has the data it had.
LEMMA MoreEvidence ==
    ASSUME NEW d \in Library, Staged(d), NEW e \in Library, Staged(e), MoreData(d, e), NEW p \in Others,
           NEW signal \in Signals
    PROVE  Evidence(d, p, STRICT)[signal] <= Evidence(e, p, STRICT)[signal]
<1>1. /\ e.alike[p] = d.alike[p]
      /\ d.alike[p].image \in Int /\ d.alike[p].caption \in Int /\ d.alike[p].moment \in Int
    BY ProfileFields, BrowseAssumption DEF MoreData, Library
<1>2. /\ ImageEvidence(d.alike[p].image, STRICT) \in Nat
      /\ CaptionEvidence(d.alike[p].caption, STRICT) \in Nat
    BY <1>1, RawEvidence
<1>3. Evidence(d, p, STRICT)[signal] \in Nat /\ Evidence(e, p, STRICT)[signal] \in Nat
    BY EvidenceIs
<1>4. CASE signal = "image"
    <2>1. {Seed, p} \subseteq d.embedded => {Seed, p} \subseteq e.embedded
        BY DEF MoreData
    <2>2. CASE {Seed, p} \subseteq d.embedded
        <3>1. Evidence(d, p, STRICT)[signal] = Evidence(e, p, STRICT)[signal]
            BY <1>1, <1>4, <2>1, <2>2 DEF Evidence
        <3> QED BY <1>3, <3>1
    <2>3. CASE ~({Seed, p} \subseteq d.embedded)
        <3>1. Evidence(d, p, STRICT)[signal] = 0
            BY <1>4, <2>3 DEF Evidence
        <3> QED BY <1>3, <3>1
    <2> QED BY <2>2, <2>3
<1>5. CASE signal = "caption"
    <2>1. p \in CaptionHits(d, STRICT) => p \in CaptionHits(e, STRICT)
        BY <1>1 DEF MoreData, CaptionHits
    <2>2. CASE p \in CaptionHits(d, STRICT)
        <3>1. Evidence(d, p, STRICT)[signal] = Evidence(e, p, STRICT)[signal]
            BY <1>1, <1>5, <2>1, <2>2 DEF Evidence
        <3> QED BY <1>3, <3>1
    <2>3. CASE p \notin CaptionHits(d, STRICT)
        <3>1. Evidence(d, p, STRICT)[signal] = 0
            BY <1>5, <2>3 DEF Evidence
        <3> QED BY <1>3, <3>1
    <2> QED BY <2>2, <2>3
<1>6. CASE signal = "moment"
    <2>1. p \in MomentHits(d, STRICT) => p \in MomentHits(e, STRICT)
        BY <1>1 DEF MoreData, MomentHits
    <2>2. CASE p \in MomentHits(d, STRICT)
        <3>1. Evidence(d, p, STRICT)[signal] = Evidence(e, p, STRICT)[signal]
            BY <1>1, <1>6, <2>1, <2>2 DEF Evidence
        <3> QED BY <1>3, <3>1
    <2>3. CASE p \notin MomentHits(d, STRICT)
        <3>1. Evidence(d, p, STRICT)[signal] = 0
            BY <1>6, <2>3 DEF Evidence
        <3> QED BY <1>3, <3>1
    <2> QED BY <2>2, <2>3
<1>7. CASE signal \notin {"image", "caption", "moment"}
    <2>1. signal \in Labels
        BY <1>7 DEF Signals
    <2>2. TagEvidence(d, p, signal, STRICT) <= TagEvidence(e, p, signal, STRICT)
        BY <2>1, SameTags
    <2> QED BY <1>7, <2>2 DEF Evidence
<1> QED BY <1>4, <1>5, <1>6, <1>7

\* A photo that matches the seed, in the reach of a query or not.
Match(d, p) ==
    /\ Qualifies(Evidence(d, p, STRICT))
    /\ Score(d, p, STRICT) >= STRICT.floor
    /\ Seed \in d.embedded \/ p \in MomentHits(d, STRICT)

LEMMA AdmittedMatches ==
    ASSUME NEW d \in Library, NEW p \in Admitted(d, STRICT, SIMILAR_K)
    PROVE  p \in Others /\ Match(d, p)
BY AdmittedAreOthers DEF Admitted, Candidates, Match

LEMMA MatchStays ==
    ASSUME NEW d \in Library, Staged(d), NEW e \in Library, Staged(e), MoreData(d, e),
           NEW p \in Others, Match(d, p)
    PROVE  Match(e, p)
<1>1. /\ Evidence(d, p, STRICT) \in [Signals -> Nat] /\ Evidence(e, p, STRICT) \in [Signals -> Nat]
      /\ \A signal \in Signals : Evidence(d, p, STRICT)[signal] <= Evidence(e, p, STRICT)[signal]
    BY EvidenceIs, MoreEvidence
<1>2. /\ Score(d, p, STRICT) \in Int /\ Score(e, p, STRICT) \in Int
      /\ Score(d, p, STRICT) <= Score(e, p, STRICT)
    BY <1>1, CombineMore DEF Score
<1>3. Qualifies(Evidence(e, p, STRICT))
    <2>1. PICK signal \in Signals : Content(signal) /\ Evidence(d, p, STRICT)[signal] > 0
        BY DEF Match, Qualifies
    <2>2. Evidence(e, p, STRICT)[signal] > 0
        BY <1>1, <2>1
    <2> QED BY <2>1, <2>2 DEF Qualifies
<1>4. Score(e, p, STRICT) >= STRICT.floor
    BY <1>2, Gates DEF Match
<1>5. Seed \in e.embedded \/ p \in MomentHits(e, STRICT)
    BY DEF Match, MoreData, MomentHits
<1> QED BY <1>3, <1>4, <1>5 DEF Match

\* A match is found by the signal that qualifies it, unless that is the look alone and
\* the query's reach is full.
LEMMA MatchFound ==
    ASSUME NEW d \in Library, Staged(d), NEW p \in Others, Match(d, p)
    PROVE  p \in Admitted(d, STRICT, SIMILAR_K) \/ Reach(SIMILAR_K) <= Cardinality(Closer(d, p))
<1> SUFFICES ASSUME ~(Reach(SIMILAR_K) <= Cardinality(Closer(d, p)))
             PROVE  p \in Candidates(d, STRICT, SIMILAR_K)
    BY DEF Match, Admitted
<1>1. CASE Seed \notin d.embedded
    BY <1>1 DEF Match, Candidates
<1>2. CASE Seed \in d.embedded
    <2>1. Cardinality(Closer(d, p)) < Reach(SIMILAR_K)
        <3>1. Cardinality(Closer(d, p)) \in Nat
            BY PhotosFinite DEF Closer, Library
        <3>2. Reach(SIMILAR_K) \in Nat
            BY SimilarAssumption DEF Reach
        <3> QED BY <3>1, <3>2
    <2>2. PICK signal \in Signals : Evidence(d, p, STRICT)[signal] > 0
        BY DEF Match, Qualifies
    <2>3. ~(0 > 0)
        OBVIOUS
    <2>4. CASE signal = "image"
        <3>1. p \in d.embedded
            BY <2>2, <2>3, <2>4 DEF Evidence
        <3>2. p \in Neighbours(d, Reach(SIMILAR_K))
            BY <2>1, <3>1 DEF Neighbours, Others
        <3> QED BY <1>2, <3>2 DEF Candidates
    <2>5. CASE signal = "caption"
        <3>1. p \in CaptionHits(d, STRICT)
            BY <2>2, <2>3, <2>5 DEF Evidence
        <3> QED BY <1>2, <3>1 DEF Candidates
    <2>6. CASE signal = "moment"
        <3>1. p \in MomentHits(d, STRICT)
            BY <2>2, <2>3, <2>6 DEF Evidence
        <3> QED BY <1>2, <3>1 DEF Candidates
    <2>7. CASE signal \notin {"image", "caption", "moment"}
        <3>1. signal \in Labels /\ TagEvidence(d, p, signal, STRICT) > 0
            BY <2>2, <2>7 DEF Evidence, Signals
        <3>2. p \in Carriers(d, signal)
            BY <2>3, <3>1 DEF TagEvidence
        <3>3. p \in TagHits(d)
            BY <3>1, <3>2 DEF TagHits, Carriers, Others
        <3> QED BY <1>2, <3>3 DEF Candidates
    <2> QED BY <2>4, <2>5, <2>6, <2>7
<1> QED BY <1>1, <1>2

\* With the labels as they are a library only grows by arrivals, vectors and captions.
LEMMA DataComes ==
    ASSUME TypeInv, Staged(library), [Next]_vars,
           library.rows \subseteq library'.rows, library'.tagged = library.tagged
    PROVE  /\ library \in Library /\ library' \in Library /\ Staged(library')
           /\ MoreData(library, library')
<1>1. library \in Library /\ library' \in Library /\ Staged(library')
    BY TypeNext, StagedNext DEF TypeInv
<1> USE DEF Change, MoreData
<1>2. CASE OpenGrid \/ Scroll \/ OpenPhoto \/ ShowMore \/ Close
    BY <1>1, <1>2 DEF OpenGrid, Scroll, OpenPhoto, ShowMore, Close
<1>3. ASSUME NEW p \in Others, NEW loose \in BOOLEAN, OpenMatch(p, loose) PROVE MoreData(library, library')
    BY <1>3 DEF OpenMatch
<1>4. ASSUME NEW p \in Photos, Leave(p) PROVE FALSE
    BY <1>1, <1>4 DEF Leave, Library
<1>5. ASSUME NEW p \in Photos, Tag(p) \/ Untag(p) PROVE FALSE
    BY <1>1, <1>5 DEF Tag, Untag, Library
<1>6. ASSUME NEW p \in Photos, Arrive(p) \/ Embed(p) \/ Describe(p) PROVE MoreData(library, library')
    BY <1>1, <1>6 DEF Arrive, Embed, Describe, Library
<1>7. CASE UNCHANGED vars
    <2>1. library' = library
        BY <1>7 DEF vars
    <2> QED BY <1>1, <2>1
<1> QED BY <1>1, <1>2, <1>3, <1>4, <1>5, <1>6, <1>7 DEF Next

\* The seed query looks at the nearest photos only, and a library of any size may embed
\* enough of them to push one out: this is the one way for photos, vectors and captions
\* that come to lose a match (LostToCloser).
THEOREM OnlyPushedOut == Spec => LostToCloser
<1> DEFINE Kept ==
        library.rows \subseteq library'.rows /\ library'.tagged = library.tagged
        => \A p \in Admitted(library, STRICT, SIMILAR_K) :
              \/ p \in Admitted(library', STRICT, SIMILAR_K)
              \/ Reach(SIMILAR_K) <= Cardinality(Closer(library', p))
<1>1. TypeInv /\ Staged(library) /\ [Next]_vars => [Kept]_library
    <2> SUFFICES ASSUME TypeInv, Staged(library), [Next]_vars,
                        library.rows \subseteq library'.rows, library'.tagged = library.tagged,
                        NEW p \in Admitted(library, STRICT, SIMILAR_K)
                 PROVE  \/ p \in Admitted(library', STRICT, SIMILAR_K)
                        \/ Reach(SIMILAR_K) <= Cardinality(Closer(library', p))
        OBVIOUS
    <2>1. /\ library \in Library /\ library' \in Library /\ Staged(library')
          /\ MoreData(library, library')
        BY DataComes
    <2>2. p \in Others /\ Match(library', p)
        BY <2>1, AdmittedMatches, MatchStays
    <2> QED BY <2>1, <2>2, MatchFound
<1>2. TypeInv /\ Staged(library) /\ [Next]_vars => Staged(library)'
    BY StagedNext DEF Staged
<1> QED BY <1>1, <1>2, StagedInit, TypeInit, TypeNext, PTL DEF Spec, LostToCloser

-----------------------------------------------------------------------------
(* A strip and its photos, a while later.                                  *)

\* While no photo left and no label changed, what the page shows still matches.
ShownInv ==
    view = "photo" /\ ~gone /\ ~retagged =>
        /\ Seed \in library.rows
        /\ \A p \in shown : p \in Others /\ Match(library, p)

LEMMA ShownNext == TypeInv /\ Staged(library) /\ ShownInv /\ [Next]_vars => ShownInv'
<1> SUFFICES ASSUME TypeInv, Staged(library), ShownInv, [Next]_vars,
                    view' = "photo", ~gone', ~retagged'
             PROVE  /\ Seed \in library'.rows
                    /\ \A p \in shown' : p \in Others /\ Match(library', p)
    BY DEF ShownInv
<1>1. library \in Library /\ library' \in Library /\ Staged(library')
    BY TypeNext, StagedNext DEF TypeInv
<1>2. CASE OpenGrid \/ Scroll \/ Close
    BY <1>2 DEF OpenGrid, Scroll, Close
<1>3. CASE OpenPhoto
    <2>1. library' = library /\ Seed \in library.rows /\ shown' \subseteq Strip(library)
        BY <1>3 DEF OpenPhoto
    <2>2. Strip(library) \subseteq Admitted(library, STRICT, SIMILAR_K)
        BY DEF Strip, SimilarPhotos
    <2> QED BY <1>1, <2>1, <2>2, AdmittedMatches
<1>4. CASE ShowMore
    BY <1>4 DEF ShowMore, since, ShownInv
<1>5. ASSUME NEW p \in Others, NEW loose \in BOOLEAN, OpenMatch(p, loose) PROVE FALSE
    BY <1>5 DEF OpenMatch
<1>6. ASSUME NEW p \in Photos,
             Arrive(p) \/ Leave(p) \/ Embed(p) \/ Tag(p) \/ Untag(p) \/ Describe(p)
      PROVE  /\ Seed \in library'.rows
             /\ \A r \in shown' : r \in Others /\ Match(library', r)
    <2>1. /\ view = "photo" /\ shown' = shown /\ ~gone /\ ~retagged
          /\ library.rows \subseteq library'.rows /\ MoreData(library, library')
        BY <1>6, Changed DEF page
    <2> QED BY <1>1, <2>1, MatchStays DEF ShownInv
<1>7. CASE UNCHANGED vars
    BY <1>7 DEF vars, page, since, ShownInv
<1> QED BY <1>2, <1>3, <1>4, <1>5, <1>6, <1>7 DEF Next

\* A click on a photo that still matches.
LEMMA MatchOpens ==
    ASSUME TypeInv, Staged(library), ShownInv, ~gone, ~retagged, NEW p \in Others, OpenMatch(p, FALSE)
    PROVE  panel'.evidence # <<>> \/ PushedOut(library, panel'.id)
<1>1. library \in Library
    BY DEF TypeInv
<1>2. /\ Seed \in library.rows /\ Match(library, p)
      /\ panel'.id = p
      /\ p \in Strip(library) => panel'.evidence = Breakdown(library, p, STRICT)
    BY DEF OpenMatch, ShownInv, Layer
<1>3. Breakdown(library, p, STRICT) # <<>>
    <2>1. "image" \in DOMAIN Breakdown(library, p, STRICT)
        BY DEF Breakdown, Signals
    <2>2. DOMAIN <<>> = {}
        OBVIOUS
    <2> QED BY <2>1, <2>2
<1>4. CASE Reach(SIMILAR_K) <= Cardinality(Closer(library, p))
    BY <1>2, <1>4 DEF PushedOut
<1>5. CASE p \in Admitted(library, STRICT, SIMILAR_K) /\ p \notin Strip(library)
    <2>1. ~(Cardinality(Better(library, STRICT, SIMILAR_K, p)) < SIMILAR_K)
        BY <1>5 DEF Strip, SimilarPhotos
    <2>2. Cardinality(Better(library, STRICT, SIMILAR_K, p)) \in Nat /\ SIMILAR_K \in Nat
        BY <1>1, AdmittedAreOthers, PhotosFinite, SimilarAssumption DEF Better, Others
    <2> QED BY <1>2, <2>1, <2>2 DEF PushedOut
<1>6. CASE p \in Strip(library)
    BY <1>2, <1>3, <1>6
<1> QED BY <1>1, <1>2, <1>4, <1>5, <1>6, MatchFound

\* A thumbnail clicked a while after its page was shown, the library having grown, opens
\* with its reasons unless nearer or better photos put it out (ShownStillOpens), for any
\* library, album, reach and length of the strip.
THEOREM ClickedIsExplained == Spec => ShownStillOpens
<1> DEFINE Opens ==
        view = "photo" /\ view' = "match" /\ ~panel'.loose /\ ~gone /\ ~retagged
        => panel'.evidence # <<>> \/ PushedOut(library, panel'.id)
<1>1. TypeInv /\ Staged(library) /\ ShownInv /\ [Next]_vars => [Opens]_<<view, panel>>
    <2> SUFFICES ASSUME TypeInv, Staged(library), ShownInv, [Next]_vars,
                        view = "photo", view' = "match", ~panel'.loose, ~gone, ~retagged
                 PROVE  panel'.evidence # <<>> \/ PushedOut(library, panel'.id)
        OBVIOUS
    <2>1. ASSUME NEW p \in Others, NEW loose \in BOOLEAN, OpenMatch(p, loose)
          PROVE  panel'.evidence # <<>> \/ PushedOut(library, panel'.id)
        <3>1. panel'.loose = loose
            BY <2>1 DEF OpenMatch
        <3>2. OpenMatch(p, FALSE)
            BY <2>1, <3>1
        <3> QED BY <3>2, MatchOpens
    <2>2. CASE OpenGrid \/ Scroll \/ OpenPhoto \/ ShowMore \/ Close
        BY <2>2 DEF OpenGrid, Scroll, OpenPhoto, ShowMore, Close
    <2>3. ASSUME NEW p \in Photos,
                 Arrive(p) \/ Leave(p) \/ Embed(p) \/ Tag(p) \/ Untag(p) \/ Describe(p)
          PROVE  FALSE
        BY <2>3, Changed
    <2>4. CASE UNCHANGED vars
        BY <2>4 DEF vars
    <2> QED BY <2>1, <2>2, <2>3, <2>4 DEF Next
<1>2. TypeInv /\ Staged(library) /\ [Next]_vars => Staged(library)'
    BY StagedNext DEF Staged
<1>3. Init => ShownInv
    BY DEF Init, ShownInv
<1> QED BY <1>1, <1>2, <1>3, ShownNext, StagedInit, TypeInit, TypeNext, PTL DEF Spec, ShownStillOpens
=============================================================================
