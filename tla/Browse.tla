------------------------------- MODULE Browse -------------------------------
(***************************************************************************)
(* Browsing a library that is being processed (the library and photo pages *)
(* of web/app.py).                                                         *)
(*                                                                         *)
(* The grid is scrolled page by page, by offset.  A photo's page asks for  *)
(* its similar photos, and for more of them, and leaves out those of the   *)
(* album it was opened in; a match opens in the layer of its origin, with  *)
(* the reasons of the match.  Each request reads the library anew, while   *)
(* photos arrive, go, and are embedded, tagged and described.              *)
(***************************************************************************)
EXTENDS Similar

CONSTANTS
    Profiles,       \* how a photo may compare with the seed
    Collections,    \* the albums and memories with the seed; {} stands for the library
    PageSize,
    MaxChanges      \* bound

\* Cosines; the strength of a shared moment, and the weaker of two confidences.
Cosine == (-1000)..1000
Share == 0..1000
Profile == [image : Cosine, caption : Cosine, moment : Share, soon : BOOLEAN, tags : [Labels -> Share]]

\* Photos that share a moment are within the time the scan looks at (_MAX_GAP_HOURS).
ASSUME BrowseAssumption ==
    /\ PageSize \in Nat \ {0}
    /\ Profiles \subseteq Profile
    /\ \A c \in Collections : c \subseteq Photos /\ (c # {} => Seed \in c)
    /\ \A pair \in Profiles : pair.moment >= STRICT.moment => pair.soon

VARIABLES
    library,        \* photos, photo_vec, photo_tags, photos.caption_vec
    view,           \* what the browser shows: "none", "grid", "photo" or "match"
    grid, first,    \* the tiles so far; history: the ids there were at the first page
    more,           \* will the last tile ask for another page
    members,        \* the album whose collage the photo's page shows, {} if none
    shown,          \* the similar strip
    asked, wider,   \* was "Show more" pressed, and what it added
    panel,          \* of the match: its id and its evidence
    changes,
    gone, retagged  \* history: has a photo left, or its labels changed, since the view was opened

page  == <<grid, first, more, members, shown, asked, wider, panel>>
since == <<gone, retagged>>
vars  == <<library, view, page, changes, since>>

NoPanel == [id |-> 0, evidence |-> <<>>, loose |-> FALSE]

-----------------------------------------------------------------------------
\* How far the photos are: absent, thumbnailed, embedded, tagged, described.
At(stage, n) == {p \in Photos : stage[p] >= n}

Init ==
    /\ \E stage \in [Photos -> 0..4], alike \in [Others -> Profiles] :
          library = [rows |-> At(stage, 1), embedded |-> At(stage, 2), tagged |-> At(stage, 3),
                     described |-> At(stage, 4), alike |-> alike]
    /\ view = "none"
    /\ grid = <<>> /\ first = {} /\ more = FALSE
    /\ members = {} /\ shown = {} /\ asked = FALSE /\ wider = {} /\ panel = NoPanel
    /\ changes = 0 /\ gone = FALSE /\ retagged = FALSE

\* _ordered_ids: the newest first.
OrderedIds ==
    [n \in 1..Cardinality(library.rows) |->
        CHOOSE p \in library.rows : Cardinality({r \in library.rows : r > p}) = n - 1]

\* Bug variant of FetchPage: it begins one too late.
FetchPageLate(offset) ==
    SubSeq(OrderedIds, offset + 1 + (IF offset > 0 THEN 1 ELSE 0),
           IF Len(OrderedIds) < offset + PageSize THEN Len(OrderedIds) ELSE offset + PageSize)

\* LIMIT page_size OFFSET offset.
FetchPage(offset) ==
    SubSeq(OrderedIds, offset + 1,
           IF Len(OrderedIds) < offset + PageSize THEN Len(OrderedIds) ELSE offset + PageSize)

\* A page that is full asks for the next one.
OpenGrid ==
    /\ view = "none"
    /\ view' = "grid"
    /\ grid' = FetchPage(0) /\ first' = library.rows
    /\ more' = (Len(grid') = PageSize)
    /\ gone' = FALSE /\ retagged' = FALSE
    /\ UNCHANGED <<library, members, shown, asked, wider, panel, changes>>

Scroll ==
    /\ view = "grid" /\ more
    /\ grid' = grid \o FetchPage(Len(grid))
    /\ more' = (Len(grid') = Len(grid) + PageSize)
    /\ UNCHANGED <<library, view, first, members, shown, asked, wider, panel, changes, since>>

\* The page of the seed, from the grid, or from an album: the collage shows the album,
\* and the strip does not show it again.
OpenPhoto ==
    /\ view \in {"none", "grid"} /\ Seed \in library.rows
    /\ view = "grid" => Contains(grid, Seed)
    /\ view' = "photo"
    /\ \E c \in Collections :
          /\ c \subseteq library.rows /\ (view = "grid" => c = {})
          /\ members' = c /\ shown' = Strip(library) \ c
    /\ asked' = FALSE /\ wider' = {}
    /\ gone' = FALSE /\ retagged' = FALSE
    /\ grid' = <<>> /\ first' = {} /\ more' = FALSE
    /\ UNCHANGED <<library, panel, changes>>

\* can_widen: the strip was not filled.  A memory that was rebuilt meanwhile is not found
\* any more, and its photos are not left out.
ShowMore ==
    /\ view = "photo" /\ ~asked /\ Cardinality(shown) < SIMILAR_K
    /\ Seed \in library.rows
    /\ asked' = TRUE
    /\ \E c \in {members, {}} : wider' = MoreStrip(library) \ c
    /\ UNCHANGED <<library, view, grid, first, more, members, shown, panel, changes, since>>

\* The collection of the layer "similar:<id>", and of "similar:<id>:more": the album is
\* not left out.
Layer(loose) == Strip(library) \union (IF loose THEN MoreStrip(library) ELSE {})

\* A thumbnail of a strip is opened.  A photo that is not in its layer any more falls
\* back to the library, without a panel.
OpenMatch(p, loose) ==
    /\ view = "photo" /\ p \in library.rows
    /\ p \in IF loose THEN wider ELSE shown
    /\ view' = "match"
    /\ panel' = [id |-> p, loose |-> loose,
                 evidence |-> IF Seed \in library.rows /\ p \in Layer(loose)
                              THEN Breakdown(library, p, STRICT) ELSE <<>>]
    /\ UNCHANGED <<library, grid, first, more, members, shown, asked, wider, changes, since>>

Close ==
    /\ view # "none"
    /\ view' = "none"
    /\ grid' = <<>> /\ first' = {} /\ more' = FALSE
    /\ members' = {} /\ shown' = {} /\ asked' = FALSE /\ wider' = {} /\ panel' = NoPanel
    /\ gone' = FALSE /\ retagged' = FALSE
    /\ UNCHANGED <<library, changes>>

-----------------------------------------------------------------------------
(* Meanwhile.                                                              *)

Change(next, leaves, tags) ==
    /\ changes < MaxChanges
    /\ changes' = changes + 1
    /\ library' = next
    /\ gone' = (gone \/ leaves) /\ retagged' = (retagged \/ tags)
    /\ UNCHANGED <<view, page>>

Arrive(p) ==
    /\ p \notin library.rows
    /\ Change([library EXCEPT !.rows = @ \union {p}], FALSE, FALSE)

Leave(p) ==
    /\ p \in library.rows
    /\ Change([library EXCEPT !.rows = @ \ {p}, !.embedded = @ \ {p}, !.tagged = @ \ {p},
                              !.described = @ \ {p}], TRUE, FALSE)

Embed(p) ==
    /\ p \in library.rows \ library.embedded
    /\ Change([library EXCEPT !.embedded = @ \union {p}], FALSE, FALSE)

Tag(p) ==
    /\ p \in library.embedded \ library.tagged
    /\ Change([library EXCEPT !.tagged = @ \union {p}], FALSE, TRUE)

\* A reprocess clears the tags first.
Untag(p) ==
    /\ p \in library.tagged
    /\ Change([library EXCEPT !.tagged = @ \ {p}], FALSE, TRUE)

Describe(p) ==
    /\ p \in library.rows \ library.described
    /\ Change([library EXCEPT !.described = @ \union {p}], FALSE, FALSE)

Next ==
    \/ OpenGrid \/ Scroll \/ OpenPhoto \/ ShowMore \/ Close
    \/ \E p \in Others, loose \in BOOLEAN : OpenMatch(p, loose)
    \/ \E p \in Photos : Arrive(p) \/ Leave(p) \/ Embed(p) \/ Tag(p) \/ Untag(p) \/ Describe(p)

Spec == Init /\ [][Next]_vars

-----------------------------------------------------------------------------
(* Properties.                                                             *)

\* Out of the strip: a query looks at so many photos that are nearer, or the strip's
\* places are taken by better ones.
PushedOut(d, p) ==
    \/ Reach(SIMILAR_K) <= Cardinality(Closer(d, p))
    \/ SIMILAR_K <= Cardinality(Better(d, STRICT, SIMILAR_K, p))

\* semantic.py: the panel and the ranking never disagree about what drove a match.
\* Here for a match of the default strip, whatever changed since the strip was shown.
PanelExplains ==
    [][ view # "match" /\ panel'.evidence # <<>> /\ ~panel'.loose
        => panel'.evidence = Evidence(library, panel'.id, STRICT) ]_panel

\* A photo of the strip that is clicked opens with its reasons, though the layer is
\* computed anew and photos have arrived, been embedded and been described since the page
\* was shown: only nearer or better photos put it out (app.py, _collection_for_photo).
\* Labels aside: each one added makes it commoner, and one that goes is no reason.
ShownStillOpens ==
    [][ view = "photo" /\ view' = "match" /\ ~panel'.loose /\ ~gone /\ ~retagged
        => panel'.evidence # <<>> \/ PushedOut(library, panel'.id) ]_<<view, panel>>

\* Looser gates lose no photo, and weaken no match.
LooserKeeps ==
    \A p \in Admitted(library, STRICT, SIMILAR_K) :
        /\ p \in Admitted(library, LOOSE, SIMILAR_K + LOOSE_LIMIT)
        /\ Score(library, p, LOOSE) >= Score(library, p, STRICT)

\* A photo that shares the moment and nothing else is not in the strip but behind "Show
\* more" (signals.py at the floor, and its test of a lone moment).
MomentBehindMore ==
    \A p \in MomentHits(library, STRICT) :
        (\A signal \in Signals \ {"moment"} : Evidence(library, p, STRICT)[signal] = 0)
        => p \notin Strip(library) /\ p \in Admitted(library, LOOSE, SIMILAR_K + LOOSE_LIMIT)

\* The numbers of the gates and the floor do what they are for.
GatesHold == LooserKeeps /\ MomentBehindMore

\* Missing data is no evidence against a photo: when one arrives, or gets its vector or
\* its caption, the seed itself too, a match is lost only to the nearer ones that fill
\* the query's reach.
LostToCloser ==
    [][ library.rows \subseteq library'.rows /\ library'.tagged = library.tagged
        => \A p \in Admitted(library, STRICT, SIMILAR_K) :
              \/ p \in Admitted(library', STRICT, SIMILAR_K)
              \/ Reach(SIMILAR_K) <= Cardinality(Closer(library', p)) ]_library

\* A grid scrolled to its end shows every photo that there was at its first page, if
\* none has left since, whatever has arrived.
NothingSkipped ==
    view = "grid" /\ ~more /\ ~gone => first \subseteq ToSet(grid)
=============================================================================
