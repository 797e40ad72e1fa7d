------------------------------ MODULE Similar ------------------------------
(***************************************************************************)
(* What makes a photo similar to another, the seed (search/signals.py,     *)
(* scoring.py, moment.py, semantic.py, and the seed half of retriever.py). *)
(*                                                                         *)
(* Every signal that clears its gate is evidence, in thousandths; a photo  *)
(* with evidence about its content is scored by a noisy-OR and shown if    *)
(* the score clears the floor.  The panel that explains a match computes   *)
(* the evidence a second time, on its own.                                 *)
(*                                                                         *)
(* A library d is a record: rows, and the rows that have a vector, tags    *)
(* and a caption vector (embedded, tagged, described); and alike, how each *)
(* photo compares with the seed once both have the data.                   *)
(***************************************************************************)
EXTENDS Integers, SequencesExt

CONSTANTS
    Photos, Seed,
    Tier,        \* the tier of every label
    Idf,         \* Idf[n][m]: how rare a label is that m of n photos carry
    NEAREST,     \* how many neighbours a query looks at: 30
    SIMILAR_K,   \* the places of the strip: 12
    LOOSE_LIMIT  \* what "Show more" may add: 6

Others == Photos \ {Seed}
Labels == DOMAIN Tier

\* A label is the rarer the larger the library is that as many photos carry it in: Idf
\* is log(n / m) / log(n).
ASSUME SimilarAssumption ==
    /\ IsFiniteSet(Photos) /\ Photos \subseteq Nat /\ Seed \in Photos
    /\ IsFiniteSet(Labels) /\ Tier \in [Labels -> {"subject", "where", "look", "quality"}]
    /\ \A n \in 1..Cardinality(Photos) : \A m \in 1..n : Idf[n][m] \in 0..1000
    /\ \A n, o \in 1..Cardinality(Photos) : \A m \in 1..n : n <= o => Idf[n][m] <= Idf[o][m]
    /\ {NEAREST, SIMILAR_K, LOOSE_LIMIT} \subseteq Nat \ {0}

\* Bug variant of STRICT: the floor of an earlier release.
STRICTOldFloor ==
    [image |-> 800, caption |-> 750, moment |-> 200, subject |-> 800, tag |-> 500, floor |-> 250]

STRICT == [image |-> 800, caption |-> 750, moment |-> 200, subject |-> 800, tag |-> 500, floor |-> 450]

\* Bug variant of LOOSE: a gate is above the strict one.
LOOSECaptionHigh == [image |-> 660, caption |-> 860, moment |-> 80, subject |-> 550, tag |-> 350, floor |-> 120]

LOOSE == [image |-> 660, caption |-> 680, moment |-> 80, subject |-> 550, tag |-> 350, floor |-> 120]

TierWeight == [subject |-> 750, where |-> 400, look |-> 120, quality |-> 30]
IDF_FLOOR == 400

Signals == {"image", "caption", "moment"} \union Labels

\* May this signal make two photos similar by itself?
Content(signal) == signal \in {"image", "caption", "moment"} \/ Tier[signal] = "subject"

-----------------------------------------------------------------------------
(* Evidence; zero is absent.                                               *)

\* cosine_strength: half at the gate, all at one.
Strength(raw, gate) == IF raw < gate THEN 0 ELSE 500 + (500 * (raw - gate)) \div (1000 - gate)

ImageEvidence(raw, gates)   == (950 * Strength(raw, gates.image)) \div 1000
CaptionEvidence(raw, gates) == (650 * Strength(raw, gates.caption)) \div 1000
MomentEvidence(raw, gates)  == (350 * Strength(raw, gates.moment)) \div 1000

\* The photos that carry a label: the seed carries them all.
Carriers(d, label) ==
    {p \in d.tagged : p = Seed \/ d.alike[p].tags[label] > 0}

Damping(d, label) == Idf[Cardinality(d.rows)][Cardinality(Carriers(d, label))]

TagGate(label, gates) == IF Tier[label] = "subject" THEN gates.subject ELSE gates.tag

\* tag_contribution of a label both carry, at the weaker of the two confidences.
TagEvidence(d, p, label, gates) ==
    LET agreement == d.alike[p].tags[label]
        idf       == Damping(d, label)
    IN  IF {Seed, p} \subseteq Carriers(d, label) /\ idf > 0 /\ agreement >= TagGate(label, gates)
        THEN (((TierWeight[Tier[label]] * agreement) \div 1000) * (IDF_FLOOR + (600 * idf) \div 1000)) \div 1000
        ELSE 0

\* combine: each signal takes its share of what is left, of a million.
Combine(evidence) ==
    (1000000 - FoldFunction(LAMBDA e, left : (left * (1000 - (IF e > 990 THEN 990 ELSE e))) \div 1000,
                            1000000, evidence)) \div 1000

-----------------------------------------------------------------------------
(* The seed query.                                                         *)

\* moment_similarity: the scan stops at the time at which a strict gate can be met.  The
\* strength, from the gap in hours and metres, is given with the pair.
MomentHits(d, gates) ==
    {p \in d.rows \ {Seed} : d.alike[p].soon /\ d.alike[p].moment >= gates.moment}

CaptionHits(d, gates) ==
    {p \in d.described \ {Seed} : Seed \in d.described /\ d.alike[p].caption >= gates.caption}

\* _tag_similarity is called without gates: they are the strict ones.
TagHits(d) == {p \in d.tagged \ {Seed} : \E label \in Labels : TagEvidence(d, p, label, STRICT) > 0}

\* The photos that look more like the seed than p; the nearest have few of them.
Closer(d, p) ==
    {r \in d.embedded \ {Seed} :
        \/ d.alike[r].image > d.alike[p].image
        \/ d.alike[r].image = d.alike[p].image /\ r < p}

Neighbours(d, k) == {p \in d.embedded \ {Seed} : Cardinality(Closer(d, p)) < k}

Reach(k) == IF k > NEAREST THEN k ELSE NEAREST

Candidates(d, gates, k) ==
    IF Seed \notin d.embedded THEN MomentHits(d, gates)
    ELSE Neighbours(d, Reach(k)) \union TagHits(d) \union CaptionHits(d, gates) \union MomentHits(d, gates)

\* Bug variant of Evidence: a photo without a caption vector is taken for an exact match.
EvidenceMissingIsFull(d, p, gates) ==
    [signal \in Signals |->
        CASE signal = "image"   -> IF {Seed, p} \subseteq d.embedded THEN ImageEvidence(d.alike[p].image, gates) ELSE 0
          [] signal = "caption" -> IF {Seed, p} \subseteq d.described THEN CaptionEvidence(d.alike[p].caption, gates) ELSE 650
          [] signal = "moment"  -> IF p \in MomentHits(d, gates) THEN MomentEvidence(d.alike[p].moment, gates) ELSE 0
          [] OTHER -> TagEvidence(d, p, signal, STRICT)]

\* _seed_contributions.  A signal one of the two has no data for is absent.
Evidence(d, p, gates) ==
    [signal \in Signals |->
        CASE signal = "image"   -> IF {Seed, p} \subseteq d.embedded THEN ImageEvidence(d.alike[p].image, gates) ELSE 0
          [] signal = "caption" -> IF p \in CaptionHits(d, gates) THEN CaptionEvidence(d.alike[p].caption, gates) ELSE 0
          [] signal = "moment"  -> IF p \in MomentHits(d, gates) THEN MomentEvidence(d.alike[p].moment, gates) ELSE 0
          [] OTHER -> TagEvidence(d, p, signal, STRICT)]

Score(d, p, gates) == Combine(Evidence(d, p, gates))

Qualifies(evidence) == \E signal \in Signals : Content(signal) /\ evidence[signal] > 0

\* refine, before the cut at k.
Admitted(d, gates, k) ==
    {p \in Candidates(d, gates, k) :
        Qualifies(Evidence(d, p, gates)) /\ Score(d, p, gates) >= gates.floor}

\* The admitted photos that rank before p; which of two equals comes first is not said.
Better(d, gates, k, p) ==
    {r \in Admitted(d, gates, k) :
        \/ Score(d, r, gates) > Score(d, p, gates)
        \/ Score(d, r, gates) = Score(d, p, gates) /\ r < p}

\* The first k of them.  A strip is the set of its photos: their order is the ranking's.
SimilarPhotos(d, gates, k) ==
    {p \in Admitted(d, gates, k) : Cardinality(Better(d, gates, k, p)) < k}

Strip(d) == SimilarPhotos(d, STRICT, SIMILAR_K)

\* The loose ones that the strip does not show, in their order.
MoreStrip(d) ==
    LET extra == SimilarPhotos(d, LOOSE, SIMILAR_K + LOOSE_LIMIT) \ Strip(d)
    IN  {p \in extra :
            Cardinality(extra \intersect Better(d, LOOSE, SIMILAR_K + LOOSE_LIMIT, p)) < LOOSE_LIMIT}

-----------------------------------------------------------------------------
\* Bug variant of Breakdown: the visual row is not gated.
BreakdownUngated(d, p, gates) ==
    [signal \in Signals |->
        CASE signal = "image"   -> IF {Seed, p} \subseteq d.embedded THEN (950 * d.alike[p].image) \div 1000 ELSE 0
          [] signal = "caption" -> IF {Seed, p} \subseteq d.described THEN CaptionEvidence(d.alike[p].caption, gates) ELSE 0
          [] signal = "moment"  -> MomentEvidence(d.alike[p].moment, gates)
          [] OTHER -> TagEvidence(d, p, signal, gates)]

\* similarity_breakdown: the evidence once more, with the caller's gates for the tags
\* and without the limit on the time between the two.
Breakdown(d, p, gates) ==
    [signal \in Signals |->
        CASE signal = "image"   -> IF {Seed, p} \subseteq d.embedded THEN ImageEvidence(d.alike[p].image, gates) ELSE 0
          [] signal = "caption" -> IF {Seed, p} \subseteq d.described THEN CaptionEvidence(d.alike[p].caption, gates) ELSE 0
          [] signal = "moment"  -> IF p \in d.rows THEN MomentEvidence(d.alike[p].moment, gates) ELSE 0
          [] OTHER -> TagEvidence(d, p, signal, gates)]
=============================================================================
