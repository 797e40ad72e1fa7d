--------------------------- MODULE ConveyorProofs ---------------------------
(***************************************************************************)
(* What holds of the model conveyor for any number of threads and slots,   *)
(* any costs and any budget.                                               *)
(***************************************************************************)
EXTENDS Conveyor, TLAPS, SequenceTheorems, FiniteSetTheorems, WellFoundedInduction

-----------------------------------------------------------------------------
(* Sequences without repetitions, and what is taken out of them.           *)

Distinct(s) == \A j, k \in 1..Len(s) : s[j] = s[k] => j = k

LessThan == OpToRel(<, Nat)

\* A nonempty set of naturals has a least element.
LEMMA LeastNat ==
    ASSUME NEW S \in SUBSET Nat, S # {}
    PROVE  \E x \in S : \A y \in S : x <= y
<1>1. IsWellFoundedOn(LessThan, Nat)
    BY NatLessThanWellFounded, Zenon DEF LessThan
<1>2. \A x, y \in Nat : x < y => <<x, y>> \in LessThan
    BY DEF LessThan, OpToRel
<1>3. PICK x \in S : \A y \in S : ~(<<y, x>> \in LessThan)
    BY <1>1, WFMin
<1>4. ASSUME NEW y \in S PROVE x <= y
    <2>1. ~(y < x)
        BY <1>2, <1>3
    <2> QED BY <2>1
<1> QED BY <1>4

\* RemoveAt closes the gap it leaves.
LEMMA RemoveAtProps ==
    ASSUME NEW S, NEW s \in Seq(S), NEW i \in 1..Len(s)
    PROVE  /\ RemoveAt(s, i) \in Seq(S)
           /\ Len(RemoveAt(s, i)) = Len(s) - 1
           /\ \A j \in 1..(Len(s) - 1) : RemoveAt(s, i)[j] = IF j < i THEN s[j] ELSE s[j + 1]
<1>1. /\ SubSeq(s, 1, i - 1) \in Seq(S) /\ Len(SubSeq(s, 1, i - 1)) = i - 1
      /\ \A j \in 1..(i - 1) : SubSeq(s, 1, i - 1)[j] = s[j]
    BY LenProperties, ElementOfSeq, SubSeqProperties
<1>2. /\ SubSeq(s, i + 1, Len(s)) \in Seq(S) /\ Len(SubSeq(s, i + 1, Len(s))) = Len(s) - i
      /\ \A j \in 1..(Len(s) - i) : SubSeq(s, i + 1, Len(s))[j] = s[i + j]
    BY LenProperties, ElementOfSeq, SubSeqProperties
<1>3. PICK a \in Seq(S), b \in Seq(S) :
        /\ RemoveAt(s, i) = a \o b
        /\ Len(a) = i - 1 /\ \A j \in 1..(i - 1) : a[j] = s[j]
        /\ Len(b) = Len(s) - i /\ \A j \in 1..(Len(s) - i) : b[j] = s[i + j]
    BY <1>1, <1>2, Zenon DEF RemoveAt
<1>4. a \o b \in Seq(S) /\ Len(a \o b) = Len(a) + Len(b)
    BY ConcatProperties
<1>5. Len(a \o b) = Len(s) - 1
    BY <1>3, <1>4
<1>6. ASSUME NEW j \in 1..(Len(s) - 1)
      PROVE  (a \o b)[j] = IF j < i THEN s[j] ELSE s[j + 1]
    <2>1. CASE j < i
        BY <1>3, <2>1
    <2>2. CASE ~(j < i)
        <3>1. j - (i - 1) \in 1..(Len(s) - i) /\ i + (j - (i - 1)) = j + 1
            BY <2>2
        <3>2. (a \o b)[j] = b[j - (i - 1)]
            BY <1>3, <2>2
        <3> QED BY <1>3, <2>2, <3>1, <3>2
    <2> QED BY <2>1, <2>2
<1> QED BY <1>3, <1>4, <1>5, <1>6

\* What RemoveAt takes from a sequence without repetitions.
LEMMA RemoveAtSet ==
    ASSUME NEW S, NEW s \in Seq(S), NEW i \in 1..Len(s),
           Distinct(s)
    PROVE  /\ RemoveAt(s, i) \in Seq(S)
           /\ Distinct(RemoveAt(s, i))
           /\ ToSet(RemoveAt(s, i)) = ToSet(s) \ {s[i]}
<1>1. PICK r \in Seq(S) :
        /\ r = RemoveAt(s, i) /\ Len(r) = Len(s) - 1
        /\ \A j \in 1..(Len(s) - 1) : r[j] = IF j < i THEN s[j] ELSE s[j + 1]
    BY RemoveAtProps
<1>2. Len(s) \in Nat /\ DOMAIN s = 1..Len(s) /\ DOMAIN r = 1..Len(r)
    OBVIOUS
<1>3. ASSUME NEW j \in 1..Len(r), NEW k \in 1..Len(r), r[j] = r[k]
      PROVE  j = k
    BY <1>1, <1>2, <1>3 DEF Distinct
<1>4. ASSUME NEW j \in 1..Len(r)
      PROVE  r[j] \in ToSet(s) \ {s[i]}
    BY <1>1, <1>2 DEF ToSet, Distinct
<1>5. ASSUME NEW j \in 1..Len(s), j # i
      PROVE  s[j] \in ToSet(r)
    <2>1. CASE j < i
        BY <1>1, <1>2, <2>1 DEF ToSet
    <2>2. CASE j > i
        <3>1. j - 1 \in 1..Len(r) /\ r[j - 1] = s[j]
            BY <1>1, <1>2, <2>2
        <3> QED BY <1>2, <3>1 DEF ToSet
    <2> QED BY <1>5, <2>1, <2>2
<1>6. ToSet(r) = ToSet(s) \ {s[i]}
    BY <1>2, <1>4, <1>5 DEF ToSet
<1> QED BY <1>1, <1>3, <1>6 DEF Distinct

\* RemoveFirst is RemoveAt at some place that holds the element, if there is one.
LEMMA RemoveFirstPlace ==
    ASSUME NEW S, NEW s \in Seq(S), NEW e
    PROVE  \/ RemoveFirst(s, e) = s /\ e \notin ToSet(s)
           \/ \E i \in 1..Len(s) : s[i] = e /\ RemoveFirst(s, e) = RemoveAt(s, i)
<1> DEFINE I == {i \in 1..Len(s) : s[i] = e}
<1>1. CASE I = {}
    <2>1. ~ \E i \in 1..Len(s) : s[i] = e
        BY <1>1
    <2> QED BY <2>1 DEF RemoveFirst, ToSet
<1>2. CASE I # {}
    <2>1. I \in SUBSET Nat
        OBVIOUS
    <2>2. Min(I) \in I
        BY <1>2, <2>1, LeastNat DEF Min
    <2>3. RemoveFirst(s, e) = RemoveAt(s, Min(I))
        BY <1>2 DEF RemoveFirst, SelectInSeq
    <2> QED BY <2>2, <2>3
<1> QED BY <1>1, <1>2

\* RemoveFirst of a sequence is a sequence.
LEMMA RemoveFirstType ==
    ASSUME NEW S, NEW s \in Seq(S), NEW e
    PROVE  RemoveFirst(s, e) \in Seq(S)
BY RemoveFirstPlace, RemoveAtProps

\* RemoveFirst takes one element out of a sequence without repetitions.
LEMMA RemoveFirstSet ==
    ASSUME NEW S, NEW s \in Seq(S), Distinct(s), NEW e
    PROVE  /\ RemoveFirst(s, e) \in Seq(S)
           /\ Distinct(RemoveFirst(s, e))
           /\ ToSet(RemoveFirst(s, e)) = ToSet(s) \ {e}
BY RemoveFirstPlace, RemoveAtSet

\* A sequence without elements is empty.
LEMMA NoElements ==
    ASSUME NEW S, NEW s \in Seq(S), ToSet(s) = {}
    PROVE  s = <<>>
<1>1. DOMAIN s = 1..Len(s) /\ Len(s) \in Nat
    OBVIOUS
<1>2. ~(1 \in 1..Len(s))
    <2>1. \A i \in DOMAIN s : s[i] \in ToSet(s)
        BY DEF ToSet
    <2> QED BY <1>1, <2>1
<1> QED BY <1>1, <1>2, EmptySeq

\* Append of a new element.
LEMMA AppendSet ==
    ASSUME NEW S, NEW s \in Seq(S), Distinct(s), NEW e \in S, e \notin ToSet(s)
    PROVE  /\ Append(s, e) \in Seq(S)
           /\ Distinct(Append(s, e))
           /\ ToSet(Append(s, e)) = ToSet(s) \union {e}
           /\ Append(s, e) # <<>>
<1>1. PICK r \in Seq(S) :
        /\ r = Append(s, e) /\ Len(r) = Len(s) + 1
        /\ \A j \in 1..Len(r) : r[j] = IF j <= Len(s) THEN s[j] ELSE e
    <2>1. Append(s, e) \in Seq(S) /\ Len(Append(s, e)) = Len(s) + 1
        OBVIOUS
    <2>2. \A j \in 1..Len(Append(s, e)) : Append(s, e)[j] = IF j <= Len(s) THEN s[j] ELSE e
        OBVIOUS
    <2> QED BY <2>1, <2>2, Zenon
<1>2. Len(s) \in Nat /\ DOMAIN s = 1..Len(s) /\ DOMAIN r = 1..Len(r)
    OBVIOUS
<1>3. \A j \in 1..Len(s) : s[j] # e
    BY <1>2 DEF ToSet
<1>4. Distinct(r)
    BY <1>1, <1>2, <1>3 DEF Distinct
<1>5. ToSet(r) = ToSet(s) \union {e}
    <2>1. ASSUME NEW j \in 1..Len(r)
          PROVE  r[j] \in ToSet(s) \union {e}
        BY <1>1, <1>2 DEF ToSet
    <2>2. ASSUME NEW j \in 1..Len(s)
          PROVE  s[j] \in ToSet(r)
        BY <1>1, <1>2 DEF ToSet
    <2>3. e \in ToSet(r)
        BY <1>1, <1>2 DEF ToSet
    <2> QED BY <1>2, <2>1, <2>2, <2>3 DEF ToSet
<1> QED BY <1>1, <1>4, <1>5

-----------------------------------------------------------------------------
(* The invariants.                                                         *)

InSlot == {o \in Ops : at[o] \in Slotted}

\* The queue holds each waiting call once, and every slot is somewhere.
SlotInv ==
    /\ at \in [Ops -> Places]
    /\ need \in [Ops -> Units \union {"none"}]
    /\ queue \in Seq(Ops) /\ Distinct(queue)
    /\ free \in Nat
    /\ \A i \in 1..Len(queue) : at[queue[i]] = "queued"
    /\ \A o \in Ops : at[o] \in Waiting \union Slotted => need[o] \in Units
    /\ SlotsAccounted

\* The resident set: no unit twice, within the budget, one llm mode at a time.
RegistryInv ==
    /\ loaded \in Seq(Units) /\ Distinct(loaded)
    /\ alive \subseteq ToSet(loaded)
    /\ ~(LlmUnits \subseteq ToSet(loaded))
    /\ BudgetHeld

\* The last uses and the reapers' candidates are llm units.
IdleInv ==
    /\ lock \in Ops \union {NoOne}
    /\ used \in Seq(LlmUnits) /\ stale \subseteq LlmUnits
    /\ aged \in [Ops -> SUBSET LlmUnits]

Inv == SlotInv /\ RegistryInv /\ IdleInv

\* A thread's place among those of a slot or of none, without the queue.
LEMMA GotoType ==
    ASSUME SlotInv, NEW o \in Ops, NEW place \in Places, Goto(o, place)
    PROVE  /\ at' \in [Ops -> Places]
           /\ at'[o] = place
           /\ \A p \in Ops \ {o} : at'[p] = at[p]
BY DEF Goto, SlotInv

\* The threads in a slot are finitely many.
LEMMA InSlotFinite == IsFiniteSet(InSlot) /\ Cardinality(InSlot) \in Nat
BY ConveyorAssumption, FS_Subset, FS_CardinalityType DEF ConveyorAssumption, InSlot

\* A step that takes no slot and gives none back.
LEMMA MoveKeepsSlots ==
    ASSUME SlotInv, NEW o \in Ops, NEW place \in Places, Goto(o, place),
           at[o] # "queued", place # "queued",
           at[o] \in Slotted <=> place \in Slotted,
           UNCHANGED <<need, queue, free>>
    PROVE  SlotInv'
<1>1. InSlot' = InSlot
    BY GotoType DEF InSlot
<1>2. \A i \in 1..Len(queue) : at'[queue[i]] = "queued"
    <2>1. ASSUME NEW i \in 1..Len(queue) PROVE queue[i] \in Ops \ {o}
        BY DEF SlotInv
    <2> QED BY <2>1, GotoType DEF SlotInv
<1>3. \A p \in Ops : at'[p] \in Waiting \union Slotted => need[p] \in Units
    BY GotoType DEF SlotInv, Waiting
<1>4. SlotsAccounted'
    BY <1>1 DEF SlotInv, SlotsAccounted, InSlot
<1> QED BY <1>2, <1>3, <1>4, GotoType DEF SlotInv

\* _admit: a slot is taken or the call is queued.
LEMMA RequestKeepsSlots ==
    ASSUME SlotInv, NEW o \in Ops, Request(o)
    PROVE  SlotInv'
<1>1. /\ at[o] = "idle"
      /\ need' \in [Ops -> Units \union {"none"}]
      /\ need'[o] \in Units
      /\ \A p \in Ops \ {o} : need'[p] = need[p]
    BY DEF Request, SlotInv
<1>2. \A i \in 1..Len(queue) : queue[i] \in Ops \ {o}
    BY <1>1 DEF SlotInv
<1>3. Len(queue) \in Nat /\ DOMAIN queue = 1..Len(queue) /\ o \notin ToSet(queue)
    BY <1>2 DEF SlotInv, ToSet
<1>4. CASE free > 0 /\ queue = <<>> /\ free' = free - 1 /\ Goto(o, "admitted") /\ UNCHANGED queue
    <2>1. InSlot' = InSlot \union {o} /\ o \notin InSlot
        BY <1>1, <1>4, GotoType DEF InSlot, Slotted, Places
    <2>2. Cardinality(InSlot') = Cardinality(InSlot) + 1
        BY <2>1, InSlotFinite, FS_AddElement
    <2>3. SlotsAccounted'
        BY <1>4, <2>2, InSlotFinite DEF SlotInv, SlotsAccounted, InSlot
    <2>4. at' \in [Ops -> Places] /\ at'[o] = "admitted" /\ \A p \in Ops \ {o} : at'[p] = at[p]
        BY <1>4, GotoType DEF Places, Slotted
    <2>5. \A p \in Ops : at'[p] \in Waiting \union Slotted => need'[p] \in Units
        BY <1>1, <2>4 DEF SlotInv
    <2> QED BY <1>1, <1>2, <1>4, <2>3, <2>4, <2>5 DEF SlotInv
<1>5. CASE ~(free > 0 /\ queue = <<>>) /\ queue' = Append(queue, o) /\ Goto(o, "queued") /\ UNCHANGED free
    <2>1. at' \in [Ops -> Places] /\ at'[o] = "queued" /\ \A p \in Ops \ {o} : at'[p] = at[p]
        BY <1>5, GotoType DEF Places, Waiting
    <2>2. InSlot' = InSlot
        BY <1>1, <2>1 DEF InSlot, Slotted
    <2>3. queue' \in Seq(Ops) /\ Distinct(queue') /\ queue' # <<>>
        BY <1>3, <1>5, AppendSet DEF SlotInv
    <2>4. \A i \in 1..Len(queue') : at'[queue'[i]] = "queued"
        <3>1. ASSUME NEW i \in 1..Len(queue')
              PROVE  queue'[i] = IF i <= Len(queue) THEN queue[i] ELSE o
            BY <1>5 DEF SlotInv
        <3>2. Len(queue') = Len(queue) + 1
            BY <1>5 DEF SlotInv
        <3> QED BY <1>2, <1>3, <2>1, <3>1, <3>2 DEF SlotInv
    <2>5. free = 0
        BY <1>5 DEF SlotInv, SlotsAccounted
    <2>6. SlotsAccounted'
        BY <1>5, <2>2, <2>5 DEF SlotInv, SlotsAccounted, InSlot
    <2>7. \A p \in Ops : at'[p] \in Waiting \union Slotted => need'[p] \in Units
        BY <1>1, <2>1 DEF SlotInv
    <2> QED BY <1>1, <1>5, <2>1, <2>3, <2>4, <2>6, <2>7 DEF SlotInv
<1> QED BY <1>4, <1>5 DEF Request

\* The head of the heap is a place in the queue, and nothing precedes it.
LEMMA FirstIsHead ==
    ASSUME SlotInv, queue # <<>>
    PROVE  /\ First \in 1..Len(queue)
           /\ \A j \in 1..Len(queue) :
                Rank(First) > Rank(j) \/ (Rank(First) = Rank(j) /\ First <= j)
<1> DEFINE Before(i, j) == Rank(i) > Rank(j) \/ (Rank(i) = Rank(j) /\ i <= j)
           High == {i \in 1..Len(queue) : Rank(i) = 2}
<1>1. Len(queue) \in Nat /\ Len(queue) > 0 /\ DOMAIN queue = 1..Len(queue)
    BY DEF SlotInv
<1>2. \A i \in 1..Len(queue) : Rank(i) \in {1, 2}
    BY DEF Rank, Priority
<1>3. \E i \in 1..Len(queue) : \A j \in 1..Len(queue) : Before(i, j)
    <2>1. CASE High = {}
        <3>1. \A j \in 1..Len(queue) : Rank(j) = 1
            BY <1>2, <2>1
        <3>2. \A j \in 1..Len(queue) : Before(1, j)
            BY <1>1, <3>1
        <3> QED BY <1>1, <3>2
    <2>2. CASE High # {}
        <3>1. PICK i \in High : \A j \in High : i <= j
            <4>1. High \in SUBSET Nat
                OBVIOUS
            <4> HIDE DEF High
            <4> QED BY <2>2, <4>1, LeastNat
        <3>2. \A j \in 1..Len(queue) : Before(i, j)
            BY <1>2, <3>1
        <3> QED BY <3>1, <3>2
    <2> QED BY <2>1, <2>2
<1>4. First \in 1..Len(queue) /\ \A j \in 1..Len(queue) : Before(First, j)
    BY <1>1, <1>3 DEF First
<1> QED BY <1>4

\* _release: the slot is free again or the winner's.
LEMMA HandOverKeepsSlots ==
    ASSUME SlotInv, NEW o \in Ops, at[o] \in Slotted, NEW place \in {"idle", "reap"},
           HandOver(o, place), need' = [need EXCEPT ![o] = "none"]
    PROVE  SlotInv'
<1>1. /\ need' \in [Ops -> Units \union {"none"}]
      /\ \A p \in Ops \ {o} : need'[p] = need[p]
    BY DEF SlotInv
<1>2. \A i \in 1..Len(queue) : queue[i] \in Ops \ {o}
    BY DEF SlotInv, Slotted
<1>3. o \in InSlot /\ place \in Places /\ place \notin Slotted \union Waiting
    BY DEF InSlot, Places, Reaping, Slotted, Waiting
<1>4. CASE queue = <<>> /\ free' = free + 1 /\ Goto(o, place) /\ UNCHANGED queue
    <2>1. at' \in [Ops -> Places] /\ at'[o] = place /\ \A p \in Ops \ {o} : at'[p] = at[p]
        BY <1>3, <1>4, GotoType
    <2>2. InSlot' = InSlot \ {o}
        BY <1>3, <2>1 DEF InSlot
    <2>3. Cardinality(InSlot') = Cardinality(InSlot) - 1
        BY <1>3, <2>2, InSlotFinite, FS_RemoveElement
    <2>4. SlotsAccounted'
        BY <1>4, <2>3, InSlotFinite, ConveyorAssumption
        DEF SlotInv, SlotsAccounted, InSlot, ConveyorAssumption
    <2>5. \A p \in Ops : at'[p] \in Waiting \union Slotted => need'[p] \in Units
        BY <1>1, <1>3, <2>1 DEF SlotInv
    <2> QED BY <1>1, <1>2, <1>4, <2>1, <2>4, <2>5 DEF SlotInv
<1>5. CASE /\ queue # <<>>
           /\ at' = [at EXCEPT ![o] = place, ![queue[First]] = "admitted"]
           /\ queue' = RemoveAt(queue, First)
           /\ UNCHANGED free
    <2>1. First \in 1..Len(queue)
        BY <1>5, FirstIsHead
    <2>2. PICK w \in Ops \ {o} : w = queue[First]
        BY <1>2, <2>1
    <2>3. /\ at' \in [Ops -> Places] /\ at'[o] = place /\ at'[w] = "admitted"
          /\ \A p \in Ops \ {o, w} : at'[p] = at[p]
        BY <1>3, <1>5, <2>2 DEF SlotInv, Places, Slotted
    <2>4. at[w] = "queued" /\ need[w] \in Units
        BY <2>1, <2>2 DEF SlotInv, Waiting
    <2>5. Cardinality(InSlot') = Cardinality(InSlot)
        <3>1. InSlot' = (InSlot \ {o}) \union {w} /\ w \notin InSlot
            BY <1>3, <2>2, <2>3, <2>4 DEF InSlot, Slotted
        <3>2. /\ IsFiniteSet(InSlot \ {o})
              /\ Cardinality(InSlot \ {o}) = Cardinality(InSlot) - 1
            BY <1>3, InSlotFinite, FS_RemoveElement
        <3>3. Cardinality((InSlot \ {o}) \union {w}) = Cardinality(InSlot \ {o}) + 1
            BY <3>1, <3>2, FS_AddElement
        <3> QED BY <3>1, <3>2, <3>3, InSlotFinite
    <2>6. /\ queue' \in Seq(Ops) /\ Distinct(queue')
          /\ ToSet(queue') = ToSet(queue) \ {w}
        BY <1>5, <2>1, <2>2, RemoveAtSet DEF SlotInv
    <2>7. \A i \in 1..Len(queue') : at'[queue'[i]] = "queued"
        <3>1. ASSUME NEW i \in 1..Len(queue')
              PROVE  queue'[i] \in ToSet(queue) \ {w}
            <4>1. DOMAIN queue' = 1..Len(queue')
                BY <2>6
            <4>2. queue'[i] \in ToSet(queue')
                BY <4>1 DEF ToSet
            <4> QED BY <2>6, <4>2
        <3>2. ASSUME NEW p \in ToSet(queue) \ {w}
              PROVE  p \in Ops \ {o, w} /\ at[p] = "queued"
            BY <1>2 DEF ToSet, SlotInv
        <3> QED BY <2>3, <3>1, <3>2
    <2>8. SlotsAccounted'
        BY <1>5, <2>5 DEF SlotInv, SlotsAccounted, InSlot
    <2>9. \A p \in Ops : at'[p] \in Waiting \union Slotted => need'[p] \in Units
        BY <1>1, <1>3, <2>2, <2>3, <2>4 DEF SlotInv
    <2> QED BY <1>1, <1>5, <2>3, <2>6, <2>7, <2>8, <2>9 DEF SlotInv
<1> QED BY <1>4, <1>5 DEF HandOver

\* The end of a reservation.
LEMMA ReleaseKeepsSlots ==
    ASSUME SlotInv, NEW o \in Ops, at[o] \in Slotted, NEW place \in {"idle", "reap"},
           Release(o, place)
    PROVE  SlotInv'
BY HandOverKeepsSlots DEF Release

\* The end of a reservation stamps the last use of an llm unit.
LEMMA ReleaseKeepsIdle ==
    ASSUME IdleInv, NEW o \in Ops, NEW place, Release(o, place), lock' \in {lock, NoOne}
    PROVE  IdleInv'
<1>1. used' \in Seq(LlmUnits)
    <2>1. CASE need[o] \in LlmUnits
        <3>1. RemoveFirst(used, need[o]) \in Seq(LlmUnits)
            BY RemoveFirstType DEF IdleInv
        <3> QED BY <2>1, <3>1, AppendProperties DEF Release
    <2>2. CASE need[o] \notin LlmUnits
        BY <2>2 DEF Release, IdleInv
    <2> QED BY <2>1, <2>2
<1> QED BY <1>1 DEF Release, IdleInv

-----------------------------------------------------------------------------
(* The registry's steps.                                                   *)

\* Fewer resident units cost no more.
LEMMA CostMonotone ==
    ASSUME NEW A, NEW B, A \subseteq B
    PROVE  CostOf(A) \in Nat /\ CostOf(B) \in Nat /\ CostOf(A) <= CostOf(B)
BY ConveyorAssumption DEF ConveyorAssumption, CostOf, Units, TorchUnits, LlmUnits

\* An unload: the unit leaves the resident set, and its child dies.
LEMMA UnloadKeepsRegistry ==
    ASSUME RegistryInv, NEW u \in Units,
           loaded' = RemoveFirst(loaded, u), alive' = alive \ Family(u)
    PROVE  RegistryInv'
<1>1. /\ loaded' \in Seq(Units) /\ Distinct(loaded')
      /\ ToSet(loaded') = ToSet(loaded) \ {u}
    BY RemoveFirstSet DEF RegistryInv
<1>2. u \in Family(u)
    BY DEF Family
<1>3. loaded' # <<>> => loaded # <<>>
    <2>1. SUFFICES ASSUME loaded = <<>> PROVE loaded' = <<>>
        OBVIOUS
    <2>2. ToSet(loaded) = {}
        BY <2>1 DEF ToSet
    <2> QED BY <1>1, <2>2, NoElements
<1>4. BudgetHeld'
    <2>1. CostOf(ToSet(loaded')) \in Nat /\ CostOf(ToSet(loaded)) \in Nat
          /\ CostOf(ToSet(loaded')) <= CostOf(ToSet(loaded))
        BY <1>1, CostMonotone
    <2>2. loaded' # <<>> => CostOf(ToSet(loaded')) + Headroom <= Budget
        BY <1>3, <2>1, ConveyorAssumption DEF RegistryInv, BudgetHeld, ConveyorAssumption
    <2> QED BY <2>2 DEF BudgetHeld, CostOf
<1> QED BY <1>1, <1>2, <1>4 DEF RegistryInv

\* What is left when a unit and, for an llm unit, the other mode are unloaded.
LEMMA KeptSet ==
    ASSUME RegistryInv, NEW u \in Units
    PROVE  /\ Kept(u) \in Seq(Units) /\ Distinct(Kept(u))
           /\ ToSet(Kept(u)) = ToSet(loaded) \ Family(u)
<1>1. CASE u \in LlmUnits
    <2>1. PICK s \in Seq(Units) :
            s = RemoveFirst(loaded, "llm") /\ Distinct(s) /\ ToSet(s) = ToSet(loaded) \ {"llm"}
        BY RemoveFirstSet DEF RegistryInv
    <2>2. /\ RemoveFirst(s, "llm_vision") \in Seq(Units)
          /\ Distinct(RemoveFirst(s, "llm_vision"))
          /\ ToSet(RemoveFirst(s, "llm_vision")) = ToSet(s) \ {"llm_vision"}
        BY <2>1, RemoveFirstSet
    <2> QED BY <1>1, <2>1, <2>2 DEF Kept, Family, LlmUnits
<1>2. CASE u \notin LlmUnits
    <2>1. /\ RemoveFirst(loaded, u) \in Seq(Units) /\ Distinct(RemoveFirst(loaded, u))
          /\ ToSet(RemoveFirst(loaded, u)) = ToSet(loaded) \ {u}
        BY RemoveFirstSet DEF RegistryInv
    <2> QED BY <1>2, <2>1 DEF Kept, Others, Family
<1> QED BY <1>1, <1>2

\* A load that fits, of a unit whose family has been unloaded.
LEMMA LoadKeepsRegistry ==
    ASSUME RegistryInv, NEW u \in Units, Fits(u),
           loaded' = Append(Kept(u), u), alive' = (alive \ Family(u)) \union {u}
    PROVE  RegistryInv'
<1>1. u \in Family(u) /\ (u \in LlmUnits => Family(u) = LlmUnits)
    BY DEF Family
<1>2. /\ loaded' \in Seq(Units) /\ Distinct(loaded')
      /\ ToSet(loaded') = (ToSet(loaded) \ Family(u)) \union {u}
    BY <1>1, KeptSet, AppendSet
<1>3. ~(LlmUnits \subseteq ToSet(loaded'))
    BY <1>1, <1>2 DEF RegistryInv, LlmUnits
<1>4. BudgetHeld'
    <2>1. /\ CostOf(ToSet(loaded')) \in Nat /\ CostOf(ToSet(loaded) \union {u}) \in Nat
          /\ CostOf(ToSet(loaded')) <= CostOf(ToSet(loaded) \union {u})
        BY <1>2, CostMonotone
    <2>2. CostOf(ToSet(loaded')) + Headroom <= Budget
        BY <2>1, ConveyorAssumption DEF Fits, ConveyorAssumption
    <2> QED BY <2>2 DEF BudgetHeld, CostOf
<1> QED BY <1>2, <1>3, <1>4 DEF RegistryInv

\* A load that fails leaves its family out.
LEMMA FailedLoadKeepsRegistry ==
    ASSUME RegistryInv, NEW u \in Units, Fits(u),
           loaded' = Kept(u), alive' = alive \ Family(u)
    PROVE  RegistryInv'
<1>1. /\ loaded' \in Seq(Units) /\ Distinct(loaded')
      /\ ToSet(loaded') = ToSet(loaded) \ Family(u)
    BY KeptSet
<1>2. BudgetHeld'
    <2>1. /\ CostOf(ToSet(loaded')) \in Nat /\ CostOf(ToSet(loaded) \union {u}) \in Nat
          /\ CostOf(ToSet(loaded')) <= CostOf(ToSet(loaded) \union {u})
        BY <1>1, CostMonotone
    <2>2. CostOf(ToSet(loaded')) + Headroom <= Budget
        BY <2>1, ConveyorAssumption DEF Fits, ConveyorAssumption
    <2> QED BY <2>2 DEF BudgetHeld, CostOf
<1> QED BY <1>1, <1>2 DEF RegistryInv

\* A touch moves a resident unit to the fresh end.
LEMMA TouchKeepsRegistry ==
    ASSUME RegistryInv, NEW u \in ToSet(loaded), u \in Units, Fits(u),
           loaded' = Append(Others(u), u), UNCHANGED alive
    PROVE  RegistryInv'
<1>1. /\ Others(u) \in Seq(Units) /\ Distinct(Others(u))
      /\ ToSet(Others(u)) = ToSet(loaded) \ {u}
    BY RemoveFirstSet DEF Others, RegistryInv
<1>2. /\ loaded' \in Seq(Units) /\ Distinct(loaded')
      /\ ToSet(loaded') = ToSet(loaded)
    BY <1>1, AppendSet
<1>3. ToSet(loaded) \union {u} = ToSet(loaded)
    OBVIOUS
<1>4. BudgetHeld'
    <2>1. CostOf(ToSet(loaded')) + Headroom <= Budget
        BY <1>2, <1>3 DEF Fits
    <2> QED BY <2>1 DEF BudgetHeld, CostOf
<1> QED BY <1>2, <1>4 DEF RegistryInv

-----------------------------------------------------------------------------
(* Every step keeps the invariants.                                        *)

\* A thread's step leaves the slots alone, moves it within them, or ends its
\* reservation.
LEMMA SlotEffect ==
    ASSUME SlotInv, NEW o \in Ops, Step(o)
    PROVE  \/ UNCHANGED slots
           \/ /\ UNCHANGED <<need, queue, free>>
              /\ at[o] # "queued"
              /\ \E place \in Places :
                    /\ Goto(o, place) /\ place # "queued"
                    /\ at[o] \in Slotted <=> place \in Slotted
           \/ /\ at[o] \in Slotted
              /\ \E place \in {"idle", "reap"} : Release(o, place)
<1> USE DEF Places, Slotted, Reaping, Waiting
<1>1. ASSUME Evict(o) PROVE UNCHANGED slots
    BY <1>1 DEF Evict
<1>2. ASSUME Refuse(o) \/ LoadFails(o) \/ Raise(o)
      PROVE  at[o] \in Slotted /\ Release(o, "idle")
    BY <1>2 DEF Refuse, LoadFails, Raise
<1>3. ASSUME Answer(o)
      PROVE  at[o] \in Slotted /\ \E place \in {"idle", "reap"} : Release(o, place)
    BY <1>3 DEF Answer
<1>4. ASSUME TakeLock(o) \/ Touch(o) \/ Load(o) \/ Call(o)
      PROVE  /\ UNCHANGED <<need, queue, free>>
             /\ at[o] \in Slotted
             /\ \E place \in Slotted : Goto(o, place)
    BY <1>4 DEF TakeLock, Touch, Load, Call
<1>5. ASSUME ReapBegin(o) \/ ReapCheck(o) \/ ReapUnload(o)
      PROVE  /\ UNCHANGED <<need, queue, free>>
             /\ at[o] \in Reaping
             /\ \E place \in Reaping \union {"idle"} : Goto(o, place)
    BY <1>5 DEF ReapBegin, ReapCheck, ReapUnload, Looked
<1> QED BY <1>1, <1>2, <1>3, <1>4, <1>5 DEF Step

\* SlotInv is kept.
LEMMA StepKeepsSlots ==
    ASSUME SlotInv, [Next]_vars
    PROVE  SlotInv'
<1>1. ASSUME UNCHANGED slots PROVE SlotInv'
    BY <1>1 DEF slots, SlotInv, SlotsAccounted
<1>2. ASSUME NEW o \in Ops, Step(o) PROVE SlotInv'
    BY <1>1, <1>2, SlotEffect, MoveKeepsSlots, ReleaseKeepsSlots
<1>3. ASSUME Age \/ (\E u \in Units : ChildDies(u)) \/ UNCHANGED vars
      PROVE  UNCHANGED slots
    BY <1>3 DEF Age, ChildDies, vars, slots
<1> QED BY <1>1, <1>2, <1>3, RequestKeepsSlots DEF Next

\* What a thread's step does to the registry.
LEMMA StepKeepsRegistry ==
    ASSUME SlotInv, RegistryInv, [Next]_vars
    PROVE  RegistryInv'
<1>1. ASSUME UNCHANGED registry PROVE RegistryInv'
    BY <1>1 DEF registry, RegistryInv, BudgetHeld
<1>2. ASSUME NEW o \in Ops, at[o] = "room" PROVE need[o] \in Units
    BY <1>2 DEF SlotInv, Slotted
<1>3. ASSUME NEW o \in Ops, Step(o) PROVE RegistryInv'
    <2>1. CASE TakeLock(o) \/ Refuse(o) \/ Call(o) \/ Answer(o) \/ Raise(o) \/ ReapBegin(o) \/ ReapCheck(o)
        BY <1>1, <2>1
        DEF TakeLock, Refuse, Call, Answer, Raise, ReapBegin, ReapCheck, registry
    <2>2. CASE Evict(o)
        <3>1. Others(need[o]) \in Seq(Units) /\ Others(need[o]) # <<>>
            BY <2>2, RemoveFirstType DEF Evict, Others, RegistryInv
        <3>2. Head(Others(need[o])) \in Units
            BY <3>1, HeadTailProperties
        <3> QED BY <2>2, <3>2, UnloadKeepsRegistry DEF Evict
    <2>3. CASE Touch(o)
        BY <1>2, <2>3, TouchKeepsRegistry DEF Touch, Usable
    <2>4. CASE Load(o)
        <3>1. need[o] \in Units /\ need[o] \in Family(need[o])
            BY <1>2, <2>4 DEF Load, Family
        <3>2. alive' = (alive \ Family(need[o])) \union {need[o]}
            BY <2>4 DEF Load
        <3> QED BY <2>4, <3>1, <3>2, LoadKeepsRegistry DEF Load
    <2>5. CASE LoadFails(o)
        BY <1>2, <2>5, FailedLoadKeepsRegistry DEF LoadFails
    <2>6. CASE ReapUnload(o)
        <3>1. PICK u \in Units :
                /\ loaded' = RemoveFirst(loaded, u)
                /\ alive' = IF u \in ToSet(loaded) THEN alive \ Family(u) ELSE alive
            BY <2>6 DEF ReapUnload, Candidate, Units, LlmUnits
        <3>2. CASE u \in ToSet(loaded)
            BY <3>1, <3>2, UnloadKeepsRegistry
        <3>3. CASE u \notin ToSet(loaded)
            <4>1. loaded' = loaded
                BY <3>1, <3>3, RemoveFirstPlace DEF RegistryInv, ToSet
            <4> QED BY <1>1, <3>1, <3>3, <4>1 DEF registry
        <3> QED BY <3>2, <3>3
    <2> QED BY <1>3, <2>1, <2>2, <2>3, <2>4, <2>5, <2>6 DEF Step
<1>4. ASSUME NEW u \in Units, ChildDies(u) PROVE RegistryInv'
    BY <1>4 DEF ChildDies, RegistryInv, BudgetHeld
<1>5. ASSUME Age \/ (\E o \in Ops : Request(o)) \/ UNCHANGED vars
      PROVE  UNCHANGED registry
    BY <1>5 DEF Age, Request, vars, registry
<1> QED BY <1>1, <1>3, <1>4, <1>5 DEF Next

\* What a step does to the lock, the last uses and the reapers' candidates.
LEMMA StepKeepsIdle ==
    ASSUME IdleInv, [Next]_vars
    PROVE  IdleInv'
<1>1. ASSUME UNCHANGED idle, lock' \in Ops \union {NoOne} PROVE IdleInv'
    BY <1>1 DEF idle, IdleInv
<1>2. ASSUME NEW o \in Ops, Step(o) PROVE IdleInv'
    <2>1. CASE TakeLock(o) \/ Evict(o) \/ Touch(o) \/ Load(o) \/ Call(o)
        BY <1>1, <2>1 DEF TakeLock, Evict, Touch, Load, Call, idle, IdleInv
    <2>2. CASE Refuse(o) \/ LoadFails(o) \/ Answer(o) \/ Raise(o)
        <3>1. (\E place \in {"idle", "reap"} : Release(o, place)) /\ lock' \in {lock, NoOne}
            BY <2>2 DEF Refuse, LoadFails, Answer, Raise
        <3> QED BY <3>1, ReleaseKeepsIdle
    <2>3. CASE ReapBegin(o) \/ ReapCheck(o)
        BY <2>3 DEF ReapBegin, ReapCheck, Looked, IdleInv
    <2>4. CASE ReapUnload(o)
        <3>1. RemoveFirst(used, Candidate(o)) \in Seq(LlmUnits)
            BY RemoveFirstType DEF IdleInv
        <3> QED BY <2>4, <3>1 DEF ReapUnload, Looked, IdleInv
    <2> QED BY <1>2, <2>1, <2>2, <2>3, <2>4 DEF Step
<1>3. ASSUME Age PROVE IdleInv'
    <2>1. Head(used) \in LlmUnits /\ Tail(used) \in Seq(LlmUnits)
        BY <1>3, HeadTailProperties DEF Age, IdleInv
    <2> QED BY <1>3, <2>1 DEF Age, IdleInv
<1>4. ASSUME (\E o \in Ops : Request(o)) \/ (\E u \in Units : ChildDies(u)) \/ UNCHANGED vars
      PROVE  UNCHANGED idle /\ lock' \in Ops \union {NoOne}
    BY <1>4 DEF Request, ChildDies, vars, idle, IdleInv
<1> QED BY <1>1, <1>2, <1>3, <1>4 DEF Next

\* The initial state.
LEMMA InitInv == Init => Inv
<1> SUFFICES ASSUME Init PROVE Inv
    OBVIOUS
<1>1. <<>> \in Seq(Ops) /\ <<>> \in Seq(Units) /\ <<>> \in Seq(LlmUnits)
      /\ Distinct(<<>>) /\ Len(<<>>) = 0
    BY DEF Distinct
<1>2. InSlot = {}
    BY DEF Init, InSlot, Slotted
<1>3. SlotsAccounted
    <2>1. Cardinality(InSlot) = 0
        BY <1>2, FS_EmptySet
    <2>2. free + Cardinality(InSlot) = Concurrency /\ queue = <<>>
        BY <2>1, ConveyorAssumption DEF Init, ConveyorAssumption
    <2> QED BY <2>2 DEF SlotsAccounted, InSlot
<1>4. SlotInv
    BY <1>1, <1>3, ConveyorAssumption
    DEF Init, SlotInv, Places, Waiting, Slotted, ConveyorAssumption
<1>5. RegistryInv
    BY <1>1 DEF Init, RegistryInv, BudgetHeld, ToSet, LlmUnits
<1>6. IdleInv
    BY <1>1 DEF Init, IdleInv
<1> QED BY <1>4, <1>5, <1>6 DEF Inv

\* The invariant is inductive.
LEMMA Invariance == Spec => []Inv
<1>1. Inv /\ [Next]_vars => Inv'
    BY StepKeepsSlots, StepKeepsRegistry, StepKeepsIdle DEF Inv
<1> QED BY <1>1, InitInv, PTL DEF Spec

-----------------------------------------------------------------------------
(* The theorems.                                                           *)

\* Every variable stays in its domain.
THEOREM TypeCorrect == Spec => []TypeOK
<1>1. Inv => TypeOK
    <2> SUFFICES ASSUME Inv PROVE TypeOK
        OBVIOUS
    <2>1. free \in 0..Concurrency
        BY InSlotFinite, ConveyorAssumption
        DEF Inv, SlotInv, SlotsAccounted, InSlot, ConveyorAssumption
    <2>2. alive \subseteq Units
        BY DEF Inv, RegistryInv, ToSet
    <2> QED BY <2>1, <2>2 DEF Inv, SlotInv, RegistryInv, IdleInv, TypeOK
<1> QED BY <1>1, Invariance, PTL

\* No slot is lost or given twice, and none is free while a call waits
\* (Scheduler._admit, _release), for any number of threads and slots.
THEOREM SlotsSafe == Spec => []SlotsAccounted
<1>1. Inv => SlotsAccounted
    BY DEF Inv, SlotInv
<1> QED BY <1>1, Invariance, PTL

\* The resident set stays within the budget, whatever the costs
\* (MemoryGovernor.acquire).
THEOREM BudgetSafe == Spec => []BudgetHeld
<1>1. Inv => BudgetHeld
    BY DEF Inv, RegistryInv
<1> QED BY <1>1, Invariance, PTL

\* Every child that runs is accounted for, and at most one llm mode is called
\* resident (SlotManager._register_llm).
THEOREM RegistrySafe == Spec => []RegistryHonest
<1>1. Inv => RegistryHonest
    <2> SUFFICES ASSUME Inv PROVE RegistryHonest
        OBVIOUS
    <2> DEFINE Modes == LlmUnits \intersect ToSet(loaded)
    <2>1. Modes = {} \/ \E u \in LlmUnits : Modes = {u}
        BY DEF Inv, RegistryInv, LlmUnits
    <2>2. Cardinality(Modes) <= 1
        <3>1. CASE Modes = {}
            <4> HIDE DEF Modes
            <4> QED BY <3>1, FS_EmptySet
        <3>2. CASE \E u \in LlmUnits : Modes = {u}
            <4> HIDE DEF Modes
            <4>1. PICK u \in LlmUnits : Modes = {u}
                BY <3>2
            <4>2. Cardinality({u}) = 1
                BY FS_Singleton
            <4> QED BY <4>1, <4>2
        <3> QED BY <2>1, <3>1, <3>2
    <2> QED BY <2>2 DEF Inv, RegistryInv, RegistryHonest
<1> QED BY <1>1, Invariance, PTL

\* Who leaves the queue in a step is the head of the heap.
LEMMA OnlyTheHead ==
    ASSUME SlotInv, [Next]_vars, NEW i \in 1..Len(queue), at'[queue[i]] = "admitted"
    PROVE  i = First
<1>1. queue[i] \in Ops /\ at[queue[i]] = "queued"
    BY DEF SlotInv
<1>2. ASSUME NEW o \in Ops, NEW place \in Places, at[o] # "queued", Goto(o, place)
      PROVE  FALSE
    BY <1>1, <1>2, GotoType
<1>3. ASSUME NEW o \in Ops, Request(o) PROVE FALSE
    <2>1. at[o] # "queued" /\ \E place \in Places : Goto(o, place)
        BY <1>3 DEF Request, Places, Slotted, Waiting
    <2> QED BY <1>2, <2>1
<1>4. ASSUME UNCHANGED slots PROVE FALSE
    BY <1>1, <1>4 DEF slots
<1>5. ASSUME NEW o \in Ops, at[o] \in Slotted, NEW place \in {"idle", "reap"}, Release(o, place)
      PROVE  i = First
    <2>1. at[o] # "queued" /\ place \in Places
        BY <1>5 DEF Slotted, Places, Reaping
    <2>2. CASE Goto(o, place)
        BY <1>2, <2>1, <2>2
    <2>3. CASE at' = [at EXCEPT ![o] = place, ![queue[First]] = "admitted"]
        <3>1. queue[i] = queue[First]
            BY <1>1, <2>1, <2>3 DEF SlotInv
        <3>2. First \in 1..Len(queue)
            <4>1. queue # <<>>
                OBVIOUS
            <4> QED BY <4>1, FirstIsHead
        <3> QED BY <3>1, <3>2 DEF SlotInv, Distinct
    <2> QED BY <1>5, <2>2, <2>3 DEF Release, HandOver
<1>6. ASSUME NEW o \in Ops, Step(o) PROVE i = First
    BY <1>2, <1>4, <1>5, <1>6, SlotEffect
<1>7. ASSUME Age \/ (\E u \in Units : ChildDies(u)) \/ UNCHANGED vars
      PROVE  UNCHANGED slots
    BY <1>7 DEF Age, ChildDies, vars, slots
<1> QED BY <1>3, <1>4, <1>6, <1>7 DEF Next

\* A waiting call is passed only by a call of higher priority, or by one of its
\* own that came first (Scheduler._release), for any number of threads and slots.
THEOREM AdmissionFair == Spec => AdmissionOrder
<1> DEFINE Orderly ==
        \A i, j \in DOMAIN queue :
            /\ at[queue[i]] = "queued" /\ at'[queue[i]] = "admitted"
            /\ at'[queue[j]] = "queued"
            => \/ Priority(need[queue[i]]) > Priority(need[queue[j]])
               \/ Priority(need[queue[i]]) = Priority(need[queue[j]]) /\ i < j
<1>1. ASSUME SlotInv, [Next]_vars PROVE Orderly
    <2>1. SUFFICES ASSUME NEW i \in DOMAIN queue, NEW j \in DOMAIN queue,
                          at'[queue[i]] = "admitted", at'[queue[j]] = "queued"
                   PROVE  \/ Priority(need[queue[i]]) > Priority(need[queue[j]])
                          \/ Priority(need[queue[i]]) = Priority(need[queue[j]]) /\ i < j
        OBVIOUS
    <2>2. i \in 1..Len(queue) /\ j \in 1..Len(queue) /\ queue # <<>>
        BY <1>1 DEF SlotInv
    <2>3. i = First
        BY <1>1, <2>1, <2>2, OnlyTheHead
    <2>4. Rank(i) > Rank(j) \/ (Rank(i) = Rank(j) /\ i <= j)
        BY <1>1, <2>2, <2>3, FirstIsHead
    <2>5. i # j
        BY <2>1
    <2> QED BY <2>2, <2>4, <2>5 DEF Rank
<1>2. SlotInv /\ [Next]_vars => [Orderly]_vars
    BY <1>1
<1>3. Inv => SlotInv
    BY DEF Inv
<1> QED BY <1>2, <1>3, Invariance, PTL DEF Spec, AdmissionOrder

-----------------------------------------------------------------------------
(* Where the documentation's words on a model in use do hold: one slot.    *)

\* Every torch call that waits to start or runs has its child.
Resident == \A o \in Ops : Bereft(o) => need[o] \in LlmUnits

\* One slot holds one call.
LEMMA Alone ==
    ASSUME SlotInv, Concurrency = 1, NEW o \in InSlot, NEW p \in InSlot
    PROVE  o = p
<1>1. Cardinality(InSlot) <= 1
    BY InSlotFinite DEF SlotInv, SlotsAccounted, InSlot
<1>2. SUFFICES ASSUME o # p PROVE FALSE
    OBVIOUS
<1>3. /\ IsFiniteSet({o} \union {p})
      /\ Cardinality({o} \union {p}) = 2
    <2>1. IsFiniteSet({o}) /\ Cardinality({o}) = 1 /\ p \notin {o}
        BY <1>2, FS_Singleton
    <2> QED BY <2>1, FS_AddElement
<1>4. {o} \union {p} \in SUBSET InSlot
    OBVIOUS
<1> QED BY <1>1, <1>3, <1>4, InSlotFinite, FS_Subset

\* A reservation that ends brings no other call to its model.
LEMMA ReleaseStartsNone ==
    ASSUME SlotInv, NEW o \in Ops, at[o] \in Slotted, NEW place \in {"idle", "reap"},
           Release(o, place), NEW p \in Ops, at'[p] \notin {"idle", "reap", "admitted"}
    PROVE  at'[p] = at[p] /\ need'[p] = need[p]
<1>1. place \in Places
    BY DEF Places, Reaping
<1>2. CASE Goto(o, place)
    BY <1>1, <1>2, GotoType DEF Release, SlotInv
<1>3. CASE at' = [at EXCEPT ![o] = place, ![queue[First]] = "admitted"]
    BY <1>3 DEF Release, SlotInv
<1> QED BY <1>2, <1>3 DEF Release, HandOver

\* With one slot only a reaper takes the model of a call past its load.
LEMMA StepTakesNoModel ==
    ASSUME Concurrency = 1, SlotInv, RegistryInv, [Next]_vars,
           NEW p \in Ops, Bereft(p)', ~Bereft(p)
    PROVE  \E o \in Ops : ReapUnload(o) /\ need'[p] = Candidate(o)
<1>a. at'[p] \in {"ready", "call"} /\ need'[p] \notin ToSet(loaded)'
    BY DEF Bereft
<1>1. ASSUME at'[p] = at[p], need'[p] = need[p], UNCHANGED loaded PROVE FALSE
    BY <1>1, <1>a DEF Bereft
<1>2. ASSUME NEW o \in Ops \ {p}, at[o] \in Slotted, at'[p] = at[p] PROVE FALSE
    BY <1>2, <1>a, Alone DEF InSlot, Slotted
<1>3. ASSUME NEW o \in Ops, Request(o) PROVE FALSE
    <2>1. \E place \in {"admitted", "queued"} : Goto(o, place)
        BY <1>3 DEF Request
    <2>2. o # p /\ at'[p] = at[p]
        BY <1>a, <2>1, GotoType DEF Places, Slotted, Waiting
    <2> QED BY <1>1, <1>3, <2>2 DEF Request, SlotInv, registry
<1>4. ASSUME NEW o \in Ops, Step(o) PROVE ReapUnload(o) /\ need'[p] = Candidate(o)
    <2>1. ASSUME TakeLock(o) PROVE FALSE
        <3>1. at'[p] = at[p]
            BY <1>a, <2>1, GotoType DEF TakeLock, Places, Slotted
        <3> QED BY <1>1, <2>1, <3>1 DEF TakeLock, registry
    <2>2. ASSUME Evict(o) PROVE FALSE
        BY <1>2, <1>a, <2>2 DEF Evict, slots, Slotted
    <2>3. ASSUME Touch(o) \/ Load(o) PROVE FALSE
        <3>1. at[o] = "room" /\ Goto(o, "ready") /\ UNCHANGED need /\ need[o] \in Units
            BY <2>3 DEF Touch, Load, SlotInv, Slotted
        <3>2. o = p
            BY <1>2, <1>a, <3>1, GotoType DEF Places, Slotted
        <3>3. need[o] \in ToSet(loaded)'
            <4>1. PICK s \in Seq(Units) : loaded' = Append(s, need[o])
                <5>1. Kept(need[o]) \in Seq(Units)
                    BY <3>1, KeptSet
                <5>2. Others(need[o]) \in Seq(Units)
                    BY RemoveFirstType DEF Others, RegistryInv
                <5> QED BY <2>3, <5>1, <5>2 DEF Touch, Load
            <4>2. Len(s) + 1 \in DOMAIN loaded' /\ loaded'[Len(s) + 1] = need[o]
                BY <3>1, <4>1
            <4> QED BY <4>2 DEF ToSet
        <3> QED BY <1>a, <3>1, <3>2, <3>3
    <2>4. ASSUME Call(o) PROVE FALSE
        <3>1. at[o] = "ready" /\ Goto(o, "call") /\ UNCHANGED <<need, loaded>>
            BY <2>4 DEF Call, registry
        <3>2. at[p] \in {"ready", "call"}
            BY <1>a, <3>1, GotoType DEF Places, Slotted
        <3> QED BY <1>a, <3>1, <3>2 DEF Bereft
    <2>5. ASSUME Refuse(o) \/ LoadFails(o) \/ Answer(o) \/ Raise(o) PROVE FALSE
        <3>1. at[o] \in Slotted /\ \E place \in {"idle", "reap"} : Release(o, place)
            BY <2>5 DEF Refuse, LoadFails, Answer, Raise, Slotted
        <3>2. at'[p] = at[p] /\ need'[p] = need[p]
            BY <1>a, <3>1, ReleaseStartsNone
        <3>3. CASE LoadFails(o)
            BY <1>2, <1>a, <3>1, <3>2, <3>3 DEF LoadFails
        <3>4. CASE Refuse(o) \/ Answer(o) \/ Raise(o)
            BY <1>1, <3>2, <3>4 DEF Refuse, Answer, Raise, registry
        <3> QED BY <2>5, <3>3, <3>4
    <2>6. CASE ReapBegin(o) \/ ReapCheck(o) \/ ReapUnload(o)
        <3>1. UNCHANGED need /\ \E place \in {"idle", "check", "unload"} : Goto(o, place)
            BY <2>6 DEF ReapBegin, ReapCheck, ReapUnload, Looked
        <3>2. at'[p] = at[p]
            BY <1>a, <3>1, GotoType DEF Places, Reaping
        <3>3. CASE ReapBegin(o) \/ ReapCheck(o)
            BY <1>1, <3>1, <3>2, <3>3 DEF ReapBegin, ReapCheck, registry
        <3>4. CASE ReapUnload(o)
            <4>1. need[p] \in ToSet(loaded)
                BY <1>a, <3>2 DEF Bereft
            <4>2. loaded' = RemoveFirst(loaded, Candidate(o)) /\ Candidate(o) \in Units
                BY <3>4 DEF ReapUnload, Candidate, Units, LlmUnits
            <4>3. ToSet(loaded') = ToSet(loaded) \ {Candidate(o)}
                BY <4>2, RemoveFirstSet DEF RegistryInv
            <4> QED BY <1>a, <3>1, <3>4, <4>1, <4>3
        <3> QED BY <2>6, <3>3, <3>4
    <2> QED BY <1>4, <2>1, <2>2, <2>3, <2>4, <2>5, <2>6 DEF Step
<1>5. ASSUME Age \/ (\E u \in Units : ChildDies(u)) \/ UNCHANGED vars PROVE FALSE
    BY <1>1, <1>5 DEF Age, ChildDies, vars, slots, registry
<1> QED BY <1>3, <1>4, <1>5 DEF Next

\* A call past its load keeps its need.
LEMMA CallKeepsNeed ==
    ASSUME SlotInv, [Next]_vars, NEW p \in Ops,
           at[p] \in {"ready", "call"}, at'[p] \in {"ready", "call"}
    PROVE  need'[p] = need[p]
<1>1. ASSUME NEW o \in Ops, Request(o) PROVE need'[p] = need[p]
    BY <1>1 DEF Request, SlotInv
<1>2. ASSUME NEW o \in Ops, Refuse(o) \/ LoadFails(o) \/ Answer(o) \/ Raise(o)
      PROVE  need'[p] = need[p]
    <2>1. at[o] \in Slotted /\ \E place \in {"idle", "reap"} : Release(o, place)
        BY <1>2 DEF Refuse, LoadFails, Answer, Raise, Slotted
    <2> QED BY <2>1, ReleaseStartsNone
<1> QED BY <1>1, <1>2
    DEF Next, Step, TakeLock, Evict, Touch, Load, Call, ReapBegin, ReapCheck, ReapUnload,
        Age, ChildDies, vars, slots

\* Resident is kept, since a reaper takes nothing from a torch call.
LEMMA StepKeepsResident ==
    ASSUME Concurrency = 1, SlotInv, RegistryInv, Resident, [Next]_vars
    PROVE  Resident'
<1> SUFFICES ASSUME NEW p \in Ops, Bereft(p)' PROVE need'[p] \in LlmUnits
    BY DEF Resident
<1>1. CASE Bereft(p)
    <2>1. need'[p] = need[p]
        BY <1>1, CallKeepsNeed DEF Bereft
    <2> QED BY <1>1, <2>1 DEF Resident
<1>2. CASE ~Bereft(p)
    BY <1>2, StepTakesNoModel DEF Candidate, LlmUnits
<1> QED BY <1>1, <1>2

\* Where calls take turns a child is there when its call is made
\* (SlotManager.worker): the comment holds of the Jetson.
THEOREM WorkerPresent ==
    ASSUME Concurrency = 1
    PROVE  Spec => []WorkerThere
<1>1. Init => Resident
    BY DEF Init, Resident, Bereft
<1>2. Inv /\ Resident /\ [Next]_vars => Resident'
    BY StepKeepsResident DEF Inv
<1>3. Resident => WorkerThere
    BY DEF Resident, Bereft, WorkerThere, TorchUnits, LlmUnits
<1> QED BY <1>1, <1>2, <1>3, Invariance, PTL DEF Spec

\* Where calls take turns, the reaper is the one thing that takes the model from a
\* stream (CompositeBackend.text_stream): not an eviction, a refused or failed load or
\* another's call, with an idle TTL or without.
THEOREM OnlyTheReaper ==
    ASSUME Concurrency = 1
    PROVE  Spec => LostToReaper
<1> DEFINE Kept1 ==
        \A o \in Ops : Bereft(o)' => \/ Bereft(o)
                                     \/ \E p \in Ops : ReapUnload(p) /\ need'[o] = Candidate(p)
<1>1. Inv /\ [Next]_vars => [Kept1]_vars
    BY StepTakesNoModel DEF Inv
<1> QED BY <1>1, Invariance, PTL DEF Spec, LostToReaper
=============================================================================
