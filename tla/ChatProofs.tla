----------------------------- MODULE ChatProofs -----------------------------
(***************************************************************************)
(* What holds of the chat turns for any questions, photos, answers and     *)
(* failures: which message a turn leaves, what wakes the image model,      *)
(* which photos the prompt of an answer holds, and what the citation       *)
(* filter lets through, however the answer is cut into pieces.             *)
(*                                                                         *)
(* Filter and Clean are recursive functions of the place in a text.  That  *)
(* they have values is shown once (PassExists), and what they return by a  *)
(* least counterexample from the end of the text (FromTheEnd).             *)
(***************************************************************************)
EXTENDS Chat, TLAPS, SequenceTheorems, WellFoundedInduction

-----------------------------------------------------------------------------
(* Types.                                                                  *)

Places == {"idle", "begin", "card", "route", "fetch", "gather", "loop", "search", "build",
           "stream", "failed", "done"}

Message == [turn : Nat, session : Nat, cites : SUBSET Photos, sources : SUBSET Photos]

TypeInv ==
    /\ session \in Nat /\ mine \in Nat /\ turn \in Nat
    /\ at \in Places
    /\ log \in Seq(Message)
    /\ set \in Toggles
    /\ asked \in BOOLEAN

LEMMA CitedArePhotos == \A text : CitedIds(text) \subseteq Photos
BY DEF CitedIds, Cites, CiteAt

LEMMA EmptyCites == CitedIds(<<>>) = {}
BY DEF CitedIds, Cites

\* A stored message joins those that were there.
Entry(text, sources) ==
    [turn |-> turn, session |-> mine, cites |-> CitedIds(text), sources |-> sources]

LEMMA MessageAdded ==
    ASSUME TypeInv, NEW text, NEW sources \in SUBSET Photos, AddMessage(text, sources)
    PROVE  /\ log' \in Seq(Message)
           /\ DOMAIN log = 1..Len(log) /\ Len(log) \in Nat
           /\ DOMAIN log' = 1..(Len(log) + 1)
           /\ \A m \in DOMAIN log : m \in DOMAIN log' /\ log'[m] = log[m]
           /\ log'[Len(log) + 1] = Entry(text, sources)
<1>1. log' = Append(log, Entry(text, sources)) /\ log \in Seq(Message)
    BY DEF AddMessage, Entry, TypeInv
<1>2. Entry(text, sources) \in Message
    BY CitedArePhotos DEF Entry, Message, TypeInv
<1> QED BY <1>1, <1>2, LenProperties

LEMMA TypeInit == Init => TypeInv
<1> SUFFICES ASSUME Init PROVE TypeInv
    OBVIOUS
<1>1. /\ session = 1 /\ mine = 1 /\ turn = 0 /\ at = "idle" /\ log = <<>>
      /\ set = [guardrails |-> FALSE, direct |-> TRUE] /\ asked = FALSE
    BY DEF Init
<1>2. <<>> \in Seq(Message)
    BY EmptySeq
<1> QED BY <1>1, <1>2 DEF TypeInv, Places, Toggles

LEMMA TypeNext == TypeInv /\ [Next]_vars => TypeInv'
<1> SUFFICES ASSUME TypeInv, [Next]_vars PROVE TypeInv'
    OBVIOUS
<1> USE DEF TypeInv, Places, request, models, world, stream
<1>1. ASSUME UNCHANGED <<session, mine, set>>, turn' = turn, at' \in Places, asked' \in BOOLEAN,
             log' = log \/ \E text : \E sources \in SUBSET Photos : AddMessage(text, sources)
      PROVE  TypeInv'
    BY <1>1, MessageAdded
<1>2. CASE DirectAnswer
    BY <1>1, <1>2 DEF DirectAnswer
<1>3. CASE Card
    BY <1>1, <1>3 DEF Card
<1>4. CASE PlannerFirst \/ FetchPrimed
    BY <1>1, <1>4 DEF PlannerFirst, FetchPrimed
<1>5. CASE FetchNothing
    BY <1>1, <1>5 DEF FetchNothing, Gathered
<1>6. ASSUME NEW choice \in {"search_library", "search_memories", "none"}, Route(choice) PROVE TypeInv'
    <2>1. at' \in Places /\ (log' = log \/ AddMessage(<<>>, {})) /\ UNCHANGED <<session, mine, set, turn>>
        BY <1>6 DEF Route
    <2>2. asked' = (asked \/ choice = "search_library")
        BY <1>6 DEF Route, Plans
    <2>3. asked' \in BOOLEAN
        BY <2>2, Zenon
    <2> QED BY <1>1, <2>1, <2>3
<1>7. ASSUME NEW result \in SUBSET photos,
             PrimeFirst(result) \/ FetchSearch(result) \/ GatherPrimed(result) \/ GatherSearch(result)
      PROVE  TypeInv'
    BY <1>1, <1>7 DEF PrimeFirst, FetchSearch, GatherPrimed, GatherSearch, Searches
<1>8. CASE GatherUnprimed
    BY <1>1, <1>8 DEF GatherUnprimed
<1>9. CASE GatherFact \/ GatherServed \/ PlanSearch \/ GatherEnds
    <2>1. at' \in Places /\ log' = log /\ UNCHANGED <<session, mine, set, turn>>
        BY <1>9 DEF GatherFact, GatherServed, PlanSearch, GatherEnds, Round
    <2>2. Plans(FALSE) \/ Plans(TRUE)
        BY <1>9 DEF GatherFact, GatherServed, PlanSearch, GatherEnds
    <2>3. asked' \in BOOLEAN
        BY <2>2, Zenon DEF Plans
    <2> QED BY <1>1, <2>1, <2>3
<1>10. ASSUME NEW blocks \in SUBSET Photos, Build(blocks) PROVE TypeInv'
    BY <1>1, <1>10 DEF Build, Gathered
<1>11. ASSUME NEW delta \in Deltas, Feed(delta) PROVE TypeInv'
    BY <1>1, <1>11 DEF Feed
<1>12. CASE StreamEnds
    BY <1>1, <1>12, CitedArePhotos DEF StreamEnds
<1>13. CASE Fails
    BY <1>1, <1>13 DEF Fails
<1>14. CASE Note
    BY <1>1, <1>14 DEF Note
<1>15. CASE Done \/ Leave
    BY <1>1, <1>15 DEF Done, Leave, Forget, Gathered
<1>16. CASE Elsewhere
    BY <1>16 DEF Elsewhere, PhotoGone, Orphaned, NewSession, Change
<1>17. ASSUME NEW question \in Questions, NEW toggles \in Toggles, Ask(question, toggles) PROVE TypeInv'
    BY <1>17 DEF Ask
<1>18. CASE UNCHANGED vars
    BY <1>18 DEF vars
<1> QED BY <1>2, <1>3, <1>4, <1>5, <1>6, <1>7, <1>8, <1>9, <1>10, <1>11, <1>12, <1>13, <1>14, <1>15,
           <1>16, <1>17, <1>18 DEF Next, Step

-----------------------------------------------------------------------------
(* The messages.                                                           *)

\* Where a question has no message yet.
Unanswered == {"begin", "route", "fetch", "gather", "loop", "search", "build", "stream"}

Stored ==
    \A m \in DOMAIN log : log[m].turn \in 1..turn /\ log[m].sources \in {{}, log[m].cites}

InOneSession ==
    \A m, n \in DOMAIN log : m # n /\ log[m].turn = log[n].turn =>
        log[m].session = log[n].session /\ log[m].sources = {} /\ log[n].sources = {}

\* A message that precedes another of its turn is one of this session, without sources.
ThisTurn ==
    \A m \in DOMAIN log : log[m].turn = turn =>
        /\ at \notin Unanswered
        /\ at \in {"card", "failed"} => log[m].session = mine /\ log[m].sources = {}

Answered ==
    at \in {"card", "done"} => \E m \in DOMAIN log : log[m].turn = turn /\ log[m].session = mine

\* A question that is being answered has been asked.
Asked == at # "idle" => turn >= 1

LogInv == Stored /\ InOneSession /\ ThisTurn /\ Answered /\ Asked

\* A step that stores nothing and goes forward.
LEMMA NoMessage ==
    ASSUME TypeInv, LogInv, UNCHANGED <<log, turn, mine>>,
           \/ at' \in {at, "idle"}
           \/ at \in Unanswered /\ at' \in Unanswered \union {"failed"}
           \/ at = "card" /\ at' \in {"failed", "done"}
    PROVE  LogInv'
<1>1. Stored' /\ InOneSession'
    BY DEF LogInv, Stored, InOneSession
<1>2. ThisTurn'
    BY DEF LogInv, ThisTurn, Unanswered
<1>3. Answered'
    BY DEF LogInv, Answered, Unanswered
<1>4. Asked'
    BY DEF LogInv, Asked, Unanswered
<1> QED BY <1>1, <1>2, <1>3, <1>4 DEF LogInv

\* A message stored by a turn that has none, or has none with sources and stores none.
LEMMA OneMore ==
    ASSUME TypeInv, LogInv, NEW text, NEW sources \in SUBSET Photos, AddMessage(text, sources),
           UNCHANGED <<turn, mine>>,
           sources \in {{}, CitedIds(text)},
           \/ at \in Unanswered /\ at' = "done"
           \/ sources = {} /\ at \in Unanswered /\ at' = "card"
           \/ sources = {} /\ at = "failed" /\ at' = "done"
    PROVE  LogInv'
<1> DEFINE k == Len(log) + 1
<1>1. /\ DOMAIN log' = DOMAIN log \union {k} /\ k \notin DOMAIN log
      /\ \A m \in DOMAIN log : log'[m] = log[m]
      /\ log'[k].turn = turn /\ log'[k].session = mine
      /\ log'[k].cites = CitedIds(text) /\ log'[k].sources = sources
    <2>1. /\ DOMAIN log = 1..Len(log) /\ Len(log) \in Nat /\ DOMAIN log' = 1..k
          /\ \A m \in DOMAIN log : log'[m] = log[m]
          /\ log'[k] = Entry(text, sources)
        BY MessageAdded
    <2>2. DOMAIN log' = DOMAIN log \union {k} /\ k \notin DOMAIN log
        BY <2>1
    <2> QED BY <2>1, <2>2 DEF Entry
<1> HIDE DEF k
<1>2. turn \in Nat /\ turn >= 1
    BY DEF LogInv, Asked, TypeInv, Unanswered
<1>3. Stored'
    BY <1>1, <1>2 DEF LogInv, Stored
<1>4. ASSUME NEW m \in DOMAIN log, log[m].turn = turn
      PROVE  log[m].session = mine /\ log[m].sources = {} /\ sources = {}
    BY <1>4 DEF LogInv, ThisTurn
<1>5. InOneSession'
    <2> SUFFICES ASSUME NEW m \in DOMAIN log', NEW n \in DOMAIN log', m # n, log'[m].turn = log'[n].turn
                 PROVE  log'[m].session = log'[n].session /\ log'[m].sources = {} /\ log'[n].sources = {}
        BY DEF InOneSession
    <2>1. CASE m \in DOMAIN log /\ n \in DOMAIN log
        BY <1>1, <2>1 DEF LogInv, InOneSession
    <2>2. CASE m = k /\ n \in DOMAIN log
        BY <1>1, <1>4, <2>2
    <2>3. CASE m \in DOMAIN log /\ n = k
        BY <1>1, <1>4, <2>3
    <2> QED BY <1>1, <2>1, <2>2, <2>3
<1>6. ThisTurn'
    BY <1>1, <1>4 DEF ThisTurn, Unanswered
<1>7. Answered' /\ Asked'
    BY <1>1, <1>2 DEF Answered, Asked
<1> QED BY <1>3, <1>5, <1>6, <1>7 DEF LogInv

LEMMA LogNext == TypeInv /\ LogInv /\ [Next]_vars => LogInv'
<1> SUFFICES ASSUME TypeInv, LogInv, [Next]_vars PROVE LogInv'
    OBVIOUS
<1> USE DEF Unanswered, request, world, stream
<1>1. CASE DirectAnswer
    <2>1. /\ AddMessage(<<>>, {}) /\ UNCHANGED <<turn, mine>>
          /\ at \in Unanswered /\ at' \in {"card", "done"}
        BY <1>1 DEF DirectAnswer
    <2> QED BY <2>1, OneMore
<1>2. CASE Card
    BY <1>2, NoMessage DEF Card
<1>3. CASE PlannerFirst \/ FetchPrimed
    BY <1>3, NoMessage DEF PlannerFirst, FetchPrimed
<1>4. CASE FetchNothing
    BY <1>4, NoMessage DEF FetchNothing
<1>5. ASSUME NEW choice \in {"search_library", "search_memories", "none"}, Route(choice) PROVE LogInv'
    <2>1. at \in Unanswered /\ UNCHANGED <<turn, mine>>
        BY <1>5 DEF Route
    <2>2. CASE OffTopic(choice)
        BY <1>5, <2>1, <2>2, OneMore DEF Route
    <2>3. CASE ~OffTopic(choice)
        BY <1>5, <2>1, <2>3, NoMessage DEF Route
    <2> QED BY <2>2, <2>3
<1>6. ASSUME NEW result \in SUBSET photos,
             PrimeFirst(result) \/ FetchSearch(result) \/ GatherPrimed(result) \/ GatherSearch(result)
      PROVE  LogInv'
    BY <1>6, NoMessage DEF PrimeFirst, FetchSearch, GatherPrimed, GatherSearch
<1>7. CASE GatherUnprimed \/ GatherFact \/ GatherServed \/ PlanSearch \/ GatherEnds
    BY <1>7, NoMessage DEF GatherUnprimed, GatherFact, GatherServed, PlanSearch, GatherEnds, Round
<1>8. ASSUME NEW blocks \in SUBSET Photos, Build(blocks) PROVE LogInv'
    BY <1>8, NoMessage DEF Build
<1>9. ASSUME NEW delta \in Deltas, Feed(delta) PROVE LogInv'
    BY <1>9, NoMessage DEF Feed
<1>10. CASE StreamEnds
    <2>1. /\ AddMessage(shown', CitedIds(shown')) /\ UNCHANGED <<turn, mine>>
          /\ at \in Unanswered /\ at' = "done" /\ CitedIds(shown') \in SUBSET Photos
        BY <1>10, CitedArePhotos DEF StreamEnds
    <2> QED BY <2>1, OneMore
<1>11. CASE Fails
    BY <1>11, NoMessage DEF Fails
<1>12. CASE Note
    <2>1. AddMessage(shown, {}) /\ UNCHANGED <<turn, mine>> /\ at = "failed" /\ at' = "done"
        BY <1>12 DEF Note
    <2> QED BY <2>1, OneMore
<1>13. CASE Done \/ Leave
    BY <1>13, NoMessage DEF Done, Leave, Forget
<1>14. CASE Elsewhere
    BY <1>14, NoMessage DEF Elsewhere, PhotoGone, Orphaned, NewSession, Change
<1>15. ASSUME NEW question \in Questions, NEW toggles \in Toggles, Ask(question, toggles) PROVE LogInv'
    <2>1. log' = log /\ turn' = turn + 1 /\ at' = "begin" /\ turn \in Nat
        BY <1>15 DEF Ask, TypeInv
    <2>2. \A m \in DOMAIN log : log[m].turn \in 1..turn
        BY DEF LogInv, Stored
    <2>3. Stored' /\ InOneSession' /\ Asked'
        BY <2>1, <2>2 DEF LogInv, Stored, InOneSession, Asked
    <2>4. ThisTurn' /\ Answered'
        BY <2>1, <2>2 DEF ThisTurn, Answered
    <2> QED BY <2>3, <2>4 DEF LogInv
<1>16. CASE UNCHANGED vars
    BY <1>16, NoMessage DEF vars
<1> QED BY <1>1, <1>2, <1>3, <1>4, <1>5, <1>6, <1>7, <1>8, <1>9, <1>10, <1>11, <1>12, <1>13, <1>14,
           <1>15, <1>16 DEF Next, Step

\* A turn leaves one message in the session that it read (OneMessageATurn), with the
\* photos it cites or none; two where a card fails after the answer it belongs to, and
\* then without sources.
THEOREM MessageStored == Spec => []OneMessageATurn
<1>1. Init => LogInv
    BY DEF Init, LogInv, Stored, InOneSession, ThisTurn, Answered, Asked
<1>2. LogInv => OneMessageATurn
    BY DEF LogInv, Stored, InOneSession, Answered, OneMessageATurn
<1> QED BY <1>1, <1>2, TypeInit, TypeNext, LogNext, PTL DEF Spec

-----------------------------------------------------------------------------
(* The image model.                                                        *)

\* A search that the routing decided on, or the loop, was asked for; and the model of
\* the turn before is forgotten.
WakeInv ==
    /\ WokenOnPurpose
    /\ at \in {"idle", "begin"} => last = "none"
    /\ at = "fetch" /\ tool = "search_library" => asked
    /\ at = "search" => asked

\* No model runs, or the planner does, which does not forget what it was asked.
LEMMA NotWoken ==
    ASSUME WakeInv, set' = set, q' = q, at' \notin {"idle", "begin", "fetch", "search"},
           UNCHANGED models \/ Plans(FALSE) \/ Plans(TRUE)
    PROVE  WakeInv'
<1>1. CASE UNCHANGED models
    BY <1>1 DEF WakeInv, WokenOnPurpose, models
<1>2. CASE Plans(FALSE) \/ Plans(TRUE)
    BY <1>2 DEF WakeInv, WokenOnPurpose, Plans
<1> QED BY <1>1, <1>2

LEMMA Forgotten ==
    ASSUME last' = "none", at' \notin {"fetch", "search"}
    PROVE  WakeInv'
BY DEF WakeInv, WokenOnPurpose

LEMMA WakeNext == TypeInv /\ WakeInv /\ [Next]_vars => WakeInv'
<1> SUFFICES ASSUME TypeInv, WakeInv, [Next]_vars PROVE WakeInv'
    OBVIOUS
<1> USE DEF request
<1>1. CASE DirectAnswer
    BY <1>1, NotWoken DEF DirectAnswer
<1>2. CASE Card
    BY <1>2, NotWoken DEF Card
<1>3. CASE PlannerFirst \/ FetchPrimed
    BY <1>3, NotWoken DEF PlannerFirst, FetchPrimed
<1>4. CASE FetchNothing
    BY <1>4, Forgotten DEF FetchNothing, Gathered
<1>5. ASSUME NEW choice \in {"search_library", "search_memories", "none"}, Route(choice) PROVE WakeInv'
    <2>1. /\ last' = "gemma" /\ asked' = (asked \/ choice = "search_library") /\ tool' = choice
          /\ at' \in {"done", "fetch", "gather"}
        BY <1>5 DEF Route, Plans
    <2>2. choice = "search_library" => asked'
        BY <2>1, Zenon
    <2> QED BY <2>1, <2>2 DEF WakeInv, WokenOnPurpose
<1>6. ASSUME NEW result \in SUBSET photos, PrimeFirst(result) PROVE WakeInv'
    BY <1>6 DEF PrimeFirst, Searches, WakeInv, WokenOnPurpose
<1>7. ASSUME NEW result \in SUBSET photos, FetchSearch(result) PROVE WakeInv'
    <2>1. /\ at = "fetch" /\ tool = "search_library" /\ at' = "build" /\ asked' = asked
        BY <1>7 DEF FetchSearch, Searches
    <2>2. asked'
        BY <2>1 DEF WakeInv
    <2> QED BY <2>1, <2>2 DEF WakeInv, WokenOnPurpose
<1>8. ASSUME NEW result \in SUBSET photos, GatherPrimed(result) PROVE WakeInv'
    <2>1. Primes /\ at' = "loop" /\ set' = set /\ q' = q
        BY <1>8 DEF GatherPrimed
    <2>2. set'.guardrails \/ q'.kind = "show"
        BY <2>1 DEF Primes
    <2> QED BY <2>1, <2>2 DEF WakeInv, WokenOnPurpose
<1>9. ASSUME NEW result \in SUBSET photos, GatherSearch(result) PROVE WakeInv'
    <2>1. at = "search" /\ at' = "loop" /\ asked' = asked
        BY <1>9 DEF GatherSearch, Searches
    <2>2. asked'
        BY <2>1 DEF WakeInv
    <2> QED BY <2>1, <2>2 DEF WakeInv, WokenOnPurpose
<1>10. CASE GatherUnprimed \/ GatherEnds
    BY <1>10, NotWoken DEF GatherUnprimed, GatherEnds
<1>11. CASE GatherFact \/ GatherServed
    <2>1. at' = "loop" /\ set' = set /\ q' = q /\ (Plans(FALSE) \/ Plans(TRUE))
        BY <1>11 DEF GatherFact, GatherServed, Round
    <2> QED BY <2>1, NotWoken
<1>12. CASE PlanSearch
    <2>1. at' \in {"search", "loop"} /\ last' = "gemma" /\ asked' = (asked \/ TRUE)
        BY <1>12 DEF PlanSearch, Plans
    <2>2. asked'
        BY <2>1, Zenon
    <2> QED BY <2>1, <2>2 DEF WakeInv, WokenOnPurpose
<1>13. ASSUME NEW blocks \in SUBSET Photos, Build(blocks) PROVE WakeInv'
    BY <1>13, Forgotten DEF Build, Gathered
<1>14. ASSUME NEW delta \in Deltas, Feed(delta) PROVE WakeInv'
    BY <1>14, NotWoken DEF Feed
<1>15. CASE StreamEnds \/ Fails \/ Note
    BY <1>15, NotWoken DEF StreamEnds, Fails, Note
<1>16. CASE Done \/ Leave
    BY <1>16, Forgotten DEF Done, Leave, Forget, Gathered
<1>17. ASSUME NEW question \in Questions, NEW toggles \in Toggles, Ask(question, toggles) PROVE WakeInv'
    <2>1. last = "none"
        BY <1>17 DEF Ask, WakeInv
    <2> QED BY <1>17, <2>1, Forgotten DEF Ask, models
<1>18. CASE Elsewhere \/ UNCHANGED vars
    <2>1. UNCHANGED <<at, request, gathered, models>>
        BY <1>18 DEF Elsewhere, PhotoGone, Orphaned, NewSession, Change, vars
    <2> QED BY <2>1 DEF WakeInv, WokenOnPurpose, gathered, models
<1> QED BY <1>1, <1>2, <1>3, <1>4, <1>5, <1>6, <1>7, <1>8, <1>9, <1>10, <1>11, <1>12, <1>13, <1>14,
           <1>15, <1>16, <1>17, <1>18 DEF Next, Step

\* The image model is swapped in for a question only where guardrails, its wording or
\* the planner said that it is about photos (WokenOnPurpose).
THEOREM OnlyOnPurpose == Spec => []WokenOnPurpose
<1>1. Init => WakeInv
    BY DEF Init, WakeInv, WokenOnPurpose
<1>2. WakeInv => WokenOnPurpose
    BY DEF WakeInv
<1> QED BY <1>1, <1>2, TypeInit, TypeNext, WakeNext, PTL DEF Spec

-----------------------------------------------------------------------------
(* The prompt.                                                             *)

\* What the filter lets through was found by this turn's searches, or is named by the
\* question or by the worked example: nothing of an earlier turn is left.
PromptOfThisTurn == given \subseteq found \union q.names \union (IF agentic THEN {Example} ELSE {})

PromptInv == PromptOfThisTurn /\ (at \notin {"stream", "failed", "done"} => given = {})

LEMMA PromptNext == TypeInv /\ PromptInv /\ [Next]_vars => PromptInv'
<1> SUFFICES ASSUME TypeInv, PromptInv, [Next]_vars PROVE PromptInv'
    OBVIOUS
<1> USE DEF request, prompt, gathered, PromptInv, PromptOfThisTurn
<1>1. ASSUME given' = {} PROVE PromptInv'
    BY <1>1
<1>2. ASSUME given = {}, given' = given PROVE PromptInv'
    BY <1>2
<1>3. CASE DirectAnswer \/ PlannerFirst \/ FetchPrimed
    BY <1>2, <1>3 DEF DirectAnswer, PlannerFirst, FetchPrimed
<1>4. CASE Card
    BY <1>2, <1>4 DEF Card
<1>5. CASE FetchNothing
    BY <1>5 DEF FetchNothing
<1>6. ASSUME NEW choice \in {"search_library", "search_memories", "none"}, Route(choice) PROVE PromptInv'
    BY <1>2, <1>6 DEF Route
<1>7. ASSUME NEW result \in SUBSET photos,
             PrimeFirst(result) \/ FetchSearch(result) \/ GatherPrimed(result) \/ GatherSearch(result)
      PROVE  PromptInv'
    BY <1>2, <1>7 DEF PrimeFirst, FetchSearch, GatherPrimed, GatherSearch
<1>8. CASE GatherUnprimed \/ GatherFact \/ GatherServed \/ PlanSearch \/ GatherEnds
    BY <1>2, <1>8 DEF GatherUnprimed, GatherFact, GatherServed, PlanSearch, GatherEnds, Round
<1>9. ASSUME NEW blocks \in SUBSET Photos, Build(blocks) PROVE PromptInv'
    <2>1. /\ blocks \subseteq found /\ found' = found /\ q' = q /\ at' = "stream"
          /\ given' = blocks \union q.names \union (IF agentic' THEN {Example} ELSE {})
        BY <1>9 DEF Build, Blocks
    <2> QED BY <2>1
<1>10. ASSUME NEW delta \in Deltas, Feed(delta) PROVE PromptInv'
    BY <1>10 DEF Feed
<1>11. CASE StreamEnds \/ Note
    BY <1>11 DEF StreamEnds, Note
<1>12. CASE Fails
    BY <1>12 DEF Fails
<1>13. CASE Done \/ Leave
    BY <1>1, <1>13 DEF Done, Leave, Forget
<1>14. ASSUME NEW question \in Questions, NEW toggles \in Toggles, Ask(question, toggles) PROVE PromptInv'
    BY <1>2, <1>14 DEF Ask
<1>15. CASE Elsewhere \/ UNCHANGED vars
    BY <1>15 DEF Elsewhere, PhotoGone, Orphaned, NewSession, Change, vars
<1> QED BY <1>3, <1>4, <1>5, <1>6, <1>7, <1>8, <1>9, <1>10, <1>11, <1>12, <1>13, <1>14, <1>15
        DEF Next, Step

\* The prompt of an answer holds only photos of its own turn (_context_photo_ids), also
\* when the turn before failed or its browser left: the half of CitesFound that does not
\* depend on how the filter cuts the text.
THEOREM PromptHeld == Spec => []PromptOfThisTurn
<1>1. Init => PromptInv
    BY DEF Init, PromptInv, PromptOfThisTurn
<1>2. PromptInv => PromptOfThisTurn
    BY DEF PromptInv
<1> QED BY <1>1, <1>2, TypeInit, TypeNext, PromptNext, PTL DEF Spec
-----------------------------------------------------------------------------
(* Texts.                                                                  *)

LEMMA FromIs ==
    ASSUME NEW S, NEW u \in Seq(S), NEW k \in 1..Len(u) + 1
    PROVE  /\ From(u, k) \in Seq(S) /\ Len(From(u, k)) = Len(u) - k + 1
           /\ \A j \in 1..Len(u) - k + 1 : From(u, k)[j] = u[k + j - 1]
<1>1. Len(u) \in Nat /\ \A i \in k..Len(u) : u[i] \in S
    BY LenProperties, ElementOfSeq
<1>2. k \in Int /\ Len(u) \in Int
    BY <1>1
<1>3. /\ SubSeq(u, k, Len(u)) \in Seq(S)
      /\ Len(SubSeq(u, k, Len(u))) = IF k <= Len(u) THEN Len(u) - k + 1 ELSE 0
      /\ \A j \in 1..Len(u) - k + 1 : SubSeq(u, k, Len(u))[j] = u[k + j - 1]
    BY <1>1, <1>2, SubSeqProperties
<1> QED BY <1>1, <1>3 DEF From

LEMMA UpToIs ==
    ASSUME NEW S, NEW u \in Seq(S), NEW k \in 1..Len(u) + 1
    PROVE  /\ UpTo(u, k) \in Seq(S) /\ Len(UpTo(u, k)) = k - 1
           /\ \A j \in 1..k - 1 : UpTo(u, k)[j] = u[j]
<1>1. Len(u) \in Nat /\ \A i \in 1..k - 1 : u[i] \in S
    BY LenProperties, ElementOfSeq
<1>2. k \in Int /\ k - 1 \in Int
    BY <1>1
<1>3. /\ SubSeq(u, 1, k - 1) \in Seq(S)
      /\ Len(SubSeq(u, 1, k - 1)) = IF 1 <= k - 1 THEN k - 1 - 1 + 1 ELSE 0
      /\ \A j \in 1..k - 1 - 1 + 1 : SubSeq(u, 1, k - 1)[j] = u[1 + j - 1]
    BY <1>1, <1>2, SubSeqProperties
<1> QED BY <1>1, <1>3 DEF UpTo

LEMMA JoinIs ==
    ASSUME NEW S, NEW s \in Seq(S), NEW t \in Seq(S)
    PROVE  /\ s \o t \in Seq(S) /\ Len(s \o t) = Len(s) + Len(t) /\ Len(s) \in Nat /\ Len(t) \in Nat
           /\ \A i \in 1..Len(s) : (s \o t)[i] = s[i]
           /\ \A i \in 1..Len(t) : (s \o t)[Len(s) + i] = t[i]
<1>1. Len(s) \in Nat /\ Len(t) \in Nat
    BY LenProperties
<1>2. /\ s \o t \in Seq(S) /\ Len(s \o t) = Len(s) + Len(t)
      /\ \A i \in 1..Len(s) + Len(t) : (s \o t)[i] = IF i <= Len(s) THEN s[i] ELSE t[i - Len(s)]
    BY ConcatProperties
<1>3. ASSUME NEW i \in 1..Len(s) PROVE (s \o t)[i] = s[i]
    BY <1>1, <1>2
<1>4. ASSUME NEW i \in 1..Len(t) PROVE (s \o t)[Len(s) + i] = t[i]
    <2>1. Len(s) + i \in 1..Len(s) + Len(t) /\ ~(Len(s) + i <= Len(s)) /\ Len(s) + i - Len(s) = i
        BY <1>1
    <2> QED BY <1>2, <2>1
<1> QED BY <1>1, <1>2, <1>3, <1>4

IsJoined(S, s, t) ==
    /\ s \o t \in Seq(S) /\ Len(s \o t) = Len(s) + Len(t) /\ Len(s) \in Nat /\ Len(t) \in Nat
    /\ \A i \in 1..Len(s) : (s \o t)[i] = s[i]

LEMMA JoinOf ==
    ASSUME NEW S, NEW s \in Seq(S), NEW t \in Seq(S)
    PROVE  IsJoined(S, s, t)
BY JoinIs DEF IsJoined

Joined(a, b, c) == a \o (b \o c) = (a \o b) \o c

LEMMA ThreeJoined ==
    ASSUME NEW S, NEW a \in Seq(S), NEW b \in Seq(S), NEW c \in Seq(S)
    PROVE  Joined(a, b, c)
BY ConcatAssociative DEF Joined

Regrouped(a, b, c, d) ==
    /\ (a \o b) \o (c \o d) = ((a \o b) \o c) \o d
    /\ a \o ((b \o c) \o d) = ((a \o b) \o c) \o d

LEMMA FourJoined ==
    ASSUME NEW S, NEW a \in Seq(S), NEW b \in Seq(S), NEW c \in Seq(S), NEW d \in Seq(S)
    PROVE  Regrouped(a, b, c, d)
<1> DEFINE ab == a \o b
           bc == b \o c
<1>1. ab \in Seq(S) /\ bc \in Seq(S)
    BY ConcatProperties
<1> HIDE DEF ab, bc
<1>2. Joined(ab, c, d) /\ Joined(a, bc, d)
    BY <1>1, ThreeJoined
<1>3. Joined(a, b, c)
    BY ThreeJoined
<1> QED BY <1>2, <1>3 DEF ab, bc, Joined, Regrouped

\* What follows a place of what follows a place.
LEMMA FromFrom ==
    ASSUME NEW S, NEW u \in Seq(S), NEW k \in 1..Len(u) + 1, NEW j \in 1..Len(u) - k + 2
    PROVE  /\ From(From(u, k), j) = From(u, k + j - 1)
           /\ k + j - 1 \in 1..Len(u) + 1 /\ j \in 1..Len(From(u, k)) + 1
<1> DEFINE v == From(u, k)
<1>1. Len(u) \in Nat
    BY LenProperties
<1>2. v \in Seq(S) /\ Len(v) = Len(u) - k + 1 /\ \A i \in 1..Len(u) - k + 1 : v[i] = u[k + i - 1]
    BY FromIs
<1> HIDE DEF v
<1>3. j \in 1..Len(v) + 1 /\ k + j - 1 \in 1..Len(u) + 1
    BY <1>1, <1>2
<1>4. /\ From(v, j) \in Seq(S) /\ Len(From(v, j)) = Len(v) - j + 1
      /\ \A i \in 1..Len(v) - j + 1 : From(v, j)[i] = v[j + i - 1]
    BY <1>2, <1>3, FromIs, ZenonT(40)
<1>5. /\ From(u, k + j - 1) \in Seq(S) /\ Len(From(u, k + j - 1)) = Len(u) - (k + j - 1) + 1
      /\ \A i \in 1..Len(u) - (k + j - 1) + 1 : From(u, k + j - 1)[i] = u[(k + j - 1) + i - 1]
    BY <1>3, FromIs
<1>6. Len(From(v, j)) = Len(From(u, k + j - 1))
    BY <1>1, <1>2, <1>4, <1>5
<1>7. ASSUME NEW i \in 1..Len(From(v, j)) PROVE From(v, j)[i] = From(u, k + j - 1)[i]
    <2>1. /\ i \in 1..Len(v) - j + 1 /\ i \in 1..Len(u) - (k + j - 1) + 1
          /\ j + i - 1 \in 1..Len(u) - k + 1
          /\ k + (j + i - 1) - 1 = (k + j - 1) + i - 1
        <3>1. i \in 1..Len(v) - j + 1 /\ Len(v) = Len(u) - k + 1
            BY <1>2, <1>4
        <3> QED BY <1>1, <1>3, <3>1
    <2>2. From(v, j)[i] = v[j + i - 1] /\ v[j + i - 1] = u[k + (j + i - 1) - 1]
        BY <1>2, <1>4, <2>1
    <2> QED BY <1>5, <2>1, <2>2
<1>8. From(v, j) = From(u, k + j - 1)
    BY <1>4, <1>5, <1>6, <1>7, SeqEqual
<1> QED BY <1>3, <1>8 DEF v

LEMMA Parted ==
    ASSUME NEW S, NEW u \in Seq(S), NEW k \in 1..Len(u) + 1
    PROVE  u = UpTo(u, k) \o From(u, k)
<1> DEFINE s == UpTo(u, k)
           t == From(u, k)
<1>1. Len(u) \in Nat
    BY LenProperties
<1>2. s \in Seq(S) /\ Len(s) = k - 1 /\ \A j \in 1..k - 1 : s[j] = u[j]
    BY UpToIs
<1>3. t \in Seq(S) /\ Len(t) = Len(u) - k + 1 /\ \A j \in 1..Len(u) - k + 1 : t[j] = u[k + j - 1]
    BY FromIs
<1> HIDE DEF s, t
<1>4. /\ s \o t \in Seq(S) /\ Len(s \o t) = Len(s) + Len(t)
      /\ \A i \in 1..Len(s) + Len(t) : (s \o t)[i] = IF i <= Len(s) THEN s[i] ELSE t[i - Len(s)]
    BY <1>2, <1>3, ConcatProperties
<1>5. Len(s \o t) = Len(u)
    BY <1>1, <1>2, <1>3, <1>4
<1>6. ASSUME NEW i \in 1..Len(u) PROVE u[i] = (s \o t)[i]
    <2>1. i \in 1..Len(s) + Len(t)
        BY <1>1, <1>4, <1>5
    <2>2. CASE i <= Len(s)
        BY <1>2, <1>4, <2>1, <2>2
    <2>3. CASE ~(i <= Len(s))
        <3>1. i - Len(s) \in 1..Len(u) - k + 1 /\ k + (i - Len(s)) - 1 = i
            BY <1>1, <1>2, <2>3
        <3> QED BY <1>3, <1>4, <2>1, <2>3, <3>1
    <2> QED BY <2>2, <2>3
<1>7. u = s \o t
    BY <1>4, <1>5, <1>6, SeqEqual
<1> QED BY <1>7 DEF s, t

\* The parts of a text that goes on.
GoesOn(t, x, k) ==
    /\ k \in 1..Len(t \o x) + 1
    /\ UpTo(t \o x, k) = UpTo(t, k)
    /\ From(t \o x, k) = From(t, k) \o x

LEMMA PartsOfJoined ==
    ASSUME NEW S, NEW t \in Seq(S), NEW x \in Seq(S), NEW k \in 1..Len(t) + 1
    PROVE  GoesOn(t, x, k)
<1> DEFINE u == t \o x
<1>1. /\ u \in Seq(S) /\ Len(u) = Len(t) + Len(x) /\ Len(t) \in Nat /\ Len(x) \in Nat
      /\ \A i \in 1..Len(t) : u[i] = t[i]
      /\ \A i \in 1..Len(x) : u[Len(t) + i] = x[i]
    BY JoinIs
<1> HIDE DEF u
<1>2. k \in 1..Len(u) + 1
    BY <1>1
<1>3. /\ UpTo(u, k) \in Seq(S) /\ Len(UpTo(u, k)) = k - 1 /\ \A j \in 1..k - 1 : UpTo(u, k)[j] = u[j]
      /\ UpTo(t, k) \in Seq(S) /\ Len(UpTo(t, k)) = k - 1 /\ \A j \in 1..k - 1 : UpTo(t, k)[j] = t[j]
    BY <1>1, <1>2, UpToIs
<1>4. \A j \in 1..k - 1 : UpTo(u, k)[j] = UpTo(t, k)[j]
    <2>1. \A j \in 1..k - 1 : j \in 1..Len(t)
        BY <1>1
    <2> QED BY <1>1, <1>3, <2>1
<1>5. UpTo(u, k) = UpTo(t, k)
    BY <1>3, <1>4, SeqEqual
<1> DEFINE v == From(t, k)
<1>6. v \in Seq(S) /\ Len(v) = Len(t) - k + 1 /\ \A j \in 1..Len(t) - k + 1 : v[j] = t[k + j - 1]
    BY FromIs
<1>7. /\ From(u, k) \in Seq(S) /\ Len(From(u, k)) = Len(u) - k + 1
      /\ \A j \in 1..Len(u) - k + 1 : From(u, k)[j] = u[k + j - 1]
    BY <1>1, <1>2, FromIs
<1> HIDE DEF v
<1>8. /\ v \o x \in Seq(S) /\ Len(v \o x) = Len(v) + Len(x)
      /\ \A i \in 1..Len(v) : (v \o x)[i] = v[i]
      /\ \A i \in 1..Len(x) : (v \o x)[Len(v) + i] = x[i]
    <2>1. \A w \in Seq(S) :
             /\ w \o x \in Seq(S) /\ Len(w \o x) = Len(w) + Len(x)
             /\ \A i \in 1..Len(w) : (w \o x)[i] = w[i]
             /\ \A i \in 1..Len(x) : (w \o x)[Len(w) + i] = x[i]
        BY JoinIs
    <2> QED BY <1>6, <2>1
<1>9. Len(From(u, k)) = Len(v \o x)
    BY <1>1, <1>6, <1>7, <1>8
<1>10. ASSUME NEW i \in 1..Len(From(u, k)) PROVE From(u, k)[i] = (v \o x)[i]
    <2>1. From(u, k)[i] = u[k + i - 1]
        BY <1>7
    <2>2. CASE i <= Len(v)
        <3>1. i \in 1..Len(v) /\ i \in 1..Len(t) - k + 1 /\ k + i - 1 \in 1..Len(t)
            BY <1>1, <1>6, <2>2
        <3> QED BY <1>1, <1>6, <1>8, <2>1, <3>1
    <2>3. CASE ~(i <= Len(v))
        <3> DEFINE j == i - Len(v)
        <3>1. j \in 1..Len(x) /\ Len(v) + j = i /\ Len(t) + j = k + i - 1
            BY <1>1, <1>6, <1>7, <2>3
        <3> HIDE DEF j
        <3> QED BY <1>1, <1>8, <2>1, <3>1
    <2> QED BY <2>2, <2>3
<1>11. From(u, k) = v \o x
    BY <1>7, <1>8, <1>9, <1>10, SeqEqual
<1> QED BY <1>1, <1>2, <1>5, <1>11 DEF GoesOn, u, v

-----------------------------------------------------------------------------
(* The least place, and the last one.                                      *)

LessThan == OpToRel(<, Nat)

LEMMA LeastPlace ==
    ASSUME NEW P \in SUBSET Nat, P # {}
    PROVE  LeastOf(P) \in P /\ \A n \in P : LeastOf(P) <= n
<1>1. IsWellFoundedOn(LessThan, Nat)
    BY NatLessThanWellFounded, Zenon DEF LessThan
<1>2. \A m, n \in Nat : m < n => <<m, n>> \in LessThan
    BY DEF LessThan, OpToRel
<1>3. PICK m \in P : \A n \in P : ~(<<n, m>> \in LessThan)
    BY <1>1, WFMin
<1>4. ASSUME NEW n \in P PROVE m <= n
    <2>1. ~(n < m)
        BY <1>2, <1>3
    <2> QED BY <2>1
<1> QED BY <1>4 DEF LeastOf

\* A least counterexample, from the end of a text.
LEMMA FromTheEnd ==
    ASSUME NEW N \in Nat, NEW Wrong \in SUBSET (1..N), \A k \in Wrong : \E m \in Wrong : m > k
    PROVE  Wrong = {}
<1> SUFFICES ASSUME Wrong # {} PROVE FALSE
    OBVIOUS
<1> DEFINE P == {N - k : k \in Wrong}
<1>1. P \in SUBSET Nat /\ P # {}
    <2>1. \A k \in Wrong : N - k \in Nat
        OBVIOUS
    <2> QED BY <2>1
<1>2. LeastOf(P) \in P /\ \A n \in P : LeastOf(P) <= n
    <2> HIDE DEF P
    <2> QED BY <1>1, LeastPlace
<1>3. PICK k \in Wrong : LeastOf(P) = N - k
    BY <1>2
<1>4. PICK m \in Wrong : m > k
    OBVIOUS
<1>5. N - m \in P
    OBVIOUS
<1>6. N - k <= N - m
    BY <1>2, <1>3, <1>5
<1>7. k \in Nat /\ m \in Nat
    OBVIOUS
<1> QED BY <1>4, <1>6, <1>7

\* A pass over the places of a text, each of which depends on a later one, has a value
\* at each of them.
IsPass(f, N, base, step, after) ==
    \A k \in 1..N : f[k] = IF after[k] = 0 THEN base[k] ELSE step[k][f[after[k]]]

LEMMA PassExists ==
    ASSUME NEW N \in Nat, NEW V, NEW base \in [1..N -> V], NEW step \in [1..N -> [V -> V]],
           NEW after \in [1..N -> 0..N], \A k \in 1..N : after[k] = 0 \/ after[k] > k
    PROVE  \E f \in [1..N -> V] : IsPass(f, N, base, step, after)
<1> DEFINE Holds(f, k) == f[k] = IF after[k] = 0 THEN base[k] ELSE step[k][f[after[k]]]
           Some(m) == \E f \in [1..N -> V] : \A k \in 1..N : k >= m => Holds(f, k)
           Wrong == {m \in 1..N + 1 : ~Some(m)}
<1>1. Some(N + 1)
    <2>1. \A k \in 1..N : ~(k >= N + 1)
        OBVIOUS
    <2>2. \A k \in 1..N : k >= N + 1 => Holds(base, k)
        BY <2>1
    <2> QED BY <2>2
<1>2. ASSUME NEW m \in 1..N, Some(m + 1) PROVE Some(m)
    <2>1. PICK f \in [1..N -> V] : \A k \in 1..N : k >= m + 1 => Holds(f, k)
        BY <1>2
    <2> DEFINE v == IF after[m] = 0 THEN base[m] ELSE step[m][f[after[m]]]
               g == [f EXCEPT ![m] = v]
    <2>2. v \in V
        <3>1. CASE after[m] = 0
            BY <3>1
        <3>2. CASE after[m] # 0
            <4>1. after[m] \in 1..N
                BY <3>2
            <4> QED BY <3>2, <4>1
        <3> QED BY <3>1, <3>2
    <2> HIDE DEF v
    <2>3. g \in [1..N -> V] /\ g[m] = v /\ \A k \in 1..N : k # m => g[k] = f[k]
        BY <2>2
    <2> HIDE DEF g
    <2>4. ASSUME NEW k \in 1..N, k >= m PROVE Holds(g, k)
        <3>1. after[k] = 0 \/ (after[k] \in 1..N /\ after[k] # m /\ g[after[k]] = f[after[k]])
            <4>1. CASE after[k] # 0
                <5>1. after[k] \in 1..N /\ after[k] > k
                    BY <4>1
                <5>2. after[k] # m
                    BY <2>4, <5>1
                <5> QED BY <2>3, <5>1, <5>2
            <4> QED BY <4>1
        <3>2. CASE k = m
            BY <2>3, <3>1, <3>2 DEF v
        <3>3. CASE k # m
            <4>1. k >= m + 1
                BY <2>4, <3>3
            <4>2. Holds(f, k) /\ g[k] = f[k]
                BY <2>1, <2>3, <3>3, <4>1
            <4> QED BY <3>1, <4>2
        <3> QED BY <3>2, <3>3
    <2> HIDE DEF Holds
    <2> QED BY <2>3, <2>4
<1> HIDE DEF Some
<1>3. Wrong = {}
    <2>1. ASSUME NEW k \in Wrong PROVE \E m \in Wrong : m > k
        <3>1. k \in 1..N
            BY <1>1
        <3>2. k + 1 \in 1..N + 1 /\ k + 1 > k
            BY <3>1
        <3>3. ~Some(k + 1)
            BY <1>2, <3>1
        <3> QED BY <3>2, <3>3
    <2>2. Wrong \in SUBSET (1..N + 1) /\ N + 1 \in Nat
        OBVIOUS
    <2> HIDE DEF Wrong
    <2> QED BY <2>1, <2>2, FromTheEnd
<1>4. Some(1)
    <2>1. 1 \in 1..N + 1
        OBVIOUS
    <2> QED BY <1>3, <2>1
<1>5. PICK f \in [1..N -> V] : \A k \in 1..N : k >= 1 => Holds(f, k)
    BY <1>4 DEF Some
<1>6. \A k \in 1..N : k >= 1
    OBVIOUS
<1> QED BY <1>5, <1>6 DEF IsPass

-----------------------------------------------------------------------------
(* Citations.                                                              *)

LEMMA CitesAre ==
    ASSUME NEW S, NEW u \in Seq(S)
    PROVE  /\ Cites(u) \in SUBSET (1..Len(u)) /\ Cites(u) \in SUBSET Nat
           /\ PartialFrom(u) \in SUBSET (1..Len(u)) /\ PartialFrom(u) \in SUBSET Nat
           /\ \A n \in Cites(u) : /\ n \in 1..Len(u) /\ n + 3 \in 1..Len(u) /\ u[n] = "[" /\ u[n + 1] = "photo:"
                                  /\ u[n + 2] \in Photos /\ u[n + 3] = "]"
           /\ Cites(u) # {} => LeastOf(Cites(u)) \in Cites(u) /\ \A n \in Cites(u) : LeastOf(Cites(u)) <= n
           /\ PartialFrom(u) # {} =>
                 LeastOf(PartialFrom(u)) \in PartialFrom(u) /\ \A n \in PartialFrom(u) : LeastOf(PartialFrom(u)) <= n
<1>1. Len(u) \in Nat /\ DOMAIN u = 1..Len(u)
    BY LenProperties
<1>2. Cites(u) \in SUBSET (1..Len(u)) /\ PartialFrom(u) \in SUBSET (1..Len(u))
    BY <1>1 DEF Cites, PartialFrom
<1>3. Cites(u) \in SUBSET Nat /\ PartialFrom(u) \in SUBSET Nat
    <2>1. \A i \in 1..Len(u) : i \in Nat
        BY <1>1
    <2> QED BY <1>2, <2>1
<1>4. ASSUME NEW n \in Cites(u)
      PROVE  /\ n \in 1..Len(u) /\ n + 3 \in 1..Len(u) /\ u[n] = "[" /\ u[n + 1] = "photo:"
             /\ u[n + 2] \in Photos /\ u[n + 3] = "]"
    <2>1. n \in 1..Len(u) /\ CiteAt(u, n)
        BY <1>1 DEF Cites
    <2> QED BY <1>1, <2>1 DEF CiteAt
<1> QED BY <1>2, <1>3, <1>4, LeastPlace

\* Citations in a part of a text.
LEMMA CitesFrom ==
    ASSUME NEW S, NEW u \in Seq(S), NEW k \in 1..Len(u) + 1, NEW j \in Nat \ {0}
    PROVE  /\ j \in Cites(From(u, k)) <=> k + j - 1 \in Cites(u)
           /\ j \in PartialFrom(From(u, k)) <=> k + j - 1 \in PartialFrom(u)
<1> DEFINE v == From(u, k)
<1>1. Len(u) \in Nat /\ DOMAIN u = 1..Len(u)
    BY LenProperties
<1>2. v \in Seq(S) /\ Len(v) = Len(u) - k + 1 /\ \A i \in 1..Len(u) - k + 1 : v[i] = u[k + i - 1]
    BY FromIs
<1> HIDE DEF v
<1>3. DOMAIN v = 1..Len(v)
    BY <1>2, LenProperties
<1>4. \A i \in 0..3 : (j + i <= Len(v) <=> (k + j - 1) + i <= Len(u))
    BY <1>1, <1>2
<1>5. j \in DOMAIN v <=> k + j - 1 \in DOMAIN u
    BY <1>1, <1>2, <1>3
<1>6. ASSUME NEW i \in 0..3, j + i <= Len(v) PROVE v[j + i] = u[(k + j - 1) + i]
    <2>1. j + i \in 1..Len(u) - k + 1 /\ k + (j + i) - 1 = (k + j - 1) + i
        BY <1>1, <1>2, <1>6
    <2> QED BY <1>2, <2>1
<1>7. /\ j \in DOMAIN v => v[j] = u[k + j - 1]
      /\ j + 1 <= Len(v) => v[j + 1] = u[(k + j - 1) + 1]
      /\ j + 2 <= Len(v) => v[j + 2] = u[(k + j - 1) + 2]
      /\ j + 3 <= Len(v) => v[j + 3] = u[(k + j - 1) + 3]
    <2>1. j \in DOMAIN v => v[j] = u[k + j - 1]
        BY <1>1, <1>2, <1>3
    <2> QED BY <1>6, <2>1
<1>8. /\ j + 1 <= Len(v) <=> (k + j - 1) + 1 <= Len(u)
      /\ j + 2 <= Len(v) <=> (k + j - 1) + 2 <= Len(u)
      /\ j + 3 <= Len(v) <=> (k + j - 1) + 3 <= Len(u)
      /\ j + 3 <= Len(v) => j + 1 <= Len(v) /\ j + 2 <= Len(v) /\ j \in DOMAIN v
      /\ j + 3 > Len(v) <=> ~(j + 3 <= Len(v))
      /\ (k + j - 1) + 3 > Len(u) <=> ~((k + j - 1) + 3 <= Len(u))
    BY <1>1, <1>2, <1>3, <1>4
<1> DEFINE m == k + j - 1
<1> HIDE DEF m
<1>9. /\ j \in DOMAIN v <=> m \in DOMAIN u
      /\ j \in DOMAIN v => v[j] = u[m]
      /\ j + 1 <= Len(v) => v[j + 1] = u[m + 1]
      /\ j + 2 <= Len(v) => v[j + 2] = u[m + 2]
      /\ j + 3 <= Len(v) => v[j + 3] = u[m + 3]
      /\ j + 1 <= Len(v) <=> m + 1 <= Len(u)
      /\ j + 2 <= Len(v) <=> m + 2 <= Len(u)
      /\ j + 3 <= Len(v) <=> m + 3 <= Len(u)
      /\ j + 3 <= Len(v) => j + 1 <= Len(v) /\ j + 2 <= Len(v) /\ j \in DOMAIN v
      /\ j + 3 > Len(v) <=> ~(j + 3 <= Len(v))
      /\ m + 3 > Len(u) <=> ~(m + 3 <= Len(u))
    BY <1>5, <1>7, <1>8 DEF m
<1>10. j \in Cites(v) <=> m \in Cites(u)
    BY <1>9, Zenon DEF Cites, CiteAt
<1>11. j \in PartialFrom(v) <=> m \in PartialFrom(u)
    BY <1>9, Zenon DEF PartialFrom
<1> QED BY <1>10, <1>11 DEF m, v

LEMMA CitesUpTo ==
    ASSUME NEW S, NEW u \in Seq(S), NEW k \in 1..Len(u) + 1
    PROVE  \A j : j \in Cites(UpTo(u, k)) <=> j \in Cites(u) /\ j + 3 < k
<1> DEFINE v == UpTo(u, k)
<1>1. Len(u) \in Nat /\ DOMAIN u = 1..Len(u)
    BY LenProperties
<1>2. v \in Seq(S) /\ Len(v) = k - 1 /\ \A i \in 1..k - 1 : v[i] = u[i]
    BY UpToIs
<1> HIDE DEF v
<1>3. DOMAIN v = 1..Len(v)
    BY <1>2, LenProperties
<1>4. ASSUME NEW j \in Nat PROVE j \in Cites(v) <=> j \in Cites(u) /\ j + 3 < k
    <2>1. CASE ~(j + 3 < k)
        <3>1. ~(j + 3 <= Len(v))
            BY <1>1, <1>2, <2>1
        <3> QED BY <2>1, <3>1 DEF Cites, CiteAt
    <2>2. CASE j + 3 < k /\ j # 0
        <3>1. /\ j \in 1..k - 1 /\ j + 1 \in 1..k - 1 /\ j + 2 \in 1..k - 1 /\ j + 3 \in 1..k - 1
              /\ j + 3 <= Len(v) /\ j + 3 <= Len(u) /\ j \in DOMAIN u /\ j \in DOMAIN v
            BY <1>1, <1>2, <1>3, <2>2
        <3>2. v[j] = u[j] /\ v[j + 1] = u[j + 1] /\ v[j + 2] = u[j + 2] /\ v[j + 3] = u[j + 3]
            BY <1>2, <3>1
        <3> QED BY <2>2, <3>1, <3>2 DEF Cites, CiteAt
    <2>3. CASE j = 0
        <3>1. j \notin DOMAIN u /\ j \notin DOMAIN v
            BY <1>1, <1>2, <1>3, <2>3
        <3> QED BY <3>1 DEF Cites
    <2> QED BY <2>1, <2>2, <2>3
<1>5. \A j : j \in Cites(v) \/ j \in Cites(u) => j \in Nat
    BY <1>2, CitesAre
<1> QED BY <1>4, <1>5 DEF v

-----------------------------------------------------------------------------
(* The recursion of Clean.                                                 *)

\* What becomes of a citation, for a prompt that holds g.
KeptBy(g, text, n) == IF text[n + 2] \in g THEN SubSeq(text, n, n + 3) ELSE <<>>

CleanAt(g, u, clean, k) ==
    LET rest == From(u, k)
        n    == LeastOf(Cites(rest))
    IN  IF Cites(rest) = {} THEN rest
        ELSE UpTo(rest, n) \o (IF rest[n + 2] \in g THEN SubSeq(rest, n, n + 3) ELSE <<>>) \o clean[k + n + 3]

Cleaning(g, u) == CHOOSE clean : clean = [k \in 1..Len(u) + 1 |-> CleanAt(g, u, clean, k)]
CleanOf(g, u) == Cleaning(g, u)[1]

LEMMA CleanIs == \A u : Clean(u) = CleanOf(given, u)
BY DEF Clean, CleanOf, Cleaning, CleanAt

\* The first citation of a text, and the text after it.
LEMMA FirstCite ==
    ASSUME NEW S, NEW u \in Seq(S), Cites(u) # {}
    PROVE  LET n == LeastOf(Cites(u))
           IN  /\ n \in Cites(u) /\ n \in 1..Len(u) /\ n + 3 \in 1..Len(u) /\ n + 4 \in 1..Len(u) + 1
               /\ n \in 1..Len(u) + 1 /\ \A m \in Cites(u) : n <= m
               /\ UpTo(u, n) \in Seq(S) /\ From(u, n + 4) \in Seq(S)
               /\ SubSeq(u, n, n + 3) \in Seq(S) /\ \A g : KeptBy(g, u, n) \in Seq(S)
<1> DEFINE n == LeastOf(Cites(u))
<1>1. /\ n \in Cites(u) /\ n \in 1..Len(u) /\ n + 3 \in 1..Len(u) /\ \A m \in Cites(u) : n <= m
    BY CitesAre
<1> HIDE DEF n
<1>2. Len(u) \in Nat
    BY LenProperties
<1>3. n + 4 \in 1..Len(u) + 1 /\ n \in 1..Len(u) + 1
    BY <1>1, <1>2
<1>4. UpTo(u, n) \in Seq(S) /\ From(u, n + 4) \in Seq(S)
    BY <1>3, UpToIs, FromIs
<1>5. SubSeq(u, n, n + 3) \in Seq(S)
    <2>1. n \in Int /\ n + 3 \in Int /\ \A i \in n..n + 3 : i \in 1..Len(u)
        BY <1>1, <1>2
    <2>2. \A i \in n..n + 3 : u[i] \in S
        BY <2>1, ElementOfSeq
    <2> QED BY <2>1, <2>2, SubSeqProperties
<1>6. <<>> \in Seq(S)
    BY EmptySeq
<1> QED BY <1>1, <1>3, <1>4, <1>5, <1>6 DEF n, KeptBy

\* The places a pass visits: after the first citation from a place on.
LEMMA NextPlace ==
    ASSUME NEW S, NEW u \in Seq(S), NEW k \in 1..Len(u) + 1, Cites(From(u, k)) # {}
    PROVE  LET rest == From(u, k)
               n    == LeastOf(Cites(rest))
           IN  /\ k + n + 3 \in 1..Len(u) + 1 /\ k + n + 3 > k /\ n + 4 \in 1..Len(rest) + 1
               /\ rest \in Seq(S) /\ From(rest, n + 4) = From(u, k + n + 3)
<1> DEFINE rest == From(u, k)
           n == LeastOf(Cites(rest))
<1>1. rest \in Seq(S) /\ Len(rest) = Len(u) - k + 1 /\ Len(u) \in Nat
    BY FromIs, LenProperties
<1>2. n \in 1..Len(rest) /\ n + 3 \in 1..Len(rest) /\ n + 4 \in 1..Len(rest) + 1
    <2> HIDE DEF rest
    <2>1. Cites(rest) # {}
        BY DEF rest
    <2> QED BY <1>1, <2>1, FirstCite
<1> HIDE DEF n
<1>3. n + 4 \in 1..Len(u) - k + 2 /\ k + (n + 4) - 1 = k + n + 3 /\ k + n + 3 > k
    <2> HIDE DEF rest
    <2> QED BY <1>1, <1>2
<1>4. From(rest, n + 4) = From(u, k + (n + 4) - 1) /\ k + (n + 4) - 1 \in 1..Len(u) + 1
    BY <1>3, FromFrom
<1> QED BY <1>1, <1>2, <1>3, <1>4 DEF n

LEMMA CleaningIs ==
    ASSUME NEW S, NEW u \in Seq(S), NEW g
    PROVE  /\ \A k \in 1..Len(u) + 1 : Cleaning(g, u)[k] \in Seq(S)
           /\ \A k \in 1..Len(u) + 1 : Cleaning(g, u)[k] = CleanAt(g, u, Cleaning(g, u), k)
<1> DEFINE N == Len(u) + 1
           V == Seq(S)
           Rest(k) == From(u, k)
           First1(k) == LeastOf(Cites(Rest(k)))
           base == [k \in 1..N |-> Rest(k)]
           Head1(k) == IF Cites(Rest(k)) = {} THEN <<>>
                       ELSE UpTo(Rest(k), First1(k)) \o KeptBy(g, Rest(k), First1(k))
           step == [k \in 1..N |-> [w \in V |-> Head1(k) \o w]]
           after == [k \in 1..N |-> IF Cites(Rest(k)) = {} THEN 0 ELSE k + First1(k) + 3]
<1>1. N \in Nat /\ Len(u) \in Nat /\ <<>> \in V
    BY LenProperties, EmptySeq
<1>2. \A k \in 1..N : Rest(k) \in V
    BY FromIs
<1>3. ASSUME NEW k \in 1..N PROVE Head1(k) \in V
    <2>1. CASE Cites(Rest(k)) = {}
        BY <1>1, <2>1
    <2>2. CASE Cites(Rest(k)) # {}
        <3> DEFINE r == Rest(k)
        <3>1. r \in Seq(S) /\ Cites(r) # {}
            BY <1>2, <2>2
        <3> HIDE DEF r
        <3>2. /\ UpTo(r, LeastOf(Cites(r))) \in Seq(S)
              /\ KeptBy(g, r, LeastOf(Cites(r))) \in Seq(S)
            BY <3>1, FirstCite
        <3>3. UpTo(r, LeastOf(Cites(r))) \o KeptBy(g, r, LeastOf(Cites(r))) \in Seq(S)
            BY <3>2, ConcatProperties
        <3> QED BY <2>2, <3>3 DEF r
    <2> QED BY <2>1, <2>2
<1>4. base \in [1..N -> V]
    <2> HIDE DEF Rest, V, N
    <2> QED BY <1>2
<1>5. step \in [1..N -> [V -> V]]
    <2>1. \A k \in 1..N : \A w \in V : Head1(k) \o w \in V
        BY <1>3, ConcatProperties
    <2> HIDE DEF Head1, V, N
    <2> QED BY <2>1
<1>6. ASSUME NEW k \in 1..N PROVE after[k] \in 0..N /\ (after[k] = 0 \/ after[k] > k)
    <2>1. CASE Cites(Rest(k)) = {}
        BY <1>1, <2>1
    <2>2. CASE Cites(Rest(k)) # {}
        <3>1. k + First1(k) + 3 \in 1..N /\ k + First1(k) + 3 > k
            BY <2>2, NextPlace
        <3>2. after[k] = k + First1(k) + 3
            BY <2>2
        <3> HIDE DEF after, First1, N
        <3> QED BY <1>1, <3>1, <3>2
    <2> QED BY <2>1, <2>2
<1>7. after \in [1..N -> 0..N]
    <2>1. \A f : f = after => f = [k \in 1..N |-> f[k]]
        OBVIOUS
    <2> HIDE DEF after
    <2> QED BY <1>6, <2>1
<1>8. PICK f \in [1..N -> V] : IsPass(f, N, base, step, after)
    <2> HIDE DEF after, base, step, N, V
    <2>1. \A k \in 1..N : after[k] = 0 \/ after[k] > k
        BY <1>6
    <2>2. N \in Nat
        BY <1>1
    <2> QED BY <1>4, <1>5, <1>7, <2>1, <2>2, PassExists, Zenon
<1>9. ASSUME NEW k \in 1..N PROVE f[k] = CleanAt(g, u, f, k)
    <2>1. CASE Cites(Rest(k)) = {}
        <3>1. after[k] = 0 /\ base[k] = Rest(k)
            BY <2>1
        <3>2. f[k] = Rest(k)
            BY <1>8, <3>1 DEF IsPass
        <3> QED BY <2>1, <3>2 DEF CleanAt
    <2>2. CASE Cites(Rest(k)) # {}
        <3> DEFINE m == k + First1(k) + 3
        <3>1. m \in 1..N /\ m > k
            BY <2>2, NextPlace
        <3>2. after[k] = m
            BY <2>2
        <3> HIDE DEF after
        <3>3. f[k] = step[k][f[m]] /\ f[m] \in V
            <4> HIDE DEF step, base, m, V
            <4>1. m # 0
                BY <1>1, <3>1
            <4> QED BY <1>8, <3>1, <3>2, <4>1 DEF IsPass
        <3>4. step[k][f[m]] = Head1(k) \o f[m]
            BY <3>3
        <3>5. Head1(k) = UpTo(Rest(k), First1(k)) \o KeptBy(g, Rest(k), First1(k))
            BY <2>2
        <3>6. f[k] = (UpTo(Rest(k), First1(k)) \o KeptBy(g, Rest(k), First1(k))) \o f[m]
            BY <3>3, <3>4, <3>5
        <3> QED BY <2>2, <3>6 DEF CleanAt, KeptBy
    <2> QED BY <2>1, <2>2
<1>10. f = [k \in 1..N |-> CleanAt(g, u, f, k)]
    <2>1. f = [k \in 1..N |-> f[k]]
        OBVIOUS
    <2> QED BY <1>9, <2>1
<1>11. \E clean : clean = [k \in 1..N |-> CleanAt(g, u, clean, k)]
    BY <1>10
<1>12. Cleaning(g, u) = [k \in 1..N |-> CleanAt(g, u, Cleaning(g, u), k)]
    <2> DEFINE c == Cleaning(g, u)
    <2>1. c = CHOOSE clean : clean = [k \in 1..N |-> CleanAt(g, u, clean, k)]
        BY DEF Cleaning
    <2> QED BY <1>11, <2>1
<1>13. \A k \in 1..N : Cleaning(g, u)[k] = CleanAt(g, u, Cleaning(g, u), k)
    <2>1. \A c : c = [k \in 1..N |-> CleanAt(g, u, c, k)] => \A k \in 1..N : c[k] = CleanAt(g, u, c, k)
        OBVIOUS
    <2> QED BY <1>12, <2>1
<1>14. \A k \in 1..N : Cleaning(g, u)[k] = f[k]
    <2> DEFINE Wrong == {k \in 1..N : Cleaning(g, u)[k] # f[k]}
    <2>1. ASSUME NEW k \in Wrong PROVE \E m \in Wrong : m > k
        <3> DEFINE m == k + First1(k) + 3
        <3>1. Cleaning(g, u)[k] = CleanAt(g, u, Cleaning(g, u), k) /\ f[k] = CleanAt(g, u, f, k)
            BY <1>9, <1>13
        <3>2. Cites(Rest(k)) # {}
            BY <3>1 DEF CleanAt
        <3>3. m \in 1..N /\ m > k
            BY <3>2, NextPlace
        <3>4. Cleaning(g, u)[m] # f[m]
            BY <3>1 DEF CleanAt
        <3> HIDE DEF m
        <3> QED BY <3>3, <3>4
    <2>2. Wrong \in SUBSET (1..N)
        OBVIOUS
    <2>3. Wrong = {}
        <3> HIDE DEF Wrong, N
        <3> QED BY <1>1, <2>1, <2>2, FromTheEnd
    <2> QED BY <2>3
<1> QED BY <1>13, <1>14

\* The pass over what follows a place is the rest of the pass.
LEMMA CleaningRest ==
    ASSUME NEW S, NEW u \in Seq(S), NEW g, NEW k \in 1..Len(u) + 1
    PROVE  CleanOf(g, From(u, k)) = Cleaning(g, u)[k]
<1> DEFINE v == From(u, k)
           N == Len(v) + 1
           Wrong == {j \in 1..N : Cleaning(g, v)[j] # Cleaning(g, u)[k + j - 1]}
<1>1. v \in Seq(S) /\ Len(v) = Len(u) - k + 1 /\ Len(u) \in Nat /\ N \in Nat
    BY FromIs, LenProperties
<1>2. ASSUME NEW j \in Wrong PROVE \E m \in Wrong : m > j
    <2>1. j \in 1..Len(u) - k + 2 /\ j \in 1..Len(v) + 1
        <3> HIDE DEF v
        <3> QED BY <1>1
    <2>2. From(v, j) = From(u, k + j - 1) /\ k + j - 1 \in 1..Len(u) + 1
        BY <2>1, FromFrom
    <2> DEFINE rest == From(v, j)
               n == LeastOf(Cites(rest))
               i == k + j - 1
    <2>3. Cleaning(g, v)[j] = CleanAt(g, v, Cleaning(g, v), j)
        <3> HIDE DEF v
        <3> QED BY <1>1, <2>1, CleaningIs
    <2>4. Cleaning(g, u)[i] = CleanAt(g, u, Cleaning(g, u), i)
        BY <2>2, CleaningIs
    <2>5. Cites(rest) # {}
        BY <2>2, <2>3, <2>4 DEF CleanAt
    <2>6. Cleaning(g, v)[j + n + 3] # Cleaning(g, u)[i + n + 3]
        BY <2>2, <2>3, <2>4 DEF CleanAt
    <2>7. j + n + 3 \in 1..Len(v) + 1 /\ j + n + 3 > j
        <3> HIDE DEF v
        <3> QED BY <1>1, <2>1, <2>5, NextPlace
    <2>8. i + n + 3 = k + (j + n + 3) - 1
        <3>1. n \in Int
            <4> HIDE DEF v
            <4>1. rest \in Seq(S) /\ Cites(rest) # {}
                BY <1>1, <2>1, <2>5, FromIs
            <4> HIDE DEF rest
            <4>2. n \in 1..Len(rest)
                BY <4>1, FirstCite
            <4> QED BY <4>2
        <3> HIDE DEF n
        <3> QED BY <3>1, <2>1
    <2> HIDE DEF n
    <2>9. j + n + 3 \in Wrong
        BY <2>6, <2>7, <2>8
    <2> QED BY <2>7, <2>9
<1>3. Wrong \in SUBSET (1..N)
    OBVIOUS
<1>4. Wrong = {}
    <2> HIDE DEF Wrong, N
    <2> QED BY <1>1, <1>2, <1>3, FromTheEnd
<1>5. 1 \in 1..N /\ k + 1 - 1 = k
    <2> HIDE DEF v
    <2>1. Len(v) \in Nat
        BY <1>1, LenProperties
    <2> QED BY <2>1
<1>6. Cleaning(g, v)[1] = Cleaning(g, u)[k]
    BY <1>4, <1>5
<1> QED BY <1>6 DEF CleanOf

\* What Clean makes of a text, by its first citation.
LEMMA CleanStep ==
    ASSUME NEW S, NEW u \in Seq(S), NEW g
    PROVE  /\ CleanOf(g, u) \in Seq(S)
           /\ Cites(u) = {} => CleanOf(g, u) = u
           /\ Cites(u) # {} =>
                 LET n == LeastOf(Cites(u))
                 IN  CleanOf(g, u) = UpTo(u, n) \o KeptBy(g, u, n) \o CleanOf(g, From(u, n + 4))
<1>1. Len(u) \in Nat /\ 1 \in 1..Len(u) + 1
    BY LenProperties
<1>2. From(u, 1) = u
    <2>1. From(u, 1) \in Seq(S) /\ Len(From(u, 1)) = Len(u) - 1 + 1
          /\ \A j \in 1..Len(u) - 1 + 1 : From(u, 1)[j] = u[1 + j - 1]
        BY <1>1, FromIs
    <2>2. Len(From(u, 1)) = Len(u) /\ \A j \in 1..Len(From(u, 1)) : From(u, 1)[j] = u[j]
        BY <1>1, <2>1
    <2> QED BY <2>1, <2>2, SeqEqual
<1>3. /\ Cleaning(g, u)[1] \in Seq(S)
      /\ Cleaning(g, u)[1] = CleanAt(g, u, Cleaning(g, u), 1)
    BY <1>1, CleaningIs
<1>4. ASSUME Cites(u) # {}
      PROVE  LET n == LeastOf(Cites(u))
             IN  CleanOf(g, u) = UpTo(u, n) \o KeptBy(g, u, n) \o CleanOf(g, From(u, n + 4))
    <2> DEFINE n == LeastOf(Cites(u))
    <2>1. n \in 1..Len(u) /\ n + 4 \in 1..Len(u) + 1
        BY <1>4, FirstCite
    <2>2. CleanOf(g, From(u, n + 4)) = Cleaning(g, u)[n + 4]
        BY <2>1, CleaningRest
    <2>3. 1 + n + 3 = n + 4
        <3> HIDE DEF n
        <3> QED BY <2>1
    <2>4. Cleaning(g, u)[1] = UpTo(u, n) \o KeptBy(g, u, n) \o Cleaning(g, u)[1 + n + 3]
        BY <1>2, <1>3, <1>4 DEF CleanAt, KeptBy
    <2> QED BY <2>2, <2>3, <2>4 DEF CleanOf
<1>5. Cites(u) = {} => CleanOf(g, u) = u
    BY <1>2, <1>3 DEF CleanAt, CleanOf
<1> QED BY <1>3, <1>4, <1>5 DEF CleanOf

-----------------------------------------------------------------------------
(* The recursion of Filter.                                                *)

FilterAt(g, text, filter, k) ==
    LET rest    == From(text, k)
        n       == LeastOf(Cites(rest))
        partial == PartialFrom(rest)
        more    == filter[k + n + 3]
    IN  IF Cites(rest) # {}
        THEN IF PartialFrom(UpTo(rest, n)) # {}
             THEN [out |-> <<>>, held |-> rest]
             ELSE [out |-> UpTo(rest, n) \o (IF rest[n + 2] \in g THEN SubSeq(rest, n, n + 3) ELSE <<>>) \o more.out,
                   held |-> more.held]
        ELSE IF partial # {}
             THEN [out |-> UpTo(rest, LeastOf(partial)), held |-> From(rest, LeastOf(partial))]
             ELSE [out |-> rest, held |-> <<>>]

Filtering(g, text) == CHOOSE filter : filter = [k \in 1..Len(text) + 1 |-> FilterAt(g, text, filter, k)]
FilterOf(g, text) == Filtering(g, text)[1]

LEMMA FilterIs == \A u : Filter(u) = FilterOf(given, u)
BY DEF Filter, FilterOf, Filtering, FilterAt, Kept

\* Where the loop of feed ends, and with what.
Stops(rest) == Cites(rest) = {} \/ PartialFrom(UpTo(rest, LeastOf(Cites(rest)))) # {}

Stopped(rest) ==
    IF Cites(rest) # {} THEN [out |-> <<>>, held |-> rest]
    ELSE IF PartialFrom(rest) # {}
         THEN [out |-> UpTo(rest, LeastOf(PartialFrom(rest))), held |-> From(rest, LeastOf(PartialFrom(rest)))]
         ELSE [out |-> rest, held |-> <<>>]

Filtered(S) == [out : Seq(S), held : Seq(S)]

LEMMA StoppedIs ==
    ASSUME NEW S, NEW r \in Seq(S)
    PROVE  Stopped(r) \in Filtered(S)
<1>1. <<>> \in Seq(S) /\ Len(r) \in Nat
    BY EmptySeq, LenProperties
<1>2. ASSUME PartialFrom(r) # {}
      PROVE  /\ UpTo(r, LeastOf(PartialFrom(r))) \in Seq(S)
             /\ From(r, LeastOf(PartialFrom(r))) \in Seq(S)
    <2> DEFINE p == LeastOf(PartialFrom(r))
    <2>1. p \in 1..Len(r)
        BY <1>2, CitesAre
    <2> HIDE DEF p
    <2>2. p \in 1..Len(r) + 1
        BY <1>1, <2>1
    <2>3. UpTo(r, p) \in Seq(S) /\ From(r, p) \in Seq(S)
        BY <2>2, UpToIs, FromIs
    <2> QED BY <2>3 DEF p
<1> QED BY <1>1, <1>2 DEF Stopped, Filtered

LEMMA FilteringIs ==
    ASSUME NEW S, NEW u \in Seq(S), NEW g
    PROVE  /\ \A k \in 1..Len(u) + 1 : Filtering(g, u)[k] \in Filtered(S)
           /\ \A k \in 1..Len(u) + 1 : Filtering(g, u)[k] = FilterAt(g, u, Filtering(g, u), k)
<1> DEFINE N == Len(u) + 1
           V == Filtered(S)
           Rest(k) == From(u, k)
           First1(k) == LeastOf(Cites(Rest(k)))
           base == [k \in 1..N |-> Stopped(Rest(k))]
           Head1(k) == IF Stops(Rest(k)) THEN <<>>
                       ELSE UpTo(Rest(k), First1(k)) \o KeptBy(g, Rest(k), First1(k))
           step == [k \in 1..N |-> [w \in V |-> [out |-> Head1(k) \o w.out, held |-> w.held]]]
           after == [k \in 1..N |-> IF Stops(Rest(k)) THEN 0 ELSE k + First1(k) + 3]
<1>1. N \in Nat /\ Len(u) \in Nat /\ <<>> \in Seq(S)
    BY LenProperties, EmptySeq
<1>2. \A k \in 1..N : Rest(k) \in Seq(S)
    BY FromIs
<1>3. ASSUME NEW k \in 1..N PROVE Head1(k) \in Seq(S)
    <2>1. CASE Stops(Rest(k))
        BY <1>1, <2>1
    <2>2. CASE ~Stops(Rest(k))
        <3> DEFINE r == Rest(k)
        <3>1. r \in Seq(S) /\ Cites(r) # {}
            BY <1>2, <2>2 DEF Stops
        <3> HIDE DEF r
        <3>2. /\ UpTo(r, LeastOf(Cites(r))) \in Seq(S)
              /\ KeptBy(g, r, LeastOf(Cites(r))) \in Seq(S)
            BY <3>1, FirstCite
        <3>3. UpTo(r, LeastOf(Cites(r))) \o KeptBy(g, r, LeastOf(Cites(r))) \in Seq(S)
            BY <3>2, ConcatProperties
        <3> QED BY <2>2, <3>3 DEF r
    <2> QED BY <2>1, <2>2
<1>4. base \in [1..N -> V]
    <2>1. \A k \in 1..N : Stopped(Rest(k)) \in V
        BY <1>2, StoppedIs
    <2> HIDE DEF Rest, V, N
    <2> QED BY <2>1
<1>5. step \in [1..N -> [V -> V]]
    <2>1. \A k \in 1..N : \A w \in V : [out |-> Head1(k) \o w.out, held |-> w.held] \in V
        <3> SUFFICES ASSUME NEW k \in 1..N, NEW w \in V
                     PROVE  [out |-> Head1(k) \o w.out, held |-> w.held] \in V
            OBVIOUS
        <3>1. w.out \in Seq(S) /\ w.held \in Seq(S) /\ Head1(k) \in Seq(S)
            BY <1>3 DEF Filtered
        <3> HIDE DEF Head1
        <3>2. Head1(k) \o w.out \in Seq(S)
            BY <3>1, ConcatProperties
        <3> QED BY <3>1, <3>2 DEF Filtered
    <2> HIDE DEF Head1, V, N
    <2> QED BY <2>1
<1>6. ASSUME NEW k \in 1..N PROVE after[k] \in 0..N /\ (after[k] = 0 \/ after[k] > k)
    <2>1. CASE Stops(Rest(k))
        BY <1>1, <2>1
    <2>2. CASE ~Stops(Rest(k))
        <3>1. k + First1(k) + 3 \in 1..N /\ k + First1(k) + 3 > k
            BY <2>2, NextPlace DEF Stops
        <3>2. after[k] = k + First1(k) + 3
            BY <2>2
        <3> HIDE DEF after, First1, N
        <3> QED BY <1>1, <3>1, <3>2
    <2> QED BY <2>1, <2>2
<1>7. after \in [1..N -> 0..N]
    <2>1. \A f : f = after => f = [k \in 1..N |-> f[k]]
        OBVIOUS
    <2> HIDE DEF after
    <2> QED BY <1>6, <2>1
<1>8. PICK f \in [1..N -> V] : IsPass(f, N, base, step, after)
    <2> HIDE DEF after, base, step, N, V
    <2>1. \A k \in 1..N : after[k] = 0 \/ after[k] > k
        BY <1>6
    <2>2. N \in Nat
        BY <1>1
    <2> QED BY <1>4, <1>5, <1>7, <2>1, <2>2, PassExists, Zenon
<1>9. ASSUME NEW k \in 1..N PROVE f[k] = FilterAt(g, u, f, k)
    <2>1. CASE Stops(Rest(k))
        <3>1. after[k] = 0 /\ base[k] = Stopped(Rest(k))
            BY <2>1
        <3>2. f[k] = Stopped(Rest(k))
            BY <1>8, <3>1 DEF IsPass
        <3> QED BY <2>1, <3>2 DEF FilterAt, Stopped, Stops
    <2>2. CASE ~Stops(Rest(k))
        <3> DEFINE m == k + First1(k) + 3
        <3>1. m \in 1..N /\ m > k
            BY <2>2, NextPlace DEF Stops
        <3>2. after[k] = m
            BY <2>2
        <3> HIDE DEF after
        <3>3. f[k] = step[k][f[m]] /\ f[m] \in V
            <4> HIDE DEF step, base, m, V
            <4>1. m # 0
                BY <1>1, <3>1
            <4> QED BY <1>8, <3>1, <3>2, <4>1 DEF IsPass
        <3>4. step[k][f[m]] = [out |-> Head1(k) \o f[m].out, held |-> f[m].held]
            BY <3>3
        <3>5. Head1(k) = UpTo(Rest(k), First1(k)) \o KeptBy(g, Rest(k), First1(k))
            BY <2>2
        <3>6. f[k] = [out |-> (UpTo(Rest(k), First1(k)) \o KeptBy(g, Rest(k), First1(k))) \o f[m].out,
                      held |-> f[m].held]
            BY <3>3, <3>4, <3>5
        <3> QED BY <2>2, <3>6 DEF FilterAt, KeptBy, Stops
    <2> QED BY <2>1, <2>2
<1>10. f = [k \in 1..N |-> FilterAt(g, u, f, k)]
    <2>1. f = [k \in 1..N |-> f[k]]
        OBVIOUS
    <2> QED BY <1>9, <2>1
<1>11. \E filter : filter = [k \in 1..N |-> FilterAt(g, u, filter, k)]
    BY <1>10
<1>12. Filtering(g, u) = [k \in 1..N |-> FilterAt(g, u, Filtering(g, u), k)]
    <2> DEFINE c == Filtering(g, u)
    <2>1. c = CHOOSE filter : filter = [k \in 1..N |-> FilterAt(g, u, filter, k)]
        BY DEF Filtering
    <2> QED BY <1>11, <2>1
<1>13. \A k \in 1..N : Filtering(g, u)[k] = FilterAt(g, u, Filtering(g, u), k)
    <2>1. \A c : c = [k \in 1..N |-> FilterAt(g, u, c, k)] => \A k \in 1..N : c[k] = FilterAt(g, u, c, k)
        OBVIOUS
    <2> QED BY <1>12, <2>1
<1>14. \A k \in 1..N : Filtering(g, u)[k] = f[k]
    <2> DEFINE Wrong == {k \in 1..N : Filtering(g, u)[k] # f[k]}
    <2>1. ASSUME NEW k \in Wrong PROVE \E m \in Wrong : m > k
        <3> DEFINE m == k + First1(k) + 3
        <3>1. Filtering(g, u)[k] = FilterAt(g, u, Filtering(g, u), k) /\ f[k] = FilterAt(g, u, f, k)
            BY <1>9, <1>13
        <3>2. Cites(Rest(k)) # {}
            BY <3>1 DEF FilterAt
        <3>3. m \in 1..N /\ m > k
            BY <3>2, NextPlace
        <3>4. Filtering(g, u)[m] # f[m]
            BY <3>1 DEF FilterAt
        <3> HIDE DEF m
        <3> QED BY <3>3, <3>4
    <2>2. Wrong \in SUBSET (1..N)
        OBVIOUS
    <2>3. Wrong = {}
        <3> HIDE DEF Wrong, N
        <3> QED BY <1>1, <2>1, <2>2, FromTheEnd
    <2> QED BY <2>3
<1> QED BY <1>13, <1>14

LEMMA FilteringRest ==
    ASSUME NEW S, NEW u \in Seq(S), NEW g, NEW k \in 1..Len(u) + 1
    PROVE  FilterOf(g, From(u, k)) = Filtering(g, u)[k]
<1> DEFINE v == From(u, k)
           N == Len(v) + 1
           Wrong == {j \in 1..N : Filtering(g, v)[j] # Filtering(g, u)[k + j - 1]}
<1>1. v \in Seq(S) /\ Len(v) = Len(u) - k + 1 /\ Len(u) \in Nat /\ N \in Nat
    BY FromIs, LenProperties
<1>2. ASSUME NEW j \in Wrong PROVE \E m \in Wrong : m > j
    <2>1. j \in 1..Len(u) - k + 2 /\ j \in 1..Len(v) + 1
        <3> HIDE DEF v
        <3> QED BY <1>1
    <2>2. From(v, j) = From(u, k + j - 1) /\ k + j - 1 \in 1..Len(u) + 1
        BY <2>1, FromFrom
    <2> DEFINE rest == From(v, j)
               n == LeastOf(Cites(rest))
               i == k + j - 1
    <2>3. Filtering(g, v)[j] = FilterAt(g, v, Filtering(g, v), j)
        <3> HIDE DEF v
        <3> QED BY <1>1, <2>1, FilteringIs
    <2>4. Filtering(g, u)[i] = FilterAt(g, u, Filtering(g, u), i)
        BY <2>2, FilteringIs
    <2>5. Cites(rest) # {}
        BY <2>2, <2>3, <2>4, SMTT(20) DEF FilterAt
    <2>6. Filtering(g, v)[j + n + 3] # Filtering(g, u)[i + n + 3]
        BY <2>2, <2>3, <2>4, ZenonT(40) DEF FilterAt
    <2>7. j + n + 3 \in 1..Len(v) + 1 /\ j + n + 3 > j
        <3> HIDE DEF v
        <3> QED BY <1>1, <2>1, <2>5, NextPlace
    <2>8. i + n + 3 = k + (j + n + 3) - 1
        <3>1. n \in Int
            <4> HIDE DEF v
            <4>1. rest \in Seq(S) /\ Cites(rest) # {}
                BY <1>1, <2>1, <2>5, FromIs
            <4> HIDE DEF rest
            <4>2. n \in 1..Len(rest)
                BY <4>1, FirstCite
            <4> QED BY <4>2
        <3> HIDE DEF n
        <3> QED BY <3>1, <2>1
    <2> HIDE DEF n
    <2>9. j + n + 3 \in Wrong
        BY <2>6, <2>7, <2>8
    <2> QED BY <2>7, <2>9
<1>3. Wrong \in SUBSET (1..N)
    OBVIOUS
<1>4. Wrong = {}
    <2> HIDE DEF Wrong, N
    <2> QED BY <1>1, <1>2, <1>3, FromTheEnd
<1>5. 1 \in 1..N /\ k + 1 - 1 = k
    <2> HIDE DEF v
    <2>1. Len(v) \in Nat
        BY <1>1, LenProperties
    <2> QED BY <2>1
<1>6. Filtering(g, v)[1] = Filtering(g, u)[k]
    BY <1>4, <1>5
<1> QED BY <1>6 DEF FilterOf

LEMMA FromFirst ==
    ASSUME NEW S, NEW u \in Seq(S)
    PROVE  From(u, 1) = u /\ 1 \in 1..Len(u) + 1
<1>1. Len(u) \in Nat /\ 1 \in 1..Len(u) + 1
    BY LenProperties
<1>2. From(u, 1) \in Seq(S) /\ Len(From(u, 1)) = Len(u) - 1 + 1
      /\ \A j \in 1..Len(u) - 1 + 1 : From(u, 1)[j] = u[1 + j - 1]
    BY <1>1, FromIs
<1>3. Len(From(u, 1)) = Len(u) /\ \A j \in 1..Len(From(u, 1)) : From(u, 1)[j] = u[j]
    BY <1>1, <1>2
<1> QED BY <1>1, <1>2, <1>3, SeqEqual

\* What the loop of feed makes of a text, by its first citation.
LEMMA FilterStep ==
    ASSUME NEW S, NEW u \in Seq(S), NEW g
    PROVE  /\ FilterOf(g, u) \in Filtered(S)
           /\ Stops(u) => FilterOf(g, u) = Stopped(u)
           /\ ~Stops(u) =>
                 LET n    == LeastOf(Cites(u))
                     more == FilterOf(g, From(u, n + 4))
                 IN  FilterOf(g, u) = [out |-> UpTo(u, n) \o KeptBy(g, u, n) \o more.out, held |-> more.held]
<1>1. From(u, 1) = u /\ 1 \in 1..Len(u) + 1 /\ Len(u) \in Nat
    BY FromFirst, LenProperties
<1>2. /\ Filtering(g, u)[1] \in Filtered(S)
      /\ Filtering(g, u)[1] = FilterAt(g, u, Filtering(g, u), 1)
    BY <1>1, FilteringIs
<1>3. ASSUME ~Stops(u)
      PROVE  LET n    == LeastOf(Cites(u))
                 more == FilterOf(g, From(u, n + 4))
             IN  FilterOf(g, u) = [out |-> UpTo(u, n) \o KeptBy(g, u, n) \o more.out, held |-> more.held]
    <2> DEFINE n == LeastOf(Cites(u))
               more == Filtering(g, u)[1 + n + 3]
    <2>1. n \in 1..Len(u) /\ n + 4 \in 1..Len(u) + 1
        BY <1>3, FirstCite DEF Stops
    <2>2. FilterOf(g, From(u, n + 4)) = Filtering(g, u)[n + 4]
        BY <2>1, FilteringRest
    <2>3. 1 + n + 3 = n + 4
        <3> HIDE DEF n
        <3> QED BY <2>1
    <2>4. Filtering(g, u)[1] = [out |-> UpTo(u, n) \o KeptBy(g, u, n) \o more.out, held |-> more.held]
        BY <1>1, <1>2, <1>3 DEF FilterAt, KeptBy, Stops
    <2> QED BY <2>2, <2>3, <2>4 DEF FilterOf
<1>4. Stops(u) => FilterOf(g, u) = Stopped(u)
    BY <1>1, <1>2 DEF FilterAt, FilterOf, Stops, Stopped
<1> QED BY <1>2, <1>3, <1>4 DEF FilterOf

-----------------------------------------------------------------------------
(* Parts of a text that are filtered on their own.                         *)

UpToTo(u, p, m) == UpTo(u, p) \o UpTo(From(u, p), m) = UpTo(u, p + m - 1)

LEMMA UpToJoin ==
    ASSUME NEW S, NEW u \in Seq(S), NEW p \in 1..Len(u) + 1, NEW m \in 1..Len(u) - p + 2
    PROVE  /\ UpToTo(u, p, m)
           /\ p + m - 1 \in 1..Len(u) + 1 /\ m \in 1..Len(From(u, p)) + 1
           /\ UpTo(u, p) \in Seq(S) /\ UpTo(From(u, p), m) \in Seq(S)
<1> DEFINE v == From(u, p)
           s == UpTo(u, p)
           t == UpTo(v, m)
           w == UpTo(u, p + m - 1)
<1>1. Len(u) \in Nat
    BY LenProperties
<1>2. v \in Seq(S) /\ Len(v) = Len(u) - p + 1 /\ \A i \in 1..Len(u) - p + 1 : v[i] = u[p + i - 1]
    BY FromIs
<1> HIDE DEF v
<1>3. m \in 1..Len(v) + 1 /\ p + m - 1 \in 1..Len(u) + 1
    BY <1>1, <1>2
<1>4. s \in Seq(S) /\ Len(s) = p - 1 /\ \A j \in 1..p - 1 : s[j] = u[j]
    BY UpToIs
<1>5. t \in Seq(S) /\ Len(t) = m - 1 /\ \A j \in 1..m - 1 : t[j] = v[j]
    BY <1>2, <1>3, UpToIs
<1>6. w \in Seq(S) /\ Len(w) = (p + m - 1) - 1 /\ \A j \in 1..(p + m - 1) - 1 : w[j] = u[j]
    BY <1>3, UpToIs
<1> HIDE DEF s, t, w
<1>7. /\ s \o t \in Seq(S) /\ Len(s \o t) = Len(s) + Len(t)
      /\ \A i \in 1..Len(s) + Len(t) : (s \o t)[i] = IF i <= Len(s) THEN s[i] ELSE t[i - Len(s)]
    BY <1>4, <1>5, ConcatProperties
<1>8. Len(s \o t) = Len(w)
    BY <1>3, <1>4, <1>5, <1>6, <1>7
<1>9. ASSUME NEW i \in 1..Len(s \o t) PROVE (s \o t)[i] = w[i]
    <2>1. i \in 1..Len(s) + Len(t) /\ i \in 1..(p + m - 1) - 1
        BY <1>6, <1>7, <1>8
    <2>2. CASE i <= Len(s)
        <3>1. i \in 1..p - 1
            BY <1>4, <2>1, <2>2
        <3> QED BY <1>4, <1>6, <1>7, <2>1, <2>2, <3>1
    <2>3. CASE ~(i <= Len(s))
        <3>1. /\ i - Len(s) \in 1..m - 1 /\ i - Len(s) \in 1..Len(u) - p + 1
              /\ p + (i - Len(s)) - 1 = i
            BY <1>1, <1>3, <1>4, <1>5, <2>1, <2>3
        <3> QED BY <1>2, <1>5, <1>6, <1>7, <2>1, <2>3, <3>1
    <2> QED BY <2>2, <2>3
<1>10. s \o t = w
    BY <1>6, <1>7, <1>8, <1>9, SeqEqual
<1> QED BY <1>3, <1>4, <1>5, <1>10 DEF s, t, v, w, UpToTo

\* A citation of a part is the whole's.
LEMMA KeptFrom ==
    ASSUME NEW S, NEW u \in Seq(S), NEW p \in 1..Len(u) + 1, NEW g,
           NEW m \in Nat \ {0}, m + 3 \in 1..Len(u) - p + 1
    PROVE  KeptBy(g, From(u, p), m) = KeptBy(g, u, p + m - 1)
<1> DEFINE v == From(u, p)
           n == p + m - 1
<1>1. Len(u) \in Nat
    BY LenProperties
<1>2. v \in Seq(S) /\ Len(v) = Len(u) - p + 1 /\ \A i \in 1..Len(u) - p + 1 : v[i] = u[p + i - 1]
    BY FromIs
<1> HIDE DEF v
<1>3. /\ n \in Int /\ n + 3 \in Int /\ m \in Int /\ m + 3 \in Int
      /\ (m + 3) - m + 1 = 4 /\ (n + 3) - n + 1 = 4 /\ m <= m + 3 /\ n <= n + 3
      /\ m + 2 \in 1..Len(u) - p + 1 /\ p + (m + 2) - 1 = n + 2
    BY <1>1
<1>4. /\ \A i \in m..m + 3 : i \in 1..Len(v)
      /\ \A i \in n..n + 3 : i \in 1..Len(u)
    BY <1>1, <1>2
<1>5. (\A i \in m..m + 3 : v[i] \in S) /\ (\A i \in n..n + 3 : u[i] \in S)
    BY <1>2, <1>4, ElementOfSeq
<1> HIDE DEF n
<1>6. /\ SubSeq(v, m, m + 3) \in Seq(S) /\ Len(SubSeq(v, m, m + 3)) = 4
      /\ \A i \in 1..4 : SubSeq(v, m, m + 3)[i] = v[m + i - 1]
    <2>1. /\ SubSeq(v, m, m + 3) \in Seq(S)
          /\ Len(SubSeq(v, m, m + 3)) = IF m <= m + 3 THEN (m + 3) - m + 1 ELSE 0
          /\ \A i \in 1..(m + 3) - m + 1 : SubSeq(v, m, m + 3)[i] = v[m + i - 1]
        BY <1>3, <1>5, SubSeqProperties
    <2> QED BY <1>3, <2>1
<1>7. /\ SubSeq(u, n, n + 3) \in Seq(S) /\ Len(SubSeq(u, n, n + 3)) = 4
      /\ \A i \in 1..4 : SubSeq(u, n, n + 3)[i] = u[n + i - 1]
    <2>1. /\ SubSeq(u, n, n + 3) \in Seq(S)
          /\ Len(SubSeq(u, n, n + 3)) = IF n <= n + 3 THEN (n + 3) - n + 1 ELSE 0
          /\ \A i \in 1..(n + 3) - n + 1 : SubSeq(u, n, n + 3)[i] = u[n + i - 1]
        BY <1>3, <1>5, SubSeqProperties
    <2> QED BY <1>3, <2>1
<1>8. ASSUME NEW i \in 1..4 PROVE v[m + i - 1] = u[n + i - 1]
    <2>1. m + i - 1 \in 1..Len(u) - p + 1 /\ p + (m + i - 1) - 1 = n + i - 1
        BY <1>1 DEF n
    <2> QED BY <1>2, <2>1
<1>9. SubSeq(v, m, m + 3) = SubSeq(u, n, n + 3)
    <2> DEFINE a == SubSeq(v, m, m + 3)
               b == SubSeq(u, n, n + 3)
    <2>1. /\ a \in Seq(S) /\ Len(a) = 4 /\ \A i \in 1..4 : a[i] = v[m + i - 1]
          /\ b \in Seq(S) /\ Len(b) = 4 /\ \A i \in 1..4 : b[i] = u[n + i - 1]
        BY <1>6, <1>7
    <2> HIDE DEF a, b
    <2>2. \A i \in 1..4 : a[i] = b[i]
        BY <1>8, <2>1
    <2>3. a = b
        BY <2>1, <2>2, SeqEqual
    <2> QED BY <2>3 DEF a, b
<1>10. v[m + 2] = u[n + 2]
    BY <1>2, <1>3
<1> QED BY <1>9, <1>10 DEF KeptBy, n, v

\* What is before all citations goes out as it is.
LEMMA CleanAfter ==
    ASSUME NEW S, NEW u \in Seq(S), NEW g, NEW p \in 1..Len(u) + 1, \A j \in Cites(u) : p <= j
    PROVE  CleanOf(g, u) = UpTo(u, p) \o CleanOf(g, From(u, p))
<1> DEFINE v == From(u, p)
<1>1. v \in Seq(S) /\ Len(v) = Len(u) - p + 1 /\ Len(u) \in Nat
    BY FromIs, LenProperties
<1>2. \A j \in Nat \ {0} : j \in Cites(v) <=> p + j - 1 \in Cites(u)
    BY CitesFrom
<1>3. CASE Cites(u) = {}
    <2>1. Cites(v) = {}
        <3>1. Cites(v) \in SUBSET (1..Len(v)) /\ Len(v) \in Nat
            BY <1>1, CitesAre, LenProperties
        <3> HIDE DEF v
        <3>2. \A j \in Cites(v) : j \in Nat \ {0}
            BY <3>1
        <3> QED BY <1>2, <1>3, <3>2
    <2>2. CleanOf(g, v) = v
        <3> HIDE DEF v
        <3> QED BY <1>1, <2>1, CleanStep
    <2>3. CleanOf(g, u) = u /\ u = UpTo(u, p) \o v
        BY <1>3, CleanStep, Parted
    <2> QED BY <2>2, <2>3
<1>4. CASE Cites(u) # {}
    <2> DEFINE n == LeastOf(Cites(u))
               m == n - p + 1
    <2>1. /\ n \in Cites(u) /\ n \in 1..Len(u) /\ n + 3 \in 1..Len(u) /\ n + 4 \in 1..Len(u) + 1
          /\ \A i \in Cites(u) : n <= i
          /\ UpTo(u, n) \in Seq(S) /\ From(u, n + 4) \in Seq(S) /\ KeptBy(g, u, n) \in Seq(S)
        BY <1>4, FirstCite
    <2>2. CleanOf(g, u) = UpTo(u, n) \o KeptBy(g, u, n) \o CleanOf(g, From(u, n + 4))
        BY <1>4, CleanStep
    <2>3. p <= n
        BY <2>1
    <2> HIDE DEF n
    <2>4. /\ m \in Nat \ {0} /\ p + m - 1 = n /\ m + 3 \in 1..Len(u) - p + 1 /\ m \in 1..Len(u) - p + 2
          /\ m + 4 \in 1..Len(u) - p + 2 /\ p + (m + 4) - 1 = n + 4
        BY <1>1, <2>1, <2>3
    <2> HIDE DEF m
    <2>5. m \in Cites(v)
        BY <1>2, <2>1, <2>4
    <2>6. LeastOf(Cites(v)) = m
        <3> DEFINE k == LeastOf(Cites(v))
        <3>1. /\ k \in Cites(v) /\ k <= m /\ k \in 1..Len(v) /\ Len(v) \in Nat
            <4> HIDE DEF v
            <4>1. Cites(v) # {}
                BY <2>5
            <4> QED BY <1>1, <2>5, <4>1, CitesAre, LenProperties
        <3> HIDE DEF k, v
        <3>2. k \in Nat \ {0}
            BY <3>1
        <3>3. n <= p + k - 1
            BY <1>2, <2>1, <3>1, <3>2
        <3>4. k = m
            BY <2>1, <2>4, <3>1, <3>2, <3>3
        <3> QED BY <3>4 DEF k
    <2>7. CleanOf(g, v) = UpTo(v, m) \o KeptBy(g, v, m) \o CleanOf(g, From(v, m + 4))
        <3> HIDE DEF v
        <3>1. Cites(v) # {}
            BY <2>5
        <3> DEFINE k == LeastOf(Cites(v))
        <3>2. CleanOf(g, v) = UpTo(v, k) \o KeptBy(g, v, k) \o CleanOf(g, From(v, k + 4))
            BY <1>1, <3>1, CleanStep
        <3> QED BY <2>6, <3>2
    <2>8. From(v, m + 4) = From(u, n + 4)
        BY <2>4, FromFrom
    <2>9. KeptBy(g, v, m) = KeptBy(g, u, n)
        BY <2>4, KeptFrom
    <2>10. UpTo(u, p) \o UpTo(v, m) = UpTo(u, n) /\ UpTo(u, p) \in Seq(S) /\ UpTo(v, m) \in Seq(S)
        <3>1. UpToTo(u, p, m)
            BY <2>4, UpToJoin
        <3>2. UpTo(u, p) \in Seq(S)
            BY UpToIs
        <3>3. UpTo(v, m) \in Seq(S)
            <4> HIDE DEF v
            <4>1. m \in 1..Len(v) + 1
                BY <1>1, <2>4
            <4> QED BY <1>1, <4>1, UpToIs
        <3> QED BY <2>4, <3>1, <3>2, <3>3 DEF UpToTo
    <2> DEFINE a == UpTo(u, p)
               b == UpTo(v, m)
               c == KeptBy(g, u, n)
               d == CleanOf(g, From(u, n + 4))
    <2>11. a \in Seq(S) /\ b \in Seq(S) /\ c \in Seq(S) /\ d \in Seq(S)
        BY <2>1, <2>10, CleanStep
    <2>12. CleanOf(g, u) = ((a \o b) \o c) \o d /\ CleanOf(g, v) = (b \o c) \o d
        BY <2>2, <2>7, <2>8, <2>9, <2>10
    <2> HIDE DEF a, b, c, d
    <2>13. Regrouped(a, b, c, d)
        BY <2>11, FourJoined
    <2>14. CleanOf(g, u) = a \o CleanOf(g, v)
        BY <2>12, <2>13 DEF Regrouped
    <2> QED BY <2>14 DEF a
<1> QED BY <1>3, <1>4

\* A citation of a text that goes on.
LEMMA LateCites ==
    ASSUME NEW S, NEW t \in Seq(S), NEW x \in Seq(S)
    PROVE  /\ \A j \in Cites(t \o x) : j <= Len(t) => j \in Cites(t) \/ j \in PartialFrom(t)
           /\ \A j \in Cites(t \o x) : j + 3 <= Len(t) => j \in Cites(t)
           /\ \A j \in Cites(t) : j \in Cites(t \o x) /\ (t \o x)[j + 2] = t[j + 2]
<1> DEFINE u == t \o x
<1>1. /\ u \in Seq(S) /\ Len(u) = Len(t) + Len(x) /\ Len(t) \in Nat /\ Len(x) \in Nat
      /\ \A i \in 1..Len(t) : u[i] = t[i]
    BY JoinIs
<1>2. DOMAIN t = 1..Len(t) /\ DOMAIN u = 1..Len(u)
    BY <1>1, LenProperties
<1> HIDE DEF u
<1>3. ASSUME NEW j \in Cites(u), j + 3 <= Len(t) PROVE j \in Cites(t)
    <2>1. j \in 1..Len(u) /\ u[j] = "[" /\ u[j + 1] = "photo:" /\ u[j + 2] \in Photos /\ u[j + 3] = "]"
        BY <1>2 DEF Cites, CiteAt
    <2>2. j \in 1..Len(t) /\ j + 1 \in 1..Len(t) /\ j + 2 \in 1..Len(t) /\ j + 3 \in 1..Len(t)
        BY <1>1, <1>3, <2>1
    <2> QED BY <1>1, <1>2, <1>3, <2>1, <2>2 DEF Cites, CiteAt
<1>4. ASSUME NEW j \in Cites(u), j <= Len(t), ~(j + 3 <= Len(t)) PROVE j \in PartialFrom(t)
    <2>1. j \in 1..Len(u) /\ u[j] = "[" /\ u[j + 1] = "photo:" /\ u[j + 2] \in Photos
        BY <1>2 DEF Cites, CiteAt
    <2>2. j \in 1..Len(t) /\ j + 3 > Len(t) /\ t[j] = "["
        BY <1>1, <1>4, <2>1
    <2>3. j + 1 <= Len(t) => t[j + 1] = "photo:"
        <3>1. j + 1 <= Len(t) => j + 1 \in 1..Len(t)
            BY <1>1, <2>1
        <3> QED BY <1>1, <2>1, <3>1
    <2>4. j + 2 <= Len(t) => t[j + 2] \in Photos
        <3>1. j + 2 <= Len(t) => j + 2 \in 1..Len(t)
            BY <1>1, <2>1
        <3> QED BY <1>1, <2>1, <3>1
    <2> QED BY <1>2, <2>2, <2>3, <2>4 DEF PartialFrom
<1>5. ASSUME NEW j \in Cites(t) PROVE j \in Cites(u) /\ u[j + 2] = t[j + 2]
    <2>1. /\ j \in 1..Len(t) /\ j + 3 <= Len(t)
          /\ t[j] = "[" /\ t[j + 1] = "photo:" /\ t[j + 2] \in Photos /\ t[j + 3] = "]"
        BY <1>2 DEF Cites, CiteAt
    <2>2. /\ j + 1 \in 1..Len(t) /\ j + 2 \in 1..Len(t) /\ j + 3 \in 1..Len(t)
          /\ j \in 1..Len(u) /\ j + 3 <= Len(u)
        BY <1>1, <2>1
    <2>3. u[j] = "[" /\ u[j + 1] = "photo:" /\ u[j + 2] = t[j + 2] /\ u[j + 3] = "]"
        BY <1>1, <2>1, <2>2
    <2> QED BY <1>2, <2>1, <2>2, <2>3 DEF Cites, CiteAt
<1> QED BY <1>3, <1>4, <1>5 DEF u

\* Nothing begins a citation before a place, and the rest is left to itself.
LEMMA FromJoined ==
    ASSUME NEW S, NEW t \in Seq(S), NEW x \in Seq(S)
    PROVE  /\ From(t \o x, Len(t) + 1) = x /\ UpTo(t \o x, Len(t) + 1) = t
           /\ Len(t) + 1 \in 1..Len(t \o x) + 1
<1>1. t \o x \in Seq(S) /\ Len(t \o x) = Len(t) + Len(x) /\ Len(t) \in Nat /\ Len(x) \in Nat
    BY JoinIs
<1> DEFINE u == t \o x
           k == Len(t) + 1
<1>2. k \in 1..Len(u) + 1 /\ k \in 1..Len(t) + 1
    BY <1>1
<1>3. From(u, k) \in Seq(S) /\ Len(From(u, k)) = Len(u) - k + 1
      /\ \A j \in 1..Len(u) - k + 1 : From(u, k)[j] = u[k + j - 1]
    BY <1>1, <1>2, FromIs
<1>4. UpTo(u, k) \in Seq(S) /\ Len(UpTo(u, k)) = k - 1 /\ \A j \in 1..k - 1 : UpTo(u, k)[j] = u[j]
    BY <1>1, <1>2, UpToIs
<1>5. Len(From(u, k)) = Len(x) /\ Len(UpTo(u, k)) = Len(t)
    BY <1>1, <1>3, <1>4
<1>6. ASSUME NEW j \in 1..Len(x) PROVE From(u, k)[j] = x[j]
    <2>1. j \in 1..Len(u) - k + 1 /\ k + j - 1 = Len(t) + j
        BY <1>1
    <2>2. u[Len(t) + j] = x[j]
        BY JoinIs
    <2> HIDE DEF u, k
    <2> QED BY <1>3, <2>1, <2>2
<1>7. ASSUME NEW j \in 1..Len(t) PROVE UpTo(u, k)[j] = t[j]
    <2>1. j \in 1..k - 1
        BY <1>1
    <2> QED BY <1>4, <2>1, JoinIs
<1>8. From(u, k) = x
    BY <1>3, <1>5, <1>6, SeqEqual
<1>9. UpTo(u, k) = t
    BY <1>4, <1>5, <1>7, SeqEqual
<1> QED BY <1>2, <1>8, <1>9

-----------------------------------------------------------------------------
(* What the filter shows and holds.                                        *)

\* The end of a text without nested citations has none either.
LEMMA NestedFrom ==
    ASSUME NEW S, NEW u \in Seq(S), NEW k \in 1..Len(u) + 1, ~Nested(u)
    PROVE  ~Nested(From(u, k))
<1> DEFINE v == From(u, k)
<1> SUFFICES ASSUME NEW n \in Cites(v), NEW j \in PartialFrom(UpTo(v, n)) PROVE FALSE
    BY DEF Nested
<1>1. v \in Seq(S) /\ Len(v) = Len(u) - k + 1 /\ Len(u) \in Nat
    BY FromIs, LenProperties
<1>2. n \in 1..Len(v) /\ n \in 1..Len(v) + 1
    <2> HIDE DEF v
    <2>1. n \in 1..Len(v) /\ Len(v) \in Nat
        BY <1>1, CitesAre, LenProperties
    <2> QED BY <2>1
<1> DEFINE m == k + n - 1
<1>3. m \in Cites(u) /\ m \in 1..Len(u) + 1 /\ k \in 1..(m - 1) + 1
    <2>1. m \in Cites(u)
        <3>1. n \in Nat \ {0}
            BY <1>2
        <3> QED BY <3>1, CitesFrom
    <2> HIDE DEF v
    <2> QED BY <1>1, <1>2, <2>1
<1> DEFINE w == UpTo(u, m)
<1>4. w \in Seq(S) /\ Len(w) = m - 1 /\ \A i \in 1..m - 1 : w[i] = u[i]
    BY <1>3, UpToIs
<1>5. /\ UpTo(v, n) \in Seq(S) /\ Len(UpTo(v, n)) = n - 1 /\ \A i \in 1..n - 1 : UpTo(v, n)[i] = v[i]
    <2> HIDE DEF v
    <2> QED BY <1>1, <1>2, UpToIs
<1>6. k \in 1..Len(w) + 1
    <2> HIDE DEF w
    <2> QED BY <1>3, <1>4
<1>7. /\ From(w, k) \in Seq(S) /\ Len(From(w, k)) = Len(w) - k + 1
      /\ \A i \in 1..Len(w) - k + 1 : From(w, k)[i] = w[k + i - 1]
    <2> HIDE DEF w
    <2> QED BY <1>4, <1>6, FromIs
<1>8. UpTo(v, n) = From(w, k)
    <2>1. Len(UpTo(v, n)) = Len(From(w, k))
        <3> HIDE DEF w, v
        <3> QED BY <1>1, <1>2, <1>4, <1>5, <1>7
    <2>2. ASSUME NEW i \in 1..n - 1 PROVE UpTo(v, n)[i] = From(w, k)[i]
        <3>1. v[i] = u[k + i - 1]
            <4>1. i \in 1..Len(u) - k + 1
                <5> HIDE DEF v
                <5> QED BY <1>1, <1>2
            <4> QED BY <4>1, FromIs
        <3>2. w[k + i - 1] = u[k + i - 1] /\ i \in 1..Len(w) - k + 1
            <4>1. k + i - 1 \in 1..m - 1
                <5> HIDE DEF v
                <5> QED BY <1>1, <1>2
            <4>2. i \in 1..Len(w) - k + 1
                <5> HIDE DEF w, v
                <5> QED BY <1>1, <1>2, <1>4
            <4> HIDE DEF w, m
            <4> QED BY <1>4, <4>1, <4>2
        <3> HIDE DEF w, v
        <3> QED BY <1>5, <1>7, <3>1, <3>2
    <2> HIDE DEF w, v
    <2> QED BY <1>5, <1>7, <2>1, <2>2, SeqEqual
<1>9. j \in Nat \ {0}
    <2>1. j \in PartialFrom(UpTo(v, n))
        OBVIOUS
    <2> HIDE DEF v
    <2> DEFINE y == UpTo(v, n)
    <2>2. y \in Seq(S) /\ j \in PartialFrom(y)
        BY <1>5
    <2> HIDE DEF y
    <2>3. j \in 1..Len(y)
        BY <2>2, CitesAre
    <2> QED BY <2>3
<1>10. k + j - 1 \in PartialFrom(w)
    <2>1. j \in PartialFrom(From(w, k))
        BY <1>8
    <2> HIDE DEF w
    <2> QED BY <1>4, <1>6, <1>9, <2>1, CitesFrom
<1> QED BY <1>3, <1>10 DEF Nested

\* In a text that ends within a citation, it is the last thing.
LEMMA OneStart ==
    ASSUME NEW S, NEW u \in Seq(S), PartialFrom(u) # {}
    PROVE  PartialFrom(From(u, LeastOf(PartialFrom(u)))) = {1}
<1> DEFINE p == LeastOf(PartialFrom(u))
           v == From(u, p)
<1>1. p \in PartialFrom(u) /\ p \in 1..Len(u) /\ Len(u) \in Nat /\ DOMAIN u = 1..Len(u)
    BY CitesAre, LenProperties
<1> HIDE DEF p
<1>2. p \in 1..Len(u) + 1 /\ p + 1 - 1 = p
    BY <1>1
<1>3. v \in Seq(S)
    BY <1>2, FromIs
<1>4. 1 \in PartialFrom(v)
    BY <1>1, <1>2, CitesFrom
<1>5. ASSUME NEW j \in PartialFrom(v), j # 1 PROVE FALSE
    <2>1. j \in Nat \ {0}
        <3> HIDE DEF v
        <3>1. j \in 1..Len(v)
            BY <1>3, CitesAre
        <3> QED BY <3>1
    <2> DEFINE i == p + j - 1
    <2>2. i \in PartialFrom(u)
        BY <1>2, <2>1, CitesFrom
    <2>3. i \in 1..Len(u) /\ u[i] = "["
        BY <1>1, <2>2 DEF PartialFrom
    <2>4. /\ p + 1 <= Len(u) => u[p + 1] = "photo:"
          /\ p + 2 <= Len(u) => u[p + 2] \in Photos
          /\ p + 3 > Len(u)
        BY <1>1 DEF PartialFrom
    <2>5. i = p + 1 \/ i = p + 2
        BY <1>1, <1>5, <2>1, <2>3, <2>4
    <2> QED BY <1>1, <2>3, <2>4, <2>5, ChatAssumption
<1> QED BY <1>4, <1>5 DEF p

\* What the loop leaves to be cleaned is what it held, however the text goes on: the
\* last pass over the loop.
LEMMA StoppedClean ==
    ASSUME NEW S, NEW v \in Seq(S), NEW x \in Seq(S), NEW g, Stops(v)
    PROVE  CleanOf(g, v \o x) = Stopped(v).out \o CleanOf(g, Stopped(v).held \o x)
<1> DEFINE u == v \o x
<1>1. u \in Seq(S) /\ Len(v) \in Nat /\ CleanOf(g, u) \in Seq(S)
    BY JoinIs, CleanStep
<1>2. CASE Cites(v) # {}
    <2>1. Stopped(v).out = <<>> /\ Stopped(v).held = v
        BY <1>2 DEF Stopped
    <2>2. CleanOf(g, u) = <<>> \o CleanOf(g, u)
        BY <1>1, ConcatEmptySeq
    <2> QED BY <2>1, <2>2
<1>3. CASE Cites(v) = {} /\ PartialFrom(v) # {}
    <2> DEFINE p == LeastOf(PartialFrom(v))
    <2>1. /\ p \in PartialFrom(v) /\ p \in 1..Len(v) + 1 /\ \A n \in PartialFrom(v) : p <= n
          /\ PartialFrom(v) \in SUBSET (1..Len(v))
        <3>1. p \in PartialFrom(v) /\ (\A n \in PartialFrom(v) : p <= n) /\ PartialFrom(v) \in SUBSET (1..Len(v))
            BY <1>3, CitesAre
        <3> HIDE DEF p
        <3> QED BY <1>1, <3>1
    <2>2. Stopped(v).out = UpTo(v, p) /\ Stopped(v).held = From(v, p)
        BY <1>3 DEF Stopped
    <2> HIDE DEF p
    <2>3. ASSUME NEW j \in Cites(u) PROVE p <= j
        <3>1. j <= Len(v) => j \in PartialFrom(v)
            BY <1>3, LateCites
        <3>2. j \in Nat
            <4> HIDE DEF u
            <4> QED BY <1>1, CitesAre
        <3> QED BY <1>1, <2>1, <3>1, <3>2
    <2>4. p \in 1..Len(u) + 1 /\ UpTo(u, p) = UpTo(v, p) /\ From(u, p) = From(v, p) \o x
        <3>1. GoesOn(v, x, p)
            BY <2>1, PartsOfJoined
        <3> QED BY <3>1 DEF GoesOn
    <2>5. CleanOf(g, u) = UpTo(u, p) \o CleanOf(g, From(u, p))
        <3> HIDE DEF u
        <3> QED BY <1>1, <2>3, <2>4, CleanAfter
    <2> QED BY <2>2, <2>4, <2>5
<1>4. CASE Cites(v) = {} /\ PartialFrom(v) = {}
    <2>1. Stopped(v).out = v /\ Stopped(v).held = <<>> /\ <<>> \o x = x
        BY <1>4, ConcatEmptySeq DEF Stopped
    <2> DEFINE p == Len(v) + 1
    <2>2. ASSUME NEW j \in Cites(u) PROVE p <= j
        <3>1. ~(j <= Len(v))
            BY <1>4, LateCites
        <3>2. j \in Nat
            <4> HIDE DEF u
            <4> QED BY <1>1, CitesAre
        <3> QED BY <1>1, <3>1, <3>2
    <2>3. p \in 1..Len(u) + 1 /\ UpTo(u, p) = v /\ From(u, p) = x
        BY FromJoined
    <2>4. CleanOf(g, u) = UpTo(u, p) \o CleanOf(g, From(u, p))
        <3> HIDE DEF u, p
        <3> QED BY <1>1, <2>2, <2>3, CleanAfter
    <2> HIDE DEF p
    <2> QED BY <2>1, <2>3, <2>4
<1> QED BY <1>2, <1>3, <1>4

\* What the filter held of v is all that what follows can change.
Resumes(g, x, v) == CleanOf(g, v \o x) = FilterOf(g, v).out \o CleanOf(g, FilterOf(g, v).held \o x)

\* ... and one pass more.
LEMMA PassClean ==
    ASSUME NEW S, NEW v \in Seq(S), NEW x \in Seq(S), NEW g, ~Stops(v),
           Resumes(g, x, From(v, LeastOf(Cites(v)) + 4))
    PROVE  Resumes(g, x, v)
<1> DEFINE n    == LeastOf(Cites(v))
           rest == From(v, n + 4)
           more == FilterOf(g, rest)
           u    == v \o x
           last1 == CleanOf(g, more.held \o x)
<1>0. CleanOf(g, rest \o x) = more.out \o last1
    BY DEF Resumes
<1>1. u \in Seq(S) /\ Len(v) \in Nat /\ Len(x) \in Nat /\ Len(u) = Len(v) + Len(x)
    BY JoinIs
<1>2. Cites(v) # {}
    BY DEF Stops
<1>3. /\ n \in Cites(v) /\ n \in 1..Len(v) /\ n + 3 \in 1..Len(v) /\ n + 4 \in 1..Len(v) + 1
      /\ \A m \in Cites(v) : n <= m
      /\ UpTo(v, n) \in Seq(S) /\ rest \in Seq(S) /\ KeptBy(g, v, n) \in Seq(S)
    BY <1>2, FirstCite
<1>4. FilterOf(g, v) = [out |-> UpTo(v, n) \o KeptBy(g, v, n) \o more.out, held |-> more.held]
    BY FilterStep
<1>5. more.out \in Seq(S) /\ more.held \in Seq(S)
    <2>1. FilterOf(g, rest) \in Filtered(S)
        <3> HIDE DEF n, rest
        <3> QED BY <1>3, FilterStep
    <2> QED BY <2>1 DEF Filtered
<1>6. last1 \in Seq(S)
    <2>1. more.held \o x \in Seq(S)
        BY <1>5, JoinIs
    <2> QED BY <2>1, CleanStep
<1> HIDE DEF n
<1>7. n \in Cites(u) /\ u[n + 2] = v[n + 2]
    BY <1>3, LateCites
<1>8. ASSUME NEW j \in Cites(u) PROVE n <= j
    <2>1. j \in Nat
        <3> HIDE DEF u
        <3> QED BY <1>1, CitesAre
    <2>2. CASE j + 3 <= Len(v)
        BY <1>3, <2>2, LateCites
    <2>3. CASE ~(j + 3 <= Len(v))
        BY <1>1, <1>3, <2>1, <2>3
    <2> QED BY <2>2, <2>3
<1>9. LeastOf(Cites(u)) = n
    <2> DEFINE k == LeastOf(Cites(u))
    <2>1. k \in Cites(u) /\ k <= n /\ k \in Nat
        <3> HIDE DEF u
        <3> QED BY <1>1, <1>7, CitesAre
    <2>2. n <= k
        BY <1>8, <2>1
    <2> HIDE DEF k
    <2>3. k = n
        BY <1>3, <2>1, <2>2
    <2> QED BY <2>3 DEF k
<1>10. CleanOf(g, u) = UpTo(u, n) \o KeptBy(g, u, n) \o CleanOf(g, From(u, n + 4))
    <2> HIDE DEF u
    <2> DEFINE k == LeastOf(Cites(u))
    <2>1. Cites(u) # {}
        BY <1>7
    <2>2. CleanOf(g, u) = UpTo(u, k) \o KeptBy(g, u, k) \o CleanOf(g, From(u, k + 4))
        BY <1>1, <2>1, CleanStep
    <2> QED BY <1>9, <2>2
<1>11. UpTo(u, n) = UpTo(v, n) /\ From(u, n + 4) = rest \o x
    <2>1. n \in 1..Len(v) + 1
        BY <1>1, <1>3
    <2>2. GoesOn(v, x, n) /\ GoesOn(v, x, n + 4)
        BY <1>3, <2>1, PartsOfJoined
    <2> QED BY <2>2 DEF GoesOn
<1>12. KeptBy(g, u, n) = KeptBy(g, v, n)
    <2> DEFINE N == n + 3
    <2>1. /\ SubSeq(v, n, N) \in Seq(S) /\ Len(SubSeq(v, n, N)) = 4 /\ \A j \in 1..4 : SubSeq(v, n, N)[j] = v[n + j - 1]
        BY <1>1, <1>3, SubSeqProperties, ElementOfSeq
    <2>2. /\ SubSeq(u, n, N) \in Seq(S) /\ Len(SubSeq(u, n, N)) = 4 /\ \A j \in 1..4 : SubSeq(u, n, N)[j] = u[n + j - 1]
        BY <1>1, <1>3, SubSeqProperties, ElementOfSeq
    <2>3. \A j \in 1..4 : u[n + j - 1] = v[n + j - 1]
        <3>1. \A j \in 1..4 : n + j - 1 \in 1..Len(v)
            BY <1>1, <1>3
        <3> QED BY <3>1, JoinIs
    <2>4. SubSeq(u, n, N) = SubSeq(v, n, N)
        <3> HIDE DEF N, u
        <3> DEFINE s == SubSeq(u, n, N)
                   t == SubSeq(v, n, N)
        <3>1. s \in Seq(S) /\ t \in Seq(S) /\ Len(s) = Len(t) /\ \A j \in 1..Len(s) : s[j] = t[j]
            BY <2>1, <2>2, <2>3
        <3> HIDE DEF s, t
        <3>2. s = t
            BY <3>1, SeqEqual
        <3> QED BY <3>2 DEF s, t
    <2> QED BY <1>7, <2>4 DEF KeptBy
<1> DEFINE a == UpTo(v, n)
           b == KeptBy(g, v, n)
           c == more.out
<1>13. a \in Seq(S) /\ b \in Seq(S) /\ c \in Seq(S)
    BY <1>3, <1>5
<1>14. CleanOf(g, u) = (a \o b) \o (c \o last1)
    BY <1>0, <1>10, <1>11, <1>12
<1>15. FilterOf(g, v).out = (a \o b) \o c /\ FilterOf(g, v).held = more.held
    <2>1. FilterOf(g, v) = [out |-> (a \o b) \o c, held |-> more.held]
        BY <1>4
    <2> HIDE DEF a, b, c, more
    <2> QED BY <2>1
<1>16. (a \o b) \o (c \o last1) = ((a \o b) \o c) \o last1
    <2> HIDE DEF a, b, c, last1
    <2>1. Regrouped(a, b, c, last1)
        BY <1>6, <1>13, FourJoined
    <2> QED BY <2>1 DEF Regrouped
<1> QED BY <1>14, <1>15, <1>16 DEF Resumes

\* Cleaning a text that goes on is the loop of feed, and cleaning what it held: the
\* filter commits to nothing it would have to take back.
LEMMA FilterClean ==
    ASSUME NEW S, NEW t \in Seq(S), NEW x \in Seq(S), NEW g
    PROVE  Resumes(g, x, t)
<1> DEFINE N == Len(t) + 1
           Wrong == {k \in 1..N : ~Resumes(g, x, From(t, k))}
<1>1. Len(t) \in Nat /\ N \in Nat
    BY LenProperties
<1>2. ASSUME NEW k \in Wrong PROVE \E m \in Wrong : m > k
    <2> DEFINE v == From(t, k)
               n == LeastOf(Cites(v))
    <2>1. k \in 1..Len(t) + 1 /\ ~Resumes(g, x, v)
        OBVIOUS
    <2>2. v \in Seq(S)
        BY <2>1, FromIs
    <2>3. ~Stops(v)
        <3> SUFFICES ASSUME Stops(v) PROVE Resumes(g, x, v)
            BY <2>1
        <3> HIDE DEF v
        <3>1. FilterOf(g, v) = Stopped(v)
            BY <2>2, FilterStep
        <3>2. CleanOf(g, v \o x) = Stopped(v).out \o CleanOf(g, Stopped(v).held \o x)
            BY <2>2, StoppedClean
        <3> QED BY <3>1, <3>2 DEF Resumes
    <2>4. Cites(v) # {}
        BY <2>3 DEF Stops
    <2>5. k + n + 3 \in 1..Len(t) + 1 /\ k + n + 3 > k /\ From(v, n + 4) = From(t, k + n + 3)
        BY <2>1, <2>4, NextPlace
    <2> HIDE DEF v
    <2>6. ~Resumes(g, x, From(v, n + 4))
        BY <2>1, <2>2, <2>3, PassClean
    <2> HIDE DEF n
    <2>7. k + n + 3 \in Wrong
        BY <2>5, <2>6
    <2> QED BY <2>5, <2>7
<1>3. Wrong \in SUBSET (1..N)
    OBVIOUS
<1>4. Wrong = {}
    <2> HIDE DEF Wrong, N
    <2> QED BY <1>1, <1>2, <1>3, FromTheEnd
<1>5. 1 \in 1..N /\ From(t, 1) = t
    BY <1>1, FromFirst
<1> QED BY <1>4, <1>5

\* What the filter holds is the end of its text, and only the start of a citation.
HeldOf(u, h) ==
    /\ \E k \in 1..Len(u) + 1 : h = From(u, k)
    /\ ~Nested(u) => Cites(h) = {} /\ (h = <<>> \/ PartialFrom(h) = {1})

LEMMA HeldFrom ==
    ASSUME NEW S, NEW v \in Seq(S), NEW a \in 1..Len(v) + 1, NEW h, HeldOf(From(v, a), h)
    PROVE  HeldOf(v, h)
<1> DEFINE w == From(v, a)
<1>1. PICK j \in 1..Len(w) + 1 : h = From(w, j)
    BY DEF HeldOf
<1>2. Len(v) \in Nat /\ Len(w) = Len(v) - a + 1
    BY FromIs, LenProperties
<1>3. j \in 1..Len(v) - a + 2
    <2> HIDE DEF w
    <2> QED BY <1>2
<1>4. h = From(v, a + j - 1) /\ a + j - 1 \in 1..Len(v) + 1
    BY <1>1, <1>3, FromFrom
<1>5. ~Nested(v) => ~Nested(w)
    BY NestedFrom
<1>6. ~Nested(w) => Cites(h) = {} /\ (h = <<>> \/ PartialFrom(h) = {1})
    BY DEF HeldOf
<1> HIDE DEF w
<1> QED BY <1>4, <1>5, <1>6 DEF HeldOf

LEMMA StoppedHolds ==
    ASSUME NEW S, NEW v \in Seq(S), Stops(v)
    PROVE  HeldOf(v, Stopped(v).held)
<1>1. Len(v) \in Nat
    BY LenProperties
<1>2. CASE Cites(v) # {}
    <2>1. Stopped(v).held = v
        BY <1>2 DEF Stopped
    <2>2. LeastOf(Cites(v)) \in Cites(v)
        BY <1>2, CitesAre
    <2>3. Nested(v)
        BY <1>2, <2>2 DEF Stops, Nested
    <2> QED BY <2>1, <2>3, FromFirst DEF HeldOf
<1>3. CASE Cites(v) = {} /\ PartialFrom(v) # {}
    <2> DEFINE p == LeastOf(PartialFrom(v))
               h == From(v, p)
    <2>1. p \in PartialFrom(v) /\ PartialFrom(v) \in SUBSET (1..Len(v))
        BY <1>3, CitesAre
    <2>2. Stopped(v).held = h
        BY <1>3 DEF Stopped
    <2>3. PartialFrom(h) = {1}
        BY <1>3, OneStart
    <2> HIDE DEF p
    <2>4. p \in 1..Len(v) + 1 /\ p \in Nat
        BY <1>1, <2>1
    <2>5. Cites(h) = {}
        <3> SUFFICES ASSUME NEW j \in Cites(h) PROVE FALSE
            OBVIOUS
        <3>1. h \in Seq(S)
            BY <2>4, FromIs
        <3>2. j \in Nat \ {0}
            <4> HIDE DEF h
            <4>1. j \in 1..Len(h)
                BY <3>1, CitesAre
            <4> QED BY <4>1
        <3>3. p + j - 1 \in Cites(v)
            BY <2>4, <3>2, CitesFrom
        <3> QED BY <1>3, <3>3
    <2> QED BY <2>2, <2>3, <2>4, <2>5 DEF HeldOf
<1>4. CASE Cites(v) = {} /\ PartialFrom(v) = {}
    <2>1. Stopped(v).held = <<>>
        BY <1>4 DEF Stopped
    <2>2. <<>> \in Seq(S) /\ Len(<<>>) = 0 /\ Cites(<<>>) = {}
        <3>1. <<>> \in Seq(S) /\ Len(<<>>) = 0
            BY EmptySeq
        <3>2. Cites(<<>>) \in SUBSET (1..0)
            BY <3>1, CitesAre
        <3> QED BY <3>1, <3>2
    <2> DEFINE k == Len(v) + 1
    <2>3. k \in 1..Len(v) + 1 /\ From(v, k) = <<>>
        <3>1. v \o <<>> = v
            BY ConcatEmptySeq
        <3>2. From(v \o <<>>, k) = <<>>
            BY <2>2, FromJoined
        <3> QED BY <1>1, <3>1, <3>2
    <2> QED BY <2>1, <2>2, <2>3 DEF HeldOf
<1> QED BY <1>2, <1>3, <1>4

LEMMA FilterHolds ==
    ASSUME NEW S, NEW t \in Seq(S), NEW g
    PROVE  HeldOf(t, FilterOf(g, t).held)
<1> DEFINE H(v) == FilterOf(g, v).held
           N == Len(t) + 1
           Wrong == {k \in 1..N : ~HeldOf(From(t, k), H(From(t, k)))}
<1>1. Len(t) \in Nat /\ N \in Nat
    BY LenProperties
<1>2. ASSUME NEW k \in Wrong PROVE \E m \in Wrong : m > k
    <2> DEFINE v == From(t, k)
               n == LeastOf(Cites(v))
               w == From(v, n + 4)
    <2>1. k \in 1..Len(t) + 1 /\ ~HeldOf(v, H(v))
        OBVIOUS
    <2>2. v \in Seq(S)
        BY <2>1, FromIs
    <2>3. ~Stops(v)
        <3> SUFFICES ASSUME Stops(v) PROVE FALSE
            OBVIOUS
        <3> HIDE DEF v
        <3>1. FilterOf(g, v) = Stopped(v)
            BY <2>2, FilterStep
        <3>2. HeldOf(v, Stopped(v).held)
            BY <2>2, StoppedHolds
        <3> QED BY <2>1, <3>1, <3>2
    <2>4. Cites(v) # {}
        BY <2>3 DEF Stops
    <2>5. k + n + 3 \in 1..Len(t) + 1 /\ k + n + 3 > k /\ w = From(t, k + n + 3) /\ n + 4 \in 1..Len(v) + 1
        BY <2>1, <2>4, NextPlace
    <2>6. H(v) = H(w)
        <3> HIDE DEF v
        <3> DEFINE r == UpTo(v, n) \o KeptBy(g, v, n) \o FilterOf(g, w).out
        <3>1. FilterOf(g, v) = [out |-> r, held |-> H(w)]
            BY <2>2, <2>3, FilterStep
        <3> HIDE DEF r, n
        <3> QED BY <3>1
    <2> HIDE DEF v, n, H
    <2>7. ~HeldOf(w, H(w))
        <3> DEFINE a == n + 4
        <3>1. HeldOf(From(v, a), H(w)) => HeldOf(v, H(w))
            <4> HIDE DEF a, w
            <4>1. a \in 1..Len(v) + 1
                BY <2>5 DEF a
            <4> QED BY <2>2, <4>1, HeldFrom
        <3> HIDE DEF H
        <3> QED BY <2>1, <2>6, <3>1
    <2>8. k + n + 3 \in Wrong
        <3> HIDE DEF w
        <3>1. ~HeldOf(From(t, k + n + 3), H(From(t, k + n + 3)))
            BY <2>5, <2>7
        <3> QED BY <2>5, <3>1
    <2> QED BY <2>5, <2>8
<1>3. Wrong \in SUBSET (1..N)
    OBVIOUS
<1>4. Wrong = {}
    <2> HIDE DEF Wrong, N
    <2> QED BY <1>1, <1>2, <1>3, FromTheEnd
<1>5. 1 \in 1..N /\ From(t, 1) = t
    BY <1>1, FromFirst
<1>6. HeldOf(t, H(t))
    <2> HIDE DEF H
    <2> QED BY <1>4, <1>5
<1> QED BY <1>6

\* What went out stays right whatever follows.
Committed(S, g, s, o, h) == \A x \in Seq(S) : CleanOf(g, s \o x) = o \o CleanOf(g, h \o x)

LEMMA FedClean ==
    ASSUME NEW S, NEW g, NEW s \in Seq(S), NEW o \in Seq(S), NEW h \in Seq(S), NEW d \in Seq(S),
           Committed(S, g, s, o, h), HeldOf(s, h)
    PROVE  LET f == FilterOf(g, h \o d)
           IN  /\ f.out \in Seq(S) /\ f.held \in Seq(S)
               /\ Committed(S, g, s \o d, o \o f.out, f.held)
               /\ HeldOf(s \o d, f.held)
<1> DEFINE t == h \o d
           f == FilterOf(g, t)
<1>1. t \in Seq(S) /\ s \o d \in Seq(S)
    BY JoinIs
<1>2. f.out \in Seq(S) /\ f.held \in Seq(S)
    <2> HIDE DEF t
    <2>1. FilterOf(g, t) \in Filtered(S)
        BY <1>1, FilterStep
    <2> QED BY <2>1 DEF Filtered
<1>3. ASSUME NEW x \in Seq(S)
      PROVE  CleanOf(g, (s \o d) \o x) = (o \o f.out) \o CleanOf(g, f.held \o x)
    <2> DEFINE y == d \o x
               z == CleanOf(g, f.held \o x)
               a == f.out
    <2>1. y \in Seq(S) /\ (s \o d) \o x = s \o y /\ h \o y = t \o x
        <3>1. y \in Seq(S)
            BY JoinIs
        <3>2. Joined(s, d, x) /\ Joined(h, d, x)
            BY ThreeJoined
        <3> QED BY <3>1, <3>2 DEF Joined
    <2>2. z \in Seq(S)
        <3> HIDE DEF f
        <3>1. f.held \o x \in Seq(S)
            BY <1>2, JoinIs
        <3> QED BY <3>1, CleanStep
    <2>3. CleanOf(g, s \o y) = o \o CleanOf(g, h \o y)
        <3> HIDE DEF y
        <3> QED BY <2>1 DEF Committed
    <2>4. CleanOf(g, t \o x) = a \o z
        <3> HIDE DEF t
        <3>1. Resumes(g, x, t)
            BY <1>1, FilterClean
        <3> QED BY <3>1 DEF Resumes
    <2>5. Joined(o, a, z)
        <3> HIDE DEF a, z
        <3> QED BY <1>2, <2>2, ThreeJoined DEF a
    <2>6. o \o (a \o z) = (o \o a) \o z
        <3> HIDE DEF a, z
        <3> QED BY <2>5 DEF Joined
    <2> HIDE DEF y, z, a, t
    <2>7. CleanOf(g, (s \o d) \o x) = (o \o a) \o z
        BY <2>1, <2>3, <2>4, <2>6
    <2> QED BY <2>7 DEF z, a
<1>4. Committed(S, g, s \o d, o \o f.out, f.held)
    <2> HIDE DEF f
    <2> QED BY <1>3 DEF Committed
<1>5. HeldOf(s \o d, f.held)
    <2>1. PICK k \in 1..Len(s) + 1 : h = From(s, k)
        BY DEF HeldOf
    <2>2. t = From(s \o d, k) /\ k \in 1..Len(s \o d) + 1
        <3>1. GoesOn(s, d, k)
            BY PartsOfJoined
        <3> QED BY <2>1, <3>1 DEF GoesOn
    <2>3. HeldOf(t, f.held)
        <3> HIDE DEF t
        <3> QED BY <1>1, FilterHolds
    <2> DEFINE w == s \o d
    <2>4. HeldOf(From(w, k), f.held) /\ w \in Seq(S) /\ k \in 1..Len(w) + 1
        BY <1>1, <2>2, <2>3
    <2> HIDE DEF w, f
    <2>5. HeldOf(w, f.held)
        BY <2>4, HeldFrom
    <2> QED BY <2>5 DEF w
<1> QED BY <1>2, <1>4, <1>5

\* What is shown and what is held is the answer, cleaned.
LEMMA CommittedShown ==
    ASSUME NEW S, NEW g, NEW s \in Seq(S), NEW o \in Seq(S), NEW h \in Seq(S),
           Committed(S, g, s, o, h), HeldOf(s, h), ~Nested(s)
    PROVE  o \o h = CleanOf(g, s)
<1>1. <<>> \in Seq(S) /\ s \o <<>> = s /\ h \o <<>> = h
    BY EmptySeq, ConcatEmptySeq
<1>2. CleanOf(g, s) = o \o CleanOf(g, h)
    BY <1>1 DEF Committed
<1>3. Cites(h) = {}
    BY DEF HeldOf
<1>4. CleanOf(g, h) = h
    BY <1>3, CleanStep
<1> QED BY <1>2, <1>4

-----------------------------------------------------------------------------
(* The stream.                                                             *)

\* What a stream is made of.
Words == UNION {Range(delta) : delta \in Deltas}

LEMMA PiecesAre == \A delta \in Deltas : delta \in Seq(Words)
<1> SUFFICES ASSUME NEW delta \in Deltas PROVE delta \in Seq(Words)
    OBVIOUS
<1>1. delta \in Seq(Range(delta))
    BY ChatAssumption
<1>2. Range(delta) \subseteq Words
    BY DEF Words
<1>3. Seq(Range(delta)) \subseteq Seq(Words)
    BY <1>2, SeqMonotonic
<1> QED BY <1>1, <1>3

Streamed == {"stream", "failed", "done"}

StreamInv ==
    /\ said \in Seq(Words) /\ shown \in Seq(Words) /\ held \in Seq(Words)
    /\ at \notin Streamed => said = <<>> /\ shown = <<>> /\ held = <<>>
    /\ ~Nested(said) => shown \o held = CleanOf(given, said)
    /\ at = "stream" => Committed(Words, given, said, shown, held) /\ HeldOf(said, held)

\* Nothing is streamed yet.
NoStream == said = <<>> /\ shown = <<>> /\ held = <<>>

LEMMA NothingSaid == NoStream => StreamInv
<1> SUFFICES ASSUME NoStream PROVE StreamInv
    OBVIOUS
<1>1. /\ <<>> \in Seq(Words) /\ <<>> \o <<>> = <<>> /\ Len(<<>>) = 0
      /\ \A x \in Seq(Words) : <<>> \o x = x
    BY EmptySeq, ConcatEmptySeq
<1>2. Cites(<<>>) = {}
    <2>1. Cites(<<>>) \in SUBSET (1..Len(<<>>))
        BY <1>1, CitesAre
    <2> QED BY <1>1, <2>1
<1>3. ASSUME NEW g, NEW x \in Seq(Words) PROVE CleanOf(g, <<>> \o x) = <<>> \o CleanOf(g, <<>> \o x)
    <2>1. CleanOf(g, x) \in Seq(Words)
        BY CleanStep
    <2>2. <<>> \o CleanOf(g, x) = CleanOf(g, x)
        BY <2>1, ConcatEmptySeq
    <2> QED BY <1>1, <2>2
<1>4. \A g : Committed(Words, g, <<>>, <<>>, <<>>)
    BY <1>3 DEF Committed
<1>5. HeldOf(<<>>, <<>>)
    <2>1. 1 \in 1..Len(<<>>) + 1 /\ <<>> = From(<<>>, 1)
        BY <1>1, FromFirst
    <2> QED BY <1>2, <2>1 DEF HeldOf
<1>6. \A g : CleanOf(g, <<>>) = <<>>
    BY <1>1, <1>2, CleanStep
<1> DEFINE e == <<>>
<1>7. /\ said = e /\ shown = e /\ held = e /\ e \in Seq(Words) /\ e \o e = e
      /\ \A g : CleanOf(g, e) = e /\ Committed(Words, g, e, e, e)
      /\ HeldOf(e, e)
    BY <1>1, <1>4, <1>5, <1>6 DEF NoStream
<1>8. /\ said \in Seq(Words) /\ shown \in Seq(Words) /\ held \in Seq(Words)
      /\ at \notin Streamed => said = <<>> /\ shown = <<>> /\ held = <<>>
    BY <1>7
<1> HIDE DEF e
<1>9. shown \o held = CleanOf(given, said)
    BY <1>7
<1>10. Committed(Words, given, said, shown, held) /\ HeldOf(said, held)
    BY <1>7
<1> QED BY <1>8, <1>9, <1>10 DEF StreamInv

LEMMA NothingSaidThen == NoStream' => StreamInv'
BY NothingSaid, PTL

\* The stream, and where it is, stay as they are.
LEMMA NothingMore ==
    ASSUME StreamInv, UNCHANGED <<given, said, held, shown>>, at' = "stream" => at = "stream",
           at' \notin Streamed => at \notin Streamed
    PROVE  StreamInv'
BY DEF StreamInv

LEMMA StreamNext == StreamInv /\ [Next]_vars => StreamInv'
<1> SUFFICES ASSUME StreamInv, [Next]_vars PROVE StreamInv'
    OBVIOUS
<1> USE DEF request, prompt, gathered, stream, Streamed
<1>1. ASSUME at \notin Streamed, UNCHANGED stream PROVE StreamInv'
    <2>1. NoStream'
        BY <1>1 DEF StreamInv, NoStream
    <2> QED BY <2>1, NothingSaidThen
<1>2. CASE DirectAnswer \/ PlannerFirst \/ FetchPrimed \/ Card
    BY <1>1, <1>2 DEF DirectAnswer, PlannerFirst, FetchPrimed, Card
<1>3. CASE FetchNothing
    BY <1>1, <1>3 DEF FetchNothing
<1>4. ASSUME NEW choice \in {"search_library", "search_memories", "none"}, Route(choice) PROVE StreamInv'
    BY <1>1, <1>4 DEF Route
<1>5. ASSUME NEW result \in SUBSET photos,
             PrimeFirst(result) \/ FetchSearch(result) \/ GatherPrimed(result) \/ GatherSearch(result)
      PROVE  StreamInv'
    BY <1>1, <1>5 DEF PrimeFirst, FetchSearch, GatherPrimed, GatherSearch
<1>6. CASE GatherUnprimed \/ GatherFact \/ GatherServed \/ PlanSearch \/ GatherEnds
    BY <1>1, <1>6 DEF GatherUnprimed, GatherFact, GatherServed, PlanSearch, GatherEnds, Round
<1>7. ASSUME NEW blocks \in SUBSET Photos, Build(blocks) PROVE StreamInv'
    BY <1>1, <1>7 DEF Build
<1>8. ASSUME NEW delta \in Deltas, Feed(delta) PROVE StreamInv'
    <2> DEFINE f == FilterOf(given, held \o delta)
    <2>1. /\ at = "stream" /\ at' = at /\ given' = given
          /\ said' = said \o delta
          /\ shown' = shown \o f.out /\ held' = f.held
        BY <1>8, FilterIs DEF Feed
    <2>2. /\ said \in Seq(Words) /\ shown \in Seq(Words) /\ held \in Seq(Words) /\ delta \in Seq(Words)
          /\ Committed(Words, given, said, shown, held) /\ HeldOf(said, held)
        BY <2>1, PiecesAre DEF StreamInv
    <2>3. /\ f.out \in Seq(Words) /\ f.held \in Seq(Words)
          /\ Committed(Words, given, said \o delta, shown \o f.out, f.held)
          /\ HeldOf(said \o delta, f.held)
        BY <2>2, FedClean
    <2> HIDE DEF f
    <2>4. said \o delta \in Seq(Words) /\ shown \o f.out \in Seq(Words)
        BY <2>2, <2>3, JoinIs
    <2>5. ~Nested(said') => shown' \o held' = CleanOf(given', said')
        <3> DEFINE s == said'
                   o == shown'
                   h == held'
        <3>1. /\ s \in Seq(Words) /\ o \in Seq(Words) /\ h \in Seq(Words)
              /\ Committed(Words, given, s, o, h) /\ HeldOf(s, h)
            BY <2>1, <2>3, <2>4
        <3> HIDE DEF s, o, h
        <3>2. ~Nested(s) => o \o h = CleanOf(given, s)
            BY <3>1, CommittedShown
        <3> QED BY <2>1, <3>2 DEF s, o, h
    <2>6. Committed(Words, given', said', shown', held') /\ HeldOf(said', held')
        BY <2>1, <2>3
    <2> QED BY <2>1, <2>3, <2>4, <2>5, <2>6 DEF StreamInv
<1>9. CASE StreamEnds
    <2>1. /\ at = "stream" /\ at' = "done" /\ given' = given /\ said' = said
          /\ shown' = shown \o held /\ held' = <<>>
        BY <1>9 DEF StreamEnds
    <2>2. shown \o held \in Seq(Words) /\ <<>> \in Seq(Words) /\ said \in Seq(Words)
        BY JoinIs, EmptySeq DEF StreamInv
    <2> DEFINE o == shown \o held
    <2>3. o \o <<>> = o
        <3> HIDE DEF o
        <3> QED BY <2>2, ConcatEmptySeq DEF o
    <2>4. shown' \o held' = shown \o held
        BY <2>1, <2>3
    <2>5. ~Nested(said) => shown' \o held' = CleanOf(given, said)
        BY <2>4 DEF StreamInv
    <2>6. ~Nested(said') => shown' \o held' = CleanOf(given', said')
        BY <2>1, <2>5
    <2> HIDE DEF o
    <2> QED BY <2>1, <2>2, <2>6 DEF StreamInv
<1>10. CASE Fails
    <2>1. /\ UNCHANGED <<given, said, held, shown>> /\ at' = "failed"
        BY <1>10 DEF Fails
    <2> QED BY <2>1, NothingMore
<1>11. CASE Note
    <2>1. /\ UNCHANGED <<given, said, held, shown>> /\ at' = "done"
        BY <1>11 DEF Note
    <2> QED BY <2>1, NothingMore
<1>12. CASE Done \/ Leave
    BY <1>12, NothingSaidThen DEF Done, Leave, Forget, NoStream
<1>13. ASSUME NEW question \in Questions, NEW toggles \in Toggles, Ask(question, toggles) PROVE StreamInv'
    BY <1>1, <1>13 DEF Ask
<1>14. CASE Elsewhere \/ UNCHANGED vars
    <2>1. UNCHANGED <<given, said, held, shown, at>>
        BY <1>14 DEF Elsewhere, PhotoGone, Orphaned, NewSession, Change, vars
    <2> QED BY <2>1, NothingMore
<1> QED BY <1>2, <1>3, <1>4, <1>5, <1>6, <1>7, <1>8, <1>9, <1>10, <1>11, <1>12, <1>13, <1>14 DEF Next, Step

\* Whatever pieces the answer arrives in, the filter shows and holds exactly the answer
\* without the citations of photos that the prompt does not hold, and it holds back no
\* more than the start of a citation (CitationFilter.feed, flush).
THEOREM FilteredAsAWhole == Spec => []FilterExact
<1>1. Init => StreamInv
    BY NothingSaid DEF Init, NoStream
<1>2. StreamInv => FilterExact
    <2> SUFFICES ASSUME StreamInv, ~Nested(said)
                 PROVE  /\ shown \o held = Clean(said)
                        /\ at = "stream" => Cites(held) = {} /\ (held = <<>> \/ PartialFrom(held) = {1})
        BY DEF FilterExact
    <2>1. shown \o held = Clean(said)
        BY CleanIs DEF StreamInv
    <2>2. at = "stream" => Cites(held) = {} /\ (held = <<>> \/ PartialFrom(held) = {1})
        BY DEF StreamInv, HeldOf
    <2> QED BY <2>1, <2>2
<1> QED BY <1>1, <1>2, StreamNext, PTL DEF Spec

-----------------------------------------------------------------------------
(* The citations of what is shown.                                         *)

GivenIn(g, u) == \A n \in Cites(u) : u[n + 2] \in g

\* A kept citation holds no other beginning.
LEMMA KeptGiven ==
    ASSUME NEW S, NEW u \in Seq(S), NEW g, NEW n \in Cites(u), NEW d \in Seq(S), GivenIn(g, d)
    PROVE  KeptBy(g, u, n) \o d \in Seq(S) /\ GivenIn(g, KeptBy(g, u, n) \o d)
<1> DEFINE b == KeptBy(g, u, n)
           e == b \o d
<1>1. /\ n \in 1..Len(u) /\ n + 3 \in 1..Len(u) /\ u[n] = "[" /\ u[n + 1] = "photo:"
      /\ u[n + 2] \in Photos /\ u[n + 3] = "]" /\ Len(u) \in Nat
    BY CitesAre, LenProperties
<1>2. CASE u[n + 2] \notin g
    <2>1. b = <<>> /\ <<>> \o d = d
        BY <1>2, ConcatEmptySeq DEF KeptBy
    <2> QED BY <2>1
<1>3. CASE u[n + 2] \in g
    <2> DEFINE N == n + 3
    <2>1. b = SubSeq(u, n, N)
        BY <1>3 DEF KeptBy
    <2>2. SubSeq(u, n, N) \in Seq(S) /\ Len(SubSeq(u, n, N)) = 4 /\ \A j \in 1..4 : SubSeq(u, n, N)[j] = u[n + j - 1]
        BY <1>1, SubSeqProperties, ElementOfSeq
    <2> HIDE DEF N, b
    <2>3. b \in Seq(S) /\ Len(b) = 4 /\ \A j \in 1..4 : b[j] = u[n + j - 1]
        BY <2>1, <2>2
    <2>4. b[1] = "[" /\ b[2] = "photo:" /\ b[3] = u[n + 2] /\ b[4] = "]"
        <3>1. b[1] = u[n + 1 - 1] /\ b[2] = u[n + 2 - 1] /\ b[3] = u[n + 3 - 1] /\ b[4] = u[n + 4 - 1]
            BY <2>3
        <3>2. n + 1 - 1 = n /\ n + 2 - 1 = n + 1 /\ n + 3 - 1 = n + 2 /\ n + 4 - 1 = n + 3
            BY <1>1
        <3> QED BY <1>1, <3>1, <3>2
    <2>5. e \in Seq(S) /\ Len(e) = 4 + Len(d) /\ Len(d) \in Nat /\ \A i \in 1..4 : e[i] = b[i]
        <3>1. IsJoined(S, b, d)
            BY <2>3, JoinOf
        <3>2. e \in Seq(S) /\ Len(e) = Len(b) + Len(d) /\ Len(d) \in Nat /\ \A i \in 1..Len(b) : e[i] = b[i]
            BY <3>1 DEF IsJoined
        <3> HIDE DEF e
        <3> QED BY <2>3, <3>2
    <2>6. From(e, 5) = d /\ 5 \in 1..Len(e) + 1
        <3>1. From(b \o d, Len(b) + 1) = d
            BY <2>3, FromJoined
        <3>2. Len(b) + 1 = 5
            BY <2>3
        <3> QED BY <2>5, <3>1, <3>2
    <2>7. e[1] = "[" /\ e[2] = "photo:" /\ e[3] = u[n + 2] /\ e[4] = "]"
        BY <2>4, <2>5
    <2> HIDE DEF e
    <2>8. ASSUME NEW j \in Cites(e) PROVE e[j + 2] \in g
        <3>1. j \in 1..Len(e) /\ j + 3 \in 1..Len(e) /\ e[j] = "["
            BY <2>5, CitesAre
        <3>2. CASE j = 1
            BY <1>3, <2>7, <3>2
        <3>3. CASE j \in {2, 3, 4}
            BY <1>1, <2>7, <3>1, <3>3, ChatAssumption
        <3>4. CASE j > 4
            <4> DEFINE i == j - 4
            <4>1. i \in Nat \ {0} /\ 5 + i - 1 = j /\ i + 2 \in 1..Len(d) /\ 5 + (i + 2) - 1 = j + 2
                BY <2>5, <3>1, <3>4
            <4> HIDE DEF i
            <4>2. i \in Cites(d)
                <5>1. i \in Cites(From(e, 5)) <=> 5 + i - 1 \in Cites(e)
                    BY <2>5, <2>6, <4>1, CitesFrom
                <5> QED BY <2>6, <4>1, <5>1
            <4>3. d[i + 2] \in g
                BY <4>2 DEF GivenIn
            <4>4. d[i + 2] = e[j + 2]
                <5> DEFINE m == i + 2
                <5>1. m \in 1..Len(e) - 5 + 1
                    BY <2>5, <4>1
                <5> HIDE DEF m
                <5>2. From(e, 5)[m] = e[5 + m - 1]
                    BY <2>5, <2>6, <5>1, FromIs
                <5> QED BY <2>6, <4>1, <5>2 DEF m
            <4> QED BY <4>3, <4>4
        <3> QED BY <3>1, <3>2, <3>3, <3>4
    <2>9. e \in Seq(S) /\ GivenIn(g, e)
        BY <2>5, <2>8 DEF GivenIn
    <2> QED BY <2>9 DEF e, b
<1> QED BY <1>2, <1>3

\* Nothing is cited across the place where a text without beginnings ends.
LEMMA JoinGiven ==
    ASSUME NEW S, NEW a \in Seq(S), NEW e \in Seq(S), NEW g,
           Cites(a) = {}, PartialFrom(a) = {}, GivenIn(g, e)
    PROVE  GivenIn(g, a \o e)
<1> DEFINE u == a \o e
           k == Len(a) + 1
<1>1. u \in Seq(S) /\ Len(u) = Len(a) + Len(e) /\ Len(a) \in Nat /\ Len(e) \in Nat
    BY JoinIs
<1>2. From(u, k) = e /\ k \in 1..Len(u) + 1
    BY FromJoined
<1> SUFFICES ASSUME NEW j \in Cites(u) PROVE u[j + 2] \in g
    BY DEF GivenIn
<1>3. ~(j <= Len(a))
    BY LateCites
<1> HIDE DEF u
<1>4. j \in 1..Len(u) /\ j + 3 \in 1..Len(u)
    BY <1>1, CitesAre
<1> DEFINE i == j - Len(a)
           m == i + 2
<1>5. i \in Nat \ {0} /\ k + i - 1 = j /\ m \in 1..Len(u) - k + 1 /\ k + m - 1 = j + 2
    BY <1>1, <1>3, <1>4
<1> HIDE DEF k
<1>6. i \in Cites(e)
    <2> HIDE DEF i
    <2>1. i \in Cites(From(u, k)) <=> k + i - 1 \in Cites(u)
        BY <1>1, <1>2, <1>5, CitesFrom
    <2> QED BY <1>2, <1>5, <2>1
<1>7. e[m] \in g
    BY <1>6 DEF GivenIn
<1>8. e[m] = u[j + 2]
    <2> HIDE DEF m
    <2>1. \A n \in 1..Len(u) - k + 1 : From(u, k)[n] = u[k + n - 1]
        BY <1>1, <1>2, FromIs
    <2> QED BY <1>2, <1>5, <2>1
<1> QED BY <1>7, <1>8

\* Cleaning leaves the citations of given photos only.
LEMMA CleanGiven ==
    ASSUME NEW S, NEW t \in Seq(S), NEW g, ~Nested(t)
    PROVE  GivenIn(g, CleanOf(g, t))
<1> DEFINE N == Len(t) + 1
           Wrong == {k \in 1..N : ~GivenIn(g, CleanOf(g, From(t, k)))}
<1>1. Len(t) \in Nat /\ N \in Nat
    BY LenProperties
<1>2. ASSUME NEW k \in Wrong PROVE \E m \in Wrong : m > k
    <2> DEFINE v == From(t, k)
               n == LeastOf(Cites(v))
               w == From(v, n + 4)
    <2>1. k \in 1..Len(t) + 1 /\ ~GivenIn(g, CleanOf(g, v))
        OBVIOUS
    <2>2. v \in Seq(S) /\ ~Nested(v)
        BY <2>1, FromIs, NestedFrom
    <2>3. Cites(v) # {}
        <3> SUFFICES ASSUME Cites(v) = {} PROVE FALSE
            OBVIOUS
        <3> HIDE DEF v
        <3>1. CleanOf(g, v) = v
            BY <2>2, CleanStep
        <3> QED BY <2>1, <3>1 DEF GivenIn
    <2>4. k + n + 3 \in 1..Len(t) + 1 /\ k + n + 3 > k /\ w = From(t, k + n + 3)
        BY <2>1, <2>3, NextPlace
    <2> HIDE DEF v
    <2>5. n \in Cites(v) /\ UpTo(v, n) \in Seq(S) /\ w \in Seq(S) /\ (\A j \in Cites(v) : n <= j) /\ n \in 1..Len(v) + 1
        BY <2>2, <2>3, FirstCite
    <2>6. CleanOf(g, v) = UpTo(v, n) \o KeptBy(g, v, n) \o CleanOf(g, w)
        BY <2>2, <2>3, CleanStep
    <2> HIDE DEF n
    <2>7. CleanOf(g, w) \in Seq(S)
        BY <2>5, CleanStep
    <2>8. Cites(UpTo(v, n)) = {} /\ PartialFrom(UpTo(v, n)) = {}
        <3>1. ASSUME NEW j \in Cites(UpTo(v, n)) PROVE FALSE
            <4>1. j \in Cites(v) /\ j + 3 < n
                BY <2>2, <2>5, CitesUpTo
            <4>2. n <= j /\ j \in Nat /\ n \in Nat
                BY <2>2, <2>5, <4>1, CitesAre
            <4> QED BY <4>1, <4>2
        <3>2. PartialFrom(UpTo(v, n)) = {}
            BY <2>2, <2>5 DEF Nested
        <3> QED BY <3>1, <3>2
    <2>9. ~GivenIn(g, CleanOf(g, w))
        <3> SUFFICES ASSUME GivenIn(g, CleanOf(g, w)) PROVE FALSE
            OBVIOUS
        <3> DEFINE a == UpTo(v, n)
                   b == KeptBy(g, v, n)
                   d == CleanOf(g, w)
        <3>1. b \o d \in Seq(S) /\ GivenIn(g, b \o d)
            BY <2>2, <2>5, <2>7, KeptGiven
        <3>2. a \in Seq(S) /\ b \in Seq(S) /\ d \in Seq(S)
            <4> HIDE DEF w
            <4>1. b \in Seq(S)
                BY <2>2, <2>3, FirstCite DEF n
            <4> QED BY <2>5, <2>7, <4>1
        <3>3. GivenIn(g, a \o (b \o d))
            <4> DEFINE e == b \o d
            <4>1. e \in Seq(S) /\ GivenIn(g, e)
                BY <3>1
            <4> HIDE DEF e
            <4>2. GivenIn(g, a \o e)
                BY <2>5, <2>8, <4>1, JoinGiven
            <4> QED BY <4>2 DEF e
        <3>4. Joined(a, b, d)
            <4> HIDE DEF a, b, d
            <4> QED BY <3>2, ThreeJoined
        <3> QED BY <2>1, <2>6, <3>3, <3>4 DEF Joined
    <2>10. k + n + 3 \in Wrong
        BY <2>4, <2>9
    <2> QED BY <2>4, <2>10
<1>3. Wrong \in SUBSET (1..N)
    OBVIOUS
<1>4. Wrong = {}
    <2> HIDE DEF Wrong, N
    <2> QED BY <1>1, <1>2, <1>3, FromTheEnd
<1>5. 1 \in 1..N /\ From(t, 1) = t
    BY <1>1, FromFirst
<1> QED BY <1>4, <1>5

\* A photo that a stored answer or the screen cites was found by a search of this turn, or
\* is named by the question or by the worked example of the prompt (CitesFound): the
\* prompt holds no other, and the filter lets no other through.
THEOREM OnlyFoundCited == Spec => []CitesFound
<1>1. Init => StreamInv
    BY NothingSaid DEF Init, NoStream
<1>2. Init => PromptInv
    BY DEF Init, PromptInv, PromptOfThisTurn
<1>3. StreamInv /\ PromptInv => CitesFound
    <2> SUFFICES ASSUME StreamInv, PromptInv, ~Nested(said)
                 PROVE  CitedIds(shown) \subseteq given
        BY DEF CitesFound, PromptInv, PromptOfThisTurn
    <2>1. shown \in Seq(Words) /\ held \in Seq(Words) /\ said \in Seq(Words)
        BY DEF StreamInv
    <2>2. GivenIn(given, shown \o held)
        <3>1. shown \o held = CleanOf(given, said)
            BY DEF StreamInv
        <3>2. GivenIn(given, CleanOf(given, said))
            BY <2>1, CleanGiven
        <3> QED BY <3>1, <3>2
    <2>3. ASSUME NEW n \in Cites(shown) PROVE shown[n + 2] \in given
        <3>1. n \in Cites(shown \o held) /\ (shown \o held)[n + 2] = shown[n + 2]
            BY <2>1, LateCites
        <3> QED BY <2>2, <3>1 DEF GivenIn
    <2> QED BY <2>3 DEF CitedIds
<1> QED BY <1>1, <1>2, <1>3, TypeInit, TypeNext, PromptNext, StreamNext, PTL DEF Spec
=============================================================================
