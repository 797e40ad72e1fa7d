-------------------------------- MODULE Chat --------------------------------
(***************************************************************************)
(* A chat turn (the chat routes of web/app.py, chat/agent.py, context.py,  *)
(* citations.py, history.py, prefs.py, inference/prompts.py).              *)
(*                                                                         *)
(* A question is answered from the database where that is safe; else the   *)
(* planner model routes it, or gathers with tools, and a last call streams *)
(* the answer through a filter that drops the photos it was not given.     *)
(* What a model says, and which photos a search finds, is any value.       *)
(* Meanwhile a photo goes, a memory is left without photos, another        *)
(* session is begun, a call fails, and the browser leaves.                 *)
(***************************************************************************)
EXTENDS Naturals, SequencesExt

CONSTANTS
    Photos,        \* ids
    Example,       \* the id in the worked example of _AGENTIC_ANSWER_SYSTEM
    Questions,     \* records [kind, names]: what a question is, the ids its text cites
    Deltas,        \* the pieces a stream is cut into
    MaxRounds,     \* max_rounds of agentic_gather
    MaxDeltas, MaxTurns, MaxChanges    \* bounds

ASSUME ChatAssumption ==
    /\ Example \in Photos
    /\ \A word \in {"[", "photo:", "]"} : word \notin Photos
    /\ \A delta \in Deltas : delta \in Seq(Range(delta))
    /\ \A q \in Questions : q.names \subseteq Photos
    /\ MaxRounds \in Nat \ {0}

VARIABLES
    photos,     \* the rows there are
    orphan,     \* a memory without photos is stored
    session,    \* the latest chat session
    log,        \* chat_messages
    turn,       \* how many questions were asked
    at,         \* where the request is
    q, set, mine,          \* its question, the toggles (chat_prefs) and the session it read
    tool,       \* the routing decision
    pool,       \* primed: found up front, and served to the first search
    found,      \* photo_ids
    facts,      \* whether a count, list or period line was gathered
    rounds,
    agentic,    \* the answer prompt is the one with the worked example
    given,      \* the ids in the prompt
    said, held, shown,     \* the stream so far, the filter, what went out
    last,       \* the model that ran last in the turn
    asked,      \* history: the planner asked for a search
    changes

request == <<q, set, mine>>
gathered == <<tool, pool, found, facts, rounds>>
prompt  == <<agentic, given>>
stream  == <<said, held, shown>>
models  == <<last, asked>>
world   == <<photos, orphan, session, changes>>
vars == <<world, log, turn, at, request, gathered, prompt, stream, models>>

Toggles == [guardrails : BOOLEAN, direct : BOOLEAN]
Kinds == {"memory", "total", "show", "topic", "world"}
NoPool == {"none"}

-----------------------------------------------------------------------------
(* CitationFilter.  "[" "photo:" id "]" is a citation.                     *)

CiteAt(text, n) ==
    /\ n + 3 <= Len(text)
    /\ text[n] = "[" /\ text[n + 1] = "photo:" /\ text[n + 2] \in Photos /\ text[n + 3] = "]"

Cites(text) == {n \in DOMAIN text : CiteAt(text, n)}
CitedIds(text) == {text[n + 2] : n \in Cites(text)}

\* _PARTIAL: the end of the text could still become a citation.
PartialFrom(text) ==
    {n \in DOMAIN text :
        /\ text[n] = "["
        /\ n + 1 <= Len(text) => text[n + 1] = "photo:"
        /\ n + 2 <= Len(text) => text[n + 2] \in Photos
        /\ n + 3 > Len(text)}

LeastOf(S) == CHOOSE n \in S : \A m \in S : n <= m
UpTo(text, n) == SubSeq(text, 1, n - 1)
From(text, n) == SubSeq(text, n, Len(text))

\* Bug variant of Kept: every citation is let through.
KeptAll(text, n) == SubSeq(text, n, n + 3)

Kept(text, n) == IF text[n + 2] \in given THEN SubSeq(text, n, n + 3) ELSE <<>>

\* The loop of feed(), from each place of the text on: what goes out, and what stays held.
Filter(text) ==
    LET filter[k \in 1..Len(text) + 1] ==
            LET rest    == From(text, k)
                n       == LeastOf(Cites(rest))
                partial == PartialFrom(rest)
                more    == filter[k + n + 3]
            IN  IF Cites(rest) # {}
                THEN IF PartialFrom(UpTo(rest, n)) # {}
                     THEN [out |-> <<>>, held |-> rest]
                     ELSE [out |-> UpTo(rest, n) \o Kept(rest, n) \o more.out, held |-> more.held]
                ELSE IF partial # {}
                     THEN [out |-> UpTo(rest, LeastOf(partial)), held |-> From(rest, LeastOf(partial))]
                     ELSE [out |-> rest, held |-> <<>>]
    IN  filter[1]

-----------------------------------------------------------------------------
Init ==
    /\ photos = Photos /\ orphan = FALSE
    /\ session = 1 /\ log = <<>> /\ turn = 0 /\ at = "idle"
    /\ q = [kind |-> "world", names |-> {}]
    /\ set = [guardrails |-> FALSE, direct |-> TRUE] /\ mine = 1
    /\ tool = "none" /\ pool = NoPool /\ found = {} /\ facts = FALSE /\ rounds = 0
    /\ agentic = FALSE /\ given = {}
    /\ said = <<>> /\ held = <<>> /\ shown = <<>>
    /\ last = "none" /\ asked = FALSE /\ changes = 0

\* The two models do not fit together: one is swapped out for the other.
Plans(asks) == last' = "gemma" /\ asked' = (asked \/ asks)

\* search_photos: some of the photos there are.
Searches(result) ==
    /\ result \subseteq photos
    /\ last' = "siglip" /\ UNCHANGED asked

\* The locals of the gathering die when the messages are built.
Gathered ==
    /\ tool' = "none" /\ pool' = NoPool /\ facts' = FALSE /\ rounds' = 0
    /\ last' = "none" /\ asked' = FALSE

AddMessage(text, sources) ==
    log' = Append(log, [turn |-> turn, session |-> mine, cites |-> CitedIds(text), sources |-> sources])

\* What direct_answer can tell from the database: its wording and its counts are not
\* kept, only that it declines everything else.
Quick == set.direct /\ q.kind \in {"memory", "total"}

Ask(question, toggles) ==
    /\ at = "idle" /\ turn < MaxTurns
    /\ at' = "begin"
    /\ turn' = turn + 1
    /\ q' = question /\ set' = toggles /\ mine' = session
    /\ UNCHANGED <<world, log, gathered, prompt, stream, models>>

\* Bug variant of DirectAnswer: it does not return.
DirectAnswerGoesOn ==
    /\ at = "begin" /\ Quick
    /\ at' = "fetch"
    /\ AddMessage(<<>>, {})
    /\ UNCHANGED <<world, turn, request, gathered, prompt, stream, models>>

\* The message is stored before the card of a memory is drawn.
DirectAnswer ==
    /\ at = "begin" /\ Quick
    /\ at' = IF q.kind = "memory" THEN "card" ELSE "done"
    /\ AddMessage(<<>>, {})
    /\ UNCHANGED <<world, turn, request, gathered, prompt, stream, models>>

\* memories_for_show: a memory answers to the question, or none does.
Matches == BOOLEAN

\* Drawing a card lists all memories, unless none matches, and fails on one that
\* has no photo.
Card ==
    /\ at = "card"
    /\ \E match \in Matches : at' = IF match /\ orphan THEN "failed" ELSE "done"
    /\ UNCHANGED <<world, log, turn, request, gathered, prompt, stream, models>>

\* Guardrails: retrieval before the planner.  Nothing catches its failure.
PrimeFirst(result) ==
    /\ at = "begin" /\ ~Quick /\ set.guardrails
    /\ at' = "route"
    /\ pool' = result /\ Searches(result)
    /\ UNCHANGED <<world, log, turn, request, tool, found, facts, rounds, prompt, stream>>

PlannerFirst ==
    /\ at = "begin" /\ ~Quick /\ ~set.guardrails
    /\ at' = IF set.direct THEN "route" ELSE "gather"
    /\ UNCHANGED <<world, log, turn, request, gathered, prompt, stream, models>>

OffTopic(choice) == set.guardrails /\ choice = "none" /\ q.kind = "world"

\* route(): a failure routes to "none".
Route(choice) ==
    /\ at = "route"
    /\ Plans(choice = "search_library")
    /\ tool' = choice
    /\ IF OffTopic(choice)
       THEN at' = "done" /\ AddMessage(<<>>, {})
       ELSE at' = (IF set.direct THEN "fetch" ELSE "gather") /\ UNCHANGED log
    /\ UNCHANGED <<world, turn, request, pool, found, facts, rounds, prompt, stream>>

FetchPrimed ==
    /\ at = "fetch" /\ tool = "search_library" /\ pool # NoPool
    /\ at' = "build"
    /\ found' = pool
    /\ UNCHANGED <<world, log, turn, request, tool, pool, facts, rounds, prompt, stream, models>>

FetchSearch(result) ==
    /\ at = "fetch" /\ tool = "search_library" /\ pool = NoPool
    /\ at' = "build"
    /\ found' = result /\ Searches(result)
    /\ UNCHANGED <<world, log, turn, request, tool, pool, facts, rounds, prompt, stream>>

\* A memory list, or nothing: a prompt without photo blocks.
FetchNothing ==
    /\ at = "fetch" /\ tool # "search_library"
    /\ at' = "stream"
    /\ given' = q.names
    /\ Gathered
    /\ UNCHANGED <<world, log, turn, request, found, agentic, stream>>

-----------------------------------------------------------------------------
(* agentic_gather.                                                         *)

\* Bug variant of Primes: the pool is always fetched up front.
PrimesAlways == TRUE

Primes == set.guardrails \/ q.kind = "show"

\* The pool of the guarded start is not used here; a failed search is an empty pool.
GatherPrimed(result) ==
    /\ at = "gather" /\ Primes
    /\ at' = "loop"
    /\ Searches(result)
    /\ IF q.kind = "show" /\ result # {}
       THEN found' = result /\ pool' = NoPool
       ELSE found' = {} /\ pool' = result
    /\ UNCHANGED <<world, log, turn, request, tool, facts, rounds, prompt, stream>>

GatherUnprimed ==
    /\ at = "gather" /\ ~Primes
    /\ at' = "loop" /\ pool' = NoPool
    /\ UNCHANGED <<world, log, turn, request, tool, found, facts, rounds, prompt, stream, models>>

\* Bug variant of Round: the loop has no bound.
RoundUncounted == at = "loop" /\ UNCHANGED rounds

\* A round of the loop: the planner picks an action.
Round ==
    /\ at = "loop" /\ rounds < MaxRounds
    /\ rounds' = rounds + 1

\* It counts, or lists memories or periods.
GatherFact ==
    /\ Round
    /\ facts' = TRUE /\ Plans(FALSE)
    /\ UNCHANGED <<world, log, turn, at, request, tool, pool, found, prompt, stream>>

\* The first search is served from the pool, empty or not.
GatherServed ==
    /\ Round /\ pool # NoPool
    /\ found' = found \union pool /\ pool' = NoPool
    /\ Plans(TRUE)
    /\ UNCHANGED <<world, log, turn, at, request, tool, facts, prompt, stream>>

\* A later one runs the image model, after the planner; without a query it finds nothing.
PlanSearch ==
    /\ Round /\ pool = NoPool
    /\ at' \in {"search", "loop"}
    /\ Plans(TRUE)
    /\ UNCHANGED <<world, log, turn, request, tool, pool, found, facts, prompt, stream>>

GatherSearch(result) ==
    /\ at = "search"
    /\ at' = "loop"
    /\ found' = found \union result /\ Searches(result)
    /\ UNCHANGED <<world, log, turn, request, tool, pool, facts, rounds, prompt, stream>>

\* "answer", an unusable turn, the last round, or a failure of a call or a search.
GatherEnds ==
    /\ at \in {"loop", "search"}
    /\ at' = "build"
    /\ Plans(FALSE)
    /\ UNCHANGED <<world, log, turn, request, gathered, prompt, stream>>

\* Bug variant of Blocks: the prompt is taken to hold whatever was found.
BlocksOfAll(blocks) == blocks = Photos

\* build_context: blocks of the photos found that still have a row, the first ones
\* that fit and at least one.
Blocks(blocks) ==
    /\ blocks \subseteq found \intersect photos
    /\ found \intersect photos # {} => blocks # {}

\* _context_photo_ids reads the ids back from the built messages, the system prompt
\* and the question included.
Build(blocks) ==
    /\ at = "build"
    /\ at' = "stream"
    /\ Blocks(blocks)
    /\ agentic' = (~set.direct /\ (facts \/ found # {}))
    /\ given' = blocks \union q.names \union (IF agentic' THEN {Example} ELSE {})
    /\ Gathered
    /\ UNCHANGED <<world, log, turn, request, found, stream>>

-----------------------------------------------------------------------------
(* The answer.                                                             *)

Feed(delta) ==
    /\ at = "stream"
    /\ Len(said) + Len(delta) <= MaxDeltas
    /\ said' = said \o delta
    /\ LET filtered == Filter(held \o delta)
       IN  shown' = shown \o filtered.out /\ held' = filtered.held
    /\ UNCHANGED <<world, log, turn, at, request, gathered, prompt, models>>

\* flush(): whatever is held is text.
StreamEnds ==
    /\ at = "stream"
    /\ at' = "done"
    /\ shown' = shown \o held /\ held' = <<>>
    /\ AddMessage(shown', CitedIds(shown'))
    /\ UNCHANGED <<world, turn, request, gathered, prompt, said, models>>

\* Anything but the gathering and the routing that raises: the search, the stream.
Fails ==
    /\ at \in {"begin", "fetch", "stream"} /\ ~Quick
    /\ at = "begin" => set.guardrails
    /\ at = "fetch" => tool = "search_library" /\ pool = NoPool
    /\ at' = "failed"
    /\ UNCHANGED <<world, log, turn, request, gathered, prompt, stream, models>>

\* The note is stored after what was shown, without sources.
Note ==
    /\ at = "failed"
    /\ at' = "done"
    /\ AddMessage(shown, {})
    /\ UNCHANGED <<world, turn, request, gathered, prompt, stream, models>>

Forget ==
    /\ at' = "idle"
    /\ Gathered /\ found' = {} /\ agentic' = FALSE /\ given' = {}
    /\ said' = <<>> /\ held' = <<>> /\ shown' = <<>>

Done ==
    /\ at = "done" /\ Forget
    /\ UNCHANGED <<world, log, turn, request>>

\* The browser leaves: the generator is not resumed, and stores nothing.
Leave ==
    /\ at \notin {"idle", "done"} /\ Forget
    /\ UNCHANGED <<world, log, turn, request>>

-----------------------------------------------------------------------------
(* Meanwhile.                                                              *)

Change ==
    /\ changes < MaxChanges
    /\ changes' = changes + 1
    /\ UNCHANGED <<log, turn, at, request, gathered, prompt, stream, models>>

PhotoGone(i) ==
    /\ i \in photos /\ photos' = photos \ {i}
    /\ Change /\ UNCHANGED <<orphan, session>>

Orphaned ==
    /\ orphan' = ~orphan
    /\ Change /\ UNCHANGED <<photos, session>>

NewSession ==
    /\ session' = session + 1
    /\ Change /\ UNCHANGED <<photos, orphan>>

-----------------------------------------------------------------------------
Step ==
    \/ DirectAnswer \/ Card \/ PlannerFirst \/ FetchPrimed \/ FetchNothing
    \/ \E choice \in {"search_library", "search_memories", "none"} : Route(choice)
    \/ \E result \in SUBSET photos :
          PrimeFirst(result) \/ FetchSearch(result) \/ GatherPrimed(result) \/ GatherSearch(result)
    \/ GatherUnprimed \/ GatherFact \/ GatherServed \/ PlanSearch \/ GatherEnds
    \/ \E blocks \in SUBSET Photos : Build(blocks)
    \/ \E delta \in Deltas : Feed(delta)
    \/ StreamEnds \/ Fails \/ Note \/ Done

Elsewhere ==
    \/ \E i \in Photos : PhotoGone(i)
    \/ Orphaned \/ NewSession

Next == Step \/ Leave \/ Elsewhere \/ \E question \in Questions, toggles \in Toggles : Ask(question, toggles)

\* A turn has a worker thread, and its calls have timeouts.
Fairness == WF_vars(Step)

Spec == Init /\ [][Next]_vars /\ Fairness

-----------------------------------------------------------------------------
(* Properties.                                                             *)

\* What a filter is to do, given the whole text.
Clean(text) ==
    LET clean[k \in 1..Len(text) + 1] ==
            LET rest == From(text, k)
                n    == LeastOf(Cites(rest))
            IN  IF Cites(rest) = {} THEN rest
                ELSE UpTo(rest, n) \o (IF rest[n + 2] \in given THEN SubSeq(rest, n, n + 3) ELSE <<>>)
                                   \o clean[k + n + 3]
    IN  clean[1]

\* A citation right after the beginning of another one.
Nested(text) == \E n \in Cites(text) : PartialFrom(UpTo(text, n)) # {}

\* Whatever the pieces an answer arrives in, what has gone out and what is held are
\* the answer without the citations of photos the prompt does not hold, and only
\* the start of a citation is held.
FilterExact ==
    ~Nested(said) =>
        /\ shown \o held = Clean(said)
        /\ at = "stream" => Cites(held) = {} /\ (held = <<>> \/ PartialFrom(held) = {1})

\* A photo in a stored answer or on the screen was found by a search of this turn, or
\* is named by the question or by the worked example of the prompt.
CitesFound ==
    at \in {"stream", "done"} /\ ~Nested(said) =>
        CitedIds(shown) \subseteq found \union q.names \union (IF agentic THEN {Example} ELSE {})

\* A turn is one message, in the session it began in, with the photos that its
\* answer cites; two only where a card fails that follows its stored answer.
OneMessageATurn ==
    /\ \A m \in DOMAIN log : log[m].sources \in {{}, log[m].cites}
    /\ \A m, n \in DOMAIN log : m # n /\ log[m].turn = log[n].turn =>
           log[m].session = log[n].session /\ log[m].sources = {} /\ log[n].sources = {}
    /\ at = "done" => \E m \in DOMAIN log : log[m].turn = turn /\ log[m].session = mine

\* The image model is woken for a question only where guardrails, the wording of the
\* question, or the planner said that it is about photos.
WokenOnPurpose == last = "siglip" => set.guardrails \/ q.kind = "show" \/ asked

\* A turn ends, whatever fails and whatever the planner asks for.
TurnEnds == at # "idle" ~> at = "idle"
=============================================================================
