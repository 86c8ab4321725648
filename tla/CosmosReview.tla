---------------------------- MODULE CosmosReview ----------------------------
(***************************************************************************)
(* The life of a Cosmos transaction once its upload is complete: it is     *)
(* parsed, validated and shown once to nobody (tx_parse), then shown item  *)
(* by item, and approved or rejected.  The document, the cache of its      *)
(* items and the depth of the display are globals that the next            *)
(* transaction finds as this one leaves them.                              *)
(*                                                                         *)
(* The view (zxlib) shows item 0 first, goes one item forward or back at a *)
(* time, and offers the approval behind the last item; expert mode is      *)
(* switched only while nothing is under review.                            *)
(***************************************************************************)
EXTENDS CosmosDisplay

CONSTANT Documents      \* what a completed upload may leave in the buffer

ASSUME DocumentAssumption == \A doc \in Documents : Tokenized(doc)

VARIABLES
    json,               \* parser_tx_obj.json
    cache,              \* display_cache and parser_tx_obj.flags
    extraDepthLevel,
    expert,             \* app_mode_expert()
    phase,              \* what the device is doing
    displayIdx,         \* the item on the screen
    shown               \* history: the items seen in this review, by index

vars == << json, cache, extraDepthLevel, expert, phase, displayIdx, shown >>

TypeOK ==
    /\ json.len \in Nat /\ json.blanks \subseteq Nat
    /\ \A k \in DOMAIN json.tokens :
          /\ json.tokens[k].start \in 0 .. json.len
          /\ json.tokens[k].end \in json.tokens[k].start .. json.len
    /\ cache.valid \in BOOLEAN
    /\ cache.subitems \in [Range(RootItems) -> 0 .. U8 - 1]
    /\ \A group \in {cache.types, cache.froms} :
          group.on \in BOOLEAN /\ group.count \in 0 .. U8 - 1 /\ group.idx \in Nat
    /\ extraDepthLevel \in BOOLEAN
    /\ expert \in BOOLEAN
    /\ phase \in {"idle", "review"}
    /\ displayIdx \in 0 .. U8 - 1
    /\ DOMAIN shown \subseteq 0 .. U8 - 1

Init ==
    /\ json = Malformed
    /\ cache = NoCache
    /\ extraDepthLevel = FALSE
    /\ expert \in BOOLEAN
    /\ phase = "idle"
    /\ displayIdx = 0
    /\ shown = << >>

-----------------------------------------------------------------------------
\* extraDepthLevel before a document is parsed, whatever it was.
_read(deep) == FALSE

\* Mutant of ItemsToShow: the last item is not tried.
AllButLastItem(c, isExpert) == parser_display_numItems(c, isExpert) - 1

ItemsToShow(c, isExpert) == parser_display_numItems(c, isExpert)

\* The loop of parser_validate: whether the items show, and the depth they
\* leave behind.
ShowNext(doc, c, isExpert, before, n) ==
    IF before.ok THEN parser_getItem(doc, c, isExpert, before.deep, n - 1) ELSE before

ShowAll(doc, c, isExpert, deep) ==
    LET after[n \in Nat] ==
            IF n = 0 THEN [ok |-> TRUE, deep |-> deep]
            ELSE ShowNext(doc, c, isExpert, after[n - 1], n)
    IN  after[ItemsToShow(c, isExpert)]

\* parser_validate behind parser_json_validate.  A chain id that is refused
\* leaves the cache behind as it is.
Tried(doc, c, end) == [ok |-> end.ok, json |-> doc, cache |-> c, deep |-> end.deep]

TryItems(doc, isExpert, froms, c, deep) ==
    IF ChainAccepted(doc) THEN Tried(doc, c, ShowAll(doc, c, isExpert, deep))
    ELSE Tried(doc, [c EXCEPT !.froms = froms], [ok |-> FALSE, deep |-> deep])

TryCounted(doc, isExpert, counts) ==
    TryItems(doc, isExpert, counts.froms, Indexed(doc, counts, isExpert),
             DeepAfter(counts.deep, ChainId(doc)))

\* tx_parse: whether doc is accepted, with the cache and the depth it leaves.
\* A document that is no JSON leaves the last cache as it is.
tx_parse(doc, isExpert, deep, last) ==
    IF ~json_parse(doc)
    THEN [ok |-> FALSE, json |-> Malformed, cache |-> last, deep |-> _read(deep)]
    ELSE IF ~parser_json_validate(doc)
    THEN [ok |-> FALSE, json |-> doc, cache |-> Invalidated(last), deep |-> _read(deep)]
    ELSE TryCounted(doc, isExpert, Counts(doc, _read(deep)))

\* handleSign behind the last chunk: what tx_parse accepts goes to review.
HandleSign ==
    /\ phase = "idle"
    /\ UNCHANGED expert
    /\ \E doc \in Documents :
       \E parsed \in {tx_parse(doc, expert, extraDepthLevel, cache)} :
        /\ json' = parsed.json
        /\ cache' = parsed.cache
        /\ \/ /\ parsed.ok
              /\ \E first \in {parser_getItem(doc, parsed.cache, expert, parsed.deep, 0)} :
                    /\ extraDepthLevel' = first.deep
                    /\ shown' = [i \in {0} |-> first]
              /\ phase' = "review"
              /\ displayIdx' = 0
           \/ /\ ~parsed.ok
              /\ extraDepthLevel' = parsed.deep
              /\ UNCHANGED << phase, displayIdx, shown >>

\* What was seen, and the item i.
WithItem(i, item) == [j \in DOMAIN shown \cup {i} |-> IF j = i THEN item ELSE shown[j]]

\* Mutant of ShowItem: the first and the last item do not end the way.
ShowItemAnywhere(i) ==
    /\ phase = "review"
    /\ \E item \in {parser_getItem(json, cache, expert, extraDepthLevel, i)} :
          /\ extraDepthLevel' = item.deep
          /\ shown' = WithItem(i, item)
    /\ displayIdx' = i
    /\ UNCHANGED << json, cache, expert, phase >>

\* Mutant of ShowItem: the item is read before the view moves on.
ShowItemBeforeMove(i) ==
    /\ phase = "review"
    /\ i \in 0 .. parser_display_numItems(cache, expert) - 1
    /\ \E item \in {parser_getItem(json, cache, expert, extraDepthLevel, displayIdx)} :
          /\ extraDepthLevel' = item.deep
          /\ shown' = WithItem(i, item)
    /\ displayIdx' = i
    /\ UNCHANGED << json, cache, expert, phase >>

\* The view asks for the item i (tx_getItem).
ShowItem(i) ==
    /\ phase = "review"
    /\ i \in 0 .. parser_display_numItems(cache, expert) - 1
    /\ \E item \in {parser_getItem(json, cache, expert, extraDepthLevel, i)} :
          /\ extraDepthLevel' = item.deep
          /\ shown' = WithItem(i, item)
    /\ displayIdx' = i
    /\ UNCHANGED << json, cache, expert, phase >>

EndReview == phase' = "idle" /\ displayIdx' = 0 /\ shown' = << >>

\* app_sign
Approve ==
    /\ phase = "review"
    /\ displayIdx = parser_display_numItems(cache, expert) - 1
    /\ EndReview
    /\ UNCHANGED << json, cache, extraDepthLevel, expert >>

\* app_reject
Reject ==
    /\ phase = "review"
    /\ EndReview
    /\ UNCHANGED << json, cache, extraDepthLevel, expert >>

ToggleExpert ==
    /\ phase = "idle"
    /\ expert' = ~expert
    /\ UNCHANGED << json, cache, extraDepthLevel, phase, displayIdx, shown >>

Next ==
    \/ HandleSign
    \/ \E i \in {displayIdx - 1, displayIdx + 1} : ShowItem(i)
    \/ Approve
    \/ Reject
    \/ ToggleExpert

Spec == Init /\ [][Next]_vars
=============================================================================
