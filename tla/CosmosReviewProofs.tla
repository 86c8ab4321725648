------------------------- MODULE CosmosReviewProofs -------------------------
(***************************************************************************)
(* The review of a Cosmos transaction, for every set of documents: it is   *)
(* of a document that was validated, with the cache that document alone    *)
(* leads to, and white space in it is where the validation does not look.  *)
(*                                                                         *)
(* For documents in the grammar of JSON: the keys of every object are      *)
(* sorted, and the globals keep their types.  For those of one depth: the  *)
(* items that were tried when the document was accepted are the items      *)
(* that are shown, each the same whenever it is asked for.                 *)
(*                                                                         *)
(* Every item has been seen when the approval is offered.  For the         *)
(* encoding of an ordinary transaction: its root fields are found where    *)
(* they lie (CosmosScreensProofs goes on from there).                      *)
(***************************************************************************)
EXTENDS CosmosReviewProperties, WellFoundedInduction, NaturalsInduction,
        FiniteSetTheorems, SequenceTheorems, TLAPS

\* The cache a document leads to when nothing was displayed before it.
OwnCache(doc, isExpert) == Indexed(doc, Counts(doc, FALSE), isExpert)

\* What is under review was parsed and validated, its chain id is accepted,
\* and the cache holds its own counts and groups: nothing of the cache, the
\* depth or the flags the transaction before has left (_read, parser_parse).
ReviewIsOwn ==
    phase = "review" =>
        /\ json \in Documents
        /\ json_parse(json) /\ parser_json_validate(json) /\ ChainAccepted(json)
        /\ cache = OwnCache(json, expert)

\* What tx_parse accepts, whatever the globals it finds.
LEMMA ParseForgets ==
    \A doc, isExpert, deep, last, parsed :
        parsed = tx_parse(doc, isExpert, deep, last) /\ parsed.ok =>
            /\ json_parse(doc) /\ parser_json_validate(doc) /\ ChainAccepted(doc)
            /\ parsed.json = doc
            /\ parsed.cache = OwnCache(doc, isExpert)
  <1> TAKE doc, isExpert, deep, last, parsed
  <1> HAVE parsed = tx_parse(doc, isExpert, deep, last) /\ parsed.ok
  <1> DEFINE counts == Counts(doc, FALSE)
  <1>1. json_parse(doc)
    BY Zenon DEF tx_parse
  <1>2. parser_json_validate(doc)
    BY <1>1, Zenon DEF tx_parse
  <1>3. parsed = TryCounted(doc, isExpert, counts)
    BY <1>1, <1>2, Zenon DEF tx_parse, _read
  <1> HIDE DEF counts
  <1>4. ChainAccepted(doc)
    <2>1. SUFFICES ASSUME ~ChainAccepted(doc)
                   PROVE  ~parsed.ok
      OBVIOUS
    <2>2. \A froms, c, d : TryItems(doc, isExpert, froms, c, d)
             = Tried(doc, [c EXCEPT !.froms = froms], [ok |-> FALSE, deep |-> d])
      BY <2>1 DEF TryItems
    <2>3. \A c, d : Tried(doc, c, [ok |-> FALSE, deep |-> d]).ok = FALSE
      BY DEF Tried
    <2>4. ASSUME NEW froms, NEW c, NEW d
          PROVE  TryItems(doc, isExpert, froms, c, d).ok = FALSE
      <3> DEFINE kept == [c EXCEPT !.froms = froms]
      <3>1. TryItems(doc, isExpert, froms, c, d) = Tried(doc, kept, [ok |-> FALSE, deep |-> d])
        BY <2>2
      <3> HIDE DEF kept
      <3>2. QED
        BY <2>3, <3>1
    <2>5. QED
      BY <1>3, <2>4 DEF TryCounted
  <1>5. \A froms, c, d : TryItems(doc, isExpert, froms, c, d)
             = Tried(doc, c, ShowAll(doc, c, isExpert, d))
    BY <1>4 DEF TryItems
  <1>6. \A c, e : Tried(doc, c, e).json = doc /\ Tried(doc, c, e).cache = c
    BY DEF Tried
  <1>7. \A froms, c, d : /\ TryItems(doc, isExpert, froms, c, d).json = doc
                           /\ TryItems(doc, isExpert, froms, c, d).cache = c
    BY <1>5, <1>6
  <1>8. parsed.json = doc /\ parsed.cache = Indexed(doc, counts, isExpert)
    BY <1>3, <1>7 DEF TryCounted
  <1>9. QED
    BY <1>1, <1>2, <1>4, <1>8 DEF counts, OwnCache

\* Every step keeps it: a new review begins with its own cache, and no other
\* step changes the document or the cache under it.
LEMMA OwnStep == ReviewIsOwn /\ [Next]_vars => ReviewIsOwn'
  <1> SUFFICES ASSUME ReviewIsOwn, [Next]_vars
               PROVE  ReviewIsOwn'
    OBVIOUS
  <1>1. CASE HandleSign
    <2>1. CASE phase' # "review"
      BY <2>1 DEF ReviewIsOwn
    <2>2. CASE phase' = "review"
      <3>1. PICK doc \in Documents :
               LET parsed == tx_parse(doc, expert, extraDepthLevel, cache)
               IN  parsed.ok /\ json' = parsed.json /\ cache' = parsed.cache
        BY <1>1, <2>2 DEF HandleSign
      <3>2. expert' = expert
        BY <1>1 DEF HandleSign
      <3>3. PICK parsed : /\ parsed = tx_parse(doc, expert, extraDepthLevel, cache)
                          /\ parsed.ok /\ json' = parsed.json /\ cache' = parsed.cache
        BY <3>1
      <3>4. /\ json_parse(doc) /\ parser_json_validate(doc) /\ ChainAccepted(doc)
            /\ parsed.json = doc /\ parsed.cache = OwnCache(doc, expert)
        BY <3>3, ParseForgets
      <3>5. /\ json_parse(json') /\ parser_json_validate(json') /\ ChainAccepted(json')
            /\ json' \in Documents
            /\ cache' = OwnCache(json', expert)
        BY <3>3, <3>4
      <3>6. QED
        BY <3>2, <3>5 DEF ReviewIsOwn
    <2>3. QED
      BY <2>1, <2>2
  <1>2. ASSUME NEW i \in {displayIdx - 1, displayIdx + 1}, ShowItem(i)
        PROVE  ReviewIsOwn'
    <2>1. UNCHANGED << json, cache, expert, phase >>
      BY <1>2 DEF ShowItem
    <2>2. QED
      BY <2>1 DEF ReviewIsOwn
  <1>3. CASE Approve
    BY <1>3 DEF Approve, EndReview, ReviewIsOwn
  <1>4. CASE Reject
    BY <1>4 DEF Reject, EndReview, ReviewIsOwn
  <1>5. CASE ToggleExpert
    BY <1>5 DEF ToggleExpert, ReviewIsOwn
  <1>6. CASE UNCHANGED vars
    BY <1>6 DEF vars, ReviewIsOwn
  <1>7. QED
    BY <1>1, <1>2, <1>3, <1>4, <1>5, <1>6 DEF Next

\* The globals that outlive a transaction have no part in the review of the
\* next one.
THEOREM ReviewForgetsGlobals == Spec => []ReviewIsOwn
  <1>1. Init => ReviewIsOwn
    BY DEF Init, ReviewIsOwn
  <1>2. QED
    BY <1>1, OwnStep, PTL DEF Spec

-----------------------------------------------------------------------------
\* A set of naturals has a least one.
LEMMA LeastMember ==
    ASSUME NEW S, S \subseteq Nat, S # {}
    PROVE  \E k \in S : \A m \in S : k <= m
  <1> DEFINE less == {p \in Nat \X Nat : p[1] < p[2]}
  <1>1. IsWellFoundedOn(less, Nat)
    BY NatLessThanWellFounded DEF OpToRel
  <1> HIDE DEF less
  <1>2. PICK k \in S : \A m \in S : ~(<< m, k >> \in less)
    BY <1>1, WFMin
  <1>3. ASSUME NEW m \in S
        PROVE  k <= m
    <2>1. m \in Nat /\ k \in Nat
      OBVIOUS
    <2>2. << m, k >> \in less <=> m < k
      BY <2>1 DEF less
    <2>3. QED
      BY <1>2, <2>1, <2>2
  <1>4. QED
    BY <1>3

\* A byte lies behind the start of one token and before the start of the next.
LEMMA LastTokenBefore ==
    ASSUME NEW doc, Tokenized(doc), NEW b \in Nat, Len(doc.tokens) >= 1
    PROVE  \E k \in 1 .. Len(doc.tokens) :
              /\ k > 1 => doc.tokens[k].start <= b
              /\ k < Len(doc.tokens) => b < doc.tokens[k + 1].start
  <1> DEFINE n == Len(doc.tokens)
             later == {j \in 2 .. n + 1 : j = n + 1 \/ b < doc.tokens[j].start}
  <1>1. n \in Nat /\ \A k \in 1 .. n : doc.tokens[k].start \in Nat
    BY DEF Tokenized
  <1> HIDE DEF n
  <1>2. later \subseteq Nat /\ n + 1 \in later
    BY <1>1 DEF n
  <1>3. PICK j \in later : \A m \in later : j <= m
    BY <1>2, LeastMember
  <1>4. j - 1 \in 1 .. n /\ j \in Nat
    BY <1>1, <1>3
  <1>5. j - 1 > 1 => doc.tokens[j - 1].start <= b
    <2>1. SUFFICES ASSUME j - 1 > 1, ~(doc.tokens[j - 1].start <= b)
                   PROVE  FALSE
      OBVIOUS
    <2>2. b < doc.tokens[j - 1].start
      BY <1>1, <1>4, <2>1
    <2>3. j - 1 \in later
      BY <1>1, <1>4, <2>1, <2>2
    <2>4. QED
      BY <1>3, <1>4, <2>3
  <1>6. j - 1 < n => b < doc.tokens[j - 1 + 1].start
    <2>1. j - 1 < n => j # n + 1 /\ j - 1 + 1 = j
      BY <1>1, <1>4
    <2>2. QED
      BY <1>3, <2>1
  <1>7. QED
    BY <1>4, <1>5, <1>6 DEF n

\* Where contains_whitespace looks, there is none.
LEMMA GapsAreClean ==
    ASSUME NEW doc, ~contains_whitespace(doc), NEW b \in doc.blanks
    PROVE  /\ \A k \in 2 .. Len(doc.tokens) :
                 b \notin SearchFrom(doc.tokens, k - 1) .. doc.tokens[k].start - 1
           /\ b \notin SearchFrom(doc.tokens, Len(doc.tokens))
                       .. doc.tokens[ROOT_TOKEN_INDEX].end - 1
  BY DEF contains_whitespace

\* So white space that is not found is inside the last token before it, and
\* no other token of that one starts in front of it.
LEMMA SpaceIsInside ==
    ASSUME NEW doc, Tokenized(doc), json_parse(doc), ~contains_whitespace(doc),
           NEW b \in doc.blanks, b < doc.tokens[ROOT_TOKEN_INDEX].end
    PROVE  \E k \in 2 .. Len(doc.tokens) :
              /\ doc.tokens[k].start < b /\ b <= doc.tokens[k].end
              /\ doc.tokens[k].type # "JSMN_STRING"
              /\ \A j \in k + 1 .. Len(doc.tokens) : b < doc.tokens[j].start
  <1> DEFINE n        == Len(doc.tokens)
             start(k) == doc.tokens[k].start
             end(k)   == doc.tokens[k].end
  <1>1. b \in Nat /\ n \in Nat /\ n >= 1
    BY TokensAssumption DEF Tokenized, json_parse
  <1>2. /\ \A k \in 1 .. n : start(k) \in Nat /\ end(k) \in Nat /\ start(k) # b
        /\ \A k \in 1 .. n : \A j \in 1 .. k - 1 : start(j) < start(k)
        /\ \A k \in 1 .. n : doc.tokens[k].type = "JSMN_STRING" =>
                                b \notin start(k) .. end(k)
    BY DEF Tokenized
  <1>3. PICK k \in 1 .. n : /\ k > 1 => start(k) <= b
                            /\ k < n => b < start(k + 1)
    BY <1>1, LastTokenBefore
  <1>4. /\ k < n => b \notin SearchFrom(doc.tokens, k) .. start(k + 1) - 1
        /\ k = n => b \notin SearchFrom(doc.tokens, k) .. end(1) - 1
    <2>1. k < n => k + 1 \in 2 .. n /\ (k + 1) - 1 = k
      BY <1>1
    <2>2. QED
      BY <2>1, GapsAreClean DEF ROOT_TOKEN_INDEX
  <1>5. b < SearchFrom(doc.tokens, k)
    <2>1. SearchFrom(doc.tokens, k) \in Nat
      BY <1>2 DEF SearchFrom, ROOT_TOKEN_INDEX
    <2>2. k < n => start(k + 1) \in Nat
      BY <1>1, <1>2
    <2>3. end(1) \in Nat /\ b < end(1)
      BY <1>1, <1>2 DEF ROOT_TOKEN_INDEX
    <2> HIDE DEF start, end
    <2>4. QED
      BY <1>1, <1>3, <1>4, <2>1, <2>2, <2>3
  <1>6. k > 1 /\ b <= end(k)
    BY <1>1, <1>2, <1>5 DEF SearchFrom, ROOT_TOKEN_INDEX
  <1>7. start(k) < b
    BY <1>1, <1>2, <1>3, <1>6
  <1>8. ASSUME NEW j \in k + 1 .. n
        PROVE  b < start(j)
    <2>1. k + 1 \in 1 .. n /\ b < start(k + 1)
      BY <1>1, <1>3
    <2>2. j = k + 1 \/ k + 1 \in 1 .. j - 1
      BY <1>1
    <2>3. j \in 1 .. n
      BY <1>1
    <2> HIDE DEF start, end
    <2>4. QED
      BY <1>1, <1>2, <2>1, <2>2, <2>3
  <1>9. doc.tokens[k].type # "JSMN_STRING"
    BY <1>1, <1>2, <1>6, <1>7
  <1>10. k \in 2 .. n
    BY <1>1, <1>6
  <1>11. QED
    BY <1>6, <1>7, <1>8, <1>9, <1>10

\* White space in a reviewed document lies only where parser_json_validate
\* does not look, for every document jsmn can read.
THEOREM UnseenSpaceOnly == Spec => []SpaceOnlyWhereUnseen
  <1>1. ASSUME ReviewIsOwn, phase = "review",
               NEW b \in json.blanks, b < json.tokens[ROOT_TOKEN_INDEX].end
        PROVE  \E k \in DOMAIN json.tokens \ {ROOT_TOKEN_INDEX} :
                  LET token == json.tokens[k]
                      inner == {j \in DOMAIN json.tokens : Inside(json.tokens, j, k)}
                  IN  /\ token.type # "JSMN_STRING"
                      /\ \/ /\ token.start < b /\ b < token.end
                            /\ \A j \in inner : b < json.tokens[j].start
                         \/ b = token.end /\ inner = {}
    <2> DEFINE n        == Len(json.tokens)
               start(k) == json.tokens[k].start
               end(k)   == json.tokens[k].end
    <2>1. Tokenized(json) /\ json_parse(json) /\ ~contains_whitespace(json)
      BY <1>1, DocumentAssumption DEF ReviewIsOwn, parser_json_validate
    <2>2. PICK k \in 2 .. n : /\ start(k) < b /\ b <= end(k)
                              /\ json.tokens[k].type # "JSMN_STRING"
                              /\ \A j \in k + 1 .. n : b < start(j)
      BY <1>1, <2>1, SpaceIsInside
    <2>3. /\ b \in Nat /\ n \in Nat /\ DOMAIN json.tokens = 1 .. n
          /\ \A j \in 1 .. n : start(j) \in Nat /\ end(j) \in Nat /\ start(j) <= end(j)
          /\ \A i \in 1 .. n : \A j \in 1 .. i - 1 : start(j) < start(i)
      BY <1>1, <2>1 DEF Tokenized
    <2>4. ASSUME NEW j \in DOMAIN json.tokens, Inside(json.tokens, j, k)
          PROVE  b < start(j) /\ end(j) <= end(k)
      <3>1. j # k /\ start(k) <= start(j) /\ end(j) <= end(k)
        BY <2>4 DEF Inside
      <3>2. j \in 1 .. n /\ k \in 1 .. n
        BY <2>3
      <3>3. j \notin 1 .. k - 1
        BY <2>3, <3>1, <3>2
      <3>4. j \in k + 1 .. n
        BY <2>3, <3>1, <3>2, <3>3
      <3>5. QED
        BY <2>2, <3>1, <3>4
    <2>5. k \in DOMAIN json.tokens \ {ROOT_TOKEN_INDEX}
      BY <2>3 DEF ROOT_TOKEN_INDEX
    <2> DEFINE inner == {j \in DOMAIN json.tokens : Inside(json.tokens, j, k)}
    <2>6. \A j \in inner : b < start(j)
      BY <2>4
    <2>7. b = end(k) => inner = {}
      <3>1. SUFFICES ASSUME b = end(k), NEW j \in inner
                     PROVE  FALSE
        OBVIOUS
      <3>2. b < start(j) /\ end(j) <= end(k) /\ start(j) <= end(j)
        BY <2>3, <2>4
      <3>3. start(j) \in Nat /\ end(j) \in Nat /\ end(k) \in Nat
        BY <2>3, <3>1
      <3>4. QED
        BY <3>1, <3>2, <3>3
    <2>8. b < end(k) \/ b = end(k)
      BY <2>2, <2>3
    <2> HIDE DEF inner
    <2>9. /\ json.tokens[k].type # "JSMN_STRING"
          /\ \/ start(k) < b /\ b < end(k) /\ \A j \in inner : b < start(j)
             \/ b = end(k) /\ inner = {}
      BY <2>2, <2>6, <2>7, <2>8
    <2>10. QED
      BY <2>5, <2>9, Zenon DEF inner
  <1>2. ReviewIsOwn => SpaceOnlyWhereUnseen
    BY <1>1 DEF SpaceOnlyWhereUnseen
  <1>3. QED
    BY <1>2, ReviewForgetsGlobals, PTL

\* Induction over the naturals, as a fact about sets.
LEMMA Induction ==
    ASSUME NEW n \in Nat, NEW S, 0 \in S, \A k \in 0 .. n - 1 : k \in S => k + 1 \in S
    PROVE  \A k \in 0 .. n : k \in S
  <1> DEFINE missing == {k \in 0 .. n : k \notin S}
  <1>1. SUFFICES ASSUME missing # {} PROVE FALSE
    OBVIOUS
  <1>2. missing \subseteq Nat
    OBVIOUS
  <1>3. PICK k \in missing : \A m \in missing : k <= m
    BY <1>1, <1>2, LeastMember
  <1>4. k \in 0 .. n /\ k \notin S /\ k # 0
    OBVIOUS
  <1>5. k - 1 \in 0 .. n - 1 /\ k - 1 \in 0 .. n /\ (k - 1) + 1 = k
    BY <1>4
  <1>6. k - 1 \in S
    <2>1. SUFFICES ASSUME k - 1 \notin S PROVE FALSE
      OBVIOUS
    <2>2. k - 1 \in missing
      BY <1>5, <2>1
    <2>3. QED
      BY <1>3, <1>4, <2>2
  <1>7. QED
    BY <1>4, <1>5, <1>6

\* The states of a loop of n steps.
IsRun(g, start, n, Step(_, _)) ==
    g[0] = start /\ \A i \in 1 .. n : g[i] = Step(g[i - 1], i)

IterateRuns(start, n, Step(_, _)) ==
    \E g : IsRun(g, start, n, Step) /\ Iterate(start, n, Step) = g[n]

\* The rows of Iterate are one loop.
LEMMA IterateIsRun ==
    ASSUME NEW start, NEW n \in Nat, NEW Step(_, _)
    PROVE  IterateRuns(start, n, Step)
  <1> DEFINE Row16(begin, first) ==
                LET after[j \in 0 .. 16] ==
                        IF j = 0 THEN begin ELSE Step(after[j - 1], first + j)
                IN  after[IF first + 16 > n THEN n - first ELSE 16]
             rows[r \in Nat] ==
                IF r = 0 THEN start
                ELSE CHOOSE end \in {Row16(begin, 16 * (r - 1)) : begin \in {rows[r - 1]}} : TRUE
             g[i \in Nat] == IF i = 0 THEN start ELSE Step(g[i - 1], i)
  <1>1. Iterate(start, n, Step) = rows[(n + 15) \div 16]
    BY DEF Iterate
  <1>2. g[0] = start /\ \A i \in Nat \ {0} : g[i] = Step(g[i - 1], i)
    <2>1. NatInductiveDefHypothesis(g, start, LAMBDA v, i : Step(v, i))
      BY DEF NatInductiveDefHypothesis, g
    <2> HIDE DEF g
    <2>2. NatInductiveDefConclusion(g, start, LAMBDA v, i : Step(v, i))
      BY <2>1, NatInductiveDef
    <2>3. g = [i \in Nat |-> IF i = 0 THEN start ELSE Step(g[i - 1], i)]
      BY <2>2 DEF NatInductiveDefConclusion
    <2>4. QED
      BY <2>3
  <1>3. /\ rows[0] = start
        /\ \A r \in Nat \ {0} : rows[r] =
                      CHOOSE end \in {Row16(begin, 16 * (r - 1)) : begin \in {rows[r - 1]}} : TRUE
    <2> HIDE DEF Row16
    <2>1. NatInductiveDefHypothesis(rows, start, LAMBDA v, r :
            CHOOSE end \in {Row16(begin, 16 * (r - 1)) : begin \in {v}} : TRUE)
      BY DEF NatInductiveDefHypothesis, rows
    <2> HIDE DEF rows
    <2>2. NatInductiveDefConclusion(rows, start, LAMBDA v, r :
            CHOOSE end \in {Row16(begin, 16 * (r - 1)) : begin \in {v}} : TRUE)
      BY <2>1, NatInductiveDef
    <2>3. rows = [r \in Nat |-> IF r = 0 THEN start
            ELSE CHOOSE end \in {Row16(begin, 16 * (r - 1)) : begin \in {rows[r - 1]}} : TRUE]
      BY <2>2 DEF NatInductiveDefConclusion
    <2>4. QED
      BY <2>3
  <1>4. ASSUME NEW r \in Nat \ {0}
        PROVE  rows[r] = Row16(rows[r - 1], 16 * (r - 1))
    <2> HIDE DEF Row16, rows
    <2>1. rows[r] = CHOOSE end \in {Row16(begin, 16 * (r - 1)) : begin \in {rows[r - 1]}} : TRUE
      BY <1>3
    <2>2. {Row16(begin, 16 * (r - 1)) : begin \in {rows[r - 1]}} = {Row16(rows[r - 1], 16 * (r - 1))}
      OBVIOUS
    <2>3. QED
      BY <2>1, <2>2
  <1>5. ASSUME NEW f \in Nat, f <= n
        PROVE  Row16(g[f], f) = g[IF f + 16 > n THEN n ELSE f + 16]
    <2> DEFINE after[j \in 0 .. 16] ==
                    IF j = 0 THEN g[f] ELSE Step(after[j - 1], f + j)
               m == IF f + 16 > n THEN n - f ELSE 16
    <2>1. Row16(g[f], f) = after[m]
      BY DEF Row16
    <2>2. FiniteNatInductiveDefHypothesis(after, g[f], LAMBDA v, j : Step(v, f + j), 0, 16)
      BY DEF FiniteNatInductiveDefHypothesis, after
    <2> HIDE DEF after, g, Row16
    <2>3. FiniteNatInductiveDefConclusion(after, g[f], LAMBDA v, j : Step(v, f + j), 0, 16)
      BY <2>2, FiniteNatInductiveDef
    <2>4. after = [j \in 0 .. 16 |-> IF j = 0 THEN g[f] ELSE Step(after[j - 1], f + j)]
      BY <2>3 DEF FiniteNatInductiveDefConclusion
    <2> DEFINE S == {j \in 0 .. 16 : after[j] = g[f + j]}
    <2>5. 0 \in S
      BY <2>4
    <2>6. ASSUME NEW j \in 0 .. 16 - 1, j \in S PROVE j + 1 \in S
      <3>1. j + 1 \in 0 .. 16 /\ j + 1 # 0 /\ (j + 1) - 1 = j
            /\ f + (j + 1) \in Nat \ {0} /\ (f + (j + 1)) - 1 = f + j
        OBVIOUS
      <3>2. after[j + 1] = Step(after[j], f + (j + 1))
        BY <2>4, <3>1
      <3>3. g[f + (j + 1)] = Step(g[f + j], f + (j + 1))
        BY <1>2, <3>1
      <3>4. after[j] = g[f + j]
        BY <2>6
      <3>5. QED
        BY <3>1, <3>2, <3>3, <3>4
    <2>7. m \in 0 .. 16 /\ f + m = (IF f + 16 > n THEN n ELSE f + 16)
      BY <1>5
    <2> HIDE DEF S, m
    <2>8. \A j \in 0 .. 16 : j \in S
      BY <2>5, <2>6, Induction
    <2>9. after[m] = g[f + m]
      BY <2>7, <2>8 DEF S
    <2>10. QED
      BY <2>1, <2>7, <2>9
  <1> DEFINE q == (n + 15) \div 16
             upTo(r) == IF 16 * r > n THEN n ELSE 16 * r
             T == {r \in 0 .. q : rows[r] = g[upTo(r)]}
  <1>6. q \in Nat /\ 16 * q >= n /\ 16 * q <= n + 15
    OBVIOUS
  <1>7. 0 \in T
    <2> HIDE DEF rows, g
    <2>1. upTo(0) = 0 /\ rows[0] = g[0]
      BY <1>2, <1>3
    <2> HIDE DEF upTo
    <2>2. QED
      BY <1>6, <2>1
  <1>8. ASSUME NEW r \in 0 .. q - 1, r \in T PROVE r + 1 \in T
    <2> HIDE DEF rows, g, Row16, q
    <2>1. r \in Nat /\ r + 1 \in Nat \ {0} /\ (r + 1) - 1 = r /\ r + 1 \in 0 .. q
      BY <1>6
    <2>2. 16 * r \in Nat /\ 16 * r <= n /\ upTo(r) = 16 * r
      <3>1. r <= q - 1
        BY <1>6
      <3>2. 16 * r <= n
        BY <1>6, <2>1, <3>1
      <3>3. QED
        BY <2>1, <3>2
    <2>3. upTo(r + 1) = IF 16 * r + 16 > n THEN n ELSE 16 * r + 16
      BY <2>1
    <2> HIDE DEF upTo
    <2>4. rows[r] = g[16 * r]
      BY <1>8, <2>2
    <2>5. rows[r + 1] = Row16(rows[r], 16 * r)
      BY <1>4, <2>1
    <2>6. Row16(g[16 * r], 16 * r) = g[IF 16 * r + 16 > n THEN n ELSE 16 * r + 16]
      BY <1>5, <2>2
    <2>7. rows[r + 1] = g[upTo(r + 1)]
      BY <2>3, <2>4, <2>5, <2>6
    <2>8. QED
      BY <2>1, <2>7
  <1> HIDE DEF T, rows, g, q
  <1>9. \A r \in 0 .. q : r \in T
    BY <1>6, <1>7, <1>8, Induction
  <1>10. rows[q] = g[n]
    <2>1. q \in 0 .. q /\ upTo(q) = n
      BY <1>6
    <2> HIDE DEF upTo
    <2>2. q \in T
      BY <1>9, <2>1
    <2>3. QED
      BY <2>1, <2>2 DEF T
  <1>11. IsRun(g, start, n, Step)
    BY <1>2 DEF IsRun
  <1>12. QED
    BY <1>1, <1>10, <1>11 DEF q, IterateRuns
-----------------------------------------------------------------------------
\* The scan of json_parser.c, as such a loop.
LEMMA ScanIsRun ==
    ASSUME NEW tokens, NEW k, NEW ends, NEW n \in Nat, n = Cardinality(Within(tokens, k))
    PROVE  \E g : /\ g[0] = [end |-> tokens[k].start, elements |-> << >>]
                  /\ \A i \in 1 .. n : g[i] = ScanStep(tokens, k, ends, g[i - 1], i)
                  /\ Scan(tokens, k, ends) = g[n].elements
  <1> DEFINE start == [end |-> tokens[k].start, elements |-> << >>]
  <1>1. Scan(tokens, k, ends)
           = Iterate(start, n, LAMBDA found, i : ScanStep(tokens, k, ends, found, i)).elements
    BY DEF Scan
  <1> HIDE DEF start
  <1>2. IterateRuns(start, n, LAMBDA found, i : ScanStep(tokens, k, ends, found, i))
    BY IterateIsRun
  <1>3. PICK g : /\ IsRun(g, start, n, LAMBDA found, i : ScanStep(tokens, k, ends, found, i))
                 /\ Iterate(start, n, LAMBDA found, i : ScanStep(tokens, k, ends, found, i))
                       = g[n]
    BY <1>2 DEF IterateRuns
  <1>4. /\ g[0] = start
        /\ \A i \in 1 .. n : g[i] = ScanStep(tokens, k, ends, g[i - 1], i)
    BY <1>3 DEF IsRun
  <1>5. QED
    BY <1>1, <1>3, <1>4 DEF start

\* The tokens inside another one follow it without a gap.
LEMMA WithinIsInterval ==
    ASSUME NEW doc, Tokenized(doc), NEW k \in DOMAIN doc.tokens
    PROVE  \E n \in Nat : /\ n = Cardinality(Within(doc.tokens, k))
                          /\ Within(doc.tokens, k) = k + 1 .. k + n
                          /\ k + n <= Len(doc.tokens)
  <1> DEFINE tokens == doc.tokens
             len == Len(tokens)
             start(j) == tokens[j].start
             last == tokens[k].end
             outside == {j \in k + 1 .. len + 1 : j = len + 1 \/ ~(start(j) <= last)}
  <1>1. /\ len \in Nat /\ k \in 1 .. len /\ last \in Nat
        /\ \A j \in 1 .. len : start(j) \in Nat
        /\ \A j \in 1 .. len : \A i \in 1 .. j - 1 : start(i) < start(j)
    BY DEF Tokenized
  <1>2. Within(tokens, k) = {j \in k + 1 .. len : start(j) <= last}
    BY DEF Within
  <1> HIDE DEF len, start, last, tokens
  <1>3. outside \subseteq Nat /\ len + 1 \in outside
    BY <1>1
  <1>4. PICK m \in outside : \A j \in outside : m <= j
    BY <1>3, LeastMember
  <1> DEFINE n == m - k - 1
  <1>5. m \in Nat /\ m >= k + 1 /\ m <= len + 1 /\ n \in Nat /\ k + n = m - 1 /\ k + n <= len
    BY <1>1, <1>3, <1>4
  <1>6. ASSUME NEW j \in k + 1 .. len
        PROVE  start(j) <= last <=> j <= k + n
    <2>1. j <= k + n => start(j) <= last
      <3>1. SUFFICES ASSUME j <= k + n, ~(start(j) <= last) PROVE FALSE
        OBVIOUS
      <3>2. j \in outside /\ j < m
        BY <1>1, <1>5, <3>1
      <3>3. QED
        BY <1>1, <1>4, <1>5, <3>2
    <2>2. ~(j <= k + n) => ~(start(j) <= last)
      <3>1. SUFFICES ASSUME ~(j <= k + n) PROVE ~(start(j) <= last)
        OBVIOUS
      <3>2. m <= j /\ m \in 1 .. len /\ j \in 1 .. len /\ m # len + 1
        BY <1>1, <1>5, <3>1
      <3>3. ~(start(m) <= last)
        BY <1>4, <3>2
      <3>4. m = j \/ start(m) < start(j)
        BY <1>1, <3>2
      <3>5. start(m) \in Nat /\ start(j) \in Nat
        BY <1>1, <3>2
      <3>6. QED
        BY <1>1, <3>3, <3>4, <3>5
    <2>3. QED
      BY <2>1, <2>2
  <1>7. Within(tokens, k) = k + 1 .. k + n
    BY <1>1, <1>2, <1>5, <1>6
  <1>8. Cardinality(k + 1 .. k + n) = n
    <2>1. k + 1 \in Int /\ k + n \in Int
      BY <1>1, <1>5
    <2>0. k \in Nat /\ n \in Nat
      BY <1>1, <1>5
    <2>2. Cardinality(k + 1 .. k + n) = IF k + 1 > k + n THEN 0 ELSE (k + n) - (k + 1) + 1
      BY <2>1, FS_Interval
    <2>3. CASE n = 0
      <3>1. k + 1 > k + n
        BY <1>1, <2>3
      <3>2. QED
        BY <2>2, <2>3, <3>1
    <2>4. CASE n > 0
      <3> HIDE DEF n
      <3>1. ~(k + 1 > k + n) /\ (k + n) - (k + 1) + 1 = n
        BY <1>1, <1>5, <2>4
      <3>2. QED
        BY <2>2, <3>1
    <2>5. n = 0 \/ n > 0
      <3> HIDE DEF n
      <3>1. QED
        BY <2>0
    <2>6. QED
      BY <2>3, <2>4, <2>5
  <1>9. QED
    BY <1>5, <1>7, <1>8 DEF tokens, len

\* In a nested row of tokens, a token is inside another one when it starts in
\* it; it ends before that one does, and no text contains a token.
LEMMA InsideIsWithin ==
    ASSUME NEW doc, Tokenized(doc), Nested(doc.tokens),
           NEW j \in DOMAIN doc.tokens, NEW k \in DOMAIN doc.tokens
    PROVE  /\ j \in Within(doc.tokens, k) <=> j > k /\ doc.tokens[j].start <= doc.tokens[k].end
           /\ Inside(doc.tokens, j, k) <=> j \in Within(doc.tokens, k)
           /\ Inside(doc.tokens, j, k) =>
                 doc.tokens[j].end < doc.tokens[k].end /\ ~IsFlat(doc.tokens, k)
  <1> DEFINE tokens == doc.tokens
             len == Len(tokens)
             sj == tokens[j].start
             ej == tokens[j].end
             sk == tokens[k].start
             ek == tokens[k].end
  <1>1. /\ len \in Nat /\ j \in 1 .. len /\ k \in 1 .. len
        /\ sj \in Nat /\ ej \in Nat /\ sk \in Nat /\ ek \in Nat /\ sj <= ej /\ sk <= ek
        /\ j < k => sj < sk
        /\ k < j => sk < sj
    <2>1. len \in Nat /\ DOMAIN tokens = 1 .. len
      BY DEF Tokenized
    <2>2. \A m \in DOMAIN tokens :
             /\ tokens[m].start \in Nat /\ tokens[m].end \in Nat
             /\ tokens[m].start <= tokens[m].end
             /\ \A i \in 1 .. m - 1 : tokens[i].start < tokens[m].start
      BY DEF Tokenized
    <2>3. j \in DOMAIN tokens /\ k \in DOMAIN tokens
      OBVIOUS
    <2> HIDE DEF tokens, len
    <2>4. j \in 1 .. len /\ k \in 1 .. len
      BY <2>1, <2>3
    <2>5. (j < k => j \in 1 .. k - 1) /\ (k < j => k \in 1 .. j - 1)
      BY <2>1, <2>4
    <2>6. QED
      BY <2>1, <2>2, <2>3, <2>4, <2>5
  <1>2. Inside(tokens, j, k) <=> j # k /\ sk <= sj /\ ej <= ek
    BY DEF Inside
  <1>3. j \in Within(tokens, k) <=> j \in k + 1 .. len /\ sj <= ek
    BY DEF Within
  <1>4. k < j => (ek < sj \/ (~IsFlat(tokens, k) /\ ej < ek))
    BY DEF Nested
  <1> HIDE DEF len, sj, ej, sk, ek, tokens
  <1>5. j \in Within(tokens, k) <=> j > k /\ sj <= ek
    BY <1>1, <1>3
  <1>6. Inside(tokens, j, k) <=> j > k /\ sj <= ek
    BY <1>1, <1>2, <1>4
  <1>7. Inside(tokens, j, k) => ej < ek /\ ~IsFlat(tokens, k)
    BY <1>1, <1>4, <1>6
  <1>8. QED
    BY <1>5, <1>6, <1>7 DEF tokens, sj, ej, ek

\* A child of a token starts behind the end of every token between the two.
LEMMA ChildIsBehind ==
    ASSUME NEW doc, Tokenized(doc), Nested(doc.tokens), NEW k \in DOMAIN doc.tokens,
           NEW n \in Nat, Within(doc.tokens, k) = k + 1 .. k + n, k + n <= Len(doc.tokens)
    PROVE  Children(doc.tokens, k) =
              {j \in k + 1 .. k + n :
                  \A i \in k + 1 .. j - 1 : doc.tokens[i].end < doc.tokens[j].start}
  <1> DEFINE tokens == doc.tokens
             len == Len(tokens)
             start(j) == tokens[j].start
             end(j) == tokens[j].end
             within == {j \in DOMAIN tokens : Inside(tokens, j, k)}
             W == k + 1 .. k + n
  <1>1. /\ len \in Nat /\ k \in 1 .. len /\ k + n <= len /\ DOMAIN tokens = 1 .. len
        /\ \A j \in 1 .. len : start(j) \in Nat /\ end(j) \in Nat
    BY DEF Tokenized
  <1>2. within = W
    <2>1. \A j \in DOMAIN tokens : Inside(tokens, j, k) <=> j \in W
      BY InsideIsWithin
    <2>2. W \subseteq DOMAIN tokens
      <3> HIDE DEF len, tokens
      <3>1. QED
        BY <1>1
    <2>3. QED
      BY <2>1, <2>2
  <1>3. Children(tokens, k) = {j \in W : \A i \in W : ~Inside(tokens, j, i)}
    BY <1>2 DEF Children
  <1>4. ASSUME NEW j \in W, NEW i \in W
        PROVE  Inside(tokens, j, i) <=> j > i /\ start(j) <= end(i)
    <2>1. j \in DOMAIN tokens /\ i \in DOMAIN tokens
      BY <1>2
    <2>2. QED
      BY <2>1, InsideIsWithin
  <1> HIDE DEF len, tokens, start, end, within
  <1>5. ASSUME NEW j \in W
        PROVE  (\A i \in W : ~Inside(tokens, j, i))
               <=> (\A i \in k + 1 .. j - 1 : end(i) < start(j))
    <2>1. ASSUME \A i \in W : ~Inside(tokens, j, i), NEW i \in k + 1 .. j - 1
          PROVE  end(i) < start(j)
      <3>0. /\ k \in Int /\ j \in Int /\ i \in Int /\ len \in Int /\ n \in Int
            /\ 1 <= k /\ k + 1 <= j /\ j <= k + n /\ k + 1 <= i /\ i <= j - 1
            /\ k + n <= len
        BY <1>1
      <3>1. i \in W /\ j > i /\ i \in 1 .. len /\ j \in 1 .. len
        BY <3>0
      <3>2. ~(start(j) <= end(i))
        BY <1>4, <2>1, <3>1
      <3>3. start(j) \in Nat /\ end(i) \in Nat
        BY <1>1, <3>1
      <3>4. QED
        BY <3>2, <3>3
    <2>2. ASSUME \A i \in k + 1 .. j - 1 : end(i) < start(j), NEW i \in W
          PROVE  ~Inside(tokens, j, i)
      <3>1. SUFFICES ASSUME j > i, start(j) <= end(i) PROVE FALSE
        BY <1>4
      <3>2. i \in k + 1 .. j - 1 /\ i \in 1 .. len /\ j \in 1 .. len
        BY <1>1, <3>1
      <3>3. end(i) < start(j) /\ start(j) \in Nat /\ end(i) \in Nat
        BY <1>1, <2>2, <3>2
      <3>4. QED
        BY <3>1, <3>3
    <2>3. QED
      BY <2>1, <2>2
  <1>6. Children(tokens, k) = {j \in W : \A i \in k + 1 .. j - 1 : end(i) < start(j)}
    BY <1>3, <1>5
  <1>7. QED
    BY <1>6 DEF tokens, start, end

\* Skipping children that are none, the position of a key is even.
LEMMA PositionsCount ==
    ASSUME NEW children, NEW n \in Nat, NEW k \in Nat, children \subseteq k + 1 .. k + n,
           NEW c \in children
    PROVE  /\ Position(children, c) \in Nat
           /\ (\A d \in children : ~(d < c)) => Position(children, c) = 0
           /\ c + 1 \in children => Position(children, c + 1) = Position(children, c) + 1
           /\ \A j \in children :
                 /\ c + 1 \in children /\ c + 1 < j
                 /\ \A d \in children : d < j => d <= c + 1
                 => Position(children, j) = Position(children, c) + 2
  <1> DEFINE before(x) == {d \in children : d < x}
  <1>1. children \subseteq Int /\ IsFiniteSet(children)
    <2>1. IsFiniteSet(k + 1 .. k + n)
      <3>1. k + 1 \in Int /\ k + n \in Int
        OBVIOUS
      <3>2. QED
        BY <3>1, FS_Interval
    <2>2. children \in SUBSET (k + 1 .. k + n)
      OBVIOUS
    <2>3. IsFiniteSet(children)
      BY <2>1, <2>2, FS_Subset
    <2>4. children \subseteq Int
      OBVIOUS
    <2>5. QED
      BY <2>3, <2>4
  <1>2. ASSUME NEW x PROVE IsFiniteSet(before(x)) /\ Cardinality(before(x)) \in Nat
    <2>1. before(x) \subseteq children
      OBVIOUS
    <2>2. IsFiniteSet(before(x))
      BY <1>1, <2>1, FS_Subset
    <2>3. QED
      BY <2>2, FS_CardinalityType
  <1>3. Position(children, c) \in Nat
    BY <1>2 DEF Position
  <1>4. ASSUME \A d \in children : ~(d < c) PROVE Position(children, c) = 0
    <2>1. before(c) = {}
      BY <1>4
    <2>2. QED
      BY <2>1, FS_EmptySet DEF Position
  <1>5. Cardinality(before(c) \cup {c}) = Cardinality(before(c)) + 1
    <2>1. c \notin before(c)
      BY <1>1
    <2>2. QED
      BY <1>2, <2>1, FS_AddElement
  <1>6. ASSUME c + 1 \in children PROVE Position(children, c + 1) = Position(children, c) + 1
    <2>1. before(c + 1) = before(c) \cup {c}
      <3>1. \A d \in children : d < c + 1 <=> d < c \/ d = c
        BY <1>1
      <3>2. QED
        BY <3>1
    <2>2. QED
      BY <1>5, <2>1 DEF Position
  <1>7. ASSUME NEW j \in children, c + 1 \in children, c + 1 < j,
               \A d \in children : d < j => d <= c + 1
        PROVE  Position(children, j) = Position(children, c) + 2
    <2>1. before(j) = before(c + 1) \cup {c + 1}
      <3>1. \A d \in children : d < j <=> d < c + 1 \/ d = c + 1
        BY <1>1, <1>7
      <3>2. QED
        BY <1>7, <3>1
    <2>2. c + 1 \notin before(c + 1)
      BY <1>1
    <2>3. Cardinality(before(j)) = Cardinality(before(c + 1)) + 1
      <3>1. IsFiniteSet(before(c + 1))
        BY <1>2
      <3> HIDE DEF before
      <3>2. QED
        BY <2>1, <2>2, <3>1, FS_AddElement
    <2>4. Position(children, c + 1) = Position(children, c) + 1
      BY <1>6, <1>7
    <2>5. QED
      BY <1>2, <1>3, <2>3, <2>4 DEF Position
  <1>8. QED
    BY <1>3, <1>4, <1>6, <1>7
\* What the scan for keys has found when it has looked at i tokens of k: the
\* keys among them, in order; and it goes on behind the value of the last one.
FoundSoFar(tokens, k, found, i) ==
    LET keys == found.elements
        last == keys[Len(keys)]
    IN  /\ keys \in Seq(Nat)
        /\ \A a, b \in 1 .. Len(keys) : a < b => keys[a] < keys[b]
        /\ {keys[a] : a \in 1 .. Len(keys)} = KeyChildren(tokens, k) \cap (k + 1 .. k + i)
        /\ Len(keys) = 0 => i = 0 /\ found.end = tokens[k].start
        /\ Len(keys) > 0 =>
              /\ found.end = tokens[last + 1].end
              /\ \A t \in last + 1 .. k + i : tokens[t].start <= found.end

\* Every second position of a finite set is behind one of the first kind.
LEMMA OddBehindEven ==
    ASSUME NEW p \in Nat, p % 2 = 0
    PROVE  (p + 1) % 2 # 0
  OBVIOUS

\* The keys of an object, as the scan finds them: in order, and each of them.
LEMMA KeyStep ==
    ASSUME NEW doc, Tokenized(doc), InGrammar(doc),
           NEW k \in DOMAIN doc.tokens, doc.tokens[k].type = "JSMN_OBJECT",
           NEW n \in Nat, Within(doc.tokens, k) = k + 1 .. k + n, k + n <= Len(doc.tokens),
           NEW i \in 0 .. n - 1, NEW found, FoundSoFar(doc.tokens, k, found, i)
    PROVE  FoundSoFar(doc.tokens, k,
              ScanStep(doc.tokens, k,
                       [x \in DOMAIN doc.tokens |-> TokenAt(doc.tokens, x + 1).end],
                       found, i + 1), i + 1)
  <1> DEFINE tokens == doc.tokens
             len == Len(tokens)
             start(t) == tokens[t].start
             end(t) == tokens[t].end
             ends == [x \in DOMAIN tokens |-> TokenAt(tokens, x + 1).end]
             C == Children(tokens, k)
             K == KeyChildren(tokens, k)
             keys == found.elements
             last == keys[Len(keys)]
             j == k + (i + 1)
  <1>1. /\ len \in Nat /\ k \in 1 .. len /\ k + n <= len /\ DOMAIN tokens = 1 .. len
        /\ \A t \in 1 .. len : start(t) \in Nat /\ end(t) \in Nat /\ start(t) <= end(t)
        /\ \A t \in 1 .. len : \A s \in 1 .. t - 1 : start(s) < start(t)
    BY DEF Tokenized
  <1>2. C = {t \in k + 1 .. k + n : \A s \in k + 1 .. t - 1 : end(s) < start(t)}
    BY ChildIsBehind DEF InGrammar
  <1>3. \A s, t \in 1 .. len : s < t => (end(s) < start(t) \/ end(t) < end(s))
    BY <1>1 DEF InGrammar, Nested
  <1>4. K = {c \in C : Position(C, c) % 2 = 0}
    BY DEF KeyChildren
  <1>5. \A c \in K : c + 1 \in C
    BY <1>4 DEF InGrammar, Paired
  <1>6. /\ keys \in Seq(Nat)
        /\ \A a, b \in 1 .. Len(keys) : a < b => keys[a] < keys[b]
        /\ {keys[a] : a \in 1 .. Len(keys)} = K \cap (k + 1 .. k + i)
        /\ Len(keys) = 0 => i = 0 /\ found.end = start(k)
        /\ Len(keys) > 0 =>
              /\ found.end = end(last + 1)
              /\ \A t \in last + 1 .. k + i : start(t) <= found.end
    BY DEF FoundSoFar
  <1>7. ScanStep(tokens, k, ends, found, i + 1) =
           IF start(j) <= found.end THEN found
           ELSE [end |-> ends[j], elements |-> Append(keys, j)]
    BY DEF ScanStep
  <1>8. \A t \in 1 .. len - 1 : ends[t] = end(t + 1)
    <2>1. ASSUME NEW t \in 1 .. len - 1 PROVE ends[t] = end(t + 1)
      <3>1. t \in DOMAIN tokens /\ t + 1 \in DOMAIN tokens
        BY <1>1
      <3>2. QED
        BY <3>1 DEF TokenAt
    <2>2. QED
      BY <2>1
  <1> DEFINE next == ScanStep(tokens, k, ends, found, i + 1)
  <1>9. SUFFICES
           LET ks == next.elements
               l == ks[Len(ks)]
           IN  /\ ks \in Seq(Nat)
               /\ \A a, b \in 1 .. Len(ks) : a < b => ks[a] < ks[b]
               /\ {ks[a] : a \in 1 .. Len(ks)} = K \cap (k + 1 .. j)
               /\ Len(ks) # 0
               /\ next.end = end(l + 1)
               /\ \A t \in l + 1 .. j : start(t) <= next.end
    BY DEF FoundSoFar
  <1>10. next = IF start(j) <= found.end THEN found
                ELSE [end |-> ends[j], elements |-> Append(keys, j)]
    BY <1>7
  <1> HIDE DEF tokens, len, start, end, ends, C, K, keys, last, next
  <1>11. /\ k \in Nat /\ i \in Nat /\ i <= n - 1 /\ len \in Nat /\ k + n <= len
    BY <1>1
  <1>12. /\ j \in Nat /\ j \in k + 1 .. k + n /\ j \in 1 .. len
         /\ j = k + i + 1 /\ k < j /\ k + i < j
    <2>1. j \in Nat /\ j = k + i + 1 /\ k < j /\ k + i < j /\ j <= k + n /\ j <= len
      BY <1>11
    <2>2. QED
      BY <1>11, <2>1
  <1> HIDE DEF j
  <1>13. k + 1 .. j = (k + 1 .. k + i) \cup {j}
    <2>1. k \in Nat /\ i \in Nat /\ j = k + i + 1
      BY <1>11, <1>12
    <2>2. QED
      BY <2>1
  <1>14. C \subseteq k + 1 .. k + n /\ C \subseteq 1 .. len /\ K \subseteq C
    <2>1. k + 1 .. k + n \subseteq 1 .. len
      BY <1>11
    <2>2. QED
      BY <1>2, <1>4, <2>1
  <1> DEFINE m == Len(keys)
             Goal == LET ks == next.elements
                         l == ks[Len(ks)]
                     IN  /\ ks \in Seq(Nat)
                         /\ \A a, b \in 1 .. Len(ks) : a < b => ks[a] < ks[b]
                         /\ {ks[a] : a \in 1 .. Len(ks)} = K \cap (k + 1 .. j)
                         /\ Len(ks) # 0
                         /\ next.end = end(l + 1)
                         /\ \A t \in l + 1 .. j : start(t) <= next.end
  <1>15. m \in Nat
    BY <1>6
  <1>16. ASSUME j \in K, ~(start(j) <= found.end) PROVE Goal
    <2> DEFINE ks == Append(keys, j)
    <2>1. next.elements = ks /\ next.end = ends[j]
      BY <1>10, <1>16
    <2>2. /\ ks \in Seq(Nat) /\ Len(ks) = m + 1 /\ ks[m + 1] = j
          /\ \A a \in 1 .. m : ks[a] = keys[a]
      BY <1>6, <1>12
    <2> HIDE DEF ks, m
    <2>3. 1 .. m + 1 = (1 .. m) \cup {m + 1}
      BY <1>15
    <2>4. \A a \in 1 .. m : keys[a] \in k + 1 .. k + i /\ keys[a] < j
      <3>1. {keys[a] : a \in 1 .. m} = K \cap (k + 1 .. k + i)
        BY <1>6 DEF m
      <3>2. \A a \in 1 .. m : keys[a] \in k + 1 .. k + i
        BY <3>1
      <3>3. \A x \in k + 1 .. k + i : x < j
        BY <1>11, <1>12
      <3>4. QED
        BY <3>2, <3>3
    <2>5. ASSUME NEW a \in 1 .. m + 1, NEW b \in 1 .. m + 1, a < b PROVE ks[a] < ks[b]
      <3>1. a \in 1 .. m
        BY <1>15, <2>5
      <3>2. CASE b = m + 1
        BY <2>2, <2>4, <3>1, <3>2
      <3>3. CASE b # m + 1
        <4>1. b \in 1 .. m
          BY <1>15, <3>3
        <4>2. keys[a] < keys[b]
          BY <1>6, <2>5, <3>1, <4>1 DEF m
        <4>3. QED
          BY <2>2, <3>1, <4>1, <4>2
      <3>4. QED
        BY <3>2, <3>3
    <2>6. {ks[a] : a \in 1 .. m + 1} = K \cap (k + 1 .. j)
      <3>1. {ks[a] : a \in 1 .. m + 1} = {keys[a] : a \in 1 .. m} \cup {j}
        <4>1. {ks[a] : a \in 1 .. m + 1} = {ks[a] : a \in 1 .. m} \cup {ks[m + 1]}
          BY <2>3
        <4>2. {ks[a] : a \in 1 .. m} = {keys[a] : a \in 1 .. m}
          BY <2>2
        <4>3. QED
          BY <2>2, <4>1, <4>2
      <3>2. {keys[a] : a \in 1 .. m} = K \cap (k + 1 .. k + i)
        BY <1>6 DEF m
      <3>3. QED
        BY <1>13, <1>16, <3>1, <3>2
    <2>7. ends[j] = end(j + 1)
      <3>1. j + 1 \in 1 .. len
        BY <1>5, <1>14, <1>16
      <3>2. j \in 1 .. len - 1
        BY <1>11, <1>12, <3>1
      <3>3. QED
        BY <1>8, <3>2
    <2>8. j + 1 .. j = {} /\ m + 1 # 0
      BY <1>12, <1>15
    <2>9. QED
      BY <2>1, <2>2, <2>5, <2>6, <2>7, <2>8
  <1>17. CASE m = 0
    <2>1. i = 0 /\ found.end = start(k)
      BY <1>6, <1>17
    <2>2. j = k + 1
      BY <1>11, <1>12, <2>1
    <2>3. ~(start(j) <= found.end)
      <3>1. k \in 1 .. j - 1 /\ start(k) \in Nat /\ start(j) \in Nat
        <4>1. k \in 1 .. len /\ k >= 1
          BY <1>1, <1>11
        <4>2. k \in 1 .. j - 1
          BY <1>11, <1>12, <4>1
        <4>3. QED
          BY <1>1, <1>12, <4>1, <4>2
      <3>2. start(k) < start(j)
        BY <1>1, <1>12, <3>1
      <3>3. QED
        BY <2>1, <3>1, <3>2
    <2>4. j \in C
      <3>1. k + 1 .. j - 1 = {}
        BY <1>11, <2>2
      <3>2. QED
        BY <1>2, <1>12, <3>1
    <2>5. \A d \in C : ~(d < j)
      <3>1. ASSUME NEW d \in C PROVE ~(d < j)
        <4>1. d \in k + 1 .. k + n
          BY <1>14
        <4>2. QED
          BY <1>11, <2>2, <4>1
      <3>2. QED
        BY <3>1
    <2>6. Position(C, j) = 0
      BY <1>11, <1>14, <2>4, <2>5, PositionsCount
    <2>7. j \in K
      BY <1>4, <2>4, <2>6
    <2>8. QED
      BY <1>16, <2>3, <2>7
  <1>18. CASE m > 0
    <2> DEFINE v == last + 1
    <2>1. last \in K /\ last \in k + 1 .. k + i
      <3>1. m \in 1 .. m
        BY <1>15, <1>18
      <3>2. last \in {keys[a] : a \in 1 .. m}
        BY <3>1 DEF last
      <3> HIDE DEF m
      <3>3. {keys[a] : a \in 1 .. m} = K \cap (k + 1 .. k + i)
        BY <1>6 DEF m
      <3>4. QED
        BY <3>2, <3>3
    <2>2. v \in C /\ last \in C /\ v \in 1 .. len /\ Position(C, last) % 2 = 0
      BY <1>4, <1>5, <1>14, <2>1
    <2>3. found.end = end(v) /\ \A t \in v .. k + i : start(t) <= end(v)
      BY <1>6, <1>18
    <2>4. last \in Nat /\ k + 1 <= last /\ last <= k + i /\ last < j
      BY <1>11, <1>12, <2>1
    <2>5. /\ start(v) \in Nat /\ end(v) \in Nat /\ start(v) <= end(v)
          /\ start(j) \in Nat /\ end(j) \in Nat
      BY <1>1, <1>12, <2>2
    <2>6. v \in k + 1 .. k + n /\ v \in Nat
      BY <1>14, <2>2, <2>4
    <2>7. CASE start(j) <= found.end
      <3>1. next = found
        BY <1>10, <2>7
      <3>2. j \notin K
        <4>1. CASE j = v
          <5>1. Position(C, v) = Position(C, last) + 1 /\ Position(C, last) \in Nat
            BY <1>11, <1>14, <2>2, PositionsCount
          <5>2. Position(C, v) % 2 # 0
            BY <2>2, <5>1, OddBehindEven
          <5>3. QED
            BY <1>4, <4>1, <5>2
        <4>2. CASE j # v
          <5>1. v \in k + 1 .. j - 1
            <6>1. v \in Nat /\ k + 1 <= v
              BY <1>11, <2>6
            <6>2. v <= j
              BY <1>11, <1>12, <2>4
            <6>3. QED
              BY <1>11, <1>12, <4>2, <6>1, <6>2
          <5>2. ~(end(v) < start(j))
            BY <2>3, <2>5, <2>7
          <5>3. j \notin C
            BY <1>2, <5>1, <5>2
          <5>4. QED
            BY <1>14, <5>3
        <4>3. QED
          BY <4>1, <4>2
      <3>3. K \cap (k + 1 .. j) = K \cap (k + 1 .. k + i)
        BY <1>13, <3>2
      <3>4. \A t \in last + 1 .. j : start(t) <= found.end
        <4>1. \A t \in v .. j : t \in v .. k + i \/ t = j
          BY <1>11, <1>12, <2>6
        <4>2. QED
          BY <2>3, <2>7, <4>1
      <3>5. m # 0 /\ keys = found.elements
        BY <1>18 DEF keys
      <3>6. last = found.elements[Len(found.elements)]
        BY DEF last, keys
      <3>7. QED
        BY <1>6, <2>3, <3>1, <3>3, <3>4, <3>5, <3>6
    <2>8. CASE ~(start(j) <= found.end)
      <3>1. v < j
        <4>1. v # j
          BY <2>3, <2>5, <2>8
        <4>2. j \in Nat /\ last \in Nat /\ last < j
          BY <1>12, <2>4
        <4>3. QED
          BY <4>1, <4>2
      <3>2. ASSUME NEW t \in k + 1 .. j - 1 PROVE end(t) < start(j)
        <4>1. /\ t \in 1 .. len /\ t \in Nat /\ t <= k + i /\ k + 1 <= t
              /\ start(t) \in Nat /\ end(t) \in Nat
          <5>1. t \in 1 .. len /\ t \in Nat /\ t <= k + i /\ k + 1 <= t
            BY <1>11, <1>12
          <5>2. QED
            BY <1>1, <5>1
        <4>2. CASE t < v
          <5>1. t \in k + 1 .. v - 1
            BY <1>11, <2>6, <4>1, <4>2
          <5>2. end(t) < start(v)
            BY <1>2, <2>2, <5>1
          <5>3. QED
            BY <2>3, <2>5, <2>8, <4>1, <5>2
        <4>3. CASE t = v
          BY <2>3, <2>5, <2>8, <4>3
        <4>4. CASE v < t
          <5>1. start(t) <= end(v)
            BY <1>11, <2>3, <2>6, <4>1, <4>4
          <5>2. end(v) < start(t) \/ end(t) < end(v)
            BY <1>3, <2>2, <4>1, <4>4
          <5>3. end(t) < end(v)
            BY <2>5, <4>1, <5>1, <5>2
          <5>4. QED
            BY <2>3, <2>5, <2>8, <4>1, <5>3
        <4>5. t < v \/ t = v \/ v < t
          BY <2>6, <4>1
        <4>6. QED
          BY <4>2, <4>3, <4>4, <4>5
      <3>3. j \in C
        BY <1>2, <1>12, <3>2
      <3>4. ASSUME NEW d \in C, d < j PROVE d <= v
        <4>1. d \in Nat /\ d \in 1 .. len /\ k + 1 <= d /\ d <= k + i
          <5>1. d \in k + 1 .. k + n
            BY <1>14
          <5>2. QED
            BY <1>11, <1>12, <1>14, <3>4, <5>1
        <4>2. SUFFICES ASSUME v < d PROVE FALSE
          BY <2>6, <4>1
        <4>3. start(d) <= end(v)
          BY <1>11, <2>3, <2>6, <4>1, <4>2
        <4>4. end(v) < start(d)
          <5>1. v \in k + 1 .. d - 1
            BY <1>11, <2>6, <4>1, <4>2
          <5>2. QED
            BY <1>2, <5>1
        <4>5. start(d) \in Nat
          BY <1>1, <4>1
        <4>6. QED
          BY <2>5, <4>3, <4>4, <4>5
      <3>5. /\ Position(C, j) = Position(C, last) + 2 /\ Position(C, last) \in Nat
        <4>1. k \in Nat /\ C \subseteq k + 1 .. k + n /\ last \in C
          BY <1>11, <1>14, <2>2
        <4>2. \A d \in C : d < j => d <= last + 1
          BY <3>4
        <4>3. last + 1 \in C /\ last + 1 < j
          BY <2>2, <3>1
        <4>4. QED
          BY <3>3, <4>1, <4>2, <4>3, PositionsCount
      <3>6. Position(C, j) % 2 = 0
        BY <2>2, <3>5
      <3>7. j \in K
        BY <1>4, <3>3, <3>6
      <3>8. QED
        BY <1>16, <2>8, <3>7
    <2>9. QED
      BY <2>7, <2>8
  <1>19. Goal
    BY <1>15, <1>17, <1>18
  <1>20. QED
    BY <1>19

\* The keys that are found are the children at even positions.
LEMMA KeysOfObject ==
    ASSUME NEW doc, Tokenized(doc), InGrammar(doc),
           NEW k \in DOMAIN doc.tokens, doc.tokens[k].type = "JSMN_OBJECT"
    PROVE  LET keys == object_keys(doc.tokens, k)
           IN  /\ keys \in Seq(Nat)
               /\ \A a, b \in 1 .. Len(keys) : a < b => keys[a] < keys[b]
               /\ {keys[a] : a \in 1 .. Len(keys)} = KeyChildren(doc.tokens, k)
  <1> DEFINE tokens == doc.tokens
             ends == [x \in DOMAIN tokens |-> TokenAt(tokens, x + 1).end]
  <1>1. PICK n \in Nat : /\ n = Cardinality(Within(tokens, k))
                         /\ Within(tokens, k) = k + 1 .. k + n
                         /\ k + n <= Len(tokens)
    BY WithinIsInterval
  <1>2. object_keys(tokens, k) = Scan(tokens, k, ends)
    BY DEF object_keys
  <1>3. PICK g : /\ g[0] = [end |-> tokens[k].start, elements |-> << >>]
                 /\ \A i \in 1 .. n : g[i] = ScanStep(tokens, k, ends, g[i - 1], i)
                 /\ Scan(tokens, k, ends) = g[n].elements
    <2> HIDE DEF ends, tokens
    <2>1. n = Cardinality(Within(tokens, k))
      BY <1>1
    <2>2. \E g : /\ g[0] = [end |-> tokens[k].start, elements |-> << >>]
                 /\ \A i \in 1 .. n : g[i] = ScanStep(tokens, k, ends, g[i - 1], i)
                 /\ Scan(tokens, k, ends) = g[n].elements
      BY ONLY <2>1, n \in Nat, ScanIsRun
    <2>3. QED
      BY <2>2
  <1> DEFINE S == {i \in 0 .. n : FoundSoFar(tokens, k, g[i], i)}
  <1>4. 0 \in S
    <2>1. g[0] = [end |-> tokens[k].start, elements |-> << >>]
      BY <1>3
    <2>2. k + 1 .. k + 0 = {}
      BY DEF Tokenized
    <2>3. 0 \in 0 .. n
      OBVIOUS
    <2> HIDE DEF tokens
    <2>4. FoundSoFar(tokens, k, g[0], 0)
      BY <2>1, <2>2 DEF FoundSoFar
    <2>5. QED
      BY <2>3, <2>4
  <1>5. ASSUME NEW i \in 0 .. n - 1, i \in S PROVE i + 1 \in S
    <2>1. i + 1 \in 0 .. n /\ i + 1 \in 1 .. n /\ (i + 1) - 1 = i
      OBVIOUS
    <2>2. g[i + 1] = ScanStep(tokens, k, ends, g[i], i + 1)
      <3> HIDE DEF ends, tokens
      <3>1. g[i + 1] = ScanStep(tokens, k, ends, g[(i + 1) - 1], i + 1)
        BY <1>3, <2>1
      <3>2. QED
        BY <2>1, <3>1
    <2>3. FoundSoFar(tokens, k, g[i], i)
      BY <1>5
    <2>4. FoundSoFar(tokens, k, g[i + 1], i + 1)
      BY <1>1, <2>2, <2>3, KeyStep
    <2>5. QED
      BY <2>1, <2>4
  <1> HIDE DEF S, ends
  <1>6. \A i \in 0 .. n : i \in S
    BY <1>4, <1>5, Induction
  <1>7. FoundSoFar(tokens, k, g[n], n)
    <2>1. n \in 0 .. n
      OBVIOUS
    <2>2. n \in S
      BY <1>6, <2>1
    <2>3. QED
      BY <2>2 DEF S
  <1>8. KeyChildren(tokens, k) \cap (k + 1 .. k + n) = KeyChildren(tokens, k)
    <2>1. Children(tokens, k) \subseteq k + 1 .. k + n
      <3>1. Nested(tokens)
        BY DEF InGrammar
      <3>2. Children(tokens, k) =
               {j \in k + 1 .. k + n :
                   \A i \in k + 1 .. j - 1 : tokens[i].end < tokens[j].start}
        BY <1>1, <3>1, ChildIsBehind
      <3>3. QED
        BY <3>2
    <2>2. QED
      BY <2>1 DEF KeyChildren
  <1>9. object_keys(tokens, k) = g[n].elements
    BY <1>2, <1>3
  <1> HIDE DEF tokens
  <1>10. QED
    BY <1>7, <1>8, <1>9 DEF FoundSoFar, tokens

-----------------------------------------------------------------------------
\* strcmp orders all keys, so what is sorted pair by pair is sorted.
LEMMA OrderIsTransitive ==
    ASSUME NEW a, NEW b, NEW c, is_sorted(a, b), is_sorted(b, c)
    PROVE  is_sorted(a, c)
  <1>1. PICK i, j \in DOMAIN KeyOrder : i <= j /\ KeyOrder[i] = a /\ KeyOrder[j] = b
    BY DEF is_sorted
  <1>2. PICK p, q \in DOMAIN KeyOrder : p <= q /\ KeyOrder[p] = b /\ KeyOrder[q] = c
    BY DEF is_sorted
  <1>3. j = p
    BY <1>1, <1>2, OrderAssumption
  <1>4. DOMAIN KeyOrder \subseteq Nat
    BY OrderAssumption
  <1>5. i <= q
    BY <1>1, <1>2, <1>3, <1>4
  <1>6. QED
    BY <1>1, <1>2, <1>5 DEF is_sorted

\* Neighbours that are sorted sort them all.
LEMMA PairsSortAll ==
    ASSUME NEW tokens, NEW keys \in Seq(Nat),
           \A n \in 2 .. Len(keys) :
               is_sorted(tokens[keys[n - 1]].text, tokens[keys[n]].text),
           NEW a \in 1 .. Len(keys), NEW b \in 1 .. Len(keys), a < b
    PROVE  is_sorted(tokens[keys[a]].text, tokens[keys[b]].text)
  <1> DEFINE text(x) == tokens[keys[x]].text
             rest == Len(keys) - a - 1
             S == {m \in 0 .. rest : is_sorted(text(a), text(a + 1 + m))}
  <1>0. Len(keys) \in Nat
    OBVIOUS
  <1>1. rest \in Nat
    BY <1>0
  <1>2. \A n \in 2 .. Len(keys) : is_sorted(text(n - 1), text(n))
    OBVIOUS
  <1> HIDE DEF text
  <1>3. 0 \in S
    <2>1. a + 1 \in 2 .. Len(keys) /\ (a + 1) - 1 = a /\ a + 1 + 0 = a + 1
      BY <1>0
    <2>2. is_sorted(text(a), text(a + 1))
      BY <1>2, <2>1
    <2>3. 0 \in 0 .. rest
      BY <1>1
    <2>4. QED
      BY <2>1, <2>2, <2>3
  <1>4. ASSUME NEW m \in 0 .. rest - 1, m \in S PROVE m + 1 \in S
    <2>1. /\ a + 1 + (m + 1) \in 2 .. Len(keys) /\ (a + 1 + (m + 1)) - 1 = a + 1 + m
          /\ m + 1 \in 0 .. rest
      BY <1>0
    <2>2. is_sorted(text(a + 1 + m), text(a + 1 + (m + 1)))
      BY <1>2, <2>1
    <2>3. is_sorted(text(a), text(a + 1 + m))
      BY <1>4
    <2>4. QED
      BY <2>1, <2>2, <2>3, OrderIsTransitive
  <1>5. b - a - 1 \in 0 .. rest /\ a + 1 + (b - a - 1) = b
    BY <1>0
  <1> HIDE DEF S, rest
  <1>6. \A m \in 0 .. rest : m \in S
    BY <1>1, <1>3, <1>4, Induction
  <1>7. is_sorted(text(a), text(a + 1 + (b - a - 1)))
    BY <1>5, <1>6 DEF S
  <1>8. QED
    BY <1>5, <1>7 DEF text

\* In a document that keeps to the grammar, the keys that are found sorted pair
\* by pair are all the keys there are.
LEMMA SortedIsSorted ==
    ASSUME NEW doc, Tokenized(doc), InGrammar(doc), dictionaries_sorted(doc.tokens),
           NEW k \in DOMAIN doc.tokens, doc.tokens[k].type = "JSMN_OBJECT"
    PROVE  KeysSorted(doc.tokens, KeyChildren(doc.tokens, k))
  <1> DEFINE keys == object_keys(doc.tokens, k)
  <1>1. /\ keys \in Seq(Nat)
        /\ \A a, b \in 1 .. Len(keys) : a < b => keys[a] < keys[b]
        /\ {keys[a] : a \in 1 .. Len(keys)} = KeyChildren(doc.tokens, k)
    BY KeysOfObject
  <1>2. \A n \in 2 .. Len(keys) :
           is_sorted(doc.tokens[keys[n - 1]].text, doc.tokens[keys[n]].text)
    BY DEF dictionaries_sorted
  <1> HIDE DEF keys
  <1>4. ASSUME NEW i \in KeyChildren(doc.tokens, k), NEW j \in KeyChildren(doc.tokens, k), i < j
        PROVE  is_sorted(doc.tokens[i].text, doc.tokens[j].text)
    <2>1. PICK a \in 1 .. Len(keys), b \in 1 .. Len(keys) : i = keys[a] /\ j = keys[b]
      BY <1>1
    <2>2. a < b
      <3>1. /\ a \in Nat /\ b \in Nat /\ keys[a] \in Nat /\ keys[b] \in Nat
            /\ keys[a] < keys[b]
        BY <1>1, <1>4, <2>1
      <3>2. ~(b < a)
        <4>1. SUFFICES ASSUME b < a PROVE FALSE
          OBVIOUS
        <4>2. keys[b] < keys[a]
          BY <1>1, <4>1
        <4>3. QED
          BY <3>1, <4>2
      <3>3. a # b
        BY <3>1
      <3>4. QED
        BY <3>1, <3>2, <3>3
    <2>3. QED
      BY <1>1, <1>2, <2>1, <2>2, PairsSortAll
  <1>5. QED
    BY <1>4 DEF KeysSorted

\* So the user reviews sorted keys, at every depth of the document.
THEOREM GrammarKeepsKeysSorted == Spec => [](InGrammar(json) => ReviewedKeysSorted)
  <1>1. ASSUME ReviewIsOwn, InGrammar(json), phase = "review"
        PROVE  \A k \in DOMAIN json.tokens : json.tokens[k].type = "JSMN_OBJECT" =>
                  \A keys \in {KeyChildren(json.tokens, k)} : KeysSorted(json.tokens, keys)
    <2>1. json \in Documents /\ parser_json_validate(json)
      BY <1>1 DEF ReviewIsOwn
    <2>2. Tokenized(json)
      BY <2>1, DocumentAssumption
    <2>3. dictionaries_sorted(json.tokens)
      BY <2>1 DEF parser_json_validate
    <2>4. QED
      BY <1>1, <2>2, <2>3, SortedIsSorted
  <1>2. ReviewIsOwn => (InGrammar(json) => ReviewedKeysSorted)
    BY <1>1 DEF ReviewedKeysSorted
  <1>3. QED
    BY <1>2, ReviewForgetsGlobals, PTL

-----------------------------------------------------------------------------
(* What the operators of the display return for documents that are JSON.   *)

\* All pieces are of one kind, so is the sequence of their elements.
LEMMA FlattenType ==
    ASSUME NEW S, NEW n \in Nat, NEW seqs \in [1 .. n -> Seq(S)]
    PROVE  FlattenSeq(seqs) \in Seq(S)
  <1>1. seqs \in Seq(Seq(S)) /\ Len(seqs) = n
    OBVIOUS
  <1>2. CASE n = 0
    <2>1. FlattenSeq(seqs) = seqs
      BY <1>1, <1>2 DEF FlattenSeq
    <2>2. seqs = << >>
      BY <1>1, <1>2
    <2>3. << >> \in Seq(S)
      OBVIOUS
    <2>4. QED
      BY <2>1, <2>2, <2>3
  <1>3. CASE n > 0
    <2> DEFINE flatten[i \in 1 .. n] ==
                   IF i = 1 THEN seqs[1] ELSE flatten[i - 1] \o seqs[i]
    <2>1. FlattenSeq(seqs) = flatten[n]
      <3> DEFINE flat[i \in 1 .. Len(seqs)] ==
                     IF i = 1 THEN seqs[i] ELSE flat[i - 1] \o seqs[i]
      <3>1. FlattenSeq(seqs) = flat[Len(seqs)]
        BY <1>1, <1>3 DEF FlattenSeq
      <3>2. \A g : [i \in 1 .. Len(seqs) |-> IF i = 1 THEN seqs[i] ELSE g[i - 1] \o seqs[i]]
                   = [i \in 1 .. n |-> IF i = 1 THEN seqs[1] ELSE g[i - 1] \o seqs[i]]
        BY <1>1
      <3>3. flat = flatten
        BY <3>2
      <3> HIDE DEF flat, flatten
      <3>4. QED
        BY <1>1, <3>1, <3>3
    <2>2. FiniteNatInductiveDefHypothesis(flatten, seqs[1], LAMBDA v, i : v \o seqs[i], 1, n)
      BY DEF FiniteNatInductiveDefHypothesis
    <2> HIDE DEF flatten
    <2>3. FiniteNatInductiveDefConclusion(flatten, seqs[1], LAMBDA v, i : v \o seqs[i], 1, n)
      BY <2>2, FiniteNatInductiveDef
    <2>4. seqs[1] \in Seq(S)
      BY <1>3
    <2>5. flatten = [i \in 1 .. n |-> IF i = 1 THEN seqs[1] ELSE flatten[i - 1] \o seqs[i]]
      BY <2>3 DEF FiniteNatInductiveDefConclusion
    <2> DEFINE T == {i \in 0 .. n - 1 : flatten[i + 1] \in Seq(S)}
    <2>6. 0 \in T
      BY <1>3, <2>4, <2>5
    <2>7. ASSUME NEW i \in 0 .. (n - 1) - 1, i \in T PROVE i + 1 \in T
      <3>1. i + 2 \in 1 .. n /\ i + 2 # 1 /\ (i + 2) - 1 = i + 1 /\ i + 1 \in 0 .. n - 1
            /\ (i + 1) + 1 = i + 2
        OBVIOUS
      <3>2. flatten[i + 2] = flatten[i + 1] \o seqs[i + 2]
        BY <2>5, <3>1
      <3>3. flatten[i + 1] \in Seq(S) /\ seqs[i + 2] \in Seq(S)
        BY <2>7, <3>1
      <3>4. flatten[i + 2] \in Seq(S)
        BY <3>2, <3>3
      <3>5. QED
        BY <3>1, <3>4
    <2>8. n - 1 \in Nat /\ n - 1 \in 0 .. n - 1 /\ (n - 1) + 1 = n
      BY <1>3
    <2> HIDE DEF T
    <2>9. \A i \in 0 .. n - 1 : i \in T
      BY <2>6, <2>7, <2>8, Induction
    <2>10. flatten[(n - 1) + 1] \in Seq(S)
      BY <2>8, <2>9 DEF T
    <2>11. QED
      BY <2>1, <2>8, <2>10
  <1>4. QED
    BY <1>2, <1>3

\* A scan finds tokens inside the one it is given.
LEMMA ScanType ==
    ASSUME NEW doc, Tokenized(doc), NEW k \in DOMAIN doc.tokens, NEW ends
    PROVE  Scan(doc.tokens, k, ends) \in Seq(DOMAIN doc.tokens)
  <1> DEFINE tokens == doc.tokens
             D == DOMAIN tokens
  <1>1. PICK n \in Nat : /\ n = Cardinality(Within(tokens, k))
                         /\ Within(tokens, k) = k + 1 .. k + n
                         /\ k + n <= Len(tokens)
    BY WithinIsInterval
  <1>2. n = Cardinality(Within(tokens, k))
    BY <1>1
  <1>3. D = 1 .. Len(tokens) /\ Len(tokens) \in Nat
    BY DEF Tokenized
  <1> HIDE DEF tokens
  <1>4. PICK g : /\ g[0] = [end |-> tokens[k].start, elements |-> << >>]
                 /\ \A i \in 1 .. n : g[i] = ScanStep(tokens, k, ends, g[i - 1], i)
                 /\ Scan(tokens, k, ends) = g[n].elements
    BY ONLY <1>2, n \in Nat, ScanIsRun
  <1>5. \A i \in 1 .. n : k + i \in D
    <2>1. k \in Nat
      BY <1>3 DEF tokens
    <2>2. QED
      BY <1>1, <1>3, <2>1
  <1> HIDE DEF D
  <1> DEFINE S == {i \in 0 .. n : g[i].elements \in Seq(D)}
  <1>6. 0 \in S
    <2>1. g[0].elements = << >> /\ << >> \in Seq(D) /\ 0 \in 0 .. n
      BY <1>4
    <2>2. QED
      BY <2>1
  <1>7. ASSUME NEW i \in 0 .. n - 1, i \in S PROVE i + 1 \in S
    <2>1. i + 1 \in 1 .. n /\ (i + 1) - 1 = i /\ i + 1 \in 0 .. n
      OBVIOUS
    <2>2. g[i + 1] = ScanStep(tokens, k, ends, g[i], i + 1)
      BY <1>4, <2>1
    <2>3. g[i].elements \in Seq(D) /\ k + (i + 1) \in D
      BY <1>5, <1>7, <2>1
    <2>4. g[i + 1].elements \in Seq(D)
      <3>1. CASE tokens[k + (i + 1)].start <= g[i].end
        BY <2>2, <2>3, <3>1 DEF ScanStep
      <3>2. CASE ~(tokens[k + (i + 1)].start <= g[i].end)
        <4>1. g[i + 1].elements = Append(g[i].elements, k + (i + 1))
          BY <2>2, <3>2 DEF ScanStep
        <4>2. QED
          BY <2>3, <4>1
      <3>3. QED
        BY <3>1, <3>2
    <2>5. QED
      BY <2>1, <2>4
  <1> HIDE DEF S
  <1>8. \A i \in 0 .. n : i \in S
    BY <1>6, <1>7, Induction
  <1>9. n \in S
    BY <1>8
  <1>10. QED
    BY <1>4, <1>9 DEF S, D, tokens


PlacesOf(tokens, root) ==
    {at \in Places(tokens, root) : Len(at.key) > 0 /\ at.key[1] = root}

\* The key that was found has its value behind it.
LEMMA ValueIsToken ==
    ASSUME NEW doc, Tokenized(doc), InGrammar(doc),
           NEW k \in DOMAIN doc.tokens, doc.tokens[k].type = "JSMN_OBJECT"
    PROVE  /\ object_keys(doc.tokens, k) \in Seq(Nat)
           /\ \A a \in 1 .. Len(object_keys(doc.tokens, k)) :
                 LET key == object_keys(doc.tokens, k)[a]
                 IN  key \in DOMAIN doc.tokens /\ key + 1 \in DOMAIN doc.tokens
  <1> DEFINE keys == object_keys(doc.tokens, k)
  <1>1. keys \in Seq(Nat)
        /\ {keys[a] : a \in 1 .. Len(keys)} = KeyChildren(doc.tokens, k)
    BY KeysOfObject
  <1>2. \A c \in KeyChildren(doc.tokens, k) :
           c \in DOMAIN doc.tokens /\ c + 1 \in DOMAIN doc.tokens
    <2>1. \A c \in KeyChildren(doc.tokens, k) :
             c \in Children(doc.tokens, k) /\ c + 1 \in Children(doc.tokens, k)
      BY DEF InGrammar, Paired, KeyChildren
    <2>2. Children(doc.tokens, k) \subseteq DOMAIN doc.tokens
      BY DEF Children
    <2>3. QED
      BY <2>1, <2>2
  <1> HIDE DEF keys
  <1>3. \A a \in 1 .. Len(keys) : keys[a] \in KeyChildren(doc.tokens, k)
    BY <1>1
  <1>4. QED
    BY <1>1, <1>2, <1>3 DEF keys

\* Below a place are places.
LEMMA BelowType ==
    ASSUME NEW doc, Tokenized(doc), InGrammar(doc), NEW root,
           NEW at \in PlacesOf(doc.tokens, root)
    PROVE  Below(doc.tokens, at) \in Seq(PlacesOf(doc.tokens, root))
  <1> DEFINE tokens == doc.tokens
             words == {root} \cup {tokens[k].text : k \in DOMAIN tokens}
             P == PlacesOf(tokens, root)
             t == at.token
             keys == object_keys(tokens, t)
  <1>1. /\ t \in DOMAIN tokens /\ at.key \in Seq(words) /\ Len(at.key) > 0 /\ at.key[1] = root
    BY DEF PlacesOf, Places
  <1>2. ASSUME NEW k \in DOMAIN tokens, NEW key \in Seq(words), Len(key) > 0, key[1] = root
        PROVE  [token |-> k, key |-> key] \in P
    BY <1>2 DEF PlacesOf, Places
  <1> HIDE DEF P
  <1>3. CASE tokens[t].type = "JSMN_OBJECT"
    <2> DEFINE place(k) == [token |-> k + 1, key |-> Append(at.key, tokens[k].text)]
    <2>1. Below(tokens, at) = [a \in DOMAIN keys |-> place(keys[a])]
      BY <1>3 DEF Below, Each
    <2>2. /\ keys \in Seq(Nat)
          /\ \A a \in 1 .. Len(keys) : keys[a] \in DOMAIN tokens /\ keys[a] + 1 \in DOMAIN tokens
      BY <1>1, <1>3, ValueIsToken
    <2> HIDE DEF keys
    <2>3. ASSUME NEW a \in 1 .. Len(keys) PROVE place(keys[a]) \in P
      <3>1. keys[a] \in DOMAIN tokens /\ keys[a] + 1 \in DOMAIN tokens
        BY <2>2
      <3>2. tokens[keys[a]].text \in words
        BY <3>1
      <3> DEFINE key == Append(at.key, tokens[keys[a]].text)
      <3> HIDE DEF words
      <3>3. key \in Seq(words) /\ Len(key) > 0 /\ key[1] = root
        BY <1>1, <3>2
      <3> HIDE DEF key
      <3>4. [token |-> keys[a] + 1, key |-> key] \in P
        BY <1>2, <3>1, <3>3 DEF words
      <3>5. QED
        BY <3>4 DEF key
    <2> HIDE DEF place
    <2>4. [a \in 1 .. Len(keys) |-> place(keys[a])] \in [1 .. Len(keys) -> P]
      BY <2>3
    <2>5. DOMAIN keys = 1 .. Len(keys) /\ Len(keys) \in Nat
      BY <2>2
    <2>6. [a \in 1 .. Len(keys) |-> place(keys[a])] \in Seq(P)
      BY <2>4, <2>5
    <2>7. QED
      BY <2>1, <2>5, <2>6 DEF P
  <1>4. CASE tokens[t].type # "JSMN_OBJECT"
    <2> DEFINE n == Len(keys)
               elements == array_elements(tokens, t)
               some == AtMost(elements, n)
    <2>1. Below(tokens, at) = [a \in DOMAIN some |-> [token |-> some[a], key |-> at.key]]
      BY <1>4 DEF Below, Each
    <2>2. elements \in Seq(DOMAIN tokens)
      BY <1>1, ScanType DEF array_elements
    <2>3. n \in Nat
      <3>1. keys \in Seq(DOMAIN tokens)
        BY <1>1, ScanType DEF object_keys
      <3> HIDE DEF keys
      <3>2. QED
        BY <3>1
    <2> HIDE DEF elements, n
    <2>4. some \in Seq(DOMAIN tokens)
      <3> DEFINE D == DOMAIN tokens
                 m == IF n < Len(elements) THEN n ELSE Len(elements)
      <3>1. some = SubSeq(elements, 1, m)
        BY DEF AtMost
      <3>2. elements \in Seq(D) /\ m \in Nat /\ m <= Len(elements)
        BY <2>2, <2>3
      <3> HIDE DEF m, some, D
      <3>3. SubSeq(elements, 1, m) \in Seq(D)
        BY <3>2
      <3>4. QED
        BY <3>1, <3>3 DEF D
    <2> HIDE DEF some
    <2>5. ASSUME NEW a \in 1 .. Len(some) PROVE [token |-> some[a], key |-> at.key] \in P
      <3>1. some[a] \in DOMAIN tokens
        BY <2>4
      <3>2. QED
        BY <1>1, <1>2, <3>1
    <2>6. DOMAIN some = 1 .. Len(some) /\ Len(some) \in Nat
      BY <2>4
    <2>7. [a \in 1 .. Len(some) |-> [token |-> some[a], key |-> at.key]] \in Seq(P)
      BY <2>5, <2>6
    <2>8. QED
      BY <2>1, <2>6, <2>7 DEF P
  <1>5. QED
    BY <1>3, <1>4

\* The leaves of a root field are values of the document, below that field.
LEMMA LeavesType ==
    ASSUME NEW doc, Tokenized(doc), InGrammar(doc), NEW root,
           NEW t \in DOMAIN doc.tokens, NEW maxLevel \in 0 .. 3
    PROVE  /\ Leaves(doc.tokens, t, root, maxLevel) \in Seq(PlacesOf(doc.tokens, root))
           /\ IsFlat(doc.tokens, t) => Len(Leaves(doc.tokens, t, root, maxLevel)) = 1
  <1> DEFINE tokens == doc.tokens
             places == Places(tokens, root)
             P == PlacesOf(tokens, root)
             Walk(w, depth) == [level \in 0 .. 3 |-> [at \in places |->
                     IF level = 0 \/ IsFlat(tokens, at.token) THEN << at >>
                     ELSE FlattenSeq(Each(Below(tokens, at), LAMBDA v :
                              w[LevelBelow(tokens, at.token, level)][v]))]]
             first == [level \in 0 .. 3 |-> [at \in places |-> << at >>]]
             walk[depth \in 0 .. MAX_RECURSION_DEPTH] ==
                 IF depth = 0 THEN first ELSE Walk(walk[depth - 1], depth)
             at1 == [token |-> t, key |-> << root >>]
  <1>1. Leaves(tokens, t, root, maxLevel) = walk[MAX_RECURSION_DEPTH][maxLevel][at1]
    BY DEF Leaves
  <1>2. FiniteNatInductiveDefHypothesis(walk, first, Walk, 0, MAX_RECURSION_DEPTH)
    BY DEF FiniteNatInductiveDefHypothesis
  <1>3. MAX_RECURSION_DEPTH = 6
    BY DEF MAX_RECURSION_DEPTH
  <1> HIDE DEF walk, Walk, first
  <1>4. FiniteNatInductiveDefConclusion(walk, first, Walk, 0, MAX_RECURSION_DEPTH)
    BY <1>2, <1>3, FiniteNatInductiveDef
  <1>5. walk = [depth \in 0 .. 6 |-> IF depth = 0 THEN first ELSE Walk(walk[depth - 1], depth)]
    BY <1>3, <1>4 DEF FiniteNatInductiveDefConclusion
  <1>6. P \subseteq places
    BY DEF PlacesOf
  <1> HIDE DEF P, places
  <1> DEFINE Typed(w) == \A level \in 0 .. 3 : \A at \in P : w[level][at] \in Seq(P)
             S == {d \in 0 .. 6 : Typed(walk[d])}
  <1>7. 0 \in S
    <2>1. walk[0] = first
      BY <1>5
    <2>2. ASSUME NEW level \in 0 .. 3, NEW at \in P PROVE first[level][at] \in Seq(P)
      <3>1. first[level] = [a \in places |-> << a >>]
        BY DEF first
      <3>2. first[level][at] = << at >>
        BY <1>6, <3>1
      <3>3. QED
        BY <3>2
    <2>3. Typed(first)
      BY <2>2
    <2> HIDE DEF Typed
    <2>4. QED
      BY <2>1, <2>3
  <1>8. ASSUME NEW w, Typed(w), NEW d \in 1 .. 6 PROVE Typed(Walk(w, d))
    <2>1. SUFFICES ASSUME NEW level \in 0 .. 3, NEW at \in P
                   PROVE  Walk(w, d)[level][at] \in Seq(P)
      OBVIOUS
    <2> DEFINE lower == LevelBelow(tokens, at.token, level)
               below == Below(tokens, at)
               pieces == Each(below, LAMBDA v : w[lower][v])
    <2>2. Walk(w, d)[level] = [a \in places |->
                     IF level = 0 \/ IsFlat(tokens, a.token) THEN << a >>
                     ELSE FlattenSeq(Each(Below(tokens, a), LAMBDA v :
                              w[LevelBelow(tokens, a.token, level)][v]))]
      BY DEF Walk
    <2>3. Walk(w, d)[level][at] =
             IF level = 0 \/ IsFlat(tokens, at.token) THEN << at >> ELSE FlattenSeq(pieces)
      <3>1. at \in places
        BY <1>6
      <3>2. QED
        BY <2>2, <3>1
    <2>4. CASE level = 0 \/ IsFlat(tokens, at.token)
      <3>1. Walk(w, d)[level][at] = << at >>
        BY <2>3, <2>4
      <3>2. QED
        BY <3>1
    <2>5. CASE ~(level = 0 \/ IsFlat(tokens, at.token))
      <3>1. Walk(w, d)[level][at] = FlattenSeq(pieces)
        BY <2>3, <2>5
      <3>2. lower \in 0 .. 3
        BY <2>5 DEF LevelBelow
      <3>3. below \in Seq(P)
        BY BelowType DEF P
      <3> HIDE DEF lower, below
      <3>4. pieces = [i \in DOMAIN below |-> w[lower][below[i]]]
        BY DEF Each
      <3> HIDE DEF pieces
      <3>5. Len(below) \in Nat /\ DOMAIN below = 1 .. Len(below)
            /\ \A i \in 1 .. Len(below) : below[i] \in P
        BY <3>3
      <3>6. \A i \in 1 .. Len(below) : w[lower][below[i]] \in Seq(P)
        BY <1>8, <3>2, <3>5
      <3>7. pieces \in [1 .. Len(below) -> Seq(P)]
        BY <3>4, <3>5, <3>6
      <3>8. FlattenSeq(pieces) \in Seq(P)
        BY <3>5, <3>7, FlattenType
      <3>9. QED
        BY <3>1, <3>8
    <2>6. QED
      BY <2>4, <2>5
  <1> HIDE DEF Typed
  <1>9. ASSUME NEW d \in 0 .. 6 - 1, d \in S PROVE d + 1 \in S
    <2>1. d + 1 \in 0 .. 6 /\ d + 1 \in 1 .. 6 /\ d + 1 # 0 /\ (d + 1) - 1 = d
      OBVIOUS
    <2>2. walk[d + 1] = Walk(walk[d], d + 1)
      BY <1>5, <2>1
    <2>3. Typed(walk[d])
      BY <1>9
    <2>4. Typed(Walk(walk[d], d + 1))
      BY <1>8, <2>1, <2>3
    <2>5. QED
      BY <2>1, <2>2, <2>4
  <1> HIDE DEF S
  <1>10. \A d \in 0 .. 6 : d \in S
    BY <1>7, <1>9, Induction
  <1>11. Typed(walk[6])
    BY <1>10 DEF S
  <1>12. at1 \in P
    <2> DEFINE words == {root} \cup {tokens[k].text : k \in DOMAIN tokens}
    <2>1. root \in words
      OBVIOUS
    <2> HIDE DEF words
    <2>2. << root >> \in Seq(words) /\ Len(<< root >>) = 1 /\ << root >>[1] = root
      BY <2>1
    <2>3. at1 \in places
      BY <2>2 DEF places, Places, words
    <2>4. QED
      BY <2>2, <2>3 DEF P, PlacesOf, places
  <1>13. ASSUME IsFlat(tokens, t) PROVE walk[6][maxLevel][at1] = << at1 >>
    <2>1. walk[6] = Walk(walk[5], 6)
      BY <1>5
    <2>2. walk[6][maxLevel] = [a \in places |->
                     IF maxLevel = 0 \/ IsFlat(tokens, a.token) THEN << a >>
                     ELSE FlattenSeq(Each(Below(tokens, a), LAMBDA v :
                              walk[5][LevelBelow(tokens, a.token, maxLevel)][v]))]
      BY <2>1 DEF Walk
    <2>3. at1 \in places /\ IsFlat(tokens, at1.token)
      BY <1>6, <1>12, <1>13
    <2> HIDE DEF at1
    <2>4. QED
      BY <2>2, <2>3
  <1>14. Len(<< at1 >>) = 1
    OBVIOUS
  <1> HIDE DEF at1
  <1>15. QED
    BY <1>1, <1>3, <1>11, <1>12, <1>13, <1>14 DEF Typed, P

\* A group of repeated fields, and what the counting knows of a document: a
\* root field that the document does not have has no items.
IsGroup(group) ==
    \E text : \E on \in BOOLEAN, count \in 0 .. U8 - 1, idx \in Nat :
        group = [on |-> on, count |-> count, idx |-> idx, text |-> text]

IsCount(doc, count) ==
    \E types, froms : \E subitems \in [Range(RootItems) -> 0 .. U8 - 1],
                         deep \in BOOLEAN, done \in BOOLEAN :
        /\ IsGroup(types) /\ IsGroup(froms)
        /\ \A root \in Range(RootItems) : RootToken(doc, root) = 0 => subitems[root] = 0
        /\ count = [subitems |-> subitems, deep |-> deep, done |-> done,
                    types |-> types, froms |-> froms]

\* One more field for a group.
LEMMA GroupedType ==
    ASSUME NEW group, IsGroup(group), NEW i \in Nat, NEW text
    PROVE  IsGroup(Grouped(group, i, text))
  <1>1. PICK old : \E on \in BOOLEAN, count \in 0 .. U8 - 1, idx \in Nat :
           group = [on |-> on, count |-> count, idx |-> idx, text |-> old]
    BY DEF IsGroup
  <1>2. PICK on \in BOOLEAN, count \in 0 .. U8 - 1, idx \in Nat :
           group = [on |-> on, count |-> count, idx |-> idx, text |-> old]
    BY <1>1
  <1>3. /\ 1 \in 0 .. U8 - 1 /\ (count + 1) % U8 \in 0 .. U8 - 1
    BY DEF U8
  <1>4. CASE ~group.on
    BY <1>4 DEF Grouped
  <1>5. CASE group.on /\ group.count = 0
    <2>1. Grouped(group, i, text) = [on |-> on, count |-> 1, idx |-> i, text |-> text]
      BY <1>2, <1>5 DEF Grouped
    <2>2. QED
      BY <1>3, <2>1 DEF IsGroup
  <1>6. CASE group.on /\ group.count # 0 /\ text = group.text
    <2>1. Grouped(group, i, text)
             = [on |-> on, count |-> (count + 1) % U8, idx |-> idx, text |-> old]
      BY <1>2, <1>6 DEF Grouped
    <2>2. QED
      BY <1>3, <2>1 DEF IsGroup
  <1>7. CASE group.on /\ group.count # 0 /\ text # group.text
    <2>1. Grouped(group, i, text) = [on |-> FALSE, count |-> 1, idx |-> idx, text |-> old]
      BY <1>2, <1>7 DEF Grouped
    <2>2. QED
      BY <1>3, <2>1 DEF IsGroup
  <1>8. QED
    BY <1>4, <1>5, <1>6, <1>7

\* One more leaf: the counts stay what they are, and the depth follows the text.
LEMMA CountTextType ==
    ASSUME NEW doc, NEW count, IsCount(doc, count), NEW root \in Range(RootItems),
           RootToken(doc, root) # 0, NEW i \in Nat, NEW key, NEW text
    PROVE  LET next == CountText(root, count, i, key, text)
           IN  /\ IsCount(doc, next)
               /\ next.deep = DeepAfter(count.deep, text)
               /\ next.done => count.done \/ (root = "memo" /\ text = Word(""))
  <1> DEFINE next == CountText(root, count, i, key, text)
             Roots == Range(RootItems)
             after == DeepAfter(count.deep, text)
  <1>1. PICK types, froms : \E subitems \in [Roots -> 0 .. U8 - 1],
                         deep \in BOOLEAN, done \in BOOLEAN :
           /\ IsGroup(types) /\ IsGroup(froms)
           /\ \A r \in Roots : RootToken(doc, r) = 0 => subitems[r] = 0
           /\ count = [subitems |-> subitems, deep |-> deep, done |-> done,
                       types |-> types, froms |-> froms]
    BY DEF IsCount
  <1>2. PICK subitems \in [Roots -> 0 .. U8 - 1], deep \in BOOLEAN, done \in BOOLEAN :
           /\ IsGroup(types) /\ IsGroup(froms)
           /\ \A r \in Roots : RootToken(doc, r) = 0 => subitems[r] = 0
           /\ count = [subitems |-> subitems, deep |-> deep, done |-> done,
                       types |-> types, froms |-> froms]
    BY <1>1
  <1>3. after \in BOOLEAN
    BY DEF DeepAfter
  <1> HIDE DEF Roots, after
  <1> DEFINE seen == [count EXCEPT !.deep = after]
  <1>4. seen = [subitems |-> subitems, deep |-> after, done |-> done,
                types |-> types, froms |-> froms]
    BY <1>2
  <1>5. next = IF root = "memo" /\ text = Word("") THEN [seen EXCEPT !.done = TRUE]
               ELSE [seen EXCEPT
                        !.subitems[root] = (@ + 1) % U8,
                        !.types = IF key = TypeKey THEN Grouped(@, i, Substituted(text)) ELSE @,
                        !.froms = IF key = FromKey THEN Grouped(@, i, Substituted(text)) ELSE @]
    BY DEF CountText, after
  <1> HIDE DEF seen, next
  <1>6. CASE root = "memo" /\ text = Word("")
    <2>1. next = [subitems |-> subitems, deep |-> after, done |-> TRUE,
                  types |-> types, froms |-> froms]
      BY <1>4, <1>5, <1>6
    <2>2. IsCount(doc, next)
      BY <1>2, <1>3, <2>1 DEF IsCount, Roots
    <2>3. next.deep = after
      BY <2>1
    <2>4. QED
      BY <1>6, <2>2, <2>3 DEF next, after
  <1>7. CASE ~(root = "memo" /\ text = Word(""))
    <2> DEFINE types2 == IF key = TypeKey THEN Grouped(types, i, Substituted(text)) ELSE types
               froms2 == IF key = FromKey THEN Grouped(froms, i, Substituted(text)) ELSE froms
               subitems2 == [subitems EXCEPT ![root] = (@ + 1) % U8]
    <2>1. next = [subitems |-> subitems2, deep |-> after, done |-> done,
                  types |-> types2, froms |-> froms2]
      BY <1>4, <1>5, <1>7
    <2>2. IsGroup(types2) /\ IsGroup(froms2)
      BY <1>2, GroupedType
    <2>3. (subitems[root] + 1) % U8 \in 0 .. U8 - 1
      <3>1. subitems[root] \in 0 .. U8 - 1
        BY DEF Roots
      <3>2. QED
        BY <3>1 DEF U8
    <2>4. /\ subitems2 \in [Roots -> 0 .. U8 - 1]
          /\ \A r \in Roots : RootToken(doc, r) = 0 => subitems2[r] = 0
      BY <1>2, <2>3
    <2> HIDE DEF types2, froms2, subitems2
    <2>5. IsCount(doc, next)
      BY <1>2, <1>3, <2>1, <2>2, <2>4 DEF IsCount, Roots
    <2>6. next.deep = after /\ next.done = done /\ count.done = done
      BY <1>2, <2>1
    <2>7. QED
      BY <2>5, <2>6 DEF next, after
  <1>8. QED
    BY <1>6, <1>7

\* What a step of the loop does to the counts and the depth, and when it ends
\* the loop.
CountsOn(doc, root, count, i, leaves) ==
    LET next == CountNext(doc, root, count, i, leaves)
        text == Text(doc.tokens, leaves[i].token)
        over == count.done \/ i > Len(leaves)
    IN  /\ IsCount(doc, next)
        /\ over => next.deep = count.deep
        /\ ~over => next.deep = DeepAfter(count.deep, text)
        /\ next.done => over \/ (root = "memo" /\ text = Word(""))

\* One more step of the count.
LEMMA CountNextType ==
    ASSUME NEW doc, NEW count, IsCount(doc, count), NEW root \in Range(RootItems),
           RootToken(doc, root) # 0, NEW i \in Nat, NEW leaves
    PROVE  CountsOn(doc, root, count, i, leaves)
  <1> DEFINE next == CountNext(doc, root, count, i, leaves)
             text == Text(doc.tokens, leaves[i].token)
             over == count.done \/ i > Len(leaves)
  <1>1. CASE over
    <2>1. next = [count EXCEPT !.done = TRUE]
      BY <1>1 DEF CountNext
    <2>2. PICK types, froms : \E subitems \in [Range(RootItems) -> 0 .. U8 - 1],
                         deep \in BOOLEAN, done \in BOOLEAN :
           /\ IsGroup(types) /\ IsGroup(froms)
           /\ \A r \in Range(RootItems) : RootToken(doc, r) = 0 => subitems[r] = 0
           /\ count = [subitems |-> subitems, deep |-> deep, done |-> done,
                       types |-> types, froms |-> froms]
      BY DEF IsCount
    <2>3. PICK subitems \in [Range(RootItems) -> 0 .. U8 - 1], deep \in BOOLEAN, done \in BOOLEAN :
           /\ IsGroup(types) /\ IsGroup(froms)
           /\ \A r \in Range(RootItems) : RootToken(doc, r) = 0 => subitems[r] = 0
           /\ count = [subitems |-> subitems, deep |-> deep, done |-> done,
                       types |-> types, froms |-> froms]
      BY <2>2
    <2> HIDE DEF next, over
    <2>4. next = [subitems |-> subitems, deep |-> deep, done |-> TRUE,
                  types |-> types, froms |-> froms]
      BY <2>1, <2>3
    <2>5. IsCount(doc, next)
      BY <2>3, <2>4 DEF IsCount
    <2>6. next.deep = count.deep
      BY <2>3, <2>4
    <2>7. QED
      BY <1>1, <2>5, <2>6 DEF next, over, CountsOn
  <1>2. CASE ~over
    <2>1. next = CountText(root, count, i, leaves[i].key, text)
      BY <1>2 DEF CountNext
    <2> HIDE DEF text
    <2>2. LET n == CountText(root, count, i, leaves[i].key, text)
          IN  /\ IsCount(doc, n)
              /\ n.deep = DeepAfter(count.deep, text)
              /\ n.done => count.done \/ (root = "memo" /\ text = Word(""))
      BY CountTextType
    <2> HIDE DEF next
    <2>3. QED
      BY <1>2, <2>1, <2>2 DEF next, text, CountsOn
  <1>3. QED
    BY <1>1, <1>2

\* The value of a root field that the document has.
LEMMA RootTokenType ==
    ASSUME NEW doc, Tokenized(doc), IsJson(doc), Len(doc.tokens) > 0, NEW root,
           RootToken(doc, root) # 0
    PROVE  RootToken(doc, root) \in DOMAIN doc.tokens
  <1> DEFINE tokens == doc.tokens
             keys == object_keys(tokens, ROOT_TOKEN_INDEX)
             named == {n \in DOMAIN keys : tokens[keys[n]].text = root}
  <1>1. ROOT_TOKEN_INDEX \in DOMAIN tokens /\ tokens[ROOT_TOKEN_INDEX].type = "JSMN_OBJECT"
    <2>1. DOMAIN tokens = 1 .. Len(tokens) /\ Len(tokens) \in Nat
      BY DEF Tokenized
    <2>3. QED
      BY <2>1 DEF IsJson, ROOT_TOKEN_INDEX
  <1>2. /\ keys \in Seq(Nat)
        /\ \A a \in 1 .. Len(keys) : keys[a] \in DOMAIN tokens /\ keys[a] + 1 \in DOMAIN tokens
    BY <1>1, ValueIsToken DEF IsJson
  <1> HIDE DEF keys
  <1>3. RootToken(doc, root) = ValueOf(tokens, keys, root)
    BY DEF RootToken, object_get_value, keys
  <1>4. PICK n \in DOMAIN keys : RootToken(doc, root) = 1 + keys[n]
    <2>1. \E n \in DOMAIN keys : tokens[keys[n]].text = root
      BY <1>3 DEF ValueOf
    <2>2. named # {} /\ named \subseteq Nat
      BY <1>2, <2>1
    <2>3. PICK n \in named : \A m \in named : n <= m
      BY <2>2, LeastMember
    <2> DEFINE IsFirst(x) == /\ tokens[keys[x]].text = root
                             /\ \A m \in 1 .. x - 1 : tokens[keys[m]].text # root
    <2>4. IsFirst(n)
      <3>1. n \in 1 .. Len(keys) /\ Len(keys) \in Nat
        BY <1>2
      <3>2. ASSUME NEW m \in 1 .. n - 1 PROVE tokens[keys[m]].text # root
        <4>1. m \in 1 .. Len(keys) /\ m < n
          BY <3>1
        <4>2. m \in DOMAIN keys
          BY <1>2, <4>1
        <4>3. QED
          BY <2>3, <3>1, <4>1, <4>2
      <3>3. QED
        BY <3>2
    <2>5. RootToken(doc, root) = 1 + keys[CHOOSE x \in DOMAIN keys : IsFirst(x)]
      BY <1>3, <2>1 DEF ValueOf
    <2> HIDE DEF IsFirst
    <2>6. (CHOOSE x \in DOMAIN keys : IsFirst(x)) \in DOMAIN keys
      BY <2>4
    <2>7. QED
      BY <2>5, <2>6
  <1>5. n \in 1 .. Len(keys)
    BY <1>2
  <1>6. keys[n] \in Nat
    BY <1>2, <1>5
  <1>7. QED
    BY <1>2, <1>4, <1>5, <1>6

\* The leaves of a root field the document has are places below it.
LEMMA RootLeavesType ==
    ASSUME NEW doc, Tokenized(doc), IsJson(doc), Len(doc.tokens) > 0, NEW root, NEW deep,
           RootToken(doc, root) # 0
    PROVE  /\ RootLeaves(doc, root, deep) \in Seq(PlacesOf(doc.tokens, root))
           /\ IsFlat(doc.tokens, RootToken(doc, root)) => Len(RootLeaves(doc, root, deep)) = 1
  <1>1. RootToken(doc, root) \in DOMAIN doc.tokens
    BY RootTokenType
  <1>2. get_root_max_level(root, deep) \in 0 .. 3
    BY DEF get_root_max_level
  <1>3. InGrammar(doc)
    BY DEF IsJson
  <1> DEFINE t == RootToken(doc, root)
             level == get_root_max_level(root, deep)
  <1> HIDE DEF t, level
  <1>4. t \in DOMAIN doc.tokens /\ level \in 0 .. 3
    BY <1>1, <1>2 DEF t, level
  <1>5. /\ Leaves(doc.tokens, t, root, level) \in Seq(PlacesOf(doc.tokens, root))
        /\ IsFlat(doc.tokens, t) => Len(Leaves(doc.tokens, t, root, level)) = 1
    BY <1>3, <1>4, LeavesType
  <1>6. QED
    BY <1>5 DEF RootLeaves, t, level

\* The counting of one root field, as a loop that goes past its last leaf.
CountRun(g, doc, root, count, n) ==
    LET flat == RootLeaves(doc, root, FALSE)
        deep == RootLeaves(doc, root, TRUE)
    IN  /\ g[0] = [count EXCEPT !.done = FALSE]
        /\ \A i \in 1 .. n : g[i] = CountNext(doc, root, g[i - 1], i,
                                             IF g[i - 1].deep THEN deep ELSE flat)
        /\ Len(flat) <= n
        /\ CountRoot(doc, root, count) = g[n]

\* The count is the last of a run of its steps.
LEMMA CountIsRun ==
    ASSUME NEW doc, Tokenized(doc), IsJson(doc), Len(doc.tokens) > 0,
           NEW count, NEW root, RootToken(doc, root) # 0
    PROVE  \E g : \E n \in Nat : CountRun(g, doc, root, count, n)
  <1> DEFINE flat == RootLeaves(doc, root, FALSE)
             deep == RootLeaves(doc, root, TRUE)
             start == [count EXCEPT !.done = FALSE]
             n == IF Len(flat) > Len(deep) THEN Len(flat) ELSE Len(deep)
             P == PlacesOf(doc.tokens, root)
  <1>1. flat \in Seq(P) /\ deep \in Seq(P)
    BY RootLeavesType
  <1>2. CountRoot(doc, root, count) = CountLeaves(doc, root, count, flat, deep)
    BY DEF CountRoot
  <1>3. CountLeaves(doc, root, count, flat, deep)
           = Iterate(start, n, LAMBDA c, i :
                CountNext(doc, root, c, i, IF c.deep THEN deep ELSE flat))
    BY DEF CountLeaves
  <1> HIDE DEF P, flat, deep, start
  <1>4. Len(flat) \in Nat /\ Len(deep) \in Nat
    BY <1>1
  <1>5. n \in Nat /\ Len(flat) <= n
    BY <1>4
  <1> HIDE DEF n
  <1>6. IterateRuns(start, n, LAMBDA c, i :
            CountNext(doc, root, c, i, IF c.deep THEN deep ELSE flat))
    BY <1>5, IterateIsRun
  <1>7. PICK g :
           /\ IsRun(g, start, n, LAMBDA c, i :
                  CountNext(doc, root, c, i, IF c.deep THEN deep ELSE flat))
           /\ Iterate(start, n, LAMBDA c, i :
                  CountNext(doc, root, c, i, IF c.deep THEN deep ELSE flat)) = g[n]
    BY <1>6 DEF IterateRuns
  <1>8. /\ g[0] = start
        /\ \A i \in 1 .. n : g[i] = CountNext(doc, root, g[i - 1], i,
                                             IF g[i - 1].deep THEN deep ELSE flat)
    BY <1>7 DEF IsRun
  <1>9. CountRoot(doc, root, count) = g[n]
    BY <1>2, <1>3, <1>7
  <1>10. CountRun(g, doc, root, count, n)
    BY <1>5, <1>8, <1>9 DEF CountRun, flat, deep, start
  <1>11. QED
    BY <1>5, <1>10

-----------------------------------------------------------------------------


\* What the counting of one root field does: the depth stays as it is, or it
\* only grows; it stays FALSE only when no leaf asks for more.
CountsRoot(doc, root, count) ==
    LET next == CountRoot(doc, root, count)
        flat == RootLeaves(doc, root, FALSE)
    IN  /\ IsCount(doc, next)
        /\ Never(doc, MsgMultiSend) /\ ~count.deep => ~next.deep
        /\ /\ Never(doc, MsgExecuteContract) /\ ~next.deep
           /\ root = "memo" => IsFlat(doc.tokens, RootToken(doc, root))
           => /\ ~count.deep
              /\ RootToken(doc, root) # 0 => \A j \in 1 .. Len(flat) :
                    Text(doc.tokens, flat[j].token) # MsgMultiSend

\* The count of one root field is as described.
LEMMA CountRootType ==
    ASSUME NEW doc, Tokenized(doc), IsJson(doc), Len(doc.tokens) > 0,
           NEW count, IsCount(doc, count), NEW root \in Range(RootItems)
    PROVE  CountsRoot(doc, root, count)
  <1> DEFINE tokens == doc.tokens
             flat == RootLeaves(doc, root, FALSE)
             deep == RootLeaves(doc, root, TRUE)
             next == CountRoot(doc, root, count)
             text(leaf) == Text(tokens, leaf.token)
  <1>1. CASE RootToken(doc, root) = 0
    <2>1. next = count
      BY <1>1 DEF CountRoot
    <2> HIDE DEF next
    <2>2. QED
      BY <1>1, <2>1 DEF next, CountsRoot
  <1>2. CASE RootToken(doc, root) # 0
    <2> DEFINE short == root = "memo" => IsFlat(tokens, RootToken(doc, root))
               P == PlacesOf(tokens, root)
    <2>1. flat \in Seq(P) /\ deep \in Seq(P) /\ (root = "memo" /\ short => Len(flat) = 1)
      BY <1>2, RootLeavesType
    <2>2. PICK g : \E n \in Nat : CountRun(g, doc, root, count, n)
      BY <1>2, CountIsRun
    <2>3. PICK n \in Nat : CountRun(g, doc, root, count, n)
      BY <2>2
    <2>4. /\ g[0] = [count EXCEPT !.done = FALSE]
          /\ \A i \in 1 .. n : g[i] = CountNext(doc, root, g[i - 1], i,
                                                IF g[i - 1].deep THEN deep ELSE flat)
          /\ Len(flat) <= n
          /\ next = g[n]
      BY <2>3 DEF CountRun
    <2>5. \A leaf \in P : leaf.token \in DOMAIN tokens
      BY DEF PlacesOf, Places
    <2>6. \A leaf \in P : /\ Never(doc, MsgMultiSend) => text(leaf) # MsgMultiSend
                          /\ Never(doc, MsgExecuteContract) => text(leaf) # MsgExecuteContract
      BY <2>5 DEF Never
    <2>7. MsgMultiSend # Word("")
      BY DEF MsgMultiSend, Word
    <2> HIDE DEF P, flat, deep, next, text, short
    <2>8. Len(flat) \in Nat /\ Len(deep) \in Nat
      BY <2>1
    <2> DEFINE Seen(i) == /\ ~count.deep
                          /\ g[i].done => Len(flat) <= i
                          /\ \A j \in 1 .. i : j <= Len(flat) => text(flat[j]) # MsgMultiSend
               Good(i) == /\ IsCount(doc, g[i])
                          /\ Never(doc, MsgMultiSend) /\ ~count.deep => ~g[i].deep
                          /\ Never(doc, MsgExecuteContract) /\ short /\ ~g[i].deep => Seen(i)
               S == {i \in 0 .. n : Good(i)}
    <2>9. 0 \in S
      <3>1. IsCount(doc, g[0]) /\ g[0].deep = count.deep /\ ~g[0].done
        <4>1. PICK types, froms : \E subitems \in [Range(RootItems) -> 0 .. U8 - 1],
                         depth \in BOOLEAN, done \in BOOLEAN :
               /\ IsGroup(types) /\ IsGroup(froms)
               /\ \A r \in Range(RootItems) : RootToken(doc, r) = 0 => subitems[r] = 0
               /\ count = [subitems |-> subitems, deep |-> depth, done |-> done,
                           types |-> types, froms |-> froms]
          BY DEF IsCount
        <4>2. PICK subitems \in [Range(RootItems) -> 0 .. U8 - 1],
                   depth \in BOOLEAN, done \in BOOLEAN :
               /\ IsGroup(types) /\ IsGroup(froms)
               /\ \A r \in Range(RootItems) : RootToken(doc, r) = 0 => subitems[r] = 0
               /\ count = [subitems |-> subitems, deep |-> depth, done |-> done,
                           types |-> types, froms |-> froms]
          BY <4>1
        <4>3. g[0] = [subitems |-> subitems, deep |-> depth, done |-> FALSE,
                      types |-> types, froms |-> froms]
          BY <2>4, <4>2
        <4>4. \A b \in BOOLEAN :
                 IsCount(doc, [subitems |-> subitems, deep |-> depth, done |-> b,
                               types |-> types, froms |-> froms])
          BY <4>2 DEF IsCount
        <4>5. IsCount(doc, g[0])
          BY <4>3, <4>4
        <4>6. QED
          BY <4>2, <4>3, <4>5
      <3>2. 0 \in 0 .. n /\ 1 .. 0 = {}
        OBVIOUS
      <3>3. QED
        BY <3>1, <3>2
    <2>10. ASSUME NEW i \in 0 .. n - 1, i \in S PROVE i + 1 \in S
      <3> DEFINE leaves == IF g[i].deep THEN deep ELSE flat
                 over == g[i].done \/ i + 1 > Len(leaves)
      <3>1. i \in Nat /\ i + 1 \in 1 .. n /\ i + 1 \in 0 .. n /\ (i + 1) - 1 = i /\ i + 1 \in Nat
        OBVIOUS
      <3>2. g[i + 1] = CountNext(doc, root, g[i], i + 1, leaves)
        BY <2>4, <3>1
      <3>3. Good(i)
        BY <2>10
      <3>4. leaves \in Seq(P)
        BY <2>1
      <3> HIDE DEF leaves
      <3>5. /\ IsCount(doc, g[i + 1])
            /\ over => g[i + 1].deep = g[i].deep
            /\ ~over => g[i + 1].deep = DeepAfter(g[i].deep, text(leaves[i + 1]))
            /\ g[i + 1].done => over \/ (root = "memo" /\ text(leaves[i + 1]) = Word(""))
        <4>1. IsCount(doc, g[i])
          BY <3>3
        <4>2. CountsOn(doc, root, g[i], i + 1, leaves)
          BY <1>2, <3>1, <4>1, CountNextType
        <4>3. QED
          BY <3>2, <4>2 DEF text, CountsOn
      <3>6. ~over => leaves[i + 1] \in P
        BY <3>1, <3>4
      <3>7. ASSUME Never(doc, MsgMultiSend), ~count.deep PROVE ~g[i + 1].deep
        <4>1. ~g[i].deep
          BY <3>3, <3>7
        <4>2. CASE over
          BY <3>5, <4>1, <4>2
        <4>3. CASE ~over
          <5>1. text(leaves[i + 1]) # MsgMultiSend
            BY <2>6, <3>6, <3>7, <4>3
          <5>2. ~DeepAfter(g[i].deep, text(leaves[i + 1]))
            BY <4>1, <5>1 DEF DeepAfter
          <5>3. QED
            BY <3>5, <4>3, <5>2
        <4>4. QED
          BY <4>2, <4>3
      <3>8. ASSUME Never(doc, MsgExecuteContract), short, ~g[i + 1].deep PROVE Seen(i + 1)
        <4>1. ~g[i].deep /\ (~over => text(leaves[i + 1]) # MsgMultiSend)
          <5>1. CASE over
            BY <3>5, <3>8, <5>1
          <5>2. CASE ~over
            <6>1. text(leaves[i + 1]) # MsgExecuteContract
              BY <2>6, <3>6, <3>8, <5>2
            <6>2. ~DeepAfter(g[i].deep, text(leaves[i + 1]))
              BY <3>5, <3>8, <5>2
            <6>3. QED
              BY <6>1, <6>2 DEF DeepAfter
          <5>3. QED
            BY <5>1, <5>2
        <4>2. Seen(i)
          BY <3>3, <3>8, <4>1
        <4>3. leaves = flat
          BY <4>1 DEF leaves
        <4>4. g[i + 1].done => Len(flat) <= i + 1
          <5>1. SUFFICES ASSUME g[i + 1].done PROVE Len(flat) <= i + 1
            OBVIOUS
          <5>2. CASE over
            BY <2>8, <3>1, <4>2, <4>3, <5>2
          <5>3. CASE ~over
            <6>1. root = "memo"
              BY <3>5, <5>1, <5>3
            <6>2. Len(flat) = 1
              BY <2>1, <3>8, <6>1
            <6>3. QED
              BY <3>1, <6>2
          <5>4. QED
            BY <5>2, <5>3
        <4>5. ASSUME NEW j \in 1 .. i + 1, j <= Len(flat)
              PROVE  text(flat[j]) # MsgMultiSend
          <5>1. CASE j \in 1 .. i
            BY <4>2, <4>5, <5>1
          <5>2. CASE j = i + 1
            <6>1. ~over
              <7>1. ~g[i].done
                BY <2>8, <3>1, <4>2, <4>5, <5>2
              <7>2. QED
                BY <2>8, <3>1, <4>3, <4>5, <5>2, <7>1
            <6>2. QED
              BY <4>1, <4>3, <5>2, <6>1
          <5>3. QED
            BY <3>1, <5>1, <5>2
        <4>6. QED
          BY <4>2, <4>4, <4>5
      <3>9. Good(i + 1)
        BY <3>5, <3>7, <3>8
      <3> HIDE DEF Good
      <3>10. QED
        BY <3>1, <3>9
    <2> HIDE DEF S
    <2>11. \A i \in 0 .. n : i \in S
      BY <2>9, <2>10, Induction
    <2>12. Good(n)
      <3>1. n \in 0 .. n
        OBVIOUS
      <3>2. n \in S
        BY <2>11, <3>1
      <3>3. QED
        BY <3>2 DEF S
    <2>13. \A j \in 1 .. Len(flat) : j \in 1 .. n /\ j <= Len(flat)
      BY <2>4, <2>8
    <2>14. /\ IsCount(doc, next)
           /\ Never(doc, MsgMultiSend) /\ ~count.deep => ~next.deep
           /\ Never(doc, MsgExecuteContract) /\ ~next.deep /\ short
              => ~count.deep /\ \A j \in 1 .. Len(flat) : text(flat[j]) # MsgMultiSend
      BY <2>4, <2>12, <2>13
    <2>15. QED
      BY <2>14 DEF next, short, flat, text, CountsRoot
  <1>3. QED
    BY <1>1, <1>2

\* The root fields by their number.
LEMMA RootNames ==
    /\ Len(RootItems) = 7 /\ DOMAIN RootItems = 1 .. 7
    /\ \A r \in 1 .. 7 : RootItems[r] \in Range(RootItems)
    /\ \A root \in Range(RootItems) : \E r \in 1 .. 7 : root = RootItems[r]
    /\ {"chain_id", "msgs", "memo", "fee"} \subseteq Range(RootItems)
  <1>1. Len(RootItems) = 7 /\ DOMAIN RootItems = 1 .. 7
    BY DEF RootItems
  <1>2. Range(RootItems) = {RootItems[r] : r \in 1 .. 7}
    BY <1>1 DEF Range
  <1>3. /\ RootItems[1] = "chain_id" /\ RootItems[4] = "msgs"
        /\ RootItems[5] = "memo" /\ RootItems[6] = "fee"
    BY DEF RootItems
  <1>4. /\ RootItems[1] \in Range(RootItems) /\ RootItems[4] \in Range(RootItems)
        /\ RootItems[5] \in Range(RootItems) /\ RootItems[6] \in Range(RootItems)
    BY <1>2
  <1>5. QED
    BY <1>1, <1>2, <1>3, <1>4

\* The counts of a document, and what a depth that stayed FALSE says of it.
LEMMA CountsType ==
    ASSUME NEW doc, Tokenized(doc), IsJson(doc), Len(doc.tokens) > 0
    PROVE  LET counts == Counts(doc, FALSE)
           IN  /\ IsCount(doc, counts)
               /\ Never(doc, MsgMultiSend) => ~counts.deep
               /\ /\ Never(doc, MsgExecuteContract) /\ ~counts.deep
                  /\ IsFlat(doc.tokens, RootToken(doc, "memo"))
                  => \A root \in Range(RootItems) : RootToken(doc, root) # 0 =>
                        \A j \in 1 .. Len(RootLeaves(doc, root, FALSE)) :
                            Text(doc.tokens, RootLeaves(doc, root, FALSE)[j].token) # MsgMultiSend
  <1> DEFINE first == [subitems |-> NoCounts, deep |-> FALSE, done |-> FALSE,
                       types |-> NoGroup, froms |-> NoGroup]
             after[r \in 0 .. Len(RootItems)] ==
                 IF r = 0 THEN first ELSE CountRoot(doc, RootItems[r], after[r - 1])
             memoFlat == IsFlat(doc.tokens, RootToken(doc, "memo"))
             Quiet(root) == RootToken(doc, root) # 0 =>
                        \A j \in 1 .. Len(RootLeaves(doc, root, FALSE)) :
                            Text(doc.tokens, RootLeaves(doc, root, FALSE)[j].token) # MsgMultiSend
  <1>1. Counts(doc, FALSE) = after[Len(RootItems)]
    BY DEF Counts
  <1>2. FiniteNatInductiveDefHypothesis(after, first,
            LAMBDA v, r : CountRoot(doc, RootItems[r], v), 0, Len(RootItems))
    BY DEF FiniteNatInductiveDefHypothesis
  <1> HIDE DEF after, first
  <1>3. FiniteNatInductiveDefConclusion(after, first,
            LAMBDA v, r : CountRoot(doc, RootItems[r], v), 0, Len(RootItems))
    <2>1. Len(RootItems) \in Nat /\ 0 \in Nat
      BY RootNames
    <2>2. QED
      BY <1>2, <2>1, FiniteNatInductiveDef
  <1>4. after = [r \in 0 .. 7 |-> IF r = 0 THEN first
                                  ELSE CountRoot(doc, RootItems[r], after[r - 1])]
    BY <1>3, RootNames DEF FiniteNatInductiveDefConclusion
  <1> HIDE DEF Quiet, memoFlat
  <1> DEFINE Good(r) == /\ IsCount(doc, after[r])
                        /\ Never(doc, MsgMultiSend) => ~after[r].deep
                        /\ Never(doc, MsgExecuteContract) /\ ~after[r].deep /\ memoFlat
                           => \A q \in 1 .. r : Quiet(RootItems[q])
             S == {r \in 0 .. 7 : Good(r)}
  <1>5. 0 \in S
    <2>1. after[0] = first
      BY <1>4
    <2>2. IsGroup(NoGroup)
      <3>1. 0 \in 0 .. U8 - 1
        BY DEF U8
      <3>2. QED
        BY <3>1 DEF IsGroup, NoGroup
    <2>3. /\ NoCounts \in [Range(RootItems) -> 0 .. U8 - 1]
          /\ \A root \in Range(RootItems) : NoCounts[root] = 0
      BY DEF NoCounts, U8
    <2>4. IsCount(doc, first)
      BY <2>2, <2>3 DEF IsCount, first
    <2>5. ~first.deep
      BY DEF first
    <2>6. 0 \in 0 .. 7 /\ 1 .. 0 = {}
      OBVIOUS
    <2>7. QED
      BY <2>1, <2>4, <2>5, <2>6
  <1>6. ASSUME NEW r \in 0 .. 7 - 1, r \in S PROVE r + 1 \in S
    <2> DEFINE root == RootItems[r + 1]
    <2>1. r + 1 \in 0 .. 7 /\ r + 1 \in 1 .. 7 /\ r + 1 # 0 /\ (r + 1) - 1 = r
      OBVIOUS
    <2>2. after[r + 1] = CountRoot(doc, root, after[r])
      BY <1>4, <2>1
    <2>3. root \in Range(RootItems)
      BY <2>1, RootNames
    <2>4. Good(r)
      BY <1>6
    <2> HIDE DEF root
    <2>5. CountsRoot(doc, root, after[r])
      BY <2>3, <2>4, CountRootType
    <2>6. /\ IsCount(doc, after[r + 1])
          /\ Never(doc, MsgMultiSend) /\ ~after[r].deep => ~after[r + 1].deep
          /\ Never(doc, MsgExecuteContract) /\ ~after[r + 1].deep /\ memoFlat
             => ~after[r].deep /\ Quiet(root)
      BY <2>2, <2>5 DEF CountsRoot, Quiet, memoFlat
    <2>7. \A q \in 1 .. r + 1 : q \in 1 .. r \/ q = r + 1
      OBVIOUS
    <2>8. Good(r + 1)
      BY <2>4, <2>6, <2>7 DEF root
    <2> HIDE DEF Good
    <2>9. QED
      BY <2>1, <2>8
  <1> HIDE DEF S
  <1>7. \A r \in 0 .. 7 : r \in S
    BY <1>5, <1>6, Induction
  <1>8. Good(7)
    BY <1>7 DEF S
  <1>9. \A root \in Range(RootItems) :
           (\A q \in 1 .. 7 : Quiet(RootItems[q])) => Quiet(root)
    BY RootNames
  <1>10. Counts(doc, FALSE) = after[7]
    BY <1>1, RootNames
  <1>11. QED
    BY <1>8, <1>9, <1>10 DEF Quiet, memoFlat

\* The depth a document leads to when it is counted and its chain id is read.
OwnDepth(doc) == DeepAfter(Counts(doc, FALSE).deep, ChainId(doc))

\* No leaf at that depth changes it.
Steady(doc, deep) ==
    \A root \in Range(RootItems) : RootToken(doc, root) # 0 =>
        \A j \in 1 .. Len(RootLeaves(doc, root, deep)) :
            DeepAfter(deep, Text(doc.tokens, RootLeaves(doc, root, deep)[j].token)) <=> deep

\* A leaf is a token of the document.
LEMMA LeafIsToken ==
    ASSUME NEW doc, Tokenized(doc), IsJson(doc), Len(doc.tokens) > 0, NEW root, NEW deep,
           RootToken(doc, root) # 0, NEW j \in 1 .. Len(RootLeaves(doc, root, deep))
    PROVE  RootLeaves(doc, root, deep)[j].token \in DOMAIN doc.tokens
  <1> DEFINE leaves == RootLeaves(doc, root, deep)
  <1>1. leaves \in Seq(PlacesOf(doc.tokens, root))
    BY RootLeavesType
  <1> HIDE DEF leaves
  <1>2. leaves[j] \in PlacesOf(doc.tokens, root)
    BY <1>1 DEF leaves
  <1>3. QED
    BY <1>2 DEF PlacesOf, Places, leaves

\* In a document of one depth no leaf changes the depth it leads to: without
\* MsgMultiSend nothing ever asks for more, and without MsgExecuteContract
\* nothing for less; when no text of the count asked, no leaf does.
LEMMA OneDepthIsSteady ==
    ASSUME NEW doc, Tokenized(doc), IsJson(doc), Len(doc.tokens) > 0, OneDepth(doc),
           RootToken(doc, "chain_id") # 0
    PROVE  Steady(doc, OwnDepth(doc))
  <1> DEFINE counts == Counts(doc, FALSE)
             own == OwnDepth(doc)
             chain == RootLeaves(doc, "chain_id", FALSE)
  <1>1. own \in BOOLEAN
    BY DEF OwnDepth, DeepAfter
  <1>2. /\ Never(doc, MsgMultiSend) => ChainId(doc) # MsgMultiSend
        /\ Never(doc, MsgExecuteContract) => ChainId(doc) # MsgExecuteContract
    <2>1. << >> # MsgMultiSend /\ << >> # MsgExecuteContract
      BY DEF MsgMultiSend, MsgExecuteContract, Word
    <2>2. CASE chain = << >>
      <3>1. ChainId(doc) = << >>
        BY <2>2 DEF ChainId, FirstText
      <3>2. QED
        BY <2>1, <3>1
    <2>3. CASE chain # << >>
      <3>1. chain \in Seq(PlacesOf(doc.tokens, "chain_id"))
        BY RootLeavesType
      <3>2. ChainId(doc) = Text(doc.tokens, chain[1].token)
        BY <2>3 DEF ChainId, FirstText
      <3> HIDE DEF chain
      <3>3. 1 \in 1 .. Len(chain)
        BY <2>3, <3>1
      <3>4. chain[1].token \in DOMAIN doc.tokens
        BY <3>3, LeafIsToken DEF chain
      <3>5. QED
        BY <3>2, <3>4 DEF Never
    <2>4. QED
      BY <2>2, <2>3
  <1>3. ASSUME NEW root, NEW deep, RootToken(doc, root) # 0,
               NEW j \in 1 .. Len(RootLeaves(doc, root, deep))
        PROVE  LET text == Text(doc.tokens, RootLeaves(doc, root, deep)[j].token)
               IN  /\ Never(doc, MsgMultiSend) => text # MsgMultiSend
                   /\ Never(doc, MsgExecuteContract) => text # MsgExecuteContract
    <2>1. RootLeaves(doc, root, deep)[j].token \in DOMAIN doc.tokens
      BY <1>3, LeafIsToken
    <2>2. QED
      BY <2>1 DEF Never
  <1>4. CASE Never(doc, MsgMultiSend)
    <2>1. ~own
      <3>1. ~counts.deep
        BY <1>4, CountsType
      <3>2. QED
        BY <1>2, <1>4, <3>1 DEF OwnDepth, DeepAfter
    <2> HIDE DEF own
    <2>2. own = FALSE
      BY <1>1, <2>1
    <2>3. Steady(doc, FALSE)
      BY <1>3, <1>4 DEF Steady, DeepAfter
    <2>4. QED
      BY <2>2, <2>3 DEF own
  <1>5. CASE Never(doc, MsgExecuteContract) /\ IsFlat(doc.tokens, RootToken(doc, "memo"))
    <2>1. CASE own
      <3> HIDE DEF own
      <3>1. own = TRUE
        BY <1>1, <2>1
      <3>2. Steady(doc, TRUE)
        BY <1>3, <1>5 DEF Steady, DeepAfter
      <3>3. QED
        BY <3>1, <3>2 DEF own
    <2>2. CASE ~own
      <3>1. ~counts.deep
        BY <1>2, <1>5, <2>2 DEF OwnDepth, DeepAfter
      <3>2. \A root \in Range(RootItems) : RootToken(doc, root) # 0 =>
               \A j \in 1 .. Len(RootLeaves(doc, root, FALSE)) :
                   Text(doc.tokens, RootLeaves(doc, root, FALSE)[j].token) # MsgMultiSend
        BY <1>5, <3>1, CountsType
      <3> HIDE DEF own
      <3>3. own = FALSE
        BY <1>1, <2>2
      <3>4. Steady(doc, FALSE)
        BY <3>2 DEF Steady, DeepAfter
      <3>5. QED
        BY <3>3, <3>4 DEF own
    <2>3. QED
      BY <2>1, <2>2
  <1>6. QED
    BY <1>4, <1>5 DEF OneDepth

-----------------------------------------------------------------------------
\* The cache of a document, in every mode.
IsCache(doc, c) ==
    \E types, froms : \E subitems \in [Range(RootItems) -> 0 .. U8 - 1], valid \in BOOLEAN :
        /\ IsGroup(types) /\ IsGroup(froms)
        /\ \A root \in Range(RootItems) : RootToken(doc, root) = 0 => subitems[root] = 0
        /\ c = [valid |-> valid, subitems |-> subitems, types |-> types, froms |-> froms]

\* All fields that parser_json_validate asks for.
HasFields(doc) ==
    /\ RootToken(doc, "chain_id") # 0 /\ RootToken(doc, "fee") # 0
    /\ RootToken(doc, "msgs") # 0

\* What is made of the counts of a document is a cache of it.
LEMMA IndexedType ==
    ASSUME NEW doc, NEW counts, IsCount(doc, counts), NEW isExpert
    PROVE  IsCache(doc, Indexed(doc, counts, isExpert))
  <1>1. PICK types, froms : \E subitems \in [Range(RootItems) -> 0 .. U8 - 1],
                         deep \in BOOLEAN, done \in BOOLEAN :
           /\ IsGroup(types) /\ IsGroup(froms)
           /\ \A r \in Range(RootItems) : RootToken(doc, r) = 0 => subitems[r] = 0
           /\ counts = [subitems |-> subitems, deep |-> deep, done |-> done,
                        types |-> types, froms |-> froms]
    BY DEF IsCount
  <1>2. PICK subitems \in [Range(RootItems) -> 0 .. U8 - 1], deep \in BOOLEAN, done \in BOOLEAN :
           /\ IsGroup(types) /\ IsGroup(froms)
           /\ \A r \in Range(RootItems) : RootToken(doc, r) = 0 => subitems[r] = 0
           /\ counts = [subitems |-> subitems, deep |-> deep, done |-> done,
                        types |-> types, froms |-> froms]
    BY <1>1
  <1>3. PICK text : \E on \in BOOLEAN, count \in 0 .. U8 - 1, idx \in Nat :
           froms = [on |-> on, count |-> count, idx |-> idx, text |-> text]
    BY <1>2 DEF IsGroup
  <1>4. PICK on \in BOOLEAN, count \in 0 .. U8 - 1, idx \in Nat :
           froms = [on |-> on, count |-> count, idx |-> idx, text |-> text]
    BY <1>3
  <1> DEFINE shows == on /\ ~isExpert /\ ChainId(doc) = Word(COIN_DEFAULT_CHAINID)
             froms2 == [on |-> shows, count |-> count, idx |-> idx, text |-> text]
  <1>5. [counts.froms EXCEPT
           !.on = @ /\ ~isExpert /\ ChainId(doc) = Word(COIN_DEFAULT_CHAINID)] = froms2
    BY <1>2, <1>4
  <1>6. shows \in BOOLEAN
    OBVIOUS
  <1> HIDE DEF shows
  <1>7. IsGroup(froms2)
    BY <1>6 DEF IsGroup
  <1> HIDE DEF froms2
  <1>8. Indexed(doc, counts, isExpert)
           = [valid |-> TRUE, subitems |-> subitems, types |-> types, froms |-> froms2]
    BY <1>2, <1>5 DEF Indexed
  <1>9. QED
    BY <1>2, <1>7, <1>8 DEF IsCache

\* A root field has a natural number of items, none when the document does not
\* have it.
LEMMA SubitemCountType ==
    ASSUME NEW doc, HasFields(doc), NEW c, IsCache(doc, c), NEW isExpert,
           NEW root \in Range(RootItems)
    PROVE  /\ get_subitem_count(c, isExpert, root) \in Nat
           /\ get_subitem_count(c, isExpert, root) # 0 => RootToken(doc, root) # 0
  <1>1. PICK types, froms : \E subitems \in [Range(RootItems) -> 0 .. U8 - 1],
                               valid \in BOOLEAN :
           /\ IsGroup(types) /\ IsGroup(froms)
           /\ \A r \in Range(RootItems) : RootToken(doc, r) = 0 => subitems[r] = 0
           /\ c = [valid |-> valid, subitems |-> subitems, types |-> types, froms |-> froms]
    BY DEF IsCache
  <1>2. PICK subitems \in [Range(RootItems) -> 0 .. U8 - 1], valid \in BOOLEAN :
           /\ IsGroup(types) /\ IsGroup(froms)
           /\ \A r \in Range(RootItems) : RootToken(doc, r) = 0 => subitems[r] = 0
           /\ c = [valid |-> valid, subitems |-> subitems, types |-> types, froms |-> froms]
    BY <1>1
  <1>3. c.subitems[root] \in 0 .. U8 - 1 /\ U8 = 256
        /\ (RootToken(doc, root) = 0 => c.subitems[root] = 0)
    BY <1>2 DEF U8
  <1>4. ASSUME NEW group, IsGroup(group) PROVE Repeats(group) \in Nat
    <2>1. group.count \in 0 .. 255
      BY <1>4 DEF IsGroup, U8
    <2>2. QED
      BY <2>1 DEF Repeats
  <1>5. Repeats(c.types) \in Nat /\ Repeats(c.froms) \in Nat
    BY <1>2, <1>4
  <1>6. (c.subitems[root] - Repeats(c.types) - Repeats(c.froms)) % U8 \in Nat
    BY <1>3, <1>5
  <1>7. get_subitem_count(c, isExpert, root) \in Nat
    BY <1>3, <1>6 DEF get_subitem_count
  <1>8. ASSUME RootToken(doc, root) = 0 PROVE get_subitem_count(c, isExpert, root) = 0
    <2>1. root # "fee" /\ root # "msgs" /\ c.subitems[root] = 0
      BY <1>3, <1>8 DEF HasFields
    <2>2. QED
      BY <2>1 DEF get_subitem_count
  <1>9. QED
    BY <1>7, <1>8

\* Every index below the number of items is one of a root field the document has.
LEMMA TreeIndexType ==
    ASSUME NEW doc, HasFields(doc), NEW c, IsCache(doc, c), NEW isExpert
    PROVE  /\ parser_display_numItems(c, isExpert) \in 0 .. U8 - 1
           /\ \A i \in 0 .. parser_display_numItems(c, isExpert) - 1 :
                 \E root \in Range(RootItems), n \in Nat :
                    /\ TreeIndexes(c, isExpert)[i + 1] = << root, n >>
                    /\ RootToken(doc, root) # 0
  <1> DEFINE count(root) == get_subitem_count(c, isExpert, root)
             indexes == TreeIndexes(c, isExpert)
             items == parser_display_numItems(c, isExpert)
             S == {<< root, n >> : root \in {r \in Range(RootItems) : RootToken(doc, r) # 0},
                                   n \in Nat}
             pieces == [r \in DOMAIN RootItems |->
                           [n \in 1 .. count(RootItems[r]) |-> << RootItems[r], n >>]]
  <1>1. indexes = FlattenSeq(pieces)
    BY DEF TreeIndexes
  <1>2. pieces \in [1 .. 7 -> Seq(S)]
    <2>1. ASSUME NEW r \in 1 .. 7
          PROVE  [n \in 1 .. count(RootItems[r]) |-> << RootItems[r], n >>] \in Seq(S)
      <3> DEFINE root == RootItems[r]
      <3>1. root \in Range(RootItems)
        BY RootNames
      <3> HIDE DEF root
      <3>2. count(root) \in Nat /\ (count(root) # 0 => RootToken(doc, root) # 0)
        BY <3>1, SubitemCountType
      <3> HIDE DEF count
      <3>3. \A n \in 1 .. count(root) : << root, n >> \in S
        BY <3>1, <3>2
      <3> HIDE DEF S
      <3>4. [n \in 1 .. count(root) |-> << root, n >>] \in Seq(S)
        BY <3>2, <3>3
      <3>5. QED
        BY <3>4 DEF root
    <2> HIDE DEF count, S
    <2>2. DOMAIN RootItems = 1 .. 7
      BY RootNames
    <2>3. QED
      BY <2>1, <2>2
  <1> HIDE DEF pieces, S, indexes
  <1>3. indexes \in Seq(S)
    <2>1. 7 \in Nat
      OBVIOUS
    <2>2. QED
      BY <1>1, <1>2, <2>1, FlattenType
  <1>4. items = Len(indexes) % U8 /\ U8 = 256
    BY DEF parser_display_numItems, U8, indexes
  <1>5. Len(indexes) \in Nat
    BY <1>3
  <1> HIDE DEF items
  <1>6. items \in 0 .. 255 /\ items <= Len(indexes)
    <2>1. \A x \in Nat : x % 256 \in 0 .. 255 /\ x % 256 <= x
      OBVIOUS
    <2>2. Len(indexes) % 256 \in 0 .. 255 /\ Len(indexes) % 256 <= Len(indexes)
      BY <1>5, <2>1
    <2>3. items = Len(indexes) % 256
      BY <1>4
    <2>4. QED
      BY <2>2, <2>3
  <1>7. ASSUME NEW i \in 0 .. items - 1
        PROVE  \E root \in Range(RootItems), n \in Nat :
                  indexes[i + 1] = << root, n >> /\ RootToken(doc, root) # 0
    <2>1. i + 1 \in 1 .. Len(indexes)
      BY <1>5, <1>6
    <2>2. indexes[i + 1] \in S
      BY <1>3, <2>1
    <2>3. QED
      BY <2>2 DEF S
  <1>8. QED
    BY <1>4, <1>6, <1>7 DEF items, indexes

\* The item that is shown, and the depth it leaves behind.
LEMMA ItemDepth ==
    ASSUME NEW tokens, NEW leaf, NEW deep
    PROVE  \/ ItemOf(tokens, leaf, deep).deep = deep
           \/ ItemOf(tokens, leaf, deep).deep = DeepAfter(deep, Text(tokens, leaf.token))
  <1>1. \A d : Failed(d).deep = d
    BY DEF Failed
  <1>2. \A key, text, d : TextItem(key, text, d).deep = DeepAfter(d, text)
    BY DEF TextItem
  <1>3. CASE leaf.key \notin AmountKeys
    BY <1>2, <1>3 DEF ItemOf
  <1>4. CASE leaf.key \in AmountKeys
    <2>1. CASE AmountShows(tokens, AmountParts(tokens, leaf.token))
      BY <1>4, <2>1 DEF ItemOf
    <2>2. CASE ~AmountShows(tokens, AmountParts(tokens, leaf.token))
      BY <1>1, <1>4, <2>2 DEF ItemOf
    <2>3. QED
      BY <2>1, <2>2
  <1>5. QED
    BY <1>3, <1>4

\* The leaves that are kept are leaves.
LEMMA KeptType ==
    ASSUME NEW P, NEW leaves \in Seq(P), NEW c
    PROVE  Kept(leaves, c) \in Seq({leaves[j] : j \in 1 .. Len(leaves)})
  <1> DEFINE S == {leaves[j] : j \in 1 .. Len(leaves)}
             pieces == [i \in DOMAIN leaves |->
                           IF Skipped(c, i, leaves[i]) THEN << >> ELSE << leaves[i] >>]
  <1>1. DOMAIN leaves = 1 .. Len(leaves) /\ Len(leaves) \in Nat
    OBVIOUS
  <1>2. ASSUME NEW i \in 1 .. Len(leaves)
        PROVE  (IF Skipped(c, i, leaves[i]) THEN << >> ELSE << leaves[i] >>) \in Seq(S)
    <2>1. leaves[i] \in S
      OBVIOUS
    <2> HIDE DEF S
    <2>2. << >> \in Seq(S) /\ << leaves[i] >> \in Seq(S)
      BY <2>1
    <2>3. QED
      BY <2>2
  <1> HIDE DEF S
  <1>3. pieces \in [1 .. Len(leaves) -> Seq(S)]
    BY <1>1, <1>2
  <1> HIDE DEF pieces
  <1>4. FlattenSeq(pieces) \in Seq(S)
    BY <1>1, <1>3, FlattenType
  <1>5. QED
    BY <1>4 DEF Kept, S, pieces

\* Whatever is shown leaves a depth.
LEMMA GetItemType ==
    ASSUME NEW doc, NEW c, NEW isExpert, NEW deep \in BOOLEAN, NEW i
    PROVE  parser_getItem(doc, c, isExpert, deep, i).deep \in BOOLEAN
  <1>1. \A text : DeepAfter(deep, text) \in BOOLEAN
    BY DEF DeepAfter
  <1>2. \A tokens, leaf : ItemOf(tokens, leaf, deep).deep \in BOOLEAN
    <2>1. ASSUME NEW tokens, NEW leaf PROVE ItemOf(tokens, leaf, deep).deep \in BOOLEAN
      <3>1. \/ ItemOf(tokens, leaf, deep).deep = deep
            \/ ItemOf(tokens, leaf, deep).deep = DeepAfter(deep, Text(tokens, leaf.token))
        BY ItemDepth
      <3>2. DeepAfter(deep, Text(tokens, leaf.token)) \in BOOLEAN
        BY <1>1
      <3>3. QED
        BY <3>1, <3>2
    <2>2. QED
      BY <2>1
  <1>3. Failed(deep).deep \in BOOLEAN
    BY DEF Failed
  <1>4. \A leaves, n : NthItem(doc.tokens, leaves, n, deep).deep \in BOOLEAN
    BY <1>2, <1>3 DEF NthItem
  <1>5. \A index : ItemAt(doc, c, index, deep).deep \in BOOLEAN
    BY <1>4 DEF ItemAt
  <1>6. QED
    BY <1>3, <1>5 DEF parser_getItem

\* An item to be shown is the n-th of a root field that the document has.
IndexesAreFields(doc, c, isExpert) ==
    \A i \in 0 .. parser_display_numItems(c, isExpert) - 1 :
        \E root \in Range(RootItems), n \in Nat :
            /\ TreeIndexes(c, isExpert)[i + 1] = << root, n >>
            /\ RootToken(doc, root) # 0

\* Which they are.
LEMMA TreeIndexesAreFields ==
    ASSUME NEW doc, HasFields(doc), NEW c, IsCache(doc, c), NEW isExpert
    PROVE  IndexesAreFields(doc, c, isExpert)
  BY TreeIndexType DEF IndexesAreFields

\* Where the depth is steady, an item that is shown leaves it as it is.
LEMMA GetItemSteady ==
    ASSUME NEW doc, Tokenized(doc), IsJson(doc), Len(doc.tokens) > 0, HasFields(doc),
           NEW c, IsCache(doc, c), NEW isExpert, NEW deep \in BOOLEAN, Steady(doc, deep), NEW i
    PROVE  parser_getItem(doc, c, isExpert, deep, i).deep = deep
  <1> DEFINE items == parser_display_numItems(c, isExpert)
             index == TreeIndexes(c, isExpert)[i + 1]
  <1>1. \A d : Failed(d).deep = d
    BY DEF Failed
  <1>2. CASE i \notin 0 .. items - 1
    <2>1. parser_getItem(doc, c, isExpert, deep, i) = Failed(deep)
      BY <1>2 DEF parser_getItem
    <2>2. QED
      BY <1>1, <2>1
  <1>3. CASE i \in 0 .. items - 1
    <2>1. PICK root \in Range(RootItems), n \in Nat :
             index = << root, n >> /\ RootToken(doc, root) # 0
      <3>1. IndexesAreFields(doc, c, isExpert)
        BY TreeIndexesAreFields
      <3>2. QED
        BY <1>3, <3>1 DEF IndexesAreFields
    <2> DEFINE leaves == RootLeaves(doc, root, deep)
               kept == Kept(leaves, c)
    <2>2. parser_getItem(doc, c, isExpert, deep, i) = NthItem(doc.tokens, kept, n, deep)
      <3> HIDE DEF items
      <3>1. parser_getItem(doc, c, isExpert, deep, i) = ItemAt(doc, c, index, deep)
        BY <1>3 DEF parser_getItem, items
      <3>2. index[1] = root /\ index[2] = n
        BY <2>1
      <3> HIDE DEF index
      <3>3. QED
        BY <3>1, <3>2 DEF ItemAt
    <2>3. leaves \in Seq(PlacesOf(doc.tokens, root))
      BY <2>1, RootLeavesType
    <2> HIDE DEF leaves
    <2>4. kept \in Seq({leaves[j] : j \in 1 .. Len(leaves)})
      BY <2>3, KeptType
    <2> HIDE DEF kept
    <2>5. CASE n \notin DOMAIN kept
      BY <1>1, <2>2, <2>5 DEF NthItem
    <2>6. CASE n \in DOMAIN kept
      <3>1. NthItem(doc.tokens, kept, n, deep) = ItemOf(doc.tokens, kept[n], deep)
        BY <2>6 DEF NthItem
      <3>2. PICK j \in 1 .. Len(leaves) : kept[n] = leaves[j]
        BY <2>4, <2>6
      <3>3. DeepAfter(deep, Text(doc.tokens, leaves[j].token)) <=> deep
        BY <2>1 DEF Steady, leaves
      <3>4. DeepAfter(deep, Text(doc.tokens, leaves[j].token)) \in BOOLEAN
        BY DEF DeepAfter
      <3>5. DeepAfter(deep, Text(doc.tokens, leaves[j].token)) = deep
        BY <3>3, <3>4
      <3>6. ItemOf(doc.tokens, kept[n], deep).deep = deep
        BY <3>2, <3>5, ItemDepth
      <3>7. QED
        BY <2>2, <3>1, <3>6
    <2>7. QED
      BY <2>5, <2>6
  <1>4. QED
    BY <1>2, <1>3

\* The loop of parser_validate keeps the depth, and has tried every item when it
\* succeeds.
LEMMA ShowAllType ==
    ASSUME NEW doc, HasFields(doc), NEW c, IsCache(doc, c), NEW isExpert, NEW deep \in BOOLEAN
    PROVE  LET end == ShowAll(doc, c, isExpert, deep)
           IN  /\ end.deep \in BOOLEAN
               /\ (\A i : parser_getItem(doc, c, isExpert, deep, i).deep = deep) =>
                     /\ end.deep = deep
                     /\ end.ok => \A i \in 0 .. parser_display_numItems(c, isExpert) - 1 :
                                     parser_getItem(doc, c, isExpert, deep, i).ok
  <1> DEFINE items == parser_display_numItems(c, isExpert)
             first == [ok |-> TRUE, deep |-> deep]
             after[n \in Nat] == IF n = 0 THEN first
                                 ELSE ShowNext(doc, c, isExpert, after[n - 1], n)
             item(i) == parser_getItem(doc, c, isExpert, deep, i)
             steady == \A i : item(i).deep = deep
  <1>1. ShowAll(doc, c, isExpert, deep) = after[items]
    BY DEF ShowAll, ItemsToShow
  <1>2. NatInductiveDefHypothesis(after, first, LAMBDA v, n : ShowNext(doc, c, isExpert, v, n))
    BY DEF NatInductiveDefHypothesis
  <1> HIDE DEF after, first
  <1>3. NatInductiveDefConclusion(after, first, LAMBDA v, n : ShowNext(doc, c, isExpert, v, n))
    BY <1>2, NatInductiveDef
  <1>4. after = [n \in Nat |-> IF n = 0 THEN first
                               ELSE ShowNext(doc, c, isExpert, after[n - 1], n)]
    BY <1>3 DEF NatInductiveDefConclusion
  <1>5. items \in Nat
    BY TreeIndexType
  <1> HIDE DEF items, item
  <1> DEFINE Good(n) == /\ after[n].deep \in BOOLEAN
                        /\ steady => after[n].deep = deep
                        /\ steady /\ after[n].ok => \A i \in 0 .. n - 1 : item(i).ok
             S == {n \in 0 .. items : Good(n)}
  <1>6. 0 \in S
    <2>1. after[0] = first
      BY <1>4
    <2>2. first.deep = deep
      BY DEF first
    <2>3. 0 \in 0 .. items /\ 0 .. 0 - 1 = {}
      BY <1>5
    <2>4. QED
      BY <2>1, <2>2, <2>3
  <1>7. ASSUME NEW n \in 0 .. items - 1, n \in S PROVE n + 1 \in S
    <2>1. n \in Nat /\ n + 1 \in Nat /\ n + 1 # 0 /\ (n + 1) - 1 = n /\ n + 1 \in 0 .. items
      BY <1>5
    <2>2. after[n + 1] = ShowNext(doc, c, isExpert, after[n], n + 1)
      BY <1>4, <2>1
    <2>3. Good(n)
      BY <1>7
    <2>4. CASE ~after[n].ok
      <3>1. after[n + 1] = after[n]
        BY <2>2, <2>4 DEF ShowNext
      <3>2. Good(n + 1)
        BY <2>3, <2>4, <3>1
      <3> HIDE DEF Good
      <3>3. QED
        BY <2>1, <3>2
    <2>5. CASE after[n].ok
      <3>1. after[n + 1] = parser_getItem(doc, c, isExpert, after[n].deep, n)
        BY <2>1, <2>2, <2>5 DEF ShowNext
      <3>2. after[n + 1].deep \in BOOLEAN
        BY <2>3, <3>1, GetItemType
      <3>3. ASSUME steady PROVE after[n + 1] = item(n)
        BY <2>3, <3>1, <3>3 DEF item
      <3>4. \A i \in 0 .. (n + 1) - 1 : i \in 0 .. n - 1 \/ i = n
        BY <2>1
      <3>5. ASSUME steady, after[n + 1].ok, NEW i \in 0 .. (n + 1) - 1 PROVE item(i).ok
        <4>1. CASE i \in 0 .. n - 1
          BY <2>3, <2>5, <3>5, <4>1
        <4>2. CASE i = n
          BY <3>3, <3>5, <4>2
        <4>3. QED
          BY <3>4, <4>1, <4>2
      <3>6. steady => after[n + 1].deep = deep
        BY <3>3
      <3>7. Good(n + 1)
        BY <3>2, <3>5, <3>6
      <3> HIDE DEF Good
      <3>8. QED
        BY <2>1, <3>7
    <2>6. QED
      BY <2>4, <2>5
  <1> HIDE DEF S
  <1>8. \A n \in 0 .. items : n \in S
    BY <1>5, <1>6, <1>7, Induction
  <1>9. Good(items)
    <2>1. items \in 0 .. items
      BY <1>5
    <2>2. items \in S
      BY <1>8, <2>1
    <2>3. QED
      BY <2>2 DEF S
  <1>10. QED
    BY <1>1, <1>9 DEF items, item

-----------------------------------------------------------------------------
(* The types of the review, and what a document of one depth adds to them. *)

\* The shape of a cache, whatever document it is of.
CacheType(c) ==
    \E types, froms : \E subitems \in [Range(RootItems) -> 0 .. U8 - 1], valid \in BOOLEAN :
        /\ IsGroup(types) /\ IsGroup(froms)
        /\ c = [valid |-> valid, subitems |-> subitems, types |-> types, froms |-> froms]

\* What is accepted has the fields of a transaction.
LEMMA ValidHasFields ==
    ASSUME NEW doc, parser_json_validate(doc)
    PROVE  HasFields(doc)
  <1>1. {"chain_id", "fee", "msgs"} \subseteq RequiredFields
    BY DEF RequiredFields
  <1>2. \A field \in RequiredFields : RootToken(doc, field) # 0
    BY DEF parser_json_validate, RootToken
  <1>3. QED
    BY <1>1, <1>2 DEF HasFields

\* A document that jsmn has read has tokens.
LEMMA ParsedHasTokens ==
    ASSUME NEW doc, json_parse(doc)
    PROVE  Len(doc.tokens) > 0
  BY TokensAssumption DEF json_parse

\* What tx_parse makes of a document: it is accepted when all its items show.
LEMMA ParseOutcome ==
    ASSUME NEW doc, NEW isExpert, NEW deep, NEW last
    PROVE  LET parsed == tx_parse(doc, isExpert, deep, last)
               counts == Counts(doc, FALSE)
               own    == OwnCache(doc, isExpert)
           IN  \/ parsed = [ok |-> FALSE, json |-> Malformed, cache |-> last, deep |-> FALSE]
               \/ parsed = [ok |-> FALSE, json |-> doc, cache |-> Invalidated(last), deep |-> FALSE]
               \/ /\ json_parse(doc) /\ parser_json_validate(doc)
                  /\ \/ parsed = Tried(doc, own, ShowAll(doc, own, isExpert, OwnDepth(doc)))
                     \/ parsed = Tried(doc, [own EXCEPT !.froms = counts.froms],
                                       [ok |-> FALSE, deep |-> OwnDepth(doc)])
  <1> DEFINE parsed == tx_parse(doc, isExpert, deep, last)
             counts == Counts(doc, FALSE)
             own    == OwnCache(doc, isExpert)
             depth  == OwnDepth(doc)
  <1>1. CASE ~json_parse(doc)
    BY <1>1 DEF tx_parse, _read
  <1>2. CASE json_parse(doc) /\ ~parser_json_validate(doc)
    BY <1>2 DEF tx_parse, _read
  <1>3. CASE json_parse(doc) /\ parser_json_validate(doc)
    <2>1. parsed = TryCounted(doc, isExpert, counts)
      BY <1>3 DEF tx_parse, _read
    <2>2. parsed = TryItems(doc, isExpert, counts.froms, own, depth)
      BY <2>1 DEF TryCounted, OwnCache, OwnDepth
    <2> HIDE DEF parsed, counts, own, depth
    <2>3. \/ parsed = Tried(doc, own, ShowAll(doc, own, isExpert, depth))
          \/ parsed = Tried(doc, [own EXCEPT !.froms = counts.froms],
                            [ok |-> FALSE, deep |-> depth])
      BY <2>2, Zenon DEF TryItems
    <2>4. QED
      BY <1>3, <2>3 DEF parsed, counts, own, depth
  <1>4. QED
    BY <1>1, <1>2, <1>3

\* A cache of a document is one of any; a document's own cache is one of it.
LEMMA IsCacheType == ASSUME NEW doc, NEW c, IsCache(doc, c) PROVE CacheType(c)
  <1>1. PICK types, froms : \E subitems \in [Range(RootItems) -> 0 .. U8 - 1],
                               valid \in BOOLEAN :
           /\ IsGroup(types) /\ IsGroup(froms)
           /\ \A r \in Range(RootItems) : RootToken(doc, r) = 0 => subitems[r] = 0
           /\ c = [valid |-> valid, subitems |-> subitems, types |-> types, froms |-> froms]
    BY DEF IsCache
  <1>2. QED
    BY <1>1 DEF CacheType

\* The cache a document leads to is a cache of it.
LEMMA OwnCacheType ==
    ASSUME NEW doc, Tokenized(doc), IsJson(doc), Len(doc.tokens) > 0, NEW isExpert
    PROVE  IsCache(doc, OwnCache(doc, isExpert))
  <1>1. IsCount(doc, Counts(doc, FALSE))
    BY CountsType
  <1>2. QED
    BY <1>1, IndexedType DEF OwnCache

\* To invalidate a cache, or to give it another group, keeps its shape.
LEMMA CacheChanges ==
    ASSUME NEW c, CacheType(c)
    PROVE  /\ CacheType(Invalidated(c))
           /\ \A group : IsGroup(group) => CacheType([c EXCEPT !.froms = group])
  <1>1. PICK types, froms : \E subitems \in [Range(RootItems) -> 0 .. U8 - 1],
                               valid \in BOOLEAN :
           /\ IsGroup(types) /\ IsGroup(froms)
           /\ c = [valid |-> valid, subitems |-> subitems, types |-> types, froms |-> froms]
    BY DEF CacheType
  <1>2. PICK subitems \in [Range(RootItems) -> 0 .. U8 - 1], valid \in BOOLEAN :
           /\ IsGroup(types) /\ IsGroup(froms)
           /\ c = [valid |-> valid, subitems |-> subitems, types |-> types, froms |-> froms]
    BY <1>1
  <1> DEFINE Emptied(group) == [group EXCEPT !.count = 0]
  <1>3. ASSUME NEW group, IsGroup(group) PROVE IsGroup(Emptied(group))
    <2>1. PICK text : \E on \in BOOLEAN, count \in 0 .. U8 - 1, idx \in Nat :
             group = [on |-> on, count |-> count, idx |-> idx, text |-> text]
      BY <1>3 DEF IsGroup
    <2>2. PICK on \in BOOLEAN, count \in 0 .. U8 - 1, idx \in Nat :
             group = [on |-> on, count |-> count, idx |-> idx, text |-> text]
      BY <2>1
    <2>3. Emptied(group) = [on |-> on, count |-> 0, idx |-> idx, text |-> text]
      BY <2>2
    <2>4. 0 \in 0 .. U8 - 1
      BY DEF U8
    <2>5. QED
      BY <2>3, <2>4 DEF IsGroup
  <1>4. IsGroup(Emptied(types)) /\ IsGroup(Emptied(froms))
    BY <1>2, <1>3
  <1>5. Invalidated(c) = [valid |-> FALSE, subitems |-> subitems,
                          types |-> Emptied(types), froms |-> Emptied(froms)]
    <2> DEFINE one   == [c EXCEPT !.valid = FALSE]
               two   == [one EXCEPT !.types = Emptied(one.types)]
               three == [two EXCEPT !.froms = Emptied(two.froms)]
    <2>1. Invalidated(c) = three
      BY DEF Invalidated
    <2> HIDE DEF Emptied
    <2>2. \A v : [c EXCEPT !.valid = v]
                  = [valid |-> v, subitems |-> subitems, types |-> types, froms |-> froms]
      BY <1>2
    <2>3. ASSUME NEW v, NEW d,
                 d = [valid |-> v, subitems |-> subitems, types |-> types, froms |-> froms]
          PROVE  [d EXCEPT !.types = Emptied(d.types)]
                  = [valid |-> v, subitems |-> subitems, types |-> Emptied(types),
                     froms |-> froms]
      BY <2>3
    <2>4. ASSUME NEW v, NEW d,
                 d = [valid |-> v, subitems |-> subitems, types |-> Emptied(types),
                      froms |-> froms]
          PROVE  [d EXCEPT !.froms = Emptied(d.froms)]
                  = [valid |-> v, subitems |-> subitems, types |-> Emptied(types),
                     froms |-> Emptied(froms)]
      BY <2>4
    <2>5. one = [valid |-> FALSE, subitems |-> subitems, types |-> types, froms |-> froms]
      BY <2>2
    <2> HIDE DEF one
    <2>6. two = [valid |-> FALSE, subitems |-> subitems, types |-> Emptied(types),
                 froms |-> froms]
      BY <2>3, <2>5
    <2> HIDE DEF two
    <2>7. three = [valid |-> FALSE, subitems |-> subitems, types |-> Emptied(types),
                   froms |-> Emptied(froms)]
      BY <2>4, <2>6
    <2>8. QED
      BY <2>1, <2>7
  <1> HIDE DEF Emptied
  <1>6. CacheType(Invalidated(c))
    BY <1>4, <1>5 DEF CacheType
  <1>7. ASSUME NEW group, IsGroup(group) PROVE CacheType([c EXCEPT !.froms = group])
    <2>1. [c EXCEPT !.froms = group]
             = [valid |-> valid, subitems |-> subitems, types |-> types, froms |-> group]
      BY <1>2
    <2>2. QED
      BY <1>2, <1>7, <2>1 DEF CacheType
  <1>8. QED
    BY <1>6, <1>7

\* The group that a refused chain id leaves behind.
LEMMA CountFroms ==
    ASSUME NEW doc, NEW count, IsCount(doc, count) PROVE IsGroup(count.froms)
  <1>1. PICK types, froms : \E subitems \in [Range(RootItems) -> 0 .. U8 - 1],
                         deep \in BOOLEAN, done \in BOOLEAN :
           /\ IsGroup(types) /\ IsGroup(froms)
           /\ \A r \in Range(RootItems) : RootToken(doc, r) = 0 => subitems[r] = 0
           /\ count = [subitems |-> subitems, deep |-> deep, done |-> done,
                       types |-> types, froms |-> froms]
    BY DEF IsCount
  <1>2. QED
    BY <1>1

\* Whatever a document leads to, it leaves a cache and a depth.
LEMMA ParseType ==
    ASSUME NEW doc, Tokenized(doc), IsJson(doc), NEW isExpert, NEW deep,
           NEW last, CacheType(last)
    PROVE  LET parsed == tx_parse(doc, isExpert, deep, last)
           IN  /\ parsed.json \in {doc, Malformed}
               /\ CacheType(parsed.cache)
               /\ parsed.deep \in BOOLEAN
  <1> DEFINE parsed == tx_parse(doc, isExpert, deep, last)
             counts == Counts(doc, FALSE)
             own    == OwnCache(doc, isExpert)
             depth  == OwnDepth(doc)
             shows  == ShowAll(doc, own, isExpert, depth)
  <1>1. \/ parsed = [ok |-> FALSE, json |-> Malformed, cache |-> last, deep |-> FALSE]
        \/ parsed = [ok |-> FALSE, json |-> doc, cache |-> Invalidated(last), deep |-> FALSE]
        \/ /\ json_parse(doc) /\ parser_json_validate(doc)
           /\ \/ parsed = Tried(doc, own, shows)
              \/ parsed = Tried(doc, [own EXCEPT !.froms = counts.froms],
                                [ok |-> FALSE, deep |-> depth])
    BY ParseOutcome
  <1>2. CacheType(Invalidated(last))
    BY CacheChanges
  <1>3. depth \in BOOLEAN
    BY DEF OwnDepth, DeepAfter
  <1>4. \A c, end : Tried(doc, c, end) = [ok |-> end.ok, json |-> doc, cache |-> c,
                                          deep |-> end.deep]
    BY DEF Tried
  <1> HIDE DEF parsed, counts, own, depth, shows
  <1>5. ASSUME json_parse(doc), parser_json_validate(doc)
        PROVE  /\ CacheType(own) /\ CacheType([own EXCEPT !.froms = counts.froms])
               /\ shows.deep \in BOOLEAN
    <2>1. Len(doc.tokens) > 0 /\ HasFields(doc)
      BY <1>5, ValidHasFields, ParsedHasTokens
    <2>2. IsCache(doc, own) /\ IsCount(doc, counts)
      BY <2>1, OwnCacheType, CountsType DEF own, counts
    <2>3. CacheType(own) /\ IsGroup(counts.froms)
      BY <2>2, IsCacheType, CountFroms
    <2>4. CacheType([own EXCEPT !.froms = counts.froms])
      BY <2>3, CacheChanges
    <2>5. shows.deep \in BOOLEAN
      BY <1>3, <2>1, <2>2, ShowAllType DEF shows
    <2>6. QED
      BY <2>3, <2>4, <2>5
  <1>6. CASE parsed = [ok |-> FALSE, json |-> Malformed, cache |-> last, deep |-> FALSE]
    BY <1>6 DEF parsed
  <1>7. CASE parsed = [ok |-> FALSE, json |-> doc, cache |-> Invalidated(last), deep |-> FALSE]
    BY <1>2, <1>7 DEF parsed
  <1>8. CASE /\ json_parse(doc) /\ parser_json_validate(doc)
             /\ parsed = Tried(doc, own, shows)
    BY <1>4, <1>5, <1>8 DEF parsed
  <1>9. CASE /\ json_parse(doc) /\ parser_json_validate(doc)
             /\ parsed = Tried(doc, [own EXCEPT !.froms = counts.froms],
                               [ok |-> FALSE, deep |-> depth])
    BY <1>3, <1>4, <1>5, <1>9 DEF parsed
  <1>10. QED
    BY <1>1, <1>6, <1>7, <1>8, <1>9

-----------------------------------------------------------------------------
\* All documents are JSON.
AllJson == \A doc \in Documents : IsJson(doc)

\* The types, as the operators of the display need them.
TypeInv ==
    /\ json \in Documents \cup {Malformed}
    /\ CacheType(cache)
    /\ extraDepthLevel \in BOOLEAN
    /\ expert \in BOOLEAN
    /\ phase \in {"idle", "review"}
    /\ displayIdx \in 0 .. U8 - 1
    /\ DOMAIN shown \subseteq 0 .. U8 - 1

\* A review has a document and a cache its display can be asked about.
LEMMA ReviewFacts ==
    ASSUME ReviewIsOwn, phase = "review", IsJson(json)
    PROVE  /\ Tokenized(json) /\ Len(json.tokens) > 0 /\ HasFields(json)
           /\ IsCache(json, cache)
           /\ parser_display_numItems(cache, expert) \in 0 .. U8 - 1
  <1>1. Tokenized(json) /\ Len(json.tokens) > 0 /\ HasFields(json)
    BY DocumentAssumption, ValidHasFields, ParsedHasTokens DEF ReviewIsOwn
  <1>2. IsCache(json, cache)
    BY <1>1, OwnCacheType DEF ReviewIsOwn
  <1>3. QED
    BY <1>1, <1>2, TreeIndexType

\* Every step keeps the types.
LEMMA TypeStep ==
    ASSUME AllJson, TypeInv, ReviewIsOwn, [Next]_vars
    PROVE  TypeInv'
  <1>1. CASE HandleSign
    <2>1. PICK doc \in Documents :
             \E parsed \in {tx_parse(doc, expert, extraDepthLevel, cache)} :
               /\ json' = parsed.json /\ cache' = parsed.cache
               /\ \/ /\ \E first \in {parser_getItem(doc, parsed.cache, expert, parsed.deep, 0)} :
                           /\ extraDepthLevel' = first.deep
                           /\ shown' = [i \in {0} |-> first]
                     /\ phase' = "review"
                     /\ displayIdx' = 0
                  \/ /\ extraDepthLevel' = parsed.deep
                     /\ UNCHANGED << phase, displayIdx, shown >>
      BY <1>1 DEF HandleSign
    <2>2. PICK parsed : /\ parsed = tx_parse(doc, expert, extraDepthLevel, cache)
               /\ json' = parsed.json /\ cache' = parsed.cache
               /\ \/ /\ \E first \in {parser_getItem(doc, parsed.cache, expert, parsed.deep, 0)} :
                           /\ extraDepthLevel' = first.deep
                           /\ shown' = [i \in {0} |-> first]
                     /\ phase' = "review"
                     /\ displayIdx' = 0
                  \/ /\ extraDepthLevel' = parsed.deep
                     /\ UNCHANGED << phase, displayIdx, shown >>
      BY <2>1
    <2>3. Tokenized(doc) /\ IsJson(doc) /\ CacheType(cache)
      BY DocumentAssumption DEF AllJson, TypeInv
    <2>4. /\ parsed.json \in {doc, Malformed} /\ CacheType(parsed.cache)
          /\ parsed.deep \in BOOLEAN
      BY <2>2, <2>3, ParseType
    <2>5. json' \in Documents \cup {Malformed} /\ CacheType(cache)'
      <3>1. json' \in Documents \cup {Malformed}
        BY <2>2, <2>4
      <3>2. cache' = parsed.cache
        BY <2>2
      <3>3. CacheType(cache')
        BY <2>4, <3>2
      <3>4. CacheType(cache)'
        BY <3>3 DEF CacheType, IsGroup
      <3>5. QED
        BY <3>1, <3>4
    <2>6. expert' = expert
      BY <1>1 DEF HandleSign
    <2>7. CASE /\ \E first \in {parser_getItem(doc, parsed.cache, expert, parsed.deep, 0)} :
                     /\ extraDepthLevel' = first.deep
                     /\ shown' = [i \in {0} |-> first]
               /\ phase' = "review"
               /\ displayIdx' = 0
      <3>1. PICK first : /\ first = parser_getItem(doc, parsed.cache, expert, parsed.deep, 0)
                         /\ extraDepthLevel' = first.deep
                         /\ shown' = [i \in {0} |-> first]
        BY <2>7
      <3>2. first.deep \in BOOLEAN
        BY <2>4, <3>1, GetItemType
      <3>3. DOMAIN shown' = {0} /\ 0 \in 0 .. U8 - 1
        BY <3>1 DEF U8
      <3>4. QED
        BY <2>5, <2>6, <2>7, <3>1, <3>2, <3>3 DEF TypeInv
    <2>8. CASE extraDepthLevel' = parsed.deep /\ UNCHANGED << phase, displayIdx, shown >>
      BY <2>4, <2>5, <2>6, <2>8 DEF TypeInv
    <2>9. QED
      BY <2>2, <2>7, <2>8
  <1>2. ASSUME NEW i \in {displayIdx - 1, displayIdx + 1}, ShowItem(i)
        PROVE  TypeInv'
    <2>1. /\ UNCHANGED << json, cache, expert, phase >> /\ phase = "review" /\ displayIdx' = i
          /\ i \in 0 .. parser_display_numItems(cache, expert) - 1
      BY <1>2 DEF ShowItem
    <2>2. IsJson(json)
      BY <2>1 DEF AllJson, ReviewIsOwn
    <2>3. parser_display_numItems(cache, expert) \in 0 .. U8 - 1
      BY <2>1, <2>2, ReviewFacts
    <2>4. i \in 0 .. U8 - 1
      BY <2>1, <2>3 DEF U8
    <2>5. PICK item : /\ item = parser_getItem(json, cache, expert, extraDepthLevel, i)
                      /\ extraDepthLevel' = item.deep
                      /\ shown' = WithItem(i, item)
      BY <1>2 DEF ShowItem
    <2>6. extraDepthLevel' \in BOOLEAN
      BY <2>5, GetItemType DEF TypeInv
    <2>7. DOMAIN shown' \subseteq 0 .. U8 - 1
      BY <2>4, <2>5 DEF TypeInv, WithItem
    <2>8. CacheType(cache)'
      BY <2>1 DEF TypeInv, CacheType, IsGroup
    <2>9. QED
      BY <2>1, <2>4, <2>6, <2>7, <2>8 DEF TypeInv
  <1>3. ASSUME UNCHANGED << json, cache, extraDepthLevel, expert >>, EndReview
        PROVE  TypeInv'
    <2>1. DOMAIN shown' = {} /\ displayIdx' \in 0 .. U8 - 1 /\ phase' = "idle"
      BY <1>3 DEF EndReview, U8
    <2>2. CacheType(cache)'
      BY <1>3 DEF TypeInv, CacheType, IsGroup
    <2>3. QED
      BY <1>3, <2>1, <2>2 DEF TypeInv
  <1>4. CASE ToggleExpert
    <2>1. CacheType(cache)'
      BY <1>4 DEF ToggleExpert, TypeInv, CacheType, IsGroup
    <2>2. QED
      BY <1>4, <2>1 DEF ToggleExpert, TypeInv
  <1>5. CASE UNCHANGED vars
    <2>1. CacheType(cache)'
      BY <1>5 DEF vars, TypeInv, CacheType, IsGroup
    <2>2. QED
      BY <1>5, <2>1 DEF vars, TypeInv
  <1>6. QED
    BY <1>1, <1>2, <1>3, <1>4, <1>5 DEF Next, Approve, Reject

\* The globals begin with their types.
LEMMA TypeInit == Init => TypeInv
  <1>1. SUFFICES ASSUME Init PROVE TypeInv
    OBVIOUS
  <1>2. IsGroup(NoGroup)
    <2>1. 0 \in 0 .. U8 - 1
      BY DEF U8
    <2>2. QED
      BY <2>1 DEF IsGroup, NoGroup
  <1>3. NoCounts \in [Range(RootItems) -> 0 .. U8 - 1]
    BY DEF NoCounts, U8
  <1>4. CacheType(NoCache)
    BY <1>2, <1>3 DEF CacheType, NoCache
  <1>5. DOMAIN << >> = {} /\ 0 \in 0 .. U8 - 1
    BY DEF U8
  <1>6. QED
    BY <1>1, <1>4, <1>5 DEF Init, TypeInv

\* The types the operators need are the type invariant.
LEMMA TypeInvIsTypeOK == TypeInv => TypeOK
  <1>1. SUFFICES ASSUME TypeInv PROVE TypeOK
    OBVIOUS
  <1>2. /\ json.len \in Nat /\ json.blanks \subseteq Nat
        /\ \A k \in DOMAIN json.tokens :
              /\ json.tokens[k].start \in 0 .. json.len
              /\ json.tokens[k].end \in json.tokens[k].start .. json.len
    <2>1. CASE json \in Documents
      <3>1. Tokenized(json)
        BY <2>1, DocumentAssumption
      <3>2. QED
        BY <3>1 DEF Tokenized
    <2>2. CASE json = Malformed
      BY <2>2 DEF Malformed, NoText
    <2>3. QED
      BY <1>1, <2>1, <2>2 DEF TypeInv
  <1>3. ASSUME NEW group, IsGroup(group)
        PROVE  group.on \in BOOLEAN /\ group.count \in 0 .. U8 - 1 /\ group.idx \in Nat
    <2>1. PICK text : \E on \in BOOLEAN, count \in 0 .. U8 - 1, idx \in Nat :
             group = [on |-> on, count |-> count, idx |-> idx, text |-> text]
      BY <1>3 DEF IsGroup
    <2>2. QED
      BY <2>1
  <1>4. PICK types, froms : \E subitems \in [Range(RootItems) -> 0 .. U8 - 1],
                               valid \in BOOLEAN :
           /\ IsGroup(types) /\ IsGroup(froms)
           /\ cache = [valid |-> valid, subitems |-> subitems, types |-> types, froms |-> froms]
    BY <1>1 DEF TypeInv, CacheType
  <1>5. /\ cache.valid \in BOOLEAN
        /\ cache.subitems \in [Range(RootItems) -> 0 .. U8 - 1]
        /\ IsGroup(cache.types) /\ IsGroup(cache.froms)
    BY <1>4
  <1>6. \A group \in {cache.types, cache.froms} :
           group.on \in BOOLEAN /\ group.count \in 0 .. U8 - 1 /\ group.idx \in Nat
    BY <1>3, <1>5
  <1>7. QED
    BY <1>1, <1>2, <1>5, <1>6 DEF TypeInv, TypeOK

\* The types of the review, for every set of documents that are JSON.
THEOREM CosmosTypesKept == ASSUME AllJson PROVE Spec => []TypeOK
  <1>1. TypeInv /\ ReviewIsOwn /\ [Next]_vars => TypeInv'
    BY TypeStep
  <1>2. QED
    BY <1>1, TypeInit, TypeInvIsTypeOK, ReviewForgetsGlobals, PTL DEF Spec

-----------------------------------------------------------------------------
(* A document of one depth: every item shows, and always as itself.        *)

\* The item i of the document under review, at the depth of its own.
OwnItem(i) == parser_getItem(json, cache, expert, OwnDepth(json), i)

\* Under review the depth is the document's, at which all its items show, and
\* what was seen is what is shown at it.
DepthIsOwn ==
    phase = "review" /\ IsJson(json) /\ OneDepth(json) =>
        /\ extraDepthLevel = OwnDepth(json)
        /\ \A i \in 0 .. parser_display_numItems(cache, expert) - 1 : OwnItem(i).ok
        /\ \A i \in DOMAIN shown : shown[i] = OwnItem(i)

\* All items of such a document leave the depth as it is.
LEMMA OwnDepthIsSteady ==
    ASSUME NEW doc, Tokenized(doc), IsJson(doc), OneDepth(doc),
           json_parse(doc), parser_json_validate(doc), NEW isExpert
    PROVE  /\ OwnDepth(doc) \in BOOLEAN
           /\ \A i : parser_getItem(doc, OwnCache(doc, isExpert), isExpert, OwnDepth(doc), i).deep
                        = OwnDepth(doc)
  <1>1. Len(doc.tokens) > 0 /\ HasFields(doc)
    BY ValidHasFields, ParsedHasTokens
  <1>2. IsCache(doc, OwnCache(doc, isExpert))
    BY <1>1, OwnCacheType
  <1>3. OwnDepth(doc) \in BOOLEAN
    BY DEF OwnDepth, DeepAfter
  <1>4. RootToken(doc, "chain_id") # 0
    BY <1>1 DEF HasFields
  <1>5. Steady(doc, OwnDepth(doc))
    BY <1>1, <1>4, OneDepthIsSteady
  <1>6. QED
    BY <1>1, <1>2, <1>3, <1>5, GetItemSteady

\* What is accepted has tried all its items at the depth the review begins with.
LEMMA AcceptedAtOwnDepth ==
    ASSUME NEW doc, Tokenized(doc), IsJson(doc), OneDepth(doc), NEW isExpert, NEW deep,
           NEW last, tx_parse(doc, isExpert, deep, last).ok
    PROVE  LET parsed == tx_parse(doc, isExpert, deep, last)
               own    == OwnCache(doc, isExpert)
               item(i) == parser_getItem(doc, own, isExpert, OwnDepth(doc), i)
           IN  /\ parsed.json = doc /\ parsed.cache = own /\ parsed.deep = OwnDepth(doc)
               /\ item(0).deep = OwnDepth(doc)
               /\ \A i \in 0 .. parser_display_numItems(own, isExpert) - 1 : item(i).ok
  <1> DEFINE parsed == tx_parse(doc, isExpert, deep, last)
             counts == Counts(doc, FALSE)
             own    == OwnCache(doc, isExpert)
             depth  == OwnDepth(doc)
             shows  == ShowAll(doc, own, isExpert, depth)
             item(i) == parser_getItem(doc, own, isExpert, depth, i)
  <1>1. /\ json_parse(doc) /\ parser_json_validate(doc)
        /\ parsed.json = doc /\ parsed.cache = own
    BY ParseForgets
  <1>2. \/ parsed = [ok |-> FALSE, json |-> Malformed, cache |-> last, deep |-> FALSE]
        \/ parsed = [ok |-> FALSE, json |-> doc, cache |-> Invalidated(last), deep |-> FALSE]
        \/ parsed = Tried(doc, own, shows)
        \/ parsed = Tried(doc, [own EXCEPT !.froms = counts.froms],
                          [ok |-> FALSE, deep |-> depth])
    BY ParseOutcome
  <1>3. \A c, end : Tried(doc, c, end) = [ok |-> end.ok, json |-> doc, cache |-> c,
                                          deep |-> end.deep]
    BY DEF Tried
  <1>4. parsed.ok
    OBVIOUS
  <1>5. depth \in BOOLEAN /\ \A i : item(i).deep = depth
    BY <1>1, OwnDepthIsSteady
  <1>6. HasFields(doc) /\ IsCache(doc, own)
    <2>1. Len(doc.tokens) > 0 /\ HasFields(doc)
      BY <1>1, ValidHasFields, ParsedHasTokens
    <2>2. QED
      BY <2>1, OwnCacheType
  <1>7. /\ shows.deep = depth
        /\ shows.ok => \A i \in 0 .. parser_display_numItems(own, isExpert) - 1 : item(i).ok
    <2> HIDE DEF own, depth
    <2>1. \A i : parser_getItem(doc, own, isExpert, depth, i).deep = depth
      BY <1>5
    <2>2. QED
      BY <1>5, <1>6, <2>1, ShowAllType
  <1> HIDE DEF parsed, counts, own, depth, shows, item
  <1>8. parsed = Tried(doc, own, shows)
    <2> DEFINE refused == [ok |-> FALSE, deep |-> depth]
               other   == [own EXCEPT !.froms = counts.froms]
    <2>1. parsed # [ok |-> FALSE, json |-> Malformed, cache |-> last, deep |-> FALSE]
      BY <1>4
    <2>2. parsed # [ok |-> FALSE, json |-> doc, cache |-> Invalidated(last), deep |-> FALSE]
      BY <1>4
    <2>3. parsed # Tried(doc, other, refused)
      <3>1. ~refused.ok
        OBVIOUS
      <3> HIDE DEF refused, other
      <3>2. Tried(doc, other, refused).ok = refused.ok
        BY <1>3
      <3>3. QED
        BY <1>4, <3>1, <3>2
    <2>4. QED
      BY <1>2, <2>1, <2>2, <2>3
  <1>9. parsed.deep = depth /\ shows.ok
    BY <1>3, <1>4, <1>7, <1>8
  <1>10. QED
    BY <1>1, <1>5, <1>7, <1>9 DEF parsed, own, depth, item

\* Every step keeps the depth: a review begins at it, and no item leaves it.
LEMMA DepthStep ==
    ASSUME DepthIsOwn, ReviewIsOwn, [Next]_vars
    PROVE  DepthIsOwn'
  <1>1. CASE HandleSign
    <2>1. PICK doc \in Documents :
             \E parsed \in {tx_parse(doc, expert, extraDepthLevel, cache)} :
               /\ json' = parsed.json /\ cache' = parsed.cache
               /\ \/ /\ parsed.ok
                     /\ \E first \in {parser_getItem(doc, parsed.cache, expert, parsed.deep, 0)} :
                           /\ extraDepthLevel' = first.deep
                           /\ shown' = [i \in {0} |-> first]
                     /\ phase' = "review"
                  \/ UNCHANGED phase
      BY <1>1 DEF HandleSign
    <2>2. phase = "idle" /\ expert' = expert
      BY <1>1 DEF HandleSign
    <2>3. CASE phase' # "review"
      BY <2>3 DEF DepthIsOwn
    <2>4. CASE phase' = "review"
      <3>1. PICK parsed : /\ parsed = tx_parse(doc, expert, extraDepthLevel, cache)
                          /\ json' = parsed.json /\ cache' = parsed.cache /\ parsed.ok
                          /\ \E first \in {parser_getItem(doc, parsed.cache, expert,
                                                          parsed.deep, 0)} :
                                 /\ extraDepthLevel' = first.deep
                                 /\ shown' = [i \in {0} |-> first]
        BY <2>1, <2>2, <2>4
      <3>2. PICK first : /\ first = parser_getItem(doc, parsed.cache, expert, parsed.deep, 0)
                         /\ extraDepthLevel' = first.deep
                         /\ shown' = [i \in {0} |-> first]
        BY <3>1
      <3>3. json' = doc /\ Tokenized(doc)
        BY <3>1, ParseForgets, DocumentAssumption
      <3>4. SUFFICES ASSUME IsJson(doc), OneDepth(doc)
                     PROVE  /\ extraDepthLevel' = OwnDepth(doc)
                            /\ \A i \in 0 .. parser_display_numItems(cache', expert) - 1 :
                                 parser_getItem(doc, cache', expert, OwnDepth(doc), i).ok
                            /\ \A i \in DOMAIN shown' :
                                 shown'[i] = parser_getItem(doc, cache', expert, OwnDepth(doc), i)
        BY <2>2, <3>3 DEF DepthIsOwn, OwnItem
      <3> DEFINE own == OwnCache(doc, expert)
                 item(i) == parser_getItem(doc, own, expert, OwnDepth(doc), i)
      <3>5. tx_parse(doc, expert, extraDepthLevel, cache).ok
        BY <3>1
      <3>6. /\ parsed.cache = own /\ parsed.deep = OwnDepth(doc)
            /\ item(0).deep = OwnDepth(doc)
            /\ \A i \in 0 .. parser_display_numItems(own, expert) - 1 : item(i).ok
        BY <3>1, <3>3, <3>4, <3>5, AcceptedAtOwnDepth
      <3> HIDE DEF own
      <3>7. cache' = own /\ first = item(0)
        BY <3>1, <3>2, <3>6
      <3>8. extraDepthLevel' = OwnDepth(doc)
        BY <3>2, <3>6, <3>7
      <3>9. \A i \in DOMAIN shown' : shown'[i] = item(i)
        BY <3>2, <3>7
      <3>10. QED
        BY <3>6, <3>7, <3>8, <3>9
    <2>5. QED
      BY <2>3, <2>4
  <1>2. ASSUME NEW i \in {displayIdx - 1, displayIdx + 1}, ShowItem(i)
        PROVE  DepthIsOwn'
    <2>1. /\ json' = json /\ cache' = cache /\ expert' = expert /\ phase' = phase
          /\ phase = "review"
      BY <1>2 DEF ShowItem
    <2>2. PICK item : /\ item = parser_getItem(json, cache, expert, extraDepthLevel, i)
                      /\ extraDepthLevel' = item.deep
                      /\ shown' = WithItem(i, item)
      BY <1>2 DEF ShowItem
    <2>3. SUFFICES ASSUME IsJson(json), OneDepth(json)
                   PROVE  /\ extraDepthLevel' = OwnDepth(json)
                          /\ \A j \in 0 .. parser_display_numItems(cache, expert) - 1 : OwnItem(j).ok
                          /\ \A j \in DOMAIN shown' : shown'[j] = OwnItem(j)
      BY <2>1 DEF DepthIsOwn, OwnItem
    <2>4. /\ extraDepthLevel = OwnDepth(json)
          /\ \A j \in 0 .. parser_display_numItems(cache, expert) - 1 : OwnItem(j).ok
          /\ \A j \in DOMAIN shown : shown[j] = OwnItem(j)
      BY <2>1, <2>3 DEF DepthIsOwn
    <2>5. item = OwnItem(i)
      BY <2>2, <2>4 DEF OwnItem
    <2>6. OwnItem(i).deep = OwnDepth(json)
      <3>1. /\ Tokenized(json) /\ json_parse(json) /\ parser_json_validate(json)
            /\ cache = OwnCache(json, expert)
        BY <2>1, DocumentAssumption DEF ReviewIsOwn
      <3>2. QED
        BY <2>3, <3>1, OwnDepthIsSteady DEF OwnItem
    <2>7. \A j \in DOMAIN shown' : shown'[j] = OwnItem(j)
      BY <2>2, <2>4, <2>5 DEF WithItem
    <2>8. QED
      BY <2>2, <2>4, <2>5, <2>6, <2>7
  <1>3. CASE Approve \/ Reject
    <2>1. phase' # "review"
      BY <1>3 DEF Approve, Reject, EndReview
    <2>2. QED
      BY <2>1 DEF DepthIsOwn
  <1>4. CASE ToggleExpert
    <2>1. phase' # "review"
      BY <1>4 DEF ToggleExpert
    <2>2. QED
      BY <2>1 DEF DepthIsOwn
  <1>5. CASE UNCHANGED vars
    BY <1>5 DEF vars, DepthIsOwn, OwnItem
  <1>6. QED
    BY <1>1, <1>2, <1>3, <1>4, <1>5 DEF Next

\* The two invariants hold of every behaviour.
LEMMA DepthKept == Spec => [](ReviewIsOwn /\ DepthIsOwn)
  <1>1. Init => ReviewIsOwn /\ DepthIsOwn
    BY DEF Init, ReviewIsOwn, DepthIsOwn
  <1>2. ReviewIsOwn /\ DepthIsOwn /\ [Next]_vars => (ReviewIsOwn /\ DepthIsOwn)'
    BY OwnStep, DepthStep
  <1>3. QED
    BY <1>1, <1>2, PTL DEF Spec

\* An accepted document of one depth shows to its last item.
THEOREM OneDepthShowsAll == Spec => [](IsJson(json) /\ OneDepth(json) => EveryItemShows)
  <1>1. DepthIsOwn => (IsJson(json) /\ OneDepth(json) => EveryItemShows)
    BY DEF DepthIsOwn, OwnItem, EveryItemShows
  <1>2. QED
    BY <1>1, DepthKept, PTL

-----------------------------------------------------------------------------
(* What is seen before the approval: every item, whatever the document.    *)

\* Under review the view has passed every item up to the one on the screen,
\* and has asked for none that the transaction does not have.
SeenSoFar ==
    phase = "review" =>
        /\ displayIdx \in Nat
        /\ \A i \in 0 .. displayIdx : i \in DOMAIN shown
        /\ \A i \in DOMAIN shown : i = 0 \/ i \in 0 .. parser_display_numItems(cache, expert) - 1

\* Every step goes on from there: one item forward or back.
LEMMA SeenStep == SeenSoFar /\ [Next]_vars => SeenSoFar'
  <1>1. SUFFICES ASSUME SeenSoFar, [Next]_vars, phase' = "review"
                 PROVE  /\ displayIdx' \in Nat
                        /\ \A i \in 0 .. displayIdx' : i \in DOMAIN shown'
                        /\ \A i \in DOMAIN shown' :
                             i = 0 \/ i \in 0 .. parser_display_numItems(cache', expert') - 1
    BY DEF SeenSoFar
  <1>2. CASE HandleSign
    <2>1. displayIdx' = 0 /\ DOMAIN shown' = {0}
      <3>1. phase = "idle"
        BY <1>2 DEF HandleSign
      <3>2. \E first : shown' = [i \in {0} |-> first] /\ displayIdx' = 0
        BY <1>1, <1>2, <3>1 DEF HandleSign
      <3>3. QED
        BY <3>2
    <2>2. QED
      BY <2>1
  <1>3. ASSUME NEW n \in {displayIdx - 1, displayIdx + 1}, ShowItem(n)
        PROVE  /\ displayIdx' \in Nat
               /\ \A i \in 0 .. displayIdx' : i \in DOMAIN shown'
               /\ \A i \in DOMAIN shown' :
                    i = 0 \/ i \in 0 .. parser_display_numItems(cache', expert') - 1
    <2>1. /\ phase = "review" /\ displayIdx' = n /\ cache' = cache /\ expert' = expert
          /\ n \in 0 .. parser_display_numItems(cache, expert) - 1
          /\ \E item : shown' = WithItem(n, item)
      BY <1>3 DEF ShowItem
    <2>2. DOMAIN shown' = DOMAIN shown \cup {n}
      BY <2>1 DEF WithItem
    <2>3. /\ displayIdx \in Nat
          /\ \A i \in 0 .. displayIdx : i \in DOMAIN shown
          /\ \A i \in DOMAIN shown :
               i = 0 \/ i \in 0 .. parser_display_numItems(cache, expert) - 1
      BY <1>1, <2>1 DEF SeenSoFar
    <2>4. n \in Int /\ 0 <= n
      <3> DEFINE last == parser_display_numItems(cache, expert) - 1
      <3>1. n \in 0 .. last
        BY <2>1
      <3>2. n \in Int
        BY <2>3
      <3> HIDE DEF last
      <3>3. QED
        BY <3>1, <3>2
    <2>5. ASSUME NEW i \in 0 .. n PROVE i \in DOMAIN shown'
      <3>1. i \in 0 .. displayIdx \/ i = n
        BY <1>3, <2>3, <2>4
      <3>2. QED
        BY <2>2, <2>3, <3>1
    <2>6. QED
      BY <2>1, <2>2, <2>3, <2>4, <2>5
  <1>4. CASE Approve \/ Reject
    <2>1. phase' # "review"
      BY <1>4 DEF Approve, Reject, EndReview
    <2>2. QED
      BY <1>1, <2>1
  <1>5. CASE ToggleExpert
    <2>1. phase' # "review"
      BY <1>5 DEF ToggleExpert
    <2>2. QED
      BY <1>1, <2>1
  <1>6. CASE UNCHANGED vars
    BY <1>1, <1>6 DEF vars, SeenSoFar
  <1>7. QED
    BY <1>1, <1>2, <1>3, <1>4, <1>5, <1>6 DEF Next

\* At the last item nothing is left to see.
LEMMA SeenIsAll ==
    ASSUME SeenSoFar, AtLastItem
    PROVE  DOMAIN shown = 0 .. parser_display_numItems(cache, expert) - 1
  <1> DEFINE last == parser_display_numItems(cache, expert) - 1
  <1>1. /\ displayIdx = last /\ displayIdx \in Nat
        /\ \A i \in 0 .. displayIdx : i \in DOMAIN shown
        /\ \A i \in DOMAIN shown : i = 0 \/ i \in 0 .. last
    BY DEF SeenSoFar, AtLastItem
  <1> HIDE DEF last
  <1>2. 0 \in 0 .. last
    BY <1>1
  <1>3. DOMAIN shown = 0 .. last
    BY <1>1, <1>2
  <1>4. QED
    BY <1>3 DEF last

\* The approval is offered behind the last item (app_sign), and there every item
\* of the transaction has been on the screen, whatever the document is.
THEOREM ApprovalSeesAll ==
    Spec => [](AtLastItem => DOMAIN shown = 0 .. parser_display_numItems(cache, expert) - 1)
  <1>1. Init => SeenSoFar
    BY DEF Init, SeenSoFar
  <1>2. SeenSoFar =>
           (AtLastItem => DOMAIN shown = 0 .. parser_display_numItems(cache, expert) - 1)
    BY SeenIsAll
  <1>3. QED
    BY <1>1, <1>2, SeenStep, PTL DEF Spec

-----------------------------------------------------------------------------
(* Sequences as functions on 1 .. n, joined and flattened.                 *)

\* Sequences as functions, and the other way round.
LEMMA SeqFacts ==
    ASSUME NEW s, IsSeq(s)
    PROVE  /\ Len(s) \in Nat /\ DOMAIN s = 1 .. Len(s)
           /\ \A S : (\A i \in 1 .. Len(s) : s[i] \in S) => s \in Seq(S)
  <1>1. Len(s) \in Nat /\ s = [i \in 1 .. Len(s) |-> s[i]]
    BY DEF IsSeq
  <1>2. DOMAIN s = 1 .. Len(s)
    BY <1>1
  <1>3. ASSUME NEW S, \A i \in 1 .. Len(s) : s[i] \in S
        PROVE  s \in Seq(S)
    <2> DEFINE n == Len(s)
    <2>1. n \in Nat /\ s = [i \in 1 .. n |-> s[i]]
      BY <1>1
    <2>2. \A i \in 1 .. n : s[i] \in S
      BY <1>3
    <2> HIDE DEF n
    <2>3. s \in [1 .. n -> S]
      BY <2>1, <2>2
    <2>4. QED
      BY <2>1, <2>3
  <1>4. QED
    BY <1>1, <1>2, <1>3

\* A sequence of a set is one.
LEMMA TypedIsSeq == ASSUME NEW S, NEW s \in Seq(S) PROVE IsSeq(s)
  BY DEF IsSeq

\* A function on an interval is a sequence.
LEMMA FunctionIsSeq ==
    ASSUME NEW n \in Nat, NEW s, s = [i \in 1 .. n |-> s[i]]
    PROVE  IsSeq(s) /\ Len(s) = n /\ DOMAIN s = 1 .. n
  <1> DEFINE S == {s[i] : i \in 1 .. n}
  <1>1. s \in [1 .. n -> S]
    OBVIOUS
  <1> HIDE DEF S
  <1>2. s \in Seq(S) /\ Len(s) = n
    BY <1>1
  <1>3. QED
    BY <1>2 DEF IsSeq

\* Sequences are the same when their elements are.
LEMMA SameSeq ==
    ASSUME NEW s, NEW t, IsSeq(s), IsSeq(t), Len(s) = Len(t),
           \A i \in 1 .. Len(s) : s[i] = t[i]
    PROVE  s = t
  <1>1. s = [i \in 1 .. Len(s) |-> s[i]] /\ t = [i \in 1 .. Len(t) |-> t[i]]
    BY DEF IsSeq
  <1>2. [i \in 1 .. Len(s) |-> s[i]] = [i \in 1 .. Len(t) |-> t[i]]
    OBVIOUS
  <1>3. QED
    BY ONLY <1>1, <1>2

\* One sequence behind the other.
LEMMA Joined ==
    ASSUME NEW s, NEW t, IsSeq(s), IsSeq(t)
    PROVE  /\ IsSeq(s \o t) /\ Len(s \o t) = Len(s) + Len(t)
           /\ \A i \in 1 .. Len(s) : (s \o t)[i] = s[i]
           /\ \A j \in 1 .. Len(t) : (s \o t)[Len(s) + j] = t[j]
  <1> DEFINE S == {s[i] : i \in 1 .. Len(s)} \cup {t[j] : j \in 1 .. Len(t)}
  <1>1. (\A i \in 1 .. Len(s) : s[i] \in S) /\ \A j \in 1 .. Len(t) : t[j] \in S
    OBVIOUS
  <1> HIDE DEF S
  <1>2. s \in Seq(S) /\ t \in Seq(S)
    BY <1>1, SeqFacts
  <1>3. s \o t \in Seq(S)
    BY <1>2
  <1>4. IsSeq(s \o t)
    BY <1>3, TypedIsSeq
  <1>5. /\ Len(s \o t) = Len(s) + Len(t)
        /\ \A i \in 1 .. Len(s) : (s \o t)[i] = s[i]
        /\ \A j \in 1 .. Len(t) : (s \o t)[Len(s) + j] = t[j]
    BY <1>2
  <1>6. QED
    BY <1>4, <1>5

\* The elements of the one behind the other, from 1 on.
LEMMA JoinedAt ==
    ASSUME NEW s, NEW t, IsSeq(s), IsSeq(t), NEW x \in 1 .. Len(s \o t)
    PROVE  \/ x \in 1 .. Len(s) /\ (s \o t)[x] = s[x]
           \/ /\ ~(x <= Len(s)) /\ x - Len(s) \in 1 .. Len(t) /\ x = Len(s) + (x - Len(s))
              /\ (s \o t)[x] = t[x - Len(s)]
  <1>1. Len(s) \in Nat /\ Len(t) \in Nat /\ Len(s \o t) = Len(s) + Len(t)
    BY Joined, SeqFacts
  <1>2. CASE x <= Len(s)
    BY <1>1, <1>2, Joined
  <1>3. CASE ~(x <= Len(s))
    <2>1. x - Len(s) \in 1 .. Len(t) /\ x = Len(s) + (x - Len(s))
      BY <1>1, <1>3
    <2>2. (s \o t)[Len(s) + (x - Len(s))] = t[x - Len(s)]
      BY <2>1, Joined
    <2>3. QED
      BY <1>3, <2>1, <2>2
  <1>4. QED
    BY <1>2, <1>3

\* Three of them.
LEMMA JoinsAssociate ==
    ASSUME NEW s, NEW t, NEW u, IsSeq(s), IsSeq(t), IsSeq(u)
    PROVE  (s \o t) \o u = s \o (t \o u)
  <1> DEFINE S == {s[i] : i \in 1 .. Len(s)} \cup {t[i] : i \in 1 .. Len(t)}
                  \cup {u[i] : i \in 1 .. Len(u)}
  <1>1. /\ \A i \in 1 .. Len(s) : s[i] \in S
        /\ \A i \in 1 .. Len(t) : t[i] \in S
        /\ \A i \in 1 .. Len(u) : u[i] \in S
    OBVIOUS
  <1> HIDE DEF S
  <1>2. s \in Seq(S) /\ t \in Seq(S) /\ u \in Seq(S)
    BY <1>1, SeqFacts
  <1>3. QED
    BY <1>2, ConcatAssociative

\* Nothing, and one element.
LEMMA ShortSeqs ==
    /\ IsSeq(<< >>) /\ Len(<< >>) = 0
    /\ \A x : IsSeq(<< x >>) /\ Len(<< x >>) = 1 /\ << x >>[1] = x
    /\ \A x, y : IsSeq(<< x, y >>) /\ Len(<< x, y >>) = 2
                 /\ << x, y >>[1] = x /\ << x, y >>[2] = y
    /\ \A s : IsSeq(s) => s \o << >> = s /\ << >> \o s = s
    /\ \A x, y : << x >> \o << y >> = << x, y >>
  <1>1. IsSeq(<< >>) /\ Len(<< >>) = 0
    <2>1. << >> \in Seq({}) /\ Len(<< >>) = 0
      OBVIOUS
    <2>2. QED
      BY <2>1, TypedIsSeq
  <1>2. ASSUME NEW x PROVE IsSeq(<< x >>) /\ Len(<< x >>) = 1 /\ << x >>[1] = x
    <2>1. << x >> \in Seq({x}) /\ Len(<< x >>) = 1 /\ << x >>[1] = x
      OBVIOUS
    <2>2. QED
      BY <2>1, TypedIsSeq
  <1>3. ASSUME NEW x, NEW y
        PROVE  /\ IsSeq(<< x, y >>) /\ Len(<< x, y >>) = 2
               /\ << x, y >>[1] = x /\ << x, y >>[2] = y
               /\ << x >> \o << y >> = << x, y >>
    <2>1. << x, y >> \in Seq({x, y}) /\ Len(<< x, y >>) = 2
          /\ << x, y >>[1] = x /\ << x, y >>[2] = y
      OBVIOUS
    <2>2. IsSeq(<< x >>) /\ IsSeq(<< y >>) /\ IsSeq(<< x, y >>)
      BY <1>2, <2>1, TypedIsSeq
    <2> DEFINE s == << x >> \o << y >>
    <2>3. IsSeq(s) /\ Len(s) = 2 /\ s[1] = x /\ s[2] = y
      <3>1. Len(<< x >>) = 1 /\ Len(<< y >>) = 1 /\ << x >>[1] = x /\ << y >>[1] = y
        BY <1>2
      <3> DEFINE one == << x >>
                 two == << y >>
      <3>2. IsSeq(one) /\ IsSeq(two) /\ Len(one) = 1 /\ Len(two) = 1 /\ one[1] = x /\ two[1] = y
        BY <2>2, <3>1
      <3> HIDE DEF one, two
      <3>3. /\ IsSeq(one \o two) /\ Len(one \o two) = Len(one) + Len(two)
            /\ \A i \in 1 .. Len(one) : (one \o two)[i] = one[i]
            /\ \A j \in 1 .. Len(two) : (one \o two)[Len(one) + j] = two[j]
        <4>1. IsSeq(one) /\ IsSeq(two)
          BY <3>2
        <4>2. QED
          BY ONLY <4>1, Joined
      <3>5. /\ Len(one \o two) = 2
            /\ (one \o two)[1] = x /\ (one \o two)[1 + 1] = y
        BY <3>2, <3>3
      <3>4. QED
        BY <3>3, <3>5 DEF one, two
    <2> HIDE DEF s
    <2>4. \A i \in 1 .. 2 : s[i] = << x, y >>[i]
      BY <2>1, <2>3
    <2>5. s = << x, y >>
      BY <2>1, <2>2, <2>3, <2>4, SameSeq
    <2>6. QED
      BY <2>1, <2>2, <2>5 DEF s
  <1>4. ASSUME NEW s, IsSeq(s) PROVE s \o << >> = s /\ << >> \o s = s
    <2> DEFINE S == {s[i] : i \in 1 .. Len(s)}
    <2>1. \A i \in 1 .. Len(s) : s[i] \in S
      OBVIOUS
    <2> HIDE DEF S
    <2>2. s \in Seq(S)
      BY <1>4, <2>1, SeqFacts
    <2>3. QED
      BY <2>2, ConcatEmptySeq
  <1>5. QED
    BY <1>1, <1>2, <1>3, <1>4

\* A sequence of n sequences.
AreSeqs(seqs, n) ==
    /\ n \in Nat /\ IsSeq(seqs) /\ Len(seqs) = n
    /\ \A i \in 1 .. n : IsSeq(seqs[i])

\* What FlattenSeq has joined of the first of n sequences.
FlattensBy(flatten, seqs, n) ==
    /\ flatten[0] = << >>
    /\ \A i \in 1 .. n : flatten[i] = flatten[i - 1] \o seqs[i]
    /\ \A i \in 0 .. n : IsSeq(flatten[i])
    /\ FlattenSeq(seqs) = flatten[n]

\* FlattenSeq joins one after the other.
LEMMA FlattenRun ==
    ASSUME NEW n, NEW seqs, AreSeqs(seqs, n)
    PROVE  \E flatten : FlattensBy(flatten, seqs, n)
  <1>1. n \in Nat /\ Len(seqs) = n /\ DOMAIN seqs = 1 .. n /\ \A i \in 1 .. n : IsSeq(seqs[i])
    BY SeqFacts DEF AreSeqs
  <1>2. CASE n = 0
    <2>1. FlattenSeq(seqs) = seqs
      BY <1>1, <1>2 DEF FlattenSeq
    <2>2. seqs = << >>
      <3>1. IsSeq(seqs) /\ Len(seqs) = 0 /\ 1 .. 0 = {}
        BY <1>1, <1>2 DEF AreSeqs
      <3>2. \A i \in 1 .. Len(seqs) : seqs[i] = << >>[i]
        BY <3>1
      <3>3. QED
        BY <3>1, <3>2, ShortSeqs, SameSeq
    <2> DEFINE flatten == [i \in {0} |-> << >>]
    <2>3. flatten[0] = << >> /\ 1 .. 0 = {} /\ 0 .. 0 = {0} /\ IsSeq(<< >>)
      BY ShortSeqs
    <2> HIDE DEF flatten
    <2>4. FlattensBy(flatten, seqs, n)
      BY <1>2, <2>1, <2>2, <2>3 DEF FlattensBy
    <2>5. QED
      BY <2>4
  <1>3. CASE n > 0
    <2> DEFINE flat[i \in 1 .. n] ==
                   IF i = 1 THEN seqs[1] ELSE flat[i - 1] \o seqs[i]
    <2>1. FlattenSeq(seqs) = flat[n]
      <3> DEFINE flt[i \in 1 .. Len(seqs)] ==
                     IF i = 1 THEN seqs[i] ELSE flt[i - 1] \o seqs[i]
      <3>1. FlattenSeq(seqs) = flt[Len(seqs)]
        BY <1>1, <1>3 DEF FlattenSeq
      <3>2. \A g : [i \in 1 .. Len(seqs) |-> IF i = 1 THEN seqs[i] ELSE g[i - 1] \o seqs[i]]
                   = [i \in 1 .. n |-> IF i = 1 THEN seqs[1] ELSE g[i - 1] \o seqs[i]]
        BY <1>1
      <3>3. flt = flat
        BY <3>2
      <3> HIDE DEF flt, flat
      <3>4. QED
        BY <1>1, <3>1, <3>3
    <2>2. FiniteNatInductiveDefHypothesis(flat, seqs[1], LAMBDA v, i : v \o seqs[i], 1, n)
      BY DEF FiniteNatInductiveDefHypothesis
    <2> HIDE DEF flat
    <2>3. FiniteNatInductiveDefConclusion(flat, seqs[1], LAMBDA v, i : v \o seqs[i], 1, n)
      BY <1>1, <1>3, <2>2, FiniteNatInductiveDef
    <2>4. flat = [i \in 1 .. n |-> IF i = 1 THEN seqs[1] ELSE flat[i - 1] \o seqs[i]]
      BY <2>3 DEF FiniteNatInductiveDefConclusion
    <2> DEFINE flatten == [i \in 0 .. n |-> IF i = 0 THEN << >> ELSE flat[i]]
    <2>5. flatten[0] = << >> /\ \A i \in 1 .. n : flatten[i] = flat[i]
      BY <1>1
    <2> HIDE DEF flatten
    <2>6. ASSUME NEW i \in 1 .. n PROVE flatten[i] = flatten[i - 1] \o seqs[i]
      <3>1. CASE i = 1
        <4>1. flatten[i] = seqs[1] /\ i - 1 = 0
          BY <1>1, <2>4, <2>5, <3>1
        <4>2. << >> \o seqs[1] = seqs[1]
          BY <1>1, <3>1, ShortSeqs
        <4>3. QED
          BY <2>5, <3>1, <4>1, <4>2
      <3>2. CASE i # 1
        <4>1. i - 1 \in 1 .. n
          BY <1>1, <3>2
        <4>2. flat[i] = flat[i - 1] \o seqs[i]
          BY <2>4, <3>2
        <4>3. QED
          BY <2>5, <4>1, <4>2
      <3>3. QED
        BY <3>1, <3>2
    <2> DEFINE T == {i \in 0 .. n : IsSeq(flatten[i])}
    <2>7. 0 \in T
      BY <1>1, <2>5, ShortSeqs
    <2>8. ASSUME NEW i \in 0 .. n - 1, i \in T PROVE i + 1 \in T
      <3>1. i + 1 \in 1 .. n /\ (i + 1) - 1 = i /\ i + 1 \in 0 .. n
        BY <1>1
      <3>2. flatten[i + 1] = flatten[i] \o seqs[i + 1]
        BY <2>6, <3>1
      <3>3. IsSeq(flatten[i]) /\ IsSeq(seqs[i + 1])
        BY <1>1, <2>8, <3>1
      <3>4. IsSeq(flatten[i] \o seqs[i + 1])
        BY <3>3, Joined
      <3>5. QED
        BY <3>1, <3>2, <3>4
    <2> HIDE DEF T
    <2>9. \A i \in 0 .. n : i \in T
      BY <1>1, <2>7, <2>8, Induction
    <2>10. \A i \in 0 .. n : IsSeq(flatten[i])
      BY <2>9 DEF T
    <2>11. FlattenSeq(seqs) = flatten[n]
      BY <1>1, <1>3, <2>1, <2>5
    <2>12. FlattensBy(flatten, seqs, n)
      BY <2>5, <2>6, <2>10, <2>11 DEF FlattensBy
    <2>13. QED
      BY <2>12
  <1>4. QED
    BY <1>1, <1>2, <1>3

\* So it is one more of them behind the others, and a sequence itself.
LEMMA FlattenIsSeq ==
    ASSUME NEW n, NEW seqs, AreSeqs(seqs, n)
    PROVE  IsSeq(FlattenSeq(seqs))
  <1>1. PICK flatten : FlattensBy(flatten, seqs, n)
    BY FlattenRun
  <1>2. n \in 0 .. n
    BY DEF AreSeqs
  <1>3. QED
    BY <1>1, <1>2 DEF FlattensBy

\* The runs of FlattenSeq on sequences that begin alike.
LEMMA FlattenUnique ==
    ASSUME NEW n, NEW m, NEW seqs, NEW more, AreSeqs(seqs, n), AreSeqs(more, m), n <= m,
           \A i \in 1 .. n : more[i] = seqs[i],
           NEW f, FlattensBy(f, seqs, n), NEW g, FlattensBy(g, more, m)
    PROVE  f[n] = g[n]
  <1> DEFINE S == {i \in 0 .. n : f[i] = g[i]}
  <1>1. n \in Nat /\ m \in Nat
    BY DEF AreSeqs
  <1>2. 0 \in S
    BY <1>1 DEF FlattensBy
  <1>3. ASSUME NEW i \in 0 .. n - 1, i \in S PROVE i + 1 \in S
    <2>1. i + 1 \in 1 .. n /\ i + 1 \in 1 .. m /\ (i + 1) - 1 = i /\ i + 1 \in 0 .. n
      BY <1>1
    <2>2. f[i + 1] = f[i] \o seqs[i + 1] /\ g[i + 1] = g[i] \o more[i + 1]
      BY <2>1 DEF FlattensBy
    <2>3. f[i] = g[i]
      BY <1>3
    <2>4. QED
      BY <2>1, <2>2, <2>3
  <1> HIDE DEF S
  <1>4. \A i \in 0 .. n : i \in S
    BY <1>1, <1>2, <1>3, Induction
  <1>5. n \in 0 .. n
    BY <1>1
  <1>6. QED
    BY <1>4, <1>5 DEF S

\* One more sequence.
LEMMA FlattenMore ==
    ASSUME NEW n \in Nat, NEW seqs, AreSeqs(seqs, n + 1), NEW init, AreSeqs(init, n),
           \A i \in 1 .. n : init[i] = seqs[i]
    PROVE  FlattenSeq(seqs) = FlattenSeq(init) \o seqs[n + 1]
  <1>1. PICK f : FlattensBy(f, init, n)
    BY FlattenRun
  <1>2. PICK g : FlattensBy(g, seqs, n + 1)
    BY FlattenRun
  <1>3. f[n] = g[n]
    <2>1. n <= n + 1
      OBVIOUS
    <2>2. QED
      BY <1>1, <1>2, <2>1, FlattenUnique
  <1>4. g[n + 1] = g[n] \o seqs[n + 1]
    <2>1. n + 1 \in 1 .. n + 1 /\ (n + 1) - 1 = n
      OBVIOUS
    <2>2. QED
      BY <1>2, <2>1 DEF FlattensBy
  <1>5. QED
    BY <1>1, <1>2, <1>3, <1>4 DEF FlattensBy

\* No sequence, one, two.
LEMMA FlattenFew ==
    /\ FlattenSeq(<< >>) = << >>
    /\ \A s : IsSeq(s) => FlattenSeq(<< s >>) = s
    /\ \A s, t : IsSeq(s) /\ IsSeq(t) => FlattenSeq(<< s, t >>) = s \o t
  <1>0. FlattenSeq(<< >>) = << >>
    BY ShortSeqs DEF FlattenSeq
  <1>1. AreSeqs(<< >>, 0)
    BY ShortSeqs DEF AreSeqs
  <1>2. ASSUME NEW s, IsSeq(s) PROVE AreSeqs(<< s >>, 1) /\ FlattenSeq(<< s >>) = s
    <2>1. AreSeqs(<< s >>, 0 + 1)
      <3> DEFINE one == << s >>
      <3>1. IsSeq(one) /\ Len(one) = 1 /\ one[1] = s
        BY ShortSeqs
      <3> HIDE DEF one
      <3>2. \A i \in 1 .. 1 : IsSeq(one[i])
        BY <1>2, <3>1
      <3>3. QED
        BY <3>1, <3>2 DEF AreSeqs, one
    <2>2. FlattenSeq(<< s >>) = FlattenSeq(<< >>) \o << s >>[0 + 1]
      <3>1. \A i \in 1 .. 0 : << >>[i] = << s >>[i]
        OBVIOUS
      <3> DEFINE one == << s >>
                 none == << >>
      <3> HIDE DEF one, none
      <3>2. FlattenSeq(one) = FlattenSeq(none) \o one[0 + 1]
        BY <1>1, <2>1, <3>1, FlattenMore DEF one, none
      <3>3. QED
        BY <3>2 DEF one, none
    <2>3. << s >>[0 + 1] = s
      OBVIOUS
    <2>4. << >> \o s = s
      BY <1>2, ShortSeqs
    <2>5. FlattenSeq(<< s >>) = << >> \o s
      BY <1>0, <2>2, <2>3
    <2>6. QED
      BY <2>1, <2>4, <2>5
  <1>3. ASSUME NEW s, IsSeq(s), NEW t, IsSeq(t) PROVE FlattenSeq(<< s, t >>) = s \o t
    <2> DEFINE two == << s, t >>
               one == << s >>
    <2>1. IsSeq(two) /\ Len(two) = 2 /\ two[1] = s /\ two[1 + 1] = t
      BY ShortSeqs
    <2>2. AreSeqs(one, 1) /\ FlattenSeq(one) = s /\ one[1] = s
      BY <1>2, <1>3
    <2> HIDE DEF one, two
    <2>3. AreSeqs(two, 1 + 1)
      <3>1. \A i \in 1 .. 1 + 1 : i = 1 \/ i = 1 + 1
        OBVIOUS
      <3>2. \A i \in 1 .. 1 + 1 : IsSeq(two[i])
        BY <1>3, <2>1, <3>1
      <3>3. QED
        BY <2>1, <3>2 DEF AreSeqs
    <2>4. \A i \in 1 .. 1 : one[i] = two[i]
      BY <2>1, <2>2
    <2>5. FlattenSeq(two) = FlattenSeq(one) \o two[1 + 1]
      BY <2>2, <2>3, <2>4, FlattenMore
    <2>6. QED
      BY <2>1, <2>2, <2>5 DEF two
  <1>4. QED
    BY <1>0, <1>2, <1>3

\* The sequences of two sequences, one behind the other.
LEMMA JoinedSeqs ==
    ASSUME NEW n, NEW m, NEW a, NEW b, AreSeqs(a, n), AreSeqs(b, m)
    PROVE  AreSeqs(a \o b, n + m)
  <1>1. n \in Nat /\ m \in Nat /\ IsSeq(a) /\ IsSeq(b) /\ Len(a) = n /\ Len(b) = m
    BY DEF AreSeqs
  <1>2. IsSeq(a \o b) /\ Len(a \o b) = n + m /\ n + m \in Nat
    BY <1>1, Joined
  <1>3. ASSUME NEW x \in 1 .. n + m PROVE IsSeq((a \o b)[x])
    <2>1. \/ x \in 1 .. n /\ (a \o b)[x] = a[x]
          \/ x - n \in 1 .. m /\ (a \o b)[x] = b[x - n]
      BY <1>1, <1>2, JoinedAt
    <2>2. QED
      BY <2>1 DEF AreSeqs
  <1>4. QED
    BY <1>2, <1>3 DEF AreSeqs

\* FlattenSeq of one behind the other.
LEMMA FlattenConcat ==
    ASSUME NEW n, NEW m, NEW a, NEW b, AreSeqs(a, n), AreSeqs(b, m)
    PROVE  FlattenSeq(a \o b) = FlattenSeq(a) \o FlattenSeq(b)
  <1>1. n \in Nat /\ m \in Nat /\ IsSeq(a) /\ IsSeq(b) /\ Len(a) = n /\ Len(b) = m
    BY DEF AreSeqs
  <1>2. AreSeqs(a \o b, n + m)
    BY JoinedSeqs
  <1>3. PICK h : FlattensBy(h, a, n)
    BY FlattenRun
  <1>4. PICK f : FlattensBy(f, b, m)
    BY FlattenRun
  <1>5. PICK g : FlattensBy(g, a \o b, n + m)
    BY <1>2, FlattenRun
  <1>6. /\ \A i \in 1 .. n : (a \o b)[i] = a[i]
        /\ \A j \in 1 .. m : (a \o b)[n + j] = b[j]
    BY <1>1, Joined
  <1> DEFINE ab == a \o b
  <1>7. g[n] = h[n]
    <2>1. n <= n + m /\ AreSeqs(ab, n + m) /\ FlattensBy(g, ab, n + m)
          /\ \A i \in 1 .. n : ab[i] = a[i]
      BY <1>1, <1>2, <1>5, <1>6
    <2> HIDE DEF ab
    <2>2. h[n] = g[n]
      BY <1>3, <2>1, FlattenUnique
    <2>3. QED
      BY <2>2
  <1>8. IsSeq(h[n]) /\ FlattenSeq(a) = h[n]
    <2>1. n \in 0 .. n
      BY <1>1
    <2>2. QED
      BY <1>3, <2>1 DEF FlattensBy
  <1> DEFINE S == {j \in 0 .. m : g[n + j] = h[n] \o f[j]}
  <1>9. 0 \in S
    <2>1. h[n] \o << >> = h[n] /\ f[0] = << >> /\ n + 0 = n
      BY <1>1, <1>4, <1>8, ShortSeqs DEF FlattensBy
    <2>2. g[n + 0] = h[n] \o f[0]
      <3>1. g[n + 0] = h[n]
        BY <1>7, <2>1
      <3>2. h[n] \o f[0] = h[n]
        BY <2>1
      <3>3. QED
        BY <3>1, <3>2
    <2>3. 0 \in 0 .. m
      BY <1>1
    <2>4. QED
      BY ONLY <2>2, <2>3, Zenon
  <1>10. ASSUME NEW j \in 0 .. m - 1, j \in S PROVE j + 1 \in S
    <2>1. /\ j + 1 \in 1 .. m /\ (j + 1) - 1 = j /\ j + 1 \in 0 .. m /\ j \in 0 .. m
          /\ n + (j + 1) \in 1 .. n + m /\ (n + (j + 1)) - 1 = n + j
      BY <1>1
    <2>2. g[n + (j + 1)] = g[n + j] \o (a \o b)[n + (j + 1)]
      BY <1>5, <2>1 DEF FlattensBy
    <2>3. f[j + 1] = f[j] \o b[j + 1] /\ IsSeq(f[j])
      BY <1>4, <2>1 DEF FlattensBy
    <2>4. (a \o b)[n + (j + 1)] = b[j + 1] /\ IsSeq(b[j + 1])
      BY <1>6, <2>1 DEF AreSeqs
    <2>5. g[n + j] = h[n] \o f[j]
      BY <1>10
    <2>6. (h[n] \o f[j]) \o b[j + 1] = h[n] \o (f[j] \o b[j + 1])
      <3> DEFINE s == h[n]
                 t == f[j]
                 u == b[j + 1]
      <3>1. IsSeq(s) /\ IsSeq(t) /\ IsSeq(u)
        BY <1>8, <2>3, <2>4
      <3> HIDE DEF s, t, u
      <3>2. (s \o t) \o u = s \o (t \o u)
        BY ONLY <3>1, JoinsAssociate, SMTT(60)
      <3>3. QED
        BY <3>2 DEF s, t, u
    <2>7. g[n + (j + 1)] = h[n] \o f[j + 1]
      BY <2>2, <2>3, <2>4, <2>5, <2>6
    <2>8. QED
      BY <2>1, <2>7
  <1> HIDE DEF S
  <1>11. \A j \in 0 .. m : j \in S
    BY <1>1, <1>9, <1>10, Induction
  <1>12. m \in 0 .. m
    BY <1>1
  <1>13. g[n + m] = h[n] \o f[m]
    BY <1>11, <1>12 DEF S
  <1>14. FlattenSeq(a \o b) = g[n + m] /\ FlattenSeq(b) = f[m]
    BY <1>4, <1>5 DEF FlattensBy
  <1>15. QED
    BY <1>8, <1>13, <1>14

\* Two sequences whose elements are related one by one.
Alike(s, t, R(_, _)) ==
    /\ IsSeq(s) /\ IsSeq(t) /\ Len(s) = Len(t)
    /\ \A i \in 1 .. Len(s) : R(s[i], t[i])

\* Joining keeps them so.
LEMMA AlikeJoined ==
    ASSUME NEW R(_, _), NEW s, NEW t, NEW u, NEW v, Alike(s, t, R), Alike(u, v, R)
    PROVE  Alike(s \o u, t \o v, R)
  <1>1. /\ IsSeq(s) /\ IsSeq(t) /\ Len(s) = Len(t)
        /\ IsSeq(u) /\ IsSeq(v) /\ Len(u) = Len(v)
        /\ \A i \in 1 .. Len(s) : R(s[i], t[i])
        /\ \A i \in 1 .. Len(u) : R(u[i], v[i])
    BY DEF Alike
  <1>2. /\ IsSeq(s \o u) /\ Len(s \o u) = Len(s) + Len(u)
        /\ IsSeq(t \o v) /\ Len(t \o v) = Len(t) + Len(v)
    BY <1>1, Joined
  <1>3. ASSUME NEW x \in 1 .. Len(s \o u) PROVE R((s \o u)[x], (t \o v)[x])
    <2>1. \/ x \in 1 .. Len(s) /\ (s \o u)[x] = s[x]
          \/ /\ ~(x <= Len(s)) /\ x - Len(s) \in 1 .. Len(u)
             /\ (s \o u)[x] = u[x - Len(s)]
      BY <1>1, JoinedAt
    <2>2. x \in 1 .. Len(t \o v)
      BY <1>1, <1>2
    <2>3. \/ x \in 1 .. Len(t) /\ (t \o v)[x] = t[x]
          \/ /\ ~(x <= Len(t)) /\ x - Len(t) \in 1 .. Len(v)
             /\ (t \o v)[x] = v[x - Len(t)]
      BY <1>1, <2>2, JoinedAt
    <2>4. CASE x \in 1 .. Len(s)
      <3>1. (s \o u)[x] = s[x] /\ (t \o v)[x] = t[x]
        BY <1>1, <2>1, <2>3, <2>4, SeqFacts
      <3>2. R(s[x], t[x])
        BY <1>1, <2>4
      <3>3. QED
        BY <3>1, <3>2
    <2>5. CASE x \notin 1 .. Len(s)
      <3>1. (s \o u)[x] = u[x - Len(s)] /\ x - Len(s) \in 1 .. Len(u)
        BY <2>1, <2>5
      <3>2. (t \o v)[x] = v[x - Len(s)]
        BY <1>1, <2>3, <2>5
      <3>3. R(u[x - Len(s)], v[x - Len(s)])
        BY <1>1, <3>1
      <3>4. QED
        BY <3>1, <3>2, <3>3
    <2>6. QED
      BY <2>4, <2>5
  <1>4. Len(s \o u) = Len(t \o v)
    BY <1>1, <1>2
  <1>5. QED
    BY <1>2, <1>3, <1>4 DEF Alike

\* FlattenSeq keeps them so.
LEMMA FlattenAlike ==
    ASSUME NEW R(_, _), NEW n, NEW a, NEW b, AreSeqs(a, n), AreSeqs(b, n),
           \A i \in 1 .. n : Alike(a[i], b[i], R)
    PROVE  Alike(FlattenSeq(a), FlattenSeq(b), R)
  <1>1. PICK f : FlattensBy(f, a, n)
    BY FlattenRun
  <1>2. PICK g : FlattensBy(g, b, n)
    BY FlattenRun
  <1>3. n \in Nat
    BY DEF AreSeqs
  <1> DEFINE S == {i \in 0 .. n : Alike(f[i], g[i], R)}
  <1>4. 0 \in S
    <2>1. Alike(<< >>, << >>, R)
      <3>1. IsSeq(<< >>) /\ Len(<< >>) = 0 /\ 1 .. 0 = {}
        BY ShortSeqs
      <3>2. QED
        BY <3>1 DEF Alike
    <2>2. f[0] = << >> /\ g[0] = << >>
      BY <1>1, <1>2 DEF FlattensBy
    <2>3. QED
      BY <1>3, <2>1, <2>2
  <1>5. ASSUME NEW i \in 0 .. n - 1, i \in S PROVE i + 1 \in S
    <2>1. i + 1 \in 1 .. n /\ (i + 1) - 1 = i /\ i + 1 \in 0 .. n
      BY <1>3
    <2>2. f[i + 1] = f[i] \o a[i + 1] /\ g[i + 1] = g[i] \o b[i + 1]
      BY <1>1, <1>2, <2>1 DEF FlattensBy
    <2>3. Alike(f[i], g[i], R) /\ Alike(a[i + 1], b[i + 1], R)
      BY <1>5, <2>1
    <2>4. Alike(f[i] \o a[i + 1], g[i] \o b[i + 1], R)
      BY <2>3, AlikeJoined
    <2>5. QED
      BY <2>1, <2>2, <2>4
  <1> HIDE DEF S
  <1>6. \A i \in 0 .. n : i \in S
    BY <1>3, <1>4, <1>5, Induction
  <1>7. n \in 0 .. n
    BY <1>3
  <1>8. Alike(f[n], g[n], R)
    BY <1>6, <1>7 DEF S
  <1>9. FlattenSeq(a) = f[n] /\ FlattenSeq(b) = g[n]
    BY <1>1, <1>2 DEF FlattensBy
  <1>10. QED
    BY <1>8, <1>9

\* The sequences in a sequence of sequences of them: what is joined first does
\* not matter.
LEMMA FlattenTwice ==
    ASSUME NEW n, NEW b, NEW c, AreSeqs(b, n), AreSeqs(c, n),
           \A i \in 1 .. n : AreSeqs(b[i], Len(b[i])) /\ c[i] = FlattenSeq(b[i])
    PROVE  /\ AreSeqs(FlattenSeq(b), Len(FlattenSeq(b)))
           /\ FlattenSeq(FlattenSeq(b)) = FlattenSeq(c)
  <1>1. PICK f : FlattensBy(f, b, n)
    BY FlattenRun
  <1>2. PICK g : FlattensBy(g, c, n)
    BY FlattenRun
  <1>3. n \in Nat
    BY DEF AreSeqs
  <1> DEFINE S == {i \in 0 .. n : AreSeqs(f[i], Len(f[i])) /\ FlattenSeq(f[i]) = g[i]}
  <1>4. 0 \in S
    <2>1. AreSeqs(<< >>, Len(<< >>)) /\ FlattenSeq(<< >>) = << >>
      <3>1. IsSeq(<< >>) /\ Len(<< >>) = 0 /\ 1 .. 0 = {}
        BY ShortSeqs
      <3>2. QED
        BY <3>1, FlattenFew DEF AreSeqs
    <2>2. f[0] = << >> /\ g[0] = << >>
      BY <1>1, <1>2 DEF FlattensBy
    <2>3. QED
      BY <1>3, <2>1, <2>2
  <1>5. ASSUME NEW i \in 0 .. n - 1, i \in S PROVE i + 1 \in S
    <2>1. i + 1 \in 1 .. n /\ (i + 1) - 1 = i /\ i + 1 \in 0 .. n
      BY <1>3
    <2>2. f[i + 1] = f[i] \o b[i + 1] /\ g[i + 1] = g[i] \o c[i + 1]
      BY <1>1, <1>2, <2>1 DEF FlattensBy
    <2>3. /\ AreSeqs(f[i], Len(f[i])) /\ FlattenSeq(f[i]) = g[i]
          /\ AreSeqs(b[i + 1], Len(b[i + 1])) /\ c[i + 1] = FlattenSeq(b[i + 1])
      BY <1>5, <2>1
    <2>4. FlattenSeq(f[i] \o b[i + 1]) = FlattenSeq(f[i]) \o FlattenSeq(b[i + 1])
      <3> DEFINE s == f[i]
                 t == b[i + 1]
      <3>1. AreSeqs(s, Len(s)) /\ AreSeqs(t, Len(t))
        BY <2>3
      <3> HIDE DEF s, t
      <3>2. FlattenSeq(s \o t) = FlattenSeq(s) \o FlattenSeq(t)
        BY ONLY <3>1, FlattenConcat
      <3>3. QED
        BY <3>2 DEF s, t
    <2>5. AreSeqs(f[i] \o b[i + 1], Len(f[i] \o b[i + 1]))
      <3>1. AreSeqs(f[i] \o b[i + 1], Len(f[i]) + Len(b[i + 1]))
        BY <2>3, JoinedSeqs
      <3>2. QED
        BY <3>1 DEF AreSeqs
    <2>6. QED
      BY <2>1, <2>2, <2>3, <2>4, <2>5
  <1> HIDE DEF S
  <1>6. \A i \in 0 .. n : i \in S
    BY <1>3, <1>4, <1>5, Induction
  <1>7. n \in 0 .. n
    BY <1>3
  <1>8. AreSeqs(f[n], Len(f[n])) /\ FlattenSeq(f[n]) = g[n]
    BY <1>6, <1>7 DEF S
  <1>9. FlattenSeq(b) = f[n] /\ FlattenSeq(c) = g[n]
    BY <1>1, <1>2 DEF FlattensBy
  <1>10. QED
    BY <1>8, <1>9

-----------------------------------------------------------------------------
(* A piece of JSON text: tokens inside its length, one inside the other or *)
(* beside it.  Where the pieces that a piece is joined of lie in it.       *)

\* A token of a piece of JSON text, and such a piece.
IsToken(token, len) ==
    \E type, text : \E start \in Nat, end \in Nat :
        /\ start <= end /\ end <= len
        /\ token = [type |-> type, start |-> start, end |-> end, text |-> text]

IsPiece(p) ==
    /\ p.len \in Nat /\ IsSeq(p.tokens)
    /\ \A i \in 1 .. Len(p.tokens) : IsToken(p.tokens[i], p.len)

\* The piece is a value: its first token ends behind the start of the others.
IsValue(p) ==
    /\ IsPiece(p) /\ Len(p.tokens) > 0
    /\ \A i \in 1 .. Len(p.tokens) : p.tokens[i].start <= p.tokens[1].end

\* A token of the document is one of a piece that starts at off.
IsMoved(token, of, off) ==
    /\ token.type = of.type /\ token.text = of.text
    /\ token.start = of.start + off /\ token.end = of.end + off

\* The piece is part of the document: its tokens are those behind token k, and
\* what follows them starts behind it.
Lies(doc, k, off, p) ==
    /\ k \in Nat /\ off \in Nat /\ k + Len(p.tokens) <= Len(doc.tokens)
    /\ \A i \in 1 .. Len(p.tokens) : IsMoved(doc.tokens[k + i], p.tokens[i], off)
    /\ \A j \in k + Len(p.tokens) + 1 .. Len(doc.tokens) : doc.tokens[j].start > off + p.len

\* What a token has, and where it may be moved.
LEMMA TokenFacts ==
    ASSUME NEW token, NEW len \in Nat, IsToken(token, len)
    PROVE  /\ token.start \in Nat /\ token.end \in Nat /\ token.start <= token.end
           /\ token.end <= len
           /\ \A to \in Nat : len <= to => IsToken(token, to)
  <1>1. PICK type, text : \E start \in Nat, end \in Nat :
           /\ start <= end /\ end <= len
           /\ token = [type |-> type, start |-> start, end |-> end, text |-> text]
    BY DEF IsToken
  <1>2. PICK start \in Nat, end \in Nat :
           /\ start <= end /\ end <= len
           /\ token = [type |-> type, start |-> start, end |-> end, text |-> text]
    BY <1>1
  <1>3. ASSUME NEW to \in Nat, len <= to PROVE IsToken(token, to)
    <2>1. end <= to
      BY <1>2, <1>3
    <2>2. QED
      BY <1>2, <2>1 DEF IsToken
  <1>4. /\ token.start \in Nat /\ token.end \in Nat /\ token.start <= token.end
        /\ token.end <= len
    BY <1>2
  <1>5. QED
    BY <1>3, <1>4

\* A token moved, as Shift does it.
LEMMA TokenMoved ==
    ASSUME NEW token, NEW len \in Nat, IsToken(token, len),
           NEW by \in Nat, NEW to \in Nat, len + by <= to, NEW moved,
           moved = [token EXCEPT !.start = @ + by, !.end = @ + by]
    PROVE  IsToken(moved, to) /\ IsMoved(moved, token, by)
  <1>1. PICK type, text : \E start \in Nat, end \in Nat :
           /\ start <= end /\ end <= len
           /\ token = [type |-> type, start |-> start, end |-> end, text |-> text]
    BY DEF IsToken
  <1>2. PICK start \in Nat, end \in Nat :
           /\ start <= end /\ end <= len
           /\ token = [type |-> type, start |-> start, end |-> end, text |-> text]
    BY <1>1
  <1>3. moved = [type |-> type, start |-> start + by, end |-> end + by, text |-> text]
    <2>1. token.start = start /\ token.end = end
      BY <1>2
    <2>2. moved = [token EXCEPT !.start = start + by, !.end = end + by]
      BY <2>1
    <2>3. ASSUME NEW s, NEW e
          PROVE  [[type |-> type, start |-> start, end |-> end, text |-> text]
                       EXCEPT !.start = s, !.end = e]
                      = [type |-> type, start |-> s, end |-> e, text |-> text]
      <3>1. [[type |-> type, start |-> start, end |-> end, text |-> text] EXCEPT !.start = s]
               = [type |-> type, start |-> s, end |-> end, text |-> text]
        OBVIOUS
      <3>2. [[type |-> type, start |-> s, end |-> end, text |-> text] EXCEPT !.end = e]
               = [type |-> type, start |-> s, end |-> e, text |-> text]
        OBVIOUS
      <3>3. QED
        BY <3>1, <3>2
    <2>4. QED
      BY <1>2, <2>2, <2>3
  <1>4. start + by \in Nat /\ end + by \in Nat /\ start + by <= end + by /\ end + by <= to
    BY <1>2
  <1>5. IsToken(moved, to)
    BY <1>3, <1>4 DEF IsToken
  <1>6. IsMoved(moved, token, by)
    BY <1>2, <1>3 DEF IsMoved
  <1>7. QED
    BY <1>5, <1>6

\* The tokens of a piece, moved.
LEMMA ShiftIs ==
    ASSUME NEW p, IsPiece(p), NEW by \in Nat, NEW to \in Nat, p.len + by <= to
    PROVE  LET moved == Shift(p.tokens, by)
           IN  /\ IsSeq(moved) /\ Len(moved) = Len(p.tokens)
               /\ \A i \in 1 .. Len(p.tokens) :
                     IsToken(moved[i], to) /\ IsMoved(moved[i], p.tokens[i], by)
  <1> DEFINE tokens == p.tokens
             moved == Shift(tokens, by)
             n == Len(tokens)
  <1>1. n \in Nat /\ DOMAIN tokens = 1 .. n
    BY SeqFacts DEF IsPiece
  <1>2. moved = [i \in 1 .. n |-> [tokens[i] EXCEPT !.start = @ + by, !.end = @ + by]]
    BY <1>1 DEF Shift
  <1>3. \A i \in 1 .. n : IsToken(tokens[i], p.len) /\ p.len \in Nat
    BY DEF IsPiece
  <1> HIDE DEF moved, n, tokens
  <1>4. \A i \in 1 .. n : moved[i] = [tokens[i] EXCEPT !.start = @ + by, !.end = @ + by]
    BY <1>2
  <1>5. moved = [i \in 1 .. n |-> moved[i]]
    BY <1>2
  <1>6. IsSeq(moved) /\ Len(moved) = n
    BY <1>1, <1>5, FunctionIsSeq
  <1>7. ASSUME NEW i \in 1 .. n
        PROVE  IsToken(moved[i], to) /\ IsMoved(moved[i], tokens[i], by)
    <2>1. moved[i] = [tokens[i] EXCEPT !.start = @ + by, !.end = @ + by]
      BY <1>4
    <2>2. IsToken(tokens[i], p.len) /\ p.len \in Nat
      BY <1>3
    <2> DEFINE one == moved[i]
               of == tokens[i]
    <2>3. one = [of EXCEPT !.start = @ + by, !.end = @ + by] /\ IsToken(of, p.len)
      BY <2>1, <2>2
    <2> HIDE DEF one, of
    <2>4. IsToken(one, to) /\ IsMoved(one, of, by)
      BY <2>2, <2>3, TokenMoved
    <2>5. QED
      BY <2>4 DEF one, of
  <1>8. QED
    BY <1>6, <1>7 DEF moved, n, tokens

\* The place of a place.
LEMMA PlacedTwice ==
    ASSUME NEW a, NEW b, NEW c, NEW by \in Nat, NEW off \in Nat, c.start \in Nat, c.end \in Nat,
           IsMoved(a, b, off), IsMoved(b, c, by)
    PROVE  IsMoved(a, c, off + by)
  BY DEF IsMoved

\* Two pieces beside each other are one.
LEMMA BesidePiece ==
    ASSUME NEW f, NEW g, IsPiece(f), IsPiece(g)
    PROVE  LET both == Beside(f, g)
               n == Len(f.tokens)
           IN  /\ IsPiece(both) /\ both.len = f.len + 1 + g.len
               /\ Len(both.tokens) = n + Len(g.tokens)
               /\ \A i \in 1 .. n : both.tokens[i] = f.tokens[i]
               /\ \A i \in 1 .. Len(g.tokens) :
                     IsMoved(both.tokens[n + i], g.tokens[i], f.len + 1)
  <1> DEFINE n == Len(f.tokens)
             m == Len(g.tokens)
             by == f.len + 1
             to == f.len + 1 + g.len
             moved == Shift(g.tokens, by)
             first == f.tokens
             tokens == first \o moved
             both == Beside(f, g)
  <1>1. both.len = to /\ both.tokens = tokens
    BY DEF Beside
  <1>2. /\ f.len \in Nat /\ g.len \in Nat /\ IsSeq(first) /\ n \in Nat /\ m \in Nat
        /\ \A i \in 1 .. n : IsToken(first[i], f.len)
    BY SeqFacts DEF IsPiece
  <1>3. by \in Nat /\ to \in Nat /\ g.len + by <= to /\ f.len <= to
    BY <1>2
  <1>4. /\ IsSeq(moved) /\ Len(moved) = m
        /\ \A i \in 1 .. m : IsToken(moved[i], to) /\ IsMoved(moved[i], g.tokens[i], by)
    <2> HIDE DEF by, to
    <2>1. QED
      BY <1>3, ShiftIs
  <1> HIDE DEF moved, first
  <1>5. /\ IsSeq(tokens) /\ Len(tokens) = n + m
        /\ \A i \in 1 .. n : tokens[i] = first[i]
        /\ \A i \in 1 .. m : tokens[n + i] = moved[i]
    <2>1. n = Len(first) /\ m = Len(moved)
      BY <1>4 DEF first
    <2> HIDE DEF n, m
    <2>2. QED
      BY <1>2, <1>4, <2>1, Joined
  <1> HIDE DEF n, m
  <1>6. ASSUME NEW x \in 1 .. n + m PROVE IsToken(tokens[x], to)
    <2>1. CASE x <= n
      <3>1. x \in 1 .. n
        BY <1>2, <2>1
      <3>2. tokens[x] = first[x] /\ IsToken(first[x], f.len)
        BY <1>2, <1>5, <3>1
      <3>3. IsToken(first[x], to)
        <4> DEFINE one == first[x]
        <4>1. IsToken(one, f.len)
          BY <3>2
        <4> HIDE DEF one, to
        <4>2. IsToken(one, to)
          BY <1>2, <1>3, <4>1, TokenFacts
        <4>3. QED
          BY <4>2 DEF one
      <3>4. QED
        BY <3>2, <3>3
    <2>2. CASE ~(x <= n)
      <3>1. x - n \in 1 .. m /\ n + (x - n) = x
        BY <1>2, <2>2
      <3>2. tokens[n + (x - n)] = moved[x - n] /\ IsToken(moved[x - n], to)
        BY <1>4, <1>5, <3>1
      <3>3. QED
        BY <3>1, <3>2
    <2>3. QED
      BY <2>1, <2>2
  <1> HIDE DEF both
  <1>7. IsPiece(both)
    <2> HIDE DEF to, tokens
    <2>1. QED
      BY <1>1, <1>3, <1>5, <1>6 DEF IsPiece
  <1>8. QED
    BY <1>1, <1>4, <1>5, <1>7 DEF both, first, n, m

\* Their places in a document.
LEMMA BesideLies ==
    ASSUME NEW doc, NEW k, NEW off, NEW f, NEW g, IsPiece(f), IsPiece(g),
           Lies(doc, k, off, Beside(f, g)), Tokenized(doc)
    PROVE  /\ Lies(doc, k, off, f)
           /\ Lies(doc, k + Len(f.tokens), off + (f.len + 1), g)
  <1> DEFINE n == Len(f.tokens)
             m == Len(g.tokens)
             len == Len(doc.tokens)
             fl == f.len
             gl == g.len
             by == fl + 1
             both == Beside(f, g)
             T(j) == doc.tokens[j]
  <1>1. /\ IsPiece(both) /\ both.len = f.len + 1 + g.len
        /\ Len(both.tokens) = n + m
        /\ \A i \in 1 .. n : both.tokens[i] = f.tokens[i]
        /\ \A i \in 1 .. m : IsMoved(both.tokens[n + i], g.tokens[i], by)
    BY BesidePiece
  <1>2. /\ f.len \in Nat /\ g.len \in Nat /\ n \in Nat /\ m \in Nat /\ len \in Nat
        /\ \A i \in 1 .. m : g.tokens[i].start \in Nat /\ g.tokens[i].end \in Nat
    <2>1. f.len \in Nat /\ g.len \in Nat /\ n \in Nat /\ m \in Nat /\ len \in Nat
          /\ \A i \in 1 .. m : IsToken(g.tokens[i], g.len)
      BY SeqFacts DEF IsPiece, Tokenized
    <2>2. ASSUME NEW i \in 1 .. m PROVE g.tokens[i].start \in Nat /\ g.tokens[i].end \in Nat
      <3> DEFINE one == g.tokens[i]
      <3>1. IsToken(one, g.len)
        BY <2>1
      <3> HIDE DEF one
      <3>2. one.start \in Nat /\ one.end \in Nat
        BY <2>1, <3>1, TokenFacts
      <3>3. QED
        BY <3>2 DEF one
    <2>3. QED
      BY <2>1, <2>2
  <1> HIDE DEF both
  <1>3. /\ k \in Nat /\ off \in Nat /\ k + (n + m) <= len
        /\ \A i \in 1 .. n + m : IsMoved(T(k + i), both.tokens[i], off)
        /\ \A j \in k + (n + m) + 1 .. len : T(j).start > off + both.len
    BY <1>1 DEF Lies, both
  <1>20. fl \in Nat /\ gl \in Nat /\ by = fl + 1 /\ by \in Nat /\ both.len = fl + 1 + gl
        /\ n \in Nat /\ m \in Nat /\ len \in Nat
    BY <1>1, <1>2
  <1> HIDE DEF n, m, len, fl, gl, by
  <1>4. ASSUME NEW i \in 1 .. n PROVE IsMoved(T(k + i), f.tokens[i], off)
    <2>1. i \in 1 .. n + m
      BY <1>2, <1>20
    <2>2. QED
      BY <1>1, <1>3, <2>1
  <1>5. ASSUME NEW i \in 1 .. m PROVE IsMoved(T((k + n) + i), g.tokens[i], off + by)
    <2>1. n + i \in 1 .. n + m /\ k + (n + i) = (k + n) + i
      BY <1>2, <1>20, <1>3
    <2>2. IsMoved(T(k + (n + i)), both.tokens[n + i], off)
      BY <1>3, <2>1
    <2>3. IsMoved(both.tokens[n + i], g.tokens[i], by)
      BY <1>1
    <2> DEFINE a == T(k + (n + i))
               b == both.tokens[n + i]
               c == g.tokens[i]
    <2>4. IsMoved(a, b, off) /\ IsMoved(b, c, by) /\ c.start \in Nat /\ c.end \in Nat
      BY <1>2, <1>20, <2>2, <2>3
    <2>5. by \in Nat /\ off \in Nat
      BY <1>20, <1>3
    <2> HIDE DEF a, b, c
    <2>6. IsMoved(a, c, off + by)
      BY <2>4, <2>5, PlacedTwice
    <2>7. QED
      BY <2>1, <2>6 DEF a, c
  <1>6. ASSUME NEW j \in k + n + 1 .. len PROVE T(j).start > off + fl
    <2>1. CASE j <= k + (n + m)
      <3>1. j - (k + n) \in 1 .. m /\ (k + n) + (j - (k + n)) = j
        BY <1>2, <1>20, <1>3, <2>1
      <3>2. IsMoved(T(j), g.tokens[j - (k + n)], off + by)
        BY <1>5, <3>1
      <3>3. T(j).start = g.tokens[j - (k + n)].start + (off + by)
            /\ g.tokens[j - (k + n)].start \in Nat
        BY <1>2, <1>20, <3>1, <3>2 DEF IsMoved
      <3> DEFINE s == g.tokens[j - (k + n)].start
                 u == T(j).start
      <3>4. u = s + (off + (fl + 1)) /\ s \in Nat
        BY <1>20, <3>3
      <3> HIDE DEF s, u
      <3>5. u > off + fl
        BY <1>2, <1>20, <1>3, <3>4
      <3>6. QED
        BY <3>5 DEF u
    <2>2. CASE ~(j <= k + (n + m))
      <3>1. j \in k + (n + m) + 1 .. len
        BY <1>2, <1>20, <1>3, <2>2
      <3> DEFINE u == T(j).start
      <3>2. u > off + (fl + 1 + gl)
        BY <1>20, <1>3, <3>1
      <3>3. u \in Nat
        BY <1>2, <1>3, <1>20 DEF Tokenized, len
      <3> HIDE DEF u
      <3>4. u > off + fl
        BY <1>2, <1>20, <1>3, <3>2, <3>3
      <3>5. QED
        BY <3>4 DEF u
    <2>3. QED
      BY <2>1, <2>2
  <1>7. ASSUME NEW j \in (k + n) + m + 1 .. len PROVE T(j).start > (off + by) + gl
    <2>1. j \in k + (n + m) + 1 .. len
      BY <1>2, <1>20, <1>3
    <2>2. T(j).start > off + both.len
      BY <1>3, <2>1
    <2>3. off + both.len = (off + by) + gl
      BY <1>1, <1>2, <1>20, <1>3
    <2>4. QED
      BY <2>2, <2>3
  <1>8. Lies(doc, k, off, f)
    <2>1. k + n <= len
      BY <1>2, <1>20, <1>3
    <2>2. QED
      BY <1>3, <1>4, <1>6, <2>1 DEF Lies, n, len, fl
  <1>9. Lies(doc, k + n, off + by, g)
    <2>1. k + n \in Nat /\ off + by \in Nat /\ (k + n) + m <= len
      BY <1>2, <1>20, <1>3
    <2>2. QED
      BY <1>5, <1>7, <2>1 DEF Lies, m, len, gl
  <1>10. QED
    BY <1>8, <1>9 DEF n, by, fl

\* A token of given bounds.
LEMMA NewToken ==
    ASSUME NEW type, NEW text, NEW start \in Nat, NEW end \in Nat, start <= end,
           NEW len, end <= len
    PROVE  \A token : token = [type |-> type, start |-> start, end |-> end, text |-> text] =>
              /\ IsToken(token, len) /\ token.start = start /\ token.end = end
              /\ token.type = type /\ token.text = text
  <1>1. SUFFICES ASSUME NEW token,
                        token = [type |-> type, start |-> start, end |-> end, text |-> text]
                 PROVE  /\ IsToken(token, len) /\ token.start = start /\ token.end = end
                        /\ token.type = type /\ token.text = text
    OBVIOUS
  <1>2. IsToken(token, len)
    BY <1>1 DEF IsToken
  <1>3. QED
    BY <1>1, <1>2

\* A piece in brackets is a value.
LEMMA BracketedPiece ==
    ASSUME NEW p, IsPiece(p), NEW type
    PROVE  LET value == Bracketed(type, p)
           IN  /\ IsValue(value) /\ value.len = p.len + 2
               /\ Len(value.tokens) = 1 + Len(p.tokens)
               /\ value.tokens[1] = [type |-> type, start |-> 0, end |-> p.len + 2, text |-> ""]
               /\ \A i \in 1 .. Len(p.tokens) :
                     IsMoved(value.tokens[1 + i], p.tokens[i], 1)
  <1> DEFINE m == Len(p.tokens)
             len == p.len
             to == len + 2
             moved == Shift(p.tokens, 1)
             head == [type |-> type, start |-> 0, end |-> len + 2, text |-> ""]
             first == << head >>
             tokens == first \o moved
             value == Bracketed(type, p)
  <1>1. value.len = to /\ value.tokens = tokens
    BY DEF Bracketed
  <1>2. len \in Nat /\ m \in Nat
    BY SeqFacts DEF IsPiece
  <1>3. /\ IsSeq(moved) /\ Len(moved) = m
        /\ \A i \in 1 .. m : IsToken(moved[i], to) /\ IsMoved(moved[i], p.tokens[i], 1)
    <2>1. to \in Nat /\ len + 1 <= to
      BY <1>2
    <2> HIDE DEF to
    <2>2. QED
      BY <2>1, ShiftIs
  <1>4. IsSeq(first) /\ Len(first) = 1 /\ first[1] = head
    <2> HIDE DEF head
    <2>1. QED
      BY ShortSeqs
  <1>5. IsToken(head, to) /\ head.start = 0 /\ head.end = to
    <2>1. 0 \in Nat /\ to \in Nat /\ 0 <= to /\ to <= to
      BY <1>2
    <2>2. head = [type |-> type, start |-> 0, end |-> to, text |-> ""]
      OBVIOUS
    <2> DEFINE none == 0
               empty == ""
    <2>3. none \in Nat /\ none <= to /\ none = 0
          /\ head = [type |-> type, start |-> none, end |-> to, text |-> empty]
      BY <2>1, <2>2
    <2> HIDE DEF to, head, none, empty
    <2>4. \A token : token = [type |-> type, start |-> none, end |-> to, text |-> empty] =>
              IsToken(token, to) /\ token.start = none /\ token.end = to
      BY <2>1, <2>3, NewToken
    <2>5. QED
      BY <2>3, <2>4
  <1> HIDE DEF moved, first, head
  <1>6. /\ IsSeq(tokens) /\ Len(tokens) = 1 + m /\ tokens[1] = head
        /\ \A i \in 1 .. m : tokens[1 + i] = moved[i]
    <2>1. /\ IsSeq(tokens) /\ Len(tokens) = Len(first) + Len(moved)
          /\ \A i \in 1 .. Len(first) : tokens[i] = first[i]
          /\ \A i \in 1 .. Len(moved) : tokens[Len(first) + i] = moved[i]
      <3>1. IsSeq(first) /\ IsSeq(moved)
        BY <1>3, <1>4
      <3>2. QED
        BY ONLY <3>1, Joined
    <2>2. 1 \in 1 .. Len(first)
      BY <1>4
    <2> HIDE DEF tokens
    <2>3. QED
      BY <1>3, <1>4, <2>1, <2>2
  <1> HIDE DEF m, len, to, tokens
  <1>7. ASSUME NEW x \in 1 .. 1 + m
        PROVE  IsToken(tokens[x], to) /\ tokens[x].start <= to
    <2>1. x = 1 \/ (x - 1 \in 1 .. m /\ 1 + (x - 1) = x)
      BY <1>2
    <2>2. IsToken(tokens[x], to)
      BY <1>3, <1>5, <1>6, <2>1
    <2> DEFINE one == tokens[x]
    <2>3. IsToken(one, to) /\ to \in Nat
      BY <1>2, <2>2 DEF to
    <2> HIDE DEF one
    <2>4. one.start \in Nat /\ one.end \in Nat /\ one.start <= one.end /\ one.end <= to
      BY <2>3, TokenFacts
    <2>5. one.start <= to
      BY <2>3, <2>4
    <2>6. QED
      BY <2>2, <2>5 DEF one
  <1>8. to \in Nat /\ 1 + m > 0
    BY <1>2 DEF to
  <1> HIDE DEF value
  <1>9. IsPiece(value)
    BY <1>1, <1>6, <1>7, <1>8 DEF IsPiece
  <1>10. IsValue(value)
    BY <1>1, <1>5, <1>6, <1>7, <1>8, <1>9 DEF IsValue
  <1>11. QED
    BY <1>1, <1>3, <1>6, <1>10 DEF value, m, to, len, head

\* Its place in a document: the bracketed token, and what is inside it.
LEMMA BracketedLies ==
    ASSUME NEW doc, NEW k, NEW off, NEW p, IsPiece(p), NEW type,
           Lies(doc, k, off, Bracketed(type, p)), Tokenized(doc)
    PROVE  /\ k + 1 \in DOMAIN doc.tokens
           /\ doc.tokens[k + 1].type = type /\ doc.tokens[k + 1].text = ""
           /\ Lies(doc, k + 1, off + 1, p)
           /\ Len(p.tokens) = Cardinality(Within(doc.tokens, k + 1))
           /\ Within(doc.tokens, k + 1) = (k + 1) + 1 .. (k + 1) + Len(p.tokens)
           /\ (k + 1) + Len(p.tokens) <= Len(doc.tokens)
  <1> DEFINE m == Len(p.tokens)
             pl == p.len
             len == Len(doc.tokens)
             value == Bracketed(type, p)
             T(j) == doc.tokens[j]
  <1>1. /\ IsValue(value) /\ value.len = pl + 2
        /\ Len(value.tokens) = 1 + m
        /\ value.tokens[1] = [type |-> type, start |-> 0, end |-> pl + 2, text |-> ""]
        /\ \A i \in 1 .. m : IsMoved(value.tokens[1 + i], p.tokens[i], 1)
    BY BracketedPiece
  <1>2. /\ pl \in Nat /\ m \in Nat /\ len \in Nat /\ DOMAIN doc.tokens = 1 .. len
        /\ \A j \in 1 .. len : T(j).start \in Nat
        /\ \A i \in 1 .. m : /\ p.tokens[i].start \in Nat /\ p.tokens[i].end \in Nat
                             /\ p.tokens[i].start <= pl
    <2>1. /\ pl \in Nat /\ m \in Nat /\ len \in Nat /\ DOMAIN doc.tokens = 1 .. len
          /\ \A j \in 1 .. len : T(j).start \in Nat
          /\ \A i \in 1 .. m : IsToken(p.tokens[i], pl)
      BY SeqFacts DEF IsPiece, Tokenized
    <2>2. ASSUME NEW i \in 1 .. m
          PROVE  /\ p.tokens[i].start \in Nat /\ p.tokens[i].end \in Nat
                 /\ p.tokens[i].start <= pl
      <3> DEFINE one == p.tokens[i]
      <3>1. IsToken(one, pl)
        BY <2>1
      <3> HIDE DEF one, pl
      <3>2. one.start \in Nat /\ one.end \in Nat /\ one.start <= one.end /\ one.end <= pl
        BY <2>1, <3>1, TokenFacts
      <3>3. one.start <= pl
        BY <2>1, <3>2
      <3>4. QED
        BY <3>2, <3>3 DEF one
    <2>3. QED
      BY <2>1, <2>2
  <1> HIDE DEF value
  <1>3. /\ k \in Nat /\ off \in Nat /\ k + (1 + m) <= len
        /\ \A i \in 1 .. 1 + m : IsMoved(T(k + i), value.tokens[i], off)
        /\ \A j \in k + (1 + m) + 1 .. len : T(j).start > off + (pl + 2)
    BY <1>1 DEF Lies, value
  <1> HIDE DEF m, len, pl
  <1>4. /\ k + 1 \in 1 .. len /\ T(k + 1).type = type /\ T(k + 1).text = ""
        /\ T(k + 1).end = (pl + 2) + off
    <2>1. 1 \in 1 .. 1 + m /\ k + 1 \in 1 .. len
      BY <1>2, <1>3
    <2>2. IsMoved(T(k + 1), value.tokens[1], off)
      BY <1>3, <2>1
    <2>3. /\ value.tokens[1].type = type /\ value.tokens[1].text = ""
          /\ value.tokens[1].end = pl + 2
      <3>1. \A one, e, s, w : one = [type |-> type, start |-> s, end |-> e, text |-> w] =>
               one.type = type /\ one.text = w /\ one.end = e
        OBVIOUS
      <3> DEFINE one == value.tokens[1]
                 e == pl + 2
                 s == 0
                 w == ""
      <3>2. one = [type |-> type, start |-> s, end |-> e, text |-> w]
        BY <1>1
      <3> HIDE DEF one, e, s, w
      <3>3. one.type = type /\ one.text = w /\ one.end = e
        BY <3>1, <3>2
      <3>4. QED
        BY <3>3 DEF one, e, w
    <2>4. QED
      BY <2>1, <2>2, <2>3 DEF IsMoved
  <1>5. ASSUME NEW i \in 1 .. m PROVE IsMoved(T((k + 1) + i), p.tokens[i], off + 1)
    <2>1. 1 + i \in 1 .. 1 + m /\ k + (1 + i) = (k + 1) + i
      BY <1>2, <1>3
    <2> DEFINE a == T(k + (1 + i))
               b == value.tokens[1 + i]
               c == p.tokens[i]
    <2>2. IsMoved(a, b, off) /\ IsMoved(b, c, 1) /\ c.start \in Nat /\ c.end \in Nat
      BY <1>1, <1>2, <1>3, <2>1
    <2> HIDE DEF a, b, c
    <2>3. IsMoved(a, c, off + 1)
      BY <1>3, <2>2, PlacedTwice
    <2>4. QED
      BY <2>1, <2>3 DEF a, c
  <1>6. ASSUME NEW j \in (k + 1) + m + 1 .. len
        PROVE  T(j).start > (off + 1) + pl /\ ~(T(j).start <= T(k + 1).end)
    <2> DEFINE u == T(j).start
    <2>1. u > off + (pl + 2) /\ u \in Nat
      <3>1. j \in k + (1 + m) + 1 .. len /\ j \in 1 .. len
        BY <1>2, <1>3
      <3>2. QED
        BY <1>2, <1>3, <3>1
    <2> HIDE DEF u
    <2>2. u > (off + 1) + pl /\ ~(u <= (pl + 2) + off)
      BY <1>2, <1>3, <2>1
    <2>3. QED
      BY <1>4, <2>2 DEF u
  <1>7. ASSUME NEW j \in (k + 1) + 1 .. (k + 1) + m PROVE T(j).start <= T(k + 1).end
    <2>1. j - (k + 1) \in 1 .. m /\ (k + 1) + (j - (k + 1)) = j
      BY <1>2, <1>3
    <2> DEFINE s == p.tokens[j - (k + 1)].start
               u == T(j).start
    <2>2. u = s + (off + 1) /\ s \in Nat /\ s <= pl
      <3>1. IsMoved(T((k + 1) + (j - (k + 1))), p.tokens[j - (k + 1)], off + 1)
        BY <1>5, <2>1
      <3>2. QED
        BY <1>2, <2>1, <3>1 DEF IsMoved
    <2> HIDE DEF s, u
    <2>3. u <= (pl + 2) + off
      BY <1>2, <1>3, <2>2
    <2>4. QED
      BY <1>4, <2>3 DEF u
  <1>8. Lies(doc, k + 1, off + 1, p)
    <2>1. k + 1 \in Nat /\ off + 1 \in Nat /\ (k + 1) + m <= len
      BY <1>2, <1>3
    <2>2. \A j \in (k + 1) + m + 1 .. len : T(j).start > (off + 1) + pl
      BY <1>6
    <2>3. QED
      BY <1>5, <2>1, <2>2 DEF Lies, m, len, pl
  <1>9. Within(doc.tokens, k + 1) = (k + 1) + 1 .. (k + 1) + m
    <2>1. Within(doc.tokens, k + 1)
             = {j \in (k + 1) + 1 .. len : T(j).start <= T(k + 1).end}
      BY DEF Within, len
    <2>2. ASSUME NEW j \in (k + 1) + 1 .. len
          PROVE  T(j).start <= T(k + 1).end <=> j \in (k + 1) + 1 .. (k + 1) + m
      <3>1. j \in (k + 1) + 1 .. (k + 1) + m \/ j \in (k + 1) + m + 1 .. len
        BY <1>2, <1>3
      <3>2. j \in (k + 1) + m + 1 .. len => j \notin (k + 1) + 1 .. (k + 1) + m
        BY <1>2, <1>3
      <3>3. QED
        BY <1>6, <1>7, <3>1, <3>2
    <2>3. ASSUME NEW j \in (k + 1) + 1 .. (k + 1) + m PROVE j \in (k + 1) + 1 .. len
      BY <1>2, <1>3
    <2>4. QED
      BY <2>1, <2>2, <2>3
  <1>10. Cardinality(Within(doc.tokens, k + 1)) = m
    <2>1. k + 1 \in DOMAIN doc.tokens
      BY <1>2, <1>4
    <2> DEFINE at == k + 1
    <2>2. at \in DOMAIN doc.tokens /\ at \in Nat
      BY <1>3, <2>1
    <2>3. Within(doc.tokens, at) = at + 1 .. at + m
      BY <1>9
    <2> HIDE DEF at
    <2>4. PICK n \in Nat : /\ n = Cardinality(Within(doc.tokens, at))
                           /\ Within(doc.tokens, at) = at + 1 .. at + n
      BY <2>2, WithinIsInterval
    <2>5. n = m
      <3>1. at + 1 .. at + n = at + 1 .. at + m
        BY <2>3, <2>4
      <3>2. \A j \in at + 1 .. at + n : j \in at + 1 .. at + m
        BY <3>1
      <3>3. \A j \in at + 1 .. at + m : j \in at + 1 .. at + n
        BY <3>1
      <3>4. n > m => FALSE
        <4>1. n > m => at + n \in at + 1 .. at + n /\ at + n \notin at + 1 .. at + m
          BY <1>2, <2>2
        <4>2. QED
          BY <3>2, <4>1
      <3>5. m > n => FALSE
        <4>1. m > n => at + m \in at + 1 .. at + m /\ at + m \notin at + 1 .. at + n
          BY <1>2, <2>2
        <4>2. QED
          BY <3>3, <4>1
      <3>6. QED
        BY <1>2, <3>4, <3>5
    <2>6. QED
      BY <2>4, <2>5 DEF at
  <1>11. (k + 1) + m <= len /\ k + 1 \in DOMAIN doc.tokens
    <2>1. k + (1 + m) = (k + 1) + m
      BY <1>2, <1>3
    <2>2. QED
      BY <1>2, <1>3, <1>4, <2>1
  <1>12. QED
    BY <1>4, <1>8, <1>9, <1>10, <1>11 DEF m, len

\* A value of a document: its first token ends behind the start of its others,
\* and in front of everything behind it.
LEMMA ValueLies ==
    ASSUME NEW doc, NEW k, NEW off, NEW v, IsValue(v), Lies(doc, k, off, v), Tokenized(doc)
    PROVE  LET n == Len(v.tokens)
               value == doc.tokens[k + 1]
           IN  /\ n \in Nat /\ n > 0 /\ k \in Nat /\ k + n <= Len(doc.tokens)
               /\ k + 1 \in DOMAIN doc.tokens
               /\ value.type = v.tokens[1].type /\ value.text = v.tokens[1].text
               /\ \A j \in k + 1 .. k + n : doc.tokens[j].start <= value.end
               /\ \A j \in k + n + 1 .. Len(doc.tokens) : doc.tokens[j].start > value.end
  <1> DEFINE n == Len(v.tokens)
             vl == v.len
             len == Len(doc.tokens)
             s(i) == v.tokens[i].start
             e == v.tokens[1].end
             T(j) == doc.tokens[j]
  <1>1. /\ n \in Nat /\ n > 0 /\ vl \in Nat /\ len \in Nat /\ DOMAIN doc.tokens = 1 .. len
        /\ \A j \in 1 .. len : T(j).start \in Nat
        /\ \A i \in 1 .. n : IsToken(v.tokens[i], vl) /\ s(i) <= e
    BY SeqFacts DEF IsValue, IsPiece, Tokenized
  <1>2. ASSUME NEW i \in 1 .. n
        PROVE  v.tokens[i].start \in Nat /\ v.tokens[i].end \in Nat /\ v.tokens[i].end <= vl
    <2> DEFINE one == v.tokens[i]
    <2>1. IsToken(one, vl)
      BY <1>1
    <2> HIDE DEF one, vl
    <2>2. one.start \in Nat /\ one.end \in Nat /\ one.end <= vl
      BY <1>1, <2>1, TokenFacts
    <2>3. QED
      BY <2>2 DEF one
  <1>3. /\ k \in Nat /\ off \in Nat /\ k + n <= len
        /\ \A i \in 1 .. n : IsMoved(T(k + i), v.tokens[i], off)
        /\ \A j \in k + n + 1 .. len : T(j).start > off + vl
    BY DEF Lies
  <1>4. 1 \in 1 .. n /\ e \in Nat /\ e <= vl /\ \A i \in 1 .. n : s(i) \in Nat
    <2>1. 1 \in 1 .. n
      <3> HIDE DEF n
      <3>1. QED
        BY <1>1
    <2>2. QED
      BY <1>2, <2>1
  <1>5. /\ T(k + 1).type = v.tokens[1].type /\ T(k + 1).text = v.tokens[1].text
        /\ T(k + 1).end = e + off
    BY <1>3, <1>4 DEF IsMoved
  <1>6. \A i \in 1 .. n : T(k + i).start = s(i) + off
    BY <1>3 DEF IsMoved
  <1> HIDE DEF n, vl, len, s, e, T
  <1>7. k + 1 \in 1 .. len
    BY <1>1, <1>3
  <1>8. ASSUME NEW j \in k + 1 .. k + n PROVE T(j).start <= T(k + 1).end
    <2>1. j - k \in 1 .. n /\ k + (j - k) = j
      BY <1>1, <1>3
    <2>2. T(j).start = s(j - k) + off /\ s(j - k) \in Nat /\ s(j - k) <= e
      BY <1>1, <1>4, <1>6, <2>1
    <2> DEFINE a == s(j - k)
    <2> HIDE DEF a
    <2>3. T(j).start = a + off /\ a \in Nat /\ a <= e
      BY <2>2 DEF a
    <2>4. a + off <= e + off
      BY <1>3, <1>4, <2>3
    <2>5. QED
      BY <1>5, <2>3, <2>4
  <1>9. ASSUME NEW j \in k + n + 1 .. len PROVE T(j).start > T(k + 1).end
    <2>1. T(j).start > off + vl /\ T(j).start \in Nat
      <3>1. j \in 1 .. len
        BY <1>1, <1>3
      <3>2. QED
        BY <1>1, <1>3, <3>1
    <2> DEFINE a == T(j).start
    <2>2. a > off + vl /\ a \in Nat
      BY <2>1
    <2> HIDE DEF a
    <2>3. a > e + off
      BY <1>1, <1>3, <1>4, <2>2
    <2>4. QED
      BY <1>5, <2>3 DEF a
  <1>10. QED
    BY <1>1, <1>3, <1>5, <1>7, <1>8, <1>9 DEF n, len, T

\* A text and a number are values of one token.
LEMMA TextPiece ==
    ASSUME NEW word
    PROVE  /\ IsValue(Str(word)) /\ Len(Str(word).tokens) = 1
           /\ Str(word).tokens[1].type = "JSMN_STRING" /\ Str(word).tokens[1].text = word
           /\ IsValue(Number(word)) /\ Len(Number(word).tokens) = 1
           /\ Number(word).tokens[1].type = "JSMN_PRIMITIVE" /\ Number(word).tokens[1].text = word
  <1>1. ASSUME NEW p, NEW token, NEW len \in Nat, IsToken(token, len),
               p.len = len, p.tokens = << token >>
        PROVE  IsValue(p) /\ Len(p.tokens) = 1 /\ p.tokens[1] = token
    <2> DEFINE tokens == p.tokens
    <2>1. IsSeq(tokens) /\ Len(tokens) = 1 /\ tokens[1] = token
      <3>1. IsSeq(<< token >>) /\ Len(<< token >>) = 1 /\ << token >>[1] = token
        BY ShortSeqs
      <3>2. QED
        BY <1>1, <3>1
    <2>2. token.start \in Nat /\ token.end \in Nat /\ token.start <= token.end
      BY <1>1, TokenFacts
    <2> HIDE DEF tokens
    <2>3. \A i \in 1 .. 1 : tokens[i] = token
      BY <2>1
    <2>4. \A i \in 1 .. Len(tokens) : IsToken(tokens[i], len) /\ tokens[i].start <= tokens[1].end
      BY <1>1, <2>1, <2>2, <2>3
    <2>5. IsSeq(tokens) /\ Len(tokens) = 1 /\ tokens[1] = token /\ Len(tokens) > 0
      BY <2>1
    <2>6. QED
      BY <1>1, <2>4, <2>5 DEF IsValue, IsPiece, tokens
  <1>2. IsValue(Str(word)) /\ Len(Str(word).tokens) = 1
        /\ Str(word).tokens[1].type = "JSMN_STRING" /\ Str(word).tokens[1].text = word
    <2> DEFINE size == IF word = "" THEN 0 ELSE 1
               one == 1
               len == size + 2
               end == 1 + size
               type == "JSMN_STRING"
               token == [type |-> type, start |-> one, end |-> end, text |-> word]
               p == Str(word)
    <2>1. p.len = len /\ p.tokens = << token >>
      BY DEF Str
    <2>2. one \in Nat /\ end \in Nat /\ len \in Nat /\ one <= end /\ end <= len
      OBVIOUS
    <2> HIDE DEF size, one, len, end, type, p
    <2>3. \A tok : tok = token => IsToken(tok, len) /\ tok.type = type /\ tok.text = word
      BY <2>2, NewToken
    <2> HIDE DEF token
    <2>4. IsToken(token, len) /\ token.type = type /\ token.text = word
      BY <2>3
    <2>5. IsValue(p) /\ Len(p.tokens) = 1 /\ p.tokens[1] = token
      BY <1>1, <2>1, <2>2, <2>4
    <2>6. QED
      BY <2>4, <2>5 DEF p, type
  <1>3. IsValue(Number(word)) /\ Len(Number(word).tokens) = 1
        /\ Number(word).tokens[1].type = "JSMN_PRIMITIVE" /\ Number(word).tokens[1].text = word
    <2> DEFINE none == 0
               len == 1
               type == "JSMN_PRIMITIVE"
               token == [type |-> type, start |-> none, end |-> len, text |-> word]
               p == Number(word)
    <2>1. p.len = len /\ p.tokens = << token >>
      BY DEF Number
    <2>2. none \in Nat /\ len \in Nat /\ none <= len /\ len <= len
      OBVIOUS
    <2> HIDE DEF none, len, type, p
    <2>3. \A tok : tok = token => IsToken(tok, len) /\ tok.type = type /\ tok.text = word
      BY <2>2, NewToken
    <2> HIDE DEF token
    <2>4. IsToken(token, len) /\ token.type = type /\ token.text = word
      BY <2>3
    <2>5. IsValue(p) /\ Len(p.tokens) = 1 /\ p.tokens[1] = token
      BY <1>1, <2>1, <2>2, <2>4
    <2>6. QED
      BY <2>4, <2>5 DEF p, type
  <1>4. QED
    BY <1>2, <1>3

\* A key and its value.
LEMMA PairPiece ==
    ASSUME NEW key, NEW v, IsValue(v)
    PROVE  IsPiece(Pair(key, v)) /\ Len(Pair(key, v).tokens) = 1 + Len(v.tokens)
  <1> DEFINE f == Str(key)
  <1>1. IsPiece(f) /\ Len(f.tokens) = 1 /\ IsPiece(v)
    BY TextPiece DEF IsValue
  <1>2. Pair(key, v) = Beside(f, v)
    BY DEF Pair
  <1> HIDE DEF f
  <1>3. IsPiece(Beside(f, v)) /\ Len(Beside(f, v).tokens) = Len(f.tokens) + Len(v.tokens)
    BY <1>1, BesidePiece
  <1>4. QED
    BY <1>1, <1>2, <1>3

\* The place of a pair: the value is behind the key, and behind the value's end
\* is what is behind the pair.
LEMMA PairLies ==
    ASSUME NEW doc, NEW k, NEW off, NEW key, NEW v, IsValue(v),
           Lies(doc, k, off, Pair(key, v)), Tokenized(doc)
    PROVE  LET n == Len(Pair(key, v).tokens)
               value == doc.tokens[(k + 1) + 1]
           IN  /\ k \in Nat /\ n \in Nat /\ n > 1 /\ k + n <= Len(doc.tokens)
               /\ k + 1 \in DOMAIN doc.tokens /\ (k + 1) + 1 \in DOMAIN doc.tokens
               /\ doc.tokens[k + 1].type = "JSMN_STRING" /\ doc.tokens[k + 1].text = key
               /\ \E o : Lies(doc, k + 1, o, v)
               /\ \A j \in (k + 1) + 1 .. k + n : doc.tokens[j].start <= value.end
               /\ \A j \in k + n + 1 .. Len(doc.tokens) : doc.tokens[j].start > value.end
  <1> DEFINE f == Str(key)
             m == Len(v.tokens)
             len == Len(doc.tokens)
             n == Len(Pair(key, v).tokens)
  <1>1. /\ IsValue(f) /\ IsPiece(f) /\ Len(f.tokens) = 1 /\ IsPiece(v)
        /\ f.tokens[1].type = "JSMN_STRING" /\ f.tokens[1].text = key
    BY TextPiece DEF IsValue
  <1>2. Pair(key, v) = Beside(f, v)
    BY DEF Pair
  <1>3. n = 1 + m
    BY PairPiece
  <1> HIDE DEF f
  <1>4. Lies(doc, k, off, f) /\ Lies(doc, k + Len(f.tokens), off + (f.len + 1), v)
    BY <1>1, <1>2, BesideLies
  <1>5. PICK o : Lies(doc, k + 1, o, v)
    BY <1>1, <1>4
  <1>6. /\ k \in Nat /\ k + 1 \in DOMAIN doc.tokens
        /\ doc.tokens[k + 1].type = "JSMN_STRING" /\ doc.tokens[k + 1].text = key
    BY <1>1, <1>4, ValueLies
  <1>7. /\ m \in Nat /\ m > 0 /\ (k + 1) + m <= len
        /\ (k + 1) + 1 \in DOMAIN doc.tokens
        /\ \A j \in (k + 1) + 1 .. (k + 1) + m :
              doc.tokens[j].start <= doc.tokens[(k + 1) + 1].end
        /\ \A j \in (k + 1) + m + 1 .. len : doc.tokens[j].start > doc.tokens[(k + 1) + 1].end
    <2> DEFINE at == k + 1
    <2>1. Lies(doc, at, o, v)
      BY <1>5
    <2> HIDE DEF at
    <2>2. /\ m \in Nat /\ m > 0 /\ at + m <= len /\ at + 1 \in DOMAIN doc.tokens
          /\ \A j \in at + 1 .. at + m : doc.tokens[j].start <= doc.tokens[at + 1].end
          /\ \A j \in at + m + 1 .. len : doc.tokens[j].start > doc.tokens[at + 1].end
      BY <2>1, ValueLies
    <2>3. QED
      BY <2>2 DEF at
  <1>8. len \in Nat
    BY DEF Tokenized
  <1> HIDE DEF m, n, len
  <1>9. (k + 1) + m = k + n /\ n \in Nat /\ n > 1
    BY <1>3, <1>6, <1>7
  <1>10. QED
    BY <1>5, <1>6, <1>7, <1>9 DEF n, len

\* n pieces, and what Row has joined of them.
ArePieces(pieces, n) ==
    /\ n \in Nat /\ IsSeq(pieces) /\ Len(pieces) = n
    /\ \A i \in 1 .. n : IsPiece(pieces[i])

RowsBy(row, pieces, n) ==
    /\ row[1] = pieces[1]
    /\ \A i \in 1 .. n - 1 : row[i + 1] = Beside(row[i], pieces[i + 1])
    /\ \A i \in 1 .. n : IsPiece(row[i])
    /\ Row(pieces) = row[n]

\* Row puts one beside the other.
LEMMA RowRun ==
    ASSUME NEW n, NEW pieces, ArePieces(pieces, n), n > 0
    PROVE  \E row : RowsBy(row, pieces, n)
  <1>1. n \in Nat /\ Len(pieces) = n /\ DOMAIN pieces = 1 .. n
        /\ \A i \in 1 .. n : IsPiece(pieces[i])
    BY SeqFacts DEF ArePieces
  <1> DEFINE row[i \in 1 .. n] ==
                 IF i = 1 THEN pieces[1] ELSE Beside(row[i - 1], pieces[i])
  <1>2. Row(pieces) = row[n]
    <2> DEFINE all[i \in DOMAIN pieces] ==
                   IF i = 1 THEN pieces[1] ELSE Beside(all[i - 1], pieces[i])
    <2>1. pieces # << >>
      <3>1. Len(<< >>) = 0
        BY ShortSeqs
      <3>2. QED
        BY <1>1, <3>1
    <2>2. Row(pieces) = all[Len(pieces)]
      BY <2>1 DEF Row
    <2>3. \A g : [i \in DOMAIN pieces |-> IF i = 1 THEN pieces[1] ELSE Beside(g[i - 1], pieces[i])]
                 = [i \in 1 .. n |-> IF i = 1 THEN pieces[1] ELSE Beside(g[i - 1], pieces[i])]
      BY <1>1
    <2>4. all = row
      BY <2>3
    <2> HIDE DEF all, row
    <2>5. QED
      BY <1>1, <2>2, <2>4
  <1>3. FiniteNatInductiveDefHypothesis(row, pieces[1], LAMBDA v, i : Beside(v, pieces[i]), 1, n)
    BY DEF FiniteNatInductiveDefHypothesis
  <1> HIDE DEF row
  <1>4. FiniteNatInductiveDefConclusion(row, pieces[1], LAMBDA v, i : Beside(v, pieces[i]), 1, n)
    BY <1>1, <1>3, FiniteNatInductiveDef
  <1>5. row = [i \in 1 .. n |-> IF i = 1 THEN pieces[1] ELSE Beside(row[i - 1], pieces[i])]
    BY <1>4 DEF FiniteNatInductiveDefConclusion
  <1>6. row[1] = pieces[1]
    BY <1>1, <1>5
  <1>7. ASSUME NEW i \in 1 .. n - 1 PROVE row[i + 1] = Beside(row[i], pieces[i + 1])
    <2>1. i + 1 \in 1 .. n /\ i + 1 # 1 /\ (i + 1) - 1 = i
      BY <1>1
    <2> DEFINE j == i + 1
    <2>2. j \in 1 .. n /\ j # 1
      BY <2>1
    <2> HIDE DEF j
    <2>3. row[j] = Beside(row[j - 1], pieces[j])
      BY <1>5, <2>2
    <2>4. QED
      BY <2>1, <2>3 DEF j
  <1> DEFINE S == {i \in 0 .. n - 1 : IsPiece(row[i + 1])}
  <1>8. 0 \in S
    <2>1. 0 \in 0 .. n - 1 /\ 0 + 1 = 1 /\ 1 \in 1 .. n
      BY <1>1
    <2>2. QED
      BY <1>1, <1>6, <2>1
  <1>9. ASSUME NEW i \in 0 .. (n - 1) - 1, i \in S PROVE i + 1 \in S
    <2>1. i + 1 \in 1 .. n - 1 /\ i + 1 \in 0 .. n - 1 /\ (i + 1) + 1 \in 1 .. n
      BY <1>1
    <2> DEFINE j == i + 1
    <2>2. IsPiece(row[j]) /\ IsPiece(pieces[j + 1]) /\ row[j + 1] = Beside(row[j], pieces[j + 1])
      BY <1>1, <1>7, <1>9, <2>1
    <2>3. j \in 0 .. n - 1
      BY <2>1
    <2> HIDE DEF j
    <2>4. IsPiece(row[j + 1])
      BY <2>2, BesidePiece
    <2>5. QED
      BY <2>3, <2>4 DEF j
  <1> HIDE DEF S
  <1>10. n - 1 \in Nat
    BY <1>1
  <1>11. \A i \in 0 .. n - 1 : i \in S
    <2> DEFINE m == n - 1
    <2>1. m \in Nat /\ \A i \in 0 .. m - 1 : i \in S => i + 1 \in S
      BY <1>9, <1>10
    <2> HIDE DEF m
    <2>2. \A i \in 0 .. m : i \in S
      BY <1>8, <2>1, Induction
    <2>3. QED
      BY <2>2 DEF m
  <1>12. ASSUME NEW i \in 1 .. n PROVE IsPiece(row[i])
    <2>1. i - 1 \in 0 .. n - 1 /\ (i - 1) + 1 = i
      BY <1>1
    <2>2. QED
      BY <1>11, <2>1 DEF S
  <1>13. QED
    BY <1>2, <1>6, <1>7, <1>12 DEF RowsBy

\* A row of nothing.
LEMMA NoRow ==
    ASSUME NEW pieces, ArePieces(pieces, 0)
    PROVE  IsPiece(Row(pieces)) /\ Len(Row(pieces).tokens) = 0
  <1>1. IsSeq(<< >>) /\ Len(<< >>) = 0 /\ 1 .. 0 = {}
    BY ShortSeqs
  <1>2. pieces = << >>
    <2>1. IsSeq(pieces) /\ Len(pieces) = 0
      BY DEF ArePieces
    <2>2. \A i \in 1 .. Len(pieces) : pieces[i] = << >>[i]
      BY <1>1, <2>1
    <2>3. QED
      BY <1>1, <2>1, <2>2, SameSeq
  <1>3. Row(pieces) = NoText
    BY <1>2 DEF Row
  <1>4. NoText.len = 0 /\ NoText.tokens = << >>
    BY DEF NoText
  <1>5. QED
    BY <1>1, <1>3, <1>4 DEF IsPiece

\* A row is a piece.
LEMMA RowPiece ==
    ASSUME NEW n, NEW pieces, ArePieces(pieces, n)
    PROVE  IsPiece(Row(pieces))
  <1>1. CASE n = 0
    BY <1>1, NoRow
  <1>2. CASE n # 0
    <2>1. n \in Nat /\ n > 0
      BY <1>2 DEF ArePieces
    <2>2. PICK row : RowsBy(row, pieces, n)
      BY <2>1, RowRun
    <2>3. n \in 1 .. n
      BY <2>1
    <2>4. QED
      BY <2>2, <2>3 DEF RowsBy
  <1>3. QED
    BY <1>1, <1>2

\* The places of the pieces of a row.
PlacedAt(doc, at, pieces, n, first, next) ==
    /\ at[1] = first /\ at[n + 1] = next
    /\ \A m \in 1 .. n : /\ at[m] \in Nat
                         /\ at[m + 1] = at[m] + Len(pieces[m].tokens)
                         /\ \E o : Lies(doc, at[m], o, pieces[m])

\* They follow each other.
LEMMA RowLies ==
    ASSUME NEW doc, NEW k, NEW off, NEW n, NEW pieces, ArePieces(pieces, n),
           Lies(doc, k, off, Row(pieces)), Tokenized(doc)
    PROVE  \E at : PlacedAt(doc, at, pieces, n, k, k + Len(Row(pieces).tokens))
  <1>1. n \in Nat /\ \A i \in 1 .. n : IsPiece(pieces[i])
    BY DEF ArePieces
  <1>0. k \in Nat
    BY DEF Lies
  <1>2. CASE n = 0
    <2> DEFINE at == [i \in {1} |-> k]
    <2>1. at[1] = k /\ 1 .. 0 = {} /\ k + 0 = k /\ 0 + 1 = 1
      BY <1>0
    <2>2. Len(Row(pieces).tokens) = 0
      BY <1>2, NoRow
    <2> HIDE DEF at
    <2>3. PlacedAt(doc, at, pieces, n, k, k + Len(Row(pieces).tokens))
      BY <1>2, <2>1, <2>2 DEF PlacedAt
    <2>4. QED
      BY <2>3
  <1>3. CASE n # 0
    <2>1. n > 0
      BY <1>1, <1>3
    <2>2. PICK row : RowsBy(row, pieces, n)
      BY <2>1, RowRun
    <2>3. /\ row[1] = pieces[1]
          /\ \A i \in 1 .. n - 1 : row[i + 1] = Beside(row[i], pieces[i + 1])
          /\ \A i \in 1 .. n : IsPiece(row[i])
          /\ Row(pieces) = row[n]
      BY <2>2 DEF RowsBy
    <2>4. ASSUME NEW i \in 1 .. n - 1, Lies(doc, k, off, row[i + 1])
          PROVE  /\ Lies(doc, k, off, row[i])
                 /\ \E o : Lies(doc, k + Len(row[i].tokens), o, pieces[i + 1])
                 /\ Len(row[i + 1].tokens) = Len(row[i].tokens) + Len(pieces[i + 1].tokens)
      <3>1. i \in 1 .. n /\ i + 1 \in 1 .. n
        BY <1>1
      <3> DEFINE f == row[i]
                 g == pieces[i + 1]
      <3>2. IsPiece(f) /\ IsPiece(g) /\ row[i + 1] = Beside(f, g)
        BY <1>1, <2>3, <3>1
      <3> HIDE DEF f, g
      <3>3. Lies(doc, k, off, Beside(f, g))
        BY <2>4, <3>2
      <3>4. Lies(doc, k, off, f) /\ Lies(doc, k + Len(f.tokens), off + (f.len + 1), g)
        BY <3>2, <3>3, BesideLies
      <3>5. Len(Beside(f, g).tokens) = Len(f.tokens) + Len(g.tokens)
        BY <3>2, BesidePiece
      <3>6. \E o : Lies(doc, k + Len(f.tokens), o, g)
        BY <3>4
      <3>7. QED
        BY <3>2, <3>4, <3>5, <3>6 DEF f, g
    <2> DEFINE S == {j \in 0 .. n - 1 : Lies(doc, k, off, row[n - j])}
    <2>5. 0 \in S
      <3>1. 0 \in 0 .. n - 1 /\ n - 0 = n
        BY <1>1, <2>1
      <3>2. QED
        BY <2>3, <3>1
    <2>6. ASSUME NEW j \in 0 .. (n - 1) - 1, j \in S PROVE j + 1 \in S
      <3>1. n - (j + 1) \in 1 .. n - 1 /\ (n - (j + 1)) + 1 = n - j /\ j + 1 \in 0 .. n - 1
        BY <1>1
      <3>2. Lies(doc, k, off, row[(n - (j + 1)) + 1])
        BY <2>6, <3>1
      <3>3. Lies(doc, k, off, row[n - (j + 1)])
        BY <2>4, <3>1, <3>2
      <3>4. QED
        BY <3>1, <3>3
    <2> HIDE DEF S
    <2>7. \A j \in 0 .. n - 1 : j \in S
      <3> DEFINE m == n - 1
      <3>1. m \in Nat /\ \A j \in 0 .. m - 1 : j \in S => j + 1 \in S
        BY <1>1, <2>1, <2>6
      <3> HIDE DEF m
      <3>2. \A j \in 0 .. m : j \in S
        BY <2>5, <3>1, Induction
      <3>3. QED
        BY <3>2 DEF m
    <2>8. ASSUME NEW i \in 1 .. n PROVE Lies(doc, k, off, row[i])
      <3>1. n - i \in 0 .. n - 1 /\ n - (n - i) = i
        BY <1>1
      <3>2. Lies(doc, k, off, row[n - (n - i)])
        BY <2>7, <3>1 DEF S
      <3>3. QED
        BY <3>1, <3>2
    <2> DEFINE size(i) == Len(row[i].tokens)
               at == [m \in 1 .. n + 1 |-> IF m = 1 THEN k ELSE k + size(m - 1)]
    <2>9. ASSUME NEW i \in 1 .. n PROVE size(i) \in Nat
      BY <2>3, SeqFacts DEF IsPiece
    <2> HIDE DEF size
    <2>10. at[1] = k /\ \A i \in 1 .. n : at[i + 1] = k + size(i)
      <3>1. 1 \in 1 .. n + 1 /\ \A i \in 1 .. n : i + 1 \in 1 .. n + 1 /\ i + 1 # 1 /\ (i + 1) - 1 = i
        BY <1>1
      <3>2. QED
        BY <3>1
    <2>11. n \in 1 .. n
      BY <1>1, <2>1
    <2> HIDE DEF at
    <2>12. ASSUME NEW m \in 1 .. n
           PROVE  /\ at[m] \in Nat
                  /\ at[m + 1] = at[m] + Len(pieces[m].tokens)
                  /\ \E o : Lies(doc, at[m], o, pieces[m])
      <3>1. CASE m = 1
        <4>1. size(1) = Len(pieces[1].tokens) /\ at[1 + 1] = k + size(1)
          BY <2>3, <2>10, <3>1 DEF size
        <4>2. Lies(doc, k, off, pieces[1])
          BY <2>3, <2>8, <3>1
        <4>3. QED
          BY <1>0, <2>10, <3>1, <4>1, <4>2
      <3>2. CASE m # 1
        <4> DEFINE i == m - 1
        <4>1. i \in 1 .. n - 1 /\ i + 1 = m /\ i \in 1 .. n
          BY <1>1, <3>2
        <4>2. at[m] = k + size(i) /\ at[m + 1] = k + size(m) /\ size(i) \in Nat
          BY <2>9, <2>10, <4>1
        <4>3. Lies(doc, k, off, row[i + 1])
          BY <2>8, <4>1
        <4>4. /\ \E o : Lies(doc, k + Len(row[i].tokens), o, pieces[i + 1])
              /\ Len(row[i + 1].tokens) = Len(row[i].tokens) + Len(pieces[i + 1].tokens)
          BY <2>4, <4>1, <4>3
        <4> HIDE DEF i
        <4>5. /\ \E o : Lies(doc, k + size(i), o, pieces[m])
              /\ size(m) = size(i) + Len(pieces[m].tokens)
          BY <4>1, <4>4 DEF size
        <4> DEFINE s == Len(pieces[m].tokens)
        <4>6. s \in Nat /\ size(m) = size(i) + s
          BY <1>1, <4>5, SeqFacts DEF IsPiece
        <4> HIDE DEF s
        <4>7. k + size(m) = (k + size(i)) + s /\ k + size(i) \in Nat
          BY <1>0, <4>2, <4>6
        <4>8. QED
          BY <4>2, <4>5, <4>7 DEF s
      <3>3. QED
        BY <3>1, <3>2
    <2>13. at[n + 1] = k + Len(Row(pieces).tokens)
      BY <2>3, <2>10, <2>11 DEF size
    <2>14. PlacedAt(doc, at, pieces, n, k, k + Len(Row(pieces).tokens))
      BY <2>10, <2>12, <2>13 DEF PlacedAt
    <2>15. QED
      BY <2>14
  <1>4. QED
    BY <1>2, <1>3

-----------------------------------------------------------------------------
(* What the parser's queries (json_parser.c) find at an object and at an   *)
(* array that lie in a document.                                           *)

\* One more element of a sequence.
LEMMA Appended ==
    ASSUME NEW s, IsSeq(s), NEW x
    PROVE  /\ IsSeq(Append(s, x)) /\ Len(Append(s, x)) = Len(s) + 1
           /\ \A i \in 1 .. Len(s) : Append(s, x)[i] = s[i]
           /\ Append(s, x)[Len(s) + 1] = x
  <1> DEFINE S == {s[i] : i \in 1 .. Len(s)} \cup {x}
  <1>1. (\A i \in 1 .. Len(s) : s[i] \in S) /\ x \in S
    OBVIOUS
  <1> HIDE DEF S
  <1>2. s \in Seq(S) /\ x \in S
    BY <1>1, SeqFacts
  <1>3. Append(s, x) \in Seq(S)
    BY <1>2
  <1>4. IsSeq(Append(s, x))
    BY <1>3, TypedIsSeq
  <1>5. /\ Len(Append(s, x)) = Len(s) + 1
        /\ \A i \in 1 .. Len(s) : Append(s, x)[i] = s[i]
        /\ Append(s, x)[Len(s) + 1] = x
    BY <1>2
  <1>6. QED
    BY <1>4, <1>5

\* The tokens a scan of c tokens behind token k is to find: each starts behind
\* the end of the one before it, and what is between them does not.
Spread(tokens, k, ends, pos, n, c) ==
    /\ n \in Nat /\ c \in Nat /\ k \in Nat
    /\ pos[1] = k + 1 /\ pos[n + 1] = (k + c) + 1
    /\ n > 0 => ~(tokens[k + 1].start <= tokens[k].start)
    /\ \A m \in 1 .. n : pos[m] \in Nat /\ pos[m] < pos[m + 1]
    /\ \A m \in 1 .. n : \A j \in pos[m] + 1 .. pos[m + 1] - 1 :
          tokens[j].start <= ends[pos[m]]
    /\ \A m \in 1 .. n - 1 : ~(tokens[pos[m + 1]].start <= ends[pos[m]])

\* The sequence of the first n values of pos.
Lists(found, pos, n) ==
    IsSeq(found) /\ Len(found) = n /\ \A m \in 1 .. n : found[m] = pos[m]

\* The scan finds them.
LEMMA ScanFinds ==
    ASSUME NEW tokens, NEW k, NEW ends, NEW pos, NEW n, NEW c,
           Spread(tokens, k, ends, pos, n, c), c = Cardinality(Within(tokens, k))
    PROVE  Lists(Scan(tokens, k, ends), pos, n)
  <1>1. /\ n \in Nat /\ c \in Nat /\ k \in Nat
        /\ pos[1] = k + 1 /\ pos[n + 1] = (k + c) + 1
        /\ n > 0 => ~(tokens[k + 1].start <= tokens[k].start)
        /\ \A m \in 1 .. n : pos[m] \in Nat /\ pos[m] < pos[m + 1]
        /\ \A m \in 1 .. n : \A j \in pos[m] + 1 .. pos[m + 1] - 1 :
              tokens[j].start <= ends[pos[m]]
        /\ \A m \in 1 .. n - 1 : ~(tokens[pos[m + 1]].start <= ends[pos[m]])
    BY DEF Spread
  <1>2. \A m \in 1 .. n + 1 : pos[m] \in Nat
    <2>1. \A m \in 1 .. n + 1 : m \in 1 .. n \/ m = n + 1
      BY <1>1
    <2>2. (k + c) + 1 \in Nat
      BY <1>1
    <2>3. QED
      BY <1>1, <2>1, <2>2
  <1>3. \A m \in 1 .. n : pos[m] < pos[n + 1]
    <2> DEFINE S == {j \in 0 .. n : pos[(n + 1) - j] <= pos[n + 1]}
    <2>1. 0 \in S
      <3>1. (n + 1) - 0 = n + 1 /\ pos[n + 1] <= pos[n + 1] /\ 0 \in 0 .. n
        BY <1>1
      <3>2. QED
        BY <3>1
    <2>2. ASSUME NEW j \in 0 .. n - 1, j \in S PROVE j + 1 \in S
      <3> DEFINE m == (n + 1) - (j + 1)
      <3>1. m \in 1 .. n /\ m + 1 = (n + 1) - j /\ m \in 1 .. n + 1 /\ m + 1 \in 1 .. n + 1
            /\ j + 1 \in 0 .. n /\ n + 1 \in 1 .. n + 1
        BY <1>1
      <3>2. pos[m + 1] <= pos[n + 1]
        BY <2>2, <3>1
      <3> HIDE DEF m
      <3>3. pos[m] < pos[m + 1] /\ pos[m] \in Nat /\ pos[m + 1] \in Nat /\ pos[n + 1] \in Nat
        BY <1>1, <1>2, <3>1
      <3>4. pos[m] <= pos[n + 1]
        BY <3>2, <3>3
      <3>5. QED
        BY <3>1, <3>4 DEF m
    <2> HIDE DEF S
    <2>3. \A j \in 0 .. n : j \in S
      BY <1>1, <2>1, <2>2, Induction
    <2>4. ASSUME NEW m \in 1 .. n PROVE pos[m] < pos[n + 1]
      <3>1. n - m \in 0 .. n /\ (n + 1) - (n - m) = m + 1 /\ m + 1 \in 1 .. n + 1
            /\ m \in 1 .. n + 1 /\ n + 1 \in 1 .. n + 1
        BY <1>1
      <3>2. pos[m + 1] <= pos[n + 1]
        <4>1. n - m \in S
          BY <2>3, <3>1
        <4>2. QED
          BY <3>1, <4>1 DEF S
      <3>3. pos[m] < pos[m + 1] /\ pos[m] \in Nat /\ pos[m + 1] \in Nat /\ pos[n + 1] \in Nat
        BY <1>1, <1>2, <3>1
      <3>4. QED
        BY <3>2, <3>3
    <2>5. QED
      BY <2>4
  <1>4. PICK g : /\ g[0] = [end |-> tokens[k].start, elements |-> << >>]
                 /\ \A i \in 1 .. c : g[i] = ScanStep(tokens, k, ends, g[i - 1], i)
                 /\ Scan(tokens, k, ends) = g[c].elements
    <2>1. c \in Nat /\ c = Cardinality(Within(tokens, k))
      BY <1>1
    <2>2. QED
      BY ONLY <2>1, ScanIsRun
  <1> DEFINE EndOf(m) == IF m = 0 THEN tokens[k].start ELSE ends[pos[m]]
             Good(i, m) == /\ m = 0 => i = 0
                           /\ m > 0 => pos[m] <= k + i
                           /\ k + i < pos[m + 1]
                           /\ g[i].end = EndOf(m)
                           /\ Lists(g[i].elements, pos, m)
             S == {i \in 0 .. c : \E m \in 0 .. n : Good(i, m)}
  <1>5. 0 \in S
    <2>1. g[0].end = tokens[k].start /\ g[0].elements = << >>
      BY <1>4
    <2>2. Lists(<< >>, pos, 0)
      <3>1. IsSeq(<< >>) /\ Len(<< >>) = 0 /\ 1 .. 0 = {}
        BY ShortSeqs
      <3>2. QED
        BY <3>1 DEF Lists
    <2>3. Good(0, 0)
      BY <1>1, <2>1, <2>2
    <2>4. 0 \in 0 .. n /\ 0 \in 0 .. c
      BY <1>1
    <2> HIDE DEF Good
    <2>5. QED
      BY <2>3, <2>4
  <1>6. ASSUME NEW i \in 0 .. c - 1, i \in S PROVE i + 1 \in S
    <2>1. PICK m \in 0 .. n : Good(i, m)
      BY <1>6
    <2> DEFINE x == k + (i + 1)
    <2>2. i + 1 \in 1 .. c /\ (i + 1) - 1 = i /\ i + 1 \in 0 .. c /\ x \in Nat /\ x = (k + i) + 1
      BY <1>1
    <2>3. g[i + 1] = ScanStep(tokens, k, ends, g[i], i + 1)
      BY <1>4, <2>2
    <2>4. g[i + 1] = IF tokens[x].start <= g[i].end THEN g[i]
                     ELSE [end |-> ends[x], elements |-> Append(g[i].elements, x)]
      BY <2>3 DEF ScanStep
    <2>5. /\ m = 0 => i = 0
          /\ m > 0 => pos[m] <= k + i
          /\ k + i < pos[m + 1]
          /\ g[i].end = EndOf(m)
          /\ Lists(g[i].elements, pos, m)
      BY <2>1
    <2>6. m + 1 \in 1 .. n + 1 /\ pos[m + 1] \in Nat
      BY <1>1, <1>2
    <2> HIDE DEF x
    <2>7. CASE pos[m + 1] = x
      <3>1. m # n
        <4>1. x # (k + c) + 1
          BY <1>1 DEF x
        <4>2. QED
          BY <1>1, <2>7, <4>1
      <3>2. m \in 0 .. n - 1 /\ m + 1 \in 0 .. n /\ m + 1 \in 1 .. n
        BY <1>1, <3>1
      <3>3. ~(tokens[x].start <= g[i].end)
        <4>1. CASE m = 0
          <5>1. x = k + 1 /\ n > 0
            BY <1>1, <2>7, <3>2, <4>1
          <5>2. QED
            BY <1>1, <2>5, <4>1, <5>1
        <4>2. CASE m # 0
          <5>1. m \in 1 .. n - 1
            BY <1>1, <3>2, <4>2
          <5>2. ~(tokens[pos[m + 1]].start <= ends[pos[m]])
            BY <1>1, <5>1
          <5>3. QED
            BY <2>5, <2>7, <4>2, <5>2
        <4>3. QED
          BY <4>1, <4>2
      <3>4. g[i + 1] = [end |-> ends[x], elements |-> Append(g[i].elements, x)]
        BY <2>4, <3>3
      <3>5. g[i + 1].end = ends[x] /\ g[i + 1].elements = Append(g[i].elements, x)
        BY <3>4
      <3>6. Lists(Append(g[i].elements, x), pos, m + 1)
        <4> DEFINE s == g[i].elements
        <4>1. IsSeq(s) /\ Len(s) = m /\ \A y \in 1 .. m : s[y] = pos[y]
          BY <2>5 DEF Lists
        <4> HIDE DEF s
        <4>2. /\ IsSeq(Append(s, x)) /\ Len(Append(s, x)) = m + 1
              /\ \A y \in 1 .. m : Append(s, x)[y] = s[y]
              /\ Append(s, x)[m + 1] = x
          BY <4>1, Appended
        <4>3. \A y \in 1 .. m + 1 : y \in 1 .. m \/ y = m + 1
          OBVIOUS
        <4>4. \A y \in 1 .. m + 1 : Append(s, x)[y] = pos[y]
          BY <2>7, <4>1, <4>2, <4>3
        <4>5. QED
          BY <4>2, <4>4 DEF Lists, s
      <3>7. k + (i + 1) < pos[(m + 1) + 1] /\ pos[m + 1] <= k + (i + 1)
        <4>1. pos[m + 1] < pos[(m + 1) + 1]
          BY <1>1, <3>2
        <4>2. pos[m + 1] = k + (i + 1)
          BY <2>7 DEF x
        <4>3. pos[m + 1] <= pos[m + 1]
          BY <2>6
        <4>4. QED
          BY <4>1, <4>2, <4>3
      <3>8. m + 1 # 0 /\ EndOf(m + 1) = ends[x]
        BY <2>7, <3>2
      <3> HIDE DEF EndOf
      <3>9. Good(i + 1, m + 1)
        BY <3>5, <3>6, <3>7, <3>8
      <3> HIDE DEF Good
      <3>10. QED
        BY <2>2, <3>2, <3>9
    <2>8. CASE pos[m + 1] # x
      <3>1. x < pos[m + 1] /\ m # 0
        <4>1. m = 0 => pos[m + 1] = x
          BY <1>1, <2>5 DEF x
        <4>2. x < pos[m + 1]
          BY <1>1, <2>2, <2>5, <2>6, <2>8, SMTT(60)
        <4>3. QED
          BY <2>8, <4>1, <4>2
      <3>2. m \in 1 .. n /\ pos[m] \in Nat /\ pos[m] <= k + i
        BY <1>1, <2>5, <3>1
      <3>3. x \in pos[m] + 1 .. pos[m + 1] - 1
        BY <1>1, <2>2, <2>6, <3>1, <3>2
      <3>4. tokens[x].start <= ends[pos[m]]
        BY <1>1, <3>2, <3>3
      <3>5. g[i + 1] = g[i]
        BY <2>4, <2>5, <3>1, <3>4
      <3>6. pos[m] <= k + (i + 1) /\ k + (i + 1) < pos[m + 1]
        <4>1. pos[m] <= k + (i + 1)
          BY <1>1, <3>2
        <4>2. QED
          BY <3>1, <4>1 DEF x
      <3> HIDE DEF EndOf
      <3>7. Good(i + 1, m)
        BY <2>5, <3>1, <3>5, <3>6
      <3> HIDE DEF Good
      <3>8. QED
        BY <2>2, <3>7
    <2>9. QED
      BY <2>7, <2>8
  <1> HIDE DEF S
  <1>7. \A i \in 0 .. c : i \in S
    BY <1>1, <1>5, <1>6, Induction
  <1>8. PICK m \in 0 .. n : Good(c, m)
    <2>1. c \in 0 .. c
      BY <1>1
    <2>2. QED
      BY <1>7, <2>1 DEF S
  <1>9. m = n
    <2>1. SUFFICES ASSUME m # n PROVE FALSE
      OBVIOUS
    <2>2. m + 1 \in 1 .. n
      BY <1>1, <2>1
    <2>3. pos[m + 1] < pos[n + 1] /\ pos[m + 1] \in Nat /\ k + c < pos[m + 1]
      BY <1>1, <1>3, <1>8, <2>2
    <2>4. QED
      BY <1>1, <2>3
  <1>10. QED
    BY <1>4, <1>8, <1>9

\* The value v follows token k of the document.
Follows(doc, k, v) == \E off : Lies(doc, k, off, v)

\* What a document's tokens are.
LEMMA TokensOf ==
    ASSUME NEW doc, Tokenized(doc)
    PROVE  /\ Len(doc.tokens) \in Nat /\ DOMAIN doc.tokens = 1 .. Len(doc.tokens)
           /\ \A j \in 1 .. Len(doc.tokens) :
                 doc.tokens[j].start \in Nat /\ doc.tokens[j].end \in Nat
           /\ \A j \in 1 .. Len(doc.tokens) - 1 :
                 ~(doc.tokens[j + 1].start <= doc.tokens[j].start)
  <1>1. /\ Len(doc.tokens) \in Nat /\ DOMAIN doc.tokens = 1 .. Len(doc.tokens)
        /\ \A j \in 1 .. Len(doc.tokens) :
              /\ doc.tokens[j].start \in Nat /\ doc.tokens[j].end \in Nat
              /\ \A i \in 1 .. j - 1 : doc.tokens[i].start < doc.tokens[j].start
    BY DEF Tokenized
  <1> DEFINE len == Len(doc.tokens)
             s(j) == doc.tokens[j].start
  <1>2. /\ len \in Nat /\ \A j \in 1 .. len : s(j) \in Nat /\ \A i \in 1 .. j - 1 : s(i) < s(j)
    BY <1>1
  <1> HIDE DEF len, s
  <1>3. ASSUME NEW j \in 1 .. len - 1 PROVE ~(s(j + 1) <= s(j))
    <2>1. j + 1 \in 1 .. len /\ j \in 1 .. (j + 1) - 1 /\ j \in 1 .. len
      BY <1>2
    <2>2. s(j) < s(j + 1) /\ s(j) \in Nat /\ s(j + 1) \in Nat
      BY <1>2, <2>1
    <2>3. QED
      BY <2>2
  <1>4. QED
    BY <1>1, <1>3 DEF len, s

\* The keys of an object that lies in the document, each with its value behind it.
ObjectAt(doc, k, n, keys, vals) ==
    LET found == object_keys(doc.tokens, k)
    IN  /\ k \in DOMAIN doc.tokens /\ doc.tokens[k].type = "JSMN_OBJECT"
        /\ IsSeq(found) /\ Len(found) = n
        /\ \A i \in 1 .. n : /\ found[i] \in DOMAIN doc.tokens
                             /\ found[i] + 1 \in DOMAIN doc.tokens
                             /\ doc.tokens[found[i]].text = keys[i]
                             /\ Follows(doc, found[i], vals[i])

\* n pairs of a key and a value.
ArePairs(pairs, n, keys, vals) ==
    /\ n \in Nat /\ IsSeq(pairs) /\ Len(pairs) = n
    /\ \A i \in 1 .. n : IsValue(vals[i]) /\ pairs[i] = Pair(keys[i], vals[i])

\* They are pieces, and the object a value.
LEMMA ObjectPiece ==
    ASSUME NEW pairs, NEW n, NEW keys, NEW vals, ArePairs(pairs, n, keys, vals)
    PROVE  ArePieces(pairs, n) /\ IsPiece(Row(pairs)) /\ IsValue(Obj(pairs))
           /\ Obj(pairs) = Bracketed("JSMN_OBJECT", Row(pairs))
  <1>1. ASSUME NEW i \in 1 .. n PROVE IsPiece(pairs[i])
    <2>1. IsValue(vals[i]) /\ pairs[i] = Pair(keys[i], vals[i])
      BY DEF ArePairs
    <2>2. QED
      BY <2>1, PairPiece
  <1>2. ArePieces(pairs, n)
    BY <1>1 DEF ArePairs, ArePieces
  <1>3. IsPiece(Row(pairs))
    BY <1>2, RowPiece
  <1>4. QED
    BY <1>2, <1>3, BracketedPiece DEF Obj

\* object_get_nth_key and object_get_element_count on an object of the document.
LEMMA ObjectLies ==
    ASSUME NEW doc, Tokenized(doc), NEW k, NEW off, NEW pairs, NEW n, NEW keys, NEW vals,
           ArePairs(pairs, n, keys, vals), Lies(doc, k, off, Obj(pairs))
    PROVE  ObjectAt(doc, k + 1, n, keys, vals)
  <1> DEFINE tokens == doc.tokens
             len == Len(tokens)
             row == Row(pairs)
             c == Len(row.tokens)
             ends == [x \in DOMAIN tokens |-> TokenAt(tokens, x + 1).end]
             b == k + 1
  <1>1. /\ len \in Nat /\ DOMAIN tokens = 1 .. len
        /\ \A j \in 1 .. len : tokens[j].start \in Nat /\ tokens[j].end \in Nat
        /\ \A j \in 1 .. len - 1 : ~(tokens[j + 1].start <= tokens[j].start)
    BY TokensOf
  <1>2. n \in Nat /\ \A i \in 1 .. n : IsValue(vals[i]) /\ pairs[i] = Pair(keys[i], vals[i])
    BY DEF ArePairs
  <1>3. ArePieces(pairs, n) /\ IsPiece(row) /\ Lies(doc, k, off, Bracketed("JSMN_OBJECT", row))
    BY ObjectPiece
  <1>4. /\ b \in DOMAIN tokens /\ tokens[b].type = "JSMN_OBJECT"
        /\ Lies(doc, b, off + 1, row)
        /\ c = Cardinality(Within(tokens, b)) /\ b + c <= len
    <2> HIDE DEF row
    <2>1. QED
      BY <1>3, BracketedLies
  <1>5. PICK at : PlacedAt(doc, at, pairs, n, b, b + c)
    <2> DEFINE o == off + 1
    <2>1. Lies(doc, b, o, Row(pairs))
      BY <1>4
    <2> HIDE DEF o, b
    <2>2. QED
      BY <1>3, <2>1, RowLies
  <1>6. c \in Nat /\ b \in Nat /\ k \in Nat
    <2>1. c \in Nat
      BY <1>3, SeqFacts DEF IsPiece
    <2>2. QED
      BY <2>1 DEF Lies
  <1> HIDE DEF tokens, len, row, c, b
  <1>7. ASSUME NEW m \in 1 .. n
        PROVE  LET e == tokens[(at[m] + 1) + 1].end
               IN  /\ at[m] \in Nat /\ at[m + 1] \in Nat /\ at[m] + 1 < at[m + 1]
                   /\ at[m + 1] <= len
                   /\ at[m] + 1 \in DOMAIN tokens /\ (at[m] + 1) + 1 \in DOMAIN tokens
                   /\ tokens[at[m] + 1].text = keys[m]
                   /\ Follows(doc, at[m] + 1, vals[m])
                   /\ ends[at[m] + 1] = e
                   /\ \A j \in (at[m] + 1) + 1 .. at[m + 1] : tokens[j].start <= e
                   /\ \A j \in at[m + 1] + 1 .. len : tokens[j].start > e
    <2> DEFINE p == Pair(keys[m], vals[m])
               a == at[m]
               size == Len(p.tokens)
    <2>1. PICK o : Lies(doc, a, o, p)
      BY <1>2, <1>5 DEF PlacedAt
    <2>2. at[m + 1] = a + size
      BY <1>2, <1>5 DEF PlacedAt
    <2>3. /\ a \in Nat /\ size \in Nat /\ size > 1 /\ a + size <= len
          /\ a + 1 \in DOMAIN tokens /\ (a + 1) + 1 \in DOMAIN tokens
          /\ tokens[a + 1].text = keys[m]
          /\ Follows(doc, a + 1, vals[m])
          /\ \A j \in (a + 1) + 1 .. a + size : tokens[j].start <= tokens[(a + 1) + 1].end
          /\ \A j \in a + size + 1 .. len : tokens[j].start > tokens[(a + 1) + 1].end
      <3> HIDE DEF a
      <3>1. QED
        BY <1>2, <2>1, PairLies DEF Follows, tokens, len
    <2> HIDE DEF a, size, p
    <2>4. a + size \in Nat /\ a + 1 < a + size
      BY <2>3
    <2>5. ends[a + 1] = tokens[(a + 1) + 1].end
      BY <2>3 DEF TokenAt
    <2> HIDE DEF ends
    <2>6. QED
      BY <2>2, <2>3, <2>4, <2>5 DEF a
  <1> DEFINE pos == [m \in 1 .. n + 1 |-> at[m] + 1]
  <1>8. /\ \A m \in 1 .. n : pos[m] = at[m] + 1 /\ pos[m + 1] = at[m + 1] + 1
        /\ pos[1] = b + 1 /\ pos[n + 1] = (b + c) + 1
    <2>1. \A m \in 1 .. n : m \in 1 .. n + 1 /\ m + 1 \in 1 .. n + 1
      BY <1>2
    <2>2. 1 \in 1 .. n + 1 /\ n + 1 \in 1 .. n + 1
      BY <1>2
    <2>3. at[1] = b /\ at[n + 1] = b + c
      BY <1>5 DEF PlacedAt
    <2>4. QED
      BY <2>1, <2>2, <2>3
  <1> HIDE DEF pos, ends
  <1>9. Spread(tokens, b, ends, pos, n, c)
    <2>1. n > 0 => ~(tokens[b + 1].start <= tokens[b].start)
      <3>1. SUFFICES ASSUME n > 0 PROVE ~(tokens[b + 1].start <= tokens[b].start)
        OBVIOUS
      <3>2. 1 \in 1 .. n /\ at[1] = b
        BY <1>2, <1>5, <3>1 DEF PlacedAt
      <3>3. b + 1 \in 1 .. len
        BY <1>1, <1>7, <3>2
      <3>4. b \in 1 .. len - 1
        BY <1>1, <1>4, <1>6, <3>3
      <3>5. QED
        BY <1>1, <3>4
    <2>2. ASSUME NEW m \in 1 .. n PROVE pos[m] \in Nat /\ pos[m] < pos[m + 1]
      <3>1. at[m] \in Nat /\ at[m + 1] \in Nat /\ at[m] + 1 < at[m + 1]
        BY <1>7
      <3>2. QED
        BY <1>8, <3>1
    <2>3. ASSUME NEW m \in 1 .. n, NEW j \in pos[m] + 1 .. pos[m + 1] - 1
          PROVE  tokens[j].start <= ends[pos[m]]
      <3>1. at[m] \in Nat /\ at[m + 1] \in Nat
        BY <1>7
      <3>2. j \in (at[m] + 1) + 1 .. at[m + 1]
        BY <1>8, <3>1
      <3>3. QED
        BY <1>7, <1>8, <3>2
    <2>4. ASSUME NEW m \in 1 .. n - 1 PROVE ~(tokens[pos[m + 1]].start <= ends[pos[m]])
      <3>1. m \in 1 .. n /\ m + 1 \in 1 .. n
        BY <1>2
      <3> DEFINE j == at[m + 1] + 1
                 e == tokens[(at[m] + 1) + 1].end
      <3>2. j \in 1 .. len /\ at[m + 1] \in Nat
        BY <1>1, <1>7, <3>1
      <3>3. j \in at[m + 1] + 1 .. len
        BY <1>1, <3>2
      <3>4. tokens[j].start > e /\ ends[pos[m]] = e /\ pos[m + 1] = j
        BY <1>7, <1>8, <3>1, <3>3
      <3>5. tokens[j].start \in Nat /\ e \in Nat
        BY <1>1, <1>7, <3>1, <3>2
      <3> HIDE DEF j, e
      <3>6. QED
        BY <3>4, <3>5
    <2>5. QED
      BY <1>2, <1>6, <1>8, <2>1, <2>2, <2>3, <2>4 DEF Spread
  <1>10. Lists(object_keys(tokens, b), pos, n)
    <2>1. object_keys(tokens, b) = Scan(tokens, b, ends)
      BY DEF object_keys, ends
    <2>2. Lists(Scan(tokens, b, ends), pos, n)
      BY <1>4, <1>9, ScanFinds
    <2>3. QED
      BY <2>1, <2>2
  <1>11. \A i \in 1 .. n : object_keys(tokens, b)[i] = at[i] + 1
    BY <1>8, <1>10 DEF Lists
  <1>12. IsSeq(object_keys(tokens, b)) /\ Len(object_keys(tokens, b)) = n
    BY <1>10 DEF Lists
  <1>13. ObjectAt(doc, b, n, keys, vals)
    BY <1>4, <1>7, <1>11, <1>12 DEF ObjectAt, tokens
  <1>14. QED
    BY <1>13 DEF b

\* The elements of an array that lies in the document.
ArrayAt(doc, k, n, vals) ==
    LET found == array_elements(doc.tokens, k)
    IN  /\ k \in DOMAIN doc.tokens /\ doc.tokens[k].type = "JSMN_ARRAY"
        /\ IsSeq(found) /\ Len(found) = n
        /\ \A i \in 1 .. n : \E a \in Nat : /\ found[i] = a + 1 /\ a + 1 \in DOMAIN doc.tokens
                                            /\ Follows(doc, a, vals[i])

\* n values.
AreValues(vals, n) ==
    /\ n \in Nat /\ IsSeq(vals) /\ Len(vals) = n
    /\ \A i \in 1 .. n : IsValue(vals[i])

\* They are pieces, and the array a value.
LEMMA ArrayPiece ==
    ASSUME NEW vals, NEW n, AreValues(vals, n)
    PROVE  ArePieces(vals, n) /\ IsPiece(Row(vals)) /\ IsValue(Arr(vals))
           /\ Arr(vals) = Bracketed("JSMN_ARRAY", Row(vals))
  <1>1. ArePieces(vals, n)
    BY DEF AreValues, ArePieces, IsValue
  <1>2. IsPiece(Row(vals))
    BY <1>1, RowPiece
  <1>3. QED
    BY <1>1, <1>2, BracketedPiece DEF Arr

\* The row inside an array of the document, behind token b.
RowAt(doc, b, n, vals, at) ==
    LET len == Len(doc.tokens)
    IN  /\ b \in Nat /\ b \in DOMAIN doc.tokens /\ at[1] = b
        /\ at[n + 1] = b + Cardinality(Within(doc.tokens, b))
        /\ Cardinality(Within(doc.tokens, b)) \in Nat
        /\ \A m \in 1 .. n :
              /\ at[m] \in Nat /\ at[m + 1] \in Nat /\ at[m] + 1 <= at[m + 1] /\ at[m + 1] <= len
              /\ at[m] + 1 \in DOMAIN doc.tokens
              /\ at[m + 1] = at[m] + Len(vals[m].tokens)
              /\ Follows(doc, at[m], vals[m])
              /\ \A j \in at[m] + 1 .. at[m + 1] :
                    doc.tokens[j].start <= doc.tokens[at[m] + 1].end
              /\ \A j \in at[m + 1] + 1 .. len :
                    doc.tokens[j].start > doc.tokens[at[m] + 1].end

\* An array of the document is such a row.
LEMMA ArrayRow ==
    ASSUME NEW doc, Tokenized(doc), NEW k, NEW off, NEW vals, NEW n, AreValues(vals, n),
           Lies(doc, k, off, Arr(vals))
    PROVE  /\ \E at : RowAt(doc, k + 1, n, vals, at)
           /\ doc.tokens[k + 1].type = "JSMN_ARRAY"
  <1> DEFINE tokens == doc.tokens
             len == Len(tokens)
             row == Row(vals)
             c == Len(row.tokens)
             b == k + 1
  <1>1. len \in Nat /\ DOMAIN tokens = 1 .. len
    BY TokensOf
  <1>2. n \in Nat /\ \A i \in 1 .. n : IsValue(vals[i])
    BY DEF AreValues
  <1>3. ArePieces(vals, n) /\ IsPiece(row) /\ Lies(doc, k, off, Bracketed("JSMN_ARRAY", row))
    BY ArrayPiece
  <1>4. /\ b \in DOMAIN tokens /\ tokens[b].type = "JSMN_ARRAY"
        /\ Lies(doc, b, off + 1, row)
        /\ c = Cardinality(Within(tokens, b)) /\ b + c <= len
    <2> HIDE DEF row
    <2>1. QED
      BY <1>3, BracketedLies
  <1>5. PICK at : PlacedAt(doc, at, vals, n, b, b + c)
    <2> DEFINE o == off + 1
    <2>1. Lies(doc, b, o, Row(vals))
      BY <1>4
    <2> HIDE DEF o, b
    <2>2. QED
      BY <1>3, <2>1, RowLies
  <1>6. c \in Nat /\ b \in Nat /\ k \in Nat
    <2>1. c \in Nat
      BY <1>3, SeqFacts DEF IsPiece
    <2>2. QED
      BY <2>1 DEF Lies
  <1> HIDE DEF tokens, len, row, c, b
  <1>7. ASSUME NEW m \in 1 .. n
        PROVE  /\ at[m] \in Nat /\ at[m + 1] \in Nat /\ at[m] + 1 <= at[m + 1]
               /\ at[m + 1] <= len
               /\ at[m] + 1 \in DOMAIN tokens
               /\ at[m + 1] = at[m] + Len(vals[m].tokens)
               /\ Follows(doc, at[m], vals[m])
               /\ \A j \in at[m] + 1 .. at[m + 1] : tokens[j].start <= tokens[at[m] + 1].end
               /\ \A j \in at[m + 1] + 1 .. len : tokens[j].start > tokens[at[m] + 1].end
    <2> DEFINE v == vals[m]
               a == at[m]
               size == Len(v.tokens)
    <2>1. PICK o : Lies(doc, a, o, v)
      BY <1>2, <1>5 DEF PlacedAt
    <2>2. at[m + 1] = a + size
      BY <1>2, <1>5 DEF PlacedAt
    <2>3. /\ a \in Nat /\ size \in Nat /\ size > 0 /\ a + size <= len
          /\ a + 1 \in DOMAIN tokens
          /\ \A j \in a + 1 .. a + size : tokens[j].start <= tokens[a + 1].end
          /\ \A j \in a + size + 1 .. len : tokens[j].start > tokens[a + 1].end
      <3> HIDE DEF a
      <3>1. QED
        BY <1>2, <2>1, ValueLies DEF tokens, len
    <2>4. Follows(doc, a, v)
      BY <2>1 DEF Follows
    <2> HIDE DEF a, size, v
    <2>5. a + size \in Nat /\ a + 1 <= a + size
      BY <2>3
    <2>6. QED
      BY <2>2, <2>3, <2>4, <2>5 DEF a, v, size
  <1>8. at[1] = b /\ at[n + 1] = b + c
    BY <1>5 DEF PlacedAt
  <1>9. RowAt(doc, b, n, vals, at)
    BY <1>4, <1>6, <1>7, <1>8 DEF RowAt, tokens, len
  <1>10. QED
    BY <1>4, <1>9 DEF b, tokens

\* array_get_nth_element and array_get_element_count on an array of the document.
LEMMA ArrayLies ==
    ASSUME NEW doc, Tokenized(doc), NEW k, NEW off, NEW vals, NEW n, AreValues(vals, n),
           Lies(doc, k, off, Arr(vals))
    PROVE  ArrayAt(doc, k + 1, n, vals)
  <1> DEFINE tokens == doc.tokens
             len == Len(tokens)
             ends == [x \in DOMAIN tokens |-> tokens[x].end]
             b == k + 1
             c == Cardinality(Within(tokens, b))
  <1>1. /\ len \in Nat /\ DOMAIN tokens = 1 .. len
        /\ \A j \in 1 .. len : tokens[j].start \in Nat /\ tokens[j].end \in Nat
        /\ \A j \in 1 .. len - 1 : ~(tokens[j + 1].start <= tokens[j].start)
    BY TokensOf
  <1>2. n \in Nat
    BY DEF AreValues
  <1>3. PICK at : RowAt(doc, b, n, vals, at)
    BY ArrayRow
  <1>4. tokens[b].type = "JSMN_ARRAY"
    BY ArrayRow
  <1>5. /\ b \in Nat /\ b \in DOMAIN tokens /\ at[1] = b /\ at[n + 1] = b + c /\ c \in Nat
        /\ \A m \in 1 .. n :
              /\ at[m] \in Nat /\ at[m + 1] \in Nat /\ at[m] + 1 <= at[m + 1] /\ at[m + 1] <= len
              /\ at[m] + 1 \in DOMAIN tokens
              /\ Follows(doc, at[m], vals[m])
              /\ \A j \in at[m] + 1 .. at[m + 1] : tokens[j].start <= tokens[at[m] + 1].end
              /\ \A j \in at[m + 1] + 1 .. len : tokens[j].start > tokens[at[m] + 1].end
    BY <1>3 DEF RowAt
  <1>6. \A m \in 1 .. n : ends[at[m] + 1] = tokens[at[m] + 1].end
    BY <1>5
  <1>7. c = Cardinality(Within(tokens, b))
    OBVIOUS
  <1>8. array_elements(tokens, b) = Scan(tokens, b, ends)
    BY DEF array_elements
  <1> HIDE DEF tokens, len, c, b, ends
  <1> DEFINE pos == [m \in 1 .. n + 1 |-> at[m] + 1]
  <1>9. /\ \A m \in 1 .. n : pos[m] = at[m] + 1 /\ pos[m + 1] = at[m + 1] + 1
        /\ pos[1] = b + 1 /\ pos[n + 1] = (b + c) + 1
    <2>1. \A m \in 1 .. n : m \in 1 .. n + 1 /\ m + 1 \in 1 .. n + 1
      BY <1>2
    <2>2. 1 \in 1 .. n + 1 /\ n + 1 \in 1 .. n + 1
      BY <1>2
    <2>3. QED
      BY <1>5, <2>1, <2>2
  <1> HIDE DEF pos
  <1>10. Spread(tokens, b, ends, pos, n, c)
    <2>1. n > 0 => ~(tokens[b + 1].start <= tokens[b].start)
      <3>1. SUFFICES ASSUME n > 0 PROVE ~(tokens[b + 1].start <= tokens[b].start)
        OBVIOUS
      <3>2. 1 \in 1 .. n /\ at[1] = b
        BY <1>2, <1>5, <3>1
      <3>3. b + 1 \in 1 .. len
        BY <1>1, <1>5, <3>2
      <3>4. b \in 1 .. len - 1
        BY <1>1, <1>5, <3>3
      <3>5. QED
        BY <1>1, <3>4
    <2>2. ASSUME NEW m \in 1 .. n PROVE pos[m] \in Nat /\ pos[m] < pos[m + 1]
      <3>1. at[m] \in Nat /\ at[m + 1] \in Nat /\ at[m] + 1 <= at[m + 1]
        BY <1>5
      <3>2. QED
        BY <1>9, <3>1
    <2>3. ASSUME NEW m \in 1 .. n, NEW j \in pos[m] + 1 .. pos[m + 1] - 1
          PROVE  tokens[j].start <= ends[pos[m]]
      <3>1. at[m] \in Nat /\ at[m + 1] \in Nat
        BY <1>5
      <3>2. j \in at[m] + 1 .. at[m + 1]
        BY <1>9, <3>1
      <3>3. QED
        BY <1>5, <1>6, <1>9, <3>2
    <2>4. ASSUME NEW m \in 1 .. n - 1 PROVE ~(tokens[pos[m + 1]].start <= ends[pos[m]])
      <3>1. m \in 1 .. n /\ m + 1 \in 1 .. n
        BY <1>2
      <3> DEFINE j == at[m + 1] + 1
                 e == tokens[at[m] + 1].end
      <3>2. j \in 1 .. len /\ at[m + 1] \in Nat
        BY <1>1, <1>5, <3>1
      <3>3. j \in at[m + 1] + 1 .. len
        BY <1>1, <3>2
      <3>4. tokens[j].start > e /\ ends[pos[m]] = e /\ pos[m + 1] = j
        BY <1>5, <1>6, <1>9, <3>1, <3>3
      <3>5. tokens[j].start \in Nat /\ e \in Nat
        BY <1>1, <1>5, <3>1, <3>2
      <3> HIDE DEF j, e
      <3>6. QED
        BY <3>4, <3>5
    <2>5. QED
      BY <1>2, <1>5, <1>9, <2>1, <2>2, <2>3, <2>4 DEF Spread
  <1>11. Lists(array_elements(tokens, b), pos, n)
    <2>1. Lists(Scan(tokens, b, ends), pos, n)
      BY <1>7, <1>10, ScanFinds
    <2>2. QED
      BY <1>8, <2>1
  <1>12. ArrayAt(doc, b, n, vals)
    <2>1. \A i \in 1 .. n : array_elements(tokens, b)[i] = at[i] + 1
      BY <1>9, <1>11 DEF Lists
    <2>2. IsSeq(array_elements(tokens, b)) /\ Len(array_elements(tokens, b)) = n
      BY <1>11 DEF Lists
    <2>3. QED
      BY <1>4, <1>5, <2>1, <2>2 DEF ArrayAt, tokens
  <1>13. QED
    BY <1>12 DEF b

\* What array_get_element_count makes of n objects in an array, when it counts
\* like object_get_element_count: it finds a token of each, or of the one before
\* it a second one.
Crowded(tokens, k, ends, at, n, c) ==
    /\ n \in Nat /\ c \in Nat /\ k \in Nat
    /\ at[1] = k /\ at[n + 1] = k + c
    /\ n > 0 => ~(tokens[k + 1].start <= tokens[k].start)
    /\ \A m \in 1 .. n : at[m] \in Nat /\ at[m + 1] \in Nat /\ at[m] + 3 <= at[m + 1]
    /\ \A m \in 1 .. n : ~(tokens[at[m] + 3].start <= ends[at[m] + 1])
    /\ \A m \in 1 .. n - 1 : \A j \in at[m] + 1 .. at[m + 1] - 1 :
          ~(tokens[at[m + 1] + 1].start <= ends[j])
    /\ \A m \in 2 .. n : \A j \in at[m] + 1 .. at[m + 1] : tokens[j].start <= ends[at[m]]
    /\ \A m \in 2 .. n - 1 : ~(tokens[at[m + 1] + 1].start <= ends[at[m]])

\* At least as many elements as there are.
LEMMA ScanFindsAsMany ==
    ASSUME NEW tokens, NEW k, NEW ends, NEW at, NEW n, NEW c,
           Crowded(tokens, k, ends, at, n, c), c = Cardinality(Within(tokens, k))
    PROVE  /\ IsSeq(Scan(tokens, k, ends)) /\ Len(Scan(tokens, k, ends)) >= n
  <1>1. /\ n \in Nat /\ c \in Nat /\ k \in Nat
        /\ at[1] = k /\ at[n + 1] = k + c
        /\ n > 0 => ~(tokens[k + 1].start <= tokens[k].start)
        /\ \A m \in 1 .. n : at[m] \in Nat /\ at[m + 1] \in Nat /\ at[m] + 3 <= at[m + 1]
        /\ \A m \in 1 .. n : ~(tokens[at[m] + 3].start <= ends[at[m] + 1])
        /\ \A m \in 1 .. n - 1 : \A j \in at[m] + 1 .. at[m + 1] - 1 :
              ~(tokens[at[m + 1] + 1].start <= ends[j])
        /\ \A m \in 2 .. n : \A j \in at[m] + 1 .. at[m + 1] : tokens[j].start <= ends[at[m]]
        /\ \A m \in 2 .. n - 1 : ~(tokens[at[m + 1] + 1].start <= ends[at[m]])
    BY DEF Crowded
  <1>2. PICK g : /\ g[0] = [end |-> tokens[k].start, elements |-> << >>]
                 /\ \A i \in 1 .. c : g[i] = ScanStep(tokens, k, ends, g[i - 1], i)
                 /\ Scan(tokens, k, ends) = g[c].elements
    <2>1. c \in Nat /\ c = Cardinality(Within(tokens, k))
      BY <1>1
    <2>2. QED
      BY ONLY <2>1, ScanIsRun
  <1> DEFINE cnt(i) == Len(g[i].elements)
             end(i) == g[i].end
             start(j) == tokens[j].start
  <1>3. g[0].elements = << >> /\ end(0) = start(k)
    BY <1>2
  <1>4. \A i \in 1 .. c :
           \/ start(k + i) <= end(i - 1) /\ end(i) = end(i - 1) /\ g[i].elements = g[i - 1].elements
           \/ /\ ~(start(k + i) <= end(i - 1)) /\ end(i) = ends[k + i]
              /\ g[i].elements = Append(g[i - 1].elements, k + i)
    <2>1. TAKE i \in 1 .. c
    <2>2. g[i] = IF start(k + i) <= end(i - 1) THEN g[i - 1]
                 ELSE [end |-> ends[k + i], elements |-> Append(g[i - 1].elements, k + i)]
      BY <1>2 DEF ScanStep
    <2>3. CASE start(k + i) <= end(i - 1)
      BY <2>2, <2>3
    <2>4. CASE ~(start(k + i) <= end(i - 1))
      BY <2>2, <2>4
    <2>5. QED
      BY <2>3, <2>4
  <1>5. \A i \in 0 .. c : IsSeq(g[i].elements)
    <2> DEFINE S == {i \in 0 .. c : IsSeq(g[i].elements)}
    <2>1. 0 \in S
      BY <1>1, <1>3, ShortSeqs
    <2>2. ASSUME NEW i \in 0 .. c - 1, i \in S PROVE i + 1 \in S
      <3>1. i + 1 \in 1 .. c /\ (i + 1) - 1 = i /\ i + 1 \in 0 .. c
        BY <1>1
      <3>2. g[i + 1].elements = g[i].elements
               \/ g[i + 1].elements = Append(g[i].elements, k + (i + 1))
        BY <1>4, <3>1
      <3>3. IsSeq(g[i].elements)
        BY <2>2
      <3>4. IsSeq(Append(g[i].elements, k + (i + 1)))
        BY <3>3, Appended
      <3>5. QED
        BY <3>1, <3>2, <3>3, <3>4
    <2> HIDE DEF S
    <2>3. \A i \in 0 .. c : i \in S
      BY <1>1, <2>1, <2>2, Induction
    <2>4. QED
      BY <2>3 DEF S
  <1>6. \A i \in 1 .. c :
           /\ cnt(i) \in Nat /\ cnt(i - 1) \in Nat
           /\ \/ start(k + i) <= end(i - 1) /\ end(i) = end(i - 1) /\ cnt(i) = cnt(i - 1)
              \/ /\ ~(start(k + i) <= end(i - 1)) /\ end(i) = ends[k + i]
                 /\ cnt(i) = cnt(i - 1) + 1
    <2>1. TAKE i \in 1 .. c
    <2>2. i - 1 \in 0 .. c /\ i \in 0 .. c
      BY <1>1
    <2>3. IsSeq(g[i - 1].elements) /\ IsSeq(g[i].elements)
      BY <1>5, <2>2
    <2>4. cnt(i) \in Nat /\ cnt(i - 1) \in Nat
      BY <2>3, SeqFacts
    <2>5. Len(Append(g[i - 1].elements, k + i)) = cnt(i - 1) + 1
      BY <2>3, Appended
    <2>6. QED
      BY <1>4, <2>4, <2>5
  <1> HIDE DEF cnt, end, start
  <1> DEFINE First(i, m) == /\ cnt(i) >= m
                            /\ \E j \in at[m] + 1 .. k + i : end(i) = ends[j]
                            /\ \/ cnt(i) >= m + 1
                               \/ k + i < at[m] + 3 /\ end(i) = ends[at[m] + 1]
             Second(i, m) == m > 1 /\ cnt(i) >= m /\ end(i) = ends[at[m]]
             In(i, m) == at[m] < k + i /\ k + i <= at[m + 1] /\ (First(i, m) \/ Second(i, m))
             S == {i \in 0 .. c : i = 0 \/ \E m \in 1 .. n : In(i, m)}
  <1>7. 0 \in S
    BY <1>1
  \* The first token of object m.
  <1>8. ASSUME NEW i \in 1 .. c, NEW m \in 1 .. n, k + i = at[m] + 1,
               \/ ~(start(k + i) <= end(i - 1)) /\ cnt(i - 1) >= m - 1
               \/ m > 1 /\ cnt(i - 1) >= m /\ end(i - 1) = ends[at[m]]
        PROVE  In(i, m)
    <2>1. at[m] \in Nat /\ at[m + 1] \in Nat /\ at[m] + 3 <= at[m + 1]
      BY <1>1
    <2>2. at[m] < k + i /\ k + i <= at[m + 1] /\ k + i < at[m] + 3
      BY <1>8, <2>1
    <2>3. CASE ~(start(k + i) <= end(i - 1)) /\ cnt(i - 1) >= m - 1
      <3>1. end(i) = ends[at[m] + 1] /\ cnt(i) = cnt(i - 1) + 1 /\ cnt(i - 1) \in Nat
        BY <1>6, <1>8, <2>3
      <3>2. cnt(i) >= m
        BY <2>3, <3>1
      <3>3. at[m] + 1 \in at[m] + 1 .. k + i
        BY <1>8, <2>1
      <3>4. First(i, m)
        BY <2>2, <3>1, <3>2, <3>3
      <3> HIDE DEF First, Second
      <3>5. QED
        BY <2>2, <3>4
    <2>4. CASE m > 1 /\ cnt(i - 1) >= m /\ end(i - 1) = ends[at[m]]
      <3>1. m \in 2 .. n /\ at[m] + 1 \in at[m] + 1 .. at[m + 1]
        BY <1>1, <2>1, <2>4
      <3>2. start(k + i) <= end(i - 1)
        BY <1>1, <1>8, <2>4, <3>1 DEF start
      <3>3. end(i) = ends[at[m]] /\ cnt(i) = cnt(i - 1)
        BY <1>6, <2>4, <3>2
      <3>4. Second(i, m)
        BY <2>4, <3>3
      <3> HIDE DEF First, Second
      <3>5. QED
        BY <2>2, <3>4
    <2>5. QED
      BY <1>8, <2>3, <2>4
  \* The other tokens of object m.
  <1>9. ASSUME NEW i \in 1 .. c, NEW m \in 1 .. n, In(i - 1, m), k + i <= at[m + 1]
        PROVE  In(i, m)
    <2>1. at[m] \in Nat /\ at[m + 1] \in Nat /\ at[m] + 3 <= at[m + 1] /\ k \in Nat
      BY <1>1
    <2>2. at[m] < k + i /\ at[m] < k + (i - 1)
      BY <1>9, <2>1
    <2>3. CASE First(i - 1, m)
      <3>1. PICK j \in at[m] + 1 .. k + (i - 1) : end(i - 1) = ends[j]
        BY <2>3
      <3>2. j \in at[m] + 1 .. k + i /\ k + i \in at[m] + 1 .. k + i
        BY <2>1, <2>2
      <3>3. \E x \in at[m] + 1 .. k + i : end(i) = ends[x]
        BY <1>6, <3>1, <3>2
      <3>4. cnt(i) \in Nat /\ cnt(i - 1) \in Nat /\ (cnt(i) = cnt(i - 1) \/ cnt(i) = cnt(i - 1) + 1)
            /\ cnt(i - 1) >= m
        BY <1>6, <2>3
      <3>5. cnt(i) >= m
        BY <3>4
      <3>6. cnt(i) >= m + 1 \/ (k + i < at[m] + 3 /\ end(i) = ends[at[m] + 1])
        <4>1. CASE cnt(i - 1) >= m + 1
          BY <3>4, <4>1
        <4>2. CASE k + (i - 1) < at[m] + 3 /\ end(i - 1) = ends[at[m] + 1]
          <5>1. CASE start(k + i) <= end(i - 1)
            <6>1. end(i) = ends[at[m] + 1]
              BY <1>6, <4>2, <5>1
            <6>2. k + i # at[m] + 3
              BY <1>1, <4>2, <5>1 DEF start
            <6>3. k + i < at[m] + 3
              BY <2>1, <2>2, <4>2, <6>2
            <6>4. QED
              BY <6>1, <6>3
          <5>2. CASE ~(start(k + i) <= end(i - 1))
            <6>1. cnt(i) = cnt(i - 1) + 1
              BY <1>6, <5>2
            <6>2. QED
              BY <3>4, <6>1
          <5>3. QED
            BY <5>1, <5>2
        <4>3. QED
          BY <2>3, <4>1, <4>2
      <3>7. First(i, m)
        BY <3>3, <3>5, <3>6
      <3> HIDE DEF First, Second
      <3>8. QED
        BY <1>9, <2>2, <3>7
    <2>4. CASE Second(i - 1, m)
      <3>1. m > 1 /\ cnt(i - 1) >= m /\ end(i - 1) = ends[at[m]]
        BY <2>4
      <3>2. m \in 2 .. n /\ k + i \in at[m] + 1 .. at[m + 1]
        BY <1>1, <1>9, <2>1, <2>2, <3>1
      <3>3. start(k + i) <= end(i - 1)
        BY <1>1, <3>1, <3>2 DEF start
      <3>4. end(i) = ends[at[m]] /\ cnt(i) = cnt(i - 1)
        BY <1>6, <3>1, <3>3
      <3>5. Second(i, m)
        BY <3>1, <3>4
      <3> HIDE DEF First, Second
      <3>6. QED
        BY <1>9, <2>2, <3>5
    <2>5. QED
      BY <1>9, <2>3, <2>4
  <1>10. ASSUME NEW i \in 0 .. c - 1, i \in S PROVE i + 1 \in S
    <2> DEFINE y == i + 1
    <2>1. y \in 1 .. c /\ y - 1 = i /\ y \in 0 .. c /\ k + y = (k + i) + 1
      BY <1>1
    <2>2. CASE i = 0
      <3>1. n > 0
        BY <1>1, <2>1
      <3>2. 1 \in 1 .. n /\ k + y = at[1] + 1
        BY <1>1, <2>2, <3>1
      <3>3. ~(start(k + y) <= end(y - 1))
        <4>1. k + y = k + 1 /\ y - 1 = 0
          BY <2>2
        <4>2. ~(start(k + 1) <= start(k))
          BY <1>1, <3>1 DEF start
        <4>3. QED
          BY <1>3, <4>1, <4>2
      <3>4. cnt(y - 1) >= 1 - 1
        <4>1. cnt(y - 1) \in Nat
          BY <1>6, <2>1
        <4>2. QED
          BY <4>1
      <3> HIDE DEF y, In
      <3>5. In(y, 1)
        BY <1>8, <2>1, <3>2, <3>3, <3>4
      <3>6. QED
        BY <2>1, <3>2, <3>5 DEF y
    <2>3. CASE i # 0
      <3> HIDE DEF In
      <3>1. PICK m \in 1 .. n : In(i, m)
        BY <1>10, <2>3
      <3>2. at[m] < k + i /\ k + i <= at[m + 1] /\ (First(i, m) \/ Second(i, m))
        BY <3>1 DEF In
      <3>3. at[m] \in Nat /\ at[m + 1] \in Nat /\ at[m] + 3 <= at[m + 1]
        BY <1>1
      <3>4. CASE k + i < at[m + 1]
        <4>1. k + y <= at[m + 1]
          BY <1>1, <2>1, <3>3, <3>4
        <4> HIDE DEF y
        <4>2. In(y, m)
          BY <1>9, <2>1, <3>1, <4>1
        <4>3. QED
          BY <2>1, <4>2 DEF y
      <3>5. CASE k + i = at[m + 1]
        <4>1. m # n
          BY <1>1, <2>1, <3>5
        <4>2. m \in 1 .. n - 1 /\ m + 1 \in 1 .. n /\ m + 1 \in 2 .. n /\ (m + 1) - 1 = m
              /\ m + 1 > 1
          BY <1>1, <4>1
        <4>3. k + y = at[m + 1] + 1
          BY <2>1, <3>5
        <4>4. \/ ~(start(k + y) <= end(i)) /\ cnt(i) >= m
              \/ cnt(i) >= m + 1 /\ end(i) = ends[at[m + 1]]
          <5>1. CASE First(i, m)
            <6>1. PICK j \in at[m] + 1 .. k + i : end(i) = ends[j]
              BY <5>1
            <6>2. cnt(i) >= m
              BY <5>1
            <6>3. CASE j = at[m + 1]
              <7>1. cnt(i) >= m + 1
                <8>1. ~(k + i < at[m] + 3)
                  BY <3>3, <3>5
                <8>2. QED
                  BY <5>1, <8>1
              <7>2. QED
                BY <6>1, <6>3, <7>1
            <6>4. CASE j # at[m + 1]
              <7>1. j \in at[m] + 1 .. at[m + 1] - 1
                BY <3>3, <3>5, <6>4
              <7>2. ~(start(at[m + 1] + 1) <= ends[j])
                BY <1>1, <4>2, <7>1 DEF start
              <7>3. QED
                BY <4>3, <6>1, <6>2, <7>2
            <6>5. QED
              BY <6>3, <6>4
          <5>2. CASE Second(i, m)
            <6>1. m > 1 /\ cnt(i) >= m /\ end(i) = ends[at[m]]
              BY <5>2
            <6>2. m \in 2 .. n - 1
              BY <1>1, <4>2, <6>1
            <6>3. ~(start(at[m + 1] + 1) <= ends[at[m]])
              BY <1>1, <6>2 DEF start
            <6>4. QED
              BY <4>3, <6>1, <6>3
          <5>3. QED
            BY <3>2, <5>1, <5>2
        <4> HIDE DEF y
        <4>5. In(y, m + 1)
          <5> DEFINE q == m + 1
          <5>1. /\ q \in 1 .. n /\ k + y = at[q] + 1
                /\ \/ ~(start(k + y) <= end(y - 1)) /\ cnt(y - 1) >= q - 1
                   \/ q > 1 /\ cnt(y - 1) >= q /\ end(y - 1) = ends[at[q]]
            BY <2>1, <4>2, <4>3, <4>4
          <5> HIDE DEF q
          <5>2. In(y, q)
            BY <1>8, <2>1, <5>1
          <5>3. QED
            BY <5>2 DEF q
        <4>6. QED
          BY <2>1, <4>2, <4>5 DEF y
      <3>6. k + i < at[m + 1] \/ k + i = at[m + 1]
        <4>1. k + i \in Nat /\ at[m + 1] \in Nat /\ k + i <= at[m + 1]
          BY <1>1, <3>2, <3>3
        <4>2. QED
          BY ONLY <4>1
      <3>7. QED
        BY <3>4, <3>5, <3>6
    <2>4. QED
      BY <2>2, <2>3
  <1> HIDE DEF In, S
  <1>11. \A i \in 0 .. c : i \in S
    BY <1>1, <1>7, <1>10, Induction
  <1>12. c \in S /\ IsSeq(g[c].elements) /\ cnt(c) \in Nat
    <2>1. c \in 0 .. c
      BY <1>1
    <2>2. QED
      BY <1>5, <1>11, <2>1, SeqFacts DEF cnt
  <1>13. cnt(c) >= n
    <2>1. CASE n = 0
      BY <1>12, <2>1
    <2>2. CASE n # 0
      <3>1. n \in 1 .. n /\ 1 \in 1 .. n
        BY <1>1, <2>2
      <3>2. c # 0
        <4> DEFINE U == {m \in 0 .. n : m = 0 \/ (at[m + 1] \in Nat /\ k < at[m + 1])}
        <4>1. 0 \in U
          BY <1>1
        <4>2. ASSUME NEW m \in 0 .. n - 1, m \in U PROVE m + 1 \in U
          <5>1. m + 1 \in 1 .. n /\ m + 1 \in 0 .. n
            BY <1>1
          <5>2. at[m + 1] \in Nat /\ at[(m + 1) + 1] \in Nat /\ at[m + 1] + 3 <= at[(m + 1) + 1]
            BY <1>1, <5>1
          <5>3. m = 0 => at[m + 1] = k
            BY <1>1
          <5>4. k <= at[m + 1]
            BY <1>1, <4>2, <5>2, <5>3
          <5>5. QED
            BY <1>1, <5>1, <5>2, <5>4
        <4> HIDE DEF U
        <4>3. \A m \in 0 .. n : m \in U
          BY <1>1, <4>1, <4>2, Induction
        <4>4. k < at[n + 1]
          BY <1>1, <2>2, <4>3 DEF U
        <4>5. QED
          BY <1>1, <4>4
      <3>3. PICK m \in 1 .. n : In(c, m)
        BY <1>12, <3>2 DEF S
      <3>4. at[m] < k + c /\ k + c <= at[m + 1] /\ (First(c, m) \/ Second(c, m))
        BY <3>3 DEF In
      <3>5. cnt(c) >= m
        BY <3>4
      <3>6. m = n
        <4>1. SUFFICES ASSUME m # n PROVE FALSE
          OBVIOUS
        <4> DEFINE U == {d \in 0 .. n - (m + 1) :
                            at[(m + 1) + d] \in Nat /\ k + c <= at[(m + 1) + d]}
        <4>2. n - (m + 1) \in Nat /\ m + 1 \in 1 .. n
          BY <1>1, <4>1
        <4>3. 0 \in U
          <5>1. at[m + 1] \in Nat /\ (m + 1) + 0 = m + 1 /\ 0 \in 0 .. n - (m + 1)
            BY <1>1, <4>2
          <5>2. QED
            BY <3>4, <5>1
        <4>4. ASSUME NEW d \in 0 .. (n - (m + 1)) - 1, d \in U PROVE d + 1 \in U
          <5> DEFINE x == (m + 1) + d
          <5>1. x \in 1 .. n /\ (m + 1) + (d + 1) = x + 1 /\ d + 1 \in 0 .. n - (m + 1)
            BY <1>1, <4>2
          <5>2. at[x] \in Nat /\ k + c <= at[x]
            BY <4>4
          <5> HIDE DEF x
          <5>3. at[x + 1] \in Nat /\ at[x] + 3 <= at[x + 1]
            BY <1>1, <5>1
          <5>4. k + c <= at[x + 1]
            BY <1>1, <5>2, <5>3
          <5>5. QED
            BY <5>1, <5>3, <5>4
        <4> HIDE DEF U
        <4>5. \A d \in 0 .. n - (m + 1) : d \in U
          BY <4>2, <4>3, <4>4, Induction
        <4>6. n - (m + 1) \in 0 .. n - (m + 1) /\ (m + 1) + (n - (m + 1)) = n
          BY <1>1, <4>2
        <4>7. k + c <= at[n] /\ at[n] \in Nat
          BY <4>5, <4>6 DEF U
        <4>8. at[n] + 3 <= k + c
          BY <1>1, <3>1
        <4>9. QED
          BY <1>1, <4>7, <4>8
      <3>7. QED
        BY <3>5, <3>6
    <2>3. QED
      BY <2>1, <2>2
  <1>14. QED
    BY <1>2, <1>12, <1>13 DEF cnt

\* What is behind a piece starts behind the end of every token of the piece.
LEMMA PieceEnds ==
    ASSUME NEW doc, Tokenized(doc), NEW k, NEW off, NEW p, IsPiece(p), Lies(doc, k, off, p)
    PROVE  \A j \in k + 1 .. k + Len(p.tokens) :
           \A x \in k + Len(p.tokens) + 1 .. Len(doc.tokens) :
               ~(doc.tokens[x].start <= doc.tokens[j].end)
  <1> DEFINE T(j) == doc.tokens[j]
             len == Len(doc.tokens)
             n == Len(p.tokens)
             pl == p.len
             e(i) == p.tokens[i].end
  <1>1. len \in Nat /\ \A j \in 1 .. len : T(j).start \in Nat /\ T(j).end \in Nat
    BY TokensOf
  <1>2. /\ k \in Nat /\ off \in Nat /\ k + n <= len
        /\ \A i \in 1 .. n : IsMoved(T(k + i), p.tokens[i], off)
        /\ \A j \in k + n + 1 .. len : T(j).start > off + pl
    BY DEF Lies
  <1>3. n \in Nat /\ pl \in Nat /\ \A i \in 1 .. n : IsToken(p.tokens[i], pl)
    BY SeqFacts DEF IsPiece
  <1>4. \A i \in 1 .. n : T(k + i).end = e(i) + off
    BY <1>2 DEF IsMoved
  <1>5. ASSUME NEW i \in 1 .. n PROVE e(i) \in Nat /\ e(i) <= pl
    <2> DEFINE token == p.tokens[i]
    <2>1. IsToken(token, pl)
      BY <1>3
    <2> HIDE DEF token, pl
    <2>2. token.end \in Nat /\ token.end <= pl
      BY <1>3, <2>1, TokenFacts
    <2>3. QED
      BY <2>2 DEF token
  <1> HIDE DEF T, len, n, pl, e
  <1>6. ASSUME NEW j \in k + 1 .. k + n, NEW x \in k + n + 1 .. len
        PROVE  ~(T(x).start <= T(j).end)
    <2>1. j - k \in 1 .. n /\ k + (j - k) = j
      BY <1>2, <1>3
    <2>2. T(j).end = e(j - k) + off /\ e(j - k) \in Nat /\ e(j - k) <= pl
      BY <1>4, <1>5, <2>1
    <2>3. T(x).start > off + pl /\ T(x).start \in Nat
      <3>1. x \in 1 .. len
        BY <1>1, <1>2, <1>3
      <3>2. QED
        BY <1>1, <1>2, <3>1
    <2> DEFINE a == T(x).start
               b == e(j - k)
    <2>4. a \in Nat /\ b \in Nat /\ a > off + pl /\ b <= pl /\ T(j).end = b + off
      BY <2>2, <2>3
    <2> HIDE DEF a, b
    <2>5. ~(a <= b + off)
      BY <1>2, <1>3, <2>4
    <2>6. QED
      BY <2>4, <2>5 DEF a
  <1>7. QED
    BY <1>6 DEF T, len, n

\* An object with a key has three tokens, and its value starts behind the key.
LEMMA FirstKeyLies ==
    ASSUME NEW doc, Tokenized(doc), NEW k, NEW off, NEW pairs, NEW n, NEW keys, NEW vals,
           ArePairs(pairs, n, keys, vals), n > 0, Lies(doc, k, off, Obj(pairs))
    PROVE  /\ k + 3 <= k + Len(Obj(pairs).tokens)
           /\ (k + 1) + 1 \in DOMAIN doc.tokens
           /\ ~(doc.tokens[k + 3].start <= doc.tokens[(k + 1) + 1].end)
  <1> DEFINE row == Row(pairs)
             c == Len(row.tokens)
             b == k + 1
             f == Str(keys[1])
             v == vals[1]
             len == Len(doc.tokens)
  <1>1. n \in Nat /\ IsValue(v) /\ pairs[1] = Pair(keys[1], v)
    BY DEF ArePairs
  <1>2. /\ ArePieces(pairs, n) /\ IsPiece(row) /\ Lies(doc, k, off, Bracketed("JSMN_OBJECT", row))
        /\ Obj(pairs) = Bracketed("JSMN_OBJECT", row)
    BY ObjectPiece
  <1>3. /\ Lies(doc, b, off + 1, row) /\ b + c <= len
    <2> HIDE DEF row
    <2>1. QED
      BY <1>2, BracketedLies
  <1>4. Len(Obj(pairs).tokens) = 1 + c
    <2> HIDE DEF row
    <2>1. QED
      BY <1>2, BracketedPiece
  <1>5. PICK at : PlacedAt(doc, at, pairs, n, b, b + c)
    <2> DEFINE o == off + 1
    <2>1. Lies(doc, b, o, Row(pairs))
      BY <1>3
    <2> HIDE DEF o, b
    <2>2. QED
      BY <1>2, <2>1, RowLies
  <1>6. 1 \in 1 .. n /\ at[1] = b
    BY <1>1, <1>5 DEF PlacedAt
  <1>7. PICK o : Lies(doc, b, o, pairs[1])
    BY <1>5, <1>6 DEF PlacedAt
  <1>8. Lies(doc, b, o, Pair(keys[1], v))
    BY <1>1, <1>7
  <1> HIDE DEF row, b
  <1>9. /\ IsValue(f) /\ IsPiece(f) /\ Len(f.tokens) = 1 /\ IsPiece(v)
    BY <1>1, TextPiece DEF IsValue
  <1>10. Pair(keys[1], v) = Beside(f, v)
    BY DEF Pair
  <1> HIDE DEF f
  <1>11. Lies(doc, b, o, f)
    BY <1>8, <1>9, <1>10, BesideLies
  <1>12. \A x \in b + Len(f.tokens) + 1 .. len :
           \A j \in b + 1 .. b + Len(f.tokens) :
              ~(doc.tokens[x].start <= doc.tokens[j].end)
    BY <1>9, <1>11, PieceEnds
  <1>13. /\ b \in Nat /\ b + 1 \in DOMAIN doc.tokens /\ (b + 1) + 1 \in DOMAIN doc.tokens
    <2> HIDE DEF v
    <2>1. QED
      BY <1>1, <1>8, PairLies
  <1>14. len \in Nat /\ DOMAIN doc.tokens = 1 .. len
    BY TokensOf
  <1>15. k \in Nat /\ c \in Nat
    <2>1. c \in Nat
      BY <1>2, SeqFacts DEF IsPiece
    <2>2. k \in Nat
      BY DEF Lies
    <2>3. QED
      BY <2>1, <2>2
  <1>16. c >= 2
    <2> DEFINE size == Len(pairs[1].tokens)
               U == {m \in 1 .. n : at[m + 1] \in Nat /\ at[m + 1] >= b + size}
    <2>1. size \in Nat /\ size > 1
      <3> HIDE DEF v
      <3>1. QED
        BY <1>1, <1>8, PairLies
    <2>2. \A m \in 1 .. n : /\ at[m] \in Nat /\ Len(pairs[m].tokens) \in Nat
                            /\ at[m + 1] = at[m] + Len(pairs[m].tokens)
      BY <1>2, <1>5, SeqFacts DEF PlacedAt, ArePieces, IsPiece
    <2> DEFINE S == {d \in 0 .. n - 1 : at[d + 2] \in Nat /\ at[d + 2] >= b + size}
    <2> HIDE DEF size
    <2>3. 0 \in S
      <3>1. at[1 + 1] = b + size
        BY <1>6, <2>2 DEF size
      <3>2. QED
        BY <1>1, <1>13, <2>1, <3>1
    <2>4. ASSUME NEW d \in 0 .. (n - 1) - 1, d \in S PROVE d + 1 \in S
      <3> DEFINE m == d + 2
      <3>1. m \in 1 .. n /\ m + 1 = (d + 1) + 2 /\ d + 1 \in 0 .. n - 1
        BY <1>1
      <3>2. at[m] \in Nat /\ at[m] >= b + size
        BY <2>4
      <3> HIDE DEF m
      <3>3. at[m + 1] = at[m] + Len(pairs[m].tokens) /\ Len(pairs[m].tokens) \in Nat
        BY <2>2, <3>1
      <3>4. at[m + 1] \in Nat /\ at[m + 1] >= b + size
        BY <1>13, <2>1, <3>2, <3>3
      <3>5. QED
        BY <3>1, <3>4
    <2> HIDE DEF S
    <2>5. n - 1 \in Nat
      BY <1>1
    <2>6. \A d \in 0 .. n - 1 : d \in S
      BY <2>3, <2>4, <2>5, Induction
    <2>7. n - 1 \in S /\ (n - 1) + 2 = n + 1
      BY <1>1, <2>5, <2>6
    <2>8. at[n + 1] >= b + size /\ at[n + 1] = b + c
      BY <1>5, <2>7 DEF S, PlacedAt
    <2>9. QED
      BY <1>13, <1>15, <2>1, <2>8
  <1>17. k + 3 <= k + (1 + c) /\ b + 1 = (k + 1) + 1 /\ k + 3 = b + 2
    BY <1>15, <1>16 DEF b
  <1>18. b + 2 \in b + Len(f.tokens) + 1 .. len /\ b + 1 \in b + 1 .. b + Len(f.tokens)
    BY <1>3, <1>9, <1>13, <1>14, <1>15, <1>16
  <1>19. ~(doc.tokens[b + 2].start <= doc.tokens[b + 1].end)
    BY <1>12, <1>18
  <1>20. QED
    BY <1>4, <1>13, <1>17, <1>19

\* n objects that have a key each.
AreRecords(vals, n) ==
    /\ AreValues(vals, n)
    /\ \A i \in 1 .. n : \E pairs, m, keys, vs :
          ArePairs(pairs, m, keys, vs) /\ m > 0 /\ vals[i] = Obj(pairs)

\* An array of them counts as many keys, or more.
LEMMA RecordsCounted ==
    ASSUME NEW doc, Tokenized(doc), NEW k, NEW off, NEW vals, NEW n, AreRecords(vals, n),
           Lies(doc, k, off, Arr(vals))
    PROVE  /\ IsSeq(object_keys(doc.tokens, k + 1))
           /\ Len(object_keys(doc.tokens, k + 1)) >= n
  <1> DEFINE tokens == doc.tokens
             len == Len(tokens)
             ends == [x \in DOMAIN tokens |-> TokenAt(tokens, x + 1).end]
             b == k + 1
             c == Cardinality(Within(tokens, b))
  <1>1. /\ len \in Nat /\ DOMAIN tokens = 1 .. len
        /\ \A j \in 1 .. len : tokens[j].start \in Nat /\ tokens[j].end \in Nat
        /\ \A j \in 1 .. len - 1 : ~(tokens[j + 1].start <= tokens[j].start)
    BY TokensOf
  <1>2. n \in Nat /\ AreValues(vals, n) /\ \A i \in 1 .. n : IsValue(vals[i])
    BY DEF AreRecords, AreValues
  <1>3. PICK at : RowAt(doc, b, n, vals, at)
    BY <1>2, ArrayRow
  <1>4. /\ b \in Nat /\ b \in DOMAIN tokens /\ at[1] = b /\ at[n + 1] = b + c /\ c \in Nat
        /\ \A m \in 1 .. n :
              /\ at[m] \in Nat /\ at[m + 1] \in Nat /\ at[m] + 1 <= at[m + 1] /\ at[m + 1] <= len
              /\ at[m] + 1 \in DOMAIN tokens
              /\ at[m + 1] = at[m] + Len(vals[m].tokens)
              /\ Follows(doc, at[m], vals[m])
              /\ \A j \in at[m] + 1 .. at[m + 1] : tokens[j].start <= tokens[at[m] + 1].end
              /\ \A j \in at[m + 1] + 1 .. len : tokens[j].start > tokens[at[m] + 1].end
    BY <1>3 DEF RowAt
  <1>5. ASSUME NEW m \in 1 .. n
        PROVE  /\ at[m] + 3 <= at[m + 1] /\ (at[m] + 1) + 1 \in DOMAIN tokens
               /\ ~(tokens[at[m] + 3].start <= tokens[(at[m] + 1) + 1].end)
               /\ \A j \in at[m] + 1 .. at[m + 1] : \A x \in at[m + 1] + 1 .. len :
                     ~(tokens[x].start <= tokens[j].end)
    <2> DEFINE a == at[m]
               v == vals[m]
    <2>1. PICK o : Lies(doc, a, o, v)
      BY <1>4 DEF Follows
    <2>2. PICK pairs, q, keys, vs : ArePairs(pairs, q, keys, vs) /\ q > 0 /\ v = Obj(pairs)
      BY DEF AreRecords
    <2>3. IsPiece(v) /\ at[m + 1] = a + Len(v.tokens)
      BY <1>2, <1>4 DEF IsValue
    <2> HIDE DEF a, v
    <2>4. /\ a + 3 <= a + Len(v.tokens)
          /\ (a + 1) + 1 \in DOMAIN doc.tokens
          /\ ~(doc.tokens[a + 3].start <= doc.tokens[(a + 1) + 1].end)
      BY <2>1, <2>2, FirstKeyLies
    <2>5. \A j \in a + 1 .. a + Len(v.tokens) :
          \A x \in a + Len(v.tokens) + 1 .. Len(doc.tokens) :
               ~(doc.tokens[x].start <= doc.tokens[j].end)
      BY <2>1, <2>3, PieceEnds
    <2>6. QED
      BY <2>3, <2>4, <2>5 DEF a
  <1>6. \A x \in 1 .. len - 1 : ends[x] = tokens[x + 1].end
    <2>1. \A x \in 1 .. len - 1 : x \in DOMAIN tokens /\ x + 1 \in DOMAIN tokens
      BY <1>1
    <2>2. QED
      BY <2>1 DEF TokenAt
  <1>7. object_keys(tokens, b) = Scan(tokens, b, ends)
    BY DEF object_keys
  <1>8. c = Cardinality(Within(tokens, b))
    OBVIOUS
  <1> HIDE DEF tokens, len, c, b, ends
  <1>9. Crowded(tokens, b, ends, at, n, c)
    <2>1. n > 0 => ~(tokens[b + 1].start <= tokens[b].start)
      <3>1. SUFFICES ASSUME n > 0 PROVE ~(tokens[b + 1].start <= tokens[b].start)
        OBVIOUS
      <3>2. 1 \in 1 .. n /\ at[1] = b
        BY <1>2, <1>4, <3>1
      <3>3. b + 1 \in 1 .. len
        BY <1>1, <1>4, <3>2
      <3>4. b \in 1 .. len - 1
        BY <1>1, <1>4, <3>3
      <3>5. QED
        BY <1>1, <3>4
    <2>2. ASSUME NEW m \in 1 .. n PROVE ~(tokens[at[m] + 3].start <= ends[at[m] + 1])
      <3>1. at[m] + 1 \in 1 .. len - 1
        BY <1>1, <1>4, <1>5
      <3>2. ends[at[m] + 1] = tokens[(at[m] + 1) + 1].end
        BY <1>6, <3>1
      <3>3. QED
        BY <1>5, <3>2
    <2>3. ASSUME NEW m \in 1 .. n - 1, NEW j \in at[m] + 1 .. at[m + 1] - 1
          PROVE  ~(tokens[at[m + 1] + 1].start <= ends[j])
      <3>1. m \in 1 .. n /\ m + 1 \in 1 .. n
        BY <1>2
      <3>2. at[m] \in Nat /\ at[m + 1] \in Nat /\ at[m + 1] + 1 \in 1 .. len
        BY <1>1, <1>4, <3>1
      <3>3. at[m + 1] + 1 \in at[m + 1] + 1 .. len /\ j + 1 \in at[m] + 1 .. at[m + 1]
            /\ j \in 1 .. len - 1
        BY <1>1, <3>2, SMTT(60)
      <3>4. ends[j] = tokens[j + 1].end
        BY <1>6, <3>3
      <3>5. QED
        BY <1>5, <3>1, <3>3, <3>4
    <2>4. ASSUME NEW m \in 2 .. n
          PROVE  m \in 1 .. n /\ ends[at[m]] = tokens[at[m] + 1].end
      <3>1. m \in 1 .. n /\ m - 1 \in 1 .. n /\ (m - 1) + 1 = m
        BY <1>2
      <3>2. at[m - 1] \in Nat /\ at[m] \in Nat /\ at[m - 1] + 1 <= at[m] /\ at[m] + 1 \in DOMAIN tokens
        BY <1>4, <3>1
      <3>3. at[m] \in 1 .. len - 1
        BY <1>1, <3>2
      <3>4. QED
        BY <1>6, <3>1, <3>3
    <2>5. ASSUME NEW m \in 2 .. n, NEW j \in at[m] + 1 .. at[m + 1]
          PROVE  tokens[j].start <= ends[at[m]]
      BY <1>4, <2>4
    <2>6. ASSUME NEW m \in 2 .. n - 1 PROVE ~(tokens[at[m + 1] + 1].start <= ends[at[m]])
      <3>1. m \in 2 .. n /\ m \in 1 .. n /\ m + 1 \in 1 .. n
        BY <1>2
      <3> DEFINE x == at[m + 1] + 1
                 e == tokens[at[m] + 1].end
      <3>2. x \in 1 .. len /\ at[m + 1] \in Nat /\ x \in at[m + 1] + 1 .. len
        BY <1>1, <1>4, <3>1
      <3>3. tokens[x].start > e /\ ends[at[m]] = e
        BY <1>4, <2>4, <3>1, <3>2
      <3>4. tokens[x].start \in Nat /\ e \in Nat
        BY <1>1, <1>4, <3>1, <3>2
      <3> HIDE DEF e, x
      <3>5. ~(tokens[x].start <= e)
        BY <3>3, <3>4
      <3>6. QED
        BY <3>3, <3>5 DEF x
    <2>7. QED
      BY <1>2, <1>4, <1>5, <2>1, <2>2, <2>3, <2>5, <2>6 DEF Crowded
  <1>10. IsSeq(Scan(tokens, b, ends)) /\ Len(Scan(tokens, b, ends)) >= n
    BY <1>8, <1>9, ScanFindsAsMany
  <1>11. QED
    BY <1>7, <1>10 DEF tokens, b

-----------------------------------------------------------------------------
(* The encoding of an ordinary transaction, and where its root fields lie. *)

\* Two pairs of an object.
LEMMA TwoPairs ==
    ASSUME NEW a, NEW x, NEW b, NEW y, IsValue(x), IsValue(y)
    PROVE  ArePairs(<< Pair(a, x), Pair(b, y) >>, 2, << a, b >>, << x, y >>)
  <1> DEFINE pairs == << Pair(a, x), Pair(b, y) >>
             keys == << a, b >>
             vals == << x, y >>
  <1>1. IsSeq(pairs) /\ Len(pairs) = 2 /\ pairs[1] = Pair(a, x) /\ pairs[2] = Pair(b, y)
    BY ShortSeqs
  <1>2. keys[1] = a /\ keys[2] = b /\ vals[1] = x /\ vals[2] = y
    BY ShortSeqs
  <1> HIDE DEF pairs, keys, vals
  <1>3. \A i \in 1 .. 2 : i = 1 \/ i = 2
    OBVIOUS
  <1>4. \A i \in 1 .. 2 : IsValue(vals[i]) /\ pairs[i] = Pair(keys[i], vals[i])
    BY <1>1, <1>2, <1>3
  <1>5. ArePairs(pairs, 2, keys, vals)
    BY <1>1, <1>4 DEF ArePairs
  <1>6. QED
    BY <1>5 DEF pairs, keys, vals

\* A pair, or a value, for each index.
LEMMA SomePairs ==
    ASSUME NEW n \in Nat, NEW pairs, NEW keys, NEW vals, pairs = [i \in 1 .. n |-> pairs[i]],
           \A i \in 1 .. n : IsValue(vals[i]) /\ pairs[i] = Pair(keys[i], vals[i])
    PROVE  ArePairs(pairs, n, keys, vals)
  BY FunctionIsSeq DEF ArePairs

\* The same for values alone.
LEMMA SomeValues ==
    ASSUME NEW n \in Nat, NEW vals, vals = [i \in 1 .. n |-> vals[i]],
           \A i \in 1 .. n : IsValue(vals[i])
    PROVE  AreValues(vals, n)
  BY FunctionIsSeq DEF AreValues

\* Coins are values.
LEMMA CoinValue ==
    ASSUME NEW c
    PROVE  IsValue(EncodeCoin(c))
  <1> DEFINE x == Str(c[1])
             y == Str(c[2])
             a == "amount"
             b == "denom"
             pairs == << Pair(a, x), Pair(b, y) >>
  <1>1. IsValue(x) /\ IsValue(y)
    BY TextPiece
  <1>2. EncodeCoin(c) = Obj(pairs)
    BY DEF EncodeCoin
  <1> HIDE DEF x, y, a, b
  <1>3. ArePairs(pairs, 2, << a, b >>, << x, y >>)
    BY <1>1, TwoPairs
  <1> HIDE DEF pairs
  <1>4. QED
    BY <1>2, <1>3, ObjectPiece

\* So are lists of them.
LEMMA CoinsValue ==
    ASSUME NEW coins, IsSeq(coins)
    PROVE  /\ AreValues([i \in DOMAIN coins |-> EncodeCoin(coins[i])], Len(coins))
           /\ IsValue(EncodeCoins(coins))
  <1> DEFINE vals == [i \in DOMAIN coins |-> EncodeCoin(coins[i])]
  <1>1. AreValues(vals, Len(coins))
    <2> DEFINE n == Len(coins)
    <2>1. n \in Nat /\ DOMAIN coins = 1 .. n
      BY SeqFacts
    <2> HIDE DEF n
    <2>2. vals = [i \in 1 .. n |-> vals[i]]
      BY <2>1
    <2>3. \A i \in 1 .. n : IsValue(vals[i])
      BY <2>1, CoinValue
    <2> HIDE DEF vals
    <2>4. QED
      BY <2>1, <2>2, <2>3, SomeValues DEF n
  <1>2. EncodeCoins(coins) = Arr(vals)
    BY DEF EncodeCoins
  <1> HIDE DEF vals
  <1>3. IsValue(Arr(vals))
    BY <1>1, ArrayPiece
  <1>4. QED
    BY <1>1, <1>2, <1>3 DEF vals

\* So is each field of an ordinary message, and the message.
LEMMA FieldValue ==
    ASSUME NEW v, OrdinaryField(v)
    PROVE  IsValue(EncodeValue(v))
  <1>1. CASE v.kind \in {"word", "number"}
    BY <1>1, TextPiece DEF EncodeValue
  <1>2. CASE v.kind = "coins" /\ IsSeq(v.is)
    BY <1>2, CoinsValue DEF EncodeValue
  <1>3. CASE v.kind = "json" /\ IsSeq(v.is)
    <2> DEFINE s == v.is
               pairs == [i \in DOMAIN s |-> Pair(s[i][1], Str(s[i][2]))]
    <2>1. EncodeValue(v) = Obj(pairs)
      BY <1>3 DEF EncodeValue
    <2>2. \E keys, vals : ArePairs(pairs, Len(s), keys, vals)
      <3> DEFINE n == Len(s)
                 keys == [i \in 1 .. n |-> s[i][1]]
                 vals == [i \in 1 .. n |-> Str(s[i][2])]
      <3>1. n \in Nat /\ DOMAIN s = 1 .. n
        BY <1>3, SeqFacts
      <3> HIDE DEF n, s
      <3>2. pairs = [i \in 1 .. n |-> pairs[i]]
        BY <3>1
      <3>3. \A i \in 1 .. n : IsValue(vals[i]) /\ pairs[i] = Pair(keys[i], vals[i])
        BY <3>1, TextPiece
      <3> HIDE DEF pairs, keys, vals
      <3>4. ArePairs(pairs, n, keys, vals)
        BY <3>1, <3>2, <3>3, SomePairs
      <3>5. QED
        BY <3>4 DEF n
    <2> HIDE DEF pairs
    <2>3. QED
      BY <2>1, <2>2, ObjectPiece
  <1>4. QED
    BY <1>1, <1>2, <1>3 DEF OrdinaryField

\* The keys and the values of a message's fields.
FieldKeys(m) == [i \in 1 .. Len(m.value) |-> m.value[i].key]
FieldValues(m) == [i \in 1 .. Len(m.value) |-> EncodeValue(m.value[i])]
FieldPairs(m) == [i \in DOMAIN m.value |-> Pair(m.value[i].key, EncodeValue(m.value[i]))]

\* The fields of an ordinary message are pairs.
LEMMA FieldsArePairs ==
    ASSUME NEW m, OrdinaryMsg(m)
    PROVE  ArePairs(FieldPairs(m), Len(m.value), FieldKeys(m), FieldValues(m))
  <1> DEFINE n == Len(m.value)
  <1>1. n \in Nat /\ DOMAIN m.value = 1 .. n /\ \A i \in DOMAIN m.value : OrdinaryField(m.value[i])
    BY SeqFacts DEF OrdinaryMsg
  <1> HIDE DEF n
  <1>2. FieldPairs(m) = [i \in 1 .. n |-> FieldPairs(m)[i]]
    BY <1>1 DEF FieldPairs
  <1>3. ASSUME NEW i \in 1 .. n
        PROVE  IsValue(FieldValues(m)[i])
               /\ FieldPairs(m)[i] = Pair(FieldKeys(m)[i], FieldValues(m)[i])
    <2>1. IsValue(EncodeValue(m.value[i]))
      BY <1>1, FieldValue
    <2>2. FieldValues(m)[i] = EncodeValue(m.value[i]) /\ FieldKeys(m)[i] = m.value[i].key
          /\ FieldPairs(m)[i] = Pair(m.value[i].key, EncodeValue(m.value[i]))
      BY <1>1 DEF FieldPairs, FieldKeys, FieldValues, n
    <2>3. QED
      BY <2>1, <2>2
  <1>4. ArePairs(FieldPairs(m), n, FieldKeys(m), FieldValues(m))
    BY <1>1, <1>2, <1>3, SomePairs
  <1>5. QED
    BY <1>4 DEF n

MsgPairs(m) == << Pair("type", Str(m.type)), Pair("value", Obj(FieldPairs(m))) >>

\* An ordinary message is an object of two pairs, its type and its value.
LEMMA MsgValue ==
    ASSUME NEW m, OrdinaryMsg(m)
    PROVE  /\ EncodeMsg(m) = Obj(MsgPairs(m)) /\ IsValue(EncodeMsg(m))
           /\ ArePairs(MsgPairs(m), 2, << "type", "value" >>,
                       << Str(m.type), Obj(FieldPairs(m)) >>)
  <1> DEFINE x == Str(m.type)
             y == Obj(FieldPairs(m))
             a == "type"
             b == "value"
  <1>1. IsValue(x) /\ IsValue(y)
    BY FieldsArePairs, ObjectPiece, TextPiece
  <1>2. MsgPairs(m) = << Pair(a, x), Pair(b, y) >>
    BY DEF MsgPairs
  <1>3. EncodeMsg(m) = Obj(MsgPairs(m))
    BY DEF EncodeMsg, MsgPairs, FieldPairs
  <1> HIDE DEF x, y, a, b
  <1>4. ArePairs(<< Pair(a, x), Pair(b, y) >>, 2, << a, b >>, << x, y >>)
    BY <1>1, TwoPairs
  <1>5. ArePairs(MsgPairs(m), 2, << a, b >>, << x, y >>)
    BY <1>2, <1>4
  <1>6. IsValue(Obj(MsgPairs(m)))
    BY <1>5, ObjectPiece
  <1>7. QED
    BY <1>3, <1>5, <1>6 DEF a, b, x, y

\* Six elements.
LEMMA SixSeq ==
    ASSUME NEW a, NEW b, NEW c, NEW d, NEW e, NEW f
    PROVE  LET s == << a, b, c, d, e, f >>
           IN  /\ IsSeq(s) /\ Len(s) = 6
               /\ s[1] = a /\ s[2] = b /\ s[3] = c /\ s[4] = d /\ s[5] = e /\ s[6] = f
  <1> DEFINE s == << a, b, c, d, e, f >>
  <1>1. s \in Seq({a, b, c, d, e, f}) /\ Len(s) = 6
        /\ s[1] = a /\ s[2] = b /\ s[3] = c /\ s[4] = d /\ s[5] = e /\ s[6] = f
    OBVIOUS
  <1> HIDE DEF s
  <1>2. IsSeq(s)
    BY <1>1, TypedIsSeq
  <1>3. QED
    BY <1>1, <1>2 DEF s

\* The keys of a transaction, and their values.
FeePairs(t) == << Pair("amount", EncodeCoins(t.fee)), Pair("gas", Str(t.gas)) >>

MsgValues(t) == [i \in DOMAIN t.msgs |-> EncodeMsg(t.msgs[i])]

TxKeys == << "account_number", "chain_id", "fee", "memo", "msgs", "sequence" >>

TxValues(t) == << Str(t.account_number), Str(t.chain_id), Obj(FeePairs(t)), Str(t.memo),
                  Arr(MsgValues(t)), Str(t.sequence) >>

TxPairs(t) == << Pair("account_number", Str(t.account_number)),
                 Pair("chain_id", Str(t.chain_id)),
                 Pair("fee", Obj(FeePairs(t))), Pair("memo", Str(t.memo)),
                 Pair("msgs", Arr(MsgValues(t))), Pair("sequence", Str(t.sequence)) >>

\* The fee is a pair of coins and a pair of gas.
LEMMA FeeIsPairs ==
    ASSUME NEW t, Ordinary(t)
    PROVE  ArePairs(FeePairs(t), 2, << "amount", "gas" >>, << EncodeCoins(t.fee), Str(t.gas) >>)
  <1> DEFINE x == EncodeCoins(t.fee)
             y == Str(t.gas)
             a == "amount"
             b == "gas"
  <1>1. IsValue(x) /\ IsValue(y)
    BY CoinsValue, TextPiece DEF Ordinary
  <1>2. FeePairs(t) = << Pair(a, x), Pair(b, y) >>
    BY DEF FeePairs
  <1> HIDE DEF x, y, a, b
  <1>3. ArePairs(<< Pair(a, x), Pair(b, y) >>, 2, << a, b >>, << x, y >>)
    BY <1>1, TwoPairs
  <1>4. QED
    BY <1>2, <1>3 DEF a, b, x, y

\* The messages are records of one shape.
LEMMA MsgsAreRecords ==
    ASSUME NEW t, Ordinary(t)
    PROVE  AreRecords(MsgValues(t), Len(t.msgs))
  <1> DEFINE n == Len(t.msgs)
             vals == MsgValues(t)
  <1>1. n \in Nat /\ DOMAIN t.msgs = 1 .. n /\ \A i \in 1 .. n : OrdinaryMsg(t.msgs[i])
    BY SeqFacts DEF Ordinary
  <1> HIDE DEF n
  <1>2. vals = [i \in 1 .. n |-> vals[i]] /\ \A i \in 1 .. n : vals[i] = EncodeMsg(t.msgs[i])
    BY <1>1 DEF MsgValues
  <1> HIDE DEF vals
  <1>3. ASSUME NEW i \in 1 .. n
        PROVE  IsValue(vals[i])
               /\ \E pairs, m, keys, vs : ArePairs(pairs, m, keys, vs) /\ m > 0 /\ vals[i] = Obj(pairs)
    <2> DEFINE m == t.msgs[i]
               q == 2
    <2>1. OrdinaryMsg(m) /\ vals[i] = EncodeMsg(m) /\ q > 0
      BY <1>1, <1>2
    <2> HIDE DEF m
    <2>2. EncodeMsg(m) = Obj(MsgPairs(m)) /\ IsValue(EncodeMsg(m))
          /\ \E keys, vs : ArePairs(MsgPairs(m), q, keys, vs)
      BY <2>1, MsgValue
    <2> HIDE DEF q
    <2>3. QED
      BY <2>1, <2>2
  <1>4. AreValues(vals, n)
    BY <1>1, <1>2, <1>3, SomeValues
  <1>5. QED
    BY <1>3, <1>4 DEF AreRecords, n, vals

\* An encoded ordinary transaction is an object of six pairs.
LEMMA TxValue ==
    ASSUME NEW t, Ordinary(t)
    PROVE  /\ Encode(t) = Obj(TxPairs(t)) /\ IsValue(Encode(t))
           /\ ArePairs(TxPairs(t), 6, TxKeys, TxValues(t))
  <1> DEFINE pairs == TxPairs(t)
             vals == TxValues(t)
             fee == Obj(FeePairs(t))
             msgs == Arr(MsgValues(t))
  <1>1. Encode(t) = Obj(TxPairs(t))
    BY DEF Encode, TxPairs, FeePairs, MsgValues
  <1>2. IsValue(fee) /\ IsValue(msgs)
    <2>1. IsValue(fee)
      BY FeeIsPairs, ObjectPiece
    <2>2. IsValue(msgs)
      BY MsgsAreRecords, ArrayPiece DEF AreRecords
    <2>3. QED
      BY <2>1, <2>2
  <1>3. /\ IsSeq(pairs) /\ Len(pairs) = 6
        /\ pairs[1] = Pair("account_number", Str(t.account_number))
        /\ pairs[2] = Pair("chain_id", Str(t.chain_id))
        /\ pairs[3] = Pair("fee", fee) /\ pairs[4] = Pair("memo", Str(t.memo))
        /\ pairs[5] = Pair("msgs", msgs) /\ pairs[6] = Pair("sequence", Str(t.sequence))
    BY SixSeq DEF TxPairs
  <1>4. /\ vals[1] = Str(t.account_number) /\ vals[2] = Str(t.chain_id)
        /\ vals[3] = fee /\ vals[4] = Str(t.memo) /\ vals[5] = msgs /\ vals[6] = Str(t.sequence)
    BY SixSeq DEF TxValues
  <1>5. /\ TxKeys[1] = "account_number" /\ TxKeys[2] = "chain_id" /\ TxKeys[3] = "fee"
        /\ TxKeys[4] = "memo" /\ TxKeys[5] = "msgs" /\ TxKeys[6] = "sequence"
    BY SixSeq DEF TxKeys
  <1> HIDE DEF pairs, vals, fee, msgs
  <1>6. \A i \in 1 .. 6 : i \in {1, 2, 3, 4, 5, 6}
    OBVIOUS
  <1>7. \A i \in 1 .. 6 : IsValue(vals[i])
    BY <1>2, <1>4, <1>6, TextPiece
  <1>8. \A i \in 1 .. 6 : pairs[i] = Pair(TxKeys[i], vals[i])
    BY <1>3, <1>4, <1>5, <1>6
  <1>9. ArePairs(pairs, 6, TxKeys, vals)
    BY <1>3, <1>7, <1>8 DEF ArePairs
  <1>10. IsValue(Obj(pairs))
    BY <1>9, ObjectPiece
  <1>11. QED
    BY <1>1, <1>9, <1>10 DEF pairs, vals

\* A document lies in itself.
LEMMA WholeLies ==
    ASSUME NEW doc, Tokenized(doc)
    PROVE  Lies(doc, 0, 0, doc)
  <1> DEFINE T(j) == doc.tokens[j]
             len == Len(doc.tokens)
  <1>1. len \in Nat /\ \A j \in 1 .. len : T(j).start \in Nat /\ T(j).end \in Nat
    BY TokensOf
  <1>2. ASSUME NEW i \in 1 .. len PROVE IsMoved(T(0 + i), T(i), 0)
    <2>1. 0 + i = i /\ T(i).start \in Nat /\ T(i).end \in Nat
      BY <1>1
    <2> DEFINE token == T(i)
    <2> HIDE DEF token
    <2>2. token.start \in Nat /\ token.end \in Nat
      BY <2>1 DEF token
    <2>3. IsMoved(token, token, 0)
      BY <2>2 DEF IsMoved
    <2>4. QED
      BY <2>1, <2>3 DEF token
  <1>3. 0 + len <= len /\ 0 + len + 1 .. len = {}
    <2> HIDE DEF len
    <2>1. QED
      BY <1>1
  <1>4. QED
    BY <1>2, <1>3 DEF Lies

\* Keys that differ, and what object_get_value finds for them.
Distinct(keys, n) == \A i, j \in 1 .. n : keys[i] = keys[j] => i = j

FindsValues(doc, k, n, keys) ==
    /\ \A i \in 1 .. n :
          object_get_value(doc.tokens, k, keys[i]) = object_keys(doc.tokens, k)[i] + 1
    /\ \A name : (\A i \in 1 .. n : keys[i] # name) =>
          object_get_value(doc.tokens, k, name) = 0

\* object_get_value on an object of the document: the value of a key is found.
LEMMA ValueFound ==
    ASSUME NEW doc, Tokenized(doc), NEW k, NEW n \in Nat, NEW keys, NEW vals,
           ObjectAt(doc, k, n, keys, vals),
           Distinct(keys, n)
    PROVE  FindsValues(doc, k, n, keys)
  <1> DEFINE T == doc.tokens
             found == object_keys(T, k)
             D == DOMAIN found
  <1>1. D = 1 .. n /\ \A i \in 1 .. n : T[found[i]].text = keys[i] /\ found[i] \in DOMAIN T
    BY SeqFacts DEF ObjectAt
  <1>0. \A i \in 1 .. n : found[i] + 1 \in DOMAIN T
    BY DEF ObjectAt
  <1> HIDE DEF found, T, D
  <1>2. ASSUME NEW i \in 1 .. n PROVE ValueOf(T, found, keys[i]) = 1 + found[i]
    <2> DEFINE P(x) == T[found[x]].text = keys[i] /\ \A m \in 1 .. x - 1 : T[found[m]].text # keys[i]
    <2>1. P(i)
      <3>1. \A m \in 1 .. i - 1 : m \in 1 .. n /\ m # i
        OBVIOUS
      <3>2. QED
        BY <1>1, <3>1 DEF Distinct
    <2>2. \A x \in D : P(x) => x = i
      BY <1>1 DEF Distinct
    <2>3. i \in D /\ \E x \in D : T[found[x]].text = keys[i]
      BY <1>1
    <2>4. ValueOf(T, found, keys[i]) = 1 + found[CHOOSE x \in D : P(x)]
      BY <2>3 DEF ValueOf, D
    <2> HIDE DEF P
    <2>5. (CHOOSE x \in D : P(x)) = i
      BY <2>1, <2>2, <2>3
    <2>6. QED
      BY <2>4, <2>5
  <1>3. ASSUME NEW name, \A i \in 1 .. n : keys[i] # name PROVE ValueOf(T, found, name) = 0
    BY <1>1, <1>3 DEF ValueOf, D
  <1>4. ASSUME NEW i \in 1 .. n PROVE 1 + found[i] = found[i] + 1
    <2>1. DOMAIN T = 1 .. Len(T) /\ Len(T) \in Nat
      BY TokensOf DEF T
    <2>2. found[i] \in Nat
      BY <1>1, <2>1
    <2>3. QED
      BY <2>2
  <1>5. QED
    BY <1>2, <1>3, <1>4 DEF object_get_value, FindsValues, T, found

\* Token k is the first of the value v, which lies there in the document.
ValueAt(doc, k, v) ==
    k \in DOMAIN doc.tokens /\ \E a \in Nat : k = a + 1 /\ Follows(doc, a, v)

\* object_get_value finds each root field of an encoded transaction where the
\* encoding puts it, and there is no seventh.
THEOREM RootsAt ==
    ASSUME NEW t, Ordinary(t), NEW doc, doc = Encode(t), Tokenized(doc)
    PROVE  /\ ValueAt(doc, RootToken(doc, "account_number"), Str(t.account_number))
           /\ ValueAt(doc, RootToken(doc, "chain_id"), Str(t.chain_id))
           /\ ValueAt(doc, RootToken(doc, "fee"), Obj(FeePairs(t)))
           /\ ValueAt(doc, RootToken(doc, "memo"), Str(t.memo))
           /\ ValueAt(doc, RootToken(doc, "msgs"), Arr(MsgValues(t)))
           /\ ValueAt(doc, RootToken(doc, "sequence"), Str(t.sequence))
           /\ RootToken(doc, "?") = 0
  <1> DEFINE keys == TxKeys
             vals == TxValues(t)
             found == object_keys(doc.tokens, 1)
             none == 0
             six == 6
             fee == Obj(FeePairs(t))
             msgs == Arr(MsgValues(t))
  <1>1. Lies(doc, none, none, Obj(TxPairs(t)))
    BY TxValue, WholeLies
  <1>2. ArePairs(TxPairs(t), six, keys, vals)
    BY TxValue
  <1>3. none + 1 = 1 /\ six \in Nat
    OBVIOUS
  <1>4. /\ keys[1] = "account_number" /\ keys[2] = "chain_id" /\ keys[3] = "fee"
        /\ keys[4] = "memo" /\ keys[5] = "msgs" /\ keys[6] = "sequence"
    BY SixSeq DEF TxKeys
  <1>5. /\ vals[1] = Str(t.account_number) /\ vals[2] = Str(t.chain_id)
        /\ vals[3] = fee /\ vals[4] = Str(t.memo) /\ vals[5] = msgs /\ vals[6] = Str(t.sequence)
    BY SixSeq DEF TxValues
  <1> HIDE DEF keys, vals, none, fee, msgs
  <1>6. \A i \in 1 .. six : i \in {1, 2, 3, 4, 5, 6}
    OBVIOUS
  <1>7. Distinct(keys, six)
    BY <1>4, <1>6 DEF Distinct
  <1>8. \A i \in 1 .. six : keys[i] # "?"
    BY <1>4, <1>6
  <1>9. 1 \in 1 .. six /\ 2 \in 1 .. six /\ 3 \in 1 .. six /\ 4 \in 1 .. six /\ 5 \in 1 .. six
        /\ 6 \in 1 .. six
    OBVIOUS
  <1> HIDE DEF six
  <1>10. ObjectAt(doc, none + 1, six, keys, vals)
    BY <1>1, <1>2, ObjectLies
  <1>11. ObjectAt(doc, 1, six, keys, vals)
    BY <1>3, <1>10
  <1>12. /\ \A i \in 1 .. six : object_get_value(doc.tokens, 1, keys[i]) = found[i] + 1
         /\ \A name : (\A i \in 1 .. six : keys[i] # name) =>
               object_get_value(doc.tokens, 1, name) = 0
    <2> DEFINE one == 1
    <2>1. ObjectAt(doc, one, six, keys, vals) /\ Tokenized(doc) /\ six \in Nat
      BY <1>3, <1>11
    <2> HIDE DEF one
    <2>2. FindsValues(doc, one, six, keys)
      BY <1>7, <2>1, ValueFound
    <2>3. QED
      BY <2>2 DEF FindsValues, one, found
  <1>13. ASSUME NEW i \in 1 .. six PROVE ValueAt(doc, RootToken(doc, keys[i]), vals[i])
    <2> DEFINE a == found[i]
    <2>1. a \in DOMAIN doc.tokens /\ a + 1 \in DOMAIN doc.tokens /\ Follows(doc, a, vals[i])
      BY <1>11 DEF ObjectAt
    <2>2. RootToken(doc, keys[i]) = a + 1
      BY <1>12 DEF RootToken, ROOT_TOKEN_INDEX
    <2> HIDE DEF a
    <2>3. a \in Nat
      BY <2>1, TokensOf
    <2>4. QED
      BY <2>1, <2>2, <2>3 DEF ValueAt
  <1>14. RootToken(doc, "?") = 0
    BY <1>8, <1>12 DEF RootToken, ROOT_TOKEN_INDEX
  <1>15. QED
    BY <1>4, <1>5, <1>9, <1>13, <1>14 DEF fee, msgs
=============================================================================
