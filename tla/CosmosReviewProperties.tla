----------------------- MODULE CosmosReviewProperties -----------------------
(***************************************************************************)
(* What a review of a Cosmos transaction owes its user, stated against the *)
(* transaction a wallet puts into JSON: Encode is its canonical form,      *)
(* Expected the screens of tests/testvectors/amino.json, both written      *)
(* without the tokens' indices and the counters of the display.            *)
(***************************************************************************)
EXTENDS CosmosReview, FiniteSets

CONSTANTS
    Transactions,           \* the transactions whose encodings the host sends
    TurningTransactions     \* and some whose messages turn deep on the way

EncodeCoin(c) == Obj(<< Pair("amount", Str(c[1])), Pair("denom", Str(c[2])) >>)

EncodeCoins(coins) == Arr([i \in DOMAIN coins |-> EncodeCoin(coins[i])])

EncodeParty(p) ==
    Obj(<< Pair("address", Str(p.address)), Pair("coins", EncodeCoins(p.coins)) >>)

\* The values of a message's fields.
EncodeValue(v) ==
    IF v.kind = "word" THEN Str(v.is)
    ELSE IF v.kind = "number" THEN Number(v.is)
    ELSE IF v.kind = "coins" THEN EncodeCoins(v.is)
    ELSE IF v.kind = "parties"
    THEN Arr([i \in DOMAIN v.is |-> EncodeParty(v.is[i])])
    ELSE Obj([i \in DOMAIN v.is |-> Pair(v.is[i][1], Str(v.is[i][2]))])

EncodeMsg(m) ==
    Obj(<< Pair("type", Str(m.type)),
           Pair("value", Obj([i \in DOMAIN m.value |->
                                 Pair(m.value[i].key, EncodeValue(m.value[i]))])) >>)

Encode(t) ==
    Obj(<< Pair("account_number", Str(t.account_number)),
           Pair("chain_id", Str(t.chain_id)),
           Pair("fee", Obj(<< Pair("amount", EncodeCoins(t.fee)), Pair("gas", Str(t.gas)) >>)),
           Pair("memo", Str(t.memo)),
           Pair("msgs", Arr([i \in DOMAIN t.msgs |-> EncodeMsg(t.msgs[i])])),
           Pair("sequence", Str(t.sequence)) >>)

-----------------------------------------------------------------------------
ShownCoins(coins) ==
    IF coins = << >> THEN << << "Empty" >> >>
    ELSE [i \in DOMAIN coins |-> << Word(coins[i][1]), Word(coins[i][2]) >>]

\* A nested value is shown as JSON.
Raw(v) == IF v.kind \in {"word", "number"} THEN Word(v.is)
          ELSE LET tokens == EncodeValue(v).tokens
               IN  [i \in DOMAIN tokens |-> << tokens[i].type, tokens[i].text >>]

ExpectedParties(key, parties) ==
    FlattenSeq([i \in DOMAIN parties |->
        << << Append(key, "address"), Word(parties[i].address) >>,
           << Append(key, "coins"), ShownCoins(parties[i].coins) >> >>])

ExpectedField(v) ==
    LET key == << "msgs", "value", v.key >>
    IN  IF v.kind = "parties" THEN ExpectedParties(key, v.is)
        ELSE IF key = << "msgs", "value", "amount" >> THEN << << key, ShownCoins(v.is) >> >>
        ELSE << << key, Raw(v) >> >>

Delegators(t) ==
    {v.is : v \in {w \in UNION {Range(t.msgs[i].value) : i \in DOMAIN t.msgs} :
                      w.key = "delegator_address"}}

\* One delegator is shown once to a user of the default chain.
OneDelegator(t) ==
    /\ ~expert /\ t.chain_id = COIN_DEFAULT_CHAINID
    /\ \E who \in Delegators(t) : Delegators(t) = {who}

OneType(t) == \A i \in DOMAIN t.msgs : t.msgs[i].type = t.msgs[1].type

FirstDelegation(t, i) ==
    \A j \in 1 .. i - 1 : \A v \in Range(t.msgs[j].value) : v.key # "delegator_address"

\* What is shown once is shown with the first message that has it.
Repeated(t, i, key) ==
    \/ key = TypeKey /\ OneType(t) /\ i > 1
    \/ key = FromKey /\ OneDelegator(t) /\ ~FirstDelegation(t, i)

ExpectedMsg(t, i) ==
    LET m == t.msgs[i]
    IN  (IF Repeated(t, i, TypeKey) THEN << >>
         ELSE << << TypeKey, Substituted(Word(m.type)) >> >>)
        \o FlattenSeq([n \in DOMAIN m.value |->
               IF Repeated(t, i, << "msgs", "value", m.value[n].key >>) THEN << >>
               ELSE ExpectedField(m.value[n])])

ExpertOnly(items) == IF expert THEN items ELSE << >>

\* The screens of a transaction, in their order.
Expected(t) ==
    << << << "chain_id" >>, Word(t.chain_id) >> >>
    \o ExpertOnly(<< << << "account_number" >>, Word(t.account_number) >>,
                     << << "sequence" >>, Word(t.sequence) >> >>)
    \o FlattenSeq([i \in DOMAIN t.msgs |-> ExpectedMsg(t, i)])
    \o (IF t.memo = "" THEN << >> ELSE << << << "memo" >>, Word(t.memo) >> >>)
    \o << << << "fee", "amount" >>, ShownCoins(t.fee) >> >>
    \o ExpertOnly(<< << << "fee", "gas" >>, Word(t.gas) >> >>)

\* What the messages have to show: the type and the fields of each, under the
\* paths of their keys.
Entry(i, key, v) == [msg |-> i, key |-> key, value |-> v]

MsgEntries(t, i) ==
    LET m == t.msgs[i]
    IN  << Entry(i, TypeKey, [key |-> "type", kind |-> "word", is |-> m.type]) >>
        \o [n \in DOMAIN m.value |->
               Entry(i, << "msgs", "value", m.value[n].key >>, m.value[n])]

Entries(t) == FlattenSeq([i \in DOMAIN t.msgs |-> MsgEntries(t, i)])

\* The messages of the wallets but MsgMultiSend, and no more of them than the
\* display can count: their fields are words, numbers, coins and the inner
\* message of a contract, each key once; what is called amount are coins, and
\* a delegator is a word.  No word but a type is one the display replaces, nor
\* is the type it is replaced with used.
IsSeq(s) == Len(s) \in Nat /\ s = [i \in 1 .. Len(s) |-> s[i]]

IsKept(word) == word # "wasm/MsgExecuteContract"

OrdinaryField(v) ==
    /\ \/ v.kind \in {"word", "number"} /\ IsKept(v.is)
       \/ v.kind \in {"coins", "json"} /\ IsSeq(v.is)
    /\ v.key = "amount" => v.kind = "coins"
    /\ v.key = "delegator_address" => v.kind = "word"

OrdinaryMsg(m) ==
    /\ m.type # "cosmos-sdk/MsgExecuteContract"
    /\ IsSeq(m.value) /\ \A n \in DOMAIN m.value : OrdinaryField(m.value[n])
    /\ \A n, p \in DOMAIN m.value : m.value[n].key = m.value[p].key => n = p

Ordinary(t) ==
    /\ IsSeq(t.msgs) /\ \A i \in DOMAIN t.msgs : OrdinaryMsg(t.msgs[i])
    /\ IsSeq(t.fee)
    /\ \A word \in {t.account_number, t.chain_id, t.gas, t.memo, t.sequence} : IsKept(word)
    /\ Len(Entries(t)) + 6 < U8

AtLastItem ==
    phase = "review" /\ displayIdx = parser_display_numItems(cache, expert) - 1

Encodings == [t \in Transactions |-> Encode(t)]

\* The transaction under review is t, as the host meant it.
Sent(t) == Encodings[t] = json

-----------------------------------------------------------------------------
\* When the user is offered the approval, the screens seen are those of the
\* transaction the host sent, each at its place, whatever was reviewed before.
ApprovalSeesTransaction ==
    AtLastItem => \A t \in Transactions : Sent(t) =>
        /\ DOMAIN shown = 0 .. Len(Expected(t)) - 1
        /\ \A i \in DOMAIN shown : shown[i].item = Expected(t)[i + 1]

\* Whatever is accepted can be shown to its last item (parser_validate): at the
\* depth that the items seen have left, the one on the screen shows again, and
\* so do the two beside it, which the user may ask for next.
EveryItemShows ==
    phase = "review" =>
        \A i \in displayIdx - 1 .. displayIdx + 1 :
            i \in 0 .. parser_display_numItems(cache, expert) - 1 =>
                parser_getItem(json, cache, expert, extraDepthLevel, i).ok

\* A token is inside an object when its bytes are; its own children are
\* inside no other token that is.
Inside(tokens, j, k) ==
    j # k /\ tokens[k].start <= tokens[j].start /\ tokens[j].end <= tokens[k].end

Children(tokens, k) ==
    LET within == {j \in DOMAIN tokens : Inside(tokens, j, k)}
    IN  {j \in within : \A i \in within : ~Inside(tokens, j, i)}

Position(children, c) == Cardinality({d \in children : d < c})

\* Keys and values alternate among the children of an object.
KeyChildren(tokens, k) ==
    {c \in Children(tokens, k) : Position(Children(tokens, k), c) % 2 = 0}

\* A document under review is in canonical form as far as its keys go: in
\* every object, however deep, they are sorted (dictionaries_sorted).
KeysSorted(tokens, keys) ==
    \A i, j \in keys : i < j => is_sorted(tokens[i].text, tokens[j].text)

ReviewedKeysSorted ==
    phase = "review" =>
        \A k \in DOMAIN json.tokens : json.tokens[k].type = "JSMN_OBJECT" =>
            \A keys \in {KeyChildren(json.tokens, k)} : KeysSorted(json.tokens, keys)

(* The grammar of JSON, which jsmn does not enforce.  Of two tokens one      *)
(* contains the other, or at least a comma or a colon is between them; texts *)
(* and numbers contain nothing; a text and a value make a pair of an object. *)
Nested(tokens) ==
    \A j, k \in DOMAIN tokens : j < k =>
        \/ tokens[j].end < tokens[k].start
        \/ ~IsFlat(tokens, j) /\ tokens[k].end < tokens[j].end

Paired(tokens) ==
    \A k \in DOMAIN tokens : tokens[k].type = "JSMN_OBJECT" =>
        \A c \in KeyChildren(tokens, k) :
            tokens[c].type = "JSMN_STRING" /\ c + 1 \in Children(tokens, k)

InGrammar(doc) == Nested(doc.tokens) /\ Paired(doc.tokens)

\* A document that is JSON, and an object.
IsJson(doc) ==
    /\ InGrammar(doc)
    /\ Len(doc.tokens) > 0 => doc.tokens[ROOT_TOKEN_INDEX].type = "JSMN_OBJECT"

\* The document does not have that text.
Never(doc, text) == \A k \in DOMAIN doc.tokens : Text(doc.tokens, k) # text

\* A document whose texts change the depth one way only: it has no message
\* that asks for more of it, or none that asks for less.  The count of a memo
\* ends with an empty text, which is all of it when the memo is a text.
OneDepth(doc) ==
    \/ Never(doc, MsgMultiSend)
    \/ /\ Never(doc, MsgExecuteContract)
       /\ IsFlat(doc.tokens, RootToken(doc, "memo"))

\* A field that is one leaf at both depths.
OneLeaf(v) ==
    \/ v.kind \in {"word", "number"}
    \/ v.kind = "json" /\ Len(v.is) = 1

\* The messages turn deep at one of them, for good: nothing in front of it is
\* split by more depth, and nothing behind it asks for less.
From(t, k) == [t EXCEPT !.msgs = SubSeq(@, k, Len(@))]

TurnsDeep(t) ==
    \E k \in DOMAIN t.msgs :
        /\ t.msgs[k].type = "cosmos-sdk/MsgMultiSend"
        /\ \A i \in 1 .. k - 1 : \A v \in Range(t.msgs[i].value) : OneLeaf(v)
        /\ Never(Encode(From(t, k)), MsgExecuteContract)

\* The documents whose items keep their numbers, though the depth may change.
SteadyDocuments ==
    {doc \in Documents : OneDepth(doc)} \cup {Encode(t) : t \in TurningTransactions}

\* White space in a document under review is behind an inner opening bracket,
\* or the one byte behind a number or an empty object or array, or behind the
\* document; anywhere else it is found (contains_whitespace starts behind the
\* end of a token, one byte further than a token without a closing quote needs,
\* and stops where the document ends).
SpaceOnlyWhereUnseen ==
    phase = "review" =>
        \A b \in {blank \in json.blanks : blank < json.tokens[ROOT_TOKEN_INDEX].end} :
        \E k \in DOMAIN json.tokens \ {ROOT_TOKEN_INDEX} :
            LET token == json.tokens[k]
                inner == {j \in DOMAIN json.tokens : Inside(json.tokens, j, k)}
            IN  /\ token.type # "JSMN_STRING"
                /\ \/ /\ token.start < b /\ b < token.end
                      /\ \A j \in inner : b < json.tokens[j].start
                   \/ b = token.end /\ inner = {}

\* The items are one, or one of them is a part of the other, as it was nested
\* in the text of the less deep.
IsPartOf(part, whole) ==
    IsStrictPrefix(whole[1], part[1]) /\ part[2] \in SubSeqs(whole[2])

SamePlace(item, other) ==
    item = other \/ IsPartOf(item, other) \/ IsPartOf(other, item)

\* Going back and forth shows the same place of the document under the same
\* index, and always shows something, also when a type passed on the way has
\* changed the depth at which all leaves are numbered (parser_impl.c:104-114,
\* tx_getItem).  It holds of the steady documents only: where the depth goes
\* down behind a MultiSend the numbers of the items do change (EveryFieldShown
\* fails on such a document).
ItemKeepsPlace ==
    [][phase = "review" /\ phase' = "review" /\ json \in SteadyDocuments =>
          \A i \in DOMAIN shown :
              shown'[i].ok /\ SamePlace(shown[i].item, shown'[i].item)]_vars

-----------------------------------------------------------------------------
(* Statements of the repository that the code does not keep.               *)

\* "Iterate through all items to check that all can be shown and are valid"
\* (parser.c:68): every field of every message is on some screen.
EveryFieldShown ==
    AtLastItem => \A t \in Transactions : Sent(t) =>
        \A m \in Range(t.msgs) : \A v \in Range(m.value) :
            \A item \in Range(ExpectedField(v)) :
                \E i \in DOMAIN shown : shown[i].item = item

\* "Now count how many items can be found in this root item"
\* (parser_print.c:156).
SubitemsCounted ==
    phase = "review" => \A t \in Transactions : Sent(t) =>
        cache.subitems["msgs"] =
            Len(RootLeaves(json, "msgs", extraDepthLevel))
=============================================================================
