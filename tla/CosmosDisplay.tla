---------------------------- MODULE CosmosDisplay ---------------------------
(***************************************************************************)
(* The items of a Cosmos transaction on the screen (parser_print.c, the    *)
(* traversal of parser_impl.c): the JSON tree is flattened into leaves, of *)
(* which items are counted once and then looked up by their index.         *)
(*                                                                         *)
(* How deep messages are flattened is a global, extraDepthLevel, which is  *)
(* set by every text that goes to the screen or is only counted.           *)
(*                                                                         *)
(* An item is represented by its key, as the path to it, and its text.     *)
(* Labels, decimal points and the paging of long texts are left out.       *)
(***************************************************************************)
EXTENDS CosmosValidate

CONSTANT COIN_DEFAULT_CHAINID

MAX_RECURSION_DEPTH == 6
U8 == 256   \* the counters of items are of type uint8_t

\* root_item_e, in its order.  There is no name for root_item_tip.
RootItems == << "chain_id", "account_number", "sequence", "msgs", "memo", "fee", "?" >>

\* Mutant of get_root_max_level: one level less for the messages.
LevelsOfMsgs(root, deep) == IF root = "msgs" /\ deep THEN 2 ELSE 1

get_root_max_level(root, deep) ==
    IF root = "fee" THEN 1
    ELSE IF root = "?" THEN 0
    ELSE IF root = "msgs" /\ deep THEN 3 ELSE 2

\* An array counts its elements as an object would its keys, which are fewer
\* only when elements are flat; to go on behind the last element ends it.
AtMost(elements, n) ==
    SubSeq(elements, 1, IF n < Len(elements) THEN n ELSE Len(elements))

\* A value and the path to it.
Places(tokens, root) ==
    LET words == {root} \cup {tokens[k].text : k \in DOMAIN tokens}
    IN  [token : DOMAIN tokens, key : Seq(words)]

\* The values right below another one.
Below(tokens, at) ==
    IF tokens[at.token].type = "JSMN_OBJECT"
    THEN Each(object_keys(tokens, at.token),
              LAMBDA k : [token |-> k + 1, key |-> Append(at.key, tokens[k].text)])
    ELSE Each(AtMost(array_elements(tokens, at.token), Len(object_keys(tokens, at.token))),
              LAMBDA k : [token |-> k, key |-> at.key])

\* What is left of the levels below token t: an array costs none.
LevelBelow(tokens, t, level) ==
    IF tokens[t].type = "JSMN_OBJECT" THEN level - 1 ELSE level

\* The leaves below token t in the order parser_traverse_find meets them.
Leaves(tokens, t, root, maxLevel) ==
    LET places == Places(tokens, root)
        walk[depth \in 0 .. MAX_RECURSION_DEPTH] ==
            IF depth = 0 THEN [level \in 0 .. 3 |-> [at \in places |-> << at >>]]
            ELSE [level \in 0 .. 3 |-> [at \in places |->
                     IF level = 0 \/ IsFlat(tokens, at.token) THEN << at >>
                     ELSE FlattenSeq(Each(Below(tokens, at), LAMBDA v :
                              walk[depth - 1][LevelBelow(tokens, at.token, level)][v]))]]
    IN  walk[MAX_RECURSION_DEPTH][maxLevel][[token |-> t, key |-> << root >>]]

RootToken(json, root) == object_get_value(json.tokens, ROOT_TOKEN_INDEX, root)

RootLeaves(json, root, deep) ==
    Leaves(json.tokens, RootToken(json, root), root, get_root_max_level(root, deep))

-----------------------------------------------------------------------------
\* parser_getToken: what is shown for a text, and what it does to
\* extraDepthLevel.
MsgExecuteContract == Word("wasm/MsgExecuteContract")
MsgMultiSend       == Word("cosmos-sdk/MsgMultiSend")

Substituted(text) ==
    IF text = MsgExecuteContract THEN Word("cosmos-sdk/MsgExecuteContract") ELSE text

DeepAfter(deep, text) ==
    text = MsgMultiSend \/ (deep /\ text # MsgExecuteContract)

TypeKey == << "msgs", "type" >>
FromKey == << "msgs", "value", "delegator_address" >>

-----------------------------------------------------------------------------
(* parser_indexRootFields: the leaves of each root field are counted, and  *)
(* those that repeat one text under the same key are grouped.              *)

NoGroup == [on |-> TRUE, count |-> 0, idx |-> 0, text |-> << >>]

\* One more field, the i-th leaf, for a group.
Grouped(group, i, text) ==
    IF ~group.on THEN group
    ELSE IF group.count = 0 THEN [group EXCEPT !.text = text, !.idx = i, !.count = 1]
    ELSE IF text = group.text THEN [group EXCEPT !.count = (@ + 1) % U8]
    ELSE [group EXCEPT !.on = FALSE, !.count = 1]

\* One more leaf of a root field is counted, the i-th.  An empty memo ends
\* the count.
CountText(root, count, i, key, text) ==
    LET seen == [count EXCEPT !.deep = DeepAfter(@, text)]
    IN  IF root = "memo" /\ text = Word("") THEN [seen EXCEPT !.done = TRUE]
        ELSE [seen EXCEPT
                 !.subitems[root] = (@ + 1) % U8,
                 !.types = IF key = TypeKey THEN Grouped(@, i, Substituted(text)) ELSE @,
                 !.froms = IF key = FromKey THEN Grouped(@, i, Substituted(text)) ELSE @]

CountNext(json, root, count, i, leaves) ==
    IF count.done \/ i > Len(leaves) THEN [count EXCEPT !.done = TRUE]
    ELSE CountText(root, count, i, leaves[i].key, Text(json.tokens, leaves[i].token))

\* The loop asks for the i-th leaf anew every time, at the depth the texts
\* before it have left.
CountLeaves(json, root, start, flat, deep) ==
    Iterate([start EXCEPT !.done = FALSE],
            IF Len(flat) > Len(deep) THEN Len(flat) ELSE Len(deep),
            LAMBDA count, i :
                CountNext(json, root, count, i, IF count.deep THEN deep ELSE flat))

CountRoot(json, root, count) ==
    IF RootToken(json, root) = 0 THEN count
    ELSE CountLeaves(json, root, count, RootLeaves(json, root, FALSE),
                                        RootLeaves(json, root, TRUE))

NoCounts == [root \in Range(RootItems) |-> 0]

Counts(json, deep) ==
    LET after[r \in 0 .. Len(RootItems)] ==
            IF r = 0 THEN [subitems |-> NoCounts, deep |-> deep, done |-> FALSE,
                           types |-> NoGroup, froms |-> NoGroup]
            ELSE CountRoot(json, RootItems[r], after[r - 1])
    IN  after[Len(RootItems)]

\* The first leaf of chain_id, for calculate_is_default_chainid.
FirstText(json, leaves) ==
    IF leaves = << >> THEN << >> ELSE Text(json.tokens, leaves[1].token)
ChainId(json) == FirstText(json, RootLeaves(json, "chain_id", FALSE))

\* display_cache and the flags of parser_tx_obj.
NoCache == [valid |-> FALSE, subitems |-> NoCounts, types |-> NoGroup,
            froms |-> NoGroup]

\* The cache as _read leaves it.
Invalidated(cache) ==
    [cache EXCEPT !.valid = FALSE, !.types.count = 0, !.froms.count = 0]

\* The cache for the counts of a document.
Indexed(json, counts, expert) ==
    [valid |-> TRUE, subitems |-> counts.subitems, types |-> counts.types,
     froms |-> [counts.froms EXCEPT
                   !.on = @ /\ ~expert /\ ChainId(json) = Word(COIN_DEFAULT_CHAINID)]]

ChainAccepted(json) == ChainId(json) \notin {<< >>, Word("0"), Word("1")}

-----------------------------------------------------------------------------
\* get_subitem_count: the fields a group repeats are taken off.
Repeats(group) == IF group.on /\ group.count > 0 THEN group.count - 1 ELSE 0

SumOfSubitems(cache) ==
    LET upTo[r \in 0 .. Len(RootItems)] ==
            IF r = 0 THEN 0 ELSE upTo[r - 1] + cache.subitems[RootItems[r]]
    IN  upTo[Len(RootItems)]

get_subitem_count(cache, expert, root) ==
    IF SumOfSubitems(cache) = 0 THEN 0
    ELSE IF ~expert /\ root \in {"sequence", "account_number"} THEN 0
    ELSE IF ~expert /\ root = "fee" THEN 1
    ELSE IF root = "msgs"
    THEN (cache.subitems[root] - Repeats(cache.types) - Repeats(cache.froms)) % U8
    ELSE cache.subitems[root]

\* All items as retrieve_tree_indexes numbers them: a root field and the index
\* below it.
TreeIndexes(cache, expert) ==
    FlattenSeq([r \in DOMAIN RootItems |->
        [i \in 1 .. get_subitem_count(cache, expert, RootItems[r]) |->
            << RootItems[r], i >>]])

parser_display_numItems(cache, expert) == Len(TreeIndexes(cache, expert)) % U8

\* A leaf the traversal passes over: it repeats a group, and is not its first.
Skipped(cache, i, leaf) ==
    \/ leaf.key = TypeKey /\ cache.types.on /\ cache.types.idx # i
    \/ leaf.key = FromKey /\ cache.froms.on /\ cache.froms.idx # i

\* The leaves parser_display_query finds.
Kept(leaves, cache) ==
    FlattenSeq([i \in DOMAIN leaves |->
                   IF Skipped(cache, i, leaves[i]) THEN << >> ELSE << leaves[i] >>])

-----------------------------------------------------------------------------
\* Amounts are coins, each an object of an amount and a denomination; what
\* holds nothing is shown as Empty.
AmountKeys == {<< "fee", "amount" >>, << "msgs", "value", "amount" >>,
               << "tip", "amount" >>, << "msgs", "value", "inputs", "coins" >>,
               << "msgs", "value", "outputs", "coins" >>}

IsCoin(tokens, k) ==
    /\ Len(array_elements(tokens, k)) = 4
    /\ tokens[k].type = "JSMN_OBJECT"
    /\ tokens[k + 1].type = "JSMN_STRING" /\ tokens[k + 1].text = "amount"
    /\ tokens[k + 3].type = "JSMN_STRING" /\ tokens[k + 3].text = "denom"
    /\ tokens[k + 2].end > tokens[k + 2].start
    /\ tokens[k + 4].end > tokens[k + 4].start

IsEmpty(tokens, k) == array_elements(tokens, k) = << >>

Coin(tokens, k) ==
    IF IsEmpty(tokens, k) THEN << "Empty" >>
    ELSE << Text(tokens, k + 2), Text(tokens, k + 4) >>

\* The elements of an array, or what is taken for one coin.
AmountParts(tokens, k) ==
    IF tokens[k].type = "JSMN_ARRAY" THEN array_elements(tokens, k) ELSE << k >>

AmountShows(tokens, parts) ==
    \A i \in DOMAIN parts : IsEmpty(tokens, parts[i]) \/ IsCoin(tokens, parts[i])

parser_formatAmount(tokens, parts) ==
    IF parts = << >> THEN << << "Empty" >> >>
    ELSE Each(parts, LAMBDA k : Coin(tokens, k))

Failed(deep) == [ok |-> FALSE, deep |-> deep, item |-> << >>]

TextItem(key, text, deep) ==
    [ok |-> TRUE, deep |-> DeepAfter(deep, text), item |-> << key, Substituted(text) >>]

ItemOf(tokens, leaf, deep) ==
    IF leaf.key \notin AmountKeys
    THEN TextItem(leaf.key, Text(tokens, leaf.token), deep)
    ELSE IF AmountShows(tokens, AmountParts(tokens, leaf.token))
    THEN [ok |-> TRUE, deep |-> deep,
          item |-> << leaf.key, parser_formatAmount(tokens, AmountParts(tokens, leaf.token)) >>]
    ELSE Failed(deep)

\* The item n of a root field, if there are as many.
NthItem(tokens, leaves, n, deep) ==
    IF n \in DOMAIN leaves THEN ItemOf(tokens, leaves[n], deep) ELSE Failed(deep)

ItemAt(json, cache, index, deep) ==
    NthItem(json.tokens, Kept(RootLeaves(json, index[1], deep), cache), index[2], deep)

\* parser_getItem: the item at displayIdx, and the depth it leaves behind.
parser_getItem(json, cache, expert, deep, displayIdx) ==
    IF displayIdx \in 0 .. parser_display_numItems(cache, expert) - 1
    THEN ItemAt(json, cache, TreeIndexes(cache, expert)[displayIdx + 1], deep)
    ELSE Failed(deep)
=============================================================================
