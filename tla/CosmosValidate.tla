--------------------------- MODULE CosmosValidate ---------------------------
(***************************************************************************)
(* The checks of parser_validate.c: a document that is reviewed is meant   *)
(* to be in canonical form, without white space and with sorted keys, and  *)
(* to have the fields of a transaction.                                    *)
(***************************************************************************)
EXTENDS Json

CONSTANTS
    MAX_NUMBER_OF_TOKENS,
    KeyOrder        \* the keys of all documents in the order of strcmp

ASSUME TokensAssumption == MAX_NUMBER_OF_TOKENS \in Nat \ {0}
\* strcmp tells different keys apart.
ASSUME OrderAssumption ==
    /\ KeyOrder \in Seq(STRING)
    /\ \A i, j \in DOMAIN KeyOrder : KeyOrder[i] = KeyOrder[j] => i = j

\* Where the search for white space goes on behind token k.
SearchFrom(tokens, k) == IF k = ROOT_TOKEN_INDEX THEN 0 ELSE tokens[k].end + 1

\* Mutant of contains_whitespace: what is behind the last token is left out.
SpaceBetweenTokens(json) ==
    \E k \in 2 .. Len(json.tokens) :
        json.blanks \cap (SearchFrom(json.tokens, k - 1)
                          .. json.tokens[k].start - 1) # {}

\* Only the bytes between the end of a token and the start of the next are
\* looked at, so not those behind an opening bracket, whose token ends later.
contains_whitespace(json) ==
    LET n == Len(json.tokens)
    IN  \/ \E k \in 2 .. n :
              json.blanks \cap (SearchFrom(json.tokens, k - 1)
                                .. json.tokens[k].start - 1) # {}
        \/ json.blanks \cap (SearchFrom(json.tokens, n)
                             .. json.tokens[ROOT_TOKEN_INDEX].end - 1) # {}

\* strcmp(a, b) <= 0
is_sorted(a, b) ==
    \E i, j \in DOMAIN KeyOrder : i <= j /\ KeyOrder[i] = a /\ KeyOrder[j] = b

\* Mutant of dictionaries_sorted: the last pair is not compared.
SortedButLast(tokens) ==
    \A k \in DOMAIN tokens : tokens[k].type = "JSMN_OBJECT" =>
        LET keys == object_keys(tokens, k)
        IN  \A n \in 2 .. Len(keys) - 1 :
                is_sorted(tokens[keys[n - 1]].text, tokens[keys[n]].text)

dictionaries_sorted(tokens) ==
    \A k \in DOMAIN tokens : tokens[k].type = "JSMN_OBJECT" =>
        LET keys == object_keys(tokens, k)
        IN  \A n \in 2 .. Len(keys) :
                is_sorted(tokens[keys[n - 1]].text, tokens[keys[n]].text)

RequiredFields == {"chain_id", "sequence", "fee", "msgs", "account_number", "memo"}

parser_json_validate(json) ==
    /\ ~contains_whitespace(json)
    /\ dictionaries_sorted(json.tokens)
    /\ \A field \in RequiredFields :
          object_get_value(json.tokens, ROOT_TOKEN_INDEX, field) # 0

\* What jsmn cannot read: unbalanced brackets, an open string, nothing at all.
Malformed == NoText

\* json_parse, up to whether it succeeds.
json_parse(json) == Len(json.tokens) \in 1 .. MAX_NUMBER_OF_TOKENS
=============================================================================
