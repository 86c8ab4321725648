-------------------------------- MODULE Json --------------------------------
(***************************************************************************)
(* A JSON document as the tokens jsmn makes of it, and the accessors of    *)
(* json_parser.c on them.                                                  *)
(*                                                                         *)
(* A token is a range of the buffer: a string without its quotes, an       *)
(* object or an array with its brackets.  jsmn numbers tokens in the order *)
(* of their first byte; they count from 1 here, so the root object, token  *)
(* 0 in the code, is token 1.  Words are values of TLA+: a string of the   *)
(* document takes one byte between its quotes, or none when it is empty.   *)
(* What matters of the other bytes is which of them are white space.       *)
(***************************************************************************)
EXTENDS Integers, SequencesExt

\* jsmn's view of a piece of JSON text, at the offsets it has in that piece.
NoText == [len |-> 0, tokens |-> << >>, blanks |-> {}]

Shift(tokens, by) == [k \in DOMAIN tokens |-> [tokens[k] EXCEPT !.start = @ + by,
                                                                !.end = @ + by]]

\* f, one byte for the comma or the colon, and g.
Beside(f, g) ==
    [len    |-> f.len + 1 + g.len,
     tokens |-> f.tokens \o Shift(g.tokens, f.len + 1),
     blanks |-> f.blanks \cup {f.len + 1 + b : b \in g.blanks}]

Row(pieces) ==
    LET row[n \in DOMAIN pieces] ==
            IF n = 1 THEN pieces[1] ELSE Beside(row[n - 1], pieces[n])
    IN  IF pieces = << >> THEN NoText ELSE row[Len(pieces)]

Bracketed(type, piece) ==
    [len    |-> piece.len + 2,
     tokens |-> << [type |-> type, start |-> 0, end |-> piece.len + 2, text |-> ""] >>
                \o Shift(piece.tokens, 1),
     blanks |-> {1 + b : b \in piece.blanks}]

Str(word) ==
    LET size == IF word = "" THEN 0 ELSE 1
    IN  [len    |-> size + 2,
         tokens |-> << [type |-> "JSMN_STRING", start |-> 1, end |-> 1 + size,
                        text |-> word] >>,
         blanks |-> {}]

Number(word) ==
    [len    |-> 1,
     tokens |-> << [type |-> "JSMN_PRIMITIVE", start |-> 0, end |-> 1, text |-> word] >>,
     blanks |-> {}]

Pair(key, piece) == Beside(Str(key), piece)
Obj(pairs)  == Bracketed("JSMN_OBJECT", Row(pairs))
Arr(pieces) == Bracketed("JSMN_ARRAY", Row(pieces))

\* A piece with white space in front of it, or behind it.
Indented(piece) == [len |-> piece.len + 1, tokens |-> Shift(piece.tokens, 1),
                    blanks |-> {0} \cup {1 + b : b \in piece.blanks}]
Trailed(piece) == [piece EXCEPT !.len = @ + 1, !.blanks = @ \cup {piece.len}]

\* What jsmn promises of every text: each token is a part of it and starts at a
\* byte of its own, behind the start of the token before it, and white space is
\* not part of a string or of its closing quote, nor the first byte of a token.
Tokenized(json) ==
    LET tokens == json.tokens
    IN  /\ json.len \in Nat /\ json.blanks \subseteq Nat
        /\ DOMAIN tokens = 1 .. Len(tokens) /\ Len(tokens) \in Nat
        /\ \A k \in DOMAIN tokens :
              /\ tokens[k].start \in Nat /\ tokens[k].end \in Nat
              /\ tokens[k].start <= tokens[k].end /\ tokens[k].end <= json.len
              /\ tokens[k].start \notin json.blanks
              /\ \A j \in 1 .. k - 1 : tokens[j].start < tokens[k].start
              /\ tokens[k].type = "JSMN_STRING" =>
                    json.blanks \cap (tokens[k].start .. tokens[k].end) = {}

-----------------------------------------------------------------------------
ROOT_TOKEN_INDEX == 1

\* The structure is zeroed before it is filled, so this lies behind the last
\* token.
ZeroToken == [type |-> "JSMN_UNDEFINED", start |-> 0, end |-> 0, text |-> ""]
TokenAt(tokens, k) == IF k \in DOMAIN tokens THEN tokens[k] ELSE ZeroToken

\* Step(.., i) for i = 1, 2 .. n, in rows of 16 that keep the recursion shallow.
Iterate(start, n, Step(_, _)) ==
    LET Row16(begin, first) ==
            LET after[k \in 0 .. 16] ==
                    IF k = 0 THEN begin ELSE Step(after[k - 1], first + k)
            IN  after[IF first + 16 > n THEN n - first ELSE 16]
        rows[r \in Nat] ==
            IF r = 0 THEN start
            ELSE CHOOSE end \in {Row16(begin, 16 * (r - 1)) : begin \in {rows[r - 1]}} : TRUE
    IN  rows[(n + 15) \div 16]

\* The tokens behind k that start before it ends; they follow it.
Within(tokens, k) == {j \in k + 1 .. Len(tokens) : tokens[j].start <= tokens[k].end}

\* The scan shared by the accessors: the tokens inside token k, each the first
\* to start behind the end of the one before it, as ends gives that end.
ScanStep(tokens, k, ends, found, i) ==
    IF tokens[k + i].start <= found.end THEN found
    ELSE [end |-> ends[k + i], elements |-> Append(found.elements, k + i)]

Scan(tokens, k, ends) ==
    Iterate([end |-> tokens[k].start, elements |-> << >>], Cardinality(Within(tokens, k)),
            LAMBDA found, i : ScanStep(tokens, k, ends, found, i)).elements

\* The tokens array_get_nth_element finds and array_get_element_count counts.
array_elements(tokens, k) == Scan(tokens, k, [j \in DOMAIN tokens |-> tokens[j].end])

\* The keys object_get_nth_key finds and object_get_element_count counts; a
\* pair ends where the token behind its key ends.
object_keys(tokens, k) ==
    Scan(tokens, k, [j \in DOMAIN tokens |-> TokenAt(tokens, j + 1).end])

\* The token behind the first of these keys that has that name; 0 for
\* parser_no_data.
ValueOf(tokens, keys, key_name) ==
    IF \E n \in DOMAIN keys : tokens[keys[n]].text = key_name
    THEN 1 + keys[CHOOSE n \in DOMAIN keys :
                     /\ tokens[keys[n]].text = key_name
                     /\ \A m \in 1 .. n - 1 : tokens[keys[m]].text # key_name]
    ELSE 0

object_get_value(tokens, k, key_name) ==
    ValueOf(tokens, object_keys(tokens, k), key_name)

Each(seq, F(_)) == [i \in DOMAIN seq |-> F(seq[i])]

IsFlat(tokens, k) == tokens[k].type \in {"JSMN_STRING", "JSMN_PRIMITIVE"}

Word(w) == << << "JSMN_STRING", w >> >>

\* The text of token k, which is shown as it is: its own word or all it holds.
Text(tokens, k) ==
    IF IsFlat(tokens, k) THEN Word(tokens[k].text)
    ELSE Each(SubSeq(tokens, k, k + Cardinality(Within(tokens, k))),
              LAMBDA t : << t.type, t.text >>)
=============================================================================
