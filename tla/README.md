# A verification development for the Sei Ledger application

The application (`app/src`) runs on a hardware wallet.  A host sends it
commands (APDUs); it assembles transactions and messages out of chunks, parses
them, shows them to the user item by item, and signs what the user approves.
This directory holds TLA+ models of that path, the TLC runs that check them on
small instances, and TLAPS proofs of the central results for every instance.

What has to be right is one sentence long: **what is signed is what was
uploaded, is what was shown, by the key the upload named, and every command is
answered once.**  Each part of the program holds a piece of it.

## 1. Inventory

| Component | Code | State | Operations | What makes it correct |
|---|---|---|---|---|
| Command layer | `apdu_handler.c`, `evm/apdu_handler_evm.c`, `common/actions.h` | two `tx_initialized` flags (one per file), `bytes_to_read`, `hdPath`, `hdPathEth` and its length, the I/O buffer, the review callback, `IO_ASYNCH_REPLY` | `handleApdu` and its ten handlers; the callbacks `app_sign`, `app_sign_eth`, `app_sign_eip191`, `app_reject`, `app_reply_address`, `app_reply_error` | an answer is owed exactly while a screen waits; a signature uses the path and the bytes of its own upload |
| Transaction buffer | `common/tx.c`, `evm/tx_evm.c` | one buffer (RAM, then flash) for all uploads, one parser context for each family | `tx_initialize`, `tx_reset`, `tx_append`, `tx_parse*`, `tx_getItem*` | a chunk is stored whole or refused |
| Upload framing | `evm/evm_utils.c:34-123` | none | `get_tx_rlp_len`, saturating and wrapping arithmetic | an upload ends where the parser will find its end |
| RLP and Ethereum parser | `evm/rlp.c`, `evm/parser_impl_evm.c:46-218` | the static `eth_tx_obj` | `rlp_read`, `_readEth` and one parser for each of three types | fields lie in the buffer; a transaction is one list |
| Ethereum display | `evm/parser_impl_evm.c:220-507`, `evm/parser_evm.c`, `evm/evm_erc20.c` | `eth_tx_obj`, the blind-signing setting | `_validateTxEth`, `_getNumItemsEth`, `_getItemEth`, `_computeV` | the items are those of the transaction: none missing, none of another field |
| EIP-191 messages | `evm/evm_eip191.c` | the buffer | `eip191_msg_parse`, `_getItem`, `eip191_hash_message` | every hashed byte was shown |
| Cosmos JSON and validation | `json/json_parser.c`, `parser_validate.c` | the tokens in `parser_tx_obj` | `json_parse`, `array_*`, `object_*`, `parser_json_validate` | keys are found at every depth; a reviewed document is in canonical form |
| Cosmos traversal and display | `parser.c`, `parser_impl.c`, `parser_print.c` | `display_cache`, the grouping flags, `extraDepthLevel`, expert mode | `tx_parse`, `parser_indexRootFields`, `parser_getNumItems`, `parser_getItem` | every leaf of the document is one item, repeated types and senders once; an index stays at its place of the document, unless the depth goes down behind a multi-send |
| Wide integers and their numerals | `evm/uint256.c`, `evm/evm_utils.c:125-238` | the locals of `tostring256` and `divmod256`, the buffer of the caller | reading, comparing, adding, shifting, multiplying, dividing; the decimal digits | the numeral on the screen is the number of the field; the loops end; the digits stay in the buffer |
| Keys, hashes and signatures | `crypto.c`, `crypto_helper.c`, `evm/crypto_evm.c` | both copies of the private key, `uncompressedPubkey`, `sei_chain_code`, the I/O buffer | `crypto_extractPublicKey`, `crypto_sign*`, `crypto_fillAddress`, `crypto_fillEthAddress` | no key outlives its routine, whichever call fails; the answer is the key, the address or the signature of this command |
| Addresses on the screen | `addr.c`, `evm/evm_addr.c` | none: reads the I/O buffer and the path variables | two items, the path in expert mode only | what is shown is what will be answered |

### How they interact

`handleApdu` runs one command to its end: a handler appends a chunk, and the
last chunk calls the parser and hands three functions to the view (zxlib): an
item getter, an item counter, and the callback of the approval.  Control then
returns to the main loop with `IO_ASYNCH_REPLY` set, and no further command is
delivered until the callback has sent the answer.  The view calls the getter
item by item, forward and back, and offers the approval behind the last item.
The callback reads the path variable and the transaction buffer *then*, long
after the chunks were handled.

Shared state couples the parts: one transaction buffer under three uploads
guarded by two flags in two files; path variables that the address commands
write as well; one `eth_tx_obj` from which `v` is computed when the
transaction is approved, and also when a message is.  The I/O buffer is
shared most: a command's bytes, the public key and the address while they wait
for the user, and the signature lie in it one after another.

### What is hard

There are no threads.  The difficulty is in the order of commands (any command
may come between two chunks), in state that outlives the command that set it,
in steps that fail half way (a refused chunk, a failed parse), in unsigned
arithmetic on lengths the host chose, and in two computations that have to
agree: the header as the upload counts it and as the parser reads it, the
number of items and the item at an index.  The Cosmos display has one more:
showing a text can change how the document is cut into items
(`extraDepthLevel`), so an item depends on the items shown before.  The wide
integers are written with every operand as a possible target, so the order of
two assignments matters, and their carries are found by comparing what has
already wrapped.  The key routines leave in the middle when a library call
fails, with a key derived or a signature written.  `PROJECT.json` lists the
hazards at their lines.

## 2. Modules

Every definition carries the name it has in the code where TLA+ allows it;
`PROJECT.json` maps each to its lines.  An operator marked "Mutant of" is a
wrong variant that a property must refute.

| Module | Models |
|---|---|
| `TxFraming` | byte strings, `Sub32`/`Sub64`, `saturating_add`, `U4BE`, `be_bytes_to_u64`, `get_tx_rlp_len`; `ListCoversBuffer`, the parser's view of the same header |
| `SeiApdu` | the command layer: one action for each handler branch, one for each callback |
| `SeiApduProperties` | its properties and the inductive invariant `SafetyInv` |
| `SigningSession` | the abstract specification: sessions, offers and signatures, without buffers, flags and path variables |
| `SessionRefinement` | the mapping by which `SeiApdu` implements it |
| `Rlp` | one RLP element |
| `EthParser` | `_readEth` and the three parsers; `eth_tx_obj` as a record |
| `EthDisplay` | the items of a transaction and `_computeV` |
| `EthReview` | the review as a state machine: parse and validate, show, approve, reject; messages signed between transactions; the setting toggled |
| `EthReviewProperties` | an encoder and the screens a transaction should lead to, written independently of parser and display, and the properties against them |
| `Eip191Review` | the review of a message |
| `Json` | a document as a row of jsmn's tokens with their offsets, and the scans of `json_parser.c` over them |
| `CosmosValidate` | white space, key order, required fields, the token limit |
| `CosmosDisplay` | leaves, `extraDepthLevel`, `parser_indexRootFields` (counting and grouping), the item at an index, amounts |
| `CosmosReview` | the review as a state machine: `tx_parse` (parse, validate, try every item), show, approve, reject; expert mode toggled between transactions |
| `CosmosReviewProperties` | an encoder of transactions and the screens they should lead to, without token indices and counters, and the properties against them |
| `UInt256` | `uint256.c` on words of any width |
| `NumberDisplay` | from the fields to the digits: `rlp_readUInt256`, the fee's product, the loops of `tostring256` and `divmod256`, one turn a step |
| `Keys` | key derivation, signing, encoding, the answers and the address screens: one library call a step, each of which may fail |
| `MC*` | the instances for TLC |
| `TxFramingProofs`, `SeiApduProofs`, `EthReviewProofs`, `Eip191Proofs`, `CosmosReviewProofs`, `CosmosScreensProofs`, `NumberProofs`, `KeysProofs` | the proofs |

**Composition.**  `SeiApdu` abstracts a parser to its verdict:
a completed Ethereum upload may be reviewed only if `ListCoversBuffer` holds.
`EthReview` refines exactly this point and is checked (and proved) to keep
it: `ReviewCoversBuffer`.  It starts where the command layer ends, from any
buffer an upload may leave.  `CosmosReview` refines `handleSign` behind the
last chunk in the same way.  `Keys` and `NumberDisplay` refine what the others
leave abstract: a signature or an address that "may fail", and an item that is
"the bytes it is made from".

**Abstraction.**  `SigningSession` says what host and user rely on: a session
collects the chunks of one document for one key, the document is offered as a
whole, and a signature is the answer to the approval of that document with that
key.  A host that mixes sessions or sends what a session cannot hold spoils
it; a spoilt session's document is not described, but it is still signed only
when approved.  In `SessionRefinement` the session is what the host sent, and
the offer is what the callback on the screen *would* sign if it ran now, read
from the transaction buffer and the path variables: that is where a stale path
or a foreign buffer would show.

**State.**  `buffer` is the transaction buffer; `cosmosInit` and `evmInit` are
the two static `tx_initialized`; `screen` is the callback the view holds;
`async` is `IO_ASYNCH_REPLY`; `answer` is the I/O buffer.  `upload`, `asked`,
`shown` and `hashed` are history: what the host sent, with which path, what the
user saw, what was signed.  In `CosmosReview`, `cache` is `display_cache`
together with the grouping flags of `parser_tx_obj`; a group is its flag, its
count and the index of its first leaf.  Tokens and leaves count from 1.  In `Keys` a buffer is a row of cells, each nothing or the
k-th byte of a part of something (of the public key of a path, of `r` of a
signature): layouts, offsets, lengths and leftovers can be told apart without
any arithmetic on curves.  `secrets` is the set of variables that hold a key.

**External code.**  zxlib's buffering appends a chunk whole or not at all; the
view shows item 0 first, moves one item at a time, offers the approval behind
the last item and runs the callback once; the settings menu is reached only
while nothing is under review.  Signing and address derivation may fail.  What
lies behind the end of the buffer is arbitrary (`Residues`): earlier uploads
leave it there.  An uninitialised `error_code` (`apdu_handler_evm.c:268`) is a
free choice.  jsmn is the encoder of `Json`: it numbers tokens by their first
byte, gives strings without their quotes and objects and arrays with their
brackets.  The secure element and the hash functions are uninterpreted: a
public key is a function of its path, a signature of key and digest, and each
call may fail.  `crypto_encodePubkey` fails with one of `EncoderErrors`, all of
which but 0 its caller takes for the length of an address.  The chain code that
`crypto_extractUncompressedPublicKey` asks for has 32 bytes and `sei_chain_code`
one; `hdPathEth` and `hdPathEth_len` are declared next.  How much of them it
overwrites is the linker's choice, so `WriteChainCode` of `Keys` takes any first
part of the path, with or without the length, and `DeriveEthAddress` of
`SeiApdu` either variable or both.  What else the bytes may reach is not
modelled.

## 3. Runs

| Run | Instance | Shows |
|---|---|---|
| `paths` | 4 paths (valid, other length, foreign, too short), every instruction, malformed commands, shortest uploads; fairness | path variables, flags, screens and answers stay consistent; every command is answered; the handlers implement `SigningSession`, its fairness included |
| `chunks` | 16 commands: chunks of all three uploads of 0 to 5 bytes, cut headers, messages in one chunk and in several, overlong chunks, buffer of 6 bytes, 26 values for `uint32_t` | what is reviewed is what was sent |
| `eth_review` | 22 transactions of the three types and 19 buffers that are not the encoding of one | the screens seen before the approval are those of the transaction sent; `v` is the one of its chain; blind signing; fields in the buffer |
| `eip191_review` | 9 messages, 4 contents of the memory behind them | every hashed byte was on the screen |
| `cosmos_review` | 9 transactions (transfers, delegations of one and of two delegators, withdrawals, votes, contract calls, multi-sends; empty, single and multiple coins) on two chains in both modes, 10 documents that are refused or not of a wallet's form, and a contract call before a multi-send, where the depth changes on the way | the screens seen before the approval are those of the transaction sent; going back shows the same place of the document; every item can be shown; reviewed keys are sorted |
| `numbers` | words of 4 bits: every number of one word, numbers of four words whose words are 0, 1, the highest and one between, all products of two words, lists and fields that are too long; a buffer that is too short for some | the division keeps its invariant and ends, the numeral is the number, the digits stay in the buffer |
| `keys` | both families, paths of 3 to 5 components, two messages, two lengths of DER, expert mode on and off, each library call failing or not, the encoder with 0 and with another code, 3 chain codes overwriting any part of the path behind them | the answer and the address on the screen are of this command's path and message; no key and no refused signature is left; every request is answered |
| `eth_creation`, `eip191_behind`, `cosmos_mixed`, `cosmos_many`, `fees` | smallest instance for each | the findings below |

**Bounds.**  The command layer tells lengths apart only by comparing them with
the capacity, the declared length and the header, so a buffer of six bytes
has every case: empty, header only, complete in one chunk and in two, full,
refused.  `U32` is small so that
`uint32_t` subtraction wraps within the instance; the proofs hold for every
width.  In `paths` the chunks are minimal and in `chunks` the paths are, since
the two only meet in the flags.  `eth_review` covers each branch of the index
arithmetic: the type (3) by data (none, a transfer, other) by recipient
(present, absent) by chain id; numbers of 0, 1, 2, 32 and 33 bytes; lengths in
short and long form.  `cosmos_review` has each way a leaf is treated (text,
number, nested object, coins, parties two levels deeper, a group that holds, a
group that breaks, a sender hidden on the default chain only) and every pair of
successive transactions, which is what the globals between them can tell apart.
`MAX_NUMBER_OF_TOKENS` is 110 there, above the longest of its transactions and
below one of its documents; the other Cosmos runs have the 768 of the code.
The keys are given in `strcmp` order as `KeyOrder`.  `numbers` scales a
`uint64_t` to four bits, of two bytes of two bits: every constant of
`uint256.c` (32, 64, 128, 256) is derived from the word, so all carries,
borrows and shifts across words are there, and all 256 products of two words;
a buffer of 5 holds numerals of 4 digits and refuses the others.  `keys` has
coordinates of two bytes, so that a part and its neighbour can be shifted
against each other, and an I/O buffer just above the longest answer.

**Fairness.**  `FairSpec` adds weak fairness to the user's answer only: the
screens stay until a button is pressed.  Hosts owe nothing.  `EveryCommandAnswered`
then says that no screen is left without a way to answer.  In
`SigningSession` the same is the fairness of `Approve \/ Decline`.
`NumberDisplay` and `Keys` run on the processor without a scheduler in between:
a call goes on with its next step (`WF_vars(Step)`), and in `Keys` the user
answers.  No step of the host is fair.

## 4. Findings

`PROJECT.json` has one entry for each, with the statement it contradicts.

* `eth_creation`: creating a contract without data shows an empty Data item and
  no Nonce.
* `eip191_behind`: a message is shown up to the first NUL behind it.
* `cosmos_mixed`: in a transaction of a `MsgMultiSend` and then a contract call,
  the call's type is the last thing shown of it.  The multi-send numbers the
  leaves three levels deep: 7 for itself, and the call's type is the eighth.
  That text ends the extra depth; in the shorter numbering the transaction has
  8 leaves in all, so the ninth is not found and the count ends.
* `cosmos_many`: 63 votes and one transfer have 64 * 4 = 256 leaves in 731
  tokens; the `uint8_t` counter is 0 and no message is shown.
* `fees`: a product with a factor of more than one word and a carry in its
  third column is shown 2^64 times too large in that part: `mul256` adds the
  carry to the uppermost word (`uint256.c:411`).  Products of two words
  are right (`NumeralIsNumber`); a gas limit and a gas price below 2^64 are
  such.

The model also has these, which no run singles out: a MORE chunk of
`SIGN_PERSONAL_MESSAGE` is accepted behind the FIRST of `SIGN_ETH` and the
reverse, where `docs/APDUSPEC.md:35` has 0x6987 for it, since both share one
flag (`apdu_handler_evm.c:113`); a message chunk that does not fit is counted
as received (`:118`), so the length that is hashed need not be the
message's; white space between an inner opening bracket and the first element
and behind the document is not looked at (`parser_validate.c`, `SpaceOnlyWhereUnseen` in
`CosmosReviewProperties` says so); the answer to `SIGN_ETH` is v, r and s *and*
the signature in DER, where `docs/APDUSPEC.md:166` has 65 bytes; a failing
hash or bech32 in `crypto_encodePubkey` is returned as a length
(`crypto_helper.c:35-37`), and an empty address of that length is shown and
answered, which `AddressIsOfPath` allows (`Addresses`); the result of `crypto_sha256` is dropped
(`crypto.c`); `sei_chain_code` is one byte and is passed where a chain code of
32 is written (`crypto_evm.c:25`, `:78`), so the path that expert mode shows
beside an address of `evm/` (`evm_addr.c:63`) may be words of the chain code:
`AddressIsOfPath` is about the address, and about the path of the Cosmos
family only; `GET_ADDR_ETH` without a
data field is answered with the address of the path an earlier command left in
the I/O buffer (`apdu_handler_evm.c:40`); the recipient is shown as 20 bytes
whatever the field's length (`parser_impl_evm.c:381`); an amount that is a text
and not a list of coins is shown as Empty (`parser_print.c:597`); root fields
other than the six names are never shown, `tip` among them, for which
`get_required_root_item` has no name; an Ethereum upload that its
first chunk completes (`apdu_handler_evm.c:191`), or whose last chunk brings too
much (`:224`), stays open; a first Ethereum packet with only the path, as
`docs/APDUSPEC.md:142` describes it, is answered with `DATA_INVALID`
(`:174`); a value of more than 64 bytes is accepted and its Amount shown blank
(`parser_impl_evm.c:387`).

## 5. Proofs

All for every value of the constants, from the `ASSUME`s the modules state
(widths, path lengths, byte strings), which TLC evaluates in the runs.

**Command layer.**  `SeiApduProofs!TypeCorrect`, then `SeiApduProofs!Safety`:
`SafetyInv` is inductive.  The properties a user cares about are not inductive
alone: that a signature covers the upload (`SignatureIsOfUpload`) needs that
the buffer equals the upload *while it is in progress* (`BufferIsUpload`),
which needs that a review is of the upload that last reset the buffer
(`ReviewOfUpload`); the declared length of a message needs the running count
(`BytesToReadIsRest`).  The proof takes every handler on its own and splits it
into what an answer decides and what a chunk decides.

**Framed transactions.**  An Ethereum upload knows its length from the RLP
header of its first chunk, which is read again from the buffer at every later
one.  `TransactionRuns`: `TransactionInv` is inductive beside `SafetyInv`: while
chunks are expected the buffer is a proper front of one transaction, so more
bytes cannot change where it ends (`FrontOfLonger`, from `HeaderPrefix` and
`HeaderOfFront` of `TxFramingProofs`), and what is parsed is that transaction.
Without this invariant the length a chunk computes says nothing of the length
an earlier one computed.  From it `EthReviewShowsUpload`.

**Ethereum review.**  `EthReviewProofs!Reviewed` proves the invariant
`ReviewInv`: what is under review was parsed from this buffer, allowed and
validated, and only its items were shown.  From it, `FieldsStayInBuffer` (by
way of lemmas on `rlp_read`: an element that is accepted ends within its
context), `ReviewedBufferIsList` and `ReviewNeverFails`.
`TypeCorrect` comes last: a refused parse leaves the object half filled, but
typed (`ReadTyped`), and an item is typed because the fields it is made of lie
in the buffer (`ItemType`), which needs `ReviewInv` and `SourceInv`.

**Ethereum transactions, from the host to the screen.** `EthReviewProofs` begins
with the encoding (of `EthReviewProperties`): what the parser accepts of it is
the transaction that was encoded, `EncodeMeans`. One element first (its prefix,
its length bytes, that it ends where it should, in each of the three forms of a
length), then the row of fields from left to right with the rest of the list
behind it (`Encode` is nested to the right for this reason), the chain id of two
or three bytes, and the list that covers the buffer. Its last part adds
`SourceInv`: the static object is what the parser made of the buffer under
review, and what the user saw are its items. `WhatIsSeenIsSigned`,
`VBelongsToTransaction` and `BlindSigningIsAllowed` follow, screen by screen.
They rest on `TransactionAssumption` (lengths of two bytes, a recipient of 20
bytes or none, a value the formatter takes) and `ChainWidthAssumption` (twice a
chain id of three bytes is a `uint32_t`, so v does not saturate).

**Messages.**  `Eip191Proofs`: `TypeCorrect`, `SignedBytesWereShown`,
`BlindMessagesNeedMode`.  The argument is the lemma `PrintableIsShown`: a
printable message has no NUL, so a C string that starts with it holds all of
it, whatever is behind; `FirstNul` gets the first NUL from the well-foundedness
of `<` on the naturals.

**Cosmos review.**  `CosmosReviewProofs`, for every document that is a row of
tokens as jsmn numbers them (`DocumentAssumption`, external).
`ReviewForgetsGlobals`: the globals `parser_tx_obj` and `display_cache` outlive
a review; whatever they held, the next review is of a validated document and
its cache is a function of that document and the expert mode.  The invariant
follows `tx_parse`: `_read` clears the flags the indexing tests, so it is done
again.
`UnseenSpaceOnly`: take a blank inside the document and the last token that
starts before it (there is one: the starts are ordered, `<` is well founded);
either that token covers it or the search behind it would have met it.

The other theorems are about documents in the grammar of JSON (`IsJson`, in
`CosmosReviewProperties`: of two tokens one contains the other or a byte lies
between them, a key and a value make a pair, the root is an object).  jsmn is
built without `JSMN_STRICT` and lets more pass, so this is a hypothesis and
not an assumption on `Documents`; the run evaluates it for its own
(`DocumentsAreJson`).

*Keys.*  `GrammarKeepsKeysSorted`: the validation scans from an object's first
byte, taking a token when it starts behind the end of the one it took before,
where the end of a pair is the end of the token behind its key.  The
invariant of the scan (`FoundSoFar`) is that the keys found are exactly the
children at even positions among the tokens seen, in their order, and that
nothing seen starts behind the last pair; a child starts behind the end of
every token between it and its parent (`ChildIsBehind`).  The scan therefore
finds all keys and no other token, and neighbours that are sorted sort them all, since
`strcmp` is an order (`OrderAssumption`).

*Types.*  `CosmosTypesKept`: the leaves are places in the document, the counts
bytes, every index of the display one of a root field the document has
(`TreeIndexType`), and a cache keeps its shape in each of the four ways
`tx_parse` ends (`ParseOutcome`): no JSON, not valid, refused for its chain id,
or tried to its last item.

*Depth.*  `OneDepthShowsAll` is about the documents whose texts change
`extraDepthLevel` one way only (`OneDepth`: no `MsgMultiSend`, or no
`wasm/MsgExecuteContract` and a memo that is a text).
Their inductive invariant is `DepthIsOwn`: the depth is the one the counting of
this document leads to, all items show at it, and what was seen is what is
shown at it.  That no item leaves this depth is `OneDepthIsSteady`: if the
depth is extra, nothing takes it back; if it is not, the count has read every
leaf there is at the plain depth and none asked for more (`CountRootType`: the
count ends only behind the last leaf, or at an empty memo).  The hypothesis is
needed: a transaction with both messages may change its items, as that of
`cosmos_mixed` does.  That going back shows the same place while the depth
changes (`ItemKeepsPlace`) is checked, of a document that turns deep once
(`TurnsDeep`), and not proved; where the depth goes down behind a multi-send it
does not hold.

*Screens.*  `ApprovalSeesAll`: at the last item, where `app_sign` is offered,
every item has been asked for, whatever the document (`SeenSoFar`: the view
moves by one item, so all up to the one on the screen were seen).
`CosmosScreensProofs!OrdinaryIsSeen` says what these items are: the screens
`Expected(t)`, which are stated without tokens, indices and counters.  Its
hypotheses are that the document is JSON and none of its texts is
`MsgMultiSend`, as above, and that the transaction it encodes is `Ordinary` (in
`CosmosReviewProperties`): any number of messages of any types with any fields,
each key once in its message, of words, numbers, coins and the inner message of
a contract; no text that the display replaces by another, and in all no more
leaves than the byte counter holds.  This leaves out `MsgMultiSend`, which nests
deeper and changes the depth, and the 256 leaves of `cosmos_many`.  TLC checks
that the hypotheses are met by seven of the nine transactions of the run, all
but those of `MsgMultiSend` (`OrdinaryTransactions`, `DocumentsAreJson`).  The
argument follows the code:

1. *Layout.*  A piece of text is a row of tokens one inside or beside the other;
   a piece joined of pieces is one (`BesidePiece`, `RowPiece`), and a part of it
   lies where the lengths in front put it.  What `object_get_value`,
   `object_get_nth_key`, `array_get_element_count` and `array_get_nth_element`
   find there is proved from that (the element count of an array of objects is
   too large, `RecordsCounted`, and the traversal does not mind).  `RootsAt`:
   the six root fields are found.
2. *Leaves.*  `MsgLeaves`: the leaves the traversal finds show the entries of
   the messages, in order, each under the path of its keys with the text of its
   value (`FieldText`, `CoinsShown`).
3. *Groups.*  The count keeps for the types and for the delegators whether all
   texts so far are one, how many, and the first (`GroupsAre`); so the leaves
   that are passed over are those a reader would call repeated
   (`PassedIsRepeated`), and as many remain as `display_cache` counts
   (`MsgsAreKept`).
4. *Counts and items.*  `CountsAre` counts the seven root fields in turn, an
   empty memo as none; `ExpectedShown` puts the items of the root fields behind
   each other in the order of the display, in and out of expert mode.

The items are those of the run, since such a document keeps the depth
(`DepthIsOwn`), and all have been seen.

**Signing session.**  `SeiApduProofs!SessionIsImplemented`: every behaviour of
`SeiApdu!Spec` is one of `SigningSession`.  The step simulation takes each
handler on its own and uses `SafetyInv`: an offer is the session's document
because the buffer is the upload and the path is the one asked for.  The
abstract fairness is checked by TLC only.

**Numbers.**  `NumberProofs`, for words of every even width:
first what each operation of `uint256.c` computes.  `Add256IsSum`,
`Minus256IsDifference`, `Gt256IsGreater`: numbers of two digits in a base, first
for the two words of a `uint128`, then for its two halves; a wrapped sum is
below its summand exactly when there is a carry.  `Shiftl256IsProduct` and
`Shiftr256IsQuotient`: the cases of a shift by less than a word, a word, less
than two, and so on, each a split of a power of two.  `Or256IsSum` (of a power of two below
every bit of the other), `Bits256IsLength`, `Mul256IsProduct` (two factors of
one word: the columns and their carries), `ReadIsEncoded`.

With them `DivisionIsExact`: the invariant of the long division is that
`dividend = quotient * divisor + remainder`, that `adder` is a power of two
below every bit of `quotient`, that `copyd` is the divisor times `adder`, and that
`remainder < 2 * copyd`; then one subtraction a turn suffices, `or256` adds,
and at the end the remainder is below the divisor.  `NumeralsAreNumbers`: the
number that is left, times its place, and the digits written so far make the
number that was meant; a fee is meant as the product of two factors below one
word (see the finding `fees` for others).  `RefusalsAreOfTooLong`: a number is
refused only when its field is a list or longer than 32 bytes, or its digits do
not fit.  `NumbersTypeCorrect` and
`NumeralsFit`: the words stay words, and digits and terminator stay in the
buffer, by an invariant that keeps room for the digit of a division under way.
The assumptions: `WidthsAssumption` (a word has an even number of bits),
`DecimalAssumption` (10 fits in a word), `CallsAssumption` (a fee has two
fields of bytes, every other number one) and `OutLengthAssumption` (the buffer
holds a digit and its terminator).  A recursive function is unfolded by the library's
`NatInductiveDef`; an induction is stated of the set of the numbers for which
the claim holds, by its least counterexample.

**Keys.**  `KeysProofs`: `KeysTypeCorrect`, `SecretsAreWiped`, `RefusalsLeaveNoSignature`,
`SignaturesAreOfMessage`, `AddressesAreOfPath`.  The buffers are rows of cells;
lemmas say what a copy, a move and a cut leave where.  On them rests an
invariant for each routine: what is in `uncompressedPubkey` and in the I/O
buffer at which offset while the routine has come so far, and that no cell of
a signature is there before the signing.  From `SizesAssumption`
(longest answers fit), `CommandsAssumption` (accepted paths) and
`ChainCodesAssumption` (a chain code may fill the path and its length): the
path that is derived is read before the chain code is written.

**Only model-checked.**  Liveness and fairness (`EveryCommandAnswered`,
`SessionImplemented` with its fairness, `EveryNumberPrinted`,
`EveryRequestAnswered`), which the prover cannot do, `ItemKeepsPlace`, and
`ApprovalSeesTransaction` for transactions that are not ordinary: of
`MsgMultiSend` alone it holds in the run, of a mixture with contract calls and
of 256 leaves it does not (`cosmos_mixed`, `cosmos_many`).

## 6. Not modelled

The inside of the cryptography and of the secure element (results are free or
uninterpreted), the paging of a text, decimal points and symbols (zxlib), the
token table (a token is its contract), the SDK's main loop.  `tostring128`
and `divmod128` have no caller.  Of what the chain code overwrites behind
`sei_chain_code`, only the two path variables.  Of the Cosmos path: jsmn's lexing, escapes and NUL bytes inside a
document, labels (`parser_display_make_friendly`), keys that hold a slash, and
the truncation of keys, texts and coins to the buffers they are copied to.
`own_addr` is never set by the program, so `msg_from_grouping_hide_all` stays
off.  Tests and fuzz targets are not part of the program.

## 7. Plan

1. Done: command layer and the session it implements, framing, Ethereum parser,
   display and review, messages, the Cosmos parser, display and review, wide
   integers, keys; the proofs above.
2. For `CosmosReview`, `ApprovalSeesTransaction` for transactions of
   `MsgMultiSend` alone, whose leaves lie two levels deeper.
3. Products with a factor of more than one word, without the carry of the
   finding `fees`.
