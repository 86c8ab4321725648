----------------------------- MODULE EthReview -----------------------------
(***************************************************************************)
(* The life of an Ethereum transaction once its upload is complete: it is  *)
(* parsed and validated (tx_evm.c, parser_evm.c), its items are shown one  *)
(* after the other, and the user approves or rejects it.  eth_tx_obj is    *)
(* one static object for all transactions and is also what v is computed   *)
(* from when the signature is made.                                        *)
(*                                                                         *)
(* The view (zxlib) shows item 0 first, goes one item forward or back at a *)
(* time, and offers the approval behind the last item; the setting for     *)
(* blind signing is changed only while nothing is under review.            *)
(***************************************************************************)
EXTENDS EthDisplay

CONSTANTS
    Blobs,      \* what a completed Ethereum upload may leave in the buffer
    Messages    \* what a completed EIP-191 upload may leave there

ASSUME BlobAssumption == Blobs \cup Messages \subseteq Seq(Byte)

VARIABLES
    buffer,         \* the transaction buffer
    eth_tx_obj,
    blindsign,      \* app_mode_blindsign()
    phase,          \* what the device is doing
    result,         \* of the last tx_parse_eth
    displayIdx,     \* the item on the screen
    shown,          \* history: the items shown in this review
    v               \* v in the answer, if it holds a signature, and the parity
                    \* the signature was made with

vars == << buffer, eth_tx_obj, blindsign, phase, result, displayIdx, shown, v >>

Titles == {"To", "Receiver", "Contract", "Network", "Amount", "Data", "Nonce", "Value",
           "Gas limit", "Max Fee", "Max Fees", "Max Priority Fee", "EVM Hash", "?"}

Items == [ok : BOOLEAN, key : Titles, text : Seq(Seq(Nat))]

TypeOK ==
    /\ buffer \in Seq(Byte)
    /\ eth_tx_obj.tx_type \in {"none", "legacy", "eip2930", "eip1559"}
    /\ eth_tx_obj.chainId \in supported_networks_evm \cup {0}
    /\ \A f \in FieldNames :
          LET r == eth_tx_obj.tx[f]
          IN  r.kind \in Kinds /\ r.at \in Nat /\ r.len \in Nat
    /\ eth_tx_obj.is_erc20_transfer \in BOOLEAN
    /\ eth_tx_obj.is_blindsign \in BOOLEAN
    /\ blindsign \in BOOLEAN
    /\ phase \in {"idle", "review"}
    /\ result \in {"ok", "refused", "blindsign_mode_required"}
    /\ displayIdx \in Nat
    /\ shown \subseteq Items
    /\ v \in [value : Byte, parity : {0, 1}, personal : BOOLEAN]

NoSignature == [value |-> 0, parity |-> 0, personal |-> TRUE]

Init ==
    /\ buffer = << >>
    /\ eth_tx_obj = ZeroTx
    /\ blindsign \in BOOLEAN
    /\ phase = "idle"
    /\ result = "ok"
    /\ displayIdx = 0
    /\ shown = {}
    /\ v = NoSignature

-----------------------------------------------------------------------------
\* _validateTxEth up to its result: a call whose data the program cannot
\* show in full is signed blindly.
IsBlind(s, t) == t.tx.data.len # 0 /\ ~validateERC20(s, t.tx)

\* The object with the flags the validation and the display set in it.
Validated(s, t) == [t EXCEPT !.is_blindsign = IsBlind(s, t),
                             !.is_erc20_transfer = validateERC20(s, t.tx)]

\* Mutant of AllItemsShow: the loop stops before the last item.
AllButLastShow(s, t) ==
    \A i \in 0 .. _getNumItemsEth(s, t) - 2 : parser_getItemEth(s, t, i).ok

\* The loop of parser_validate_eth.
AllItemsShow(s, t) ==
    \A i \in 0 .. _getNumItemsEth(s, t) - 1 : parser_getItemEth(s, t, i).ok

\* Mutant of parser_parse_eth: eth_tx_obj is not zeroed.
ParseOverOld(s, old) ==
    LET p == _readEth(s)
    IN  IF s = << >> THEN [ok |-> FALSE, tx |-> old]
        ELSE [p EXCEPT !.tx.chainId = IF @ = 0 THEN old.chainId ELSE @]

\* parser_parse_eth.  An empty buffer is refused before _readEth zeroes the
\* object of the transaction before.
parser_parse_eth(s, old) ==
    IF s = << >> THEN [ok |-> FALSE, tx |-> old] ELSE _readEth(s)

\* What is parsed, allowed and can be shown goes to review, from its first
\* item; t is eth_tx_obj after the validation, or where parsing stopped.
ReviewOrRefuse(s, parsed, t) ==
    LET allowed == t.is_blindsign => blindsign
    IN  /\ phase = "idle"
        /\ buffer' = s
        /\ eth_tx_obj' = t
        /\ v' = NoSignature
        /\ UNCHANGED blindsign
        /\ \/ /\ parsed.ok /\ allowed /\ AllItemsShow(s, t)
              /\ result' = "ok"
              /\ phase' = "review"
              /\ displayIdx' = 0
              /\ shown' = {parser_getItemEth(s, t, 0)}
           \/ /\ parsed.ok /\ ~allowed
              /\ result' = "blindsign_mode_required"
              /\ UNCHANGED << phase, displayIdx, shown >>
           \/ /\ parsed.ok => (allowed /\ ~AllItemsShow(s, t))
              /\ result' = "refused"
              /\ UNCHANGED << phase, displayIdx, shown >>

\* tx_parse_eth on the buffer s, as handleSignEth calls it.
HandleSignEth(s) ==
    \E parsed \in {parser_parse_eth(s, eth_tx_obj)} :
        \E t \in {IF parsed.ok THEN Validated(s, parsed.tx) ELSE parsed.tx} :
            ReviewOrRefuse(s, parsed, t)

\* The view asks for the item i (tx_getItemEth).
ShowItem(i) ==
    /\ phase = "review"
    /\ i \in 0 .. _getNumItemsEth(buffer, eth_tx_obj) - 1
    /\ displayIdx' = i
    /\ shown' = shown \cup {parser_getItemEth(buffer, eth_tx_obj, i)}
    /\ UNCHANGED << buffer, eth_tx_obj, blindsign, phase, result, v >>

EndReview == phase' = "idle" /\ displayIdx' = 0 /\ shown' = {}

\* app_sign_eth: crypto_sign_eth with the parity of the point it computes.
Approve(parity) ==
    /\ phase = "review"
    /\ displayIdx = _getNumItemsEth(buffer, eth_tx_obj) - 1
    /\ v' = [value |-> _computeV(eth_tx_obj, parity, FALSE), parity |-> parity,
             personal |-> FALSE]
    /\ EndReview
    /\ UNCHANGED << buffer, eth_tx_obj, blindsign, result >>

Reject ==
    /\ phase = "review"
    /\ EndReview
    /\ UNCHANGED << buffer, eth_tx_obj, blindsign, result, v >>

\* app_sign_eip191: a message takes the buffer between two transactions, and
\* the same code computes v.
SignPersonalMessage(parity) ==
    /\ phase = "idle"
    /\ buffer' \in Messages
    /\ v' = [value |-> _computeV(eth_tx_obj, parity, TRUE), parity |-> parity,
             personal |-> TRUE]
    /\ UNCHANGED << eth_tx_obj, blindsign, phase, result, displayIdx, shown >>

ToggleBlindsign ==
    /\ phase = "idle"
    /\ blindsign' = ~blindsign
    /\ UNCHANGED << buffer, eth_tx_obj, phase, result, displayIdx, shown, v >>

Next ==
    \/ \E s \in Blobs : HandleSignEth(s)
    \/ \E i \in {displayIdx - 1, displayIdx + 1} : ShowItem(i)
    \/ \E parity \in {0, 1} : Approve(parity) \/ SignPersonalMessage(parity)
    \/ Reject
    \/ ToggleBlindsign

Spec == Init /\ [][Next]_vars
=============================================================================
