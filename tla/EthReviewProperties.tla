------------------------ MODULE EthReviewProperties ------------------------
(***************************************************************************)
(* What a review of an Ethereum transaction owes its user.  The properties *)
(* are stated against the transaction a host encodes: Encode is the RLP    *)
(* encoding of a transaction, Expected the screens it should lead to; both *)
(* are written independently of the parser and of the index arithmetic of  *)
(* the display.                                                            *)
(***************************************************************************)
EXTENDS EthReview

CONSTANT Transactions   \* the transactions whose encodings the host sends

U16 == 65536    \* number of values of two bytes

\* What stands before the n bytes of a string (base 128) or a list (base 192).
LengthHeader(base, n) ==
    IF n <= 55 THEN << base + n >>
    ELSE IF n <= 255 THEN << base + 56, n >>
    ELSE << base + 57, n \div 256, n % 256 >>

\* A byte string; one byte below 128 is its own encoding.
EncodeString(p) ==
    IF Len(p) = 1 /\ p[1] < 128 THEN p ELSE LengthHeader(128, Len(p)) \o p

EncodeList(p) == LengthHeader(192, Len(p)) \o p

\* A number without leading zeros; ids of up to three bytes.
ChainBytes(id) ==
    IF id < U16 THEN << id \div 256, id % 256 >>
    ELSE << id \div U16, (id \div 256) % 256, id % 256 >>

\* The fields every transaction ends with, in front of rest.
EndOf(t, rest) ==
    EncodeString(t.gasLimit) \o (EncodeString(t.to)
        \o (EncodeString(t.value) \o (EncodeString(t.data) \o rest)))

Encode(t) ==
    LET Str(p) == EncodeString(p)
        chain  == Str(ChainBytes(t.chainId))
    IN  CASE t.type = "legacy" ->
               EncodeList(Str(t.nonce) \o (Str(t.fees[1]) \o
                   EndOf(t, IF t.chainId = 0 THEN << >>
                            ELSE chain \o (Str(<< >>) \o Str(<< >>)))))
          [] t.type = "eip2930" ->
               << 1 >> \o EncodeList(chain \o (Str(t.nonce) \o (Str(t.fees[1]) \o
                   EndOf(t, EncodeList(<< >>)))))
          [] t.type = "eip1559" ->
               << 2 >> \o EncodeList(chain \o (Str(t.nonce) \o (Str(t.fees[1]) \o
                   (Str(t.fees[2]) \o EndOf(t, EncodeList(<< >>))))))

\* A byte string with a length of two bytes.
Short(x) == x \in Seq(Byte) /\ Len(x) < U16

\* Nothing is longer than the transaction buffer; the address has its length,
\* and the value fits the formatter.
ASSUME TransactionAssumption == \A t \in Transactions :
    /\ t.type \in {"legacy", "eip2930", "eip1559"}
    /\ t.chainId \in Nat /\ t.chainId < 256 * U16
    /\ DOMAIN t.fees = (IF t.type = "eip1559" THEN {1, 2} ELSE {1})
    /\ \A i \in DOMAIN t.fees : Short(t.fees[i])
    /\ Short(t.nonce) /\ Short(t.gasLimit) /\ Short(t.to) /\ Short(t.value) /\ Short(t.data)
    /\ Len(t.to) \in {0, ETH_ADDRESS_LEN} /\ Len(t.value) <= 64
    /\ Len(Encode(t)) < U16

\* Twice a chain id of three bytes is a uint32_t.
ASSUME ChainWidthAssumption == 512 * U16 + 36 < U32

\* A call of transfer on a token contract, which is shown in full.
IsTransfer(t) ==
    /\ Len(t.to) = ETH_ADDRESS_LEN
    /\ Len(t.data) = ERC20_DATA_LENGTH
    /\ SubSeq(t.data, 1, 4) = ERC20_TRANSFER_PREFIX

ExpectedFees(t) ==
    IF t.type = "eip1559"
    THEN {Shown("Max Priority Fee", << Number(t.fees[1]) >>),
          Shown("Max Fee", << Number(t.fees[2]) >>),
          Shown("Gas limit", << Number(t.gasLimit) >>)}
    ELSE {Shown("Max Fees", << Number(t.gasLimit), Number(t.fees[1]) >>)}

ExpectedData(t) == Shown("Data", << SubSeq(t.data, 1, MinOf(Len(t.data), 10)) >>)

\* The screens of tests/expected_output.cpp (EVMGenerateExpectedUIOutput) for
\* a transfer, and those of any other transaction.
Expected(t) ==
    {Shown("Nonce", << Number(t.nonce) >>)} \cup ExpectedFees(t) \cup
    IF IsTransfer(t)
    THEN {Shown("Receiver", << SubSeq(t.data, 17, 36) >>),
          Shown("Contract", << t.to >>),
          Shown("Network", << << t.chainId >> >>),
          Shown("Amount", << t.to, Number(SubSeq(t.data, 37, 68)) >>),
          Shown("Value", << Number(t.value) >>),
          ExpectedData(t)}
    ELSE {Shown("Amount", << Number(t.value) >>)}
         \cup (IF t.to = << >> THEN {} ELSE {Shown("To", << t.to >>)})
         \cup (IF t.data = << >> THEN {}
               ELSE {ExpectedData(t), Shown("EVM Hash", << Encode(t) >>)})

AtLastItem ==
    phase = "review" /\ displayIdx = _getNumItemsEth(buffer, eth_tx_obj) - 1

\* The transaction under review, as the host meant it.
Sent(t) == t \in Transactions /\ Encode(t) = buffer

-----------------------------------------------------------------------------
\* When the user is offered the approval, the screens seen are exactly those
\* of the transaction the host sent: nothing missing, nothing of another
\* field or of an earlier transaction, in whatever order.  Creating a contract
\* without code is left to DataShownOnlyIfPresent.
ApprovalSeesTransaction ==
    AtLastItem => \A t \in Transactions :
        Sent(t) /\ (t.to # << >> \/ t.data # << >>) => shown = Expected(t)

\* A transaction whose call cannot be shown in full is reviewed only with
\* blind signing switched on (_validateTxEth).
BlindReviewNeedsMode ==
    phase = "review" => \A t \in Transactions :
        Sent(t) /\ t.data # << >> /\ ~IsTransfer(t) => blindsign

\* Whatever is accepted can be shown to its last item: the view never meets
\* an item that fails (the loop of parser_validate_eth).
EveryItemShows ==
    phase = "review" =>
        /\ AllItemsShow(buffer, eth_tx_obj)
        /\ \A item \in shown : item.ok

\* The fields of a transaction under review lie within the bytes that were
\* uploaded for it (readBytes).
FieldsInBuffer ==
    phase = "review" =>
        \A f \in FieldNames : eth_tx_obj.tx[f].at + eth_tx_obj.tx[f].len <= Len(buffer)

\* A reviewed buffer is one list that ends where the buffer ends, which is
\* the parsing outcome the command layer assumes (_readEth).
ReviewCoversBuffer == phase = "review" => ListCoversBuffer(buffer)

\* v of a transaction's signature is that of its own type and chain, not of
\* the transaction parsed before it (_computeV on the static eth_tx_obj).
VIsOfTransaction ==
    [][v' # v /\ ~v'.personal =>
          \A t \in Transactions : Sent(t) =>
              v'.value = IF t.type = "legacy" THEN (35 + v'.parity + 2 * t.chainId) % 256
                                              ELSE v'.parity]_vars

-----------------------------------------------------------------------------
(* Statements of the repository that the code does not keep.               *)

\* "Check if the transaction has data or to address to show"
\* (parser_impl_evm.c:477): the item Data belongs to transactions with data.
DataShownOnlyIfPresent ==
    phase = "review" =>
        \A item \in shown : item.key = "Data" => eth_tx_obj.tx.data.len # 0
=============================================================================
