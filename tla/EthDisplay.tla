----------------------------- MODULE EthDisplay ----------------------------
(***************************************************************************)
(* The items of an Ethereum transaction on the screen: how many there are  *)
(* and what the i-th one shows (parser_impl_evm.c, evm_utils.c).           *)
(*                                                                         *)
(* The text of an item is represented by the byte strings it is formatted  *)
(* from; the formatting is left out.  s is the transaction buffer, t is    *)
(* eth_tx_obj.                                                             *)
(***************************************************************************)
EXTENDS EthParser

\* A byte behind the buffer: the program shows whatever is there.
Unknown == 256

\* Nothing is printed: the output stays as MEMZERO left it.
Blank == << >>

Failed == [ok |-> FALSE, key |-> "?", text |-> Blank]

Shown(key, text) == [ok |-> TRUE, key |-> key, text |-> text]

\* A number is shown without the leading zeros of its encoding.
Number(bytes) ==
    IF \A k \in DOMAIN bytes : bytes[k] = 0
    THEN << >>
    ELSE LET first == CHOOSE k \in DOMAIN bytes :
                         bytes[k] # 0 /\ \A j \in 1 .. k - 1 : bytes[j] = 0
         IN  SubSeq(bytes, first, Len(bytes))

\* rlp_readUInt256 takes no list and no more than 32 bytes.
IsUInt256(r) == r.kind # "RLP_KIND_LIST" /\ r.len <= 32

printRLPNumber(s, key, r) ==
    IF IsUInt256(r) THEN Shown(key, << Number(Payload(s, r)) >>) ELSE Failed

\* gasLimit * gasPrice.
printEVMMaxFees(s, t) ==
    IF IsUInt256(t.tx.gasLimit) /\ IsUInt256(t.tx.gasPrice)
    THEN Shown("Max Fees", << Number(Payload(s, t.tx.gasLimit)),
                              Number(Payload(s, t.tx.gasPrice)) >>)
    ELSE Failed

\* printEVMAddress is called with the length of an address whatever the
\* length of the field is.
printEVMAddress(s, key, at) ==
    Shown(key, << [k \in 1 .. ETH_ADDRESS_LEN |->
                      IF at + k <= Len(s) THEN s[at + k] ELSE Unknown] >>)

\* printBigIntFixedPoint refuses more than 64 bytes; its error is dropped.
printAmount(s, r) ==
    Shown("Amount", IF r.len <= 64 THEN << Number(Payload(s, r)) >> ELSE Blank)

DATA_BYTES_TO_PRINT == 10

printData(s, r) ==
    Shown("Data", << SubSeq(s, r.at + 1, r.at + MinOf(r.len, DATA_BYTES_TO_PRINT)) >>)

-----------------------------------------------------------------------------
\* The amount of a transfer and the token it is in.
printERC20Value(s, t) ==
    Shown("Amount", << SubSeq(s, t.tx.to.at + 1, t.tx.to.at + ETH_ADDRESS_LEN),
                       Number(SubSeq(s, t.tx.data.at + 37, t.tx.data.at + 68)) >>)

printNetwork(t) ==
    IF t.chainId \in supported_networks_evm
    THEN Shown("Network", << << t.chainId >> >>) ELSE Failed

HasGasPrice(t) == t.tx_type \in {"legacy", "eip2930"}

printERC20Transfer(s, t, displayIdx) ==
    LET idx   == IF t.tx_type = "eip1559" /\ displayIdx >= 8 THEN displayIdx + 1
                 ELSE IF HasGasPrice(t) /\ displayIdx >= 5 THEN displayIdx + 3
                 ELSE displayIdx
        items == << printEVMAddress(s, "Receiver", t.tx.data.at + 16),
                    printEVMAddress(s, "Contract", t.tx.to.at),
                    printNetwork(t),
                    printERC20Value(s, t),
                    printRLPNumber(s, "Nonce", t.tx.nonce),
                    printRLPNumber(s, "Max Priority Fee", t.tx.max_priority_fee_per_gas),
                    printRLPNumber(s, "Max Fee", t.tx.max_fee_per_gas),
                    printRLPNumber(s, "Gas limit", t.tx.gasLimit),
                    printEVMMaxFees(s, t),
                    printRLPNumber(s, "Value", t.tx.value),
                    printData(s, t.tx.data) >>
    IN  IF idx \in 0 .. 10 THEN items[idx + 1] ELSE Failed

\* Mutant of GenericIdx: "Max Fees" is not skipped for an EIP-1559 transaction.
GenericIdxWithoutSkip(t, displayIdx) ==
    LET idx == IF (displayIdx >= 2 /\ t.tx.data.len = 0) \/ t.tx.to.len = 0
               THEN displayIdx + 1 ELSE displayIdx
    IN  IF HasGasPrice(t) /\ idx >= 3 THEN idx + 3 ELSE idx

\* The items that are left out are skipped by shifting the index.
GenericIdx(t, displayIdx) ==
    LET idx == IF (displayIdx >= 2 /\ t.tx.data.len = 0) \/ t.tx.to.len = 0
               THEN displayIdx + 1 ELSE displayIdx
    IN  IF t.tx_type = "eip1559" /\ idx >= 6 THEN idx + 1
        ELSE IF HasGasPrice(t) /\ idx >= 3 THEN idx + 3
        ELSE idx

printGeneric(s, t, displayIdx) ==
    LET idx   == GenericIdx(t, displayIdx)
        items == << printEVMAddress(s, "To", t.tx.to.at),
                    printAmount(s, t.tx.value),
                    printData(s, t.tx.data),
                    printRLPNumber(s, "Max Priority Fee", t.tx.max_priority_fee_per_gas),
                    printRLPNumber(s, "Max Fee", t.tx.max_fee_per_gas),
                    printRLPNumber(s, "Gas limit", t.tx.gasLimit),
                    printEVMMaxFees(s, t),
                    printRLPNumber(s, "Nonce", t.tx.nonce),
                    Shown("EVM Hash", << s >>) >>
    IN  IF idx \in 0 .. 8 THEN items[idx + 1] ELSE Failed

_getItemEth(s, t, displayIdx) ==
    IF t.is_erc20_transfer THEN printERC20Transfer(s, t, displayIdx)
                           ELSE printGeneric(s, t, displayIdx)

\* The number of items.  The code also stores validateERC20's result.
_getNumItemsEth(s, t) ==
    IF validateERC20(s, t.tx)
    THEN IF HasGasPrice(t) THEN 8 ELSE 10
    ELSE (IF HasGasPrice(t) THEN 4 ELSE 6)
         - (IF t.is_blindsign THEN 0 ELSE 1)
         + (IF t.tx.data.len # 0 THEN 1 ELSE 0)
         + (IF t.tx.to.len # 0 THEN 1 ELSE 0)

\* parser_getItemEth: the item, unless the index is out of range.
parser_getItemEth(s, t, displayIdx) ==
    IF displayIdx \in 0 .. _getNumItemsEth(s, t) - 1
    THEN _getItemEth(s, t, displayIdx) ELSE Failed

-----------------------------------------------------------------------------
ETHEREUM_RECOVERY_OFFSET == 27
EIP155_V_BASE == 35

\* saturating_add_u32
saturating_add_u32(a, b) == IF a + b < U32 THEN a + b ELSE U32 - 1

\* Mutant of _computeV: v is not cut to a byte.
ComputeWideV(t, parity, is_personal_message) ==
    IF is_personal_message THEN ETHEREUM_RECOVERY_OFFSET + parity
    ELSE IF t.tx_type \in {"eip2930", "eip1559"} THEN parity
    ELSE saturating_add_u32(EIP155_V_BASE + parity, ((t.chainId % U32) * 2) % U32)

\* The byte v of a signature: the parity of the point R and, for a legacy
\* transaction, the chain, cut to a byte.
_computeV(t, parity, is_personal_message) ==
    IF is_personal_message THEN ETHEREUM_RECOVERY_OFFSET + parity
    ELSE IF t.tx_type \in {"eip2930", "eip1559"} THEN parity
    ELSE saturating_add_u32(EIP155_V_BASE + parity, ((t.chainId % U32) * 2) % U32) % 256
=============================================================================
