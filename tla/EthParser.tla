----------------------------- MODULE EthParser -----------------------------
(***************************************************************************)
(* The parser of Ethereum transactions (parser_impl_evm.c): the bytes of   *)
(* the transaction buffer become eth_tx_obj, whose fields point into the   *)
(* buffer.  A field is an element of Rlp without its "ok" and "next".      *)
(***************************************************************************)
EXTENDS Rlp

SEI_MAINNET_CHAINID == 1329
SEI_DEVNET_CHAINID  == 713715
supported_networks_evm == {SEI_MAINNET_CHAINID, SEI_DEVNET_CHAINID}

ETH_ADDRESS_LEN   == 20
ERC20_DATA_LENGTH == 68
ERC20_TRANSFER_PREFIX == << 169, 5, 156, 187 >>

FieldNames == {"nonce", "gasPrice", "gasLimit", "to", "value", "data",
               "max_priority_fee_per_gas", "max_fee_per_gas", "access_list"}

ZeroField == [kind |-> "RLP_KIND_BYTE", at |-> 0, len |-> 0]

\* eth_tx_obj after MEMZERO.  chainId is chain_id_decoded.
ZeroTx == [tx_type |-> "none", chainId |-> 0, tx |-> [f \in FieldNames |-> ZeroField],
           is_erc20_transfer |-> FALSE, is_blindsign |-> FALSE]

-----------------------------------------------------------------------------
\* The number the bytes of a chain id stand for, 0 where the code refuses
\* them.  The length is passed to be_bytes_to_u64 as a uint8_t.
DecodedChainId(s, r) ==
    LET n == r.len % 256
    IN  IF r.len > 1
        THEN IF n \in 1 .. 8 THEN be_bytes_to_u64(s, r.at + 1, n) ELSE 0
        ELSE IF r.kind = "RLP_KIND_BYTE" THEN s[r.at + 1] ELSE 0

readChainID(s, o, end) ==
    LET r == rlp_read(s, o, end)
    IN  IF r.ok /\ DecodedChainId(s, r) \in supported_networks_evm
        THEN r ELSE RlpFailed

\* What the parser leaves in eth_tx_obj: the elements it has read, each under
\* its name, and whether it accepted the transaction.
Parsed(s, ok, type, chain, elements) ==
    [ok |-> ok,
     tx |-> [ZeroTx EXCEPT
                !.tx_type = type,
                !.chainId = IF chain.ok THEN DecodedChainId(s, chain) ELSE 0,
                !.tx = [f \in FieldNames |->
                           IF f \in DOMAIN elements /\ elements[f].ok
                           THEN [kind |-> elements[f].kind, at |-> elements[f].at,
                                 len |-> elements[f].len]
                           ELSE ZeroField]]]

\* sig_r and sig_s are both empty or both one zero byte.
EmptySignature(s, r, sg) ==
    /\ r.ok /\ sg.ok
    /\ \/ r.len = 0 /\ sg.len = 0
       \/ r.len = 1 /\ sg.len = 1 /\ s[r.at + 1] = 0 /\ s[sg.at + 1] = 0

\* Without a chain id the list ends behind the data; with one, it goes on
\* with an empty signature, and what may lie behind that is not looked at.
parse_legacy_tx(s, o, end) ==
    LET nonce    == rlp_read(s, o, end)
        gasPrice == ReadAfter(s, end, nonce)
        gasLimit == ReadAfter(s, end, gasPrice)
        to       == ReadAfter(s, end, gasLimit)
        value    == ReadAfter(s, end, to)
        data     == ReadAfter(s, end, value)
        bare     == data.ok /\ data.next = end
        chain    == IF data.ok /\ ~bare THEN readChainID(s, data.next, end) ELSE RlpFailed
        sig_r    == ReadAfter(s, end, chain)
        sig_s    == ReadAfter(s, end, sig_r)
    IN  Parsed(s, bare \/ EmptySignature(s, sig_r, sig_s), "legacy", chain,
               [nonce |-> nonce, gasPrice |-> gasPrice, gasLimit |-> gasLimit,
                to |-> to, value |-> value, data |-> data])

\* The end of a typed transaction, which starts behind its fees.
TypedTail(s, end, fee) ==
    LET gasLimit == ReadAfter(s, end, fee)
        to       == ReadAfter(s, end, gasLimit)
        value    == ReadAfter(s, end, to)
        data     == ReadAfter(s, end, value)
    IN  [gasLimit |-> gasLimit, to |-> to, value |-> value, data |-> data,
         access_list |-> ReadAfter(s, end, data)]

TypedEnds(tail, end) == tail.access_list.ok /\ tail.access_list.next >= end

parse_2930(s, o, end) ==
    LET chain    == readChainID(s, o, end)
        nonce    == ReadAfter(s, end, chain)
        gasPrice == ReadAfter(s, end, nonce)
        tail     == TypedTail(s, end, gasPrice)
    IN  Parsed(s, TypedEnds(tail, end), "eip2930", chain,
               [nonce |-> nonce, gasPrice |-> gasPrice, gasLimit |-> tail.gasLimit,
                to |-> tail.to, value |-> tail.value, data |-> tail.data,
                access_list |-> tail.access_list])

parse_1559(s, o, end) ==
    LET chain    == readChainID(s, o, end)
        nonce    == ReadAfter(s, end, chain)
        priority == ReadAfter(s, end, nonce)
        fee      == ReadAfter(s, end, priority)
        tail     == TypedTail(s, end, fee)
    IN  Parsed(s, TypedEnds(tail, end), "eip1559", chain,
               [nonce |-> nonce, max_priority_fee_per_gas |-> priority,
                max_fee_per_gas |-> fee, gasLimit |-> tail.gasLimit,
                to |-> tail.to, value |-> tail.value, data |-> tail.data,
                access_list |-> tail.access_list])

readTxnType(s) ==
    IF s[1] = 1 THEN "eip2930"
    ELSE IF s[1] = 2 THEN "eip1559"
    ELSE IF s[1] < 192 THEN "unsupported" ELSE "legacy"

\* Mutant of IsWholeList: bytes may follow the list.
IsListFirst(s, list) == list.ok /\ list.kind = "RLP_KIND_LIST"

\* One list, and it ends where the buffer ends.
IsWholeList(s, list) ==
    list.ok /\ list.kind = "RLP_KIND_LIST" /\ list.next = Len(s)

\* _readEth: a type, one list and its fields.  eth_tx_obj is zeroed first.
_readEth(s) ==
    LET type == readTxnType(s)
        list == rlp_read(s, VersionLen(s), Len(s))
        end  == list.at + list.len
    IN  IF type = "unsupported" \/ ~IsWholeList(s, list)
        THEN [ok |-> FALSE, tx |-> [ZeroTx EXCEPT
                  !.tx_type = IF type = "unsupported" THEN "none" ELSE type]]
        ELSE IF type = "eip1559" THEN parse_1559(s, list.at, end)
        ELSE IF type = "eip2930" THEN parse_2930(s, list.at, end)
        ELSE parse_legacy_tx(s, list.at, end)

-----------------------------------------------------------------------------
\* Mutant of validateERC20: the length of the data is not compared.
ValidatePrefix(s, tx) ==
    /\ tx.to.len = ETH_ADDRESS_LEN
    /\ tx.data.len >= 4
    /\ SubSeq(s, tx.data.at + 1, tx.data.at + 4) = ERC20_TRANSFER_PREFIX

\* A call of transfer(address,uint256) at a contract (evm_erc20.c).
validateERC20(s, tx) ==
    /\ tx.to.len = ETH_ADDRESS_LEN
    /\ tx.data.len = ERC20_DATA_LENGTH
    /\ SubSeq(s, tx.data.at + 1, tx.data.at + 4) = ERC20_TRANSFER_PREFIX
=============================================================================
