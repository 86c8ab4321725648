---------------------------- MODULE MCEthReview ----------------------------
(***************************************************************************)
(* Ethereum transactions for TLC: each type, with and without a chain id,  *)
(* recipient and data, transfers and other calls, numbers at the limits of *)
(* the formatters; and buffers that are not the encoding of one.           *)
(***************************************************************************)
EXTENDS EthReviewProperties

Repeat(b, n) == [k \in 1 .. n |-> b]

MCU32 == 67108864
MCU64 == 1073741824

A   == Repeat(17, 20)       \* an address
Token == Repeat(156, 20)    \* and another one

Transfer == ERC20_TRANSFER_PREFIX \o Repeat(0, 12) \o Repeat(53, 20)
            \o Repeat(0, 30) \o << 3, 232 >>

Tx(type, chainId, nonce, fees, gasLimit, to, value, data) ==
    [type |-> type, chainId |-> chainId, nonce |-> nonce, fees |-> fees,
     gasLimit |-> gasLimit, to |-> to, value |-> value, data |-> data]

Fees(type) == IF type = "eip1559" THEN << << 5 >>, << 130, 1 >> >> ELSE << << 9 >> >>

MCTransactions ==
    LET Of(type, chainId, to, data) ==
            Tx(type, chainId, << 7 >>, Fees(type), << 82, 8 >>, to, << 200 >>, data)
    IN  {Of(type, SEI_MAINNET_CHAINID, to, data) :
            type \in {"legacy", "eip2930", "eip1559"},
            to   \in {<< >>, A},
            data \in {<< >>, << 1, 2 >>}}
        \cup {Of(type, SEI_DEVNET_CHAINID, Token, Transfer) :
                 type \in {"legacy", "eip2930", "eip1559"}}
        \cup {Of("legacy", 0, A, << >>), Of("legacy", 0, Token, Transfer),
              Of("legacy", 1, A, << >>), Of("eip1559", 1, A, << >>),
              \* a call of transfer with one byte more, and of another selector
              Of("eip1559", SEI_MAINNET_CHAINID, Token, Transfer \o << 0 >>),
              Of("legacy", SEI_MAINNET_CHAINID, Token, [Transfer EXCEPT ![1] = 170])}

\* Numbers of 32 and 33 bytes, zero, and with a leading zero.
MCLimits ==
    LET With(nonce, gasLimit) ==
            Tx("legacy", SEI_MAINNET_CHAINID, nonce, << << >> >>, gasLimit, A, << >>, << >>)
    IN  {With(Repeat(255, 32), << 1 >>), With(Repeat(255, 33), << 1 >>),
         With(<< >>, Repeat(1, 33)), With(<< 0, 1 >>, << 128 >>)}

MCAllTransactions == MCTransactions \cup MCLimits

\* The encoding of a transaction, spoilt.
MCSpoilt ==
    LET legacy == Encode(Tx("legacy", 0, << 7 >>, << << 9 >> >>, << 8 >>, A, << 1 >>, << >>))
        typed  == Encode(Tx("eip1559", SEI_MAINNET_CHAINID, << 7 >>, << << 5 >>, << 6 >> >>,
                            << 8 >>, A, << 1 >>, << >>))
        fields == << 7, 9, 8, 128, 1, 128 >>
    IN  {<< >>, << 2 >>, << 5 >>, << 192 >>, << 248 >>, << 249, 1 >>,
         \* a byte behind the list, and one too few
         legacy \o << 0 >>, SubSeq(legacy, 1, Len(legacy) - 1), typed \o << 0 >>,
         \* data and an access list that reach behind the list they are in
         [typed EXCEPT ![Len(typed) - 1] = 130], [typed EXCEPT ![Len(typed)] = 194],
         \* a list as nonce, a string for the whole, r of one byte, r and s of
         \* a zero byte, fields behind s
         EncodeList(<< 193, 7 >> \o Tail(fields)), EncodeString(fields),
         EncodeList(fields \o << 130, 5, 49, 1, 0 >>),
         EncodeList(fields \o << 130, 5, 49, 0, 0 >>),
         EncodeList(fields \o << 130, 5, 49, 128, 128, 1 >>),
         \* a chain id of 258 bytes, of which two are read; one of a single byte
         EncodeList(fields \o EncodeString(<< 5, 49 >> \o Repeat(9, 256)) \o << 128, 128 >>),
         EncodeList(fields \o << 129, 200, 128, 128 >>)}

MCBlobs == {Encode(t) : t \in MCAllTransactions} \cup MCSpoilt

MCMessages == {<< 0, 0, 0, 1, 65 >>}
=============================================================================
