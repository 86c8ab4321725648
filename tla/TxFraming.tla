----------------------------- MODULE TxFraming -----------------------------
(***************************************************************************)
(* Byte-level framing of an upload: the fixed-width arithmetic of the      *)
(* chunk handlers, the length an EIP-191 message declares, the length an   *)
(* Ethereum transaction declares in its RLP header as the upload reads it  *)
(* (evm_utils.c), and the same length as the parser reads it later (rlp.c, *)
(* parser_impl_evm.c).  The module is pure: it has no variables.           *)
(***************************************************************************)
EXTENDS Integers, Sequences

CONSTANTS
    U32,    \* number of values of a uint32_t: 2^32 in the build
    U64     \* number of values of a uint64_t: 2^64 in the build

ASSUME WidthAssumption ==
    /\ U32 \in Nat /\ U32 > 25       \* the bytes of a command with a path
    /\ U64 \in Nat /\ U64 >= U32

Byte == 0 .. 255

-----------------------------------------------------------------------------
(* Unsigned arithmetic.  For operands of the type, subtraction wraps at    *)
(* most once, so no modulus is needed.                                     *)

Sub32(a, b) == IF a >= b THEN a - b ELSE a - b + U32
Sub64(a, b) == IF a >= b THEN a - b ELSE a - b + U64

saturating_add(a, b) == IF a + b < U64 THEN a + b ELSE U64 - 1

MinOf(a, b) == IF a <= b THEN a ELSE b

-----------------------------------------------------------------------------
(* Big-endian numbers.                                                     *)

\* The four bytes at the start of an EIP-191 upload.
U4BE(s) == 256 * (256 * (256 * s[1] + s[2]) + s[3]) + s[4]

\* be_bytes_to_u64 over s[from] .. s[from + n - 1], n in 1..8, by Horner's
\* rule written out (a length has at most eight bytes).
be_bytes_to_u64(s, from, n) ==
    LET step(i, acc) == (IF i < n THEN 256 ELSE 1) * acc
                        + (IF i < n THEN s[from + i] ELSE 0)
    IN  step(7, step(6, step(5, step(4, step(3, step(2, step(1, step(0, 0))))))))

-----------------------------------------------------------------------------
(* The RLP header of a transaction.                                        *)

VersionLen(s) == IF s[1] \in {1, 2} THEN 1 ELSE 0

RlpError == [ok |-> FALSE, read |-> 0, to_read |-> 0]

\* get_tx_rlp_len: header size and payload size of the transaction that
\* starts with the bytes buf.  The code never compares the header with the
\* number of bytes it was given, so it may read the residue: the bytes that
\* happen to lie behind them in memory.
get_tx_rlp_len(buf, residue) ==
    LET data     == buf \o residue
        version  == VersionLen(data)
        marker   == data[version + 1]
        numBytes == marker - 247
    IN  IF buf = << >> \/ marker < 192
        THEN RlpError
        ELSE IF marker <= 247
        THEN [ok |-> TRUE, read |-> version + 1, to_read |-> marker - 192]
        ELSE [ok |-> TRUE, read |-> version + 1 + numBytes,
              to_read |-> be_bytes_to_u64(data, version + 2, numBytes)]

\* The header of buf lies within buf: nothing of it is read from the residue.
HeaderWhole(buf) ==
    /\ Len(buf) > 0
    /\ Len(buf) > VersionLen(buf)
    /\ LET marker == buf[VersionLen(buf) + 1]
       IN  marker > 247 => Len(buf) >= VersionLen(buf) + 1 + (marker - 247)

\* _readEth up to its "all bytes must be read" check: a type byte or a list
\* prefix, then one list (rlp_read) that ends exactly where the buffer ends.
ListCoversBuffer(buf) ==
    /\ HeaderWhole(buf)
    /\ LET version == VersionLen(buf)
           prefix  == buf[version + 1]
       IN  \/ /\ prefix \in 192 .. 247
              /\ Len(buf) = version + 1 + (prefix - 192)
           \/ /\ prefix > 247
              /\ Len(buf) = version + 1 + (prefix - 247)
                            + be_bytes_to_u64(buf, version + 2, prefix - 247)
=============================================================================
