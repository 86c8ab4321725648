-------------------------------- MODULE Rlp --------------------------------
(***************************************************************************)
(* One element of an RLP stream (rlp.c), read from the bytes s between the *)
(* offset o, where the context stands, and the offset end, where it ends.  *)
(* A list is read as a context of its own: the same bytes with the ends of *)
(* the list's payload.  Offsets count from 0, as in the code.              *)
(***************************************************************************)
EXTENDS TxFraming

Kinds == {"RLP_KIND_BYTE", "RLP_KIND_STRING", "RLP_KIND_LIST"}

\* An rlp_t: ptr is kept as the offset "at" of the payload; "next" is where
\* the context stands after the element.  A zeroed rlp_t is a BYTE of length 0.
RlpFailed == [ok |-> FALSE, kind |-> "RLP_KIND_BYTE", at |-> 0, len |-> 0, next |-> 0]

\* Mutant of Element: readBytes does not compare len with what is left.
ElementUnchecked(o, end, kind, header, len) ==
    [ok |-> TRUE, kind |-> kind, at |-> o + header, len |-> len,
     next |-> o + header + len]

\* readBytes: len bytes behind a header of size header, if they are there.
Element(o, end, kind, header, len) ==
    IF end - o - header < len
    THEN RlpFailed
    ELSE [ok |-> TRUE, kind |-> kind, at |-> o + header, len |-> len,
          next |-> o + header + len]

\* An element whose length is given by the n bytes behind its prefix.
LongElement(s, o, end, kind, n) ==
    IF end - o - 1 < n
    THEN RlpFailed
    ELSE Element(o, end, kind, 1 + n, be_bytes_to_u64(s, o + 2, n))

rlp_read(s, o, end) ==
    LET prefix == s[o + 1]
    IN  IF end - o < 1 THEN RlpFailed
        ELSE IF prefix <= 127 THEN Element(o, end, "RLP_KIND_BYTE", 0, 1)
        ELSE IF prefix <= 183 THEN Element(o, end, "RLP_KIND_STRING", 1, prefix - 128)
        ELSE IF prefix <= 191 THEN LongElement(s, o, end, "RLP_KIND_STRING", prefix - 183)
        ELSE IF prefix <= 247 THEN Element(o, end, "RLP_KIND_LIST", 1, prefix - 192)
        ELSE LongElement(s, o, end, "RLP_KIND_LIST", prefix - 247)

\* The element behind r, or r's failure: CHECK_ERROR(rlp_read(...)) in a row.
ReadAfter(s, end, r) == IF r.ok THEN rlp_read(s, r.next, end) ELSE RlpFailed

Payload(s, r) == SubSeq(s, r.at + 1, r.at + r.len)
=============================================================================
