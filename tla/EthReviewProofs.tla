-------------------------- MODULE EthReviewProofs ---------------------------
(***************************************************************************)
(* The review of an Ethereum transaction, for every buffer and every set   *)
(* of transactions.  The first part is about the bytes a host encodes:     *)
(* what the parser accepts of them is the transaction the host encoded     *)
(* (EncodeMeans, for every transaction of TransactionAssumption), from the *)
(* single element, its prefix and its length bytes, through the row of     *)
(* fields, to the buffer.  The second part is about any bytes: the fields  *)
(* the parser accepts lie in the buffer, and the buffer is one whole list. *)
(* The third part puts both together: the screens of the review, and the v *)
(* of its signature, are those of the transaction the host meant.  Type    *)
(* correctness, which needs both, is last.                                 *)
(***************************************************************************)
EXTENDS EthReviewProperties, TxFramingProofs, WellFoundedInduction

-----------------------------------------------------------------------------
(* The parser reads back what Encode writes.  A reader stands behind the   *)
(* element r in a context that ends at end; what lies ahead of it is a row *)
(* of encoded fields, of which every read takes one.                       *)

\* The bytes x lie in s behind the offset o.
Lies(s, o, x) == o + Len(x) <= Len(s) /\ \A k \in 1 .. Len(x) : s[o + k] = x[k]

\* What is left of the context behind r is body.
Ahead(s, end, r, body) ==
    r.ok /\ r.next \in Nat /\ Lies(s, r.next, body) /\ r.next + Len(body) = end

\* The element r is the string x.
Reads(s, r, x) ==
    /\ r.ok /\ r.kind # "RLP_KIND_LIST"
    /\ r.at \in Nat /\ r.len = Len(x) /\ Lies(s, r.at, x)

LEMMA LiesJoin ==
    ASSUME NEW s \in Seq(Byte), NEW o \in Nat, NEW x \in Seq(Byte), NEW y \in Seq(Byte),
           Lies(s, o, x \o y)
    PROVE  Lies(s, o, x) /\ Lies(s, o + Len(x), y)
  <1>1. /\ Len(x) \in Nat /\ Len(y) \in Nat /\ Len(s) \in Nat
        /\ Len(x \o y) = Len(x) + Len(y)
        /\ \A k \in 1 .. Len(x) : (x \o y)[k] = x[k]
        /\ \A k \in 1 .. Len(y) : (x \o y)[Len(x) + k] = y[k]
    OBVIOUS
  <1>2. ASSUME NEW k \in 1 .. Len(y)
        PROVE  s[o + Len(x) + k] = y[k]
    <2>1. Len(x) + k \in 1 .. Len(x \o y)
      BY <1>1
    <2>2. s[o + (Len(x) + k)] = (x \o y)[Len(x) + k]
      BY <2>1 DEF Lies
    <2>3. o + (Len(x) + k) = o + Len(x) + k
      BY <1>1
    <2>4. QED
      BY <1>1, <2>2, <2>3
  <1>3. \A k \in 1 .. Len(x) : s[o + k] = x[k]
    BY <1>1 DEF Lies
  <1>4. QED
    BY <1>1, <1>2, <1>3 DEF Lies

\* What lies at an element is its payload.
LEMMA LiesPayload ==
    ASSUME NEW s \in Seq(Byte), NEW o \in Nat, NEW x \in Seq(Byte), Lies(s, o, x)
    PROVE  SubSeq(s, o + 1, o + Len(x)) = x
  <1>1. Len(x) \in Nat /\ Len(s) \in Nat /\ o + Len(x) <= Len(s)
    BY DEF Lies
  <1>2. SubSeq(s, o + 1, o + Len(x)) \in Seq(Byte)
    BY <1>1
  <1>3. Len(SubSeq(s, o + 1, o + Len(x))) = Len(x)
    BY <1>1
  <1>4. \A k \in 1 .. Len(x) : SubSeq(s, o + 1, o + Len(x))[k] = x[k]
    BY <1>1 DEF Lies
  <1>5. QED
    BY <1>2, <1>3, <1>4, SeqEqual

\* The l bytes that say a length n are a, b and c.
IsHeader(base, n, l, a, b, c) ==
    \/ n <= 55 /\ l = 1 /\ a = base + n
    \/ n \in 56 .. 255 /\ l = 2 /\ a = base + 56 /\ b = n
    \/ n > 255 /\ l = 3 /\ a = base + 57 /\ b = n \div 256 /\ c = n % 256

LEMMA LengthHeaderForms ==
    ASSUME NEW base \in {128, 192}, NEW n \in Nat, n < U16
    PROVE  LET h == LengthHeader(base, n)
           IN  h \in Seq(Byte) /\ IsHeader(base, n, Len(h), h[1], h[2], h[3])
  <1>1. CASE n <= 55
    <2>1. LengthHeader(base, n) = << base + n >>
      BY <1>1 DEF LengthHeader
    <2>2. base + n \in Byte
      BY <1>1 DEF Byte
    <2>3. QED
      BY <1>1, <2>1, <2>2 DEF IsHeader
  <1>2. CASE n \in 56 .. 255
    <2>1. LengthHeader(base, n) = << base + 56, n >>
      BY <1>2 DEF LengthHeader
    <2>2. base + 56 \in Byte /\ n \in Byte
      BY <1>2 DEF Byte
    <2>3. QED
      BY <1>2, <2>1, <2>2 DEF IsHeader
  <1>3. CASE n > 255
    <2>1. LengthHeader(base, n) = << base + 57, n \div 256, n % 256 >>
      BY <1>3 DEF LengthHeader
    <2>2. base + 57 \in Byte /\ n \div 256 \in Byte /\ n % 256 \in Byte
      BY SMT DEF Byte, U16
    <2>3. QED
      BY <1>3, <2>1, <2>2 DEF IsHeader
  <1>4. QED
    BY <1>1, <1>2, <1>3

LEMMA BehindHeader ==
    ASSUME NEW base \in {128, 192}, NEW x, Short(x)
    PROVE  /\ LengthHeader(base, Len(x)) \o x \in Seq(Byte)
           /\ Len(LengthHeader(base, Len(x)) \o x) >= 1 + Len(x)
           /\ (LengthHeader(base, Len(x)) \o x)[1] >= base
  <1> DEFINE h == LengthHeader(base, Len(x))
  <1>1. x \in Seq(Byte) /\ Len(x) \in Nat /\ Len(x) < U16
    BY DEF Short
  <1>2. h \in Seq(Byte) /\ Len(h) \in 1 .. 3 /\ h[1] >= base
    <2>1. h \in Seq(Byte) /\ IsHeader(base, Len(x), Len(h), h[1], h[2], h[3])
      BY <1>1, LengthHeaderForms
    <2> HIDE DEF h
    <2>2. QED
      BY <1>1, <2>1 DEF IsHeader
  <1> HIDE DEF h
  <1>3. h \o x \in Seq(Byte) /\ Len(h \o x) = Len(h) + Len(x) /\ (h \o x)[1] = h[1]
    BY <1>1, <1>2
  <1>4. QED
    BY <1>1, <1>2, <1>3 DEF h

\* An encoding is not empty, and a list starts with a list's prefix.
LEMMA EncodeType ==
    ASSUME NEW x, Short(x)
    PROVE  /\ EncodeString(x) \in Seq(Byte) /\ Len(EncodeString(x)) >= 1
           /\ Len(EncodeString(x)) >= Len(x)
           /\ EncodeList(x) \in Seq(Byte) /\ Len(EncodeList(x)) >= 1 + Len(x)
           /\ EncodeList(x)[1] >= 192
  <1>1. x \in Seq(Byte) /\ Len(x) \in Nat
    BY DEF Short
  <1>2. EncodeString(x) \in {x, LengthHeader(128, Len(x)) \o x}
        /\ (EncodeString(x) = x => Len(x) = 1 \/ x = LengthHeader(128, Len(x)) \o x)
    BY DEF EncodeString
  <1>3. EncodeString(x) \in Seq(Byte) /\ Len(EncodeString(x)) >= 1
        /\ Len(EncodeString(x)) >= Len(x)
    <2>1. CASE EncodeString(x) = x /\ Len(x) = 1
      BY <1>1, <2>1
    <2>2. CASE EncodeString(x) = LengthHeader(128, Len(x)) \o x
      BY <1>1, <2>2, BehindHeader
    <2>3. QED
      BY <1>2, <2>1, <2>2
  <1>4. QED
    BY <1>3, BehindHeader DEF EncodeList

\* Two bytes of a length are read as it was written.
LEMMA TwoBytes ==
    ASSUME NEW s \in Seq(Byte), NEW o \in Nat, NEW n \in Nat, n < U16,
           s[o] = n \div 256, s[o + 1] = n % 256
    PROVE  be_bytes_to_u64(s, o, 2) = n
  <1>1. be_bytes_to_u64(s, o, 2) = 256 * s[o] + s[o + 1]
    <2> DEFINE a == s[o]
               b == s[o + 1]
    <2>1. a \in Nat /\ b \in Nat /\ s[o + 0] = a /\ s[o + 1] = b
      OBVIOUS
    <2> HIDE DEF a, b
    <2>2. be_bytes_to_u64(s, o, 2) = 256 * a + b
      BY <2>1 DEF be_bytes_to_u64
    <2>3. QED
      BY <2>2 DEF a, b
  <1>2. QED
    BY <1>1

LEMMA OneByte ==
    ASSUME NEW s \in Seq(Byte), NEW o \in Nat, s[o] \in Nat
    PROVE  be_bytes_to_u64(s, o, 1) = s[o]
  <1> DEFINE a == s[o]
  <1>1. a \in Nat /\ s[o + 0] = a
    OBVIOUS
  <1> HIDE DEF a
  <1>2. be_bytes_to_u64(s, o, 1) = a
    BY <1>1 DEF be_bytes_to_u64
  <1>3. QED
    BY <1>2 DEF a

KindOf(base) == IF base = 128 THEN "RLP_KIND_STRING" ELSE "RLP_KIND_LIST"

\* What rlp_read returns for n bytes at the offset at.
Whole(kind, at, n) ==
    [ok |-> TRUE, kind |-> kind, at |-> at, len |-> n, next |-> at + n]

\* A prefix and the length behind it are read as they were written.
LEMMA ReadPrefix ==
    ASSUME NEW s \in Seq(Byte), NEW o \in Nat, NEW end \in Nat,
           NEW base \in {128, 192}, NEW n \in Nat, n < U16, NEW l \in 1 .. 3,
           o + l + n <= end,
           IsHeader(base, n, l, s[o + 1], s[o + 2], s[(o + 2) + 1])
    PROVE  rlp_read(s, o, end) = Whole(KindOf(base), o + l, n)
  <1> DEFINE kind == KindOf(base)
             p    == base + (IF n <= 55 THEN n ELSE 54 + l)
  <1>1. ~(end - o < 1) /\ ~(end - o - l < n) /\ ~(end - o - 1 < l - 1)
    OBVIOUS
  <1>2. p = s[o + 1] /\ (n <= 55 => l = 1) /\ (n > 55 => l \in 2 .. 3)
    BY DEF IsHeader
  <1>3. /\ p \in Nat
        /\ base = 128 /\ n <= 55 => p > 127 /\ p <= 183 /\ p - 128 = n
        /\ base = 128 /\ n > 55 => p > 183 /\ p <= 191 /\ p - 183 = l - 1
        /\ base = 192 /\ n <= 55 => p > 191 /\ p <= 247 /\ p - 192 = n
        /\ base = 192 /\ n > 55 => p > 247 /\ p - 247 = l - 1
    BY <1>2
  <1> HIDE DEF p
  <1>4. rlp_read(s, o, end) =
           IF p <= 127 THEN Element(o, end, "RLP_KIND_BYTE", 0, 1)
           ELSE IF p <= 183 THEN Element(o, end, "RLP_KIND_STRING", 1, p - 128)
           ELSE IF p <= 191 THEN LongElement(s, o, end, "RLP_KIND_STRING", p - 183)
           ELSE IF p <= 247 THEN Element(o, end, "RLP_KIND_LIST", 1, p - 192)
           ELSE LongElement(s, o, end, "RLP_KIND_LIST", p - 247)
    BY <1>1, <1>2 DEF rlp_read
  <1>5. rlp_read(s, o, end) = Element(o, end, kind, l, n)
    <2>1. CASE n <= 55
      <3>1. rlp_read(s, o, end) = Element(o, end, kind, 1, n)
        BY <1>3, <1>4, <2>1 DEF KindOf
      <3>2. QED
        BY <1>2, <2>1, <3>1
    <2>2. CASE n > 55
      <3>1. rlp_read(s, o, end) = LongElement(s, o, end, kind, l - 1)
        BY <1>3, <1>4, <2>2 DEF KindOf
      <3>2. be_bytes_to_u64(s, o + 2, l - 1) = n
        <4>1. CASE l = 2
          <5>1. s[o + 2] = n
            BY <2>2, <4>1 DEF IsHeader
          <5>2. be_bytes_to_u64(s, o + 2, 1) = s[o + 2]
            BY <5>1, OneByte
          <5>3. QED
            BY <4>1, <5>1, <5>2
        <4>2. CASE l = 3
          <5>1. s[o + 2] = n \div 256 /\ s[(o + 2) + 1] = n % 256
            BY <2>2, <4>2 DEF IsHeader
          <5>2. be_bytes_to_u64(s, o + 2, 2) = n
            BY <5>1, TwoBytes
          <5>3. QED
            BY <4>2, <5>2
        <4>3. QED
          BY <1>2, <2>2, <4>1, <4>2
      <3>3. LongElement(s, o, end, kind, l - 1) = Element(o, end, kind, 1 + (l - 1), n)
        BY <1>1, <3>2 DEF LongElement
      <3>4. QED
        BY <3>1, <3>3
    <2>3. QED
      BY <2>1, <2>2
  <1> HIDE DEF kind
  <1>6. QED
    BY <1>1, <1>5 DEF Element, Whole, kind

\* The bytes behind a header are read as one element, whatever their number.
LEMMA ReadHeader ==
    ASSUME NEW s \in Seq(Byte), NEW o \in Nat, NEW end \in Nat, end <= Len(s),
           NEW base \in {128, 192}, NEW x, Short(x),
           Lies(s, o, LengthHeader(base, Len(x)) \o x),
           o + Len(LengthHeader(base, Len(x)) \o x) <= end
    PROVE  \E at \in Nat :
              /\ at + Len(x) = o + Len(LengthHeader(base, Len(x)) \o x)
              /\ Lies(s, at, x)
              /\ rlp_read(s, o, end) = Whole(KindOf(base), at, Len(x))
  <1> DEFINE n == Len(x)
             h == LengthHeader(base, n)
             l == Len(h)
  <1>1. x \in Seq(Byte) /\ n \in Nat /\ n < U16
    BY DEF Short
  <1> HIDE DEF n
  <1>2. h \in Seq(Byte) /\ IsHeader(base, n, l, h[1], h[2], h[3])
    BY SMTT(60), <1>1, LengthHeaderForms
  <1>3. Lies(s, o, h \o x) /\ o + Len(h \o x) <= end
    BY DEF n
  <1> HIDE DEF h
  <1>4. Len(h \o x) = l + n /\ l \in Nat
    <2>1. Len(h \o x) = Len(h) + Len(x) /\ Len(h) \in Nat
      BY <1>1, <1>2
    <2>2. QED
      BY <2>1 DEF n
  <1>5. Lies(s, o, h) /\ Lies(s, o + l, x)
    BY <1>1, <1>2, <1>3, LiesJoin
  <1>6. \A k \in 1 .. l : s[o + k] = h[k]
    BY <1>5 DEF Lies
  <1> HIDE DEF l
  <1>7. l \in 1 .. 3 /\ o + l + n <= end
    BY <1>1, <1>2, <1>3, <1>4 DEF IsHeader
  <1>8. /\ s[o + 1] = h[1] /\ (l >= 2 => s[o + 2] = h[2])
        /\ (l >= 3 => s[(o + 2) + 1] = h[3])
    <2>1. (o + 2) + 1 = o + 3
      OBVIOUS
    <2>2. (l >= 2 => 2 \in 1 .. l) /\ (l >= 3 => 3 \in 1 .. l) /\ 1 \in 1 .. l
      BY <1>7
    <2>3. QED
      BY <1>6, <2>1, <2>2
  <1>9. IsHeader(base, n, l, s[o + 1], s[o + 2], s[(o + 2) + 1])
    BY SMTT(60), <1>1, <1>2, <1>8 DEF IsHeader
  <1>10. rlp_read(s, o, end) = Whole(KindOf(base), o + l, n)
    BY SMTT(60), <1>1, <1>7, <1>9, ReadPrefix
  <1>11. o + l \in Nat /\ o + l + n = o + Len(h \o x)
    BY <1>1, <1>4, <1>7
  <1>12. QED
    BY <1>5, <1>10, <1>11 DEF n, h

\* A string of any kind is read whole.
LEMMA ReadString ==
    ASSUME NEW s \in Seq(Byte), NEW o \in Nat, NEW end \in Nat, end <= Len(s),
           NEW x, Short(x), Lies(s, o, EncodeString(x)),
           o + Len(EncodeString(x)) <= end
    PROVE  /\ Reads(s, rlp_read(s, o, end), x)
           /\ rlp_read(s, o, end).next = o + Len(EncodeString(x))
  <1> DEFINE r == rlp_read(s, o, end)
  <1>1. CASE Len(x) = 1 /\ x[1] < 128
    <2>1. EncodeString(x) = x
      BY <1>1 DEF EncodeString
    <2>2. PICK b \in Nat : b = x[1]
      <3>1. x \in Seq(Byte) /\ 1 \in 1 .. Len(x)
        BY <1>1 DEF Short
      <3>2. x[1] \in Byte
        BY <3>1
      <3>3. QED
        BY <3>2, ByteRange
    <2>3. Lies(s, o, x) /\ o + 1 <= end
      BY <1>1, <2>1
    <2>4. s[o + 1] = b
      BY <1>1, <2>2, <2>3 DEF Lies
    <2>5. b <= 127 /\ ~(end - o < 1) /\ ~(end - o - 0 < 1)
      BY <1>1, <2>2, <2>3
    <2>6. r = Element(o, end, "RLP_KIND_BYTE", 0, 1)
      BY <2>4, <2>5 DEF rlp_read
    <2>7. r = [ok |-> TRUE, kind |-> "RLP_KIND_BYTE", at |-> o, len |-> 1,
               next |-> o + 1]
      BY <2>5, <2>6 DEF Element
    <2> HIDE DEF r
    <2>8. Reads(s, r, x) /\ r.next = o + Len(EncodeString(x))
      BY <1>1, <2>1, <2>3, <2>7 DEF Reads
    <2>9. QED
      BY <2>8 DEF r
  <1>2. CASE ~(Len(x) = 1 /\ x[1] < 128)
    <2>1. EncodeString(x) = LengthHeader(128, Len(x)) \o x
      BY <1>2 DEF EncodeString
    <2>2. PICK at \in Nat :
             /\ at + Len(x) = o + Len(EncodeString(x))
             /\ Lies(s, at, x)
             /\ r = Whole(KindOf(128), at, Len(x))
      BY <2>1, ReadHeader
    <2> HIDE DEF r
    <2>3. Reads(s, r, x) /\ r.next = o + Len(EncodeString(x))
      BY <2>2 DEF Reads, Whole, KindOf
    <2>4. QED
      BY <2>3 DEF r
  <1>3. QED
    BY <1>1, <1>2

\* A list is read as the context of its payload.
LEMMA ReadList ==
    ASSUME NEW s \in Seq(Byte), NEW o \in Nat, NEW end \in Nat, end <= Len(s),
           NEW x, Short(x), Lies(s, o, EncodeList(x)), o + Len(EncodeList(x)) <= end
    PROVE  LET r == rlp_read(s, o, end)
           IN  /\ r.ok /\ r.kind = "RLP_KIND_LIST"
               /\ r.at \in Nat /\ r.len = Len(x) /\ Lies(s, r.at, x)
               /\ r.next = r.at + r.len /\ r.next = o + Len(EncodeList(x))
  <1> DEFINE r == rlp_read(s, o, end)
  <1>1. PICK at \in Nat :
           /\ at + Len(x) = o + Len(EncodeList(x))
           /\ Lies(s, at, x)
           /\ r = Whole(KindOf(192), at, Len(x))
    BY ReadHeader DEF EncodeList
  <1> HIDE DEF r
  <1>2. /\ r.ok /\ r.kind = "RLP_KIND_LIST"
        /\ r.at \in Nat /\ r.len = Len(x) /\ Lies(s, r.at, x)
        /\ r.next = r.at + r.len /\ r.next = o + Len(EncodeList(x))
    BY <1>1 DEF Whole, KindOf
  <1>3. QED
    BY <1>2 DEF r

\* The next read takes the first of the strings ahead.
LEMMA ReadNext ==
    ASSUME NEW s \in Seq(Byte), NEW end \in Nat, end <= Len(s), NEW r, NEW x, Short(x),
           NEW rest \in Seq(Byte), Ahead(s, end, r, EncodeString(x) \o rest)
    PROVE  /\ Reads(s, ReadAfter(s, end, r), x)
           /\ Ahead(s, end, ReadAfter(s, end, r), rest)
  <1> DEFINE e == EncodeString(x)
             n == ReadAfter(s, end, r)
  <1>1. e \in Seq(Byte) /\ Len(e) \in Nat /\ Len(rest) \in Nat
    BY EncodeType
  <1>2. /\ r.ok /\ r.next \in Nat /\ Lies(s, r.next, e \o rest)
        /\ r.next + Len(e \o rest) = end
    BY DEF Ahead
  <1>3. Len(e \o rest) = Len(e) + Len(rest)
    BY <1>1
  <1>4. Lies(s, r.next, e) /\ Lies(s, r.next + Len(e), rest)
    BY <1>1, <1>2, LiesJoin
  <1>5. n = rlp_read(s, r.next, end)
    BY <1>2 DEF ReadAfter
  <1>6. r.next + Len(e) \in Nat /\ r.next + Len(e) <= end
        /\ r.next + Len(e) + Len(rest) = end
    <2> HIDE DEF e
    <2>1. QED
      BY <1>1, <1>2, <1>3
  <1>7. Reads(s, n, x) /\ n.next = r.next + Len(e)
    <2>1. r.next + Len(EncodeString(x)) <= end
      BY <1>6
    <2>2. QED
      BY <1>2, <1>4, <1>5, <2>1, ReadString
  <1> HIDE DEF e, n
  <1>8. Ahead(s, end, n, rest)
    BY <1>4, <1>6, <1>7 DEF Ahead, Reads
  <1>9. QED
    BY <1>7, <1>8 DEF n

-----------------------------------------------------------------------------
(* The fields of a transaction.                                            *)

LEMMA ThreeBytes ==
    ASSUME NEW s \in Seq(Byte), NEW o \in Nat,
           s[o] \in Nat, s[o + 1] \in Nat, s[o + 2] \in Nat
    PROVE  be_bytes_to_u64(s, o, 3) = 256 * (256 * s[o] + s[o + 1]) + s[o + 2]
  <1> DEFINE a == s[o]
             b == s[o + 1]
             c == s[o + 2]
  <1>1. a \in Nat /\ b \in Nat /\ c \in Nat /\ s[o + 0] = a /\ s[o + 1] = b /\ s[o + 2] = c
    OBVIOUS
  <1> HIDE DEF a, b, c
  <1>2. be_bytes_to_u64(s, o, 3) = 256 * (256 * a + b) + c
    BY <1>1 DEF be_bytes_to_u64
  <1>3. QED
    BY <1>2 DEF a, b, c

LEMMA ChainBytesShort ==
    ASSUME NEW id \in Nat, id < 256 * U16
    PROVE  Short(ChainBytes(id)) /\ Len(ChainBytes(id)) > 0
  <1>1. CASE id < U16
    <2>1. ChainBytes(id) = << id \div 256, id % 256 >>
      BY <1>1 DEF ChainBytes
    <2>2. id \div 256 \in Byte /\ id % 256 \in Byte
      BY <1>1, SMT DEF Byte, U16
    <2>3. 2 < U16
      BY SMT DEF U16
    <2>4. QED
      BY <2>1, <2>2, <2>3 DEF Short
  <1>2. CASE ~(id < U16)
    <2>1. ChainBytes(id) = << id \div U16, (id \div 256) % 256, id % 256 >>
      BY <1>2 DEF ChainBytes
    <2>2. id \div U16 \in Byte /\ (id \div 256) % 256 \in Byte /\ id % 256 \in Byte
      BY <1>2, SMT DEF Byte, U16
    <2>3. 3 < U16
      BY SMT DEF U16
    <2>4. QED
      BY <2>1, <2>2, <2>3 DEF Short
  <1>3. QED
    BY <1>1, <1>2

\* The chain id is decoded to the number that was encoded.
LEMMA ChainDecoded ==
    ASSUME NEW s \in Seq(Byte), NEW r, NEW id \in Nat, id < 256 * U16,
           Reads(s, r, ChainBytes(id))
    PROVE  DecodedChainId(s, r) = id
  <1> DEFINE o == r.at + 1
  <1>1. r.at \in Nat /\ r.len = Len(ChainBytes(id)) /\ Lies(s, r.at, ChainBytes(id))
    BY DEF Reads
  <1>2. CASE id < U16
    <2>1. ChainBytes(id) = << id \div 256, id % 256 >>
      BY <1>2 DEF ChainBytes
    <2>2. r.len = 2
      BY <1>1, <2>1
    <2>3. s[o] = id \div 256 /\ s[o + 1] = id % 256
      <3>1. \A k \in 1 .. 2 : s[r.at + k] = << id \div 256, id % 256 >>[k]
        BY <1>1, <2>1 DEF Lies
      <3>2. r.at + 2 = o + 1 /\ 1 \in 1 .. 2 /\ 2 \in 1 .. 2
        BY <1>1
      <3>3. QED
        BY <3>1, <3>2
    <2>4. o \in Nat
      BY <1>1
    <2>5. be_bytes_to_u64(s, o, 2) = id
      BY <1>2, <2>3, <2>4, TwoBytes
    <2>6. DecodedChainId(s, r) = be_bytes_to_u64(s, o, 2)
      <3>1. r.len % 256 = 2 /\ r.len > 1 /\ 2 \in 1 .. 8
        BY <2>2
      <3>2. QED
        BY <3>1 DEF DecodedChainId
    <2>7. QED
      BY <2>5, <2>6
  <1>3. CASE ~(id < U16)
    <2>1. ChainBytes(id) = << id \div U16, (id \div 256) % 256, id % 256 >>
      BY <1>3 DEF ChainBytes
    <2>2. r.len = 3
      BY <1>1, <2>1
    <2>3. /\ s[o] = id \div U16 /\ s[o + 1] = (id \div 256) % 256
          /\ s[o + 2] = id % 256
      <3>1. \A k \in 1 .. 3 : s[r.at + k] =
               << id \div U16, (id \div 256) % 256, id % 256 >>[k]
        BY <1>1, <2>1 DEF Lies
      <3>2. /\ r.at + 2 = o + 1 /\ r.at + 3 = o + 2
            /\ 1 \in 1 .. 3 /\ 2 \in 1 .. 3 /\ 3 \in 1 .. 3
        BY <1>1
      <3>3. QED
        BY <3>1, <3>2
    <2>4. o \in Nat
      BY <1>1
    <2>5. /\ id \div U16 \in Nat /\ (id \div 256) % 256 \in Nat /\ id % 256 \in Nat
          /\ 256 * (256 * (id \div U16) + ((id \div 256) % 256)) + (id % 256) = id
      <3> DEFINE q == id \div 256
                 a == q \div 256
                 b == q % 256
                 c == id % 256
      <3>1. q \in Nat /\ c \in 0 .. 255 /\ id = 256 * q + c
        OBVIOUS
      <3> HIDE DEF q, c
      <3>2. a \in Nat /\ b \in 0 .. 255 /\ q = 256 * a + b
        BY <3>1
      <3> HIDE DEF a, b
      <3>3. id \div U16 = a
        BY <3>1, <3>2, SMT DEF U16
      <3>4. id \div U16 \in Nat /\ 256 * (256 * (id \div U16) + b) + c = id
        BY <3>1, <3>2, <3>3
      <3>5. QED
        BY <3>1, <3>2, <3>4 DEF b, c, q
    <2>6. be_bytes_to_u64(s, o, 3) =
             256 * (256 * (id \div U16) + ((id \div 256) % 256)) + (id % 256)
      <3> HIDE DEF o
      <3>1. s[o] \in Nat /\ s[o + 1] \in Nat /\ s[o + 2] \in Nat
        BY <2>3, <2>5
      <3>2. be_bytes_to_u64(s, o, 3) = 256 * (256 * s[o] + s[o + 1]) + s[o + 2]
        BY <2>4, <3>1, ThreeBytes
      <3>3. QED
        BY ZenonT(60), <2>3, <3>2
    <2>7. DecodedChainId(s, r) = be_bytes_to_u64(s, o, 3)
      <3>1. r.len % 256 = 3 /\ r.len > 1 /\ 3 \in 1 .. 8
        BY <2>2
      <3>2. QED
        BY <3>1 DEF DecodedChainId
    <2>8. QED
      BY <2>5, <2>6, <2>7
  <1>4. QED
    BY <1>2, <1>3

\* The field f of eth_tx_obj is the string x.
FieldIs(s, f, x) ==
    f.kind # "RLP_KIND_LIST" /\ f.at \in Nat /\ f.len = Len(x) /\ Lies(s, f.at, x)

\* The object o, filled from the bytes s, is the transaction t.
Means(s, o, t) ==
    /\ o.tx_type = t.type /\ o.chainId = t.chainId
    /\ FieldIs(s, o.tx.nonce, t.nonce) /\ FieldIs(s, o.tx.gasLimit, t.gasLimit)
    /\ FieldIs(s, o.tx.to, t.to) /\ FieldIs(s, o.tx.value, t.value)
    /\ FieldIs(s, o.tx.data, t.data)
    /\ t.type # "eip1559" => FieldIs(s, o.tx.gasPrice, t.fees[1])
    /\ t.type = "eip1559" => /\ FieldIs(s, o.tx.max_priority_fee_per_gas, t.fees[1])
                             /\ FieldIs(s, o.tx.max_fee_per_gas, t.fees[2])

\* What is known of a transaction that a host sends.
Sendable(t) ==
    /\ t.type \in {"legacy", "eip2930", "eip1559"}
    /\ t.chainId \in Nat /\ t.chainId < 256 * U16
    /\ Short(t.fees[1]) /\ (t.type = "eip1559" => Short(t.fees[2]))
    /\ Short(t.nonce) /\ Short(t.gasLimit) /\ Short(t.to) /\ Short(t.value) /\ Short(t.data)

LEMMA EndType ==
    ASSUME NEW t, Sendable(t), NEW rest \in Seq(Byte)
    PROVE  EndOf(t, rest) \in Seq(Byte)
  <1>1. /\ EncodeString(t.gasLimit) \in Seq(Byte) /\ EncodeString(t.to) \in Seq(Byte)
        /\ EncodeString(t.value) \in Seq(Byte) /\ EncodeString(t.data) \in Seq(Byte)
    BY EncodeType DEF Sendable
  <1>2. \A x \in Seq(Byte), y \in Seq(Byte) : x \o y \in Seq(Byte)
    OBVIOUS
  <1>3. QED
    BY <1>1, <1>2, Zenon DEF EndOf

LEMMA TailReads ==
    ASSUME NEW s \in Seq(Byte), NEW end \in Nat, end <= Len(s), NEW fee,
           NEW t, Sendable(t), NEW rest \in Seq(Byte),
           Ahead(s, end, fee, EndOf(t, rest))
    PROVE  LET tail == TypedTail(s, end, fee)
           IN  /\ Reads(s, tail.gasLimit, t.gasLimit) /\ Reads(s, tail.to, t.to)
               /\ Reads(s, tail.value, t.value) /\ Reads(s, tail.data, t.data)
               /\ Ahead(s, end, tail.data, rest)
               /\ tail.access_list = ReadAfter(s, end, tail.data)
  <1> DEFINE gasLimit == ReadAfter(s, end, fee)
             to       == ReadAfter(s, end, gasLimit)
             value    == ReadAfter(s, end, to)
             data     == ReadAfter(s, end, value)
             access   == ReadAfter(s, end, data)
             d4       == EncodeString(t.data) \o rest
             d3       == EncodeString(t.value) \o d4
             d2       == EncodeString(t.to) \o d3
  <1>1. TypedTail(s, end, fee) =
           [gasLimit |-> gasLimit, to |-> to, value |-> value, data |-> data,
            access_list |-> access]
    BY DEF TypedTail
  <1>2. /\ Short(t.gasLimit) /\ Short(t.to) /\ Short(t.value) /\ Short(t.data)
    BY DEF Sendable
  <1>3. Ahead(s, end, fee, EncodeString(t.gasLimit) \o d2)
    BY DEF EndOf
  <1>4. /\ EncodeString(t.gasLimit) \in Seq(Byte) /\ EncodeString(t.to) \in Seq(Byte)
        /\ EncodeString(t.value) \in Seq(Byte) /\ EncodeString(t.data) \in Seq(Byte)
    BY <1>2, EncodeType
  <1>5. d4 \in Seq(Byte)
    BY <1>4
  <1>6. d4 \in Seq(Byte) => d3 \in Seq(Byte)
    BY <1>4
  <1>7. d3 \in Seq(Byte) => d2 \in Seq(Byte)
    BY <1>4
  <1>8. Reads(s, gasLimit, t.gasLimit) /\ Ahead(s, end, gasLimit, d2)
    BY <1>2, <1>3, <1>5, <1>6, <1>7, ReadNext
  <1> HIDE DEF gasLimit
  <1>9. Reads(s, to, t.to) /\ Ahead(s, end, to, d3)
    BY <1>2, <1>5, <1>6, <1>8, ReadNext
  <1> HIDE DEF to
  <1>10. Reads(s, value, t.value) /\ Ahead(s, end, value, d4)
    BY <1>2, <1>5, <1>9, ReadNext
  <1> HIDE DEF value
  <1>11. Reads(s, data, t.data) /\ Ahead(s, end, data, rest)
    BY <1>2, <1>10, ReadNext
  <1> HIDE DEF data
  <1>12. QED
    BY <1>1, <1>8, <1>9, <1>10, <1>11

\* The fields of the object are the elements that were read.
LEMMA ParsedField ==
    ASSUME NEW s, NEW ok, NEW type, NEW chain, NEW elements, NEW f \in FieldNames,
           f \in DOMAIN elements, NEW x, Reads(s, elements[f], x)
    PROVE  FieldIs(s, Parsed(s, ok, type, chain, elements).tx.tx[f], x)
  <1> DEFINE field(g) == IF g \in DOMAIN elements /\ elements[g].ok
                         THEN [kind |-> elements[g].kind, at |-> elements[g].at,
                               len |-> elements[g].len]
                         ELSE ZeroField
  <1>1. Parsed(s, ok, type, chain, elements).tx.tx = [g \in FieldNames |-> field(g)]
    BY DEF Parsed, ZeroTx
  <1>2. Parsed(s, ok, type, chain, elements).tx.tx[f] =
           [kind |-> elements[f].kind, at |-> elements[f].at, len |-> elements[f].len]
    BY <1>1 DEF Reads
  <1>3. QED
    BY <1>2 DEF Reads, FieldIs

LEMMA ParsedRest ==
    ASSUME NEW s, NEW ok, NEW type, NEW chain, NEW elements
    PROVE  LET p == Parsed(s, ok, type, chain, elements)
           IN  /\ p.ok = ok /\ p.tx.tx_type = type
               /\ p.tx.chainId = IF chain.ok THEN DecodedChainId(s, chain) ELSE 0
  BY DEF Parsed, ZeroTx

\* The chain id is the first element of a typed transaction; if it is refused
\* nothing is read behind it.
LEMMA ChainRead ==
    ASSUME NEW s \in Seq(Byte), NEW end \in Nat, end <= Len(s), NEW r,
           NEW id \in Nat, id < 256 * U16, NEW rest \in Seq(Byte),
           Ahead(s, end, r, EncodeString(ChainBytes(id)) \o rest)
    PROVE  LET chain == readChainID(s, r.next, end)
           IN  \/ chain = RlpFailed
               \/ /\ chain.ok /\ DecodedChainId(s, chain) = id
                  /\ Ahead(s, end, chain, rest)
  <1> DEFINE e == rlp_read(s, r.next, end)
  <1>1. Short(ChainBytes(id))
    BY ChainBytesShort
  <1>2. ReadAfter(s, end, r) = e
    BY DEF Ahead, ReadAfter
  <1>3. Reads(s, e, ChainBytes(id)) /\ Ahead(s, end, e, rest)
    BY <1>1, <1>2, ReadNext
  <1>4. readChainID(s, r.next, end) \in {e, RlpFailed}
    BY DEF readChainID
  <1> HIDE DEF e
  <1>5. e.ok /\ DecodedChainId(s, e) = id
    BY <1>3, ChainDecoded DEF Reads
  <1>6. QED
    BY <1>3, <1>4, <1>5

\* Nothing is read behind a failure.
LEMMA FailedReads ==
    ASSUME NEW s, NEW end
    PROVE  ReadAfter(s, end, RlpFailed) = RlpFailed /\ ~RlpFailed.ok
  BY DEF ReadAfter, RlpFailed

LEMMA FailedTail ==
    ASSUME NEW s, NEW end
    PROVE  ~TypedEnds(TypedTail(s, end, RlpFailed), end)
  <1>1. TypedTail(s, end, RlpFailed).access_list = RlpFailed
    BY FailedReads DEF TypedTail
  <1>2. QED
    BY <1>1, FailedReads DEF TypedEnds

\* A reader before its first element.
Start(o) == [ok |-> TRUE, next |-> o]

LEMMA StartReads ==
    ASSUME NEW s, NEW end, NEW o
    PROVE  Start(o).next = o /\ ReadAfter(s, end, Start(o)) = rlp_read(s, o, end)
  BY DEF Start, ReadAfter

LEMMA Means2930 ==
    ASSUME NEW s \in Seq(Byte), NEW o \in Nat, NEW end \in Nat, end <= Len(s),
           NEW t, Sendable(t), t.type = "eip2930", NEW rest \in Seq(Byte),
           Ahead(s, end, Start(o), EncodeString(ChainBytes(t.chainId))
                 \o (EncodeString(t.nonce) \o (EncodeString(t.fees[1]) \o EndOf(t, rest)))),
           parse_2930(s, o, end).ok
    PROVE  Means(s, parse_2930(s, o, end).tx, t)
  <1> DEFINE chain    == readChainID(s, o, end)
             nonce    == ReadAfter(s, end, chain)
             gasPrice == ReadAfter(s, end, nonce)
             tail     == TypedTail(s, end, gasPrice)
             elements == [nonce |-> nonce, gasPrice |-> gasPrice,
                          gasLimit |-> tail.gasLimit, to |-> tail.to,
                          value |-> tail.value, data |-> tail.data,
                          access_list |-> tail.access_list]
             p        == Parsed(s, TypedEnds(tail, end), "eip2930", chain, elements)
             b2       == EndOf(t, rest)
             b1       == EncodeString(t.fees[1]) \o b2
             b0       == EncodeString(t.nonce) \o b1
  <1>1. parse_2930(s, o, end) = p
    BY DEF parse_2930
  <1>2. Short(t.nonce) /\ Short(t.fees[1])
    BY DEF Sendable
  <1>3. b2 \in Seq(Byte)
    BY EndType
  <1>4. EncodeString(t.nonce) \in Seq(Byte) /\ EncodeString(t.fees[1]) \in Seq(Byte)
    BY <1>2, EncodeType
  <1> HIDE DEF b2
  <1>5. b1 \in Seq(Byte)
    BY <1>3, <1>4
  <1> HIDE DEF b1
  <1>6. b0 \in Seq(Byte)
    BY <1>4, <1>5
  <1> HIDE DEF b0
  <1>7. Ahead(s, end, Start(o), EncodeString(ChainBytes(t.chainId)) \o b0)
    BY DEF b0, b1, b2
  <1>8. TypedEnds(tail, end)
    BY <1>1, ParsedRest
  <1>9. chain # RlpFailed
    BY <1>8, FailedReads, FailedTail
  <1>10. chain.ok /\ DecodedChainId(s, chain) = t.chainId /\ Ahead(s, end, chain, b0)
    <2>1. chain = readChainID(s, Start(o).next, end)
      BY StartReads
    <2>2. t.chainId \in Nat /\ t.chainId < 256 * U16
      BY DEF Sendable
    <2> HIDE DEF chain
    <2>3. QED
      BY <1>6, <1>7, <1>9, <2>1, <2>2, ChainRead
  <1> HIDE DEF chain
  <1>11. Reads(s, nonce, t.nonce) /\ Ahead(s, end, nonce, b1)
    BY <1>2, <1>5, <1>10, ReadNext DEF b0
  <1> HIDE DEF nonce
  <1>12. Reads(s, gasPrice, t.fees[1]) /\ Ahead(s, end, gasPrice, b2)
    BY <1>2, <1>3, <1>11, ReadNext DEF b1
  <1> HIDE DEF gasPrice
  <1>13. /\ Reads(s, tail.gasLimit, t.gasLimit) /\ Reads(s, tail.to, t.to)
         /\ Reads(s, tail.value, t.value) /\ Reads(s, tail.data, t.data)
    BY <1>12, TailReads DEF b2
  <1> HIDE DEF tail
  <1>14. /\ elements.nonce = nonce /\ elements.gasPrice = gasPrice
         /\ elements.gasLimit = tail.gasLimit /\ elements.to = tail.to
         /\ elements.value = tail.value /\ elements.data = tail.data
         /\ {"nonce", "gasPrice", "gasLimit", "to", "value", "data"}
               \subseteq DOMAIN elements
         /\ {"nonce", "gasPrice", "gasLimit", "to", "value", "data"} \subseteq FieldNames
    BY DEF FieldNames
  <1> HIDE DEF elements
  <1>15. /\ FieldIs(s, p.tx.tx.nonce, t.nonce) /\ FieldIs(s, p.tx.tx.gasPrice, t.fees[1])
         /\ FieldIs(s, p.tx.tx.gasLimit, t.gasLimit) /\ FieldIs(s, p.tx.tx.to, t.to)
         /\ FieldIs(s, p.tx.tx.value, t.value) /\ FieldIs(s, p.tx.tx.data, t.data)
    BY <1>11, <1>12, <1>13, <1>14, ParsedField
  <1>16. p.tx.tx_type = t.type /\ p.tx.chainId = t.chainId
    BY <1>10, ParsedRest
  <1> HIDE DEF p
  <1>17. QED
    BY <1>1, <1>15, <1>16 DEF Means

LEMMA Means1559 ==
    ASSUME NEW s \in Seq(Byte), NEW o \in Nat, NEW end \in Nat, end <= Len(s),
           NEW t, Sendable(t), t.type = "eip1559", NEW rest \in Seq(Byte),
           Ahead(s, end, Start(o), EncodeString(ChainBytes(t.chainId))
                 \o (EncodeString(t.nonce) \o (EncodeString(t.fees[1])
                 \o (EncodeString(t.fees[2]) \o EndOf(t, rest))))),
           parse_1559(s, o, end).ok
    PROVE  Means(s, parse_1559(s, o, end).tx, t)
  <1> DEFINE chain    == readChainID(s, o, end)
             nonce    == ReadAfter(s, end, chain)
             priority == ReadAfter(s, end, nonce)
             fee      == ReadAfter(s, end, priority)
             tail     == TypedTail(s, end, fee)
             elements == [nonce |-> nonce, max_priority_fee_per_gas |-> priority,
                          max_fee_per_gas |-> fee,
                          gasLimit |-> tail.gasLimit, to |-> tail.to,
                          value |-> tail.value, data |-> tail.data,
                          access_list |-> tail.access_list]
             p        == Parsed(s, TypedEnds(tail, end), "eip1559", chain, elements)
             b3       == EndOf(t, rest)
             b2       == EncodeString(t.fees[2]) \o b3
             b1       == EncodeString(t.fees[1]) \o b2
             b0       == EncodeString(t.nonce) \o b1
  <1>1. parse_1559(s, o, end) = p
    BY DEF parse_1559
  <1>2. Short(t.nonce) /\ Short(t.fees[1]) /\ Short(t.fees[2])
    BY DEF Sendable
  <1>3. b3 \in Seq(Byte)
    BY EndType
  <1>4. /\ EncodeString(t.nonce) \in Seq(Byte)
        /\ EncodeString(t.fees[1]) \in Seq(Byte) /\ EncodeString(t.fees[2]) \in Seq(Byte)
    BY <1>2, EncodeType
  <1> HIDE DEF b3
  <1>5. b2 \in Seq(Byte)
    BY <1>3, <1>4
  <1> HIDE DEF b2
  <1>6. b1 \in Seq(Byte)
    BY <1>4, <1>5
  <1> HIDE DEF b1
  <1>7. b0 \in Seq(Byte)
    BY <1>4, <1>6
  <1> HIDE DEF b0
  <1>8. Ahead(s, end, Start(o), EncodeString(ChainBytes(t.chainId)) \o b0)
    BY DEF b0, b1, b2, b3
  <1>9. TypedEnds(tail, end)
    BY <1>1, ParsedRest
  <1>10. chain # RlpFailed
    BY <1>9, FailedReads, FailedTail
  <1>11. chain.ok /\ DecodedChainId(s, chain) = t.chainId /\ Ahead(s, end, chain, b0)
    <2>1. chain = readChainID(s, Start(o).next, end)
      BY StartReads
    <2>2. t.chainId \in Nat /\ t.chainId < 256 * U16
      BY DEF Sendable
    <2> HIDE DEF chain
    <2>3. QED
      BY <1>7, <1>8, <1>10, <2>1, <2>2, ChainRead
  <1> HIDE DEF chain
  <1>12. Reads(s, nonce, t.nonce) /\ Ahead(s, end, nonce, b1)
    BY <1>2, <1>6, <1>11, ReadNext DEF b0
  <1> HIDE DEF nonce
  <1>13. Reads(s, priority, t.fees[1]) /\ Ahead(s, end, priority, b2)
    BY <1>2, <1>5, <1>12, ReadNext DEF b1
  <1> HIDE DEF priority
  <1>14. Reads(s, fee, t.fees[2]) /\ Ahead(s, end, fee, b3)
    BY <1>2, <1>3, <1>13, ReadNext DEF b2
  <1> HIDE DEF fee
  <1>15. /\ Reads(s, tail.gasLimit, t.gasLimit) /\ Reads(s, tail.to, t.to)
         /\ Reads(s, tail.value, t.value) /\ Reads(s, tail.data, t.data)
    BY <1>14, TailReads DEF b3
  <1> HIDE DEF tail
  <1> DEFINE fields == {"nonce", "max_priority_fee_per_gas", "max_fee_per_gas",
                        "gasLimit", "to", "value", "data"}
  <1>16. /\ elements.nonce = nonce
         /\ elements.max_priority_fee_per_gas = priority
         /\ elements.max_fee_per_gas = fee
         /\ elements.gasLimit = tail.gasLimit /\ elements.to = tail.to
         /\ elements.value = tail.value /\ elements.data = tail.data
         /\ fields \subseteq DOMAIN elements /\ fields \subseteq FieldNames
    BY DEF FieldNames
  <1> HIDE DEF elements
  <1>17. /\ FieldIs(s, p.tx.tx.nonce, t.nonce)
         /\ FieldIs(s, p.tx.tx.max_priority_fee_per_gas, t.fees[1])
         /\ FieldIs(s, p.tx.tx.max_fee_per_gas, t.fees[2])
         /\ FieldIs(s, p.tx.tx.gasLimit, t.gasLimit) /\ FieldIs(s, p.tx.tx.to, t.to)
         /\ FieldIs(s, p.tx.tx.value, t.value) /\ FieldIs(s, p.tx.tx.data, t.data)
    BY <1>12, <1>13, <1>14, <1>15, <1>16, ParsedField
  <1>18. p.tx.tx_type = t.type /\ p.tx.chainId = t.chainId
    BY <1>11, ParsedRest
  <1> HIDE DEF p
  <1>19. QED
    BY <1>1, <1>17, <1>18 DEF Means

\* A legacy transaction ends behind its data, or goes on with its chain id.
LEMMA MeansLegacy ==
    ASSUME NEW s \in Seq(Byte), NEW o \in Nat, NEW end \in Nat, end <= Len(s),
           NEW t, Sendable(t), t.type = "legacy", NEW rest \in Seq(Byte),
           Ahead(s, end, Start(o), EncodeString(t.nonce)
                 \o (EncodeString(t.fees[1]) \o EndOf(t, rest))),
           \/ t.chainId = 0 /\ rest = << >>
           \/ \E signature \in Seq(Byte) :
                 rest = EncodeString(ChainBytes(t.chainId)) \o signature,
           parse_legacy_tx(s, o, end).ok
    PROVE  Means(s, parse_legacy_tx(s, o, end).tx, t)
  <1> DEFINE nonce    == rlp_read(s, o, end)
             gasPrice == ReadAfter(s, end, nonce)
             tail     == TypedTail(s, end, gasPrice)
             bare     == tail.data.ok /\ tail.data.next = end
             chain    == IF tail.data.ok /\ ~bare
                         THEN readChainID(s, tail.data.next, end) ELSE RlpFailed
             sig_r    == ReadAfter(s, end, chain)
             sig_s    == ReadAfter(s, end, sig_r)
             elements == [nonce |-> nonce, gasPrice |-> gasPrice,
                          gasLimit |-> tail.gasLimit, to |-> tail.to,
                          value |-> tail.value, data |-> tail.data]
             p        == Parsed(s, bare \/ EmptySignature(s, sig_r, sig_s), "legacy",
                                chain, elements)
             b2       == EndOf(t, rest)
             b1       == EncodeString(t.fees[1]) \o b2
  <1>1. parse_legacy_tx(s, o, end) = p
    BY DEF parse_legacy_tx, TypedTail
  <1>2. Short(t.nonce) /\ Short(t.fees[1])
    BY DEF Sendable
  <1>3. b2 \in Seq(Byte)
    BY EndType
  <1>4. EncodeString(t.nonce) \in Seq(Byte) /\ EncodeString(t.fees[1]) \in Seq(Byte)
    BY <1>2, EncodeType
  <1> HIDE DEF b2
  <1>5. b1 \in Seq(Byte)
    BY <1>3, <1>4
  <1> HIDE DEF b1
  <1>6. Ahead(s, end, Start(o), EncodeString(t.nonce) \o b1)
    BY DEF b1, b2
  <1>7. Reads(s, nonce, t.nonce) /\ Ahead(s, end, nonce, b1)
    BY <1>2, <1>5, <1>6, ReadNext, StartReads
  <1> HIDE DEF nonce
  <1>8. Reads(s, gasPrice, t.fees[1]) /\ Ahead(s, end, gasPrice, b2)
    BY <1>2, <1>3, <1>7, ReadNext DEF b1
  <1> HIDE DEF gasPrice
  <1>9. /\ Reads(s, tail.gasLimit, t.gasLimit) /\ Reads(s, tail.to, t.to)
        /\ Reads(s, tail.value, t.value) /\ Reads(s, tail.data, t.data)
        /\ Ahead(s, end, tail.data, rest)
    BY <1>8, TailReads DEF b2
  <1> HIDE DEF tail
  <1>10. bare \/ EmptySignature(s, sig_r, sig_s)
    <2> DEFINE accepts == bare \/ EmptySignature(s, sig_r, sig_s)
    <2>1. p = Parsed(s, accepts, "legacy", chain, elements)
      OBVIOUS
    <2> HIDE DEF accepts, p, elements, chain
    <2>2. p.ok = accepts
      BY <2>1, ParsedRest
    <2>3. QED
      BY <1>1, <2>2 DEF accepts
  <1>11. t.chainId = IF chain.ok THEN DecodedChainId(s, chain) ELSE 0
    <2>1. tail.data.ok /\ tail.data.next \in Nat /\ tail.data.next + Len(rest) = end
      BY <1>9 DEF Ahead
    <2>2. CASE t.chainId = 0 /\ rest = << >>
      <3>1. tail.data.next = end
        BY <2>1, <2>2
      <3>2. QED
        BY <2>1, <2>2, <3>1, FailedReads
    <2>3. ASSUME NEW signature \in Seq(Byte),
                 rest = EncodeString(ChainBytes(t.chainId)) \o signature
          PROVE  t.chainId = IF chain.ok THEN DecodedChainId(s, chain) ELSE 0
      <3>1. t.chainId \in Nat /\ t.chainId < 256 * U16
        BY DEF Sendable
      <3>2. Len(rest) > 0
        <4>1. /\ EncodeString(ChainBytes(t.chainId)) \in Seq(Byte)
              /\ Len(EncodeString(ChainBytes(t.chainId))) >= 1
          BY <3>1, ChainBytesShort, EncodeType
        <4>2. QED
          BY <2>3, <4>1
      <3>3. tail.data.next # end
        BY <2>1, <3>2
      <3>4. chain = readChainID(s, tail.data.next, end)
        BY <2>1, <3>3
      <3>5. EmptySignature(s, sig_r, sig_s)
        BY <1>10, <3>3
      <3>6. chain # RlpFailed
        BY <3>5, FailedReads DEF EmptySignature
      <3>7. \/ chain = RlpFailed
            \/ chain.ok /\ DecodedChainId(s, chain) = t.chainId
        BY <1>9, <2>3, <3>1, <3>4, ChainRead
      <3> HIDE DEF chain
      <3>8. QED
        BY <3>6, <3>7
    <2>4. QED
      BY <2>2, <2>3
  <1>12. /\ elements.nonce = nonce /\ elements.gasPrice = gasPrice
         /\ elements.gasLimit = tail.gasLimit /\ elements.to = tail.to
         /\ elements.value = tail.value /\ elements.data = tail.data
         /\ DOMAIN elements = {"nonce", "gasPrice", "gasLimit", "to", "value", "data"}
         /\ DOMAIN elements \subseteq FieldNames
    BY DEF FieldNames
  <1> HIDE DEF elements, chain, bare, sig_r, sig_s
  <1>13. /\ FieldIs(s, p.tx.tx.nonce, t.nonce) /\ FieldIs(s, p.tx.tx.gasPrice, t.fees[1])
         /\ FieldIs(s, p.tx.tx.gasLimit, t.gasLimit) /\ FieldIs(s, p.tx.tx.to, t.to)
         /\ FieldIs(s, p.tx.tx.value, t.value) /\ FieldIs(s, p.tx.tx.data, t.data)
    BY <1>7, <1>8, <1>9, <1>12, ParsedField
  <1>14. p.tx.tx_type = t.type /\ p.tx.chainId = t.chainId
    BY <1>11, ParsedRest
  <1> HIDE DEF p
  <1>15. QED
    BY <1>1, <1>13, <1>14 DEF Means

\* A list is longer than what is in it.
LEMMA ListLonger ==
    ASSUME NEW b \in Seq(Byte)
    PROVE  /\ EncodeList(b) \in Seq(Nat) /\ Len(EncodeList(b)) >= Len(b)
           /\ \A k \in Nat : /\ << k >> \o EncodeList(b) \in Seq(Nat)
                             /\ Len(<< k >> \o EncodeList(b)) >= Len(b)
  <1>1. b \in Seq(Nat)
    <2>1. \A k \in 1 .. Len(b) : b[k] \in Nat
      <3>1. \A k \in 1 .. Len(b) : b[k] \in Byte
        OBVIOUS
      <3>2. QED
        BY <3>1, ByteRange
    <2>3. QED
      BY <2>1
  <1> DEFINE h == LengthHeader(192, Len(b))
  <1>2. h \in Seq(Nat)
    <2>1. Len(b) \in Nat /\ Len(b) \div 256 \in Nat /\ Len(b) % 256 \in Nat
      OBVIOUS
    <2>2. 192 + Len(b) \in Nat
      BY <2>1
    <2>3. /\ << 192 + Len(b) >> \in Seq(Nat) /\ << 192 + 56, Len(b) >> \in Seq(Nat)
          /\ << 192 + 57, Len(b) \div 256, Len(b) % 256 >> \in Seq(Nat)
      BY <2>1, <2>2
    <2>4. h \in {<< 192 + Len(b) >>, << 192 + 56, Len(b) >>,
                 << 192 + 57, Len(b) \div 256, Len(b) % 256 >>}
      BY ZenonT(60) DEF LengthHeader
    <2> HIDE DEF h
    <2>5. QED
      BY ZenonT(60), <2>3, <2>4
  <1> HIDE DEF h
  <1>3. h \o b \in Seq(Nat) /\ Len(h \o b) >= Len(b)
    BY <1>1, <1>2
  <1>4. EncodeList(b) = h \o b
    BY DEF EncodeList, h
  <1>5. \A k \in Nat : /\ << k >> \o (h \o b) \in Seq(Nat)
                       /\ Len(<< k >> \o (h \o b)) >= Len(b)
    BY <1>1, <1>3
  <1>6. QED
    BY <1>3, <1>4, <1>5

\* What is in a transaction is no longer than the transaction.
LEMMA BodyShort ==
    ASSUME NEW b \in Seq(Byte), NEW s, Len(s) < U16,
           s = EncodeList(b) \/ \E k \in Nat : s = << k >> \o EncodeList(b)
    PROVE  Short(b)
  <1>1. s \in Seq(Nat) /\ Len(s) >= Len(b)
    BY ListLonger
  <1>2. U16 \in Nat
    BY DEF U16
  <1>3. Len(s) \in Nat /\ Len(b) \in Nat
    BY <1>1
  <1>4. Len(b) < U16
    BY <1>1, <1>2, <1>3
  <1>5. QED
    BY <1>4 DEF Short

\* A buffer that holds one list opens it as the parser's context.
LEMMA ListOpens ==
    ASSUME NEW s \in Seq(Byte), NEW b, Short(b), VersionLen(s) \in Nat,
           Lies(s, VersionLen(s), EncodeList(b)),
           VersionLen(s) + Len(EncodeList(b)) = Len(s)
    PROVE  LET list == rlp_read(s, VersionLen(s), Len(s))
           IN  /\ IsWholeList(s, list) /\ list.at \in Nat
               /\ list.at + list.len = Len(s)
               /\ Ahead(s, Len(s), Start(list.at), b)
  <1> DEFINE list == rlp_read(s, VersionLen(s), Len(s))
  <1>1. Len(s) \in Nat
    OBVIOUS
  <1>2. VersionLen(s) + Len(EncodeList(b)) <= Len(s) /\ Len(s) <= Len(s)
    BY <1>1
  <1>3. /\ list.ok /\ list.kind = "RLP_KIND_LIST"
        /\ list.at \in Nat /\ list.len = Len(b) /\ Lies(s, list.at, b)
        /\ list.next = list.at + list.len /\ list.next = Len(s)
    BY <1>1, <1>2, ReadList
  <1> HIDE DEF list
  <1>4. IsWholeList(s, list) /\ Ahead(s, Len(s), Start(list.at), b)
    BY <1>3 DEF IsWholeList, Ahead, Start
  <1>5. QED
    BY <1>3, <1>4 DEF list

\* The type byte of a typed transaction, and the list behind it.
LEMMA TypedStart ==
    ASSUME NEW k \in {1, 2}, NEW b, Short(b), NEW s, s = << k >> \o EncodeList(b)
    PROVE  /\ s \in Seq(Byte) /\ s # << >> /\ s[1] = k /\ VersionLen(s) = 1
           /\ Lies(s, 1, EncodeList(b)) /\ 1 + Len(EncodeList(b)) = Len(s)
  <1> DEFINE e == EncodeList(b)
  <1>1. e \in Seq(Byte) /\ Len(e) \in Nat
    BY EncodeType
  <1>2. << k >> \in Seq(Byte) /\ Len(<< k >>) = 1 /\ << k >>[1] = k
    BY DEF Byte
  <1> HIDE DEF e
  <1>3. /\ s \in Seq(Byte) /\ Len(s) = 1 + Len(e) /\ s[1] = k
        /\ \A i \in 1 .. Len(e) : s[1 + i] = e[i]
    <2>1. s = << k >> \o e
      BY DEF e
    <2>2. PICK h \in Seq(Byte) : h = << k >>
      BY <1>2
    <2>3. s = h \o e /\ Len(h) = 1 /\ h[1] = k
      BY <1>2, <2>1, <2>2, Zenon
    <2> HIDE DEF e
    <2>4. /\ h \o e \in Seq(Byte) /\ Len(h \o e) = Len(h) + Len(e)
          /\ Len(h) = 1 => (h \o e)[1] = h[1]
          /\ \A i \in 1 .. Len(e) : (h \o e)[Len(h) + i] = e[i]
      BY <1>1
    <2>5. QED
      BY <2>3, <2>4
  <1>4. VersionLen(s) = 1
    BY <1>3 DEF VersionLen
  <1>5. QED
    BY <1>1, <1>3, <1>4 DEF Lies, e

LEMMA LegacyStart ==
    ASSUME NEW b, Short(b), NEW s, s = EncodeList(b)
    PROVE  /\ s \in Seq(Byte) /\ s # << >> /\ s[1] >= 192 /\ VersionLen(s) = 0
           /\ Lies(s, 0, EncodeList(b)) /\ 0 + Len(EncodeList(b)) = Len(s)
  <1>1. s \in Seq(Byte) /\ Len(s) \in Nat /\ Len(s) >= 1 /\ s[1] >= 192
    <2>1. Len(b) \in Nat
      BY DEF Short
    <2>2. QED
      BY <2>1, EncodeType
  <1>2. VersionLen(s) = 0
    <2>1. PICK p \in Nat : p = s[1]
      <3>1. s[1] \in Byte
        BY <1>1
      <3>2. QED
        BY <3>1, ByteRange
    <2>2. p # 1 /\ p # 2
      BY <1>1, <2>1
    <2>3. QED
      BY <2>1, <2>2 DEF VersionLen
  <1>3. QED
    BY <1>1, <1>2 DEF Lies

LEMMA TransactionSendable ==
    ASSUME NEW t \in Transactions
    PROVE  Sendable(t) /\ Len(Encode(t)) < U16
  BY TransactionAssumption DEF Sendable

\* What a list read from the start of a buffer is parsed as.
LEMMA ReadEthList ==
    ASSUME NEW s \in Seq(Byte), NEW type, type # "unsupported", readTxnType(s) = type,
           NEW list, list = rlp_read(s, VersionLen(s), Len(s)), IsWholeList(s, list),
           list.at + list.len = Len(s)
    PROVE  _readEth(s) = IF type = "eip1559" THEN parse_1559(s, list.at, Len(s))
                         ELSE IF type = "eip2930" THEN parse_2930(s, list.at, Len(s))
                         ELSE parse_legacy_tx(s, list.at, Len(s))
  BY DEF _readEth

LEMMA Fields ==
    ASSUME NEW t, Sendable(t)
    PROVE  /\ EncodeString(ChainBytes(t.chainId)) \in Seq(Byte)
           /\ EncodeString(t.nonce) \in Seq(Byte) /\ EncodeString(t.fees[1]) \in Seq(Byte)
           /\ t.type = "eip1559" => EncodeString(t.fees[2]) \in Seq(Byte)
           /\ EncodeString(<< >>) \in Seq(Byte) /\ EncodeList(<< >>) \in Seq(Byte)
  <1>1. /\ Short(t.nonce) /\ Short(t.fees[1])
        /\ t.type = "eip1559" => Short(t.fees[2])
        /\ t.chainId \in Nat /\ t.chainId < 256 * U16
    BY DEF Sendable
  <1>2. Short(ChainBytes(t.chainId))
    BY <1>1, ChainBytesShort
  <1>3. Short(<< >>)
    BY SMT DEF Short, U16
  <1>4. QED
    BY <1>1, <1>2, <1>3, EncodeType

LEMMA Joined == \A x \in Seq(Byte), y \in Seq(Byte) : x \o y \in Seq(Byte)
  OBVIOUS

LEMMA EncodeMeans2930 ==
    ASSUME NEW t \in Transactions, t.type = "eip2930", _readEth(Encode(t)).ok
    PROVE  Means(Encode(t), _readEth(Encode(t)).tx, t) /\ Encode(t) \in Seq(Byte)
  <1> DEFINE s      == Encode(t)
             access == EncodeList(<< >>)
             b2     == EndOf(t, access)
             b1     == EncodeString(t.fees[1]) \o b2
             b0     == EncodeString(t.nonce) \o b1
             b      == EncodeString(ChainBytes(t.chainId)) \o b0
             list   == rlp_read(s, VersionLen(s), Len(s))
  <1>1. s = << 1 >> \o EncodeList(b)
    BY DEF Encode
  <1>2. Sendable(t) /\ Len(s) < U16
    BY TransactionSendable
  <1>3. b2 \in Seq(Byte) /\ access \in Seq(Byte)
    BY <1>2, Fields, EndType
  <1> HIDE DEF b2
  <1>4. b1 \in Seq(Byte)
    BY <1>2, <1>3, Fields, Joined, Zenon
  <1> HIDE DEF b1
  <1>5. b0 \in Seq(Byte)
    BY <1>2, <1>4, Fields, Joined, Zenon
  <1> HIDE DEF b0
  <1>6. b \in Seq(Byte)
    BY <1>2, <1>5, Fields, Joined, Zenon
  <1>7. Short(b)
    <2> HIDE DEF b, s
    <2>1. QED
      BY <1>1, <1>2, <1>6, BodyShort
  <1> HIDE DEF b, s, access
  <1>8. /\ s \in Seq(Byte) /\ s[1] = 1 /\ VersionLen(s) = 1
        /\ Lies(s, 1, EncodeList(b)) /\ 1 + Len(EncodeList(b)) = Len(s)
    BY <1>1, <1>7, TypedStart
  <1>9. /\ IsWholeList(s, list) /\ list.at \in Nat /\ list.at + list.len = Len(s)
        /\ Ahead(s, Len(s), Start(list.at), b)
    BY <1>7, <1>8, ListOpens
  <1>10. readTxnType(s) = "eip2930"
    BY <1>8 DEF readTxnType
  <1>11. _readEth(s) = parse_2930(s, list.at, Len(s))
    BY <1>8, <1>9, <1>10, ReadEthList
  <1> HIDE DEF list
  <1>12. Len(s) \in Nat /\ Len(s) <= Len(s)
    BY <1>8
  <1>13. Ahead(s, Len(s), Start(list.at), EncodeString(ChainBytes(t.chainId))
               \o (EncodeString(t.nonce) \o (EncodeString(t.fees[1]) \o EndOf(t, access))))
    BY <1>9 DEF b, b0, b1, b2
  <1>14. parse_2930(s, list.at, Len(s)).ok
    BY <1>11 DEF s
  <1>15. Means(s, parse_2930(s, list.at, Len(s)).tx, t)
    BY <1>2, <1>3, <1>8, <1>9, <1>12, <1>13, <1>14, Means2930
  <1>16. QED
    BY <1>8, <1>11, <1>15 DEF s

LEMMA EncodeMeans1559 ==
    ASSUME NEW t \in Transactions, t.type = "eip1559", _readEth(Encode(t)).ok
    PROVE  Means(Encode(t), _readEth(Encode(t)).tx, t) /\ Encode(t) \in Seq(Byte)
  <1> DEFINE s      == Encode(t)
             access == EncodeList(<< >>)
             b3     == EndOf(t, access)
             b2     == EncodeString(t.fees[2]) \o b3
             b1     == EncodeString(t.fees[1]) \o b2
             b0     == EncodeString(t.nonce) \o b1
             b      == EncodeString(ChainBytes(t.chainId)) \o b0
             list   == rlp_read(s, VersionLen(s), Len(s))
  <1>1. s = << 2 >> \o EncodeList(b)
    BY DEF Encode
  <1>2. Sendable(t) /\ Len(s) < U16
    BY TransactionSendable
  <1>3. b3 \in Seq(Byte) /\ access \in Seq(Byte)
    BY <1>2, Fields, EndType
  <1> HIDE DEF b3
  <1>4. b2 \in Seq(Byte)
    BY <1>2, <1>3, Fields, Joined, Zenon
  <1> HIDE DEF b2
  <1>5. b1 \in Seq(Byte)
    BY <1>2, <1>4, Fields, Joined, Zenon
  <1> HIDE DEF b1
  <1>6. b0 \in Seq(Byte)
    BY <1>2, <1>5, Fields, Joined, Zenon
  <1> HIDE DEF b0
  <1>7. b \in Seq(Byte)
    BY <1>2, <1>6, Fields, Joined, Zenon
  <1>8. Short(b)
    <2> HIDE DEF b, s
    <2>1. QED
      BY <1>1, <1>2, <1>7, BodyShort
  <1> HIDE DEF b, s, access
  <1>9. /\ s \in Seq(Byte) /\ s[1] = 2 /\ VersionLen(s) = 1
        /\ Lies(s, 1, EncodeList(b)) /\ 1 + Len(EncodeList(b)) = Len(s)
    BY <1>1, <1>8, TypedStart
  <1>10. /\ IsWholeList(s, list) /\ list.at \in Nat /\ list.at + list.len = Len(s)
         /\ Ahead(s, Len(s), Start(list.at), b)
    BY <1>8, <1>9, ListOpens
  <1>11. readTxnType(s) = "eip1559"
    BY <1>9 DEF readTxnType
  <1>12. _readEth(s) = parse_1559(s, list.at, Len(s))
    BY <1>9, <1>10, <1>11, ReadEthList
  <1> HIDE DEF list
  <1>13. Len(s) \in Nat /\ Len(s) <= Len(s)
    BY <1>9
  <1>14. Ahead(s, Len(s), Start(list.at), EncodeString(ChainBytes(t.chainId))
               \o (EncodeString(t.nonce) \o (EncodeString(t.fees[1])
               \o (EncodeString(t.fees[2]) \o EndOf(t, access)))))
    BY <1>10 DEF b, b0, b1, b2, b3
  <1>15. parse_1559(s, list.at, Len(s)).ok
    BY <1>12 DEF s
  <1>16. Means(s, parse_1559(s, list.at, Len(s)).tx, t)
    BY <1>2, <1>3, <1>9, <1>10, <1>13, <1>14, <1>15, Means1559
  <1>17. QED
    BY <1>9, <1>12, <1>16 DEF s

LEMMA EncodeMeansLegacy ==
    ASSUME NEW t \in Transactions, t.type = "legacy", _readEth(Encode(t)).ok
    PROVE  Means(Encode(t), _readEth(Encode(t)).tx, t) /\ Encode(t) \in Seq(Byte)
  <1> DEFINE s         == Encode(t)
             chain     == EncodeString(ChainBytes(t.chainId))
             signature == EncodeString(<< >>) \o EncodeString(<< >>)
             rest      == IF t.chainId = 0 THEN << >> ELSE chain \o signature
             b1        == EndOf(t, rest)
             b0        == EncodeString(t.fees[1]) \o b1
             b         == EncodeString(t.nonce) \o b0
             list      == rlp_read(s, VersionLen(s), Len(s))
  <1>1. s = EncodeList(b)
    BY DEF Encode
  <1>2. Sendable(t) /\ Len(s) < U16
    BY TransactionSendable
  <1>3. signature \in Seq(Byte)
    BY <1>2, Fields, Joined, Zenon
  <1> HIDE DEF signature
  <1>4. rest \in Seq(Byte)
    <2>1. chain \o signature \in Seq(Byte)
      BY <1>2, <1>3, Fields, Joined, Zenon
    <2>2. << >> \in Seq(Byte)
      OBVIOUS
    <2>3. QED
      BY <2>1, <2>2, Zenon
  <1>5. \/ t.chainId = 0 /\ rest = << >>
        \/ \E sig \in Seq(Byte) : rest = EncodeString(ChainBytes(t.chainId)) \o sig
    BY <1>3, Zenon
  <1> HIDE DEF rest
  <1>6. b1 \in Seq(Byte)
    BY <1>2, <1>4, EndType
  <1> HIDE DEF b1
  <1>7. b0 \in Seq(Byte)
    BY <1>2, <1>6, Fields, Joined, Zenon
  <1> HIDE DEF b0
  <1>8. b \in Seq(Byte)
    BY <1>2, <1>7, Fields, Joined, Zenon
  <1>9. Short(b)
    <2> HIDE DEF b, s
    <2>1. QED
      BY <1>1, <1>2, <1>8, BodyShort
  <1> HIDE DEF b, s
  <1>10. /\ s \in Seq(Byte) /\ s # << >> /\ s[1] >= 192 /\ VersionLen(s) = 0
         /\ Lies(s, 0, EncodeList(b)) /\ 0 + Len(EncodeList(b)) = Len(s)
    BY <1>1, <1>9, LegacyStart
  <1>11. /\ IsWholeList(s, list) /\ list.at \in Nat /\ list.at + list.len = Len(s)
         /\ Ahead(s, Len(s), Start(list.at), b)
    BY <1>9, <1>10, ListOpens
  <1>12. readTxnType(s) = "legacy"
    <2>1. PICK p \in Nat : p = s[1]
      <3>1. s[1] \in Byte
        BY <1>10
      <3>2. QED
        BY <3>1, ByteRange
    <2>2. p # 1 /\ p # 2 /\ ~(p < 192)
      BY <1>10, <2>1
    <2>3. QED
      BY <2>1, <2>2 DEF readTxnType
  <1>13. _readEth(s) = parse_legacy_tx(s, list.at, Len(s))
    BY <1>10, <1>11, <1>12, ReadEthList
  <1> HIDE DEF list
  <1>14. Len(s) \in Nat /\ Len(s) <= Len(s)
    BY <1>10
  <1>15. Ahead(s, Len(s), Start(list.at), EncodeString(t.nonce)
               \o (EncodeString(t.fees[1]) \o EndOf(t, rest)))
    BY <1>11 DEF b, b0, b1
  <1>16. parse_legacy_tx(s, list.at, Len(s)).ok
    BY <1>13 DEF s
  <1>17. Means(s, parse_legacy_tx(s, list.at, Len(s)).tx, t)
    BY <1>2, <1>4, <1>5, <1>10, <1>11, <1>14, <1>15, <1>16, MeansLegacy
  <1>18. QED
    BY <1>10, <1>13, <1>17 DEF s

\* What the parser accepts of a host's encoding is what the host meant.
THEOREM EncodeMeans ==
    ASSUME NEW t \in Transactions, _readEth(Encode(t)).ok
    PROVE  Means(Encode(t), _readEth(Encode(t)).tx, t) /\ Encode(t) \in Seq(Byte)
  <1>1. t.type \in {"legacy", "eip2930", "eip1559"}
    BY TransactionSendable DEF Sendable
  <1>2. QED
    BY <1>1, EncodeMeans2930, EncodeMeans1559, EncodeMeansLegacy

-----------------------------------------------------------------------------
(* Any bytes.                                                              *)

\* An element read from a context that ends at end lies within it.
Within(r, end) ==
    /\ r.ok \in BOOLEAN
    /\ r.ok => /\ r.at \in Nat /\ r.len \in Nat /\ r.next \in Nat
               /\ r.at + r.len <= end
               /\ r.next <= end

\* readBytes compares what is asked for with what is left.
LEMMA ElementWithin ==
    ASSUME NEW o \in Nat, NEW end \in Nat, NEW kind, NEW header \in Nat, NEW len \in Nat
    PROVE  Within(Element(o, end, kind, header, len), end)
  BY DEF Within, Element, RlpFailed

\* A length of up to eight bytes is read from within the context.
LEMMA LongElementWithin ==
    ASSUME NEW s \in Seq(Byte), NEW o \in Nat, NEW end \in Nat, end <= Len(s),
           NEW kind, NEW n \in 1 .. 8
    PROVE  Within(LongElement(s, o, end, kind, n), end)
  <1>1. CASE end - o - 1 < n
    BY <1>1 DEF LongElement, Within, RlpFailed
  <1>2. CASE ~(end - o - 1 < n)
    <2>1. o + 2 \in 1 .. Len(s) /\ o + 2 + n - 1 <= Len(s)
      BY <1>2
    <2>2. be_bytes_to_u64(s, o + 2, n) \in Nat
      BY <2>1, BigEndianType
    <2>3. Within(Element(o, end, kind, 1 + n, be_bytes_to_u64(s, o + 2, n)), end)
      <3>1. 1 + n \in Nat
        OBVIOUS
      <3>2. QED
        BY <3>1, <2>2, ElementWithin
    <2>4. QED
      BY <1>2, <2>3 DEF LongElement
  <1>3. QED
    BY <1>1, <1>2

\* rlp_read on any bytes.
LEMMA ReadWithin ==
    ASSUME NEW s \in Seq(Byte), NEW o \in Nat, NEW end \in Nat, end <= Len(s)
    PROVE  Within(rlp_read(s, o, end), end)
  <1>1. CASE end - o < 1
    BY <1>1 DEF rlp_read, Within, RlpFailed
  <1>2. CASE ~(end - o < 1)
    <2>1. PICK p \in 0 .. 255 : p = s[o + 1]
      <3>1. o + 1 \in 1 .. Len(s)
        BY <1>2
      <3>2. s[o + 1] \in Byte
        BY <3>1
      <3>3. QED
        BY <3>2, ByteRange
    <2>2. rlp_read(s, o, end) =
             IF p <= 127 THEN Element(o, end, "RLP_KIND_BYTE", 0, 1)
             ELSE IF p <= 183 THEN Element(o, end, "RLP_KIND_STRING", 1, p - 128)
             ELSE IF p <= 191 THEN LongElement(s, o, end, "RLP_KIND_STRING", p - 183)
             ELSE IF p <= 247 THEN Element(o, end, "RLP_KIND_LIST", 1, p - 192)
             ELSE LongElement(s, o, end, "RLP_KIND_LIST", p - 247)
      BY <1>2, <2>1 DEF rlp_read
    <2>3. CASE p <= 127
      BY <2>2, <2>3, ElementWithin
    <2>4. CASE p \in 128 .. 183
      <3>1. p - 128 \in Nat
        BY <2>4
      <3>2. rlp_read(s, o, end) = Element(o, end, "RLP_KIND_STRING", 1, p - 128)
        BY <2>2, <2>4
      <3>3. QED
        BY <3>1, <3>2, ElementWithin
    <2>5. CASE p \in 184 .. 191
      <3>1. p - 183 \in 1 .. 8
        BY <2>5
      <3>2. rlp_read(s, o, end) = LongElement(s, o, end, "RLP_KIND_STRING", p - 183)
        BY <2>2, <2>5
      <3>3. QED
        BY <3>1, <3>2, LongElementWithin
    <2>6. CASE p \in 192 .. 247
      <3>1. p - 192 \in Nat
        BY <2>6
      <3>2. rlp_read(s, o, end) = Element(o, end, "RLP_KIND_LIST", 1, p - 192)
        BY <2>2, <2>6
      <3>3. QED
        BY <3>1, <3>2, ElementWithin
    <2>7. CASE p \in 248 .. 255
      <3>1. p - 247 \in 1 .. 8
        BY <2>7
      <3>2. rlp_read(s, o, end) = LongElement(s, o, end, "RLP_KIND_LIST", p - 247)
        BY <2>2, <2>7
      <3>3. QED
        BY <3>1, <3>2, LongElementWithin
    <2>8. p <= 127 \/ p \in 128 .. 183 \/ p \in 184 .. 191 \/ p \in 192 .. 247
             \/ p \in 248 .. 255
      OBVIOUS
    <2>9. QED
      BY <2>3, <2>4, <2>5, <2>6, <2>7, <2>8
  <1>3. QED
    BY <1>1, <1>2

\* A row of reads stays within the context.
LEMMA AfterWithin ==
    ASSUME NEW s \in Seq(Byte), NEW end \in Nat, end <= Len(s),
           NEW r, Within(r, end)
    PROVE  Within(ReadAfter(s, end, r), end)
  <1>1. CASE r.ok
    <2>1. r.next \in Nat
      BY <1>1 DEF Within
    <2>2. QED
      BY <1>1, <2>1, ReadWithin DEF ReadAfter
  <1>2. CASE ~r.ok
    BY <1>2 DEF ReadAfter, Within, RlpFailed
  <1>3. QED
    BY <1>1, <1>2

LEMMA FailedWithin == \A end \in Nat : Within(RlpFailed, end)
  BY DEF Within, RlpFailed

LEMMA ChainWithin ==
    ASSUME NEW s \in Seq(Byte), NEW o \in Nat, NEW end \in Nat, end <= Len(s)
    PROVE  Within(readChainID(s, o, end), end)
  BY ReadWithin, FailedWithin DEF readChainID

-----------------------------------------------------------------------------
\* Every field of the object lies before end.
FieldsBefore(t, end) ==
    \A f \in FieldNames : /\ t.tx[f].at \in Nat /\ t.tx[f].len \in Nat
                          /\ t.tx[f].at + t.tx[f].len <= end

LEMMA ZeroBefore == \A end \in Nat : FieldsBefore(ZeroTx, end)
  BY DEF FieldsBefore, ZeroTx, ZeroField

LEMMA ParsedBefore ==
    ASSUME NEW s, NEW ok, NEW type, NEW chain, NEW elements, NEW end \in Nat,
           \A f \in DOMAIN elements : Within(elements[f], end)
    PROVE  FieldsBefore(Parsed(s, ok, type, chain, elements).tx, end)
  <1> DEFINE field(f) == IF f \in DOMAIN elements /\ elements[f].ok
                         THEN [kind |-> elements[f].kind, at |-> elements[f].at,
                               len |-> elements[f].len]
                         ELSE ZeroField
  <1>1. Parsed(s, ok, type, chain, elements).tx.tx = [f \in FieldNames |-> field(f)]
    BY DEF Parsed, ZeroTx
  <1>2. ASSUME NEW f \in FieldNames
        PROVE  /\ field(f).at \in Nat /\ field(f).len \in Nat
               /\ field(f).at + field(f).len <= end
    BY DEF Within, ZeroField
  <1>3. QED
    BY <1>1, <1>2 DEF FieldsBefore

LEMMA BeforeLater ==
    ASSUME NEW t, NEW end \in Nat, NEW later \in Nat, end <= later, FieldsBefore(t, end)
    PROVE  FieldsBefore(t, later)
  BY DEF FieldsBefore

LEMMA LegacyBefore ==
    ASSUME NEW s \in Seq(Byte), NEW o \in Nat, NEW end \in Nat, end <= Len(s)
    PROVE  FieldsBefore(parse_legacy_tx(s, o, end).tx, end)
  <1> DEFINE nonce    == rlp_read(s, o, end)
             gasPrice == ReadAfter(s, end, nonce)
             gasLimit == ReadAfter(s, end, gasPrice)
             to       == ReadAfter(s, end, gasLimit)
             value    == ReadAfter(s, end, to)
             data     == ReadAfter(s, end, value)
             bare     == data.ok /\ data.next = end
             chain    == IF data.ok /\ ~bare THEN readChainID(s, data.next, end)
                                             ELSE RlpFailed
             sig_r    == ReadAfter(s, end, chain)
             sig_s    == ReadAfter(s, end, sig_r)
             elements == [nonce |-> nonce, gasPrice |-> gasPrice, gasLimit |-> gasLimit,
                          to |-> to, value |-> value, data |-> data]
  <1>1. parse_legacy_tx(s, o, end) =
           Parsed(s, bare \/ EmptySignature(s, sig_r, sig_s), "legacy", chain, elements)
    BY DEF parse_legacy_tx
  <1>2. Within(nonce, end)
    BY ReadWithin
  <1> HIDE DEF nonce
  <1>3. Within(gasPrice, end)
    BY <1>2, AfterWithin
  <1> HIDE DEF gasPrice
  <1>4. Within(gasLimit, end)
    BY <1>3, AfterWithin
  <1> HIDE DEF gasLimit
  <1>5. Within(to, end)
    BY <1>4, AfterWithin
  <1> HIDE DEF to
  <1>6. Within(value, end)
    BY <1>5, AfterWithin
  <1> HIDE DEF value
  <1>7. Within(data, end)
    BY <1>6, AfterWithin
  <1> HIDE DEF data, bare, chain, sig_r, sig_s
  <1>8. \A f \in DOMAIN elements : Within(elements[f], end)
    BY <1>2, <1>3, <1>4, <1>5, <1>6, <1>7
  <1> HIDE DEF elements
  <1>9. QED
    BY <1>1, <1>8, ParsedBefore

LEMMA TailWithin ==
    ASSUME NEW s \in Seq(Byte), NEW end \in Nat, end <= Len(s),
           NEW fee, Within(fee, end)
    PROVE  LET tail == TypedTail(s, end, fee)
           IN  /\ Within(tail.gasLimit, end) /\ Within(tail.to, end)
               /\ Within(tail.value, end) /\ Within(tail.data, end)
               /\ Within(tail.access_list, end)
  <1> DEFINE gasLimit == ReadAfter(s, end, fee)
             to       == ReadAfter(s, end, gasLimit)
             value    == ReadAfter(s, end, to)
             data     == ReadAfter(s, end, value)
             access   == ReadAfter(s, end, data)
  <1>1. TypedTail(s, end, fee) =
           [gasLimit |-> gasLimit, to |-> to, value |-> value, data |-> data,
            access_list |-> access]
    BY DEF TypedTail
  <1>2. Within(gasLimit, end)
    BY AfterWithin
  <1> HIDE DEF gasLimit
  <1>3. Within(to, end)
    BY <1>2, AfterWithin
  <1> HIDE DEF to
  <1>4. Within(value, end)
    BY <1>3, AfterWithin
  <1> HIDE DEF value
  <1>5. Within(data, end)
    BY <1>4, AfterWithin
  <1> HIDE DEF data
  <1>6. Within(access, end)
    BY <1>5, AfterWithin
  <1> HIDE DEF access
  <1>7. QED
    BY <1>1, <1>2, <1>3, <1>4, <1>5, <1>6

LEMMA Before2930 ==
    ASSUME NEW s \in Seq(Byte), NEW o \in Nat, NEW end \in Nat, end <= Len(s)
    PROVE  FieldsBefore(parse_2930(s, o, end).tx, end)
  <1> DEFINE chain    == readChainID(s, o, end)
             nonce    == ReadAfter(s, end, chain)
             gasPrice == ReadAfter(s, end, nonce)
             tail     == TypedTail(s, end, gasPrice)
             elements == [nonce |-> nonce, gasPrice |-> gasPrice,
                          gasLimit |-> tail.gasLimit, to |-> tail.to,
                          value |-> tail.value, data |-> tail.data,
                          access_list |-> tail.access_list]
  <1>1. parse_2930(s, o, end) = Parsed(s, TypedEnds(tail, end), "eip2930", chain, elements)
    BY DEF parse_2930
  <1>2. Within(chain, end)
    BY ChainWithin
  <1> HIDE DEF chain
  <1>3. Within(nonce, end)
    BY <1>2, AfterWithin
  <1> HIDE DEF nonce
  <1>4. Within(gasPrice, end)
    BY <1>3, AfterWithin
  <1> HIDE DEF gasPrice
  <1>5. /\ Within(tail.gasLimit, end) /\ Within(tail.to, end) /\ Within(tail.value, end)
        /\ Within(tail.data, end) /\ Within(tail.access_list, end)
    BY <1>4, TailWithin
  <1> HIDE DEF tail
  <1>6. \A f \in DOMAIN elements : Within(elements[f], end)
    BY <1>3, <1>4, <1>5
  <1> HIDE DEF elements
  <1>7. QED
    BY <1>1, <1>6, ParsedBefore

LEMMA Before1559 ==
    ASSUME NEW s \in Seq(Byte), NEW o \in Nat, NEW end \in Nat, end <= Len(s)
    PROVE  FieldsBefore(parse_1559(s, o, end).tx, end)
  <1> DEFINE chain    == readChainID(s, o, end)
             nonce    == ReadAfter(s, end, chain)
             priority == ReadAfter(s, end, nonce)
             fee      == ReadAfter(s, end, priority)
             tail     == TypedTail(s, end, fee)
             elements == [nonce |-> nonce, max_priority_fee_per_gas |-> priority,
                          max_fee_per_gas |-> fee,
                          gasLimit |-> tail.gasLimit, to |-> tail.to,
                          value |-> tail.value, data |-> tail.data,
                          access_list |-> tail.access_list]
  <1>1. parse_1559(s, o, end) = Parsed(s, TypedEnds(tail, end), "eip1559", chain, elements)
    BY DEF parse_1559
  <1>2. Within(chain, end)
    BY ChainWithin
  <1> HIDE DEF chain
  <1>3. Within(nonce, end)
    BY <1>2, AfterWithin
  <1> HIDE DEF nonce
  <1>4. Within(priority, end)
    BY <1>3, AfterWithin
  <1> HIDE DEF priority
  <1>5. Within(fee, end)
    BY <1>4, AfterWithin
  <1> HIDE DEF fee
  <1>6. /\ Within(tail.gasLimit, end) /\ Within(tail.to, end) /\ Within(tail.value, end)
        /\ Within(tail.data, end) /\ Within(tail.access_list, end)
    BY <1>5, TailWithin
  <1> HIDE DEF tail
  <1>7. \A f \in DOMAIN elements : Within(elements[f], end)
    BY <1>3, <1>4, <1>5, <1>6
  <1> HIDE DEF elements
  <1>8. QED
    BY <1>1, <1>7, ParsedBefore

\* Whatever _readEth leaves in eth_tx_obj points into the bytes it was given.
LEMMA ReadEthBefore ==
    ASSUME NEW s \in Seq(Byte)
    PROVE  FieldsBefore(_readEth(s).tx, Len(s))
  <1> DEFINE type == readTxnType(s)
             list == rlp_read(s, VersionLen(s), Len(s))
             end  == list.at + list.len
  <1>1. Within(list, Len(s))
    BY ReadWithin DEF VersionLen
  <1>2. CASE type = "unsupported" \/ ~IsWholeList(s, list)
    <2>1. _readEth(s).tx = [ZeroTx EXCEPT
              !.tx_type = IF type = "unsupported" THEN "none" ELSE type]
      BY <1>2 DEF _readEth
    <2>2. _readEth(s).tx.tx = ZeroTx.tx
      BY <2>1 DEF ZeroTx
    <2>3. QED
      BY <2>2, ZeroBefore DEF FieldsBefore
  <1>3. CASE ~(type = "unsupported" \/ ~IsWholeList(s, list))
    <2>1. list.at \in Nat /\ end \in Nat /\ end <= Len(s)
      BY <1>1, <1>3 DEF Within, IsWholeList
    <2>2. \/ _readEth(s) = parse_1559(s, list.at, end)
          \/ _readEth(s) = parse_2930(s, list.at, end)
          \/ _readEth(s) = parse_legacy_tx(s, list.at, end)
      BY <1>3 DEF _readEth
    <2> HIDE DEF list, end
    <2>3. FieldsBefore(_readEth(s).tx, end)
      BY <2>1, <2>2, LegacyBefore, Before2930, Before1559
    <2>4. QED
      BY <2>1, <2>3, BeforeLater
  <1>4. QED
    BY <1>2, <1>3

\* An accepted buffer is one list, from its type byte to its last byte.
LEMMA ReadEthCovers ==
    ASSUME NEW s \in Seq(Byte), s # << >>, _readEth(s).ok
    PROVE  ListCoversBuffer(s)
  <1> DEFINE version == VersionLen(s)
             list    == rlp_read(s, version, Len(s))
  <1>1. IsWholeList(s, list)
    BY DEF _readEth
  <1>2. version \in {0, 1} /\ Len(s) > 0
    BY DEF VersionLen
  <1>3. ~(Len(s) - version < 1)
    BY <1>1 DEF rlp_read, RlpFailed, IsWholeList
  <1>4. PICK p \in 0 .. 255 : p = s[version + 1]
    <2>1. version + 1 \in 1 .. Len(s)
      BY <1>2, <1>3
    <2>2. s[version + 1] \in Byte
      BY <2>1
    <2>3. QED
      BY <2>2, ByteRange
  <1>5. list = IF p <= 127 THEN Element(version, Len(s), "RLP_KIND_BYTE", 0, 1)
               ELSE IF p <= 183 THEN Element(version, Len(s), "RLP_KIND_STRING", 1, p - 128)
               ELSE IF p <= 191
                    THEN LongElement(s, version, Len(s), "RLP_KIND_STRING", p - 183)
               ELSE IF p <= 247 THEN Element(version, Len(s), "RLP_KIND_LIST", 1, p - 192)
               ELSE LongElement(s, version, Len(s), "RLP_KIND_LIST", p - 247)
    BY <1>3, <1>4 DEF rlp_read
  <1>6. list.ok /\ list.kind = "RLP_KIND_LIST" /\ list.next = Len(s)
    BY <1>1 DEF IsWholeList
  <1> HIDE DEF list
  <1>7. p > 191
    BY <1>5, <1>6 DEF Element, LongElement, RlpFailed
  <1> HIDE DEF version
  <1>8. CASE p <= 247
    <2>1. list = Element(version, Len(s), "RLP_KIND_LIST", 1, p - 192)
      BY <1>5, <1>7, <1>8
    <2>2. Len(s) = version + 1 + (p - 192)
      BY <2>1, <1>2, <1>6 DEF Element, RlpFailed
    <2>3. HeaderWhole(s)
      BY <1>2, <1>3, <1>4, <1>8 DEF HeaderWhole, version
    <2>4. p \in 192 .. 247
      BY <1>7, <1>8
    <2>5. QED
      BY <2>2, <2>3, <2>4, <1>2, <1>4 DEF ListCoversBuffer, version
  <1>9. CASE p > 247
    <2> DEFINE n   == p - 247
               len == be_bytes_to_u64(s, version + 2, n)
    <2>1. list = LongElement(s, version, Len(s), "RLP_KIND_LIST", n)
      BY <1>5, <1>9
    <2>2. ~(Len(s) - version - 1 < n)
      BY <2>1, <1>6 DEF LongElement, RlpFailed
    <2>3. list = Element(version, Len(s), "RLP_KIND_LIST", 1 + n, len)
      BY <2>1, <2>2 DEF LongElement
    <2>4. len \in Nat
      <3>1. n \in 1 .. 8
        BY <1>9
      <3>2. version + 2 \in 1 .. Len(s) /\ version + 2 + n - 1 <= Len(s)
        BY <3>1, <2>2, <1>2
      <3>3. QED
        BY <3>1, <3>2, BigEndianType
    <2> HIDE DEF len
    <2>5. Len(s) = version + 1 + n + len
      BY <2>3, <2>4, <1>2, <1>6, <1>9 DEF Element, RlpFailed
    <2>6. HeaderWhole(s)
      BY <2>2, <1>2, <1>3, <1>4, <1>9 DEF HeaderWhole, version
    <2>7. QED
      BY <2>5, <2>6, <1>4, <1>9 DEF ListCoversBuffer, version, len
  <1>10. QED
    BY <1>7, <1>8, <1>9

-----------------------------------------------------------------------------
\* What holds of a transaction under review.  Nothing is claimed while none
\* is, so only the parse and the paging have to be looked at.
ReviewInv ==
    phase = "review" =>
        /\ buffer \in Seq(Byte)
        /\ FieldsBefore(eth_tx_obj, Len(buffer))
        /\ ListCoversBuffer(buffer)
        /\ AllItemsShow(buffer, eth_tx_obj)
        /\ \A item \in shown : item.ok

\* There is a first item.
LEMMA FirstItem ==
    ASSUME NEW s, NEW t
    PROVE  0 \in 0 .. _getNumItemsEth(s, t) - 1
  BY DEF _getNumItemsEth

\* A parse that leads to a review establishes the invariant.
LEMMA ParseReviewInv ==
    ASSUME NEW s \in Blobs, HandleSignEth(s)
    PROVE  ReviewInv'
  <1> DEFINE parsed    == parser_parse_eth(s, eth_tx_obj)
             validated == Validated(s, parsed.tx)
  <1>1. CASE phase' # "review"
    BY <1>1 DEF ReviewInv
  <1>2. CASE phase' = "review"
    <2>1. /\ parsed.ok /\ AllItemsShow(s, validated)
          /\ buffer' = s /\ eth_tx_obj' = validated
          /\ shown' = {parser_getItemEth(s, validated, 0)}
      BY <1>2 DEF HandleSignEth, ReviewOrRefuse
    <2>2. s \in Seq(Byte)
      BY BlobAssumption
    <2>3. s # << >> /\ parsed = _readEth(s)
      BY <2>1 DEF parser_parse_eth
    <2>4. FieldsBefore(validated, Len(s))
      <3>1. FieldsBefore(parsed.tx, Len(s))
        BY <2>2, <2>3, ReadEthBefore
      <3>2. validated.tx = parsed.tx.tx
        BY <2>3 DEF Validated
      <3>3. QED
        BY <3>1, <3>2 DEF FieldsBefore
    <2>5. ListCoversBuffer(s)
      BY <2>1, <2>2, <2>3, ReadEthCovers
    <2>6. parser_getItemEth(s, validated, 0).ok
      BY <2>1, FirstItem DEF AllItemsShow
    <2> HIDE DEF validated
    <2>7. QED
      BY <2>1, <2>2, <2>4, <2>5, <2>6 DEF ReviewInv
  <1>3. QED
    BY <1>1, <1>2

LEMMA ReviewStep == ReviewInv /\ [Next]_vars => ReviewInv'
  <1> SUFFICES ASSUME ReviewInv, [Next]_vars
               PROVE  ReviewInv'
    OBVIOUS
  <1>1. ASSUME NEW s \in Blobs, HandleSignEth(s)
        PROVE  ReviewInv'
    BY <1>1, ParseReviewInv
  <1>2. ASSUME NEW i \in {displayIdx - 1, displayIdx + 1}, ShowItem(i)
        PROVE  ReviewInv'
    <2>1. /\ phase = "review"
          /\ i \in 0 .. _getNumItemsEth(buffer, eth_tx_obj) - 1
          /\ shown' = shown \cup {parser_getItemEth(buffer, eth_tx_obj, i)}
          /\ buffer' = buffer /\ eth_tx_obj' = eth_tx_obj
      BY <1>2 DEF ShowItem
    <2>2. parser_getItemEth(buffer, eth_tx_obj, i).ok
      BY <2>1 DEF ReviewInv, AllItemsShow
    <2>3. QED
      BY <2>1, <2>2 DEF ReviewInv
  <1>3. ASSUME NEW parity \in {0, 1}, Approve(parity)
        PROVE  ReviewInv'
    BY <1>3 DEF Approve, EndReview, ReviewInv
  <1>4. ASSUME NEW parity \in {0, 1}, SignPersonalMessage(parity)
        PROVE  ReviewInv'
    BY <1>4 DEF SignPersonalMessage, ReviewInv
  <1>5. CASE Reject
    BY <1>5 DEF Reject, EndReview, ReviewInv
  <1>6. CASE ToggleBlindsign
    BY <1>6 DEF ToggleBlindsign, ReviewInv
  <1>7. CASE UNCHANGED vars
    BY <1>7 DEF vars, ReviewInv
  <1>8. QED
    BY <1>1, <1>2, <1>3, <1>4, <1>5, <1>6, <1>7 DEF Next

\* The invariant of the review holds in every reachable state.
THEOREM Reviewed == Spec => []ReviewInv
  <1>1. Init => ReviewInv
    BY DEF Init, ReviewInv
  <1>2. QED
    BY <1>1, ReviewStep, PTL DEF Spec

\* readBytes keeps every field of a reviewed transaction inside the upload,
\* whatever lengths its bytes declare.
THEOREM FieldsStayInBuffer == Spec => []FieldsInBuffer
  <1>1. ReviewInv => FieldsInBuffer
    BY DEF ReviewInv, FieldsInBuffer, FieldsBefore
  <1>2. QED
    BY <1>1, Reviewed, PTL

\* _readEth accepts nothing but one list over the whole buffer: the outcome
\* the command layer's ParseEth assumes of the parser.
THEOREM ReviewedBufferIsList == Spec => []ReviewCoversBuffer
  <1>1. ReviewInv => ReviewCoversBuffer
    BY DEF ReviewInv, ReviewCoversBuffer
  <1>2. QED
    BY <1>1, Reviewed, PTL

\* An accepted transaction can be shown to its last item.
THEOREM ReviewNeverFails == Spec => []EveryItemShows
  <1>1. ReviewInv => EveryItemShows
    BY DEF ReviewInv, EveryItemShows
  <1>2. QED
    BY <1>1, Reviewed, PTL

-----------------------------------------------------------------------------
\* The object under review is what its buffer was parsed as, and the items
\* shown are the first ones, up to the furthest the user has come.
ItemsUpTo(m) == {parser_getItemEth(buffer, eth_tx_obj, i) : i \in 0 .. m}

SourceInv ==
    phase = "review" =>
        /\ buffer \in Seq(Byte)
        /\ _readEth(buffer).ok
        /\ eth_tx_obj = Validated(buffer, _readEth(buffer).tx)
        /\ eth_tx_obj.is_blindsign => blindsign
        /\ \E m \in 0 .. _getNumItemsEth(buffer, eth_tx_obj) - 1 :
              displayIdx \in 0 .. m /\ shown = ItemsUpTo(m)

LEMMA ParseSourceInv ==
    ASSUME NEW s \in Blobs, HandleSignEth(s)
    PROVE  SourceInv'
  <1> DEFINE parsed    == parser_parse_eth(s, eth_tx_obj)
             validated == Validated(s, parsed.tx)
             item(i)   == parser_getItemEth(s, validated, i)
  <1>1. CASE phase' # "review"
    BY <1>1 DEF SourceInv
  <1>2. CASE phase' = "review"
    <2>1. /\ parsed.ok /\ (validated.is_blindsign => blindsign)
          /\ buffer' = s /\ eth_tx_obj' = validated /\ blindsign' = blindsign
          /\ displayIdx' = 0 /\ shown' = {item(0)}
      BY <1>2 DEF HandleSignEth, ReviewOrRefuse
    <2>2. s \in Seq(Byte)
      BY BlobAssumption
    <2>3. parsed = _readEth(s)
      BY <2>1 DEF parser_parse_eth
    <2>4. 0 \in 0 .. _getNumItemsEth(s, validated) - 1
      BY FirstItem
    <2>5. shown' = {item(i) : i \in 0 .. 0} /\ 0 \in 0 .. 0
      <3> HIDE DEF item
      <3>1. 0 .. 0 = {0}
        OBVIOUS
      <3>2. QED
        BY <2>1, <3>1
    <2>6. ItemsUpTo(0)' = {item(i) : i \in 0 .. 0}
      BY <2>1 DEF ItemsUpTo
    <2>7. validated = Validated(s, _readEth(s).tx)
      BY <2>3
    <2> HIDE DEF validated, parsed, item
    <2>8. QED
      BY <2>1, <2>2, <2>3, <2>4, <2>5, <2>6, <2>7 DEF SourceInv
  <1>3. QED
    BY <1>1, <1>2

\* A step of the view goes to an item seen before or to the next one.
LEMMA PageSourceInv ==
    ASSUME SourceInv, NEW i \in {displayIdx - 1, displayIdx + 1}, ShowItem(i)
    PROVE  SourceInv'
  <1> DEFINE n       == _getNumItemsEth(buffer, eth_tx_obj)
             item(k) == parser_getItemEth(buffer, eth_tx_obj, k)
  <1>1. /\ phase = "review" /\ i \in 0 .. n - 1 /\ displayIdx' = i
        /\ shown' = shown \cup {item(i)}
        /\ UNCHANGED << buffer, eth_tx_obj, blindsign, phase >>
    BY DEF ShowItem
  <1>2. PICK m \in 0 .. n - 1 :
           displayIdx \in 0 .. m /\ shown = {item(k) : k \in 0 .. m}
    BY <1>1 DEF SourceInv, ItemsUpTo
  <1> HIDE DEF n, item
  <1>3. i \in 0 .. m \/ i = m + 1
    BY <1>1, <1>2
  <1>4. PICK l \in 0 .. n - 1 : i \in 0 .. l /\ shown' = {item(k) : k \in 0 .. l}
    <2>1. CASE i \in 0 .. m
      <3>1. item(i) \in shown
        BY <1>2, <2>1
      <3>2. shown' = {item(k) : k \in 0 .. m}
        BY <1>1, <1>2, <3>1
      <3>3. QED
        BY <1>2, <2>1, <3>2
    <2>2. CASE i = m + 1
      <3>1. 0 .. m + 1 = (0 .. m) \cup {m + 1}
        BY <1>2
      <3>2. {item(k) : k \in 0 .. m + 1} = {item(k) : k \in 0 .. m} \cup {item(m + 1)}
        BY <3>1
      <3>3. m + 1 \in 0 .. n - 1 /\ i \in 0 .. m + 1
        BY <1>1, <1>2, <2>2
      <3>4. shown' = {item(k) : k \in 0 .. m + 1}
        BY <1>1, <1>2, <2>2, <3>2
      <3>5. QED
        BY <3>3, <3>4
    <2>3. QED
      BY <1>3, <2>1, <2>2
  <1>5. /\ displayIdx' \in 0 .. l /\ shown' = ItemsUpTo(l)'
        /\ l \in 0 .. _getNumItemsEth(buffer, eth_tx_obj)' - 1
    BY <1>1, <1>4 DEF ItemsUpTo, n, item
  <1>6. QED
    BY <1>1, <1>5 DEF SourceInv

LEMMA SourceStep == SourceInv /\ [Next]_vars => SourceInv'
  <1> SUFFICES ASSUME SourceInv, [Next]_vars
               PROVE  SourceInv'
    OBVIOUS
  <1>1. ASSUME NEW s \in Blobs, HandleSignEth(s)
        PROVE  SourceInv'
    BY <1>1, ParseSourceInv
  <1>2. ASSUME NEW i \in {displayIdx - 1, displayIdx + 1}, ShowItem(i)
        PROVE  SourceInv'
    BY <1>2, PageSourceInv
  <1>3. ASSUME NEW parity \in {0, 1}, Approve(parity)
        PROVE  SourceInv'
    BY <1>3 DEF Approve, EndReview, SourceInv
  <1>4. ASSUME NEW parity \in {0, 1}, SignPersonalMessage(parity)
        PROVE  SourceInv'
    BY <1>4 DEF SignPersonalMessage, SourceInv
  <1>5. CASE Reject
    BY <1>5 DEF Reject, EndReview, SourceInv
  <1>6. CASE ToggleBlindsign
    BY <1>6 DEF ToggleBlindsign, SourceInv
  <1>7. CASE UNCHANGED vars
    BY <1>7 DEF vars, SourceInv, ItemsUpTo
  <1>8. QED
    BY <1>1, <1>2, <1>3, <1>4, <1>5, <1>6, <1>7 DEF Next

\* A review shows the object that was parsed from the reviewed buffer.
THEOREM ReviewHasSource == Spec => []SourceInv
  <1>1. Init => SourceInv
    BY DEF Init, SourceInv
  <1>2. QED
    BY <1>1, SourceStep, PTL DEF Spec

-----------------------------------------------------------------------------
\* The object that leaves the parser has all its fields.
LEMMA ParsedDomain ==
    ASSUME NEW s, NEW o, NEW end
    PROVE  /\ DOMAIN parse_1559(s, o, end).tx = DOMAIN ZeroTx
           /\ DOMAIN parse_2930(s, o, end).tx = DOMAIN ZeroTx
           /\ DOMAIN parse_legacy_tx(s, o, end).tx = DOMAIN ZeroTx
  <1>1. \A ok, type, chain, elements :
           DOMAIN Parsed(s, ok, type, chain, elements).tx = DOMAIN ZeroTx
    BY DEF Parsed
  <1>2. DOMAIN parse_1559(s, o, end).tx = DOMAIN ZeroTx
    BY <1>1, Zenon DEF parse_1559
  <1>3. DOMAIN parse_2930(s, o, end).tx = DOMAIN ZeroTx
    BY <1>1, Zenon DEF parse_2930
  <1>4. DOMAIN parse_legacy_tx(s, o, end).tx = DOMAIN ZeroTx
    <2> DEFINE nonce    == rlp_read(s, o, end)
               gasPrice == ReadAfter(s, end, nonce)
               gasLimit == ReadAfter(s, end, gasPrice)
               to       == ReadAfter(s, end, gasLimit)
               value    == ReadAfter(s, end, to)
               data     == ReadAfter(s, end, value)
               bare     == data.ok /\ data.next = end
               chain    == IF data.ok /\ ~bare THEN readChainID(s, data.next, end)
                           ELSE RlpFailed
               sig_r    == ReadAfter(s, end, chain)
               sig_s    == ReadAfter(s, end, sig_r)
               elements == [nonce |-> nonce, gasPrice |-> gasPrice,
                            gasLimit |-> gasLimit, to |-> to, value |-> value,
                            data |-> data]
    <2>1. parse_legacy_tx(s, o, end) =
             Parsed(s, bare \/ EmptySignature(s, sig_r, sig_s), "legacy", chain, elements)
      BY DEF parse_legacy_tx
    <2> HIDE DEF elements, sig_s, sig_r, chain, bare, data, value, to, gasLimit,
                 gasPrice, nonce
    <2>2. QED
      BY <1>1, <2>1, Zenon
  <1>5. QED
    BY <1>2, <1>3, <1>4

LEMMA ReadDomain ==
    ASSUME NEW s
    PROVE  LET o == _readEth(s).tx
               w == Validated(s, o)
           IN  /\ w.tx_type = o.tx_type /\ w.chainId = o.chainId /\ w.tx = o.tx
               /\ w.is_blindsign = IsBlind(s, o)
               /\ w.is_erc20_transfer = validateERC20(s, o.tx)
  <1> DEFINE o    == _readEth(s).tx
             list == rlp_read(s, VersionLen(s), Len(s))
             end  == list.at + list.len
  <1>1. \/ \E type : o = [ZeroTx EXCEPT !.tx_type = type]
        \/ _readEth(s) = parse_1559(s, list.at, end)
        \/ _readEth(s) = parse_2930(s, list.at, end)
        \/ _readEth(s) = parse_legacy_tx(s, list.at, end)
    BY DEF _readEth
  <1> HIDE DEF list, end
  <1>2. DOMAIN o = DOMAIN ZeroTx
    <2>1. CASE \E type : o = [ZeroTx EXCEPT !.tx_type = type]
      BY <2>1
    <2>2. CASE ~\E type : o = [ZeroTx EXCEPT !.tx_type = type]
      BY ZenonT(60), <1>1, <2>2, ParsedDomain
    <2>3. QED
      BY <2>1, <2>2
  <1>3. DOMAIN o = {"tx_type", "chainId", "tx", "is_erc20_transfer", "is_blindsign"}
    BY <1>2 DEF ZeroTx
  <1> HIDE DEF o
  <1>4. LET w == Validated(s, o)
        IN  /\ w.tx_type = o.tx_type /\ w.chainId = o.chainId /\ w.tx = o.tx
            /\ w.is_blindsign = IsBlind(s, o)
            /\ w.is_erc20_transfer = validateERC20(s, o.tx)
    BY <1>3 DEF Validated
  <1>5. QED
    BY <1>4 DEF o

\* A part of what lies in a buffer.
LEMMA LiesPart ==
    ASSUME NEW s \in Seq(Byte), NEW o \in Nat, NEW x \in Seq(Byte), Lies(s, o, x),
           NEW i \in 1 .. Len(x) + 1, NEW j \in i - 1 .. Len(x)
    PROVE  SubSeq(s, o + i, o + j) = SubSeq(x, i, j)
  <1>1. Len(x) \in Nat /\ Len(s) \in Nat /\ o + Len(x) <= Len(s)
    BY DEF Lies
  <1>2. SubSeq(s, o + i, o + j) \in Seq(Byte) /\ SubSeq(x, i, j) \in Seq(Byte)
    BY <1>1
  <1>3. Len(SubSeq(s, o + i, o + j)) = j - i + 1 /\ Len(SubSeq(x, i, j)) = j - i + 1
    BY <1>1
  <1>4. \A k \in 1 .. j - i + 1 : SubSeq(s, o + i, o + j)[k] = SubSeq(x, i, j)[k]
    <2> TAKE k \in 1 .. j - i + 1
    <2>1. SubSeq(s, o + i, o + j)[k] = s[o + i + k - 1]
      BY <1>1
    <2>2. SubSeq(x, i, j)[k] = x[i + k - 1]
      BY <1>1
    <2>3. i + k - 1 \in 1 .. Len(x) /\ o + (i + k - 1) = o + i + k - 1
      BY <1>1
    <2>4. s[o + (i + k - 1)] = x[i + k - 1]
      BY <2>3 DEF Lies
    <2>5. QED
      BY <2>1, <2>2, <2>3, <2>4
  <1>5. QED
    BY <1>2, <1>3, <1>4, SeqEqual

\* The parser's object is a transfer if the transaction is one.
LEMMA TransferMeans ==
    ASSUME NEW s \in Seq(Byte), NEW o, NEW t, Sendable(t), Means(s, o, t)
    PROVE  validateERC20(s, o.tx) <=> IsTransfer(t)
  <1>1. /\ o.tx.to.len = Len(t.to) /\ o.tx.data.len = Len(t.data)
        /\ o.tx.data.at \in Nat /\ Lies(s, o.tx.data.at, t.data) /\ t.data \in Seq(Byte)
    BY DEF Means, FieldIs, Sendable, Short
  <1>2. CASE Len(t.data) = ERC20_DATA_LENGTH
    <2>1. SubSeq(s, o.tx.data.at + 1, o.tx.data.at + 4) = SubSeq(t.data, 1, 4)
      <3>1. 1 \in 1 .. Len(t.data) + 1 /\ 4 \in 1 - 1 .. Len(t.data)
        BY <1>2 DEF ERC20_DATA_LENGTH
      <3>2. QED
        BY <1>1, <3>1, LiesPart
    <2>2. QED
      BY <1>1, <2>1 DEF validateERC20, IsTransfer
  <1>3. CASE Len(t.data) # ERC20_DATA_LENGTH
    BY <1>1, <1>3 DEF validateERC20, IsTransfer
  <1>4. QED
    BY <1>2, <1>3

\* What is under review is what the host meant.
LEMMA ReviewMeans ==
    ASSUME SourceInv, phase = "review", NEW t \in Transactions, Sent(t)
    PROVE  /\ buffer \in Seq(Byte) /\ Sendable(t) /\ Means(buffer, eth_tx_obj, t)
           /\ eth_tx_obj.is_erc20_transfer <=> IsTransfer(t)
           /\ eth_tx_obj.is_blindsign <=> t.data # << >> /\ ~IsTransfer(t)
           /\ validateERC20(buffer, eth_tx_obj.tx) <=> IsTransfer(t)
  <1> DEFINE o == _readEth(buffer).tx
  <1>1. buffer = Encode(t) /\ _readEth(buffer).ok /\ eth_tx_obj = Validated(buffer, o)
    BY DEF SourceInv, Sent
  <1>2. Means(buffer, o, t) /\ buffer \in Seq(Byte) /\ Sendable(t)
    BY <1>1, EncodeMeans, TransactionSendable
  <1>3. /\ eth_tx_obj.tx_type = o.tx_type /\ eth_tx_obj.chainId = o.chainId
        /\ eth_tx_obj.tx = o.tx
        /\ eth_tx_obj.is_blindsign = IsBlind(buffer, o)
        /\ eth_tx_obj.is_erc20_transfer = validateERC20(buffer, o.tx)
    BY <1>1, ReadDomain
  <1> HIDE DEF o
  <1>4. Means(buffer, eth_tx_obj, t)
    BY <1>2, <1>3 DEF Means
  <1>5. validateERC20(buffer, o.tx) <=> IsTransfer(t)
    BY <1>2, TransferMeans
  <1>6. o.tx.data.len # 0 <=> t.data # << >>
    <2>1. o.tx.data.len = Len(t.data) /\ t.data \in Seq(Byte)
      BY <1>2 DEF Means, FieldIs, Sendable, Short
    <2>2. QED
      BY <2>1
  <1>7. QED
    BY <1>2, <1>3, <1>4, <1>5, <1>6 DEF IsBlind

\* Blind signing: a call that is not shown in full is under review only if
\* the user has switched blind signing on (_validateTxEth).
THEOREM BlindSigningIsAllowed == Spec => []BlindReviewNeedsMode
  <1>1. SourceInv => BlindReviewNeedsMode
    <2> SUFFICES ASSUME SourceInv, phase = "review", NEW t \in Transactions,
                        Sent(t), t.data # << >>, ~IsTransfer(t)
                 PROVE  blindsign
      BY DEF BlindReviewNeedsMode
    <2>1. eth_tx_obj.is_blindsign
      BY ReviewMeans
    <2>2. QED
      BY <2>1 DEF SourceInv
  <1>2. QED
    BY <1>1, ReviewHasSource, PTL

\* The chain id fits the arithmetic of v, which then is only cut to a byte.
LEMMA ComputedV ==
    ASSUME NEW o, NEW t, Sendable(t), o.tx_type = t.type, o.chainId = t.chainId,
           NEW parity \in {0, 1}
    PROVE  _computeV(o, parity, FALSE) =
              IF t.type = "legacy" THEN (35 + parity + 2 * t.chainId) % 256 ELSE parity
  <1> DEFINE c == t.chainId
  <1>1. /\ c \in Nat /\ c < 256 * U16 /\ o.chainId = c
        /\ t.type \in {"legacy", "eip2930", "eip1559"}
    BY DEF Sendable
  <1>2. CASE t.type = "legacy"
    <2>1. _computeV(o, parity, FALSE) =
             saturating_add_u32(EIP155_V_BASE + parity, ((c % U32) * 2) % U32) % 256
      BY <1>1, <1>2 DEF _computeV
    <2> HIDE DEF c
    <2>2. U32 \in Nat /\ U16 \in Nat /\ 512 * U16 + 36 < U32
      BY WidthAssumption, ChainWidthAssumption DEF U16
    <2>3. c < U32 /\ c * 2 < U32 /\ 36 + c * 2 < U32
      BY <1>1, <2>2
    <2>4. ((c % U32) * 2) % U32 = c * 2
      <3>1. c % U32 = c
        BY <1>1, <2>2, <2>3
      <3>2. (c * 2) % U32 = c * 2
        BY <1>1, <2>2, <2>3
      <3>3. QED
        BY <3>1, <3>2
    <2>5. saturating_add_u32(EIP155_V_BASE + parity, c * 2) = 35 + parity + 2 * c
      BY <1>1, <2>2, <2>3 DEF saturating_add_u32, EIP155_V_BASE
    <2>6. _computeV(o, parity, FALSE) = (35 + parity + 2 * c) % 256
      BY <2>1, <2>4, <2>5
    <2>7. QED
      BY <1>2, <2>6 DEF c
  <1>3. CASE t.type # "legacy"
    BY <1>1, <1>3 DEF _computeV
  <1>4. QED
    BY <1>2, <1>3

\* v is computed from the static object, and yet it is that of the transaction
\* the host sent (_computeV, app_sign_eth).
THEOREM VBelongsToTransaction == Spec => VIsOfTransaction
  <1>1. SourceInv /\ [Next]_vars =>
           [v' # v /\ ~v'.personal =>
              \A t \in Transactions : Sent(t) =>
                 v'.value = IF t.type = "legacy" THEN (35 + v'.parity + 2 * t.chainId) % 256
                                                 ELSE v'.parity]_vars
    <2> SUFFICES ASSUME SourceInv, [Next]_vars, v' # v, ~v'.personal,
                        NEW t \in Transactions, Sent(t)
                 PROVE  v'.value = IF t.type = "legacy"
                                   THEN (35 + v'.parity + 2 * t.chainId) % 256
                                   ELSE v'.parity
      OBVIOUS
    <2>1. ASSUME NEW s \in Blobs, HandleSignEth(s)
          PROVE  FALSE
      BY <2>1 DEF HandleSignEth, ReviewOrRefuse, NoSignature
    <2>2. ASSUME NEW i \in {displayIdx - 1, displayIdx + 1}, ShowItem(i)
          PROVE  FALSE
      BY <2>2 DEF ShowItem
    <2>3. ASSUME NEW parity \in {0, 1}, SignPersonalMessage(parity)
          PROVE  FALSE
      BY <2>3 DEF SignPersonalMessage
    <2>4. ~Reject /\ ~ToggleBlindsign /\ ~UNCHANGED vars
      BY DEF Reject, ToggleBlindsign, vars
    <2>5. PICK parity \in {0, 1} : Approve(parity)
      BY <2>1, <2>2, <2>3, <2>4 DEF Next
    <2>6. /\ phase = "review"
          /\ v'.value = _computeV(eth_tx_obj, parity, FALSE) /\ v'.parity = parity
      BY <2>5 DEF Approve
    <2>7. Sendable(t) /\ eth_tx_obj.tx_type = t.type /\ eth_tx_obj.chainId = t.chainId
      BY <2>6, ReviewMeans DEF Means
    <2>8. _computeV(eth_tx_obj, parity, FALSE) =
             IF t.type = "legacy" THEN (35 + parity + 2 * t.chainId) % 256 ELSE parity
      BY <2>7, ComputedV
    <2>9. QED
      BY <2>6, <2>8, Zenon
  <1>2. QED
    BY <1>1, ReviewHasSource, PTL DEF Spec, VIsOfTransaction

-----------------------------------------------------------------------------
(* The screens of a field that is what the host meant.                     *)

LEMMA FieldPayload ==
    ASSUME NEW s \in Seq(Byte), NEW f, NEW x \in Seq(Byte), FieldIs(s, f, x)
    PROVE  Payload(s, f) = x
  <1>1. f.at \in Nat /\ f.len = Len(x) /\ Lies(s, f.at, x)
    BY DEF FieldIs
  <1>2. QED
    BY <1>1, LiesPayload DEF Payload

LEMMA NumberScreen ==
    ASSUME NEW s \in Seq(Byte), NEW f, NEW x \in Seq(Byte), FieldIs(s, f, x), NEW key,
           printRLPNumber(s, key, f).ok
    PROVE  printRLPNumber(s, key, f) = Shown(key, << Number(x) >>)
  BY FieldPayload DEF printRLPNumber, Failed

LEMMA FeesScreen ==
    ASSUME NEW s \in Seq(Byte), NEW o, NEW limit \in Seq(Byte), NEW price \in Seq(Byte),
           FieldIs(s, o.tx.gasLimit, limit), FieldIs(s, o.tx.gasPrice, price),
           printEVMMaxFees(s, o).ok
    PROVE  printEVMMaxFees(s, o) = Shown("Max Fees", << Number(limit), Number(price) >>)
  BY FieldPayload DEF printEVMMaxFees, Failed

LEMMA AddressScreen ==
    ASSUME NEW s \in Seq(Byte), NEW at \in Nat, NEW x \in Seq(Byte), Lies(s, at, x),
           Len(x) = ETH_ADDRESS_LEN, NEW key
    PROVE  printEVMAddress(s, key, at) = Shown(key, << x >>)
  <1> DEFINE address == [k \in 1 .. ETH_ADDRESS_LEN |->
                            IF at + k <= Len(s) THEN s[at + k] ELSE Unknown]
  <1>1. at + ETH_ADDRESS_LEN <= Len(s) /\ Len(s) \in Nat
    BY DEF Lies
  <1>2. x = [k \in 1 .. ETH_ADDRESS_LEN |-> x[k]]
    BY DEF ETH_ADDRESS_LEN
  <1>3. ASSUME NEW k \in 1 .. ETH_ADDRESS_LEN
        PROVE  (IF at + k <= Len(s) THEN s[at + k] ELSE Unknown) = x[k]
    <2>1. at + k <= Len(s)
      BY <1>1 DEF ETH_ADDRESS_LEN
    <2>2. s[at + k] = x[k]
      BY DEF Lies
    <2>3. QED
      BY <2>1, <2>2
  <1>4. address = x
    BY <1>2, <1>3
  <1>5. printEVMAddress(s, key, at) = Shown(key, << address >>)
    BY DEF printEVMAddress
  <1> HIDE DEF address
  <1>6. QED
    BY <1>4, <1>5

LEMMA DataScreen ==
    ASSUME NEW s \in Seq(Byte), NEW t, t.data \in Seq(Byte), NEW f, FieldIs(s, f, t.data)
    PROVE  printData(s, f) = ExpectedData(t)
  <1> DEFINE n == MinOf(Len(t.data), 10)
  <1>1. f.at \in Nat /\ f.len = Len(t.data) /\ Lies(s, f.at, t.data)
    BY DEF FieldIs
  <1>2. n \in 1 - 1 .. Len(t.data) /\ 1 \in 1 .. Len(t.data) + 1
    BY DEF MinOf
  <1> HIDE DEF n
  <1>3. SubSeq(s, f.at + 1, f.at + n) = SubSeq(t.data, 1, n)
    BY <1>1, <1>2, LiesPart
  <1>4. QED
    BY <1>1, <1>3 DEF printData, ExpectedData, DATA_BYTES_TO_PRINT, n

\* What a host sends and the display can show: the address has its length and
\* the value fits the formatter.
LEMMA Displayable ==
    ASSUME NEW t \in Transactions
    PROVE  /\ Len(t.to) \in {0, ETH_ADDRESS_LEN} /\ Len(t.value) <= 64
           /\ t.to \in Seq(Byte) /\ t.value \in Seq(Byte) /\ t.data \in Seq(Byte)
           /\ t.nonce \in Seq(Byte) /\ t.gasLimit \in Seq(Byte) /\ t.fees[1] \in Seq(Byte)
           /\ t.type = "eip1559" => t.fees[2] \in Seq(Byte)
  <1>1. Sendable(t)
    BY TransactionSendable
  <1>2. Len(t.to) \in {0, ETH_ADDRESS_LEN} /\ Len(t.value) <= 64
    BY TransactionAssumption
  <1>3. QED
    BY <1>1, <1>2 DEF Sendable, Short

-----------------------------------------------------------------------------
\* The rows of printGeneric, for a transaction instead of its encoding, and
\* the rows that are shown of it.
GenericScreen(t, row) ==
    << Shown("To", << t.to >>), Shown("Amount", << Number(t.value) >>), ExpectedData(t),
       Shown("Max Priority Fee", << Number(t.fees[1]) >>),
       Shown("Max Fee", << Number(t.fees[2]) >>),
       Shown("Gas limit", << Number(t.gasLimit) >>),
       Shown("Max Fees", << Number(t.gasLimit), Number(t.fees[1]) >>),
       Shown("Nonce", << Number(t.nonce) >>), Shown("EVM Hash", << Encode(t) >>) >>[row + 1]

GenericRows(t) ==
    {1, 7} \cup (IF t.type = "eip1559" THEN {3, 4, 5} ELSE {6})
    \cup (IF t.to = << >> THEN {} ELSE {0}) \cup (IF t.data = << >> THEN {} ELSE {2, 8})

LEMMA GenericScreenRows ==
    ASSUME NEW t
    PROVE  /\ GenericScreen(t, 0) = Shown("To", << t.to >>)
           /\ GenericScreen(t, 1) = Shown("Amount", << Number(t.value) >>)
           /\ GenericScreen(t, 2) = ExpectedData(t)
           /\ GenericScreen(t, 3) = Shown("Max Priority Fee", << Number(t.fees[1]) >>)
           /\ GenericScreen(t, 4) = Shown("Max Fee", << Number(t.fees[2]) >>)
           /\ GenericScreen(t, 5) = Shown("Gas limit", << Number(t.gasLimit) >>)
           /\ GenericScreen(t, 6) =
                 Shown("Max Fees", << Number(t.gasLimit), Number(t.fees[1]) >>)
           /\ GenericScreen(t, 7) = Shown("Nonce", << Number(t.nonce) >>)
           /\ GenericScreen(t, 8) = Shown("EVM Hash", << Encode(t) >>)
  BY DEF GenericScreen

LEMMA GenericRow ==
    ASSUME NEW s, NEW o, NEW i, NEW row \in 0 .. 8, GenericIdx(o, i) = row
    PROVE  /\ row = 0 => printGeneric(s, o, i) = printEVMAddress(s, "To", o.tx.to.at)
           /\ row = 1 => printGeneric(s, o, i) = printAmount(s, o.tx.value)
           /\ row = 2 => printGeneric(s, o, i) = printData(s, o.tx.data)
           /\ row = 3 => printGeneric(s, o, i) =
                 printRLPNumber(s, "Max Priority Fee", o.tx.max_priority_fee_per_gas)
           /\ row = 4 => printGeneric(s, o, i) =
                 printRLPNumber(s, "Max Fee", o.tx.max_fee_per_gas)
           /\ row = 5 => printGeneric(s, o, i) =
                 printRLPNumber(s, "Gas limit", o.tx.gasLimit)
           /\ row = 6 => printGeneric(s, o, i) = printEVMMaxFees(s, o)
           /\ row = 7 => printGeneric(s, o, i) = printRLPNumber(s, "Nonce", o.tx.nonce)
           /\ row = 8 => printGeneric(s, o, i) = Shown("EVM Hash", << s >>)
  <1> DEFINE items == << printEVMAddress(s, "To", o.tx.to.at),
                         printAmount(s, o.tx.value),
                         printData(s, o.tx.data),
                         printRLPNumber(s, "Max Priority Fee",
                                        o.tx.max_priority_fee_per_gas),
                         printRLPNumber(s, "Max Fee", o.tx.max_fee_per_gas),
                         printRLPNumber(s, "Gas limit", o.tx.gasLimit),
                         printEVMMaxFees(s, o),
                         printRLPNumber(s, "Nonce", o.tx.nonce),
                         Shown("EVM Hash", << s >>) >>
  <1>1. printGeneric(s, o, i) = items[row + 1]
    BY Zenon DEF printGeneric
  <1>2. /\ items[1] = printEVMAddress(s, "To", o.tx.to.at)
        /\ items[2] = printAmount(s, o.tx.value)
        /\ items[3] = printData(s, o.tx.data)
        /\ items[4] = printRLPNumber(s, "Max Priority Fee",
                                     o.tx.max_priority_fee_per_gas)
        /\ items[5] = printRLPNumber(s, "Max Fee", o.tx.max_fee_per_gas)
        /\ items[6] = printRLPNumber(s, "Gas limit", o.tx.gasLimit)
        /\ items[7] = printEVMMaxFees(s, o)
        /\ items[8] = printRLPNumber(s, "Nonce", o.tx.nonce)
        /\ items[9] = Shown("EVM Hash", << s >>)
    OBVIOUS
  <1> HIDE DEF items
  <1>3. /\ row = 0 => row + 1 = 1
        /\ row = 1 => row + 1 = 2
        /\ row = 2 => row + 1 = 3
        /\ row = 3 => row + 1 = 4
        /\ row = 4 => row + 1 = 5
        /\ row = 5 => row + 1 = 6
        /\ row = 6 => row + 1 = 7
        /\ row = 7 => row + 1 = 8
        /\ row = 8 => row + 1 = 9
    OBVIOUS
  <1>4. QED
    BY <1>1, <1>2, <1>3, Zenon

LEMMA GenericShows ==
    ASSUME NEW t \in Transactions, NEW o, NEW s \in Seq(Byte), s = Encode(t),
           Means(s, o, t), NEW i, NEW row \in GenericRows(t), GenericIdx(o, i) = row,
           printGeneric(s, o, i).ok
    PROVE  printGeneric(s, o, i) = GenericScreen(t, row)
  <1>1. row \in 0 .. 8
    BY DEF GenericRows
  <1>2. CASE row = 0
    <2>1. t.to # << >>
      BY <1>2 DEF GenericRows
    <2>2. /\ Len(t.to) = ETH_ADDRESS_LEN /\ t.to \in Seq(Byte)
          /\ o.tx.to.at \in Nat /\ Lies(s, o.tx.to.at, t.to)
      BY <2>1, Displayable DEF Means, FieldIs
    <2>3. printGeneric(s, o, i) = printEVMAddress(s, "To", o.tx.to.at)
      BY <1>1, <1>2, GenericRow
    <2>4. printEVMAddress(s, "To", o.tx.to.at) = Shown("To", << t.to >>)
      BY <2>2, AddressScreen
    <2>5. QED
      BY <1>2, <2>3, <2>4, GenericScreenRows
  <1>3. CASE row = 1
    <2>1. printGeneric(s, o, i) = printAmount(s, o.tx.value)
      BY <1>1, <1>3, GenericRow
    <2>2. /\ t.value \in Seq(Byte) /\ Len(t.value) <= 64
          /\ FieldIs(s, o.tx.value, t.value) /\ o.tx.value.len = Len(t.value)
      BY Displayable DEF Means, FieldIs
    <2>3. Payload(s, o.tx.value) = t.value
      BY <2>2, FieldPayload
    <2>4. printAmount(s, o.tx.value) = Shown("Amount", << Number(t.value) >>)
      BY <2>2, <2>3 DEF printAmount
    <2>5. QED
      BY <1>3, <2>1, <2>4, GenericScreenRows
  <1>4. CASE row = 2
    <2>1. printGeneric(s, o, i) = printData(s, o.tx.data)
      BY <1>1, <1>4, GenericRow
    <2>2. t.data \in Seq(Byte) /\ FieldIs(s, o.tx.data, t.data)
      BY Displayable DEF Means
    <2>3. printGeneric(s, o, i) = ExpectedData(t)
      BY <2>1, <2>2, DataScreen
    <2>4. QED
      BY <1>4, <2>3, GenericScreenRows
  <1>5. CASE row = 3
    <2>1. t.type = "eip1559"
      BY <1>5 DEF GenericRows
    <2>2. t.fees[1] \in Seq(Byte) /\ FieldIs(s, o.tx.max_priority_fee_per_gas, t.fees[1])
      BY <2>1, Displayable DEF Means
    <2>3. printGeneric(s, o, i) =
             printRLPNumber(s, "Max Priority Fee", o.tx.max_priority_fee_per_gas)
      BY <1>1, <1>5, GenericRow
    <2>4. printGeneric(s, o, i) = Shown("Max Priority Fee", << Number(t.fees[1]) >>)
      BY ZenonT(60), <2>2, <2>3, NumberScreen
    <2>5. QED
      BY <1>5, <2>4, GenericScreenRows
  <1>6. CASE row = 4
    <2>1. t.type = "eip1559"
      BY <1>6 DEF GenericRows
    <2>2. t.fees[2] \in Seq(Byte) /\ FieldIs(s, o.tx.max_fee_per_gas, t.fees[2])
      BY <2>1, Displayable DEF Means
    <2>3. printGeneric(s, o, i) = printRLPNumber(s, "Max Fee", o.tx.max_fee_per_gas)
      BY <1>1, <1>6, GenericRow
    <2>4. printGeneric(s, o, i) = Shown("Max Fee", << Number(t.fees[2]) >>)
      BY ZenonT(60), <2>2, <2>3, NumberScreen
    <2>5. QED
      BY <1>6, <2>4, GenericScreenRows
  <1>7. CASE row = 5
    <2>1. t.gasLimit \in Seq(Byte) /\ FieldIs(s, o.tx.gasLimit, t.gasLimit)
      BY Displayable DEF Means
    <2>2. printGeneric(s, o, i) = printRLPNumber(s, "Gas limit", o.tx.gasLimit)
      BY <1>1, <1>7, GenericRow
    <2>3. printGeneric(s, o, i) = Shown("Gas limit", << Number(t.gasLimit) >>)
      BY ZenonT(60), <2>1, <2>2, NumberScreen
    <2>4. QED
      BY <1>7, <2>3, GenericScreenRows
  <1>8. CASE row = 6
    <2>1. t.type # "eip1559"
      BY <1>8 DEF GenericRows
    <2>2. /\ t.gasLimit \in Seq(Byte) /\ FieldIs(s, o.tx.gasLimit, t.gasLimit)
          /\ t.fees[1] \in Seq(Byte) /\ FieldIs(s, o.tx.gasPrice, t.fees[1])
      BY <2>1, Displayable DEF Means
    <2>3. printGeneric(s, o, i) = printEVMMaxFees(s, o)
      BY <1>1, <1>8, GenericRow
    <2>4. printGeneric(s, o, i) = Shown("Max Fees", << Number(t.gasLimit), Number(t.fees[1]) >>)
      BY ZenonT(60), <2>2, <2>3, FeesScreen
    <2>5. QED
      BY <1>8, <2>4, GenericScreenRows
  <1>9. CASE row = 7
    <2>1. t.nonce \in Seq(Byte) /\ FieldIs(s, o.tx.nonce, t.nonce)
      BY Displayable DEF Means
    <2>2. printGeneric(s, o, i) = printRLPNumber(s, "Nonce", o.tx.nonce)
      BY <1>1, <1>9, GenericRow
    <2>3. printGeneric(s, o, i) = Shown("Nonce", << Number(t.nonce) >>)
      BY <2>1, <2>2, NumberScreen
    <2>4. QED
      BY <1>9, <2>3, GenericScreenRows
  <1>10. CASE row = 8
    <2>1. printGeneric(s, o, i) = Shown("EVM Hash", << s >>)
      BY <1>1, <1>10, GenericRow
    <2>2. QED
      BY <1>10, <2>1, GenericScreenRows
  <1>11. QED
    BY <1>1, <1>2, <1>3, <1>4, <1>5, <1>6, <1>7, <1>8, <1>9, <1>10

\* The rows of printERC20Transfer, for a transfer instead of its encoding, and
\* the rows that are shown of it.
TransferScreen(t, row) ==
    << Shown("Receiver", << SubSeq(t.data, 17, 36) >>), Shown("Contract", << t.to >>),
       Shown("Network", << << t.chainId >> >>),
       Shown("Amount", << t.to, Number(SubSeq(t.data, 37, 68)) >>),
       Shown("Nonce", << Number(t.nonce) >>),
       Shown("Max Priority Fee", << Number(t.fees[1]) >>),
       Shown("Max Fee", << Number(t.fees[2]) >>),
       Shown("Gas limit", << Number(t.gasLimit) >>),
       Shown("Max Fees", << Number(t.gasLimit), Number(t.fees[1]) >>),
       Shown("Value", << Number(t.value) >>), ExpectedData(t) >>[row + 1]

TransferRows(t) ==
    {0, 1, 2, 3, 4, 9, 10} \cup (IF t.type = "eip1559" THEN {5, 6, 7} ELSE {8})

\* The row of printERC20Transfer that an index leads to.
TransferIdx(o, i) ==
    IF o.tx_type = "eip1559" /\ i >= 8 THEN i + 1
    ELSE IF HasGasPrice(o) /\ i >= 5 THEN i + 3
    ELSE i

LEMMA TransferScreenRows ==
    ASSUME NEW t
    PROVE  /\ TransferScreen(t, 0) = Shown("Receiver", << SubSeq(t.data, 17, 36) >>)
           /\ TransferScreen(t, 1) = Shown("Contract", << t.to >>)
           /\ TransferScreen(t, 2) = Shown("Network", << << t.chainId >> >>)
           /\ TransferScreen(t, 3) =
                 Shown("Amount", << t.to, Number(SubSeq(t.data, 37, 68)) >>)
           /\ TransferScreen(t, 4) = Shown("Nonce", << Number(t.nonce) >>)
           /\ TransferScreen(t, 5) = Shown("Max Priority Fee", << Number(t.fees[1]) >>)
           /\ TransferScreen(t, 6) = Shown("Max Fee", << Number(t.fees[2]) >>)
           /\ TransferScreen(t, 7) = Shown("Gas limit", << Number(t.gasLimit) >>)
           /\ TransferScreen(t, 8) =
                 Shown("Max Fees", << Number(t.gasLimit), Number(t.fees[1]) >>)
           /\ TransferScreen(t, 9) = Shown("Value", << Number(t.value) >>)
           /\ TransferScreen(t, 10) = ExpectedData(t)
  BY DEF TransferScreen

LEMMA TransferRow ==
    ASSUME NEW s, NEW o, NEW i, NEW row \in 0 .. 10, TransferIdx(o, i) = row
    PROVE  LET shows == printERC20Transfer(s, o, i)
           IN  /\ row = 0 => shows = printEVMAddress(s, "Receiver", o.tx.data.at + 16)
               /\ row = 1 => shows = printEVMAddress(s, "Contract", o.tx.to.at)
               /\ row = 2 => shows = printNetwork(o)
               /\ row = 3 => shows = printERC20Value(s, o)
               /\ row = 4 => shows = printRLPNumber(s, "Nonce", o.tx.nonce)
               /\ row = 5 => shows = printRLPNumber(s, "Max Priority Fee",
                                                    o.tx.max_priority_fee_per_gas)
               /\ row = 6 => shows = printRLPNumber(s, "Max Fee", o.tx.max_fee_per_gas)
               /\ row = 7 => shows = printRLPNumber(s, "Gas limit", o.tx.gasLimit)
               /\ row = 8 => shows = printEVMMaxFees(s, o)
               /\ row = 9 => shows = printRLPNumber(s, "Value", o.tx.value)
               /\ row = 10 => shows = printData(s, o.tx.data)
  <1> DEFINE items == << printEVMAddress(s, "Receiver", o.tx.data.at + 16),
                         printEVMAddress(s, "Contract", o.tx.to.at),
                         printNetwork(o),
                         printERC20Value(s, o),
                         printRLPNumber(s, "Nonce", o.tx.nonce),
                         printRLPNumber(s, "Max Priority Fee",
                                        o.tx.max_priority_fee_per_gas),
                         printRLPNumber(s, "Max Fee", o.tx.max_fee_per_gas),
                         printRLPNumber(s, "Gas limit", o.tx.gasLimit),
                         printEVMMaxFees(s, o),
                         printRLPNumber(s, "Value", o.tx.value),
                         printData(s, o.tx.data) >>
  <1>1. printERC20Transfer(s, o, i) = items[row + 1]
    <2>1. printERC20Transfer(s, o, i) =
             IF TransferIdx(o, i) \in 0 .. 10 THEN items[TransferIdx(o, i) + 1] ELSE Failed
      BY Zenon DEF printERC20Transfer, TransferIdx
    <2> HIDE DEF items
    <2>2. QED
      BY <2>1
  <1>2. /\ items[1] = printEVMAddress(s, "Receiver", o.tx.data.at + 16)
        /\ items[2] = printEVMAddress(s, "Contract", o.tx.to.at)
        /\ items[3] = printNetwork(o)
        /\ items[4] = printERC20Value(s, o)
        /\ items[5] = printRLPNumber(s, "Nonce", o.tx.nonce)
        /\ items[6] = printRLPNumber(s, "Max Priority Fee",
                                     o.tx.max_priority_fee_per_gas)
        /\ items[7] = printRLPNumber(s, "Max Fee", o.tx.max_fee_per_gas)
        /\ items[8] = printRLPNumber(s, "Gas limit", o.tx.gasLimit)
        /\ items[9] = printEVMMaxFees(s, o)
        /\ items[10] = printRLPNumber(s, "Value", o.tx.value)
        /\ items[11] = printData(s, o.tx.data)
    OBVIOUS
  <1> HIDE DEF items
  <1>3. /\ row = 0 => row + 1 = 1
        /\ row = 1 => row + 1 = 2
        /\ row = 2 => row + 1 = 3
        /\ row = 3 => row + 1 = 4
        /\ row = 4 => row + 1 = 5
        /\ row = 5 => row + 1 = 6
        /\ row = 6 => row + 1 = 7
        /\ row = 7 => row + 1 = 8
        /\ row = 8 => row + 1 = 9
        /\ row = 9 => row + 1 = 10
        /\ row = 10 => row + 1 = 11
    OBVIOUS
  <1>4. QED
    BY ZenonT(60), <1>1, <1>2, <1>3

LEMMA ReceiverPart ==
    ASSUME NEW d \in Seq(Byte), Len(d) = 68
    PROVE  /\ SubSeq(d, 17, 36) \in Seq(Byte) /\ Len(SubSeq(d, 17, 36)) = 20
           /\ \A k \in 1 .. 20 : SubSeq(d, 17, 36)[k] = d[16 + k]
  BY SMTT(60)

\* The parts of a call of transfer, at their places in the buffer.
LEMMA TransferParts ==
    ASSUME NEW s \in Seq(Byte), NEW o, NEW t \in Transactions, IsTransfer(t), Means(s, o, t)
    PROVE  /\ o.tx.to.at \in Nat /\ Lies(s, o.tx.to.at, t.to) /\ t.to \in Seq(Byte)
           /\ SubSeq(s, o.tx.to.at + 1, o.tx.to.at + ETH_ADDRESS_LEN) = t.to
           /\ o.tx.data.at + 16 \in Nat
           /\ Lies(s, o.tx.data.at + 16, SubSeq(t.data, 17, 36))
           /\ SubSeq(t.data, 17, 36) \in Seq(Byte)
           /\ Len(SubSeq(t.data, 17, 36)) = ETH_ADDRESS_LEN
           /\ SubSeq(s, o.tx.data.at + 37, o.tx.data.at + 68) = SubSeq(t.data, 37, 68)
  <1> DEFINE at == o.tx.data.at
             x  == SubSeq(t.data, 17, 36)
  <1>1. /\ o.tx.to.at \in Nat /\ Lies(s, o.tx.to.at, t.to) /\ t.to \in Seq(Byte)
        /\ Len(t.to) = ETH_ADDRESS_LEN
        /\ at \in Nat /\ Lies(s, at, t.data) /\ t.data \in Seq(Byte) /\ Len(t.data) = 68
    BY Displayable DEF Means, FieldIs, IsTransfer, ERC20_DATA_LENGTH
  <1>2. SubSeq(s, o.tx.to.at + 1, o.tx.to.at + ETH_ADDRESS_LEN) = t.to
    <2>1. PICK a \in Nat, y \in Seq(Byte) : a = o.tx.to.at /\ y = t.to
      BY <1>1
    <2>2. Lies(s, a, y)
      BY <1>1, <2>1
    <2>3. SubSeq(s, a + 1, a + Len(y)) = y
      BY <2>2, LiesPayload
    <2>4. QED
      BY <1>1, <2>1, <2>3
  <1> HIDE DEF at
  <1>3. SubSeq(s, at + 37, at + 68) = SubSeq(t.data, 37, 68)
    <2>1. 37 \in 1 .. Len(t.data) + 1 /\ 68 \in 37 - 1 .. Len(t.data)
      BY <1>1
    <2>2. QED
      BY ZenonT(60), <1>1, <2>1, LiesPart
  <1>4. x \in Seq(Byte) /\ Len(x) = 20 /\ \A k \in 1 .. 20 : x[k] = t.data[16 + k]
    BY <1>1, ReceiverPart, Zenon
  <1> HIDE DEF x
  <1>5. Lies(s, at + 16, x)
    <2>1. at + 68 <= Len(s) /\ \A k \in 1 .. 68 : s[at + k] = t.data[k]
      BY <1>1 DEF Lies
    <2>2. ASSUME NEW k \in 1 .. 20
          PROVE  s[(at + 16) + k] = x[k]
      <3>1. 16 + k \in 1 .. 68 /\ at + (16 + k) = (at + 16) + k
        BY <1>1
      <3>2. s[at + (16 + k)] = t.data[16 + k]
        BY <2>1, <3>1
      <3>3. QED
        BY <1>4, <3>1, <3>2
    <2>3. (at + 16) + 20 <= Len(s)
      <3>1. at + 68 <= Len(s) /\ at \in Nat /\ Len(s) \in Nat
        BY <1>1, <2>1
      <3>2. QED
        BY <3>1
    <2>4. QED
      BY <1>4, <2>2, <2>3 DEF Lies
  <1>6. at + 16 \in Nat
    BY <1>1
  <1>7. QED
    BY <1>1, <1>2, <1>3, <1>4, <1>5, <1>6 DEF at, x, ETH_ADDRESS_LEN

LEMMA TransferShows ==
    ASSUME NEW t \in Transactions, IsTransfer(t), NEW o, NEW s \in Seq(Byte),
           Means(s, o, t), NEW i, NEW row \in TransferRows(t), TransferIdx(o, i) = row,
           printERC20Transfer(s, o, i).ok
    PROVE  printERC20Transfer(s, o, i) = TransferScreen(t, row)
  <1> DEFINE shows == printERC20Transfer(s, o, i)
  <1>1. row \in 0 .. 10
    BY DEF TransferRows
  <1>2. CASE row = 0
    <2>1. shows = printEVMAddress(s, "Receiver", o.tx.data.at + 16)
      BY <1>1, <1>2, TransferRow
    <2>2. PICK a \in Nat, x \in Seq(Byte) :
             /\ a = o.tx.data.at + 16 /\ x = SubSeq(t.data, 17, 36)
             /\ Len(x) = ETH_ADDRESS_LEN /\ Lies(s, a, x)
      BY TransferParts
    <2>3. printEVMAddress(s, "Receiver", a) = Shown("Receiver", << x >>)
      <3>1. Lies(s, a, x) /\ Len(x) = ETH_ADDRESS_LEN
        BY <2>2, Zenon
      <3>2. QED
        BY <3>1, AddressScreen
    <2>4. QED
      BY <1>2, <2>1, <2>2, <2>3, TransferScreenRows
  <1>3. CASE row = 1
    <2>1. shows = printEVMAddress(s, "Contract", o.tx.to.at)
      BY <1>1, <1>3, TransferRow
    <2>2. PICK a \in Nat, x \in Seq(Byte) :
             /\ a = o.tx.to.at /\ x = t.to
             /\ Len(x) = ETH_ADDRESS_LEN /\ Lies(s, a, x)
      BY ZenonT(60), TransferParts DEF IsTransfer
    <2>3. printEVMAddress(s, "Contract", a) = Shown("Contract", << x >>)
      <3>1. Lies(s, a, x) /\ Len(x) = ETH_ADDRESS_LEN
        BY <2>2, Zenon
      <3>2. QED
        BY <3>1, AddressScreen
    <2>4. QED
      BY <1>3, <2>1, <2>2, <2>3, TransferScreenRows
  <1>4. CASE row = 2
    <2>1. shows = printNetwork(o)
      BY <1>1, <1>4, TransferRow
    <2>2. shows = Shown("Network", << << t.chainId >> >>)
      BY <2>1 DEF printNetwork, Means, Failed
    <2>3. QED
      BY <1>4, <2>2, TransferScreenRows
  <1>5. CASE row = 3
    <2>1. shows = printERC20Value(s, o)
      BY <1>1, <1>5, TransferRow
    <2>2. shows = Shown("Amount", << t.to, Number(SubSeq(t.data, 37, 68)) >>)
      BY <2>1, TransferParts DEF printERC20Value
    <2>3. QED
      BY <1>5, <2>2, TransferScreenRows
  <1>6. CASE row = 4
    <2>1. shows = printRLPNumber(s, "Nonce", o.tx.nonce)
      BY <1>1, <1>6, TransferRow
    <2>2. t.nonce \in Seq(Byte) /\ FieldIs(s, o.tx.nonce, t.nonce)
      BY Displayable DEF Means
    <2>3. shows = Shown("Nonce", << Number(t.nonce) >>)
      BY <2>1, <2>2, NumberScreen
    <2>4. QED
      BY <1>6, <2>3, TransferScreenRows
  <1>7. CASE row = 5
    <2>1. shows = printRLPNumber(s, "Max Priority Fee", o.tx.max_priority_fee_per_gas)
      BY <1>1, <1>7, TransferRow
    <2>2. t.type = "eip1559"
      BY <1>7 DEF TransferRows
    <2>3. t.fees[1] \in Seq(Byte) /\ FieldIs(s, o.tx.max_priority_fee_per_gas, t.fees[1])
      BY <2>2, Displayable DEF Means
    <2>4. shows = Shown("Max Priority Fee", << Number(t.fees[1]) >>)
      BY <2>1, <2>3, NumberScreen
    <2>5. QED
      BY <1>7, <2>4, TransferScreenRows
  <1>8. CASE row = 6
    <2>1. shows = printRLPNumber(s, "Max Fee", o.tx.max_fee_per_gas)
      BY <1>1, <1>8, TransferRow
    <2>2. t.type = "eip1559"
      BY <1>8 DEF TransferRows
    <2>3. t.fees[2] \in Seq(Byte) /\ FieldIs(s, o.tx.max_fee_per_gas, t.fees[2])
      BY <2>2, Displayable DEF Means
    <2>4. shows = Shown("Max Fee", << Number(t.fees[2]) >>)
      BY <2>1, <2>3, NumberScreen
    <2>5. QED
      BY <1>8, <2>4, TransferScreenRows
  <1>9. CASE row = 7
    <2>1. shows = printRLPNumber(s, "Gas limit", o.tx.gasLimit)
      BY <1>1, <1>9, TransferRow
    <2>2. t.gasLimit \in Seq(Byte) /\ FieldIs(s, o.tx.gasLimit, t.gasLimit)
      BY Displayable DEF Means
    <2>3. shows = Shown("Gas limit", << Number(t.gasLimit) >>)
      BY <2>1, <2>2, NumberScreen
    <2>4. QED
      BY <1>9, <2>3, TransferScreenRows
  <1>10. CASE row = 8
    <2>1. shows = printEVMMaxFees(s, o)
      BY <1>1, <1>10, TransferRow
    <2>2. t.type # "eip1559"
      BY <1>10 DEF TransferRows
    <2>3. /\ t.gasLimit \in Seq(Byte) /\ FieldIs(s, o.tx.gasLimit, t.gasLimit)
          /\ t.fees[1] \in Seq(Byte) /\ FieldIs(s, o.tx.gasPrice, t.fees[1])
      BY <2>2, Displayable DEF Means
    <2>4. shows = Shown("Max Fees", << Number(t.gasLimit), Number(t.fees[1]) >>)
      BY <2>1, <2>3, FeesScreen
    <2>5. QED
      BY <1>10, <2>4, TransferScreenRows
  <1>11. CASE row = 9
    <2>1. shows = printRLPNumber(s, "Value", o.tx.value)
      BY <1>1, <1>11, TransferRow
    <2>2. t.value \in Seq(Byte) /\ FieldIs(s, o.tx.value, t.value)
      BY Displayable DEF Means
    <2>3. shows = Shown("Value", << Number(t.value) >>)
      BY <2>1, <2>2, NumberScreen
    <2>4. QED
      BY <1>11, <2>3, TransferScreenRows
  <1>12. CASE row = 10
    <2>1. shows = printData(s, o.tx.data)
      BY <1>1, <1>12, TransferRow
    <2>2. t.data \in Seq(Byte) /\ FieldIs(s, o.tx.data, t.data)
      BY Displayable DEF Means
    <2>3. shows = ExpectedData(t)
      BY <2>1, <2>2, DataScreen
    <2>4. QED
      BY <1>12, <2>3, TransferScreenRows
  <1>13. QED
    BY <1>1, <1>2, <1>3, <1>4, <1>5, <1>6, <1>7, <1>8, <1>9, <1>10, <1>11, <1>12

\* The index arithmetic of printGeneric leads to the rows of the transaction,
\* to all of them and to no other.
LEMMA GenericIndexes ==
    ASSUME NEW t, t.type \in {"legacy", "eip2930", "eip1559"},
           t.to # << >> \/ t.data # << >>,
           NEW o, o.tx_type = t.type,
           o.tx.to.len = 0 <=> t.to = << >>, o.tx.data.len = 0 <=> t.data = << >>,
           NEW n, n = (IF t.type = "eip1559" THEN 6 ELSE 4)
                      + (IF t.data = << >> THEN 0 - 1 ELSE 1)
                      + (IF t.to = << >> THEN 0 ELSE 1)
    PROVE  {GenericIdx(o, i) : i \in 0 .. n - 1} = GenericRows(t)
  <1> DEFINE g(i) == GenericIdx(o, i)
             G    == {g(i) : i \in 0 .. n - 1}
  <1>1. CASE t.type = "eip1559"
    <2>1. CASE t.to # << >> /\ t.data # << >>
      <3>1. /\ g(0) = 0 /\ g(1) = 1 /\ g(2) = 2 /\ g(3) = 3 /\ g(4) = 4 /\ g(5) = 5
            /\ g(6) = 7 /\ g(7) = 8
        BY <1>1, <2>1 DEF GenericIdx, HasGasPrice
      <3>2. 0 .. n - 1 = {0, 1, 2, 3, 4, 5, 6, 7}
        BY <1>1, <2>1
      <3> HIDE DEF g
      <3>3. G = {0, 1, 2, 3, 4, 5, 7, 8}
        <4>1. G = {g(i) : i \in {0, 1, 2, 3, 4, 5, 6, 7}}
          BY <3>2, Zenon
        <4>2. {g(i) : i \in {0, 1, 2, 3, 4, 5, 6, 7}}
                  = {g(0), g(1), g(2), g(3), g(4), g(5), g(6), g(7)}
          OBVIOUS
        <4>3. {g(0), g(1), g(2), g(3), g(4), g(5), g(6), g(7)}
                  = {0, 1, 2, 3, 4, 5, 7, 8}
          BY <3>1
        <4>4. QED
          BY <4>1, <4>2, <4>3
      <3>4. QED
        BY <1>1, <2>1, <3>3 DEF GenericRows, g
    <2>2. CASE t.to # << >> /\ t.data = << >>
      <3>1. g(0) = 0 /\ g(1) = 1 /\ g(2) = 3 /\ g(3) = 4 /\ g(4) = 5 /\ g(5) = 7
        BY <1>1, <2>2 DEF GenericIdx, HasGasPrice
      <3>2. 0 .. n - 1 = {0, 1, 2, 3, 4, 5}
        BY <1>1, <2>2
      <3> HIDE DEF g
      <3>3. G = {0, 1, 3, 4, 5, 7}
        <4>1. G = {g(i) : i \in {0, 1, 2, 3, 4, 5}}
          BY <3>2, Zenon
        <4>2. {g(i) : i \in {0, 1, 2, 3, 4, 5}}
                  = {g(0), g(1), g(2), g(3), g(4), g(5)}
          OBVIOUS
        <4>3. {g(0), g(1), g(2), g(3), g(4), g(5)}
                  = {0, 1, 3, 4, 5, 7}
          BY <3>1
        <4>4. QED
          BY <4>1, <4>2, <4>3
      <3>4. QED
        BY <1>1, <2>2, <3>3 DEF GenericRows, g
    <2>3. CASE t.to = << >> /\ t.data # << >>
      <3>1. /\ g(0) = 1 /\ g(1) = 2 /\ g(2) = 3 /\ g(3) = 4 /\ g(4) = 5
            /\ g(5) = 7 /\ g(6) = 8
        BY <1>1, <2>3 DEF GenericIdx, HasGasPrice
      <3>2. 0 .. n - 1 = {0, 1, 2, 3, 4, 5, 6}
        BY <1>1, <2>3
      <3> HIDE DEF g
      <3>3. G = {1, 2, 3, 4, 5, 7, 8}
        <4>1. G = {g(i) : i \in {0, 1, 2, 3, 4, 5, 6}}
          BY <3>2, Zenon
        <4>2. {g(i) : i \in {0, 1, 2, 3, 4, 5, 6}}
                  = {g(0), g(1), g(2), g(3), g(4), g(5), g(6)}
          OBVIOUS
        <4>3. {g(0), g(1), g(2), g(3), g(4), g(5), g(6)}
                  = {1, 2, 3, 4, 5, 7, 8}
          BY <3>1
        <4>4. QED
          BY <4>1, <4>2, <4>3
      <3>4. QED
        BY <1>1, <2>3, <3>3 DEF GenericRows, g
    <2>4. QED
      BY <2>1, <2>2, <2>3
  <1>2. CASE t.type # "eip1559"
    <2>1. CASE t.to # << >> /\ t.data # << >>
      <3>1. g(0) = 0 /\ g(1) = 1 /\ g(2) = 2 /\ g(3) = 6 /\ g(4) = 7 /\ g(5) = 8
        BY <1>2, <2>1 DEF GenericIdx, HasGasPrice
      <3>2. 0 .. n - 1 = {0, 1, 2, 3, 4, 5}
        BY <1>2, <2>1
      <3> HIDE DEF g
      <3>3. G = {0, 1, 2, 6, 7, 8}
        <4>1. G = {g(i) : i \in {0, 1, 2, 3, 4, 5}}
          BY <3>2, Zenon
        <4>2. {g(i) : i \in {0, 1, 2, 3, 4, 5}}
                  = {g(0), g(1), g(2), g(3), g(4), g(5)}
          OBVIOUS
        <4>3. {g(0), g(1), g(2), g(3), g(4), g(5)}
                  = {0, 1, 2, 6, 7, 8}
          BY <3>1
        <4>4. QED
          BY <4>1, <4>2, <4>3
      <3>4. QED
        BY <1>2, <2>1, <3>3 DEF GenericRows, g
    <2>2. CASE t.to # << >> /\ t.data = << >>
      <3>1. g(0) = 0 /\ g(1) = 1 /\ g(2) = 6 /\ g(3) = 7
        BY <1>2, <2>2 DEF GenericIdx, HasGasPrice
      <3>2. 0 .. n - 1 = {0, 1, 2, 3}
        BY <1>2, <2>2
      <3> HIDE DEF g
      <3>3. G = {0, 1, 6, 7}
        <4>1. G = {g(i) : i \in {0, 1, 2, 3}}
          BY <3>2, Zenon
        <4>2. {g(i) : i \in {0, 1, 2, 3}}
                  = {g(0), g(1), g(2), g(3)}
          OBVIOUS
        <4>3. {g(0), g(1), g(2), g(3)}
                  = {0, 1, 6, 7}
          BY <3>1
        <4>4. QED
          BY <4>1, <4>2, <4>3
      <3>4. QED
        BY <1>2, <2>2, <3>3 DEF GenericRows, g
    <2>3. CASE t.to = << >> /\ t.data # << >>
      <3>1. g(0) = 1 /\ g(1) = 2 /\ g(2) = 6 /\ g(3) = 7 /\ g(4) = 8
        BY <1>2, <2>3 DEF GenericIdx, HasGasPrice
      <3>2. 0 .. n - 1 = {0, 1, 2, 3, 4}
        BY <1>2, <2>3
      <3> HIDE DEF g
      <3>3. G = {1, 2, 6, 7, 8}
        <4>1. G = {g(i) : i \in {0, 1, 2, 3, 4}}
          BY <3>2, Zenon
        <4>2. {g(i) : i \in {0, 1, 2, 3, 4}}
                  = {g(0), g(1), g(2), g(3), g(4)}
          OBVIOUS
        <4>3. {g(0), g(1), g(2), g(3), g(4)}
                  = {1, 2, 6, 7, 8}
          BY <3>1
        <4>4. QED
          BY <4>1, <4>2, <4>3
      <3>4. QED
        BY <1>2, <2>3, <3>3 DEF GenericRows, g
    <2>4. QED
      BY <2>1, <2>2, <2>3
  <1>3. QED
    BY <1>1, <1>2

LEMMA TransferIndexes ==
    ASSUME NEW t, t.type \in {"legacy", "eip2930", "eip1559"},
           NEW o, o.tx_type = t.type, NEW n, n = IF t.type = "eip1559" THEN 10 ELSE 8
    PROVE  {TransferIdx(o, i) : i \in 0 .. n - 1} = TransferRows(t)
  <1> DEFINE g(i) == TransferIdx(o, i)
             G    == {g(i) : i \in 0 .. n - 1}
  <1>1. CASE t.type = "eip1559"
    <2>1. /\ g(0) = 0 /\ g(1) = 1 /\ g(2) = 2 /\ g(3) = 3 /\ g(4) = 4 /\ g(5) = 5
          /\ g(6) = 6 /\ g(7) = 7 /\ g(8) = 9 /\ g(9) = 10
      BY <1>1 DEF TransferIdx, HasGasPrice
    <2>2. 0 .. n - 1 = {0, 1, 2, 3, 4, 5, 6, 7, 8, 9}
      BY <1>1
    <2> HIDE DEF g
    <2>3. G = {0, 1, 2, 3, 4, 5, 6, 7, 9, 10}
      <3>1. G = {g(i) : i \in {0, 1, 2, 3, 4, 5, 6, 7, 8, 9}}
        BY <2>2, Zenon
      <3>2. {g(i) : i \in {0, 1, 2, 3, 4, 5, 6, 7, 8, 9}}
                = {g(0), g(1), g(2), g(3), g(4), g(5), g(6), g(7), g(8), g(9)}
        OBVIOUS
      <3>3. {g(0), g(1), g(2), g(3), g(4), g(5), g(6), g(7), g(8), g(9)}
                = {0, 1, 2, 3, 4, 5, 6, 7, 9, 10}
        BY <2>1
      <3>4. QED
        BY <3>1, <3>2, <3>3
    <2>4. QED
      BY <1>1, <2>3 DEF TransferRows, g
  <1>2. CASE t.type # "eip1559"
    <2>1. /\ g(0) = 0 /\ g(1) = 1 /\ g(2) = 2 /\ g(3) = 3 /\ g(4) = 4 /\ g(5) = 8
          /\ g(6) = 9 /\ g(7) = 10
      BY <1>2 DEF TransferIdx, HasGasPrice
    <2>2. 0 .. n - 1 = {0, 1, 2, 3, 4, 5, 6, 7}
      BY <1>2
    <2> HIDE DEF g
    <2>3. G = {0, 1, 2, 3, 4, 8, 9, 10}
      <3>1. G = {g(i) : i \in {0, 1, 2, 3, 4, 5, 6, 7}}
        BY <2>2, Zenon
      <3>2. {g(i) : i \in {0, 1, 2, 3, 4, 5, 6, 7}}
                = {g(0), g(1), g(2), g(3), g(4), g(5), g(6), g(7)}
        OBVIOUS
      <3>3. {g(0), g(1), g(2), g(3), g(4), g(5), g(6), g(7)}
                = {0, 1, 2, 3, 4, 8, 9, 10}
        BY <2>1
      <3>4. QED
        BY <3>1, <3>2, <3>3
    <2>4. QED
      BY <1>2, <2>3 DEF TransferRows, g
  <1>3. QED
    BY <1>1, <1>2

-----------------------------------------------------------------------------
\* The rows are the screens a transaction should lead to.
LEMMA GenericExpected ==
    ASSUME NEW t, ~IsTransfer(t)
    PROVE  {GenericScreen(t, row) : row \in GenericRows(t)} = Expected(t)
  <1> DEFINE g(row) == GenericScreen(t, row)
             fees   == IF t.type = "eip1559" THEN {g(3), g(4), g(5)} ELSE {g(6)}
             to     == IF t.to = << >> THEN {} ELSE {g(0)}
             data   == IF t.data = << >> THEN {} ELSE {g(2), g(8)}
  <1>1. Expected(t) = {g(7)} \cup fees \cup ({g(1)} \cup to \cup data)
    BY GenericScreenRows DEF Expected, ExpectedFees
  <1> HIDE DEF g
  <1>2. {g(row) : row \in GenericRows(t)} = {g(7)} \cup fees \cup ({g(1)} \cup to \cup data)
    BY DEF GenericRows
  <1>3. QED
    BY <1>1, <1>2 DEF g

LEMMA TransferExpected ==
    ASSUME NEW t, IsTransfer(t)
    PROVE  {TransferScreen(t, row) : row \in TransferRows(t)} = Expected(t)
  <1> DEFINE g(row) == TransferScreen(t, row)
             fees   == IF t.type = "eip1559" THEN {g(5), g(6), g(7)} ELSE {g(8)}
  <1>1. Expected(t) = {g(4)} \cup fees \cup {g(0), g(1), g(2), g(3), g(9), g(10)}
    BY TransferScreenRows DEF Expected, ExpectedFees
  <1> HIDE DEF g
  <1>2. {g(row) : row \in TransferRows(t)}
           = {g(4)} \cup fees \cup {g(0), g(1), g(2), g(3), g(9), g(10)}
    BY DEF TransferRows
  <1>3. QED
    BY <1>1, <1>2 DEF g

-----------------------------------------------------------------------------
\* All items of a transaction together.
LEMMA GenericItems ==
    ASSUME SourceInv, ReviewInv, phase = "review", NEW t \in Transactions, Sent(t),
           ~IsTransfer(t), t.to # << >> \/ t.data # << >>
    PROVE  ItemsUpTo(_getNumItemsEth(buffer, eth_tx_obj) - 1) = Expected(t)
  <1> DEFINE o       == eth_tx_obj
             n       == _getNumItemsEth(buffer, o)
             item(i) == parser_getItemEth(buffer, o, i)
  <1>1. /\ buffer \in Seq(Byte) /\ Sendable(t) /\ Means(buffer, o, t) /\ buffer = Encode(t)
        /\ ~o.is_erc20_transfer /\ (o.is_blindsign <=> t.data # << >>)
        /\ ~validateERC20(buffer, o.tx)
    BY ReviewMeans DEF Sent
  <1>2. /\ o.tx_type = t.type /\ t.type \in {"legacy", "eip2930", "eip1559"}
        /\ o.tx.to.len = Len(t.to) /\ o.tx.data.len = Len(t.data)
        /\ t.to \in Seq(Byte) /\ t.data \in Seq(Byte)
    BY <1>1 DEF Means, FieldIs, Sendable, Short
  <1>3. (o.tx.to.len = 0 <=> t.to = << >>) /\ (o.tx.data.len = 0 <=> t.data = << >>)
    <2>1. \A x \in Seq(Byte) : Len(x) = 0 <=> x = << >>
      OBVIOUS
    <2>2. QED
      BY <1>2, <2>1
  <1> HIDE DEF o
  <1>4. n = (IF t.type = "eip1559" THEN 6 ELSE 4)
            + (IF t.data = << >> THEN 0 - 1 ELSE 1) + (IF t.to = << >> THEN 0 ELSE 1)
    BY <1>1, <1>2, <1>3 DEF _getNumItemsEth, HasGasPrice
  <1>5. {GenericIdx(o, i) : i \in 0 .. n - 1} = GenericRows(t)
    <2> HIDE DEF n
    <2>1. QED
      BY <1>2, <1>3, <1>4, GenericIndexes
  <1>6. ASSUME NEW i \in 0 .. n - 1
        PROVE  item(i) = GenericScreen(t, GenericIdx(o, i))
    <2>1. item(i) = printGeneric(buffer, o, i)
      BY <1>1 DEF parser_getItemEth, _getItemEth
    <2>2. item(i).ok
      BY DEF ReviewInv, AllItemsShow, o
    <2>3. GenericIdx(o, i) \in GenericRows(t)
      <3> HIDE DEF n
      <3>1. QED
        BY <1>5
    <2> HIDE DEF item
    <2>4. QED
      BY <1>1, <2>1, <2>2, <2>3, GenericShows
  <1>7. ItemsUpTo(n - 1) = {item(i) : i \in 0 .. n - 1}
    BY DEF ItemsUpTo, o
  <1> HIDE DEF n, item
  <1>8. {item(i) : i \in 0 .. n - 1} = {GenericScreen(t, row) : row \in GenericRows(t)}
    BY <1>5, <1>6
  <1>9. QED
    BY <1>7, <1>8, GenericExpected DEF n, o

LEMMA TransferItems ==
    ASSUME SourceInv, ReviewInv, phase = "review", NEW t \in Transactions, Sent(t),
           IsTransfer(t)
    PROVE  ItemsUpTo(_getNumItemsEth(buffer, eth_tx_obj) - 1) = Expected(t)
  <1> DEFINE o       == eth_tx_obj
             n       == _getNumItemsEth(buffer, o)
             item(i) == parser_getItemEth(buffer, o, i)
  <1>1. /\ buffer \in Seq(Byte) /\ Means(buffer, o, t)
        /\ o.is_erc20_transfer /\ validateERC20(buffer, o.tx)
        /\ o.tx_type = t.type /\ t.type \in {"legacy", "eip2930", "eip1559"}
    BY ReviewMeans DEF Means, Sendable
  <1> HIDE DEF o
  <1>2. n = IF t.type = "eip1559" THEN 10 ELSE 8
    BY <1>1 DEF _getNumItemsEth, HasGasPrice
  <1>3. {TransferIdx(o, i) : i \in 0 .. n - 1} = TransferRows(t)
    <2> HIDE DEF n
    <2>1. QED
      BY <1>1, <1>2, TransferIndexes
  <1>4. ASSUME NEW i \in 0 .. n - 1
        PROVE  item(i) = TransferScreen(t, TransferIdx(o, i))
    <2>1. item(i) = printERC20Transfer(buffer, o, i)
      BY <1>1 DEF parser_getItemEth, _getItemEth
    <2>2. item(i).ok
      BY DEF ReviewInv, AllItemsShow, o
    <2>3. TransferIdx(o, i) \in TransferRows(t)
      <3> HIDE DEF n
      <3>1. QED
        BY <1>3
    <2> HIDE DEF item
    <2>4. QED
      BY <1>1, <2>1, <2>2, <2>3, TransferShows
  <1>5. ItemsUpTo(n - 1) = {item(i) : i \in 0 .. n - 1}
    BY DEF ItemsUpTo, o
  <1> HIDE DEF n, item
  <1>6. {item(i) : i \in 0 .. n - 1} = {TransferScreen(t, row) : row \in TransferRows(t)}
    BY <1>3, <1>4
  <1>7. QED
    BY <1>5, <1>6, TransferExpected DEF n, o

\* Where the approval is offered, the user has seen the transaction the host
\* sent: every field of it, and nothing else.
THEOREM WhatIsSeenIsSigned == Spec => []ApprovalSeesTransaction
  <1>1. SourceInv /\ ReviewInv => ApprovalSeesTransaction
    <2> SUFFICES ASSUME SourceInv, ReviewInv, AtLastItem, NEW t \in Transactions, Sent(t),
                        t.to # << >> \/ t.data # << >>
                 PROVE  shown = Expected(t)
      BY DEF ApprovalSeesTransaction
    <2> DEFINE n == _getNumItemsEth(buffer, eth_tx_obj)
    <2>1. phase = "review" /\ displayIdx = n - 1
      BY DEF AtLastItem
    <2>2. PICK m \in 0 .. n - 1 : displayIdx \in 0 .. m /\ shown = ItemsUpTo(m)
      BY <2>1 DEF SourceInv
    <2>3. shown = ItemsUpTo(n - 1)
      <3> HIDE DEF n
      <3>1. m = n - 1
        BY <2>1, <2>2
      <3>2. QED
        BY <2>2, <3>1
    <2>4. QED
      BY <2>1, <2>3, GenericItems, TransferItems
  <1>2. QED
    BY <1>1, ReviewHasSource, Reviewed, PTL

-----------------------------------------------------------------------------
(* Type correctness: what the parser leaves in eth_tx_obj, and what the    *)
(* display makes of it.                                                    *)

LEMMA ReadKind ==
    ASSUME NEW s, NEW o, NEW end
    PROVE  rlp_read(s, o, end).kind \in Kinds
  <1>1. \A kind \in Kinds : \A header, len :
            Element(o, end, kind, header, len).kind \in Kinds
    BY DEF Element, RlpFailed, Kinds
  <1>2. \A kind \in Kinds : \A n : LongElement(s, o, end, kind, n).kind \in Kinds
    BY <1>1 DEF LongElement, RlpFailed, Kinds
  <1>3. RlpFailed.kind \in Kinds
    BY DEF RlpFailed, Kinds
  <1>4. {"RLP_KIND_BYTE", "RLP_KIND_STRING", "RLP_KIND_LIST"} \subseteq Kinds
    BY DEF Kinds
  <1>5. QED
    BY <1>1, <1>2, <1>3, <1>4 DEF rlp_read

LEMMA AfterKind ==
    ASSUME NEW s, NEW end, NEW r
    PROVE  ReadAfter(s, end, r).kind \in Kinds
  BY ReadKind DEF ReadAfter, RlpFailed, Kinds

\* A chain id that is accepted is a supported one.
SupportedChain(s, chain) ==
    chain.ok => DecodedChainId(s, chain) \in supported_networks_evm

LEMMA ChainSupported ==
    ASSUME NEW s, NEW o, NEW end
    PROVE  SupportedChain(s, readChainID(s, o, end))
  BY DEF readChainID, RlpFailed, SupportedChain

\* The types of the object a parser leaves, without the places of its fields.
ObjectTyped(t) ==
    /\ t.tx_type \in {"none", "legacy", "eip2930", "eip1559"}
    /\ t.chainId \in supported_networks_evm \cup {0}
    /\ \A f \in FieldNames : t.tx[f].kind \in Kinds
    /\ t.is_erc20_transfer \in BOOLEAN
    /\ t.is_blindsign \in BOOLEAN

LEMMA ZeroTyped ==
    ASSUME NEW type \in {"none", "legacy", "eip2930", "eip1559"}
    PROVE  ObjectTyped([ZeroTx EXCEPT !.tx_type = type])
  BY DEF ObjectTyped, ZeroTx, ZeroField, Kinds

LEMMA ParsedTyped ==
    ASSUME NEW s, NEW ok, NEW type \in {"legacy", "eip2930", "eip1559"}, NEW chain,
           SupportedChain(s, chain), NEW elements,
           \A f \in DOMAIN elements : elements[f].kind \in Kinds
    PROVE  ObjectTyped(Parsed(s, ok, type, chain, elements).tx)
  <1> DEFINE field(f) == IF f \in DOMAIN elements /\ elements[f].ok
                         THEN [kind |-> elements[f].kind, at |-> elements[f].at,
                               len |-> elements[f].len]
                         ELSE ZeroField
             id == IF chain.ok THEN DecodedChainId(s, chain) ELSE 0
             t  == Parsed(s, ok, type, chain, elements).tx
  <1>1. /\ t.tx_type = type /\ t.chainId = id /\ t.tx = [f \in FieldNames |-> field(f)]
        /\ t.is_erc20_transfer = FALSE /\ t.is_blindsign = FALSE
    BY DEF Parsed, ZeroTx
  <1>2. \A f \in FieldNames : field(f).kind \in Kinds
    BY DEF ZeroField, Kinds
  <1>3. id \in supported_networks_evm \cup {0}
    BY DEF SupportedChain
  <1> HIDE DEF field, id, t
  <1>4. ObjectTyped(t)
    BY <1>1, <1>2, <1>3 DEF ObjectTyped
  <1>5. QED
    BY <1>4 DEF t

LEMMA LegacyTyped ==
    ASSUME NEW s, NEW o, NEW end
    PROVE  ObjectTyped(parse_legacy_tx(s, o, end).tx)
  <1> DEFINE nonce    == rlp_read(s, o, end)
             gasPrice == ReadAfter(s, end, nonce)
             gasLimit == ReadAfter(s, end, gasPrice)
             to       == ReadAfter(s, end, gasLimit)
             value    == ReadAfter(s, end, to)
             data     == ReadAfter(s, end, value)
             bare     == data.ok /\ data.next = end
             chain    == IF data.ok /\ ~bare THEN readChainID(s, data.next, end)
                                             ELSE RlpFailed
             sig_r    == ReadAfter(s, end, chain)
             sig_s    == ReadAfter(s, end, sig_r)
             elements == [nonce |-> nonce, gasPrice |-> gasPrice, gasLimit |-> gasLimit,
                          to |-> to, value |-> value, data |-> data]
  <1>1. parse_legacy_tx(s, o, end) =
           Parsed(s, bare \/ EmptySignature(s, sig_r, sig_s), "legacy", chain, elements)
    BY DEF parse_legacy_tx
  <1>2. SupportedChain(s, RlpFailed)
    BY DEF SupportedChain, RlpFailed
  <1>3. SupportedChain(s, chain)
    BY <1>2, ChainSupported
  <1> HIDE DEF chain
  <1>4. nonce.kind \in Kinds
    BY ReadKind
  <1>5. /\ gasPrice.kind \in Kinds /\ gasLimit.kind \in Kinds /\ to.kind \in Kinds
        /\ value.kind \in Kinds /\ data.kind \in Kinds
    BY AfterKind
  <1> HIDE DEF nonce, gasPrice, gasLimit, to, value, data, bare, sig_r, sig_s
  <1>6. \A f \in DOMAIN elements : elements[f].kind \in Kinds
    BY <1>4, <1>5
  <1> HIDE DEF elements
  <1>7. QED
    BY <1>1, <1>3, <1>6, ParsedTyped

LEMMA TailKinds ==
    ASSUME NEW s, NEW end, NEW fee
    PROVE  LET tail == TypedTail(s, end, fee)
           IN  /\ tail.gasLimit.kind \in Kinds /\ tail.to.kind \in Kinds
               /\ tail.value.kind \in Kinds /\ tail.data.kind \in Kinds
               /\ tail.access_list.kind \in Kinds
  BY AfterKind DEF TypedTail

LEMMA Typed2930 ==
    ASSUME NEW s, NEW o, NEW end
    PROVE  ObjectTyped(parse_2930(s, o, end).tx)
  <1> DEFINE chain    == readChainID(s, o, end)
             nonce    == ReadAfter(s, end, chain)
             gasPrice == ReadAfter(s, end, nonce)
             tail     == TypedTail(s, end, gasPrice)
             elements == [nonce |-> nonce, gasPrice |-> gasPrice,
                          gasLimit |-> tail.gasLimit, to |-> tail.to,
                          value |-> tail.value, data |-> tail.data,
                          access_list |-> tail.access_list]
  <1>1. parse_2930(s, o, end) = Parsed(s, TypedEnds(tail, end), "eip2930", chain, elements)
    BY DEF parse_2930
  <1>2. SupportedChain(s, chain)
    BY ChainSupported
  <1>3. nonce.kind \in Kinds /\ gasPrice.kind \in Kinds
    BY AfterKind
  <1>4. /\ tail.gasLimit.kind \in Kinds /\ tail.to.kind \in Kinds
        /\ tail.value.kind \in Kinds /\ tail.data.kind \in Kinds
        /\ tail.access_list.kind \in Kinds
    BY TailKinds
  <1> HIDE DEF chain, nonce, gasPrice, tail
  <1>5. \A f \in DOMAIN elements : elements[f].kind \in Kinds
    BY <1>3, <1>4
  <1> HIDE DEF elements
  <1>6. QED
    BY <1>1, <1>2, <1>5, ParsedTyped

LEMMA Typed1559 ==
    ASSUME NEW s, NEW o, NEW end
    PROVE  ObjectTyped(parse_1559(s, o, end).tx)
  <1> DEFINE chain    == readChainID(s, o, end)
             nonce    == ReadAfter(s, end, chain)
             priority == ReadAfter(s, end, nonce)
             fee      == ReadAfter(s, end, priority)
             tail     == TypedTail(s, end, fee)
             elements == [nonce |-> nonce, max_priority_fee_per_gas |-> priority,
                          max_fee_per_gas |-> fee,
                          gasLimit |-> tail.gasLimit, to |-> tail.to,
                          value |-> tail.value, data |-> tail.data,
                          access_list |-> tail.access_list]
  <1>1. parse_1559(s, o, end) = Parsed(s, TypedEnds(tail, end), "eip1559", chain, elements)
    BY DEF parse_1559
  <1>2. SupportedChain(s, chain)
    BY ChainSupported
  <1>3. nonce.kind \in Kinds /\ priority.kind \in Kinds /\ fee.kind \in Kinds
    BY AfterKind
  <1>4. /\ tail.gasLimit.kind \in Kinds /\ tail.to.kind \in Kinds
        /\ tail.value.kind \in Kinds /\ tail.data.kind \in Kinds
        /\ tail.access_list.kind \in Kinds
    BY TailKinds
  <1> HIDE DEF chain, nonce, priority, fee, tail
  <1>5. \A f \in DOMAIN elements : elements[f].kind \in Kinds
    BY <1>3, <1>4
  <1> HIDE DEF elements
  <1>6. QED
    BY <1>1, <1>2, <1>5, ParsedTyped

\* Whatever the bytes, _readEth leaves a typed object.
LEMMA ReadTyped ==
    ASSUME NEW s
    PROVE  ObjectTyped(_readEth(s).tx)
  <1> DEFINE type == readTxnType(s)
             list == rlp_read(s, VersionLen(s), Len(s))
             end  == list.at + list.len
  <1>1. type \in {"eip2930", "eip1559", "unsupported", "legacy"}
    BY DEF readTxnType
  <1>2. \/ _readEth(s).tx = [ZeroTx EXCEPT
              !.tx_type = IF type = "unsupported" THEN "none" ELSE type]
        \/ _readEth(s) = parse_1559(s, list.at, end)
        \/ _readEth(s) = parse_2930(s, list.at, end)
        \/ _readEth(s) = parse_legacy_tx(s, list.at, end)
    BY DEF _readEth
  <1> HIDE DEF type, list, end
  <1>3. (IF type = "unsupported" THEN "none" ELSE type)
            \in {"none", "legacy", "eip2930", "eip1559"}
    BY <1>1
  <1>4. QED
    BY <1>2, <1>3, ZeroTyped, LegacyTyped, Typed2930, Typed1559

\* A set of naturals has a least one.
LEMMA LeastMember ==
    ASSUME NEW S, S \subseteq Nat, S # {}
    PROVE  \E k \in S : \A m \in S : k <= m
  <1> DEFINE less == {p \in Nat \X Nat : p[1] < p[2]}
  <1>1. IsWellFoundedOn(less, Nat)
    BY NatLessThanWellFounded DEF OpToRel
  <1> HIDE DEF less
  <1>2. PICK k \in S : \A m \in S : ~(<< m, k >> \in less)
    BY <1>1, WFMin
  <1>3. ASSUME NEW m \in S
        PROVE  k <= m
    <2>1. m \in Nat /\ k \in Nat
      OBVIOUS
    <2>2. << m, k >> \in less <=> m < k
      BY <2>1 DEF less
    <2>3. QED
      BY <1>2, <2>1, <2>2
  <1>4. QED
    BY <1>3

\* A part of a byte string is a row of numbers.
LEMMA PartType ==
    ASSUME NEW s \in Seq(Byte), NEW i \in Nat \ {0}, NEW j \in Nat, j <= Len(s)
    PROVE  SubSeq(s, i, j) \in Seq(Byte)
  OBVIOUS

LEMMA BytesAreNumbers == \A x \in Seq(Byte) : x \in Seq(Nat)
  <1>1. Byte \subseteq Nat
    BY DEF Byte
  <1>2. QED
    BY <1>1, SeqMonotonic, Zenon

LEMMA NumberType ==
    ASSUME NEW x \in Seq(Byte)
    PROVE  Number(x) \in Seq(Nat)
  <1> DEFINE nonzero == {k \in 1 .. Len(x) : x[k] # 0}
             IsFirst(k) == x[k] # 0 /\ \A j \in 1 .. k - 1 : x[j] = 0
             first == CHOOSE k \in 1 .. Len(x) : IsFirst(k)
  <1>1. CASE nonzero = {}
    <2>1. Number(x) = << >>
      BY <1>1 DEF Number
    <2>2. QED
      BY <2>1
  <1>2. CASE nonzero # {}
    <2>1. nonzero \subseteq Nat
      OBVIOUS
    <2>2. PICK k \in nonzero : \A m \in nonzero : k <= m
      BY <1>2, <2>1, LeastMember
    <2>3. ASSUME NEW j \in 1 .. k - 1
          PROVE  x[j] = 0
      <3>1. j \in 1 .. Len(x) /\ ~(k <= j)
        BY <2>2
      <3>2. j \notin nonzero
        BY <2>2, <3>1
      <3>3. QED
        BY <3>1, <3>2
    <2>4. first \in 1 .. Len(x)
      <3>1. k \in 1 .. Len(x) /\ IsFirst(k)
        BY <2>2, <2>3
      <3> HIDE DEF IsFirst
      <3>2. QED
        BY <3>1
    <2>5. Number(x) = SubSeq(x, first, Len(x))
      <3>1. DOMAIN x = 1 .. Len(x)
        OBVIOUS
      <3>2. ~\A i \in DOMAIN x : x[i] = 0
        BY <1>2, <3>1
      <3>3. QED
        BY <3>1, <3>2 DEF Number
    <2> HIDE DEF first
    <2>6. SubSeq(x, first, Len(x)) \in Seq(Byte)
      BY <2>4, PartType
    <2>7. QED
      BY <2>5, <2>6, BytesAreNumbers
  <1>3. QED
    BY <1>1, <1>2

LEMMA FailedType == Failed \in Items
  <1>1. Blank \in Seq(Seq(Nat))
    BY DEF Blank
  <1> HIDE DEF Blank
  <1>2. QED
    BY <1>1 DEF Failed, Items, Titles

LEMMA ShownType == \A key \in Titles : \A text \in Seq(Seq(Nat)) : Shown(key, text) \in Items
  BY DEF Shown, Items

\* The payload of an element that lies in the buffer.
LEMMA PayloadType ==
    ASSUME NEW s \in Seq(Byte), NEW r, r.at \in Nat, r.len \in Nat, r.at + r.len <= Len(s)
    PROVE  Payload(s, r) \in Seq(Byte) /\ Number(Payload(s, r)) \in Seq(Nat)
  <1>1. r.at + 1 \in Nat \ {0} /\ r.at + r.len \in Nat
    OBVIOUS
  <1>2. Payload(s, r) \in Seq(Byte)
    BY <1>1, PartType DEF Payload
  <1>3. QED
    BY <1>2, NumberType

\* Each kind of screen, of fields that lie in the buffer.
LEMMA NumberItem ==
    ASSUME NEW s \in Seq(Byte), NEW r, r.at \in Nat, r.len \in Nat, r.at + r.len <= Len(s),
           NEW key \in Titles
    PROVE  printRLPNumber(s, key, r) \in Items
  <1>1. Number(Payload(s, r)) \in Seq(Nat)
    BY PayloadType
  <1>2. << Number(Payload(s, r)) >> \in Seq(Seq(Nat))
    BY <1>1
  <1>3. QED
    BY <1>2, ShownType, FailedType DEF printRLPNumber

LEMMA FeesItem ==
    ASSUME NEW s \in Seq(Byte), NEW t, FieldsBefore(t, Len(s))
    PROVE  printEVMMaxFees(s, t) \in Items
  <1>1. \A f \in FieldNames : Number(Payload(s, t.tx[f])) \in Seq(Nat)
    BY PayloadType DEF FieldsBefore
  <1>2. /\ Number(Payload(s, t.tx.gasLimit)) \in Seq(Nat)
        /\ Number(Payload(s, t.tx.gasPrice)) \in Seq(Nat)
    BY <1>1 DEF FieldNames
  <1>3. << Number(Payload(s, t.tx.gasLimit)), Number(Payload(s, t.tx.gasPrice)) >>
            \in Seq(Seq(Nat))
    BY <1>2
  <1>4. QED
    BY <1>3, ShownType, FailedType DEF printEVMMaxFees, Titles

LEMMA AddressItem ==
    ASSUME NEW s \in Seq(Byte), NEW at \in Nat, NEW key \in Titles
    PROVE  printEVMAddress(s, key, at) \in Items
  <1> DEFINE byte(k) == IF at + k <= Len(s) THEN s[at + k] ELSE Unknown
             address == [k \in 1 .. ETH_ADDRESS_LEN |-> byte(k)]
  <1>1. \A b \in Byte : b \in Nat
    BY DEF Byte
  <1>2. ASSUME NEW k \in 1 .. ETH_ADDRESS_LEN
        PROVE  byte(k) \in Nat
    <2>1. at + k \in Nat \ {0}
      BY DEF ETH_ADDRESS_LEN
    <2>2. at + k <= Len(s) => s[at + k] \in Byte
      BY <2>1
    <2>3. at + k <= Len(s) => s[at + k] \in Nat
      BY <1>1, <2>2
    <2>4. QED
      BY <2>3 DEF Unknown
  <1>3. address \in Seq(Nat)
    <2> HIDE DEF byte
    <2>1. ETH_ADDRESS_LEN \in Nat
      BY DEF ETH_ADDRESS_LEN
    <2>2. QED
      BY <1>2, <2>1, IsASeq
  <1>4. printEVMAddress(s, key, at) = Shown(key, << address >>)
    BY DEF printEVMAddress
  <1> HIDE DEF address
  <1>5. << address >> \in Seq(Seq(Nat))
    BY <1>3
  <1>6. QED
    BY <1>4, <1>5, ShownType

LEMMA AmountItem ==
    ASSUME NEW s \in Seq(Byte), NEW r, r.at \in Nat, r.len \in Nat, r.at + r.len <= Len(s)
    PROVE  printAmount(s, r) \in Items
  <1>1. Number(Payload(s, r)) \in Seq(Nat)
    BY PayloadType
  <1>2. << Number(Payload(s, r)) >> \in Seq(Seq(Nat)) /\ Blank \in Seq(Seq(Nat))
    BY <1>1 DEF Blank
  <1>3. (IF r.len <= 64 THEN << Number(Payload(s, r)) >> ELSE Blank) \in Seq(Seq(Nat))
    BY <1>2
  <1>4. QED
    BY <1>3, ShownType DEF printAmount, Titles

LEMMA DataItem ==
    ASSUME NEW s \in Seq(Byte), NEW r, r.at \in Nat, r.len \in Nat, r.at + r.len <= Len(s)
    PROVE  printData(s, r) \in Items
  <1> DEFINE n == MinOf(r.len, DATA_BYTES_TO_PRINT)
  <1>1. n \in Nat /\ n <= r.len
    BY DEF MinOf, DATA_BYTES_TO_PRINT
  <1> HIDE DEF n
  <1>2. SubSeq(s, r.at + 1, r.at + n) \in Seq(Byte)
    <2>1. r.at + 1 \in Nat \ {0} /\ r.at + n \in Nat /\ r.at + n <= Len(s)
      BY <1>1
    <2>2. QED
      BY <2>1, PartType
  <1>3. << SubSeq(s, r.at + 1, r.at + n) >> \in Seq(Seq(Nat))
    <2>1. PICK part : part = SubSeq(s, r.at + 1, r.at + n)
      OBVIOUS
    <2>2. part \in Seq(Nat)
      BY <1>2, <2>1, BytesAreNumbers
    <2>3. << part >> \in Seq(Seq(Nat))
      BY <2>2
    <2>4. QED
      BY <2>1, <2>3
  <1>4. QED
    BY <1>3, ShownType DEF printData, n, Titles

LEMMA NetworkItem ==
    ASSUME NEW t
    PROVE  printNetwork(t) \in Items
  <1>1. t.chainId \in supported_networks_evm => << << t.chainId >> >> \in Seq(Seq(Nat))
    BY DEF supported_networks_evm, SEI_MAINNET_CHAINID, SEI_DEVNET_CHAINID
  <1>2. QED
    BY <1>1, ShownType, FailedType DEF printNetwork, Titles

\* The amount of a transfer lies in the buffer because the lengths of the
\* recipient and of the data are those of a transfer.
LEMMA TokenItem ==
    ASSUME NEW s \in Seq(Byte), NEW t, FieldsBefore(t, Len(s)), validateERC20(s, t.tx)
    PROVE  printERC20Value(s, t) \in Items
  <1> DEFINE to   == t.tx.to.at
             data == t.tx.data.at
  <1>1. /\ to \in Nat /\ to + 20 <= Len(s) /\ data \in Nat /\ data + 68 <= Len(s)
    BY DEF FieldsBefore, FieldNames, validateERC20, ETH_ADDRESS_LEN, ERC20_DATA_LENGTH
  <1> HIDE DEF to, data
  <1>2. SubSeq(s, to + 1, to + 20) \in Seq(Byte)
    <2>1. to + 1 \in Nat \ {0} /\ to + 20 \in Nat
      BY <1>1
    <2>2. QED
      BY <1>1, <2>1, PartType
  <1>3. SubSeq(s, data + 37, data + 68) \in Seq(Byte)
    <2>1. data + 37 \in Nat \ {0} /\ data + 68 \in Nat
      BY <1>1
    <2>2. QED
      BY <1>1, <2>1, PartType
  <1>4. << SubSeq(s, to + 1, to + 20), Number(SubSeq(s, data + 37, data + 68)) >>
            \in Seq(Seq(Nat))
    <2>1. PICK token, amount : /\ token = SubSeq(s, to + 1, to + 20)
                               /\ amount = SubSeq(s, data + 37, data + 68)
      OBVIOUS
    <2>2. token \in Seq(Nat)
      BY <1>2, <2>1, BytesAreNumbers
    <2>3. Number(amount) \in Seq(Nat)
      BY <1>3, <2>1, NumberType
    <2>4. << token, Number(amount) >> \in Seq(Seq(Nat))
      BY <2>2, <2>3
    <2>5. QED
      BY <2>1, <2>4
  <1>5. QED
    BY <1>4, ShownType DEF printERC20Value, to, data, ETH_ADDRESS_LEN, Titles

\* Whatever its row, an item of fields that lie in the buffer is typed.
LEMMA GenericItem ==
    ASSUME NEW s \in Seq(Byte), NEW t, FieldsBefore(t, Len(s)), NEW i
    PROVE  printGeneric(s, t, i) \in Items
  <1> DEFINE row == GenericIdx(t, i)
  <1>1. \A f \in FieldNames : /\ t.tx[f].at \in Nat /\ t.tx[f].len \in Nat
                              /\ t.tx[f].at + t.tx[f].len <= Len(s)
    BY DEF FieldsBefore
  <1>2. printEVMAddress(s, "To", t.tx.to.at) \in Items
    BY <1>1, AddressItem DEF FieldNames, Titles
  <1>3. printAmount(s, t.tx.value) \in Items
    BY <1>1, AmountItem DEF FieldNames
  <1>4. printData(s, t.tx.data) \in Items
    BY <1>1, DataItem DEF FieldNames
  <1>5. \A f \in FieldNames : \A key \in Titles : printRLPNumber(s, key, t.tx[f]) \in Items
    BY <1>1, NumberItem
  <1>6. /\ printRLPNumber(s, "Max Priority Fee", t.tx.max_priority_fee_per_gas) \in Items
        /\ printRLPNumber(s, "Max Fee", t.tx.max_fee_per_gas) \in Items
        /\ printRLPNumber(s, "Gas limit", t.tx.gasLimit) \in Items
        /\ printRLPNumber(s, "Nonce", t.tx.nonce) \in Items
    BY <1>5 DEF FieldNames, Titles
  <1>7. printEVMMaxFees(s, t) \in Items
    BY FeesItem
  <1>8. Shown("EVM Hash", << s >>) \in Items
    <2>1. s \in Seq(Nat)
      BY BytesAreNumbers
    <2>2. << s >> \in Seq(Seq(Nat))
      BY <2>1
    <2>3. QED
      BY <2>2, ShownType DEF Titles
  <1>9. CASE row \in 0 .. 8
    <2>1. PICK r \in 0 .. 8 : GenericIdx(t, i) = r
      BY <1>9
    <2>2. r \in {0, 1, 2, 3, 4, 5, 6, 7, 8}
      OBVIOUS
    <2>3. QED
      BY <1>2, <1>3, <1>4, <1>6, <1>7, <1>8, <2>1, <2>2, GenericRow
  <1>10. CASE row \notin 0 .. 8
    <2>1. printGeneric(s, t, i) = Failed
      BY <1>10, Zenon DEF printGeneric
    <2>2. QED
      BY <2>1, FailedType
  <1>11. QED
    BY <1>9, <1>10

LEMMA TransferItem ==
    ASSUME NEW s \in Seq(Byte), NEW t, FieldsBefore(t, Len(s)), validateERC20(s, t.tx),
           NEW i
    PROVE  printERC20Transfer(s, t, i) \in Items
  <1> DEFINE row == TransferIdx(t, i)
  <1>1. \A f \in FieldNames : /\ t.tx[f].at \in Nat /\ t.tx[f].len \in Nat
                              /\ t.tx[f].at + t.tx[f].len <= Len(s)
    BY DEF FieldsBefore
  <1>2. /\ printEVMAddress(s, "Receiver", t.tx.data.at + 16) \in Items
        /\ printEVMAddress(s, "Contract", t.tx.to.at) \in Items
    <2>1. t.tx.data.at \in Nat /\ t.tx.to.at \in Nat
      BY <1>1 DEF FieldNames
    <2>2. t.tx.data.at + 16 \in Nat
      BY <2>1
    <2>3. QED
      BY <2>1, <2>2, AddressItem DEF Titles
  <1>3. printNetwork(t) \in Items
    BY NetworkItem
  <1>4. printERC20Value(s, t) \in Items
    BY TokenItem
  <1>5. \A f \in FieldNames : \A key \in Titles : printRLPNumber(s, key, t.tx[f]) \in Items
    BY <1>1, NumberItem
  <1>6. /\ printRLPNumber(s, "Nonce", t.tx.nonce) \in Items
        /\ printRLPNumber(s, "Max Priority Fee", t.tx.max_priority_fee_per_gas) \in Items
        /\ printRLPNumber(s, "Max Fee", t.tx.max_fee_per_gas) \in Items
        /\ printRLPNumber(s, "Gas limit", t.tx.gasLimit) \in Items
        /\ printRLPNumber(s, "Value", t.tx.value) \in Items
    BY <1>5 DEF FieldNames, Titles
  <1>7. printEVMMaxFees(s, t) \in Items
    BY FeesItem
  <1>8. printData(s, t.tx.data) \in Items
    BY <1>1, DataItem DEF FieldNames
  <1>9. CASE row \in 0 .. 10
    <2>1. PICK r \in 0 .. 10 : TransferIdx(t, i) = r
      BY <1>9
    <2>2. r \in {0, 1, 2, 3, 4, 5, 6, 7, 8, 9, 10}
      OBVIOUS
    <2>3. QED
      BY ZenonT(60), <1>2, <1>3, <1>4, <1>6, <1>7, <1>8, <2>1, <2>2, TransferRow
  <1>10. CASE row \notin 0 .. 10
    <2>1. printERC20Transfer(s, t, i) = Failed
      BY <1>10, Zenon DEF printERC20Transfer, TransferIdx
    <2>2. QED
      BY <2>1, FailedType
  <1>11. QED
    BY <1>9, <1>10

LEMMA ItemType ==
    ASSUME NEW s \in Seq(Byte), NEW t, FieldsBefore(t, Len(s)),
           t.is_erc20_transfer => validateERC20(s, t.tx), NEW i
    PROVE  parser_getItemEth(s, t, i) \in Items
  <1>1. _getItemEth(s, t, i) \in Items
    BY GenericItem, TransferItem DEF _getItemEth
  <1>2. QED
    BY <1>1, FailedType DEF parser_getItemEth

LEMMA VType ==
    ASSUME NEW t, ObjectTyped(t), NEW parity \in {0, 1}, NEW personal \in BOOLEAN
    PROVE  _computeV(t, parity, personal) \in Byte
  <1>1. \A n \in Nat : n % 256 \in Byte
    BY DEF Byte
  <1>2. 27 + parity \in Byte /\ parity \in Byte
    BY DEF Byte
  <1>3. saturating_add_u32(EIP155_V_BASE + parity, ((t.chainId % U32) * 2) % U32) \in Nat
    <2>1. U32 \in Nat \ {0}
      BY WidthAssumption
    <2>2. t.chainId \in Nat
      BY DEF ObjectTyped, supported_networks_evm, SEI_MAINNET_CHAINID, SEI_DEVNET_CHAINID
    <2>3. t.chainId % U32 \in Nat
      BY <2>1, <2>2
    <2>4. \A n \in Nat : n % U32 \in Nat
      BY <2>1
    <2>5. ((t.chainId % U32) * 2) % U32 \in Nat
      BY <2>3, <2>4
    <2>6. EIP155_V_BASE + parity \in Nat
      BY DEF EIP155_V_BASE
    <2>7. \A a, b \in Nat : saturating_add_u32(a, b) \in Nat
      BY <2>1 DEF saturating_add_u32
    <2>8. QED
      BY <2>5, <2>6, <2>7
  <1>4. QED
    BY <1>1, <1>2, <1>3 DEF _computeV, ETHEREUM_RECOVERY_OFFSET

\* The object and the places of its fields.
ObjectOK(t) ==
    /\ ObjectTyped(t)
    /\ \A f \in FieldNames : t.tx[f].at \in Nat /\ t.tx[f].len \in Nat

LEMMA ObjectParts ==
    TypeOK <=> /\ buffer \in Seq(Byte)
               /\ ObjectOK(eth_tx_obj)
               /\ blindsign \in BOOLEAN
               /\ phase \in {"idle", "review"}
               /\ result \in {"ok", "refused", "blindsign_mode_required"}
               /\ displayIdx \in Nat
               /\ shown \subseteq Items
               /\ v \in [value : Byte, parity : {0, 1}, personal : BOOLEAN]
  BY DEF TypeOK, ObjectOK, ObjectTyped

\* The object keeps its type when the validation sets its flags.
LEMMA ValidatedType ==
    ASSUME NEW s \in Seq(Byte)
    PROVE  LET p == _readEth(s).tx
               t == Validated(s, p)
           IN  /\ ObjectOK(p) /\ ObjectOK(t) /\ FieldsBefore(t, Len(s))
               /\ t.is_erc20_transfer => validateERC20(s, t.tx)
  <1> DEFINE p == _readEth(s).tx
             t == Validated(s, p)
  <1>1. ObjectTyped(p) /\ FieldsBefore(p, Len(s))
    BY ReadTyped, ReadEthBefore
  <1>2. /\ t.tx_type = p.tx_type /\ t.chainId = p.chainId /\ t.tx = p.tx
        /\ t.is_blindsign = IsBlind(s, p)
        /\ t.is_erc20_transfer = validateERC20(s, p.tx)
    BY ReadDomain
  <1>3. IsBlind(s, p) \in BOOLEAN /\ validateERC20(s, p.tx) \in BOOLEAN
    BY DEF IsBlind, validateERC20
  <1> HIDE DEF p, t
  <1>4. FieldsBefore(t, Len(s))
    BY <1>1, <1>2 DEF FieldsBefore
  <1>5. ObjectTyped(t)
    BY <1>1, <1>2, <1>3 DEF ObjectTyped
  <1>6. ObjectOK(p) /\ ObjectOK(t)
    BY <1>1, <1>4, <1>5 DEF ObjectOK, FieldsBefore
  <1>7. QED
    BY <1>2, <1>4, <1>6 DEF p, t

LEMMA ParseType ==
    ASSUME TypeOK, NEW s \in Blobs, HandleSignEth(s)
    PROVE  TypeOK'
  <1> DEFINE parsed == parser_parse_eth(s, eth_tx_obj)
             t      == IF parsed.ok THEN Validated(s, parsed.tx) ELSE parsed.tx
  <1>1. /\ buffer' = s /\ eth_tx_obj' = t /\ v' = NoSignature /\ blindsign' = blindsign
        /\ result' \in {"ok", "refused", "blindsign_mode_required"}
        /\ \/ /\ parsed.ok /\ phase' = "review" /\ displayIdx' = 0
              /\ shown' = {parser_getItemEth(s, t, 0)}
           \/ UNCHANGED << phase, displayIdx, shown >>
    BY DEF HandleSignEth, ReviewOrRefuse
  <1>2. s \in Seq(Byte)
    BY BlobAssumption
  <1>3. \/ parsed = _readEth(s)
        \/ parsed.ok = FALSE /\ parsed.tx = eth_tx_obj
    BY DEF parser_parse_eth
  <1> HIDE DEF parsed
  <1>4. ObjectOK(t)
    <2>1. CASE parsed = _readEth(s)
      BY <1>2, <2>1, ValidatedType
    <2>2. CASE parsed.ok = FALSE /\ parsed.tx = eth_tx_obj
      BY <2>2, ObjectParts
    <2>3. QED
      BY <1>3, <2>1, <2>2
  <1>5. parsed.ok => parser_getItemEth(s, t, 0) \in Items
    <2> SUFFICES ASSUME parsed.ok
                 PROVE  parser_getItemEth(s, t, 0) \in Items
      OBVIOUS
    <2>1. t = Validated(s, _readEth(s).tx)
      BY <1>3
    <2> HIDE DEF t
    <2>2. FieldsBefore(t, Len(s)) /\ (t.is_erc20_transfer => validateERC20(s, t.tx))
      BY <1>2, <2>1, ValidatedType
    <2>3. QED
      BY <1>2, <2>2, ItemType
  <1> HIDE DEF t
  <1>6. v' \in [value : Byte, parity : {0, 1}, personal : BOOLEAN]
    BY <1>1 DEF NoSignature, Byte
  <1>7. QED
    BY <1>1, <1>2, <1>4, <1>5, <1>6, ObjectParts DEF TypeOK, ObjectOK, ObjectTyped

LEMMA TypeStep == TypeOK /\ ReviewInv /\ SourceInv /\ [Next]_vars => TypeOK'
  <1> SUFFICES ASSUME TypeOK, ReviewInv, SourceInv, [Next]_vars
               PROVE  TypeOK'
    OBVIOUS
  <1>1. ASSUME NEW s \in Blobs, HandleSignEth(s)
        PROVE  TypeOK'
    BY <1>1, ParseType
  <1>2. ASSUME NEW i \in {displayIdx - 1, displayIdx + 1}, ShowItem(i)
        PROVE  TypeOK'
    <2>1. /\ phase = "review" /\ i \in 0 .. _getNumItemsEth(buffer, eth_tx_obj) - 1
          /\ displayIdx' = i
          /\ shown' = shown \cup {parser_getItemEth(buffer, eth_tx_obj, i)}
          /\ UNCHANGED << buffer, eth_tx_obj, blindsign, phase, result, v >>
      BY <1>2 DEF ShowItem
    <2>2. /\ buffer \in Seq(Byte)
          /\ eth_tx_obj = Validated(buffer, _readEth(buffer).tx)
      BY <2>1 DEF SourceInv
    <2>3. /\ FieldsBefore(eth_tx_obj, Len(buffer))
          /\ eth_tx_obj.is_erc20_transfer => validateERC20(buffer, eth_tx_obj.tx)
      BY <2>2, ValidatedType
    <2>4. parser_getItemEth(buffer, eth_tx_obj, i) \in Items
      BY <2>2, <2>3, ItemType
    <2>5. i \in Nat
      BY <2>1
    <2>6. shown' \subseteq Items
      BY <2>1, <2>4 DEF TypeOK
    <2>7. QED
      BY <2>1, <2>5, <2>6 DEF TypeOK
  <1>3. ASSUME NEW parity \in {0, 1}, Approve(parity)
        PROVE  TypeOK'
    <2>1. _computeV(eth_tx_obj, parity, FALSE) \in Byte
      BY VType, ObjectParts DEF ObjectOK
    <2>2. QED
      BY <1>3, <2>1 DEF Approve, EndReview, TypeOK
  <1>4. ASSUME NEW parity \in {0, 1}, SignPersonalMessage(parity)
        PROVE  TypeOK'
    <2>1. _computeV(eth_tx_obj, parity, TRUE) \in Byte
      BY VType, ObjectParts DEF ObjectOK
    <2>2. buffer' \in Seq(Byte)
      BY <1>4, BlobAssumption DEF SignPersonalMessage
    <2>3. QED
      BY <1>4, <2>1, <2>2 DEF SignPersonalMessage, TypeOK
  <1>5. ASSUME Reject
        PROVE  TypeOK'
    BY <1>5 DEF Reject, EndReview, TypeOK
  <1>6. ASSUME ToggleBlindsign
        PROVE  TypeOK'
    BY <1>6 DEF ToggleBlindsign, TypeOK
  <1>7. ASSUME UNCHANGED vars
        PROVE  TypeOK'
    BY <1>7 DEF vars, TypeOK
  <1>8. QED
    BY <1>1, <1>2, <1>3, <1>4, <1>5, <1>6, <1>7 DEF Next

\* Every variable keeps its type: the object is typed after every parse,
\* accepted or not, each item on the screen is made of bytes of the buffer, and
\* v is a byte.
THEOREM TypeCorrect == Spec => []TypeOK
  <1>1. Init => TypeOK
    BY DEF Init, TypeOK, ZeroTx, ZeroField, Kinds, NoSignature, Byte
  <1>2. QED
    BY <1>1, TypeStep, Reviewed, ReviewHasSource, PTL DEF Spec
=============================================================================
