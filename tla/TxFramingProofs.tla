-------------------------- MODULE TxFramingProofs --------------------------
(***************************************************************************)
(* Facts about the operators of TxFraming that the proofs about the        *)
(* command layer rest on.                                                  *)
(***************************************************************************)
EXTENDS TxFraming, SequenceTheorems, TLAPS

\* uint32_t subtraction stays in its type (the chunk handlers' rx - OFFSET_DATA
\* and bytes_to_read -= len).
LEMMA Sub32Type ==
    ASSUME NEW a \in 0 .. U32 - 1, NEW b \in 0 .. U32 - 1
    PROVE  Sub32(a, b) \in 0 .. U32 - 1
  BY WidthAssumption DEF Sub32

\* A byte is a number.
LEMMA ByteRange == \A b \in Byte : b \in 0 .. 255 /\ b \in Nat
  BY DEF Byte

\* One step of Horner's rule.
LEMMA HornerNat == \A acc \in Nat, b \in 0 .. 255 : 256 * acc + b \in Nat
  OBVIOUS

\* A number of up to eight bytes is a natural number (be_bytes_to_u64).
LEMMA BigEndianType ==
    ASSUME NEW s \in Seq(Byte), NEW from \in 1 .. Len(s), NEW n \in 1 .. 8,
           from + n - 1 <= Len(s)
    PROVE  be_bytes_to_u64(s, from, n) \in Nat
  <1> DEFINE step(i, acc) == (IF i < n THEN 256 ELSE 1) * acc
                             + (IF i < n THEN s[from + i] ELSE 0)
  <1>1. \A i \in 0 .. 7, acc \in Nat : step(i, acc) \in Nat
    <2>1. SUFFICES ASSUME NEW i \in 0 .. 7, NEW acc \in Nat
                   PROVE  step(i, acc) \in Nat
      OBVIOUS
    <2>2. CASE i < n
      <3>1. s[from + i] \in Byte
        BY <2>2
      <3>2. step(i, acc) = 256 * acc + s[from + i]
        BY <2>2
      <3> HIDE DEF step
      <3>3. QED
        BY SMTT(60), <3>1, <3>2, ByteRange, HornerNat
    <2>3. CASE ~(i < n)
      <3>1. step(i, acc) = acc
        BY <2>3
      <3> HIDE DEF step
      <3>2. QED
        BY <3>1
    <2>4. QED
      BY <2>2, <2>3
  <1>2. be_bytes_to_u64(s, from, n) =
        step(7, step(6, step(5, step(4, step(3, step(2, step(1, step(0, 0))))))))
    BY DEF be_bytes_to_u64
  <1> HIDE DEF step
  <1>places. /\ 1 \in 0 .. 7 /\ 2 \in 0 .. 7 /\ 3 \in 0 .. 7 /\ 4 \in 0 .. 7
             /\ 5 \in 0 .. 7 /\ 6 \in 0 .. 7 /\ 7 \in 0 .. 7
    OBVIOUS
  <1>3. step(0, 0) \in Nat
    BY <1>1
  <1>4. step(1, step(0, 0)) \in Nat
    BY <1>1, <1>3, <1>places, Zenon
  <1>5. step(2, step(1, step(0, 0))) \in Nat
    BY <1>1, <1>4, <1>places, Zenon
  <1>6. step(3, step(2, step(1, step(0, 0)))) \in Nat
    BY <1>1, <1>5, <1>places, Zenon
  <1>7. step(4, step(3, step(2, step(1, step(0, 0))))) \in Nat
    BY <1>1, <1>6, <1>places, Zenon
  <1>8. step(5, step(4, step(3, step(2, step(1, step(0, 0)))))) \in Nat
    BY <1>1, <1>7, <1>places, Zenon
  <1>9. step(6, step(5, step(4, step(3, step(2, step(1, step(0, 0))))))) \in Nat
    BY <1>1, <1>8, <1>places, Zenon
  <1>10. step(7, step(6, step(5, step(4, step(3, step(2, step(1, step(0, 0)))))))) \in Nat
    BY <1>1, <1>9, <1>places, Zenon
  <1>11. QED
    BY <1>2, <1>10

\* The header a transaction declares is at most ten bytes and its length a
\* natural number, whatever the bytes are (get_tx_rlp_len).
LEMMA RlpLenType ==
    ASSUME NEW buf \in Seq(Byte), NEW residue \in Seq(Byte), Len(residue) >= 10
    PROVE  /\ get_tx_rlp_len(buf, residue).ok \in BOOLEAN
           /\ get_tx_rlp_len(buf, residue).read \in 0 .. 10
           /\ get_tx_rlp_len(buf, residue).to_read \in Nat
  <1> DEFINE data     == buf \o residue
             version  == VersionLen(data)
             marker   == data[version + 1]
             numBytes == marker - 247
  <1>1. data \in Seq(Byte) /\ Len(data) >= 10
    OBVIOUS
  <1>2. version \in {0, 1}
    BY DEF VersionLen
  <1>3. numBytes = marker - 247
    OBVIOUS
  <1>4. get_tx_rlp_len(buf, residue) =
          IF buf = << >> \/ marker < 192
          THEN RlpError
          ELSE IF marker <= 247
          THEN [ok |-> TRUE, read |-> version + 1, to_read |-> marker - 192]
          ELSE [ok |-> TRUE, read |-> version + 1 + numBytes,
                to_read |-> be_bytes_to_u64(data, version + 2, numBytes)]
    BY DEF get_tx_rlp_len
  <1>5. marker = data[version + 1]
    OBVIOUS
  <1> HIDE DEF data, version, marker, numBytes
  <1>6. marker \in 0 .. 255
    <2>1. marker \in Byte
      BY <1>1, <1>2, <1>5
    <2>2. QED
      BY <2>1, ByteRange
  <1>7. marker > 247 => be_bytes_to_u64(data, version + 2, numBytes) \in Nat
    <2>1. SUFFICES ASSUME marker > 247
                   PROVE  be_bytes_to_u64(data, version + 2, numBytes) \in Nat
      OBVIOUS
    <2>2. numBytes \in 1 .. 8
      BY <1>3, <1>6, <2>1
    <2>3. version + 2 \in 1 .. Len(data) /\ version + 2 + numBytes - 1 <= Len(data)
      BY <1>1, <1>2, <2>2
    <2>4. QED
      BY <1>1, <2>2, <2>3, BigEndianType
  <1>8. CASE buf = << >> \/ marker < 192
    BY <1>4, <1>8 DEF RlpError
  <1>9. CASE ~(buf = << >> \/ marker < 192) /\ marker <= 247
    BY <1>2, <1>4, <1>6, <1>9
  <1>10. CASE ~(buf = << >> \/ marker < 192) /\ marker > 247
    BY <1>2, <1>3, <1>4, <1>6, <1>7, <1>10
  <1>11. QED
    BY <1>6, <1>8, <1>9, <1>10

\* The length an EIP-191 upload declares is a uint32_t (U4BE).
LEMMA DeclaredType ==
    ASSUME NEW s \in Seq(Byte), Len(s) >= 4
    PROVE  U4BE(s) \in Nat /\ U4BE(s) % U32 \in 0 .. U32 - 1
  <1>1. s[1] \in Byte /\ s[2] \in Byte /\ s[3] \in Byte /\ s[4] \in Byte
    OBVIOUS
  <1>2. /\ s[1] \in Nat          /\ s[2] \in 0 .. 255
        /\ s[3] \in 0 .. 255 /\ s[4] \in 0 .. 255
    BY <1>1, ByteRange, Zenon
  <1>3. 256 * s[1] + s[2] \in Nat
    BY <1>2, HornerNat, Zenon
  <1>4. 256 * (256 * s[1] + s[2]) + s[3] \in Nat
    BY ZenonT(60), <1>2, <1>3, HornerNat
  <1>5. U4BE(s) \in Nat
    BY ZenonT(60), <1>2, <1>4, HornerNat DEF U4BE
  <1>6. QED
    BY <1>5, WidthAssumption

\* What is still missing of a transaction is never negative: both uint64_t
\* subtractions of the MORE handler stay in their type.
LEMMA Sub64Type ==
    ASSUME NEW held \in 0 .. U32 - 1, NEW read \in 0 .. 10, NEW toRead \in Nat
    PROVE  Sub64(toRead, Sub64(held, read)) \in Nat
  <1>1. Sub64(held, read) \in 0 .. U64
    BY WidthAssumption DEF Sub64
  <1>2. QED
    BY <1>1, WidthAssumption DEF Sub64

\* Counting a first part and then a second one off a length is counting them
\* off together, wrap or not (bytes_to_read over several chunks).
LEMMA Sub32Twice ==
    ASSUME NEW d \in 0 .. U32 - 1, NEW m \in Nat, NEW n \in Nat, m + n < U32
    PROVE  Sub32(Sub32(d, m), n) = Sub32(d, m + n)
  BY WidthAssumption DEF Sub32

\* What is counted down to zero was the whole length.
LEMMA Sub32Zero ==
    ASSUME NEW d \in 0 .. U32 - 1, NEW n \in 0 .. U32 - 1, Sub32(d, n) = 0
    PROVE  d = n
  BY WidthAssumption DEF Sub32

\* The declared length is in the first four bytes.
LEMMA U4BEPrefix ==
    ASSUME NEW s \in Seq(Byte), NEW t \in Seq(Byte), Len(s) >= 4
    PROVE  U4BE(s \o t) = U4BE(s)
  <1>1. /\ (s \o t)[1] = s[1] /\ (s \o t)[2] = s[2]
        /\ (s \o t)[3] = s[3] /\ (s \o t)[4] = s[4]
    OBVIOUS
  <1>2. QED
    BY ZenonT(60), <1>1 DEF U4BE
-----------------------------------------------------------------------------
(* The header of a transaction is read from the bytes that belong to it.    *)

\* The first byte of the list, and the number of bytes of its length.
Marker(buf) == buf[VersionLen(buf) + 1]

SizeBytes(buf) == IF Marker(buf) > 247 THEN Marker(buf) - 247 ELSE 0

ListSize(buf) == be_bytes_to_u64(buf, VersionLen(buf) + 2, SizeBytes(buf))

\* What a header says that is whole.
Header(buf) ==
    IF Marker(buf) < 192 THEN RlpError
    ELSE [ok |-> TRUE, read |-> VersionLen(buf) + 1 + SizeBytes(buf),
          to_read |-> IF Marker(buf) > 247 THEN ListSize(buf) ELSE Marker(buf) - 192]

\* A number is read from its own bytes only (be_bytes_to_u64).
LEMMA BigEndianPrefix ==
    ASSUME NEW s \in Seq(Byte), NEW t \in Seq(Byte), NEW from \in 1 .. Len(s),
           NEW n \in 1 .. 8, from + n - 1 <= Len(s)
    PROVE  be_bytes_to_u64(s \o t, from, n) = be_bytes_to_u64(s, from, n)
  <1> DEFINE both == s \o t
             long(i, acc) == (IF i < n THEN 256 ELSE 1) * acc
                             + (IF i < n THEN both[from + i] ELSE 0)
             step(i, acc) == (IF i < n THEN 256 ELSE 1) * acc
                             + (IF i < n THEN s[from + i] ELSE 0)
             long0 == long(0, 0)
             step0 == step(0, 0)
             long1 == long(1, long0)
             step1 == step(1, step0)
             long2 == long(2, long1)
             step2 == step(2, step1)
             long3 == long(3, long2)
             step3 == step(3, step2)
             long4 == long(4, long3)
             step4 == step(4, step3)
             long5 == long(5, long4)
             step5 == step(5, step4)
             long6 == long(6, long5)
             step6 == step(6, step5)
             long7 == long(7, long6)
             step7 == step(7, step6)
  <1>1. \A i \in 0 .. 7 : i < n => both[from + i] = s[from + i]
    OBVIOUS
  <1>2. be_bytes_to_u64(both, from, n) = long7 /\ be_bytes_to_u64(s, from, n) = step7
    BY DEF be_bytes_to_u64
  <1> HIDE DEF both
  <1>3. \A i \in 0 .. 7 : \A acc : long(i, acc) = step(i, acc)
    BY <1>1, Zenon
  <1> HIDE DEF long, step
  <1>places. /\ 0 \in 0 .. 7 /\ 1 \in 0 .. 7 /\ 2 \in 0 .. 7 /\ 3 \in 0 .. 7
             /\ 4 \in 0 .. 7 /\ 5 \in 0 .. 7 /\ 6 \in 0 .. 7 /\ 7 \in 0 .. 7
    OBVIOUS
  <1> HIDE DEF long0, step0, long1, step1, long2, step2, long3, step3,
               long4, step4, long5, step5, long6, step6, long7, step7
  <1>4. long0 = step0
    BY <1>3, <1>places, Zenon DEF long0, step0
  <1>5. long1 = step1
    BY <1>3, <1>4, <1>places, Zenon DEF long1, step1
  <1>6. long2 = step2
    BY <1>3, <1>5, <1>places, Zenon DEF long2, step2
  <1>7. long3 = step3
    BY <1>3, <1>6, <1>places, Zenon DEF long3, step3
  <1>8. long4 = step4
    BY <1>3, <1>7, <1>places, Zenon DEF long4, step4
  <1>9. long5 = step5
    BY <1>3, <1>8, <1>places, Zenon DEF long5, step5
  <1>10. long6 = step6
    BY <1>3, <1>9, <1>places, Zenon DEF long6, step6
  <1>11. long7 = step7
    BY <1>3, <1>10, <1>places, Zenon DEF long7, step7
  <1>12. QED
    BY <1>2, <1>11 DEF both

\* A whole header lies in the bytes there are.
LEMMA HeaderPlace ==
    ASSUME NEW buf \in Seq(Byte), HeaderWhole(buf)
    PROVE  /\ VersionLen(buf) \in 0 .. 1 /\ Marker(buf) \in 0 .. 255
           /\ SizeBytes(buf) \in 0 .. 8
           /\ Marker(buf) > 247 => SizeBytes(buf) \in 1 .. 8
           /\ Len(buf) \in Nat
           /\ VersionLen(buf) + 1 + SizeBytes(buf) <= Len(buf)
  <1>1. VersionLen(buf) \in 0 .. 1 /\ Len(buf) \in Nat
    BY DEF VersionLen
  <1>2. VersionLen(buf) + 1 <= Len(buf)
    BY <1>1 DEF HeaderWhole
  <1>3. Marker(buf) \in 0 .. 255
    <2>1. Marker(buf) \in Byte
      BY <1>1, <1>2 DEF Marker
    <2>2. QED
      BY <2>1, ByteRange
  <1>4. Marker(buf) > 247 => VersionLen(buf) + 1 + (Marker(buf) - 247) <= Len(buf)
    BY <1>1 DEF HeaderWhole, Marker
  <1>5. SizeBytes(buf) = IF Marker(buf) > 247 THEN Marker(buf) - 247 ELSE 0
    BY DEF SizeBytes
  <1> DEFINE v == VersionLen(buf)
             m == Marker(buf)
             z == SizeBytes(buf)
             l == Len(buf)
  <1>6. /\ v \in 0 .. 1 /\ l \in Nat /\ v + 1 <= l /\ m \in 0 .. 255
        /\ m > 247 => v + 1 + (m - 247) <= l
        /\ z = IF m > 247 THEN m - 247 ELSE 0
    BY <1>1, <1>2, <1>3, <1>4, <1>5, Zenon
  <1> HIDE DEF v, m, z, l
  <1>7. z \in 0 .. 8 /\ (m > 247 => z \in 1 .. 8) /\ v + 1 + z <= l
    BY <1>6
  <1>8. QED
    BY <1>1, <1>3, <1>7, Zenon DEF v, m, z, l

\* It is what the upload reads, whatever follows the bytes.
LEMMA HeaderPrefix ==
    ASSUME NEW buf \in Seq(Byte), HeaderWhole(buf), NEW rest \in Seq(Byte)
    PROVE  get_tx_rlp_len(buf, rest) = Header(buf)
  <1> DEFINE both    == buf \o rest
             version == VersionLen(buf)
             marker  == Marker(buf)
  <1>1. /\ version \in 0 .. 1 /\ marker \in 0 .. 255
        /\ marker > 247 => SizeBytes(buf) \in 1 .. 8
        /\ Len(buf) \in Nat /\ version + 1 + SizeBytes(buf) <= Len(buf)
        /\ SizeBytes(buf) \in 0 .. 8
    BY HeaderPlace
  <1>2. \A k \in 1 .. Len(buf) : both[k] = buf[k]
    OBVIOUS
  <1>3. buf # << >>
    BY DEF HeaderWhole
  <1>4. marker > 247 => be_bytes_to_u64(both, version + 2, SizeBytes(buf)) = ListSize(buf)
    <2>1. SUFFICES ASSUME marker > 247
                   PROVE  be_bytes_to_u64(both, version + 2, SizeBytes(buf)) = ListSize(buf)
      OBVIOUS
    <2> HIDE DEF version, marker
    <2>2. /\ SizeBytes(buf) \in 1 .. 8 /\ version + 2 \in 1 .. Len(buf)
          /\ version + 2 + SizeBytes(buf) - 1 <= Len(buf)
      BY <1>1, <2>1
    <2>3. QED
      BY <2>2, BigEndianPrefix DEF ListSize, version
  <1> HIDE DEF both
  <1>5. both[1] = buf[1] /\ both[version + 1] = marker
    <2>1. 1 \in 1 .. Len(buf) /\ version + 1 \in 1 .. Len(buf)
      BY <1>1
    <2>2. QED
      BY <1>2, <2>1 DEF Marker
  <1>6. VersionLen(both) = version
    BY <1>5, Zenon DEF VersionLen
  <1>7. get_tx_rlp_len(buf, rest) =
          IF buf = << >> \/ both[VersionLen(both) + 1] < 192
          THEN RlpError
          ELSE IF both[VersionLen(both) + 1] <= 247
          THEN [ok |-> TRUE, read |-> VersionLen(both) + 1,
                to_read |-> both[VersionLen(both) + 1] - 192]
          ELSE [ok |-> TRUE, read |-> VersionLen(both) + 1 + (both[VersionLen(both) + 1] - 247),
                to_read |-> be_bytes_to_u64(both, VersionLen(both) + 2,
                                            both[VersionLen(both) + 1] - 247)]
    BY Zenon DEF get_tx_rlp_len, both
  <1> HIDE DEF version, marker
  <1>8. get_tx_rlp_len(buf, rest) =
          IF marker < 192 THEN RlpError
          ELSE IF marker <= 247
          THEN [ok |-> TRUE, read |-> version + 1, to_read |-> marker - 192]
          ELSE [ok |-> TRUE, read |-> version + 1 + (marker - 247),
                to_read |-> be_bytes_to_u64(both, version + 2, marker - 247)]
    BY <1>3, <1>5, <1>6, <1>7, Zenon
  <1>9. Header(buf) =
          IF marker < 192 THEN RlpError
          ELSE [ok |-> TRUE, read |-> version + 1 + SizeBytes(buf),
                to_read |-> IF marker > 247 THEN ListSize(buf) ELSE marker - 192]
    BY DEF Header, version, marker
  <1>10. CASE marker < 192
    BY <1>8, <1>9, <1>10, Zenon
  <1>11. CASE ~(marker < 192) /\ marker <= 247
    <2>1. SizeBytes(buf) = 0 /\ ~(marker > 247)
      BY <1>1, <1>11 DEF SizeBytes, marker
    <2>2. version + 1 + 0 = version + 1
      BY <1>1
    <2>3. QED
      BY <1>8, <1>9, <1>11, <2>1, <2>2, Zenon
  <1>12. CASE ~(marker < 192) /\ ~(marker <= 247)
    <2>1. marker > 247
      BY <1>1, <1>12
    <2>2. SizeBytes(buf) = marker - 247
      BY <2>1 DEF SizeBytes, marker
    <2>3. QED
      BY <1>4, <1>8, <1>9, <1>12, <2>1, <2>2, Zenon
  <1>13. QED
    BY <1>10, <1>11, <1>12

\* A header lies in front of what it counts, and counts a natural number.
LEMMA HeaderType ==
    ASSUME NEW buf \in Seq(Byte), HeaderWhole(buf), Header(buf).ok
    PROVE  /\ Header(buf).read = VersionLen(buf) + 1 + SizeBytes(buf)
           /\ Header(buf).read \in 1 .. 10 /\ Header(buf).read <= Len(buf)
           /\ Header(buf).to_read \in Nat
           /\ Header(buf).to_read = IF Marker(buf) > 247 THEN ListSize(buf) ELSE Marker(buf) - 192
  <1>1. /\ VersionLen(buf) \in 0 .. 1 /\ Marker(buf) \in 0 .. 255
        /\ SizeBytes(buf) \in 0 .. 8 /\ (Marker(buf) > 247 => SizeBytes(buf) \in 1 .. 8)
        /\ Len(buf) \in Nat /\ VersionLen(buf) + 1 + SizeBytes(buf) <= Len(buf)
    BY HeaderPlace
  <1>2. ~(Marker(buf) < 192)
    BY DEF Header, RlpError
  <1>3. /\ Header(buf).read = VersionLen(buf) + 1 + SizeBytes(buf)
        /\ Header(buf).to_read = IF Marker(buf) > 247 THEN ListSize(buf) ELSE Marker(buf) - 192
    BY <1>2 DEF Header
  <1>4. Marker(buf) > 247 => ListSize(buf) \in Nat
    <2>1. SUFFICES ASSUME Marker(buf) > 247 PROVE ListSize(buf) \in Nat
      OBVIOUS
    <2>2. VersionLen(buf) + 2 \in 1 .. Len(buf) /\ SizeBytes(buf) \in 1 .. 8
          /\ VersionLen(buf) + 2 + SizeBytes(buf) - 1 <= Len(buf)
      BY <1>1, <2>1
    <2>3. QED
      BY <2>2, BigEndianType DEF ListSize
  <1>5. Header(buf).to_read \in Nat
    <2>1. CASE Marker(buf) > 247
      BY <1>3, <1>4, <2>1
    <2>2. CASE ~(Marker(buf) > 247)
      <3> DEFINE m == Marker(buf)
      <3>1. m \in 0 .. 255 /\ ~(m < 192) /\ ~(m > 247)
        BY <1>1, <1>2, <2>2, Zenon
      <3>2. Header(buf).to_read = m - 192
        BY <1>3, <2>2, Zenon
      <3> HIDE DEF m
      <3>3. m - 192 \in Nat
        BY <3>1
      <3>4. QED
        BY <3>2, <3>3, Zenon
    <2>3. QED
      BY <2>1, <2>2
  <1>6. VersionLen(buf) + 1 + SizeBytes(buf) \in 1 .. 10
    BY <1>1
  <1>7. QED
    BY <1>1, <1>3, <1>5, <1>6

\* Two sequences that make up a third.
FrontAndRest(s, t, u) ==
    /\ Len(u) = Len(s) + Len(t)
    /\ \A k \in 1 .. Len(s) : u[k] = s[k]
    /\ \A k \in 1 .. Len(t) : u[Len(s) + k] = t[k]

\* They are it when they are put together.
LEMMA FrontAndRestJoin ==
    ASSUME NEW s \in Seq(Byte), NEW t \in Seq(Byte), NEW u \in Seq(Byte),
           FrontAndRest(s, t, u)
    PROVE  s \o t = u
  <1> DEFINE both == s \o t
  <1>1. /\ both \in Seq(Byte) /\ Len(both) = Len(s) + Len(t)
        /\ \A k \in 1 .. Len(s) + Len(t) :
              both[k] = IF k <= Len(s) THEN s[k] ELSE t[k - Len(s)]
    BY ConcatProperties
  <1> HIDE DEF both
  <1>2. Len(both) = Len(u)
    BY <1>1 DEF FrontAndRest
  <1>3. ASSUME NEW k \in 1 .. Len(both) PROVE both[k] = u[k]
    <2>1. CASE k <= Len(s)
      BY <1>1, <1>2, <1>3, <2>1 DEF FrontAndRest
    <2>2. CASE k > Len(s)
      <3>1. k - Len(s) \in 1 .. Len(t) /\ Len(s) + (k - Len(s)) = k
        BY <1>1, <1>3, <2>2
      <3>2. u[k] = t[k - Len(s)]
        BY <3>1 DEF FrontAndRest
      <3>3. QED
        BY <1>1, <1>3, <2>2, <3>2
    <2>3. QED
      BY <1>3, <2>1, <2>2
  <1>4. both = u
    BY <1>1, <1>2, <1>3, SeqEqual
  <1>5. QED
    BY <1>4 DEF both

\* What holds the whole of a longer text's header has it as its own.
LEMMA HeaderOfFront ==
    ASSUME NEW buf \in Seq(Byte), HeaderWhole(buf), Header(buf).ok,
           NEW n \in Nat, Header(buf).read <= n, n <= Len(buf)
    PROVE  /\ HeaderWhole(SubSeq(buf, 1, n))
           /\ Header(SubSeq(buf, 1, n)) = Header(buf)
  <1> DEFINE front == SubSeq(buf, 1, n)
             rest  == SubSeq(buf, n + 1, Len(buf))
  <1>1. /\ VersionLen(buf) \in 0 .. 1 /\ Marker(buf) \in 0 .. 255
        /\ SizeBytes(buf) \in 0 .. 8 /\ (Marker(buf) > 247 => SizeBytes(buf) \in 1 .. 8)
        /\ Len(buf) \in Nat
    BY HeaderPlace
  <1>2. VersionLen(buf) + 1 + SizeBytes(buf) <= n
    BY HeaderType
  <1>3. front \in Seq(Byte) /\ Len(front) = n /\ \A k \in 1 .. n : front[k] = buf[k]
    OBVIOUS
  <1>4. /\ rest \in Seq(Byte) /\ Len(rest) = Len(buf) - n
        /\ \A k \in 1 .. Len(buf) - n : rest[k] = buf[n + k]
    OBVIOUS
  <1> HIDE DEF front, rest
  <1>5. front \o rest = buf
    <2>1. Len(buf) = Len(front) + Len(rest)
      BY <1>1, <1>3, <1>4
    <2>2. \A k \in 1 .. Len(front) : buf[k] = front[k]
      BY <1>3
    <2>3. \A k \in 1 .. Len(rest) : buf[Len(front) + k] = rest[k]
      BY <1>3, <1>4
    <2>4. QED
      BY <1>3, <1>4, <2>1, <2>2, <2>3, FrontAndRestJoin DEF FrontAndRest
  <1>6. front[1] = buf[1]
    BY <1>1, <1>2, <1>3
  <1>7. VersionLen(front) = VersionLen(buf)
    BY <1>6, Zenon DEF VersionLen
  <1>8. Marker(front) = Marker(buf)
    <2>1. VersionLen(buf) + 1 \in 1 .. n
      BY <1>1, <1>2
    <2>2. QED
      BY <1>3, <1>7, <2>1 DEF Marker
  <1>9. SizeBytes(front) = SizeBytes(buf)
    BY <1>8 DEF SizeBytes
  <1>10. HeaderWhole(front)
    <2>1. Len(front) > 0 /\ Len(front) > VersionLen(front)
      BY <1>1, <1>2, <1>3, <1>7
    <2>2. Marker(front) > 247 => Len(front) >= VersionLen(front) + 1 + (Marker(front) - 247)
      BY <1>1, <1>2, <1>3, <1>7, <1>8 DEF SizeBytes
    <2>3. QED
      BY <2>1, <2>2, Zenon DEF HeaderWhole, Marker
  <1>11. Marker(buf) > 247 => ListSize(front) = ListSize(buf)
    <2>1. SUFFICES ASSUME Marker(buf) > 247 PROVE ListSize(front) = ListSize(buf)
      OBVIOUS
    <2>2. VersionLen(buf) + 2 \in 1 .. Len(front) /\ SizeBytes(buf) \in 1 .. 8
          /\ VersionLen(buf) + 2 + SizeBytes(buf) - 1 <= Len(front)
      BY <1>1, <1>2, <1>3, <2>1
    <2>3. be_bytes_to_u64(front \o rest, VersionLen(buf) + 2, SizeBytes(buf))
          = be_bytes_to_u64(front, VersionLen(buf) + 2, SizeBytes(buf))
      BY <1>3, <1>4, <2>2, BigEndianPrefix
    <2>4. QED
      BY <1>5, <1>7, <1>9, <2>3 DEF ListSize
  <1>12. Header(front) = Header(buf)
    BY <1>7, <1>8, <1>9, <1>11, Zenon DEF Header
  <1>13. QED
    BY <1>10, <1>12 DEF front

\* What the parser takes for one list is what the upload counts as one
\* transaction, whatever lies behind it (_readEth and get_tx_rlp_len).
LEMMA ListIsWhole ==
    ASSUME NEW buf \in Seq(Byte), ListCoversBuffer(buf)
    PROVE  /\ HeaderWhole(buf) /\ Header(buf).ok
           /\ Len(buf) = Header(buf).read + Header(buf).to_read
  <1>1. HeaderWhole(buf)
    BY DEF ListCoversBuffer
  <1>2. /\ VersionLen(buf) \in 0 .. 1 /\ Marker(buf) \in 0 .. 255
        /\ SizeBytes(buf) \in 0 .. 8 /\ Len(buf) \in Nat
    BY <1>1, HeaderPlace
  <1>3. \/ /\ Marker(buf) \in 192 .. 247
           /\ Len(buf) = VersionLen(buf) + 1 + (Marker(buf) - 192)
        \/ /\ Marker(buf) > 247
           /\ Len(buf) = VersionLen(buf) + 1 + (Marker(buf) - 247)
                         + be_bytes_to_u64(buf, VersionLen(buf) + 2, Marker(buf) - 247)
    BY DEF ListCoversBuffer, Marker
  <1>4. ~(Marker(buf) < 192)
    <2> DEFINE m == Marker(buf)
    <2>1. m \in 192 .. 247 \/ m > 247
      BY <1>3, Zenon
    <2>2. m \in 0 .. 255
      BY <1>2
    <2> HIDE DEF m
    <2>3. ~(m < 192)
      BY <2>1, <2>2
    <2>4. QED
      BY <2>3, Zenon DEF m
  <1>5. Header(buf).ok
    BY <1>4 DEF Header
  <1>6. /\ Header(buf).read = VersionLen(buf) + 1 + SizeBytes(buf)
        /\ Header(buf).to_read = IF Marker(buf) > 247 THEN ListSize(buf) ELSE Marker(buf) - 192
    BY <1>1, <1>5, HeaderType
  <1>7. CASE Marker(buf) > 247
    <2>1. SizeBytes(buf) = Marker(buf) - 247
      BY <1>7 DEF SizeBytes
    <2>2. ~(Marker(buf) \in 192 .. 247)
      <3> DEFINE m == Marker(buf)
      <3>1. m \in 0 .. 255 /\ m > 247
        BY <1>2, <1>7
      <3> HIDE DEF m
      <3>2. ~(m \in 192 .. 247)
        BY <3>1
      <3>3. QED
        BY <3>2, Zenon DEF m
    <2>3. Len(buf) = VersionLen(buf) + 1 + SizeBytes(buf) + ListSize(buf)
      BY <1>3, <2>1, <2>2, Zenon DEF ListSize
    <2>4. QED
      BY <1>1, <1>5, <1>6, <1>7, <2>3
  <1>8. CASE ~(Marker(buf) > 247)
    <2>1. SizeBytes(buf) = 0
      BY <1>8 DEF SizeBytes
    <2>2. Len(buf) = VersionLen(buf) + 1 + (Marker(buf) - 192)
      BY <1>2, <1>3, <1>8
    <2>3. QED
      BY <1>1, <1>2, <1>5, <1>6, <1>8, <2>1, <2>2
  <1>9. QED
    BY <1>7, <1>8
\* A whole header stays the header when more bytes are appended.
LEMMA HeaderOfWhole ==
    ASSUME NEW buf \in Seq(Byte), HeaderWhole(buf), NEW rest \in Seq(Byte)
    PROVE  /\ HeaderWhole(buf \o rest)
           /\ Header(buf \o rest) = Header(buf)
  <1> DEFINE both == buf \o rest
  <1>1. /\ VersionLen(buf) \in 0 .. 1 /\ Marker(buf) \in 0 .. 255
        /\ SizeBytes(buf) \in 0 .. 8 /\ (Marker(buf) > 247 => SizeBytes(buf) \in 1 .. 8)
        /\ Len(buf) \in Nat /\ VersionLen(buf) + 1 + SizeBytes(buf) <= Len(buf)
    BY HeaderPlace
  <1>2. /\ both \in Seq(Byte) /\ Len(both) >= Len(buf) /\ Len(both) \in Nat
        /\ \A k \in 1 .. Len(buf) : both[k] = buf[k]
    OBVIOUS
  <1>3. Marker(buf) > 247 =>
           be_bytes_to_u64(both, VersionLen(buf) + 2, SizeBytes(buf)) = ListSize(buf)
    <2>1. SUFFICES ASSUME Marker(buf) > 247
                   PROVE  be_bytes_to_u64(both, VersionLen(buf) + 2, SizeBytes(buf))
                          = ListSize(buf)
      OBVIOUS
    <2>2. VersionLen(buf) + 2 \in 1 .. Len(buf) /\ SizeBytes(buf) \in 1 .. 8
          /\ VersionLen(buf) + 2 + SizeBytes(buf) - 1 <= Len(buf)
      BY <1>1, <2>1
    <2>3. QED
      BY <2>2, BigEndianPrefix DEF ListSize
  <1> HIDE DEF both
  <1>4. VersionLen(both) = VersionLen(buf)
    <2>1. both[1] = buf[1]
      BY <1>1, <1>2
    <2>2. QED
      BY <2>1, Zenon DEF VersionLen
  <1>5. Marker(both) = Marker(buf)
    <2>1. VersionLen(buf) + 1 \in 1 .. Len(buf)
      BY <1>1
    <2>2. QED
      BY <1>2, <1>4, <2>1 DEF Marker
  <1>6. SizeBytes(both) = SizeBytes(buf)
    BY <1>5 DEF SizeBytes
  <1>7. HeaderWhole(both)
    <2>1. Len(both) > 0 /\ Len(both) > VersionLen(both)
      BY <1>1, <1>2, <1>4
    <2>2. Marker(both) > 247 => Len(both) >= VersionLen(both) + 1 + (Marker(both) - 247)
      BY SMTT(60), <1>1, <1>2, <1>4, <1>5 DEF SizeBytes
    <2>3. QED
      BY <2>1, <2>2, Zenon DEF HeaderWhole, Marker
  <1>8. Marker(buf) > 247 => ListSize(both) = ListSize(buf)
    BY <1>3, <1>4, <1>6 DEF ListSize
  <1>9. Header(both) = Header(buf)
    BY <1>4, <1>5, <1>6, <1>8, Zenon DEF Header
  <1>10. QED
    BY <1>7, <1>9 DEF both
=============================================================================
