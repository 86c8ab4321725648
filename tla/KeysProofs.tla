----------------------------- MODULE KeysProofs -----------------------------
(***************************************************************************)
(* What becomes of the private key and of the signature, for paths and     *)
(* messages of any kind and for every size of the buffer and its parts.    *)
(***************************************************************************)
EXTENDS Keys, SequenceTheorems, TLAPS

\* A copy of the key exists only between its derivation and the end of the
\* routine that derived it.
WithKey == {"init", "generate", "sign", "convert", "leave"}

SecretsInv == pc \notin WithKey => secrets = {}

LEMMA SecretsStep == SecretsInv /\ [Next]_vars => SecretsInv'
  <1> SUFFICES ASSUME SecretsInv, [Next]_vars PROVE SecretsInv'
    OBVIOUS
  <1> USE DEF SecretsInv, WithKey
  <1>1. ASSUME NEW c \in Commands, Serve(c) PROVE SecretsInv'
    BY <1>1 DEF Serve
  <1>2. CASE ToggleExpert
    BY <1>2 DEF ToggleExpert
  <1>3. CASE User
    BY <1>3 DEF User, ApproveSign, ApproveAddress, Reject, Send
  <1>4. CASE SetDigest \/ DigestFails
    BY <1>4 DEF SetDigest, DigestFails, Send
  <1>5. CASE Derive \/ InitPrivateKey \/ GeneratePair \/ EcdsaSign \/ Convert
    BY <1>5 DEF Derive, InitPrivateKey, GeneratePair, EcdsaSign, Convert
  <1>6. CASE Fail \/ Leave
    BY <1>6 DEF Fail, Leave, Wiped
  <1>7. CASE EncodeAddress \/ EncoderFails \/ EncodeEthAddress \/ EthEncoderFails
    BY <1>7 DEF EncodeAddress, EncoderFails, EncodeEthAddress, EthEncoderFails,
                AnswerAddress, Send
  <1>8. CASE ReplySignature \/ ReplyEthSignature
    BY <1>8 DEF ReplySignature, ReplyEthSignature, Send
  <1>9. CASE UNCHANGED vars
    BY <1>9 DEF vars
  <1>10. QED
    BY <1>1, <1>2, <1>3, <1>4, <1>5, <1>6, <1>7, <1>8, <1>9 DEF Next, Step

\* While a screen is open, a text is made or an answer is sent, no copy of the
\* private key is left, whichever call of the library failed (the
\* catch_cx_error labels of crypto.c and crypto_evm.c).
THEOREM SecretsAreWiped == Spec => []SecretsWiped
  <1>1. Init => SecretsInv
    BY DEF Init, SecretsInv
  <1>2. SecretsInv => SecretsWiped
    BY DEF SecretsInv, SecretsWiped, WithKey
  <1>3. QED
    BY <1>1, <1>2, SecretsStep, PTL DEF Spec

-----------------------------------------------------------------------------
(* Rows of cells: sequences whose length is known. *)

IsRow(s, n) == n \in Nat /\ s = [k \in 1 .. n |-> s[k]]

LEMMA RowIsSeq ==
    ASSUME NEW s, NEW n, IsRow(s, n), NEW S, \A k \in 1 .. n : s[k] \in S
    PROVE  s \in Seq(S) /\ Len(s) = n /\ DOMAIN s = 1 .. n
  BY DEF IsRow

LEMMA SeqIsRow ==
    ASSUME NEW S, NEW s \in Seq(S)
    PROVE  IsRow(s, Len(s))
  BY DEF IsRow

LEMMA RowsEqual ==
    ASSUME NEW s, NEW t, NEW n, IsRow(s, n), IsRow(t, n), \A k \in 1 .. n : s[k] = t[k]
    PROVE  s = t
  BY DEF IsRow

\* The row u consists of the m cells of s and the n cells of t.
IsJoin(u, s, m, t, n) ==
    /\ IsRow(u, m + n)
    /\ \A k \in 1 .. m : u[k] = s[k]
    /\ \A k \in 1 .. n : u[m + k] = t[k]

LEMMA RowConcat ==
    ASSUME NEW s, NEW t, NEW m, NEW n, IsRow(s, m), IsRow(t, n)
    PROVE  IsJoin(s \o t, s, m, t, n)
  <1> DEFINE S == {s[k] : k \in 1 .. m} \cup {t[k] : k \in 1 .. n}
  <1>1. m \in Nat /\ n \in Nat
    BY DEF IsRow
  <1>2. (\A k \in 1 .. m : s[k] \in S) /\ (\A k \in 1 .. n : t[k] \in S)
    OBVIOUS
  <1> HIDE DEF S
  <1>a. s \in Seq(S) /\ Len(s) = m
    BY <1>2, RowIsSeq
  <1>b. t \in Seq(S) /\ Len(t) = n
    BY <1>2, RowIsSeq
  <1>3. s \o t \in Seq(S) /\ Len(s \o t) = m + n
    BY <1>1, <1>a, <1>b
  <1>4. \A k \in 1 .. m + n : (s \o t)[k] = IF k <= m THEN s[k] ELSE t[k - m]
    BY <1>1, <1>a, <1>b
  <1>5. IsRow(s \o t, m + n)
    BY <1>3, SeqIsRow
  <1> DEFINE both == s \o t
  <1>6. \A k \in 1 .. m + n : both[k] = IF k <= m THEN s[k] ELSE t[k - m]
    BY <1>4
  <1> HIDE DEF both
  <1>7. \A k \in 1 .. m : both[k] = s[k]
    BY <1>1, <1>6
  <1>8. ASSUME NEW k \in 1 .. n PROVE both[m + k] = t[k]
    <2> DEFINE i == m + k
    <2>1. i \in 1 .. m + n /\ ~(i <= m) /\ i - m = k
      BY <1>1
    <2> HIDE DEF i
    <2>2. both[i] = t[i - m]
      BY <1>6, <2>1
    <2>3. QED
      BY <2>1, <2>2 DEF i
  <1>9. QED
    BY <1>5, <1>7, <1>8 DEF both, IsJoin

LEMMA RowSubSeq ==
    ASSUME NEW s, NEW n, IsRow(s, n), NEW i \in 1 .. n + 1, NEW j \in i - 1 .. n
    PROVE  /\ IsRow(SubSeq(s, i, j), j - i + 1)
           /\ \A k \in 1 .. j - i + 1 : SubSeq(s, i, j)[k] = s[i + k - 1]
  <1> DEFINE S == {s[k] : k \in 1 .. n}
  <1>1. \A k \in 1 .. n : s[k] \in S
    OBVIOUS
  <1> HIDE DEF S
  <1>2. s \in Seq(S) /\ Len(s) = n /\ n \in Nat
    BY <1>1, RowIsSeq DEF IsRow
  <1>3. /\ SubSeq(s, i, j) \in Seq(S)
        /\ Len(SubSeq(s, i, j)) = j - i + 1
        /\ \A k \in 1 .. j - i + 1 : SubSeq(s, i, j)[k] = s[i + k - 1]
    BY <1>2, SubSeqProperties
  <1>4. IsRow(SubSeq(s, i, j), j - i + 1)
    BY <1>3, SeqIsRow
  <1>5. QED
    BY <1>3, <1>4

LEMMA BytesAreRow ==
    ASSUME NEW part, NEW of, NEW n \in Nat
    PROVE  /\ IsRow(Bytes(part, of, n), n)
           /\ \A k \in 1 .. n :
                 Bytes(part, of, n)[k] = [part |-> part, of |-> of, at |-> k]
  BY DEF IsRow, Bytes

LEMMA CutIsRow ==
    ASSUME NEW buffer, NEW at, NEW n \in Nat
    PROVE  /\ IsRow(Cut(buffer, at, n), n)
           /\ \A k \in 1 .. n : Cut(buffer, at, n)[k] = buffer[at + k - 1]
  BY DEF IsRow, Cut

LEMMA CutNothing == ASSUME NEW buffer PROVE Cut(buffer, 0, 0) = << >>
  BY DEF Cut

LEMMA PutsCells ==
    ASSUME NEW b, DOMAIN b = 0 .. IoSize - 1,
           NEW s, NEW n, IsRow(s, n),
           NEW at \in Nat, at + n <= IoSize
    PROVE  /\ DOMAIN Put(b, at, s) = 0 .. IoSize - 1
           /\ \A k \in 1 .. n : Put(b, at, s)[at + k - 1] = s[k]
           /\ \A j \in 0 .. IoSize - 1 :
                 j < at \/ j >= at + n => Put(b, at, s)[j] = b[j]
  <1>1. IoSize \in Nat /\ n \in Nat
    BY SizesAssumption DEF IsRow
  <1>2. Len(s) = n
    BY RowIsSeq DEF IsRow
  <1>3. \A j \in 0 .. IoSize - 1 :
          Put(b, at, s)[j] = IF j \in at .. at + n - 1 THEN s[j - at + 1] ELSE b[j]
    BY <1>2 DEF Put
  <1>4. ASSUME NEW k \in 1 .. n PROVE Put(b, at, s)[at + k - 1] = s[k]
    <2>1. at + k - 1 \in 0 .. IoSize - 1 /\ at + k - 1 \in at .. at + n - 1
      BY <1>1
    <2>2. (at + k - 1) - at + 1 = k
      BY <1>1
    <2>3. QED
      BY <1>3, <2>1, <2>2
  <1>5. \A j \in 0 .. IoSize - 1 :
          j < at \/ j >= at + n => Put(b, at, s)[j] = b[j]
    BY <1>1, <1>3
  <1>6. DOMAIN Put(b, at, s) = 0 .. IoSize - 1
    BY DEF Put
  <1>7. QED
    BY <1>4, <1>5, <1>6

-----------------------------------------------------------------------------
(* What the buffer holds of a signature. *)

SignatureParts == {"r", "s", "v", "eth v", "der"}

IsClean(cells) == \A k \in DOMAIN cells : cells[k].part \notin SignatureParts

LEMMA ZeroedIsClean == IsClean(Zeroed) /\ DOMAIN Zeroed = 0 .. IoSize - 1
  BY DEF IsClean, Zeroed, Zero, SignatureParts

\* What is put between clean cells leaves them clean.
LEMMA PutsClean ==
    ASSUME NEW b, DOMAIN b = 0 .. IoSize - 1, IsClean(b),
           NEW s, NEW n, IsRow(s, n), IsClean(s),
           NEW at \in Nat, at + n <= IoSize
    PROVE  DOMAIN Put(b, at, s) = 0 .. IoSize - 1 /\ IsClean(Put(b, at, s))
  <1>1. DOMAIN Put(b, at, s) = 0 .. IoSize - 1
    BY PutsCells
  <1>2. ASSUME NEW j \in 0 .. IoSize - 1
        PROVE  Put(b, at, s)[j].part \notin SignatureParts
    <2>1. CASE j < at \/ j >= at + n
      <3>1. Put(b, at, s)[j] = b[j]
        BY <2>1, PutsCells
      <3>2. QED
        BY <3>1 DEF IsClean
    <2>2. CASE ~(j < at \/ j >= at + n)
      <3>1. IoSize \in Nat /\ n \in Nat
        BY SizesAssumption DEF IsRow
      <3>2. j - at + 1 \in 1 .. n /\ at + (j - at + 1) - 1 = j
        BY <2>2, <3>1
      <3>3. Put(b, at, s)[j] = s[j - at + 1]
        BY <3>2, PutsCells
      <3>4. j - at + 1 \in DOMAIN s
        BY <3>2 DEF IsRow
      <3>5. QED
        BY <3>3, <3>4 DEF IsClean
    <2>3. QED
      BY <2>1, <2>2
  <1>3. QED
    BY <1>1, <1>2 DEF IsClean

LEMMA RowsAreClean ==
    ASSUME NEW s, NEW t, NEW m, NEW n, IsRow(s, m), IsRow(t, n), IsClean(s), IsClean(t)
    PROVE  IsClean(s \o t)
  <1>1. m \in Nat /\ n \in Nat /\ DOMAIN s = 1 .. m /\ DOMAIN t = 1 .. n
    BY DEF IsRow
  <1> DEFINE both == s \o t
  <1>a. IsJoin(both, s, m, t, n)
    BY RowConcat
  <1> HIDE DEF both
  <1>2. /\ IsRow(both, m + n)
        /\ \A k \in 1 .. m : both[k] = s[k]
        /\ \A k \in 1 .. n : both[m + k] = t[k]
    BY <1>a DEF IsJoin
  <1>3. ASSUME NEW k \in 1 .. m + n PROVE both[k].part \notin SignatureParts
    <2>1. CASE k \in 1 .. m
      BY <1>1, <1>2, <2>1 DEF IsClean
    <2>2. CASE k \notin 1 .. m
      <3> DEFINE i == k - m
      <3>1. i \in 1 .. n /\ m + i = k
        BY <1>1, <2>2
      <3> HIDE DEF i
      <3>2. both[k] = t[i]
        BY <1>2, <3>1
      <3>3. QED
        BY <1>1, <3>1, <3>2 DEF IsClean
    <2>3. QED
      BY <2>1, <2>2
  <1>4. DOMAIN both = 1 .. m + n
    BY <1>2 DEF IsRow
  <1>5. IsClean(both)
    BY <1>3, <1>4 DEF IsClean
  <1>6. QED
    BY <1>5 DEF both

LEMMA BytesAreClean ==
    ASSUME NEW part, part \notin SignatureParts, NEW of, NEW n \in Nat
    PROVE  IsClean(Bytes(part, of, n))
  <1>1. DOMAIN Bytes(part, of, n) = 1 .. n
    BY DEF Bytes
  <1>2. \A k \in 1 .. n : Bytes(part, of, n)[k] = [part |-> part, of |-> of, at |-> k]
    BY BytesAreRow
  <1>3. QED
    BY <1>1, <1>2 DEF IsClean

-----------------------------------------------------------------------------
(* Keys and addresses. *)

LEMMA PublicKeyCells ==
    ASSUME NEW path
    PROVE  /\ IsRow(PublicKey(path), PK_LEN_UNCOMPRESSED)
           /\ IsClean(PublicKey(path))
           /\ PublicKey(path)[PK_LEN_UNCOMPRESSED] =
                 [part |-> "y", of |-> path, at |-> ScalarLen]
  <1> DEFINE head == Bytes("04", path, 1) \o Bytes("x", path, ScalarLen)
             tail == Bytes("y", path, ScalarLen)
  <1>1. ScalarLen \in Nat \ {0} /\ 1 \in Nat
    BY SizesAssumption
  <1>2. "04" \notin SignatureParts /\ "x" \notin SignatureParts /\ "y" \notin SignatureParts
    BY DEF SignatureParts
  <1>3. IsRow(Bytes("04", path, 1), 1) /\ IsClean(Bytes("04", path, 1))
    BY <1>1, <1>2, BytesAreRow, BytesAreClean
  <1>4. IsRow(Bytes("x", path, ScalarLen), ScalarLen) /\ IsClean(Bytes("x", path, ScalarLen))
    BY <1>1, <1>2, BytesAreRow, BytesAreClean
  <1>5. /\ IsRow(tail, ScalarLen) /\ IsClean(tail)
        /\ tail[ScalarLen] = [part |-> "y", of |-> path, at |-> ScalarLen]
    BY <1>1, <1>2, BytesAreRow, BytesAreClean
  <1>6. IsRow(head, 1 + ScalarLen) /\ IsClean(head)
    BY <1>3, <1>4, RowConcat, RowsAreClean DEF IsJoin
  <1> HIDE DEF head, tail
  <1> DEFINE both == head \o tail
  <1>a. IsClean(both)
    BY <1>5, <1>6, RowsAreClean
  <1>b. IsJoin(both, head, 1 + ScalarLen, tail, ScalarLen)
    BY <1>5, <1>6, RowConcat
  <1>7. /\ IsRow(both, (1 + ScalarLen) + ScalarLen)
        /\ \A k \in 1 .. ScalarLen : both[(1 + ScalarLen) + k] = tail[k]
    BY <1>b DEF IsJoin
  <1>8. (1 + ScalarLen) + ScalarLen = PK_LEN_UNCOMPRESSED /\ ScalarLen \in 1 .. ScalarLen
    BY <1>1 DEF PK_LEN_UNCOMPRESSED
  <1>9. PublicKey(path) = both
    BY DEF PublicKey, head, tail
  <1> HIDE DEF both
  <1>10. both[PK_LEN_UNCOMPRESSED] = tail[ScalarLen]
    BY <1>7, <1>8
  <1>11. QED
    BY <1>5, <1>7, <1>8, <1>9, <1>10, <1>a

LEMMA CompressedCells ==
    ASSUME NEW path
    PROVE  /\ IsRow(Compressed(PublicKey(path)), PK_LEN)
           /\ IsClean(Compressed(PublicKey(path)))
  <1> DEFINE pk     == PublicKey(path)
             parity == << [pk[Len(pk)] EXCEPT !.part = "parity"] >>
             x      == SubSeq(pk, 2, PK_LEN)
  <1>1. ScalarLen \in Nat \ {0}
    BY SizesAssumption
  <1>2. /\ IsRow(pk, PK_LEN_UNCOMPRESSED) /\ IsClean(pk)
        /\ pk[PK_LEN_UNCOMPRESSED] = [part |-> "y", of |-> path, at |-> ScalarLen]
    BY PublicKeyCells
  <1>3. Compressed(PublicKey(path)) = parity \o x
    BY DEF Compressed
  <1>4. Len(pk) = PK_LEN_UNCOMPRESSED /\ DOMAIN pk = 1 .. PK_LEN_UNCOMPRESSED
    <2>1. \A k \in 1 .. PK_LEN_UNCOMPRESSED : pk[k] \in {pk[j] : j \in 1 .. PK_LEN_UNCOMPRESSED}
      OBVIOUS
    <2> HIDE DEF pk
    <2>2. QED
      BY <1>2, <2>1, RowIsSeq
  <1> HIDE DEF pk
  <1>5. parity = << [part |-> "parity", of |-> path, at |-> ScalarLen] >>
    BY <1>2, <1>4
  <1> HIDE DEF parity
  <1>a. DOMAIN parity = 1 .. 1 /\ parity = [k \in 1 .. 1 |-> parity[k]]
    BY <1>5
  <1>b. parity[1] = [part |-> "parity", of |-> path, at |-> ScalarLen]
    BY <1>5
  <1>6. IsRow(parity, 1)
    BY <1>a DEF IsRow
  <1>c. IsClean(parity)
    <2>1. \A k \in DOMAIN parity : k = 1
      BY <1>a
    <2>2. parity[1].part = "parity"
      BY <1>b
    <2>3. "parity" \notin SignatureParts
      BY DEF SignatureParts
    <2>4. QED
      BY <2>1, <2>2, <2>3 DEF IsClean
  <1>7. 2 \in 1 .. PK_LEN_UNCOMPRESSED + 1 /\ PK_LEN \in 2 - 1 .. PK_LEN_UNCOMPRESSED
    BY <1>1 DEF PK_LEN, PK_LEN_UNCOMPRESSED
  <1>8. /\ IsRow(x, PK_LEN - 1)
        /\ \A k \in 1 .. PK_LEN - 1 : x[k] = pk[k + 1]
    BY <1>1, <1>2, <1>7, RowSubSeq DEF PK_LEN
  <1>9. IsClean(x)
    BY <1>1, <1>2, <1>4, <1>8 DEF IsClean, IsRow, PK_LEN, PK_LEN_UNCOMPRESSED
  <1> HIDE DEF x
  <1>10. 1 + (PK_LEN - 1) = PK_LEN
    BY <1>1 DEF PK_LEN
  <1>11. IsClean(parity \o x)
    BY <1>6, <1>8, <1>9, <1>c, RowsAreClean
  <1>12. IsRow(parity \o x, PK_LEN)
    BY <1>6, <1>8, <1>10, RowConcat DEF IsJoin
  <1>13. QED
    BY <1>3, <1>11, <1>12

-----------------------------------------------------------------------------
(* The routine a command takes, and what it leaves in the buffer on the way *)
(* to an address.                                                          *)

\* While a command is served there is no answer yet.
CommandInv == pc # "idle" => command \in Commands /\ answer.status = "none"

BufferInv == DOMAIN io = 0 .. IoSize - 1

RoutineInv ==
    /\ pc \in {"digest", "sign", "convert", "reply"} => IsSign
    /\ pc \in {"generate", "encode"} => ~IsSign

\* The public key of a Cosmos address waits in a variable of its own.
PubkeyInv == pc \in {"leave", "encode"} /\ ~IsSign /\ ~IsEvm => pubkey = PublicKey(derivedPath)

\* Nothing of a signature is in the buffer while an address is made, nor when
\* a callback of evm/ begins to sign.
CleanInv ==
    /\ pc # "idle" /\ ~IsSign => IsClean(io)
    /\ pc = "digest" /\ IsEvm => IsClean(io)

\* And none is left behind a refusal.
RefusalInv == answer.status \notin {"none", "OK"} => answer.bytes = << >> /\ IsClean(io)

KeysInv == CommandInv /\ BufferInv /\ RoutineInv /\ PubkeyInv /\ CleanInv /\ RefusalInv

LEMMA KeysInit == Init => KeysInv
  <1> SUFFICES ASSUME Init PROVE KeysInv
    OBVIOUS
  <1>1. io = Zeroed /\ pc = "idle" /\ answer.status = "none"
    BY DEF Init
  <1>2. QED
    BY <1>1, ZeroedIsClean
    DEF KeysInv, CommandInv, BufferInv, RoutineInv, PubkeyInv, CleanInv, RefusalInv

LEMMA ServeKeeps ==
    ASSUME KeysInv, NEW c \in Commands, Serve(c)
    PROVE  KeysInv'
  <1>1. /\ pc' \in {"review", "derive"} /\ command' = c /\ answer'.status = "none"
        /\ pc' = "review" <=> c.ins \in SignIns
    BY DEF Serve
  <1>2. DOMAIN io' = 0 .. IoSize - 1 /\ (pc' # "review" => io' = Zeroed)
    BY ZeroedIsClean DEF Serve, KeysInv, BufferInv
  <1>3. IsSign' <=> c.ins \in SignIns
    BY <1>1 DEF IsSign
  <1>4. QED
    BY <1>1, <1>2, <1>3, ZeroedIsClean
    DEF KeysInv, CommandInv, BufferInv, RoutineInv, PubkeyInv, CleanInv, RefusalInv

\* A step of a routine keeps the command, and most keep the paths.
LEMMA SameCommand ==
    ASSUME UNCHANGED command
    PROVE  (IsSign' <=> IsSign) /\ (IsEvm' <=> IsEvm)
  BY DEF IsSign, IsEvm

LEMMA SamePath ==
    ASSUME UNCHANGED << command, paths >>
    PROVE  /\ UNCHANGED << derivedPath, hdPath >>
           /\ DerivedPath' = DerivedPath
  BY DEF IsSign, IsEvm, DerivedPath, paths

\* The key is derived from the path there is before the chain code is written.
LEMMA DeriveWrites ==
    ASSUME Derive
    PROVE  /\ derivedPath' = DerivedPath /\ UNCHANGED << hdPath, hdPath_len >>
           /\ \/ UNCHANGED << hdPathEth, hdPathEth_len >>
              \/ \E code \in ChainCodes, n \in 0 .. HDPATH_LEN_DEFAULT :
                    /\ hdPathEth' = [k \in 1 .. HDPATH_LEN_DEFAULT |->
                                        IF k <= n THEN code[k] ELSE hdPathEth[k]]
                    /\ hdPathEth_len' \in {hdPathEth_len, code[HDPATH_LEN_DEFAULT + 1]}
  BY DEF Derive, WriteChainCode

LEMMA UserKeeps ==
    ASSUME KeysInv, User
    PROVE  KeysInv'
  <1> USE DEF KeysInv, CommandInv, BufferInv, RoutineInv, PubkeyInv, CleanInv, RefusalInv
  <1>1. CASE ApproveSign
    <2>1. /\ pc' = "digest" /\ IsSign' /\ UNCHANGED answer /\ command' = command
          /\ io' = IF IsEvm THEN Zeroed ELSE io
          /\ IsEvm' <=> IsEvm
      BY <1>1, SameCommand DEF ApproveSign
    <2>2. DOMAIN io' = 0 .. IoSize - 1 /\ (IsEvm' => IsClean(io'))
      BY <2>1, ZeroedIsClean
    <2>3. QED
      BY <1>1, <2>1, <2>2 DEF ApproveSign
  <1>2. CASE ApproveAddress
    <2>1. /\ pc' = "idle" /\ UNCHANGED io /\ ~IsSign
          /\ answer'.status # "OK" => answer'.bytes = Cut(io, 0, 0)
      BY <1>2 DEF ApproveAddress, Send
    <2>2. QED
      BY <1>2, <2>1, CutNothing DEF ApproveAddress
  <1>3. CASE Reject
    <2>1. pc' = "idle" /\ io' = Zeroed /\ answer'.bytes = Cut(io, 0, 0)
      BY <1>3 DEF Reject, Send
    <2>2. QED
      BY <2>1, CutNothing, ZeroedIsClean
  <1>4. QED
    BY <1>1, <1>2, <1>3 DEF User

LEMMA RoutineKeeps ==
    ASSUME KeysInv,
           SetDigest \/ DigestFails \/ Derive \/ InitPrivateKey \/ GeneratePair
           \/ EcdsaSign \/ Convert \/ Leave
    PROVE  KeysInv'
  <1> USE DEF KeysInv, CommandInv, BufferInv, RoutineInv, PubkeyInv, CleanInv, RefusalInv
  <1>1. CASE SetDigest \/ Derive \/ InitPrivateKey \/ Leave
    <2>1. /\ UNCHANGED << command, pubkey, io, answer >>
          /\ pc # "idle" /\ pc' \in {"derive", "init", "sign", "generate", "reply", "encode"}
          /\ pc' \in {"sign", "reply"} => IsSign
          /\ pc' \in {"generate", "encode"} => ~IsSign
          /\ pc' = "encode" => pc = "leave" /\ UNCHANGED derivedPath
      BY <1>1 DEF SetDigest, Derive, InitPrivateKey, Leave, paths
    <2>2. QED
      BY <2>1, SameCommand
  <1>2. CASE DigestFails
    <2>1. /\ pc' = "idle" /\ UNCHANGED io /\ pc = "digest" /\ IsEvm
          /\ answer'.bytes = Cut(io, 0, 0)
      BY <1>2 DEF DigestFails, Send
    <2>2. QED
      BY <2>1, CutNothing
  <1>3. CASE GeneratePair
    <2>1. /\ UNCHANGED << command, paths, answer >> /\ pc = "generate" /\ pc' = "leave"
          /\ IF IsEvm THEN io' = Put(io, 1, PublicKey(derivedPath))
             ELSE io' = io /\ pubkey' = PublicKey(derivedPath)
      BY <1>3 DEF GeneratePair
    <2>2. 1 \in Nat /\ 1 + PK_LEN_UNCOMPRESSED <= IoSize
      BY SizesAssumption DEF PK_LEN_UNCOMPRESSED
    <2>3. DOMAIN io' = 0 .. IoSize - 1 /\ IsClean(io')
      BY <2>1, <2>2, PublicKeyCells, PutsClean
    <2>4. QED
      BY <2>1, <2>3, SameCommand, SamePath
  <1>4. CASE EcdsaSign \/ Convert
    <2>1. /\ UNCHANGED << command, paths, answer >>
          /\ pc \in {"sign", "convert"} /\ pc' \in {"convert", "leave"}
          /\ \E at, cells : io' = Put(io, at, cells)
      BY <1>4 DEF EcdsaSign, Convert
    <2>2. DOMAIN io' = 0 .. IoSize - 1
      BY <2>1 DEF Put
    <2>3. QED
      BY <2>1, <2>2, SameCommand
  <1>5. QED
    BY <1>1, <1>2, <1>3, <1>4

LEMMA FailKeeps ==
    ASSUME KeysInv, Fail
    PROVE  KeysInv'
  <1> USE DEF KeysInv, CommandInv, BufferInv, RoutineInv, PubkeyInv, CleanInv, RefusalInv
  <1>1. /\ pc' = "idle" /\ io' = Wipe(io) /\ pc # "idle"
        /\ answer'.bytes = Cut(io, 0, 0)
    BY DEF Fail, Send
  <1>2. DOMAIN io' = 0 .. IoSize - 1 /\ IsClean(io')
    <2>1. CASE IsSign
      BY <1>1, <2>1, ZeroedIsClean DEF Wipe
    <2>2. CASE ~IsSign /\ ~IsEvm
      BY <1>1, <2>2 DEF Wipe
    <2>3. CASE ~IsSign /\ IsEvm
      <3> DEFINE zeros == [k \in 1 .. PK_LEN_UNCOMPRESSED |-> Zero]
      <3>1. PK_LEN_UNCOMPRESSED \in Nat /\ 1 + PK_LEN_UNCOMPRESSED <= IoSize
        BY SizesAssumption DEF PK_LEN_UNCOMPRESSED
      <3>2. IsRow(zeros, PK_LEN_UNCOMPRESSED) /\ IsClean(zeros)
        BY <3>1 DEF IsRow, IsClean, Zero, SignatureParts
      <3>3. io' = Put(io, 1, zeros)
        BY <1>1, <2>3 DEF Wipe
      <3> HIDE DEF zeros
      <3>4. QED
        BY <1>1, <2>3, <3>1, <3>2, <3>3, PutsClean
    <2>4. QED
      BY <2>1, <2>2, <2>3
  <1>3. QED
    BY <1>1, <1>2, CutNothing

\* What an address is answered with, or shown, is clean.
LEMMA AnswerKeeps ==
    ASSUME KeysInv, pc = "encode", NEW buffer, NEW len, AnswerAddress(buffer, len),
           DOMAIN buffer = 0 .. IoSize - 1, IsClean(buffer)
    PROVE  KeysInv'
  <1>1. /\ io' = buffer /\ UNCHANGED << command, paths >> /\ pc' \in {"review", "idle"}
        /\ IF pc' = "review" THEN UNCHANGED answer ELSE answer'.status = "OK"
    BY DEF AnswerAddress, Send
  <1>2. QED
    BY <1>1, SameCommand
    DEF KeysInv, CommandInv, BufferInv, RoutineInv, PubkeyInv, CleanInv, RefusalInv

LEMMA EncodeKeeps ==
    ASSUME KeysInv,
           EncodeAddress \/ EncoderFails \/ EncodeEthAddress \/ EthEncoderFails
    PROVE  KeysInv'
  <1>1. pc = "encode" /\ ~IsSign /\ DOMAIN io = 0 .. IoSize - 1 /\ IsClean(io)
    BY DEF KeysInv, BufferInv, RoutineInv, CleanInv,
           EncodeAddress, EncoderFails, EncodeEthAddress, EthEncoderFails
  <1> DEFINE key   == Compressed(pubkey)
             front == Put(io, 0, key)
  <1>2. ~IsEvm => IsRow(key, PK_LEN) /\ IsClean(key)
    BY <1>1, CompressedCells DEF KeysInv, PubkeyInv
  <1>3. PK_LEN \in Nat /\ PK_LEN <= IoSize
    BY SizesAssumption DEF PK_LEN
  <1>4. ~IsEvm => DOMAIN front = 0 .. IoSize - 1 /\ IsClean(front)
    <2> HIDE DEF key
    <2>1. 0 \in Nat /\ 0 + PK_LEN <= IoSize
      BY <1>3
    <2>2. QED
      BY <1>1, <1>2, <2>1, PutsClean
  <1>5. CASE EncodeAddress
    <2> DEFINE text == Address("bech32", key, Bech32Len)
    <2>1. ~IsEvm /\ AnswerAddress(Put(front, PK_LEN, text), PK_LEN + Bech32Len)
      BY <1>5 DEF EncodeAddress
    <2>2. IsRow(text, Bech32Len) /\ IsClean(text)
      BY SizesAssumption, BytesAreRow, BytesAreClean DEF Address, SignatureParts
    <2>3. PK_LEN \in Nat /\ PK_LEN + Bech32Len <= IoSize
      BY <1>3, SizesAssumption
    <2> HIDE DEF front, text
    <2>4. DOMAIN Put(front, PK_LEN, text) = 0 .. IoSize - 1 /\ IsClean(Put(front, PK_LEN, text))
      BY <1>4, <2>1, <2>2, <2>3, PutsClean
    <2>5. QED
      BY <1>1, <2>1, <2>4, AnswerKeeps
  <1>6. CASE EncoderFails
    <2>1. ~IsEvm
      BY <1>6 DEF EncoderFails
    <2>2. PICK outLen \in EncoderErrors :
              IF outLen = 0
              THEN io' = Zeroed /\ pc' = "idle" /\ answer'.bytes = Cut(io, 0, 0)
              ELSE AnswerAddress(front, PK_LEN + outLen)
      BY <1>6 DEF EncoderFails, Send
    <2> HIDE DEF front
    <2>3. CASE outLen = 0
      BY <2>2, <2>3, CutNothing, ZeroedIsClean
      DEF KeysInv, CommandInv, BufferInv, RoutineInv, PubkeyInv, CleanInv, RefusalInv
    <2>4. CASE outLen # 0
      BY <1>1, <1>4, <2>1, <2>2, <2>4, AnswerKeeps
    <2>5. QED
      BY <2>3, <2>4
  <1>7. CASE EncodeEthAddress
    <2> DEFINE pk   == Cut(io, 1, PK_LEN_UNCOMPRESSED)
               len  == Bytes("len", << "pk" >>, 1)
               alen == Bytes("len", << "address" >>, 1)
               hex  == Address("hex", SubSeq(pk, 2, Len(pk)), EthAddrLen)
    <2>1. AnswerAddress(Put(Put(io, 0, len), PK_LEN_UNCOMPRESSED + 1, alen \o hex),
                        PK_LEN_UNCOMPRESSED + 1 + EthAddrLen + 1)
      BY <1>7 DEF EncodeEthAddress
    <2>2. 1 \in Nat /\ EthAddrLen \in Nat
      BY SizesAssumption
    <2>3. IsRow(len, 1) /\ IsClean(len) /\ IsRow(alen, 1) /\ IsClean(alen)
      BY <2>2, BytesAreRow, BytesAreClean DEF SignatureParts
    <2>4. IsRow(hex, EthAddrLen) /\ IsClean(hex)
      BY <2>2, BytesAreRow, BytesAreClean DEF Address, SignatureParts
    <2> HIDE DEF len, alen, hex
    <2>5. IsRow(alen \o hex, 1 + EthAddrLen) /\ IsClean(alen \o hex)
      BY <2>3, <2>4, RowConcat, RowsAreClean DEF IsJoin
    <2>6. /\ 0 \in Nat /\ 0 + 1 <= IoSize
          /\ PK_LEN_UNCOMPRESSED + 1 \in Nat
          /\ (PK_LEN_UNCOMPRESSED + 1) + (1 + EthAddrLen) <= IoSize
      BY SizesAssumption DEF PK_LEN_UNCOMPRESSED
    <2>7. DOMAIN Put(io, 0, len) = 0 .. IoSize - 1 /\ IsClean(Put(io, 0, len))
      BY <1>1, <2>3, <2>6, PutsClean
    <2> DEFINE text == alen \o hex
    <2>8. IsRow(text, 1 + EthAddrLen) /\ IsClean(text)
      BY <2>5
    <2> HIDE DEF text
    <2>9. LET reply == Put(Put(io, 0, len), PK_LEN_UNCOMPRESSED + 1, text)
          IN  DOMAIN reply = 0 .. IoSize - 1 /\ IsClean(reply)
      BY <2>6, <2>7, <2>8, PutsClean
    <2>10. QED
      BY <1>1, <2>1, <2>9, AnswerKeeps DEF text
  <1>8. CASE EthEncoderFails
    <2>1. pc' = "idle" /\ UNCHANGED io /\ answer'.bytes = Cut(io, 0, 0)
      BY <1>8 DEF EthEncoderFails, Send
    <2>2. QED
      BY <1>1, <2>1, CutNothing
      DEF KeysInv, CommandInv, BufferInv, RoutineInv, PubkeyInv, CleanInv, RefusalInv
  <1>9. QED
    BY <1>5, <1>6, <1>7, <1>8

LEMMA ReplyKeeps ==
    ASSUME KeysInv, ReplySignature \/ ReplyEthSignature
    PROVE  KeysInv'
  <1>1. CASE ReplySignature
    <2>1. pc' = "idle" /\ answer'.status = "OK" /\ UNCHANGED io
      BY <1>1 DEF ReplySignature, Send
    <2>2. QED
      BY <2>1
      DEF KeysInv, CommandInv, BufferInv, RoutineInv, PubkeyInv, CleanInv, RefusalInv
  <1>2. CASE ReplyEthSignature
    <2> DEFINE v     == Signature("eth v", 1)
               moved == Put(io, 1, Cut(io, 0, 2 * ScalarLen))
    <2>1. pc' = "idle" /\ answer'.status = "OK" /\ io' = Put(moved, 0, v)
      BY <1>2 DEF ReplyEthSignature, Send, VInFront
    <2>2. DOMAIN moved = DOMAIN io
      BY DEF Put
    <2> HIDE DEF v, moved
    <2>3. DOMAIN io' = DOMAIN io
      BY <2>1, <2>2 DEF Put
    <2>4. QED
      BY <2>1, <2>3
      DEF KeysInv, CommandInv, BufferInv, RoutineInv, PubkeyInv, CleanInv, RefusalInv
  <1>3. QED
    BY <1>1, <1>2

LEMMA KeysStep == KeysInv /\ [Next]_vars => KeysInv'
  <1> SUFFICES ASSUME KeysInv, [Next]_vars PROVE KeysInv'
    OBVIOUS
  <1>1. ASSUME NEW c \in Commands, Serve(c) PROVE KeysInv'
    BY <1>1, ServeKeeps
  <1>2. CASE User
    BY <1>2, UserKeeps
  <1>3. CASE Step
    BY <1>3, RoutineKeeps, FailKeeps, EncodeKeeps, ReplyKeeps DEF Step
  <1>4. CASE ToggleExpert \/ UNCHANGED vars
    <2>1. UNCHANGED << pc, command, paths, pubkey, io, answer >>
      BY <1>4 DEF ToggleExpert, vars
    <2>2. QED
      BY <2>1, SameCommand, SamePath
      DEF KeysInv, CommandInv, BufferInv, RoutineInv, PubkeyInv, CleanInv, RefusalInv
  <1>5. QED
    BY <1>1, <1>2, <1>3, <1>4 DEF Next

\* A refusal carries no data, and nothing of a signature stays in the buffer
\* behind it, whichever call failed after the signature was made
\* (crypto.c:149-151, crypto_evm.c:135-137).
THEOREM RefusalsLeaveNoSignature == Spec => []FailureLeavesNoSignature
  <1>1. KeysInv => FailureLeavesNoSignature
    BY DEF KeysInv, RefusalInv, FailureLeavesNoSignature, IsClean, SignatureParts
  <1>2. QED
    BY <1>1, KeysInit, KeysStep, PTL DEF Spec

-----------------------------------------------------------------------------
(* The path that a key is derived from is the one of this command.  The    *)
(* path variables of evm/ hold it only until then.                         *)

BeforeKey == pc \in {"digest", "derive"} \/ (pc = "review" /\ IsSign)

AfterKey == pc \in WithKey \cup {"encode", "reply"} \/ (pc = "review" /\ ~IsSign)

PathInv ==
    /\ BeforeKey => DerivedPath = command.path
    /\ AfterKey => derivedPath = command.path
    /\ pc # "idle" /\ ~IsEvm => hdPath = command.path

LEMMA SubSeqOfAll ==
    ASSUME NEW S, NEW s \in Seq(S), NEW row, NEW m, IsRow(row, m), Len(s) <= m,
           \A k \in 1 .. Len(s) : row[k] = s[k]
    PROVE  SubSeq(row, 1, Len(s)) = s
  <1> DEFINE n == Len(s)
  <1>1. n \in Nat /\ m \in Nat /\ n <= m /\ 1 \in 1 .. m + 1 /\ n \in 1 - 1 .. m
    BY DEF IsRow
  <1> HIDE DEF n
  <1> DEFINE cut == SubSeq(row, 1, n)
  <1>2. IsRow(cut, n) /\ \A k \in 1 .. n : cut[k] = row[k]
    <2>1. IsRow(cut, n - 1 + 1) /\ \A k \in 1 .. n - 1 + 1 : cut[k] = row[1 + k - 1]
      BY <1>1, RowSubSeq
    <2> HIDE DEF cut
    <2>2. n - 1 + 1 = n /\ \A k \in 1 .. n : 1 + k - 1 = k
      BY <1>1
    <2>3. QED
      BY <2>1, <2>2
  <1>3. IsRow(s, n)
    BY SeqIsRow DEF n
  <1> HIDE DEF cut
  <1>4. cut = s
    BY <1>2, <1>3, RowsEqual DEF n
  <1>5. QED
    BY <1>4 DEF cut, n

LEMMA PathStep ==
    ASSUME KeysInv, PathInv, [Next]_vars
    PROVE  PathInv'
  <1>1. ASSUME NEW c \in Commands, Serve(c) PROVE PathInv'
    <2>1. /\ command' = c
          /\ c.path \in Seq(Nat) /\ Len(c.path) \in 3 .. HDPATH_LEN_DEFAULT
          /\ c.ins \notin EvmIns => Len(c.path) = HDPATH_LEN_DEFAULT
      BY <1>1, CommandsAssumption DEF Serve
    <2> DEFINE path == c.path
               row  == IF c.ins \in EvmIns
                       THEN [k \in 1 .. HDPATH_LEN_DEFAULT |->
                                IF k <= Len(path) THEN path[k] ELSE hdPathEth[k]]
                       ELSE path
    <2>2. DerivedPath' = SubSeq(row, 1, Len(path))
      BY <1>1, <2>1
      DEF Serve, CopyPath, DerivedPath, IsEvm, IsSign, HDPATH_LEN_DEFAULT
    <2>3. IsRow(row, HDPATH_LEN_DEFAULT)
      <3>1. CASE c.ins \in EvmIns
        BY <3>1 DEF IsRow, HDPATH_LEN_DEFAULT
      <3>2. CASE c.ins \notin EvmIns
        BY <2>1, <3>2, SeqIsRow
      <3>3. QED
        BY <3>1, <3>2
    <2>4. Len(path) \in 0 .. HDPATH_LEN_DEFAULT
      BY <2>1 DEF HDPATH_LEN_DEFAULT
    <2>5. ASSUME NEW k \in 1 .. Len(path) PROVE row[k] = path[k]
      <3> DEFINE n == Len(path)
      <3>1. n \in 0 .. HDPATH_LEN_DEFAULT /\ k \in 1 .. n
        BY <2>4
      <3> HIDE DEF n
      <3>2. k \in 1 .. HDPATH_LEN_DEFAULT /\ k <= n
        BY <3>1 DEF HDPATH_LEN_DEFAULT
      <3>3. QED
        BY <3>2 DEF n
    <2> HIDE DEF row
    <2>6. SubSeq(row, 1, Len(path)) = path
      BY <2>1, <2>3, <2>4, <2>5, SubSeqOfAll
    <2>7. /\ pc' = IF c.ins \in SignIns THEN "review" ELSE "derive"
          /\ c.ins \notin EvmIns => hdPath' = c.path
      BY <1>1 DEF Serve
    <2>8. (IsSign' <=> c.ins \in SignIns) /\ (IsEvm' <=> c.ins \in EvmIns)
      BY <2>1 DEF IsSign, IsEvm
    <2>9. DerivedPath' = command'.path /\ ~AfterKey'
      BY <2>1, <2>2, <2>6, <2>7, <2>8 DEF AfterKey, WithKey
    <2>10. QED
      BY <2>1, <2>7, <2>8, <2>9 DEF PathInv
  <1>2. CASE Derive
    <2>1. pc = "derive" /\ pc' = "init" /\ UNCHANGED command
      BY <1>2 DEF Derive
    <2>2. derivedPath' = command'.path /\ UNCHANGED hdPath
      BY <1>2, <2>1, DeriveWrites DEF PathInv, BeforeKey
    <2>3. ~BeforeKey' /\ (IsEvm' <=> IsEvm)
      BY <2>1, SameCommand DEF BeforeKey
    <2>4. QED
      BY <2>1, <2>2, <2>3 DEF PathInv
  <1>3. CASE ~Derive /\ ~\E c \in Commands : Serve(c)
    <2>1. UNCHANGED << command, paths >> /\ (pc = "idle" => pc' = "idle")
      BY <1>3 DEF Next, User, Step, vars, ToggleExpert, ApproveSign, ApproveAddress, Reject,
                  SetDigest, DigestFails, InitPrivateKey, GeneratePair, EcdsaSign,
                  Convert, Fail, Leave, EncodeAddress, EncoderFails, EncodeEthAddress,
                  EthEncoderFails, AnswerAddress, ReplySignature, ReplyEthSignature, Send
    <2>2. pc = "encode" => ~IsSign
      BY DEF KeysInv, RoutineInv
    <2>3. \/ pc' \in {pc, "idle"}
          \/ pc \in {"digest"} /\ pc' = "derive"
          \/ pc = "review" /\ IsSign /\ pc' = "digest"
          \/ pc \in WithKey \cup {"encode"} /\ pc' \in WithKey \cup {"encode", "reply"}
          \/ pc = "encode" /\ pc' = "review"
      BY <1>3 DEF Next, User, Step, vars, ToggleExpert, ApproveSign, ApproveAddress, Reject,
                  SetDigest, DigestFails, InitPrivateKey, GeneratePair, EcdsaSign,
                  Convert, Fail, Leave, EncodeAddress, EncoderFails, EncodeEthAddress,
                  EthEncoderFails, AnswerAddress, ReplySignature, ReplyEthSignature, Send,
                  WithKey
    <2>4. (IsSign' <=> IsSign) /\ (IsEvm' <=> IsEvm)
      BY <2>1, SameCommand
    <2>5. (BeforeKey' => BeforeKey) /\ (AfterKey' => AfterKey)
      BY <2>2, <2>3, <2>4 DEF BeforeKey, AfterKey, WithKey
    <2>6. QED
      BY <2>1, <2>4, <2>5, SamePath DEF PathInv
  <1>4. QED
    BY <1>1, <1>2, <1>3

-----------------------------------------------------------------------------
(* What the buffer holds on the way to a signature.                        *)

Holds(buffer, at, cells, n) == \A k \in 1 .. n : buffer[at + k - 1] = cells[k]

LEMMA PutHolds ==
    ASSUME NEW b, DOMAIN b = 0 .. IoSize - 1,
           NEW s, NEW n, IsRow(s, n),
           NEW at \in Nat, at + n <= IoSize
    PROVE  Holds(Put(b, at, s), at, s, n)
  BY PutsCells DEF Holds

\* What lies in front of the place or behind it stays.
LEMMA PutKeeps ==
    ASSUME NEW b, DOMAIN b = 0 .. IoSize - 1,
           NEW s, NEW n, IsRow(s, n),
           NEW at \in Nat, at + n <= IoSize,
           NEW t, NEW m \in Nat, NEW from \in Nat, from + m <= IoSize,
           from + m <= at \/ at + n <= from,
           Holds(b, from, t, m)
    PROVE  Holds(Put(b, at, s), from, t, m)
  <1>1. n \in Nat /\ IoSize \in Nat
    BY SizesAssumption DEF IsRow
  <1> DEFINE c == Put(b, at, s)
  <1>2. \A j \in 0 .. IoSize - 1 : j < at \/ j >= at + n => c[j] = b[j]
    BY PutsCells
  <1> HIDE DEF c
  <1>3. ASSUME NEW k \in 1 .. m PROVE c[from + k - 1] = t[k]
    <2> DEFINE j == from + k - 1
    <2>1. j \in 0 .. IoSize - 1 /\ (j < at \/ j >= at + n)
      BY <1>1
    <2>2. b[j] = t[k]
      BY DEF Holds
    <2> HIDE DEF j
    <2>3. c[j] = t[k]
      BY <1>2, <2>1, <2>2
    <2>4. QED
      BY <2>3 DEF j
  <1>4. QED
    BY <1>3 DEF Holds, c

LEMMA CutHeld ==
    ASSUME NEW b, NEW at \in Nat, NEW s, NEW n, IsRow(s, n), Holds(b, at, s, n)
    PROVE  Cut(b, at, n) = s
  <1>1. n \in Nat
    BY DEF IsRow
  <1>2. IsRow(Cut(b, at, n), n) /\ \A k \in 1 .. n : Cut(b, at, n)[k] = b[at + k - 1]
    BY <1>1, CutIsRow
  <1>3. \A k \in 1 .. n : Cut(b, at, n)[k] = s[k]
    BY <1>2 DEF Holds
  <1>4. QED
    BY <1>2, <1>3, RowsEqual

LEMMA HeadHeld ==
    ASSUME NEW b, NEW at, NEW u, NEW s, NEW m \in Nat, NEW t, NEW n \in Nat,
           IsJoin(u, s, m, t, n),
           NEW total, total = m + n, Holds(b, at, u, total)
    PROVE  Holds(b, at, s, m)
  <1>1. \A k \in 1 .. m : u[k] = s[k] /\ k \in 1 .. total
    BY DEF IsJoin
  <1>2. QED
    BY <1>1 DEF Holds

LEMMA TailHeld ==
    ASSUME NEW b, NEW at \in Nat, NEW u, NEW s, NEW m \in Nat, NEW t, NEW n \in Nat,
           IsJoin(u, s, m, t, n),
           NEW mid, mid = at + m,
           NEW total, total = m + n, Holds(b, at, u, total)
    PROVE  Holds(b, mid, t, n)
  <1>1. ASSUME NEW k \in 1 .. n PROVE b[mid + k - 1] = t[k]
    <2> DEFINE i == m + k
    <2>1. i \in 1 .. total /\ at + i - 1 = mid + k - 1
      OBVIOUS
    <2>2. u[i] = t[k]
      BY DEF IsJoin
    <2> HIDE DEF i
    <2>3. b[at + i - 1] = u[i]
      BY <2>1 DEF Holds
    <2>4. QED
      BY <2>1, <2>2, <2>3
  <1>2. QED
    BY <1>1 DEF Holds

LEMMA JoinHeld ==
    ASSUME NEW b, NEW at \in Nat, NEW u, NEW s, NEW m \in Nat, NEW t, NEW n \in Nat,
           IsJoin(u, s, m, t, n), Holds(b, at, s, m),
           NEW mid, mid = at + m, Holds(b, mid, t, n),
           NEW total, total = m + n
    PROVE  Holds(b, at, u, total)
  <1>1. /\ \A k \in 1 .. m : u[k] = s[k]
        /\ \A k \in 1 .. n : u[m + k] = t[k]
    BY DEF IsJoin
  <1>2. ASSUME NEW k \in 1 .. total PROVE b[at + k - 1] = u[k]
    <2>1. CASE k \in 1 .. m
      BY <1>1, <2>1 DEF Holds
    <2>2. CASE k \notin 1 .. m
      <3> DEFINE i == k - m
      <3>1. i \in 1 .. n /\ m + i = k /\ mid + i - 1 = at + k - 1
        BY <2>2
      <3> HIDE DEF i
      <3>2. u[m + i] = t[i]
        BY <1>1, <3>1
      <3>3. b[mid + i - 1] = t[i]
        BY <3>1 DEF Holds
      <3>4. QED
        BY <3>1, <3>2, <3>3
    <2>3. QED
      BY <2>1, <2>2
  <1>3. QED
    BY <1>2 DEF Holds

\* What a signature is of: the path and the digest of the command.
Of == << command.path, Digest(command) >>

Rs(of)  == Bytes("r", of, ScalarLen) \o Bytes("s", of, ScalarLen)
Rsv(of) == Rs(of) \o Bytes("v", of, 1)

LEMMA SignatureRows ==
    ASSUME NEW of
    PROVE  /\ IsRow(Rs(of), 2 * ScalarLen)
           /\ IsRow(Bytes("v", of, 1), 1) /\ IsRow(Bytes("eth v", of, 1), 1)
           /\ IsJoin(Rsv(of), Rs(of), 2 * ScalarLen, Bytes("v", of, 1), 1)
           /\ IsRow(Rsv(of), DerOffset)
           /\ \A n \in DerLens : IsRow(Bytes("der", of, n), n)
  <1>1. ScalarLen \in Nat /\ 1 \in Nat /\ DerLens \subseteq Nat
    BY SizesAssumption
  <1>2. /\ IsRow(Bytes("r", of, ScalarLen), ScalarLen)
        /\ IsRow(Bytes("s", of, ScalarLen), ScalarLen)
        /\ IsRow(Bytes("v", of, 1), 1) /\ IsRow(Bytes("eth v", of, 1), 1)
        /\ \A n \in DerLens : IsRow(Bytes("der", of, n), n)
    BY <1>1, BytesAreRow
  <1>3. IsRow(Rs(of), ScalarLen + ScalarLen)
    BY <1>2, RowConcat DEF Rs, IsJoin
  <1>4. ScalarLen + ScalarLen = 2 * ScalarLen /\ 2 * ScalarLen + 1 = DerOffset
    BY <1>1 DEF DerOffset
  <1>5. IsJoin(Rsv(of), Rs(of), 2 * ScalarLen, Bytes("v", of, 1), 1)
    BY <1>2, <1>3, <1>4, RowConcat DEF Rsv
  <1>6. IsRow(Rsv(of), DerOffset)
    BY <1>4, <1>5 DEF IsJoin
  <1>7. QED
    BY <1>2, <1>3, <1>4, <1>5, <1>6

LEMMA DerFits ==
    ASSUME NEW n \in DerLens
    PROVE  n \in Nat /\ DerOffset \in Nat /\ DerOffset + n <= IoSize
  BY SizesAssumption DEF DerOffset

DerInv ==
    pc \in {"convert", "leave", "reply"} /\ IsSign =>
        \E n \in DerLens :
            /\ Holds(io, DerOffset, Bytes("der", Of, n), n)
            /\ replyLen = IF IsEvm THEN DerOffset + n ELSE DerOffset

RsvInv == pc \in {"leave", "reply"} /\ IsSign => Holds(io, 0, Rsv(Of), DerOffset)

SignInv == DerInv /\ RsvInv /\ SignatureIsOfMessage

LEMMA SignatureIsOf ==
    ASSUME PathInv, pc \in WithKey \cup {"reply"}, NEW part, NEW n
    PROVE  Signature(part, n) = Bytes(part, Of, n)
  BY DEF PathInv, AfterKey, Signature, Of

\* A step that makes no part of a signature and sends none.
LEMMA OtherStepsSign ==
    ASSUME SignInv, UNCHANGED command,
           answer'.status = "OK" => ~IsSign \/ UNCHANGED answer,
           \/ pc' \notin {"convert", "leave", "reply"}
           \/ ~IsSign
           \/ UNCHANGED << io, replyLen >> /\ pc \in {"leave", "reply"}
    PROVE  SignInv'
  <1>1. (IsSign' <=> IsSign) /\ (IsEvm' <=> IsEvm) /\ Of' = Of
    BY SameCommand DEF Of, Digest
  <1>2. SignatureIsOfMessage'
    BY <1>1 DEF SignInv, SignatureIsOfMessage, Of
  <1>3. DerInv' /\ RsvInv'
    BY <1>1 DEF SignInv, DerInv, RsvInv
  <1>4. QED
    BY <1>2, <1>3 DEF SignInv

LEMMA EcdsaSigns ==
    ASSUME KeysInv, PathInv, SignInv, EcdsaSign
    PROVE  SignInv'
  <1>1. /\ pc = "sign" /\ pc' = "convert" /\ IsSign
        /\ UNCHANGED << command, paths, answer >> /\ DOMAIN io = 0 .. IoSize - 1
    BY DEF EcdsaSign, KeysInv, RoutineInv, BufferInv
  <1>2. (IsSign' <=> IsSign) /\ (IsEvm' <=> IsEvm) /\ Of' = Of
    BY <1>1, SameCommand DEF Of
  <1>3. PICK n \in DerLens :
          /\ io' = Put(io, DerOffset, Bytes("der", Of, n))
          /\ replyLen' = IF IsEvm THEN DerOffset + n ELSE DerOffset
    BY <1>1, SignatureIsOf DEF EcdsaSign, WithKey
  <1>4. IsRow(Bytes("der", Of, n), n)
    BY SignatureRows
  <1>5. Holds(io', DerOffset, Bytes("der", Of, n), n)
    BY <1>1, <1>3, <1>4, DerFits, PutHolds
  <1>6. DerInv' /\ RsvInv'
    BY <1>1, <1>2, <1>3, <1>5 DEF DerInv, RsvInv
  <1>7. SignatureIsOfMessage'
    BY <1>1, <1>2 DEF SignInv, SignatureIsOfMessage, Of
  <1>8. QED
    BY <1>6, <1>7 DEF SignInv

LEMMA ConvertSigns ==
    ASSUME KeysInv, PathInv, SignInv, Convert
    PROVE  SignInv'
  <1>1. /\ pc = "convert" /\ pc' = "leave" /\ IsSign
        /\ UNCHANGED << command, paths, replyLen, answer >> /\ DOMAIN io = 0 .. IoSize - 1
    BY DEF Convert, KeysInv, RoutineInv, BufferInv
  <1>2. (IsSign' <=> IsSign) /\ (IsEvm' <=> IsEvm) /\ Of' = Of
    BY <1>1, SameCommand DEF Of
  <1>3. io' = Put(io, 0, Rsv(Of))
    BY <1>1, SignatureIsOf DEF Convert, Rsv, Rs, WithKey
  <1>4. PICK n \in DerLens :
          /\ Holds(io, DerOffset, Bytes("der", Of, n), n)
          /\ replyLen = IF IsEvm THEN DerOffset + n ELSE DerOffset
    BY <1>1 DEF SignInv, DerInv
  <1>a. IsRow(Rsv(Of), DerOffset)
    BY SignatureRows
  <1>5. /\ n \in Nat /\ 0 \in Nat /\ DerOffset \in Nat
        /\ 0 + DerOffset <= IoSize /\ DerOffset + n <= IoSize /\ 0 + DerOffset <= DerOffset
    BY SizesAssumption, DerFits
  <1>6. Holds(io', 0, Rsv(Of), DerOffset)
    BY <1>1, <1>3, <1>5, <1>a, PutHolds
  <1>7. Holds(io', DerOffset, Bytes("der", Of, n), n)
    BY <1>1, <1>3, <1>4, <1>5, <1>a, PutKeeps
  <1>8. DerInv' /\ RsvInv'
    BY <1>1, <1>2, <1>4, <1>6, <1>7 DEF DerInv, RsvInv
  <1>9. SignatureIsOfMessage'
    BY <1>1, <1>2 DEF SignInv, SignatureIsOfMessage, Of
  <1>10. QED
    BY <1>8, <1>9 DEF SignInv

\* v moves to the front, and r and s behind it.
LEMMA VGoesInFront ==
    ASSUME DOMAIN io = 0 .. IoSize - 1, NEW of, NEW n \in DerLens,
           Holds(io, 0, Rsv(of), DerOffset),
           Holds(io, DerOffset, Bytes("der", of, n), n)
    PROVE  Cut(VInFront(io, Bytes("eth v", of, 1)), 0, DerOffset + n)
             = Bytes("eth v", of, 1) \o Rs(of) \o Bytes("der", of, n)
  <1> DEFINE rs    == Rs(of)
             v     == Bytes("eth v", of, 1)
             der   == Bytes("der", of, n)
             cut   == Cut(io, 0, 2 * ScalarLen)
             moved == Put(io, 1, cut)
             sent  == Put(moved, 0, v)
             vrs   == v \o rs
             all   == vrs \o der
  <1>1. ScalarLen \in Nat /\ 0 \in Nat /\ 1 \in Nat /\ 2 * ScalarLen \in Nat
    BY SizesAssumption
  <1>2. /\ n \in Nat /\ DerOffset \in Nat /\ DerOffset + n <= IoSize
        /\ 1 + 2 * ScalarLen = DerOffset /\ 2 * ScalarLen + 1 = DerOffset
    BY <1>1, DerFits DEF DerOffset
  <1>3. IsRow(rs, 2 * ScalarLen) /\ IsRow(v, 1) /\ IsRow(der, n)
    BY SignatureRows
  <1>4. Holds(io, 0, rs, 2 * ScalarLen)
    <2>1. IsJoin(Rsv(of), Rs(of), 2 * ScalarLen, Bytes("v", of, 1), 1)
      BY SignatureRows
    <2>2. DerOffset = 2 * ScalarLen + 1
      BY <1>2
    <2>3. QED
      BY <1>1, <2>1, <2>2, HeadHeld
  <1>a. IsJoin(vrs, v, 1, rs, 2 * ScalarLen)
    <2> HIDE DEF v, rs
    <2>1. QED
      BY <1>3, RowConcat
  <1>5. IsRow(vrs, DerOffset)
    <2> HIDE DEF vrs
    <2>1. QED
      BY <1>2, <1>a DEF IsJoin
  <1>6. IsJoin(all, vrs, DerOffset, der, n) /\ IsRow(all, DerOffset + n)
    <2> HIDE DEF vrs, der
    <2>1. IsJoin(all, vrs, DerOffset, der, n)
      BY <1>3, <1>5, RowConcat
    <2> HIDE DEF all
    <2>2. QED
      BY <2>1 DEF IsJoin
  <1>7. VInFront(io, v) = sent
    BY DEF VInFront
  <1>8. cut = rs
    <2> HIDE DEF rs
    <2>1. QED
      BY <1>1, <1>3, <1>4, CutHeld
  <1> HIDE DEF cut, rs, v, der, vrs, all
  <1>9. /\ DOMAIN moved = 0 .. IoSize - 1
        /\ Holds(moved, 1, rs, 2 * ScalarLen) /\ Holds(moved, DerOffset, der, n)
    <2>1. 1 + 2 * ScalarLen <= IoSize /\ 1 + 2 * ScalarLen <= DerOffset
      BY <1>2, SizesAssumption
    <2>2. DOMAIN moved = 0 .. IoSize - 1 /\ Holds(moved, 1, rs, 2 * ScalarLen)
      BY <1>1, <1>3, <1>8, <2>1, PutHolds, PutsCells
    <2>3. Holds(io, DerOffset, der, n)
      BY DEF der
    <2>4. Holds(moved, DerOffset, der, n)
      BY <1>1, <1>2, <1>3, <1>8, <2>1, <2>3, PutKeeps
    <2>5. QED
      BY <2>2, <2>4
  <1> HIDE DEF moved
  <1>10. /\ Holds(sent, 0, v, 1) /\ Holds(sent, 1, rs, 2 * ScalarLen)
         /\ Holds(sent, DerOffset, der, n)
    <2>1. /\ 0 + 1 <= IoSize /\ 0 + 1 <= 1 /\ 0 + 1 <= DerOffset
          /\ 1 + 2 * ScalarLen <= IoSize
      BY <1>1, <1>2, SizesAssumption
    <2>2. Holds(sent, 0, v, 1)
      BY <1>1, <1>3, <1>9, <2>1, PutHolds
    <2>3. Holds(sent, 1, rs, 2 * ScalarLen)
      BY <1>1, <1>3, <1>9, <2>1, PutKeeps
    <2>4. Holds(sent, DerOffset, der, n)
      BY <1>1, <1>2, <1>3, <1>9, <2>1, PutKeeps
    <2>5. QED
      BY <2>1, <2>2, <2>3, <2>4
  <1> HIDE DEF sent
  <1>b. 1 = 0 + 1 /\ DerOffset = 1 + 2 * ScalarLen /\ DerOffset = 0 + DerOffset
    BY <1>2
  <1>11. Holds(sent, 0, vrs, DerOffset)
    <2> DEFINE len == 2 * ScalarLen
    <2>1. /\ len \in Nat /\ IsJoin(vrs, v, 1, rs, len) /\ Holds(sent, 1, rs, len)
          /\ DerOffset = 1 + len
      BY <1>1, <1>a, <1>b, <1>10
    <2> HIDE DEF len
    <2>2. 0 \in Nat /\ 1 \in Nat /\ 1 = 0 + 1
      OBVIOUS
    <2>3. QED
      BY <1>10, <2>1, <2>2, JoinHeld
  <1>12. Holds(sent, 0, all, DerOffset + n)
    <2> DEFINE total == DerOffset + n
    <2>1. total = DerOffset + n
      OBVIOUS
    <2> HIDE DEF total
    <2>2. Holds(sent, 0, all, total)
      BY <1>1, <1>2, <1>6, <1>b, <1>10, <1>11, <2>1, JoinHeld
    <2>3. QED
      BY <2>1, <2>2
  <1>13. Cut(sent, 0, DerOffset + n) = all
    BY <1>1, <1>6, <1>12, CutHeld
  <1>14. QED
    BY <1>7, <1>13 DEF all, vrs, v, rs, der

LEMMA RepliesSign ==
    ASSUME KeysInv, PathInv, SignInv, ReplySignature \/ ReplyEthSignature
    PROVE  SignInv'
  <1>1. /\ pc = "reply" /\ pc' = "idle" /\ IsSign /\ DOMAIN io = 0 .. IoSize - 1
        /\ UNCHANGED << command, paths >>
    BY DEF ReplySignature, ReplyEthSignature, Send, KeysInv, RoutineInv, BufferInv
  <1>2. (IsSign' <=> IsSign) /\ (IsEvm' <=> IsEvm) /\ Of' = Of
    BY <1>1, SameCommand DEF Of
  <1>3. PICK n \in DerLens :
          /\ Holds(io, DerOffset, Bytes("der", Of, n), n)
          /\ replyLen = IF IsEvm THEN DerOffset + n ELSE DerOffset
    BY <1>1 DEF SignInv, DerInv
  <1>4. Holds(io, 0, Rsv(Of), DerOffset)
    BY <1>1 DEF SignInv, RsvInv
  <1>5. DerInv' /\ RsvInv'
    BY <1>1 DEF DerInv, RsvInv
  <1>6. CASE ReplySignature
    <2>1. ~IsEvm /\ answer'.bytes = Cut(io, 0, DerOffset)
      BY <1>3, <1>6 DEF ReplySignature, Send
    <2>2. IsRow(Rsv(Of), DerOffset) /\ 0 \in Nat
      BY SignatureRows
    <2>3. answer'.bytes = Rsv(Of)
      BY <1>4, <2>1, <2>2, CutHeld
    <2>4. SignatureIsOfMessage'
      BY <1>2, <2>1, <2>3 DEF SignatureIsOfMessage, Rsv, Rs, Of
    <2>5. QED
      BY <1>5, <2>4 DEF SignInv
  <1>7. CASE ReplyEthSignature
    <2> DEFINE v   == Bytes("eth v", Of, 1)
               der == Bytes("der", Of, n)
    <2>a. v = Signature("eth v", 1)
      BY <1>1, SignatureIsOf
    <2>1. IsEvm /\ answer'.bytes = Cut(VInFront(io, v), 0, DerOffset + n)
      BY <1>3, <1>7, <2>a DEF ReplyEthSignature, Send
    <2>2. answer'.bytes = v \o Rs(Of) \o der
      BY <1>1, <1>3, <1>4, <2>1, VGoesInFront
    <2>3. Len(answer'.bytes) - DerOffset = n
      <3>1. IsRow(v, 1) /\ IsRow(Rs(Of), 2 * ScalarLen) /\ IsRow(der, n)
        BY SignatureRows
      <3>2. IsRow(v \o Rs(Of), 1 + 2 * ScalarLen)
        BY <3>1, RowConcat DEF IsJoin
      <3> DEFINE vrs == v \o Rs(Of)
      <3>3. IsRow(vrs, 1 + 2 * ScalarLen)
        BY <3>2
      <3> HIDE DEF vrs, v, der
      <3>4. IsRow(vrs \o der, (1 + 2 * ScalarLen) + n)
        BY <3>1, <3>3, RowConcat DEF IsJoin
      <3> DEFINE all == vrs \o der
      <3>5. IsRow(all, (1 + 2 * ScalarLen) + n)
        BY <3>4
      <3>6. answer'.bytes = all
        BY <2>2 DEF vrs
      <3> HIDE DEF all
      <3>7. Len(all) = (1 + 2 * ScalarLen) + n
        <4>1. \A k \in 1 .. (1 + 2 * ScalarLen) + n :
                all[k] \in {all[j] : j \in 1 .. (1 + 2 * ScalarLen) + n}
          OBVIOUS
        <4>2. QED
          BY <3>5, <4>1, RowIsSeq
      <3>8. QED
        BY <3>6, <3>7, SizesAssumption, DerFits DEF DerOffset
    <2>4. SignatureIsOfMessage'
      BY <1>2, <2>1, <2>2, <2>3 DEF SignatureIsOfMessage, Rs, Of
    <2>5. QED
      BY <1>5, <2>4 DEF SignInv
  <1>8. QED
    BY <1>6, <1>7

LEMMA SignStep ==
    ASSUME KeysInv, PathInv, SignInv, [Next]_vars
    PROVE  SignInv'
  <1>1. ASSUME NEW c \in Commands, Serve(c) PROVE SignInv'
    <2>1. pc' \in {"review", "derive"} /\ answer'.status = "none"
      BY <1>1 DEF Serve
    <2>2. QED
      BY <2>1 DEF SignInv, DerInv, RsvInv, SignatureIsOfMessage
  <1>2. CASE User
    <2>1. /\ UNCHANGED << command, paths >> /\ pc' \in {"digest", "idle"}
          /\ IsSign => answer'.status # "OK" \/ UNCHANGED answer
      BY <1>2 DEF User, ApproveSign, ApproveAddress, Reject, Send
    <2>2. QED
      BY <2>1, OtherStepsSign
  <1>3. CASE SetDigest \/ Derive \/ InitPrivateKey \/ Leave
    <2>1. /\ UNCHANGED << command, io, replyLen, answer >>
          /\ pc' \in {"convert", "leave", "reply"} => pc = "leave"
      BY <1>3 DEF SetDigest, Derive, InitPrivateKey, Leave
    <2>2. QED
      BY <2>1, OtherStepsSign
  <1>4. CASE GeneratePair
    <2>1. UNCHANGED << command, paths, answer >> /\ ~IsSign
      BY <1>4 DEF GeneratePair, KeysInv, RoutineInv
    <2>2. QED
      BY <2>1, OtherStepsSign
  <1>5. CASE DigestFails \/ Fail
    <2>1. UNCHANGED << command, paths >> /\ pc' = "idle" /\ answer'.status # "OK"
      BY <1>5 DEF DigestFails, Fail, Send
    <2>2. QED
      BY <2>1, OtherStepsSign
  <1>6. CASE EncodeAddress \/ EncoderFails \/ EncodeEthAddress \/ EthEncoderFails
    <2>1. UNCHANGED << command, paths >> /\ ~IsSign
      BY <1>6 DEF EncodeAddress, EncoderFails, EncodeEthAddress, EthEncoderFails,
                  AnswerAddress, KeysInv, RoutineInv
    <2>2. QED
      BY <2>1, OtherStepsSign
  <1>7. CASE ToggleExpert \/ UNCHANGED vars
    <2>1. UNCHANGED << pc, command, paths, io, replyLen, answer >>
      BY <1>7 DEF ToggleExpert, vars
    <2>2. (IsSign' <=> IsSign) /\ (IsEvm' <=> IsEvm) /\ Of' = Of
      BY <2>1, SameCommand DEF Of
    <2>3. QED
      BY <2>1, <2>2 DEF SignInv, DerInv, RsvInv, SignatureIsOfMessage, Of
  <1>8. QED
    BY <1>1, <1>2, <1>3, <1>4, <1>5, <1>6, <1>7, EcdsaSigns, ConvertSigns, RepliesSign
    DEF Next, Step

LEMMA SignInit == Init => SignInv /\ PathInv
  BY DEF Init, SignInv, DerInv, RsvInv, SignatureIsOfMessage, PathInv, BeforeKey, AfterKey, WithKey

\* A signature that is answered is that of this command's message under this
\* command's path, laid out as the family has it: v moves in front without
\* writing over r, s or the DER form (crypto.c:133-144, crypto_evm.c:157-173).
THEOREM SignaturesAreOfMessage == Spec => []SignatureIsOfMessage
  <1>1. Init => KeysInv /\ PathInv /\ SignInv
    BY KeysInit, SignInit
  <1>2. KeysInv /\ PathInv /\ SignInv /\ [Next]_vars => (KeysInv /\ PathInv /\ SignInv)'
    BY KeysStep, PathStep, SignStep
  <1>3. SignInv => SignatureIsOfMessage
    BY DEF SignInv
  <1>4. QED
    BY <1>1, <1>2, <1>3, PTL DEF Spec

-----------------------------------------------------------------------------
(* What the buffer holds on the way to an address.                         *)

\* The text is where the screen looks for it.
Shows(buffer) ==
    IF IsEvm THEN Holds(buffer, VIEW_ADDRESS_OFFSET_ETH, AddressText(command), EthAddrLen)
    ELSE /\ Holds(buffer, PK_LEN, AddressText(command), Bech32Len)
         /\ buffer[PK_LEN + Bech32Len] = Zero

Replied(buffer, len) ==
    /\ IsRow(AddressReply(command), len)
    /\ Holds(buffer, 0, AddressReply(command), len)
    /\ Shows(buffer)

\* Behind the key there is nothing, where the screen looks for a text.
Emptied(buffer, len) ==
    /\ ~IsEvm /\ buffer[PK_LEN] = Zero
    /\ \E n \in EncoderErrors \ {0} :
          /\ IsRow(EmptyReply(command, n), len)
          /\ Holds(buffer, 0, EmptyReply(command, n), len)

Replies(c) == {address[2] : address \in Addresses(c)}

LEMMA RepliesAre ==
    ASSUME NEW c
    PROVE  /\ AddressReply(c) \in Replies(c)
           /\ << AddressText(c), AddressReply(c) >> \in Addresses(c)
           /\ c.ins \notin EvmIns => \A n \in EncoderErrors \ {0} :
                 /\ EmptyReply(c, n) \in Replies(c)
                 /\ << << >>, EmptyReply(c, n) >> \in Addresses(c)
  <1>1. << AddressText(c), AddressReply(c) >> \in Addresses(c)
    BY DEF Addresses
  <1>2. ASSUME c.ins \notin EvmIns, NEW n \in EncoderErrors \ {0}
        PROVE  << << >>, EmptyReply(c, n) >> \in Addresses(c)
    BY <1>2 DEF Addresses
  <1>3. \A text, reply : << text, reply >> \in Addresses(c) => reply \in Replies(c)
    <2>1. ASSUME NEW text, NEW reply, << text, reply >> \in Addresses(c)
          PROVE  reply \in Replies(c)
      <3>1. << text, reply >>[2] = reply
        OBVIOUS
      <3>2. QED
        BY <2>1, <3>1 DEF Replies
    <2>2. QED
      BY <2>1
  <1>4. QED
    BY <1>1, <1>2, <1>3

AddressInv ==
    ~IsSign =>
        /\ pc \in {"derive", "init", "generate"} => io = Zeroed
        /\ pc \in {"leave", "encode"} =>
              IF IsEvm THEN Holds(io, 1, PublicKey(command.path), PK_LEN_UNCOMPRESSED)
                       ELSE io = Zeroed
        /\ pc = "review" => Replied(io, replyLen) \/ Emptied(io, replyLen)
        /\ answer.status = "OK" => answer.bytes \in Replies(command)

\* What is sent of such a buffer is an answer with this command's address.
LEMMA SendsReply ==
    ASSUME NEW buffer, NEW len, Replied(buffer, len) \/ Emptied(buffer, len)
    PROVE  Cut(buffer, 0, len) \in Replies(command)
  <1>1. 0 \in Nat
    OBVIOUS
  <1>2. CASE Replied(buffer, len)
    <2>1. Cut(buffer, 0, len) = AddressReply(command)
      BY <1>1, <1>2, CutHeld DEF Replied
    <2>2. QED
      BY <2>1, RepliesAre
  <1>3. CASE Emptied(buffer, len)
    <2>1. PICK n \in EncoderErrors \ {0} :
            /\ IsRow(EmptyReply(command, n), len)
            /\ Holds(buffer, 0, EmptyReply(command, n), len)
      BY <1>3 DEF Emptied
    <2>2. Cut(buffer, 0, len) = EmptyReply(command, n)
      BY <1>1, <2>1, CutHeld
    <2>3. command.ins \notin EvmIns
      BY <1>3 DEF Emptied, IsEvm
    <2>4. QED
      BY <2>2, <2>3, RepliesAre
  <1>4. QED
    BY <1>2, <1>3

LEMMA CosmosReplied ==
    ASSUME KeysInv, PathInv, AddressInv, pc = "encode", ~IsEvm
    PROVE  Replied(Put(Put(io, 0, Compressed(pubkey)), PK_LEN,
                       Address("bech32", Compressed(pubkey), Bech32Len)),
                   PK_LEN + Bech32Len)
  <1> DEFINE key   == Compressed(pubkey)
             text  == Address("bech32", key, Bech32Len)
             front == Put(io, 0, key)
             reply == Put(front, PK_LEN, text)
             all   == key \o text
  <1>1. io = Zeroed /\ ~IsSign /\ pubkey = PublicKey(command.path) /\ DOMAIN io = 0 .. IoSize - 1
    BY DEF KeysInv, RoutineInv, PubkeyInv, BufferInv, PathInv, AfterKey, AddressInv
  <1>2. /\ PK_LEN \in Nat /\ Bech32Len \in Nat /\ IoSize \in Nat /\ 0 \in Nat
        /\ 0 + PK_LEN <= IoSize /\ PK_LEN + Bech32Len <= IoSize
        /\ 0 + PK_LEN <= PK_LEN /\ PK_LEN = 0 + PK_LEN
        /\ PK_LEN + Bech32Len \in 0 .. IoSize - 1
    BY SizesAssumption DEF PK_LEN
  <1>3. IsRow(key, PK_LEN) /\ IsRow(text, Bech32Len)
    BY <1>1, <1>2, CompressedCells, BytesAreRow DEF Address
  <1>4. text = AddressText(command) /\ all = AddressReply(command)
    BY <1>1 DEF AddressText, AddressReply, Address, IsEvm
  <1>5. IsJoin(all, key, PK_LEN, text, Bech32Len)
    <2> HIDE DEF key, text
    <2>1. QED
      BY <1>3, RowConcat
  <1> HIDE DEF key, text, all
  <1>6. DOMAIN front = 0 .. IoSize - 1 /\ Holds(front, 0, key, PK_LEN)
    BY <1>1, <1>2, <1>3, PutsCells, PutHolds
  <1>7. front[PK_LEN + Bech32Len] = Zero
    <2>1. \A j \in 0 .. IoSize - 1 : j < 0 \/ j >= 0 + PK_LEN => front[j] = io[j]
      BY <1>1, <1>2, <1>3, PutsCells
    <2> HIDE DEF front
    <2>2. front[PK_LEN + Bech32Len] = io[PK_LEN + Bech32Len]
      BY <1>2, <2>1
    <2>3. QED
      BY <1>1, <1>2, <2>2 DEF Zeroed
  <1> HIDE DEF front
  <1>8. Holds(reply, PK_LEN, text, Bech32Len) /\ Holds(reply, 0, key, PK_LEN)
    BY <1>2, <1>3, <1>6, PutHolds, PutKeeps
  <1>9. reply[PK_LEN + Bech32Len] = Zero
    BY <1>2, <1>3, <1>6, <1>7, PutsCells
  <1> HIDE DEF reply
  <1>10. Holds(reply, 0, all, PK_LEN + Bech32Len)
    BY <1>2, <1>5, <1>8, JoinHeld
  <1>11. IsRow(all, PK_LEN + Bech32Len)
    BY <1>5 DEF IsJoin
  <1>12. Replied(reply, PK_LEN + Bech32Len)
    BY <1>4, <1>8, <1>9, <1>10, <1>11 DEF Replied, Shows
  <1>13. QED
    BY <1>12 DEF reply, front, text, key

\* An error that counts as a length: the cells behind the key are zero.
LEMMA CosmosEmptied ==
    ASSUME KeysInv, PathInv, AddressInv, pc = "encode", ~IsEvm, NEW n \in EncoderErrors \ {0}
    PROVE  Emptied(Put(io, 0, Compressed(pubkey)), PK_LEN + n)
  <1> DEFINE key   == Compressed(pubkey)
             zeros == [k \in 1 .. n |-> Zero]
             front == Put(io, 0, key)
             all   == key \o zeros
  <1>1. io = Zeroed /\ ~IsSign /\ pubkey = PublicKey(command.path) /\ DOMAIN io = 0 .. IoSize - 1
    BY DEF KeysInv, RoutineInv, PubkeyInv, BufferInv, PathInv, AfterKey, AddressInv
  <1>2. /\ PK_LEN \in Nat /\ n \in Nat \ {0} /\ IoSize \in Nat /\ 0 \in Nat
        /\ 0 + PK_LEN <= IoSize /\ PK_LEN + n <= IoSize /\ PK_LEN = 0 + PK_LEN
    BY SizesAssumption DEF PK_LEN
  <1>3. IsRow(key, PK_LEN) /\ IsRow(zeros, n)
    BY <1>1, <1>2, CompressedCells DEF IsRow
  <1>4. all = EmptyReply(command, n)
    BY <1>1 DEF EmptyReply
  <1>5. IsJoin(all, key, PK_LEN, zeros, n)
    <2> HIDE DEF key, zeros
    <2>1. QED
      BY <1>3, RowConcat
  <1>a. \A k \in 1 .. n : zeros[k] = Zero
    OBVIOUS
  <1> HIDE DEF key, zeros, all
  <1>6. Holds(front, 0, key, PK_LEN)
    BY <1>1, <1>2, <1>3, PutHolds
  <1>7. \A j \in 0 .. IoSize - 1 : j < 0 \/ j >= 0 + PK_LEN => front[j] = io[j]
    BY <1>1, <1>2, <1>3, PutsCells
  <1> HIDE DEF front
  <1>8. \A j \in 0 .. IoSize - 1 : j >= PK_LEN => front[j] = Zero
    BY <1>1, <1>2, <1>7 DEF Zeroed
  <1>9. ASSUME NEW k \in 1 .. n PROVE front[PK_LEN + k - 1] = zeros[k]
    <2> DEFINE j == PK_LEN + k - 1
    <2>1. j \in 0 .. IoSize - 1 /\ j >= PK_LEN
      BY <1>2
    <2> HIDE DEF j
    <2>2. front[j] = Zero
      BY <1>8, <2>1
    <2>3. QED
      BY <1>a, <2>2 DEF j
  <1>10. Holds(front, PK_LEN, zeros, n)
    BY <1>9 DEF Holds
  <1>11. Holds(front, 0, all, PK_LEN + n)
    BY <1>2, <1>5, <1>6, <1>10, JoinHeld
  <1>12. IsRow(all, PK_LEN + n)
    BY <1>5 DEF IsJoin
  <1>13. front[PK_LEN] = Zero
    BY <1>2, <1>8
  <1>14. Emptied(front, PK_LEN + n)
    BY <1>4, <1>11, <1>12, <1>13 DEF Emptied
  <1>15. QED
    BY <1>14 DEF front, key

LEMMA EthReplied ==
    ASSUME KeysInv, PathInv, AddressInv, pc = "encode", IsEvm
    PROVE  LET pk == Cut(io, 1, PK_LEN_UNCOMPRESSED)
           IN  Replied(Put(Put(io, 0, Bytes("len", << "pk" >>, 1)), PK_LEN_UNCOMPRESSED + 1,
                           Bytes("len", << "address" >>, 1)
                           \o Address("hex", SubSeq(pk, 2, Len(pk)), EthAddrLen)),
                       PK_LEN_UNCOMPRESSED + 1 + EthAddrLen + 1)
  <1> DEFINE size  == PK_LEN_UNCOMPRESSED
             pk    == Cut(io, 1, size)
             key   == PublicKey(command.path)
             len   == Bytes("len", << "pk" >>, 1)
             alen  == Bytes("len", << "address" >>, 1)
             hex   == Address("hex", SubSeq(pk, 2, Len(pk)), EthAddrLen)
             text  == alen \o hex
             front == Put(io, 0, len)
             reply == Put(front, size + 1, text)
             one   == len \o key
             two   == one \o alen
             all   == two \o hex
  <1>1. /\ ~IsSign /\ Holds(io, 1, key, size) /\ DOMAIN io = 0 .. IoSize - 1
    BY DEF KeysInv, RoutineInv, BufferInv, AddressInv
  <1>2. /\ size \in Nat \ {0} /\ EthAddrLen \in Nat /\ IoSize \in Nat /\ 0 \in Nat /\ 1 \in Nat
        /\ 0 + 1 <= IoSize /\ 1 + size <= IoSize /\ 0 + 1 <= 1
        /\ size + 1 \in Nat /\ (size + 1) + (1 + EthAddrLen) <= IoSize
        /\ 1 + size <= size + 1 /\ 0 + 1 <= size + 1
    BY SizesAssumption DEF PK_LEN_UNCOMPRESSED
  <1>3. IsRow(key, size) /\ IsRow(len, 1) /\ IsRow(alen, 1) /\ IsRow(hex, EthAddrLen)
    BY <1>2, PublicKeyCells, BytesAreRow DEF Address
  <1>4. pk = key
    <2> HIDE DEF key
    <2>1. QED
      BY <1>1, <1>2, <1>3, CutHeld
  <1>5. SubSeq(key, 2, Len(key)) = Tail(key)
    <2> DEFINE S == {key[k] : k \in 1 .. size}
    <2>1. \A k \in 1 .. size : key[k] \in S
      OBVIOUS
    <2> HIDE DEF S, key
    <2>2. key \in Seq(S) /\ Len(key) = size
      BY <1>3, <2>1, RowIsSeq
    <2> HIDE DEF size
    <2>3. QED
      BY <1>2, <2>2
  <1>6. hex = AddressText(command) /\ all = AddressReply(command)
    BY <1>4, <1>5 DEF AddressText, AddressReply, Address, IsEvm
  <1> HIDE DEF pk, key, len, alen, hex
  <1>7. IsJoin(text, alen, 1, hex, EthAddrLen) /\ IsJoin(one, len, 1, key, size)
    BY <1>3, RowConcat
  <1> HIDE DEF text, one
  <1>8. IsRow(text, 1 + EthAddrLen) /\ IsRow(one, 1 + size)
    BY <1>7 DEF IsJoin
  <1>9. IsJoin(two, one, 1 + size, alen, 1)
    BY <1>3, <1>8, RowConcat
  <1> HIDE DEF two
  <1>10. IsRow(two, (1 + size) + 1)
    BY <1>9 DEF IsJoin
  <1>11. IsJoin(all, two, (1 + size) + 1, hex, EthAddrLen)
    BY <1>3, <1>10, RowConcat
  <1> HIDE DEF all
  <1>12. IsRow(all, (1 + size) + 1 + EthAddrLen)
    BY <1>11 DEF IsJoin
  <1>13. DOMAIN front = 0 .. IoSize - 1 /\ Holds(front, 0, len, 1) /\ Holds(front, 1, key, size)
    BY <1>1, <1>2, <1>3, PutsCells, PutHolds, PutKeeps
  <1> HIDE DEF front
  <1>14. Holds(reply, size + 1, text, 1 + EthAddrLen)
    BY <1>2, <1>8, <1>13, PutHolds
  <1>15. Holds(reply, 0, len, 1) /\ Holds(reply, 1, key, size)
    BY <1>2, <1>3, <1>8, <1>13, PutKeeps
  <1> HIDE DEF reply
  <1>16. Holds(reply, size + 1, alen, 1)
    BY <1>2, <1>7, <1>14, HeadHeld
  <1>17. VIEW_ADDRESS_OFFSET_ETH = (size + 1) + 1
    BY DEF VIEW_ADDRESS_OFFSET_ETH
  <1>18. Holds(reply, VIEW_ADDRESS_OFFSET_ETH, hex, EthAddrLen)
    <2> DEFINE mid == VIEW_ADDRESS_OFFSET_ETH
    <2>1. mid = (size + 1) + 1
      BY <1>17
    <2> HIDE DEF mid
    <2>2. Holds(reply, mid, hex, EthAddrLen)
      BY <1>2, <1>7, <1>14, <2>1, TailHeld
    <2>3. QED
      BY <2>2 DEF mid
  <1> DEFINE s1 == 1 + size
             s2 == s1 + 1
             s3 == s2 + EthAddrLen
  <1>19. /\ s1 \in Nat /\ s2 \in Nat /\ 1 = 0 + 1 /\ s1 = size + 1 /\ s1 = 0 + s1
         /\ s2 = 0 + s2 /\ s2 = VIEW_ADDRESS_OFFSET_ETH
         /\ s3 = PK_LEN_UNCOMPRESSED + 1 + EthAddrLen + 1
    BY <1>2, <1>17
  <1>20. Holds(reply, 0, one, s1)
    BY <1>2, <1>7, <1>15, <1>19, JoinHeld
  <1>21. IsJoin(two, one, s1, alen, 1) /\ IsJoin(all, two, s2, hex, EthAddrLen) /\ IsRow(all, s3)
    BY <1>9, <1>11, <1>12
  <1>22. Holds(reply, s1, alen, 1) /\ Holds(reply, s2, hex, EthAddrLen)
    BY <1>16, <1>18, <1>19
  <1>23. s2 = s1 + 1 /\ s3 = s2 + EthAddrLen
    OBVIOUS
  <1> HIDE DEF s1, s2, s3
  <1>24. Holds(reply, 0, two, s2)
    BY <1>2, <1>19, <1>20, <1>21, <1>22, <1>23, JoinHeld
  <1>25. Holds(reply, 0, all, s3)
    BY <1>2, <1>19, <1>21, <1>22, <1>23, <1>24, JoinHeld
  <1>26. Replied(reply, s3)
    BY <1>6, <1>18, <1>21, <1>25 DEF Replied, Shows
  <1>27. QED
    BY <1>19, <1>26 DEF reply, front, text, hex, alen, len, pk

LEMMA OtherStepsAddress ==
    ASSUME AddressInv, UNCHANGED command,
           IsSign \/ answer'.status # "OK" \/ UNCHANGED answer,
           \/ IsSign
           \/ pc' = "idle"
           \/ pc \in {"derive", "init"} /\ pc' \in {"init", "generate"} /\ UNCHANGED io
           \/ pc = "leave" /\ pc' = "encode" /\ UNCHANGED io
    PROVE  AddressInv'
  <1>1. (IsSign' <=> IsSign) /\ (IsEvm' <=> IsEvm) /\ Replies(command)' = Replies(command)
    BY SameCommand
  <1>2. QED
    BY <1>1 DEF AddressInv

\* An address is answered or shown as it is in the buffer.
LEMMA AnswersAddress ==
    ASSUME AddressInv, pc = "encode", NEW buffer, NEW len, AnswerAddress(buffer, len),
           answer.status = "none", Replied(buffer, len) \/ Emptied(buffer, len)
    PROVE  AddressInv'
  <1>1. /\ io' = buffer /\ replyLen' = len /\ UNCHANGED << command, paths >>
        /\ pc' \in {"review", "idle"}
        /\ IF pc' = "review" THEN UNCHANGED answer ELSE answer'.bytes = Cut(buffer, 0, len)
    BY DEF AnswerAddress, Send
  <1>2. /\ (IsSign' <=> IsSign) /\ (IsEvm' <=> IsEvm)
        /\ Replies(command)' = Replies(command)
    BY <1>1, SameCommand
  <1>3. Replied(io, replyLen)' \/ Emptied(io, replyLen)'
    BY <1>1, <1>2 DEF Replied, Shows, Emptied
  <1>4. Cut(buffer, 0, len) \in Replies(command)
    BY SendsReply
  <1>5. QED
    BY <1>1, <1>2, <1>3, <1>4 DEF AddressInv

LEMMA AddressStep ==
    ASSUME KeysInv, PathInv, AddressInv, [Next]_vars
    PROVE  AddressInv'
  <1>1. ASSUME NEW c \in Commands, Serve(c) PROVE AddressInv'
    <2>1. /\ command' = c /\ answer'.status = "none"
          /\ c.ins \notin SignIns => pc' = "derive" /\ io' = Zeroed
      BY <1>1 DEF Serve
    <2>2. IsSign' <=> c.ins \in SignIns
      BY <2>1 DEF IsSign
    <2>3. QED
      BY <2>1, <2>2 DEF AddressInv
  <1>2. CASE ApproveSign \/ SetDigest \/ EcdsaSign \/ Convert \/ ReplySignature \/ ReplyEthSignature
    <2>1. IsSign /\ UNCHANGED << command, paths >>
      BY <1>2 DEF ApproveSign, SetDigest, EcdsaSign, Convert, ReplySignature,
                  ReplyEthSignature, KeysInv, RoutineInv
    <2>2. QED
      BY <2>1, OtherStepsAddress
  <1>3. CASE Reject \/ DigestFails \/ Fail \/ EthEncoderFails
    <2>1. UNCHANGED << command, paths >> /\ pc' = "idle" /\ answer'.status # "OK"
      BY <1>3 DEF Reject, DigestFails, Fail, EthEncoderFails, Send
    <2>2. QED
      BY <2>1, OtherStepsAddress
  <1>4. CASE Derive \/ InitPrivateKey \/ Leave
    <2>1. /\ UNCHANGED << command, io, answer >>
          /\ \/ IsSign
             \/ pc \in {"derive", "init"} /\ pc' \in {"init", "generate"}
             \/ pc = "leave" /\ pc' = "encode"
      BY <1>4 DEF Derive, InitPrivateKey, Leave
    <2>2. QED
      BY <2>1, OtherStepsAddress
  <1>5. CASE GeneratePair
    <2>1. /\ pc = "generate" /\ pc' = "leave" /\ ~IsSign /\ io = Zeroed /\ DOMAIN io = 0 .. IoSize - 1
          /\ UNCHANGED << command, paths, answer >> /\ answer.status = "none"
          /\ derivedPath = command.path
      BY <1>5 DEF GeneratePair, KeysInv, CommandInv, BufferInv, RoutineInv, PathInv, AfterKey,
                  WithKey, AddressInv
    <2>2. IF IsEvm THEN io' = Put(io, 1, PublicKey(command.path)) ELSE io' = Zeroed
      BY <1>5, <2>1 DEF GeneratePair
    <2>3. 1 \in Nat /\ 1 + PK_LEN_UNCOMPRESSED <= IoSize
      BY SizesAssumption DEF PK_LEN_UNCOMPRESSED
    <2>4. IF IsEvm THEN Holds(io', 1, PublicKey(command.path), PK_LEN_UNCOMPRESSED)
                   ELSE io' = Zeroed
      BY <2>1, <2>2, <2>3, PublicKeyCells, PutHolds
    <2>5. QED
      BY <2>1, <2>4, SameCommand DEF AddressInv
  <1>6. CASE ApproveAddress
    <2>1. /\ pc = "review" /\ pc' = "idle" /\ ~IsSign /\ UNCHANGED << command, paths >>
          /\ answer'.status = "OK" => answer'.bytes = Cut(io, 0, replyLen)
      BY <1>6 DEF ApproveAddress, Send
    <2>2. Cut(io, 0, replyLen) \in Replies(command)
      BY <2>1, SendsReply DEF AddressInv
    <2>3. (IsSign' <=> IsSign) /\ Replies(command)' = Replies(command)
      BY <2>1, SameCommand
    <2>4. QED
      BY <2>1, <2>2, <2>3 DEF AddressInv
  <1>7. CASE EncodeAddress \/ EncodeEthAddress
    <2>1. pc = "encode" /\ answer.status = "none"
      BY <1>7 DEF EncodeAddress, EncodeEthAddress, KeysInv, CommandInv
    <2>2. CASE EncodeAddress
      BY <2>1, <2>2, CosmosReplied, AnswersAddress DEF EncodeAddress
    <2>3. CASE EncodeEthAddress
      BY <2>1, <2>3, EthReplied, AnswersAddress DEF EncodeEthAddress
    <2>4. QED
      BY <1>7, <2>2, <2>3
  <1>8. CASE EncoderFails
    <2>1. pc = "encode" /\ ~IsEvm /\ answer.status = "none"
      BY <1>8 DEF EncoderFails, KeysInv, CommandInv
    <2>2. PICK outLen \in EncoderErrors :
            IF outLen = 0
            THEN /\ Send("EXECUTION_ERROR", 0, io)
                 /\ UNCHANGED << command, paths >>
            ELSE AnswerAddress(Put(io, 0, Compressed(pubkey)), PK_LEN + outLen)
      BY <1>8 DEF EncoderFails
    <2>3. CASE outLen = 0
      <3>1. UNCHANGED command /\ pc' = "idle" /\ answer'.status # "OK"
        BY <2>2, <2>3 DEF Send
      <3>2. QED
        BY <3>1, OtherStepsAddress
    <2>4. CASE outLen # 0
      BY <2>1, <2>2, <2>4, CosmosEmptied, AnswersAddress
    <2>5. QED
      BY <2>3, <2>4
  <1>9. CASE ToggleExpert \/ UNCHANGED vars
    <2>1. UNCHANGED << pc, command, paths, io, replyLen, answer >>
      BY <1>9 DEF ToggleExpert, vars
    <2>2. /\ (IsSign' <=> IsSign) /\ (IsEvm' <=> IsEvm)
          /\ Replies(command)' = Replies(command)
      BY <2>1, SameCommand
    <2>3. QED
      BY <2>1, <2>2 DEF AddressInv, Replied, Shows, Emptied
  <1>10. QED
    BY <1>1, <1>2, <1>3, <1>4, <1>5, <1>6, <1>7, <1>8, <1>9 DEF Next, User, Step

LEMMA ShownString ==
    ASSUME DOMAIN io = 0 .. IoSize - 1, ~IsEvm, Shows(io)
    PROVE  StringAt(io, PK_LEN) = AddressText(command)
  <1> DEFINE ends == {k \in DOMAIN io : k >= PK_LEN /\ io[k] = Zero}
             end  == PK_LEN + Bech32Len
             text == AddressText(command)
  <1>1. PK_LEN \in Nat /\ Bech32Len \in Nat /\ end \in 0 .. IoSize - 1 /\ IoSize \in Nat
    BY SizesAssumption DEF PK_LEN
  <1>2. /\ IsRow(text, Bech32Len)
        /\ \A k \in 1 .. Bech32Len : text[k].part = "bech32"
    <2> DEFINE of == Compressed(PublicKey(command.path))
    <2>1. text = Bytes("bech32", of, Bech32Len)
      BY DEF AddressText, IsEvm
    <2> HIDE DEF of, text
    <2>2. /\ IsRow(text, Bech32Len)
          /\ \A k \in 1 .. Bech32Len : text[k] = [part |-> "bech32", of |-> of, at |-> k]
      BY <1>1, <2>1, BytesAreRow
    <2>3. ASSUME NEW k \in 1 .. Bech32Len PROVE text[k].part = "bech32"
      <3>1. text[k] = [part |-> "bech32", of |-> of, at |-> k]
        BY <2>2
      <3>2. QED
        BY <3>1
    <2>4. QED
      BY <2>2, <2>3
  <1>3. Holds(io, PK_LEN, text, Bech32Len) /\ io[end] = Zero
    BY DEF Shows
  <1> HIDE DEF text
  <1>4. ASSUME NEW k \in ends PROVE end <= k
    <2>1. SUFFICES ASSUME k < end PROVE FALSE
      BY <1>1
    <2> DEFINE i == k - PK_LEN + 1
    <2>2. i \in 1 .. Bech32Len /\ PK_LEN + i - 1 = k
      BY <1>1, <2>1
    <2> HIDE DEF i
    <2>3. io[k] = text[i]
      BY <1>3, <2>2 DEF Holds
    <2>4. io[k].part = "bech32" /\ io[k].part = "zero"
      BY <1>2, <2>2, <2>3 DEF Zero
    <2>5. QED
      BY <2>4
  <1>5. end \in ends
    BY <1>1, <1>3
  <1>6. (CHOOSE e \in ends : \A k \in ends : e <= k) = end
    <2>1. \A e \in ends : (\A k \in ends : e <= k) => e = end
      BY <1>1, <1>4, <1>5
    <2> HIDE DEF ends, end
    <2>2. QED
      BY <1>4, <1>5, <2>1
  <1>7. end - PK_LEN = Bech32Len
    BY <1>1
  <1>8. StringAt(io, PK_LEN) = Cut(io, PK_LEN, Bech32Len)
    BY <1>6, <1>7 DEF StringAt
  <1>9. QED
    BY <1>1, <1>2, <1>3, <1>8, CutHeld DEF text

\* Where a zero follows the key, the text is empty.
LEMMA ShownNothing ==
    ASSUME DOMAIN io = 0 .. IoSize - 1, io[PK_LEN] = Zero
    PROVE  StringAt(io, PK_LEN) = << >>
  <1> DEFINE ends == {k \in DOMAIN io : k >= PK_LEN /\ io[k] = Zero}
  <1>1. PK_LEN \in Nat /\ PK_LEN \in 0 .. IoSize - 1
    BY SizesAssumption DEF PK_LEN
  <1>2. PK_LEN \in ends /\ (\A k \in ends : k \in Nat /\ PK_LEN <= k)
    BY <1>1, SizesAssumption
  <1>3. (CHOOSE e \in ends : \A k \in ends : e <= k) = PK_LEN
    <2>1. \A e \in ends : (\A k \in ends : e <= k) => e = PK_LEN
      BY <1>1, <1>2
    <2> HIDE DEF ends
    <2>2. QED
      BY <1>2, <2>1
  <1>4. StringAt(io, PK_LEN) = Cut(io, PK_LEN, PK_LEN - PK_LEN)
    BY <1>3 DEF StringAt
  <1>5. PK_LEN - PK_LEN = 0
    BY <1>1
  <1>6. QED
    BY <1>4, <1>5 DEF Cut

\* The path of a Cosmos command is shown whole.
LEMMA ShownPath ==
    ASSUME NEW c \in Commands, c.ins \notin EvmIns
    PROVE  PathText(c.path, HDPATH_LEN_DEFAULT) = c.path
  <1>1. c.path \in Seq(Nat) /\ Len(c.path) = HDPATH_LEN_DEFAULT
    BY CommandsAssumption
  <1>2. SubSeq(c.path, 1, HDPATH_LEN_DEFAULT) = c.path
    BY <1>1 DEF HDPATH_LEN_DEFAULT
  <1>3. QED
    BY <1>2 DEF PathText, HDPATH_LEN_DEFAULT

LEMMA AddressInvMeans == KeysInv /\ PathInv /\ AddressInv => AddressIsOfPath
  <1> SUFFICES ASSUME KeysInv, PathInv, AddressInv PROVE AddressIsOfPath
    OBVIOUS
  <1> DEFINE shown == << Item(0), Cut(io, 0, replyLen) >>
  <1>1. ASSUME pc = "review", ~IsSign PROVE shown \in Addresses(command)
    <2>1. DOMAIN io = 0 .. IoSize - 1 /\ 0 \in Nat
      BY DEF KeysInv, BufferInv
    <2>2. CASE Replied(io, replyLen)
      <3>1. Item(0) = AddressText(command)
        <4>1. CASE IsEvm
          <5>1. /\ VIEW_ADDRESS_OFFSET_ETH \in Nat
                /\ IsRow(AddressText(command), EthAddrLen)
            BY <4>1, SizesAssumption, BytesAreRow
            DEF AddressText, IsEvm, VIEW_ADDRESS_OFFSET_ETH, PK_LEN_UNCOMPRESSED
          <5>2. QED
            BY <2>2, <4>1, <5>1, CutHeld DEF Item, Replied, Shows
        <4>2. CASE ~IsEvm
          BY <2>1, <2>2, <4>2, ShownString DEF Item, Replied
        <4>3. QED
          BY <4>1, <4>2
      <3>2. Cut(io, 0, replyLen) = AddressReply(command)
        BY <2>1, <2>2, CutHeld DEF Replied
      <3>3. QED
        BY <3>1, <3>2, RepliesAre
    <2>3. CASE Emptied(io, replyLen)
      <3>1. PICK n \in EncoderErrors \ {0} :
              /\ IsRow(EmptyReply(command, n), replyLen)
              /\ Holds(io, 0, EmptyReply(command, n), replyLen)
        BY <2>3 DEF Emptied
      <3>2. Cut(io, 0, replyLen) = EmptyReply(command, n)
        BY <2>1, <3>1, CutHeld
      <3>3. ~IsEvm /\ Item(0) = << >>
        BY <2>1, <2>3, ShownNothing DEF Emptied, Item
      <3>4. command.ins \notin EvmIns
        BY <3>3 DEF IsEvm
      <3>5. QED
        BY <3>2, <3>3, <3>4, RepliesAre
    <2>4. QED
      BY <1>1, <2>2, <2>3 DEF AddressInv
  <1>2. ASSUME pc = "review", ~IsEvm PROVE Item(1) = command.path
    <2>1. hdPath = command.path /\ command \in Commands /\ command.ins \notin EvmIns
      BY <1>2 DEF PathInv, KeysInv, CommandInv, IsEvm
    <2>2. Item(1) = PathText(command.path, HDPATH_LEN_DEFAULT)
      BY <1>2, <2>1 DEF Item
    <2>3. QED
      BY <2>1, <2>2, ShownPath
  <1>3. answer.status = "OK" /\ ~IsSign => answer.bytes \in {address[2] : address \in Addresses(command)}
    BY DEF AddressInv, Replies
  <1> HIDE DEF shown
  <1>4. QED
    BY <1>1, <1>2, <1>3 DEF AddressIsOfPath, shown

\* The address on the screen and the one that is answered are one, and it is
\* that of the path this command brought, wherever the chain code comes to
\* lie; whatever an encoder's error counts as, no other address appears
\* (addr.c:38-64, evm_addr.c:40-52, crypto_evm.c:78, crypto_helper.c:35-37).
THEOREM AddressesAreOfPath == Spec => []AddressIsOfPath
  <1>1. Init => KeysInv /\ PathInv /\ AddressInv
    <2>1. Init => AddressInv
      BY DEF Init, AddressInv
    <2>2. QED
      BY <2>1, KeysInit, SignInit
  <1>2. KeysInv /\ PathInv /\ AddressInv /\ [Next]_vars => (KeysInv /\ PathInv /\ AddressInv)'
    BY KeysStep, PathStep, AddressStep
  <1>3. QED
    BY <1>1, <1>2, AddressInvMeans, PTL DEF Spec

-----------------------------------------------------------------------------
(* The variables keep their types, and the buffer the parts it is made of. *)

OfParts(cells) == \A k \in DOMAIN cells : cells[k].part \in Parts

LEMMA PutsParts ==
    ASSUME NEW b, DOMAIN b = 0 .. IoSize - 1, OfParts(b),
           NEW s, NEW n, IsRow(s, n), OfParts(s),
           NEW at \in Nat, at + n <= IoSize
    PROVE  DOMAIN Put(b, at, s) = 0 .. IoSize - 1 /\ OfParts(Put(b, at, s))
  <1>1. DOMAIN Put(b, at, s) = 0 .. IoSize - 1
    BY PutsCells
  <1>2. ASSUME NEW j \in 0 .. IoSize - 1
        PROVE  Put(b, at, s)[j].part \in Parts
    <2>1. CASE j < at \/ j >= at + n
      <3>1. Put(b, at, s)[j] = b[j]
        BY <2>1, PutsCells
      <3>2. QED
        BY <3>1 DEF OfParts
    <2>2. CASE ~(j < at \/ j >= at + n)
      <3>1. IoSize \in Nat /\ n \in Nat
        BY SizesAssumption DEF IsRow
      <3>2. j - at + 1 \in 1 .. n /\ at + (j - at + 1) - 1 = j
        BY <2>2, <3>1
      <3>3. Put(b, at, s)[j] = s[j - at + 1]
        BY <3>2, PutsCells
      <3>4. j - at + 1 \in DOMAIN s
        BY <3>2 DEF IsRow
      <3>5. QED
        BY <3>3, <3>4 DEF OfParts
    <2>3. QED
      BY <2>1, <2>2
  <1>3. QED
    BY <1>1, <1>2 DEF OfParts

LEMMA JoinsParts ==
    ASSUME NEW s, NEW t, NEW m, NEW n, IsRow(s, m), IsRow(t, n), OfParts(s), OfParts(t)
    PROVE  IsRow(s \o t, m + n) /\ OfParts(s \o t)
  <1>1. m \in Nat /\ n \in Nat /\ DOMAIN s = 1 .. m /\ DOMAIN t = 1 .. n
    BY DEF IsRow
  <1> DEFINE both == s \o t
  <1>2. IsJoin(both, s, m, t, n)
    BY RowConcat
  <1> HIDE DEF both
  <1>3. /\ IsRow(both, m + n)
        /\ \A k \in 1 .. m : both[k] = s[k]
        /\ \A k \in 1 .. n : both[m + k] = t[k]
    BY <1>2 DEF IsJoin
  <1>4. ASSUME NEW k \in 1 .. m + n PROVE both[k].part \in Parts
    <2>1. CASE k \in 1 .. m
      BY <1>1, <1>3, <2>1 DEF OfParts
    <2>2. CASE k \notin 1 .. m
      <3> DEFINE i == k - m
      <3>1. i \in 1 .. n /\ m + i = k
        BY <1>1, <2>2
      <3> HIDE DEF i
      <3>2. both[k] = t[i]
        BY <1>3, <3>1
      <3>3. QED
        BY <1>1, <3>1, <3>2 DEF OfParts
    <2>3. QED
      BY <2>1, <2>2
  <1>5. DOMAIN both = 1 .. m + n
    BY <1>3 DEF IsRow
  <1>6. OfParts(both)
    BY <1>4, <1>5 DEF OfParts
  <1>7. QED
    BY <1>3, <1>6 DEF both

LEMMA BytesParts ==
    ASSUME NEW part \in Parts, NEW of, NEW n \in Nat
    PROVE  IsRow(Bytes(part, of, n), n) /\ OfParts(Bytes(part, of, n))
  <1>1. DOMAIN Bytes(part, of, n) = 1 .. n
    BY DEF Bytes
  <1>2. \A k \in 1 .. n : Bytes(part, of, n)[k] = [part |-> part, of |-> of, at |-> k]
    BY BytesAreRow
  <1>3. QED
    BY <1>1, <1>2, BytesAreRow DEF OfParts

LEMMA PublicKeyParts == ASSUME NEW path PROVE OfParts(PublicKey(path))
  <1> DEFINE a == Bytes("04", path, 1)
             b == Bytes("x", path, ScalarLen)
             c == Bytes("y", path, ScalarLen)
  <1>1. ScalarLen \in Nat /\ 1 \in Nat
    BY SizesAssumption
  <1>2. "04" \in Parts /\ "x" \in Parts /\ "y" \in Parts
    BY DEF Parts
  <1>3. /\ IsRow(a, 1) /\ OfParts(a)
        /\ IsRow(b, ScalarLen) /\ OfParts(b)
        /\ IsRow(c, ScalarLen) /\ OfParts(c)
    BY <1>1, <1>2, BytesParts
  <1>4. PublicKey(path) = (a \o b) \o c
    BY DEF PublicKey
  <1> HIDE DEF a, b, c
  <1>5. IsRow(a \o b, 1 + ScalarLen) /\ OfParts(a \o b)
    BY <1>3, JoinsParts
  <1> DEFINE ab == a \o b
  <1>6. IsRow(ab, 1 + ScalarLen) /\ OfParts(ab) /\ PublicKey(path) = ab \o c
    BY <1>4, <1>5
  <1> HIDE DEF ab
  <1>7. OfParts(ab \o c)
    BY <1>3, <1>6, JoinsParts
  <1>8. QED
    BY <1>6, <1>7

LEMMA CompressedParts == ASSUME NEW path PROVE OfParts(Compressed(PublicKey(path)))
  <1> DEFINE pk     == PublicKey(path)
             parity == << [pk[Len(pk)] EXCEPT !.part = "parity"] >>
             x      == SubSeq(pk, 2, PK_LEN)
  <1>1. ScalarLen \in Nat \ {0}
    BY SizesAssumption
  <1>2. /\ IsRow(pk, PK_LEN_UNCOMPRESSED) /\ OfParts(pk)
        /\ pk[PK_LEN_UNCOMPRESSED] = [part |-> "y", of |-> path, at |-> ScalarLen]
    BY PublicKeyCells, PublicKeyParts
  <1>3. Compressed(PublicKey(path)) = parity \o x
    BY DEF Compressed
  <1>4. Len(pk) = PK_LEN_UNCOMPRESSED /\ DOMAIN pk = 1 .. PK_LEN_UNCOMPRESSED
    <2>1. \A k \in 1 .. PK_LEN_UNCOMPRESSED : pk[k] \in {pk[j] : j \in 1 .. PK_LEN_UNCOMPRESSED}
      OBVIOUS
    <2> HIDE DEF pk
    <2>2. QED
      BY <1>2, <2>1, RowIsSeq
  <1> HIDE DEF pk
  <1>5. parity = << [part |-> "parity", of |-> path, at |-> ScalarLen] >>
    BY <1>2, <1>4
  <1> HIDE DEF parity
  <1>6. /\ DOMAIN parity = 1 .. 1 /\ parity = [k \in 1 .. 1 |-> parity[k]]
        /\ parity[1] = [part |-> "parity", of |-> path, at |-> ScalarLen]
    BY <1>5
  <1>7. IsRow(parity, 1)
    BY <1>6 DEF IsRow
  <1>8. OfParts(parity)
    <2>1. \A k \in DOMAIN parity : k = 1
      BY <1>6
    <2>2. parity[1].part = "parity"
      BY <1>6
    <2>3. "parity" \in Parts
      BY DEF Parts
    <2>4. QED
      BY <2>1, <2>2, <2>3 DEF OfParts
  <1>9. 2 \in 1 .. PK_LEN_UNCOMPRESSED + 1 /\ PK_LEN \in 2 - 1 .. PK_LEN_UNCOMPRESSED
    BY <1>1 DEF PK_LEN, PK_LEN_UNCOMPRESSED
  <1>10. /\ IsRow(x, PK_LEN - 1)
         /\ \A k \in 1 .. PK_LEN - 1 : x[k] = pk[k + 1]
    BY <1>1, <1>2, <1>9, RowSubSeq DEF PK_LEN
  <1>11. OfParts(x)
    BY <1>1, <1>2, <1>4, <1>10 DEF OfParts, IsRow, PK_LEN, PK_LEN_UNCOMPRESSED
  <1> HIDE DEF x
  <1>12. QED
    BY <1>3, <1>7, <1>8, <1>10, <1>11, JoinsParts

\* The steps that write neither to the buffer nor a path.
LEMMA OtherStepsType ==
    ASSUME TypeOK, UNCHANGED << command, paths, io >>,
           expert' \in BOOLEAN,
           pc' \in {"idle", "review", "digest", "derive", "init", "generate", "sign",
                    "convert", "leave", "encode", "reply"},
           secrets' \subseteq {"privateKeyData", "cx_privateKey"},
           replyLen' \in 0 .. IoSize - 2,
           answer'.status \in {"none", "OK", "DATA_INVALID", "COMMAND_NOT_ALLOWED",
                               "EXECUTION_ERROR", "SIGN_VERIFY_ERROR"}
    PROVE  TypeOK'
  BY DEF TypeOK, paths

LEMMA WritesType ==
    ASSUME TypeOK, UNCHANGED << command, paths, expert >>,
           DOMAIN io' = 0 .. IoSize - 1, OfParts(io'),
           pc' \in {"idle", "review", "digest", "derive", "init", "generate", "sign",
                    "convert", "leave", "encode", "reply"},
           secrets' \subseteq {"privateKeyData", "cx_privateKey"},
           replyLen' \in 0 .. IoSize - 2,
           answer'.status \in {"none", "OK", "DATA_INVALID", "COMMAND_NOT_ALLOWED",
                               "EXECUTION_ERROR", "SIGN_VERIFY_ERROR"}
    PROVE  TypeOK'
  BY DEF TypeOK, paths, OfParts

LEMMA ZeroedParts == DOMAIN Zeroed = 0 .. IoSize - 1 /\ OfParts(Zeroed)
  BY DEF OfParts, Zeroed, Zero, Parts

LEMMA KeysInitType == Init => TypeOK
  <1> SUFFICES ASSUME Init PROVE TypeOK
    OBVIOUS
  <1>1. DOMAIN io = 0 .. IoSize - 1 /\ \A k \in DOMAIN io : io[k].part \in Parts
    BY ZeroedParts DEF Init, OfParts
  <1>2. 0 \in 0 .. IoSize - 2
    BY SizesAssumption DEF PK_LEN
  <1>3. Len(<< 0, 0, 0, 0, 0 >>) = 5
    OBVIOUS
  <1>4. QED
    BY <1>1, <1>2, <1>3 DEF Init, TypeOK, HDPATH_LEN_DEFAULT

LEMMA ServeType ==
    ASSUME TypeOK, NEW c \in Commands, Serve(c)
    PROVE  TypeOK'
  <1>1. /\ c.path \in Seq(Nat) /\ Len(c.path) \in 3 .. HDPATH_LEN_DEFAULT
        /\ c.ins \notin EvmIns => Len(c.path) = HDPATH_LEN_DEFAULT
    BY CommandsAssumption
  <1>2. /\ Len(hdPath') = HDPATH_LEN_DEFAULT /\ hdPath_len' \in {0, HDPATH_LEN_DEFAULT}
        /\ Len(hdPathEth') = HDPATH_LEN_DEFAULT
        /\ hdPathEth_len' \in {0} \cup 3 .. HDPATH_LEN_DEFAULT
                               \cup {code[HDPATH_LEN_DEFAULT + 1] : code \in ChainCodes}
    <2>1. CASE c.ins \in EvmIns
      <3> DEFINE row == [k \in 1 .. HDPATH_LEN_DEFAULT |->
                            IF k <= Len(c.path) THEN c.path[k] ELSE hdPathEth[k]]
      <3>1. hdPathEth' = row /\ hdPathEth_len' = Len(c.path) /\ UNCHANGED << hdPath, hdPath_len >>
        BY <2>1 DEF Serve, CopyPath
      <3>2. Len(row) = HDPATH_LEN_DEFAULT
        BY DEF HDPATH_LEN_DEFAULT
      <3> HIDE DEF row
      <3>3. QED
        BY <1>1, <3>1, <3>2 DEF TypeOK
    <2>2. CASE c.ins \notin EvmIns
      BY <1>1, <2>2 DEF Serve, TypeOK
    <2>3. QED
      BY <2>1, <2>2
  <1>3. DOMAIN io' = 0 .. IoSize - 1 /\ OfParts(io')
    <2>1. Bytes("command", << >>, 1)[1].part \in Parts
      <3>1. Bytes("command", << >>, 1)[1] = [part |-> "command", of |-> << >>, at |-> 1]
        BY DEF Bytes
      <3> DEFINE cell == Bytes("command", << >>, 1)[1]
      <3>2. cell.part = "command"
        BY <3>1
      <3> HIDE DEF cell
      <3>3. cell.part \in Parts
        BY <3>2 DEF Parts
      <3>4. QED
        BY <3>3 DEF cell
    <2>2. \/ io' = [k \in DOMAIN io |-> Bytes("command", << >>, 1)[1]]
          \/ io' = Zeroed
      BY DEF Serve
    <2>3. DOMAIN io = 0 .. IoSize - 1
      BY DEF TypeOK
    <2>4. QED
      BY <2>1, <2>2, <2>3, ZeroedParts DEF OfParts
  <1>4. 0 \in 0 .. IoSize - 2
    BY SizesAssumption DEF PK_LEN
  <1>5. /\ pc' \in {"review", "derive"} /\ command' = c /\ replyLen' = 0
        /\ answer'.status = "none" /\ UNCHANGED << expert, secrets >>
    BY DEF Serve
  <1>6. QED
    BY <1>2, <1>3, <1>4, <1>5 DEF TypeOK, OfParts

LEMMA UserType ==
    ASSUME TypeOK, User
    PROVE  TypeOK'
  <1>1. CASE ApproveSign
    <2>1. DOMAIN io' = 0 .. IoSize - 1 /\ OfParts(io')
      BY <1>1, ZeroedParts DEF ApproveSign, TypeOK, OfParts
    <2>2. /\ pc' = "digest" /\ UNCHANGED << command, paths, expert, secrets, replyLen, answer >>
      BY <1>1 DEF ApproveSign
    <2>3. QED
      BY <2>1, <2>2, WritesType DEF TypeOK
  <1>2. CASE ApproveAddress
    <2>1. /\ pc' = "idle" /\ answer'.status \in {"DATA_INVALID", "OK"}
          /\ UNCHANGED << command, paths, expert, secrets, io, replyLen >>
      BY <1>2 DEF ApproveAddress, Send
    <2>2. QED
      BY <2>1, OtherStepsType DEF TypeOK
  <1>3. CASE Reject
    <2>1. /\ pc' = "idle" /\ answer'.status = "COMMAND_NOT_ALLOWED" /\ io' = Zeroed
          /\ UNCHANGED << command, paths, expert, secrets, replyLen >>
      BY <1>3 DEF Reject, Send
    <2>2. QED
      BY <2>1, ZeroedParts, WritesType DEF TypeOK
  <1>4. QED
    BY <1>1, <1>2, <1>3 DEF User

LEMMA RoutineType ==
    ASSUME TypeOK,
           SetDigest \/ DigestFails \/ Derive \/ InitPrivateKey \/ GeneratePair
           \/ EcdsaSign \/ Convert \/ Leave
    PROVE  TypeOK'
  <1>1. CASE SetDigest \/ DigestFails
    <2>1. /\ pc' \in {"derive", "idle"}
          /\ answer' = answer \/ answer'.status = "SIGN_VERIFY_ERROR"
          /\ UNCHANGED << command, paths, io, expert, secrets, replyLen >>
      BY <1>1 DEF SetDigest, DigestFails, Send
    <2>2. QED
      BY <2>1, OtherStepsType DEF TypeOK
  <1>2. CASE InitPrivateKey \/ Leave
    BY <1>2, OtherStepsType DEF InitPrivateKey, Leave, Wiped, TypeOK
  <1>a. CASE Derive
    <2>1. /\ secrets' = secrets \cup {"privateKeyData"} /\ pc' = "init"
          /\ UNCHANGED << command, expert, io, replyLen, answer >>
      BY <1>a DEF Derive
    <2>2. /\ Len(hdPathEth') = HDPATH_LEN_DEFAULT
          /\ \/ hdPathEth_len' = hdPathEth_len
             \/ hdPathEth_len' \in {code[HDPATH_LEN_DEFAULT + 1] : code \in ChainCodes}
      <3>1. CASE UNCHANGED << hdPathEth, hdPathEth_len >>
        BY <3>1 DEF TypeOK
      <3>2. CASE ~UNCHANGED << hdPathEth, hdPathEth_len >>
        <4>1. PICK code \in ChainCodes, n \in 0 .. HDPATH_LEN_DEFAULT :
                /\ hdPathEth' = [k \in 1 .. HDPATH_LEN_DEFAULT |->
                                    IF k <= n THEN code[k] ELSE hdPathEth[k]]
                /\ hdPathEth_len' \in {hdPathEth_len, code[HDPATH_LEN_DEFAULT + 1]}
          BY <1>a, <3>2, DeriveWrites
        <4> DEFINE row == [k \in 1 .. HDPATH_LEN_DEFAULT |->
                              IF k <= n THEN code[k] ELSE hdPathEth[k]]
        <4>2. Len(row) = HDPATH_LEN_DEFAULT
          BY DEF HDPATH_LEN_DEFAULT
        <4>3. hdPathEth' = row
          BY <4>1
        <4> HIDE DEF row
        <4>4. QED
          BY <4>1, <4>2, <4>3
      <3>3. QED
        BY <3>1, <3>2
    <2>3. Len(hdPath') = HDPATH_LEN_DEFAULT /\ hdPath_len' \in {0, HDPATH_LEN_DEFAULT}
      BY <1>a, DeriveWrites DEF TypeOK
    <2>4. QED
      BY <2>1, <2>2, <2>3 DEF TypeOK
  <1>3. DOMAIN io = 0 .. IoSize - 1 /\ OfParts(io)
    BY DEF TypeOK, OfParts
  <1>4. CASE GeneratePair
    <2>1. /\ pc' = "leave" /\ UNCHANGED << command, paths, expert, secrets, replyLen, answer >>
          /\ io' = io \/ io' = Put(io, 1, PublicKey(derivedPath))
      BY <1>4 DEF GeneratePair
    <2> DEFINE key == PublicKey(derivedPath)
    <2>2. IsRow(key, PK_LEN_UNCOMPRESSED) /\ OfParts(key)
      BY PublicKeyCells, PublicKeyParts
    <2>3. 1 \in Nat /\ 1 + PK_LEN_UNCOMPRESSED <= IoSize
      BY SizesAssumption DEF PK_LEN_UNCOMPRESSED
    <2> HIDE DEF key
    <2>4. DOMAIN Put(io, 1, key) = 0 .. IoSize - 1 /\ OfParts(Put(io, 1, key))
      BY <1>3, <2>2, <2>3, PutsParts
    <2>5. DOMAIN io' = 0 .. IoSize - 1 /\ OfParts(io')
      BY <1>3, <2>1, <2>4 DEF key
    <2>6. QED
      BY <2>1, <2>5, WritesType DEF TypeOK
  <1>5. CASE EcdsaSign
    <2>1. PICK n \in DerLens :
              /\ io' = Put(io, DerOffset, Signature("der", n))
              /\ replyLen' = IF IsEvm THEN DerOffset + n ELSE DerOffset
      BY <1>5 DEF EcdsaSign
    <2>2. n \in Nat /\ DerOffset \in Nat /\ DerOffset + n <= IoSize - 2 /\ IoSize \in Nat
      BY SizesAssumption DEF DerOffset
    <2> DEFINE der == Signature("der", n)
    <2>3. IsRow(der, n) /\ OfParts(der)
      BY <2>2, BytesParts DEF Signature, Parts
    <2> HIDE DEF der
    <2>4. DOMAIN Put(io, DerOffset, der) = 0 .. IoSize - 1 /\ OfParts(Put(io, DerOffset, der))
      BY <1>3, <2>2, <2>3, PutsParts
    <2>5. replyLen' \in 0 .. IoSize - 2
      BY <2>1, <2>2
    <2>6. pc' = "convert" /\ UNCHANGED << command, paths, expert, secrets, answer >>
      BY <1>5 DEF EcdsaSign
    <2>7. DOMAIN io' = 0 .. IoSize - 1 /\ OfParts(io')
      BY <2>1, <2>4 DEF der
    <2>8. QED
      BY <2>5, <2>6, <2>7, WritesType DEF TypeOK
  <1>6. CASE Convert
    <2> DEFINE r == Signature("r", ScalarLen)
               s == Signature("s", ScalarLen)
               v == Signature("v", 1)
               rs == r \o s
               rsv == rs \o v
    <2>1. ScalarLen \in Nat /\ 1 \in Nat /\ 0 \in Nat
      BY SizesAssumption
    <2>2. /\ IsRow(r, ScalarLen) /\ OfParts(r)
          /\ IsRow(s, ScalarLen) /\ OfParts(s)
          /\ IsRow(v, 1) /\ OfParts(v)
      BY <2>1, BytesParts DEF Signature, Parts
    <2>3. io' = Put(io, 0, rsv)
      BY <1>6 DEF Convert
    <2> HIDE DEF r, s, v
    <2>4. IsRow(rs, ScalarLen + ScalarLen) /\ OfParts(rs)
      BY <2>2, JoinsParts
    <2> HIDE DEF rs
    <2>5. IsRow(rsv, (ScalarLen + ScalarLen) + 1) /\ OfParts(rsv)
      BY <2>2, <2>4, JoinsParts
    <2> HIDE DEF rsv
    <2>6. 0 + ((ScalarLen + ScalarLen) + 1) <= IoSize
      BY SizesAssumption DEF PK_LEN_UNCOMPRESSED
    <2>7. DOMAIN io' = 0 .. IoSize - 1 /\ OfParts(io')
      BY <1>3, <2>1, <2>3, <2>5, <2>6, PutsParts
    <2>8. pc' = "leave" /\ UNCHANGED << command, paths, expert, secrets, replyLen, answer >>
      BY <1>6 DEF Convert
    <2>9. QED
      BY <2>7, <2>8, WritesType DEF TypeOK
  <1>7. QED
    BY <1>1, <1>2, <1>4, <1>5, <1>6, <1>a

LEMMA FailType ==
    ASSUME TypeOK, Fail
    PROVE  TypeOK'
  <1>1. DOMAIN io = 0 .. IoSize - 1 /\ OfParts(io)
    BY DEF TypeOK, OfParts
  <1> DEFINE zeros == [k \in 1 .. PK_LEN_UNCOMPRESSED |-> Zero]
  <1>2. /\ secrets' = {} /\ io' = Wipe(io) /\ replyLen' = 0 /\ pc' = "idle"
        /\ answer'.status \in {"SIGN_VERIFY_ERROR", "EXECUTION_ERROR"}
        /\ UNCHANGED << command, paths, expert >>
    BY DEF Fail, Send
  <1>3. 1 \in Nat /\ 1 + PK_LEN_UNCOMPRESSED <= IoSize /\ PK_LEN_UNCOMPRESSED \in Nat
        /\ 0 \in 0 .. IoSize - 2
    BY SizesAssumption DEF PK_LEN_UNCOMPRESSED
  <1>4. IsRow(zeros, PK_LEN_UNCOMPRESSED) /\ OfParts(zeros)
    BY <1>3 DEF IsRow, OfParts, Zero, Parts
  <1>5. Wipe(io) \in {Zeroed, Put(io, 1, zeros), io}
    BY DEF Wipe
  <1> HIDE DEF zeros
  <1>6. DOMAIN Put(io, 1, zeros) = 0 .. IoSize - 1 /\ OfParts(Put(io, 1, zeros))
    BY <1>1, <1>3, <1>4, PutsParts
  <1>7. DOMAIN io' = 0 .. IoSize - 1 /\ OfParts(io')
    BY <1>1, <1>2, <1>5, <1>6, ZeroedParts
  <1>8. QED
    BY <1>2, <1>3, <1>7, WritesType DEF TypeOK

LEMMA AnswerType ==
    ASSUME TypeOK, NEW buffer, NEW len \in 0 .. IoSize - 2, AnswerAddress(buffer, len),
           DOMAIN buffer = 0 .. IoSize - 1, OfParts(buffer), pc = "encode"
    PROVE  TypeOK'
  <1>1. /\ io' = buffer /\ replyLen' = len /\ pc' \in {"review", "idle"}
        /\ answer' = answer \/ answer'.status = "OK"
        /\ UNCHANGED << command, paths, expert, secrets >>
    BY DEF AnswerAddress, Send
  <1>2. QED
    BY <1>1, WritesType DEF TypeOK

LEMMA EncodeType ==
    ASSUME KeysInv, TypeOK,
           EncodeAddress \/ EncoderFails \/ EncodeEthAddress \/ EthEncoderFails
    PROVE  TypeOK'
  <1>1. pc = "encode" /\ ~IsSign /\ DOMAIN io = 0 .. IoSize - 1 /\ OfParts(io)
    BY DEF KeysInv, RoutineInv, TypeOK, OfParts,
           EncodeAddress, EncoderFails, EncodeEthAddress, EthEncoderFails
  <1> DEFINE key   == Compressed(pubkey)
             front == Put(io, 0, key)
  <1>2. ~IsEvm => IsRow(key, PK_LEN) /\ OfParts(key)
    BY <1>1, CompressedCells, CompressedParts DEF KeysInv, PubkeyInv
  <1>3. PK_LEN \in Nat /\ PK_LEN <= IoSize /\ IoSize \in Nat /\ Bech32Len \in Nat /\ EthAddrLen \in Nat
    BY SizesAssumption DEF PK_LEN
  <1>4. ~IsEvm => DOMAIN front = 0 .. IoSize - 1 /\ OfParts(front)
    <2> HIDE DEF key
    <2>1. 0 \in Nat /\ 0 + PK_LEN <= IoSize
      BY <1>3
    <2>2. QED
      BY <1>1, <1>2, <2>1, PutsParts
  <1>5. CASE EncodeAddress
    <2> DEFINE text == Address("bech32", key, Bech32Len)
    <2>1. ~IsEvm /\ AnswerAddress(Put(front, PK_LEN, text), PK_LEN + Bech32Len)
      BY <1>5 DEF EncodeAddress
    <2>2. IsRow(text, Bech32Len) /\ OfParts(text)
      BY <1>3, BytesParts DEF Address, Parts
    <2>3. PK_LEN \in Nat /\ PK_LEN + Bech32Len <= IoSize /\ PK_LEN + Bech32Len \in 0 .. IoSize - 2
      BY <1>3, SizesAssumption
    <2> HIDE DEF front, text
    <2>4. DOMAIN Put(front, PK_LEN, text) = 0 .. IoSize - 1 /\ OfParts(Put(front, PK_LEN, text))
      BY <1>4, <2>1, <2>2, <2>3, PutsParts
    <2>5. QED
      BY <1>1, <2>1, <2>3, <2>4, AnswerType
  <1>6. CASE EncoderFails
    <2>1. ~IsEvm
      BY <1>6 DEF EncoderFails
    <2>2. PICK outLen \in EncoderErrors :
              IF outLen = 0
              THEN /\ io' = Zeroed /\ replyLen' = 0 /\ pc' = "idle"
                   /\ answer'.status = "EXECUTION_ERROR"
                   /\ UNCHANGED << command, paths, expert, secrets >>
              ELSE AnswerAddress(front, PK_LEN + outLen)
      BY <1>6 DEF EncoderFails, Send
    <2>3. PK_LEN + outLen \in 0 .. IoSize - 2 /\ 0 \in 0 .. IoSize - 2
      BY <1>3, SizesAssumption
    <2> HIDE DEF front
    <2>4. CASE outLen = 0
      BY <2>2, <2>3, <2>4, ZeroedParts, WritesType DEF TypeOK
    <2>5. CASE outLen # 0
      BY <1>1, <1>4, <2>1, <2>2, <2>3, <2>5, AnswerType
    <2>6. QED
      BY <2>4, <2>5
  <1>7. CASE EncodeEthAddress
    <2> DEFINE pk   == Cut(io, 1, PK_LEN_UNCOMPRESSED)
               len  == Bytes("len", << "pk" >>, 1)
               alen == Bytes("len", << "address" >>, 1)
               hex  == Address("hex", SubSeq(pk, 2, Len(pk)), EthAddrLen)
               total == PK_LEN_UNCOMPRESSED + 1 + EthAddrLen + 1
    <2>1. AnswerAddress(Put(Put(io, 0, len), PK_LEN_UNCOMPRESSED + 1, alen \o hex), total)
      BY <1>7 DEF EncodeEthAddress
    <2>2. IsRow(len, 1) /\ OfParts(len) /\ IsRow(alen, 1) /\ OfParts(alen)
      BY BytesParts DEF Parts
    <2>3. IsRow(hex, EthAddrLen) /\ OfParts(hex)
      BY <1>3, BytesParts DEF Address, Parts
    <2> HIDE DEF len, alen, hex
    <2> DEFINE text == alen \o hex
    <2>4. IsRow(text, 1 + EthAddrLen) /\ OfParts(text)
      BY <2>2, <2>3, JoinsParts
    <2>5. /\ 0 \in Nat /\ 0 + 1 <= IoSize
          /\ PK_LEN_UNCOMPRESSED + 1 \in Nat
          /\ (PK_LEN_UNCOMPRESSED + 1) + (1 + EthAddrLen) <= IoSize
          /\ total \in 0 .. IoSize - 2
      BY SizesAssumption DEF PK_LEN_UNCOMPRESSED
    <2>6. DOMAIN Put(io, 0, len) = 0 .. IoSize - 1 /\ OfParts(Put(io, 0, len))
      BY <1>1, <2>2, <2>5, PutsParts
    <2> HIDE DEF text, total
    <2> DEFINE reply == Put(Put(io, 0, len), PK_LEN_UNCOMPRESSED + 1, text)
    <2>7. DOMAIN reply = 0 .. IoSize - 1 /\ OfParts(reply)
      BY <2>4, <2>5, <2>6, PutsParts
    <2>8. AnswerAddress(reply, total)
      BY <2>1 DEF text
    <2> HIDE DEF reply
    <2>9. QED
      BY <1>1, <2>5, <2>7, <2>8, AnswerType
  <1>8. CASE EthEncoderFails
    BY <1>8, OtherStepsType DEF EthEncoderFails, Send, TypeOK
  <1>9. QED
    BY <1>5, <1>6, <1>7, <1>8

LEMMA ReplyType ==
    ASSUME TypeOK, ReplySignature \/ ReplyEthSignature
    PROVE  TypeOK'
  <1>1. CASE ReplySignature
    BY <1>1, OtherStepsType DEF ReplySignature, Send, TypeOK
  <1>2. CASE ReplyEthSignature
    <2> DEFINE v     == Signature("eth v", 1)
               rs    == Cut(io, 0, 2 * ScalarLen)
               moved == Put(io, 1, rs)
    <2>1. /\ pc' = "idle" /\ answer'.status = "OK" /\ io' = Put(moved, 0, v)
          /\ UNCHANGED << command, paths, expert, secrets, replyLen >>
      BY <1>2 DEF ReplyEthSignature, Send, VInFront
    <2>2. DOMAIN io = 0 .. IoSize - 1 /\ OfParts(io)
      BY DEF TypeOK, OfParts
    <2>3. /\ 0 \in Nat /\ 1 \in Nat /\ 2 * ScalarLen \in Nat /\ 1 + 2 * ScalarLen <= IoSize
          /\ 0 + 1 <= IoSize /\ IoSize \in Nat
      BY SizesAssumption DEF PK_LEN_UNCOMPRESSED
    <2>4. IsRow(v, 1) /\ OfParts(v)
      BY <2>3, BytesParts DEF Signature, Parts
    <2>5. IsRow(rs, 2 * ScalarLen) /\ \A k \in 1 .. 2 * ScalarLen : rs[k] = io[0 + k - 1]
      BY <2>3, CutIsRow
    <2>6. OfParts(rs)
      <3>1. DOMAIN rs = 1 .. 2 * ScalarLen
        BY DEF Cut
      <3>2. \A k \in 1 .. 2 * ScalarLen : 0 + k - 1 \in 0 .. IoSize - 1
        BY <2>3
      <3> HIDE DEF rs
      <3>3. QED
        BY <2>2, <2>5, <3>1, <3>2 DEF OfParts
    <2> HIDE DEF v, rs
    <2>7. DOMAIN moved = 0 .. IoSize - 1 /\ OfParts(moved)
      BY <2>2, <2>3, <2>5, <2>6, PutsParts
    <2> HIDE DEF moved
    <2>8. DOMAIN io' = 0 .. IoSize - 1 /\ OfParts(io')
      BY <2>1, <2>3, <2>4, <2>7, PutsParts
    <2>9. QED
      BY <2>1, <2>8, WritesType DEF TypeOK
  <1>3. QED
    BY <1>1, <1>2

\* The lengths stay those of a path, the answer stays inside the buffer with
\* its status, and the buffer keeps its size, for every size of a coordinate,
\* of an address and of a signature that the code's length checks let through.
THEOREM KeysTypeCorrect == Spec => []TypeOK
  <1>1. KeysInv /\ TypeOK /\ [Next]_vars => (KeysInv /\ TypeOK)'
    <2> SUFFICES ASSUME KeysInv, TypeOK, [Next]_vars PROVE TypeOK'
      BY KeysStep
    <2>1. ASSUME NEW c \in Commands, Serve(c) PROVE TypeOK'
      BY <2>1, ServeType
    <2>2. CASE ToggleExpert \/ UNCHANGED vars
      BY <2>2, OtherStepsType DEF ToggleExpert, vars, TypeOK
    <2>3. CASE User
      BY <2>3, UserType
    <2>4. CASE Step
      BY <2>4, RoutineType, FailType, EncodeType, ReplyType DEF Step
    <2>5. QED
      BY <2>1, <2>2, <2>3, <2>4 DEF Next
  <1>2. QED
    BY <1>1, KeysInit, KeysInitType, PTL DEF Spec
=============================================================================
