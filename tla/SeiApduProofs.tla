--------------------------- MODULE SeiApduProofs ---------------------------
(***************************************************************************)
(* Theorems about the command layer, for every set of paths and commands,  *)
(* every buffer size and every width: type correctness, then the safety of *)
(* an upload from its first chunk to the signature, then the signing       *)
(* session it implements.                                                  *)
(***************************************************************************)
EXTENDS SessionRefinement, TxFramingProofs

-----------------------------------------------------------------------------
(* Typing of the inputs and of the answers.                                *)

\* What a command brings: the bytes behind its path are fewer than U32.
LEMMA CommandType ==
    ASSUME NEW c \in Commands
    PROVE  /\ c.ins \in Instructions
           /\ c.p1 \in Byte
           /\ c.rx \in 0 .. U32 - 1
           /\ c.path \in Paths
           /\ c.body \in Seq(Byte)
           /\ Len(c.body) \in 0 .. U32 - 1
  <1>1. c \in Command
    BY CommandAssumption
  <1>2. /\ c.ins \in Instructions /\ c.p1 \in Byte /\ c.rx \in 0 .. U32 - 1
        /\ c.path \in Paths /\ c.body \in Seq(Byte)
    BY <1>1 DEF Command
  <1>3. Len(c.body) \in 0 .. U32 - 1
    <2> DEFINE path  == IF CarriesPath(c) THEN PathBytes(c) ELSE 0
               front == OFFSET_DATA + path
    <2>1. Len(c.body) = IF c.rx >= front THEN c.rx - front ELSE 0
      BY CommandAssumption
    <2>2. PathLen[c.path] \in Nat
      BY <1>2, PathAssumption, ByteRange
    <2>3. front \in Nat
      BY <2>2 DEF PathBytes, OFFSET_DATA, HDPATH_LEN_DEFAULT
    <2> HIDE DEF front
    <2>4. QED
      BY <1>2, <2>1, <2>3, WidthAssumption
  <1>4. QED
    BY <1>2, <1>3

\* The part of TypeOK that answers and reviews change.
ReplyType ==
    /\ answer \in Answers
    /\ async \in BOOLEAN
    /\ screen \in Callbacks \cup {"none"}

\* A status, an address and a signature are answers.
LEMMA AnswerTypes ==
    /\ \A s \in Statuses : Status(s) \in Answers
    /\ \A p, q \in Paths \cup {NoPath} : Address(p, q) \in Answers
    /\ \A p \in Paths \cup {NoPath}, d \in Seq(Byte) : Signature(p, d) \in Answers
  <1>1. << >> \in Seq(Byte)
    OBVIOUS
  <1>2. \A s \in Statuses : Status(s) \in Answers
    BY <1>1 DEF Status, Answers
  <1>3. \A p, q \in Paths \cup {NoPath} : Address(p, q) \in Answers
    BY <1>1 DEF Address, Answers, Statuses
  <1>4. \A p \in Paths \cup {NoPath}, d \in Seq(Byte) : Signature(p, d) \in Answers
    BY DEF Signature, Answers, Statuses
  <1>5. QED
    BY <1>2, <1>3, <1>4

\* Throwing a status and showing a review keep the typing (THROW, view_review_show).
LEMMA ThrowType ==
    ASSUME ReplyType, NEW s \in Statuses, Throw(s)
    PROVE  ReplyType'
  BY AnswerTypes DEF ReplyType, Throw

LEMMA ReviewType ==
    ASSUME ReplyType, NEW callback \in Callbacks, Review(callback)
    PROVE  ReplyType'
  BY DEF ReplyType, Review

\* The path checks answer with a status.
LEMMA PathStatuses ==
    ASSUME NEW c, NEW p
    PROVE  /\ HDPathStatus(c) \in Statuses
           /\ EthPathStatus(c, p) \in Statuses
           /\ FirstPathStatus(c, p) \in Statuses
  BY DEF HDPathStatus, EthPathStatus, FirstPathStatus, Statuses

\* The path an EVM command reads is a path, and its length fits when it is set.
LEMMA EthPathType ==
    ASSUME TypeOK, NEW c \in Commands, NEW p \in PathsRead(c), extract_eth_path(c, p)
    PROVE  /\ p \in Paths
           /\ hdPathEth' \in Paths \cup {NoPath}
           /\ hdPathEthLen' \in 0 .. U32 - 1
           /\ EthPathStatus(c, p) = "OK" =>
                 /\ hdPathEth' = p /\ p \in Mainnet
                 /\ hdPathEthLen' = PathLen[p] /\ PathLen[p] \in 3 .. HDPATH_LEN_DEFAULT
  <1>1. p \in Paths
    BY CommandType DEF PathsRead
  <1>2. U32 \in Nat /\ U32 > 25
    BY WidthAssumption
  <1>3. QED
    BY <1>1, <1>2 DEF TypeOK, extract_eth_path, EthPathStatus, HDPATH_LEN_DEFAULT

\* What a chain code leaves in the path variables is typed (sei_chain_code).
LEMMA DerivedPathType ==
    ASSUME NEW c, NEW p \in Paths, EthPathStatus(c, p) = "OK", DeriveEthAddress(p)
    PROVE  hdPathEth' \in Paths \cup {NoPath} /\ hdPathEthLen' \in 0 .. U32 - 1
  <1>1. U32 \in Nat /\ U32 > 25
    BY WidthAssumption
  <1>2. PathLen[p] \in 3 .. HDPATH_LEN_DEFAULT
    BY DEF EthPathStatus
  <1>3. QED
    BY <1>1, <1>2 DEF DeriveEthAddress, HDPATH_LEN_DEFAULT

\* The history of an upload keeps its type.
LEMMA BeginType ==
    ASSUME NEW c, c.ins \in {"SIGN"} \cup Evm, NEW sent \in Seq(Byte),
           NEW flaws \in SUBSET Flaws, Begin(c, sent, flaws)
    PROVE  upload' \in Uploads
  BY DEF Begin, Uploads

\* The flaws of an upload after one more chunk.
AllFlaws(c, flaws) ==
    upload.flaws \cup flaws \cup (IF c.ins = upload.by THEN {} ELSE {"foreign"})

\* What Continue records: the flaws add up, and an unflawed upload grows by
\* exactly the chunk.
LEMMA ContinueFacts ==
    ASSUME TypeOK, NEW c \in Commands, NEW flaws \in SUBSET Flaws,
           Continue(c, flaws)
    PROVE  /\ upload' \in Uploads
           /\ upload'.by = upload.by
           /\ upload'.flaws = AllFlaws(c, flaws)
           /\ upload'.flaws = {} => upload'.sent = upload.sent \o c.body
  <1> DEFINE all  == AllFlaws(c, flaws)
             sent == IF all \cap {"foreign", "refused"} # {} THEN << >>
                     ELSE IF "excess" \in upload.flaws THEN upload.sent
                     ELSE upload.sent \o c.body
  <1>1. upload \in Uploads
    BY DEF TypeOK
  <1>2. upload.sent \in Seq(Byte) /\ upload.flaws \in SUBSET Flaws
        /\ upload.by \in {"none", "SIGN"} \cup Evm
    BY <1>1 DEF Uploads
  <1>3. all \in SUBSET Flaws
    BY <1>2 DEF AllFlaws, Flaws
  <1>4. sent \in Seq(Byte)
    <2>1. c.body \in Seq(Byte)
      BY CommandType
    <2>2. upload.sent \o c.body \in Seq(Byte)
      BY <1>2, <2>1
    <2>3. << >> \in Seq(Byte)
      OBVIOUS
    <2> HIDE DEF all
    <2>4. QED
      BY <1>2, <2>2, <2>3
  <1>5. upload' = [upload EXCEPT !.flaws = all, !.sent = sent]
    BY DEF Continue, AllFlaws
  <1>6. all = {} => sent = upload.sent \o c.body
    BY DEF AllFlaws
  <1>7. all = AllFlaws(c, flaws)
    OBVIOUS
  <1> HIDE DEF all, sent
  <1>8. upload' = [by |-> upload.by, sent |-> sent, flaws |-> all]
    BY <1>1, <1>5 DEF Uploads
  <1>9. QED
    BY <1>2, <1>3, <1>4, <1>6, <1>7, <1>8 DEF Uploads

-----------------------------------------------------------------------------
(* Type correctness.                                                       *)

\* asked records paths of commands only.
LEMMA AskedType ==
    ASSUME TypeOK, NEW p \in Paths \cup {NoPath}
    PROVE  /\ [asked EXCEPT !.cosmos = p] \in
                  [cosmos : Paths \cup {NoPath}, evm : Paths \cup {NoPath}]
           /\ [asked EXCEPT !.evm = p] \in
                  [cosmos : Paths \cup {NoPath}, evm : Paths \cup {NoPath}]
  BY DEF TypeOK

\* A prefix of a byte string is a byte string (the bytes tx_append copies).
LEMMA TakeType ==
    ASSUME NEW bytes \in Seq(Byte), NEW n \in Nat, n <= Len(bytes)
    PROVE  /\ Take(bytes, n) \in Seq(Byte)
           /\ Len(Take(bytes, n)) = n
           /\ n = Len(bytes) => Take(bytes, n) = bytes
  BY DEF Take

\* Appending what fits keeps the buffer within its capacity (tx_append).
LEMMA AppendType ==
    ASSUME TypeOK, NEW bytes \in Seq(Byte), Fits(buffer, bytes)
    PROVE  buffer \o bytes \in Seq(Byte) /\ Len(buffer \o bytes) <= Capacity
  BY DEF TypeOK, Fits

\* Both parsers end in a review or in an error status.
LEMMA ParseType ==
    ASSUME ReplyType, NEW bytes, ParseEth(bytes) \/ ParseEip191(bytes)
    PROVE  ReplyType'
  BY ThrowType, ReviewType DEF ParseEth, ParseEip191, Callbacks, Statuses

\* The commands of the Cosmos handler keep the typing.
LEMMA CosmosType ==
    ASSUME TypeOK, NEW c \in Commands, GetAddr(c) \/ handleSign(c)
    PROVE  TypeOK'
  <1> USE DEF cosmosVars, evmVars
  <1>1. ReplyType
    BY DEF TypeOK, ReplyType
  <1>2. c.body \in Seq(Byte) /\ c.path \in Paths
    BY CommandType
  <1>3. ExtractHDPath(c) => hdPath' \in Paths \cup {NoPath}
    BY <1>2 DEF ExtractHDPath, TypeOK
  <1>4. CASE GetAddr(c)
    <2>1. ReplyType'
      <3>1. CASE \E s \in Statuses : Throw(s)
        BY <1>1, <3>1, ThrowType
      <3>2. CASE ReplyAddress(c, hdPath', c.path)
        <4>1. hdPath' \in Paths \cup {NoPath}
          BY <1>3, <1>4 DEF GetAddr
        <4>2. Address(hdPath', c.path) \in Answers
          BY <1>2, <4>1, AnswerTypes
        <4>3. QED
          BY <1>1, <3>2, <4>2 DEF ReplyType, ReplyAddress, Callbacks
      <3>3. QED
        BY <1>4, <3>1, <3>2, PathStatuses DEF GetAddr, Statuses
    <2>2. QED
      BY <1>3, <1>4, <2>1, AskedType DEF GetAddr, ReplyType, TypeOK
  <1>5. CASE SignInit(c)
    <2>1. ReplyType'
      BY <1>1, <1>5, ThrowType, PathStatuses DEF SignInit
    <2>2. upload' \in Uploads
      <3>1. << >> \in Seq(Byte)
        OBVIOUS
      <3>2. QED
        BY <1>5, <3>1 DEF SignInit, Begin, Uploads
    <2>3. asked' \in [cosmos : Paths \cup {NoPath}, evm : Paths \cup {NoPath}]
      BY <1>2, <1>5, AskedType DEF SignInit
    <2>4. buffer' \in Seq(Byte) /\ Len(buffer') <= Capacity
      BY <1>5, BufferAssumption DEF SignInit
    <2>5. QED
      BY <1>3, <1>5, <2>1, <2>2, <2>3, <2>4 DEF SignInit, ReplyType, TypeOK
  <1>6. CASE SignNotInitialized(c) \/ SignBadP1(c)
    <2>1. ReplyType'
      BY <1>1, <1>6, ThrowType DEF SignNotInitialized, SignBadP1, Statuses
    <2>2. QED
      BY <1>6, <2>1 DEF SignNotInitialized, SignBadP1, ReplyType, TypeOK
  <1>7. CASE SignAdd(c) \/ SignLast(c)
    <2>1. ReplyType'
      BY <1>1, <1>7, ThrowType, ReviewType
      DEF SignAdd, SignLast, Statuses, Callbacks
    <2>2. upload' \in Uploads
      BY <1>7, ContinueFacts DEF SignAdd, SignLast, Flaws
    <2>3. buffer' \in Seq(Byte) /\ Len(buffer') <= Capacity
      BY <1>2, <1>7, AppendType DEF SignAdd, SignLast, TypeOK
    <2>4. QED
      BY <1>7, <2>1, <2>2, <2>3 DEF SignAdd, SignLast, ReplyType, TypeOK
  <1>8. QED
    BY <1>4, <1>5, <1>6, <1>7 DEF handleSign

\* What a command carries before its chunk keeps the typing: the address
\* command and the refusals of the EVM handlers.
LEMMA EvmCommandType ==
    ASSUME TypeOK, NEW c \in Commands,
           GetAddrEth(c) \/ EvmBadParameters(c) \/ EvmNotInitialized(c)
    PROVE  TypeOK'
  <1> USE DEF cosmosVars, evmVars
  <1>1. ReplyType
    BY DEF TypeOK, ReplyType
  <1>2. CASE GetAddrEth(c)
    <2>1. PICK p \in PathsRead(c) : GetAddrEth(c)!3!(p)
      BY <1>2 DEF GetAddrEth
    <2>2. p \in Paths
      BY CommandType DEF PathsRead
    <2>3. /\ hdPathEth' \in Paths \cup {NoPath}
          /\ hdPathEthLen' \in 0 .. U32 - 1
      <3>1. CASE extract_eth_path(c, p)
        BY <3>1, EthPathType
      <3>2. CASE EthPathStatus(c, p) = "OK" /\ DeriveEthAddress(p)
        BY <2>2, <3>2, DerivedPathType
      <3>3. QED
        BY <2>1, <3>1, <3>2
    <2>4. ReplyType'
      <3>1. CASE \E s \in Statuses : Throw(s)
        BY <1>1, <3>1, ThrowType
      <3>2. ASSUME NEW q \in Paths \cup {NoPath}, ReplyAddress(c, p, q)
            PROVE  ReplyType'
        <4>1. Address(p, q) \in Answers
          BY <2>2, AnswerTypes
        <4>2. QED
          BY <1>1, <3>2, <4>1 DEF ReplyType, ReplyAddress, Callbacks
      <3>3. c.path \in Paths
        BY CommandType
      <3>4. (IF c.rx = OFFSET_DATA THEN NoPath ELSE c.path) \in Paths \cup {NoPath}
        BY <3>3
      <3>5. QED
        BY <2>1, <3>1, <3>2, <3>4, PathStatuses DEF Statuses
    <2>5. asked' \in [cosmos : Paths \cup {NoPath}, evm : Paths \cup {NoPath}]
      BY <1>2, AskedType DEF GetAddrEth
    <2>6. QED
      BY <1>2, <2>3, <2>4, <2>5 DEF GetAddrEth, ReplyType, TypeOK
  <1>3. CASE EvmBadParameters(c) \/ EvmNotInitialized(c)
    <2>1. ReplyType'
      BY <1>1, <1>3, ThrowType DEF EvmBadParameters, EvmNotInitialized, Statuses
    <2>2. QED
      BY <1>3, <2>1 DEF EvmBadParameters, EvmNotInitialized, ReplyType, TypeOK
  <1>4. QED
    BY <1>2, <1>3

\* The first chunk of an Ethereum upload keeps the typing.
LEMMA SignEthFirstType ==
    ASSUME TypeOK, NEW c \in Commands, SignEthFirst(c)
    PROVE  TypeOK'
  <1> USE DEF cosmosVars
  <1>1. ReplyType
    BY DEF TypeOK, ReplyType
  <1>2. c.body \in Seq(Byte) /\ Len(c.body) \in Nat /\ c.path \in Paths
    BY CommandType
  <1>3. PICK p \in PathsRead(c), residue \in Residues : SignEthFirst(c)!2!(p, residue)
    BY DEF SignEthFirst
  <1> DEFINE rlp    == get_tx_rlp_len(c.body, residue)
             total  == saturating_add(rlp.read, rlp.to_read)
             maxLen == MinOf(total, Len(c.body))
             status == FirstStatus(c, p, rlp, maxLen)
             flaws  == (IF HeaderWhole(c.body) THEN {} ELSE {"cut"})
                       \cup (IF total < Len(c.body) THEN {"excess"} ELSE {})
  <1>4. /\ extract_eth_path(c, p)
        /\ evmInit' = (status = "OK")
        /\ buffer' = IF status = "OK" THEN Take(c.body, maxLen) ELSE << >>
        /\ IF status = "OK" /\ total = Len(c.body)
           THEN ParseEth(buffer')
           ELSE Throw(status)
        /\ Begin(c, c.body, flaws)
    BY <1>3
  <1>5. /\ hdPathEth' \in Paths \cup {NoPath}
        /\ hdPathEthLen' \in 0 .. U32 - 1
    BY <1>4, EthPathType
  <1>6. rlp.read \in 0 .. 10 /\ rlp.to_read \in Nat
    BY <1>2, BufferAssumption, RlpLenType
  <1>7. total \in Nat
    BY <1>6, WidthAssumption DEF saturating_add
  <1>8. maxLen \in Nat /\ maxLen <= Len(c.body)
    BY <1>2, <1>7 DEF MinOf
  <1>9. status \in Statuses /\ (status = "OK" => maxLen <= Capacity)
    BY <1>8, PathStatuses, BufferAssumption DEF FirstStatus, Statuses
  <1>10. flaws \in SUBSET Flaws
    BY DEF Flaws
  <1> HIDE DEF rlp, total, maxLen, status, flaws
  <1>11. buffer' \in Seq(Byte) /\ Len(buffer') <= Capacity
    BY <1>2, <1>4, <1>8, <1>9, TakeType, BufferAssumption
  <1>12. ReplyType'
    BY <1>1, <1>4, <1>9, ThrowType, ParseType
  <1>13. upload' \in Uploads
    BY <1>2, <1>4, <1>10, BeginType DEF SignEthFirst, Evm
  <1>14. asked' \in [cosmos : Paths \cup {NoPath}, evm : Paths \cup {NoPath}]
    BY <1>2, AskedType DEF SignEthFirst
  <1>15. QED
    BY <1>4, <1>5, <1>11, <1>12, <1>13, <1>14 DEF SignEthFirst, ReplyType, TypeOK

\* A further chunk of an Ethereum upload keeps the typing.
LEMMA SignEthMoreType ==
    ASSUME TypeOK, NEW c \in Commands, SignEthMore(c)
    PROVE  TypeOK'
  <1> USE DEF cosmosVars
  <1>1. ReplyType
    BY DEF TypeOK, ReplyType
  <1>2. c.body \in Seq(Byte) /\ Len(c.body) \in Nat
    BY CommandType
  <1>3. PICK residue \in Residues : SignEthMore(c)!3!(residue)
    BY DEF SignEthMore
  <1> DEFINE rlp     == get_tx_rlp_len(buffer, residue)
             missing == Missing(rlp)
             taken   == Take(c.body, MinOf(missing, Len(c.body)))
             excess  == IF missing < Len(c.body) THEN {"excess"} ELSE {}
  <1>4. \/ /\ ~rlp.ok
           /\ Throw("DATA_INVALID")
           /\ UNCHANGED << buffer, evmInit, upload >>
        \/ /\ rlp.ok /\ ~Fits(buffer, taken)
           /\ evmInit' = FALSE
           /\ Throw("OUTPUT_BUFFER_TOO_SMALL")
           /\ Continue(c, {"refused"})
           /\ UNCHANGED buffer
        \/ /\ rlp.ok /\ Fits(buffer, taken)
           /\ buffer' = buffer \o taken
           /\ Continue(c, excess)
           /\ evmInit' = (missing # Len(c.body))
           /\ IF missing = Len(c.body) THEN ParseEth(buffer') ELSE Throw("OK")
    BY <1>3
  <1>5. rlp.read \in 0 .. 10 /\ rlp.to_read \in Nat
    BY BufferAssumption, RlpLenType DEF TypeOK
  <1>6. missing \in Nat
    <2>1. Len(buffer) \in 0 .. U32 - 1
      BY BufferAssumption, WidthAssumption DEF TypeOK
    <2> HIDE DEF rlp
    <2>2. QED
      BY <1>5, <2>1, Sub64Type DEF Missing
  <1>7. MinOf(missing, Len(c.body)) \in Nat /\ MinOf(missing, Len(c.body)) <= Len(c.body)
    <2> HIDE DEF missing
    <2>1. QED
      BY <1>2, <1>6 DEF MinOf
  <1>8. taken \in Seq(Byte)
    BY <1>2, <1>7, TakeType
  <1>9. excess \in SUBSET Flaws /\ {"refused"} \in SUBSET Flaws
    BY DEF Flaws
  <1> HIDE DEF rlp, missing, taken, excess
  <1>10. buffer' \in Seq(Byte) /\ Len(buffer') <= Capacity
    BY <1>4, <1>8, AppendType DEF TypeOK
  <1>11. ReplyType'
    BY <1>1, <1>4, ThrowType, ParseType DEF Statuses
  <1>12. upload' \in Uploads
    BY <1>4, <1>9, ContinueFacts DEF TypeOK
  <1>13. evmInit' \in BOOLEAN
    BY <1>4 DEF TypeOK
  <1>14. QED
    BY <1>10, <1>11, <1>12, <1>13 DEF SignEthMore, ReplyType, TypeOK

\* The chunks of a personal message keep the typing: bytes_to_read stays a
\* uint32_t although both subtractions may wrap.
LEMMA SignEip191Type ==
    ASSUME TypeOK, NEW c \in Commands, handleSignEip191(c)
    PROVE  TypeOK'
  <1> USE DEF cosmosVars
  <1>1. ReplyType
    BY DEF TypeOK, ReplyType
  <1>2. /\ c.body \in Seq(Byte) /\ Len(c.body) \in 0 .. U32 - 1
        /\ c.path \in Paths
    BY CommandType
  <1>3. CASE SignEip191First(c)
    <2>1. PICK p \in PathsRead(c), residue \in Residues :
             SignEip191First(c)!2!(p, residue)
      BY <1>3 DEF SignEip191First
    <2> DEFINE declared == U4BE(c.body \o residue)
               toRead   == Outstanding(declared, Len(c.body))
               accepted == FirstPathStatus(c, p) = "OK" /\ Fits(<< >>, c.body)
    <2>2. /\ extract_eth_path(c, p)
          /\ bytesToRead' = IF FirstPathStatus(c, p) = "OK" THEN toRead
                                                            ELSE bytesToRead
          /\ buffer' = IF accepted THEN c.body ELSE << >>
          /\ evmInit' = (accepted /\ GoesOn(toRead))
          /\ \/ /\ FirstPathStatus(c, p) # "OK"
                /\ Throw(FirstPathStatus(c, p))
             \/ /\ FirstPathStatus(c, p) = "OK" /\ ~accepted
                /\ Throw("OUTPUT_BUFFER_TOO_SMALL")
             \/ /\ accepted /\ toRead # 0
                /\ Throw("OK")
             \/ /\ accepted /\ toRead = 0
                /\ ParseEip191(buffer')
      BY <2>1
    <2>3. toRead \in 0 .. U32 - 1
      <3>1. c.body \o residue \in Seq(Byte) /\ Len(c.body \o residue) >= 4
        BY <1>2, BufferAssumption
      <3>2. declared % U32 \in 0 .. U32 - 1
        BY <3>1, DeclaredType
      <3>3. Sub32(Len(c.body), 4) \in 0 .. U32 - 1
        <4>1. 4 \in 0 .. U32 - 1
          BY WidthAssumption
        <4>2. QED
          BY <1>2, <4>1, Sub32Type
      <3> HIDE DEF declared
      <3>4. QED
        BY <3>2, <3>3, Sub32Type DEF Outstanding
    <2>4. accepted => Len(c.body) <= Capacity
      BY <1>2 DEF Fits
    <2>5. evmInit' \in BOOLEAN
      BY <2>2
    <2> HIDE DEF declared, toRead, accepted
    <2>6. /\ hdPathEth' \in Paths \cup {NoPath}
          /\ hdPathEthLen' \in 0 .. U32 - 1
      BY <2>2, EthPathType
    <2>7. bytesToRead' \in 0 .. U32 - 1
      BY <2>2, <2>3 DEF TypeOK
    <2>8. buffer' \in Seq(Byte) /\ Len(buffer') <= Capacity
      BY <1>2, <2>2, <2>4, BufferAssumption
    <2>9. ReplyType'
      BY <1>1, <2>2, ThrowType, ParseType, PathStatuses DEF Statuses
    <2>10. upload' \in Uploads
      BY <1>2, <1>3, BeginType DEF SignEip191First, Evm, Flaws
    <2>11. asked' \in [cosmos : Paths \cup {NoPath}, evm : Paths \cup {NoPath}]
      BY <1>2, <1>3, AskedType DEF SignEip191First
    <2>12. QED
      BY <1>3, <2>5, <2>6, <2>7, <2>8, <2>9, <2>10, <2>11
      DEF SignEip191First, ReplyType, TypeOK
  <1>4. CASE SignEip191More(c)
    <2>1. bytesToRead' \in 0 .. U32 - 1
      BY <1>2, <1>4, Sub32Type DEF SignEip191More, Left, TypeOK
    <2>2. buffer' \in Seq(Byte) /\ Len(buffer') <= Capacity
      BY <1>2, <1>4, AppendType DEF SignEip191More, TypeOK
    <2>3. ReplyType'
      BY <1>1, <1>4, ThrowType, ParseType DEF SignEip191More, Statuses
    <2>4. upload' \in Uploads
      BY <1>4, ContinueFacts DEF SignEip191More, Flaws
    <2>5. evmInit' \in BOOLEAN
      BY <1>4 DEF SignEip191More, GoesOn, TypeOK
    <2>6. QED
      BY <1>4, <2>1, <2>2, <2>3, <2>4, <2>5 DEF SignEip191More, ReplyType, TypeOK
  <1>5. QED
    BY <1>3, <1>4 DEF handleSignEip191

\* The answers of the user keep the typing.
LEMMA UserType ==
    ASSUME TypeOK, User
    PROVE  TypeOK'
  <1> USE DEF cosmosVars, evmVars
  <1>1. answer' \in Answers
    BY AnswerTypes DEF User, app_sign, app_sign_evm, app_reply_address,
                       app_reject, app_reply_error, TypeOK, Statuses
  <1>2. Close
    BY DEF User, app_sign, app_sign_evm, app_reply_address, app_reject,
           app_reply_error
  <1>3. QED
    BY <1>1, <1>2 DEF Close, TypeOK

\* The initial values are of their types.
LEMMA InitType == Init => TypeOK
  <1>1. << >> \in Seq(Byte)
    OBVIOUS
  <1>2. Status("OK") \in Answers
    BY AnswerTypes DEF Statuses
  <1>3. [by |-> "none", sent |-> << >>, flaws |-> {}] \in Uploads
    BY <1>1 DEF Uploads
  <1>4. 0 \in 0 .. U32 - 1 /\ Len(<< >>) <= Capacity
    BY WidthAssumption, BufferAssumption
  <1>5. SUFFICES ASSUME Init PROVE TypeOK
    OBVIOUS
  <1>6. buffer \in Seq(Byte) /\ Len(buffer) <= Capacity
    BY <1>1, <1>4, <1>5, Zenon DEF Init
  <1>7. asked \in [cosmos : Paths \cup {NoPath}, evm : Paths \cup {NoPath}]
    BY <1>5 DEF Init
  <1>8. hdPathEthLen \in 0 .. U32 - 1
    BY <1>5, WidthAssumption DEF Init
  <1>9. QED
    BY <1>2, <1>3, <1>4, <1>5, <1>6, <1>7, <1>8 DEF Init, TypeOK

\* Every step keeps the types.
LEMMA NextType == TypeOK /\ [Next]_vars => TypeOK'
  <1> SUFFICES ASSUME TypeOK, [Next]_vars PROVE TypeOK'
    OBVIOUS
  <1> USE DEF cosmosVars, evmVars
  <1>1. ASSUME NEW c \in Commands, handleApdu(c) PROVE TypeOK'
    <2>1. CASE RejectCommand(c) \/ GetVersion(c)
      <3>1. ReplyType
        BY DEF TypeOK, ReplyType
      <3>2. ReplyType'
        BY <2>1, <3>1, ThrowType DEF RejectCommand, GetVersion, Statuses
      <3>3. QED
        BY <2>1, <3>2 DEF RejectCommand, GetVersion, ReplyType, TypeOK
    <2>2. CASE GetAddr(c) \/ handleSign(c)
      BY <2>2, CosmosType
    <2>3. CASE GetAddrEth(c) \/ EvmBadParameters(c) \/ EvmNotInitialized(c)
      BY <2>3, EvmCommandType
    <2>4. CASE handleSignEth(c)
      BY <2>4, SignEthFirstType, SignEthMoreType DEF handleSignEth
    <2>5. CASE handleSignEip191(c)
      BY <2>5, SignEip191Type
    <2>6. QED
      BY <1>1, <2>1, <2>2, <2>3, <2>4, <2>5 DEF handleApdu
  <1>2. CASE User
    BY <1>2, UserType
  <1>3. CASE UNCHANGED vars
    BY <1>3 DEF vars, TypeOK
  <1>4. QED
    BY <1>1, <1>2, <1>3 DEF Next

\* Every variable of the command layer keeps its type; among them the buffer
\* never outgrows its capacity, and bytes_to_read stays a uint32_t through the
\* wrapping subtractions of process_chunk_eip191.
THEOREM TypeCorrect == Spec => []TypeOK
  BY InitType, NextType, PTL DEF Spec

-----------------------------------------------------------------------------
(***************************************************************************)
(* SafetyInv is an inductive invariant of the command layer, and with it   *)
(* the properties of an upload from its first chunk to the signature hold  *)
(* for every set of commands, every buffer size and every width.           *)
(* TransactionInv, inductive beside it, says what the buffer holds while an *)
(* Ethereum transaction is uploaded by the header that lies in it.         *)
(***************************************************************************)

\* The parts of SafetyInv an answer decides ...
ReplySafe ==
    AnswerOwedIffScreen /\ AddressUnderReview /\ AddressIsOfCommand
    /\ SignatureIsOfUpload

\* ... and those a chunk decides.
UploadSafe ==
    PathOfUpload /\ ReviewEndsUpload /\ BufferIsUpload /\ ReviewOfUpload
    /\ BytesToReadIsRest

\* A command that is answered at once leaves no screen and no old answer.
LEMMA ThrowSafe ==
    ASSUME SafetyInv, ~async, NEW s, Throw(s)
    PROVE  ReplySafe' /\ screen' = "none" /\ screen = "none"
  BY DEF SafetyInv, ReplySafe, AnswerOwedIffScreen, AddressUnderReview,
         AddressIsOfCommand, SignatureIsOfUpload, Throw, Status

\* A command that starts a review owes the answer and changes no answer.
LEMMA ReviewSafe ==
    ASSUME SafetyInv, ~async, NEW callback \in SignScreens \cup {"app_reply_error"},
           Review(callback)
    PROVE  ReplySafe' /\ screen' = callback /\ screen = "none"
  BY DEF SafetyInv, ReplySafe, AnswerOwedIffScreen, AddressUnderReview,
         AddressIsOfCommand, SignatureIsOfUpload, Review, SignScreens

\* An address that is sent or shown is the one its command asked for.
LEMMA AddressSafe ==
    ASSUME SafetyInv, ~async, NEW c, NEW p, NEW q, q # NoPath => p = q,
           ReplyAddress(c, p, q)
    PROVE  ReplySafe' /\ screen' \in {"none", "app_reply_address"}
           /\ screen = "none"
  BY DEF SafetyInv, ReplySafe, AnswerOwedIffScreen, AddressUnderReview,
         AddressIsOfCommand, SignatureIsOfUpload, ReplyAddress, Address

\* A step that changes no upload and starts no review of one keeps it safe.
LEMMA UploadStays ==
    ASSUME SafetyInv, screen = "none", screen' \notin SignScreens,
           cosmosInit' => cosmosInit /\ hdPath' = hdPath /\ asked'.cosmos = asked.cosmos,
           evmInit' => /\ evmInit /\ hdPathEth' = hdPathEth
                       /\ hdPathEthLen' = hdPathEthLen /\ asked'.evm = asked.evm,
           UNCHANGED << buffer, bytesToRead, upload >>
    PROVE  UploadSafe'
  BY DEF SafetyInv, UploadSafe, PathOfUpload, ReviewEndsUpload, BufferIsUpload,
         ReviewOfUpload, BytesToReadIsRest, CosmosHolds, EvmHolds, EvmScreens,
         SignScreens

-----------------------------------------------------------------------------
(* The Cosmos commands.                                                    *)

LEMMA GetAddrSafe ==
    ASSUME SafetyInv, ~async, NEW c \in Commands, GetAddr(c)
    PROVE  ReplySafe' /\ UploadSafe'
  <1>1. HDPathStatus(c) = "OK" => hdPath' = c.path
    BY DEF GetAddr, ExtractHDPath
  <1>2. CASE \E s \in Statuses : Throw(s)
    <2>1. ReplySafe' /\ screen' = "none" /\ screen = "none"
      BY <1>2, ThrowSafe
    <2>2. QED
      BY <2>1, UploadStays DEF GetAddr, evmVars, SignScreens, SafetyInv, TypeOK
  <1>3. CASE HDPathStatus(c) = "OK" /\ ReplyAddress(c, hdPath', c.path)
    <2>1. ReplySafe' /\ screen' \in {"none", "app_reply_address"} /\ screen = "none"
      BY <1>1, <1>3, AddressSafe
    <2>2. QED
      BY <2>1, UploadStays DEF GetAddr, evmVars, SignScreens, SafetyInv, TypeOK
  <1>4. QED
    BY <1>2, <1>3, PathStatuses DEF GetAddr, Statuses

\* INIT empties the buffer and takes the path over, or leaves no upload.
LEMMA SignInitSafe ==
    ASSUME SafetyInv, ~async, NEW c \in Commands, SignInit(c)
    PROVE  ReplySafe' /\ UploadSafe'
  <1>1. ReplySafe' /\ screen' = "none" /\ screen = "none"
    BY ThrowSafe DEF SignInit
  <1>2. upload' = [by |-> "SIGN", sent |-> << >>, flaws |-> {}]
    BY DEF SignInit, Begin
  <1>3. cosmosInit' => /\ c.path \in Mainnet /\ hdPath' = c.path
                       /\ asked'.cosmos = c.path
    BY DEF SignInit, HDPathStatus, ExtractHDPath, SafetyInv, TypeOK
  <1>4. PathOfUpload'
    BY <1>1, <1>3 DEF SignInit, evmVars, PathOfUpload, SafetyInv, TypeOK
  <1>5. QED
    BY <1>1, <1>2, <1>4
    DEF UploadSafe, ReviewEndsUpload, BufferIsUpload, ReviewOfUpload,
        BytesToReadIsRest, CosmosHolds, EvmHolds, EvmScreens, Evm, SignInit

\* A chunk of an upload keeps the buffer equal to what was sent.
LEMMA SignChunkSafe ==
    ASSUME SafetyInv, ~async, NEW c \in Commands, SignAdd(c) \/ SignLast(c)
    PROVE  ReplySafe' /\ UploadSafe'
  <1>1. c.ins = "SIGN" /\ cosmosInit
    BY DEF SignAdd, SignLast
  <1>2. /\ ReplySafe' /\ screen = "none"
        /\ screen' \in {"none", "app_sign"}
        /\ screen' = "app_sign" => ~cosmosInit' /\ Fits(buffer, c.body)
    <2>1. CASE \E s \in Statuses : Throw(s)
      BY <2>1, ThrowSafe
    <2>2. CASE Review("app_sign") /\ SignLast(c) /\ Fits(buffer, c.body)
      BY <2>2, ReviewSafe DEF SignScreens, SignLast
    <2>3. QED
      BY <2>1, <2>2 DEF SignAdd, SignLast, Statuses
  <1>3. PathOfUpload'
    <2>1. UNCHANGED << hdPath, evmVars, asked >>
      BY DEF SignAdd, SignLast
    <2>2. QED
      BY <1>1, <1>2, <2>1 DEF SafetyInv, PathOfUpload, evmVars
  <1>4. CASE Fits(buffer, c.body)
    <2>1. Continue(c, {}) /\ buffer' = buffer \o c.body
      BY <1>4 DEF SignAdd, SignLast
    <2>2. /\ upload'.by = upload.by
          /\ upload'.flaws = AllFlaws(c, {})
          /\ upload'.flaws = {} => upload'.sent = upload.sent \o c.body
      BY <2>1, ContinueFacts DEF SafetyInv
    <2>3. upload.by = "SIGN" \/ "foreign" \in upload'.flaws
      BY <1>1, <2>2 DEF AllFlaws
    <2>4. upload.by = "SIGN" => upload'.flaws = upload.flaws
      BY <1>1, <2>2 DEF AllFlaws
    <2>5. BufferIsUpload'
      <3>1. SUFFICES ASSUME upload'.flaws = {} PROVE buffer' = upload'.sent
        BY DEF BufferIsUpload
      <3>2. upload.by = "SIGN" /\ upload.flaws = {}
        BY <2>3, <2>4, <3>1
      <3>3. buffer = upload.sent
        BY <1>1, <3>2 DEF SafetyInv, BufferIsUpload, CosmosHolds
      <3>4. QED
        BY <2>1, <2>2, <3>1, <3>3
    <2>6. QED
      BY <1>1, <1>2, <1>3, <2>2, <2>3, <2>4, <2>5
      DEF UploadSafe, ReviewEndsUpload, ReviewOfUpload, BytesToReadIsRest,
          CosmosHolds, EvmHolds, EvmScreens, SafetyInv
  <1>5. CASE ~Fits(buffer, c.body)
    <2>1. ~cosmosInit' /\ screen' = "none" /\ Continue(c, {"refused"})
      BY <1>2, <1>5 DEF SignAdd, SignLast
    <2>2. "refused" \in upload'.flaws
      BY <2>1, ContinueFacts DEF SafetyInv, AllFlaws, Flaws
    <2>3. QED
      BY <1>2, <1>3, <2>1, <2>2
      DEF UploadSafe, ReviewEndsUpload, BufferIsUpload, ReviewOfUpload,
          BytesToReadIsRest, CosmosHolds, EvmHolds, EvmScreens
  <1>6. QED
    BY <1>4, <1>5

\* The refusals change nothing but the answer.
LEMMA RefusalSafe ==
    ASSUME SafetyInv, ~async, NEW c \in Commands,
           \/ RejectCommand(c) \/ GetVersion(c)
           \/ SignNotInitialized(c) \/ SignBadP1(c)
           \/ EvmBadParameters(c) \/ EvmNotInitialized(c)
    PROVE  ReplySafe' /\ UploadSafe'
  <1>1. /\ \E s \in Statuses : Throw(s)
        /\ UNCHANGED << buffer, cosmosVars, evmVars, upload, asked >>
    BY DEF RejectCommand, GetVersion, SignNotInitialized, SignBadP1,
           EvmBadParameters, EvmNotInitialized, Statuses
  <1>2. ReplySafe' /\ screen' = "none" /\ screen = "none"
    BY <1>1, ThrowSafe
  <1>3. QED
    BY <1>1, <1>2, UploadStays DEF cosmosVars, evmVars, SignScreens

-----------------------------------------------------------------------------
(* The EVM commands.                                                       *)

LEMMA GetAddrEthSafe ==
    ASSUME SafetyInv, ~async, NEW c \in Commands, GetAddrEth(c)
    PROVE  ReplySafe' /\ UploadSafe'
  <1>1. PICK p \in PathsRead(c) : GetAddrEth(c)!3!(p)
    BY DEF GetAddrEth
  <1>2. ReplySafe' /\ screen' \in {"none", "app_reply_address"} /\ screen = "none"
    <2>1. CASE \E s \in Statuses : Throw(s)
      BY <2>1, ThrowSafe
    <2>2. CASE ReplyAddress(c, p, IF c.rx = OFFSET_DATA THEN NoPath ELSE c.path)
      <3>1. c.rx # OFFSET_DATA => p = c.path
        BY DEF PathsRead
      <3>2. QED
        BY <2>2, <3>1, AddressSafe
    <2>3. QED
      BY <1>1, <2>1, <2>2, PathStatuses DEF Statuses
  <1>3. QED
    BY <1>2, UploadStays DEF GetAddrEth, cosmosVars, SignScreens, SafetyInv, TypeOK

\* The path an accepted FIRST chunk leaves in hdPathEth is the one it carried:
\* the second look at the length refuses the command without a data field.
LEMMA FirstPathSafe ==
    ASSUME SafetyInv, NEW c \in Commands, NEW p \in PathsRead(c),
           extract_eth_path(c, p), FirstPathStatus(c, p) = "OK"
    PROVE  /\ hdPathEth' = c.path /\ c.path \in Mainnet
           /\ hdPathEthLen' = PathLen[c.path]
           /\ c.rx # OFFSET_DATA
  <1>1. EthPathStatus(c, p) = "OK"
    BY DEF FirstPathStatus
  <1>2. /\ hdPathEth' = p /\ p \in Mainnet /\ hdPathEthLen' = PathLen[p]
        /\ PathLen[p] \in 3 .. HDPATH_LEN_DEFAULT
    BY <1>1, EthPathType DEF SafetyInv
  <1>3. c.rx # OFFSET_DATA
    <2>1. SUFFICES ASSUME c.rx = OFFSET_DATA PROVE FALSE
      OBVIOUS
    <2>2. Sub32(c.rx, OFFSET_DATA) = 0
      BY <2>1 DEF Sub32, OFFSET_DATA
    <2>3. Sub32(c.rx, OFFSET_DATA) < 4 * PathLen[p]
      BY <1>2, <2>2 DEF HDPATH_LEN_DEFAULT
    <2>4. QED
      BY <1>1, <2>3 DEF FirstPathStatus
  <1>4. p = c.path
    BY <1>3 DEF PathsRead
  <1>5. QED
    BY <1>2, <1>3, <1>4

\* A FIRST chunk of a transaction stores what it carries, without the bytes
\* behind the end of the transaction.
LEMMA SignEthFirstSafe ==
    ASSUME SafetyInv, ~async, NEW c \in Commands, SignEthFirst(c)
    PROVE  ReplySafe' /\ UploadSafe'
  <1>1. PICK p \in PathsRead(c), residue \in Residues : SignEthFirst(c)!2!(p, residue)
    BY DEF SignEthFirst
  <1> DEFINE rlp    == get_tx_rlp_len(c.body, residue)
             total  == saturating_add(rlp.read, rlp.to_read)
             maxLen == MinOf(total, Len(c.body))
             status == FirstStatus(c, p, rlp, maxLen)
             flaws  == (IF HeaderWhole(c.body) THEN {} ELSE {"cut"})
                       \cup (IF total < Len(c.body) THEN {"excess"} ELSE {})
  <1>2. /\ extract_eth_path(c, p)
        /\ evmInit' = (status = "OK")
        /\ buffer' = IF status = "OK" THEN Take(c.body, maxLen) ELSE << >>
        /\ IF status = "OK" /\ total = Len(c.body)
           THEN ParseEth(buffer')
           ELSE Throw(status)
        /\ Begin(c, c.body, flaws)
    BY <1>1
  <1>3. status = "OK" => FirstPathStatus(c, p) = "OK"
    BY DEF FirstStatus
  <1>4. flaws = {} => maxLen = Len(c.body)
    <2>1. c.body \in Seq(Byte) /\ Len(c.body) \in Nat
      BY CommandType
    <2>2. rlp.read \in 0 .. 10 /\ rlp.to_read \in Nat
      BY <2>1, BufferAssumption, RlpLenType
    <2>3. total \in Nat
      BY <2>2, WidthAssumption DEF saturating_add
    <2>4. QED
      BY <2>1, <2>3 DEF MinOf
  <1> HIDE DEF rlp, total, maxLen, status, flaws
  <1>5. ReplySafe' /\ screen = "none" /\ screen' \in {"none", "app_sign_eth", "app_reply_error"}
        /\ (screen' = "app_sign_eth" => evmInit')
    BY <1>2, ThrowSafe, ReviewSafe DEF ParseEth, SignScreens
  <1>6. PathOfUpload'
    <2>1. UNCHANGED cosmosVars /\ asked' =
             [asked EXCEPT !.evm = IF c.rx = OFFSET_DATA THEN NoPath ELSE c.path]
      BY DEF SignEthFirst
    <2>2. evmInit' => /\ hdPathEth' = asked'.evm /\ hdPathEth' \in Mainnet
                      /\ hdPathEthLen' = PathLen[hdPathEth']
      BY <1>2, <1>3, <2>1, FirstPathSafe DEF SafetyInv, TypeOK
    <2>3. QED
      BY <1>5, <2>1, <2>2
      DEF PathOfUpload, cosmosVars, SafetyInv, TypeOK
  <1>7. BufferIsUpload'
    <2>1. SUFFICES ASSUME upload'.flaws = {}, evmInit'
                   PROVE  buffer' = upload'.sent
      BY <1>2, <1>5 DEF BufferIsUpload, Begin, EvmHolds, EvmScreens, SignEthFirst
    <2>2. flaws = {} /\ upload'.sent = c.body
      BY <1>2, <2>1 DEF Begin
    <2>3. buffer' = Take(c.body, Len(c.body))
      BY <1>2, <1>4, <2>1, <2>2
    <2>4. QED
      BY <2>2, <2>3, CommandType, TakeType
  <1>8. c.ins = "SIGN_ETH" /\ upload'.by = "SIGN_ETH"
    BY <1>2 DEF Begin, SignEthFirst
  <1>9. QED
    BY <1>5, <1>6, <1>7, <1>8
    DEF UploadSafe, ReviewEndsUpload, ReviewOfUpload, BytesToReadIsRest

\* A further chunk of a transaction is appended whole unless it brings too much.
LEMMA SignEthMoreSafe ==
    ASSUME SafetyInv, ~async, NEW c \in Commands, SignEthMore(c)
    PROVE  ReplySafe' /\ UploadSafe'
  <1>1. PICK residue \in Residues : SignEthMore(c)!3!(residue)
    BY DEF SignEthMore
  <1> DEFINE rlp     == get_tx_rlp_len(buffer, residue)
             missing == Missing(rlp)
             taken   == Take(c.body, MinOf(missing, Len(c.body)))
             excess  == IF missing < Len(c.body) THEN {"excess"} ELSE {}
  <1>2. \/ /\ ~rlp.ok
           /\ Throw("DATA_INVALID")
           /\ UNCHANGED << buffer, evmInit, upload >>
        \/ /\ rlp.ok /\ ~Fits(buffer, taken)
           /\ evmInit' = FALSE
           /\ Throw("OUTPUT_BUFFER_TOO_SMALL")
           /\ Continue(c, {"refused"})
           /\ UNCHANGED buffer
        \/ /\ rlp.ok /\ Fits(buffer, taken)
           /\ buffer' = buffer \o taken
           /\ Continue(c, excess)
           /\ evmInit' = (missing # Len(c.body))
           /\ IF missing = Len(c.body) THEN ParseEth(buffer') ELSE Throw("OK")
    BY <1>1
  <1>3. excess = {} => taken = c.body
    <2>1. c.body \in Seq(Byte) /\ Len(c.body) \in Nat
      BY CommandType
    <2>2. rlp.read \in 0 .. 10 /\ rlp.to_read \in Nat
      BY BufferAssumption, RlpLenType DEF SafetyInv, TypeOK
    <2>3. missing \in Nat
      <3>1. Len(buffer) \in 0 .. U32 - 1
        BY BufferAssumption, WidthAssumption DEF SafetyInv, TypeOK
      <3> HIDE DEF rlp
      <3>2. QED
        BY <2>2, <3>1, Sub64Type DEF Missing
    <2> HIDE DEF missing
    <2>4. excess = {} => MinOf(missing, Len(c.body)) = Len(c.body)
      BY <2>1, <2>3 DEF MinOf
    <2>5. QED
      BY <2>1, <2>4, TakeType
  <1>4. excess \in SUBSET Flaws /\ {"refused"} \in SUBSET Flaws
    BY DEF Flaws
  <1>5. /\ c.ins = "SIGN_ETH" /\ evmInit
        /\ UNCHANGED << bytesToRead, hdPathEth, hdPathEthLen, cosmosVars, asked >>
    BY DEF SignEthMore
  <1> HIDE DEF rlp, missing, taken, excess
  <1>6. CASE UNCHANGED << buffer, evmInit, upload >> /\ Throw("DATA_INVALID")
    BY <1>5, <1>6, ThrowSafe, UploadStays DEF cosmosVars, SignScreens
  <1>7. CASE Continue(c, {"refused"}) /\ evmInit' = FALSE
             /\ Throw("OUTPUT_BUFFER_TOO_SMALL") /\ UNCHANGED buffer
    <2>1. ReplySafe' /\ screen' = "none" /\ screen = "none"
      BY <1>7, ThrowSafe
    <2>2. /\ "refused" \in upload'.flaws
          /\ upload'.by = upload.by
          /\ upload'.flaws = AllFlaws(c, {"refused"})
      <3>1. TypeOK
        BY DEF SafetyInv
      <3>2. upload'.by = upload.by /\ upload'.flaws = AllFlaws(c, {"refused"})
        BY <1>4, <1>7, <3>1, ContinueFacts
      <3>3. QED
        BY <3>2 DEF AllFlaws
    <2>3. upload.by = "SIGN" => "foreign" \in upload'.flaws
      BY <1>5, <2>2 DEF AllFlaws
    <2>4. QED
      BY <1>5, <1>7, <2>1, <2>2, <2>3
      DEF UploadSafe, PathOfUpload, ReviewEndsUpload, BufferIsUpload, ReviewOfUpload,
          BytesToReadIsRest, CosmosHolds, EvmHolds, EvmScreens, SafetyInv, cosmosVars
  <1>8. CASE /\ buffer' = buffer \o taken /\ Continue(c, excess)
             /\ Throw("OK") \/ ParseEth(buffer')
    <2>1. ReplySafe' /\ screen = "none"
          /\ screen' \in {"none", "app_sign_eth", "app_reply_error"}
      BY <1>8, ThrowSafe, ReviewSafe DEF ParseEth, SignScreens
    <2>2. /\ upload'.by = upload.by
          /\ upload'.flaws = AllFlaws(c, excess)
          /\ upload'.flaws = {} => upload'.sent = upload.sent \o c.body
      BY <1>4, <1>8, ContinueFacts DEF SafetyInv
    <2>3. upload.by = "SIGN_ETH" \/ "foreign" \in upload'.flaws
      BY <1>5, <2>2 DEF AllFlaws
    <2>4. BufferIsUpload'
      <3>1. SUFFICES ASSUME upload'.flaws = {} PROVE buffer' = upload'.sent
        BY DEF BufferIsUpload
      <3>2. upload.by = "SIGN_ETH" /\ upload.flaws = {} /\ excess = {}
        BY <2>2, <2>3, <3>1 DEF AllFlaws
      <3>3. buffer = upload.sent
        BY <1>5, <3>2 DEF SafetyInv, BufferIsUpload, EvmHolds, Evm
      <3>4. QED
        BY <1>3, <1>8, <2>2, <3>1, <3>2, <3>3
    <2>5. PathOfUpload'
      BY <1>5, <2>1 DEF PathOfUpload, SafetyInv, cosmosVars
    <2>6. QED
      BY <2>1, <2>2, <2>3, <2>4, <2>5
      DEF UploadSafe, ReviewEndsUpload, ReviewOfUpload, BytesToReadIsRest
  <1>9. QED
    BY <1>2, <1>6, <1>7, <1>8

\* A first chunk of a message that holds the declared length counts the bytes
\* it brought off that length.
LEMMA SignEip191FirstSafe ==
    ASSUME SafetyInv, ~async, NEW c \in Commands, SignEip191First(c)
    PROVE  ReplySafe' /\ UploadSafe'
  <1>1. PICK p \in PathsRead(c), residue \in Residues :
           SignEip191First(c)!2!(p, residue)
    BY DEF SignEip191First
  <1> DEFINE declared == U4BE(c.body \o residue)
             toRead   == Outstanding(declared, Len(c.body))
             accepted == FirstPathStatus(c, p) = "OK" /\ Fits(<< >>, c.body)
  <1>2. /\ extract_eth_path(c, p)
        /\ bytesToRead' = IF FirstPathStatus(c, p) = "OK" THEN toRead
                                                          ELSE bytesToRead
        /\ buffer' = IF accepted THEN c.body ELSE << >>
        /\ evmInit' = (accepted /\ GoesOn(toRead))
        /\ \/ /\ FirstPathStatus(c, p) # "OK"
              /\ Throw(FirstPathStatus(c, p))
           \/ /\ FirstPathStatus(c, p) = "OK" /\ ~accepted
              /\ Throw("OUTPUT_BUFFER_TOO_SMALL")
           \/ /\ accepted /\ toRead # 0
              /\ Throw("OK")
           \/ /\ accepted /\ toRead = 0
              /\ ParseEip191(buffer')
    BY <1>1
  <1>3. accepted => FirstPathStatus(c, p) = "OK"
    OBVIOUS
  <1>4. c.body \in Seq(Byte) /\ Len(c.body) \in 0 .. U32 - 1
    BY CommandType
  <1>5. Len(c.body) >= 4 =>
           toRead = Sub32(U4BE(c.body) % U32, Len(c.body) - 4)
    <2>1. SUFFICES ASSUME Len(c.body) >= 4
                   PROVE  toRead = Sub32(U4BE(c.body) % U32, Len(c.body) - 4)
      OBVIOUS
    <2>2. U4BE(c.body \o residue) = U4BE(c.body)
      BY <1>4, <2>1, BufferAssumption, U4BEPrefix
    <2>3. Sub32(Len(c.body), 4) = Len(c.body) - 4
      BY <1>4, <2>1 DEF Sub32
    <2>4. QED
      BY <2>2, <2>3, Zenon DEF Outstanding
  <1> HIDE DEF declared, toRead, accepted
  <1>6. /\ ReplySafe' /\ screen = "none"
        /\ screen' \in {"none", "app_sign_eip191", "app_reply_error"}
        /\ screen' = "app_sign_eip191" => accepted /\ toRead = 0
    <2>1. CASE \E s \in Statuses : Throw(s)
      BY <2>1, ThrowSafe
    <2>2. CASE accepted /\ toRead = 0 /\ ParseEip191(buffer')
      BY <2>2, ReviewSafe DEF ParseEip191, SignScreens
    <2>3. QED
      BY <1>2, <2>1, <2>2, PathStatuses DEF Statuses
  <1>7. EvmHolds' => accepted
    BY <1>2, <1>6 DEF EvmHolds, EvmScreens
  <1>8. upload' = [by |-> "SIGN_PERSONAL_MESSAGE", sent |-> c.body,
                   flaws |-> IF Len(c.body) >= 4 THEN {} ELSE {"cut"}]
    BY DEF SignEip191First, Begin
  <1>9. PathOfUpload'
    <2>1. UNCHANGED cosmosVars /\ asked' =
             [asked EXCEPT !.evm = IF c.rx = OFFSET_DATA THEN NoPath ELSE c.path]
      BY DEF SignEip191First
    <2>2. accepted => /\ hdPathEth' = asked'.evm /\ hdPathEth' \in Mainnet
                      /\ hdPathEthLen' = PathLen[hdPathEth']
      BY <1>2, <1>3, <2>1, FirstPathSafe DEF SafetyInv, TypeOK
    <2>3. QED
      BY <1>6, <1>7, <2>1, <2>2
      DEF PathOfUpload, cosmosVars, SafetyInv, TypeOK, EvmHolds, EvmScreens
  <1>10. ReviewEndsUpload'
    BY <1>2, <1>6 DEF ReviewEndsUpload, GoesOn
  <1>11. BufferIsUpload'
    BY <1>2, <1>7, <1>8 DEF BufferIsUpload, Evm
  <1>12. BytesToReadIsRest'
    <2>1. /\ upload'.flaws = {} /\ EvmHolds' =>
                /\ Len(buffer') >= 4
                /\ bytesToRead' = Sub32(U4BE(buffer') % U32, Len(buffer') - 4)
      BY <1>2, <1>3, <1>5, <1>7, <1>8
    <2>2. screen' = "app_sign_eip191" => bytesToRead' = 0
      BY <1>2, <1>3, <1>6
    <2>3. QED
      BY <2>1, <2>2 DEF BytesToReadIsRest
  <1>13. ReviewOfUpload'
    BY <1>6, <1>8 DEF ReviewOfUpload
  <1>14. QED
    BY <1>6, <1>9, <1>10, <1>11, <1>12, <1>13 DEF UploadSafe

\* A further chunk of a message is counted and appended, or the upload is
\* flawed from then on.
LEMMA SignEip191MoreSafe ==
    ASSUME SafetyInv, ~async, NEW c \in Commands, SignEip191More(c)
    PROVE  ReplySafe' /\ UploadSafe'
  <1>1. /\ c.ins = "SIGN_PERSONAL_MESSAGE" /\ evmInit
        /\ bytesToRead' = Sub32(bytesToRead, Len(c.body))
        /\ UNCHANGED << hdPathEth, hdPathEthLen, cosmosVars, asked >>
    BY DEF SignEip191More, Left
  <1>2. c.body \in Seq(Byte) /\ Len(c.body) \in 0 .. U32 - 1
    BY CommandType
  <1>3. CASE ~Fits(buffer, c.body)
    <2>1. /\ Throw("OUTPUT_BUFFER_TOO_SMALL") /\ Continue(c, {"refused"})
          /\ UNCHANGED << buffer, evmInit >>
      BY <1>3 DEF SignEip191More
    <2>2. ReplySafe' /\ screen' = "none" /\ screen = "none"
      BY <2>1, ThrowSafe
    <2>3. /\ "refused" \in upload'.flaws
          /\ upload'.by = upload.by
          /\ upload'.flaws = AllFlaws(c, {"refused"})
      BY <2>1, ContinueFacts DEF SafetyInv, AllFlaws, Flaws
    <2>4. upload.by = "SIGN" => "foreign" \in upload'.flaws
      BY <1>1, <2>3 DEF AllFlaws
    <2>5. QED
      BY <1>1, <2>1, <2>2, <2>3, <2>4
      DEF UploadSafe, PathOfUpload, ReviewEndsUpload, BufferIsUpload, ReviewOfUpload,
          BytesToReadIsRest, CosmosHolds, EvmHolds, EvmScreens, SafetyInv, cosmosVars
  <1>4. CASE Fits(buffer, c.body)
    <2>1. /\ buffer' = buffer \o c.body /\ Continue(c, {})
          /\ evmInit' = GoesOn(bytesToRead')
          /\ IF bytesToRead' = 0 THEN ParseEip191(buffer') ELSE Throw("OK")
      BY <1>4 DEF SignEip191More
    <2>2. /\ ReplySafe' /\ screen = "none"
          /\ screen' \in {"none", "app_sign_eip191", "app_reply_error"}
          /\ screen' = "app_sign_eip191" => bytesToRead' = 0
      BY <2>1, ThrowSafe, ReviewSafe DEF ParseEip191, SignScreens
    <2>3. /\ upload'.by = upload.by
          /\ upload'.flaws = AllFlaws(c, {})
          /\ upload'.flaws = {} => upload'.sent = upload.sent \o c.body
      BY <2>1, ContinueFacts DEF SafetyInv
    <2>4. upload'.flaws = {} =>
             upload.by = "SIGN_PERSONAL_MESSAGE" /\ upload.flaws = {}
      BY <1>1, <2>3 DEF AllFlaws
    <2>5. upload.by = "SIGN_PERSONAL_MESSAGE" \/ "foreign" \in upload'.flaws
      BY <1>1, <2>3 DEF AllFlaws
    <2>6. BufferIsUpload'
      <3>1. SUFFICES ASSUME upload'.flaws = {} PROVE buffer' = upload'.sent
        BY DEF BufferIsUpload
      <3>2. buffer = upload.sent
        BY <1>1, <2>4, <3>1 DEF SafetyInv, BufferIsUpload, EvmHolds, Evm
      <3>3. QED
        BY <2>1, <2>3, <3>1, <3>2
    <2>7. BytesToReadIsRest'
      <3>1. ASSUME upload'.flaws = {}
            PROVE  /\ Len(buffer') >= 4
                   /\ bytesToRead' = Sub32(U4BE(buffer') % U32, Len(buffer') - 4)
        <4>1. /\ Len(buffer) >= 4
              /\ bytesToRead = Sub32(U4BE(buffer) % U32, Len(buffer) - 4)
          BY <1>1, <2>4, <3>1 DEF SafetyInv, BytesToReadIsRest, EvmHolds
        <4>2. buffer \in Seq(Byte) /\ Len(buffer) + Len(c.body) < U32
          BY <1>2, <1>4, BufferAssumption, WidthAssumption
          DEF SafetyInv, TypeOK, Fits
        <4>3. U4BE(buffer') = U4BE(buffer) /\ Len(buffer') = Len(buffer) + Len(c.body)
          BY <1>2, <2>1, <4>1, <4>2, U4BEPrefix
        <4>4. U4BE(buffer) % U32 \in 0 .. U32 - 1
          BY <4>1, <4>2, DeclaredType
        <4> DEFINE d == U4BE(buffer) % U32
        <4>5. /\ d \in 0 .. U32 - 1
              /\ bytesToRead = Sub32(d, Len(buffer) - 4)
              /\ d = U4BE(buffer') % U32
          BY <4>1, <4>3, <4>4
        <4> HIDE DEF d
        <4>6. Sub32(Sub32(d, Len(buffer) - 4), Len(c.body))
              = Sub32(d, (Len(buffer) - 4) + Len(c.body))
          <5>1. Len(buffer) - 4 \in Nat /\ Len(c.body) \in Nat
                /\ (Len(buffer) - 4) + Len(c.body) < U32
            BY <1>2, <4>1, <4>2, WidthAssumption
          <5>2. QED
            BY <4>5, <5>1, Sub32Twice
        <4>7. (Len(buffer) - 4) + Len(c.body) = Len(buffer') - 4
          BY <1>2, <4>2, <4>3
        <4>8. QED
          BY <1>1, <2>1, <4>1, <4>2, <4>3, <4>5, <4>6, <4>7
      <3>2. QED
        BY <2>2, <3>1 DEF BytesToReadIsRest
    <2>8. PathOfUpload'
      BY <1>1, <2>2 DEF PathOfUpload, SafetyInv, cosmosVars
    <2>9. ReviewEndsUpload'
      BY <2>1, <2>2 DEF ReviewEndsUpload, GoesOn
    <2>10. ReviewOfUpload'
      BY <2>2, <2>3, <2>5 DEF ReviewOfUpload, CosmosHolds
    <2>11. QED
      BY <2>2, <2>6, <2>7, <2>8, <2>9, <2>10 DEF UploadSafe
  <1>5. QED
    BY <1>3, <1>4

-----------------------------------------------------------------------------
(* The answers of the user.                                                *)

\* A callback signs the buffer and the path of the upload under review.
LEMMA UserSafe ==
    ASSUME SafetyInv, User
    PROVE  ReplySafe' /\ UploadSafe'
  <1>1. /\ async /\ screen # "none" /\ ~async' /\ screen' = "none"
        /\ UNCHANGED << buffer, cosmosVars, evmVars, upload, asked >>
    BY DEF User, app_sign, app_sign_evm, app_reply_address, app_reject,
           app_reply_error, Close
  <1>2. UploadSafe'
    BY <1>1
    DEF UploadSafe, PathOfUpload, ReviewEndsUpload, BufferIsUpload, ReviewOfUpload,
        BytesToReadIsRest, CosmosHolds, EvmHolds, EvmScreens, SafetyInv,
        cosmosVars, evmVars
  <1>3. AnswerOwedIffScreen' /\ AddressUnderReview'
    BY <1>1 DEF AnswerOwedIffScreen, AddressUnderReview
  <1>4. CASE \E s \in Statuses : answer' = Status(s)
    BY <1>2, <1>3, <1>4
    DEF ReplySafe, AddressIsOfCommand, SignatureIsOfUpload, Status
  <1>5. CASE app_reply_address
    BY <1>2, <1>3, <1>5
    DEF app_reply_address, ReplySafe, AddressIsOfCommand, SignatureIsOfUpload,
        SafetyInv, AddressUnderReview
  <1>6. CASE screen = "app_sign" /\ answer' = Signature(hdPath, buffer)
    <2>1. upload.flaws = {} => upload.by = "SIGN" /\ buffer = upload.sent
                               /\ hdPath = asked.cosmos
      BY <1>6 DEF SafetyInv, BufferIsUpload, ReviewOfUpload, PathOfUpload, CosmosHolds
    <2>2. QED
      BY <1>1, <1>2, <1>3, <1>6, <2>1
      DEF ReplySafe, AddressIsOfCommand, SignatureIsOfUpload, Signature
  <1>7. CASE screen \in EvmScreens /\ answer' = Signature(hdPathEth, buffer)
    <2>1. upload.flaws = {} => upload.by \in Evm /\ buffer = upload.sent
                               /\ hdPathEth = asked.evm
      BY <1>7 DEF SafetyInv, BufferIsUpload, ReviewOfUpload, PathOfUpload,
                  EvmHolds, EvmScreens, Evm
    <2>2. QED
      BY <1>1, <1>2, <1>3, <1>7, <2>1
      DEF ReplySafe, AddressIsOfCommand, SignatureIsOfUpload, Signature, Evm
  <1>8. QED
    BY <1>4, <1>5, <1>6, <1>7
    DEF User, app_sign, app_sign_evm, app_reject, app_reply_error, Statuses,
        EvmScreens

-----------------------------------------------------------------------------
(* The theorems.                                                           *)

LEMMA SafetyInit == Init => SafetyInv
  <1>1. SUFFICES ASSUME Init PROVE SafetyInv
    OBVIOUS
  <1>2. TypeOK
    BY <1>1, InitType
  <1>3. /\ AnswerOwedIffScreen /\ AddressUnderReview /\ AddressIsOfCommand
        /\ SignatureIsOfUpload
    BY <1>1 DEF Init, AnswerOwedIffScreen, AddressUnderReview,
                AddressIsOfCommand, SignatureIsOfUpload, Status
  <1>4. /\ PathOfUpload /\ ReviewEndsUpload /\ BufferIsUpload /\ ReviewOfUpload
        /\ BytesToReadIsRest
    BY <1>1 DEF Init, PathOfUpload, ReviewEndsUpload, BufferIsUpload,
                ReviewOfUpload, BytesToReadIsRest, CosmosHolds, EvmHolds,
                EvmScreens, Evm
  <1>5. QED
    BY <1>2, <1>3, <1>4 DEF SafetyInv

LEMMA SafetyStep == SafetyInv /\ [Next]_vars => SafetyInv'
  <1> SUFFICES ASSUME SafetyInv, [Next]_vars PROVE SafetyInv'
    OBVIOUS
  <1>1. TypeOK'
    BY NextType DEF SafetyInv
  <1>2. ASSUME NEW c \in Commands, handleApdu(c) PROVE ReplySafe' /\ UploadSafe'
    <2>1. ~async
      BY <1>2 DEF handleApdu
    <2>2. CASE GetAddr(c)
      BY <2>1, <2>2, GetAddrSafe
    <2>3. CASE SignInit(c)
      BY <2>1, <2>3, SignInitSafe
    <2>4. CASE SignAdd(c) \/ SignLast(c)
      BY <2>1, <2>4, SignChunkSafe
    <2>5. CASE \/ RejectCommand(c) \/ GetVersion(c)
               \/ SignNotInitialized(c) \/ SignBadP1(c)
               \/ EvmBadParameters(c) \/ EvmNotInitialized(c)
      BY <2>1, <2>5, RefusalSafe
    <2>6. CASE GetAddrEth(c)
      BY <2>1, <2>6, GetAddrEthSafe
    <2>7. CASE SignEthFirst(c)
      BY <2>1, <2>7, SignEthFirstSafe
    <2>8. CASE SignEthMore(c)
      BY <2>1, <2>8, SignEthMoreSafe
    <2>9. CASE SignEip191First(c)
      BY <2>1, <2>9, SignEip191FirstSafe
    <2>10. CASE SignEip191More(c)
      BY <2>1, <2>10, SignEip191MoreSafe
    <2>11. QED
      BY <1>2, <2>2, <2>3, <2>4, <2>5, <2>6, <2>7, <2>8, <2>9, <2>10
      DEF handleApdu, handleSign, handleSignEth, handleSignEip191
  <1>3. CASE User
    BY <1>1, <1>3, UserSafe DEF SafetyInv, ReplySafe, UploadSafe
  <1>4. CASE UNCHANGED vars
    BY <1>1, <1>4
    DEF vars, SafetyInv, AnswerOwedIffScreen, AddressUnderReview,
        AddressIsOfCommand, SignatureIsOfUpload, PathOfUpload, ReviewEndsUpload,
        BufferIsUpload, ReviewOfUpload, BytesToReadIsRest, CosmosHolds, EvmHolds
  <1>5. QED
    BY <1>1, <1>2, <1>3, <1>4 DEF Next, SafetyInv, ReplySafe, UploadSafe

\* Every state of the command layer satisfies the inductive invariant.
THEOREM Safety == Spec => []SafetyInv
  BY SafetyInit, SafetyStep, PTL DEF Spec

\* An answer is owed exactly while a screen waits for the user, so that no
\* command is answered twice and none is left unanswered for want of a screen
\* (the flags of handleApdu and the callbacks of actions.h).
THEOREM AnswersOwed == Spec => []AnswerOwedIffScreen
  <1>1. SafetyInv => AnswerOwedIffScreen
    BY DEF SafetyInv
  <1>2. QED
    BY <1>1, Safety, PTL

\* Whatever commands come in between, the path variable an upload in progress
\* or under review will sign with is the one its own first chunk carried
\* (extractHDPath, extract_eth_path, actions.h).
THEOREM PathIsOfUpload == Spec => []PathOfUpload
  <1>1. SafetyInv => PathOfUpload
    BY DEF SafetyInv
  <1>2. QED
    BY <1>1, Safety, PTL

\* A Cosmos transaction or a message under review cannot be continued
\* (process_chunk, process_chunk_eip191).
THEOREM ReviewedUploadEnds == Spec => []ReviewEndsUpload
  <1>1. SafetyInv => ReviewEndsUpload
    BY DEF SafetyInv
  <1>2. QED
    BY <1>1, Safety, PTL

\* An address is that of the path the command asked for (app_fill_address,
\* app_reply_address).
THEOREM AddressAnswersCommand == Spec => []AddressIsOfCommand
  <1>1. SafetyInv => AddressIsOfCommand
    BY DEF SafetyInv
  <1>2. QED
    BY <1>1, Safety, PTL

\* A Cosmos review shows the bytes sent since INIT, all of them and in order,
\* unless an EVM command took the shared buffer over (process_chunk).
THEOREM CosmosReviewShowsUpload == Spec => []CosmosReviewIsUpload
  <1>1. SafetyInv => CosmosReviewIsUpload
    BY DEF SafetyInv, CosmosReviewIsUpload, ReviewOfUpload, BufferIsUpload,
           CosmosHolds
  <1>2. QED
    BY <1>1, Safety, PTL

\* A reviewed message whose chunks were all accepted has the length it
\* declares, although bytes_to_read is counted down with wrapping arithmetic
\* (process_chunk_eip191).
THEOREM Eip191ReviewShowsUpload == Spec => []Eip191ReviewIsUpload
  <1>1. SafetyInv => Eip191ReviewIsUpload
    <2>1. SUFFICES ASSUME SafetyInv, screen = "app_sign_eip191", upload.flaws = {}
                   PROVE  /\ upload.by = "SIGN_PERSONAL_MESSAGE"
                          /\ buffer = upload.sent
                          /\ Len(buffer) >= 4
                          /\ U4BE(buffer) % U32 = Len(buffer) - 4
      BY DEF Eip191ReviewIsUpload
    <2>2. /\ upload.by = "SIGN_PERSONAL_MESSAGE" /\ EvmHolds
      BY <2>1 DEF SafetyInv, ReviewOfUpload, EvmHolds, EvmScreens
    <2>3. buffer = upload.sent
      BY <2>1, <2>2 DEF SafetyInv, BufferIsUpload, Evm
    <2>4. /\ Len(buffer) >= 4
          /\ Sub32(U4BE(buffer) % U32, Len(buffer) - 4) = 0
      BY <2>1, <2>2 DEF SafetyInv, BytesToReadIsRest
    <2>5. buffer \in Seq(Byte) /\ Len(buffer) \in 0 .. U32 - 1
      BY <2>1, BufferAssumption, WidthAssumption DEF SafetyInv, TypeOK
    <2>6. U4BE(buffer) % U32 \in 0 .. U32 - 1
      BY <2>4, <2>5, DeclaredType
    <2>7. Len(buffer) - 4 \in 0 .. U32 - 1
      BY <2>4, <2>5, WidthAssumption
    <2>8. U4BE(buffer) % U32 = Len(buffer) - 4
      BY <2>4, <2>6, <2>7, Sub32Zero
    <2>9. QED
      BY <2>2, <2>3, <2>4, <2>8
  <1>2. QED
    BY <1>1, Safety, PTL

\* A signature is over the bytes the host uploaded, by the key of the path it
\* uploaded them with, although the callback reads both from shared variables
\* when the user confirms (app_sign, app_sign_eth, app_sign_eip191).
THEOREM SignatureAnswersUpload == Spec => []SignatureIsOfUpload
  <1>1. SafetyInv => SignatureIsOfUpload
    BY DEF SafetyInv
  <1>2. QED
    BY <1>1, Safety, PTL
-----------------------------------------------------------------------------
(* The review of an Ethereum transaction.  What a MORE chunk appends depends *)
(* on the header in the buffer, so this needs the header to be the same from *)
(* the first chunk to the last.                                              *)

\* The chunks are all of this upload, and the first one held the whole header.
EthUploadRuns ==
    upload.by = "SIGN_ETH" /\ "foreign" \notin upload.flaws /\ "cut" \notin upload.flaws
    /\ EvmHolds

\* The buffer starts with a header, ends where that says at the latest, holds
\* what was sent first, and is complete once a chunk brought too much.
EthBufferIsFront ==
    EthUploadRuns =>
        /\ "refused" \notin upload.flaws
        /\ HeaderWhole(buffer) /\ Header(buffer).ok
        /\ Len(buffer) <= Header(buffer).read + Header(buffer).to_read
        /\ Len(buffer) <= Len(upload.sent)
        /\ buffer = SubSeq(upload.sent, 1, Len(buffer))
        /\ "excess" \in upload.flaws =>
              Len(buffer) = Header(buffer).read + Header(buffer).to_read

\* Only what the parser took for one list is reviewed.
EthReviewParsed == screen = "app_sign_eth" => ListCoversBuffer(buffer)

TransactionInv == EthBufferIsFront /\ EthReviewParsed
\* A step that leaves the upload alone, or starts another, leaves it so.
LEMMA TransactionStays ==
    ASSUME TransactionInv, screen' # "app_sign_eth",
           \/ ~EthUploadRuns'
           \/ UNCHANGED << buffer, upload >> /\ (EvmHolds' => EvmHolds)
    PROVE  TransactionInv'
  BY DEF TransactionInv, EthBufferIsFront, EthReviewParsed, EthUploadRuns

\* The other commands end the upload, are foreign to it, or leave it alone.
LEMMA OtherCommands ==
    ASSUME SafetyInv, ~async, TransactionInv, NEW c \in Commands,
           handleApdu(c), ~SignEthFirst(c), ~SignEthMore(c)
    PROVE  TransactionInv'
  <1>1. screen = "none"
    BY DEF SafetyInv, AnswerOwedIffScreen
  <1>2. CASE \/ RejectCommand(c) \/ GetVersion(c)
             \/ SignNotInitialized(c) \/ SignBadP1(c)
             \/ EvmBadParameters(c) \/ EvmNotInitialized(c)
    <2>1. /\ \E s : Throw(s)
          /\ UNCHANGED << buffer, evmInit, upload >>
      BY <1>2 DEF RejectCommand, GetVersion, SignNotInitialized, SignBadP1,
                  EvmBadParameters, EvmNotInitialized, evmVars
    <2>2. screen' = "none"
      BY <1>1, <2>1 DEF Throw
    <2>3. QED
      BY <1>1, <2>1, <2>2, TransactionStays DEF EvmHolds, EvmScreens
  <1>3. CASE GetAddr(c)
    <2>1. UNCHANGED << buffer, evmInit, upload >>
      BY <1>3 DEF GetAddr, evmVars
    <2>2. screen' \in {"none", "app_reply_address"}
      BY <1>1, <1>3 DEF GetAddr, Throw, ReplyAddress
    <2>3. QED
      BY <1>1, <2>1, <2>2, TransactionStays DEF EvmHolds, EvmScreens
  <1>4. CASE SignInit(c)
    <2>1. screen' = "none" /\ upload'.by = "SIGN"
      BY <1>1, <1>4 DEF SignInit, Throw, Begin
    <2>2. QED
      BY <2>1, TransactionStays DEF EthUploadRuns
  <1>5. CASE SignAdd(c) \/ SignLast(c) \/ SignEip191More(c)
    <2>1. screen' # "app_sign_eth"
      BY <1>1, <1>5 DEF SignAdd, SignLast, SignEip191More, Throw, Review, ParseEip191
    <2>2. c.ins # "SIGN_ETH" /\ \E flaws \in SUBSET Flaws : Continue(c, flaws)
      BY <1>5 DEF SignAdd, SignLast, SignEip191More, Flaws
    <2>3. upload'.by = "SIGN_ETH" => "foreign" \in upload'.flaws
      BY <2>2, ContinueFacts DEF SafetyInv, AllFlaws
    <2>4. QED
      BY <2>1, <2>3, TransactionStays DEF EthUploadRuns
  <1>6. CASE GetAddrEth(c)
    <2>1. screen' \in {"none", "app_reply_address"} /\ ~evmInit'
      BY <1>1, <1>6 DEF GetAddrEth, Throw, ReplyAddress
    <2>2. QED
      BY <2>1, TransactionStays DEF EthUploadRuns, EvmHolds, EvmScreens
  <1>7. CASE SignEip191First(c)
    <2>1. upload'.by = "SIGN_PERSONAL_MESSAGE"
      BY <1>7 DEF SignEip191First, Begin
    <2>2. screen' # "app_sign_eth"
      BY <1>1, <1>7 DEF SignEip191First, Throw, Review, ParseEip191
    <2>3. QED
      BY <2>1, <2>2, TransactionStays DEF EthUploadRuns
  <1>8. QED
    BY <1>2, <1>3, <1>4, <1>5, <1>6, <1>7
    DEF handleApdu, handleSign, handleSignEth, handleSignEip191

\* A first chunk that holds the whole header, or more, is cut where the
\* header says the transaction ends.
LEMMA FirstIsFront ==
    ASSUME NEW s \in Seq(Byte), Len(s) < U32, HeaderWhole(s), NEW r \in Residues,
           NEW rlp, rlp = get_tx_rlp_len(s, r), rlp.ok,
           NEW n, n = MinOf(saturating_add(rlp.read, rlp.to_read), Len(s))
    PROVE  /\ n \in 0 .. Len(s)
           /\ HeaderWhole(Take(s, n)) /\ Header(Take(s, n)) = rlp
           /\ n <= rlp.read + rlp.to_read
           /\ saturating_add(rlp.read, rlp.to_read) < Len(s) => n = rlp.read + rlp.to_read
  <1>1. r \in Seq(Byte)
    BY BufferAssumption
  <1>2. rlp = Header(s)
    BY <1>1, HeaderPrefix
  <1>3. /\ rlp.read \in 1 .. 10 /\ rlp.read <= Len(s) /\ rlp.to_read \in Nat
    BY <1>2, HeaderType
  <1> DEFINE a == rlp.read
             b == rlp.to_read
             l == Len(s)
  <1>4. /\ a \in 1 .. 10 /\ a <= l /\ b \in Nat /\ l \in Nat /\ l < U32
        /\ n = MinOf(saturating_add(a, b), l)
    BY <1>3
  <1> HIDE DEF a, b, l
  <1>5. /\ n \in 0 .. l /\ a <= n /\ n <= a + b
        /\ saturating_add(a, b) < l => n = a + b
    BY <1>4, WidthAssumption DEF MinOf, saturating_add
  <1>6. HeaderWhole(Take(s, n)) /\ Header(Take(s, n)) = rlp
    BY <1>2, <1>5, HeaderOfFront DEF Take, a, l
  <1>7. QED
    BY <1>5, <1>6 DEF a, b, l

LEMMA FirstTransaction ==
    ASSUME SafetyInv, ~async, NEW c \in Commands, SignEthFirst(c)
    PROVE  TransactionInv'
  <1>1. PICK p \in PathsRead(c), residue \in Residues : SignEthFirst(c)!2!(p, residue)
    BY DEF SignEthFirst
  <1> DEFINE rlp    == get_tx_rlp_len(c.body, residue)
             total  == saturating_add(rlp.read, rlp.to_read)
             maxLen == MinOf(total, Len(c.body))
             status == FirstStatus(c, p, rlp, maxLen)
             flaws  == (IF HeaderWhole(c.body) THEN {} ELSE {"cut"})
                       \cup (IF total < Len(c.body) THEN {"excess"} ELSE {})
  <1>2. /\ evmInit' = (status = "OK")
        /\ buffer' = IF status = "OK" THEN Take(c.body, maxLen) ELSE << >>
        /\ IF status = "OK" /\ total = Len(c.body)
           THEN ParseEth(buffer')
           ELSE Throw(status)
        /\ Begin(c, c.body, flaws)
    BY <1>1
  <1>3. status = "OK" => rlp.ok
    BY DEF FirstStatus
  <1>4. c.body \in Seq(Byte) /\ Len(c.body) \in 0 .. U32 - 1
    BY CommandType
  <1>5. screen = "none"
    BY DEF SafetyInv, AnswerOwedIffScreen
  <1>6. /\ rlp = get_tx_rlp_len(c.body, residue)
        /\ total = saturating_add(rlp.read, rlp.to_read)
        /\ maxLen = MinOf(saturating_add(rlp.read, rlp.to_read), Len(c.body))
    OBVIOUS
  <1>7. upload' = [by |-> c.ins, sent |-> c.body, flaws |-> flaws]
    BY <1>2 DEF Begin
  <1>8. "cut" \notin flaws => HeaderWhole(c.body)
    OBVIOUS
  <1>9. "refused" \notin flaws /\ ("excess" \in flaws => total < Len(c.body))
    OBVIOUS
  <1> HIDE DEF rlp, total, maxLen, status, flaws
  <1>whole. ASSUME HeaderWhole(c.body), rlp.ok
            PROVE  /\ maxLen \in 0 .. Len(c.body)
                   /\ HeaderWhole(Take(c.body, maxLen)) /\ Header(Take(c.body, maxLen)) = rlp
                   /\ maxLen <= rlp.read + rlp.to_read
                   /\ total < Len(c.body) => maxLen = rlp.read + rlp.to_read
    <2>1. Len(c.body) < U32
      BY <1>4, WidthAssumption
    <2>2. QED
      BY <1>4, <1>6, <1>whole, <2>1, FirstIsFront
  <1>10. EthReviewParsed'
    BY <1>2, <1>5 DEF EthReviewParsed, ParseEth, Throw, Review
  <1>11. EvmHolds' => status = "OK"
    BY <1>2, <1>5 DEF EvmHolds, EvmScreens, Throw
  <1>12. ASSUME EthUploadRuns'
         PROVE  /\ "refused" \notin upload'.flaws
                /\ HeaderWhole(buffer') /\ Header(buffer').ok
                /\ Len(buffer') <= Header(buffer').read + Header(buffer').to_read
                /\ Len(buffer') <= Len(upload'.sent)
                /\ buffer' = SubSeq(upload'.sent, 1, Len(buffer'))
                /\ "excess" \in upload'.flaws =>
                      Len(buffer') = Header(buffer').read + Header(buffer').to_read
    <2>1. status = "OK" /\ rlp.ok /\ HeaderWhole(c.body)
      BY <1>3, <1>7, <1>8, <1>11, <1>12 DEF EthUploadRuns
    <2>2. buffer' = Take(c.body, maxLen)
      BY <1>2, <2>1
    <2>3. maxLen \in Nat /\ maxLen <= Len(c.body)
      BY <1>4, <1>whole, <2>1
    <2>4. Len(buffer') = maxLen
      BY <1>4, <2>2, <2>3, TakeType
    <2>5. HeaderWhole(buffer') /\ Header(buffer') = rlp
      BY <1>whole, <2>1, <2>2
    <2>6. buffer' = SubSeq(upload'.sent, 1, Len(buffer'))
      BY <1>7, <2>2, <2>4 DEF Take
    <2>7. Len(buffer') <= Len(upload'.sent) /\ "refused" \notin upload'.flaws
      BY <1>7, <1>9, <2>3, <2>4
    <2>8. /\ Len(buffer') <= Header(buffer').read + Header(buffer').to_read
          /\ "excess" \in upload'.flaws =>
                Len(buffer') = Header(buffer').read + Header(buffer').to_read
      BY <1>7, <1>9, <1>whole, <2>1, <2>4, <2>5
    <2>9. QED
      BY <2>1, <2>5, <2>6, <2>7, <2>8
  <1>13. QED
    BY <1>10, <1>12 DEF TransactionInv, EthBufferIsFront
\* What a further chunk adds to what was sent.
LEMMA ContinueSent ==
    ASSUME TypeOK, NEW c \in Commands, NEW flaws \in SUBSET Flaws, Continue(c, flaws),
           "foreign" \notin upload'.flaws, "refused" \notin upload'.flaws
    PROVE  upload'.sent = IF "excess" \in upload.flaws THEN upload.sent
                          ELSE upload.sent \o c.body
  <1> DEFINE all  == AllFlaws(c, flaws)
             more == upload.sent \o c.body
             sent == IF all \cap {"foreign", "refused"} # {} THEN << >>
                     ELSE IF "excess" \in upload.flaws THEN upload.sent ELSE more
  <1>1. upload \in Uploads
    BY DEF TypeOK
  <1>2. upload' = [upload EXCEPT !.flaws = all, !.sent = sent]
    BY DEF Continue, AllFlaws
  <1>3. upload'.flaws = all
    BY ContinueFacts
  <1>4. all \cap {"foreign", "refused"} = {}
    BY <1>3
  <1> HIDE DEF all, more
  <1>5. sent = IF "excess" \in upload.flaws THEN upload.sent ELSE more
    BY <1>4, Zenon
  <1> HIDE DEF sent
  <1>6. upload'.sent = sent
    BY <1>1, <1>2 DEF Uploads
  <1>7. QED
    BY <1>5, <1>6 DEF more

\* The first bytes of a text are those of any longer one.
LEMMA FrontOfLonger ==
    ASSUME NEW s \in Seq(Byte), NEW t \in Seq(Byte), NEW n \in 0 .. Len(t)
    PROVE  /\ s \o Take(t, n) = SubSeq(s \o t, 1, Len(s) + n)
           /\ Len(s \o Take(t, n)) = Len(s) + n
           /\ Len(s \o t) = Len(s) + Len(t)
  <1> DEFINE part == Take(t, n)
             one  == s \o part
             both == s \o t
             cut  == SubSeq(both, 1, Len(s) + n)
  <1>1. part \in Seq(Byte) /\ Len(part) = n /\ \A k \in 1 .. n : part[k] = t[k]
    BY DEF Take
  <1>2. /\ both \in Seq(Byte) /\ Len(both) = Len(s) + Len(t)
        /\ \A k \in 1 .. Len(s) + Len(t) :
              both[k] = IF k <= Len(s) THEN s[k] ELSE t[k - Len(s)]
    BY ConcatProperties
  <1> HIDE DEF part
  <1>3. /\ one \in Seq(Byte) /\ Len(one) = Len(s) + n
        /\ \A k \in 1 .. Len(s) + n :
              one[k] = IF k <= Len(s) THEN s[k] ELSE part[k - Len(s)]
    BY <1>1, ConcatProperties
  <1> HIDE DEF one, both
  <1>4. /\ cut \in Seq(Byte) /\ Len(cut) = Len(s) + n
        /\ \A k \in 1 .. Len(s) + n : cut[k] = both[k]
    BY <1>2
  <1> HIDE DEF cut
  <1>5. ASSUME NEW k \in 1 .. Len(s) + n PROVE one[k] = cut[k]
    <2>1. CASE k <= Len(s)
      <3>1. k \in 1 .. Len(s) + Len(t)
        BY <2>1
      <3>2. one[k] = s[k] /\ both[k] = s[k] /\ cut[k] = both[k]
        BY <1>2, <1>3, <1>4, <1>5, <2>1, <3>1
      <3>3. QED
        BY <3>2
    <2>2. CASE k > Len(s)
      <3>1. k - Len(s) \in 1 .. n /\ k \in 1 .. Len(s) + Len(t)
        BY <1>5, <2>2
      <3>2. part[k - Len(s)] = t[k - Len(s)]
        BY <1>1, <3>1
      <3>3. QED
        BY <1>2, <1>3, <1>4, <1>5, <2>2, <3>1, <3>2
    <2>3. QED
      BY <1>5, <2>1, <2>2
  <1>6. one = cut
    BY <1>3, <1>4, <1>5, SeqEqual
  <1>7. QED
    BY <1>2, <1>3, <1>6 DEF one, both, cut, part

\* What is missing of a transaction whose header is in the buffer.
LEMMA MissingIsRest ==
    ASSUME NEW rlp, NEW r \in 1 .. 10, NEW w \in Nat, rlp.read = r, rlp.to_read = w,
           NEW l \in 0 .. U32 - 1, l = Len(buffer), r <= l, l <= r + w
    PROVE  Missing(rlp) = r + w - l
  <1>1. Sub64(l, r) = l - r
    BY DEF Sub64
  <1>2. Missing(rlp) = Sub64(w, l - r)
    BY <1>1 DEF Missing
  <1>3. Sub64(w, l - r) = r + w - l
    BY DEF Sub64
  <1>4. QED
    BY <1>2, <1>3
\* A further chunk fills the transaction up to where its header says it ends.
LEMMA MoreTransaction ==
    ASSUME SafetyInv, ~async, TransactionInv, NEW c \in Commands, SignEthMore(c)
    PROVE  TransactionInv'
  <1>1. PICK residue \in Residues : SignEthMore(c)!3!(residue)
    BY DEF SignEthMore
  <1> DEFINE rlp     == get_tx_rlp_len(buffer, residue)
             missing == Missing(rlp)
             n       == MinOf(missing, Len(c.body))
             taken   == Take(c.body, n)
             excess  == IF missing < Len(c.body) THEN {"excess"} ELSE {}
  <1>2. \/ /\ Throw("DATA_INVALID")
           /\ UNCHANGED << buffer, evmInit, upload >>
        \/ /\ evmInit' = FALSE
           /\ Throw("OUTPUT_BUFFER_TOO_SMALL")
        \/ /\ rlp.ok
           /\ buffer' = buffer \o taken
           /\ Continue(c, excess)
           /\ IF missing = Len(c.body) THEN ParseEth(buffer') ELSE Throw("OK")
    BY <1>1
  <1>3. screen = "none" /\ c.ins = "SIGN_ETH" /\ evmInit
    BY DEF SafetyInv, AnswerOwedIffScreen, SignEthMore
  <1>4. excess \in SUBSET Flaws /\ "refused" \notin excess
        /\ ("excess" \in excess <=> missing < Len(c.body))
    BY DEF Flaws
  <1>5. /\ c.body \in Seq(Byte) /\ Len(c.body) \in Nat
        /\ buffer \in Seq(Byte) /\ Len(buffer) \in 0 .. U32 - 1
        /\ residue \in Seq(Byte) /\ upload \in Uploads /\ upload.sent \in Seq(Byte)
    BY CommandType, BufferAssumption, WidthAssumption DEF SafetyInv, TypeOK, Uploads
  <1>6. /\ rlp = get_tx_rlp_len(buffer, residue) /\ missing = Missing(rlp)
        /\ n = MinOf(missing, Len(c.body)) /\ taken = Take(c.body, n)
    OBVIOUS
  <1> HIDE DEF rlp, missing, n, taken, excess
  <1>7. CASE Throw("DATA_INVALID") /\ UNCHANGED << buffer, evmInit, upload >>
    BY <1>3, <1>7, TransactionStays DEF Throw, EvmHolds, EvmScreens
  <1>8. CASE evmInit' = FALSE /\ Throw("OUTPUT_BUFFER_TOO_SMALL")
    BY <1>3, <1>8, TransactionStays DEF Throw, EthUploadRuns, EvmHolds, EvmScreens
  <1>9. CASE /\ buffer' = buffer \o taken /\ Continue(c, excess)
             /\ IF missing = Len(c.body) THEN ParseEth(buffer') ELSE Throw("OK")
    <2>1. EthReviewParsed'
      BY <1>3, <1>9 DEF EthReviewParsed, ParseEth, Throw, Review
    <2>2. /\ upload'.by = upload.by
          /\ upload'.flaws = AllFlaws(c, excess)
      BY <1>4, <1>9, ContinueFacts DEF SafetyInv
    <2>3. ASSUME EthUploadRuns'
          PROVE  /\ "refused" \notin upload'.flaws
                 /\ HeaderWhole(buffer') /\ Header(buffer').ok
                 /\ Len(buffer') <= Header(buffer').read + Header(buffer').to_read
                 /\ Len(buffer') <= Len(upload'.sent)
                 /\ buffer' = SubSeq(upload'.sent, 1, Len(buffer'))
                 /\ "excess" \in upload'.flaws =>
                       Len(buffer') = Header(buffer').read + Header(buffer').to_read
      <3>1. EthUploadRuns
        BY <1>3, <2>2, <2>3 DEF EthUploadRuns, AllFlaws, EvmHolds
      <3>2. /\ "refused" \notin upload.flaws
            /\ HeaderWhole(buffer) /\ Header(buffer).ok
            /\ Len(buffer) <= Header(buffer).read + Header(buffer).to_read
            /\ Len(buffer) <= Len(upload.sent)
            /\ buffer = SubSeq(upload.sent, 1, Len(buffer))
            /\ "excess" \in upload.flaws =>
                  Len(buffer) = Header(buffer).read + Header(buffer).to_read
        BY <3>1 DEF TransactionInv, EthBufferIsFront
      <3>3. rlp = Header(buffer)
        BY <1>5, <1>6, <3>2, HeaderPrefix
      <3>4. /\ Header(buffer).read \in 1 .. 10 /\ Header(buffer).read <= Len(buffer)
            /\ Header(buffer).to_read \in Nat
        BY <1>5, <3>2, HeaderType
      <3>5. missing = Header(buffer).read + Header(buffer).to_read - Len(buffer)
        BY <1>5, <1>6, <3>2, <3>3, <3>4, MissingIsRest
      <3>6. /\ n \in 0 .. Len(c.body)
            /\ Len(buffer) + n <= Header(buffer).read + Header(buffer).to_read
            /\ missing < Len(c.body) =>
                  Len(buffer) + n = Header(buffer).read + Header(buffer).to_read
            /\ ~(missing < Len(c.body)) => n = Len(c.body)
        <4> DEFINE a == Header(buffer).read
                   b == Header(buffer).to_read
                   l == Len(buffer)
                   k == Len(c.body)
        <4>1. /\ a \in 1 .. 10 /\ b \in Nat /\ l \in 0 .. U32 - 1 /\ k \in Nat /\ l <= a + b
              /\ missing = a + b - l /\ n = MinOf(missing, k)
          BY <1>5, <1>6, <3>2, <3>4, <3>5
        <4> HIDE DEF a, b, l, k
        <4>2. /\ n \in 0 .. k /\ l + n <= a + b
              /\ missing < k => l + n = a + b
              /\ ~(missing < k) => n = k
          BY <4>1, WidthAssumption DEF MinOf
        <4>3. QED
          BY <4>2 DEF a, b, l, k
      <3>7. taken \in Seq(Byte) /\ Len(taken) = n
        BY <1>5, <1>6, <3>6, TakeType
      <3>8. HeaderWhole(buffer') /\ Header(buffer') = Header(buffer)
        BY <1>5, <1>9, <3>2, <3>7, HeaderOfWhole
      <3>9. Len(buffer') = Len(buffer) + n
        <4>1. Len(buffer \o Take(c.body, n)) = Len(buffer) + n
          BY <1>5, <3>6, FrontOfLonger
        <4>2. QED
          BY <1>6, <1>9, <4>1, Zenon
      <3>10. "refused" \notin upload'.flaws /\ "foreign" \notin upload'.flaws
        BY <1>3, <1>4, <2>2, <2>3, <3>2 DEF EthUploadRuns, AllFlaws
      <3>11. upload'.sent = IF "excess" \in upload.flaws THEN upload.sent
                            ELSE upload.sent \o c.body
        BY <1>4, <1>9, <3>10, ContinueSent DEF SafetyInv
      <3>12. CASE "excess" \in upload.flaws
        <4>1. Len(buffer) = Header(buffer).read + Header(buffer).to_read
          BY <3>2, <3>12
        <4>2. n = 0
          BY <1>5, <3>4, <3>6, <4>1
        <4>3. buffer' = buffer
          BY <1>5, <1>9, <3>7, <4>2
        <4>4. QED
          BY <3>2, <3>8, <3>10, <3>11, <3>12, <4>1, <4>3
      <3>13. CASE "excess" \notin upload.flaws
        <4>1. upload.flaws = {}
          <5>1. upload.flaws \in SUBSET Flaws
            BY <1>5 DEF Uploads
          <5>2. QED
            BY <3>1, <3>2, <3>13, <5>1 DEF Flaws, EthUploadRuns
        <4>2. buffer = upload.sent
          BY <3>1, <4>1 DEF SafetyInv, BufferIsUpload, EthUploadRuns, Evm
        <4>3. upload'.sent = buffer \o c.body
          BY <3>11, <3>13, <4>2
        <4>4. /\ buffer' = SubSeq(upload'.sent, 1, Len(buffer) + n)
              /\ Len(upload'.sent) = Len(buffer) + Len(c.body)
          <5>1. /\ buffer \o Take(c.body, n) = SubSeq(buffer \o c.body, 1, Len(buffer) + n)
                /\ Len(buffer \o c.body) = Len(buffer) + Len(c.body)
            BY <1>5, <3>6, FrontOfLonger
          <5>2. buffer' = buffer \o Take(c.body, n)
            BY <1>6, <1>9, Zenon
          <5>3. QED
            BY <4>3, <5>1, <5>2, Zenon
        <4>5. Len(buffer') <= Len(upload'.sent)
              /\ buffer' = SubSeq(upload'.sent, 1, Len(buffer'))
          BY <1>5, <3>6, <3>9, <4>4
        <4>6. "excess" \in upload'.flaws => missing < Len(c.body)
          BY <1>3, <1>4, <2>2, <4>1 DEF AllFlaws
        <4>7. QED
          BY <3>2, <3>6, <3>8, <3>9, <3>10, <4>5, <4>6
      <3>14. QED
        BY <3>12, <3>13
    <2>4. QED
      BY <2>1, <2>3 DEF TransactionInv, EthBufferIsFront
  <1>10. QED
    BY <1>2, <1>7, <1>8, <1>9
LEMMA TransactionStep ==
    SafetyInv /\ TransactionInv /\ [Next]_vars => TransactionInv'
  <1> SUFFICES ASSUME SafetyInv, TransactionInv, [Next]_vars PROVE TransactionInv'
    OBVIOUS
  <1>1. ASSUME NEW c \in Commands, handleApdu(c) PROVE TransactionInv'
    <2>1. ~async
      BY <1>1 DEF handleApdu
    <2>2. CASE SignEthFirst(c)
      BY <2>1, <2>2, FirstTransaction
    <2>3. CASE SignEthMore(c)
      BY <2>1, <2>3, MoreTransaction
    <2>4. QED
      BY <1>1, <2>1, <2>2, <2>3, OtherCommands
  <1>2. CASE User
    <2>1. screen' = "none" /\ UNCHANGED << buffer, evmInit, upload >>
      BY <1>2 DEF User, app_sign, app_sign_evm, app_reply_address, app_reject,
                  app_reply_error, Close, evmVars
    <2>2. QED
      BY <2>1, TransactionStays DEF EvmHolds, EvmScreens
  <1>3. CASE UNCHANGED vars
    BY <1>3 DEF vars, TransactionInv, EthBufferIsFront, EthReviewParsed, EthUploadRuns,
                EvmHolds
  <1>4. QED
    BY <1>1, <1>2, <1>3 DEF Next

\* While an Ethereum upload runs, the buffer is the front of what was sent.
THEOREM TransactionRuns == Spec => []TransactionInv
  <1>1. Init => TransactionInv
    BY DEF Init, TransactionInv, EthBufferIsFront, EthReviewParsed, EthUploadRuns
  <1>2. QED
    BY <1>1, Safety, TransactionStep, PTL DEF Spec

\* An Ethereum review shows what was sent since FIRST, without the bytes
\* behind the end of the transaction, when the chunks were its own and the
\* first held the header (process_chunk_eth).
THEOREM EthReviewShowsUpload == Spec => []EthReviewIsUpload
  <1>1. SafetyInv /\ TransactionInv => EthReviewIsUpload
    <2>1. SUFFICES ASSUME SafetyInv, TransactionInv, screen = "app_sign_eth",
                          upload.flaws \subseteq {"excess", "refused"}
                   PROVE  /\ upload.by = "SIGN_ETH"
                          /\ "refused" \notin upload.flaws
                          /\ Len(buffer) <= Len(upload.sent)
                          /\ buffer = SubSeq(upload.sent, 1, Len(buffer))
      BY DEF EthReviewIsUpload
    <2>2. upload.by = "SIGN_ETH"
      BY <2>1 DEF SafetyInv, ReviewOfUpload
    <2>3. EthUploadRuns
      BY <2>1, <2>2 DEF EthUploadRuns, EvmHolds, EvmScreens
    <2>4. QED
      BY <2>1, <2>2, <2>3 DEF TransactionInv, EthBufferIsFront
  <1>2. QED
    BY <1>1, Safety, TransactionRuns, PTL

-----------------------------------------------------------------------------
(***************************************************************************)
(* The command layer implements the signing session, for every set of      *)
(* commands, every buffer size and every width: each initial state maps to *)
(* one, and each command and each answer of the user maps to a step of the *)
(* session or to none.  (Fairness is left to the model checker.)           *)
(***************************************************************************)

\* What the session stands for, in the variables of the command layer.
DocumentOf ==
    IF Clean THEN [kind |-> upload.by, key |-> KeyOf(upload.by), bytes |-> upload.sent]
             ELSE NoDocument("spoilt")

\* What the screen offers is nothing to sign, or the document of the session
\* with a key of its own; and an open session has one.
Presented ==
    /\ \/ OfferOf \in {NoDocument("nothing"), NoDocument("aside")}
       \/ OfferOf = DocumentOf /\ (Clean => KeyOf(upload.by) \in Mainnet)
    /\ OpenFlag(upload.by) => KeyOf(upload.by) \in Mainnet

LEMMA SafePresents == SafetyInv => Presented
  <1> SUFFICES ASSUME SafetyInv PROVE Presented
    OBVIOUS
  <1>1. OpenFlag(upload.by) => KeyOf(upload.by) \in Mainnet
    BY DEF SafetyInv, PathOfUpload, OpenFlag, KeyOf, Evm
  <1>2. CASE screen \notin SignScreens
    BY <1>1, <1>2 DEF Presented, OfferOf
  <1>3. CASE screen \in SignScreens /\ ~Clean
    BY <1>1, <1>3 DEF Presented, OfferOf, DocumentOf, SignScreens
  <1>4. CASE screen \in SignScreens /\ Clean
    <2>1. upload.by = KindOf(screen)
      BY <1>4 DEF SafetyInv, ReviewOfUpload, Clean, SignScreens, KindOf
    <2>2. buffer = upload.sent
      BY <1>4, <2>1 DEF SafetyInv, BufferIsUpload, Clean, SignScreens, KindOf,
                        CosmosHolds, EvmHolds, EvmScreens, Evm
    <2>3. PathOf(screen) = KeyOf(upload.by) /\ KeyOf(upload.by) \in Mainnet
      BY <1>4, <2>1 DEF SafetyInv, PathOfUpload, SignScreens, KindOf, PathOf, KeyOf, Evm
    <2>4. OfferOf = DocumentOf
      BY <1>4, <2>1, <2>2, <2>3 DEF OfferOf, DocumentOf, SignScreens
    <2>5. QED
      BY <1>1, <2>3, <2>4 DEF Presented
  <1>5. QED
    BY <1>2, <1>3, <1>4

\* After a command nothing is signed, or the answer is still owed.
LEMMA CommandUnsigned ==
    ASSUME SafetyInv, ~async,
           \/ \E s : Throw(s)
           \/ \E callback \in SignScreens \cup {"app_reply_error"} : Review(callback)
           \/ \E c, p, q : ReplyAddress(c, p, q)
    PROVE  screen = "none" /\ OfferOf = NoDocument("nothing")
           /\ SignedOf' = NoDocument("nothing")
  <1>1. screen = "none"
    BY DEF SafetyInv, AnswerOwedIffScreen
  <1>2. async' \/ answer'.kind # "signature"
    BY DEF Throw, Status, Review, ReplyAddress, Address
  <1>3. QED
    BY <1>1, <1>2 DEF OfferOf, SignedOf

\* A chunk that begins an upload begins a session.
LEMMA BeginsSession ==
    ASSUME Presented', OfferOf = NoDocument("nothing"),
           SignedOf' = NoDocument("nothing"),
           NEW c \in Commands, c.ins \in {"SIGN"} \cup Evm, NEW sent, NEW flaws,
           sent \in {d.body : d \in Commands} \cup {<< >>}, Begin(c, sent, flaws)
    PROVE  Session!Begin
  <1>1. upload'.by = c.ins /\ upload'.sent = sent
    BY DEF Begin
  <1>2. Session!Present
    BY DEF Presented, Session!Present, Session!Document, SessionOf, DocumentOf
  <1>3. QED
    BY <1>1, <1>2 DEF Presented, Session!Begin, SessionOf

\* Another chunk extends the session, or spoils it.
LEMMA ExtendsSession ==
    ASSUME SafetyInv, Presented', OfferOf = NoDocument("nothing"),
           SignedOf' = NoDocument("nothing"),
           NEW c \in Commands, NEW flaws \in SUBSET Flaws, Continue(c, flaws),
           OpenFlag(c.ins), UNCHANGED asked
    PROVE  Session!Extend
  <1>1. /\ upload'.by = upload.by
        /\ upload'.flaws = AllFlaws(c, flaws)
        /\ upload'.flaws = {} => upload'.sent = upload.sent \o c.body
    BY ContinueFacts DEF SafetyInv
  <1>2. Clean' => /\ Clean /\ OpenFlag(upload.by)
                  /\ \E chunk \in {d.body : d \in Commands} :
                        upload'.sent = upload.sent \o chunk
    BY <1>1 DEF Clean, AllFlaws
  <1>3. KeyOf(upload.by)' = KeyOf(upload.by)
    BY <1>1 DEF KeyOf
  <1>4. Session!Present
    BY DEF Presented, Session!Present, Session!Document, SessionOf, DocumentOf
  <1>5. QED
    BY <1>1, <1>2, <1>3, <1>4 DEF Presented, Session!Extend, SessionOf

\* Any other command leaves the session or takes its key away.
LEMMA ConsultsSession ==
    ASSUME OfferOf = NoDocument("nothing"), SignedOf' = NoDocument("nothing"),
           screen' \notin SignScreens, UNCHANGED upload,
           \/ /\ OpenFlag(upload.by)' = OpenFlag(upload.by)
              /\ KeyOf(upload.by)' = KeyOf(upload.by)
           \/ ~OpenFlag(upload.by)' /\ KeyOf(upload.by)' = NoPath
    PROVE  Session!Consult
  <1>1. OfferOf' \in {NoDocument("nothing"), NoDocument("aside")}
    BY DEF OfferOf
  <1>2. Clean' = Clean
    BY DEF Clean
  <1>3. CASE /\ OpenFlag(upload.by)' = OpenFlag(upload.by)
             /\ KeyOf(upload.by)' = KeyOf(upload.by)
    <2>1. SessionOf' = SessionOf
      BY <1>2, <1>3 DEF SessionOf
    <2>2. QED
      BY <1>1, <2>1 DEF Session!Consult
  <1>4. CASE ~OpenFlag(upload.by)' /\ KeyOf(upload.by)' = NoPath
    BY <1>1, <1>2, <1>4 DEF Session!Consult, SessionOf
  <1>5. QED
    BY <1>3, <1>4

-----------------------------------------------------------------------------
(* The commands.                                                           *)

\* An address command takes the key of an upload of its own family away.
LEMMA AddressConsults ==
    ASSUME SafetyInv, ~async, NEW c \in Commands, GetAddr(c) \/ GetAddrEth(c)
    PROVE  Session!Consult
  <1>1. /\ OfferOf = NoDocument("nothing") /\ SignedOf' = NoDocument("nothing")
        /\ screen = "none"
    BY CommandUnsigned DEF GetAddr, GetAddrEth
  <1>2. screen' \notin SignScreens /\ UNCHANGED upload
    BY <1>1 DEF GetAddr, GetAddrEth, Throw, ReplyAddress, SignScreens
  <1>3. CASE GetAddr(c)
    <2>1. /\ cosmosInit' = FALSE /\ evmInit' = evmInit
          /\ asked'.cosmos = NoPath /\ asked'.evm = asked.evm
      BY <1>3 DEF GetAddr, evmVars, SafetyInv, TypeOK
    <2>2. CASE upload.by = "SIGN"
      <3>1. ~OpenFlag(upload.by)' /\ KeyOf(upload.by)' = NoPath
        BY <1>2, <2>1, <2>2 DEF OpenFlag, KeyOf, Evm
      <3>2. QED
        BY <1>1, <1>2, <3>1, ConsultsSession
    <2>3. CASE upload.by # "SIGN"
      <3>1. /\ OpenFlag(upload.by)' = OpenFlag(upload.by)
            /\ KeyOf(upload.by)' = KeyOf(upload.by)
        BY <1>2, <2>1, <2>3 DEF OpenFlag, KeyOf
      <3>2. QED
        BY <1>1, <1>2, <3>1, ConsultsSession
    <2>4. QED
      BY <2>2, <2>3
  <1>4. CASE GetAddrEth(c)
    <2>1. /\ evmInit' = FALSE /\ cosmosInit' = cosmosInit
          /\ asked'.evm = NoPath /\ asked'.cosmos = asked.cosmos
      BY <1>4 DEF GetAddrEth, cosmosVars, SafetyInv, TypeOK
    <2>2. CASE upload.by \in Evm
      <3>1. ~OpenFlag(upload.by)' /\ KeyOf(upload.by)' = NoPath
        BY <1>2, <2>1, <2>2 DEF OpenFlag, KeyOf, Evm
      <3>2. QED
        BY <1>1, <1>2, <3>1, ConsultsSession
    <2>3. CASE upload.by \notin Evm
      <3>1. /\ OpenFlag(upload.by)' = OpenFlag(upload.by)
            /\ KeyOf(upload.by)' = KeyOf(upload.by)
        BY <1>2, <2>1, <2>3 DEF OpenFlag, KeyOf
      <3>2. QED
        BY <1>1, <1>2, <3>1, ConsultsSession
    <2>4. QED
      BY <2>2, <2>3
  <1>5. QED
    BY <1>3, <1>4

\* A command that is refused before its handler touches anything.
LEMMA RefusalConsults ==
    ASSUME SafetyInv, ~async, NEW s, Throw(s),
           UNCHANGED << cosmosInit, evmInit, asked, upload >>
    PROVE  Session!Consult
  <1>1. /\ OfferOf = NoDocument("nothing") /\ SignedOf' = NoDocument("nothing")
        /\ screen = "none"
    BY CommandUnsigned
  <1>2. screen' \notin SignScreens
    BY <1>1 DEF Throw, SignScreens
  <1>3. /\ OpenFlag(upload.by)' = OpenFlag(upload.by)
        /\ KeyOf(upload.by)' = KeyOf(upload.by)
    BY DEF OpenFlag, KeyOf
  <1>4. QED
    BY <1>1, <1>2, <1>3, ConsultsSession

\* INIT and FIRST chunks.
LEMMA FirstBegins ==
    ASSUME SafetyInv, Presented', ~async, NEW c \in Commands,
           SignInit(c) \/ SignEthFirst(c) \/ SignEip191First(c)
    PROVE  Session!Begin
  <1>1. c.ins \in {"SIGN"} \cup Evm
    BY DEF SignInit, SignEthFirst, SignEip191First, Evm
  <1>2. \E flaws : \E sent \in {d.body : d \in Commands} \cup {<< >>} : Begin(c, sent, flaws)
    BY DEF SignInit, SignEthFirst, SignEip191First
  <1>3. \/ \E s : Throw(s)
        \/ \E callback \in SignScreens \cup {"app_reply_error"} : Review(callback)
    BY DEF SignInit, SignEthFirst, SignEip191First, ParseEth, ParseEip191, SignScreens
  <1>4. OfferOf = NoDocument("nothing") /\ SignedOf' = NoDocument("nothing")
    BY <1>3, CommandUnsigned
  <1>5. QED
    BY <1>1, <1>2, <1>4, BeginsSession

\* The chunks that follow.  One whose header is not read stays aside.
LEMMA MoreExtends ==
    ASSUME SafetyInv, Presented', ~async, NEW c \in Commands,
           SignAdd(c) \/ SignLast(c) \/ SignEthMore(c) \/ SignEip191More(c)
    PROVE  Session!Extend \/ Session!Consult
  <1>1. \/ \E s : Throw(s)
        \/ \E callback \in SignScreens \cup {"app_reply_error"} : Review(callback)
    BY DEF SignAdd, SignLast, SignEthMore, SignEip191More, ParseEth, ParseEip191,
           SignScreens
  <1>2. OfferOf = NoDocument("nothing") /\ SignedOf' = NoDocument("nothing")
    BY <1>1, CommandUnsigned
  <1>3. OpenFlag(c.ins) /\ UNCHANGED asked
    BY DEF SignAdd, SignLast, SignEthMore, SignEip191More, OpenFlag, Evm
  <1>4. CASE \E flaws \in SUBSET Flaws : Continue(c, flaws)
    BY <1>2, <1>3, <1>4, ExtendsSession
  <1>5. CASE /\ \E s : Throw(s)
             /\ UNCHANGED << cosmosInit, evmInit, asked, upload >>
    BY <1>5, RefusalConsults
  <1>6. {} \in SUBSET Flaws /\ {"refused"} \in SUBSET Flaws /\ {"excess"} \in SUBSET Flaws
    BY DEF Flaws
  <1>7. CASE SignEthMore(c)
    <2>1. PICK residue \in Residues : SignEthMore(c)!3!(residue)
      BY <1>7 DEF SignEthMore
    <2>2. \/ \E flaws \in SUBSET Flaws : Continue(c, flaws)
          \/ Throw("DATA_INVALID") /\ UNCHANGED << evmInit, upload >>
      BY <1>6, <2>1
    <2>3. UNCHANGED << cosmosInit, asked >>
      BY <1>7 DEF SignEthMore, cosmosVars
    <2>4. QED
      BY <1>4, <1>5, <2>2, <2>3
  <1>8. QED
    BY <1>4, <1>6, <1>7 DEF SignAdd, SignLast, SignEip191More

-----------------------------------------------------------------------------
(* The user.                                                               *)

\* A signature is the answer to the approval of the document on offer.
LEMMA UserAnswers ==
    ASSUME SafetyInv, User
    PROVE  Session!Approve \/ Session!Decline
  <1>1. /\ ~async' /\ screen' = "none" /\ screen # "none"
        /\ UNCHANGED << cosmosInit, evmInit, upload, asked >>
    BY DEF User, app_sign, app_sign_evm, app_reply_address, app_reject,
           app_reply_error, Close, cosmosVars, evmVars
  <1>2. /\ OfferOf # NoDocument("nothing")
        /\ OfferOf' = NoDocument("nothing")
    BY <1>1 DEF OfferOf, NoDocument, SignScreens, KindOf
  <1>3. UNCHANGED SessionOf
    BY <1>1 DEF SessionOf, OpenFlag, KeyOf, Clean
  <1>4. CASE answer'.kind # "signature"
    <2>1. SignedOf' = NoDocument("nothing")
      BY <1>4 DEF SignedOf
    <2>2. QED
      BY <1>2, <1>3, <2>1 DEF Session!Decline
  <1>5. CASE screen \in SignScreens /\ answer' = Signature(PathOf(screen), buffer)
    <2>1. OfferOf # NoDocument("aside")
      BY <1>5 DEF OfferOf, NoDocument, SignScreens, KindOf
    <2>2. answer'.kind = "signature" /\ answer'.path = PathOf(screen)
          /\ answer'.data = buffer
      BY <1>5 DEF Signature
    <2>3. Clean => upload.by = KindOf(screen)
      BY <1>5 DEF SafetyInv, ReviewOfUpload, Clean, SignScreens, KindOf
    <2>4. SignedOf' = OfferOf
      BY <1>1, <1>5, <2>2, <2>3 DEF SignedOf, OfferOf, Clean, SignScreens
    <2>5. QED
      BY <1>2, <1>3, <2>1, <2>4 DEF Session!Approve
  <1>6. app_reply_address => answer'.kind # "signature"
    BY DEF app_reply_address, SafetyInv, AddressUnderReview
  <1>7. QED
    BY <1>4, <1>5, <1>6
    DEF User, app_sign, app_sign_evm, app_reject, app_reply_error, Status, PathOf,
        SignScreens

-----------------------------------------------------------------------------
LEMMA SessionInit == Init => Session!Init
  <1> SUFFICES ASSUME Init PROVE Session!Init
    OBVIOUS
  <1>1. /\ upload.by = "none" /\ upload.sent = << >>
        /\ Clean = TRUE /\ OpenFlag(upload.by) = FALSE /\ KeyOf(upload.by) = NoPath
    BY DEF Init, Clean, OpenFlag, KeyOf, Evm
  <1>2. SessionOf = [kind |-> "none", key |-> NoPath, sent |-> << >>,
                     clean |-> TRUE, open |-> FALSE]
    BY <1>1 DEF SessionOf
  <1>3. OfferOf = NoDocument("nothing") /\ SignedOf = NoDocument("nothing")
    BY DEF Init, OfferOf, SignedOf, Status
  <1>4. QED
    BY <1>2, <1>3 DEF Session!Init

LEMMA SessionStep ==
    SafetyInv /\ Presented' /\ [Next]_vars => [Session!Next]_(Session!vars)
  <1> SUFFICES ASSUME SafetyInv, Presented', [Next]_vars
               PROVE  [Session!Next]_(Session!vars)
    OBVIOUS
  <1>1. ASSUME NEW c \in Commands, handleApdu(c)
        PROVE  Session!Begin \/ Session!Extend \/ Session!Consult
    <2>1. ~async
      BY <1>1 DEF handleApdu
    <2>2. CASE GetAddr(c) \/ GetAddrEth(c)
      BY <2>1, <2>2, AddressConsults
    <2>3. CASE SignInit(c) \/ SignEthFirst(c) \/ SignEip191First(c)
      BY <2>1, <2>3, FirstBegins
    <2>4. CASE SignAdd(c) \/ SignLast(c) \/ SignEthMore(c) \/ SignEip191More(c)
      BY <2>1, <2>4, MoreExtends
    <2>5. CASE \/ RejectCommand(c) \/ GetVersion(c)
               \/ SignNotInitialized(c) \/ SignBadP1(c)
               \/ EvmBadParameters(c) \/ EvmNotInitialized(c)
      <3>1. /\ \E s : Throw(s)
            /\ UNCHANGED << cosmosInit, evmInit, asked, upload >>
        BY <2>5 DEF RejectCommand, GetVersion, SignNotInitialized, SignBadP1,
                    EvmBadParameters, EvmNotInitialized, cosmosVars, evmVars
      <3>2. QED
        BY <2>1, <3>1, RefusalConsults
    <2>6. QED
      BY <1>1, <2>2, <2>3, <2>4, <2>5
      DEF handleApdu, handleSign, handleSignEth, handleSignEip191
  <1>2. CASE User
    BY <1>2, UserAnswers DEF Session!Next
  <1>3. CASE UNCHANGED vars
    BY <1>3 DEF vars, Session!vars, SessionOf, OfferOf, SignedOf, KeyOf, OpenFlag,
                Clean, PathOf
  <1>4. QED
    BY <1>1, <1>2, <1>3 DEF Next, Session!Next

\* The handlers and callbacks implement the signing session: a document is
\* offered only as the bytes of its own chunks with the key its first chunk
\* named, and a signature answers only the approval of that document, however
\* the commands of a host that keeps to one upload are interleaved with others
\* (handleApdu, process_chunk, process_chunk_eth, process_chunk_eip191 and the
\* callbacks of actions.h).
THEOREM SessionIsImplemented == Spec => Session!Spec
  <1>1. Init => Session!Init
    BY SessionInit
  <1>2. SafetyInv => Presented
    BY SafePresents
  <1>3. SafetyInv /\ Presented' /\ [Next]_vars => [Session!Next]_(Session!vars)
    BY SessionStep
  <1>4. QED
    BY <1>1, <1>2, <1>3, Safety, PTL DEF Spec, Session!Spec
=============================================================================
