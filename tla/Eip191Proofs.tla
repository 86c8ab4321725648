---------------------------- MODULE Eip191Proofs ---------------------------
(***************************************************************************)
(* The review of a personal message shows every byte that is signed, for   *)
(* every set of messages and whatever lies behind them in memory.          *)
(***************************************************************************)
EXTENDS Eip191Review, TxFramingProofs, WellFoundedInduction, SequenceTheorems

\* The message of an upload is a byte string.
LEMMA MessageType ==
    ASSUME NEW s \in Seq(Byte), Len(s) >= 4
    PROVE  SubSeq(s, 5, Len(s)) \in Seq(Byte)
  <1>1. \A i \in 5 .. Len(s) : s[i] \in Byte
    OBVIOUS
  <1>2. QED
    BY <1>1, SubSeqProperties

\* A string that has a NUL has a first one.
LEMMA FirstNul ==
    ASSUME NEW bytes \in Seq(Byte), \E k \in 1 .. Len(bytes) : bytes[k] = 0
    PROVE  \E k \in 1 .. Len(bytes) : bytes[k] = 0 /\ \A j \in 1 .. k - 1 : bytes[j] # 0
  <1> DEFINE nuls == {i \in 1 .. Len(bytes) : bytes[i] = 0}
  <1>1. nuls \in SUBSET Nat /\ nuls # {}
    OBVIOUS
  <1>2. PICK k \in nuls : \A m \in nuls : k <= m
    <2> DEFINE less == {p \in Nat \X Nat : p[1] < p[2]}
    <2>1. IsWellFoundedOn(less, Nat)
      BY NatLessThanWellFounded DEF OpToRel
    <2> HIDE DEF less
    <2>2. PICK k \in nuls : \A m \in nuls : ~(<< m, k >> \in less)
      BY <1>1, <2>1, WFMin
    <2>3. ASSUME NEW m \in nuls
          PROVE  k <= m
      <3>1. m \in Nat /\ k \in Nat
        BY <1>1
      <3>2. << m, k >> \in less <=> m < k
        BY <3>1 DEF less
      <3>3. QED
        BY <2>2, <3>1, <3>2
    <2>4. QED
      BY <2>3
  <1>3. ASSUME NEW j \in 1 .. k - 1
        PROVE  bytes[j] # 0
    <2>1. j \in 1 .. Len(bytes) /\ ~(k <= j)
      BY <1>2
    <2>2. j \notin nuls
      BY <2>1, <1>2
    <2>3. QED
      BY <2>1, <2>2
  <1>4. QED
    BY <1>2, <1>3

\* What is shown of a string is a part of it from its start.
LEMMA CStringPrefix ==
    ASSUME NEW bytes \in Seq(Byte)
    PROVE  \E n \in 0 .. Len(bytes) :
              /\ CString(bytes) = SubSeq(bytes, 1, n)
              /\ n < Len(bytes) => bytes[n + 1] = 0
  <1>1. CASE \E k \in 1 .. Len(bytes) : bytes[k] = 0
    <2> DEFINE end == CHOOSE k \in 1 .. Len(bytes) :
                         bytes[k] = 0 /\ \A j \in 1 .. k - 1 : bytes[j] # 0
    <2>1. end \in 1 .. Len(bytes) /\ bytes[end] = 0
      BY <1>1, FirstNul
    <2>2. CString(bytes) = SubSeq(bytes, 1, end - 1)
      BY <1>1 DEF CString
    <2> HIDE DEF end
    <2>3. end - 1 \in 0 .. Len(bytes) /\ bytes[end - 1 + 1] = 0
      BY <2>1
    <2>4. QED
      BY <2>2, <2>3
  <1>2. CASE ~\E k \in 1 .. Len(bytes) : bytes[k] = 0
    <2>1. CString(bytes) = SubSeq(bytes, 1, Len(bytes))
      BY <1>2, SubSeqFull DEF CString
    <2>2. QED
      BY <2>1
  <1>3. QED
    BY <1>1, <1>2

\* A printable message is shown to its end, whatever is behind it.
LEMMA PrintableIsShown ==
    ASSUME NEW m \in Seq(Byte), NEW residue \in Seq(Byte), AllPrintable(m)
    PROVE  /\ CString(m \o residue) \in Seq(Byte)
           /\ Len(m) <= Len(CString(m \o residue))
           /\ m = SubSeq(CString(m \o residue), 1, Len(m))
  <1> DEFINE bytes == m \o residue
  <1>1. /\ bytes \in Seq(Byte) /\ Len(bytes) = Len(m) + Len(residue)
        /\ \A i \in 1 .. Len(m) : bytes[i] = m[i]
    OBVIOUS
  <1> HIDE DEF bytes
  <1>2. PICK n \in 0 .. Len(bytes) : /\ CString(bytes) = SubSeq(bytes, 1, n)
                                     /\ n < Len(bytes) => bytes[n + 1] = 0
    BY <1>1, CStringPrefix
  <1>3. Len(m) <= n
    <2> SUFFICES ASSUME n < Len(m)
                 PROVE  FALSE
      BY <1>1
    <2>1. n + 1 \in 1 .. Len(m) /\ m[n + 1] = 0
      BY <1>1, <1>2
    <2>2. m[n + 1] \in 32 .. 126
      BY <2>1 DEF AllPrintable, IsPrintable
    <2>3. QED
      BY <2>1, <2>2
  <1> DEFINE text == SubSeq(bytes, 1, n)
  <1>4. /\ text \in Seq(Byte) /\ Len(text) = n
        /\ \A i \in 1 .. n : text[i] = bytes[i]
    <2>1. \A i \in 1 .. n : bytes[i] \in Byte
      BY <1>1
    <2>2. QED
      BY <2>1, SubSeqProperties
  <1> HIDE DEF text
  <1>5. m = SubSeq(text, 1, Len(m))
    <2>1. \A i \in 1 .. Len(m) : text[i] \in Byte
      BY <1>3, <1>4
    <2>2. /\ SubSeq(text, 1, Len(m)) \in Seq(Byte)
          /\ Len(SubSeq(text, 1, Len(m))) = Len(m)
          /\ \A i \in 1 .. Len(m) : SubSeq(text, 1, Len(m))[i] = text[i]
      BY <2>1, SubSeqProperties
    <2>3. \A i \in 1 .. Len(m) : text[i] = m[i]
      BY <1>1, <1>3, <1>4
    <2>4. QED
      BY <2>2, <2>3, SeqEqual
  <1>6. QED
    BY <1>2, <1>3, <1>4, <1>5 DEF bytes, text

\* What eip191_msg_parse looks at is the message.
LEMMA ParsedIsMessage ==
    ASSUME NEW s \in Seq(Byte), Len(s) >= 4
    PROVE  eip191_msg_parse(s, FALSE) => AllPrintable(SubSeq(s, 5, Len(s)))
  <1> DEFINE message == SubSeq(s, 5, Len(s))
  <1>1. \A i \in 5 .. Len(s) : s[i] \in Byte
    OBVIOUS
  <1>2. /\ Len(message) = Len(s) - 4
        /\ \A i \in 1 .. Len(s) - 4 : message[i] = s[i + 4]
    <2>1. /\ Len(message) = (IF 5 <= Len(s) THEN Len(s) - 5 + 1 ELSE 0)
          /\ \A i \in 1 .. Len(s) - 5 + 1 : message[i] = s[5 + i - 1]
      BY <1>1, SubSeqProperties
    <2> HIDE DEF message
    <2>2. Len(s) \in Nat /\ Len(message) = Len(s) - 4
      <3>1. Len(s) \in Nat
        OBVIOUS
      <3>2. CASE Len(s) >= 5
        BY <2>1, <3>1, <3>2
      <3>3. CASE Len(s) = 4
        BY <2>1, <3>3
      <3>4. Len(s) >= 5 \/ Len(s) = 4
        <4>1. \A n \in Nat : n >= 4 => n >= 5 \/ n = 4
          OBVIOUS
        <4>2. QED
          BY <3>1, <4>1
      <3>5. QED
        BY <3>1, <3>2, <3>3, <3>4
    <2>3. ASSUME NEW i \in 1 .. Len(s) - 4
          PROVE  message[i] = s[i + 4]
      <3>1. i \in 1 .. Len(s) - 5 + 1 /\ 5 + i - 1 = i + 4
        BY <2>2
      <3>2. QED
        BY <2>1, <3>1
    <2>4. QED
      BY <2>2, <2>3
  <1> HIDE DEF message
  <1>3. QED
    BY <1>2 DEF eip191_msg_parse, AllPrintable, message

-----------------------------------------------------------------------------
\* The message item of a review.
MessageItem == eip191_msg_getItem(1, buffer, behind)

\* A review is of an upload that passed eip191_msg_parse with the setting as
\* it is, it has shown no items but the two of that upload, and the last of
\* them when the user can approve.
ReviewShows ==
    phase = "review" =>
        /\ buffer \in Uploads /\ behind \in Residues
        /\ eip191_msg_parse(buffer, blindsign)
        /\ shown \subseteq {eip191_msg_getItem(0, buffer, behind), MessageItem}
        /\ displayIdx = 1 => MessageItem \in shown
        /\ hashed = NoPreimage

Inv == TypeOK /\ ReviewShows /\ SignedBytesAreShown

\* Both items are items.
LEMMA ItemType ==
    ASSUME NEW s \in Uploads, NEW residue \in Residues, NEW i \in {0, 1}
    PROVE  eip191_msg_getItem(i, s, residue)
              \in [key : {"Sign", "Msg", "Msg hex"}, text : Seq(Byte)]
  <1> DEFINE message == SubSeq(s, 5, Len(s))
  <1>1. message \in Seq(Byte) /\ residue \in Seq(Byte)
    BY MessageType, UploadAssumption
  <1>2. AllPrintable(message) => CString(message \o residue) \in Seq(Byte)
    BY <1>1, PrintableIsShown
  <1>3. << >> \in Seq(Byte)
    OBVIOUS
  <1> HIDE DEF message
  <1>4. QED
    BY <1>1, <1>2, <1>3 DEF eip191_msg_getItem, message

\* The message item starts with the message.
LEMMA MessageItemHoldsMessage ==
    ASSUME NEW s \in Uploads, NEW residue \in Residues
    PROVE  LET item == eip191_msg_getItem(1, s, residue)
               message == SubSeq(s, 5, Len(s))
           IN  /\ item.key \in {"Msg", "Msg hex"}
               /\ Len(message) <= Len(item.text)
               /\ message = SubSeq(item.text, 1, Len(message))
  <1> DEFINE message == SubSeq(s, 5, Len(s))
             text == CString(message \o residue)
  <1>1. message \in Seq(Byte) /\ residue \in Seq(Byte)
    BY MessageType, UploadAssumption
  <1>2. AllPrintable(message) => /\ Len(message) <= Len(text)
                                 /\ message = SubSeq(text, 1, Len(message))
    BY <1>1, PrintableIsShown
  <1>3. message = SubSeq(message, 1, Len(message)) /\ Len(message) <= Len(message)
    BY <1>1, SubSeqFull
  <1>4. eip191_msg_getItem(1, s, residue) =
           IF ~AllPrintable(message) THEN [key |-> "Msg hex", text |-> message]
                                     ELSE [key |-> "Msg", text |-> text]
    BY DEF eip191_msg_getItem
  <1> HIDE DEF message, text
  <1> DEFINE item == eip191_msg_getItem(1, s, residue)
  <1> HIDE DEF item
  <1>5. /\ item.key \in {"Msg", "Msg hex"}
        /\ Len(message) <= Len(item.text)
        /\ message = SubSeq(item.text, 1, Len(message))
    <2>1. CASE AllPrintable(message)
      <3>1. item = [key |-> "Msg", text |-> text]
        BY <2>1, <1>4 DEF item
      <3>2. item.key = "Msg" /\ item.text = text
        BY <3>1
      <3>3. QED
        BY <2>1, <3>2, <1>2
    <2>2. CASE ~AllPrintable(message)
      <3>1. item = [key |-> "Msg hex", text |-> message]
        BY <2>2, <1>4 DEF item
      <3>2. item.key = "Msg hex" /\ item.text = message
        BY <3>1
      <3>3. QED
        BY <3>2, <1>3
    <2>3. QED
      BY <2>1, <2>2
  <1>6. QED
    BY <1>5 DEF message, item

LEMMA InitInv == Init => Inv
  <1> SUFFICES ASSUME Init
               PROVE  Inv
    OBVIOUS
  <1>1. hashed \in [length : Nat, data : Seq(Byte)]
    BY DEF Init, NoPreimage
  <1>2. QED
    BY <1>1 DEF Init, Inv, TypeOK, ReviewShows, SignedBytesAreShown

LEMMA NextInv == Inv /\ [Next]_vars => Inv'
  <1> SUFFICES ASSUME Inv, [Next]_vars
               PROVE  Inv'
    OBVIOUS
  <1> USE DEF Inv, MessageItem
  <1>1. ASSUME NEW s \in Uploads, NEW residue \in Residues,
               HandleSignEip191(s, residue)
        PROVE  Inv'
    <2>1. NoPreimage \in [length : Nat, data : Seq(Byte)]
      BY DEF NoPreimage
    <2>2. eip191_msg_getItem(0, s, residue)
             \in [key : {"Sign", "Msg", "Msg hex"}, text : Seq(Byte)]
      BY ItemType
    <2>3. TypeOK'
      BY <1>1, <2>1, <2>2 DEF HandleSignEip191, TypeOK
    <2>4. ReviewShows'
      BY <1>1 DEF HandleSignEip191, ReviewShows
    <2>5. SignedBytesAreShown'
      BY <1>1 DEF HandleSignEip191, SignedBytesAreShown
    <2>6. QED
      BY <2>3, <2>4, <2>5
  <1>2. ASSUME NEW i \in {displayIdx - 1, displayIdx + 1}, ShowItem(i)
        PROVE  Inv'
    <2>1. i \in {0, 1}
      BY <1>2 DEF ShowItem, eip191_msg_getNumItems
    <2>2. eip191_msg_getItem(i, buffer, behind)
             \in [key : {"Sign", "Msg", "Msg hex"}, text : Seq(Byte)]
      BY <1>2, <2>1, ItemType DEF ShowItem, ReviewShows
    <2>3. TypeOK'
      BY <1>2, <2>1, <2>2 DEF ShowItem, TypeOK
    <2>4. ReviewShows'
      BY <1>2, <2>1 DEF ShowItem, ReviewShows
    <2>5. SignedBytesAreShown'
      BY <1>2 DEF ShowItem, ReviewShows, SignedBytesAreShown
    <2>6. QED
      BY <2>3, <2>4, <2>5
  <1>3. ASSUME Approve
        PROVE  Inv'
    <2>1. buffer \in Uploads /\ behind \in Residues /\ MessageItem \in shown
      BY <1>3 DEF Approve, ReviewShows, eip191_msg_getNumItems
    <2>2. buffer \in Seq(Byte) /\ Len(buffer) >= 4
      BY <2>1, UploadAssumption
    <2>3. /\ Preimage(buffer).data = SubSeq(buffer, 5, Len(buffer))
          /\ Preimage(buffer) \in [length : Nat, data : Seq(Byte)]
      <3>1. U4BE(buffer) \in Nat
        <4>1. /\ buffer[1] \in Byte /\ buffer[2] \in Byte
              /\ buffer[3] \in Byte /\ buffer[4] \in Byte
          BY <2>2
        <4>2. QED
          BY <4>1, ByteRange DEF U4BE
      <3>2. QED
        BY <2>2, <3>1, MessageType DEF Preimage
    <2>4. TypeOK'
      BY <1>3, <2>3 DEF Approve, TypeOK
    <2>5. ReviewShows'
      BY <1>3 DEF Approve, ReviewShows
    <2>6. SignedBytesAreShown'
      <3>1. LET message == SubSeq(buffer, 5, Len(buffer))
            IN  /\ MessageItem.key \in {"Msg", "Msg hex"}
                /\ Len(message) <= Len(MessageItem.text)
                /\ message = SubSeq(MessageItem.text, 1, Len(message))
        BY <2>1, MessageItemHoldsMessage
      <3>2. shown' = shown /\ hashed'.data = SubSeq(buffer, 5, Len(buffer))
        BY <1>3, <2>3 DEF Approve
      <3>3. QED
        BY <2>1, <3>1, <3>2 DEF SignedBytesAreShown
    <2>7. QED
      BY <2>4, <2>5, <2>6
  <1>4. ASSUME Leave
        PROVE  Inv'
    BY <1>4 DEF Leave, TypeOK, ReviewShows, SignedBytesAreShown
  <1>5. ASSUME ToggleBlindsign
        PROVE  Inv'
    BY <1>5 DEF ToggleBlindsign, TypeOK, ReviewShows, SignedBytesAreShown
  <1>6. ASSUME UNCHANGED vars
        PROVE  Inv'
    BY <1>6 DEF vars, TypeOK, ReviewShows, SignedBytesAreShown
  <1>7. QED
    BY <1>1, <1>2, <1>3, <1>4, <1>5, <1>6 DEF Next

\* The invariant holds in every reachable state (evm_eip191.c).
THEOREM ReviewedMessage == Spec => []Inv
  BY InitInv, NextInv, PTL DEF Spec

\* Every variable keeps its type.
THEOREM TypeCorrect == Spec => []TypeOK
  <1>1. Inv => TypeOK
    BY DEF Inv
  <1>2. QED
    BY <1>1, ReviewedMessage, PTL

\* Every byte that is hashed was shown, in its place (eip191_msg_getItem and
\* eip191_hash_message read one buffer).
THEOREM SignedBytesWereShown == Spec => []SignedBytesAreShown
  <1>1. Inv => SignedBytesAreShown
    BY DEF Inv
  <1>2. QED
    BY <1>1, ReviewedMessage, PTL

\* A message that cannot be printed is reviewed only in blind-signing mode,
\* and only in hex (eip191_msg_parse, eip191_msg_getItem).
THEOREM BlindMessagesNeedMode == Spec => []BlindMessageNeedsMode
  <1>1. Inv => BlindMessageNeedsMode
    <2> DEFINE message == SubSeq(buffer, 5, Len(buffer))
    <2> SUFFICES ASSUME Inv, phase = "review", ~AllPrintable(message)
                 PROVE  blindsign /\ \A item \in shown : item.key # "Msg"
      BY DEF BlindMessageNeedsMode
    <2>1. /\ buffer \in Seq(Byte) /\ Len(buffer) >= 4
          /\ eip191_msg_parse(buffer, blindsign)
          /\ shown \subseteq {eip191_msg_getItem(0, buffer, behind), MessageItem}
      BY UploadAssumption DEF Inv, ReviewShows
    <2>2. blindsign
      BY <2>1, ParsedIsMessage DEF Inv, TypeOK
    <2>3. /\ eip191_msg_getItem(0, buffer, behind).key = "Sign"
          /\ MessageItem.key = "Msg hex"
      BY DEF MessageItem, eip191_msg_getItem
    <2>4. QED
      BY <2>1, <2>2, <2>3
  <1>2. QED
    BY <1>1, ReviewedMessage, PTL
=============================================================================
