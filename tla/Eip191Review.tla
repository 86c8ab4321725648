---------------------------- MODULE Eip191Review ---------------------------
(***************************************************************************)
(* The review of a personal message (evm/evm_eip191.c) once its upload is  *)
(* complete: it is checked for bytes that cannot be printed, shown in two  *)
(* items, and hashed when the user approves.  The buffer holds the four    *)
(* bytes of the declared length and the message; behind it lies whatever   *)
(* earlier uploads left in memory.                                         *)
(*                                                                         *)
(* The view (zxlib) behaves as in EthReview.                               *)
(***************************************************************************)
EXTENDS TxFraming

CONSTANTS
    Uploads,    \* what a completed upload may leave in the buffer
    Residues    \* what may lie behind it

\* An upload under review holds at least its length: SeiApdu has the others.
ASSUME UploadAssumption ==
    /\ Uploads \subseteq Seq(Byte)
    /\ \A u \in Uploads : Len(u) >= 4
    /\ Residues \subseteq Seq(Byte)

VARIABLES
    buffer,         \* the transaction buffer
    behind,         \* the bytes behind it
    blindsign,      \* app_mode_blindsign()
    phase,          \* what the device is doing
    displayIdx,     \* the item on the screen
    shown,          \* history: the items shown in this review
    hashed          \* what the last signature was made of

vars == << buffer, behind, blindsign, phase, displayIdx, shown, hashed >>

\* The declared length and the message of an upload; also what is hashed
\* behind "Ethereum Signed Message:".
Preimage(s) == [length |-> U4BE(s), data |-> SubSeq(s, 5, Len(s))]

NoPreimage == [length |-> 0, data |-> << >>]

TypeOK ==
    /\ buffer \in Uploads \cup {<< >>}
    /\ behind \in Residues \cup {<< >>}
    /\ blindsign \in BOOLEAN
    /\ phase \in {"idle", "review", "notice"}
    /\ displayIdx \in {0, 1}
    /\ shown \subseteq [key : {"Sign", "Msg", "Msg hex"}, text : Seq(Byte)]
    /\ hashed \in [length : Nat, data : Seq(Byte)]

Init ==
    /\ buffer = << >>
    /\ behind = << >>
    /\ blindsign \in BOOLEAN
    /\ phase = "idle"
    /\ displayIdx = 0
    /\ shown = {}
    /\ hashed = NoPreimage

-----------------------------------------------------------------------------
\* Mutant of IsPrintable: a NUL byte, which ends a string, is printed.
IsPrintableOrNul(b) == b \in 32 .. 126 \/ b = 0

\* IS_PRINTABLE
IsPrintable(b) == b \in 32 .. 126

AllPrintable(m) == \A i \in 1 .. Len(m) : IsPrintable(m[i])

\* Mutant of eip191_msg_parse: the last byte is not looked at.
ParseAllButLast(s, blind) ==
    blind \/ \A i \in 5 .. Len(s) - 1 : IsPrintable(s[i])

\* eip191_msg_parse: a byte that cannot be printed needs blind signing.
eip191_msg_parse(s, blind) ==
    blind \/ \A i \in 5 .. Len(s) : IsPrintable(s[i])

\* pageString without a length shows the bytes up to the first NUL.
CString(bytes) ==
    IF \E k \in 1 .. Len(bytes) : bytes[k] = 0
    THEN LET end == CHOOSE k \in 1 .. Len(bytes) :
                       bytes[k] = 0 /\ \A j \in 1 .. k - 1 : bytes[j] # 0
         IN  SubSeq(bytes, 1, end - 1)
    ELSE bytes

\* Mutant of eip191_msg_getNumItems.
ThreeItems == 3

eip191_msg_getNumItems == 2

\* eip191_msg_getItem: an unprintable message is shown in hex, by its length;
\* a printable one as a string.
eip191_msg_getItem(idx, s, residue) ==
    LET message == SubSeq(s, 5, Len(s))
    IN  IF idx = 0
        THEN [key |-> "Sign", text |-> << >>]
        ELSE IF ~AllPrintable(message)
        THEN [key |-> "Msg hex", text |-> message]
        ELSE [key |-> "Msg", text |-> CString(message \o residue)]

\* handleSignEip191 behind the last chunk.
HandleSignEip191(s, residue) ==
    /\ phase = "idle"
    /\ buffer' = s
    /\ behind' = residue
    /\ hashed' = NoPreimage
    /\ displayIdx' = 0
    /\ \/ /\ eip191_msg_parse(s, blindsign)
          /\ phase' = "review"
          /\ shown' = {eip191_msg_getItem(0, s, residue)}
       \/ /\ ~eip191_msg_parse(s, blindsign)
          /\ phase' = "notice"
          /\ shown' = {}
    /\ UNCHANGED blindsign

\* The view asks for an item.
ShowItem(i) ==
    /\ phase = "review"
    /\ i \in 0 .. eip191_msg_getNumItems - 1
    /\ displayIdx' = i
    /\ shown' = shown \cup {eip191_msg_getItem(i, buffer, behind)}
    /\ UNCHANGED << buffer, behind, blindsign, phase, hashed >>

\* app_sign_eip191 hashes the buffer when the user approves, behind the last
\* item.
Approve ==
    /\ phase = "review"
    /\ displayIdx = eip191_msg_getNumItems - 1
    /\ phase' = "idle"
    /\ hashed' = Preimage(buffer)
    /\ UNCHANGED << buffer, behind, blindsign, displayIdx, shown >>

\* The review is rejected, or the notice about blind signing left.
Leave ==
    /\ phase \in {"review", "notice"}
    /\ phase' = "idle"
    /\ UNCHANGED << buffer, behind, blindsign, displayIdx, shown, hashed >>

ToggleBlindsign ==
    /\ phase = "idle"
    /\ blindsign' = ~blindsign
    /\ UNCHANGED << buffer, behind, phase, displayIdx, shown, hashed >>

Next ==
    \/ \E s \in Uploads, residue \in Residues : HandleSignEip191(s, residue)
    \/ \E i \in {displayIdx - 1, displayIdx + 1} : ShowItem(i)
    \/ Approve
    \/ Leave
    \/ ToggleBlindsign

Spec == Init /\ [][Next]_vars

-----------------------------------------------------------------------------
\* Every byte that is hashed was on the screen, in its place: the text of the
\* message item, in hex or not, starts with the message (eip191_msg_getItem
\* against eip191_hash_message).
SignedBytesAreShown ==
    hashed # NoPreimage =>
        \E item \in shown :
            /\ item.key \in {"Msg", "Msg hex"}
            /\ Len(hashed.data) <= Len(item.text)
            /\ hashed.data = SubSeq(item.text, 1, Len(hashed.data))

\* A message with a byte that cannot be printed is reviewed only with blind
\* signing switched on, and in hex (eip191_msg_parse).
BlindMessageNeedsMode ==
    phase = "review" /\ ~AllPrintable(SubSeq(buffer, 5, Len(buffer))) =>
        /\ blindsign
        /\ \A item \in shown : item.key # "Msg"

\* "print message" (evm_eip191.c:83): the text shown as Msg is the message,
\* and nothing of what lies behind it.
MessageShownIsMessage ==
    phase = "review" =>
        \A item \in shown : item.key = "Msg" => item.text = SubSeq(buffer, 5, Len(buffer))
=============================================================================
