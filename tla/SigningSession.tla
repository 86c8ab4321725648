--------------------------- MODULE SigningSession ---------------------------
(***************************************************************************)
(* What the device promises a host and its user, without buffers, flags    *)
(* and path variables: a session collects the chunks of one document for   *)
(* one key; the document is put on the screen as a whole; a signature is   *)
(* the answer to an approval, of that document with that key, and of       *)
(* nothing else.                                                           *)
(*                                                                         *)
(* A host that mixes sessions, or sends what a session cannot hold, spoils *)
(* its session.  What is shown and signed in a spoilt session is not       *)
(* described, but it is still signed only when approved.                   *)
(***************************************************************************)
EXTENDS Sequences

CONSTANTS
    Chunks,     \* the byte strings a chunk may bring
    Kinds,      \* the kinds of documents
    Keys,       \* the keys a document may be signed with
    NoKey,
    Nothing,    \* no screen, or no signature
    Aside,      \* a screen whose approval signs nothing
    Spoilt      \* the document of a spoilt session, whatever it is

VARIABLES
    session,    \* [kind, key, sent, clean, open] of the latest session
    offer,      \* what the screen offers to approve
    signed      \* the document whose signature is the answer, or Nothing

vars == << session, offer, signed >>

\* What the session stands for: the bytes of its chunks, in order.
Document(s) ==
    IF s.clean THEN [kind |-> s.kind, key |-> s.key, bytes |-> s.sent] ELSE Spoilt

Init ==
    /\ session = [kind |-> "none", key |-> NoKey, sent |-> << >>,
                  clean |-> TRUE, open |-> FALSE]
    /\ offer = Nothing
    /\ signed = Nothing

\* A chunk may complete the document, which is then offered as a whole, for
\* one of the keys; or it may lead to a notice.
Present ==
    \/ offer' \in {Nothing, Aside}
    \/ /\ offer' = Document(session')
       /\ session'.clean => session'.key \in Keys

\* A command that begins a session, with a first chunk or none, takes the
\* place of the one before.
Begin ==
    /\ offer = Nothing
    /\ session'.kind \in Kinds
    /\ session'.sent \in Chunks \cup {<< >>}
    /\ session'.open => session'.key \in Keys
    /\ Present
    /\ signed' = Nothing

\* A chunk adds to the session that is open, or spoils it.
Extend ==
    /\ offer = Nothing
    /\ session'.kind = session.kind /\ session'.key = session.key
    /\ session'.open => session'.key \in Keys
    /\ session'.clean =>
          /\ session.clean /\ session.open
          /\ \E chunk \in Chunks : session'.sent = session.sent \o chunk
    /\ Present
    /\ signed' = Nothing

\* Any other command: it may end the session by taking its key away, and may
\* show something that is not a document.
Consult ==
    /\ offer = Nothing
    /\ \A part \in {"kind", "sent", "clean"} : session'[part] = session[part]
    /\ \/ session'.key = session.key /\ session'.open = session.open
       \/ session'.key = NoKey /\ ~session'.open
    /\ offer' \in {Nothing, Aside}
    /\ signed' = Nothing

Approve ==
    /\ offer \notin {Nothing, Aside}
    /\ offer' = Nothing
    /\ signed' = offer
    /\ UNCHANGED session

\* Nothing is signed when the user declines, or when signing fails.
Decline ==
    /\ offer # Nothing
    /\ offer' = Nothing
    /\ signed' = Nothing
    /\ UNCHANGED session

Next == Begin \/ Extend \/ Consult \/ Approve \/ Decline

Spec == Init /\ [][Next]_vars

\* The user answers what is on the screen.
FairSpec == Spec /\ WF_vars(Approve \/ Decline)
=============================================================================
