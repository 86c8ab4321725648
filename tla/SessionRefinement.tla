-------------------------- MODULE SessionRefinement --------------------------
(***************************************************************************)
(* The command layer implements the signing session.  The session is what  *)
(* the host sent (the history variables upload and asked); the offer is    *)
(* what the callback on the screen would sign if it ran now, read from the *)
(* buffer and the path variables; the signature is what it did sign.       *)
(***************************************************************************)
EXTENDS SeiApduProperties

KeyOf(kind) == IF kind = "SIGN" THEN asked.cosmos
               ELSE IF kind \in Evm THEN asked.evm ELSE NoPath

OpenFlag(kind) == (kind = "SIGN" /\ cosmosInit) \/ (kind \in Evm /\ evmInit)

Clean == upload.flaws = {}

SessionOf ==
    [kind |-> upload.by, key |-> KeyOf(upload.by), sent |-> upload.sent,
     clean |-> Clean, open |-> OpenFlag(upload.by)]

\* The callback decides the kind of signature and the path it is made with.
KindOf(callback) == IF callback = "app_sign" THEN "SIGN"
                    ELSE IF callback = "app_sign_eth" THEN "SIGN_ETH"
                    ELSE "SIGN_PERSONAL_MESSAGE"

PathOf(callback) == IF callback = "app_sign" THEN hdPath ELSE hdPathEth

\* No document, but one of the three things a screen or an answer may hold.
NoDocument(what) == [kind |-> what, key |-> NoPath, bytes |-> << >>]

OfferOf ==
    IF screen = "none" THEN NoDocument("nothing")
    ELSE IF screen \notin SignScreens THEN NoDocument("aside")
    ELSE IF ~Clean THEN NoDocument("spoilt")
    ELSE [kind |-> KindOf(screen), key |-> PathOf(screen), bytes |-> buffer]

\* While a review is on the screen the I/O buffer is not an answer.
SignedOf ==
    IF async \/ answer.kind # "signature" THEN NoDocument("nothing")
    ELSE IF ~Clean THEN NoDocument("spoilt")
    ELSE [kind |-> upload.by, key |-> answer.path, bytes |-> answer.data]

Session == INSTANCE SigningSession WITH
    Chunks <- {c.body : c \in Commands},
    Kinds <- {"SIGN"} \cup Evm, Keys <- Mainnet, NoKey <- NoPath,
    Nothing <- NoDocument("nothing"), Aside <- NoDocument("aside"),
    Spoilt <- NoDocument("spoilt"),
    session <- SessionOf, offer <- OfferOf, signed <- SignedOf

\* Every behaviour of the handlers and callbacks is one of the signing
\* session: a document is offered only when its own chunks have all arrived,
\* with the key its first chunk named, and a signature is the answer to the
\* approval of just that document; and every offer is answered.
SessionImplemented == Session!FairSpec
=============================================================================
