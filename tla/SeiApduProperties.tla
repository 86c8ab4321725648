------------------------- MODULE SeiApduProperties -------------------------
(***************************************************************************)
(* What the command layer promises: the safety, action and liveness        *)
(* properties of SeiApdu that the runs check and SeiApduProofs proves.     *)
(***************************************************************************)
EXTENDS SeiApdu

SignScreens == {"app_sign", "app_sign_eth", "app_sign_eip191"}

\* The application owes the host an answer exactly while a screen waits for
\* the user.  A flag without a screen would hang the host; a screen without
\* the flag would answer one command twice (apdu_handler.c, actions.h).
AnswerOwedIffScreen == async <=> screen # "none"

\* An upload in progress, and a review that will sign, uses the path that the
\* INIT or FIRST chunk of that upload carried, although the path variables are
\* written before they are validated and by the address commands as well
\* (extractHDPath, extract_eth_path).
PathOfUpload ==
    /\ cosmosInit \/ screen = "app_sign" =>
          hdPath = asked.cosmos /\ hdPath \in Mainnet
    /\ evmInit \/ screen \in {"app_sign_eth", "app_sign_eip191"} =>
          /\ hdPathEth = asked.evm /\ hdPathEth \in Mainnet
          /\ hdPathEthLen = PathLen[hdPathEth]

\* A Cosmos review shows every byte sent since INIT, in order and none twice,
\* unless an upload of another instruction took the buffer over.
CosmosReviewIsUpload ==
    screen = "app_sign" /\ "foreign" \notin upload.flaws =>
        /\ upload.by = "SIGN"
        /\ "refused" \notin upload.flaws
        /\ buffer = upload.sent

\* An Ethereum review shows the bytes sent since FIRST, without those behind
\* the end of the transaction, provided the chunks are all of this upload and
\* the first one held the whole RLP header.
EthReviewIsUpload ==
    screen = "app_sign_eth" /\ upload.flaws \subseteq {"excess", "refused"} =>
        /\ upload.by = "SIGN_ETH"
        /\ "refused" \notin upload.flaws
        /\ Len(buffer) <= Len(upload.sent)
        /\ buffer = SubSeq(upload.sent, 1, Len(buffer))

\* The length an EIP-191 message declares (a uint32_t), which is hashed with it,
\* is the length of the message shown, when its chunks were all taken and its own.
Eip191ReviewIsUpload ==
    screen = "app_sign_eip191" /\ upload.flaws = {} =>
        /\ upload.by = "SIGN_PERSONAL_MESSAGE"
        /\ buffer = upload.sent
        /\ Len(buffer) >= 4
        /\ U4BE(buffer) % U32 = Len(buffer) - 4

\* A review of a Cosmos transaction or a message ends its upload: no later
\* chunk can extend or repeat it without a new INIT or FIRST.
ReviewEndsUpload ==
    /\ screen = "app_sign" => ~cosmosInit
    /\ screen = "app_sign_eip191" => ~evmInit

\* An address is given out or shown for the path its command carried, if it
\* carried one: the path variable is shared with the uploads, and the address
\* lies in the I/O buffer until the user has confirmed it.
AddressIsOfCommand ==
    answer.kind = "address" /\ answer.asked # NoPath => answer.path = answer.asked

\* A signature is over the bytes the host uploaded, with the path it uploaded
\* them with, and of the kind of upload it was: the callback reads the buffer
\* and the path variable long after the chunks were handled (actions.h).
SignatureIsOfUpload ==
    answer.kind = "signature" /\ upload.flaws = {} /\ ~async =>
        /\ answer.data = upload.sent
        /\ answer.path = IF upload.by = "SIGN" THEN asked.cosmos ELSE asked.evm

-----------------------------------------------------------------------------
(* The inductive invariant behind the properties above.  EvmScreens are    *)
(* the reviews that sign with the EVM path.                                *)

EvmScreens == {"app_sign_eth", "app_sign_eip191"}

CosmosHolds == cosmosInit \/ screen = "app_sign"
EvmHolds    == evmInit \/ screen \in EvmScreens

\* While an unflawed upload is in progress or under review, the shared buffer
\* holds exactly what it sent: this is what both flags have to protect.
BufferIsUpload ==
    /\ upload.flaws = {}
    /\ \/ upload.by = "SIGN" /\ CosmosHolds
       \/ upload.by \in Evm /\ EvmHolds
    => buffer = upload.sent

\* A review is of the upload that last reset the buffer, and a Cosmos upload
\* that was refused or taken over is neither continued nor reviewed.
ReviewOfUpload ==
    /\ screen = "app_sign" /\ "foreign" \notin upload.flaws => upload.by = "SIGN"
    /\ upload.by = "SIGN" /\ "foreign" \notin upload.flaws /\ CosmosHolds =>
          upload.flaws = {}
    /\ screen = "app_sign_eth" /\ "foreign" \notin upload.flaws =>
          upload.by = "SIGN_ETH"
    /\ screen = "app_sign_eip191" /\ "foreign" \notin upload.flaws =>
          upload.by = "SIGN_PERSONAL_MESSAGE"

\* bytes_to_read is what the declared length leaves, in uint32_t arithmetic.
BytesToReadIsRest ==
    /\ upload.flaws = {} /\ upload.by = "SIGN_PERSONAL_MESSAGE" /\ EvmHolds =>
          /\ Len(buffer) >= 4
          /\ bytesToRead = Sub32(U4BE(buffer) % U32, Len(buffer) - 4)
    /\ screen = "app_sign_eip191" => bytesToRead = 0

\* The address under review lies in the I/O buffer.
AddressUnderReview == screen = "app_reply_address" => answer.kind = "address"

SafetyInv ==
    /\ TypeOK
    /\ AnswerOwedIffScreen /\ AddressUnderReview /\ AddressIsOfCommand
    /\ SignatureIsOfUpload
    /\ PathOfUpload /\ ReviewEndsUpload
    /\ BufferIsUpload /\ ReviewOfUpload /\ BytesToReadIsRest

-----------------------------------------------------------------------------
\* Every command is answered, once the user answers what is on the screen.
EveryCommandAnswered == async ~> ~async

=============================================================================
