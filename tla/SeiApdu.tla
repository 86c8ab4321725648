------------------------------ MODULE SeiApdu ------------------------------
(***************************************************************************)
(* The command layer of the Sei Ledger application: the dispatcher, the    *)
(* three chunked uploads (Cosmos, Ethereum, EIP-191), the address          *)
(* commands, the review the user is asked for and the answers to the host. *)
(*                                                                         *)
(* The Cosmos handlers (apdu_handler.c) and the EVM handlers               *)
(* (evm/apdu_handler_evm.c) each have their own static "tx_initialized"    *)
(* flag, here cosmosInit and evmInit, over one shared transaction buffer;  *)
(* the Ethereum and EIP-191 uploads share the second flag.                 *)
(*                                                                         *)
(* One step handles one whole command, as handleApdu does, or one answer   *)
(* of the user.  While an answer is owed after a review (IO_ASYNCH_REPLY)  *)
(* the transport delivers no further command.                              *)
(***************************************************************************)
EXTENDS TxFraming

CONSTANTS
    Paths,          \* the derivation paths a host may send
    NoPath,         \* path variables no host has set: zeroed, or overwritten
    PathLen,        \* the path_len byte an Ethereum command sends for a path
    Mainnet,        \* the paths that start with 44'/60'
    Commands,       \* the commands a host may send
    Residues,       \* byte strings that may lie behind the last valid byte
    Capacity        \* size of the transaction buffer

OFFSET_DATA      == 5
APDU_MIN_LENGTH  == 5
HDPATH_LEN_DEFAULT == 5

P1_INIT == 0
P1_ADD  == 1
P1_LAST == 2
P1_ETH_FIRST == 0
P1_ETH_MORE  == 128

Evm == {"SIGN_ETH", "SIGN_PERSONAL_MESSAGE"}

Instructions ==
    {"GET_VERSION", "GET_ADDR", "GET_ADDR_ETH", "SIGN", "OTHER"} \cup Evm

\* The number of path bytes in front of the payload of a command.
PathBytes(c) ==
    IF c.ins \in {"GET_ADDR", "SIGN"} THEN 4 * HDPATH_LEN_DEFAULT
                                      ELSE 1 + 4 * PathLen[c.path]

\* The commands that carry a path in front of their payload.
CarriesPath(c) ==
    \/ c.ins \in {"GET_ADDR", "GET_ADDR_ETH"}
    \/ c.ins = "SIGN" /\ c.p1 = P1_INIT
    \/ c.ins \in Evm /\ c.p1 = P1_ETH_FIRST

\* rx is the number of bytes received; body is what follows the path, if the
\* command carries one, and the whole data field otherwise.
Command ==
    [cla : {"CLA", "CLA_ETH", "OTHER"}, ins : Instructions,
     p1 : Byte, p2 : Byte, rx : 0 .. U32 - 1, path : Paths, body : Seq(Byte)]

ASSUME CommandAssumption ==
    /\ Commands \subseteq Command
    /\ \A c \in Commands :
          LET front == OFFSET_DATA + (IF CarriesPath(c) THEN PathBytes(c) ELSE 0)
          IN  Len(c.body) = IF c.rx >= front THEN c.rx - front ELSE 0
    /\ \A c \in Commands : c.ins = "GET_ADDR_ETH" => c.cla = "CLA_ETH"

ASSUME PathAssumption ==
    /\ PathLen \in [Paths -> Byte]
    /\ Mainnet \subseteq Paths
    /\ NoPath \notin Paths

\* Ten bytes cover the longest RLP header: version, marker, eight of length.
ASSUME BufferAssumption ==
    /\ Capacity \in Nat
    /\ Capacity < U32
    /\ Residues \subseteq Seq(Byte)
    /\ \A r \in Residues : Len(r) >= 10

Statuses ==
    {"OK", "WRONG_LENGTH", "DATA_INVALID", "OUTPUT_BUFFER_TOO_SMALL",
     "TX_NOT_INITIALIZED", "INVALIDP1P2", "CLA_NOT_SUPPORTED",
     "INS_NOT_SUPPORTED", "COMMAND_NOT_ALLOWED", "EXECUTION_ERROR",
     "SIGN_VERIFY_ERROR"}

VARIABLES
    buffer,         \* the bytes of the transaction buffer (common/tx.c)
    cosmosInit,     \* tx_initialized of apdu_handler.c
    evmInit,        \* tx_initialized of evm/apdu_handler_evm.c
    bytesToRead,    \* bytes_to_read
    hdPath,         \* the path of the Cosmos commands
    hdPathEth,      \* the path of the EVM commands ...
    hdPathEthLen,   \* ... and hdPathEth_len
    screen,         \* the callback of the review on the screen, or "none"
    async,          \* IO_ASYNCH_REPLY: the answer is still owed
    answer,         \* the answer in the I/O buffer: sent, unless async is set
    upload,         \* history: the upload that last reset the buffer
    asked           \* history: the path the latest accepted INIT and FIRST
                    \* carried, until an address command comes in between

evmVars     == << evmInit, bytesToRead, hdPathEth, hdPathEthLen >>
cosmosVars  == << cosmosInit, hdPath >>
vars == << buffer, cosmosInit, evmInit, bytesToRead, hdPath, hdPathEth,
           hdPathEthLen, screen, async, answer, upload, asked >>

Callbacks == {"app_sign", "app_sign_eth", "app_sign_eip191",
              "app_reply_address", "app_reply_error"}

Flaws == {"foreign",    \* a chunk of another instruction went into the buffer
          "refused",    \* a chunk of this upload was refused
          "excess",     \* a chunk brought more bytes than were missing
          "cut"}        \* the first chunk did not hold the whole header

Answers ==
    [status : Statuses, kind : {"status", "address", "signature"},
     path : Paths \cup {NoPath}, asked : Paths \cup {NoPath}, data : Seq(Byte)]

Uploads ==
    [by : {"none", "SIGN"} \cup Evm, sent : Seq(Byte), flaws : SUBSET Flaws]

TypeOK ==
    /\ buffer \in Seq(Byte) /\ Len(buffer) <= Capacity
    /\ cosmosInit \in BOOLEAN
    /\ evmInit \in BOOLEAN
    /\ bytesToRead \in 0 .. U32 - 1
    /\ hdPath \in Paths \cup {NoPath}
    /\ hdPathEth \in Paths \cup {NoPath}
    /\ hdPathEthLen \in 0 .. U32 - 1
    /\ screen \in Callbacks \cup {"none"}
    /\ async \in BOOLEAN
    /\ answer \in Answers
    /\ upload \in Uploads
    /\ asked \in [cosmos : Paths \cup {NoPath}, evm : Paths \cup {NoPath}]

Status(s) == [status |-> s, kind |-> "status", path |-> NoPath,
              asked |-> NoPath, data |-> << >>]

\* The address of a path, and the path the command asked for (history).
Address(path, command) ==
    [status |-> "OK", kind |-> "address", path |-> path, asked |-> command,
     data |-> << >>]

Init ==
    /\ buffer = << >>
    /\ cosmosInit = FALSE /\ hdPath = NoPath
    /\ evmInit = FALSE /\ bytesToRead = 0
    /\ hdPathEth = NoPath /\ hdPathEthLen = 0
    /\ screen = "none" /\ async = FALSE
    /\ answer = Status("OK")
    /\ upload = [by |-> "none", sent |-> << >>, flaws |-> {}]
    /\ asked = [cosmos |-> NoPath, evm |-> NoPath]

-----------------------------------------------------------------------------
(* Answers and reviews.                                                    *)

\* THROW(s) with no flag set: the main loop sends the answer at once.
Throw(s) ==
    /\ answer' = Status(s)
    /\ async' = FALSE
    /\ UNCHANGED screen

\* Mutant of Review: the handler forgets flags |= IO_ASYNCH_REPLY.
ReviewWithoutFlag(callback) ==
    /\ screen' = callback
    /\ async' = FALSE
    /\ UNCHANGED answer

\* view_..._show and flags |= IO_ASYNCH_REPLY: the callback will answer.
Review(callback) ==
    /\ screen' = callback
    /\ async' = TRUE
    /\ UNCHANGED answer

\* Mutant of ReplyAddress: the view is given the callback of a signature.
ReplyAddressBySigning(c, path, command) ==
    /\ answer' = Address(path, command)
    /\ async' = (c.p1 # 0)
    /\ screen' = IF c.p1 # 0 THEN "app_sign_eth" ELSE screen

\* app_fill_(eth_)address puts the address into the I/O buffer; it is sent at
\* once or, with a nonzero P1, when the user has confirmed it.
ReplyAddress(c, path, command) ==
    /\ answer' = Address(path, command)
    /\ async' = (c.p1 # 0)
    /\ screen' = IF c.p1 # 0 THEN "app_reply_address" ELSE screen

-----------------------------------------------------------------------------
(* The transaction buffer (zxlib buffering: all of a chunk or nothing) and *)
(* the history of the upload.                                              *)

\* Mutant of Fits: only what is already in the buffer is compared.
FitsWithoutChunk(held, bytes) == Len(held) <= Capacity

Fits(held, bytes) == Len(held) + Len(bytes) <= Capacity

\* Mutant of Take: the last n bytes.
TakeLast(bytes, n) == SubSeq(bytes, Len(bytes) - n + 1, Len(bytes))

\* The first n bytes of a chunk.
Take(bytes, n) == SubSeq(bytes, 1, n)

\* tx_initialize and tx_reset by an INIT or FIRST chunk.
Begin(c, sent, flaws) ==
    upload' = [by |-> c.ins, sent |-> sent, flaws |-> flaws]

\* Another chunk reached the upload.  Once a chunk is foreign or refused, what
\* was sent no longer describes the buffer; after an excess it is complete.
Continue(c, flaws) ==
    LET all == upload.flaws \cup flaws
               \cup (IF c.ins = upload.by THEN {} ELSE {"foreign"})
    IN  upload' = [upload EXCEPT
            !.flaws = all,
            !.sent  = IF all \cap {"foreign", "refused"} # {} THEN << >>
                      ELSE IF "excess" \in upload.flaws THEN @
                      ELSE @ \o c.body]

-----------------------------------------------------------------------------
(* Cosmos: apdu_handler.c.                                                 *)

HDPathStatus(c) ==
    IF Sub32(c.rx, OFFSET_DATA) < 4 * HDPATH_LEN_DEFAULT THEN "WRONG_LENGTH"
    ELSE IF c.path \in Mainnet THEN "OK" ELSE "DATA_INVALID"

\* Mutant of ExtractHDPath: the path of an upload in progress is kept.
ExtractFreeHDPath(c) ==
    hdPath' = IF HDPathStatus(c) = "WRONG_LENGTH" \/ cosmosInit THEN hdPath ELSE c.path

\* extractHDPath copies the path before it validates it.
ExtractHDPath(c) ==
    hdPath' = IF HDPathStatus(c) = "WRONG_LENGTH" THEN hdPath ELSE c.path

GetAddr(c) ==
    /\ c.ins = "GET_ADDR"
    /\ cosmosInit' = FALSE
    /\ ExtractHDPath(c)
    /\ \/ /\ HDPathStatus(c) # "OK"
          /\ Throw(HDPathStatus(c))
       \/ /\ HDPathStatus(c) = "OK"             \* crypto_fillAddress fails
          /\ Throw("EXECUTION_ERROR")
       \/ /\ HDPathStatus(c) = "OK"
          /\ ReplyAddress(c, hdPath', c.path)
    /\ asked' = [asked EXCEPT !.cosmos = NoPath]
    /\ UNCHANGED << buffer, evmVars, upload >>

\* Mutant of SignInit: tx_reset is forgotten.
SignInitWithoutReset(c) ==
    /\ c.ins = "SIGN" /\ c.p1 = P1_INIT
    /\ ExtractHDPath(c)
    /\ cosmosInit' = (HDPathStatus(c) = "OK")
    /\ Throw(HDPathStatus(c))
    /\ Begin(c, << >>, {})
    /\ asked' = [asked EXCEPT
                    !.cosmos = IF HDPathStatus(c) = "OK" THEN c.path ELSE NoPath]
    /\ UNCHANGED << buffer, evmVars >>

SignInit(c) ==
    /\ c.ins = "SIGN" /\ c.p1 = P1_INIT
    /\ buffer' = << >>
    /\ ExtractHDPath(c)
    /\ cosmosInit' = (HDPathStatus(c) = "OK")
    /\ Throw(HDPathStatus(c))
    /\ Begin(c, << >>, {})
    /\ asked' = [asked EXCEPT
                    !.cosmos = IF HDPathStatus(c) = "OK" THEN c.path ELSE NoPath]
    /\ UNCHANGED << evmVars >>

\* P1_ADD and P1_LAST without an upload in progress.
SignNotInitialized(c) ==
    /\ c.ins = "SIGN" /\ c.p1 \in {P1_ADD, P1_LAST}
    /\ ~cosmosInit
    /\ Throw("TX_NOT_INITIALIZED")
    /\ UNCHANGED << buffer, cosmosVars, evmVars, upload, asked >>

SignAdd(c) ==
    /\ c.ins = "SIGN" /\ c.p1 = P1_ADD
    /\ cosmosInit
    /\ \/ /\ Fits(buffer, c.body)
          /\ buffer' = buffer \o c.body
          /\ Throw("OK")
          /\ Continue(c, {})
          /\ UNCHANGED cosmosInit
       \/ /\ ~Fits(buffer, c.body)
          /\ cosmosInit' = FALSE
          /\ Throw("OUTPUT_BUFFER_TOO_SMALL")
          /\ Continue(c, {"refused"})
          /\ UNCHANGED buffer
    /\ UNCHANGED << hdPath, evmVars, asked >>

\* The last chunk and, when it completes the upload, tx_parse: the JSON is
\* reviewed or its parse error is answered.
SignLast(c) ==
    /\ c.ins = "SIGN" /\ c.p1 = P1_LAST
    /\ cosmosInit
    /\ cosmosInit' = FALSE
    /\ \/ /\ Fits(buffer, c.body)
          /\ buffer' = buffer \o c.body
          /\ Continue(c, {})
          /\ Review("app_sign") \/ Throw("DATA_INVALID")
       \/ /\ ~Fits(buffer, c.body)
          /\ Throw("OUTPUT_BUFFER_TOO_SMALL")
          /\ Continue(c, {"refused"})
          /\ UNCHANGED buffer
    /\ UNCHANGED << hdPath, evmVars, asked >>

SignBadP1(c) ==
    /\ c.ins = "SIGN" /\ c.p1 \notin {P1_INIT, P1_ADD, P1_LAST}
    /\ Throw("INVALIDP1P2")
    /\ UNCHANGED << buffer, cosmosVars, evmVars, upload, asked >>

-----------------------------------------------------------------------------
(* EVM: evm/apdu_handler_evm.c.                                            *)

\* A command without a data field (rx = OFFSET_DATA) makes rx - offset - 1
\* wrap, so the path is read from what earlier commands left behind.
PathsRead(c) == IF c.rx = OFFSET_DATA THEN Paths ELSE {c.path}

EthPathStatus(c, p) ==
    IF \/ PathLen[p] \notin 3 .. HDPATH_LEN_DEFAULT
       \/ Sub32(Sub32(c.rx, OFFSET_DATA), 1) < 4 * PathLen[p]
    THEN "WRONG_LENGTH"
    ELSE IF p \in Mainnet THEN "OK" ELSE "DATA_INVALID"

\* extract_eth_path copies the path, validates it, then sets its length.
extract_eth_path(c, p) ==
    /\ hdPathEth' = IF EthPathStatus(c, p) = "WRONG_LENGTH" THEN hdPathEth ELSE p
    /\ hdPathEthLen' = IF EthPathStatus(c, p) = "OK" THEN PathLen[p]
                                                     ELSE hdPathEthLen

\* Mutant of FirstPathStatus: without the second look at the length.
FirstPathStatusOnce(c, p) == EthPathStatus(c, p)

\* The path check of a FIRST chunk, with its second look at the length.
FirstPathStatus(c, p) ==
    IF EthPathStatus(c, p) = "OK"
       /\ Sub32(c.rx, OFFSET_DATA) < 4 * PathLen[p]
    THEN "WRONG_LENGTH"
    ELSE EthPathStatus(c, p)

\* crypto_fillEthAddress has the key derived from p, and its chain code of 32
\* bytes written where sei_chain_code has one (crypto_evm.c:25, :78).  What the
\* other 31 reach is the linker's choice: nothing of these two variables, or
\* one of them or both, which then hold words of the chain code, as a length
\* short or long.
DeriveEthAddress(p) ==
    /\ hdPathEth' \in {p, NoPath}
    /\ hdPathEthLen' \in {PathLen[p], 0, U32 - 1}

GetAddrEth(c) ==
    /\ c.ins = "GET_ADDR_ETH"
    /\ evmInit' = FALSE
    /\ \E p \in PathsRead(c) :
          \/ /\ EthPathStatus(c, p) # "OK"
             /\ extract_eth_path(c, p)
             /\ Throw(EthPathStatus(c, p))
          \/ /\ EthPathStatus(c, p) = "OK" /\ c.p2 \notin {0, 1}
             /\ extract_eth_path(c, p)
             /\ Throw("INVALIDP1P2")
          \/ /\ EthPathStatus(c, p) = "OK" /\ c.p2 \in {0, 1}
             /\ DeriveEthAddress(p)
             /\ \/ Throw("EXECUTION_ERROR")     \* crypto_fillEthAddress fails
                \/ ReplyAddress(c, p, IF c.rx = OFFSET_DATA THEN NoPath ELSE c.path)
    /\ asked' = [asked EXCEPT !.evm = NoPath]
    /\ UNCHANGED << buffer, bytesToRead, cosmosVars, upload >>

\* P2 is checked first by both EVM uploads.
EvmBadParameters(c) ==
    /\ c.ins \in Evm
    /\ c.p2 # 0 \/ c.p1 \notin {P1_ETH_FIRST, P1_ETH_MORE}
    /\ Throw("INVALIDP1P2")
    /\ UNCHANGED << buffer, cosmosVars, evmVars, upload, asked >>

EvmNotInitialized(c) ==
    /\ c.ins \in Evm /\ c.p2 = 0 /\ c.p1 = P1_ETH_MORE
    /\ ~evmInit
    /\ Throw("TX_NOT_INITIALIZED")
    /\ UNCHANGED << buffer, cosmosVars, evmVars, upload, asked >>

-----------------------------------------------------------------------------
(* Ethereum transactions.                                                  *)

\* tx_parse_eth and what handleSignEth does with its result.  handleSignEth
\* compares an error code that tx_parse_eth sets only once the transaction
\* has been parsed: after a parse error the comparison reads an
\* uninitialised variable, so either branch may be taken.
ParseEth(bytes) ==
    \/ ListCoversBuffer(bytes) /\ Review("app_sign_eth")
    \/ Throw("DATA_INVALID")
    \/ Review("app_reply_error")

\* The status of a FIRST chunk whose path is p and whose header reads as rlp,
\* of which maxLen bytes would be stored: the checks in their order.
FirstStatus(c, p, rlp, maxLen) ==
    IF FirstPathStatus(c, p) # "OK" THEN FirstPathStatus(c, p)
    ELSE IF ~rlp.ok THEN "DATA_INVALID"
    ELSE IF maxLen > Capacity THEN "OUTPUT_BUFFER_TOO_SMALL" ELSE "OK"

\* Completion leaves evmInit set.
SignEthFirst(c) ==
    /\ c.ins = "SIGN_ETH" /\ c.p2 = 0 /\ c.p1 = P1_ETH_FIRST
    /\ \E p \in PathsRead(c), residue \in Residues :
          LET rlp    == get_tx_rlp_len(c.body, residue)
              total  == saturating_add(rlp.read, rlp.to_read)
              maxLen == MinOf(total, Len(c.body))
              status == FirstStatus(c, p, rlp, maxLen)
          IN  /\ extract_eth_path(c, p)
              /\ evmInit' = (status = "OK")
              /\ buffer' = IF status = "OK" THEN Take(c.body, maxLen)
                                            ELSE << >>
              /\ IF status = "OK" /\ total = Len(c.body)
                 THEN ParseEth(buffer')
                 ELSE Throw(status)
              /\ Begin(c, c.body,
                       (IF HeaderWhole(c.body) THEN {} ELSE {"cut"})
                       \cup (IF total < Len(c.body) THEN {"excess"} ELSE {}))
    /\ asked' = [asked EXCEPT !.evm = IF c.rx = OFFSET_DATA THEN NoPath ELSE c.path]
    /\ UNCHANGED << bytesToRead, cosmosVars >>

\* What the header in the buffer still asks for.
Missing(rlp) == Sub64(rlp.to_read, Sub64(Len(buffer), rlp.read))

\* The missing length is computed afresh from the header in the buffer.
SignEthMore(c) ==
    /\ c.ins = "SIGN_ETH" /\ c.p2 = 0 /\ c.p1 = P1_ETH_MORE
    /\ evmInit
    /\ \E residue \in Residues :
          LET rlp     == get_tx_rlp_len(buffer, residue)
              missing == Missing(rlp)
              taken   == Take(c.body, MinOf(missing, Len(c.body)))
              excess  == IF missing < Len(c.body) THEN {"excess"} ELSE {}
          IN  \/ /\ ~rlp.ok
                 /\ Throw("DATA_INVALID")
                 /\ UNCHANGED << buffer, evmInit, upload >>
              \/ /\ rlp.ok /\ ~Fits(buffer, taken)
                 /\ evmInit' = FALSE
                 /\ Throw("OUTPUT_BUFFER_TOO_SMALL")
                 /\ Continue(c, {"refused"})
                 /\ UNCHANGED buffer
              \/ /\ rlp.ok /\ Fits(buffer, taken)
                 /\ buffer' = buffer \o taken
                 /\ Continue(c, excess)
                 /\ evmInit' = (missing # Len(c.body))
                 /\ IF missing = Len(c.body) THEN ParseEth(buffer')
                                             ELSE Throw("OK")
    /\ UNCHANGED << bytesToRead, hdPathEth, hdPathEthLen, cosmosVars,
                    asked >>

-----------------------------------------------------------------------------
(* EIP-191 personal messages: four bytes of length, then the message.      *)

Printable(b) == b \in 32 .. 126

\* eip191_msg_parse: every byte behind the length is printable, or blind
\* signing is enabled (a setting of the user).  With fewer than four bytes in
\* the buffer the length wraps and the bytes compared are not the message.
ParseEip191(bytes) ==
    \/ Review("app_sign_eip191")
    \/ /\ \/ Len(bytes) < 4
          \/ \E i \in 5 .. Len(bytes) : ~Printable(bytes[i])
       /\ Review("app_reply_error")

\* bytes_to_read after a first chunk of len bytes, the declared length included.
Outstanding(declared, len) == Sub32(declared % U32, Sub32(len, 4))

\* Mutant of GoesOn: the flag is not cleared behind the last byte.
GoesOnForever(toRead) == TRUE

\* The upload goes on while bytes are outstanding.
GoesOn(toRead) == toRead # 0

SignEip191First(c) ==
    /\ c.ins = "SIGN_PERSONAL_MESSAGE" /\ c.p2 = 0 /\ c.p1 = P1_ETH_FIRST
    /\ \E p \in PathsRead(c), residue \in Residues :
          LET declared == U4BE(c.body \o residue)
              toRead   == Outstanding(declared, Len(c.body))
              accepted == FirstPathStatus(c, p) = "OK" /\ Fits(<< >>, c.body)
          IN  /\ extract_eth_path(c, p)
              /\ bytesToRead' = IF FirstPathStatus(c, p) = "OK" THEN toRead
                                                                ELSE bytesToRead
              /\ buffer' = IF accepted THEN c.body ELSE << >>
              /\ evmInit' = (accepted /\ GoesOn(toRead))
              /\ \/ /\ FirstPathStatus(c, p) # "OK"
                    /\ Throw(FirstPathStatus(c, p))
                 \/ /\ FirstPathStatus(c, p) = "OK" /\ ~accepted
                    /\ Throw("OUTPUT_BUFFER_TOO_SMALL")
                 \/ /\ accepted /\ toRead # 0
                    /\ Throw("OK")
                 \/ /\ accepted /\ toRead = 0
                    /\ ParseEip191(buffer')
    /\ Begin(c, c.body, IF Len(c.body) >= 4 THEN {} ELSE {"cut"})
    /\ asked' = [asked EXCEPT !.evm = IF c.rx = OFFSET_DATA THEN NoPath ELSE c.path]
    /\ UNCHANGED << cosmosVars >>

\* Mutant of Left: the chunk is taken for one byte longer than it is.
LeftCountingMarker(bytes) == Sub32(bytesToRead, Len(bytes) + 1)

\* bytes_to_read behind one more chunk.
Left(bytes) == Sub32(bytesToRead, Len(bytes))

\* A chunk that does not fit is counted, refused, and the upload goes on.
SignEip191More(c) ==
    /\ c.ins = "SIGN_PERSONAL_MESSAGE" /\ c.p2 = 0 /\ c.p1 = P1_ETH_MORE
    /\ evmInit
    /\ bytesToRead' = Left(c.body)
    /\ \/ /\ ~Fits(buffer, c.body)
          /\ Throw("OUTPUT_BUFFER_TOO_SMALL")
          /\ Continue(c, {"refused"})
          /\ UNCHANGED << buffer, evmInit >>
       \/ /\ Fits(buffer, c.body)
          /\ buffer' = buffer \o c.body
          /\ Continue(c, {})
          /\ evmInit' = GoesOn(bytesToRead')
          /\ IF bytesToRead' = 0 THEN ParseEip191(buffer') ELSE Throw("OK")
    /\ UNCHANGED << hdPathEth, hdPathEthLen, cosmosVars, asked >>

-----------------------------------------------------------------------------
(* The dispatcher: handleApdu.                                             *)

PinChecked == {"GET_ADDR", "SIGN"} \cup Evm

\* The checks in front of the handlers.
Supported(c) ==
    /\ c.cla # "OTHER"
    /\ c.rx >= APDU_MIN_LENGTH
    /\ c.ins # "OTHER"
    /\ c.ins \in Evm => c.cla = "CLA_ETH"

RejectCommand(c) ==
    /\ \/ c.cla = "OTHER" /\ Throw("CLA_NOT_SUPPORTED")
       \/ c.cla # "OTHER" /\ c.rx < APDU_MIN_LENGTH /\ Throw("WRONG_LENGTH")
       \/ /\ c.cla # "OTHER" /\ c.rx >= APDU_MIN_LENGTH /\ c.ins = "OTHER"
          /\ Throw("INS_NOT_SUPPORTED")
       \/ /\ c.cla = "CLA" /\ c.rx >= APDU_MIN_LENGTH /\ c.ins \in Evm
          /\ Throw("COMMAND_NOT_ALLOWED")
       \/ /\ Supported(c) /\ c.ins \in PinChecked       \* the device is locked
          /\ Throw("COMMAND_NOT_ALLOWED")
    /\ UNCHANGED << buffer, cosmosVars, evmVars, upload, asked >>

GetVersion(c) ==
    /\ c.ins = "GET_VERSION"
    /\ Throw("OK")
    /\ UNCHANGED << buffer, cosmosVars, evmVars, upload, asked >>

handleSign(c) ==
    SignInit(c) \/ SignNotInitialized(c) \/ SignAdd(c) \/ SignLast(c) \/ SignBadP1(c)

handleSignEth(c)    == SignEthFirst(c) \/ SignEthMore(c)
handleSignEip191(c) == SignEip191First(c) \/ SignEip191More(c)

handleApdu(c) ==
    /\ ~async
    /\ \/ RejectCommand(c)
       \/ /\ Supported(c)
          /\ \/ GetVersion(c) \/ GetAddr(c) \/ GetAddrEth(c)
             \/ handleSign(c)
             \/ EvmBadParameters(c) \/ EvmNotInitialized(c)
             \/ handleSignEth(c) \/ handleSignEip191(c)

-----------------------------------------------------------------------------
(* The user (actions.h): the callbacks run when the review is answered.    *)

\* The callback of the review answers the host, whatever its outcome.
Close ==
    /\ async /\ screen # "none"
    /\ async' = FALSE
    /\ screen' = "none"
    /\ UNCHANGED << buffer, cosmosVars, evmVars, upload, asked >>

\* What the callback signs, with which path.
Signature(path, data) ==
    [status |-> "OK", kind |-> "signature", path |-> path, asked |-> NoPath,
     data |-> data]

app_sign ==
    /\ screen = "app_sign" /\ Close
    /\ \/ answer' = Signature(hdPath, buffer)
       \/ answer' = Status("SIGN_VERIFY_ERROR")

\* Mutant of app_sign_evm: it signs with the path of the Cosmos commands.
SignEvmWithHDPath ==
    /\ screen \in {"app_sign_eth", "app_sign_eip191"} /\ Close
    /\ \/ answer' = Signature(hdPath, buffer)
       \/ answer' = Status("SIGN_VERIFY_ERROR")

\* app_sign_eth and app_sign_eip191 sign the buffer with the EVM path.
app_sign_evm ==
    /\ screen \in {"app_sign_eth", "app_sign_eip191"} /\ Close
    /\ \/ answer' = Signature(hdPathEth, buffer)
       \/ answer' = Status("SIGN_VERIFY_ERROR")

app_reply_address ==
    /\ screen = "app_reply_address" /\ Close
    /\ UNCHANGED answer

app_reject ==
    /\ screen \notin {"none", "app_reply_error"} /\ Close
    /\ answer' = Status("COMMAND_NOT_ALLOWED")

\* Mutant of app_reply_error: the notice is left without an answer.
IgnoreNotice == screen = "app_reply_error" /\ UNCHANGED vars

\* The notice that blind signing is required has one way out.
app_reply_error ==
    /\ screen = "app_reply_error" /\ Close
    /\ answer' = Status("DATA_INVALID")

User == app_sign \/ app_sign_evm \/ app_reply_address \/ app_reject \/ app_reply_error

Next == (\E c \in Commands : handleApdu(c)) \/ User

Spec == Init /\ [][Next]_vars

\* The user eventually answers what is on the screen.
FairSpec == Spec /\ WF_vars(User)
=============================================================================
