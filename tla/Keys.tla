-------------------------------- MODULE Keys --------------------------------
(***************************************************************************)
(* What is done with the private key (crypto.c, crypto_helper.c,           *)
(* evm/crypto_evm.c), from a path that a command brought to the answer, by *)
(* way of the screen (addr.c, evm/evm_addr.c, common/actions.h).  A step   *)
(* is a call into the device's library, which may fail, and the end of a   *)
(* routine, where the key is wiped.                                        *)
(*                                                                         *)
(* The I/O buffer is a row of cells.  A cell holds nothing, or the at-th   *)
(* byte of a part of something: of a public key, of a signature.           *)
(***************************************************************************)
EXTENDS Integers, Sequences

CONSTANTS
    Commands,       \* [ins, path, confirm, message]
    IoSize,         \* IO_APDU_BUFFER_SIZE
    ScalarLen,      \* 32 in the code: a coordinate, r or s
    EthAddrLen,     \* 40: the hexadecimal digits of ETH_ADDR_LEN bytes
    Bech32Len,      \* the length of a bech32 address
    DerLens,        \* the lengths of a DER signature, at most 73
    EncoderErrors,  \* what crypto_encodePubkey returns when it fails
    ChainCodes      \* chain codes, as words: as many as the path variables have

HDPATH_LEN_DEFAULT == 5

PK_LEN == 1 + ScalarLen                     \* 33: compressed
PK_LEN_UNCOMPRESSED == 1 + 2 * ScalarLen    \* 65
VIEW_ADDRESS_OFFSET_ETH == PK_LEN_UNCOMPRESSED + 1 + 1

\* The longest answers, with their two bytes of status, fit in the buffer
\* (the length checks of crypto_fillAddress, crypto_fillEthAddress and _sign).
ASSUME SizesAssumption ==
    /\ IoSize \in Nat /\ ScalarLen \in Nat \ {0}
    /\ EthAddrLen \in Nat /\ Bech32Len \in Nat
    /\ DerLens \subseteq Nat /\ EncoderErrors \subseteq Nat
    /\ PK_LEN + Bech32Len <= IoSize - 2
    /\ PK_LEN_UNCOMPRESSED + 1 + EthAddrLen + 1 <= IoSize - 2
    /\ \A n \in DerLens : 2 * ScalarLen + 1 + n <= IoSize - 2
    /\ \A n \in EncoderErrors : PK_LEN + n <= IoSize - 2

ASSUME ChainCodesAssumption ==
    \A code \in ChainCodes : code \in Seq(Nat) /\ Len(code) = HDPATH_LEN_DEFAULT + 1

SignIns == {"SIGN", "SIGN_ETH", "SIGN_PERSONAL_MESSAGE"}

\* The instructions of evm/: the other path variable.
EvmIns == {"GET_ADDR_ETH", "SIGN_ETH", "SIGN_PERSONAL_MESSAGE"}

\* The commands whose paths are accepted: extractHDPath takes five
\* components, extract_eth_path three to five.
ASSUME CommandsAssumption ==
    \A c \in Commands :
        /\ DOMAIN c = {"ins", "path", "confirm", "message"}
        /\ c.ins \in {"GET_ADDR"} \cup SignIns \cup EvmIns
        /\ c.path \in Seq(Nat) /\ c.confirm \in BOOLEAN
        /\ Len(c.path) \in 3 .. HDPATH_LEN_DEFAULT
        /\ c.ins \notin EvmIns => Len(c.path) = HDPATH_LEN_DEFAULT

VARIABLES
    pc,         \* the call that comes next, "idle", or "review"
    command,    \* the command that is served
    hdPath, hdPath_len,
    hdPathEth, hdPathEth_len,
    derivedPath, \* the path the private key was derived from
    expert,     \* app_mode_expert
    secrets,    \* the variables that hold the private key
    pubkey,     \* uncompressedPubkey
    io,         \* G_io_apdu_buffer
    replyLen,   \* action_addrResponseLen, or sigSize
    answer      \* [status, bytes], the latest answer

paths == << hdPath, hdPath_len, hdPathEth, hdPathEth_len, derivedPath >>
vars == << pc, command, paths, expert, secrets, pubkey, io, replyLen, answer >>

-----------------------------------------------------------------------------
Zero == [part |-> "zero", of |-> << >>, at |-> 0]

\* The n bytes of a part of something.
Bytes(part, of, n) == [k \in 1 .. n |-> [part |-> part, of |-> of, at |-> k]]

Zeroed == [k \in 0 .. IoSize - 1 |-> Zero]

\* memcpy, and what MEMCPY and memmove read.
Put(buffer, at, bytes) ==
    [k \in DOMAIN buffer |->
        IF k \in at .. at + Len(bytes) - 1 THEN bytes[k - at + 1] ELSE buffer[k]]

Cut(buffer, at, n) == [k \in 1 .. n |-> buffer[at + k - 1]]

\* A C string: up to the first zero.
StringAt(buffer, at) ==
    LET ends == {k \in DOMAIN buffer : k >= at /\ buffer[k] = Zero}
    IN  Cut(buffer, at, (CHOOSE e \in ends : \A k \in ends : e <= k) - at)

\* What the library makes of a path: a key, named by its path.
PublicKey(path) ==
    Bytes("04", path, 1) \o Bytes("x", path, ScalarLen) \o Bytes("y", path, ScalarLen)

\* compressPubkey keeps x and the parity of the last byte of y.
Compressed(pk) == << [pk[Len(pk)] EXCEPT !.part = "parity"] >> \o SubSeq(pk, 2, PK_LEN)

\* The address, as text, of the public key in these bytes.
Address(part, pk, n) == Bytes(part, pk, n)

-----------------------------------------------------------------------------
NoCommand == [ins |-> "none", path |-> << >>, confirm |-> FALSE, message |-> "none"]

Init ==
    /\ pc = "idle" /\ command = NoCommand
    /\ hdPath = << 0, 0, 0, 0, 0 >> /\ hdPath_len = 0
    /\ hdPathEth = << 0, 0, 0, 0, 0 >> /\ hdPathEth_len = 0
    /\ derivedPath = << >>
    /\ expert = FALSE
    /\ secrets = {} /\ pubkey = << >>
    /\ io = Zeroed /\ replyLen = 0
    /\ answer = [status |-> "none", bytes |-> << >>]

\* Mutant of Send: io_exchange is forgotten.
SendNothing(status, len, buffer) ==
    /\ answer' = [status |-> status, bytes |-> Cut(buffer, 0, len)]
    /\ UNCHANGED pc

\* io_exchange sends the first bytes of the I/O buffer and the status.
Send(status, len, buffer) ==
    /\ answer' = [status |-> status, bytes |-> Cut(buffer, 0, len)]
    /\ pc' = "idle"

-----------------------------------------------------------------------------
(* Commands. *)

IsEvm == command.ins \in EvmIns

IsSign == command.ins \in SignIns

\* Mutant of CopyPath: the length is taken in bytes.
CopyPathInBytes(path) ==
    /\ hdPathEth' = [k \in 1 .. HDPATH_LEN_DEFAULT |->
                        IF k <= Len(path) THEN path[k] ELSE hdPathEth[k]]
    /\ hdPathEth_len' = 4 * Len(path)

\* extract_eth_path overwrites the first components and sets the length.
CopyPath(path) ==
    /\ hdPathEth' = [k \in 1 .. HDPATH_LEN_DEFAULT |->
                        IF k <= Len(path) THEN path[k] ELSE hdPathEth[k]]
    /\ hdPathEth_len' = Len(path)

\* A command whose path is accepted.  An address is looked up at once; an
\* upload leads to a review of its message.
Serve(c) ==
    /\ pc = "idle"
    /\ command' = c
    /\ IF c.ins \in EvmIns
       THEN CopyPath(c.path) /\ UNCHANGED << hdPath, hdPath_len >>
       ELSE /\ hdPath' = c.path /\ hdPath_len' = HDPATH_LEN_DEFAULT
            /\ UNCHANGED << hdPathEth, hdPathEth_len >>
    /\ derivedPath' = << >>
    /\ IF c.ins \in SignIns
       THEN pc' = "review" /\ io' = [k \in DOMAIN io |-> Bytes("command", << >>, 1)[1]]
       ELSE pc' = "derive" /\ io' = Zeroed
    /\ replyLen' = 0
    /\ answer' = [status |-> "none", bytes |-> << >>]
    /\ UNCHANGED << expert, secrets, pubkey >>

\* The user changes the setting in the menu.
ToggleExpert ==
    /\ pc = "idle"
    /\ expert' = ~expert
    /\ UNCHANGED << pc, command, paths, secrets, pubkey, io, replyLen, answer >>

-----------------------------------------------------------------------------
(* The user. *)

\* app_sign begins to sign into the buffer as it is; the callbacks of evm/
\* clear it.
ApproveSign ==
    /\ pc = "review" /\ IsSign
    /\ io' = IF IsEvm THEN Zeroed ELSE io
    /\ pc' = "digest"
    /\ UNCHANGED << command, paths, expert, secrets, pubkey, replyLen, answer >>

\* app_reply_address
ApproveAddress ==
    /\ pc = "review" /\ ~IsSign
    /\ IF replyLen = 0 THEN Send("DATA_INVALID", 0, io) ELSE Send("OK", replyLen, io)
    /\ UNCHANGED << command, paths, expert, secrets, pubkey, io, replyLen >>

\* app_reject
Reject ==
    /\ pc = "review"
    /\ io' = Zeroed
    /\ Send("COMMAND_NOT_ALLOWED", 0, io)
    /\ UNCHANGED << command, paths, expert, secrets, pubkey, replyLen >>

\* The items of an address review: addr_getNumItems, addr_getItem,
\* eth_addr_getNumItems, eth_addr_getItem.
NumItems == IF expert THEN 2 ELSE 1

\* bip32_to_str makes a text of a path, and another of a length it cannot be.
PathText(path, len) ==
    IF len \in 1 .. HDPATH_LEN_DEFAULT THEN SubSeq(path, 1, len) ELSE << >>

\* Mutant of Item: the address of a command of evm/ is looked for where that
\* of the other family lies.
ItemAtOneOffset(i) ==
    IF i = 0 THEN IF IsEvm THEN Cut(io, PK_LEN, EthAddrLen) ELSE StringAt(io, PK_LEN)
    ELSE IF IsEvm THEN PathText(hdPathEth, hdPathEth_len)
    ELSE PathText(hdPath, HDPATH_LEN_DEFAULT)

Item(i) ==
    IF i = 0 THEN IF IsEvm THEN Cut(io, VIEW_ADDRESS_OFFSET_ETH, EthAddrLen)
                           ELSE StringAt(io, PK_LEN)
    ELSE IF IsEvm THEN PathText(hdPathEth, hdPathEth_len)
    ELSE PathText(hdPath, HDPATH_LEN_DEFAULT)

-----------------------------------------------------------------------------
(* The routines.                                                           *)

\* The path the key is derived from.  The routine for an address of the
\* other family does not look at hdPath_len.
DerivedPath ==
    IF IsEvm THEN SubSeq(hdPathEth, 1, hdPathEth_len)
    ELSE IF IsSign THEN SubSeq(hdPath, 1, hdPath_len)
    ELSE SubSeq(hdPath, 1, HDPATH_LEN_DEFAULT)

\* What is signed: the hash of the message, under another prefix for a
\* personal message.
Digest(c) ==
    << IF c.ins = "SIGN" THEN "sha256" ELSE IF c.ins = "SIGN_ETH" THEN "keccak"
       ELSE "eip191", c.message >>

Signature(part, n) == Bytes(part, << derivedPath, Digest(command) >>, n)

SetDigest ==
    /\ pc = "digest"
    /\ pc' = "derive"
    /\ UNCHANGED << command, paths, expert, secrets, pubkey, io, replyLen, answer >>

\* keccak_digest or eip191_hash_message fails; cx_hash_sha256 has no result.
DigestFails ==
    /\ pc = "digest" /\ IsEvm
    /\ Send("SIGN_VERIFY_ERROR", 0, io)
    /\ UNCHANGED << command, paths, expert, secrets, pubkey, io, replyLen >>

\* Mutant of WriteChainCode: the path is read again behind it.
WriteChainCodeFirst ==
    \E code \in ChainCodes :
        /\ hdPathEth' = SubSeq(code, 1, HDPATH_LEN_DEFAULT)
        /\ derivedPath' = SubSeq(hdPathEth', 1, hdPathEth_len)
        /\ UNCHANGED hdPathEth_len

\* A chain code has 32 bytes and sei_chain_code one.  How many words of the
\* path variables declared behind it the other 31 reach, and whether the
\* length, is the linker's choice.
WriteChainCode ==
    \E code \in ChainCodes, n \in 0 .. HDPATH_LEN_DEFAULT :
        /\ hdPathEth' = [k \in 1 .. HDPATH_LEN_DEFAULT |->
                            IF k <= n THEN code[k] ELSE hdPathEth[k]]
        /\ hdPathEth_len' \in {hdPathEth_len, code[HDPATH_LEN_DEFAULT + 1]}
        /\ derivedPath' = DerivedPath

\* os_derive_bip32_with_seed_no_throw, which is asked for the chain code only
\* on the way to an address of evm/.
Derive ==
    /\ pc = "derive"
    /\ secrets' = secrets \cup {"privateKeyData"}
    /\ IF IsEvm /\ ~IsSign
       THEN WriteChainCode
       ELSE derivedPath' = DerivedPath /\ UNCHANGED << hdPathEth, hdPathEth_len >>
    /\ pc' = "init"
    /\ UNCHANGED << command, hdPath, hdPath_len, expert, pubkey, io, replyLen, answer >>

\* cx_ecfp_init_private_key_no_throw
InitPrivateKey ==
    /\ pc = "init"
    /\ secrets' = secrets \cup {"cx_privateKey"}
    /\ pc' = IF IsSign THEN "sign" ELSE "generate"
    /\ UNCHANGED << command, paths, expert, pubkey, io, replyLen, answer >>

\* cx_ecfp_generate_pair_no_throw, and the copy of W.
GeneratePair ==
    /\ pc = "generate"
    /\ IF IsEvm
       THEN io' = Put(io, 1, PublicKey(derivedPath)) /\ UNCHANGED pubkey
       ELSE pubkey' = PublicKey(derivedPath) /\ UNCHANGED io
    /\ pc' = "leave"
    /\ UNCHANGED << command, paths, expert, secrets, replyLen, answer >>

DerOffset == 2 * ScalarLen + 1

\* cx_ecdsa_sign_no_throw writes a signature of some length into the last
\* member of signature_t.
EcdsaSign ==
    /\ pc = "sign"
    /\ \E n \in DerLens :
          /\ io' = Put(io, DerOffset, Signature("der", n))
          /\ replyLen' = IF IsEvm THEN DerOffset + n ELSE DerOffset
    /\ pc' = "convert"
    /\ UNCHANGED << command, paths, expert, secrets, pubkey, answer >>

\* convertDERtoRSV fills r, s and v.
Convert ==
    /\ pc = "convert"
    /\ io' = Put(io, 0, Signature("r", ScalarLen) \o Signature("s", ScalarLen)
                        \o Signature("v", 1))
    /\ pc' = "leave"
    /\ UNCHANGED << command, paths, expert, secrets, pubkey, replyLen, answer >>

\* Mutant of Wipe: nothing is wiped but the key.
WipeKeyOnly(buffer) == buffer

\* What a failed routine wipes besides the key: the whole output to sign
\* into, or the public key.
Wipe(buffer) ==
    IF IsSign THEN Zeroed
    ELSE IF IsEvm THEN Put(buffer, 1, [k \in 1 .. PK_LEN_UNCOMPRESSED |-> Zero])
    ELSE buffer

\* A call fails, or what it wrote cannot be converted: catch_cx_error.  The
\* caller answers without data.
Fail ==
    /\ pc \in {"derive", "init", "generate", "sign", "convert"}
    /\ secrets' = {}
    /\ pubkey' = << >>
    /\ io' = Wipe(io)
    /\ replyLen' = 0
    /\ Send(IF IsSign THEN "SIGN_VERIFY_ERROR" ELSE "EXECUTION_ERROR", 0, io)
    /\ UNCHANGED << command, paths, expert >>

\* Mutant of Wiped: the copy of the key in the library's format is kept.
WipedHalf == secrets \ {"privateKeyData"}

Wiped == {}

\* catch_cx_error without an error.
Leave ==
    /\ pc = "leave"
    /\ secrets' = Wiped
    /\ pc' = IF IsSign THEN "reply" ELSE "encode"
    /\ UNCHANGED << command, paths, expert, pubkey, io, replyLen, answer >>

-----------------------------------------------------------------------------
(* The answers.                                                            *)

\* An address is answered at once or shown first.
AnswerAddress(buffer, len) ==
    /\ io' = buffer
    /\ replyLen' = len
    /\ IF command.confirm THEN pc' = "review" /\ UNCHANGED answer
                          ELSE Send("OK", len, buffer)
    /\ UNCHANGED << command, paths, expert, secrets, pubkey >>

\* crypto_fillAddress: the compressed key and the address behind it.
EncodeAddress ==
    /\ pc = "encode" /\ ~IsEvm
    /\ AnswerAddress(
           Put(Put(io, 0, Compressed(pubkey)), PK_LEN,
               Address("bech32", Compressed(pubkey), Bech32Len)),
           PK_LEN + Bech32Len)

\* crypto_encodePubkey returns an error where a length is expected: only
\* zero is taken for a failure.
EncoderFails ==
    /\ pc = "encode" /\ ~IsEvm
    /\ \E outLen \in EncoderErrors :
          IF outLen = 0
          THEN /\ io' = Zeroed /\ replyLen' = 0
               /\ Send("EXECUTION_ERROR", 0, io)
               /\ UNCHANGED << command, paths, expert, secrets, pubkey >>
          ELSE AnswerAddress(Put(io, 0, Compressed(pubkey)), PK_LEN + outLen)

\* crypto_fillEthAddress: lengths in front of the key and of the address.
EncodeEthAddress ==
    /\ pc = "encode" /\ IsEvm
    /\ LET pk == Cut(io, 1, PK_LEN_UNCOMPRESSED)
       IN  AnswerAddress(
               Put(Put(io, 0, Bytes("len", << "pk" >>, 1)), PK_LEN_UNCOMPRESSED + 1,
                   Bytes("len", << "address" >>, 1)
                   \o Address("hex", SubSeq(pk, 2, Len(pk)), EthAddrLen)),
               PK_LEN_UNCOMPRESSED + 1 + EthAddrLen + 1)

\* keccak_digest fails.
EthEncoderFails ==
    /\ pc = "encode" /\ IsEvm
    /\ Send("EXECUTION_ERROR", 0, io)
    /\ UNCHANGED << command, paths, expert, secrets, pubkey, io, replyLen >>

\* app_sign
ReplySignature ==
    /\ pc = "reply" /\ ~IsEvm
    /\ Send("OK", replyLen, io)
    /\ UNCHANGED << command, paths, expert, secrets, pubkey, io, replyLen >>

\* Mutant of VInFront: v is written before r and s have moved out of its way.
VBeforeMove(buffer, v) ==
    Put(Put(buffer, 0, v), 1, Cut(Put(buffer, 0, v), 0, 2 * ScalarLen))

\* memmove and buffer[0] = v.
VInFront(buffer, v) == Put(Put(buffer, 1, Cut(buffer, 0, 2 * ScalarLen)), 0, v)

\* crypto_sign_eth after _sign, and app_sign_eth or app_sign_eip191.
ReplyEthSignature ==
    /\ pc = "reply" /\ IsEvm
    /\ io' = VInFront(io, Signature("eth v", 1))
    /\ Send("OK", replyLen, io')
    /\ UNCHANGED << command, paths, expert, secrets, pubkey, replyLen >>

-----------------------------------------------------------------------------
Step ==
    \/ SetDigest \/ DigestFails
    \/ Derive \/ InitPrivateKey \/ GeneratePair \/ EcdsaSign \/ Convert
    \/ Fail \/ Leave
    \/ EncodeAddress \/ EncoderFails \/ EncodeEthAddress \/ EthEncoderFails
    \/ ReplySignature \/ ReplyEthSignature

User == ApproveSign \/ ApproveAddress \/ Reject

Next == (\E c \in Commands : Serve(c)) \/ ToggleExpert \/ User \/ Step

\* The processor goes on with its routine; the user answers the screen.
Spec == Init /\ [][Next]_vars /\ WF_vars(Step) /\ WF_vars(User)

-----------------------------------------------------------------------------
(* Properties *)

Parts == {"zero", "command", "04", "x", "y", "parity", "len", "bech32", "hex",
          "r", "s", "v", "eth v", "der"}

TypeOK ==
    /\ pc \in {"idle", "review", "digest", "derive", "init", "generate", "sign",
               "convert", "leave", "encode", "reply"}
    /\ command \in Commands \cup {NoCommand}
    /\ Len(hdPath) = HDPATH_LEN_DEFAULT /\ hdPath_len \in {0, HDPATH_LEN_DEFAULT}
    /\ Len(hdPathEth) = HDPATH_LEN_DEFAULT
    /\ hdPathEth_len \in {0} \cup 3 .. HDPATH_LEN_DEFAULT
                        \cup {code[HDPATH_LEN_DEFAULT + 1] : code \in ChainCodes}
    /\ expert \in BOOLEAN
    /\ secrets \subseteq {"privateKeyData", "cx_privateKey"}
    /\ DOMAIN io = 0 .. IoSize - 1 /\ \A k \in DOMAIN io : io[k].part \in Parts
    /\ replyLen \in 0 .. IoSize - 2
    /\ answer.status \in {"none", "OK", "DATA_INVALID", "COMMAND_NOT_ALLOWED",
                          "EXECUTION_ERROR", "SIGN_VERIFY_ERROR"}

\* No screen is shown, no text is made and no answer is sent while a copy of
\* the private key is in memory, whichever call failed (the catch_cx_error
\* labels of crypto.c:75 and :146, crypto_evm.c:87 and :131).
SecretsWiped ==
    pc \in {"idle", "review", "digest", "encode", "reply"} => secrets = {}

\* What the host should get for an address, and what the user should see.
AddressText(c) ==
    IF c.ins \in EvmIns THEN Bytes("hex", Tail(PublicKey(c.path)), EthAddrLen)
    ELSE Bytes("bech32", Compressed(PublicKey(c.path)), Bech32Len)

AddressReply(c) ==
    IF c.ins \in EvmIns
    THEN Bytes("len", << "pk" >>, 1) \o PublicKey(c.path)
         \o Bytes("len", << "address" >>, 1) \o AddressText(c)
    ELSE Compressed(PublicKey(c.path)) \o AddressText(c)

\* What is left of it when an error n of the encoder counts as a length: the
\* key, and no address behind it.
EmptyReply(c, n) == Compressed(PublicKey(c.path)) \o [k \in 1 .. n |-> Zero]

\* The text on the screen and the answer that belongs to it.
Addresses(c) ==
    {<< AddressText(c), AddressReply(c) >>}
    \cup {<< << >>, EmptyReply(c, n) >> :
             n \in IF c.ins \in EvmIns THEN {} ELSE EncoderErrors \ {0}}

\* The address on the screen and the address in the answer are one, and it is
\* that of the path this command brought: although a longer path of an
\* earlier command is still behind it in hdPathEth, a chain code comes to lie
\* over the path once the key is derived, and the screen reads the I/O buffer
\* at an offset of its own.  Only when the encoder fails may both be empty.
\* The path beside a Cosmos address is this path too (addr.c:38-64,
\* evm_addr.c:40-52, crypto_evm.c:78, actions.h:122-129).
AddressIsOfPath ==
    /\ pc = "review" /\ ~IsSign =>
          /\ << Item(0), Cut(io, 0, replyLen) >> \in Addresses(command)
          /\ NumItems = 2 /\ ~IsEvm => Item(1) = command.path
    /\ answer.status = "OK" /\ ~IsSign =>
          answer.bytes \in {address[2] : address \in Addresses(command)}

\* The answer is r, s and v of the digest of this message under the path of
\* this command, or v, r and s and then the same signature in DER, and v is
\* the one of its family (crypto.c:133-144, crypto_evm.c:157-173).
SignatureIsOfMessage ==
    answer.status = "OK" /\ IsSign =>
        LET of == << command.path, Digest(command) >>
            rs == Bytes("r", of, ScalarLen) \o Bytes("s", of, ScalarLen)
        IN  IF IsEvm
            THEN answer.bytes = Bytes("eth v", of, 1) \o rs
                                \o Bytes("der", of, Len(answer.bytes) - DerOffset)
            ELSE answer.bytes = rs \o Bytes("v", of, 1)

\* An answer that refuses carries no data, and no part of a signature stays
\* in the I/O buffer behind it, even if the signature was already made
\* (crypto.c:149-151, crypto_evm.c:135-137).
FailureLeavesNoSignature ==
    answer.status \notin {"none", "OK"} =>
        /\ answer.bytes = << >>
        /\ \A k \in DOMAIN io : io[k].part \notin {"r", "s", "v", "eth v", "der"}

\* A command is answered, with data or with an error, and the device is free
\* for the next one.
EveryRequestAnswered == pc # "idle" ~> pc = "idle"
=============================================================================
