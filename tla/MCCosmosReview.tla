--------------------------- MODULE MCCosmosReview ---------------------------
(***************************************************************************)
(* Cosmos transactions for TLC: the messages of tests/testvectors/amino.json *)
(* alone and in batches, on the default chain and on another, and          *)
(* documents that are not the canonical form of a transaction.             *)
(***************************************************************************)
EXTENDS CosmosReviewProperties

MCKeyOrder == << "account_number", "address", "amount", "chain_id", "coins", "contract",
                 "delegator_address", "denom", "fee", "from_address", "funds", "gas",
                 "inputs", "memo", "msg", "msgs", "option", "outputs", "proposal_id",
                 "sender", "sequence", "to_address", "type", "validator_address",
                 "value", "voter" >>

Field(key, kind, is) == [key |-> key, kind |-> kind, is |-> is]
F(key, word) == Field(key, "word", word)
Coins(amount) == << << amount, "usei" >> >>

Send(amounts) ==
    [type |-> "cosmos-sdk/MsgSend",
     value |-> << Field("amount", "coins", amounts), F("from_address", "sei1a"),
                  F("to_address", "sei1b") >>]

Delegate(who, whom) ==
    [type |-> "cosmos-sdk/MsgDelegate",
     value |-> << Field("amount", "coins", Coins("7")), F("delegator_address", who),
                  F("validator_address", whom) >>]

Withdraw(who) ==
    [type |-> "cosmos-sdk/MsgWithdrawDelegationReward",
     value |-> << F("delegator_address", who), F("validator_address", "val2") >>]

Party(address, amount) == [address |-> address, coins |-> Coins(amount)]
MultiSend(outputs) ==
    [type |-> "cosmos-sdk/MsgMultiSend",
     value |-> << Field("inputs", "parties", << Party("sei1a", "9") >>),
                  Field("outputs", "parties", outputs) >>]
Outputs == << Party("sei1b", "4"), Party("sei1c", "5") >>

Execute(funds) ==
    [type |-> "wasm/MsgExecuteContract",
     value |-> << F("contract", "sei1k"), Field("funds", "coins", funds),
                  Field("msg", "json", << << "option", "" >>, << "value", "1" >> >>),
                  F("sender", "sei1a") >>]

Vote(proposal) ==
    [type |-> "cosmos-sdk/MsgVote",
     value |-> << Field("option", "number", "1"), F("proposal_id", proposal),
                  F("voter", "sei1a") >>]

Tx(chain, memo, fee, msgs) ==
    [account_number |-> "3", chain_id |-> chain, fee |-> fee, gas |-> "100",
     memo |-> memo, msgs |-> msgs, sequence |-> "4"]

Fee == Coins("2")

MCTransactions ==
    {Tx(chain, "", Fee, << Delegate("sei1a", "val1"), Delegate("sei1a", "val2") >>) :
        chain \in {"pacific-1", "atlantic-2"}}
    \cup {Tx("pacific-1", "", Fee,
             << Withdraw("sei1a"), Delegate("sei1a", "val1"), Withdraw("sei1b") >>),
          Tx("pacific-1", "", Fee,
             << Send(Coins("7")), Delegate("sei1a", "val1"), Withdraw("sei1a") >>),
          Tx("pacific-1", "hi", Fee, << Send(Coins("7")), Send(<< >>) >>),
          Tx("pacific-1", "hi", << >>, << Execute(Coins("7")), Execute(<< >>) >>),
          Tx("pacific-1", "", << << "2", "usei" >>, << "3", "uatom" >> >>,
             << Send(<< << "7", "usei" >>, << "8", "uatom" >> >>), Vote("12") >>),
          Tx("atlantic-2", "hi", Fee, << MultiSend(Outputs) >>),
          Tx("pacific-1", "", Fee, << MultiSend(Outputs), MultiSend(<< Party("sei1d", "9") >>) >>)}

\* A transaction whose coins or fields are not those of one, and documents
\* that are out of order, incomplete, too long or on no chain.
Plain(fee, msgs) ==
    Obj(<< Pair("account_number", Str("3")), Pair("chain_id", Str("pacific-1")),
           Pair("fee", fee), Pair("memo", Str("")), Pair("msgs", msgs),
           Pair("sequence", Str("4")) >>)
PlainFee == Obj(<< Pair("amount", EncodeCoins(Fee)), Pair("gas", Str("100")) >>)
PlainMsgs == Arr(<< EncodeMsg(Vote("12")) >>)

MCSpoilt ==
    {Malformed,
     Encode(Tx("1", "", Fee, << Vote("12") >>)),
     Plain(Obj(<< Pair("amount", Arr(<< Obj(<< Pair("amount", Str("2")) >>) >>)) >>), PlainMsgs),
     Plain(Obj(<< Pair("amount", EncodeCoins(<< << "", "usei" >> >>)) >>), PlainMsgs),
     Plain(Str("2"), Arr(<< >>)),
     Plain(PlainFee, Arr(<< Obj(<< Pair("type", Str("x")),
                                   Pair("value", Obj(<< Pair("sender", Str("a")),
                                                        Pair("funds", Str("b")) >>)) >>) >>)),
     Encode(Tx("pacific-1", "", Fee, [i \in 1 .. 10 |-> Vote("12")])),
     Obj(<< Pair("chain_id", Str("pacific-1")), Pair("msgs", PlainMsgs) >>)}

\* White space behind the last field, where it is found; behind the document, in
\* front of the fee's first key, behind a number and behind an empty array, where
\* it is not.
FeeWithSpace == Obj(<< Indented(Pair("amount", EncodeCoins(Fee))), Pair("gas", Str("100")) >>)
MsgWithSpace ==
    Obj(<< Pair("type", Str("x")),
           Pair("value", Obj(<< Pair("funds", Trailed(Arr(<< >>))),
                                Pair("option", Trailed(Number("1"))) >>)) >>)

SpacedDocuments ==
    {Obj(<< Pair("account_number", Str("3")), Pair("chain_id", Str("pacific-1")),
            Pair("fee", PlainFee), Pair("memo", Str("")), Pair("msgs", PlainMsgs),
            Trailed(Pair("sequence", Str("4"))) >>),
     Trailed(Plain(FeeWithSpace, Arr(<< MsgWithSpace >>)))}

\* The depth goes down with the type of a call and up with that of a MultiSend,
\* and the inner message of the call is shown whole or by its only field.
Call ==
    [type |-> "wasm/MsgExecuteContract",
     value |-> << F("contract", "sei1k"), Field("msg", "json", << << "option", "1" >> >>),
                  F("sender", "sei1a") >>]

MCTurning == {Tx("pacific-1", "", Fee, << Call, MultiSend(<< Party("sei1b", "9") >>) >>)}
TurningDocuments == {Encode(t) : t \in MCTurning}

MCDocuments ==
    {Encode(t) : t \in MCTransactions} \cup MCSpoilt \cup SpacedDocuments
    \cup TurningDocuments

\* All of them are JSON, and but for these of one depth.
ASSUME DocumentsAreJson ==
    \A doc \in MCDocuments :
        /\ IsJson(doc)
        /\ OneDepth(doc) <=> doc \notin TurningDocuments

ASSUME TransactionsTurnDeep == \A t \in MCTurning : TurnsDeep(t)

\* The transactions without MsgMultiSend are the ordinary ones, of which
\* CosmosScreensProofs proves that the review shows them whole.
HasMultiSend(t) == \E m \in Range(t.msgs) : m.type = "cosmos-sdk/MsgMultiSend"

ASSUME OrdinaryTransactions ==
    \A t \in MCTransactions :
        /\ Ordinary(t) <=> ~HasMultiSend(t)
        /\ Ordinary(t) => Never(Encode(t), MsgMultiSend)

-----------------------------------------------------------------------------
MixedTransactions ==
    {Tx("pacific-1", "", Fee, << MultiSend(Outputs), Execute(Coins("7")) >>)}
MixedDocuments == {Encode(t) : t \in MixedTransactions}

\* 64 messages of four items each.
ManyTransactions ==
    {Tx("pacific-1", "", Fee, [i \in 1 .. 64 |-> IF i < 64 THEN Vote("12")
                                                 ELSE Send(Coins("7"))])}
ManyDocuments == {Encode(t) : t \in ManyTransactions}
=============================================================================
