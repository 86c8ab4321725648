--------------------------- MODULE NumberDisplay ---------------------------
(***************************************************************************)
(* How a number gets onto the screen: the fields are read, multiplied when *)
(* a fee is asked for, and written digit by digit by tostring256, each     *)
(* digit by a long division.  All of it is one call on the stack; a step   *)
(* here is one turn of one of its loops.                                   *)
(***************************************************************************)
EXTENDS UInt256

CONSTANTS
    Calls,      \* the calls: [by, fields], a field being [kind, bytes]
    OutLength   \* the size of bufferUI or tmpBuffer, 100 in the code

\* Room for one digit and the terminator.
ASSUME OutLengthAssumption == OutLength \in Nat \ {0, 1}

DECIMAL_BASE == 10

\* The base is a uint32_t of the code.
ASSUME DecimalAssumption == DECIMAL_BASE < Base

\* printEVMMaxFees takes two fields, the others one.
ASSUME CallsAssumption ==
    \A c \in Calls :
        /\ DOMAIN c.fields = IF c.by = "printEVMMaxFees" THEN {1, 2} ELSE {1}
        /\ \A k \in DOMAIN c.fields : c.fields[k].bytes \in Seq(0 .. 2^ByteBits - 1)

VARIABLES
    pc,         \* where the call is: "idle", "digit", "divide" or "done"
    call,       \* what is printed
    rDiv,       \* what is left of the number
    out,        \* the digits written so far, the last one first
    loop,       \* the variables of divmod256
    result      \* "none", "shown" or "error"

vars == << pc, call, rDiv, out, loop, result >>

NoCall == [by |-> "none", fields |-> << >>]

NoLoop == [copyd |-> Zero256, adder |-> Zero256, resDiv |-> Zero256, resMod |-> Zero256]

Init ==
    /\ pc = "idle" /\ call = NoCall
    /\ rDiv = Zero256 /\ out = << >> /\ loop = NoLoop
    /\ result = "none"

base == << Zero128, << 0, DECIMAL_BASE >> >>

one == << Zero128, << 0, 1 >> >>

-----------------------------------------------------------------------------
\* Mutant of Readable: a field as long as the number is refused.
ReadableShorter(field) == field.kind # "RLP_KIND_LIST" /\ Len(field.bytes) < BytesOf256

\* rlp_readUInt256 takes no list and nothing longer than the number.
Readable(field) == field.kind # "RLP_KIND_LIST" /\ Len(field.bytes) <= BytesOf256

\* rlp_readUInt256
Read(field) == readu256BE(RightAligned(field.bytes))

\* printEVMMaxFees multiplies; printRLPNumber and printERC20Value do not.
NumberOf(c) ==
    IF c.by = "printEVMMaxFees" THEN mul256(Read(c.fields[1]), Read(c.fields[2]))
                                ELSE Read(c.fields[1])

Refuse ==
    /\ result' = "error" /\ pc' = "done"
    /\ UNCHANGED << rDiv, out, loop >>

\* Up to the loop of tostring256.
Ask(c) ==
    /\ pc = "idle"
    /\ call' = c
    /\ \/ /\ \E k \in DOMAIN c.fields : ~Readable(c.fields[k])
          /\ Refuse
       \/ /\ \A k \in DOMAIN c.fields : Readable(c.fields[k])
          /\ rDiv' = NumberOf(c)
          /\ pc' = "digit"
          /\ UNCHANGED << out, loop, result >>

\* Mutant of OutOfSpace: the byte for the terminator is not kept.
OutOfSpaceWithoutByte == Len(out) > OutLength - 1

\* outLength was decremented to keep a byte for the terminator.
OutOfSpace == Len(out) > (OutLength - 1) - 1

NoSpace ==
    /\ pc = "digit" /\ OutOfSpace
    /\ Refuse
    /\ UNCHANGED call

\* divmod256 returns, a digit is written, and the loop goes on unless
\* nothing is left of the number.
Digit(div, mod) ==
    /\ rDiv' = div
    /\ out' = Append(out, LOWER(LOWER(mod)))
    /\ loop' = NoLoop
    /\ pc' = IF zero256(div) THEN "done" ELSE "digit"
    /\ result' = IF zero256(div) THEN "shown" ELSE "none"
    /\ UNCHANGED call

\* Mutant of Remainder: the quotient is cleared before the remainder is
\* copied, when both are written to where the dividend is.
RemainderCleared(l) == Zero256

\* The remainder of a dividend smaller than the divisor.  retDiv and l are
\* one variable, so the order of the two assignments matters.
Remainder(l) == l

DivideSmall ==
    /\ pc = "digit" /\ ~OutOfSpace
    /\ gt256(base, rDiv)
    /\ Digit(Zero256, Remainder(rDiv))

diffBits == bits256(rDiv) - bits256(base)

\* The divisor is shifted under the highest bit of the dividend.
Shifted == [copyd |-> shiftl256(base, diffBits), adder |-> shiftl256(one, diffBits),
            resDiv |-> Zero256, resMod |-> rDiv]

\* Mutants of Down: one of the two is not shifted.
DownCopydOnly(l) == [l EXCEPT !.copyd = shiftr256(l.copyd, 1)]

DownAdderOnly(l) == [l EXCEPT !.adder = shiftr256(l.adder, 1)]

Down(l) == [l EXCEPT !.copyd = shiftr256(l.copyd, 1), !.adder = shiftr256(l.adder, 1)]

StartDivision ==
    /\ pc = "digit" /\ ~OutOfSpace
    /\ ~gt256(base, rDiv)
    /\ loop' = IF gt256(Shifted.copyd, rDiv) THEN Down(Shifted) ELSE Shifted
    /\ pc' = "divide"
    /\ UNCHANGED << call, rDiv, out, result >>

\* Mutant of Dividing: a remainder as large as the divisor is left.
DividingGreater == gt256(loop.resMod, base)

Dividing == gte256(loop.resMod, base)

\* Subtract the shifted divisor if it fits.
Subtract(l) ==
    IF gte256(l.resMod, l.copyd)
    THEN [l EXCEPT !.resMod = minus256(l.resMod, l.copyd),
                   !.resDiv = or256(l.resDiv, l.adder)]
    ELSE l

Divide ==
    /\ pc = "divide" /\ Dividing
    /\ loop' = Down(Subtract(loop))
    /\ UNCHANGED << pc, call, rDiv, out, result >>

EndDivision ==
    /\ pc = "divide" /\ ~Dividing
    /\ Digit(loop.resDiv, loop.resMod)

\* The caller formats and pages the reversed digits, or fails; the numbers
\* of this call are gone.
Return ==
    /\ pc = "done"
    /\ pc' = "idle" /\ call' = NoCall
    /\ rDiv' = Zero256 /\ out' = << >> /\ result' = "none"
    /\ UNCHANGED loop

Step == NoSpace \/ DivideSmall \/ StartDivision \/ Divide \/ EndDivision \/ Return

Next == (\E c \in Calls : Ask(c)) \/ Step

\* The processor goes on with the call it runs.
Spec == Init /\ [][Next]_vars /\ WF_vars(Step)

-----------------------------------------------------------------------------
(* Properties *)

TypeOK ==
    /\ pc \in {"idle", "digit", "divide", "done"}
    /\ call \in Calls \cup {NoCall}
    /\ rDiv \in UInt256
    /\ out \in Seq(0 .. DECIMAL_BASE - 1)
    /\ loop \in [copyd : UInt256, adder : UInt256, resDiv : UInt256, resMod : UInt256]
    /\ result \in {"none", "shown", "error"}

\* The digits and their terminator stay inside the buffer of the caller
\* (uint256.c:551-553 writes out[offset++] and then out[offset]).
NumeralInBuffer == Len(out) + 1 <= OutLength

\* The loop of divmod256 (uint256.c:472-479) keeps dividend = quotient *
\* divisor + remainder at every turn, while copyd stays the divisor times
\* adder and twice copyd stays above the remainder: what ends the loop, and
\* ends it with a remainder below the divisor.
DivisionHolds ==
    pc = "divide" =>
        /\ Value256(rDiv) = Value256(loop.resDiv) * DECIMAL_BASE + Value256(loop.resMod)
        /\ Value256(loop.resMod) >= DECIMAL_BASE =>
              /\ Value256(loop.copyd) = Value256(loop.adder) * DECIMAL_BASE
              /\ Value256(loop.resMod) < 2 * Value256(loop.copyd)

\* The number a field is an encoding of: each byte by its place.
Encoded(field) ==
    LET bytes == field.bytes
        leading[k \in 0 .. Len(bytes)] ==
            IF k = 0 THEN 0
            ELSE leading[k - 1] + bytes[k] * 2^(ByteBits * (Len(bytes) - k))
    IN  leading[Len(bytes)]

\* What a reader of the screen should see.
Meant(c) ==
    IF c.by = "printEVMMaxFees" THEN Encoded(c.fields[1]) * Encoded(c.fields[2])
                                ELSE Encoded(c.fields[1])

\* The powers of the base.
Place[n \in Nat] == IF n = 0 THEN 1 ELSE DECIMAL_BASE * Place[n - 1]

\* The number of a numeral whose last digit comes first.
Reads(digits) ==
    LET last[k \in 0 .. Len(digits)] ==
            IF k = 0 THEN 0 ELSE last[k - 1] + digits[k] * Place[k - 1]
    IN  last[Len(digits)]

NoLeadingZero == Len(out) > 1 => out[Len(out)] # 0

IsFee(c) == c.by = "printEVMMaxFees"

SmallFactors(c) == \A k \in DOMAIN c.fields : Encoded(c.fields[k]) < Base

\* The numeral on the screen is the number of the transaction, through
\* reading, multiplication, division and reversal, for every number and for
\* every fee whose two factors are each below 2^64 (evm_utils.c:125-145,
\* 202-238, evm_erc20.c:65-74).
NumeralIsNumber ==
    result = "shown" /\ (IsFee(call) => SmallFactors(call)) =>
        Reads(out) = Meant(call) /\ NoLeadingZero

\* A number is refused only when a field is a list or too long for a uint256,
\* or when its numeral does not fit in the buffer with its terminator.
RefusedOnlyIfTooLong ==
    result = "error" =>
        \/ \E k \in DOMAIN call.fields :
              \/ call.fields[k].kind = "RLP_KIND_LIST"
              \/ Len(call.fields[k].bytes) > 4 * WordBytes
        \/ (IsFee(call) => SmallFactors(call)) =>
              Meant(call) >= Place[OutLength - 1]

\* Every number is printed or refused: neither loop runs for ever, although
\* both count on a remainder that shrinks.
EveryNumberPrinted == pc # "idle" ~> pc = "idle"

\* "multiply gas limit and gas price" (evm_utils.c:215): a fee below 2^256
\* is shown as the product.
FeeIsProduct ==
    result = "shown" /\ IsFee(call) /\ Meant(call) < Base * Base * Base * Base =>
        Reads(out) = Meant(call)
=============================================================================
