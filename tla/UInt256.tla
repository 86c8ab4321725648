------------------------------ MODULE UInt256 ------------------------------
(***************************************************************************)
(* The wide integers of uint256.c.  A uint128 is a pair of words, a uint256 *)
(* a pair of uint128, the upper half first, as in the code; a word is a    *)
(* uint64_t of the code, of WordBytes bytes of ByteBits bits here, so that *)
(* the arithmetic can be checked on words TLC can enumerate.  Everything   *)
(* the code writes as 32, 64, 128 and 256 is derived from the word.        *)
(***************************************************************************)
EXTENDS Integers, Sequences, FiniteSets

CONSTANTS
    ByteBits,   \* 8 in the code
    WordBytes   \* 8 in the code

ASSUME WidthsAssumption ==
    /\ ByteBits \in Nat \ {0} /\ WordBytes \in Nat \ {0}
    /\ (ByteBits * WordBytes) % 2 = 0

Bits == ByteBits * WordBytes        \* of a uint64_t

Base == 2^Bits

Half == 2^(Bits \div 2)             \* of a uint32_t

Word == 0 .. Base - 1

UInt128 == Word \X Word

UInt256 == UInt128 \X UInt128

UPPER(n) == n[1]

LOWER(n) == n[2]

Zero128 == << 0, 0 >>

Zero256 == << Zero128, Zero128 >>

\* What a number stands for.
Value128(n) == UPPER(n) * Base + LOWER(n)

Value256(n) == Value128(UPPER(n)) * Base * Base + Value128(LOWER(n))

-----------------------------------------------------------------------------
(* Operations on words, as C defines them for uint64_t. *)

Wrap(n) == n % Base

BoolToInt(b) == IF b THEN 1 ELSE 0

ShiftLeft(word, value) == Wrap(word * 2^value)

ShiftRight(word, value) == word \div 2^value

Bit(word, k) == (word \div 2^k) % 2

\* The words' lowest k bits, for k up to all of them.
Or(word1, word2) ==
    LET lowest[k \in 0 .. Bits] ==
            IF k = 0 THEN 0
            ELSE lowest[k - 1]
                 + BoolToInt(Bit(word1, k - 1) + Bit(word2, k - 1) > 0) * 2^(k - 1)
    IN  lowest[Bits]

\* How many shifts to the right leave nothing of the word.
BitsOf(word) == Cardinality({k \in 0 .. Bits - 1 : word >= 2^k})

-----------------------------------------------------------------------------
(* Bytes, the most significant one first. *)

BytesOf256 == 4 * WordBytes

\* *value = (*value << 8) + the byte; bytes are numbered from 1.
readUint64BE(bytes, at) ==
    LET value[k \in 0 .. WordBytes] ==
            IF k = 0 THEN 0 ELSE value[k - 1] * 2^ByteBits + bytes[at + k]
    IN  value[WordBytes]

readu128BE(bytes, at) ==
    << readUint64BE(bytes, at), readUint64BE(bytes, at + WordBytes) >>

readu256BE(bytes) == << readu128BE(bytes, 0), readu128BE(bytes, 2 * WordBytes) >>

\* Mutant of RightAligned: the field is copied to the front of the buffer.
LeftAligned(bytes) ==
    [k \in 1 .. BytesOf256 |-> IF k <= Len(bytes) THEN bytes[k] ELSE 0]

\* rlp_readUInt256 copies a field to the end of a zeroed buffer.
RightAligned(bytes) ==
    [k \in 1 .. BytesOf256 |->
        IF k > BytesOf256 - Len(bytes) THEN bytes[k - (BytesOf256 - Len(bytes))] ELSE 0]

-----------------------------------------------------------------------------
zero128(n) == LOWER(n) = 0 /\ UPPER(n) = 0

zero256(n) == zero128(LOWER(n)) /\ zero128(UPPER(n))

bits128(n) == IF UPPER(n) # 0 THEN Bits + BitsOf(UPPER(n)) ELSE BitsOf(LOWER(n))

bits256(n) ==
    IF ~zero128(UPPER(n)) THEN 2 * Bits + bits128(UPPER(n)) ELSE bits128(LOWER(n))

gt128(n1, n2) ==
    IF UPPER(n1) = UPPER(n2) THEN LOWER(n1) > LOWER(n2) ELSE UPPER(n1) > UPPER(n2)

gt256(n1, n2) ==
    IF UPPER(n1) = UPPER(n2) THEN gt128(LOWER(n1), LOWER(n2))
                             ELSE gt128(UPPER(n1), UPPER(n2))

gte256(n1, n2) == gt256(n1, n2) \/ n1 = n2

add128(n1, n2) ==
    << Wrap(UPPER(n1) + UPPER(n2)
            + BoolToInt(Wrap(LOWER(n1) + LOWER(n2)) < LOWER(n1))),
       Wrap(LOWER(n1) + LOWER(n2)) >>

add256(n1, n2) ==
    << IF gt128(LOWER(n1), add128(LOWER(n1), LOWER(n2)))
       THEN add128(add128(UPPER(n1), UPPER(n2)), << 0, 1 >>)
       ELSE add128(UPPER(n1), UPPER(n2)),
       add128(LOWER(n1), LOWER(n2)) >>

\* Mutant of minus128: the lower word of a target that is also the first
\* number is written before the borrow is taken from it.
MinusLowerFirst(n1, n2) ==
    LET lower == Wrap(LOWER(n1) - LOWER(n2))
    IN  << Wrap(UPPER(n1) - UPPER(n2) - BoolToInt(Wrap(lower - LOWER(n2)) > lower)),
           lower >>

minus128(n1, n2) ==
    << Wrap(UPPER(n1) - UPPER(n2)
            - BoolToInt(Wrap(LOWER(n1) - LOWER(n2)) > LOWER(n1))),
       Wrap(LOWER(n1) - LOWER(n2)) >>

minus256(n1, n2) ==
    << IF gt128(minus128(LOWER(n1), LOWER(n2)), LOWER(n1))
       THEN minus128(minus128(UPPER(n1), UPPER(n2)), << 0, 1 >>)
       ELSE minus128(UPPER(n1), UPPER(n2)),
       minus128(LOWER(n1), LOWER(n2)) >>

or128(n1, n2) == << Or(UPPER(n1), UPPER(n2)), Or(LOWER(n1), LOWER(n2)) >>

or256(n1, n2) == << or128(UPPER(n1), UPPER(n2)), or128(LOWER(n1), LOWER(n2)) >>

-----------------------------------------------------------------------------
(* Shifts.  A branch keeps every shift of a word below the word's width. *)

shiftl128(n, value) ==
    IF value >= 2 * Bits THEN Zero128
    ELSE IF value >= Bits THEN << ShiftLeft(LOWER(n), value - Bits), 0 >>
    ELSE IF value = 0 THEN n
    ELSE << Wrap(ShiftLeft(UPPER(n), value) + ShiftRight(LOWER(n), Bits - value)),
            ShiftLeft(LOWER(n), value) >>

shiftr128(n, value) ==
    IF value >= 2 * Bits THEN Zero128
    ELSE IF value >= Bits THEN << 0, ShiftRight(UPPER(n), value - Bits) >>
    ELSE IF value = 0 THEN n
    ELSE << ShiftRight(UPPER(n), value),
            Wrap(ShiftLeft(UPPER(n), Bits - value) + ShiftRight(LOWER(n), value)) >>

shiftl256(n, value) ==
    IF value >= 4 * Bits THEN Zero256
    ELSE IF value >= 2 * Bits THEN << shiftl128(LOWER(n), value - 2 * Bits), Zero128 >>
    ELSE IF value = 0 THEN n
    ELSE << add128(shiftl128(UPPER(n), value), shiftr128(LOWER(n), 2 * Bits - value)),
            shiftl128(LOWER(n), value) >>

\* Mutant of shiftr256: the bits that leave the upper half are lost.
ShiftRightHalves(n, value) == << shiftr128(UPPER(n), value), shiftr128(LOWER(n), value) >>

shiftr256(n, value) ==
    IF value >= 4 * Bits THEN Zero256
    ELSE IF value >= 2 * Bits THEN << Zero128, shiftr128(UPPER(n), value - 2 * Bits) >>
    ELSE IF value = 0 THEN n
    ELSE << shiftr128(UPPER(n), value),
            add128(shiftr128(LOWER(n), value), shiftl128(UPPER(n), 2 * Bits - value)) >>

-----------------------------------------------------------------------------
(* Multiplication by columns.  The digits of a factor are counted from the  *)
(* left; product << k, y >> is that of the k-th digit from the right of the *)
(* first factor and of digit y of the second, as in the code.  l and h are  *)
(* the lower and the upper digit of each product.                           *)

Digits == (0 .. 3) \X (0 .. 3)

HalfWords(n) ==
    << UPPER(n) \div Half, UPPER(n) % Half, LOWER(n) \div Half, LOWER(n) % Half >>

\* The columns of half words are added up in uint64_t.
Columns128(l, h) ==
    LET third32  == Wrap(l[0, 2] + h[0, 3] + l[1, 3])
        second32 == Wrap(l[0, 1] + h[0, 2] + l[1, 2] + h[1, 3] + l[2, 3])
        first32  == Wrap(l[0, 0] + h[0, 1] + l[1, 1] + h[1, 2] + l[2, 2] + h[2, 3]
                         + l[3, 3])
    IN  add128(<< 0, l[0, 3] >>,
               add128(<< second32, 0 >>,
                      add128(<< Wrap(first32 * Half), 0 >>,
                             << third32 \div Half, Wrap(third32 * Half) >>)))

HalfDigits(p) ==
    Columns128([d \in Digits |-> p[d] % Half], [d \in Digits |-> p[d] \div Half])

Products128(top, bottom) ==
    [d \in Digits |-> Wrap(top[4 - d[1]] * bottom[d[2] + 1])]

mul128(n1, n2) == HalfDigits(Products128(HalfWords(n1), HalfWords(n2)))

Words(n) ==
    << << 0, UPPER(UPPER(n)) >>, << 0, LOWER(UPPER(n)) >>,
       << 0, UPPER(LOWER(n)) >>, << 0, LOWER(LOWER(n)) >> >>

\* Mutant of Combine: the columns are not shifted against each other.
CombineUnshifted(first64, second64, third64, fourth64) ==
    add256(<< Zero128, fourth64 >>,
           add256(<< second64, Zero128 >>,
                  add256(<< first64, Zero128 >>, << Zero128, third64 >>)))

\* The columns in their places.  What the third column carries is put into
\* the uppermost word.
Combine(first64, second64, third64, fourth64) ==
    add256(<< Zero128, fourth64 >>,
           add256(<< second64, Zero128 >>,
                  add256(<< shiftl128(first64, Bits), Zero128 >>,
                         << << UPPER(third64), 0 >>, shiftl128(third64, Bits) >>)))

Columns256(l, h) ==
    LET third64  == add128(l[1, 3], add128(l[0, 2], h[0, 3]))
        second64 == add128(l[2, 3], add128(h[1, 3],
                        add128(l[1, 2], add128(l[0, 1], h[0, 2]))))
        first64  == add128(l[3, 3], add128(h[2, 3],
                        add128(l[2, 2], add128(h[1, 2],
                            add128(l[1, 1], add128(l[0, 0], h[0, 1]))))))
    IN  Combine(first64, second64, third64, l[0, 3])

WordDigits(p) ==
    Columns256([d \in Digits |-> << 0, LOWER(p[d]) >>],
               [d \in Digits |-> << 0, UPPER(p[d]) >>])

Products256(top, bottom) ==
    [d \in Digits |-> mul128(top[4 - d[1]], bottom[d[2] + 1])]

mul256(n1, n2) == WordDigits(Products256(Words(n1), Words(n2)))
=============================================================================
