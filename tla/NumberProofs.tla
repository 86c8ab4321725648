---------------------------- MODULE NumberProofs ----------------------------
(***************************************************************************)
(* The numbers on the screen are those of the transaction, for words of    *)
(* every width.  First arithmetic: powers of two, division, numbers of two *)
(* digits in a base.  Then every operation of uint256.c against that of    *)
(* the integers: comparison, subtraction, sum, the shifts, or, the length, *)
(* the product, and reading a field of bytes.  Last the call: types, the   *)
(* long division, the digits, the buffer and the refusals.                 *)
(***************************************************************************)
EXTENDS NumberDisplay, FiniteSetTheorems, NaturalsInduction, WellFoundedInduction, TLAPS

-----------------------------------------------------------------------------
(* A word has at least two values: 2^n is the number of sets of n elements. *)

\* 2^n is a positive number.
LEMMA PowerIsPositive == ASSUME NEW n \in Nat PROVE 2^n \in Nat \ {0}
  <1>1. IsFiniteSet(1 .. n) /\ Cardinality(1 .. n) = n
    BY FS_Interval
  <1>2. Cardinality(SUBSET (1 .. n)) = 2^n /\ IsFiniteSet(SUBSET (1 .. n))
    BY <1>1, FS_SUBSET
  <1>3. {} \in SUBSET (1 .. n)
    OBVIOUS
  <1>4. Cardinality(SUBSET (1 .. n)) \in Nat /\ Cardinality(SUBSET (1 .. n)) # 0
    BY <1>2, <1>3, FS_CardinalityType, FS_EmptySet
  <1>5. QED
    BY <1>2, <1>4

\* There are at least two sets of n elements.
LEMMA PowerIsAboveOne == ASSUME NEW n \in Nat \ {0} PROVE 2^n > 1
  <1>1. IsFiniteSet(1 .. n) /\ Cardinality(1 .. n) = n
    BY FS_Interval
  <1>2. Cardinality(SUBSET (1 .. n)) = 2^n /\ IsFiniteSet(SUBSET (1 .. n))
    BY <1>1, FS_SUBSET
  <1>3. {{}, {1}} \subseteq SUBSET (1 .. n) /\ {} # {1}
    OBVIOUS
  <1>4. Cardinality({{}, {1}}) = 2
    <2>1. IsFiniteSet({{}}) /\ Cardinality({{}}) = 1
      BY FS_Singleton
    <2>2. Cardinality({{}} \cup {{1}}) = 2
      <3>1. {1} \notin {{}}
        BY <1>3
      <3>2. Cardinality({{}} \cup {{1}}) = Cardinality({{}}) + 1
        BY <2>1, <3>1, FS_AddElement
      <3>3. QED
        BY <2>1, <3>2
    <2>3. {{}} \cup {{1}} = {{}, {1}}
      OBVIOUS
    <2>4. QED
      BY <2>2, <2>3
  <1>5. Cardinality({{}, {1}}) <= Cardinality(SUBSET (1 .. n))
    BY <1>2, <1>3, FS_Subset
  <1>6. 2^n \in Nat
    BY <1>2, FS_CardinalityType
  <1>7. QED
    BY <1>2, <1>4, <1>5, <1>6

-----------------------------------------------------------------------------
(* Sequences of elements of which nothing is known. *)

\* A sequence stays one over more elements.
LEMMA SeqMonotone ==
    ASSUME NEW S, NEW T, S \subseteq T, NEW s \in Seq(S)
    PROVE  s \in Seq(T)
  OBVIOUS

\* The empty sequence.
LEMMA EmptyIsSequence == /\ \E S : << >> \in Seq(S)
                         /\ Len(<< >>) = 0
  <1>1. << >> \in Seq({}) /\ Len(<< >>) = 0
    OBVIOUS
  <1>2. QED
    BY <1>1

\* A length is a natural number.
LEMMA LengthIsNatural == ASSUME NEW s, \E S : s \in Seq(S) PROVE Len(s) \in Nat
  <1>1. PICK S : s \in Seq(S)
    OBVIOUS
  <1>2. QED
    BY <1>1

-----------------------------------------------------------------------------
(* Pairs of digits in a base. *)

\* A word has a value at all.
LEMMA BaseIsPositive == Base \in Nat \ {0}
  <1>1. Bits \in Nat
    BY WidthsAssumption DEF Bits
  <1>2. QED
    BY <1>1, PowerIsPositive DEF Base

\* A greater multiple of m is greater by at least m.
LEMMA Multiples ==
    ASSUME NEW a \in Nat, NEW b \in Nat, NEW m \in Nat, a > b
    PROVE  a * m >= b * m + m
  <1>1. PICK k \in Nat : a = b + 1 + k
    <2>1. a - b - 1 \in Nat /\ a = b + 1 + (a - b - 1)
      OBVIOUS
    <2>2. QED
      BY <2>1
  <1>2. (b + 1 + k) * m = b * m + m + k * m /\ k * m \in Nat
    OBVIOUS
  <1>3. QED
    BY <1>1, <1>2

\* Numbers of two digits in base m compare digit by digit.
LEMMA OrderOfPairs ==
    ASSUME NEW m \in Nat, NEW a \in Nat, NEW b \in Nat, NEW c \in 0 .. m - 1, NEW d \in 0 .. m - 1
    PROVE  /\ a * m + c > b * m + d <=> IF a = b THEN c > d ELSE a > b
           /\ a * m + c = b * m + d <=> a = b /\ c = d
  <1>1. CASE a = b
    BY <1>1
  <1>2. CASE a > b
    <2>1. a * m >= b * m + m
      BY <1>2, Multiples
    <2>2. a * m \in Nat /\ b * m \in Nat
      OBVIOUS
    <2> DEFINE x == a * m
               y == b * m
    <2>3. x \in Nat /\ y \in Nat /\ x >= y + m
      BY <2>1, <2>2
    <2> HIDE DEF x, y
    <2>4. x + c > y + d
      BY <2>3
    <2>5. QED
      BY <1>2, <2>3, <2>4 DEF x, y
  <1>3. CASE b > a
    <2>1. b * m >= a * m + m
      BY <1>3, Multiples
    <2>2. a * m \in Nat /\ b * m \in Nat
      OBVIOUS
    <2> DEFINE x == a * m
               y == b * m
    <2>3. x \in Nat /\ y \in Nat /\ y >= x + m
      BY <2>1, <2>2
    <2> HIDE DEF x, y
    <2>4. x + c < y + d
      BY <2>3
    <2>5. QED
      BY <1>3, <2>3, <2>4 DEF x, y
  <1>4. QED
    BY <1>1, <1>2, <1>3

-----------------------------------------------------------------------------
(* What uint64_t arithmetic makes of a number next to its range. *)

\* A word is left alone.
LEMMA WrapSmall == ASSUME NEW x \in Word PROVE Wrap(x) = x
  <1>1. Base \in Nat \ {0}
    BY BaseIsPositive
  <1> HIDE DEF Base
  <1>2. QED
    BY <1>1 DEF Wrap, Word

\* A negative difference of two words wraps around once.
LEMMA WrapNegative == ASSUME NEW x \in Int, 0 - Base <= x, x < 0 PROVE Wrap(x) = x + Base
  <1>1. Base \in Nat \ {0}
    BY BaseIsPositive
  <1> HIDE DEF Base
  <1>2. QED
    BY <1>1 DEF Wrap, Word

-----------------------------------------------------------------------------
(* 128 bits *)

\* A uint128 is its two words, and stands for a number below 2^128.
LEMMA Value128Range ==
    ASSUME NEW n \in UInt128
    PROVE  /\ UPPER(n) \in 0 .. Base - 1 /\ LOWER(n) \in 0 .. Base - 1
           /\ Value128(n) \in 0 .. Base * Base - 1
           /\ n = << UPPER(n), LOWER(n) >>
  <1>1. Base \in Nat \ {0}
    BY BaseIsPositive
  <1> HIDE DEF Base
  <1>2. /\ UPPER(n) \in 0 .. Base - 1 /\ LOWER(n) \in 0 .. Base - 1
        /\ n = << UPPER(n), LOWER(n) >>
    BY DEF UInt128, Word, UPPER, LOWER
  <1> DEFINE u == UPPER(n)
             l == LOWER(n)
  <1>3. u \in 0 .. Base - 1 /\ l \in 0 .. Base - 1
    BY <1>2
  <1> HIDE DEF u, l
  <1>4. Base * Base >= u * Base + Base
    BY <1>1, <1>3, Multiples
  <1>5. u * Base \in Nat /\ Base * Base \in Nat
    BY <1>1, <1>3
  <1>6. u * Base + l \in 0 .. Base * Base - 1
    BY <1>1, <1>3, <1>4, <1>5
  <1>7. QED
    BY <1>2, <1>6 DEF Value128, u, l

\* Two uint128 are equal exactly when their numbers are: equal128 compares
\* the words.
LEMMA ValueIsInjective ==
    ASSUME NEW n1 \in UInt128, NEW n2 \in UInt128
    PROVE  n1 = n2 <=> Value128(n1) = Value128(n2)
  <1> DEFINE u1 == UPPER(n1)
             l1 == LOWER(n1)
             u2 == UPPER(n2)
             l2 == LOWER(n2)
  <1>1. Base \in Nat \ {0}
    BY BaseIsPositive
  <1>2. /\ u1 \in 0 .. Base - 1 /\ l1 \in 0 .. Base - 1
        /\ u2 \in 0 .. Base - 1 /\ l2 \in 0 .. Base - 1
        /\ n1 = << u1, l1 >> /\ n2 = << u2, l2 >>
    BY Value128Range
  <1>3. Value128(n1) = u1 * Base + l1 /\ Value128(n2) = u2 * Base + l2
    BY DEF Value128
  <1> HIDE DEF Base, u1, l1, u2, l2
  <1>4. u1 \in Nat /\ u2 \in Nat
    BY <1>1, <1>2
  <1>5. u1 * Base + l1 = u2 * Base + l2 <=> u1 = u2 /\ l1 = l2
    BY <1>1, <1>2, <1>4, OrderOfPairs
  <1>6. QED
    BY <1>2, <1>3, <1>5

\* gt128 (uint256.c:223-228) is the order of the integers.
THEOREM Gt128IsGreater ==
    ASSUME NEW n1 \in UInt128, NEW n2 \in UInt128
    PROVE  gt128(n1, n2) <=> Value128(n1) > Value128(n2)
  <1>1. Base \in Nat \ {0}
    BY BaseIsPositive
  <1>2. /\ UPPER(n1) \in 0 .. Base - 1 /\ LOWER(n1) \in 0 .. Base - 1
        /\ UPPER(n2) \in 0 .. Base - 1 /\ LOWER(n2) \in 0 .. Base - 1
    BY Value128Range
  <1> HIDE DEF Base
  <1>3. UPPER(n1) \in Nat /\ UPPER(n2) \in Nat
    BY <1>1, <1>2
  <1>4. QED
    BY <1>1, <1>2, <1>3, OrderOfPairs DEF gt128, Value128

\* minus128 subtracts: the borrow it finds by comparing the wrapped
\* difference with the minuend (uint256.c:259-262) is the borrow there is.
THEOREM Minus128IsDifference ==
    ASSUME NEW n1 \in UInt128, NEW n2 \in UInt128, Value128(n2) <= Value128(n1)
    PROVE  /\ minus128(n1, n2) \in UInt128
           /\ Value128(minus128(n1, n2)) = Value128(n1) - Value128(n2)
  <1> DEFINE u1 == UPPER(n1)
             l1 == LOWER(n1)
             u2 == UPPER(n2)
             l2 == LOWER(n2)
             borrow == BoolToInt(Wrap(l1 - l2) > l1)
  <1>1. Base \in Nat \ {0} /\ Word = 0 .. Base - 1
    BY BaseIsPositive DEF Word
  <1>2. u1 \in 0 .. Base - 1 /\ l1 \in 0 .. Base - 1 /\ u2 \in 0 .. Base - 1 /\ l2 \in 0 .. Base - 1
    BY Value128Range
  <1>3. u1 \in Nat /\ u2 \in Nat /\ u1 * Base + l1 >= u2 * Base + l2
    BY <1>1, <1>2 DEF Value128
  <1>4. minus128(n1, n2) = << Wrap(u1 - u2 - borrow), Wrap(l1 - l2) >>
    BY DEF minus128
  <1>5. Value128(minus128(n1, n2)) = Wrap(u1 - u2 - borrow) * Base + Wrap(l1 - l2)
    BY <1>4 DEF Value128, UPPER, LOWER
  <1>6. Value128(n1) = u1 * Base + l1 /\ Value128(n2) = u2 * Base + l2
    BY DEF Value128
  <1> HIDE DEF u1, l1, u2, l2
  <1>7. /\ ~(u2 * Base + l2 > u1 * Base + l1)
    BY <1>1, <1>2, <1>3
  <1>8. u1 > u2 \/ (u1 = u2 /\ l1 >= l2)
    BY <1>1, <1>2, <1>3, <1>7, OrderOfPairs
  <1>9. CASE l1 >= l2
    <2>1. Wrap(l1 - l2) = l1 - l2 /\ borrow = 0
      BY <1>1, <1>2, <1>9, WrapSmall DEF BoolToInt
    <2> HIDE DEF borrow
    <2>2. u1 - u2 \in Word /\ Wrap(u1 - u2 - borrow) = u1 - u2
      BY <1>1, <1>2, <1>8, <2>1, WrapSmall
    <2>3. (u1 - u2) * Base + (l1 - l2) = (u1 * Base + l1) - (u2 * Base + l2)
      BY <1>1, <1>2
    <2>4. QED
      BY <1>1, <1>2, <1>4, <1>5, <1>6, <1>9, <2>1, <2>2, <2>3 DEF UInt128
  <1>10. CASE l1 < l2
    <2>1. Wrap(l1 - l2) = l1 - l2 + Base /\ borrow = 1
      BY <1>1, <1>2, <1>10, WrapNegative DEF BoolToInt
    <2> HIDE DEF borrow
    <2>2. u1 - u2 - 1 \in Word /\ Wrap(u1 - u2 - borrow) = u1 - u2 - 1
      BY <1>1, <1>2, <1>8, <1>10, <2>1, WrapSmall
    <2>3. (u1 - u2 - 1) * Base + (l1 - l2 + Base) = (u1 * Base + l1) - (u2 * Base + l2)
      BY <1>1, <1>2
    <2>4. l1 - l2 + Base \in Word
      BY <1>1, <1>2, <1>10
    <2>5. minus128(n1, n2) \in UInt128
      BY <1>4, <2>1, <2>2, <2>4 DEF UInt128
    <2>6. Value128(minus128(n1, n2)) = (u1 - u2 - 1) * Base + (l1 - l2 + Base)
      BY <1>5, <2>1, <2>2
    <2>7. QED
      BY <1>6, <2>3, <2>5, <2>6
  <1>11. QED
    BY <1>2, <1>9, <1>10

-----------------------------------------------------------------------------
(* 256 bits *)

\* A uint256 is its two halves, and its number has them as digits.
LEMMA Value256Range ==
    ASSUME NEW n \in UInt256
    PROVE  /\ UPPER(n) \in UInt128 /\ LOWER(n) \in UInt128
           /\ n = << UPPER(n), LOWER(n) >>
           /\ Value256(n) = Value128(UPPER(n)) * (Base * Base) + Value128(LOWER(n))
           /\ Value128(UPPER(n)) \in 0 .. Base * Base - 1
           /\ Value128(LOWER(n)) \in 0 .. Base * Base - 1
  <1>1. Base \in Nat
    BY BaseIsPositive
  <1>2. UPPER(n) \in UInt128 /\ LOWER(n) \in UInt128 /\ n = << UPPER(n), LOWER(n) >>
    BY DEF UInt256, UPPER, LOWER
  <1>3. /\ Value128(UPPER(n)) \in 0 .. Base * Base - 1
        /\ Value128(LOWER(n)) \in 0 .. Base * Base - 1
    BY <1>2, Value128Range
  <1> DEFINE u == Value128(UPPER(n))
             b == Base
  <1>4. u \in Int /\ b \in Nat
    <2>1. b * b \in Nat
      BY <1>1
    <2>2. QED
      BY <1>1, <1>3, <2>1
  <1> HIDE DEF u, b
  <1>5. u * b * b = u * (b * b)
    BY <1>4
  <1>6. QED
    BY <1>2, <1>3, <1>5 DEF Value256, u, b

\* gt256 (uint256.c:230-235), which the loop of divmod256 and the choice of
\* its first divisor rest on, is the order of the integers.
THEOREM Gt256IsGreater ==
    ASSUME NEW n1 \in UInt256, NEW n2 \in UInt256
    PROVE  gt256(n1, n2) <=> Value256(n1) > Value256(n2)
  <1> DEFINE m  == Base * Base
             u1 == Value128(UPPER(n1))
             l1 == Value128(LOWER(n1))
             u2 == Value128(UPPER(n2))
             l2 == Value128(LOWER(n2))
  <1>1. m \in Nat
    <2>1. Base \in Nat
      BY BaseIsPositive
    <2> HIDE DEF Base
    <2>2. QED
      BY <2>1
  <1>2. /\ UPPER(n1) \in UInt128 /\ LOWER(n1) \in UInt128
        /\ UPPER(n2) \in UInt128 /\ LOWER(n2) \in UInt128
        /\ Value256(n1) = u1 * m + l1 /\ Value256(n2) = u2 * m + l2
        /\ u1 \in 0 .. m - 1 /\ l1 \in 0 .. m - 1 /\ u2 \in 0 .. m - 1 /\ l2 \in 0 .. m - 1
    BY Value256Range
  <1>3. /\ gt128(UPPER(n1), UPPER(n2)) <=> u1 > u2
        /\ gt128(LOWER(n1), LOWER(n2)) <=> l1 > l2
    BY <1>2, Gt128IsGreater
  <1>4. UPPER(n1) = UPPER(n2) <=> u1 = u2
    BY <1>2, ValueIsInjective
  <1> HIDE DEF m, u1, l1, u2, l2
  <1>5. u1 \in Nat /\ u2 \in Nat
    BY <1>1, <1>2
  <1>6. u1 * m + l1 > u2 * m + l2 <=> IF u1 = u2 THEN l1 > l2 ELSE u1 > u2
    BY <1>1, <1>2, <1>5, OrderOfPairs
  <1>7. QED
    BY <1>2, <1>3, <1>4, <1>6 DEF gt256

\* A difference of two uint128 that would be negative wraps around once.
LEMMA Minus128Wraps ==
    ASSUME NEW n1 \in UInt128, NEW n2 \in UInt128, Value128(n1) < Value128(n2)
    PROVE  /\ minus128(n1, n2) \in UInt128
           /\ Value128(minus128(n1, n2)) = Value128(n1) - Value128(n2) + Base * Base
  <1> DEFINE u1 == UPPER(n1)
             l1 == LOWER(n1)
             u2 == UPPER(n2)
             l2 == LOWER(n2)
             borrow == BoolToInt(Wrap(l1 - l2) > l1)
  <1>1. Base \in Nat \ {0} /\ Word = 0 .. Base - 1
    BY BaseIsPositive DEF Word
  <1>2. u1 \in 0 .. Base - 1 /\ l1 \in 0 .. Base - 1 /\ u2 \in 0 .. Base - 1 /\ l2 \in 0 .. Base - 1
    BY Value128Range
  <1>3. u1 \in Nat /\ u2 \in Nat /\ u2 * Base + l2 > u1 * Base + l1
    BY <1>1, <1>2 DEF Value128
  <1>4. minus128(n1, n2) = << Wrap(u1 - u2 - borrow), Wrap(l1 - l2) >>
    BY DEF minus128
  <1>5. Value128(minus128(n1, n2)) = Wrap(u1 - u2 - borrow) * Base + Wrap(l1 - l2)
    BY <1>4 DEF Value128, UPPER, LOWER
  <1>6. Value128(n1) = u1 * Base + l1 /\ Value128(n2) = u2 * Base + l2
    BY DEF Value128
  <1> HIDE DEF u1, l1, u2, l2
  <1>7. u2 > u1 \/ (u2 = u1 /\ l2 > l1)
    BY <1>1, <1>2, <1>3, OrderOfPairs
  <1>8. CASE l1 >= l2
    <2>1. Wrap(l1 - l2) = l1 - l2 /\ borrow = 0 /\ l1 - l2 \in Word
      BY <1>1, <1>2, <1>8, WrapSmall DEF BoolToInt
    <2> HIDE DEF borrow
    <2>2. u1 - u2 + Base \in Word /\ Wrap(u1 - u2 - borrow) = u1 - u2 + Base
      BY <1>1, <1>2, <1>7, <1>8, <2>1, WrapNegative
    <2>3. (u1 - u2 + Base) * Base + (l1 - l2) = (u1 * Base + l1) - (u2 * Base + l2) + Base * Base
      BY <1>1, <1>2
    <2>4. minus128(n1, n2) \in UInt128
      BY <1>4, <2>1, <2>2 DEF UInt128
    <2>5. Value128(minus128(n1, n2)) = (u1 - u2 + Base) * Base + (l1 - l2)
      BY <1>5, <2>1, <2>2
    <2>6. QED
      BY <1>6, <2>3, <2>4, <2>5
  <1>9. CASE l1 < l2
    <2>1. Wrap(l1 - l2) = l1 - l2 + Base /\ borrow = 1 /\ l1 - l2 + Base \in Word
      BY <1>1, <1>2, <1>9, WrapNegative DEF BoolToInt
    <2> HIDE DEF borrow
    <2>2. u1 - u2 - 1 + Base \in Word /\ Wrap(u1 - u2 - borrow) = u1 - u2 - 1 + Base
      BY <1>1, <1>2, <1>7, <2>1, WrapNegative
    <2>3. (u1 - u2 - 1 + Base) * Base + (l1 - l2 + Base)
          = (u1 * Base + l1) - (u2 * Base + l2) + Base * Base
      BY <1>1, <1>2
    <2>4. minus128(n1, n2) \in UInt128
      BY <1>4, <2>1, <2>2 DEF UInt128
    <2>5. Value128(minus128(n1, n2)) = (u1 - u2 - 1 + Base) * Base + (l1 - l2 + Base)
      BY <1>5, <2>1, <2>2
    <2>6. QED
      BY <1>6, <2>3, <2>4, <2>5
  <1>10. QED
    BY <1>2, <1>8, <1>9

\* minus256 (uint256.c:264-275), by which divmod256 subtracts the shifted
\* divisor, subtracts: it borrows from the upper half exactly when the lower
\* half has wrapped.
THEOREM Minus256IsDifference ==
    ASSUME NEW n1 \in UInt256, NEW n2 \in UInt256, Value256(n2) <= Value256(n1)
    PROVE  /\ minus256(n1, n2) \in UInt256
           /\ Value256(minus256(n1, n2)) = Value256(n1) - Value256(n2)
  <1> DEFINE m  == Base * Base
             n1u == UPPER(n1)
             n1l == LOWER(n1)
             n2u == UPPER(n2)
             n2l == LOWER(n2)
             u1 == Value128(n1u)
             l1 == Value128(n1l)
             u2 == Value128(n2u)
             l2 == Value128(n2l)
             low == minus128(n1l, n2l)
             high == minus128(n1u, n2u)
             unit == << 0, 1 >>
  <1>1. m \in Nat \ {0} /\ Base \in Nat \ {0}
    <2>1. Base \in Nat \ {0}
      BY BaseIsPositive
    <2> HIDE DEF Base
    <2>2. QED
      BY <2>1
  <1>2. /\ n1u \in UInt128 /\ n1l \in UInt128
        /\ n2u \in UInt128 /\ n2l \in UInt128
        /\ Value256(n1) = u1 * m + l1 /\ Value256(n2) = u2 * m + l2
        /\ u1 \in 0 .. m - 1 /\ l1 \in 0 .. m - 1 /\ u2 \in 0 .. m - 1 /\ l2 \in 0 .. m - 1
    BY Value256Range
  <1>3. minus256(n1, n2) = << IF gt128(low, n1l) THEN minus128(high, unit) ELSE high, low >>
    BY DEF minus256
  <1>4. low \in UInt128 => (gt128(low, n1l) <=> Value128(low) > l1)
    BY <1>2, Gt128IsGreater
  <1>5. ASSUME NEW h \in UInt128, NEW l \in UInt128
        PROVE  << h, l >> \in UInt256 /\ Value256(<< h, l >>) = Value128(h) * m + Value128(l)
    <2>1. << h, l >> \in UInt256 /\ UPPER(<< h, l >>) = h /\ LOWER(<< h, l >>) = l
      BY DEF UInt256, UPPER, LOWER
    <2>2. QED
      BY <2>1, Value256Range
  <1>6. /\ l2 <= l1 => low \in UInt128 /\ Value128(low) = l1 - l2
        /\ l1 < l2 => low \in UInt128 /\ Value128(low) = l1 - l2 + m
    BY <1>2, Minus128IsDifference, Minus128Wraps
  <1>7. u2 <= u1 => high \in UInt128 /\ Value128(high) = u1 - u2
    BY <1>2, Minus128IsDifference
  <1>9. Base > 1
    <2>1. Bits \in Nat \ {0}
      BY WidthsAssumption DEF Bits
    <2>2. QED
      BY <2>1, PowerIsAboveOne DEF Base
  <1>10. unit \in UInt128 /\ Value128(unit) = 1
    <2>1. 0 \in Word /\ 1 \in Word
      BY <1>1, <1>9 DEF Word
    <2>2. unit \in UInt128
      BY <2>1 DEF UInt128
    <2> HIDE DEF Base
    <2>3. Value128(<< 0, 1 >>) = 0 * Base + 1
      BY DEF Value128, UPPER, LOWER
    <2>4. QED
      BY <1>1, <2>2, <2>3
  <1>11. high \in UInt128 /\ Value128(high) >= 1 =>
            minus128(high, unit) \in UInt128 /\ Value128(minus128(high, unit)) = Value128(high) - 1
    BY <1>10, Minus128IsDifference
  <1> HIDE DEF m, n1u, n1l, n2u, n2l, u1, l1, u2, l2, low, high, unit, Base
  <1>12. u1 \in Nat /\ u2 \in Nat
    BY <1>1, <1>2
  <1>13. u1 * m + l1 >= u2 * m + l2
    <2> DEFINE x == u1 * m + l1
               y == u2 * m + l2
    <2>1. x \in Int /\ y \in Int
      BY <1>1, <1>2
    <2>2. y <= x
      BY <1>2
    <2> HIDE DEF x, y
    <2>3. x >= y
      BY <2>1, <2>2
    <2>4. QED
      BY <2>3 DEF x, y
  <1>14. u1 > u2 \/ (u1 = u2 /\ l1 >= l2)
    BY <1>1, <1>2, <1>12, <1>13, OrderOfPairs
  <1>15. CASE l1 >= l2
    <2>1. low \in UInt128 /\ Value128(low) = l1 - l2 /\ high \in UInt128 /\ Value128(high) = u1 - u2
      BY <1>2, <1>6, <1>7, <1>12, <1>14, <1>15
    <2>2. minus256(n1, n2) = << high, low >>
      BY <1>1, <1>2, <1>3, <1>4, <1>15, <2>1
    <2>3. Value256(minus256(n1, n2)) = (u1 - u2) * m + (l1 - l2) /\ minus256(n1, n2) \in UInt256
      BY <1>5, <2>1, <2>2
    <2>4. (u1 - u2) * m + (l1 - l2) = (u1 * m + l1) - (u2 * m + l2)
      BY <1>1, <1>2
    <2>5. QED
      BY <1>2, <2>3, <2>4
  <1>16. CASE l1 < l2
    <2>1. low \in UInt128 /\ Value128(low) = l1 - l2 + m /\ high \in UInt128 /\ Value128(high) = u1 - u2
      BY <1>2, <1>6, <1>7, <1>12, <1>14, <1>16
    <2>2. u1 > u2
      BY <1>1, <1>2, <1>14, <1>16
    <2>3. minus128(high, unit) \in UInt128 /\ Value128(minus128(high, unit)) = u1 - u2 - 1
      BY <1>1, <1>2, <1>11, <2>1, <2>2
    <2>4. minus256(n1, n2) = << minus128(high, unit), low >>
      BY <1>1, <1>2, <1>3, <1>4, <1>16, <2>1
    <2>5. Value256(minus256(n1, n2)) = (u1 - u2 - 1) * m + (l1 - l2 + m) /\ minus256(n1, n2) \in UInt256
      BY <1>5, <2>1, <2>3, <2>4
    <2>6. (u1 - u2 - 1) * m + (l1 - l2 + m) = (u1 * m + l1) - (u2 * m + l2)
      BY <1>1, <1>2
    <2>7. QED
      BY <1>2, <2>5, <2>6
  <1>17. QED
    BY <1>2, <1>15, <1>16

-----------------------------------------------------------------------------
(* The numeral and its buffer *)

\* What is written is a sequence, and while a division is under way there is
\* room for the digit it will give and the terminator.
DigitsInv ==
    /\ \E S : out \in Seq(S)
    /\ Len(out) <= OutLength - 1
    /\ pc = "divide" => Len(out) <= OutLength - 2

\* A digit that is written when there was room for two characters.
LEMMA DigitFits ==
    ASSUME NEW div, NEW mod, \E S : out \in Seq(S), Len(out) <= OutLength - 2, Digit(div, mod)
    PROVE  DigitsInv'
  <1> DEFINE d == LOWER(LOWER(mod))
  <1>1. PICK S : out \in Seq(S)
    OBVIOUS
  <1>2. out' = Append(out, d) /\ pc' # "divide"
    BY DEF Digit
  <1>3. OutLength \in Nat
    BY OutLengthAssumption
  <1> HIDE DEF d
  <1>4. out \in Seq(S \cup {d}) /\ d \in S \cup {d}
    BY <1>1, SeqMonotone
  <1>5. Append(out, d) \in Seq(S \cup {d}) /\ Len(Append(out, d)) = Len(out) + 1 /\ Len(out) \in Nat
    BY <1>4
  <1>6. \E T : out' \in Seq(T)
    BY <1>2, <1>5
  <1>7. Len(out') <= OutLength - 1
    BY <1>2, <1>3, <1>5
  <1>8. QED
    BY <1>2, <1>6, <1>7 DEF DigitsInv

\* tostring256 (uint256.c:526-557) never writes behind the buffer of its
\* caller, whatever the number and the size of the buffer: the space is
\* compared once a digit, before a division that ends with writing it.
THEOREM NumeralsFit == Spec => []NumeralInBuffer
  <1>1. Init => DigitsInv
    BY OutLengthAssumption, EmptyIsSequence DEF Init, DigitsInv
  <1>2. DigitsInv /\ [Next]_vars => DigitsInv'
    <2> SUFFICES ASSUME DigitsInv, [Next]_vars
                 PROVE  DigitsInv'
      OBVIOUS
    <2>1. OutLength \in Nat \ {0, 1} /\ Len(out) \in Nat /\ \E S : out \in Seq(S)
      BY OutLengthAssumption, LengthIsNatural DEF DigitsInv
    <2>2. ASSUME NEW c \in Calls, Ask(c)
          PROVE  DigitsInv'
      <3>1. out' = out /\ pc' # "divide"
        BY <2>2 DEF Ask, Refuse
      <3>2. QED
        BY <3>1 DEF DigitsInv
    <2>3. CASE NoSpace
      <3>1. out' = out /\ pc' # "divide"
        BY <2>3 DEF NoSpace, Refuse
      <3>2. QED
        BY <3>1 DEF DigitsInv
    <2>4. CASE DivideSmall
      <3>1. Len(out) <= OutLength - 2
        BY <2>1, <2>4 DEF DivideSmall, OutOfSpace
      <3>2. QED
        BY <2>1, <2>4, <3>1, DigitFits DEF DivideSmall
    <2>5. CASE StartDivision
      <3>1. Len(out) <= OutLength - 2
        BY <2>1, <2>5 DEF StartDivision, OutOfSpace
      <3>2. out' = out
        BY <2>5 DEF StartDivision
      <3>3. QED
        BY <3>1, <3>2 DEF DigitsInv
    <2>6. CASE Divide
      <3>1. out' = out /\ pc' = pc
        BY <2>6 DEF Divide
      <3>2. QED
        BY <3>1 DEF DigitsInv
    <2>7. CASE EndDivision
      <3>1. Len(out) <= OutLength - 2
        BY <2>7 DEF EndDivision, DigitsInv
      <3>2. QED
        BY <2>1, <2>7, <3>1, DigitFits DEF EndDivision
    <2>8. CASE Return
      <3>1. out' = << >> /\ pc' = "idle"
        BY <2>8 DEF Return
      <3>2. QED
        BY <2>1, <3>1, EmptyIsSequence DEF DigitsInv
    <2>9. CASE UNCHANGED vars
      BY <2>9 DEF DigitsInv, vars
    <2>10. QED
      BY <2>2, <2>3, <2>4, <2>5, <2>6, <2>7, <2>8, <2>9 DEF Next, Step
  <1>3. DigitsInv => NumeralInBuffer
    <2>1. OutLength \in Nat
      BY OutLengthAssumption
    <2>2. QED
      BY <2>1, LengthIsNatural DEF DigitsInv, NumeralInBuffer
  <1>4. QED
    BY <1>1, <1>2, <1>3, PTL DEF Spec

-----------------------------------------------------------------------------
(* Induction over the naturals, as a fact about sets. *)

\* A set of naturals has a least one.
LEMMA LeastMember ==
    ASSUME NEW S, S \subseteq Nat, S # {}
    PROVE  \E k \in S : \A m \in S : k <= m
  <1> DEFINE less == {p \in Nat \X Nat : p[1] < p[2]}
  <1>1. IsWellFoundedOn(less, Nat)
    BY NatLessThanWellFounded DEF OpToRel
  <1> HIDE DEF less
  <1>2. PICK k \in S : \A m \in S : ~(<< m, k >> \in less)
    BY <1>1, WFMin
  <1>3. ASSUME NEW m \in S
        PROVE  k <= m
    <2>1. m \in Nat /\ k \in Nat
      OBVIOUS
    <2>2. << m, k >> \in less <=> m < k
      BY <2>1 DEF less
    <2>3. QED
      BY <1>2, <2>1, <2>2
  <1>4. QED
    BY <1>3

\* A set with 0 that has n + 1 with every n has all numbers up to a bound.
LEMMA Induction ==
    ASSUME NEW S, NEW bound \in Nat, 0 \in S, \A n \in 0 .. bound - 1 : n \in S => n + 1 \in S
    PROVE  \A n \in 0 .. bound : n \in S
  <1> SUFFICES ASSUME NEW m \in 0 .. bound, m \notin S PROVE FALSE
    OBVIOUS
  <1> DEFINE missing == {n \in 0 .. bound : n \notin S}
  <1>1. missing \subseteq Nat /\ missing # {}
    OBVIOUS
  <1>2. PICK k \in missing : \A n \in missing : k <= n
    BY <1>1, LeastMember
  <1>3. k \in 0 .. bound /\ k # 0 /\ k \notin S
    OBVIOUS
  <1>4. k - 1 \in 0 .. bound - 1 /\ (k - 1) + 1 = k
    BY <1>3
  <1>5. k - 1 \notin missing
    BY <1>2, <1>4
  <1>6. k - 1 \in S
    BY <1>4, <1>5
  <1>7. (k - 1) + 1 \in S
    BY <1>4, <1>6
  <1>8. QED
    BY <1>3, <1>4, <1>7

-----------------------------------------------------------------------------
(* The powers of two *)

\* The empty product.
LEMMA PowerOfZero == 2^0 = 1
  <1>1. IsFiniteSet({}) /\ Cardinality({}) = 0
    BY FS_EmptySet
  <1>2. Cardinality(SUBSET {}) = 2^0
    BY <1>1, FS_SUBSET
  <1>3. SUBSET {} = {{}}
    OBVIOUS
  <1>4. Cardinality({{}}) = 1
    BY FS_Singleton
  <1>5. QED
    BY <1>2, <1>3, <1>4

\* A set of n + 1 elements has the subsets of n of them, and each of these
\* with the last element.
LEMMA PowerOfNext == ASSUME NEW n \in Nat PROVE 2^(n + 1) = 2 * 2^n
  <1> DEFINE S == SUBSET (1 .. n)
             T == {s \cup {n + 1} : s \in S}
             f == [s \in S |-> s \cup {n + 1}]
  <1>1. IsFiniteSet(1 .. n) /\ Cardinality(1 .. n) = n
    BY FS_Interval
  <1>2. IsFiniteSet(1 .. n + 1) /\ Cardinality(1 .. n + 1) = n + 1
    BY FS_Interval
  <1>3. IsFiniteSet(S) /\ Cardinality(S) = 2^n
    BY <1>1, FS_SUBSET
  <1>4. Cardinality(SUBSET (1 .. n + 1)) = 2^(n + 1)
    BY <1>2, FS_SUBSET
  <1>5. n + 1 \notin 1 .. n
    OBVIOUS
  <1>6. f \in Bijection(S, T)
    <2>1. f \in [S -> T]
      OBVIOUS
    <2>2. \A s, t \in S : f[s] = f[t] => s = t
      <3> SUFFICES ASSUME NEW s \in S, NEW t \in S, f[s] = f[t] PROVE s = t
        OBVIOUS
      <3>1. s \cup {n + 1} = t \cup {n + 1} /\ n + 1 \notin s /\ n + 1 \notin t
        BY <1>5
      <3>2. QED
        BY <3>1
    <2>3. \A t \in T : \E s \in S : f[s] = t
      OBVIOUS
    <2> HIDE DEF f, S, T
    <2>4. f \in Injection(S, T)
      BY <2>1, <2>2 DEF Injection, IsInjective
    <2>5. f \in Surjection(S, T)
      BY <2>1, <2>3 DEF Surjection
    <2>6. QED
      BY <2>4, <2>5 DEF Bijection
  <1>7. SUBSET (1 .. n + 1) = S \cup T
    <2>1. 1 .. n + 1 = (1 .. n) \cup {n + 1}
      OBVIOUS
    <2>2. ASSUME NEW u \in SUBSET (1 .. n + 1) PROVE u \in S \cup T
      <3>1. CASE n + 1 \in u
        <4>1. u \ {n + 1} \in S /\ u = (u \ {n + 1}) \cup {n + 1}
          BY <2>1, <3>1
        <4>2. QED
          BY <4>1
      <3>2. CASE n + 1 \notin u
        BY <2>1, <3>2
      <3>3. QED
        BY <3>1, <3>2
    <2>3. ASSUME NEW u \in S \cup T PROVE u \in SUBSET (1 .. n + 1)
      BY <2>1
    <2>4. QED
      BY <2>2, <2>3
  <1>8. S \cap T = {}
    BY <1>5
  <1> HIDE DEF S, T, f
  <1>9. IsFiniteSet(T) /\ Cardinality(T) = 2^n
    BY <1>3, <1>6, FS_Bijection DEF ExistsBijection
  <1>10. Cardinality(S \cup T) = 2^n + 2^n - 0
    BY <1>3, <1>8, <1>9, FS_Union, FS_EmptySet
  <1>11. 2^n \in Nat
    BY PowerIsPositive
  <1> DEFINE p == 2^n
  <1>12. 2^(n + 1) = p + p - 0
    BY <1>4, <1>7, <1>10
  <1>13. p \in Nat
    BY <1>11
  <1> HIDE DEF p
  <1>14. p + p - 0 = 2 * p
    BY <1>13
  <1>15. QED
    BY <1>12, <1>14 DEF p

\* Exponents add up.
LEMMA PowerOfSum ==
    ASSUME NEW m \in Nat, NEW n \in Nat
    PROVE  2^(m + n) = 2^m * 2^n
  <1> DEFINE S == {k \in Nat : 2^(m + k) = 2^m * 2^k}
  <1>1. 0 \in S
    <2>1. 2^m \in Nat /\ m + 0 = m
      BY PowerIsPositive
    <2>2. 2^m * 1 = 2^m
      BY <2>1
    <2>3. QED
      BY <2>1, <2>2, PowerOfZero
  <1>2. ASSUME NEW k \in 0 .. n - 1, k \in S PROVE k + 1 \in S
    <2> DEFINE a == 2^m
               b == 2^k
    <2>1. a \in Nat /\ b \in Nat /\ m + k \in Nat /\ m + (k + 1) = (m + k) + 1
      BY PowerIsPositive
    <2>2. 2^(m + (k + 1)) = 2 * (a * b) /\ 2^(k + 1) = 2 * b
      BY <1>2, <2>1, PowerOfNext
    <2> HIDE DEF a, b
    <2>3. 2 * (a * b) = a * (2 * b)
      BY <2>1
    <2>4. QED
      BY <2>2, <2>3 DEF a
  <1> HIDE DEF S
  <1>3. \A k \in 0 .. n : k \in S
    BY <1>1, <1>2, Induction
  <1>4. n \in S
    BY <1>3
  <1>5. QED
    BY <1>4 DEF S

\* A greater exponent makes a multiple.
LEMMA PowerSplits ==
    ASSUME NEW m \in Nat, NEW n \in Nat, m <= n
    PROVE  /\ 2^n = 2^m * 2^(n - m) /\ n - m \in Nat
           /\ 2^m \in Nat \ {0} /\ 2^n \in Nat \ {0} /\ 2^(n - m) \in Nat \ {0}
           /\ 2^m <= 2^n
  <1>1. n - m \in Nat /\ m + (n - m) = n
    OBVIOUS
  <1>2. 2^n = 2^m * 2^(n - m)
    BY <1>1, PowerOfSum
  <1>3. 2^m \in Nat \ {0} /\ 2^n \in Nat \ {0} /\ 2^(n - m) \in Nat \ {0}
    BY <1>1, PowerIsPositive
  <1> DEFINE a == 2^m
             b == 2^(n - m)
  <1>4. a \in Nat /\ b \in Nat \ {0}
    BY <1>3
  <1> HIDE DEF a, b
  <1>5. a * b >= a
    BY <1>4
  <1>6. QED
    BY <1>1, <1>2, <1>3, <1>5 DEF a, b

\* A greater exponent at least doubles the power.
LEMMA PowerIsMonotone ==
    ASSUME NEW m \in Nat, NEW n \in Nat, m < n
    PROVE  2^m < 2^n /\ 2 * 2^m <= 2^n
  <1>1. 2^(m + 1) <= 2^n /\ 2^(m + 1) = 2 * 2^m
    BY PowerSplits, PowerOfNext
  <1>2. 2^m \in Nat \ {0} /\ 2^n \in Nat
    BY PowerIsPositive
  <1>3. QED
    BY <1>1, <1>2

-----------------------------------------------------------------------------
(* Quotients and remainders *)

\* A number is its quotient and its remainder.
LEMMA Division ==
    ASSUME NEW a \in Nat, NEW b \in Nat \ {0}
    PROVE  a \div b \in Nat /\ a % b \in 0 .. b - 1 /\ a = (a \div b) * b + (a % b)
  OBVIOUS

\* Only one quotient and one remainder make up a number.
LEMMA DivisionIsUnique ==
    ASSUME NEW q \in Nat, NEW b \in Nat \ {0}, NEW r \in 0 .. b - 1
    PROVE  (q * b + r) \div b = q /\ (q * b + r) % b = r
  <1> DEFINE a == q * b + r
             d == a \div b
             s == a % b
  <1>1. a \in Nat
    <2>1. q * b \in Nat
      OBVIOUS
    <2>2. QED
      BY <2>1
  <1>2. d \in Nat /\ s \in 0 .. b - 1 /\ a = d * b + s
    <2> HIDE DEF a
    <2>1. QED
      BY <1>1, Division
  <1>3. d * b + s = q * b + r
    BY <1>2
  <1> HIDE DEF a, d, s
  <1>4. d = q /\ s = r
    BY <1>2, <1>3, OrderOfPairs
  <1>5. QED
    BY <1>4 DEF a, d, s

\* The product of a number below a bound stays a step below the product of the
\* bound.
LEMMA ScaledBelow ==
    ASSUME NEW m \in Nat \ {0}, NEW x \in 0 .. m - 1, NEW k \in Nat \ {0}
    PROVE  x * k \in Nat /\ m * k \in Nat /\ x * k + k <= m * k
  <1>1. x * k \in Nat /\ m * k \in Nat
    OBVIOUS
  <1>2. x \in Nat /\ m \in Nat /\ k \in Nat /\ m > x
    OBVIOUS
  <1>3. m * k >= x * k + k
    BY <1>2, Multiples
  <1>4. QED
    BY <1>1, <1>3

IsProduct(M, p, q) == p \in Nat \ {0} /\ q \in Nat \ {0} /\ M = p * q

\* A number of two digits in base M, shifted to the left by p, when M = p * q:
\* the upper digit keeps its lower part and gets the upper part of the other.
LEMMA PairTimes ==
    ASSUME NEW M, NEW p, NEW q, IsProduct(M, p, q),
           NEW u \in 0 .. M - 1, NEW l \in 0 .. M - 1
    PROVE  /\ (u * p) % M = (u % q) * p /\ (l * p) % M = (l % q) * p
           /\ l \div q \in 0 .. p - 1
           /\ (u % q) * p \in Nat /\ (l % q) * p \in 0 .. M - 1
           /\ (u % q) * p + l \div q \in 0 .. M - 1
           /\ ((u * M + l) * p) % (M * M) = ((u % q) * p + l \div q) * M + (l % q) * p
  <1> DEFINE c == u \div q
             d == u % q
             a == l \div q
             b == l % q
  <1>0. M = p * q /\ p \in Nat \ {0} /\ q \in Nat \ {0}
    BY DEF IsProduct
  <1>1. M \in Nat \ {0} /\ q \in Nat \ {0} /\ p \in Nat \ {0} /\ u \in Nat /\ l \in Nat
    <2>1. p * q \in Nat \ {0}
      BY <1>0
    <2>2. QED
      BY <1>0, <2>1
  <1>2. c \in Nat /\ d \in 0 .. q - 1 /\ u = c * q + d
    BY <1>1, Division
  <1>3. a \in Nat /\ b \in 0 .. q - 1 /\ l = a * q + b
    BY <1>1, Division
  <1> HIDE DEF a, b, c, d
  <1>4. a < p
    <2>1. SUFFICES ASSUME a >= p PROVE FALSE
      BY <1>1, <1>3
    <2>2. a * q >= p * q
      BY <1>1, <1>3, <2>1
    <2>3. a * q \in Nat /\ l = a * q + b /\ l < p * q
      BY <1>0, <1>1, <1>3
    <2>4. QED
      BY <1>1, <1>3, <2>2, <2>3
  <1>5. d * p \in Nat /\ b * p \in Nat /\ d * p + p <= q * p /\ b * p + p <= q * p /\ q * p = M
    <2>1. d * p \in Nat /\ d * p + p <= q * p
      BY <1>1, <1>2, ScaledBelow
    <2>2. b * p \in Nat /\ b * p + p <= q * p
      BY <1>1, <1>3, ScaledBelow
    <2>3. q * p = M
      BY <1>0
    <2>4. QED
      BY <2>1, <2>2, <2>3
  <1>6. d * p \in 0 .. M - 1 /\ b * p \in 0 .. M - 1 /\ d * p + a \in 0 .. M - 1
    <2> DEFINE dp == d * p
               bp == b * p
    <2>1. dp \in Nat /\ bp \in Nat /\ dp + p <= M /\ bp + p <= M
      BY <1>5
    <2> HIDE DEF dp, bp
    <2>2. dp \in 0 .. M - 1 /\ bp \in 0 .. M - 1 /\ dp + a \in 0 .. M - 1
      BY <1>1, <1>3, <1>4, <2>1
    <2>3. QED
      BY <2>2 DEF dp, bp
  <1>7. u * p = c * M + d * p /\ l * p = a * M + b * p
    <2>1. u * p = c * (p * q) + d * p
      BY <1>1, <1>2
    <2>2. l * p = a * (p * q) + b * p
      BY <1>1, <1>3
    <2>3. QED
      BY <1>0, <2>1, <2>2
  <1>8. (u * p) % M = d * p /\ (l * p) % M = b * p
    <2> DEFINE dp == d * p
               bp == b * p
    <2>1. u * p = c * M + dp /\ l * p = a * M + bp /\ dp \in 0 .. M - 1 /\ bp \in 0 .. M - 1
      BY <1>6, <1>7
    <2> HIDE DEF dp, bp
    <2>2. M \in Nat \ {0} /\ c \in Nat /\ a \in Nat
      BY <1>1, <1>2, <1>3
    <2>3. (c * M + dp) % M = dp
      BY <2>1, <2>2, DivisionIsUnique, Zenon
    <2>4. (a * M + bp) % M = bp
      BY <2>1, <2>2, DivisionIsUnique, Zenon
    <2>5. QED
      BY <2>1, <2>3, <2>4 DEF dp, bp
  <1> DEFINE dp == d * p
             bp == b * p
             high == dp + a
             low == high * M + bp
             MM == M * M
  <1>9. (u * M + l) * p = c * MM + low
    <2>1. (u * M + l) * p = (u * p) * M + l * p
      BY <1>1
    <2>2. u * p = c * M + dp /\ l * p = a * M + bp /\ dp \in Nat /\ bp \in Nat
      BY <1>5, <1>7
    <2> HIDE DEF dp, bp
    <2>3. (c * M + dp) * M + (a * M + bp) = c * (M * M) + ((dp + a) * M + bp)
      BY <1>1, <1>2, <1>3, <2>2
    <2>4. QED
      BY <2>1, <2>2, <2>3
  <1>10. low \in 0 .. MM - 1 /\ MM \in Nat \ {0}
    <2>1. high \in 0 .. M - 1 /\ bp \in 0 .. M - 1
      BY <1>6
    <2> HIDE DEF high, bp
    <2>2. high * M \in Nat /\ high * M + M <= M * M /\ M * M \in Nat
      BY <1>1, <2>1, ScaledBelow
    <2> DEFINE hm == high * M
    <2>3. hm \in Nat /\ hm + M <= MM /\ MM \in Nat
      BY <2>2
    <2> HIDE DEF hm, MM
    <2>4. hm + bp \in 0 .. MM - 1
      BY <1>1, <2>1, <2>3
    <2>5. MM \in Nat \ {0}
      BY <1>1, <2>3
    <2>6. QED
      BY <2>4, <2>5 DEF hm
  <1>11. (c * MM + low) % MM = low
    <2> HIDE DEF MM, low
    <2>1. QED
      BY <1>2, <1>10, DivisionIsUnique
  <1>12. ((u * M + l) * p) % (M * M) = (d * p + a) * M + b * p
    BY <1>9, <1>11
  <1>13. a \in 0 .. p - 1
    BY <1>1, <1>3, <1>4
  <1>14. QED
    BY <1>5, <1>6, <1>8, <1>12, <1>13 DEF a, b, c, d

\* And to the right by p: the lower digit gets the lower part of the upper one.
LEMMA PairDivided ==
    ASSUME NEW M, NEW p, NEW q, IsProduct(M, p, q),
           NEW u \in 0 .. M - 1, NEW l \in 0 .. M - 1
    PROVE  /\ (u * q) % M = (u % p) * q
           /\ u \div p \in 0 .. M - 1 /\ l \div p \in 0 .. q - 1
           /\ (u % p) * q \in Nat
           /\ (u % p) * q + l \div p \in 0 .. M - 1
           /\ (u * M + l) \div p = (u \div p) * M + ((u % p) * q + l \div p)
  <1> DEFINE c == u \div p
             d == u % p
             a == l \div p
             b == l % p
  <1>0. M = p * q /\ p \in Nat \ {0} /\ q \in Nat \ {0}
    BY DEF IsProduct
  <1>1. M \in Nat \ {0} /\ q \in Nat \ {0} /\ p \in Nat \ {0} /\ u \in Nat /\ l \in Nat
    <2>1. p * q \in Nat \ {0}
      BY <1>0
    <2>2. QED
      BY <1>0, <2>1
  <1>2. c \in Nat /\ d \in 0 .. p - 1 /\ u = c * p + d
    BY <1>1, Division
  <1>3. a \in Nat /\ b \in 0 .. p - 1 /\ l = a * p + b
    BY <1>1, Division
  <1> HIDE DEF a, b, c, d
  <1>4. IsProduct(M, q, p)
    BY <1>0 DEF IsProduct
  <1>5. (u * q) % M = d * q /\ a \in 0 .. q - 1 /\ d * q \in Nat /\ d * q + a \in 0 .. M - 1
    <2>1. u \in 0 .. M - 1 /\ l \in 0 .. M - 1
      OBVIOUS
    <2>2. /\ (u * q) % M = (u % p) * q /\ (u % p) * q \in Nat
          /\ l \div p \in 0 .. q - 1
          /\ (u % p) * q + l \div p \in 0 .. M - 1
      BY <1>4, PairTimes
    <2>3. QED
      BY <2>2 DEF a, d
  <1>6. c \in 0 .. M - 1
    <2>1. c * p >= c
      BY <1>1, <1>2
    <2>2. c * p \in Nat
      BY <1>1, <1>2
    <2>3. QED
      BY <1>1, <1>2, <2>1, <2>2
  <1>7. (u * M + l) \div p = c * M + (d * q + a)
    <2>1. u * M = (u * q) * p
      BY <1>0, <1>1
    <2>2. u * q = c * M + d * q
      <3>1. u * q = c * (p * q) + d * q
        BY <1>1, <1>2
      <3>2. QED
        BY <1>0, <3>1
    <2> DEFINE x == u * q
               y == x + a
    <2>3. u * M + l = y * p + b
      <3>1. x \in Nat
        BY <1>1
      <3> HIDE DEF x
      <3>2. x * p + (a * p + b) = (x + a) * p + b
        BY <1>1, <1>3, <3>1
      <3>3. QED
        BY <1>3, <2>1, <3>2 DEF x
    <2>4. y \in Nat
      <3>1. x \in Nat
        BY <1>1
      <3> HIDE DEF x
      <3>2. QED
        BY <1>3, <3>1
    <2>5. y = c * M + (d * q + a)
      <3> DEFINE cm == c * M
                 dq == d * q
      <3>1. x = cm + dq /\ cm \in Nat /\ dq \in Nat
        BY <1>1, <1>2, <1>5, <2>2
      <3> HIDE DEF cm, dq, x
      <3>2. x + a = cm + (dq + a)
        BY <1>3, <3>1
      <3>3. QED
        BY <3>2 DEF cm, dq
    <2> HIDE DEF y
    <2>6. (y * p + b) \div p = y
      BY <1>1, <1>3, <2>4, DivisionIsUnique
    <2>7. QED
      BY <2>3, <2>5, <2>6
  <1>8. QED
    BY <1>5, <1>6, <1>7 DEF a, b, c, d

\* The quotient and the remainder of a number below the divisor.
LEMMA DivisionOfSmall ==
    ASSUME NEW b \in Nat \ {0}, NEW r \in 0 .. b - 1
    PROVE  r \div b = 0 /\ r % b = r
  <1>1. 0 \in Nat /\ 0 * b + r = r
    OBVIOUS
  <1>2. (0 * b + r) \div b = 0 /\ (0 * b + r) % b = r
    BY <1>1, DivisionIsUnique
  <1>3. QED
    BY <1>1, <1>2

\* A multiple leaves no remainder.
LEMMA DivisionOfMultiple ==
    ASSUME NEW q \in Nat, NEW b \in Nat \ {0}
    PROVE  (q * b) \div b = q /\ (q * b) % b = 0
  <1>1. 0 \in 0 .. b - 1 /\ q * b + 0 = q * b
    OBVIOUS
  <1>2. (q * b + 0) \div b = q /\ (q * b + 0) % b = 0
    BY <1>1, DivisionIsUnique
  <1>3. QED
    BY <1>1, <1>2

\* A shift by no bits.
LEMMA DivisionByOne ==
    ASSUME NEW a \in Nat
    PROVE  a \div 1 = a
  OBVIOUS

\* A quotient stays in the range of the dividend.
LEMMA QuotientBelow ==
    ASSUME NEW M \in Nat \ {0}, NEW u \in 0 .. M - 1, NEW k \in Nat \ {0}
    PROVE  u \div k \in 0 .. M - 1
  <1> DEFINE c == u \div k
             d == u % k
  <1>1. u \in Nat
    OBVIOUS
  <1>2. c \in Nat /\ d \in 0 .. k - 1 /\ u = c * k + d
    BY <1>1, Division
  <1> HIDE DEF c, d
  <1>3. c * k >= c /\ c * k \in Nat
    BY <1>2
  <1>4. c <= u
    BY <1>2, <1>3
  <1>5. QED
    BY <1>2, <1>4 DEF c

\* A shift by at least one digit.
LEMMA PairTimesAll ==
    ASSUME NEW M \in Nat \ {0}, NEW k \in Nat \ {0}, NEW u \in 0 .. M - 1, NEW l \in 0 .. M - 1
    PROVE  /\ (l * k) % M \in 0 .. M - 1
           /\ ((u * M + l) * (M * k)) % (M * M) = ((l * k) % M) * M
  <1> DEFINE c  == (l * k) \div M
             d  == (l * k) % M
             MM == M * M
             dM == d * M
             uk == u * k
  <1>1. u \in Nat /\ l \in Nat /\ l * k \in Nat
    OBVIOUS
  <1>2. c \in Nat /\ d \in 0 .. M - 1 /\ l * k = c * M + d
    BY <1>1, Division
  <1> HIDE DEF c, d
  <1>3. (u * M + l) * (M * k) = (uk + c) * MM + dM
    <2>1. (u * M + l) * (M * k) = (u * k) * (M * M) + (l * k) * M
      BY <1>1
    <2>2. (l * k) * M = c * (M * M) + d * M
      BY <1>2
    <2>3. uk \in Nat /\ MM \in Nat /\ dM \in Nat
      BY <1>1, <1>2
    <2>4. (u * M + l) * (M * k) = uk * MM + (c * MM + dM)
      BY <2>1, <2>2
    <2> HIDE DEF uk, MM, dM
    <2>5. uk * MM + (c * MM + dM) = (uk + c) * MM + dM
      BY <1>2, <2>3
    <2>6. QED
      BY <2>4, <2>5
  <1>4. dM + M <= MM /\ dM \in Nat /\ MM \in Nat
    BY <1>2, ScaledBelow
  <1>5. uk + c \in Nat
    <2>1. uk \in Nat
      BY <1>1
    <2> HIDE DEF uk
    <2>2. QED
      BY <1>2, <2>1
  <1> HIDE DEF MM, dM, uk
  <1>6. dM \in 0 .. MM - 1 /\ MM \in Nat \ {0}
    BY <1>4
  <1>7. ((uk + c) * MM + dM) % MM = dM
    BY <1>5, <1>6, DivisionIsUnique
  <1>8. QED
    BY <1>2, <1>3, <1>7 DEF MM, dM, d

\* A pair divided by a multiple of the base loses its lower digit.
LEMMA PairDividedAll ==
    ASSUME NEW M \in Nat \ {0}, NEW k \in Nat \ {0}, NEW u \in 0 .. M - 1, NEW l \in 0 .. M - 1
    PROVE  u \div k \in 0 .. M - 1 /\ (u * M + l) \div (M * k) = u \div k
  <1> DEFINE c  == u \div k
             d  == u % k
             kM == k * M
             dM == d * M
             r  == dM + l
  <1>1. u \in Nat /\ l \in Nat
    OBVIOUS
  <1>2. c \in Nat /\ d \in 0 .. k - 1 /\ u = c * k + d
    BY <1>1, Division
  <1> HIDE DEF c, d
  <1>3. dM + M <= kM /\ dM \in Nat /\ kM \in Nat
    BY <1>2, ScaledBelow
  <1>4. u * M + l = c * kM + r /\ M * k = kM
    <2>1. u * M = c * (k * M) + d * M
      BY <1>2
    <2>2. c * kM \in Nat
      BY <1>2, <1>3
    <2> DEFINE ckM == c * kM
    <2>3. u * M = ckM + dM
      BY <2>1
    <2> HIDE DEF ckM, dM
    <2>4. ckM + dM + l = ckM + (dM + l)
      BY <1>1, <1>3, <2>2 DEF ckM
    <2>5. u * M + l = ckM + r
      BY <2>3, <2>4
    <2>6. M * k = k * M
      OBVIOUS
    <2>7. QED
      BY <2>5, <2>6 DEF ckM
  <1> HIDE DEF kM, dM
  <1>5. r \in 0 .. kM - 1 /\ kM \in Nat \ {0}
    BY <1>1, <1>3
  <1> HIDE DEF r
  <1>6. (c * kM + r) \div kM = c
    BY <1>2, <1>5, DivisionIsUnique
  <1>7. c \in 0 .. M - 1
    BY QuotientBelow DEF c
  <1>8. QED
    BY <1>4, <1>6, <1>7 DEF c

\* Two numbers of two digits are added digit by digit; the lower digit has
\* wrapped exactly when it is below one of its terms.
LEMMA PairSum ==
    ASSUME NEW M \in Nat \ {0},
           NEW u1 \in 0 .. M - 1, NEW l1 \in 0 .. M - 1,
           NEW u2 \in 0 .. M - 1, NEW l2 \in 0 .. M - 1,
           NEW c, c = IF (l1 + l2) % M < l1 THEN 1 ELSE 0
    PROVE  /\ (l1 + l2) % M \in 0 .. M - 1 /\ (u1 + u2 + c) % M \in 0 .. M - 1
           /\ ((u1 * M + l1) + (u2 * M + l2)) % (M * M)
              = ((u1 + u2 + c) % M) * M + ((l1 + l2) % M)
  <1> DEFINE s == (l1 + l2) % M
  <1>1. u1 \in Nat /\ u2 \in Nat /\ l1 \in Nat /\ l2 \in Nat /\ l1 + l2 \in Nat /\ u1 + u2 \in Nat
    OBVIOUS
  <1>2. s \in 0 .. M - 1 /\ c \in {0, 1} /\ l1 + l2 = c * M + s
    <2>1. CASE l1 + l2 < M
      <3>1. s = l1 + l2
        BY <1>1, <2>1, DivisionOfSmall
      <3>2. c = 0
        BY <1>1, <3>1
      <3>3. QED
        BY <1>1, <2>1, <3>1, <3>2
    <2>2. CASE l1 + l2 >= M
      <3> DEFINE r == l1 + l2 - M
      <3>1. r \in 0 .. M - 1 /\ 1 * M + r = l1 + l2 /\ 1 \in Nat
        BY <1>1, <2>2
      <3> HIDE DEF r
      <3>2. (1 * M + r) % M = r
        BY <3>1, DivisionIsUnique
      <3>3. s = r
        BY <3>1, <3>2
      <3>4. r < l1
        BY <1>1 DEF r
      <3>5. c = 1
        BY <3>3, <3>4
      <3>6. QED
        BY <3>1, <3>3, <3>5
    <2>3. QED
      BY <1>1, <2>1, <2>2
  <1> DEFINE h == u1 + u2 + c
             d == h \div M
             t == h % M
  <1>3. h \in Nat
    BY <1>1, <1>2
  <1>4. d \in Nat /\ t \in 0 .. M - 1 /\ h = d * M + t
    <2> HIDE DEF h
    <2>1. QED
      BY <1>3, Division
  <1> DEFINE MM == M * M
             tM == t * M
  <1> HIDE DEF s, d, t
  <1>5. (u1 * M + l1) + (u2 * M + l2) = d * MM + (tM + s)
    <2>1. (u1 * M + l1) + (u2 * M + l2) = (u1 + u2) * M + (l1 + l2)
      BY <1>1
    <2>2. (u1 + u2) * M + (c * M + s) = (u1 + u2 + c) * M + s
      BY <1>1, <1>2
    <2>3. (d * M + t) * M + s = d * (M * M) + (t * M + s)
      BY <1>2, <1>4
    <2>4. QED
      BY <1>2, <1>4, <2>1, <2>2, <2>3
  <1>6. tM + M <= MM /\ tM \in Nat /\ MM \in Nat
    BY <1>4, ScaledBelow
  <1> HIDE DEF h, MM, tM
  <1>7. tM + s \in 0 .. MM - 1 /\ MM \in Nat \ {0}
    BY <1>2, <1>6
  <1>8. (d * MM + (tM + s)) % MM = tM + s
    BY <1>4, <1>7, DivisionIsUnique
  <1>9. QED
    BY <1>2, <1>4, <1>5, <1>8 DEF MM, tM, t, s, h

-----------------------------------------------------------------------------
(* Words and pairs *)

\* 2^128 in the code.
Base128 == Base * Base

\* A word has bits.
LEMMA BitsArePositive == Bits \in Nat \ {0}
  BY WidthsAssumption DEF Bits

\* The ranges of uint64, uint128 and uint256, and as powers of two.
LEMMA BasesArePositive ==
    /\ Base \in Nat \ {0} /\ Base > 1 /\ Base128 \in Nat \ {0} /\ Word = 0 .. Base - 1
    /\ Base = 2^Bits /\ Base128 = 2^(2 * Bits) /\ Base128 * Base128 = 2^(4 * Bits)
    /\ 0 \in Word /\ 1 \in Word
  <1>1. Base \in Nat \ {0}
    BY BaseIsPositive
  <1>2. Base > 1
    BY BitsArePositive, PowerIsAboveOne DEF Base
  <1>3. Base = 2^Bits /\ Bits \in Nat
    BY BitsArePositive DEF Base
  <1>4. 2^(Bits + Bits) = Base * Base
    BY <1>3, PowerOfSum
  <1>5. Bits + Bits = 2 * Bits /\ 2 * Bits \in Nat /\ 2 * Bits + 2 * Bits = 4 * Bits
    BY <1>3
  <1>6. Base128 = 2^(2 * Bits)
    BY <1>4, <1>5 DEF Base128
  <1>7. 2^(2 * Bits + 2 * Bits) = Base128 * Base128
    BY <1>5, <1>6, PowerOfSum
  <1>8. Base128 \in Nat \ {0}
    BY <1>5, <1>6, PowerIsPositive
  <1>9. QED
    BY <1>1, <1>2, <1>3, <1>5, <1>6, <1>7, <1>8 DEF Word

\* What is stored in a uint64_t is a word.
LEMMA WrapIsWord == ASSUME NEW x \in Nat PROVE Wrap(x) \in Word
  <1>1. Base \in Nat \ {0} /\ Word = 0 .. Base - 1
    BY BasesArePositive
  <1>2. x % Base \in 0 .. Base - 1
    BY <1>1, Division
  <1>3. QED
    BY <1>1, <1>2 DEF Wrap

\* The halves of a uint128.
LEMMA Parts128 ==
    ASSUME NEW n \in UInt128
    PROVE  /\ UPPER(n) \in Word /\ LOWER(n) \in Word
           /\ UPPER(n) \in Nat /\ LOWER(n) \in Nat
           /\ Value128(n) = UPPER(n) * Base + LOWER(n)
           /\ Value128(n) \in 0 .. Base128 - 1 /\ Value128(n) \in Nat
  <1>1. UPPER(n) \in Word /\ LOWER(n) \in Word /\ Value128(n) \in 0 .. Base128 - 1
    BY Value128Range, BasesArePositive DEF Base128
  <1>2. Base \in Nat /\ Base128 \in Nat /\ Word = 0 .. Base - 1
    BY BasesArePositive
  <1>3. QED
    BY <1>1, <1>2 DEF Value128

\* A uint128 of two words.
LEMMA Pair128 ==
    ASSUME NEW h \in Word, NEW l \in Word
    PROVE  << h, l >> \in UInt128 /\ Value128(<< h, l >>) = h * Base + l
  BY DEF UInt128, Value128, UPPER, LOWER

\* The halves of a uint256.
LEMMA Parts256 ==
    ASSUME NEW n \in UInt256
    PROVE  /\ UPPER(n) \in UInt128 /\ LOWER(n) \in UInt128
           /\ Value256(n) = Value128(UPPER(n)) * Base128 + Value128(LOWER(n))
           /\ Value256(n) \in 0 .. Base128 * Base128 - 1 /\ Value256(n) \in Nat
  <1>1. /\ UPPER(n) \in UInt128 /\ LOWER(n) \in UInt128
        /\ Value256(n) = Value128(UPPER(n)) * Base128 + Value128(LOWER(n))
    BY Value256Range DEF Base128
  <1> DEFINE u == Value128(UPPER(n))
             l == Value128(LOWER(n))
             MM == Base128 * Base128
             um == u * Base128
  <1>2. Base128 \in Nat \ {0} /\ u \in 0 .. Base128 - 1 /\ l \in 0 .. Base128 - 1
    BY <1>1, Parts128, BasesArePositive
  <1>3. Value256(n) = um + l
    BY <1>1
  <1> HIDE DEF u, l
  <1>4. um + Base128 <= MM /\ um \in Nat /\ MM \in Nat
    BY <1>2, ScaledBelow
  <1> HIDE DEF um, MM
  <1>5. um + l \in 0 .. MM - 1 /\ um + l \in Nat
    BY <1>2, <1>4
  <1>6. QED
    BY <1>1, <1>3, <1>5 DEF MM

\* A uint256 of two uint128.
LEMMA Pair256 ==
    ASSUME NEW h \in UInt128, NEW l \in UInt128
    PROVE  /\ << h, l >> \in UInt256
           /\ Value256(<< h, l >>) = Value128(h) * Base128 + Value128(l)
  <1>1. << h, l >> \in UInt256 /\ UPPER(<< h, l >>) = h /\ LOWER(<< h, l >>) = l
    BY DEF UInt256, UPPER, LOWER
  <1>2. QED
    BY <1>1, Parts256

\* clear128 and clear256 store zero (uint256.c:77-85).
LEMMA Zeros ==
    /\ Zero128 \in UInt128 /\ Value128(Zero128) = 0
    /\ Zero256 \in UInt256 /\ Value256(Zero256) = 0
  <1>1. 0 \in Word /\ Base \in Nat /\ Base128 \in Nat
    BY BasesArePositive
  <1>2. Zero128 \in UInt128 /\ Value128(Zero128) = 0
    <2>1. Zero128 \in UInt128 /\ Value128(Zero128) = 0 * Base + 0
      BY <1>1, Pair128 DEF Zero128
    <2>2. QED
      BY <1>1, <2>1
  <1>3. Zero256 \in UInt256 /\ Value256(Zero256) = 0 * Base128 + 0
    BY <1>2, Pair256 DEF Zero256
  <1>4. QED
    BY <1>1, <1>2, <1>3

\* Numbers are equal exactly when what they stand for is.
LEMMA Value256IsInjective ==
    ASSUME NEW n1 \in UInt256, NEW n2 \in UInt256
    PROVE  n1 = n2 <=> Value256(n1) = Value256(n2)
  <1> DEFINE u1 == Value128(UPPER(n1))
             l1 == Value128(LOWER(n1))
             u2 == Value128(UPPER(n2))
             l2 == Value128(LOWER(n2))
  <1>1. Base128 \in Nat \ {0}
    BY BasesArePositive
  <1>2. /\ UPPER(n1) \in UInt128 /\ LOWER(n1) \in UInt128
        /\ UPPER(n2) \in UInt128 /\ LOWER(n2) \in UInt128
        /\ n1 = << UPPER(n1), LOWER(n1) >> /\ n2 = << UPPER(n2), LOWER(n2) >>
    BY Value256Range
  <1>3. /\ u1 \in 0 .. Base128 - 1 /\ l1 \in 0 .. Base128 - 1
        /\ u2 \in 0 .. Base128 - 1 /\ l2 \in 0 .. Base128 - 1
        /\ u1 \in Nat /\ u2 \in Nat
    BY <1>2, Parts128
  <1>4. Value256(n1) = u1 * Base128 + l1 /\ Value256(n2) = u2 * Base128 + l2
    BY Parts256
  <1>5. (UPPER(n1) = UPPER(n2) <=> u1 = u2) /\ (LOWER(n1) = LOWER(n2) <=> l1 = l2)
    BY <1>2, ValueIsInjective
  <1> HIDE DEF u1, l1, u2, l2
  <1>6. u1 * Base128 + l1 = u2 * Base128 + l2 <=> u1 = u2 /\ l1 = l2
    BY <1>1, <1>3, OrderOfPairs
  <1>7. QED
    BY <1>2, <1>4, <1>5, <1>6

\* gte256, which ends the loop of divmod256, is the order of the integers.
LEMMA Gte256IsAtLeast ==
    ASSUME NEW n1 \in UInt256, NEW n2 \in UInt256
    PROVE  gte256(n1, n2) <=> Value256(n1) >= Value256(n2)
  <1>1. Value256(n1) \in Nat /\ Value256(n2) \in Nat
    BY Parts256
  <1>2. gt256(n1, n2) <=> Value256(n1) > Value256(n2)
    BY Gt256IsGreater
  <1>3. n1 = n2 <=> Value256(n1) = Value256(n2)
    BY Value256IsInjective
  <1>4. QED
    BY <1>1, <1>2, <1>3 DEF gte256

\* zero128 (uint256.c:63) tells zero, which has one representation.
LEMMA ZeroIsZero128 ==
    ASSUME NEW n \in UInt128
    PROVE  /\ zero128(n) <=> Value128(n) = 0
           /\ zero128(n) <=> n = Zero128
  <1>1. n = Zero128 <=> Value128(n) = 0
    BY Zeros, ValueIsInjective
  <1>2. n = << UPPER(n), LOWER(n) >>
    BY Value128Range
  <1>3. zero128(n) => n = Zero128
    BY <1>2 DEF zero128, Zero128
  <1>4. n = Zero128 => zero128(n)
    BY DEF zero128, Zero128, UPPER, LOWER
  <1>5. QED
    BY <1>1, <1>3, <1>4

\* zero256 (uint256.c:65) tells zero.
LEMMA ZeroIsZero256 ==
    ASSUME NEW n \in UInt256
    PROVE  zero256(n) <=> Value256(n) = 0
  <1>1. UPPER(n) \in UInt128 /\ LOWER(n) \in UInt128 /\ n = << UPPER(n), LOWER(n) >>
    BY Value256Range
  <1>2. zero256(n) <=> UPPER(n) = Zero128 /\ LOWER(n) = Zero128
    BY <1>1, ZeroIsZero128 DEF zero256
  <1>3. n = Zero256 <=> UPPER(n) = Zero128 /\ LOWER(n) = Zero128
    BY <1>1 DEF Zero256
  <1>4. n = Zero256 <=> Value256(n) = 0
    BY Zeros, Value256IsInjective
  <1>5. QED
    BY <1>2, <1>3, <1>4

-----------------------------------------------------------------------------
(* Addition *)

\* add128 (uint256.c:241-244) adds modulo 2^128: the carry it finds by
\* comparing the wrapped sum with a term is the carry there is.
THEOREM Add128IsSum ==
    ASSUME NEW n1 \in UInt128, NEW n2 \in UInt128
    PROVE  /\ add128(n1, n2) \in UInt128
           /\ Value128(add128(n1, n2)) = (Value128(n1) + Value128(n2)) % Base128
  <1> DEFINE u1 == UPPER(n1)
             l1 == LOWER(n1)
             u2 == UPPER(n2)
             l2 == LOWER(n2)
             c  == IF (l1 + l2) % Base < l1 THEN 1 ELSE 0
  <1>1. Base \in Nat \ {0} /\ Word = 0 .. Base - 1
    BY BasesArePositive
  <1>2. u1 \in Word /\ l1 \in Word /\ u2 \in Word /\ l2 \in Word
    BY Parts128
  <1>3. add128(n1, n2) = << (u1 + u2 + c) % Base, (l1 + l2) % Base >>
    BY DEF add128, Wrap, BoolToInt
  <1>4. Value128(n1) = u1 * Base + l1 /\ Value128(n2) = u2 * Base + l2
    BY Parts128
  <1> HIDE DEF u1, l1, u2, l2
  <1>5. /\ (l1 + l2) % Base \in 0 .. Base - 1 /\ (u1 + u2 + c) % Base \in 0 .. Base - 1
        /\ ((u1 * Base + l1) + (u2 * Base + l2)) % (Base * Base)
           = ((u1 + u2 + c) % Base) * Base + ((l1 + l2) % Base)
    <2>1. u1 \in 0 .. Base - 1 /\ l1 \in 0 .. Base - 1 /\ u2 \in 0 .. Base - 1 /\ l2 \in 0 .. Base - 1
      BY <1>1, <1>2
    <2>2. c = IF (l1 + l2) % Base < l1 THEN 1 ELSE 0
      OBVIOUS
    <2> HIDE DEF c
    <2>3. QED
      BY <1>1, <2>1, <2>2, PairSum
  <1> DEFINE h == (u1 + u2 + c) % Base
             l == (l1 + l2) % Base
  <1>6. h \in Word /\ l \in Word
    BY <1>1, <1>5
  <1>7. /\ add128(n1, n2) = << h, l >>
        /\ (Value128(n1) + Value128(n2)) % Base128 = h * Base + l
    BY <1>3, <1>4, <1>5 DEF Base128
  <1> HIDE DEF h, l
  <1>8. QED
    BY <1>6, <1>7, Pair128

\* A sum that fits is the sum.
LEMMA Add128Fits ==
    ASSUME NEW n1 \in UInt128, NEW n2 \in UInt128, Value128(n1) + Value128(n2) < Base128
    PROVE  /\ add128(n1, n2) \in UInt128
           /\ Value128(add128(n1, n2)) = Value128(n1) + Value128(n2)
  <1> DEFINE s == Value128(n1) + Value128(n2)
  <1>1. s \in 0 .. Base128 - 1 /\ Base128 \in Nat \ {0}
    <2>1. Value128(n1) \in Nat /\ Value128(n2) \in Nat
      BY Parts128
    <2>2. Base128 \in Nat \ {0}
      BY BasesArePositive
    <2>3. QED
      BY <2>1, <2>2
  <1>2. Value128(add128(n1, n2)) = s % Base128 /\ add128(n1, n2) \in UInt128
    BY Add128IsSum
  <1> HIDE DEF s
  <1>3. s % Base128 = s
    BY <1>1, DivisionOfSmall
  <1>4. QED
    BY <1>2, <1>3 DEF s

\* add256 (uint256.c:246-257) adds modulo 2^256.
THEOREM Add256IsSum ==
    ASSUME NEW n1 \in UInt256, NEW n2 \in UInt256
    PROVE  /\ add256(n1, n2) \in UInt256
           /\ Value256(add256(n1, n2)) = (Value256(n1) + Value256(n2)) % (Base128 * Base128)
  <1> DEFINE h1 == UPPER(n1)
             k1 == LOWER(n1)
             h2 == UPPER(n2)
             k2 == LOWER(n2)
             u1 == Value128(h1)
             l1 == Value128(k1)
             u2 == Value128(h2)
             l2 == Value128(k2)
             low == add128(k1, k2)
             high == add128(h1, h2)
             unit == << 0, 1 >>
             c  == IF (l1 + l2) % Base128 < l1 THEN 1 ELSE 0
  <1>1. Base128 \in Nat \ {0} /\ Base \in Nat /\ 0 \in Word /\ 1 \in Word
    BY BasesArePositive
  <1>2. /\ h1 \in UInt128 /\ k1 \in UInt128 /\ h2 \in UInt128 /\ k2 \in UInt128
        /\ Value256(n1) = u1 * Base128 + l1 /\ Value256(n2) = u2 * Base128 + l2
    BY Parts256
  <1>3. /\ u1 \in 0 .. Base128 - 1 /\ l1 \in 0 .. Base128 - 1
        /\ u2 \in 0 .. Base128 - 1 /\ l2 \in 0 .. Base128 - 1
    BY <1>2, Parts128
  <1>4. add256(n1, n2) = << IF gt128(k1, low) THEN add128(high, unit) ELSE high, low >>
    BY DEF add256
  <1> HIDE DEF h1, k1, h2, k2
  <1>5. low \in UInt128 /\ Value128(low) = (l1 + l2) % Base128
    BY <1>2, Add128IsSum
  <1>6. high \in UInt128 /\ Value128(high) = (u1 + u2) % Base128
    BY <1>2, Add128IsSum
  <1>7. gt128(k1, low) <=> l1 > Value128(low)
    BY <1>2, <1>5, Gt128IsGreater
  <1>8. unit \in UInt128 /\ Value128(unit) = 1
    <2>1. << 0, 1 >> \in UInt128 /\ Value128(<< 0, 1 >>) = 0 * Base + 1
      BY <1>1, Pair128
    <2>2. QED
      BY <1>1, <2>1
  <1>9. add128(high, unit) \in UInt128 /\ Value128(add128(high, unit)) = (Value128(high) + 1) % Base128
    BY <1>6, <1>8, Add128IsSum
  <1> DEFINE upper == IF gt128(k1, low) THEN add128(high, unit) ELSE high
  <1> HIDE DEF low, high, unit, u1, l1, u2, l2
  <1>10. /\ (l1 + l2) % Base128 \in 0 .. Base128 - 1
         /\ (u1 + u2 + c) % Base128 \in 0 .. Base128 - 1
         /\ ((u1 * Base128 + l1) + (u2 * Base128 + l2)) % (Base128 * Base128)
            = ((u1 + u2 + c) % Base128) * Base128 + ((l1 + l2) % Base128)
    <2>1. c = IF (l1 + l2) % Base128 < l1 THEN 1 ELSE 0
      OBVIOUS
    <2> HIDE DEF c
    <2>2. QED
      BY <1>1, <1>3, <2>1, PairSum
  <1>11. upper \in UInt128 /\ Value128(upper) = (u1 + u2 + c) % Base128
    <2>1. l1 \in Nat /\ (l1 + l2) % Base128 \in Nat /\ u1 \in Nat /\ u2 \in Nat
      BY <1>3, <1>10
    <2>2. CASE gt128(k1, low)
      <3>1. c = 1 /\ upper = add128(high, unit)
        BY <1>5, <1>7, <2>1, <2>2
      <3> HIDE DEF c, upper
      <3>2. (((u1 + u2) % Base128) + 1) % Base128 = (u1 + u2 + 1) % Base128
        <4> DEFINE x == u1 + u2
                   q == x \div Base128
                   r == x % Base128
                   y == r + 1
        <4>1. x \in Nat
          BY <2>1
        <4> HIDE DEF x
        <4>2. q \in Nat /\ r \in 0 .. Base128 - 1 /\ x = q * Base128 + r
          BY <1>1, <4>1, Division
        <4> HIDE DEF q, r
        <4>3. CASE y < Base128
          <5>1. y \in 0 .. Base128 - 1 /\ x + 1 = q * Base128 + y
            BY <1>1, <4>2, <4>3
          <5> HIDE DEF y
          <5>2. y % Base128 = y /\ (q * Base128 + y) % Base128 = y
            BY <1>1, <4>2, <5>1, DivisionOfSmall, DivisionIsUnique
          <5>3. QED
            BY <5>1, <5>2 DEF y, r, x
        <4>4. CASE y >= Base128
          <5>1. y = Base128 /\ q + 1 \in Nat /\ x + 1 = (q + 1) * Base128 + 0 /\ 0 \in 0 .. Base128 - 1
            BY <1>1, <4>2, <4>4
          <5>2. y = 1 * Base128 + 0 /\ 1 \in Nat
            BY <1>1, <5>1
          <5> HIDE DEF y
          <5>3. (1 * Base128 + 0) % Base128 = 0 /\ ((q + 1) * Base128 + 0) % Base128 = 0
            BY <1>1, <5>1, <5>2, DivisionIsUnique
          <5>4. QED
            BY <5>1, <5>2, <5>3 DEF y, r, x
        <4>5. QED
          BY <1>1, <4>2, <4>3, <4>4
      <3>3. QED
        BY <1>6, <1>9, <3>1, <3>2
    <2>3. CASE ~gt128(k1, low)
      <3>1. c = 0 /\ upper = high
        BY <1>5, <1>7, <2>1, <2>3
      <3> HIDE DEF c, upper
      <3>2. u1 + u2 + c = u1 + u2
        BY <2>1, <3>1
      <3>3. QED
        BY <1>6, <3>1, <3>2
    <2>4. QED
      BY <2>2, <2>3
  <1> HIDE DEF upper, c
  <1>12. add256(n1, n2) = << upper, low >>
    BY <1>4 DEF upper
  <1>13. << upper, low >> \in UInt256 /\ Value256(<< upper, low >>) = Value128(upper) * Base128 + Value128(low)
    BY <1>5, <1>11, Pair256
  <1>14. QED
    BY <1>2, <1>5, <1>10, <1>11, <1>12, <1>13

-----------------------------------------------------------------------------
(* Shifts *)

\* A power of two as a multiple of another.
LEMMA PowerAsMultiple ==
    ASSUME NEW m \in Nat, NEW v \in Nat, v >= m
    PROVE  v - m \in Nat /\ 2^(v - m) \in Nat \ {0} /\ 2^v = 2^m * 2^(v - m)
  BY PowerSplits

\* Inside a digit, the two parts of a shift make up the digit.
LEMMA PowerAsProduct ==
    ASSUME NEW m \in Nat, NEW v \in Nat, v < m
    PROVE  m - v \in Nat /\ m - v < m + 1 /\ IsProduct(2^m, 2^v, 2^(m - v))
  BY PowerSplits DEF IsProduct

\* What is shifted out on the left does not count.
LEMMA OffTheLeft ==
    ASSUME NEW x \in Nat, NEW M \in Nat \ {0}, NEW k \in Nat
    PROVE  (x * (M * k)) % M = 0
  <1>1. x * (M * k) = (x * k) * M /\ x * k \in Nat
    OBVIOUS
  <1> DEFINE y == x * k
  <1>2. x * (M * k) = y * M /\ y \in Nat
    BY <1>1
  <1> HIDE DEF y
  <1>3. (y * M) % M = 0
    BY <1>2, DivisionOfMultiple
  <1>4. QED
    BY <1>2, <1>3

\* What is shifted out on the right leaves zero.
LEMMA OffTheRight ==
    ASSUME NEW M \in Nat \ {0}, NEW x \in 0 .. M - 1, NEW k \in Nat \ {0}
    PROVE  x \div (M * k) = 0
  <1> DEFINE b == M * k
  <1>1. b \in Nat /\ b >= M
    OBVIOUS
  <1> HIDE DEF b
  <1>2. b \in Nat \ {0} /\ x \in 0 .. b - 1
    BY <1>1
  <1>3. x \div b = 0
    BY <1>2, DivisionOfSmall
  <1>4. QED
    BY <1>3 DEF b

\* shiftl128 (uint256.c:87-104) multiplies by a power of two modulo 2^128.
THEOREM Shiftl128IsProduct ==
    ASSUME NEW n \in UInt128, NEW v \in Nat
    PROVE  /\ shiftl128(n, v) \in UInt128
           /\ Value128(shiftl128(n, v)) = (Value128(n) * 2^v) % Base128
  <1> DEFINE u == UPPER(n)
             l == LOWER(n)
             N == Value128(n)
             result128 == shiftl128(n, v)
  <1>1. /\ Base \in Nat \ {0} /\ Base128 \in Nat \ {0} /\ Word = 0 .. Base - 1
        /\ Base = 2^Bits /\ Base128 = 2^(2 * Bits) /\ 0 \in Word
        /\ Bits \in Nat \ {0} /\ 2 * Bits \in Nat
    BY BasesArePositive, BitsArePositive
  <1>2. /\ u \in 0 .. Base - 1 /\ l \in 0 .. Base - 1 /\ N = u * Base + l
        /\ N \in 0 .. Base128 - 1 /\ N \in Nat
    BY <1>1, Parts128
  <1> HIDE DEF N
  <1>3. CASE v >= 2 * Bits
    <2>1. result128 = Zero128
      BY <1>3 DEF shiftl128
    <2>2. v - 2 * Bits \in Nat /\ 2^(v - 2 * Bits) \in Nat \ {0} /\ 2^v = Base128 * 2^(v - 2 * Bits)
      BY <1>1, <1>3, PowerAsMultiple
    <2> DEFINE k == 2^(v - 2 * Bits)
    <2>3. k \in Nat /\ 2^v = Base128 * k
      BY <2>2
    <2> HIDE DEF k, result128
    <2>4. (N * (Base128 * k)) % Base128 = 0
      <3>1. N \in Nat /\ Base128 \in Nat \ {0} /\ k \in Nat
        BY <1>1, <1>2, <2>3
      <3>2. QED
        BY ONLY <3>1, OffTheLeft
    <2>5. QED
      BY <2>1, <2>3, <2>4, Zeros DEF N, result128
  <1>4. CASE v >= Bits /\ v < 2 * Bits
    <2> DEFINE k == 2^(v - Bits)
    <2>1. ~(v >= 2 * Bits)
      BY <1>1, <1>4
    <2>2. result128 = << (l * k) % Base, 0 >>
      BY <1>4, <2>1 DEF shiftl128, ShiftLeft, Wrap
    <2>3. k \in Nat \ {0} /\ 2^v = Base * k
      BY <1>1, <1>4, PowerAsMultiple
    <2> HIDE DEF k, u, l, result128
    <2>4. /\ (l * k) % Base \in 0 .. Base - 1
          /\ ((u * Base + l) * (Base * k)) % (Base * Base) = ((l * k) % Base) * Base
      <3>1. Base \in Nat \ {0} /\ u \in 0 .. Base - 1 /\ l \in 0 .. Base - 1 /\ k \in Nat \ {0}
        BY <1>1, <1>2, <2>3
      <3>2. QED
        BY <3>1, PairTimesAll
    <2> DEFINE h == (l * k) % Base
    <2>5. h \in Word /\ (N * 2^v) % Base128 = h * Base /\ result128 = << h, 0 >>
      BY <1>1, <1>2, <2>2, <2>3, <2>4 DEF Base128
    <2> HIDE DEF h
    <2>6. << h, 0 >> \in UInt128 /\ Value128(<< h, 0 >>) = h * Base + 0 /\ h * Base + 0 = h * Base
      <3>1. h \in Nat
        BY <1>1, <2>5
      <3>2. QED
        BY <1>1, <2>5, <3>1, Pair128
    <2>7. QED
      BY <2>5, <2>6 DEF N, result128
  <1>5. CASE v = 0
    <2>1. ~(v >= 2 * Bits) /\ ~(v >= Bits)
      BY <1>1, <1>5
    <2>2. result128 = n
      BY <1>5, <2>1 DEF shiftl128
    <2>3. N * 2^v = N
      BY <1>2, <1>5, PowerOfZero
    <2> HIDE DEF result128
    <2>4. N % Base128 = N
      BY <1>1, <1>2, DivisionOfSmall
    <2>5. QED
      BY <2>2, <2>3, <2>4 DEF N, result128
  <1>6. CASE v # 0 /\ v < Bits
    <2> DEFINE p == 2^v
               q == 2^(Bits - v)
               h == (u % q) * p + (l \div q)
               k == (l % q) * p
    <2>1. ~(v >= 2 * Bits) /\ ~(v >= Bits)
      BY <1>1, <1>6
    <2>2. result128 = << (((u * p) % Base) + (l \div q)) % Base, (l * p) % Base >>
      BY <1>6, <2>1 DEF shiftl128, ShiftLeft, ShiftRight, Wrap
    <2>3. IsProduct(Base, p, q)
      BY <1>1, <1>6, PowerAsProduct
    <2> HIDE DEF p, q, u, l, result128
    <2>4. /\ (u * p) % Base = (u % q) * p /\ (l * p) % Base = k
          /\ k \in 0 .. Base - 1 /\ h \in 0 .. Base - 1
          /\ ((u * Base + l) * p) % (Base * Base) = h * Base + k
      BY <1>2, <2>3, PairTimes
    <2>5. result128 = << h % Base, k >>
      BY <2>2, <2>4
    <2> HIDE DEF h, k
    <2>6. h % Base = h
      BY <1>1, <2>4, DivisionOfSmall
    <2>7. << h, k >> \in UInt128 /\ Value128(<< h, k >>) = h * Base + k
      BY <1>1, <2>4, Pair128
    <2>8. (N * p) % Base128 = h * Base + k
      BY <1>2, <2>4 DEF Base128
    <2>9. QED
      BY <2>5, <2>6, <2>7, <2>8 DEF N, result128, p
  <1>7. QED
    BY <1>1, <1>3, <1>4, <1>5, <1>6

\* shiftr128 (uint256.c:129-148) divides by a power of two.
THEOREM Shiftr128IsQuotient ==
    ASSUME NEW n \in UInt128, NEW v \in Nat
    PROVE  /\ shiftr128(n, v) \in UInt128
           /\ Value128(shiftr128(n, v)) = Value128(n) \div 2^v
  <1> DEFINE u == UPPER(n)
             l == LOWER(n)
             N == Value128(n)
             result128 == shiftr128(n, v)
  <1>1. /\ Base \in Nat \ {0} /\ Base128 \in Nat \ {0} /\ Word = 0 .. Base - 1
        /\ Base = 2^Bits /\ Base128 = 2^(2 * Bits) /\ 0 \in Word
        /\ Bits \in Nat \ {0} /\ 2 * Bits \in Nat
    BY BasesArePositive, BitsArePositive
  <1>2. /\ u \in 0 .. Base - 1 /\ l \in 0 .. Base - 1 /\ N = u * Base + l
        /\ N \in 0 .. Base128 - 1 /\ N \in Nat
    BY <1>1, Parts128
  <1> HIDE DEF N
  <1>3. CASE v >= 2 * Bits
    <2>1. result128 = Zero128
      BY <1>3 DEF shiftr128
    <2>2. v - 2 * Bits \in Nat /\ 2^(v - 2 * Bits) \in Nat \ {0} /\ 2^v = Base128 * 2^(v - 2 * Bits)
      BY <1>1, <1>3, PowerAsMultiple
    <2> DEFINE k == 2^(v - 2 * Bits)
    <2>3. k \in Nat \ {0} /\ 2^v = Base128 * k
      BY <2>2
    <2> HIDE DEF k, result128
    <2>4. N \div (Base128 * k) = 0
      BY <1>1, <1>2, <2>3, OffTheRight
    <2>5. QED
      BY <2>1, <2>3, <2>4, Zeros DEF N, result128
  <1>4. CASE v >= Bits /\ v < 2 * Bits
    <2> DEFINE k == 2^(v - Bits)
               h == u \div k
    <2>1. ~(v >= 2 * Bits)
      BY <1>1, <1>4
    <2>2. result128 = << 0, h >>
      BY <1>4, <2>1 DEF shiftr128, ShiftRight
    <2>3. k \in Nat \ {0} /\ 2^v = Base * k
      BY <1>1, <1>4, PowerAsMultiple
    <2> HIDE DEF k, u, l, result128
    <2>4. u \div k \in 0 .. Base - 1 /\ (u * Base + l) \div (Base * k) = u \div k
      BY <1>1, <1>2, <2>3, PairDividedAll
    <2>5. h \in Word /\ h \in Nat /\ N \div 2^v = h
      BY <1>1, <1>2, <2>3, <2>4
    <2> HIDE DEF h
    <2>6. << 0, h >> \in UInt128 /\ Value128(<< 0, h >>) = 0 * Base + h /\ 0 * Base + h = h
      BY <1>1, <2>5, Pair128
    <2>7. QED
      BY <2>2, <2>5, <2>6 DEF N, result128
  <1>5. CASE v = 0
    <2>1. ~(v >= 2 * Bits) /\ ~(v >= Bits)
      BY <1>1, <1>5
    <2>2. result128 = n
      BY <1>5, <2>1 DEF shiftr128
    <2>3. N \div 1 = N
      BY <1>2, DivisionByOne
    <2> HIDE DEF result128
    <2>4. QED
      BY <1>5, <2>2, <2>3, PowerOfZero DEF N, result128
  <1>6. CASE v # 0 /\ v < Bits
    <2> DEFINE p == 2^v
               q == 2^(Bits - v)
               h == u \div p
               k == (u % p) * q + (l \div p)
    <2>1. ~(v >= 2 * Bits) /\ ~(v >= Bits)
      BY <1>1, <1>6
    <2>2. result128 = << h, (((u * q) % Base) + (l \div p)) % Base >>
      BY <1>6, <2>1 DEF shiftr128, ShiftLeft, ShiftRight, Wrap
    <2>3. IsProduct(Base, p, q)
      BY <1>1, <1>6, PowerAsProduct
    <2> HIDE DEF p, q, u, l, result128
    <2>4. /\ (u * q) % Base = (u % p) * q
          /\ h \in 0 .. Base - 1 /\ k \in 0 .. Base - 1
          /\ (u * Base + l) \div p = h * Base + k
      BY <1>2, <2>3, PairDivided
    <2>5. result128 = << h, k % Base >>
      BY <2>2, <2>4
    <2> HIDE DEF h, k
    <2>6. k % Base = k
      BY <1>1, <2>4, DivisionOfSmall
    <2>7. << h, k >> \in UInt128 /\ Value128(<< h, k >>) = h * Base + k
      BY <1>1, <2>4, Pair128
    <2>8. N \div p = h * Base + k
      BY <1>2, <2>4
    <2>9. QED
      BY <2>5, <2>6, <2>7, <2>8 DEF N, result128, p
  <1>7. QED
    BY <1>1, <1>3, <1>4, <1>5, <1>6

\* shiftl256 (uint256.c:106-127) multiplies by a power of two modulo 2^256.
THEOREM Shiftl256IsProduct ==
    ASSUME NEW n \in UInt256, NEW v \in Nat
    PROVE  /\ shiftl256(n, v) \in UInt256
           /\ Value256(shiftl256(n, v)) = (Value256(n) * 2^v) % (Base128 * Base128)
  <1> DEFINE nu == UPPER(n)
             nl == LOWER(n)
             u  == Value128(nu)
             l  == Value128(nl)
             N  == Value256(n)
             M  == Base128
             MM == Base128 * Base128
             result256 == shiftl256(n, v)
  <1>1. /\ M \in Nat \ {0} /\ MM \in Nat \ {0} /\ M = 2^(2 * Bits) /\ MM = 2^(4 * Bits)
        /\ 2 * Bits \in Nat /\ 4 * Bits \in Nat /\ 4 * Bits >= 2 * Bits /\ 2 * Bits > 0
    <2>1. M \in Nat \ {0} /\ M = 2^(2 * Bits) /\ MM = 2^(4 * Bits)
      BY BasesArePositive
    <2>2. 2 * Bits \in Nat /\ 4 * Bits \in Nat /\ 4 * Bits >= 2 * Bits /\ 2 * Bits > 0
      BY BitsArePositive
    <2>3. MM \in Nat \ {0}
      BY <2>1, <2>2, PowerIsPositive
    <2>4. QED
      BY <2>1, <2>2, <2>3
  <1>2. /\ nu \in UInt128 /\ nl \in UInt128 /\ N = u * M + l
        /\ N \in 0 .. MM - 1 /\ N \in Nat
    BY Parts256
  <1>3. u \in 0 .. M - 1 /\ l \in 0 .. M - 1
    BY <1>2, Parts128
  <1>4. CASE v >= 4 * Bits
    <2>1. result256 = Zero256
      BY <1>4 DEF shiftl256
    <2>2. v - 4 * Bits \in Nat /\ 2^(v - 4 * Bits) \in Nat \ {0} /\ 2^v = 2^(4 * Bits) * 2^(v - 4 * Bits)
      BY <1>1, <1>4, PowerAsMultiple
    <2> DEFINE k == 2^(v - 4 * Bits)
    <2>3. k \in Nat /\ 2^v = MM * k
      BY <1>1, <2>2
    <2> HIDE DEF k, result256, N, MM
    <2>4. (N * (MM * k)) % MM = 0
      BY <1>1, <1>2, <2>3, OffTheLeft
    <2>5. QED
      BY <2>1, <2>3, <2>4, Zeros DEF N, MM, result256
  <1>5. CASE v >= 2 * Bits /\ v < 4 * Bits
    <2> DEFINE k == 2^(v - 2 * Bits)
               high == shiftl128(nl, v - 2 * Bits)
               h == (l * k) % M
    <2>1. ~(v >= 4 * Bits)
      BY <1>1, <1>5
    <2>2. result256 = << high, Zero128 >>
      BY <1>5, <2>1 DEF shiftl256
    <2>3. k \in Nat \ {0} /\ 2^v = M * k /\ v - 2 * Bits \in Nat
      BY <1>1, <1>5, PowerAsMultiple
    <2>4. high \in UInt128 /\ Value128(high) = h
      BY <1>2, <2>3, Shiftl128IsProduct
    <2> HIDE DEF k, high, u, l, M, N, result256
    <2>5. M \in Nat \ {0} /\ u \in 0 .. M - 1 /\ l \in 0 .. M - 1 /\ k \in Nat \ {0}
      BY <1>1, <1>3, <2>3
    <2>6. h \in 0 .. M - 1 /\ ((u * M + l) * (M * k)) % (M * M) = h * M
      BY <2>5, PairTimesAll
    <2>7. /\ << high, Zero128 >> \in UInt256
          /\ Value256(<< high, Zero128 >>) = Value128(high) * Base128 + Value128(Zero128)
      BY <2>4, Zeros, Pair256
    <2> HIDE DEF h
    <2>8. Value256(<< high, Zero128 >>) = h * M + 0 /\ h * M + 0 = h * M
      <3>1. h \in Nat /\ M \in Nat
        BY <1>1, <2>6
      <3>2. QED
        BY <2>4, <2>7, <3>1, Zeros DEF M
    <2>9. QED
      BY <1>2, <2>2, <2>3, <2>6, <2>7, <2>8 DEF N, M, result256
  <1>6. CASE v = 0
    <2>1. ~(v >= 4 * Bits) /\ ~(v >= 2 * Bits)
      BY <1>1, <1>6
    <2>2. result256 = n
      BY <1>6, <2>1 DEF shiftl256
    <2>3. N * 2^v = N
      BY <1>2, <1>6, PowerOfZero
    <2> HIDE DEF result256, MM, N
    <2>4. N % MM = N
      BY <1>1, <1>2, DivisionOfSmall
    <2>5. QED
      BY <2>2, <2>3, <2>4 DEF N, MM, result256
  <1>7. CASE v # 0 /\ v < 2 * Bits
    <2> DEFINE p == 2^v
               q == 2^(2 * Bits - v)
               left == shiftl128(nu, v)
               right == shiftr128(nl, 2 * Bits - v)
               high == add128(left, right)
               low == shiftl128(nl, v)
               h == (u % q) * p + (l \div q)
               k == (l % q) * p
    <2>1. ~(v >= 4 * Bits) /\ ~(v >= 2 * Bits)
      BY <1>1, <1>7
    <2>2. result256 = << high, low >>
      BY <1>7, <2>1 DEF shiftl256
    <2>3. IsProduct(M, p, q) /\ 2 * Bits - v \in Nat
      BY <1>1, <1>7, PowerAsProduct
    <2>4. /\ left \in UInt128 /\ Value128(left) = (u * p) % M
          /\ right \in UInt128 /\ Value128(right) = l \div q
          /\ low \in UInt128 /\ Value128(low) = (l * p) % M
      BY <1>2, <2>3, Shiftl128IsProduct, Shiftr128IsQuotient
    <2> HIDE DEF p, q, u, l, left, right, low, M, N, result256
    <2>5. /\ (u * p) % M = (u % q) * p /\ (l * p) % M = k
          /\ h \in 0 .. M - 1
          /\ ((u * M + l) * p) % (M * M) = h * M + k
      BY <1>3, <2>3, PairTimes
    <2>6. Value128(left) + Value128(right) = h
      BY <2>4, <2>5
    <2> HIDE DEF h, k
    <2>7. high \in UInt128 /\ Value128(high) = h
      <3>1. h < Base128
        BY <1>1, <2>5 DEF M
      <3>2. QED
        BY <2>4, <2>6, <3>1, Add128Fits
    <2> HIDE DEF high
    <2>8. << high, low >> \in UInt256 /\ Value256(<< high, low >>) = h * M + k
      <3>1. /\ << high, low >> \in UInt256
            /\ Value256(<< high, low >>) = Value128(high) * Base128 + Value128(low)
        BY <2>4, <2>7, Pair256
      <3>2. QED
        BY <2>4, <2>5, <2>7, <3>1 DEF M
    <2>9. QED
      BY <1>2, <2>2, <2>5, <2>8 DEF N, M, p, result256
  <1>8. QED
    BY <1>1, <1>4, <1>5, <1>6, <1>7

\* shiftr256 (uint256.c:150-173) divides by a power of two.
THEOREM Shiftr256IsQuotient ==
    ASSUME NEW n \in UInt256, NEW v \in Nat
    PROVE  /\ shiftr256(n, v) \in UInt256
           /\ Value256(shiftr256(n, v)) = Value256(n) \div 2^v
  <1> DEFINE nu == UPPER(n)
             nl == LOWER(n)
             u  == Value128(nu)
             l  == Value128(nl)
             N  == Value256(n)
             M  == Base128
             MM == Base128 * Base128
             result256 == shiftr256(n, v)
  <1>1. /\ M \in Nat \ {0} /\ MM \in Nat \ {0} /\ M = 2^(2 * Bits) /\ MM = 2^(4 * Bits)
        /\ 2 * Bits \in Nat /\ 4 * Bits \in Nat /\ 4 * Bits >= 2 * Bits /\ 2 * Bits > 0
    <2>1. M \in Nat \ {0} /\ M = 2^(2 * Bits) /\ MM = 2^(4 * Bits)
      BY BasesArePositive
    <2>2. 2 * Bits \in Nat /\ 4 * Bits \in Nat /\ 4 * Bits >= 2 * Bits /\ 2 * Bits > 0
      BY BitsArePositive
    <2>3. MM \in Nat \ {0}
      BY <2>1, <2>2, PowerIsPositive
    <2>4. QED
      BY <2>1, <2>2, <2>3
  <1>2. /\ nu \in UInt128 /\ nl \in UInt128 /\ N = u * M + l
        /\ N \in 0 .. MM - 1 /\ N \in Nat
    BY Parts256
  <1>3. u \in 0 .. M - 1 /\ l \in 0 .. M - 1
    BY <1>2, Parts128
  <1>4. CASE v >= 4 * Bits
    <2>1. result256 = Zero256
      BY <1>4 DEF shiftr256
    <2>2. v - 4 * Bits \in Nat /\ 2^(v - 4 * Bits) \in Nat \ {0} /\ 2^v = 2^(4 * Bits) * 2^(v - 4 * Bits)
      BY <1>1, <1>4, PowerAsMultiple
    <2> DEFINE k == 2^(v - 4 * Bits)
    <2>3. k \in Nat \ {0} /\ 2^v = MM * k
      BY <1>1, <2>2
    <2> HIDE DEF k, result256, N, MM
    <2>4. N \div (MM * k) = 0
      BY <1>1, <1>2, <2>3, OffTheRight
    <2>5. QED
      BY <2>1, <2>3, <2>4, Zeros DEF N, result256
  <1>5. CASE v >= 2 * Bits /\ v < 4 * Bits
    <2> DEFINE k == 2^(v - 2 * Bits)
               low == shiftr128(nu, v - 2 * Bits)
               h == u \div k
    <2>1. ~(v >= 4 * Bits)
      BY <1>1, <1>5
    <2>2. result256 = << Zero128, low >>
      BY <1>5, <2>1 DEF shiftr256
    <2>3. k \in Nat \ {0} /\ 2^v = M * k /\ v - 2 * Bits \in Nat
      BY <1>1, <1>5, PowerAsMultiple
    <2>4. low \in UInt128 /\ Value128(low) = h
      BY <1>2, <2>3, Shiftr128IsQuotient
    <2> HIDE DEF k, low, u, l, M, N, result256
    <2>5. M \in Nat \ {0} /\ u \in 0 .. M - 1 /\ l \in 0 .. M - 1 /\ k \in Nat \ {0}
      BY <1>1, <1>3, <2>3
    <2>6. h \in 0 .. M - 1 /\ (u * M + l) \div (M * k) = h
      BY <2>5, PairDividedAll
    <2>7. /\ << Zero128, low >> \in UInt256
          /\ Value256(<< Zero128, low >>) = Value128(Zero128) * Base128 + Value128(low)
      BY <2>4, Zeros, Pair256
    <2> HIDE DEF h
    <2>8. Value256(<< Zero128, low >>) = 0 * M + h /\ 0 * M + h = h
      <3>1. h \in Nat /\ M \in Nat
        BY <1>1, <2>6
      <3>2. QED
        BY <2>4, <2>7, <3>1, Zeros DEF M
    <2>9. QED
      BY <1>2, <2>2, <2>3, <2>6, <2>7, <2>8 DEF N, result256
  <1>6. CASE v = 0
    <2>1. ~(v >= 4 * Bits) /\ ~(v >= 2 * Bits)
      BY <1>1, <1>6
    <2>2. result256 = n
      BY <1>6, <2>1 DEF shiftr256
    <2>3. N \div 1 = N
      BY <1>2, DivisionByOne
    <2> HIDE DEF result256
    <2>4. QED
      BY <1>6, <2>2, <2>3, PowerOfZero DEF N, result256
  <1>7. CASE v # 0 /\ v < 2 * Bits
    <2> DEFINE p == 2^v
               q == 2^(2 * Bits - v)
               right == shiftr128(nl, v)
               left == shiftl128(nu, 2 * Bits - v)
               high == shiftr128(nu, v)
               low == add128(right, left)
               h == u \div p
               k == (u % p) * q + (l \div p)
    <2>1. ~(v >= 4 * Bits) /\ ~(v >= 2 * Bits)
      BY <1>1, <1>7
    <2>2. result256 = << high, low >>
      BY <1>7, <2>1 DEF shiftr256
    <2>3. IsProduct(M, p, q) /\ 2 * Bits - v \in Nat
      BY <1>1, <1>7, PowerAsProduct
    <2>4. /\ left \in UInt128 /\ Value128(left) = (u * q) % M
          /\ right \in UInt128 /\ Value128(right) = l \div p
          /\ high \in UInt128 /\ Value128(high) = h
      BY <1>2, <2>3, Shiftl128IsProduct, Shiftr128IsQuotient
    <2> HIDE DEF p, q, u, l, left, right, high, M, N, result256
    <2>5. /\ (u * q) % M = (u % p) * q
          /\ h \in 0 .. M - 1 /\ k \in 0 .. M - 1 /\ l \div p \in Nat /\ (u % p) * q \in Nat
          /\ (u * M + l) \div p = h * M + k
      <3>1. /\ (u * q) % M = (u % p) * q
            /\ h \in 0 .. M - 1 /\ k \in 0 .. M - 1 /\ l \div p \in 0 .. q - 1 /\ (u % p) * q \in Nat
            /\ (u * M + l) \div p = h * M + k
        BY <1>3, <2>3, PairDivided
      <3>2. l \div p \in Nat
        BY <2>3, <3>1 DEF IsProduct
      <3>3. QED
        BY <3>1, <3>2
    <2>6. Value128(right) + Value128(left) = k
      <3> DEFINE x == l \div p
                 y == (u % p) * q
      <3>1. Value128(right) = x /\ Value128(left) = y /\ x \in Nat /\ y \in Nat /\ k = y + x
        BY <2>4, <2>5
      <3> HIDE DEF x, y, k
      <3>2. QED
        BY <3>1
    <2> HIDE DEF h, k
    <2>7. low \in UInt128 /\ Value128(low) = k
      <3>1. k < Base128
        BY <1>1, <2>5 DEF M
      <3>2. QED
        BY <2>4, <2>6, <3>1, Add128Fits
    <2> HIDE DEF low
    <2>8. << high, low >> \in UInt256 /\ Value256(<< high, low >>) = h * M + k
      <3>1. /\ << high, low >> \in UInt256
            /\ Value256(<< high, low >>) = Value128(high) * Base128 + Value128(low)
        BY <2>4, <2>7, Pair256
      <3>2. QED
        BY <2>4, <2>5, <2>7, <3>1 DEF M
    <2>9. QED
      BY <1>2, <2>2, <2>5, <2>8 DEF N, p, result256
  <1>8. QED
    BY <1>1, <1>4, <1>5, <1>6, <1>7

-----------------------------------------------------------------------------
(* Disjunction *)

\* The bits of Or are taken one after another.
LEMMA OrByBits ==
    ASSUME NEW a \in Nat, NEW b \in Nat
    PROVE  \E f :
              /\ Or(a, b) = f[Bits]
              /\ f[0] = 0
              /\ \A k \in 1 .. Bits :
                    f[k] = f[k - 1] + BoolToInt(Bit(a, k - 1) + Bit(b, k - 1) > 0) * 2^(k - 1)
  <1> DEFINE lowest[k \in 0 .. Bits] ==
                IF k = 0 THEN 0
                ELSE lowest[k - 1]
                     + BoolToInt(Bit(a, k - 1) + Bit(b, k - 1) > 0) * 2^(k - 1)
  <1>1. Or(a, b) = lowest[Bits]
    BY DEF Or
  <1>2. Bits \in Nat /\ 0 \in Nat
    BY BitsArePositive
  <1>3. FiniteNatInductiveDefHypothesis(lowest, 0,
            LAMBDA v, k : v + BoolToInt(Bit(a, k - 1) + Bit(b, k - 1) > 0) * 2^(k - 1), 0, Bits)
    BY DEF FiniteNatInductiveDefHypothesis, lowest
  <1> HIDE DEF lowest
  <1>4. FiniteNatInductiveDefConclusion(lowest, 0,
            LAMBDA v, k : v + BoolToInt(Bit(a, k - 1) + Bit(b, k - 1) > 0) * 2^(k - 1), 0, Bits)
    BY <1>2, <1>3, FiniteNatInductiveDef
  <1>5. lowest = [k \in 0 .. Bits |->
                    IF k = 0 THEN 0
                    ELSE lowest[k - 1]
                         + BoolToInt(Bit(a, k - 1) + Bit(b, k - 1) > 0) * 2^(k - 1)]
    BY <1>4 DEF FiniteNatInductiveDefConclusion
  <1>6. lowest[0] = 0
    BY <1>2, <1>5
  <1>7. \A k \in 1 .. Bits :
           lowest[k] = lowest[k - 1] + BoolToInt(Bit(a, k - 1) + Bit(b, k - 1) > 0) * 2^(k - 1)
    <2>1. SUFFICES ASSUME NEW k \in 1 .. Bits
                   PROVE  lowest[k] = lowest[k - 1] + BoolToInt(Bit(a, k - 1) + Bit(b, k - 1) > 0) * 2^(k - 1)
      OBVIOUS
    <2>2. k \in 0 .. Bits /\ k # 0
      BY <1>2
    <2>3. QED
      BY <1>5, <2>2
  <1>8. QED
    BY <1>1, <1>6, <1>7

\* The bits of two words make a word.
LEMMA OrIsWord == ASSUME NEW a \in Nat, NEW b \in Nat PROVE Or(a, b) \in Word
  <1>1. PICK f : /\ Or(a, b) = f[Bits]
                 /\ f[0] = 0
                 /\ \A k \in 1 .. Bits :
                       f[k] = f[k - 1] + BoolToInt(Bit(a, k - 1) + Bit(b, k - 1) > 0) * 2^(k - 1)
    BY OrByBits
  <1> DEFINE S == {k \in 0 .. Bits : f[k] \in 0 .. 2^k - 1}
  <1>2. Bits \in Nat
    BY BitsArePositive
  <1>3. 0 \in S
    <2>1. 0 \in 0 .. 1 - 1 /\ 0 \in 0 .. Bits
      BY <1>2
    <2>2. QED
      BY <1>1, <2>1, PowerOfZero
  <1>4. ASSUME NEW k \in 0 .. Bits - 1, k \in S PROVE k + 1 \in S
    <2>1. k \in Nat /\ k + 1 \in 1 .. Bits /\ k + 1 \in 0 .. Bits /\ (k + 1) - 1 = k
      BY <1>2
    <2> DEFINE p == 2^k
               c == BoolToInt(Bit(a, k) + Bit(b, k) > 0)
    <2>2. f[k + 1] = f[k] + c * p
      BY <1>1, <2>1
    <2>3. f[k] \in 0 .. p - 1
      BY <1>4
    <2>4. p \in Nat /\ 2^(k + 1) = 2 * p
      BY <2>1, PowerIsPositive, PowerOfNext
    <2>5. c \in {0, 1}
      BY DEF BoolToInt
    <2> HIDE DEF p, c
    <2>6. f[k] + c * p \in 0 .. 2 * p - 1
      BY <2>3, <2>4, <2>5
    <2>7. QED
      BY <2>1, <2>2, <2>4, <2>6
  <1> HIDE DEF S
  <1>5. \A k \in 0 .. Bits : k \in S
    BY <1>2, <1>3, <1>4, Induction
  <1>6. Bits \in S
    BY <1>2, <1>5
  <1>7. QED
    BY <1>1, <1>6, BasesArePositive DEF S

\* The next bit of a number.
LEMMA NextBit ==
    ASSUME NEW a \in Nat, NEW k \in Nat
    PROVE  Bit(a, k) \in {0, 1} /\ a % 2^k \in Nat /\ a % 2^(k + 1) = (a % 2^k) + Bit(a, k) * 2^k
  <1> DEFINE p == 2^k
             q == a \div p
             r == a % p
             c == q \div 2
             d == q % 2
             pp == 2 * p
             low == d * p + r
  <1>1. p \in Nat \ {0} /\ 2^(k + 1) = pp
    BY PowerIsPositive, PowerOfNext
  <1> HIDE DEF p
  <1>2. q \in Nat /\ r \in 0 .. p - 1 /\ a = q * p + r
    BY <1>1, Division
  <1> HIDE DEF q, r
  <1>3. c \in Nat /\ d \in 0 .. 1 /\ q = c * 2 + d
    BY <1>2, Division
  <1> HIDE DEF c, d
  <1>4. a = c * pp + low
    <2>1. (c * 2 + d) * p + r = c * (2 * p) + (d * p + r)
      BY <1>1, <1>2, <1>3
    <2>2. QED
      BY <1>2, <1>3, <2>1
  <1>5. low \in 0 .. pp - 1 /\ pp \in Nat \ {0}
    <2>1. CASE d = 0
      BY <1>1, <1>2, <2>1
    <2>2. CASE d = 1
      BY <1>1, <1>2, <2>2
    <2>3. QED
      BY <1>3, <2>1, <2>2
  <1>6. low = r + d * p
    <2>1. d * p \in Nat
      BY <1>1, <1>3
    <2> DEFINE dp == d * p
    <2>2. dp \in Nat
      BY <2>1
    <2> HIDE DEF dp
    <2>3. dp + r = r + dp
      BY <1>1, <1>2, <2>2
    <2>4. QED
      BY <2>3 DEF dp
  <1> HIDE DEF low, pp
  <1>7. (c * pp + low) % pp = low
    BY <1>3, <1>5, DivisionIsUnique
  <1>8. Bit(a, k) = d
    BY DEF Bit, p, q, d
  <1>9. d \in {0, 1} /\ r \in Nat
    BY <1>1, <1>2, <1>3
  <1>10. QED
    BY <1>1, <1>4, <1>6, <1>7, <1>8, <1>9 DEF r, p

\* Words that share no bit: their disjunction is their sum.
LEMMA OrIsSum ==
    ASSUME NEW a \in Word, NEW b \in Word,
           \A k \in 0 .. Bits - 1 : Bit(a, k) = 0 \/ Bit(b, k) = 0
    PROVE  Or(a, b) = a + b
  <1>1. Bits \in Nat /\ Base \in Nat \ {0} /\ Word = 0 .. Base - 1 /\ Base = 2^Bits
    BY BitsArePositive, BasesArePositive
  <1>2. a \in 0 .. Base - 1 /\ b \in 0 .. Base - 1 /\ a \in Nat /\ b \in Nat
    BY <1>1
  <1>3. PICK f : /\ Or(a, b) = f[Bits]
                 /\ f[0] = 0
                 /\ \A k \in 1 .. Bits :
                       f[k] = f[k - 1] + BoolToInt(Bit(a, k - 1) + Bit(b, k - 1) > 0) * 2^(k - 1)
    BY <1>2, OrByBits
  <1> DEFINE S == {k \in 0 .. Bits : f[k] = (a % 2^k) + (b % 2^k)}
  <1>4. 0 \in S
    <2>1. a % 1 = 0 /\ b % 1 = 0 /\ 0 \in 0 .. Bits
      BY <1>1, <1>2
    <2>2. QED
      BY <1>3, <2>1, PowerOfZero
  <1>5. ASSUME NEW k \in 0 .. Bits - 1, k \in S PROVE k + 1 \in S
    <2>1. k \in Nat /\ k + 1 \in 1 .. Bits /\ k + 1 \in 0 .. Bits /\ (k + 1) - 1 = k
      BY <1>1
    <2> DEFINE p == 2^k
               x == a % p
               y == b % p
               d == Bit(a, k)
               e == Bit(b, k)
               c == BoolToInt(d + e > 0)
    <2>2. f[k + 1] = f[k] + c * p
      BY <1>3, <2>1
    <2>3. f[k] = x + y
      BY <1>5
    <2>4. /\ d \in {0, 1} /\ x \in Nat /\ a % 2^(k + 1) = x + d * p
          /\ e \in {0, 1} /\ y \in Nat /\ b % 2^(k + 1) = y + e * p
      BY <1>2, <2>1, NextBit
    <2>5. p \in Nat
      BY <2>1, PowerIsPositive
    <2>6. d = 0 \/ e = 0
      OBVIOUS
    <2> HIDE DEF d, e
    <2>7. c = d + e
      BY <2>4, <2>6 DEF BoolToInt
    <2> HIDE DEF p, x, y, c
    <2>8. (x + y) + (d + e) * p = (x + d * p) + (y + e * p)
      BY <2>4, <2>5
    <2>9. f[k + 1] = (a % 2^(k + 1)) + (b % 2^(k + 1))
      BY <2>2, <2>3, <2>4, <2>7, <2>8
    <2>10. QED
      BY <2>1, <2>9
  <1> HIDE DEF S
  <1>6. \A k \in 0 .. Bits : k \in S
    BY <1>1, <1>4, <1>5, Induction
  <1>7. Bits \in S
    BY <1>1, <1>6
  <1>8. f[Bits] = (a % Base) + (b % Base)
    BY <1>1, <1>7 DEF S
  <1>9. a % Base = a /\ b % Base = b
    BY <1>1, <1>2, DivisionOfSmall
  <1>10. QED
    BY <1>3, <1>8, <1>9

\* A power of two has one bit.
LEMMA BitsOfPower ==
    ASSUME NEW e \in Nat, NEW k \in Nat, k # e
    PROVE  Bit(2^e, k) = 0
  <1>1. CASE k < e
    <2> DEFINE p == 2^k
               q == 2^(e - k - 1)
    <2>1. k + 1 <= e /\ k + 1 \in Nat /\ e - (k + 1) = e - k - 1
      BY <1>1
    <2>2. 2^e = 2^(k + 1) * 2^(e - (k + 1)) /\ 2^(e - (k + 1)) \in Nat
      BY <2>1, PowerSplits
    <2>3. 2^(k + 1) = 2 * p /\ p \in Nat \ {0}
      BY PowerOfNext, PowerIsPositive
    <2>4. 2^e = (2 * p) * q /\ q \in Nat
      BY <2>1, <2>2, <2>3
    <2> HIDE DEF p, q
    <2>5. (2 * p) * q = (q * 2) * p /\ q * 2 \in Nat
      BY <2>3, <2>4
    <2> DEFINE qq == q * 2
    <2>6. qq \in Nat /\ 2^e = qq * p
      BY <2>4, <2>5
    <2> HIDE DEF qq
    <2>7. (qq * p) \div p = qq
      BY <2>3, <2>6, DivisionOfMultiple
    <2>8. qq % 2 = 0
      BY <2>4, DivisionOfMultiple DEF qq
    <2>9. QED
      BY <2>6, <2>7, <2>8 DEF Bit, p
  <1>2. CASE k > e
    <2> DEFINE a == 2^e
               p == 2^k
    <2>1. a < p /\ a \in Nat /\ p \in Nat \ {0}
      BY <1>2, PowerIsMonotone, PowerIsPositive
    <2> HIDE DEF a, p
    <2>2. a \in 0 .. p - 1
      BY <2>1
    <2>3. a \div p = 0
      BY <2>1, <2>2, DivisionOfSmall
    <2>4. 0 % 2 = 0
      OBVIOUS
    <2>5. QED
      BY <2>3, <2>4 DEF Bit, a, p
  <1>3. QED
    BY <1>1, <1>2

\* A multiple of a power of two lacks the bit below it.
LEMMA BitOfMultiple ==
    ASSUME NEW a \in Nat, NEW e \in Nat, a % 2^(e + 1) = 0
    PROVE  Bit(a, e) = 0
  <1> DEFINE p == 2^e
             b == Bit(a, e)
  <1>1. b \in {0, 1} /\ a % p \in Nat /\ 0 = (a % p) + b * p
    BY NextBit
  <1>2. p \in Nat \ {0}
    BY PowerIsPositive
  <1> HIDE DEF p, b
  <1>3. b = 0
    BY <1>1, <1>2
  <1>4. QED
    BY <1>3 DEF b

\* A bit below every bit of a word is added by |.
LEMMA OrOfNextBit ==
    ASSUME NEW a \in Word, NEW e \in 0 .. Bits - 1, a % 2^(e + 1) = 0
    PROVE  2^e \in Word /\ Or(a, 2^e) = a + 2^e
  <1>1. Bits \in Nat /\ Base \in Nat \ {0} /\ Word = 0 .. Base - 1 /\ Base = 2^Bits
    BY BitsArePositive, BasesArePositive
  <1>2. a \in Nat /\ e \in Nat /\ e < Bits
    BY <1>1
  <1>3. 2^e < 2^Bits /\ 2^e \in Nat
    BY <1>1, <1>2, PowerIsMonotone, PowerIsPositive
  <1>4. 2^e \in Word
    <2> DEFINE p == 2^e
    <2>1. p < Base /\ p \in Nat
      BY <1>1, <1>3
    <2> HIDE DEF p
    <2>2. p \in 0 .. Base - 1
      BY <1>1, <2>1
    <2>3. QED
      BY <1>1, <2>2 DEF p
  <1>5. \A k \in 0 .. Bits - 1 : Bit(a, k) = 0 \/ Bit(2^e, k) = 0
    <2>1. SUFFICES ASSUME NEW k \in 0 .. Bits - 1 PROVE Bit(a, k) = 0 \/ Bit(2^e, k) = 0
      OBVIOUS
    <2>2. k \in Nat
      BY <1>1
    <2>3. QED
      BY <1>2, <2>2, BitsOfPower, BitOfMultiple
  <1>6. QED
    BY <1>4, <1>5, OrIsSum

\* No bit is added by | 0.
LEMMA OrOfZero == ASSUME NEW a \in Word PROVE Or(a, 0) = a
  <1>1. Bits \in Nat /\ Base \in Nat \ {0} /\ Word = 0 .. Base - 1 /\ 0 \in Word
    BY BitsArePositive, BasesArePositive
  <1>2. \A k \in 0 .. Bits - 1 : Bit(0, k) = 0
    <2>1. SUFFICES ASSUME NEW k \in 0 .. Bits - 1 PROVE Bit(0, k) = 0
      OBVIOUS
    <2> DEFINE p == 2^k
    <2>2. p \in Nat \ {0}
      BY <1>1, PowerIsPositive
    <2> HIDE DEF p
    <2>3. 0 \in 0 .. p - 1
      BY <2>2
    <2>4. 0 \div p = 0
      BY <2>2, <2>3, DivisionOfSmall
    <2>5. 0 % 2 = 0
      OBVIOUS
    <2>6. QED
      BY <2>4, <2>5 DEF Bit, p
  <1>3. Or(a, 0) = a + 0
    BY <1>1, <1>2, OrIsSum
  <1>4. QED
    BY <1>1, <1>3

\* A power of two in two digits.
LEMMA PowerInPair ==
    ASSUME NEW m \in Nat, NEW e \in Nat, NEW M, M = 2^m,
           NEW u \in 0 .. M - 1, NEW l \in 0 .. M - 1, u * M + l = 2^e
    PROVE  /\ e < m => u = 0 /\ l = 2^e
           /\ e >= m => e - m \in Nat /\ l = 0 /\ u = 2^(e - m)
  <1>1. M \in Nat \ {0} /\ u \in Nat /\ l \in Nat
    BY PowerIsPositive
  <1>2. CASE e < m
    <2> DEFINE p == 2^e
    <2>1. p < M /\ p \in Nat
      BY <1>2, PowerIsMonotone, PowerIsPositive
    <2>2. u * M + l = p
      OBVIOUS
    <2> HIDE DEF p
    <2>3. p \in 0 .. M - 1 /\ 0 \in Nat /\ 0 * M + p = p
      BY <1>1, <2>1
    <2>4. u * M + l = 0 * M + p
      BY <2>2, <2>3
    <2>5. u = 0 /\ l = p
      BY <1>1, <2>3, <2>4, OrderOfPairs
    <2>6. QED
      BY <1>2, <2>5 DEF p
  <1>3. CASE e >= m
    <2> DEFINE p == 2^(e - m)
    <2>1. e - m \in Nat /\ p \in Nat /\ 2^e = M * p
      BY <1>3, PowerAsMultiple
    <2>2. u * M + l = M * p
      BY <2>1
    <2> HIDE DEF p
    <2>3. 0 \in 0 .. M - 1 /\ M * p = p * M + 0
      BY <1>1, <2>1
    <2>4. u * M + l = p * M + 0
      BY <2>2, <2>3
    <2>5. u = p /\ l = 0
      BY <1>1, <2>1, <2>3, <2>4, OrderOfPairs
    <2>6. QED
      BY <1>3, <2>1, <2>5 DEF p
  <1>4. QED
    BY <1>2, <1>3

\* What leaves no remainder is a multiple.
LEMMA DivisibleIsMultiple ==
    ASSUME NEW a \in Nat, NEW p \in Nat \ {0}, a % p = 0
    PROVE  \E c \in Nat : a = c * p
  <1>1. a \div p \in Nat /\ a = (a \div p) * p + 0
    BY Division
  <1>2. (a \div p) * p \in Nat
    BY <1>1
  <1>3. a = (a \div p) * p
    BY <1>1, <1>2
  <1>4. QED
    BY <1>1, <1>3

\* A multiple of a power of two in two digits.
LEMMA MultipleInPair ==
    ASSUME NEW m \in Nat, NEW e \in Nat, NEW M, M = 2^m,
           NEW u \in 0 .. M - 1, NEW l \in 0 .. M - 1, (u * M + l) % 2^(e + 1) = 0
    PROVE  /\ e < m => l % 2^(e + 1) = 0
           /\ e >= m => l = 0 /\ u % 2^((e - m) + 1) = 0
  <1>1. M \in Nat \ {0} /\ u \in Nat /\ l \in Nat
    BY PowerIsPositive
  <1> DEFINE p == 2^(e + 1)
             a == u * M + l
  <1>2. p \in Nat \ {0} /\ e + 1 \in Nat
    BY PowerIsPositive
  <1>3. a \in Nat
    <2> DEFINE x == u * M
    <2>1. x \in Nat
      BY <1>1
    <2> HIDE DEF x
    <2>2. x + l \in Nat
      BY <1>1, <2>1
    <2>3. QED
      BY <2>2 DEF x
  <1>4. a % p = 0
    OBVIOUS
  <1>5. CASE e < m
    <2> DEFINE q == 2^(m - (e + 1))
    <2>1. M = p * q /\ q \in Nat
      BY <1>2, <1>5, PowerSplits
    <2> HIDE DEF p, q
    <2> DEFINE c == l \div p
               r == l % p
    <2>2. c \in Nat /\ r \in 0 .. p - 1 /\ l = c * p + r
      BY <1>1, <1>2, Division
    <2> HIDE DEF c, r
    <2>3. a = (u * q + c) * p + r
      <3> DEFINE x == u * q
                 y == c * p
      <3>1. u * (p * q) = x * p /\ x \in Nat /\ y \in Nat
        BY <1>1, <1>2, <2>1, <2>2
      <3>2. a = x * p + (y + r)
        BY <2>1, <2>2, <3>1
      <3>3. (x + c) * p = x * p + y
        <4> HIDE DEF x
        <4>1. QED
          BY <1>2, <2>2, <3>1
      <3>4. x * p \in Nat
        <4> HIDE DEF x
        <4>1. QED
          BY <1>2, <3>1
      <3> DEFINE z == x * p
      <3>5. z \in Nat /\ a = z + (y + r) /\ (x + c) * p = z + y
        BY <3>2, <3>3, <3>4
      <3> HIDE DEF a, z, y, x
      <3>6. z + (y + r) = (z + y) + r
        BY <1>2, <2>2, <3>1, <3>5
      <3>7. QED
        BY <3>5, <3>6 DEF x
    <2> DEFINE k == u * q + c
    <2>4. k \in Nat
      <3> DEFINE x == u * q
      <3>1. x \in Nat
        BY <1>1, <2>1
      <3> HIDE DEF x
      <3>2. x + c \in Nat
        BY <2>2, <3>1
      <3>3. QED
        BY <3>2 DEF x
    <2>5. a = k * p + r
      BY <2>3
    <2> HIDE DEF k, a
    <2>6. (k * p + r) % p = r
      BY <1>2, <2>2, <2>4, DivisionIsUnique
    <2>7. r = 0
      BY <1>4, <2>5, <2>6
    <2>8. QED
      BY <1>5, <2>7 DEF p, r
  <1>6. CASE e >= m
    <2> DEFINE q == 2^((e - m) + 1)
    <2>1. p = M * q /\ q \in Nat \ {0}
      <3>1. (e + 1) - m = (e - m) + 1 /\ e + 1 >= m
        BY <1>6
      <3>2. QED
        BY <1>2, <3>1, PowerAsMultiple
    <2>2. PICK c \in Nat : a = c * p
      <3> HIDE DEF a, p
      <3>1. QED
        BY <1>2, <1>3, <1>4, DivisibleIsMultiple
    <2> HIDE DEF q, p
    <2> DEFINE k == c * q
    <2>3. c * (M * q) = k * M /\ k \in Nat
      BY <1>1, <2>1
    <2>4. u * M + l = k * M
      BY <2>1, <2>2, <2>3
    <2> HIDE DEF k, a
    <2>5. k * M = k * M + 0 /\ 0 \in 0 .. M - 1
      BY <1>1, <2>3
    <2>6. u * M + l = k * M + 0
      BY <2>4, <2>5
    <2>7. u = k /\ l = 0
      <3>1. M \in Nat /\ u \in Nat /\ k \in Nat /\ l \in 0 .. M - 1 /\ 0 \in 0 .. M - 1
        BY <1>1, <2>3, <2>5
      <3>2. QED
        BY <3>1, <2>6, OrderOfPairs
    <2>8. (c * q) % q = 0
      BY <2>1, DivisionOfMultiple
    <2>9. QED
      BY <1>6, <2>7, <2>8 DEF k, q
  <1>7. QED
    BY <1>5, <1>6

\* or128 (uint256.c:277-280) adds a power of two below every bit of a.
LEMMA Or128IsSum ==
    ASSUME NEW a \in UInt128, NEW b \in UInt128, NEW e \in 0 .. 2 * Bits - 1,
           Value128(a) % 2^(e + 1) = 0, Value128(b) = 2^e
    PROVE  or128(a, b) \in UInt128 /\ Value128(or128(a, b)) = Value128(a) + 2^e
  <1> DEFINE u == UPPER(a)
             l == LOWER(a)
             x == UPPER(b)
             y == LOWER(b)
  <1>1. /\ Base \in Nat \ {0} /\ Word = 0 .. Base - 1 /\ Base = 2^Bits
        /\ Bits \in Nat \ {0} /\ e \in Nat
    BY BasesArePositive, BitsArePositive
  <1>2. /\ u \in Word /\ l \in Word /\ Value128(a) = u * Base + l /\ u \in Nat /\ l \in Nat
        /\ x \in Word /\ y \in Word /\ Value128(b) = x * Base + y
    BY Parts128
  <1>3. or128(a, b) = << Or(u, x), Or(l, y) >>
    BY DEF or128
  <1> HIDE DEF u, l, x, y
  <1>4. /\ u \in 0 .. Base - 1 /\ l \in 0 .. Base - 1 /\ x \in 0 .. Base - 1 /\ y \in 0 .. Base - 1
        /\ Bits \in Nat /\ x * Base + y = 2^e /\ (u * Base + l) % 2^(e + 1) = 0
    BY <1>1, <1>2
  <1>5. /\ e < Bits => x = 0 /\ y = 2^e
        /\ e >= Bits => e - Bits \in Nat /\ y = 0 /\ x = 2^(e - Bits)
    BY <1>1, <1>4, PowerInPair
  <1>6. /\ e < Bits => l % 2^(e + 1) = 0
        /\ e >= Bits => l = 0 /\ u % 2^((e - Bits) + 1) = 0
    BY <1>1, <1>4, MultipleInPair
  <1> DEFINE p == 2^e
  <1>7. p \in Nat
    BY <1>1, PowerIsPositive
  <1>8. CASE e < Bits
    <2>1. e \in 0 .. Bits - 1
      BY <1>1, <1>8
    <2>2. y = p /\ x = 0
      BY <1>5, <1>8
    <2>3. Or(l, p) = l + p
      BY <1>2, <1>6, <1>8, <2>1, OrOfNextBit
    <2>4. Or(u, 0) = u
      BY <1>2, OrOfZero
    <2>5. Or(l, p) \in Word
      BY <1>2, <1>7, OrIsWord
    <2> HIDE DEF p
    <2>6. or128(a, b) = << u, l + p >> /\ l + p \in Word
      BY <1>3, <2>2, <2>3, <2>4, <2>5
    <2>7. << u, l + p >> \in UInt128 /\ Value128(<< u, l + p >>) = u * Base + (l + p)
      BY <1>2, <2>6, Pair128
    <2>8. u * Base + (l + p) = (u * Base + l) + p
      <3> DEFINE z == u * Base
      <3>1. z \in Nat
        BY <1>1, <1>2
      <3> HIDE DEF z
      <3>2. z + (l + p) = (z + l) + p
        BY <1>2, <1>7, <3>1
      <3>3. QED
        BY <3>2 DEF z
    <2>9. QED
      BY <1>2, <2>6, <2>7, <2>8 DEF p
  <1>9. CASE e >= Bits
    <2> DEFINE q == 2^(e - Bits)
    <2>1. e - Bits \in 0 .. Bits - 1 /\ e - Bits \in Nat
      BY <1>1, <1>9
    <2>2. y = 0 /\ x = q /\ l = 0
      BY <1>5, <1>6, <1>9
    <2>3. Or(u, q) = u + q
      BY <1>2, <1>6, <1>9, <2>1, OrOfNextBit
    <2>4. Or(l, 0) = l
      BY <1>2, OrOfZero
    <2>5. q \in Nat
      BY <2>1, PowerIsPositive
    <2>6. Or(u, q) \in Word
      BY <1>2, <2>5, OrIsWord
    <2> HIDE DEF q, p
    <2>7. or128(a, b) = << u + q, l >> /\ u + q \in Word
      BY <1>3, <2>2, <2>3, <2>4, <2>6
    <2>8. << u + q, l >> \in UInt128 /\ Value128(<< u + q, l >>) = (u + q) * Base + l
      BY <1>2, <2>7, Pair128
    <2>9. q * Base + 0 = p /\ q * Base \in Nat
      BY <1>1, <1>4, <2>2, <2>5 DEF p
    <2>10. (u + q) * Base + 0 = (u * Base + 0) + (q * Base + 0)
      BY <1>1, <1>2, <2>5
    <2>11. QED
      BY <1>2, <2>2, <2>7, <2>8, <2>9, <2>10 DEF p
  <1>10. QED
    BY <1>1, <1>8, <1>9

\* or128 of zero changes nothing.
LEMMA Or128OfZero == ASSUME NEW a \in UInt128 PROVE or128(a, Zero128) = a
  <1>1. UPPER(a) \in Word /\ LOWER(a) \in Word /\ a = << UPPER(a), LOWER(a) >>
    BY Parts128, Value128Range
  <1>2. or128(a, Zero128) = << Or(UPPER(a), 0), Or(LOWER(a), 0) >>
    BY DEF or128, Zero128, UPPER, LOWER
  <1>3. QED
    BY <1>1, <1>2, OrOfZero

\* or256 (uint256.c:282-285) with a power of two that is below every bit of a
\* number adds it: what divmod256 does to its quotient.
THEOREM Or256IsSum ==
    ASSUME NEW a \in UInt256, NEW b \in UInt256, NEW e \in 0 .. 4 * Bits - 1,
           Value256(a) % 2^(e + 1) = 0, Value256(b) = 2^e
    PROVE  or256(a, b) \in UInt256 /\ Value256(or256(a, b)) = Value256(a) + 2^e
  <1> DEFINE au == UPPER(a)
             al == LOWER(a)
             bu == UPPER(b)
             bl == LOWER(b)
             u == Value128(au)
             l == Value128(al)
             x == Value128(bu)
             y == Value128(bl)
             m == 2 * Bits
             M == Base128
             p == 2^e
  <1>1. M \in Nat \ {0} /\ M = 2^m /\ m \in Nat /\ e \in Nat /\ e < 2 * m /\ p \in Nat
    <2>1. 2 * Bits \in Nat /\ e \in Nat /\ e < 2 * (2 * Bits)
      BY BitsArePositive
    <2>2. QED
      BY <2>1, BasesArePositive, PowerIsPositive
  <1>2. /\ au \in UInt128 /\ al \in UInt128 /\ Value256(a) = u * M + l
        /\ bu \in UInt128 /\ bl \in UInt128 /\ Value256(b) = x * M + y
    BY Parts256
  <1>3. or256(a, b) = << or128(au, bu), or128(al, bl) >>
    BY DEF or256
  <1> HIDE DEF au, al, bu, bl, M, m
  <1>4. /\ u \in 0 .. M - 1 /\ l \in 0 .. M - 1 /\ x \in 0 .. M - 1 /\ y \in 0 .. M - 1
        /\ u \in Nat /\ l \in Nat
    BY <1>2, Parts128 DEF M
  <1>5. x * M + y = 2^e /\ (u * M + l) % 2^(e + 1) = 0
    BY <1>2
  <1> HIDE DEF u, l, x, y
  <1>6. /\ e < m => x = 0 /\ y = 2^e
        /\ e >= m => e - m \in Nat /\ y = 0 /\ x = 2^(e - m)
    BY <1>1, <1>4, <1>5, PowerInPair
  <1>7. /\ e < m => l % 2^(e + 1) = 0
        /\ e >= m => l = 0 /\ u % 2^((e - m) + 1) = 0
    BY <1>1, <1>4, <1>5, MultipleInPair
  <1>8. CASE e < m
    <2>1. e \in 0 .. 2 * Bits - 1
      BY <1>1, <1>8 DEF m
    <2>2. or128(al, bl) \in UInt128 /\ Value128(or128(al, bl)) = l + p
      BY <1>2, <1>6, <1>7, <1>8, <2>1, Or128IsSum DEF l, y
    <2>3. bu = Zero128
      BY <1>2, <1>6, <1>8, Zeros, ValueIsInjective DEF x
    <2>4. or128(au, bu) = au
      BY <1>2, <2>3, Or128OfZero
    <2> DEFINE low == or128(al, bl)
    <2>5. or256(a, b) = << au, low >> /\ low \in UInt128 /\ Value128(low) = l + p
      BY <1>3, <2>2, <2>4
    <2> HIDE DEF low, p
    <2>6. << au, low >> \in UInt256 /\ Value256(<< au, low >>) = u * M + (l + p)
      BY <1>2, <2>5, Pair256 DEF u, M
    <2>7. u * M + (l + p) = (u * M + l) + p
      <3> DEFINE z == u * M
      <3>1. z \in Nat
        BY <1>1, <1>4
      <3> HIDE DEF z
      <3>2. z + (l + p) = (z + l) + p
        BY <1>1, <1>4, <3>1
      <3>3. QED
        BY <3>2 DEF z
    <2>8. QED
      BY <1>2, <2>5, <2>6, <2>7 DEF p
  <1>9. CASE e >= m
    <2> DEFINE q == 2^(e - m)
    <2>1. e - m \in 0 .. 2 * Bits - 1 /\ e - m \in Nat
      BY <1>1, <1>9 DEF m
    <2>2. y = 0 /\ x = q /\ l = 0
      BY <1>6, <1>7, <1>9
    <2>3. or128(au, bu) \in UInt128 /\ Value128(or128(au, bu)) = u + q
      BY <1>2, <1>6, <1>7, <1>9, <2>1, Or128IsSum DEF u, x
    <2>4. bl = Zero128
      BY <1>2, <2>2, Zeros, ValueIsInjective DEF y
    <2>5. or128(al, bl) = al
      BY <1>2, <2>4, Or128OfZero
    <2>6. q \in Nat
      BY <2>1, PowerIsPositive
    <2> DEFINE high == or128(au, bu)
    <2>7. or256(a, b) = << high, al >> /\ high \in UInt128 /\ Value128(high) = u + q
      BY <1>3, <2>3, <2>5
    <2> HIDE DEF high, q, p
    <2>8. << high, al >> \in UInt256 /\ Value256(<< high, al >>) = (u + q) * M + l
      BY <1>2, <2>7, Pair256 DEF l, M
    <2>9. q * M + 0 = p /\ q * M \in Nat
      BY <1>1, <1>5, <2>2, <2>6 DEF p
    <2>10. (u + q) * M + 0 = (u * M + 0) + (q * M + 0)
      BY <1>1, <1>4, <2>6
    <2>11. QED
      BY <1>2, <2>2, <2>7, <2>8, <2>9, <2>10 DEF p
  <1>10. QED
    BY <1>1, <1>8, <1>9

-----------------------------------------------------------------------------
(* The length of a number in bits *)

\* The length of a word is the place of its highest bit.
LEMMA BitsOfIsLength ==
    ASSUME NEW w \in Word, w # 0
    PROVE  \E b \in 1 .. Bits : BitsOf(w) = b /\ 2^(b - 1) <= w /\ w < 2^b
  <1>1. Bits \in Nat /\ Base \in Nat \ {0} /\ Word = 0 .. Base - 1 /\ Base = 2^Bits
    BY BitsArePositive, BasesArePositive
  <1>2. w \in Nat /\ w < 2^Bits
    BY <1>1
  <1> DEFINE above == {k \in Nat : w < 2^k}
  <1>3. Bits \in above /\ above \subseteq Nat
    BY <1>1, <1>2
  <1>4. PICK b \in above : \A k \in above : b <= k
    BY <1>3, LeastMember
  <1>5. b \in Nat /\ w < 2^b /\ b <= Bits
    BY <1>3, <1>4
  <1>6. b # 0
    <2>1. SUFFICES ASSUME b = 0 PROVE FALSE
      OBVIOUS
    <2>2. w < 1
      BY <1>5, <2>1, PowerOfZero
    <2>3. QED
      BY <1>2, <2>2
  <1>7. b - 1 \in Nat /\ b \in 1 .. Bits
    BY <1>1, <1>5, <1>6
  <1>8. 2^(b - 1) <= w
    <2>1. ~(b <= b - 1)
      BY <1>5
    <2>2. b - 1 \notin above
      BY <1>4, <2>1
    <2>3. ~(w < 2^(b - 1))
      BY <1>7, <2>2
    <2> DEFINE p == 2^(b - 1)
    <2>4. p \in Nat /\ ~(w < p)
      BY <1>7, <2>3, PowerIsPositive
    <2> HIDE DEF p
    <2>5. p <= w
      BY <1>2, <2>4
    <2>6. QED
      BY <2>5 DEF p
  <1>9. {k \in 0 .. Bits - 1 : w >= 2^k} = 0 .. b - 1
    <2>1. ASSUME NEW k \in 0 .. Bits - 1 PROVE w >= 2^k <=> k \in 0 .. b - 1
      <3>1. k \in Nat
        BY <1>1
      <3> DEFINE p == 2^k
      <3>2. p \in Nat
        BY <3>1, PowerIsPositive
      <3>3. CASE k < b
        <4> DEFINE q == 2^(b - 1)
        <4>1. k <= b - 1 /\ k \in 0 .. b - 1
          BY <1>5, <3>1, <3>3
        <4>2. p <= q /\ q \in Nat /\ q <= w
          BY <1>7, <1>8, <3>1, <4>1, PowerSplits
        <4> HIDE DEF p, q
        <4>3. w >= p
          BY <1>2, <3>2, <4>2
        <4>4. QED
          BY <4>1, <4>3 DEF p
      <3>4. CASE k >= b
        <4>1. k \notin 0 .. b - 1
          BY <1>5, <3>1, <3>4
        <4> DEFINE q == 2^b
        <4>2. q <= p /\ q \in Nat /\ w < q
          BY <1>5, <3>1, <3>4, PowerSplits
        <4> HIDE DEF p, q
        <4>3. ~(w >= p)
          BY <1>2, <3>2, <4>2
        <4>4. QED
          BY <4>1, <4>3 DEF p
      <3>5. QED
        BY <1>5, <3>1, <3>3, <3>4
    <2>2. 0 .. b - 1 \subseteq 0 .. Bits - 1
      BY <1>1, <1>7
    <2>3. QED
      BY <2>1, <2>2
  <1>10. Cardinality(0 .. b - 1) = b
    <2>1. Cardinality(0 .. b - 1) = (IF 0 > b - 1 THEN 0 ELSE (b - 1) - 0 + 1)
      BY <1>5, FS_Interval
    <2>2. QED
      BY <1>7, <2>1
  <1>11. BitsOf(w) = b
    BY <1>9, <1>10 DEF BitsOf
  <1>12. QED
    BY <1>5, <1>7, <1>8, <1>11

\* Zero has no bits.
LEMMA BitsOfZero == BitsOf(0) = 0
  <1>1. {k \in 0 .. Bits - 1 : 0 >= 2^k} = {}
    <2>1. ASSUME NEW k \in 0 .. Bits - 1 PROVE ~(0 >= 2^k)
      <3>1. k \in Nat
        BY BitsArePositive
      <3>2. 2^k \in Nat \ {0}
        BY <3>1, PowerIsPositive
      <3>3. QED
        BY <3>2
    <2>2. QED
      BY <2>1
  <1>2. QED
    BY <1>1, FS_EmptySet DEF BitsOf

\* A digit more makes a number longer by the bits of a digit.
LEMMA LengthOfPair ==
    ASSUME NEW m \in Nat, NEW M, M = 2^m, NEW b \in Nat \ {0},
           NEW u \in Nat, NEW l \in 0 .. M - 1, 2^(b - 1) <= u, u < 2^b
    PROVE  2^((m + b) - 1) <= u * M + l /\ u * M + l < 2^(m + b)
  <1>1. M \in Nat \ {0} /\ b - 1 \in Nat /\ (m + b) - 1 = m + (b - 1) /\ b \in Nat
    BY PowerIsPositive
  <1> DEFINE p == 2^(b - 1)
             q == 2^b
             pM == p * M
             uM == u * M
             qM == q * M
  <1>2. 2^((m + b) - 1) = M * p /\ 2^(m + b) = M * q /\ p \in Nat /\ q \in Nat
    BY <1>1, PowerOfSum, PowerIsPositive
  <1>3. p <= u /\ u < q
    OBVIOUS
  <1> HIDE DEF p, q
  <1>4. M * p = pM /\ M * q = qM /\ uM \in Nat /\ pM \in Nat /\ qM \in Nat
    BY <1>1, <1>2
  <1>5. q \in Nat \ {0} /\ u \in 0 .. q - 1
    BY <1>2, <1>3
  <1>6. uM + M <= qM
    BY <1>1, <1>5, ScaledBelow
  <1>7. pM <= uM
    <2>1. CASE p = u
      BY <1>4, <2>1
    <2>2. CASE p < u
      <3>1. u >= p /\ u > p
        BY <1>2, <2>2
      <3>2. uM >= pM + M
        BY <1>1, <1>2, <3>1, Multiples
      <3> HIDE DEF uM, pM
      <3>3. QED
        BY <1>1, <1>4, <3>2
    <2>3. QED
      BY <1>2, <1>3, <2>1, <2>2
  <1> HIDE DEF pM, uM, qM
  <1>8. pM <= uM + l /\ uM + l < qM
    BY <1>1, <1>4, <1>6, <1>7
  <1>9. QED
    BY <1>2, <1>4, <1>8 DEF uM

\* bits128 (uint256.c:175-192) is the length of the number.
LEMMA Bits128IsLength ==
    ASSUME NEW n \in UInt128, Value128(n) # 0
    PROVE  \E b \in 1 .. 2 * Bits :
              bits128(n) = b /\ 2^(b - 1) <= Value128(n) /\ Value128(n) < 2^b
  <1> DEFINE u == UPPER(n)
             l == LOWER(n)
  <1>1. /\ Bits \in Nat \ {0} /\ Base \in Nat \ {0} /\ Word = 0 .. Base - 1 /\ Base = 2^Bits
    BY BitsArePositive, BasesArePositive
  <1>2. u \in Word /\ l \in Word /\ u \in Nat /\ l \in Nat /\ Value128(n) = u * Base + l
    BY Parts128
  <1>3. bits128(n) = IF u # 0 THEN Bits + BitsOf(u) ELSE BitsOf(l)
    BY DEF bits128
  <1> HIDE DEF u, l
  <1>4. CASE u # 0
    <2>1. PICK b \in 1 .. Bits : BitsOf(u) = b /\ 2^(b - 1) <= u /\ u < 2^b
      BY <1>2, <1>4, BitsOfIsLength
    <2>2. b \in Nat \ {0} /\ Bits + b \in 1 .. 2 * Bits /\ l \in 0 .. Base - 1 /\ Bits \in Nat
      BY <1>1, <1>2
    <2>3. 2^((Bits + b) - 1) <= u * Base + l /\ u * Base + l < 2^(Bits + b)
      BY <1>1, <1>2, <2>1, <2>2, LengthOfPair
    <2>4. bits128(n) = Bits + b
      BY <1>3, <1>4, <2>1
    <2>5. QED
      BY <1>2, <2>2, <2>3, <2>4
  <1>5. CASE u = 0
    <2>1. Value128(n) = l /\ l # 0
      BY <1>1, <1>2, <1>5
    <2>2. PICK b \in 1 .. Bits : BitsOf(l) = b /\ 2^(b - 1) <= l /\ l < 2^b
      BY <1>2, <2>1, BitsOfIsLength
    <2>3. b \in 1 .. 2 * Bits /\ bits128(n) = b
      BY <1>1, <1>3, <1>5, <2>2
    <2>4. QED
      BY <2>1, <2>2, <2>3
  <1>6. QED
    BY <1>4, <1>5

\* bits256 (uint256.c:194-213) is the number of binary digits.
THEOREM Bits256IsLength ==
    ASSUME NEW n \in UInt256, Value256(n) # 0
    PROVE  \E b \in 1 .. 4 * Bits :
              bits256(n) = b /\ 2^(b - 1) <= Value256(n) /\ Value256(n) < 2^b
  <1> DEFINE nu == UPPER(n)
             nl == LOWER(n)
             u == Value128(nu)
             l == Value128(nl)
             m == 2 * Bits
             M == Base128
  <1>1. M \in Nat \ {0} /\ m \in Nat /\ M = 2^m
    BY BitsArePositive, BasesArePositive
  <1>2. nu \in UInt128 /\ nl \in UInt128 /\ Value256(n) = u * M + l
    BY Parts256
  <1>3. bits256(n) = IF ~zero128(nu) THEN m + bits128(nu) ELSE bits128(nl)
    BY DEF bits256
  <1>4. zero128(nu) <=> u = 0
    BY <1>2, ZeroIsZero128
  <1> HIDE DEF nu, nl, M
  <1>5. u \in Nat /\ l \in Nat /\ l \in 0 .. M - 1
    BY <1>2, Parts128 DEF M
  <1>6. CASE u # 0
    <2>1. PICK b \in 1 .. m : bits128(nu) = b /\ 2^(b - 1) <= u /\ u < 2^b
      BY <1>2, <1>6, Bits128IsLength
    <2>2. b \in Nat \ {0} /\ m + b \in 1 .. 4 * Bits
      <3>1. Bits \in Nat
        BY BitsArePositive
      <3>2. QED
        BY <3>1
    <2>3. 2^((m + b) - 1) <= u * M + l /\ u * M + l < 2^(m + b)
      <3> HIDE DEF u, l, m
      <3>1. QED
        BY <1>1, <1>5, <2>1, <2>2, LengthOfPair
    <2>4. bits256(n) = m + b
      BY <1>3, <1>4, <1>6, <2>1
    <2> HIDE DEF u, l, m
    <2>5. QED
      BY <1>2, <2>2, <2>3, <2>4
  <1>7. CASE u = 0
    <2>1. Value256(n) = l /\ l # 0
      <3> HIDE DEF u, l
      <3>1. u * M = 0
        BY <1>1, <1>7
      <3>2. QED
        BY <1>2, <1>5, <3>1
    <2>2. PICK b \in 1 .. m : bits128(nl) = b /\ 2^(b - 1) <= l /\ l < 2^b
      BY <1>2, <2>1, Bits128IsLength
    <2>3. b \in 1 .. 4 * Bits
      <3>1. Bits \in Nat
        BY BitsArePositive
      <3>2. QED
        BY <3>1
    <2>4. bits256(n) = b
      BY <1>3, <1>4, <1>7, <2>2
    <2>5. QED
      BY <2>1, <2>2, <2>3, <2>4
  <1>8. QED
    BY <1>6, <1>7

\* A number has one length.
LEMMA LengthIsUnique ==
    ASSUME NEW x \in Nat, NEW b \in Nat \ {0}, NEW c \in Nat \ {0},
           2^(b - 1) <= x, x < 2^b, 2^(c - 1) <= x, x < 2^c
    PROVE  b = c
  <1>1. ASSUME NEW i \in Nat \ {0}, NEW j \in Nat \ {0}, i < j, x < 2^i, 2^(j - 1) <= x
        PROVE  FALSE
    <2> DEFINE p == 2^i
               q == 2^(j - 1)
    <2>1. i \in Nat /\ j - 1 \in Nat /\ i <= j - 1
      BY <1>1
    <2>2. p <= q /\ p \in Nat /\ q \in Nat
      BY <2>1, PowerSplits
    <2>3. x < p /\ q <= x
      BY <1>1
    <2> HIDE DEF p, q
    <2>4. QED
      BY <2>2, <2>3
  <1>2. ~(b < c) /\ ~(c < b)
    BY <1>1
  <1>3. QED
    BY <1>2

\* What divmod256 compares with and shifts.
LEMMA TheBase ==
    /\ base \in UInt256 /\ Value256(base) = DECIMAL_BASE /\ bits256(base) = 4
    /\ one \in UInt256 /\ Value256(one) = 1
    /\ DECIMAL_BASE \in Word
  <1>1. /\ Base \in Nat \ {0} /\ Word = 0 .. Base - 1 /\ Base > 10 /\ 0 \in Word /\ 1 \in Word
        /\ Base128 \in Nat
    BY BasesArePositive, DecimalAssumption DEF DECIMAL_BASE
  <1>2. DECIMAL_BASE \in Word /\ DECIMAL_BASE = 10
    BY <1>1 DEF DECIMAL_BASE
  <1>3. ASSUME NEW w \in Word
        PROVE  << Zero128, << 0, w >> >> \in UInt256 /\ Value256(<< Zero128, << 0, w >> >>) = w
    <2>1. << 0, w >> \in UInt128 /\ Value128(<< 0, w >>) = 0 * Base + w
      BY <1>1, Pair128
    <2>2. w \in Nat
      BY <1>1
    <2>3. Value128(<< 0, w >>) = w
      BY <1>1, <2>1, <2>2
    <2> DEFINE l == << 0, w >>
    <2>4. l \in UInt128 /\ Value128(l) = w
      BY <2>1, <2>3
    <2> HIDE DEF l
    <2>5. << Zero128, l >> \in UInt256 /\ Value256(<< Zero128, l >>) = 0 * Base128 + w
      BY <2>4, Zeros, Pair256
    <2>6. QED
      BY <1>1, <2>2, <2>5 DEF l
  <1>4. base \in UInt256 /\ Value256(base) = DECIMAL_BASE
    BY <1>2, <1>3 DEF base
  <1>5. one \in UInt256 /\ Value256(one) = 1
    BY <1>1, <1>3 DEF one
  <1>6. 2^3 = 8 /\ 2^4 = 16
    <2>1. 2^(0 + 1) = 2 /\ 0 + 1 = 1
      BY PowerOfZero, PowerOfNext
    <2>2. 2^(1 + 1) = 4 /\ 1 + 1 = 2
      BY <2>1, PowerOfNext
    <2>3. 2^(2 + 1) = 8 /\ 2 + 1 = 3
      BY <2>2, PowerOfNext
    <2>4. 2^(3 + 1) = 16 /\ 3 + 1 = 4
      BY <2>3, PowerOfNext
    <2>5. QED
      BY <2>3, <2>4
  <1>7. PICK b \in 1 .. 4 * Bits : bits256(base) = b /\ 2^(b - 1) <= 10 /\ 10 < 2^b
    BY <1>2, <1>4, Bits256IsLength
  <1>8. b \in Nat \ {0} /\ 4 \in Nat \ {0} /\ 4 - 1 = 3 /\ 10 \in Nat
    BY BitsArePositive
  <1>9. 2^(4 - 1) <= 10 /\ 10 < 2^4
    BY <1>6, <1>8
  <1>10. b = 4
    BY <1>7, <1>8, <1>9, LengthIsUnique
  <1>11. QED
    BY <1>2, <1>4, <1>5, <1>7, <1>10

-----------------------------------------------------------------------------
(* Multiplication *)

\* The halves mul128 splits words into are halves.
LEMMA HalvesOfWord ==
    /\ Half \in Nat \ {0} /\ Half > 1 /\ Base = Half * Half
    /\ IsProduct(Base, Half, Half)
  <1> DEFINE m == Bits \div 2
  <1>1. Bits \in Nat \ {0} /\ Bits % 2 = 0
    BY BitsArePositive, WidthsAssumption DEF Bits
  <1>2. m \in Nat \ {0} /\ m + m = Bits
    BY <1>1
  <1> HIDE DEF m
  <1>3. 2^(m + m) = 2^m * 2^m
    BY <1>2, PowerOfSum
  <1>4. 2^m > 1 /\ 2^m \in Nat \ {0}
    BY <1>2, PowerIsAboveOne, PowerIsPositive
  <1>5. Half = 2^m
    BY DEF Half, m
  <1>6. Base = 2^(m + m)
    BY <1>2 DEF Base
  <1>7. QED
    BY <1>3, <1>4, <1>5, <1>6 DEF IsProduct

\* The product of two numbers of two digits, by columns.
LEMMA ProductByColumns ==
    ASSUME NEW H \in Nat, H > 1,
           NEW a1 \in 0 .. H - 1, NEW a0 \in 0 .. H - 1,
           NEW b1 \in 0 .. H - 1, NEW b0 \in 0 .. H - 1,
           NEW l12 \in 0 .. H - 1, NEW h12 \in 0 .. H - 1, a1 * b1 = h12 * H + l12,
           NEW l13 \in 0 .. H - 1, NEW h13 \in 0 .. H - 1, a1 * b0 = h13 * H + l13,
           NEW l02 \in 0 .. H - 1, NEW h02 \in 0 .. H - 1, a0 * b1 = h02 * H + l02,
           NEW l03 \in 0 .. H - 1, NEW h03 \in 0 .. H - 1, a0 * b0 = h03 * H + l03
    PROVE  /\ l02 + h03 + l13 \in 0 .. (H * H) - 1
           /\ h02 + l12 + h13 \in 0 .. (H * H) - 1
           /\ h12 * H \in 0 .. (H * H) - 1
           /\ (a1 * H + a0) * (b1 * H + b0)
              = (h12 * H) * (H * H) + (h02 + l12 + h13) * (H * H)
                + (l02 + h03 + l13) * H + l03
  <1>1. (a1 * H + a0) * (b1 * H + b0)
        = (a1 * b1) * (H * H) + ((a0 * b1) + (a1 * b0)) * H + (a0 * b0)
    OBVIOUS
  <1>2. (h12 * H + l12) * (H * H) + ((h02 * H + l02) + (h13 * H + l13)) * H + (h03 * H + l03)
        = (h12 * H) * (H * H) + (h02 + l12 + h13) * (H * H) + (l02 + h03 + l13) * H + l03
    OBVIOUS
  <1> DEFINE k == H - 2
             e == k * (H - 1)
             B == H * H
  <1>3. k \in Nat /\ H - 1 \in Nat /\ e \in Nat /\ B = e + 3 * H - 2 /\ B \in Nat
    OBVIOUS
  <1> HIDE DEF e, k, B
  <1>4. l02 + h03 + l13 \in 0 .. B - 1 /\ h02 + l12 + h13 \in 0 .. B - 1
    BY <1>3
  <1>5. h12 * H \in Nat /\ h12 * H + H <= B
    BY ScaledBelow DEF B
  <1> DEFINE hH == h12 * H
  <1>6. hH \in Nat /\ hH + H <= B
    BY <1>5
  <1> HIDE DEF hH
  <1>7. hH \in 0 .. B - 1
    BY <1>3, <1>6
  <1>8. QED
    BY <1>1, <1>2, <1>4, <1>7 DEF hH, B

\* A product of two half words in two digits.
LEMMA ProductOfHalves ==
    ASSUME NEW H \in Nat \ {0}, NEW a \in 0 .. H - 1, NEW b \in 0 .. H - 1
    PROVE  /\ a * b \in Nat /\ a * b < H * H
           /\ (a * b) \div H \in 0 .. H - 1 /\ (a * b) % H \in 0 .. H - 1
           /\ a * b = ((a * b) \div H) * H + ((a * b) % H)
  <1> DEFINE p == a * b
             q == p \div H
             r == p % H
             B == H * H
             qH == q * H
  <1>1. p \in Nat /\ B \in Nat
    OBVIOUS
  <1>2. p < B
    <2>1. CASE b = 0
      BY <2>1
    <2>2. CASE b # 0
      <3>1. p + b <= H * b
        BY <2>2, ScaledBelow
      <3> DEFINE c == H - b
      <3>2. c \in Nat /\ H = b + c
        OBVIOUS
      <3>3. H * c \in Nat /\ H * b \in Nat
        BY <3>2
      <3>4. B = H * b + H * c
        <4>1. H * (b + c) = H * b + H * c
          BY <3>2
        <4>2. QED
          BY <3>2, <4>1
      <3> DEFINE Hc == H * c
                 Hb == H * b
      <3>5. Hc \in Nat /\ Hb \in Nat /\ B = Hb + Hc /\ p + b <= Hb
        BY <3>1, <3>3, <3>4
      <3> HIDE DEF p, B, Hb, Hc
      <3>6. QED
        BY <1>1, <2>2, <3>5
    <2>3. QED
      BY <2>1, <2>2
  <1> HIDE DEF p
  <1>3. q \in Nat /\ r \in 0 .. H - 1 /\ p = q * H + r
    BY <1>1, Division
  <1> HIDE DEF q, r
  <1>4. q < H
    <2>1. SUFFICES ASSUME q >= H PROVE FALSE
      BY <1>3
    <2>2. qH >= B /\ qH \in Nat
      BY <1>3, <2>1
    <2>3. p = qH + r
      BY <1>3
    <2> HIDE DEF qH, B
    <2>4. QED
      BY <1>1, <1>2, <1>3, <2>2, <2>3
  <1>5. q \in 0 .. H - 1
    BY <1>3, <1>4
  <1>6. QED
    BY <1>1, <1>2, <1>3, <1>5 DEF p, q, r, B

\* mul128 (uint256.c:287-326) of two words, which is all that mul256 uses
\* it for, is their product.
THEOREM Mul128IsProduct ==
    ASSUME NEW a \in Word, NEW b \in Word
    PROVE  /\ mul128(<< 0, a >>, << 0, b >>) \in UInt128
           /\ Value128(mul128(<< 0, a >>, << 0, b >>)) = a * b
  <1> DEFINE H == Half
             a1 == a \div H
             a0 == a % H
             b1 == b \div H
             b0 == b % H
             p12 == a1 * b1
             p13 == a1 * b0
             p02 == a0 * b1
             p03 == a0 * b0
             top == HalfWords(<< 0, a >>)
             bottom == HalfWords(<< 0, b >>)
             p == Products128(top, bottom)
             l == [d \in Digits |-> p[d] % Half]
             h == [d \in Digits |-> p[d] \div Half]
  <1>1. /\ H \in Nat \ {0} /\ H > 1 /\ Base = H * H /\ IsProduct(Base, H, H)
        /\ Base \in Nat \ {0} /\ Word = 0 .. Base - 1 /\ 0 \in Word
    BY HalvesOfWord, BasesArePositive
  <1>2. a \in 0 .. Base - 1 /\ b \in 0 .. Base - 1 /\ a \in Nat /\ b \in Nat
    BY <1>1
  <1>3. /\ a1 \in 0 .. H - 1 /\ a0 \in 0 .. H - 1 /\ a = a1 * H + a0
        /\ b1 \in 0 .. H - 1 /\ b0 \in 0 .. H - 1 /\ b = b1 * H + b0
    <2>1. ASSUME NEW w \in 0 .. Base - 1
          PROVE  w \div H \in 0 .. H - 1 /\ w % H \in 0 .. H - 1 /\ w = (w \div H) * H + (w % H)
      <3>1. w \div H \in 0 .. H - 1
        BY <1>1, <2>1, PairTimes
      <3>2. w \in Nat
        BY <1>1
      <3> HIDE DEF H
      <3>3. w % H \in 0 .. H - 1 /\ w = (w \div H) * H + (w % H)
        BY <1>1, <3>2, Division
      <3>4. QED
        BY <3>1, <3>3
    <2>2. QED
      BY <1>2, <2>1
  <1>4. 0 \div H = 0 /\ 0 % H = 0
    <2> HIDE DEF H
    <2>1. 0 \in 0 .. H - 1
      BY <1>1
    <2>2. QED
      BY <1>1, <2>1, DivisionOfSmall
  <1>5. top = << 0, 0, a1, a0 >> /\ bottom = << 0, 0, b1, b0 >>
    BY <1>4 DEF HalfWords, UPPER, LOWER
  <1> HIDE DEF H, a1, a0, b1, b0
  <1>6. /\ p12 \in Nat /\ p12 < Base /\ p12 \div H \in 0 .. H - 1 /\ p12 % H \in 0 .. H - 1
        /\ p12 = (p12 \div H) * H + (p12 % H)
    BY <1>1, <1>3, ProductOfHalves
  <1>7. /\ p13 \in Nat /\ p13 < Base /\ p13 \div H \in 0 .. H - 1 /\ p13 % H \in 0 .. H - 1
        /\ p13 = (p13 \div H) * H + (p13 % H)
    BY <1>1, <1>3, ProductOfHalves
  <1>8. /\ p02 \in Nat /\ p02 < Base /\ p02 \div H \in 0 .. H - 1 /\ p02 % H \in 0 .. H - 1
        /\ p02 = (p02 \div H) * H + (p02 % H)
    BY <1>1, <1>3, ProductOfHalves
  <1>9. /\ p03 \in Nat /\ p03 < Base /\ p03 \div H \in 0 .. H - 1 /\ p03 % H \in 0 .. H - 1
        /\ p03 = (p03 \div H) * H + (p03 % H)
    BY <1>1, <1>3, ProductOfHalves
  <1>10. \A i, j \in 0 .. 3 : << i, j >> \in Digits /\ p[<< i, j >>] = Wrap(top[4 - i] * bottom[j + 1])
    BY DEF Products128, Digits
  <1>11. a1 \in Nat /\ a0 \in Nat /\ b1 \in Nat /\ b0 \in Nat
    BY <1>1, <1>3
  <1>12. Wrap(0) = 0
    BY <1>1, WrapSmall
  <1>13. /\ p[<< 0, 3 >>] = p03 /\ p[<< 0, 2 >>] = p02 /\ p[<< 1, 3 >>] = p13 /\ p[<< 1, 2 >>] = p12
    <2>1. ASSUME NEW x \in Nat, x < Base PROVE Wrap(x) = x
      BY <1>1, <2>1, WrapSmall
    <2>2. Wrap(p03) = p03 /\ Wrap(p02) = p02 /\ Wrap(p13) = p13 /\ Wrap(p12) = p12
      BY <1>6, <1>7, <1>8, <1>9, <2>1
    <2>3. /\ p[<< 0, 3 >>] = Wrap(top[4] * bottom[4]) /\ p[<< 0, 2 >>] = Wrap(top[4] * bottom[3])
          /\ p[<< 1, 3 >>] = Wrap(top[3] * bottom[4]) /\ p[<< 1, 2 >>] = Wrap(top[3] * bottom[3])
      <3> HIDE DEF p, top, bottom
      <3>1. QED
        BY <1>10
    <2>4. top[4] = a0 /\ top[3] = a1 /\ bottom[4] = b0 /\ bottom[3] = b1
      <3> HIDE DEF top, bottom
      <3>1. QED
        BY <1>5
    <2> HIDE DEF p, top, bottom
    <2>5. QED
      BY <2>2, <2>3, <2>4
  <1>14. /\ p[<< 0, 0 >>] = 0 /\ p[<< 0, 1 >>] = 0 /\ p[<< 1, 1 >>] = 0
         /\ p[<< 2, 2 >>] = 0 /\ p[<< 2, 3 >>] = 0 /\ p[<< 3, 3 >>] = 0
    <2> HIDE DEF p, top, bottom
    <2>1. /\ p[<< 0, 0 >>] = Wrap(top[4] * bottom[1]) /\ p[<< 0, 1 >>] = Wrap(top[4] * bottom[2])
          /\ p[<< 1, 1 >>] = Wrap(top[3] * bottom[2]) /\ p[<< 2, 2 >>] = Wrap(top[2] * bottom[3])
          /\ p[<< 2, 3 >>] = Wrap(top[2] * bottom[4]) /\ p[<< 3, 3 >>] = Wrap(top[1] * bottom[4])
      BY <1>10
    <2>2. /\ top[1] = 0 /\ top[2] = 0 /\ top[3] = a1 /\ top[4] = a0
          /\ bottom[1] = 0 /\ bottom[2] = 0 /\ bottom[3] = b1 /\ bottom[4] = b0
      BY <1>5
    <2>3. ASSUME NEW x \in Nat PROVE x * 0 = 0 /\ 0 * x = 0
      OBVIOUS
    <2>4. QED
      BY <1>11, <1>12, <2>1, <2>2, <2>3
  <1> DEFINE l12 == p12 % H
             h12 == p12 \div H
             l13 == p13 % H
             h13 == p13 \div H
             l02 == p02 % H
             h02 == p02 \div H
             l03 == p03 % H
             h03 == p03 \div H
  <1>15. /\ l[<< 0, 3 >>] = l03 /\ h[<< 0, 3 >>] = h03 /\ l[<< 0, 2 >>] = l02 /\ h[<< 0, 2 >>] = h02
         /\ l[<< 1, 3 >>] = l13 /\ h[<< 1, 3 >>] = h13 /\ l[<< 1, 2 >>] = l12 /\ h[<< 1, 2 >>] = h12
    <2> HIDE DEF p
    <2>1. QED
      BY <1>10, <1>13 DEF H
  <1>16. /\ l[<< 0, 0 >>] = 0 /\ h[<< 0, 1 >>] = 0 /\ l[<< 0, 1 >>] = 0 /\ l[<< 1, 1 >>] = 0
         /\ l[<< 2, 2 >>] = 0 /\ h[<< 2, 3 >>] = 0 /\ l[<< 2, 3 >>] = 0 /\ l[<< 3, 3 >>] = 0
    <2> HIDE DEF p
    <2>1. QED
      BY <1>4, <1>10, <1>14 DEF H
  <1>17. mul128(<< 0, a >>, << 0, b >>) = Columns128(l, h)
    BY DEF mul128, HalfDigits
  <1> HIDE DEF l, h, p, top, bottom
  <1> DEFINE t == l02 + h03 + l13
             s == h02 + l12 + h13
             f == h12 * H
             third32 == Wrap(l[0, 2] + h[0, 3] + l[1, 3])
             second32 == Wrap(l[0, 1] + h[0, 2] + l[1, 2] + h[1, 3] + l[2, 3])
             first32 == Wrap(l[0, 0] + h[0, 1] + l[1, 1] + h[1, 2] + l[2, 2] + h[2, 3]
                             + l[3, 3])
  <1>18. /\ p12 = h12 * H + l12 /\ p13 = h13 * H + l13
         /\ p02 = h02 * H + l02 /\ p03 = h03 * H + l03
         /\ l12 \in 0 .. H - 1 /\ h12 \in 0 .. H - 1 /\ l13 \in 0 .. H - 1 /\ h13 \in 0 .. H - 1
         /\ l02 \in 0 .. H - 1 /\ h02 \in 0 .. H - 1 /\ l03 \in 0 .. H - 1 /\ h03 \in 0 .. H - 1
    BY <1>6, <1>7, <1>8, <1>9
  <1> HIDE DEF l12, h12, l13, h13, l02, h02, l03, h03
  <1>19. /\ t \in 0 .. Base - 1 /\ s \in 0 .. Base - 1 /\ f \in 0 .. Base - 1
         /\ a * b = f * Base + s * Base + t * H + l03
    <2>1. /\ a1 * b1 = h12 * H + l12 /\ a1 * b0 = h13 * H + l13
          /\ a0 * b1 = h02 * H + l02 /\ a0 * b0 = h03 * H + l03
      BY <1>18
    <2>2. /\ t \in 0 .. (H * H) - 1 /\ s \in 0 .. (H * H) - 1 /\ f \in 0 .. (H * H) - 1
          /\ (a1 * H + a0) * (b1 * H + b0) = f * (H * H) + s * (H * H) + t * H + l03
      <3>1. H \in Nat
        BY <1>1
      <3>2. QED
        BY <1>1, <1>3, <1>18, <2>1, <3>1, ProductByColumns
    <2>3. QED
      BY <1>1, <1>3, <2>2
  <1>20. /\ l12 \in Nat /\ h12 \in Nat /\ l13 \in Nat /\ h13 \in Nat
         /\ l02 \in Nat /\ h02 \in Nat /\ l03 \in Nat /\ h03 \in Nat
    BY <1>1, <1>18
  <1>21. third32 = t
    <2>1. third32 = Wrap(t)
      BY <1>15
    <2>2. t \in Word
      BY <1>1, <1>19
    <2> HIDE DEF t, third32
    <2>3. QED
      BY <2>1, <2>2, WrapSmall
  <1>22. second32 = s
    <2>1. l[0, 1] + h[0, 2] + l[1, 2] + h[1, 3] + l[2, 3] = s
      <3>1. l[0, 1] + h[0, 2] + l[1, 2] + h[1, 3] + l[2, 3] = 0 + h02 + l12 + h13 + 0
        BY <1>15, <1>16, Zenon
      <3>2. 0 + h02 + l12 + h13 + 0 = s
        BY <1>20
      <3>3. QED
        BY <3>1, <3>2
    <2>2. s \in Word
      BY <1>1, <1>19
    <2>3. second32 = Wrap(s)
      BY <2>1
    <2> HIDE DEF s, second32
    <2>4. QED
      BY <2>2, <2>3, WrapSmall
  <1>23. first32 = h12
    <2>1. l[0, 0] + h[0, 1] + l[1, 1] + h[1, 2] + l[2, 2] + h[2, 3] + l[3, 3] = h12
      <3>1. l[0, 0] + h[0, 1] + l[1, 1] + h[1, 2] + l[2, 2] + h[2, 3] + l[3, 3]
            = 0 + 0 + 0 + h12 + 0 + 0 + 0
        BY <1>15, <1>16, Zenon
      <3>2. 0 + 0 + 0 + h12 + 0 + 0 + 0 = h12
        BY <1>20
      <3>3. QED
        BY <3>1, <3>2
    <2>2. h12 \in Word
      <3>1. H <= Base
        BY <1>1
      <3>2. QED
        BY <1>1, <1>18, <3>1
    <2>3. first32 = Wrap(h12)
      BY <2>1
    <2> HIDE DEF first32
    <2>4. QED
      BY <2>2, <2>3, WrapSmall
  <1> DEFINE n1 == << 0, l[0, 3] >>
             n2 == << second32, 0 >>
             n3 == << Wrap(first32 * Half), 0 >>
             n4 == << third32 \div Half, Wrap(third32 * Half) >>
  <1>24. Columns128(l, h) = add128(n1, add128(n2, add128(n3, n4)))
    BY DEF Columns128
  <1> HIDE DEF first32, second32, third32, t, s
  <1>25. n1 \in UInt128 /\ Value128(n1) = l03
    <2>1. l03 \in Word /\ l03 \in Nat
      <3>1. H <= Base
        BY <1>1
      <3>2. QED
        BY <1>1, <1>18, <3>1
    <2>2. << 0, l03 >> \in UInt128 /\ Value128(<< 0, l03 >>) = 0 * Base + l03
      BY <1>1, <2>1, Pair128
    <2>3. 0 * Base + l03 = l03
      BY <1>1, <2>1
    <2>4. n1 = << 0, l03 >>
      BY <1>15, Zenon
    <2> HIDE DEF n1
    <2>5. QED
      BY <2>2, <2>3, <2>4
  <1>26. n2 \in UInt128 /\ Value128(n2) = s * Base
    <2>1. s \in Word /\ s * Base \in Nat
      BY <1>1, <1>19
    <2>2. << s, 0 >> \in UInt128 /\ Value128(<< s, 0 >>) = s * Base + 0
      BY <1>1, <2>1, Pair128
    <2>3. QED
      BY <1>22, <2>1, <2>2
  <1>27. n3 \in UInt128 /\ Value128(n3) = f * Base
    <2>1. f \in Word /\ f * Base \in Nat
      <3> HIDE DEF f
      <3>1. QED
        BY <1>1, <1>19
    <2>2. Wrap(first32 * Half) = f
      BY <1>23, <2>1, WrapSmall DEF H
    <2> HIDE DEF f
    <2>3. << f, 0 >> \in UInt128 /\ Value128(<< f, 0 >>) = f * Base + 0
      BY <1>1, <2>1, Pair128
    <2>4. QED
      BY <2>1, <2>2, <2>3
  <1>28. n4 \in UInt128 /\ Value128(n4) = t * H
    <2> DEFINE q == t \div H
               r == t % H
               rH == r * H
    <2>1. q \in 0 .. H - 1 /\ (t * H) % Base = rH /\ rH \in 0 .. Base - 1
      <3>1. IsProduct(Base, H, H) /\ t \in 0 .. Base - 1
        BY <1>1, <1>19
      <3> HIDE DEF rH, q, r
      <3>2. (t * H) % Base = (t % H) * H /\ t \div H \in 0 .. H - 1 /\ (t % H) * H \in 0 .. Base - 1
        BY <3>1, PairTimes
      <3>3. QED
        BY <3>2 DEF rH, q, r
    <2>2. t \in Nat
      BY <1>1, <1>19
    <2>3. r \in 0 .. H - 1 /\ t = q * H + r /\ q \in Nat
      BY <1>1, <2>2, Division
    <2>4. third32 \div Half = q /\ Wrap(third32 * Half) = rH
      BY <1>21, <2>1 DEF Wrap, H
    <2>5. q \in Word /\ rH \in Word
      <3>1. H <= Base
        BY <1>1
      <3> HIDE DEF q
      <3>2. QED
        BY <1>1, <2>1, <3>1
    <2>6. n4 = << q, rH >>
      BY <2>4
    <2> HIDE DEF q, r
    <2>7. q * Base + rH = (q * H + r) * H
      BY <1>1, <2>3
    <2>8. (q * H + r) * H = t * H
      BY <2>3
    <2> HIDE DEF rH, n4
    <2>9. << q, rH >> \in UInt128 /\ Value128(<< q, rH >>) = q * Base + rH
      BY <2>5, Pair128
    <2>10. QED
      BY <2>6, <2>7, <2>8, <2>9
  <1> DEFINE v1 == l03
             v2 == s * Base
             v3 == f * Base
             v4 == t * H
  <1>29. v1 \in Nat /\ v2 \in Nat /\ v3 \in Nat /\ v4 \in Nat /\ a * b = v3 + v2 + v4 + v1
    <2> HIDE DEF f
    <2>1. s \in Nat /\ f \in Nat /\ t \in Nat
      BY <1>1, <1>19
    <2>2. QED
      BY <1>1, <1>19, <1>20, <2>1
  <1>30. a * b < Base128 /\ a * b \in Nat /\ Base128 \in Nat
    BY <1>1, <1>2, ProductOfHalves DEF Base128
  <1> DEFINE prod == a * b
  <1>31. prod < Base128 /\ Base128 \in Nat /\ prod = v3 + v2 + v4 + v1
    BY <1>29, <1>30
  <1>32. /\ n1 \in UInt128 /\ Value128(n1) = v1 /\ n2 \in UInt128 /\ Value128(n2) = v2
         /\ n3 \in UInt128 /\ Value128(n3) = v3 /\ n4 \in UInt128 /\ Value128(n4) = v4
    BY <1>25, <1>26, <1>27, <1>28
  <1> HIDE DEF n1, n2, n3, n4, v1, v2, v3, v4, prod
  <1>33. add128(n3, n4) \in UInt128 /\ Value128(add128(n3, n4)) = v3 + v4
    <2>1. v3 + v4 < Base128
      BY <1>29, <1>31
    <2>2. QED
      BY <1>32, <2>1, Add128Fits
  <1> DEFINE n5 == add128(n3, n4)
             n6 == add128(n2, n5)
             n7 == add128(n1, n6)
  <1>34. n6 \in UInt128 /\ Value128(n6) = v2 + (v3 + v4)
    <2>1. v2 + (v3 + v4) < Base128
      BY <1>29, <1>31
    <2> HIDE DEF n5
    <2>2. n5 \in UInt128 /\ Value128(n5) = v3 + v4
      BY <1>33 DEF n5
    <2>3. QED
      BY <1>32, <2>1, <2>2, Add128Fits
  <1>35. n7 \in UInt128 /\ Value128(n7) = v1 + (v2 + (v3 + v4))
    <2>1. v1 + (v2 + (v3 + v4)) < Base128
      BY <1>29, <1>31
    <2> HIDE DEF n6
    <2>2. QED
      BY <1>32, <1>34, <2>1, Add128Fits
  <1>36. v1 + (v2 + (v3 + v4)) = prod
    BY <1>29, <1>31
  <1>37. QED
    BY <1>17, <1>24, <1>35, <1>36 DEF prod

\* add128 of zero changes nothing.
LEMMA AddOfZero128 ==
    ASSUME NEW n \in UInt128
    PROVE  add128(Zero128, n) = n /\ add128(n, Zero128) = n
  <1>1. Value128(n) \in Nat /\ Value128(n) < Base128 /\ Base128 \in Nat
    <2>1. Value128(n) \in 0 .. Base128 - 1 /\ Base128 \in Nat
      BY Parts128, BasesArePositive
    <2>2. QED
      BY <2>1
  <1>2. Value128(Zero128) = 0 /\ Zero128 \in UInt128
    BY Zeros
  <1>3. 0 + Value128(n) = Value128(n) /\ Value128(n) + 0 = Value128(n)
    BY <1>1
  <1>4. add128(Zero128, n) \in UInt128 /\ Value128(add128(Zero128, n)) = Value128(n)
    BY <1>1, <1>2, <1>3, Add128Fits
  <1>5. add128(n, Zero128) \in UInt128 /\ Value128(add128(n, Zero128)) = Value128(n)
    BY <1>1, <1>2, <1>3, Add128Fits
  <1>6. QED
    BY <1>4, <1>5, ValueIsInjective

\* add256 of zero changes nothing.
LEMMA AddOfZero256 ==
    ASSUME NEW n \in UInt256
    PROVE  add256(Zero256, n) = n
  <1> DEFINE v == Value256(n)
             MM == Base128 * Base128
  <1>1. v \in 0 .. MM - 1 /\ v \in Nat /\ MM \in Nat \ {0}
    <2>1. v \in 0 .. MM - 1 /\ v \in Nat
      BY Parts256
    <2>2. Base128 \in Nat \ {0}
      BY BasesArePositive
    <2>3. QED
      BY <2>1, <2>2
  <1>2. Zero256 \in UInt256 /\ Value256(Zero256) = 0
    BY Zeros
  <1>3. add256(Zero256, n) \in UInt256 /\ Value256(add256(Zero256, n)) = (0 + v) % MM
    BY <1>2, Add256IsSum
  <1> HIDE DEF v, MM
  <1>4. (0 + v) % MM = v
    <2>1. 0 + v = v
      BY <1>1
    <2>2. v % MM = v
      BY <1>1, DivisionOfSmall
    <2>3. QED
      BY <2>1, <2>2
  <1>5. QED
    BY <1>3, <1>4, Value256IsInjective DEF v

\* Every product of two words that mul256 takes.
LEMMA ProductsAreNumbers ==
    ASSUME NEW n1 \in UInt256, NEW n2 \in UInt256
    PROVE  LET p == Products256(Words(n1), Words(n2))
           IN  \A d \in Digits : p[d] \in UInt128 /\ UPPER(p[d]) \in Word /\ LOWER(p[d]) \in Word
  <1> DEFINE top == Words(n1)
             bottom == Words(n2)
             p == Products256(top, bottom)
  <1>1. ASSUME NEW n \in UInt256, NEW i \in 1 .. 4
        PROVE  \E w \in Word : Words(n)[i] = << 0, w >>
    <2>1. /\ UPPER(UPPER(n)) \in Word /\ LOWER(UPPER(n)) \in Word
          /\ UPPER(LOWER(n)) \in Word /\ LOWER(LOWER(n)) \in Word
      BY Parts256, Parts128
    <2>2. /\ Words(n)[1] = << 0, UPPER(UPPER(n)) >> /\ Words(n)[2] = << 0, LOWER(UPPER(n)) >>
          /\ Words(n)[3] = << 0, UPPER(LOWER(n)) >> /\ Words(n)[4] = << 0, LOWER(LOWER(n)) >>
      BY DEF Words
    <2>3. i = 1 \/ i = 2 \/ i = 3 \/ i = 4
      OBVIOUS
    <2>4. QED
      BY <2>1, <2>2, <2>3
  <1>2. ASSUME NEW d \in Digits PROVE p[d] \in UInt128
    <2>1. 4 - d[1] \in 1 .. 4 /\ d[2] + 1 \in 1 .. 4
      BY DEF Digits
    <2> DEFINE i == 4 - d[1]
               j == d[2] + 1
    <2>2. PICK x \in Word : top[i] = << 0, x >>
      BY <1>1, <2>1
    <2>3. PICK y \in Word : bottom[j] = << 0, y >>
      BY <1>1, <2>1
    <2> HIDE DEF top, bottom
    <2>4. p[d] = mul128(top[4 - d[1]], bottom[d[2] + 1])
      BY DEF Products256
    <2>5. mul128(<< 0, x >>, << 0, y >>) \in UInt128
      BY Mul128IsProduct
    <2>6. p[d] = mul128(<< 0, x >>, << 0, y >>)
      BY <2>2, <2>3, <2>4
    <2>7. QED
      BY <2>5, <2>6
  <1> HIDE DEF p
  <1>3. \A d \in Digits : p[d] \in UInt128 /\ UPPER(p[d]) \in Word /\ LOWER(p[d]) \in Word
    BY <1>2, Parts128
  <1>4. QED
    BY <1>3 DEF p

\* A word as a uint128.
LEMMA WordAsPair ==
    ASSUME NEW w \in Word
    PROVE  << 0, w >> \in UInt128 /\ Value128(<< 0, w >>) = w
  <1>1. 0 \in Word /\ Base \in Nat /\ w \in Nat
    BY BasesArePositive
  <1>2. << 0, w >> \in UInt128 /\ Value128(<< 0, w >>) = 0 * Base + w
    BY <1>1, Pair128
  <1>3. 0 * Base + w = w
    BY <1>1
  <1>4. QED
    BY <1>2, <1>3

\* The columns in their places are a number.
LEMMA CombineIsNumber ==
    ASSUME NEW first64 \in UInt128, NEW second64 \in UInt128,
           NEW third64 \in UInt128, NEW fourth64 \in UInt128
    PROVE  Combine(first64, second64, third64, fourth64) \in UInt256
  <1> DEFINE n1 == << Zero128, fourth64 >>
             n2 == << second64, Zero128 >>
             n3 == << shiftl128(first64, Bits), Zero128 >>
             n4 == << << UPPER(third64), 0 >>, shiftl128(third64, Bits) >>
  <1>1. Bits \in Nat /\ 0 \in Word /\ Zero128 \in UInt128
    BY BitsArePositive, BasesArePositive, Zeros
  <1>2. shiftl128(first64, Bits) \in UInt128 /\ shiftl128(third64, Bits) \in UInt128
    BY <1>1, Shiftl128IsProduct
  <1>3. << UPPER(third64), 0 >> \in UInt128
    BY <1>1, Parts128, Pair128
  <1>4. n1 \in UInt256 /\ n2 \in UInt256 /\ n3 \in UInt256 /\ n4 \in UInt256
    BY <1>1, <1>2, <1>3, Pair256
  <1>5. Combine(first64, second64, third64, fourth64) = add256(n1, add256(n2, add256(n3, n4)))
    BY DEF Combine
  <1> HIDE DEF n1, n2, n3, n4
  <1>6. QED
    BY <1>4, <1>5, Add256IsSum

\* mul256 always gives a number, if not always the product.
LEMMA Mul256IsNumber ==
    ASSUME NEW n1 \in UInt256, NEW n2 \in UInt256
    PROVE  mul256(n1, n2) \in UInt256
  <1> DEFINE p == Products256(Words(n1), Words(n2))
             l == [d \in Digits |-> << 0, LOWER(p[d]) >>]
             h == [d \in Digits |-> << 0, UPPER(p[d]) >>]
  <1>1. mul256(n1, n2) = Columns256(l, h)
    BY DEF mul256, WordDigits
  <1>2. \A d \in Digits : UPPER(p[d]) \in Word /\ LOWER(p[d]) \in Word
    BY ProductsAreNumbers
  <1> HIDE DEF p
  <1>3. ASSUME NEW i \in 0 .. 3, NEW j \in 0 .. 3
        PROVE  l[i, j] \in UInt128 /\ h[i, j] \in UInt128
    <2> DEFINE d == << i, j >>
    <2>1. d \in Digits
      BY DEF Digits
    <2> HIDE DEF d
    <2>2. l[d] = << 0, LOWER(p[d]) >> /\ h[d] = << 0, UPPER(p[d]) >>
      BY <2>1
    <2>3. l[d] \in UInt128 /\ h[d] \in UInt128
      BY <1>2, <2>1, <2>2, WordAsPair
    <2>4. QED
      BY <2>3 DEF d
  <1> HIDE DEF l, h
  <1>4. /\ l[1, 3] \in UInt128 /\ l[0, 2] \in UInt128 /\ h[0, 3] \in UInt128 /\ l[2, 3] \in UInt128
        /\ h[1, 3] \in UInt128 /\ l[1, 2] \in UInt128 /\ l[0, 1] \in UInt128 /\ h[0, 2] \in UInt128
        /\ l[3, 3] \in UInt128 /\ h[2, 3] \in UInt128 /\ l[2, 2] \in UInt128 /\ h[1, 2] \in UInt128
        /\ l[1, 1] \in UInt128 /\ l[0, 0] \in UInt128 /\ h[0, 1] \in UInt128 /\ l[0, 3] \in UInt128
    <2>1. 0 \in 0 .. 3 /\ 1 \in 0 .. 3 /\ 2 \in 0 .. 3 /\ 3 \in 0 .. 3
      OBVIOUS
    <2>2. QED
      BY <1>3, <2>1, Zenon
  <1> DEFINE third64  == add128(l[1, 3], add128(l[0, 2], h[0, 3]))
             second64 == add128(l[2, 3], add128(h[1, 3],
                             add128(l[1, 2], add128(l[0, 1], h[0, 2]))))
             first64  == add128(l[3, 3], add128(h[2, 3],
                             add128(l[2, 2], add128(h[1, 2],
                                 add128(l[1, 1], add128(l[0, 0], h[0, 1]))))))
  <1>5. ASSUME NEW m1 \in UInt128, NEW m2 \in UInt128 PROVE add128(m1, m2) \in UInt128
    BY Add128IsSum
  <1>6. third64 \in UInt128
    BY <1>4, <1>5, Zenon
  <1>7. second64 \in UInt128
    BY <1>4, <1>5, Zenon
  <1>8. first64 \in UInt128
    BY <1>4, <1>5, Zenon
  <1>9. Columns256(l, h) = Combine(first64, second64, third64, l[0, 3])
    BY DEF Columns256
  <1> HIDE DEF first64, second64, third64
  <1>10. QED
    <2> DEFINE fourth64 == l[0, 3]
    <2>1. fourth64 \in UInt128 /\ mul256(n1, n2) = Combine(first64, second64, third64, fourth64)
      BY <1>1, <1>4, <1>9
    <2> HIDE DEF fourth64
    <2>2. QED
      BY <1>6, <1>7, <1>8, <2>1, CombineIsNumber

\* mul256 (uint256.c:328-420) of two factors of one word is their product.
THEOREM Mul256IsProduct ==
    ASSUME NEW a \in Word, NEW b \in Word
    PROVE  LET n1 == << Zero128, << 0, a >> >>
               n2 == << Zero128, << 0, b >> >>
           IN  mul256(n1, n2) \in UInt256 /\ Value256(mul256(n1, n2)) = a * b
  <1> DEFINE n1 == << Zero128, << 0, a >> >>
             n2 == << Zero128, << 0, b >> >>
             top == Words(n1)
             bottom == Words(n2)
             p == Products256(top, bottom)
             l == [d \in Digits |-> << 0, LOWER(p[d]) >>]
             h == [d \in Digits |-> << 0, UPPER(p[d]) >>]
             prod == a * b
             product128 == mul128(<< 0, a >>, << 0, b >>)
             lw == LOWER(product128)
             hw == UPPER(product128)
             L == << 0, lw >>
             K == << 0, hw >>
  <1>1. Base \in Nat \ {0} /\ Base128 \in Nat \ {0} /\ 0 \in Word /\ Word = 0 .. Base - 1 /\ Bits \in Nat
    BY BasesArePositive, BitsArePositive
  <1>2. n1 \in UInt256 /\ n2 \in UInt256
    BY WordAsPair, Zeros, Pair256
  <1>3. product128 \in UInt128 /\ Value128(product128) = prod
    BY Mul128IsProduct
  <1>4. lw \in Word /\ hw \in Word /\ prod = hw * Base + lw /\ prod \in 0 .. Base128 - 1
    BY <1>3, Parts128
  <1>5. mul256(n1, n2) = Columns256(l, h)
    BY DEF mul256, WordDigits
  <1>6. /\ top = << << 0, 0 >>, << 0, 0 >>, << 0, 0 >>, << 0, a >> >>
        /\ bottom = << << 0, 0 >>, << 0, 0 >>, << 0, 0 >>, << 0, b >> >>
    BY DEF Words, UPPER, LOWER, Zero128
  <1>7. ASSUME NEW i \in 0 .. 3, NEW j \in 0 .. 3
        PROVE  p[<< i, j >>] = mul128(top[4 - i], bottom[j + 1])
    BY DEF Products256, Digits
  <1> HIDE DEF top, bottom, p
  <1>8. p[<< 0, 3 >>] = product128
    <2>1. top[4] = << 0, a >> /\ bottom[4] = << 0, b >>
      BY <1>6
    <2>2. p[<< 0, 3 >>] = mul128(top[4 - 0], bottom[3 + 1]) /\ 4 - 0 = 4 /\ 3 + 1 = 4
      BY <1>7
    <2>3. QED
      BY <2>1, <2>2
  <1>9. ASSUME NEW i \in 0 .. 3, NEW j \in 0 .. 3, i # 0 \/ j # 3
        PROVE  p[<< i, j >>] = Zero128
    <2>1. PICK x \in Word : top[4 - i] = << 0, x >> /\ (i # 0 => x = 0)
      <3>1. CASE i = 0
        BY <1>6, <3>1
      <3>2. CASE i # 0
        BY <1>1, <1>6, <3>2
      <3>3. QED
        BY <3>1, <3>2
    <2>2. PICK y \in Word : bottom[j + 1] = << 0, y >> /\ (j # 3 => y = 0)
      <3>1. CASE j = 3
        BY <1>6, <3>1
      <3>2. CASE j # 3
        BY <1>1, <1>6, <3>2
      <3>3. QED
        BY <3>1, <3>2
    <2>3. x * y = 0
      <3>1. x \in Nat /\ y \in Nat /\ (x = 0 \/ y = 0)
        BY <1>1, <1>9, <2>1, <2>2
      <3>2. QED
        BY <3>1
    <2>4. p[<< i, j >>] = mul128(<< 0, x >>, << 0, y >>)
      BY <1>7, <2>1, <2>2
    <2>5. mul128(<< 0, x >>, << 0, y >>) \in UInt128 /\ Value128(mul128(<< 0, x >>, << 0, y >>)) = 0
      BY <2>3, Mul128IsProduct
    <2>6. QED
      BY <2>4, <2>5, Zeros, ValueIsInjective
  <1>10. ASSUME NEW i \in 0 .. 3, NEW j \in 0 .. 3
         PROVE  /\ i = 0 /\ j = 3 => l[i, j] = L /\ h[i, j] = K
                /\ i # 0 \/ j # 3 => l[i, j] = Zero128 /\ h[i, j] = Zero128
    <2> DEFINE d == << i, j >>
    <2>1. d \in Digits
      BY DEF Digits
    <2> HIDE DEF d
    <2>2. l[d] = << 0, LOWER(p[d]) >> /\ h[d] = << 0, UPPER(p[d]) >>
      BY <2>1
    <2>3. CASE i = 0 /\ j = 3
      <3>1. p[d] = product128
        BY <1>8, <2>3 DEF d
      <3> HIDE DEF l, h
      <3>2. l[d] = L /\ h[d] = K
        BY <2>2, <3>1
      <3>3. QED
        BY <2>3, <3>2 DEF d
    <2>4. CASE i # 0 \/ j # 3
      <3>1. p[d] = Zero128
        BY <1>9, <2>4 DEF d
      <3>2. LOWER(Zero128) = 0 /\ UPPER(Zero128) = 0 /\ Zero128 = << 0, 0 >>
        BY DEF LOWER, UPPER, Zero128
      <3> HIDE DEF l, h
      <3>3. l[d] = Zero128 /\ h[d] = Zero128
        BY <2>2, <3>1, <3>2
      <3>4. QED
        BY <2>4, <3>3 DEF d
    <2>5. QED
      BY <2>3, <2>4
  <1> HIDE DEF l, h
  <1>11. /\ l[0, 3] = L /\ h[0, 3] = K
         /\ l[1, 3] = Zero128 /\ l[0, 2] = Zero128 /\ l[2, 3] = Zero128
         /\ h[1, 3] = Zero128 /\ l[1, 2] = Zero128 /\ l[0, 1] = Zero128 /\ h[0, 2] = Zero128
         /\ l[3, 3] = Zero128 /\ h[2, 3] = Zero128 /\ l[2, 2] = Zero128 /\ h[1, 2] = Zero128
         /\ l[1, 1] = Zero128 /\ l[0, 0] = Zero128 /\ h[0, 1] = Zero128
    <2>1. 0 \in 0 .. 3 /\ 1 \in 0 .. 3 /\ 2 \in 0 .. 3 /\ 3 \in 0 .. 3
      OBVIOUS
    <2>2. 1 # 0 /\ 2 # 0 /\ 3 # 0 /\ 0 # 3 /\ 1 # 3 /\ 2 # 3
      OBVIOUS
    <2>3. \A i, j \in 0 .. 3 : i # 0 \/ j # 3 => l[i, j] = Zero128 /\ h[i, j] = Zero128
      BY <1>10
    <2>4. l[0, 3] = L /\ h[0, 3] = K
      BY <1>10, <2>1, Zenon
    <2> HIDE DEF L, K
    <2>5. l[1, 3] = Zero128 /\ l[0, 2] = Zero128 /\ l[2, 3] = Zero128
      BY <2>1, <2>2, <2>3, Zenon
    <2>6. h[1, 3] = Zero128 /\ l[1, 2] = Zero128 /\ l[0, 1] = Zero128 /\ h[0, 2] = Zero128
      BY <2>1, <2>2, <2>3, Zenon
    <2>7. l[3, 3] = Zero128 /\ h[2, 3] = Zero128 /\ l[2, 2] = Zero128 /\ h[1, 2] = Zero128
      BY <2>1, <2>2, <2>3, Zenon
    <2>8. l[1, 1] = Zero128 /\ l[0, 0] = Zero128 /\ h[0, 1] = Zero128
      BY <2>1, <2>2, <2>3, Zenon
    <2>9. QED
      BY <2>4, <2>5, <2>6, <2>7, <2>8
  <1> DEFINE third64  == add128(l[1, 3], add128(l[0, 2], h[0, 3]))
             second64 == add128(l[2, 3], add128(h[1, 3],
                             add128(l[1, 2], add128(l[0, 1], h[0, 2]))))
             first64  == add128(l[3, 3], add128(h[2, 3],
                             add128(l[2, 2], add128(h[1, 2],
                                 add128(l[1, 1], add128(l[0, 0], h[0, 1]))))))
  <1>12. /\ L \in UInt128 /\ Value128(L) = lw /\ K \in UInt128 /\ Value128(K) = hw
         /\ UPPER(K) = 0 /\ Zero128 \in UInt128
    BY <1>4, WordAsPair, Zeros DEF UPPER
  <1> HIDE DEF L, K
  <1>13. add128(Zero128, K) = K /\ add128(Zero128, Zero128) = Zero128
    BY <1>12, AddOfZero128
  <1>14. third64 = K
    BY <1>11, <1>13, Zenon
  <1>15. second64 = Zero128 /\ first64 = Zero128
    BY <1>11, <1>13, Zenon
  <1>16. Columns256(l, h) = Combine(first64, second64, third64, l[0, 3])
    BY DEF Columns256
  <1> HIDE DEF first64, second64, third64
  <1>17. Columns256(l, h) = Combine(Zero128, Zero128, K, L)
    BY <1>11, <1>14, <1>15, <1>16
  <1> DEFINE S == shiftl128(K, Bits)
             m1 == << Zero128, L >>
             m4 == << Zero128, S >>
  <1>18. shiftl128(Zero128, Bits) = Zero128
    <2> DEFINE k == 2^Bits
    <2>1. /\ shiftl128(Zero128, Bits) \in UInt128
          /\ Value128(shiftl128(Zero128, Bits)) = (0 * k) % Base128
      BY <1>1, Zeros, Shiftl128IsProduct
    <2>2. k \in Nat
      BY <1>1, PowerIsPositive
    <2> HIDE DEF k
    <2>3. 0 * k = 0 /\ 0 \in 0 .. Base128 - 1
      BY <1>1, <2>2
    <2>4. 0 % Base128 = 0
      BY <1>1, <2>3, DivisionOfSmall
    <2>5. QED
      BY <2>1, <2>3, <2>4, Zeros, ValueIsInjective
  <1> DEFINE hB == hw * Base
  <1>19. hB \in Nat /\ lw \in Nat /\ prod = hB + lw
    <2>1. hw \in Nat /\ lw \in Nat
      BY <1>1, <1>4
    <2> HIDE DEF hw, prod
    <2>2. QED
      BY <1>1, <1>4, <2>1
  <1> HIDE DEF hB, prod, lw
  <1>20. hB \in 0 .. Base128 - 1
    BY <1>1, <1>4, <1>19
  <1>21. S \in UInt128 /\ Value128(S) = hB
    <2>1. S \in UInt128 /\ Value128(S) = hB % Base128
      BY <1>1, <1>12, BasesArePositive, Shiftl128IsProduct DEF hB
    <2> HIDE DEF S
    <2>2. hB % Base128 = hB
      BY <1>1, <1>20, DivisionOfSmall
    <2>3. QED
      BY <2>1, <2>2
  <1>22. Combine(Zero128, Zero128, K, L)
         = add256(m1, add256(Zero256, add256(Zero256, m4)))
    <2>1. Combine(Zero128, Zero128, K, L)
          = add256(<< Zero128, L >>,
                   add256(<< Zero128, Zero128 >>,
                          add256(<< shiftl128(Zero128, Bits), Zero128 >>,
                                 << << UPPER(K), 0 >>, S >>)))
      BY DEF Combine
    <2>2. << Zero128, Zero128 >> = Zero256 /\ << UPPER(K), 0 >> = Zero128
      BY <1>12 DEF Zero256, Zero128
    <2> HIDE DEF S
    <2>3. QED
      BY <1>18, <2>1, <2>2, Zenon
  <1> HIDE DEF S
  <1>23. m4 \in UInt256 /\ Value256(m4) = 0 * Base128 + hB
    BY <1>12, <1>21, Zeros, Pair256
  <1>24. m1 \in UInt256 /\ Value256(m1) = 0 * Base128 + lw
    BY <1>12, Zeros, Pair256
  <1> HIDE DEF m1, m4
  <1>25. add256(Zero256, add256(Zero256, m4)) = m4
    BY <1>23, AddOfZero256
  <1>26. 0 * Base128 + hB = hB /\ 0 * Base128 + lw = lw
    BY <1>1, <1>19
  <1> DEFINE MM == Base128 * Base128
  <1>27. add256(m1, m4) \in UInt256 /\ Value256(add256(m1, m4)) = (lw + hB) % MM
    BY <1>23, <1>24, <1>26, Add256IsSum
  <1>28. MM \in Nat \ {0} /\ MM >= Base128
    BY <1>1
  <1> HIDE DEF MM
  <1>29. lw + hB = prod /\ prod \in 0 .. MM - 1
    BY <1>1, <1>4, <1>19, <1>28
  <1>30. prod % MM = prod
    BY <1>28, <1>29, DivisionOfSmall
  <1>31. mul256(n1, n2) \in UInt256 /\ Value256(mul256(n1, n2)) = prod
    BY <1>5, <1>17, <1>22, <1>25, <1>27, <1>29, <1>30
  <1>32. QED
    BY <1>31 DEF prod

-----------------------------------------------------------------------------
(* Reading a field *)

ByteBase == 2^ByteBits

\* A byte has bits, and a word a whole number of bytes.
LEMMA BytesArePositive ==
    /\ ByteBits \in Nat \ {0} /\ WordBytes \in Nat \ {0} /\ ByteBase \in Nat \ {0}
    /\ BytesOf256 \in Nat \ {0} /\ Base = 2^(ByteBits * WordBytes)
  <1>1. ByteBits \in Nat \ {0} /\ WordBytes \in Nat \ {0}
    BY WidthsAssumption
  <1>2. ByteBase \in Nat \ {0}
    BY <1>1, PowerIsPositive DEF ByteBase
  <1>3. BytesOf256 \in Nat \ {0}
    BY <1>1 DEF BytesOf256
  <1>4. QED
    BY <1>1, <1>2, <1>3 DEF Base, Bits

\* A byte more multiplies by the values of a byte.
LEMMA PowerOfBytes ==
    ASSUME NEW k \in Nat
    PROVE  /\ ByteBits * k \in Nat /\ 2^(ByteBits * k) \in Nat \ {0}
           /\ 2^(ByteBits * (k + 1)) = 2^(ByteBits * k) * ByteBase
  <1>1. ByteBits \in Nat
    BY BytesArePositive
  <1>2. ByteBits * k \in Nat /\ ByteBits * (k + 1) = ByteBits * k + ByteBits
    BY <1>1
  <1> DEFINE m == ByteBits * k
  <1>3. 2^(m + ByteBits) = 2^m * ByteBase /\ 2^m \in Nat \ {0}
    BY <1>1, <1>2, PowerOfSum, PowerIsPositive DEF ByteBase
  <1>4. QED
    BY <1>2, <1>3

\* The numbers of the first k bytes behind at, for every k up to n.
ReadsFrom(t, b, at, n) ==
    t[0] = 0 /\ \A k \in 1 .. n : t[k] = t[k - 1] * ByteBase + b[at + k]

\* A number read from the front of its bytes.
LEMMA ReadFromFront ==
    ASSUME NEW b, NEW n \in Nat
    PROVE  \E t : ReadsFrom(t, b, 0, n)
  <1> DEFINE t[k \in 0 .. n] == IF k = 0 THEN 0 ELSE t[k - 1] * ByteBase + b[k]
  <1>1. FiniteNatInductiveDefHypothesis(t, 0, LAMBDA v, k : v * ByteBase + b[k], 0, n)
    BY DEF FiniteNatInductiveDefHypothesis, t
  <1> HIDE DEF t
  <1>2. FiniteNatInductiveDefConclusion(t, 0, LAMBDA v, k : v * ByteBase + b[k], 0, n)
    BY <1>1, FiniteNatInductiveDef
  <1>3. t = [k \in 0 .. n |-> IF k = 0 THEN 0 ELSE t[k - 1] * ByteBase + b[k]]
    BY <1>2 DEF FiniteNatInductiveDefConclusion
  <1>4. t[0] = 0
    BY <1>3
  <1>5. ASSUME NEW k \in 1 .. n PROVE t[k] = t[k - 1] * ByteBase + b[k]
    <2>1. k \in 0 .. n /\ k # 0
      OBVIOUS
    <2>2. QED
      BY <1>3, <2>1
  <1>6. ASSUME NEW k \in 1 .. n PROVE 0 + k = k
    OBVIOUS
  <1>7. QED
    BY <1>4, <1>5, <1>6 DEF ReadsFrom

\* readUint64BE goes through the bytes of a word from the first to the last.
LEMMA WordFromBytes ==
    ASSUME NEW b, NEW at
    PROVE  \E f : readUint64BE(b, at) = f[WordBytes] /\ ReadsFrom(f, b, at, WordBytes)
  <1> DEFINE value[k \in 0 .. WordBytes] ==
                IF k = 0 THEN 0 ELSE value[k - 1] * 2^ByteBits + b[at + k]
  <1>1. readUint64BE(b, at) = value[WordBytes]
    BY DEF readUint64BE
  <1>2. WordBytes \in Nat
    BY BytesArePositive
  <1>3. FiniteNatInductiveDefHypothesis(value, 0,
            LAMBDA v, k : v * 2^ByteBits + b[at + k], 0, WordBytes)
    BY DEF FiniteNatInductiveDefHypothesis, value
  <1> HIDE DEF value
  <1>4. FiniteNatInductiveDefConclusion(value, 0,
            LAMBDA v, k : v * 2^ByteBits + b[at + k], 0, WordBytes)
    BY <1>2, <1>3, FiniteNatInductiveDef
  <1>5. value = [k \in 0 .. WordBytes |->
                    IF k = 0 THEN 0 ELSE value[k - 1] * 2^ByteBits + b[at + k]]
    BY <1>4 DEF FiniteNatInductiveDefConclusion
  <1>6. value[0] = 0
    BY <1>2, <1>5
  <1>7. ASSUME NEW k \in 1 .. WordBytes PROVE value[k] = value[k - 1] * ByteBase + b[at + k]
    <2>1. k \in 0 .. WordBytes /\ k # 0
      BY <1>2
    <2>2. QED
      BY <1>5, <2>1 DEF ByteBase
  <1>8. ReadsFrom(value, b, at, WordBytes)
    BY <1>6, <1>7 DEF ReadsFrom
  <1>9. QED
    BY <1>1, <1>8

\* The number of a field adds up its bytes from the first to the last.
LEMMA EncodedFromBytes ==
    ASSUME NEW field, Len(field.bytes) \in Nat
    PROVE  \E f : /\ Encoded(field) = f[Len(field.bytes)]
                  /\ f[0] = 0
                  /\ \A k \in 1 .. Len(field.bytes) :
                        f[k] = f[k - 1] + field.bytes[k] * 2^(ByteBits * (Len(field.bytes) - k))
  <1> DEFINE bytes == field.bytes
             n == Len(bytes)
             leading[k \in 0 .. n] ==
                IF k = 0 THEN 0
                ELSE leading[k - 1] + bytes[k] * 2^(ByteBits * (n - k))
  <1>1. Encoded(field) = leading[n]
    BY DEF Encoded
  <1>2. n \in Nat
    OBVIOUS
  <1>3. FiniteNatInductiveDefHypothesis(leading, 0,
            LAMBDA v, k : v + bytes[k] * 2^(ByteBits * (n - k)), 0, n)
    BY DEF FiniteNatInductiveDefHypothesis, leading
  <1> HIDE DEF leading, n, bytes
  <1>4. FiniteNatInductiveDefConclusion(leading, 0,
            LAMBDA v, k : v + bytes[k] * 2^(ByteBits * (n - k)), 0, n)
    BY <1>2, <1>3, FiniteNatInductiveDef
  <1>5. leading = [k \in 0 .. n |->
                     IF k = 0 THEN 0 ELSE leading[k - 1] + bytes[k] * 2^(ByteBits * (n - k))]
    BY <1>4 DEF FiniteNatInductiveDefConclusion
  <1>6. leading[0] = 0
    BY <1>2, <1>5
  <1>7. ASSUME NEW k \in 1 .. n
        PROVE  leading[k] = leading[k - 1] + bytes[k] * 2^(ByteBits * (n - k))
    <2>1. k \in 0 .. n /\ k # 0
      BY <1>2
    <2>2. QED
      BY <1>5, <2>1
  <1>8. QED
    BY <1>1, <1>6, <1>7 DEF n, bytes

\* A word is its bytes, and brings the number read so far up by its width.
LEMMA WordOfNumber ==
    ASSUME NEW n \in Nat, NEW b \in [1 .. n -> 0 .. ByteBase - 1],
           NEW at \in Nat, at + WordBytes <= n,
           NEW t, t[at] \in Nat, ReadsFrom(t, b, 0, n)
    PROVE  /\ readUint64BE(b, at) \in Word
           /\ t[at + WordBytes] = t[at] * Base + readUint64BE(b, at)
  <1>0. PICK f : readUint64BE(b, at) = f[WordBytes] /\ ReadsFrom(f, b, at, WordBytes)
    BY WordFromBytes
  <1>1. /\ f[0] = 0
        /\ \A k \in 1 .. WordBytes : f[k] = f[k - 1] * ByteBase + b[at + k]
    BY <1>0 DEF ReadsFrom
  <1> DEFINE D == ByteBase
             W == WordBytes
             x == t[at]
             S == {k \in 0 .. W :
                      f[k] \in 0 .. 2^(ByteBits * k) - 1 /\ t[at + k] = x * 2^(ByteBits * k) + f[k]}
  <1>2. D \in Nat \ {0} /\ W \in Nat /\ ByteBits \in Nat /\ Base = 2^(ByteBits * W)
    BY BytesArePositive
  <1>3. x \in Nat
    OBVIOUS
  <1> HIDE DEF D, W, x
  <1>4. 0 \in S
    <2>1. ByteBits * 0 = 0 /\ 0 \in 0 .. W /\ at + 0 = at /\ 0 \in 0 .. 1 - 1
      BY <1>2
    <2>2. x * 1 + 0 = x
      BY <1>3
    <2>3. QED
      BY <1>1, <2>1, <2>2, PowerOfZero DEF x
  <1>5. ASSUME NEW k \in 0 .. W - 1, k \in S PROVE k + 1 \in S
    <2> DEFINE p == 2^(ByteBits * k)
               c == b[at + (k + 1)]
               y == f[k]
    <2>1. /\ k \in Nat /\ k + 1 \in 1 .. W /\ k + 1 \in 0 .. W /\ (k + 1) - 1 = k
          /\ at + (k + 1) \in 1 .. n /\ (at + (k + 1)) - 1 = at + k
      BY <1>2 DEF W
    <2>2. p \in Nat \ {0} /\ 2^(ByteBits * (k + 1)) = p * D
      BY <2>1, PowerOfBytes DEF D
    <2>3. y \in 0 .. p - 1 /\ t[at + k] = x * p + y
      BY <1>5
    <2>4. c \in 0 .. D - 1
      BY <2>1 DEF D
    <2>5. f[k + 1] = y * D + c
      BY <1>1, <2>1 DEF D, W
    <2>6. t[at + (k + 1)] = t[at + k] * D + c
      <3>1. 0 + (at + (k + 1)) = at + (k + 1)
        BY <2>1
      <3>2. QED
        BY <2>1, <3>1 DEF D, ReadsFrom
    <2> HIDE DEF p, c, y
    <2>7. y * D \in Nat /\ p * D \in Nat /\ y * D + D <= p * D
      BY <1>2, <2>2, <2>3, ScaledBelow
    <2> DEFINE yD == y * D
               pD == p * D
    <2>8. yD \in Nat /\ pD \in Nat /\ yD + D <= pD
      BY <2>7
    <2>9. (x * p + y) * D + c = x * pD + (yD + c)
      <3>1. (x * p + y) * D = x * pD + yD
        BY <1>2, <1>3, <2>2, <2>3
      <3> DEFINE z == x * pD
      <3>2. z \in Nat
        <4> HIDE DEF pD
        <4>1. QED
          BY <1>3, <2>8
      <3> HIDE DEF z, yD, pD
      <3>3. (z + yD) + c = z + (yD + c)
        BY <1>2, <2>4, <2>8, <3>2
      <3>4. QED
        BY <3>1, <3>3 DEF z, yD, pD
    <2> HIDE DEF yD, pD
    <2>10. yD + c \in 0 .. pD - 1
      BY <1>2, <2>4, <2>8
    <2>11. QED
      BY <2>1, <2>2, <2>3, <2>5, <2>6, <2>9, <2>10 DEF yD, pD
  <1> HIDE DEF S
  <1>6. \A k \in 0 .. W : k \in S
    BY <1>2, <1>4, <1>5, Induction
  <1>7. W \in S
    BY <1>2, <1>6
  <1>8. f[W] \in 0 .. Base - 1 /\ t[at + W] = x * Base + f[W]
    BY <1>2, <1>7 DEF S
  <1>9. QED
    BY <1>0, <1>8, BasesArePositive DEF W, x

\* readu256BE (uint256.c:28-61) reads the number from the front of its bytes.
LEMMA NumberFromBytes ==
    ASSUME NEW b \in [1 .. BytesOf256 -> 0 .. ByteBase - 1],
           NEW t, ReadsFrom(t, b, 0, BytesOf256)
    PROVE  readu256BE(b) \in UInt256 /\ Value256(readu256BE(b)) = t[BytesOf256]
  <1> DEFINE W == WordBytes
             n == BytesOf256
             w0 == readUint64BE(b, 0)
             w1 == readUint64BE(b, W)
             w2 == readUint64BE(b, 2 * W)
             w3 == readUint64BE(b, 3 * W)
             high == << w0, w1 >>
             low == << w2, w3 >>
  <1>1. W \in Nat /\ n = 4 * W /\ n \in Nat /\ Base \in Nat \ {0} /\ Word = 0 .. Base - 1
    BY BytesArePositive, BasesArePositive DEF BytesOf256
  <1>2. readu256BE(b) = << high, low >>
    <2>1. 0 + W = W /\ 2 * W + W = 3 * W
      BY <1>1
    <2>2. QED
      BY <2>1 DEF readu256BE, readu128BE
  <1>3. b \in [1 .. n -> 0 .. ByteBase - 1] /\ ReadsFrom(t, b, 0, n) /\ t[0] = 0
    BY DEF ReadsFrom
  <1> HIDE DEF n, W
  <1>4. w0 \in Word /\ t[W] = w0
    <2>1. 0 + WordBytes <= n /\ 0 \in Nat /\ 0 + WordBytes = W /\ t[0] \in Nat
      BY <1>1, <1>3 DEF W
    <2>2. w0 \in Word /\ t[W] = t[0] * Base + w0
      <3>1. /\ n \in Nat /\ b \in [1 .. n -> 0 .. ByteBase - 1] /\ ReadsFrom(t, b, 0, n)
            /\ 0 \in Nat /\ 0 + WordBytes <= n /\ t[0] \in Nat
        BY <1>1, <1>3, <2>1
      <3>2. w0 \in Word /\ t[0 + WordBytes] = t[0] * Base + w0
        BY <3>1, WordOfNumber
      <3>3. QED
        BY <2>1, <3>2
    <2> HIDE DEF w0
    <2>3. w0 \in Nat
      BY <1>1, <2>2
    <2>4. 0 * Base + w0 = w0
      BY <1>1, <2>3
    <2>5. QED
      BY <1>3, <2>2, <2>4
  <1>5. w1 \in Word /\ t[2 * W] = w0 * Base + w1
    <2>1. W + WordBytes <= n /\ W + WordBytes = 2 * W
      BY <1>1 DEF W
    <2>2. t[W] \in Nat
      BY <1>1, <1>4
    <2>3. w1 \in Word /\ t[2 * W] = t[W] * Base + w1
      <3>1. /\ n \in Nat /\ b \in [1 .. n -> 0 .. ByteBase - 1] /\ ReadsFrom(t, b, 0, n)
            /\ W \in Nat /\ W + WordBytes <= n /\ t[W] \in Nat
        BY <1>1, <1>3, <2>1, <2>2
      <3>2. w1 \in Word /\ t[W + WordBytes] = t[W] * Base + w1
        BY <3>1, WordOfNumber
      <3>3. QED
        BY <2>1, <3>2
    <2>4. QED
      BY <1>4, <2>3
  <1> DEFINE v1 == w0 * Base + w1
  <1>6. high \in UInt128 /\ Value128(high) = v1 /\ v1 \in Nat
    <2>1. high \in UInt128 /\ Value128(high) = v1
      BY <1>4, <1>5, Pair128
    <2>2. QED
      BY <2>1, Parts128
  <1>7. w2 \in Word /\ t[3 * W] = v1 * Base + w2
    <2>1. 2 * W + WordBytes <= n /\ 2 * W + WordBytes = 3 * W /\ 2 * W \in Nat
      BY <1>1 DEF W
    <2>2. t[2 * W] = v1 /\ t[2 * W] \in Nat
      BY <1>5, <1>6
    <2> HIDE DEF v1
    <2>3. w2 \in Word /\ t[3 * W] = t[2 * W] * Base + w2
      BY <1>1, <1>3, <2>1, <2>2, WordOfNumber
    <2>4. QED
      BY <2>2, <2>3
  <1> DEFINE v2 == v1 * Base + w2
  <1>8. v2 \in Nat /\ w2 \in Nat
    <2> HIDE DEF v1, w2
    <2>1. w2 \in Nat
      BY <1>1, <1>7
    <2>2. QED
      BY <1>1, <1>6, <2>1
  <1>9. w3 \in Word /\ t[n] = v2 * Base + w3
    <2>1. 3 * W + WordBytes <= n /\ 3 * W + WordBytes = n /\ 3 * W \in Nat
      BY <1>1 DEF W
    <2>2. t[3 * W] = v2 /\ t[3 * W] \in Nat
      BY <1>7, <1>8
    <2> HIDE DEF v2
    <2>3. w3 \in Word /\ t[n] = t[3 * W] * Base + w3
      BY <1>1, <1>3, <2>1, <2>2, WordOfNumber
    <2>4. QED
      BY <2>2, <2>3
  <1>10. low \in UInt128 /\ Value128(low) = w2 * Base + w3
    BY <1>7, <1>9, Pair128
  <1>11. << high, low >> \in UInt256 /\ Value256(<< high, low >>) = v1 * Base128 + (w2 * Base + w3)
    BY <1>6, <1>10, Pair256
  <1>12. v2 * Base + w3 = v1 * Base128 + (w2 * Base + w3)
    <2> HIDE DEF v1, w2, w3
    <2>1. w3 \in Nat
      BY <1>1, <1>9
    <2>2. QED
      BY <1>1, <1>6, <1>8, <2>1 DEF Base128
  <1>13. QED
    BY <1>2, <1>9, <1>11, <1>12 DEF n

IsField(field) == field.bytes \in Seq(0 .. ByteBase - 1)

\* A field that is not too long is read as the number it encodes
\* (rlp_readUInt256, rlp.c:109-133).
THEOREM ReadIsEncoded ==
    ASSUME NEW field, IsField(field), Len(field.bytes) <= BytesOf256
    PROVE  Read(field) \in UInt256 /\ Value256(Read(field)) = Encoded(field)
  <1> DEFINE bytes == field.bytes
             n == BytesOf256
             m == Len(bytes)
             b == RightAligned(bytes)
             zeros == n - m
  <1>1. n \in Nat /\ m \in Nat /\ zeros \in Nat /\ bytes \in Seq(0 .. ByteBase - 1)
        /\ ByteBase \in Nat \ {0} /\ ByteBits \in Nat
    BY BytesArePositive DEF IsField
  <1>2. \A k \in 1 .. n : b[k] = IF k > zeros THEN bytes[k - zeros] ELSE 0
    BY DEF RightAligned
  <1>3. b \in [1 .. n -> 0 .. ByteBase - 1]
    <2>1. ASSUME NEW k \in 1 .. n
          PROVE  (IF k > zeros THEN bytes[k - zeros] ELSE 0) \in 0 .. ByteBase - 1
      <3>1. CASE k > zeros
        <4>1. k - zeros \in 1 .. m
          BY <1>1, <3>1
        <4> HIDE DEF zeros, m, bytes
        <4>2. QED
          BY <1>1, <3>1, <4>1 DEF m
      <3>2. CASE ~(k > zeros)
        BY <1>1, <3>2
      <3>3. QED
        BY <3>1, <3>2
    <2>2. b = [k \in 1 .. n |-> IF k > zeros THEN bytes[k - zeros] ELSE 0]
      BY DEF RightAligned
    <2> HIDE DEF b, n, zeros, bytes
    <2>3. QED
      BY <2>1, <2>2
  <1>0. PICK t : ReadsFrom(t, b, 0, n)
    BY <1>1, ReadFromFront
  <1>4. t[0] = 0 /\ \A k \in 1 .. n : t[k] = t[k - 1] * ByteBase + b[k]
    <2>1. \A k \in 1 .. n : 0 + k = k
      BY <1>1
    <2> HIDE DEF b, n
    <2>2. QED
      BY <1>0, <2>1 DEF ReadsFrom
  <1> HIDE DEF b
  <1>5. readu256BE(b) \in UInt256 /\ Value256(readu256BE(b)) = t[n]
    BY <1>0, <1>3, NumberFromBytes
  <1>6. PICK f : /\ Encoded(field) = f[m]
                 /\ f[0] = 0
                 /\ \A k \in 1 .. m : f[k] = f[k - 1] + bytes[k] * 2^(ByteBits * (m - k))
    BY <1>1, EncodedFromBytes
  <1> HIDE DEF bytes, n, m, zeros
  <1> DEFINE Z == {k \in 0 .. zeros : t[k] = 0}
  <1>7. zeros <= n /\ n = zeros + m
    BY <1>1 DEF zeros
  <1>8. t[zeros] = 0
    <2>1. 0 \in Z
      BY <1>1, <1>4
    <2>2. ASSUME NEW k \in 0 .. zeros - 1, k \in Z PROVE k + 1 \in Z
      <3>1. k + 1 \in 1 .. n /\ ~(k + 1 > zeros) /\ (k + 1) - 1 = k /\ k + 1 \in 0 .. zeros
        BY <1>1, <1>7
      <3>2. t[k + 1] = t[k] * ByteBase + 0
        BY <1>2, <1>4, <3>1
      <3>3. 0 * ByteBase + 0 = 0
        BY <1>1
      <3>4. QED
        BY <2>2, <3>1, <3>2, <3>3
    <2> HIDE DEF Z
    <2>3. \A k \in 0 .. zeros : k \in Z
      BY <1>1, <2>1, <2>2, Induction
    <2>4. zeros \in Z
      BY <1>1, <2>3
    <2>5. QED
      BY <2>4 DEF Z
  <1> DEFINE S == {k \in 0 .. m : t[zeros + k] \in Nat /\ f[k] = t[zeros + k] * 2^(ByteBits * (m - k))}
  <1>9. 0 \in S
    <2> DEFINE p == 2^(ByteBits * (m - 0))
    <2>1. p \in Nat /\ zeros + 0 = zeros /\ 0 \in 0 .. m
      <3>1. m - 0 = m
        BY <1>1
      <3>2. 2^(ByteBits * m) \in Nat
        BY <1>1, PowerOfBytes
      <3>3. QED
        BY <1>1, <3>1, <3>2
    <2> HIDE DEF p
    <2>2. 0 * p = 0
      BY <2>1
    <2>3. QED
      BY <1>6, <1>8, <2>1, <2>2 DEF p
  <1>10. ASSUME NEW k \in 0 .. m - 1, k \in S PROVE k + 1 \in S
    <2> DEFINE j == m - (k + 1)
               p == 2^(ByteBits * j)
               x == t[zeros + k]
               c == bytes[k + 1]
               D == ByteBase
    <2>1. /\ j \in Nat /\ m - k = j + 1 /\ k + 1 \in 1 .. m /\ (k + 1) - 1 = k /\ k + 1 \in 0 .. m
          /\ zeros + (k + 1) \in 1 .. n /\ zeros + (k + 1) > zeros
          /\ (zeros + (k + 1)) - 1 = zeros + k /\ (zeros + (k + 1)) - zeros = k + 1
      BY <1>1, <1>7
    <2>2. p \in Nat /\ 2^(ByteBits * (m - k)) = p * D
      BY <2>1, PowerOfBytes
    <2>3. x \in Nat /\ f[k] = x * 2^(ByteBits * (m - k))
      BY <1>10
    <2>4. c \in 0 .. D - 1 /\ D \in Nat
      BY <1>1, <2>1 DEF m
    <2>5. t[zeros + (k + 1)] = x * D + c
      BY <1>2, <1>4, <2>1
    <2>6. f[k + 1] = f[k] + c * p
      BY <1>6, <2>1
    <2> HIDE DEF p, x, c, D, j
    <2>7. x * (p * D) + c * p = (x * D + c) * p /\ x * D + c \in Nat
      BY <2>2, <2>3, <2>4
    <2>8. QED
      BY <2>1, <2>2, <2>3, <2>5, <2>6, <2>7 DEF p, j
  <1> HIDE DEF S
  <1>11. \A k \in 0 .. m : k \in S
    BY <1>1, <1>9, <1>10, Induction
  <1>12. m \in S
    BY <1>1, <1>11
  <1>13. f[m] = t[n]
    <2>1. t[zeros + m] \in Nat /\ f[m] = t[zeros + m] * 2^(ByteBits * (m - m))
      BY <1>12 DEF S
    <2>2. ByteBits * (m - m) = 0 /\ zeros + m = n
      BY <1>1, <1>7
    <2>3. f[m] = t[n] * 1 /\ t[n] \in Nat
      BY <2>1, <2>2, PowerOfZero
    <2> DEFINE x == t[n]
    <2>4. x \in Nat /\ f[m] = x * 1
      BY <2>3
    <2> HIDE DEF x
    <2>5. x * 1 = x
      BY <2>4
    <2>6. QED
      BY <2>4, <2>5 DEF x
  <1>14. Read(field) = readu256BE(b)
    BY DEF Read, b, bytes
  <1>15. QED
    BY <1>5, <1>6, <1>13, <1>14

-----------------------------------------------------------------------------
(* The numeral *)

\* The places of a numeral are the powers of its base.
LEMMA Places ==
    /\ Place[0] = 1
    /\ \A n \in Nat : Place[n] \in Nat \ {0} /\ Place[n + 1] = DECIMAL_BASE * Place[n]
  <1>1. NatInductiveDefHypothesis(Place, 1, LAMBDA v, n : DECIMAL_BASE * v)
    BY DEF NatInductiveDefHypothesis, Place
  <1>2. NatInductiveDefConclusion(Place, 1, LAMBDA v, n : DECIMAL_BASE * v)
    BY <1>1, NatInductiveDef
  <1>3. Place = [n \in Nat |-> IF n = 0 THEN 1 ELSE DECIMAL_BASE * Place[n - 1]]
    BY <1>2 DEF NatInductiveDefConclusion
  <1>4. Place[0] = 1
    BY <1>3
  <1>5. ASSUME NEW n \in Nat PROVE Place[n + 1] = DECIMAL_BASE * Place[n]
    <2>1. n + 1 \in Nat /\ n + 1 # 0 /\ (n + 1) - 1 = n
      OBVIOUS
    <2>2. QED
      BY <1>3, <2>1
  <1>6. ASSUME NEW n \in Nat PROVE Place[n] \in Nat \ {0}
    <2> DEFINE S == {k \in Nat : Place[k] \in Nat \ {0}}
    <2>1. 0 \in S
      BY <1>4
    <2>2. ASSUME NEW k \in 0 .. n - 1, k \in S PROVE k + 1 \in S
      <3>1. Place[k] \in Nat \ {0} /\ k \in Nat /\ Place[k + 1] = DECIMAL_BASE * Place[k]
        BY <1>5, <2>2
      <3>2. DECIMAL_BASE * Place[k] \in Nat \ {0}
        BY <3>1 DEF DECIMAL_BASE
      <3>3. QED
        BY <3>1, <3>2
    <2> HIDE DEF S
    <2>3. \A k \in 0 .. n : k \in S
      BY <2>1, <2>2, Induction
    <2>4. n \in S
      BY <2>3
    <2>5. QED
      BY <2>4 DEF S
  <1>7. QED
    BY <1>4, <1>5, <1>6

\* The numbers of the first k digits, for every k up to n.
ReadsDigits(f, digits, n) ==
    f[0] = 0 /\ \A k \in 1 .. n : f[k] = f[k - 1] + digits[k] * Place[k - 1]

\* A numeral is read digit by digit.
LEMMA ReadsByDigits ==
    ASSUME NEW digits, Len(digits) \in Nat
    PROVE  \E f : Reads(digits) = f[Len(digits)] /\ ReadsDigits(f, digits, Len(digits))
  <1> DEFINE n == Len(digits)
             last[k \in 0 .. n] ==
                IF k = 0 THEN 0 ELSE last[k - 1] + digits[k] * Place[k - 1]
  <1>1. Reads(digits) = last[n]
    BY DEF Reads
  <1>2. n \in Nat
    OBVIOUS
  <1>3. FiniteNatInductiveDefHypothesis(last, 0, LAMBDA v, k : v + digits[k] * Place[k - 1], 0, n)
    BY DEF FiniteNatInductiveDefHypothesis, last
  <1> HIDE DEF last, n
  <1>4. FiniteNatInductiveDefConclusion(last, 0, LAMBDA v, k : v + digits[k] * Place[k - 1], 0, n)
    BY <1>2, <1>3, FiniteNatInductiveDef
  <1>5. last = [k \in 0 .. n |-> IF k = 0 THEN 0 ELSE last[k - 1] + digits[k] * Place[k - 1]]
    BY <1>4 DEF FiniteNatInductiveDefConclusion
  <1>6. last[0] = 0
    BY <1>2, <1>5
  <1>7. ASSUME NEW k \in 1 .. n PROVE last[k] = last[k - 1] + digits[k] * Place[k - 1]
    <2>1. k \in 0 .. n /\ k # 0
      BY <1>2
    <2>2. QED
      BY <1>5, <2>1
  <1>8. ReadsDigits(last, digits, n)
    BY <1>6, <1>7 DEF ReadsDigits
  <1>9. QED
    BY <1>1, <1>8 DEF n

\* No digits read as zero.
LEMMA ReadsOfEmpty == Reads(<< >>) = 0
  <1>1. Len(<< >>) = 0
    OBVIOUS
  <1>2. PICK f : Reads(<< >>) = f[Len(<< >>)] /\ ReadsDigits(f, << >>, Len(<< >>))
    BY <1>1, ReadsByDigits
  <1>3. QED
    BY <1>1, <1>2 DEF ReadsDigits

Decimal == 0 .. DECIMAL_BASE - 1

\* A numeral reads as a natural number.
LEMMA ReadsIsNatural == ASSUME NEW s \in Seq(Decimal) PROVE Reads(s) \in Nat
  <1> DEFINE n == Len(s)
  <1>1. n \in Nat
    OBVIOUS
  <1>2. PICK f : Reads(s) = f[n] /\ ReadsDigits(f, s, n)
    BY <1>1, ReadsByDigits
  <1> DEFINE S == {k \in 0 .. n : f[k] \in Nat}
  <1>3. 0 \in S
    BY <1>1, <1>2 DEF ReadsDigits
  <1>4. ASSUME NEW k \in 0 .. n - 1, k \in S PROVE k + 1 \in S
    <2>1. k \in Nat /\ k + 1 \in 1 .. n /\ k + 1 \in 0 .. n /\ (k + 1) - 1 = k
      BY <1>1
    <2> DEFINE d == s[k + 1]
               p == Place[k]
    <2>2. d \in Nat
      BY <2>1 DEF Decimal, DECIMAL_BASE
    <2>3. p \in Nat
      BY <2>1, Places
    <2>4. f[k + 1] = f[k] + d * p /\ f[k] \in Nat
      BY <1>2, <1>4, <2>1 DEF ReadsDigits
    <2> HIDE DEF d, p
    <2>5. f[k] + d * p \in Nat
      BY <2>2, <2>3, <2>4
    <2>6. QED
      BY <2>1, <2>4, <2>5
  <1> HIDE DEF S, n
  <1>5. \A k \in 0 .. n : k \in S
    BY <1>1, <1>3, <1>4, Induction
  <1>6. n \in S
    BY <1>1, <1>5
  <1>7. QED
    BY <1>2, <1>6 DEF S

\* A digit more counts as much as its place.
LEMMA ReadsOfAppend ==
    ASSUME NEW s \in Seq(Decimal), NEW d \in Decimal
    PROVE  Reads(Append(s, d)) = Reads(s) + d * Place[Len(s)]
  <1> DEFINE n == Len(s)
             a == Append(s, d)
  <1>1. n \in Nat /\ Len(a) = n + 1 /\ n + 1 \in Nat /\ a[n + 1] = d
    OBVIOUS
  <1>2. \A k \in 1 .. n : a[k] = s[k]
    OBVIOUS
  <1>3. PICK f : Reads(s) = f[n] /\ ReadsDigits(f, s, n)
    BY <1>1, ReadsByDigits
  <1>4. PICK g : Reads(a) = g[n + 1] /\ ReadsDigits(g, a, n + 1)
    <2> HIDE DEF a
    <2>1. Len(a) \in Nat
      BY <1>1
    <2>2. \E g : Reads(a) = g[Len(a)] /\ ReadsDigits(g, a, Len(a))
      BY <2>1, ReadsByDigits
    <2>3. QED
      BY <1>1, <2>2
  <1> HIDE DEF a, n
  <1> DEFINE S == {k \in 0 .. n : f[k] = g[k]}
  <1>5. 0 \in S
    BY <1>1, <1>3, <1>4 DEF ReadsDigits
  <1>6. ASSUME NEW k \in 0 .. n - 1, k \in S PROVE k + 1 \in S
    <2>1. k \in Nat /\ k + 1 \in 1 .. n /\ k + 1 \in 1 .. n + 1 /\ k + 1 \in 0 .. n /\ (k + 1) - 1 = k
      BY <1>1
    <2>2. f[k + 1] = f[k] + s[k + 1] * Place[k]
      BY <1>3, <2>1 DEF ReadsDigits
    <2>3. g[k + 1] = g[k] + a[k + 1] * Place[k]
      BY <1>4, <2>1 DEF ReadsDigits
    <2>4. a[k + 1] = s[k + 1]
      BY <1>2, <2>1
    <2>5. f[k + 1] = g[k + 1]
      BY <1>6, <2>2, <2>3, <2>4
    <2>6. QED
      BY <2>1, <2>5
  <1> HIDE DEF S
  <1>7. \A k \in 0 .. n : k \in S
    BY <1>1, <1>5, <1>6, Induction
  <1>8. n \in S
    BY <1>1, <1>7
  <1>9. f[n] = g[n]
    BY <1>8 DEF S
  <1>10. g[n + 1] = g[n] + d * Place[n]
    <2>1. n + 1 \in 1 .. n + 1 /\ (n + 1) - 1 = n
      BY <1>1
    <2>2. QED
      BY <1>1, <1>4, <2>1 DEF ReadsDigits
  <1>11. QED
    BY <1>3, <1>4, <1>9, <1>10 DEF n, a

\* A number below 2^64 is its lowest word.
LEMMA SmallNumber ==
    ASSUME NEW n \in UInt256, Value256(n) < Base
    PROVE  /\ LOWER(LOWER(n)) = Value256(n) /\ Value256(n) \in Word
           /\ n = << Zero128, << 0, Value256(n) >> >>
  <1> DEFINE w == Value256(n)
             m == << Zero128, << 0, w >> >>
  <1>1. Base \in Nat \ {0} /\ Word = 0 .. Base - 1 /\ Base128 \in Nat /\ w \in Nat
    BY BasesArePositive, Parts256
  <1>2. w \in Word
    BY <1>1
  <1> HIDE DEF w
  <1>3. << 0, w >> \in UInt128 /\ Value128(<< 0, w >>) = w
    BY <1>2, WordAsPair
  <1>4. m \in UInt256 /\ Value256(m) = 0 * Base128 + w
    BY <1>3, Zeros, Pair256
  <1>5. 0 * Base128 + w = w
    BY <1>1, <1>2
  <1>6. m = n
    <2> HIDE DEF m
    <2>1. QED
      BY <1>4, <1>5, Value256IsInjective DEF w
  <1>7. LOWER(LOWER(m)) = w
    BY DEF LOWER
  <1>8. QED
    BY <1>2, <1>6, <1>7 DEF w

-----------------------------------------------------------------------------
(* The number that is asked for *)

\* Calls for which the screen shows the number exactly: mul256 loses a carry
\* for greater factors.
Exact(c) == IsFee(c) => SmallFactors(c)

\* printRLPNumber, printERC20Value and printEVMMaxFees up to tostring256.
LEMMA NumberIsMeant ==
    ASSUME NEW c \in Calls, \A k \in DOMAIN c.fields : Readable(c.fields[k])
    PROVE  /\ NumberOf(c) \in UInt256
           /\ Exact(c) => Value256(NumberOf(c)) = Meant(c)
  <1>1. ASSUME NEW k \in DOMAIN c.fields
        PROVE  /\ Read(c.fields[k]) \in UInt256
               /\ Value256(Read(c.fields[k])) = Encoded(c.fields[k])
    <2> DEFINE field == c.fields[k]
    <2>1. IsField(field) /\ Len(field.bytes) <= BytesOf256
      BY CallsAssumption DEF IsField, Readable, ByteBase
    <2> HIDE DEF field
    <2>2. Read(field) \in UInt256 /\ Value256(Read(field)) = Encoded(field)
      BY <2>1, ReadIsEncoded
    <2>3. QED
      BY <2>2 DEF field
  <1>2. CASE ~IsFee(c)
    <2>1. 1 \in DOMAIN c.fields /\ NumberOf(c) = Read(c.fields[1]) /\ Meant(c) = Encoded(c.fields[1])
      BY <1>2, CallsAssumption DEF IsFee, NumberOf, Meant
    <2>2. QED
      BY <1>1, <2>1
  <1>3. CASE IsFee(c)
    <2> DEFINE a == Encoded(c.fields[1])
               b == Encoded(c.fields[2])
               n1 == Read(c.fields[1])
               n2 == Read(c.fields[2])
    <2>1. /\ 1 \in DOMAIN c.fields /\ 2 \in DOMAIN c.fields
          /\ NumberOf(c) = mul256(n1, n2) /\ Meant(c) = a * b
      BY <1>3, CallsAssumption DEF IsFee, NumberOf, Meant
    <2>2. n1 \in UInt256 /\ Value256(n1) = a /\ n2 \in UInt256 /\ Value256(n2) = b
      BY <1>1, <2>1
    <2>3. Exact(c) => a < Base /\ b < Base
      BY <1>3, <2>1 DEF Exact, SmallFactors
    <2> HIDE DEF a, b, n1, n2
    <2>4. mul256(n1, n2) \in UInt256
      BY <2>2, Mul256IsNumber
    <2>5. ASSUME Exact(c) PROVE Value256(mul256(n1, n2)) = a * b
      <3>1. a \in Word /\ n1 = << Zero128, << 0, a >> >> /\ b \in Word /\ n2 = << Zero128, << 0, b >> >>
        BY <2>2, <2>3, <2>5, SmallNumber
      <3>2. LET m1 == << Zero128, << 0, a >> >>
                m2 == << Zero128, << 0, b >> >>
            IN  mul256(m1, m2) \in UInt256 /\ Value256(mul256(m1, m2)) = a * b
        BY <3>1, Mul256IsProduct
      <3>3. QED
        BY <3>1, <3>2
    <2>6. QED
      BY <2>1, <2>4, <2>5
  <1>4. QED
    BY <1>2, <1>3

-----------------------------------------------------------------------------
(* The long division *)

\* Where the loop of divmod256 starts: the divisor and one, shifted by the
\* difference of the lengths, and once back if the divisor is now too great.
LEMMA DivisionStarts ==
    ASSUME NEW n \in UInt256, ~gt256(base, n)
    PROVE  \E e \in 0 .. 4 * Bits - 1 :
              /\ bits256(n) - bits256(base) = e
              /\ shiftl256(base, e) \in UInt256 /\ Value256(shiftl256(base, e)) = DECIMAL_BASE * 2^e
              /\ shiftl256(one, e) \in UInt256 /\ Value256(shiftl256(one, e)) = 2^e
              /\ Value256(n) < 2 * (DECIMAL_BASE * 2^e)
              /\ gt256(shiftl256(base, e), n) => e # 0
  <1> DEFINE v == Value256(n)
             MM == Base128 * Base128
  <1>1. /\ base \in UInt256 /\ Value256(base) = DECIMAL_BASE /\ bits256(base) = 4
        /\ one \in UInt256 /\ Value256(one) = 1 /\ DECIMAL_BASE = 10
    BY TheBase DEF DECIMAL_BASE
  <1>2. v \in Nat /\ v >= 10
    <2>1. v \in Nat /\ ~(Value256(base) > v)
      BY <1>1, Parts256, Gt256IsGreater
    <2>2. QED
      BY <1>1, <2>1
  <1>3. PICK b \in 1 .. 4 * Bits : bits256(n) = b /\ 2^(b - 1) <= v /\ v < 2^b
    <2>1. v # 0
      BY <1>2
    <2>2. QED
      BY <2>1, Bits256IsLength
  <1>4. Bits \in Nat \ {0} /\ b \in Nat \ {0} /\ 4 * Bits \in Nat /\ b <= 4 * Bits
    BY BitsArePositive
  <1>5. 2^3 = 8 /\ 2^4 = 16
    <2>1. 2^(0 + 1) = 2 /\ 0 + 1 = 1
      BY PowerOfZero, PowerOfNext
    <2>2. 2^(1 + 1) = 4 /\ 1 + 1 = 2
      BY <2>1, PowerOfNext
    <2>3. 2^(2 + 1) = 8 /\ 2 + 1 = 3
      BY <2>2, PowerOfNext
    <2>4. 2^(3 + 1) = 16 /\ 3 + 1 = 4
      BY <2>3, PowerOfNext
    <2>5. QED
      BY <2>3, <2>4
  <1>6. b >= 4
    <2>1. SUFFICES ASSUME b <= 3 PROVE FALSE
      BY <1>4
    <2> DEFINE p == 2^b
    <2>2. p <= 8 /\ p \in Nat
      <3>1. b \in Nat /\ 3 \in Nat
        BY <1>4
      <3>2. 2^b <= 2^3 /\ 2^b \in Nat
        BY <2>1, <3>1, PowerSplits
      <3>3. QED
        BY <1>5, <3>2
    <2>3. v < p
      BY <1>3
    <2> HIDE DEF p, v
    <2>4. QED
      BY <1>2, <2>2, <2>3
  <1> DEFINE e == b - 4
             p == 2^e
  <1>7. e \in Nat /\ e \in 0 .. 4 * Bits - 1 /\ 4 + e = b
    BY <1>4, <1>6
  <1>8. p \in Nat \ {0} /\ 2^b = 16 * p
    <2> HIDE DEF e
    <2>1. 2^(4 + e) = 2^4 * 2^e
      BY <1>7, PowerOfSum
    <2>2. QED
      BY <1>5, <1>7, <2>1, PowerIsPositive
  <1>9. MM \in Nat \ {0} /\ 16 * p <= MM
    <2>1. MM = 2^(4 * Bits) /\ 2^(4 * Bits) \in Nat \ {0}
      BY <1>4, BasesArePositive, PowerIsPositive
    <2>2. 2^b <= 2^(4 * Bits)
      BY <1>4, PowerSplits
    <2> HIDE DEF p, e, MM
    <2>3. QED
      BY <1>8, <2>1, <2>2
  <1>10. bits256(n) - bits256(base) = e
    BY <1>1, <1>3
  <1> HIDE DEF e, p, MM
  <1>11. shiftl256(base, e) \in UInt256 /\ Value256(shiftl256(base, e)) = (10 * p) % MM
    <2>1. base \in UInt256 /\ e \in Nat /\ Value256(base) = 10
      BY <1>1, <1>7
    <2>2. /\ shiftl256(base, e) \in UInt256
          /\ Value256(shiftl256(base, e)) = (Value256(base) * 2^e) % (Base128 * Base128)
      BY <2>1, Shiftl256IsProduct
    <2>3. QED
      BY <2>1, <2>2 DEF p, MM
  <1>12. shiftl256(one, e) \in UInt256 /\ Value256(shiftl256(one, e)) = (1 * p) % MM
    <2>1. one \in UInt256 /\ e \in Nat /\ Value256(one) = 1
      BY <1>1, <1>7
    <2>2. /\ shiftl256(one, e) \in UInt256
          /\ Value256(shiftl256(one, e)) = (Value256(one) * 2^e) % (Base128 * Base128)
      BY <2>1, Shiftl256IsProduct
    <2>3. QED
      BY <2>1, <2>2 DEF p, MM
  <1>13. 10 * p \in 0 .. MM - 1 /\ p \in 0 .. MM - 1 /\ 1 * p = p
    BY <1>8, <1>9
  <1>14. (10 * p) % MM = 10 * p
    <2> DEFINE x == 10 * p
    <2>1. x \in 0 .. MM - 1
      BY <1>13
    <2> HIDE DEF x
    <2>2. x % MM = x
      BY <1>9, <2>1, DivisionOfSmall
    <2>3. QED
      BY <2>2 DEF x
  <1>15. (1 * p) % MM = p
    BY <1>9, <1>13, DivisionOfSmall
  <1>16. v < 2 * (10 * p)
    <2>1. v < 16 * p
      BY <1>3, <1>8
    <2> HIDE DEF v
    <2>2. QED
      BY <1>2, <1>8, <2>1
  <1>17. gt256(shiftl256(base, e), n) => e # 0
    <2>1. SUFFICES ASSUME gt256(shiftl256(base, e), n), e = 0 PROVE FALSE
      OBVIOUS
    <2>2. 10 * p > v
      BY <1>11, <1>14, <2>1, Gt256IsGreater
    <2>3. p = 1
      BY <2>1, PowerOfZero DEF p
    <2> HIDE DEF v
    <2>4. QED
      BY <1>2, <2>2, <2>3
  <1>18. QED
    BY <1>1, <1>7, <1>10, <1>11, <1>12, <1>14, <1>15, <1>16, <1>17 DEF p

\* The two are shifted to the right together.
LEMMA DivisionGoesDown ==
    ASSUME NEW c \in UInt256, NEW a \in UInt256
    PROVE  /\ shiftr256(c, 1) \in UInt256 /\ shiftr256(a, 1) \in UInt256
           /\ \A e \in 0 .. 4 * Bits - 1 :
                 e # 0 /\ Value256(c) = DECIMAL_BASE * 2^e /\ Value256(a) = 2^e =>
                    /\ e - 1 \in 0 .. 4 * Bits - 1
                    /\ 2^e = 2 * 2^(e - 1) /\ 2^(e - 1) \in Nat
                    /\ Value256(shiftr256(c, 1)) = DECIMAL_BASE * 2^(e - 1)
                    /\ Value256(shiftr256(a, 1)) = 2^(e - 1)
  <1>1. /\ shiftr256(c, 1) \in UInt256 /\ Value256(shiftr256(c, 1)) = Value256(c) \div 2^1
        /\ shiftr256(a, 1) \in UInt256 /\ Value256(shiftr256(a, 1)) = Value256(a) \div 2^1
    BY Shiftr256IsQuotient
  <1>2. 2^1 = 2
    <2>1. 2^(0 + 1) = 2 * 1 /\ 0 + 1 = 1
      BY PowerOfZero, PowerOfNext
    <2>2. QED
      BY <2>1
  <1>3. ASSUME NEW e \in 0 .. 4 * Bits - 1, e # 0,
               Value256(c) = DECIMAL_BASE * 2^e, Value256(a) = 2^e
        PROVE  /\ e - 1 \in 0 .. 4 * Bits - 1
               /\ 2^e = 2 * 2^(e - 1) /\ 2^(e - 1) \in Nat
               /\ Value256(shiftr256(c, 1)) = DECIMAL_BASE * 2^(e - 1)
               /\ Value256(shiftr256(a, 1)) = 2^(e - 1)
    <2> DEFINE p == 2^(e - 1)
    <2>1. e - 1 \in 0 .. 4 * Bits - 1 /\ e - 1 \in Nat /\ (e - 1) + 1 = e
      BY <1>3, BitsArePositive
    <2>2. 2^e = 2 * p /\ p \in Nat
      <3>1. 2^((e - 1) + 1) = 2 * 2^(e - 1) /\ 2^(e - 1) \in Nat
        BY <2>1, PowerOfNext, PowerIsPositive
      <3>2. QED
        BY <2>1, <3>1
    <2>3. Value256(a) = 2 * p /\ Value256(c) = 10 * (2 * p)
      BY <1>3, <2>2 DEF DECIMAL_BASE
    <2> HIDE DEF p
    <2>4. (2 * p) \div 2 = p /\ (10 * (2 * p)) \div 2 = 10 * p
      BY <2>2
    <2>5. QED
      BY <1>1, <1>2, <2>1, <2>2, <2>3, <2>4 DEF p, DECIMAL_BASE
  <1>4. QED
    BY <1>1, <1>3

\* or256 makes a uint256, whatever the bits.
LEMMA Or256IsNumber ==
    ASSUME NEW a \in UInt256, NEW b \in UInt256
    PROVE  or256(a, b) \in UInt256
  <1>1. ASSUME NEW x \in UInt128, NEW y \in UInt128 PROVE or128(x, y) \in UInt128
    <2>1. UPPER(x) \in Nat /\ LOWER(x) \in Nat /\ UPPER(y) \in Nat /\ LOWER(y) \in Nat
      BY Parts128
    <2>2. Or(UPPER(x), UPPER(y)) \in Word /\ Or(LOWER(x), LOWER(y)) \in Word
      BY <2>1, OrIsWord
    <2>3. QED
      BY <2>2, Pair128 DEF or128
  <1>2. or128(UPPER(a), UPPER(b)) \in UInt128 /\ or128(LOWER(a), LOWER(b)) \in UInt128
    BY <1>1, Parts256
  <1>3. QED
    BY <1>2, Pair256 DEF or256

-----------------------------------------------------------------------------
(* The types *)

Loops == [copyd : UInt256, adder : UInt256, resDiv : UInt256, resMod : UInt256]

\* The shift at the end of a turn keeps the types of the loop.
LEMMA DownIsLoop == ASSUME NEW l \in Loops PROVE Down(l) \in Loops
  <1> DEFINE c == shiftr256(l.copyd, 1)
             a == shiftr256(l.adder, 1)
  <1>1. c \in UInt256 /\ a \in UInt256
    BY DivisionGoesDown DEF Loops
  <1>2. Down(l) = [l EXCEPT !.copyd = c, !.adder = a]
    BY DEF Down
  <1> HIDE DEF c, a
  <1>3. QED
    BY <1>1, <1>2 DEF Loops

\* The subtraction of a turn keeps the types of the loop.
LEMMA SubtractIsLoop == ASSUME NEW l \in Loops PROVE Subtract(l) \in Loops
  <1> DEFINE m == minus256(l.resMod, l.copyd)
             d == or256(l.resDiv, l.adder)
  <1>1. l.resMod \in UInt256 /\ l.copyd \in UInt256 /\ l.resDiv \in UInt256 /\ l.adder \in UInt256
    BY DEF Loops
  <1>2. CASE gte256(l.resMod, l.copyd)
    <2>1. m \in UInt256
      <3>1. Value256(l.copyd) <= Value256(l.resMod)
        <4>1. Value256(l.copyd) \in Nat /\ Value256(l.resMod) \in Nat
          BY <1>1, Parts256
        <4>2. Value256(l.resMod) >= Value256(l.copyd)
          BY <1>1, <1>2, Gte256IsAtLeast
        <4>3. QED
          BY <4>1, <4>2
      <3>2. QED
        BY <1>1, <3>1, Minus256IsDifference
    <2>2. d \in UInt256
      BY <1>1, Or256IsNumber
    <2>3. Subtract(l) = [l EXCEPT !.resMod = m, !.resDiv = d]
      BY <1>2 DEF Subtract
    <2> HIDE DEF m, d
    <2>4. QED
      BY <2>1, <2>2, <2>3 DEF Loops
  <1>3. CASE ~gte256(l.resMod, l.copyd)
    BY <1>3 DEF Subtract
  <1>4. QED
    BY <1>2, <1>3

\* The loop starts with its types.
LEMMA ShiftedIsLoop ==
    ASSUME rDiv \in UInt256, ~gt256(base, rDiv)
    PROVE  Shifted \in Loops
  <1> DEFINE c == shiftl256(base, diffBits)
             a == shiftl256(one, diffBits)
  <1>1. c \in UInt256 /\ a \in UInt256
    BY DivisionStarts DEF diffBits
  <1>2. Shifted = [copyd |-> c, adder |-> a, resDiv |-> Zero256, resMod |-> rDiv]
    BY DEF Shifted
  <1> HIDE DEF c, a
  <1>3. QED
    BY <1>1, <1>2, Zeros DEF Loops

\* A remainder below the base is one digit.
LEMMA RemainderIsDigit ==
    ASSUME NEW m \in UInt256, ~gte256(m, base) \/ gt256(base, m)
    PROVE  /\ LOWER(LOWER(m)) \in Decimal /\ LOWER(LOWER(m)) = Value256(m)
           /\ Value256(m) < DECIMAL_BASE
  <1>1. base \in UInt256 /\ Value256(base) = 10 /\ DECIMAL_BASE = 10
    BY TheBase DEF DECIMAL_BASE
  <1>2. Value256(m) \in Nat /\ Value256(base) \in Nat
    BY <1>1, Parts256
  <1>3. Value256(m) < 10
    <2>1. ~gte256(m, base) => ~(Value256(m) >= Value256(base))
      BY <1>1, Gte256IsAtLeast
    <2>2. gt256(base, m) => Value256(base) > Value256(m)
      BY <1>1, Gt256IsGreater
    <2>3. QED
      BY <1>1, <1>2, <2>1, <2>2
  <1>4. Value256(m) < Base
    <2>1. 10 < Base /\ Base \in Nat
      BY <1>1, DecimalAssumption, BasesArePositive
    <2>2. QED
      BY <1>2, <1>3, <2>1
  <1>5. LOWER(LOWER(m)) = Value256(m)
    BY <1>4, SmallNumber
  <1>6. QED
    BY <1>1, <1>2, <1>3, <1>5 DEF Decimal

\* A digit that is written is a decimal digit.
LEMMA DigitIsTyped ==
    ASSUME NEW div \in UInt256, NEW mod \in UInt256, LOWER(LOWER(mod)) \in Decimal,
           TypeOK, Digit(div, mod)
    PROVE  TypeOK'
  <1> DEFINE d == LOWER(LOWER(mod))
             more == zero256(div)
  <1>1. /\ rDiv' = div /\ out' = Append(out, d) /\ loop' = NoLoop /\ call' = call
        /\ pc' = (IF more THEN "done" ELSE "digit")
        /\ result' = (IF more THEN "shown" ELSE "none")
    BY DEF Digit
  <1>2. NoLoop \in [copyd : UInt256, adder : UInt256, resDiv : UInt256, resMod : UInt256]
    BY Zeros DEF NoLoop
  <1>3. d \in 0 .. DECIMAL_BASE - 1 /\ out \in Seq(0 .. DECIMAL_BASE - 1) /\ call \in Calls \cup {NoCall}
    BY DEF Decimal, TypeOK
  <1> HIDE DEF d, more
  <1>4. Append(out, d) \in Seq(0 .. DECIMAL_BASE - 1)
    BY <1>3
  <1>5. QED
    BY <1>1, <1>2, <1>3, <1>4 DEF TypeOK

\* Numbers stay numbers of four words, digits stay decimal digits
\* (divmod256 and tostring256, uint256.c:453-557).
THEOREM NumbersTypeCorrect == Spec => []TypeOK
  <1>1. Init => TypeOK
    <2>1. NoLoop \in [copyd : UInt256, adder : UInt256, resDiv : UInt256, resMod : UInt256]
      BY Zeros DEF NoLoop
    <2>2. << >> \in Seq(0 .. DECIMAL_BASE - 1)
      OBVIOUS
    <2>3. QED
      BY <2>1, <2>2, Zeros DEF Init, TypeOK
  <1>2. TypeOK /\ [Next]_vars => TypeOK'
    <2> SUFFICES ASSUME TypeOK, [Next]_vars PROVE TypeOK'
      OBVIOUS
    <2>1. rDiv \in UInt256 /\ loop \in Loops
      BY DEF TypeOK, Loops
    <2>2. ASSUME NEW c \in Calls, Ask(c) PROVE TypeOK'
      <3>1. CASE ~\A k \in DOMAIN c.fields : Readable(c.fields[k])
        BY <2>2, <3>1 DEF Ask, Refuse, TypeOK
      <3>2. CASE \A k \in DOMAIN c.fields : Readable(c.fields[k])
        <4>1. NumberOf(c) \in UInt256
          BY <3>2, NumberIsMeant
        <4>2. /\ call' = c /\ rDiv' = NumberOf(c) /\ pc' = "digit"
              /\ out' = out /\ loop' = loop /\ result' = result
          BY <2>2, <3>2 DEF Ask
        <4>3. QED
          BY <4>1, <4>2 DEF TypeOK
      <3>3. QED
        BY <3>1, <3>2
    <2>3. CASE NoSpace
      BY <2>3 DEF NoSpace, Refuse, TypeOK
    <2>4. CASE DivideSmall
      <3>1. gt256(base, rDiv) /\ Digit(Zero256, rDiv)
        BY <2>4 DEF DivideSmall, Remainder
      <3>2. QED
        BY <2>1, <3>1, RemainderIsDigit, DigitIsTyped, Zeros
    <2>5. CASE StartDivision
      <3>1. Shifted \in Loops /\ Down(Shifted) \in Loops
        BY <2>1, <2>5, ShiftedIsLoop, DownIsLoop DEF StartDivision
      <3>2. loop' \in Loops /\ pc' = "divide" /\ UNCHANGED << call, rDiv, out, result >>
        BY <2>5, <3>1 DEF StartDivision
      <3>3. QED
        BY <3>2 DEF TypeOK, Loops
    <2>6. CASE Divide
      <3>1. loop' \in Loops
        BY <2>1, <2>6, SubtractIsLoop, DownIsLoop DEF Divide
      <3>2. UNCHANGED << pc, call, rDiv, out, result >>
        BY <2>6 DEF Divide
      <3>3. QED
        BY <3>1, <3>2 DEF TypeOK, Loops
    <2>7. CASE EndDivision
      <3>1. ~gte256(loop.resMod, base) /\ Digit(loop.resDiv, loop.resMod)
        BY <2>7 DEF EndDivision, Dividing
      <3>2. loop.resMod \in UInt256 /\ loop.resDiv \in UInt256
        BY <2>1 DEF Loops
      <3>3. QED
        BY <3>1, <3>2, RemainderIsDigit, DigitIsTyped
    <2>8. CASE Return
      <3>1. << >> \in Seq(0 .. DECIMAL_BASE - 1)
        OBVIOUS
      <3>2. QED
        BY <2>8, <3>1, Zeros DEF Return, TypeOK
    <2>9. CASE UNCHANGED vars
      BY <2>9 DEF TypeOK, vars
    <2>10. QED
      BY <2>2, <2>3, <2>4, <2>5, <2>6, <2>7, <2>8, <2>9 DEF Next, Step
  <1>3. QED
    BY <1>1, <1>2, PTL DEF Spec

-----------------------------------------------------------------------------
(* The turns of the long division *)

\* What is left of n in the middle of its division: the quotient and the
\* remainder so far make up n and, while the loop goes on, adder is a power
\* of two below every bit of the quotient, copyd is the base times that
\* power, and the remainder is below twice copyd.
Divided(n, l) ==
    /\ Value256(n) = Value256(l.resDiv) * DECIMAL_BASE + Value256(l.resMod)
    /\ Value256(l.resMod) >= DECIMAL_BASE =>
          \E e \in 0 .. 4 * Bits - 1 :
             /\ Value256(l.adder) = 2^e
             /\ Value256(l.copyd) = DECIMAL_BASE * 2^e
             /\ Value256(l.resMod) < 2 * (DECIMAL_BASE * 2^e)
             /\ Value256(l.resDiv) % 2^(e + 1) = 0

\* The shift at the end of a turn, once the remainder is below copyd.
LEMMA DownDivides ==
    ASSUME NEW n \in UInt256, NEW l \in Loops, NEW e \in 0 .. 4 * Bits - 1,
           Value256(l.adder) = 2^e, Value256(l.copyd) = DECIMAL_BASE * 2^e,
           Value256(n) = Value256(l.resDiv) * DECIMAL_BASE + Value256(l.resMod),
           Value256(l.resMod) < DECIMAL_BASE * 2^e, Value256(l.resDiv) % 2^e = 0
    PROVE  Divided(n, Down(l))
  <1> DEFINE c == shiftr256(l.copyd, 1)
             a == shiftr256(l.adder, 1)
             k == Down(l)
  <1>1. k = [l EXCEPT !.copyd = c, !.adder = a]
    BY DEF Down
  <1>2. l.copyd \in UInt256 /\ l.adder \in UInt256
    BY DEF Loops
  <1>3. e # 0 => /\ e - 1 \in 0 .. 4 * Bits - 1
                 /\ 2^e = 2 * 2^(e - 1) /\ 2^(e - 1) \in Nat
                 /\ Value256(c) = DECIMAL_BASE * 2^(e - 1)
                 /\ Value256(a) = 2^(e - 1)
    BY <1>2, DivisionGoesDown
  <1> HIDE DEF c, a, k
  <1>4. k.copyd = c /\ k.adder = a /\ k.resDiv = l.resDiv /\ k.resMod = l.resMod
    BY <1>1 DEF Loops
  <1>5. ASSUME Value256(l.resMod) >= DECIMAL_BASE
        PROVE  \E f \in 0 .. 4 * Bits - 1 :
                  /\ Value256(a) = 2^f
                  /\ Value256(c) = DECIMAL_BASE * 2^f
                  /\ Value256(l.resMod) < 2 * (DECIMAL_BASE * 2^f)
                  /\ Value256(l.resDiv) % 2^(f + 1) = 0
    <2> DEFINE r == Value256(l.resMod)
               p == 2^(e - 1)
    <2>1. r \in Nat /\ r >= DECIMAL_BASE /\ r < DECIMAL_BASE * 2^e
      <3>1. l.resMod \in UInt256
        BY DEF Loops
      <3>2. QED
        BY <1>5, <3>1, Parts256
    <2>2. e # 0
      <3>1. SUFFICES ASSUME e = 0 PROVE FALSE
        OBVIOUS
      <3>2. 2^e = 1
        BY <3>1, PowerOfZero
      <3> HIDE DEF r
      <3>3. r < DECIMAL_BASE * 1
        BY <2>1, <3>2
      <3>4. QED
        BY <2>1, <3>3 DEF DECIMAL_BASE
    <2>3. /\ e - 1 \in 0 .. 4 * Bits - 1
          /\ 2^e = 2 * p /\ p \in Nat
          /\ Value256(c) = DECIMAL_BASE * p
          /\ Value256(a) = p
      BY <1>3, <2>2
    <2>4. (e - 1) + 1 = e
      BY BitsArePositive
    <2>5. r < 2 * (DECIMAL_BASE * p)
      <3> HIDE DEF r, p
      <3>1. r < DECIMAL_BASE * (2 * p)
        BY <2>1, <2>3
      <3>2. QED
        BY <2>1, <2>3, <3>1 DEF DECIMAL_BASE
    <2>6. Value256(l.resDiv) % 2^((e - 1) + 1) = 0
      BY <2>4
    <2>7. QED
      BY <2>3, <2>5, <2>6 DEF r, p
  <1>6. QED
    BY <1>4, <1>5 DEF Divided, k

\* The two assignments before the loop of divmod256 (uint256.c:459-471).
LEMMA StartDivides ==
    ASSUME rDiv \in UInt256, ~gt256(base, rDiv)
    PROVE  Divided(rDiv, IF gt256(Shifted.copyd, rDiv) THEN Down(Shifted) ELSE Shifted)
  <1>1. PICK e \in 0 .. 4 * Bits - 1 :
              /\ diffBits = e
              /\ shiftl256(base, e) \in UInt256 /\ Value256(shiftl256(base, e)) = DECIMAL_BASE * 2^e
              /\ shiftl256(one, e) \in UInt256 /\ Value256(shiftl256(one, e)) = 2^e
              /\ Value256(rDiv) < 2 * (DECIMAL_BASE * 2^e)
              /\ gt256(shiftl256(base, e), rDiv) => e # 0
    BY DivisionStarts DEF diffBits
  <1> DEFINE l == Shifted
             c == shiftl256(base, e)
             a == shiftl256(one, e)
  <1>2. l \in Loops
    BY ShiftedIsLoop
  <1>3. l = [copyd |-> c, adder |-> a, resDiv |-> Zero256, resMod |-> rDiv]
    BY <1>1 DEF Shifted
  <1> HIDE DEF l, c, a
  <1>4. l.copyd = c /\ l.adder = a /\ l.resDiv = Zero256 /\ l.resMod = rDiv
    BY <1>3
  <1>5. e \in Nat /\ e + 1 \in Nat
    BY BitsArePositive
  <1>6. Value256(l.resDiv) = 0 /\ 0 % 2^e = 0 /\ 0 % 2^(e + 1) = 0
    <2>1. 2^e \in Nat \ {0} /\ 2^(e + 1) \in Nat \ {0}
      BY <1>5, PowerIsPositive
    <2>2. \A p \in Nat \ {0} : 0 % p = 0
      OBVIOUS
    <2>3. QED
      BY <1>4, <2>1, <2>2, Zeros
  <1>7. Value256(rDiv) = Value256(l.resDiv) * DECIMAL_BASE + Value256(l.resMod)
    <2>1. Value256(rDiv) \in Nat
      BY Parts256
    <2>2. \A v \in Nat : v = 0 * DECIMAL_BASE + v
      BY DEF DECIMAL_BASE
    <2>3. QED
      BY <1>4, <1>6, <2>1, <2>2
  <1>8. CASE gt256(c, rDiv)
    <2>1. Value256(rDiv) < DECIMAL_BASE * 2^e
      <3>1. c \in UInt256 /\ Value256(c) = DECIMAL_BASE * 2^e
        BY <1>1 DEF c
      <3>2. Value256(c) > Value256(rDiv)
        BY <1>8, <3>1, Gt256IsGreater
      <3>3. Value256(c) \in Nat /\ Value256(rDiv) \in Nat
        BY <3>1, Parts256
      <3>4. Value256(rDiv) < Value256(c)
        BY <3>2, <3>3
      <3>5. QED
        BY <3>1, <3>4
    <2>2. Value256(l.adder) = 2^e /\ Value256(l.copyd) = DECIMAL_BASE * 2^e
      BY <1>1, <1>4 DEF a, c
    <2>3. Value256(l.resMod) < DECIMAL_BASE * 2^e /\ Value256(l.resDiv) % 2^e = 0
      BY <1>4, <1>6, <2>1
    <2>4. Divided(rDiv, Down(l))
      BY <1>2, <1>7, <2>2, <2>3, DownDivides
    <2>5. QED
      BY <1>4, <1>8, <2>4 DEF l
  <1>9. CASE ~gt256(c, rDiv)
    <2>1. /\ Value256(l.adder) = 2^e /\ Value256(l.copyd) = DECIMAL_BASE * 2^e
          /\ Value256(l.resMod) < 2 * (DECIMAL_BASE * 2^e)
          /\ Value256(l.resDiv) % 2^(e + 1) = 0
      BY <1>1, <1>4, <1>6 DEF a, c
    <2>2. Divided(rDiv, l)
      BY <1>7, <2>1 DEF Divided
    <2>3. QED
      BY <1>4, <1>9, <2>2 DEF l
  <1>10. QED
    BY <1>8, <1>9

\* A turn of the loop of divmod256 (uint256.c:472-479).
LEMMA TurnDivides ==
    ASSUME NEW n \in UInt256, NEW l \in Loops, Divided(n, l), gte256(l.resMod, base)
    PROVE  Divided(n, Down(Subtract(l)))
  <1> DEFINE q == Value256(l.resDiv)
             r == Value256(l.resMod)
  <1>1. /\ l.resMod \in UInt256 /\ l.copyd \in UInt256 /\ l.resDiv \in UInt256 /\ l.adder \in UInt256
        /\ q \in Nat /\ r \in Nat
    <2>1. l.resMod \in UInt256 /\ l.copyd \in UInt256 /\ l.resDiv \in UInt256 /\ l.adder \in UInt256
      BY DEF Loops
    <2>2. QED
      BY <2>1, Parts256
  <1>2. r >= DECIMAL_BASE
    <2>1. base \in UInt256 /\ Value256(base) = DECIMAL_BASE
      BY TheBase
    <2>2. QED
      BY <1>1, <2>1, Gte256IsAtLeast
  <1>3. PICK e \in 0 .. 4 * Bits - 1 :
              /\ Value256(l.adder) = 2^e /\ Value256(l.copyd) = DECIMAL_BASE * 2^e
              /\ r < 2 * (DECIMAL_BASE * 2^e) /\ q % 2^(e + 1) = 0
    BY <1>2 DEF Divided
  <1>4. Value256(n) = q * DECIMAL_BASE + r
    BY DEF Divided
  <1> DEFINE p == 2^e
  <1>5. p \in Nat \ {0} /\ 2^(e + 1) = 2 * p
    <2>1. e \in Nat
      BY BitsArePositive
    <2>2. QED
      BY <2>1, PowerIsPositive, PowerOfNext
  <1> HIDE DEF q, r
  <1>6. (q + p) % p = 0 /\ q % p = 0
    <2> HIDE DEF p
    <2>1. q % (2 * p) = 0 /\ 2 * p \in Nat \ {0}
      BY <1>3, <1>5
    <2>2. PICK c \in Nat : q = c * (2 * p)
      BY <1>1, <2>1, DivisibleIsMultiple
    <2>3. q = (2 * c) * p /\ q + p = (2 * c + 1) * p /\ 2 * c \in Nat /\ 2 * c + 1 \in Nat
      BY <1>5, <2>2
    <2>4. ((2 * c) * p) % p = 0
      BY <1>5, <2>3, DivisionOfMultiple
    <2>5. ((2 * c + 1) * p) % p = 0
      BY <1>5, <2>3, DivisionOfMultiple
    <2>6. QED
      BY <2>3, <2>4, <2>5
  <1>7. CASE gte256(l.resMod, l.copyd)
    <2> DEFINE m == minus256(l.resMod, l.copyd)
               d == or256(l.resDiv, l.adder)
               k == Subtract(l)
    <2>1. DECIMAL_BASE * p <= r
      <3>1. r >= Value256(l.copyd)
        BY <1>1, <1>7, Gte256IsAtLeast DEF r
      <3>2. DECIMAL_BASE * p \in Nat
        BY <1>5 DEF DECIMAL_BASE
      <3>3. r >= DECIMAL_BASE * p
        BY <1>3, <3>1
      <3>4. QED
        BY <1>1, <3>2, <3>3
    <2>2. m \in UInt256 /\ Value256(m) = r - DECIMAL_BASE * p
      <3>1. Value256(l.copyd) <= Value256(l.resMod)
        BY <1>3, <2>1 DEF r
      <3>2. minus256(l.resMod, l.copyd) \in UInt256
        BY <1>1, <3>1, Minus256IsDifference
      <3>3. Value256(minus256(l.resMod, l.copyd)) = Value256(l.resMod) - Value256(l.copyd)
        BY <1>1, <3>1, Minus256IsDifference
      <3>4. QED
        BY <1>3, <3>2, <3>3 DEF r
    <2>3. d \in UInt256 /\ Value256(d) = q + p
      <3>1. Value256(l.resDiv) % 2^(e + 1) = 0 /\ Value256(l.adder) = 2^e
        BY <1>3 DEF q
      <3>2. or256(l.resDiv, l.adder) \in UInt256 /\ Value256(or256(l.resDiv, l.adder)) = Value256(l.resDiv) + 2^e
        BY <1>1, <3>1, Or256IsSum
      <3>3. QED
        BY <3>2 DEF q
    <2>4. k = [l EXCEPT !.resMod = m, !.resDiv = d]
      BY <1>7 DEF Subtract
    <2>5. k \in Loops
      BY SubtractIsLoop
    <2> HIDE DEF m, d, k
    <2>6. k.resMod = m /\ k.resDiv = d /\ k.copyd = l.copyd /\ k.adder = l.adder
      BY <2>4 DEF Loops
    <2>7. Value256(n) = Value256(d) * DECIMAL_BASE + Value256(m)
      <3> HIDE DEF p
      <3>1. (q + p) * 10 + (r - 10 * p) = q * 10 + r
        BY <1>1, <1>5
      <3>2. QED
        BY <1>4, <2>2, <2>3, <3>1 DEF DECIMAL_BASE
    <2>8. Value256(m) < DECIMAL_BASE * p
      <3>1. r < 2 * (DECIMAL_BASE * p)
        BY <1>3
      <3> HIDE DEF p
      <3>2. r - 10 * p < 10 * p
        BY <1>1, <1>5, <3>1 DEF DECIMAL_BASE
      <3>3. QED
        BY <2>2, <3>2 DEF DECIMAL_BASE
    <2>9. Value256(d) % p = 0
      BY <1>6, <2>3
    <2>10. Value256(k.adder) = 2^e /\ Value256(k.copyd) = DECIMAL_BASE * 2^e
      BY <1>3, <2>6
    <2>11. /\ Value256(n) = Value256(k.resDiv) * DECIMAL_BASE + Value256(k.resMod)
           /\ Value256(k.resMod) < DECIMAL_BASE * 2^e /\ Value256(k.resDiv) % 2^e = 0
      BY <2>6, <2>7, <2>8, <2>9
    <2>12. Divided(n, Down(k))
      BY <2>5, <2>10, <2>11, DownDivides
    <2>13. QED
      BY <2>12 DEF k
  <1>8. CASE ~gte256(l.resMod, l.copyd)
    <2>1. Subtract(l) = l
      BY <1>8 DEF Subtract
    <2>2. r < DECIMAL_BASE * 2^e
      <3>1. ~(r >= Value256(l.copyd))
        BY <1>1, <1>8, Gte256IsAtLeast DEF r
      <3>2. DECIMAL_BASE * p \in Nat
        BY <1>5 DEF DECIMAL_BASE
      <3>3. ~(r >= DECIMAL_BASE * p)
        BY <1>3, <3>1
      <3>4. QED
        BY <1>1, <3>2, <3>3
    <2>3. /\ Value256(n) = Value256(l.resDiv) * DECIMAL_BASE + Value256(l.resMod)
          /\ Value256(l.resMod) < DECIMAL_BASE * 2^e /\ Value256(l.resDiv) % 2^e = 0
      BY <1>4, <1>6, <2>2 DEF q, r
    <2>4. Divided(n, Down(l))
      BY <1>3, <2>3, DownDivides
    <2>5. QED
      BY <2>1, <2>4
  <1>9. QED
    BY <1>7, <1>8

-----------------------------------------------------------------------------
(* The long division is exact. *)

DivisionInv == pc = "divide" => Divided(rDiv, loop)

\* The invariant of the long division.
LEMMA DivisionInvariant == Spec => []DivisionInv
  <1>1. Init => DivisionInv
    BY DEF Init, DivisionInv
  <1>2. TypeOK /\ DivisionInv /\ [Next]_vars => DivisionInv'
    <2> SUFFICES ASSUME TypeOK, DivisionInv, [Next]_vars PROVE DivisionInv'
      OBVIOUS
    <2>1. rDiv \in UInt256 /\ loop \in Loops
      BY DEF TypeOK, Loops
    <2>2. ASSUME NEW c \in Calls, Ask(c) PROVE DivisionInv'
      BY <2>2 DEF Ask, Refuse, DivisionInv
    <2>3. CASE NoSpace
      BY <2>3 DEF NoSpace, Refuse, DivisionInv
    <2>4. CASE DivideSmall
      BY <2>4 DEF DivideSmall, Digit, DivisionInv
    <2>5. CASE StartDivision
      <3>1. ~gt256(base, rDiv) /\ rDiv' = rDiv
            /\ loop' = IF gt256(Shifted.copyd, rDiv) THEN Down(Shifted) ELSE Shifted
        BY <2>5 DEF StartDivision
      <3>2. Divided(rDiv, loop')
        BY <2>1, <3>1, StartDivides
      <3>3. Divided(rDiv', loop')
        BY <3>1, <3>2
      <3>4. QED
        BY <3>3 DEF DivisionInv
    <2>6. CASE Divide
      <3>1. pc = "divide" /\ gte256(loop.resMod, base) /\ rDiv' = rDiv
            /\ loop' = Down(Subtract(loop))
        BY <2>6 DEF Divide, Dividing
      <3>2. Divided(rDiv, loop)
        BY <3>1 DEF DivisionInv
      <3>3. Divided(rDiv, Down(Subtract(loop)))
        BY <2>1, <3>1, <3>2, TurnDivides
      <3>4. Divided(rDiv', loop')
        BY <3>1, <3>3
      <3>5. QED
        BY <3>4 DEF DivisionInv
    <2>7. CASE EndDivision
      BY <2>7 DEF EndDivision, Digit, DivisionInv
    <2>8. CASE Return
      BY <2>8 DEF Return, DivisionInv
    <2>9. CASE UNCHANGED vars
      <3>1. pc' = pc /\ rDiv' = rDiv /\ loop' = loop
        BY <2>9 DEF vars
      <3>2. QED
        BY <3>1 DEF DivisionInv
    <2>10. QED
      BY <2>2, <2>3, <2>4, <2>5, <2>6, <2>7, <2>8, <2>9 DEF Next, Step
  <1>3. QED
    BY <1>1, <1>2, NumbersTypeCorrect, PTL DEF Spec

\* At every turn of divmod256 (uint256.c:472-479) the dividend is the
\* quotient so far times the divisor plus the remainder so far, for words of
\* every width.
THEOREM DivisionIsExact == Spec => []DivisionHolds
  <1>1. TypeOK /\ DivisionInv => DivisionHolds
    <2> SUFFICES ASSUME TypeOK, DivisionInv, pc = "divide"
                 PROVE  /\ Value256(rDiv) = Value256(loop.resDiv) * DECIMAL_BASE + Value256(loop.resMod)
                        /\ Value256(loop.resMod) >= DECIMAL_BASE =>
                              /\ Value256(loop.copyd) = Value256(loop.adder) * DECIMAL_BASE
                              /\ Value256(loop.resMod) < 2 * Value256(loop.copyd)
      BY DEF DivisionHolds
    <2>1. Divided(rDiv, loop)
      BY DEF DivisionInv
    <2>2. ASSUME Value256(loop.resMod) >= DECIMAL_BASE
          PROVE  /\ Value256(loop.copyd) = Value256(loop.adder) * DECIMAL_BASE
                 /\ Value256(loop.resMod) < 2 * Value256(loop.copyd)
      <3>1. PICK e \in 0 .. 4 * Bits - 1 :
               /\ Value256(loop.adder) = 2^e
               /\ Value256(loop.copyd) = DECIMAL_BASE * 2^e
               /\ Value256(loop.resMod) < 2 * (DECIMAL_BASE * 2^e)
        BY <2>1, <2>2 DEF Divided
      <3> DEFINE p == 2^e
      <3>2. p \in Nat
        BY BitsArePositive, PowerIsPositive
      <3>3. Value256(loop.adder) = p /\ Value256(loop.copyd) = DECIMAL_BASE * p
        BY <3>1
      <3> HIDE DEF p
      <3>4. DECIMAL_BASE * p = p * DECIMAL_BASE
        BY <3>2 DEF DECIMAL_BASE
      <3>5. QED
        BY <3>1, <3>3, <3>4
    <2>3. QED
      BY <2>1, <2>2 DEF Divided
  <1>2. QED
    BY <1>1, NumbersTypeCorrect, DivisionInvariant, PTL

-----------------------------------------------------------------------------
(* The numeral is that of the number. *)

\* The digits written and what is left of the number make up the number that
\* is meant; only the number zero has a zero as its last digit.
NumberInv ==
    /\ pc \in {"digit", "divide"} =>
          /\ result = "none"
          /\ call \in Calls
          /\ \A k \in DOMAIN call.fields : Readable(call.fields[k])
          /\ Len(out) > 0 => Value256(rDiv) # 0
          /\ Exact(call) => Reads(out) + Place[Len(out)] * Value256(rDiv) = Meant(call)
    /\ result = "shown" => (Exact(call) => Reads(out) = Meant(call)) /\ NoLeadingZero
    /\ pc = "idle" => result = "none" /\ out = << >>

\* A digit more, and a number that is smaller by it.
LEMMA DigitIsNext ==
    ASSUME TypeOK, NumberInv, pc \in {"digit", "divide"},
           NEW div \in UInt256, NEW mod \in UInt256,
           LOWER(LOWER(mod)) \in Decimal,
           Value256(rDiv) = Value256(div) * DECIMAL_BASE + LOWER(LOWER(mod)),
           Digit(div, mod)
    PROVE  NumberInv'
  <1> DEFINE d == LOWER(LOWER(mod))
             n == Len(out)
             v == Value256(rDiv)
             w == Value256(div)
             more == zero256(div)
             P == Place[n]
  <1>1. /\ rDiv' = div /\ out' = Append(out, d) /\ call' = call
        /\ pc' = (IF more THEN "done" ELSE "digit")
        /\ result' = (IF more THEN "shown" ELSE "none")
    BY DEF Digit
  <1>2. out \in Seq(Decimal)
    BY DEF TypeOK, Decimal
  <1>3. w \in Nat /\ d \in Nat /\ v = w * DECIMAL_BASE + d /\ (more <=> w = 0)
    <2>1. d \in Nat
      BY DEF Decimal, DECIMAL_BASE
    <2>2. QED
      BY <2>1, Parts256, ZeroIsZero256
  <1>4. /\ call \in Calls /\ \A k \in DOMAIN call.fields : Readable(call.fields[k])
        /\ n > 0 => v # 0
        /\ Exact(call) => Reads(out) + P * v = Meant(call)
    BY DEF NumberInv
  <1>5. d \in Decimal
    OBVIOUS
  <1> HIDE DEF d, v, w, more
  <1>6. /\ n \in Nat /\ n + 1 \in Nat /\ Len(Append(out, d)) = n + 1
        /\ Append(out, d)[n + 1] = d
    BY <1>2, <1>5
  <1>7. Reads(Append(out, d)) = Reads(out) + d * P /\ Reads(out) \in Nat
    BY <1>2, <1>5, ReadsOfAppend, ReadsIsNatural
  <1>8. P \in Nat \ {0} /\ Place[n + 1] = DECIMAL_BASE * P
    BY <1>6, Places
  <1> HIDE DEF n, P
  <1>9. Exact(call) => Reads(Append(out, d)) + Place[n + 1] * w = Meant(call)
    <2>1. P * v = P * (w * 10 + d)
      BY <1>3 DEF DECIMAL_BASE
    <2>2. P * (w * 10 + d) = d * P + (10 * P) * w
      BY <1>3, <1>8
    <2> DEFINE x == d * P
               y == (10 * P) * w
               R == Reads(out)
    <2>3. x \in Nat /\ y \in Nat /\ R \in Nat
      BY <1>3, <1>7, <1>8
    <2>4. P * v = x + y /\ Place[n + 1] * w = y /\ Reads(Append(out, d)) = R + x
      BY <1>7, <1>8, <2>1, <2>2 DEF DECIMAL_BASE
    <2>5. Exact(call) => R + P * v = Meant(call)
      BY <1>4 DEF n
    <2> HIDE DEF x, y, R
    <2>6. Exact(call) => R + (x + y) = Meant(call)
      BY <2>4, <2>5
    <2>7. Exact(call) => (R + x) + y = Meant(call)
      BY <2>3, <2>6
    <2>8. QED
      BY <2>4, <2>7
  <1>10. CASE more
    <2>1. w = 0 /\ pc' = "done" /\ result' = "shown"
      BY <1>1, <1>3, <1>10
    <2>2. Exact(call) => Reads(Append(out, d)) = Meant(call)
      <3>1. Place[n + 1] * w = 0
        <4>1. Place[n + 1] \in Nat
          BY <1>6, Places
        <4>2. QED
          BY <2>1, <4>1
      <3>2. Reads(Append(out, d)) \in Nat
        <4>1. Append(out, d) \in Seq(Decimal)
          BY <1>2, <1>5
        <4>2. QED
          BY <4>1, ReadsIsNatural
      <3>3. QED
        BY <1>9, <3>1, <3>2
    <2>3. n > 0 => d # 0
      BY <1>3, <1>4, <2>1 DEF DECIMAL_BASE
    <2>4. NoLeadingZero'
      <3>1. Len(out') > 1 => out'[Len(out')] # 0
        <4>1. Len(out') = n + 1 /\ out'[n + 1] = d
          BY <1>1, <1>6
        <4>2. n + 1 > 1 => n > 0
          BY <1>6
        <4>3. QED
          BY <2>3, <4>1, <4>2
      <3>2. QED
        BY <3>1 DEF NoLeadingZero
    <2>5. Exact(call') => Reads(out') = Meant(call')
      BY <1>1, <2>2
    <2>6. QED
      BY <2>1, <2>4, <2>5 DEF NumberInv
  <1>11. CASE ~more
    <2>1. w # 0 /\ pc' = "digit" /\ result' = "none"
      BY <1>1, <1>3, <1>11
    <2>2. Value256(rDiv') # 0
      BY <1>1, <2>1 DEF w
    <2>3. Exact(call') => Reads(out') + Place[Len(out')] * Value256(rDiv') = Meant(call')
      <3>1. Len(out') = n + 1 /\ out' = Append(out, d) /\ Value256(rDiv') = w /\ call' = call
        BY <1>1, <1>6 DEF w
      <3>2. QED
        BY <1>9, <3>1
    <2>4. call' \in Calls /\ \A k \in DOMAIN call'.fields : Readable(call'.fields[k])
      BY <1>1, <1>4
    <2>5. QED
      BY <2>1, <2>2, <2>3, <2>4 DEF NumberInv
  <1>12. QED
    BY <1>10, <1>11

\* The invariant of the digits.
LEMMA NumberInvariant == Spec => []NumberInv
  <1>1. Init => NumberInv
    BY DEF Init, NumberInv
  <1>2. TypeOK /\ DivisionInv /\ NumberInv /\ [Next]_vars => NumberInv'
    <2> SUFFICES ASSUME TypeOK, DivisionInv, NumberInv, [Next]_vars PROVE NumberInv'
      OBVIOUS
    <2>1. rDiv \in UInt256 /\ loop \in Loops
      BY DEF TypeOK, Loops
    <2>2. ASSUME NEW c \in Calls, Ask(c) PROVE NumberInv'
      <3>1. pc = "idle" /\ result = "none" /\ out = << >>
        BY <2>2 DEF Ask, NumberInv
      <3>2. CASE ~\A k \in DOMAIN c.fields : Readable(c.fields[k])
        <4>1. result' = "error" /\ pc' = "done"
          BY <2>2, <3>2 DEF Ask, Refuse
        <4>2. QED
          BY <4>1 DEF NumberInv
      <3>3. CASE \A k \in DOMAIN c.fields : Readable(c.fields[k])
        <4>1. /\ call' = c /\ rDiv' = NumberOf(c) /\ pc' = "digit"
              /\ out' = << >> /\ result' = "none"
          BY <2>2, <3>1, <3>3 DEF Ask
        <4>2. NumberOf(c) \in UInt256 /\ (Exact(c) => Value256(NumberOf(c)) = Meant(c))
          BY <3>3, NumberIsMeant
        <4>3. Len(<< >>) = 0 /\ Place[0] = 1 /\ Reads(<< >>) = 0
          BY EmptyIsSequence, Places, ReadsOfEmpty
        <4>4. Exact(c) => Reads(<< >>) + Place[Len(<< >>)] * Value256(NumberOf(c)) = Meant(c)
          <5> DEFINE v == Value256(NumberOf(c))
          <5>1. v \in Nat
            BY <4>2, Parts256
          <5>2. Exact(c) => v = Meant(c)
            BY <4>2
          <5> HIDE DEF v
          <5>3. 0 + 1 * v = v
            BY <5>1
          <5>4. Exact(c) => Reads(<< >>) + Place[Len(<< >>)] * v = Meant(c)
            BY <4>3, <5>2, <5>3
          <5>5. QED
            BY <5>4 DEF v
        <4>5. Exact(call') => Reads(out') + Place[Len(out')] * Value256(rDiv') = Meant(call')
          BY <4>1, <4>4
        <4>6. call' \in Calls /\ \A k \in DOMAIN call'.fields : Readable(call'.fields[k])
          BY <3>3, <4>1
        <4>7. ~(Len(out') > 0)
          BY <4>1, <4>3
        <4>8. QED
          BY <4>1, <4>5, <4>6, <4>7 DEF NumberInv
      <3>4. QED
        BY <3>2, <3>3
    <2>3. CASE NoSpace
      BY <2>3 DEF NoSpace, Refuse, NumberInv
    <2>4. CASE DivideSmall
      <3>1. gt256(base, rDiv) /\ Digit(Zero256, rDiv) /\ pc = "digit"
        BY <2>4 DEF DivideSmall, Remainder
      <3>2. LOWER(LOWER(rDiv)) \in Decimal /\ LOWER(LOWER(rDiv)) = Value256(rDiv)
        BY <2>1, <3>1, RemainderIsDigit
      <3>3. Value256(rDiv) = Value256(Zero256) * DECIMAL_BASE + LOWER(LOWER(rDiv))
        <4>1. \A v \in Nat : v = 0 * DECIMAL_BASE + v
          BY DEF DECIMAL_BASE
        <4>2. Value256(rDiv) \in Nat
          BY <2>1, Parts256
        <4>3. QED
          BY <3>2, <4>1, <4>2, Zeros
      <3>4. Zero256 \in UInt256
        BY Zeros
      <3>5. QED
        BY <2>1, <3>1, <3>2, <3>3, <3>4, DigitIsNext
    <2>5. CASE StartDivision
      <3>1. pc = "digit" /\ pc' = "divide" /\ UNCHANGED << call, rDiv, out, result >>
        BY <2>5 DEF StartDivision
      <3>2. QED
        BY <3>1 DEF NumberInv, NoLeadingZero
    <2>6. CASE Divide
      <3>1. UNCHANGED << pc, call, rDiv, out, result >>
        BY <2>6 DEF Divide
      <3>2. QED
        BY <3>1 DEF NumberInv, NoLeadingZero
    <2>7. CASE EndDivision
      <3>1. ~gte256(loop.resMod, base) /\ Digit(loop.resDiv, loop.resMod) /\ pc = "divide"
        BY <2>7 DEF EndDivision, Dividing
      <3>2. loop.resMod \in UInt256 /\ loop.resDiv \in UInt256
        BY <2>1 DEF Loops
      <3>3. /\ LOWER(LOWER(loop.resMod)) \in Decimal
            /\ LOWER(LOWER(loop.resMod)) = Value256(loop.resMod)
        BY <3>1, <3>2, RemainderIsDigit
      <3>4. Value256(rDiv) = Value256(loop.resDiv) * DECIMAL_BASE + LOWER(LOWER(loop.resMod))
        BY <3>1, <3>3 DEF DivisionInv, Divided
      <3>5. QED
        BY <3>1, <3>2, <3>3, <3>4, DigitIsNext
    <2>8. CASE Return
      BY <2>8 DEF Return, NumberInv
    <2>9. CASE UNCHANGED vars
      <3>1. UNCHANGED << pc, call, rDiv, out, result >>
        BY <2>9 DEF vars
      <3>2. QED
        BY <3>1 DEF NumberInv, NoLeadingZero
    <2>10. QED
      BY <2>2, <2>3, <2>4, <2>5, <2>6, <2>7, <2>8, <2>9 DEF Next, Step
  <1>3. QED
    BY <1>1, <1>2, NumbersTypeCorrect, DivisionInvariant, PTL DEF Spec

\* The numeral on the screen is the number of the transaction, for words of
\* every width, every number and every fee of two factors below 2^64: reading
\* the fields, the product, the long divisions and the reversal lose nothing
\* (rlp.c:109-133, uint256.c:328-420, 453-493, 526-557).
THEOREM NumeralsAreNumbers == Spec => []NumeralIsNumber
  <1>1. NumberInv => NumeralIsNumber
    BY DEF NumberInv, NumeralIsNumber, Exact
  <1>2. QED
    BY <1>1, NumberInvariant, PTL

\* A number is refused only if it cannot be read or its numeral would not
\* fit: the buffer of n bytes holds every number of n - 1 digits
\* (uint256.c:544-549, rlp.c:109-115).
THEOREM RefusalsAreOfTooLong == Spec => []RefusedOnlyIfTooLong
  <1>1. Init => RefusedOnlyIfTooLong
    BY DEF Init, RefusedOnlyIfTooLong
  <1>2. /\ TypeOK /\ NumeralInBuffer /\ NumberInv /\ RefusedOnlyIfTooLong
        /\ [Next]_vars
        => RefusedOnlyIfTooLong'
    <2> SUFFICES ASSUME TypeOK, NumeralInBuffer, NumberInv, RefusedOnlyIfTooLong, [Next]_vars
                 PROVE  RefusedOnlyIfTooLong'
      OBVIOUS
    <2>1. ASSUME UNCHANGED << call, result >> PROVE RefusedOnlyIfTooLong'
      BY <2>1 DEF RefusedOnlyIfTooLong
    <2>2. ASSUME result' # "error" PROVE RefusedOnlyIfTooLong'
      BY <2>2 DEF RefusedOnlyIfTooLong
    <2>3. ASSUME NEW div, NEW mod, Digit(div, mod) PROVE RefusedOnlyIfTooLong'
      <3>1. result' # "error"
        BY <2>3 DEF Digit
      <3>2. QED
        BY <2>2, <3>1
    <2>4. ASSUME NEW c \in Calls, Ask(c) PROVE RefusedOnlyIfTooLong'
      <3>1. call' = c
        BY <2>4 DEF Ask
      <3>2. CASE \A k \in DOMAIN c.fields : Readable(c.fields[k])
        <4>1. result' = result /\ result = "none"
          BY <2>4, <3>2 DEF Ask, NumberInv
        <4>2. QED
          BY <2>2, <4>1
      <3>3. ASSUME NEW k \in DOMAIN c.fields, ~Readable(c.fields[k])
            PROVE  RefusedOnlyIfTooLong'
        <4>1. c.fields[k].kind = "RLP_KIND_LIST" \/ Len(c.fields[k].bytes) > 4 * WordBytes
          <5>1. Len(c.fields[k].bytes) \in Nat /\ 4 * WordBytes \in Nat
            BY CallsAssumption, WidthsAssumption
          <5>2. QED
            BY <3>3, <5>1 DEF Readable, BytesOf256
        <4>2. \/ call'.fields[k].kind = "RLP_KIND_LIST"
              \/ Len(call'.fields[k].bytes) > 4 * WordBytes
          BY <3>1, <4>1
        <4>3. k \in DOMAIN call'.fields
          BY <3>1
        <4>4. QED
          BY <4>2, <4>3 DEF RefusedOnlyIfTooLong
      <3>4. QED
        BY <3>2, <3>3
    <2>5. CASE NoSpace
      <3>1. pc = "digit" /\ Len(out) > (OutLength - 1) - 1 /\ call' = call
        BY <2>5 DEF NoSpace, OutOfSpace
      <3> DEFINE R == Reads(out)
                 P == Place[OutLength - 1]
                 v == Value256(rDiv)
      <3>2. OutLength \in Nat \ {0, 1} /\ OutLength - 1 \in Nat /\ OutLength - 1 > 0
        BY OutLengthAssumption
      <3>3. out \in Seq(Decimal) /\ Len(out) \in Nat /\ rDiv \in UInt256
        BY DEF TypeOK, Decimal
      <3>4. Len(out) = OutLength - 1
        BY <3>1, <3>2, <3>3 DEF NumeralInBuffer
      <3>5. R \in Nat /\ P \in Nat /\ v \in Nat
        BY <3>2, <3>3, ReadsIsNatural, Places, Parts256
      <3>6. v # 0 /\ (Exact(call) => R + P * v = Meant(call))
        BY <3>1, <3>2, <3>4 DEF NumberInv
      <3> HIDE DEF R, P, v
      <3>7. R + P * v >= P
        <4>1. PICK k \in Nat : v = k + 1
          <5>1. v - 1 \in Nat /\ v = (v - 1) + 1
            BY <3>5, <3>6
          <5>2. QED
            BY <5>1
        <4>2. P * (k + 1) = P * k + P /\ P * k \in Nat
          BY <3>5
        <4>3. QED
          BY <3>5, <4>1, <4>2
      <3>8. Exact(call) => Meant(call) >= P
        BY <3>6, <3>7
      <3>9. Exact(call') => Meant(call') >= Place[OutLength - 1]
        BY <3>1, <3>8 DEF P
      <3>10. QED
        BY <3>9 DEF RefusedOnlyIfTooLong, Exact
    <2>6. CASE DivideSmall
      BY <2>3, <2>6 DEF DivideSmall
    <2>7. CASE StartDivision
      BY <2>1, <2>7 DEF StartDivision
    <2>8. CASE Divide
      BY <2>1, <2>8 DEF Divide
    <2>9. CASE EndDivision
      BY <2>3, <2>9 DEF EndDivision
    <2>10. CASE Return
      <3>1. result' # "error"
        BY <2>10 DEF Return
      <3>2. QED
        BY <2>2, <3>1
    <2>11. CASE UNCHANGED vars
      BY <2>1, <2>11 DEF vars
    <2>12. QED
      BY <2>4, <2>5, <2>6, <2>7, <2>8, <2>9, <2>10, <2>11 DEF Next, Step
  <1>3. QED
    BY <1>1, <1>2, NumbersTypeCorrect, NumeralsFit, NumberInvariant, PTL DEF Spec
=============================================================================
