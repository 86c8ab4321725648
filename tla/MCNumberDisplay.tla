--------------------------- MODULE MCNumberDisplay --------------------------
(***************************************************************************)
(* Numbers of four words of four bits.                                     *)
(***************************************************************************)
EXTENDS NumberDisplay

Byte == 0 .. 2^ByteBits - 1

String(bytes) == [kind |-> "RLP_KIND_STRING", bytes |-> bytes]

\* Every field of up to two bytes: the factors that fit a word.
Short == {String(bytes) : bytes \in UNION {[1 .. n -> Byte] : n \in 0 .. 2}}

\* Fields of full length, in which every word is 0, 1, the highest, or one in
\* between that leaves a carry or a borrow to its neighbour.
Long == {String(a \o b \o c \o d) : a, b, c, d \in {<< 0, 0 >>, << 0, 1 >>, << 1, 3 >>, << 3, 3 >>}}
        \cup {String(<< 2, 1 >> \o a \o << 1, 2 >> \o b) : a, b \in {<< 0, 3 >>, << 3, 2 >>}}

TooLong == String([k \in 1 .. BytesOf256 + 1 |-> 0])

List == [kind |-> "RLP_KIND_LIST", bytes |-> << 1 >>]

Digit1 == [kind |-> "RLP_KIND_BYTE", bytes |-> << 3 >>]

Numbers == [by : {"printRLPNumber"}, fields : {<< f >> : f \in Short \cup Long \cup {TooLong, List, Digit1}}]

Values == [by : {"printERC20Value"}, fields : {<< f >> : f \in Long}]

Fees == [by : {"printEVMMaxFees"},
         fields : {<< f, g >> : f \in Short, g \in Short}
                  \cup {<< String(<< 3 >>), TooLong >>, << List, Digit1 >>}]

MCCalls == Numbers \cup Values \cup Fees

\* A gas price of two words.
WideFees == [by : {"printEVMMaxFees"},
             fields : {<< String(<< 3, n >>), String(<< 1, 3, m >>) >> : n, m \in Byte}]
=============================================================================
