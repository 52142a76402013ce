------------------------------- MODULE Bytes -------------------------------
(***************************************************************************)
(* Sequences of bytes, where a byte has ByteBase values: numbers in them, and  *)
(* numbers of any length, of which each byte but the last has the upper half.  *)
(***************************************************************************)
EXTENDS Integers, Sequences, SequencesExt

CONSTANT ByteBase

ASSUME ByteAssumption == ByteBase \in Nat /\ ByteBase >= 4 /\ ByteBase % 2 = 0

\* Something read, or an error thrown.
Read(data) == [ok |-> TRUE, data |-> data]
Unread == [ok |-> FALSE, data |-> <<>>]

\* Big-endian digits, and the number they write.
ToDigits(n, base, size) == [i \in 1 .. size |-> (n \div base ^ (size - i)) % base]
FromDigits(digits, base) == FoldLeft(LAMBDA n, d : (n * base) + d, 0, digits)

Smaller(a, b) == IF a < b THEN a ELSE b
Blocks(s, size) ==
    [i \in 1 .. (Len(s) + size - 1) \div size |->
        SubSeq(s, (i - 1) * size + 1, Smaller(i * size, Len(s)))]

Half == ByteBase \div 2
EncodeVarint(n) ==
    LET size == CHOOSE k \in 1 .. 10 : n < Half ^ k /\ (k = 1 \/ n >= Half ^ (k - 1))
    IN [i \in 1 .. size |-> ((n \div Half ^ (i - 1)) % Half) + (IF i < size THEN Half ELSE 0)]

\* The number and what comes after it.
DecodeVarint(data) ==
    LET ends == {i \in 1 .. Smaller(Len(data), 10) : data[i] < Half}
        size == CHOOSE i \in ends : \A j \in ends : i <= j
    IN IF ends = {} THEN Unread
       ELSE Read(<<FromDigits([i \in 1 .. size |-> data[size + 1 - i] % Half], Half),
                   SubSeq(data, size + 1, Len(data))>>)
=============================================================================
