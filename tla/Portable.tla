------------------------------ MODULE Portable ------------------------------
(***************************************************************************)
(* The portable storage of the binary RPC calls (rpc/portable-storage.js):   *)
(* objects of numbers, booleans, strings, lists and objects as bytes.        *)
(*                                                                         *)
(* A byte holds ByteValues values, 256 in the code, and a number takes        *)
(* WordLen bytes, 8 in the code.  A value is a record of one field, its type; *)
(* an object is the sequence of its keys and values.  A reader returns the     *)
(* value and the place after it, place 0 when it throws.                     *)
(***************************************************************************)
EXTENDS Integers, Sequences, SequencesExt, TLC

CONSTANTS ByteValues, WordLen

\* The type tags, and the flag of a list of a type.
TYPE == [UINT64 |-> 5, STRING |-> 10, BOOL |-> 11, OBJECT |-> 12, ARRAY |-> 13]
FLAG_ARRAY == ByteValues \div 2
SIGNATURE == <<1, 17, 1, 1, 1, 1, 2, 1, 1>>   \* both signatures and the version

-----------------------------------------------------------------------------
\* n in len bytes, the lowest first.
LittleEndian(n, len) == [i \in 1..len |-> (n \div (ByteValues ^ (i - 1))) % ByteValues]

\* writeVarint: the lowest two bits say how many bytes there are.
WriteSize(n) ==
    CASE n < ByteValues \div 4 -> LittleEndian(4 * n, 1)
      [] n >= ByteValues \div 4 /\ n < (ByteValues ^ 2) \div 4 -> LittleEndian((4 * n) + 1, 2)
      [] OTHER -> LittleEndian((4 * n) + 2, 4)

WriteString(s) == WriteSize(Len(s)) \o s
WriteNumber(n) == LittleEndian(n, WordLen)

RECURSIVE WriteSection(_), WriteEntry(_)

WriteSection(obj) ==
    WriteSize(Len(obj))
    \o FlattenSeq([i \in DOMAIN obj |-> <<Len(obj[i][1])>> \o obj[i][1] \o WriteEntry(obj[i][2])])

Is(x, type) == type \in DOMAIN x

\* The first member of a list decides for all of them.
WriteEntry(x) ==
    CASE Is(x, "null") -> <<TYPE.STRING>> \o WriteSize(0)
      [] Is(x, "bool") -> <<TYPE.BOOL, IF x.bool THEN 1 ELSE 0>>
      [] Is(x, "number") -> <<TYPE.UINT64>> \o WriteNumber(x.number)
      [] Is(x, "string") -> <<TYPE.STRING>> \o WriteString(x.string)
      [] Is(x, "object") -> <<TYPE.OBJECT>> \o WriteSection(x.object)
      [] OTHER ->
            LET all == x.list
                All(One(_)) == WriteSize(Len(all)) \o FlattenSeq([i \in DOMAIN all |-> One(all[i])])
            IN  CASE all # <<>> /\ Is(all[1], "object") ->
                        <<TYPE.OBJECT + FLAG_ARRAY>> \o All(LAMBDA y : WriteSection(y.object))
                  [] all = <<>> \/ Is(all[1], "string") ->
                        <<TYPE.STRING + FLAG_ARRAY>> \o All(LAMBDA y : WriteString(y.string))
                  [] OTHER -> <<TYPE.UINT64 + FLAG_ARRAY>> \o All(LAMBDA y : WriteNumber(y.number))

PortableSerialize(obj) == SIGNATURE \o WriteSection(obj)

-----------------------------------------------------------------------------
Unreadable == [val |-> 0, at |-> 0]

\* getUint16, getUint32 and their like throw at the end of the data.
ReadNumber(d, at, len) ==
    IF at = 0 \/ at + len - 1 > Len(d) THEN Unreadable
    ELSE [val |-> FoldRight(LAMBDA b, n : b + (ByteValues * n), SubSeq(d, at, at + len - 1), 0),
          at |-> at + len]

\* readUint8 and the mark of a size do not.
ByteAt(d, at) == IF at > Len(d) THEN 0 ELSE d[at]

ReadSize(d, at) ==
    LET mark == ByteAt(d, at) % 4
        n == ReadNumber(d, at, CASE mark = 1 -> 2 [] mark = 2 -> 4 [] OTHER -> 8)
    IN  IF at = 0 THEN Unreadable
        ELSE IF mark = 0 THEN [val |-> ByteAt(d, at) \div 4, at |-> at + 1]
        ELSE [n EXCEPT !.val = @ \div 4]

\* readString and readBytes take what is there.
ReadText(d, at, n) ==
    IF at = 0 THEN Unreadable
    ELSE [val |-> SubSeq(d, at, IF at + n - 1 > Len(d) THEN Len(d) ELSE at + n - 1), at |-> at + n]

RECURSIVE ReadSection(_, _), ReadTagged(_, _), ReadValue(_, _, _)

Repeat(at, n, One(_)) ==
    FoldLeft(LAMBDA r, i : IF r.at = 0 THEN r
                           ELSE LET x == One(r.at)
                                IN [val |-> Append(r.val, x.val), at |-> x.at],
             [val |-> <<>>, at |-> at], [i \in 1..n |-> i])

ReadSection(d, at) ==
    LET count == ReadSize(d, at)
        Member(a) == LET key == ReadText(d, a + 1, ByteAt(d, a))
                         x == ReadTagged(d, key.at)
                     IN [val |-> <<key.val, x.val>>, at |-> x.at]
    IN Repeat(count.at, count.val, Member)

\* readEntry: a value, or a list of values, after the tag.
ReadTagged(d, at) ==
    LET tag == ByteAt(d, at)
        count == ReadSize(d, at + 1)
        all == Repeat(count.at, count.val, LAMBDA a : ReadValue(d, a, tag - FLAG_ARRAY))
    IN  IF at = 0 THEN Unreadable
        ELSE IF tag < FLAG_ARRAY THEN ReadValue(d, at + 1, tag)
        ELSE [val |-> [list |-> all.val], at |-> all.at]

ReadValue(d, at, type) ==
    LET As(t, r) == [val |-> t :> r.val, at |-> r.at]
        size == ReadSize(d, at)
    IN  CASE at = 0 -> Unreadable
          [] type = TYPE.UINT64 -> As("number", ReadNumber(d, at, WordLen))
          [] type = TYPE.BOOL -> As("bool", [val |-> ByteAt(d, at) # 0, at |-> at + 1])
          [] type = TYPE.STRING -> As("string", ReadText(d, size.at, size.val))
          [] type = TYPE.OBJECT -> As("object", ReadSection(d, at))
          [] type = TYPE.ARRAY -> ReadTagged(d, at)
          [] OTHER -> Unreadable

PortableDeserialize(d) ==
    IF SubSeq(d, 1, Len(SIGNATURE)) # SIGNATURE THEN Unreadable ELSE ReadSection(d, Len(SIGNATURE) + 1)

\* What comes back of a value: nothing is an empty string, and a number loses
\* what its bytes do not hold.
RECURSIVE Returned(_)
Returned(x) ==
    CASE Is(x, "null") -> [string |-> <<>>]
      [] Is(x, "number") -> [number |-> x.number % (ByteValues ^ WordLen)]
      [] Is(x, "list") -> [list |-> [i \in DOMAIN x.list |-> Returned(x.list[i])]]
      [] Is(x, "object") ->
            [object |-> [i \in DOMAIN x.object |-> <<x.object[i][1], Returned(x.object[i][2])>>]]
      [] OTHER -> x
=============================================================================
