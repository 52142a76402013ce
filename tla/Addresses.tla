----------------------------- MODULE Addresses -----------------------------
(***************************************************************************)
(* What a wallet gives to others and to its owner as text: addresses, made    *)
(* from keys, written in base 58 and read again by who pays, and the words    *)
(* that keep its seed.  Sizes are small: a byte, a block, a list of words.     *)
(* Points are multiples of the generator, modulo the order of the group.      *)
(***************************************************************************)
EXTENDS Bytes

CONSTANTS
    Alphabet,               \* characters of the alphabet
    EncodedSizes,           \* BASE58_ENCODED_BLOCK_SIZES: characters for 0, 1 .. bytes
    Networks, PREFIXES,     \* the prefix of each network, format and type
    Order,                  \* the order of the group
    KeyBytes, IdBytes,      \* KEY_SIZE, PAYMENT_ID_SIZE
    Lengths,                \* lengths of text that parseAddress looks at
    IndexBase,              \* values of an index in an address key: 2^32
    Ids, Indices, Lookahead,    \* payment ids, indices asked for, indices in the map
    Languages,              \* the word lists, in the order of the registry
    GroupBytes, Seeds,      \* bytes to three words; seeds
    Texts                   \* texts to read

ASSUME AddressAssumption ==
    /\ EncodedSizes[1] = 0
    /\ \A n \in 1 .. Len(EncodedSizes) - 1 : Alphabet ^ EncodedSizes[n + 1] >= ByteBase ^ n
    /\ \A a, b \in DOMAIN PREFIXES : PREFIXES[a] = PREFIXES[b] => a = b
    /\ ByteBase ^ KeyBytes >= Order

VARIABLES
    desk    \* an address and what it was made from, a seed and its words, or a text

addressVars == <<desk>>

-----------------------------------------------------------------------------
(* Base 58, block by block. *)

FullBytes == Len(EncodedSizes) - 1
FullChars == EncodedSizes[FullBytes + 1]

EncodeBlock(bytes) ==
    ToDigits(FromDigits(bytes, ByteBase), Alphabet, EncodedSizes[Len(bytes) + 1])

\* Seeded fault: the smallest number that does not fit is let through.
DecodeBlock_OffByOne(chars) ==
    LET sizes == {k \in 0 .. FullBytes : EncodedSizes[k + 1] = Len(chars)}
        size == CHOOSE k \in sizes : TRUE
        num == FromDigits(chars, Alphabet)
    IN IF sizes = {} \/ (size < FullBytes /\ num > ByteBase ^ size) THEN Unread
       ELSE Read(ToDigits(num, ByteBase, size))

\* Only in a block that is not full a number may be too large to be read: of a
\* full block the low bytes are taken.
DecodeBlock(chars) ==
    LET sizes == {k \in 0 .. FullBytes : EncodedSizes[k + 1] = Len(chars)}
        size == CHOOSE k \in sizes : TRUE
        num == FromDigits(chars, Alphabet)
    IN IF sizes = {} \/ (size < FullBytes /\ num >= ByteBase ^ size) THEN Unread
       ELSE Read(ToDigits(num, ByteBase, size))

Encode(data) == FlattenSeq([i \in DOMAIN Blocks(data, FullBytes) |->
                    EncodeBlock(Blocks(data, FullBytes)[i])])

Joined(blocks) ==
    IF \E i \in DOMAIN blocks : ~blocks[i].ok THEN Unread
    ELSE Read(FlattenSeq([i \in DOMAIN blocks |-> blocks[i].data]))
Decode(text) == Joined([i \in DOMAIN Blocks(text, FullChars) |->
                    DecodeBlock(Blocks(text, FullChars)[i])])

Checksum(payload) == <<FoldLeft(LAMBDA n, d : ((n * 3) + d + 1) % ByteBase, 5, payload)>>
Checked(payload) == payload \o Checksum(payload)
EncodeAddress(tag, data) == Encode(Checked(EncodeVarint(tag) \o data))

\* The checksum is the last byte, and something comes before it.
Unchecked(bytes) ==
    IF Len(bytes) <= 1 \/ bytes # Checked(Front(bytes)) THEN Unread
    ELSE DecodeVarint(Front(bytes))
DecodeAddress(decoded) == IF decoded.ok THEN Unchecked(decoded.data) ELSE Unread

-----------------------------------------------------------------------------
(* Addresses. *)

NoId == <<>>
Parts(network, format, type, spend, view, id) ==
    [network |-> network, format |-> format, type |-> type,
     spend |-> spend, view |-> view, id |-> id]
Invalid == Parts("none", "none", "none", 0, 0, NoId)

KeyFrom(bytes) == FromDigits(bytes, ByteBase)
DataOf(parts) ==
    ToDigits(parts.spend, ByteBase, KeyBytes) \o ToDigits(parts.view, ByteBase, KeyBytes)
        \o (IF parts.type = "integrated" THEN parts.id ELSE NoId)
CreateAddress(parts) ==
    EncodeAddress(PREFIXES[<<parts.network, parts.format, parts.type>>], DataOf(parts))

DataSize(type) == (2 * KeyBytes) + (IF type = "integrated" THEN IdBytes ELSE 0)
FromData(place, data) ==
    IF Len(data) # DataSize(place[3]) THEN Invalid
    ELSE Parts(place[1], place[2], place[3],
               KeyFrom(SubSeq(data, 1, KeyBytes)), KeyFrom(SubSeq(data, KeyBytes + 1, 2 * KeyBytes)),
               SubSeq(data, 2 * KeyBytes + 1, Len(data)))
FromPrefix(decoded) ==
    LET places == {p \in DOMAIN PREFIXES : PREFIXES[p] = decoded.data[1]}
    IN IF ~decoded.ok THEN Invalid
       ELSE IF places = {} THEN Invalid
       ELSE FromData(CHOOSE p \in places : TRUE, decoded.data[2])
ParseAddress(text) ==
    IF Len(text) \notin Lengths THEN Invalid ELSE FromPrefix(DecodeAddress(Decode(text)))

-----------------------------------------------------------------------------
(* Keys. *)

\* A hash of what it is given, as a scalar.
HashToScalar(domain, args) ==
    FoldLeft(LAMBDA n, x : ((n * 17) + x + 3) % Order, domain, args)
Index(n) == n % IndexBase
T == 5      \* the second generator

\* deriveKeys and deriveCarrotKeys, both from the seed.
KeysOf(seed) ==
    LET spend == FromDigits(seed, ByteBase) % Order
        balance == HashToScalar(2, seed)
        carrot == HashToScalar(3, <<balance>>) + (T * HashToScalar(4, seed))
    IN [spend |-> spend, view |-> HashToScalar(1, <<spend>>), carrotSpend |-> carrot % Order,
        incoming |-> HashToScalar(5, <<balance>>), secret |-> HashToScalar(6, <<balance>>)]

\* cnSubaddress: spend and view key of an index.
CnSubaddress(keys, major, minor) ==
    LET spend == (keys.spend
                    + HashToScalar(7, <<keys.view, Index(major), Index(minor)>>)) % Order
    IN IF major = 0 /\ minor = 0 THEN <<keys.spend, keys.view>>
       ELSE <<spend, (keys.view * spend) % Order>>

SubaddressScalar(keys, major, minor) ==
    HashToScalar(9, <<keys.carrotSpend, Index(major), Index(minor),
                      HashToScalar(8, <<keys.secret, Index(major), Index(minor)>>)>>)

\* carrotSubaddress: at (0, 0) the view key is the one for deriving subaddresses
\* and not the one that getCarrotAddress puts in the address.
CarrotSubaddress(keys, major, minor) ==
    LET scalar == IF major = 0 /\ minor = 0 THEN 1 ELSE SubaddressScalar(keys, major, minor)
    IN <<(scalar * keys.carrotSpend) % Order,
         (scalar * ((keys.incoming * keys.carrotSpend) % Order)) % Order>>

\* generateSubaddressMaps: the spend keys that a scan looks for.
CnMaps == [seed \in Seeds |->
    {CnSubaddress(KeysOf(seed), j, n)[1] : j \in 0 .. Lookahead, n \in 0 .. Lookahead}]
CarrotMaps == [seed \in Seeds |->
    {CarrotSubaddress(KeysOf(seed), j, n)[1] : j \in 0 .. Lookahead, n \in 0 .. Lookahead}]

\* generateOutputKeys, computeCarrotEphemeralPubkey: the payer multiplies what the
\* owner is to multiply by a view key, and the view key of the address.
Paying(parts, nonce) ==
    [public |-> (nonce * (IF parts.type = "subaddress" THEN parts.spend ELSE 1)) % Order,
     secret |-> (nonce * parts.view) % Order, spend |-> parts.spend]

\* The owner finds what is paid to a key of its maps with a secret it can make.
Finds(seed, keys, paid) ==
    \/ paid.spend \in CnMaps[seed] /\ (keys.view * paid.public) % Order = paid.secret
    \/ paid.spend \in CarrotMaps[seed] /\ (keys.incoming * paid.public) % Order = paid.secret

-----------------------------------------------------------------------------
(* The addresses that a wallet makes, and what is made of them. *)

KeysForFormat(keys, format) ==
    IF format = "carrot" THEN <<keys.carrotSpend, keys.incoming>> ELSE <<keys.spend, keys.view>>

GetAddress(keys, network, format) ==
    Parts(network, format, "standard", KeysForFormat(keys, format)[1],
          KeysForFormat(keys, format)[2], NoId)

GetIntegratedAddress(keys, network, format, id) ==
    [GetAddress(keys, network, format) EXCEPT !.type = "integrated", !.id = id]

GenerateCNSubaddress(keys, network, major, minor) ==
    Parts(network, "legacy", "subaddress", CnSubaddress(keys, major, minor)[1],
          CnSubaddress(keys, major, minor)[2], NoId)

\* getSubaddress: what is asked for (0, 0) is the main address.
WalletSubaddress(keys, network, format, major, minor) ==
    IF major = 0 /\ minor = 0 THEN GetAddress(keys, network, format)
    ELSE GenerateCNSubaddress(keys, network, major, minor)

GenerateCarrotSubaddress(keys, network, major, minor) ==
    Parts(network, "carrot", IF major = 0 /\ minor = 0 THEN "standard" ELSE "subaddress",
          CarrotSubaddress(keys, major, minor)[1], CarrotSubaddress(keys, major, minor)[2], NoId)

Formats == {"legacy", "carrot"}
Made(keys, network) ==
    UNION {{GetAddress(keys, network, f) : f \in Formats},
           {GetIntegratedAddress(keys, network, f, id) : f \in Formats, id \in Ids},
           {WalletSubaddress(keys, network, "legacy", j, n) : j \in Indices, n \in Indices},
           {GenerateCNSubaddress(keys, network, j, n) : j \in Indices, n \in Indices \ {0}},
           {GenerateCarrotSubaddress(keys, network, j, n) : j \in Indices, n \in Indices \ {0}}}

ToIntegratedAddress(parts, id) == [parts EXCEPT !.type = "integrated", !.id = id]
ToStandardAddress(parts) == [parts EXCEPT !.type = "standard", !.id = NoId]

Card(seed, parts) == [kind |-> "card", seed |-> seed, means |-> parts,
                      text |-> CreateAddress(parts)]

MakeAddress ==
    /\ desk.kind = "owner"
    /\ \E network \in Networks : \E parts \in Made(KeysOf(desk.seed), network) :
          desk' = Card(desk.seed, parts)

\* The conversions start from what they read.
ConvertAddress ==
    /\ desk.kind = "card"
    /\ \E parts \in {ParseAddress(desk.text)} :
          \/ /\ parts.type = "standard"
             /\ \E id \in Ids : desk' = Card(desk.seed, ToIntegratedAddress(parts, id))
          \/ /\ parts.type = "integrated"
             /\ desk' = Card(desk.seed, ToStandardAddress(parts))

-----------------------------------------------------------------------------
(* Words for a seed: three for each group of bytes, and one to check them. *)

ListSize == Len(Languages[1])

ToWords(value) ==
    LET word1 == value % ListSize
        word2 == ((value \div ListSize) + word1) % ListSize
    IN <<word1, word2, ((value \div ListSize ^ 2) + word2) % ListSize>>

\* A number of three words may be too large for its bytes: they keep the low part.
FromWords(w) ==
    w[1] + (ListSize * (((ListSize - w[1]) + w[2]) % ListSize))
         + (ListSize ^ 2 * (((ListSize - w[2]) + w[3]) % ListSize))

GroupValue(bytes) == FromDigits(Reverse(bytes), ByteBase)
GroupData(value) == Reverse(ToDigits(value, ByteBase, GroupBytes))

ChecksumWord(words) ==
    words[1 + FoldLeft(LAMBDA n, w : ((n * 7) + w) % Len(words), 0, words)]
WithChecksum(words) == Append(words, ChecksumWord(words))

SeedToMnemonic(seed, list) ==
    WithChecksum(FlattenSeq([i \in DOMAIN Blocks(seed, GroupBytes) |->
        LET w == ToWords(GroupValue(Blocks(seed, GroupBytes)[i]))
        IN [j \in 1 .. 3 |-> list[w[j] + 1]]]))

WordIndex(list, word) == (CHOOSE i \in 1 .. Len(list) : list[i] = word) - 1
FromIndices(indices) == FlattenSeq([i \in DOMAIN Blocks(indices, 3) |->
    GroupData(FromWords(Blocks(indices, 3)[i]))])
MnemonicToSeed(phrase, list) ==
    IF \/ ~(ToSet(phrase) \subseteq ToSet(list))
       \/ phrase # WithChecksum(Front(phrase)) THEN Unread
    ELSE Read(FromIndices([i \in 1 .. Len(phrase) - 1 |-> WordIndex(list, phrase[i])]))

\* detectLanguage: of the lists that have the first word the one that has most
\* of the first five, and of those the first in the registry.
Matches(list, phrase) ==
    {i \in 1 .. Smaller(Len(phrase), 5) : phrase[i] \in ToSet(list)}
DetectLanguage(phrase) ==
    LET candidates == {l \in DOMAIN Languages : phrase[1] \in ToSet(Languages[l])}
        best == {l \in candidates : \A m \in candidates :
                    Cardinality(Matches(Languages[m], phrase))
                        <= Cardinality(Matches(Languages[l], phrase))}
    IN CHOOSE l \in best : \A m \in best : l <= m

WriteSeed ==
    /\ desk.kind = "seed"
    /\ \E l \in DOMAIN Languages : desk' = [desk EXCEPT !.kind = "words", !.list = l,
                            !.phrase = SeedToMnemonic(desk.seed, Languages[l])]

\* The owner reads one word as another of the same list.
MisreadWord ==
    /\ desk.kind = "words"
    /\ \E i \in DOMAIN desk.phrase, word \in ToSet(Languages[desk.list]) :
          /\ word # desk.phrase[i]
          /\ desk' = [desk EXCEPT !.kind = "misread", !.phrase[i] = word]

AddressInit == desk \in
    {[kind |-> "owner", seed |-> s] : s \in Seeds}
    \union {[kind |-> "seed", seed |-> s, phrase |-> <<>>, list |-> 0] : s \in Seeds}
    \union {[kind |-> "text", text |-> t] : t \in Texts}

AddressNext == MakeAddress \/ ConvertAddress \/ WriteSeed \/ MisreadWord

-----------------------------------------------------------------------------
AddressTypeOK == desk.kind \in {"owner", "card", "seed", "words", "misread", "text"}

\* An address is read as what it was made of, through every conversion.
ReadsBack == desk.kind = "card" => ParseAddress(desk.text) = desk.means

\* What is paid to an address, as the payer reads it, its owner finds.
PaymentsArrive == desk.kind = "card" =>
    \A nonce \in 1 .. Order - 1 : Finds(desk.seed, KeysOf(desk.seed), Paying(ParseAddress(desk.text), nonce))

\* Bytes have one text, but for full blocks whose number does not fit.
TextsAgree == desk.kind = "text" /\ Decode(desk.text).ok =>
    LET again == Blocks(Encode(Decode(desk.text).data), FullChars)
        given == Blocks(desk.text, FullChars)
    IN /\ Len(again) = Len(given)
       /\ \A i \in DOMAIN given :
            \/ again[i] = given[i]
            \/ /\ Len(given[i]) = FullChars
               /\ FromDigits(given[i], Alphabet) >= ByteBase ^ FullBytes

\* The words give the seed back.  Without the language they do if one of the
\* first five is in no other list.
SeedComesBack == desk.kind = "words" =>
    LET own == Languages[desk.list]
        others == UNION {ToSet(Languages[l]) : l \in DOMAIN Languages \ {desk.list}}
    IN /\ MnemonicToSeed(desk.phrase, own) = Read(desk.seed)
       /\ \/ {desk.phrase[i] : i \in 1 .. Smaller(5, Len(desk.phrase))} \subseteq others
          \/ DetectLanguage(desk.phrase) = desk.list

\* Words that are read as a seed other than the one that they were written for
\* are not the words of that seed, but where their number is too large.
MisreadShows == desk.kind = "misread" =>
    LET got == MnemonicToSeed(desk.phrase, Languages[desk.list])
        list == Languages[desk.list]
    IN ~got.ok \/ SeedToMnemonic(got.data, list) = desk.phrase \/
         \E i \in 1 .. (Len(desk.phrase) - 1) \div 3 :
            FromWords([j \in 1 .. 3 |-> WordIndex(list, desk.phrase[3 * (i - 1) + j])])
                >= ByteBase ^ GroupBytes

AddressesHold == ReadsBack /\ PaymentsArrive /\ TextsAgree /\ SeedComesBack /\ MisreadShows
=============================================================================
