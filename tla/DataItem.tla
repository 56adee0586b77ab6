------------------------------ MODULE DataItem -------------------------------
(***************************************************************************)
(* The bytes that are uploaded: buildTags() of packages/anchor/src/tags.ts,*)
(* encodeAvroTags() of avro.ts, and buildSignedDataItem() and              *)
(* txIdFromDataItem() of dataitem.ts; and, external, how a reader takes    *)
(* ANS-104 items and Avro arrays apart.  Texts are told apart by one byte  *)
(* that fills them, a signature and a hash by what they were made from;    *)
(* <<>> stands for a thrown error.                                         *)
(***************************************************************************)
EXTENDS Naturals, Sequences, SequencesExt

Refused == <<>>

Text(n, byte) == [i \in 1 .. n |-> byte]

(* What is left of n after each of so many divisions *)
Shifted(n, base, times) ==
  LET left[i \in 0 .. times] == IF i = 0 THEN n ELSE left[i - 1] \div base IN left

(* The widths each signature type gives the fields: 1 is Arweave's, 2 Solana's *)
SigConfig == <<[sigLength |-> 512, ownerLength |-> 512], [sigLength |-> 64, ownerLength |-> 32]>>

-----------------------------------------------------------------------------
(* buildTags()                                                             *)

Sha256Hex(text) == Text(64, text[1])

TagName == [contentType |-> Text(12, 1), appName |-> Text(8, 2), appVersion |-> Text(11, 3),
            environment |-> Text(11, 4), scope |-> Text(5, 5), contentHash |-> Text(12, 6)]

Tag(name, value) == [name |-> TagName[name], value |-> value]

Fixed == <<Tag("contentType", Text(16, 7)), Tag("appName", Text(11, 8)), Tag("appVersion", Text(14, 9))>>

(* An option that is not given is the empty set, else the set of its value *)
IsOption(option) == option \subseteq Seq(Nat) /\ \A v, w \in option : v = w

Optional(name, option) == SetToSeq({Tag(name, v) : v \in option})

BuildTags(environment, scope, contentHash) ==
  IF <<>> \in scope THEN Refused
  ELSE Fixed \o <<Tag("environment", environment)>>
         \o Optional("scope", {Sha256Hex(s) : s \in scope}) \o Optional("contentHash", contentHash)

-----------------------------------------------------------------------------
(* encodeAvroTags()                                                        *)

(* Seven bits a byte, the lowest first, and a bit that says that more follow *)
Groups(u) ==
  LET left == Shifted(u, 128, u)
      more == CHOOSE m \in 0 .. u : left[m] < 128 /\ \A i \in 0 .. m - 1 : left[i] >= 128
  IN [i \in 1 .. more + 1 |-> IF i <= more THEN 128 + (left[i - 1] % 128) ELSE left[i - 1]]

(* Zigzag encoding doubles what is not negative *)
VarintLong(n) == Groups(2 * n)

AvroString(s) == VarintLong(Len(s)) \o s

EncodeAvroTags(tags) ==
  IF tags = <<>> THEN <<0>>
  ELSE IF Len(tags) > 127 THEN Refused
  ELSE VarintLong(Len(tags))
         \o FlattenSeq([n \in DOMAIN tags |-> AvroString(tags[n].name) \o AvroString(tags[n].value)])
         \o VarintLong(0)

-----------------------------------------------------------------------------
(* buildSignedDataItem()                                                   *)

(* n has no digits beyond the width *)
Fits(n, width) == Shifted(n, 256, width)[width] = 0

LittleEndian(n, width) == [i \in 1 .. width |-> Shifted(n, 256, width)[i - 1] % 256]

(* mutant: the deep hash takes the signature type as the wire has it *)
BugSigTypeText(sigType) == LittleEndian(sigType, 2)

(* The signature type as the deep hash has it: its decimal digit *)
SigTypeText(sigType) == <<48 + sigType>>

(* A hash of hashes: two of them are equal when all that they cover is *)
DeepHash(sigType, owner, avroTags, data) ==
  <<Text(8, 10), <<49>>, SigTypeText(sigType), owner, <<>>, <<>>, avroTags, data>>

(* The first byte of a signature tells who signed what; a wallet may answer *)
(* with fewer bytes than its type has                                       *)
Sign(wallet, deepHash) ==
  [i \in 1 .. wallet.signs |-> IF i = 1 THEN [key |-> wallet.owner, signed |-> deepHash] ELSE i]

ConfigSupported(wallet) ==
  /\ wallet.sigType \in DOMAIN SigConfig
  /\ SigConfig[wallet.sigType] = [sigLength |-> wallet.sigLength, ownerLength |-> wallet.ownerLength]

BuildSignedDataItem(wallet, data, tags) ==
  LET avroTags == EncodeAvroTags(tags)
      signature == Sign(wallet, DeepHash(wallet.sigType, wallet.owner, avroTags, data))
  IN IF \/ data = <<>> \/ ~ConfigSupported(wallet) \/ avroTags = Refused
        \/ Len(wallet.owner) # wallet.ownerLength \/ Len(signature) # wallet.sigLength
     THEN Refused
     ELSE LittleEndian(wallet.sigType, 2) \o signature \o wallet.owner \o <<0, 0>>
            \o LittleEndian(Len(tags), 8) \o LittleEndian(Len(avroTags), 8) \o avroTags \o data

(* The id is the hash of the signature *)
TxIdFromDataItem(item) ==
  LET sigType == item[1] + 256 * item[2]
  IN SubSeq(item, 3, 2 + SigConfig[sigType].sigLength)

-----------------------------------------------------------------------------
(* How a reader takes an item apart (external)                             *)

(* The number with these digits, the lowest first, from the last on *)
Number(digits, base) ==
  LET last[n \in 0 .. Len(digits)] ==
        IF n = 0 THEN 0 ELSE digits[Len(digits) + 1 - n] + base * last[n - 1]
  IN last[Len(digits)]

(* An Avro long runs to the first byte without the continuation bit *)
LongEnd(bytes, p) ==
  CHOOSE q \in p .. Len(bytes) : bytes[q] < 128 /\ \A r \in p .. q - 1 : bytes[r] >= 128

LongAt(bytes, p) ==
  Number([i \in 1 .. LongEnd(bytes, p) + 1 - p |-> bytes[p - 1 + i] % 128], 128) \div 2

StringEnd(bytes, p) == LongEnd(bytes, p) + LongAt(bytes, p)
StringAt(bytes, p) == SubSeq(bytes, LongEnd(bytes, p) + 1, StringEnd(bytes, p))

(* One block of pairs of strings *)
ReadTags(bytes) ==
  LET count == LongAt(bytes, 1)
      start[n \in 0 .. 2 * count] ==
        IF n = 0 THEN LongEnd(bytes, 1) + 1 ELSE StringEnd(bytes, start[n - 1]) + 1
  IN [n \in 1 .. count |-> [name |-> StringAt(bytes, start[2 * n - 2]),
                            value |-> StringAt(bytes, start[2 * n - 1])]]

ReadItem(item) ==
  LET sigType == Number(SubSeq(item, 1, 2), 256)
      ownerAt == 3 + SigConfig[sigType].sigLength
      countsAt == ownerAt + SigConfig[sigType].ownerLength + 2
      tagsAt == countsAt + 16
      dataAt == tagsAt + Number(SubSeq(item, countsAt + 8, tagsAt - 1), 256)
  IN [sigType |-> sigType,
      signature |-> SubSeq(item, 3, ownerAt - 1),
      owner |-> SubSeq(item, ownerAt, countsAt - 3),
      tagCount |-> Number(SubSeq(item, countsAt, countsAt + 7), 256),
      avroTags |-> SubSeq(item, tagsAt, dataAt - 1),
      tags |-> ReadTags(SubSeq(item, tagsAt, dataAt - 1)),
      data |-> SubSeq(item, dataAt, Len(item))]

(* The signature is the owner's, over the deep hash of what was read, with *)
(* the decimal signature type the format asks for                          *)
SignatureVerifies(read) ==
  read.signature[1] =
    [key |-> read.owner,
     signed |-> <<Text(8, 10), <<49>>, <<48 + read.sigType>>, read.owner, <<>>, <<>>,
                  read.avroTags, read.data>>]
=============================================================================
