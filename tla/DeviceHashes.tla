----------------------------- MODULE DeviceHashes -----------------------------
(***************************************************************************)
(* The hash by which a device is told from others: a checksum runs over    *)
(* its name, over the names and the types of its fields, and over the      *)
(* identifier of its processor, whose words it replaces one by one.  The   *)
(* checksum is taken to be injective: its value is the list of what it was *)
(* fed.                                                                    *)
(***************************************************************************)
EXTENDS Integers, Sequences

CONSTANTS
  HashSize,   \* bytes of a hash
  WordSize,   \* bytes of the checksum
  Makes       \* devices: names, fields and identifiers

\* Names are strings that end with a zero; a field has at least one element.
Names  == Seq(Nat \ {0})
Fields == [name : Names, type : Nat, dimension : Nat \ {0}, scale : Nat]

ASSUME HashAssumption ==
  /\ HashSize \in Nat /\ WordSize \in Nat \ {0} /\ HashSize >= 6 /\ HashSize % WordSize = 0
  /\ Makes \subseteq [name : Names, fields : Seq(Fields), uid : Seq(Nat)]

VARIABLES
  device,   \* of each of two boards
  how,      \* the function that both call
  hash      \* of each board, or none

hashVars == <<device, how, hash>>

TwoBoards == 1..2
HashKinds == {"uid", "name", "device"}

Zeros(n)      == [i \in 1..n |-> 0]
Filled(bytes) == bytes \o Zeros(HashSize - Len(bytes))
update(seed, block) == Append(seed, block)

-----------------------------------------------------------------------------
\* A name in blocks of the size of a hash, the last one filled with zeros.
Chunks(bytes) == (Len(bytes) + HashSize - 1) \div HashSize

calcSeedFromName(seed, name) ==
  seed \o [c \in 1..Chunks(name) |->
             Filled(SubSeq(name, (c - 1) * HashSize + 1,
                           IF c * HashSize < Len(name) THEN c * HashSize ELSE Len(name)))]

\* Scalars of two bytes, the low one first.
calcSeedFromMeta(seed, field) ==
  update(seed, Filled(<<field.type, 0, field.dimension, 0, field.scale, 0>>))

SeedFromField(seed, field) == calcSeedFromMeta(calcSeedFromName(seed, field.name), field)

\* After each of the fields.
SeedsFromFields(seed, fields) ==
  LET seeds[k \in 0..Len(fields)] ==
        IF k = 0 THEN seed ELSE SeedFromField(seeds[k - 1], fields[k])
  IN seeds

\* The part of the identifier that a hash has room for, in words of the checksum.
UidBytes(d) == Filled(IF Len(d.uid) < HashSize THEN d.uid ELSE SubSeq(d.uid, 1, HashSize))
Words(d)    == [w \in 1..(HashSize \div WordSize) |->
                  SubSeq(UidBytes(d), (w - 1) * WordSize + 1, w * WordSize)]

makeHashFromUid(seed, d) ==
  [w \in 1..(HashSize \div WordSize) |-> seed \o SubSeq(Words(d), 1, w)]

makeDeviceHash(d)         == makeHashFromUid(<<>>, d)
makeDeviceHashFromName(d) == makeHashFromUid(calcSeedFromName(<<>>, d.name), d)
makeDeviceHashFromDevice(d) ==
  makeHashFromUid(SeedsFromFields(calcSeedFromName(<<>>, d.name), d.fields)[Len(d.fields)], d)

MakeHash(b) ==
  /\ hash[b] = <<>>
  /\ hash' = [hash EXCEPT ![b] = CASE how = "uid"    -> makeDeviceHash(device[b])
                                   [] how = "name"   -> makeDeviceHashFromName(device[b])
                                   [] how = "device" -> makeDeviceHashFromDevice(device[b])]
  /\ UNCHANGED <<device, how>>

HashInit ==
  /\ device \in [TwoBoards -> Makes] /\ how \in HashKinds
  /\ hash = [b \in TwoBoards |-> <<>>]

HashNext == \E b \in TwoBoards : MakeHash(b)

-----------------------------------------------------------------------------
\* What the function goes by.
GoneBy(d) == <<UidBytes(d), IF how = "uid" THEN <<>> ELSE d.name,
               IF how = "device" THEN d.fields ELSE <<>>>>

\* A name that fills its blocks runs into the name of the first field.
RunsOn(d) == how = "device" /\ d.fields # <<>> /\ Len(d.name) % HashSize = 0

\* Two boards that are alike in all that a hash is made from have the same one, and two
\* that are not have different ones, whatever the lengths of their names, but where the
\* name of a board runs on: neither does a field's name run into the next one, nor is a
\* field's type taken for a name.
HashesDiffer ==
  (\A b \in TwoBoards : hash[b] # <<>>) =>
    /\ GoneBy(device[1]) = GoneBy(device[2]) => hash[1] = hash[2]
    /\ hash[1] = hash[2] =>
         GoneBy(device[1]) = GoneBy(device[2]) \/ \E b \in TwoBoards : RunsOn(device[b])
=============================================================================
