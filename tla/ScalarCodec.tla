----------------------------- MODULE ScalarCodec -----------------------------
(***************************************************************************)
(* Numbers in a payload: how libcanard spreads the payload of a transfer   *)
(* over the head, the blocks and the tail, and how it copies the bits of a *)
(* number out of them and into a packet.                                   *)
(*                                                                         *)
(* Bits are symbols, for nothing depends on what they are: bit m of byte b *)
(* (both from 0, m = 0 the most significant) of the payload is the number  *)
(* b * ByteBits + m.  A value is its bits, least significant first.  The   *)
(* machine is little endian, as the ones the program is built for.         *)
(***************************************************************************)
EXTENDS Integers, Sequences, SequencesExt

CONSTANTS
  ByteBits,      \* 8
  FirstBytes,    \* payload of a first frame, 5 after the checksum
  NextBytes,     \* payload of any other frame, 7
  HeadSize,      \* CANARD_MULTIFRAME_RX_PAYLOAD_HEAD_SIZE, 6
  BlockSize,     \* CANARD_BUFFER_BLOCK_DATA_SIZE, 28
  MaxPayload,    \* bound: bytes of a payload
  BitLengths     \* lengths of numbers that are tried

ASSUME CodecAssumption ==
  /\ {ByteBits, FirstBytes, NextBytes, HeadSize, BlockSize, MaxPayload} \subseteq Nat \ {0}
  /\ BitLengths \subseteq 1..(8 * ByteBits)
  /\ FirstBytes < HeadSize

VARIABLE number  \* the payload's length, where a number is in it, its length

codecVars == <<number>>

Least(a, b) == IF a <= b THEN a ELSE b
Greatest(a, b) == IF a >= b THEN a ELSE b
Garbage == -1
Zero    == -2

BitsOf(bytes) == FlattenSeq([i \in 1..Len(bytes) |->
                   [m \in 1..ByteBits |-> IF bytes[i] = Garbage THEN Garbage
                                          ELSE bytes[i] * ByteBits + m - 1]])

-----------------------------------------------------------------------------
(* Gathering: the bytes of a payload are numbered from 0. *)

NoBytes(n) == [i \in 1..n |-> Garbage]
Fresh == [len |-> 0, head |-> NoBytes(HeadSize), blocks |-> <<>>, tail |-> <<>>]

\* One byte put at an index of the last block, in a new block if that is full.
PutByte(at, byte) ==
  IF at.index < BlockSize
  THEN [blocks |-> [at.blocks EXCEPT ![Len(at.blocks)][at.index + 1] = byte],
        index |-> at.index + 1]
  ELSE [blocks |-> Append(at.blocks, [NoBytes(BlockSize) EXCEPT ![1] = byte]), index |-> 1]

InHead(st, n) == Least(n, Greatest(HeadSize - st.len, 0))
FillHead(st, n) ==
  [i \in 1..HeadSize |-> IF i > st.len /\ i <= st.len + n THEN i - 1 ELSE st.head[i]]

\* bufferBlockPushBytes: the head first, then the last block from where it ends; a
\* block is added when there is none or the last is full.
bufferBlockPushBytes(st, n) ==
  LET used  == InHead(st, n)
      index == (st.len - HeadSize) % BlockSize
      added == st.blocks = <<>> \/ index = 0
      start == [blocks |-> IF added THEN Append(st.blocks, NoBytes(BlockSize)) ELSE st.blocks,
                index  |-> IF added THEN 0 ELSE index]
      rest  == [i \in 1..(n - used) |-> st.len + used + i - 1]
  IN [st EXCEPT !.len = @ + n, !.head = FillHead(st, used),
                !.blocks = IF used = n THEN @ ELSE FoldLeft(PutByte, start, rest).blocks]

\* The last frame goes into what is left of the head or of the last block; the tail
\* is what of the frame is left then.
LastFrame(st, n) ==
  LET within == st.len - HeadSize - (Len(st.blocks) - 1) * BlockSize
      used   == IF st.len < HeadSize THEN InHead(st, n)
                ELSE IF st.blocks = <<>> THEN 0 ELSE Least(n, BlockSize - within)
      bytes  == [i \in 1..n |-> st.len + i - 1]
      begin  == [blocks |-> st.blocks, index |-> within]
  IN [st EXCEPT !.len = @ + n,
                !.head = IF st.len < HeadSize THEN FillHead(st, used) ELSE @,
                !.blocks = IF st.len < HeadSize \/ used = 0 THEN @
                           ELSE FoldLeft(PutByte, begin, SubSeq(bytes, 1, used)).blocks,
                !.tail = SubSeq(bytes, used + 1, n)]

\* A payload of p bytes as the nodes are given it: in one frame it is all head.
Transfer(p) ==
  IF p <= NextBytes THEN [Fresh EXCEPT !.len = p, !.head = [i \in 1..p |-> i - 1]]
  ELSE LET middle == (p - FirstBytes - 1) \div NextBytes
           first  == bufferBlockPushBytes(Fresh, FirstBytes)
           most   == FoldLeft(LAMBDA st, i : bufferBlockPushBytes(st, NextBytes), first,
                              [i \in 1..middle |-> i])
       IN LastFrame(most, p - most.len)

-----------------------------------------------------------------------------
(* Copying bits. *)

\* Slip: only the byte that is read ends a step of the copy.
StepOfSource(s, d, left) == Least(left, ByteBits - (s % ByteBits))

\* A step of the copy ends with the byte that is read or the one that is written.
StepOf(s, d, left) == Least(left, ByteBits - Greatest(s % ByteBits, d % ByteBits))

\* copyBitArray: as many steps as it takes; a byte loses what is shifted out of it.
copyBitArray(src, srcOffset, length, dst, dstOffset) ==
  LET last == srcOffset + length
      Step(at, i) ==
        IF at.s = last THEN at
        ELSE LET n == StepOf(at.s, at.d, last - at.s)
             IN [s |-> at.s + n, d |-> at.d + n,
                 dst |-> [j \in DOMAIN at.dst |->
                   IF j > at.d /\ j <= at.d + n
                      /\ (j - 1) \div ByteBits = at.d \div ByteBits
                   THEN src[at.s + j - at.d] ELSE at.dst[j]]]
  IN FoldLeft(Step, [s |-> srcOffset, d |-> dstOffset, dst |-> dst],
              [i \in 1..length |-> i]).dst

\* descatterTransferPayload: the head, the blocks that are reached, the tail.
descatterTransferPayload(tr, offset, length, output) ==
  LET inHead == IF offset < HeadSize * ByteBits
                THEN Least(length, HeadSize * ByteBits - offset) ELSE 0
      head == [in |-> offset + inHead, out |-> inHead, left |-> length - inHead,
               at |-> HeadSize * ByteBits, bits |-> (tr.len - HeadSize) * ByteBits,
               output |-> IF inHead = 0 THEN output
                          ELSE copyBitArray(BitsOf(tr.head), offset, inHead, output, 0)]
      Block(g, block) ==
        LET end    == g.at + Least(BlockSize * ByteBits, g.bits)
            amount == Least(g.left, end - g.in)
            past   == [g EXCEPT !.at = end, !.bits = @ - (end - g.at)]
        IN IF g.left = 0 THEN g
           ELSE IF end <= g.in THEN past
           ELSE [past EXCEPT !.in = @ + amount, !.out = @ + amount, !.left = @ - amount,
                   !.output = copyBitArray(BitsOf(block), g.in - g.at, amount, @, g.out)]
      middle == FoldLeft(Block, head, tr.blocks)
  IN IF tr.blocks = <<>> /\ tr.tail = <<>>
     THEN copyBitArray(BitsOf(tr.head), offset, length, output, 0)
     ELSE IF tr.tail = <<>> \/ middle.left = 0 THEN middle.output
     ELSE copyBitArray(BitsOf(tr.tail), middle.in - middle.at, middle.left,
                       middle.output, middle.out)

-----------------------------------------------------------------------------
(* Numbers. *)

StdBytes(length) ==
  CHOOSE n \in {1, 2, 4, 8} : /\ length <= n * ByteBits
                              /\ \A k \in {1, 2, 4, 8} : length <= k * ByteBits => n <= k

\* The last byte of a number holds its bits at the top on the bus, at the bottom in
\* memory: the byte shifted down, and up.
Shift(length) == IF length % ByteBits = 0 THEN 0 ELSE ByteBits - (length % ByteBits)
ShiftedDown(bits, length) ==
  [j \in DOMAIN bits |->
     IF (j - 1) \div ByteBits # length \div ByteBits THEN bits[j]
     ELSE IF ((j - 1) % ByteBits) < Shift(length) THEN Zero ELSE bits[j - Shift(length)]]
ShiftedUp(bits, length) ==
  [j \in DOMAIN bits |->
     IF (j - 1) \div ByteBits # length \div ByteBits THEN bits[j]
     ELSE IF ((j - 1) % ByteBits) + Shift(length) >= ByteBits THEN Zero
          ELSE bits[j + Shift(length)]]

\* A value's bits, least significant first, and its bytes in memory.
Mirror(j) == ((j - 1) \div ByteBits) * ByteBits + ByteBits - ((j - 1) % ByteBits)
Swapped(bits) == [j \in DOMAIN bits |-> bits[Mirror(j)]]

\* canardDecodeScalar, of a number that is in the payload as a whole.
canardDecodeScalar(tr, offset, length, signed) ==
  LET zeros  == [j \in 1..(8 * ByteBits) |-> Zero]
      stored == ShiftedDown(descatterTransferPayload(tr, offset, length, zeros), length)
      value  == SubSeq(Swapped(stored), 1, StdBytes(length) * ByteBits)
  IN [j \in DOMAIN value |-> IF signed /\ j > length THEN value[length] ELSE value[j]]

\* canardEncodeScalar; bits of the value above length are not sent.
canardEncodeScalar(destination, offset, length, value) ==
  copyBitArray(ShiftedUp(Swapped(value), length), 0, length, destination, offset)

-----------------------------------------------------------------------------
(* There is nothing but the choice of a number. *)

CodecInit ==
  number \in {n \in [payload : 1..MaxPayload, offset : 0..(MaxPayload * ByteBits),
                     length : BitLengths, signed : BOOLEAN] :
                /\ n.offset + n.length <= n.payload * ByteBits
                /\ (n.signed => n.length > 1)}

\* The number's bits where the payload has them, as the bus orders them.
BusOrder(length) == [i \in 1..length |->
  IF (i - 1) \div ByteBits = length \div ByteBits
  THEN ((i - 1) \div ByteBits) * ByteBits + (length % ByteBits) - ((i - 1) % ByteBits)
  ELSE Mirror(i)]

\* Wherever the frames have put its bytes, a number read from a payload is the one the
\* payload holds, extended by its sign, and one written into a packet is read back,
\* and touches no other bit.
ScalarsSurvive ==
  LET n     == number
      place == BusOrder(n.length)
      read  == canardDecodeScalar(Transfer(n.payload), n.offset, n.length, n.signed)
      plain == [j \in 1..(n.payload * ByteBits) |-> j - 1]
      value == [j \in 1..(StdBytes(n.length) * ByteBits) |-> 1000 + j]
      sent  == canardEncodeScalar(plain, n.offset, n.length, value)
  IN /\ \A i \in 1..n.length : read[place[i]] = n.offset + i - 1
     /\ \A j \in (n.length + 1)..Len(read) : read[j] = IF n.signed THEN read[n.length] ELSE Zero
     /\ \A i \in 1..n.length : sent[n.offset + i] = value[place[i]]
     /\ \A j \in 1..Len(sent) : j \notin (n.offset + 1)..(n.offset + n.length)
          => sent[j] = plain[j]
=============================================================================
