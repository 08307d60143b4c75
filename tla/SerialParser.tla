----------------------------- MODULE SerialParser -----------------------------
(***************************************************************************)
(* The frames of the serial protocol: a start character, the length less   *)
(* one, the payload and a checksum.  create() makes one; the parser takes  *)
(* bytes as they come, cut anywhere, and goes on after noise and frames    *)
(* that are damaged; the handler takes each message that it completes.     *)
(***************************************************************************)
EXTENDS Integers, Sequences, SequencesExt

CONSTANTS
  kStartCharacter,  \* a byte; bytes are 0..kStartCharacter here
  limit,            \* longest message
  Payloads,         \* bound: messages sent
  MaxFrames, MaxNoise,  \* bound: frames sent, bytes of noise
  MaxCut            \* bound: bytes of one call of update()

ASSUME ParserAssumption ==
  /\ {kStartCharacter, limit, MaxFrames, MaxNoise, MaxCut} \subseteq Nat
  /\ Payloads \subseteq Seq(0..kStartCharacter)
  /\ \A p \in Payloads : Len(p) \in 1..limit
  /\ limit <= kStartCharacter + 1  \* the length less one is a byte

VARIABLES
  line,             \* bytes on their way
  parserState, messageLength, buffer,   \* messagePosition: the length of buffer
  input,            \* bytes of this update() that are left
  parsed,           \* messages processed
  stream,           \* history: all bytes taken
  clean,            \* history: frames sent before any noise
  framesMade, noise

parserVars == <<line, parserState, messageLength, buffer, input, parsed, stream, clean, framesMade,
                noise>>

Byte == 0..kStartCharacter

\* For the checksum over the payload (Crc8): the sum, one more for each byte.
Checksum8(p) ==
  LET sums[i \in 0..Len(p)] ==
        IF i = 0 THEN 0 ELSE (sums[i - 1] + p[i] + 1) % (kStartCharacter + 1)
  IN sums[Len(p)]

create(p) == <<kStartCharacter, Len(p) - 1>> \o p \o <<Checksum8(p)>>

-----------------------------------------------------------------------------
(* The line. *)

SendFrame(p) ==
  /\ framesMade < MaxFrames /\ framesMade' = framesMade + 1
  /\ line' = line \o create(p)
  /\ clean' = IF noise = 0 THEN Append(clean, p) ELSE clean
  /\ UNCHANGED <<parserState, messageLength, buffer, input, parsed, stream, noise>>

\* A byte from elsewhere, or a byte that is lost.
Disturb ==
  /\ noise < MaxNoise /\ noise' = noise + 1
  /\ \/ \E b \in Byte : line' = Append(line, b)
     \/ \E i \in 1..Len(line) : line' = RemoveAt(line, i)
  /\ clean' = <<>>
  /\ UNCHANGED <<parserState, messageLength, buffer, input, parsed, stream, framesMade>>

-----------------------------------------------------------------------------
(* SerialHandler::update and SerialParser::update. *)

finished == parserState \in {"DONE", "ERROR_CHECKSUM", "ERROR_LENGTH"}

\* The handler has taken the message of the last byte, if it was complete.
UpdateCalled(n) ==
  /\ input = <<>> /\ n <= Len(line)
  /\ input' = SubSeq(line, 1, n) /\ line' = SubSeq(line, n + 1, Len(line))
  /\ parserState' = IF finished THEN "IDLE" ELSE parserState
  /\ UNCHANGED <<messageLength, buffer, parsed, stream, clean, framesMade, noise>>

Goto(s) == parserState' = s

\* Slip: the position is that of the last message.
TakesLengthOnly(value) ==
  /\ messageLength' = value + 1 /\ UNCHANGED buffer
  /\ Goto(IF value + 1 <= limit THEN "PAYLOAD" ELSE "ERROR_LENGTH")

TakesLength(value) ==
  /\ messageLength' = value + 1
  /\ buffer' = IF value + 1 <= limit THEN <<>> ELSE buffer
  /\ Goto(IF value + 1 <= limit THEN "PAYLOAD" ELSE "ERROR_LENGTH")

TakesPayload(value) ==
  /\ buffer' = Append(buffer, value)
  /\ Goto(IF Len(buffer) + 1 >= messageLength THEN "CHECKSUM" ELSE "PAYLOAD")
  /\ UNCHANGED messageLength

TakesChecksum(value) ==
  /\ Goto(IF Checksum8(buffer) = value THEN "DONE" ELSE "ERROR_CHECKSUM")
  /\ UNCHANGED <<messageLength, buffer>>

\* One byte of the loop of the parser.
Parse ==
  /\ input # <<>> /\ ~finished
  /\ LET value == Head(input)
     IN \/ /\ parserState = "IDLE" /\ Goto(IF value = kStartCharacter THEN "LENGTH" ELSE "IDLE")
           /\ UNCHANGED <<messageLength, buffer>>
        \/ parserState = "LENGTH" /\ TakesLength(value)
        \/ parserState = "PAYLOAD" /\ TakesPayload(value)
        \/ parserState = "CHECKSUM" /\ TakesChecksum(value)
  /\ input' = Tail(input) /\ stream' = Append(stream, Head(input))
  /\ parsed' = IF parserState' = "DONE" THEN Append(parsed, buffer) ELSE parsed
  /\ UNCHANGED <<line, clean, framesMade, noise>>

\* The parser returned in the middle of the input, and is called again.
ParserCalledAgain ==
  /\ input # <<>> /\ finished /\ parserState' = "IDLE"
  /\ UNCHANGED <<line, messageLength, buffer, input, parsed, stream, clean, framesMade, noise>>

ParserInit ==
  /\ line = <<>> /\ parserState = "IDLE" /\ messageLength = 0 /\ buffer = <<>> /\ input = <<>>
  /\ parsed = <<>> /\ stream = <<>> /\ clean = <<>> /\ framesMade = 0 /\ noise = 0

ParserNext ==
  \/ \E p \in Payloads : SendFrame(p)
  \/ Disturb \/ Parse \/ ParserCalledAgain
  \/ \E n \in 1..MaxCut : UpdateCalled(n)

-----------------------------------------------------------------------------
\* The messages in a stream from each of its bytes on, read to its end.
FramesFrom(s) ==
  LET from[i \in 1..(Len(s) + 1)] ==
        IF i + 1 > Len(s) THEN <<>>
        ELSE IF s[i] # kStartCharacter THEN from[i + 1]
        ELSE LET n == s[i + 1] + 1  p == SubSeq(s, i + 2, i + n + 1)
             IN IF n > limit THEN from[i + 2]
                ELSE IF i + n + 2 > Len(s) THEN <<>>
                ELSE IF s[i + n + 2] = Checksum8(p) THEN <<p>> \o from[i + n + 3]
                ELSE from[i + n + 3]
  IN from

Frames(s) == FramesFrom(s)[1]

\* The messages processed are those of the stream, however it was cut into calls
\* and whatever came between frames; without noise they are those that were sent.
FramesSurviveCuts ==
  /\ parsed = Frames(stream)
  /\ noise = 0 => IsPrefix(parsed, clean) /\ (line = <<>> /\ input = <<>> => parsed = clean)
=============================================================================
