----------------------------- MODULE CanTransfer -----------------------------
(***************************************************************************)
(* Transfers over CAN frames: libcanard under UavCanHandler.  A sender     *)
(* cuts a transfer into frames and hands them to the driver; a receiver    *)
(* puts them together, with blocks of one small arena for the state of     *)
(* each kind of transfer, for the payload and for its own outgoing frames. *)
(*                                                                         *)
(* A kind is a transfer descriptor (data type, type, both addresses); its  *)
(* number is its CAN identifier, the lower the more urgent.  The mutex of  *)
(* the handler makes a step of what runs between lock and unlock; the      *)
(* reception callback runs unlocked.  The CRC is taken to be perfect.      *)
(***************************************************************************)
EXTENDS Integers, Sequences, FiniteSets, FiniteSetsExt, SequencesExt, Functions, TLC

CONSTANTS
  Kinds,         \* kinds of transfers, as numbers
  Sizes,         \* frames a transfer may have
  Tids,          \* transfer numbers on the bus, 32
  HeadBytes,     \* payload held by the reception state, 6
  BlockBytes,    \* payload held by a block, 28
  TxBlocks,      \* arena of the sender, in blocks
  RxBlocks,      \* arena of the receiver
  DriverSize,    \* room in the queue of the driver
  Timeout,       \* TRANSFER_TIMEOUT_USEC, in ticks
  ClockSpan,     \* values of an unsigned time, 2^64
  MaxTransfers,  \* bound: transfers and kinds in use, together
  MaxLosses,     \* bound: frames the bus loses
  MaxTicks       \* bound: ticks of the clock

ASSUME TransferAssumption ==
  /\ Kinds \subseteq Nat /\ Sizes \subseteq Nat \ {0}
  /\ {Tids, HeadBytes, BlockBytes, TxBlocks, RxBlocks, DriverSize} \subseteq Nat \ {0}
  /\ {Timeout, ClockSpan, MaxTransfers, MaxLosses, MaxTicks} \subseteq Nat
  /\ ClockSpan > Timeout + MaxTicks
  /\ IsFiniteSet(Kinds) /\ Tids > 2
  /\ HeadBytes >= 6 /\ HeadBytes < 12  \* what one frame carries and not what two do

VARIABLES
  sent,             \* history: sizes of the transfers of each kind, in order
  queue, txFree,    \* tx_queue of the sender, its free blocks
  wire,             \* frames in the driver and on the bus
  states, rxFree,   \* rx_states of the receiver, its free blocks
  call,             \* the callback that runs, unlocked
  sampled,          \* age of the time the timer thread has read, or NotRead
  held,             \* blocks of outgoing frames of the receiver
  upto, got,        \* history: last transfer received of each kind, its payload
  received,         \* history: transfers received
  mishaps, losses, ticks  \* history: what went wrong; bounds

txVars  == <<sent, queue, txFree>>
rxVars  == <<states, rxFree, call, held, sampled>>
history == <<upto, got, received>>
transferVars == <<txVars, wire, rxVars, history, mishaps, losses, ticks>>

Frame == [kind : Kinds, no : Nat \ {0}, index : Nat \ {0}, size : Sizes]
tid(f)    == f.no % Tids
first(f)  == f.index = 1
last(f)   == f.index = f.size
toggle(f) == (f.index - 1) % 2

\* The payload of transfer n of kind k, a piece in each frame.
Piece(f)      == <<f.no, f.index>>
Content(n, z) == [i \in 1..z |-> <<n, i>>]
Frames(k, n, z) == [i \in 1..z |-> [kind |-> k, no |-> n, index |-> i, size |-> z]]

NoState == [tid |-> 0, toggle |-> 0, payload |-> <<>>, calc |-> <<>>, crc |-> <<>>,
            blocks |-> 0, age |-> 0, seen |-> FALSE]
Idle == [kind |-> 0, blocks |-> 0, busy |-> FALSE]
NotRead == -1

-----------------------------------------------------------------------------
(* The sender. *)

isPriorityHigher(f, g) == f.kind > g.kind  \* as the code has it: g goes first

\* Slip: before its equals.
pushTxQueueFirst(q, f) ==
  LET later == {i \in 1..Len(q) : ~isPriorityHigher(f, q[i])}
  IN IF later = {} THEN Append(q, f)
     ELSE InsertAt(q, CHOOSE i \in later : \A j \in later : i <= j, f)

\* pushTxQueue: before the first frame that is less urgent, after its equals.
pushTxQueue(q, f) ==
  LET later == {i \in 1..Len(q) : isPriorityHigher(q[i], f)}
  IN IF later = {} THEN Append(q, f)
     ELSE InsertAt(q, CHOOSE i \in later : \A j \in later : i <= j, f)

\* The queue after the first i frames of a transfer.
Queued(k, n, z) ==
  LET q[i \in 0..z] == IF i = 0 THEN queue ELSE pushTxQueue(q[i - 1], Frames(k, n, z)[i])
  IN q

\* enqueueTxFrames: without a block left the frames queued so far stay queued.
enqueueTxFrames(k, n, z) ==
  LET fit == IF z <= txFree THEN z ELSE txFree
  IN /\ queue' = Queued(k, n, z)[fit]
     /\ txFree' = txFree - fit
     /\ mishaps' = IF fit < z THEN mishaps + 1 ELSE mishaps

Transfers == Cardinality(UNION {{k} \X (1..Len(sent[k])) : k \in Kinds})

\* canardBroadcast, canardRequestOrRespond: the number is used up in any case.
Transmit(k, z) ==
  /\ Transfers + Cardinality({k} \union {j \in Kinds : sent[j] # <<>>}) < MaxTransfers
  /\ sent' = [sent EXCEPT ![k] = Append(@, z)]
  /\ enqueueTxFrames(k, Len(sent[k]) + 1, z)
  /\ UNCHANGED <<wire, rxVars, history, losses, ticks>>

\* enqueuePackets: a frame the driver has no room for is popped all the same.
enqueuePackets ==
  /\ queue # <<>>
  /\ LET room == DriverSize - Len(wire)
         fit  == IF Len(queue) <= room THEN Len(queue) ELSE room
     IN /\ wire' = wire \o SubSeq(queue, 1, fit)
        /\ mishaps' = mishaps + Len(queue) - fit
  /\ queue' = <<>> /\ txFree' = txFree + Len(queue)
  /\ UNCHANGED <<sent, rxVars, history, losses, ticks>>

\* The bus: frames arrive in the order the driver got them, or do not.
FrameLost ==
  /\ losses < MaxLosses /\ losses' = losses + 1
  /\ \E i \in 1..Len(wire) : wire' = RemoveAt(wire, i)
  /\ mishaps' = mishaps + 1
  /\ UNCHANGED <<txVars, rxVars, history, ticks>>

-----------------------------------------------------------------------------
(* The receiver. *)

Known == DOMAIN states

\* The blocks of some kinds' states: one for the state, the others for payload.
Blocks(K) == UNION {{k} \X (0..states[k].blocks) : k \in K}

ForwardDistance(a, b) == (b - a) % Tids

\* Blocks for what k frames carry when more follow.
BlocksFor(k) ==
  LET bytes == 5 + 7 * (k - 1)
  IN IF bytes <= HeadBytes THEN 0
     ELSE (bytes - HeadBytes + BlockBytes - 1) \div BlockBytes

\* Slip: the number expected next is that of the transfer that ended.
prepareForNextTransferStay(s) == [s EXCEPT !.payload = <<>>, !.toggle = 0]

prepareForNextTransfer(s) ==
  [s EXCEPT !.tid = (@ + 1) % Tids, !.payload = <<>>, !.toggle = 0]

\* releaseStatePayload, the blocks themselves are counted by the caller.
Released(s) == [s EXCEPT !.payload = <<>>, !.blocks = 0]

\* Slip: off by one.
timedOutEarly(s) == s.age >= Timeout

timedOut(s) == s.age > Timeout

needRestart(s, f) ==
  \/ ~s.seen
  \/ timedOut(s)
  \/ first(f) /\ (ForwardDistance(s.tid, tid(f)) > 1 \/ s.blocks > 0)

\* The state the frame is handled in: a first frame makes one and starts the
\* checksum anew, a restart forgets what was gathered.
Found(f) == IF f.kind \in Known THEN states[f.kind] ELSE NoState
Opened(f) == IF first(f) THEN [Found(f) EXCEPT !.calc = <<>>] ELSE Found(f)
Started(f) ==
  LET s == Opened(f)
  IN IF needRestart(s, f)
     THEN [Released(s) EXCEPT !.tid = IF first(f) THEN tid(f) ELSE (tid(f) + 1) % Tids,
                              !.toggle = 0]
     ELSE s

\* Slip: a restart loses the blocks of what was gathered.
LeftLeaky(f) == rxFree - (IF f.kind \in Known THEN 0 ELSE 1)

\* What is left of the arena once the state is there and restarted.
Left(f) ==
  rxFree - (IF f.kind \in Known THEN 0 ELSE 1)
         + (IF needRestart(Opened(f), f) THEN Opened(f).blocks ELSE 0)

Keep(f, s, free) ==
  /\ states' = [k \in Known \union {f.kind} |-> IF k = f.kind THEN s ELSE states[k]]
  /\ rxFree' = free

\* A frame with which nothing can be begun: no state for it, none to be had,
\* or one that expects another frame.
Ignored(f) ==
  /\ f.kind \notin Known /\ (first(f) => rxFree = 0)
  /\ mishaps' = IF first(f) THEN mishaps + 1 ELSE mishaps
  /\ UNCHANGED <<states, rxFree, call, upto, got, received>>

Handled(f) == f.kind \in Known \/ (first(f) /\ rxFree > 0)

Refused(f) ==
  LET s == Started(f)
  IN /\ Handled(f)
     /\ \/ ~first(f) /\ needRestart(Opened(f), f)
        \/ ~(first(f) /\ last(f)) /\ (toggle(f) # s.toggle \/ tid(f) # s.tid)
     /\ Keep(f, s, Left(f))
     /\ mishaps' = IF timedOut(Opened(f)) THEN mishaps + 1 ELSE mishaps
     /\ UNCHANGED <<call, upto, got, received>>

\* The transfer goes to the nodes with its blocks; the mutex is released.
Deliver(f, n, payload, blocks) ==
  /\ upto' = [upto EXCEPT ![f.kind] = n]
  /\ got' = [got EXCEPT ![f.kind] = payload]
  /\ received' = received + 1
  /\ call' = [kind |-> f.kind, blocks |-> blocks, busy |-> TRUE]
  /\ UNCHANGED mishaps

SingleFrame(f) ==
  /\ Handled(f) /\ first(f) /\ last(f)
  /\ Keep(f, [Started(f) EXCEPT !.seen = TRUE, !.age = 0], Left(f))
  /\ Deliver(f, f.no, <<Piece(f)>>, 0)

\* A first or middle frame is put into the head of the state and into blocks.
\* Without a block the transfer is given up.
Gathered(f) ==
  LET s    == Started(f)
      some == [s EXCEPT !.payload = Append(@, Piece(f)), !.calc = Append(@, Piece(f)),
                        !.crc = IF first(f) THEN <<f.no, f.size>> ELSE @,
                        !.seen = TRUE, !.age = IF first(f) THEN 0 ELSE @,
                        !.blocks = BlocksFor(Len(s.payload) + 1), !.toggle = 1 - @]
      need == some.blocks - s.blocks
  IN /\ Handled(f) /\ ~last(f) /\ (first(f) \/ ~needRestart(Opened(f), f))
     /\ toggle(f) = s.toggle /\ tid(f) = s.tid
     /\ IF need <= Left(f)
        THEN Keep(f, some, Left(f) - need) /\ UNCHANGED mishaps
        ELSE /\ Keep(f, prepareForNextTransfer([Released(s) EXCEPT
                          !.seen = TRUE, !.age = IF first(f) THEN 0 ELSE @]),
                     Left(f) + s.blocks)
             /\ mishaps' = mishaps + 1
     /\ UNCHANGED <<call, upto, got, received>>

\* The last frame: the checksum of everything since the last start is compared
\* with the one the first frame brought.
Completed(f) ==
  LET s    == Started(f)
      calc == Append(s.calc, Piece(f))
      over == [s EXCEPT !.calc = calc, !.blocks = 0]
  IN /\ Handled(f) /\ ~first(f) /\ last(f) /\ ~needRestart(Opened(f), f)
     /\ toggle(f) = s.toggle /\ tid(f) = s.tid
     /\ IF s.crc # <<>> /\ calc = Content(s.crc[1], s.crc[2])
        THEN /\ Keep(f, over, rxFree)
             /\ Deliver(f, s.crc[1], Append(s.payload, Piece(f)), s.blocks)
        ELSE /\ Keep(f, prepareForNextTransfer(over), rxFree + s.blocks)
             /\ UNCHANGED <<call, upto, got, received, mishaps>>

canardHandleRxFrame(f) ==
  Ignored(f) \/ Refused(f) \/ SingleFrame(f) \/ Gathered(f) \/ Completed(f)

ReceiveFrame ==
  /\ ~call.busy /\ wire # <<>> /\ wire' = Tail(wire)
  /\ canardHandleRxFrame(Head(wire))
  /\ UNCHANGED <<txVars, held, sampled, losses, ticks>>

\* The callback returns: the payload is released, the state made ready for the
\* next transfer.  If the state was freed meanwhile, the writes go to a block that
\* is free or carries an own frame; behind the link of the free list, they change
\* nothing that is modelled.
CallbackReturns ==
  /\ call.busy /\ call' = Idle
  /\ rxFree' = rxFree + call.blocks
  /\ states' = IF call.kind \in Known
               THEN [states EXCEPT ![call.kind] = prepareForNextTransfer(@)] ELSE states
  /\ UNCHANGED <<txVars, wire, held, sampled, history, mishaps, losses, ticks>>

\* The timer thread reads the clock, and cleans up with that time once it has the
\* mutex.
ReadClock ==
  /\ sampled = NotRead /\ sampled' = 0
  /\ UNCHANGED <<txVars, wire, states, rxFree, call, held, history, mishaps, losses, ticks>>

\* The time read less the time of the state, unsigned.
elapsed(s) == (s.age - sampled) % ClockSpan

\* canardCleanupStaleTransfers: a state without a time has the time 0.
Stale == {k \in Known : ~states[k].seen \/ elapsed(states[k]) > Timeout}
CleanupStaleTransfers ==
  /\ sampled # NotRead /\ sampled' = NotRead
  /\ states' = Restrict(states, Known \ Stale)
  /\ rxFree' = rxFree + Cardinality(Blocks(Stale))
  /\ mishaps' = mishaps + Cardinality({k \in Stale : states[k].payload # <<>>})
  /\ UNCHANGED <<txVars, wire, call, held, upto, got, received, losses, ticks>>

\* The receiver sends as well: a block for a frame, until the driver has it.
OwnFrame ==
  /\ \/ rxFree > 0 /\ held = 0 /\ held' = 1 /\ rxFree' = rxFree - 1
     \/ held = 1 /\ held' = 0 /\ rxFree' = rxFree + 1
  /\ UNCHANGED <<txVars, wire, states, call, sampled, history, mishaps, losses, ticks>>

Tick ==
  /\ ticks < MaxTicks /\ ticks' = ticks + 1
  /\ states' = [k \in Known |-> [states[k] EXCEPT !.age = @ + 1]]
  /\ sampled' = IF sampled = NotRead THEN NotRead ELSE sampled + 1
  /\ UNCHANGED <<txVars, wire, rxFree, call, held, history, mishaps, losses>>

TransferInit ==
  /\ sent = [k \in Kinds |-> <<>>] /\ queue = <<>> /\ txFree = TxBlocks
  /\ wire = <<>>
  /\ states = <<>> /\ rxFree = RxBlocks /\ call = Idle /\ held = 0 /\ sampled = NotRead
  /\ upto = [k \in Kinds |-> 0] /\ got = [k \in Kinds |-> <<>>] /\ received = 0
  /\ mishaps = 0 /\ losses = 0 /\ ticks = 0

TransferNext ==
  \/ \E k \in Kinds, z \in Sizes : Transmit(k, z)
  \/ enqueuePackets \/ FrameLost
  \/ ReceiveFrame \/ CallbackReturns \/ OwnFrame
  \/ ReadClock \/ CleanupStaleTransfers \/ Tick

TransferSpec == TransferInit /\ [][TransferNext]_transferVars

-----------------------------------------------------------------------------
\* Blocks of both arenas are never lost or freed twice, on whatever path a
\* transfer ends: delivered, refused, restarted, timed out, or without a block.
PoolIsWhole ==
  /\ rxFree + held + call.blocks + Cardinality(Blocks(Known)) = RxBlocks
  /\ txFree + Len(queue) = TxBlocks

\* A lost frame costs the transfer it belonged to and at most one more, whose
\* first frame met the state the loss left: the line comes back by itself.
LossIsLocal ==
  queue = <<>> /\ wire = <<>> /\ ~call.busy => Transfers - received <= 2 * mishaps

\* What canard.h:410 says of the clean-up, that it removes the states last updated
\* more than the timeout ago: the state of a transfer that has just come is still
\* there when its callback returns, though that runs unlocked and the timer thread
\* frees stale ones meanwhile.
StateOutlivesCallback ==
  [][call.busy /\ call.kind \in Known \ Known' => timedOut(states[call.kind])]_transferVars

\* What is on its way on each line, lost or not.
Pending ==
  [k \in Kinds |->
     [i \in 1..(Len(sent[k]) - upto[k]) |-> Content(upto[k] + i, sent[k][upto[k] + i])]]

Bursts == {<<Content(n, z)>> : n \in 1..MaxTransfers, z \in Sizes}

Channel == INSTANCE LossyFifo WITH Line <- Kinds, Burst <- Bursts, pending <- Pending

\* Each kind of transfer is a line that may lose transfers, but what arrives is
\* whole, in order and only once, however frames interleave, are lost or late and
\* numbers wrap around.
ImplementsLossyFifo == Channel!Spec
=============================================================================
