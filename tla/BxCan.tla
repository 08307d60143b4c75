-------------------------------- MODULE BxCan --------------------------------
(***************************************************************************)
(* The driver of the CAN controller: frames wait in a queue for one of its *)
(* mailboxes, the mailboxes are refilled by the transmit interrupt, which  *)
(* gives up frames that fail while the controller is error passive.        *)
(*                                                                         *)
(* Frames are numbered in the order they are sent, on each direction.  The *)
(* driver masks an interrupt around all that it does in the thread: those  *)
(* are single steps, after which a mailbox that was done meanwhile shows.  *)
(***************************************************************************)
EXTENDS Integers, Sequences, FiniteSets, FiniteSetsExt

CONSTANTS
  Mailboxes,       \* of the controller
  FifoDepth,       \* frames it receives before one is overwritten
  CanRxSize, CanTxSize,   \* places of the queues
  MaxRxFrames, MaxTxFrames,  \* bound: frames of others, of the application
  MaxErrors        \* bound: attempts that fail

ASSUME BxCanAssumption ==
  /\ {Mailboxes, FifoDepth, CanRxSize, CanTxSize} \subseteq Nat \ {0}
  /\ {MaxRxFrames, MaxTxFrames, MaxErrors} \subseteq Nat

VARIABLES
  frames, received,    \* queues of frames to send, of those received
  fifo,                \* what the controller received
  box,                 \* the frame of each mailbox, 0: empty
  RQCP,                \* mailboxes whose request is complete
  TERR,                \* mailboxes whose last attempt failed
  EPVF,                \* the controller is error passive
  TMEIE,               \* an empty mailbox interrupts
  filled,              \* the handler: "off", or whether it filled a mailbox
  framesSaid, framesHeard,   \* the last frame of others, and read of them
  framesTaken, framesSent,   \* the last frame write() took, the bus carried
  errors

canTxSide == <<frames, box, RQCP, TERR, EPVF, TMEIE, filled, framesTaken, framesSent, errors>>
canRxSide == <<received, fifo, framesSaid, framesHeard>>
canVars   == <<canTxSide, canRxSide>>

Boxes == 1..Mailboxes

-----------------------------------------------------------------------------
(* The controller. *)

\* The mailboxes are served in the order of the requests (FIFO priority).
\* Slip: the lowest mailbox goes first.
nextBoxByNumber == CHOOSE b \in Boxes : box[b] # 0 /\ \A c \in Boxes : box[c] # 0 => b <= c

nextBox == CHOOSE b \in Boxes : box[b] # 0 /\ \A c \in Boxes : box[c] # 0 => box[b] <= box[c]

isTxPending   == \E b \in Boxes : box[b] # 0
isTxAvailable == \E b \in Boxes : box[b] = 0

BusCarries ==
  /\ isTxPending
  /\ framesSent' = box[nextBox]
  /\ box' = [box EXCEPT ![nextBox] = 0]
  /\ RQCP' = RQCP \union {nextBox} /\ TERR' = TERR \ {nextBox}
  /\ EPVF' \in {EPVF, FALSE}
  /\ UNCHANGED <<frames, TMEIE, filled, framesTaken, errors, canRxSide>>

BusFails ==
  /\ isTxPending /\ errors < MaxErrors /\ errors' = errors + 1
  /\ TERR' = TERR \union {nextBox}
  /\ EPVF' \in {EPVF, TRUE}
  /\ UNCHANGED <<frames, box, RQCP, TMEIE, filled, framesTaken, framesSent, canRxSide>>

\* The receive FIFO is not locked: a frame too many replaces the last one.
BusReceives ==
  /\ framesSaid < MaxRxFrames /\ framesSaid' = framesSaid + 1
  /\ fifo' = IF Len(fifo) < FifoDepth THEN Append(fifo, framesSaid + 1)
             ELSE [fifo EXCEPT ![FifoDepth] = framesSaid + 1]
  /\ UNCHANGED <<received, framesHeard, canTxSide>>

-----------------------------------------------------------------------------
(* The thread. *)

\* The frames go to the empty mailboxes, one after the other (fillTxQueue).
Fill(boxes, s) ==
  LET empty == {b \in Boxes : boxes[b] = 0}
  IN [b \in Boxes |->
        LET k == Cardinality({c \in empty : c <= b})
        IN IF b \in empty /\ k <= Len(s) THEN s[k] ELSE boxes[b]]

\* A request for transmission takes the flags of the mailbox back.
Refill(s) ==
  LET n == Min({Len(s), Cardinality({b \in Boxes : box[b] = 0})})
  IN /\ box' = Fill(box, s)
     /\ frames' = SubSeq(s, n + 1, Len(s))
     /\ RQCP' = {b \in RQCP : box'[b] = 0}
     /\ TERR' = {b \in TERR : box'[b] = box[b]}

\* write(): straight to the mailboxes if nothing waits, the rest to the queue.
WriteFrames(n) ==
  /\ filled = "off"
  /\ LET pending == isTxPending \/ frames # <<>>
         space   == CanTxSize - Len(frames) + (IF pending THEN 0 ELSE Mailboxes)
         taken   == Min({n, space})
         new     == [i \in 1..taken |-> framesTaken + i]
     IN /\ framesTaken' = framesTaken + taken
        /\ IF pending THEN frames' = frames \o new /\ UNCHANGED <<box, RQCP, TERR, TMEIE>>
           ELSE Refill(new) /\ TMEIE' = TRUE
  /\ UNCHANGED <<EPVF, filled, framesSent, errors, canRxSide>>

\* One turn of the loop of read().
ReadFrame ==
  /\ filled = "off" /\ received # <<>>
  /\ framesHeard' = Head(received) /\ received' = Tail(received)
  /\ UNCHANGED <<fifo, framesSaid, canTxSide>>

-----------------------------------------------------------------------------
(* The handlers. *)

\* A frame too many is lost.  Where both share a vector (F0) the handler of the
\* transmission follows, whether it has to do or not.
rxHandler ==
  /\ filled = "off" /\ fifo # <<>>
  /\ fifo' = Tail(fifo)
  /\ received' = IF Len(received) < CanRxSize THEN Append(received, Head(fifo)) ELSE received
  /\ filled' \in {"off", "entered"}
  /\ UNCHANGED <<framesSaid, framesHeard, frames, box, RQCP, TERR, EPVF, TMEIE, framesTaken,
                 framesSent, errors>>

\* clearFailedTx: the abort of a mailbox whose attempt failed.
Failed == IF EPVF THEN {b \in TERR : box[b] # 0} ELSE {}

\* What the handler does first; the flags of completion it leaves as they are, so
\* that it is entered again until every mailbox it could refill is done.
clearFailedTx ==
  /\ filled = "entered" \/ (filled = "off" /\ TMEIE /\ RQCP # {})
  /\ box' = [b \in Boxes |-> IF b \in Failed THEN 0 ELSE box[b]]
  /\ RQCP' = RQCP \union Failed
  /\ filled' = "cleared"
  /\ UNCHANGED <<frames, TERR, EPVF, TMEIE, framesTaken, framesSent, errors, canRxSide>>

txHandlerFills ==
  /\ filled = "cleared"
  /\ Refill(frames)
  /\ filled' = IF frames' = frames THEN "nothing" ELSE "queued"
  /\ UNCHANGED <<EPVF, TMEIE, framesTaken, framesSent, errors, canRxSide>>

\* Nothing was queued, nothing is pending and the queue is empty.
Disables == filled = "nothing" /\ ~isTxPending /\ frames = <<>>

txHandlerLeaves ==
  /\ filled \in {"nothing", "queued"} /\ filled' = "off"
  /\ TMEIE' = (TMEIE /\ ~Disables)
  /\ UNCHANGED <<frames, box, RQCP, TERR, EPVF, framesTaken, framesSent, errors, canRxSide>>

-----------------------------------------------------------------------------
BxCanInit ==
  /\ frames = <<>> /\ received = <<>> /\ fifo = <<>>
  /\ box = [b \in Boxes |-> 0] /\ RQCP = {} /\ TERR = {} /\ EPVF = FALSE /\ TMEIE = FALSE
  /\ filled = "off" /\ framesSaid = 0 /\ framesHeard = 0 /\ framesTaken = 0 /\ framesSent = 0
  /\ errors = 0

txHandler == clearFailedTx \/ txHandlerFills \/ txHandlerLeaves

BxCanNext ==
  \/ BusCarries \/ BusFails \/ BusReceives
  \/ \E n \in 1..(MaxTxFrames - framesTaken) : WriteFrames(n)
  \/ ReadFrame \/ rxHandler \/ txHandler

-----------------------------------------------------------------------------
Unsent == {frames[i] : i \in 1..Len(frames)} \union ({box[b] : b \in Boxes} \ {0})

\* The frames write() took leave, sent or given up: the transmit interrupt is never
\* disabled, nor missed, with a frame left in the queue.
CanDrained == Unsent = {}
=============================================================================
