----------------------------- MODULE MCSerialHub -----------------------------
(***************************************************************************)
(* The serial slave beside the ring buffer its pool is built on; each is   *)
(* checked on its own while the other rests.                               *)
(*                                                                         *)
(* Two descriptors run out with one late callback; of three elements a     *)
(* broadcast may find the first, the middle or the last without address.   *)
(* A capacity of 3 wraps at every index; buffers of 4 are longer than it.  *)
(***************************************************************************)
EXTENDS SerialHub, RingQueue

CONSTANT Blank   \* the value a resting queue is full of

TwoRequests  == 2
ThreeDevices == 3
NoDevice     == 255
Numbers      == {0, 1}
ThreeSlots   == 3
FourInBuffer == 4

VARIABLE part   \* which of the two is at work

SerialRests == Init /\ address = [i \in Elements |-> Reserved]
QueueRests  == QueueInit /\ data = [s \in Slots |-> Blank]

HubAndQueueInit ==
  \/ part = "serial" /\ Init /\ QueueRests
  \/ part = "queue" /\ QueueInit /\ SerialRests

HubAndQueueNext ==
  /\ \/ part = "serial" /\ Next /\ UNCHANGED queueVars
     \/ part = "queue" /\ QueueNext /\ UNCHANGED vars
  /\ UNCHANGED part

HubAndQueueSpec ==
  HubAndQueueInit /\ [][HubAndQueueNext]_<<part, vars, queueVars>>
=============================================================================
