------------------------------- MODULE CdcAcm --------------------------------
(***************************************************************************)
(* The USB serial port: bytes written wait in a queue for the next packet, *)
(* which is handed to the endpoint when the host has taken the last one.   *)
(* The application polls the device (update), from the same thread that    *)
(* reads and writes.  A host that configures the device drops what is in   *)
(* the endpoints, and the driver forgets that it was sending.              *)
(*                                                                         *)
(* Bytes are numbered in the order they are sent, on each direction.       *)
(***************************************************************************)
EXTENDS Integers, Sequences, FiniteSetsExt

CONSTANTS
  QueueSize,       \* rxQueueSize, txQueueSize
  PacketSize,      \* of the data endpoints
  MaxHostBytes, MaxCdcBytes,  \* bound: bytes of the host, of the application
  MaxConfigs       \* bound: configurations

ASSUME CdcAssumption ==
  /\ {QueueSize, PacketSize} \subseteq Nat \ {0}
  /\ {MaxHostBytes, MaxCdcBytes, MaxConfigs} \subseteq Nat

VARIABLES
  cdcRx, cdcTx,      \* the queues
  pending,           \* a packet is with the endpoint, as the driver takes it
  epOut, epIn,       \* the packets in the endpoints
  taken,             \* the host took a packet, the driver has not heard of it
  configs,           \* configurations so far; none: the endpoints are closed
  hostSaid, cdcHeard,    \* the last byte of the host, and read of them
  stale,                 \* history: bytes waited when it was last configured
  cdcTaken, cdcSent      \* the last byte write() took, the host got

cdcVars == <<cdcRx, cdcTx, pending, epOut, epIn, taken, configs, hostSaid, cdcHeard, cdcTaken,
             cdcSent, stale>>

Upto(n, s) == SubSeq(s, 1, Min({n, Len(s)}))
From(n, s) == SubSeq(s, n + 1, Len(s))

-----------------------------------------------------------------------------
(* The host. *)

HostSends ==
  /\ configs > 0 /\ hostSaid < MaxHostBytes /\ Len(epOut) < PacketSize
  /\ hostSaid' = hostSaid + 1 /\ epOut' = Append(epOut, hostSaid + 1)
  /\ UNCHANGED <<cdcRx, cdcTx, pending, epIn, taken, configs, cdcHeard, cdcTaken, cdcSent, stale>>

HostTakes ==
  /\ configs > 0 /\ epIn # <<>>
  /\ cdcSent' = Head(epIn) /\ epIn' = Tail(epIn) /\ taken' = (Len(epIn) = 1)
  /\ UNCHANGED <<cdcRx, cdcTx, pending, epOut, configs, hostSaid, cdcHeard, cdcTaken, stale>>

-----------------------------------------------------------------------------
(* update(): what the stack calls back for. *)

\* As much as fits is kept.
handleDataRx ==
  /\ epOut # <<>> /\ epOut' = <<>>
  /\ cdcRx' = cdcRx \o Upto(QueueSize - Len(cdcRx), epOut)
  /\ UNCHANGED <<cdcTx, pending, epIn, taken, configs, hostSaid, cdcHeard, cdcTaken, cdcSent, stale>>

\* The next packet, from a queue; an endpoint that holds one takes no other.
handleDataTx(queue) ==
  /\ pending' = (queue # <<>>)
  /\ cdcTx' = From(PacketSize, queue)
  /\ epIn' = IF epIn = <<>> THEN Upto(PacketSize, queue) ELSE epIn

PacketTaken ==
  /\ taken /\ taken' = FALSE
  /\ handleDataTx(cdcTx)
  /\ UNCHANGED <<cdcRx, epOut, configs, hostSaid, cdcHeard, cdcTaken, cdcSent, stale>>

setInterfaceConfig ==
  /\ configs < MaxConfigs /\ configs' = configs + 1
  /\ epOut' = <<>> /\ epIn' = <<>> /\ taken' = FALSE
  /\ pending' = FALSE /\ stale' = (cdcTx # <<>>)
  /\ UNCHANGED <<cdcRx, cdcTx, hostSaid, cdcHeard, cdcTaken, cdcSent>>

-----------------------------------------------------------------------------
(* The application. *)

\* One byte of those read() returns.
CdcRead ==
  /\ cdcRx # <<>> /\ cdcHeard' = Head(cdcRx) /\ cdcRx' = Tail(cdcRx)
  /\ UNCHANGED <<cdcTx, pending, epOut, epIn, taken, configs, hostSaid, cdcTaken, cdcSent, stale>>

\* As much as fits is taken; the first packet is sent unless one is under way.
\* With no space left nothing is taken, and nothing sent.
CdcWrite(n) ==
  LET k     == Min({n, QueueSize - Len(cdcTx)})
      queue == cdcTx \o [i \in 1..k |-> cdcTaken + i]
  IN /\ k > 0 /\ cdcTaken' = cdcTaken + k
     /\ IF pending THEN cdcTx' = queue /\ UNCHANGED <<pending, epIn>> ELSE handleDataTx(queue)
     /\ UNCHANGED <<cdcRx, epOut, taken, configs, hostSaid, cdcHeard, cdcSent, stale>>

-----------------------------------------------------------------------------
CdcInit ==
  /\ cdcRx = <<>> /\ cdcTx = <<>> /\ pending = FALSE /\ epOut = <<>> /\ epIn = <<>>
  /\ taken = FALSE /\ configs = 0 /\ hostSaid = 0 /\ cdcHeard = 0 /\ cdcTaken = 0 /\ cdcSent = 0
  /\ stale = FALSE

CdcNext ==
  \/ HostSends \/ HostTakes \/ handleDataRx \/ PacketTaken \/ setInterfaceConfig \/ CdcRead
  \/ \E n \in 1..(MaxCdcBytes - cdcTaken) : CdcWrite(n)

-----------------------------------------------------------------------------
\* The host gets all that waits in the end, with no other write to push it, unless
\* it configured the device while bytes waited: those are stuck until the next write.
CdcDrained == configs = 0 \/ (~pending /\ (stale \/ (cdcTx = <<>> /\ epIn = <<>>)))
=============================================================================
