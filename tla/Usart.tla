-------------------------------- MODULE Usart --------------------------------
(***************************************************************************)
(* The serial port: a thread that reads and writes two queues, the         *)
(* interrupt handler that moves bytes between them and the data register,  *)
(* and the peripheral, which goes on while either of them runs.  Two       *)
(* generations of the peripheral have a driver each (UsartV1, UsartV2).    *)
(*                                                                         *)
(* Bytes are numbered in the order they are sent, on each direction.       *)
(***************************************************************************)
EXTENDS Integers, Sequences, FiniteSetsExt

CONSTANTS
  RxSize, TxSize,   \* places of the queues
  ReadLength,       \* bound: bytes asked of one read
  MaxRxBytes, MaxTxBytes,  \* bound: bytes of the peer, of the application
  MaxRestarts       \* bound: restarts of the peripheral, line breaks

ASSUME UsartAssumption ==
  /\ {RxSize, TxSize, ReadLength} \subseteq Nat \ {0}
  /\ {MaxRxBytes, MaxTxBytes, MaxRestarts} \subseteq Nat

VARIABLES
  version,         \* of the peripheral and its driver
  rxQueue, txQueue,
  flags,           \* IDLE and ORE as the peripheral holds them
  heardLine,       \* something came since the line was idle
  rdr, tdr, shift, \* byte received, byte to send, byte on the line; 0: none
  cr1,             \* which of TXEIE, TCIE and SBK are set
  isr,             \* the handler: where it is, what it read at its entry
  reader,          \* bytes read() is yet to return, 0: it does not run
  saved,           \* cr1 as the thread read it to set or clear a bit of it
  fresh,           \* something was stored and no callback came since
  said, heard,     \* the last byte the peer sent, the application read
  accepted, sent,  \* the last byte write() took, the line carried
  restarts

rxSide   == <<rxQueue, rdr, flags, heardLine, fresh, said, heard>>
txSide   == <<txQueue, tdr, shift, cr1, accepted, sent>>
thread   == <<reader, saved, restarts>>
usartVars == <<version, isr, rxSide, txSide, thread>>

Off     == [at |-> "off", status |-> {}, cr1 |-> {}]
Unsaved == {"unsaved"}
idle    == reader = 0 /\ saved = Unsaved

Status == flags \union (IF rdr # 0 THEN {"RXNE"} ELSE {})
                \union (IF tdr = 0 THEN {"TXE"} ELSE {})
                \union (IF tdr = 0 /\ shift = 0 /\ "SBK" \notin cr1 THEN {"TC"} ELSE {})

-----------------------------------------------------------------------------
(* The peripheral. *)

\* The last byte was not read: the new one is lost, which is an overrun (V1), or
\* takes its place (V2, where the overrun is disabled).
ByteArrives ==
  /\ said < MaxRxBytes /\ said' = said + 1 /\ heardLine' = TRUE
  /\ rdr' = IF rdr = 0 \/ version = "V2" THEN said + 1 ELSE rdr
  /\ flags' = IF rdr # 0 /\ version = "V1" THEN flags \union {"ORE"} ELSE flags
  /\ UNCHANGED <<version, isr, rxQueue, fresh, heard, txSide, thread>>

LineIdle ==
  /\ heardLine /\ heardLine' = FALSE
  /\ flags' = flags \union {"IDLE"}
  /\ UNCHANGED <<version, isr, rxQueue, rdr, fresh, said, heard, txSide, thread>>

ByteShifts ==
  /\ shift = 0 /\ tdr # 0 /\ shift' = tdr /\ tdr' = 0
  /\ UNCHANGED <<version, isr, rxSide, txQueue, cr1, accepted, sent, thread>>

LineCarries ==
  /\ \/ shift # 0 /\ sent' = shift /\ shift' = 0 /\ UNCHANGED cr1
     \/ shift = 0 /\ "SBK" \in cr1 /\ cr1' = cr1 \ {"SBK"} /\ UNCHANGED <<shift, sent>>
  /\ UNCHANGED <<version, isr, rxSide, txQueue, tdr, accepted, thread>>

\* V1 clears the flags seen in the status by the read of the data that follows.
AfterRead == flags \ isr.status

Interrupt ==
  \/ rdr # 0 \/ flags # {}
  \/ "TXEIE" \in cr1 /\ "TXE" \in Status
  \/ "TCIE" \in cr1 /\ "TC" \in Status

-----------------------------------------------------------------------------
(* The handler.  read() pops a byte, and write() does all it does, with the   *)
(* interrupt masked: those are single steps.                                  *)

HandlerEnters ==
  /\ isr.at = "off" /\ Interrupt
  /\ isr' = [at |-> "move", status |-> Status, cr1 |-> cr1]
  /\ UNCHANGED <<version, rxSide, txSide, thread>>

Store ==
  IF "RXNE" \notin isr.status THEN UNCHANGED <<rxQueue, rdr, fresh>>
  ELSE /\ rxQueue' = IF Len(rxQueue) < RxSize THEN Append(rxQueue, rdr) ELSE rxQueue
       /\ fresh' = (fresh \/ Len(rxQueue) < RxSize)
       /\ rdr' = 0

\* An empty queue ends the transmission.
Transmit ==
  IF txQueue = <<>> THEN UNCHANGED <<txQueue, tdr>>
  ELSE tdr' = Head(txQueue) /\ txQueue' = Tail(txQueue)

\* UsartV1::handler up to the end of message: it writes back what it read of cr1,
\* where the line break, which is sent again, sets TXEIE that was just cleared.
HandlerMovesV1 ==
  /\ version = "V1" /\ isr.at = "move" /\ Store
  /\ flags' = IF "RXNE" \in isr.status THEN AfterRead ELSE flags
  /\ LET sends  == "TXEIE" \in isr.cr1 /\ "TXE" \in isr.status
         breaks == "TCIE" \in isr.cr1 /\ "TC" \in isr.status
     IN /\ IF sends THEN Transmit ELSE UNCHANGED <<txQueue, tdr>>
        /\ cr1' = IF breaks THEN isr.cr1 \union {"SBK"}
                  ELSE IF sends /\ txQueue = <<>> THEN isr.cr1 \ {"TXEIE"} ELSE cr1
  /\ isr' = [isr EXCEPT !.at = "end"]
  /\ UNCHANGED <<version, heardLine, said, heard, shift, accepted, sent, thread>>

\* UsartV2::handler: the flag of the end of message is cleared by a write.
HandlerMovesV2 ==
  /\ version = "V2" /\ isr.at = "move" /\ Store
  /\ flags' = flags \ (isr.status \intersect {"IDLE"})
  /\ IF "TXEIE" \in cr1 /\ "TXE" \in isr.status
     THEN Transmit /\ cr1' = IF txQueue = <<>> THEN cr1 \ {"TXEIE"} ELSE cr1
     ELSE UNCHANGED <<txQueue, tdr, cr1>>
  /\ isr' = [isr EXCEPT !.at = "end"]
  /\ UNCHANGED <<version, heardLine, said, heard, shift, accepted, sent, thread>>

\* At the end of a message V1 reads the data register once more: what came after
\* its status was read is gone.  The end, or half of the queue, calls back.
HandlerLeaves ==
  /\ isr.at = "end" /\ isr' = Off
  /\ IF version = "V1" /\ "IDLE" \in isr.status
     THEN flags' = AfterRead /\ rdr' = 0
     ELSE UNCHANGED <<flags, rdr>>
  /\ fresh' = (fresh /\ "IDLE" \notin isr.status
                     /\ ~("RXNE" \in isr.status /\ Len(rxQueue) >= RxSize \div 2))
  /\ UNCHANGED <<version, rxQueue, heardLine, said, heard, txSide, thread>>

-----------------------------------------------------------------------------
(* The thread, which runs while the handler does not. *)

ReadStarts(n) ==
  /\ isr = Off /\ idle /\ reader' = n
  /\ UNCHANGED <<version, isr, rxSide, txSide, saved, restarts>>

\* read() tests the queue before it masks the interrupt: what the handler does
\* in between only makes it longer.
ReadTests ==
  /\ isr = Off /\ reader > 0 /\ rxQueue = <<>>
  /\ reader' = 0
  /\ UNCHANGED <<version, isr, rxSide, txSide, saved, restarts>>

ReadPops ==
  /\ isr = Off /\ reader > 0 /\ rxQueue # <<>>
  /\ heard' = Head(rxQueue) /\ rxQueue' = Tail(rxQueue) /\ reader' = reader - 1
  /\ UNCHANGED <<version, isr, rdr, flags, heardLine, fresh, said, txSide, saved, restarts>>

\* write() takes as many bytes as there is space for.
Write(n) ==
  /\ isr = Off /\ idle
  /\ LET taken == Min({n, TxSize - Len(txQueue)})
     IN /\ txQueue' = txQueue \o [i \in 1..taken |-> accepted + i]
        /\ accepted' = accepted + taken
  /\ cr1' = cr1 \union {"TXEIE"}
  /\ UNCHANGED <<version, isr, rxSide, tdr, shift, sent, thread>>

\* startLineBreak and stopLineBreak of V1 read cr1, and write it some time later.
LineBreakReads ==
  /\ version = "V1" /\ isr = Off /\ idle
  /\ restarts < MaxRestarts \/ "TCIE" \in cr1
  /\ saved' = cr1
  /\ UNCHANGED <<version, isr, rxSide, txSide, reader, restarts>>

startLineBreakV1 ==
  /\ saved # Unsaved /\ isr = Off /\ "TCIE" \notin saved
  /\ cr1' = saved \union {"TCIE", "SBK"} /\ saved' = Unsaved /\ restarts' = restarts + 1
  /\ UNCHANGED <<version, isr, rxSide, txQueue, tdr, shift, accepted, sent, reader>>

stopLineBreakV1 ==
  /\ saved # Unsaved /\ isr = Off /\ "TCIE" \in saved
  /\ cr1' = saved \ {"TCIE"} /\ saved' = Unsaved
  /\ UNCHANGED <<version, isr, rxSide, txQueue, tdr, shift, accepted, sent, reader, restarts>>

\* setBaudrate of V1: the peripheral stops for a while, after the byte it sends.
setBaudrateV1 ==
  /\ version = "V1" /\ isr = Off /\ idle /\ restarts < MaxRestarts
  /\ restarts' = restarts + 1 /\ heardLine' = FALSE
  /\ UNCHANGED <<version, isr, rxQueue, rdr, flags, fresh, said, heard, txSide, reader, saved>>

\* setBaudrate, setParity, startLineBreak and stopLineBreak of V2: so does this
\* one, but its flags, and what it was sending, are gone.
restartV2 ==
  /\ version = "V2" /\ isr = Off /\ idle /\ restarts < MaxRestarts
  /\ restarts' = restarts + 1
  /\ rdr' = 0 /\ flags' = {} /\ heardLine' = FALSE /\ tdr' = 0 /\ shift' = 0
  /\ UNCHANGED <<version, isr, rxQueue, fresh, said, heard, txQueue, cr1, accepted, sent,
                 reader, saved>>

-----------------------------------------------------------------------------
UsartInit ==
  /\ version \in {"V1", "V2"}
  /\ rxQueue = <<>> /\ txQueue = <<>> /\ flags = {} /\ heardLine = FALSE
  /\ rdr = 0 /\ tdr = 0 /\ shift = 0 /\ cr1 = {} /\ isr = Off
  /\ reader = 0 /\ saved = Unsaved /\ fresh = FALSE
  /\ said = 0 /\ heard = 0 /\ accepted = 0 /\ sent = 0 /\ restarts = 0

UsartHardware == ByteArrives \/ LineIdle \/ ByteShifts \/ LineCarries
UsartHandler  == HandlerEnters \/ HandlerMovesV1 \/ HandlerMovesV2 \/ HandlerLeaves

UsartThread ==
  \/ \E n \in 1..ReadLength : ReadStarts(n)
  \/ ReadTests \/ ReadPops
  \/ \E n \in 1..(MaxTxBytes - accepted) : Write(n)
  \/ LineBreakReads \/ startLineBreakV1 \/ stopLineBreakV1 \/ setBaudrateV1 \/ restartV2

UsartNext == UsartHardware \/ UsartHandler \/ UsartThread

-----------------------------------------------------------------------------
\* A byte that write() took is on the line in the end, or a restart of the
\* peripheral took it away, whatever the handler wrote back to cr1; and what was
\* stored is announced to the application, unless the restart took the end of the
\* message away.
UsartDrained ==
  /\ restarts > 0 \/ ~fresh
  /\ sent = accepted \/ (version = "V2" /\ restarts > 0)
=============================================================================
