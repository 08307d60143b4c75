------------------------------- MODULE I2cIrq -------------------------------
(***************************************************************************)
(* The interrupt driven I2C master of the STM32F0 board (I2cV2Irq.hpp),    *)
(* the application loop that polls one device with it (Application.hpp),   *)
(* and, as their environment, the I2C peripheral and the addressed device. *)
(*                                                                         *)
(* Three actors share the registers.  The main loop runs one statement at  *)
(* a time; the interrupt handler preempts it, and its single read of the   *)
(* status register is a step apart from the rest of its body, so that the  *)
(* peripheral may raise a flag between the two; the peripheral moves on    *)
(* its own.                                                                *)
(***************************************************************************)
EXTENDS Integers, FiniteSets

CONSTANTS
  MaxTx,      \* largest transmit size a client asks for
  MaxRx,      \* largest receive size a client asks for (size of the response)
  MaxRounds   \* number of stamps that tell the bytes of exchanges apart

\* Sizes are uint8_t and fit the NBYTES field; an exchange that moves nothing
\* at all is legal (it probes an address).
ASSUME SizeAssumption ==
  /\ MaxTx \in 1..255
  /\ MaxRx \in 1..255
  /\ MaxRounds \in Nat \ {0, 1}

VARIABLES
  \* the client: what it asked for, where its loop is, what it holds
  pc, reqTx, reqRx, round, response, result, overlap,
  \* the driver object
  txPos, txCount, rxPos, rxCount,
  \* the handler: its copy of the status register, empty when it does not run
  status,
  \* the peripheral and the bus
  phase, dir, nbytes, autoend, txdr, rxdr, flags, busy, pe,
  \* the device at the other end: bytes it took and gave in this exchange
  taken, given,
  \* history: callback of this exchange, what went wrong on the bus
  calls, verdict, fault

clientVars == <<pc, reqTx, reqRx, round, response, result, overlap>>
driverVars == <<txPos, txCount, rxPos, rxCount>>
isrVars    == <<status>>
busVars    == <<phase, dir, nbytes, autoend, txdr, rxdr, flags, busy, pe>>
slaveVars  == <<taken, given>>
histVars   == <<calls, verdict, fault>>
vars == <<clientVars, driverVars, isrVars, busVars, slaveVars, histVars>>

ErrFlags == {"NACKF", "BERR", "ARLO"}
ClrFlags == ErrFlags \union {"STOPF"}
Flags    == ClrFlags \union {"TXIS", "TC", "RXNE"}

Pcs    == {"fill", "exchange", "compare", "reset"}
Phases == {"idle", "start", "address", "tx", "shift", "rx", "hold", "stopping"}
Cells  == 0..(MaxRx - 1)

\* A uint8_t counter one lower.
Dec(c) == (c + 255) % 256

FlagTypes == result \in BOOLEAN /\ overlap \in BOOLEAN

ValueTypes ==
  /\ pc \in Pcs
  /\ reqTx \in 0..MaxTx /\ reqRx \in 0..MaxRx
  /\ round \in 0..MaxRounds
  /\ response \in [Cells -> 0..MaxRounds]
  /\ txCount \in 0..255 /\ rxCount \in 0..255
  /\ txPos \in 0..MaxTx /\ rxPos \in 0..MaxRx
  /\ status \subseteq Flags
  /\ phase \in Phases /\ dir \in {"write", "read"}
  /\ nbytes \in 0..255 /\ autoend \in {0, 1}
  /\ txdr \in 0..MaxTx /\ rxdr \in 0..MaxRounds
  /\ flags \subseteq Flags /\ busy \in {0, 1} /\ pe \in {0, 1}
  /\ taken \in 0..MaxTx /\ given \in 0..MaxRx
  /\ calls \in Nat /\ verdict \in {"none", "ok", "failed"}
  /\ fault \in {"none", "nack", "abort"}

VarTypes == FlagTypes /\ ValueTypes

\* What was moved and what is left to move add up to what was asked for: a counter
\* decremented once too often would be 255.
NoWrap == txPos + txCount = reqTx /\ rxPos + rxCount = reqRx

TypeOK == VarTypes /\ NoWrap

\* After the constructor: peripheral enabled, nothing requested.
Init ==
  /\ pc = "fill" /\ reqTx = 0 /\ reqRx = 0 /\ round = 0
  /\ response = [i \in Cells |-> 0] /\ result = FALSE /\ overlap = FALSE
  /\ txPos = 0 /\ txCount = 0 /\ rxPos = 0 /\ rxCount = 0
  /\ status = {}
  /\ phase = "idle" /\ dir = "read" /\ nbytes = 0 /\ autoend = 0
  /\ txdr = 0 /\ rxdr = 0 /\ flags = {} /\ busy = 0 /\ pe = 1
  /\ taken = 0 /\ given = 0
  /\ calls = 0 /\ verdict = "none" /\ fault = "none"

-----------------------------------------------------------------------------
(* start(direction): program the peripheral and request a START.  From the  *)
(* transfer-complete hold the master owns the bus, so the repeated START    *)
(* goes out at once; otherwise it waits for a free bus.                     *)

\* Slip: the receive direction is programmed with one byte too many.
StartReadLong(count) ==
  /\ flags' = flags \ (ClrFlags \union {"TC"})
  /\ nbytes' = count + 1
  /\ dir' = "read"
  /\ autoend' = 1
  /\ phase' = IF phase = "hold" THEN "address" ELSE "start"

StartRead(count) ==
  /\ flags' = flags \ (ClrFlags \union {"TC"})
  /\ nbytes' = count
  /\ dir' = "read"
  /\ autoend' = 1
  /\ phase' = IF phase = "hold" THEN "address" ELSE "start"

\* Slip: automatic STOP is left on for an exchange that still has to receive.
StartWriteAutoend(count, thenRead) ==
  /\ flags' = flags \ (ClrFlags \union {"TC"})
  /\ nbytes' = count
  /\ dir' = "write"
  /\ autoend' = 1
  /\ phase' = "start"

StartWrite(count, thenRead) ==
  /\ flags' = flags \ (ClrFlags \union {"TC"})
  /\ nbytes' = count
  /\ dir' = "write"
  /\ autoend' = IF thenRead THEN 0 ELSE 1
  /\ phase' = "start"

-----------------------------------------------------------------------------
(* The client: the application loop, with the sizes left open so that send, *)
(* receive and exchange are all covered.  An interrupt preempts it, so it   *)
(* steps only when no flag is pending and the handler is not running.       *)

InIsr == status # {}

Main == flags = {} /\ ~InIsr

\* Slip: the response keeps the bytes of the last exchange.
FillNothing ==
  /\ Main /\ pc = "fill"
  /\ overlap' = (phase # "idle")
  /\ pc' = "exchange"
  /\ UNCHANGED <<reqTx, reqRx, round, response, result, driverVars, isrVars,
                 busVars, slaveVars, histVars>>

\* delay(990 ms); response.fill(0)
Fill ==
  /\ Main /\ pc = "fill"
  /\ response' = [i \in Cells |-> 0]
  /\ overlap' = (phase # "idle")
  /\ pc' = "exchange"
  /\ UNCHANGED <<reqTx, reqRx, round, result, driverVars, isrVars, busVars,
                 slaveVars, histVars>>

\* exchange(): refused while BUSY is set, else takes the request and starts its
\* first direction.  The few instructions between the check and the START are
\* one step: with the bus free and no flag pending nothing can interrupt them.
Refuse ==
  /\ busy = 1
  /\ result' = FALSE
  /\ pc' = "reset"
  /\ UNCHANGED <<reqTx, reqRx, round, driverVars, busVars, slaveVars, histVars>>

Accept(tx, rx) ==
  /\ busy = 0
  /\ result' = TRUE
  /\ pc' = "compare"
  /\ reqTx' = tx /\ reqRx' = rx
  /\ txPos' = 0 /\ txCount' = tx
  /\ rxPos' = 0 /\ rxCount' = rx
  /\ IF tx > 0 THEN StartWrite(tx, rx > 0) ELSE StartRead(rx)
  /\ round' = (round % MaxRounds) + 1
  /\ taken' = 0 /\ given' = 0
  /\ calls' = 0 /\ verdict' = "none" /\ fault' = "none"
  /\ UNCHANGED <<txdr, rxdr, busy, pe>>

Exchange(tx, rx) ==
  /\ Main /\ pc = "exchange"
  /\ Refuse \/ Accept(tx, rx)
  /\ UNCHANGED <<response, overlap, isrVars>>

\* delay(10 ms) is long enough for a START on a free bus; the transfer itself
\* may be stretched past it by the device.
Settled == phase = "start" => busy = 1

\* response = kResponse: the device gives the expected bytes, so that what differs
\* is a cell that was not filled.
Received == \A i \in 0..(reqRx - 1) : response[i] # 0

Compare ==
  /\ Main /\ pc = "compare" /\ Settled
  /\ result' = Received
  /\ pc' = "fill"
  /\ UNCHANGED <<reqTx, reqRx, round, response, overlap, driverVars, isrVars,
                 busVars, slaveVars, histVars>>

\* Clearing PE is the peripheral's software reset: it drops the transfer, the
\* flags and BUSY.
SoftwareReset == phase' = "idle" /\ flags' = {} /\ busy' = 0

\* reset(): the loop disables the peripheral while PE reads as 0, then PE is
\* set again.
Reset ==
  /\ Main /\ pc = "reset"
  /\ IF pe = 0 THEN SoftwareReset ELSE UNCHANGED <<phase, flags, busy>>
  /\ pe' = 1
  /\ pc' = "fill"
  /\ UNCHANGED <<reqTx, reqRx, round, response, result, overlap, driverVars,
                 isrVars, dir, nbytes, autoend, txdr, rxdr, slaveVars, histVars>>

-----------------------------------------------------------------------------
(* The interrupt handler. *)

\* Every flag of Flags has its interrupt enabled; the handler reads them once.
IrqEnter ==
  /\ ~InIsr /\ flags # {}
  /\ status' = flags
  /\ UNCHANGED <<clientVars, driverVars, busVars, slaveVars, histVars>>

Err == status \intersect ErrFlags # {}

\* Slip: the copied STOPF is not cleared.
ClearNotStop(set) == flags' = flags \ set

\* What the branch clears, and STOPF if the copied status held it.
Clear(set) == flags' = flags \ (set \union (status \intersect {"STOPF"}))

\* Slip: the error branch acknowledges everything but the NACK.
HandleErrorKeepNack ==
  /\ Err
  /\ Clear(ClrFlags \ {"NACKF"})
  /\ UNCHANGED <<driverVars, phase, dir, nbytes, autoend, txdr, response>>

HandleError ==
  /\ Err
  /\ Clear(ClrFlags)
  /\ UNCHANGED <<driverVars, phase, dir, nbytes, autoend, txdr, response>>

HandleTxis ==
  /\ ~Err /\ "TXIS" \in status
  /\ txdr' = txPos /\ txPos' = txPos + 1 /\ txCount' = Dec(txCount)
  /\ phase' = "shift"
  /\ Clear({"TXIS"})
  /\ UNCHANGED <<rxPos, rxCount, dir, nbytes, autoend, response>>

\* Slip: after the last byte sent, the transfer goes on in the same direction.
HandleTcWrite ==
  /\ ~Err /\ "TXIS" \notin status /\ "TC" \in status
  /\ flags' = flags \ (ClrFlags \union {"TC"})
  /\ nbytes' = rxCount /\ dir' = "write" /\ autoend' = 1
  /\ phase' = "address"
  /\ UNCHANGED <<driverVars, txdr, response>>

HandleTc ==
  /\ ~Err /\ "TXIS" \notin status /\ "TC" \in status
  /\ StartRead(rxCount)
  /\ UNCHANGED <<driverVars, txdr, response>>

HandleRxne ==
  /\ ~Err /\ status \intersect {"TXIS", "TC"} = {} /\ "RXNE" \in status
  /\ response' = [response EXCEPT ![rxPos] = rxdr]
  /\ rxPos' = rxPos + 1 /\ rxCount' = Dec(rxCount)
  /\ Clear({"RXNE"})
  /\ UNCHANGED <<txPos, txCount, phase, dir, nbytes, autoend, txdr>>

HandleStop ==
  /\ status = {"STOPF"}
  /\ Clear({})
  /\ UNCHANGED <<driverVars, phase, dir, nbytes, autoend, txdr, response>>

\* Slip: the outcome is the error flags alone.
CallbackErrOnly ==
  IF "STOPF" \in status
  THEN /\ calls' = calls + 1
       /\ verdict' = IF ~Err THEN "ok" ELSE "failed"
  ELSE UNCHANGED <<calls, verdict>>

\* The end of the handler: a copied STOPF completes the exchange, and the
\* callback learns the outcome from the error flags and the two counters.
Callback ==
  IF "STOPF" \in status
  THEN /\ calls' = calls + 1
       /\ verdict' = IF ~Err /\ txCount' = 0 /\ rxCount' = 0 THEN "ok" ELSE "failed"
  ELSE UNCHANGED <<calls, verdict>>

Handler ==
  /\ InIsr
  /\ HandleError \/ HandleTxis \/ HandleTc \/ HandleRxne \/ HandleStop
  /\ Callback
  /\ status' = {}
  /\ UNCHANGED <<pc, reqTx, reqRx, round, result, overlap, rxdr, busy, pe,
                 slaveVars, fault>>

-----------------------------------------------------------------------------
(* The peripheral and the device, as the driver relies on them.  A byte is  *)
(* handed over only when the register it goes through is free (the clock is *)
(* stretched until then), TXIS is raised after the previous byte was        *)
(* acknowledged, NACK and AUTOEND make the peripheral send STOP by itself.  *)

Untouched == UNCHANGED <<clientVars, driverVars, isrVars, pe, calls, verdict>>

GenerateStart ==
  /\ phase = "start" /\ busy = 0
  /\ phase' = "address" /\ busy' = 1
  /\ Untouched
  /\ UNCHANGED <<dir, nbytes, autoend, txdr, rxdr, flags, slaveVars, fault>>

AddressAck ==
  /\ phase = "address"
  /\ phase' = IF nbytes = 0 THEN "stopping" ELSE IF dir = "write" THEN "tx" ELSE "rx"
  /\ flags' = IF phase' = "tx" THEN flags \union {"TXIS"} ELSE flags
  /\ Untouched
  /\ UNCHANGED <<dir, nbytes, autoend, txdr, rxdr, busy, slaveVars, fault>>

\* The device refuses its address or a byte.
Nack ==
  /\ phase \in {"address", "shift"}
  /\ phase' = "stopping"
  /\ flags' = flags \union {"NACKF"}
  /\ fault' = "nack"
  /\ Untouched
  /\ UNCHANGED <<dir, nbytes, autoend, txdr, rxdr, busy, slaveVars>>

ByteAck ==
  /\ phase = "shift"
  /\ taken' = taken + 1
  /\ nbytes' = nbytes - 1
  /\ phase' = IF nbytes' > 0 THEN "tx" ELSE IF autoend = 1 THEN "stopping" ELSE "hold"
  /\ flags' = CASE phase' = "tx"       -> flags \union {"TXIS"}
                [] phase' = "hold"     -> flags \union {"TC"}
                [] phase' = "stopping" -> flags
  /\ Untouched
  /\ UNCHANGED <<dir, autoend, txdr, rxdr, busy, given, fault>>

ByteReceived ==
  /\ phase = "rx" /\ "RXNE" \notin flags
  /\ rxdr' = round /\ given' = given + 1
  /\ nbytes' = nbytes - 1
  /\ phase' = IF nbytes' > 0 THEN "rx" ELSE "stopping"
  /\ flags' = flags \union {"RXNE"}
  /\ Untouched
  /\ UNCHANGED <<dir, autoend, txdr, busy, taken, fault>>

StopDone ==
  /\ phase = "stopping"
  /\ phase' = "idle" /\ busy' = 0
  /\ flags' = flags \union {"STOPF"}
  /\ Untouched
  /\ UNCHANGED <<dir, nbytes, autoend, txdr, rxdr, slaveVars, fault>>

\* Bus error or lost arbitration while the clock runs: the transfer is over
\* without a STOP of its own, and the bus may stay occupied.
Abort(flag) ==
  /\ phase \in {"address", "shift", "rx", "stopping"}
  /\ phase' = "idle" /\ busy' \in {0, 1}
  /\ flags' = flags \union {flag}
  /\ fault' = "abort"
  /\ Untouched
  /\ UNCHANGED <<dir, nbytes, autoend, txdr, rxdr, slaveVars>>

\* Something else occupies the bus (noise, a device holding SDA), or lets go.
BusTaken ==
  /\ phase \in {"idle", "start"} /\ busy = 0
  /\ busy' = 1
  /\ Untouched
  /\ UNCHANGED <<phase, dir, nbytes, autoend, txdr, rxdr, flags, slaveVars, fault>>

BusFreed ==
  /\ phase \in {"idle", "start"} /\ busy = 1
  /\ busy' = 0
  /\ Untouched
  /\ UNCHANGED <<phase, dir, nbytes, autoend, txdr, rxdr, flags, slaveVars, fault>>

-----------------------------------------------------------------------------

Loop == Fill \/ Compare \/ Reset
          \/ \E tx \in 0..MaxTx, rx \in 0..MaxRx : Exchange(tx, rx)

Irq == IrqEnter \/ Handler

\* What the peripheral and a device that does not stretch the clock for ever
\* keep doing.
Bus == GenerateStart \/ AddressAck \/ Nack \/ ByteAck \/ ByteReceived \/ StopDone

Disturbance == (\E f \in {"BERR", "ARLO"} : Abort(f)) \/ BusTaken \/ BusFreed

Next == Loop \/ Irq \/ Bus \/ Disturbance

\* The processor runs the loop and serves interrupts; the bus clock runs.
Fairness == WF_vars(Loop) /\ WF_vars(Irq) /\ WF_vars(Bus)

Spec     == Init /\ [][Next]_vars
FairSpec == Spec /\ Fairness

-----------------------------------------------------------------------------
(* Properties. *)

\* The handler never reads past the bytes the client gave to send and never
\* writes past the buffer it gave to receive into (I2cV2Irq.hpp:158-166), even
\* when its copy of the status is older than the bus.
NoOverrun ==
  InIsr /\ ~Err =>
    /\ "TXIS" \in status => txPos < reqTx
    /\ "RXNE" \in status => rxPos < reqRx

\* One exchange, at most one callback (I2cV2Irq.hpp:168-173).
AtMostOneCallback == calls <= 1

\* A callback of success means that every byte was handed over in both
\* directions and the device answered, but for one case: with nothing to
\* receive, the refusal of the last byte (or of an address probe) goes unseen.
OkMeansMoved ==
  verdict = "ok" =>
    /\ txPos = reqTx /\ rxPos = reqRx /\ given = reqRx
    /\ \/ fault = "none" /\ taken = reqTx
       \/ fault = "nack" /\ reqRx = 0 /\ taken + 1 >= reqTx

\* When no transfer was under way as the response was cleared, a comparison
\* that succeeds has seen only bytes of this exchange (Application.hpp:39-43):
\* no byte of an earlier one is taken for an answer.
FreshResult ==
  pc = "fill" /\ result /\ ~overlap => \A i \in 0..(reqRx - 1) : response[i] = round

\* The strengthening of the safety properties above that every step preserves.
\* The driver's counters always match what the peripheral still has to move,
\* a handler's copy of the status is never ahead of the bus, and a completed
\* exchange leaves nothing pending.
HasRx == IF "RXNE" \in flags THEN 1 ELSE 0

Counts ==
  /\ NoWrap /\ given = rxPos + HasRx /\ given <= reqRx
  /\ taken \in {txPos, txPos - 1}

Sending ==
  /\ phase = "tx"    => nbytes = txCount /\ nbytes > 0 /\ taken = txPos
  /\ phase = "shift" => nbytes = txCount + 1 /\ taken + 1 = txPos
  /\ phase = "hold"  => txCount = 0 /\ taken = txPos
  /\ phase \in {"tx", "shift"} => dir = "write" /\ (autoend = 1 <=> reqRx = 0)
  /\ phase \in {"start", "address"} =>
       IF dir = "write"
       THEN nbytes = txCount /\ nbytes > 0 /\ taken = txPos /\ (autoend = 1 <=> reqRx = 0)
       ELSE nbytes = rxCount /\ txCount = 0 /\ taken = txPos

Receiving ==
  /\ phase = "rx" => nbytes > 0 /\ rxCount = nbytes + HasRx /\ txCount = 0 /\ taken = txPos
  /\ phase \in {"start", "address", "tx", "shift", "hold"} => rxPos = 0 /\ given = 0
  /\ fault = "nack" => rxPos = 0 /\ given = 0

Raised ==
  /\ "TXIS" \in flags <=> phase = "tx"
  /\ "TC" \in flags <=> phase = "hold"
  /\ "STOPF" \in flags => phase = "idle" /\ calls = 0 /\ fault # "abort"
  /\ status \intersect {"TXIS", "TC", "RXNE", "STOPF"} \subseteq flags
  /\ "STOPF" \in status => flags = status

Outcome ==
  /\ pe = 1
  /\ phase # "idle" => calls = 0
  /\ phase \notin {"idle", "stopping"} => fault = "none"
  /\ phase = "stopping" => fault # "abort"
  /\ phase \in {"idle", "stopping"} /\ fault = "none" => taken = txPos
  /\ calls <= 1
  /\ calls = 0 => verdict = "none"
  /\ verdict = "ok" => flags = {} /\ ~InIsr /\ phase = "idle" /\ fault # "abort"
                      /\ txCount = 0 /\ rxCount = 0

IndInv == VarTypes /\ Counts /\ Sending /\ Receiving /\ Raised /\ Outcome

\* The strengthening of FreshResult: a byte waiting in the peripheral belongs to
\* the current exchange, and so does every byte of the response once it was
\* cleared with no transfer under way.
FreshCells == \A i \in Cells : response[i] \in {0, round}

FreshInv ==
  /\ phase # "idle" => round # 0
  /\ "RXNE" \in flags => rxdr = round /\ round # 0
  /\ pc = "exchange" /\ ~overlap => Main /\ phase = "idle"
                                     /\ \A i \in Cells : response[i] = 0
  /\ pc = "compare" /\ ~overlap => FreshCells
  /\ pc = "reset" => ~result
  /\ pc = "fill" /\ result /\ ~overlap =>
       FreshCells /\ \A i \in 0..(reqRx - 1) : response[i] # 0

\* An exchange that gets the bus and meets no error is reported as done.
CleanExchangeCompletes ==
  (phase = "address" /\ fault = "none") ~> (verdict = "ok" \/ fault # "none")

\* The handler always acknowledges what it was called for, so that the main
\* loop gets the processor back.
NoInterruptStorm == []<>(flags = {} /\ ~InIsr)

\* "@return true on success, false on error" (I2cV2Irq.hpp:103): since exchange()
\* returns before the transfer, the callback's argument carries this promise.
SuccessMeansNoError == verdict = "ok" => fault = "none"

\* "Bus reset" (I2cV2Irq.hpp:68): the loop resets the bus after each refused
\* exchange (Application.hpp:45), so that an occupied bus comes free again.
StuckBusRecovers == (busy = 1 /\ phase = "idle") ~> busy = 0
=============================================================================
