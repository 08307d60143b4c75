----------------------------- MODULE I2cPolling ------------------------------
(***************************************************************************)
(* The I2C masters without interrupts: exchange() writes, then reads, and  *)
(* waits a bounded number of times for each flag of the peripheral.  I2cV1 *)
(* tells the peripheral when to stop; I2cV2 and I2cV3, the same but for    *)
(* their timing, tell it the number of bytes beforehand.                   *)
(*                                                                         *)
(* The bytes are counted: those the master wrote and the slave took, those *)
(* the slave gave and the master read.  The slave may stop at any point.   *)
(***************************************************************************)
EXTENDS Integers

CONSTANT MaxBytes   \* bound: bytes of each direction

ASSUME PollingAssumption == MaxBytes \in Nat

VARIABLES
  call,         \* the version of the master, bytes to write and to read
  step,         \* where exchange() is
  result,
  wrote, got,   \* bytes written by the master, taken by the slave
  gave, read,   \* bytes given by the slave, read by the master
  AF,           \* flag: the slave did not take a byte, or its address
  phase,        \* of the bus: "idle", "called", "talking" or "refused"
  ack, told,    \* V1: bytes are acknowledged; the byte that was not, 0: none
  stops         \* V1: stop conditions asked for

pollVars == <<call, step, result, wrote, got, gave, read, AF, phase, ack, told, stops>>
slaveSide == <<got, gave, AF, phase, told>>

V1 == call.version = "V1"

-----------------------------------------------------------------------------
(* The bus and the slave. *)

SlaveAnswers ==
  /\ phase = "called"
  /\ \/ phase' = "talking" /\ UNCHANGED AF
     \/ phase' = "refused" /\ AF' = TRUE
  /\ UNCHANGED <<call, step, result, wrote, got, gave, read, ack, told, stops>>

SlaveTakes ==
  /\ phase = "talking" /\ got < wrote
  /\ \/ got' = got + 1 /\ UNCHANGED <<AF, phase>>
     \/ AF' = TRUE /\ phase' = "refused" /\ UNCHANGED got
  /\ UNCHANGED <<call, step, result, wrote, gave, read, ack, told, stops>>

\* A byte, and one behind it: then the clock is held until one is read.  The last
\* byte is that of the number told beforehand, or the one not acknowledged (V1).
SlaveGives ==
  /\ phase = "talking" /\ step \in {"rxStart", "rx", "drain"} /\ gave - read < 2
  /\ IF V1 THEN told = 0 ELSE gave < call.rx
  /\ gave' = gave + 1 /\ told' = IF V1 /\ ~ack THEN gave + 1 ELSE told
  /\ UNCHANGED <<call, step, result, wrote, got, read, AF, phase, ack, stops>>

\* Flags of the peripheral.  V1 has room for the next byte while one is sent,
\* V2 asks for the next when the slave took the last.
TxE  == wrote - got <= 1
TXIS == phase = "talking" /\ wrote = got
RxNE == gave > read
BTF  == gave = read + 2
\* What was to be sent is, or was refused.
Flushed == got = wrote \/ phase = "refused"

-----------------------------------------------------------------------------
(* exchange(): each wait ends with its flag, or fails: an error that it looks *)
(* for, or too many attempts.                                                 *)

Goes(s)  == step' = s /\ UNCHANGED result
Fails(s) == step' = s /\ result' = FALSE

exchange(v, tx, rx) ==
  /\ step = "off"
  /\ call' = [version |-> v, tx |-> tx, rx |-> rx]
  /\ result' = TRUE
  /\ step' = IF v = "V1" \/ tx > 0 THEN "start" ELSE IF rx > 0 THEN "restart" ELSE "done"
  /\ UNCHANGED <<wrote, gave, read, got, AF, phase, ack, told, stops>>

\* start() and sendAddress() of V1.
startV1 ==
  /\ V1 /\ step \in {"start", "restart"}
  /\ AF' = FALSE /\ ack' = TRUE
  /\ step' = IF step = "start" THEN "sb" ELSE "rxSb"
  /\ UNCHANGED <<call, result, wrote, got, gave, read, phase, told, stops>>

\* The start condition follows what is still to be sent.
StartSent ==
  /\ step \in {"sb", "rxSb"}
  /\ \/ Flushed /\ phase' = "called" /\ Goes(IF step = "sb" THEN "addr" ELSE "rxAddr")
     \/ Fails("stop") /\ UNCHANGED phase
  /\ UNCHANGED <<call, wrote, got, gave, read, AF, ack, told, stops>>

sendAddress ==
  /\ step \in {"addr", "rxAddr"}
  /\ \/ phase = "talking" /\ Goes(IF step = "addr" THEN "tx" ELSE "rxStart")
        /\ ack' = (ack /\ (step = "addr" \/ call.rx # 1))
     \/ Fails("stop") /\ UNCHANGED ack
  /\ UNCHANGED <<call, wrote, read, slaveSide, stops>>

\* start() of V2: the address of a write is taken when a byte is asked for.
startV2 ==
  /\ ~V1 /\ step \in {"start", "restart"}
  /\ AF' = FALSE /\ phase' = "called"
  /\ Goes(IF step = "start" THEN "addr2" ELSE "rxStart")
  /\ UNCHANGED <<call, wrote, read, got, gave, ack, told, stops>>

StartedV2 ==
  /\ step = "addr2"
  /\ \/ TXIS /\ Goes("tx")
     \/ Fails("done")
  /\ UNCHANGED <<call, wrote, read, slaveSide, ack, stops>>

\* Slip: the slave that refused a byte is not looked at.
sendByteBlind ==
  /\ step = "tx" /\ wrote < call.tx
  /\ \/ (IF V1 THEN TxE ELSE TRUE) /\ wrote' = wrote + 1 /\ UNCHANGED <<step, result>>
     \/ Fails(IF V1 THEN "stop" ELSE "done") /\ UNCHANGED wrote
  /\ UNCHANGED <<call, read, slaveSide, ack, stops>>

sendByte ==
  /\ step = "tx" /\ wrote < call.tx
  /\ \/ (IF V1 THEN TxE ELSE TXIS) /\ wrote' = wrote + 1 /\ UNCHANGED <<step, result>>
     \/ Fails(IF V1 THEN "stop" ELSE "done") /\ UNCHANGED wrote
  /\ UNCHANGED <<call, read, slaveSide, ack, stops>>

\* V1, nothing to read: what comes of the last bytes does not change the result.
WrittenV1 ==
  /\ V1 /\ step = "tx" /\ wrote = call.tx
  /\ Goes(IF call.rx > 0 THEN "restart" ELSE "stop")
  /\ UNCHANGED <<call, wrote, read, slaveSide, ack, stops>>

\* V2, something to read: the transfer must be complete.
WrittenV2 ==
  /\ ~V1 /\ step = "tx" /\ wrote = call.tx
  /\ \/ call.rx = 0 /\ Goes("done")
     \/ call.rx > 0 /\ TXIS /\ Goes("restart")
     \/ call.rx > 0 /\ Fails("done")
  /\ UNCHANGED <<call, wrote, read, slaveSide, ack, stops>>

send_stop ==
  /\ step = "stop" /\ stops' = stops + 1 /\ Goes("done")
  /\ UNCHANGED <<call, wrote, read, slaveSide, ack>>

\* V1 reads one byte: the stop is asked for before.
ReadsOne ==
  /\ V1 /\ step = "rxStart" /\ call.rx = 1
  /\ stops' = stops + 1 /\ Goes("drain")
  /\ UNCHANGED <<call, wrote, read, slaveSide, ack>>

\* V1 reads two: after the first came, or did not.
ReadsTwo ==
  /\ V1 /\ step = "rxStart" /\ call.rx = 2
  /\ \/ RxNE /\ Goes("drain")
     \/ Fails("done")
  /\ ack' = FALSE /\ stops' = stops + 1
  /\ UNCHANGED <<call, wrote, read, slaveSide>>

\* V1 reads more: with three left it waits until two of them are there, so that
\* the clock is held while it changes its mind about the last.
ReadsMore ==
  /\ V1 /\ step \in {"rxStart", "rx"} /\ call.rx > 2
  /\ \/ /\ call.rx - read > 3 /\ RxNE /\ read' = read + 1
        /\ Goes("rx") /\ UNCHANGED <<ack, stops>>
     \/ /\ call.rx - read = 3 /\ BTF /\ read' = read + 1 /\ ack' = FALSE /\ stops' = stops + 1
        /\ Goes("drain")
     \/ Fails("stop") /\ UNCHANGED <<read, ack, stops>>
  /\ UNCHANGED <<call, wrote, got, gave, AF, phase, told>>

\* The bytes that are left, of V2 all; start() of V2 waits for the first of them.
receiveByte ==
  /\ step = "drain" \/ (~V1 /\ step = "rxStart")
  /\ read < call.rx
  /\ \/ RxNE /\ read' = read + 1 /\ Goes("drain")
     \/ Fails("done") /\ UNCHANGED read
  /\ UNCHANGED <<call, wrote, slaveSide, ack, stops>>

ReadAll ==
  /\ step = "drain" /\ read = call.rx /\ Goes("done")
  /\ UNCHANGED <<call, wrote, read, slaveSide, ack, stops>>

PollInit ==
  /\ call = [version |-> "V1", tx |-> 0, rx |-> 0] /\ step = "off" /\ result = TRUE
  /\ wrote = 0 /\ got = 0 /\ gave = 0 /\ read = 0 /\ AF = FALSE /\ phase = "idle"
  /\ ack = TRUE /\ told = 0 /\ stops = 0

PollNext ==
  \/ \E v \in {"V1", "V2"}, tx, rx \in 0..MaxBytes : exchange(v, tx, rx)
  \/ SlaveAnswers \/ SlaveTakes \/ SlaveGives
  \/ startV1 \/ StartSent \/ sendAddress \/ startV2 \/ StartedV2 \/ sendByte \/ WrittenV1 \/ WrittenV2
  \/ send_stop \/ ReadsOne \/ ReadsTwo \/ ReadsMore \/ receiveByte \/ ReadAll

-----------------------------------------------------------------------------
\* The last bytes written that may have been refused although exchange() succeeds:
\* nobody looks at the acknowledgement of the last (V2), of the last two (V1).
Unseen == IF V1 THEN 2 ELSE IF call.rx = 0 THEN 1 ELSE 0

\* exchange() succeeds only if the slave took and gave all bytes, but for the last
\* ones written; V1 asks for one stop in any case, and the slave that it reads from
\* (two bytes apart, where it is a matter of time) is told which byte is its last.
PolledOkMeansMoved ==
  step = "done" =>
    /\ result => wrote = call.tx /\ got + Unseen >= call.tx /\ read = call.rx
    /\ V1 => stops = 1
    /\ V1 /\ result /\ call.rx \notin {0, 2} => told = call.rx /\ gave = call.rx
=============================================================================
