---------------------------- MODULE I2cIrqProofs ----------------------------
(***************************************************************************)
(* What the interrupt driven I2C master guarantees for every size of the   *)
(* buffers.  Everything follows from one inductive invariant, IndInv, that *)
(* ties the driver's two counters to the byte count of the peripheral and  *)
(* the handler's copy of the status register to the flags.                 *)
(***************************************************************************)
EXTENDS I2cIrq, TLAPS

\* A counter that is not zero is decremented without wrapping.
LEMMA DecLemma == \A c \in 1..255 : Dec(c) = c - 1
  BY DEF Dec

\* IndInv holds after the constructor.
LEMMA InitIndInv == Init => IndInv
<1> SUFFICES ASSUME Init PROVE IndInv
  OBVIOUS
<1> USE SizeAssumption DEF Init
<1>1. FlagTypes
  BY DEF FlagTypes
<1>2. ValueTypes
  BY DEF ValueTypes, Pcs, Phases
<1>3. Counts
  BY DEF Counts, NoWrap, HasRx
<1>4. Sending /\ Receiving
  BY DEF Sending, Receiving
<1>5. Raised /\ Outcome
  BY DEF Raised, Outcome, InIsr
<1>6. QED
  BY <1>1, <1>2, <1>3, <1>4, <1>5 DEF IndInv, VarTypes

\* The client's statements preserve IndInv: they run only when nothing is
\* pending, and an accepted request resets the counters it is checked against.
LEMMA LoopIndInv == IndInv /\ Loop => IndInv'
<1> SUFFICES ASSUME IndInv, Loop PROVE IndInv'
  OBVIOUS
<1> USE SizeAssumption DEF IndInv, VarTypes, ValueTypes, Main, InIsr, Pcs, driverVars, isrVars, busVars,
        slaveVars, histVars
<1>1. CASE Fill
  <2>1. FlagTypes'
    BY <1>1 DEF Fill, FlagTypes
  <2>2. ValueTypes'
    BY <1>1 DEF Fill, ValueTypes, Counts, NoWrap, Sending, Receiving, HasRx
  <2>3. Counts'
    BY <1>1 DEF Fill, Counts, NoWrap, Sending, Receiving, Raised, HasRx
  <2>4. Sending'
    BY <1>1 DEF Fill, Counts, NoWrap, Sending, Raised
  <2>5. Receiving'
    BY <1>1 DEF Fill, Counts, NoWrap, Receiving, Sending, Raised, Outcome, HasRx
  <2>6. Raised'
    BY <1>1 DEF Fill, Raised, Outcome
  <2>7. Outcome'
    BY <1>1 DEF Fill, Counts, NoWrap, Sending, Receiving, Raised, Outcome, InIsr
  <2>8. QED
    BY <2>1, <2>2, <2>3, <2>4, <2>5, <2>6, <2>7 DEF VarTypes, IndInv
<1>2. CASE Compare
  <2>1. FlagTypes'
    BY <1>2 DEF Compare, Received, FlagTypes
  <2>2. ValueTypes'
    BY <1>2 DEF Compare, Received, ValueTypes, Counts, NoWrap, Sending, Receiving, HasRx
  <2>3. Counts'
    BY <1>2 DEF Compare, Received, Counts, NoWrap, Sending, Receiving, Raised, HasRx
  <2>4. Sending'
    BY <1>2 DEF Compare, Received, Counts, NoWrap, Sending, Raised
  <2>5. Receiving'
    BY <1>2 DEF Compare, Received, Counts, NoWrap, Receiving, Sending, Raised, Outcome, HasRx
  <2>6. Raised'
    BY <1>2 DEF Compare, Received, Raised, Outcome
  <2>7. Outcome'
    BY <1>2 DEF Compare, Received, Counts, NoWrap, Sending, Receiving, Raised, Outcome, InIsr
  <2>8. QED
    BY <2>1, <2>2, <2>3, <2>4, <2>5, <2>6, <2>7 DEF VarTypes, IndInv
<1>3. CASE Reset
  <2> USE DEF SoftwareReset
  <2>1. FlagTypes'
    BY <1>3 DEF Reset, Phases, FlagTypes
  <2>2. ValueTypes'
    BY <1>3 DEF Reset, Phases, ValueTypes, Counts, NoWrap, Sending, Receiving, HasRx
  <2>3. Counts'
    BY <1>3 DEF Reset, Phases, Counts, NoWrap, Sending, Receiving, Raised, HasRx
  <2>4. Sending'
    BY <1>3 DEF Reset, Phases, Counts, NoWrap, Sending, Raised
  <2>5. Receiving'
    BY <1>3 DEF Reset, Phases, Counts, NoWrap, Receiving, Sending, Raised, Outcome, HasRx
  <2>6. Raised'
    BY <1>3 DEF Reset, Phases, Raised, Outcome
  <2>7. Outcome'
    BY <1>3 DEF Reset, Phases, Counts, NoWrap, Sending, Receiving, Raised, Outcome, InIsr
  <2>8. QED
    BY <2>1, <2>2, <2>3, <2>4, <2>5, <2>6, <2>7 DEF VarTypes, IndInv
<1>4. ASSUME NEW tx \in 0..MaxTx, NEW rx \in 0..MaxRx, Exchange(tx, rx)
      PROVE  IndInv'
  <2>1. CASE Refuse
    <3>1. FlagTypes'
      BY <1>4, <2>1 DEF Exchange, Refuse, FlagTypes
    <3>2. ValueTypes'
      BY <1>4, <2>1 DEF Exchange, Refuse, ValueTypes, Counts, NoWrap, Sending, Receiving, HasRx
    <3>3. Counts'
      BY <1>4, <2>1 DEF Exchange, Refuse, Counts, NoWrap, Sending, Receiving, Raised, HasRx
    <3>4. Sending'
      BY <1>4, <2>1 DEF Exchange, Refuse, Counts, NoWrap, Sending, Raised
    <3>5. Receiving'
      BY <1>4, <2>1 DEF Exchange, Refuse, Counts, NoWrap, Receiving, Sending, Raised, Outcome, HasRx
    <3>6. Raised'
      BY <1>4, <2>1 DEF Exchange, Refuse, Raised, Outcome
    <3>7. Outcome'
      BY <1>4, <2>1 DEF Exchange, Refuse, Counts, NoWrap, Sending, Receiving, Raised, Outcome, InIsr
    <3>8. QED
      BY <3>1, <3>2, <3>3, <3>4, <3>5, <3>6, <3>7 DEF VarTypes, IndInv
  <2>2. CASE Accept(tx, rx)
    <3> phase' = "start" /\ flags' = {} /\ status' = {}
        /\ nbytes' = (IF tx > 0 THEN tx ELSE rx)
        /\ dir' = (IF tx > 0 THEN "write" ELSE "read")
        /\ autoend' = (IF tx > 0 /\ rx > 0 THEN 0 ELSE 1)
      BY <1>4, <2>2 DEF Exchange, Accept, StartRead, StartWrite, Raised
    <3>1. FlagTypes'
      BY <1>4, <2>2 DEF Exchange, Accept, Phases, FlagTypes
    <3>2. ValueTypes'
      BY <1>4, <2>2 DEF Exchange, Accept, Phases, ValueTypes, Counts, NoWrap, Sending, Receiving, HasRx
    <3>3. Counts'
      BY <1>4, <2>2 DEF Exchange, Accept, Phases, Counts, NoWrap, Sending, Receiving, Raised, HasRx
    <3>4. Sending'
      BY <1>4, <2>2 DEF Exchange, Accept, Phases, Counts, NoWrap, Sending, Raised
    <3>5. Receiving'
      BY <1>4, <2>2 DEF Exchange, Accept, Phases, Counts, NoWrap, Receiving, Sending, Raised, Outcome, HasRx
    <3>6. Raised'
      BY <1>4, <2>2 DEF Exchange, Accept, Phases, Raised, Outcome
    <3>7. Outcome'
      BY <1>4, <2>2 DEF Exchange, Accept, Phases, Counts, NoWrap, Sending, Receiving, Raised, Outcome, InIsr
    <3>8. QED
      BY <3>1, <3>2, <3>3, <3>4, <3>5, <3>6, <3>7 DEF VarTypes, IndInv
  <2>3. QED
    BY <1>4, <2>1, <2>2 DEF Exchange
<1>5. QED
  BY <1>1, <1>2, <1>3, <1>4 DEF Loop

\* The handler preserves IndInv: it moves a byte only when the peripheral asks
\* for one, and its stale copy of the status can miss a flag but never has one
\* that is gone.
LEMMA IrqIndInv == IndInv /\ Irq => IndInv'
<1> SUFFICES ASSUME IndInv, Irq PROVE IndInv'
  OBVIOUS
<1> USE SizeAssumption DEF IndInv, VarTypes, ValueTypes, InIsr, clientVars, driverVars, busVars, slaveVars, histVars
<1>1. CASE IrqEnter
  <2>1. FlagTypes'
    BY <1>1 DEF IrqEnter, FlagTypes
  <2>2. ValueTypes'
    BY <1>1 DEF IrqEnter, ValueTypes, Counts, NoWrap, Sending, Receiving, HasRx
  <2>3. Counts'
    BY <1>1 DEF IrqEnter, Counts, NoWrap, Sending, Receiving, Raised, HasRx
  <2>4. Sending'
    BY <1>1 DEF IrqEnter, Counts, NoWrap, Sending, Raised
  <2>5. Receiving'
    BY <1>1 DEF IrqEnter, Counts, NoWrap, Receiving, Sending, Raised, Outcome, HasRx
  <2>6. Raised'
    BY <1>1 DEF IrqEnter, Raised, Outcome
  <2>7. Outcome'
    BY <1>1 DEF IrqEnter, Counts, NoWrap, Sending, Receiving, Raised, Outcome, InIsr
  <2>8. QED
    BY <2>1, <2>2, <2>3, <2>4, <2>5, <2>6, <2>7 DEF VarTypes, IndInv
<1>2. CASE Handler
  <2> USE DEF Handler, Err, Clear, Callback, Flags, ClrFlags, ErrFlags
  <2>1. CASE HandleError
    <3>1. FlagTypes'
      BY <1>2, <2>1 DEF HandleError, FlagTypes
    <3>2. ValueTypes'
      BY <1>2, <2>1 DEF HandleError, ValueTypes, Counts, NoWrap, Sending, Receiving, HasRx
    <3>3. Counts'
      BY <1>2, <2>1 DEF HandleError, Counts, NoWrap, Sending, Receiving, Raised, HasRx
    <3>4. Sending'
      BY <1>2, <2>1 DEF HandleError, Counts, NoWrap, Sending, Raised
    <3>5. Receiving'
      BY <1>2, <2>1 DEF HandleError, Counts, NoWrap, Receiving, Sending, Raised, Outcome, HasRx
    <3>6. Raised'
      BY <1>2, <2>1 DEF HandleError, Raised, Outcome
    <3>7. Outcome'
      BY <1>2, <2>1 DEF HandleError, Counts, NoWrap, Sending, Receiving, Raised, Outcome, InIsr
    <3>8. QED
      BY <3>1, <3>2, <3>3, <3>4, <3>5, <3>6, <3>7 DEF VarTypes, IndInv
  <2>2. CASE HandleTxis
    <3> phase = "tx" /\ txCount \in 1..255 /\ txCount' = txCount - 1 /\ txPos < MaxTx
        /\ "STOPF" \notin status
      BY <1>2, <2>2, DecLemma DEF HandleTxis, Counts, NoWrap, Sending, Raised
    <3>1. FlagTypes'
      BY <1>2, <2>2 DEF HandleTxis, Phases, FlagTypes
    <3>2. ValueTypes'
      BY <1>2, <2>2 DEF HandleTxis, Phases, ValueTypes, Counts, NoWrap, Sending, Receiving, HasRx
    <3>3. Counts'
      BY <1>2, <2>2 DEF HandleTxis, Phases, Counts, NoWrap, Sending, Receiving, Raised, HasRx
    <3>4. Sending'
      BY <1>2, <2>2 DEF HandleTxis, Phases, Counts, NoWrap, Sending, Raised
    <3>5. Receiving'
      BY <1>2, <2>2 DEF HandleTxis, Phases, Counts, NoWrap, Receiving, Sending, Raised, Outcome, HasRx
    <3>6. Raised'
      BY <1>2, <2>2 DEF HandleTxis, Phases, Raised, Outcome
    <3>7. Outcome'
      BY <1>2, <2>2 DEF HandleTxis, Phases, Counts, NoWrap, Sending, Receiving, Raised, Outcome, InIsr
    <3>8. QED
      BY <3>1, <3>2, <3>3, <3>4, <3>5, <3>6, <3>7 DEF VarTypes, IndInv
  <2>3. CASE HandleTc
    <3> phase = "hold" /\ phase' = "address" /\ "STOPF" \notin status
      BY <1>2, <2>3 DEF HandleTc, StartRead, Raised
    <3>1. FlagTypes'
      BY <1>2, <2>3 DEF HandleTc, StartRead, Phases, FlagTypes
    <3>2. ValueTypes'
      BY <1>2, <2>3 DEF HandleTc, StartRead, Phases, ValueTypes, Counts, NoWrap, Sending, Receiving, HasRx
    <3>3. Counts'
      BY <1>2, <2>3 DEF HandleTc, StartRead, Phases, Counts, NoWrap, Sending, Receiving, Raised, HasRx
    <3>4. Sending'
      BY <1>2, <2>3 DEF HandleTc, StartRead, Phases, Counts, NoWrap, Sending, Raised
    <3>5. Receiving'
      BY <1>2, <2>3 DEF HandleTc, StartRead, Phases, Counts, NoWrap, Receiving, Sending, Raised, Outcome, HasRx
    <3>6. Raised'
      BY <1>2, <2>3 DEF HandleTc, StartRead, Phases, Raised, Outcome
    <3>7. Outcome'
      BY <1>2, <2>3 DEF HandleTc, StartRead, Phases, Counts, NoWrap, Sending, Receiving, Raised, Outcome, InIsr
    <3>8. QED
      BY <3>1, <3>2, <3>3, <3>4, <3>5, <3>6, <3>7 DEF VarTypes, IndInv
  <2>4. CASE HandleRxne
    <3> "RXNE" \in flags /\ rxCount \in 1..255 /\ rxCount' = rxCount - 1 /\ rxPos < MaxRx
        /\ phase \in {"rx", "stopping", "idle"}
      BY <1>2, <2>4, DecLemma DEF HandleRxne, Counts, NoWrap, HasRx, Raised, Receiving, Phases
    <3> response' \in [Cells -> 0..MaxRounds]
      BY <1>2, <2>4 DEF HandleRxne
    <3>1. FlagTypes'
      BY <1>2, <2>4 DEF HandleRxne, FlagTypes
    <3>2. ValueTypes'
      BY <1>2, <2>4 DEF HandleRxne, ValueTypes, Counts, NoWrap, Sending, Receiving, HasRx
    <3>3. Counts'
      BY <1>2, <2>4 DEF HandleRxne, Counts, NoWrap, Sending, Receiving, Raised, HasRx
    <3>4. Sending'
      BY <1>2, <2>4 DEF HandleRxne, Counts, NoWrap, Sending, Raised
    <3>5. Receiving'
      BY <1>2, <2>4 DEF HandleRxne, Counts, NoWrap, Receiving, Sending, Raised, Outcome, HasRx
    <3>6. Raised'
      BY <1>2, <2>4 DEF HandleRxne, Raised, Outcome
    <3>7. Outcome'
      BY <1>2, <2>4 DEF HandleRxne, Counts, NoWrap, Sending, Receiving, Raised, Outcome, InIsr
    <3>8. QED
      BY <3>1, <3>2, <3>3, <3>4, <3>5, <3>6, <3>7 DEF VarTypes, IndInv
  <2>5. CASE HandleStop
    <3>1. FlagTypes'
      BY <1>2, <2>5 DEF HandleStop, FlagTypes
    <3>2. ValueTypes'
      BY <1>2, <2>5 DEF HandleStop, ValueTypes, Counts, NoWrap, Sending, Receiving, HasRx
    <3>3. Counts'
      BY <1>2, <2>5 DEF HandleStop, Counts, NoWrap, Sending, Receiving, Raised, HasRx
    <3>4. Sending'
      BY <1>2, <2>5 DEF HandleStop, Counts, NoWrap, Sending, Raised
    <3>5. Receiving'
      BY <1>2, <2>5 DEF HandleStop, Counts, NoWrap, Receiving, Sending, Raised, Outcome, HasRx
    <3>6. Raised'
      BY <1>2, <2>5 DEF HandleStop, Raised, Outcome
    <3>7. Outcome'
      BY <1>2, <2>5 DEF HandleStop, Counts, NoWrap, Sending, Receiving, Raised, Outcome, InIsr
    <3>8. QED
      BY <3>1, <3>2, <3>3, <3>4, <3>5, <3>6, <3>7 DEF VarTypes, IndInv
  <2>6. QED
    BY <1>2, <2>1, <2>2, <2>3, <2>4, <2>5
<1>3. QED
  BY <1>1, <1>2 DEF Irq

\* The peripheral and the bus preserve IndInv.
LEMMA BusIndInv == IndInv /\ (Bus \/ Disturbance) => IndInv'
<1> SUFFICES ASSUME IndInv, Bus \/ Disturbance PROVE IndInv'
  OBVIOUS
<1> USE SizeAssumption DEF IndInv, VarTypes, ValueTypes, Untouched, Phases, clientVars, driverVars,
        isrVars, slaveVars, Flags, ClrFlags, ErrFlags
<1>1. CASE GenerateStart
  <2>1. FlagTypes'
    BY <1>1 DEF GenerateStart, FlagTypes
  <2>2. ValueTypes'
    BY <1>1 DEF GenerateStart, ValueTypes, Counts, NoWrap, Sending, Receiving, HasRx
  <2>3. Counts'
    BY <1>1 DEF GenerateStart, Counts, NoWrap, Sending, Receiving, Raised, HasRx
  <2>4. Sending'
    BY <1>1 DEF GenerateStart, Counts, NoWrap, Sending, Raised
  <2>5. Receiving'
    BY <1>1 DEF GenerateStart, Counts, NoWrap, Receiving, Sending, Raised, Outcome, HasRx
  <2>6. Raised'
    BY <1>1 DEF GenerateStart, Raised, Outcome
  <2>7. Outcome'
    BY <1>1 DEF GenerateStart, Counts, NoWrap, Sending, Receiving, Raised, Outcome, InIsr
  <2>8. QED
    BY <2>1, <2>2, <2>3, <2>4, <2>5, <2>6, <2>7 DEF VarTypes, IndInv
<1>2. CASE AddressAck
  <2>1. FlagTypes'
    BY <1>2 DEF AddressAck, FlagTypes
  <2>2. ValueTypes'
    BY <1>2 DEF AddressAck, ValueTypes, Counts, NoWrap, Sending, Receiving, HasRx
  <2>3. Counts'
    BY <1>2 DEF AddressAck, Counts, NoWrap, Sending, Receiving, Raised, HasRx
  <2>4. Sending'
    BY <1>2 DEF AddressAck, Counts, NoWrap, Sending, Raised
  <2>5. Receiving'
    BY <1>2 DEF AddressAck, Counts, NoWrap, Receiving, Sending, Raised, Outcome, HasRx
  <2>6. Raised'
    BY <1>2 DEF AddressAck, Raised, Outcome
  <2>7. Outcome'
    BY <1>2 DEF AddressAck, Counts, NoWrap, Sending, Receiving, Raised, Outcome, InIsr
  <2>8. QED
    BY <2>1, <2>2, <2>3, <2>4, <2>5, <2>6, <2>7 DEF VarTypes, IndInv
<1>3. CASE Nack
  <2>1. FlagTypes'
    BY <1>3 DEF Nack, FlagTypes
  <2>2. ValueTypes'
    BY <1>3 DEF Nack, ValueTypes, Counts, NoWrap, Sending, Receiving, HasRx
  <2>3. Counts'
    BY <1>3 DEF Nack, Counts, NoWrap, Sending, Receiving, Raised, HasRx
  <2>4. Sending'
    BY <1>3 DEF Nack, Counts, NoWrap, Sending, Raised
  <2>5. Receiving'
    BY <1>3 DEF Nack, Counts, NoWrap, Receiving, Sending, Raised, Outcome, HasRx
  <2>6. Raised'
    BY <1>3 DEF Nack, Raised, Outcome
  <2>7. Outcome'
    BY <1>3 DEF Nack, Counts, NoWrap, Sending, Receiving, Raised, Outcome, InIsr
  <2>8. QED
    BY <2>1, <2>2, <2>3, <2>4, <2>5, <2>6, <2>7 DEF VarTypes, IndInv
<1>4. CASE ByteAck
  <2>1. FlagTypes'
    BY <1>4 DEF ByteAck, FlagTypes
  <2>2. ValueTypes'
    BY <1>4 DEF ByteAck, ValueTypes, Counts, NoWrap, Sending, Receiving, HasRx
  <2>3. Counts'
    BY <1>4 DEF ByteAck, Counts, NoWrap, Sending, Receiving, Raised, HasRx
  <2>4. Sending'
    BY <1>4 DEF ByteAck, Counts, NoWrap, Sending, Raised
  <2>5. Receiving'
    BY <1>4 DEF ByteAck, Counts, NoWrap, Receiving, Sending, Raised, Outcome, HasRx
  <2>6. Raised'
    BY <1>4 DEF ByteAck, Raised, Outcome
  <2>7. Outcome'
    BY <1>4 DEF ByteAck, Counts, NoWrap, Sending, Receiving, Raised, Outcome, InIsr
  <2>8. QED
    BY <2>1, <2>2, <2>3, <2>4, <2>5, <2>6, <2>7 DEF VarTypes, IndInv
<1>5. CASE ByteReceived
  <2>1. FlagTypes'
    BY <1>5 DEF ByteReceived, FlagTypes
  <2>2. ValueTypes'
    BY <1>5 DEF ByteReceived, ValueTypes, Counts, NoWrap, Sending, Receiving, HasRx
  <2>3. Counts'
    BY <1>5 DEF ByteReceived, Counts, NoWrap, Sending, Receiving, Raised, HasRx
  <2>4. Sending'
    BY <1>5 DEF ByteReceived, Counts, NoWrap, Sending, Raised
  <2>5. Receiving'
    BY <1>5 DEF ByteReceived, Counts, NoWrap, Receiving, Sending, Raised, Outcome, HasRx
  <2>6. Raised'
    BY <1>5 DEF ByteReceived, Raised, Outcome
  <2>7. Outcome'
    BY <1>5 DEF ByteReceived, Counts, NoWrap, Sending, Receiving, Raised, Outcome, InIsr
  <2>8. QED
    BY <2>1, <2>2, <2>3, <2>4, <2>5, <2>6, <2>7 DEF VarTypes, IndInv
<1>6. CASE StopDone
  <2>1. FlagTypes'
    BY <1>6 DEF StopDone, FlagTypes
  <2>2. ValueTypes'
    BY <1>6 DEF StopDone, ValueTypes, Counts, NoWrap, Sending, Receiving, HasRx
  <2>3. Counts'
    BY <1>6 DEF StopDone, Counts, NoWrap, Sending, Receiving, Raised, HasRx
  <2>4. Sending'
    BY <1>6 DEF StopDone, Counts, NoWrap, Sending, Raised
  <2>5. Receiving'
    BY <1>6 DEF StopDone, Counts, NoWrap, Receiving, Sending, Raised, Outcome, HasRx
  <2>6. Raised'
    BY <1>6 DEF StopDone, Raised, Outcome
  <2>7. Outcome'
    BY <1>6 DEF StopDone, Counts, NoWrap, Sending, Receiving, Raised, Outcome, InIsr
  <2>8. QED
    BY <2>1, <2>2, <2>3, <2>4, <2>5, <2>6, <2>7 DEF VarTypes, IndInv
<1>7. ASSUME NEW f \in {"BERR", "ARLO"}, Abort(f)
      PROVE  IndInv'
  <2>1. FlagTypes'
    BY <1>7 DEF Abort, FlagTypes
  <2>2. ValueTypes'
    BY <1>7 DEF Abort, ValueTypes, Counts, NoWrap, Sending, Receiving, HasRx
  <2>3. Counts'
    BY <1>7 DEF Abort, Counts, NoWrap, Sending, Receiving, Raised, HasRx
  <2>4. Sending'
    BY <1>7 DEF Abort, Counts, NoWrap, Sending, Raised
  <2>5. Receiving'
    BY <1>7 DEF Abort, Counts, NoWrap, Receiving, Sending, Raised, Outcome, HasRx
  <2>6. Raised'
    BY <1>7 DEF Abort, Raised, Outcome
  <2>7. Outcome'
    BY <1>7 DEF Abort, Counts, NoWrap, Sending, Receiving, Raised, Outcome, InIsr
  <2>8. QED
    BY <2>1, <2>2, <2>3, <2>4, <2>5, <2>6, <2>7 DEF VarTypes, IndInv
<1>8. CASE BusTaken
  <2>1. FlagTypes'
    BY <1>8 DEF BusTaken, FlagTypes
  <2>2. ValueTypes'
    BY <1>8 DEF BusTaken, ValueTypes, Counts, NoWrap, Sending, Receiving, HasRx
  <2>3. Counts'
    BY <1>8 DEF BusTaken, Counts, NoWrap, Sending, Receiving, Raised, HasRx
  <2>4. Sending'
    BY <1>8 DEF BusTaken, Counts, NoWrap, Sending, Raised
  <2>5. Receiving'
    BY <1>8 DEF BusTaken, Counts, NoWrap, Receiving, Sending, Raised, Outcome, HasRx
  <2>6. Raised'
    BY <1>8 DEF BusTaken, Raised, Outcome
  <2>7. Outcome'
    BY <1>8 DEF BusTaken, Counts, NoWrap, Sending, Receiving, Raised, Outcome, InIsr
  <2>8. QED
    BY <2>1, <2>2, <2>3, <2>4, <2>5, <2>6, <2>7 DEF VarTypes, IndInv
<1>9. CASE BusFreed
  <2>1. FlagTypes'
    BY <1>9 DEF BusFreed, FlagTypes
  <2>2. ValueTypes'
    BY <1>9 DEF BusFreed, ValueTypes, Counts, NoWrap, Sending, Receiving, HasRx
  <2>3. Counts'
    BY <1>9 DEF BusFreed, Counts, NoWrap, Sending, Receiving, Raised, HasRx
  <2>4. Sending'
    BY <1>9 DEF BusFreed, Counts, NoWrap, Sending, Raised
  <2>5. Receiving'
    BY <1>9 DEF BusFreed, Counts, NoWrap, Receiving, Sending, Raised, Outcome, HasRx
  <2>6. Raised'
    BY <1>9 DEF BusFreed, Raised, Outcome
  <2>7. Outcome'
    BY <1>9 DEF BusFreed, Counts, NoWrap, Sending, Receiving, Raised, Outcome, InIsr
  <2>8. QED
    BY <2>1, <2>2, <2>3, <2>4, <2>5, <2>6, <2>7 DEF VarTypes, IndInv
<1>10. QED
  BY <1>1, <1>2, <1>3, <1>4, <1>5, <1>6, <1>7, <1>8, <1>9 DEF Bus, Disturbance

-----------------------------------------------------------------------------

\* IndInv is an invariant of the driver with its client and its bus.
THEOREM Invariance == Spec => []IndInv
<1>1. IndInv /\ UNCHANGED vars => IndInv'
  BY DEF IndInv, VarTypes, FlagTypes, ValueTypes, Counts, NoWrap, Sending, Receiving, Raised, Outcome, HasRx, InIsr, vars,
     clientVars, driverVars, isrVars, busVars, slaveVars, histVars
<1>2. IndInv /\ [Next]_vars => IndInv'
  BY <1>1, LoopIndInv, IrqIndInv, BusIndInv DEF Next
<1>3. QED
  BY InitIndInv, <1>2, PTL DEF Spec

\* Every variable keeps its type, the two buffer positions never leave the buffers,
\* and the 8-bit counters never wrap: what is left and what was moved are together
\* what was asked for.
THEOREM TypeCorrect == Spec => []TypeOK
<1>1. IndInv => TypeOK
  BY DEF IndInv, TypeOK, Counts
<1>2. QED
  BY Invariance, <1>1, PTL

\* The handler stays within the client's buffers (I2cV2Irq.hpp:158-166).
THEOREM Overrun == Spec => []NoOverrun
<1>1. IndInv => NoOverrun
  BY SizeAssumption DEF IndInv, VarTypes, ValueTypes, Counts, NoWrap, Sending, Raised, HasRx, NoOverrun
<1>2. QED
  BY Invariance, <1>1, PTL

\* An exchange calls back at most once (I2cV2Irq.hpp:168-173).
THEOREM SingleCallback == Spec => []AtMostOneCallback
<1>1. IndInv => AtMostOneCallback
  BY DEF IndInv, Outcome, AtMostOneCallback
<1>2. QED
  BY Invariance, <1>1, PTL

\* A callback of success means that all bytes were moved (I2cV2Irq.hpp:171),
\* but for a refused last byte when there is nothing to receive.
THEOREM SuccessMoved == Spec => []OkMeansMoved
<1>1. IndInv => OkMeansMoved
  BY SizeAssumption DEF IndInv, VarTypes, ValueTypes, Counts, NoWrap, Sending, Receiving, Outcome, HasRx,
     OkMeansMoved
<1>2. QED
  BY Invariance, <1>1, PTL

-----------------------------------------------------------------------------

\* FreshInv is preserved: only the handler writes the response, with the byte
\* the peripheral holds, and a new stamp is drawn only when it holds none.
LEMMA FreshInvStep == IndInv /\ FreshInv /\ [Next]_vars => FreshInv'
<1> SUFFICES ASSUME IndInv, FreshInv, [Next]_vars PROVE FreshInv'
  OBVIOUS
<1> USE SizeAssumption DEF FreshInv, FreshCells, Main, InIsr, clientVars, driverVars, isrVars, busVars, slaveVars, histVars
<1>1. CASE Fill
  BY <1>1 DEF Fill, Main
<1>2. CASE Compare
  BY <1>2 DEF Compare, Received
<1>3. CASE Reset
  BY <1>3 DEF Reset, SoftwareReset, Main
<1>4. ASSUME NEW tx \in 0..MaxTx, NEW rx \in 0..MaxRx, Exchange(tx, rx)
      PROVE  FreshInv'
  <2>1. CASE Refuse
    BY <1>4, <2>1 DEF Exchange, Refuse
  <2>2. CASE Accept(tx, rx)
    <3>1. flags' = {} /\ pc' = "compare"
      BY <1>4, <2>2 DEF Exchange, Accept, StartRead, StartWrite
    <3>2. round' # 0
      BY <1>4, <2>2 DEF Exchange, Accept, IndInv, VarTypes, ValueTypes
    <3>3. ~overlap' => FreshCells'
      BY <1>4, <2>2 DEF Exchange, Accept
    <3>4. QED
      BY <3>1, <3>2, <3>3
  <2>3. QED
    BY <1>4, <2>1, <2>2 DEF Exchange
<1>5. CASE IrqEnter
  BY <1>5 DEF IrqEnter
<1>6. CASE Handler
  <2>1. pc' = pc /\ overlap' = overlap /\ result' = result /\ round' = round
        /\ rxdr' = rxdr /\ reqRx' = reqRx /\ ~Main
        /\ ("RXNE" \in flags' => "RXNE" \in flags)
        /\ (phase' # "idle" => phase # "idle")
    BY <1>6 DEF Handler, HandleError, HandleTxis, HandleTc, HandleRxne, HandleStop, Clear,
       StartRead, IndInv, Raised, Err, ErrFlags, ClrFlags, InIsr, Main
  <2>2. CASE response' = response
    BY <2>1, <2>2
  <2>3. CASE HandleRxne
    <3>1. rxdr = round
      BY <2>3 DEF HandleRxne, IndInv, Raised
    <3>2. response' = [response EXCEPT ![rxPos] = round] /\ DOMAIN response = Cells
      BY <2>3, <3>1 DEF HandleRxne, IndInv, VarTypes, ValueTypes
    <3>3. FreshCells => FreshCells'
      BY <2>1, <3>2
    <3>4. round # 0
      BY <2>3 DEF HandleRxne, IndInv, Raised
    <3>5. QED
      BY <2>1, <3>1, <3>2, <3>3, <3>4
  <2>4. QED
    BY <1>6, <2>2, <2>3 DEF Handler, HandleError, HandleTxis, HandleTc, HandleStop
<1>7. CASE Bus
  BY <1>7 DEF Bus, GenerateStart, AddressAck, Nack, ByteAck, ByteReceived, StopDone, Untouched
<1>8. CASE Disturbance
  BY <1>8 DEF Disturbance, Abort, BusTaken, BusFreed, Untouched
<1>9. CASE UNCHANGED vars
  BY <1>9 DEF vars
<1>10. QED
  BY <1>1, <1>2, <1>3, <1>4, <1>5, <1>6, <1>7, <1>8, <1>9 DEF Next, Loop, Irq

\* A comparison that succeeds has seen bytes of its own exchange only, when no
\* transfer was under way as the response was cleared (Application.hpp:39-43).
THEOREM Freshness == Spec => []FreshResult
<1>1. Init => FreshInv
  BY DEF Init, FreshInv, Main, InIsr
<1>2. IndInv /\ FreshInv => FreshResult
  BY SizeAssumption DEF IndInv, VarTypes, ValueTypes, FreshInv, FreshCells, FreshResult, Cells
<1>3. QED
  BY Invariance, FreshInvStep, <1>1, <1>2, PTL DEF Spec
=============================================================================
