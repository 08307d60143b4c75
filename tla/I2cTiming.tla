------------------------------ MODULE I2cTiming -------------------------------
(***************************************************************************)
(* The timing register of the I2C controllers of the second version, from *)
(* the clock of the bus, its rate and the times of setup and hold: the     *)
(* prescaler is doubled until everything fits, up to 16.                   *)
(*                                                                         *)
(* Differences are of 32 bits without a sign: one below zero fits nothing. *)
(***************************************************************************)
EXTENDS Integers

CONSTANTS
  ApbClocks,   \* in kHz
  Rates,       \* in kHz
  DataTimes    \* of setup and of hold, in ns

ASSUME I2cTimingAssumption ==
  ApbClocks \subseteq Nat \ {0} /\ Rates \subseteq Nat \ {0} /\ DataTimes \subseteq Nat

VARIABLES
  wanted,      \* what calcTimingRegValue() is called for
  presc, halfPeriod, dataSetupTime, dataHoldTime,
  timingReg   \* its result, in halves of 16 bits

timingVars == <<wanted, presc, halfPeriod, dataSetupTime, dataHoldTime, timingReg>>

NoReg == [high |-> 0, low |-> 0]
Last4 == 15
Last8 == 255

Freq       == wanted.apb \div presc
Ticks(ns)  == (ns * Freq) \div 1000000
AllFit     == halfPeriod \in 0..Last8 /\ dataSetupTime \in 0..Last4 /\ dataHoldTime \in 0..Last4

\* One round; the prescaler is the one the next round will take.
Round ==
  /\ timingReg = NoReg /\ presc < 32
  /\ presc = 1 \/ ~AllFit
  /\ halfPeriod' = Freq \div (2 * wanted.rate) - 1
  /\ dataSetupTime' = Ticks(wanted.setup) - 1
  /\ dataHoldTime' = Ticks(wanted.hold) - 1
  /\ presc' = 2 * presc
  /\ UNCHANGED <<wanted, timingReg>>

\* With the largest prescaler times that do not fit become the longest.
Clamped(ticks, p) == IF p = 16 /\ ticks \notin 0..Last4 THEN Last4 ELSE ticks

\* The fields are added, half periods that do not fit reach into the others.
Packed(p, setup, hold, half) ==
  LET low == half * 256 + half
  IN [high |-> ((p - 1) * 4096 + setup * 16 + hold + low \div 65536) % 65536, low |-> low % 65536]

Finish ==
  /\ timingReg = NoReg /\ presc > 1 /\ (AllFit \/ presc >= 32)
  /\ LET p == presc \div 2
     IN timingReg' = Packed(p, Clamped(dataSetupTime, p), Clamped(dataHoldTime, p), halfPeriod)
  /\ UNCHANGED <<wanted, presc, halfPeriod, dataSetupTime, dataHoldTime>>

TimingInit ==
  /\ wanted \in [apb : ApbClocks, rate : Rates, setup : DataTimes, hold : DataTimes]
  /\ presc = 1 /\ halfPeriod = 0 /\ dataSetupTime = 0 /\ dataHoldTime = 0 /\ timingReg = NoReg

TimingNext == Round \/ Finish

-----------------------------------------------------------------------------
\* What the controller does with the register.
Presc  == timingReg.high \div 4096 + 1
Scldel == ((timingReg.high \div 16) % 16) + 1
Sdadel == (timingReg.high % 16) + 1
Sclh   == timingReg.low \div 256 + 1
Scll   == (timingReg.low % 256) + 1

\* A delay of some ticks is what was asked, rounded down, or the longest there is.
Delay(ticks, ns) == ticks = Last4 + 1 \/ ticks = (ns * (wanted.apb \div Presc)) \div 1000000

\* Where the half period fits with the largest prescaler, both phases of the clock are
\* alike, the bus is not slower than asked and faster by less than a tick in each
\* phase, and the delays are no longer than asked (but for one that is shorter than a
\* tick, of which the longest is made); the prescaler is the least that does it.
BusKeepsItsRate ==
  (timingReg # NoReg /\ (wanted.apb \div 16) \div (2 * wanted.rate) \in 1..(Last8 + 1)) =>
    /\ Sclh = Scll
    /\ 2 * Sclh * Presc * wanted.rate <= wanted.apb
    /\ wanted.apb < 2 * (Sclh + 1) * Presc * wanted.rate
    /\ Delay(Scldel, wanted.setup) /\ Delay(Sdadel, wanted.hold)
    /\ \A p \in {1, 2, 4, 8} : p < Presc =>
         \/ (wanted.apb \div p) \div (2 * wanted.rate) > Last8 + 1
         \/ \E ns \in {wanted.setup, wanted.hold} : (ns * (wanted.apb \div p)) \div 1000000 \notin 1..(Last4 + 1)
=============================================================================
