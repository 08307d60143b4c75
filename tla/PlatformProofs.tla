--------------------------- MODULE PlatformProofs ----------------------------
(***************************************************************************)
(* Proofs about the parts of MCPlatform, each of which rests while another *)
(* runs: the clock, the configuration in flash, the drivers of USART, USB  *)
(* and CAN as lines, the transfers that are done, the list of requests,    *)
(* and the timers, the external interrupts and the rate of the bus.        *)
(***************************************************************************)
EXTENDS MCPlatform, QueueLemmas, FiniteSetTheorems, TLAPS

\* While a part goes on the others rest.
LEMMA PartsApart ==
  [Next]_platformVars =>
    /\ [TimeNext]_timeVars /\ [StorageNext]_storageVars
    /\ [UsartNext]_usartVars /\ [BxCanNext]_canVars /\ [CdcNext]_cdcVars
    /\ [SpiNext]_spiVars /\ [PollNext]_pollVars /\ [QspiNext]_qspiVars /\ [AdcNext]_adcVars
    /\ [ListNext]_listVars /\ [TimersNext]_timersVars /\ [ExtNext]_extVars
    /\ [TimingNext]_timingVars /\ UNCHANGED part
<1> USE DEF platformVars, driverVars, boardVars, serialVars, threadVars, busVars, flashVars, wireVars,
      clockVars, pinVars, nodeVars,
      UsartPart, CanPart, CdcPart, WorkPart, TimePart, SpiPart, PollPart, StoragePart,
      QspiPart, ParserPart, AllocPart, TimersPart, TimingPart, ExtPart, AdcPart, RoutingPart,
      StatusPart, HashPart, ListPart,
      UsartRest, CanRest, CdcRest, WorkRest, TimeRest, SpiRest, PollRest, StorageRest,
      QspiRest, ParserRest, AllocRest, TimersRest, TimingRest, ExtRest, AdcRest, RoutingRest,
      StatusRest, HashRest, ListRest
<1>1. Next => TimeNext \/ UNCHANGED timeVars
  BY DEF Next
<1>2. Next => StorageNext \/ UNCHANGED storageVars
  BY DEF Next
<1>3. Next => UsartNext \/ UNCHANGED usartVars
  BY DEF Next
<1>4. Next => BxCanNext \/ UNCHANGED canVars
  BY DEF Next
<1>5. Next => CdcNext \/ UNCHANGED cdcVars
  BY DEF Next
<1>6. Next => SpiNext \/ UNCHANGED spiVars
  BY DEF Next
<1>7. Next => PollNext \/ UNCHANGED pollVars
  BY DEF Next
<1>8. Next => QspiNext \/ UNCHANGED qspiVars
  BY DEF Next
<1>9. Next => AdcNext \/ UNCHANGED adcVars
  BY DEF Next
<1>10. Next => ListNext \/ UNCHANGED listVars
  BY DEF Next
<1>11. Next => TimersNext \/ UNCHANGED timersVars
  BY DEF Next
<1>12. Next => ExtNext \/ UNCHANGED extVars
  BY DEF Next
<1>13. Next => TimingNext \/ UNCHANGED timingVars
  BY DEF Next
<1>14. Next => UNCHANGED part
  BY DEF Next
<1>15. UNCHANGED platformVars =>
         UNCHANGED <<part, timeVars, storageVars, usartVars, canVars, cdcVars, spiVars, pollVars,
                     qspiVars, adcVars, listVars, timersVars, extVars, timingVars>>
  OBVIOUS
<1> QED
  BY <1>1, <1>2, <1>3, <1>4, <1>5, <1>6, <1>7, <1>8, <1>9, <1>10, <1>11, <1>12, <1>13, <1>14, <1>15

-----------------------------------------------------------------------------
(* Local time. *)

\* What the handler has added up, and what that makes with the counter: the time it is,
\* once the interrupt that is pending has been served.
Kept   == seconds * Second + micros
Passed == (kReloadValue - counter) \div prescaler
Now    == Kept + (IF reloaded THEN kReloadValue \div prescaler ELSE 0) + Passed

Micros == 0..(Second - 1)
TickCounts  == 0..kReloadValue

TimeTypes ==
  /\ counter \in 0..(kReloadValue - 1) /\ reloaded \in BOOLEAN
  /\ seconds \in Nat /\ micros \in Micros /\ time \in Nat
  /\ reading \in [at : {"off", "micros", "ticks", "check"}, seconds : Nat, micros : Micros,
                  ticks : TickCounts]

\* What a reading has so far, and what it makes of it.
ReadKept == reading.seconds * Second + reading.micros
Result   == ReadKept + reading.ticks \div prescaler

\* No result is ahead of the time; and what was read is older than what is kept, or it is
\* that and makes a time between the last result and the present.
TimeInv ==
  /\ TimeTypes
  /\ time <= Now
  /\ reading.at # "off" => reading.seconds <= seconds
  /\ reading.at \in {"ticks", "check"} => ReadKept <= Kept
  /\ reading.at = "check" => ReadKept < Kept \/ (Settled(reading) /\ time <= Result /\ Result <= Now)

\* Seconds and microseconds of a second make a number in one way.
LEMMA Ranges ==
  /\ 0 \in Micros /\ 0 \in TickCounts /\ Micros \subseteq Nat /\ TickCounts \subseteq Nat
  /\ \A c \in 0..(kReloadValue - 1) : kReloadValue - c \in TickCounts
BY TimeAssumption DEF Micros, TickCounts

LEMMA SecondsUnique ==
  ASSUME NEW S \in Nat \ {0}, NEW a \in Nat, NEW b \in Nat, NEW i \in 0..(S - 1), NEW j \in 0..(S - 1),
         a * S + i = b * S + j
  PROVE  a = b /\ i = j
<1>1. ASSUME NEW x \in Nat, NEW y \in Nat, NEW m \in 0..(S - 1), x < y
      PROVE  x * S + m < y * S
  <2>1. PICK d \in Nat : y = x + 1 + d
    <3>1. y - x - 1 \in Nat /\ y = x + 1 + (y - x - 1)
      BY <1>1
    <3> QED BY <3>1
  <2>2. y * S = x * S + S + d * S /\ d * S \in Nat /\ x * S \in Nat
    BY <2>1
  <2> QED BY <2>2
<1>2. a * S \in Nat /\ b * S \in Nat
  OBVIOUS
<1>3. ~(a < b) /\ ~(b < a)
  BY <1>1, <1>2
<1> QED BY <1>3

\* Division keeps the order.
LEMMA Divided ==
  ASSUME NEW p \in Nat \ {0}, NEW a \in Nat, NEW b \in Nat, a <= b
  PROVE  a \div p \in Nat /\ b \div p \in Nat /\ a \div p <= b \div p
<1>1. p \in Nat /\ p > 0
  OBVIOUS
<1>2. a \div p \in Int /\ b \div p \in Int /\ 0 <= a \div p /\ 0 <= b \div p
  BY <1>1
<1>3. a \div p <= b \div p
  BY <1>1
<1> QED BY <1>2, <1>3

LEMMA Sums ==
  ASSUME NEW k \in Nat, NEW x \in Nat, NEW p \in Nat, NEW q \in Nat, p <= q
  PROVE  k + x + p \in Nat /\ k + x + q \in Nat /\ k + x + p <= k + x + q
OBVIOUS

LEMMA Positive == kReloadValue \in Nat \ {0} /\ prescaler \in Nat \ {0} /\ Second \in Nat \ {0}
BY TimeAssumption

LEMMA PeriodFits == kReloadValue \div prescaler \in 0..Second
<1> DEFINE t == kReloadValue \div prescaler
<1>1. t <= Second
  BY TimeAssumption, Zenon
<1>2. t \in Nat
  BY Positive, Divided
<1> HIDE DEF t
<1>3. t \in 0..Second
  BY <1>1, <1>2, Positive
<1> QED BY <1>3 DEF t

\* The time within a period.
LEMMA PassedNat ==
  ASSUME NEW c \in 0..(kReloadValue - 1)
  PROVE  (kReloadValue - c) \div prescaler \in Nat
BY Positive, Divided

LEMMA TimeFacts ==
  ASSUME TimeTypes
  PROVE  /\ counter \in 0..(kReloadValue - 1) /\ reloaded \in BOOLEAN
         /\ seconds \in Nat /\ micros \in 0..(Second - 1) /\ time \in Nat
         /\ reading.seconds \in Nat /\ reading.micros \in 0..(Second - 1) /\ reading.ticks \in Nat
         /\ Kept \in Nat /\ ReadKept \in Nat /\ Passed \in Nat /\ Result \in Nat /\ Now \in Nat
         /\ seconds * Second \in Nat /\ reading.seconds * Second \in Nat
<1>1. /\ counter \in 0..(kReloadValue - 1) /\ reloaded \in BOOLEAN
      /\ seconds \in Nat /\ micros \in 0..(Second - 1) /\ time \in Nat
      /\ reading.seconds \in Nat /\ reading.micros \in 0..(Second - 1) /\ reading.ticks \in Nat
  BY Ranges DEF TimeTypes, Micros
<1>2. seconds * Second \in Nat /\ reading.seconds * Second \in Nat
  BY <1>1, Positive
<1>3. Kept \in Nat /\ ReadKept \in Nat
  BY <1>1, <1>2, Positive DEF Kept, ReadKept
<1>4. Passed \in Nat /\ reading.ticks \div prescaler \in Nat
  BY <1>1, PassedNat, Positive, Divided DEF Passed
<1>5. (IF reloaded THEN kReloadValue \div prescaler ELSE 0) \in Nat
  BY PeriodFits
<1>6. Result \in Nat /\ Now \in Nat
  BY <1>3, <1>4, <1>5 DEF Result, Now
<1> QED BY <1>1, <1>2, <1>3, <1>4, <1>6

LEMMA TimeInits == Init => TimeInv
<1> SUFFICES ASSUME Init
             PROVE  TimeInv
  OBVIOUS
<1>1. /\ counter = kReloadValue - 1 /\ reloaded = FALSE /\ seconds = 0 /\ micros = 0
      /\ reading = Nothing /\ time = 0
  BY DEF Init, TimeInit
<1>2. TimeTypes
  <2>1. counter \in 0..(kReloadValue - 1)
    BY <1>1, Positive
  <2>2. reading \in [at : {"off", "micros", "ticks", "check"}, seconds : Nat, micros : Micros,
                    ticks : TickCounts]
    BY <1>1, Ranges DEF Nothing
  <2> QED BY <1>1, <2>1, <2>2, Ranges DEF TimeTypes
<1>3. Kept = 0
  BY <1>1, Positive DEF Kept
<1>4. Passed \in Nat
  BY <1>1, Positive, Divided DEF Passed
<1>5. Now = Passed
  BY <1>1, <1>3, <1>4 DEF Now
<1> QED BY <1>1, <1>2, <1>4, <1>5 DEF TimeInv, Nothing

\* The counter goes on.
LEMMA CountKeeps ==
  ASSUME TimeInv, Count
  PROVE  TimeInv' /\ time' >= time
<1>1. UNCHANGED <<seconds, micros, reading, time>>
  BY DEF Count
<1>2. Kept \in Nat /\ Kept' = Kept /\ ReadKept' = ReadKept /\ ReadKept \in Nat /\ Result' = Result
  BY <1>1, TimeFacts DEF TimeInv, Kept, ReadKept, Result
<1>9. Settled(reading)' <=> Settled(reading)
  BY <1>1 DEF Settled
<1>3. Result \in Nat
  BY TimeFacts DEF TimeInv
<1>4. TimeTypes'
  <2>1. counter' \in 0..(kReloadValue - 1) /\ reloaded' \in BOOLEAN
    <3>1. reloaded' \in BOOLEAN
      BY TimeFacts DEF Count, TimeInv
    <3>2. \/ counter > 0 /\ counter' = counter - 1
          \/ ~(counter > 0) /\ counter' = kReloadValue - 1
      BY DEF Count
    <3>3. counter \in 0..(kReloadValue - 1)
      BY TimeFacts DEF TimeInv
    <3>4. counter' \in 0..(kReloadValue - 1)
      BY <3>2, <3>3, Positive
    <3> QED BY <3>1, <3>4
  <2> QED BY <1>1, <2>1 DEF TimeInv, TimeTypes
<1>5. Now \in Nat /\ Now' \in Nat /\ Now <= Now'
  <2>1. Passed \in Nat /\ Passed' \in Nat
    BY <1>4, PassedNat DEF Passed, TimeInv, TimeTypes
  <2>2. CASE counter > 0
    <3>1. counter' = counter - 1 /\ reloaded' = reloaded
      BY <2>2 DEF Count
    <3>2. /\ kReloadValue - counter \in Nat /\ kReloadValue - counter' \in Nat
          /\ kReloadValue - counter <= kReloadValue - counter'
      BY <1>4, <3>1, Positive DEF TimeInv, TimeTypes
    <3>3. Passed <= Passed'
      BY <3>2, Positive, Divided DEF Passed
    <3> DEFINE k == Kept
               p == Passed
               q == Passed'
               x == IF reloaded THEN kReloadValue \div prescaler ELSE 0
    <3>4. x \in Nat
      BY PeriodFits
    <3>5. Now = Kept + x + Passed /\ Now' = Kept + x + Passed'
      BY <1>2, <3>1 DEF Now
    <3> HIDE DEF x
    <3>6. k + x + p \in Nat /\ k + x + q \in Nat /\ k + x + p <= k + x + q
      BY <1>2, <2>1, <3>3, <3>4, Sums
    <3> QED BY <3>5, <3>6
  <2>3. CASE counter = 0
    <3>1. reloaded = FALSE /\ reloaded' = TRUE
      BY <2>3 DEF Count, TimeInv, TimeTypes
    <3>2. Passed = kReloadValue \div prescaler
      BY <2>3, Positive DEF Passed
    <3>3. Now = Kept + Passed /\ Now' = Kept + Passed + Passed'
      <4> DEFINE t == kReloadValue \div prescaler
      <4>1. t \in Nat
        BY PeriodFits
      <4>2. Now = Kept + 0 + Passed /\ Now' = Kept + t + Passed'
        BY <1>2, <3>1 DEF Now
      <4>3. Kept + 0 + Passed = Kept + Passed
        BY <1>2, <2>1
      <4> QED BY <3>2, <4>2, <4>3
    <3> DEFINE k == Kept
               p == Passed
               q == Passed'
    <3> HIDE DEF k, p, q
    <3>4. k \in Nat /\ p \in Nat /\ q \in Nat
      BY <1>2, <2>1 DEF k, p, q
    <3>5. k + p \in Nat /\ k + p + q \in Nat /\ k + p <= k + p + q
      BY <3>4
    <3> QED BY <3>3, <3>5 DEF k, p, q
  <2> QED BY <2>2, <2>3, TimeFacts DEF TimeInv
<1>6. time' <= Now'
  BY <1>1, <1>5 DEF TimeInv, TimeTypes
<1>7. Result <= Now => Result <= Now'
  BY <1>3, <1>5
<1>8. time' >= time
  BY <1>1 DEF TimeInv, TimeTypes
<1> QED BY <1>1, <1>2, <1>4, <1>6, <1>7, <1>8, <1>9 DEF TimeInv

LEMMA HandlerSums ==
  ASSUME sys_tick_handler
  PROVE  /\ reloaded /\ reloaded' = FALSE /\ UNCHANGED <<counter, reading, time>>
         /\ \/ /\ micros + kReloadValue \div prescaler >= Second
               /\ seconds' = seconds + 1
               /\ micros' = (micros + kReloadValue \div prescaler) - Second
            \/ /\ ~(micros + kReloadValue \div prescaler >= Second)
               /\ seconds' = seconds
               /\ micros' = micros + kReloadValue \div prescaler
<1>1. CASE micros + kReloadValue \div prescaler >= Second
  BY <1>1 DEF sys_tick_handler
<1>2. CASE ~(micros + kReloadValue \div prescaler >= Second)
  BY <1>2 DEF sys_tick_handler
<1> QED BY <1>1, <1>2

\* The handler: what the counter passed is kept.
LEMMA HandlerKeeps ==
  ASSUME TimeInv, sys_tick_handler
  PROVE  TimeInv' /\ time' >= time
<1>1. PICK t \in 0..Second :
        /\ t = kReloadValue \div prescaler
        /\ reloaded /\ reloaded' = FALSE /\ UNCHANGED <<counter, reading, time>>
        /\ \/ seconds' = seconds + 1 /\ micros' = micros + t - Second /\ micros + t >= Second
           \/ seconds' = seconds /\ micros' = micros + t /\ micros + t < Second
  <2>1. PICK t \in 0..Second : t = kReloadValue \div prescaler
    BY PeriodFits
  <2>2. reloaded /\ reloaded' = FALSE /\ UNCHANGED <<counter, reading, time>>
    BY HandlerSums
  <2>3. \/ micros + t >= Second /\ seconds' = seconds + 1 /\ micros' = (micros + t) - Second
        \/ ~(micros + t >= Second) /\ seconds' = seconds /\ micros' = micros + t
    BY HandlerSums, <2>1
  <2>4. micros \in 0..(Second - 1) /\ Second \in Nat
    BY TimeFacts, Positive DEF TimeInv
  <2>5. \/ seconds' = seconds + 1 /\ micros' = micros + t - Second /\ micros + t >= Second
        \/ seconds' = seconds /\ micros' = micros + t /\ micros + t < Second
    BY <2>3, <2>4
  <2> QED BY <2>1, <2>2, <2>5
<1>2. TimeTypes'
  <2>1. seconds' \in Nat /\ micros' \in Micros
    BY <1>1, TimeFacts, Positive DEF TimeInv, Micros
  <2> QED BY <1>1, <2>1 DEF TimeInv, TimeTypes
<1>3. Kept \in Nat /\ Kept' = Kept + t /\ ReadKept \in Nat
  <2>1. seconds * Second \in Nat /\ (seconds + 1) * Second = seconds * Second + Second
        /\ reading.seconds * Second \in Nat
    BY TimeFacts, Positive DEF TimeInv
  <2>2. micros \in Nat /\ Second \in Nat /\ ReadKept \in Nat /\ Kept \in Nat
    BY TimeFacts, Positive DEF TimeInv
  <2> QED BY <1>1, <2>1, <2>2 DEF Kept
<1>4. ReadKept' = ReadKept /\ Result' = Result /\ Passed' = Passed
  BY <1>1 DEF ReadKept, Result, Passed
<1>5. Passed \in Nat
  BY TimeFacts DEF TimeInv
<1>6. Now' = Now /\ Now \in Nat
  BY <1>1, <1>3, <1>4, <1>5 DEF Now
<1>7. CASE t = 0
  <2>1. UNCHANGED <<seconds, micros, reading, time>>
    <3>1. micros \in 0..(Second - 1) /\ Second \in Nat
      BY TimeFacts, Positive DEF TimeInv
    <3> QED BY <1>1, <1>7, <3>1
  <2>2. Settled(reading)' <=> Settled(reading)
    BY <2>1 DEF Settled
  <2> QED BY <1>2, <1>3, <1>4, <1>6, <1>7, <2>1, <2>2 DEF TimeInv, TimeTypes
<1>8. CASE t > 0
  <2>1. ReadKept <= Kept => ReadKept < Kept'
    BY <1>1, <1>3, <1>8
  <2>2. reading.seconds <= seconds => reading.seconds <= seconds'
    BY <1>1 DEF TimeInv, TimeTypes
  <2> QED BY <1>1, <1>2, <1>3, <1>4, <1>6, <2>1, <2>2 DEF TimeInv, TimeTypes
<1> QED BY <1>1, <1>7, <1>8

\* timestamp().
LEMMA TimestampKeeps ==
  ASSUME TimeInv, timestamp
  PROVE  TimeInv' /\ time' >= time
<1>1. reloaded = FALSE /\ UNCHANGED <<counter, reloaded, seconds, micros>>
  BY DEF timestamp, TimeInv, TimeTypes
<1>2. Kept' = Kept /\ Passed' = Passed /\ Now' = Now
  BY <1>1 DEF Kept, Passed, Now
<1>3. Kept \in Nat /\ Passed \in Nat /\ Now = Kept + Passed
  <2>1. Now = Kept + 0 + Passed
    BY <1>1 DEF Now
  <2> QED BY <2>1, TimeFacts DEF TimeInv
<1>4. CASE reading.at = "off"
  <2>1. reading' = [Nothing EXCEPT !.at = "micros", !.seconds = seconds] /\ time' = time
    BY <1>4 DEF timestamp
  <2>2. TimeTypes' /\ reading'.at = "micros" /\ reading'.seconds = seconds
    BY <1>1, <2>1, Ranges DEF TimeInv, TimeTypes, Nothing
  <2> QED BY <1>1, <1>2, <2>1, <2>2 DEF TimeInv, TimeTypes
<1>5. CASE reading.at = "micros"
  <2>1. reading' = [reading EXCEPT !.at = "ticks", !.micros = micros] /\ time' = time
    BY <1>5 DEF timestamp
  <2>2. /\ TimeTypes' /\ reading'.at = "ticks" /\ reading'.seconds = reading.seconds
        /\ reading'.micros = micros
    BY <1>1, <2>1, Ranges DEF TimeInv, TimeTypes
  <2>3. reading.seconds <= seconds
    BY <1>5 DEF TimeInv
  <2>4. reading.seconds * Second <= seconds * Second
    <3>1. PICK d \in Nat : seconds = reading.seconds + d
      <4>1. seconds - reading.seconds \in Nat /\ seconds = reading.seconds + (seconds - reading.seconds)
        BY <2>3 DEF TimeInv, TimeTypes
      <4> QED BY <4>1
    <3>2. seconds * Second = reading.seconds * Second + d * Second /\ d * Second \in Nat
          /\ reading.seconds * Second \in Nat
      BY <3>1, Positive DEF TimeInv, TimeTypes
    <3> QED BY <3>2
  <2>5. ReadKept' <= Kept'
    <3>1. seconds * Second \in Nat /\ reading.seconds * Second \in Nat /\ micros \in Nat
      BY TimeFacts DEF TimeInv
    <3>2. ReadKept' = reading.seconds * Second + micros
      BY <2>2 DEF ReadKept
    <3> QED BY <1>2, <2>4, <3>1, <3>2 DEF Kept
  <2> QED BY <1>1, <1>2, <2>1, <2>2, <2>3, <2>5 DEF TimeInv, TimeTypes
<1>6. CASE reading.at = "ticks"
  <2>1. reading' = [reading EXCEPT !.at = "check", !.ticks = kReloadValue - counter] /\ time' = time
    BY <1>6 DEF timestamp
  <2>2. /\ TimeTypes' /\ reading'.at = "check" /\ reading'.seconds = reading.seconds
        /\ reading'.micros = reading.micros /\ reading'.ticks = kReloadValue - counter
    BY <1>1, <2>1, Ranges DEF TimeInv, TimeTypes
  <2>3. ReadKept' = ReadKept /\ ReadKept \in Nat /\ ReadKept <= Kept
    BY <1>6, <2>2, TimeFacts DEF ReadKept, TimeInv
  <2>4. CASE ReadKept = Kept
    <3>1. reading.seconds = seconds /\ reading.micros = micros
      <4>1. reading.seconds * Second + reading.micros = seconds * Second + micros
        BY <2>4 DEF ReadKept, Kept
      <4>2. /\ seconds \in Nat /\ micros \in 0..(Second - 1)
            /\ reading.seconds \in Nat /\ reading.micros \in 0..(Second - 1)
        BY TimeFacts DEF TimeInv
      <4> QED BY <4>1, <4>2, Positive, SecondsUnique
    <3>2. Settled(reading)'
      BY <1>1, <2>2, <3>1 DEF Settled
    <3>3. Result' = Now'
      BY <1>1, <1>2, <1>3, <2>2, <2>3, <2>4 DEF Result, Passed
    <3> QED BY <1>1, <1>2, <1>3, <2>1, <2>2, <2>3, <3>1, <3>2, <3>3 DEF TimeInv, TimeTypes
  <2>5. CASE ReadKept < Kept
    BY <1>1, <1>2, <1>3, <1>6, <2>1, <2>2, <2>3, <2>5 DEF TimeInv, TimeTypes
  <2> QED BY <1>3, <2>3, <2>4, <2>5
<1>7. CASE reading.at = "check"
  <2>1. /\ reading' = Nothing
        /\ time' = IF Settled(reading) THEN Result ELSE time
    BY <1>7 DEF timestamp, Result, ReadKept
  <2>2. Result \in Nat
    BY TimeFacts DEF TimeInv
  <2>3. TimeTypes' /\ reading'.at = "off"
    <3>1. Nothing \in [at : {"off", "micros", "ticks", "check"}, seconds : Nat, micros : Micros,
                       ticks : TickCounts] /\ Nothing.at = "off"
      BY Ranges DEF Nothing
    <3> QED BY <1>1, <2>1, <2>2, <3>1 DEF TimeInv, TimeTypes
  <2>4. Settled(reading) => ReadKept = Kept
    BY DEF Settled, ReadKept, Kept
  <2>5. Settled(reading) => time <= Result /\ Result <= Now
    BY <1>3, <1>7, <2>4 DEF TimeInv
  <2>6. time' >= time /\ time' <= Now'
    BY <1>2, <1>3, <2>1, <2>2, <2>5 DEF TimeInv, TimeTypes
  <2> QED BY <2>3, <2>6 DEF TimeInv
<1> QED BY <1>4, <1>5, <1>6, <1>7 DEF TimeInv, TimeTypes

LEMMA TimeSteps ==
  ASSUME TimeInv, [TimeNext]_timeVars
  PROVE  TimeInv' /\ time' >= time
<1>1. CASE UNCHANGED timeVars
  BY <1>1 DEF timeVars, TimeInv, TimeTypes, Now, Kept, Passed, ReadKept, Result, Settled
<1> QED BY <1>1, CountKeeps, HandlerKeeps, TimestampKeeps DEF TimeNext

\* Time, as the thread reads it, never goes back, for every period of the interrupt that is
\* not longer than a second and wherever it falls into timestamp().
THEOREM TimeNeverGoesBack == Spec => TimeIsMonotone
<1>1. TimeInv /\ [Next]_platformVars => TimeInv'
  BY PartsApart, TimeSteps
<1>2. TimeInv /\ [Next]_platformVars => [time' >= time]_time
  BY PartsApart, TimeSteps
<1> QED BY <1>1, <1>2, TimeInits, PTL DEF Spec, TimeIsMonotone

-----------------------------------------------------------------------------
(* The configuration in flash. *)

\* What the words of the region hold.
ValueWords == {Word(v) : v \in Nat}
Checksums  == {Crc(t, w) : t \in Types, w \in Seq(ValueWords)}
Lost       == {Erased, Torn}
Cells      == ValueWords \union Checksums \union Lost

Configs == [Types -> Nat]
Memory  == [1..RegionWords -> Cells]

\* The first n words of what a firmware stores, and behind them none that is readable.
Copies(t, v) == [k \in 1..WordsOf[t] |-> Word(v)]

Written(m, s, l, n) ==
  \A e \in 1..Len(l) :
    /\ \A i \in (EntryEnds(l)[e - 1] + 1)..(EntryEnds(l)[e] - 1) : i <= n => m[i] = Word(s[l[e]])
    /\ EntryEnds(l)[e] <= n => m[EntryEnds(l)[e]] = Crc(l[e], Copies(l[e], s[l[e]]))

ImageOf(m, s, l, n) ==
  /\ Written(m, s, l, n)
  /\ \A i \in (n + 1)..RegionWords : m[i] \in Lost

\* Either nothing is loaded, or what one store() had, or a part of it, is in the region.
Readable(m) ==
  \/ m[1] = Erased
  \/ \E s \in stored, l \in Layouts : \E n \in 0..EntryEnds(l)[Len(l)] : ImageOf(m, s, l, n)

RegionInv ==
  /\ layout \in Layouts /\ memory \in Memory /\ stored \in SUBSET Configs
  /\ Readable(memory)

StorageInv ==
  /\ RegionInv
  /\ shadow \in Configs /\ edits \in Nat
  /\ storing \in [at : {"off", "erase", "write"}, next : Nat]
  /\ storing.at = "off" => storing = AtRest
  /\ storing = AtRest => locked
  /\ storing.at # "off" => shadow \in stored /\ kept = NotKept
  /\ storing.at = "erase" =>
       storing.next \in Pages /\ \A i \in 1..((storing.next - 1) * PageWords) : memory[i] = Erased
  /\ storing.at = "write" =>
       /\ storing.next \in 1..(Length + 1)
       /\ Written(memory, shadow, layout, storing.next - 1)
       /\ \A i \in storing.next..RegionWords : memory[i] = Erased
  /\ kept # NotKept => kept \in stored /\ ImageOf(memory, kept, layout, Length)

LEMMA Kinds3 ==
  /\ \A c \in ValueWords : c.kind = "word"
  /\ \A c \in Checksums : c.kind = "crc"
  /\ \A c \in Lost : c.kind \in {"erased", "torn"}
  /\ \A v \in Nat : Word(v) \in ValueWords
  /\ \A t, w : Crc(t, w).kind = "crc" /\ Crc(t, w).type = t /\ Crc(t, w).words = w
  /\ \A v : Word(v).kind = "word" /\ Word(v).value = v
  /\ Erased \in Lost /\ Torn \in Lost /\ Erased.kind = "erased"
<1>1. /\ \A v : Word(v).kind = "word" /\ Word(v).value = v
      /\ \A t, w : Crc(t, w).kind = "crc" /\ Crc(t, w).type = t /\ Crc(t, w).words = w
      /\ Erased.kind = "erased" /\ Torn.kind = "torn"
  BY DEF Word, Crc, Erased, Torn
<1>2. \A c \in ValueWords : c.kind = "word"
  BY <1>1 DEF ValueWords
<1>3. \A c \in Checksums : c.kind = "crc"
  BY <1>1 DEF Checksums
<1>4. \A c \in Lost : c.kind \in {"erased", "torn"}
  BY <1>1 DEF Lost
<1>5. Erased \in Lost /\ Torn \in Lost /\ \A v \in Nat : Word(v) \in ValueWords
  BY DEF Lost, ValueWords
<1> QED BY <1>1, <1>2, <1>3, <1>4, <1>5

\* A checksum in the region is one over words with values.
LEMMA CrcOfWords ==
  ASSUME NEW t, NEW w, Crc(t, w) \in Cells
  PROVE  w \in Seq(ValueWords)
<1>1. Crc(t, w) \in Checksums
  BY Kinds3 DEF Cells
<1>2. PICK u \in Types, x \in Seq(ValueWords) : Crc(t, w) = Crc(u, x)
  BY <1>1 DEF Checksums
<1> QED BY <1>2, Kinds3

\* Where the entries end.
LEMMA EntryPlaces ==
  ASSUME NEW l \in Layouts
  PROVE  /\ l \in Seq(Types) /\ Len(l) \in Nat
         /\ EntryEnds(l)[0] = 0
         /\ \A e \in 0..Len(l) : EntryEnds(l)[e] \in Nat
         /\ \A e \in 1..Len(l) : /\ l[e] \in Types /\ WordsOf[l[e]] \in Nat \ {0}
                                 /\ EntryEnds(l)[e] = EntryEnds(l)[e - 1] + WordsOf[l[e]] + 1
<1> DEFINE Steps(q) == q = [e \in 0..Len(l) |-> IF e = 0 THEN 0 ELSE q[e - 1] + WordsOf[l[e]] + 1]
           grow == [e \in 1..Len(l) |-> [k \in Nat |-> k + WordsOf[l[e]] + 1]]
           g == EntryEnds(l)
<1>1. l \in Seq(Types)
  BY StorageAssumption
<1>2. Len(l) \in Nat /\ \A e \in 1..Len(l) : l[e] \in Types
  BY <1>1
<1>3. \A e \in 1..Len(l) : WordsOf[l[e]] \in Nat \ {0}
  BY <1>2, StorageAssumption
<1>4. \E q : Steps(q)
  <2>1. grow \in [1..Len(l) -> [Nat -> Nat]]
    BY <1>3
  <2>2. \A e \in 1..Len(l) : \A k \in Nat : grow[e][k] = k + WordsOf[l[e]] + 1
    OBVIOUS
  <2> HIDE DEF grow
  <2>3. PICK h \in [0..Len(l) -> Nat] : Recursed(h, Len(l), 0, grow)
    BY <1>2, <2>1, Recursion
  <2>4. \A e \in 1..Len(l) : h[e] = h[e - 1] + WordsOf[l[e]] + 1
    <3>1. \A e \in 1..Len(l) : e - 1 \in 0..Len(l)
      BY <1>2
    <3> QED BY <2>2, <2>3, <3>1 DEF Recursed
  <2>5. h = [e \in 0..Len(l) |-> IF e = 0 THEN 0 ELSE h[e - 1] + WordsOf[l[e]] + 1]
    BY <1>2, <2>3, <2>4 DEF Recursed
  <2> QED BY <2>5
<1>5. Steps(g)
  BY <1>4, Zenon DEF EntryEnds
<1>6. g[0] = 0 /\ \A e \in 1..Len(l) : g[e] = g[e - 1] + WordsOf[l[e]] + 1
  <2> HIDE DEF g
  <2>1. g[0] = 0
    BY <1>2, <1>5
  <2>2. ASSUME NEW e \in 1..Len(l)
        PROVE  g[e] = g[e - 1] + WordsOf[l[e]] + 1
    <3>1. e \in 0..Len(l) /\ e # 0
      BY <1>2
    <3> QED BY <1>5, <3>1
  <2> QED BY <2>1, <2>2
<1> DEFINE T == {e \in Nat : e <= Len(l) => g[e] \in Nat}
<1>7. 0 \in T
  BY <1>6
<1>8. ASSUME NEW e \in Nat, e \in T
      PROVE  e + 1 \in T
  <2> SUFFICES ASSUME e + 1 <= Len(l)
               PROVE  g[e + 1] \in Nat
    OBVIOUS
  <2>1. g[e] \in Nat /\ e + 1 \in 1..Len(l) /\ (e + 1) - 1 = e
    BY <1>2, <1>8
  <2> HIDE DEF g
  <2> QED BY <1>3, <1>6, <2>1
<1>9. Nat \subseteq T
  <2> HIDE DEF T
  <2> QED BY <1>7, <1>8, Induction
<1>10. \A e \in 0..Len(l) : g[e] \in Nat
  BY <1>2, <1>9
<1> QED BY <1>1, <1>2, <1>3, <1>6, <1>10

\* An entry ends behind those before it.
LEMMA EntryOrder ==
  ASSUME NEW l \in Layouts, NEW d \in 0..Len(l), NEW e \in 0..Len(l), d <= e
  PROVE  /\ EntryEnds(l)[d] <= EntryEnds(l)[e] /\ EntryEnds(l)[e] <= RegionWords
         /\ EntryEnds(l)[d] \in Nat /\ EntryEnds(l)[e] \in Nat
<1> DEFINE g == EntryEnds(l)
<1>1. Len(l) \in Nat /\ \A i \in 0..Len(l) : g[i] \in Nat
  BY EntryPlaces
<1>2. \A i \in 1..Len(l) : g[i - 1] < g[i]
  <2> SUFFICES ASSUME NEW i \in 1..Len(l)
               PROVE  g[i - 1] < g[i]
    OBVIOUS
  <2>1. g[i] = g[i - 1] + WordsOf[l[i]] + 1 /\ WordsOf[l[i]] \in Nat
    BY EntryPlaces
  <2>2. i - 1 \in 0..Len(l)
    BY <1>1
  <2>3. g[i - 1] \in Nat
    BY <1>1, <2>2
  <2> HIDE DEF g
  <2> QED BY <2>1, <2>3
<1>3. g[Len(l)] <= RegionWords
  BY StorageAssumption
<1> HIDE DEF g
<1>4. ASSUME NEW a \in 0..Len(l)
      PROVE  \A b \in 0..Len(l) : a <= b => g[a] <= g[b]
  <2> DEFINE T == {k \in Nat : a + k <= Len(l) => g[a] <= g[a + k]}
  <2>1. 0 \in T
    BY <1>1
  <2>2. ASSUME NEW k \in Nat, k \in T
        PROVE  k + 1 \in T
    <3> SUFFICES ASSUME a + (k + 1) <= Len(l)
                 PROVE  g[a] <= g[a + (k + 1)]
      OBVIOUS
    <3>1. g[a] <= g[a + k] /\ a + (k + 1) \in 1..Len(l) /\ (a + (k + 1)) - 1 = a + k /\ a + k \in 0..Len(l)
      BY <1>1, <2>2
    <3>2. g[a + k] < g[a + (k + 1)]
      BY <1>2, <3>1
    <3>3. g[a] \in Nat /\ g[a + k] \in Nat /\ g[a + (k + 1)] \in Nat
      BY <1>1, <3>1
    <3> QED BY <3>1, <3>2, <3>3
  <2>3. Nat \subseteq T
    <3> HIDE DEF T
    <3> QED BY <2>1, <2>2, Induction
  <2>4. \A b \in 0..Len(l) : a <= b => b - a \in Nat /\ a + (b - a) = b /\ b <= Len(l)
    BY <1>1
  <2> QED BY <2>3, <2>4
<1>5. g[d] <= g[e] /\ g[e] <= g[Len(l)]
  <2>1. e <= Len(l) /\ Len(l) \in 0..Len(l)
    BY <1>1
  <2> QED BY <1>4, <2>1
<1>6. g[d] \in Nat /\ g[e] \in Nat /\ g[Len(l)] \in Nat /\ RegionWords \in Nat
  BY <1>1, StorageAssumption
<1>7. g[e] <= RegionWords
  BY <1>3, <1>5, <1>6
<1> QED BY <1>5, <1>6, <1>7 DEF g

\* load() of an entry.
ReadIn(m, l, e)  == SubSeq(m, EntryEnds(l)[e - 1] + 1, EntryEnds(l)[e] - 1)
ValidIn(m, l, e) == m[EntryEnds(l)[e]] # Erased /\ m[EntryEnds(l)[e]] = Crc(l[e], ReadIn(m, l, e))

LEMMA ReadWords ==
  ASSUME NEW m \in Memory, NEW l \in Layouts, NEW e \in 1..Len(l)
  PROVE  /\ ReadIn(m, l, e) \in Seq(Cells) /\ Len(ReadIn(m, l, e)) = WordsOf[l[e]]
         /\ \A k \in 1..WordsOf[l[e]] : ReadIn(m, l, e)[k] = m[EntryEnds(l)[e - 1] + k]
         /\ EntryEnds(l)[e - 1] \in Nat /\ WordsOf[l[e]] \in Nat \ {0}
         /\ EntryEnds(l)[e] = EntryEnds(l)[e - 1] + WordsOf[l[e]] + 1
         /\ EntryEnds(l)[e] \in 1..RegionWords
<1> DEFINE a == EntryEnds(l)[e - 1]
           b == EntryEnds(l)[e]
           w == WordsOf[l[e]]
<1>1. e - 1 \in 0..Len(l) /\ e \in 0..Len(l) /\ e - 1 <= e
  BY EntryPlaces
<1>2. a \in Nat /\ b \in Nat /\ b <= RegionWords /\ w \in Nat \ {0} /\ b = a + w + 1
  BY <1>1, EntryPlaces, EntryOrder
<1>3. m \in Seq(Cells) /\ Len(m) = RegionWords /\ RegionWords \in Nat
  <2>1. RegionWords \in Nat
    BY StorageAssumption
  <2> QED BY <2>1 DEF Memory
<1> HIDE DEF a, b, w
<1> DEFINE r == SubSeq(m, a + 1, b - 1)
<1>4. r \in Seq(Cells) /\ Len(r) = w /\ \A k \in 1..w : r[k] = m[a + k]
  <2>1. a + 1 \in 1..(Len(m) + 1) /\ b - 1 \in a..Len(m) /\ (b - 1) - (a + 1) + 1 = w
    BY <1>2, <1>3
  <2>2. r \in Seq(Cells) /\ Len(r) = (b - 1) - (a + 1) + 1
        /\ \A k \in 1..((b - 1) - (a + 1) + 1) : r[k] = m[(a + 1) + k - 1]
    BY <1>2, <1>3, <2>1, SubSeqProperties
  <2>3. \A k \in 1..w : (a + 1) + k - 1 = a + k
    BY <1>2
  <2> QED BY <2>1, <2>2, <2>3
<1>5. ReadIn(m, l, e) = r
  BY DEF ReadIn, a, b
<1> HIDE DEF r
<1> QED BY <1>2, <1>4, <1>5 DEF a, b, w

\* Nothing is loaded from a region whose first word is erased.
LEMMA NothingLoaded ==
  ASSUME NEW m \in Memory, NEW l \in Layouts, 1 \in 1..Len(l), m[1] = Erased
  PROVE  ~ValidIn(m, l, 1)
<1> SUFFICES ASSUME ValidIn(m, l, 1)
             PROVE  FALSE
  OBVIOUS
<1> DEFINE w == ReadIn(m, l, 1)
<1>1. EntryEnds(l)[1] \in 1..RegionWords /\ 1 \in 1..WordsOf[l[1]] /\ EntryEnds(l)[0] = 0
      /\ w \in Seq(Cells) /\ Len(w) = WordsOf[l[1]] /\ w[1] = m[EntryEnds(l)[0] + 1]
  <2>1. WordsOf[l[1]] \in Nat \ {0} /\ 1 - 1 = 0 /\ EntryEnds(l)[0] = 0
    BY ReadWords, EntryPlaces
  <2>2. 1 \in 1..WordsOf[l[1]]
    BY <2>1
  <2> QED BY <2>1, <2>2, ReadWords
<1>2. m[EntryEnds(l)[1]] \in Cells
  BY <1>1 DEF Memory
<1>3. m[EntryEnds(l)[1]] = Crc(l[1], w)
  BY DEF ValidIn
<1> HIDE DEF w
<1>4. w \in Seq(ValueWords)
  BY <1>2, <1>3, CrcOfWords
<1>5. w[1] \in ValueWords
  BY <1>1, <1>4
<1>6. w[1] = Erased
  BY <1>1
<1> QED BY <1>5, <1>6, Kinds3

\* Whatever the layout it is loaded with, an entry is one that was stored.
Same(l, k, n, e) ==
  /\ e <= Len(l) /\ k[e] = l[e] /\ EntryEnds(k)[e] = EntryEnds(l)[e] /\ EntryEnds(l)[e] <= n

LEMMA SameEntries ==
  ASSUME NEW m \in Memory, NEW s \in Configs, NEW l \in Layouts, NEW n \in 0..EntryEnds(l)[Len(l)],
         ImageOf(m, s, l, n),
         NEW k \in Layouts, NEW e \in 1..Len(k), ValidIn(m, k, e),
         e = 1 \/ Same(l, k, n, e - 1)
  PROVE  Same(l, k, n, e)
<1> DEFINE a == EntryEnds(k)[e - 1]
           b == EntryEnds(k)[e]
           c == EntryEnds(l)[e]
           w == ReadIn(m, k, e)
<1>0. Len(l) \in Nat /\ Len(k) \in Nat /\ EntryEnds(l)[Len(l)] \in Nat /\ n \in Nat /\ RegionWords \in Nat
      /\ EntryEnds(l)[Len(l)] <= RegionWords
  BY EntryPlaces, EntryOrder, StorageAssumption
<1>1. e - 1 <= Len(l) /\ EntryEnds(l)[e - 1] = a /\ a <= n /\ e - 1 \in 0..Len(l)
  <2>1. CASE e = 1
    BY <1>0, <2>1, EntryPlaces
  <2>2. CASE e # 1 /\ Same(l, k, n, e - 1)
    BY <1>0, <2>2 DEF Same
  <2> QED BY <2>1, <2>2
<1>2. /\ a \in Nat /\ b \in 1..RegionWords /\ WordsOf[k[e]] \in Nat \ {0} /\ b = a + WordsOf[k[e]] + 1
      /\ Len(w) = WordsOf[k[e]] /\ w \in Seq(Cells)
      /\ \A i \in 1..WordsOf[k[e]] : w[i] = m[a + i]
  BY ReadWords
<1>3. m[b] = Crc(k[e], w) /\ m[b] \in Cells
  BY <1>2 DEF ValidIn, Memory
<1>4. w \in Seq(ValueWords) /\ m[b].kind = "crc" /\ m[b].type = k[e]
  BY <1>3, CrcOfWords, Kinds3
<1>5. b <= n
  <2> SUFFICES ASSUME ~(b <= n)
               PROVE  FALSE
    OBVIOUS
  <2>1. b \in (n + 1)..RegionWords
    BY <1>0, <1>2
  <2>2. m[b] \in Lost
    BY <2>1 DEF ImageOf
  <2> QED BY <1>4, <2>2, Kinds3
<1>6. e \in 1..Len(l)
  <2> SUFFICES ASSUME e - 1 = Len(l)
               PROVE  FALSE
    BY <1>0, <1>1
  <2>1. a = EntryEnds(l)[Len(l)]
    BY <1>1
  <2> QED BY <1>0, <1>2, <1>5, <2>1
<1>7. c = a + WordsOf[l[e]] + 1 /\ WordsOf[l[e]] \in Nat \ {0} /\ c \in Nat
  BY <1>1, <1>6, ReadWords
<1>8. /\ \A i \in (a + 1)..(c - 1) : i <= n => m[i] = Word(s[l[e]])
      /\ c <= n => m[c] = Crc(l[e], Copies(l[e], s[l[e]]))
  BY <1>1, <1>6 DEF ImageOf, Written
<1> HIDE DEF a, b, c, w
<1>9. ~(b < c)
  <2> SUFFICES ASSUME b < c
               PROVE  FALSE
    OBVIOUS
  <2>1. b \in (a + 1)..(c - 1)
    <3>1. PICK x \in Nat \ {0} : b = a + x + 1
      BY <1>2
    <3>2. a \in Nat /\ b \in Nat /\ c \in Nat /\ b < c
      BY <1>2, <1>7
    <3> QED BY <3>1, <3>2
  <2> QED BY <1>4, <1>5, <1>8, <2>1, Kinds3
<1>10. ~(c < b)
  <2> SUFFICES ASSUME c < b
               PROVE  FALSE
    OBVIOUS
  <2>1. c <= n /\ c - a \in 1..WordsOf[k[e]] /\ a + (c - a) = c
    <3> DEFINE x == WordsOf[l[e]]
               y == WordsOf[k[e]]
    <3>1. c = a + x + 1 /\ b = a + y + 1 /\ x \in Nat \ {0} /\ y \in Nat \ {0}
      BY <1>2, <1>7
    <3>2. a \in Nat /\ b \in Nat /\ n \in Nat /\ b <= n /\ c < b
      BY <1>0, <1>2, <1>5
    <3> HIDE DEF x, y
    <3>3. c <= n /\ c - a \in 1..y /\ a + (c - a) = c
      BY <3>1, <3>2
    <3> QED BY <3>3 DEF y
  <2>2. w[c - a] = m[c] /\ m[c].kind = "crc"
    BY <1>2, <1>8, <2>1, Kinds3
  <2>3. w[c - a] \in ValueWords
    BY <1>2, <1>4, <2>1
  <2> QED BY <2>2, <2>3, Kinds3
<1>11. b = c
  BY <1>2, <1>7, <1>9, <1>10
<1>12. k[e] = l[e]
  BY <1>4, <1>5, <1>8, <1>11, Kinds3
<1> QED BY <1>5, <1>6, <1>11, <1>12 DEF Same, b, c

\* And so are its words.
LEMMA SameWords ==
  ASSUME NEW m \in Memory, NEW s \in Configs, NEW l \in Layouts, NEW n \in 0..EntryEnds(l)[Len(l)],
         ImageOf(m, s, l, n),
         NEW k \in Layouts, NEW e \in 1..Len(k), Same(l, k, n, e), e = 1 \/ Same(l, k, n, e - 1)
  PROVE  /\ k[e] \in Types /\ s[k[e]] \in Nat
         /\ 1 \in 1..WordsOf[k[e]]
         /\ \A i \in 1..WordsOf[k[e]] : ReadIn(m, k, e)[i] = Word(s[k[e]])
<1> DEFINE a == EntryEnds(k)[e - 1]
           b == EntryEnds(k)[e]
           z == WordsOf[k[e]]
<1>0. Len(l) \in Nat /\ Len(k) \in Nat /\ EntryEnds(l)[Len(l)] \in Nat /\ n \in Nat
  <2>1. Len(l) \in Nat /\ Len(k) \in Nat
    BY EntryPlaces
  <2>2. Len(l) \in 0..Len(l)
    BY <2>1
  <2>3. EntryEnds(l)[Len(l)] \in Nat
    BY <2>2, EntryPlaces
  <2> QED BY <2>1, <2>3
<1>1. EntryEnds(l)[e - 1] = a
  <2>1. CASE e = 1
    BY <2>1, EntryPlaces
  <2>2. CASE e # 1 /\ Same(l, k, n, e - 1)
    BY <2>2 DEF Same
  <2> QED BY <2>1, <2>2
<1>2. e \in 1..Len(l) /\ k[e] = l[e] /\ EntryEnds(l)[e] = b /\ b <= n
  BY <1>0 DEF Same
<1>3. a \in Nat /\ z \in Nat \ {0} /\ b = a + z + 1
      /\ \A i \in 1..z : ReadIn(m, k, e)[i] = m[a + i]
  BY ReadWords
<1>4. \A i \in (a + 1)..(b - 1) : i <= n => m[i] = Word(s[k[e]])
  BY <1>1, <1>2 DEF ImageOf, Written
<1>5. k[e] \in Types /\ s[k[e]] \in Nat
  <2>1. k[e] \in Types
    BY EntryPlaces
  <2> QED BY <2>1 DEF Configs
<1> HIDE DEF a, b, z
<1>6. ASSUME NEW i \in 1..z
      PROVE  ReadIn(m, k, e)[i] = Word(s[k[e]])
  <2>1. a + i \in (a + 1)..(b - 1) /\ a + i <= n
    BY <1>0, <1>2, <1>3
  <2> QED BY <1>3, <1>4, <2>1
<1>7. 1 \in 1..z
  BY <1>3
<1> QED BY <1>5, <1>6, <1>7 DEF z

\* The same, of the region as it is.
LEMMA ReadNow ==
  ASSUME layout \in Layouts
  PROVE  /\ Len(layout) \in Nat
         /\ \A e \in 1..Len(layout) :
              Read(e) = ReadIn(memory, layout, e) /\ (Valid(e) <=> ValidIn(memory, layout, e))
         /\ Length = EntryEnds(layout)[Len(layout)]
<1>1. Len(layout) \in Nat
  BY EntryPlaces
<1>2. ASSUME NEW e \in 1..Len(layout)
      PROVE  Read(e) = ReadIn(memory, layout, e) /\ (Valid(e) <=> ValidIn(memory, layout, e))
  <2>1. (e + 1) - 1 = e
    BY <1>1
  <2>2. Offset(e) = EntryEnds(layout)[e - 1] /\ Offset(e + 1) = EntryEnds(layout)[e]
    BY <2>1 DEF Offset
  <2>3. Read(e) = ReadIn(memory, layout, e)
    BY <2>2 DEF Read, ReadIn
  <2> QED BY <2>2, <2>3 DEF Valid, Checksum, ValidIn
<1>3. Length = EntryEnds(layout)[Len(layout)]
  <2>1. (Len(layout) + 1) - 1 = Len(layout)
    BY <1>1
  <2> QED BY <2>1 DEF Length, Offset
<1> QED BY <1>1, <1>2, <1>3

\* What is loaded is of one store().
OfOneStore(s) ==
  /\ Load \in [Types -> Nat]
  /\ \A e \in Loaded : /\ Load[layout[e]] = s[layout[e]]
                       /\ \A i \in 1..WordsOf[layout[e]] : Read(e)[i] = Word(s[layout[e]])

LEMMA LoadOfImage ==
  ASSUME layout \in Layouts, memory \in Memory, NEW s \in Configs, NEW l \in Layouts,
         NEW n \in 0..EntryEnds(l)[Len(l)], ImageOf(memory, s, l, n)
  PROVE  OfOneStore(s)
<1>1. Len(layout) \in Nat /\ Loaded \subseteq 1..Len(layout)
  BY ReadNow DEF Loaded
<1> DEFINE T == {d \in Nat : d \in Loaded => Same(l, layout, n, d)}
<1>2. \A d \in Loaded : /\ ValidIn(memory, layout, d)
                        /\ d = 1 \/ d - 1 \in Loaded
  <2> SUFFICES ASSUME NEW d \in Loaded
               PROVE  ValidIn(memory, layout, d) /\ (d = 1 \/ d - 1 \in Loaded)
    OBVIOUS
  <2>1. d \in 1..Len(layout) /\ \A i \in 1..d : Valid(i)
    BY DEF Loaded
  <2>2. d \in 1..d /\ 1..(d - 1) \subseteq 1..d /\ (d = 1 \/ d - 1 \in 1..Len(layout))
    BY <1>1, <2>1
  <2>3. d = 1 \/ d - 1 \in Loaded
    BY <2>1, <2>2 DEF Loaded
  <2> QED BY <2>1, <2>2, <2>3, ReadNow
<1>3. 0 \in T
  BY <1>1
<1>4. ASSUME NEW d \in Nat, d \in T
      PROVE  d + 1 \in T
  <2> SUFFICES ASSUME d + 1 \in Loaded
               PROVE  Same(l, layout, n, d + 1)
    OBVIOUS
  <2>1. (d + 1) - 1 = d /\ d + 1 \in 1..Len(layout)
    BY <1>1
  <2>2. d + 1 = 1 \/ Same(l, layout, n, d)
    BY <1>2, <1>4, <2>1
  <2> QED BY <1>2, <2>1, <2>2, SameEntries
<1>5. Nat \subseteq T
  <2> HIDE DEF T
  <2> QED BY <1>3, <1>4, Induction
<1>6. ASSUME NEW e \in Loaded
      PROVE  /\ Same(l, layout, n, e) /\ e \in 1..Len(layout)
             /\ layout[e] \in Types /\ s[layout[e]] \in Nat /\ 1 \in 1..WordsOf[layout[e]]
             /\ \A i \in 1..WordsOf[layout[e]] : Read(e)[i] = Word(s[layout[e]])
  <2>1. e \in 1..Len(layout) /\ Same(l, layout, n, e)
    BY <1>1, <1>5
  <2>2. e = 1 \/ Same(l, layout, n, e - 1)
    BY <1>1, <1>2, <1>5
  <2>3. Read(e) = ReadIn(memory, layout, e)
    BY <2>1, ReadNow
  <2> QED BY <2>1, <2>2, <2>3, SameWords
<1>7. ASSUME NEW e \in Loaded
      PROVE  Read(e)[1].value = s[layout[e]]
  BY <1>6, Kinds3
<1>8. ASSUME NEW t \in Types
      PROVE  /\ Load[t] \in Nat
             /\ \A e \in Loaded : layout[e] = t => Load[t] = s[t]
  <2>1. CASE \E e \in Loaded : layout[e] = t
    <3> DEFINE d == CHOOSE e \in Loaded : layout[e] = t
    <3>1. d \in Loaded /\ layout[d] = t
      BY <2>1
    <3>2. Load[t] = Read(d)[1].value
      BY <2>1 DEF Load
    <3> HIDE DEF d
    <3>3. Load[t] = s[t]
      BY <1>7, <3>1, <3>2
    <3> QED BY <3>3 DEF Configs
  <2>2. CASE ~ \E e \in Loaded : layout[e] = t
    BY <2>2 DEF Load
  <2> QED BY <2>1, <2>2
<1>9. Load \in [Types -> Nat]
  <2>1. \A t \in Types : Load[t] \in Nat
    BY <1>8
  <2> QED BY <2>1 DEF Load
<1> QED BY <1>6, <1>8, <1>9 DEF OfOneStore

LEMMA LoadOfNothing ==
  ASSUME layout \in Layouts, memory \in Memory, memory[1] = Erased
  PROVE  Loaded = {} /\ Load \in [Types -> Nat]
<1>1. Loaded = {}
  <2> SUFFICES ASSUME NEW e \in Loaded
               PROVE  FALSE
    OBVIOUS
  <2>1. e \in 1..Len(layout) /\ \A i \in 1..e : Valid(i)
    BY DEF Loaded
  <2>2. Len(layout) \in Nat
    BY ReadNow
  <2>3. 1 \in 1..Len(layout) /\ Valid(1)
    BY <2>1, <2>2
  <2>4. ValidIn(memory, layout, 1)
    BY <2>3, ReadNow
  <2> QED BY <2>3, <2>4, NothingLoaded
<1> QED BY <1>1 DEF Load

LEMMA RegionReads ==
  RegionInv => /\ Load \in [Types -> Nat]
               /\ Loaded = {} \/ \E s \in stored : OfOneStore(s)
<1> SUFFICES ASSUME RegionInv
             PROVE  Load \in [Types -> Nat] /\ (Loaded = {} \/ \E s \in stored : OfOneStore(s))
  OBVIOUS
<1>1. layout \in Layouts /\ memory \in Memory /\ stored \in SUBSET Configs
  BY DEF RegionInv
<1>2. CASE memory[1] = Erased
  BY <1>1, <1>2, LoadOfNothing
<1>3. CASE \E s \in stored, l \in Layouts : \E n \in 0..EntryEnds(l)[Len(l)] : ImageOf(memory, s, l, n)
  <2>1. PICK s \in stored, l \in Layouts : \E n \in 0..EntryEnds(l)[Len(l)] : ImageOf(memory, s, l, n)
    BY <1>3
  <2>2. s \in Configs
    BY <1>1
  <2>3. OfOneStore(s)
    BY <1>1, <2>1, <2>2, LoadOfImage
  <2> QED BY <2>3 DEF OfOneStore
<1> QED BY <1>2, <1>3 DEF RegionInv, Readable

LoadIsConfig == Load \in Configs

LEMMA LoadTyped == RegionInv => LoadIsConfig
BY RegionReads DEF LoadIsConfig, Configs

LEMMA LoadTypedNext == RegionInv' => LoadIsConfig'
BY LoadTyped, PTL

\* The entry that a word belongs to.
LEMMA EntryOfPlace ==
  ASSUME layout \in Layouts, NEW i \in 1..Length
  PROVE  \E e \in 1..Len(layout) :
           /\ EntryEnds(layout)[e - 1] < i /\ i <= EntryEnds(layout)[e]
           /\ EntryWord(i) = IF i = EntryEnds(layout)[e]
                             THEN Crc(layout[e], Copies(layout[e], shadow[layout[e]]))
                             ELSE Word(shadow[layout[e]])
<1> DEFINE g == EntryEnds(layout)
           Of(e) == g[e - 1] < i /\ i <= g[e]
           T == {e \in 1..Len(layout) : i <= g[e]}
<1>1. Len(layout) \in Nat /\ Length = g[Len(layout)] /\ g[0] = 0 /\ \A e \in 0..Len(layout) : g[e] \in Nat
  BY ReadNow, EntryPlaces
<1>2. i \in Nat /\ i >= 1 /\ i <= g[Len(layout)]
  BY <1>1
<1>3. \E e \in 1..Len(layout) : Of(e)
  <2>1. Len(layout) \in T
    <3>1. Len(layout) # 0
      BY <1>1, <1>2
    <3> QED BY <1>1, <1>2, <3>1
  <2>2. PICK e \in T : \A d \in T : e <= d
    <3>1. T \in SUBSET Nat /\ T # {}
      BY <1>1, <2>1
    <3> HIDE DEF T
    <3> QED BY <3>1, Smallest
  <2>3. e \in 1..Len(layout) /\ i <= g[e] /\ e - 1 \in 0..Len(layout)
    BY <1>1, <2>2
  <2>4. g[e - 1] < i
    <3>1. CASE e = 1
      BY <1>1, <1>2, <3>1
    <3>2. CASE e # 1
      <4>1. e - 1 \in 1..Len(layout) /\ ~(e <= e - 1)
        BY <1>1, <2>3, <3>2
      <4>2. ~(i <= g[e - 1])
        BY <2>2, <4>1
      <4>3. g[e - 1] \in Nat
        BY <1>1, <2>3
      <4> HIDE DEF g
      <4> QED BY <1>2, <4>2, <4>3
    <3> QED BY <3>1, <3>2
  <2> QED BY <2>3, <2>4
<1> DEFINE e == EntryOf(i)
<1>4. e \in 1..Len(layout) /\ Of(e)
  <2>1. \A d \in 1..Len(layout) : (d + 1) - 1 = d
    BY <1>1
  <2>2. \A d \in 1..Len(layout) : Of(d) <=> Offset(d) < i /\ i <= Offset(d + 1)
    BY <2>1 DEF Offset
  <2>3. \E d \in 1..Len(layout) : Offset(d) < i /\ i <= Offset(d + 1)
    BY <1>3, <2>2
  <2>4. e \in 1..Len(layout) /\ Offset(e) < i /\ i <= Offset(e + 1)
    BY <2>3 DEF EntryOf
  <2> HIDE DEF e, Of
  <2> QED BY <2>2, <2>4
<1>5. Offset(e + 1) = g[e]
  <2>1. (e + 1) - 1 = e
    BY <1>1, <1>4
  <2> QED BY <2>1 DEF Offset
<1>6. EntryWord(i) = IF i = g[e] THEN Crc(layout[e], Copies(layout[e], shadow[layout[e]]))
                     ELSE Word(shadow[layout[e]])
  BY <1>5 DEF EntryWord, Copies
<1> HIDE DEF e
<1> QED BY <1>4, <1>6

LEMMA StaysWritten ==
  ASSUME NEW m, NEW w, NEW s, NEW l \in Layouts, NEW n \in Nat, Written(m, s, l, n),
         \A i \in 1..n : w[i] = m[i]
  PROVE  Written(w, s, l, n)
<1> SUFFICES ASSUME NEW e \in 1..Len(l)
             PROVE  /\ \A i \in (EntryEnds(l)[e - 1] + 1)..(EntryEnds(l)[e] - 1) :
                         i <= n => w[i] = Word(s[l[e]])
                    /\ EntryEnds(l)[e] <= n => w[EntryEnds(l)[e]] = Crc(l[e], Copies(l[e], s[l[e]]))
  BY DEF Written
<1> DEFINE a == EntryEnds(l)[e - 1]
           b == EntryEnds(l)[e]
<1>1. a \in Nat /\ b \in Nat /\ b >= 1
  <2>1. e - 1 \in 0..Len(l) /\ e \in 0..Len(l) /\ WordsOf[l[e]] \in Nat /\ b = a + WordsOf[l[e]] + 1
    BY EntryPlaces
  <2>2. a \in Nat
    BY <2>1, EntryPlaces
  <2> HIDE DEF a, b
  <2> QED BY <2>1, <2>2
<1>2. /\ \A i \in (a + 1)..(b - 1) : i <= n => m[i] = Word(s[l[e]])
      /\ b <= n => m[b] = Crc(l[e], Copies(l[e], s[l[e]]))
  BY DEF Written
<1> HIDE DEF a, b
<1>3. ASSUME NEW i \in (a + 1)..(b - 1), i <= n
      PROVE  w[i] = Word(s[l[e]])
  <2>1. i \in 1..n
    BY <1>1, <1>3
  <2> QED BY <1>2, <1>3, <2>1
<1>4. ASSUME b <= n
      PROVE  w[b] = Crc(l[e], Copies(l[e], s[l[e]]))
  <2>1. b \in 1..n
    BY <1>1, <1>4
  <2> QED BY <1>2, <1>4, <2>1
<1> QED BY <1>3, <1>4 DEF a, b

\* One word more.
LEMMA WordWritten ==
  ASSUME layout \in Layouts, memory \in Memory, shadow \in Configs, NEW n \in 1..Length,
         Written(memory, shadow, layout, n - 1)
  PROVE  LET m == [memory EXCEPT ![n] = EntryWord(n)]
         IN  Written(m, shadow, layout, n) /\ m \in Memory
<1> DEFINE g == EntryEnds(layout)
           m == [memory EXCEPT ![n] = EntryWord(n)]
<1>1. /\ Len(layout) \in Nat /\ Length = g[Len(layout)] /\ \A e \in 0..Len(layout) : g[e] \in Nat
      /\ Length <= RegionWords /\ RegionWords \in Nat /\ Length \in Nat
  BY ReadNow, EntryPlaces, EntryOrder, StorageAssumption
<1>2. n \in 1..RegionWords /\ n - 1 \in Nat /\ \A i \in 1..(n - 1) : i # n /\ i \in 1..RegionWords
  BY <1>1
<1>3. m[n] = EntryWord(n) /\ \A i \in 1..(n - 1) : m[i] = memory[i]
  BY <1>2 DEF Memory
<1>4. PICK e \in 1..Len(layout) :
        /\ g[e - 1] < n /\ n <= g[e]
        /\ EntryWord(n) = IF n = g[e] THEN Crc(layout[e], Copies(layout[e], shadow[layout[e]]))
                          ELSE Word(shadow[layout[e]])
  BY EntryOfPlace
<1>5. Written(m, shadow, layout, n - 1)
  <2> HIDE DEF m
  <2> QED BY <1>2, <1>3, StaysWritten
<1>6. EntryWord(n) \in Cells
  <2>1. layout[e] \in Types
    BY EntryPlaces
  <2>2. shadow[layout[e]] \in Nat
    BY <2>1 DEF Configs
  <2>3. Word(shadow[layout[e]]) \in ValueWords
    BY <2>2, Kinds3
  <2>4. Copies(layout[e], shadow[layout[e]]) \in Seq(ValueWords)
    <3>1. WordsOf[layout[e]] \in Nat
      BY EntryPlaces
    <3> QED BY <2>3, <3>1 DEF Copies
  <2>5. Crc(layout[e], Copies(layout[e], shadow[layout[e]])) \in Checksums
    BY <2>1, <2>4 DEF Checksums
  <2> QED BY <1>4, <2>3, <2>5 DEF Cells
<1>7. m \in Memory
  BY <1>6 DEF Memory
<1>8. ASSUME NEW d \in 1..Len(layout)
      PROVE  /\ \A i \in (g[d - 1] + 1)..(g[d] - 1) : i <= n => m[i] = Word(shadow[layout[d]])
             /\ g[d] <= n => m[g[d]] = Crc(layout[d], Copies(layout[d], shadow[layout[d]]))
  <2>1. /\ g[d - 1] \in Nat /\ g[d] \in Nat /\ g[e - 1] \in Nat /\ g[e] \in Nat
        /\ d \in 0..Len(layout) /\ d - 1 \in 0..Len(layout) /\ e \in 0..Len(layout) /\ e - 1 \in 0..Len(layout)
    BY <1>1
  <2>2. /\ \A i \in (g[d - 1] + 1)..(g[d] - 1) : i <= n - 1 => m[i] = Word(shadow[layout[d]])
        /\ g[d] <= n - 1 => m[g[d]] = Crc(layout[d], Copies(layout[d], shadow[layout[d]]))
    BY <1>5 DEF Written
  <2>3. g[d - 1] < n /\ n <= g[d] => d = e
    <3> SUFFICES ASSUME g[d - 1] < n, n <= g[d], d # e
                 PROVE  FALSE
      OBVIOUS
    <3>1. CASE d < e
      <4>1. d <= e - 1
        BY <1>1, <3>1
      <4>2. g[d] <= g[e - 1]
        BY <2>1, <4>1, EntryOrder
      <4> HIDE DEF g
      <4> QED BY <1>2, <1>4, <2>1, <4>2
    <3>2. CASE e < d
      <4>1. e <= d - 1
        BY <1>1, <3>2
      <4>2. g[e] <= g[d - 1]
        BY <2>1, <4>1, EntryOrder
      <4> HIDE DEF g
      <4> QED BY <1>2, <1>4, <2>1, <4>2
    <3> QED BY <1>1, <3>1, <3>2
  <2> HIDE DEF g, m
  <2>4. ASSUME NEW i \in (g[d - 1] + 1)..(g[d] - 1), i <= n
        PROVE  m[i] = Word(shadow[layout[d]])
    <3>1. CASE i <= n - 1
      BY <2>2, <3>1
    <3>2. CASE i = n
      <4>1. g[d - 1] < n /\ n <= g[d] /\ n # g[d]
        BY <1>2, <2>1, <3>2
      <4>2. d = e
        BY <2>3, <4>1
      <4> QED BY <1>3, <1>4, <3>2, <4>1, <4>2
    <3> QED BY <1>2, <2>1, <2>4, <3>1, <3>2
  <2>5. ASSUME g[d] <= n
        PROVE  m[g[d]] = Crc(layout[d], Copies(layout[d], shadow[layout[d]]))
    <3>1. CASE g[d] <= n - 1
      BY <2>2, <3>1
    <3>2. CASE g[d] = n
      <4>1. g[d - 1] < g[d]
        <5>1. g[d] = g[d - 1] + WordsOf[layout[d]] + 1 /\ WordsOf[layout[d]] \in Nat
          BY EntryPlaces DEF g
        <5> QED BY <2>1, <5>1
      <4>2. d = e
        BY <1>2, <2>1, <2>3, <3>2, <4>1
      <4> QED BY <1>3, <1>4, <3>2, <4>2
    <3> QED BY <1>2, <2>1, <2>5, <3>1, <3>2
  <2> QED BY <2>4, <2>5
<1> QED BY <1>7, <1>8 DEF Written

LEMMA StorageFacts ==
  ASSUME StorageInv
  PROVE  /\ layout \in Layouts /\ memory \in Memory /\ stored \in SUBSET Configs /\ shadow \in Configs
         /\ RegionWords \in Nat /\ 1 \in 1..RegionWords /\ PageWords \in Nat \ {0}
         /\ Length \in Nat /\ Length <= RegionWords /\ Length = EntryEnds(layout)[Len(layout)]
<1>1. layout \in Layouts
  BY DEF StorageInv, RegionInv
<1>2. Length = EntryEnds(layout)[Len(layout)] /\ Len(layout) \in 0..Len(layout)
  BY <1>1, ReadNow
<1>3. Length \in Nat /\ Length <= RegionWords
  BY <1>1, <1>2, EntryOrder
<1> QED BY <1>1, <1>2, <1>3, StorageAssumption DEF StorageInv, RegionInv

LEMMA WholePages ==
  RegionWords \div PageWords \in Nat /\ RegionWords = PageWords * (RegionWords \div PageWords)
<1>1. RegionWords \in Nat \ {0} /\ PageWords \in Nat \ {0} /\ RegionWords % PageWords = 0
  BY StorageAssumption
<1> QED BY <1>1

\* What the region holds while store() writes.
LEMMA WritingReadable ==
  ASSUME NEW m, NEW n \in 0..Length, layout \in Layouts, shadow \in stored,
         Written(m, shadow, layout, n), \A i \in (n + 1)..RegionWords : m[i] \in Lost
  PROVE  Readable(m)
<1>1. n \in 0..EntryEnds(layout)[Len(layout)]
  BY ReadNow
<1> QED BY <1>1 DEF Readable, ImageOf

LEMMA SetEntryKeeps == ASSUME StorageInv, NEW t \in Types, SetEntry(t) PROVE StorageInv'
<1>1. /\ UNCHANGED <<layout, memory, stored, storing, locked, kept>> /\ storing = AtRest
      /\ edits' = edits + 1 /\ shadow' = [shadow EXCEPT ![t] = edits + 1]
  BY DEF SetEntry, storageBounds
<1>2. shadow' \in Configs /\ edits' \in Nat
  BY <1>1 DEF StorageInv, Configs
<1>3. RegionInv' /\ Length' = Length
  BY <1>1 DEF StorageInv, RegionInv, Readable, Length, Offset
<1>4. storing.at = "off"
  BY <1>1 DEF AtRest
<1> QED BY <1>1, <1>2, <1>3, <1>4 DEF StorageInv

LEMMA StoreStartsKeeps == ASSUME StorageInv, StoreStarts PROVE StorageInv'
<1>1. /\ UNCHANGED <<layout, memory, shadow, edits>> /\ storing = AtRest
      /\ \/ /\ storing' = [at |-> "erase", next |-> 1] /\ locked' = FALSE
            /\ stored' = stored \union {shadow} /\ kept' = NotKept
         \/ storing' = AtRest /\ locked' = TRUE /\ UNCHANGED <<stored, kept>>
  BY DEF StoreStarts, Ends
<1>2. RegionInv' /\ Length' = Length
  <2>1. stored \subseteq stored' /\ stored' \in SUBSET Configs
    BY <1>1 DEF StorageInv, RegionInv
  <2>2. Readable(memory)'
    BY <1>1, <2>1 DEF StorageInv, RegionInv, Readable
  <2> QED BY <1>1, <2>1, <2>2 DEF StorageInv, RegionInv, Length, Offset
<1>3. CASE storing' = AtRest /\ locked' = TRUE /\ UNCHANGED <<stored, kept>>
  BY <1>1, <1>2, <1>3 DEF StorageInv, AtRest
<1>4. CASE /\ storing' = [at |-> "erase", next |-> 1] /\ locked' = FALSE
           /\ stored' = stored \union {shadow} /\ kept' = NotKept
  <2>1. 1 \in Pages
    <3>1. RegionWords = PageWords * (RegionWords \div PageWords) /\ RegionWords \div PageWords \in Nat
      BY WholePages
    <3>2. RegionWords \div PageWords # 0
      BY <3>1, StorageAssumption
    <3> QED BY <3>1, <3>2 DEF Pages
  <2>2. 1..((storing'.next - 1) * PageWords) = {}
    BY <1>4, StorageFacts
  <2> QED BY <1>1, <1>2, <1>4, <2>1, <2>2 DEF StorageInv, AtRest
<1> QED BY <1>1, <1>3, <1>4

LEMMA ErasePageKeeps == ASSUME StorageInv, ErasePage PROVE StorageInv'
<1> DEFINE p == storing.next
           W == PageWords
<1>1. /\ UNCHANGED <<layout, shadow, stored, kept, locked, edits>> /\ storing.at = "erase"
      /\ memory' = [i \in DOMAIN memory |-> IF i \in Page(p) THEN Erased ELSE memory[i]]
      /\ storing' = IF p + 1 \in Pages THEN [storing EXCEPT !.next = p + 1]
                    ELSE [at |-> "write", next |-> 1]
  BY DEF ErasePage, storageBounds
<1>2. /\ p \in Pages /\ shadow \in stored /\ kept = NotKept
      /\ \A i \in 1..((p - 1) * W) : memory[i] = Erased
      /\ storing \in [at : {"off", "erase", "write"}, next : Nat]
  BY <1>1 DEF StorageInv
<1>3. memory \in [1..RegionWords -> Cells] /\ Erased \in Cells
  BY Kinds3 DEF StorageInv, RegionInv, Memory, Cells
<1>4. memory' \in Memory
  BY <1>1, <1>3 DEF Memory
<1>5. /\ RegionWords \in Nat \ {0} /\ W \in Nat \ {0} /\ RegionWords \div W \in Nat
      /\ RegionWords = W * (RegionWords \div W)
  BY StorageAssumption, WholePages
<1>6. p \in Nat \ {0} /\ p <= RegionWords \div W
  BY <1>2, <1>5 DEF Pages
<1>7. Page(p) = ((p - 1) * W + 1)..(p * W) /\ (p - 1) * W \in Nat /\ p * W = (p - 1) * W + W /\ p * W \in Nat
  BY <1>5, <1>6 DEF Page
<1>8. p * W <= RegionWords
  <2> DEFINE q == RegionWords \div W
  <2>1. q \in Nat /\ RegionWords = W * q /\ p <= q
    BY <1>5, <1>6
  <2> HIDE DEF q
  <2>2. PICK d \in Nat : q = p + d
    <3>1. q - p \in Nat /\ q = p + (q - p)
      BY <1>6, <2>1
    <3> QED BY <3>1
  <2>3. W * q = p * W + d * W /\ d * W \in Nat
    BY <1>5, <1>6, <2>2
  <2> QED BY <1>7, <2>1, <2>3
<1> HIDE DEF p, W
<1>9. \A i \in 1..(p * W) : memory'[i] = Erased
  <2> SUFFICES ASSUME NEW i \in 1..(p * W)
               PROVE  memory'[i] = Erased
    OBVIOUS
  <2>1. i \in 1..RegionWords
    BY <1>5, <1>7, <1>8
  <2>2. i \in 1..((p - 1) * W) \/ i \in Page(p)
    BY <1>7
  <2> QED BY <1>1, <1>2, <1>3, <2>1, <2>2 DEF p, W
<1>10. RegionInv'
  <2>1. 1 \in 1..(p * W)
    BY <1>5, <1>7
  <2>2. memory'[1] = Erased
    BY <1>9, <2>1
  <2> QED BY <1>1, <1>4, <2>2 DEF StorageInv, RegionInv, Readable
<1>11. Length' = Length
  BY <1>1 DEF Length, Offset
<1>12. CASE p + 1 \in Pages
  <2>1. storing' = [storing EXCEPT !.next = p + 1]
    BY <1>1, <1>12 DEF p
  <2>2. storing'.at = "erase" /\ storing'.next = p + 1 /\ storing' \in [at : {"off", "erase", "write"}, next : Nat]
    BY <1>1, <1>2, <1>6, <2>1
  <2>3. (p + 1) - 1 = p
    BY <1>6
  <2>4. \A i \in 1..((storing'.next - 1) * W) : memory'[i] = Erased
    BY <1>9, <2>2, <2>3
  <2>5. shadow' \in Configs /\ edits' \in Nat
    BY <1>1 DEF StorageInv
  <2>6. storing' # AtRest
    BY <2>2 DEF AtRest
  <2> QED BY <1>1, <1>2, <1>10, <1>11, <1>12, <2>2, <2>4, <2>5, <2>6 DEF StorageInv, W
<1>13. CASE p + 1 \notin Pages
  <2>1. storing' = [at |-> "write", next |-> 1]
    BY <1>1, <1>13 DEF p
  <2>2. p * W = RegionWords
    <3>1. p = RegionWords \div W
      BY <1>5, <1>6, <1>13 DEF Pages, W
    <3> QED BY <1>5, <1>6, <3>1
  <2>3. \A i \in 1..RegionWords : memory'[i] = Erased
    BY <1>9, <2>2
  <2>4. Length \in Nat /\ layout \in Layouts
    BY StorageFacts
  <2>5. Written(memory', shadow, layout, 0)
    <3> SUFFICES ASSUME NEW e \in 1..Len(layout)
                 PROVE  /\ \A i \in (EntryEnds(layout)[e - 1] + 1)..(EntryEnds(layout)[e] - 1) : ~(i <= 0)
                        /\ ~(EntryEnds(layout)[e] <= 0)
      BY DEF Written
    <3>1. /\ EntryEnds(layout)[e] = EntryEnds(layout)[e - 1] + WordsOf[layout[e]] + 1
          /\ WordsOf[layout[e]] \in Nat /\ e - 1 \in 0..Len(layout)
      BY <2>4, EntryPlaces
    <3>2. EntryEnds(layout)[e - 1] \in Nat
      BY <2>4, <3>1, EntryPlaces
    <3> QED BY <3>1, <3>2
  <2>6. 1 \in 1..(Length + 1) /\ 1 - 1 = 0
    BY <2>4
  <2>7. shadow' \in Configs /\ edits' \in Nat /\ storing' # AtRest
    BY <1>1, <2>1 DEF StorageInv, AtRest
  <2> QED BY <1>1, <1>2, <1>10, <1>11, <2>1, <2>3, <2>5, <2>6, <2>7 DEF StorageInv
<1> QED BY <1>12, <1>13

LEMMA EraseFailsKeeps == ASSUME StorageInv, EraseFails PROVE StorageInv'
<1>1. /\ UNCHANGED <<layout, memory, shadow, stored, kept, edits>> /\ storing' = AtRest /\ locked' = TRUE
  BY DEF EraseFails, Ends
<1>2. RegionInv' /\ Length' = Length
  BY <1>1 DEF StorageInv, RegionInv, Readable, Length, Offset
<1> QED BY <1>1, <1>2 DEF StorageInv, AtRest

\* What the writing actions start from.
Writes(n) ==
  /\ layout \in Layouts /\ memory \in Memory /\ shadow \in Configs /\ shadow \in stored /\ kept = NotKept
  /\ Length \in Nat /\ n \in 1..(Length + 1) /\ n \in Nat /\ Length <= RegionWords /\ RegionWords \in Nat
  /\ Written(memory, shadow, layout, n - 1)
  /\ \A i \in n..RegionWords : memory[i] = Erased

LEMMA WriteState ==
  ASSUME StorageInv, storing.at = "write"
  PROVE  Writes(storing.next) /\ storing \in [at : {"off", "erase", "write"}, next : Nat]
<1>1. /\ layout \in Layouts /\ memory \in Memory /\ shadow \in Configs
      /\ Length \in Nat /\ Length <= RegionWords /\ RegionWords \in Nat
  BY StorageFacts
<1> DEFINE n == storing.next
<1>2. /\ shadow \in stored /\ kept = NotKept /\ n \in 1..(Length + 1)
      /\ Written(memory, shadow, layout, n - 1)
      /\ \A i \in n..RegionWords : memory[i] = Erased
  BY DEF StorageInv
<1>3. storing \in [at : {"off", "erase", "write"}, next : Nat]
  BY DEF StorageInv
<1> HIDE DEF n
<1>4. Writes(n)
  <2>1. n \in Nat
    BY <1>1, <1>2
  <2> QED BY <1>1, <1>2, <2>1 DEF Writes
<1> QED BY <1>3, <1>4 DEF n

LEMMA WriteWordKeeps == ASSUME StorageInv, WriteWord PROVE StorageInv'
<1> DEFINE n == storing.next
<1>1. /\ UNCHANGED <<layout, shadow, stored, kept, locked, edits>> /\ storing.at = "write" /\ n <= Length
      /\ memory' = [memory EXCEPT ![n] = EntryWord(n)]
      /\ storing' = [storing EXCEPT !.next = n + 1]
  BY DEF WriteWord, storageBounds
<1>2. Writes(n) /\ storing \in [at : {"off", "erase", "write"}, next : Nat]
  BY <1>1, WriteState
<1> HIDE DEF n
<1>3. n \in 1..Length /\ (n + 1) - 1 = n /\ n \in 0..Length /\ n + 1 \in 1..(Length + 1)
  BY <1>1, <1>2 DEF Writes
<1>4. Written(memory', shadow, layout, n) /\ memory' \in Memory
  BY <1>1, <1>2, <1>3, WordWritten DEF Writes
<1>5. \A i \in (n + 1)..RegionWords : memory'[i] = Erased
  <2> SUFFICES ASSUME NEW i \in (n + 1)..RegionWords
               PROVE  memory'[i] = Erased
    OBVIOUS
  <2>1. i \in n..RegionWords /\ i # n /\ i \in 1..RegionWords
    BY <1>2, <1>3 DEF Writes
  <2> QED BY <1>1, <1>2, <2>1 DEF Writes, Memory
<1>6. Readable(memory')
  <2>1. \A i \in (n + 1)..RegionWords : memory'[i] \in Lost
    BY <1>5, Kinds3
  <2> QED BY <1>2, <1>3, <1>4, <2>1, WritingReadable DEF Writes
<1>7. RegionInv' /\ Length' = Length
  <2>1. Readable(memory)'
    BY <1>1, <1>6 DEF Readable
  <2> QED BY <1>1, <1>4, <2>1 DEF StorageInv, RegionInv, Length, Offset
<1>8. storing' \in [at : {"off", "erase", "write"}, next : Nat] /\ storing'.at = "write" /\ storing'.next = n + 1
  BY <1>1, <1>2, <1>3 DEF Writes
<1>9. shadow' \in Configs /\ edits' \in Nat /\ storing' # AtRest
  BY <1>1, <1>8 DEF StorageInv, AtRest
<1> QED BY <1>1, <1>2, <1>3, <1>4, <1>5, <1>7, <1>8, <1>9 DEF StorageInv, Writes

LEMMA WriteFailsKeeps == ASSUME StorageInv, WriteFails PROVE StorageInv'
<1> DEFINE n == storing.next
<1>1. /\ UNCHANGED <<layout, shadow, stored, kept, edits>> /\ storing.at = "write" /\ n <= Length
      /\ memory' \in {memory, [memory EXCEPT ![n] = Torn]}
      /\ storing' = AtRest /\ locked' = TRUE
  BY DEF WriteFails, Ends
<1>2. Writes(n)
  BY <1>1, WriteState
<1> HIDE DEF n
<1>3. n \in 1..RegionWords /\ n - 1 \in 0..Length /\ n - 1 \in Nat /\ (n - 1) + 1 = n
      /\ \A i \in 1..(n - 1) : i # n /\ i \in 1..RegionWords
  BY <1>1, <1>2 DEF Writes
<1>4. memory \in [1..RegionWords -> Cells] /\ Torn \in Cells
  BY <1>2, Kinds3 DEF Writes, Memory, Cells
<1>5. memory' \in Memory /\ \A i \in 1..(n - 1) : memory'[i] = memory[i]
  BY <1>1, <1>3, <1>4 DEF Memory
<1>6. \A i \in n..RegionWords : memory'[i] \in Lost
  <2> SUFFICES ASSUME NEW i \in n..RegionWords
               PROVE  memory'[i] \in Lost
    OBVIOUS
  <2>1. memory[i] = Erased /\ i \in 1..RegionWords
    BY <1>2, <1>3 DEF Writes
  <2> QED BY <1>1, <1>4, <2>1, Kinds3
<1>7. Written(memory', shadow, layout, n - 1)
  BY <1>2, <1>3, <1>5, StaysWritten DEF Writes
<1>8. Readable(memory')
  BY <1>2, <1>3, <1>6, <1>7, WritingReadable DEF Writes
<1>9. RegionInv' /\ Length' = Length
  <2>1. Readable(memory)'
    BY <1>1, <1>8 DEF Readable
  <2> QED BY <1>1, <1>5, <2>1 DEF StorageInv, RegionInv, Length, Offset
<1> QED BY <1>1, <1>2, <1>9 DEF StorageInv, AtRest, Writes

LEMMA StoreEndsKeeps == ASSUME StorageInv, StoreEnds PROVE StorageInv'
<1>1. /\ UNCHANGED <<layout, memory, shadow, stored, edits>> /\ storing.at = "write" /\ storing.next > Length
      /\ storing' = AtRest /\ locked' = TRUE /\ kept' = shadow
  BY DEF StoreEnds, Ends, storageBounds
<1>2. Writes(storing.next)
  BY <1>1, WriteState
<1>3. storing.next - 1 = Length /\ storing.next = Length + 1
  BY <1>1, <1>2 DEF Writes
<1>5. ImageOf(memory, shadow, layout, Length)
  <2>1. \A i \in (Length + 1)..RegionWords : memory[i] \in Lost
    BY <1>2, <1>3, Kinds3 DEF Writes
  <2> QED BY <1>2, <1>3, <2>1 DEF Writes, ImageOf
<1>4. RegionInv' /\ Length' = Length
  BY <1>1 DEF StorageInv, RegionInv, Readable, Length, Offset
<1> QED BY <1>1, <1>2, <1>4, <1>5 DEF StorageInv, AtRest, Writes

LEMMA RestartKeeps == ASSUME StorageInv, Restart PROVE StorageInv'
<1>1. /\ UNCHANGED <<memory, stored, edits>> /\ layout' \in Layouts
      /\ storing' = AtRest /\ locked' = TRUE /\ shadow' = Load'
      /\ kept' = IF layout' = layout THEN kept ELSE NotKept
  BY DEF Restart
<1>2. RegionInv'
  BY <1>1 DEF StorageInv, RegionInv, Readable
<1>3. shadow' \in Configs
  BY <1>1, <1>2, LoadTypedNext DEF LoadIsConfig, Configs
<1>4. kept' # NotKept => kept' \in stored' /\ ImageOf(memory', kept', layout', Length')
  <2> SUFFICES ASSUME kept' # NotKept
               PROVE  kept' \in stored' /\ ImageOf(memory', kept', layout', Length')
    OBVIOUS
  <2>1. layout' = layout /\ kept' = kept
    BY <1>1
  <2>2. Length' = Length
    BY <2>1 DEF Length, Offset
  <2> QED BY <1>1, <2>1, <2>2 DEF StorageInv
<1> QED BY <1>1, <1>2, <1>3, <1>4 DEF StorageInv, AtRest

LEMMA StorageStarts == ASSUME StorageInit PROVE StorageInv
<1>1. /\ layout \in Layouts /\ memory = [i \in 1..RegionWords |-> Erased] /\ locked = TRUE
      /\ storing = AtRest /\ shadow = [t \in Types |-> 0] /\ stored = {} /\ kept = NotKept /\ edits = 0
  BY DEF StorageInit
<1>2. RegionInv
  <2>1. memory \in Memory /\ memory[1] = Erased
    <3>1. Erased \in Cells /\ 1 \in 1..RegionWords
      BY Kinds3, StorageAssumption DEF Cells
    <3> QED BY <1>1, <3>1 DEF Memory
  <2> QED BY <1>1, <2>1 DEF RegionInv, Readable
<1>3. storing \in [at : {"off", "erase", "write"}, next : Nat] /\ shadow \in Configs
  BY <1>1 DEF AtRest, Configs
<1> QED BY <1>1, <1>2, <1>3 DEF StorageInv, AtRest

LEMMA StorageKeeps == StorageInv /\ [StorageNext]_storageVars => StorageInv'
<1> SUFFICES ASSUME StorageInv, [StorageNext]_storageVars
             PROVE  StorageInv'
  OBVIOUS
<1>1. CASE UNCHANGED storageVars
  <2>1. UNCHANGED <<layout, memory, locked, storing, shadow, stored, kept, edits>>
    BY <1>1 DEF storageVars, storageBounds
  <2>2. RegionInv' /\ Length' = Length
    BY <2>1 DEF StorageInv, RegionInv, Readable, Length, Offset
  <2> QED BY <2>1, <2>2 DEF StorageInv
<1>2. CASE StorageNext
  BY <1>2, SetEntryKeeps, StoreStartsKeeps, ErasePageKeeps, EraseFailsKeeps, WriteWordKeeps,
     WriteFailsKeeps, StoreEndsKeeps, RestartKeeps DEF StorageNext
<1> QED BY <1>1, <1>2

\* What is in the region is as the property says.
LEMMA StorageTells == StorageInv => StorageSurvivesCrash
<1> SUFFICES ASSUME StorageInv
             PROVE  StorageSurvivesCrash
  OBVIOUS
<1>1. RegionInv /\ layout \in Layouts /\ memory \in Memory /\ stored \in SUBSET Configs
  BY DEF StorageInv, RegionInv
<1>2. Loaded # {} => \E s \in stored : \A e \in Loaded : Load[layout[e]] = s[layout[e]]
  BY <1>1, RegionReads DEF OfOneStore
<1>3. \A e \in Loaded : \A k \in 1..WordsOf[layout[e]] : Read(e)[k] = Word(Load[layout[e]])
  <2>1. CASE Loaded = {}
    BY <2>1
  <2>2. CASE Loaded # {}
    <3>1. PICK s \in stored : OfOneStore(s)
      BY <1>1, <2>2, RegionReads
    <3> QED BY <3>1 DEF OfOneStore
  <2> QED BY <2>1, <2>2
<1>4. ASSUME kept # NotKept
      PROVE  Loaded = 1..Len(layout) /\ \A e \in Loaded : Load[layout[e]] = kept[layout[e]]
  <2>1. kept \in Configs /\ ImageOf(memory, kept, layout, Length)
    BY <1>1, <1>4 DEF StorageInv
  <2>2. Length = EntryEnds(layout)[Len(layout)] /\ Length \in 0..Length /\ Len(layout) \in Nat
    BY StorageFacts, <1>1, EntryPlaces
  <2>3. OfOneStore(kept)
    BY <1>1, <2>1, <2>2, LoadOfImage
  <2>4. ASSUME NEW e \in 1..Len(layout)
        PROVE  Valid(e)
    <3> DEFINE b == EntryEnds(layout)[e]
               z == WordsOf[layout[e]]
               v == kept[layout[e]]
    <3>1. /\ ReadIn(memory, layout, e) \in Seq(Cells) /\ Len(ReadIn(memory, layout, e)) = z
          /\ z \in Nat \ {0}
      BY <1>1, ReadWords
    <3>2. e - 1 \in 0..Len(layout) /\ e \in 0..Len(layout) /\ Len(layout) \in 0..Len(layout)
          /\ e <= Len(layout)
      BY <2>2
    <3>3. b <= Length /\ (e = 1 \/ e - 1 \in 1..Len(layout))
      BY <1>1, <2>2, <3>2, EntryOrder
    <3>4. Same(layout, layout, Length, e) /\ (e = 1 \/ Same(layout, layout, Length, e - 1))
      <4>1. EntryEnds(layout)[e - 1] <= EntryEnds(layout)[Len(layout)]
        BY <1>1, <3>2, EntryOrder
      <4> QED BY <2>2, <3>2, <3>3, <4>1 DEF Same
    <3>5. \A i \in 1..z : ReadIn(memory, layout, e)[i] = Word(v)
      BY <1>1, <2>1, <2>2, <3>4, SameWords
    <3>6. ReadIn(memory, layout, e) = Copies(layout[e], v)
      <4> DEFINE r == ReadIn(memory, layout, e)
      <4> HIDE DEF r, z, v
      <4>1. r = [i \in 1..z |-> r[i]]
        BY <3>1 DEF r
      <4>2. \A i \in 1..z : r[i] = Word(v)
        BY <3>5 DEF r
      <4>3. r = [i \in 1..z |-> Word(v)]
        BY <4>1, <4>2
      <4> QED BY <4>3 DEF Copies, r, z, v
    <3>7. memory[b] = Crc(layout[e], Copies(layout[e], v))
      BY <2>1, <3>3 DEF ImageOf, Written
    <3>8. memory[b] # Erased
      BY <3>7, Kinds3
    <3> QED BY <1>1, <3>6, <3>7, <3>8, ReadNow DEF ValidIn
  <2>5. Loaded = 1..Len(layout)
    BY <2>2, <2>4 DEF Loaded
  <2> QED BY <2>3, <2>5 DEF OfOneStore
<1>5. storing = AtRest => locked
  BY DEF StorageInv
<1> QED BY <1>2, <1>3, <1>4, <1>5 DEF StorageSurvivesCrash

\* Wherever the power fails, what the next firmware loads is what one store() had, or a
\* part of it, and all of it once store() has succeeded (ConfigStorage, Flash).
THEOREM ConfigSurvives == Spec => []StorageSurvivesCrash
<1>1. Init => StorageInv
  BY StorageStarts DEF Init
<1>2. StorageInv /\ [Next]_platformVars => StorageInv'
  BY PartsApart, StorageKeeps
<1> QED BY <1>1, <1>2, StorageTells, PTL DEF Spec

-----------------------------------------------------------------------------
(* The driver of USART. *)

LEMMA MinOfTwo ==
  ASSUME NEW a \in Int, NEW b \in Int
  PROVE  Min({a, b}) = IF a <= b THEN a ELSE b
<1>1. \E x \in {a, b} : \A y \in {a, b} : x <= y
  OBVIOUS
<1>2. Min({a, b}) \in {a, b} /\ \A y \in {a, b} : Min({a, b}) <= y
  BY <1>1, Zenon DEF Min
<1> QED BY <1>2

\* What a line took and what came out of it: either grows, up to the other.
Flows(i, o, j, p) ==
  /\ i <= j /\ o <= p /\ (i = j \/ o = p) /\ p <= j

\* The bytes of the serial port are in the queues and in the registers in their order.
UsartFlags == flags \subseteq {"IDLE", "ORE"}

UsartRx ==
  /\ rdr \in Nat /\ said \in 0..MaxRxBytes /\ heard \in Nat
  /\ \E m \in Nat : /\ Ascends(rxQueue, heard, m) /\ m <= said
                    /\ rdr # 0 => m < rdr /\ rdr <= said
  /\ isr.at = "move" /\ "RXNE" \in isr.status => rdr # 0

UsartTx ==
  /\ tdr \in Nat /\ shift \in Nat /\ accepted \in 0..MaxTxBytes /\ sent \in Nat
  /\ Len(txQueue) <= TxSize
  /\ \E m \in Nat : Ascends(txQueue, m, accepted) /\ sent <= m /\ shift <= m /\ tdr <= m
  /\ shift # 0 => sent < shift
  /\ tdr # 0 => sent < tdr /\ shift < tdr

UsartInv == UsartFlags /\ UsartRx /\ UsartTx

LEMMA UsartStarts == ASSUME UsartInit PROVE UsartInv
<1>1. /\ rdr = 0 /\ tdr = 0 /\ shift = 0 /\ said = 0 /\ heard = 0 /\ accepted = 0 /\ sent = 0
      /\ rxQueue = <<>> /\ txQueue = <<>> /\ flags = {} /\ isr.at = "off"
  BY DEF UsartInit, Off
<1>2. Ascends(<<>>, 0, 0)
  BY AscendsEmpty
<1> QED BY <1>1, <1>2, UsartAssumption DEF UsartInv, UsartFlags, UsartRx, UsartTx

LEMMA UsartFlagsKeep ==
  ASSUME UsartFlags, [UsartNext]_usartVars
  PROVE  UsartFlags'
<1>1. flags' \subseteq flags \union {"IDLE", "ORE"}
  BY DEF UsartNext, UsartHardware, UsartHandler, UsartThread, usartVars, rxSide, AfterRead,
     ByteArrives, LineIdle, ByteShifts, LineCarries, HandlerEnters, HandlerMovesV1, HandlerMovesV2,
     HandlerLeaves, ReadStarts, ReadTests, ReadPops, Write, LineBreakReads, startLineBreakV1,
     stopLineBreakV1, setBaudrateV1, restartV2
<1> QED BY <1>1 DEF UsartFlags

\* What each step makes of either direction.
LEMMA UsartRxSteps ==
  ASSUME UsartFlags, UsartRx, [UsartNext]_usartVars
  PROVE  UsartRx' /\ Flows(said, heard, said', heard')
<1>1. PICK m \in Nat : /\ Ascends(rxQueue, heard, m) /\ m <= said
                       /\ rdr # 0 => m < rdr /\ rdr <= said
  BY DEF UsartRx
<1>2. rdr \in Nat /\ said \in 0..MaxRxBytes /\ said \in Nat /\ MaxRxBytes \in Nat /\ heard \in Nat /\ heard <= m
  BY <1>1, UsartAssumption DEF UsartRx, Ascends
<1>3. CASE UNCHANGED <<rxQueue, said, heard>> /\ (rdr' = rdr \/ rdr' = 0)
           /\ (isr'.at = "move" /\ "RXNE" \in isr'.status => rdr' # 0)
  <2>1. rdr' \in Nat /\ (rdr' # 0 => m < rdr' /\ rdr' <= said)
    BY <1>1, <1>2, <1>3
  <2> QED BY <1>1, <1>2, <1>3, <2>1 DEF UsartRx, Flows
<1>4. CASE ByteArrives
  <2>1. UNCHANGED <<rxQueue, heard>> /\ said < MaxRxBytes /\ said' = said + 1 /\ rdr' \in {said + 1, rdr}
        /\ rdr' # 0
    BY <1>2, <1>4 DEF ByteArrives
  <2>2. m <= said' /\ m < rdr' /\ rdr' <= said' /\ rdr' \in Nat /\ said' \in 0..MaxRxBytes
    <3>1. CASE rdr' = said + 1
      BY <1>1, <1>2, <2>1, <3>1
    <3>2. CASE rdr' = rdr
      BY <1>1, <1>2, <2>1, <3>2
    <3> QED BY <2>1, <3>1, <3>2
  <2> QED BY <1>1, <1>2, <2>1, <2>2 DEF UsartRx, Flows
<1>5. CASE ReadPops
  <2>1. rxQueue # <<>> /\ heard' = Head(rxQueue) /\ rxQueue' = Tail(rxQueue) /\ UNCHANGED <<rdr, said, isr>>
    BY <1>5 DEF ReadPops
  <2>2. Head(rxQueue) \in Nat /\ heard < Head(rxQueue) /\ Head(rxQueue) <= m
        /\ Ascends(Tail(rxQueue), Head(rxQueue), m)
    BY <1>1, <2>1, AscendsPop
  <2>3. heard <= heard' /\ heard' <= said'
    BY <1>1, <1>2, <2>1, <2>2
  <2> QED BY <1>1, <1>2, <2>1, <2>2, <2>3 DEF UsartRx, Flows
<1>6. CASE HandlerMovesV1 \/ HandlerMovesV2
  <2>1. Store /\ UNCHANGED <<said, heard>> /\ isr.at = "move" /\ isr'.at = "end"
    <3>1. isr' = [isr EXCEPT !.at = "end"] /\ isr.at = "move"
      BY <1>6 DEF HandlerMovesV1, HandlerMovesV2
    <3> QED BY <1>6, <3>1 DEF HandlerMovesV1, HandlerMovesV2
  <2>2. CASE UNCHANGED rxQueue /\ (rdr' = rdr \/ rdr' = 0)
    BY <1>3, <2>1, <2>2
  <2>3. CASE rxQueue' = Append(rxQueue, rdr) /\ rdr' = 0 /\ "RXNE" \in isr.status
    <3>1. rdr # 0
      BY <2>1, <2>3 DEF UsartRx
    <3>2. Ascends(rxQueue', heard', rdr)
      BY <1>1, <1>2, <2>1, <2>3, <3>1, AscendsAppend
    <3> QED BY <1>1, <1>2, <2>1, <2>3, <3>1, <3>2 DEF UsartRx, Flows
  <2> QED BY <2>1, <2>2, <2>3 DEF Store
<1>7. CASE UNCHANGED <<rxQueue, said, heard>> /\ UNCHANGED isr /\ UNCHANGED rdr
  BY <1>3, <1>7 DEF UsartRx
<1>8. CASE HandlerEnters
  <2>1. UNCHANGED <<rxQueue, said, heard, rdr>> /\ isr' = [at |-> "move", status |-> Status, cr1 |-> cr1]
    BY <1>8 DEF HandlerEnters, rxSide
  <2>2. "RXNE" \in Status => rdr # 0
    BY DEF Status, UsartFlags
  <2> QED BY <1>3, <2>1, <2>2
<1>9. CASE HandlerLeaves
  BY <1>3, <1>9 DEF HandlerLeaves, Off
<1>10. CASE restartV2
  BY <1>3, <1>10 DEF restartV2, Off
<1>11. CASE UNCHANGED usartVars
  BY <1>7, <1>11 DEF usartVars, rxSide
<1>12. CASE LineIdle \/ ByteShifts \/ LineCarries \/ ReadTests \/ LineBreakReads \/ startLineBreakV1
            \/ stopLineBreakV1 \/ setBaudrateV1 \/ (\E n \in 1..ReadLength : ReadStarts(n))
            \/ (\E n \in 1..(MaxTxBytes - accepted) : Write(n))
  BY <1>7, <1>12 DEF LineIdle, ByteShifts, LineCarries, ReadTests, LineBreakReads, startLineBreakV1,
     stopLineBreakV1, setBaudrateV1, ReadStarts, Write, rxSide
<1> QED
  BY <1>4, <1>5, <1>6, <1>8, <1>9, <1>10, <1>11, <1>12 DEF UsartNext, UsartHardware, UsartHandler, UsartThread

LEMMA UsartTxSteps ==
  ASSUME UsartTx, [UsartNext]_usartVars
  PROVE  UsartTx' /\ Flows(accepted, sent, accepted', sent')
<1>1. PICK m \in Nat : Ascends(txQueue, m, accepted) /\ sent <= m /\ shift <= m /\ tdr <= m
  BY DEF UsartTx
<1>2. /\ tdr \in Nat /\ shift \in Nat /\ accepted \in Nat /\ sent \in Nat /\ accepted <= MaxTxBytes
      /\ MaxTxBytes \in Nat /\ TxSize \in Nat /\ m <= accepted
      /\ txQueue \in Seq(Nat) /\ Len(txQueue) \in Nat /\ Len(txQueue) <= TxSize
      /\ shift # 0 => sent < shift
      /\ tdr # 0 => sent < tdr /\ shift < tdr
  BY <1>1, UsartAssumption DEF UsartTx, Ascends
<1>3. CASE UNCHANGED <<txQueue, accepted, sent, shift, tdr>>
  BY <1>1, <1>2, <1>3 DEF UsartTx, Flows
<1>4. CASE ByteShifts
  <2>1. shift = 0 /\ tdr # 0 /\ shift' = tdr /\ tdr' = 0 /\ UNCHANGED <<txQueue, accepted, sent>>
    BY <1>4 DEF ByteShifts
  <2> QED BY <1>1, <1>2, <2>1 DEF UsartTx, Flows
<1>5. CASE LineCarries
  <2>1. CASE shift # 0 /\ sent' = shift /\ shift' = 0 /\ UNCHANGED <<txQueue, accepted, tdr>>
    <3>1. sent <= sent' /\ sent' <= m /\ sent' <= accepted' /\ (tdr # 0 => sent' < tdr /\ 0 < tdr)
      BY <1>1, <1>2, <2>1
    <3> QED BY <1>1, <1>2, <2>1, <3>1 DEF UsartTx, Flows
  <2>2. CASE UNCHANGED <<txQueue, accepted, sent, shift, tdr>>
    BY <1>3, <2>2
  <2> QED BY <1>5, <2>1, <2>2 DEF LineCarries
<1>6. CASE HandlerMovesV1 \/ HandlerMovesV2
  <2>1. UNCHANGED <<accepted, sent, shift>> /\ (Transmit \/ UNCHANGED <<txQueue, tdr>>)
    BY <1>6 DEF HandlerMovesV1, HandlerMovesV2
  <2>2. CASE UNCHANGED <<txQueue, tdr>>
    BY <1>3, <2>1, <2>2
  <2>3. CASE txQueue # <<>> /\ tdr' = Head(txQueue) /\ txQueue' = Tail(txQueue)
    <3>1. Head(txQueue) \in Nat /\ m < Head(txQueue) /\ Head(txQueue) <= accepted
          /\ Ascends(Tail(txQueue), Head(txQueue), accepted)
      BY <1>1, <2>3, AscendsPop
    <3>2. Len(Tail(txQueue)) <= TxSize
      BY <1>2, <2>3
    <3>3. sent < tdr' /\ shift < tdr' /\ sent <= tdr' /\ shift <= tdr' /\ tdr' <= tdr'
      BY <1>1, <1>2, <2>3, <3>1
    <3> QED BY <1>2, <2>1, <2>3, <3>1, <3>2, <3>3 DEF UsartTx, Flows
  <2> QED BY <2>1, <2>2, <2>3 DEF Transmit
<1>7. ASSUME NEW n \in 1..(MaxTxBytes - accepted), Write(n)
      PROVE  UsartTx' /\ Flows(accepted, sent, accepted', sent')
  <2> DEFINE k == Min({n, TxSize - Len(txQueue)})
             new == [i \in 1..k |-> accepted + i]
  <2>1. txQueue' = txQueue \o new /\ accepted' = accepted + k /\ UNCHANGED <<tdr, shift, sent>>
    BY <1>7 DEF Write
  <2>2. k \in Nat /\ k <= n /\ k <= TxSize - Len(txQueue)
    BY <1>2, MinOfTwo
  <2> HIDE DEF k
  <2>3. Ascends(new, accepted, accepted + k) /\ Len(new) = k
    BY <1>2, <2>2, AscendsNew
  <2>4. new \in Seq(Nat)
    BY <2>3 DEF Ascends
  <2> HIDE DEF new
  <2>5. Ascends(txQueue', m, accepted') /\ Len(txQueue') <= TxSize
    BY <1>1, <1>2, <2>1, <2>2, <2>3, <2>4, AscendsJoin
  <2>6. accepted' \in 0..MaxTxBytes /\ accepted <= accepted' /\ sent' <= accepted'
    BY <1>1, <1>2, <1>7, <2>1, <2>2
  <2> QED BY <1>1, <1>2, <2>1, <2>5, <2>6 DEF UsartTx, Flows
<1>8. CASE restartV2
  <2>1. tdr' = 0 /\ shift' = 0 /\ UNCHANGED <<txQueue, accepted, sent>>
    BY <1>8 DEF restartV2
  <2> QED BY <1>1, <1>2, <2>1 DEF UsartTx, Flows
<1>9. CASE UNCHANGED usartVars
  BY <1>3, <1>9 DEF usartVars, txSide
<1>10. CASE ByteArrives \/ LineIdle \/ HandlerEnters \/ HandlerLeaves \/ ReadTests \/ ReadPops
            \/ LineBreakReads \/ startLineBreakV1 \/ stopLineBreakV1 \/ setBaudrateV1
            \/ (\E n \in 1..ReadLength : ReadStarts(n))
  BY <1>3, <1>10 DEF ByteArrives, LineIdle, HandlerEnters, HandlerLeaves, ReadTests, ReadPops, LineBreakReads,
     startLineBreakV1, stopLineBreakV1, setBaudrateV1, ReadStarts, txSide
<1> QED
  BY <1>4, <1>5, <1>6, <1>7, <1>8, <1>9, <1>10 DEF UsartNext, UsartHardware, UsartHandler, UsartThread

\* No step of the serial port is one of both directions.
LEMMA UsartFlows ==
  ASSUME [UsartNext]_usartVars
  PROVE  UNCHANGED <<said, heard>> \/ UNCHANGED <<accepted, sent>>
BY DEF UsartNext, UsartHardware, UsartHandler, UsartThread, usartVars, rxSide, txSide,
     ByteArrives, LineIdle, ByteShifts, LineCarries, HandlerEnters, HandlerMovesV1, HandlerMovesV2,
     HandlerLeaves, ReadStarts, ReadTests, ReadPops, Write, LineBreakReads, startLineBreakV1,
     stopLineBreakV1, setBaudrateV1, restartV2

-----------------------------------------------------------------------------
(* The driver of the USB port. *)

\* The bytes of the USB port wait in the queues and in the endpoints in their order.
CdcRxInv ==
  /\ hostSaid \in 0..MaxHostBytes /\ Len(cdcRx) <= QueueSize
  /\ \E m \in Nat : Ascends(cdcRx, cdcHeard, m) /\ Ascends(epOut, m, hostSaid)

CdcTxInv ==
  /\ cdcTaken \in 0..MaxCdcBytes /\ Len(cdcTx) <= QueueSize
  /\ \E m \in Nat : Ascends(epIn, cdcSent, m) /\ Ascends(cdcTx, m, cdcTaken)

LEMMA CdcStarts == ASSUME CdcInit PROVE CdcRxInv /\ CdcTxInv
<1>1. /\ cdcRx = <<>> /\ cdcTx = <<>> /\ epOut = <<>> /\ epIn = <<>>
      /\ hostSaid = 0 /\ cdcHeard = 0 /\ cdcTaken = 0 /\ cdcSent = 0
  BY DEF CdcInit
<1>2. Ascends(<<>>, 0, 0)
  BY AscendsEmpty
<1> QED BY <1>1, <1>2, CdcAssumption DEF CdcRxInv, CdcTxInv

\* What has place at the end of a queue, and what is left for the next packet.
LEMMA UptoAscends ==
  ASSUME NEW q, NEW a, NEW b, Ascends(q, a, b), NEW n \in Nat
  PROVE  \E m \in a..b : /\ Ascends(Upto(n, q), a, m) /\ Len(Upto(n, q)) <= n
                         /\ Ascends(From(n, q), m, b) /\ Len(From(n, q)) <= Len(q)
<1>1. q \in Seq(Nat) /\ Len(q) \in Nat /\ a \in Nat /\ b \in Nat /\ a <= b
  BY DEF Ascends
<1> DEFINE k == Min({n, Len(q)})
<1>2. k = IF n <= Len(q) THEN n ELSE Len(q)
  BY <1>1, MinOfTwo
<1>3. k \in 0..Len(q) /\ k <= n /\ (k = n \/ (k = Len(q) /\ Len(q) < n))
  BY <1>1, <1>2
<1>4. Upto(n, q) = SubSeq(q, 1, k)
  BY DEF Upto
<1> HIDE DEF k
<1>5. PICK m \in a..b : Ascends(SubSeq(q, 1, k), a, m) /\ Ascends(SubSeq(q, k + 1, Len(q)), m, b)
  BY <1>3, AscendsSplit
<1>6. Len(SubSeq(q, 1, k)) = k
  BY <1>1, <1>3
<1>7. CASE k = n
  <2>1. From(n, q) = SubSeq(q, k + 1, Len(q))
    BY <1>7 DEF From
  <2>2. Len(From(n, q)) <= Len(q)
    <3>1. n \in 0..Len(q)
      BY <1>3, <1>7
    <3>2. Len(SubSeq(q, n + 1, Len(q))) = Len(q) - n
      BY <1>1, <3>1
    <3> QED BY <1>1, <3>1, <3>2 DEF From
  <2> QED BY <1>3, <1>4, <1>5, <1>6, <2>1, <2>2
<1>8. CASE k = Len(q) /\ Len(q) < n
  <2>1. From(n, q) = <<>>
    <3>1. Len(q) < n + 1
      BY <1>1, <1>8
    <3> QED BY <1>1, <3>1, SubSeqEmpty DEF From
  <2>2. m \in Nat /\ m <= b
    BY <1>1
  <2>3. Ascends(<<>>, m, b) /\ Len(<<>>) <= Len(q)
    BY <1>1, <2>2, AscendsEmpty
  <2> QED BY <1>3, <1>4, <1>5, <1>6, <2>1, <2>3
<1> QED BY <1>3, <1>7, <1>8

LEMMA CdcRxSteps ==
  ASSUME CdcRxInv, [CdcNext]_cdcVars
  PROVE  CdcRxInv' /\ Flows(hostSaid, cdcHeard, hostSaid', cdcHeard')
<1>1. PICK m \in Nat : Ascends(cdcRx, cdcHeard, m) /\ Ascends(epOut, m, hostSaid)
  BY DEF CdcRxInv
<1>2. /\ hostSaid \in Nat /\ hostSaid <= MaxHostBytes /\ MaxHostBytes \in Nat /\ QueueSize \in Nat
      /\ cdcHeard \in Nat /\ cdcHeard <= m /\ m <= hostSaid
      /\ cdcRx \in Seq(Nat) /\ epOut \in Seq(Nat) /\ Len(cdcRx) \in Nat /\ Len(cdcRx) <= QueueSize
  BY <1>1, CdcAssumption DEF CdcRxInv, Ascends
<1>3. CASE UNCHANGED <<cdcRx, epOut, cdcHeard, hostSaid>>
  BY <1>1, <1>2, <1>3 DEF CdcRxInv, Flows
<1>4. CASE HostSends
  <2>1. hostSaid < MaxHostBytes /\ hostSaid' = hostSaid + 1 /\ epOut' = Append(epOut, hostSaid + 1)
        /\ UNCHANGED <<cdcRx, cdcHeard>>
    BY <1>4 DEF HostSends
  <2>2. Ascends(epOut', m, hostSaid')
    BY <1>1, <1>2, <2>1, AscendsAppend
  <2>3. hostSaid' \in 0..MaxHostBytes /\ hostSaid <= hostSaid' /\ cdcHeard' <= hostSaid'
    BY <1>2, <2>1
  <2> QED BY <1>1, <1>2, <2>1, <2>2, <2>3 DEF CdcRxInv, Flows
<1>5. CASE handleDataRx
  <2> DEFINE n == QueueSize - Len(cdcRx)
  <2>1. epOut' = <<>> /\ cdcRx' = cdcRx \o Upto(n, epOut) /\ UNCHANGED <<cdcHeard, hostSaid>>
    BY <1>5 DEF handleDataRx
  <2>2. n \in Nat /\ Len(cdcRx) + n <= QueueSize
    BY <1>2
  <2> HIDE DEF n
  <2>3. PICK k \in m..hostSaid : Ascends(Upto(n, epOut), m, k) /\ Len(Upto(n, epOut)) <= n
    BY <1>1, <2>2, UptoAscends
  <2>4. k \in Nat /\ Ascends(<<>>, k, hostSaid)
    BY <1>2, AscendsEmpty
  <2>5. Ascends(cdcRx', cdcHeard, k)
    BY <1>1, <2>1, <2>3, AscendsJoin
  <2>6. Len(cdcRx') <= QueueSize
    <3>1. Upto(n, epOut) \in Seq(Nat)
      BY <2>3 DEF Ascends
    <3>2. Len(cdcRx') = Len(cdcRx) + Len(Upto(n, epOut)) /\ Len(Upto(n, epOut)) \in Nat
      BY <1>2, <2>1, <3>1
    <3> QED BY <1>2, <2>2, <2>3, <3>2
  <2> QED BY <1>2, <2>1, <2>4, <2>5, <2>6 DEF CdcRxInv, Flows
<1>6. CASE setInterfaceConfig
  <2>1. epOut' = <<>> /\ UNCHANGED <<cdcRx, cdcHeard, hostSaid>>
    BY <1>6 DEF setInterfaceConfig
  <2>2. Ascends(<<>>, m, hostSaid)
    BY <1>2, AscendsEmpty
  <2> QED BY <1>1, <1>2, <2>1, <2>2 DEF CdcRxInv, Flows
<1>7. CASE CdcRead
  <2>1. cdcRx # <<>> /\ cdcHeard' = Head(cdcRx) /\ cdcRx' = Tail(cdcRx) /\ UNCHANGED <<epOut, hostSaid>>
    BY <1>7 DEF CdcRead
  <2>2. Head(cdcRx) \in Nat /\ cdcHeard < Head(cdcRx) /\ Head(cdcRx) <= m
        /\ Ascends(Tail(cdcRx), Head(cdcRx), m)
    BY <1>1, <2>1, AscendsPop
  <2>3. Len(Tail(cdcRx)) <= QueueSize
    BY <1>2, <2>1
  <2>4. cdcHeard <= cdcHeard' /\ cdcHeard' <= hostSaid'
    BY <1>2, <2>1, <2>2
  <2> QED BY <1>1, <1>2, <2>1, <2>2, <2>3, <2>4 DEF CdcRxInv, Flows
<1>8. CASE HostTakes \/ PacketTaken \/ \E n \in 1..(MaxCdcBytes - cdcTaken) : CdcWrite(n)
  BY <1>3, <1>8 DEF HostTakes, PacketTaken, CdcWrite
<1>9. CASE UNCHANGED cdcVars
  BY <1>3, <1>9 DEF cdcVars
<1> QED BY <1>4, <1>5, <1>6, <1>7, <1>8, <1>9 DEF CdcNext

\* The next packet, from a queue that goes on where the endpoint ends.
LEMMA NextPacket ==
  ASSUME NEW queue, NEW m \in Nat, NEW b, Ascends(epIn, cdcSent, m), Ascends(queue, m, b),
         Len(queue) <= QueueSize, handleDataTx(queue)
  PROVE  /\ Len(cdcTx') <= QueueSize
         /\ \E k \in Nat : Ascends(epIn', cdcSent, k) /\ Ascends(cdcTx', k, b)
<1>1. PacketSize \in Nat /\ QueueSize \in Nat /\ m \in Nat /\ b \in Nat /\ cdcSent \in Nat /\ cdcSent <= m
      /\ Len(queue) \in Nat
  BY CdcAssumption DEF Ascends
<1>2. cdcTx' = From(PacketSize, queue)
      /\ epIn' = IF epIn = <<>> THEN Upto(PacketSize, queue) ELSE epIn
  BY DEF handleDataTx
<1>3. PICK k \in m..b : /\ Ascends(Upto(PacketSize, queue), m, k)
                        /\ Ascends(From(PacketSize, queue), k, b)
                        /\ Len(From(PacketSize, queue)) <= Len(queue)
  BY <1>1, UptoAscends
<1>4. k \in Nat /\ m <= k /\ Len(cdcTx') <= QueueSize
  <2>1. From(PacketSize, queue) \in Seq(Nat)
    BY <1>3 DEF Ascends
  <2>2. Len(From(PacketSize, queue)) \in Nat
    BY <2>1
  <2> QED BY <1>1, <1>2, <1>3, <2>2
<1>5. Ascends(epIn', cdcSent, k)
  <2>1. CASE epIn = <<>>
    BY <1>1, <1>2, <1>3, <1>4, <2>1, AscendsWider
  <2>2. CASE epIn # <<>>
    BY <1>1, <1>2, <1>4, <2>2, AscendsWider
  <2> QED BY <2>1, <2>2
<1> QED BY <1>2, <1>3, <1>4, <1>5

LEMMA CdcTxSteps ==
  ASSUME CdcTxInv, [CdcNext]_cdcVars
  PROVE  CdcTxInv' /\ Flows(cdcTaken, cdcSent, cdcTaken', cdcSent')
<1>1. PICK m \in Nat : Ascends(epIn, cdcSent, m) /\ Ascends(cdcTx, m, cdcTaken)
  BY DEF CdcTxInv
<1>2. /\ cdcTaken \in Nat /\ cdcTaken <= MaxCdcBytes /\ MaxCdcBytes \in Nat /\ QueueSize \in Nat
      /\ cdcSent \in Nat /\ cdcSent <= m /\ m <= cdcTaken
      /\ cdcTx \in Seq(Nat) /\ epIn \in Seq(Nat) /\ Len(cdcTx) \in Nat /\ Len(cdcTx) <= QueueSize
  BY <1>1, CdcAssumption DEF CdcTxInv, Ascends
<1>3. CASE UNCHANGED <<cdcTx, epIn, cdcTaken, cdcSent>>
  BY <1>1, <1>2, <1>3 DEF CdcTxInv, Flows
<1>4. CASE HostTakes
  <2>1. epIn # <<>> /\ cdcSent' = Head(epIn) /\ epIn' = Tail(epIn) /\ UNCHANGED <<cdcTx, cdcTaken>>
    BY <1>4 DEF HostTakes
  <2>2. Head(epIn) \in Nat /\ cdcSent < Head(epIn) /\ Head(epIn) <= m /\ Ascends(Tail(epIn), Head(epIn), m)
    BY <1>1, <2>1, AscendsPop
  <2>3. cdcSent <= cdcSent' /\ cdcSent' <= cdcTaken'
    BY <1>2, <2>1, <2>2
  <2> QED BY <1>1, <1>2, <2>1, <2>2, <2>3 DEF CdcTxInv, Flows
<1>5. CASE PacketTaken
  <2>1. handleDataTx(cdcTx) /\ UNCHANGED <<cdcTaken, cdcSent>>
    BY <1>5 DEF PacketTaken
  <2>2. Len(cdcTx') <= QueueSize /\ \E k \in Nat : Ascends(epIn', cdcSent, k) /\ Ascends(cdcTx', k, cdcTaken)
    BY <1>1, <1>2, <2>1, NextPacket
  <2> QED BY <1>2, <2>1, <2>2 DEF CdcTxInv, Flows
<1>6. CASE setInterfaceConfig
  <2>1. epIn' = <<>> /\ UNCHANGED <<cdcTx, cdcTaken, cdcSent>>
    BY <1>6 DEF setInterfaceConfig
  <2>2. Ascends(<<>>, cdcSent, m)
    BY <1>2, AscendsEmpty
  <2> QED BY <1>1, <1>2, <2>1, <2>2 DEF CdcTxInv, Flows
<1>7. ASSUME NEW n \in 1..(MaxCdcBytes - cdcTaken), CdcWrite(n)
      PROVE  CdcTxInv' /\ Flows(cdcTaken, cdcSent, cdcTaken', cdcSent')
  <2> DEFINE k == Min({n, QueueSize - Len(cdcTx)})
             new == [i \in 1..k |-> cdcTaken + i]
             queue == cdcTx \o new
  <2>1. /\ k > 0 /\ cdcTaken' = cdcTaken + k /\ UNCHANGED cdcSent
        /\ \/ cdcTx' = queue /\ UNCHANGED epIn
           \/ handleDataTx(queue)
    BY <1>7 DEF CdcWrite
  <2>2. k \in Nat /\ k <= n /\ k <= QueueSize - Len(cdcTx)
    <3> DEFINE z == QueueSize - Len(cdcTx)
    <3>1. z \in Nat /\ n \in Nat
      BY <1>2
    <3>2. Min({n, z}) = IF n <= z THEN n ELSE z
      BY <3>1, MinOfTwo
    <3> QED BY <3>1, <3>2
  <2> HIDE DEF k
  <2>3. Ascends(new, cdcTaken, cdcTaken + k) /\ Len(new) = k
    BY <1>2, <2>2, AscendsNew
  <2>4. new \in Seq(Nat)
    BY <2>3 DEF Ascends
  <2> HIDE DEF new
  <2>5. Ascends(queue, m, cdcTaken') /\ Len(queue) <= QueueSize
    BY <1>1, <1>2, <2>1, <2>2, <2>3, <2>4, AscendsJoin
  <2>6. cdcTaken' \in 0..MaxCdcBytes /\ cdcTaken <= cdcTaken' /\ cdcSent <= cdcTaken'
    BY <1>1, <1>2, <1>7, <2>1, <2>2
  <2> HIDE DEF queue
  <2>7. Len(cdcTx') <= QueueSize /\ \E j \in Nat : Ascends(epIn', cdcSent, j) /\ Ascends(cdcTx', j, cdcTaken')
    <3>1. CASE cdcTx' = queue /\ UNCHANGED epIn
      BY <1>1, <2>5, <3>1
    <3>2. CASE handleDataTx(queue)
      BY <1>1, <2>5, <3>2, NextPacket
    <3> QED BY <2>1, <3>1, <3>2
  <2> QED BY <1>2, <2>1, <2>6, <2>7 DEF CdcTxInv, Flows
<1>8. CASE HostSends \/ handleDataRx \/ CdcRead
  BY <1>3, <1>8 DEF HostSends, handleDataRx, CdcRead
<1>9. CASE UNCHANGED cdcVars
  BY <1>3, <1>9 DEF cdcVars
<1> QED BY <1>4, <1>5, <1>6, <1>7, <1>8, <1>9 DEF CdcNext

LEMMA CdcFlows ==
  ASSUME [CdcNext]_cdcVars
  PROVE  UNCHANGED <<hostSaid, cdcHeard>> \/ UNCHANGED <<cdcTaken, cdcSent>>
BY DEF CdcNext, cdcVars, HostSends, HostTakes, handleDataRx, PacketTaken, setInterfaceConfig, CdcRead,
       CdcWrite

-----------------------------------------------------------------------------
(* The driver of CAN. *)

\* Frames are received in their order; those to be sent wait in the mailboxes, in any
\* order, and behind them in the queue.
CanRxInv ==
  /\ framesSaid \in 0..MaxRxFrames /\ Len(fifo) <= FifoDepth
  /\ \E m \in Nat : Ascends(received, framesHeard, m) /\ Ascends(fifo, m, framesSaid)

\* Frames in mailboxes are later than the last that was sent, up to one of them.
Boxed(boxes, a, m) ==
  /\ boxes \in [Boxes -> Nat]
  /\ \A b \in Boxes : boxes[b] # 0 => a < boxes[b] /\ boxes[b] <= m
  /\ \A b, c \in Boxes : boxes[b] # 0 /\ boxes[b] = boxes[c] => b = c

CanTxInv ==
  /\ framesTaken \in 0..MaxTxFrames /\ framesSent \in Nat /\ Len(frames) <= CanTxSize
  /\ \E m \in Nat : framesSent <= m /\ Boxed(box, framesSent, m) /\ Ascends(frames, m, framesTaken)

LEMMA CanStarts == ASSUME BxCanInit PROVE CanRxInv /\ CanTxInv
<1>1. /\ frames = <<>> /\ received = <<>> /\ fifo = <<>> /\ box = [b \in Boxes |-> 0]
      /\ framesSaid = 0 /\ framesHeard = 0 /\ framesTaken = 0 /\ framesSent = 0
  BY DEF BxCanInit
<1>2. Ascends(<<>>, 0, 0)
  BY AscendsEmpty
<1> QED BY <1>1, <1>2, BxCanAssumption DEF CanRxInv, CanTxInv, Boxed

\* A frame too many takes the place of the last one.
LEMMA LastReplaced ==
  ASSUME NEW q, NEW a, NEW b, Ascends(q, a, b), NEW n \in Nat, Len(q) <= n, NEW e \in Nat, b < e
  PROVE  Ascends([q EXCEPT ![n] = e], a, e) /\ Len([q EXCEPT ![n] = e]) = Len(q)
<1>1. /\ q \in Seq(Nat) /\ Len(q) \in Nat /\ a \in Nat /\ b \in Nat /\ a <= b
      /\ \A i \in 1..Len(q) : a < q[i] /\ q[i] <= b /\ q[i] \in Nat
      /\ \A i, j \in 1..Len(q) : i < j => q[i] < q[j]
  BY DEF Ascends
<1> DEFINE r == [q EXCEPT ![n] = e]
<1>2. /\ r \in Seq(Nat) /\ Len(r) = Len(q)
      /\ \A i \in 1..Len(q) : r[i] = IF i = n THEN e ELSE q[i]
  <2>1. r \in [1..Len(q) -> Nat] /\ \A i \in 1..Len(q) : r[i] = IF i = n THEN e ELSE q[i]
    <3>1. q \in [1..Len(q) -> Nat]
      BY <1>1
    <3> QED BY <3>1
  <2> HIDE DEF r
  <2> QED BY <1>1, <2>1
<1> HIDE DEF r
<1>3. ASSUME NEW i \in 1..Len(r)
      PROVE  a < r[i] /\ r[i] <= e
  BY <1>1, <1>2
<1>4. ASSUME NEW i \in 1..Len(r), NEW j \in 1..Len(r), i < j
      PROVE  r[i] < r[j]
  <2>1. i # n /\ r[i] = q[i] /\ q[i] <= b /\ q[i] \in Nat
    BY <1>1, <1>2, <1>4
  <2>2. CASE j = n
    BY <1>1, <1>2, <2>1, <2>2
  <2>3. CASE j # n
    BY <1>1, <1>2, <1>4, <2>1, <2>3
  <2> QED BY <2>2, <2>3
<1> QED BY <1>1, <1>2, <1>3, <1>4 DEF Ascends, r

LEMMA CanRxSteps ==
  ASSUME CanRxInv, [BxCanNext]_canVars
  PROVE  CanRxInv' /\ Flows(framesSaid, framesHeard, framesSaid', framesHeard')
<1>1. PICK m \in Nat : Ascends(received, framesHeard, m) /\ Ascends(fifo, m, framesSaid)
  BY DEF CanRxInv
<1>2. /\ framesSaid \in Nat /\ framesSaid <= MaxRxFrames /\ MaxRxFrames \in Nat /\ FifoDepth \in Nat \ {0}
      /\ framesHeard \in Nat /\ framesHeard <= m /\ m <= framesSaid
      /\ received \in Seq(Nat) /\ fifo \in Seq(Nat) /\ Len(fifo) \in Nat /\ Len(fifo) <= FifoDepth
  BY <1>1, BxCanAssumption DEF CanRxInv, Ascends
<1>3. CASE UNCHANGED <<received, fifo, framesHeard, framesSaid>>
  BY <1>1, <1>2, <1>3 DEF CanRxInv, Flows
<1>4. CASE BusReceives
  <2>1. framesSaid < MaxRxFrames /\ framesSaid' = framesSaid + 1 /\ UNCHANGED <<received, framesHeard>>
        /\ fifo' = IF Len(fifo) < FifoDepth THEN Append(fifo, framesSaid + 1)
                   ELSE [fifo EXCEPT ![FifoDepth] = framesSaid + 1]
    BY <1>4 DEF BusReceives
  <2>2. Ascends(fifo', m, framesSaid') /\ Len(fifo') <= FifoDepth
    <3>1. CASE Len(fifo) < FifoDepth
      <4>1. Ascends(fifo', m, framesSaid')
        BY <1>1, <1>2, <2>1, <3>1, AscendsAppend
      <4>2. Len(fifo') <= FifoDepth
        BY <1>2, <2>1, <3>1
      <4> QED BY <4>1, <4>2
    <3>2. CASE ~(Len(fifo) < FifoDepth)
      <4>1. framesSaid + 1 \in Nat /\ framesSaid < framesSaid + 1 /\ FifoDepth \in Nat
        BY <1>2
      <4>2. fifo' = [fifo EXCEPT ![FifoDepth] = framesSaid + 1]
        BY <2>1, <3>2
      <4> DEFINE e == framesSaid + 1
                 r == [fifo EXCEPT ![FifoDepth] = e]
      <4> HIDE DEF e
      <4>5. e \in Nat /\ framesSaid < e
        BY <4>1 DEF e
      <4>6. Ascends(r, m, e) /\ Len(r) = Len(fifo)
        BY <1>1, <1>2, <4>1, <4>5, LastReplaced
      <4>3. Ascends(fifo', m, framesSaid + 1) /\ Len(fifo') = Len(fifo)
        BY <4>2, <4>6 DEF e
      <4> QED BY <1>2, <2>1, <4>3
    <3> QED BY <3>1, <3>2
  <2>3. framesSaid' \in 0..MaxRxFrames /\ framesSaid <= framesSaid' /\ framesHeard' <= framesSaid'
    BY <1>2, <2>1
  <2> QED BY <1>1, <1>2, <2>1, <2>2, <2>3 DEF CanRxInv, Flows
<1>5. CASE ReadFrame
  <2>1. received # <<>> /\ framesHeard' = Head(received) /\ received' = Tail(received)
        /\ UNCHANGED <<fifo, framesSaid>>
    BY <1>5 DEF ReadFrame
  <2>2. Head(received) \in Nat /\ framesHeard < Head(received) /\ Head(received) <= m
        /\ Ascends(Tail(received), Head(received), m)
    BY <1>1, <2>1, AscendsPop
  <2>3. framesHeard <= framesHeard' /\ framesHeard' <= framesSaid'
    BY <1>2, <2>1, <2>2
  <2> QED BY <1>1, <1>2, <2>1, <2>2, <2>3 DEF CanRxInv, Flows
<1>6. CASE rxHandler
  <2>1. fifo # <<>> /\ fifo' = Tail(fifo) /\ UNCHANGED <<framesSaid, framesHeard>>
        /\ (received' = Append(received, Head(fifo)) \/ received' = received)
    BY <1>6 DEF rxHandler
  <2>2. Head(fifo) \in Nat /\ m < Head(fifo) /\ Head(fifo) <= framesSaid
        /\ Ascends(Tail(fifo), Head(fifo), framesSaid)
    BY <1>1, <2>1, AscendsPop
  <2>3. Len(Tail(fifo)) <= FifoDepth
    BY <1>2, <2>1
  <2>4. Ascends(received', framesHeard, Head(fifo))
    <3>1. CASE received' = Append(received, Head(fifo))
      BY <1>1, <2>2, <3>1, AscendsAppend
    <3>2. CASE received' = received
      <4>1. m <= Head(fifo)
        BY <2>2
      <4> QED BY <1>1, <1>2, <2>2, <3>2, <4>1, AscendsWider
    <3> QED BY <2>1, <3>1, <3>2
  <2> QED BY <1>2, <2>1, <2>2, <2>3, <2>4 DEF CanRxInv, Flows
<1>7. CASE BusCarries \/ BusFails \/ txHandler \/ \E n \in 1..(MaxTxFrames - framesTaken) : WriteFrames(n)
  BY <1>3, <1>7 DEF BusCarries, BusFails, txHandler, clearFailedTx, txHandlerFills, txHandlerLeaves,
     WriteFrames, canRxSide
<1>8. CASE UNCHANGED canVars
  BY <1>3, <1>8 DEF canVars, canRxSide
<1> QED BY <1>4, <1>5, <1>6, <1>7, <1>8 DEF BxCanNext

\* Empty mailboxes up to one of them.
EmptyUpto(boxes, b) == {c \in {d \in Boxes : boxes[d] = 0} : c <= b}

LEMMA EmptyBoxes ==
  ASSUME NEW boxes
  PROVE  /\ Cardinality({d \in Boxes : boxes[d] = 0}) \in 0..Mailboxes
         /\ \A b \in Boxes : boxes[b] = 0 =>
              /\ Cardinality(EmptyUpto(boxes, b)) \in 1..Cardinality({d \in Boxes : boxes[d] = 0})
              /\ \A c \in Boxes : c < b /\ boxes[c] = 0 =>
                   Cardinality(EmptyUpto(boxes, c)) < Cardinality(EmptyUpto(boxes, b))
<1> DEFINE E == {d \in Boxes : boxes[d] = 0}
           U(b) == EmptyUpto(boxes, b)
<1>1. Mailboxes \in Nat /\ IsFiniteSet(Boxes) /\ Cardinality(Boxes) = Mailboxes
  <2>1. Mailboxes \in Nat \ {0}
    BY BxCanAssumption
  <2>2. Mailboxes - 1 + 1 = Mailboxes /\ 1 \in Int /\ Mailboxes \in Int /\ ~(1 > Mailboxes)
    BY <2>1
  <2>3. IsFiniteSet(1..Mailboxes) /\ Cardinality(1..Mailboxes) = Mailboxes - 1 + 1
    BY <2>2, FS_Interval, Zenon
  <2> QED BY <2>1, <2>2, <2>3 DEF Boxes
<1>2. IsFiniteSet(E) /\ Cardinality(E) <= Mailboxes /\ Cardinality(E) \in Nat
  BY <1>1, FS_Subset, FS_CardinalityType
<1>3. ASSUME NEW b \in Boxes, boxes[b] = 0
      PROVE  /\ Cardinality(U(b)) \in 1..Cardinality(E)
             /\ \A c \in Boxes : c < b /\ boxes[c] = 0 => Cardinality(U(c)) < Cardinality(U(b))
  <2>1. U(b) \subseteq E /\ b \in U(b)
    BY <1>3 DEF EmptyUpto, Boxes
  <2>2. IsFiniteSet(U(b)) /\ Cardinality(U(b)) <= Cardinality(E) /\ Cardinality(U(b)) \in Nat
    BY <1>2, <2>1, FS_Subset, FS_CardinalityType
  <2>3. Cardinality(U(b)) # 0
    BY <2>1, <2>2, FS_EmptySet
  <2>4. ASSUME NEW c \in Boxes, c < b
        PROVE  Cardinality(U(c)) < Cardinality(U(b))
    <3>1. U(c) \subseteq U(b) /\ b \notin U(c)
      BY <1>1, <2>4 DEF EmptyUpto, Boxes
    <3>2. U(c) # U(b)
      BY <2>1, <3>1
    <3>3. /\ IsFiniteSet(U(c)) /\ Cardinality(U(c)) <= Cardinality(U(b))
          /\ Cardinality(U(c)) # Cardinality(U(b)) /\ Cardinality(U(c)) \in Nat
      BY <2>2, <3>1, <3>2, FS_Subset, FS_CardinalityType
    <3> HIDE DEF U
    <3> QED BY <2>2, <3>3
  <2> QED BY <1>2, <2>2, <2>3, <2>4
<1> QED BY <1>1, <1>2, <1>3

\* What the mailboxes hold once they are filled, and what is left for the queue.
LEMMA Refilled ==
  ASSUME NEW s, NEW m \in Nat, NEW z, Boxed(box, framesSent, m), framesSent \in Nat, framesSent <= m,
         Ascends(s, m, z), Refill(s)
  PROVE  /\ \E k \in Nat : framesSent <= k /\ Boxed(box', framesSent, k) /\ Ascends(frames', k, z)
         /\ \/ Len(frames') = 0
            \/ Len(frames') = Len(s) - Cardinality({b \in Boxes : box[b] = 0})
<1> DEFINE E == {b \in Boxes : box[b] = 0}
           C(b) == Cardinality(EmptyUpto(box, b))
           n == Min({Len(s), Cardinality(E)})
<1>1. /\ s \in Seq(Nat) /\ Len(s) \in Nat /\ m \in Nat /\ z \in Nat /\ m <= z
      /\ \A i \in 1..Len(s) : m < s[i] /\ s[i] <= z /\ s[i] \in Nat
      /\ \A i, j \in 1..Len(s) : i < j => s[i] < s[j]
  BY DEF Ascends
<1>2. /\ Cardinality(E) \in Nat
      /\ \A b \in E : C(b) \in 1..Cardinality(E)
      /\ \A b, c \in E : c < b => C(c) < C(b)
  <2>1. Cardinality(E) \in Nat
    BY EmptyBoxes, BxCanAssumption
  <2>2. \A b \in E : C(b) \in 1..Cardinality(E)
    BY EmptyBoxes
  <2>3. \A b, c \in E : c < b => C(c) < C(b)
    BY EmptyBoxes
  <2> QED BY <2>1, <2>2, <2>3
<1>3. n = IF Len(s) <= Cardinality(E) THEN Len(s) ELSE Cardinality(E)
  <2> DEFINE e == Cardinality(E)
  <2>1. e \in Int /\ Len(s) \in Int
    BY <1>1, <1>2
  <2>2. n = Min({Len(s), e})
    OBVIOUS
  <2> HIDE DEF E, e, n
  <2>3. n = IF Len(s) <= e THEN Len(s) ELSE e
    BY <2>1, <2>2, MinOfTwo
  <2> QED BY <2>3 DEF e
<1>4. box' = Fill(box, s) /\ frames' = SubSeq(s, n + 1, Len(s))
  BY DEF Refill
<1>5. n \in 0..Len(s) /\ \A b \in E : C(b) <= Len(s) => C(b) \in 1..n
  <2> DEFINE e == Cardinality(E)
  <2> HIDE DEF E
  <2>1. e \in Nat
    BY <1>2
  <2> HIDE DEF e, n, C
  <2> QED BY <1>1, <1>2, <1>3, <2>1 DEF e
<1>6. \A b \in Boxes : box'[b] = IF b \in E /\ C(b) <= Len(s) THEN s[C(b)] ELSE box[b]
  <2>1. \A b \in Boxes : EmptyUpto(box, b) = {c \in E : c <= b}
    BY DEF EmptyUpto
  <2> QED BY <1>4, <2>1 DEF Fill
<1>7. box' \in [Boxes -> Nat]
  <2>1. \A b \in Boxes : box'[b] \in Nat
    <3>1. ASSUME NEW b \in E, C(b) <= Len(s)
          PROVE  s[C(b)] \in Nat
      <4>1. PICK c \in Nat : c = C(b) /\ c \in 1..n
        BY <1>5, <3>1
      <4>2. c \in 1..Len(s)
        BY <1>1, <3>1, <4>1
      <4> QED BY <1>1, <4>1, <4>2
    <3> QED BY <1>6, <3>1 DEF Boxed
  <2>2. box' = [b \in Boxes |-> box'[b]]
    BY <1>4 DEF Fill
  <2> QED BY <2>1, <2>2
<1> HIDE DEF n, C
<1>8. PICK k \in m..z : Ascends(SubSeq(s, n + 1, Len(s)), k, z) /\ \A i \in 1..n : s[i] <= k
  BY <1>5, AscendsSplit
<1>9. k \in Nat /\ m <= k /\ framesSent <= k
  BY <1>1
<1>10. \A b \in Boxes : \/ b \in E /\ C(b) \in 1..n /\ C(b) \in 1..Len(s) /\ box'[b] = s[C(b)]
                        \/ box'[b] = box[b]
  <2>1. \A i \in 1..n : i \in 1..Len(s)
    BY <1>1, <1>5
  <2> QED BY <1>5, <1>6, <2>1
<1>11. /\ box \in [Boxes -> Nat]
       /\ \A b \in Boxes : box[b] # 0 => framesSent < box[b] /\ box[b] <= m
       /\ \A b, c \in Boxes : box[b] # 0 /\ box[b] = box[c] => b = c
  BY DEF Boxed
<1>12. ASSUME NEW b \in Boxes, box'[b] # 0
       PROVE  framesSent < box'[b] /\ box'[b] <= k
  <2>1. CASE C(b) \in 1..n /\ C(b) \in 1..Len(s) /\ box'[b] = s[C(b)]
    <3>1. m < s[C(b)] /\ s[C(b)] <= k /\ s[C(b)] \in Nat
      BY <1>1, <1>8, <2>1
    <3> QED BY <1>1, <2>1, <3>1
  <2>2. CASE box'[b] = box[b]
    <3>1. framesSent < box[b] /\ box[b] <= m /\ box[b] \in Nat
      BY <1>11, <1>12, <2>2
    <3> QED BY <1>1, <1>9, <2>2, <3>1
  <2> QED BY <1>10, <2>1, <2>2
<1>13. ASSUME NEW b \in Boxes, NEW c \in Boxes, c < b, box'[b] # 0
       PROVE  box'[b] # box'[c]
  <2>1. CASE /\ b \in E /\ C(b) \in 1..Len(s) /\ box'[b] = s[C(b)]
             /\ c \in E /\ C(c) \in 1..Len(s) /\ box'[c] = s[C(c)]
    <3>1. C(c) < C(b)
      BY <1>2, <1>13, <2>1
    <3>2. s[C(c)] < s[C(b)] /\ s[C(c)] \in Nat /\ s[C(b)] \in Nat
      BY <1>1, <2>1, <3>1
    <3> QED BY <2>1, <3>2
  <2>2. CASE C(b) \in 1..Len(s) /\ box'[b] = s[C(b)] /\ box'[c] = box[c]
    <3>1. m < s[C(b)] /\ s[C(b)] \in Nat
      BY <1>1, <2>2
    <3>2. box[c] <= m /\ box[c] \in Nat
      BY <1>1, <1>11
    <3> QED BY <1>1, <2>2, <3>1, <3>2
  <2>3. CASE C(c) \in 1..Len(s) /\ box'[c] = s[C(c)] /\ box'[b] = box[b]
    <3>1. m < s[C(c)] /\ s[C(c)] \in Nat
      BY <1>1, <2>3
    <3>2. box[b] <= m /\ box[b] \in Nat
      BY <1>1, <1>11
    <3> QED BY <1>1, <2>3, <3>1, <3>2
  <2>4. CASE box'[b] = box[b] /\ box'[c] = box[c]
    <3>1. b # c
      BY <1>13 DEF Boxes
    <3> QED BY <1>11, <1>13, <2>4, <3>1
  <2> QED BY <1>10, <2>1, <2>2, <2>3, <2>4
<1>14. \A b, c \in Boxes : box'[b] # 0 /\ box'[b] = box'[c] => b = c
  <2>1. \A b, c \in Boxes : b = c \/ b < c \/ c < b
    BY DEF Boxes
  <2> QED BY <1>13, <2>1
<1>15. Boxed(box', framesSent, k)
  BY <1>7, <1>12, <1>14 DEF Boxed
<1>16. Len(frames') = 0 \/ Len(frames') = Len(s) - Cardinality(E)
  <2>1. Len(frames') = Len(s) - n
    <3>1. n + 1 \in 1..(Len(s) + 1)
      BY <1>1, <1>5
    <3> QED BY <1>1, <1>4, <1>5, <3>1
  <2> DEFINE e == Cardinality(E)
  <2> HIDE DEF E
  <2>2. e \in Nat /\ n = IF Len(s) <= e THEN Len(s) ELSE e
    BY <1>2, <1>3
  <2> HIDE DEF e
  <2>3. Len(frames') = 0 \/ Len(frames') = Len(s) - e
    BY <1>1, <2>1, <2>2
  <2> QED BY <2>3 DEF e
<1> QED BY <1>4, <1>8, <1>9, <1>15, <1>16

LEMMA NextBox ==
  ASSUME isTxPending, NEW a \in Nat, NEW m, Boxed(box, a, m)
  PROVE  /\ nextBox \in Boxes /\ box[nextBox] # 0 /\ box[nextBox] \in Nat
         /\ \A c \in Boxes : box[c] # 0 => box[nextBox] <= box[c]
<1> DEFINE T == {box[b] : b \in {c \in Boxes : box[c] # 0}}
<1>1. box \in [Boxes -> Nat]
  BY DEF Boxed
<1>2. T \in SUBSET Nat /\ T # {}
  BY <1>1 DEF isTxPending
<1>3. PICK x \in T : \A y \in T : x <= y
  <2> HIDE DEF T
  <2> QED BY <1>2, Smallest
<1>4. \E b \in Boxes : box[b] # 0 /\ \A c \in Boxes : box[c] # 0 => box[b] <= box[c]
  BY <1>3
<1>5. nextBox \in Boxes /\ box[nextBox] # 0 /\ \A c \in Boxes : box[c] # 0 => box[nextBox] <= box[c]
  BY <1>4, Zenon DEF nextBox
<1> QED BY <1>1, <1>5

LEMMA CanTxSteps ==
  ASSUME CanTxInv, [BxCanNext]_canVars
  PROVE  CanTxInv' /\ Flows(framesTaken, framesSent, framesTaken', framesSent')
<1>1. PICK m \in Nat : framesSent <= m /\ Boxed(box, framesSent, m) /\ Ascends(frames, m, framesTaken)
  BY DEF CanTxInv
<1>2. /\ framesTaken \in Nat /\ framesTaken <= MaxTxFrames /\ MaxTxFrames \in Nat /\ CanTxSize \in Nat
      /\ Mailboxes \in Nat /\ framesSent \in Nat /\ m <= framesTaken
      /\ frames \in Seq(Nat) /\ Len(frames) \in Nat /\ Len(frames) <= CanTxSize
  BY <1>1, BxCanAssumption DEF CanTxInv, Ascends
<1>3. CASE UNCHANGED <<frames, box, framesTaken, framesSent>>
  BY <1>1, <1>2, <1>3 DEF CanTxInv, Flows
<1>4. CASE BusCarries
  <2> DEFINE b == nextBox
  <2>1. isTxPending /\ framesSent' = box[b] /\ box' = [box EXCEPT ![b] = 0] /\ UNCHANGED <<frames, framesTaken>>
    BY <1>4 DEF BusCarries
  <2>2. b \in Boxes /\ box[b] # 0 /\ box[b] \in Nat /\ \A c \in Boxes : box[c] # 0 => box[b] <= box[c]
    BY <1>1, <1>2, <2>1, NextBox
  <2> HIDE DEF b
  <2>3. /\ box \in [Boxes -> Nat]
        /\ \A c \in Boxes : box[c] # 0 => framesSent < box[c] /\ box[c] <= m
        /\ \A c, d \in Boxes : box[c] # 0 /\ box[c] = box[d] => c = d
    BY <1>1 DEF Boxed
  <2>4. box' \in [Boxes -> Nat] /\ \A c \in Boxes : box'[c] = IF c = b THEN 0 ELSE box[c]
    BY <2>1, <2>2, <2>3
  <2>5. ASSUME NEW c \in Boxes, box'[c] # 0
        PROVE  framesSent' < box'[c] /\ box'[c] <= m
    <3>1. c # b /\ box'[c] = box[c] /\ box[c] # 0 /\ box[c] \in Nat
      BY <2>3, <2>4, <2>5
    <3>2. box[b] <= box[c] /\ box[b] # box[c]
      BY <2>2, <2>3, <3>1
    <3> QED BY <2>1, <2>2, <2>3, <3>1, <3>2
  <2>6. \A c, d \in Boxes : box'[c] # 0 /\ box'[c] = box'[d] => c = d
    BY <2>3, <2>4
  <2>7. Boxed(box', framesSent', m)
    BY <2>4, <2>5, <2>6 DEF Boxed
  <2>8. framesSent' \in Nat /\ framesSent <= framesSent' /\ framesSent' <= m /\ framesSent' <= framesTaken
    BY <1>1, <1>2, <2>1, <2>2, <2>3
  <2> QED BY <1>1, <1>2, <2>1, <2>7, <2>8 DEF CanTxInv, Flows
<1>5. CASE clearFailedTx
  <2>1. box' = [b \in Boxes |-> IF b \in Failed THEN 0 ELSE box[b]]
        /\ UNCHANGED <<frames, framesTaken, framesSent>>
    BY <1>5 DEF clearFailedTx
  <2>2. Boxed(box', framesSent, m)
    <3>1. /\ box \in [Boxes -> Nat]
          /\ \A c \in Boxes : box[c] # 0 => framesSent < box[c] /\ box[c] <= m
          /\ \A c, d \in Boxes : box[c] # 0 /\ box[c] = box[d] => c = d
      BY <1>1 DEF Boxed
    <3>2. box' \in [Boxes -> Nat] /\ \A c \in Boxes : box'[c] = 0 \/ box'[c] = box[c]
      BY <2>1, <3>1
    <3> QED BY <3>1, <3>2 DEF Boxed
  <2> QED BY <1>1, <1>2, <2>1, <2>2 DEF CanTxInv, Flows
<1>6. CASE txHandlerFills
  <2>1. Refill(frames) /\ UNCHANGED <<framesTaken, framesSent>>
    BY <1>6 DEF txHandlerFills
  <2>2. \E k \in Nat : framesSent <= k /\ Boxed(box', framesSent, k) /\ Ascends(frames', k, framesTaken)
    BY <1>1, <1>2, <2>1, Refilled
  <2>3. Len(frames') <= CanTxSize
    <3> DEFINE e == Cardinality({b \in Boxes : box[b] = 0})
    <3>1. e \in Nat
      BY EmptyBoxes, <1>2
    <3>2. Len(frames') = 0 \/ Len(frames') = Len(frames) - e
      BY <1>1, <1>2, <2>1, Refilled
    <3> HIDE DEF e
    <3> QED BY <1>2, <3>1, <3>2
  <2> QED BY <1>2, <1>1, <2>1, <2>2, <2>3 DEF CanTxInv, Flows
<1>7. ASSUME NEW n \in 1..(MaxTxFrames - framesTaken), WriteFrames(n)
      PROVE  CanTxInv' /\ Flows(framesTaken, framesSent, framesTaken', framesSent')
  <2> DEFINE waits == isTxPending \/ frames # <<>>
             space == CanTxSize - Len(frames) + (IF waits THEN 0 ELSE Mailboxes)
             k     == Min({n, space})
             new   == [i \in 1..k |-> framesTaken + i]
  <2>1. /\ framesTaken' = framesTaken + k /\ UNCHANGED framesSent
        /\ IF waits THEN frames' = frames \o new /\ UNCHANGED box ELSE Refill(new)
    BY <1>7 DEF WriteFrames
  <2>2. space \in Nat /\ n \in Nat
    BY <1>2
  <2>3. k \in Nat /\ k <= n /\ k <= space
    <3> HIDE DEF space
    <3> QED BY <2>2, MinOfTwo
  <2> HIDE DEF k
  <2>4. Ascends(new, framesTaken, framesTaken + k) /\ Len(new) = k
    BY <1>2, <2>3, AscendsNew
  <2>5. new \in Seq(Nat)
    BY <2>4 DEF Ascends
  <2> HIDE DEF new
  <2>6. framesTaken' \in 0..MaxTxFrames /\ framesTaken <= framesTaken' /\ framesSent <= framesTaken'
    BY <1>1, <1>2, <1>7, <2>1, <2>3
  <2>7. /\ \E j \in Nat : framesSent <= j /\ Boxed(box', framesSent, j) /\ Ascends(frames', j, framesTaken')
        /\ Len(frames') <= CanTxSize
    <3>1. CASE waits
      <4>1. frames' = frames \o new /\ box' = box /\ k <= CanTxSize - Len(frames)
        BY <1>2, <2>1, <2>3, <3>1
      <4> HIDE DEF waits, space
      <4>2. Ascends(frames', m, framesTaken')
        BY <1>1, <2>1, <2>4, <4>1, AscendsJoin
      <4>3. Len(frames') = Len(frames) + k
        <5>1. frames \in Seq(Nat)
          BY <1>2
        <5>2. Len(frames \o new) = Len(frames) + Len(new)
          BY <2>5, <5>1
        <5> QED BY <2>4, <4>1, <5>2
      <4>4. Len(frames') <= CanTxSize
        BY <1>2, <2>3, <4>1, <4>3
      <4> QED BY <1>1, <4>1, <4>2, <4>4
    <3>2. CASE ~waits
      <4>1. Refill(new) /\ frames = <<>> /\ k <= CanTxSize + Mailboxes /\ \A b \in Boxes : box[b] = 0
        BY <1>2, <2>1, <2>3, <3>2 DEF isTxPending
      <4> HIDE DEF waits, space
      <4>2. Boxed(box, framesSent, framesTaken)
        BY <1>1, <4>1 DEF Boxed
      <4>3. framesSent <= framesTaken
        BY <1>1, <1>2
      <4>4. /\ \E j \in Nat : framesSent <= j /\ Boxed(box', framesSent, j) /\ Ascends(frames', j, framesTaken')
            /\ \/ Len(frames') = 0
               \/ Len(frames') = Len(new) - Cardinality({b \in Boxes : box[b] = 0})
        BY <1>2, <2>1, <2>4, <4>1, <4>2, <4>3, Refilled
      <4>5. Cardinality({b \in Boxes : box[b] = 0}) = Mailboxes
        <5>1. {b \in Boxes : box[b] = 0} = Boxes
          BY <4>1
        <5>2. Cardinality(Boxes) = Mailboxes
          BY <1>2, FS_Interval DEF Boxes
        <5> QED BY <5>1, <5>2
      <4>6. Len(frames') <= CanTxSize
        BY <1>2, <2>3, <2>4, <4>1, <4>4, <4>5
      <4> QED BY <4>4, <4>6
    <3> QED BY <3>1, <3>2
  <2> QED BY <1>2, <2>1, <2>6, <2>7 DEF CanTxInv, Flows
<1>8. CASE BusFails \/ BusReceives \/ ReadFrame \/ rxHandler \/ txHandlerLeaves
  BY <1>3, <1>8 DEF BusFails, BusReceives, ReadFrame, rxHandler, txHandlerLeaves, canTxSide
<1>9. CASE UNCHANGED canVars
  BY <1>3, <1>9 DEF canVars, canTxSide
<1> QED BY <1>4, <1>5, <1>6, <1>7, <1>8, <1>9 DEF BxCanNext, txHandler

LEMMA CanFlows ==
  ASSUME [BxCanNext]_canVars
  PROVE  UNCHANGED <<framesSaid, framesHeard>> \/ UNCHANGED <<framesTaken, framesSent>>
BY DEF BxCanNext, canVars, canTxSide, canRxSide, BusCarries, BusFails, BusReceives, WriteFrames, ReadFrame,
       rxHandler, txHandler, clearFailedTx, txHandlerFills, txHandlerLeaves

-----------------------------------------------------------------------------
(* The drivers are lines. *)

DriversInv == UsartInv /\ CanRxInv /\ CanTxInv /\ CdcRxInv /\ CdcTxInv

LEMMA DriversStart == Init => DriversInv
<1> SUFFICES ASSUME Init PROVE DriversInv
  OBVIOUS
<1>1. UsartInit /\ BxCanInit /\ CdcInit
  BY DEF Init
<1> QED BY <1>1, UsartStarts, CanStarts, CdcStarts DEF DriversInv

\* What each part makes of its two lines.
LEMMA DriversStep ==
  ASSUME DriversInv, [Next]_platformVars
  PROVE  /\ DriversInv' /\ UNCHANGED part
         /\ Flows(said, heard, said', heard') /\ Flows(accepted, sent, accepted', sent')
         /\ UNCHANGED <<said, heard>> \/ UNCHANGED <<accepted, sent>>
         /\ Flows(framesSaid, framesHeard, framesSaid', framesHeard')
         /\ Flows(framesTaken, framesSent, framesTaken', framesSent')
         /\ UNCHANGED <<framesSaid, framesHeard>> \/ UNCHANGED <<framesTaken, framesSent>>
         /\ Flows(hostSaid, cdcHeard, hostSaid', cdcHeard')
         /\ Flows(cdcTaken, cdcSent, cdcTaken', cdcSent')
         /\ UNCHANGED <<hostSaid, cdcHeard>> \/ UNCHANGED <<cdcTaken, cdcSent>>
<1>1. [UsartNext]_usartVars /\ [BxCanNext]_canVars /\ [CdcNext]_cdcVars /\ UNCHANGED part
  BY PartsApart
<1>2. UsartInv' /\ Flows(said, heard, said', heard') /\ Flows(accepted, sent, accepted', sent')
  BY <1>1, UsartFlagsKeep, UsartRxSteps, UsartTxSteps DEF DriversInv, UsartInv
<1>3. /\ CanRxInv' /\ CanTxInv'
      /\ Flows(framesSaid, framesHeard, framesSaid', framesHeard')
      /\ Flows(framesTaken, framesSent, framesTaken', framesSent')
  BY <1>1, CanRxSteps, CanTxSteps DEF DriversInv
<1>4. /\ CdcRxInv' /\ CdcTxInv'
      /\ Flows(hostSaid, cdcHeard, hostSaid', cdcHeard')
      /\ Flows(cdcTaken, cdcSent, cdcTaken', cdcSent')
  BY <1>1, CdcRxSteps, CdcTxSteps DEF DriversInv
<1>5. DriversInv'
  BY <1>2, <1>3, <1>4 DEF DriversInv
<1> QED BY <1>1, <1>2, <1>3, <1>4, <1>5, UsartFlows, CanFlows, CdcFlows

LEMMA MaxItemsBound ==
  /\ MaxItems \in Nat
  /\ \A n \in {MaxRxBytes, MaxTxBytes, MaxRxFrames, MaxTxFrames, MaxHostBytes, MaxCdcBytes} :
       n <= MaxItems
<1> DEFINE S == {MaxRxBytes, MaxTxBytes, MaxRxFrames, MaxTxFrames, MaxHostBytes, MaxCdcBytes}
<1>1. S \subseteq Nat /\ S # {}
  BY UsartAssumption, BxCanAssumption, CdcAssumption
<1>2. IsFiniteSet(S)
  <2>1. \A T, x : IsFiniteSet(T) => IsFiniteSet(T \cup {x})
    BY FS_AddElement
  <2>2. IsFiniteSet({MaxRxBytes})
    BY FS_Singleton
  <2>3. S = ((((({MaxRxBytes} \cup {MaxTxBytes}) \cup {MaxRxFrames}) \cup {MaxTxFrames})
              \cup {MaxHostBytes}) \cup {MaxCdcBytes})
    OBVIOUS
  <2> HIDE DEF S
  <2> QED BY <2>1, <2>2, <2>3, Zenon
<1>3. PICK x \in S : \A y \in S : y <= x
  BY <1>1, <1>2, Largest
<1>4. MaxItems \in S /\ \A y \in S : y <= MaxItems
  BY <1>3, Zenon DEF MaxItems, Max
<1> QED BY <1>1, <1>4

\* How many items are on a line, in a state of its driver.
Counted(o, i) == o \in 0..MaxItems /\ i \in 0..MaxItems /\ o <= i

LEMMA Counts ==
  ASSUME DriversInv
  PROVE  /\ Counted(heard, said) /\ Counted(sent, accepted)
         /\ Counted(framesHeard, framesSaid) /\ Counted(framesSent, framesTaken)
         /\ Counted(cdcHeard, hostSaid) /\ Counted(cdcSent, cdcTaken)
<1>1. MaxItems \in Nat /\ MaxRxBytes <= MaxItems /\ MaxTxBytes <= MaxItems
      /\ MaxRxFrames <= MaxItems /\ MaxTxFrames <= MaxItems
      /\ MaxHostBytes <= MaxItems /\ MaxCdcBytes <= MaxItems
      /\ {MaxRxBytes, MaxTxBytes, MaxRxFrames, MaxTxFrames, MaxHostBytes, MaxCdcBytes} \subseteq Nat
  BY MaxItemsBound, UsartAssumption, BxCanAssumption, CdcAssumption
<1>2. heard \in Nat /\ said \in 0..MaxRxBytes /\ heard <= said
  BY DEF DriversInv, UsartInv, UsartRx, Ascends
<1>3. sent \in Nat /\ accepted \in 0..MaxTxBytes /\ sent <= accepted
  BY DEF DriversInv, UsartInv, UsartTx, Ascends
<1>4. framesHeard \in Nat /\ framesSaid \in 0..MaxRxFrames /\ framesHeard <= framesSaid
  BY DEF DriversInv, CanRxInv, Ascends
<1>5. framesSent \in Nat /\ framesTaken \in 0..MaxTxFrames /\ framesSent <= framesTaken
  BY DEF DriversInv, CanTxInv, Ascends
<1>6. cdcHeard \in Nat /\ hostSaid \in 0..MaxHostBytes /\ cdcHeard <= hostSaid
  BY DEF DriversInv, CdcRxInv, Ascends
<1>7. cdcSent \in Nat /\ cdcTaken \in 0..MaxCdcBytes /\ cdcSent <= cdcTaken
  BY DEF DriversInv, CdcTxInv, Ascends
<1>8. ASSUME NEW o \in Nat, NEW M \in Nat, M <= MaxItems, NEW i \in 0..M, o <= i
      PROVE  Counted(o, i)
  BY <1>1, <1>8 DEF Counted
<1> QED BY <1>1, <1>2, <1>3, <1>4, <1>5, <1>6, <1>7, <1>8

CountsInv ==
  /\ Counted(heard, said) /\ Counted(sent, accepted)
  /\ Counted(framesHeard, framesSaid) /\ Counted(framesSent, framesTaken)
  /\ Counted(cdcHeard, hostSaid) /\ Counted(cdcSent, cdcTaken)

LEMMA CountsHold == DriversInv => CountsInv
BY Counts DEF CountsInv

LEMMA CountsNext == DriversInv' => CountsInv'
BY CountsHold, PTL

\* Items that are numbered are sent in a burst; the last that comes takes those before it
\* away.
LEMMA NumberedMore ==
  ASSUME NEW o \in Nat, NEW i \in Nat, NEW j \in 0..MaxItems, o <= i, i <= j
  PROVE  /\ Numbered(i, j) \in Bursts
         /\ Numbered(o, j) = Numbered(o, i) \o Numbered(i, j)
<1>1. MaxItems \in Nat
  BY MaxItemsBound
<1>2. Numbered(i, j) \in Bursts
  BY <1>1 DEF Bursts
<1>3. Numbered(o, j) = Numbered(o, i) \o Numbered(i, j)
  BY DEF Numbered, Item
<1> QED BY <1>2, <1>3

LEMMA NumberedLess ==
  ASSUME NEW o \in Nat, NEW p \in Nat, NEW i \in Nat, o < p, p <= i
  PROVE  /\ p - o \in 1..Len(Numbered(o, i)) /\ Numbered(o, i)[p - o] = Item(p)
         /\ Numbered(p, i) = SubSeq(Numbered(o, i), p - o + 1, Len(Numbered(o, i)))
<1>1. Len(Numbered(o, i)) = i - o /\ p - o \in 1..(i - o)
  BY DEF Numbered
<1>2. o + (p - o) = p
  OBVIOUS
<1>3. Numbered(o, i)[p - o] = Item(p)
  BY <1>1, <1>2 DEF Numbered
<1>4. SubSeq(Numbered(o, i), p - o + 1, i - o)
        = [k \in 1..((i - o) - (p - o + 1) + 1) |-> Numbered(o, i)[p - o + 1 + k - 1]]
  <2> DEFINE q == Numbered(o, i)
  <2>1. q \in Seq({Item(n) : n \in Nat})
    BY DEF Numbered
  <2>2. Len(q) = i - o /\ i - o \in Nat /\ p - o + 1 \in 1..(i - o + 1)
    BY <1>1
  <2> HIDE DEF q
  <2>3. SubSeq(q, p - o + 1, i - o) = [k \in 1..((i - o) - (p - o + 1) + 1) |-> q[p - o + 1 + k - 1]]
    BY <2>1, <2>2
  <2> QED BY <2>3 DEF q
<1>5. (i - o) - (p - o + 1) + 1 = i - p
  OBVIOUS
<1>6. \A k \in 1..(i - p) : Numbered(o, i)[p - o + 1 + k - 1] = Item(p + k)
  <2> SUFFICES ASSUME NEW k \in 1..(i - p)
               PROVE  Numbered(o, i)[p - o + 1 + k - 1] = Item(p + k)
    OBVIOUS
  <2>1. p - o + 1 + k - 1 \in 1..(i - o) /\ o + (p - o + 1 + k - 1) = p + k
    OBVIOUS
  <2> QED BY <2>1 DEF Numbered
<1>7. Numbered(p, i) = SubSeq(Numbered(o, i), p - o + 1, i - o)
  BY <1>4, <1>5, <1>6 DEF Numbered
<1> QED BY <1>1, <1>3, <1>7

\* Every line of the part that runs, the one a step is of and the other one.
FlowsOn(l) == Flows(PutOn(l), CameOut(l), PutOn(l)', CameOut(l)')
RestsOn(l) == UNCHANGED <<PutOn(l), CameOut(l)>>

LEMMA LinesStep ==
  ASSUME DriversInv, [Next]_platformVars
  PROVE  /\ \A l \in Lines : /\ Counted(CameOut(l), PutOn(l))
                             /\ Counted(CameOut(l)', PutOn(l)')
                             /\ FlowsOn(l)
         /\ RestsOn("rx") \/ RestsOn("tx")
<1>1. DriversInv' /\ part' = part
  BY DriversStep
<1>2. Counted(0, 0) /\ Flows(0, 0, 0, 0)
  BY MaxItemsBound DEF Counted, Flows
<1>3. /\ Counted(heard', said') /\ Counted(sent', accepted')
      /\ Counted(framesHeard', framesSaid') /\ Counted(framesSent', framesTaken')
      /\ Counted(cdcHeard', hostSaid') /\ Counted(cdcSent', cdcTaken')
  BY <1>1, CountsNext DEF CountsInv
<1>4. /\ \A l \in Lines : l = "rx" \/ l = "tx"
      /\ "rx" # "tx"
  BY DEF Lines
<1>5. CASE part = "usart"
  <2>1. /\ PutOn("rx") = said /\ CameOut("rx") = heard
        /\ PutOn("tx") = accepted /\ CameOut("tx") = sent
    BY <1>5 DEF PutOn, CameOut
  <2>2. /\ PutOn("rx")' = said' /\ CameOut("rx")' = heard'
        /\ PutOn("tx")' = accepted' /\ CameOut("tx")' = sent'
    BY <1>1, <1>5 DEF PutOn, CameOut
  <2> QED BY <1>3, <1>4, <2>1, <2>2, Counts, DriversStep DEF FlowsOn, RestsOn
<1>6. CASE part = "can"
  <2>1. /\ PutOn("rx") = framesSaid /\ CameOut("rx") = framesHeard
        /\ PutOn("tx") = framesTaken /\ CameOut("tx") = framesSent
    BY <1>6 DEF PutOn, CameOut
  <2>2. /\ PutOn("rx")' = framesSaid' /\ CameOut("rx")' = framesHeard'
        /\ PutOn("tx")' = framesTaken' /\ CameOut("tx")' = framesSent'
    BY <1>1, <1>6 DEF PutOn, CameOut
  <2> QED BY <1>3, <1>4, <2>1, <2>2, Counts, DriversStep DEF FlowsOn, RestsOn
<1>7. CASE part = "cdc"
  <2>1. /\ PutOn("rx") = hostSaid /\ CameOut("rx") = cdcHeard
        /\ PutOn("tx") = cdcTaken /\ CameOut("tx") = cdcSent
    BY <1>7 DEF PutOn, CameOut
  <2>2. /\ PutOn("rx")' = hostSaid' /\ CameOut("rx")' = cdcHeard'
        /\ PutOn("tx")' = cdcTaken' /\ CameOut("tx")' = cdcSent'
    BY <1>1, <1>7 DEF PutOn, CameOut
  <2> QED BY <1>3, <1>4, <2>1, <2>2, Counts, DriversStep DEF FlowsOn, RestsOn
<1>8. CASE part \notin {"usart", "can", "cdc"}
  <2>1. \A l \in Lines : PutOn(l) = 0 /\ CameOut(l) = 0
    BY <1>8 DEF PutOn, CameOut
  <2>2. \A l \in Lines : PutOn(l)' = 0 /\ CameOut(l)' = 0
    BY <1>1, <1>8 DEF PutOn, CameOut
  <2>3. \A l \in Lines : FlowsOn(l) /\ RestsOn(l)
    BY <1>2, <2>1, <2>2 DEF FlowsOn, RestsOn
  <2>4. \A l \in Lines : Counted(CameOut(l), PutOn(l)) /\ Counted(CameOut(l)', PutOn(l)')
    BY <1>2, <2>1, <2>2
  <2> QED BY <2>3, <2>4 DEF Lines
<1> QED BY <1>5, <1>6, <1>7, <1>8

\* The two lines as the abstract specification has them.
OnLines == [l \in Lines |-> Numbered(CameOut(l), PutOn(l))]
LastOf(n) == IF n = 0 THEN <<>> ELSE Item(n)
Came    == [l \in Lines |-> LastOf(CameOut(l))]

LEMMA LinesStart == Init => Carried!Init
<1> SUFFICES ASSUME Init PROVE Carried!Init
  OBVIOUS
<1>1. /\ said = 0 /\ heard = 0 /\ accepted = 0 /\ sent = 0
      /\ framesSaid = 0 /\ framesHeard = 0 /\ framesTaken = 0 /\ framesSent = 0
      /\ hostSaid = 0 /\ cdcHeard = 0 /\ cdcTaken = 0 /\ cdcSent = 0
  BY DEF Init, UsartInit, BxCanInit, CdcInit
<1>2. \A l \in Lines : PutOn(l) = 0 /\ CameOut(l) = 0
  BY <1>1 DEF PutOn, CameOut, Lines
<1>3. Numbered(0, 0) = <<>>
  BY DEF Numbered
<1> QED BY <1>2, <1>3 DEF Carried!Init

LEMMA LinesRefine ==
  ASSUME DriversInv, [Next]_platformVars
  PROVE  [Carried!Next]_<<OnLines, Came>>
<1>1. PICK l \in Lines : \A k \in Lines : k = l \/ RestsOn(k)
  BY LinesStep DEF Lines
<1> DEFINE o == CameOut(l)
           i == PutOn(l)
           p == CameOut(l)'
           j == PutOn(l)'
<1>2. /\ Counted(o, i) /\ Counted(p, j) /\ Flows(i, o, j, p)
  BY LinesStep DEF FlowsOn
<1>3. /\ OnLines = [k \in Lines |-> Numbered(CameOut(k), PutOn(k))]
      /\ OnLines' = [k \in Lines |-> Numbered(CameOut(k)', PutOn(k)')]
      /\ Came = [k \in Lines |-> LastOf(CameOut(k))]
      /\ Came' = [k \in Lines |-> LastOf(CameOut(k)')]
  BY DEF OnLines, Came, LastOf
<1>4. /\ OnLines' = [OnLines EXCEPT ![l] = Numbered(p, j)]
      /\ Came' = [Came EXCEPT ![l] = LastOf(p)]
  <2>1. \A k \in Lines : k # l => CameOut(k)' = CameOut(k) /\ PutOn(k)' = PutOn(k)
    BY <1>1 DEF RestsOn
  <2> QED BY <1>3, <2>1
<1>5. OnLines[l] = Numbered(o, i) /\ Came[l] = LastOf(o)
  BY <1>3
<1> HIDE DEF o, i, p, j
<1>6. MaxItems \in Nat /\ o \in Nat /\ i \in Nat /\ p \in Nat /\ j \in 0..MaxItems
  BY <1>2, MaxItemsBound DEF Counted
<1>7. CASE p = o
  <2>1. i <= j /\ o <= i
    BY <1>2 DEF Counted, Flows
  <2>2. Numbered(i, j) \in Bursts /\ Numbered(o, j) = Numbered(o, i) \o Numbered(i, j)
    BY <1>6, <2>1, NumberedMore
  <2>3. OnLines' = [OnLines EXCEPT ![l] = @ \o Numbered(i, j)]
    BY <1>4, <1>5, <1>7, <2>2
  <2>4. Came' = Came
    BY <1>3, <1>4, <1>5, <1>7
  <2>5. Carried!Send(l, Numbered(i, j))
    BY <2>3, <2>4 DEF Carried!Send, OnLines, Came, LastOf
  <2>6. CASE OnLines'[l] # OnLines[l]
    <3>1. \E s \in Bursts : Carried!Send(l, s)
      BY <2>2, <2>5
    <3>2. Carried!SendSome(l)
      BY <2>6, <3>1, Zenon DEF Carried!SendSome, OnLines
    <3> QED BY <3>2 DEF Carried!Next
  <2>7. CASE OnLines'[l] = OnLines[l]
    <3>1. OnLines' = [OnLines EXCEPT ![l] = OnLines'[l]]
      BY <1>4 DEF OnLines
    <3> QED BY <2>4, <2>7, <3>1 DEF OnLines
  <2> QED BY <2>6, <2>7
<1>8. CASE p # o
  <2>1. i = j /\ o < p /\ p <= i /\ p # 0
    BY <1>2, <1>6, <1>8 DEF Counted, Flows
  <2>2. /\ p - o \in 1..Len(Numbered(o, i)) /\ Numbered(o, i)[p - o] = Item(p)
        /\ Numbered(p, i) = SubSeq(Numbered(o, i), p - o + 1, Len(Numbered(o, i)))
    BY <1>6, <2>1, NumberedLess
  <2>3. LastOf(p) = Item(p)
    BY <2>1 DEF LastOf
  <2> DEFINE n == p - o
  <2> HIDE DEF n
  <2>4. /\ n \in 1..Len(OnLines[l])
        /\ Came' = [Came EXCEPT ![l] = OnLines[l][n]]
        /\ OnLines' = [OnLines EXCEPT ![l] = SubSeq(@, n + 1, Len(@))]
    BY <1>4, <1>5, <2>1, <2>2, <2>3 DEF n
  <2>5. Carried!Receive(l)
    BY <2>4 DEF Carried!Receive, OnLines, Came, LastOf
  <2> QED BY <2>5 DEF Carried!Next
<1> QED BY <1>7, <1>8

\* Whatever the order of interrupts, of the calls of the threads, and of what the
\* peripherals and the other side do, no driver repeats or reorders what it carries
\* (USART, bxCAN, CDC: handlers and read/write of each).
THEOREM DriversAreLines == Spec => DriversImplementLossyFifo
<1>1. DriversInv /\ [Next]_platformVars => DriversInv'
  BY DriversStep
<1>2. UNCHANGED <<OnLines, Came>> => UNCHANGED Carried!lineVars
  BY DEF OnLines, Came, LastOf, Carried!lineVars
<1>3. DriversInv /\ [Next]_platformVars => [Carried!Next]_(Carried!lineVars)
  BY <1>2, LinesRefine
<1> QED BY <1>1, <1>3, DriversStart, LinesStart, PTL
        DEF Spec, DriversImplementLossyFifo, Carried!Spec

-----------------------------------------------------------------------------
(* Polled I2C. *)

PollSteps == {"off", "start", "sb", "addr", "addr2", "tx", "restart", "rxSb", "rxAddr", "rxStart",
              "rx", "drain", "stop", "done"}
BeforeWrite == {"off", "start", "sb", "addr", "addr2"}
Reading     == {"restart", "rxSb", "rxAddr", "rxStart", "rx", "drain"}
Receiving   == {"rxStart", "rx", "drain"}

PollTypes ==
  /\ call \in [version : {"V1", "V2"}, tx : Nat, rx : Nat]
  /\ step \in PollSteps /\ result \in BOOLEAN
  /\ wrote \in 0..call.tx /\ got \in 0..wrote
  /\ gave \in Nat /\ read \in 0..gave /\ read <= call.rx
  /\ told \in Nat /\ stops \in Nat

\* Where each version goes.
PollPlaces ==
  /\ step = "addr2" => ~V1
  /\ step \in {"sb", "addr", "rxSb", "rxAddr", "rx", "stop"} => V1
  /\ V1 /\ step \in Reading => call.rx > 0
  /\ step = "rx" => call.rx > 2
  /\ result = FALSE => step \in {"stop", "done"}

PollWritten ==
  /\ step \in BeforeWrite => wrote = 0
  /\ result = TRUE /\ step \in Reading \union {"stop", "done"} => wrote = call.tx
  /\ wrote <= got + (IF V1 THEN 2 ELSE 1)
  /\ ~V1 /\ call.rx > 0 /\ result = TRUE /\ step \in Reading \union {"done"} => got = call.tx

\* The byte that is not acknowledged is the last one.
PollReads ==
  /\ step \notin Receiving \union {"stop", "done"} => gave = 0 /\ told = 0
  /\ step = "rxStart" => read = 0
  /\ step = "stop" /\ result = TRUE => call.rx = 0 /\ read = 0
  /\ step = "done" /\ result = TRUE => read = call.rx
  /\ V1 /\ step \in {"sb", "addr", "tx", "rxSb", "rxAddr"} => ack = TRUE
  /\ V1 /\ step \in Receiving /\ call.rx = 1 => ack = FALSE /\ told = gave /\ gave <= 1
  /\ V1 /\ step \in {"rxStart", "rx"} /\ call.rx > 2 => ack = TRUE /\ told = 0 /\ read + 3 <= call.rx
  /\ V1 /\ step = "drain" /\ call.rx > 2 =>
       ack = FALSE /\ ((told = 0 /\ gave = call.rx - 1) \/ (told = call.rx /\ gave = call.rx))
  /\ V1 /\ step = "done" /\ result = TRUE /\ call.rx \notin {0, 2} => told = call.rx /\ gave = call.rx

PollStops ==
  /\ step = "off" => stops = 0
  /\ V1 => stops = IF step \in {"drain", "done"} THEN 1 ELSE 0

PollInv == PollTypes /\ PollPlaces /\ PollWritten /\ PollReads /\ PollStops

LEMMA PollStarts == ASSUME PollInit PROVE PollInv
BY DEF PollInit, PollInv, PollTypes, PollPlaces, PollWritten, PollReads, PollStops, PollSteps, V1,
   BeforeWrite, Reading, Receiving

LEMMA PollKeeps ==
  ASSUME PollInv, [PollNext]_pollVars, PollingAssumption
  PROVE  PollInv'
<1> USE DEF PollInv, PollTypes, PollPlaces, PollWritten, PollReads, PollStops, PollSteps, V1,
            BeforeWrite, Reading, Receiving, slaveSide, Goes, Fails
<1>1. CASE UNCHANGED pollVars
  BY <1>1 DEF pollVars
<1>2. ASSUME NEW v \in {"V1", "V2"}, NEW tx \in 0..MaxBytes, NEW rx \in 0..MaxBytes, exchange(v, tx, rx)
      PROVE  PollInv'
  BY <1>2 DEF exchange, PollingAssumption
<1>3. CASE SlaveAnswers
  BY <1>3 DEF SlaveAnswers
<1>4. CASE SlaveTakes
  BY <1>4 DEF SlaveTakes
<1>5. CASE SlaveGives
  BY <1>5 DEF SlaveGives
<1>6. CASE startV1
  BY <1>6 DEF startV1
<1>7. CASE StartSent
  <2>1. CASE phase' = "called" /\ Goes(IF step = "sb" THEN "addr" ELSE "rxAddr")
    BY <1>7, <2>1 DEF StartSent
  <2>2. CASE Fails("stop")
    BY <1>7, <2>2 DEF StartSent
  <2> QED BY <1>7, <2>1, <2>2 DEF StartSent
<1>8. CASE sendAddress
  <2>1. CASE Goes(IF step = "addr" THEN "tx" ELSE "rxStart")
    <3>1. V1 => ack = TRUE
      BY <1>8 DEF sendAddress
    <3>2. CASE step = "addr" \/ call.rx # 1
      <4>1. ack' = TRUE
        BY <1>8, <2>1, <3>1, <3>2 DEF sendAddress
      <4> QED BY <1>8, <2>1, <3>2, <4>1 DEF sendAddress
    <3>3. CASE step # "addr" /\ call.rx = 1
      <4>1. ack' = FALSE
        BY <1>8, <2>1, <3>3 DEF sendAddress
      <4> QED BY <1>8, <2>1, <3>3, <4>1 DEF sendAddress
    <3> QED BY <3>2, <3>3
  <2>2. CASE Fails("stop")
    BY <1>8, <2>2 DEF sendAddress
  <2> QED BY <1>8, <2>1, <2>2 DEF sendAddress
<1>9. CASE startV2
  BY <1>9 DEF startV2
<1>10. CASE StartedV2
  BY <1>10 DEF StartedV2
<1>11. CASE sendByte
  <2>1. CASE wrote' = wrote + 1
    BY <1>11, <2>1 DEF sendByte, TxE, TXIS
  <2>2. CASE Fails(IF V1 THEN "stop" ELSE "done") /\ UNCHANGED wrote
    BY <1>11, <2>2 DEF sendByte
  <2> QED BY <1>11, <2>1, <2>2 DEF sendByte
<1>12. CASE WrittenV1
  BY <1>12 DEF WrittenV1
<1>13. CASE WrittenV2
  <2>1. CASE call.rx = 0 /\ Goes("done")
    BY <1>13, <2>1 DEF WrittenV2
  <2>2. CASE call.rx > 0 /\ TXIS /\ Goes("restart")
    BY <1>13, <2>2 DEF WrittenV2, TXIS
  <2>3. CASE call.rx > 0 /\ Fails("done")
    BY <1>13, <2>3 DEF WrittenV2
  <2> QED BY <1>13, <2>1, <2>2, <2>3 DEF WrittenV2
<1>14. CASE send_stop
  BY <1>14 DEF send_stop
<1>15. CASE ReadsOne
  BY <1>15 DEF ReadsOne
<1>16. CASE ReadsTwo
  <2>1. CASE Goes("drain")
    BY <1>16, <2>1 DEF ReadsTwo
  <2>2. CASE Fails("done")
    <3>1. result' = FALSE /\ step' = "done" /\ stops' = stops + 1
      BY <1>16, <2>2 DEF ReadsTwo
    <3>2. UNCHANGED <<call, wrote, read, got, gave, told>> /\ V1 /\ step = "rxStart" /\ call.rx = 2
      BY <1>16 DEF ReadsTwo
    <3>3. result' \in BOOLEAN
      BY <3>1
    <3>4. PollTypes'
      BY <3>1, <3>2, <3>3
    <3>5. PollPlaces'
      BY <3>1, <3>2, <3>3
    <3>6. PollWritten'
      BY <3>1, <3>2, <3>3
    <3>7. PollReads'
      BY <3>1, <3>2, <3>3
    <3>8. PollStops'
      BY <3>1, <3>2, <3>3
    <3> QED BY <3>4, <3>5, <3>6, <3>7, <3>8
  <2> QED BY <1>16, <2>1, <2>2 DEF ReadsTwo
<1>17. CASE ReadsMore
  <2>1. CASE call.rx - read > 3 /\ RxNE /\ read' = read + 1 /\ Goes("rx") /\ UNCHANGED <<ack, stops>>
    BY <1>17, <2>1 DEF ReadsMore, RxNE
  <2>2. CASE /\ call.rx - read = 3 /\ BTF /\ read' = read + 1 /\ ack' = FALSE /\ stops' = stops + 1
             /\ Goes("drain")
    BY <1>17, <2>2 DEF ReadsMore, BTF
  <2>3. CASE Fails("stop") /\ UNCHANGED <<read, ack, stops>>
    BY <1>17, <2>3 DEF ReadsMore
  <2> QED BY <1>17, <2>1, <2>2, <2>3 DEF ReadsMore
<1>18. CASE receiveByte
  <2>1. CASE RxNE /\ read' = read + 1 /\ Goes("drain")
    BY <1>18, <2>1 DEF receiveByte, RxNE
  <2>2. CASE Fails("done") /\ UNCHANGED read
    BY <1>18, <2>2 DEF receiveByte
  <2> QED BY <1>18, <2>1, <2>2 DEF receiveByte
<1>19. CASE ReadAll
  BY <1>19 DEF ReadAll
<1> QED BY <1>1, <1>2, <1>3, <1>4, <1>5, <1>6, <1>7, <1>8, <1>9, <1>10, <1>11, <1>12, <1>13, <1>14,
           <1>15, <1>16, <1>17, <1>18, <1>19 DEF PollNext

LEMMA PollTells == PollInv => PolledOkMeansMoved
BY DEF PollInv, PollTypes, PollPlaces, PollWritten, PollReads, PollStops, PolledOkMeansMoved, Unseen, V1,
       Reading

-----------------------------------------------------------------------------
(* SPI over DMA. *)

SpiFamilies == {"F0", "F1", "F4", "F7"}

SpiTypes ==
  /\ spi.family \in SpiFamilies /\ spi.rx # spi.tx
  /\ left \in [Streams -> Nat] /\ flag \subseteq Streams /\ telling \subseteq Streams
  /\ blocked \in {"off", "starting", "waiting"} /\ chained \in Nat

\* Each stream completes once in an exchange, and is counted after that.
CompletedOnce ==
  /\ invoked \in 0..2
  /\ flag \intersect telling = {} /\ \A k \in flag \union telling : left[k] = 0
  /\ invoked = 1 => \E k \in Streams : left[k] = 0 /\ k \notin flag \union telling
  /\ invoked = 2 => Moved /\ flag \union telling = {}

\* In an exchange that a callback started the completion that was being counted is one
\* too many, until the next one starts.
SpiInv ==
  /\ SpiTypes
  /\ blocked = "starting" =>
       invoked = 0 /\ flag = {} /\ telling = {} /\ left[spi.rx] > 0 /\ left[spi.tx] = 0
  /\ blocked # "off" \/ chained = 0 => CompletedOnce
  /\ SpiDoneMeansMoved

LEMMA OwnStreams ==
  ASSUME NEW bus \in BusesF0 \union BusesF1 \union BusesF4 \union BusesF7
  PROVE  bus.family \in SpiFamilies /\ bus.rx # bus.tx
<1>1. ASSUME NEW f \in SpiFamilies, NEW pairs, bus \in On(f, pairs), \A p \in pairs : p[1] # p[2]
      PROVE  bus.family \in SpiFamilies /\ bus.rx # bus.tx
  BY <1>1 DEF On
<1> DEFINE pairs0 == {<<2, 3>>, <<4, 5>>, <<6, 7>>}
           pairs1 == {<<2, 3>>, <<4, 5>>, <<1, 2>>}
           pairs4 == ({0, 2} \X {3, 5}) \union {<<3, 4>>} \union ({0, 2} \X {5, 7})
           pairs7 == ({0, 2} \X {3, 5}) \union ({3, 1} \X {4, 6}) \union ({0, 2} \X {5, 7})
                     \union ({0, 3} \X {1, 4, 2}) \union {<<3, 4>>, <<5, 4>>, <<5, 6>>}
                     \union {<<6, 5>>}
<1>2. \A p \in pairs0 : p[1] # p[2]
  OBVIOUS
<1>3. \A p \in pairs1 : p[1] # p[2]
  OBVIOUS
<1>4. \A p \in pairs4 : p[1] # p[2]
  OBVIOUS
<1>5. \A p \in pairs7 : p[1] # p[2]
  OBVIOUS
<1>6. /\ BusesF0 = On("F0", pairs0) /\ BusesF1 = On("F1", pairs1)
      /\ BusesF4 = On("F4", pairs4) /\ BusesF7 = On("F7", pairs7)
  BY Zenon DEF BusesF0, BusesF1, BusesF4, BusesF7
<1> HIDE DEF pairs0, pairs1, pairs4, pairs7
<1> QED BY <1>1, <1>2, <1>3, <1>4, <1>5, <1>6 DEF SpiFamilies

LEMMA SpiStarts == ASSUME SpiInit PROVE SpiInv
<1>1. spi.family \in SpiFamilies /\ spi.rx # spi.tx
  BY OwnStreams DEF SpiInit
<1> QED BY <1>1 DEF SpiInit, SpiInv, SpiTypes, CompletedOnce, SpiDoneMeansMoved, Moved

LEMMA ClearedFlags ==
  ASSUME SpiTypes, NEW k
  PROVE  Told(k) \subseteq Cleared(k) /\ Cleared(k) \subseteq flag
<1>1. /\ ToldF0(k) \subseteq ClearedF0(k) /\ ClearedF0(k) \subseteq flag
      /\ ToldF1(k) \subseteq ClearedF1(k) /\ ClearedF1(k) \subseteq flag
      /\ ToldF4(k) \subseteq ClearedF4(k) /\ ClearedF4(k) \subseteq flag
      /\ ToldF7(k) \subseteq ClearedF7(k) /\ ClearedF7(k) \subseteq flag
  BY DEF ToldF0, ClearedF0, ToldF1, ClearedF1, ToldF4, ClearedF4, ToldF7, ClearedF7
<1>2. /\ spi.family = "F0" => Told(k) = ToldF0(k) /\ Cleared(k) = ClearedF0(k)
      /\ spi.family = "F1" => Told(k) = ToldF1(k) /\ Cleared(k) = ClearedF1(k)
      /\ spi.family = "F4" => Told(k) = ToldF4(k) /\ Cleared(k) = ClearedF4(k)
      /\ spi.family = "F7" => Told(k) = ToldF7(k) /\ Cleared(k) = ClearedF7(k)
  BY DEF Told, Cleared
<1> QED BY <1>1, <1>2 DEF SpiTypes, SpiFamilies

LEMMA SpiKeeps ==
  ASSUME SpiInv, [SpiNext]_spiVars
  PROVE  SpiInv'
<1> USE DEF SpiInv, SpiTypes, SpiDoneMeansMoved
<1>1. CASE UNCHANGED spiVars
  BY <1>1 DEF spiVars, CompletedOnce, Moved, Streams
<1>2. ASSUME NEW k \in Streams, Moves(k)
      PROVE  SpiInv'
  <2>1. /\ left[k] > 0 /\ left' = [left EXCEPT ![k] = @ - 1] /\ left[k] \in Nat /\ left' \in [Streams -> Nat]
        /\ UNCHANGED <<spi, telling, invoked, blocked, chained, early>> /\ Streams' = Streams
        /\ ~(blocked = "starting" /\ k = spi.rx)
    BY <1>2 DEF Moves, Streams
  <2>2. \/ left'[k] = 0 /\ flag' = flag \union {k}
        \/ flag' = flag
    BY <1>2, <2>1 DEF Moves, Completes
  <2>3. CompletedOnce => CompletedOnce'
    <3> SUFFICES ASSUME CompletedOnce PROVE CompletedOnce'
      OBVIOUS
    <3>1. invoked # 2 /\ k \notin flag \union telling
      BY <2>1 DEF CompletedOnce, Moved
    <3>2. invoked = 1 => \E j \in Streams : left'[j] = 0 /\ j \notin flag' \union telling
      BY <2>1, <2>2 DEF CompletedOnce
    <3>3. \A j \in flag' \union telling : left'[j] = 0
      BY <2>1, <2>2, <3>1 DEF CompletedOnce
    <3>4. flag' \intersect telling = {}
      BY <2>2, <3>1 DEF CompletedOnce
    <3> QED BY <2>1, <3>1, <3>2, <3>3, <3>4 DEF CompletedOnce
  <2>4. blocked = "starting" => FALSE
    BY <1>2, <2>1 DEF Moves, Streams
  <2> QED BY <2>1, <2>2, <2>3, <2>4
<1>3. ASSUME NEW n \in 1..MaxLength, ExchangeStarts(n)
      PROVE  SpiInv'
  <2>1. n \in Nat /\ n > 0 /\ Streams' = Streams /\ spi.rx \in Streams
    BY <1>3, SpiAssumption DEF ExchangeStarts, Streams
  <2>2. left' \in [Streams -> Nat] /\ left'[spi.rx] = n /\ left'[spi.tx] = 0
    BY <1>3, <2>1 DEF ExchangeStarts, Streams
  <2> QED BY <1>3, <2>1, <2>2 DEF ExchangeStarts, CompletedOnce
<1>4. CASE ExchangeGoesOn
  <2>1. Streams' = Streams /\ spi.tx \in Streams /\ spi.rx \in Streams
    BY <1>4 DEF ExchangeGoesOn, Streams
  <2> QED BY <1>4, <2>1 DEF ExchangeGoesOn, CompletedOnce
<1>5. CASE ExchangeEnds
  <2>1. Streams' = Streams /\ Moved /\ CompletedOnce
    BY <1>5 DEF ExchangeEnds, Streams, CompletedOnce
  <2>2. ~early' /\ CompletedOnce'
    BY <1>5, <2>1 DEF ExchangeEnds, CompletedOnce, Moved
  <2> QED BY <1>5, <2>1, <2>2 DEF ExchangeEnds
<1>6. ASSUME NEW k \in Streams, DmaHandler(k)
      PROVE  SpiInv'
  <2>1. /\ telling = {} /\ flag' = flag \ Cleared(k) /\ telling' = Told(k) /\ Streams' = Streams
        /\ UNCHANGED <<spi, left, invoked, blocked, chained, early>>
    BY <1>6 DEF DmaHandler, Streams
  <2>2. Told(k) \subseteq Cleared(k) /\ Cleared(k) \subseteq flag
    BY ClearedFlags
  <2>3. CompletedOnce => CompletedOnce'
    BY <2>1, <2>2 DEF CompletedOnce, Moved
  <2> QED BY <2>1, <2>2, <2>3
<1>7. ASSUME NEW k \in Streams, SpiHandler(k)
      PROVE  SpiInv'
  <2>1. /\ k \in telling /\ telling' = telling \ {k} /\ Streams' = Streams
        /\ UNCHANGED <<spi, flag, latched, blocked>>
        /\ early' = (early \/ (invoked = 1 /\ ~Moved /\ chained = 0))
    BY <1>7 DEF SpiHandler, Next1, Streams
  <2>2. blocked # "starting"
    BY <2>1
  <2>3. CompletedOnce /\ invoked = 1 => Moved /\ flag = {} /\ telling = {k}
    BY <2>1 DEF CompletedOnce, Moved, Streams
  <2>4. ~early'
    BY <2>1, <2>3
  <2>5. CASE invoked' = invoked + 1 /\ UNCHANGED <<left, chained>>
    <3>1. CompletedOnce => CompletedOnce'
      <4> SUFFICES ASSUME CompletedOnce PROVE CompletedOnce'
        OBVIOUS
      <4>1. invoked \in {0, 1}
        BY <2>1 DEF CompletedOnce
      <4>2. CASE invoked = 0
        BY <2>1, <2>5, <4>2 DEF CompletedOnce, Moved
      <4>3. CASE invoked = 1
        BY <2>1, <2>3, <2>5, <4>3 DEF CompletedOnce, Moved
      <4> QED BY <4>1, <4>2, <4>3
    <3> QED BY <2>1, <2>2, <2>4, <2>5, <3>1
  <2>6. CASE /\ blocked = "off" /\ \E n \in 1..MaxLength : left' = [j \in Streams |-> n]
             /\ chained' = chained + 1
    <3>1. left' \in [Streams -> Nat]
      BY <2>6, SpiAssumption
    <3> QED BY <2>1, <2>4, <2>6, <3>1
  <2> QED BY <1>7, <2>5, <2>6 DEF SpiHandler
<1> QED BY <1>1, <1>2, <1>3, <1>4, <1>5, <1>6, <1>7 DEF SpiNext

-----------------------------------------------------------------------------
(* The QSPI flash. *)

QspiTypes ==
  /\ nor \in [Places -> Int] /\ before \in [Places -> Int] /\ answers \in BOOLEAN
  /\ qspiCall \in [kind : {"none", "write", "erase"}, offset : Nat, length : Nat,
                   result : {"none", "true", "false"}]
  /\ currentOffset \in Nat /\ bytesToWrite \in Nat /\ qspiCalls \in Nat

CallEnd   == qspiCall.offset + qspiCall.length
CallRange == Span(qspiCall.offset, qspiCall.length)
SoFar     == Span(qspiCall.offset, currentOffset - qspiCall.offset)

\* A call has done what is before its current offset, and nothing else.
WriteGoesOn ==
  Running("write") =>
    /\ qspiCall.offset <= currentOffset /\ bytesToWrite > 0
    /\ currentOffset + bytesToWrite = CallEnd
    /\ \A a \in Places : a >= currentOffset => nor[a] = before[a]
    /\ \A a \in Places : a \in SoFar \ lost /\ before[a] = 0 => nor[a] = qspiCalls

EraseGoesOn ==
  Running("erase") =>
    /\ qspiCall.offset <= currentOffset
    /\ \E k \in Nat : CallEnd = currentOffset + (k + 1) * kBlock64kbSize
    /\ CallEnd <= kSizeLimit
    /\ \A a \in Places : a \in SoFar => nor[a] = 0

CallDone ==
  /\ \A a \in Places : a \notin CallRange => nor[a] = before[a]
  /\ qspiCall.result = "true" /\ qspiCall.kind = "write" =>
       \A a \in Places : a \in CallRange \ lost /\ before[a] = 0 => nor[a] = qspiCalls
  /\ qspiCall.result = "true" /\ qspiCall.kind = "erase" =>
       \A a \in Places : a \in CallRange => nor[a] = 0

\* No call goes beyond the flash.
WithinFlash == qspiCall.result = "none" \/ qspiCall.result = "true" => CallEnd <= kSizeLimit

QspiInv == QspiTypes /\ WriteGoesOn /\ EraseGoesOn /\ CallDone /\ WithinFlash

LEMMA QspiConstants ==
  /\ kPageSize \in Nat \ {0} /\ kBlock64kbSize \in Nat \ {0} /\ kSizeLimit \in Nat \ {0}
  /\ Places \subseteq Nat
BY QspiAssumption DEF Places

LEMMA QspiStarts == ASSUME QspiInit PROVE QspiInv
BY QspiConstants DEF QspiInit, QspiInv, QspiTypes, WriteGoesOn, EraseGoesOn, CallDone, WithinFlash, Idle, Running,
   CallRange, CallEnd, Span

\* What is left of a page; a page is programmed without going round.
LEMMA PageRest ==
  ASSUME NEW P \in Nat \ {0}, NEW o \in Nat
  PROVE  /\ o % P \in 0..(P - 1) /\ o \div P \in Nat
         /\ o = (o \div P) * P + (o % P)
         /\ (o \div P + 1) * P - o = P - (o % P)
<1>1. o % P \in 0..(P - 1) /\ o \div P \in Nat /\ o = P * (o \div P) + (o % P)
  <2>1. o % P \in 0..(P - 1)
    OBVIOUS
  <2>2. o \div P \in Int
    OBVIOUS
  <2>3. o = P * (o \div P) + (o % P)
    BY SMTT(60)
  <2>4. o \div P \in Nat
    BY <2>1, <2>2, <2>3
  <2> QED BY <2>1, <2>3, <2>4
<1> DEFINE q == o \div P
           r == o % P
<1>2. q \in Nat /\ r \in Nat /\ o = P * q + r
  BY <1>1
<1> HIDE DEF q, r
<1>3. o = q * P + r /\ (q + 1) * P - o = P - r
  BY <1>2
<1>4. r \in 0..(P - 1) /\ q \in Nat
  BY <1>1 DEF q, r
<1> QED BY <1>3, <1>4, Zenon DEF q, r

LEMMA SmallRest ==
  ASSUME NEW P \in Nat \ {0}, NEW r \in 0..(P - 1)
  PROVE  r % P = r
OBVIOUS

LEMMA ProgrammedSpan ==
  ASSUME NEW o \in Nat, NEW n \in Nat, n <= kPageSize - (o % kPageSize)
  PROVE  Programmed(o, n) = Span(o, n)
<1>1. kPageSize \in Nat \ {0}
  BY QspiConstants
<1>2. /\ (o % kPageSize) \in 0..(kPageSize - 1) /\ o \div kPageSize \in Nat
      /\ o = (o \div kPageSize) * kPageSize + (o % kPageSize)
  BY <1>1, PageRest
<1>3. ASSUME NEW i \in 0..(n - 1)
      PROVE  Wrapped(o, i) = o + i
  <2> DEFINE r == o % kPageSize
             b == (o \div kPageSize) * kPageSize
  <2>1. r \in Nat /\ r + i \in 0..(kPageSize - 1) /\ o = b + r /\ b \in Nat
    BY <1>1, <1>2
  <2>2. Wrapped(o, i) = b + ((r + i) % kPageSize)
    BY DEF Wrapped
  <2> HIDE DEF r, b
  <2>3. (r + i) % kPageSize = r + i
    BY <1>1, <2>1, SmallRest
  <2> QED BY <2>1, <2>2, <2>3
<1>4. Programmed(o, n) = {o + i : i \in 0..(n - 1)}
  BY <1>3 DEF Programmed
<1>5. \A a \in Span(o, n) : a - o \in 0..(n - 1) /\ o + (a - o) = a
  BY DEF Span
<1>6. \A i \in 0..(n - 1) : o + i \in Span(o, n)
  BY DEF Span
<1>7. \A a \in Span(o, n) : a \in {o + i : i \in 0..(n - 1)}
  BY <1>5, Zenon
<1>8. \A a \in {o + i : i \in 0..(n - 1)} : a \in Span(o, n)
  BY <1>6, Zenon
<1> QED BY <1>4, <1>7, <1>8, Zenon

LEMMA BeginsKeeps ==
  ASSUME QspiInv, NEW kind \in {"write", "erase"}, NEW o \in 0..kSizeLimit, NEW n \in 0..kSizeLimit,
         NEW verdict \in {"none", "true", "false"}, Begins(kind, o, n, verdict),
         verdict = "true" => n = 0,
         verdict \in {"none", "true"} => o + n <= kSizeLimit,
         verdict = "none" /\ kind = "write" => n > 0,
         verdict = "none" /\ kind = "erase" => n >= kBlock64kbSize /\ n % kBlock64kbSize = 0
  PROVE  QspiInv'
<1>1. /\ qspiCall' = [kind |-> kind, offset |-> o, length |-> n, result |-> verdict]
      /\ currentOffset' = o /\ bytesToWrite' = n /\ lost' = {} /\ before' = nor
      /\ UNCHANGED <<nor, answers>> /\ qspiCalls' = qspiCalls + 1
  BY DEF Begins
<1>2. o \in Nat /\ n \in Nat
  BY QspiConstants
<1>3. QspiTypes'
  BY <1>1, <1>2 DEF QspiInv, QspiTypes
<1>4. CallEnd' = o + n /\ CallRange' = Span(o, n) /\ SoFar' = {}
  BY <1>1, <1>2 DEF CallEnd, CallRange, SoFar, Span
<1>5. WriteGoesOn'
  BY <1>1, <1>2, <1>4 DEF WriteGoesOn, Running
<1>6. EraseGoesOn'
  <2>1. CASE verdict = "none" /\ kind = "erase"
    <3> DEFINE B == kBlock64kbSize
    <3>1. B \in Nat \ {0} /\ n % B = 0 /\ n >= B
      BY <2>1, QspiConstants
    <3> HIDE DEF B
    <3>2. n = (n \div B) * B /\ n \div B \in Nat
      <4> DEFINE q == n \div B
                 r == n % B
      <4>1. q \in Nat /\ n = q * B + r
        BY <1>2, <3>1, PageRest
      <4>2. r = 0
        BY <3>1
      <4> HIDE DEF q, r
      <4>3. q \in Nat /\ n = q * B
        BY <3>1, <4>1, <4>2
      <4> QED BY <4>3 DEF q
    <3>3. n \div B # 0
      BY <1>2, <3>1, <3>2
    <3>4. \E k \in Nat : o + n = o + (k + 1) * B
      <4>1. n \div B - 1 \in Nat /\ (n \div B - 1) + 1 = n \div B
        BY <3>2, <3>3
      <4> QED BY <3>2, <4>1
    <3> QED BY <1>1, <1>2, <1>4, <2>1, <3>4 DEF EraseGoesOn, B
  <2>2. CASE ~(verdict = "none" /\ kind = "erase")
    BY <1>1, <2>2 DEF EraseGoesOn, Running
  <2> QED BY <2>1, <2>2
<1>7. CallDone'
  <2>1. verdict = "true" => CallRange' = {}
    BY <1>2, <1>4 DEF Span
  <2> QED BY <1>1, <2>1 DEF CallDone
<1>8. WithinFlash'
  BY <1>1, <1>4 DEF WithinFlash
<1> QED BY <1>3, <1>5, <1>6, <1>7, <1>8 DEF QspiInv

LEMMA WriteBegins ==
  ASSUME QspiInv, NEW o \in 0..kSizeLimit, NEW n \in 0..kSizeLimit, write(o, n)
  PROVE  QspiInv'
<1> DEFINE verdict == IF o + n > kSizeLimit \/ ~answers THEN "false"
                      ELSE IF n = 0 THEN "true" ELSE "none"
<1>1. Begins("write", o, n, verdict)
  BY DEF write
<1>2. o \in Nat /\ n \in Nat /\ kSizeLimit \in Nat
  BY QspiConstants
<1>3. /\ verdict \in {"none", "true", "false"} /\ (verdict = "true" => n = 0)
      /\ verdict \in {"none", "true"} => o + n <= kSizeLimit
      /\ verdict = "none" => n > 0
  BY <1>2
<1> HIDE DEF verdict
<1> QED BY <1>1, <1>3, BeginsKeeps

LEMMA EraseBegins ==
  ASSUME QspiInv, NEW o \in 0..kSizeLimit, NEW n \in 0..kSizeLimit, erase(o, n)
  PROVE  QspiInv'
<1> DEFINE denied == \/ n < kBlock64kbSize \/ o > kSizeLimit - kBlock64kbSize
                     \/ o % kBlock64kbSize # 0 \/ n % kBlock64kbSize # 0 \/ o + n > kSizeLimit
           verdict == IF denied THEN "false" ELSE "none"
<1>1. Begins("erase", o, n, verdict)
  BY DEF erase
<1>2. o \in Nat /\ n \in Nat /\ kSizeLimit \in Nat /\ kBlock64kbSize \in Nat
  BY QspiConstants
<1>3. ~denied => n >= kBlock64kbSize /\ n % kBlock64kbSize = 0 /\ o + n <= kSizeLimit
  BY <1>2
<1> HIDE DEF denied
<1>4. /\ verdict \in {"none", "true", "false"} /\ verdict # "true"
      /\ verdict = "none" => ~denied
  OBVIOUS
<1> HIDE DEF verdict
<1> QED BY <1>1, <1>3, <1>4, BeginsKeeps

LEMMA WritePageKeeps == ASSUME QspiInv, writePage PROVE QspiInv'
<1> DEFINE P    == kPageSize
           o    == currentOffset
           w    == bytesToWrite
           rest == bytesToNextPage
           last == IF o % P = 0 THEN w <= P ELSE w < rest
           n    == IF last THEN w ELSE rest
           cells == Programmed(o, n)
<1>1. /\ nor' = [a \in Places |-> IF a \notin cells \/ ~answers THEN nor[a]
                                  ELSE IF nor[a] = 0 THEN qspiCalls ELSE -1]
      /\ lost' = IF answers THEN lost ELSE lost \union Span(o, n)
      /\ currentOffset' = o + n /\ bytesToWrite' = w - n
      /\ UNCHANGED <<answers, before, qspiCalls>> /\ Running("write")
      /\ \/ last /\ Returns(IF answers THEN "true" ELSE "false")
         \/ ~last /\ IF w - n = 0 THEN Returns("true") ELSE UNCHANGED qspiCall
  BY DEF writePage
<1>2. P \in Nat \ {0} /\ o \in Nat /\ w \in Nat \ {0}
  BY <1>1, QspiConstants DEF QspiInv, QspiTypes, WriteGoesOn
<1>3. o % P \in 0..(P - 1) /\ rest = P - (o % P)
  BY <1>2, PageRest DEF bytesToNextPage
<1>4. n \in Nat \ {0} /\ n <= w /\ n <= P - (o % P) /\ (last => n = w)
  <2> DEFINE r == o % P
  <2>1. r \in 0..(P - 1) /\ rest = P - r /\ P \in Nat \ {0} /\ w \in Nat \ {0}
    BY <1>2, <1>3
  <2>2. /\ last => (r = 0 => w <= P) /\ (r # 0 => w < rest)
        /\ ~last => (r = 0 => ~(w <= P)) /\ (r # 0 => ~(w < rest))
    OBVIOUS
  <2> HIDE DEF r, P, rest, w, last
  <2>3. n \in Nat \ {0} /\ n <= w /\ n <= P - r /\ (last => n = w)
    <3>1. CASE last
      BY <2>1, <2>2, <3>1
    <3>2. CASE ~last
      BY <2>1, <2>2, <3>2
    <3> QED BY <3>1, <3>2
  <2> HIDE DEF n
  <2> QED BY <2>3 DEF r
<1>5. cells = Span(o, n)
  BY <1>2, <1>4, ProgrammedSpan
<1>6. /\ qspiCall.kind = "write" /\ qspiCall.result = "none"
      /\ qspiCall.offset \in Nat /\ qspiCall.length \in Nat
      /\ qspiCall.offset <= o /\ o + w = CallEnd
  BY <1>1 DEF QspiInv, QspiTypes, WriteGoesOn, Running
<1> HIDE DEF P, o, w, rest, last, n, cells
<1>7. /\ qspiCall' \in [kind : {"none", "write", "erase"}, offset : Nat, length : Nat,
                        result : {"none", "true", "false"}]
      /\ qspiCall'.kind = "write" /\ qspiCall'.offset = qspiCall.offset
      /\ qspiCall'.length = qspiCall.length
      /\ qspiCall'.result = "none" => w - n > 0
      /\ qspiCall'.result = "true" => w = n
  <2>1. qspiCall \in [kind : {"none", "write", "erase"}, offset : Nat, length : Nat,
                      result : {"none", "true", "false"}]
    BY DEF QspiInv, QspiTypes
  <2>2. CASE last
    BY <1>1, <1>2, <1>4, <1>6, <2>1, <2>2 DEF Returns
  <2>3. CASE ~last
    BY <1>1, <1>2, <1>4, <1>6, <2>1, <2>3 DEF Returns
  <2> QED BY <2>2, <2>3
<1>8. QspiTypes'
  <2>1. nor' \in [Places -> Int]
    BY <1>1 DEF QspiInv, QspiTypes
  <2> QED BY <1>1, <1>2, <1>4, <1>7, <2>1 DEF QspiInv, QspiTypes
<1>9. CallEnd' = CallEnd /\ CallRange' = CallRange
  BY <1>7 DEF CallEnd, CallRange
<1>10. \A a \in Places : a >= o + n => nor'[a] = before[a]
  BY <1>1, <1>2, <1>4, <1>5, <1>6, QspiConstants DEF QspiInv, WriteGoesOn, Span, o
<1>11. \A a \in Places : a \in Span(qspiCall.offset, o + n - qspiCall.offset) \ lost' /\ before[a] = 0
                           => nor'[a] = qspiCalls
  <2> SUFFICES ASSUME NEW a \in Places, a \in Span(qspiCall.offset, o + n - qspiCall.offset),
                      a \notin lost', before[a] = 0
               PROVE  nor'[a] = qspiCalls
    OBVIOUS
  <2>1. a \in Nat /\ a \in qspiCall.offset..(o + n - 1)
    BY <1>2, <1>4, <1>6, QspiConstants DEF Span
  <2>2. CASE a < o
    <3>1. a \in SoFar /\ a \notin lost /\ a \notin Span(o, n)
      BY <1>1, <1>2, <1>6, <2>1, <2>2 DEF SoFar, Span, o
    <3>2. nor[a] = qspiCalls
      BY <1>1, <3>1 DEF QspiInv, WriteGoesOn
    <3> QED BY <1>1, <1>5, <3>1, <3>2
  <2>3. CASE a >= o
    <3>1. a \in Span(o, n)
      BY <1>2, <1>4, <2>1, <2>3 DEF Span
    <3>2. answers
      BY <1>1, <3>1
    <3>3. nor[a] = 0
      BY <1>1, <2>3 DEF QspiInv, WriteGoesOn, o
    <3> QED BY <1>1, <1>5, <3>1, <3>2, <3>3
  <2> QED BY <1>2, <2>1, <2>2, <2>3
<1>12. WriteGoesOn'
  <2>1. SoFar' = Span(qspiCall.offset, o + n - qspiCall.offset)
    BY <1>1, <1>2, <1>4, <1>7 DEF SoFar
  <2> QED BY <1>1, <1>2, <1>4, <1>6, <1>7, <1>9, <1>10, <1>11, <2>1 DEF WriteGoesOn, Running
<1>13. CallDone'
  <2>1. \A a \in Places : a \notin CallRange => nor'[a] = before[a]
    <3> SUFFICES ASSUME NEW a \in Places, a \notin CallRange PROVE nor'[a] = before[a]
      OBVIOUS
    <3>1. a \notin Span(o, n)
      BY <1>2, <1>4, <1>6, QspiConstants DEF CallRange, CallEnd, Span
    <3> QED BY <1>1, <1>5, <3>1 DEF QspiInv, CallDone
  <2>2. qspiCall'.result = "true" => CallRange = Span(qspiCall.offset, o + n - qspiCall.offset)
    <3>1. CallEnd - qspiCall.offset = qspiCall.length
      BY <1>6 DEF CallEnd
    <3> QED BY <1>2, <1>4, <1>6, <1>7, <3>1 DEF CallRange, CallEnd
  <2> QED BY <1>1, <1>7, <1>9, <1>11, <2>1, <2>2 DEF CallDone
<1>14. WithinFlash' /\ EraseGoesOn'
  BY <1>6, <1>7, <1>9 DEF QspiInv, WithinFlash, EraseGoesOn, Running
<1> QED BY <1>8, <1>12, <1>13, <1>14 DEF QspiInv

LEMMA EraseBlockKeeps == ASSUME QspiInv, eraseBlock PROVE QspiInv'
<1> DEFINE B == kBlock64kbSize
           o == currentOffset
<1>1. /\ Running("erase") /\ UNCHANGED <<answers, bytesToWrite, lost, before, qspiCalls>>
      /\ \/ ~answers /\ Returns("false") /\ UNCHANGED <<nor, currentOffset>>
         \/ /\ nor' = [a \in Places |-> IF a \in Span(o, B) THEN 0 ELSE nor[a]]
            /\ currentOffset' = o + B
            /\ IF o + B >= CallEnd \/ o + B >= kSizeLimit
               THEN Returns("true") ELSE UNCHANGED qspiCall
  BY DEF eraseBlock, CallEnd
<1>2. /\ B \in Nat \ {0} /\ o \in Nat /\ kSizeLimit \in Nat
      /\ qspiCall.offset \in Nat /\ qspiCall.length \in Nat /\ qspiCall.offset <= o
      /\ CallEnd <= kSizeLimit /\ CallEnd \in Nat /\ qspiCall.kind = "erase" /\ qspiCall.result = "none"
  BY <1>1, QspiConstants DEF QspiInv, QspiTypes, EraseGoesOn, Running, CallEnd
<1>3. PICK k \in Nat : CallEnd = o + (k + 1) * B
  BY <1>1 DEF QspiInv, EraseGoesOn
<1>4. qspiCall \in [kind : {"none", "write", "erase"}, offset : Nat, length : Nat,
                    result : {"none", "true", "false"}]
  BY DEF QspiInv, QspiTypes
<1>5. (k + 1) * B = k * B + B /\ k * B \in Nat /\ (k > 0 => k * B >= B)
  <2>1. (k + 1) * B = k * B + B /\ k * B \in Nat
    BY <1>2
  <2>2. ASSUME k > 0 PROVE k * B >= B
    <3>1. PICK j \in Nat : k = j + 1
      <4>1. k - 1 \in Nat /\ k = (k - 1) + 1
        BY <2>2
      <4> QED BY <4>1
    <3>2. k * B = j * B + B /\ j * B \in Nat
      BY <1>2, <3>1
    <3> QED BY <1>2, <3>2
  <2> QED BY <2>1, <2>2
<1> HIDE DEF B, o
<1>6. CASE ~answers /\ Returns("false") /\ UNCHANGED <<nor, currentOffset>>
  <2>1. /\ qspiCall' \in [kind : {"none", "write", "erase"}, offset : Nat, length : Nat,
                          result : {"none", "true", "false"}]
        /\ qspiCall'.kind = "erase" /\ qspiCall'.offset = qspiCall.offset
        /\ qspiCall'.length = qspiCall.length /\ qspiCall'.result = "false"
    BY <1>2, <1>4, <1>6 DEF Returns
  <2>2. CallRange' = CallRange
    BY <2>1 DEF CallRange
  <2> QED BY <1>1, <1>6, <2>1, <2>2 DEF QspiInv, QspiTypes, WriteGoesOn, EraseGoesOn, CallDone, WithinFlash,
             Running
<1>7. CASE /\ nor' = [a \in Places |-> IF a \in Span(o, B) THEN 0 ELSE nor[a]]
           /\ currentOffset' = o + B
           /\ IF o + B >= CallEnd \/ o + B >= kSizeLimit
              THEN Returns("true") ELSE UNCHANGED qspiCall
  <2>1. /\ qspiCall' \in [kind : {"none", "write", "erase"}, offset : Nat, length : Nat,
                          result : {"none", "true", "false"}]
        /\ qspiCall'.kind = "erase" /\ qspiCall'.offset = qspiCall.offset
        /\ qspiCall'.length = qspiCall.length
        /\ qspiCall'.result = "none" => o + B < CallEnd
        /\ qspiCall'.result = "true" => o + B >= CallEnd
    <3>1. CASE o + B >= CallEnd \/ o + B >= kSizeLimit
      <4>1. o + B >= CallEnd
        BY <1>2, <3>1
      <4> QED BY <1>2, <1>4, <1>7, <3>1, <4>1 DEF Returns
    <3>2. CASE ~(o + B >= CallEnd \/ o + B >= kSizeLimit)
      <4>1. o + B < CallEnd
        BY <1>2, <3>2
      <4> QED BY <1>2, <1>4, <1>7, <3>2, <4>1
    <3> QED BY <3>1, <3>2
  <2>2. CallEnd' = CallEnd /\ CallRange' = CallRange
    BY <2>1 DEF CallEnd, CallRange
  <2>3. QspiTypes'
    <3>1. nor' \in [Places -> Int]
      BY <1>7 DEF QspiInv, QspiTypes
    <3> QED BY <1>1, <1>2, <1>7, <2>1, <3>1 DEF QspiInv, QspiTypes
  <2>4. \A a \in Places : a \in Span(qspiCall.offset, o + B - qspiCall.offset) => nor'[a] = 0
    <3> SUFFICES ASSUME NEW a \in Places, a \in Span(qspiCall.offset, o + B - qspiCall.offset)
                 PROVE  nor'[a] = 0
      OBVIOUS
    <3>1. a \in SoFar \/ a \in Span(o, B)
      BY <1>2, QspiConstants DEF SoFar, Span, o
    <3>2. a \in SoFar => nor[a] = 0
      BY <1>1 DEF QspiInv, EraseGoesOn
    <3> QED BY <1>7, <3>1, <3>2
  <2>5. EraseGoesOn'
    <3>1. o + B < CallEnd => \E j \in Nat : CallEnd = o + B + (j + 1) * B
      <4>1. o + B < CallEnd => k - 1 \in Nat /\ (k - 1) + 1 = k
        BY <1>2, <1>3, <1>5
      <4>2. CallEnd = o + B + k * B
        BY <1>2, <1>3, <1>5
      <4> QED BY <4>1, <4>2
    <3>2. SoFar' = Span(qspiCall.offset, o + B - qspiCall.offset)
      BY <1>2, <1>7, <2>1 DEF SoFar
    <3>3. ASSUME NEW j \in Nat, CallEnd = o + B + (j + 1) * B
          PROVE  CallEnd' = currentOffset' + (j + 1) * kBlock64kbSize
      BY <1>7, <2>2, <3>3, Zenon DEF B
    <3>4. o + B < CallEnd => \E j \in Nat : CallEnd' = currentOffset' + (j + 1) * kBlock64kbSize
      BY <3>1, <3>3, Zenon
    <3>5. Running("erase")' => o + B < CallEnd
      BY <2>1 DEF Running
    <3>6. qspiCall'.offset <= currentOffset' /\ CallEnd' <= kSizeLimit
      BY <1>2, <1>7, <2>1, <2>2
    <3>7. \A a \in Places : a \in SoFar' => nor'[a] = 0
      BY <2>4, <3>2
    <3> QED BY <3>4, <3>5, <3>6, <3>7 DEF EraseGoesOn
  <2>6. CallDone'
    <3>1. o + B <= CallEnd
      BY <1>2, <1>3, <1>5
    <3>2. \A a \in Places : a \notin CallRange => a \notin Span(o, B)
      BY <1>2, <3>1, QspiConstants DEF CallRange, CallEnd, Span
    <3>3. \A a \in Places : a \notin CallRange => nor'[a] = before[a]
      BY <1>7, <3>2 DEF QspiInv, CallDone
    <3>4. \A a \in Places : o + B >= CallEnd /\ a \in CallRange => nor'[a] = 0
      <4>1. o + B >= CallEnd => o + B - qspiCall.offset = qspiCall.length
        BY <1>2, <3>1 DEF CallEnd
      <4> QED BY <2>4, <4>1 DEF CallRange
    <3> QED BY <1>1, <2>1, <2>2, <3>3, <3>4 DEF CallDone
  <2>7. WithinFlash' /\ WriteGoesOn'
    BY <1>2, <2>1, <2>2 DEF WithinFlash, WriteGoesOn, Running
  <2> QED BY <2>3, <2>5, <2>6, <2>7 DEF QspiInv
<1> QED BY <1>1, <1>6, <1>7

LEMMA QspiKeeps == ASSUME QspiInv, [QspiNext]_qspiVars PROVE QspiInv'
<1>1. CASE FallsSilent \/ UNCHANGED qspiVars
  <2>1. UNCHANGED <<nor, qspiCall, currentOffset, bytesToWrite, lost, before, qspiCalls>>
        /\ answers' \in BOOLEAN
    BY <1>1 DEF FallsSilent, qspiVars, QspiInv, QspiTypes
  <2> QED BY <2>1 DEF QspiInv, QspiTypes, WriteGoesOn, EraseGoesOn, CallDone, WithinFlash, Running, CallEnd,
             CallRange, SoFar
<1> QED BY <1>1, WriteBegins, EraseBegins, WritePageKeeps, EraseBlockKeeps DEF QspiNext

LEMMA QspiTells == QspiInv => QspiDoneMeansMoved
<1> SUFFICES ASSUME QspiInv PROVE QspiDoneMeansMoved
  OBVIOUS
<1>1. qspiCall.offset \in Nat /\ qspiCall.length \in Nat
  BY DEF QspiInv, QspiTypes
<1>2. qspiCall.result = "true" => CallRange \subseteq Places
  BY <1>1, QspiConstants DEF QspiInv, WithinFlash, CallRange, CallEnd, Span, Places
<1> QED BY <1>2 DEF QspiInv, CallDone, QspiDoneMeansMoved, CallRange

-----------------------------------------------------------------------------
(* Scans of the ADC. *)

AdcTypes ==
  /\ adc \in [count : Nat \ {0}, buffered : BOOLEAN, trigger : {"none", "timer"}]
  /\ adc.buffered => adc.count >= 2
  /\ scan \in Nat /\ dmaLeft \in 0..adc.count /\ places \in [0..(adc.count - 1) -> Int]
  /\ converted \in Int /\ shown \in Int /\ dmaFlags \subseteq {"half", "complete"}
  /\ window \in [from : Nat, count : Nat, due : Int] /\ window.from + window.count <= adc.count
  /\ dmaLeft = 0 => scan = 0 /\ dmaFlags = {} /\ window.count = 0

\* Places filled since DMA began them again.
FilledPlaces == adc.count - dmaLeft

\* Places pl from one to before another hold the conversions after c.
Held(pl, from, to, c) == \A q \in from..(to - 1) : pl[q] = c + q + 1

\* What is to be shown next begins after the last conversion shown: by halves (f
\* places are filled of n, of which h are the first half), and all at once.
ByHalves(fl, f, h, n, s, c, pl) ==
  \/ fl = {} /\ f < h /\ s = c - f
  \/ fl = {} /\ f >= h /\ s = c - (f - h)
  \/ fl = {"half"} /\ f >= h /\ s = c - f
  \/ fl = {"complete"} /\ f < h /\ s = c - f - (n - h) /\ Held(pl, h, n, c - f - n)

ByAll(fl, f, n, s, c, pl) ==
  \/ "complete" \notin fl /\ s = c - f
  \/ "complete" \in fl /\ f = 0 /\ s = c - n /\ Held(pl, 0, n, c - n)

Owes(buffered, fl, f, h, n, s, c, pl) ==
  /\ Held(pl, 0, f, c - f)
  /\ IF buffered THEN ByHalves(fl, f, h, n, s, c, pl) ELSE ByAll(fl, f, n, s, c, pl)

InTime ==
  /\ dmaLeft > 0 => Owes(adc.buffered, dmaFlags, FilledPlaces, FirstHalf, adc.count, shown, converted, places)
  /\ ScansAreShown

AdcInv == AdcTypes /\ (late = FALSE => InTime)

LEMMA HalfOf ==
  ASSUME NEW n \in Nat \ {0}
  PROVE  /\ n \div 2 \in Nat /\ n \div 2 < n
         /\ n >= 2 => n \div 2 >= 1
OBVIOUS

LEMMA AdcStartsInv == ASSUME AdcInit PROVE AdcInv
<1>1. adc \in [count : Nat \ {0}, buffered : BOOLEAN, trigger : {"none", "timer"}]
      /\ (adc.buffered => adc.count >= 2)
  <2>1. Channels \in Nat \ {0} /\ Samples \in Nat \ {0} /\ Samples >= 2
    BY AdcAssumption
  <2>2. PICK t \in {"none", "timer"} : adc = AdcBus(t) \/ adc = AdcBusBuffered(t)
    BY DEF AdcInit
  <2>3. CASE adc = AdcBus(t)
    BY <2>1, <2>3 DEF AdcBus
  <2>4. CASE adc = AdcBusBuffered(t)
    BY <2>1, <2>4 DEF AdcBusBuffered
  <2> QED BY <2>2, <2>3, <2>4
<1>2. /\ scan = 0 /\ dmaLeft = 0 /\ places = [p \in 0..(adc.count - 1) |-> 0] /\ converted = 0
      /\ dmaFlags = {} /\ window = Closed /\ shown = 0
  BY DEF AdcInit
<1>3. AdcTypes
  BY <1>1, <1>2 DEF AdcTypes, Closed
<1>4. InTime
  BY <1>2 DEF InTime, ScansAreShown, Closed
<1> QED BY <1>3, <1>4 DEF AdcInv

\* What is due, after one more conversion: within a round, and the last of it.
LEMMA PutsNext ==
  ASSUME NEW n \in Nat \ {0}, NEW p \in 0..(n - 1), NEW c \in Int,
         NEW pl \in [0..(n - 1) -> Int], Held(pl, 0, p, c - p)
  PROVE  Held([pl EXCEPT ![p] = c + 1], 0, p + 1, (c + 1) - (p + 1))
<1> DEFINE pn == [pl EXCEPT ![p] = c + 1]
<1>1. \A q \in 0..(n - 1) : pn[q] = IF q = p THEN c + 1 ELSE pl[q]
  OBVIOUS
<1> HIDE DEF pn
<1>2. ASSUME NEW q \in 0..(p + 1 - 1)
      PROVE  pn[q] = ((c + 1) - (p + 1)) + q + 1
  <2>1. CASE q = p
    BY <1>1, <2>1
  <2>2. CASE q # p
    <3>1. q \in 0..(p - 1)
      BY <2>2
    <3>2. pl[q] = (c - p) + q + 1
      BY <3>1 DEF Held
    <3> QED BY <1>1, <2>2, <3>1, <3>2
  <2> QED BY <2>1, <2>2
<1>3. Held(pn, 0, p + 1, (c + 1) - (p + 1))
  BY <1>2 DEF Held
<1> QED BY <1>3 DEF pn

LEMMA HalvesGoOn ==
  ASSUME NEW n \in Nat \ {0}, NEW p \in 0..(n - 1), NEW h \in 1..(n - 1), NEW c \in Int, NEW s \in Int,
         NEW pl \in [0..(n - 1) -> Int], NEW fl, NEW begun,
         p + 1 < n, begun = (IF p + 1 = h THEN {"half"} ELSE {}),
         fl = {} \/ begun = {}, ByHalves(fl, p, h, n, s, c, pl)
  PROVE  ByHalves(fl \union begun, p + 1, h, n, s, c + 1, [pl EXCEPT ![p] = c + 1])
<1> DEFINE pn == [pl EXCEPT ![p] = c + 1]
<1>1. \A q \in 0..(n - 1) : q # p => pn[q] = pl[q]
  OBVIOUS
<1> HIDE DEF pn
<1>2. CASE fl = {} /\ p < h /\ s = c - p
  <2>1. CASE p + 1 = h
    <3>1. fl \union begun = {"half"} /\ p + 1 >= h /\ s = (c + 1) - (p + 1)
      BY <1>2, <2>1
    <3> QED BY <3>1 DEF ByHalves
  <2>2. CASE p + 1 # h
    <3>1. fl \union begun = {} /\ p + 1 < h /\ s = (c + 1) - (p + 1)
      BY <1>2, <2>2
    <3> QED BY <3>1 DEF ByHalves
  <2> QED BY <2>1, <2>2
<1>3. CASE fl = {} /\ p >= h /\ s = c - (p - h)
  <2>1. fl \union begun = {} /\ p + 1 >= h /\ s = (c + 1) - ((p + 1) - h)
    BY <1>3
  <2> QED BY <2>1 DEF ByHalves
<1>4. CASE fl = {"half"} /\ p >= h /\ s = c - p
  <2>1. fl \union begun = {"half"} /\ p + 1 >= h /\ s = (c + 1) - (p + 1)
    BY <1>4
  <2> QED BY <2>1 DEF ByHalves
<1>5. CASE fl = {"complete"} /\ p < h /\ s = c - p - (n - h) /\ Held(pl, h, n, c - p - n)
  <2>1. begun = {} /\ p + 1 # h
    <3>1. fl # {}
      BY <1>5
    <3> QED BY <3>1
  <2>2. fl \union begun = {"complete"} /\ p + 1 < h /\ s = (c + 1) - (p + 1) - (n - h)
    BY <1>5, <2>1
  <2>3. ASSUME NEW q \in h..(n - 1)
        PROVE  pn[q] = ((c + 1) - (p + 1) - n) + q + 1
    <3>1. pl[q] = (c - p - n) + q + 1
      BY <1>5 DEF Held
    <3>2. q \in 0..(n - 1) /\ q # p
      BY <1>5
    <3> QED BY <1>1, <3>1, <3>2
  <2>4. Held(pn, h, n, (c + 1) - (p + 1) - n)
    BY <2>3 DEF Held
  <2>5. ByHalves(fl \union begun, p + 1, h, n, s, c + 1, pn)
    BY <2>2, <2>4 DEF ByHalves
  <2> QED BY <2>5 DEF pn
<1> QED BY <1>2, <1>3, <1>4, <1>5 DEF ByHalves

LEMMA HalvesBeginAgain ==
  ASSUME NEW n \in Nat \ {0}, NEW h \in 1..(n - 1), NEW c \in Int, NEW s \in Int, NEW pl, NEW pn,
         ByHalves({}, n - 1, h, n, s, c, pl), Held(pn, 0, n, (c + 1) - n)
  PROVE  ByHalves({"complete"}, 0, h, n, s, c + 1, pn)
<1>1. s = c - ((n - 1) - h)
  BY DEF ByHalves
<1>2. s = (c + 1) - 0 - (n - h) /\ 0 < h /\ (c + 1) - 0 - n = (c + 1) - n
  BY <1>1
<1>3. Held(pn, h, n, (c + 1) - 0 - n)
  BY <1>2 DEF Held
<1> QED BY <1>2, <1>3 DEF ByHalves

LEMMA AllGoesOn ==
  ASSUME NEW p \in Nat, NEW n \in Nat, NEW c \in Int, NEW s \in Int, NEW pl, NEW pn, NEW fl, NEW fn,
         "complete" \notin fl, "complete" \notin fn, ByAll(fl, p, n, s, c, pl)
  PROVE  ByAll(fn, p + 1, n, s, c + 1, pn)
<1>1. s = c - p
  BY DEF ByAll
<1>2. s = (c + 1) - (p + 1)
  BY <1>1
<1> QED BY <1>2 DEF ByAll

LEMMA AllBeginsAgain ==
  ASSUME NEW n \in Nat \ {0}, NEW c \in Int, NEW s \in Int, NEW pl, NEW pn, NEW fl, NEW fn,
         "complete" \notin fl, "complete" \in fn, ByAll(fl, n - 1, n, s, c, pl),
         Held(pn, 0, n, (c + 1) - n)
  PROVE  ByAll(fn, 0, n, s, c + 1, pn)
<1>1. s = c - (n - 1)
  BY DEF ByAll
<1>2. s = (c + 1) - n
  BY <1>1
<1> QED BY <1>2 DEF ByAll

LEMMA AdcStartsKeeps == ASSUME AdcInv, AdcStarts PROVE AdcInv'
<1>1. /\ UNCHANGED <<adc, places, converted, dmaFlags, window>>
      /\ dmaLeft' = adc.count /\ shown' = converted /\ scan' \in {0, Channels}
      /\ late' = (dmaFlags # {} \/ (late /\ window # Closed))
  BY DEF AdcStarts, DmaStarts
<1>2. /\ adc \in [count : Nat \ {0}, buffered : BOOLEAN, trigger : {"none", "timer"}]
      /\ adc.count >= 2 \/ ~adc.buffered
      /\ places \in [0..(adc.count - 1) -> Int] /\ converted \in Int
      /\ window \in [from : Nat, count : Nat, due : Int] /\ window.from + window.count <= adc.count
  BY DEF AdcInv, AdcTypes
<1>3. AdcTypes'
  BY <1>1, <1>2, AdcAssumption DEF AdcInv, AdcTypes
<1>4. ASSUME late' = FALSE
      PROVE  InTime'
  <2>1. dmaFlags = {} /\ (window = Closed \/ late = FALSE)
    <3>1. dmaFlags = {} /\ ~(late /\ window # Closed)
      BY <1>1, <1>4
    <3>2. CASE window = Closed
      BY <3>1, <3>2
    <3>3. CASE window # Closed
      BY <3>1, <3>3
    <3> QED BY <3>2, <3>3
  <2>2. ScansAreShown'
    <3>1. window' = window /\ places' = places
      BY <1>1
    <3>2. CASE window = Closed
      BY <3>1, <3>2 DEF ScansAreShown, Closed
    <3>3. CASE late = FALSE
      BY <3>1, <3>3 DEF AdcInv, InTime, ScansAreShown
    <3> QED BY <2>1, <3>2, <3>3
  <2>3. /\ FilledPlaces' = 0 /\ dmaFlags' = {} /\ shown' = converted /\ converted' = converted
        /\ FirstHalf' = FirstHalf /\ adc' = adc /\ converted = converted - 0
    BY <1>1, <1>2, <2>1 DEF FilledPlaces, FirstHalf
  <2>4. Held(places, 0, 0, converted - 0)
    BY DEF Held
  <2>5. adc.buffered => 0 < FirstHalf
    BY <1>2, HalfOf DEF FirstHalf
  <2>6. /\ adc.buffered => ByHalves({}, 0, FirstHalf, adc.count, converted, converted, places)
        /\ ByAll({}, 0, adc.count, converted, converted, places)
    BY <2>3, <2>5 DEF ByHalves, ByAll
  <2>7. Owes(adc.buffered, {}, 0, FirstHalf, adc.count, converted, converted, places)
    BY <2>4, <2>6 DEF Owes
  <2> QED BY <1>1, <2>2, <2>3, <2>7 DEF InTime
<1> QED BY <1>3, <1>4 DEF AdcInv

LEMMA ConvertsKeeps == ASSUME AdcInv, Converts PROVE AdcInv'
<1>1. PICK n, h, p, rest, begun :
        /\ n = adc.count /\ h = FirstHalf /\ p = FilledPlaces /\ rest = dmaLeft - 1 /\ begun = Raised(rest)
  OBVIOUS
<1>2. /\ scan > 0 /\ scan' = scan - 1 /\ converted' = converted + 1
      /\ places' = [places EXCEPT ![p] = converted + 1]
      /\ dmaLeft' = IF rest = 0 THEN n ELSE rest
      /\ dmaFlags' = dmaFlags \union begun
      /\ UNCHANGED <<adc, window, shown>>
  BY <1>1 DEF Converts, FilledPlaces
<1>3. late' = (late \/ InWindow(p) \/ (Interrupting # {} /\ (begun # {} \/ ~adc.buffered)))
  BY <1>1 DEF Converts, FilledPlaces
<1>4. /\ adc \in [count : Nat \ {0}, buffered : BOOLEAN, trigger : {"none", "timer"}]
      /\ n \in Nat \ {0} /\ (adc.buffered => n >= 2) /\ scan \in Nat
      /\ places \in [0..(n - 1) -> Int] /\ converted \in Int /\ shown \in Int
      /\ dmaFlags \subseteq {"half", "complete"}
      /\ window \in [from : Nat, count : Nat, due : Int] /\ window.from + window.count <= n
  BY <1>1 DEF AdcInv, AdcTypes
<1>5. dmaLeft \in 1..n
  <2>1. dmaLeft \in 0..n /\ dmaLeft # 0
    BY <1>1, <1>2 DEF AdcInv, AdcTypes
  <2> QED BY <1>4, <2>1
<1>6. p \in 0..(n - 1) /\ p = n - dmaLeft /\ rest = n - (p + 1)
  BY <1>1, <1>4, <1>5 DEF FilledPlaces
<1>7. adc.buffered => h \in 1..(n - 1)
  BY <1>1, <1>4, HalfOf DEF FirstHalf
<1>8. h \in Nat /\ h < n
  BY <1>1, <1>4, HalfOf DEF FirstHalf
<1>9. begun = IF rest = 0 THEN {"complete"} ELSE IF p + 1 = h THEN {"half"} ELSE {}
  <2>1. begun = IF rest = 0 THEN {"complete"} ELSE IF rest = n - h THEN {"half"} ELSE {}
    BY <1>1 DEF Raised
  <2>2. /\ rest = n - h => p + 1 = h
        /\ p + 1 = h => rest = n - h
    <3>1. n \in Int /\ h \in Int /\ p \in Int /\ rest = n - (p + 1)
      BY <1>4, <1>6, <1>8
    <3> QED BY <3>1
  <2> QED BY <2>1, <2>2
<1>10. AdcTypes'
  <2>1. dmaFlags' \subseteq {"half", "complete"}
    BY <1>2, <1>4, <1>9
  <2>2. dmaLeft' \in 1..n /\ scan' \in Nat
    BY <1>2, <1>4, <1>5, <1>6
  <2>3. converted' \in Int
    BY <1>2, <1>4
  <2>4. places' \in [0..(n - 1) -> Int]
    BY <1>2, <1>4, <2>3
  <2>5. dmaLeft' \in 0..n /\ dmaLeft' # 0
    BY <1>4, <2>2
  <2>6. adc' = adc /\ shown' = shown /\ window' = window /\ adc.count = n
    BY <1>1, <1>2
  <2> QED BY <1>4, <2>1, <2>2, <2>3, <2>4, <2>5, <2>6 DEF AdcTypes
<1>11. ASSUME late' = FALSE
       PROVE  InTime'
  <2>1. /\ late = FALSE /\ ~InWindow(p)
        /\ Interrupting = {} \/ (begun = {} /\ adc.buffered)
    <3>1. /\ ~late /\ ~InWindow(p)
          /\ ~(Interrupting # {} /\ (begun # {} \/ ~adc.buffered))
      BY <1>3, <1>11
    <3>2. late = FALSE
      BY <3>1
    <3> QED BY <3>1, <3>2
  <2>2. InTime /\ ~late
    BY <2>1 DEF AdcInv
  <2>3. Held(places, 0, p, converted - p) /\ ScansAreShown
        /\ (adc.buffered => ByHalves(dmaFlags, p, h, n, shown, converted, places))
        /\ (~adc.buffered => ByAll(dmaFlags, p, n, shown, converted, places))
    <3>1. dmaLeft > 0
      BY <1>4, <1>5
    <3> QED BY <1>1, <2>2, <3>1 DEF InTime, Owes
  <2>4. ScansAreShown'
    <3> SUFFICES ASSUME NEW i \in 1..window.count
                 PROVE  places'[window.from + i - 1] = window.due + i - 1
      BY <1>2 DEF ScansAreShown
    <3>1. window.from + i - 1 \in window.from..(window.from + window.count - 1)
          /\ window.from + i - 1 \in 0..(n - 1)
      BY <1>4
    <3>2. window.from + i - 1 # p
      BY <2>1, <3>1 DEF InWindow
    <3>3. places[window.from + i - 1] = window.due + i - 1
      BY <2>2, <2>3 DEF ScansAreShown
    <3>4. PICK j : j = window.from + i - 1
      OBVIOUS
    <3>5. places'[j] = places[j]
      BY <1>2, <1>4, <3>1, <3>2, <3>4
    <3> QED BY <3>3, <3>4, <3>5
  <2>5. Held(places', 0, p + 1, (converted + 1) - (p + 1))
    BY <1>2, <1>4, <1>6, <2>3, PutsNext
  <2>6. /\ FilledPlaces' = n - dmaLeft' /\ FirstHalf' = h /\ adc'.count = n /\ adc'.buffered = adc.buffered
        /\ shown' = shown
    BY <1>1, <1>2 DEF FilledPlaces, FirstHalf
  <2>7. CASE rest # 0
    <3>1. FilledPlaces' = p + 1 /\ p + 1 < n /\ dmaLeft' = rest
      BY <1>2, <1>4, <1>5, <1>6, <2>6, <2>7
    <3>2. begun = IF p + 1 = h THEN {"half"} ELSE {}
      BY <1>9, <2>7
    <3>3. CASE adc.buffered
      <4>1. dmaFlags = {} \/ begun = {}
        BY <1>4, <2>1, <3>3 DEF Interrupting
      <4>2. ByHalves(dmaFlags', p + 1, h, n, shown, converted + 1, places')
        BY <1>2, <1>4, <1>6, <1>7, <2>3, <3>1, <3>2, <3>3, <4>1, HalvesGoOn
      <4>3. Owes(adc.buffered, dmaFlags', p + 1, h, n, shown, converted + 1, places')
        BY <2>5, <3>3, <4>2 DEF Owes
      <4> QED BY <1>2, <2>4, <2>6, <3>1, <4>3 DEF InTime
    <3>4. CASE ~adc.buffered
      <4>1. "complete" \notin dmaFlags /\ "complete" \notin dmaFlags'
        BY <1>2, <2>1, <3>2, <3>4 DEF Interrupting
      <4>2. ByAll(dmaFlags', p + 1, n, shown, converted + 1, places')
        <5>1. p \in Nat /\ n \in Nat
          BY <1>4, <1>6
        <5> QED BY <1>4, <2>3, <3>4, <4>1, <5>1, AllGoesOn
      <4>3. Owes(adc.buffered, dmaFlags', p + 1, h, n, shown, converted + 1, places')
        BY <2>5, <3>4, <4>2 DEF Owes
      <4> QED BY <1>2, <2>4, <2>6, <3>1, <4>3 DEF InTime
    <3> QED BY <3>3, <3>4
  <2>8. CASE rest = 0
    <3>1. /\ FilledPlaces' = 0 /\ p = n - 1 /\ p + 1 = n /\ n - n = 0 /\ dmaLeft' = n
      BY <1>2, <1>4, <1>6, <2>6, <2>8
    <3>2. begun = {"complete"} /\ dmaFlags' = dmaFlags \union {"complete"} /\ Interrupting = {}
      BY <1>2, <1>9, <2>1, <2>8
    <3>3. Held(places', 0, n, (converted + 1) - n)
      BY <2>5, <3>1
    <3>4. Held(places', 0, 0, (converted + 1) - 0)
      BY DEF Held
    <3>5. CASE adc.buffered
      <4>1. dmaFlags = {} /\ dmaFlags' = {"complete"}
        BY <1>4, <3>2, <3>5 DEF Interrupting
      <4>2. ByHalves({"complete"}, 0, h, n, shown, converted + 1, places')
        BY <1>4, <1>7, <2>3, <3>1, <3>3, <3>5, <4>1, HalvesBeginAgain
      <4>3. Owes(adc.buffered, dmaFlags', 0, h, n, shown, converted + 1, places')
        BY <3>4, <3>5, <4>1, <4>2 DEF Owes
      <4> QED BY <1>2, <2>4, <2>6, <3>1, <4>3 DEF InTime
    <3>6. CASE ~adc.buffered
      <4>1. "complete" \notin dmaFlags /\ "complete" \in dmaFlags'
        BY <3>2, <3>6 DEF Interrupting
      <4>2. ByAll(dmaFlags', 0, n, shown, converted + 1, places')
        BY <1>4, <2>3, <3>1, <3>3, <3>6, <4>1, AllBeginsAgain
      <4>3. Owes(adc.buffered, dmaFlags', 0, h, n, shown, converted + 1, places')
        BY <3>4, <3>6, <4>2 DEF Owes
      <4> QED BY <1>2, <2>4, <2>6, <3>1, <4>3 DEF InTime
    <3> QED BY <3>5, <3>6
  <2> QED BY <2>7, <2>8
<1> QED BY <1>10, <1>11 DEF AdcInv

\* What the handler shows is due, and nothing is missed.
Shows(pl, from, count, s) == \A i \in 1..count : pl[from + i - 1] = s + 1 + i - 1

LEMMA HalvesShown ==
  ASSUME NEW n \in Nat \ {0}, NEW h \in 1..(n - 1), NEW f \in 0..(n - 1), NEW c \in Int, NEW s \in Int,
         NEW pl, NEW fl, NEW wf, NEW wc, fl # {}, Held(pl, 0, f, c - f), ByHalves(fl, f, h, n, s, c, pl),
         "half" \in fl => wf = 0 /\ wc = h,
         fl = {"complete"} => wf = h /\ wc = n - h
  PROVE  /\ Shows(pl, wf, wc, s)
         /\ ByHalves({}, f, h, n, s + wc, c, pl)
<1>1. CASE fl = {"half"} /\ f >= h /\ s = c - f
  <2>1. wf = 0 /\ wc = h
    BY <1>1
  <2>2. ASSUME NEW i \in 1..wc
        PROVE  pl[wf + i - 1] = s + 1 + i - 1
    <3>1. PICK q : q = i - 1
      OBVIOUS
    <3>2. q \in 0..(f - 1) /\ wf + i - 1 = q
      BY <1>1, <2>1, <3>1
    <3>3. pl[q] = (c - f) + q + 1
      BY <3>2 DEF Held
    <3>4. s + 1 + i - 1 = (c - f) + q + 1
      BY <1>1, <2>1, <3>1
    <3> QED BY <3>2, <3>3, <3>4
  <2>3. s + wc = c - (f - h)
    BY <1>1, <2>1
  <2> QED BY <1>1, <2>2, <2>3 DEF ByHalves, Shows
<1>2. CASE fl = {"complete"} /\ f < h /\ s = c - f - (n - h) /\ Held(pl, h, n, c - f - n)
  <2>1. wf = h /\ wc = n - h
    BY <1>2
  <2>2. ASSUME NEW i \in 1..wc
        PROVE  pl[wf + i - 1] = s + 1 + i - 1
    <3>1. PICK q : q = h + i - 1
      OBVIOUS
    <3>2. q \in h..(n - 1) /\ wf + i - 1 = q
      BY <2>1, <3>1
    <3>3. pl[q] = (c - f - n) + q + 1
      BY <1>2, <3>2 DEF Held
    <3>4. s + 1 + i - 1 = (c - f - n) + q + 1
      BY <1>2, <2>1, <3>1
    <3> QED BY <3>2, <3>3, <3>4
  <2>3. s + wc = c - f
    BY <1>2, <2>1
  <2> QED BY <1>2, <2>2, <2>3 DEF ByHalves, Shows
<1> QED BY <1>1, <1>2 DEF ByHalves

LEMMA AllShown ==
  ASSUME NEW n \in Nat \ {0}, NEW f \in 0..(n - 1), NEW c \in Int, NEW s \in Int,
         NEW pl, NEW fl, "complete" \in fl, ByAll(fl, f, n, s, c, pl)
  PROVE  /\ Shows(pl, 0, n, s)
         /\ ByAll({}, f, n, s + n, c, pl)
<1>1. f = 0 /\ s = c - n /\ Held(pl, 0, n, c - n)
  BY DEF ByAll
<1>2. ASSUME NEW i \in 1..n
      PROVE  pl[0 + i - 1] = s + 1 + i - 1
  <2>1. PICK q : q = i - 1
    OBVIOUS
  <2>2. q \in 0..(n - 1) /\ 0 + i - 1 = q
    BY <2>1
  <2>3. pl[q] = (c - n) + q + 1
    BY <1>1, <2>2 DEF Held
  <2>4. s + 1 + i - 1 = (c - n) + q + 1
    BY <1>1, <2>1
  <2> QED BY <2>2, <2>3, <2>4
<1>3. s + n = c - f
  BY <1>1
<1> QED BY <1>2, <1>3 DEF ByAll, Shows

LEMMA AdcHandlerKeeps == ASSUME AdcInv, AdcHandler PROVE AdcInv'
<1>1. PICK n, h, w : /\ n = adc.count /\ h = FirstHalf
                     /\ w = IF adc.buffered THEN Shown(dmaFlags) ELSE ShownAll(dmaFlags)
  OBVIOUS
<1>2. /\ dmaFlags' = {} /\ Interrupting # {}
      /\ window' = [from |-> w.from, count |-> w.count, due |-> shown + 1]
      /\ shown' = shown + w.count
      /\ UNCHANGED <<adc, scan, dmaLeft, places, converted, late>>
  BY <1>1 DEF AdcHandler
<1>3. /\ adc \in [count : Nat \ {0}, buffered : BOOLEAN, trigger : {"none", "timer"}]
      /\ n \in Nat \ {0} /\ (adc.buffered => n >= 2)
      /\ places \in [0..(n - 1) -> Int] /\ converted \in Int /\ shown \in Int
      /\ dmaFlags \subseteq {"half", "complete"}
  BY <1>1 DEF AdcInv, AdcTypes
<1>4. dmaLeft \in 1..n /\ dmaLeft # 0 /\ dmaLeft > 0
  <2>1. dmaFlags # {}
    BY <1>2 DEF Interrupting
  <2>2. dmaLeft \in 0..n /\ dmaLeft # 0
    BY <1>1, <2>1 DEF AdcInv, AdcTypes
  <2> QED BY <1>3, <2>2
<1>5. h \in Nat /\ h < n /\ (adc.buffered => h \in 1..(n - 1))
  BY <1>1, <1>3, HalfOf DEF FirstHalf
<1>6. /\ adc.buffered => ("half" \in dmaFlags => w.from = 0 /\ w.count = h)
      /\ adc.buffered => (dmaFlags = {"complete"} => w.from = h /\ w.count = n - h)
      /\ ~adc.buffered => "complete" \in dmaFlags /\ w.from = 0 /\ w.count = n
      /\ adc.buffered => "half" \in dmaFlags \/ dmaFlags = {"complete"}
  BY <1>1, <1>2, <1>3 DEF Shown, ShownAll, Interrupting
<1>7. w.from \in Nat /\ w.count \in Nat /\ w.from + w.count <= n
  BY <1>3, <1>5, <1>6
<1>8. AdcTypes'
  <2>1. shown' \in Int /\ shown + 1 \in Int
    BY <1>2, <1>3, <1>7
  <2>2. window' \in [from : Nat, count : Nat, due : Int] /\ window'.from + window'.count <= adc.count
    BY <1>1, <1>2, <1>7, <2>1
  <2> QED BY <1>2, <1>4, <2>1, <2>2 DEF AdcInv, AdcTypes
<1>9. ASSUME late' = FALSE
      PROVE  InTime'
  <2>1. InTime
    BY <1>2, <1>9 DEF AdcInv
  <2>2. PICK f : f = FilledPlaces
    OBVIOUS
  <2>3. Owes(adc.buffered, dmaFlags, f, h, n, shown, converted, places)
    BY <1>1, <1>4, <2>1, <2>2 DEF InTime
  <2>4. f \in 0..(n - 1)
    BY <1>1, <1>3, <1>4, <2>2 DEF FilledPlaces
  <2>5. /\ Shows(places, w.from, w.count, shown)
        /\ Owes(adc.buffered, {}, f, h, n, shown + w.count, converted, places)
    <3>1. CASE adc.buffered
      <4>1. Held(places, 0, f, converted - f) /\ ByHalves(dmaFlags, f, h, n, shown, converted, places)
        BY <2>3, <3>1 DEF Owes
      <4>2. dmaFlags # {}
        BY <1>2 DEF Interrupting
      <4>3. PICK from, count : from = w.from /\ count = w.count
        OBVIOUS
      <4>4. /\ "half" \in dmaFlags => from = 0 /\ count = h
            /\ dmaFlags = {"complete"} => from = h /\ count = n - h
            /\ h \in 1..(n - 1)
        BY <1>5, <1>6, <3>1, <4>3
      <4>5. /\ Shows(places, from, count, shown)
            /\ ByHalves({}, f, h, n, shown + count, converted, places)
        <5>1. n \in Nat \ {0} /\ converted \in Int /\ shown \in Int
          BY <1>3
        <5> QED BY <2>4, <4>1, <4>2, <4>4, <5>1, HalvesShown
      <4> QED BY <3>1, <4>1, <4>3, <4>5 DEF Owes
    <3>2. CASE ~adc.buffered
      <4>1. Held(places, 0, f, converted - f) /\ ByAll(dmaFlags, f, n, shown, converted, places)
        BY <2>3, <3>2 DEF Owes
      <4>2. "complete" \in dmaFlags /\ w.from = 0 /\ w.count = n
        BY <1>6, <3>2
      <4>3. /\ Shows(places, 0, n, shown)
            /\ ByAll({}, f, n, shown + n, converted, places)
        BY <1>3, <2>4, <4>1, <4>2, AllShown
      <4> QED BY <3>2, <4>1, <4>2, <4>3 DEF Owes
    <3> QED BY <3>1, <3>2
  <2>6. ScansAreShown'
    <3>1. \A i \in 1..window'.count : places[window'.from + i - 1] = window'.due + i - 1
      BY <1>2, <2>5 DEF Shows
    <3> QED BY <1>2, <3>1 DEF ScansAreShown
  <2>7. FilledPlaces' = f /\ FirstHalf' = h /\ adc' = adc /\ adc.count = n
    BY <1>1, <1>2, <2>2 DEF FilledPlaces, FirstHalf
  <2> QED BY <1>2, <2>5, <2>6, <2>7 DEF InTime
<1> QED BY <1>8, <1>9 DEF AdcInv

LEMMA AdcKeeps == ASSUME AdcInv, [AdcNext]_adcVars PROVE AdcInv'
<1>1. CASE TimerTriggers
  <2>1. /\ UNCHANGED <<adc, dmaLeft, places, converted, dmaFlags, window, shown, late>>
        /\ scan' = Channels /\ dmaLeft > 0
    BY <1>1 DEF TimerTriggers
  <2>2. AdcTypes'
    BY <2>1, AdcAssumption DEF AdcInv, AdcTypes
  <2>3. InTime' = InTime
    BY <2>1 DEF InTime, FilledPlaces, FirstHalf, ScansAreShown
  <2> QED BY <2>1, <2>2, <2>3 DEF AdcInv
<1>2. CASE AdcCallbackReturns
  <2>1. /\ UNCHANGED <<adc, scan, dmaLeft, places, converted, dmaFlags, shown, late>>
        /\ window' = Closed
    BY <1>2 DEF AdcCallbackReturns
  <2>2. AdcTypes' /\ ScansAreShown'
    BY <2>1 DEF AdcInv, AdcTypes, Closed, ScansAreShown
  <2>3. InTime => InTime'
    BY <2>1, <2>2 DEF InTime, FilledPlaces, FirstHalf
  <2> QED BY <2>1, <2>2, <2>3 DEF AdcInv
<1>3. CASE UNCHANGED adcVars
  BY <1>3 DEF adcVars, AdcInv, AdcTypes, InTime, FilledPlaces, FirstHalf, ScansAreShown
<1> QED BY <1>1, <1>2, <1>3, AdcStartsKeeps, ConvertsKeeps, AdcHandlerKeeps DEF AdcNext

LEMMA AdcTells == AdcInv => ScansAreShown
<1> SUFFICES ASSUME AdcInv, ~late PROVE ScansAreShown
  BY DEF ScansAreShown
<1> QED BY DEF AdcInv, InTime

-----------------------------------------------------------------------------
(* Transfers that are done. *)

DoneInv == PollInv /\ SpiInv /\ QspiInv /\ AdcInv

LEMMA DoneStarts == Init => DoneInv
BY PollStarts, SpiStarts, QspiStarts, AdcStartsInv DEF Init, DoneInv

LEMMA DoneKeeps == DoneInv /\ [Next]_platformVars => DoneInv'
<1> SUFFICES ASSUME DoneInv, [Next]_platformVars PROVE DoneInv'
  OBVIOUS
<1>1. PollInv'
  BY PartsApart, PollKeeps, PollingAssumption DEF DoneInv
<1>2. SpiInv'
  BY PartsApart, SpiKeeps DEF DoneInv
<1>3. QspiInv'
  BY PartsApart, QspiKeeps DEF DoneInv
<1>4. AdcInv'
  BY PartsApart, AdcKeeps DEF DoneInv
<1> QED BY <1>1, <1>2, <1>3, <1>4 DEF DoneInv

\* In every state, whatever failed or came in between: a polled transfer that tells of
\* success moved every byte, an exchange over SPI calls back once and after its last
\* byte, a part of the flash that was written or erased has what it should, and around
\* it nothing changed, and a callback of the ADC looks at the conversions that are due.
THEOREM DoneIsMoved == Spec => []DoneMeansMoved
<1>1. DoneInv => DoneMeansMoved
  BY PollTells, QspiTells, AdcTells DEF DoneInv, SpiInv, DoneMeansMoved
<1> QED BY <1>1, DoneStarts, DoneKeeps, PTL DEF Spec

-----------------------------------------------------------------------------
(* The list of requests. *)

\* What is left without some values, step by step.
LEMMA RemainingSteps ==
  ASSUME NEW S, NEW s \in Seq(S), NEW gone
  PROVE  LET g == Abstract!Remaining(s, gone)
         IN  /\ g[0] = <<>>
             /\ \A i \in 1..Len(s) : g[i] = IF s[i] \in gone THEN g[i - 1] ELSE Append(g[i - 1], s[i])
             /\ \A i \in 0..Len(s) : g[i] \in Seq(S)
<1> DEFINE Steps(q) == q = [i \in 0..Len(s) |-> IF i = 0 THEN <<>> ELSE IF s[i] \in gone THEN q[i - 1]
                                                ELSE Append(q[i - 1], s[i])]
           addTo == [i \in 1..Len(s) |-> [r \in Seq(S) |-> IF s[i] \in gone THEN r ELSE Append(r, s[i])]]
           g == Abstract!Remaining(s, gone)
<1>1. Len(s) \in Nat /\ (\A i \in 1..Len(s) : s[i] \in S) /\ <<>> \in Seq(S)
  OBVIOUS
<1>2. \E q : Steps(q)
  <2>1. addTo \in [1..Len(s) -> [Seq(S) -> Seq(S)]]
    BY <1>1
  <2>2. \A i \in 1..Len(s) : \A r \in Seq(S) : addTo[i][r] = IF s[i] \in gone THEN r ELSE Append(r, s[i])
    OBVIOUS
  <2> HIDE DEF addTo
  <2>3. PICK h \in [0..Len(s) -> Seq(S)] : Recursed(h, Len(s), <<>>, addTo)
    BY <1>1, <2>1, Recursion
  <2>4. ASSUME NEW i \in 1..Len(s)
        PROVE  h[i] = IF s[i] \in gone THEN h[i - 1] ELSE Append(h[i - 1], s[i])
    <3>1. i - 1 \in 0..Len(s) /\ h[i - 1] \in Seq(S)
      BY <1>1, <2>3
    <3> QED BY <2>2, <2>3, <3>1 DEF Recursed
  <2>5. h = [i \in 0..Len(s) |-> IF i = 0 THEN <<>> ELSE IF s[i] \in gone THEN h[i - 1]
                                 ELSE Append(h[i - 1], s[i])]
    <3>1. \A i \in 0..Len(s) : i = 0 \/ i \in 1..Len(s)
      BY <1>1
    <3>2. h[0] = <<>>
      BY <2>3 DEF Recursed
    <3>3. \A i \in 0..Len(s) : h[i] = IF i = 0 THEN <<>> ELSE IF s[i] \in gone THEN h[i - 1]
                                     ELSE Append(h[i - 1], s[i])
      BY <2>4, <3>1, <3>2
    <3> QED BY <2>3, <3>3
  <2> QED BY <2>5
<1>3. Steps(g)
  BY <1>2, Zenon DEF Abstract!Remaining
<1> HIDE DEF g
<1>4. g[0] = <<>>
  BY <1>1, <1>3
<1>5. ASSUME NEW i \in 1..Len(s)
      PROVE  g[i] = IF s[i] \in gone THEN g[i - 1] ELSE Append(g[i - 1], s[i])
  <2>1. i \in 0..Len(s) /\ i # 0
    BY <1>1
  <2> QED BY <1>3, <2>1
<1> DEFINE T == {i \in Nat : i <= Len(s) => g[i] \in Seq(S)}
<1>6. 0 \in T
  BY <1>1, <1>4
<1>7. ASSUME NEW i \in Nat, i \in T
      PROVE  i + 1 \in T
  <2> SUFFICES ASSUME i + 1 <= Len(s)
               PROVE  g[i + 1] \in Seq(S)
    OBVIOUS
  <2>1. g[i] \in Seq(S) /\ i + 1 \in 1..Len(s) /\ (i + 1) - 1 = i
    BY <1>1, <1>7
  <2>2. s[i + 1] \in S
    BY <1>1, <2>1
  <2>3. g[i + 1] = IF s[i + 1] \in gone THEN g[i] ELSE Append(g[i], s[i + 1])
    BY <1>5, <2>1
  <2>4. Append(g[i], s[i + 1]) \in Seq(S)
    BY <2>1, <2>2
  <2> QED BY <2>1, <2>3, <2>4
<1>8. Nat \subseteq T
  <2> HIDE DEF T
  <2> QED BY <1>6, <1>7, Induction
<1>9. \A i \in 0..Len(s) : g[i] \in Seq(S)
  BY <1>1, <1>8
<1> QED BY <1>4, <1>5, <1>9 DEF g

\* The others keep their order and are different if they were, and what is taken out is
\* the rest.
LEMMA OthersFacts ==
  ASSUME NEW S, NEW s \in Seq(S), IsInjective(s), NEW gone
  PROVE  LET o == Abstract!Others(s, gone)
             t == Abstract!Others(s, S \ gone)
         IN  /\ o \in Seq(S) /\ IsInjective(o) /\ Range(o) = Range(s) \ gone
             /\ t \in Seq(S) /\ IsInjective(t) /\ Range(t) = Range(s) \intersect gone
             /\ Len(o) + Len(t) = Len(s)
<1> DEFINE g == Abstract!Remaining(s, gone)
           h == Abstract!Remaining(s, S \ gone)
           Up(i) == {s[k] : k \in 1..i}
           Good(i) == /\ IsInjective(g[i]) /\ Range(g[i]) = Up(i) \ gone
                      /\ IsInjective(h[i]) /\ Range(h[i]) = Up(i) \intersect gone
                      /\ Len(g[i]) + Len(h[i]) = i
           T == {i \in Nat : i <= Len(s) => Good(i)}
<1>1. Len(s) \in Nat /\ \A i \in 1..Len(s) : s[i] \in S
  OBVIOUS
<1>2. /\ g[0] = <<>> /\ h[0] = <<>>
      /\ \A i \in 1..Len(s) : g[i] = IF s[i] \in gone THEN g[i - 1] ELSE Append(g[i - 1], s[i])
      /\ \A i \in 1..Len(s) : h[i] = IF s[i] \in S \ gone THEN h[i - 1] ELSE Append(h[i - 1], s[i])
      /\ \A i \in 0..Len(s) : g[i] \in Seq(S) /\ h[i] \in Seq(S)
  BY RemainingSteps
<1> HIDE DEF g, h, Good
<1>3. 0 \in T
  <2>1. Up(0) = {}
    OBVIOUS
  <2>2. IsInjective(<<>>) /\ Range(<<>>) = {} /\ Len(<<>>) = 0
    BY DEF IsInjective, Range
  <2>3. Range(g[0]) = Up(0) \ gone /\ Range(h[0]) = Up(0) \intersect gone /\ Len(g[0]) + Len(h[0]) = 0
    BY <1>2, <2>1, <2>2
  <2>4. Good(0)
    BY <1>2, <2>2, <2>3 DEF Good
  <2> QED BY <2>4
<1>4. ASSUME NEW i \in Nat, i \in T
      PROVE  i + 1 \in T
  <2> SUFFICES ASSUME i + 1 <= Len(s)
               PROVE  Good(i + 1)
    OBVIOUS
  <2>1. PICK j, e : j = i + 1 /\ e = s[j]
    OBVIOUS
  <2>2. j \in 1..Len(s) /\ i \in 0..Len(s) /\ j - 1 = i /\ e \in S /\ Good(i)
    BY <1>1, <1>4, <2>1
  <2>3. e \notin Up(i)
    <3> SUFFICES ASSUME NEW k \in 1..i, e = s[k]
                 PROVE  FALSE
      OBVIOUS
    <3>1. k \in DOMAIN s /\ j \in DOMAIN s /\ k # j
      BY <1>1, <2>1, <2>2
    <3> QED BY <2>1, <3>1 DEF IsInjective
  <2>4. Up(j) = Up(i) \union {e}
    <3>1. \A x \in Up(j) : x \in Up(i) \union {e}
      BY <2>1, <2>2
    <3>2. \A x \in Up(i) \union {e} : x \in Up(j)
      BY <2>1, <2>2
    <3> QED BY <3>1, <3>2, Zenon
  <2>5. g[i] \in Seq(S) /\ h[i] \in Seq(S)
    BY <1>2, <2>2
  <2>6. /\ IsInjective(g[i]) /\ Range(g[i]) = Up(i) \ gone
        /\ IsInjective(h[i]) /\ Range(h[i]) = Up(i) \intersect gone
        /\ Len(g[i]) + Len(h[i]) = i
    BY <2>2 DEF Good
  <2>7. CASE e \in gone
    <3>1. g[j] = g[i] /\ h[j] = Append(h[i], e)
      BY <1>2, <2>1, <2>2, <2>7
    <3>2. e \notin Range(h[i])
      BY <2>3, <2>6
    <3> HIDE DEF Up
    <3>3. /\ IsInjective(Append(h[i], e)) /\ Range(Append(h[i], e)) = Range(h[i]) \union {e}
      BY <2>2, <2>5, <2>6, <3>2, GiveBack
    <3>4. Len(Append(h[i], e)) = Len(h[i]) + 1 /\ Len(g[i]) \in Nat /\ Len(h[i]) \in Nat
      BY <2>5
    <3>5. Range(g[j]) = Up(j) \ gone /\ Range(h[j]) = Up(j) \intersect gone
      BY <2>4, <2>6, <2>7, <3>1, <3>3
    <3>6. Len(g[j]) + Len(h[j]) = j
      <4>1. PICK m, n : m = Len(g[i]) /\ n = Len(h[i])
        OBVIOUS
      <4>2. m \in Nat /\ n \in Nat /\ m + n = i
        BY <2>6, <3>4, <4>1
      <4>3. Len(g[j]) = m /\ Len(h[j]) = n + 1
        BY <3>1, <3>4, <4>1
      <4>4. m + (n + 1) = j
        BY <2>1, <4>2
      <4> QED BY <4>3, <4>4
    <3> QED BY <2>1, <2>6, <3>1, <3>3, <3>5, <3>6 DEF Good
  <2>8. CASE e \notin gone
    <3>1. h[j] = h[i] /\ g[j] = Append(g[i], e)
      BY <1>2, <2>1, <2>2, <2>8
    <3>2. e \notin Range(g[i])
      BY <2>3, <2>6
    <3> HIDE DEF Up
    <3>3. /\ IsInjective(Append(g[i], e)) /\ Range(Append(g[i], e)) = Range(g[i]) \union {e}
      BY <2>2, <2>5, <2>6, <3>2, GiveBack
    <3>4. Len(Append(g[i], e)) = Len(g[i]) + 1 /\ Len(g[i]) \in Nat /\ Len(h[i]) \in Nat
      BY <2>5
    <3>5. Range(g[j]) = Up(j) \ gone /\ Range(h[j]) = Up(j) \intersect gone
      BY <2>4, <2>6, <2>8, <3>1, <3>3
    <3>6. Len(g[j]) + Len(h[j]) = j
      <4>1. PICK m, n : m = Len(g[i]) /\ n = Len(h[i])
        OBVIOUS
      <4>2. m \in Nat /\ n \in Nat /\ m + n = i
        BY <2>6, <3>4, <4>1
      <4>3. Len(g[j]) = m + 1 /\ Len(h[j]) = n
        BY <3>1, <3>4, <4>1
      <4>4. (m + 1) + n = j
        BY <2>1, <4>2
      <4> QED BY <4>3, <4>4
    <3> QED BY <2>1, <2>6, <3>1, <3>3, <3>5, <3>6 DEF Good
  <2> QED BY <2>7, <2>8
<1>5. Nat \subseteq T
  <2> HIDE DEF T
  <2> QED BY <1>3, <1>4, Induction
<1>6. Good(Len(s))
  BY <1>1, <1>5
<1>7. Up(Len(s)) = Range(s)
  BY <1>1 DEF Range
<1>8. g[Len(s)] \in Seq(S) /\ h[Len(s)] \in Seq(S)
  BY <1>1, <1>2
<1> HIDE DEF Up
<1>9. /\ g[Len(s)] = Abstract!Others(s, gone) /\ h[Len(s)] = Abstract!Others(s, S \ gone)
  BY DEF g, h, Abstract!Others
<1> QED BY <1>6, <1>7, <1>8, <1>9 DEF Good

\* Nothing goes: all stay.
LEMMA OthersAll ==
  ASSUME NEW S, NEW s \in Seq(S), NEW gone, \A i \in 1..Len(s) : s[i] \notin gone
  PROVE  Abstract!Others(s, gone) = s
<1> DEFINE g == Abstract!Remaining(s, gone)
           Good(i) == Len(g[i]) = i /\ \A k \in 1..i : g[i][k] = s[k]
           T == {i \in Nat : i <= Len(s) => Good(i)}
<1>1. Len(s) \in Nat /\ \A i \in 1..Len(s) : s[i] \in S
  OBVIOUS
<1>2. /\ g[0] = <<>>
      /\ \A i \in 1..Len(s) : g[i] = IF s[i] \in gone THEN g[i - 1] ELSE Append(g[i - 1], s[i])
      /\ \A i \in 0..Len(s) : g[i] \in Seq(S)
  BY RemainingSteps
<1> HIDE DEF g
<1>3. 0 \in T
  BY <1>2
<1>4. ASSUME NEW i \in Nat, i \in T
      PROVE  i + 1 \in T
  <2> SUFFICES ASSUME i + 1 <= Len(s)
               PROVE  Good(i + 1)
    OBVIOUS
  <2>1. i + 1 \in 1..Len(s) /\ i \in 0..Len(s) /\ (i + 1) - 1 = i /\ Good(i) /\ s[i + 1] \in S
    BY <1>1, <1>4
  <2>2. g[i + 1] = Append(g[i], s[i + 1]) /\ g[i] \in Seq(S)
    BY <1>2, <2>1
  <2>3. Len(g[i]) = i /\ \A k \in 1..i : g[i][k] = s[k]
    BY <2>1
  <2> QED BY <2>1, <2>2, <2>3
<1>5. Nat \subseteq T
  <2> HIDE DEF T
  <2> QED BY <1>3, <1>4, Induction
<1>6. g[Len(s)] \in Seq(S) /\ Good(Len(s))
  BY <1>1, <1>2, <1>5
<1>7. g[Len(s)] = s
  BY <1>1, <1>6
<1> QED BY <1>7 DEF g, Abstract!Others

\* All go: nothing stays.
LEMMA OthersNone ==
  ASSUME NEW S, NEW s \in Seq(S), NEW gone, \A i \in 1..Len(s) : s[i] \in gone
  PROVE  Abstract!Others(s, gone) = <<>>
<1> DEFINE g == Abstract!Remaining(s, gone)
           T == {i \in Nat : i <= Len(s) => g[i] = <<>>}
<1>1. Len(s) \in Nat
  OBVIOUS
<1>2. /\ g[0] = <<>>
      /\ \A i \in 1..Len(s) : g[i] = IF s[i] \in gone THEN g[i - 1] ELSE Append(g[i - 1], s[i])
  BY RemainingSteps
<1> HIDE DEF g
<1>3. 0 \in T
  BY <1>2
<1>4. ASSUME NEW i \in Nat, i \in T
      PROVE  i + 1 \in T
  <2> SUFFICES ASSUME i + 1 <= Len(s)
               PROVE  g[i + 1] = <<>>
    OBVIOUS
  <2>1. i + 1 \in 1..Len(s) /\ (i + 1) - 1 = i /\ g[i] = <<>>
    BY <1>1, <1>4
  <2> QED BY <1>2, <2>1
<1>5. Nat \subseteq T
  <2> HIDE DEF T
  <2> QED BY <1>3, <1>4, Induction
<1>6. g[Len(s)] = <<>>
  BY <1>1, <1>5
<1> QED BY <1>6 DEF g, Abstract!Others

\* One goes: those behind it move up.
LEMMA OthersOne ==
  ASSUME NEW S, NEW s \in Seq(S), NEW gone, NEW j \in 1..Len(s),
         \A i \in 1..Len(s) : s[i] \in gone <=> i = j
  PROVE  Abstract!Others(s, gone) \in Seq(S) /\ Without(Abstract!Others(s, gone), s, j)
<1> DEFINE g == Abstract!Remaining(s, gone)
           Good(i) == IF i < j THEN Len(g[i]) = i /\ \A k \in 1..i : g[i][k] = s[k]
                      ELSE /\ Len(g[i]) = i - 1
                           /\ \A k \in 1..(i - 1) : g[i][k] = IF k < j THEN s[k] ELSE s[k + 1]
           T == {i \in Nat : i <= Len(s) => Good(i)}
<1>1. Len(s) \in Nat /\ \A i \in 1..Len(s) : s[i] \in S
  OBVIOUS
<1>2. /\ g[0] = <<>>
      /\ \A i \in 1..Len(s) : g[i] = IF s[i] \in gone THEN g[i - 1] ELSE Append(g[i - 1], s[i])
      /\ \A i \in 0..Len(s) : g[i] \in Seq(S)
  BY RemainingSteps
<1> HIDE DEF g
<1>3. 0 \in T
  BY <1>2
<1>4. ASSUME NEW i \in Nat, i \in T
      PROVE  i + 1 \in T
  <2> SUFFICES ASSUME i + 1 <= Len(s)
               PROVE  Good(i + 1)
    OBVIOUS
  <2>1. i + 1 \in 1..Len(s) /\ i \in 0..Len(s) /\ (i + 1) - 1 = i /\ Good(i) /\ s[i + 1] \in S
    BY <1>1, <1>4
  <2>2. g[i] \in Seq(S)
    BY <1>2, <2>1
  <2>3. CASE i + 1 < j
    <3>1. g[i + 1] = Append(g[i], s[i + 1])
      <4>1. s[i + 1] \notin gone
        BY <2>1, <2>3
      <4> QED BY <1>2, <2>1, <4>1
    <3>2. Len(g[i]) = i /\ \A k \in 1..i : g[i][k] = s[k]
      BY <2>1, <2>3
    <3>3. Len(g[i + 1]) = i + 1 /\ \A k \in 1..(i + 1) : g[i + 1][k] = s[k]
      BY <2>1, <2>2, <3>1, <3>2
    <3> QED BY <2>3, <3>3
  <2>4. CASE i + 1 = j
    <3>1. g[i + 1] = g[i]
      BY <1>2, <2>1, <2>4
    <3>2. Len(g[i]) = i /\ \A k \in 1..i : g[i][k] = s[k]
      BY <2>1, <2>4
    <3>3. Len(g[i + 1]) = (i + 1) - 1
          /\ \A k \in 1..((i + 1) - 1) : g[i + 1][k] = IF k < j THEN s[k] ELSE s[k + 1]
      BY <2>1, <2>4, <3>1, <3>2
    <3> QED BY <2>4, <3>3
  <2>5. CASE i + 1 > j
    <3>1. g[i + 1] = Append(g[i], s[i + 1])
      <4>1. s[i + 1] \notin gone
        BY <2>1, <2>5
      <4> QED BY <1>2, <2>1, <4>1
    <3>2. Len(g[i]) = i - 1 /\ \A k \in 1..(i - 1) : g[i][k] = IF k < j THEN s[k] ELSE s[k + 1]
      BY <2>1, <2>5
    <3>3. Len(g[i + 1]) = (i + 1) - 1
          /\ \A k \in 1..((i + 1) - 1) : g[i + 1][k] = IF k < j THEN s[k] ELSE s[k + 1]
      BY <2>1, <2>2, <2>5, <3>1, <3>2
    <3> QED BY <2>5, <3>3
  <2> QED BY <1>1, <2>1, <2>3, <2>4, <2>5
<1>5. Nat \subseteq T
  <2> HIDE DEF T
  <2> QED BY <1>3, <1>4, Induction
<1>6. g[Len(s)] \in Seq(S) /\ Good(Len(s))
  BY <1>1, <1>2, <1>5
<1>7. Without(g[Len(s)], s, j)
  <2>1. ~(Len(s) < j)
    BY <1>1
  <2> QED BY <1>6, <2>1 DEF Without
<1> QED BY <1>6, <1>7 DEF g, Abstract!Others

\* The values of some nodes, in their order.
At(d, q) == [i \in 1..Len(q) |-> d[q[i]]]

AreAt(u, d, q, V) == u \in Seq(V) /\ Len(u) = Len(q) /\ \A i \in 1..Len(q) : u[i] = d[q[i]]

LEMMA AtFacts ==
  ASSUME NEW S, NEW V, NEW d \in [S -> V], NEW q \in Seq(S)
  PROVE  AreAt(At(d, q), d, q, V)
<1>1. Len(q) \in Nat /\ \A i \in 1..Len(q) : q[i] \in S
  OBVIOUS
<1> QED BY <1>1 DEF At, AreAt

LEMMA AtAppend ==
  ASSUME NEW S, NEW V, NEW d \in [S -> V], NEW q \in Seq(S), NEW e \in S
  PROVE  At(d, Append(q, e)) = Append(At(d, q), d[e])
<1> DEFINE r == Append(q, e)
           u == At(d, q)
           w == Append(u, d[e])
<1>1. /\ r \in Seq(S) /\ Len(q) \in Nat /\ Len(r) = Len(q) + 1 /\ r[Len(q) + 1] = e
      /\ \A i \in 1..Len(q) : r[i] = q[i]
  OBVIOUS
<1>2. u \in Seq(V) /\ Len(u) = Len(q) /\ \A i \in 1..Len(q) : u[i] = d[q[i]]
  <2>1. AreAt(u, d, q, V)
    BY AtFacts
  <2> HIDE DEF u
  <2> QED BY <2>1 DEF AreAt
<1>3. At(d, r) \in Seq(V) /\ Len(At(d, r)) = Len(r) /\ \A i \in 1..Len(r) : At(d, r)[i] = d[r[i]]
  <2> HIDE DEF r
  <2>1. AreAt(At(d, r), d, r, V)
    BY <1>1, AtFacts
  <2> QED BY <2>1 DEF AreAt
<1> HIDE DEF u, r
<1>4. d[e] \in V
  OBVIOUS
<1>5. /\ w \in Seq(V) /\ Len(w) = Len(q) + 1 /\ w[Len(q) + 1] = d[e]
      /\ \A i \in 1..Len(q) : w[i] = u[i]
  BY <1>1, <1>2, <1>4
<1> HIDE DEF w
<1>6. \A i \in 1..(Len(q) + 1) : At(d, r)[i] = w[i]
  <2> SUFFICES ASSUME NEW i \in 1..(Len(q) + 1)
               PROVE  At(d, r)[i] = w[i]
    OBVIOUS
  <2>1. CASE i \in 1..Len(q)
    <3>1. At(d, r)[i] = d[r[i]]
      BY <1>3, <1>1
    <3>2. r[i] = q[i] /\ w[i] = u[i] /\ u[i] = d[q[i]]
      BY <1>1, <1>2, <1>5, <2>1
    <3> QED BY <3>1, <3>2
  <2>2. CASE i = Len(q) + 1
    BY <1>1, <1>3, <1>5, <2>2
  <2> QED BY <1>1, <2>1, <2>2
<1>7. At(d, r) = w
  BY <1>1, <1>3, <1>5, <1>6
<1> QED BY <1>7 DEF r, w, u

\* To take out the nodes of some values is to take out the values.
Picked(S, V, d, q, some, gone) ==
  d \in [S -> V] /\ q \in Seq(S) /\ \A i \in 1..Len(q) : q[i] \in some <=> d[q[i]] \in gone

LEMMA OthersMapped ==
  ASSUME NEW S, NEW V, NEW d, NEW q, NEW some, NEW gone, Picked(S, V, d, q, some, gone)
  PROVE  At(d, Abstract!Others(q, some)) = Abstract!Others(At(d, q), gone)
<1> DEFINE u == At(d, q)
           g == Abstract!Remaining(q, some)
           h == Abstract!Remaining(u, gone)
           T == {i \in Nat : i <= Len(q) => h[i] = At(d, g[i])}
<1> d \in [S -> V] /\ q \in Seq(S)
  BY DEF Picked
<1>1. Len(q) \in Nat /\ \A i \in 1..Len(q) : q[i] \in S
  OBVIOUS
<1>2. u \in Seq(V) /\ Len(u) = Len(q) /\ \A i \in 1..Len(q) : u[i] = d[q[i]]
  <2>1. AreAt(u, d, q, V)
    BY AtFacts
  <2> HIDE DEF u
  <2> QED BY <2>1 DEF AreAt
<1>3. /\ g[0] = <<>>
      /\ \A i \in 1..Len(q) : g[i] = IF q[i] \in some THEN g[i - 1] ELSE Append(g[i - 1], q[i])
      /\ \A i \in 0..Len(q) : g[i] \in Seq(S)
  BY RemainingSteps
<1> HIDE DEF u
<1>4. /\ h[0] = <<>>
      /\ \A i \in 1..Len(u) : h[i] = IF u[i] \in gone THEN h[i - 1] ELSE Append(h[i - 1], u[i])
  BY <1>2, RemainingSteps
<1> HIDE DEF g, h
<1>5. 0 \in T
  <2>1. At(d, <<>>) = <<>>
    BY DEF At
  <2> QED BY <1>3, <1>4, <2>1
<1>6. ASSUME NEW i \in Nat, i \in T
      PROVE  i + 1 \in T
  <2> SUFFICES ASSUME i + 1 <= Len(q)
               PROVE  h[i + 1] = At(d, g[i + 1])
    OBVIOUS
  <2>1. PICK j : j = i + 1
    OBVIOUS
  <2>2. j \in 1..Len(q) /\ i \in 0..Len(q) /\ j - 1 = i /\ h[i] = At(d, g[i])
    BY <1>1, <1>6, <2>1
  <2>3. q[j] \in S /\ u[j] = d[q[j]] /\ g[i] \in Seq(S)
    BY <1>1, <1>2, <1>3, <2>2
  <2>4. CASE q[j] \in some
    <3>1. g[j] = g[i] /\ h[j] = h[i]
      BY <1>2, <1>3, <1>4, <2>2, <2>3, <2>4 DEF Picked
    <3> QED BY <2>1, <2>2, <3>1
  <2>5. CASE q[j] \notin some
    <3>1. d[q[j]] \notin gone /\ u[j] \notin gone /\ j \in 1..Len(u)
      BY <1>2, <2>2, <2>3, <2>5 DEF Picked
    <3>2. g[j] = Append(g[i], q[j]) /\ h[j] = Append(h[i], d[q[j]])
      BY <1>3, <1>4, <2>2, <2>3, <2>5, <3>1
    <3>3. At(d, Append(g[i], q[j])) = Append(At(d, g[i]), d[q[j]])
      BY <2>3, AtAppend
    <3> QED BY <2>1, <2>2, <3>2, <3>3
  <2> QED BY <2>4, <2>5
<1>7. Nat \subseteq T
  <2> HIDE DEF T
  <2> QED BY <1>5, <1>6, Induction
<1>8. h[Len(q)] = At(d, g[Len(q)])
  BY <1>1, <1>7
<1> QED BY <1>2, <1>8 DEF g, h, u, Abstract!Others

\* The nodes on the chain: none twice, each with a pointer to the next, the others free.
Chained(q) ==
  /\ q \in Seq(Arena) /\ IsInjective(q)
  /\ first = IF q = <<>> THEN 0 ELSE q[1]
  /\ \A i \in 1..Len(q) : next[q[i]] = IF i = Len(q) THEN 0 ELSE q[i + 1]

Spare(q) ==
  /\ available \in Nat /\ available + Len(q) = ListCapacity
  /\ \A i, j \in 1..available : freeNodes[i] = freeNodes[j] => i = j
  /\ \A i \in 1..available : freeNodes[i] \notin Range(q)

ListTypes ==
  /\ next \in [Arena -> Arena \union {0}] /\ data \in [Arena -> ListValues]
  /\ freeNodes \in [Arena -> Arena]

ListInv == ListTypes /\ \E q : Chained(q) /\ Spare(q)

\* The walks along the chain find it.
LEMMA ChainFound ==
  ASSUME ListTypes, NEW q, Chained(q), Spare(q)
  PROVE  ListLength = Len(q) /\ Chain = q /\ Listed = At(data, q)
<1>1. ListCapacity \in Nat \ {0}
  BY LinkedListAssumption
<1>2. /\ q \in Seq(Arena) /\ Len(q) \in 0..ListCapacity
      /\ \A i \in 1..Len(q) : q[i] \in Arena
  BY <1>1 DEF Chained, Spare
<1> DEFINE N == Arena \union {0}
           Steps(h) == h = [n \in 0..ListCapacity |->
                              IF n = 0 THEN first ELSE IF h[n - 1] = 0 THEN 0 ELSE next[h[n - 1]]]
           hop == [n \in 1..ListCapacity |-> [x \in N |-> IF x = 0 THEN 0 ELSE next[x]]]
<1>3. first \in N
  BY <1>2 DEF Chained
<1>4. \E h : Steps(h)
  <2>1. hop \in [1..ListCapacity -> [N -> N]]
    BY DEF ListTypes
  <2>2. \A n \in 1..ListCapacity : \A x \in N : hop[n][x] = IF x = 0 THEN 0 ELSE next[x]
    OBVIOUS
  <2> HIDE DEF hop, N
  <2>3. PICK h \in [0..ListCapacity -> N] : Recursed(h, ListCapacity, first, hop)
    BY <1>1, <1>3, <2>1, Recursion
  <2>4. ASSUME NEW n \in 0..ListCapacity
        PROVE  h[n] = IF n = 0 THEN first ELSE IF h[n - 1] = 0 THEN 0 ELSE next[h[n - 1]]
    <3>1. CASE n = 0
      BY <2>3, <3>1 DEF Recursed
    <3>2. CASE n # 0
      <4>1. n \in 1..ListCapacity /\ n - 1 \in 0..ListCapacity
        BY <1>1, <3>2
      <4>2. h[n] = hop[n][h[n - 1]] /\ h[n - 1] \in N
        BY <2>3, <4>1 DEF Recursed
      <4> QED BY <2>2, <3>2, <4>1, <4>2
    <3> QED BY <3>1, <3>2
  <2> QED BY <2>3, <2>4
<1>5. Steps(Hop)
  BY <1>4, Zenon DEF Hop
<1>6. Hop[0] = first
  BY <1>1, <1>5
<1>7. \A n \in 1..ListCapacity : Hop[n] = IF Hop[n - 1] = 0 THEN 0 ELSE next[Hop[n - 1]]
  <2> SUFFICES ASSUME NEW n \in 1..ListCapacity
               PROVE  Hop[n] = IF Hop[n - 1] = 0 THEN 0 ELSE next[Hop[n - 1]]
    OBVIOUS
  <2>1. n \in 0..ListCapacity /\ n # 0
    BY <1>1
  <2> QED BY <1>5, <2>1
<1> DEFINE T == {n \in Nat : n <= ListCapacity => Hop[n] = IF n < Len(q) THEN q[n + 1] ELSE 0}
<1>8. 0 \in T
  <2>1. CASE q = <<>>
    BY <1>6, <2>1 DEF Chained
  <2>2. CASE q # <<>>
    <3>1. 0 < Len(q)
      BY <1>2, <2>2
    <3> QED BY <1>6, <2>2, <3>1 DEF Chained
  <2> QED BY <2>1, <2>2
<1>9. ASSUME NEW n \in Nat, n \in T
      PROVE  n + 1 \in T
  <2> SUFFICES ASSUME n + 1 <= ListCapacity
               PROVE  Hop[n + 1] = IF n + 1 < Len(q) THEN q[n + 1 + 1] ELSE 0
    OBVIOUS
  <2>1. n + 1 \in 1..ListCapacity /\ (n + 1) - 1 = n /\ Hop[n] = IF n < Len(q) THEN q[n + 1] ELSE 0
    BY <1>1, <1>9
  <2>2. Hop[n + 1] = IF Hop[n] = 0 THEN 0 ELSE next[Hop[n]]
    BY <1>7, <2>1
  <2>3. CASE n < Len(q)
    <3>1. n + 1 \in 1..Len(q)
      BY <1>2, <2>3
    <3>2. Hop[n] = q[n + 1] /\ q[n + 1] \in Arena /\ q[n + 1] # 0
      BY <1>2, <2>1, <2>3, <3>1 DEF Arena
    <3>3. Hop[n + 1] = IF n + 1 = Len(q) THEN 0 ELSE q[n + 1 + 1]
      BY <2>2, <3>1, <3>2 DEF Chained
    <3> QED BY <1>2, <2>3, <3>3
  <2>4. CASE ~(n < Len(q))
    BY <1>2, <2>1, <2>2, <2>4
  <2> QED BY <2>3, <2>4
<1>10. Nat \subseteq T
  <2> HIDE DEF T
  <2> QED BY <1>8, <1>9, Induction
<1>11. \A n \in 0..ListCapacity : Hop[n] = IF n < Len(q) THEN q[n + 1] ELSE 0
  BY <1>1, <1>10
<1>12. ListLength = Len(q)
  <2>1. \A n \in 0..(ListCapacity - 1) : Hop[n] # 0 <=> n < Len(q)
    <3> SUFFICES ASSUME NEW n \in 0..(ListCapacity - 1)
                 PROVE  Hop[n] # 0 <=> n < Len(q)
      OBVIOUS
    <3>1. n \in 0..ListCapacity
      BY <1>1
    <3>2. CASE n < Len(q)
      <4>1. n + 1 \in 1..Len(q)
        BY <1>2, <3>2
      <4> QED BY <1>2, <1>11, <3>1, <3>2, <4>1 DEF Arena
    <3>3. CASE ~(n < Len(q))
      BY <1>11, <3>1, <3>3
    <3> QED BY <3>2, <3>3
  <2>2. {n \in 0..(ListCapacity - 1) : Hop[n] # 0} = 0..(Len(q) - 1)
    BY <1>1, <1>2, <2>1
  <2>3. Cardinality(0..(Len(q) - 1)) = Len(q)
    <3>1. 0 \in Int /\ Len(q) - 1 \in Int
      BY <1>2
    <3>2. Cardinality(0..(Len(q) - 1)) = IF 0 > Len(q) - 1 THEN 0 ELSE (Len(q) - 1) - 0 + 1
      BY <3>1, FS_Interval
    <3> QED BY <1>2, <3>2
  <2> QED BY <2>2, <2>3 DEF ListLength
<1>13. Chain = q
  <2>1. \A i \in 1..Len(q) : Hop[i - 1] = q[i]
    <3> SUFFICES ASSUME NEW i \in 1..Len(q)
                 PROVE  Hop[i - 1] = q[i]
      OBVIOUS
    <3>1. i - 1 \in 0..ListCapacity /\ i - 1 < Len(q) /\ (i - 1) + 1 = i
      BY <1>1, <1>2
    <3> QED BY <1>11, <3>1
  <2>2. Chain = [i \in 1..Len(q) |-> q[i]]
    BY <1>12, <2>1 DEF Chain
  <2>3. q = [i \in 1..Len(q) |-> q[i]]
    BY <1>2
  <2> QED BY <2>2, <2>3
<1>14. Listed = At(data, q)
  BY <1>12, <1>13 DEF Listed, At
<1> QED BY <1>12, <1>13, <1>14

LEMMA NextChainFound ==
  ASSUME NEW q
  PROVE  (ListTypes /\ Chained(q) /\ Spare(q) => Listed = At(data, q))'
<1>1. ListTypes /\ Chained(q) /\ Spare(q) => Listed = At(data, q)
  BY ChainFound
<1> QED BY <1>1, PTL

\* Nodes are taken out: the others stay chained, and those that were on the chain are free.
LEMMA NodesErased ==
  ASSUME ListTypes, NEW q, Chained(q), Spare(q), NEW gone, EraseNodes(gone)
  PROVE  ListInv' /\ Listed' = At(data, Abstract!Others(q, gone))
<1>1. Chain = q /\ ListCapacity \in Nat \ {0}
  BY ChainFound, LinkedListAssumption
<1>2. PICK o, t : o = Abstract!Others(q, gone) /\ t = Abstract!Others(q, Arena \ gone)
  OBVIOUS
<1>3. q \in Seq(Arena) /\ IsInjective(q)
  BY DEF Chained
<1>4. /\ o \in Seq(Arena) /\ IsInjective(o) /\ Range(o) = Range(q) \ gone
      /\ t \in Seq(Arena) /\ IsInjective(t) /\ Range(t) = Range(q) \intersect gone
      /\ Len(o) + Len(t) = Len(q)
  BY <1>2, <1>3, OthersFacts
<1>5. /\ first' = IF o = <<>> THEN 0 ELSE o[1]
      /\ next' = [n \in Arena |->
                    IF \E i \in 1..Len(o) : o[i] = n
                    THEN LET i == CHOOSE i \in 1..Len(o) : o[i] = n
                         IN IF i = Len(o) THEN 0 ELSE o[i + 1]
                    ELSE next[n]]
      /\ data' = data
      /\ freeNodes' = [i \in Arena |-> IF i \in (available + 1)..(available + Len(t))
                                       THEN t[i - available] ELSE freeNodes[i]]
      /\ available' = available + Len(t)
  BY <1>1, <1>2 DEF EraseNodes, Past, Released
<1>6. /\ Len(o) \in Nat /\ Len(t) \in Nat /\ Len(q) \in Nat /\ available \in Nat
      /\ available + Len(q) = ListCapacity
      /\ \A i \in 1..Len(o) : o[i] \in Arena /\ o[i] \in Range(o)
      /\ \A i \in 1..Len(t) : t[i] \in Arena /\ t[i] \in Range(t)
  BY <1>3, <1>4 DEF Spare, Range
<1>7. \A i, j \in 1..Len(o) : o[i] = o[j] => i = j
  BY <1>4, <1>6 DEF IsInjective
<1>8. \A i, j \in 1..Len(t) : t[i] = t[j] => i = j
  BY <1>4, <1>6 DEF IsInjective
<1>9. Chained(o)'
  <2>1. ASSUME NEW i \in 1..Len(o)
        PROVE  next'[o[i]] = IF i = Len(o) THEN 0 ELSE o[i + 1]
    <3>1. (CHOOSE k \in 1..Len(o) : o[k] = o[i]) = i
      BY <1>7
    <3> QED BY <1>5, <1>6, <3>1
  <2> QED BY <1>4, <1>5, <2>1 DEF Chained
<1>10. \A i \in 1..available' :
         /\ i \in Arena
         /\ i \in 1..available => freeNodes'[i] = freeNodes[i]
         /\ i \notin 1..available => i - available \in 1..Len(t) /\ freeNodes'[i] = t[i - available]
  <2> SUFFICES ASSUME NEW i \in 1..available'
               PROVE  /\ i \in Arena
                      /\ i \in 1..available => freeNodes'[i] = freeNodes[i]
                      /\ i \notin 1..available =>
                           i - available \in 1..Len(t) /\ freeNodes'[i] = t[i - available]
    OBVIOUS
  <2>1. i \in Arena
    BY <1>1, <1>4, <1>5, <1>6 DEF Arena
  <2>2. freeNodes'[i] = IF i \in (available + 1)..(available + Len(t))
                        THEN t[i - available] ELSE freeNodes[i]
    BY <1>5, <2>1
  <2>3. i \in 1..available => i \notin (available + 1)..(available + Len(t))
    BY <1>6
  <2>4. i \notin 1..available =>
          i - available \in 1..Len(t) /\ i \in (available + 1)..(available + Len(t))
    BY <1>5, <1>6
  <2> QED BY <2>1, <2>2, <2>3, <2>4
<1>11. Spare(o)'
  <2>1. available' \in Nat /\ available' + Len(o) = ListCapacity
    <3>1. PICK k, m, n : k = Len(o) /\ m = Len(t) /\ n = Len(q)
      OBVIOUS
    <3>2. /\ k \in Nat /\ m \in Nat /\ n \in Nat /\ available \in Nat
          /\ k + m = n /\ available + n = ListCapacity /\ available' = available + m
      BY <1>4, <1>5, <1>6, <3>1
    <3>3. available + m \in Nat /\ (available + m) + k = ListCapacity
      BY <3>2
    <3> QED BY <3>1, <3>2, <3>3
  <2>2. ASSUME NEW i \in 1..available', NEW j \in 1..available', freeNodes'[i] = freeNodes'[j]
        PROVE  i = j
    <3>1. CASE i \in 1..available /\ j \in 1..available
      BY <1>10, <2>2, <3>1 DEF Spare
    <3>2. CASE i \notin 1..available /\ j \notin 1..available
      <4>1. i - available = j - available
        BY <1>8, <1>10, <2>2, <3>2
      <4> QED BY <1>6, <4>1
    <3>3. CASE i \in 1..available /\ j \notin 1..available
      BY <1>4, <1>6, <1>10, <2>2, <3>3 DEF Spare
    <3>4. CASE i \notin 1..available /\ j \in 1..available
      BY <1>4, <1>6, <1>10, <2>2, <3>4 DEF Spare
    <3> QED BY <3>1, <3>2, <3>3, <3>4
  <2>3. ASSUME NEW i \in 1..available'
        PROVE  freeNodes'[i] \notin Range(o)
    <3>1. CASE i \in 1..available
      BY <1>4, <1>10, <3>1 DEF Spare
    <3>2. CASE i \notin 1..available
      BY <1>4, <1>6, <1>10, <3>2
    <3> QED BY <3>1, <3>2
  <2> QED BY <2>1, <2>2, <2>3 DEF Spare
<1>12. ListTypes'
  <2>1. \A n \in Arena : next'[n] \in Arena \union {0}
    <3> SUFFICES ASSUME NEW n \in Arena
                 PROVE  next'[n] \in Arena \union {0}
      OBVIOUS
    <3>1. CASE \E i \in 1..Len(o) : o[i] = n
      <4>1. PICK i \in 1..Len(o) : o[i] = n
        BY <3>1
      <4>2. next'[n] = IF i = Len(o) THEN 0 ELSE o[i + 1]
        BY <1>9, <4>1 DEF Chained
      <4>3. i # Len(o) => i + 1 \in 1..Len(o)
        BY <1>6
      <4> QED BY <1>6, <4>2, <4>3
    <3>2. CASE ~\E i \in 1..Len(o) : o[i] = n
      BY <1>5, <3>2 DEF ListTypes
    <3> QED BY <3>1, <3>2
  <2>2. next' \in [Arena -> Arena \union {0}]
    BY <1>5, <2>1
  <2>3. \A i \in Arena : freeNodes'[i] \in Arena
    <3> SUFFICES ASSUME NEW i \in Arena
                 PROVE  freeNodes'[i] \in Arena
      OBVIOUS
    <3>1. CASE i \in (available + 1)..(available + Len(t))
      <4>1. i - available \in 1..Len(t)
        BY <1>6, <3>1
      <4> QED BY <1>5, <1>6, <3>1, <4>1
    <3>2. CASE i \notin (available + 1)..(available + Len(t))
      BY <1>5, <3>2 DEF ListTypes
    <3> QED BY <3>1, <3>2
  <2> QED BY <1>5, <2>2, <2>3 DEF ListTypes
<1>13. Listed' = At(data, o)
  <2>1. Listed' = At(data', o)
    BY <1>9, <1>11, <1>12, NextChainFound
  <2> QED BY <1>5, <2>1
<1> QED BY <1>2, <1>9, <1>11, <1>12, <1>13 DEF ListInv


LEMMA ListedIs ==
  ASSUME ListTypes, NEW q, Chained(q), Spare(q)
  PROVE  AreAt(Listed, data, q, ListValues)
<1>1. data \in [Arena -> ListValues] /\ q \in Seq(Arena)
  BY DEF ListTypes, Chained
<1>2. AreAt(At(data, q), data, q, ListValues)
  BY <1>1, AtFacts
<1> QED BY <1>2, ChainFound

\* One node, which may be on the chain: its value is taken out, or nothing is.
LEMMA ErasedOne ==
  ASSUME ListTypes, NEW q, Chained(q), Spare(q), NEW x, EraseNodes({x})
  PROVE  [Abstract!Next]_Listed
<1>1. Listed' = At(data, Abstract!Others(q, {x}))
  BY NodesErased
<1>2. AreAt(Listed, data, q, ListValues)
  BY ListedIs
<1>3. q \in Seq(Arena) /\ IsInjective(q) /\ Len(q) \in Nat /\ data \in [Arena -> ListValues]
  BY DEF Chained, ListTypes
<1>4. Listed \in Seq(ListValues) /\ Len(Listed) = Len(q) /\ \A i \in 1..Len(q) : Listed[i] = data[q[i]]
  BY <1>2 DEF AreAt
<1>5. CASE \A i \in 1..Len(q) : q[i] # x
  <2>1. Abstract!Others(q, {x}) = q
    <3>1. \A i \in 1..Len(q) : q[i] \notin {x}
      BY <1>5
    <3> QED BY <1>3, <3>1, OthersAll
  <2>2. Listed' = Listed
    BY <1>1, <2>1, ChainFound
  <2> QED BY <2>2
<1>6. CASE \E i \in 1..Len(q) : q[i] = x
  <2>1. PICK j \in 1..Len(q) : q[j] = x
    BY <1>6
  <2>2. \A i \in 1..Len(q) : q[i] \in {x} <=> i = j
    BY <1>3, <2>1 DEF IsInjective
  <2>3. PICK o : o = Abstract!Others(q, {x})
    OBVIOUS
  <2>4. o \in Seq(Arena) /\ Without(o, q, j)
    BY <1>3, <2>2, <2>3, OthersOne
  <2>5. AreAt(At(data, o), data, o, ListValues)
    BY <1>3, <2>4, AtFacts
  <2> DEFINE r == SubSeq(Listed, 1, j - 1) \o SubSeq(Listed, j + 1, Len(Listed))
  <2>6. r \in Seq(ListValues) /\ Without(r, Listed, j)
    <3>1. j \in 1..Len(Listed)
      BY <1>4
    <3> QED BY <1>4, <3>1, Removed
  <2> HIDE DEF r
  <2>7. /\ r \in Seq(ListValues) /\ Len(r) = Len(q) - 1
        /\ \A k \in 1..(Len(q) - 1) : r[k] = IF k < j THEN data[q[k]] ELSE data[q[k + 1]]
    <3>1. \A k \in 1..(Len(q) - 1) : k \in 1..Len(q) /\ k + 1 \in 1..Len(q)
      BY <1>3
    <3> QED BY <1>4, <2>6, <3>1 DEF Without
  <2>8. /\ Listed' \in Seq(ListValues) /\ Len(Listed') = Len(q) - 1
        /\ \A k \in 1..(Len(q) - 1) : Listed'[k] = IF k < j THEN data[q[k]] ELSE data[q[k + 1]]
    <3>1. AreAt(Listed', data, o, ListValues)
      BY <1>1, <2>3, <2>5
    <3> QED BY <2>4, <3>1 DEF AreAt, Without
  <2>9. Listed' = r
    BY <2>7, <2>8
  <2>10. Abstract!TakeOut(j)
    BY <2>9 DEF r, Abstract!TakeOut, Abstract!RemoveAt
  <2>11. j \in 1..Len(Listed)
    BY <1>4
  <2> QED BY <2>10, <2>11 DEF Abstract!Next
<1> QED BY <1>5, <1>6

\* The nodes of some values: all those values are taken out.
LEMMA ErasedSome ==
  ASSUME ListTypes, NEW q, Chained(q), Spare(q), NEW gone \in SUBSET ListValues, eraseIf(gone)
  PROVE  ListInv' /\ Abstract!RemoveAll(gone)
<1> DEFINE some == {Chain[i] : i \in {j \in 1..ListLength : Listed[j] \in gone}}
<1>1. AreAt(Listed, data, q, ListValues)
  BY ListedIs
<1>2. q \in Seq(Arena) /\ IsInjective(q) /\ Len(q) \in Nat /\ data \in [Arena -> ListValues]
  BY DEF Chained, ListTypes
<1>3. some = {q[i] : i \in {j \in 1..Len(q) : data[q[j]] \in gone}}
  BY <1>1, ChainFound DEF AreAt
<1>4. EraseNodes(some)
  BY DEF eraseIf
<1> HIDE DEF some
<1>5. \A i \in 1..Len(q) : q[i] \in some <=> data[q[i]] \in gone
  BY <1>3
<1>6. ListInv' /\ Listed' = At(data, Abstract!Others(q, some))
  BY <1>4, NodesErased
<1>7. At(data, Abstract!Others(q, some)) = Abstract!Others(At(data, q), gone)
  <2>1. Picked(Arena, ListValues, data, q, some, gone)
    BY <1>2, <1>5 DEF Picked
  <2> QED BY <2>1, OthersMapped
<1>8. Listed = At(data, q)
  BY ChainFound
<1> QED BY <1>6, <1>7, <1>8 DEF Abstract!RemoveAll

LEMMA PushedBack ==
  ASSUME ListTypes, NEW q, Chained(q), Spare(q), NEW v \in ListValues, pushBack(v)
  PROVE  ListInv' /\ Abstract!Put(v)
<1>1. ListCapacity \in Nat \ {0} /\ Chain = q /\ ListLength = Len(q) /\ Listed = At(data, q)
  BY ChainFound, LinkedListAssumption
<1>2. PICK node : node = freeNodes[available]
  OBVIOUS
<1>3. /\ q \in Seq(Arena) /\ IsInjective(q) /\ Len(q) \in Nat /\ available \in Nat \ {0}
      /\ available + Len(q) = ListCapacity /\ available \in Arena
      /\ \A i \in 1..Len(q) : q[i] \in Arena /\ q[i] \in Range(q) /\ q[i] # 0
  <2>1. q \in Seq(Arena) /\ IsInjective(q)
    BY DEF Chained
  <2>2. Len(q) \in Nat /\ DOMAIN q = 1..Len(q) /\ \A i \in 1..Len(q) : q[i] \in Arena
    BY <2>1
  <2>3. available \in Nat /\ available # 0 /\ available + Len(q) = ListCapacity
    BY DEF Spare, pushBack, listFull
  <2>4. available \in Arena
    BY <1>1, <2>2, <2>3 DEF Arena
  <2>5. \A i \in 1..Len(q) : q[i] \in Range(q)
    BY <2>2 DEF Range
  <2>6. 0 \notin Arena
    BY DEF Arena
  <2> QED BY <2>1, <2>2, <2>3, <2>4, <2>5, <2>6
<1>4. node \in Arena /\ node \notin Range(q) /\ node # 0
  <2>1. node \in Arena /\ 0 \notin Arena
    <3>1. node \in Arena
      BY <1>2, <1>3 DEF ListTypes
    <3> QED BY <3>1 DEF Arena
  <2>2. available \in 1..available
    BY <1>3
  <2> QED BY <1>2, <2>1, <2>2 DEF Spare
<1>5. PICK r : r = Append(q, node)
  OBVIOUS
<1>6. /\ r \in Seq(Arena) /\ IsInjective(r) /\ Range(r) = Range(q) \union {node}
      /\ Len(r) = Len(q) + 1 /\ r[Len(r)] = node /\ \A i \in 1..Len(q) : r[i] = q[i]
  BY <1>3, <1>4, <1>5, GiveBack
<1>7. first = 0 <=> Len(q) = 0
  <2>1. Len(q) = 0 <=> q = <<>>
    BY <1>3
  <2>2. Len(q) # 0 => 1 \in 1..Len(q)
    BY <1>3
  <2> QED BY <1>3, <2>1, <2>2 DEF Chained
<1>8. /\ data' = [data EXCEPT ![node] = v]
      /\ first' = IF first = 0 THEN node ELSE first
      /\ next' = IF first = 0 THEN [next EXCEPT ![node] = 0]
                 ELSE [[next EXCEPT ![node] = 0] EXCEPT ![q[Len(q)]] = node]
      /\ available' = available - 1 /\ freeNodes' = freeNodes
  BY <1>1, <1>2 DEF pushBack
<1>9. Chained(r)'
  <2>1. first' = IF r = <<>> THEN 0 ELSE r[1]
    <3>1. r # <<>>
      BY <1>3, <1>6
    <3>2. CASE Len(q) = 0
      BY <1>3, <1>6, <1>7, <1>8, <3>1, <3>2
    <3>3. CASE Len(q) # 0
      <4>1. 1 \in 1..Len(q) /\ q # <<>>
        BY <1>3, <3>3
      <4> QED BY <1>6, <1>7, <1>8, <3>1, <3>3, <4>1 DEF Chained
    <3> QED BY <3>2, <3>3
  <2>2. ASSUME NEW i \in 1..Len(r)
        PROVE  next'[r[i]] = IF i = Len(r) THEN 0 ELSE r[i + 1]
    <3>1. next \in [Arena -> Arena \union {0}]
      BY DEF ListTypes
    <3>2. CASE i = Len(r)
      <4>1. r[i] = node
        BY <1>6, <3>2
      <4>2. Len(q) # 0 => Len(q) \in 1..Len(q) /\ q[Len(q)] # node
        BY <1>3, <1>4
      <4> QED BY <1>3, <1>4, <1>7, <1>8, <3>1, <3>2, <4>1, <4>2
    <3>3. CASE i # Len(r)
      <4>1. i \in 1..Len(q) /\ Len(q) \in 1..Len(q) /\ first # 0
        BY <1>3, <1>6, <1>7, <3>3
      <4>2. r[i] = q[i] /\ q[i] \in Arena /\ q[i] # node /\ q[Len(q)] \in Arena
        BY <1>3, <1>4, <1>6, <4>1
      <4>3. CASE i = Len(q)
        <5>1. r[i + 1] = node
          BY <1>6, <4>3
        <5> QED BY <1>4, <1>8, <3>1, <3>3, <4>1, <4>2, <4>3, <5>1
      <4>4. CASE i # Len(q)
        <5>1. i + 1 \in 1..Len(q) /\ q[i] # q[Len(q)]
          BY <1>3, <4>1, <4>4 DEF IsInjective
        <5>2. next'[q[i]] = next[q[i]]
          BY <1>4, <1>8, <3>1, <4>1, <4>2, <5>1
        <5>3. next[q[i]] = q[i + 1]
          BY <4>1, <4>4 DEF Chained
        <5> QED BY <1>6, <3>3, <4>2, <5>1, <5>2, <5>3
      <4> QED BY <4>3, <4>4
    <3> QED BY <3>2, <3>3
  <2> QED BY <1>6, <2>1, <2>2 DEF Chained
<1>10. Spare(r)'
  <2>1. available' \in Nat /\ available' + Len(r) = ListCapacity
    BY <1>3, <1>6, <1>8
  <2>2. \A i \in 1..available' : i \in 1..available /\ i # available
    BY <1>3, <1>8
  <2>3. available \in 1..available
    BY <1>3
  <2>4. \A i \in 1..available' : freeNodes[i] # node /\ freeNodes[i] \notin Range(q)
    BY <1>2, <2>2, <2>3 DEF Spare
  <2>5. \A i, j \in 1..available' : freeNodes'[i] = freeNodes'[j] => i = j
    BY <1>8, <2>2 DEF Spare
  <2>6. \A i \in 1..available' : freeNodes'[i] \notin Range(r)
    BY <1>6, <1>8, <2>4
  <2> QED BY <2>1, <2>5, <2>6 DEF Spare
<1>11. ListTypes'
  <2>1. first # 0 => q[Len(q)] \in Arena
    <3>1. first # 0 => Len(q) \in 1..Len(q)
      BY <1>3, <1>7
    <3> QED BY <1>3, <3>1
  <2> QED BY <1>4, <1>8, <2>1 DEF ListTypes
<1>12. Abstract!Put(v)
  <2>1. Listed' = At(data', r)
    BY <1>9, <1>10, <1>11, NextChainFound
  <2>2. data' \in [Arena -> ListValues] /\ data'[node] = v
    BY <1>4, <1>8 DEF ListTypes
  <2>3. Listed' = Append(At(data', q), v)
    <3>1. PICK e : e = data'
      OBVIOUS
    <3>2. e \in [Arena -> ListValues] /\ q \in Seq(Arena) /\ node \in Arena
      BY <1>3, <1>4, <2>2, <3>1
    <3>3. At(e, Append(q, node)) = Append(At(e, q), e[node])
      BY <3>2, AtAppend
    <3> QED BY <1>5, <2>1, <2>2, <3>1, <3>3
  <2>4. At(data', q) = Listed
    <3>1. \A i \in 1..Len(q) : data'[q[i]] = data[q[i]]
      BY <1>3, <1>4, <1>8 DEF ListTypes
    <3> QED BY <1>1, <3>1 DEF At
  <2>5. Len(Listed) = Len(q)
    BY ListedIs DEF AreAt
  <2> QED BY <1>3, <2>3, <2>4, <2>5 DEF Abstract!Put
<1> QED BY <1>9, <1>10, <1>11, <1>12 DEF ListInv

LEMMA AllErased ==
  ASSUME ListTypes, NEW q, Chained(q), Spare(q), clear
  PROVE  ListInv' /\ Abstract!RemoveAll(ListValues)
<1>1. ListCapacity \in Nat \ {0}
  BY LinkedListAssumption
<1>2. <<>> \in Seq(Arena) /\ IsInjective(<<>>) /\ Range(<<>>) = {} /\ Len(<<>>) = 0
  BY DEF IsInjective, Range
<1>3. Chained(<<>>)'
  BY <1>2 DEF clear, Chained
<1>4. Spare(<<>>)'
  BY <1>1, <1>2 DEF clear, Spare, Arena
<1>5. ListTypes'
  BY DEF clear, ListTypes
<1>6. Listed' = <<>>
  <2>1. Listed' = At(data', <<>>)
    BY <1>3, <1>4, <1>5, NextChainFound
  <2> QED BY <2>1 DEF At
<1>7. Abstract!Others(Listed, ListValues) = <<>>
  <2>1. Listed \in Seq(ListValues)
    BY ListedIs DEF AreAt
  <2>2. \A i \in 1..Len(Listed) : Listed[i] \in ListValues
    BY <2>1
  <2> QED BY <2>1, <2>2, OthersNone
<1> QED BY <1>3, <1>4, <1>5, <1>6, <1>7 DEF ListInv, Abstract!RemoveAll

\* Every step of the list keeps the invariant and is one of Listing's, or leaves what is
\* listed as it is.
LEMMA ListStep ==
  ASSUME ListInv, [ListNext]_listVars
  PROVE  ListInv' /\ [Abstract!Next]_Listed
<1>1. PICK q : Chained(q) /\ Spare(q)
  BY DEF ListInv
<1>2. ListTypes
  BY DEF ListInv
<1>3. ASSUME NEW v \in ListValues, pushBack(v)
      PROVE  ListInv' /\ [Abstract!Next]_Listed
  BY <1>1, <1>2, <1>3, PushedBack DEF Abstract!Next
<1>4. ASSUME NEW v \in ListValues, eraseValue(v)
      PROVE  ListInv' /\ [Abstract!Next]_Listed
  BY <1>1, <1>2, <1>4, NodesErased, ErasedOne DEF eraseValue
<1>5. ASSUME NEW n \in Arena, eraseNode(n)
      PROVE  ListInv' /\ [Abstract!Next]_Listed
  BY <1>1, <1>2, <1>5, NodesErased, ErasedOne DEF eraseNode
<1>6. ASSUME NEW gone \in SUBSET ListValues, eraseIf(gone)
      PROVE  ListInv' /\ [Abstract!Next]_Listed
  BY <1>1, <1>2, <1>6, ErasedSome DEF Abstract!Next
<1>7. ASSUME clear
      PROVE  ListInv' /\ [Abstract!Next]_Listed
  BY <1>1, <1>2, <1>7, AllErased DEF Abstract!Next
<1>8. ASSUME UNCHANGED listVars
      PROVE  ListInv' /\ [Abstract!Next]_Listed
  <2>1. Listed' = Listed
    BY <1>1, <1>2, <1>8, ChainFound, NextChainFound DEF listVars, Chained, Spare, ListTypes
  <2>2. Chained(q)' /\ Spare(q)'
    BY <1>1, <1>8 DEF listVars, Chained, Spare
  <2>3. ListTypes'
    BY <1>2, <1>8 DEF listVars, ListTypes
  <2>4. ListInv'
    BY <2>2, <2>3 DEF ListInv
  <2> QED BY <2>1, <2>4
<1> QED BY <1>3, <1>4, <1>5, <1>6, <1>7, <1>8 DEF ListNext

LEMMA ListStart ==
  ASSUME ListInit
  PROVE  ListInv /\ Abstract!Init
<1>1. ListCapacity \in Nat \ {0} /\ ListValues # {}
  BY LinkedListAssumption
<1>2. <<>> \in Seq(Arena) /\ IsInjective(<<>>) /\ Range(<<>>) = {} /\ Len(<<>>) = 0
  BY DEF IsInjective, Range
<1>3. Chained(<<>>)
  BY <1>2 DEF ListInit, Chained
<1>4. Spare(<<>>)
  BY <1>1, <1>2 DEF ListInit, Spare, Arena
<1>5. ListTypes
  <2>1. (CHOOSE v \in ListValues : TRUE) \in ListValues
    BY <1>1
  <2> QED BY <2>1 DEF ListInit, ListTypes
<1>6. Listed = <<>>
  <2>1. Listed = At(data, <<>>)
    BY <1>3, <1>4, <1>5, ChainFound
  <2> QED BY <2>1 DEF At
<1> QED BY <1>3, <1>4, <1>5, <1>6 DEF ListInv, Abstract!Init

LEMMA ListStarts == Init => ListInv /\ Abstract!Init
BY ListStart DEF Init

\* Whatever is put on the list of requests and taken from it, by node, by value, by a
\* condition or all at once: it is a list, its nodes are on it once and in their order,
\* and those that are not on it are the ones that the arena gives out.
THEOREM ListsAreLists == Spec => ListIsAList
<1>1. Init => ListInv /\ Abstract!Init
  BY ListStarts
<1>2. ListInv /\ [Next]_platformVars => ListInv' /\ [Abstract!Next]_Listed
  BY PartsApart, ListStep
<1> QED BY <1>1, <1>2, PTL DEF Spec, ListIsAList, Abstract!Spec

-----------------------------------------------------------------------------
(* External interrupts. *)

ExtTypes ==
  /\ extFamily \in {"F0", "F1", "F4", "F7"}
  /\ edges \in [Pins -> Nat] /\ called \in [Pins -> Nat]
  /\ flagged \subseteq Pins

\* A handler that runs is that of a vector; one that reads no flags calls all its pins.
InHandler ==
  \/ extIsr = NoExtIsr
  \/ /\ extIsr.at \in {"clear", "call"}
     /\ extIsr = [pins |-> extIsr.pins, at |-> extIsr.at, calls |-> extIsr.calls]
     /\ extIsr.calls \subseteq extIsr.pins /\ extIsr.pins \subseteq 0..15
     /\ extIsr.at = "clear" =>
          \E v \in ExtVectors : extIsr.pins = v.pins /\ (v.reads \/ extIsr.calls = v.pins)

\* A flag stands for an edge that has not been called back, and so does a call that the
\* handler still has to make; once the flags are cleared these are different edges.
EdgesCount ==
  /\ \A n \in Pins : called[n] <= edges[n]
  /\ \A n \in Pins : n \in flagged \union extIsr.calls => called[n] + 1 <= edges[n]
  /\ \A n \in Pins : extIsr.at = "call" /\ n \in flagged \intersect extIsr.calls => called[n] + 2 <= edges[n]

EdgesStand == \A n \in unanswered : n \in flagged \union extIsr.calls \/ n \in overrun

SharedVector(n) == n >= 4 /\ Cardinality(irqPins(n)) > 1

ExtInv == ExtTypes /\ InHandler /\ EdgesCount /\ EdgesStand /\ \A n \in overrun : SharedVector(n)

LEMMA SeveralPins ==
  Cardinality(4..15) > 1 /\ Cardinality(5..9) > 1 /\ Cardinality(10..15) > 1
<1>1. \A a, b \in Int : a < b => Cardinality(a..b) > 1
  <2> SUFFICES ASSUME NEW a \in Int, NEW b \in Int, a < b
               PROVE  Cardinality(a..b) > 1
    OBVIOUS
  <2>1. Cardinality(a..b) = IF a > b THEN 0 ELSE b - a + 1
    BY FS_Interval
  <2> QED BY <2>1
<1>2. 4 \in Int /\ 15 \in Int /\ 4 < 15 /\ 5 \in Int /\ 9 \in Int /\ 5 < 9 /\ 10 \in Int /\ 10 < 15
  OBVIOUS
<1> QED BY <1>1, <1>2, Zenon

\* Handlers that clear what they have not read have several pins, and none of the first.
LEMMA CarelessShare ==
  ASSUME ExtTypes, NEW v \in ExtVectors, NEW n \in v.pins
  PROVE  v.clears = "read" \/ v.pins = {n} \/ SharedVector(n)
<1> USE SeveralPins DEF SharedVector, ExtVectors, irqPins, Single, Exact, Careless
<1>1. CASE extFamily = "F0"
  BY <1>1 DEF vectorsF0, irqPinsF0
<1>2. CASE extFamily = "F1"
  BY <1>2 DEF vectorsF1, irqPinsF1
<1>3. CASE extFamily = "F4"
  BY <1>3 DEF vectorsF4, irqPinsF4
<1>4. CASE extFamily = "F7"
  BY <1>4 DEF vectorsF7, irqPinsF7
<1> QED BY <1>1, <1>2, <1>3, <1>4 DEF ExtTypes

\* The handler of a single pin reads nothing.
LEMMA SinglesReadNothing ==
  ASSUME ExtTypes, NEW v \in ExtVectors, NEW n, v.pins = {n}
  PROVE  ~v.reads
<1> USE DEF ExtVectors, Single, Exact, Careless
<1>1. CASE extFamily = "F0"
  BY <1>1 DEF vectorsF0
<1>2. CASE extFamily = "F1"
  BY <1>2 DEF vectorsF1
<1>3. CASE extFamily = "F4"
  BY <1>3 DEF vectorsF4
<1>4. CASE extFamily = "F7"
  BY <1>4 DEF vectorsF7
<1> QED BY <1>1, <1>2, <1>3, <1>4 DEF ExtTypes

LEMMA ReadOrSingle ==
  ASSUME ExtTypes, NEW v \in ExtVectors
  PROVE  v.reads = TRUE \/ \E n : v = Single(n)
<1> USE DEF ExtVectors, Exact, Careless
<1>1. CASE extFamily = "F0"
  BY <1>1 DEF vectorsF0
<1>2. CASE extFamily = "F1"
  BY <1>2 DEF vectorsF1
<1>3. CASE extFamily = "F4"
  BY <1>3 DEF vectorsF4
<1>4. CASE extFamily = "F7"
  BY <1>4 DEF vectorsF7
<1> QED BY <1>1, <1>2, <1>3, <1>4 DEF ExtTypes

LEMMA PinsOfVectors ==
  ASSUME ExtTypes, NEW v \in ExtVectors
  PROVE  v.pins \subseteq 0..15
<1> USE DEF ExtVectors, Single, Exact, Careless
<1>1. CASE extFamily = "F0"
  BY <1>1 DEF vectorsF0
<1>2. CASE extFamily = "F1"
  BY <1>2 DEF vectorsF1
<1>3. CASE extFamily = "F4"
  BY <1>3 DEF vectorsF4
<1>4. CASE extFamily = "F7"
  BY <1>4 DEF vectorsF7
<1> QED BY <1>1, <1>2, <1>3, <1>4 DEF ExtTypes

LEMMA EdgeKeeps ==
  ASSUME ExtInv, NEW n \in Pins, Edge(n)
  PROVE  ExtInv'
<1>1. /\ edges' = [edges EXCEPT ![n] = @ + 1] /\ flagged' = flagged \union {n}
      /\ unanswered' = unanswered \union {n}
      /\ UNCHANGED <<extFamily, enabled, extIsr, overrun, called>>
  BY DEF Edge
<1>2. ExtTypes'
  BY <1>1 DEF ExtInv, ExtTypes
<1>3. EdgesCount'
  <2>1. \A m \in Pins : called[m] \in Nat /\ edges[m] \in Nat
                       /\ edges'[m] = IF m = n THEN edges[m] + 1 ELSE edges[m]
    BY <1>1 DEF ExtInv, ExtTypes
  <2> QED BY <1>1, <2>1 DEF ExtInv, EdgesCount
<1>4. EdgesStand'
  BY <1>1 DEF ExtInv, EdgesStand
<1>5. InHandler' /\ \A m \in overrun' : SharedVector(m)'
  BY <1>1 DEF ExtInv, InHandler, SharedVector, irqPins, ExtVectors
<1> QED BY <1>2, <1>3, <1>4, <1>5 DEF ExtInv

LEMMA ExtEnterKeeps ==
  ASSUME ExtInv, EnterHandler
  PROVE  ExtInv'
<1>1. PICK v \in ExtVectors :
        /\ Due(v)
        /\ extIsr' = [pins |-> v.pins, at |-> "clear",
                      calls |-> IF v.reads THEN v.pins \intersect flagged ELSE v.pins]
  BY DEF EnterHandler
<1>2. /\ extIsr = NoExtIsr /\ UNCHANGED <<extFamily, enabled, flagged, unanswered, overrun, called, edges>>
  BY DEF EnterHandler
<1>3. /\ extIsr'.pins = v.pins /\ extIsr'.at = "clear"
      /\ extIsr'.calls = IF v.reads THEN v.pins \intersect flagged ELSE v.pins
  BY <1>1
<1>4. ExtTypes'
  BY <1>2 DEF ExtInv, ExtTypes
<1>5. extIsr'.calls \subseteq flagged
  <2>1. CASE v.reads
    BY <1>3, <2>1
  <2>2. CASE ~v.reads
    <3>1. PICK n : v.pins = {n}
      <4>1. PICK n : v = Single(n)
        BY <2>2, ReadOrSingle DEF ExtInv
      <4> QED BY <4>1 DEF Single
    <3>2. n \in flagged
      BY <1>1, <3>1 DEF Due
    <3> QED BY <1>3, <2>2, <3>1, <3>2
  <2> QED BY <2>1, <2>2
<1>6. EdgesCount'
  BY <1>2, <1>3, <1>5 DEF ExtInv, EdgesCount
<1>7. EdgesStand'
  <2>1. extIsr.calls = {}
    BY <1>2 DEF NoExtIsr
  <2> QED BY <1>2, <2>1 DEF ExtInv, EdgesStand
<1>8. InHandler'
  <2>1. ExtVectors' = ExtVectors
    BY <1>2 DEF ExtVectors
  <2>2. extIsr'.calls \subseteq extIsr'.pins
    BY <1>3
  <2>3. v.reads \/ extIsr'.calls = v.pins
    BY <1>3
  <2>4. v.pins \subseteq 0..15
    BY PinsOfVectors DEF ExtInv
  <2> QED BY <1>1, <1>3, <2>1, <2>2, <2>3, <2>4 DEF InHandler
<1>9. \A m \in overrun' : SharedVector(m)'
  BY <1>2 DEF ExtInv, SharedVector, irqPins
<1> QED BY <1>4, <1>6, <1>7, <1>8, <1>9 DEF ExtInv

LEMMA ExtClearKeeps ==
  ASSUME ExtInv, ClearFlags
  PROVE  ExtInv'
<1>1. PICK v \in ExtVectors : extIsr.pins = v.pins /\ (v.reads \/ extIsr.calls = v.pins)
  BY DEF ExtInv, InHandler, ClearFlags, NoExtIsr
<1>2. PICK w : w = CHOOSE u \in ExtVectors : u.pins = extIsr.pins
  OBVIOUS
<1>3. w \in ExtVectors /\ w.pins = extIsr.pins
  BY <1>1, <1>2
<1>4. PICK gone : gone = Clears(w, extIsr.calls)
  OBVIOUS
<1>5. /\ flagged' = flagged \ gone
      /\ overrun' = overrun \union ((flagged \intersect gone) \ extIsr.calls)
      /\ extIsr' = [extIsr EXCEPT !.at = "call"]
      /\ UNCHANGED <<extFamily, enabled, unanswered, called, edges>>
  BY <1>2, <1>4 DEF ClearFlags
<1>6. extIsr.at = "clear" /\ extIsr.calls \subseteq extIsr.pins /\ extIsr.pins \subseteq 0..15
      /\ extIsr = [pins |-> extIsr.pins, at |-> extIsr.at, calls |-> extIsr.calls]
  BY DEF ExtInv, InHandler, ClearFlags, NoExtIsr
<1>7. extIsr'.pins = extIsr.pins /\ extIsr'.at = "call" /\ extIsr'.calls = extIsr.calls
      /\ extIsr' = [pins |-> extIsr'.pins, at |-> extIsr'.at, calls |-> extIsr'.calls]
  BY <1>5, <1>6
<1>8. extIsr.calls \subseteq gone
  BY <1>3, <1>4, <1>6 DEF Clears
<1>9. ExtTypes'
  BY <1>5 DEF ExtInv, ExtTypes
<1>10. EdgesCount'
  BY <1>5, <1>7, <1>8 DEF ExtInv, EdgesCount
<1>11. EdgesStand'
  BY <1>5, <1>7 DEF ExtInv, EdgesStand
<1>12. InHandler'
  BY <1>6, <1>7 DEF InHandler
<1>13. ASSUME NEW n \in (flagged \intersect gone) \ extIsr.calls
       PROVE  SharedVector(n)
  <2>1. w.clears # "read" /\ n \in w.pins
    BY <1>4, <1>13 DEF Clears
  <2>2. w.pins # {n}
    <3> SUFFICES ASSUME w.pins = {n} PROVE FALSE
      OBVIOUS
    <3>1. v.pins = {n} /\ n \notin extIsr.calls
      BY <1>1, <1>3, <1>13
    <3>2. ~v.reads
      BY <3>1, SinglesReadNothing DEF ExtInv
    <3> QED BY <1>1, <3>1, <3>2
  <2> QED BY <1>3, <2>1, <2>2, CarelessShare DEF ExtInv
<1>14. \A n \in overrun' : SharedVector(n)'
  <2>1. \A n : SharedVector(n)' <=> SharedVector(n)
    BY <1>5 DEF SharedVector, irqPins
  <2> QED BY <1>5, <1>13, <2>1 DEF ExtInv
<1> QED BY <1>9, <1>10, <1>11, <1>12, <1>14 DEF ExtInv

LEMMA ExtCallKeeps ==
  ASSUME ExtInv, CallBack
  PROVE  ExtInv'
<1>1. PICK n : n = Least(extIsr.calls)
  OBVIOUS
<1>2. /\ extIsr' = [extIsr EXCEPT !.calls = @ \ {n}]
      /\ unanswered' = unanswered \ {n}
      /\ called' = [called EXCEPT ![n] = @ + 1] /\ overrun' = overrun \ {n}
      /\ extIsr.at = "call" /\ extIsr.calls # {}
      /\ UNCHANGED <<extFamily, enabled, flagged, edges>>
  BY <1>1 DEF CallBack
<1>3. /\ extIsr = [pins |-> extIsr.pins, at |-> extIsr.at, calls |-> extIsr.calls]
      /\ extIsr.calls \subseteq extIsr.pins /\ extIsr.pins \subseteq 0..15
  BY <1>2 DEF ExtInv, InHandler, NoExtIsr
<1>4. /\ extIsr'.pins = extIsr.pins /\ extIsr'.at = "call" /\ extIsr'.calls = extIsr.calls \ {n}
      /\ extIsr' = [pins |-> extIsr'.pins, at |-> extIsr'.at, calls |-> extIsr'.calls]
  BY <1>2, <1>3
<1>5. n \in extIsr.calls
  <2>1. extIsr.calls \subseteq Nat /\ extIsr.calls # {}
    BY <1>2, <1>3
  <2>2. \E m \in extIsr.calls : \A k \in extIsr.calls : m <= k
    BY <2>1, Smallest
  <2> QED BY <1>1, <2>2 DEF Least
<1>6. ExtTypes' /\ \A m \in Pins : called'[m] = IF m = n THEN called[m] + 1 ELSE called[m]
  <2>1. \A m \in Pins : called[m] \in Nat
    BY DEF ExtInv, ExtTypes
  <2>2. called' = [m \in Pins |-> IF m = n THEN called[m] + 1 ELSE called[m]]
    BY <1>2 DEF ExtInv, ExtTypes
  <2>3. called' \in [Pins -> Nat]
    BY <2>1, <2>2
  <2> QED BY <1>2, <2>2, <2>3 DEF ExtInv, ExtTypes
<1>7. EdgesCount'
  <2>1. \A m \in Pins : called[m] \in Nat /\ edges[m] \in Nat
    BY DEF ExtInv, ExtTypes
  <2> QED BY <1>2, <1>4, <1>5, <1>6, <2>1 DEF ExtInv, EdgesCount
<1>8. EdgesStand'
  BY <1>2, <1>4 DEF ExtInv, EdgesStand
<1>9. InHandler'
  BY <1>3, <1>4 DEF InHandler
<1>10. \A m \in overrun' : SharedVector(m)'
  BY <1>2 DEF ExtInv, SharedVector, irqPins
<1> QED BY <1>6, <1>7, <1>8, <1>9, <1>10 DEF ExtInv

LEMMA ExtKeeps == ASSUME ExtInv, [ExtNext]_extVars PROVE ExtInv'
<1>1. CASE LeaveHandler
  <2>1. /\ extIsr.calls = {} /\ extIsr' = NoExtIsr
        /\ UNCHANGED <<extFamily, enabled, flagged, unanswered, overrun, called, edges>>
    BY <1>1 DEF LeaveHandler
  <2>2. EdgesCount' /\ EdgesStand'
    BY <2>1 DEF ExtInv, EdgesCount, EdgesStand, NoExtIsr
  <2> QED BY <2>1, <2>2 DEF ExtInv, ExtTypes, InHandler, SharedVector, irqPins
<1>2. CASE UNCHANGED extVars \/ \E n \in Pins : enableRequest(n) \/ disableRequest(n)
  <2>1. UNCHANGED <<extFamily, flagged, extIsr, unanswered, overrun, called, edges>>
    BY <1>2 DEF extVars, enableRequest, disableRequest
  <2> QED BY <2>1 DEF ExtInv, ExtTypes, InHandler, EdgesCount, EdgesStand, SharedVector, irqPins, ExtVectors
<1> QED BY <1>1, <1>2, EdgeKeeps, ExtEnterKeeps, ExtClearKeeps, ExtCallKeeps DEF ExtNext, ExtHandler

LEMMA ExtStarts == ExtInit => ExtInv
BY DEF ExtInit, ExtInv, ExtTypes, InHandler, EdgesCount, EdgesStand, NoExtIsr

LEMMA ExtTells == ExtInv => NoEdgeIsLost
<1> SUFFICES ASSUME ExtInv PROVE NoEdgeIsLost
  OBVIOUS
<1>1. \A n \in unanswered : n \in flagged \union extIsr.calls \/ n \in overrun
  BY DEF ExtInv, EdgesStand
<1>2. \A n \in Pins : called[n] <= edges[n]
  BY DEF ExtInv, EdgesCount
<1>3. \A n \in overrun : n >= 4 /\ Cardinality(irqPins(n)) > 1
  BY DEF ExtInv, SharedVector
<1> QED BY <1>1, <1>2, <1>3 DEF NoEdgeIsLost

-----------------------------------------------------------------------------
(* The clock of the I2C bus. *)

LEMMA Quotient ==
  ASSUME NEW a \in Nat, NEW b \in Nat \ {0}
  PROVE  a \div b \in Nat /\ (a \div b) * b <= a /\ a < (a \div b) * b + b
<1>1. a = b * (a \div b) + (a % b) /\ a % b \in 0..(b - 1) /\ a \div b \in Int
  OBVIOUS
<1> DEFINE q == a \div b
           r == a % b
<1>2. q \in Int /\ r \in 0..(b - 1) /\ a = b * q + r
  BY <1>1
<1> HIDE DEF q, r
<1>3. q >= 0
  <2> SUFFICES ASSUME q <= -1 PROVE FALSE
    BY <1>2
  <2>1. b * q <= -b
    BY <1>2
  <2> QED BY <1>2, <2>1
<1>4. q * b = b * q
  BY <1>2
<1>5. q \in Nat /\ q * b <= a /\ a < q * b + b
  BY <1>2, <1>3, <1>4
<1> QED BY <1>5 DEF q

\* A larger number has a quotient that is no smaller.
LEMMA QuotientGrows ==
  ASSUME NEW a \in Nat, NEW c \in Nat, a <= c, NEW b \in Nat \ {0}
  PROVE  a \div b <= c \div b
<1> DEFINE p == a \div b
           q == c \div b
<1>1. p \in Nat /\ p * b <= a
  BY Quotient
<1>2. q \in Nat /\ c < q * b + b
  BY Quotient
<1> HIDE DEF p, q
<1>3. p * b < (q + 1) * b
  BY <1>1, <1>2
<1>4. p < q + 1
  <2> SUFFICES ASSUME p >= q + 1 PROVE FALSE
    BY <1>1, <1>2
  <2>1. p * b >= (q + 1) * b
    BY <1>1, <1>2
  <2> QED BY <1>1, <1>2, <1>3, <2>1
<1>5. p <= q
  BY <1>1, <1>2, <1>4
<1> QED BY <1>5 DEF p, q

Prescalers == {1, 2, 4, 8, 16}

HalfWith(p)      == (wanted.apb \div p) \div (2 * wanted.rate) - 1
TicksWith(ns, p) == (ns * (wanted.apb \div p)) \div 1000000 - 1
FitsWith(p) ==
  HalfWith(p) \in 0..Last8 /\ TicksWith(wanted.setup, p) \in 0..Last4 /\ TicksWith(wanted.hold, p) \in 0..Last4

\* The rounds had each of the prescalers below the last one, which did not do.
RateInv ==
  /\ wanted \in [apb : ApbClocks, rate : Rates, setup : DataTimes, hold : DataTimes]
  /\ presc = 1 \/ \E p \in Prescalers :
       /\ presc = 2 * p
       /\ halfPeriod = HalfWith(p)
       /\ dataSetupTime = TicksWith(wanted.setup, p) /\ dataHoldTime = TicksWith(wanted.hold, p)
       /\ \A q \in Prescalers : q < p => ~FitsWith(q)
       /\ timingReg # NoReg =>
            /\ FitsWith(p) \/ p = 16
            /\ timingReg = Packed(p, Clamped(dataSetupTime, p), Clamped(dataHoldTime, p), halfPeriod)
  /\ presc = 1 => timingReg = NoReg

LEMMA RateStarts == TimingInit => RateInv
BY DEF TimingInit, RateInv

LEMMA HalfPresc ==
  ASSUME NEW p \in Prescalers
  PROVE  (2 * p) \div 2 = p /\ p \in Nat \ {0}
BY DEF Prescalers

LEMMA RoundKeeps ==
  ASSUME RateInv, Round
  PROVE  RateInv'
<1>1. /\ timingReg = NoReg /\ presc < 32 /\ (presc = 1 \/ ~AllFit)
      /\ halfPeriod' = Freq \div (2 * wanted.rate) - 1
      /\ dataSetupTime' = Ticks(wanted.setup) - 1
      /\ dataHoldTime' = Ticks(wanted.hold) - 1
      /\ presc' = 2 * presc
      /\ wanted' = wanted /\ timingReg' = timingReg
  BY DEF Round
<1>2. /\ halfPeriod' = HalfWith(presc)
      /\ dataSetupTime' = TicksWith(wanted.setup, presc) /\ dataHoldTime' = TicksWith(wanted.hold, presc)
  BY <1>1 DEF HalfWith, TicksWith, Ticks, Freq
<1>3. presc \in Prescalers /\ \A q \in Prescalers : q < presc => ~FitsWith(q)
  <2>1. CASE presc = 1
    BY <2>1 DEF Prescalers
  <2>2. CASE presc # 1
    <3>1. PICK p \in Prescalers :
            /\ presc = 2 * p
            /\ halfPeriod = HalfWith(p)
            /\ dataSetupTime = TicksWith(wanted.setup, p) /\ dataHoldTime = TicksWith(wanted.hold, p)
            /\ \A q \in Prescalers : q < p => ~FitsWith(q)
      BY <2>2 DEF RateInv
    <3>2. ~FitsWith(p)
      BY <1>1, <2>2, <3>1 DEF AllFit, FitsWith
    <3>3. presc \in Prescalers /\ \A q \in Prescalers : q < presc => q < p \/ q = p
      BY <1>1, <3>1 DEF Prescalers
    <3> QED BY <3>1, <3>2, <3>3
  <2> QED BY <2>1, <2>2
<1>4. \A q \in Prescalers : FitsWith(q)' <=> FitsWith(q)
  BY <1>1 DEF FitsWith, HalfWith, TicksWith
<1>5. PICK p : p = presc
  OBVIOUS
<1>6. HalfWith(p)' = HalfWith(p) /\ \A ns : TicksWith(ns, p)' = TicksWith(ns, p)
  BY <1>1 DEF HalfWith, TicksWith
<1>7. /\ p \in Prescalers /\ presc' = 2 * p /\ halfPeriod' = HalfWith(p)'
      /\ dataSetupTime' = TicksWith(wanted.setup, p)' /\ dataHoldTime' = TicksWith(wanted.hold, p)'
      /\ \A q \in Prescalers : q < p => ~FitsWith(q)'
  BY <1>1, <1>2, <1>3, <1>4, <1>5, <1>6
<1>8. presc' # 1
  BY <1>7 DEF Prescalers
<1> QED BY <1>1, <1>7, <1>8 DEF RateInv

LEMMA FinishKeeps ==
  ASSUME RateInv, Finish
  PROVE  RateInv'
<1>1. /\ presc > 1 /\ (AllFit \/ presc >= 32)
      /\ UNCHANGED <<wanted, presc, halfPeriod, dataSetupTime, dataHoldTime>>
      /\ timingReg' = Packed(presc \div 2, Clamped(dataSetupTime, presc \div 2),
                             Clamped(dataHoldTime, presc \div 2), halfPeriod)
  BY DEF Finish
<1>2. PICK p \in Prescalers :
        /\ presc = 2 * p
        /\ halfPeriod = HalfWith(p)
        /\ dataSetupTime = TicksWith(wanted.setup, p) /\ dataHoldTime = TicksWith(wanted.hold, p)
        /\ \A q \in Prescalers : q < p => ~FitsWith(q)
  BY <1>1 DEF RateInv
<1>3. presc \div 2 = p
  BY <1>2, HalfPresc
<1>4. \A q : (FitsWith(q)' <=> FitsWith(q)) /\ HalfWith(q)' = HalfWith(q)
             /\ \A ns : TicksWith(ns, q)' = TicksWith(ns, q)
  BY <1>1 DEF FitsWith, HalfWith, TicksWith
<1>5. FitsWith(p) \/ p = 16
  BY <1>1, <1>2 DEF AllFit, FitsWith, Prescalers
<1>6. /\ presc' = 2 * p /\ halfPeriod' = HalfWith(p)'
      /\ dataSetupTime' = TicksWith(wanted.setup, p)' /\ dataHoldTime' = TicksWith(wanted.hold, p)'
      /\ \A q \in Prescalers : q < p => ~FitsWith(q)'
      /\ FitsWith(p)' \/ p = 16
  BY <1>1, <1>2, <1>4, <1>5
<1>7. timingReg' = Packed(p, Clamped(dataSetupTime', p), Clamped(dataHoldTime', p), halfPeriod')
  BY <1>1, <1>3
<1> QED BY <1>1, <1>6, <1>7 DEF RateInv, Packed, Clamped

LEMMA RateKeeps == ASSUME RateInv, [TimingNext]_timingVars PROVE RateInv'
<1>1. CASE UNCHANGED timingVars
  BY <1>1 DEF timingVars, RateInv, FitsWith, HalfWith, TicksWith
<1> QED BY <1>1, RoundKeeps, FinishKeeps DEF TimingNext

LEMMA Unwrapped ==
  ASSUME NEW x \in Int, NEW b \in Int, 0 <= x, x < b
  PROVE  x % b = x
OBVIOUS

LEMMA FieldsFit ==
  ASSUME NEW m \in Int, NEW n \in Int, NEW d \in Int,
         0 <= m, m <= 61440, 0 <= n, n <= 240, 0 <= d, d <= 15
  PROVE  (m + n + d + 0) % 65536 = m + n + d
<1>1. PICK x \in Int : x = m + n + d
  OBVIOUS
<1>2. 0 <= x /\ x < 65536 /\ m + n + d + 0 = x
  BY <1>1
<1>3. x % 65536 = x
  BY <1>2, Unwrapped
<1> QED BY <1>1, <1>2, <1>3

\* The fields do not reach into each other.
LEMMA Unpacked ==
  ASSUME NEW p \in Prescalers, NEW s \in 0..15, NEW d \in 0..15, NEW h \in 0..255,
         timingReg = Packed(p, s, d, h)
  PROVE  Presc = p /\ Scldel = s + 1 /\ Sdadel = d + 1 /\ Sclh = h + 1 /\ Scll = h + 1
<1>1. /\ h * 256 + h \in Int /\ 0 <= h * 256 + h /\ h * 256 + h < 65536
      /\ h \in Int /\ 0 <= h /\ h < 256
  OBVIOUS
<1>2. timingReg = [high |-> (p - 1) * 4096 + s * 16 + d, low |-> h * 256 + h]
  <2>1. (h * 256 + h) \div 65536 = 0 /\ (h * 256 + h) % 65536 = h * 256 + h
    <3>1. \A x \in Int : 0 <= x /\ x < 65536 => x \div 65536 = 0 /\ x % 65536 = x
      OBVIOUS
    <3> QED BY <1>1, <3>1
  <2>2. PICK m, n \in Int : m = (p - 1) * 4096 /\ n = s * 16
    BY DEF Prescalers
  <2>3. d \in Int /\ 0 <= m /\ m <= 61440 /\ 0 <= n /\ n <= 240 /\ 0 <= d /\ d <= 15
    BY <2>2 DEF Prescalers
  <2>4. (m + n + d + 0) % 65536 = m + n + d
    BY <2>2, <2>3, FieldsFit
  <2>5. Packed(p, s, d, h) = [high |-> (m + n + d + 0) % 65536, low |-> h * 256 + h]
    BY <2>1, <2>2 DEF Packed
  <2> QED BY <2>2, <2>4, <2>5
<1>3. timingReg.high = (p - 1) * 4096 + s * 16 + d /\ timingReg.low = h * 256 + h
  BY <1>2
<1>4. (h * 256 + h) \div 256 = h /\ (h * 256 + h) % 256 = h
  <2>1. \A x, y \in Int : 0 <= y /\ y < 256 => (x * 256 + y) \div 256 = x /\ (x * 256 + y) % 256 = y
    OBVIOUS
  <2> QED BY <1>1, <2>1
<1>5. ((p - 1) * 4096 + s * 16 + d) \div 4096 = p - 1
  BY DEF Prescalers
<1>6. ((p - 1) * 4096 + s * 16 + d) % 16 = d
  BY DEF Prescalers
<1>7. (((p - 1) * 4096 + s * 16 + d) \div 16) % 16 = s
  <2>1. ((p - 1) * 4096 + s * 16 + d) \div 16 = (p - 1) * 256 + s
    BY DEF Prescalers
  <2>2. ((p - 1) * 256 + s) % 16 = s
    BY DEF Prescalers
  <2> QED BY <2>1, <2>2
<1> QED BY <1>3, <1>4, <1>5, <1>6, <1>7 DEF Presc, Scldel, Sdadel, Sclh, Scll, Prescalers

\* A half period of h + 1 ticks is the longest that is short enough.
LEMMA RateHolds ==
  ASSUME NEW p \in Prescalers, NEW a \in Nat, NEW r \in Nat \ {0}, NEW h \in Nat,
         h + 1 = (a \div p) \div (2 * r)
  PROVE  2 * (h + 1) * p * r <= a /\ a < 2 * (h + 1 + 1) * p * r
<1>1. PICK q : q = a \div p
  OBVIOUS
<1>2. q \in Nat /\ q * p <= a /\ a < q * p + p
  BY <1>1, Quotient, HalfPresc
<1>3. (h + 1) * (2 * r) <= q /\ q < (h + 1) * (2 * r) + 2 * r
  <2>1. 2 * r \in Nat \ {0}
    OBVIOUS
  <2> QED BY <1>1, <1>2, <2>1, Quotient
<1>4. PICK x \in Nat : x = (h + 1) * r
  OBVIOUS
<1>5. 2 * x <= q /\ q < 2 * x + 2 * r
  <2>1. (h + 1) * (2 * r) = 2 * x
    BY <1>4
  <2> QED BY <1>3, <2>1
<1>6. 2 * (h + 1) * p * r = 2 * p * x /\ 2 * (h + 1 + 1) * p * r = 2 * p * (x + r)
  BY <1>4 DEF Prescalers
<1>7. 2 * p * x <= a /\ a < 2 * p * (x + r)
  BY <1>2, <1>5 DEF Prescalers
<1> QED BY <1>6, <1>7

LEMMA RateTells == RateInv => BusKeepsItsRate
<1> SUFFICES ASSUME RateInv, timingReg # NoReg,
                    (wanted.apb \div 16) \div (2 * wanted.rate) \in 1..(Last8 + 1)
             PROVE  /\ Sclh = Scll
                    /\ 2 * Sclh * Presc * wanted.rate <= wanted.apb
                    /\ wanted.apb < 2 * (Sclh + 1) * Presc * wanted.rate
                    /\ Delay(Scldel, wanted.setup) /\ Delay(Sdadel, wanted.hold)
                    /\ \A p \in {1, 2, 4, 8} : p < Presc =>
                         \/ (wanted.apb \div p) \div (2 * wanted.rate) > Last8 + 1
                         \/ \E ns \in {wanted.setup, wanted.hold} :
                              (ns * (wanted.apb \div p)) \div 1000000 \notin 1..(Last4 + 1)
  BY DEF BusKeepsItsRate
<1>1. PICK p \in Prescalers :
        /\ halfPeriod = HalfWith(p)
        /\ dataSetupTime = TicksWith(wanted.setup, p) /\ dataHoldTime = TicksWith(wanted.hold, p)
        /\ \A q \in Prescalers : q < p => ~FitsWith(q)
        /\ FitsWith(p) \/ p = 16
        /\ timingReg = Packed(p, Clamped(dataSetupTime, p), Clamped(dataHoldTime, p), halfPeriod)
  BY DEF RateInv
<1>2. /\ wanted.apb \in Nat /\ wanted.rate \in Nat \ {0} /\ wanted.setup \in Nat /\ wanted.hold \in Nat
  BY I2cTimingAssumption DEF RateInv
<1>3. halfPeriod \in 0..255
  <2>1. CASE FitsWith(p)
    BY <1>1, <2>1 DEF FitsWith, Last8
  <2>2. CASE p = 16
    BY <1>1, <2>2 DEF HalfWith, Last8
  <2> QED BY <1>1, <2>1, <2>2
<1>4. Clamped(dataSetupTime, p) \in 0..15 /\ Clamped(dataHoldTime, p) \in 0..15
  BY <1>1 DEF Clamped, FitsWith, Last4
<1>5. /\ Presc = p /\ Scldel = Clamped(dataSetupTime, p) + 1 /\ Sdadel = Clamped(dataHoldTime, p) + 1
      /\ Sclh = halfPeriod + 1 /\ Scll = halfPeriod + 1
  <2>1. PICK c, d, h : c = Clamped(dataSetupTime, p) /\ d = Clamped(dataHoldTime, p) /\ h = halfPeriod
    OBVIOUS
  <2>2. c \in 0..15 /\ d \in 0..15 /\ h \in 0..255 /\ timingReg = Packed(p, c, d, h)
    BY <1>1, <1>3, <1>4, <2>1
  <2>3. Presc = p /\ Scldel = c + 1 /\ Sdadel = d + 1 /\ Sclh = h + 1 /\ Scll = h + 1
    BY <2>2, Unpacked
  <2> QED BY <2>1, <2>3
<1>6. halfPeriod + 1 = (wanted.apb \div p) \div (2 * wanted.rate)
  <2>1. PICK x : x = (wanted.apb \div p) \div (2 * wanted.rate)
    OBVIOUS
  <2>2. x \in Int
    <3>1. wanted.apb \div p \in Nat
      BY <1>2, Quotient, HalfPresc
    <3>2. 2 * wanted.rate \in Nat \ {0}
      BY <1>2
    <3> QED BY <2>1, <3>1, <3>2, Quotient
  <2>3. halfPeriod = x - 1
    BY <1>1, <2>1 DEF HalfWith
  <2> QED BY <2>1, <2>2, <2>3
<1>7. 2 * Sclh * Presc * wanted.rate <= wanted.apb /\ wanted.apb < 2 * (Sclh + 1) * Presc * wanted.rate
  <2>1. PICK h : h = halfPeriod
    OBVIOUS
  <2>2. h \in Nat /\ h + 1 = (wanted.apb \div p) \div (2 * wanted.rate)
    BY <1>3, <1>6, <2>1
  <2>3. 2 * (h + 1) * p * wanted.rate <= wanted.apb /\ wanted.apb < 2 * (h + 1 + 1) * p * wanted.rate
    BY <1>2, <2>2, RateHolds
  <2> QED BY <1>5, <2>1, <2>3
<1>8. ASSUME NEW ns \in Nat, NEW t, t = Clamped(TicksWith(ns, p), p) + 1
      PROVE  Delay(t, ns)
  <2>1. PICK x : x = (ns * (wanted.apb \div p)) \div 1000000
    OBVIOUS
  <2>2. x \in Int
    <3>1. wanted.apb \div p \in Nat
      BY <1>2, Quotient, HalfPresc
    <3>2. ns * (wanted.apb \div p) \in Nat
      BY <3>1
    <3> QED BY <2>1, <3>2
  <2>3. TicksWith(ns, p) = x - 1
    BY <2>1 DEF TicksWith
  <2>4. t = Last4 + 1 \/ t = x
    BY <1>8, <2>2, <2>3 DEF Clamped, Last4
  <2> QED BY <1>5, <2>1, <2>4 DEF Delay
<1>9. Delay(Scldel, wanted.setup) /\ Delay(Sdadel, wanted.hold)
  BY <1>1, <1>2, <1>5, <1>8
<1>10. ASSUME NEW q \in {1, 2, 4, 8}, q < p
       PROVE  \/ (wanted.apb \div q) \div (2 * wanted.rate) > Last8 + 1
              \/ \E ns \in {wanted.setup, wanted.hold} :
                   (ns * (wanted.apb \div q)) \div 1000000 \notin 1..(Last4 + 1)
  <2>1. q \in Prescalers /\ ~FitsWith(q)
    BY <1>1, <1>10 DEF Prescalers
  <2>2. wanted.apb \div q \in Nat /\ wanted.apb \div 16 \in Nat /\ wanted.apb \div 16 <= wanted.apb \div q
    BY <1>2, <1>10
  <2>3. PICK m \in Nat : m = 2 * wanted.rate
    BY <1>2
  <2>4. m \in Nat \ {0}
    BY <1>2, <2>3
  <2>5. (wanted.apb \div 16) \div m <= (wanted.apb \div q) \div m
    BY <2>2, <2>4, QuotientGrows
  <2>6. PICK x : x = (wanted.apb \div q) \div m
    OBVIOUS
  <2>7. x \in Nat /\ x >= 1
    <3>1. x \in Nat
      BY <2>2, <2>4, <2>6, Quotient
    <3>2. (wanted.apb \div 16) \div m \in 1..(Last8 + 1)
      BY <2>3
    <3> QED BY <2>5, <2>6, <3>1, <3>2 DEF Last8
  <2>8. CASE HalfWith(q) \notin 0..Last8
    <3>1. HalfWith(q) = x - 1
      BY <2>3, <2>6 DEF HalfWith
    <3>2. x > Last8 + 1
      BY <2>7, <2>8, <3>1 DEF Last8
    <3> QED BY <2>3, <2>6, <3>2
  <2>9. ASSUME NEW ns \in {wanted.setup, wanted.hold}, TicksWith(ns, q) \notin 0..Last4
        PROVE  (ns * (wanted.apb \div q)) \div 1000000 \notin 1..(Last4 + 1)
    <3>1. PICK y : y = (ns * (wanted.apb \div q)) \div 1000000
      OBVIOUS
    <3>2. TicksWith(ns, q) = y - 1
      BY <3>1 DEF TicksWith
    <3>3. y \notin 1..(Last4 + 1)
      BY <2>9, <3>2 DEF Last4
    <3> QED BY <3>1, <3>3
  <2> QED BY <2>1, <2>8, <2>9 DEF FitsWith
<1> QED BY <1>5, <1>7, <1>9, <1>10

-----------------------------------------------------------------------------
(* Timers. *)

TimFamilies == {"F0", "F1", "F4", "F7"}
CallsIn(v) == {v[k] : k \in 1..Len(v)}

TimerStates ==
  [running : BOOLEAN, continuous : BOOLEAN, update : BOOLEAN, callback : BOOLEAN,
   asked : Nat, reload : Int, prescaler : Int]

TimerTypes ==
  /\ timFamily \in TimFamilies /\ divider \in {<<1, 2>>, <<2, 1>>}
  /\ planned \subseteq DOMAIN numberToIrq /\ Made \subseteq planned
  /\ timers \in [Made -> TimerStates]

\* The handler that runs has been entered for a timer that is made.
Entered(m, s) == Raises(m) \in handlers /\ (s = Raises(m) \/ s = Tail(Raises(m)))

\* What the registers of a timer hold comes from what was asked for.
Reloads(t, n) == t.asked \in 2..(Resolution(n) + 1) => t.reload + 1 = t.asked
Divides(t, n) ==
  clock(n) \div Frequency \in 1..(ShortResolution + 1) =>
    clock(n) - (t.prescaler + 1) * Frequency \in 0..(Frequency - 1)

SoundTimers ==
  \A n \in Made : SoundTimer(n) =>
    n \notin spurious /\ (n \in CallsIn(serving) => timers[n].update /\ timers[n].callback)

TimersInv ==
  /\ TimerTypes /\ SoundTimers /\ spurious \subseteq Made
  /\ serving # <<>> => \E m \in Made : Entered(m, serving)
  /\ \A n \in Made : Reloads(timers[n], n) /\ Divides(timers[n], n)
  /\ timersDead => \E n \in planned : ~SoundTimer(n)

\* A vector that is written calls one timer, or two different ones.
LEMMA HandlersCall ==
  ASSUME timFamily \in TimFamilies, NEW v \in handlers
  PROVE  (\E a : v = <<a>>) \/ (timFamily \in {"F4", "F7"} /\ \E a, b : a # b /\ v = <<a, b>>)
<1>1. CASE timFamily = "F0"
  BY <1>1 DEF handlers, handlersF0
<1>2. CASE timFamily = "F1"
  BY <1>2 DEF handlers, handlersF1
<1>3. CASE timFamily \in {"F4", "F7"}
  <2>1. v \in handlersF4
    BY <1>3 DEF handlers, handlersF7
  <2>2. CASE \E n \in 2..7 : v = <<n>>
    BY <2>2
  <2>3. CASE v \in {<<1, 10>>, <<8, 13>>, <<1, 9>>, <<8, 12>>, <<8, 14>>}
    BY <1>3, <2>3
  <2> QED BY <2>1, <2>2, <2>3 DEF handlersF4
<1> QED BY <1>1, <1>2, <1>3 DEF TimFamilies

LEMMA CallsOf ==
  /\ \A a : CallsIn(<<a>>) = {a} /\ Tail(<<a>>) = <<>> /\ Head(<<a>>) = a /\ <<a>> # <<>>
  /\ \A a, b : CallsIn(<<a, b>>) = {a, b} /\ Tail(<<a, b>>) = <<b>> /\ Head(<<a, b>>) = a
               /\ <<a, b>> # <<>> /\ Len(<<a, b>>) = 2
  /\ CallsIn(<<>>) = {}
<1>1. ASSUME NEW a
      PROVE  CallsIn(<<a>>) = {a} /\ Tail(<<a>>) = <<>> /\ Head(<<a>>) = a /\ <<a>> # <<>>
  BY DEF CallsIn
<1>2. ASSUME NEW a, NEW b
      PROVE  CallsIn(<<a, b>>) = {a, b} /\ Tail(<<a, b>>) = <<b>> /\ Head(<<a, b>>) = a
             /\ <<a, b>> # <<>> /\ Len(<<a, b>>) = 2
  <2>1. Len(<<a, b>>) = 2 /\ <<a, b>>[1] = a /\ <<a, b>>[2] = b
    OBVIOUS
  <2>2. 1..2 = {1, 2}
    OBVIOUS
  <2>3. CallsIn(<<a, b>>) = {a, b}
    BY <2>1, <2>2 DEF CallsIn
  <2> QED BY <2>1, <2>3
<1>3. CallsIn(<<>>) = {}
  BY DEF CallsIn
<1> QED BY <1>1, <1>2, <1>3

\* The vector of a timer calls it.
LEMMA RaisesIt ==
  ASSUME timFamily \in TimFamilies, NEW n \in DOMAIN numberToIrq
  PROVE  n \in CallsIn(Raises(n))
<1>1. CASE timFamily = "F0"
  <2>1. n \in {1, 2, 3, 6, 7, 14, 15, 16, 17} /\ Raises(n) = <<n>>
    BY <1>1 DEF numberToIrq, numberToIrqF0, Raises
  <2> QED BY <2>1, CallsOf
<1>2. CASE timFamily = "F1"
  <2>1. Raises(n) = <<n>>
    BY <1>2 DEF numberToIrq, numberToIrqF1, Raises
  <2> QED BY <2>1, CallsOf
<1>3. CASE timFamily \in {"F4", "F7"}
  <2>1. numberToIrq = numberToIrqF4 /\ n \in 1..14
    BY <1>3 DEF numberToIrq, numberToIrqF4, numberToIrqF7
  <2>2. n = 14 => Raises(n) = <<8, 14>>
    BY <1>3 DEF Raises
  <2>3. n # 14 => Raises(n) = numberToIrqF4[n]
    BY <2>1 DEF Raises
  <2>4. n # 14 => numberToIrqF4[n] \in {<<1, n>>, <<8, n>>, <<n, 10>>, <<n, 13>>, <<n>>}
    BY <2>1 DEF numberToIrqF4
  <2> QED BY <2>2, <2>3, <2>4, CallsOf
<1> QED BY <1>1, <1>2, <1>3 DEF TimFamilies

\* A handler that calls a sound timer has been entered for that one.
LEMMA SoundAlone ==
  ASSUME TimerTypes, NEW m \in planned, Raises(m) \in handlers,
         NEW n, SoundTimer(n), n \in CallsIn(Raises(m))
  PROVE  m = n
<1>1. m \in CallsIn(Raises(m))
  BY RaisesIt DEF TimerTypes
<1>2. IF timFamily = "F4" THEN planned \intersect CallsIn(Raises(m)) = {n} ELSE Len(Raises(m)) = 1
  BY DEF SoundTimer, CallsIn
<1>3. CASE timFamily = "F4"
  BY <1>1, <1>2, <1>3
<1>4. CASE timFamily # "F4"
  <2>1. Len(Raises(m)) = 1
    BY <1>2, <1>4
  <2>2. PICK a : Raises(m) = <<a>>
    BY <2>1, HandlersCall, CallsOf DEF TimerTypes
  <2>3. CallsIn(Raises(m)) = {a}
    BY <2>2, CallsOf
  <2> QED BY <1>1, <2>3
<1> QED BY <1>3, <1>4

\* What remains to be called.
LEMMA StillCalled ==
  ASSUME TimerTypes, NEW m, NEW s, Entered(m, s), s # <<>>
  PROVE  /\ Head(s) \in CallsIn(s) /\ CallsIn(s) \subseteq CallsIn(Raises(m))
         /\ CallsIn(Tail(s)) = CallsIn(s) \ {Head(s)}
         /\ Tail(s) = <<>> \/ Entered(m, Tail(s))
<1>1. CASE \E a : Raises(m) = <<a>>
  <2>1. PICK a : Raises(m) = <<a>>
    BY <1>1
  <2>2. s = <<a>> /\ CallsIn(s) = {a} /\ Tail(s) = <<>> /\ Head(s) = a
    BY <2>1, CallsOf DEF Entered
  <2> QED BY <2>1, <2>2, CallsOf
<1>2. CASE \E a, b : a # b /\ Raises(m) = <<a, b>>
  <2>1. PICK a, b : a # b /\ Raises(m) = <<a, b>>
    BY <1>2
  <2>2. CASE s = <<a, b>>
    BY <2>1, <2>2, CallsOf DEF Entered
  <2>3. CASE s = <<b>>
    BY <2>1, <2>3, CallsOf DEF Entered
  <2> QED BY <2>1, <2>2, <2>3, CallsOf DEF Entered
<1> QED BY <1>1, <1>2, HandlersCall DEF Entered, TimerTypes

-----------------------------------------------------------------------------

LEMMA ClockIsNat ==
  ASSUME TimerTypes, NEW n
  PROVE  clock(n) \in Nat
<1>1. Hclk \in Nat
  BY TimersAssumption
<1>2. \A b \in {1, 2} : BusClock(b) \in Nat
  <2> SUFFICES ASSUME NEW b \in {1, 2} PROVE BusClock(b) \in Nat
    OBVIOUS
  <2>1. divider[b] \in {1, 2}
    BY DEF TimerTypes
  <2>2. (Hclk \div 2) * 2 \in Nat
    BY <1>1
  <2> QED BY <1>1, <2>1, <2>2 DEF BusClock
<1> QED BY <1>2 DEF clock, clockF0, clockF1, clockF4, clockF7, TimerTypes, TimFamilies

LEMMA PrescalerDivides ==
  ASSUME TimerTypes, NEW n, NEW t, t.prescaler = (clock(n) \div Frequency - 1) % (ShortResolution + 1)
  PROVE  t.prescaler \in Int /\ Divides(t, n)
<1>1. PICK c \in Nat : c = clock(n)
  BY ClockIsNat
<1>2. Frequency \in Nat \ {0} /\ ShortResolution \in Nat
  BY TimersAssumption
<1>3. PICK q \in Nat : q = c \div Frequency /\ q * Frequency <= c /\ c < q * Frequency + Frequency
  BY <1>2, Quotient
<1>4. t.prescaler = (q - 1) % (ShortResolution + 1)
  BY <1>1, <1>3
<1>5. t.prescaler \in Int
  BY <1>2, <1>4
<1>6. q \in 1..(ShortResolution + 1) => t.prescaler = q - 1
  <2> SUFFICES ASSUME q \in 1..(ShortResolution + 1) PROVE t.prescaler = q - 1
    OBVIOUS
  <2>1. PICK x \in Int, b \in Int : x = q - 1 /\ b = ShortResolution + 1
    BY <1>2
  <2>2. 0 <= x /\ x < b
    BY <1>2, <2>1
  <2>3. x % b = x
    BY <2>2
  <2> QED BY <1>4, <2>1, <2>3
<1>7. q \in 1..(ShortResolution + 1) => c - (t.prescaler + 1) * Frequency \in 0..(Frequency - 1)
  <2> SUFFICES ASSUME q \in 1..(ShortResolution + 1)
               PROVE  c - (t.prescaler + 1) * Frequency \in 0..(Frequency - 1)
    OBVIOUS
  <2>1. t.prescaler + 1 = q
    BY <1>6
  <2>2. PICK x \in Int : x = q * Frequency
    BY <1>2
  <2>3. c - x \in 0..(Frequency - 1)
    BY <1>2, <1>3, <2>2
  <2> QED BY <2>1, <2>2, <2>3
<1> QED BY <1>1, <1>3, <1>5, <1>7 DEF Divides

LEMMA ResolutionFits ==
  ASSUME timFamily \in TimFamilies, NEW n
  PROVE  Resolution(n) \in Nat \ {0} /\ Resolution(n) <= LongResolution
BY TimersAssumption DEF Resolution, numberToResolutionF0, numberToResolutionF1, numberToResolutionF4,
   numberToResolutionF7, TimFamilies

LEMMA PeriodKept ==
  ASSUME timFamily \in TimFamilies, NEW n, NEW p \in Nat
  PROVE  /\ Period(n, Wrap32(p - 1)) \in Int /\ Wrap32(p - 1) \in Int /\ Period(n, 1) \in Int
         /\ p \in 2..(Resolution(n) + 1) => Wrap32(p - 1) = p - 1 /\ Period(n, p - 1) = p - 1
<1>1. PICK r \in Nat \ {0} : r = Resolution(n) /\ r <= LongResolution
  BY ResolutionFits
<1>2. LongResolution \in Nat \ {0}
  BY TimersAssumption
<1>3. \A x \in Int : x % (LongResolution + 1) \in Int /\ x % (r + 1) \in Int
  BY <1>1, <1>2
<1>4. ASSUME p \in 2..(r + 1)
      PROVE  Wrap32(p - 1) = p - 1 /\ Period(n, p - 1) = p - 1
  <2>1. PICK x \in Int, b \in Int, c \in Int : x = p - 1 /\ b = LongResolution + 1 /\ c = r + 1
    BY <1>2
  <2>2. 0 <= x /\ x < c /\ x < b
    BY <1>1, <1>2, <1>4, <2>1
  <2>3. x % b = x /\ x % c = x
    BY <2>2, Unwrapped
  <2> QED BY <1>1, <2>1, <2>3 DEF Wrap32, Period
<1> QED BY <1>1, <1>3, <1>4 DEF Wrap32, Period

LEMMA StartedReloads ==
  ASSUME TimerTypes, NEW n \in Made, NEW p \in AllPeriods
  PROVE  /\ Started(n, p) \in TimerStates /\ Reloads(Started(n, p), n)
         /\ Started(n, p).update = timers[n].update /\ Started(n, p).callback = timers[n].callback
         /\ Started(n, p).prescaler = timers[n].prescaler
<1>1. p \in Nat
  BY TimersAssumption
<1>2. PICK w : w = Period(n, IF Wrap32(p - 1) < 1 THEN 1 ELSE Wrap32(p - 1))
  OBVIOUS
<1>3. w \in Int /\ (p \in 2..(Resolution(n) + 1) => w = p - 1)
  <2>1. w \in Int
    BY <1>1, <1>2, PeriodKept DEF TimerTypes
  <2>2. ASSUME p \in 2..(Resolution(n) + 1)
        PROVE  w = p - 1
    <3>1. Wrap32(p - 1) = p - 1 /\ Period(n, p - 1) = p - 1
      BY <1>1, <2>2, PeriodKept DEF TimerTypes
    <3>2. ~(p - 1 < 1)
      BY <1>1, <2>2, ResolutionFits DEF TimerTypes
    <3> QED BY <1>2, <3>1, <3>2
  <2> QED BY <2>1, <2>2
<1>4. timers[n] \in TimerStates
  BY DEF TimerTypes
<1>5. Started(n, p) = [timers[n] EXCEPT !.running = TRUE, !.asked = p, !.reload = w]
  BY <1>2 DEF Started
<1>6. /\ Started(n, p) \in TimerStates /\ Started(n, p).asked = p /\ Started(n, p).reload = w
      /\ Started(n, p).update = timers[n].update /\ Started(n, p).callback = timers[n].callback
      /\ Started(n, p).prescaler = timers[n].prescaler
  BY <1>1, <1>3, <1>4, <1>5 DEF TimerStates
<1> QED BY <1>1, <1>3, <1>6 DEF Reloads

-----------------------------------------------------------------------------

LEMMA TimersStart == TimersInit => TimersInv
<1> SUFFICES ASSUME TimersInit PROVE TimersInv
  OBVIOUS
<1>1. /\ timFamily \in TimFamilies /\ divider \in {<<1, 2>>, <<2, 1>>}
      /\ planned \subseteq DOMAIN numberToIrq /\ timers = <<>>
      /\ serving = <<>> /\ timersDead = FALSE /\ spurious = {}
  BY DEF TimersInit, TimFamilies
<1>2. Made = {} /\ timers \in [{} -> TimerStates]
  BY <1>1 DEF Made
<1>3. TimerTypes
  BY <1>1, <1>2 DEF TimerTypes
<1> QED BY <1>1, <1>2, <1>3 DEF TimersInv, SoundTimers

\* What is a matter of the family and of the plan stays as it is.
LEMMA SameFamily ==
  ASSUME UNCHANGED <<timFamily, divider, planned>>
  PROVE  /\ \A n : SoundTimer(n)' <=> SoundTimer(n)
         /\ \A n : Raises(n)' = Raises(n) /\ Resolution(n)' = Resolution(n) /\ clock(n)' = clock(n)
         /\ handlers' = handlers /\ numberToIrq' = numberToIrq
         /\ \A t, n : (Reloads(t, n)' <=> Reloads(t, n)) /\ (Divides(t, n)' <=> Divides(t, n))
<1>1. /\ \A n : Raises(n)' = Raises(n) /\ Resolution(n)' = Resolution(n)
      /\ handlers' = handlers /\ numberToIrq' = numberToIrq
  BY DEF Raises, Resolution, handlers, numberToIrq
<1>2. \A b : BusClock(b)' = BusClock(b)
  BY DEF BusClock
<1>3. \A n : clock(n)' = clock(n)
  BY <1>2 DEF clock, clockF0, clockF1, clockF4, clockF7
<1>4. \A n : SoundTimer(n)' <=> SoundTimer(n)
  BY <1>1 DEF SoundTimer
<1> QED BY <1>1, <1>3, <1>4 DEF Reloads, Divides

\* One timer changes, or is made, the others do not.
LEMMA OneChanges ==
  ASSUME TimersInv, UNCHANGED <<timFamily, divider, planned, serving, timersDead, spurious>>,
         NEW n \in planned, NEW t \in TimerStates, Reloads(t, n), Divides(t, n),
         timers' = [m \in Made \union {n} |-> IF m = n THEN t ELSE timers[m]],
         serving # <<>> => /\ n \in Made /\ (timers[n].update => t.update)
                         /\ (timers[n].callback => t.callback),
         n \in Made \/ n \notin spurious
  PROVE  TimersInv'
<1>1. /\ Made' = Made \union {n}
      /\ \A m \in Made' : timers'[m] = IF m = n THEN t ELSE timers[m]
  BY DEF Made
<1>2. TimerTypes'
  <2>1. timers' \in [Made' -> TimerStates]
    BY <1>1 DEF TimersInv, TimerTypes
  <2> QED BY <1>1, <2>1, SameFamily DEF TimersInv, TimerTypes
<1>3. \A m \in Made' : Reloads(timers'[m], m) /\ Divides(timers'[m], m)
  <2> SUFFICES ASSUME NEW m \in Made' PROVE Reloads(timers'[m], m) /\ Divides(timers'[m], m)
    OBVIOUS
  <2>1. CASE m = n
    BY <1>1, <2>1
  <2>2. CASE m # n
    <3>1. m \in Made /\ timers'[m] = timers[m]
      BY <1>1, <2>2
    <3> QED BY <3>1 DEF TimersInv
  <2> QED BY <2>1, <2>2
<1>4. \A m \in Made' : Reloads(timers[m], m)' /\ Divides(timers[m], m)'
  <2> SUFFICES ASSUME NEW m \in Made' PROVE Reloads(timers[m], m)' /\ Divides(timers[m], m)'
    OBVIOUS
  <2>1. Resolution(m)' = Resolution(m) /\ clock(m)' = clock(m)
    BY SameFamily
  <2>2. PICK u : u = timers'[m]
    OBVIOUS
  <2>3. Reloads(u, m) /\ Divides(u, m)
    BY <1>3, <2>2
  <2> QED BY <2>1, <2>2, <2>3 DEF Reloads, Divides
<1>5. SoundTimers'
  <2> SUFFICES ASSUME NEW m \in Made', SoundTimer(m)
               PROVE  /\ m \notin spurious
                      /\ m \in CallsIn(serving) => timers'[m].update /\ timers'[m].callback
    BY SameFamily DEF SoundTimers, CallsIn
  <2>1. CASE m = n
    <3>1. m \in Made => m \notin spurious
                        /\ (m \in CallsIn(serving) => timers[m].update /\ timers[m].callback)
      BY DEF TimersInv, SoundTimers
    <3>2. m \in CallsIn(serving) => serving # <<>>
      BY CallsOf
    <3> QED BY <1>1, <2>1, <3>1, <3>2
  <2>2. CASE m # n
    BY <1>1, <2>2 DEF TimersInv, SoundTimers
  <2> QED BY <2>1, <2>2
<1>6. serving' # <<>> => \E m \in Made' : Entered(m, serving)'
  BY <1>1, SameFamily DEF TimersInv, Entered
<1>7. timersDead' => \E m \in planned' : ~SoundTimer(m)'
  BY SameFamily DEF TimersInv
<1>8. spurious' \subseteq Made'
  BY <1>1 DEF TimersInv
<1> QED BY <1>2, <1>4, <1>5, <1>6, <1>7, <1>8 DEF TimersInv

LEMMA ExceptOne ==
  ASSUME NEW f, NEW S, NEW D, f \in [D -> S], NEW n \in D, NEW t
  PROVE  [f EXCEPT ![n] = t] = [m \in D \union {n} |-> IF m = n THEN t ELSE f[m]]
OBVIOUS

\* The thread runs while no handler does.
LEMMA ThreadKeeps ==
  ASSUME TimersInv, NEW n \in Made, NEW t \in TimerStates, Reloads(t, n), Divides(t, n), ThreadSets(n, t)
  PROVE  TimersInv'
<1>1. serving = <<>> /\ n \in planned
  BY DEF ThreadSets, Preempted, TimersInv, TimerTypes
<1>2. timers' = [m \in Made \union {n} |-> IF m = n THEN t ELSE timers[m]]
  BY DEF ThreadSets, TimersInv, TimerTypes, Made
<1>3. UNCHANGED <<timFamily, divider, planned, serving, timersDead, spurious>>
  BY DEF ThreadSets
<1> QED BY <1>1, <1>2, <1>3, OneChanges

\* What neither starts a timer nor makes it leaves its registers alone.
LEMMA SameRegisters ==
  ASSUME TimersInv, NEW n \in Made, NEW t \in TimerStates,
         t.asked = timers[n].asked, t.reload = timers[n].reload, t.prescaler = timers[n].prescaler
  PROVE  Reloads(t, n) /\ Divides(t, n)
<1>1. Reloads(timers[n], n) /\ Divides(timers[n], n)
  BY DEF TimersInv
<1> QED BY <1>1 DEF Reloads, Divides

LEMMA MakeKeeps ==
  ASSUME TimersInv, NEW n, NEW p \in AllPeriods, NEW some \in BOOLEAN, MakeTimer(n, p, some)
  PROVE  TimersInv'
<1>1. PICK t : /\ t = [running |-> FALSE, continuous |-> some, update |-> FALSE, callback |-> TRUE,
                       asked |-> p, reload |-> Period(n, Wrap32(p - 1)),
                       prescaler |-> (clock(n) \div Frequency - 1) % (ShortResolution + 1)]
               /\ timers' = [m \in Made \union {n} |-> IF m = n THEN t ELSE timers[m]]
  BY DEF MakeTimer
<1>2. /\ n \in planned /\ n \notin Made /\ serving = <<>>
      /\ UNCHANGED <<timFamily, divider, planned, serving, timersDead, spurious>>
  BY DEF MakeTimer
<1>3. TimerTypes /\ p \in Nat
  BY TimersAssumption DEF TimersInv
<1>4. t.prescaler \in Int /\ Divides(t, n)
  BY <1>1, <1>3, PrescalerDivides
<1>5. Period(n, Wrap32(p - 1)) \in Int /\ (p \in 2..(Resolution(n) + 1) => Period(n, Wrap32(p - 1)) = p - 1)
  BY <1>3, PeriodKept DEF TimerTypes
<1>6. t \in TimerStates
  BY <1>1, <1>3, <1>4, <1>5 DEF TimerStates
<1>7. Reloads(t, n)
  BY <1>1, <1>3, <1>5 DEF Reloads
<1>8. n \notin spurious
  BY <1>2 DEF TimersInv
<1> QED BY <1>1, <1>2, <1>4, <1>6, <1>7, <1>8, OneChanges

LEMMA TimerStartKeeps ==
  ASSUME TimersInv, NEW n, NEW p \in AllPeriods, start(n, p)
  PROVE  TimersInv'
<1>1. n \in Made /\ ThreadSets(n, Started(n, p))
  BY DEF start
<1>2. Started(n, p) \in TimerStates /\ Reloads(Started(n, p), n) /\ Divides(Started(n, p), n)
  BY <1>1, StartedReloads DEF TimersInv, Divides
<1> QED BY <1>1, <1>2, ThreadKeeps

LEMMA SwitchKeeps ==
  ASSUME TimersInv, NEW n, enable(n) \/ disable(n) \/ \E some \in BOOLEAN : setCallback(n, some)
  PROVE  TimersInv'
<1>1. n \in Made /\ timers[n] \in TimerStates
  BY DEF enable, disable, setCallback, TimersInv, TimerTypes
<1>2. CASE enable(n) \/ disable(n)
  <2>1. PICK t : (\E r \in BOOLEAN : t = [timers[n] EXCEPT !.running = r]) /\ ThreadSets(n, t)
    BY <1>2 DEF enable, disable
  <2>2. /\ t \in TimerStates /\ t.asked = timers[n].asked /\ t.reload = timers[n].reload
        /\ t.prescaler = timers[n].prescaler
    BY <1>1, <2>1 DEF TimerStates
  <2>3. Reloads(t, n) /\ Divides(t, n)
    BY <1>1, <2>2, SameRegisters
  <2> QED BY <1>1, <2>1, <2>2, <2>3, ThreadKeeps
<1>3. CASE \E some \in BOOLEAN : setCallback(n, some)
  <2>1. PICK t : (\E c \in BOOLEAN : t = [timers[n] EXCEPT !.callback = c]) /\ ThreadSets(n, t)
    BY <1>3 DEF setCallback
  <2>2. /\ t \in TimerStates /\ t.asked = timers[n].asked /\ t.reload = timers[n].reload
        /\ t.prescaler = timers[n].prescaler
    BY <1>1, <2>1 DEF TimerStates
  <2>3. Reloads(t, n) /\ Divides(t, n)
    BY <1>1, <2>2, SameRegisters
  <2> QED BY <1>1, <2>1, <2>2, <2>3, ThreadKeeps
<1> QED BY <1>2, <1>3

\* An update comes while a handler may run.
LEMMA UpdateKeeps ==
  ASSUME TimersInv, NEW n, Updates(n)
  PROVE  TimersInv'
<1>1. n \in Made /\ n \in planned /\ timers[n] \in TimerStates
  BY DEF Updates, TimersInv, TimerTypes
<1>2. PICK t : t = [timers[n] EXCEPT !.update = TRUE, !.running = timers[n].continuous]
  OBVIOUS
<1>3. /\ t \in TimerStates /\ t.update /\ t.callback = timers[n].callback
      /\ t.asked = timers[n].asked /\ t.reload = timers[n].reload /\ t.prescaler = timers[n].prescaler
  BY <1>1, <1>2 DEF TimerStates
<1>4. Reloads(t, n) /\ Divides(t, n)
  BY <1>1, <1>3, SameRegisters
<1>5. timers' = [timers EXCEPT ![n] = t]
  <2>1. timers' = [timers EXCEPT ![n].update = TRUE, ![n].running = timers[n].continuous]
    BY DEF Updates
  <2> QED BY <1>1, <1>2, <2>1 DEF TimersInv, TimerTypes, Made, TimerStates
<1>6. timers' = [m \in Made \union {n} |-> IF m = n THEN t ELSE timers[m]]
  BY <1>1, <1>5 DEF TimersInv, TimerTypes, Made
<1>7. UNCHANGED <<timFamily, divider, planned, serving, timersDead, spurious>>
  BY DEF Updates
<1> QED BY <1>1, <1>3, <1>4, <1>6, <1>7, OneChanges

\* The vector of a timer that is updated is entered, or is not there.
LEMMA VectorKeeps ==
  ASSUME TimersInv, NEW n, EnterVector(n)
  PROVE  TimersInv'
<1>1. /\ n \in Made /\ n \in planned /\ Requested(n) /\ serving = <<>>
      /\ UNCHANGED <<timFamily, divider, planned, timers, spurious>>
      /\ Made' = Made
  BY DEF EnterVector, TimersInv, TimerTypes, Made
<1>2. TimerTypes' /\ spurious' \subseteq Made'
  BY <1>1, SameFamily DEF TimersInv, TimerTypes
<1>3. \A m \in Made' : Reloads(timers[m], m)' /\ Divides(timers[m], m)'
  <2> SUFFICES ASSUME NEW m \in Made PROVE Reloads(timers[m], m)' /\ Divides(timers[m], m)'
    BY <1>1
  <2>1. Reloads(timers[m], m) /\ Divides(timers[m], m)
    BY DEF TimersInv
  <2> QED BY <1>1, <2>1, SameFamily DEF Reloads, Divides
<1>4. CASE Raises(n) \in handlers
  <2>1. serving' = Raises(n) /\ timersDead' = timersDead
    BY <1>4 DEF EnterVector
  <2>2. SoundTimers'
    <3> SUFFICES ASSUME NEW m \in Made, SoundTimer(m)
                 PROVE  /\ m \notin spurious
                        /\ m \in CallsIn(Raises(n)) => timers[m].update /\ timers[m].callback
      BY <1>1, <2>1, SameFamily DEF SoundTimers, CallsIn
    <3>1. m \notin spurious
      BY DEF TimersInv, SoundTimers
    <3>2. m \in CallsIn(Raises(n)) => n = m
      BY <1>1, <1>4, SoundAlone DEF TimersInv
    <3> QED BY <1>1, <3>1, <3>2 DEF Requested
  <2>3. Entered(n, serving)'
    BY <1>1, <1>4, <2>1, SameFamily DEF Entered
  <2>4. timersDead' => \E m \in planned' : ~SoundTimer(m)'
    BY <1>1, <2>1, SameFamily DEF TimersInv
  <2> QED BY <1>1, <1>2, <1>3, <2>2, <2>3, <2>4 DEF TimersInv
<1>5. CASE Raises(n) \notin handlers
  <2>1. serving' = serving
    BY <1>5 DEF EnterVector
  <2>2. SoundTimers'
    BY <1>1, <2>1, SameFamily DEF TimersInv, SoundTimers, CallsIn
  <2>3. ~SoundTimer(n)'
    BY <1>1, <1>5, SameFamily DEF SoundTimer
  <2>4. serving' = <<>>
    BY <1>1, <2>1
  <2> QED BY <1>1, <1>2, <1>3, <2>2, <2>3, <2>4 DEF TimersInv
<1> QED BY <1>4, <1>5

\* A timer that is called and is not there is not alone in its vector.
LEMMA MissingKeeps ==
  ASSUME TimersInv, CallMissing
  PROVE  TimersInv'
<1>1. /\ serving # <<>> /\ Head(serving) \notin Made
      /\ UNCHANGED <<timFamily, divider, planned, timers, spurious>>
      /\ serving' = (IF timFamily \in {"F0", "F4"} THEN Tail(serving) ELSE <<>>)
      /\ timersDead' = (timFamily \notin {"F0", "F4"})
      /\ Made' = Made
  BY DEF CallMissing, Made
<1>2. PICK m \in Made : Entered(m, serving)
  BY <1>1 DEF TimersInv
<1>3. /\ Head(serving) \in CallsIn(Raises(m)) /\ CallsIn(Tail(serving)) \subseteq CallsIn(serving)
      /\ Tail(serving) = <<>> \/ Entered(m, Tail(serving))
  BY <1>1, <1>2, StillCalled DEF TimersInv
<1>4. TimerTypes' /\ spurious' \subseteq Made'
  BY <1>1, SameFamily DEF TimersInv, TimerTypes
<1>5. \A k \in Made' : Reloads(timers[k], k)' /\ Divides(timers[k], k)'
  <2> SUFFICES ASSUME NEW k \in Made PROVE Reloads(timers[k], k)' /\ Divides(timers[k], k)'
    BY <1>1
  <2>1. Reloads(timers[k], k) /\ Divides(timers[k], k)
    BY DEF TimersInv
  <2> QED BY <1>1, <2>1, SameFamily DEF Reloads, Divides
<1>6. CallsIn(serving)' \subseteq CallsIn(serving)
  <2>1. CallsIn(serving)' = CallsIn(serving')
    BY DEF CallsIn
  <2> QED BY <1>1, <1>3, <2>1, CallsOf
<1>7. SoundTimers'
  BY <1>1, <1>6, SameFamily DEF TimersInv, SoundTimers
<1>8. serving' # <<>> => \E k \in Made' : Entered(k, serving)'
  BY <1>1, <1>2, <1>3, SameFamily DEF Entered
<1>9. timersDead' => \E k \in planned' : ~SoundTimer(k)'
  <2> SUFFICES ASSUME timFamily \notin {"F0", "F4"}, SoundTimer(m) PROVE FALSE
    BY <1>1, <1>2, SameFamily DEF TimersInv, TimerTypes
  <2>1. m \in planned /\ m \in CallsIn(Raises(m)) /\ Raises(m) \in handlers
    BY <1>2, RaisesIt DEF TimersInv, TimerTypes, Entered
  <2>2. Len(Raises(m)) = 1
    BY <2>1 DEF SoundTimer, CallsIn
  <2>3. PICK a : Raises(m) = <<a>>
    BY <2>1, <2>2, HandlersCall, CallsOf DEF TimersInv, TimerTypes
  <2>4. CallsIn(Raises(m)) = {a}
    BY <2>3, CallsOf
  <2> QED BY <1>1, <1>2, <1>3, <2>1, <2>4
<1> QED BY <1>4, <1>5, <1>7, <1>8, <1>9 DEF TimersInv

\* The flag of a timer is cleared before its callback starts it again.
LEMMA CallKeeps ==
  ASSUME TimersInv, CallTimer
  PROVE  TimersInv'
<1>1. PICK n : n = Head(serving)
  OBVIOUS
<1>2. /\ n \in Made /\ n \in planned /\ timers[n] \in TimerStates /\ serving # <<>>
      /\ serving' = Tail(serving) /\ UNCHANGED <<timFamily, divider, planned, timersDead>>
      /\ spurious' = IF timers[n].callback /\ ~timers[n].update THEN spurious \union {n} ELSE spurious
  BY <1>1 DEF CallTimer, TimersInv, TimerTypes
<1>3. PICK t \in TimerStates : timers' = [timers EXCEPT ![n] = t] /\ Reloads(t, n) /\ Divides(t, n)
  <2>1. CASE timers' = [timers EXCEPT ![n] = [timers[n] EXCEPT !.update = FALSE]]
    <3>1. PICK t : t = [timers[n] EXCEPT !.update = FALSE]
      OBVIOUS
    <3>2. /\ t \in TimerStates /\ t.asked = timers[n].asked /\ t.reload = timers[n].reload
          /\ t.prescaler = timers[n].prescaler
      BY <1>2, <3>1 DEF TimerStates
    <3> QED BY <1>2, <2>1, <3>1, <3>2, SameRegisters
  <2>2. CASE \E p \in AllPeriods : timers' = [timers EXCEPT ![n] = [Started(n, p) EXCEPT !.update = FALSE]]
    <3>1. PICK t : /\ \E p \in AllPeriods : t = [Started(n, p) EXCEPT !.update = FALSE]
                   /\ timers' = [timers EXCEPT ![n] = t]
      BY <2>2
    <3> PICK p \in AllPeriods : t = [Started(n, p) EXCEPT !.update = FALSE]
      BY <3>1
    <3>2. /\ Started(n, p) \in TimerStates /\ Reloads(Started(n, p), n)
          /\ Started(n, p).prescaler = timers[n].prescaler
      BY <1>2, StartedReloads DEF TimersInv
    <3>3. /\ t \in TimerStates /\ t.asked = Started(n, p).asked /\ t.reload = Started(n, p).reload
          /\ t.prescaler = timers[n].prescaler
      BY <3>1, <3>2 DEF TimerStates
    <3>4. Divides(timers[n], n)
      BY <1>2 DEF TimersInv
    <3> QED BY <3>1, <3>2, <3>3, <3>4 DEF Reloads, Divides
  <2> QED BY <1>1, <2>1, <2>2 DEF CallTimer
<1>4. Made' = Made /\ \A m \in Made : timers'[m] = IF m = n THEN t ELSE timers[m]
  BY <1>2, <1>3 DEF TimersInv, TimerTypes, Made
<1>5. PICK m \in Made : Entered(m, serving)
  BY <1>2 DEF TimersInv
<1>6. /\ n \in CallsIn(serving) /\ CallsIn(serving)' = CallsIn(serving) \ {n}
      /\ serving' = <<>> \/ Entered(m, serving')
  <2>1. CallsIn(serving)' = CallsIn(serving')
    BY DEF CallsIn
  <2> QED BY <1>1, <1>2, <1>5, <2>1, StillCalled DEF TimersInv
<1>7. TimerTypes'
  <2>1. timers' \in [Made' -> TimerStates]
    BY <1>3, <1>4 DEF TimersInv, TimerTypes
  <2> QED BY <1>2, <1>4, <2>1, SameFamily DEF TimersInv, TimerTypes
<1>8. spurious' \subseteq Made'
  BY <1>2, <1>4 DEF TimersInv
<1>9. SoundTimers'
  <2> SUFFICES ASSUME NEW k \in Made, SoundTimer(k)
               PROVE  /\ k \notin spurious'
                      /\ k \in CallsIn(serving)' => timers'[k].update /\ timers'[k].callback
    BY <1>2, <1>4, SameFamily DEF SoundTimers, CallsIn
  <2>1. k \notin spurious /\ (k \in CallsIn(serving) => timers[k].update /\ timers[k].callback)
    BY DEF TimersInv, SoundTimers
  <2>2. k \notin spurious'
    BY <1>2, <1>6, <2>1
  <2>3. k \in CallsIn(serving)' => k # n /\ k \in CallsIn(serving)
    BY <1>6
  <2> QED BY <1>4, <2>1, <2>2, <2>3
<1>10. \A k \in Made' : Reloads(timers[k], k)' /\ Divides(timers[k], k)'
  <2> SUFFICES ASSUME NEW k \in Made PROVE Reloads(timers[k], k)' /\ Divides(timers[k], k)'
    BY <1>4
  <2>1. PICK u : u = timers'[k]
    OBVIOUS
  <2>2. Reloads(u, k) /\ Divides(u, k)
    <3>1. Reloads(timers[k], k) /\ Divides(timers[k], k)
      BY DEF TimersInv
    <3> QED BY <1>3, <1>4, <2>1, <3>1
  <2> QED BY <1>2, <2>1, <2>2, SameFamily DEF Reloads, Divides
<1>11. serving' # <<>> => \E k \in Made' : Entered(k, serving)'
  BY <1>2, <1>4, <1>6, SameFamily DEF Entered
<1>12. timersDead' => \E k \in planned' : ~SoundTimer(k)'
  BY <1>2, SameFamily DEF TimersInv
<1> QED BY <1>7, <1>8, <1>9, <1>10, <1>11, <1>12 DEF TimersInv

\* Every step of the timers keeps their invariant.
LEMMA TimersKeep ==
  ASSUME TimersInv, [TimersNext]_timersVars
  PROVE  TimersInv'
<1>1. CASE HandlerStep
  BY <1>1, VectorKeeps, MissingKeeps, CallKeeps DEF HandlerStep
<1>2. ASSUME NEW n \in planned,
             \/ Updates(n) \/ enable(n) \/ disable(n)
             \/ \E p \in AllPeriods : start(n, p)
             \/ \E p \in AllPeriods, some \in BOOLEAN : MakeTimer(n, p, some)
             \/ \E some \in BOOLEAN : setCallback(n, some)
      PROVE  TimersInv'
  BY <1>2, UpdateKeeps, SwitchKeeps, TimerStartKeeps, MakeKeeps
<1>3. CASE UNCHANGED timersVars
  <2>1. /\ UNCHANGED <<timFamily, divider, planned, timers, serving, timersDead, spurious>>
        /\ Made' = Made /\ CallsIn(serving)' = CallsIn(serving)
    BY <1>3 DEF timersVars, Made, CallsIn
  <2>2. TimerTypes' /\ SoundTimers' /\ spurious' \subseteq Made'
    BY <2>1, SameFamily DEF TimersInv, TimerTypes, SoundTimers
  <2>3. \A k \in Made' : Reloads(timers[k], k)' /\ Divides(timers[k], k)'
    <3> SUFFICES ASSUME NEW k \in Made PROVE Reloads(timers[k], k)' /\ Divides(timers[k], k)'
      BY <2>1
    <3>1. Reloads(timers[k], k) /\ Divides(timers[k], k)
      BY DEF TimersInv
    <3> QED BY <2>1, <3>1, SameFamily DEF Reloads, Divides
  <2>4. serving' # <<>> => \E k \in Made' : Entered(k, serving)'
    BY <2>1, SameFamily DEF TimersInv, Entered
  <2>5. timersDead' => \E k \in planned' : ~SoundTimer(k)'
    BY <2>1, SameFamily DEF TimersInv
  <2> QED BY <2>2, <2>3, <2>4, <2>5 DEF TimersInv
<1> QED BY <1>1, <1>2, <1>3 DEF TimersNext

LEMMA TimersTell == TimersInv => TimersAreHonest
BY DEF TimersInv, SoundTimers, Reloads, Divides, TimersAreHonest

-----------------------------------------------------------------------------
(* What is done when it was asked for. *)

TimingInv == TimersInv /\ ExtInv /\ RateInv

LEMMA TimingStarts == Init => TimingInv
BY TimersStart, ExtStarts, RateStarts DEF Init, TimingInv

LEMMA TimingKeeps == TimingInv /\ [Next]_platformVars => TimingInv'
<1> SUFFICES ASSUME TimingInv, [Next]_platformVars PROVE TimingInv'
  OBVIOUS
<1>1. TimersInv'
  BY PartsApart, TimersKeep DEF TimingInv
<1>2. ExtInv'
  BY PartsApart, ExtKeeps DEF TimingInv
<1>3. RateInv'
  BY PartsApart, RateKeeps DEF TimingInv
<1> QED BY <1>1, <1>2, <1>3 DEF TimingInv

\* In every state: a timer with a vector of its own calls back after its own updates
\* only, with the period and the prescaler that were asked for, and no call of it stops
\* the program; an edge that no callback has answered has its flag or its call still, or
\* was overrun in a vector that several pins share, and none is answered twice; where its
\* half period fits, the I2C bus is not slower than was wanted and faster by less than a
\* tick in each phase, with delays that are as wanted, rounded down, or the longest there
\* are, and the least prescaler that does it.
THEOREM TimingHolds == Spec => []TimingIsRight
<1>1. TimingInv => TimingIsRight
  BY TimersTell, ExtTells, RateTells DEF TimingInv, TimingIsRight
<1> QED BY <1>1, TimingStarts, TimingKeeps, PTL DEF Spec
=============================================================================
