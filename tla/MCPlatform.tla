----------------------------- MODULE MCPlatform ------------------------------
(***************************************************************************)
(* The drivers of the platform, and those parts of a node that share no    *)
(* state with the rest of it: each behaviour is one of a single part, the  *)
(* others rest in their initial state.                                     *)
(***************************************************************************)
EXTENDS
  Usart, BxCan, CdcAcm, WorkQueue, LocalTime, SpiDma, I2cPolling, ConfigStorage, QspiFlash,
  SerialParser, CanAllocation, CanRouting, NodeStatus, DeviceHashes, Timers, ExtInterrupts,
  I2cTiming, AdcScan, LinkedList

VARIABLE part

SameBoard == [d \in Devices |-> "board"]

\* Two types of entries, of two words and of one, in one order or in the other.
TwoAndOne    == <<2, 1>>
WordsInOrder == <<1, 2>>
TwoLayouts   == {WordsInOrder, <<2, 1>>}
TwoMessages  == {<<2>>, <<0, 2>>}

\* Timers with vectors of their own and with shared ones.
FourPlans == {{1}, {2}, {14}, {1, 10}}

\* Names of a character, of a block, of a bit more and of two blocks, so that one runs on
\* into another, and identifiers of less than a block and of more.
Ones(n) == [i \in 1..n |-> 1]
Scalar(n, t, s) == [name |-> Ones(n), type |-> t, dimension |-> 1, scale |-> s]
FieldLists ==
  {<<>>, <<Scalar(1, 0, 0)>>, <<Scalar(1, 1, 0)>>, <<Scalar(1, 1, 1)>>, <<Scalar(6, 1, 0)>>,
   <<Scalar(7, 1, 0)>>, <<Scalar(1, 1, 0), Scalar(7, 1, 0)>>, <<Scalar(7, 1, 0), Scalar(1, 1, 0)>>}
SomeDevices ==
  [name : {Ones(1), Ones(6), Ones(7), Ones(12)}, fields : FieldLists, uid : {Ones(4), Ones(7)}]

\* What rests while a part runs.
serialVars == <<usartVars, canVars, cdcVars>>
threadVars == <<workVars, timeVars>>
busVars    == <<spiVars, pollVars>>
flashVars  == <<storageVars, qspiVars>>
wireVars   == <<parserVars, allocationVars>>
clockVars  == <<timersVars, timingVars>>
pinVars    == <<extVars, adcVars>>
nodeVars   == <<routingVars, statusVars, hashVars, listVars>>
boardVars  == <<clockVars, pinVars, nodeVars>>

driverVars  == <<serialVars, threadVars, busVars, flashVars, wireVars>>
UsartRest   == <<part, canVars, cdcVars, threadVars, busVars, flashVars, wireVars, boardVars>>
CanRest     == <<part, usartVars, cdcVars, threadVars, busVars, flashVars, wireVars, boardVars>>
CdcRest     == <<part, usartVars, canVars, threadVars, busVars, flashVars, wireVars, boardVars>>
WorkRest    == <<part, timeVars, serialVars, busVars, flashVars, wireVars, boardVars>>
TimeRest    == <<part, workVars, serialVars, busVars, flashVars, wireVars, boardVars>>
SpiRest     == <<part, pollVars, serialVars, threadVars, flashVars, wireVars, boardVars>>
PollRest    == <<part, spiVars, serialVars, threadVars, flashVars, wireVars, boardVars>>
StorageRest == <<part, qspiVars, serialVars, threadVars, busVars, wireVars, boardVars>>
QspiRest    == <<part, storageVars, serialVars, threadVars, busVars, wireVars, boardVars>>
ParserRest  == <<part, allocationVars, serialVars, threadVars, busVars, flashVars, boardVars>>
AllocRest   == <<part, parserVars, serialVars, threadVars, busVars, flashVars, boardVars>>
TimersRest  == <<part, timingVars, pinVars, nodeVars, driverVars>>
TimingRest  == <<part, timersVars, pinVars, nodeVars, driverVars>>
ExtRest     == <<part, adcVars, clockVars, nodeVars, driverVars>>
AdcRest     == <<part, extVars, clockVars, nodeVars, driverVars>>
RoutingRest == <<part, statusVars, hashVars, listVars, clockVars, pinVars, driverVars>>
StatusRest  == <<part, routingVars, hashVars, listVars, clockVars, pinVars, driverVars>>
HashRest    == <<part, routingVars, statusVars, listVars, clockVars, pinVars, driverVars>>
ListRest    == <<part, routingVars, statusVars, hashVars, clockVars, pinVars, driverVars>>
platformVars == <<part, driverVars, boardVars>>

FirstDevices == [b \in TwoBoards |-> CHOOSE d \in SomeDevices : TRUE]

\* A part that rests is always in the same state.
Init ==
  /\ part \in {"usart", "can", "cdc", "work", "time", "spi", "poll", "storage", "qspi", "framing",
              "alloc", "timers", "timing", "ext", "adc", "routing", "status", "hashes", "list"}
  /\ (part # "usart" => version = "V1") /\ UsartInit
  /\ (part # "work" => loop = "sleeping") /\ WorkInit
  /\ (part # "spi" => spi = [family |-> "F0", rx |-> 2, tx |-> 3]) /\ SpiInit
  /\ (part # "storage" => family = "F0" /\ layout = WordsInOrder /\ writable = TRUE) /\ StorageInit
  /\ BxCanInit /\ CdcInit /\ TimeInit /\ PollInit /\ QspiInit /\ ParserInit /\ AllocationInit
  /\ (part # "timers" => timFamily = "F0" /\ divider = <<1, 2>> /\ planned = {1}) /\ TimersInit
  /\ (part # "timing" => wanted = [apb |-> 8000, rate |-> 100, setup |-> 250, hold |-> 250])
  /\ TimingInit
  /\ (part # "ext" => extFamily = "F0") /\ ExtInit
  /\ (part # "adc" => adc = AdcBus("none")) /\ AdcInit
  /\ (part # "routing" => board = [kind |-> "device", slaves |-> {}, address |-> 0]) /\ RoutingInit
  /\ (part # "hashes" => how = "uid" /\ device = FirstDevices) /\ HashInit
  /\ StatusInit /\ ListInit

UsartPart   == part = "usart" /\ UsartNext /\ UNCHANGED UsartRest
CanPart     == part = "can" /\ BxCanNext /\ UNCHANGED CanRest
CdcPart     == part = "cdc" /\ CdcNext /\ UNCHANGED CdcRest
WorkPart    == part = "work" /\ WorkNext /\ UNCHANGED WorkRest
TimePart    == part = "time" /\ TimeNext /\ UNCHANGED TimeRest
SpiPart     == part = "spi" /\ SpiNext /\ UNCHANGED SpiRest
PollPart    == part = "poll" /\ PollNext /\ UNCHANGED PollRest
StoragePart == part = "storage" /\ StorageNext /\ UNCHANGED StorageRest
QspiPart    == part = "qspi" /\ QspiNext /\ UNCHANGED QspiRest
ParserPart  == part = "framing" /\ ParserNext /\ UNCHANGED ParserRest
AllocPart   == part = "alloc" /\ AllocationNext /\ UNCHANGED AllocRest
TimersPart  == part = "timers" /\ TimersNext /\ UNCHANGED TimersRest
TimingPart  == part = "timing" /\ TimingNext /\ UNCHANGED TimingRest
ExtPart     == part = "ext" /\ ExtNext /\ UNCHANGED ExtRest
AdcPart     == part = "adc" /\ AdcNext /\ UNCHANGED AdcRest
RoutingPart == part = "routing" /\ RoutingNext /\ UNCHANGED RoutingRest
StatusPart  == part = "status" /\ StatusNext /\ UNCHANGED StatusRest
HashPart    == part = "hashes" /\ HashNext /\ UNCHANGED HashRest
ListPart    == part = "list" /\ ListNext /\ UNCHANGED ListRest

Next ==
  \/ UsartPart \/ CanPart \/ CdcPart \/ WorkPart \/ TimePart \/ SpiPart \/ PollPart
  \/ StoragePart \/ QspiPart \/ ParserPart \/ AllocPart
  \/ TimersPart \/ TimingPart \/ ExtPart \/ AdcPart \/ RoutingPart \/ StatusPart \/ HashPart
  \/ ListPart

\* A part runs for ever or rests for ever, so that a disjunction of actions of
\* different parts is as fair as each of them.
Handlers ==
  \/ part = "usart" /\ UsartHandler /\ UNCHANGED UsartRest
  \/ part = "can" /\ txHandler /\ UNCHANGED CanRest
  \/ part = "cdc" /\ PacketTaken /\ UNCHANGED CdcRest
  \/ part = "work" /\ add /\ UNCHANGED WorkRest
  \/ part = "spi" /\ (\E k \in Streams : DmaHandler(k) \/ SpiHandler(k)) /\ UNCHANGED SpiRest
  \/ part = "alloc" /\ (\E b \in Boards : DeviceReceive(b)) /\ UNCHANGED AllocRest
  \/ part = "timers" /\ HandlerStep /\ UNCHANGED TimersRest
  \/ part = "ext" /\ ExtHandler /\ UNCHANGED ExtRest

Hardware ==
  \/ part = "usart" /\ (LineIdle \/ ByteShifts) /\ UNCHANGED UsartRest
  \/ part = "can" /\ BusCarries /\ UNCHANGED CanRest
  \/ part = "cdc" /\ HostTakes /\ UNCHANGED CdcRest
  \/ part = "spi" /\ (\E k \in Streams : Moves(k)) /\ UNCHANGED SpiRest
  \/ part = "alloc" /\ HubReceive /\ UNCHANGED AllocRest

\* What only time brings about, however busy the parts are.
Time ==
  \/ part = "usart" /\ LineCarries /\ UNCHANGED UsartRest
  \/ part = "alloc" /\ Tick /\ UNCHANGED AllocRest

Threads ==
  \/ part = "work" /\ (RunIdle \/ RunSpins \/ RunTask) /\ UNCHANGED WorkRest
  \/ part = "spi" /\ (ExchangeGoesOn \/ ExchangeEnds) /\ UNCHANGED SpiRest
  \/ part = "alloc" /\ (\E d \in Devices : RequestAllocation(d)) /\ UNCHANGED AllocRest

Spec ==
  /\ Init /\ [][Next]_platformVars
  /\ WF_platformVars(Handlers) /\ WF_platformVars(Hardware) /\ SF_platformVars(Time)
  /\ WF_platformVars(Threads)

-----------------------------------------------------------------------------
\* What was put on the lines of the part that runs, and what came out of them.
PutOn(l)   == CASE part = "usart" -> IF l = "rx" THEN said ELSE accepted
                [] part = "can"   -> IF l = "rx" THEN framesSaid ELSE framesTaken
                [] part = "cdc"   -> IF l = "rx" THEN hostSaid ELSE cdcTaken
                [] OTHER          -> 0
CameOut(l) == CASE part = "usart" -> IF l = "rx" THEN heard ELSE sent
                [] part = "can"   -> IF l = "rx" THEN framesHeard ELSE framesSent
                [] part = "cdc"   -> IF l = "rx" THEN cdcHeard ELSE cdcSent
                [] OTHER          -> 0

MaxItems  == Max({MaxRxBytes, MaxTxBytes, MaxRxFrames, MaxTxFrames, MaxHostBytes, MaxCdcBytes})
Item(n)   == <<n>>
Numbered(m, n) == [i \in 1..(n - m) |-> Item(m + i)]
Bursts    == {Numbered(m, n) : m, n \in 0..MaxItems}
Lines     == {"rx", "tx"}

Carried == INSTANCE LossyFifo WITH
  Line    <- Lines,
  Burst   <- Bursts,
  pending <- [l \in Lines |-> Numbered(CameOut(l), PutOn(l))],
  got     <- [l \in Lines |-> IF CameOut(l) = 0 THEN <<>> ELSE Item(CameOut(l))]

\* Each direction of the drivers of USART, CAN and USB implements a line that may
\* lose bytes or frames, where a queue is full or the peripheral starts again, but
\* neither repeats nor reorders them, in whatever order interrupts come.
DriversImplementLossyFifo == Carried!Spec

\* In the end nothing waits: what was taken to be sent is sent, what was stored is
\* announced, callers get away, tasks are run, devices have their addresses, and the
\* updates of timers and the edges of pins are called back.
NothingWaits ==
  /\ UsartDrained /\ CanDrained /\ CdcDrained /\ SpiEnded /\ WorkIsDone
  /\ part = "alloc" => EveryoneIsServed
  /\ TimersFired /\ EdgesServed
NothingWaitsForEver == []<>NothingWaits

\* A transfer that is done moved its bytes, and a callback is shown what was converted.
DoneMeansMoved == PolledOkMeansMoved /\ SpiDoneMeansMoved /\ QspiDoneMeansMoved /\ ScansAreShown

\* Timers, pins and the clock of the bus do what they were asked, when they were asked.
TimingIsRight == TimersAreHonest /\ NoEdgeIsLost /\ BusKeepsItsRate

\* What nodes learn of each other is so: who a transfer is for, what a status says, and
\* whether two devices are of one kind.
NodesTellTheTruth == RequestsAreRouted /\ StatusIsTold /\ HashesDiffer
=============================================================================
