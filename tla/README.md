# Verification of the I2C test firmware and its device library

TLA+ models of the firmware in `Sources/`, of the hardware drivers in
`DroneDevicePlatform/` and of the device library in `DroneDevice/`, checked by
TLC on small instances and proved about with TLAPS for every value of the
constants. Paths below are relative to the repository.

## 1. The system and its parts

The firmware is a single-processor, bare-metal program: a main loop (or a work
queue run by it) that interrupt handlers preempt. Nothing is preempted by the
main loop; handlers of the modelled drivers do not nest. The device library is
built for such a target and for hosts with threads (its CAN proxy takes a
mutex).

| Part | State it keeps | Operations | What is hard | What makes it correct |
|---|---|---|---|---|
| `Sources/Application.hpp` | `result`, `response` | loop: clear, exchange, compare or reset | compares by time, not on the callback | a matching response came from this exchange; an occupied bus is freed |
| `I2cV2Irq.hpp` | pointers and 8-bit counters of both directions | `exchange`, `reset`, `handler` | one read of the status per interrupt, automatic STOP, errors between bytes | no byte outside the buffers; one callback, with the true outcome |
| `I2cV1/V2/V3.hpp` (polling) | none between calls | `exchange`, `reset` | bounded waits that give up at a dozen places | bus left free, right acknowledge of the last byte |
| `Queue.hpp` | array, two indices, a count | single and buffered push and pop, clear | wrap of the indices | a bounded FIFO |
| `UsartV1/V2.hpp`, `CanV1.hpp`, `CdcAcm.cpp`, `SpiDma.hpp` | receive and transmit queues, hardware flags | `read`, `write`, handlers | handler against caller; restart of an idle transmitter | nothing lost or repeated, the transmitter never stalls |
| `WorkQueue.hpp`, `LocalTime` | task queue; seconds and microseconds | `add`, `run`; tick, read | sleep against wake-up; read against tick | every task runs; time does not run back |
| `SerialParser.hpp` | state, buffer, position | `create`, `update` | damaged and truncated streams | a whole packet after garbage is found |
| `SerialHandler.hpp`, `RequestPool.hpp` | pool of descriptors | packets, callbacks | late callbacks, descriptors shared by a broadcast | one owner per descriptor, one answer per request |
| `StaticDeviceHub.hpp`, `Address.hpp` | addresses of the elements | dispatch by address, walk of all | addresses that change, the reserved address | the first match or all; nobody's token is lost |
| `InternalDevice/*` | fields, files | read, write, information | conversions and limits; erase and chunks of a file | exactly one callback per call |
| `ConfigStorage.hpp`, `MemoryFile.hpp`, `Flash.hpp`, `Reloader.hpp` | flash sectors | load, store, erase, write | power loss between two steps | what is loaded is one configuration that was stored, whole, or none |
| `CanProxy.hpp`, `List.hpp` | state of initialisation, request list and pool | requests, responses, timeouts, retries | two threads, late responses, retries | every observer called once |
| `CanProxyHub.hpp`, `InternalCanDevice.hpp` | allocation sequences, table of nodes | three-stage address allocation, node status, purge | loss, repetition, several devices | no address twice, every device gets one |
| `libcanard/canard.c` | transmission queue, reception states, pool of blocks | frames to transfers and back, clean-up | loss, interleaving, an empty pool | whole transfers in order; no block lost |
| `Timer.hpp`, `ExtInterrupt`, `Dma`, `AdcBus` | table of handlers, flags of the hardware | start, enable, vectors | vectors and flags shared by several | each event called back once, to its owner |
| `UavCanHandler.hpp`, `PlazCanSlave.hpp`, `ParamSlave.hpp` | transfer queues, descriptors | packets, callbacks, wake-ups | bounded queues | nothing silently lost |

They meet in three ways. Calls go down: application to driver, handler to hub to
device. Callbacks come back, inside the call (an internal device) or later (a
CAN proxy), with the descriptor of the request as their token. Interrupts share
registers and queues with the code they preempt, which masks them where it
touches both.

The complete list, with what is left out and why, is in `PROJECT.json`
("components"); the places where the code is hard to test are there too
("hazards"), each with the properties that watch it.

## 2. Plan

Order: the firmware's own purpose first (I2C by interrupts), then what
everything rests on (the queue), then the request life that all slaves share,
then the distributed part, then the remaining drivers.

1. `I2cIrq`, `RingQueue`/`Fifo`, `SerialHub`, `CanProxy`: done, proved.
2. The CAN node: `CanTransfer`, `CanAllocation`, `CanSlave`, `FileUpload`: done,
   proved; `CanRouting`, `NodeStatus`, `DeviceHashes`: done, proved; `ScalarCodec`:
   done, model-checked.
3. The drivers against their callers and their hardware: `Usart`, `BxCan`,
   `CdcAcm`, `SpiDma`, `I2cPolling`, `LocalTime`, `AdcScan`, `I2cTiming`, `Timers`,
   `ExtInterrupts`: done, proved; `WorkQueue`: done, model-checked (its property is
   liveness).
4. What outlasts a power cut or a cut stream: `ConfigStorage`, `QspiFlash`: done,
   proved; `SerialParser`: done, proved.
5. Abstract specifications: `Fifo` (ring buffer), `LossyFifo` (transfers of the
   CAN bus; each direction of the drivers of USART, CAN and USB), `Listing` (the
   list of requests): done, and proved to be implemented.
6. Every safety property that the provers can reach is proved; section 6 ends with
   those that stay with the checker.

## 3. What is modelled

### I2cIrq: the interrupt driven I2C master, its bus and its client

Three actors share the registers.

* The application loop (`pc`): `Fill`, `Exchange`, `Compare`, `Reset` are the
  statements of `Application::run`. The sizes of an exchange are left open, so
  that `send`, `receive`, `exchange` and an address probe are all covered by
  `Exchange(tx, rx)`. The response is compared by stamps: a cell holds the number
  of the exchange its byte came from, 0 after `fill(0)`; a device that answers
  gives the expected bytes, so a comparison succeeds when all cells are filled.
* The handler: `IrqEnter` is its one read of the status register, kept in
  `status`; `Handler` is the rest of the body, one disjunct per branch
  (`HandleError` to `HandleStop`) followed by `Callback` for STOPF. The bus may
  act between the two, which is how a stale copy of the status is met.
* The peripheral and the device (`phase`, `flags`, `nbytes`, ...): external, from
  how the driver relies on them. A byte is handed over only when the register
  it passes through is free, TXIS follows the acknowledge of the previous byte,
  NACK and AUTOEND end in a STOP, bus errors and lost arbitration do not.

The loop steps only while no interrupt is pending (`Main`), because the handler
preempts it; the few instructions of `exchange()` between its test of BUSY and
the START are one step for the same reason.

History variables: `calls`, `verdict` (the callback of the current exchange),
`fault` (what went wrong on the bus), `taken`, `given` (bytes the device saw),
`overlap` (a transfer was under way when the response was cleared).

### Fifo, RingQueue: the queue under every driver and pool

`RingQueue` is `Queue.hpp` with its array and indices, one action per call.
`Fifo` is what it promises. `ImplementsFifo` is the refinement: the abstract
`items` are read off the array from `head`. The queue is what the pool of the
serial slave is made of; one run is about both, each by itself.

### SerialHub: serial slave, request pool, hub

The pool is the queue of free descriptors; a descriptor is `destination`, `refs`
and `number`. A packet takes one (`Allocated`) and then
`Ignore` (nothing to do, or no such component: back at once), `Answer` (the
device calls back inside the call), `Queue` (the device keeps the token in
`held`) or `AskInfo`. `Complete` is a late callback. The walk of the hub for
GET_DEVICE_INFO is a step per element (`Visit`): it marks the token with the
element's address and index, the callback answers and may return it. Packets
and callbacks of a handler run one after another (they are tasks of one work
queue), so nothing else moves during a walk. The six commands on fields and
files treat the descriptor alike and are one operation; their payloads are left
out. `owed` counts, header by header, the data requests that were taken and not
concluded.

### CanProxy: the master's image of a remote device

Clients call the proxy, a receiver hands it responses, a timer calls
`onTimeoutOccurred`. A mutex guards the pool and the list but is given back
around every callback and between the lookup of a descriptor and its release, so
a step of the model is what runs between two locks:

| Actor | Steps |
|---|---|
| client | `Call` (the checks before the mutex), `Enqueue` (pool, list, transmission, or QUEUE_ERROR) |
| receiver | `Receive` (`findRequestDescriptor`), `Process` (the `process*Response` of that service, with the callback), `Release` (list and pool) |
| timer | `TimeoutStart`, then `Pop`, `Tell`, `Free` for each request past its deadline, then `TimeoutEnd` or `Retry` |
| assignment | `AssignStart`, the same purge of all requests, `AssignPurged`, `Reset` |

`Threads` says whether one thread receives and purges in turn (`MayReceive`,
`MayPurge`) or each has its own. `pool` and `list` hold the numbers of
descriptors; `late` are the pending ones past their deadline, which pass in the
order of the list because they are taken under its mutex and the timeout is the
same for all. `air` holds the responses that may still come, with the request they answer;
a lost one simply never does. Any of them may arrive in any order, also after its
request was purged. `life` counts the devices the proxy stood for; `calls`,
`owed` are history.

Simplifications. Reads and writes of a field are one service, and the three file
operations another: their branches differ in the payload only. A client makes one
call at a time and any number of them may be pending. An assignment may fall
between the check of a call and the mutex: the call then goes on with another
device and with fields that the image has forgotten, or uses a null master
(`NullMaster`, after which `crashed` stops the model, as nothing is defined of
the program then). Whom that befell is kept in `overtaken`. A transfer
number is 5 bits, and no run uses all 32. Left out are node status and composite
messages, which touch no request, `restart()`, and the optional features.

`QueueLemmas` holds what the proofs share: queues without repetitions (the two
pools, the request list), queues of ascending numbers (what waits in a driver),
putting into a sequence and taking out of it, and induction and recursion over
numbers, stated for a set instead of a predicate.

### Listing, LinkedList: the list of requests

`LinkedList` is `List.hpp` with its arena, `next` pointers and stack of free
nodes; `Listing` is a bounded list of values. The abstract list is read off the
chain from `first`. What is left of a sequence without some values (`Others`) is a
function of the position instead of `SelectSeq`, which is recursive.

### CanTransfer, LossyFifo, ScalarCodec: transfers on the bus

`CanTransfer` is libcanard as `UavCanHandler` drives it. `Transmit` cuts a
transfer into frames, one block of the pool each, put into the queue by priority;
it may find the pool empty in the middle and leaves a headless beginning in the
queue. `enqueuePackets` hands frames to the driver, `ReceiveFrame` is
`canardHandleRxFrame` with all its reasons to drop a frame (toggle, transfer
number, time, no block, checksum), `CallbackReturns` the end of the reception
callback, during which the mutex is not held. The timer thread reads the clock
before it takes the mutex (`ReadClock`, `CleanupStaleTransfers`), and the age of
a state is the unsigned difference to that time (`elapsed`, modulo `ClockSpan`).
What is written into a state that was freed under its callback reaches no frame of
the model: own frames have no content. `OwnFrame` takes a block of the same pool for a frame that goes out. For
each kind of transfer, `LossyFifo` says: what arrives was sent, whole, in order,
at most once. `ScalarCodec` has the copying of bits between payload and numbers
across the three places a payload is in; the sizes of head, blocks and tail keep
their ratio (1, 3, 2 and 6 for 5, 7, 6 and 28 bytes) so that all boundaries are
met in a short payload.

### CanAllocation, CanRouting, NodeStatus: addresses and who is there

`CanAllocation` composes `InternalCanDevice` (a board may carry several devices,
one after another) and `CanProxyHub` over a bus that loses and repeats frames: the
three parts of a unique id, the echoes of the hub, the wait of a random interval,
the table of addresses, images attached and detached, restarts of devices, and the
three kinds of purge. A unique id is a triple of pieces, named for the device they
come from, so that mixed ids show. `CanRouting` has who is asked for, and given, a
transfer, while addresses change between its first and its last frame.
`NodeStatus` has the flags of a device between `setFlags()` and the message: the
test of `setFlags()` and its stores are steps of their own, in any order, as are
making a status and noting that it was sent, on another thread. It has also
the image that takes it for lost after `OfflineTimeout`.

### CanSlave, FileUpload, DeviceHashes: a device as the bus sees it

`CanSlave` is `ParamSlave` and `PlazCanSlave` with their descriptors and one field
of each kind (volatile, extended, functor, stored in flash, blank; read-only,
unreadable) and type (unsigned, signed, real, double, boolean): lookup, limits,
conversion to and from the bus, the type an answer is given in, errors. Values
are patterns of bits; a double is the real nearest to it and a rest that a real
does not keep. `InternalDevice` answers
in the call, the model lets the answer come later, for every device that may be
behind the interface. `FileUpload` is `MemoryFile` with a client that repeats what
was lost; the client is external. `DeviceHashes` has what is fed to the checksum
by which device types and devices are told apart.

### Usart, BxCan, CdcAcm, SpiDma: drivers with queues and interrupts

Bytes and frames are numbered, so that what came out can be compared with what
was put in. `Usart` has both generations: the handler enters (reads the status),
moves bytes and leaves, the thread's `read()` tests the queue with the interrupt
enabled, and version 1's line break reads and writes `cr1` in two steps. `BxCan`
has mailboxes that fail, are given up when the controller is error passive, and
show as done while a thread masks the interrupt. `CdcAcm` has endpoint callbacks
against polled calls and a host that configures the device again. `SpiDma` has
two streams whose completions come in any order, exchanges chained in the
callback and blocking ones, and, for each family of processor and each bus, how
the vector reads and clears flags shared with other streams.

### I2cPolling, I2cTiming

`I2cPolling` has each wait of `exchange()` end by its flag or by giving up, for
`I2cV1` and for `I2cV2`/`I2cV3` (the same but for the timing), against a slave that
may refuse at any byte. `I2cTiming` is the calculation of the timing register on
unsigned 32-bit integers, with the wrap of its subtractions, checked against what
a bus of that rate needs.

### WorkQueue, LocalTime, Timers, ExtInterrupts, AdcScan

The loop of `WorkQueue` tests, sleeps and takes tasks with interrupts masked
where the code masks them; tasks are added by handlers at any moment between.
`LocalTime` reads seconds, counter and pending flag in steps around the reload
interrupt. `Timers` and `ExtInterrupts` have the vectors of each family, which
serve several instances or pins. `AdcScan` is a buffer filled in a circle by DMA
and shown half by half.

### ConfigStorage, QspiFlash, SerialParser

`ConfigStorage` is load, store and write-through of fields on a flash page that is
erased at once and then written word by word; power may fail between any two
words, a cell may be bad. `QspiFlash` is `write` and `erase`, page by page and
block by block, on a memory that may stop answering. `SerialParser` gets streams made of packets that are
cut, joined and mixed with noise.

## 4. Runs

| Run | Bounds | Shows |
|---|---|---|
| `i2c_irq` | up to 2 bytes each way, 3 stamps | see below |
| `i2c_nack_verdict` | same | violation: `SuccessMeansNoError` |
| `i2c_bus_reset` | same | violation: `StuckBusRecovers` |
| `serial_hub` | 2 descriptors, 3 elements, 2 addresses, 2 numbers; the queue: capacity 3, buffers to 4, two values | see below |
| `serial_deaf` | same | violation: `NeverDeaf` |
| `can_proxy` | 2 clients with a call each, 2 descriptors, 1 retry, room for 2 fields of a device with 1, no assignment | see below |
| `can_proxy_lives` | 1 client with 2 calls, 1 descriptor, 1 retry, 1 field, the device taken away once | see below |
| `can_proxy_race` | 1 client, 2 descriptors, 2 threads | violation: `PoolNeverOverflows` |
| `can_allocation` | 2 boards with a device each, 2 entries, 3 requests, 1 fault | see below |
| `can_node` | `CanTransfer`: 2 kinds, transfers of 1 or 3 frames, 5 of them, 3 blocks on each side, 1 loss, 1 tick; `CanSlave`: 2 requests, pools of 1, fields of 1 bit in 2; `FileUpload`: file of 3, chunks of 1 and 2, 8 requests, 1 restart; `ScalarCodec`: all offsets of numbers of 1 to 16 bits | see below |
| `can_stale` | `CanTransfer` as in `can_node` | violation: `StateOutlivesCallback` |
| `platform` | in `MCPlatform.cfg`; each part alone, queues of 1 to 3, a few items in each direction, one fault of each kind | see below |

Why the bounds are enough. A capacity of 3 has a wrap in the middle, at the
start and at the end of a buffered call, and a buffer of 4 is longer than the
queue. Two bytes give a first, a last and (with 0 and 1) an only and a missing
byte in each direction; three stamps tell this exchange, the previous one and
"cleared" apart while old transfers overlap. With two descriptors one late
callback is overtaken by a packet and the pool runs dry; of three elements the
first, the middle or the last may lack an address, or share one. What the bounds
leave open for the safety properties, the theorems close. Two clients and the
proxy's own requests compete for two descriptors, so that each of them finds the
pool empty in some state; one retry may be used up before or after the first
field; one device taken away gives responses meant for an earlier one.
Two devices suffice for two unique ids to mix; two images for one that leaks to
leave a device without; one fault at any frame for each loss and each repetition.
Three blocks are what one long transfer takes, so that a second one finds none;
five transfers pass the wrap of the transfer numbers (3). Every queue of a driver
is smaller than what is written to it.

`can_node` and `platform` join parts that share no state: the variable `part` says
which of them a behaviour is about, and the others rest in one initial state.
One run answers for all of them because its parts ask the same questions, and
because a property that names several parts (`DoneMeansMoved`, `NothingWaits`)
is the conjunction of one statement per part.

`i2c_irq` checks
* `NoOverrun`: the handler moves a byte only while the client's buffer has room;
* `AtMostOneCallback`: one exchange, at most one callback;
* `OkMeansMoved`: a success was earned, up to the exception the finding is about;
* `FreshResult`: a comparison that succeeds saw this exchange's bytes only,
  provided no transfer was under way while the response was cleared (the loop
  goes by time, so that a stretched transfer may overlap: the model contains it);
* `CleanExchangeCompletes`: an exchange that gets the bus and meets no error ends
  in a callback of success;
* `NoInterruptStorm`: the handler always acknowledges its cause.

`serial_hub` checks
* `SingleOwner`: no descriptor is free twice, or free while a device holds it,
  although a broadcast goes on using its token after the first element's
  callback freed it;
* `AnswersMatch`: held descriptors and unanswered requests agree header by header;
* `BroadcastComplete`: every addressed element answers a broadcast once, in order;
* `OnlyInfoLoses`: only the walk for device information can lose a descriptor;
* `IndicesAgree`: the two indices and the count of the ring buffer agree;
* `ImplementsFifo`: each call of it is one of a bounded FIFO.

`can_proxy` checks
* `Ownership`: every descriptor is free, pending or in the hand of the timer, and
  once only, although a callback runs between taking it off and giving it back;
* `Accounting`: a client has exactly as many callbacks to come as descriptors
  wait in its name;
* `ReadyIsComplete`: an image that was finished with retries left has every
  field, although requests are repeated and answered twice or late.

`can_proxy_lives` checks
* `Accounting` once more, for every client that no assignment overtook between
  its check and the mutex: an overtaken call may be answered for a field the image
  has forgotten, and is then passed over in silence;
* `OwnLifeAnswers`: the descriptor that a response is matched with is of the very
  request it answers, or the response was meant for an earlier device (`Reset`
  starts the numbers again from 0);
* `CallsEnd`: a pending call ends, or the proxy is taken away, now or while the call
  was made;
* `InitialisationEnds`: so does the initialisation, with every response lost and
  with no descriptor free.

`can_allocation` checks
* `UniqueAddresses`: no address belongs to two devices, or to one that has it and
  one that is being told it, as long as the hub has an image free for each;
* `HoldersAreListed`: an address in use is the address of an image;
* `ObserverIsTold`: what the observer of the hub takes for attached has a complete
  image, by whichever of the three purges images go.

Its type invariant, `AllocationTypeOK`, is proved (`AllocationTypes`), as that of
`CanProxy` is, and no run carries it.

`can_node` checks
* `ImplementsLossyFifo`: of each kind of transfer, what arrives is whole, in order
  and once, however frames interleave, are lost, or come after their time;
* `LossIsLocal`: a lost frame costs at most its transfer and the next one;
* `PoolIsWhole`: no block of either arena is lost or freed twice;
* `SlotsMatchCalls`: a request is answered once, and its descriptor is free then;
* `AnswersAreHonest`: an answer tells a value that the field had between request
  and answer. For the parameter service this is so of answers in the field's own
  type, of fields that were not negative and of values asked for that fit the
  field; the services for fields have no exception;
* `UploadIsWhole`: who was told that the upload is complete finds it there;
* `ScalarsSurvive`: a number is read as it was written, wherever the frames have
  put its bytes, and writing one touches no other bit.

`platform` checks
* `DriversImplementLossyFifo`: each direction of USART, CAN and USB drops bytes or
  frames at a full queue or a restart, but neither repeats nor reorders them;
* `NothingWaitsForEver`: time and again nothing waits. The environment of each
  part comes to rest (it has so many bytes, tasks, edges, errors to give), so
  "time and again" means: once it rests, all that was accepted is sent, all that
  was stored is announced, callers of blocking calls have returned, tasks were
  run, devices have their addresses, timers and edges were called back;
* `DoneMeansMoved`: an exchange of polled I2C or of SPI, or a write or erase of the
  QSPI flash, that reports its end moved its bytes, and the callback of the ADC is
  shown every conversion once;
* `StorageSurvivesCrash`: what `load()` would take is of one `store()`, never torn
  or mixed, and complete once a `store()` succeeded. A power cut between the erase
  and the first word leaves nothing to load, neither the old nor the new;
* `FramesSurviveCuts`: the messages are those of the stream, however it was cut;
* `TimingIsRight`: timers call back after the periods asked for, no edge of a pin
  is lost but where several share a vector, and the I2C clock keeps its rate;
* `NodesTellTheTruth`: transfers go to those they are meant for, flags are told
  unless their setting crossed the making or sending of a status, a
  device is not taken for lost too early, and hashes differ where devices do (but
  for names that run on, see below);
* `TimeIsMonotone`: the clock as a thread reads it never goes back;
* `ListIsAList`: the list of requests implements the abstract list.

### Findings

* `i2c_nack_verdict`: a refusal of the last byte sent, or of the address in a
  probe, is reported as success. NACKF is cleared in one interrupt, the callback
  is made in a later one (STOPF) and looks at that one's flags.
* `i2c_bus_reset`: `reset()` tests PE the wrong way round and never disables a
  running peripheral. The counterexample is a bus that stays occupied while the
  loop resets it for ever.
* `serial_deaf`: a GET_DEVICE_INFO to an address other than the first element's
  finds no element (the walk goes on only for the reserved address), no callback
  runs and the descriptor is lost; eight of them and the handler drops
  everything. So does a broadcast while the first element has no address: the
  elements behind it leave a count that `free()` takes for references.

* `can_proxy_race`: with a thread that receives and one that purges, both may have
  the same descriptor in hand. `processServiceResponse` found it and gave the
  mutex back, the purge takes it off the list, calls its observer and frees it,
  and then the receiver calls the observer again and frees it again. The pool
  is then given more than it lent out.

* `can_stale`: the timer thread reads the clock before it takes the mutex
  (`UavCanHandler.hpp:169`, `:318`), and the clean-up subtracts unsigned
  (`canard.c:512`). A frame that comes in between stamps its state later than that
  time, the difference wraps, and the state is freed as stale: under the
  callback of its transfer, which reads the head of the payload from that block
  and is followed by writes to it, or with the beginning of a transfer in it.
  `canard.h:410` says that states last updated more than the timeout ago are removed.
  `LossIsLocal` counts the second case as a mishap.

### What the properties except

Cases the code gets wrong and a property therefore excepts: it says nothing of
them. Each exception is in the property's comment, and a hazard that lies wholly
in such a case names no property in `PROJECT.json`.

| Property | Excepts | Hazard |
|---|---|---|
| `UniqueAddresses`, `HoldersAreListed` | a hub that hands out an address with no image free, or has forgotten one in use | H18 |
| `StorageSurvivesCrash` | that after a cut between erase and write nothing at all is left | H20 |
| `DoneMeansMoved` | the early callback of an SPI exchange started in a callback; pages of the QSPI flash that was given up | H24 |
| `NothingWaitsForEver` | USB data queued before a configuration, which waits for the next write | H25 |
| `TimingIsRight` | I2C times shorter than a tick; edges of pins whose vector another pin shares | H26, H39 |
| `OwnLifeAnswers` | answers meant for an earlier device | H30 |
| `Accounting`, `CallsEnd` | calls that an assignment overtook before the mutex | H32, H33 |
| `NothingWaitsForEver` | SPI buses on a DMA stream whose completion the handler cannot see | H38 |
| `NodesTellTheTruth` | flags whose setting crossed the making or sending of a status | H40 |
| `OkMeansMoved` | a refusal of the last byte, which `i2c_nack_verdict` shows | H4 |

The numbers are positions in the list of hazards in `PROJECT.json`.

### What the models showed besides

These are not findings of a run: no doc, comment or test of the repository says
otherwise, or a property excepts them by name.

* Allocation. A third part that comes late completes an id of pieces of two
  devices; the hub attaches an image for the device that does not exist, which
  stays until it is purged. `attachDevice` hands out an address though no image
  is free for it (`full` in the properties). A device that has an address still
  answers an echo within 400 ms. Two boards with the same random interval may
  collide again and again.
* Slave. The type of an answer is taken from the request (`ParamSlave.hpp:157-166`),
  and a getter brings none: a real or boolean field is read as an integer, for a
  real with the bits of the real. `upconvertInteger` (`CanHelpers.hpp:57`) tests the bit
  above the sign, so that negative values lose it; the
  answer to a set reports the value as it was asked for, not as it was stored, and
  in the type it was asked for in; an exhausted pool drops the request silently.
  `AnswersAreHonest` excepts these.
* Proxy. An assignment that falls between the check of a call and the mutex makes
  the call send through a null pointer, or ask the new device for a field of the
  old one.
* Files. A chunk beyond the end is acknowledged and not stored (the checksum of
  `finalize` catches it). Reading at the end returns fewer bytes than the answer
  says. Writing after `finalize` is not refused.
* DMA of F4 and F7 (`STM32F4xx/Platform/Dma.cpp:31`). The handler clears the flags
  of four streams and shifts by `channel * 8`, but the flags lie at bits 0, 6, 16
  and 22. Streams 1, 3, 5 and 7 never report a completion, and a blocking SPI
  exchange on any of them never returns: no bus of the F4, and of the F7 only SPI4
  on streams 0 and 4, is sound. `NothingWaitsForEver` is about sound buses.
* SPI. An exchange started in the callback of another is called back once too
  early. `DoneMeansMoved` excepts it.
* USART. The idle interrupt of version 1 reads the data register and may take a
  byte. An overrun between the two reads repeats the interrupt until the line is
  idle. A restart of version 2 drops the byte under way and the announcement of
  what was received.
* bxCAN. The handler never clears RQCP: while another mailbox is pending the
  interrupt is entered again at once. A failed mailbox is given up only when
  another completes and the controller is error passive.
* USB. What was written before a configuration waits for the next write; a full
  queue then takes no further byte.
* Clock. Read with interrupts masked, or in another handler, it may be a whole
  period behind; the remainder of `kReloadValue / prescaler` is lost each period.
* Polled I2C. Success though the last byte written (version 1: two) was refused.
* Configuration. `load()` ignores the results of reading; a field written with the
  value it has does not repeat a `store()` that failed; flash errors are not told
  to the writer of a field.
* Pins and timers. Vectors shared by many pins clear flags they have not read, and
  those of F4 and F7 shared by timers call one that had no update; on F7 a timer
  that shares a vector with one that does not exist stops the program at its first
  interrupt; timer 14 of F4 and F7 enables the vector of timer 4.
* I2C timing. A hold or set-up time shorter than a tick becomes the longest one. A
  rate too slow for the prescaler overflows into the neighbouring fields.
* Routing. GLOBAL_TIME_SYNC is accepted and not used. Services are accepted whose
  slave was left out. Images may come and go while a transfer is delivered to
  them, so that one may get it twice.
* Status. A flag may be lost whose setting crosses the making of a status or the note
  that it was sent: the next call replaces it as if it had been told. Flags of a
  status the bus lost are not sent again.
* ADC. With no trigger a start converts one scan only; with both halves pending,
  one is shown. The handler of `AdcBus` must come before the first conversion of the
  next scan, which overwrites what it is about to show: the time it has is one
  conversion, whatever the number of channels. The attempt to prove `ScansAreShown`
  found this (with two channels the checker had not met it); `late` says so now.
* Hashes. A name of whole blocks has no end of its own, and the names of a device and
  of its fields are fed one after the other: with a hash of 6 bytes, a device name of
  12 before a field name of 1 is fed what a name of 6 before one of 7 is, and devices
  of the same processor have one hash. The property was first stated of all devices;
  looking for its proof found this (with shorter names the checker had not met it).

## 5. Fairness

Of `I2cIrq`, `Fairness` is weak fairness of the loop (the
processor runs), of the handler (a pending enabled interrupt is served, and the
loop does not disable it) and of the bus (the clock runs and the device does
not stretch it for ever). Nothing obliges noise, a second master or errors to
occur or to stop, and nothing obliges an occupied bus to come free by itself.

Of `platform`, four groups of actions are fair, each a disjunction over the parts
(a part runs for ever or rests for ever, so that this is fairness of each part's
own). `Handlers`: a pending enabled interrupt is served, and USB is polled.
`Hardware`: a byte or frame in a shift register, a mailbox or an endpoint moves on,
streams move bytes. `Threads`: the loop of the work queue and a caller that spins
are given the processor, and a device without an address asks again when its time
comes. These are weak. `Time` is strong: the line delivers what was shifted out and
the clock of the allocation ticks, however often something else happens in
between. Nothing obliges a caller to write, an error or a loss to occur or to stop,
nor a host to configure. `EveryoneIsServed` is about one board, whose devices ask
one after another: nothing keeps two boards with equal intervals from colliding.

Of `CanProxy`, as long as no null master was used, it is weak fairness of a call under way, of the receiver once it
has begun, of the timer and its being called again and again (the wake-up that
every unfinished state asks for), and of the passing of deadlines; nothing
obliges a response to arrive. `Retry` has strong fairness: a call of the timer
too early for a retry ends in `TimeoutEnd`, but the time of the next retry is at
most `kRequestTimeout` after the last one, so that not every call is too early.

## 6. Proofs

Seven modules hold the theorems, and `QueueLemmas` the lemmas they share:
`I2cIrqProofs`, `RingQueueProofs`, `SerialHubProofs` and `CanProxyProofs`
extend their component, `CanNodeProofs` the parts of a node
(`CanTransfer`, `CanSlave`, `FileUpload`), `PlatformProofs` and `NetworkProofs` the
composition `MCPlatform`, whose `Spec` their theorems are about (the lemmas
`PartsApart` and `NodesApart`: a step is one of each part or leaves that part alone;
the theorems on allocation are about `AllocationSpec`, that part by itself). All hold for every value of the
constants, from the named assumptions of the component's module only. The
inductive invariants were model-checked on the same instances before they were
proved; as each is proved to imply the properties checked, the runs do not carry
them, nor types where they are proved.

* `I2cIrqProofs`, from `SizeAssumption` (sizes fit 8 bits): `IndInv` relates the
  driver's counters to what the peripheral still has to move (`Counts`,
  `Sending`, `Receiving`), the handler's copy of the status to the flags
  (`Raised`: what it copied of TXIS, TC, RXNE and STOPF is still set, and after
  STOPF nothing moves), and the outcome to the phase (`Outcome`). The properties
  are not inductive alone: `NoOverrun` needs that TXIS is up exactly in the phase
  that wants a byte. `TypeOK` says of the 8-bit counters that what was moved and what
  is left add up to what was asked for (`NoWrap`), which a counter that wrapped would
  not. `FreshInv` strengthens `FreshResult` in the same way.
* `RingQueueProofs`, from `CapacityAssumption`: the two indices and the count
  agree, hence every call is one of the FIFO's, over any wrap; the arithmetic
  modulo the capacity is in lemmas of its own. `Refinement` is the theorem.
* `SerialHubProofs`, from `SizeAssumption`: `IndInv` adds to the checked
  properties that the walk owns its token until the first element returned it
  (`WalkOwnsToken`) and that a device never sees a count but zero
  (`HeldUncounted`). The pool never overflows by the pigeonhole lemma; accounts
  are cardinalities of the sets of held descriptors. `BroadcastsComplete` needs that
  the token keeps the number the host gave while the hub overwrites the rest of it,
  and that the elements passed so far have answered (`WalkAnswers`): the place of an
  element among the responses is the number of addressed elements up to it.
* `CanProxyProofs`, from `ProxyAssumption` and `Threads = 1`: `IndInv` adds that
  receiver and timer take turns (`TakingTurns`), that the receiver's descriptor is
  on the list and of the service it heard (`ReceiverHolds`, `OwnService`), that an
  unfinished image has room for a field (`RoomForField`), and that a field a call
  was checked against is still known when its answer comes, unless an assignment
  overtook the call (`CheckedFields`): without the last, an answer for a forgotten field would free the descriptor and
  call nobody, and `Accounting` would not be inductive. What a request of the
  proxy's own leaves is stated once (`Sent`) and used by every step that may send
  one. `PoolBounded` is the property that the run with two threads refutes.

  `AnswersMeetRequests` (`OwnLifeAnswers`) and `ImageComplete` (`ReadyIsComplete`)
  have a hypothesis, `[]NumbersAreFresh`: no transfer number comes round while a
  request or a response of that number is under way. The code keeps 5 bits and
  checks nothing, so that with a wrap within 100 ms a late answer fits a later
  request. `AnswerInv` adds which requests the descriptors and the air hold
  (`Fitting`); `ImageInv` is about the first device: the fields read so far are
  those below the next index, and at most one request for a field is under way.
* `NetworkProofs`, of allocation from `AllocationAssumption`. `NetTypes` bounds every queue.
  `UniqueAddresses` is not inductive: `OneOwner` says of each address that not only
  the device that has it owns it, but also the one whose proposal of it is in an
  inbox and the one whose id its image bears, and that no two own the same. Together
  with `HoldersAreListed` (an address in use is that of an image, so that
  `findFreeAddress` passes it over) it is kept by every step, by whatever is lost,
  repeated or comes late. `ObserverIsTold` is inductive with the types alone. All but
  it are about a hub that has an image for each address it proposes, as the property
  says. `Entries < FirstAddress` (a table of fewer images than there are addresses from
  `allocation.first` down) makes the search for a free address end at one.

  `NodesTruthful` (`NodesTellTheTruth`) joins three invariants; `TransfersRouted` and
  `StatusTold` state two of its parts for the components' own steps.
  `RoutingInv`: the board has the first slot and an address one slot at most
  (`OneSlotEach`); if nothing changed, what was taken is what the entries asked so far
  take (`Given`), and some entry wants the transfer. It assumes that no node has the
  address 0, which stands for all. `StatusInv`: once a status was filled or sent no
  flag waits but those whose setting crossed it, and a call that is under way and
  crossed nothing has the stores left that its flags need (`SettingInv`), and the next status is due within the time that
  the image allows, given the statuses lost so far (`Allowed`). `HashInv` says what was
  fed to each hash; that it tells devices apart is a property of the function: there
  is a number of the last block of each name and each field (`Laid`), a type's block has
  a zero behind its first byte and a number behind that, a block of a name has not
  (`MetaBlock`), and a name ends in the block that is not full or before the type
  (`NameEnds`); by induction over the fields two devices of one seed have the same
  blocks at the same places (`FieldAlike`). Assumed of the devices is what the code's
  types give: a name has no zero before its end, a field at least one element.

  `FramesWhole` (`FramesSurviveCuts`): `Start` is the first byte that no message
  processed and nothing passed over has taken; in the middle of a frame, what the
  parser holds is what the stream holds from there on (`InFrame`). What was read stands
  whatever comes: any stream that begins with the bytes taken holds the messages
  processed and what is read from `Start` on (`Stands`); and as long as there is no
  noise, any stream that begins with all bytes sent holds the messages sent and what is
  read behind them. That the recursive function `FramesFrom` exists is proved from its
  end on (`Reads`). Assumed is that the length less one fits a byte, as a
  `static_assert` in `SerialHandler.hpp` demands.
* `CanNodeProofs`, from `SlaveAssumption`, `UploadAssumption`, `TransferAssumption`.
  `SlaveInv`: a pending request sits in a descriptor of its own service (`Fitting`)
  and descriptors agree with debts (`Accounts`). `UploadInv`: what the file holds is
  a beginning of the content (`Beginning`), behind a message about what the client is
  doing now there is no older one (`InOrder`), and once an ending was carried out
  nothing is under way that undoes it (`Ended`). `TransferInv`: frames on the way are
  sorted by kind and by transfer (`Lines`), each state has gathered a beginning of a
  transfer or expects one that is still to come (`StatesFit`), and the blocks of both arenas add up
  (`PoolIsWhole`). `TransfersAreLines` maps it to `LossyFifo`: a transmission is a
  burst, a delivery a receive that drops what is older.

  `LossesLocal` (`LossIsLocal`) keeps an account (`Accounting`) of three sets of
  transfers: `w`, doomed; `q`, lost, but the state they left may cost another transfer;
  `r`, delivered. Each mishap puts one transfer into `w` and `q`. All others are in hand
  (`Accounted`): their frames from some index on are under way, and the ones before are
  gathered, or else an earlier one owes (`Owing`) and they fail. Before the first frame
  of a transfer the state welcomes it, or an earlier one owes, or the one before is still
  coming and not doomed (`Prepared`). A transfer that fails to its end joins `w` and
  takes a debt out of `q`, and leaves a state that welcomes the next: so `w` and `q`
  together never exceed twice the mishaps (`Tallied`).

  Assumed are powers of two that are numbers (the provers do not know powers), a
  finite set of kinds, more than two transfer numbers (the bus has 32), and a head
  of 6 to 11 bytes (it is 6 in the code): what one frame carries and two do not.
* `PlatformProofs`, from the assumptions of the parts.
  - `TimeNeverGoesBack` (`TimeInv`): no result is ahead of the time that counter,
    pending interrupt and kept time make together, and a reading that will be taken
    lies between the last result and that time. It needs a period of at most a
    second (`kReloadValue \div prescaler <= Second`), or one correction of the
    microseconds would not do.
  - `ConfigSurvives` (`StorageInv`): whatever word or page the power cut left, the
    region begins with nothing or holds a beginning of what one `store()` had, and no
    readable word behind it (`Readable`); while a `store()` runs, the beginning is
    that of its own values. It assumes that the entries of a layout fit the region;
    nothing in the code checks this.
  - `DriversAreLines` (`DriversInv`): in each direction, what the queue, the
    peripheral and the copies in flight hold are numbers that ascend from the last
    that came out to the last that was put in, with a number in between wherever
    two holders meet. The refinement takes a call of `write` (or the line's saying
    something) for a burst, and what comes out for a receive that drops what was
    lost before it.
  - `DoneIsMoved`: `PollInv` (what was written and read, by the step `exchange()` has
    come to; a byte is unseen only in the shift register and the data register),
    `SpiInv` (a stream that has moved its bytes is flagged, latched or counted, once),
    `QspiInv` (what was programmed is the range behind `currentOffset` and nothing
    else, block by block for an erase), `AdcInv` (each place of the round that goes on,
    and those of the half that is to be shown, hold the conversions that are due).
  - `ListsAreLists` (`ListInv`): there is a sequence of different nodes that `first`
    and the pointers chain (`Chained`), and the pool holds the others, each once
    (`Spare`). The walks find that sequence (`ChainFound`), so that an operation is
    one on a sequence: a node more at the end, or the others in their order. To take
    out the nodes of some values takes out the values (`OthersMapped`). It assumes
    that there is a value.
  - `TimingHolds` (`TimingInv`). Of the timers: a handler was entered for a timer that
    is made, and one that it has still to call and that shares no vector has its update
    and its callback (`SoundTimers`), since nothing but that timer can have raised it
    (`SoundAlone`) and threads do not run before the handler ends; the registers hold
    what was asked for (`Reloads`, `Divides`). Of the pins: a flag, and a call that the
    handler has still to make, each stand for an edge that was not called back, and
    once the flags are cleared for different ones (`EdgesCount`). Of the bus: after
    each round the fields are those of its prescaler, and no smaller prescaler does
    (`RateInv`); packed into the register they can be read back (`Unpacked`). Assumed
    is that the longer resolution of a timer is not the shorter one.

Induction over numbers is done with sets (`Induction`, `Recursion`), as the prover
takes no theorem about a predicate; it suffices for positions in a queue and for
modular arithmetic, and not for what a recursive operator computes.

Model-checked only:
* liveness (`CleanExchangeCompletes`, `NoInterruptStorm`, `CallsEnd`,
  `InitialisationEnds`, `NothingWaitsForEver`), which the prover does not treat;
* `ScalarsSurvive`, which is about bits of all inputs of a bounded size.

## 7. Not modelled

* Hashes, checksums and ciphers as arithmetic: long words over long inputs, beyond
  a search; fixed test vectors say more. Checksums are injective in the models, or
  a small sum (`SerialParser`).
* Packet layouts, interfaces, test doubles, debug output: no state of their own.
* Boards, start-up, GPIO, clocks, watchdog, random numbers, PWM, the ADC of a
  single channel: registers are set in order and nothing waits or is shared.
* The reloader: it replaces the program that would observe it.
* Of the modelled parts: the 32 values of the transfer numbers of `CanProxy`
  (`CanProxy.hpp:594` keeps 5 bits: an answer that comes 32 requests of one service
  late matches the wrong request, which takes that many within 100 ms);
  `CanProxy::restart()` and composite messages; the optional features of the hub;
  devices with a static address; GET_FIELDS_SUMMARY and the length checks of the
  slave; the conversion of 16-bit floats; prescalers that are loaded at the first
  update, and destructors of drivers, which disable vectors others share; a start
  of the ADC while a scan runs.
* The purge of the hub runs on the timer thread and is one step.
* Erasing a page of flash is one step: a half erased page is not modelled.
