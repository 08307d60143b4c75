---------------------------- MODULE CanAllocation ----------------------------
(***************************************************************************)
(* Addresses on the CAN bus: devices (InternalCanDevice) without one ask   *)
(* the hub (CanProxyHub) in three parts, sixteen bytes of unique id in     *)
(* pieces of 6, 6 and 4; the hub echoes what it has gathered and, after    *)
(* the third part, proposes an address and keeps an image of the device.   *)
(*                                                                         *)
(* A frame reaches every other node of the bus, in the order it was sent;  *)
(* a node handles its frames when it gets to it.  A unique id is a triple  *)
(* of pieces, each named for the device it comes from, 0 for zero bytes.   *)
(***************************************************************************)
EXTENDS Integers, Sequences, FiniteSets, FiniteSetsExt

CONSTANTS
  Devices,       \* devices that want an address, as positive numbers
  Boards,        \* boards; all devices of a board share one UavCanHandler
  BoardOf,       \* the board of each device
  HubAddress,    \* the static address of the hub itself
  FirstAddress,  \* allocation.first
  Entries,       \* maxNodeCount of the hub
  NodeSlots,     \* maxNodeCount of the hub's UavCanHandler
  AllocTimeout,  \* kAllocTimeout and kAllocationTimeout, in ticks
  MinInterval,   \* kMinAllocInterval
  MaxInterval,   \* kMaxAllocInterval
  PurgeTimeout,  \* timeout of the hub, 0: images are kept for ever
  Prompt,        \* whether nodes handle what they got before the next tick
  InboxSize,     \* bound: frames a node has not yet handled, but for repeated ones
  MaxAsks,       \* bound: requests of all devices, unless they are prompt
  MaxFaults      \* bound: frames lost or repeated, restarts, purges

ASSUME AllocationAssumption ==
  /\ Devices \subseteq Nat \ {0}
  /\ BoardOf \in [Devices -> Boards] /\ "hub" \notin Boards
  /\ {HubAddress, FirstAddress, Entries, NodeSlots, InboxSize} \subseteq Nat \ {0}
  /\ {AllocTimeout, MinInterval, MaxInterval, PurgeTimeout, MaxAsks, MaxFaults} \subseteq Nat
  /\ Prompt \in BOOLEAN
  /\ AllocTimeout < MinInterval /\ MinInterval <= MaxInterval
  /\ Entries < FirstAddress

VARIABLES
  address,     \* currentAddress of each device
  asked, due,  \* ticks since prevAllocationTime, until nextAllocationTime
  alloc,       \* allocation of the hub
  proxies,     \* images of the hub
  attached,    \* images its UavCanHandler knows
  inbox,       \* frames each node has yet to handle
  seen,        \* devices the observer of the hub takes for attached
  asks, faults,    \* requests and faults so far
  full, forgotten  \* history: no image was free; an image in use was dropped

deviceVars == <<address, asked, due>>
imageVars  == <<proxies, attached, seen>>
hubVars    == <<alloc, imageVars, full, forgotten>>
allocationVars == <<deviceVars, hubVars, inbox, asks, faults>>

Hub   == "hub"
Nodes == Boards \union {Hub}
None  == <<0, 0, 0>>
Uid(d) == <<d, d, d>>

Addresses == 0..FirstAddress
Images    == 1..Entries
NoImage   == [address |-> 0, uid |-> None, quiet |-> 0]
Image(a)  == [address |-> a, uid |-> None, quiet |-> 0]
valid(i)  == proxies[i].address # 0

Piece == Devices \union {0}
Message ==
  [kind : {"ask"}, part : 0..2, uid : Piece \X Piece \X Piece, address : {0}] \union
  [kind : {"tell"}, part : 0..2, uid : Piece \X Piece \X Piece, address : Addresses] \union
  [kind : {"status"}, part : {0}, uid : {None}, address : Addresses]

Ask(d, p)     == [kind |-> "ask", part |-> p, uid |-> Uid(d), address |-> 0]
Tell(p, u, a) == [kind |-> "tell", part |-> p, uid |-> u, address |-> a]
StatusOf(a)   == [kind |-> "status", part |-> 0, uid |-> None, address |-> a]

-----------------------------------------------------------------------------
(* The bus. *)

\* onAcceptanceRequest: what the nodes of a handler have use for.
DeviceAccepts(m) == m.kind \in {"ask", "tell"}
HubAccepts(m)    == m.kind \in {"ask", "status"}
Accepts(n, m)    == IF n = Hub THEN HubAccepts(m) ELSE DeviceAccepts(m)

\* What is sent goes to every other node; one whose queue is full misses it.
Broadcast(boxes, from, m) ==
  [n \in Nodes |->
     IF n = from \/ ~Accepts(n, m) \/ Len(boxes[n]) >= InboxSize
     THEN boxes[n] ELSE Append(boxes[n], m)]

Handled(n) == [inbox EXCEPT ![n] = Tail(@)]

\* Stages 1 and 2 of an answer take two and three frames: a repeated frame
\* spoils them; everything else is one frame, and its repetition is delivered.
SingleFrame(m) == m.kind = "tell" => m.part = 0

FrameLost(n) ==
  /\ faults < MaxFaults /\ inbox[n] # <<>>
  /\ inbox' = Handled(n) /\ faults' = faults + 1
  /\ UNCHANGED <<deviceVars, hubVars, asks>>

FrameRepeated(n) ==
  /\ faults < MaxFaults /\ inbox[n] # <<>>
  /\ SingleFrame(Head(inbox[n]))
  /\ inbox' = [inbox EXCEPT ![n] = <<Head(@)>> \o @] /\ faults' = faults + 1
  /\ UNCHANGED <<deviceVars, hubVars, asks>>

-----------------------------------------------------------------------------
(* Devices. *)

OnBoard(b) == {d \in Devices : BoardOf[d] = b}

\* The first node of the handler that has no address.
isNextAllocatee(d) ==
  /\ address[d] = 0
  /\ \A e \in OnBoard(BoardOf[d]) : address[e] = 0 => d <= e

makeAllocInterval == MinInterval..MaxInterval

\* onTimeoutOccurred: the request, with desiredAddress 0.
RequestAllocation(d) ==
  /\ isNextAllocatee(d) /\ due[d] = 0
  /\ Prompt \/ asks < MaxAsks
  /\ asks' = Min({asks + 1, MaxAsks})
  /\ \E t \in makeAllocInterval : due' = [due EXCEPT ![d] = t]
  /\ asked' = [asked EXCEPT ![d] = 0]
  /\ inbox' = Broadcast(inbox, BoardOf[d], Ask(d, 0))
  /\ UNCHANGED <<address, hubVars, faults>>

\* onTimeoutOccurred: the status, every nodeStatusPeriod.
SendNodeStatus(d) ==
  /\ address[d] # 0
  /\ \A i \in 1..Len(inbox[Hub]) : inbox[Hub][i] # StatusOf(address[d])
  /\ Len(inbox[Hub]) < InboxSize
  /\ inbox' = Broadcast(inbox, BoardOf[d], StatusOf(address[d]))
  /\ UNCHANGED <<deviceVars, hubVars, asks, faults>>

\* The answer to part p echoes what the device has sent so far.  (A request of
\* another device, compared like a first answer, never does.)
Matches(d, m) ==
  /\ asked[d] <= AllocTimeout
  /\ m.kind = "tell" /\ \A k \in 1..(m.part + 1) : m.uid[k] = d

\* processAllocationMessage of every device of the board: the next request is put
\* off, a device that finds itself echoed sends its next part or takes the address.
DeviceReceive(b) ==
  /\ inbox[b] # <<>>
  /\ LET m    == Head(inbox[b])
         hits == {d \in OnBoard(b) : Matches(d, m)}
         next == {d \in hits : m.part < 2}
     IN /\ \E t \in [OnBoard(b) -> makeAllocInterval] :
             due' = [d \in Devices |-> IF d \in OnBoard(b) THEN t[d] ELSE due[d]]
        /\ address' = [d \in Devices |->
                         IF d \in hits /\ m.part = 2 /\ m.address # 0
                         THEN m.address ELSE address[d]]
        /\ inbox' = IF next = {} THEN Handled(b)
                    ELSE Broadcast(Handled(b), b, Ask(CHOOSE d \in next : TRUE, m.part + 1))
  /\ UNCHANGED <<asked, hubVars, asks, faults>>

\* RESTART_NODE, or the power: a device with a dynamic address starts without.
\* prevAllocationTime is 0 then, and so is the clock.
DeviceRestart(d) ==
  /\ faults < MaxFaults /\ address[d] # 0
  /\ address' = [address EXCEPT ![d] = 0]
  /\ asked' = [asked EXCEPT ![d] = 0]
  /\ \E t \in makeAllocInterval : due' = [due EXCEPT ![d] = t]
  /\ faults' = faults + 1
  /\ UNCHANGED <<hubVars, inbox, asks>>

-----------------------------------------------------------------------------
(* The hub. *)

\* Both loops of findFreeAddress look at every image and at the hub itself.
isAddressFree(a) == a # HubAddress /\ \A i \in Images : proxies[i].address # a

\* Slip: the images are not looked at.
findAnyAddress == Max({a \in 1..FirstAddress : a # HubAddress})

\* Downwards from the first; what no image has is 0 when every image is taken.
FreeAddresses == {a \in 1..FirstAddress : isAddressFree(a)}
findFreeAddress == IF FreeAddresses = {} THEN 0 ELSE Max(FreeAddresses)

FreeImages == {i \in Images : ~valid(i)}

\* Slip: the first image takes the address, free or not.
AttachImageOver(a) ==
  /\ proxies' = [proxies EXCEPT ![1] = Image(a)]
  /\ attached' = attached \union {1}

\* The handler's table has a place for the hub and NodeSlots - 1 images.
attach(i) ==
  attached' = IF Cardinality(attached) + 1 < NodeSlots THEN attached \union {i} ELSE attached

\* The first free image takes the address.
AttachImage(a) ==
  IF FreeImages = {} THEN UNCHANGED <<proxies, attached>>
  ELSE /\ proxies' = [proxies EXCEPT ![Min(FreeImages)] = Image(a)]
       /\ attach(Min(FreeImages))

Known(u) == {i \in Images : valid(i) /\ proxies[i].uid = u}

\* A device that is known gets its address again; else a free one is found,
\* and handed out whether or not an image was left for it.
attachDevice(u, a) ==
  IF Known(u) # {}
  THEN a = proxies[Min(Known(u))].address /\ UNCHANGED <<proxies, attached, full>>
  ELSE /\ a = findFreeAddress
       /\ AttachImage(a)
       /\ full' = (full \/ FreeImages = {})

Answer(m) == inbox' = Broadcast(Handled(Hub), Hub, m)

\* A first part ends a request that is under way, and is itself ignored if
\* that one is less than 400 ms old.
FirstPart(m) ==
  /\ m.kind = "ask" /\ m.part = 0
  /\ UNCHANGED <<proxies, attached, full>>
  /\ IF alloc.ongoing /\ alloc.age < AllocTimeout
     THEN alloc' = [alloc EXCEPT !.ongoing = FALSE] /\ inbox' = Handled(Hub)
     ELSE LET u == <<m.uid[1], 0, 0>>
          IN alloc' = [ongoing |-> TRUE, age |-> 0, uid |-> u] /\ Answer(Tell(0, u, 0))

\* The later parts are told from each other by their length only: the third
\* is taken even when the second never came.
LaterPart(m) ==
  /\ m.kind = "ask" /\ m.part > 0
  /\ IF ~alloc.ongoing \/ alloc.age >= AllocTimeout
     THEN /\ alloc' = [alloc EXCEPT !.ongoing = FALSE] /\ inbox' = Handled(Hub)
          /\ UNCHANGED <<proxies, attached, full>>
     ELSE LET u == [alloc.uid EXCEPT ![m.part + 1] = m.uid[m.part + 1]]
          IN /\ alloc' = [alloc EXCEPT !.uid = u, !.ongoing = m.part = 1]
             /\ \/ m.part = 1 /\ Answer(Tell(1, u, 0))
                              /\ UNCHANGED <<proxies, attached, full>>
                \/ m.part = 2 /\ \E a \in Addresses :
                                   attachDevice(u, a) /\ Answer(Tell(2, u, a))

\* processNodeStatus: a node nobody knows takes a free image; the image of a
\* node that is known is told by its own onMessageReceived.
StatusReceived(m) ==
  /\ m.kind = "status" /\ inbox' = Handled(Hub)
  /\ IF \E i \in Images : proxies[i].address = m.address
     THEN /\ proxies' = [i \in Images |->
                           IF i \in attached /\ proxies[i].address = m.address
                           THEN [proxies[i] EXCEPT !.quiet = 0] ELSE proxies[i]]
          /\ UNCHANGED attached
     ELSE AttachImage(m.address)
  /\ UNCHANGED <<alloc, full>>

\* Answers of the hub never come back to it.
HubReceive ==
  /\ inbox[Hub] # <<>>
  /\ LET m == Head(inbox[Hub]) IN FirstPart(m) \/ LaterPart(m) \/ StatusReceived(m)
  /\ UNCHANGED <<deviceVars, seen, forgotten, asks, faults>>

\* The image learns the unique id from the node info of a device that answers
\* to its address; once it is complete the observer is told (onDeviceReady).
NodeInfoReceived(i, d) ==
  /\ i \in attached /\ proxies[i].uid = None
  /\ address[d] = proxies[i].address
  /\ proxies' = [proxies EXCEPT ![i] = [@ EXCEPT !.uid = Uid(d), !.quiet = 0]]
  /\ seen' = seen \union {d}
  /\ UNCHANGED <<deviceVars, alloc, attached, full, forgotten, inbox, asks, faults>>

\* An address a device has, or is about to be given.
InUse(a) ==
  \/ \E d \in Devices : address[d] = a
  \/ \E n \in Nodes : \E k \in 1..Len(inbox[n]) :
       inbox[n][k].kind = "tell" /\ inbox[n][k].part = 2 /\ inbox[n][k].address = a

\* Slip: the observer is not told.
DetachSilently(gone) ==
  /\ gone # {}
  /\ attached' = attached \ gone
  /\ proxies' = [i \in Images |-> IF i \in gone THEN NoImage ELSE proxies[i]]
  /\ forgotten' = (forgotten \/ \E i \in gone : InUse(proxies[i].address))
  /\ UNCHANGED <<deviceVars, alloc, full, inbox, asks, seen>>

\* The observer is told, the handler forgets the images, their entries are free.
Detach(gone) ==
  /\ gone # {}
  /\ seen' = {d \in seen : \A i \in gone : proxies[i].uid # Uid(d)}
  /\ attached' = attached \ gone
  /\ proxies' = [i \in Images |-> IF i \in gone THEN NoImage ELSE proxies[i]]
  /\ forgotten' = (forgotten \/ \E i \in gone : InUse(proxies[i].address))
  /\ UNCHANGED <<deviceVars, alloc, full, inbox, asks>>

\* Images that heard nothing for the timeout: of a device that goes on with its
\* address, only if its statuses were lost.
purgeOfflineNodes ==
  LET offline == {i \in Images : valid(i) /\ proxies[i].quiet >= PurgeTimeout}
      lost == IF \E i \in offline : InUse(proxies[i].address) THEN 1 ELSE 0
  IN /\ PurgeTimeout # 0 /\ faults + lost <= MaxFaults
     /\ faults' = faults + lost
     /\ Detach(offline)

\* The application drops the image of a device, the first one with its id.
purge(u) ==
  /\ faults < MaxFaults /\ faults' = faults + 1
  /\ Known(u) # {} /\ Detach({Min(Known(u))})

\* The application drops every image.
purgeAll ==
  /\ faults < MaxFaults /\ faults' = faults + 1
  /\ Detach({i \in Images : valid(i)})

-----------------------------------------------------------------------------
Tick ==
  /\ Prompt => \A n \in Nodes : inbox[n] = <<>>
  /\ asked' = [d \in Devices |-> Min({asked[d] + 1, AllocTimeout + 1})]
  /\ due' = [d \in Devices |-> Max({due[d] - 1, 0})]
  /\ alloc' = [alloc EXCEPT !.age = Min({@ + 1, AllocTimeout})]
  /\ proxies' = [i \in Images |->
                   IF valid(i) THEN [proxies[i] EXCEPT !.quiet = Min({@ + 1, PurgeTimeout})]
                   ELSE proxies[i]]
  /\ UNCHANGED <<address, attached, seen, full, forgotten, inbox, asks, faults>>

AllocationInit ==
  /\ address = [d \in Devices |-> 0]
  /\ asked = [d \in Devices |-> 0]
  /\ due \in [Devices -> makeAllocInterval]
  /\ alloc = [ongoing |-> FALSE, age |-> AllocTimeout, uid |-> None]
  /\ proxies = [i \in Images |-> NoImage] /\ attached = {} /\ seen = {}
  /\ inbox = [n \in Nodes |-> <<>>]
  /\ asks = 0 /\ faults = 0 /\ full = FALSE /\ forgotten = FALSE

AllocationNext ==
  \/ \E d \in Devices : RequestAllocation(d) \/ SendNodeStatus(d) \/ DeviceRestart(d)
  \/ \E b \in Boards : DeviceReceive(b)
  \/ HubReceive
  \/ \E i \in Images, d \in Devices : NodeInfoReceived(i, d)
  \/ purgeOfflineNodes \/ purgeAll \/ \E d \in Devices : purge(Uid(d))
  \/ \E n \in Nodes : FrameLost(n) \/ FrameRepeated(n)
  \/ Tick

AllocationSpec == AllocationInit /\ [][AllocationNext]_allocationVars

-----------------------------------------------------------------------------
\* Values, and no image known to the handler whose entry is free: what it would
\* hand a frame to, or detach, is a device that is there.
AllocationTypeOK ==
  /\ address \in [Devices -> Addresses]
  /\ asked \in [Devices -> 0..(AllocTimeout + 1)] /\ due \in [Devices -> 0..MaxInterval]
  /\ alloc \in [ongoing : BOOLEAN, age : 0..AllocTimeout, uid : Piece \X Piece \X Piece]
  /\ proxies \in [Images -> [address : Addresses, uid : {None} \union {Uid(d) : d \in Devices},
                             quiet : 0..PurgeTimeout]]
  /\ attached \subseteq {i \in Images : valid(i)} /\ seen \subseteq Devices
  /\ inbox \in [Nodes -> Seq(Message)] /\ \A n \in Nodes : Len(inbox[n]) <= InboxSize + MaxFaults
  /\ asks \in 0..MaxAsks /\ faults \in 0..MaxFaults /\ full \in BOOLEAN /\ forgotten \in BOOLEAN

\* Two devices never share an address, whatever is lost, repeated, late or
\* restarted, as long as the hub had an image left for each address it proposed
\* (attachDevice proposes one even when it had not) and dropped none in use.
UniqueAddresses ==
  ~full /\ ~forgotten =>
    \A d, e \in Devices : d # e /\ address[d] # 0 => address[d] # address[e]

\* An address that a device has or is being told is the address of an image, so
\* that findFreeAddress will not find it free.
HoldersAreListed ==
  ~full /\ ~forgotten =>
    \A a \in Addresses \ {0} : InUse(a) => \E i \in Images : proxies[i].address = a

\* What the observer takes for attached has an image that is complete: it is told
\* of every one that goes, by whichever purge.
ObserverIsTold == \A d \in seen : Known(Uid(d)) # {}

\* Devices of one board that do as they are due take turns, and each gets an
\* address in spite of lost frames: a request that failed is made again.
EveryoneIsServed == \A d \in Devices : address[d] # 0
=============================================================================
