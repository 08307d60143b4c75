--------------------------- MODULE NetworkProofs ----------------------------
(***************************************************************************)
(* Proofs about the nodes of a network.  Of CanAllocation, for every       *)
(* number of devices, boards and images, every timeout and every bound:    *)
(* types, one owner for each address in use, an image for each, and an     *)
(* observer that is told.  Of what nodes with addresses learn of each      *)
(* other: who a transfer is for (CanRouting), what a status says           *)
(* (NodeStatus), whether two devices are of one kind (DeviceHashes).  And  *)
(* of the frames of the serial protocol (SerialParser).                    *)
(***************************************************************************)
EXTENDS MCPlatform, QueueLemmas

-----------------------------------------------------------------------------
(* Numbers and frames. *)

LEMMA PairMin ==
  ASSUME NEW a \in Int, NEW b \in Int
  PROVE  Min({a, b}) = IF a <= b THEN a ELSE b
<1>1. \E x \in {a, b} : \A y \in {a, b} : x <= y
  OBVIOUS
<1> DEFINE x == Min({a, b})
<1>2. x \in {a, b} /\ \A y \in {a, b} : x <= y
  BY <1>1 DEF Min
<1> QED BY <1>2

LEMMA PairMax ==
  ASSUME NEW a \in Int, NEW b \in Int
  PROVE  Max({a, b}) = IF a >= b THEN a ELSE b
<1>1. \E x \in {a, b} : \A y \in {a, b} : x >= y
  OBVIOUS
<1> DEFINE x == Max({a, b})
<1>2. x \in {a, b} /\ \A y \in {a, b} : x >= y
  BY <1>1 DEF Max
<1> QED BY <1>2

LEMMA MinOf ==
  ASSUME NEW T \in SUBSET Nat, T # {}
  PROVE  Min(T) \in T
BY Smallest DEF Min

\* A frame some node has yet to handle.
InFlight(boxes, m) == \E n \in Nodes : \E k \in 1..Len(boxes[n]) : boxes[n][k] = m

\* What is sent is the only frame that is new anywhere, and no queue grows beyond
\* its size.
LEMMA BroadcastAdds ==
  ASSUME NEW boxes \in [Nodes -> Seq(Message)], NEW from, NEW m \in Message
  PROVE  /\ Broadcast(boxes, from, m) \in [Nodes -> Seq(Message)]
         /\ \A n \in Nodes : \/ Len(Broadcast(boxes, from, m)[n]) <= InboxSize
                             \/ Len(Broadcast(boxes, from, m)[n]) = Len(boxes[n])
         /\ \A x : InFlight(Broadcast(boxes, from, m), x) => InFlight(boxes, x) \/ x = m
<1> DEFINE after == Broadcast(boxes, from, m)
<1>1. InboxSize \in Nat
  BY AllocationAssumption
<1>2. ASSUME NEW n \in Nodes
      PROVE  /\ after[n] \in Seq(Message)
             /\ Len(after[n]) <= InboxSize \/ Len(after[n]) = Len(boxes[n])
             /\ \A k \in 1..Len(after[n]) :
                  after[n][k] = m \/ (k \in 1..Len(boxes[n]) /\ after[n][k] = boxes[n][k])
  <2>1. boxes[n] \in Seq(Message) /\ Len(boxes[n]) \in Nat
    OBVIOUS
  <2>2. CASE after[n] = boxes[n]
    BY <2>1, <2>2
  <2>3. CASE Len(boxes[n]) < InboxSize /\ after[n] = Append(boxes[n], m)
    BY <1>1, <2>1, <2>3, AppendProperties
  <2> QED BY <1>1, <2>1, <2>2, <2>3 DEF Broadcast
<1>3. after = [n \in Nodes |-> after[n]]
  BY DEF Broadcast
<1> HIDE DEF after
<1>4. after \in [Nodes -> Seq(Message)]
  BY <1>2, <1>3
<1>5. \A x : InFlight(after, x) => InFlight(boxes, x) \/ x = m
  BY <1>2 DEF InFlight
<1> QED BY <1>2, <1>4, <1>5 DEF after

\* A frame that is handled is gone, and the others are what they were.
LEMMA HandledLeaves ==
  ASSUME inbox \in [Nodes -> Seq(Message)], NEW n \in Nodes, inbox[n] # <<>>
  PROVE  /\ Handled(n) \in [Nodes -> Seq(Message)]
         /\ \A o \in Nodes : Len(Handled(n)[o]) <= Len(inbox[o])
         /\ \A x : InFlight(Handled(n), x) => InFlight(inbox, x)
         /\ Head(inbox[n]) \in Message /\ InFlight(inbox, Head(inbox[n]))
<1>1. /\ inbox[n] \in Seq(Message) /\ Len(inbox[n]) \in Nat \ {0}
      /\ Head(inbox[n]) = inbox[n][1] /\ Head(inbox[n]) \in Message
      /\ Tail(inbox[n]) \in Seq(Message) /\ Len(Tail(inbox[n])) = Len(inbox[n]) - 1
      /\ \A k \in 1..Len(Tail(inbox[n])) : Tail(inbox[n])[k] = inbox[n][k + 1]
  BY HeadTailProperties, LenProperties, EmptySeq
<1>2. Handled(n) \in [Nodes -> Seq(Message)]
  BY <1>1 DEF Handled
<1>3. ASSUME NEW o \in Nodes
      PROVE  /\ Len(Handled(n)[o]) <= Len(inbox[o])
             /\ \A k \in 1..Len(Handled(n)[o]) :
                  \E l \in 1..Len(inbox[o]) : Handled(n)[o][k] = inbox[o][l]
  <2>1. CASE o = n
    <3>1. Handled(n)[o] = Tail(inbox[n])
      BY <2>1 DEF Handled
    <3>2. \A k \in 1..Len(Tail(inbox[n])) : k + 1 \in 1..Len(inbox[n])
      BY <1>1
    <3> QED BY <1>1, <2>1, <3>1, <3>2
  <2>2. CASE o # n
    <3>1. Handled(n)[o] = inbox[o] /\ Len(inbox[o]) \in Nat
      BY <2>2 DEF Handled
    <3> QED BY <3>1
  <2> QED BY <2>1, <2>2
<1>4. \A x : InFlight(Handled(n), x) => InFlight(inbox, x)
  BY <1>3 DEF InFlight
<1>5. InFlight(inbox, Head(inbox[n]))
  BY <1>1 DEF InFlight
<1> QED BY <1>1, <1>2, <1>3, <1>4, <1>5

\* A repeated frame is one that was there.
LEMMA RepeatedAdds ==
  ASSUME inbox \in [Nodes -> Seq(Message)], NEW n \in Nodes, inbox[n] # <<>>,
         NEW boxes, boxes = [inbox EXCEPT ![n] = <<Head(@)>> \o @]
  PROVE  /\ boxes \in [Nodes -> Seq(Message)]
         /\ \A o \in Nodes : Len(boxes[o]) <= Len(inbox[o]) + 1
         /\ \A x : InFlight(boxes, x) => InFlight(inbox, x)
<1> DEFINE again == <<Head(inbox[n])>> \o inbox[n]
<1>1. /\ inbox[n] \in Seq(Message) /\ Len(inbox[n]) \in Nat \ {0}
      /\ Head(inbox[n]) = inbox[n][1] /\ Head(inbox[n]) \in Message
  BY HeadTailProperties, LenProperties, EmptySeq
<1>2. <<Head(inbox[n])>> \in Seq(Message) /\ Len(<<Head(inbox[n])>>) = 1
  BY <1>1
<1>3. /\ again \in Seq(Message) /\ Len(again) = 1 + Len(inbox[n])
      /\ \A k \in 1..(1 + Len(inbox[n])) :
           again[k] = IF k <= 1 THEN <<Head(inbox[n])>>[k] ELSE inbox[n][k - 1]
  BY <1>1, <1>2, ConcatProperties
<1>4. \A k \in 1..(1 + Len(inbox[n])) : \E l \in 1..Len(inbox[n]) : again[k] = inbox[n][l]
  <2> SUFFICES ASSUME NEW k \in 1..(1 + Len(inbox[n]))
               PROVE  \E l \in 1..Len(inbox[n]) : again[k] = inbox[n][l]
    OBVIOUS
  <2>1. CASE k = 1
    <3>1. again[k] = Head(inbox[n])
      BY <1>1, <1>3, <2>1
    <3> QED BY <1>1, <3>1
  <2>2. CASE k # 1
    <3>1. k - 1 \in 1..Len(inbox[n]) /\ again[k] = inbox[n][k - 1]
      BY <1>1, <1>3, <2>2
    <3> QED BY <3>1
  <2> QED BY <2>1, <2>2
<1> HIDE DEF again
<1>5. boxes = [o \in Nodes |-> IF o = n THEN again ELSE inbox[o]]
  BY DEF again
<1>6. boxes \in [Nodes -> Seq(Message)]
  BY <1>3, <1>5
<1>7. \A o \in Nodes : Len(boxes[o]) <= Len(inbox[o]) + 1
  BY <1>1, <1>3, <1>5
<1>8. \A x : InFlight(boxes, x) => InFlight(inbox, x)
  BY <1>1, <1>3, <1>4, <1>5 DEF InFlight
<1> QED BY <1>6, <1>7, <1>8

-----------------------------------------------------------------------------
(* NetTypes. *)

\* The queues are bounded by the faults so far: only a repeated frame exceeds them.
NetTypes ==
  /\ AllocationTypeOK
  /\ \A n \in Nodes : Len(inbox[n]) <= InboxSize + faults

\* What a node has to handle is of the type of a message once it is one or two frames
\* other than before.
LEMMA InboxTyped ==
  ASSUME NetTypes, faults' \in faults..MaxFaults, inbox' \in [Nodes -> Seq(Message)],
         \A n \in Nodes : \/ Len(inbox'[n]) <= InboxSize + faults'
                          \/ Len(inbox'[n]) <= Len(inbox[n])
  PROVE  /\ inbox' \in [Nodes -> Seq(Message)]
         /\ \A n \in Nodes : Len(inbox'[n]) <= InboxSize + faults'
         /\ \A n \in Nodes : Len(inbox'[n]) <= InboxSize + MaxFaults
         /\ faults' \in 0..MaxFaults
<1>1. /\ InboxSize \in Nat /\ MaxFaults \in Nat /\ faults \in 0..MaxFaults
      /\ \A n \in Nodes : Len(inbox[n]) \in Nat /\ Len(inbox[n]) <= InboxSize + faults
      /\ \A n \in Nodes : Len(inbox'[n]) \in Nat
  BY AllocationAssumption DEF NetTypes, AllocationTypeOK
<1> QED BY <1>1

LEMMA TypesInit == AllocationInit => NetTypes
<1> SUFFICES ASSUME AllocationInit
             PROVE  NetTypes
  OBVIOUS
<1> USE DEF AllocationInit
<1>1. /\ address \in [Devices -> Addresses]
      /\ asked \in [Devices -> 0..(AllocTimeout + 1)]
  BY AllocationAssumption DEF Addresses
<1>2. due \in [Devices -> 0..MaxInterval]
  BY AllocationAssumption DEF makeAllocInterval
<1>3. alloc \in [ongoing : BOOLEAN, age : 0..AllocTimeout, uid : Piece \X Piece \X Piece]
  BY AllocationAssumption DEF None, Piece
<1>4. /\ proxies \in [Images -> [address : Addresses, uid : {None} \union {Uid(d) : d \in Devices},
                                 quiet : 0..PurgeTimeout]]
      /\ attached \subseteq {i \in Images : valid(i)} /\ seen \subseteq Devices
  BY AllocationAssumption DEF NoImage, Addresses
<1>5. /\ inbox \in [Nodes -> Seq(Message)]
      /\ \A n \in Nodes : Len(inbox[n]) <= InboxSize + MaxFaults
      /\ \A n \in Nodes : Len(inbox[n]) <= InboxSize + faults
  BY AllocationAssumption
<1>6. asks \in 0..MaxAsks /\ faults \in 0..MaxFaults
  BY AllocationAssumption
<1>7. full \in BOOLEAN /\ forgotten \in BOOLEAN
  OBVIOUS
<1> QED BY <1>1, <1>2, <1>3, <1>4, <1>5, <1>6, <1>7 DEF NetTypes, AllocationTypeOK

\* The messages that are sent.
LEMMA MessagesSent ==
  /\ \A d \in Devices, p \in 0..2 : Ask(d, p) \in Message
  /\ \A p \in 0..2, u \in Piece \X Piece \X Piece, a \in Addresses : Tell(p, u, a) \in Message
  /\ \A a \in Addresses : StatusOf(a) \in Message
BY AllocationAssumption DEF Message, Ask, Tell, StatusOf, Uid, Piece

\* A unique id with one piece replaced.
LEMMA PieceReplaced ==
  ASSUME NEW u \in Piece \X Piece \X Piece, NEW k \in 1..3, NEW x \in Piece
  PROVE  [u EXCEPT ![k] = x] \in Piece \X Piece \X Piece
<1>1. u = <<u[1], u[2], u[3]>> /\ u[1] \in Piece /\ u[2] \in Piece /\ u[3] \in Piece
  OBVIOUS
<1>2. CASE k = 1
  <2>1. [u EXCEPT ![k] = x] = <<x, u[2], u[3]>>
    BY <1>1, <1>2
  <2> QED BY <1>1, <2>1
<1>3. CASE k = 2
  <2>1. [u EXCEPT ![k] = x] = <<u[1], x, u[3]>>
    BY <1>1, <1>3
  <2> QED BY <1>1, <2>1
<1>4. CASE k = 3
  <2>1. [u EXCEPT ![k] = x] = <<u[1], u[2], x>>
    BY <1>1, <1>4
  <2> QED BY <1>1, <2>1
<1> QED BY <1>2, <1>3, <1>4

\* A free image can be taken, and only one that is free is.
LEMMA ImageTaken ==
  ASSUME NetTypes, NEW a \in Addresses \ {0}, AttachImage(a)
  PROVE  /\ proxies' \in [Images -> [address : Addresses, uid : {None} \union {Uid(d) : d \in Devices},
                                     quiet : 0..PurgeTimeout]]
         /\ attached' \subseteq {i \in Images : proxies'[i].address # 0}
         /\ \A i \in Images : valid(i) => proxies'[i] = proxies[i]
         /\ \A i \in Images : proxies'[i] = proxies[i] \/ proxies'[i] = Image(a)
         /\ FreeImages # {} => \E i \in Images : proxies'[i].address = a
<1>1. CASE FreeImages = {}
  BY <1>1 DEF AttachImage, NetTypes, AllocationTypeOK, valid
<1>2. CASE FreeImages # {}
  <2> DEFINE i == Min(FreeImages)
  <2>1. FreeImages \in SUBSET Nat
    BY AllocationAssumption DEF FreeImages, Images
  <2>2. i \in FreeImages
    BY <1>2, <2>1, MinOf
  <2>3. /\ proxies' = [proxies EXCEPT ![i] = Image(a)]
        /\ attached' \subseteq attached \union {i}
    BY <1>2 DEF AttachImage, attach
  <2>4. /\ i \in Images /\ ~valid(i)
        /\ Image(a) \in [address : Addresses, uid : {None} \union {Uid(d) : d \in Devices},
                         quiet : 0..PurgeTimeout]
        /\ Image(a).address = a /\ a # 0
    BY <2>2, AllocationAssumption DEF FreeImages, Image
  <2> HIDE DEF i
  <2> QED BY <2>3, <2>4 DEF NetTypes, AllocationTypeOK, valid
<1> QED BY <1>1, <1>2

\* An address is found as long as an image is free, and no image has it.
LEMMA AddressFound ==
  ASSUME NetTypes
  PROVE  /\ findFreeAddress \in Addresses
         /\ FreeImages # {} => findFreeAddress # 0
         /\ findFreeAddress # 0 => isAddressFree(findFreeAddress)
<1>1. FirstAddress \in Nat /\ Entries \in Nat /\ Entries < FirstAddress
  BY AllocationAssumption
<1>2. FreeAddresses \in SUBSET (0..FirstAddress) /\ FreeAddresses \subseteq 1..FirstAddress
  BY <1>1 DEF FreeAddresses
<1>3. CASE FreeAddresses # {}
  <2>1. Max(FreeAddresses) \in FreeAddresses
    BY <1>1, <1>2, <1>3, Largest DEF Max
  <2> QED BY <1>2, <1>3, <2>1 DEF findFreeAddress, FreeAddresses, Addresses
<1>4. CASE FreeAddresses = {}
  <2>1. findFreeAddress = 0 /\ 0 \in Addresses
    BY <1>1, <1>4 DEF findFreeAddress, Addresses
  <2>2. ASSUME NEW i \in FreeImages
        PROVE  FALSE
    <3> DEFINE Taken == {proxies[j].address : j \in Images \ {i}}
    <3>1. i \in Images /\ proxies[i].address = 0
      BY DEF FreeImages, valid
    <3>2. 1..FirstAddress \subseteq Taken \union {HubAddress}
      <4> SUFFICES ASSUME NEW a \in 1..FirstAddress, a # HubAddress
                   PROVE  a \in Taken
        OBVIOUS
      <4>1. PICK j \in Images : proxies[j].address = a
        BY <1>4 DEF FreeAddresses, isAddressFree
      <4>2. j # i
        BY <3>1, <4>1
      <4> QED BY <4>1, <4>2
    <3>3. IsFiniteSet(Images) /\ Cardinality(Images) = Entries
      BY <1>1, FS_Interval DEF Images
    <3>4. /\ IsFiniteSet(Images \ {i})
          /\ Cardinality(Images \ {i}) = Entries - 1
      BY <3>1, <3>3, FS_RemoveElement
    <3>5. IsFiniteSet(Taken) /\ Cardinality(Taken) <= Entries - 1
      <4> DEFINE f == [j \in Images \ {i} |-> proxies[j].address]
      <4>1. f \in Surjection(Images \ {i}, Taken)
        BY DEF Surjection
      <4> HIDE DEF f, Taken
      <4>2. IsFiniteSet(Taken) /\ Cardinality(Taken) <= Cardinality(Images \ {i})
        BY <3>4, <4>1, FS_Surjection
      <4> QED BY <3>4, <4>2
    <3> HIDE DEF Taken
    <3>6. /\ IsFiniteSet(Taken \union {HubAddress})
          /\ Cardinality(Taken \union {HubAddress}) <= Entries
      <4>1. /\ IsFiniteSet(Taken \union {HubAddress})
            /\ Cardinality(Taken \union {HubAddress}) =
                 IF HubAddress \in Taken THEN Cardinality(Taken) ELSE Cardinality(Taken) + 1
        BY <3>5, FS_AddElement
      <4>2. Cardinality(Taken) \in Nat
        BY <3>5, FS_CardinalityType
      <4> QED BY <1>1, <3>5, <4>1, <4>2
    <3>7. Cardinality(1..FirstAddress) <= Cardinality(Taken \union {HubAddress})
      BY <3>2, <3>6, FS_Subset
    <3>8. Cardinality(1..FirstAddress) = FirstAddress
      BY <1>1, FS_Interval
    <3>9. Cardinality(Taken \union {HubAddress}) \in Nat
      BY <3>6, FS_CardinalityType
    <3> QED BY <1>1, <3>6, <3>7, <3>8, <3>9
  <2> QED BY <2>1, <2>2
<1> QED BY <1>3, <1>4

\* The types by the part of the state they are about.
DeviceTypes ==
  /\ address \in [Devices -> Addresses]
  /\ asked \in [Devices -> 0..(AllocTimeout + 1)] /\ due \in [Devices -> 0..MaxInterval]

ImageTypes ==
  /\ proxies \in [Images -> [address : Addresses, uid : {None} \union {Uid(d) : d \in Devices},
                             quiet : 0..PurgeTimeout]]
  /\ attached \subseteq {i \in Images : valid(i)} /\ seen \subseteq Devices

AllocTypes ==
  alloc \in [ongoing : BOOLEAN, age : 0..AllocTimeout, uid : Piece \X Piece \X Piece]

InboxTypes ==
  /\ inbox \in [Nodes -> Seq(Message)]
  /\ \A n \in Nodes : Len(inbox[n]) <= InboxSize + MaxFaults
  /\ \A n \in Nodes : Len(inbox[n]) <= InboxSize + faults

CountTypes == asks \in 0..MaxAsks /\ faults \in 0..MaxFaults

FlagTypes == full \in BOOLEAN /\ forgotten \in BOOLEAN

LEMMA TypesSplit ==
  NetTypes <=> DeviceTypes /\ ImageTypes /\ AllocTypes /\ InboxTypes /\ CountTypes /\ FlagTypes
BY Zenon DEF NetTypes, AllocationTypeOK, DeviceTypes, ImageTypes, AllocTypes, InboxTypes, CountTypes,
          FlagTypes

LEMMA TypesJoined ==
  ASSUME DeviceTypes', ImageTypes', AllocTypes', InboxTypes', CountTypes', FlagTypes'
  PROVE  NetTypes'
BY Zenon DEF NetTypes, AllocationTypeOK, DeviceTypes, ImageTypes, AllocTypes, InboxTypes, CountTypes,
          FlagTypes

\* A queue handled or sent to.
LEMMA InboxSent ==
  ASSUME NetTypes, faults' = faults, NEW n \in Nodes, inbox[n] # <<>>,
         NEW from, NEW m \in Message, inbox' = Broadcast(Handled(n), from, m)
  PROVE  InboxTypes'
<1>1. inbox \in [Nodes -> Seq(Message)] /\ faults \in 0..MaxFaults /\ InboxSize \in Nat
  BY AllocationAssumption DEF NetTypes, AllocationTypeOK
<1>2. /\ Handled(n) \in [Nodes -> Seq(Message)]
      /\ \A o \in Nodes : Len(Handled(n)[o]) <= Len(inbox[o])
  BY <1>1, HandledLeaves
<1>3. /\ inbox' \in [Nodes -> Seq(Message)]
      /\ \A o \in Nodes : Len(inbox'[o]) <= InboxSize \/ Len(inbox'[o]) = Len(Handled(n)[o])
  BY <1>2, BroadcastAdds
<1>4. \A o \in Nodes : Len(inbox'[o]) <= InboxSize + faults' \/ Len(inbox'[o]) <= Len(inbox[o])
  <2> SUFFICES ASSUME NEW o \in Nodes
               PROVE  Len(inbox'[o]) <= InboxSize + faults' \/ Len(inbox'[o]) <= Len(inbox[o])
    OBVIOUS
  <2>1. Len(inbox'[o]) \in Nat
    BY <1>3
  <2> QED BY <1>1, <1>2, <1>3, <2>1
<1>5. MaxFaults \in Nat /\ faults' \in faults..MaxFaults
  BY <1>1, AllocationAssumption
<1> QED BY <1>3, <1>4, <1>5, InboxTyped DEF InboxTypes

LEMMA InboxHandled ==
  ASSUME NetTypes, faults' \in faults..MaxFaults, NEW n \in Nodes, inbox[n] # <<>>,
         inbox' = Handled(n)
  PROVE  InboxTypes'
<1>1. inbox \in [Nodes -> Seq(Message)]
  BY DEF NetTypes, AllocationTypeOK
<1> QED BY <1>1, HandledLeaves, InboxTyped DEF InboxTypes

LEMMA InboxBroadcast ==
  ASSUME NetTypes, faults' = faults, NEW from, NEW m \in Message,
         inbox' = Broadcast(inbox, from, m)
  PROVE  InboxTypes'
<1>1. inbox \in [Nodes -> Seq(Message)] /\ faults \in 0..MaxFaults /\ InboxSize \in Nat
  BY AllocationAssumption DEF NetTypes, AllocationTypeOK
<1>2. /\ inbox' \in [Nodes -> Seq(Message)]
      /\ \A o \in Nodes : Len(inbox'[o]) <= InboxSize \/ Len(inbox'[o]) = Len(inbox[o])
  BY <1>1, BroadcastAdds
<1>3. \A o \in Nodes : Len(inbox'[o]) <= InboxSize + faults' \/ Len(inbox'[o]) <= Len(inbox[o])
  <2> SUFFICES ASSUME NEW o \in Nodes
               PROVE  Len(inbox'[o]) <= InboxSize + faults' \/ Len(inbox'[o]) <= Len(inbox[o])
    OBVIOUS
  <2>1. Len(inbox'[o]) \in Nat /\ Len(inbox[o]) \in Nat
    BY <1>1, <1>2
  <2> QED BY <1>1, <1>2, <2>1
<1>4. MaxFaults \in Nat /\ faults' \in faults..MaxFaults
  BY <1>1, AllocationAssumption
<1> QED BY <1>2, <1>3, <1>4, InboxTyped DEF InboxTypes

\* Images that go leave free entries, and no handler that knows them.
LEMMA ImagesGone ==
  ASSUME NetTypes, NEW gone \in SUBSET Images, Detach(gone)
  PROVE  ImageTypes'
<1>1. NoImage \in [address : Addresses, uid : {None} \union {Uid(d) : d \in Devices},
                   quiet : 0..PurgeTimeout]
  BY AllocationAssumption DEF NoImage, Addresses
<1> QED BY <1>1 DEF Detach, NetTypes, AllocationTypeOK, ImageTypes, valid

LEMMA InboxKept ==
  ASSUME NetTypes, faults' \in faults..MaxFaults, inbox' = inbox
  PROVE  InboxTypes'
<1>1. inbox \in [Nodes -> Seq(Message)] /\ \A n \in Nodes : Len(inbox[n]) \in Nat
  BY DEF NetTypes, AllocationTypeOK
<1> QED BY <1>1, InboxTyped DEF InboxTypes

LEMMA RequestTypes ==
  ASSUME NetTypes, NEW d \in Devices, RequestAllocation(d)
  PROVE  NetTypes'
<1>1. DeviceTypes'
  <2>1. MinInterval..MaxInterval \subseteq 0..MaxInterval /\ 0 \in 0..(AllocTimeout + 1)
    BY AllocationAssumption
  <2> QED BY <2>1, TypesSplit DEF RequestAllocation, DeviceTypes, makeAllocInterval
<1>2. ImageTypes' /\ AllocTypes' /\ FlagTypes'
  BY TypesSplit DEF RequestAllocation, hubVars, imageVars, ImageTypes, AllocTypes, FlagTypes, valid
<1>3. InboxTypes'
  <2>1. Ask(d, 0) \in Message
    BY MessagesSent
  <2> QED BY <2>1, InboxBroadcast DEF RequestAllocation
<1>4. CountTypes'
  <2>1. asks \in 0..MaxAsks /\ MaxAsks \in Nat /\ faults' = faults /\ faults \in 0..MaxFaults
    BY AllocationAssumption DEF RequestAllocation, NetTypes, AllocationTypeOK
  <2>2. asks' = IF asks + 1 <= MaxAsks THEN asks + 1 ELSE MaxAsks
    BY <2>1, PairMin DEF RequestAllocation
  <2> QED BY <2>1, <2>2 DEF CountTypes
<1> QED BY <1>1, <1>2, <1>3, <1>4, TypesJoined

LEMMA StatusTypes ==
  ASSUME NetTypes, NEW d \in Devices, SendNodeStatus(d)
  PROVE  NetTypes'
<1>1. DeviceTypes' /\ ImageTypes' /\ AllocTypes' /\ FlagTypes' /\ CountTypes'
  BY TypesSplit DEF SendNodeStatus, deviceVars, hubVars, imageVars, DeviceTypes, ImageTypes,
                    AllocTypes, FlagTypes, CountTypes, valid
<1>2. InboxTypes'
  <2>1. StatusOf(address[d]) \in Message
    BY MessagesSent DEF NetTypes, AllocationTypeOK
  <2> QED BY <2>1, InboxBroadcast DEF SendNodeStatus
<1> QED BY <1>1, <1>2, TypesJoined

LEMMA RestartTypes ==
  ASSUME NetTypes, NEW d \in Devices, DeviceRestart(d)
  PROVE  NetTypes'
<1>1. faults \in 0..MaxFaults /\ MaxFaults \in Nat /\ faults' = faults + 1 /\ faults < MaxFaults
  BY AllocationAssumption DEF DeviceRestart, NetTypes, AllocationTypeOK
<1>2. DeviceTypes'
  <2>1. /\ MinInterval..MaxInterval \subseteq 0..MaxInterval /\ 0 \in 0..(AllocTimeout + 1)
        /\ 0 \in Addresses
    BY AllocationAssumption DEF Addresses
  <2> QED BY <2>1, TypesSplit DEF DeviceRestart, DeviceTypes, makeAllocInterval
<1>3. ImageTypes' /\ AllocTypes' /\ FlagTypes'
  BY TypesSplit DEF DeviceRestart, hubVars, imageVars, ImageTypes, AllocTypes, FlagTypes, valid
<1>4. InboxTypes'
  BY <1>1, InboxKept DEF DeviceRestart
<1>5. CountTypes'
  BY <1>1 DEF DeviceRestart, NetTypes, AllocationTypeOK, CountTypes
<1> QED BY <1>2, <1>3, <1>4, <1>5, TypesJoined

LEMMA DeviceReceiveTypes ==
  ASSUME NetTypes, NEW b \in Boards, DeviceReceive(b)
  PROVE  NetTypes'
<1> DEFINE m    == Head(inbox[b])
           hits == {d \in OnBoard(b) : Matches(d, m)}
           onward == {d \in hits : m.part < 2}
<1>1. b \in Nodes /\ inbox[b] # <<>> /\ inbox \in [Nodes -> Seq(Message)]
  BY DEF Nodes, DeviceReceive, NetTypes, AllocationTypeOK
<1>2. m \in Message
  BY <1>1, HandledLeaves
<1>3. m.part \in 0..2 /\ m.address \in Addresses
  BY <1>2, AllocationAssumption DEF Message, Addresses
<1>4. DeviceTypes'
  <2>1. /\ address' = [d \in Devices |-> IF d \in hits /\ m.part = 2 /\ m.address # 0
                                         THEN m.address ELSE address[d]]
        /\ asked' = asked
        /\ \E t \in [OnBoard(b) -> makeAllocInterval] :
             due' = [d \in Devices |-> IF d \in OnBoard(b) THEN t[d] ELSE due[d]]
    BY DEF DeviceReceive
  <2> HIDE DEF m, hits, onward
  <2>2. address' \in [Devices -> Addresses]
    BY <1>3, <2>1 DEF NetTypes, AllocationTypeOK
  <2>3. due' \in [Devices -> 0..MaxInterval]
    BY <2>1, AllocationAssumption, SMTT(20) DEF NetTypes, AllocationTypeOK, makeAllocInterval
  <2> QED BY <2>1, <2>2, <2>3 DEF NetTypes, AllocationTypeOK, DeviceTypes
<1>5. ImageTypes' /\ AllocTypes' /\ FlagTypes' /\ CountTypes'
  BY TypesSplit DEF DeviceReceive, hubVars, imageVars, ImageTypes, AllocTypes, FlagTypes,
                    CountTypes, valid
<1>6. InboxTypes'
  <2>1. /\ inbox' = IF onward = {} THEN Handled(b)
                    ELSE Broadcast(Handled(b), b, Ask(CHOOSE d \in onward : TRUE, m.part + 1))
        /\ faults' = faults
    BY DEF DeviceReceive
  <2>2. CASE onward = {}
    <3>1. faults' \in faults..MaxFaults
      BY <2>1, AllocationAssumption DEF NetTypes, AllocationTypeOK
    <3> QED BY <1>1, <2>1, <2>2, <3>1, InboxHandled
  <2>3. CASE onward # {}
    <3> DEFINE d == CHOOSE e \in onward : TRUE
    <3>1. d \in onward
      BY <2>3
    <3>2. d \in Devices /\ m.part + 1 \in 0..2
      BY <1>3, <3>1 DEF OnBoard
    <3>3. Ask(d, m.part + 1) \in Message
      BY <3>2, MessagesSent
    <3> HIDE DEF d, onward, hits
    <3>4. inbox' = Broadcast(Handled(b), b, Ask(d, m.part + 1))
      BY <2>1, <2>3 DEF d
    <3> QED BY <1>1, <2>1, <3>3, <3>4, InboxSent
  <2> QED BY <2>2, <2>3
<1> QED BY <1>4, <1>5, <1>6, TypesJoined

LEMMA InfoTypes ==
  ASSUME NetTypes, NEW i \in Images, NEW d \in Devices, NodeInfoReceived(i, d)
  PROVE  NetTypes'
<1>1. ImageTypes'
  <2>1. 0 \in 0..PurgeTimeout /\ Uid(d) \in {None} \union {Uid(e) : e \in Devices}
    BY AllocationAssumption
  <2>2. ImageTypes
    BY TypesSplit
  <2> QED BY <2>1, <2>2 DEF NodeInfoReceived, ImageTypes, valid
<1>2. DeviceTypes' /\ AllocTypes' /\ FlagTypes' /\ InboxTypes' /\ CountTypes'
  BY TypesSplit DEF NodeInfoReceived, deviceVars, DeviceTypes, AllocTypes, FlagTypes, InboxTypes,
                    CountTypes
<1> QED BY <1>1, <1>2, TypesJoined

\* Whichever way images go.
LEMMA DetachTypes ==
  ASSUME NetTypes, NEW gone \in SUBSET Images, Detach(gone), faults' \in faults..MaxFaults
  PROVE  NetTypes'
<1>1. ImageTypes'
  BY ImagesGone
<1>2. DeviceTypes' /\ AllocTypes'
  BY TypesSplit DEF Detach, deviceVars, DeviceTypes, AllocTypes
<1>3. FlagTypes'
  BY TypesSplit, Zenon DEF Detach, FlagTypes
<1>4. InboxTypes'
  BY InboxKept DEF Detach
<1>5. CountTypes'
  BY AllocationAssumption DEF Detach, NetTypes, AllocationTypeOK, CountTypes
<1> QED BY <1>1, <1>2, <1>3, <1>4, <1>5, TypesJoined

LEMMA FrameTypes ==
  ASSUME NetTypes, NEW n \in Nodes, FrameLost(n) \/ FrameRepeated(n)
  PROVE  NetTypes'
<1>1. /\ faults \in 0..MaxFaults /\ MaxFaults \in Nat /\ faults' = faults + 1 /\ faults < MaxFaults
      /\ inbox \in [Nodes -> Seq(Message)] /\ inbox[n] # <<>> /\ InboxSize \in Nat
  BY AllocationAssumption DEF FrameLost, FrameRepeated, NetTypes, AllocationTypeOK
<1>2. DeviceTypes' /\ ImageTypes' /\ AllocTypes' /\ FlagTypes'
  BY TypesSplit DEF FrameLost, FrameRepeated, deviceVars, hubVars, imageVars, DeviceTypes, ImageTypes,
                    AllocTypes, FlagTypes, valid
<1>3. CountTypes'
  BY <1>1 DEF FrameLost, FrameRepeated, NetTypes, AllocationTypeOK, CountTypes
<1>4. InboxTypes'
  <2>1. CASE FrameLost(n)
    BY <1>1, <2>1, InboxHandled DEF FrameLost
  <2>2. CASE FrameRepeated(n)
    <3>1. /\ inbox' \in [Nodes -> Seq(Message)]
          /\ \A o \in Nodes : Len(inbox'[o]) <= Len(inbox[o]) + 1
      BY <1>1, <2>2, RepeatedAdds DEF FrameRepeated
    <3>2. \A o \in Nodes : Len(inbox'[o]) <= InboxSize + faults'
      <4> SUFFICES ASSUME NEW o \in Nodes
                   PROVE  Len(inbox'[o]) <= InboxSize + faults'
        OBVIOUS
      <4>1. Len(inbox'[o]) \in Nat /\ Len(inbox[o]) \in Nat /\ Len(inbox[o]) <= InboxSize + faults
        BY <1>1, <3>1 DEF NetTypes
      <4> QED BY <1>1, <3>1, <4>1
    <3> QED BY <1>1, <3>1, <3>2, InboxTyped DEF InboxTypes
  <2> QED BY <2>1, <2>2
<1> QED BY <1>2, <1>3, <1>4, TypesJoined

LEMMA TickTypes ==
  ASSUME NetTypes, Tick
  PROVE  NetTypes'
<1>1. DeviceTypes'
  <2>1. /\ asked' = [d \in Devices |-> Min({asked[d] + 1, AllocTimeout + 1})]
        /\ due' = [d \in Devices |-> Max({due[d] - 1, 0})] /\ address' = address
    BY DEF Tick
  <2>2. ASSUME NEW d \in Devices
        PROVE  Min({asked[d] + 1, AllocTimeout + 1}) \in 0..(AllocTimeout + 1)
    <3>1. asked[d] \in 0..(AllocTimeout + 1) /\ AllocTimeout \in Nat
      BY AllocationAssumption, TypesSplit DEF DeviceTypes
    <3>2. Min({asked[d] + 1, AllocTimeout + 1}) =
            IF asked[d] + 1 <= AllocTimeout + 1 THEN asked[d] + 1 ELSE AllocTimeout + 1
      BY <3>1, PairMin
    <3> QED BY <3>1, <3>2
  <2>3. ASSUME NEW d \in Devices
        PROVE  Max({due[d] - 1, 0}) \in 0..MaxInterval
    <3>1. due[d] \in 0..MaxInterval /\ MaxInterval \in Nat
      BY AllocationAssumption, TypesSplit DEF DeviceTypes
    <3>2. Max({due[d] - 1, 0}) = IF due[d] - 1 >= 0 THEN due[d] - 1 ELSE 0
      BY <3>1, PairMax
    <3> QED BY <3>1, <3>2
    <2> QED BY <2>1, <2>2, <2>3, TypesSplit DEF DeviceTypes
<1>2. AllocTypes'
  <2>1. alloc.age \in 0..AllocTimeout /\ AllocTimeout \in Nat
    BY AllocationAssumption DEF NetTypes, AllocationTypeOK
  <2>2. Min({alloc.age + 1, AllocTimeout}) \in 0..AllocTimeout
    BY <2>1, PairMin
  <2>3. alloc' = [alloc EXCEPT !.age = Min({alloc.age + 1, AllocTimeout})]
    BY DEF Tick
  <2> QED BY <2>2, <2>3 DEF NetTypes, AllocationTypeOK, AllocTypes
<1>3. ImageTypes'
  <2>1. PurgeTimeout \in Nat
    BY AllocationAssumption
  <2>2. ASSUME NEW i \in Images
        PROVE  Min({proxies[i].quiet + 1, PurgeTimeout}) \in 0..PurgeTimeout
    <3>1. proxies[i].quiet \in 0..PurgeTimeout
      BY TypesSplit DEF ImageTypes
    <3>2. Min({proxies[i].quiet + 1, PurgeTimeout}) =
            IF proxies[i].quiet + 1 <= PurgeTimeout THEN proxies[i].quiet + 1 ELSE PurgeTimeout
      BY <2>1, <3>1, PairMin
    <3> QED BY <2>1, <3>1, <3>2
  <2>3. /\ proxies' = [i \in Images |->
                   IF valid(i)
                   THEN [proxies[i] EXCEPT !.quiet = Min({proxies[i].quiet + 1, PurgeTimeout})]
                   ELSE proxies[i]]
        /\ attached' = attached /\ seen' = seen
    BY DEF Tick
  <2> QED BY <2>2, <2>3 DEF NetTypes, AllocationTypeOK, ImageTypes, valid
<1>4. InboxTypes' /\ FlagTypes' /\ CountTypes'
  BY TypesSplit DEF Tick, InboxTypes, FlagTypes, CountTypes
<1> QED BY <1>1, <1>2, <1>3, <1>4, TypesJoined

\* The hub: a first part, a later one, a status.
LEMMA FirstPartTypes ==
  ASSUME NetTypes, NEW m \in Message, m = Head(inbox[Hub]), FirstPart(m), inbox[Hub] # <<>>,
         UNCHANGED <<deviceVars, seen, forgotten, asks, faults>>
  PROVE  NetTypes'
<1> DEFINE u == <<m.uid[1], 0, 0>>
<1>1. Hub \in Nodes /\ faults \in 0..MaxFaults /\ MaxFaults \in Nat /\ 0 \in 0..AllocTimeout
  BY AllocationAssumption, TypesSplit DEF Nodes, CountTypes
<1>2. u \in Piece \X Piece \X Piece
  BY AllocationAssumption DEF FirstPart, Message, Piece
<1>3. Tell(0, u, 0) \in Message
  BY <1>2, MessagesSent, AllocationAssumption DEF Addresses
<1> HIDE DEF u
<1>4. DeviceTypes' /\ ImageTypes' /\ FlagTypes' /\ CountTypes'
  BY TypesSplit DEF FirstPart, deviceVars, DeviceTypes, ImageTypes, FlagTypes, CountTypes, valid
<1>5. AllocTypes' /\ InboxTypes'
  <2>1. CASE alloc.ongoing /\ alloc.age < AllocTimeout
    <3>1. alloc' = [alloc EXCEPT !.ongoing = FALSE] /\ inbox' = Handled(Hub)
      BY <2>1 DEF FirstPart
    <3>2. AllocTypes'
      BY <3>1, TypesSplit DEF AllocTypes
    <3>3. faults' \in faults..MaxFaults
      BY <1>1
    <3> QED BY <1>1, <3>1, <3>2, <3>3, InboxHandled
  <2>2. CASE ~(alloc.ongoing /\ alloc.age < AllocTimeout)
    <3>1. alloc' = [ongoing |-> TRUE, age |-> 0, uid |-> u] /\ Answer(Tell(0, u, 0))
      BY <2>2 DEF FirstPart, u
    <3>2. AllocTypes'
      BY <1>1, <1>2, <3>1 DEF AllocTypes
    <3> QED BY <1>1, <1>3, <3>1, <3>2, InboxSent DEF Answer
  <2> QED BY <2>1, <2>2
<1> QED BY <1>4, <1>5, TypesJoined

\* What attachDevice does, whichever address it is: an image is taken for a new one.
LEMMA DeviceAttached ==
  ASSUME NetTypes, NEW u \in Piece \X Piece \X Piece, NEW a \in Addresses, attachDevice(u, a)
  PROVE  /\ proxies' \in [Images -> [address : Addresses, uid : {None} \union {Uid(d) : d \in Devices},
                                     quiet : 0..PurgeTimeout]]
         /\ attached' \subseteq {i \in Images : proxies'[i].address # 0}
         /\ \A i \in Images : valid(i) => proxies'[i] = proxies[i]
         /\ \A i \in Images : proxies'[i] = proxies[i] \/ proxies'[i] = Image(a)
         /\ full' \in BOOLEAN /\ (full => full')
         /\ \/ \E i \in Known(u) : a = proxies[i].address
            \/ full'
            \/ isAddressFree(a) /\ \E i \in Images : proxies'[i].address = a
<1>1. CASE Known(u) # {}
  <2>1. Known(u) \in SUBSET Nat
    BY AllocationAssumption DEF Known, Images
  <2>2. Min(Known(u)) \in Known(u)
    BY <1>1, <2>1, MinOf
  <2>3. a = proxies[Min(Known(u))].address /\ proxies' = proxies /\ attached' = attached /\ full' = full
    BY <1>1 DEF attachDevice
  <2>4. ImageTypes /\ full \in BOOLEAN
    BY TypesSplit DEF FlagTypes
  <2> QED BY <2>2, <2>3, <2>4 DEF ImageTypes, valid
<1>2. CASE Known(u) = {}
  <2>1. a = findFreeAddress /\ AttachImage(a) /\ full' = (full \/ FreeImages = {})
    BY <1>2 DEF attachDevice
  <2>2. full' \in BOOLEAN /\ (full => full') /\ (FreeImages = {} => full')
    BY <2>1
  <2>3. CASE FreeImages = {}
    <3>1. proxies' = proxies /\ attached' = attached
      BY <2>1, <2>3 DEF AttachImage
    <3> QED BY <2>2, <2>3, <3>1, TypesSplit DEF ImageTypes, valid
  <2>4. CASE FreeImages # {}
    <3>1. a \in Addresses \ {0} /\ isAddressFree(a)
      BY <2>1, <2>4, AddressFound
    <3> QED BY <2>1, <2>2, <2>4, <3>1, ImageTaken
  <2> QED BY <2>3, <2>4
<1> QED BY <1>1, <1>2

LEMMA LaterPartTypes ==
  ASSUME NetTypes, NEW m \in Message, m = Head(inbox[Hub]), LaterPart(m), inbox[Hub] # <<>>,
         UNCHANGED <<deviceVars, seen, forgotten, asks, faults>>
  PROVE  NetTypes'
<1> DEFINE u == [alloc.uid EXCEPT ![m.part + 1] = m.uid[m.part + 1]]
<1>1. Hub \in Nodes /\ faults \in 0..MaxFaults /\ MaxFaults \in Nat /\ 0 \in Addresses
  BY AllocationAssumption, TypesSplit DEF Nodes, CountTypes, Addresses
<1>2. u \in Piece \X Piece \X Piece
  <2>1. m.part \in 0..2 /\ m.uid \in Piece \X Piece \X Piece
    BY DEF LaterPart, Message
  <2>2. m.part + 1 \in 1..3 /\ m.uid[m.part + 1] \in Piece /\ alloc.uid \in Piece \X Piece \X Piece
    BY <2>1, TypesSplit DEF AllocTypes
  <2> QED BY <2>2, PieceReplaced
<1> HIDE DEF u
<1>3. DeviceTypes' /\ CountTypes'
  BY TypesSplit DEF deviceVars, DeviceTypes, CountTypes
<1>4. CASE ~alloc.ongoing \/ alloc.age >= AllocTimeout
  <2>1. /\ alloc' = [alloc EXCEPT !.ongoing = FALSE] /\ inbox' = Handled(Hub)
        /\ UNCHANGED <<proxies, attached, full>>
    BY <1>4 DEF LaterPart
  <2>2. AllocTypes' /\ ImageTypes' /\ FlagTypes'
    BY <2>1, TypesSplit DEF AllocTypes, ImageTypes, FlagTypes, valid
  <2>3. faults' \in faults..MaxFaults
    BY <1>1
  <2>4. InboxTypes'
    BY <1>1, <2>1, <2>3, InboxHandled
  <2> QED BY <1>3, <2>2, <2>4, TypesJoined
<1>5. CASE ~(~alloc.ongoing \/ alloc.age >= AllocTimeout)
  <2>1. /\ alloc' = [alloc EXCEPT !.uid = u, !.ongoing = m.part = 1]
        /\ \/ m.part = 1 /\ Answer(Tell(1, u, 0)) /\ UNCHANGED <<proxies, attached, full>>
           \/ m.part = 2 /\ \E a \in Addresses : attachDevice(u, a) /\ Answer(Tell(2, u, a))
    BY <1>5, Zenon DEF LaterPart, u
  <2>2. AllocTypes'
    BY <1>2, <2>1, TypesSplit DEF AllocTypes
  <2>3. CASE m.part = 1 /\ Answer(Tell(1, u, 0)) /\ UNCHANGED <<proxies, attached, full>>
    <3>1. ImageTypes' /\ FlagTypes'
      BY <2>3, TypesSplit DEF ImageTypes, FlagTypes, valid
    <3>2. Tell(1, u, 0) \in Message
      BY <1>1, <1>2, MessagesSent
    <3>3. InboxTypes'
      BY <1>1, <2>3, <3>2, InboxSent DEF Answer
    <3> QED BY <1>3, <2>2, <3>1, <3>3, TypesJoined
  <2>4. ASSUME NEW a \in Addresses, attachDevice(u, a), Answer(Tell(2, u, a))
        PROVE  NetTypes'
    <3>1. ImageTypes'
      BY <1>2, <2>4, DeviceAttached, TypesSplit DEF ImageTypes, valid
    <3>2. FlagTypes'
      BY <1>2, <2>4, DeviceAttached, TypesSplit DEF FlagTypes
    <3>3. Tell(2, u, a) \in Message
      BY <1>2, MessagesSent
    <3>4. InboxTypes'
      BY <1>1, <2>4, <3>3, InboxSent DEF Answer
    <3> QED BY <1>3, <2>2, <3>1, <3>2, <3>4, TypesJoined
  <2> QED BY <2>1, <2>3, <2>4
<1> QED BY <1>4, <1>5

LEMMA StatusReceivedTypes ==
  ASSUME NetTypes, NEW m \in Message, m = Head(inbox[Hub]), StatusReceived(m), inbox[Hub] # <<>>,
         UNCHANGED <<deviceVars, seen, forgotten, asks, faults>>
  PROVE  NetTypes'
<1>1. Hub \in Nodes /\ faults \in 0..MaxFaults /\ MaxFaults \in Nat /\ 0 \in 0..PurgeTimeout
  BY AllocationAssumption, TypesSplit DEF Nodes, CountTypes
<1>2. DeviceTypes' /\ CountTypes' /\ AllocTypes' /\ FlagTypes'
  BY TypesSplit DEF StatusReceived, deviceVars, DeviceTypes, CountTypes, AllocTypes, FlagTypes
<1>3. InboxTypes'
  <2>1. faults' \in faults..MaxFaults
    BY <1>1
  <2> QED BY <1>1, <2>1, InboxHandled DEF StatusReceived
<1>4. ImageTypes'
  <2>1. CASE \E i \in Images : proxies[i].address = m.address
    <3>1. /\ proxies' = [i \in Images |->
                           IF i \in attached /\ proxies[i].address = m.address
                           THEN [proxies[i] EXCEPT !.quiet = 0] ELSE proxies[i]]
          /\ attached' = attached /\ seen' = seen
      BY <2>1 DEF StatusReceived
    <3>2. ImageTypes
      BY TypesSplit
    <3> QED BY <1>1, <3>1, <3>2 DEF ImageTypes, valid
  <2>2. CASE ~\E i \in Images : proxies[i].address = m.address
    <3>1. AttachImage(m.address) /\ m.address \in Addresses /\ seen' = seen
      BY <2>2, AllocationAssumption DEF StatusReceived, Message, Addresses
    <3>2. CASE FreeImages = {}
      BY <3>1, <3>2, TypesSplit DEF AttachImage, ImageTypes, valid
    <3>3. CASE FreeImages # {}
      <4>1. m.address # 0
        BY <2>2, <3>3 DEF FreeImages, valid
      <4> QED BY <3>1, <4>1, ImageTaken, TypesSplit DEF ImageTypes, valid
    <3> QED BY <3>2, <3>3
  <2> QED BY <2>1, <2>2
<1> QED BY <1>2, <1>3, <1>4, TypesJoined

LEMMA TypesNext == NetTypes /\ [AllocationNext]_allocationVars => NetTypes'
<1> SUFFICES ASSUME NetTypes, [AllocationNext]_allocationVars
             PROVE  NetTypes'
  OBVIOUS
<1>0. faults \in 0..MaxFaults /\ MaxFaults \in Nat
  BY AllocationAssumption, TypesSplit DEF CountTypes
<1>1. ASSUME NEW d \in Devices, RequestAllocation(d) \/ SendNodeStatus(d) \/ DeviceRestart(d)
      PROVE  NetTypes'
  BY <1>1, RequestTypes, StatusTypes, RestartTypes
<1>2. ASSUME NEW b \in Boards, DeviceReceive(b)
      PROVE  NetTypes'
  BY <1>2, DeviceReceiveTypes
<1>3. CASE HubReceive
  <2> DEFINE m == Head(inbox[Hub])
  <2>1. /\ inbox[Hub] # <<>> /\ (FirstPart(m) \/ LaterPart(m) \/ StatusReceived(m))
        /\ UNCHANGED <<deviceVars, seen, forgotten, asks, faults>>
    BY <1>3 DEF HubReceive
  <2>2. m \in Message
    BY <2>1, HandledLeaves, TypesSplit DEF InboxTypes, Nodes
  <2> HIDE DEF m
  <2>3. m = Head(inbox[Hub])
    BY DEF m
  <2> QED BY <2>1, <2>2, <2>3, FirstPartTypes, LaterPartTypes, StatusReceivedTypes
<1>4. ASSUME NEW i \in Images, NEW d \in Devices, NodeInfoReceived(i, d)
      PROVE  NetTypes'
  BY <1>4, InfoTypes
<1>5. CASE purgeOfflineNodes
  <2> DEFINE offline == {i \in Images : valid(i) /\ proxies[i].quiet >= PurgeTimeout}
             gone == IF \E i \in offline : InUse(proxies[i].address) THEN 1 ELSE 0
  <2>1. faults + gone <= MaxFaults /\ faults' = faults + gone /\ Detach(offline)
    BY <1>5 DEF purgeOfflineNodes
  <2>2. gone \in {0, 1} /\ offline \in SUBSET Images
    OBVIOUS
  <2> HIDE DEF offline, gone
  <2>3. faults' \in faults..MaxFaults
    BY <1>0, <2>1, <2>2
  <2> QED BY <2>1, <2>2, <2>3, DetachTypes
<1>6. CASE purgeAll
  <2>1. faults' \in faults..MaxFaults
    BY <1>0, <1>6 DEF purgeAll
  <2> QED BY <1>6, <2>1, DetachTypes DEF purgeAll
<1>7. ASSUME NEW d \in Devices, purge(Uid(d))
      PROVE  NetTypes'
  <2>1. Known(Uid(d)) \in SUBSET Nat
    BY AllocationAssumption DEF Known, Images
  <2>2. Min(Known(Uid(d))) \in Known(Uid(d))
    BY <1>7, <2>1, MinOf DEF purge
  <2>3. {Min(Known(Uid(d)))} \in SUBSET Images
    BY <2>2 DEF Known
  <2>4. faults' \in faults..MaxFaults
    BY <1>0, <1>7 DEF purge
  <2> QED BY <1>7, <2>3, <2>4, DetachTypes DEF purge
<1>8. ASSUME NEW n \in Nodes, FrameLost(n) \/ FrameRepeated(n)
      PROVE  NetTypes'
  BY <1>8, FrameTypes
<1>9. CASE Tick
  BY <1>9, TickTypes
<1>10. CASE UNCHANGED allocationVars
  <2>1. DeviceTypes' /\ ImageTypes' /\ AllocTypes' /\ InboxTypes' /\ CountTypes' /\ FlagTypes'
    BY <1>10, TypesSplit DEF allocationVars, deviceVars, hubVars, imageVars, DeviceTypes, ImageTypes,
         AllocTypes, InboxTypes, CountTypes, FlagTypes, valid
  <2> QED BY <2>1, TypesJoined
<1> QED BY <1>1, <1>2, <1>3, <1>4, <1>5, <1>6, <1>7, <1>8, <1>9, <1>10 DEF AllocationNext

\* Values of every variable, the queues of the nodes bounded, and no image known to
\* the handler of the hub whose entry is free.
THEOREM AllocationTypes == AllocationSpec => []AllocationTypeOK
<1>1. AllocationInit => NetTypes
  BY TypesInit
<1>2. NetTypes /\ [AllocationNext]_allocationVars => NetTypes'
  BY TypesNext
<1>3. NetTypes => AllocationTypeOK
  BY DEF NetTypes
<1> QED BY <1>1, <1>2, <1>3, PTL DEF AllocationSpec

-----------------------------------------------------------------------------
(* One owner for each address. *)

\* A device owns an address it has, one it is being told, and one whose image bears
\* its unique id: what it may have, or be given, without anyone asking again.
Owns(d, a) ==
  \/ address[d] = a
  \/ InFlight(inbox, Tell(2, Uid(d), a))
  \/ \E i \in Images : proxies[i].address = a /\ proxies[i].uid = Uid(d)

\* Nobody owns what another one owns: with HoldersAreListed the inductive form of
\* UniqueAddresses, which by itself says nothing of what is still under way.
OneOwner ==
  ~full /\ ~forgotten =>
    \A a \in Addresses \ {0} : \A d, e \in Devices : Owns(d, a) /\ Owns(e, a) => d = e

Owners == NetTypes /\ HoldersAreListed /\ OneOwner

\* The last part of an answer.
Proposal(x) == x.kind = "tell" /\ x.part = 2

LEMMA InUseMeans ==
  ASSUME NEW a
  PROVE  InUse(a) <=> \/ \E d \in Devices : address[d] = a
                      \/ \E x : InFlight(inbox, x) /\ Proposal(x) /\ x.address = a
BY DEF InUse, InFlight, Proposal

LEMMA InUseMeansNext ==
  ASSUME NEW a
  PROVE  InUse(a)' <=> \/ \E d \in Devices : address'[d] = a
                       \/ \E x : InFlight(inbox', x) /\ Proposal(x) /\ x.address = a
BY DEF InUse, InFlight, Proposal

LEMMA OwnsNext ==
  ASSUME NEW a, NEW d
  PROVE  Owns(d, a)' <=> \/ address'[d] = a
                         \/ InFlight(inbox', Tell(2, Uid(d), a))
                         \/ \E i \in Images : proxies'[i].address = a /\ proxies'[i].uid = Uid(d)
BY DEF Owns, InFlight

\* A step that proposes nothing and drops no image: a device takes an address it was
\* told, an image learns the id of the device that has its address.
LEMMA NothingProposed ==
  ASSUME Owners, full => full', forgotten => forgotten',
         \A d \in Devices : address'[d] # 0 =>
           Owns(d, address'[d]) /\ InUse(address'[d]),
         \A x : InFlight(inbox', x) /\ Proposal(x) => InFlight(inbox, x),
         \A i \in Images : valid(i) => proxies'[i].address = proxies[i].address,
         \A i \in Images, d \in Devices :
           proxies'[i].address # 0 /\ proxies'[i].uid = Uid(d) => Owns(d, proxies'[i].address)
  PROVE  HoldersAreListed' /\ OneOwner'
<1>1. HoldersAreListed'
  <2> SUFFICES ASSUME ~full', ~forgotten', NEW a \in Addresses \ {0}, InUse(a)'
               PROVE  \E i \in Images : proxies'[i].address = a
    BY DEF HoldersAreListed
  <2>1. InUse(a)
    <3>1. CASE \E d \in Devices : address'[d] = a
      BY <3>1
    <3>2. CASE \E x : InFlight(inbox', x) /\ Proposal(x) /\ x.address = a
      BY <3>2, InUseMeans
    <3> QED BY <3>1, <3>2, InUseMeansNext
  <2>2. PICK i \in Images : proxies[i].address = a
    BY <2>1 DEF Owners, HoldersAreListed
  <2> QED BY <2>2 DEF valid
<1>2. OneOwner'
  <2> SUFFICES ASSUME ~full', ~forgotten', NEW a \in Addresses \ {0},
                      NEW d \in Devices, NEW e \in Devices, Owns(d, a)', Owns(e, a)'
               PROVE  d = e
    BY DEF OneOwner
  <2>1. ASSUME NEW o \in Devices, Owns(o, a)'
        PROVE  Owns(o, a)
    <3>1. CASE address'[o] = a
      BY <3>1
    <3>2. CASE InFlight(inbox', Tell(2, Uid(o), a))
      BY <3>2 DEF Proposal, Tell, Owns
    <3>3. CASE \E i \in Images : proxies'[i].address = a /\ proxies'[i].uid = Uid(o)
      BY <3>3
    <3> QED BY <2>1, <3>1, <3>2, <3>3, OwnsNext
  <2> QED BY <2>1 DEF Owners, OneOwner
<1> QED BY <1>1, <1>2

\* The same for a step in which no device takes an address and no image learns an id.
LEMMA OwnersUntouched ==
  ASSUME Owners, full => full', forgotten => forgotten',
         \A d \in Devices : address'[d] = address[d] \/ address'[d] = 0,
         \A x : InFlight(inbox', x) /\ Proposal(x) => InFlight(inbox, x),
         \A i \in Images : \/ proxies'[i].address = proxies[i].address /\ proxies'[i].uid = proxies[i].uid
                           \/ ~valid(i) /\ proxies'[i].uid = None
  PROVE  HoldersAreListed' /\ OneOwner'
<1>1. \A d \in Devices : address'[d] # 0 => Owns(d, address'[d]) /\ InUse(address'[d])
  BY DEF Owns, InUse
<1>2. \A i \in Images : valid(i) => proxies'[i].address = proxies[i].address
  OBVIOUS
<1>3. ASSUME NEW i \in Images, NEW d \in Devices,
             proxies'[i].address # 0, proxies'[i].uid = Uid(d)
      PROVE  Owns(d, proxies'[i].address)
  <2>1. Uid(d) # None
    BY AllocationAssumption DEF Uid, None
  <2> QED BY <1>3, <2>1 DEF Owns
<1> QED BY <1>1, <1>2, <1>3, NothingProposed

LEMMA OwnersDetach ==
  ASSUME Owners, NEW gone \in SUBSET Images, Detach(gone)
  PROVE  HoldersAreListed' /\ OneOwner'
<1>1. /\ address' = address /\ inbox' = inbox
      /\ \A i \in Images : proxies'[i] = IF i \in gone THEN NoImage ELSE proxies[i]
      /\ full' = full
  BY DEF Detach, deviceVars
<1>2. /\ forgotten => forgotten'
      /\ ~forgotten' => \A i \in gone : ~InUse(proxies[i].address)
  BY DEF Detach
<1>3. HoldersAreListed'
  <2> SUFFICES ASSUME ~full', ~forgotten', NEW a \in Addresses \ {0}, InUse(a)'
               PROVE  \E i \in Images : proxies'[i].address = a
    BY DEF HoldersAreListed
  <2>1. InUse(a)
    BY <1>1, InUseMeans, InUseMeansNext
  <2>2. PICK i \in Images : proxies[i].address = a
    BY <1>1, <1>2, <2>1 DEF Owners, HoldersAreListed
  <2>3. i \notin gone
    BY <1>2, <2>1, <2>2
  <2> QED BY <1>1, <2>2, <2>3
<1>4. OneOwner'
  <2> SUFFICES ASSUME ~full', ~forgotten', NEW a \in Addresses \ {0},
                      NEW d \in Devices, NEW e \in Devices, Owns(d, a)', Owns(e, a)'
               PROVE  d = e
    BY DEF OneOwner
  <2>1. ASSUME NEW o \in Devices, Owns(o, a)'
        PROVE  Owns(o, a)
    <3>1. CASE \E i \in Images : proxies'[i].address = a /\ proxies'[i].uid = Uid(o)
      <4>1. PICK i \in Images : proxies'[i].address = a /\ proxies'[i].uid = Uid(o)
        BY <3>1
      <4>2. i \notin gone
        BY <1>1, <4>1 DEF NoImage
      <4> QED BY <1>1, <4>1, <4>2 DEF Owns
    <3>2. CASE address'[o] = a \/ InFlight(inbox', Tell(2, Uid(o), a))
      BY <1>1, <3>2 DEF Owns
    <3> QED BY <2>1, <3>1, <3>2, OwnsNext
  <2> QED BY <1>1, <1>2, <2>1 DEF Owners, OneOwner
<1> QED BY <1>3, <1>4

LEMMA OwnersDeviceReceive ==
  ASSUME Owners, NEW b \in Boards, DeviceReceive(b)
  PROVE  HoldersAreListed' /\ OneOwner'
<1> DEFINE m    == Head(inbox[b])
           hits == {d \in OnBoard(b) : Matches(d, m)}
           onward == {d \in hits : m.part < 2}
<1>1. b \in Nodes /\ inbox[b] # <<>> /\ inbox \in [Nodes -> Seq(Message)]
  BY TypesSplit DEF Nodes, DeviceReceive, Owners, InboxTypes
<1>2. /\ m \in Message /\ InFlight(inbox, m)
      /\ Handled(b) \in [Nodes -> Seq(Message)]
      /\ \A x : InFlight(Handled(b), x) => InFlight(inbox, x)
  BY <1>1, HandledLeaves
<1>3. /\ address' = [d \in Devices |-> IF d \in hits /\ m.part = 2 /\ m.address # 0
                                       THEN m.address ELSE address[d]]
      /\ inbox' = IF onward = {} THEN Handled(b)
                  ELSE Broadcast(Handled(b), b, Ask(CHOOSE d \in onward : TRUE, m.part + 1))
      /\ proxies' = proxies /\ full' = full /\ forgotten' = forgotten
  BY DEF DeviceReceive, hubVars, imageVars
<1>4. ASSUME NEW d \in Devices, address'[d] # 0
      PROVE  Owns(d, address'[d]) /\ InUse(address'[d])
  <2>1. CASE d \in hits /\ m.part = 2 /\ m.address # 0
    <3>1. Matches(d, m) /\ address'[d] = m.address
      BY <1>3, <2>1
    <3>2. m.kind = "tell" /\ m.uid \in Piece \X Piece \X Piece /\ m.address \in Addresses
      BY <1>2, <3>1 DEF Matches, Message
    <3>3. m.uid[1] = d /\ m.uid[2] = d /\ m.uid[3] = d
      BY <2>1, <3>1 DEF Matches
    <3>4. m.uid = Uid(d)
      BY <3>2, <3>3 DEF Uid
    <3>5. m = Tell(2, Uid(d), m.address)
      BY <1>2, <2>1, <3>2, <3>4 DEF Message, Tell
    <3> HIDE DEF m, hits, onward
    <3>6. Owns(d, m.address)
      BY <1>2, <3>5 DEF Owns
    <3>7. InUse(m.address)
      BY <1>2, <2>1, <3>2, InUseMeans DEF Proposal
    <3> QED BY <3>1, <3>6, <3>7
  <2>2. CASE ~(d \in hits /\ m.part = 2 /\ m.address # 0)
    <3>1. address'[d] = address[d]
      BY <1>3, <2>2
    <3> QED BY <3>1 DEF Owns, InUse
  <2> QED BY <2>1, <2>2
<1>5. ASSUME NEW x, InFlight(inbox', x), Proposal(x)
      PROVE  InFlight(inbox, x)
  <2>1. CASE onward = {}
    BY <1>2, <1>3, <1>5, <2>1
  <2>2. CASE onward # {}
    <3> DEFINE d == CHOOSE e \in onward : TRUE
    <3>1. d \in onward
      BY <2>2
    <3>2. d \in Devices /\ m.part + 1 \in 0..2
      BY <1>2, <3>1 DEF OnBoard, Message
    <3>3. Ask(d, m.part + 1) \in Message
      BY <3>2, MessagesSent
    <3> HIDE DEF d, onward, hits
    <3>4. inbox' = Broadcast(Handled(b), b, Ask(d, m.part + 1))
      BY <1>3, <2>2 DEF d
    <3>5. InFlight(Handled(b), x) \/ x = Ask(d, m.part + 1)
      BY <1>2, <1>5, <3>3, <3>4, BroadcastAdds
    <3> QED BY <1>2, <1>5, <3>5 DEF Proposal, Ask
  <2> QED BY <2>1, <2>2
<1> HIDE DEF m, hits, onward
<1>6. \A i \in Images, d \in Devices :
        proxies'[i].address # 0 /\ proxies'[i].uid = Uid(d) => Owns(d, proxies'[i].address)
  BY <1>3 DEF Owns
<1> QED BY <1>3, <1>4, <1>5, <1>6, NothingProposed

LEMMA OwnersInfo ==
  ASSUME Owners, NEW i \in Images, NEW d \in Devices, NodeInfoReceived(i, d)
  PROVE  HoldersAreListed' /\ OneOwner'
<1>1. /\ address' = address /\ inbox' = inbox /\ full' = full /\ forgotten' = forgotten
      /\ address[d] = proxies[i].address
      /\ proxies' = [proxies EXCEPT ![i] = [@ EXCEPT !.uid = Uid(d), !.quiet = 0]]
  BY DEF NodeInfoReceived, deviceVars
<1>2. ImageTypes
  BY TypesSplit DEF Owners
<1>3. /\ \A j \in Images : proxies'[j].address = proxies[j].address
      /\ \A j \in Images : proxies'[j].uid = IF j = i THEN Uid(d) ELSE proxies[j].uid
  BY <1>1, <1>2 DEF ImageTypes
<1>4. \A e \in Devices : address'[e] # 0 => Owns(e, address'[e]) /\ InUse(address'[e])
  BY <1>1 DEF Owns, InUse
<1>5. ASSUME NEW j \in Images, NEW e \in Devices, proxies'[j].address # 0, proxies'[j].uid = Uid(e)
      PROVE  Owns(e, proxies'[j].address)
  <2>1. CASE j = i
    <3>1. e = d
      BY <1>3, <1>5, <2>1 DEF Uid
    <3> QED BY <1>1, <1>3, <2>1, <3>1 DEF Owns
  <2>2. CASE j # i
    BY <1>3, <1>5, <2>2 DEF Owns
  <2> QED BY <2>1, <2>2
<1> QED BY <1>1, <1>3, <1>4, <1>5, NothingProposed

\* The third part: the address that is proposed belongs to the device that asks, or to
\* nobody, and it has an image then.
LEMMA OwnersLaterPart ==
  ASSUME Owners, NEW m \in Message, LaterPart(m), inbox[Hub] # <<>>,
         UNCHANGED <<deviceVars, seen, forgotten, asks, faults>>
  PROVE  HoldersAreListed' /\ OneOwner'
<1> DEFINE u == [alloc.uid EXCEPT ![m.part + 1] = m.uid[m.part + 1]]
<1>1. /\ Hub \in Nodes /\ inbox \in [Nodes -> Seq(Message)] /\ 0 \in Addresses
      /\ address' = address /\ forgotten' = forgotten
  BY AllocationAssumption, TypesSplit DEF Nodes, InboxTypes, Owners, Addresses, deviceVars
<1>2. u \in Piece \X Piece \X Piece
  <2>1. m.part \in 0..2 /\ m.uid \in Piece \X Piece \X Piece
    BY DEF LaterPart, Message
  <2>2. m.part + 1 \in 1..3 /\ m.uid[m.part + 1] \in Piece /\ alloc.uid \in Piece \X Piece \X Piece
    BY <2>1, TypesSplit DEF AllocTypes, Owners
  <2> QED BY <2>2, PieceReplaced
<1>3. /\ Handled(Hub) \in [Nodes -> Seq(Message)]
      /\ \A x : InFlight(Handled(Hub), x) => InFlight(inbox, x)
  BY <1>1, HandledLeaves
<1>4. \/ inbox' = Handled(Hub) /\ UNCHANGED <<proxies, attached, full>>
      \/ Answer(Tell(1, u, 0)) /\ UNCHANGED <<proxies, attached, full>>
      \/ \E a \in Addresses : attachDevice(u, a) /\ Answer(Tell(2, u, a))
  BY Zenon DEF LaterPart
<1> HIDE DEF u
<1>5. CASE inbox' = Handled(Hub) /\ UNCHANGED <<proxies, attached, full>>
  BY <1>1, <1>3, <1>5, OwnersUntouched
<1>6. CASE Answer(Tell(1, u, 0)) /\ UNCHANGED <<proxies, attached, full>>
  <2>1. Tell(1, u, 0) \in Message
    BY <1>1, <1>2, MessagesSent
  <2>2. \A x : InFlight(inbox', x) => InFlight(inbox, x) \/ x = Tell(1, u, 0)
    BY <1>3, <1>6, <2>1, BroadcastAdds DEF Answer
  <2>3. \A x : InFlight(inbox', x) /\ Proposal(x) => InFlight(inbox, x)
    BY <2>2 DEF Proposal, Tell
  <2> QED BY <1>1, <1>6, <2>3, OwnersUntouched
<1>7. ASSUME NEW a \in Addresses, attachDevice(u, a), Answer(Tell(2, u, a))
      PROVE  HoldersAreListed' /\ OneOwner'
  <2>1. Tell(2, u, a) \in Message
    BY <1>2, MessagesSent
  <2>2. \A x : InFlight(inbox', x) => InFlight(inbox, x) \/ x = Tell(2, u, a)
    BY <1>3, <1>7, <2>1, BroadcastAdds DEF Answer
  <2>3. /\ \A i \in Images : valid(i) => proxies'[i] = proxies[i]
        /\ \A i \in Images : proxies'[i] = proxies[i] \/ proxies'[i] = Image(a)
        /\ full => full'
        /\ \/ \E i \in Known(u) : a = proxies[i].address
           \/ full'
           \/ isAddressFree(a) /\ \E i \in Images : proxies'[i].address = a
    BY <1>2, <1>7, DeviceAttached DEF Owners
  <2>4. HoldersAreListed'
    <3> SUFFICES ASSUME ~full', ~forgotten', NEW c \in Addresses \ {0}, InUse(c)'
                 PROVE  \E i \in Images : proxies'[i].address = c
      BY DEF HoldersAreListed
    <3>1. CASE InUse(c)
      <4>1. PICK i \in Images : proxies[i].address = c
        BY <1>1, <2>3, <3>1 DEF Owners, HoldersAreListed
      <4> QED BY <2>3, <4>1 DEF valid
    <3>2. CASE c = a
      <4>1. CASE \E i \in Known(u) : a = proxies[i].address
        <5>1. PICK i \in Known(u) : a = proxies[i].address
          BY <4>1
        <5>2. i \in Images /\ valid(i)
          BY DEF Known
        <5> QED BY <2>3, <3>2, <5>1, <5>2
      <4>2. CASE isAddressFree(a) /\ \E i \in Images : proxies'[i].address = a
        BY <3>2, <4>2
      <4> QED BY <2>3, <4>1, <4>2
    <3>3. InUse(c) \/ c = a
      <4>1. CASE \E d \in Devices : address'[d] = c
        BY <1>1, <4>1, InUseMeans
      <4>2. CASE \E x : InFlight(inbox', x) /\ Proposal(x) /\ x.address = c
        <5>1. PICK x : InFlight(inbox', x) /\ Proposal(x) /\ x.address = c
          BY <4>2
        <5>2. CASE InFlight(inbox, x)
          BY <5>1, <5>2, InUseMeans
        <5>3. CASE x = Tell(2, u, a)
          BY <5>1, <5>3 DEF Tell
        <5> QED BY <2>2, <5>1, <5>2, <5>3
      <4> QED BY <4>1, <4>2, InUseMeansNext
    <3> QED BY <3>1, <3>2, <3>3
  <2>5. OneOwner'
    <3> SUFFICES ASSUME ~full', ~forgotten', NEW c \in Addresses \ {0},
                        NEW d \in Devices, NEW e \in Devices, Owns(d, c)', Owns(e, c)'
                 PROVE  d = e
      BY DEF OneOwner
    <3>1. ~full /\ ~forgotten
      BY <1>1, <2>3
    <3>2. ASSUME NEW o \in Devices, Owns(o, c)'
          PROVE  Owns(o, c) \/ (c = a /\ u = Uid(o))
      <4>1. CASE address'[o] = c
        BY <1>1, <4>1 DEF Owns
      <4>2. CASE InFlight(inbox', Tell(2, Uid(o), c))
        <5>1. CASE InFlight(inbox, Tell(2, Uid(o), c))
          BY <5>1 DEF Owns
        <5>2. CASE Tell(2, Uid(o), c) = Tell(2, u, a)
          BY <5>2 DEF Tell
        <5> QED BY <2>2, <4>2, <5>1, <5>2
      <4>3. CASE \E i \in Images : proxies'[i].address = c /\ proxies'[i].uid = Uid(o)
        <5>1. PICK i \in Images : proxies'[i].address = c /\ proxies'[i].uid = Uid(o)
          BY <4>3
        <5>2. Uid(o) # None
          BY AllocationAssumption DEF Uid, None
        <5>3. proxies'[i] = proxies[i]
          BY <2>3, <5>1, <5>2 DEF Image
        <5> QED BY <5>1, <5>3 DEF Owns
      <4> QED BY <3>2, <4>1, <4>2, <4>3, OwnsNext
    <3>3. CASE Owns(d, c) /\ Owns(e, c)
      BY <3>1, <3>3 DEF Owners, OneOwner
    <3>4. CASE c = a /\ u = Uid(d) /\ u = Uid(e)
      BY <3>4 DEF Uid
    <3>5. ASSUME NEW o \in Devices, NEW p \in Devices, Owns(o, c), c = a, u = Uid(p)
          PROVE  o = p
      <4>1. CASE \E i \in Known(u) : a = proxies[i].address
        <5>1. Owns(p, c)
          BY <3>5, <4>1 DEF Owns, Known
        <5> QED BY <3>1, <3>5, <5>1 DEF Owners, OneOwner
      <4>2. CASE isAddressFree(a)
        <5>1. \A i \in Images : proxies[i].address # a
          BY <4>2 DEF isAddressFree
        <5>2. ~InUse(a)
          BY <3>1, <3>5, <5>1 DEF Owners, HoldersAreListed
        <5>3. ~Owns(o, a)
          BY <5>1, <5>2, InUseMeans DEF Owns, Proposal, Tell
        <5> QED BY <3>5, <5>3
      <4> QED BY <2>3, <4>1, <4>2
    <3> QED BY <3>2, <3>3, <3>4, <3>5
  <2> QED BY <2>4, <2>5
<1> QED BY <1>4, <1>5, <1>6, <1>7

LEMMA OwnersNext == Owners /\ [AllocationNext]_allocationVars => HoldersAreListed' /\ OneOwner'
<1> SUFFICES ASSUME Owners, [AllocationNext]_allocationVars
             PROVE  HoldersAreListed' /\ OneOwner'
  OBVIOUS
<1> DEFINE Goal == HoldersAreListed' /\ OneOwner'
<1>0. inbox \in [Nodes -> Seq(Message)]
  BY TypesSplit DEF Owners, InboxTypes
<1>1. ASSUME NEW d \in Devices, RequestAllocation(d)
      PROVE  Goal
  <2>1. /\ address' = address /\ proxies' = proxies /\ full' = full /\ forgotten' = forgotten
        /\ inbox' = Broadcast(inbox, BoardOf[d], Ask(d, 0))
    BY <1>1 DEF RequestAllocation, hubVars, imageVars
  <2>2. Ask(d, 0) \in Message
    BY MessagesSent
  <2>3. \A x : InFlight(inbox', x) => InFlight(inbox, x) \/ x = Ask(d, 0)
    BY <1>0, <2>1, <2>2, BroadcastAdds
  <2>4. \A x : InFlight(inbox', x) /\ Proposal(x) => InFlight(inbox, x)
    BY <2>3 DEF Proposal, Ask
  <2> QED BY <2>1, <2>4, OwnersUntouched
<1>2. ASSUME NEW d \in Devices, SendNodeStatus(d)
      PROVE  Goal
  <2>1. /\ address' = address /\ proxies' = proxies /\ full' = full /\ forgotten' = forgotten
        /\ inbox' = Broadcast(inbox, BoardOf[d], StatusOf(address[d]))
    BY <1>2 DEF SendNodeStatus, deviceVars, hubVars, imageVars
  <2>2. StatusOf(address[d]) \in Message
    BY MessagesSent, TypesSplit DEF Owners, DeviceTypes
  <2>3. \A x : InFlight(inbox', x) => InFlight(inbox, x) \/ x = StatusOf(address[d])
    BY <1>0, <2>1, <2>2, BroadcastAdds
  <2>4. \A x : InFlight(inbox', x) /\ Proposal(x) => InFlight(inbox, x)
    BY <2>3 DEF Proposal, StatusOf
  <2> QED BY <2>1, <2>4, OwnersUntouched
<1>3. ASSUME NEW d \in Devices, DeviceRestart(d)
      PROVE  Goal
  <2>1. /\ address' = [address EXCEPT ![d] = 0]
        /\ proxies' = proxies /\ full' = full /\ forgotten' = forgotten /\ inbox' = inbox
    BY <1>3 DEF DeviceRestart, hubVars, imageVars
  <2>2. DeviceTypes
    BY TypesSplit DEF Owners
  <2>3. \A e \in Devices : address'[e] = address[e] \/ address'[e] = 0
    BY <2>1, <2>2 DEF DeviceTypes
  <2> QED BY <2>1, <2>3, OwnersUntouched
<1>4. ASSUME NEW b \in Boards, DeviceReceive(b)
      PROVE  Goal
  BY <1>4, OwnersDeviceReceive
<1>5. CASE HubReceive
  <2> DEFINE m == Head(inbox[Hub])
  <2>1. /\ inbox[Hub] # <<>> /\ (FirstPart(m) \/ LaterPart(m) \/ StatusReceived(m))
        /\ UNCHANGED <<deviceVars, seen, forgotten, asks, faults>>
    BY <1>5 DEF HubReceive
  <2>2. Hub \in Nodes
    BY DEF Nodes
  <2>3. /\ m \in Message /\ Handled(Hub) \in [Nodes -> Seq(Message)]
        /\ \A x : InFlight(Handled(Hub), x) => InFlight(inbox, x)
    BY <1>0, <2>1, <2>2, HandledLeaves
  <2> HIDE DEF m
  <2>4. address' = address
    BY <2>1 DEF deviceVars
  <2>5. CASE FirstPart(m)
    <3> DEFINE u == <<m.uid[1], 0, 0>>
    <3>1. proxies' = proxies /\ full' = full
      BY <2>5 DEF FirstPart
    <3>2. u \in Piece \X Piece \X Piece
      BY <2>3, <2>5, AllocationAssumption DEF FirstPart, Message, Piece
    <3>3. Tell(0, u, 0) \in Message
      BY <3>2, MessagesSent, AllocationAssumption DEF Addresses
    <3>4. inbox' = Handled(Hub) \/ inbox' = Broadcast(Handled(Hub), Hub, Tell(0, u, 0))
      BY <2>5 DEF FirstPart, Answer
    <3> HIDE DEF u
    <3>5. \A x : InFlight(inbox', x) => InFlight(inbox, x) \/ x = Tell(0, u, 0)
      BY <2>3, <3>3, <3>4, BroadcastAdds
    <3>6. \A x : InFlight(inbox', x) /\ Proposal(x) => InFlight(inbox, x)
      BY <3>5 DEF Proposal, Tell
    <3> QED BY <2>1, <2>4, <3>1, <3>6, OwnersUntouched
  <2>6. CASE LaterPart(m)
    BY <2>1, <2>3, <2>6, OwnersLaterPart
  <2>7. CASE StatusReceived(m)
    <3>1. inbox' = Handled(Hub) /\ full' = full
      BY <2>7 DEF StatusReceived
    <3>2. \A i \in Images : \/ proxies'[i].address = proxies[i].address /\ proxies'[i].uid = proxies[i].uid
                            \/ ~valid(i) /\ proxies'[i].uid = None
      <4>1. CASE \E i \in Images : proxies[i].address = m.address
        <5>1. proxies' = [i \in Images |->
                            IF i \in attached /\ proxies[i].address = m.address
                            THEN [proxies[i] EXCEPT !.quiet = 0] ELSE proxies[i]]
          BY <2>7, <4>1 DEF StatusReceived
        <5>2. ImageTypes
          BY TypesSplit DEF Owners
        <5> QED BY <5>1, <5>2 DEF ImageTypes
      <4>2. CASE ~\E i \in Images : proxies[i].address = m.address
        <5>1. AttachImage(m.address) /\ m.address \in Addresses
          BY <2>3, <2>7, <4>2, AllocationAssumption DEF StatusReceived, Message, Addresses
        <5>2. CASE FreeImages = {}
          BY <5>1, <5>2 DEF AttachImage
        <5>3. CASE FreeImages # {}
          <6>1. m.address # 0
            BY <4>2, <5>3 DEF FreeImages, valid
          <6>2. /\ \A i \in Images : valid(i) => proxies'[i] = proxies[i]
                /\ \A i \in Images : proxies'[i] = proxies[i] \/ proxies'[i] = Image(m.address)
            BY <5>1, <6>1, ImageTaken DEF Owners
          <6> QED BY <6>2 DEF Image
        <5> QED BY <5>2, <5>3
      <4> QED BY <4>1, <4>2
    <3> QED BY <2>1, <2>3, <2>4, <3>1, <3>2, OwnersUntouched
  <2> QED BY <2>1, <2>5, <2>6, <2>7
<1>6. ASSUME NEW i \in Images, NEW d \in Devices, NodeInfoReceived(i, d)
      PROVE  Goal
  BY <1>6, OwnersInfo
<1>7. CASE purgeOfflineNodes
  <2>1. {i \in Images : valid(i) /\ proxies[i].quiet >= PurgeTimeout} \in SUBSET Images
    OBVIOUS
  <2> QED BY <1>7, <2>1, OwnersDetach, Zenon DEF purgeOfflineNodes
<1>8. CASE purgeAll
  BY <1>8, OwnersDetach DEF purgeAll
<1>9. ASSUME NEW d \in Devices, purge(Uid(d))
      PROVE  Goal
  <2>1. Known(Uid(d)) \in SUBSET Nat
    BY AllocationAssumption DEF Known, Images
  <2>2. Min(Known(Uid(d))) \in Known(Uid(d))
    BY <1>9, <2>1, MinOf DEF purge
  <2>3. {Min(Known(Uid(d)))} \in SUBSET Images
    BY <2>2 DEF Known
  <2> QED BY <1>9, <2>3, OwnersDetach DEF purge
<1>10. ASSUME NEW n \in Nodes, FrameLost(n) \/ FrameRepeated(n)
       PROVE  Goal
  <2>1. /\ address' = address /\ proxies' = proxies /\ full' = full /\ forgotten' = forgotten
        /\ inbox[n] # <<>>
    BY <1>10 DEF FrameLost, FrameRepeated, deviceVars, hubVars, imageVars
  <2>2. \A x : InFlight(inbox', x) => InFlight(inbox, x)
    <3>1. CASE FrameLost(n)
      BY <1>0, <2>1, <3>1, HandledLeaves DEF FrameLost
    <3>2. CASE FrameRepeated(n)
      BY <1>0, <2>1, <3>2, RepeatedAdds DEF FrameRepeated
    <3> QED BY <1>10, <3>1, <3>2
  <2> QED BY <2>1, <2>2, OwnersUntouched
<1>11. CASE Tick
  <2>1. /\ address' = address /\ full' = full /\ forgotten' = forgotten /\ inbox' = inbox
        /\ proxies' = [i \in Images |->
                   IF valid(i) THEN [proxies[i] EXCEPT !.quiet = Min({@ + 1, PurgeTimeout})]
                   ELSE proxies[i]]
    BY <1>11 DEF Tick
  <2>2. ImageTypes
    BY TypesSplit DEF Owners
  <2>3. \A i \in Images : proxies'[i].address = proxies[i].address /\ proxies'[i].uid = proxies[i].uid
    BY <2>1, <2>2 DEF ImageTypes
  <2> QED BY <2>1, <2>3, OwnersUntouched
<1>12. CASE UNCHANGED allocationVars
  BY <1>12, OwnersUntouched DEF allocationVars, deviceVars, hubVars, imageVars
<1> QED BY <1>1, <1>2, <1>3, <1>4, <1>5, <1>6, <1>7, <1>8, <1>9, <1>10, <1>11, <1>12 DEF AllocationNext

LEMMA OwnersInvariant == AllocationSpec => []Owners
<1>1. AllocationInit => Owners
  <2> SUFFICES ASSUME AllocationInit
               PROVE  Owners
    OBVIOUS
  <2>1. \A d \in Devices : address[d] = 0
    BY DEF AllocationInit
  <2>2. \A x : ~InFlight(inbox, x)
    BY DEF AllocationInit, InFlight
  <2>3. \A i \in Images : proxies[i].address = 0
    BY DEF AllocationInit, NoImage
  <2>4. \A a \in Addresses \ {0} : ~InUse(a)
    BY <2>1, <2>2, InUseMeans
  <2>5. HoldersAreListed
    BY <2>4 DEF HoldersAreListed
  <2>6. OneOwner
    BY <2>1, <2>2, <2>3 DEF OneOwner, Owns
  <2> QED BY <2>5, <2>6, TypesInit DEF Owners
<1>2. Owners /\ [AllocationNext]_allocationVars => Owners'
  BY TypesNext, OwnersNext DEF Owners
<1> QED BY <1>1, <1>2, PTL DEF AllocationSpec

\* Two devices never share an address, whatever is lost, repeated, late or restarted:
\* for any number of boards, devices and images.
THEOREM AddressesUnique == AllocationSpec => []UniqueAddresses
<1>1. Owners => UniqueAddresses
  <2> SUFFICES ASSUME Owners, ~full, ~forgotten,
                      NEW d \in Devices, NEW e \in Devices, d # e, address[d] # 0,
                      address[d] = address[e]
               PROVE  FALSE
    BY DEF UniqueAddresses
  <2>1. address[d] \in Addresses \ {0}
    BY TypesSplit DEF Owners, DeviceTypes
  <2>2. Owns(d, address[d]) /\ Owns(e, address[d])
    BY DEF Owns
  <2> QED BY <2>1, <2>2 DEF Owners, OneOwner
<1> QED BY <1>1, OwnersInvariant, PTL

\* An address that a device has, or is being told, is that of an image.
THEOREM HoldersListed == AllocationSpec => []HoldersAreListed
<1>1. Owners => HoldersAreListed
  BY DEF Owners
<1> QED BY <1>1, OwnersInvariant, PTL

-----------------------------------------------------------------------------
(* The observer. *)

\* Images keep their ids and none is dropped.
LEMMA ObserverKept ==
  ASSUME NetTypes, ObserverIsTold, seen' = seen,
         \A i \in Images : valid(i) => proxies'[i].address # 0
         /\ (proxies[i].uid # None => proxies'[i].uid = proxies[i].uid)
  PROVE  ObserverIsTold'
<1> SUFFICES ASSUME NEW d \in seen
             PROVE  \E i \in Images : proxies'[i].address # 0 /\ proxies'[i].uid = Uid(d)
  BY DEF ObserverIsTold, Known, valid
<1>1. PICK i \in Images : valid(i) /\ proxies[i].uid = Uid(d)
  BY DEF ObserverIsTold, Known
<1>2. d \in Devices
  BY TypesSplit DEF ImageTypes
<1>3. Uid(d) # None
  BY <1>2, AllocationAssumption DEF Uid, None
<1> QED BY <1>1, <1>3

\* An image is taken, the others stay what they are.
LEMMA ObserverImages ==
  ASSUME NetTypes, ObserverIsTold, seen' = seen,
         \A i \in Images : valid(i) => proxies'[i] = proxies[i]
  PROVE  ObserverIsTold'
<1> SUFFICES ASSUME NEW d \in seen
             PROVE  \E i \in Images : proxies'[i].address # 0 /\ proxies'[i].uid = Uid(d)
  BY DEF ObserverIsTold, Known, valid
<1>1. PICK i \in Images : valid(i) /\ proxies[i].uid = Uid(d)
  BY DEF ObserverIsTold, Known
<1> QED BY <1>1 DEF valid

LEMMA ObserverDetach ==
  ASSUME NetTypes, ObserverIsTold, NEW gone, Detach(gone)
  PROVE  ObserverIsTold'
<1> SUFFICES ASSUME NEW d \in seen'
             PROVE  \E i \in Images : proxies'[i].address # 0 /\ proxies'[i].uid = Uid(d)
  BY DEF ObserverIsTold, Known, valid
<1>1. d \in seen /\ \A i \in gone : proxies[i].uid # Uid(d)
  BY DEF Detach
<1>2. PICK i \in Images : valid(i) /\ proxies[i].uid = Uid(d)
  BY <1>1 DEF ObserverIsTold, Known
<1>3. proxies'[i] = proxies[i]
  BY <1>1, <1>2 DEF Detach
<1> QED BY <1>2, <1>3 DEF valid

LEMMA ObserverNext ==
  NetTypes /\ ObserverIsTold /\ [AllocationNext]_allocationVars => ObserverIsTold'
<1> SUFFICES ASSUME NetTypes, ObserverIsTold, [AllocationNext]_allocationVars
             PROVE  ObserverIsTold'
  OBVIOUS
<1>0. ImageTypes
  BY TypesSplit
<1>1. CASE UNCHANGED <<proxies, seen>>
  BY <1>1, ObserverKept DEF valid
<1>2. CASE HubReceive
  <2> DEFINE m == Head(inbox[Hub])
  <2>1. /\ inbox[Hub] # <<>> /\ (FirstPart(m) \/ LaterPart(m) \/ StatusReceived(m))
        /\ seen' = seen
    BY <1>2 DEF HubReceive
  <2>2. m \in Message
    BY <2>1, HandledLeaves, TypesSplit DEF InboxTypes, Nodes
  <2> HIDE DEF m
  <2>3. CASE FirstPart(m)
    BY <1>1, <2>1, <2>3 DEF FirstPart
  <2>4. CASE LaterPart(m)
    <3> DEFINE u == [alloc.uid EXCEPT ![m.part + 1] = m.uid[m.part + 1]]
    <3>1. u \in Piece \X Piece \X Piece
      <4>1. m.part \in 0..2 /\ m.uid \in Piece \X Piece \X Piece
        BY <2>2, <2>4 DEF LaterPart, Message
      <4>2. m.part + 1 \in 1..3 /\ m.uid[m.part + 1] \in Piece /\ alloc.uid \in Piece \X Piece \X Piece
        BY <2>4, <4>1, TypesSplit DEF AllocTypes, LaterPart
      <4> QED BY <4>2, PieceReplaced
    <3>2. proxies' = proxies \/ \E a \in Addresses : attachDevice(u, a)
      BY <2>4, Zenon DEF LaterPart
    <3> HIDE DEF u
    <3>3. ASSUME NEW a \in Addresses, attachDevice(u, a)
          PROVE  ObserverIsTold'
      <4>1. \A i \in Images : valid(i) => proxies'[i] = proxies[i]
        BY <3>1, <3>3, DeviceAttached
      <4>2. \A i \in Images : proxies'[i] = proxies[i] \/ proxies'[i] = Image(a)
        BY <3>1, <3>3, DeviceAttached
      <4> QED BY <2>1, <4>1, ObserverImages
    <3> QED BY <1>1, <2>1, <3>2, <3>3
  <2>5. CASE StatusReceived(m)
    <3>1. CASE \E i \in Images : proxies[i].address = m.address
      <4>1. proxies' = [i \in Images |->
                          IF i \in attached /\ proxies[i].address = m.address
                          THEN [proxies[i] EXCEPT !.quiet = 0] ELSE proxies[i]]
        BY <2>5, <3>1 DEF StatusReceived
      <4>2. \A i \in Images : proxies'[i].address = proxies[i].address
                              /\ proxies'[i].uid = proxies[i].uid
        BY <1>0, <4>1 DEF ImageTypes
      <4> QED BY <2>1, <4>2, ObserverKept DEF valid
    <3>2. CASE ~\E i \in Images : proxies[i].address = m.address
      <4>1. AttachImage(m.address) /\ m.address \in Addresses
        BY <2>2, <2>5, <3>2, AllocationAssumption DEF StatusReceived, Message, Addresses
      <4>2. CASE FreeImages = {}
        BY <1>1, <2>1, <4>1, <4>2 DEF AttachImage
      <4>3. CASE FreeImages # {}
        <5>1. m.address # 0
          BY <3>2, <4>3 DEF FreeImages, valid
        <5>2. \A i \in Images : valid(i) => proxies'[i] = proxies[i]
          BY <4>1, <5>1, ImageTaken
        <5> QED BY <2>1, <5>2, ObserverImages
      <4> QED BY <4>2, <4>3
    <3> QED BY <3>1, <3>2
  <2> QED BY <2>1, <2>3, <2>4, <2>5
<1>3. ASSUME NEW i \in Images, NEW d \in Devices, NodeInfoReceived(i, d)
      PROVE  ObserverIsTold'
  <2>1. /\ i \in attached /\ proxies[i].uid = None /\ seen' = seen \union {d}
        /\ proxies' = [proxies EXCEPT ![i] = [@ EXCEPT !.uid = Uid(d), !.quiet = 0]]
    BY <1>3 DEF NodeInfoReceived
  <2>2. /\ \A j \in Images : proxies'[j].address = proxies[j].address
        /\ proxies'[i].uid = Uid(d)
        /\ \A j \in Images : j # i => proxies'[j].uid = proxies[j].uid
        /\ valid(i)
    BY <1>0, <2>1 DEF ImageTypes
  <2> SUFFICES ASSUME NEW e \in seen'
               PROVE  \E j \in Images : proxies'[j].address # 0 /\ proxies'[j].uid = Uid(e)
    BY DEF ObserverIsTold, Known, valid
  <2>3. CASE e = d
    BY <2>2, <2>3 DEF valid
  <2>4. CASE e # d
    <3>1. e \in seen /\ e \in Devices
      BY <1>0, <2>1, <2>4 DEF ImageTypes
    <3>2. PICK j \in Images : valid(j) /\ proxies[j].uid = Uid(e)
      BY <3>1 DEF ObserverIsTold, Known
    <3>3. Uid(e) # None
      BY <3>1, AllocationAssumption DEF Uid, None
    <3>4. j # i
      BY <2>1, <3>2, <3>3
    <3> QED BY <2>2, <3>2, <3>4 DEF valid
  <2> QED BY <2>3, <2>4
<1>4. ASSUME NEW gone, Detach(gone)
      PROVE  ObserverIsTold'
  BY <1>4, ObserverDetach
<1>5. CASE purgeOfflineNodes \/ purgeAll \/ \E d \in Devices : purge(Uid(d))
  BY <1>4, <1>5, Zenon DEF purgeOfflineNodes, purgeAll, purge
<1>6. CASE Tick
  <2>1. /\ seen' = seen
        /\ proxies' = [i \in Images |->
                   IF valid(i) THEN [proxies[i] EXCEPT !.quiet = Min({@ + 1, PurgeTimeout})]
                   ELSE proxies[i]]
    BY <1>6 DEF Tick
  <2>2. \A i \in Images : proxies'[i].address = proxies[i].address /\ proxies'[i].uid = proxies[i].uid
    BY <1>0, <2>1 DEF ImageTypes
  <2> QED BY <2>1, <2>2, ObserverKept DEF valid
<1>7. CASE \/ \E d \in Devices : RequestAllocation(d) \/ SendNodeStatus(d) \/ DeviceRestart(d)
           \/ \E b \in Boards : DeviceReceive(b)
           \/ \E n \in Nodes : FrameLost(n) \/ FrameRepeated(n)
           \/ UNCHANGED allocationVars
  <2>1. UNCHANGED <<proxies, seen>>
    BY <1>7 DEF RequestAllocation, SendNodeStatus, DeviceRestart, DeviceReceive, FrameLost,
                FrameRepeated, allocationVars, hubVars, imageVars
  <2> QED BY <1>1, <2>1
<1> QED BY <1>2, <1>3, <1>5, <1>6, <1>7 DEF AllocationNext

\* What the observer takes for attached has a complete image, whichever way images go.
THEOREM ObserverTold == AllocationSpec => []ObserverIsTold
<1>1. AllocationInit => NetTypes /\ ObserverIsTold
  BY TypesInit DEF AllocationInit, ObserverIsTold
<1>2. NetTypes /\ ObserverIsTold /\ [AllocationNext]_allocationVars => (NetTypes /\ ObserverIsTold)'
  BY TypesNext, ObserverNext
<1> QED BY <1>1, <1>2, PTL DEF AllocationSpec

-----------------------------------------------------------------------------
(* Who gets a transfer. *)

RoutingTypes ==
  /\ board \in [kind : {"device", "hub"}, slaves : SUBSET {"plaz", "param"}, address : NodeAddresses \union {0}]
  /\ board.kind = "hub" => board.address # 0
  /\ nodes \in [1..Slots -> NodeAddresses \union {Board, Nobody}]
  /\ place \in 0..(Slots + 1)
  /\ place # 0 => transfer \in Transfers
  /\ place = 0 => transfer = NoTransfer /\ handledBy = {}

\* The board has the first slot, and an image has one.
OneSlotEach ==
  /\ \A s \in 1..Slots : nodes[s] = Board <=> s = 1
  /\ \A r, s \in 1..Slots : nodes[r] = nodes[s] /\ nodes[r] # Nobody => r = s

\* The entries that the transfer was given to, if it was theirs.
Parts == {"standard", "plaz", "param", "allocatee", "allocator", "status", "response", "message"}
Given == {h \in (1..(place - 1)) \X Parts : h[2] \in EntryTakes(nodes[h[1]], transfer)}

RoutingInv ==
  /\ RoutingTypes /\ OneSlotEach /\ ~unhashed
  /\ place # 0 /\ ~changed => handledBy = Given /\ shouldAccept(transfer)
  /\ transfer.kind = "request" =>
       /\ place = 1 => handledBy = {}
       /\ handledBy = {} \/ \E h : handledBy = {h}

LEMMA IdKinds ==
  /\ \A i \in Standard : i \notin Plaz \union Param \union Messages
  /\ \A i \in Plaz : i \notin Standard \union Param \union Messages
  /\ \A i \in Param : i \notin Standard \union Plaz \union Messages
  /\ "OTHER" \notin Standard \union Plaz \union Param \union Messages
BY DEF Standard, Plaz, Param, Messages

LEMMA TransferKinds ==
  ASSUME NEW t \in Transfers
  PROVE  /\ t.from \in NodeAddresses
         /\ \/ t.kind = "broadcast" /\ t.to = 0
            \/ t.kind \in {"request", "response"} /\ t.to \in NodeAddresses
BY DEF Transfers

LEMMA AddressNumbers == \A a \in NodeAddresses : a # Board /\ a # Nobody /\ a # 0
BY CanRoutingAssumption DEF Board, Nobody

\* What an entry accepts is a transfer whose signature is known.
LEMMA AcceptedKnown ==
  ASSUME NEW t \in Transfers, NEW e, EntryAccepts(e, t)
  PROVE  findHashById(t)
<1>1. CASE t.kind = "broadcast"
  BY <1>1 DEF EntryAccepts, hubAccepts, deviceAccepts, proxyAccepts, findHashById
<1>2. CASE t.kind # "broadcast"
  <2>1. t.id \in Standard \union Plaz \union Param
    BY <1>2 DEF EntryAccepts, hubAccepts, deviceAccepts, proxyAccepts, Standard, Plaz
  <2> QED BY <1>2, <2>1 DEF findHashById, Standard, Plaz, Param
<1> QED BY <1>1, <1>2

\* A request is for one part of the board, and for no image.
LEMMA RequestTaken ==
  ASSUME RoutingTypes, NEW t \in Transfers, t.kind = "request", NEW e \in NodeAddresses \union {Board, Nobody}
  PROVE  /\ EntryTakes(e, t) = {} \/ \E p : EntryTakes(e, t) = {p}
         /\ e # Board => EntryTakes(e, t) = {}
<1>1. e # Board => EntryTakes(e, t) = {}
  BY AddressNumbers DEF EntryTakes, proxyTakes
<1>2. EntryTakes(Board, t) = {} \/ EntryTakes(Board, t) = processRequest(t)
  BY DEF EntryTakes, hubTakes, deviceTakes, Board, Nobody
<1>3. processRequest(t) = {} \/ \E p : processRequest(t) = {p}
  <2>1. CASE t.id \in Standard
    BY <2>1 DEF processRequest
  <2>2. CASE t.id \notin Standard
    <3> DEFINE P == {p \in board.slaves : t.id \in (IF p = "plaz" THEN Plaz ELSE Param)}
    <3>1. P = processRequest(t)
      BY <2>2 DEF processRequest
    <3>2. \A p \in P : p \in {"plaz", "param"}
      BY DEF RoutingTypes
    <3>3. ~("plaz" \in P /\ "param" \in P)
      BY IdKinds
    <3> HIDE DEF P
    <3>4. P = {} \/ P = {"plaz"} \/ P = {"param"}
      BY <3>2, <3>3
    <3> QED BY <3>1, <3>4
  <2> QED BY <2>1, <2>2
<1> QED BY <1>1, <1>2, <1>3

\* A response is for the image of the node that it comes from.
LEMMA ResponseTaken ==
  ASSUME NEW t \in Transfers, t.kind = "response", NEW e \in NodeAddresses \union {Board, Nobody}
  PROVE  EntryTakes(e, t) \subseteq {"response"} /\ (EntryTakes(e, t) # {} => e = t.from)
<1>1. e = Board => EntryTakes(e, t) = {}
  BY DEF EntryTakes, hubTakes, deviceTakes, Board, Nobody
<1>2. e # Board => EntryTakes(e, t) \subseteq {"response"} /\ (EntryTakes(e, t) # {} => e = t.from)
  BY DEF EntryTakes, proxyTakes
<1> QED BY <1>1, <1>2

\* What an entry accepts it takes, if it is of use to anybody.
LEMMA AcceptedTaken ==
  ASSUME RoutingTypes, NEW t \in Transfers, NEW e \in NodeAddresses \union {Board, Nobody},
         EntryAccepts(e, t), ~Ignored(t)
  PROVE  EntryTakes(e, t) # {}
<1>1. ASSUME e = Board, t.kind = "request"
      PROVE  EntryTakes(e, t) # {}
  <2>1. t.to = board.address /\ t.id \in Standard \union Plaz \union Param
    BY <1>1 DEF EntryAccepts, hubAccepts, deviceAccepts, Board, Nobody
  <2>2. EntryTakes(e, t) = processRequest(t)
    BY <1>1, <2>1 DEF EntryTakes, hubTakes, deviceTakes, Board, Nobody
  <2>3. CASE t.id \in Standard
    BY <2>2, <2>3 DEF processRequest
  <2>4. CASE t.id \in Plaz
    <3>1. "plaz" \in board.slaves /\ t.id \notin Standard
      BY <2>4, IdKinds DEF Ignored
    <3>2. "plaz" \in processRequest(t)
      BY <2>4, <3>1 DEF processRequest
    <3> QED BY <2>2, <3>2
  <2>5. CASE t.id \in Param
    <3>1. "param" \in board.slaves /\ t.id \notin Standard
      BY <2>5, IdKinds DEF Ignored
    <3>2. "param" \in processRequest(t)
      BY <2>5, <3>1 DEF processRequest
    <3> QED BY <2>2, <3>2
  <2> QED BY <2>1, <2>3, <2>4, <2>5
<1>2. ASSUME e = Board, t.kind # "request", board.kind = "device"
      PROVE  EntryTakes(e, t) # {}
  <2>1. t.kind = "broadcast" /\ t.id = "ALLOCATION"
    BY <1>2 DEF EntryAccepts, deviceAccepts, Ignored, Board, Nobody
  <2> QED BY <1>2, <2>1 DEF EntryTakes, deviceTakes, Board, Nobody
<1>3. ASSUME e = Board, t.kind # "request", board.kind = "hub"
      PROVE  EntryTakes(e, t) # {}
  <2>1. t.kind = "broadcast" /\ t.id \in {"PLAZ_ALLOCATION", "ALLOCATION", "NODE_STATUS"}
    BY <1>3 DEF EntryAccepts, hubAccepts, deviceAccepts, Ignored, Board, Nobody
  <2>2. board.address # 0
    BY <1>3 DEF RoutingTypes
  <2>3. EntryTakes(e, t) = hubTakes(t)
    BY <1>3 DEF EntryTakes, Board, Nobody
  <2> QED BY <2>1, <2>2, <2>3 DEF hubTakes
<1>4. ASSUME e # Board
      PROVE  EntryTakes(e, t) # {}
  <2>1. e # Nobody /\ proxyAccepts(e, t) /\ EntryTakes(e, t) = proxyTakes(e, t)
    BY <1>4 DEF EntryAccepts, EntryTakes
  <2> QED BY <2>1 DEF proxyAccepts, proxyTakes, MessageTaken
<1> QED BY <1>1, <1>2, <1>3, <1>4 DEF RoutingTypes

LEMMA TakingParts ==
  ASSUME RoutingTypes, NEW t \in Transfers, NEW e \in NodeAddresses \union {Board, Nobody}
  PROVE  EntryTakes(e, t) \subseteq Parts
<1>1. board.slaves \subseteq {"plaz", "param"}
  BY DEF RoutingTypes
<1>2. deviceTakes(t) \subseteq {"standard", "plaz", "param", "allocatee"}
  BY <1>1 DEF deviceTakes, processRequest
<1>3. hubTakes(t) \subseteq {"standard", "plaz", "param", "allocatee", "allocator", "status"}
  BY <1>2 DEF hubTakes
<1>4. proxyTakes(e, t) \subseteq {"response", "message"}
  BY DEF proxyTakes
<1> QED BY <1>2, <1>3, <1>4 DEF EntryTakes, Parts

-----------------------------------------------------------------------------

LEMMA RoutingStarts == RoutingInit => RoutingInv
<1> SUFFICES ASSUME RoutingInit PROVE RoutingInv
  OBVIOUS
<1>1. Slots \in Nat \ {0} /\ HubAt \in NodeAddresses /\ HubAt # 0
  BY CanRoutingAssumption
<1>2. /\ board \in [kind : {"device", "hub"}, slaves : SUBSET {"plaz", "param"},
                    address : NodeAddresses \union {0}]
      /\ board.kind = "hub" => board.address # 0
  BY <1>1 DEF RoutingInit
<1>3. RoutingTypes
  BY <1>1, <1>2 DEF RoutingInit, RoutingTypes
<1>4. OneSlotEach
  BY <1>1 DEF RoutingInit, OneSlotEach, Board, Nobody
<1> QED BY <1>3, <1>4 DEF RoutingInit, RoutingInv, NoTransfer

\* Entries and addresses change, and what is being given is marked.
LEMMA ChangeKeeps ==
  ASSUME RoutingInv, RoutingTypes', OneSlotEach', changed' = TRUE,
         UNCHANGED <<transfer, place, handledBy, unhashed>>
  PROVE  RoutingInv'
BY DEF RoutingInv

LEMMA AttachedKeeps ==
  ASSUME RoutingInv, NEW a \in NodeAddresses, imageAttached(a)
  PROVE  RoutingInv'
<1>1. PICK f \in 1..Slots : nodes[f] = Nobody /\ nodes' = [nodes EXCEPT ![f] = a]
  <2> DEFINE free == CHOOSE s \in 1..Slots : nodes[s] = Nobody /\ \A r \in 1..(s - 1) : nodes[r] # Nobody
  <2>1. nodes' = [nodes EXCEPT ![free] = a]
    BY DEF imageAttached
  <2>2. \E s \in 1..Slots : nodes[s] = Nobody /\ \A r \in 1..(s - 1) : nodes[r] # Nobody
    <3> DEFINE F == {s \in 1..Slots : nodes[s] = Nobody}
    <3>1. F # {} /\ F \subseteq Nat
      BY CanRoutingAssumption DEF imageAttached
    <3>2. PICK s \in F : \A r \in F : s <= r
      BY <3>1, Smallest
    <3>3. \A r \in 1..(s - 1) : nodes[r] # Nobody
      BY <3>2, CanRoutingAssumption
    <3> QED BY <3>2, <3>3
  <2>3. free \in 1..Slots /\ nodes[free] = Nobody
    BY <2>2
  <2> QED BY <2>1, <2>3
<1>2. a # Board /\ a # Nobody /\ \A s \in 1..Slots : nodes[s] # a
  BY AddressNumbers DEF imageAttached, isFree, RoutedImages
<1>3. /\ changed' = TRUE /\ UNCHANGED <<board, transfer, place, handledBy, unhashed>>
  BY DEF imageAttached
<1>4. /\ nodes' \in [1..Slots -> NodeAddresses \union {Board, Nobody}]
      /\ \A s \in 1..Slots : nodes'[s] = IF s = f THEN a ELSE nodes[s]
  BY <1>1 DEF RoutingInv, RoutingTypes
<1>5. RoutingTypes'
  BY <1>3, <1>4 DEF RoutingInv, RoutingTypes
<1>6. OneSlotEach'
  <2>1. f # 1
    BY <1>1 DEF RoutingInv, OneSlotEach, Board, Nobody
  <2> QED BY <1>2, <1>4, <2>1 DEF RoutingInv, OneSlotEach
<1> QED BY <1>3, <1>5, <1>6, ChangeKeeps

LEMMA DetachedKeeps ==
  ASSUME RoutingInv, NEW f \in 1..Slots, imageDetached(f)
  PROVE  RoutingInv'
<1>1. /\ nodes' = [nodes EXCEPT ![f] = Nobody] /\ nodes[f] # Board /\ changed' = TRUE
      /\ UNCHANGED <<board, transfer, place, handledBy, unhashed>>
  BY DEF imageDetached
<1>2. /\ nodes' \in [1..Slots -> NodeAddresses \union {Board, Nobody}]
      /\ \A s \in 1..Slots : nodes'[s] = IF s = f THEN Nobody ELSE nodes[s]
  BY <1>1 DEF RoutingInv, RoutingTypes
<1>3. RoutingTypes'
  BY <1>1, <1>2 DEF RoutingInv, RoutingTypes
<1>4. OneSlotEach'
  <2>1. f # 1
    BY <1>1 DEF RoutingInv, OneSlotEach
  <2>2. Nobody # Board
    BY DEF Nobody, Board
  <2> QED BY <1>2, <2>1, <2>2 DEF RoutingInv, OneSlotEach
<1> QED BY <1>1, <1>3, <1>4, ChangeKeeps

LEMMA AddressedKeeps ==
  ASSUME RoutingInv, NEW a \in NodeAddresses, GetsAddress(a)
  PROVE  RoutingInv'
<1>1. /\ board.kind = "device" /\ board' = [board EXCEPT !.address = a] /\ changed' = TRUE
      /\ UNCHANGED <<nodes, transfer, place, handledBy, unhashed>>
  BY DEF GetsAddress
<1>2. RoutingTypes' /\ OneSlotEach'
  BY <1>1 DEF RoutingInv, RoutingTypes, OneSlotEach
<1> QED BY <1>1, <1>2, ChangeKeeps

LEMMA FirstKeeps ==
  ASSUME RoutingInv, NEW t \in Transfers, FirstFrame(t)
  PROVE  RoutingInv'
<1>1. /\ place' = 1 /\ transfer' = t /\ handledBy' = {} /\ shouldAccept(t)
      /\ unhashed' = (unhashed \/ ~findHashById(t)) /\ UNCHANGED <<board, nodes>>
  BY DEF FirstFrame
<1>2. RoutingTypes' /\ OneSlotEach'
  BY <1>1, CanRoutingAssumption DEF RoutingInv, RoutingTypes, OneSlotEach
<1>3. findHashById(t)
  BY <1>1, AcceptedKnown DEF shouldAccept
<1>4. Given' = {}
  BY <1>1 DEF Given
<1>5. shouldAccept(transfer)'
  BY <1>1 DEF shouldAccept, EntryAccepts, hubAccepts, deviceAccepts, proxyAccepts
<1> QED BY <1>1, <1>2, <1>3, <1>4, <1>5 DEF RoutingInv

LEMMA GiveKeeps ==
  ASSUME RoutingInv, Give
  PROVE  RoutingInv'
<1> PICK s \in 1..Slots : s = place
  BY DEF Give
<1> PICK T : T = EntryTakes(nodes[s], transfer)
  OBVIOUS
<1>1. s = place /\ T = EntryTakes(nodes[s], transfer)
  OBVIOUS
<1>2. /\ place' = s + 1 /\ handledBy' = handledBy \union {<<s, p>> : p \in T}
      /\ UNCHANGED <<board, nodes, transfer, changed, unhashed>>
  BY <1>1 DEF Give
<1>3. /\ RoutingTypes /\ OneSlotEach /\ transfer \in Transfers /\ s \in Nat /\ Slots \in Nat
      /\ nodes[s] \in NodeAddresses \union {Board, Nobody}
  BY <1>1, CanRoutingAssumption DEF RoutingInv, RoutingTypes
<1>4. RoutingTypes' /\ OneSlotEach'
  BY <1>1, <1>2, <1>3 DEF RoutingTypes, OneSlotEach
<1>5. \A e : EntryTakes(e, transfer)' = EntryTakes(e, transfer)
  BY <1>2 DEF EntryTakes, hubTakes, deviceTakes, processRequest, proxyTakes
<1>6. place # 0 /\ ~changed => handledBy' = Given' /\ shouldAccept(transfer)'
  <2> SUFFICES ASSUME ~changed PROVE handledBy' = Given' /\ shouldAccept(transfer)'
    OBVIOUS
  <2>1. handledBy = Given /\ shouldAccept(transfer)
    BY <1>1 DEF RoutingInv
  <2>2. shouldAccept(transfer)'
    BY <1>2, <2>1 DEF shouldAccept, EntryAccepts, hubAccepts, deviceAccepts, proxyAccepts
  <2>3. T \subseteq Parts
    BY <1>1, <1>3, TakingParts
  <2>4. Given = {h \in (1..(s - 1)) \X Parts : h[2] \in EntryTakes(nodes[h[1]], transfer)}
    BY <1>1 DEF Given
  <2>5. Given' = {h \in (1..s) \X Parts : h[2] \in EntryTakes(nodes[h[1]], transfer)}
    BY <1>2, <1>3, <1>5 DEF Given
  <2>6. 1..s = (1..(s - 1)) \union {s} /\ s \notin 1..(s - 1)
    BY <1>3
  <2>7. Given' = Given \union {<<s, p>> : p \in T}
    BY <1>1, <2>3, <2>4, <2>5, <2>6
  <2> QED BY <1>2, <2>1, <2>2, <2>7
<1>7. transfer.kind = "request" => handledBy' = {} \/ \E h : handledBy' = {h}
  <2> SUFFICES ASSUME transfer.kind = "request" PROVE handledBy' = {} \/ \E h : handledBy' = {h}
    OBVIOUS
  <2>1. CASE s = 1
    <3>1. handledBy = {} /\ (T = {} \/ \E p : T = {p})
      BY <1>1, <1>3, <2>1, RequestTaken DEF RoutingInv
    <3> QED BY <1>2, <3>1
  <2>2. CASE s # 1
    <3>1. T = {}
      BY <1>1, <1>3, <2>2, RequestTaken DEF OneSlotEach
    <3> QED BY <1>2, <3>1 DEF RoutingInv
  <2> QED BY <2>1, <2>2
<1>8. place' # 1
  BY <1>2, <1>3
<1> QED BY <1>1, <1>2, <1>4, <1>6, <1>7, <1>8 DEF RoutingInv

LEMMA RoutingKeeps == ASSUME RoutingInv, [RoutingNext]_routingVars PROVE RoutingInv'
<1>1. CASE Forget
  <2>1. /\ place' = 0 /\ transfer' = NoTransfer /\ handledBy' = {} /\ UNCHANGED <<board, nodes, unhashed>>
    BY <1>1 DEF Forget
  <2>2. RoutingTypes' /\ OneSlotEach'
    BY <2>1, CanRoutingAssumption DEF RoutingInv, RoutingTypes, OneSlotEach
  <2> QED BY <2>1, <2>2 DEF RoutingInv, NoTransfer
<1>2. CASE UNCHANGED routingVars
  <2>1. UNCHANGED <<board, nodes, transfer, place, handledBy, changed, unhashed>>
    BY <1>2 DEF routingVars
  <2>2. RoutingTypes' /\ OneSlotEach'
    BY <2>1 DEF RoutingInv, RoutingTypes, OneSlotEach
  <2>3. \A e : EntryTakes(e, transfer)' = EntryTakes(e, transfer)
    BY <2>1 DEF EntryTakes, hubTakes, deviceTakes, processRequest, proxyTakes
  <2>4. Given' = Given
    BY <2>1, <2>3 DEF Given
  <2>5. shouldAccept(transfer)' <=> shouldAccept(transfer)
    BY <2>1 DEF shouldAccept, EntryAccepts, hubAccepts, deviceAccepts, proxyAccepts
  <2> QED BY <2>1, <2>2, <2>4, <2>5 DEF RoutingInv
<1> QED BY <1>1, <1>2, FirstKeeps, GiveKeeps, AttachedKeeps, AddressedKeeps, DetachedKeeps DEF RoutingNext

LEMMA RoutingTells == RoutingInv => RequestsAreRouted
<1> SUFFICES ASSUME RoutingInv PROVE RequestsAreRouted
  OBVIOUS
<1>1. ASSUME NEW h PROVE Cardinality({h}) <= 1
  <2>1. Cardinality({h}) = 1
    BY FS_Singleton
  <2> QED BY <2>1
<1>2. Cardinality({}) <= 1
  BY FS_EmptySet
<1>3. transfer.kind = "request" => Cardinality(handledBy) <= 1
  BY <1>1, <1>2 DEF RoutingInv
<1>4. ASSUME transfer.kind = "response", ~changed
      PROVE  Cardinality(handledBy) <= 1
  <2>1. place # 0 /\ transfer \in Transfers /\ place \in 1..(Slots + 1) /\ Slots \in Nat
    BY <1>4, CanRoutingAssumption DEF RoutingInv, RoutingTypes, NoTransfer
  <2>2. \A r \in 1..(place - 1) : r \in 1..Slots /\ nodes[r] \in NodeAddresses \union {Board, Nobody}
    BY <2>1 DEF RoutingInv, RoutingTypes
  <2>3. \A h \in handledBy : \E r \in 1..Slots : h = <<r, "response">> /\ nodes[r] = transfer.from
    <3> SUFFICES ASSUME NEW h \in handledBy
                 PROVE  \E r \in 1..Slots : h = <<r, "response">> /\ nodes[r] = transfer.from
      OBVIOUS
    <3>1. h \in Given
      BY <1>4, <2>1 DEF RoutingInv
    <3>2. PICK r \in 1..(place - 1), p \in Parts : h = <<r, p>> /\ p \in EntryTakes(nodes[r], transfer)
      BY <3>1 DEF Given
    <3>3. p = "response" /\ nodes[r] = transfer.from
      BY <1>4, <2>1, <2>2, <3>2, ResponseTaken
    <3> QED BY <2>2, <3>2, <3>3
  <2>4. \A g, h \in handledBy : g = h
    <3> SUFFICES ASSUME NEW g \in handledBy, NEW h \in handledBy PROVE g = h
      OBVIOUS
    <3>1. PICK r \in 1..Slots : g = <<r, "response">> /\ nodes[r] = transfer.from
      BY <2>3
    <3>2. PICK s \in 1..Slots : h = <<s, "response">> /\ nodes[s] = transfer.from
      BY <2>3
    <3>3. transfer.from # Nobody
      BY <2>1, TransferKinds, AddressNumbers
    <3>4. r = s
      BY <3>1, <3>2, <3>3 DEF RoutingInv, OneSlotEach
    <3> QED BY <3>1, <3>2, <3>4
  <2>5. handledBy = {} \/ \E h : handledBy = {h}
    BY <2>4
  <2> QED BY <1>1, <1>2, <2>5
<1>5. ASSUME place > Slots, ~changed, ~Ignored(transfer)
      PROVE  handledBy # {}
  <2>1. place = Slots + 1 /\ place # 0 /\ Slots \in Nat /\ RoutingTypes /\ transfer \in Transfers
    BY <1>5, CanRoutingAssumption DEF RoutingInv, RoutingTypes
  <2>2. handledBy = Given /\ shouldAccept(transfer)
    BY <1>5, <2>1 DEF RoutingInv
  <2>3. PICK s \in 1..Slots : EntryAccepts(nodes[s], transfer)
    BY <2>2 DEF shouldAccept
  <2>4. nodes[s] \in NodeAddresses \union {Board, Nobody}
    BY <2>1 DEF RoutingTypes
  <2>5. PICK p : p \in EntryTakes(nodes[s], transfer)
    BY <1>5, <2>1, <2>3, <2>4, AcceptedTaken
  <2>6. p \in Parts
    BY <2>1, <2>4, <2>5, TakingParts
  <2>7. s \in 1..(place - 1)
    BY <2>1
  <2>8. <<s, p>> \in Given
    BY <2>5, <2>6, <2>7 DEF Given
  <2> QED BY <2>2, <2>8
<1> QED BY <1>3, <1>4, <1>5 DEF RoutingInv, RequestsAreRouted

\* Whatever entries and addresses change while a transfer is received: nothing is taken
\* whose signature is not known, and one part of the board at most answers a request.
\* If nothing changes, one image at most takes a response, and what was accepted is
\* taken by somebody, but for what the code has no use for.
THEOREM TransfersRouted == RoutingInit /\ [][RoutingNext]_routingVars => []RequestsAreRouted
<1>1. RoutingInv /\ [RoutingNext]_routingVars => RoutingInv'
  BY RoutingKeeps
<1> QED BY <1>1, RoutingStarts, RoutingTells, PTL

-----------------------------------------------------------------------------
(* The status of a node. *)

\* The time that the image of a device allows: what is lost, and one period more.
Allowed == image.timestamp + (lostStatuses + 1) * StatusPeriod

StatusStateTypes ==
  /\ statusNow \in Nat /\ nextStatus \in Nat /\ lostStatuses \in Nat
  /\ image \in [timestamp : Nat, offline : BOOLEAN, flags : SUBSET StatusFlags]
  /\ statusFlags \in SUBSET StatusFlags /\ onTheWay \subseteq SUBSET StatusFlags
  /\ setting \in [flags : SUBSET StatusFlags, left : SUBSET {"assign", "merge", "clear"},
                  crossed : BOOLEAN]

\* A call that is to assign loses no flag but raced ones; one that no status crossed leaves
\* nodeStatusSent false; and its flags are there once they are stored.
SettingInv ==
  /\ "assign" \in setting.left => untold \subseteq raced
  /\ "merge" \in setting.left => setting.left = {"merge"}
  /\ setting.left # {} /\ ~setting.crossed =>
       onTheWay = {} /\ (nodeStatusSent <=> "clear" \in setting.left)
  /\ setting.left = {"clear"} => setting.flags \subseteq statusFlags

\* No flag waits once a status was made, until it is sent; and the next status is due
\* within the time that the image allows, one that is under way in the last of it.
StatusInv ==
  /\ StatusStateTypes
  /\ untold \ raced \subseteq statusFlags
  /\ onTheWay # {} \/ nodeStatusSent => untold \subseteq raced
  /\ SettingInv
  /\ statusNow <= nextStatus
  /\ onTheWay = {} => nextStatus <= Allowed
  /\ onTheWay # {} => statusNow <= Allowed /\ nextStatus = statusNow + StatusPeriod
  /\ image.offline => (lostStatuses + 1) * StatusPeriod >= OfflineTimeout

LEMMA StatusStarts == StatusInit => StatusInv
<1> SUFFICES ASSUME StatusInit PROVE StatusInv
  OBVIOUS
<1>1. StatusPeriod \in Nat
  BY NodeStatusAssumption
<1> QED BY <1>1 DEF StatusInit, StatusInv, StatusStateTypes, Allowed, SettingInv, NotSetting

LEMMA StatusFlagsKeep ==
  ASSUME StatusInv, [StatusNext]_statusVars
  PROVE  /\ untold' \ raced' \subseteq statusFlags'
         /\ onTheWay' # {} \/ nodeStatusSent' => untold' \subseteq raced'
         /\ SettingInv'
<1> DEFINE Goal == /\ untold' \ raced' \subseteq statusFlags'
                   /\ onTheWay' # {} \/ nodeStatusSent' => untold' \subseteq raced'
                   /\ SettingInv'
<1>1. /\ untold \ raced \subseteq statusFlags
      /\ onTheWay # {} \/ nodeStatusSent => untold \subseteq raced
      /\ SettingInv /\ setting.left \in SUBSET {"assign", "merge", "clear"}
      /\ setting = [flags |-> setting.flags, left |-> setting.left, crossed |-> setting.crossed]
      /\ setting.crossed \in BOOLEAN
  BY DEF StatusInv, StatusStateTypes
<1>2. ASSUME NEW f \in SUBSET StatusFlags, setFlags(f)
      PROVE  Goal
  <2>1. /\ setting'.flags = f /\ setting'.left = Left(nodeStatusSent)
        /\ setting'.crossed = (onTheWay # {})
        /\ UNCHANGED <<statusFlags, nodeStatusSent, onTheWay, untold, raced>>
    BY <1>2 DEF setFlags
  <2>2. CASE nodeStatusSent
    <3>1. setting'.left = {"assign", "clear"} /\ untold \subseteq raced /\ nodeStatusSent'
      BY <1>1, <2>1, <2>2 DEF Left
    <3> QED BY <1>1, <2>1, <3>1 DEF SettingInv
  <2>3. CASE ~nodeStatusSent
    <3>1. setting'.left = {"merge"} /\ ~nodeStatusSent'
      BY <2>1, <2>3 DEF Left
    <3> QED BY <1>1, <2>1, <3>1 DEF SettingInv
  <2> QED BY <2>2, <2>3
<1>3. ASSUME NEW x \in setting.left, StoreFlags(x)
      PROVE  Goal
  <2> DEFINE f == setting.flags
  <2>1. /\ UNCHANGED onTheWay /\ x \in {"assign", "merge", "clear"}
        /\ x = "assign" => statusFlags' = f /\ nodeStatusSent' = nodeStatusSent
        /\ x = "merge" => statusFlags' = statusFlags \union f /\ nodeStatusSent' = nodeStatusSent
        /\ x = "clear" => nodeStatusSent' = FALSE /\ statusFlags' = statusFlags
    BY <1>1, <1>3 DEF StoreFlags
  <2>2. CASE setting.left = {x}
    <3>1. /\ setting'.left = {} /\ untold' = untold \union f
          /\ raced' = IF setting.crossed THEN raced \union f ELSE raced \ f
      BY <1>3, <2>2 DEF StoreFlags, NotSetting
    <3>2. SettingInv'
      BY <3>1 DEF SettingInv
    <3>3. CASE x = "assign"
      BY <1>1, <2>1, <2>2, <3>1, <3>2, <3>3 DEF SettingInv
    <3>4. CASE x = "merge"
      BY <1>1, <2>1, <2>2, <3>1, <3>2, <3>4 DEF SettingInv
    <3>5. CASE x = "clear"
      BY <1>1, <2>1, <2>2, <3>1, <3>2, <3>5 DEF SettingInv
    <3> QED BY <2>1, <3>3, <3>4, <3>5
  <2>3. CASE setting.left # {x}
    <3>1. /\ setting'.left = setting.left \ {x} /\ setting'.flags = f
          /\ setting'.crossed = setting.crossed /\ UNCHANGED <<untold, raced>>
      BY <1>1, <1>3, <2>3 DEF StoreFlags
    <3>2. CASE x = "assign"
      BY <1>1, <2>1, <2>3, <3>1, <3>2 DEF SettingInv
    <3>3. CASE x = "clear"
      BY <1>1, <2>1, <2>3, <3>1, <3>3 DEF SettingInv
    <3>4. x # "merge"
      BY <1>1, <1>3, <2>3 DEF SettingInv
    <3> QED BY <2>1, <3>2, <3>3, <3>4
  <2> QED BY <2>2, <2>3
<1>4. CASE FillStatus
  <2>1. /\ setting'.flags = setting.flags /\ setting'.left = setting.left
        /\ setting'.crossed = (setting.left # {})
        /\ untold' = untold \ statusFlags /\ raced' = raced \ statusFlags
        /\ UNCHANGED <<statusFlags, nodeStatusSent>>
    BY <1>1, <1>4 DEF FillStatus
  <2> QED BY <1>1, <2>1 DEF SettingInv
<1>5. CASE SendStatus
  <2>1. /\ onTheWay # {} /\ onTheWay' = {} /\ nodeStatusSent' = TRUE
        /\ UNCHANGED <<statusFlags, setting, untold, raced>>
    BY <1>5 DEF SendStatus
  <2> QED BY <1>1, <2>1 DEF SettingInv
<1>6. CASE GoesOffline \/ StatusTick \/ UNCHANGED statusVars
  BY <1>1, <1>6 DEF GoesOffline, StatusTick, statusVars, SettingInv
<1> QED BY <1>2, <1>3, <1>4, <1>5, <1>6 DEF StatusNext

LEMMA StatusTimesKeep ==
  ASSUME StatusInv, [StatusNext]_statusVars
  PROVE  /\ StatusStateTypes' /\ statusNow' <= nextStatus'
         /\ onTheWay' = {} => nextStatus' <= Allowed'
         /\ onTheWay' # {} => statusNow' <= Allowed' /\ nextStatus' = statusNow' + StatusPeriod
         /\ image'.offline => (lostStatuses' + 1) * StatusPeriod >= OfflineTimeout
<1> DEFINE Goal == /\ StatusStateTypes' /\ statusNow' <= nextStatus'
                   /\ onTheWay' = {} => nextStatus' <= Allowed'
                   /\ onTheWay' # {} => statusNow' <= Allowed' /\ nextStatus' = statusNow' + StatusPeriod
                   /\ image'.offline => (lostStatuses' + 1) * StatusPeriod >= OfflineTimeout
<1>1. /\ StatusPeriod \in Nat \ {0} /\ OfflineTimeout \in Nat
      /\ statusNow \in Nat /\ nextStatus \in Nat /\ lostStatuses \in Nat
  BY NodeStatusAssumption DEF StatusInv, StatusStateTypes
<1>2. PICK span \in Nat : span = (lostStatuses + 1) * StatusPeriod
  BY <1>1
<1>3. ASSUME \/ \E f \in SUBSET StatusFlags : setFlags(f)
             \/ \E x \in setting.left : StoreFlags(x)
      PROVE  Goal
  <2>1. /\ UNCHANGED <<statusNow, nextStatus, onTheWay, image, lostStatuses>>
        /\ StatusStateTypes
    BY <1>3 DEF setFlags, StoreFlags, StatusInv
  <2>2. statusFlags' \in SUBSET StatusFlags
    <3>1. CASE \E f \in SUBSET StatusFlags : setFlags(f)
      BY <2>1, <3>1 DEF setFlags, StatusStateTypes
    <3>2. CASE \E x \in setting.left : StoreFlags(x)
      BY <2>1, <3>2 DEF StoreFlags, StatusStateTypes
    <3> QED BY <1>3, <3>1, <3>2
  <2>3. setting' \in [flags : SUBSET StatusFlags, left : SUBSET {"assign", "merge", "clear"},
                      crossed : BOOLEAN]
    <3>1. CASE \E f \in SUBSET StatusFlags : setFlags(f)
      BY <2>1, <3>1 DEF setFlags, Left
    <3>2. CASE \E x \in setting.left : StoreFlags(x)
      BY <2>1, <3>2 DEF StoreFlags, NotSetting, StatusStateTypes
    <3> QED BY <1>3, <3>1, <3>2
  <2> QED BY <2>1, <2>2, <2>3 DEF StatusInv, StatusStateTypes, Allowed
<1>4. CASE FillStatus
  <2>1. /\ onTheWay = {} /\ statusNow = nextStatus /\ nextStatus' = statusNow + StatusPeriod
        /\ onTheWay' = {statusFlags} /\ UNCHANGED <<statusNow, statusFlags, image, lostStatuses>>
    BY <1>1, <1>4 DEF FillStatus, StatusInv
  <2>2. statusNow <= Allowed
    BY <2>1 DEF StatusInv
  <2>3. setting' \in [flags : SUBSET StatusFlags, left : SUBSET {"assign", "merge", "clear"},
                      crossed : BOOLEAN]
    BY <1>4 DEF FillStatus, StatusInv, StatusStateTypes
  <2> QED BY <1>1, <2>1, <2>2, <2>3 DEF StatusInv, StatusStateTypes, Allowed
<1>5. CASE SendStatus
  <2>1. /\ onTheWay' = {} /\ UNCHANGED <<statusNow, statusFlags, setting, nextStatus>>
        /\ nextStatus = statusNow + StatusPeriod /\ statusNow <= Allowed
    BY <1>5 DEF SendStatus, StatusInv
  <2>2. image.timestamp \in Nat
    BY DEF StatusInv, StatusStateTypes
  <2>3. CASE lostStatuses' = lostStatuses /\ \E f \in onTheWay : imageUpdated(f)
    <3>1. PICK f \in SUBSET StatusFlags : image' = [timestamp |-> statusNow, offline |-> FALSE, flags |-> f]
      BY <2>3 DEF imageUpdated, StatusInv, StatusStateTypes
    <3>2. Allowed' = statusNow + span
      BY <1>2, <2>3, <3>1 DEF Allowed
    <3>3. span >= StatusPeriod
      <4>1. span = lostStatuses * StatusPeriod + StatusPeriod /\ lostStatuses * StatusPeriod \in Nat
        BY <1>1, <1>2
      <4> QED BY <1>1, <4>1
    <3>4. StatusStateTypes'
      BY <1>1, <2>1, <2>3, <3>1 DEF StatusInv, StatusStateTypes
    <3> QED BY <1>1, <2>1, <3>1, <3>2, <3>3, <3>4
  <2>4. CASE lostStatuses' = lostStatuses + 1 /\ image' = image
    <3>1. (lostStatuses' + 1) * StatusPeriod = span + StatusPeriod
      BY <1>1, <1>2, <2>4
    <3>2. Allowed = image.timestamp + span /\ Allowed' = image.timestamp + (span + StatusPeriod)
      BY <1>2, <2>4, <3>1 DEF Allowed
    <3>3. StatusStateTypes'
      BY <1>1, <2>1, <2>4 DEF StatusInv, StatusStateTypes
    <3>4. image.offline => span >= OfflineTimeout
      BY <1>2 DEF StatusInv
    <3> QED BY <1>1, <2>1, <2>2, <2>4, <3>1, <3>2, <3>3, <3>4
  <2> QED BY <1>5, <2>3, <2>4 DEF SendStatus
<1>6. CASE GoesOffline
  <2>1. /\ statusNow >= image.timestamp + OfflineTimeout /\ image' = [image EXCEPT !.offline = TRUE]
        /\ UNCHANGED <<statusNow, statusFlags, setting, nextStatus, onTheWay, lostStatuses>>
    BY <1>6 DEF GoesOffline
  <2>2. image'.timestamp = image.timestamp /\ image.timestamp \in Nat /\ StatusStateTypes'
    BY <2>1 DEF StatusInv, StatusStateTypes
  <2>3. statusNow <= image.timestamp + span
    BY <1>1, <1>2, <2>2 DEF StatusInv, Allowed
  <2>4. span >= OfflineTimeout
    BY <1>1, <2>1, <2>2, <2>3
  <2> QED BY <1>2, <2>1, <2>2, <2>4 DEF StatusInv, Allowed
<1>7. CASE StatusTick
  BY <1>1, <1>7 DEF StatusTick, StatusInv, StatusStateTypes, Allowed
<1>8. CASE UNCHANGED statusVars
  BY <1>8 DEF statusVars, StatusInv, StatusStateTypes, Allowed
<1> QED BY <1>3, <1>4, <1>5, <1>6, <1>7, <1>8 DEF StatusNext

LEMMA StatusKeeps == ASSUME StatusInv, [StatusNext]_statusVars PROVE StatusInv'
BY StatusFlagsKeep, StatusTimesKeep DEF StatusInv

\* A flag that was set is in the next status, whatever is set after it, unless the
\* call that set it crossed the making and sending of one; and a device is taken for
\* lost only when as many statuses are as fit the time but one, however sending,
\* losing and looking are interleaved.
THEOREM StatusTold == StatusInit /\ [][StatusNext]_statusVars => []StatusIsTold
<1>1. StatusInv => StatusIsTold
  BY DEF StatusInv, StatusIsTold
<1>2. StatusInv /\ [StatusNext]_statusVars => StatusInv'
  BY StatusKeeps
<1> QED BY <1>1, <1>2, StatusStarts, PTL

-----------------------------------------------------------------------------
(* What tells two devices apart. *)

Blocks == Seq(Nat)

\* The place of a number in rows of a length.
LEMMA RowOf ==
  ASSUME NEW h \in Nat \ {0}, NEW n \in Nat
  PROVE  \E q \in Nat, i \in 1..h : n + 1 = q * h + i
<1>1. PICK q \in Int, r \in 0..(h - 1) : n = q * h + r
  <2>1. n = (n \div h) * h + (n % h) /\ n \div h \in Int /\ n % h \in 0..(h - 1)
    OBVIOUS
  <2> QED BY <2>1
<1>2. q \in Nat
  <2> SUFFICES ASSUME q < 0 PROVE FALSE
    OBVIOUS
  <2>1. q * h <= -1 * h
    BY SMTT(20)
  <2> QED BY <1>1, <2>1
<1>3. r + 1 \in 1..h /\ n + 1 = q * h + (r + 1)
  <2>1. q * h \in Int
    OBVIOUS
  <2> QED BY <1>1, <2>1
<1> QED BY <1>2, <1>3

\* So many rows hold n, and not one less.
LEMMA RowsOf ==
  ASSUME NEW h \in Nat \ {0}, NEW n \in Nat, NEW c, c = (n + h - 1) \div h
  PROVE  c \in Nat /\ n <= c * h /\ c * h < n + h
<1>1. n + h - 1 \in Nat
  OBVIOUS
<1>2. PICK x \in Nat : x = n + h - 1
  BY <1>1
<1>3. c \in Int /\ x = c * h + (x % h) /\ x % h \in 0..(h - 1)
  BY <1>2
<1>4. PICK r \in 0..(h - 1) : x = c * h + r
  BY <1>3
<1>5. PICK m \in Int : m = c * h
  BY <1>3
<1>6. n <= m /\ m < n + h
  BY <1>2, <1>4, <1>5
<1>7. c \in Nat
  <2> SUFFICES ASSUME c < 0 PROVE FALSE
    BY <1>3
  <2>1. c * h <= -1 * h
    BY <1>3, SMTT(20)
  <2> QED BY <1>5, <1>6, <2>1
<1> QED BY <1>5, <1>6, <1>7

\* Rows before one have no room for what it holds.
LEMMA RowBefore ==
  ASSUME NEW h \in Nat \ {0}, NEW c \in Nat, NEW d \in Nat, c < d
  PROVE  c * h + h <= d * h /\ c * h \in Nat /\ d * h \in Nat
<1>1. PICK e \in Nat : d = c + 1 + e
  <2>1. d - c - 1 \in Nat /\ d = c + 1 + (d - c - 1)
    OBVIOUS
  <2> QED BY <2>1
<1>2. d * h = c * h + h + e * h
  BY <1>1
<1>3. e * h \in Nat /\ c * h \in Nat
  OBVIOUS
<1> QED BY <1>2, <1>3

\* A block that is filled up with zeros.
LEMMA FilledFacts ==
  ASSUME NEW bytes \in Seq(Nat), Len(bytes) <= HashSize
  PROVE  /\ Filled(bytes) \in Blocks /\ Len(Filled(bytes)) = HashSize
         /\ \A i \in 1..HashSize : Filled(bytes)[i] = IF i <= Len(bytes) THEN bytes[i] ELSE 0
<1>1. HashSize \in Nat /\ Len(bytes) \in Nat /\ HashSize - Len(bytes) \in Nat
  BY HashAssumption
<1> DEFINE n == HashSize - Len(bytes)
           z == Zeros(n)
<1>2. z \in Seq(Nat) /\ Len(z) = n /\ \A i \in 1..n : z[i] = 0
  BY <1>1 DEF Zeros
<1> HIDE DEF z
<1>3. /\ bytes \o z \in Seq(Nat) /\ Len(bytes \o z) = Len(bytes) + n
      /\ \A i \in 1..(Len(bytes) + n) :
           (bytes \o z)[i] = IF i <= Len(bytes) THEN bytes[i] ELSE z[i - Len(bytes)]
  BY <1>2, ConcatProperties
<1>4. ASSUME NEW i \in 1..HashSize
      PROVE  (bytes \o z)[i] = IF i <= Len(bytes) THEN bytes[i] ELSE 0
  <2>1. i \in 1..(Len(bytes) + n)
    BY <1>1
  <2>2. i > Len(bytes) => i - Len(bytes) \in 1..n
    BY <1>1
  <2> QED BY <1>2, <1>3, <2>1, <2>2
<1> QED BY <1>1, <1>3, <1>4 DEF Filled, Blocks, z

\* The blocks of a name, and what is in them.
NameBlocks(name) ==
  [c \in 1..Chunks(name) |->
     Filled(SubSeq(name, (c - 1) * HashSize + 1,
                   IF c * HashSize < Len(name) THEN c * HashSize ELSE Len(name)))]

LEMMA ChunksFit ==
  ASSUME NEW name \in Names
  PROVE  /\ Chunks(name) \in Nat /\ Len(name) \in Nat /\ HashSize \in Nat \ {0}
         /\ Len(name) <= Chunks(name) * HashSize
         /\ Chunks(name) * HashSize < Len(name) + HashSize
<1>1. HashSize \in Nat \ {0} /\ Len(name) \in Nat
  BY HashAssumption DEF Names
<1> QED BY <1>1, RowsOf DEF Chunks

LEMMA BlockHolds ==
  ASSUME NEW name \in Names, NEW c \in 1..Chunks(name)
  PROVE  /\ NameBlocks(name)[c] \in Blocks /\ Len(NameBlocks(name)[c]) = HashSize
         /\ \A i \in 1..HashSize :
              NameBlocks(name)[c][i] = IF (c - 1) * HashSize + i <= Len(name)
                                       THEN name[(c - 1) * HashSize + i] ELSE 0
<1>1. /\ Chunks(name) \in Nat /\ Len(name) \in Nat /\ HashSize \in Nat \ {0} /\ c \in Nat /\ c - 1 \in Nat
      /\ Chunks(name) * HashSize < Len(name) + HashSize
  BY ChunksFit
<1>2. PICK pos \in Nat, end \in Nat :
        pos = (c - 1) * HashSize /\ end = c * HashSize /\ end = pos + HashSize /\ pos < Len(name)
  <2>1. (c - 1) * HashSize + HashSize = c * HashSize /\ (c - 1) * HashSize \in Nat /\ c * HashSize \in Nat
    BY <1>1
  <2>2. c * HashSize <= Chunks(name) * HashSize
    <3>1. CASE c = Chunks(name)
      BY <1>1, <3>1
    <3>2. CASE c < Chunks(name)
      BY <1>1, <2>1, <3>2, RowBefore
    <3> QED BY <1>1, <3>1, <3>2
  <2>3. PICK most \in Nat : most = Chunks(name) * HashSize
    BY <1>1
  <2> QED BY <1>1, <2>1, <2>2, <2>3
<1> DEFINE last == IF end < Len(name) THEN end ELSE Len(name)
           b == SubSeq(name, pos + 1, last)
<1>3. last \in Nat /\ pos + 1 \in Nat /\ pos + 1 <= last /\ last <= Len(name) /\ last - (pos + 1) + 1 <= HashSize
  BY <1>1, <1>2
<1>4. \A i \in (pos + 1)..last : name[i] \in Nat
  BY <1>1, <1>3 DEF Names
<1>5. /\ b \in Seq(Nat) /\ Len(b) = last - pos /\ \A i \in 1..(last - pos) : b[i] = name[pos + i]
  <2> HIDE DEF last
  <2>1. /\ b \in Seq(Nat) /\ Len(b) = IF pos + 1 <= last THEN last - (pos + 1) + 1 ELSE 0
        /\ \A i \in 1..(last - (pos + 1) + 1) : b[i] = name[pos + 1 + i - 1]
    BY <1>3, <1>4, SubSeqProperties
  <2> QED BY <1>3, <2>1
<1>6. NameBlocks(name)[c] = Filled(b)
  BY <1>2 DEF NameBlocks
<1> HIDE DEF b
<1>7. /\ Filled(b) \in Blocks /\ Len(Filled(b)) = HashSize
      /\ \A i \in 1..HashSize : Filled(b)[i] = IF i <= Len(b) THEN b[i] ELSE 0
  BY <1>1, <1>3, <1>5, FilledFacts
<1>8. ASSUME NEW i \in 1..HashSize
      PROVE  Filled(b)[i] = IF pos + i <= Len(name) THEN name[pos + i] ELSE 0
  <2>1. i <= last - pos <=> pos + i <= Len(name)
    BY <1>1, <1>2
  <2>2. i <= last - pos => b[i] = name[pos + i]
    BY <1>1, <1>3, <1>5
  <2> HIDE DEF last
  <2> QED BY <1>5, <1>7, <2>1, <2>2
<1> QED BY <1>2, <1>6, <1>7, <1>8

LEMMA NameBlocksType ==
  ASSUME NEW name \in Names
  PROVE  NameBlocks(name) \in Seq(Blocks) /\ Len(NameBlocks(name)) = Chunks(name)
<1>1. Chunks(name) \in Nat
  BY ChunksFit
<1>2. \A c \in 1..Chunks(name) : NameBlocks(name)[c] \in Blocks
  BY BlockHolds
<1>3. DOMAIN NameBlocks(name) = 1..Chunks(name) /\ NameBlocks(name) \in [1..Chunks(name) -> Blocks]
  BY <1>2 DEF NameBlocks
<1> QED BY <1>1, <1>3

\* Only the last block of a name has a zero, and none holds anything behind one.
FullBlock(b) == b[HashSize] # 0
MetaBlock(b) == b[2] = 0 /\ b[3] # 0

LEMMA NameBlocksTell ==
  ASSUME NEW name \in Names, NEW c \in 1..Chunks(name)
  PROVE  /\ ~MetaBlock(NameBlocks(name)[c])
         /\ c < Chunks(name) => FullBlock(NameBlocks(name)[c])
         /\ c = Chunks(name) /\ Len(name) % HashSize # 0 => ~FullBlock(NameBlocks(name)[c])
<1>1. /\ Chunks(name) \in Nat /\ Len(name) \in Nat /\ HashSize \in Nat \ {0} /\ c \in Nat /\ c - 1 \in Nat
      /\ Chunks(name) * HashSize < Len(name) + HashSize /\ Len(name) <= Chunks(name) * HashSize
      /\ HashSize >= 6
  BY ChunksFit, HashAssumption
<1>2. PICK pos \in Nat : pos = (c - 1) * HashSize /\ pos + HashSize = c * HashSize
  <2>1. (c - 1) * HashSize + HashSize = c * HashSize /\ (c - 1) * HashSize \in Nat
    BY <1>1
  <2> QED BY <2>1
<1>3. \A i \in 1..Len(name) : name[i] # 0
  BY DEF Names
<1>4. \A i \in 1..HashSize : NameBlocks(name)[c][i] = IF pos + i <= Len(name) THEN name[pos + i] ELSE 0
  BY <1>2, BlockHolds
<1>5. ~MetaBlock(NameBlocks(name)[c])
  <2> SUFFICES ASSUME NameBlocks(name)[c][2] = 0, NameBlocks(name)[c][3] # 0 PROVE FALSE
    BY DEF MetaBlock
  <2>1. 2 \in 1..HashSize /\ 3 \in 1..HashSize
    BY <1>1
  <2>2. pos + 3 <= Len(name)
    BY <1>4, <2>1
  <2>3. pos + 2 \in 1..Len(name) /\ pos + 2 <= Len(name)
    BY <1>1, <2>2
  <2> QED BY <1>3, <1>4, <2>1, <2>3
<1>6. HashSize \in 1..HashSize
  BY <1>1
<1>7. ASSUME c < Chunks(name) PROVE FullBlock(NameBlocks(name)[c])
  <2>1. c * HashSize + HashSize <= Chunks(name) * HashSize
    BY <1>1, <1>7, RowBefore
  <2>2. PICK most \in Nat : most = Chunks(name) * HashSize
    BY <1>1
  <2>3. pos + HashSize \in 1..Len(name) /\ pos + HashSize <= Len(name)
    BY <1>1, <1>2, <2>1, <2>2
  <2> QED BY <1>3, <1>4, <1>6, <2>3 DEF FullBlock
<1>8. ASSUME c = Chunks(name), Len(name) % HashSize # 0 PROVE ~FullBlock(NameBlocks(name)[c])
  <2>1. Len(name) # c * HashSize
    <3> SUFFICES ASSUME Len(name) = c * HashSize PROVE FALSE
      OBVIOUS
    <3>1. Len(name) = (Len(name) \div HashSize) * HashSize + (Len(name) % HashSize)
          /\ Len(name) \div HashSize \in Nat /\ Len(name) % HashSize \in 0..(HashSize - 1)
      BY <1>1
    <3>2. PICK q \in Nat, r \in 1..(HashSize - 1) : Len(name) = q * HashSize + r
      BY <1>8, <3>1
    <3>3. PICK here \in Nat, there \in Nat : here = c * HashSize /\ there = q * HashSize
      BY <1>1
    <3>4. CASE q < c
      <4>1. there + HashSize <= here
        BY <1>1, <3>3, <3>4, RowBefore
      <4> QED BY <1>1, <3>2, <3>3, <4>1
    <3>5. CASE c < q
      <4>1. here + HashSize <= there
        BY <1>1, <3>3, <3>5, RowBefore
      <4> QED BY <1>1, <3>2, <3>3, <4>1
    <3>6. CASE c = q
      BY <3>2, <3>3, <3>6
    <3> QED BY <1>1, <3>4, <3>5, <3>6
  <2>2. ~(pos + HashSize <= Len(name))
    BY <1>1, <1>2, <1>8, <2>1
  <2> QED BY <1>4, <1>6, <2>2 DEF FullBlock
<1> QED BY <1>5, <1>7, <1>8

\* A name can be read back from its blocks.
LEMMA NameReadBack ==
  ASSUME NEW m \in Names, NEW n \in Names, NameBlocks(m) = NameBlocks(n)
  PROVE  m = n
<1>1. Chunks(m) = Chunks(n)
  BY NameBlocksType
<1>2. ASSUME NEW x \in Names, NEW y \in Names, NameBlocks(x) = NameBlocks(y), Chunks(x) = Chunks(y),
             NEW k \in Nat, k + 1 <= Len(y)
      PROVE  k + 1 <= Len(x) /\ x[k + 1] = y[k + 1]
  <2>1. /\ HashSize \in Nat \ {0} /\ Len(x) \in Nat /\ Len(y) \in Nat /\ Chunks(y) \in Nat
        /\ Len(y) <= Chunks(y) * HashSize
    BY ChunksFit
  <2>2. PICK q \in Nat, i \in 1..HashSize : k + 1 = q * HashSize + i
    BY <2>1, RowOf
  <2>3. q + 1 \in 1..Chunks(y) /\ (q + 1) - 1 = q
    <3> SUFFICES ASSUME Chunks(y) <= q PROVE FALSE
      BY <2>1
    <3>1. PICK low \in Nat, high \in Nat : low = Chunks(y) * HashSize /\ high = q * HashSize
      BY <2>1
    <3>2. low <= high
      <4>1. CASE Chunks(y) = q
        BY <3>1, <4>1
      <4>2. CASE Chunks(y) < q
        BY <2>1, <3>1, <4>2, RowBefore
      <4> QED BY <2>1, <4>1, <4>2
    <3>3. k + 1 = high + i /\ Len(y) <= low
      BY <2>1, <2>2, <3>1
    <3> QED BY <1>2, <2>1, <3>2, <3>3
  <2>4. NameBlocks(y)[q + 1][i] = y[k + 1]
    <3>1. ((q + 1) - 1) * HashSize + i = k + 1
      BY <2>2
    <3> HIDE DEF NameBlocks
    <3> QED BY <1>2, <2>3, <3>1, BlockHolds
  <2>5. NameBlocks(x)[q + 1][i] = IF k + 1 <= Len(x) THEN x[k + 1] ELSE 0
    BY <1>2, <2>2, <2>3, BlockHolds
  <2>6. y[k + 1] # 0
    BY <1>2, <2>1 DEF Names
  <2> QED BY <1>2, <2>4, <2>5, <2>6
<1>3. Len(m) \in Nat /\ Len(n) \in Nat /\ m \in Seq(Nat) /\ n \in Seq(Nat)
  BY DEF Names
<1>4. Len(m) = Len(n)
  <2>1. ~(Len(m) < Len(n))
    <3> SUFFICES ASSUME Len(m) + 1 <= Len(n) PROVE FALSE
      BY <1>3
    <3>1. Len(m) + 1 <= Len(m)
      BY <1>1, <1>2, <1>3
    <3> QED BY <1>3, <3>1
  <2>2. ~(Len(n) < Len(m))
    <3> SUFFICES ASSUME Len(n) + 1 <= Len(m) PROVE FALSE
      BY <1>3
    <3>1. Len(n) + 1 <= Len(n)
      BY <1>1, <1>2, <1>3
    <3> QED BY <1>3, <3>1
  <2> QED BY <1>3, <2>1, <2>2
<1>5. ASSUME NEW j \in 1..Len(m) PROVE m[j] = n[j]
  <2>1. j - 1 \in Nat /\ (j - 1) + 1 = j /\ j <= Len(n)
    BY <1>3, <1>4
  <2> QED BY <1>1, <1>2, <2>1
<1> QED BY <1>3, <1>4, <1>5, SeqEqual

\* The block of a field's type, by which the blocks of its name end.
MetaOf(f) == Filled(<<f.type, 0, f.dimension, 0, f.scale, 0>>)

LEMMA MetaHolds ==
  ASSUME NEW f \in Fields
  PROVE  /\ MetaOf(f) \in Blocks /\ MetaBlock(MetaOf(f))
         /\ MetaOf(f)[1] = f.type /\ MetaOf(f)[3] = f.dimension /\ MetaOf(f)[5] = f.scale
<1> DEFINE b == <<f.type, 0, f.dimension, 0, f.scale, 0>>
<1>1. f.type \in Nat /\ f.dimension \in Nat \ {0} /\ f.scale \in Nat /\ HashSize \in Nat /\ HashSize >= 6
  BY HashAssumption DEF Fields
<1>2. /\ b \in Seq(Nat) /\ Len(b) = 6 /\ b[1] = f.type /\ b[2] = 0 /\ b[3] = f.dimension /\ b[5] = f.scale
  BY <1>1
<1> HIDE DEF b
<1>3. /\ Filled(b) \in Blocks
      /\ \A i \in 1..HashSize : Filled(b)[i] = IF i <= Len(b) THEN b[i] ELSE 0
  BY <1>1, <1>2, FilledFacts
<1>4. \A i \in 1..6 : i \in 1..HashSize /\ Filled(b)[i] = b[i]
  BY <1>1, <1>2, <1>3
<1>5. Filled(b) = MetaOf(f)
  BY DEF b, MetaOf
<1> QED BY <1>1, <1>2, <1>3, <1>4, <1>5 DEF MetaBlock

LEMMA FieldReadBack ==
  ASSUME NEW f \in Fields, NEW g \in Fields, MetaOf(f) = MetaOf(g),
         NameBlocks(f.name) = NameBlocks(g.name)
  PROVE  f = g
<1>1. f.type = g.type /\ f.dimension = g.dimension /\ f.scale = g.scale
  BY MetaHolds
<1>2. f.name = g.name
  BY NameReadBack DEF Fields
<1> QED BY <1>1, <1>2 DEF Fields

-----------------------------------------------------------------------------
(* The seed made of fields, one after the other. *)

LEMMA SeedGrows ==
  ASSUME NEW seed \in Seq(Blocks), NEW f \in Fields
  PROVE  LET s == SeedFromField(seed, f)  c == Chunks(f.name)
         IN  /\ s \in Seq(Blocks) /\ c \in Nat /\ Len(s) = Len(seed) + c + 1
             /\ \A p \in 1..Len(seed) : s[p] = seed[p]
             /\ \A p \in 1..c : s[Len(seed) + p] = NameBlocks(f.name)[p]
             /\ s[Len(seed) + c + 1] = MetaOf(f)
<1> DEFINE s == SeedFromField(seed, f)
           c == Chunks(f.name)
           named == seed \o NameBlocks(f.name)
<1>1. f.name \in Names
  BY DEF Fields
<1>2. c \in Nat /\ NameBlocks(f.name) \in Seq(Blocks) /\ Len(NameBlocks(f.name)) = c /\ Len(seed) \in Nat
  BY <1>1, ChunksFit, NameBlocksType
<1>3. /\ named \in Seq(Blocks) /\ Len(named) = Len(seed) + c
      /\ \A p \in 1..(Len(seed) + c) :
           named[p] = IF p <= Len(seed) THEN seed[p] ELSE NameBlocks(f.name)[p - Len(seed)]
  BY <1>2, ConcatProperties
<1>4. s = Append(named, MetaOf(f))
  BY DEF SeedFromField, calcSeedFromMeta, calcSeedFromName, update, NameBlocks, MetaOf
<1> HIDE DEF s, c, named
<1>5. /\ s \in Seq(Blocks) /\ Len(s) = Len(seed) + c + 1
      /\ \A p \in 1..(Len(seed) + c) : s[p] = named[p]
      /\ s[Len(seed) + c + 1] = MetaOf(f)
  BY <1>2, <1>3, <1>4, MetaHolds, AppendProperties
<1>6. ASSUME NEW p \in 1..Len(seed) PROVE s[p] = seed[p]
  <2>1. p \in 1..(Len(seed) + c) /\ p <= Len(seed)
    BY <1>2
  <2> QED BY <1>3, <1>5, <2>1
<1>7. ASSUME NEW p \in 1..c PROVE s[Len(seed) + p] = NameBlocks(f.name)[p]
  <2>1. Len(seed) + p \in 1..(Len(seed) + c) /\ ~(Len(seed) + p <= Len(seed))
        /\ (Len(seed) + p) - Len(seed) = p
    BY <1>2
  <2> QED BY <1>3, <1>5, <2>1
<1> QED BY <1>2, <1>5, <1>6, <1>7 DEF s, c

LEMMA SeedsSteps ==
  ASSUME NEW seed \in Seq(Blocks), NEW fields \in Seq(Fields)
  PROVE  LET g == SeedsFromFields(seed, fields)
         IN  /\ g[0] = seed
             /\ \A i \in 1..Len(fields) : g[i] = SeedFromField(g[i - 1], fields[i])
             /\ \A i \in 0..Len(fields) : g[i] \in Seq(Blocks)
<1> DEFINE Steps(q) == q = [k \in 0..Len(fields) |->
                              IF k = 0 THEN seed ELSE SeedFromField(q[k - 1], fields[k])]
           oneStep == [k \in 1..Len(fields) |-> [r \in Seq(Blocks) |-> SeedFromField(r, fields[k])]]
           g == SeedsFromFields(seed, fields)
<1>1. Len(fields) \in Nat /\ \A k \in 1..Len(fields) : fields[k] \in Fields
  OBVIOUS
<1>2. \E q : Steps(q)
  <2>1. \A k \in 1..Len(fields) : \A r \in Seq(Blocks) : SeedFromField(r, fields[k]) \in Seq(Blocks)
    BY <1>1, SeedGrows
  <2>2. oneStep \in [1..Len(fields) -> [Seq(Blocks) -> Seq(Blocks)]]
    BY <2>1
  <2>3. \A k \in 1..Len(fields) : \A r \in Seq(Blocks) : oneStep[k][r] = SeedFromField(r, fields[k])
    OBVIOUS
  <2> HIDE DEF oneStep
  <2>4. PICK h \in [0..Len(fields) -> Seq(Blocks)] : Recursed(h, Len(fields), seed, oneStep)
    BY <1>1, <2>2, Recursion
  <2>5. ASSUME NEW k \in 1..Len(fields)
        PROVE  h[k] = SeedFromField(h[k - 1], fields[k])
    <3>1. k - 1 \in 0..Len(fields)
      BY <1>1
    <3>2. h[k - 1] \in Seq(Blocks)
      BY <3>1, Zenon
    <3> QED BY <2>3, <2>4, <3>2 DEF Recursed
  <2>6. h = [k \in 0..Len(fields) |-> IF k = 0 THEN seed ELSE SeedFromField(h[k - 1], fields[k])]
    <3>1. \A k \in 0..Len(fields) : k = 0 \/ k \in 1..Len(fields)
      BY <1>1
    <3>2. h[0] = seed
      BY <2>4 DEF Recursed
    <3>3. \A k \in 0..Len(fields) : h[k] = IF k = 0 THEN seed ELSE SeedFromField(h[k - 1], fields[k])
      BY <2>5, <3>1, <3>2
    <3> QED BY <2>4, <3>3
  <2> QED BY <2>6
<1>3. Steps(g)
  BY <1>2, Zenon DEF SeedsFromFields
<1> HIDE DEF g
<1>4. g[0] = seed
  BY <1>1, <1>3
<1>5. ASSUME NEW i \in 1..Len(fields)
      PROVE  g[i] = SeedFromField(g[i - 1], fields[i])
  <2>1. i \in 0..Len(fields) /\ i # 0
    BY <1>1
  <2> QED BY <1>3, <2>1
<1> DEFINE T == {i \in Nat : i <= Len(fields) => g[i] \in Seq(Blocks)}
<1>6. 0 \in T
  BY <1>4
<1>7. ASSUME NEW i \in Nat, i \in T
      PROVE  i + 1 \in T
  <2> SUFFICES ASSUME i + 1 <= Len(fields)
               PROVE  g[i + 1] \in Seq(Blocks)
    OBVIOUS
  <2>1. g[i] \in Seq(Blocks) /\ i + 1 \in 1..Len(fields) /\ (i + 1) - 1 = i
    BY <1>1, <1>7
  <2>2. g[i + 1] = SeedFromField(g[i], fields[i + 1])
    BY <1>5, <2>1
  <2> QED BY <1>1, <2>1, <2>2, SeedGrows
<1>8. Nat \subseteq T
  <2> HIDE DEF T
  <2> QED BY <1>6, <1>7, Induction
<1>9. \A i \in 0..Len(fields) : g[i] \in Seq(Blocks)
  BY <1>1, <1>8
<1> QED BY <1>4, <1>5, <1>9 DEF g

\* Where the blocks of the device's name and of each of the fields end.
Laid(s, d, e) ==
  /\ s \in Seq(Blocks) /\ e \in [0..Len(d.fields) -> Nat]
  /\ e[0] = Chunks(d.name) /\ e[Len(d.fields)] = Len(s)
  /\ \A k \in 0..Len(d.fields) : e[k] <= Len(s)
  /\ \A c \in 1..e[0] : s[c] = NameBlocks(d.name)[c]
  /\ \A k \in 1..Len(d.fields) :
       /\ e[k] = e[k - 1] + Chunks(d.fields[k].name) + 1 /\ s[e[k]] = MetaOf(d.fields[k])
       /\ \A c \in 1..Chunks(d.fields[k].name) : s[e[k - 1] + c] = NameBlocks(d.fields[k].name)[c]

FullSeed(d) == SeedsFromFields(calcSeedFromName(<<>>, d.name), d.fields)[Len(d.fields)]

LEMMA SeedLaid ==
  ASSUME NEW d, d.name \in Names, d.fields \in Seq(Fields)
  PROVE  \E e : Laid(FullSeed(d), d, e)
<1> DEFINE F == d.fields
           n == Len(F)
           seed == calcSeedFromName(<<>>, d.name)
           g == SeedsFromFields(seed, F)
           e == [k \in 0..n |-> Len(g[k])]
<1>1. n \in Nat /\ \A k \in 1..n : F[k] \in Fields
  OBVIOUS
<1>2. seed = NameBlocks(d.name) /\ seed \in Seq(Blocks) /\ Len(seed) = Chunks(d.name)
  <2>1. NameBlocks(d.name) \in Seq(Blocks) /\ Len(NameBlocks(d.name)) = Chunks(d.name)
    BY NameBlocksType
  <2>2. seed = <<>> \o NameBlocks(d.name)
    BY DEF calcSeedFromName, NameBlocks
  <2> QED BY <2>1, <2>2, ConcatEmptySeq
<1> HIDE DEF seed
<1>3. /\ g[0] = seed
      /\ \A i \in 1..n : g[i] = SeedFromField(g[i - 1], F[i])
      /\ \A i \in 0..n : g[i] \in Seq(Blocks)
  BY <1>2, SeedsSteps
<1> HIDE DEF g
<1>4. /\ e \in [0..n -> Nat] /\ \A k \in 0..n : e[k] = Len(g[k])
  BY <1>3
<1> HIDE DEF e
<1>5. ASSUME NEW k \in 1..n
      PROVE  /\ k - 1 \in 0..n /\ k \in 0..n /\ Chunks(F[k].name) \in Nat
             /\ e[k] = e[k - 1] + Chunks(F[k].name) + 1
             /\ \A p \in 1..e[k - 1] : g[k][p] = g[k - 1][p]
             /\ \A c \in 1..Chunks(F[k].name) : g[k][e[k - 1] + c] = NameBlocks(F[k].name)[c]
             /\ g[k][e[k]] = MetaOf(F[k])
  <2>1. k - 1 \in 0..n /\ k \in 0..n
    BY <1>1
  <2>2. g[k - 1] \in Seq(Blocks) /\ F[k] \in Fields /\ g[k] = SeedFromField(g[k - 1], F[k])
        /\ e[k - 1] = Len(g[k - 1]) /\ e[k] = Len(g[k])
    BY <1>1, <1>3, <1>4, <2>1
  <2>3. PICK old \in Seq(Blocks), f \in Fields : old = g[k - 1] /\ f = F[k]
    BY <2>2
  <2>4. PICK new : new = SeedFromField(old, f)
    OBVIOUS
  <2>5. /\ Chunks(f.name) \in Nat /\ Len(new) = Len(old) + Chunks(f.name) + 1
        /\ \A p \in 1..Len(old) : new[p] = old[p]
        /\ \A p \in 1..Chunks(f.name) : new[Len(old) + p] = NameBlocks(f.name)[p]
        /\ new[Len(old) + Chunks(f.name) + 1] = MetaOf(f)
    BY <2>4, SeedGrows
  <2>6. g[k] = new /\ Len(old) = e[k - 1] /\ Len(new) = e[k]
    BY <2>2, <2>3, <2>4
  <2> HIDE DEF F, n
  <2> QED BY <2>1, <2>3, <2>5, <2>6, Zenon
<1> DEFINE Grown(j) == \A k \in 0..j : e[k] <= e[j] /\ \A p \in 1..e[k] : g[j][p] = g[k][p]
           T == {j \in Nat : j <= n => Grown(j)}
<1>6. 0 \in T
  BY <1>1, <1>4
<1>7. ASSUME NEW j \in Nat, j \in T
      PROVE  j + 1 \in T
  <2> SUFFICES ASSUME j + 1 <= n PROVE Grown(j + 1)
    OBVIOUS
  <2>1. Grown(j) /\ j + 1 \in 1..n /\ (j + 1) - 1 = j /\ j \in 0..n
    BY <1>1, <1>7
  <2> SUFFICES ASSUME NEW k \in 0..(j + 1)
               PROVE  e[k] <= e[j + 1] /\ \A p \in 1..e[k] : g[j + 1][p] = g[k][p]
    OBVIOUS
  <2>2. /\ e[j] \in Nat /\ e[j + 1] \in Nat /\ e[k] \in Nat /\ e[j] <= e[j + 1]
        /\ \A p \in 1..e[j] : g[j + 1][p] = g[j][p]
    <3>1. k \in 0..n /\ j + 1 \in 0..n
      BY <1>1, <2>1
    <3>2. e[j] \in Nat /\ e[j + 1] \in Nat /\ e[k] \in Nat
      BY <1>4, <2>1, <3>1
    <3>3. /\ Chunks(F[j + 1].name) \in Nat /\ e[j + 1] = e[j] + Chunks(F[j + 1].name) + 1
          /\ \A p \in 1..e[j] : g[j + 1][p] = g[j][p]
      BY <1>5, <2>1
    <3> QED BY <3>2, <3>3
  <2>3. CASE k = j + 1
    BY <2>2, <2>3
  <2>4. CASE k # j + 1
    <3>1. k \in 0..j
      BY <2>4
    <3>2. e[k] <= e[j] /\ \A p \in 1..e[k] : g[j][p] = g[k][p]
      BY <2>1, <3>1
    <3>3. \A p \in 1..e[k] : p \in 1..e[j]
      BY <2>2, <3>2
    <3> QED BY <2>2, <3>2, <3>3
  <2> QED BY <2>3, <2>4
<1>8. Grown(n)
  <2>1. Nat \subseteq T
    <3> HIDE DEF T
    <3> QED BY <1>6, <1>7, Induction
  <2> QED BY <1>1, <2>1
<1>9. FullSeed(d) = g[n]
  BY DEF FullSeed, g, seed
<1>10. g[n] \in Seq(Blocks) /\ e[0] = Chunks(d.name) /\ e[n] = Len(g[n]) /\ \A k \in 0..n : e[k] <= Len(g[n])
  BY <1>1, <1>2, <1>3, <1>4, <1>8
<1>11. \A c \in 1..e[0] : g[n][c] = NameBlocks(d.name)[c]
  BY <1>1, <1>2, <1>3, <1>8
<1>12. ASSUME NEW k \in 1..n
       PROVE  /\ e[k] = e[k - 1] + Chunks(F[k].name) + 1 /\ g[n][e[k]] = MetaOf(F[k])
              /\ \A c \in 1..Chunks(F[k].name) : g[n][e[k - 1] + c] = NameBlocks(F[k].name)[c]
  <2>1. /\ k \in 0..n /\ k - 1 \in 0..n /\ Chunks(F[k].name) \in Nat
        /\ e[k] = e[k - 1] + Chunks(F[k].name) + 1
        /\ \A c \in 1..Chunks(F[k].name) : g[k][e[k - 1] + c] = NameBlocks(F[k].name)[c]
        /\ g[k][e[k]] = MetaOf(F[k])
    BY <1>5
  <2>2. e[k] \in Nat /\ e[k - 1] \in Nat /\ \A p \in 1..e[k] : g[n][p] = g[k][p]
    BY <1>4, <1>8, <2>1
  <2>3. e[k] \in 1..e[k] /\ \A c \in 1..Chunks(F[k].name) : e[k - 1] + c \in 1..e[k]
    BY <2>1, <2>2
  <2> QED BY <2>1, <2>2, <2>3
<1>13. Laid(g[n], d, e)
  BY <1>4, <1>10, <1>11, <1>12 DEF Laid
<1> QED BY <1>9, <1>13

Device(d) == d.name \in Names /\ d.fields \in Seq(Fields)
NameEnds(d)   == Len(d.name) % HashSize # 0 \/ d.fields = <<>>

LEMMA LaidFacts ==
  ASSUME NEW s, NEW d, NEW e, Device(d), Laid(s, d, e)
  PROVE  /\ Len(s) \in Nat /\ Len(d.fields) \in Nat /\ Chunks(d.name) \in Nat
         /\ \A k \in 0..Len(d.fields) : e[k] \in Nat /\ e[k] <= Len(s)
         /\ \A k \in 1..Len(d.fields) : /\ d.fields[k] \in Fields /\ d.fields[k].name \in Names
                                        /\ Chunks(d.fields[k].name) \in Nat
<1>1. d.fields \in Seq(Fields) /\ d.name \in Names
  BY DEF Device
<1>2. \A k \in 1..Len(d.fields) : d.fields[k] \in Fields
  BY <1>1
<1>3. \A k \in 1..Len(d.fields) : d.fields[k].name \in Names
  BY <1>2 DEF Fields
<1> QED BY <1>1, <1>2, <1>3, ChunksFit DEF Laid

\* The device's name ends at the same block.
LEMMA NamesEnd ==
  ASSUME NEW s, NEW d, NEW f, NEW e, NEW g, Device(d), Device(f), NameEnds(d),
         Laid(s, d, e), Laid(s, f, g)
  PROVE  ~(e[0] < g[0])
<1> SUFFICES ASSUME e[0] < g[0] PROVE FALSE
  OBVIOUS
<1>1. /\ Len(s) \in Nat /\ e[0] = Chunks(d.name) /\ g[0] = Chunks(f.name)
      /\ Chunks(d.name) \in Nat /\ Chunks(f.name) \in Nat /\ g[0] <= Len(s)
      /\ e[Len(d.fields)] = Len(s) /\ Len(f.fields) \in Nat
  <2>1. 0 \in 0..Len(f.fields)
    BY LaidFacts
  <2> QED BY <2>1, LaidFacts DEF Laid
<1>2. CASE d.fields = <<>>
  <2>1. e[0] = Len(s)
    BY <1>1, <1>2
  <2> QED BY <1>1, <2>1
<1>3. CASE Len(d.name) % HashSize # 0
  <2>1. Chunks(d.name) # 0
    <3> SUFFICES ASSUME Chunks(d.name) = 0 PROVE FALSE
      OBVIOUS
    <3>1. Len(d.name) = 0 /\ HashSize \in Nat \ {0}
      BY ChunksFit DEF Device
    <3>2. 0 % HashSize = 0
      BY <3>1
    <3> QED BY <1>3, <3>1, <3>2
  <2>2. PICK c \in 1..Chunks(d.name) : c = Chunks(d.name)
    BY <1>1, <2>1
  <2>3. c \in 1..Chunks(f.name) /\ c < Chunks(f.name)
    BY <1>1, <2>2
  <2>4. ~FullBlock(NameBlocks(d.name)[c])
    BY <1>3, <2>2, NameBlocksTell DEF Device
  <2>5. FullBlock(NameBlocks(f.name)[c])
    BY <2>3, NameBlocksTell DEF Device
  <2>6. s[c] = NameBlocks(d.name)[c] /\ s[c] = NameBlocks(f.name)[c]
    BY <1>1, <2>2, <2>3 DEF Laid
  <2> QED BY <2>4, <2>5, <2>6
<1> QED BY <1>2, <1>3 DEF NameEnds

\* A field's name ends at the block of its type, which is no part of a name.
LEMMA FieldEnds ==
  ASSUME NEW s, NEW d, NEW f, NEW e, NEW g, Device(d), Device(f), Laid(s, d, e), Laid(s, f, g),
         NEW k \in Nat, k + 1 <= Len(d.fields), k + 1 <= Len(f.fields), e[k] = g[k]
  PROVE  ~(Chunks(d.fields[k + 1].name) < Chunks(f.fields[k + 1].name))
<1> SUFFICES ASSUME Chunks(d.fields[k + 1].name) < Chunks(f.fields[k + 1].name) PROVE FALSE
  OBVIOUS
<1>1. k + 1 \in 1..Len(d.fields) /\ k + 1 \in 1..Len(f.fields) /\ k \in 0..Len(d.fields)
      /\ (k + 1) - 1 = k
  <2>1. Len(d.fields) \in Nat /\ Len(f.fields) \in Nat
    BY LaidFacts
  <2> QED BY <2>1
<1>2. PICK x \in Fields, y \in Fields : x = d.fields[k + 1] /\ y = f.fields[k + 1]
  BY <1>1, LaidFacts
<1>3. /\ x.name \in Names /\ y.name \in Names
      /\ Chunks(x.name) \in Nat /\ Chunks(y.name) \in Nat /\ e[k] \in Nat
  BY <1>1, <1>2, LaidFacts
<1>4. PICK c \in 1..Chunks(y.name) : c = Chunks(x.name) + 1
  BY <1>2, <1>3
<1>5. s[e[k] + c] = NameBlocks(y.name)[c]
  <2>1. PICK i \in 1..Len(f.fields) : i = k + 1 /\ i - 1 = k
    BY <1>1
  <2>2. \A b \in 1..Chunks(f.fields[i].name) : s[g[i - 1] + b] = NameBlocks(f.fields[i].name)[b]
    BY DEF Laid
  <2>3. y = f.fields[i] /\ g[i - 1] = e[k]
    BY <1>2, <2>1
  <2> QED BY <2>2, <2>3, Zenon
<1>6. s[e[k + 1]] = MetaOf(x) /\ e[k + 1] = e[k] + Chunks(x.name) + 1
  BY <1>1, <1>2 DEF Laid
<1>7. e[k + 1] = e[k] + c
  BY <1>3, <1>4, <1>6
<1>8. MetaBlock(MetaOf(x)) /\ ~MetaBlock(NameBlocks(y.name)[c])
  BY <1>3, MetaHolds, NameBlocksTell
<1> QED BY <1>5, <1>6, <1>7, <1>8

\* Where a field has its name and its type.
LEMMA FieldLies ==
  ASSUME NEW s, NEW d, NEW e, Laid(s, d, e), NEW i \in 1..Len(d.fields), NEW k, k = i - 1,
         NEW x, x = d.fields[i]
  PROVE  /\ s[e[i]] = MetaOf(x) /\ e[i] = e[k] + Chunks(x.name) + 1
         /\ \A c \in 1..Chunks(x.name) : s[e[k] + c] = NameBlocks(x.name)[c]
<1>1. /\ e[i] = e[i - 1] + Chunks(d.fields[i].name) + 1 /\ s[e[i]] = MetaOf(d.fields[i])
      /\ \A c \in 1..Chunks(d.fields[i].name) : s[e[i - 1] + c] = NameBlocks(d.fields[i].name)[c]
  BY Zenon DEF Laid
<1> QED BY <1>1, Zenon

LEMMA FieldAlike ==
  ASSUME NEW s, NEW d, NEW f, NEW e, NEW g, Device(d), Device(f), Laid(s, d, e), Laid(s, f, g),
         NEW k \in Nat, k + 1 <= Len(d.fields), k + 1 <= Len(f.fields), e[k] = g[k]
  PROVE  e[k + 1] = g[k + 1] /\ d.fields[k + 1] = f.fields[k + 1]
<1>1. k + 1 \in 1..Len(d.fields) /\ k + 1 \in 1..Len(f.fields) /\ k \in 0..Len(d.fields)
      /\ (k + 1) - 1 = k
  <2>1. Len(d.fields) \in Nat /\ Len(f.fields) \in Nat
    BY LaidFacts
  <2> QED BY <2>1
<1>2. PICK x \in Fields, y \in Fields : x = d.fields[k + 1] /\ y = f.fields[k + 1]
  BY <1>1, LaidFacts
<1>3. /\ x.name \in Names /\ y.name \in Names
      /\ Chunks(x.name) \in Nat /\ Chunks(y.name) \in Nat /\ e[k] \in Nat
  BY <1>1, <1>2, LaidFacts
<1>4. ~(Chunks(x.name) < Chunks(y.name)) /\ ~(Chunks(y.name) < Chunks(x.name))
  BY <1>2, FieldEnds
<1>5. Chunks(x.name) = Chunks(y.name)
  BY <1>3, <1>4
<1>6. /\ s[e[k + 1]] = MetaOf(x) /\ e[k + 1] = e[k] + Chunks(x.name) + 1
      /\ \A c \in 1..Chunks(x.name) : s[e[k] + c] = NameBlocks(x.name)[c]
  <2>1. PICK i \in 1..Len(d.fields) : i = k + 1 /\ k = i - 1
    BY <1>1
  <2>2. x = d.fields[i]
    BY <1>2, <2>1
  <2>3. /\ s[e[i]] = MetaOf(x) /\ e[i] = e[k] + Chunks(x.name) + 1
        /\ \A c \in 1..Chunks(x.name) : s[e[k] + c] = NameBlocks(x.name)[c]
    BY <2>1, <2>2, FieldLies
  <2> QED BY <2>1, <2>3
<1>7. /\ s[g[k + 1]] = MetaOf(y) /\ g[k + 1] = g[k] + Chunks(y.name) + 1
      /\ \A c \in 1..Chunks(y.name) : s[g[k] + c] = NameBlocks(y.name)[c]
  <2>1. PICK i \in 1..Len(f.fields) : i = k + 1 /\ k = i - 1
    BY <1>1
  <2>2. y = f.fields[i]
    BY <1>2, <2>1
  <2>3. /\ s[g[i]] = MetaOf(y) /\ g[i] = g[k] + Chunks(y.name) + 1
        /\ \A c \in 1..Chunks(y.name) : s[g[k] + c] = NameBlocks(y.name)[c]
    BY <2>1, <2>2, FieldLies
  <2> QED BY <2>1, <2>3
<1>8. MetaOf(x) = MetaOf(y) /\ e[k + 1] = g[k + 1]
  BY <1>5, <1>6, <1>7
<1>9. \A c \in 1..Chunks(x.name) : NameBlocks(x.name)[c] = NameBlocks(y.name)[c]
  BY <1>5, <1>6, <1>7
<1>10. NameBlocks(x.name) = NameBlocks(y.name)
  BY <1>3, <1>5, <1>9, NameBlocksType, SeqEqual
<1> QED BY <1>2, <1>8, <1>10, FieldReadBack

LEMMA LaidAlike ==
  ASSUME NEW s, NEW d, NEW f, NEW e, NEW g, Device(d), Device(f), NameEnds(d), NameEnds(f),
         Laid(s, d, e), Laid(s, f, g)
  PROVE  d.name = f.name /\ d.fields = f.fields
<1>1. e[0] = g[0]
  <2>1. e[0] \in Nat /\ g[0] \in Nat
    BY LaidFacts
  <2> QED BY <2>1, NamesEnd
<1>2. d.name = f.name
  <2>1. Chunks(d.name) = Chunks(f.name) /\ Chunks(d.name) \in Nat
    BY <1>1, LaidFacts DEF Laid
  <2>2. \A c \in 1..Chunks(d.name) : NameBlocks(d.name)[c] = NameBlocks(f.name)[c]
    BY <1>1 DEF Laid
  <2>3. NameBlocks(d.name) = NameBlocks(f.name)
    BY <2>1, <2>2, NameBlocksType, SeqEqual DEF Device
  <2> QED BY <2>3, NameReadBack DEF Device
<1>3. /\ Len(d.fields) \in Nat /\ Len(f.fields) \in Nat /\ Len(s) \in Nat
      /\ e[Len(d.fields)] = Len(s) /\ g[Len(f.fields)] = Len(s)
  BY LaidFacts DEF Laid
<1> DEFINE T == {k \in Nat : k <= Len(d.fields) /\ k <= Len(f.fields) => e[k] = g[k]}
<1>4. 0 \in T
  BY <1>1
<1>5. ASSUME NEW k \in Nat, k \in T
      PROVE  k + 1 \in T
  <2> SUFFICES ASSUME k + 1 <= Len(d.fields), k + 1 <= Len(f.fields) PROVE e[k + 1] = g[k + 1]
    OBVIOUS
  <2>1. e[k] = g[k]
    BY <1>3, <1>5
  <2> QED BY <2>1, FieldAlike
<1>6. \A k \in Nat : k <= Len(d.fields) /\ k <= Len(f.fields) => e[k] = g[k]
  <2>1. Nat \subseteq T
    <3> HIDE DEF T
    <3> QED BY <1>4, <1>5, Induction
  <2> QED BY <2>1
<1>7. ~(Len(d.fields) < Len(f.fields))
  <2> SUFFICES ASSUME Len(d.fields) < Len(f.fields) PROVE FALSE
    OBVIOUS
  <2>1. PICK k \in 1..Len(f.fields) : k = Len(d.fields) + 1
    BY <1>3
  <2>2. g[k] = g[k - 1] + Chunks(f.fields[k].name) + 1 /\ g[k] <= Len(s) /\ g[k] \in Nat
        /\ g[k - 1] \in Nat /\ Chunks(f.fields[k].name) \in Nat
    <3>1. k \in 0..Len(f.fields) /\ k - 1 \in 0..Len(f.fields)
      BY <1>3
    <3> QED BY <3>1, LaidFacts DEF Laid
  <2>3. g[k - 1] = Len(s)
    BY <1>3, <1>6, <2>1
  <2> QED BY <1>3, <2>2, <2>3
<1>8. ~(Len(f.fields) < Len(d.fields))
  <2> SUFFICES ASSUME Len(f.fields) < Len(d.fields) PROVE FALSE
    OBVIOUS
  <2>1. PICK k \in 1..Len(d.fields) : k = Len(f.fields) + 1
    BY <1>3
  <2>2. e[k] = e[k - 1] + Chunks(d.fields[k].name) + 1 /\ e[k] <= Len(s) /\ e[k] \in Nat
        /\ e[k - 1] \in Nat /\ Chunks(d.fields[k].name) \in Nat
    <3>1. k \in 0..Len(d.fields) /\ k - 1 \in 0..Len(d.fields)
      BY <1>3
    <3> QED BY <3>1, LaidFacts DEF Laid
  <2>3. e[k - 1] = Len(s)
    BY <1>3, <1>6, <2>1
  <2> QED BY <1>3, <2>2, <2>3
<1>9. Len(d.fields) = Len(f.fields)
  BY <1>3, <1>7, <1>8
<1>10. ASSUME NEW i \in 1..Len(d.fields) PROVE d.fields[i] = f.fields[i]
  <2>1. PICK k \in Nat : i = k + 1
    <3>1. i - 1 \in Nat /\ i = (i - 1) + 1
      BY <1>3
    <3> QED BY <3>1
  <2>2. k + 1 <= Len(d.fields) /\ k + 1 <= Len(f.fields) /\ e[k] = g[k]
    BY <1>3, <1>6, <1>9, <2>1
  <2> QED BY <2>1, <2>2, FieldAlike
<1>11. d.fields = f.fields
  BY <1>9, <1>10, SeqEqual DEF Device
<1> QED BY <1>2, <1>11

-----------------------------------------------------------------------------
(* The identifier, and the hash. *)

WordCount == HashSize \div WordSize

LEMMA WordsFit ==
  /\ WordCount \in Nat \ {0} /\ WordSize \in Nat \ {0} /\ HashSize \in Nat \ {0}
  /\ HashSize = WordCount * WordSize
<1>1. HashSize \in Nat \ {0} /\ WordSize \in Nat \ {0} /\ HashSize % WordSize = 0
  BY HashAssumption
<1>2. HashSize = (HashSize \div WordSize) * WordSize /\ HashSize \div WordSize \in Nat
  BY <1>1
<1>3. WordCount # 0
  BY <1>1, <1>2 DEF WordCount
<1> QED BY <1>1, <1>2, <1>3 DEF WordCount

LEMMA UidType ==
  ASSUME NEW d, d.uid \in Seq(Nat)
  PROVE  UidBytes(d) \in Seq(Nat) /\ Len(UidBytes(d)) = HashSize
<1> DEFINE b == IF Len(d.uid) < HashSize THEN d.uid ELSE SubSeq(d.uid, 1, HashSize)
<1>1. HashSize \in Nat /\ Len(d.uid) \in Nat /\ \A i \in 1..Len(d.uid) : d.uid[i] \in Nat
  BY HashAssumption
<1>2. b \in Seq(Nat) /\ Len(b) <= HashSize
  <2>1. CASE Len(d.uid) < HashSize
    BY <1>1, <2>1
  <2>2. CASE ~(Len(d.uid) < HashSize)
    <3>1. \A i \in 1..HashSize : d.uid[i] \in Nat
      BY <1>1, <2>2
    <3>2. SubSeq(d.uid, 1, HashSize) \in Seq(Nat)
          /\ Len(SubSeq(d.uid, 1, HashSize)) = IF 1 <= HashSize THEN HashSize - 1 + 1 ELSE 0
      BY <1>1, <3>1, SubSeqProperties
    <3> QED BY <1>1, <2>2, <3>2
  <2> QED BY <2>1, <2>2
<1> HIDE DEF b
<1>3. Filled(b) \in Blocks /\ Len(Filled(b)) = HashSize
  BY <1>2, FilledFacts
<1>4. UidBytes(d) = Filled(b)
  BY DEF UidBytes, b
<1> QED BY <1>3, <1>4 DEF Blocks

\* Where a word of the identifier has its bytes.
LEMMA WordHolds ==
  ASSUME NEW d, d.uid \in Seq(Nat), NEW w \in 1..WordCount
  PROVE  /\ Words(d)[w] \in Blocks
         /\ \A i \in 1..WordSize : /\ (w - 1) * WordSize + i \in 1..HashSize
                                   /\ Words(d)[w][i] = UidBytes(d)[(w - 1) * WordSize + i]
<1>1. /\ WordCount \in Nat \ {0} /\ WordSize \in Nat \ {0} /\ HashSize \in Nat \ {0}
      /\ HashSize = WordCount * WordSize /\ w \in Nat /\ w - 1 \in Nat
  BY WordsFit
<1>2. PICK pos \in Nat : pos = (w - 1) * WordSize /\ pos + WordSize = w * WordSize
  <2>1. (w - 1) * WordSize + WordSize = w * WordSize /\ (w - 1) * WordSize \in Nat
    BY <1>1
  <2> QED BY <2>1
<1>3. pos + WordSize <= HashSize
  <2>1. CASE w = WordCount
    BY <1>1, <1>2, <2>1
  <2>2. CASE w < WordCount
    <3>1. PICK here \in Nat, all \in Nat : here = w * WordSize /\ all = WordCount * WordSize
      BY <1>1
    <3>2. here + WordSize <= all
      BY <1>1, <2>2, <3>1, RowBefore
    <3> QED BY <1>1, <1>2, <3>1, <3>2
  <2> QED BY <1>1, <2>1, <2>2
<1>4. Words(d)[w] = SubSeq(UidBytes(d), pos + 1, pos + WordSize)
  BY <1>2 DEF Words, WordCount
<1>5. UidBytes(d) \in Seq(Nat) /\ Len(UidBytes(d)) = HashSize
  BY UidType
<1>6. \A i \in (pos + 1)..(pos + WordSize) : UidBytes(d)[i] \in Nat
  BY <1>1, <1>3, <1>5
<1> DEFINE word == SubSeq(UidBytes(d), pos + 1, pos + WordSize)
<1>7. /\ word \in Seq(Nat)
      /\ \A i \in 1..((pos + WordSize) - (pos + 1) + 1) : word[i] = UidBytes(d)[pos + 1 + i - 1]
  BY <1>1, <1>6, SubSeqProperties
<1> HIDE DEF word
<1>8. ASSUME NEW i \in 1..WordSize
      PROVE  pos + i \in 1..HashSize /\ word[i] = UidBytes(d)[pos + i]
  <2>1. i \in 1..((pos + WordSize) - (pos + 1) + 1) /\ pos + 1 + i - 1 = pos + i
    BY <1>1
  <2>2. pos + i \in 1..HashSize
    BY <1>1, <1>3
  <2>3. word[i] = UidBytes(d)[pos + 1 + i - 1]
    BY <1>7, <2>1, Zenon
  <2> QED BY <2>1, <2>2, <2>3
<1>9. Words(d)[w] = word
  BY <1>4 DEF word
<1> QED BY <1>2, <1>7, <1>8, <1>9 DEF Blocks

\* A hash tells the seed and the identifier.
LEMMA HashReadBack ==
  ASSUME NEW s \in Seq(Blocks), NEW t \in Seq(Blocks), NEW d, NEW f,
         d.uid \in Seq(Nat), f.uid \in Seq(Nat), makeHashFromUid(s, d) = makeHashFromUid(t, f)
  PROVE  s = t /\ UidBytes(d) = UidBytes(f)
<1>1. /\ WordCount \in Nat \ {0} /\ WordSize \in Nat \ {0} /\ HashSize \in Nat \ {0}
      /\ HashSize = WordCount * WordSize
  BY WordsFit
<1>2. ASSUME NEW x, x.uid \in Seq(Nat)
      PROVE  SubSeq(Words(x), 1, WordCount) \in Seq(Blocks)
             /\ Len(SubSeq(Words(x), 1, WordCount)) = WordCount
             /\ \A w \in 1..WordCount : SubSeq(Words(x), 1, WordCount)[w] = Words(x)[w]
  <2>1. \A w \in 1..WordCount : Words(x)[w] \in Blocks
    BY <1>2, WordHolds
  <2> HIDE DEF Blocks
  <2>2. /\ SubSeq(Words(x), 1, WordCount) \in Seq(Blocks)
        /\ Len(SubSeq(Words(x), 1, WordCount)) = IF 1 <= WordCount THEN WordCount - 1 + 1 ELSE 0
        /\ \A w \in 1..(WordCount - 1 + 1) : SubSeq(Words(x), 1, WordCount)[w] = Words(x)[1 + w - 1]
    BY <1>1, <2>1, SubSeqProperties
  <2> QED BY <1>1, <2>2
<1> DEFINE u == SubSeq(Words(d), 1, WordCount)
           v == SubSeq(Words(f), 1, WordCount)
<1>3. s \o u = t \o v
  <2>1. WordCount \in 1..(HashSize \div WordSize)
    BY <1>1 DEF WordCount
  <2>2. makeHashFromUid(s, d)[WordCount] = s \o u /\ makeHashFromUid(t, f)[WordCount] = t \o v
    BY <2>1 DEF makeHashFromUid
  <2> QED BY <2>2
<1>4. /\ u \in Seq(Blocks) /\ Len(u) = WordCount /\ \A w \in 1..WordCount : u[w] = Words(d)[w]
      /\ v \in Seq(Blocks) /\ Len(v) = WordCount /\ \A w \in 1..WordCount : v[w] = Words(f)[w]
  BY <1>2
<1> HIDE DEF u, v
<1>5. /\ Len(s \o u) = Len(s) + WordCount /\ Len(t \o v) = Len(t) + WordCount
      /\ \A i \in 1..(Len(s) + WordCount) : (s \o u)[i] = IF i <= Len(s) THEN s[i] ELSE u[i - Len(s)]
      /\ \A i \in 1..(Len(t) + WordCount) : (t \o v)[i] = IF i <= Len(t) THEN t[i] ELSE v[i - Len(t)]
  <2>1. ASSUME NEW x \in Seq(Blocks), NEW y \in Seq(Blocks), Len(y) = WordCount
        PROVE  /\ Len(x \o y) = Len(x) + WordCount
               /\ \A i \in 1..(Len(x) + WordCount) :
                    (x \o y)[i] = IF i <= Len(x) THEN x[i] ELSE y[i - Len(x)]
    BY <2>1, ConcatProperties
  <2> QED BY <1>4, <2>1
<1>6. Len(s) \in Nat /\ Len(t) \in Nat /\ Len(s) = Len(t)
  <2>1. Len(s) \in Nat /\ Len(t) \in Nat
    OBVIOUS
  <2> QED BY <1>1, <1>3, <1>5, <2>1
<1>7. \A i \in 1..Len(s) : s[i] = t[i]
  <2>1. \A i \in 1..Len(s) : i \in 1..(Len(s) + WordCount) /\ i <= Len(s)
    BY <1>1, <1>6
  <2> QED BY <1>3, <1>5, <1>6, <2>1
<1>8. \A w \in 1..WordCount : Words(d)[w] = Words(f)[w]
  <2> SUFFICES ASSUME NEW w \in 1..WordCount PROVE u[w] = v[w]
    BY <1>4
  <2>1. /\ Len(s) + w \in 1..(Len(s) + WordCount) /\ ~(Len(s) + w <= Len(s))
        /\ (Len(s) + w) - Len(s) = w
    BY <1>1, <1>6
  <2> QED BY <1>3, <1>5, <1>6, <2>1
<1>9. ASSUME NEW j \in 1..HashSize PROVE UidBytes(d)[j] = UidBytes(f)[j]
  <2>1. PICK q \in Nat, i \in 1..WordSize : j = q * WordSize + i
    <3>1. PICK k \in Nat : j = k + 1
      <4>1. j - 1 \in Nat /\ j = (j - 1) + 1
        BY <1>1
      <4> QED BY <4>1
    <3>2. \E q \in Nat, i \in 1..WordSize : k + 1 = q * WordSize + i
      BY <1>1, RowOf
    <3> QED BY <3>1, <3>2
  <2>2. PICK w \in 1..WordCount : w = q + 1
    <3> SUFFICES ASSUME WordCount <= q PROVE FALSE
      BY <1>1
    <3>1. PICK all \in Nat, pos \in Nat : all = WordCount * WordSize /\ pos = q * WordSize
      BY <1>1
    <3>2. all <= pos
      <4>1. CASE WordCount = q
        BY <3>1, <4>1
      <4>2. CASE WordCount < q
        BY <1>1, <3>1, <4>2, RowBefore
      <4> QED BY <1>1, <4>1, <4>2
    <3>3. j = pos + i /\ j <= all
      BY <1>1, <2>1, <3>1
    <3> QED BY <1>1, <3>2, <3>3
  <2>3. (w - 1) * WordSize + i = j
    BY <2>1, <2>2
  <2>4. Words(d)[w][i] = UidBytes(d)[j] /\ Words(f)[w][i] = UidBytes(f)[j]
    BY <2>3, WordHolds
  <2> QED BY <1>8, <2>4
<1>10. s = t
  BY <1>6, <1>7, SeqEqual
<1>11. UidBytes(d) = UidBytes(f)
  BY <1>1, <1>9, UidType, SeqEqual
<1> QED BY <1>10, <1>11

-----------------------------------------------------------------------------
\* What a hash begins with, by the function that makes it.
SeedOf(kind, d) ==
  CASE kind = "uid"    -> <<>>
    [] kind = "name"   -> calcSeedFromName(<<>>, d.name)
    [] kind = "device" -> FullSeed(d)

HashInv ==
  /\ device \in [TwoBoards -> Makes] /\ how \in HashKinds /\ DOMAIN hash = TwoBoards
  /\ \A b \in TwoBoards : hash[b] = <<>> \/ hash[b] = makeHashFromUid(SeedOf(how, device[b]), device[b])

LEMMA HashStarts == HashInit => HashInv
BY DEF HashInit, HashInv

LEMMA HashKeeps == ASSUME HashInv, [HashNext]_hashVars PROVE HashInv'
<1>1. ASSUME NEW b \in TwoBoards, MakeHash(b) PROVE HashInv'
  <2>1. UNCHANGED <<device, how>> /\ DOMAIN hash' = TwoBoards
        /\ \A c \in TwoBoards \ {b} : hash'[c] = hash[c]
    BY <1>1 DEF MakeHash, HashInv
  <2>2. hash'[b] = CASE how = "uid"    -> makeDeviceHash(device[b])
                     [] how = "name"   -> makeDeviceHashFromName(device[b])
                     [] how = "device" -> makeDeviceHashFromDevice(device[b])
    BY <1>1 DEF MakeHash, HashInv
  <2>3. hash'[b] = makeHashFromUid(SeedOf(how, device[b]), device[b])
    <3>1. CASE how = "uid"
      BY <2>2, <3>1 DEF SeedOf, makeDeviceHash
    <3>2. CASE how = "name"
      BY <2>2, <3>2 DEF SeedOf, makeDeviceHashFromName
    <3>3. CASE how = "device"
      BY <2>2, <3>3 DEF SeedOf, makeDeviceHashFromDevice, FullSeed
    <3> QED BY <3>1, <3>2, <3>3 DEF HashInv, HashKinds
  <2>4. \A c \in TwoBoards : hash'[c] = <<>> \/ hash'[c] = makeHashFromUid(SeedOf(how, device[c]), device[c])
    BY <2>1, <2>3 DEF HashInv
  <2> QED BY <2>1, <2>4 DEF HashInv
<1>2. CASE UNCHANGED hashVars
  BY <1>2 DEF hashVars, HashInv
<1> QED BY <1>1, <1>2 DEF HashNext

LEMMA SeedTells ==
  ASSUME NEW d \in Makes, NEW f \in Makes, how \in HashKinds, ~RunsOn(d), ~RunsOn(f),
         SeedOf(how, d) = SeedOf(how, f), UidBytes(d) = UidBytes(f)
  PROVE  GoneBy(d) = GoneBy(f)
<1>1. d.name \in Names /\ f.name \in Names /\ Device(d) /\ Device(f)
  BY HashAssumption DEF Device
<1>2. CASE how = "uid"
  BY <1>2 DEF GoneBy
<1>3. CASE how = "name"
  <2>1. \A n : calcSeedFromName(<<>>, n) = <<>> \o NameBlocks(n)
    BY DEF calcSeedFromName, NameBlocks
  <2>2. NameBlocks(d.name) = NameBlocks(f.name)
    BY <1>1, <1>3, <2>1, NameBlocksType, ConcatEmptySeq DEF SeedOf
  <2> QED BY <1>1, <1>3, <2>2, NameReadBack DEF GoneBy
<1>4. CASE how = "device"
  <2>1. NameEnds(d) /\ NameEnds(f)
    BY <1>4 DEF RunsOn, NameEnds
  <2>2. FullSeed(d) = FullSeed(f)
    BY <1>4 DEF SeedOf
  <2>3. PICK e : Laid(FullSeed(d), d, e)
    BY <1>1, SeedLaid DEF Device
  <2>4. PICK g : Laid(FullSeed(f), f, g)
    BY <1>1, SeedLaid DEF Device
  <2>5. d.name = f.name /\ d.fields = f.fields
    BY <1>1, <2>1, <2>2, <2>3, <2>4, LaidAlike
  <2> QED BY <2>5 DEF GoneBy
<1> QED BY <1>2, <1>3, <1>4 DEF HashKinds

LEMMA SeedType ==
  ASSUME NEW d \in Makes, how \in HashKinds
  PROVE  SeedOf(how, d) \in Seq(Blocks) /\ d.uid \in Seq(Nat)
<1>1. d.name \in Names /\ Device(d) /\ d.uid \in Seq(Nat)
  BY HashAssumption DEF Device
<1>2. CASE how = "uid"
  BY <1>1, <1>2 DEF SeedOf
<1>3. CASE how = "name"
  <2>1. calcSeedFromName(<<>>, d.name) = <<>> \o NameBlocks(d.name)
    BY DEF calcSeedFromName, NameBlocks
  <2>2. SeedOf(how, d) = NameBlocks(d.name)
    BY <1>1, <1>3, <2>1, NameBlocksType, ConcatEmptySeq DEF SeedOf
  <2> QED BY <1>1, <2>2, NameBlocksType
<1>4. CASE how = "device"
  <2>1. PICK e : Laid(FullSeed(d), d, e)
    BY <1>1, SeedLaid DEF Device
  <2> QED BY <1>1, <1>4, <2>1 DEF SeedOf, Laid
<1> QED BY <1>2, <1>3, <1>4 DEF HashKinds

LEMMA HashTells == HashInv => HashesDiffer
<1> SUFFICES ASSUME HashInv, \A b \in TwoBoards : hash[b] # <<>> PROVE HashesDiffer
  BY DEF HashesDiffer
<1>1. PICK d \in Makes, f \in Makes : d = device[1] /\ f = device[2]
  BY DEF HashInv, TwoBoards
<1>2. hash[1] = makeHashFromUid(SeedOf(how, d), d) /\ hash[2] = makeHashFromUid(SeedOf(how, f), f)
  BY <1>1 DEF HashInv, TwoBoards
<1>3. ASSUME GoneBy(d) = GoneBy(f) PROVE hash[1] = hash[2]
  <2>1. UidBytes(d) = UidBytes(f)
    BY <1>3 DEF GoneBy
  <2>2. \A s : makeHashFromUid(s, d) = makeHashFromUid(s, f)
    BY <2>1 DEF makeHashFromUid, Words
  <2>3. SeedOf(how, d) = SeedOf(how, f)
    <3>1. CASE how = "uid"
      BY <3>1 DEF SeedOf
    <3>2. CASE how = "name"
      BY <1>3, <3>2 DEF SeedOf, GoneBy
    <3>3. CASE how = "device"
      BY <1>3, <3>3 DEF SeedOf, GoneBy, FullSeed
    <3> QED BY <3>1, <3>2, <3>3 DEF HashInv, HashKinds
  <2> QED BY <1>2, <2>2, <2>3
<1>4. ASSUME hash[1] = hash[2], ~RunsOn(d), ~RunsOn(f) PROVE GoneBy(d) = GoneBy(f)
  <2>1. how \in HashKinds
    BY DEF HashInv
  <2>2. /\ SeedOf(how, d) \in Seq(Blocks) /\ d.uid \in Seq(Nat)
        /\ SeedOf(how, f) \in Seq(Blocks) /\ f.uid \in Seq(Nat)
    BY <2>1, SeedType
  <2>3. SeedOf(how, d) = SeedOf(how, f) /\ UidBytes(d) = UidBytes(f)
    <3>1. makeHashFromUid(SeedOf(how, d), d) = makeHashFromUid(SeedOf(how, f), f)
      BY <1>2, <1>4, Zenon
    <3> HIDE DEF makeHashFromUid, SeedOf, UidBytes
    <3> QED BY <2>2, <3>1, HashReadBack, Zenon
  <2> QED BY <1>4, <2>1, <2>3, SeedTells
<1> QED BY <1>1, <1>3, <1>4 DEF HashesDiffer, TwoBoards

-----------------------------------------------------------------------------
(* Frames in a stream of bytes. *)

Bytes    == Seq(Byte)
Texts == Seq(Bytes)

LEMMA ByteFacts == kStartCharacter \in Byte /\ limit \in Nat /\ \A b \in Byte : b \in Nat
BY ParserAssumption DEF Byte

LEMMA ChecksumIsByte ==
  ASSUME NEW p \in Bytes
  PROVE  Checksum8(p) \in Byte
<1> DEFINE n == Len(p)
           m == kStartCharacter + 1
           onward == [i \in 1..n |-> [r \in Byte |-> (r + p[i] + 1) % m]]
           Steps(q) == q = [i \in 0..n |-> IF i = 0 THEN 0 ELSE (q[i - 1] + p[i] + 1) % m]
           g == CHOOSE q : Steps(q)
<1>1. n \in Nat /\ (\A i \in 1..n : p[i] \in Nat) /\ kStartCharacter \in Nat /\ Byte = 0..(m - 1)
  <2>1. \A i \in 1..n : p[i] \in Byte
    BY DEF Bytes
  <2>2. n \in Nat
    BY DEF Bytes
  <2>3. kStartCharacter \in Nat /\ \A i \in 1..n : p[i] \in Nat
    BY <2>1, ParserAssumption DEF Byte
  <2>4. kStartCharacter = m - 1 /\ Byte = 0..kStartCharacter
    BY <2>3 DEF Byte
  <2> QED BY <2>2, <2>3, <2>4
<1>2. ASSUME NEW r \in Nat PROVE r % m \in Byte
  <2>1. m \in Nat \ {0}
    BY <1>1
  <2> HIDE DEF m
  <2> QED BY <1>1, <2>1
<1>3. \A r \in Byte, i \in 1..n : (r + p[i] + 1) % m \in Byte
  <2> SUFFICES ASSUME NEW r \in Byte, NEW i \in 1..n PROVE (r + p[i] + 1) % m \in Byte
    OBVIOUS
  <2>1. r + p[i] + 1 \in Nat
    BY <1>1, ByteFacts
  <2> HIDE DEF m
  <2> QED BY <1>2, <2>1
<1>4. \E q : Steps(q)
  <2>1. onward \in [1..n -> [Byte -> Byte]] /\ 0 \in Byte
    <3>1. 0 \in Byte
      BY ParserAssumption DEF Byte
    <3> HIDE DEF m, n
    <3>2. \A i \in 1..n : [r \in Byte |-> (r + p[i] + 1) % m] \in [Byte -> Byte]
      BY <1>3
    <3> QED BY <3>1, <3>2
  <2>2. \A i \in 1..n : \A r \in Byte : onward[i][r] = (r + p[i] + 1) % m
    OBVIOUS
  <2> HIDE DEF onward, m
  <2>3. PICK h \in [0..n -> Byte] : Recursed(h, n, 0, onward)
    BY <1>1, <2>1, Recursion
  <2>4. ASSUME NEW i \in 1..n PROVE h[i] = (h[i - 1] + p[i] + 1) % m
    <3>1. i - 1 \in 0..n
      BY <1>1
    <3>2. h[i - 1] \in Byte
      BY <3>1, Zenon
    <3> QED BY <2>2, <2>3, <3>2 DEF Recursed
  <2>5. h = [i \in 0..n |-> IF i = 0 THEN 0 ELSE (h[i - 1] + p[i] + 1) % m]
    <3>1. \A i \in 0..n : i = 0 \/ i \in 1..n
      BY <1>1
    <3>2. h[0] = 0
      BY <2>3 DEF Recursed
    <3>3. \A i \in 0..n : h[i] = IF i = 0 THEN 0 ELSE (h[i - 1] + p[i] + 1) % m
      BY <2>4, <3>1, <3>2
    <3> QED BY <2>3, <3>3
  <2> QED BY <2>5
<1>5. Steps(g)
  BY <1>4, Zenon
<1>6. Checksum8(p) = g[n]
  BY DEF Checksum8
<1> HIDE DEF g, m
<1>7. g[0] = 0
  BY <1>1, <1>5
<1>8. ASSUME NEW i \in 1..n PROVE g[i] = (g[i - 1] + p[i] + 1) % m
  <2>1. i \in 0..n /\ i # 0
    BY <1>1
  <2> QED BY <1>5, <2>1
<1> DEFINE T == {i \in Nat : i <= n => g[i] \in Byte}
<1>9. 0 \in T
  BY <1>7, ParserAssumption DEF Byte
<1>10. ASSUME NEW i \in Nat, i \in T PROVE i + 1 \in T
  <2> SUFFICES ASSUME i + 1 <= n PROVE g[i + 1] \in Byte
    OBVIOUS
  <2>1. g[i] \in Byte /\ i + 1 \in 1..n /\ (i + 1) - 1 = i
    BY <1>1, <1>10
  <2> QED BY <1>3, <1>8, <2>1
<1>11. n \in T
  <2> HIDE DEF T
  <2> QED BY <1>1, <1>9, <1>10, Induction
<1> QED BY <1>1, <1>6, <1>11

\* What the reading of a stream does at one byte, if it is known behind it.
At(s, f, i) ==
  IF i + 1 > Len(s) THEN <<>>
  ELSE IF s[i] # kStartCharacter THEN f[i + 1]
  ELSE LET n == s[i + 1] + 1  p == SubSeq(s, i + 2, i + n + 1)
       IN IF n > limit THEN f[i + 2]
          ELSE IF i + n + 2 > Len(s) THEN <<>>
          ELSE IF s[i + n + 2] = Checksum8(p) THEN <<p>> \o f[i + n + 3]
          ELSE f[i + n + 3]

LEMMA Slice ==
  ASSUME NEW s \in Bytes, NEW a \in Nat, NEW b \in Nat, 1 <= a, b <= Len(s)
  PROVE  /\ SubSeq(s, a, b) \in Bytes
         /\ Len(SubSeq(s, a, b)) = IF a <= b THEN b - a + 1 ELSE 0
         /\ \A i \in 1..(b - a + 1) : SubSeq(s, a, b)[i] = s[a + i - 1]
<1>1. \A i \in a..b : s[i] \in Byte
  BY DEF Bytes
<1> QED BY <1>1, SubSeqProperties DEF Bytes

LEMMA OneMore ==
  ASSUME NEW p \in Bytes, NEW r \in Texts
  PROVE  <<p>> \o r \in Texts
<1>1. <<p>> \in Seq(Bytes)
  BY DEF Bytes
<1> HIDE DEF Bytes
<1> QED BY <1>1, ConcatProperties DEF Texts

\* Two readings that agree behind a byte agree at it.
LEMMA AtType ==
  ASSUME NEW s \in Bytes, NEW i \in 1..(Len(s) + 1), NEW f,
         \A j \in (i + 1)..(Len(s) + 1) : f[j] \in Texts
  PROVE  /\ At(s, f, i) \in Texts
         /\ \A g : (\A j \in (i + 1)..(Len(s) + 1) : g[j] = f[j]) => At(s, g, i) = At(s, f, i)
<1>0. Len(s) \in Nat /\ (\A j \in 1..Len(s) : s[j] \in Nat) /\ limit \in Nat /\ i \in Nat
  <2>1. \A j \in 1..Len(s) : s[j] \in Byte
    BY DEF Bytes
  <2> QED BY <2>1, ByteFacts DEF Bytes
<1>1. CASE i + 1 > Len(s)
  <2>1. <<>> \in Texts
    BY DEF Texts
  <2> QED BY <1>1, <2>1 DEF At
<1>2. CASE ~(i + 1 > Len(s)) /\ s[i] # kStartCharacter
  <2>1. i + 1 \in (i + 1)..(Len(s) + 1)
    BY <1>0, <1>2
  <2> QED BY <1>2, <2>1 DEF At
<1>3. CASE ~(i + 1 > Len(s)) /\ s[i] = kStartCharacter
  <2>1. PICK n \in Nat : n = s[i + 1] + 1 /\ n >= 1
    <3>1. i + 1 \in 1..Len(s)
      BY <1>0, <1>3
    <3> QED BY <1>0, <3>1
  <2>2. CASE n > limit
    <3>1. i + 2 \in (i + 1)..(Len(s) + 1)
      BY <1>0, <1>3
    <3> QED BY <1>3, <2>1, <2>2, <3>1 DEF At
  <2>3. CASE ~(n > limit) /\ i + n + 2 > Len(s)
    <3>1. <<>> \in Texts
      BY DEF Texts
    <3> QED BY <1>3, <2>1, <2>3, <3>1 DEF At
  <2>4. CASE ~(n > limit) /\ ~(i + n + 2 > Len(s))
    <3>1. i + n + 3 \in (i + 1)..(Len(s) + 1)
      BY <1>0, <2>1, <2>4
    <3> DEFINE p == SubSeq(s, i + 2, i + n + 1)
    <3>2. p \in Bytes
      <4>1. i + 2 \in Nat /\ i + n + 1 \in Nat /\ 1 <= i + 2 /\ i + n + 1 <= Len(s)
        BY <1>0, <2>1, <2>4
      <4> QED BY <4>1, Slice
    <3>3. \A g : At(s, g, i) = IF s[i + n + 2] = Checksum8(p) THEN <<p>> \o g[i + n + 3] ELSE g[i + n + 3]
      BY <1>3, <2>1, <2>4 DEF At
    <3> HIDE DEF p
    <3>4. f[i + n + 3] \in Texts
      BY <3>1
    <3>5. <<p>> \o f[i + n + 3] \in Texts
      BY <3>2, <3>4, OneMore
    <3>6. At(s, f, i) \in Texts
      BY <3>3, <3>4, <3>5
    <3> QED BY <3>1, <3>3, <3>6
  <2> QED BY <2>2, <2>3, <2>4
<1> QED BY <1>1, <1>2, <1>3

\* The reading of a stream is there, and it is what it does at each byte.
LEMMA Reads ==
  ASSUME NEW s \in Bytes, NEW i \in 1..(Len(s) + 1)
  PROVE  FramesFrom(s)[i] \in Texts /\ FramesFrom(s)[i] = At(s, FramesFrom(s), i)
<1> DEFINE N == Len(s) + 1
           Right(f, k) == f[k] \in Texts /\ f[k] = At(s, f, k)
           T == {m \in Nat : m <= N => \E f : \A k \in (N - m + 1)..N : Right(f, k)}
           Solves(q) == q = [k \in 1..N |-> At(s, q, k)]
           g == CHOOSE q : Solves(q)
<1>1. N \in Nat /\ N = Len(s) + 1
  BY DEF Bytes
<1>2. ASSUME NEW k \in 1..N, NEW f, \A j \in (k + 1)..N : f[j] \in Texts
      PROVE  /\ At(s, f, k) \in Texts
             /\ \A h : (\A j \in (k + 1)..N : h[j] = f[j]) => At(s, h, k) = At(s, f, k)
  BY <1>2, AtType
<1> HIDE DEF N
<1>3. 0 \in T
  <2>1. \A k \in (N - 0 + 1)..N : FALSE
    BY <1>1
  <2> QED BY <2>1
<1>4. ASSUME NEW m \in Nat, m \in T PROVE m + 1 \in T
  <2> SUFFICES ASSUME m + 1 <= N
               PROVE  \E f : \A k \in (N - (m + 1) + 1)..N : Right(f, k)
    OBVIOUS
  <2>1. PICK f : \A k \in (N - m + 1)..N : Right(f, k)
    BY <1>1, <1>4
  <2> DEFINE c == N - m
             v == At(s, f, c)
             h == [j \in 1..N |-> IF j = c THEN v ELSE f[j]]
  <2>2. c \in 1..N /\ N - m + 1 = c + 1 /\ N - (m + 1) + 1 = c
    BY <1>1
  <2>3. v = At(s, f, c)
    OBVIOUS
  <2> HIDE DEF c, Right, v
  <2>4. \A k \in (c + 1)..N : Right(f, k)
    BY <2>1, <2>2
  <2>5. v \in Texts
    BY <1>2, <2>2, <2>3, <2>4 DEF Right
  <2>6. h[c] = v /\ \A j \in (c + 1)..N : h[j] = f[j]
    BY <1>1, <2>2
  <2> HIDE DEF h
  <2>7. Right(h, c)
    BY <1>2, <2>2, <2>3, <2>4, <2>5, <2>6 DEF Right
  <2>8. ASSUME NEW k \in (c + 1)..N PROVE Right(h, k)
    <3>1. k \in 1..N /\ (\A j \in (k + 1)..N : j \in (c + 1)..N)
      BY <1>1, <2>2
    <3>2. At(s, h, k) = At(s, f, k)
      BY <1>2, <2>4, <2>6, <3>1 DEF Right
    <3> QED BY <2>4, <2>6, <3>2 DEF Right
  <2>9. \A k \in c..N : k = c \/ k \in (c + 1)..N
    BY <1>1, <2>2
  <2> QED BY <2>2, <2>7, <2>8, <2>9
<1>5. PICK f : \A k \in 1..N : Right(f, k)
  <2>1. N \in T
    <3> HIDE DEF T
    <3> QED BY <1>1, <1>3, <1>4, Induction
  <2>2. N - N + 1 = 1
    BY <1>1
  <2> HIDE DEF Right
  <2> QED BY <1>1, <2>1, <2>2
<1>6. \E q : Solves(q)
  <2> DEFINE h == [k \in 1..N |-> f[k]]
  <2>1. \A k \in 1..N : h[k] = f[k]
    OBVIOUS
  <2> HIDE DEF h
  <2>2. ASSUME NEW k \in 1..N PROVE h[k] = At(s, h, k)
    <3>1. \A j \in (k + 1)..N : j \in 1..N
      BY <1>1
    <3>2. At(s, h, k) = At(s, f, k)
      BY <1>2, <1>5, <2>1, <3>1
    <3> QED BY <1>5, <2>1, <3>2
  <2>3. h = [k \in 1..N |-> h[k]]
    BY <2>1 DEF h
  <2>4. [k \in 1..N |-> h[k]] = [k \in 1..N |-> At(s, h, k)]
    BY <2>2, Zenon
  <2> QED BY <2>3, <2>4
<1>7. Solves(g)
  BY <1>6, Zenon
<1>8. FramesFrom(s) = g
  BY Zenon DEF FramesFrom, At, N
<1> HIDE DEF g
<1>9. ASSUME NEW k \in 1..N PROVE g[k] = At(s, g, k)
  BY <1>7, Zenon
<1> DEFINE U == {m \in Nat : m <= N => \A k \in (N - m + 1)..N : g[k] \in Texts}
<1>10. 0 \in U
  <2>1. \A k \in (N - 0 + 1)..N : FALSE
    BY <1>1
  <2> QED BY <2>1
<1>11. ASSUME NEW m \in Nat, m \in U PROVE m + 1 \in U
  <2> SUFFICES ASSUME m + 1 <= N
               PROVE  \A k \in (N - (m + 1) + 1)..N : g[k] \in Texts
    OBVIOUS
  <2> DEFINE c == N - m
  <2>1. c \in 1..N /\ N - m + 1 = c + 1 /\ N - (m + 1) + 1 = c
    BY <1>1
  <2>2. \A k \in (c + 1)..N : g[k] \in Texts
    BY <1>1, <1>11, <2>1
  <2> HIDE DEF c
  <2>3. g[c] \in Texts
    BY <1>2, <1>9, <2>1, <2>2
  <2>4. \A k \in c..N : k = c \/ k \in (c + 1)..N
    BY <1>1, <2>1
  <2> QED BY <2>1, <2>2, <2>3, <2>4
<1>12. \A k \in 1..N : g[k] \in Texts
  <2>1. N \in U
    <3> HIDE DEF U
    <3> QED BY <1>1, <1>10, <1>11, Induction
  <2>2. N - N + 1 = 1
    BY <1>1
  <2> QED BY <1>1, <2>1, <2>2
<1> QED BY <1>8, <1>9, <1>12 DEF N

LEMMA Joined ==
  ASSUME NEW s \in Bytes, NEW r \in Bytes
  PROVE  /\ s \o r \in Bytes /\ Len(s \o r) = Len(s) + Len(r) /\ Len(s) \in Nat /\ Len(r) \in Nat
         /\ \A i \in 1..Len(s) : (s \o r)[i] = s[i]
         /\ \A i \in 1..Len(r) : (s \o r)[Len(s) + i] = r[i]
BY DEF Bytes

LEMMA Halves ==
  ASSUME NEW S, NEW p \in Seq(S), NEW q \in Seq(S)
  PROVE  /\ p \o q \in Seq(S) /\ Len(p \o q) = Len(p) + Len(q)
         /\ \A i \in 1..(Len(p) + Len(q)) : (p \o q)[i] = IF i <= Len(p) THEN p[i] ELSE q[i - Len(p)]
BY ConcatProperties

LEMMA Regroup ==
  ASSUME NEW S, NEW p \in Seq(S), NEW q \in Seq(S), NEW r \in Seq(S)
  PROVE  (p \o q) \o r = p \o (q \o r)
<1> DEFINE u == (p \o q) \o r
           v == p \o (q \o r)
<1>1. /\ u \in Seq(S) /\ Len(u) = Len(p) + Len(q) + Len(r)
      /\ \A i \in 1..Len(u) : u[i] = IF i <= Len(p) THEN p[i]
                                   ELSE IF i <= Len(p) + Len(q) THEN q[i - Len(p)]
                                   ELSE r[i - Len(p) - Len(q)]
  <2> HIDE DEF u, v
  <2> DEFINE w == p \o q
  <2>0. w \in Seq(S)
    BY Halves
  <2>1. /\ w \in Seq(S) /\ Len(w) = Len(p) + Len(q)
        /\ \A i \in 1..Len(w) : w[i] = IF i <= Len(p) THEN p[i] ELSE q[i - Len(p)]
    BY Halves
  <2> HIDE DEF w
  <2>2. /\ w \o r \in Seq(S) /\ Len(w \o r) = Len(w) + Len(r)
        /\ \A i \in 1..(Len(w) + Len(r)) : (w \o r)[i] = IF i <= Len(w) THEN w[i] ELSE r[i - Len(w)]
    BY <2>0, Halves
  <2>3. u = w \o r
    BY DEF w, u
  <2> QED BY <2>1, <2>2, <2>3
<1>2. /\ v \in Seq(S) /\ Len(v) = Len(p) + Len(q) + Len(r)
      /\ \A i \in 1..Len(v) : v[i] = IF i <= Len(p) THEN p[i]
                                   ELSE IF i <= Len(p) + Len(q) THEN q[i - Len(p)]
                                   ELSE r[i - Len(p) - Len(q)]
  <2> HIDE DEF u, v
  <2> DEFINE w == q \o r
  <2>0. w \in Seq(S)
    BY Halves
  <2>1. /\ w \in Seq(S) /\ Len(w) = Len(q) + Len(r)
        /\ \A i \in 1..Len(w) : w[i] = IF i <= Len(q) THEN q[i] ELSE r[i - Len(q)]
    BY Halves
  <2> HIDE DEF w
  <2>2. /\ p \o w \in Seq(S) /\ Len(p \o w) = Len(p) + Len(w)
        /\ \A i \in 1..(Len(p) + Len(w)) : (p \o w)[i] = IF i <= Len(p) THEN p[i] ELSE w[i - Len(p)]
    BY <2>0, Halves
  <2>3. v = p \o w
    BY DEF w, v
  <2> QED BY <2>1, <2>2, <2>3
<1> HIDE DEF u, v
<1>3. u = v
  BY <1>1, <1>2, SeqEqual
<1> QED BY <1>3 DEF u, v

LEMMA BytesRegroup ==
  ASSUME NEW p \in Bytes, NEW q \in Bytes, NEW r \in Bytes
  PROVE  (p \o q) \o r = p \o (q \o r)
BY Regroup, SMTT(60) DEF Bytes

\* Nothing starts at the last byte or behind it.
LEMMA ReadsEnd ==
  ASSUME NEW s \in Bytes, NEW i \in 1..(Len(s) + 1), i >= Len(s)
  PROVE  FramesFrom(s)[i] = <<>>
<1>1. i + 1 > Len(s)
  BY DEF Bytes
<1> QED BY <1>1, Reads DEF At

\* A byte that starts nothing is passed over.
LEMMA ReadsOn ==
  ASSUME NEW s \in Bytes, NEW i \in 1..Len(s), s[i] # kStartCharacter
  PROVE  FramesFrom(s)[i] = FramesFrom(s)[i + 1]
<1>1. Len(s) \in Nat /\ i \in 1..(Len(s) + 1) /\ i + 1 \in 1..(Len(s) + 1)
  BY DEF Bytes
<1>2. CASE i = Len(s)
  BY <1>1, <1>2, ReadsEnd
<1>3. CASE i # Len(s)
  <2>1. ~(i + 1 > Len(s))
    BY <1>1, <1>3
  <2> QED BY <1>1, <2>1, Reads DEF At
<1> QED BY <1>2, <1>3

\* So is the head of a frame that is too long.
LEMMA ReadsLong ==
  ASSUME NEW s \in Bytes, NEW i \in Nat, i >= 1, i + 1 <= Len(s), s[i] = kStartCharacter,
         s[i + 1] + 1 > limit
  PROVE  FramesFrom(s)[i] = FramesFrom(s)[i + 2]
<1>1. i \in 1..(Len(s) + 1) /\ ~(i + 1 > Len(s))
  BY DEF Bytes
<1> QED BY <1>1, Reads DEF At

\* A frame that has not come to its end gives nothing yet.
LEMMA ReadsPart ==
  ASSUME NEW s \in Bytes, NEW i \in Nat, NEW n \in 1..limit, i >= 1, i + 1 <= Len(s),
         s[i] = kStartCharacter, s[i + 1] + 1 = n, i + n + 2 > Len(s)
  PROVE  FramesFrom(s)[i] = <<>>
<1>1. i \in 1..(Len(s) + 1) /\ ~(i + 1 > Len(s)) /\ ~(n > limit)
  BY ByteFacts DEF Bytes
<1> QED BY <1>1, Reads DEF At

\* A whole frame gives its payload, if the checksum is that of the payload.
LEMMA ReadsFrame ==
  ASSUME NEW s \in Bytes, NEW i \in Nat, NEW n \in 1..limit, NEW b \in Bytes,
         i >= 1, i + n + 2 <= Len(s), s[i] = kStartCharacter, s[i + 1] + 1 = n, Len(b) = n,
         \A j \in 1..n : s[i + 1 + j] = b[j]
  PROVE  FramesFrom(s)[i] = IF s[i + n + 2] = Checksum8(b) THEN <<b>> \o FramesFrom(s)[i + n + 3]
                            ELSE FramesFrom(s)[i + n + 3]
<1>0. Len(s) \in Nat /\ limit \in Nat /\ n \in Nat /\ n >= 1 /\ n <= limit
  <2>1. Len(s) \in Nat
    BY DEF Bytes
  <2>2. limit \in Nat
    BY ByteFacts
  <2> QED BY <2>1, <2>2
<1>1. /\ i \in 1..(Len(s) + 1) /\ ~(i + 1 > Len(s)) /\ ~(n > limit) /\ ~(i + n + 2 > Len(s))
      /\ n \in Nat /\ Len(s) \in Nat
  BY <1>0
<1> DEFINE p == SubSeq(s, i + 2, i + n + 1)
<1>2. p = b
  <2>1. i + 2 \in Nat /\ i + n + 1 \in Nat /\ 1 <= i + 2 /\ i + n + 1 <= Len(s)
    BY <1>1
  <2>2. (i + n + 1) - (i + 2) + 1 = n /\ i + 2 <= i + n + 1
    BY <1>1
  <2>3. p \in Bytes /\ Len(p) = n /\ \A j \in 1..n : p[j] = s[i + 2 + j - 1]
    BY <2>1, <2>2, Slice
  <2>4. \A j \in 1..n : i + 2 + j - 1 = i + 1 + j
    OBVIOUS
  <2> HIDE DEF p
  <2>5. \A j \in 1..n : p[j] = b[j]
    BY <2>3, <2>4
  <2> QED BY <2>3, <2>5, SeqEqual DEF Bytes
<1>3. FramesFrom(s)[i] = IF s[i + n + 2] = Checksum8(p) THEN <<p>> \o FramesFrom(s)[i + n + 3]
                         ELSE FramesFrom(s)[i + n + 3]
  <2> DEFINE f == FramesFrom(s)
  <2>1. f[i] = At(s, f, i)
    BY <1>1, Reads
  <2> HIDE DEF f
  <2>2. f[i] = IF s[i + n + 2] = Checksum8(p) THEN <<p>> \o f[i + n + 3] ELSE f[i + n + 3]
    BY <1>1, <2>1 DEF At
  <2> QED BY <2>2 DEF f
<1> QED BY <1>2, <1>3

-----------------------------------------------------------------------------
(* What has been read stands, whatever comes. *)

\* A stream that begins with w holds the messages m and what is read from its k-th byte on.
Stands(w, k, m) == \A r \in Bytes : Frames(w \o r) = m \o FramesFrom(w \o r)[k]

LEMMA StandsOn ==
  ASSUME NEW w \in Bytes, NEW x \in Bytes, NEW k, NEW m, Stands(w, k, m)
  PROVE  Stands(w \o x, k, m)
<1> SUFFICES ASSUME NEW r \in Bytes
             PROVE  Frames((w \o x) \o r) = m \o FramesFrom((w \o x) \o r)[k]
  BY DEF Stands
<1>1. (w \o x) \o r = w \o (x \o r)
  BY Regroup, SMTT(60) DEF Bytes
<1>2. x \o r \in Bytes
  BY Joined
<1> QED BY <1>1, <1>2 DEF Stands

\* Places that read the same in every continuation.
LEMMA StandsMoved ==
  ASSUME NEW w \in Bytes, NEW k, NEW l, NEW m, Stands(w, k, m),
         \A r \in Bytes : FramesFrom(w \o r)[k] = FramesFrom(w \o r)[l]
  PROVE  Stands(w, l, m)
BY DEF Stands

\* Behind a whole frame.
LEMMA StandsBehind ==
  ASSUME NEW w \in Bytes, NEW m \in Texts, NEW k \in Nat, NEW n \in 1..limit, NEW b \in Bytes,
         k >= 1, k + n + 2 = Len(w), w[k] = kStartCharacter, w[k + 1] + 1 = n, Len(b) = n,
         \A j \in 1..n : w[k + 1 + j] = b[j], Stands(w, k, m)
  PROVE  Stands(w, Len(w) + 1, IF w[Len(w)] = Checksum8(b) THEN Append(m, b) ELSE m)
<1> SUFFICES ASSUME NEW r \in Bytes
             PROVE  Frames(w \o r) = (IF w[Len(w)] = Checksum8(b) THEN Append(m, b) ELSE m)
                                       \o FramesFrom(w \o r)[Len(w) + 1]
  BY DEF Stands
<1> DEFINE s == w \o r
           c == Len(w)
<1>1. /\ s \in Bytes /\ c \in Nat /\ c <= Len(s) /\ c + 1 \in 1..(Len(s) + 1)
      /\ \A i \in 1..c : s[i] = w[i]
  <2>1. /\ s \in Bytes /\ Len(s) = c + Len(r) /\ c \in Nat /\ Len(r) \in Nat
        /\ \A i \in 1..c : s[i] = w[i]
    BY Joined
  <2> HIDE DEF s, c
  <2> QED BY <2>1
<1>2. c = k + n + 2 /\ n \in Nat
  BY ByteFacts
<1>3. Frames(s) = m \o FramesFrom(s)[k]
  BY DEF Stands
<1> HIDE DEF s, c
<1>4. k \in 1..c /\ k + 1 \in 1..c /\ c \in 1..c /\ (\A j \in 1..n : k + 1 + j \in 1..c)
  BY <1>1, <1>2
<1>5. s[k] = kStartCharacter /\ s[k + 1] + 1 = n /\ (\A j \in 1..n : s[k + 1 + j] = b[j]) /\ s[c] = w[c]
  BY <1>1, <1>4
<1>6. k + n + 2 <= Len(s) /\ k + n + 2 = c /\ k + n + 3 = c + 1
  BY <1>1, <1>2
<1> DEFINE f == FramesFrom(s)
<1>7. f[k] = IF s[k + n + 2] = Checksum8(b) THEN <<b>> \o f[k + n + 3] ELSE f[k + n + 3]
  BY <1>1, <1>5, <1>6, ReadsFrame
<1>8. f[k] = IF w[c] = Checksum8(b) THEN <<b>> \o f[c + 1] ELSE f[c + 1]
  BY <1>5, <1>6, <1>7
<1>9. f[c + 1] \in Texts
  BY <1>1, Reads
<1> HIDE DEF f
<1>10. <<b>> \in Texts /\ m \o <<b>> = Append(m, b)
  <2> HIDE DEF Bytes
  <2> QED BY DEF Texts
<1>11. m \o (<<b>> \o f[c + 1]) = Append(m, b) \o f[c + 1]
  <2>1. (m \o <<b>>) \o f[c + 1] = m \o (<<b>> \o f[c + 1])
    <3> DEFINE x == <<b>>
               y == f[c + 1]
    <3>1. x \in Texts /\ y \in Texts
      BY <1>9, <1>10
    <3> HIDE DEF x, y
    <3>2. (m \o x) \o y = m \o (x \o y)
      BY <3>1, Regroup, SMTT(60) DEF Texts
    <3> QED BY <3>2 DEF x, y
  <2> QED BY <1>10, <2>1
<1>12. Frames(s) = m \o f[k]
  BY <1>3 DEF f
<1>13. Frames(s) = (IF w[c] = Checksum8(b) THEN Append(m, b) ELSE m) \o f[c + 1]
  BY <1>8, <1>11, <1>12
<1> QED BY <1>13 DEF s, c, f

-----------------------------------------------------------------------------
(* The parser. *)

\* The first byte that no message processed and nothing passed over has taken.
Start ==
  IF parserState = "LENGTH" THEN Len(stream)
  ELSE IF parserState \in {"PAYLOAD", "CHECKSUM"} THEN Len(stream) - 1 - Len(buffer)
  ELSE Len(stream) + 1

\* All bytes of the line, those that were taken too.
Wire == stream \o (input \o line)

ParserTypes ==
  /\ line \in Bytes /\ input \in Bytes /\ stream \in Bytes /\ buffer \in Bytes
  /\ parsed \in Texts /\ clean \in Texts /\ messageLength \in Nat /\ noise \in Nat
  /\ parserState \in
       {"IDLE", "LENGTH", "PAYLOAD", "CHECKSUM", "DONE", "ERROR_CHECKSUM", "ERROR_LENGTH"}

\* In the middle of a frame the parser holds what the stream holds from Start on.
InFrame ==
  /\ parserState = "LENGTH" => Len(stream) >= 1 /\ stream[Start] = kStartCharacter
  /\ parserState \in {"PAYLOAD", "CHECKSUM"} =>
       /\ messageLength \in 1..limit /\ Start \in 1..Len(stream)
       /\ stream[Start] = kStartCharacter /\ stream[Start + 1] + 1 = messageLength
       /\ \A j \in 1..Len(buffer) : stream[Start + 1 + j] = buffer[j]
  /\ parserState = "PAYLOAD" => Len(buffer) < messageLength
  /\ parserState = "CHECKSUM" => Len(buffer) = messageLength

ParserInv ==
  /\ ParserTypes /\ InFrame
  /\ Stands(stream, Start, parsed)
  /\ noise = 0 => Stands(Wire, Len(Wire) + 1, clean)

LEMMA EmptyStands == Stands(<<>>, 1, <<>>)
<1> SUFFICES ASSUME NEW r \in Bytes
             PROVE  Frames(<<>> \o r) = <<>> \o FramesFrom(<<>> \o r)[1]
  BY DEF Stands
<1>1. <<>> \o r = r
  BY DEF Bytes
<1>2. FramesFrom(r)[1] \in Texts
  <2>1. 1 \in 1..(Len(r) + 1)
    BY DEF Bytes
  <2> QED BY <2>1, Reads
<1>3. <<>> \o FramesFrom(r)[1] = FramesFrom(r)[1]
  BY <1>2 DEF Texts
<1> QED BY <1>1, <1>3 DEF Frames

LEMMA ParserStarts == ParserInit => ParserInv
<1> SUFFICES ASSUME ParserInit PROVE ParserInv
  OBVIOUS
<1> USE DEF ParserInit
<1>1. <<>> \in Bytes /\ <<>> \in Texts
  BY DEF Bytes, Texts
<1>2. ParserTypes
  BY <1>1 DEF ParserTypes
<1>3. InFrame
  BY DEF InFrame
<1>4. Start = 1 /\ Wire = <<>> /\ Len(Wire) + 1 = 1
  BY DEF Start, Wire
<1> QED BY <1>2, <1>3, <1>4, EmptyStands DEF ParserInv

\* What is on the wire in the end was taken from it, or was never put on it.
LEMMA ParserTells == ParserInv => FramesSurviveCuts
<1> SUFFICES ASSUME ParserInv PROVE FramesSurviveCuts
  OBVIOUS
<1> USE DEF ParserInv
<1>1. ParserTypes /\ Len(stream) \in Nat /\ <<>> \in Bytes /\ stream \o <<>> = stream
  BY DEF ParserTypes, Bytes
<1>2. Start \in 1..(Len(stream) + 1)
  BY <1>1 DEF InFrame, Start
<1>3. parsed = Frames(stream)
  <2>1. FramesFrom(stream)[Start] = <<>>
    <3>1. CASE parserState \in {"PAYLOAD", "CHECKSUM"}
      <4>1. Start = Len(stream) - 1 - Len(buffer) /\ Len(buffer) \in Nat /\ messageLength \in Nat
        BY <1>1, <3>1 DEF Start, ParserTypes, Bytes
      <4>2. Start + messageLength + 2 > Len(stream) /\ Start + 1 <= Len(stream) /\ Start >= 1 /\ Start \in Nat
        BY <1>1, <1>2, <3>1, <4>1 DEF InFrame
      <4> QED BY <1>1, <3>1, <4>2, ReadsPart DEF InFrame, ParserTypes
    <3>2. CASE ~(parserState \in {"PAYLOAD", "CHECKSUM"})
      <4>1. Start >= Len(stream)
        BY <1>1, <3>2 DEF Start
      <4> QED BY <1>1, <1>2, <4>1, ReadsEnd DEF ParserTypes
    <3> QED BY <3>1, <3>2
  <2>2. Frames(stream) = parsed \o FramesFrom(stream)[Start]
    BY <1>1 DEF Stands
  <2> QED BY <1>1, <2>1, <2>2 DEF ParserTypes, Texts
<1>4. ASSUME noise = 0
      PROVE  IsPrefix(parsed, clean) /\ (line = <<>> /\ input = <<>> => parsed = clean)
  <2> DEFINE u == input \o line
  <2>1. u \in Bytes /\ Wire = stream \o u /\ Wire \in Bytes /\ Wire \o <<>> = Wire
    <3>1. u \in Bytes
      BY <1>1, Joined DEF ParserTypes
    <3>2. Wire = stream \o u
      BY DEF Wire
    <3> HIDE DEF u
    <3>3. Wire \in Bytes
      BY <1>1, <3>1, <3>2, Joined DEF ParserTypes
    <3> QED BY <3>1, <3>2, <3>3 DEF Bytes
  <2> HIDE DEF u
  <2>2. Frames(Wire) = clean
    <3>1. Frames(Wire) = clean \o FramesFrom(Wire)[Len(Wire) + 1]
      BY <1>1, <1>4, <2>1 DEF Stands
    <3>2. FramesFrom(Wire)[Len(Wire) + 1] = <<>>
      <4>1. Len(Wire) + 1 \in 1..(Len(Wire) + 1) /\ Len(Wire) + 1 >= Len(Wire)
        BY <2>1 DEF Bytes
      <4> QED BY <2>1, <4>1, ReadsEnd
    <3> QED BY <1>1, <3>1, <3>2 DEF ParserTypes, Texts
  <2>3. Frames(Wire) = parsed \o FramesFrom(Wire)[Start]
    BY <2>1 DEF Stands
  <2>4. FramesFrom(Wire)[Start] \in Texts
    <3>1. Start \in 1..(Len(Wire) + 1)
      BY <1>1, <1>2, <2>1, Joined DEF ParserTypes
    <3> QED BY <2>1, <3>1, Reads
  <2>5. IsPrefix(parsed, clean)
    <3> DEFINE x == FramesFrom(Wire)[Start]
    <3>1. x \in Texts /\ clean = parsed \o x
      BY <2>2, <2>3, <2>4
    <3> HIDE DEF x
    <3>2. /\ Len(clean) = Len(parsed) + Len(x) /\ Len(parsed) \in Nat /\ Len(x) \in Nat
          /\ \A i \in 1..Len(parsed) : clean[i] = parsed[i]
      BY <1>1, <3>1 DEF ParserTypes, Texts
    <3>3. SubSeq(clean, 1, Len(parsed)) = parsed
      <4>1. /\ SubSeq(clean, 1, Len(parsed)) \in Texts
            /\ Len(SubSeq(clean, 1, Len(parsed))) = Len(parsed)
            /\ \A i \in 1..Len(parsed) : SubSeq(clean, 1, Len(parsed))[i] = clean[i]
        <5>1. \A i \in 1..Len(parsed) : clean[i] \in Bytes
          BY <1>1, <3>2 DEF ParserTypes, Texts
        <5> HIDE DEF Bytes
        <5> QED BY <3>2, <5>1, SubSeqProperties DEF Texts
      <4> QED BY <1>1, <3>2, <4>1, SeqEqual DEF ParserTypes, Texts
    <3> QED BY <3>2, <3>3 DEF IsPrefix
  <2>6. ASSUME line = <<>>, input = <<>> PROVE parsed = clean
    <3>1. Wire = stream
      BY <1>1, <2>6 DEF Wire, ParserTypes, Bytes
    <3> QED BY <1>3, <2>2, <3>1
  <2> QED BY <2>5, <2>6
<1> QED BY <1>3, <1>4 DEF FramesSurviveCuts

LEMMA Pushed ==
  ASSUME NEW s \in Bytes, NEW v \in Byte
  PROVE  /\ Append(s, v) = s \o <<v>> /\ <<v>> \in Bytes /\ Append(s, v) \in Bytes
         /\ Len(s) \in Nat /\ Len(Append(s, v)) = Len(s) + 1
         /\ (\A i \in 1..Len(s) : Append(s, v)[i] = s[i]) /\ Append(s, v)[Len(s) + 1] = v
BY DEF Bytes

LEMMA Popped ==
  ASSUME NEW s \in Bytes, s # <<>>
  PROVE  Head(s) \in Byte /\ Tail(s) \in Bytes /\ s = <<Head(s)>> \o Tail(s)
BY DEF Bytes

LEMMA Framed ==
  ASSUME NEW p \in Payloads
  PROVE  LET n == Len(p)  x == create(p)
         IN  /\ p \in Bytes /\ n \in 1..limit /\ x \in Bytes /\ Len(x) = n + 3
             /\ x[1] = kStartCharacter /\ x[2] + 1 = n /\ x[n + 3] = Checksum8(p)
             /\ \A j \in 1..n : x[2 + j] = p[j]
<1> DEFINE n == Len(p)
           c == Checksum8(p)
           h == <<kStartCharacter, n - 1>>
           x == create(p)
<1>1. p \in Bytes /\ n \in 1..limit /\ n \in Nat /\ n - 1 \in Byte
  BY ParserAssumption DEF Bytes, Byte
<1>2. c \in Byte /\ kStartCharacter \in Byte
  BY <1>1, ChecksumIsByte, ByteFacts
<1>3. x = (h \o p) \o <<c>>
  BY DEF create
<1>4. h \in Bytes /\ Len(h) = 2 /\ h[1] = kStartCharacter /\ h[2] = n - 1
  BY <1>1, <1>2 DEF Bytes
<1> HIDE DEF h, c, x
<1>5. <<c>> \in Bytes /\ Len(<<c>>) = 1 /\ <<c>>[1] = c
  BY <1>2 DEF Bytes
<1> DEFINE w == h \o p
<1>6. w \in Bytes /\ Len(w) = n + 2 /\ w[1] = h[1] /\ w[2] = h[2] /\ \A j \in 1..n : w[2 + j] = p[j]
  <2>1. /\ w \in Bytes /\ Len(w) = Len(h) + Len(p)
        /\ (\A i \in 1..Len(h) : w[i] = h[i]) /\ (\A i \in 1..Len(p) : w[Len(h) + i] = p[i])
    BY <1>1, <1>4, Joined
  <2> HIDE DEF w
  <2>2. 1 \in 1..Len(h) /\ 2 \in 1..Len(h)
    BY <1>4
  <2> QED BY <1>1, <1>4, <2>1, <2>2
<1> HIDE DEF w
<1>7. x = w \o <<c>>
  BY <1>3 DEF w
<1>8. /\ x \in Bytes /\ Len(x) = Len(w) + 1 /\ (\A j \in 1..Len(w) : x[j] = w[j]) /\ x[Len(w) + 1] = c
  <2> DEFINE e == <<c>>
  <2>1. e \in Bytes /\ Len(e) = 1 /\ e[1] = c /\ x = w \o e
    BY <1>5, <1>7
  <2> HIDE DEF e
  <2>2. 1 \in 1..Len(e)
    BY <2>1
  <2>3. /\ x \in Bytes /\ Len(x) = Len(w) + Len(e) /\ (\A i \in 1..Len(w) : x[i] = w[i])
        /\ x[Len(w) + 1] = e[1]
    BY <1>6, <2>1, <2>2, Joined
  <2> QED BY <2>1, <2>3
<1>9. x[1] = kStartCharacter /\ x[2] = n - 1 /\ x[n + 3] = c /\ Len(x) = n + 3
  <2>1. 1 \in 1..Len(w) /\ 2 \in 1..Len(w) /\ Len(w) + 1 = n + 3
    BY <1>1, <1>6
  <2> QED BY <1>4, <1>6, <1>8, <2>1
<1>10. ASSUME NEW j \in 1..n PROVE x[2 + j] = p[j]
  <2>1. 2 + j \in 1..Len(w)
    BY <1>1, <1>6
  <2> QED BY <1>6, <1>8, <2>1
<1>11. x[2] + 1 = n
  BY <1>1, <1>9
<1> QED BY <1>1, <1>8, <1>9, <1>10, <1>11 DEF x, c

LEMMA SendKeeps ==
  ASSUME ParserInv, NEW p \in Payloads, SendFrame(p)
  PROVE  ParserInv'
<1> USE DEF SendFrame
<1>1. /\ ParserTypes /\ parserState' = parserState /\ stream' = stream /\ buffer' = buffer
      /\ input' = input /\ parsed' = parsed /\ messageLength' = messageLength /\ noise' = noise
      /\ line' = line \o create(p)
  BY DEF ParserInv
<1> DEFINE n == Len(p)
           x == create(p)
<1>2. /\ p \in Bytes /\ n \in 1..limit /\ x \in Bytes /\ Len(x) = n + 3
      /\ x[1] = kStartCharacter /\ x[2] + 1 = n /\ x[n + 3] = Checksum8(p)
      /\ \A j \in 1..n : x[2 + j] = p[j]
  BY Framed
<1>3. line' = line \o x
  BY <1>1
<1> HIDE DEF n, x
<1>4. ParserTypes'
  <2>1. line' \in Bytes
    BY <1>1, <1>2, <1>3, Joined DEF ParserTypes
  <2>2. clean' \in Texts
    <3> HIDE DEF Bytes
    <3>1. clean \in Seq(Bytes)
      BY <1>1 DEF ParserTypes, Texts
    <3>2. Append(clean, p) \in Seq(Bytes)
      BY <1>2, <3>1, AppendProperties
    <3> QED BY <3>1, <3>2 DEF Texts
  <2> QED BY <1>1, <2>1, <2>2 DEF ParserTypes
<1>5. InFrame' /\ Start' = Start /\ Stands(stream, Start, parsed)'
  BY <1>1 DEF InFrame, Start, ParserInv, Stands
<1>6. ASSUME noise' = 0 PROVE Stands(Wire', Len(Wire') + 1, clean')
  <2> DEFINE w == Wire
             c == Len(w)
             W == w \o x
  <2>1. w \in Bytes /\ c \in Nat /\ Stands(w, c + 1, clean) /\ clean' = Append(clean, p) /\ clean \in Texts
    <3>1. Wire \in Bytes
      BY <1>1, Joined DEF Wire, ParserTypes
    <3> QED BY <1>1, <1>6, <3>1 DEF ParserInv, ParserTypes, Bytes
  <2>2. Wire' = W
    <3>1. input \o (line \o x) = (input \o line) \o x
      BY <1>1, <1>2, BytesRegroup DEF ParserTypes
    <3>2. stream \o ((input \o line) \o x) = (stream \o (input \o line)) \o x
      <4>1. input \o line \in Bytes /\ stream \in Bytes
        BY <1>1, Joined DEF ParserTypes
      <4> QED BY <1>2, <4>1, BytesRegroup, SMTT(60)
    <3> QED BY <1>1, <1>3, <3>1, <3>2 DEF Wire
  <2> HIDE DEF w, c
  <2>3. /\ W \in Bytes /\ Len(W) = c + Len(x)
        /\ \A i \in 1..Len(x) : W[c + i] = x[i]
    BY <1>2, <2>1, Joined DEF c
  <2>4. Stands(W, c + 1, clean)
    BY <1>2, <2>1, StandsOn
  <2> HIDE DEF W
  <2>5. n \in Nat /\ Len(W) = c + 1 + n + 2
    BY <1>2, <2>1, <2>3, ByteFacts
  <2>6. W[c + 1] = kStartCharacter /\ W[c + 1 + 1] + 1 = n /\ W[Len(W)] = Checksum8(p)
    <3>1. 1 \in 1..Len(x) /\ 2 \in 1..Len(x) /\ n + 3 \in 1..Len(x)
      BY <1>2, <2>5
    <3>2. c + 2 = c + 1 + 1 /\ c + (n + 3) = Len(W)
      BY <2>1, <2>5
    <3> QED BY <1>2, <2>3, <3>1, <3>2
  <2>7. ASSUME NEW j \in 1..n PROVE W[c + 1 + 1 + j] = p[j]
    <3>1. 2 + j \in 1..Len(x) /\ c + (2 + j) = c + 1 + 1 + j
      BY <1>2, <2>1, <2>5
    <3> QED BY <1>2, <2>3, <3>1
  <2>8. Stands(W, Len(W) + 1, IF W[Len(W)] = Checksum8(p) THEN Append(clean, p) ELSE clean)
    <3> DEFINE k == c + 1
    <3>1. /\ k \in Nat /\ k >= 1 /\ k + n + 2 = Len(W) /\ Len(p) = n
          /\ W[k] = kStartCharacter /\ W[k + 1] + 1 = n /\ (\A j \in 1..n : W[k + 1 + j] = p[j])
          /\ Stands(W, k, clean)
      BY <2>1, <2>4, <2>5, <2>6, <2>7 DEF n
    <3> HIDE DEF k
    <3> QED BY <1>2, <2>1, <2>3, <3>1, StandsBehind
  <2> QED BY <2>1, <2>2, <2>6, <2>8
<1> QED BY <1>4, <1>5, <1>6 DEF ParserInv

LEMMA DisturbKeeps ==
  ASSUME ParserInv, Disturb
  PROVE  ParserInv'
<1> USE DEF Disturb
<1>1. /\ ParserTypes /\ parserState' = parserState /\ stream' = stream /\ buffer' = buffer
      /\ input' = input /\ parsed' = parsed /\ messageLength' = messageLength /\ noise' = noise + 1
      /\ clean' = <<>>
  BY DEF ParserInv
<1>2. line' \in Bytes
  <2>1. CASE \E b \in Byte : line' = Append(line, b)
    <3>1. PICK b \in Byte : line' = Append(line, b)
      BY <2>1
    <3>2. line \in Bytes
      BY <1>1 DEF ParserTypes
    <3>3. Append(line, b) \in Bytes
      BY <3>2, Pushed
    <3> QED BY <3>1, <3>3
  <2>2. CASE \E i \in 1..Len(line) : line' = RemoveAt(line, i)
    BY <1>1, <2>2, Removed DEF ParserTypes, RemoveAt, Bytes
  <2> QED BY <2>1, <2>2
<1>3. <<>> \in Texts /\ noise' \in Nat /\ noise' # 0
  BY <1>1 DEF ParserTypes, Texts
<1>4. ParserTypes'
  BY <1>1, <1>2, <1>3 DEF ParserTypes
<1>5. InFrame' /\ Start' = Start /\ Stands(stream, Start, parsed)'
  BY <1>1 DEF InFrame, Start, ParserInv, Stands
<1> QED BY <1>3, <1>4, <1>5 DEF ParserInv

LEMMA UpdateKeeps ==
  ASSUME ParserInv, NEW n \in 1..MaxCut, UpdateCalled(n)
  PROVE  ParserInv'
<1> USE DEF UpdateCalled
<1>1. /\ ParserTypes /\ parserState' = (IF finished THEN "IDLE" ELSE parserState)
      /\ stream' = stream /\ buffer' = buffer /\ input = <<>> /\ n <= Len(line)
      /\ input' = SubSeq(line, 1, n) /\ line' = SubSeq(line, n + 1, Len(line))
      /\ parsed' = parsed /\ messageLength' = messageLength /\ noise' = noise /\ clean' = clean
  BY DEF ParserInv
<1>2. n \in Nat /\ n >= 1
  BY ParserAssumption
<1>3. input' \in Bytes /\ line' \in Bytes /\ input' \o line' = line
  BY <1>1, <1>2 DEF ParserTypes, Bytes
<1>4. ParserTypes'
  BY <1>1, <1>3 DEF ParserTypes
<1>5. InFrame' /\ Start' = Start /\ Stands(stream, Start, parsed)'
  BY <1>1 DEF InFrame, Start, ParserInv, Stands, finished
<1>6. Wire' = Wire
  <2>1. input \o line = line
    BY <1>1 DEF ParserTypes, Bytes
  <2> QED BY <1>1, <1>3, <2>1 DEF Wire
<1> QED BY <1>1, <1>4, <1>5, <1>6 DEF ParserInv

LEMMA AgainKeeps ==
  ASSUME ParserInv, ParserCalledAgain
  PROVE  ParserInv'
<1> USE DEF ParserCalledAgain
<1>1. /\ ParserTypes /\ parserState' = "IDLE" /\ finished
      /\ stream' = stream /\ buffer' = buffer /\ input' = input /\ line' = line
      /\ parsed' = parsed /\ messageLength' = messageLength /\ noise' = noise /\ clean' = clean
  BY DEF ParserInv
<1>2. ParserTypes'
  BY <1>1 DEF ParserTypes
<1>3. InFrame' /\ Start' = Start /\ Stands(stream, Start, parsed)'
  BY <1>1 DEF InFrame, Start, ParserInv, Stands, finished
<1>4. Wire' = Wire
  BY <1>1 DEF Wire
<1> QED BY <1>1, <1>2, <1>3, <1>4 DEF ParserInv

\* One byte is taken.
LEMMA ByteTaken ==
  ASSUME ParserTypes, input # <<>>, input' = Tail(input), stream' = Append(stream, Head(input)),
         UNCHANGED <<line, clean, noise>>
  PROVE  LET v == Head(input)
         IN  /\ v \in Byte /\ v \in Nat /\ Wire' = Wire /\ input' \in Bytes /\ stream' \in Bytes
             /\ Len(stream) \in Nat /\ Len(stream') = Len(stream) + 1
             /\ (\A i \in 1..Len(stream) : stream'[i] = stream[i]) /\ stream'[Len(stream) + 1] = v
             /\ \A k, m : Stands(stream, k, m) => Stands(stream', k, m)
<1> DEFINE v == Head(input)
           u == Tail(input)
<1>1. stream \in Bytes /\ input \in Bytes /\ line \in Bytes
  BY DEF ParserTypes
<1>2. v \in Byte /\ u \in Bytes /\ input = <<v>> \o u /\ <<v>> \in Bytes /\ v \in Nat
  BY <1>1, Popped, Pushed, ByteFacts
<1>3. input' = u /\ stream' = Append(stream, v)
  OBVIOUS
<1> HIDE DEF v, u
<1>4. /\ stream' = stream \o <<v>> /\ stream' \in Bytes
      /\ Len(stream) \in Nat /\ Len(stream') = Len(stream) + 1
      /\ (\A i \in 1..Len(stream) : stream'[i] = stream[i]) /\ stream'[Len(stream) + 1] = v
  <2> DEFINE w == Append(stream, v)
  <2>1. /\ w = stream \o <<v>> /\ w \in Bytes /\ Len(stream) \in Nat /\ Len(w) = Len(stream) + 1
        /\ (\A i \in 1..Len(stream) : w[i] = stream[i]) /\ w[Len(stream) + 1] = v
    BY <1>1, <1>2, Pushed
  <2>2. stream' = w
    BY <1>3
  <2> HIDE DEF w
  <2> QED BY <2>1, <2>2
<1>5. Wire' = Wire
  <2>1. u \o line \in Bytes
    BY <1>1, <1>2, Joined
  <2>2. input \o line = <<v>> \o (u \o line)
    BY <1>1, <1>2, BytesRegroup
  <2>3. stream \o (<<v>> \o (u \o line)) = (stream \o <<v>>) \o (u \o line)
    BY <1>1, <1>2, <2>1, BytesRegroup, SMTT(60)
  <2> QED BY <1>3, <1>4, <2>2, <2>3 DEF Wire
<1>6. \A k, m : Stands(stream, k, m) => Stands(stream \o <<v>>, k, m)
  BY <1>1, <1>2, StandsOn
<1> QED BY <1>2, <1>3, <1>4, <1>5, <1>6 DEF v

LEMMA ParseKeeps ==
  ASSUME ParserInv, Parse
  PROVE  ParserInv'
<1> DEFINE v == Head(input)
           c == Len(stream)
<1>1. /\ ParserTypes /\ InFrame /\ Stands(stream, Start, parsed) /\ input # <<>> /\ ~finished
      /\ noise' = noise /\ clean' = clean /\ line' = line /\ input' = Tail(input)
      /\ stream' = Append(stream, v)
  BY DEF ParserInv, Parse
<1>2. /\ v \in Byte /\ v \in Nat /\ Wire' = Wire /\ input' \in Bytes /\ stream' \in Bytes
      /\ c \in Nat /\ Len(stream') = c + 1
      /\ (\A i \in 1..c : stream'[i] = stream[i]) /\ stream'[c + 1] = v
      /\ \A k, m : Stands(stream, k, m) => Stands(stream', k, m)
  BY <1>1, ByteTaken
<1>3. Stands(stream', Start, parsed)
  BY <1>1, <1>2
<1>4. parsed' = IF parserState' = "DONE" THEN Append(parsed, buffer) ELSE parsed
  BY DEF Parse
<1>5. \/ /\ parserState = "IDLE" /\ UNCHANGED <<messageLength, buffer>>
         /\ parserState' = IF v = kStartCharacter THEN "LENGTH" ELSE "IDLE"
      \/ parserState = "LENGTH" /\ TakesLength(v)
      \/ parserState = "PAYLOAD" /\ TakesPayload(v)
      \/ parserState = "CHECKSUM" /\ TakesChecksum(v)
  BY DEF Parse, Goto
<1> HIDE DEF v, c
<1>6. parsed \in Texts /\ buffer \in Bytes /\ messageLength \in Nat /\ limit \in Nat
  BY <1>1, ParserAssumption DEF ParserTypes
<1>7. ASSUME messageLength' \in Nat, buffer' \in Bytes, parsed' \in Texts, InFrame',
             parserState' \in {"IDLE", "LENGTH", "PAYLOAD", "CHECKSUM", "DONE", "ERROR_CHECKSUM",
                              "ERROR_LENGTH"},
             Stands(stream', Start', parsed')
      PROVE  ParserInv'
  <2>1. ParserTypes'
    BY <1>1, <1>2, <1>7 DEF ParserTypes
  <2> QED BY <1>1, <1>2, <1>7, <2>1 DEF ParserInv
<1>8. \A i \in 1..c : \A r \in Bytes : (stream' \o r)[i] = stream[i]
  BY <1>2, Joined
<1>9. \A r \in Bytes : /\ stream' \o r \in Bytes /\ Len(stream' \o r) >= c + 1
                       /\ Len(stream' \o r) \in Nat /\ (stream' \o r)[c + 1] = v
  <2> SUFFICES ASSUME NEW r \in Bytes
               PROVE  /\ stream' \o r \in Bytes /\ Len(stream' \o r) >= c + 1
                      /\ Len(stream' \o r) \in Nat /\ (stream' \o r)[c + 1] = v
    OBVIOUS
  <2> DEFINE w == stream' \o r
  <2>1. /\ w \in Bytes /\ Len(w) = Len(stream') + Len(r) /\ Len(stream') \in Nat /\ Len(r) \in Nat
        /\ \A i \in 1..Len(stream') : w[i] = stream'[i]
    BY <1>2, Joined
  <2> HIDE DEF w
  <2>2. c + 1 \in 1..Len(stream')
    BY <1>2
  <2>3. w \in Bytes /\ Len(w) >= c + 1 /\ Len(w) \in Nat /\ w[c + 1] = v
    BY <1>2, <2>1, <2>2
  <2> QED BY <2>3 DEF w
<1>10. CASE parserState = "IDLE"
  <2>1. /\ messageLength' = messageLength /\ buffer' = buffer /\ Start = c + 1
        /\ parserState' = (IF v = kStartCharacter THEN "LENGTH" ELSE "IDLE") /\ parsed' = parsed
    BY <1>4, <1>5, <1>10 DEF Start, c
  <2>2. CASE v = kStartCharacter
    <3>1. Start' = c + 1 /\ InFrame'
      BY <1>2, <2>1, <2>2 DEF Start, InFrame
    <3> QED BY <1>3, <1>6, <1>7, <2>1, <2>2, <3>1
  <2>3. CASE v # kStartCharacter
    <3>1. Start' = c + 2 /\ InFrame'
      BY <1>2, <2>1, <2>3 DEF Start, InFrame
    <3>2. ASSUME NEW r \in Bytes
          PROVE  FramesFrom(stream' \o r)[c + 1] = FramesFrom(stream' \o r)[c + 2]
      <4> DEFINE s == stream' \o r
      <4>1. s \in Bytes /\ c + 1 \in 1..Len(s) /\ s[c + 1] # kStartCharacter
        BY <1>2, <1>9, <2>3
      <4> HIDE DEF s
      <4>2. FramesFrom(s)[c + 1] = FramesFrom(s)[(c + 1) + 1]
        BY <4>1, ReadsOn
      <4>3. (c + 1) + 1 = c + 2
        BY <1>2
      <4> QED BY <4>2, <4>3 DEF s
    <3>3. Stands(stream', c + 2, parsed)
      BY <1>2, <1>3, <2>1, <3>2, StandsMoved
    <3> QED BY <1>6, <1>7, <2>1, <2>3, <3>1, <3>3
  <2> QED BY <2>2, <2>3
<1>11. CASE parserState = "LENGTH"
  <2>1. /\ messageLength' = v + 1 /\ Start = c /\ c >= 1 /\ stream[c] = kStartCharacter
        /\ buffer' = (IF v + 1 <= limit THEN <<>> ELSE buffer) /\ parsed' = parsed
        /\ parserState' = (IF v + 1 <= limit THEN "PAYLOAD" ELSE "ERROR_LENGTH")
    BY <1>1, <1>4, <1>5, <1>11 DEF Start, c, InFrame, TakesLength, Goto
  <2>2. buffer' \in Bytes /\ messageLength' \in Nat
    BY <1>2, <1>6, <2>1 DEF Bytes
  <2>3. stream'[c] = kStartCharacter
    <3>1. c \in 1..c
      BY <1>2, <2>1
    <3> QED BY <1>2, <2>1, <3>1
  <2>4. CASE v + 1 <= limit
    <3>1. Start' = c /\ Len(buffer') = 0
      BY <1>2, <2>1, <2>4 DEF Start
    <3>2. InFrame'
      BY <1>2, <1>6, <2>1, <2>3, <2>4, <3>1 DEF InFrame
    <3> QED BY <1>3, <1>6, <1>7, <2>1, <2>2, <2>4, <3>1, <3>2
  <2>5. CASE ~(v + 1 <= limit)
    <3>1. Start' = c + 2 /\ InFrame'
      BY <1>2, <2>1, <2>5 DEF Start, InFrame
    <3>2. ASSUME NEW r \in Bytes
          PROVE  FramesFrom(stream' \o r)[c] = FramesFrom(stream' \o r)[c + 2]
      <4> DEFINE s == stream' \o r
      <4>1. /\ s \in Bytes /\ c + 1 <= Len(s) /\ s[c] = kStartCharacter /\ s[c + 1] + 1 > limit
        <5>1. c \in 1..c
          BY <1>2, <2>1
        <5> QED BY <1>2, <1>6, <1>8, <1>9, <2>1, <2>5, <5>1
      <4> HIDE DEF s
      <4>2. FramesFrom(s)[c] = FramesFrom(s)[c + 2]
        BY <1>2, <2>1, <4>1, ReadsLong
      <4> QED BY <4>2 DEF s
    <3>3. Stands(stream', c + 2, parsed)
      BY <1>2, <1>3, <2>1, <3>2, StandsMoved
    <3> QED BY <1>6, <1>7, <2>1, <2>2, <2>5, <3>1, <3>3
  <2> QED BY <2>4, <2>5
<1>12. CASE parserState = "PAYLOAD"
  <2> DEFINE a == Start
             b == Len(buffer)
  <2>1. /\ messageLength' = messageLength /\ buffer' = Append(buffer, v) /\ parsed' = parsed
        /\ parserState' = IF b + 1 >= messageLength THEN "CHECKSUM" ELSE "PAYLOAD"
    BY <1>4, <1>5, <1>12 DEF TakesPayload, Goto
  <2>2. /\ a = c - 1 - b /\ a \in 1..c /\ b < messageLength /\ messageLength \in 1..limit
        /\ stream[a] = kStartCharacter /\ stream[a + 1] + 1 = messageLength
        /\ (\A j \in 1..b : stream[a + 1 + j] = buffer[j])
    BY <1>1, <1>12 DEF Start, InFrame, c
  <2>3. /\ buffer' \in Bytes /\ Len(buffer') = b + 1 /\ b \in Nat
        /\ (\A i \in 1..b : buffer'[i] = buffer[i]) /\ buffer'[b + 1] = v
    BY <1>2, <1>6, <2>1, Pushed
  <2>4. Start' = a
    BY <1>2, <2>1, <2>2, <2>3 DEF Start
  <2> HIDE DEF a, b
  <2>5. /\ stream'[a] = kStartCharacter /\ stream'[a + 1] + 1 = messageLength /\ a \in 1..(c + 1)
    <3>1. a + 1 \in 1..c
      BY <1>2, <2>2, <2>3
    <3> QED BY <1>2, <2>2, <3>1
  <2>6. ASSUME NEW j \in 1..(b + 1) PROVE stream'[a + 1 + j] = buffer'[j]
    <3>1. CASE j = b + 1
      <4>1. a + 1 + j = c + 1
        BY <1>2, <2>2, <2>3, <3>1
      <4> QED BY <1>2, <2>3, <3>1, <4>1
    <3>2. CASE j # b + 1
      <4>1. j \in 1..b /\ a + 1 + j \in 1..c
        BY <1>2, <2>2, <2>3, <3>2
      <4> QED BY <1>2, <2>2, <2>3, <4>1
    <3> QED BY <3>1, <3>2
  <2>7. InFrame'
    <3>1. parserState' = "PAYLOAD" => b + 1 < messageLength
      BY <1>6, <2>1, <2>3
    <3>2. parserState' = "CHECKSUM" => b + 1 = messageLength
      BY <1>6, <2>1, <2>2, <2>3
    <3> QED BY <1>2, <2>1, <2>2, <2>3, <2>4, <2>5, <2>6, <3>1, <3>2 DEF InFrame
  <2>8. Stands(stream', Start', parsed')
    BY <1>3, <2>1, <2>4 DEF a
  <2> QED BY <1>6, <1>7, <2>1, <2>3, <2>7, <2>8
<1>13. CASE parserState = "CHECKSUM"
  <2> DEFINE a == Start
             n == messageLength
  <2>1. /\ messageLength' = n /\ buffer' = buffer
        /\ parserState' = IF Checksum8(buffer) = v THEN "DONE" ELSE "ERROR_CHECKSUM"
    BY <1>5, <1>13 DEF TakesChecksum, Goto
  <2>2. /\ a = c - 1 - n /\ a \in 1..c /\ Len(buffer) = n /\ n \in 1..limit /\ n \in Nat
        /\ stream[a] = kStartCharacter /\ stream[a + 1] + 1 = n
        /\ (\A j \in 1..n : stream[a + 1 + j] = buffer[j])
    BY <1>1, <1>6, <1>13 DEF Start, InFrame, c
  <2>3. Start' = c + 2 /\ InFrame'
    BY <1>2, <2>1 DEF Start, InFrame
  <2>4. Stands(stream', a, parsed)
    BY <1>3
  <2> HIDE DEF a, n
  <2>5. /\ stream'[a] = kStartCharacter /\ stream'[a + 1] + 1 = n
        /\ (\A j \in 1..n : stream'[a + 1 + j] = buffer[j])
    <3>1. a + 1 \in 1..c /\ (\A j \in 1..n : a + 1 + j \in 1..c)
      BY <1>2, <2>2
    <3> QED BY <1>2, <2>2, <3>1
  <2>6. Stands(stream', c + 2, IF v = Checksum8(buffer) THEN Append(parsed, buffer) ELSE parsed)
    <3>1. /\ a \in Nat /\ a >= 1 /\ a + n + 2 = Len(stream') /\ Len(stream') + 1 = c + 2
          /\ stream'[Len(stream')] = v
      BY <1>2, <2>2
    <3> DEFINE w == stream'
    <3>2. /\ w \in Bytes /\ a + n + 2 = Len(w) /\ w[a] = kStartCharacter /\ w[a + 1] + 1 = n
          /\ (\A j \in 1..n : w[a + 1 + j] = buffer[j]) /\ Stands(w, a, parsed)
          /\ w[Len(w)] = v /\ Len(w) + 1 = c + 2
      BY <1>2, <2>4, <2>5, <3>1
    <3> HIDE DEF w
    <3>3. Stands(w, Len(w) + 1, IF w[Len(w)] = Checksum8(buffer) THEN Append(parsed, buffer) ELSE parsed)
      BY <1>6, <2>2, <3>1, <3>2, StandsBehind
    <3>4. Stands(w, c + 2, IF v = Checksum8(buffer) THEN Append(parsed, buffer) ELSE parsed)
      BY <3>2, <3>3
    <3> QED BY <3>4 DEF w
  <2>7. parsed' = IF v = Checksum8(buffer) THEN Append(parsed, buffer) ELSE parsed
    BY <1>4, <2>1
  <2>8. parsed' \in Texts
    <3>1. Append(parsed, buffer) \in Texts
      <4> HIDE DEF Bytes
      <4> QED BY <1>6, AppendProperties DEF Texts
    <3> QED BY <1>6, <2>7, <3>1
  <2>9. Stands(stream', Start', parsed')
    BY <2>3, <2>6, <2>7
  <2> QED BY <1>6, <1>7, <2>1, <2>3, <2>8, <2>9 DEF n
<1> QED BY <1>5, <1>10, <1>11, <1>12, <1>13

LEMMA ParserKeeps == ParserInv /\ [ParserNext]_parserVars => ParserInv'
<1> SUFFICES ASSUME ParserInv, [ParserNext]_parserVars PROVE ParserInv'
  OBVIOUS
<1>1. CASE UNCHANGED parserVars
  <2>1. ParserTypes' /\ InFrame' /\ Stands(stream, Start, parsed)' /\ Wire' = Wire /\ noise' = noise /\ clean' = clean
    BY <1>1 DEF parserVars, ParserInv, ParserTypes, InFrame, Start, Stands, Wire
  <2> QED BY <2>1 DEF ParserInv
<1>2. CASE ParserNext
  BY <1>2, SendKeeps, DisturbKeeps, ParseKeeps, AgainKeeps, UpdateKeeps DEF ParserNext
<1> QED BY <1>1, <1>2

-----------------------------------------------------------------------------
(* The parts beside each other. *)

LEMMA NodesApart ==
  [Next]_platformVars =>
    /\ [RoutingNext]_routingVars /\ [StatusNext]_statusVars
    /\ [HashNext]_hashVars /\ [ParserNext]_parserVars
<1> USE DEF platformVars, driverVars, boardVars, serialVars, threadVars, busVars, flashVars, wireVars,
      clockVars, pinVars, nodeVars,
      UsartPart, CanPart, CdcPart, WorkPart, TimePart, SpiPart, PollPart, StoragePart,
      QspiPart, ParserPart, AllocPart, TimersPart, TimingPart, ExtPart, AdcPart, RoutingPart,
      StatusPart, HashPart, ListPart,
      UsartRest, CanRest, CdcRest, WorkRest, TimeRest, SpiRest, PollRest, StorageRest,
      QspiRest, ParserRest, AllocRest, TimersRest, TimingRest, ExtRest, AdcRest, RoutingRest,
      StatusRest, HashRest, ListRest
<1>1. Next => RoutingNext \/ UNCHANGED routingVars
  BY DEF Next
<1>2. Next => StatusNext \/ UNCHANGED statusVars
  BY DEF Next
<1>3. Next => HashNext \/ UNCHANGED hashVars
  BY DEF Next
<1>4. Next => ParserNext \/ UNCHANGED parserVars
  BY DEF Next
<1>5. UNCHANGED platformVars => UNCHANGED <<routingVars, statusVars, hashVars, parserVars>>
  OBVIOUS
<1> QED BY <1>1, <1>2, <1>3, <1>4, <1>5

\* What nodes learn of each other is so, for all kinds of nodes, of devices and of losses:
\* a transfer is for the slave, the node or the hub that it was sent to, and for nobody
\* else, a status says what was set, and devices of one hash are of one kind.
THEOREM NodesTruthful == Spec => []NodesTellTheTruth
<1>1. Init => RoutingInv /\ StatusInv /\ HashInv
  BY RoutingStarts, StatusStarts, HashStarts DEF Init
<1>2. (RoutingInv /\ StatusInv /\ HashInv) /\ [Next]_platformVars => (RoutingInv /\ StatusInv /\ HashInv)'
  BY NodesApart, RoutingKeeps, StatusKeeps, HashKeeps
<1>3. RoutingInv /\ StatusInv /\ HashInv => NodesTellTheTruth
  <2>1. StatusInv => StatusIsTold
    BY DEF StatusInv, StatusIsTold
  <2> QED BY <2>1, RoutingTells, HashTells DEF NodesTellTheTruth
<1> QED BY <1>1, <1>2, <1>3, PTL DEF Spec

\* The messages processed are those in the stream of bytes, however it is cut into calls of
\* update() and whatever comes between frames, and without noise those that were sent.
THEOREM FramesWhole == Spec => []FramesSurviveCuts
<1>1. Init => ParserInv
  BY ParserStarts DEF Init
<1>2. ParserInv /\ [Next]_platformVars => ParserInv'
  BY NodesApart, ParserKeeps
<1> QED BY <1>1, <1>2, ParserTells, PTL DEF Spec
=============================================================================
