--------------------------- MODULE CanProxyProofs ----------------------------
(***************************************************************************)
(* Proofs about CanProxy served by one thread, for every number of         *)
(* clients, descriptors, fields, retries and transfer numbers: types,      *)
(* Ownership and Accounting; and, as long as transfer numbers are fresh,   *)
(* that answers meet their own requests and that the image is complete.    *)
(***************************************************************************)
EXTENDS CanProxy, QueueLemmas, FiniteSetTheorems

-----------------------------------------------------------------------------
(* Accounts. *)

\* The descriptors that wait are descriptors, and finitely many.
LEMMA WaitingFinite ==
  ASSUME TypeOK
  PROVE  /\ Waiting \in SUBSET Requests
         /\ \A c \in Client : IsFiniteSet(Pending(c))
<1>1. Waiting \in SUBSET Requests
  BY DEF TypeOK, Waiting, Range
<1>2. IsFiniteSet(Requests)
  BY ProxyAssumption, FS_Interval DEF Requests
<1>3. \A c \in Client : Pending(c) \in SUBSET Requests
  BY <1>1 DEF Pending
<1> QED BY <1>1, <1>2, <1>3, FS_Subset

\* No client gains or loses a pending request, no callback.
LEMMA AccountsKept ==
  ASSUME Accounting, owed' = owed, overtaken \subseteq overtaken',
         \A c \in Client \ overtaken : Pending(c)' = Pending(c)
  PROVE  Accounting'
BY DEF Accounting

\* One pending request less, and its owner is called back.
LEMMA AccountsFewer ==
  ASSUME TypeOK, Accounting, NEW d \in Waiting, Callback(desc[d].owner), overtaken' = overtaken,
         \A c \in Client : Pending(c)' = Pending(c) \ {d}
  PROVE  Accounting' /\ owed' \in [Client -> Int]
<1>1. owed \in [Client -> Int] /\ Waiting \in SUBSET Requests
  BY WaitingFinite DEF TypeOK
<1>2. ASSUME NEW c \in Client \ overtaken
      PROVE  owed'[c] = Cardinality(Pending(c)')
  <2>1. Pending(c)' = Pending(c) \ {d} /\ owed[c] = Cardinality(Pending(c))
        /\ IsFiniteSet(Pending(c))
    BY WaitingFinite DEF Accounting
  <2>2. CASE desc[d].owner = c
    <3>1. d \in Pending(c)
      BY <2>2 DEF Pending
    <3>2. Cardinality(Pending(c) \ {d}) = Cardinality(Pending(c)) - 1
      BY <2>1, <3>1, FS_RemoveElement
    <3>3. desc[d].owner # Proxy
      BY <2>2, ProxyAssumption
    <3>4. owed'[c] = owed[c] - 1
      BY <1>1, <2>2, <3>3 DEF Callback
    <3> QED BY <2>1, <3>2, <3>4
  <2>3. CASE desc[d].owner # c
    <3>1. Pending(c) \ {d} = Pending(c)
      BY <2>3 DEF Pending
    <3>2. owed'[c] = owed[c]
      BY <1>1, <2>3 DEF Callback
    <3> QED BY <2>1, <3>1, <3>2
  <2> QED BY <2>2, <2>3
<1>3. owed' \in [Client -> Int]
  <2>1. desc[d].owner \in Client \union {Proxy}
    BY <1>1 DEF TypeOK, Descriptor
  <2>2. \A c \in Client : owed[c] - 1 \in Int
    BY <1>1
  <2> QED BY <1>1, <2>1, <2>2 DEF Callback
<1> QED BY <1>2, <1>3, Zenon DEF Accounting

\* One pending request more, and one callback due.
LEMMA AccountsMore ==
  ASSUME TypeOK, Accounting, NEW o \in Client, NEW d \in Requests \ Waiting,
         owed' = [owed EXCEPT ![o] = @ + 1], overtaken' = overtaken,
         \A c \in Client : Pending(c)' = IF c = o THEN Pending(c) \union {d} ELSE Pending(c)
  PROVE  Accounting' /\ owed' \in [Client -> Int]
<1>1. owed \in [Client -> Int]
  BY DEF TypeOK
<1>2. ASSUME NEW c \in Client \ overtaken
      PROVE  owed'[c] = Cardinality(Pending(c)')
  <2>1. owed[c] = Cardinality(Pending(c)) /\ IsFiniteSet(Pending(c)) /\ d \notin Pending(c)
    BY WaitingFinite DEF Accounting, Pending
  <2>2. CASE c = o
    <3>1. Cardinality(Pending(c) \union {d}) = Cardinality(Pending(c)) + 1
      BY <2>1, FS_AddElement
    <3> QED BY <1>1, <2>1, <2>2, <3>1
  <2>3. CASE c # o
    BY <1>1, <2>1, <2>3
  <2> QED BY <2>2, <2>3
<1>3. owed' \in [Client -> Int]
  BY <1>1
<1> QED BY <1>2, <1>3, Zenon DEF Accounting

-----------------------------------------------------------------------------
(* Requests. *)

\* What a request is made of.
LEMMA RequestFacts ==
  ASSUME TypeOK, NEW o \in Client \union {Proxy}, NEW s \in Service, NEW f \in Nat
  PROVE  /\ Request(o, s, f) \in Descriptor
         /\ Request(o, s, f).owner = o
         /\ Request(o, s, f).service = s
         /\ Request(o, s, f).field = f
<1>1. calls \in [Client -> Nat] /\ numbers[s] \in 0..(Numbers - 1)
  BY DEF TypeOK
<1>2. (IF o = Proxy THEN 0 ELSE calls[o]) \in Nat
  BY <1>1
<1> QED BY <1>1, <1>2 DEF Request, Descriptor

\* Transfer numbers stay in their range.
LEMMA TransmitFacts ==
  ASSUME TypeOK, NEW r \in Descriptor, Transmit(r)
  PROVE  /\ numbers' \in [Service -> 0..(Numbers - 1)]
         /\ air' \in SUBSET Packet
<1>1. r.service \in Service
  BY DEF Descriptor
<1>2. numbers[r.service] \in Nat /\ Numbers \in Nat \ {0}
  BY <1>1, ProxyAssumption DEF TypeOK
<1>3. (numbers[r.service] + 1) % Numbers \in 0..(Numbers - 1)
  BY <1>2
<1>4. numbers' \in [Service -> 0..(Numbers - 1)]
  BY <1>1, <1>3 DEF TypeOK, Transmit
<1>5. [asked |-> r, life |-> life] \in Packet
  BY DEF TypeOK, Packet
<1> QED BY <1>4, <1>5 DEF TypeOK, Transmit

\* A request put on the list: its descriptor was free and is now pending.
LEMMA PutFacts ==
  ASSUME IndInv, pool # <<>>, NEW r \in Descriptor, Put(r)
  PROVE  /\ pool' \in Seq(Requests) /\ list' \in Seq(Requests)
         /\ IsInjective(pool') /\ IsInjective(list')
         /\ Head(pool) \in Range(pool)
         /\ Range(pool') = Range(pool) \ {Head(pool)}
         /\ Range(list') = Range(list) \union {Head(pool)}
         /\ desc' \in [Requests -> Descriptor]
         /\ desc'[Head(pool)] = r
         /\ \A x \in Requests \ {Head(pool)} : desc'[x] = desc[x]
         /\ late' \in SUBSET Requests
         /\ numbers' \in [Service -> 0..(Numbers - 1)]
         /\ air' \in SUBSET Packet
<1> DEFINE d == Head(pool)
<1>1. /\ pool \in Seq(Requests) /\ list \in Seq(Requests)
      /\ IsInjective(pool) /\ IsInjective(list)
      /\ Range(pool) \cap Range(list) = {}
  BY DEF IndInv, TypeOK, Ownership
<1>2. /\ Head(pool) \in Requests
      /\ Head(pool) \in Range(pool)
      /\ Tail(pool) \in Seq(Requests)
      /\ IsInjective(Tail(pool))
      /\ Range(Tail(pool)) = Range(pool) \ {Head(pool)}
  BY <1>1, TakeFirst
<1>3. d \in Requests /\ d \notin Range(list)
  BY <1>1, <1>2
<1>4. pool' = Tail(pool) /\ list' = Append(list, d) /\ desc' = [desc EXCEPT ![d] = r]
      /\ late' = late \ {d} /\ Transmit(r)
  BY DEF Put
<1>5. d = Head(pool)
  OBVIOUS
<1> HIDE DEF d
<1>6. /\ Append(list, d) \in Seq(Requests)
      /\ IsInjective(Append(list, d))
      /\ Range(Append(list, d)) = Range(list) \union {d}
  BY <1>1, <1>3, GiveBack
<1>7. desc \in [Requests -> Descriptor] /\ late \in SUBSET Requests
  BY DEF IndInv, TypeOK
<1>8. /\ [desc EXCEPT ![d] = r] \in [Requests -> Descriptor]
      /\ [desc EXCEPT ![d] = r][d] = r
      /\ \A x \in Requests \ {d} : [desc EXCEPT ![d] = r][x] = desc[x]
  BY <1>3, <1>7, Overwritten
<1>9. numbers' \in [Service -> 0..(Numbers - 1)] /\ air' \in SUBSET Packet
  BY <1>4, TransmitFacts DEF IndInv
<1> QED BY <1>2, <1>4, <1>5, <1>6, <1>7, <1>8, <1>9

\* What is left of the request variables when the proxy sends a request of its
\* own, or nothing.
Sent ==
  /\ pool' \in Seq(Requests) /\ list' \in Seq(Requests)
  /\ IsInjective(pool') /\ IsInjective(list')
  /\ Range(pool') \cap Range(list') = {}
  /\ Range(pool') \union Range(list') = Range(pool) \union Range(list)
  /\ Range(list) \subseteq Range(list')
  /\ desc' \in [Requests -> Descriptor]
  /\ \A x \in Requests \ Range(pool) : desc'[x] = desc[x]
  /\ \A x \in Range(list') \ Range(list) :
       desc'[x].owner = Proxy /\ desc'[x].service = "info"
  /\ late' \in SUBSET Requests
  /\ numbers' \in [Service -> 0..(Numbers - 1)]
  /\ air' \in SUBSET Packet

\* Nothing is sent.
LEMMA SentNothing ==
  ASSUME IndInv, UNCHANGED requestVars
  PROVE  Sent
BY DEF IndInv, TypeOK, Ownership, requestVars, Sent

\* A request of the proxy, or the lack of a descriptor for it.
LEMMA SentField ==
  ASSUME IndInv, NEW f \in Nat, SendGetFieldInfo(f)
  PROVE  Sent
<1>1. CASE pool = <<>> /\ UNCHANGED requestVars
  BY <1>1, SentNothing
<1>2. CASE pool # <<>> /\ Put(Request(Proxy, "info", f))
  <2> DEFINE r == Request(Proxy, "info", f)
             d == Head(pool)
  <2>1. "info" \in Service /\ Proxy \in Client \union {Proxy} /\ TypeOK
    BY DEF Service, IndInv
  <2>2. r \in Descriptor /\ r.owner = Proxy /\ r.service = "info"
    BY <2>1, RequestFacts
  <2>3. pool # <<>> /\ Put(r)
    BY <1>2
  <2> HIDE DEF r
  <2>4. /\ pool' \in Seq(Requests) /\ list' \in Seq(Requests)
        /\ IsInjective(pool') /\ IsInjective(list')
        /\ d \in Range(pool)
        /\ Range(pool') = Range(pool) \ {d}
        /\ Range(list') = Range(list) \union {d}
        /\ desc' \in [Requests -> Descriptor]
        /\ desc'[d] = r
        /\ \A x \in Requests \ {d} : desc'[x] = desc[x]
        /\ late' \in SUBSET Requests
        /\ numbers' \in [Service -> 0..(Numbers - 1)]
        /\ air' \in SUBSET Packet
    BY <2>2, <2>3, PutFacts
  <2>5. Range(pool) \cap Range(list) = {}
    BY DEF IndInv, Ownership
  <2> HIDE DEF d
  <2>6. /\ Range(pool') \cap Range(list') = {}
        /\ Range(pool') \union Range(list') = Range(pool) \union Range(list)
        /\ Range(list) \subseteq Range(list')
    BY <2>4, <2>5
  <2>7. \A x \in Requests \ Range(pool) : desc'[x] = desc[x]
    BY <2>4
  <2>8. \A x \in Range(list') \ Range(list) :
          desc'[x].owner = Proxy /\ desc'[x].service = "info"
    BY <2>2, <2>4
  <2> QED BY <2>4, <2>6, <2>7, <2>8 DEF Sent
<1> QED BY <1>1, <1>2 DEF SendGetFieldInfo

\* A transmission without a descriptor.
LEMMA SentNode ==
  ASSUME IndInv, Transmit(Request(Proxy, "node", 0)), UNCHANGED <<pool, list, desc, late>>
  PROVE  Sent
<1>1. "node" \in Service /\ Proxy \in Client \union {Proxy} /\ TypeOK /\ 0 \in Nat
  BY DEF Service, IndInv
<1>2. Request(Proxy, "node", 0) \in Descriptor
  BY <1>1, RequestFacts
<1>3. numbers' \in [Service -> 0..(Numbers - 1)] /\ air' \in SUBSET Packet
  BY <1>1, <1>2, TransmitFacts
<1> QED BY <1>3 DEF IndInv, TypeOK, Ownership, Sent

-----------------------------------------------------------------------------
(* The steps that leave every descriptor where it is. *)

LEMMA Calm ==
  ASSUME IndInv, UNCHANGED <<pool, list, desc, owed>>, overtaken \subseteq overtaken',
         InHand' = InHand, Waiting' = Waiting
  PROVE  Ownership' /\ Accounting'
<1>1. Ownership'
  BY DEF IndInv, Ownership
<1>2. \A c \in Client : Pending(c)' = Pending(c)
  BY DEF Pending
<1>3. Accounting'
  BY <1>2, AccountsKept DEF IndInv
<1> QED BY <1>1, <1>3

LEMMA CallStep ==
  ASSUME IndInv, NEW c \in Client, NEW s \in {"info", "field", "file"},
         NEW f \in 0..(MaxFields - 1), Call(c, s, f)
  PROVE  IndInv'
<1> USE DEF Call, requestVars, initVars, lifeVars, rxVars, timerVars
<1>1. InHand' = InHand /\ Waiting' = Waiting
  BY DEF InHand, Waiting
<1>2. Ownership' /\ Accounting'
  BY <1>1, Calm
<1>3. [client |-> c, service |-> s, field |-> f] \in Entry
  BY DEF Entry, Service
<1>4. calls' \in [Client -> Nat]
  <2>1. calls[c] + 1 \in Nat
    BY DEF IndInv, TypeOK
  <2> QED BY <2>1 DEF IndInv, TypeOK
<1>5. TypeOK'
  BY <1>3, <1>4 DEF IndInv, TypeOK
<1>6. ReceiverHolds' /\ TakingTurns' /\ OwnService' /\ RoomForField'
  BY DEF IndInv, ReceiverHolds, TakingTurns, OwnService, RoomForField
<1>7. CheckedFields'
  BY <1>1 DEF IndInv, CheckedFields, attached
<1> QED BY <1>2, <1>5, <1>6, <1>7 DEF IndInv

\* The null master: what the step leaves behind is all as it was.
LEMMA NullStep ==
  ASSUME IndInv, NEW e \in entering, NullMaster(e)
  PROVE  IndInv'
<1> USE DEF NullMaster, requestVars, initVars, rxVars, timerVars, clientVars
<1>1. InHand' = InHand /\ Waiting' = Waiting
  BY DEF InHand, Waiting
<1>2. Ownership' /\ Accounting'
  BY <1>1, Calm
<1>3. TypeOK'
  BY DEF IndInv, TypeOK
<1>4. ReceiverHolds' /\ TakingTurns' /\ OwnService' /\ RoomForField'
  BY DEF IndInv, ReceiverHolds, TakingTurns, OwnService, RoomForField
<1>5. CheckedFields'
  BY <1>1 DEF IndInv, CheckedFields, attached
<1> QED BY <1>2, <1>3, <1>4, <1>5 DEF IndInv

LEMMA TickStep ==
  ASSUME IndInv, Tick
  PROVE  IndInv'
<1> USE DEF Tick, initVars, lifeVars, rxVars, timerVars, clientVars
<1>1. InHand' = InHand /\ Waiting' = Waiting
  BY DEF InHand, Waiting
<1>2. Ownership' /\ Accounting'
  BY <1>1, Calm
<1>3. late' \in SUBSET Requests
  BY DEF IndInv, TypeOK
<1>4. TypeOK'
  BY <1>3 DEF IndInv, TypeOK
<1>5. ReceiverHolds' /\ TakingTurns' /\ OwnService' /\ RoomForField'
  BY DEF IndInv, ReceiverHolds, TakingTurns, OwnService, RoomForField
<1>6. CheckedFields'
  BY <1>1 DEF IndInv, CheckedFields, attached
<1> QED BY <1>2, <1>4, <1>5, <1>6 DEF IndInv

LEMMA ReceiveStep ==
  ASSUME Threads = 1, IndInv, NEW p \in air, NEW d \in {Nobody} \union Range(list), Receive(p, d)
  PROVE  IndInv'
<1> USE DEF Receive, initVars, lifeVars, timerVars, clientVars
<1>1. rx = "idle" /\ timer = "idle" /\ rx' = "found"
  BY DEF MayReceive
<1>2. InHand' = InHand /\ Waiting' = Waiting
  BY <1>1 DEF InHand, Waiting
<1>3. Ownership' /\ Accounting'
  BY <1>2, Calm
<1>4. match' \in Requests \union {Nobody} /\ heard' \in Packet /\ air' \in SUBSET Packet
  BY DEF IndInv, TypeOK, Range
<1>5. TypeOK'
  BY <1>1, <1>4 DEF IndInv, TypeOK
<1>6. d # Nobody => d \in Range(list) /\ desc[d].service = p.asked.service
  BY DEF Matches, Answers
<1>7. ReceiverHolds' /\ OwnService'
  BY <1>6 DEF IndInv, ReceiverHolds, OwnService
<1>8. TakingTurns' /\ RoomForField'
  BY <1>1 DEF IndInv, TakingTurns, RoomForField
<1>9. CheckedFields'
  BY <1>2 DEF IndInv, CheckedFields, attached
<1> QED BY <1>3, <1>5, <1>7, <1>8, <1>9 DEF IndInv

LEMMA StartStep ==
  ASSUME Threads = 1, IndInv, TimeoutStart \/ AssignStart
  PROVE  IndInv'
<1> USE DEF requestVars, initVars, lifeVars, rxVars, clientVars
<1>1. /\ rx = "idle" /\ timer = "idle" /\ timer' = "loop"
      /\ why' \in {"timeout", "detach"}
      /\ UNCHANGED <<taken, requestVars, initVars, lifeVars, rxVars, clientVars, owed>>
  BY DEF TimeoutStart, AssignStart, MayPurge
<1>2. InHand' = InHand /\ Waiting' = Waiting
  BY <1>1 DEF InHand, Waiting
<1>3. Ownership' /\ Accounting'
  BY <1>1, <1>2, Calm
<1>4. TypeOK'
  BY <1>1 DEF IndInv, TypeOK
<1>5. ReceiverHolds' /\ TakingTurns' /\ OwnService' /\ RoomForField'
  BY <1>1 DEF IndInv, ReceiverHolds, TakingTurns, OwnService, RoomForField
<1>6. CheckedFields'
  BY <1>1, <1>2 DEF IndInv, CheckedFields, attached
<1> QED BY <1>3, <1>4, <1>5, <1>6 DEF IndInv

LEMMA EndStep ==
  ASSUME IndInv, TimeoutEnd \/ AssignPurged
  PROVE  IndInv'
<1> USE DEF requestVars, initVars, lifeVars, rxVars, clientVars
<1>1. /\ timer = "loop" /\ timer' \in {"idle", "reset"}
      /\ timer' = "reset" => list = <<>>
      /\ UNCHANGED <<why, taken, requestVars, initVars, lifeVars, rxVars, clientVars, owed>>
  BY DEF TimeoutEnd, AssignPurged, Purged, Purgeable
<1>2. InHand' = InHand /\ Waiting' = Waiting
  BY <1>1 DEF InHand, Waiting
<1>3. Ownership' /\ Accounting'
  BY <1>1, <1>2, Calm
<1>4. TypeOK'
  BY <1>1 DEF IndInv, TypeOK
<1>5. ReceiverHolds' /\ TakingTurns' /\ OwnService' /\ RoomForField'
  BY <1>1 DEF IndInv, ReceiverHolds, TakingTurns, OwnService, RoomForField
<1>6. CheckedFields'
  BY <1>1, <1>2 DEF IndInv, CheckedFields, attached
<1> QED BY <1>3, <1>4, <1>5, <1>6 DEF IndInv

LEMMA ResetStep ==
  ASSUME IndInv, Reset
  PROVE  IndInv'
<1> USE DEF Reset, rxVars, clientVars
<1>1. timer = "reset" /\ timer' = "idle" /\ rx = "idle" /\ rx' = "idle"
  BY DEF IndInv, TakingTurns
<1>2. InHand' = InHand /\ Waiting' = Waiting
  BY <1>1 DEF InHand, Waiting
<1>3. Ownership' /\ Accounting'
  BY <1>2, Calm
<1>4. /\ retries' \in 0..MaxRetries /\ fields' \in 0..MaxFields
      /\ numbers' \in [Service -> 0..(Numbers - 1)] /\ life' \in Nat
      /\ overtaken' \in SUBSET Client
  BY ProxyAssumption DEF IndInv, TypeOK, Entry
<1>5. TypeOK'
  BY <1>1, <1>4 DEF IndInv, TypeOK
<1>6. ReceiverHolds' /\ TakingTurns' /\ OwnService'
  BY <1>1 DEF IndInv, ReceiverHolds, TakingTurns, OwnService
<1>7. RoomForField'
  BY ProxyAssumption DEF RoomForField
<1>8. CheckedFields'
  <2>1. ~attached => Waiting = {}
    <3>1. ~attached => list = <<>>
      BY <1>1 DEF IndInv, CheckedFields
    <3>2. list = <<>> => Range(list) = {}
      BY DEF Range
    <3> QED BY <1>1, <3>1, <3>2 DEF Waiting
  <2>2. attached' => ~attached
    BY DEF attached
  <2>3. entering' = entering /\ \A e \in entering : e.client \in overtaken'
    OBVIOUS
  <2> QED BY <1>1, <1>2, <2>1, <2>2, <2>3 DEF CheckedFields
<1> QED BY <1>3, <1>5, <1>6, <1>7, <1>8 DEF IndInv

-----------------------------------------------------------------------------
(* The steps that move a descriptor. *)

\* A call that found no descriptor.
LEMMA RefuseStep ==
  ASSUME IndInv, NEW e \in entering, entering' = entering \ {e},
         UNCHANGED <<requestVars, owed, calls, initVars, lifeVars, rxVars, timerVars>>
  PROVE  IndInv'
<1> USE DEF requestVars, initVars, lifeVars, rxVars, timerVars
<1>1. InHand' = InHand /\ Waiting' = Waiting
  BY DEF InHand, Waiting
<1>2. Ownership' /\ Accounting'
  BY <1>1, Calm
<1>3. TypeOK'
  BY DEF IndInv, TypeOK
<1>4. ReceiverHolds' /\ TakingTurns' /\ OwnService' /\ RoomForField'
  BY DEF IndInv, ReceiverHolds, TakingTurns, OwnService, RoomForField
<1>5. CheckedFields'
  BY <1>1 DEF IndInv, CheckedFields, attached
<1> QED BY <1>2, <1>3, <1>4, <1>5 DEF IndInv

\* A call that got one.
LEMMA AcceptStep ==
  ASSUME IndInv, NEW e \in entering, entering' = entering \ {e},
         pool # <<>>, attached, Put(Request(e.client, e.service, e.field)),
         owed' = [owed EXCEPT ![e.client] = @ + 1],
         UNCHANGED <<calls, initVars, lifeVars, rxVars, timerVars>>
  PROVE  IndInv'
<1> DEFINE r == Request(e.client, e.service, e.field)
           d == Head(pool)
<1>1. /\ e.client \in Client /\ e.service \in Service /\ e.service # "node"
      /\ e.field \in Nat /\ TypeOK
  BY DEF IndInv, TypeOK, Entry
<1>2. /\ r \in Descriptor /\ r.owner = e.client /\ r.service = e.service
      /\ r.field = e.field
  BY <1>1, RequestFacts
<1>3. Put(r)
  OBVIOUS
<1> HIDE DEF r
<1>4. /\ pool' \in Seq(Requests) /\ list' \in Seq(Requests)
      /\ IsInjective(pool') /\ IsInjective(list')
      /\ d \in Range(pool)
      /\ Range(pool') = Range(pool) \ {d}
      /\ Range(list') = Range(list) \union {d}
      /\ desc' \in [Requests -> Descriptor]
      /\ desc'[d] = r
      /\ \A x \in Requests \ {d} : desc'[x] = desc[x]
      /\ late' \in SUBSET Requests
      /\ numbers' \in [Service -> 0..(Numbers - 1)]
      /\ air' \in SUBSET Packet
  BY <1>2, <1>3, PutFacts
<1> HIDE DEF d
<1>5. /\ d \in Requests /\ d \notin Range(list) /\ d \notin InHand
      /\ Range(list) \subseteq Requests /\ InHand \subseteq Requests
  BY <1>4 DEF IndInv, Ownership
<1>6. InHand' = InHand /\ UNCHANGED <<rx, match, heard, timer, taken, state, fields, master, overtaken>>
  BY DEF InHand, initVars, lifeVars, rxVars, timerVars
<1>7. rx # "idle" /\ match # Nobody => match \in Range(list)
  BY DEF IndInv, ReceiverHolds
<1>8. Waiting \subseteq Range(list) \union InHand
  BY DEF Waiting, InHand
<1>9. Waiting' = Waiting \union {d}
  <2>1. rx = "done" => d # match
    <3>1. Nobody \notin Requests
      BY DEF Nobody, Requests
    <3> QED BY <1>5, <1>7, <3>1
  <2> QED BY <1>4, <1>5, <1>6, <2>1 DEF Waiting
<1>10. TypeOK'
  <2>1. owed' \in [Client -> Int]
    BY <1>1 DEF TypeOK
  <2> QED BY <1>4, <2>1 DEF IndInv, TypeOK, initVars, lifeVars, rxVars, timerVars
<1>11. Ownership'
  <2>1. /\ Range(pool) \cap Range(list) = {}
        /\ InHand \cap (Range(pool) \union Range(list)) = {}
        /\ Range(pool) \union Range(list) \union InHand = Requests
    BY DEF IndInv, Ownership
  <2>2. /\ Range(pool') \cap Range(list') = {}
        /\ InHand' \cap (Range(pool') \union Range(list')) = {}
        /\ Range(pool') \union Range(list') \union InHand' = Requests
    BY <1>4, <1>6, <2>1
  <2> QED BY <1>4, <2>2 DEF Ownership
<1>12. Accounting'
  <2>1. d \in Requests \ Waiting
    BY <1>5, <1>8
  <2>2. ASSUME NEW c \in Client
        PROVE  Pending(c)' = IF c = e.client THEN Pending(c) \union {d} ELSE Pending(c)
    <3>1. \A x \in Waiting : desc'[x] = desc[x]
      BY <1>4, <1>5, <1>8
    <3> QED BY <1>2, <1>4, <1>9, <3>1 DEF Pending
  <2> QED BY <1>1, <1>6, <2>1, <2>2, AccountsMore DEF IndInv
<1>13. ReceiverHolds' /\ TakingTurns' /\ RoomForField'
  BY <1>4, <1>6, <1>7 DEF IndInv, ReceiverHolds, TakingTurns, RoomForField
<1>14. OwnService'
  <2>1. \A x \in Range(list') : desc'[x].service # "node"
    BY <1>1, <1>2, <1>4, <1>5 DEF IndInv, OwnService
  <2>2. rx # "idle" /\ match # Nobody => desc'[match] = desc[match]
    BY <1>4, <1>5, <1>7
  <2> QED BY <1>6, <2>1, <2>2 DEF IndInv, OwnService
<1>15. CheckedFields'
  <2>1. /\ attached' = attached
        /\ e.client \notin overtaken /\ e.service = "field" => e.field < fields
    BY <1>6 DEF IndInv, CheckedFields, attached
  <2>2. ASSUME NEW x \in Waiting'
        PROVE  desc'[x].service = "field" /\ desc'[x].owner \notin overtaken =>
                 desc'[x].field < fields
    <3>1. CASE x = d
      BY <1>2, <1>4, <2>1, <3>1
    <3>2. CASE x # d
      <4>1. x \in Waiting /\ desc'[x] = desc[x]
        BY <1>4, <1>5, <1>8, <1>9, <3>2
      <4> QED BY <2>1, <4>1 DEF IndInv, CheckedFields
    <3> QED BY <3>1, <3>2
  <2> QED BY <1>6, <2>1, <2>2 DEF IndInv, CheckedFields
<1> QED BY <1>10, <1>11, <1>12, <1>13, <1>14, <1>15 DEF IndInv

\* The receiver gives a descriptor back.
LEMMA ReleaseStep ==
  ASSUME IndInv, Release
  PROVE  IndInv'
<1> USE DEF initVars, lifeVars, timerVars, clientVars
<1>1. /\ rx = "done" /\ rx' = "idle" /\ timer = "idle" /\ heard' = NoPacket /\ match' = Nobody
      /\ UNCHANGED <<desc, late, numbers, air, initVars, lifeVars, timerVars,
                     clientVars, owed>>
  BY DEF Release, IndInv, TakingTurns
<1>2. /\ pool \in Seq(Requests) /\ list \in Seq(Requests)
      /\ IsInjective(pool) /\ IsInjective(list)
      /\ Range(pool) \cap Range(list) = {}
      /\ InHand = {}
      /\ Range(pool) \union Range(list) = Requests
  BY <1>1 DEF IndInv, TypeOK, Ownership, InHand
<1>3. Nobody \notin Requests
  BY DEF Nobody, Requests
<1>4. /\ pool' \in Seq(Requests) /\ list' \in Seq(Requests)
      /\ IsInjective(pool') /\ IsInjective(list')
      /\ Range(list') = Range(list) \ {match}
      /\ Range(pool') \cap Range(list') = {}
      /\ Range(pool') \union Range(list') = Requests
  <2>1. CASE match = Nobody /\ UNCHANGED <<pool, list>>
    BY <1>2, <1>3, <2>1
  <2>2. CASE match # Nobody /\ Erase(match) /\ pool' = Append(pool, match)
    <3>1. match \in Range(list)
      BY <1>1, <2>2 DEF IndInv, ReceiverHolds
    <3>2. PICK i \in DOMAIN list : list[i] = match /\ list' = RemoveAt(list, i)
      BY <2>2, <3>1 DEF Erase
    <3>3. i \in 1..Len(list)
      BY <1>2, LenProperties
    <3>4. LET q == SubSeq(list, 1, i - 1) \o SubSeq(list, i + 1, Len(list))
          IN  q \in Seq(Requests) /\ IsInjective(q) /\ Range(q) = Range(list) \ {list[i]}
      BY <1>2, <3>3, TakeOut
    <3>5. /\ list' \in Seq(Requests) /\ IsInjective(list')
          /\ Range(list') = Range(list) \ {match}
      BY <3>2, <3>4 DEF RemoveAt
    <3>6. match \in Requests /\ match \notin Range(pool)
      BY <1>2, <3>1
    <3>7. /\ Append(pool, match) \in Seq(Requests)
          /\ IsInjective(Append(pool, match))
          /\ Range(Append(pool, match)) = Range(pool) \union {match}
      BY <1>2, <3>6, GiveBack
    <3> QED BY <1>2, <2>2, <3>1, <3>5, <3>7
  <2> QED BY <2>1, <2>2 DEF Release
<1>5. InHand' = {}
  BY <1>1 DEF InHand
<1>6. Waiting' = Waiting
  BY <1>1, <1>4 DEF Waiting
<1>7. TypeOK'
  <2>1. NoPacket \in Packet
    <3>1. Unused \in Descriptor
      BY ProxyAssumption DEF Unused, Descriptor, Service
    <3> QED BY <3>1 DEF NoPacket, Packet
  <2> QED BY <1>1, <1>4, <2>1 DEF IndInv, TypeOK
<1>8. Ownership'
  BY <1>4, <1>5 DEF Ownership
<1>9. Accounting'
  <2>1. \A c \in Client : Pending(c)' = Pending(c)
    BY <1>1, <1>6 DEF Pending
  <2> QED BY <1>1, <2>1, AccountsKept DEF IndInv
<1>10. ReceiverHolds' /\ TakingTurns' /\ RoomForField'
  BY <1>1 DEF IndInv, ReceiverHolds, TakingTurns, RoomForField
<1>11. OwnService'
  BY <1>1, <1>4 DEF IndInv, OwnService
<1>12. CheckedFields'
  BY <1>1, <1>6 DEF IndInv, CheckedFields, attached
<1> QED BY <1>7, <1>8, <1>9, <1>10, <1>11, <1>12 DEF IndInv

\* The timer takes a descriptor off the list.
LEMMA PopStep ==
  ASSUME IndInv, Pop
  PROVE  IndInv'
<1> USE DEF initVars, lifeVars, rxVars, clientVars
<1> DEFINE d == Head(list)
<1>1. /\ timer = "loop" /\ timer' = "popped" /\ rx = "idle" /\ rx' = "idle" /\ list # <<>>
      /\ list' = Tail(list) /\ taken' = d
      /\ UNCHANGED <<why, pool, desc, late, numbers, air, initVars, lifeVars, rxVars,
                     clientVars, owed>>
  BY DEF Pop, Purgeable, IndInv, TakingTurns
<1>2. /\ list \in Seq(Requests) /\ IsInjective(list)
      /\ IsInjective(pool)
      /\ Range(pool) \cap Range(list) = {}
      /\ InHand = {}
      /\ Range(pool) \union Range(list) = Requests
  BY <1>1 DEF IndInv, TypeOK, Ownership, InHand
<1>3. /\ Head(list) \in Requests
      /\ Head(list) \in Range(list)
      /\ Tail(list) \in Seq(Requests)
      /\ IsInjective(Tail(list))
      /\ Range(Tail(list)) = Range(list) \ {Head(list)}
  BY <1>1, <1>2, TakeFirst
<1>4. /\ d \in Requests /\ d \in Range(list)
      /\ list' \in Seq(Requests) /\ IsInjective(list')
      /\ Range(list') = Range(list) \ {d}
  BY <1>1, <1>3
<1> HIDE DEF d
<1>5. InHand' = {d}
  BY <1>1 DEF InHand
<1>6. Waiting' = Waiting
  BY <1>1, <1>4 DEF Waiting
<1>7. TypeOK'
  BY <1>1, <1>4 DEF IndInv, TypeOK
<1>8. Ownership'
  <2>1. /\ Range(pool') \cap Range(list') = {}
        /\ InHand' \cap (Range(pool') \union Range(list')) = {}
        /\ Range(pool') \union Range(list') \union InHand' = Requests
    BY <1>1, <1>2, <1>4, <1>5
  <2> QED BY <1>1, <1>2, <1>4, <2>1 DEF Ownership
<1>9. Accounting'
  <2>1. \A c \in Client : Pending(c)' = Pending(c)
    BY <1>1, <1>6 DEF Pending
  <2> QED BY <1>1, <2>1, AccountsKept DEF IndInv
<1>10. ReceiverHolds' /\ TakingTurns' /\ RoomForField'
  BY <1>1 DEF IndInv, ReceiverHolds, TakingTurns, RoomForField
<1>11. OwnService'
  BY <1>1, <1>4 DEF IndInv, OwnService
<1>12. CheckedFields'
  BY <1>1, <1>6 DEF IndInv, CheckedFields, attached
<1> QED BY <1>7, <1>8, <1>9, <1>10, <1>11, <1>12 DEF IndInv

\* The timer calls its observer.
LEMMA TellStep ==
  ASSUME IndInv, Tell
  PROVE  IndInv'
<1> USE DEF requestVars, initVars, lifeVars, rxVars, clientVars
<1>1. /\ timer = "popped" /\ timer' = "told" /\ rx = "idle" /\ rx' = "idle"
      /\ Callback(desc[taken].owner)
      /\ UNCHANGED <<why, taken, requestVars, initVars, lifeVars, rxVars, clientVars>>
  BY DEF Tell, IndInv, TakingTurns
<1>2. InHand' = InHand /\ InHand = {taken}
  BY <1>1 DEF InHand
<1>3. taken \in Waiting /\ taken \notin Range(list) /\ Waiting' = Waiting \ {taken}
  BY <1>1, <1>2 DEF Waiting, IndInv, Ownership
<1>4. Accounting' /\ owed' \in [Client -> Int]
  <2>1. \A c \in Client : Pending(c)' = Pending(c) \ {taken}
    BY <1>1, <1>3 DEF Pending
  <2> QED BY <1>1, <1>3, <2>1, AccountsFewer DEF IndInv
<1>5. TypeOK'
  BY <1>1, <1>4 DEF IndInv, TypeOK
<1>6. Ownership'
  BY <1>1, <1>2 DEF IndInv, Ownership
<1>7. ReceiverHolds' /\ TakingTurns' /\ OwnService' /\ RoomForField'
  BY <1>1 DEF IndInv, ReceiverHolds, TakingTurns, OwnService, RoomForField
<1>8. CheckedFields'
  BY <1>1, <1>3 DEF IndInv, CheckedFields, attached
<1> QED BY <1>4, <1>5, <1>6, <1>7, <1>8 DEF IndInv

\* The timer gives the descriptor back.
LEMMA FreeStep ==
  ASSUME IndInv, Free
  PROVE  IndInv'
<1> USE DEF initVars, lifeVars, rxVars, clientVars
<1>1. /\ timer = "told" /\ timer' = "loop" /\ rx = "idle" /\ rx' = "idle"
      /\ pool' = Append(pool, taken)
      /\ UNCHANGED <<why, taken, list, desc, late, numbers, air, initVars, lifeVars,
                     rxVars, clientVars, owed>>
  BY DEF Free, IndInv, TakingTurns
<1>2. /\ pool \in Seq(Requests) /\ IsInjective(pool) /\ IsInjective(list)
      /\ taken \in Requests
      /\ InHand = {taken} /\ InHand' = {}
      /\ Range(pool) \cap Range(list) = {}
      /\ InHand \cap (Range(pool) \union Range(list)) = {}
      /\ Range(pool) \union Range(list) \union InHand = Requests
  BY <1>1 DEF IndInv, TypeOK, Ownership, InHand
<1>3. taken \notin Range(pool) /\ taken \notin Range(list)
  BY <1>2
<1>4. /\ Append(pool, taken) \in Seq(Requests)
      /\ IsInjective(Append(pool, taken))
      /\ Range(Append(pool, taken)) = Range(pool) \union {taken}
  BY <1>2, <1>3, GiveBack
<1>5. Waiting' = Waiting
  BY <1>1 DEF Waiting
<1>6. TypeOK'
  BY <1>1, <1>4 DEF IndInv, TypeOK
<1>7. Ownership'
  <2>1. /\ Range(pool') \cap Range(list') = {}
        /\ InHand' \cap (Range(pool') \union Range(list')) = {}
        /\ Range(pool') \union Range(list') \union InHand' = Requests
    BY <1>1, <1>2, <1>3, <1>4
  <2> QED BY <1>1, <1>2, <1>4, <2>1 DEF Ownership
<1>8. Accounting'
  <2>1. \A c \in Client : Pending(c)' = Pending(c)
    BY <1>1, <1>5 DEF Pending
  <2> QED BY <1>1, <2>1, AccountsKept DEF IndInv
<1>9. ReceiverHolds' /\ TakingTurns' /\ OwnService' /\ RoomForField'
  BY <1>1 DEF IndInv, ReceiverHolds, TakingTurns, OwnService, RoomForField
<1>10. CheckedFields'
  BY <1>1, <1>5 DEF IndInv, CheckedFields, attached
<1> QED BY <1>6, <1>7, <1>8, <1>9, <1>10 DEF IndInv

-----------------------------------------------------------------------------
(* The steps that may send a request of the proxy. *)

\* Sending leaves every descriptor in one place.
LEMMA OwnershipSent ==
  ASSUME IndInv, Sent, InHand' = InHand
  PROVE  Ownership'
<1>1. /\ InHand \cap (Range(pool) \union Range(list)) = {}
      /\ Range(pool) \union Range(list) \union InHand = Requests
  BY DEF IndInv, Ownership
<1>2. /\ InHand' \cap (Range(pool') \union Range(list')) = {}
      /\ Range(pool') \union Range(list') \union InHand' = Requests
  BY <1>1 DEF Sent
<1> QED BY <1>2 DEF Ownership, Sent

\* What is on the list then was there before, or is the proxy's own.
LEMMA SentMembers ==
  ASSUME IndInv, Sent, NEW x \in Range(list')
  PROVE  \/ x \in Range(list) /\ desc'[x] = desc[x]
         \/ x \notin Range(list) /\ desc'[x].owner = Proxy /\ desc'[x].service = "info"
<1>1. x \in Range(list) => x \in Requests \ Range(pool)
  BY DEF IndInv, Ownership
<1> QED BY <1>1 DEF Sent

LEMMA RetryStep ==
  ASSUME IndInv, Retry
  PROVE  IndInv'
<1> USE DEF lifeVars, rxVars, clientVars
<1>1. /\ timer = "loop" /\ timer' = "idle" /\ rx = "idle" /\ rx' = "idle"
      /\ state \in {"node", "fields"}
      /\ UNCHANGED <<why, taken, fields, lifeVars, rxVars, clientVars, owed>>
  BY DEF Retry, Purged, IndInv, TakingTurns
<1>2. fields \in Nat /\ fields \in 0..MaxFields /\ fields < MaxFields /\ retries \in 0..MaxRetries
  BY <1>1, ProxyAssumption DEF IndInv, TypeOK, RoomForField
<1>3. Sent /\ state' \in {"node", "fields", "ready", "error"} /\ retries' \in 0..MaxRetries
  <2>1. CASE /\ retries > 0
             /\ retries' = retries - 1 /\ UNCHANGED state
             /\ \/ /\ state = "node"
                   /\ Transmit(Request(Proxy, "node", 0))
                   /\ UNCHANGED <<pool, list, desc, late>>
                \/ state = "fields" /\ SendGetFieldInfo(fields)
    <3>1. Sent
      BY <1>2, <2>1, SentNode, SentField
    <3>2. retries - 1 \in 0..MaxRetries
      BY <1>2, <2>1, ProxyAssumption
    <3> QED BY <1>1, <2>1, <3>1, <3>2
  <2>2. CASE /\ retries = 0
             /\ state' = IF state = "node" THEN "error" ELSE "ready"
             /\ UNCHANGED <<retries, requestVars>>
    BY <1>2, <2>2, SentNothing
  <2> QED BY <2>1, <2>2 DEF Retry
<1>4. InHand' = InHand
  BY <1>1 DEF InHand
<1>5. Waiting = Range(list) /\ Waiting' = Range(list')
  BY <1>1 DEF Waiting
<1>6. TypeOK'
  BY <1>1, <1>3 DEF IndInv, TypeOK, Sent
<1>7. Ownership'
  BY <1>3, <1>4, OwnershipSent
<1>8. Accounting'
  <2>1. ASSUME NEW c \in Client
        PROVE  Pending(c)' = Pending(c)
    <3>1. Range(list) \subseteq Range(list')
      BY <1>3 DEF Sent
    <3>2. c # Proxy
      BY ProxyAssumption
    <3> QED BY <1>3, <1>5, <3>1, <3>2, SentMembers DEF Pending
  <2> QED BY <1>1, <2>1, AccountsKept DEF IndInv
<1>9. ReceiverHolds' /\ TakingTurns' /\ RoomForField'
  BY <1>1, <1>2 DEF ReceiverHolds, TakingTurns, RoomForField
<1>10. OwnService'
  BY <1>1, <1>3, SentMembers DEF IndInv, OwnService
<1>11. CheckedFields'
  BY <1>1, <1>3, <1>5, SentMembers DEF IndInv, CheckedFields, attached
<1> QED BY <1>6, <1>7, <1>8, <1>9, <1>10, <1>11 DEF IndInv

\* What a response does to the image, and to whom it is told: to the owner of
\* its request, or to nobody when there is none or an assignment overtook it.
HeardBy ==
  /\ Sent
  /\ state' \in {"node", "fields", "ready", "error"}
  /\ retries' \in 0..MaxRetries /\ fields' \in 0..MaxFields
  /\ fields' >= fields
  /\ state' \in {"node", "fields"} => fields' < MaxFields
  /\ \/ match = Nobody /\ owed' = owed
     \/ match # Nobody /\ Callback(desc[match].owner)
     \/ match # Nobody /\ desc[match].owner \in overtaken /\ owed' = owed

LEMMA HearNodeFacts ==
  ASSUME IndInv, rx = "found", HearNode
  PROVE  HeardBy
<1>1. match = Nobody /\ owed' = owed
  BY DEF HearNode, IndInv, OwnService, ReceiverHolds
<1>2. /\ fields \in 0..MaxFields /\ retries \in 0..MaxRetries
      /\ state \in {"node", "fields", "ready", "error"}
      /\ MaxRetries \in Nat
      /\ (state \in {"node", "fields"} => fields < MaxFields)
  BY ProxyAssumption DEF IndInv, TypeOK, RoomForField
<1>3. CASE /\ state = "node"
           /\ state' = "fields" /\ retries' = MaxRetries /\ UNCHANGED fields
           /\ SendGetFieldInfo(0)
  <2>1. Sent
    BY <1>3, SentField
  <2>2. MaxRetries \in 0..MaxRetries
    BY <1>2
  <2> QED BY <1>1, <1>2, <1>3, <2>1, <2>2 DEF HeardBy
<1>4. CASE Untouched
  <2>1. Sent
    BY <1>4, SentNothing DEF Untouched
  <2> QED BY <1>1, <1>2, <1>4, <2>1 DEF HeardBy, Untouched, initVars
<1> QED BY <1>3, <1>4 DEF HearNode

LEMMA HearFieldsFacts ==
  ASSUME IndInv, rx = "found", HearInfo \/ HearNoField
  PROVE  HeardBy
<1>1. match # Nobody /\ Callback(desc[match].owner)
  BY DEF HearInfo, HearNoField, Found
<1>2. /\ fields \in 0..MaxFields /\ retries \in 0..MaxRetries
      /\ state \in {"node", "fields", "ready", "error"}
      /\ MaxRetries \in Nat /\ MaxFields \in Nat
      /\ (state \in {"node", "fields"} => fields < MaxFields)
  BY ProxyAssumption DEF IndInv, TypeOK, RoomForField
<1>3. CASE HearInfo /\ NextField
  <2>1. state = "fields" /\ fields' = fields + 1 /\ fields < MaxFields
    BY <1>2, <1>3 DEF NextField
  <2>2. fields + 1 \in 0..MaxFields /\ fields + 1 \in Nat /\ fields + 1 >= fields
        /\ MaxRetries \in 0..MaxRetries
    BY <1>2, <2>1
  <2>3. CASE /\ fields + 1 < MaxFields
             /\ retries' = MaxRetries /\ UNCHANGED state
             /\ SendGetFieldInfo(fields + 1)
    <3>1. Sent
      BY <2>2, <2>3, SentField
    <3> QED BY <1>1, <1>2, <2>1, <2>2, <2>3, <3>1 DEF HeardBy
  <2>4. CASE /\ fields + 1 = MaxFields
             /\ state' = "ready"
             /\ UNCHANGED <<retries, requestVars>>
    <3>1. Sent
      BY <2>4, SentNothing
    <3> QED BY <1>1, <1>2, <2>1, <2>2, <2>4, <3>1 DEF HeardBy
  <2> QED BY <1>3, <2>3, <2>4 DEF NextField
<1>4. CASE HearInfo /\ Untouched
  <2>1. Sent
    BY <1>4, SentNothing DEF Untouched
  <2> QED BY <1>1, <1>2, <1>4, <2>1 DEF HeardBy, Untouched, initVars
<1>5. CASE HearNoField
  <2>1. Sent /\ UNCHANGED <<retries, fields>>
        /\ state' = IF state = "fields" THEN "ready" ELSE state
    BY <1>5, SentNothing DEF HearNoField
  <2> QED BY <1>1, <1>2, <2>1 DEF HeardBy
<1> QED BY <1>3, <1>4, <1>5 DEF HearInfo

LEMMA HearOtherFacts ==
  ASSUME IndInv, rx = "found", HearNothing \/ HearBadInfo \/ HearField \/ HearFile
  PROVE  HeardBy
<1>1. /\ fields \in 0..MaxFields /\ retries \in 0..MaxRetries
      /\ state \in {"node", "fields", "ready", "error"}
      /\ MaxRetries \in Nat
      /\ (state \in {"node", "fields"} => fields < MaxFields)
  BY ProxyAssumption DEF IndInv, TypeOK, RoomForField
<1>2. Untouched /\ UNCHANGED <<state, retries, fields>>
  BY DEF HearNothing, HearBadInfo, HearField, HearFile, Untouched, initVars
<1>3. Sent
  BY <1>2, SentNothing DEF Untouched
<1>4. \/ match = Nobody /\ owed' = owed
      \/ match # Nobody /\ Callback(desc[match].owner)
      \/ match # Nobody /\ desc[match].owner \in overtaken /\ owed' = owed
  <2>1. CASE HearNothing \/ HearBadInfo \/ HearFile
    BY <2>1 DEF HearNothing, HearBadInfo, HearFile, Found
  <2>2. CASE HearField
    <3>1. match # Nobody /\ match \in Range(list) /\ heard.asked.service = "field"
          /\ desc[match].service = heard.asked.service /\ attached
      BY <2>2 DEF HearField, Found, IndInv, ReceiverHolds, OwnService, CheckedFields
    <3>2. match \in Waiting
      BY <3>1 DEF Waiting
    <3>3. desc[match].owner \notin overtaken => desc[match].field < fields
      BY <3>1, <3>2 DEF IndInv, CheckedFields
    <3> QED BY <2>2, <3>1, <3>3 DEF HearField
  <2> QED BY <2>1, <2>2
<1> QED BY <1>1, <1>2, <1>3, <1>4 DEF HeardBy

LEMMA ProcessStep ==
  ASSUME IndInv, Process
  PROVE  IndInv'
<1> USE DEF lifeVars, timerVars, clientVars
<1>1. /\ rx = "found" /\ rx' = "done" /\ timer = "idle" /\ timer' = "idle"
      /\ UNCHANGED <<heard, match, lifeVars, timerVars, clientVars>>
  BY DEF Process, IndInv, TakingTurns
<1>2. HeardBy
  BY <1>1, HearNodeFacts, HearFieldsFacts, HearOtherFacts DEF Process
<1>3. Sent /\ fields \in Nat /\ fields' \in Nat /\ fields' >= fields
  BY <1>2, ProxyAssumption DEF HeardBy, IndInv, TypeOK
<1>4. InHand' = InHand
  BY <1>1 DEF InHand
<1>5. Waiting = Range(list) /\ Waiting' = Range(list') \ {match}
  BY <1>1 DEF Waiting
<1>6. match # Nobody => match \in Range(list)
  BY <1>1 DEF IndInv, ReceiverHolds
<1>7. Range(list) \subseteq Range(list')
  BY <1>3 DEF Sent
<1>8. Ownership'
  BY <1>3, <1>4, OwnershipSent
<1>9. \A c \in Client : Pending(c)' = Pending(c) \ {match}
  <2>1. Proxy \notin Client
    BY ProxyAssumption
  <2> QED BY <1>3, <1>5, <1>7, <2>1, SentMembers DEF Pending
<1>10. Accounting' /\ owed' \in [Client -> Int]
  <2>1. CASE match = Nobody /\ owed' = owed
    <3>1. Nobody \notin Requests /\ Waiting \in SUBSET Requests
      BY WaitingFinite DEF Nobody, Requests, IndInv
    <3>2. \A c \in Client : Pending(c)' = Pending(c)
      BY <1>9, <2>1, <3>1 DEF Pending
    <3> QED BY <1>1, <2>1, <3>2, AccountsKept DEF IndInv, TypeOK
  <2>2. CASE match # Nobody /\ Callback(desc[match].owner)
    <3>1. match \in Waiting
      BY <1>5, <1>6, <2>2
    <3> QED BY <1>1, <1>9, <2>2, <3>1, AccountsFewer DEF IndInv
  <2>3. CASE match # Nobody /\ desc[match].owner \in overtaken /\ owed' = owed
    <3>1. \A c \in Client \ overtaken : Pending(c)' = Pending(c)
      BY <1>9, <2>3 DEF Pending
    <3> QED BY <1>1, <2>3, <3>1, AccountsKept DEF IndInv, TypeOK
  <2> QED BY <1>2, <2>1, <2>2, <2>3 DEF HeardBy
<1>11. TypeOK'
  BY <1>1, <1>2, <1>3, <1>10 DEF IndInv, TypeOK, HeardBy, Sent
<1>12. ReceiverHolds' /\ TakingTurns' /\ RoomForField'
  BY <1>1, <1>2, <1>6, <1>7 DEF ReceiverHolds, TakingTurns, RoomForField, HeardBy
<1>13. OwnService'
  <2>1. \A x \in Range(list') : desc'[x].service # "node"
    BY <1>3, SentMembers DEF IndInv, OwnService
  <2>2. match # Nobody => desc'[match] = desc[match]
    BY <1>3, <1>6, <1>7, SentMembers
  <2> QED BY <1>1, <2>1, <2>2 DEF IndInv, OwnService
<1>14. CheckedFields'
  <2>1. \A e \in entering' : e.client \notin overtaken' =>
          attached' /\ (e.service = "field" => e.field < fields')
    <3>1. \A e \in entering : e.field \in Nat
      BY DEF IndInv, TypeOK, Entry
    <3>2. \A e \in entering : e.client \notin overtaken =>
            attached /\ (e.service = "field" => e.field < fields)
      BY DEF IndInv, CheckedFields
    <3>3. attached' = attached /\ entering' = entering /\ overtaken' = overtaken
      BY <1>1 DEF attached
    <3> QED BY <1>3, <3>1, <3>2, <3>3
  <2>2. ASSUME NEW x \in Waiting', attached, desc'[x].service = "field",
               desc'[x].owner \notin overtaken
        PROVE  desc'[x].field < fields'
    <3>1. x \in Range(list')
      BY <1>5
    <3>2. x \in Waiting /\ desc'[x] = desc[x]
      BY <1>3, <1>5, <2>2, <3>1, SentMembers
    <3>3. desc[x].field < fields
      BY <2>2, <3>2 DEF IndInv, CheckedFields
    <3>4. desc[x].field \in Nat
      BY <3>2, WaitingFinite DEF IndInv, TypeOK, Descriptor
    <3> QED BY <1>3, <3>2, <3>3, <3>4
  <2>3. attached' = attached /\ attached
    BY <1>1 DEF attached, IndInv, CheckedFields
  <2> QED BY <1>1, <2>1, <2>2, <2>3 DEF CheckedFields
<1> QED BY <1>8, <1>10, <1>11, <1>12, <1>13, <1>14 DEF IndInv

-----------------------------------------------------------------------------
(* The theorems. *)

LEMMA InitInvariant == Init => IndInv
<1> SUFFICES ASSUME Init
             PROVE  IndInv
  OBVIOUS
<1> USE ProxyAssumption
<1>1. /\ pool = [i \in Requests |-> i] /\ list = <<>> /\ rx = "idle" /\ timer = "idle"
      /\ entering = {} /\ match = Nobody /\ fields = 0 /\ master = "set"
      /\ desc = [d \in Requests |-> Unused]
  BY DEF Init
<1>2. Unused \in Descriptor /\ NoPacket \in Packet
  BY DEF Unused, Descriptor, Service, NoPacket, Packet
<1>3. pool \in Seq(Requests) /\ list \in Seq(Requests)
  <2>1. DOMAIN pool = 1..PoolSize /\ \A i \in 1..PoolSize : pool[i] \in Requests
    BY <1>1 DEF Requests
  <2>2. pool \in Seq(Requests)
    BY <1>1, SeqDef DEF Requests
  <2> QED BY <1>1, <2>2, EmptySeq
<1>4. Range(pool) = Requests /\ IsInjective(pool)
  BY <1>1 DEF Range, IsInjective
<1>5. Range(list) = {} /\ IsInjective(list)
  BY <1>1, EmptySeq DEF Range, IsInjective
<1>6. InHand = {} /\ Waiting = {}
  BY <1>1, <1>5 DEF InHand, Waiting
<1>7. TypeOK
  <2>1. 1 \in Requests /\ 0 \in 0..(Numbers - 1) /\ MaxRetries \in 0..MaxRetries
        /\ 0 \in 0..MaxFields
    BY DEF Requests
  <2>2. /\ desc \in [Requests -> Descriptor] /\ numbers \in [Service -> 0..(Numbers - 1)]
        /\ calls \in [Client -> Nat] /\ owed \in [Client -> Int]
    BY <1>2, <2>1 DEF Init
  <2>3. /\ overtaken \in SUBSET Client /\ crashed \in BOOLEAN /\ late \in SUBSET Requests
        /\ entering \in SUBSET Entry /\ air \in SUBSET Packet
    BY DEF Init
  <2> QED BY <1>2, <1>3, <2>1, <2>2, <2>3 DEF Init, TypeOK
<1>8. Ownership
  BY <1>4, <1>5, <1>6 DEF Ownership
<1>9. Accounting
  <2>1. \A c \in Client : Pending(c) = {} /\ owed[c] = 0
    BY <1>6 DEF Init, Pending
  <2> QED BY <2>1, FS_EmptySet DEF Accounting
<1>10. ReceiverHolds /\ TakingTurns /\ OwnService /\ RoomForField
  BY <1>1, <1>5 DEF ReceiverHolds, TakingTurns, OwnService, RoomForField
<1>11. CheckedFields
  BY <1>1, <1>6 DEF CheckedFields, attached
<1> QED BY <1>7, <1>8, <1>9, <1>10, <1>11 DEF IndInv

LEMMA NextStep ==
  ASSUME Threads = 1, IndInv, [Next]_vars
  PROVE  IndInv'
<1>1. CASE UNCHANGED vars
  BY <1>1 DEF vars, requestVars, initVars, lifeVars, rxVars, timerVars, clientVars,
     IndInv, TypeOK, Ownership, InHand, ReceiverHolds, Accounting, Pending, Waiting,
     TakingTurns, OwnService, RoomForField, CheckedFields, attached
<1>2. CASE \E c \in Client, s \in {"info", "field", "file"}, f \in 0..(MaxFields - 1) : Call(c, s, f)
  BY <1>2, CallStep
<1>3. CASE \E e \in entering : Enqueue(e) \/ NullMaster(e)
  <2>1. PICK e \in entering : Enqueue(e) \/ NullMaster(e)
    BY <1>3
  <2>2. CASE /\ Enqueue(e)
             /\ pool # <<>> /\ attached
             /\ Put(Request(e.client, e.service, e.field))
             /\ owed' = [owed EXCEPT ![e.client] = @ + 1]
    BY <2>1, <2>2, AcceptStep DEF Enqueue
  <2>3. CASE Enqueue(e) /\ pool = <<>> /\ UNCHANGED <<requestVars, owed>>
    BY <2>1, <2>3, RefuseStep DEF Enqueue
  <2>4. CASE NullMaster(e)
    BY <2>4, NullStep
  <2> QED BY <2>1, <2>2, <2>3, <2>4 DEF Enqueue
<1>4. CASE \E p \in air, d \in {Nobody} \union Range(list) : Receive(p, d)
  BY <1>4, ReceiveStep
<1>5. CASE Process \/ Release \/ TimeoutStart \/ AssignStart \/ Tick
  BY <1>5, ProcessStep, ReleaseStep, StartStep, TickStep
<1>6. CASE Timer
  BY <1>6, PopStep, TellStep, FreeStep, EndStep, RetryStep, ResetStep DEF Timer
<1> QED BY <1>1, <1>2, <1>3, <1>4, <1>5, <1>6 DEF Next

\* Served by one thread, the proxy keeps the inductive invariant in every
\* reachable state, whatever the order of calls, responses, timeouts, retries
\* and assignments.
THEOREM Invariance == Threads = 1 => (Spec => []IndInv)
<1> SUFFICES ASSUME Threads = 1
             PROVE  Spec => []IndInv
  OBVIOUS
<1>1. IndInv /\ [Next]_vars => IndInv'
  BY NextStep
<1> QED BY <1>1, InitInvariant, PTL DEF Spec

\* The variables of the proxy keep their types: transfer numbers, retries and
\* the number of fields stay in their bounds.
THEOREM TypeCorrect == Threads = 1 => (Spec => []TypeOK)
<1>1. IndInv => TypeOK
  BY DEF IndInv
<1> QED BY <1>1, Invariance, PTL

\* No request descriptor is lost or handed out twice.
THEOREM DescriptorsKept == Threads = 1 => (Spec => []Ownership)
<1>1. IndInv => Ownership
  BY DEF IndInv
<1> QED BY <1>1, Invariance, PTL

\* A client is called back exactly once for every request that was accepted, unless an
\* assignment of the proxy came between its check and the mutex.
THEOREM CalledBackOnce == Threads = 1 => (Spec => []Accounting)
<1>1. IndInv => Accounting
  BY DEF IndInv
<1> QED BY <1>1, Invariance, PTL

\* With one thread the pool is never given more than it lent out (two threads
\* may free a descriptor twice).
THEOREM PoolBounded == Threads = 1 => (Spec => []PoolNeverOverflows)
<1>1. IndInv => PoolNeverOverflows
  <2> SUFFICES ASSUME IndInv
               PROVE  PoolNeverOverflows
    OBVIOUS
  <2>1. pool \in Seq(1..PoolSize) /\ IsInjective(pool) /\ PoolSize \in Nat
    BY ProxyAssumption DEF IndInv, TypeOK, Ownership, Requests
  <2>2. Len(pool) \in 0..PoolSize
    BY <2>1, Pigeonhole
  <2> QED BY <2>1, <2>2 DEF PoolNeverOverflows
<1> QED BY <1>1, Invariance, PTL

-----------------------------------------------------------------------------
(* Answers. *)

\* What the 5 bits of a transfer number take for granted: a number comes round to a
\* service only when no answer that bears it is on its way, and none is awaited.
NumbersAreFresh ==
  attached =>
    /\ \A p \in air : p.life = life => p.asked.number # numbers[p.asked.service]
    /\ \A d \in Range(list) : desc[d].number # numbers[desc[d].service]

\* The answer that fits a pending request is its own.
Fitting ==
  /\ \A p \in air : p.life <= life
  /\ ~attached => life > 0 /\ \A p \in air : p.life < life
  /\ attached => \A p \in air, d \in Range(list) :
                   p.life = life /\ Answers(d, p) => desc[d] = p.asked

\* The timer only sends for a device that is there.
TimerAttached ==
  /\ timer # "idle" /\ why = "timeout" => attached
  /\ timer = "reset" => why = "detach"

AnswerInv == Fitting /\ TimerAttached /\ OwnLifeAnswers

\* Nothing is sent, and the list at most gets shorter.
LEMMA FittingQuiet ==
  ASSUME Fitting, UNCHANGED <<life, master, desc>>, air' \subseteq air,
         Range(list') \subseteq Range(list)
  PROVE  Fitting'
BY DEF Fitting, attached, Answers

\* A request with its descriptor.
LEMMA FittingPut ==
  ASSUME IndInv, Fitting, NumbersAreFresh, attached, UNCHANGED <<life, master>>,
         pool # <<>>, NEW r \in Descriptor, r.number = numbers[r.service], Put(r)
  PROVE  Fitting'
<1> DEFINE h == Head(pool)
           a == [asked |-> r, life |-> life]
<1>1. /\ h \in Range(pool) /\ Range(list') = Range(list) \union {h}
      /\ desc'[h] = r /\ \A x \in Requests \ {h} : desc'[x] = desc[x]
  BY PutFacts
<1>2. h \notin Range(list) /\ Range(list) \subseteq Requests
  BY <1>1 DEF IndInv, Ownership
<1>3. air' = air \union {a} /\ a.asked = r /\ a.life = life
  BY DEF Put, Transmit
<1>4. attached'
  BY DEF attached
<1>5. \A x \in Range(list) : desc'[x] = desc[x]
  BY <1>1, <1>2
<1> HIDE DEF h, a
<1>6. \A p \in air' : p.life <= life'
  BY <1>3 DEF Fitting, IndInv, TypeOK
<1>7. ASSUME NEW p \in air', NEW d \in Range(list'), p.life = life', Answers(d, p)'
      PROVE  desc'[d] = p.asked
  <2>1. desc'[d].service = p.asked.service /\ desc'[d].number = p.asked.number
    BY <1>7 DEF Answers
  <2>2. CASE p \in air /\ d \in Range(list)
    BY <1>5, <1>7, <2>1, <2>2 DEF Fitting, Answers
  <2>3. CASE p = a /\ d = h
    BY <1>1, <1>3, <2>3
  <2>4. CASE p = a /\ d \in Range(list)
    BY <1>3, <1>5, <2>1, <2>4 DEF NumbersAreFresh
  <2>5. CASE p \in air /\ d = h
    BY <1>1, <1>7, <2>1, <2>5 DEF NumbersAreFresh
  <2> QED BY <1>1, <1>3, <2>2, <2>3, <2>4, <2>5
<1> QED BY <1>4, <1>6, <1>7 DEF Fitting

\* A request for GET_NODE_INFO, which has none: no answer to it fits one.
LEMMA FittingNode ==
  ASSUME IndInv, Fitting, attached, UNCHANGED <<life, master, list, desc>>,
         Transmit(Request(Proxy, "node", 0))
  PROVE  Fitting'
<1> DEFINE a == [asked |-> Request(Proxy, "node", 0), life |-> life]
<1>1. "node" \in Service /\ Proxy \in Client \union {Proxy} /\ TypeOK /\ 0 \in Nat
  BY DEF Service, IndInv
<1>2. air' = air \union {a} /\ a.asked.service = "node" /\ a.life = life
  BY <1>1, RequestFacts DEF Transmit
<1> HIDE DEF a
<1>3. attached'
  BY DEF attached
<1>4. \A d \in Range(list) : desc[d].service # "node"
  BY DEF IndInv, OwnService
<1>5. \A p \in air' : p.life <= life'
  BY <1>1, <1>2 DEF Fitting, TypeOK
<1>6. ASSUME NEW p \in air', NEW d \in Range(list'), p.life = life', Answers(d, p)'
      PROVE  desc'[d] = p.asked
  <2>1. p.asked.service # "node"
    BY <1>4, <1>6 DEF Answers
  <2>2. p \in air
    BY <1>2, <2>1
  <2> QED BY <1>6, <2>2 DEF Fitting, Answers
<1> QED BY <1>3, <1>5, <1>6 DEF Fitting

\* A request of the proxy for a field.
LEMMA FittingField ==
  ASSUME IndInv, Fitting, NumbersAreFresh, attached, UNCHANGED <<life, master>>,
         NEW f \in Nat, SendGetFieldInfo(f)
  PROVE  Fitting'
<1>1. "info" \in Service /\ Proxy \in Client \union {Proxy} /\ TypeOK
  BY DEF Service, IndInv
<1>2. /\ Request(Proxy, "info", f) \in Descriptor
      /\ Request(Proxy, "info", f).service = "info"
      /\ Request(Proxy, "info", f).number = numbers["info"]
  BY <1>1, RequestFacts DEF Request
<1>3. CASE pool # <<>> /\ Put(Request(Proxy, "info", f))
  BY <1>2, <1>3, FittingPut
<1>4. CASE pool = <<>> /\ UNCHANGED requestVars
  BY <1>4, FittingQuiet DEF requestVars
<1> QED BY <1>3, <1>4 DEF SendGetFieldInfo

\* A call that got a descriptor, or that found none.
LEMMA AnswerEnqueue ==
  ASSUME IndInv, AnswerInv, NumbersAreFresh, NEW e \in entering, Enqueue(e)
  PROVE  AnswerInv'
<1> DEFINE r == Request(e.client, e.service, e.field)
<1>1. /\ e.client \in Client /\ e.service \in Service /\ e.field \in Nat /\ TypeOK
  BY DEF IndInv, TypeOK, Entry
<1>2. r \in Descriptor /\ r.service = e.service /\ r.number = numbers[e.service]
  BY <1>1, RequestFacts DEF Request
<1>3. UNCHANGED <<life, master, rx, heard, match, timer, why>>
  BY DEF Enqueue, lifeVars, rxVars, timerVars
<1>4. CASE pool # <<>> /\ attached /\ Put(r)
  <2>1. Fitting'
    BY <1>1, <1>2, <1>3, <1>4, FittingPut DEF AnswerInv
  <2>2. rx # "idle" /\ match # Nobody => desc'[match] = desc[match]
    <3>1. /\ Head(pool) \in Range(pool)
          /\ \A x \in Requests \ {Head(pool)} : desc'[x] = desc[x]
      BY <1>2, <1>4, PutFacts
    <3>2. rx # "idle" /\ match # Nobody => match \in Range(list)
      BY DEF IndInv, ReceiverHolds
    <3>3. Range(list) \subseteq Requests /\ Range(pool) \cap Range(list) = {}
      BY DEF IndInv, Ownership
    <3> QED BY <3>1, <3>2, <3>3
  <2> QED BY <1>3, <2>1, <2>2 DEF AnswerInv, TimerAttached, OwnLifeAnswers, attached
<1>5. CASE UNCHANGED requestVars
  <2>1. Fitting'
    BY <1>3, <1>5, FittingQuiet DEF AnswerInv, requestVars
  <2> QED BY <1>3, <1>5, <2>1 DEF AnswerInv, TimerAttached, OwnLifeAnswers, attached, requestVars
<1> QED BY <1>4, <1>5 DEF Enqueue

\* The receiver finds the request that the response answers.
LEMMA AnswerReceive ==
  ASSUME IndInv, AnswerInv, NEW p \in air, NEW d \in {Nobody} \union Range(list), Receive(p, d)
  PROVE  AnswerInv'
<1>1. /\ rx' = "found" /\ heard' = p /\ match' = d /\ air' = air \ {p} /\ attached
      /\ UNCHANGED <<list, desc, life, master, timer, why>>
  BY DEF Receive, lifeVars, timerVars
<1>2. Fitting'
  BY <1>1, FittingQuiet DEF AnswerInv
<1>3. d # Nobody => d \in Range(list) /\ Answers(d, p)
  BY DEF Receive, Matches, Range
<1>4. p.life <= life /\ p.life \in Nat /\ life \in Nat
  BY DEF AnswerInv, Fitting, IndInv, TypeOK, Packet
<1>5. d # Nobody => desc[d] = p.asked \/ p.life < life
  BY <1>1, <1>3, <1>4 DEF AnswerInv, Fitting
<1> QED BY <1>1, <1>2, <1>5 DEF AnswerInv, TimerAttached, OwnLifeAnswers, attached

\* What a response makes the proxy do.
LEMMA AnswerProcess ==
  ASSUME IndInv, AnswerInv, NumbersAreFresh, Process
  PROVE  AnswerInv'
<1>1. /\ rx = "found" /\ rx' = "done" /\ attached
      /\ UNCHANGED <<life, master, timer, why>>
  BY DEF Process, lifeVars, timerVars, IndInv, CheckedFields
<1>2. fields \in Nat /\ fields + 1 \in Nat
  BY DEF IndInv, TypeOK
<1>3. Untouched \/ UNCHANGED requestVars \/ \E f \in Nat : SendGetFieldInfo(f)
  BY <1>2 DEF Process, HearNode, HearNothing, HearInfo, NextField, HearNoField, HearBadInfo,
     HearField, HearFile
<1>4. Fitting'
  <2>1. CASE UNCHANGED requestVars
    BY <1>1, <2>1, FittingQuiet DEF AnswerInv, requestVars
  <2>2. CASE \E f \in Nat : SendGetFieldInfo(f)
    BY <1>1, <2>2, FittingField DEF AnswerInv
  <2> QED BY <1>3, <2>1, <2>2 DEF Untouched
<1> QED BY <1>1, <1>4 DEF AnswerInv, TimerAttached, OwnLifeAnswers, attached

LEMMA AnswerRelease ==
  ASSUME IndInv, AnswerInv, Release
  PROVE  AnswerInv'
<1>1. /\ rx' = "idle" /\ UNCHANGED <<desc, air, life, master, timer, why>>
  BY DEF Release, lifeVars, timerVars
<1>2. Range(list') \subseteq Range(list)
  <2>1. CASE UNCHANGED list
    BY <2>1
  <2>2. CASE Erase(match)
    <3>1. CASE \E i \in DOMAIN list : list' = RemoveAt(list, i)
      <4>1. PICK i \in DOMAIN list : list' = RemoveAt(list, i)
        BY <3>1
      <4>2. list \in Seq(Requests) /\ IsInjective(list) /\ i \in 1..Len(list)
        BY <4>1, LenProperties DEF IndInv, TypeOK, Ownership
      <4>3. LET q == SubSeq(list, 1, i - 1) \o SubSeq(list, i + 1, Len(list))
            IN  Range(q) = Range(list) \ {list[i]}
        BY <4>2, TakeOut
      <4> QED BY <4>1, <4>3 DEF RemoveAt
    <3> QED BY <2>2, <3>1 DEF Erase
  <2> QED BY <2>1, <2>2 DEF Release
<1>3. Fitting'
  BY <1>1, <1>2, FittingQuiet DEF AnswerInv
<1> QED BY <1>1, <1>3 DEF AnswerInv, TimerAttached, OwnLifeAnswers, attached

\* The steps of the timer that send nothing and attach nothing.
LEMMA AnswerTimer ==
  ASSUME IndInv, AnswerInv, TimeoutStart \/ AssignStart \/ Pop \/ Tell \/ Free \/ TimeoutEnd
         \/ AssignPurged
  PROVE  AnswerInv'
<1>1. /\ UNCHANGED <<desc, air, life, master, rx, heard, match>>
      /\ list' = list \/ (list' = Tail(list) /\ list # <<>>)
      /\ timer' # "idle" /\ why' = "timeout" => attached \/ (timer # "idle" /\ why = "timeout")
      /\ timer' = "reset" => why' = "detach"
  BY DEF TimeoutStart, AssignStart, Pop, Tell, Free, TimeoutEnd, AssignPurged, Purged, Purgeable,
     lifeVars, rxVars, requestVars
<1>2. Range(list') \subseteq Range(list)
  <2>1. list # <<>> => Range(Tail(list)) = Range(list) \ {Head(list)}
    BY TakeFirst DEF IndInv, TypeOK, Ownership
  <2> QED BY <1>1, <2>1
<1>3. Fitting'
  BY <1>1, <1>2, FittingQuiet DEF AnswerInv
<1>4. TimerAttached'
  BY <1>1 DEF AnswerInv, TimerAttached, attached
<1> QED BY <1>1, <1>3, <1>4 DEF AnswerInv, OwnLifeAnswers

LEMMA AnswerRetry ==
  ASSUME IndInv, AnswerInv, NumbersAreFresh, Retry
  PROVE  AnswerInv'
<1>1. /\ timer = "loop" /\ why = "timeout" /\ timer' = "idle" /\ rx' = "idle" /\ rx = "idle"
      /\ UNCHANGED <<life, master, rx>>
  BY DEF Retry, Purged, lifeVars, rxVars, IndInv, TakingTurns
<1>2. attached /\ fields \in Nat
  BY <1>1 DEF AnswerInv, TimerAttached, IndInv, TypeOK
<1>3. Fitting'
  <2>1. CASE Transmit(Request(Proxy, "node", 0)) /\ UNCHANGED <<pool, list, desc, late>>
    BY <1>1, <1>2, <2>1, FittingNode DEF AnswerInv
  <2>2. CASE SendGetFieldInfo(fields)
    BY <1>1, <1>2, <2>2, FittingField DEF AnswerInv
  <2>3. CASE UNCHANGED requestVars
    BY <1>1, <2>3, FittingQuiet DEF AnswerInv, requestVars
  <2> QED BY <2>1, <2>2, <2>3 DEF Retry
<1> QED BY <1>1, <1>3 DEF AnswerInv, TimerAttached, OwnLifeAnswers

\* A device that goes leaves its answers to an earlier life; one that comes finds
\* the list empty.
LEMMA AnswerReset ==
  ASSUME IndInv, AnswerInv, Reset
  PROVE  AnswerInv'
<1>1. /\ timer = "reset" /\ timer' = "idle" /\ rx = "idle" /\ rx' = "idle"
      /\ UNCHANGED <<list, desc, air>>
      /\ life \in Nat /\ \A p \in air : p.life \in Nat
  BY DEF Reset, rxVars, IndInv, TakingTurns, TypeOK, Packet
<1>2. Fitting'
  <2>1. CASE attached
    <3>1. ~attached' /\ life' = life + 1
      BY <2>1 DEF Reset, attached
    <3> QED BY <1>1, <3>1 DEF AnswerInv, Fitting
  <2>2. CASE ~attached
    <3>1. attached' /\ life' = life /\ list = <<>>
      BY <1>1, <2>2 DEF Reset, attached, IndInv, CheckedFields
    <3>2. Range(list') = {}
      BY <1>1, <3>1 DEF Range
    <3> QED BY <1>1, <2>2, <3>1, <3>2 DEF AnswerInv, Fitting
  <2> QED BY <2>1, <2>2
<1> QED BY <1>1, <1>2 DEF AnswerInv, TimerAttached, OwnLifeAnswers

LEMMA AnswerNext ==
  ASSUME Threads = 1, IndInv, AnswerInv, NumbersAreFresh, [Next]_vars
  PROVE  AnswerInv'
<1>1. CASE UNCHANGED vars \/ Tick \/ (\E e \in entering : NullMaster(e))
           \/ \E c \in Client, s \in {"info", "field", "file"}, f \in 0..(MaxFields - 1) : Call(c, s, f)
  <2>1. UNCHANGED <<list, desc, air, life, master, rx, heard, match, timer, why>>
    BY <1>1 DEF vars, Tick, Call, NullMaster, requestVars, lifeVars, rxVars, timerVars
  <2>2. Fitting'
    BY <2>1, FittingQuiet DEF AnswerInv
  <2> QED BY <2>1, <2>2 DEF AnswerInv, TimerAttached, OwnLifeAnswers, attached
<1>2. CASE \E e \in entering : Enqueue(e)
  BY <1>2, AnswerEnqueue
<1>3. CASE \E p \in air, d \in {Nobody} \union Range(list) : Receive(p, d)
  BY <1>3, AnswerReceive
<1>4. CASE Process \/ Release
  BY <1>4, AnswerProcess, AnswerRelease
<1>5. CASE TimeoutStart \/ AssignStart \/ Timer
  BY <1>5, AnswerTimer, AnswerRetry, AnswerReset DEF Timer
<1> QED BY <1>1, <1>2, <1>3, <1>4, <1>5 DEF Next

LEMMA AnswerInit == Init => AnswerInv
<1> SUFFICES ASSUME Init
             PROVE  AnswerInv
  OBVIOUS
<1>1. list = <<>> /\ air = {} /\ master = "set" /\ timer = "idle" /\ rx = "idle"
  BY DEF Init
<1> QED BY <1>1 DEF AnswerInv, Fitting, TimerAttached, OwnLifeAnswers, attached

\* A response concludes the request it was given for, or one of a later device, whatever
\* is lost, late, retried or taken away meanwhile, as long as no transfer number comes
\* round while it is in use.
THEOREM AnswersMeetRequests ==
  Threads = 1 => (Spec /\ []NumbersAreFresh => []OwnLifeAnswers)
<1> SUFFICES ASSUME Threads = 1
             PROVE  Spec /\ []NumbersAreFresh => []OwnLifeAnswers
  OBVIOUS
<1>1. IndInv /\ AnswerInv /\ NumbersAreFresh /\ [Next]_vars => AnswerInv'
  BY AnswerNext
<1>2. AnswerInv => OwnLifeAnswers
  BY DEF AnswerInv
<1>3. Spec => []IndInv
  BY Invariance
<1> QED BY <1>1, <1>2, <1>3, AnswerInit, PTL DEF Spec

-----------------------------------------------------------------------------
(* The image of the first device. *)

\* Nothing asks for a field beyond the next one, and the next one is none beyond those
\* that the device has.
FirstImage ==
  /\ life = 0 /\ attached
  /\ fields <= DeviceFields
  /\ state = "ready" /\ retries > 0 => fields = SmallerOf(DeviceFields, MaxFields)
  /\ \A p \in air : p.asked.service = "info" => p.asked.field <= fields
  /\ rx = "found" /\ heard.asked.service = "info" => heard.asked.field <= fields
  /\ \A e \in entering : e.service = "info" => e.field < fields

ImageInv == life > 0 \/ FirstImage

LEMMA FieldNumbers ==
  ASSUME IndInv
  PROVE  /\ fields \in Nat /\ DeviceFields \in Nat /\ MaxFields \in Nat /\ fields <= MaxFields
         /\ retries \in Nat /\ life \in Nat
         /\ \A p \in air : p.asked.field \in Nat
         /\ heard.asked.field \in Nat
         /\ \A e \in entering : e.field \in Nat
<1>1. /\ fields \in 0..MaxFields /\ retries \in 0..MaxRetries /\ life \in Nat
      /\ heard \in Packet /\ air \in SUBSET Packet /\ entering \in SUBSET Entry
  BY DEF IndInv, TypeOK
<1>2. \A p \in Packet : p.asked.field \in Nat
  BY DEF Packet, Descriptor
<1>3. \A e \in Entry : e.field \in Nat
  BY DEF Entry
<1> QED BY <1>1, <1>2, <1>3, ProxyAssumption

\* The image stays as it is, and no field is asked for.
LEMMA ImageQuiet ==
  ASSUME FirstImage, UNCHANGED <<life, master, fields, state, retries>>, air' \subseteq air,
         rx' = "found" => rx = "found" /\ heard' = heard, entering' \subseteq entering
  PROVE  FirstImage'
BY DEF FirstImage, attached

\* A request for a field up to the next.
LEMMA AirPut ==
  ASSUME IndInv, NEW n \in Nat, \A p \in air : p.asked.service = "info" => p.asked.field <= n,
         NEW r \in Descriptor, r.service = "info" => r.field <= n, Transmit(r)
  PROVE  \A p \in air' : p.asked.service = "info" => p.asked.field <= n
BY DEF Transmit

LEMMA AirField ==
  ASSUME IndInv, NEW n \in Nat, \A p \in air : p.asked.service = "info" => p.asked.field <= n,
         NEW f \in 0..n, SendGetFieldInfo(f)
  PROVE  \A p \in air' : p.asked.service = "info" => p.asked.field <= n
<1>1. "info" \in Service /\ Proxy \in Client \union {Proxy} /\ TypeOK /\ f \in Nat
  BY DEF Service, IndInv
<1>2. Request(Proxy, "info", f) \in Descriptor /\ Request(Proxy, "info", f).field = f
  BY <1>1, RequestFacts
<1>3. CASE Put(Request(Proxy, "info", f))
  <2>1. Transmit(Request(Proxy, "info", f))
    BY <1>3 DEF Put
  <2> QED BY <1>2, <2>1, AirPut
<1>4. CASE UNCHANGED requestVars
  BY <1>4 DEF requestVars
<1> QED BY <1>3, <1>4 DEF SendGetFieldInfo

LEMMA ImageEnqueue ==
  ASSUME IndInv, FirstImage, NEW e \in entering, Enqueue(e)
  PROVE  FirstImage'
<1>1. /\ UNCHANGED <<life, master, fields, state, retries, rx, heard>> /\ entering' = entering \ {e}
  BY DEF Enqueue, lifeVars, rxVars, initVars
<1>2. /\ e.client \in Client /\ e.service \in Service /\ e.field \in Nat /\ TypeOK
  BY DEF IndInv, TypeOK, Entry
<1>3. /\ Request(e.client, e.service, e.field) \in Descriptor
      /\ Request(e.client, e.service, e.field).service = e.service
      /\ Request(e.client, e.service, e.field).field = e.field
  BY <1>2, RequestFacts
<1>4. fields \in Nat /\ (e.service = "info" => e.field <= fields)
  BY <1>2, FieldNumbers DEF FirstImage
<1>5. \A p \in air' : p.asked.service = "info" => p.asked.field <= fields
  <2>1. \A p \in air : p.asked.service = "info" => p.asked.field <= fields
    BY DEF FirstImage
  <2>2. CASE Put(Request(e.client, e.service, e.field))
    <3>1. Transmit(Request(e.client, e.service, e.field))
      BY <2>2 DEF Put
    <3> QED BY <1>3, <1>4, <2>1, <3>1, AirPut
  <2>3. CASE UNCHANGED requestVars
    BY <2>1, <2>3 DEF requestVars
  <2> QED BY <2>2, <2>3 DEF Enqueue
<1> QED BY <1>1, <1>5 DEF FirstImage, attached

\* The field that is next gets its answer.
LEMMA ImageNext ==
  ASSUME IndInv, OwnLifeAnswers, FirstImage, rx = "found", HearInfo, NextField
  PROVE  /\ fields' = fields + 1 /\ fields' <= DeviceFields
         /\ state' = "ready" => fields' = SmallerOf(DeviceFields, MaxFields)
         /\ \A p \in air' : p.asked.service = "info" => p.asked.field <= fields'
<1>1. /\ fields' = fields + 1 /\ desc[match].field = fields /\ state = "fields"
      /\ heard.asked.field < DeviceFields /\ match # Nobody
  BY DEF NextField, HearInfo, Found
<1>2. desc[match] = heard.asked
  <2>1. heard.life \in Nat /\ life = 0
    BY DEF IndInv, TypeOK, Packet, FirstImage
  <2> QED BY <1>1, <2>1 DEF OwnLifeAnswers
<1>3. fields < DeviceFields /\ fields' <= DeviceFields
  BY <1>1, <1>2, FieldNumbers
<1>4. state' = "ready" => fields' = MaxFields
  BY <1>1, ProxyAssumption DEF NextField
<1>5. MaxFields <= DeviceFields => SmallerOf(DeviceFields, MaxFields) = MaxFields
  BY FieldNumbers DEF SmallerOf
<1>6. \A p \in air' : p.asked.service = "info" => p.asked.field <= fields + 1
  <2>1. \A p \in air : p.asked.service = "info" => p.asked.field <= fields + 1
    BY FieldNumbers DEF FirstImage
  <2>2. fields + 1 \in Nat /\ fields + 1 \in 0..(fields + 1)
    BY FieldNumbers
  <2>3. CASE SendGetFieldInfo(fields + 1)
    BY <2>1, <2>2, <2>3, AirField
  <2>4. CASE UNCHANGED requestVars
    BY <2>1, <2>4 DEF requestVars
  <2> QED BY <2>3, <2>4 DEF NextField
<1> QED BY <1>1, <1>3, <1>4, <1>5, <1>6

LEMMA ImageProcess ==
  ASSUME IndInv, OwnLifeAnswers, FirstImage, Process
  PROVE  FirstImage'
<1>1. rx = "found" /\ rx' = "done" /\ UNCHANGED <<life, master, entering>>
  BY DEF Process, lifeVars, clientVars
<1>2. CASE HearInfo /\ NextField
  <2>1. /\ fields' = fields + 1 /\ fields' <= DeviceFields
        /\ state' = "ready" => fields' = SmallerOf(DeviceFields, MaxFields)
        /\ \A p \in air' : p.asked.service = "info" => p.asked.field <= fields'
    BY <1>1, <1>2, ImageNext
  <2>2. \A e \in entering' : e.service = "info" => e.field < fields'
    <3>1. \A e \in entering : e.service = "info" => e.field < fields
      BY DEF FirstImage
    <3> QED BY <1>1, <2>1, <3>1, FieldNumbers
  <2>3. life' = 0 /\ attached'
    BY <1>1 DEF FirstImage, attached
  <2> QED BY <1>1, <2>1, <2>2, <2>3 DEF FirstImage
<1>3. CASE HearNoField
  <2>1. /\ heard.asked.field >= DeviceFields /\ heard.asked.service = "info"
        /\ state' = IF state = "fields" THEN "ready" ELSE state
        /\ UNCHANGED <<retries, fields, requestVars>>
    BY <1>3 DEF HearNoField, Found
  <2>2. fields = DeviceFields /\ fields <= MaxFields
    BY <1>1, <2>1, FieldNumbers DEF FirstImage
  <2>3. fields = SmallerOf(DeviceFields, MaxFields)
    BY <2>2, FieldNumbers DEF SmallerOf
  <2>4. life' = 0 /\ attached' /\ air' = air
    BY <1>1, <2>1 DEF FirstImage, attached, requestVars
  <2> QED BY <1>1, <2>1, <2>2, <2>3, <2>4 DEF FirstImage
<1>4. CASE HearNode /\ SendGetFieldInfo(0) /\ UNCHANGED fields /\ state' = "fields"
  <2>1. fields \in Nat /\ 0 \in 0..fields
    BY FieldNumbers
  <2>2. \A p \in air : p.asked.service = "info" => p.asked.field <= fields
    BY DEF FirstImage
  <2>3. \A p \in air' : p.asked.service = "info" => p.asked.field <= fields
    BY <1>4, <2>1, <2>2, AirField
  <2>4. life' = 0 /\ attached' /\ fields' = fields
    BY <1>1, <1>4 DEF FirstImage, attached
  <2> QED BY <1>1, <1>4, <2>3, <2>4 DEF FirstImage
<1>5. CASE Untouched
  BY <1>1, <1>5, ImageQuiet DEF Untouched, initVars, requestVars
<1> QED BY <1>1, <1>2, <1>3, <1>4, <1>5
     DEF Process, HearInfo, HearNode, HearNothing, HearBadInfo, HearField, HearFile

LEMMA ImageRetry ==
  ASSUME IndInv, FirstImage, Retry
  PROVE  FirstImage'
<1>1. /\ UNCHANGED <<life, master, fields, rx, heard, entering>> /\ state \in {"node", "fields"}
  BY DEF Retry, lifeVars, rxVars, clientVars
<1>2. state' = "ready" /\ retries' > 0 => FALSE
  BY <1>1 DEF Retry
<1>3. \A p \in air' : p.asked.service = "info" => p.asked.field <= fields
  <2>1. fields \in Nat /\ fields \in 0..fields
    BY FieldNumbers
  <2>2. \A p \in air : p.asked.service = "info" => p.asked.field <= fields
    BY DEF FirstImage
  <2>3. CASE SendGetFieldInfo(fields)
    BY <2>1, <2>2, <2>3, AirField
  <2>4. CASE Transmit(Request(Proxy, "node", 0))
    <3>1. "node" \in Service /\ Proxy \in Client \union {Proxy} /\ TypeOK /\ 0 \in Nat
      BY DEF Service, IndInv
    <3>2. Request(Proxy, "node", 0) \in Descriptor /\ Request(Proxy, "node", 0).service = "node"
      BY <3>1, RequestFacts
    <3> QED BY <2>1, <2>2, <2>4, <3>2, AirPut
  <2>5. CASE UNCHANGED requestVars
    BY <2>2, <2>5 DEF requestVars
  <2> QED BY <2>3, <2>4, <2>5 DEF Retry
<1> QED BY <1>1, <1>2, <1>3 DEF FirstImage, attached

LEMMA ImageNextStep ==
  ASSUME Threads = 1, IndInv, AnswerInv, ImageInv, [Next]_vars
  PROVE  ImageInv'
<1>1. life \in Nat
  BY FieldNumbers
<1>2. CASE Reset
  <2>1. life' = IF attached THEN life + 1 ELSE life
    BY <1>2 DEF Reset
  <2>2. ~attached => life > 0
    BY DEF AnswerInv, Fitting
  <2> QED BY <1>1, <2>1, <2>2 DEF ImageInv
<1>3. ~Reset => life' = life
  BY DEF Next, vars, lifeVars, Call, Enqueue, NullMaster, Receive, Process, Release, TimeoutStart, AssignStart,
     Timer, Pop, Tell, Free, TimeoutEnd, Retry, AssignPurged, Tick
<1>4. ASSUME FirstImage, ~Reset
      PROVE  FirstImage'
  <2>1. CASE UNCHANGED vars \/ Tick \/ (\E e \in entering : NullMaster(e))
             \/ Release \/ TimeoutStart \/ AssignStart
             \/ Pop \/ Tell \/ Free \/ TimeoutEnd \/ AssignPurged
    <3>1. /\ UNCHANGED <<life, master, fields, state, retries, air, entering>>
          /\ rx' = "found" => rx = "found" /\ heard' = heard
      BY <2>1 DEF vars, Tick, NullMaster, Release, TimeoutStart, AssignStart, Pop, Tell, Free, TimeoutEnd,
         AssignPurged, requestVars, initVars, lifeVars, rxVars, timerVars, clientVars
    <3> QED BY <1>4, <3>1, ImageQuiet
  <2>2. CASE \E c \in Client, s \in {"info", "field", "file"}, f \in 0..(MaxFields - 1) : Call(c, s, f)
    <3>1. PICK c \in Client, s \in {"info", "field", "file"}, f \in 0..(MaxFields - 1) : Call(c, s, f)
      BY <2>2
    <3>2. /\ UNCHANGED <<life, master, fields, state, retries, air, rx, heard>>
          /\ entering' = entering \union {[client |-> c, service |-> s, field |-> f]}
          /\ s = "info" => f < fields
      BY <3>1 DEF Call, requestVars, initVars, lifeVars, rxVars
    <3> QED BY <1>4, <3>2 DEF FirstImage, attached
  <2>3. CASE \E e \in entering : Enqueue(e)
    BY <1>4, <2>3, ImageEnqueue
  <2>4. CASE \E p \in air, d \in {Nobody} \union Range(list) : Receive(p, d)
    <3>1. PICK p \in air, d \in {Nobody} \union Range(list) : Receive(p, d)
      BY <2>4
    <3>2. /\ UNCHANGED <<life, master, fields, state, retries, entering>>
          /\ air' = air \ {p} /\ heard' = p
      BY <3>1 DEF Receive, initVars, lifeVars, clientVars
    <3> QED BY <1>4, <3>2 DEF FirstImage, attached
  <2>5. CASE Process
    BY <1>4, <2>5, ImageProcess DEF AnswerInv
  <2>6. CASE Retry
    BY <1>4, <2>6, ImageRetry
  <2> QED BY <1>4, <2>1, <2>2, <2>3, <2>4, <2>5, <2>6 DEF Next, Timer
<1> QED BY <1>1, <1>2, <1>3, <1>4 DEF ImageInv

LEMMA ImageInit == Init => ImageInv
<1> SUFFICES ASSUME Init
             PROVE  ImageInv
  OBVIOUS
<1>1. /\ air = {} /\ master = "set" /\ rx = "idle" /\ entering = {} /\ life = 0 /\ fields = 0
      /\ state = "node"
  BY DEF Init
<1>2. DeviceFields \in Nat
  BY ProxyAssumption
<1> QED BY <1>1, <1>2 DEF ImageInv, FirstImage, attached

\* The image of the first device, when it is handed to the hub with retries left, lists
\* every field there is room for, neither fewer nor more, as long as no transfer number
\* comes round while it is in use.
THEOREM ImageComplete ==
  Threads = 1 => (Spec /\ []NumbersAreFresh => []ReadyIsComplete)
<1> SUFFICES ASSUME Threads = 1
             PROVE  Spec /\ []NumbersAreFresh => []ReadyIsComplete
  OBVIOUS
<1>1. IndInv /\ AnswerInv /\ NumbersAreFresh /\ [Next]_vars => AnswerInv'
  BY AnswerNext
<1>2. IndInv /\ AnswerInv /\ ImageInv /\ [Next]_vars => ImageInv'
  BY ImageNextStep
<1>3. ImageInv => ReadyIsComplete
  BY DEF ImageInv, FirstImage, ReadyIsComplete
<1>4. Spec => []IndInv
  BY Invariance
<1> QED BY <1>1, <1>2, <1>3, <1>4, AnswerInit, ImageInit, PTL DEF Spec
==============================================================================
