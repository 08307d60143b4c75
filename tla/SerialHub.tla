------------------------------ MODULE SerialHub ------------------------------
(***************************************************************************)
(* The serial slave: SerialHandler takes a descriptor from its RequestPool *)
(* for every packet, hands the packet to the StaticDeviceHub, and returns  *)
(* the descriptor when a device calls back.  The packets of one handler    *)
(* and the callbacks of its devices run one at a time.                     *)
(*                                                                         *)
(* Six of the commands read or write a field or a file: they differ in the *)
(* bytes they carry only and are one operation here.  GET_DEVICE_INFO is   *)
(* the other: its callback runs once per element of the hub, so each       *)
(* element is a step.                                                      *)
(***************************************************************************)
EXTENDS Integers, Sequences, FiniteSets, Functions

CONSTANTS
  PoolSize,   \* kMaxPendingRequests
  Devices,    \* number of elements of the hub
  Address,    \* bus addresses a packet may name
  Reserved,   \* kDeviceReservedId: every device, or a device without address
  Number      \* sequence numbers the host gives its packets

ASSUME SizeAssumption ==
  /\ PoolSize \in Nat \ {0}
  /\ Devices \in 1..255
  /\ Reserved \notin Address
  /\ 0 \in Number

VARIABLES
  pool,      \* the free descriptors, in the order they are given out
  request,   \* the descriptors
  held,      \* those a device keeps to call back later
  address,   \* address of each element of the hub
  pc, index, token, asked,   \* the device information request in progress
  named,     \* responses sent for it
  owed       \* history: data requests taken and not concluded, by header

infoVars == <<pc, index, token, asked, named>>
vars     == <<pool, request, held, address, infoVars, owed>>

Requests == 1..PoolSize
Elements == 1..Devices
Target   == Address \union {Reserved}
Header   == [number : Number, address : Target]

Descriptor == [destination : Target, refs : 0..255, number : Number]

-----------------------------------------------------------------------------
(* RequestPool and RefCounter. *)

\* Slip: the number of the previous owner survives.
FreshStale(n, a, old) == [destination |-> a, refs |-> 0, number |-> old.number]

\* A descriptor as alloc() constructs it over whatever it held.
Fresh(n, a, old) == [destination |-> a, refs |-> 0, number |-> n]

Allocated(n, a) ==
  [request EXCEPT ![Head(pool)] = Fresh(n, a, request[Head(pool)])]

\* Slip: the reference count is not looked at.
ReturnedAlways(queue, d, refs) == Append(queue, d)

\* free() keeps a descriptor that still has references.
Returned(queue, d, refs) == IF refs = 0 THEN Append(queue, d) ELSE queue

\* The header of the response made from a descriptor.
Reply(r) == [number |-> r.number, address |-> r.destination]

Owe(h)             == [owed EXCEPT ![h] = @ + 1]
Settled(credit, h) == [credit EXCEPT ![h] = @ - 1]

-----------------------------------------------------------------------------
Init ==
  /\ pool = [i \in Requests |-> i]
  /\ request = [d \in Requests |-> Fresh(0, Reserved, [number |-> 0])]
  /\ held = {}
  /\ address \in [Elements -> Target]
  /\ pc = "idle" /\ index = 1 /\ token = 1
  /\ asked = [number |-> 0, address |-> Reserved] /\ named = <<>>
  /\ owed = [h \in Header |-> 0]

\* A device is given another address, or loses it.
Assign(i, a) ==
  /\ pc = "idle"
  /\ address' = [address EXCEPT ![i] = a]
  /\ UNCHANGED <<pool, request, held, infoVars, owed>>

\* The element a data request reaches: the first one with that address.
Reaches(a) == \E i \in Elements : address[i] = a

\* A packet arrives.  With no descriptor left it is dropped without an answer,
\* which changes nothing.
Accepts == pc = "idle" /\ pool # <<>>

\* Slip: the descriptor of a packet that is not handled is forgotten.
IgnoreForget(n, a) ==
  /\ Accepts
  /\ request' = Allocated(n, a)
  /\ pool' = Tail(pool)
  /\ UNCHANGED <<held, address, infoVars, owed>>

\* An unknown command, a length that does not fit the command, or an address
\* no element has: the descriptor goes back at once and nothing is sent.
Ignore(n, a) ==
  /\ Accepts
  /\ request' = Allocated(n, a)
  /\ pool' = Returned(Tail(pool), Head(pool), 0)
  /\ UNCHANGED <<held, address, infoVars, owed>>

\* The device answers inside the call, as InternalDevice always does.
Answer(n, a) ==
  /\ Accepts /\ Reaches(a)
  /\ request' = Allocated(n, a)
  /\ owed' = Settled(Owe([number |-> n, address |-> a]), Reply(request'[Head(pool)]))
  /\ pool' = Returned(Tail(pool), Head(pool), request'[Head(pool)].refs)
  /\ UNCHANGED <<held, address, infoVars>>

\* The device keeps the token and calls back later, as CanProxy does.
Queue(n, a) ==
  /\ Accepts /\ Reaches(a)
  /\ request' = Allocated(n, a)
  /\ owed' = Owe([number |-> n, address |-> a])
  /\ pool' = Tail(pool)
  /\ held' = held \union {Head(pool)}
  /\ UNCHANGED <<address, infoVars>>

\* Slip: the callback answers and leaves the token with the device.
CompleteTwice(d) ==
  /\ pc = "idle" /\ d \in held
  /\ owed' = Settled(owed, Reply(request[d]))
  /\ pool' = Returned(pool, d, request[d].refs)
  /\ UNCHANGED <<held, request, address, infoVars>>

\* A late callback: data, an error or a timeout.
Complete(d) ==
  /\ pc = "idle" /\ d \in held
  /\ owed' = Settled(owed, Reply(request[d]))
  /\ pool' = Returned(pool, d, request[d].refs)
  /\ held' = held \ {d}
  /\ UNCHANGED <<request, address, infoVars>>

\* GET_DEVICE_INFO: the hub is walked from its first element.
AskInfo(n, a) ==
  /\ Accepts
  /\ request' = Allocated(n, a)
  /\ pool' = Tail(pool)
  /\ pc' = "hub" /\ index' = 1 /\ token' = Head(pool)
  /\ asked' = [number |-> n, address |-> a] /\ named' = <<>>
  /\ UNCHANGED <<held, address, owed>>

Names(i) == address[i] # Reserved /\ asked.address \in {Reserved, address[i]}

\* One element of the hub: it leaves its address and its place in the token,
\* and the callback answers with them.
Inform ==
  /\ pc = "hub" /\ Names(index)
  /\ request' = [request EXCEPT ![token] =
                   [@ EXCEPT !.destination = address[index], !.refs = index - 1]]
  /\ named' = Append(named, Reply(request'[token]))
  /\ pool' = Returned(pool, token, index - 1)

Skip ==
  /\ pc = "hub" /\ ~Names(index)
  /\ UNCHANGED <<request, named, pool>>

\* Slip: the last element is not visited.
AdvanceShort ==
  IF asked.address = Reserved /\ index < Devices - 1
  THEN pc' = "hub" /\ index' = index + 1
  ELSE pc' = "idle" /\ UNCHANGED index

\* Only a request to every device goes on to the next element.
Advance ==
  IF asked.address = Reserved /\ index < Devices
  THEN pc' = "hub" /\ index' = index + 1
  ELSE pc' = "idle" /\ UNCHANGED index

Visit ==
  /\ Inform \/ Skip
  /\ Advance
  /\ UNCHANGED <<held, address, token, asked, owed>>

Next ==
  \/ \E n \in Number, a \in Target :
       Ignore(n, a) \/ Answer(n, a) \/ Queue(n, a) \/ AskInfo(n, a)
  \/ \E d \in Requests : Complete(d)
  \/ Visit
  \/ \E i \in Elements, a \in Target : Assign(i, a)

Spec == Init /\ [][Next]_vars

-----------------------------------------------------------------------------
(* Properties. *)

TypeOK ==
  /\ pool \in Seq(Requests) /\ Len(pool) \in 0..PoolSize
  /\ request \in [Requests -> Descriptor]
  /\ held \in SUBSET Requests
  /\ address \in [Elements -> Target]
  /\ pc \in {"idle", "hub"} /\ index \in Elements /\ token \in Requests
  /\ asked \in Header /\ named \in Seq(Header)
  /\ owed \in [Header -> Int]

\* A descriptor never has two owners, although the callback of the first
\* element of the hub returns it (RequestPool.hpp:44-49) while the walk goes on
\* using it: the next packet cannot be given a token that a device holds, and
\* the queue of free descriptors never exceeds its capacity (Queue.hpp:50).
SingleOwner == IsInjective(pool) /\ Range(pool) \cap held = {}

\* The descriptors devices hold for requests with one header.
Keeping(h) == {d \in held : Reply(request[d]) = h}

\* The descriptors held by devices account exactly for the data requests that
\* were taken and not concluded, with the number and the address the host gave:
\* no callback answers for another request, or twice, whatever the order of
\* late callbacks, broadcasts and new packets (SerialHandler.hpp:318-334).
AnswersMatch == \A h \in Header : owed[h] = Cardinality(Keeping(h))

\* The inductive invariant: the walk of the hub owns its token until the first
\* element returned it, and a device never sees a reference count but zero.
WalkOwnsToken ==
  pc = "hub" => token \notin held /\ (index = 1 => token \notin Range(pool))

HeldUncounted == \A d \in held : request[d].refs = 0

IndInv == TypeOK /\ SingleOwner /\ WalkOwnsToken /\ HeldUncounted /\ AnswersMatch

\* The elements among the first m of the hub that a broadcast addresses.
Addressed(m) == {i \in 1..m : address[i] # Reserved}

\* What a broadcast must be answered with by then: one response per addressed
\* element, at its place among them.
Introduced(responses, m) ==
  /\ Len(responses) = Cardinality(Addressed(m))
  /\ \A i \in Addressed(m) :
       responses[Cardinality(Addressed(i))] = [number |-> asked.number, address |-> address[i]]

\* A broadcast GET_DEVICE_INFO ends with every addressed element of the hub
\* having answered once, under its own address and with the host's number,
\* although all of them share one descriptor that is already free
\* (StaticDeviceHub.hpp:81-98).
BroadcastComplete ==
  [][pc = "hub" /\ pc' = "idle" /\ asked.address = Reserved
       => Introduced(named', Devices)]_vars

\* Descriptors that are neither free nor held by a device.
Lost == Requests \ (held \union Range(pool))

\* Every field and file command, every packet that is ignored and every callback
\* of a device gives back what it took: only the walk of GET_DEVICE_INFO, whose
\* return of the descriptor hangs on the reference count the hub leaves in it
\* (StaticDeviceHub.hpp:87), can lose one.
OnlyInfoLoses == [][Lost' # Lost => "hub" \in {pc, pc'}]_vars

\* What the library's comments and names say of the pool: it holds the requests
\* that are pending.  While nothing is pending, a packet finds a descriptor.
NeverDeaf == pc = "idle" /\ held = {} => pool # <<>>
=============================================================================
