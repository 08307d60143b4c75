------------------------------ MODULE CanProxy -------------------------------
(***************************************************************************)
(* CanProxy: the master's image of a remote device.  Client threads put    *)
(* requests on a list, the receiver thread matches responses with them,    *)
(* the timer thread purges the ones past their deadline and drives the     *)
(* initialisation of the image by retries.  A mutex guards the pool and    *)
(* the list, never a callback: a step here is what runs between two locks. *)
(*                                                                         *)
(* Reads and writes of a field, and the three file services, treat their   *)
(* descriptors alike and are one service each.                             *)
(***************************************************************************)
EXTENDS Integers, Sequences, FiniteSets, SequencesExt

CONSTANTS
  Client,        \* observers; each makes one call at a time
  Proxy,         \* the null observer of the proxy's own requests
  PoolSize,      \* maxRequestCount
  MaxFields,     \* maxFieldCount
  DeviceFields,  \* fields the remote device has
  MaxRetries,    \* kMaxRetries
  Numbers,       \* transfer numbers, a 5 bit field of the bus
  Threads,       \* 1: one thread receives and purges; 2: one thread each
  MaxCalls,      \* bound: calls of one client
  MaxLives       \* bound: how often a device is taken away from the proxy

ASSUME ProxyAssumption ==
  /\ Proxy \notin Client
  /\ {PoolSize, MaxFields, Numbers} \subseteq Nat \ {0}
  /\ {DeviceFields, MaxRetries, MaxCalls, MaxLives} \subseteq Nat
  /\ Threads \in {1, 2}

VARIABLES
  pool, list,             \* free descriptors; descriptors of pending requests
  desc, late,             \* the descriptors; those past their deadline
  numbers,                \* next transfer number of each service
  state, retries, fields, \* initialisation of the image
  master, life,           \* null without a device; history: which device
  overtaken,              \* history: clients whose call met an assignment before the mutex
  crashed,                \* the null master was used
  rx, heard, match,       \* receiver: stage, response, descriptor found
  timer, why, taken,      \* timer: stage, reason of the purge, descriptor
  entering,               \* calls past their checks and before the mutex
  calls, owed,            \* history: calls made, callbacks due, by client
  air                     \* responses that may still arrive; a lost one never does

requestVars == <<pool, list, desc, late, numbers, air>>
initVars    == <<state, retries, fields>>
lifeVars    == <<master, life, overtaken, crashed>>
rxVars      == <<rx, heard, match>>
timerVars   == <<timer, why, taken>>
clientVars  == <<entering, calls>>
vars == <<requestVars, initVars, lifeVars, rxVars, timerVars, clientVars, owed>>

Requests == 1..PoolSize
Nobody   == 0
attached == master = "set"
Service  == {"node", "info", "field", "file"}

Descriptor ==
  [owner : Client \union {Proxy}, call : Nat, service : Service,
   number : 0..(Numbers - 1), field : Nat]

Packet == [asked : Descriptor, life : Nat]

Entry == [client : Client, service : Service \ {"node"}, field : 0..(MaxFields - 1)]

\* A request as ProxyRequestDescriptor is constructed.
Request(o, s, f) ==
  [owner |-> o, call |-> IF o = Proxy THEN 0 ELSE calls[o], service |-> s,
   number |-> numbers[s], field |-> f]

\* The observer's callback; the proxy's own requests have none.
Callback(o) == owed' = IF o = Proxy THEN owed ELSE [owed EXCEPT ![o] = @ - 1]

Unused   == [owner |-> Proxy, call |-> 0, service |-> "file", number |-> 0, field |-> 0]
NoPacket == [asked |-> Unused, life |-> 0]

-----------------------------------------------------------------------------
Init ==
  /\ pool = [i \in Requests |-> i] /\ list = <<>>
  /\ desc = [d \in Requests |-> Unused]
  /\ late = {}
  /\ numbers = [s \in Service |-> 0]
  /\ state = "node" /\ retries = MaxRetries /\ fields = 0
  /\ master = "set" /\ life = 0 /\ overtaken = {} /\ crashed = FALSE
  /\ rx = "idle" /\ match = Nobody /\ heard = NoPacket
  /\ timer = "idle" /\ why = "timeout" /\ taken = 1
  /\ entering = {}
  /\ calls = [c \in Client |-> 0] /\ owed = [c \in Client |-> 0]
  /\ air = {}

-----------------------------------------------------------------------------
(* Requests. *)

Transmit(r) ==
  /\ numbers' = [numbers EXCEPT ![r.service] = (@ + 1) % Numbers]
  /\ air' = air \union {[asked |-> r, life |-> life]}

\* Under the mutex: a descriptor is taken, queued and the request sent.
Put(r) ==
  /\ desc' = [desc EXCEPT ![Head(pool)] = r]
  /\ late' = late \ {Head(pool)}
  /\ pool' = Tail(pool)
  /\ list' = Append(list, Head(pool))
  /\ Transmit(r)

\* Without a free descriptor nothing is sent, and nothing says so.
SendGetFieldInfo(f) ==
  \/ pool # <<>> /\ Put(Request(Proxy, "info", f))
  \/ pool = <<>> /\ UNCHANGED requestVars

\* A client calls: the checks before the mutex.  A call they turn down gets its
\* error at once and changes nothing.
Call(c, s, f) ==
  /\ attached
  /\ \A e \in entering : e.client # c
  /\ s \in {"info", "field"} => f < fields
  /\ s = "file" => f = 0
  /\ calls[c] < MaxCalls
  /\ entering' = entering \union {[client |-> c, service |-> s, field |-> f]}
  /\ calls' = [calls EXCEPT ![c] = @ + 1]
  /\ UNCHANGED <<requestVars, initVars, lifeVars, rxVars, timerVars, owed>>

\* Slip: with no descriptor left the client hears nothing.
EnqueueSilent(e) ==
  /\ e \in entering
  /\ entering' = entering \ {e}
  /\ owed' = [owed EXCEPT ![e.client] = @ + 1]
  /\ \/ pool # <<>> /\ attached /\ Put(Request(e.client, e.service, e.field))
     \/ pool = <<>> /\ UNCHANGED requestVars
  /\ UNCHANGED <<calls, initVars, lifeVars, rxVars, timerVars>>

\* The rest of the call; with no descriptor left the client gets QUEUE_ERROR.
Enqueue(e) ==
  /\ e \in entering
  /\ entering' = entering \ {e}
  /\ \/ /\ pool # <<>> /\ attached
        /\ Put(Request(e.client, e.service, e.field))
        /\ owed' = [owed EXCEPT ![e.client] = @ + 1]
     \/ /\ pool = <<>>
        /\ UNCHANGED <<requestVars, owed>>
  /\ UNCHANGED <<calls, initVars, lifeVars, rxVars, timerVars>>

\* The master was tested before the mutex, and an assignment has cleared it since: the
\* request is sent through a null pointer, and what follows is undefined.
NullMaster(e) ==
  /\ e \in entering /\ pool # <<>> /\ ~attached
  /\ crashed' = TRUE
  /\ UNCHANGED <<requestVars, initVars, master, life, overtaken, rxVars, timerVars, clientVars, owed>>

\* A deadline passes.  Deadlines are taken under the mutex, so that they pass in
\* the order of the list.
Tick ==
  /\ \E i \in DOMAIN list :
       /\ list[i] \notin late
       /\ \A k \in 1..(i - 1) : list[k] \in late
       /\ late' = late \union {list[i]}
  /\ UNCHANGED <<pool, list, desc, numbers, air, initVars, lifeVars, rxVars,
                 timerVars, clientVars, owed>>

-----------------------------------------------------------------------------
(* The receiver. *)

\* Slip: any request of that service will do.
AnswersAny(d, p) == desc[d].service = p.asked.service

Answers(d, p) == desc[d].service = p.asked.service /\ desc[d].number = p.asked.number

\* The first pending request of that type and number, if there is one.
Matches(p, d) ==
  \/ \E i \in DOMAIN list :
       /\ d = list[i] /\ Answers(d, p)
       /\ \A k \in 1..(i - 1) : ~Answers(list[k], p)
  \/ d = Nobody /\ \A e \in Range(list) : ~Answers(e, p)

\* One thread receives and purges in turn, or there is a thread for each.
MayReceive == rx = "idle" /\ (Threads = 2 \/ timer = "idle")
MayPurge   == timer = "idle" /\ (Threads = 2 \/ rx = "idle")

\* A response arrives; its request is looked up and the mutex given back.
Receive(p, d) ==
  /\ MayReceive /\ attached
  /\ p \in air /\ Matches(p, d)
  /\ air' = air \ {p}
  /\ rx' = "found" /\ heard' = p /\ match' = d
  /\ UNCHANGED <<pool, list, desc, late, numbers, initVars, lifeVars, timerVars,
                 clientVars, owed>>

Untouched == UNCHANGED <<requestVars, initVars>>

\* GET_NODE_INFO: on with the fields, unless the packet is too short.
HearNode ==
  /\ heard.asked.service = "node"
  /\ UNCHANGED owed
  /\ \/ /\ state = "node"
        /\ state' = "fields" /\ retries' = MaxRetries /\ UNCHANGED fields
        /\ SendGetFieldInfo(0)
     \/ Untouched

Found(s) == heard.asked.service = s /\ match # Nobody

\* A response to no request: outdated.
HearNothing ==
  /\ heard.asked.service # "node" /\ match = Nobody
  /\ Untouched /\ UNCHANGED owed

\* Slip: the answer to a repeated request counts as the next field.
NextFieldTwice ==
  /\ state = "fields" /\ fields < MaxFields
  /\ fields' = fields + 1
  /\ \/ /\ fields + 1 < MaxFields
        /\ retries' = MaxRetries /\ UNCHANGED state
        /\ SendGetFieldInfo(fields + 1)
     \/ /\ fields + 1 = MaxFields
        /\ state' = "ready"
        /\ UNCHANGED <<retries, requestVars>>

\* The field the image asked for: on with the next, or all there is room for.
NextField ==
  /\ state = "fields" /\ desc[match].field = fields
  /\ fields' = fields + 1
  /\ \/ /\ fields + 1 < MaxFields
        /\ retries' = MaxRetries /\ UNCHANGED state
        /\ SendGetFieldInfo(fields + 1)
     \/ /\ fields + 1 = MaxFields
        /\ state' = "ready"
        /\ UNCHANGED <<retries, requestVars>>

HearInfo ==
  /\ Found("info")
  /\ Callback(desc[match].owner)
  /\ heard.asked.field < DeviceFields
  /\ \/ NextField
     \/ ~(state = "fields" /\ desc[match].field = fields) /\ Untouched

\* FIELD_NOT_FOUND ends the list of fields.
HearNoField ==
  /\ Found("info")
  /\ Callback(desc[match].owner)
  /\ heard.asked.field >= DeviceFields
  /\ state' = IF state = "fields" THEN "ready" ELSE state
  /\ UNCHANGED <<retries, fields, requestVars>>

\* Any other error, or a length that does not fit.
HearBadInfo ==
  /\ Found("info")
  /\ Callback(desc[match].owner)
  /\ Untouched

\* A value, an error or a malformed answer; a field the image does not know is
\* passed over in silence.
HearField ==
  /\ Found("field")
  /\ IF desc[match].field < fields THEN Callback(desc[match].owner) ELSE UNCHANGED owed
  /\ Untouched

\* Slip: an early return without the callback.
HearFileSilent == Found("file") /\ Untouched /\ UNCHANGED owed

HearFile ==
  /\ Found("file")
  /\ Callback(desc[match].owner)
  /\ Untouched

Process ==
  /\ rx = "found"
  /\ rx' = "done"
  /\ \/ HearNode \/ HearNothing
     \/ HearInfo \/ HearNoField \/ HearBadInfo
     \/ HearField \/ HearFile
  /\ UNCHANGED <<heard, match, lifeVars, timerVars, clientVars>>

Erase(d) ==
  \/ \E i \in DOMAIN list :
       /\ list[i] = d /\ \A k \in 1..(i - 1) : list[k] # d
       /\ list' = RemoveAt(list, i)
  \/ d \notin Range(list) /\ UNCHANGED list

\* Slip: the request stays on the list.
ReleaseKept ==
  /\ rx = "done"
  /\ rx' = "idle" /\ heard' = NoPacket /\ match' = Nobody
  /\ \/ match # Nobody /\ UNCHANGED list /\ pool' = Append(pool, match)
     \/ match = Nobody /\ UNCHANGED <<pool, list>>
  /\ UNCHANGED <<desc, late, numbers, air, initVars, lifeVars, timerVars,
                 clientVars, owed>>

\* Under the mutex again: off the list, back to the pool.
Release ==
  /\ rx = "done"
  /\ rx' = "idle" /\ heard' = NoPacket /\ match' = Nobody
  /\ \/ match # Nobody /\ Erase(match) /\ pool' = Append(pool, match)
     \/ match = Nobody /\ UNCHANGED <<pool, list>>
  /\ UNCHANGED <<desc, late, numbers, air, initVars, lifeVars, timerVars,
                 clientVars, owed>>

-----------------------------------------------------------------------------
(* The timer. *)

\* onTimeoutOccurred, or an assignment to the proxy, which stands for another
\* device afterwards or for none.
TimeoutStart ==
  /\ MayPurge /\ attached
  /\ timer' = "loop" /\ why' = "timeout"
  /\ UNCHANGED <<taken, requestVars, initVars, lifeVars, rxVars, clientVars, owed>>

AssignStart ==
  /\ MayPurge
  /\ attached => life < MaxLives
  /\ timer' = "loop" /\ why' = "detach"
  /\ UNCHANGED <<taken, requestVars, initVars, lifeVars, rxVars, clientVars, owed>>

\* A timeout takes the requests past their deadline, an assignment takes all.
Purgeable == list # <<>> /\ (why = "detach" \/ Head(list) \in late)

Pop ==
  /\ timer = "loop" /\ Purgeable
  /\ taken' = Head(list) /\ list' = Tail(list)
  /\ timer' = "popped"
  /\ UNCHANGED <<why, pool, desc, late, numbers, air, initVars, lifeVars, rxVars,
                 clientVars, owed>>

\* FIELD_TIMEOUT, FILE_TIMEOUT or COMPONENT_NOT_FOUND, without the mutex.
Tell ==
  /\ timer = "popped"
  /\ Callback(desc[taken].owner)
  /\ timer' = "told"
  /\ UNCHANGED <<why, taken, requestVars, initVars, lifeVars, rxVars, clientVars>>

Free ==
  /\ timer = "told"
  /\ pool' = Append(pool, taken)
  /\ timer' = "loop"
  /\ UNCHANGED <<why, taken, list, desc, late, numbers, air, initVars, lifeVars,
                 rxVars, clientVars, owed>>

Purged(reason) == timer = "loop" /\ why = reason /\ ~Purgeable

\* Initialised, or not its turn, or too early for a retry.
TimeoutEnd ==
  /\ Purged("timeout")
  /\ timer' = "idle"
  /\ UNCHANGED <<why, taken, requestVars, initVars, lifeVars, rxVars, clientVars, owed>>

\* Slip: nothing gives up.
RetryStuck ==
  /\ Purged("timeout") /\ state \in {"node", "fields"}
  /\ timer' = "idle"
  /\ \/ /\ retries > 0
        /\ retries' = retries - 1 /\ UNCHANGED state
        /\ \/ /\ state = "node"
              /\ Transmit(Request(Proxy, "node", 0))
              /\ UNCHANGED <<pool, list, desc, late>>
           \/ state = "fields" /\ SendGetFieldInfo(fields)
     \/ retries = 0 /\ UNCHANGED <<state, retries, requestVars>>
  /\ UNCHANGED <<why, taken, fields, lifeVars, rxVars, clientVars, owed>>

\* The proxy's turn to ask once more, or to give up.
Retry ==
  /\ Purged("timeout") /\ state \in {"node", "fields"}
  /\ timer' = "idle"
  /\ \/ /\ retries > 0
        /\ retries' = retries - 1 /\ UNCHANGED state
        /\ \/ /\ state = "node"
              /\ Transmit(Request(Proxy, "node", 0))
              /\ UNCHANGED <<pool, list, desc, late>>
           \/ state = "fields" /\ SendGetFieldInfo(fields)
     \/ /\ retries = 0
        /\ state' = IF state = "node" THEN "error" ELSE "ready"
        /\ UNCHANGED <<retries, requestVars>>
  /\ UNCHANGED <<why, taken, fields, lifeVars, rxVars, clientVars, owed>>

AssignPurged ==
  /\ Purged("detach")
  /\ timer' = "reset"
  /\ UNCHANGED <<why, taken, requestVars, initVars, lifeVars, rxVars, clientVars, owed>>

\* The rest of operator=.  Calls between their checks and the mutex go on with whatever
\* master and fields they find.
Reset ==
  /\ timer = "reset"
  /\ timer' = "idle"
  /\ master' = IF attached THEN "null" ELSE "set"
  /\ life' = IF attached THEN life + 1 ELSE life
  /\ overtaken' = overtaken \union {e.client : e \in entering}
  /\ state' = "node" /\ retries' = MaxRetries /\ fields' = 0
  /\ numbers' = [s \in Service |-> 0]
  /\ UNCHANGED <<crashed, why, taken, pool, list, desc, late, air, rxVars, clientVars, owed>>

-----------------------------------------------------------------------------
Timer == \/ Pop \/ Tell \/ Free \/ TimeoutEnd \/ Retry \/ AssignPurged \/ Reset

Next ==
  /\ ~crashed
  /\ \/ \E c \in Client, s \in {"info", "field", "file"}, f \in 0..(MaxFields - 1) : Call(c, s, f)
     \/ \E e \in entering : Enqueue(e) \/ NullMaster(e)
     \/ \E p \in air, d \in {Nobody} \union Range(list) : Receive(p, d)
     \/ Process \/ Release
     \/ TimeoutStart \/ AssignStart \/ Timer
     \/ Tick

\* Threads are scheduled, time passes and the timer is called again and again;
\* a retry comes due at the latest kRequestTimeout after the last one.
Fairness ==
  /\ WF_vars(~crashed /\ \E e \in entering : Enqueue(e) \/ NullMaster(e))
  /\ WF_vars(~crashed /\ Process) /\ WF_vars(~crashed /\ Release)
  /\ WF_vars(~crashed /\ TimeoutStart) /\ WF_vars(~crashed /\ Timer) /\ WF_vars(~crashed /\ Tick)
  /\ SF_vars(~crashed /\ Retry)

Spec     == Init /\ [][Next]_vars
FairSpec == Spec /\ Fairness

-----------------------------------------------------------------------------
(* Properties. *)

TypeOK ==
  /\ pool \in Seq(Requests) /\ list \in Seq(Requests)
  /\ desc \in [Requests -> Descriptor] /\ late \in SUBSET Requests
  /\ numbers \in [Service -> 0..(Numbers - 1)]
  /\ state \in {"node", "fields", "ready", "error"}
  /\ retries \in 0..MaxRetries /\ fields \in 0..MaxFields
  /\ master \in {"set", "null"} /\ life \in Nat
  /\ overtaken \in SUBSET Client /\ crashed \in BOOLEAN
  /\ rx \in {"idle", "found", "done"} /\ match \in Requests \union {Nobody}
  /\ heard \in Packet
  /\ timer \in {"idle", "loop", "popped", "told", "reset"}
  /\ why \in {"timeout", "detach"} /\ taken \in Requests
  /\ entering \in SUBSET Entry
  /\ calls \in [Client -> Nat] /\ owed \in [Client -> Int]
  /\ air \in SUBSET Packet

\* The descriptor the timer has off the list and not in the pool.
InHand == IF timer \in {"popped", "told"} THEN {taken} ELSE {}

\* Every descriptor is free, pending, or in the hand of the timer, and in one of
\* these places once: none is lost, whatever the order of responses, timeouts,
\* retries and assignments (CanProxy.hpp:692-730, 828-833).
Ownership ==
  /\ IsInjective(pool) /\ IsInjective(list)
  /\ Range(pool) \cap Range(list) = {}
  /\ InHand \cap (Range(pool) \union Range(list)) = {}
  /\ Range(pool) \union Range(list) \union InHand = Requests

\* The receiver's descriptor stays on the list until it erases it.
ReceiverHolds == rx # "idle" /\ match # Nobody => match \in Range(list)

\* Descriptors whose observer is still to be called.
Waiting ==
  (Range(list) \ (IF rx = "done" THEN {match} ELSE {}))
    \union (IF timer = "popped" THEN {taken} ELSE {})

Pending(c) == {d \in Waiting : desc[d].owner = c}

\* A client waits exactly as long as one descriptor names it: it is called back
\* once, never twice, and never while no call of its is pending.  This is so of clients
\* no assignment of the proxy overtook between check and mutex: the answer to such a
\* call may be for a field the image has forgotten, and is passed over in silence.
Accounting == \A c \in Client \ overtaken : owed[c] = Cardinality(Pending(c))

\* A response concludes the request it was given for, or one of a later device
\* that took the number over.
OwnLifeAnswers ==
  rx = "found" /\ match # Nobody =>
    desc[match] = heard.asked \/ heard.life < life

\* The pool is never given more than it lent out (Queue.hpp:50).
PoolNeverOverflows == Len(pool) <= PoolSize

\* The inductive invariant, for one thread: receiver and timer take turns, the
\* fields a call was checked against are still there when its answer comes, and
\* a proxy without a device takes no calls, but for those of overtaken clients.
TakingTurns == rx = "idle" \/ timer = "idle"

OwnService ==
  /\ \A d \in Range(list) : desc[d].service # "node"
  /\ rx # "idle" /\ match # Nobody => desc[match].service = heard.asked.service

RoomForField == state \in {"node", "fields"} => fields < MaxFields

CheckedFields ==
  /\ \A e \in entering : e.client \notin overtaken =>
       attached /\ (e.service = "field" => e.field < fields)
  /\ attached =>
       \A d \in Waiting : desc[d].service = "field" /\ desc[d].owner \notin overtaken =>
                           desc[d].field < fields
  /\ rx # "idle" => attached
  /\ timer = "reset" /\ ~attached => list = <<>>

IndInv ==
  /\ TypeOK /\ Ownership /\ ReceiverHolds /\ Accounting
  /\ TakingTurns /\ OwnService /\ RoomForField /\ CheckedFields

SmallerOf(a, b) == IF a < b THEN a ELSE b

\* An image that is handed to the hub with retries left lists every field of the
\* device there is room for, whatever was lost, late or asked twice (of the
\* first device: a later one may meet an outdated answer).
ReadyIsComplete ==
  state = "ready" /\ retries > 0 /\ life = 0 =>
    fields = SmallerOf(DeviceFields, MaxFields)

\* Every pending call ends, unless the proxy is taken away or was while it was made.
CallsEnd == \A c \in Client : owed[c] > 0 ~> owed[c] = 0 \/ ~attached \/ c \in overtaken

\* Initialisation ends, with or without the device's help.
InitialisationEnds == state \in {"node", "fields"} ~> state \in {"ready", "error"} \/ ~attached
=============================================================================
