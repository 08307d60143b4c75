------------------------------ MODULE CanSlave ------------------------------
(***************************************************************************)
(* The service side of a device on the bus: ParamSlave (the parameter      *)
(* service of UAVCAN) and PlazCanSlave (fields and files), the requests    *)
(* they keep while the device answers, and one field of the device.        *)
(*                                                                         *)
(* The device is called and answers later: InternalDevice answers within   *)
(* the call, other devices may not.  Values are patterns of bits: integers *)
(* are FieldBits wide in the field and WireBits on the bus, reals RealBits *)
(* on the bus; the pattern of a double is that of the real nearest to it   *)
(* and the rest a real does not keep.  Files are answered with any result; *)
(* module FileUpload has what they hold.                                   *)
(***************************************************************************)
EXTENDS Integers, FiniteSets, TLC

CONSTANTS
  MaxPendingParams,    \* requests the parameter service keeps, 2
  MaxPendingRequests,  \* requests the other services keep, 8
  FieldBits, WireBits, \* width of an integer field, and of an integer on the bus
  RealBits, FineBits,  \* width of a real, and of what a double has beyond it
  BoolBits,            \* width of a boolean on the bus, a byte
  Desired,             \* values that are asked for
  MinValue, MaxValue,  \* limits of an extended field
  MaxRequests,         \* bound: requests that are sent
  MaxUpdates           \* bound: writes by the application

ASSUME SlaveAssumption ==
  /\ {MaxPendingParams, MaxPendingRequests} \subseteq Nat \ {0}
  /\ {FieldBits, WireBits, RealBits, FineBits, BoolBits} \subseteq Nat \ {0}
  /\ FieldBits <= WireBits /\ Desired \subseteq 0..(2^WireBits - 1)
  \* So it is: the provers do not know powers.
  /\ {2^FieldBits, 2^WireBits, 2^RealBits, 2^FineBits, 2^BoolBits} \subseteq Nat \ {0, 1}
  /\ 2^FieldBits <= 2^WireBits
  /\ {MinValue, MaxValue} \subseteq Int /\ {MaxRequests, MaxUpdates} \subseteq Nat

VARIABLES
  decl,      \* how the field is declared
  field,     \* what it holds
  slots,     \* pool: the request in each descriptor, or NoRequest
  calls,     \* the call the device owes an answer for each descriptor
  was,       \* history: values held since the request was taken
  told,      \* the answer given by the last step, with what its request saw
  asked, taken, answered, silent, updates  \* bounds and counts

slaveVars == <<decl, field, slots, calls, was, told, asked, taken, answered, silent, updates>>

ParamOps == {"get", "set"}
FieldOps == {"info", "read", "write"}
FileOps  == {"file info", "file read", "file write"}
Slot     == ({"param"} \X (1..MaxPendingParams)) \union ({"service"} \X (1..MaxPendingRequests))
PoolOf(op) == {s \in Slot : s[1] = IF op \in ParamOps THEN "param" ELSE "service"}

NoCall   == [op |-> "none"]
NoRequest == [op |-> "none"]
Quiet     == [op |-> "none"]
Outcome  == {"SUCCESS", "FIELD_ERROR", "COMPONENT_NOT_FOUND"}

Busy == {s \in Slot : slots[s] # NoRequest}
Free(op) == PoolOf(op) \ Busy

-----------------------------------------------------------------------------
(* Values. *)

Types == {"unsigned", "signed", "real", "double", "bool"}
Tags  == {"integer", "real", "boolean"}

\* The patterns the field may hold, and those a value of a tag may have.
Pattern ==
  CASE decl.type = "real"   -> 0..(2^RealBits - 1)
    [] decl.type = "double" -> 0..(2^RealBits * 2^FineBits - 1)
    [] decl.type = "bool"   -> {0, 1}
    [] OTHER                -> 0..(2^FieldBits - 1)
Wide(tag) ==
  CASE tag = "integer" -> 2^WireBits
    [] tag = "real"    -> 2^RealBits
    [] tag = "boolean" -> 2^BoolBits

\* fieldTypeToParamTag
fieldTag ==
  CASE decl.type \in {"real", "double"} -> "real"
    [] decl.type = "bool"               -> "boolean"
    [] OTHER                            -> "integer"

Signed(v) ==
  IF decl.type = "signed" /\ v >= 2^(FieldBits - 1) THEN v - 2^FieldBits ELSE v

\* The bit that is tested for the sign is the one above it.
upconvertInteger(v) ==
  IF decl.type = "signed" /\ FieldBits < WireBits /\ (v \div 2^FieldBits) % 2 = 1
  THEN v + 2^WireBits - 2^FieldBits ELSE v

downconvertInteger(w) == w % 2^FieldBits

\* Rounded, or limited to the greatest real.
doubleToFloat(v) == v \div 2^FineBits

toUavCan(v) ==
  CASE decl.type \in {"real", "bool"} -> v
    [] decl.type = "double"           -> doubleToFloat(v)
    [] OTHER                          -> upconvertInteger(v)

\* The tag of the value is not looked at.
fromUavCan(w) ==
  CASE decl.type = "real"   -> w % 2^RealBits
    [] decl.type = "double" -> (w % 2^RealBits) * 2^FineBits
    [] decl.type = "bool"   -> IF w % 2^BoolBits = 0 THEN 0 ELSE 1
    [] OTHER                -> downconvertInteger(w)

-----------------------------------------------------------------------------
(* The field: what a read and a write return, what a write leaves. *)

Declaration ==
  {d \in [class : {"volatile", "extended", "config", "functor", "blank"},
           readonly : BOOLEAN, readable : BOOLEAN, type : Types] :
     d.readable \/ d.class = "functor"}

Held == [result |-> "SUCCESS", value |-> field]
Kept(r) == [result |-> r, value |-> field]

VolatileWrite(v) == {IF decl.readonly THEN Kept("FIELD_READ_ONLY")
                     ELSE [result |-> "SUCCESS", value |-> v]}

ExtendedWrite(v) ==
  {IF decl.readonly THEN Kept("FIELD_READ_ONLY")
   ELSE IF Signed(v) >= MinValue /\ Signed(v) <= MaxValue
        THEN [result |-> "SUCCESS", value |-> v]
        ELSE Kept("FIELD_RANGE_ERROR")}

\* An equal value is not stored again; whether the storage was saved is not told.
ConfigWrite(v) == {IF decl.readonly THEN Kept("FIELD_READ_ONLY")
                   ELSE IF v # field THEN [result |-> "SUCCESS", value |-> v] ELSE Held}

\* The application's own functions, with any result.
FunctorRead ==
  IF decl.readable THEN {[result |-> r, value |-> field] : r \in Outcome}
  ELSE {Kept("COMMAND_ERROR")}
FunctorWrite(v) ==
  IF decl.readonly THEN {Kept("FIELD_READ_ONLY")}
  ELSE {[result |-> r, value |-> IF r = "SUCCESS" THEN v ELSE field] : r \in Outcome}

BlankWrite(v) == {Kept(IF decl.readonly THEN "FIELD_READ_ONLY" ELSE "FIELD_UNAVAILABLE")}

Read == IF decl.class \in {"functor", "blank"} THEN FunctorRead ELSE {Held}

Write(v) ==
  CASE decl.class = "volatile" -> VolatileWrite(v)
    [] decl.class = "extended" -> ExtendedWrite(v)
    [] decl.class = "config"   -> ConfigWrite(v)
    [] decl.class = "functor"  -> FunctorWrite(v)
    [] decl.class = "blank"    -> BlankWrite(v)

-----------------------------------------------------------------------------
(* Answers. *)

\* What requests that stay in the pool have seen of the field.
Witnessed(s) == [t \in Slot |-> IF t = s \/ t \notin Busy THEN {} ELSE was[t] \union {field'}]

\* Slip: the descriptor stays taken.
freeNot(s) == UNCHANGED slots /\ was' = Witnessed(s)

free(s) == slots' = [slots EXCEPT ![s] = NoRequest] /\ was' = Witnessed(s)

\* The request is over, with an answer or without.
AnswerTagged(s, r, tag, v) ==
  /\ told' = [op |-> slots[s].op, result |-> r, tag |-> tag, value |-> v,
              desired |-> slots[s].desired, was |-> was[s] \union {field'}]
  /\ answered' = answered + 1 /\ UNCHANGED silent
  /\ calls' = [calls EXCEPT ![s] = NoCall]
  /\ free(s)

Answer(s, r, v) == AnswerTagged(s, r, "none", v)

Silence(s) ==
  /\ silent' = silent + 1 /\ told' = Quiet /\ UNCHANGED answered
  /\ calls' = [calls EXCEPT ![s] = NoCall]
  /\ free(s)

Proceed(s, call) ==
  /\ calls' = [calls EXCEPT ![s] = call]
  /\ told' = Quiet /\ UNCHANGED <<was, answered, silent>>

ErrorAnswer(s, r, v) ==
  IF r = "COMPONENT_NOT_FOUND" THEN Silence(s) ELSE Answer(s, r, v)

\* The tag of the response is that of the request; a getter has none.
sendGetSetResponse(s, r, v) ==
  LET tag == IF slots[s].tag = "none" THEN "integer" ELSE slots[s].tag
  IN AnswerTagged(s, r, tag, v % Wide(tag))

\* ParamSlave: the field is looked up, read, and for a setter written.
onFieldIndexReceived(s) ==
  Proceed(s, [op |-> "info", known |-> TRUE]) /\ UNCHANGED slots

onFieldIndexRequestError(s) == Answer(s, "EMPTY", 0)

paramInfoReceived(s, v) ==
  IF slots[s].tag = "none" THEN sendGetSetResponse(s, "SUCCESS", toUavCan(v))
  ELSE /\ slots' = [slots EXCEPT ![s].current = toUavCan(v)]
       /\ Proceed(s, [op |-> "write", known |-> TRUE, value |-> fromUavCan(slots[s].desired)])

paramInfoRequestError(s, r) == ErrorAnswer(s, "EMPTY", 0)

paramFieldUpdated(s) == sendGetSetResponse(s, "SUCCESS", slots[s].desired)

\* Slip: the value that was asked for instead of the one the field has.
paramRequestErrorDesired(s) == sendGetSetResponse(s, "FAILED", slots[s].desired)

paramRequestError(s) == sendGetSetResponse(s, "FAILED", slots[s].current)

\* PlazCanSlave: a description that is too long is an error of the field.
onFieldInfoReceived(s) == \E r \in {"SUCCESS", "FIELD_ERROR"} : Answer(s, r, 0)

onFieldInfoRequestError(s, r) == ErrorAnswer(s, r, 0)
onFieldReceived(s, v) == Answer(s, "SUCCESS", v)
onFieldUpdated(s) == Answer(s, "SUCCESS", slots[s].desired)
onFieldRequestError(s, r) == ErrorAnswer(s, r, 0)

-----------------------------------------------------------------------------
(* The requests. *)

\* process: the call a request starts with; known says the field exists.
FirstCall(q, known) ==
  CASE q.op \in ParamOps /\ q.named -> [op |-> "index", known |-> known]
    [] (q.op \in ParamOps /\ ~q.named) \/ q.op = "info" -> [op |-> "info", known |-> known]
    [] q.op = "read"  -> [op |-> "read", known |-> known]
    [] q.op = "write" -> [op |-> "write", known |-> known, value |-> q.desired]
    [] q.op \in FileOps -> [op |-> q.op]

\* Without a descriptor left the request is dropped, and the asker not told.
Take(q, known) ==
  IF Free(q.op) = {} THEN UNCHANGED <<slots, calls, was, taken>>
  ELSE LET s == CHOOSE f \in Free(q.op) : \A g \in Free(q.op) : f[2] <= g[2]
       IN /\ slots' = [slots EXCEPT ![s] = q]
          /\ calls' = [calls EXCEPT ![s] = FirstCall(q, known)]
          /\ was' = [was EXCEPT ![s] = {field}]
          /\ taken' = taken + 1

Request(op, named, tag, desired) ==
  [op |-> op, named |-> named, tag |-> tag, desired |-> desired, current |-> 0]

AskParam ==
  /\ asked < MaxRequests /\ asked' = asked + 1
  /\ \E named, known \in BOOLEAN :
       \/ Take(Request("get", named, "none", 0), known)
       \/ \E tag \in Tags, w \in Desired :
            Take(Request("set", named, tag, w % Wide(tag)), known)
  /\ told' = Quiet /\ UNCHANGED <<decl, field, answered, silent, updates>>

\* A field is written with the bytes as they come, those of a value of its type.
AskService ==
  /\ asked < MaxRequests /\ asked' = asked + 1
  /\ \/ \E known \in BOOLEAN, op \in {"info", "read"} : Take(Request(op, FALSE, "none", 0), known)
     \/ \E known \in BOOLEAN, v \in Pattern : Take(Request("write", FALSE, "none", v), known)
     \/ \E op \in FileOps : Take(Request(op, FALSE, "none", 0), TRUE)
  /\ told' = Quiet /\ UNCHANGED <<decl, field, answered, silent, updates>>

-----------------------------------------------------------------------------
(* The device answers one of the calls. *)

IsParam(s) == s[1] = "param"

fieldRequestIndex(s) ==
  /\ calls[s].op = "index" /\ UNCHANGED field
  /\ IF calls[s].known THEN onFieldIndexReceived(s) ELSE onFieldIndexRequestError(s)

InfoFails(s, r) ==
  IF IsParam(s) THEN paramInfoRequestError(s, r) ELSE onFieldInfoRequestError(s, r)

fieldRequestInfo(s) ==
  /\ calls[s].op = "info" /\ UNCHANGED field
  /\ IF ~calls[s].known THEN InfoFails(s, "FIELD_NOT_FOUND")
     ELSE \E got \in Read :
            IF got.result # "SUCCESS" THEN InfoFails(s, got.result)
            ELSE IF IsParam(s) THEN paramInfoReceived(s, got.value)
                 ELSE onFieldInfoReceived(s)

fieldRead(s) ==
  /\ calls[s].op = "read" /\ UNCHANGED field
  /\ IF ~calls[s].known THEN onFieldRequestError(s, "FIELD_NOT_FOUND")
     ELSE \E got \in Read :
            IF got.result # "SUCCESS" THEN onFieldRequestError(s, got.result)
            ELSE onFieldReceived(s, got.value)

fieldWrite(s) ==
  /\ calls[s].op = "write"
  /\ \E done \in IF calls[s].known THEN Write(calls[s].value) ELSE {Kept("FIELD_NOT_FOUND")} :
       /\ field' = done.value
       /\ IF done.result = "SUCCESS"
          THEN IF IsParam(s) THEN paramFieldUpdated(s) ELSE onFieldUpdated(s)
          ELSE IF IsParam(s) THEN paramRequestError(s) ELSE onFieldRequestError(s, done.result)

\* onFileInfoReceived, onFileReadEnd, onFileWriteEnd and the error of the first.
FileAnswers(s) ==
  /\ calls[s].op \in FileOps /\ UNCHANGED field
  /\ \E r \in {"SUCCESS", "FILE_ERROR", "COMPONENT_NOT_FOUND"} : ErrorAnswer(s, r, 0)

DeviceAnswers ==
  /\ \E s \in Busy : \/ fieldRequestIndex(s) \/ fieldRequestInfo(s)
                     \/ fieldRead(s) \/ fieldWrite(s) \/ FileAnswers(s)
  /\ UNCHANGED <<decl, asked, taken, updates>>

\* The application assigns to its field, from the main loop or an interrupt.
ApplicationWrites ==
  /\ decl.class # "blank" /\ updates < MaxUpdates /\ updates' = updates + 1
  /\ field' \in Pattern
  /\ was' = [s \in Slot |-> IF s \in Busy THEN was[s] \union {field'} ELSE {}]
  /\ told' = Quiet /\ UNCHANGED <<decl, slots, calls, asked, taken, answered, silent>>

SlaveInit ==
  /\ decl \in Declaration /\ field \in Pattern
  /\ slots = [s \in Slot |-> NoRequest] /\ calls = [s \in Slot |-> NoCall]
  /\ was = [s \in Slot |-> {}]
  /\ told = Quiet
  /\ asked = 0 /\ taken = 0 /\ answered = 0 /\ silent = 0 /\ updates = 0

SlaveNext == AskParam \/ AskService \/ DeviceAnswers \/ ApplicationWrites

SlaveSpec == SlaveInit /\ [][SlaveNext]_slaveVars

-----------------------------------------------------------------------------
\* A descriptor is taken exactly while the device owes one answer for it, and a
\* request taken is answered once, or passed over where there is nothing to answer
\* for: on every path through lookup, reading and writing, and every error.
SlotsMatchCalls ==
  /\ \A s \in Slot : (slots[s] = NoRequest) = (calls[s] = NoCall)
  /\ taken = answered + silent + Cardinality(Busy)

\* What goes to the bus for a value the field had, and which values asked for are
\* one of the field's.
Negative(v) == Signed(v) < 0
Stands(v) == IF decl.type = "double" THEN doubleToFloat(v) ELSE v
Fits(w) == Stands(fromUavCan(w)) = w /\ ~Negative(fromUavCan(w))

\* The answer says what the field is.  A getter is answered with an integer, which
\* a boolean may pass for and a real may not; a setter with the tag it brought.
Typed == told.tag = fieldTag \/ (told.tag = "integer" /\ decl.type = "bool")

\* An answer tells a value the field had at some time between question and answer,
\* though the field may be written meanwhile: the value a set reports as stored was
\* stored, the value a refused set reports was the field's.  This is so of answers
\* of the field's type (ParamSlave.hpp:157-166 takes the type from the request: a
\* real field is read as an integer with the bits of the real), for values asked
\* for that fit the field, and, the bus giving them no sign, for a field that was
\* not negative.  FIELD_READ and FIELD_WRITE carry the bytes and have no exception.
AnswersAreHonest ==
  /\ told.op \in {"get", "set"} /\ told.result \in {"SUCCESS", "FAILED"}
       /\ Typed /\ Fits(told.desired) /\ (\A v \in told.was : ~Negative(v))
     => told.value \in {Stands(v) : v \in told.was}
  /\ told.op = "set" /\ told.result = "SUCCESS" /\ Fits(told.desired)
     => fromUavCan(told.desired) \in told.was
  /\ told.op = "read" /\ told.result = "SUCCESS" => told.value \in told.was
  /\ told.op = "write" /\ told.result = "SUCCESS" => told.desired \in told.was
=============================================================================
