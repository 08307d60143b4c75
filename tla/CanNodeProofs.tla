---------------------------- MODULE CanNodeProofs ----------------------------
(***************************************************************************)
(* Proofs about the parts of a node on the bus, which share no state: the  *)
(* services of CanSlave, the uploads of FileUpload and the transfers of    *)
(* CanTransfer.                                                            *)
(***************************************************************************)
EXTENDS CanTransfer, CanSlave, FileUpload, QueueLemmas

-----------------------------------------------------------------------------
(* CanSlave, for every size of the pools, width of the field and limits.  *)

\* A request in the descriptor of its own service.
Asked(s) ==
  [op : IF IsParam(s) THEN ParamOps ELSE FieldOps \union FileOps,
   named : BOOLEAN, tag : Tags \union {"none"}, desired : Nat, current : Nat]

\* What a request asks for: a getter brings no tag, a setter a value of its tag, and
\* FIELD_WRITE a value of the field's type.
Wellformed(q) ==
  /\ q.op = "get" => q.tag = "none"
  /\ q.op = "set" => q.tag # "none" /\ q.desired < Wide(q.tag)
  /\ q.op = "write" => q.desired \in Pattern

\* The call that is owed for a request is a step of it, and what a setter keeps for a
\* refusal is what goes over the bus for a value the field had.
Stepping(s) ==
  /\ calls[s].op \in IF IsParam(s) THEN {"index", "info", "write"} ELSE {slots[s].op}
  /\ calls[s].op = "write" =>
       IF IsParam(s)
       THEN /\ slots[s].op = "set" /\ calls[s].value = fromUavCan(slots[s].desired)
            /\ \E v \in was[s] : slots[s].current = toUavCan(v)
       ELSE calls[s].value = slots[s].desired

\* A free descriptor is owed nothing.
Fitting(s) ==
  \/ slots[s] = NoRequest /\ calls[s] = NoCall
  \/ /\ slots[s] \in Asked(s) /\ field \in was[s] /\ was[s] \subseteq Pattern
     /\ Wellformed(slots[s]) /\ Stepping(s)

Accounts == taken = answered + silent + Cardinality(Busy)

SlaveTypes ==
  /\ decl \in Declaration /\ field \in Pattern
  /\ slots = [s \in Slot |-> slots[s]] /\ calls = [s \in Slot |-> calls[s]]
  /\ was = [s \in Slot |-> was[s]]
  /\ taken \in Nat /\ answered \in Nat /\ silent \in Nat

SlaveInv == SlaveTypes /\ (\A s \in Slot : Fitting(s)) /\ Accounts

\* While the field is declared as it is, its values and conversions are the same.
LEMMA SameDeclaration ==
  ASSUME decl' = decl
  PROVE  /\ Pattern' = Pattern /\ (decl \in Declaration)' = (decl \in Declaration)
         /\ \A w : fromUavCan(w)' = fromUavCan(w) /\ toUavCan(w)' = toUavCan(w)
         /\ \A w : Fits(w)' = Fits(w) /\ Stands(w)' = Stands(w) /\ Negative(w)' = Negative(w)
         /\ fieldTag' = fieldTag
<1>1. Pattern' = Pattern /\ fieldTag' = fieldTag /\ (decl \in Declaration)' = (decl \in Declaration)
  BY DEF Pattern, fieldTag, Declaration
<1>2. \A w : fromUavCan(w)' = fromUavCan(w) /\ toUavCan(w)' = toUavCan(w)
  BY DEF fromUavCan, toUavCan, downconvertInteger, upconvertInteger
<1>3. \A w : Stands(w)' = Stands(w) /\ Negative(w)' = Negative(w)
  BY DEF Stands, Negative, Signed
<1>4. \A w : Fits(w)' = Fits(w)
  <2> SUFFICES ASSUME NEW w
               PROVE  Fits(w)' = Fits(w)
    OBVIOUS
  <2>1. /\ Fits(w) = (Stands(fromUavCan(w)) = w /\ ~Negative(fromUavCan(w)))
        /\ Fits(w)' = ((Stands(fromUavCan(w)) = w)' /\ ~Negative(fromUavCan(w))')
    BY DEF Fits
  <2> QED BY DEF Fits, Stands, Negative, Signed, fromUavCan, downconvertInteger
<1> QED BY <1>1, <1>2, <1>3, <1>4

\* The quotient of a number below a product lies below the other factor.
LEMMA Quotients ==
  ASSUME NEW a \in Nat \ {0}, NEW b \in Nat \ {0}, NEW v \in 0..(a * b - 1)
  PROVE  v \div b \in 0..(a - 1)
<1> DEFINE k == v \div b
<1>1. a * b \in Nat /\ v \in Nat /\ v < a * b
  OBVIOUS
<1>2. k \in Nat /\ b * k <= v
  BY <1>1
<1> HIDE DEF k
<1>3. k < a
  <2> SUFFICES ASSUME k >= a
               PROVE  FALSE
    BY <1>2
  <2>1. PICK d \in Nat : k = a + d
    <3>1. k - a \in Nat /\ k = a + (k - a)
      BY <1>2
    <3> QED BY <3>1
  <2>2. b * k = a * b + b * d /\ b * d \in Nat
    BY <2>1
  <2> QED BY <1>1, <1>2, <2>2
<1>4. k \in 0..(a - 1)
  BY <1>2, <1>3
<1> QED BY <1>4 DEF k

\* What goes over the bus for a value of the field is a value of the field's tag and
\* of an integer's width for a boolean; what comes from there is a value of the field.
LEMMA Conversions ==
  ASSUME decl \in Declaration
  PROVE  /\ \A v \in Pattern : /\ v \in Nat /\ Stands(v) \in Nat
                               /\ toUavCan(v) = Stands(v) /\ Stands(v) < Wide(fieldTag)
                               /\ decl.type = "bool" => Stands(v) < Wide("integer")
         /\ \A w \in Nat : fromUavCan(w) \in Pattern
<1> DEFINE P == 2^FieldBits
           W == 2^WireBits
           R == 2^RealBits
           F == 2^FineBits
           B == 2^BoolBits
<1>1. /\ {P, W, R, F, B} \subseteq Nat \ {0, 1} /\ P <= W
      /\ decl.type \in Types
  BY SlaveAssumption DEF Declaration
<1>2. /\ Pattern = CASE decl.type = "real"   -> 0..(R - 1)
                     [] decl.type = "double" -> 0..(R * F - 1)
                     [] decl.type = "bool"   -> {0, 1}
                     [] OTHER                -> 0..(P - 1)
      /\ Wide("integer") = W /\ Wide("real") = R /\ Wide("boolean") = B
  BY DEF Pattern, Wide
<1>3. /\ \A w : downconvertInteger(w) = w % P
      /\ \A v : doubleToFloat(v) = v \div F
      /\ \A v : upconvertInteger(v) =
           IF decl.type = "signed" /\ FieldBits < WireBits /\ (v \div P) % 2 = 1
           THEN v + W - P ELSE v
      /\ \A w : fromUavCan(w) =
           CASE decl.type = "real"   -> w % R
             [] decl.type = "double" -> (w % R) * F
             [] decl.type = "bool"   -> IF w % B = 0 THEN 0 ELSE 1
             [] OTHER                -> w % P
  BY DEF downconvertInteger, doubleToFloat, upconvertInteger, fromUavCan
<1> HIDE DEF P, W, R, F, B
<1>4. ASSUME NEW v \in Pattern
      PROVE  /\ v \in Nat /\ Stands(v) \in Nat
             /\ toUavCan(v) = Stands(v) /\ Stands(v) < Wide(fieldTag)
             /\ decl.type = "bool" => Stands(v) < Wide("integer")
  <2>1. CASE decl.type \in {"unsigned", "signed"}
    <3>1. v \in 0..(P - 1) /\ Stands(v) = v /\ fieldTag = "integer"
      BY <1>2, <2>1 DEF Stands, fieldTag
    <3>2. v \div P = 0
      BY <1>1, <3>1
    <3>3. upconvertInteger(v) = v
      BY <1>3, <3>2
    <3>4. toUavCan(v) = v
      BY <2>1, <3>3 DEF toUavCan
    <3> QED BY <1>1, <1>2, <2>1, <3>1, <3>4
  <2>2. CASE decl.type = "real"
    <3>1. v \in 0..(R - 1) /\ Stands(v) = v /\ fieldTag = "real" /\ toUavCan(v) = v
      BY <1>2, <2>2 DEF Stands, fieldTag, toUavCan
    <3> QED BY <1>1, <1>2, <2>2, <3>1
  <2>3. CASE decl.type = "double"
    <3>1. /\ v \in 0..(R * F - 1) /\ Stands(v) = v \div F /\ fieldTag = "real"
          /\ toUavCan(v) = v \div F
      BY <1>2, <1>3, <2>3 DEF Stands, fieldTag, toUavCan
    <3>2. v \div F \in 0..(R - 1)
      BY <1>1, <3>1, Quotients
    <3>3. R * F \in Nat
      BY <1>1
    <3> QED BY <1>1, <1>2, <2>3, <3>1, <3>2, <3>3
  <2>4. CASE decl.type = "bool"
    <3>1. v \in {0, 1} /\ Stands(v) = v /\ fieldTag = "boolean" /\ toUavCan(v) = v
      BY <1>2, <2>4 DEF Stands, fieldTag, toUavCan
    <3> QED BY <1>1, <1>2, <2>4, <3>1
  <2> QED BY <1>1, <2>1, <2>2, <2>3, <2>4 DEF Types
<1>5. ASSUME NEW w \in Nat
      PROVE  fromUavCan(w) \in Pattern
  <2>1. CASE decl.type \in {"unsigned", "signed"}
    <3>1. w % P \in 0..(P - 1)
      BY <1>1
    <3> QED BY <1>2, <1>3, <2>1, <3>1
  <2>2. CASE decl.type = "real"
    <3>1. w % R \in 0..(R - 1)
      BY <1>1
    <3> QED BY <1>2, <1>3, <2>2, <3>1
  <2>3. CASE decl.type = "double"
    <3> DEFINE k == w % R
    <3>1. k \in 0..(R - 1)
      BY <1>1
    <3> HIDE DEF k
    <3>2. PICK d \in Nat : R = k + 1 + d
      <4>1. R - 1 - k \in Nat /\ R = k + 1 + (R - 1 - k)
        BY <1>1, <3>1
      <4> QED BY <4>1
    <3>3. R * F = k * F + F + d * F /\ k * F \in Nat /\ d * F \in Nat
      BY <1>1, <3>1, <3>2
    <3>4. k * F \in 0..(R * F - 1)
      BY <1>1, <3>3
    <3> QED BY <1>2, <1>3, <2>3, <3>4 DEF k
  <2>4. CASE decl.type = "bool"
    BY <1>2, <1>3, <2>4
  <2> QED BY <1>1, <2>1, <2>2, <2>3, <2>4 DEF Types
<1> QED BY <1>4, <1>5

LEMMA ReadsField == \A seen \in Read : seen.value = field /\ seen.result # "FAILED"
BY DEF Read, FunctorRead, Held, Kept, Outcome

\* A write that succeeds stores its value, any other leaves the field alone.
LEMMA WritesField ==
  ASSUME decl \in Declaration, NEW v \in Pattern, NEW done \in Write(v)
  PROVE  /\ done.value = field \/ done.value = v
         /\ done.result = "SUCCESS" => done.value = v
         /\ done.result # "FAILED"
<1>1. decl.class \in {"volatile", "extended", "config", "functor", "blank"}
  BY DEF Declaration
<1>2. CASE decl.class = "volatile"
  <2>1. done \in VolatileWrite(v)
    BY <1>2 DEF Write
  <2> QED BY <2>1 DEF VolatileWrite, Kept
<1>3. CASE decl.class = "extended"
  <2>1. done \in ExtendedWrite(v)
    BY <1>3 DEF Write
  <2>2. \/ done = Kept("FIELD_READ_ONLY") \/ done = [result |-> "SUCCESS", value |-> v]
        \/ done = Kept("FIELD_RANGE_ERROR")
    BY <2>1, Zenon DEF ExtendedWrite
  <2> QED BY <2>2 DEF Kept
<1>4. CASE decl.class = "config"
  <2>1. done \in ConfigWrite(v)
    BY <1>4 DEF Write
  <2>2. \/ done = Kept("FIELD_READ_ONLY") \/ done = [result |-> "SUCCESS", value |-> v]
        \/ done = Held /\ v = field
    BY <2>1, Zenon DEF ConfigWrite
  <2> QED BY <2>2 DEF Kept, Held
<1>5. CASE decl.class = "functor"
  <2>1. done \in FunctorWrite(v)
    BY <1>5 DEF Write
  <2> QED BY <2>1 DEF FunctorWrite, Kept, Outcome
<1>6. CASE decl.class = "blank"
  <2>1. done \in BlankWrite(v)
    BY <1>6 DEF Write
  <2> QED BY <2>1 DEF BlankWrite, Kept
<1> QED BY <1>1, <1>2, <1>3, <1>4, <1>5, <1>6

LEMMA SlotsFinite == IsFiniteSet(Slot) /\ IsFiniteSet(Busy) /\ Cardinality(Busy) \in Nat
<1>0. MaxPendingParams \in Int /\ MaxPendingRequests \in Int
  BY SlaveAssumption
<1>1. IsFiniteSet(1..MaxPendingParams) /\ IsFiniteSet(1..MaxPendingRequests)
  BY <1>0, FS_Interval
<1>2. IsFiniteSet({"param"}) /\ IsFiniteSet({"service"})
  BY FS_Singleton
<1>3. IsFiniteSet(Slot)
  BY <1>1, <1>2, FS_Product, FS_Union DEF Slot
<1>4. IsFiniteSet(Busy)
  BY <1>3, FS_Subset DEF Busy
<1> QED BY <1>3, <1>4, FS_CardinalityType

LEMMA AskedIsSomething == \A s : NoRequest \notin Asked(s)
<1> SUFFICES ASSUME NEW s, NoRequest \in Asked(s)
             PROVE  FALSE
  OBVIOUS
<1>1. NoRequest.op \in ParamOps \union FieldOps \union FileOps
  BY DEF Asked
<1> QED BY <1>1 DEF NoRequest, ParamOps, FieldOps, FileOps

\* A descriptor that is left alone has seen what the field holds now.
LEMMA StillFitting ==
  ASSUME NEW t \in Slot, Fitting(t), decl' = decl, field' \in Pattern,
         slots'[t] = slots[t], calls'[t] = calls[t],
         \/ slots[t] = NoRequest
         \/ was'[t] = was[t] \union {field'}
         \/ was'[t] = was[t] /\ field' = field
  PROVE  Fitting(t)'
<1>1. CASE slots[t] = NoRequest
  BY <1>1, AskedIsSomething DEF Fitting
<1>2. CASE slots[t] # NoRequest
  <2>1. /\ slots[t] \in Asked(t) /\ field \in was[t] /\ was[t] \subseteq Pattern
        /\ Wellformed(slots[t]) /\ Stepping(t)
    BY <1>2 DEF Fitting
  <2>2. was[t] \subseteq was'[t] /\ field' \in was'[t] /\ was'[t] \subseteq Pattern
    BY <1>2, <2>1
  <2>3. slots'[t] \in Asked(t)'
    BY <2>1 DEF Asked, IsParam
  <2>4. was'[t] \subseteq Pattern'
    BY <2>2, SameDeclaration
  <2>5. Wellformed(slots[t])'
    BY <2>1, SameDeclaration DEF Wellformed, Wide
  <2>6. Stepping(t)'
    <3>1. CASE calls[t].op # "write"
      BY <2>1, <3>1 DEF Stepping, IsParam
    <3>2. CASE calls[t].op = "write" /\ IsParam(t)
      <4>1. PICK v \in was[t] : slots[t].current = toUavCan(v)
        BY <2>1, <3>2 DEF Stepping
      <4>2. v \in was'[t] /\ toUavCan(v)' = toUavCan(v)
        BY <2>2, SameDeclaration
      <4>3. fromUavCan(slots[t].desired)' = fromUavCan(slots[t].desired)
        BY SameDeclaration DEF fromUavCan, downconvertInteger
      <4> QED BY <2>1, <3>2, <4>1, <4>2, <4>3 DEF Stepping, IsParam
    <3>3. CASE calls[t].op = "write" /\ ~IsParam(t)
      BY <2>1, <3>3 DEF Stepping, IsParam
    <3> QED BY <3>1, <3>2, <3>3
  <2> QED BY <2>2, <2>3, <2>4, <2>5, <2>6 DEF Fitting, Wellformed
<1> QED BY <1>1, <1>2

\* A request is over: its descriptor is free, the others have seen the field.
LEMMA SlotFreed ==
  ASSUME SlaveInv, NEW s \in Busy, decl' = decl, field' \in Pattern,
         calls' = [calls EXCEPT ![s] = NoCall], free(s), taken' = taken,
         \/ answered' = answered + 1 /\ silent' = silent
         \/ silent' = silent + 1 /\ answered' = answered
  PROVE  SlaveInv'
<1>1. /\ s \in Slot /\ slots' = [slots EXCEPT ![s] = NoRequest]
      /\ was' = [t \in Slot |-> IF t = s \/ t \notin Busy THEN {} ELSE was[t] \union {field'}]
  BY DEF free, Witnessed, Busy
<1>2. SlaveTypes'
  <2>1. slots' = [t \in Slot |-> slots'[t]] /\ calls' = [t \in Slot |-> calls'[t]]
    BY <1>1 DEF SlaveInv, SlaveTypes
  <2>2. was' = [t \in Slot |-> was'[t]]
    BY <1>1
  <2>3. taken' \in Nat /\ answered' \in Nat /\ silent' \in Nat
    BY DEF SlaveInv, SlaveTypes
  <2> QED BY <2>1, <2>2, <2>3, SameDeclaration DEF SlaveInv, SlaveTypes
<1>3. ASSUME NEW t \in Slot
      PROVE  Fitting(t)'
  <2>1. CASE t = s
    BY <1>1, <2>1 DEF SlaveInv, SlaveTypes, Fitting
  <2>2. CASE t # s
    <3>1. slots'[t] = slots[t] /\ calls'[t] = calls[t] /\ Fitting(t)
      BY <1>1, <2>2 DEF SlaveInv, SlaveTypes
    <3>2. slots[t] = NoRequest \/ was'[t] = was[t] \union {field'}
      BY <1>1, <2>2 DEF Busy
    <3> QED BY <3>1, <3>2, StillFitting
  <2> QED BY <2>1, <2>2
<1>4. Accounts'
  <2>1. Busy' = Busy \ {s}
    BY <1>1 DEF Busy, SlaveInv, SlaveTypes
  <2>2. Cardinality(Busy \ {s}) = Cardinality(Busy) - 1
    BY SlotsFinite, FS_RemoveElement
  <2>3. Cardinality(Busy') = Cardinality(Busy) - 1 /\ Cardinality(Busy) \in Nat
    BY <2>1, <2>2, SlotsFinite
  <2> QED BY <2>3 DEF Accounts, SlaveInv, SlaveTypes
<1> QED BY <1>2, <1>3, <1>4 DEF SlaveInv

\* A request goes on with its next call: the field is written now.
LEMMA SlotProceeds ==
  ASSUME SlaveInv, NEW s \in Busy, UNCHANGED <<decl, field, taken>>,
         NEW step, Proceed(s, step),
         \/ slots' = slots /\ step.op \in {"index", "info"}
         \/ /\ slots[s].op = "set" /\ slots' = [slots EXCEPT ![s].current = toUavCan(field)]
            /\ step.op = "write" /\ step.value = fromUavCan(slots[s].desired),
         IsParam(s)
  PROVE  SlaveInv'
<1>1. /\ s \in Slot /\ calls' = [calls EXCEPT ![s] = step]
      /\ was' = was /\ answered' = answered /\ silent' = silent
  BY DEF Proceed, Busy
<1>2. /\ slots[s] \in Asked(s) /\ field \in was[s] /\ was[s] \subseteq Pattern
      /\ Wellformed(slots[s])
  BY DEF SlaveInv, Fitting, Busy
<1>3. toUavCan(field) \in Nat
  BY Conversions DEF SlaveInv, SlaveTypes
<1>4. /\ slots'[s] \in Asked(s) /\ slots'[s].desired = slots[s].desired
      /\ slots'[s].op = slots[s].op /\ slots'[s].tag = slots[s].tag
      /\ step.op = "write" => slots'[s].current = toUavCan(field) /\ slots[s].op = "set"
  <2>1. CASE slots' = slots /\ step.op \in {"index", "info"}
    BY <1>2, <2>1
  <2>2. CASE slots[s].op = "set" /\ slots' = [slots EXCEPT ![s].current = toUavCan(field)]
    <3>1. slots'[s] = [slots[s] EXCEPT !.current = toUavCan(field)]
      BY <1>1, <2>2 DEF SlaveInv, SlaveTypes
    <3> QED BY <1>2, <1>3, <2>2, <3>1 DEF Asked
  <2> QED BY <2>1, <2>2
<1>5. SlaveTypes'
  <2>1. slots' = [t \in Slot |-> slots'[t]] /\ calls' = [t \in Slot |-> calls'[t]]
    BY <1>1 DEF SlaveInv, SlaveTypes
  <2> QED BY <1>1, <2>1, SameDeclaration DEF SlaveInv, SlaveTypes
<1>6. ASSUME NEW t \in Slot
      PROVE  Fitting(t)'
  <2>1. CASE t = s
    <3>1. calls'[s] = step /\ was'[s] = was[s]
      BY <1>1 DEF SlaveInv, SlaveTypes
    <3>2. slots'[s] \in Asked(s)' /\ field' \in was'[s] /\ was'[s] \subseteq Pattern'
      <4>1. slots'[s] \in Asked(s)'
        BY <1>4 DEF Asked, IsParam
      <4>2. was'[s] \subseteq Pattern'
        BY <1>2, <3>1, SameDeclaration
      <4> QED BY <1>2, <3>1, <4>1, <4>2
    <3>3. Wellformed(slots[s])'
      BY <1>2, <1>4, SameDeclaration DEF Wellformed, Wide
    <3>4. Stepping(s)'
      <4>1. (step.op \in {"index", "info"})
            \/ (step.op = "write" /\ step.value = fromUavCan(slots[s].desired))
        OBVIOUS
      <4>2. CASE step.op \in {"index", "info"}
        BY <3>1, <4>2 DEF Stepping, IsParam
      <4>3. CASE step.op = "write" /\ step.value = fromUavCan(slots[s].desired)
        <5>1. field \in was'[s] /\ slots'[s].current = toUavCan(field)'
          BY <1>2, <1>4, <3>1, <4>3 DEF toUavCan, upconvertInteger
        <5>2. fromUavCan(slots[s].desired)' = fromUavCan(slots[s].desired)
          BY <1>4 DEF fromUavCan, downconvertInteger
        <5> QED BY <1>4, <3>1, <4>3, <5>1, <5>2 DEF Stepping, IsParam
      <4> QED BY <4>1, <4>2, <4>3
    <3> QED BY <2>1, <3>2, <3>3, <3>4 DEF Fitting
  <2>2. CASE t # s
    <3>1. slots'[t] = slots[t] /\ calls'[t] = calls[t] /\ was'[t] = was[t] /\ Fitting(t)
      BY <1>1, <2>2 DEF SlaveInv, SlaveTypes
    <3> QED BY <3>1, StillFitting DEF SlaveInv, SlaveTypes
  <2> QED BY <2>1, <2>2
<1>7. Accounts'
  <2>1. Busy' = Busy
    <3>1. slots'[s] # NoRequest
      BY <1>4, AskedIsSomething
    <3> QED BY <1>1, <3>1 DEF Busy, SlaveInv, SlaveTypes
  <2> QED BY <1>1, <2>1 DEF Accounts, SlaveInv
<1> QED BY <1>5, <1>6, <1>7 DEF SlaveInv

\* The call a request starts with.
LEMMA FirstCalls ==
  ASSUME NEW q, NEW known
  PROVE  /\ q.op \in ParamOps /\ q.named => FirstCall(q, known) = [op |-> "index", known |-> known]
         /\ q.op \in ParamOps /\ ~q.named => FirstCall(q, known) = [op |-> "info", known |-> known]
         /\ q.op = "info" => FirstCall(q, known) = [op |-> "info", known |-> known]
         /\ q.op = "read" => FirstCall(q, known) = [op |-> "read", known |-> known]
         /\ q.op = "write" => FirstCall(q, known) =
               [op |-> "write", known |-> known, value |-> q.desired]
         /\ q.op \in FileOps => FirstCall(q, known) = [op |-> q.op]
BY DEF FirstCall, ParamOps, FileOps

\* A request is taken, or dropped because its pool is exhausted.
LEMMA SlotTaken ==
  ASSUME SlaveInv, NEW op \in ParamOps \union FieldOps \union FileOps, NEW named \in BOOLEAN,
         NEW tag \in Tags \union {"none"}, NEW desired \in Nat, NEW known \in BOOLEAN,
         Wellformed(Request(op, named, tag, desired)),
         Take(Request(op, named, tag, desired), known),
         UNCHANGED <<decl, field, answered, silent>>
  PROVE  SlaveInv'
<1> DEFINE q == Request(op, named, tag, desired)
           s == CHOOSE f \in Free(op) : \A g \in Free(op) : f[2] <= g[2]
<1>0. q = [op |-> op, named |-> named, tag |-> tag, desired |-> desired, current |-> 0]
  BY DEF Request
<1>1. CASE Free(op) = {}
  <2>1. UNCHANGED <<slots, calls, was, taken>>
    BY <1>0, <1>1 DEF Take
  <2>2. SlaveTypes' /\ Accounts'
    BY <2>1, SameDeclaration DEF SlaveInv, SlaveTypes, Accounts, Busy
  <2>3. \A t \in Slot : Fitting(t)'
    BY <2>1, StillFitting DEF SlaveInv, SlaveTypes
  <2> QED BY <2>2, <2>3 DEF SlaveInv
<1>2. CASE Free(op) # {}
  <2>1. /\ slots' = [slots EXCEPT ![s] = q]
        /\ calls' = [calls EXCEPT ![s] = FirstCall(q, known)]
        /\ was' = [was EXCEPT ![s] = {field}]
        /\ taken' = taken + 1
    BY <1>0, <1>2 DEF Take
  <2>2. s \in Free(op)
    <3> DEFINE N == {f[2] : f \in Free(op)}
    <3>1. \A f \in Free(op) : f[2] \in Nat
      BY DEF Free, PoolOf, Slot
    <3>2. N \in SUBSET Nat /\ N # {}
      BY <1>2, <3>1
    <3>3. PICK n \in N : \A k \in N : n <= k
      BY <3>2, Smallest
    <3>4. PICK f \in Free(op) : f[2] = n
      BY <3>3
    <3>5. \A g \in Free(op) : f[2] <= g[2]
      BY <3>3, <3>4
    <3> QED BY <3>5
  <2> HIDE DEF s
  <2>3. /\ s \in Slot /\ s \notin Busy /\ slots[s] = NoRequest
        /\ IsParam(s) <=> op \in ParamOps
    BY <2>2 DEF Free, PoolOf, Busy, IsParam
  <2>4. q \in Asked(s) /\ q # NoRequest
    <3>1. op \in IF IsParam(s) THEN ParamOps ELSE FieldOps \union FileOps
      BY <2>3
    <3>2. q \in Asked(s)
      BY <1>0, <3>1 DEF Asked
    <3> QED BY <3>2, AskedIsSomething
  <2>5. /\ FirstCall(q, known).op \in IF IsParam(s) THEN {"index", "info"} ELSE {op}
        /\ FirstCall(q, known).op = "write" => FirstCall(q, known).value = desired /\ ~IsParam(s)
    <3>0. q.op = op /\ q.desired = desired
      BY <1>0
    <3> HIDE DEF q
    <3>1. CASE op \in ParamOps
      <4>1. FirstCall(q, known).op \in {"index", "info"}
        BY <3>0, <3>1, FirstCalls
      <4> QED BY <2>3, <3>1, <4>1
    <3>2. CASE op \in FieldOps
      <4>1. FirstCall(q, known).op = op
        BY <3>0, <3>2, FirstCalls DEF FieldOps
      <4>2. op = "write" => FirstCall(q, known).value = desired
        BY <3>0, FirstCalls
      <4> QED BY <2>3, <3>2, <4>1, <4>2 DEF ParamOps, FieldOps
    <3>3. CASE op \in FileOps
      <4>1. FirstCall(q, known) = [op |-> op]
        BY <3>0, <3>3, FirstCalls
      <4>2. op # "write" /\ op \notin ParamOps
        BY <3>3 DEF ParamOps, FileOps
      <4>3. FirstCall(q, known).op = op
        BY <4>1
      <4> QED BY <2>3, <4>2, <4>3
    <3> QED BY <3>1, <3>2, <3>3
  <2>6. SlaveTypes'
    <3>1. /\ slots' = [t \in Slot |-> slots'[t]] /\ calls' = [t \in Slot |-> calls'[t]]
          /\ was' = [t \in Slot |-> was'[t]]
      BY <2>1 DEF SlaveInv, SlaveTypes
    <3> QED BY <2>1, <3>1, SameDeclaration DEF SlaveInv, SlaveTypes
  <2>7. ASSUME NEW t \in Slot
        PROVE  Fitting(t)'
    <3>1. CASE t = s
      <4>1. slots'[t] = q /\ calls'[t] = FirstCall(q, known) /\ was'[t] = {field}
        BY <2>1, <2>3, <3>1 DEF SlaveInv, SlaveTypes
      <4>2. /\ q.op = op /\ q.desired = desired /\ q.tag = tag
            /\ Wellformed(q) /\ q \in Asked(t)
            /\ FirstCall(q, known).op \in IF IsParam(t) THEN {"index", "info"} ELSE {op}
            /\ FirstCall(q, known).op = "write" =>
                 FirstCall(q, known).value = desired /\ ~IsParam(t)
        BY <1>0, <2>4, <2>5, <3>1
      <4> HIDE DEF q
      <4>3. Stepping(t)'
        BY <4>1, <4>2 DEF Stepping, IsParam
      <4>4. was'[t] \subseteq Pattern' /\ field' \in was'[t]
        BY <4>1, SameDeclaration DEF SlaveInv, SlaveTypes
      <4>5. Wellformed(slots[t])'
        BY <4>1, <4>2, SameDeclaration DEF Wellformed, Wide
      <4>6. slots'[t] \in Asked(t)'
        BY <4>1, <4>2 DEF Asked, IsParam
      <4> QED BY <4>3, <4>4, <4>5, <4>6 DEF Fitting
    <3>2. CASE t # s
      <4>1. slots'[t] = slots[t] /\ calls'[t] = calls[t] /\ was'[t] = was[t] /\ Fitting(t)
        BY <2>1, <3>2 DEF SlaveInv, SlaveTypes
      <4> QED BY <4>1, StillFitting DEF SlaveInv, SlaveTypes
    <3> QED BY <3>1, <3>2
  <2>8. Accounts'
    <3>1. Busy' = Busy \union {s}
      BY <2>1, <2>3, <2>4 DEF Busy, SlaveInv, SlaveTypes
    <3>2. Cardinality(Busy \union {s}) = Cardinality(Busy) + 1
      BY <2>3, SlotsFinite, FS_AddElement
    <3>3. Cardinality(Busy') = Cardinality(Busy) + 1 /\ Cardinality(Busy) \in Nat
      BY <3>1, <3>2, SlotsFinite
    <3> QED BY <2>1, <3>3 DEF Accounts, SlaveInv, SlaveTypes
  <2> QED BY <2>6, <2>7, <2>8 DEF SlaveInv
<1> QED BY <1>1, <1>2

\* What an answer has to be for AnswersAreHonest: the case of each request.
HonestAnswer(q, r, tag, v, seen) ==
  /\ q.op \in {"get", "set"} /\ r \in {"SUCCESS", "FAILED"} /\ Fits(q.desired)
       /\ (tag = fieldTag \/ (tag = "integer" /\ decl.type = "bool"))
     => v \in {Stands(x) : x \in seen}
  /\ q.op = "set" /\ r = "SUCCESS" => fromUavCan(q.desired) \in seen
  /\ q.op = "read" /\ r = "SUCCESS" => v \in seen
  /\ q.op = "write" /\ r = "SUCCESS" => q.desired \in seen

LEMMA Answered ==
  ASSUME SlaveInv, NEW s \in Busy, NEW r, NEW tag, NEW v,
         decl' = decl, field' \in Pattern, taken' = taken,
         AnswerTagged(s, r, tag, v), HonestAnswer(slots[s], r, tag, v, was[s] \union {field'})
  PROVE  SlaveInv' /\ AnswersAreHonest'
<1> DEFINE q == slots[s]
           seen == was[s] \union {field'}
<1>1. SlaveInv'
  BY SlotFreed DEF AnswerTagged
<1>2. told' = [op |-> q.op, result |-> r, tag |-> tag, value |-> v, desired |-> q.desired, was |-> seen]
  BY DEF AnswerTagged
<1>3. /\ told'.op = q.op /\ told'.result = r /\ told'.value = v /\ told'.tag = tag
      /\ told'.desired = q.desired /\ told'.was = seen
  BY <1>2
<1>4. HonestAnswer(q, r, tag, v, seen)
  OBVIOUS
<1> HIDE DEF q, seen
<1>5. Typed' = (tag = fieldTag \/ (tag = "integer" /\ decl.type = "bool"))
  BY <1>3, SameDeclaration DEF Typed
<1>6. Fits(told.desired)' = Fits(q.desired) /\ fromUavCan(told.desired)' = fromUavCan(q.desired)
  BY <1>3 DEF Fits, Stands, Negative, Signed, fromUavCan, downconvertInteger
<1>7. {Stands(x) : x \in told.was}' = {Stands(x) : x \in seen}
  BY <1>3 DEF Stands
<1>8. AnswersAreHonest'
  BY <1>3, <1>4, <1>5, <1>6, <1>7 DEF AnswersAreHonest, HonestAnswer
<1> QED BY <1>1, <1>8

LEMMA Untold ==
  ASSUME told' = Quiet
  PROVE  AnswersAreHonest'
BY DEF AnswersAreHonest, Quiet

LEMMA ErrorAnswered ==
  ASSUME SlaveInv, NEW s \in Busy, NEW r, NEW v, decl' = decl, field' \in Pattern, taken' = taken,
         ErrorAnswer(s, r, v), HonestAnswer(slots[s], r, "none", v, was[s] \union {field'})
  PROVE  SlaveInv' /\ AnswersAreHonest'
<1>1. CASE r = "COMPONENT_NOT_FOUND"
  <2>1. Silence(s)
    BY <1>1 DEF ErrorAnswer
  <2> QED BY <2>1, SlotFreed, Untold DEF Silence
<1>2. CASE r # "COMPONENT_NOT_FOUND"
  BY <1>2, Answered DEF ErrorAnswer, Answer
<1> QED BY <1>1, <1>2

\* A response with the value that goes over the bus for one the field had is honest:
\* a value of the field's tag is not cut.
LEMMA RespondsHonestly ==
  ASSUME SlaveInv, NEW s \in Busy, NEW r, NEW x \in Pattern,
         decl' = decl, field' \in Pattern, taken' = taken,
         sendGetSetResponse(s, r, toUavCan(x)), x \in was[s] \union {field'},
         slots[s].op = "get" \/ (slots[s].op = "set" /\ r # "SUCCESS")
  PROVE  SlaveInv' /\ AnswersAreHonest'
<1> DEFINE tag == IF slots[s].tag = "none" THEN "integer" ELSE slots[s].tag
           v == toUavCan(x) % Wide(tag)
<1>1. AnswerTagged(s, r, tag, v)
  BY DEF sendGetSetResponse
<1>2. /\ Stands(x) \in Nat /\ toUavCan(x) = Stands(x) /\ Stands(x) < Wide(fieldTag)
      /\ decl.type = "bool" => Stands(x) < Wide("integer")
  BY Conversions DEF SlaveInv, SlaveTypes
<1>3. Wide("integer") \in Nat \ {0} /\ Wide("real") \in Nat \ {0} /\ Wide("boolean") \in Nat \ {0}
  BY SlaveAssumption DEF Wide
<1>4. tag = fieldTag \/ (tag = "integer" /\ decl.type = "bool") => v = Stands(x)
  <2>1. \A n, w \in Nat : w # 0 /\ n < w => n % w = n
    OBVIOUS
  <2>2. fieldTag \in {"integer", "real", "boolean"}
    BY DEF fieldTag
  <2> HIDE DEF tag
  <2>3. CASE tag = fieldTag
    BY <1>2, <1>3, <2>1, <2>2, <2>3
  <2>4. CASE tag = "integer" /\ decl.type = "bool"
    BY <1>2, <1>3, <2>1, <2>4
  <2> QED BY <2>3, <2>4
<1> HIDE DEF tag, v
<1>5. HonestAnswer(slots[s], r, tag, v, was[s] \union {field'})
  BY <1>4 DEF HonestAnswer
<1> QED BY <1>1, <1>5, Answered

\* The device answers a call, whichever it is.
LEMMA DeviceAnswersKeeps ==
  ASSUME SlaveInv, NEW s \in Busy, UNCHANGED <<decl, taken>>,
         \/ fieldRequestIndex(s) \/ fieldRequestInfo(s)
         \/ fieldRead(s) \/ fieldWrite(s) \/ FileAnswers(s)
  PROVE  SlaveInv' /\ AnswersAreHonest'
<1> DEFINE Goal == SlaveInv' /\ AnswersAreHonest'
           q == slots[s]
<1>1. /\ s \in Slot /\ q \in Asked(s) /\ field \in was[s] /\ field \in Pattern
      /\ was[s] \subseteq Pattern /\ Wellformed(q) /\ Stepping(s) /\ decl \in Declaration
      /\ calls[s].op \in IF IsParam(s) THEN {"index", "info", "write"} ELSE {q.op}
  BY DEF SlaveInv, SlaveTypes, Fitting, Busy, Stepping
<1>2. /\ q.op \in ParamOps <=> IsParam(s)
      /\ q.op \in ParamOps \union FieldOps \union FileOps
      /\ q.desired \in Nat
  BY <1>1 DEF Asked, ParamOps, FieldOps, FileOps
<1>3. CASE fieldRequestIndex(s)
  <2>1. calls[s].op = "index" /\ field' = field
    BY <1>3 DEF fieldRequestIndex
  <2>2. IsParam(s)
    BY <1>1, <1>2, <2>1 DEF ParamOps, FieldOps, FileOps
  <2>3. CASE onFieldIndexReceived(s)
    <3>1. Proceed(s, [op |-> "info", known |-> TRUE]) /\ slots' = slots
      BY <2>3 DEF onFieldIndexReceived
    <3>2. SlaveInv'
      BY <2>1, <2>2, <3>1, SlotProceeds
    <3> QED BY <3>1, <3>2, Untold DEF Proceed
  <2>4. CASE onFieldIndexRequestError(s)
    <3>1. AnswerTagged(s, "EMPTY", "none", 0)
      BY <2>4 DEF onFieldIndexRequestError, Answer
    <3>2. HonestAnswer(q, "EMPTY", "none", 0, was[s] \union {field'})
      BY DEF HonestAnswer
    <3> QED BY <1>1, <2>1, <3>1, <3>2, Answered
  <2> QED BY <1>3, <2>3, <2>4 DEF fieldRequestIndex
<1>4. ASSUME NEW r, InfoFails(s, r), calls[s].op = "info", field' = field
      PROVE  Goal
  <2>1. CASE IsParam(s)
    <3>1. ErrorAnswer(s, "EMPTY", 0)
      BY <1>4, <2>1 DEF InfoFails, paramInfoRequestError
    <3>2. HonestAnswer(q, "EMPTY", "none", 0, was[s] \union {field'})
      BY DEF HonestAnswer
    <3> QED BY <1>1, <1>4, <3>1, <3>2, ErrorAnswered
  <2>2. CASE ~IsParam(s)
    <3>1. ErrorAnswer(s, r, 0)
      BY <1>4, <2>2 DEF InfoFails, onFieldInfoRequestError
    <3>2. HonestAnswer(q, r, "none", 0, was[s] \union {field'})
      BY <1>1, <1>4, <2>2 DEF HonestAnswer
    <3> QED BY <1>1, <1>4, <3>1, <3>2, ErrorAnswered
  <2> QED BY <2>1, <2>2
<1>5. CASE fieldRequestInfo(s)
  <2>1. calls[s].op = "info" /\ field' = field
    BY <1>5 DEF fieldRequestInfo
  <2>2. CASE \E r : InfoFails(s, r)
    BY <1>4, <2>1, <2>2
  <2>3. CASE IsParam(s) /\ \E seen \in Read : paramInfoReceived(s, seen.value)
    <3>1. paramInfoReceived(s, field)
      BY <2>3, ReadsField
    <3>2. CASE q.tag = "none"
      <4>1. sendGetSetResponse(s, "SUCCESS", toUavCan(field))
        BY <3>1, <3>2 DEF paramInfoReceived
      <4>2. q.op = "get"
        BY <1>1, <1>2, <2>3, <3>2 DEF Wellformed, ParamOps
      <4> QED BY <1>1, <2>1, <4>1, <4>2, RespondsHonestly
    <3>3. CASE q.tag # "none"
      <4>1. q.op = "set"
        BY <1>1, <1>2, <2>3, <3>3 DEF Wellformed, ParamOps
      <4> DEFINE step == [op |-> "write", known |-> TRUE, value |-> fromUavCan(slots[s].desired)]
      <4>2. slots' = [slots EXCEPT ![s].current = toUavCan(field)] /\ Proceed(s, step)
        BY <3>1, <3>3 DEF paramInfoReceived
      <4>3. SlaveInv'
        BY <2>1, <2>3, <4>1, <4>2, SlotProceeds
      <4> QED BY <4>2, <4>3, Untold DEF Proceed
    <3> QED BY <3>2, <3>3
  <2>4. CASE ~IsParam(s) /\ onFieldInfoReceived(s)
    <3>1. PICK r : AnswerTagged(s, r, "none", 0)
      BY <2>4 DEF onFieldInfoReceived, Answer
    <3>2. HonestAnswer(q, r, "none", 0, was[s] \union {field'})
      BY <1>1, <2>1, <2>4 DEF HonestAnswer
    <3> QED BY <1>1, <2>1, <3>1, <3>2, Answered
  <2> QED BY <1>5, <2>2, <2>3, <2>4, Zenon DEF fieldRequestInfo
<1>6. ASSUME NEW r, onFieldRequestError(s, r), field' \in Pattern, r \notin {"SUCCESS", "FAILED"}
      PROVE  Goal
  <2>1. ErrorAnswer(s, r, 0)
    BY <1>6 DEF onFieldRequestError
  <2>2. HonestAnswer(q, r, "none", 0, was[s] \union {field'})
    BY <1>6 DEF HonestAnswer
  <2> QED BY <1>6, <2>1, <2>2, ErrorAnswered
<1>7. CASE fieldRead(s)
  <2>1. calls[s].op = "read" /\ field' = field
    BY <1>7 DEF fieldRead
  <2>2. CASE \E r : onFieldRequestError(s, r) /\ r \notin {"SUCCESS", "FAILED"}
    BY <1>1, <1>6, <2>1, <2>2
  <2>3. CASE onFieldReceived(s, field)
    <3>1. AnswerTagged(s, "SUCCESS", "none", field)
      BY <2>3 DEF onFieldReceived, Answer
    <3>2. q.op = "read"
      BY <1>1, <2>1
    <3>3. HonestAnswer(q, "SUCCESS", "none", field, was[s] \union {field'})
      BY <1>1, <3>2 DEF HonestAnswer
    <3> QED BY <1>1, <2>1, <3>1, <3>3, Answered
  <2>4. \/ \E r : onFieldRequestError(s, r) /\ r \notin {"SUCCESS", "FAILED"}
        \/ onFieldReceived(s, field)
    <3>1. CASE ~calls[s].known
      BY <1>7, <3>1 DEF fieldRead
    <3>2. CASE calls[s].known
      <4>1. PICK seen \in Read : IF seen.result # "SUCCESS" THEN onFieldRequestError(s, seen.result)
                                 ELSE onFieldReceived(s, seen.value)
        BY <1>7, <3>2 DEF fieldRead
      <4> QED BY <4>1, ReadsField
    <3> QED BY <3>1, <3>2
  <2> QED BY <2>2, <2>3, <2>4
<1>8. CASE fieldWrite(s)
  <2> DEFINE v == calls[s].value
  <2>1. /\ calls[s].op = "write" /\ v \in Pattern
        /\ IsParam(s) => /\ q.op = "set" /\ v = fromUavCan(q.desired)
                         /\ \E x \in was[s] : q.current = toUavCan(x)
        /\ ~IsParam(s) => q.op = "write" /\ v = q.desired
    <3>1. calls[s].op = "write"
      BY <1>8 DEF fieldWrite
    <3>2. CASE IsParam(s)
      <4>1. /\ q.op = "set" /\ v = fromUavCan(q.desired)
            /\ \E x \in was[s] : q.current = toUavCan(x)
        BY <1>1, <3>1, <3>2 DEF Stepping
      <4>2. fromUavCan(q.desired) \in Pattern
        BY <1>1, <1>2, Conversions
      <4> QED BY <3>1, <3>2, <4>1, <4>2
    <3>3. CASE ~IsParam(s)
      <4>1. q.op = "write" /\ v = q.desired
        BY <1>1, <3>1, <3>3 DEF Stepping
      <4>2. q.desired \in Pattern
        BY <1>1, <4>1 DEF Wellformed
      <4> QED BY <3>1, <3>3, <4>1, <4>2
    <3> QED BY <3>2, <3>3
  <2>2. PICK done \in IF calls[s].known THEN Write(calls[s].value) ELSE {Kept("FIELD_NOT_FOUND")} :
          /\ field' = done.value
          /\ IF done.result = "SUCCESS"
             THEN IF IsParam(s) THEN paramFieldUpdated(s) ELSE onFieldUpdated(s)
             ELSE IF IsParam(s) THEN paramRequestError(s) ELSE onFieldRequestError(s, done.result)
    BY <1>8 DEF fieldWrite
  <2> HIDE DEF v
  <2>3. /\ field' \in Pattern
        /\ done.result = "SUCCESS" => field' = v
        /\ done.result # "FAILED"
    <3>1. CASE calls[s].known
      <4>1. done \in Write(v)
        BY <2>2, <3>1 DEF v
      <4> QED BY <1>1, <2>1, <2>2, <4>1, WritesField
    <3>2. CASE ~calls[s].known
      BY <1>1, <2>2, <3>2 DEF Kept
    <3> QED BY <3>1, <3>2
  <2>4. CASE done.result = "SUCCESS" /\ IsParam(s)
    <3> DEFINE tag == IF q.tag = "none" THEN "integer" ELSE q.tag
    <3>1. AnswerTagged(s, "SUCCESS", tag, q.desired % Wide(tag))
      BY <2>2, <2>4 DEF paramFieldUpdated, sendGetSetResponse
    <3>2. q.desired % Wide(tag) = q.desired
      <4>1. q.tag # "none" /\ q.desired < Wide(q.tag) /\ q.tag \in Tags
        BY <1>1, <2>1, <2>4 DEF Wellformed, Asked
      <4>2. Wide(q.tag) \in Nat \ {0}
        BY <4>1, SlaveAssumption DEF Wide, Tags
      <4>3. \A n, w \in Nat : w # 0 /\ n < w => n % w = n
        OBVIOUS
      <4> QED BY <1>2, <4>1, <4>2, <4>3
    <3> HIDE DEF tag
    <3>3. field' = fromUavCan(q.desired) /\ q.op = "set"
      BY <2>1, <2>3, <2>4
    <3>4. Fits(q.desired) => Stands(field') = q.desired
      BY <3>3 DEF Fits
    <3>5. HonestAnswer(q, "SUCCESS", tag, q.desired, was[s] \union {field'})
      BY <3>3, <3>4 DEF HonestAnswer
    <3> QED BY <1>1, <2>3, <3>1, <3>2, <3>5, Answered
  <2>5. CASE done.result = "SUCCESS" /\ ~IsParam(s)
    <3>1. AnswerTagged(s, "SUCCESS", "none", q.desired)
      BY <2>2, <2>5 DEF onFieldUpdated, Answer
    <3>2. HonestAnswer(q, "SUCCESS", "none", q.desired, was[s] \union {field'})
      BY <2>1, <2>3, <2>5 DEF HonestAnswer
    <3> QED BY <1>1, <2>3, <3>1, <3>2, Answered
  <2>6. CASE done.result # "SUCCESS" /\ IsParam(s)
    <3>1. PICK x \in was[s] : q.current = toUavCan(x)
      BY <2>1, <2>6
    <3>2. sendGetSetResponse(s, "FAILED", toUavCan(x))
      BY <2>2, <2>6, <3>1 DEF paramRequestError
    <3> QED BY <1>1, <2>1, <2>3, <2>6, <3>1, <3>2, RespondsHonestly
  <2>7. CASE done.result # "SUCCESS" /\ ~IsParam(s)
    BY <1>6, <2>2, <2>3, <2>7
  <2> QED BY <2>4, <2>5, <2>6, <2>7
<1>9. CASE FileAnswers(s)
  <2>1. calls[s].op \in FileOps /\ field' = field
    BY <1>9 DEF FileAnswers
  <2>2. PICK r \in {"SUCCESS", "FILE_ERROR", "COMPONENT_NOT_FOUND"} : ErrorAnswer(s, r, 0)
    BY <1>9 DEF FileAnswers
  <2>3. q.op \in FileOps
    BY <1>1, <2>1 DEF FileOps
  <2>4. HonestAnswer(q, r, "none", 0, was[s] \union {field'})
    BY <2>3 DEF HonestAnswer, FileOps
  <2> QED BY <1>1, <2>1, <2>2, <2>4, ErrorAnswered
<1> QED BY <1>3, <1>5, <1>7, <1>8, <1>9

LEMMA RequestsKeep ==
  ASSUME SlaveInv, AskParam \/ AskService
  PROVE  SlaveInv' /\ AnswersAreHonest'
<1>1. /\ told' = Quiet
      /\ UNCHANGED <<decl, field, answered, silent>>
  BY DEF AskParam, AskService
<1>2. CASE AskParam
  <2>1. PICK named \in BOOLEAN, known \in BOOLEAN :
          \/ Take(Request("get", named, "none", 0), known)
          \/ \E tag \in Tags, w \in Desired :
               Take(Request("set", named, tag, w % Wide(tag)), known)
    BY <1>2 DEF AskParam
  <2>2. CASE Take(Request("get", named, "none", 0), known)
    <3>1. Wellformed(Request("get", named, "none", 0))
      BY DEF Wellformed, Request
    <3>2. "get" \in ParamOps \union FieldOps \union FileOps /\ "none" \in Tags \union {"none"}
      BY DEF ParamOps
    <3> QED BY <1>1, <2>2, <3>1, <3>2, SlotTaken, Untold
  <2>3. CASE \E tag \in Tags, w \in Desired : Take(Request("set", named, tag, w % Wide(tag)), known)
    <3>1. PICK tag \in Tags, w \in Desired : Take(Request("set", named, tag, w % Wide(tag)), known)
      BY <2>3
    <3>2. w \in Nat
      <4> DEFINE W == 2^WireBits
      <4>1. W \in Nat /\ Desired \subseteq 0..(W - 1)
        BY SlaveAssumption
      <4> HIDE DEF W
      <4> QED BY <4>1
    <3>3. Wide(tag) \in Nat \ {0} /\ tag # "none"
      BY SlaveAssumption DEF Wide, Tags
    <3>4. w % Wide(tag) \in Nat /\ w % Wide(tag) < Wide(tag)
      BY <3>2, <3>3
    <3>5. Wellformed(Request("set", named, tag, w % Wide(tag)))
      BY <3>3, <3>4 DEF Wellformed, Request
    <3>6. "set" \in ParamOps \union FieldOps \union FileOps /\ tag \in Tags \union {"none"}
      BY DEF ParamOps
    <3> QED BY <1>1, <3>1, <3>4, <3>5, <3>6, SlotTaken, Untold
  <2> QED BY <2>1, <2>2, <2>3
<1>3. CASE AskService
  <2>1. \/ \E known \in BOOLEAN, op \in {"info", "read"} : Take(Request(op, FALSE, "none", 0), known)
        \/ \E known \in BOOLEAN, v \in Pattern : Take(Request("write", FALSE, "none", v), known)
        \/ \E op \in FileOps : Take(Request(op, FALSE, "none", 0), TRUE)
    BY <1>3 DEF AskService
  <2>2. CASE \E known \in BOOLEAN, op \in {"info", "read"} : Take(Request(op, FALSE, "none", 0), known)
    <3>1. PICK known \in BOOLEAN, op \in {"info", "read"} : Take(Request(op, FALSE, "none", 0), known)
      BY <2>2
    <3>2. Wellformed(Request(op, FALSE, "none", 0))
      BY DEF Wellformed, Request
    <3>3. op \in ParamOps \union FieldOps \union FileOps /\ "none" \in Tags \union {"none"}
      BY DEF FieldOps
    <3> QED BY <1>1, <3>1, <3>2, <3>3, SlotTaken, Untold
  <2>3. CASE \E known \in BOOLEAN, v \in Pattern : Take(Request("write", FALSE, "none", v), known)
    <3>1. PICK known \in BOOLEAN, v \in Pattern : Take(Request("write", FALSE, "none", v), known)
      BY <2>3
    <3>2. v \in Nat
      BY Conversions DEF SlaveInv, SlaveTypes
    <3>3. Wellformed(Request("write", FALSE, "none", v))
      BY DEF Wellformed, Request
    <3>4. "write" \in ParamOps \union FieldOps \union FileOps /\ "none" \in Tags \union {"none"}
      BY DEF FieldOps
    <3> QED BY <1>1, <3>1, <3>2, <3>3, <3>4, SlotTaken, Untold
  <2>4. CASE \E op \in FileOps : Take(Request(op, FALSE, "none", 0), TRUE)
    <3>1. PICK op \in FileOps : Take(Request(op, FALSE, "none", 0), TRUE)
      BY <2>4
    <3>2. op \notin {"get", "set", "write"}
      BY DEF FileOps
    <3>3. Wellformed(Request(op, FALSE, "none", 0))
      BY <3>2 DEF Wellformed, Request
    <3>4. op \in ParamOps \union FieldOps \union FileOps /\ "none" \in Tags \union {"none"}
      OBVIOUS
    <3> QED BY <1>1, <3>1, <3>3, <3>4, SlotTaken, Untold
  <2> QED BY <2>1, <2>2, <2>3, <2>4
<1> QED BY <1>2, <1>3

\* Every request that waits has seen what the application writes.
LEMMA WritesKeep ==
  ASSUME SlaveInv, ApplicationWrites
  PROVE  SlaveInv' /\ AnswersAreHonest'
<1>1. /\ field' \in Pattern /\ told' = Quiet
      /\ was' = [s \in Slot |-> IF s \in Busy THEN was[s] \union {field'} ELSE {}]
      /\ UNCHANGED <<decl, slots, calls, taken, answered, silent>>
  BY DEF ApplicationWrites
<1>2. SlaveTypes'
  BY <1>1, SameDeclaration DEF SlaveInv, SlaveTypes
<1>3. ASSUME NEW s \in Slot
      PROVE  Fitting(s)'
  <2>1. Fitting(s) /\ (s \notin Busy <=> slots[s] = NoRequest)
    BY DEF SlaveInv, Busy
  <2>2. slots[s] = NoRequest \/ was'[s] = was[s] \union {field'}
    BY <1>1, <2>1
  <2> QED BY <1>1, <2>1, <2>2, StillFitting
<1>4. Accounts'
  BY <1>1 DEF SlaveInv, Accounts, Busy
<1> QED BY <1>1, <1>2, <1>3, <1>4, Untold DEF SlaveInv

LEMMA SlaveInitially == SlaveInit => SlaveInv /\ AnswersAreHonest
<1> SUFFICES ASSUME SlaveInit
             PROVE  SlaveInv /\ AnswersAreHonest
  OBVIOUS
<1>1. AnswersAreHonest
  BY DEF SlaveInit, AnswersAreHonest, Quiet
<1>2. Accounts
  <2>1. Busy = {}
    BY DEF SlaveInit, Busy
  <2> QED BY <2>1, FS_EmptySet DEF SlaveInit, Accounts
<1> QED BY <1>1, <1>2 DEF SlaveInit, SlaveInv, SlaveTypes, Fitting

LEMMA SlaveSteps ==
  ASSUME SlaveInv, AnswersAreHonest, [SlaveNext]_slaveVars
  PROVE  SlaveInv' /\ AnswersAreHonest'
<1>1. CASE DeviceAnswers
  <2>1. PICK s \in Busy : \/ fieldRequestIndex(s) \/ fieldRequestInfo(s)
                          \/ fieldRead(s) \/ fieldWrite(s) \/ FileAnswers(s)
    BY <1>1 DEF DeviceAnswers
  <2> QED BY <1>1, <2>1, DeviceAnswersKeeps DEF DeviceAnswers
<1>2. CASE UNCHANGED slaveVars
  <2> USE <1>2 DEF slaveVars
  <2>1. SlaveTypes' /\ Accounts'
    BY SameDeclaration DEF SlaveInv, SlaveTypes, Accounts, Busy
  <2>2. \A s \in Slot : Fitting(s)'
    BY StillFitting DEF SlaveInv, SlaveTypes
  <2>3. AnswersAreHonest'
    BY DEF AnswersAreHonest, Typed, fieldTag, Fits, Stands, Negative, Signed, fromUavCan,
           downconvertInteger, doubleToFloat
  <2> QED BY <2>1, <2>2, <2>3 DEF SlaveInv
<1> QED BY <1>1, <1>2, RequestsKeep, WritesKeep DEF SlaveNext

\* A descriptor of the parameter service and of the others is taken exactly while the
\* device owes an answer for it, and every request taken is answered once or, where
\* the field or the component is not there, passed over.
THEOREM SlotsMatch == SlaveSpec => []SlotsMatchCalls
<1>1. SlaveInv => SlotsMatchCalls
  <2> SUFFICES ASSUME SlaveInv
               PROVE  SlotsMatchCalls
    OBVIOUS
  <2>1. ASSUME NEW s \in Slot
        PROVE  (slots[s] = NoRequest) = (calls[s] = NoCall)
    <3>1. CASE slots[s] = NoRequest
      BY <3>1, AskedIsSomething DEF SlaveInv, Fitting
    <3>2. CASE slots[s] # NoRequest
      <4>1. calls[s].op \in IF IsParam(s) THEN {"index", "info", "write"} ELSE {slots[s].op}
        BY <3>2 DEF SlaveInv, Fitting, Stepping
      <4>2. ~IsParam(s) => slots[s].op \in FieldOps \union FileOps
        BY <3>2 DEF SlaveInv, Fitting, Asked
      <4>3. calls[s].op # "none"
        BY <4>1, <4>2 DEF FieldOps, FileOps
      <4> QED BY <3>2, <4>3 DEF NoCall
    <3> QED BY <3>1, <3>2
  <2> QED BY <2>1 DEF SlaveInv, Accounts, SlotsMatchCalls
<1> QED BY <1>1, SlaveInitially, SlaveSteps, PTL DEF SlaveSpec

\* What an answer of the field's type tells of the field, for a value asked for that fits
\* it and a field that was not negative, is a value the field had between the question and
\* the answer, whatever the application and the other requests wrote meanwhile; a write
\* that is answered as done was done.  AnswersAreHonest names the answers it leaves out:
\* that of a getter to a field of reals, and that of a setter with another tag.
THEOREM HonestAnswers == SlaveSpec => []AnswersAreHonest
BY SlaveInitially, SlaveSteps, PTL DEF SlaveSpec

-----------------------------------------------------------------------------
(* FileUpload, for every capacity, content and number of restarts.        *)

Message == [read : BOOLEAN, offset : Nat, n : Nat]
Reply   == [to : Message, done : BOOLEAN, data : Seq(Nat)]
Ending  == [read |-> FALSE, n |-> 0, offset |-> IF total = 0 THEN kFileReservedPosition ELSE total]

\* The file holds a beginning of the content.
Beginning == size <= total /\ data = [i \in 1..size |-> i]
Whole == (data = Source /\ finalized) \/ (reboots > 0 /\ size = 0)

\* What is under way is about the content.
Proper(m) ==
  ~m.read => \/ m.n = 0 /\ (m.offset = 0 \/ m = Ending)
             \/ m.n > 0 /\ m.offset + m.n <= total
Told(r) == r.to.read => /\ r.done = (r.data # <<>>)
                        /\ r.data = [i \in 1..Len(r.data) |-> r.to.offset + i]
                        /\ r.done => r.to.offset + Len(r.data) <= total

\* Behind a message about what the client is doing now there is no older one.
InOrder ==
  /\ \A i, j \in 1..Len(replies) : i < j /\ replies[i].to \in Question => replies[j].to \in Question
  /\ \A i \in 1..Len(replies), j \in 1..Len(requests) :
       replies[i].to \in Question => requests[j] \in Question
  /\ \A i, j \in 1..Len(requests) : i < j /\ requests[i] \in Question => requests[j] \in Question

\* Once an ending was carried out, nothing is under way that undoes it.
Ended ==
  /\ goal = "end" => \A i \in 1..Len(replies) : replies[i].to = Ending /\ replies[i].done => Whole
  /\ goal \in {"read", "done"} =>
       /\ Whole
       /\ \A i \in 1..Len(replies) : replies[i].to.read \/ replies[i].to = Ending
       /\ \A i \in 1..Len(requests) : requests[i].read \/ requests[i] = Ending

UploadTypes ==
  /\ total \in Lengths /\ data \in Seq(Nat) /\ reboots \in Nat /\ place \in 0..total
  /\ requests \in Seq(Message) /\ replies \in Seq(Reply)
  /\ goal \in {"start", "write", "end", "read", "done"}
  /\ \A i \in 1..Len(requests) : Proper(requests[i])
  /\ \A i \in 1..Len(replies) : Proper(replies[i].to) /\ Told(replies[i])

UploadInv == UploadTypes /\ Beginning /\ InOrder /\ Ended

\* What the client may ask, by what it is about to do.
Asks(m) ==
  /\ m \in Message /\ Proper(m)
  /\ goal = "start" => m = [read |-> FALSE, offset |-> 0, n |-> 0]
  /\ goal = "write" => ~m.read /\ m.offset = place /\ m.n > 0 /\ place + m.n <= total
  /\ goal = "end" => m = Ending
  /\ goal = "read" => m.read /\ m.offset = place
  /\ goal # "done"

LEMMA Questions == UploadTypes => Ending \in Message /\ (\A m \in Question : Asks(m))
<1> SUFFICES ASSUME UploadTypes
             PROVE  Ending \in Message /\ (\A m \in Question : Asks(m))
  OBVIOUS
<1>1. total \in Nat /\ kFileReservedPosition \in Nat /\ ChunkLengths \subseteq Nat \ {0}
  BY UploadAssumption DEF UploadTypes
<1>2. Ending \in Message
  BY <1>1 DEF Ending, Message
<1>3. ASSUME NEW m \in Question
      PROVE  Asks(m)
  <2> USE DEF Asks
  <2>1. CASE goal = "start"
    <3>1. Question = {[read |-> FALSE, offset |-> 0, n |-> 0]}
      BY <2>1 DEF Question
    <3>2. m = [read |-> FALSE, offset |-> 0, n |-> 0]
      BY <1>3, <3>1
    <3> QED BY <2>1, <3>2 DEF Message, Proper
  <2>2. CASE goal = "write"
    <3>1. Question = {[read |-> FALSE, offset |-> place, n |-> n] :
                        n \in {k \in ChunkLengths : place + k <= total}}
      BY <2>2 DEF Question
    <3>2. PICK n \in ChunkLengths : /\ place + n <= total
                                    /\ m = [read |-> FALSE, offset |-> place, n |-> n]
      BY <1>3, <3>1
    <3>3. place \in Nat /\ n \in Nat \ {0}
      BY <1>1 DEF UploadTypes
    <3> QED BY <2>2, <3>2, <3>3 DEF Message, Proper
  <2>3. CASE goal = "end"
    <3>1. Question = {Ending}
      BY <2>3 DEF Question, Ending
    <3>2. m = Ending
      BY <1>3, <3>1
    <3>3. Ending.n = 0
      BY DEF Ending
    <3> QED BY <1>2, <2>3, <3>2, <3>3 DEF Proper
  <2>4. CASE goal = "read"
    <3>1. Question = {[read |-> TRUE, offset |-> place, n |-> n] : n \in ChunkLengths}
      BY <2>4 DEF Question
    <3>2. PICK n \in ChunkLengths : m = [read |-> TRUE, offset |-> place, n |-> n]
      BY <1>3, <3>1
    <3>3. place \in Nat /\ n \in Nat \ {0}
      BY <1>1 DEF UploadTypes
    <3> QED BY <2>4, <3>2, <3>3 DEF Message, Proper
  <2>5. CASE goal = "done"
    BY <1>3, <2>5 DEF Question
  <2> QED BY <2>1, <2>2, <2>3, <2>4, <2>5 DEF UploadTypes
<1> QED BY <1>2, <1>3

\* What the device makes of the chunk of a message: a longer beginning.
LEMMA Writes ==
  ASSUME UploadTypes, Beginning, NEW m \in Message, Proper(m), ~m.read
  PROVE  LET r == fileWrite(m)
         IN  /\ r.data \in Seq(Nat) /\ Len(r.data) <= total
             /\ r.data = [i \in 1..Len(r.data) |-> i]
             /\ m = Ending => /\ r.data = data /\ r.finalized = (finalized \/ r.done)
                              /\ r.done => size = total
<1> DEFINE r == fileWrite(m)
<1> USE DEF size
<1>1. size \in Nat /\ total \in Nat /\ kFileReservedPosition \in Nat \ {0}
  BY UploadAssumption DEF UploadTypes
<1>2. data \in Seq(Nat) /\ data = [i \in 1..size |-> i] /\ size <= total
  BY DEF UploadTypes, Beginning
<1>3. CASE m.n = 0 /\ m.offset = 0
  <2>1. r.data = IF readonly THEN data ELSE <<>>
    BY <1>3 DEF fileWrite, restartWrite
  <2>2. m # Ending
    BY <1>1, <1>3 DEF Ending
  <2> QED BY <1>1, <1>2, <2>1, <2>2
<1>4. CASE m.n = 0 /\ m.offset # 0
  <2>1. r = finalizeWrite(m.offset)
    BY <1>4 DEF fileWrite
  <2>2. m = Ending
    BY <1>4 DEF Proper
  <2>3. total # kFileReservedPosition
    BY UploadAssumption DEF UploadTypes
  <2> DEFINE equal == ~readonly /\ (IF m.offset = kFileReservedPosition THEN 0 ELSE m.offset) = size
  <2>4. r = [done |-> equal, data |-> data, finalized |-> finalized \/ equal]
    BY <2>1 DEF finalizeWrite
  <2>5. r.data = data /\ r.done = equal /\ r.finalized = (finalized \/ equal)
    <3> HIDE DEF r, equal
    <3> QED BY <2>4, Zenon
  <2>6. equal => size = total
    BY <1>1, <2>2, <2>3 DEF Ending
  <2> HIDE DEF equal, r
  <2>7. r.data = data /\ r.finalized = (finalized \/ r.done) /\ (r.done => size = total)
    BY <2>5, <2>6, Zenon
  <2>8. r.data \in Seq(Nat) /\ Len(r.data) <= total /\ r.data = [i \in 1..Len(r.data) |-> i]
    BY <1>2, <2>7
  <2> QED BY <2>7, <2>8, Zenon DEF r
<1>5. CASE m.n > 0
  <2>1. m.offset \in Nat /\ m.n \in Nat /\ m.offset + m.n <= total /\ m # Ending
    BY <1>5 DEF Proper, Message, Ending
  <2>2. r = writeChunk(m.offset, m.n)
    BY <1>5, <2>1 DEF fileWrite
  <2>3. r.data = data \/ r.data = data \o Stored(m.offset, m.n)
    BY <2>2 DEF writeChunk
  <2>4. CASE r.data = data \/ Stored(m.offset, m.n) = <<>>
    <3>1. r.data = data
      BY <1>2, <2>3, <2>4
    <3> QED BY <1>2, <2>1, <3>1
  <2>5. CASE r.data # data /\ Stored(m.offset, m.n) # <<>>
    <3> DEFINE more == m.offset + m.n - size
               u == [i \in 1..more |-> size + i]
    <3>0. m.offset <= size /\ size - m.offset < m.n
      BY <2>5, Zenon DEF Stored
    <3>1. more \in Nat /\ u \in Seq(Nat) /\ Len(u) = more
      <4>1. more \in Nat
        BY <1>1, <2>1, <3>0
      <4> HIDE DEF more
      <4>2. u \in [1..more -> Nat]
        BY <1>1, <4>1
      <4> HIDE DEF u
      <4> QED BY <4>1, <4>2
    <3>2. r.data = data \o u
      BY <2>3, <2>5 DEF Stored
    <3>3. \A i \in 1..more : u[i] = size + i
      OBVIOUS
    <3>4. data \o u \in Seq(Nat) /\ Len(data \o u) = size + more
      BY <1>2, <3>1
    <3>5. size + more = m.offset + m.n
      BY <1>1, <2>1
    <3>6. \A i \in 1..(size + more) : (data \o u)[i] = i
      <4> HIDE DEF more
      <4> SUFFICES ASSUME NEW i \in 1..(size + more)
                   PROVE  (data \o u)[i] = i
        OBVIOUS
      <4>1. (data \o u)[i] = IF i <= size THEN data[i] ELSE u[i - size]
        BY <1>2, <3>1
      <4>2. CASE i <= size
        BY <1>1, <1>2, <3>1, <4>1, <4>2
      <4>3. CASE ~(i <= size)
        BY <1>1, <3>1, <3>3, <4>1, <4>3
      <4> QED BY <4>2, <4>3
    <3> HIDE DEF more, u
    <3>7. data \o u = [i \in 1..(size + more) |-> i]
      <4> DEFINE d == data \o u
      <4>1. d \in Seq(Nat) /\ Len(d) = size + more /\ \A i \in 1..(size + more) : d[i] = i
        BY <3>4, <3>6
      <4> HIDE DEF d
      <4>2. d = [i \in 1..(size + more) |-> d[i]]
        BY <4>1
      <4>3. d = [i \in 1..(size + more) |-> i]
        BY <4>1, <4>2
      <4> QED BY <4>3 DEF d
    <3> QED BY <2>1, <3>2, <3>4, <3>5, <3>7
  <2> QED BY <2>4, <2>5
<1> QED BY <1>3, <1>4, <1>5 DEF Message

LEMMA QuestionsNext == UploadTypes' => (Ending \in Message /\ (\A m \in Question : Asks(m)))'
BY Questions, PTL

\* A part of 1, 2, 3 and so on.
LEMMA Sliced ==
  ASSUME NEW n \in Nat, NEW p \in Nat, NEW k \in Nat, p + k <= n
  PROVE  /\ SubSeq([i \in 1..n |-> i], p + 1, p + k) = [i \in 1..k |-> p + i]
         /\ [i \in 1..k |-> p + i] \in Seq(Nat) /\ Len([i \in 1..k |-> p + i]) = k
<1> DEFINE s == [i \in 1..n |-> i]
           u == SubSeq(s, p + 1, p + k)
           v == [i \in 1..k |-> p + i]
<1>1. s \in Seq(Nat) /\ Len(s) = n
  <2>1. s \in [1..n -> Nat]
    OBVIOUS
  <2> HIDE DEF s
  <2> QED BY <2>1
<1>2. v \in Seq(Nat) /\ Len(v) = k
  <2>1. v \in [1..k -> Nat]
    OBVIOUS
  <2> HIDE DEF v
  <2> QED BY <2>1
<1>3. \A i \in 1..n : s[i] = i
  OBVIOUS
<1> HIDE DEF s
<1>4. u \in Seq(Nat) /\ Len(u) = k
  BY <1>1
<1>5. \A i \in 1..k : u[i] = s[p + i]
  BY <1>1
<1>6. \A i \in 1..k : u[i] = p + i
  BY <1>3, <1>5
<1> HIDE DEF u
<1>7. u = [i \in 1..k |-> u[i]]
  BY <1>4
<1>8. u = v
  BY <1>6, <1>7
<1> QED BY <1>2, <1>8 DEF u, s, v

LEMMA SendsKeep ==
  ASSUME UploadInv, ClientSends
  PROVE  UploadInv'
<1>1. PICK q \in Question : requests' = Append(requests, q)
  BY DEF ClientSends
<1>2. UNCHANGED <<readonly, total, data, finalized, replies, goal, place, reboots>>
  BY DEF ClientSends
<1>3. Question' = Question /\ Ending' = Ending
  BY <1>2 DEF Question, Ending
<1>4. Asks(q)
  BY Questions DEF UploadInv
<1>5. /\ requests' \in Seq(Message) /\ Len(requests') = Len(requests) + 1
      /\ requests'[Len(requests) + 1] = q
      /\ \A i \in 1..Len(requests) : requests'[i] = requests[i]
  BY <1>1, <1>4 DEF Asks, UploadInv, UploadTypes
<1>6. \A i \in 1..Len(requests') : i \in 1..Len(requests) \/ requests'[i] = q
  BY <1>5 DEF UploadInv, UploadTypes
<1>7. UploadTypes' /\ Beginning'
  <2>1. \A i \in 1..Len(requests') : Proper(requests'[i])
    BY <1>4, <1>5, <1>6 DEF UploadInv, UploadTypes, Asks
  <2>2. \A i \in 1..Len(requests') : Proper(requests[i])'
    BY <1>2, <1>3, <2>1 DEF Proper
  <2>3. \A i \in 1..Len(replies') : Proper(replies[i].to)' /\ Told(replies[i])'
    BY <1>2, <1>3 DEF UploadInv, UploadTypes, Proper, Told
  <2> QED BY <1>2, <1>5, <2>2, <2>3 DEF UploadInv, UploadTypes, Beginning, size
<1>8. InOrder'
  <2> USE <1>2, <1>3, <1>5, <1>6 DEF UploadInv, InOrder
  <2>1. \A i \in 1..Len(replies'), j \in 1..Len(requests') :
          replies'[i].to \in Question' => requests'[j] \in Question'
    OBVIOUS
  <2>2. ASSUME NEW i \in 1..Len(requests'), NEW j \in 1..Len(requests'), i < j,
               requests'[i] \in Question'
        PROVE  requests'[j] \in Question'
    <3>1. i \in 1..Len(requests)
      <4>1. Len(requests) \in Nat
        BY DEF UploadTypes
      <4> QED BY <2>2, <4>1
    <3> QED BY <2>2, <3>1
  <2> QED BY <2>1, <2>2
<1>9. Ended'
  BY <1>2, <1>3, <1>4, <1>5, <1>6 DEF UploadInv, Ended, Asks, Whole, Source, size
<1> QED BY <1>7, <1>8, <1>9 DEF UploadInv

LEMMA RestartsKeep ==
  ASSUME UploadInv, DeviceRestarts
  PROVE  UploadInv'
<1>1. /\ data' = <<>> /\ requests' = <<>> /\ reboots' = reboots + 1
      /\ UNCHANGED <<readonly, total, replies, goal, place>>
  BY DEF DeviceRestarts
<1>2. Question' = Question /\ Ending' = Ending
  BY <1>1 DEF Question, Ending
<1>3. UploadTypes' /\ Beginning'
  BY <1>1, <1>2, UploadAssumption
     DEF UploadInv, UploadTypes, Beginning, size, Proper, Told
<1>4. InOrder'
  BY <1>1, <1>2 DEF UploadInv, InOrder
<1>5. Whole'
  BY <1>1 DEF UploadInv, UploadTypes, Whole, size
<1>6. Ended'
  BY <1>1, <1>2, <1>5 DEF UploadInv, Ended
<1> QED BY <1>3, <1>4, <1>6 DEF UploadInv

\* What is lost leaves the rest in its order.
LEMMA LossesKeep ==
  ASSUME UploadInv, Lost
  PROVE  UploadInv'
<1> USE DEF UploadInv
<1>1. UNCHANGED <<readonly, total, data, finalized, goal, place, reboots>>
  BY DEF Lost
<1>2. Question' = Question /\ Ending' = Ending /\ (Whole' <=> Whole)
  BY <1>1 DEF Question, Ending, Whole, Source, size
<1>3. \A m : (Proper(m)' <=> Proper(m)) /\ (Told(m)' <=> Told(m))
  BY <1>1, <1>2 DEF Proper, Told
<1>4. Beginning'
  BY <1>1 DEF Beginning, size
<1> DEFINE here(k, i) == IF k < i THEN k ELSE k + 1
<1>5. ASSUME NEW i \in 1..Len(requests), requests' = RemoveAt(requests, i), replies' = replies
      PROVE  UploadInv'
  <2>1. /\ requests' \in Seq(Message) /\ Len(requests') = Len(requests) - 1
        /\ \A k \in 1..(Len(requests) - 1) : requests'[k] = requests[here(k, i)]
    BY <1>5, Removed DEF Without, RemoveAt, UploadTypes
  <2>2. \A k \in 1..Len(requests') :
          here(k, i) \in 1..Len(requests) /\ requests'[k] = requests[here(k, i)]
    BY <2>1 DEF UploadTypes
  <2>3. \A j, k \in 1..Len(requests') : j < k => here(j, i) < here(k, i)
    OBVIOUS
  <2> HIDE DEF here
  <2>4. UploadTypes'
    BY <1>1, <1>3, <1>5, <2>1, <2>2 DEF UploadTypes
  <2>5. InOrder'
    <3>1. ASSUME NEW j \in 1..Len(requests'), NEW k \in 1..Len(requests'), j < k,
                 requests'[j] \in Question
          PROVE  requests'[k] \in Question
      <4>1. /\ here(j, i) \in 1..Len(requests) /\ here(k, i) \in 1..Len(requests)
            /\ requests'[j] = requests[here(j, i)] /\ requests'[k] = requests[here(k, i)]
        BY <2>2
      <4>2. here(j, i) < here(k, i)
        BY <2>3, <3>1
      <4> QED BY <3>1, <4>1, <4>2, Zenon DEF InOrder
    <3>2. ASSUME NEW j \in 1..Len(replies), NEW k \in 1..Len(requests'),
                 replies[j].to \in Question
          PROVE  requests'[k] \in Question
      BY <2>2, <3>2, Zenon DEF InOrder
    <3> QED BY <1>2, <1>5, <3>1, <3>2, Zenon DEF InOrder
  <2>6. Ended'
    BY <1>1, <1>2, <1>5, <2>2 DEF Ended
  <2> QED BY <1>4, <2>4, <2>5, <2>6
<1>6. ASSUME NEW i \in 1..Len(replies), replies' = RemoveAt(replies, i), requests' = requests
      PROVE  UploadInv'
  <2>1. /\ replies' \in Seq(Reply) /\ Len(replies') = Len(replies) - 1
        /\ \A k \in 1..(Len(replies) - 1) : replies'[k] = replies[here(k, i)]
    BY <1>6, Removed DEF Without, RemoveAt, UploadTypes
  <2>2. \A k \in 1..Len(replies') :
          here(k, i) \in 1..Len(replies) /\ replies'[k] = replies[here(k, i)]
    BY <2>1 DEF UploadTypes
  <2>3. \A j, k \in 1..Len(replies') : j < k => here(j, i) < here(k, i)
    OBVIOUS
  <2> HIDE DEF here
  <2>4. UploadTypes'
    BY <1>1, <1>3, <1>6, <2>1, <2>2 DEF UploadTypes
  <2>5. InOrder'
    <3>1. ASSUME NEW j \in 1..Len(replies'), NEW k \in 1..Len(replies'), j < k,
                 replies'[j].to \in Question
          PROVE  replies'[k].to \in Question
      <4>1. /\ here(j, i) \in 1..Len(replies) /\ here(k, i) \in 1..Len(replies)
            /\ replies'[j] = replies[here(j, i)] /\ replies'[k] = replies[here(k, i)]
        BY <2>2
      <4>2. here(j, i) < here(k, i)
        BY <2>3, <3>1
      <4> QED BY <3>1, <4>1, <4>2, Zenon DEF InOrder
    <3>2. ASSUME NEW j \in 1..Len(replies'), NEW k \in 1..Len(requests),
                 replies'[j].to \in Question
          PROVE  requests[k] \in Question
      BY <2>2, <3>2, Zenon DEF InOrder
    <3> QED BY <1>2, <1>6, <3>1, <3>2, Zenon DEF InOrder
  <2>6. Ended'
    BY <1>1, <1>2, <1>6, <2>2 DEF Ended
  <2> QED BY <1>4, <2>4, <2>5, <2>6
<1> QED BY <1>5, <1>6 DEF Lost

\* A request is carried out: its answer goes behind those under way.
LEMMA Served ==
  ASSUME UploadInv, requests # <<>>, requests' = Tail(requests),
         NEW r \in Reply, r.to = Head(requests), replies' = Append(replies, r),
         UNCHANGED <<total, goal, place, reboots>>, Told(r)
  PROVE  /\ requests' \in Seq(Message) /\ replies' \in Seq(Reply)
         /\ \A i \in 1..Len(requests') : requests'[i] = requests[i + 1] /\ i + 1 \in 1..Len(requests)
         /\ \A i \in 1..Len(replies') :
              \/ i \in 1..Len(replies) /\ replies'[i] = replies[i]
              \/ i = Len(replies) + 1 /\ replies'[i] = r
         /\ \A i \in 1..Len(requests') : Proper(requests[i])'
         /\ \A i \in 1..Len(replies') : Proper(replies[i].to)' /\ Told(replies[i])'
         /\ InOrder'
<1> USE DEF UploadInv
<1>1. Question' = Question /\ \A m : (Proper(m)' <=> Proper(m)) /\ (Told(m)' <=> Told(m))
  BY DEF Question, Proper, Told, Ending
<1>2. requests \in Seq(Message) /\ replies \in Seq(Reply) /\ Len(requests) \in Nat \ {0}
  BY DEF UploadTypes
<1>3. /\ requests' \in Seq(Message)
      /\ \A i \in 1..Len(requests') : requests'[i] = requests[i + 1] /\ i + 1 \in 1..Len(requests)
  BY <1>2
<1>4. /\ replies' \in Seq(Reply)
      /\ \A i \in 1..Len(replies') : \/ i \in 1..Len(replies) /\ replies'[i] = replies[i]
                                     \/ i = Len(replies) + 1 /\ replies'[i] = r
  BY <1>2
<1>5. r.to = requests[1] /\ 1 \in 1..Len(requests)
  BY <1>2
<1>6. \A i \in 1..Len(requests') : Proper(requests[i])'
  BY <1>1, <1>3 DEF UploadTypes
<1>7. \A i \in 1..Len(replies') : Proper(replies[i].to)' /\ Told(replies[i])'
  BY <1>1, <1>4, <1>5 DEF UploadTypes
<1>8. \A i, j \in 1..Len(replies') :
        i < j /\ replies'[i].to \in Question => replies'[j].to \in Question
  <2> SUFFICES ASSUME NEW i \in 1..Len(replies'), NEW j \in 1..Len(replies'), i < j,
                      replies'[i].to \in Question
               PROVE  replies'[j].to \in Question
    OBVIOUS
  <2>1. i \in 1..Len(replies) /\ replies'[i] = replies[i]
    BY <1>2, <1>4
  <2>2. CASE j \in 1..Len(replies) /\ replies'[j] = replies[j]
    BY <2>1, <2>2 DEF InOrder
  <2>3. CASE replies'[j] = r
    BY <1>5, <2>1, <2>3 DEF InOrder
  <2> QED BY <1>4, <2>2, <2>3
<1>9. \A i \in 1..Len(replies'), j \in 1..Len(requests') :
        replies'[i].to \in Question => requests'[j] \in Question
  <2> SUFFICES ASSUME NEW i \in 1..Len(replies'), NEW j \in 1..Len(requests'),
                      replies'[i].to \in Question
               PROVE  requests[j + 1] \in Question
    BY <1>3
  <2>1. j + 1 \in 1..Len(requests) /\ 1 < j + 1
    BY <1>2, <1>3
  <2>2. CASE i \in 1..Len(replies) /\ replies'[i] = replies[i]
    BY <2>1, <2>2 DEF InOrder
  <2>3. CASE replies'[i] = r
    BY <1>5, <2>1, <2>3 DEF InOrder
  <2> QED BY <1>4, <2>2, <2>3
<1>10. \A i, j \in 1..Len(requests') :
         i < j /\ requests'[i] \in Question => requests'[j] \in Question
  BY <1>2, <1>3 DEF InOrder
<1>11. InOrder'
  BY <1>1, <1>8, <1>9, <1>10 DEF InOrder
<1> QED BY <1>3, <1>4, <1>6, <1>7, <1>11

LEMMA WritesKeepUpload ==
  ASSUME UploadInv, DeviceWrites
  PROVE  UploadInv'
<1> DEFINE m == Head(requests)
           w == fileWrite(m)
           r == [to |-> m, done |-> w.done, data |-> <<>>]
<1>1. /\ requests # <<>> /\ requests' = Tail(requests) /\ ~m.read
      /\ data' = w.data /\ finalized' = w.finalized /\ replies' = Append(replies, r)
      /\ UNCHANGED <<readonly, total, goal, place, reboots>>
  BY DEF DeviceWrites
<1>2. m \in Message /\ Proper(m) /\ m = requests[1] /\ 1 \in 1..Len(requests)
  BY <1>1 DEF UploadInv, UploadTypes
<1>3. r \in Reply /\ r.to = m /\ Told(r)
  <2>1. w.done \in BOOLEAN
    BY <1>2, Zenon DEF fileWrite, restartWrite, finalizeWrite, writeChunk, Proper, Message
  <2> HIDE DEF m, w
  <2> QED BY <1>1, <1>2, <2>1 DEF Reply, Told
<1>4. /\ w.data \in Seq(Nat) /\ Len(w.data) <= total
      /\ w.data = [i \in 1..Len(w.data) |-> i]
      /\ m = Ending => /\ w.data = data /\ w.finalized = (finalized \/ w.done)
                       /\ w.done => size = total
  BY <1>1, <1>2, Writes DEF UploadInv
<1> HIDE DEF m, w
<1>5. /\ requests' \in Seq(Message) /\ replies' \in Seq(Reply)
      /\ \A i \in 1..Len(requests') : requests'[i] = requests[i + 1] /\ i + 1 \in 1..Len(requests)
      /\ \A i \in 1..Len(replies') :
           \/ i \in 1..Len(replies) /\ replies'[i] = replies[i]
           \/ i = Len(replies) + 1 /\ replies'[i] = r
      /\ \A i \in 1..Len(requests') : Proper(requests[i])'
      /\ \A i \in 1..Len(replies') : Proper(replies[i].to)' /\ Told(replies[i])'
      /\ InOrder'
  <2> HIDE DEF r
  <2> QED BY <1>1, <1>3, Served DEF m
<1>6. UploadTypes' /\ Beginning'
  BY <1>1, <1>4, <1>5 DEF UploadInv, UploadTypes, Beginning, size
<1>7. Ending' = Ending /\ Source' = Source
  BY <1>1 DEF Ending, Source
<1>8. m = Ending /\ Whole => Whole'
  <2> SUFFICES ASSUME m = Ending, Whole
               PROVE  Whole'
    OBVIOUS
  <2>1. data' = data /\ finalized' = (finalized \/ w.done)
    BY <1>1, <1>4
  <2>2. reboots' = reboots /\ size' = size
    BY <1>1, <2>1 DEF size
  <2> QED BY <1>7, <2>1, <2>2, Zenon DEF Whole
<1>9. m = Ending /\ w.done => Whole'
  <2> SUFFICES ASSUME m = Ending, w.done
               PROVE  Whole'
    OBVIOUS
  <2>1. data' = data /\ finalized' /\ size = total
    BY <1>1, <1>4, Zenon
  <2>2. data = Source
    BY <2>1 DEF UploadInv, Beginning, Source
  <2> QED BY <1>7, <2>1, <2>2, Zenon DEF Whole
<1>10. Ended'
  <2>1. ASSUME goal = "end", NEW i \in 1..Len(replies'), replies'[i].to = Ending, replies'[i].done
        PROVE  Whole'
    <3>1. CASE i \in 1..Len(replies) /\ replies'[i] = replies[i]
      <4>1. Whole
        BY <2>1, <3>1 DEF UploadInv, Ended
      <4>2. Question = {Ending}
        BY <2>1 DEF Question, Ending
      <4>3. m = Ending
        BY <1>2, <2>1, <3>1, <4>2 DEF UploadInv, InOrder
      <4> QED BY <1>8, <4>1, <4>3
    <3>2. CASE replies'[i] = r
      <4>1. m = Ending /\ w.done
        BY <2>1, <3>2
      <4> QED BY <1>9, <4>1
    <3> QED BY <1>5, <3>1, <3>2
  <2>2. ASSUME goal \in {"read", "done"}
        PROVE  /\ Whole'
               /\ \A i \in 1..Len(replies') : replies'[i].to.read \/ replies'[i].to = Ending
               /\ \A i \in 1..Len(requests') : requests'[i].read \/ requests'[i] = Ending
    <3>1. Whole /\ m = Ending
      BY <1>1, <1>2, <2>2 DEF UploadInv, Ended
    <3>2. Whole'
      BY <1>8, <3>1
    <3>3. \A i \in 1..Len(replies') : replies'[i].to.read \/ replies'[i].to = Ending
      BY <1>3, <1>5, <2>2, <3>1 DEF UploadInv, Ended
    <3>4. \A i \in 1..Len(requests') : requests'[i].read \/ requests'[i] = Ending
      BY <1>5, <2>2 DEF UploadInv, Ended
    <3> QED BY <3>2, <3>3, <3>4
  <2> QED BY <1>1, <1>7, <2>1, <2>2 DEF Ended
<1> QED BY <1>5, <1>6, <1>10 DEF UploadInv

\* What is read is the part of the beginning that was asked for.
LEMMA ReadsKeepUpload ==
  ASSUME UploadInv, DeviceReads
  PROVE  UploadInv'
<1> DEFINE m == Head(requests)
           part == readChunk(m.offset, m.n)
           r == [to |-> m, done |-> part # <<>>, data |-> part]
<1>1. /\ requests # <<>> /\ requests' = Tail(requests) /\ m.read
      /\ replies' = Append(replies, r)
      /\ UNCHANGED <<readonly, total, data, finalized, goal, place, reboots>>
  BY DEF DeviceReads
<1>2. m \in Message /\ Proper(m) /\ m = requests[1] /\ 1 \in 1..Len(requests)
  BY <1>1 DEF UploadInv, UploadTypes
<1>3. /\ part \in Seq(Nat) /\ part = [i \in 1..Len(part) |-> m.offset + i]
      /\ part # <<>> => m.offset + Len(part) <= total
  <2>1. /\ size \in Nat /\ total \in Nat /\ size <= total /\ data = [i \in 1..size |-> i]
        /\ m.offset \in Nat /\ m.n \in Nat
    BY <1>2, UploadAssumption DEF UploadInv, UploadTypes, Beginning, size, Message
  <2>2. CASE m.offset >= size
    BY <2>2 DEF readChunk
  <2>3. CASE ~(m.offset >= size)
    <3> DEFINE upTo == IF m.offset + m.n < size THEN m.offset + m.n ELSE size
               k == upTo - m.offset
    <3>1. k \in Nat /\ m.offset + k = upTo /\ m.offset + k <= size
      BY <2>1, <2>3
    <3>2. part = SubSeq(data, m.offset + 1, upTo)
      BY <2>3 DEF readChunk
    <3> HIDE DEF k, upTo, m, part
    <3>3. part = SubSeq([i \in 1..size |-> i], m.offset + 1, m.offset + k)
      BY <2>1, <3>1, <3>2
    <3>4. /\ part = [i \in 1..k |-> m.offset + i]
          /\ part \in Seq(Nat) /\ Len(part) = k
      <4> DEFINE v == [i \in 1..k |-> m.offset + i]
      <4>1. SubSeq([i \in 1..size |-> i], m.offset + 1, m.offset + k) = v
            /\ v \in Seq(Nat) /\ Len(v) = k
        BY <2>1, <3>1, Sliced, SMTT(20)
      <4> HIDE DEF v
      <4>2. part = v /\ part \in Seq(Nat) /\ Len(part) = k
        BY <3>3, <4>1
      <4> QED BY <4>2 DEF v
    <3> QED BY <2>1, <3>1, <3>4
  <2> QED BY <2>2, <2>3
<1> HIDE DEF part
<1>4. r \in Reply /\ r.to = m /\ Told(r)
  <2>1. r \in Reply
    BY <1>2, <1>3 DEF Reply
  <2> HIDE DEF m
  <2> QED BY <1>3, <2>1 DEF Told
<1> HIDE DEF m
<1>5. /\ requests' \in Seq(Message) /\ replies' \in Seq(Reply)
      /\ \A i \in 1..Len(requests') : requests'[i] = requests[i + 1] /\ i + 1 \in 1..Len(requests)
      /\ \A i \in 1..Len(replies') :
           \/ i \in 1..Len(replies) /\ replies'[i] = replies[i]
           \/ i = Len(replies) + 1 /\ replies'[i] = r
      /\ \A i \in 1..Len(requests') : Proper(requests[i])'
      /\ \A i \in 1..Len(replies') : Proper(replies[i].to)' /\ Told(replies[i])'
      /\ InOrder'
  <2> HIDE DEF r
  <2> QED BY <1>1, <1>4, Served DEF m
<1>6. UploadTypes' /\ Beginning'
  BY <1>1, <1>5 DEF UploadInv, UploadTypes, Beginning, size
<1>7. Ending' = Ending /\ (Whole' <=> Whole)
  BY <1>1 DEF Ending, Source, Whole, size
<1>8. r.to.read /\ r.to # Ending
  BY <1>1 DEF Ending
<1>9. Ended'
  <2> HIDE DEF r
  <2> QED BY <1>1, <1>5, <1>7, <1>8 DEF UploadInv, Ended
<1> QED BY <1>5, <1>6, <1>9 DEF UploadInv

\* An answer to the question the client asks: what is still under way answers or asks
\* the same, so nothing older is behind it.
LEMMA HearsKeep ==
  ASSUME UploadInv, ClientHears
  PROVE  UploadInv'
<1> DEFINE r == Head(replies)
<1>1. /\ replies # <<>> /\ replies' = Tail(replies)
      /\ UNCHANGED <<readonly, total, data, finalized, requests, reboots>>
  BY DEF ClientHears
<1>2. r \in Reply /\ Proper(r.to) /\ Told(r) /\ r = replies[1] /\ 1 \in 1..Len(replies)
  BY <1>1 DEF UploadInv, UploadTypes
<1>3. /\ replies' \in Seq(Reply)
      /\ \A i \in 1..Len(replies') : replies'[i] = replies[i + 1] /\ i + 1 \in 1..Len(replies)
  BY <1>1 DEF UploadInv, UploadTypes
<1>4. /\ Ending' = Ending /\ (Whole' <=> Whole) /\ Beginning'
      /\ \A m : (Proper(m)' <=> Proper(m)) /\ (Told(m)' <=> Told(m))
  BY <1>1 DEF UploadInv, Ending, Source, Whole, size, Beginning, Proper, Told
<1>5. /\ \A i \in 1..Len(requests') : Proper(requests[i])'
      /\ \A i \in 1..Len(replies') : Proper(replies[i].to)' /\ Told(replies[i])'
  BY <1>1, <1>3, <1>4 DEF UploadInv, UploadTypes
<1>6. CASE r.to \notin Question
  <2>1. UNCHANGED <<goal, place>>
    BY <1>6 DEF ClientHears
  <2>2. Question' = Question
    BY <1>1, <2>1 DEF Question
  <2>3. UploadTypes'
    BY <1>1, <1>3, <1>5, <2>1 DEF UploadInv, UploadTypes
  <2>4. \A i, j \in 1..Len(replies') : i < j => i + 1 < j + 1
    OBVIOUS
  <2>5. InOrder'
    <3> HIDE DEF r
    <3> QED BY <1>1, <1>3, <2>2, <2>4 DEF UploadInv, InOrder
  <2>6. Ended'
    BY <1>1, <1>3, <1>4, <2>1 DEF UploadInv, Ended
  <2> QED BY <1>4, <2>3, <2>5, <2>6 DEF UploadInv
<1>7. CASE r.to \in Question
  <2>1. Asks(r.to) /\ \A m \in Question : Asks(m)
    BY <1>7, Questions DEF UploadInv
  <2>2. /\ \A i \in 1..Len(replies') : replies'[i].to \in Question
        /\ \A i \in 1..Len(requests') : requests'[i] \in Question
    BY <1>1, <1>2, <1>3, <1>7 DEF UploadInv, InOrder
  <2>3. /\ total \in Nat /\ place \in Nat /\ r.to.n \in Nat
        /\ goal \in {"start", "write", "end", "read"}
    BY <1>2, <2>1, UploadAssumption DEF UploadInv, UploadTypes, Asks, Reply, Message
  <2>4. /\ place' \in 0..total /\ goal' \in {"start", "write", "end", "read", "done"}
        /\ goal' = "start" => place' = 0
        /\ goal' = "write" => goal = "start" \/ place' > place
        /\ goal' = "write" => goal \in {"start", "write"}
        /\ goal' = "end" => goal \in {"start", "write"}
        /\ goal' = "read" => goal = "end" \/ place' > place
        /\ goal' \in {"read", "done"} => (goal = "end" /\ r.done) \/ goal = "read"
    <3> USE <1>7, <2>3
    <3>1. CASE ~r.done
      BY <3>1 DEF ClientHears
    <3>2. CASE r.done /\ goal = "start"
      BY <3>2 DEF ClientHears, Forward
    <3>3. CASE r.done /\ goal = "write"
      <4>1. place + r.to.n <= total /\ r.to.n > 0
        BY <2>1, <3>3 DEF Asks
      <4>2. place' = place + r.to.n /\ goal' \in {"end", "write"}
        BY <3>3 DEF ClientHears, Forward
      <4> QED BY <3>3, <4>1, <4>2
    <3>4. CASE r.done /\ goal = "end"
      BY <3>4 DEF ClientHears
    <3>5. CASE r.done /\ goal = "read"
      <4> DEFINE k == Len(r.data)
      <4>1. /\ r.to.read /\ r.to.offset = place /\ r.data # <<>> /\ r.data \in Seq(Nat)
            /\ r.data = [i \in 1..k |-> place + i] /\ place + k <= total
        <5>1. r.to.read /\ r.to.offset = place
          BY <2>1, <3>5 DEF Asks
        <5>2. r.data \in Seq(Nat)
          BY <1>2 DEF Reply
        <5>3. /\ r.data = [i \in 1..k |-> r.to.offset + i] /\ r.data # <<>>
              /\ r.to.offset + k <= total
          <6> HIDE DEF r
          <6> QED BY <1>2, <3>5, <5>1 DEF Told
        <5> HIDE DEF r, k
        <5> QED BY <5>1, <5>2, <5>3
      <4>2. k \in Nat \ {0}
        BY <4>1
      <4>3. /\ place' = place + k
            /\ goal' = IF r.data # SubSeq(Source, place + 1, place + k)
                       THEN "wrong" ELSE IF place' = total THEN "done" ELSE "read"
        BY <3>5 DEF ClientHears
      <4> HIDE DEF k
      <4>4. SubSeq(Source, place + 1, place + k) = [i \in 1..k |-> place + i]
        BY <4>1, <4>2, Sliced DEF Source
      <4>5. goal' \in {"done", "read"}
        BY <4>1, <4>3, <4>4
      <4> QED BY <3>5, <4>1, <4>2, <4>3, <4>5
    <3> QED BY <3>1, <3>2, <3>3, <3>4, <3>5
  <2>5. UploadTypes'
    BY <1>1, <1>3, <1>5, <2>4 DEF UploadInv, UploadTypes
  <2>6. \A m \in Question' : Asks(m)'
    BY <2>5, QuestionsNext
  <2>7. Question' = Question \/ \A m \in Question : m \notin Question'
    <3>1. CASE goal = "start" /\ goal' = "start"
      BY <3>1 DEF Question
    <3>2. CASE ~(goal = "start" /\ goal' = "start")
      <4> SUFFICES ASSUME NEW m \in Question, m \in Question'
                   PROVE  FALSE
        OBVIOUS
      <4>1. Asks(m) /\ Asks(m)'
        BY <2>1, <2>6
      <4>2. Ending.offset # 0 /\ ~Ending.read /\ Ending.n = 0
        BY UploadAssumption DEF UploadInv, UploadTypes, Ending
      <4>3. CASE goal' = "start"
        BY <2>3, <3>2, <4>1, <4>2, <4>3 DEF Asks
      <4>4. CASE goal' = "write"
        BY <2>3, <2>4, <4>1, <4>2, <4>4 DEF Asks
      <4>5. CASE goal' = "end"
        BY <1>4, <2>3, <2>4, <4>1, <4>2, <4>5 DEF Asks
      <4>6. CASE goal' = "read"
        BY <2>3, <2>4, <4>1, <4>2, <4>6 DEF Asks
      <4>7. CASE goal' = "done"
        BY <4>1, <4>7 DEF Asks
      <4> QED BY <2>4, <4>3, <4>4, <4>5, <4>6, <4>7
    <3> QED BY <3>1, <3>2
  <2>8. InOrder'
    <3> HIDE DEF r
    <3> QED BY <2>2, <2>7 DEF InOrder
  <2>9. Ended'
    <3>1. ASSUME goal' = "end", NEW i \in 1..Len(replies'), replies'[i].to = Ending
          PROVE  FALSE
      <4>1. Asks(Ending) /\ goal \in {"start", "write"}
        BY <2>1, <2>2, <2>4, <3>1
      <4>2. Ending.offset # 0 /\ Ending.n = 0
        BY UploadAssumption DEF UploadInv, UploadTypes, Ending
      <4> QED BY <2>3, <4>1, <4>2 DEF Asks
    <3>2. ASSUME goal' \in {"read", "done"}
          PROVE  /\ Whole
                 /\ \A m \in Question : m.read \/ m = Ending
      <4>1. CASE goal = "end" /\ r.done
        <5>1. r.to = Ending
          BY <2>1, <4>1 DEF Asks
        <5> QED BY <1>2, <2>1, <4>1, <5>1 DEF UploadInv, Ended, Asks
      <4>2. CASE goal = "read"
        BY <2>1, <4>2 DEF UploadInv, Ended, Asks
      <4> QED BY <2>4, <3>2, <4>1, <4>2
    <3> HIDE DEF r
    <3> QED BY <1>4, <2>2, <3>1, <3>2 DEF Ended
  <2> QED BY <1>4, <2>5, <2>8, <2>9 DEF UploadInv
<1> QED BY <1>6, <1>7

\* An upload that was reported complete left the whole content, in order, and what the
\* client reads back is it, whatever the lines lose, unless the device restarts after.
THEOREM UploadWhole == UploadSpec => []UploadIsWhole
<1>1. UploadInit => UploadInv
  <2> SUFFICES ASSUME UploadInit
               PROVE  UploadInv
    OBVIOUS
  <2>1. size = 0 /\ data = [i \in 1..0 |-> i]
    BY DEF UploadInit, size
  <2> QED BY <2>1, UploadAssumption
          DEF UploadInit, UploadInv, UploadTypes, Beginning, InOrder, Ended
<1>2. UploadInv /\ [UploadNext]_uploadVars => UploadInv'
  <2> SUFFICES ASSUME UploadInv, [UploadNext]_uploadVars
               PROVE  UploadInv'
    OBVIOUS
  <2>1. CASE UNCHANGED uploadVars
    <3> USE <2>1 DEF uploadVars
    <3>1. Question' = Question /\ Ending' = Ending /\ (Whole' <=> Whole)
      BY DEF Question, Ending, Whole, Source, size
    <3>2. UploadTypes' /\ Beginning'
      BY <3>1 DEF UploadInv, UploadTypes, Beginning, size, Proper, Told
    <3> QED BY <3>1, <3>2 DEF UploadInv, InOrder, Ended
  <2> QED BY <2>1, SendsKeep, HearsKeep, LossesKeep, WritesKeepUpload, ReadsKeepUpload,
             RestartsKeep DEF UploadNext
<1>3. UploadInv => UploadIsWhole
  BY DEF UploadInv, UploadTypes, Ended, Whole, UploadIsWhole
<1> QED BY <1>1, <1>2, <1>3, PTL DEF UploadSpec

-----------------------------------------------------------------------------
(* CanTransfer, for every number of kinds, sizes and blocks.              *)

\* Frames on the way: part of a transfer that was sent, in the order of their line.
Valid(f) ==
  /\ f \in Frame /\ f.index <= f.size
  /\ f.no <= Len(sent[f.kind]) /\ f.size = sent[f.kind][f.no]
  /\ upto[f.kind] < f.no
Before(f, g) ==
  f.kind = g.kind => f.no < g.no \/ (f.no = g.no /\ f.index < g.index)
Sorted(s) == \A i, j \in 1..Len(s) : i < j => Before(s[i], s[j])
Urgent(s) == \A i, j \in 1..Len(s) : i < j => s[i].kind <= s[j].kind

\* The frames on the way.
Underway == {wire[i] : i \in 1..Len(wire)} \union {queue[i] : i \in 1..Len(queue)}

Lines ==
  /\ \A f \in Underway : Valid(f)
  /\ Sorted(wire) /\ Sorted(queue)
  /\ \A i \in 1..Len(wire), j \in 1..Len(queue) : Before(wire[i], queue[j])
  /\ Urgent(queue)

\* The number below which no frame of the kind will come.
Later(u, k, n) == \A f \in u : f.kind = k => n <= f.no

Pieces == Seq(Nat \X Nat)
RxState == [tid : Nat, toggle : {0, 1}, payload : Pieces, calc : Pieces,
            crc : {<<>>} \union (Nat \X Nat), blocks : Nat, age : Nat, seen : BOOLEAN]

\* Where the payload is empty, except while a callback has it.
Emptied(s) == /\ s.toggle = 1 => s.payload # <<>>
              /\ s.toggle = 0 /\ s.blocks = 0 => s.payload = <<>>

\* What was summed up since the first frame of a transfer, with the frames u on the
\* way and m transfers sent: either the payload is the same, or the state expects
\* another transfer, or nothing of this one will come.
Summed(u, m, k, s) ==
  s.calc # <<>> =>
    LET n == s.calc[1][1]
    IN /\ n <= m /\ Later(u, k, n)
       /\ s.calc[1][2] = 1 => \/ s.payload = s.calc /\ s.tid = n % Tids
                              \/ s.tid = (n + 1) % Tids
                              \/ Later(u, k, n + 1)

\* A state whose transfer has been delivered expects nothing more of it.
Done(u, k, s) == s.calc # <<>> => Later(u, k, s.calc[1][1] + 1)

StatesFit ==
  \A k \in Known :
    /\ states[k] \in RxState /\ Summed(Underway, Len(sent[k]), k, states[k])
    /\ IF call.busy /\ call.kind = k THEN Done(Underway, k, states[k]) ELSE Emptied(states[k])

\* Only a callback that runs has blocks.
CallCounted == call.blocks \in Nat /\ (~call.busy => call.blocks = 0)

Callback == [kind : Nat, blocks : Nat, busy : BOOLEAN]

TransferTypes ==
  /\ sent \in [Kinds -> Seq(Sizes)] /\ upto \in [Kinds -> Nat]
  /\ \A k \in Kinds : upto[k] <= Len(sent[k])
  /\ got = [k \in Kinds |-> got[k]] /\ states = [k \in Known |-> states[k]]
  /\ queue \in Seq(Frame) /\ wire \in Seq(Frame) /\ txFree \in Nat
  /\ rxFree \in Int /\ held \in {0, 1}
  /\ IsFiniteSet(Known) /\ Known \subseteq Kinds
  /\ call \in Callback

TransferInv ==
  TransferTypes /\ Lines /\ StatesFit /\ CallCounted /\ PoolIsWhole

\* The blocks of one state are its own and those of the payload it gathered.
LEMMA BlocksOfOne ==
  ASSUME NEW k, NEW b \in Nat
  PROVE  IsFiniteSet({k} \X (0..b)) /\ Cardinality({k} \X (0..b)) = b + 1
<1>1. IsFiniteSet(0..b) /\ Cardinality(0..b) = b + 1
  BY FS_Interval
<1>2. IsFiniteSet({k}) /\ Cardinality({k}) = 1
  BY FS_Singleton
<1>3. /\ IsFiniteSet({k} \X (0..b))
      /\ Cardinality({k} \X (0..b)) = Cardinality({k}) * Cardinality(0..b)
  BY <1>1, <1>2, FS_Product
<1> QED BY <1>1, <1>2, <1>3

BlocksIn(b, K) == UNION {{k} \X (0..b[k]) : k \in K}

\* Blocks of finitely many kinds are finitely many.
LEMMA BlocksFinite ==
  ASSUME NEW K, IsFiniteSet(K), NEW b, \A k \in K : b[k] \in Nat
  PROVE  IsFiniteSet(BlocksIn(b, K)) /\ Cardinality(BlocksIn(b, K)) \in Nat
<1> DEFINE T == {{k} \X (0..b[k]) : k \in K}
           g == [k \in K |-> {k} \X (0..b[k])]
<1>1. g \in Surjection(K, T)
  BY DEF Surjection
<1>2. IsFiniteSet(T)
  <2> HIDE DEF g, T
  <2> QED BY <1>1, FS_Surjection
<1>3. ASSUME NEW S \in T
      PROVE  IsFiniteSet(S)
  <2>1. PICK k \in K : S = {k} \X (0..b[k])
    OBVIOUS
  <2>2. IsFiniteSet({k} \X (0..b[k]))
    BY BlocksOfOne
  <2> QED BY <2>1, <2>2
<1>4. IsFiniteSet(UNION T)
  <2> HIDE DEF T
  <2> QED BY <1>2, <1>3, FS_UNION
<1> QED BY <1>4, FS_CardinalityType DEF BlocksIn

\* The blocks of two groups of kinds add up.
LEMMA BlocksAdd ==
  ASSUME NEW K, NEW L, IsFiniteSet(K), IsFiniteSet(L), K \cap L = {},
         NEW b, \A k \in K \union L : b[k] \in Nat
  PROVE  /\ Cardinality(BlocksIn(b, K \union L)) =
              Cardinality(BlocksIn(b, K)) + Cardinality(BlocksIn(b, L))
         /\ Cardinality(BlocksIn(b, K)) \in Nat /\ Cardinality(BlocksIn(b, L)) \in Nat
<1>1. IsFiniteSet(BlocksIn(b, K)) /\ Cardinality(BlocksIn(b, K)) \in Nat
  BY BlocksFinite
<1>2. IsFiniteSet(BlocksIn(b, L)) /\ Cardinality(BlocksIn(b, L)) \in Nat
  BY BlocksFinite
<1>3. BlocksIn(b, K \union L) = BlocksIn(b, K) \union BlocksIn(b, L)
  BY DEF BlocksIn
<1>4. BlocksIn(b, K) \cap BlocksIn(b, L) = {}
  BY DEF BlocksIn
<1>5. Cardinality(BlocksIn(b, K) \cap BlocksIn(b, L)) = 0
  BY <1>4, FS_EmptySet
<1>6. Cardinality(BlocksIn(b, K) \union BlocksIn(b, L)) =
        Cardinality(BlocksIn(b, K)) + Cardinality(BlocksIn(b, L))
          - Cardinality(BlocksIn(b, K) \cap BlocksIn(b, L))
  BY <1>1, <1>2, FS_Union
<1>7. Cardinality(BlocksIn(b, K \union L)) =
        Cardinality(BlocksIn(b, K)) + Cardinality(BlocksIn(b, L))
  <2> DEFINE X == BlocksIn(b, K)
             Y == BlocksIn(b, L)
             c == Cardinality(X \union Y)
  <2>1. Cardinality(BlocksIn(b, K \union L)) = c
    BY <1>3
  <2>2. c = Cardinality(X) + Cardinality(Y) - 0
    BY <1>5, <1>6
  <2> HIDE DEF c
  <2> QED BY <1>1, <1>2, <2>1, <2>2
<1> QED BY <1>1, <1>2, <1>7

BlockOf(k) == IF k \in Known THEN states[k].blocks + 1 ELSE 0

\* A state that is kept changes the blocks by its own, new or as they were.
LEMMA BlocksKept ==
  ASSUME IsFiniteSet(Known), \A j \in Known : states[j].blocks \in Nat,
         NEW k, NEW s, s.blocks \in Nat,
         states' = [j \in Known \union {k} |-> IF j = k THEN s ELSE states[j]]
  PROVE  /\ Cardinality(Blocks(Known)') =
              Cardinality(Blocks(Known)) - BlockOf(k) + s.blocks + 1
         /\ Cardinality(Blocks(Known)) \in Nat /\ Cardinality(Blocks(Known)') \in Nat
         /\ Known' = Known \union {k} /\ IsFiniteSet(Known')
<1> DEFINE R == Known \ {k}
           b == [j \in Known |-> states[j].blocks]
           c == [j \in Known \union {k} |-> IF j = k THEN s.blocks ELSE states[j].blocks]
<1>1. Known' = Known \union {k} /\ R \union {k} = Known \union {k} /\ R \cap {k} = {}
  BY DEF Known
<1>2. IsFiniteSet(R) /\ IsFiniteSet({k}) /\ IsFiniteSet(Known')
  BY <1>1, FS_Subset, FS_Singleton, FS_AddElement
<1>3. Blocks(Known) = BlocksIn(b, Known) /\ Blocks(Known)' = BlocksIn(c, R \union {k})
  <2>1. \A j \in Known : states[j].blocks = b[j]
    OBVIOUS
  <2>2. \A j \in Known \union {k} : states'[j].blocks = c[j]
    OBVIOUS
  <2>3. Blocks(Known) = UNION {{j} \X (0..states[j].blocks) : j \in Known}
    BY DEF Blocks
  <2>4. Blocks(Known)' = UNION {{j} \X (0..states'[j].blocks) : j \in Known \union {k}}
    BY <1>1 DEF Blocks
  <2> HIDE DEF b, c
  <2>5. BlocksIn(b, Known) = Blocks(Known)
    BY <2>1, <2>3 DEF BlocksIn
  <2>6. BlocksIn(c, Known \union {k}) = Blocks(Known)'
    <3> DEFINE M == Known \union {k}
               d == states'
    <3>1. (\A j \in M : d[j].blocks = c[j]) /\ Blocks(Known)' = UNION {{j} \X (0..d[j].blocks) : j \in M}
      BY <2>2, <2>4
    <3> HIDE DEF M, d
    <3>2. BlocksIn(c, M) = UNION {{j} \X (0..d[j].blocks) : j \in M}
      BY <3>1 DEF BlocksIn
    <3> QED BY <3>1, <3>2 DEF M
  <2> QED BY <1>1, <2>5, <2>6
<1>4. BlocksIn(b, R) = BlocksIn(c, R)
  <2>1. \A j \in R : b[j] = c[j]
    OBVIOUS
  <2> HIDE DEF b, c, R
  <2> QED BY <2>1 DEF BlocksIn
<1>5. (\A j \in Known : b[j] \in Nat) /\ (\A j \in R \union {k} : c[j] \in Nat) /\ c[k] = s.blocks
  OBVIOUS
<1>6. /\ Cardinality(BlocksIn(c, R \union {k})) =
           Cardinality(BlocksIn(c, R)) + Cardinality(BlocksIn(c, {k}))
      /\ Cardinality(BlocksIn(c, R)) \in Nat
  <2> HIDE DEF c, R
  <2> QED BY <1>1, <1>2, <1>5, BlocksAdd
<1>7. Cardinality(BlocksIn(c, {k})) = s.blocks + 1
  <2>1. BlocksIn(c, {k}) = {k} \X (0..s.blocks)
    <3> HIDE DEF c
    <3> QED BY <1>5 DEF BlocksIn
  <2> QED BY <2>1, BlocksOfOne
<1>8. Cardinality(BlocksIn(b, Known)) = Cardinality(BlocksIn(c, R)) + BlockOf(k)
  <2>1. CASE k \notin Known
    <3>1. R = Known
      BY <2>1
    <3> HIDE DEF b, c, R
    <3> QED BY <1>4, <1>6, <2>1, <3>1 DEF BlockOf
  <2>2. CASE k \in Known
    <3>1. R \union {k} = Known /\ b[k] = states[k].blocks /\ states[k].blocks \in Nat
      BY <2>2
    <3>2. Cardinality(BlocksIn(b, R \union {k})) =
            Cardinality(BlocksIn(b, R)) + Cardinality(BlocksIn(b, {k}))
      <4> HIDE DEF b, R
      <4> QED BY <1>1, <1>2, <1>5, <3>1, BlocksAdd
    <3>3. BlocksIn(b, {k}) = {k} \X (0..states[k].blocks)
      <4> HIDE DEF b
      <4> QED BY <3>1 DEF BlocksIn
    <3>4. Cardinality(BlocksIn(b, {k})) = states[k].blocks + 1
      BY <3>1, <3>3, BlocksOfOne
    <3> HIDE DEF R, b, c
    <3> QED BY <1>4, <2>2, <3>1, <3>2, <3>4 DEF BlockOf
  <2> QED BY <2>1, <2>2
<1>9. BlockOf(k) \in Nat
  BY DEF BlockOf
<1> HIDE DEF b, c, R
<1> QED BY <1>1, <1>2, <1>3, <1>6, <1>7, <1>8, <1>9

\* States that are thrown away give their blocks back.
LEMMA BlocksThrownAway ==
  ASSUME IsFiniteSet(Known), \A j \in Known : states[j].blocks \in Nat,
         NEW S \in SUBSET Known, states' = [j \in Known \ S |-> states[j]]
  PROVE  /\ Cardinality(Blocks(Known)) = Cardinality(Blocks(Known)') + Cardinality(Blocks(S))
         /\ Cardinality(Blocks(Known)') \in Nat /\ Cardinality(Blocks(S)) \in Nat
<1> DEFINE R == Known \ S
           b == [j \in Known |-> states[j].blocks]
<1>1. Known' = R /\ R \union S = Known /\ R \cap S = {}
  BY DEF Known
<1>2. IsFiniteSet(R) /\ IsFiniteSet(S)
  BY FS_Subset
<1>3. ASSUME NEW M \in SUBSET Known
      PROVE  Blocks(M) = BlocksIn(b, M)
  <2>1. \A j \in M : states[j].blocks = b[j]
    OBVIOUS
  <2> HIDE DEF b
  <2> QED BY <2>1 DEF Blocks, BlocksIn
<1>4. Blocks(Known)' = BlocksIn(b, R)
  <2>1. Blocks(Known)' = UNION {{j} \X (0..states'[j].blocks) : j \in R}
    BY <1>1 DEF Blocks
  <2>2. \A j \in R : states'[j].blocks = b[j]
    OBVIOUS
  <2> HIDE DEF R, b
  <2> QED BY <2>1, <2>2, ZenonT(30) DEF BlocksIn
<1>5. \A j \in R \union S : b[j] \in Nat
  BY <1>1
<1>6. /\ Cardinality(BlocksIn(b, R \union S)) = Cardinality(BlocksIn(b, R)) + Cardinality(BlocksIn(b, S))
      /\ Cardinality(BlocksIn(b, R)) \in Nat /\ Cardinality(BlocksIn(b, S)) \in Nat
  <2> HIDE DEF b, R
  <2> QED BY <1>1, <1>2, <1>5, BlocksAdd
<1>7. Blocks(Known) = BlocksIn(b, R \union S) /\ Blocks(S) = BlocksIn(b, S)
  BY <1>1, <1>3
<1> HIDE DEF b
<1> QED BY <1>4, <1>6, <1>7

\* A frame that is pushed goes before the first that is less urgent.
LEMMA PushedAt ==
  ASSUME NEW q \in Seq(Frame), NEW f \in Frame
  PROVE  \E p \in 1..(Len(q) + 1) :
           LET r == pushTxQueue(q, f)
           IN  /\ r \in Seq(Frame) /\ Len(r) = Len(q) + 1
               /\ \A i \in 1..(Len(q) + 1) :
                    r[i] = IF i < p THEN q[i] ELSE IF i = p THEN f ELSE q[i - 1]
               /\ \A i \in 1..Len(q) : i < p => q[i].kind <= f.kind
               /\ p <= Len(q) => f.kind < q[p].kind
<1> DEFINE x(p) == SubSeq(q, 1, p - 1) \o <<f>> \o SubSeq(q, p, Len(q))
<1>0. ASSUME NEW p \in 1..(Len(q) + 1)
      PROVE  x(p) \in Seq(Frame) /\ With(x(p), q, f, p)
  BY Inserted
<1> DEFINE later == {i \in 1..Len(q) : isPriorityHigher(q[i], f)}
           r == pushTxQueue(q, f)
<1>1. /\ Len(q) \in Nat /\ f.kind \in Nat /\ \A i \in 1..Len(q) : q[i] \in Frame /\ q[i].kind \in Nat
  <2>1. \A g \in Frame : g.kind \in Nat
    BY TransferAssumption DEF Frame
  <2>2. Len(q) \in Nat /\ \A i \in 1..Len(q) : q[i] \in Frame
    OBVIOUS
  <2> QED BY <2>1, <2>2
<1>2. \A i \in 1..Len(q) : i \in later <=> f.kind < q[i].kind
  BY <1>1 DEF isPriorityHigher
<1>3. \E p \in 1..(Len(q) + 1) :
        /\ r \in Seq(Frame) /\ Len(r) = Len(q) + 1
        /\ \A i \in 1..(Len(q) + 1) : r[i] = IF i < p THEN q[i] ELSE IF i = p THEN f ELSE q[i - 1]
        /\ \A i \in 1..Len(q) : i < p => q[i].kind <= f.kind
        /\ p <= Len(q) => f.kind < q[p].kind
  <2>1. CASE later = {}
    <3>1. r = Append(q, f)
      BY <2>1, Zenon DEF pushTxQueue
    <3>2. /\ Append(q, f) \in Seq(Frame) /\ Len(Append(q, f)) = Len(q) + 1
          /\ \A i \in 1..(Len(q) + 1) : Append(q, f)[i] = IF i < Len(q) + 1 THEN q[i] ELSE f
      BY <1>1
    <3>3. \A i \in 1..Len(q) : q[i].kind <= f.kind
      BY <1>1, <1>2, <2>1
    <3> HIDE DEF r
    <3> QED BY <1>1, <3>1, <3>2, <3>3
  <2>2. CASE later # {}
    <3> DEFINE p == CHOOSE i \in later : \A j \in later : i <= j
    <3>1. p \in later /\ \A j \in later : p <= j
      <4>1. later \in SUBSET Nat
        OBVIOUS
      <4> HIDE DEF later
      <4>2. \E i \in later : \A j \in later : i <= j
        BY <2>2, <4>1, Smallest
      <4> QED BY <4>2
    <3>2. r = SubSeq(q, 1, p - 1) \o <<f>> \o SubSeq(q, p, Len(q))
      BY <2>2, Zenon DEF pushTxQueue, InsertAt
    <3> HIDE DEF p, r
    <3>3. p \in 1..Len(q) /\ p \in 1..(Len(q) + 1)
      BY <1>1, <3>1
    <3>4. /\ r \in Seq(Frame) /\ Len(r) = Len(q) + 1
          /\ \A i \in 1..(Len(q) + 1) : r[i] = IF i < p THEN q[i] ELSE IF i = p THEN f ELSE q[i - 1]
      <4>1. r = x(p)
        BY <3>2
      <4> HIDE DEF x
      <4> QED BY <1>0, <3>3, <4>1 DEF With
    <3>5. \A i \in 1..Len(q) : i < p => q[i].kind <= f.kind
      BY <1>1, <1>2, <3>1, <3>3
    <3>6. f.kind < q[p].kind
      BY <1>2, <3>1, <3>3
    <3> QED BY <3>3, <3>4, <3>5, <3>6
  <2> QED BY <2>1, <2>2
<1> QED BY <1>3

\* A frame that is pushed goes behind all of its line and before the less urgent.
LEMMA Pushed ==
  ASSUME NEW q \in Seq(Frame), NEW f \in Frame, Sorted(q), Urgent(q),
         \A i \in 1..Len(q) : Before(q[i], f)
  PROVE  LET r == pushTxQueue(q, f)
         IN  /\ r \in Seq(Frame) /\ Len(r) = Len(q) + 1 /\ Sorted(r) /\ Urgent(r)
             /\ \A i \in 1..Len(r) : r[i] = f \/ \E j \in 1..Len(q) : r[i] = q[j]
             /\ \E i \in 1..Len(r) : r[i] = f
             /\ \A j \in 1..Len(q) : \E i \in 1..Len(r) : r[i] = q[j]
<1> DEFINE r == pushTxQueue(q, f)
<1>1. /\ Len(q) \in Nat /\ f.kind \in Nat /\ \A i \in 1..Len(q) : q[i] \in Frame /\ q[i].kind \in Nat
  <2>1. \A g \in Frame : g.kind \in Nat
    BY TransferAssumption DEF Frame
  <2>2. Len(q) \in Nat /\ \A i \in 1..Len(q) : q[i] \in Frame
    OBVIOUS
  <2> QED BY <2>1, <2>2
<1>2. PICK p \in 1..(Len(q) + 1) :
        /\ r \in Seq(Frame) /\ Len(r) = Len(q) + 1
        /\ \A i \in 1..(Len(q) + 1) : r[i] = IF i < p THEN q[i] ELSE IF i = p THEN f ELSE q[i - 1]
        /\ \A i \in 1..Len(q) : i < p => q[i].kind <= f.kind
        /\ p <= Len(q) => f.kind < q[p].kind
  BY PushedAt
<1>3. \A i \in 1..Len(q) : i >= p => f.kind < q[i].kind
  BY <1>1, <1>2 DEF Urgent
<1> HIDE DEF r
<1>4. /\ r \in Seq(Frame) /\ Len(r) = Len(q) + 1
      /\ \A i \in 1..(Len(q) + 1) : r[i] = IF i < p THEN q[i] ELSE IF i = p THEN f ELSE q[i - 1]
      /\ \A i \in 1..Len(q) : (i < p => q[i].kind <= f.kind) /\ (i >= p => f.kind < q[i].kind)
  BY <1>2, <1>3
<1>5. \A i \in 1..Len(r) : r[i] = f \/ \E j \in 1..Len(q) : r[i] = q[j]
  <2> SUFFICES ASSUME NEW i \in 1..Len(r)
               PROVE  r[i] = f \/ \E j \in 1..Len(q) : r[i] = q[j]
    OBVIOUS
  <2>1. CASE i < p
    BY <1>1, <1>4, <2>1
  <2>2. CASE i = p
    BY <1>1, <1>4, <2>2
  <2>3. CASE i > p
    <3>1. i - 1 \in 1..Len(q) /\ r[i] = q[i - 1]
      BY <1>1, <1>4, <2>3
    <3> QED BY <3>1
  <2> QED BY <1>1, <1>4, <2>1, <2>2, <2>3
<1>6. ASSUME NEW i \in 1..Len(r), NEW j \in 1..Len(r), i < j
      PROVE  Before(r[i], r[j]) /\ r[i].kind <= r[j].kind
  <2>0. i \in 1..(Len(q) + 1) /\ j \in 1..(Len(q) + 1)
    BY <1>4
  <2>1. CASE j < p
    <3>1. i \in 1..Len(q) /\ j \in 1..Len(q) /\ r[i] = q[i] /\ r[j] = q[j]
      BY <1>1, <1>4, <1>6, <2>0, <2>1
    <3> QED BY <1>6, <3>1 DEF Sorted, Urgent
  <2>2. CASE j = p
    <3>1. i \in 1..Len(q) /\ i < p /\ r[i] = q[i] /\ r[j] = f
      BY <1>1, <1>4, <1>6, <2>0, <2>2
    <3> QED BY <1>4, <3>1
  <2>3. CASE i < p /\ p < j
    <3>1. /\ i \in 1..Len(q) /\ j - 1 \in 1..Len(q) /\ i < j - 1
          /\ r[i] = q[i] /\ r[j] = q[j - 1]
      BY <1>1, <1>4, <1>6, <2>0, <2>3
    <3> QED BY <3>1 DEF Sorted, Urgent
  <2>4. CASE i = p
    <3>1. j - 1 \in 1..Len(q) /\ p <= j - 1 /\ r[i] = f /\ r[j] = q[j - 1]
      BY <1>1, <1>4, <1>6, <2>0, <2>4
    <3>2. f.kind < q[j - 1].kind
      BY <1>4, <3>1
    <3> QED BY <1>1, <3>1, <3>2 DEF Before
  <2>5. CASE i > p
    <3>1. /\ i - 1 \in 1..Len(q) /\ j - 1 \in 1..Len(q) /\ i - 1 < j - 1
          /\ r[i] = q[i - 1] /\ r[j] = q[j - 1]
      BY <1>1, <1>4, <1>6, <2>0, <2>5
    <3> QED BY <3>1 DEF Sorted, Urgent
  <2> QED BY <1>1, <1>4, <1>6, <2>0, <2>1, <2>2, <2>3, <2>4, <2>5
<1>7. \E i \in 1..Len(r) : r[i] = f
  BY <1>1, <1>4
<1>8. ASSUME NEW j \in 1..Len(q)
      PROVE  \E i \in 1..Len(r) : r[i] = q[j]
  <2>1. CASE j < p
    <3>1. j \in 1..Len(r) /\ r[j] = q[j]
      BY <1>1, <1>4, <2>1
    <3> QED BY <3>1
  <2>2. CASE j >= p
    <3>1. j + 1 \in 1..Len(r) /\ r[j + 1] = q[j]
      BY <1>1, <1>4, <2>2
    <3> QED BY <3>1
  <2> QED BY <1>1, <2>1, <2>2
<1> QED BY <1>4, <1>5, <1>6, <1>7, <1>8 DEF Sorted, Urgent, r

\* One of the first i frames of a new transfer of a kind.
Fresh(f, k, z, i) ==
  f \in Frame /\ f.kind = k /\ f.no = Len(sent[k]) + 1 /\ f.size = z /\ f.index \in 1..i

\* The queue after these.
LinedUp(r, k, z, i) ==
  /\ r \in Seq(Frame) /\ Len(r) = Len(queue) + i /\ Sorted(r) /\ Urgent(r)
  /\ \A j \in 1..Len(r) : (\E m \in 1..Len(queue) : r[j] = queue[m]) \/ Fresh(r[j], k, z, i)
  /\ \A m \in 1..Len(queue) : \E j \in 1..Len(r) : r[j] = queue[m]
  /\ \A f : Fresh(f, k, z, i) => \E j \in 1..Len(r) : r[j] = f

LEMMA QueuedFrames ==
  ASSUME TransferTypes, Lines, NEW k \in Kinds, NEW z \in Sizes, NEW fit \in 0..z
  PROVE  LinedUp(Queued(k, Len(sent[k]) + 1, z)[fit], k, z, fit)
<1> DEFINE n == Len(sent[k]) + 1
           F == Frames(k, n, z)
           next == [i \in 1..z |-> [q \in Seq(Frame) |-> pushTxQueue(q, F[i])]]
           Steps(q) == q = [i \in 0..z |-> IF i = 0 THEN queue ELSE pushTxQueue(q[i - 1], F[i])]
           g == Queued(k, n, z)
<1>1. n \in Nat \ {0} /\ z \in Nat \ {0} /\ queue \in Seq(Frame) /\ Len(queue) \in Nat
  <2>1. sent[k] \in Seq(Sizes)
    BY DEF TransferTypes
  <2>2. Len(sent[k]) \in Nat
    BY <2>1
  <2>3. queue \in Seq(Frame)
    BY DEF TransferTypes
  <2>4. Len(queue) \in Nat
    BY <2>3
  <2>5. z \in Nat \ {0}
    BY TransferAssumption
  <2>6. n \in Nat \ {0}
    BY <2>2
  <2> QED BY <2>3, <2>4, <2>5, <2>6
<1>2. \A i \in 1..z : F[i] \in Frame /\ F[i].kind = k /\ F[i].no = n /\ F[i].index = i /\ F[i].size = z
  BY <1>1 DEF Frames, Frame
<1>3. \E q : Steps(q)
  <2> HIDE DEF F
  <2>1. next \in [1..z -> [Seq(Frame) -> Seq(Frame)]]
    <3>1. \A i \in 1..z : \A q \in Seq(Frame) : pushTxQueue(q, F[i]) \in Seq(Frame)
      BY <1>2, PushedAt
    <3> QED BY <3>1
  <2>2. \A i \in 1..z : \A q \in Seq(Frame) : next[i][q] = pushTxQueue(q, F[i])
    OBVIOUS
  <2> HIDE DEF next
  <2>3. PICK h \in [0..z -> Seq(Frame)] : h[0] = queue /\ \A i \in 1..z : h[i] = next[i][h[i - 1]]
    <3> DEFINE S == Seq(Frame)
    <3>1. z \in Nat /\ queue \in S /\ next \in [1..z -> [S -> S]]
      BY <1>1, <2>1
    <3> HIDE DEF S
    <3>2. \E h \in [0..z -> S] : Recursed(h, z, queue, next)
      BY <3>1, Recursion
    <3> QED BY <3>2 DEF S, Recursed
  <2>4. \A i \in 1..z : h[i] = pushTxQueue(h[i - 1], F[i])
    <3>1. \A i \in 1..z : i - 1 \in 0..z
      BY <1>1
    <3> QED BY <2>2, <2>3, <3>1
  <2>5. h = [i \in 0..z |-> IF i = 0 THEN queue ELSE pushTxQueue(h[i - 1], F[i])]
    BY <1>1, <2>3, <2>4
  <2> QED BY <2>5
<1>4. Steps(g)
  BY <1>3, Zenon DEF Queued
<1>5. g[0] = queue /\ \A i \in 1..z : g[i] = pushTxQueue(g[i - 1], F[i])
  <2> HIDE DEF g, F
  <2> QED BY <1>1, <1>4
<1> DEFINE T == {i \in Nat : i <= z => LinedUp(g[i], k, z, i)}
<1>6. 0 \in T
  <2>1. \A f : ~Fresh(f, k, z, 0)
    BY DEF Fresh
  <2>2. LinedUp(queue, k, z, 0)
    BY <1>1, <2>1 DEF LinedUp, Lines
  <2> HIDE DEF g
  <2> QED BY <1>1, <1>5, <2>2
<1>7. ASSUME NEW i \in Nat, i \in T
      PROVE  i + 1 \in T
  <2> SUFFICES ASSUME i + 1 <= z
               PROVE  LinedUp(g[i + 1], k, z, i + 1)
    OBVIOUS
  <2> DEFINE q == g[i]
             f == F[i + 1]
  <2>1. LinedUp(q, k, z, i) /\ i + 1 \in 1..z
    BY <1>1, <1>7
  <2>2. g[i + 1] = pushTxQueue(q, f)
    BY <1>5, <2>1
  <2>3. f \in Frame /\ f.kind = k /\ f.no = n /\ f.index = i + 1
    BY <1>2, <2>1
  <2> HIDE DEF g, q, f, T
  <2>4. \A m \in 1..Len(queue) : Before(queue[m], f)
    <3> SUFFICES ASSUME NEW m \in 1..Len(queue), queue[m].kind = k
                 PROVE  queue[m].no < n
      BY <2>3 DEF Before
    <3>1. queue[m] \in Underway
      BY DEF Underway
    <3> QED BY <1>1, <3>1 DEF Lines, Valid, Frame
  <2>5. \A h : Fresh(h, k, z, i) => Before(h, f)
    BY <1>1, <2>1, <2>3 DEF Before, Fresh
  <2>6. \A j \in 1..Len(q) : Before(q[j], f)
    BY <2>1, <2>4, <2>5 DEF LinedUp
  <2> DEFINE r == pushTxQueue(q, f)
  <2>7. /\ r \in Seq(Frame) /\ Len(r) = Len(q) + 1 /\ Sorted(r) /\ Urgent(r)
        /\ \A j \in 1..Len(r) : r[j] = f \/ \E m \in 1..Len(q) : r[j] = q[m]
        /\ \E j \in 1..Len(r) : r[j] = f
        /\ \A m \in 1..Len(q) : \E j \in 1..Len(r) : r[j] = q[m]
    <3>1. q \in Seq(Frame) /\ Sorted(q) /\ Urgent(q)
      BY <2>1 DEF LinedUp
    <3> QED BY <2>1, <2>3, <2>6, <3>1, Pushed
  <2> HIDE DEF r
  <2>8. Len(r) = Len(queue) + (i + 1)
    BY <1>1, <2>1, <2>7 DEF LinedUp
  <2>9. \A j \in 1..Len(r) : (\E m \in 1..Len(queue) : r[j] = queue[m]) \/ Fresh(r[j], k, z, i + 1)
    <3> SUFFICES ASSUME NEW j \in 1..Len(r)
                 PROVE  (\E m \in 1..Len(queue) : r[j] = queue[m]) \/ Fresh(r[j], k, z, i + 1)
      OBVIOUS
    <3>1. CASE r[j] = f
      <4>1. i + 1 \in 1..(i + 1) /\ f.size = z
        BY <2>1, <1>2 DEF f
      <4> QED BY <2>3, <3>1, <4>1 DEF Fresh, n
    <3>2. CASE \E m \in 1..Len(q) : r[j] = q[m]
      <4>1. PICK m \in 1..Len(q) : r[j] = q[m]
        BY <3>2
      <4>2. CASE \E l \in 1..Len(queue) : q[m] = queue[l]
        BY <4>1, <4>2
      <4>3. CASE Fresh(q[m], k, z, i)
        <5>1. 1..i \subseteq 1..(i + 1)
          OBVIOUS
        <5> QED BY <4>1, <4>3, <5>1 DEF Fresh
      <4> QED BY <2>1, <4>2, <4>3 DEF LinedUp
    <3> QED BY <2>7, <3>1, <3>2
  <2>11. \A m \in 1..Len(queue) : \E j \in 1..Len(r) : r[j] = queue[m]
    <3> SUFFICES ASSUME NEW m \in 1..Len(queue)
                 PROVE  \E j \in 1..Len(r) : r[j] = queue[m]
      OBVIOUS
    <3>1. PICK l \in 1..Len(q) : q[l] = queue[m]
      BY <2>1 DEF LinedUp
    <3> QED BY <2>7, <3>1
  <2>12. ASSUME NEW h, Fresh(h, k, z, i + 1)
         PROVE  \E j \in 1..Len(r) : r[j] = h
    <3>1. CASE h.index = i + 1
      <4>1. f.size = z
        BY <2>1, <1>2 DEF f
      <4>2. h \in Frame /\ h.kind = k /\ h.no = n /\ h.size = z
        BY <2>12 DEF Fresh
      <4>3. h = f
        BY <2>3, <3>1, <4>1, <4>2 DEF Frame
      <4> QED BY <2>7, <4>3
    <3>2. CASE h.index # i + 1
      <4>1. Fresh(h, k, z, i)
        BY <1>7, <2>12, <3>2 DEF Fresh
      <4>2. PICK l \in 1..Len(q) : q[l] = h
        BY <2>1, <4>1 DEF LinedUp
      <4> QED BY <2>7, <4>2
    <3> QED BY <3>1, <3>2
  <2>10. LinedUp(r, k, z, i + 1)
    BY <2>7, <2>8, <2>9, <2>11, <2>12 DEF LinedUp
  <2> QED BY <2>2, <2>10 DEF r
<1>8. fit \in T
  <2> HIDE DEF T
  <2> QED BY <1>1, <1>6, <1>7, Induction
<1> QED BY <1>1, <1>8

\* Frames that are gone and transfers that are added do not matter to what was summed up.
LEMMA SummedKept ==
  ASSUME NEW u, NEW v, NEW m \in Nat, NEW l \in Nat, m <= l, NEW k,
         \A f \in v : f.no \in Nat /\ (f \in u \/ (f.kind = k => f.no > m)),
         NEW s, s.calc \in Pieces, Summed(u, m, k, s)
  PROVE  Summed(v, l, k, s) /\ (Done(u, k, s) => Done(v, k, s))
<1> SUFFICES ASSUME s.calc # <<>>
             PROVE  Summed(v, l, k, s) /\ (Done(u, k, s) => Done(v, k, s))
  BY DEF Summed, Done
<1> DEFINE n == s.calc[1][1]
           a == s.calc[1][2]
<1>1. n \in Nat /\ a \in Nat
  BY DEF Pieces
<1>2. /\ n <= m /\ Later(u, k, n)
      /\ a = 1 => \/ s.payload = s.calc /\ s.tid = n % Tids
                  \/ s.tid = (n + 1) % Tids \/ Later(u, k, n + 1)
  BY DEF Summed
<1>3. (Later(v, k, n + 1) => /\ Summed(v, l, k, s) /\ Done(v, k, s)) /\ (Done(u, k, s) => Later(u, k, n + 1))
  <2>1. Later(v, k, n + 1) => Later(v, k, n)
    BY <1>1 DEF Later
  <2>2. n <= l
    BY <1>1, <1>2
  <2> QED BY <2>1, <2>2 DEF Summed, Done
<1> HIDE DEF n, a
<1>4. Later(v, k, n) /\ (Later(u, k, n + 1) => Later(v, k, n + 1))
  BY <1>1, <1>2 DEF Later
<1>5. CASE Later(u, k, n + 1)
  BY <1>3, <1>4, <1>5
<1>6. CASE ~Later(u, k, n + 1)
  <2>1. n <= l
    BY <1>1, <1>2
  <2>2. Summed(v, l, k, s)
    BY <1>2, <1>4, <1>6, <2>1 DEF Summed, n, a
  <2> QED BY <1>3, <1>6, <2>2
<1> QED BY <1>5, <1>6

\* The first frame of its line on the way.
Foremost(u, f) == f \in u /\ f \in Frame /\ \A g \in u : g \in Frame /\ (g.kind = f.kind => f.no <= g.no)

\* A state that expects the transfer after that of the foremost frame.
LEMMA SummedRestarted ==
  ASSUME NEW u, NEW m \in Nat, NEW f, Foremost(u, f), NEW s \in RxState, NEW t \in RxState,
         Summed(u, m, f.kind, s), t.calc = s.calc, t.tid = (f.no + 1) % Tids
  PROVE  Summed(u, m, f.kind, t)
<1> SUFFICES ASSUME s.calc # <<>>
             PROVE  Summed(u, m, f.kind, t)
  BY DEF Summed
<1> DEFINE n == s.calc[1][1]
           a == s.calc[1][2]
<1>1. n \in Nat /\ f.no \in Nat /\ f \in u
  BY SMTT(20) DEF Pieces, RxState, Foremost, Frame
<1>2. n <= m /\ Later(u, f.kind, n)
  BY DEF Summed
<1>3. t.tid = (n + 1) % Tids \/ Later(u, f.kind, n + 1) => Summed(u, m, f.kind, t)
  BY <1>2 DEF Summed
<1> HIDE DEF n, a
<1>4. n <= f.no
  BY <1>1, <1>2 DEF Later
<1>5. CASE n = f.no
  BY <1>3, <1>5
<1>6. CASE n < f.no
  <2>1. Later(u, f.kind, n + 1)
    BY <1>1, <1>6 DEF Later, Foremost, Frame
  <2> QED BY <1>3, <2>1
<1> QED BY <1>1, <1>4, <1>5, <1>6

\* A state that gathers the foremost frame, which it expects.
LEMMA SummedAppended ==
  ASSUME NEW u, NEW m \in Nat, NEW f, Foremost(u, f), f.no <= m,
         NEW s \in RxState, NEW t \in RxState,
         Summed(u, m, f.kind, s), s.tid = tid(f), t.tid = s.tid,
         first(f) => s.calc = <<>> /\ s.payload = <<>>,
         t.calc = Append(s.calc, Piece(f)), t.payload = Append(s.payload, Piece(f))
  PROVE  Summed(u, m, f.kind, t)
<1>1. /\ f.no \in Nat /\ f.index \in Nat /\ f \in u /\ Later(u, f.kind, f.no)
      /\ s.calc \in Pieces /\ s.payload \in Pieces
  BY DEF RxState, Foremost, Frame, Later
<1>2. CASE s.calc = <<>>
  <2>1. t.calc[1] = <<f.no, f.index>>
    BY <1>2, <1>1 DEF Piece, Pieces
  <2>2. f.index = 1 => t.payload = t.calc
    BY <1>2 DEF first
  <2> QED BY <1>1, <2>1, <2>2 DEF Summed, tid
<1>3. CASE s.calc # <<>>
  <2> DEFINE n == s.calc[1][1]
             a == s.calc[1][2]
  <2>1. t.calc[1] = s.calc[1] /\ n \in Nat
    BY <1>1, <1>3, SMTT(20) DEF Pieces
  <2>2. /\ n <= m /\ Later(u, f.kind, n)
        /\ a = 1 => \/ s.payload = s.calc /\ s.tid = n % Tids
                    \/ s.tid = (n + 1) % Tids \/ Later(u, f.kind, n + 1)
    BY <1>3 DEF Summed
  <2>3. (a = 1 => \/ t.payload = t.calc /\ t.tid = n % Tids
                  \/ Later(u, f.kind, n + 1)) => Summed(u, m, f.kind, t)
    BY <2>1, <2>2 DEF Summed
  <2> HIDE DEF n, a
  <2>4. n <= f.no
    BY <1>1, <2>1, <2>2 DEF Later
  <2>5. CASE n < f.no
    <3>1. Later(u, f.kind, n + 1)
      BY <1>1, <2>1, <2>5 DEF Later, Foremost, Frame
    <3> QED BY <2>3, <3>1
  <2>6. CASE n = f.no
    <3>1. ~Later(u, f.kind, n + 1)
      BY <1>1, <2>1, <2>6 DEF Later
    <3>2. s.tid # (n + 1) % Tids
      <4>1. Tids \in Nat /\ Tids > 1
        BY TransferAssumption
      <4>2. n % Tids # (n + 1) % Tids
        BY <2>1, <4>1, Neighbours
      <4> QED BY <2>6, <4>2 DEF tid
    <3> QED BY <2>2, <2>3, <3>1, <3>2
  <2> QED BY <1>1, <2>1, <2>4, <2>5, <2>6
<1> QED BY <1>2, <1>3

\* A state that sums up the last frame of a transfer.
LEMMA SummedUp ==
  ASSUME NEW u, NEW v \in SUBSET u, NEW m \in Nat, NEW f, Foremost(u, f), f.no <= m,
         Later(v, f.kind, f.no + 1),
         NEW s \in RxState, NEW t \in RxState,
         Summed(u, m, f.kind, s), t.calc = Append(s.calc, Piece(f))
  PROVE  Summed(v, m, f.kind, t) /\ Done(v, f.kind, t)
<1>1. f.no \in Nat /\ f.index \in Nat /\ f \in u /\ s.calc \in Pieces
  BY DEF RxState, Foremost, Frame
<1> DEFINE n == t.calc[1][1]
<1>2. n \in Nat /\ n <= f.no
  <2>1. CASE s.calc = <<>>
    <3>1. t.calc[1] = <<f.no, f.index>>
      BY <1>1, <2>1 DEF Piece, Pieces
    <3> QED BY <1>1, <3>1
  <2>2. CASE s.calc # <<>>
    <3>1. t.calc[1] = s.calc[1] /\ s.calc[1][1] \in Nat
      BY <1>1, <2>2 DEF Pieces
    <3>2. Later(u, f.kind, s.calc[1][1])
      BY <2>2 DEF Summed
    <3>3. s.calc[1][1] <= f.no
      BY <1>1, <3>2 DEF Later
    <3> QED BY <3>1, <3>3
  <2> QED BY <2>1, <2>2
<1>3. n <= m /\ Later(v, f.kind, n) /\ Later(v, f.kind, n + 1)
  <2> HIDE DEF n
  <2>1. \A g \in v : g.no \in Nat
    BY DEF Foremost, Frame
  <2> QED BY <1>1, <1>2, <2>1 DEF Later
<1> QED BY <1>3 DEF Summed, Done

\* What holds on the way when the first frame on the wire has been taken.
LEMMA FrameTaken ==
  ASSUME TransferTypes, Lines, wire # <<>>, wire' = Tail(wire), UNCHANGED <<queue, sent>>,
         NEW f, f = Head(wire)
  PROVE  /\ Foremost(Underway, f) /\ Valid(f) /\ Underway' \subseteq Underway
         /\ Later(Underway', f.kind, f.no) /\ (last(f) => Later(Underway', f.kind, f.no + 1))
         /\ wire' \in Seq(Frame) /\ Sorted(wire')
         /\ \A i \in 1..Len(wire'), j \in 1..Len(queue) : Before(wire'[i], queue[j])
         /\ \A g \in Underway' : Before(f, g)
         /\ \A g \in Underway : g = f \/ g \in Underway'
<1>1. /\ Len(wire) \in Nat /\ Len(wire) > 0 /\ Len(queue) \in Nat /\ f = wire[1]
      /\ wire' \in Seq(Frame) /\ Len(wire') = Len(wire) - 1
      /\ \A i \in 1..Len(wire') : wire'[i] = wire[i + 1] /\ i + 1 \in 1..Len(wire)
  <2>1. wire \in Seq(Frame) /\ queue \in Seq(Frame)
    BY DEF TransferTypes
  <2> QED BY <2>1
<1>2. Sorted(wire') /\ \A i \in 1..Len(wire'), j \in 1..Len(queue) : Before(wire'[i], queue[j])
  BY <1>1 DEF Sorted, Lines
<1>3. ASSUME NEW g \in Underway'
      PROVE  g \in Underway /\ Before(f, g)
  <2>1. CASE \E i \in 1..Len(wire') : g = wire'[i]
    BY <1>1, <2>1 DEF Underway, Lines, Sorted
  <2>2. CASE \E i \in 1..Len(queue) : g = queue[i]
    BY <1>1, <2>2 DEF Underway, Lines
  <2> QED BY <2>1, <2>2 DEF Underway
<1>4. f \in Underway /\ Valid(f)
  BY <1>1 DEF Underway, Lines
<1>5. \A g \in Underway : g = f \/ g \in Underway'
  <2> SUFFICES ASSUME NEW g \in Underway, g # f
               PROVE  g \in Underway'
    OBVIOUS
  <2>1. CASE \E i \in 1..Len(wire) : g = wire[i]
    <3>1. PICK i \in 1..Len(wire) : g = wire[i]
      BY <2>1
    <3>2. i - 1 \in 1..Len(wire') /\ g = wire'[i - 1]
      BY <1>1, <3>1
    <3> QED BY <3>2 DEF Underway
  <2>2. CASE \E i \in 1..Len(queue) : g = queue[i]
    BY <2>2 DEF Underway
  <2> QED BY <2>1, <2>2 DEF Underway
<1>6. \A g \in Underway : Valid(g) /\ g \in Frame /\ g.no \in Nat /\ g.index \in Nat
  BY DEF Lines, Valid, Frame
<1>7. Foremost(Underway, f) /\ Later(Underway', f.kind, f.no)
  BY <1>3, <1>4, <1>5, <1>6 DEF Before, Foremost, Later
<1>8. ASSUME last(f), NEW g \in Underway', g.kind = f.kind
      PROVE  f.no + 1 <= g.no
  <2>1. f.no = g.no => g.size = f.size /\ g.index <= g.size /\ f.index < g.index
    BY <1>3, <1>4, <1>6, <1>8 DEF Before, Valid
  <2>2. f.size \in Nat
    BY <1>4, TransferAssumption DEF Valid, Frame
  <2> QED BY <1>3, <1>4, <1>6, <1>8, <2>1, <2>2 DEF Before, last
<1> QED BY <1>1, <1>2, <1>3, <1>4, <1>5, <1>7, <1>8 DEF Later

\* The state a frame is handled in and what it takes from the arena.
LEMMA Starting ==
  ASSUME TransferTypes, StatesFit, ~call.busy, NEW f, Foremost(Underway, f), Handled(f)
  PROVE  LET s == Started(f)
         IN  /\ s \in RxState /\ Emptied(s) /\ Summed(Underway, Len(sent[f.kind]), f.kind, s)
             /\ Left(f) = rxFree + BlockOf(f.kind) - 1 - s.blocks
             /\ first(f) => s.calc = <<>> /\ s.blocks = 0
             /\ ~first(f) => f.kind \in Known
             /\ ~first(f) /\ ~needRestart(Opened(f), f) => s = states[f.kind]
<1> DEFINE d == Found(f)
           o == Opened(f)
           s == Started(f)
           m == Len(sent[f.kind])
<1>1. f \in Frame /\ f.kind \in Kinds /\ f.no \in Nat /\ m \in Nat
  <2>1. f \in Frame /\ f.kind \in Kinds /\ f.no \in Nat
    BY DEF Foremost, Frame
  <2>2. sent[f.kind] \in Seq(Sizes)
    BY <2>1 DEF TransferTypes
  <2> QED BY <2>1, <2>2
<1>2. d \in RxState /\ Emptied(d) /\ Summed(Underway, m, f.kind, d)
  <2>1. CASE f.kind \in Known
    BY <2>1 DEF StatesFit, Found
  <2>2. CASE f.kind \notin Known
    <3>1. d = NoState
      BY <2>2 DEF Found
    <3>2. <<>> \in Pieces
      BY DEF Pieces
    <3> QED BY <3>1, <3>2 DEF NoState, RxState, Emptied, Summed
  <2> QED BY <2>1, <2>2
<1>3. /\ o \in RxState /\ Emptied(o) /\ Summed(Underway, m, f.kind, o) /\ o.blocks = d.blocks
      /\ first(f) => o.calc = <<>>
      /\ ~first(f) => o = d
  <2>1. CASE first(f)
    <3>1. o = [d EXCEPT !.calc = <<>>]
      BY <2>1 DEF Opened
    <3>2. <<>> \in Pieces
      BY DEF Pieces
    <3> HIDE DEF d, o
    <3> QED BY <1>2, <2>1, <3>1, <3>2 DEF RxState, Emptied, Summed
  <2>2. CASE ~first(f)
    BY <1>2, <2>2 DEF Opened
  <2> QED BY <2>1, <2>2
<1>4. Tids \in Nat /\ Tids > 0
  BY TransferAssumption
<1>5. /\ s \in RxState /\ Emptied(s) /\ Summed(Underway, m, f.kind, s)
      /\ s.calc = o.calc
      /\ s.blocks = IF needRestart(o, f) THEN 0 ELSE o.blocks
      /\ ~needRestart(o, f) => s = o
  <2>1. CASE needRestart(o, f)
    <3> DEFINE c == IF first(f) THEN tid(f) ELSE (tid(f) + 1) % Tids
    <3>1. s = [Released(o) EXCEPT !.tid = c, !.toggle = 0]
      BY <2>1 DEF Started
    <3>2. c \in Nat /\ (~first(f) => c = (f.no + 1) % Tids)
      <4>1. /\ f.no % Tids \in 0..(Tids - 1) /\ (f.no + 1) % Tids \in 0..(Tids - 1)
            /\ ((f.no % Tids) + 1) % Tids = (f.no + 1) % Tids
        <5>1. Tids \in Nat /\ Tids > 1
          BY TransferAssumption
        <5> QED BY <1>1, <5>1, Neighbours
      <4> QED BY <1>4, <4>1 DEF tid
    <3>3. <<>> \in Pieces
      BY DEF Pieces
    <3> HIDE DEF c, s, o, d, m
    <3>4. /\ s \in RxState /\ s.payload = <<>> /\ s.toggle = 0 /\ s.calc = o.calc /\ s.blocks = 0
          /\ s.tid = c
      BY <1>3, <3>1, <3>2, <3>3 DEF RxState, Released
    <3>5. Summed(Underway, m, f.kind, s)
      <4>1. CASE first(f)
        BY <1>3, <3>4, <4>1 DEF Summed
      <4>2. CASE ~first(f)
        BY <1>1, <1>3, <3>2, <3>4, <4>2, SummedRestarted
      <4> QED BY <4>1, <4>2
    <3> QED BY <2>1, <3>4, <3>5 DEF Emptied
  <2>2. CASE ~needRestart(o, f)
    <3>1. s = o
      BY <2>2 DEF Started
    <3> HIDE DEF s, o, d, m
    <3> QED BY <1>3, <2>2, <3>1
  <2> QED BY <2>1, <2>2
<1>6. first(f) => s.blocks = 0
  <2>1. ~needRestart(o, f) /\ first(f) => ~(o.blocks > 0)
    BY DEF needRestart
  <2>2. o.blocks \in Nat
    BY <1>3 DEF RxState
  <2> HIDE DEF s, o
  <2> QED BY <1>5, <2>1, <2>2
<1>7. ~first(f) => f.kind \in Known
  BY DEF Handled
<1>8. f.kind \in Known => d = states[f.kind]
  BY DEF Found
<1>9. Left(f) = rxFree + BlockOf(f.kind) - 1 - s.blocks
  <2>1. Left(f) = rxFree - (IF f.kind \in Known THEN 0 ELSE 1)
                    + (IF needRestart(o, f) THEN o.blocks ELSE 0)
    BY DEF Left
  <2>2. BlockOf(f.kind) = IF f.kind \in Known THEN o.blocks + 1 ELSE o.blocks
    <3>1. f.kind \notin Known => d.blocks = 0
      BY DEF Found, NoState
    <3> HIDE DEF o, d, s
    <3> QED BY <1>3, <1>8, <3>1 DEF BlockOf
  <2>3. rxFree \in Int /\ o.blocks \in Nat
    BY <1>3 DEF TransferTypes, RxState
  <2> HIDE DEF o, d, s
  <2> QED BY <1>5, <2>1, <2>2, <2>3
<1>10. ~first(f) /\ ~needRestart(o, f) => s = states[f.kind]
  <2> HIDE DEF o, d, s
  <2> QED BY <1>3, <1>5, <1>7, <1>8
<1> HIDE DEF d, m
<1> QED BY <1>3, <1>5, <1>6, <1>7, <1>9, <1>10 DEF m

\* What a state that is kept needs for the invariant to hold.
LEMMA KeepFits ==
  ASSUME TransferTypes, StatesFit, PoolIsWhole, ~call.busy, call.blocks = 0,
         Underway' \subseteq Underway, \A g \in Underway : g \in Frame,
         UNCHANGED <<queue, txFree, sent, held>>,
         NEW f \in Frame, NEW s \in RxState, NEW left \in Int, Keep(f, s, left),
         Summed(Underway', Len(sent[f.kind]), f.kind, s),
         IF call'.busy THEN call'.kind = f.kind /\ Done(Underway', f.kind, s) ELSE Emptied(s),
         call'.blocks \in Nat, left + call'.blocks = rxFree + BlockOf(f.kind) - 1 - s.blocks
  PROVE  /\ StatesFit' /\ PoolIsWhole'
         /\ rxFree' \in Int /\ Known' = Known \union {f.kind} /\ IsFiniteSet(Known')
         /\ Known' \subseteq Kinds /\ states' = [k \in Known' |-> states'[k]]
<1>1. states' = [k \in Known \union {f.kind} |-> IF k = f.kind THEN s ELSE states[k]] /\ rxFree' = left
  BY DEF Keep
<1>2. \A k \in Known : states[k] \in RxState /\ states[k].blocks \in Nat /\ states[k].calc \in Pieces
  BY DEF StatesFit, RxState
<1>3. s.blocks \in Nat /\ f.kind \in Kinds
  BY DEF RxState, Frame
<1>4. IsFiniteSet(Known) /\ Known \subseteq Kinds
  BY DEF TransferTypes
<1>5. /\ Cardinality(Blocks(Known)') = Cardinality(Blocks(Known)) - BlockOf(f.kind) + s.blocks + 1
      /\ Cardinality(Blocks(Known)) \in Nat /\ Cardinality(Blocks(Known)') \in Nat
      /\ Known' = Known \union {f.kind} /\ IsFiniteSet(Known')
  BY <1>1, <1>2, <1>3, <1>4, BlocksKept
<1>6. PoolIsWhole'
  <2>1. /\ rxFree \in Int /\ held \in Int /\ RxBlocks \in Nat
        /\ rxFree + held + 0 + Cardinality(Blocks(Known)) = RxBlocks
        /\ txFree + Len(queue) = TxBlocks
    BY TransferAssumption, SMTT(20) DEF TransferTypes, PoolIsWhole
  <2>2. BlockOf(f.kind) \in Nat
    BY <1>2 DEF BlockOf
  <2>3. rxFree' + held + call'.blocks + Cardinality(Blocks(Known)') = RxBlocks
    <3> DEFINE a == Cardinality(Blocks(Known))
               b == Cardinality(Blocks(Known)')
               c == call'.blocks
               d == BlockOf(f.kind)
               r == rxFree'
               x == s.blocks
    <3>1. r + c = rxFree + d - 1 - x /\ r \in Int /\ c \in Int
      BY <1>1
    <3>2. b = a - d + x + 1 /\ a \in Int /\ b \in Int /\ d \in Int /\ x \in Int
      BY <1>3, <1>5, <2>2
    <3>3. rxFree + held + a = RxBlocks
      BY <2>1, <1>5
    <3> HIDE DEF a, b, c, d, r, x
    <3>4. rxFree \in Int /\ held \in Int
      BY <2>1
    <3>5. r + c + b = rxFree + a
      BY <3>1, <3>2, <3>4
    <3>6. r + held + c + b = RxBlocks
      <4>1. r + held + c + b = (r + c + b) + held
        BY <3>1, <3>2, <3>4
      <4>2. rxFree + a + held = RxBlocks
        BY <3>2, <3>3, <3>4
      <4> QED BY <3>5, <4>1, <4>2
    <3> QED BY <3>6 DEF a, b, c, d, r
  <2> QED BY <2>1, <2>3 DEF PoolIsWhole
<1>7. StatesFit'
  <2> DEFINE d == states'
             u == Underway
             v == Underway'
  <2> SUFFICES ASSUME NEW k \in Known'
               PROVE  /\ d[k] \in RxState /\ Summed(v, Len(sent[k]), k, d[k])
                      /\ IF call'.busy /\ call'.kind = k THEN Done(v, k, d[k]) ELSE Emptied(d[k])
    BY DEF StatesFit
  <2>1. CASE k = f.kind
    <3>1. d[k] = s
      BY <1>1, <1>5, <2>1
    <3> QED BY <2>1, <3>1
  <2>2. CASE k # f.kind
    <3>1. k \in Known /\ d[k] = states[k]
      BY <1>1, <1>5, <2>2
    <3>2. Summed(u, Len(sent[k]), k, states[k]) /\ Emptied(states[k])
      BY <3>1 DEF StatesFit
    <3>3. Len(sent[k]) \in Nat
      <4>1. sent[k] \in Seq(Sizes)
        BY <1>4, <3>1 DEF TransferTypes
      <4> QED BY <4>1
    <3>4. \A g \in v : g.no \in Nat /\ g \in u
      BY DEF Frame
    <3> HIDE DEF u, v, d
    <3>5. Summed(v, Len(sent[k]), k, states[k])
      BY <1>2, <3>1, <3>2, <3>3, <3>4, SummedKept
    <3> QED BY <1>2, <2>2, <3>1, <3>2, <3>5
  <2> QED BY <2>1, <2>2
<1>8. states' = [k \in Known' |-> states'[k]] /\ Known' \subseteq Kinds
  BY <1>1, <1>3, <1>4, <1>5
<1> QED BY <1>1, <1>5, <1>6, <1>7, <1>8

\* Blocks for what several frames carry.
LEMMA SomeBlocks ==
  ASSUME NEW n \in Nat \ {0}
  PROVE  BlocksFor(n) \in Nat /\ (n > 1 => BlocksFor(n) > 0)
<1> DEFINE b == 5 + 7 * (n - 1)
           a == b - HeadBytes + BlockBytes - 1
<1>1. HeadBytes \in Nat /\ BlockBytes \in Nat \ {0} /\ HeadBytes < 12
  BY TransferAssumption
<1>2. b \in Nat /\ (n > 1 => b >= 12)
  OBVIOUS
<1>3. BlocksFor(n) = IF b <= HeadBytes THEN 0 ELSE a \div BlockBytes
  BY DEF BlocksFor
<1>4. CASE b <= HeadBytes
  <2> HIDE DEF b, a
  <2> QED BY <1>1, <1>2, <1>3, <1>4
<1>5. CASE ~(b <= HeadBytes)
  <2>1. a \in Nat /\ a >= BlockBytes
    <3> HIDE DEF b
    <3> QED BY <1>1, <1>2, <1>5
  <2> HIDE DEF b, a
  <2>2. a \div BlockBytes \in Nat /\ a \div BlockBytes > 0
    BY <1>1, <2>1
  <2> QED BY <1>3, <1>5, <2>2
<1> QED BY <1>4, <1>5

\* A transfer that is delivered is the one whose last frame came, and it is whole.
LEMMA Delivered ==
  ASSUME TransferInv, ReceiveFrame, NEW f, f = Head(wire)
  PROVE  \/ UNCHANGED <<upto, got, call>>
         \/ /\ last(f) /\ call'.busy /\ call'.kind = f.kind
            /\ upto' = [upto EXCEPT ![f.kind] = f.no]
            /\ got' = [got EXCEPT ![f.kind] = Content(f.no, f.size)]
<1> USE DEF TransferInv
<1>1. /\ ~call.busy /\ wire # <<>> /\ wire' = Tail(wire) /\ UNCHANGED <<queue, sent>>
      /\ canardHandleRxFrame(f)
  BY DEF ReceiveFrame, txVars
<1>2. Foremost(Underway, f) /\ Valid(f) /\ f \in Frame
  BY <1>1, FrameTaken DEF Foremost
<1>3. f.no \in Nat \ {0} /\ f.index \in Nat \ {0} /\ f.size \in Nat \ {0} /\ f.kind \in Kinds
  BY <1>2, TransferAssumption DEF Frame
<1>4. CASE Ignored(f) \/ Refused(f) \/ Gathered(f)
  BY <1>4 DEF Ignored, Refused, Gathered
<1>5. CASE SingleFrame(f)
  <2>1. <<Piece(f)>> = Content(f.no, f.size)
    <3>1. f.size = 1 /\ f.index = 1
      BY <1>5 DEF SingleFrame, first, last
    <3> QED BY <3>1 DEF Piece, Content
  <2> QED BY <1>5, <2>1 DEF SingleFrame, Deliver
<1>6. CASE Completed(f)
  <2> DEFINE s == Started(f)
             calc == Append(s.calc, Piece(f))
             n == s.crc[1]
             z == s.crc[2]
  <2>1. /\ s \in RxState /\ Summed(Underway, Len(sent[f.kind]), f.kind, s)
        /\ Handled(f) /\ ~first(f) /\ last(f) /\ tid(f) = s.tid
    <3>1. Handled(f) /\ ~first(f) /\ last(f) /\ tid(f) = s.tid
      BY <1>6 DEF Completed
    <3> HIDE DEF s
    <3> QED BY <1>1, <1>2, <3>1, Starting DEF s
  <2>2. CASE s.crc # <<>> /\ calc = Content(n, z)
    <3>1. Deliver(f, n, Append(s.payload, Piece(f)), s.blocks)
      BY <1>6, <2>2 DEF Completed
    <3>2. n \in Nat /\ z \in Nat /\ s.calc \in Pieces /\ s.payload \in Pieces
      BY <2>1, <2>2 DEF RxState
    <3> HIDE DEF s, n, z
    <3>3. Len(calc) = Len(s.calc) + 1 /\ calc[Len(s.calc) + 1] = Piece(f) /\ Len(s.calc) \in Nat
      BY <3>2 DEF Pieces
    <3>4. Len(Content(n, z)) = z /\ \A i \in 1..z : Content(n, z)[i] = <<n, i>>
      BY <3>2 DEF Content
    <3>5. Len(s.calc) + 1 = z /\ Piece(f) = <<n, z>>
      <4> DEFINE l == Len(s.calc)
      <4> HIDE DEF calc, l
      <4>1. l + 1 = z /\ z \in 1..z
        BY <2>2, <3>2, <3>3, <3>4 DEF l
      <4>2. Content(n, z)[z] = <<n, z>>
        BY <3>4, <4>1
      <4>3. calc[z] = Piece(f)
        BY <3>3, <4>1 DEF l
      <4> QED BY <2>2, <4>1, <4>2, <4>3 DEF l
    <3>6. f.no = n /\ f.index = z /\ f.size = z
      BY <2>1, <3>5 DEF Piece, last
    <3>7. Len(s.calc) > 0 /\ s.calc # <<>>
      BY <1>3, <2>1, <3>3, <3>5, <3>6 DEF first
    <3>8. s.calc[1] = <<n, 1>>
      <4>1. calc[1] = s.calc[1]
        BY <3>2, <3>7 DEF Pieces
      <4> HIDE DEF calc
      <4> QED BY <2>2, <3>2, <3>4, <3>5, <3>7, <4>1
    <3>9. s.payload = s.calc
      <4>1. \/ s.payload = s.calc
            \/ s.tid = (n + 1) % Tids
            \/ Later(Underway, f.kind, n + 1)
        BY <2>1, <3>7, <3>8 DEF Summed
      <4>2. ~Later(Underway, f.kind, n + 1)
        BY <1>2, <1>3, <3>6 DEF Later, Foremost
      <4>3. s.tid # (n + 1) % Tids
        <5>1. Tids \in Nat /\ Tids > 1
          BY TransferAssumption
        <5>2. n % Tids # (n + 1) % Tids
          BY <3>2, <5>1, Neighbours
        <5> QED BY <2>1, <3>6, <5>2 DEF tid
      <4> QED BY <4>1, <4>2, <4>3
    <3>10. Append(s.payload, Piece(f)) = Content(f.no, f.size)
      BY <2>2, <3>6, <3>9
    <3> QED BY <2>1, <3>1, <3>6, <3>10 DEF Deliver
  <2>3. CASE ~(s.crc # <<>> /\ calc = Content(n, z))
    BY <1>6, <2>3 DEF Completed
  <2> QED BY <2>2, <2>3
<1> QED BY <1>1, <1>4, <1>5, <1>6 DEF canardHandleRxFrame

\* States that gather nothing go on fitting as frames go, transfers are sent and
\* time passes.
LEMMA StatesStay ==
  ASSUME TransferTypes, StatesFit,
         \A k \in Kinds : Len(sent'[k]) \in Nat /\ Len(sent[k]) <= Len(sent'[k]),
         \A f \in Underway' : f.no \in Nat /\ (f \in Underway \/ f.no > Len(sent[f.kind])),
         Known' \subseteq Known, call'.busy = call.busy, call'.kind = call.kind,
         \A k \in Known' :
           /\ states'[k] \in RxState /\ states'[k].tid = states[k].tid
           /\ states'[k].payload = states[k].payload /\ states'[k].calc = states[k].calc
           /\ states'[k].toggle = states[k].toggle /\ states'[k].blocks = states[k].blocks
  PROVE  StatesFit'
<1> DEFINE d == states'
           u == Underway
           v == Underway'
           sn == sent'
<1> SUFFICES ASSUME NEW k \in Known'
             PROVE  /\ d[k] \in RxState /\ Summed(v, Len(sn[k]), k, d[k])
                    /\ IF call'.busy /\ call'.kind = k THEN Done(v, k, d[k]) ELSE Emptied(d[k])
  BY DEF StatesFit
<1> DEFINE s == states[k]
           m == Len(sent[k])
           l == Len(sn[k])
<1>1. k \in Kinds /\ k \in Known /\ sent[k] \in Seq(Sizes)
  BY DEF TransferTypes
<1>2. m \in Nat /\ l \in Nat /\ m <= l
  BY <1>1
<1>3. /\ d[k] \in RxState /\ d[k].tid = s.tid /\ d[k].payload = s.payload /\ d[k].calc = s.calc
      /\ d[k].toggle = s.toggle /\ d[k].blocks = s.blocks
  OBVIOUS
<1>4. /\ s.calc \in Pieces /\ Summed(u, m, k, s)
      /\ IF call.busy /\ call.kind = k THEN Done(u, k, s) ELSE Emptied(s)
  BY <1>1 DEF StatesFit, RxState
<1>5. \A f \in v : f.no \in Nat /\ (f \in u \/ (f.kind = k => f.no > m))
  OBVIOUS
<1> HIDE DEF d, u, v, sn, s, m, l
<1>6. Summed(v, l, k, s) /\ (Done(u, k, s) => Done(v, k, s))
  BY <1>2, <1>4, <1>5, SummedKept
<1>7. Summed(v, l, k, d[k]) /\ (Done(v, k, s) => Done(v, k, d[k])) /\ (Emptied(s) => Emptied(d[k]))
  BY <1>3, <1>6 DEF Summed, Done, Emptied
<1> QED BY <1>3, <1>4, <1>6, <1>7 DEF l

\* What a frame does to the states, the arena and the callback.
HandledWell ==
  /\ StatesFit' /\ PoolIsWhole' /\ CallCounted'
  /\ rxFree' \in Int /\ IsFiniteSet(Known') /\ Known' \subseteq Kinds
  /\ states' = [k \in Known' |-> states'[k]]
  /\ call' \in Callback

\* What is known when a frame that has a state to be handled in is handled.
Taken(f) ==
  /\ TransferTypes /\ StatesFit /\ PoolIsWhole /\ ~call.busy /\ call.blocks = 0
  /\ Foremost(Underway, f) /\ Valid(f) /\ Underway' \subseteq Underway
  /\ Later(Underway', f.kind, f.no) /\ (last(f) => Later(Underway', f.kind, f.no + 1))
  /\ UNCHANGED <<queue, txFree, sent, held>>

LEMMA TakenFits ==
  ASSUME NEW f, Taken(f)
  PROVE  /\ f \in Frame /\ f.kind \in Kinds /\ f.no \in Nat \ {0} /\ f.index \in Nat \ {0}
         /\ Piece(f) \in Nat \X Nat
         /\ Len(sent[f.kind]) \in Nat /\ f.no <= Len(sent[f.kind])
         /\ \A g \in Underway : g \in Frame /\ g.no \in Nat
         /\ f.no % Tids \in Nat /\ ((f.no % Tids) + 1) % Tids = (f.no + 1) % Tids
         /\ (f.no + 1) % Tids \in Nat
<1>1. f \in Frame /\ f.kind \in Kinds /\ f.no \in Nat \ {0} /\ f.index \in Nat \ {0}
  BY DEF Taken, Foremost, Frame
<1>2. sent[f.kind] \in Seq(Sizes)
  BY <1>1 DEF Taken, TransferTypes
<1>3. Len(sent[f.kind]) \in Nat /\ f.no <= Len(sent[f.kind])
  BY <1>2 DEF Taken, Valid
<1>4. \A g \in Underway : g \in Frame /\ g.no \in Nat
  BY DEF Taken, Foremost, Frame
<1>5. Tids \in Nat /\ Tids > 1
  BY TransferAssumption
<1>6. /\ f.no % Tids \in 0..(Tids - 1) /\ ((f.no % Tids) + 1) % Tids = (f.no + 1) % Tids
      /\ (f.no + 1) % Tids \in 0..(Tids - 1)
  BY <1>1, <1>5, Neighbours
<1> QED BY <1>1, <1>3, <1>4, <1>5, <1>6 DEF Piece

\* A step that keeps a state, without or with a callback for it.
LEMMA KeptWell ==
  ASSUME NEW f, Taken(f), NEW s \in RxState, NEW left \in Int, Keep(f, s, left),
         \/ Summed(Underway, Len(sent[f.kind]), f.kind, s)
         \/ Summed(Underway', Len(sent[f.kind]), f.kind, s),
         Emptied(s), UNCHANGED call,
         left = rxFree + BlockOf(f.kind) - 1 - s.blocks
  PROVE  HandledWell
<1>1. /\ f \in Frame /\ f.kind \in Kinds /\ Len(sent[f.kind]) \in Nat
      /\ \A g \in Underway : g \in Frame /\ g.no \in Nat
  BY TakenFits
<1>2. Summed(Underway', Len(sent[f.kind]), f.kind, s)
  <2> DEFINE u == Underway
             v == Underway'
             m == Len(sent[f.kind])
  <2>1. \A g \in v : g.no \in Nat /\ g \in u
    BY <1>1 DEF Taken
  <2>2. s.calc \in Pieces
    BY DEF RxState
  <2> HIDE DEF u, v, m
  <2>3. Summed(u, m, f.kind, s) => Summed(v, m, f.kind, s)
    BY <1>1, <2>1, <2>2, SummedKept DEF u, m
  <2> QED BY <2>3 DEF u, v, m
<1>3. /\ ~call.busy /\ call.blocks = 0 /\ ~call'.busy /\ call'.blocks = 0
  BY DEF Taken, TransferTypes
<1>6. call' \in Callback
  BY Zenon DEF Taken, TransferTypes
<1>4. /\ StatesFit' /\ PoolIsWhole'
      /\ rxFree' \in Int /\ Known' = Known \union {f.kind} /\ IsFiniteSet(Known')
      /\ Known' \subseteq Kinds /\ states' = [k \in Known' |-> states'[k]]
  <2>1. call'.blocks \in Nat /\ left + call'.blocks = rxFree + BlockOf(f.kind) - 1 - s.blocks
    BY <1>3
  <2> QED BY <1>1, <1>2, <1>3, <2>1, KeepFits DEF Taken
<1>5. CallCounted'
  BY <1>3 DEF CallCounted
<1> QED BY <1>4, <1>5, <1>6, Zenon DEF HandledWell

\* A step that ends in a callback.
LEMMA DeliveredWell ==
  ASSUME NEW f, Taken(f), NEW s \in RxState, NEW left \in Int, Keep(f, s, left),
         Summed(Underway', Len(sent[f.kind]), f.kind, s), Done(Underway', f.kind, s),
         NEW n, NEW p, NEW b \in Nat, Deliver(f, n, p, b),
         left + b = rxFree + BlockOf(f.kind) - 1 - s.blocks
  PROVE  HandledWell
<1>1. /\ f \in Frame /\ f.kind \in Kinds /\ \A g \in Underway : g \in Frame /\ g.no \in Nat
  BY TakenFits
<1>2. call' = [kind |-> f.kind, blocks |-> b, busy |-> TRUE]
  BY DEF Deliver
<1>3. call'.busy /\ call'.kind = f.kind /\ call'.blocks = b
  BY <1>2
<1>4. /\ StatesFit' /\ PoolIsWhole'
      /\ rxFree' \in Int /\ Known' = Known \union {f.kind} /\ IsFiniteSet(Known')
      /\ Known' \subseteq Kinds /\ states' = [k \in Known' |-> states'[k]]
  <2>1. /\ call'.blocks \in Nat /\ left + call'.blocks = rxFree + BlockOf(f.kind) - 1 - s.blocks
        /\ IF call'.busy THEN call'.kind = f.kind /\ Done(Underway', f.kind, s) ELSE Emptied(s)
    BY <1>3
  <2> QED BY <1>1, <2>1, KeepFits DEF Taken
<1>5. CallCounted'
  BY <1>3 DEF CallCounted
<1>6. call' \in Callback
  BY <1>1, <1>2, TransferAssumption DEF Callback
<1> QED BY <1>4, <1>5, <1>6, Zenon DEF HandledWell

LEMMA RefusedWell ==
  ASSUME NEW f, Taken(f), Refused(f)
  PROVE  HandledWell
<1>1. Handled(f) /\ Keep(f, Started(f), Left(f)) /\ UNCHANGED call
  BY DEF Refused
<1> DEFINE s == Started(f)
           left == Left(f)
           m == Len(sent[f.kind])
<1>2. /\ s \in RxState /\ Emptied(s) /\ Summed(Underway, m, f.kind, s)
      /\ left = rxFree + BlockOf(f.kind) - 1 - s.blocks
  BY <1>1, Starting DEF Taken
<1>3. left \in Int
  <2>1. rxFree \in Int /\ BlockOf(f.kind) \in Int /\ s.blocks \in Int
    BY <1>2 DEF Taken, TransferTypes, StatesFit, RxState, BlockOf
  <2> HIDE DEF s, left
  <2> QED BY <1>2, <2>1
<1> HIDE DEF s, left, m
<1> QED BY <1>1, <1>2, <1>3, KeptWell DEF s, left, m

LEMMA SingleFrameWell ==
  ASSUME NEW f, Taken(f), SingleFrame(f)
  PROVE  HandledWell
<1> DEFINE s == Started(f)
           t == [s EXCEPT !.seen = TRUE, !.age = 0]
           left == Left(f)
           m == Len(sent[f.kind])
<1>1. Handled(f) /\ first(f) /\ Keep(f, t, left) /\ Deliver(f, f.no, <<Piece(f)>>, 0)
  BY DEF SingleFrame
<1>2. /\ s \in RxState /\ s.calc = <<>>
      /\ left = rxFree + BlockOf(f.kind) - 1 - s.blocks
  BY <1>1, Starting DEF Taken
<1>3. left \in Int
  <2>1. rxFree \in Int /\ BlockOf(f.kind) \in Int /\ s.blocks \in Int
    BY <1>2 DEF Taken, TransferTypes, StatesFit, RxState, BlockOf
  <2> HIDE DEF s, left
  <2> QED BY <1>2, <2>1
<1> HIDE DEF s, left, m
<1>4. t \in RxState /\ t.calc = <<>> /\ t.blocks = s.blocks /\ t.seen /\ t.age = 0
  BY <1>2 DEF RxState
<1> HIDE DEF t
<1>5. Summed(Underway', Len(sent[f.kind]), f.kind, t) /\ Done(Underway', f.kind, t)
  BY <1>4 DEF Summed, Done
<1>6. left + 0 = rxFree + BlockOf(f.kind) - 1 - t.blocks /\ 0 \in Nat
  BY <1>2, <1>3, <1>4, TransferAssumption
<1> QED BY <1>1, <1>3, <1>4, <1>5, <1>6, DeliveredWell

LEMMA GatheredWell ==
  ASSUME NEW f, Taken(f), Gathered(f)
  PROVE  HandledWell
<1> DEFINE s    == Started(f)
           some == [s EXCEPT !.payload = Append(@, Piece(f)), !.calc = Append(@, Piece(f)),
                             !.crc = IF first(f) THEN <<f.no, f.size>> ELSE @,
                             !.seen = TRUE, !.age = IF first(f) THEN 0 ELSE @,
                             !.blocks = BlocksFor(Len(s.payload) + 1), !.toggle = 1 - @]
           none == prepareForNextTransfer([Released(s) EXCEPT
                          !.seen = TRUE, !.age = IF first(f) THEN 0 ELSE @])
           need == some.blocks - s.blocks
           m == Len(sent[f.kind])
<1>1. /\ Handled(f) /\ toggle(f) = s.toggle /\ tid(f) = s.tid /\ UNCHANGED call
      /\ first(f) \/ ~needRestart(Opened(f), f)
      /\ \/ Keep(f, some, Left(f) - need)
         \/ Keep(f, none, Left(f) + s.blocks)
  BY DEF Gathered
<1>2. /\ s \in RxState /\ Emptied(s) /\ Summed(Underway, m, f.kind, s)
      /\ Left(f) = rxFree + BlockOf(f.kind) - 1 - s.blocks
      /\ first(f) => s.calc = <<>> /\ s.blocks = 0
  BY <1>1, Starting DEF Taken
<1>3. rxFree \in Int /\ BlockOf(f.kind) \in Int /\ s.blocks \in Int /\ Left(f) \in Int
  <2>1. rxFree \in Int /\ BlockOf(f.kind) \in Int /\ s.blocks \in Int
    BY <1>2 DEF Taken, TransferTypes, StatesFit, RxState, BlockOf
  <2> HIDE DEF s
  <2> QED BY <1>2, <2>1
<1>4. /\ f \in Frame /\ f.no \in Nat \ {0} /\ f.no <= m /\ m \in Nat /\ Piece(f) \in Nat \X Nat
      /\ f.no % Tids \in Nat /\ ((f.no % Tids) + 1) % Tids = (f.no + 1) % Tids
      /\ (f.no + 1) % Tids \in Nat /\ Foremost(Underway, f) /\ f.size \in Nat
  <2>1. f \in Frame /\ Foremost(Underway, f)
    BY TakenFits DEF Taken
  <2>2. f.size \in Nat
    BY <2>1, TransferAssumption DEF Frame
  <2> QED BY <2>1, <2>2, TakenFits
<1>5. Len(s.payload) + 1 \in Nat \ {0} /\ s.payload \in Pieces /\ s.calc \in Pieces
  <2>1. s.payload \in Pieces /\ s.calc \in Pieces
    BY <1>2 DEF RxState
  <2> HIDE DEF s
  <2> QED BY <2>1 DEF Pieces
<1>6. /\ BlocksFor(Len(s.payload) + 1) \in Nat
      /\ s.payload # <<>> => BlocksFor(Len(s.payload) + 1) > 0
  <2> HIDE DEF s
  <2>1. s.payload # <<>> => Len(s.payload) + 1 > 1
    BY <1>5 DEF Pieces
  <2> QED BY <1>5, <2>1, SomeBlocks
<1>7. CASE Keep(f, some, Left(f) - need)
  <2> HIDE DEF s
  <2>1. /\ some.payload = Append(s.payload, Piece(f)) /\ some.calc = Append(s.calc, Piece(f))
        /\ some.blocks = BlocksFor(Len(s.payload) + 1) /\ some.toggle = 1 - s.toggle
        /\ some.tid = s.tid
    BY <1>2 DEF RxState
  <2>2. Append(s.payload, Piece(f)) \in Pieces /\ Append(s.calc, Piece(f)) \in Pieces
        /\ Append(s.payload, Piece(f)) # <<>>
    <3>1. ASSUME NEW q \in Pieces
          PROVE  Append(q, Piece(f)) \in Pieces /\ Append(q, Piece(f)) # <<>>
      <4> DEFINE e == Piece(f)
                 S == Nat \X Nat
      <4>1. q \in Seq(S) /\ e \in S
        BY <1>4 DEF Pieces
      <4> HIDE DEF e, S
      <4>2. Append(q, e) \in Seq(S) /\ Len(Append(q, e)) = Len(q) + 1 /\ Len(q) \in Nat
        BY <4>1
      <4>3. Append(q, e) # <<>>
        BY <4>2
      <4> QED BY <4>2, <4>3 DEF Pieces, S, e
    <3> QED BY <1>5, <3>1
  <2>3. some \in RxState
    <3> DEFINE crc == IF first(f) THEN <<f.no, f.size>> ELSE s.crc
               age == IF first(f) THEN 0 ELSE s.age
               payload == Append(s.payload, Piece(f))
               calc == Append(s.calc, Piece(f))
               blocks == BlocksFor(Len(s.payload) + 1)
    <3>1. crc \in {<<>>} \union (Nat \X Nat) /\ age \in Nat /\ 1 - s.toggle \in {0, 1}
      BY <1>2, <1>4 DEF RxState
    <3>2. some = [s EXCEPT !.payload = payload, !.calc = calc, !.crc = crc, !.seen = TRUE,
                           !.age = age, !.blocks = blocks, !.toggle = 1 - s.toggle]
      BY <1>2 DEF RxState
    <3>3. payload \in Pieces /\ calc \in Pieces /\ blocks \in Nat
      BY <1>6, <2>2
    <3> HIDE DEF crc, age, some, payload, calc, blocks
    <3> QED BY <1>2, <3>1, <3>2, <3>3 DEF RxState
  <2> HIDE DEF some
  <2>4. first(f) => s.payload = <<>>
    <3>1. first(f) => s.toggle = 0
      BY <1>1, <1>4 DEF first, toggle
    <3> QED BY <1>2, <3>1 DEF Emptied
  <2>5. Summed(Underway, m, f.kind, some)
    <3> HIDE DEF m
    <3> QED BY <1>1, <1>2, <1>4, <2>1, <2>3, <2>4, SummedAppended
  <2>6. Emptied(some)
    <3>1. s.toggle \in {0, 1}
      BY <1>2 DEF RxState
    <3>2. some.toggle = 0 => some.blocks > 0
      BY <1>2, <1>6, <2>1, <3>1 DEF Emptied
    <3>3. some.payload # <<>>
      BY <2>1, <2>2
    <3> QED BY <3>2, <3>3, <1>6, <2>1 DEF Emptied
  <2>7. /\ Left(f) - need \in Int
        /\ Left(f) - need = rxFree + BlockOf(f.kind) - 1 - some.blocks
    BY <1>2, <1>3, <1>6, <2>1
  <2> HIDE DEF need, m
  <2> QED BY <1>1, <1>7, <2>3, <2>5, <2>6, <2>7, KeptWell DEF m
<1>8. CASE Keep(f, none, Left(f) + s.blocks)
  <2> HIDE DEF s
  <2>1. s.tid = f.no % Tids
    BY <1>1 DEF tid
  <2>2. /\ none \in RxState /\ none.payload = <<>> /\ none.toggle = 0 /\ none.blocks = 0
        /\ none.calc = s.calc /\ none.tid = (f.no + 1) % Tids
    <3> DEFINE age == IF first(f) THEN 0 ELSE s.age
    <3>1. age \in Nat /\ <<>> \in Pieces
      BY <1>2 DEF RxState, Pieces
    <3>2. none = [s EXCEPT !.payload = <<>>, !.blocks = 0, !.seen = TRUE, !.age = age,
                           !.tid = (s.tid + 1) % Tids, !.toggle = 0]
      BY <1>2 DEF RxState, Released, prepareForNextTransfer
    <3> HIDE DEF age, none
    <3> QED BY <1>2, <1>4, <2>1, <3>1, <3>2 DEF RxState
  <2> HIDE DEF none
  <2>3. Summed(Underway, m, f.kind, none) /\ Emptied(none)
    <3> HIDE DEF m
    <3> QED BY <1>2, <1>4, <2>2, SummedRestarted DEF Emptied
  <2>4. /\ Left(f) + s.blocks \in Int
        /\ Left(f) + s.blocks = rxFree + BlockOf(f.kind) - 1 - none.blocks
    BY <1>2, <1>3, <2>2
  <2> HIDE DEF m
  <2> QED BY <1>1, <1>8, <2>2, <2>3, <2>4, KeptWell DEF m
<1> QED BY <1>1, <1>7, <1>8

LEMMA CompletedWell ==
  ASSUME NEW f, Taken(f), Completed(f)
  PROVE  HandledWell
<1> DEFINE s    == Started(f)
           calc == Append(s.calc, Piece(f))
           over == [s EXCEPT !.calc = calc, !.blocks = 0]
           next == prepareForNextTransfer(over)
           m == Len(sent[f.kind])
<1>1. /\ Handled(f) /\ ~first(f) /\ last(f) /\ ~needRestart(Opened(f), f)
      /\ \/ Keep(f, over, rxFree) /\ \E n, p : Deliver(f, n, p, s.blocks)
         \/ Keep(f, next, rxFree + s.blocks) /\ UNCHANGED call
  BY DEF Completed
<1>2. /\ s \in RxState /\ Summed(Underway, m, f.kind, s)
      /\ f.kind \in Known /\ s = states[f.kind]
  BY <1>1, Starting DEF Taken
<1>3. rxFree \in Int /\ s.blocks \in Nat /\ BlockOf(f.kind) = s.blocks + 1
  BY <1>1, <1>2 DEF Taken, TransferTypes, RxState, BlockOf
<1>4. /\ f \in Frame /\ f.no \in Nat \ {0} /\ f.no <= m /\ m \in Nat /\ Piece(f) \in Nat \X Nat
      /\ \A g \in Underway : g \in Frame /\ g.no \in Nat
  BY TakenFits
<1>5. calc \in Pieces
  <2> DEFINE e == Piece(f)
             S == Nat \X Nat
  <2>1. s.calc \in Seq(S) /\ e \in S
    BY <1>2, <1>4 DEF RxState, Pieces
  <2> HIDE DEF e, S, s
  <2>2. Append(s.calc, e) \in Seq(S)
    BY <2>1
  <2> QED BY <2>2 DEF Pieces, S, e
<1>6. /\ over \in RxState /\ over.calc = calc /\ over.blocks = 0
  <2> HIDE DEF s, calc
  <2> QED BY <1>2, <1>5 DEF RxState
<1>7. Summed(Underway', m, f.kind, over) /\ Done(Underway', f.kind, over)
  <2> DEFINE u == Underway
             v == Underway'
  <2>1. /\ v \in SUBSET u /\ Foremost(u, f) /\ Later(v, f.kind, f.no + 1)
        /\ Summed(u, m, f.kind, s) /\ s \in RxState
        /\ over \in RxState /\ over.calc = Append(s.calc, Piece(f))
    BY <1>1, <1>2, <1>6 DEF Taken
  <2> HIDE DEF s, over, m, u, v
  <2>2. Summed(v, m, f.kind, over) /\ Done(v, f.kind, over)
    BY <1>4, <2>1, SummedUp
  <2> QED BY <2>2 DEF v, m
<1>8. CASE Keep(f, over, rxFree) /\ \E n, p : Deliver(f, n, p, s.blocks)
  <2>1. PICK n, p : Deliver(f, n, p, s.blocks)
    BY <1>8
  <2>3. rxFree + s.blocks = rxFree + BlockOf(f.kind) - 1 - over.blocks
    <3> HIDE DEF s, over
    <3> QED BY <1>3, <1>6
  <2> HIDE DEF s, over, m
  <2> QED BY <1>2, <1>3, <1>6, <1>7, <1>8, <2>1, <2>3, DeliveredWell DEF m
<1>9. CASE Keep(f, next, rxFree + s.blocks) /\ UNCHANGED call
  <2>1. /\ next \in RxState /\ next.payload = <<>> /\ next.toggle = 0 /\ next.blocks = 0
        /\ next.calc = calc /\ (f.no + 1) % Tids \in Nat
    <3> HIDE DEF s, calc, over
    <3>1. <<>> \in Pieces /\ (over.tid + 1) % Tids \in Nat
      BY <1>6, TransferAssumption, SMTT(20) DEF Pieces, RxState
    <3>2. next = [over EXCEPT !.tid = (over.tid + 1) % Tids, !.payload = <<>>, !.toggle = 0]
      BY <1>6 DEF RxState, prepareForNextTransfer
    <3>3. (f.no + 1) % Tids \in Nat
      BY TakenFits
    <3> HIDE DEF next
    <3> QED BY <1>6, <3>1, <3>2, <3>3 DEF RxState
  <2> HIDE DEF s, over, next, calc
  <2>2. Emptied(next) /\ Summed(Underway', Len(sent[f.kind]), f.kind, next)
    BY <1>6, <1>7, <2>1 DEF Emptied, Summed, Done
  <2>3. /\ rxFree + s.blocks \in Int
        /\ rxFree + s.blocks = rxFree + BlockOf(f.kind) - 1 - next.blocks
    BY <1>3, <2>1
  <2> QED BY <1>9, <2>1, <2>2, <2>3, KeptWell
<1> QED BY <1>1, <1>8, <1>9

\* A frame that is ignored leaves the states as they are.
LEMMA IgnoredWell ==
  ASSUME NEW f, Taken(f), Ignored(f)
  PROVE  HandledWell
<1>1. UNCHANGED <<states, rxFree, call, sent, held, txFree, queue>>
  BY DEF Ignored, Taken
<1>2. /\ TransferTypes /\ StatesFit /\ PoolIsWhole /\ ~call.busy /\ call.blocks = 0
      /\ Underway' \subseteq Underway /\ Known' = Known
  BY <1>1 DEF Taken, Known
<1>3. \A g \in Underway' : g.no \in Nat /\ g \in Underway
  BY <1>2, TakenFits
<1>4. \A k \in Kinds : Len(sent'[k]) \in Nat /\ Len(sent[k]) <= Len(sent'[k])
  <2> SUFFICES ASSUME NEW k \in Kinds
               PROVE  Len(sent[k]) \in Nat
    BY <1>1
  <2>1. sent[k] \in Seq(Sizes)
    BY <1>2 DEF TransferTypes
  <2> QED BY <2>1
<1>5. StatesFit'
  <2>1. \A k \in Known : states[k] \in RxState
    BY <1>2 DEF StatesFit
  <2> QED BY <1>1, <1>2, <1>3, <1>4, <2>1, StatesStay
<1>6. PoolIsWhole' /\ CallCounted'
  <2>1. Blocks(Known)' = Blocks(Known)
    BY <1>1 DEF Blocks, Known
  <2>2. PoolIsWhole'
    BY <1>1, <1>2, <2>1 DEF PoolIsWhole
  <2>3. CallCounted'
    BY <1>1, <1>2 DEF CallCounted
  <2> QED BY <2>2, <2>3
<1>7. /\ rxFree' \in Int /\ IsFiniteSet(Known') /\ Known' \subseteq Kinds
      /\ states' = [k \in Known' |-> states'[k]]
  BY <1>1, <1>2 DEF TransferTypes
<1>8. call' \in Callback
  BY <1>1, <1>2, Zenon DEF TransferTypes
<1> QED BY <1>5, <1>6, <1>7, <1>8, Zenon DEF HandledWell

\* Receiving a frame keeps the invariant.
LEMMA ReceivesKeep == TransferInv /\ ReceiveFrame => TransferInv'
<1> SUFFICES ASSUME TransferInv, ReceiveFrame
             PROVE  TransferInv'
  OBVIOUS
<1> DEFINE f == Head(wire)
<1>1. /\ ~call.busy /\ wire # <<>> /\ wire' = Tail(wire) /\ canardHandleRxFrame(f)
      /\ UNCHANGED <<queue, sent, txFree, held>>
  BY DEF ReceiveFrame, txVars
<1>2. /\ TransferTypes /\ Lines /\ StatesFit /\ PoolIsWhole /\ call.blocks = 0
  BY <1>1 DEF TransferInv, CallCounted
<1>3. /\ Foremost(Underway, f) /\ Valid(f) /\ Underway' \subseteq Underway
      /\ Later(Underway', f.kind, f.no) /\ (last(f) => Later(Underway', f.kind, f.no + 1))
      /\ wire' \in Seq(Frame) /\ Sorted(wire')
      /\ \A i \in 1..Len(wire'), j \in 1..Len(queue) : Before(wire'[i], queue[j])
  BY <1>1, <1>2, FrameTaken
<1>4. Taken(f)
  BY <1>1, <1>2, <1>3 DEF Taken
<1>5. \/ UNCHANGED <<upto, got, call>>
      \/ /\ last(f) /\ call'.busy /\ call'.kind = f.kind
         /\ upto' = [upto EXCEPT ![f.kind] = f.no]
         /\ got' = [got EXCEPT ![f.kind] = Content(f.no, f.size)]
  BY <1>1, Delivered
<1> HIDE DEF f
<1>6. HandledWell
  BY <1>1, <1>4, IgnoredWell, RefusedWell, SingleFrameWell, GatheredWell, CompletedWell
     DEF canardHandleRxFrame
<1>7. /\ f.kind \in Kinds /\ f.no \in Nat /\ f.no <= Len(sent[f.kind])
      /\ \A g \in Underway' : g \in Frame /\ g.no \in Nat /\ g.kind \in Kinds
  BY <1>3, <1>4, TakenFits DEF Frame
<1>8. \A g \in Underway' : Valid(g)'
  <2> SUFFICES ASSUME NEW g \in Underway'
               PROVE  upto'[g.kind] < g.no
    BY <1>1, <1>2, <1>3 DEF Lines, Valid
  <2>1. upto[g.kind] < g.no
    BY <1>2, <1>3 DEF Lines, Valid
  <2>2. upto \in [Kinds -> Nat]
    BY <1>2 DEF TransferTypes
  <2> QED BY <1>3, <1>5, <1>7, <2>1, <2>2 DEF Later
<1>9. Lines'
  <2>1. Sorted(wire)' /\ Sorted(queue)' /\ Urgent(queue)'
    BY <1>1, <1>2, <1>3 DEF Lines, Sorted, Urgent
  <2>2. (\A i \in 1..Len(wire), j \in 1..Len(queue) : Before(wire[i], queue[j]))'
    BY <1>1, <1>3
  <2> QED BY <1>8, <2>1, <2>2 DEF Lines
<1>10. TransferTypes'
  <2>0. /\ upto \in [Kinds -> Nat] /\ (\A k \in Kinds : upto[k] <= Len(sent[k]))
        /\ got = [k \in Kinds |-> got[k]]
    BY <1>2, Zenon DEF TransferTypes
  <2>1. /\ upto' \in [Kinds -> Nat] /\ \A k \in Kinds : upto'[k] <= Len(sent[k])
        /\ got' = [k \in Kinds |-> got'[k]]
    <3>1. CASE UNCHANGED <<upto, got, call>>
      BY <2>0, <3>1
    <3>2. CASE /\ upto' = [upto EXCEPT ![f.kind] = f.no]
               /\ got' = [got EXCEPT ![f.kind] = Content(f.no, f.size)]
      BY <1>7, <2>0, <3>2
    <3> QED BY <1>5, <3>1, <3>2
  <2>2. /\ sent' \in [Kinds -> Seq(Sizes)] /\ queue' \in Seq(Frame) /\ txFree' \in Nat
        /\ held' \in {0, 1}
    BY <1>1, <1>2 DEF TransferTypes
  <2> QED BY <1>1, <1>3, <1>6, <2>1, <2>2, Zenon DEF TransferTypes, HandledWell
<1> QED BY <1>1, <1>2, <1>6, <1>9, <1>10 DEF TransferInv, HandledWell

\* The other steps change nothing of the states that matters to the lines.
LEMMA StatesSame ==
  ASSUME TransferTypes, StatesFit, UNCHANGED <<states, call>>,
         \A k \in Kinds : Len(sent'[k]) \in Nat /\ Len(sent[k]) <= Len(sent'[k]),
         \A f \in Underway' : f.no \in Nat /\ (f \in Underway \/ f.no > Len(sent[f.kind]))
  PROVE  StatesFit' /\ Known' = Known /\ Blocks(Known)' = Blocks(Known)
<1>1. Known' = Known /\ Blocks(Known)' = Blocks(Known)
  BY DEF Known, Blocks
<1>2. \A k \in Known : states[k] \in RxState
  BY DEF StatesFit
<1> QED BY <1>1, <1>2, StatesStay

\* Sending a transfer keeps the invariant.
LEMMA TransmitsKeep ==
  TransferInv /\ (\E k \in Kinds, z \in Sizes : Transmit(k, z)) => TransferInv'
<1> SUFFICES ASSUME TransferInv, NEW k \in Kinds, NEW z \in Sizes, Transmit(k, z)
             PROVE  TransferInv'
  OBVIOUS
<1> DEFINE n == Len(sent[k]) + 1
           fit == IF z <= txFree THEN z ELSE txFree
           r == Queued(k, n, z)[fit]
<1>1. /\ sent' = [sent EXCEPT ![k] = Append(@, z)] /\ queue' = r /\ txFree' = txFree - fit
      /\ UNCHANGED <<wire, states, rxFree, call, held, upto, got>>
  BY DEF Transmit, enqueueTxFrames, rxVars, history
<1>2. TransferTypes /\ Lines /\ StatesFit /\ CallCounted /\ PoolIsWhole
  BY DEF TransferInv
<1>3. \A j \in Kinds : sent[j] \in Seq(Sizes) /\ Len(sent[j]) \in Nat
  <2> SUFFICES ASSUME NEW j \in Kinds
               PROVE  sent[j] \in Seq(Sizes) /\ Len(sent[j]) \in Nat
    OBVIOUS
  <2>1. sent[j] \in Seq(Sizes)
    BY <1>2 DEF TransferTypes
  <2> QED BY <2>1
<1>4. z \in Nat \ {0} /\ n \in Nat \ {0} /\ txFree \in Nat /\ fit \in 0..z /\ txFree - fit \in Nat
  <2>1. txFree \in Nat /\ z \in Nat \ {0}
    BY <1>2, TransferAssumption DEF TransferTypes
  <2> QED BY <1>3, <2>1
<1>5. LinedUp(r, k, z, fit)
  <2> HIDE DEF fit
  <2> QED BY <1>2, <1>4, QueuedFrames
<1> HIDE DEF fit, r
<1>7. /\ sent' \in [Kinds -> Seq(Sizes)]
      /\ Len(sent'[k]) = n /\ sent'[k][n] = z
      /\ \A i \in 1..Len(sent[k]) : sent'[k][i] = sent[k][i]
      /\ \A j \in Kinds : j # k => sent'[j] = sent[j]
  <2> DEFINE q == Append(sent[k], z)
  <2>1. q \in Seq(Sizes) /\ Len(q) = n /\ q[n] = z /\ \A i \in 1..Len(sent[k]) : q[i] = sent[k][i]
    BY <1>3
  <2>2. sent' = [sent EXCEPT ![k] = q] /\ sent \in [Kinds -> Seq(Sizes)]
    BY <1>1, <1>2 DEF TransferTypes
  <2> HIDE DEF q, n
  <2> QED BY <2>1, <2>2
<1>8. \A j \in Kinds : Len(sent'[j]) \in Nat /\ Len(sent[j]) <= Len(sent'[j])
  BY <1>3, <1>7
<1>9. /\ \A g \in Underway : g \in Frame /\ g.kind \in Kinds /\ g.no \in Nat \ {0}
      /\ \A g \in Underway : Valid(g)
  BY <1>2 DEF Lines, Valid, Frame
<1>10. ASSUME NEW g \in Underway
       PROVE  Valid(g)'
  BY <1>1, <1>3, <1>7, <1>9 DEF Valid
<1>11. ASSUME NEW g, Fresh(g, k, z, fit)
       PROVE  g.no = n /\ g.kind = k /\ Valid(g)'
  <2>1. g \in Frame /\ g.no = n /\ g.index \in 1..fit /\ g.size = z /\ g.kind = k
    BY <1>11 DEF Fresh
  <2>2. upto[k] < n
    <3>1. upto[k] \in Nat /\ upto[k] <= Len(sent[k])
      BY <1>2 DEF TransferTypes
    <3> QED BY <1>3, <3>1
  <2>3. n <= Len(sent'[k]) /\ z = sent'[k][n] /\ upto' = upto /\ g.index <= z
    BY <1>1, <1>4, <1>7, <2>1
  <2> HIDE DEF n
  <2>4. Valid(g)'
    BY <2>1, <2>2, <2>3 DEF Valid
  <2> QED BY <2>1, <2>4
<1>12. \A j \in 1..Len(r) : (\E m \in 1..Len(queue) : r[j] = queue[m]) \/ Fresh(r[j], k, z, fit)
  BY <1>5 DEF LinedUp
<1>13. \A g \in Underway' : g \in Underway \/ Fresh(g, k, z, fit)
  BY <1>1, <1>12 DEF Underway
<1>14. \A g \in Underway' : Valid(g)' /\ g.no \in Nat /\ (g \in Underway \/ g.no > Len(sent[g.kind]))
  <2> SUFFICES ASSUME NEW g \in Underway'
               PROVE  Valid(g)' /\ g.no \in Nat /\ (g \in Underway \/ g.no > Len(sent[g.kind]))
    OBVIOUS
  <2>1. CASE g \in Underway
    BY <1>9, <1>10, <2>1
  <2>2. CASE Fresh(g, k, z, fit)
    BY <1>3, <1>4, <1>11, <2>2
  <2> QED BY <1>13, <2>1, <2>2
<1>15. StatesFit' /\ Known' = Known /\ Blocks(Known)' = Blocks(Known)
  BY <1>1, <1>2, <1>8, <1>14, StatesSame
<1>16. Lines'
  <2>1. Sorted(r) /\ Urgent(r) /\ Sorted(wire)
    BY <1>2, <1>5 DEF LinedUp, Lines
  <2>2. ASSUME NEW i \in 1..Len(wire), NEW j \in 1..Len(r)
        PROVE  Before(wire[i], r[j])
    <3>1. CASE \E m \in 1..Len(queue) : r[j] = queue[m]
      BY <1>2, <3>1 DEF Lines
    <3>2. CASE Fresh(r[j], k, z, fit)
      <4>1. wire[i] \in Underway
        BY DEF Underway
      <4>2. r[j].no = n /\ r[j].kind = k
        BY <1>11, <3>2
      <4>3. wire[i].kind = k => wire[i].no <= Len(sent[k])
        BY <1>9, <4>1 DEF Valid
      <4> QED BY <1>3, <1>9, <4>1, <4>2, <4>3 DEF Before
    <3> QED BY <1>12, <3>1, <3>2
  <2> QED BY <1>1, <1>14, <2>1, <2>2 DEF Lines, Sorted, Urgent
<1>17. PoolIsWhole'
  <2>1. Len(r) = Len(queue) + fit /\ txFree' = txFree - fit /\ txFree + Len(queue) = TxBlocks
    BY <1>1, <1>2, <1>5 DEF LinedUp, PoolIsWhole
  <2>2. Len(queue) \in Nat /\ fit \in Nat
    BY <1>2, <1>4 DEF TransferTypes
  <2>3. txFree' + Len(queue') = TxBlocks
    BY <1>1, <1>4, <2>1, <2>2
  <2> QED BY <1>1, <1>2, <1>15, <2>3 DEF PoolIsWhole
<1>18. CallCounted'
  BY <1>1, <1>2, <1>15 DEF CallCounted
<1>19. TransferTypes'
  <2>1. queue' \in Seq(Frame) /\ wire' \in Seq(Frame) /\ txFree' \in Nat
    BY <1>1, <1>2, <1>4, <1>5 DEF LinedUp, TransferTypes
  <2>2. \A j \in Kinds : upto'[j] <= Len(sent'[j])
    <3>1. \A j \in Kinds : upto[j] \in Nat /\ upto[j] <= Len(sent[j])
      BY <1>2 DEF TransferTypes
    <3> QED BY <1>1, <1>3, <1>8, <3>1
  <2>3. /\ upto' \in [Kinds -> Nat] /\ got' = [j \in Kinds |-> got'[j]]
        /\ rxFree' \in Int /\ held' \in {0, 1} /\ IsFiniteSet(Known') /\ Known' \subseteq Kinds
        /\ states' = [j \in Known' |-> states'[j]]
    BY <1>1, <1>2, <1>15 DEF TransferTypes
  <2>4. call' \in Callback
    BY <1>1, <1>2, Zenon DEF TransferTypes
  <2> QED BY <1>7, <2>1, <2>2, <2>3, <2>4, Zenon DEF TransferTypes
<1> QED BY <1>15, <1>16, <1>17, <1>18, <1>19 DEF TransferInv

\* Numbers of transfers sent, for the steps that send none.
LEMMA NothingSent ==
  ASSUME TransferTypes, sent' = sent
  PROVE  \A k \in Kinds : Len(sent'[k]) \in Nat /\ Len(sent[k]) <= Len(sent'[k])
<1> SUFFICES ASSUME NEW k \in Kinds
             PROVE  Len(sent[k]) \in Nat
  OBVIOUS
<1>1. sent[k] \in Seq(Sizes)
  BY DEF TransferTypes
<1> QED BY <1>1

\* What is left of the invariant when frames only move or disappear.
LEMMA FramesGo ==
  ASSUME TransferInv, UNCHANGED <<states, call, sent, upto, got, rxFree, held>>,
         Underway' \subseteq Underway, wire' \in Seq(Frame), queue' \in Seq(Frame),
         Sorted(wire'), Sorted(queue'), Urgent(queue'),
         \A i \in 1..Len(wire'), j \in 1..Len(queue') : Before(wire'[i], queue'[j]),
         txFree' \in Nat, txFree' + Len(queue') = TxBlocks
  PROVE  TransferInv'
<1>1. TransferTypes /\ Lines /\ StatesFit /\ CallCounted /\ PoolIsWhole
  BY DEF TransferInv
<1>2. \A g \in Underway' : g \in Underway /\ g.no \in Nat /\ Valid(g)'
  BY <1>1 DEF Lines, Valid, Frame
<1>3. StatesFit' /\ Known' = Known /\ Blocks(Known)' = Blocks(Known)
  BY <1>1, <1>2, NothingSent, StatesSame
<1>4. Lines'
  BY <1>2 DEF Lines, Sorted, Urgent
<1>5. PoolIsWhole' /\ CallCounted'
  BY <1>1, <1>3 DEF PoolIsWhole, CallCounted
<1>6. TransferTypes'
  <2>1. /\ sent' \in [Kinds -> Seq(Sizes)] /\ upto' \in [Kinds -> Nat]
        /\ \A k \in Kinds : upto'[k] <= Len(sent'[k])
        /\ got' = [k \in Kinds |-> got'[k]]
        /\ rxFree' \in Int /\ held' \in {0, 1} /\ IsFiniteSet(Known') /\ Known' \subseteq Kinds
        /\ states' = [j \in Known' |-> states'[j]]
    BY <1>1, <1>3 DEF TransferTypes
  <2>2. call' \in Callback
    BY <1>1, Zenon DEF TransferTypes
  <2> QED BY <2>1, <2>2, Zenon DEF TransferTypes
<1> QED BY <1>3, <1>4, <1>5, <1>6 DEF TransferInv

\* The bus loses a frame.
LEMMA LossesKeepFrames == TransferInv /\ FrameLost => TransferInv'
<1> SUFFICES ASSUME TransferInv, FrameLost
             PROVE  TransferInv'
  OBVIOUS
<1>1. TransferTypes /\ Lines /\ PoolIsWhole
  BY DEF TransferInv
<1>2. PICK i \in 1..Len(wire) : wire' = RemoveAt(wire, i)
  BY DEF FrameLost
<1>3. wire \in Seq(Frame) /\ queue \in Seq(Frame) /\ Len(wire) \in Nat /\ Len(queue) \in Nat
  BY <1>1 DEF TransferTypes
<1>4. wire' \in Seq(Frame) /\ Without(wire', wire, i)
  BY <1>2, <1>3, Removed DEF RemoveAt
<1> DEFINE here(j) == IF j < i THEN j ELSE j + 1
<1>5. ASSUME NEW j \in 1..Len(wire')
      PROVE  wire'[j] = wire[here(j)] /\ here(j) \in 1..Len(wire)
  BY <1>3, <1>4 DEF Without
<1>6. /\ UNCHANGED <<states, call, sent, upto, got, rxFree, held>>
      /\ UNCHANGED <<queue, txFree>>
  BY DEF FrameLost, txVars, rxVars, history
<1>7. Underway' \subseteq Underway
  <2> HIDE DEF here
  <2> QED BY <1>5, <1>6 DEF Underway
<1>8. Sorted(wire')
  <2> SUFFICES ASSUME NEW a \in 1..Len(wire'), NEW b \in 1..Len(wire'), a < b
               PROVE  Before(wire'[a], wire'[b])
    BY DEF Sorted
  <2>1. here(a) < here(b)
    BY <1>4 DEF Without
  <2> HIDE DEF here
  <2> QED BY <1>1, <1>5, <2>1 DEF Lines, Sorted
<1>9. \A a \in 1..Len(wire'), j \in 1..Len(queue') : Before(wire'[a], queue'[j])
  <2> HIDE DEF here
  <2> QED BY <1>1, <1>5, <1>6 DEF Lines
<1>10. Sorted(queue') /\ Urgent(queue') /\ txFree' \in Nat /\ txFree' + Len(queue') = TxBlocks
  BY <1>1, <1>6 DEF Lines, TransferTypes, PoolIsWhole
<1> QED BY <1>3, <1>4, <1>6, <1>7, <1>8, <1>9, <1>10, FramesGo

\* Frames go to the driver, as many as it has room for.
LEMMA PacketsKeep == TransferInv /\ enqueuePackets => TransferInv'
<1> SUFFICES ASSUME TransferInv, enqueuePackets
             PROVE  TransferInv'
  OBVIOUS
<1> DEFINE room == DriverSize - Len(wire)
           fit  == IF Len(queue) <= room THEN Len(queue) ELSE room
           sub == SubSeq(queue, 1, fit)
<1>1. TransferTypes /\ Lines /\ PoolIsWhole
  BY DEF TransferInv
<1>2. /\ wire' = wire \o sub /\ queue' = <<>> /\ txFree' = txFree + Len(queue)
      /\ UNCHANGED <<states, call, sent, upto, got, rxFree, held>>
  BY DEF enqueuePackets, rxVars, history
<1>3. /\ wire \in Seq(Frame) /\ queue \in Seq(Frame) /\ Len(wire) \in Nat /\ Len(queue) \in Nat
      /\ txFree \in Nat /\ fit \in Int /\ fit <= Len(queue)
  <2>1. wire \in Seq(Frame) /\ queue \in Seq(Frame) /\ txFree \in Nat
    BY <1>1 DEF TransferTypes
  <2>2. DriverSize \in Nat
    BY TransferAssumption
  <2> QED BY <2>1, <2>2
<1> HIDE DEF fit
<1>4. /\ sub \in Seq(Frame) /\ Len(sub) \in Nat /\ Len(sub) <= Len(queue)
      /\ \A j \in 1..Len(sub) : sub[j] = queue[j]
  <2>1. CASE fit >= 1
    BY <1>3, <2>1, SubSeqProperties
  <2>2. CASE ~(fit >= 1)
    <3>1. sub = <<>>
      BY <1>3, <2>2
    <3> HIDE DEF sub
    <3> QED BY <1>3, <3>1
  <2> QED BY <2>1, <2>2
<1> HIDE DEF sub
<1>5. /\ wire' \in Seq(Frame) /\ Len(wire') = Len(wire) + Len(sub)
      /\ \A j \in 1..Len(wire') : wire'[j] = IF j <= Len(wire) THEN wire[j] ELSE sub[j - Len(wire)]
  BY <1>2, <1>3, <1>4
<1>6. ASSUME NEW j \in 1..Len(wire'), j > Len(wire)
      PROVE  j - Len(wire) \in 1..Len(queue) /\ wire'[j] = queue[j - Len(wire)]
  <2>1. j - Len(wire) \in 1..Len(sub) /\ wire'[j] = sub[j - Len(wire)]
    BY <1>3, <1>4, <1>5, <1>6
  <2> QED BY <1>3, <1>4, <2>1
<1>7. ASSUME NEW j \in 1..Len(wire'), j <= Len(wire)
      PROVE  j \in 1..Len(wire) /\ wire'[j] = wire[j]
  BY <1>3, <1>5, <1>7
<1>8. Underway' \subseteq Underway
  <2> SUFFICES ASSUME NEW g \in Underway'
               PROVE  g \in Underway
    OBVIOUS
  <2>1. PICK j \in 1..Len(wire') : g = wire'[j]
    BY <1>2 DEF Underway
  <2>2. CASE j <= Len(wire)
    BY <1>7, <2>1, <2>2 DEF Underway
  <2>3. CASE j > Len(wire)
    <3>1. j - Len(wire) \in 1..Len(queue) /\ g = queue[j - Len(wire)]
      BY <1>6, <2>1, <2>3
    <3> QED BY <3>1 DEF Underway
  <2> QED BY <1>3, <1>5, <2>2, <2>3
<1>9. Sorted(wire')
  <2> SUFFICES ASSUME NEW a \in 1..Len(wire'), NEW b \in 1..Len(wire'), a < b
               PROVE  Before(wire'[a], wire'[b])
    BY DEF Sorted
  <2> DEFINE x == a - Len(wire)
             y == b - Len(wire)
  <2>1. CASE b <= Len(wire)
    <3>1. a \in 1..Len(wire) /\ b \in 1..Len(wire) /\ wire'[a] = wire[a] /\ wire'[b] = wire[b]
      BY <1>3, <1>5, <1>7, <2>1
    <3>2. Sorted(wire)
      BY <1>1 DEF Lines
    <3> QED BY <3>1, <3>2 DEF Sorted
  <2>2. CASE a <= Len(wire) /\ b > Len(wire)
    <3>1. y \in 1..Len(queue) /\ wire'[b] = queue[y]
      BY <1>6, <2>2
    <3> HIDE DEF y
    <3> QED BY <1>1, <1>7, <2>2, <3>1 DEF Lines
  <2>3. CASE a > Len(wire)
    <3>1. b > Len(wire) /\ x < y
      BY <1>3, <1>5, <2>3
    <3>2. x \in 1..Len(queue) /\ y \in 1..Len(queue) /\ wire'[a] = queue[x] /\ wire'[b] = queue[y]
      BY <1>6, <2>3, <3>1
    <3> HIDE DEF x, y
    <3> QED BY <1>1, <3>1, <3>2 DEF Lines, Sorted
  <2> QED BY <1>3, <1>5, <2>1, <2>2, <2>3
<1>10. queue' \in Seq(Frame) /\ Len(queue') = 0 /\ Sorted(queue') /\ Urgent(queue')
  BY <1>2 DEF Sorted, Urgent
<1>11. /\ \A i \in 1..Len(wire'), j \in 1..Len(queue') : Before(wire'[i], queue'[j])
       /\ txFree' \in Nat /\ txFree' + Len(queue') = TxBlocks
  BY <1>1, <1>2, <1>3, <1>10 DEF PoolIsWhole
<1> QED BY <1>2, <1>5, <1>8, <1>9, <1>10, <1>11, FramesGo

\* Blocks stay as they are when the states keep theirs.
LEMMA BlocksSame ==
  ASSUME Known' = Known, \A k \in Known : states'[k].blocks = states[k].blocks
  PROVE  Blocks(Known)' = Blocks(Known)
<1> DEFINE d == states'
           K == Known
<1>1. Blocks(Known)' = UNION {{k} \X (0..d[k].blocks) : k \in K}
  BY DEF Blocks
<1>2. \A k \in K : d[k].blocks = states[k].blocks
  OBVIOUS
<1> HIDE DEF d
<1>3. UNION {{k} \X (0..d[k].blocks) : k \in K} = UNION {{k} \X (0..states[k].blocks) : k \in K}
  BY <1>2
<1> QED BY <1>1, <1>3 DEF Blocks

\* What is left of the invariant when the lines stay as they are.
LEMMA LinesStay ==
  ASSUME TransferInv, UNCHANGED <<sent, queue, txFree, wire, upto, got>>,
         StatesFit', PoolIsWhole', CallCounted',
         rxFree' \in Int, held' \in {0, 1}, Known' \subseteq Known,
         states' = [k \in Known' |-> states'[k]],
         call' \in Callback
  PROVE  TransferInv'
<1>1. TransferTypes /\ Lines
  BY DEF TransferInv
<1>2. Lines'
  <2>1. Underway' = Underway /\ \A g : Valid(g)' <=> Valid(g)
    BY DEF Underway, Valid
  <2> QED BY <1>1, <2>1 DEF Lines, Sorted, Urgent
<1>3. IsFiniteSet(Known') /\ Known' \subseteq Kinds
  BY <1>1, FS_Subset DEF TransferTypes
<1>4. /\ sent' \in [Kinds -> Seq(Sizes)] /\ upto' \in [Kinds -> Nat]
      /\ \A k \in Kinds : upto'[k] <= Len(sent'[k])
      /\ got' = [k \in Kinds |-> got'[k]]
      /\ queue' \in Seq(Frame) /\ wire' \in Seq(Frame) /\ txFree' \in Nat
  BY <1>1 DEF TransferTypes
<1>5. TransferTypes'
  BY <1>3, <1>4, Zenon DEF TransferTypes
<1> QED BY <1>2, <1>5 DEF TransferInv

\* Blocks are finitely many.
LEMMA BlocksCounted ==
  ASSUME TransferTypes, StatesFit
  PROVE  Cardinality(Blocks(Known)) \in Nat
<1> DEFINE b == [j \in Known |-> states[j].blocks]
<1>1. \A j \in Known : states[j].blocks \in Nat /\ b[j] = states[j].blocks
  BY DEF StatesFit, RxState
<1> HIDE DEF b
<1>2. Blocks(Known) = BlocksIn(b, Known)
  BY <1>1 DEF Blocks, BlocksIn
<1> QED BY <1>1, <1>2, BlocksFinite DEF TransferTypes

\* The callback returns.
LEMMA ReturnsKeep == TransferInv /\ CallbackReturns => TransferInv'
<1> SUFFICES ASSUME TransferInv, CallbackReturns
             PROVE  TransferInv'
  OBVIOUS
<1> DEFINE k == call.kind
           t == prepareForNextTransfer(states[k])
<1>1. TransferTypes /\ Lines /\ StatesFit /\ CallCounted /\ PoolIsWhole
  BY DEF TransferInv
<1>2. /\ call.busy /\ call' = Idle /\ rxFree' = rxFree + call.blocks
      /\ UNCHANGED <<sent, queue, txFree, wire, upto, got, held>>
      /\ states' = IF k \in Known THEN [states EXCEPT ![k] = t] ELSE states
  BY DEF CallbackReturns, txVars, history
<1>3. ~call'.busy /\ call'.blocks = 0 /\ call' \in Callback
  BY <1>2 DEF Idle, Callback
<1>4. Underway' = Underway
  BY <1>2 DEF Underway
<1>5. /\ Known' = Known /\ states' = [j \in Known' |-> states'[j]]
      /\ \A j \in Known : states'[j] = IF j = k THEN t ELSE states[j]
  BY <1>1, <1>2 DEF TransferTypes, Known
<1>6. ASSUME k \in Known
      PROVE  /\ t \in RxState /\ t.calc = states[k].calc /\ t.blocks = states[k].blocks
             /\ t.payload = <<>> /\ t.toggle = 0
  <2> DEFINE s == states[k]
  <2>1. s \in RxState
    BY <1>1, <1>6 DEF StatesFit
  <2> HIDE DEF s
  <2>2. (s.tid + 1) % Tids \in Nat /\ <<>> \in Pieces
    BY <2>1, TransferAssumption, SMTT(20) DEF RxState, Pieces
  <2>3. t = [s EXCEPT !.tid = (s.tid + 1) % Tids, !.payload = <<>>, !.toggle = 0]
    BY <2>1 DEF RxState, prepareForNextTransfer, s
  <2> HIDE DEF t
  <2> QED BY <2>1, <2>2, <2>3 DEF RxState, s
<1>7. StatesFit'
  <2> DEFINE d == states'
  <2> SUFFICES ASSUME NEW j \in Known
               PROVE  /\ d[j] \in RxState /\ Summed(Underway, Len(sent[j]), j, d[j])
                      /\ Emptied(d[j])
    BY <1>2, <1>3, <1>4, <1>5 DEF StatesFit
  <2>1. CASE j = k
    <3>1. Summed(Underway, Len(sent[k]), k, states[k]) /\ Done(Underway, k, states[k])
      BY <1>1, <1>2, <2>1 DEF StatesFit
    <3>2. d[j] = t
      BY <1>5, <2>1
    <3> HIDE DEF d, t
    <3> QED BY <1>6, <2>1, <3>1, <3>2 DEF Summed, Done, Emptied
  <2>2. CASE j # k
    <3>1. d[j] = states[j]
      BY <1>5, <2>2
    <3> HIDE DEF d
    <3> QED BY <1>1, <2>2, <3>1 DEF StatesFit
  <2> QED BY <2>1, <2>2
<1>8. PoolIsWhole'
  <2>1. Blocks(Known)' = Blocks(Known)
    <3>1. \A j \in Known : states'[j].blocks = states[j].blocks
      BY <1>5, <1>6
    <3> QED BY <1>5, <3>1, BlocksSame
  <2>2. call.blocks \in Nat /\ rxFree \in Int /\ held \in Int
    BY <1>1 DEF CallCounted, TransferTypes
  <2>3. Cardinality(Blocks(Known)) \in Nat
    BY <1>1, BlocksCounted
  <2>4. rxFree' + held + call'.blocks + Cardinality(Blocks(Known)) = RxBlocks
    <3> DEFINE c == Cardinality(Blocks(Known))
               b == call.blocks
    <3>1. rxFree + held + b + c = RxBlocks
      BY <1>1 DEF PoolIsWhole
    <3> HIDE DEF c, b
    <3>2. rxFree' = rxFree + b /\ call'.blocks = 0 /\ b \in Nat /\ c \in Nat
      BY <1>2, <1>3, <2>2, <2>3 DEF c, b
    <3>3. rxFree' + held + 0 + c = RxBlocks
      BY <2>2, <3>1, <3>2
    <3> QED BY <3>2, <3>3 DEF c
  <2> QED BY <1>1, <1>2, <2>1, <2>4 DEF PoolIsWhole
<1>9. CallCounted'
  BY <1>1, <1>2, <1>3 DEF CallCounted
<1>10. rxFree' \in Int /\ held' \in {0, 1}
  BY <1>1, <1>2 DEF TransferTypes, CallCounted
<1> QED BY <1>2, <1>3, <1>5, <1>7, <1>8, <1>9, <1>10, LinesStay

\* What is left of the invariant when nothing it speaks of changes.
LEMMA NothingMoves ==
  ASSUME TransferInv,
         UNCHANGED <<sent, queue, txFree, wire, upto, got, states, call, rxFree, held>>
  PROVE  TransferInv'
<1>1. Underway' = Underway
  BY DEF Underway
<1>2. TransferTypes /\ Lines /\ PoolIsWhole
  BY DEF TransferInv
<1>3. /\ wire' \in Seq(Frame) /\ queue' \in Seq(Frame)
      /\ Sorted(wire') /\ Sorted(queue') /\ Urgent(queue')
      /\ \A i \in 1..Len(wire'), j \in 1..Len(queue') : Before(wire'[i], queue'[j])
      /\ txFree' \in Nat /\ txFree' + Len(queue') = TxBlocks
  BY <1>2 DEF TransferTypes, Lines, PoolIsWhole
<1> QED BY <1>1, <1>3, FramesGo

\* The timer thread reads the clock.
LEMMA ClocksKeep == TransferInv /\ ReadClock => TransferInv'
<1> SUFFICES ASSUME TransferInv, ReadClock
             PROVE  TransferInv'
  OBVIOUS
<1>1. UNCHANGED <<sent, queue, txFree, wire, upto, got, states, call, rxFree, held>>
  BY DEF ReadClock, txVars, history
<1> QED BY <1>1, NothingMoves

\* The timer thread throws stale states away.
LEMMA CleanupsKeep == TransferInv /\ CleanupStaleTransfers => TransferInv'
<1> SUFFICES ASSUME TransferInv, CleanupStaleTransfers
             PROVE  TransferInv'
  OBVIOUS
<1>1. TransferTypes /\ Lines /\ StatesFit /\ CallCounted /\ PoolIsWhole
  BY DEF TransferInv
<1>2. /\ rxFree' = rxFree + Cardinality(Blocks(Stale))
      /\ UNCHANGED <<sent, queue, txFree, wire, upto, got, held, call>>
      /\ states' = [k \in Known \ Stale |-> states[k]]
  <2>1. (Known \ Stale) \cap DOMAIN states = Known \ Stale
    BY DEF Known
  <2> QED BY <2>1 DEF CleanupStaleTransfers, txVars, Restrict
<1>3. Underway' = Underway
  BY <1>2 DEF Underway
<1>4. /\ Known' = Known \ Stale /\ states' = [k \in Known' |-> states'[k]]
      /\ Known' \subseteq Known /\ \A k \in Known' : states'[k] = states[k]
  BY <1>2 DEF Known
<1>5. \A g \in Underway' : g.no \in Nat /\ g \in Underway
  BY <1>1, <1>3 DEF Lines, Valid, Frame
<1>6. StatesFit'
  <2>1. \A k \in Known : states[k] \in RxState
    BY <1>1 DEF StatesFit
  <2> QED BY <1>1, <1>2, <1>4, <1>5, <2>1, NothingSent, StatesStay
<1>8. CallCounted'
  BY <1>1, <1>2 DEF CallCounted
<1>9. PoolIsWhole' /\ rxFree' \in Int
  <2>1. Stale \in SUBSET Known /\ IsFiniteSet(Known) /\ \A j \in Known : states[j].blocks \in Nat
    BY <1>1 DEF Stale, TransferTypes, StatesFit, RxState
  <2> DEFINE S == Stale
             b == Cardinality(Blocks(S))
             c == Cardinality(Blocks(Known))
             e == Cardinality(Blocks(Known)')
  <2>2. c = e + b /\ e \in Nat /\ b \in Nat
    BY <1>2, <2>1, BlocksThrownAway
  <2>3. /\ rxFree + held + call.blocks + c = RxBlocks /\ rxFree' = rxFree + b
        /\ rxFree \in Int /\ held \in Int /\ call.blocks \in Int
    BY <1>1, <1>2 DEF PoolIsWhole, CallCounted, TransferTypes
  <2> HIDE DEF b, c, e
  <2>4. rxFree' + held + call.blocks + e = RxBlocks /\ rxFree' \in Int
    BY <2>2, <2>3
  <2> QED BY <1>1, <1>2, <2>4 DEF PoolIsWhole, e
<1>10. held' \in {0, 1}
  BY <1>1, <1>2 DEF TransferTypes
<1>11. call' \in Callback
  BY <1>1, <1>2, Zenon DEF TransferTypes
<1> QED BY <1>2, <1>4, <1>6, <1>8, <1>9, <1>10, <1>11, LinesStay

\* The receiver takes a block for a frame of its own or gives it back.
LEMMA OwnFramesKeep == TransferInv /\ OwnFrame => TransferInv'
<1> SUFFICES ASSUME TransferInv, OwnFrame
             PROVE  TransferInv'
  OBVIOUS
<1>1. TransferTypes /\ Lines /\ StatesFit /\ CallCounted /\ PoolIsWhole
  BY DEF TransferInv
<1>2. /\ UNCHANGED <<sent, queue, txFree, wire, upto, got, states, call>>
      /\ \/ held = 0 /\ held' = 1 /\ rxFree' = rxFree - 1
         \/ held = 1 /\ held' = 0 /\ rxFree' = rxFree + 1
  BY DEF OwnFrame, txVars, history
<1>3. Underway' = Underway
  BY <1>2 DEF Underway
<1>4. \A g \in Underway' : g.no \in Nat /\ g \in Underway
  BY <1>1, <1>3 DEF Lines, Valid, Frame
<1>5. StatesFit' /\ Known' = Known /\ Blocks(Known)' = Blocks(Known)
  BY <1>1, <1>2, <1>4, NothingSent, StatesSame
<1>6. rxFree' \in Int /\ held' \in {0, 1} /\ rxFree' + held' = rxFree + held
  BY <1>1, <1>2 DEF TransferTypes
<1>7. PoolIsWhole'
  <2> DEFINE c == Cardinality(Blocks(Known))
  <2>1. /\ rxFree + held + call.blocks + c = RxBlocks
        /\ rxFree \in Int /\ held \in Int /\ call.blocks \in Int /\ c \in Int
    BY <1>1, BlocksCounted DEF PoolIsWhole, CallCounted, TransferTypes
  <2> HIDE DEF c
  <2>2. rxFree' + held' + call.blocks + c = RxBlocks
    BY <1>6, <2>1
  <2> QED BY <1>1, <1>2, <1>5, <2>2 DEF PoolIsWhole, c
<1>8. CallCounted'
  BY <1>1, <1>2, <1>5 DEF CallCounted
<1>9. states' = [k \in Known' |-> states'[k]]
  BY <1>1, <1>2, <1>5 DEF TransferTypes
<1>10. call' \in Callback
  BY <1>1, <1>2, Zenon DEF TransferTypes
<1> QED BY <1>2, <1>5, <1>6, <1>7, <1>8, <1>9, <1>10, LinesStay

\* Time passes and states age.
LEMMA TicksKeep == TransferInv /\ Tick => TransferInv'
<1> SUFFICES ASSUME TransferInv, Tick
             PROVE  TransferInv'
  OBVIOUS
<1>1. TransferTypes /\ Lines /\ StatesFit /\ CallCounted /\ PoolIsWhole
  BY DEF TransferInv
<1>2. /\ UNCHANGED <<sent, queue, txFree, wire, upto, got, rxFree, held, call>>
      /\ states' = [k \in Known |-> [states[k] EXCEPT !.age = @ + 1]]
  BY DEF Tick, txVars, history
<1>3. Underway' = Underway
  BY <1>2 DEF Underway
<1>4. Known' = Known /\ states' = [k \in Known' |-> states'[k]]
  BY <1>2 DEF Known
<1>5. ASSUME NEW k \in Known
      PROVE  /\ states'[k] \in RxState /\ states'[k].tid = states[k].tid
             /\ states'[k].payload = states[k].payload /\ states'[k].calc = states[k].calc
             /\ states'[k].toggle = states[k].toggle /\ states'[k].blocks = states[k].blocks
  <2> DEFINE s == states[k]
             age == s.age + 1
             d == states'
  <2>1. s \in RxState
    BY <1>1 DEF StatesFit
  <2>2. d[k] = [s EXCEPT !.age = age]
    BY <1>2
  <2> HIDE DEF s, d
  <2>3. age \in Nat
    BY <2>1 DEF RxState
  <2> HIDE DEF age
  <2>4. /\ d[k] \in RxState /\ d[k].tid = s.tid /\ d[k].payload = s.payload /\ d[k].calc = s.calc
        /\ d[k].toggle = s.toggle /\ d[k].blocks = s.blocks
    BY <2>1, <2>2, <2>3 DEF RxState
  <2> QED BY <2>4 DEF s, d
<1>7. \A g \in Underway' : g.no \in Nat /\ g \in Underway
  BY <1>1, <1>3 DEF Lines, Valid, Frame
<1>8. StatesFit'
  BY <1>1, <1>2, <1>4, <1>5, <1>7, NothingSent, StatesStay
<1>9. PoolIsWhole'
  <2>1. Blocks(Known)' = Blocks(Known)
    BY <1>4, <1>5, BlocksSame
  <2> QED BY <1>1, <1>2, <2>1 DEF PoolIsWhole
<1>10. CallCounted'
  BY <1>1, <1>2 DEF CallCounted
<1>11. rxFree' \in Int /\ held' \in {0, 1}
  BY <1>1, <1>2 DEF TransferTypes
<1>12. call' \in Callback
  BY <1>1, <1>2 DEF TransferTypes, Callback
<1> QED BY <1>2, <1>4, <1>8, <1>9, <1>10, <1>11, <1>12, LinesStay

\* The invariant holds at first, and every step keeps it.
LEMMA TransferInitially == TransferInit => TransferInv
<1> SUFFICES ASSUME TransferInit
             PROVE  TransferInv
  OBVIOUS
<1>1. /\ sent = [k \in Kinds |-> <<>>] /\ queue = <<>> /\ txFree = TxBlocks /\ wire = <<>>
      /\ states = <<>> /\ rxFree = RxBlocks /\ call = Idle /\ held = 0
      /\ upto = [k \in Kinds |-> 0] /\ got = [k \in Kinds |-> <<>>]
  BY DEF TransferInit
<1>2. Underway = {}
  BY <1>1 DEF Underway
<1>3. Known = {} /\ states = [k \in Known |-> states[k]]
  BY <1>1 DEF Known
<1>4. TransferTypes
  <2>1. TxBlocks \in Nat /\ RxBlocks \in Nat
    BY TransferAssumption
  <2>2. call \in Callback
    BY <1>1 DEF Idle, Callback
  <2>3. IsFiniteSet(Known)
    BY <1>3, FS_EmptySet
  <2>4. \A k \in Kinds : upto[k] = 0 /\ sent[k] = <<>>
    BY <1>1
  <2>5. sent \in [Kinds -> Seq(Sizes)] /\ upto \in [Kinds -> Nat]
    BY <1>1
  <2> QED BY <1>1, <1>3, <2>1, <2>2, <2>3, <2>4, <2>5 DEF TransferTypes
<1>5. Lines /\ StatesFit
  BY <1>1, <1>2, <1>3 DEF Lines, Sorted, Urgent, StatesFit
<1>6. CallCounted
  BY <1>1 DEF CallCounted, Idle
<1>7. PoolIsWhole
  <2>1. Blocks(Known) = {}
    BY <1>3 DEF Blocks
  <2>2. Cardinality(Blocks(Known)) = 0
    BY <2>1, FS_EmptySet
  <2> QED BY <1>1, <2>2, TransferAssumption DEF PoolIsWhole, Idle
<1> QED BY <1>4, <1>5, <1>6, <1>7 DEF TransferInv

LEMMA TransferSteps == TransferInv /\ [TransferNext]_transferVars => TransferInv'
<1> SUFFICES ASSUME TransferInv, [TransferNext]_transferVars
             PROVE  TransferInv'
  OBVIOUS
<1>1. CASE UNCHANGED transferVars
  <2>1. /\ UNCHANGED <<sent, queue, txFree, wire, upto, got, states, call, rxFree, held>>
    BY <1>1 DEF transferVars, txVars, rxVars, history
  <2> QED BY <2>1, NothingMoves
<1> QED BY <1>1, TransmitsKeep, PacketsKeep, LossesKeepFrames, ReceivesKeep, ReturnsKeep,
           ClocksKeep, CleanupsKeep, OwnFramesKeep, TicksKeep DEF TransferNext

LEMMA TransferHolds == TransferSpec => []TransferInv
BY TransferInitially, TransferSteps, PTL DEF TransferSpec

\* Blocks of both arenas are never lost or freed twice, for every arena, every size of
\* transfer and however frames interleave, are lost or find no block
\* (canardHandleRxFrame, releaseStatePayload, canardCleanupStaleTransfers).
THEOREM ArenasWhole == TransferSpec => []PoolIsWhole
<1>1. TransferInv => PoolIsWhole
  BY DEF TransferInv
<1> QED BY <1>1, TransferHolds, PTL

\* The bound on transfers bounds their numbers.
LEMMA TransfersBounded ==
  ASSUME TransferTypes, NEW k \in Kinds, NEW z, Transmit(k, z)
  PROVE  Len(sent[k]) + 1 \in 1..MaxTransfers
<1> DEFINE b == [j \in Kinds |-> Len(sent[j])]
           T == UNION {{j} \X (1..Len(sent[j])) : j \in Kinds}
           U == {k} \X (1..Len(sent[k]))
           A == {k} \union {j \in Kinds : sent[j] # <<>>}
<1>1. ASSUME NEW j \in Kinds
      PROVE  Len(sent[j]) \in Nat
  <2>1. sent[j] \in Seq(Sizes)
    BY DEF TransferTypes
  <2> QED BY <2>1
<1>2. IsFiniteSet(Kinds) /\ MaxTransfers \in Nat
  BY TransferAssumption
<1>3. IsFiniteSet(BlocksIn(b, Kinds))
  <2>1. \A j \in Kinds : b[j] \in Nat
    BY <1>1
  <2> HIDE DEF b
  <2> QED BY <1>2, <2>1, BlocksFinite
<1>4. T \subseteq BlocksIn(b, Kinds)
  <2>1. \A j \in Kinds : 1..Len(sent[j]) \subseteq 0..b[j]
    BY <1>1
  <2> HIDE DEF b
  <2> QED BY <2>1 DEF BlocksIn
<1>5. IsFiniteSet(T) /\ Cardinality(T) \in Nat
  <2> HIDE DEF T
  <2> QED BY <1>3, <1>4, FS_Subset, FS_CardinalityType
<1>6. U \subseteq T
  OBVIOUS
<1>7. Cardinality(U) = Len(sent[k])
  <2>1. IsFiniteSet(1..Len(sent[k])) /\ Cardinality(1..Len(sent[k])) = Len(sent[k])
    BY <1>1, FS_Interval
  <2>2. IsFiniteSet({k}) /\ Cardinality({k}) = 1
    BY FS_Singleton
  <2>3. Cardinality(U) = Cardinality({k}) * Cardinality(1..Len(sent[k]))
    BY <2>1, <2>2, FS_Product
  <2> HIDE DEF U
  <2> QED BY <1>1, <2>1, <2>2, <2>3
<1>8. Cardinality(U) <= Cardinality(T)
  <2> HIDE DEF U, T
  <2> QED BY <1>5, <1>6, FS_Subset
<1>9. Cardinality(A) \in Nat \ {0}
  <2>1. A \subseteq Kinds /\ k \in A
    OBVIOUS
  <2> HIDE DEF A
  <2>2. IsFiniteSet(A)
    BY <1>2, <2>1, FS_Subset
  <2>3. Cardinality(A) # 0
    BY <2>1, <2>2, FS_EmptySet
  <2> QED BY <2>2, <2>3, FS_CardinalityType
<1>10. Cardinality(T) + Cardinality(A) < MaxTransfers
  BY DEF Transmit, Transfers
<1> HIDE DEF T, U, A
<1> QED BY <1>1, <1>2, <1>5, <1>7, <1>8, <1>9, <1>10

\* What is on its way on a line.
OnLine(m, n) == [i \in 1..(Len(m) - n) |-> Content(n + i, m[n + i])]

\* Sending a transfer appends it to its line.
LEMMA TransmitRefines ==
  ASSUME TransferInv, NEW k \in Kinds, NEW z \in Sizes, Transmit(k, z)
  PROVE  Channel!Next \/ UNCHANGED <<Pending, got>>
<1> DEFINE n == Len(sent[k]) + 1
           c == <<Content(n, z)>>
           m == Append(sent[k], z)
           p == OnLine(sent[k], upto[k])
<1>1. TransferTypes
  BY DEF TransferInv
<1>2. /\ sent \in [Kinds -> Seq(Sizes)] /\ sent[k] \in Seq(Sizes) /\ Len(sent[k]) \in Nat
      /\ upto[k] \in Nat /\ upto[k] <= Len(sent[k])
  <2>1. sent \in [Kinds -> Seq(Sizes)] /\ upto \in [Kinds -> Nat] /\ upto[k] <= Len(sent[k])
    BY <1>1 DEF TransferTypes
  <2>2. sent[k] \in Seq(Sizes)
    BY <2>1
  <2> QED BY <2>1, <2>2
<1>3. sent' = [sent EXCEPT ![k] = m] /\ upto' = upto /\ got' = got
  BY DEF Transmit, history
<1>4. Len(m) = n /\ m[n] = z /\ \A i \in 1..Len(sent[k]) : m[i] = sent[k][i]
  BY <1>2
<1>5. OnLine(m, upto[k]) = p \o c
  <2> DEFINE l == Len(sent[k]) - upto[k]
             q == OnLine(m, upto[k])
  <2>1. l \in Nat /\ Len(m) - upto[k] = l + 1 /\ upto[k] + (l + 1) = n
    BY <1>2, <1>4
  <2>2. q = [i \in 1..(l + 1) |-> Content(upto[k] + i, m[upto[k] + i])]
    BY <2>1 DEF OnLine
  <2>3. p = [i \in 1..l |-> Content(upto[k] + i, sent[k][upto[k] + i])]
    BY DEF OnLine
  <2>4. \A i \in 1..l : m[upto[k] + i] = sent[k][upto[k] + i]
    BY <1>2, <1>4
  <2> HIDE DEF q, p, m, n, l
  <2>5. p \in Seq(Range(p)) /\ Len(p) = l /\ \A i \in 1..l : p[i] = Content(upto[k] + i, sent[k][upto[k] + i])
    BY <2>1, <2>3 DEF Range
  <2>6. Len(c) = 1 /\ c[1] = Content(n, z)
    OBVIOUS
  <2>7. \A i \in 1..l : q[i] = p[i]
    BY <2>1, <2>2, <2>4, <2>5
  <2>8. q[l + 1] = c[1]
    <3>1. q[l + 1] = Content(upto[k] + (l + 1), m[upto[k] + (l + 1)])
      BY <2>1, <2>2
    <3> QED BY <1>4, <2>1, <2>6, <3>1
  <2>9. p \o c = [i \in 1..(l + 1) |-> IF i <= l THEN p[i] ELSE c[i - l]]
    BY <2>1, <2>5, <2>6, SMTT(20)
  <2>10. \A i \in 1..(l + 1) : q[i] = IF i <= l THEN p[i] ELSE c[i - l]
    <3> SUFFICES ASSUME NEW i \in 1..(l + 1)
                 PROVE  q[i] = IF i <= l THEN p[i] ELSE c[i - l]
      OBVIOUS
    <3>1. CASE i <= l
      BY <2>1, <2>7, <3>1
    <3>2. CASE ~(i <= l)
      <4>1. i = l + 1 /\ i - l = 1
        BY <2>1, <3>2
      <4> QED BY <2>8, <3>2, <4>1
    <3> QED BY <3>1, <3>2
  <2>11. q = [i \in 1..(l + 1) |-> q[i]]
    BY <2>2
  <2>12. q = [i \in 1..(l + 1) |-> IF i <= l THEN p[i] ELSE c[i - l]]
    BY <2>10, <2>11
  <2> QED BY <2>9, <2>12 DEF q, m
<1>6. Pending' = [Pending EXCEPT ![k] = p \o c]
  <2>1. Pending = [j \in Kinds |-> OnLine(sent[j], upto[j])]
    BY DEF Pending, OnLine
  <2>2. Pending' = [j \in Kinds |-> OnLine(sent'[j], upto'[j])]
    BY DEF Pending, OnLine
  <2>3. \A j \in Kinds : sent'[j] = IF j = k THEN m ELSE sent[j]
    BY <1>2, <1>3
  <2> DEFINE d == p \o c
  <2>4. OnLine(m, upto[k]) = d
    BY <1>5
  <2> HIDE DEF p, c, m, n, d
  <2>5. \A j \in Kinds : OnLine(sent'[j], upto'[j]) = IF j = k THEN d ELSE OnLine(sent[j], upto[j])
    BY <1>3, <2>3, <2>4
  <2>6. Pending' = [j \in Kinds |-> IF j = k THEN d ELSE OnLine(sent[j], upto[j])]
    BY <2>2, <2>5
  <2>7. Pending' = [Pending EXCEPT ![k] = d]
    BY <2>1, <2>6
  <2> QED BY <2>7 DEF d
<1>7. Pending[k] = p
  BY DEF Pending, OnLine
<1>8. c \in Bursts
  <2>1. n \in 1..MaxTransfers
    BY <1>1, TransfersBounded
  <2> HIDE DEF n
  <2> QED BY <2>1 DEF Bursts
<1> HIDE DEF p, c
<1>9. Channel!Send(k, c)
  BY <1>3, <1>6, <1>7 DEF Channel!Send
<1>10. CASE Pending'[k] # Pending[k]
  BY <1>8, <1>9, <1>10 DEF Channel!Next, Channel!SendSome
<1>11. CASE Pending'[k] = Pending[k]
  <2>1. Pending' = [Pending EXCEPT ![k] = Pending'[k]]
    BY <1>6 DEF Pending
  <2> QED BY <1>3, <1>11, <2>1 DEF Pending
<1> QED BY <1>10, <1>11

\* Receiving a frame receives the next transfer of the line that is not lost, or none.
LEMMA ReceiveRefines ==
  ASSUME TransferInv, ReceiveFrame
  PROVE  Channel!Next \/ UNCHANGED <<Pending, got>>
<1> DEFINE f == Head(wire)
<1>1. UNCHANGED <<upto, got, call>> \/
      /\ upto' = [upto EXCEPT ![f.kind] = f.no]
      /\ got' = [got EXCEPT ![f.kind] = Content(f.no, f.size)]
  BY Delivered
<1>2. /\ TransferTypes /\ Lines /\ wire # <<>> /\ wire' = Tail(wire) /\ UNCHANGED <<queue, sent>>
  BY DEF TransferInv, ReceiveFrame, txVars
<1>3. Foremost(Underway, f) /\ Valid(f)
  BY <1>2, FrameTaken
<1> HIDE DEF f
<1>4. /\ f.kind \in Kinds /\ f.no \in Nat /\ f.no <= Len(sent[f.kind])
      /\ f.size = sent[f.kind][f.no] /\ upto[f.kind] < f.no
  BY <1>3 DEF Valid, Frame
<1>5. CASE UNCHANGED <<upto, got, call>>
  BY <1>2, <1>5 DEF Pending
<1>6. CASE /\ upto' = [upto EXCEPT ![f.kind] = f.no]
           /\ got' = [got EXCEPT ![f.kind] = Content(f.no, f.size)]
  <2> DEFINE k == f.kind
             n == f.no
             m == sent[k]
             u == upto[k]
             p == OnLine(m, u)
             i == n - u
             l == Len(m) - u
             q == OnLine(m, n)
  <2>1. /\ upto \in [Kinds -> Nat] /\ u \in Nat /\ m \in Seq(Sizes) /\ Len(m) \in Nat
        /\ u <= Len(m)
    <3>1. upto \in [Kinds -> Nat] /\ u <= Len(m) /\ sent \in [Kinds -> Seq(Sizes)]
      BY <1>2, <1>4 DEF TransferTypes
    <3>2. m \in Seq(Sizes) /\ u \in Nat
      BY <1>4, <3>1
    <3> QED BY <3>1, <3>2
  <2>2. l \in Nat /\ i \in 1..l /\ u + i = n /\ l - i = Len(m) - n
    BY <1>4, <2>1
  <2>3. p = [j \in 1..l |-> Content(u + j, m[u + j])]
    BY DEF OnLine
  <2>4. p[i] = Content(n, f.size)
    <3>1. f.size = m[n]
      BY <1>4
    <3> HIDE DEF p, i, l, m, n, u
    <3> QED BY <2>2, <2>3, <3>1
  <2>5. q = [j \in 1..(l - i) |-> Content(n + j, m[n + j])]
    <3> HIDE DEF l, i
    <3> QED BY <2>2 DEF OnLine
  <2>6. Len(p) = l /\ p \in Seq(Range(p))
    <3> HIDE DEF l, m, u, p
    <3> QED BY <2>2, <2>3 DEF Range
  <2>7. SubSeq(p, i + 1, Len(p)) = q
    <3> HIDE DEF l, i, p, q
    <3>1. SubSeq(p, i + 1, l) = [j \in 1..(l - i) |-> p[j + i]]
      <4>1. l - (i + 1) + 1 = l - i
        BY <2>2
      <4>2. SubSeq(p, i + 1, l) = [j \in 1..(l - (i + 1) + 1) |-> p[(i + 1) + j - 1]]
        BY <2>2, <2>6
      <4>3. \A j \in 1..(l - i) : (i + 1) + j - 1 = j + i
        BY <2>2
      <4> QED BY <4>1, <4>2, <4>3
    <3>2. \A j \in 1..(l - i) : p[j + i] = Content(n + j, m[n + j])
      <4> SUFFICES ASSUME NEW j \in 1..(l - i)
                   PROVE  p[j + i] = Content(n + j, m[n + j])
        OBVIOUS
      <4>1. j + i \in 1..l /\ u + (j + i) = n + j
        BY <1>4, <2>1, <2>2
      <4>2. p[j + i] = Content(u + (j + i), m[u + (j + i)])
        BY <2>3, <4>1
      <4> QED BY <4>1, <4>2
    <3> QED BY <2>5, <2>6, <3>1, <3>2
  <2>8. Pending' = [Pending EXCEPT ![k] = q]
    <3>1. Pending = [j \in Kinds |-> OnLine(sent[j], upto[j])]
      BY DEF Pending, OnLine
    <3>2. Pending' = [j \in Kinds |-> OnLine(sent[j], upto'[j])]
      BY <1>2 DEF Pending, OnLine
    <3>3. \A j \in Kinds : upto'[j] = IF j = k THEN n ELSE upto[j]
      BY <1>6, <2>1
    <3>4. OnLine(sent[k], n) = q
      OBVIOUS
    <3> HIDE DEF q, n, k
    <3>5. \A j \in Kinds : OnLine(sent[j], upto'[j]) = IF j = k THEN q ELSE OnLine(sent[j], upto[j])
      BY <3>3, <3>4
    <3>6. Pending' = [j \in Kinds |-> IF j = k THEN q ELSE OnLine(sent[j], upto[j])]
      BY <3>2, <3>5
    <3> QED BY <3>1, <3>6
  <2>9. Pending[k] = p /\ k \in Kinds
    BY <1>4 DEF Pending, OnLine
  <2>10. i \in 1..Len(p)
    <3> HIDE DEF i, p, l
    <3> QED BY <2>2, <2>6
  <2>11. got' = [got EXCEPT ![k] = p[i]]
    BY <1>6, <2>4
  <2> HIDE DEF p, q, i, l, k
  <2>12. Channel!Receive(k)
    BY <2>7, <2>8, <2>9, <2>10, <2>11 DEF Channel!Receive
  <2> QED BY <2>9, <2>12 DEF Channel!Next
<1> QED BY <1>1, <1>5, <1>6

\* Each kind of transfer is a line that loses transfers but never reorders, repeats,
\* mixes or cuts them, for every number of kinds, size of transfer, of arena and of
\* transfer numbers (canardBroadcast to onReceptionCallback).
THEOREM TransfersAreLines == TransferSpec => ImplementsLossyFifo
<1>1. TransferInit => Channel!Init
  <2> SUFFICES ASSUME TransferInit
               PROVE  Channel!Init
    OBVIOUS
  <2>1. /\ sent = [k \in Kinds |-> <<>>] /\ upto = [k \in Kinds |-> 0]
        /\ got = [k \in Kinds |-> <<>>]
    BY DEF TransferInit
  <2>2. ASSUME NEW k \in Kinds
        PROVE  OnLine(sent[k], upto[k]) = <<>>
    BY <2>1 DEF OnLine
  <2>3. Pending = [k \in Kinds |-> OnLine(sent[k], upto[k])]
    BY DEF Pending, OnLine
  <2> QED BY <2>1, <2>2, <2>3 DEF Channel!Init
<1>2. TransferInv /\ [TransferNext]_transferVars => [Channel!Next]_<<Pending, got>>
  <2> SUFFICES ASSUME TransferInv, [TransferNext]_transferVars
               PROVE  Channel!Next \/ UNCHANGED <<Pending, got>>
    OBVIOUS
  <2>1. CASE UNCHANGED <<sent, upto, got>>
    BY <2>1 DEF Pending
  <2>2. CASE \E k \in Kinds, z \in Sizes : Transmit(k, z)
    BY <2>2, TransmitRefines
  <2>3. CASE ReceiveFrame
    BY <2>3, ReceiveRefines
  <2> QED BY <2>1, <2>2, <2>3 DEF TransferNext, transferVars, txVars, rxVars, history,
             enqueuePackets, FrameLost, CallbackReturns, ReadClock, CleanupStaleTransfers, OwnFrame, Tick
<1> QED BY <1>1, <1>2, TransferHolds, PTL
        DEF TransferSpec, ImplementsLossyFifo, Channel!Spec, Channel!lineVars

-----------------------------------------------------------------------------
(* How far a loss reaches.  The argument keeps an account of three sets of transfers: *)
(* w, those that are doomed; q, those whose loss may cost another transfer still; r,   *)
(* those delivered.  A mishap dooms a transfer and lets it owe one more.  The debt is   *)
(* paid when the first frame of a later transfer meets the state the loss left; until   *)
(* then a state that would refuse a transfer is covered by an earlier one that owes.    *)

\* The indices of the frames of a transfer that are among those of u.
Ahead(u, k, n) == {f.index : f \in {g \in u : g.kind = k /\ g.no = n}}

\* The state of a kind as it is for the next frame: a callback returns before it.
NextState(k) == IF call.busy /\ call.kind = k THEN prepareForNextTransfer(states[k]) ELSE states[k]

\* A state in which the first frame of transfer n is handled as it should be.
Welcomes(s, n) ==
  \/ ~s.seen \/ timedOut(s) \/ ForwardDistance(s.tid, n % Tids) > 1 \/ s.blocks > 0
  \/ s.tid = n % Tids /\ s.toggle = 0
Expects(k, n) == k \in Known => Welcomes(NextState(k), n)

\* The first i frames of transfer n have been gathered.
Gathering(k, n, i) ==
  /\ k \in Known /\ ~(call.busy /\ call.kind = k)
  /\ LET s == states[k]
     IN /\ s.seen /\ s.tid = n % Tids /\ s.toggle = i % 2 /\ s.payload # <<>>
        /\ s.calc = Content(n, i) /\ s.crc = <<n, sent[k][n]>>

\* The first i frames met a state that an earlier loss left, and transfer n goes with
\* them: every frame is refused, or the checksum begins behind the first.
Failing(k, n, i) ==
  k \in Known =>
    /\ ~(call.busy /\ call.kind = k)
    /\ LET s == states[k]
       IN /\ s.seen
          /\ \/ ForwardDistance(s.tid, n % Tids) = 1
             \/ /\ s.tid = n % Tids /\ s.toggle = i % 2
                /\ s.calc # <<>> => s.calc[1][2] # 1

\* An earlier transfer of the kind whose loss has not cost another one yet.
Owing(q, k, n) == \E m \in 1..(n - 1) : <<k, m>> \in q

\* Transfer n, of which i frames have been taken.
InHand(q, k, n, i) ==
  /\ Ahead(Underway, k, n) = (i + 1)..sent[k][n]
  /\ i > 0 => /\ Later(Underway, k, n)
              /\ Gathering(k, n, i) \/ (Owing(q, k, n) /\ Failing(k, n, i))

\* Two for each mishap.
Tallied(w, q, r) ==
  /\ IsFiniteSet(w) /\ IsFiniteSet(q) /\ IsFiniteSet(r)
  /\ \A k, n : <<k, n>> \in w => k \in Kinds /\ n \in 1..Len(sent[k])
  /\ \A k, n : <<k, n>> \in r => k \in Kinds /\ n \in 1..upto[k]
  /\ Cardinality(r) = received /\ mishaps \in Nat
  /\ Cardinality(w) + Cardinality(q) <= 2 * mishaps

\* What is not doomed is delivered or can be.
Accounted(w, q, r) ==
  \A k \in Kinds : \A n \in 1..Len(sent[k]) :
    \/ <<k, n>> \in w \/ <<k, n>> \in r
    \/ \E i \in 0..(sent[k][n] - 1) : InHand(q, k, n, i)

\* A transfer, or the next one to be sent, of which no frame has been taken.
Untouched(w, k, n) ==
  n = Len(sent[k]) + 1 \/ (<<k, n>> \notin w /\ 1 \in Ahead(Underway, k, n))

Prepared(w, q) ==
  \A k \in Kinds : \A n \in 1..(Len(sent[k]) + 1) :
    Untouched(w, k, n) =>
      \/ Expects(k, n) \/ Owing(q, k, n)
      \/ n > 1 /\ <<k, n - 1>> \notin w /\ Ahead(Underway, k, n - 1) # {}

\* What is doomed owes as long as frames up to its own are on the way.
Owed(w, q) ==
  \A k, n : <<k, n>> \in w =>
    \A f \in Underway : f.kind = k /\ f.no <= n => <<k, n>> \in q

TidsFit == \A k \in Known : states[k].tid \in 0..(Tids - 1)

LossInv(w, q, r) ==
  Tallied(w, q, r) /\ Accounted(w, q, r) /\ Prepared(w, q) /\ Owed(w, q) /\ TidsFit

Accounting == \E w, q, r : LossInv(w, q, r)

\* Numbers that wrap around, and the distance from one to the next but one.
LEMMA Distances ==
  ASSUME NEW a \in 0..(Tids - 1), NEW n \in Nat
  PROVE  /\ ForwardDistance(a, n % Tids) \in 0..(Tids - 1)
         /\ ForwardDistance(a, n % Tids) = 0 <=> a = n % Tids
         /\ ForwardDistance(a, n % Tids) = 1 => ForwardDistance(a, (n + 1) % Tids) > 1
<1> DEFINE b == n % Tids
           c == (n + 1) % Tids
<1>1. Tids \in Nat /\ Tids > 2 /\ Tids > 1
  <2>1. Tids \in Nat /\ Tids > 2
    BY TransferAssumption
  <2> QED BY <2>1
<1>2. b \in 0..(Tids - 1) /\ c \in 0..(Tids - 1) /\ c = (b + 1) % Tids
  BY <1>1, Neighbours
<1> HIDE DEF b, c
<1>3. ASSUME NEW x \in 0..(Tids - 1)
      PROVE  x % Tids = x
  BY <1>1
<1>4. ASSUME NEW x \in Int, x < 0, x + Tids >= 0
      PROVE  x % Tids = x + Tids
  <2>1. \A k, m \in Int, e \in 0..(Tids - 1) : k = Tids * m + e => k % Tids = e
    BY <1>1
  <2>2. x = Tids * (-1) + (x + Tids) /\ x + Tids \in 0..(Tids - 1)
    BY <1>1, <1>4
  <2> QED BY <2>1, <2>2
<1>5. ASSUME NEW x \in 0..(Tids - 1)
      PROVE  (x - a) % Tids = IF x >= a THEN x - a ELSE x - a + Tids
  BY <1>1, <1>3, <1>4
<1>6. c = IF b = Tids - 1 THEN 0 ELSE b + 1
  <2>1. CASE b = Tids - 1
    <3>1. Tids % Tids = 0
      BY <1>1
    <3> QED BY <1>1, <1>2, <2>1, <3>1
  <2>2. CASE b # Tids - 1
    <3>1. b + 1 \in 0..(Tids - 1)
      BY <1>1, <1>2, <2>2
    <3> QED BY <1>2, <1>3, <2>2, <3>1
  <2> QED BY <2>1, <2>2
<1>7. /\ ForwardDistance(a, b) = IF b >= a THEN b - a ELSE b - a + Tids
      /\ ForwardDistance(a, c) = IF c >= a THEN c - a ELSE c - a + Tids
  BY <1>2, <1>5 DEF ForwardDistance
<1>8. /\ ForwardDistance(a, b) \in 0..(Tids - 1)
      /\ ForwardDistance(a, b) = 0 <=> a = b
      /\ ForwardDistance(a, b) = 1 => ForwardDistance(a, c) > 1
  BY <1>1, <1>2, <1>6, <1>7
<1> QED BY <1>8 DEF b, c

\* More doomed or owing transfers, one by one.
LEMMA Joined ==
  ASSUME NEW S, NEW T, IsFiniteSet(S), IsFiniteSet(T)
  PROVE  /\ IsFiniteSet(S \union T) /\ Cardinality(S \union T) \in Nat
         /\ Cardinality(S) \in Nat /\ Cardinality(T) \in Nat
         /\ Cardinality(S \union T) <= Cardinality(S) + Cardinality(T)
<1>1. /\ IsFiniteSet(S \union T)
      /\ Cardinality(S \union T) = Cardinality(S) + Cardinality(T) - Cardinality(S \cap T)
  BY FS_Union
<1>2. IsFiniteSet(S \cap T)
  BY FS_Subset
<1>3. /\ Cardinality(S \union T) \in Nat /\ Cardinality(S) \in Nat /\ Cardinality(T) \in Nat
      /\ Cardinality(S \cap T) \in Nat
  BY <1>1, <1>2, FS_CardinalityType
<1> QED BY <1>1, <1>3

\* How many have been sent and received of each kind, and of how many frames.
LEMMA Counts ==
  ASSUME TransferTypes
  PROVE  /\ \A k \in Kinds : /\ Len(sent[k]) \in Nat /\ upto[k] \in Nat /\ upto[k] <= Len(sent[k])
                             /\ \A n \in 1..Len(sent[k]) : sent[k][n] \in Nat \ {0}
<1> SUFFICES ASSUME NEW k \in Kinds
             PROVE  /\ Len(sent[k]) \in Nat /\ upto[k] \in Nat /\ upto[k] <= Len(sent[k])
                    /\ \A n \in 1..Len(sent[k]) : sent[k][n] \in Nat \ {0}
  OBVIOUS
<1>1. sent[k] \in Seq(Sizes) /\ upto[k] \in Nat /\ upto[k] <= Len(sent[k])
  BY DEF TransferTypes
<1>2. Len(sent[k]) \in Nat /\ \A n \in 1..Len(sent[k]) : sent[k][n] \in Sizes
  BY <1>1
<1> QED BY <1>1, <1>2, TransferAssumption

\* Frames that are lost and states that are thrown away doom no more transfers than
\* there are mishaps, and these owe one more.
LEMMA LossKept ==
  ASSUME TransferTypes, Lines, NEW w, NEW q, NEW r, LossInv(w, q, r), TidsFit',
         UNCHANGED <<sent, upto, received>>,
         NEW h, IsFiniteSet(h), mishaps' \in Nat, Cardinality(h) <= mishaps' - mishaps,
         \A k, n : <<k, n>> \in h => k \in Kinds /\ n \in 1..Len(sent[k]),
         Underway' \subseteq Underway,
         \A f \in Underway : f \in Underway' \/ <<f.kind, f.no>> \in h,
         \A k \in Kinds, n \in Nat : Expects(k, n) => Expects(k, n)',
         \A k \in Kinds : \A n \in 1..Len(sent[k]), i \in Nat : <<k, n>> \notin h /\ i > 0 =>
           /\ Gathering(k, n, i) => Gathering(k, n, i)'
           /\ Failing(k, n, i) => Failing(k, n, i)'
  PROVE  Accounting'
<1> DEFINE v == w \union h
           p == q \union h
<1>1. Tallied(v, p, r)'
  <2> DEFINE a == Cardinality(w)
             b == Cardinality(q)
             c == Cardinality(h)
             d == Cardinality(v)
             e == Cardinality(p)
  <2>1. IsFiniteSet(w) /\ IsFiniteSet(q) /\ a + b <= 2 * mishaps /\ mishaps \in Nat
    BY DEF LossInv, Tallied
  <2>2. IsFiniteSet(v) /\ IsFiniteSet(p) /\ d <= a + c /\ e <= b + c
        /\ a \in Nat /\ b \in Nat /\ c \in Nat /\ d \in Nat /\ e \in Nat
    BY <2>1, Joined
  <2>3. c <= mishaps' - mishaps
    OBVIOUS
  <2> DEFINE x == mishaps
             y == mishaps'
  <2> HIDE DEF a, b, c, d, e
  <2>4. d + e <= 2 * mishaps'
    <3>1. x \in Nat /\ y \in Nat /\ a + b <= 2 * x /\ c <= y - x
      BY <2>1, <2>3
    <3> HIDE DEF x, y
    <3>2. d + e <= 2 * y
      BY <2>2, <3>1
    <3> QED BY <3>2 DEF y
  <2>5. \A k, n : <<k, n>> \in v => k \in Kinds /\ n \in 1..Len(sent[k])
    BY DEF LossInv, Tallied
  <2>6. IsFiniteSet(r) /\ Cardinality(r) = received /\ \A k, n : <<k, n>> \in r => k \in Kinds /\ n \in 1..upto[k]
    BY DEF LossInv, Tallied
  <2> HIDE DEF v, p
  <2> QED BY <2>2, <2>4, <2>5, <2>6 DEF Tallied, d, e
<1>2. ASSUME NEW k \in Kinds, NEW n, <<k, n>> \notin h
      PROVE  Ahead(Underway, k, n)' = Ahead(Underway, k, n)
  <2>1. \A f \in Underway : f.kind = k /\ f.no = n => f \in Underway'
    BY <1>2
  <2> QED BY <2>1 DEF Ahead
<1>3. \A k \in Kinds : Len(sent[k]) \in Nat /\ \A n \in 1..Len(sent[k]) : sent[k][n] \in Nat \ {0}
  BY Counts
<1>4. Accounted(v, p, r)'
  <2> SUFFICES ASSUME NEW k \in Kinds, NEW n \in 1..Len(sent[k]), <<k, n>> \notin v, <<k, n>> \notin r
               PROVE  \E i \in 0..(sent[k][n] - 1) : InHand(p, k, n, i)'
    BY DEF Accounted
  <2>1. PICK i \in 0..(sent[k][n] - 1) : InHand(q, k, n, i)
    BY DEF LossInv, Accounted
  <2>2. i \in Nat /\ n \in Nat
    BY <1>3
  <2>3. Ahead(Underway, k, n)' = (i + 1)..sent[k][n]
    BY <1>2, <2>1 DEF InHand
  <2>4. Owing(q, k, n) => Owing(p, k, n)
    BY DEF Owing
  <2>5. ASSUME i > 0
        PROVE  Later(Underway, k, n)' /\ (Gathering(k, n, i)' \/ (Owing(p, k, n) /\ Failing(k, n, i)'))
    <3>1. Later(Underway, k, n) /\ (Gathering(k, n, i) \/ (Owing(q, k, n) /\ Failing(k, n, i)))
      BY <2>1, <2>5 DEF InHand
    <3>2. Later(Underway, k, n)'
      BY <3>1 DEF Later
    <3>3. /\ Gathering(k, n, i) => Gathering(k, n, i)'
          /\ Failing(k, n, i) => Failing(k, n, i)'
      BY <2>2, <2>5
    <3> QED BY <2>4, <3>1, <3>2, <3>3
  <2>6. InHand(p, k, n, i)'
    BY <2>3, <2>5 DEF InHand, Owing
  <2> QED BY <2>6
<1>5. Prepared(v, p)'
  <2> SUFFICES ASSUME NEW k \in Kinds, NEW n \in 1..(Len(sent[k]) + 1), Untouched(v, k, n)',
                      ~Owing(p, k, n)
               PROVE  \/ Expects(k, n)'
                      \/ n > 1 /\ <<k, n - 1>> \notin v /\ Ahead(Underway, k, n - 1)' # {}
    BY DEF Prepared, Owing
  <2>1. n \in Nat /\ n >= 1
    BY <1>3
  <2>2. Untouched(w, k, n)
    BY <1>2 DEF Untouched
  <2>3. ~Owing(q, k, n)
    BY DEF Owing
  <2>4. Expects(k, n) \/ (n > 1 /\ <<k, n - 1>> \notin w /\ Ahead(Underway, k, n - 1) # {})
    BY <2>2, <2>3 DEF LossInv, Prepared
  <2>5. n > 1 => <<k, n - 1>> \notin h
    <3>1. n > 1 => n - 1 \in 1..(n - 1)
      BY <2>1
    <3> QED BY <3>1 DEF Owing
  <2> QED BY <1>2, <2>1, <2>4, <2>5
<1>6. Owed(v, p)'
  <2> SUFFICES ASSUME NEW k, NEW n, <<k, n>> \in v, NEW f \in Underway', f.kind = k, f.no <= n
               PROVE  <<k, n>> \in p
    BY DEF Owed
  <2>1. CASE <<k, n>> \in h
    BY <2>1
  <2>2. CASE <<k, n>> \in w
    BY <2>2 DEF LossInv, Owed
  <2> QED BY <2>1, <2>2
<1> HIDE DEF v, p
<1>7. LossInv(v, p, r)'
  BY <1>1, <1>4, <1>5, <1>6 DEF LossInv
<1> QED BY <1>7 DEF Accounting

\* The states of other kinds stay while a frame is handled.
Aside(f) ==
  /\ \A k \in Kinds : k # f.kind =>
       (k \in Known' <=> k \in Known) /\ (k \in Known => states'[k] = states[k])
  /\ call' = call \/ (call'.busy /\ call'.kind = f.kind)

\* What was said of the other kinds stays.
LEMMA OthersStay ==
  ASSUME NEW f, Aside(f), ~call.busy, sent' = sent, NEW k \in Kinds, k # f.kind, NEW n, NEW i
  PROVE  /\ Expects(k, n) => Expects(k, n)'
         /\ Gathering(k, n, i) => Gathering(k, n, i)'
         /\ Failing(k, n, i) => Failing(k, n, i)'
<1>1. /\ k \in Known' <=> k \in Known
      /\ k \in Known => states'[k] = states[k]
      /\ ~(call'.busy /\ call'.kind = k) /\ ~(call.busy /\ call.kind = k)
  BY DEF Aside
<1> DEFINE s == states[k]
           t == states'[k]
<1>2. Expects(k, n) => Expects(k, n)'
  <2>1. Expects(k, n) <=> (k \in Known => Welcomes(s, n))
    BY <1>1 DEF Expects, NextState
  <2>2. Expects(k, n)' <=> (k \in Known' => Welcomes(t, n))
    BY <1>1 DEF Expects, NextState, Welcomes, timedOut
  <2> QED BY <1>1, <2>1, <2>2
<1>3. Gathering(k, n, i) => Gathering(k, n, i)'
  BY <1>1 DEF Gathering
<1>4. Failing(k, n, i) => Failing(k, n, i)'
  BY <1>1 DEF Failing
<1> QED BY <1>2, <1>3, <1>4

\* The first frame on the wire is the next one of its transfer, unless that is doomed.
LEMMA InTurn ==
  ASSUME TransferTypes, Lines, NEW w, NEW q, NEW r, LossInv(w, q, r),
         wire # <<>>, wire' = Tail(wire), UNCHANGED <<queue, sent>>,
         NEW f, f = Head(wire), <<f.kind, f.no>> \notin w
  PROVE  /\ Ahead(Underway, f.kind, f.no) = f.index..f.size
         /\ Ahead(Underway', f.kind, f.no) = (f.index + 1)..f.size
         /\ \E i \in Nat : f.index = i + 1 /\ InHand(q, f.kind, f.no, i)
<1> DEFINE c == f.kind
           o == f.no
           u == Underway
           u1 == Underway'
<1>1. /\ Foremost(u, f) /\ Valid(f) /\ u1 \subseteq u
      /\ Later(u1, c, o) /\ (last(f) => Later(u1, c, o + 1))
      /\ \A g \in u1 : Before(f, g)
      /\ \A g \in u : g = f \/ g \in u1
  BY FrameTaken
<1>2. /\ f \in u /\ f \in Frame /\ c \in Kinds /\ o \in Nat \ {0} /\ f.index \in Nat \ {0}
      /\ f.size \in Nat \ {0} /\ f.index <= f.size /\ o <= Len(sent[c]) /\ f.size = sent[c][o]
      /\ upto[c] < o
  <2>1. f \in u /\ f \in Frame
    BY <1>1 DEF Foremost
  <2>2. \A z \in Sizes : z \in Nat \ {0}
    BY TransferAssumption
  <2> QED BY <1>1, <2>1, <2>2 DEF Valid, Frame
<1>3. \A k \in Kinds : /\ Len(sent[k]) \in Nat /\ upto[k] \in Nat
                       /\ \A n \in 1..Len(sent[k]) : sent[k][n] \in Nat \ {0}
  BY Counts
<1>4. <<c, o>> \notin r
  BY <1>2, <1>3 DEF LossInv, Tallied
<1>5. o \in 1..Len(sent[c])
  BY <1>2, <1>3
<1>6. PICK i \in 0..(sent[c][o] - 1) : InHand(q, c, o, i)
  BY <1>2, <1>4, <1>5 DEF LossInv, Accounted
<1>7. Ahead(u, c, o) = (i + 1)..f.size /\ i \in Nat /\ i + 1 <= f.size
  BY <1>2, <1>6 DEF InHand
<1>8. f.index \in Ahead(u, c, o)
  BY <1>2 DEF Ahead
<1>9. f.index = i + 1
  <2> SUFFICES ASSUME f.index # i + 1
               PROVE  FALSE
    OBVIOUS
  <2>1. f.index > i + 1 /\ i + 1 \in Ahead(u, c, o)
    BY <1>2, <1>7, <1>8
  <2>2. PICK g \in u : g.kind = c /\ g.no = o /\ g.index = i + 1
    BY <2>1 DEF Ahead
  <2>3. g \in u1 /\ Before(f, g)
    BY <1>1, <2>1, <2>2
  <2> QED BY <1>2, <1>7, <2>1, <2>2, <2>3 DEF Before
<1>10. Ahead(u1, c, o) = (i + 2)..f.size
  <2>1. ASSUME NEW j \in Ahead(u1, c, o)
        PROVE  j \in (i + 2)..f.size
    <3>1. PICK g \in u1 : g.kind = c /\ g.no = o /\ g.index = j
      BY <2>1 DEF Ahead
    <3>2. Before(f, g) /\ g \in u
      BY <1>1, <3>1
    <3>3. f.index < j
      BY <1>2, <3>1, <3>2 DEF Before
    <3>4. j \in Ahead(u, c, o)
      BY <3>1, <3>2 DEF Ahead
    <3> DEFINE x == f.index
               y == f.size
    <3>5. x \in Int /\ y \in Int /\ x = i + 1 /\ i \in Int /\ x < j /\ j \in (i + 1)..y
      BY <1>2, <1>7, <1>9, <3>3, <3>4
    <3> HIDE DEF x, y
    <3>6. j \in (i + 2)..y
      BY <3>5
    <3> QED BY <3>6 DEF y
  <2>2. ASSUME NEW j \in (i + 2)..f.size
        PROVE  j \in Ahead(u1, c, o)
    <3> DEFINE x == f.index
               y == f.size
    <3>0. j \in (i + 2)..y /\ x = i + 1 /\ i \in Int /\ y \in Int
      BY <1>2, <1>7, <1>9, <2>2
    <3> HIDE DEF x, y
    <3>4. j \in (i + 1)..y /\ j # x
      BY <3>0
    <3>1. j \in Ahead(u, c, o) /\ j # f.index
      BY <1>7, <3>4 DEF x, y
    <3>2. PICK g \in u : g.kind = c /\ g.no = o /\ g.index = j
      BY <3>1 DEF Ahead
    <3>3. g \in u1
      BY <1>1, <3>1, <3>2
    <3> QED BY <3>2, <3>3 DEF Ahead
  <2> QED BY <2>1, <2>2
<1> QED BY <1>6, <1>7, <1>9, <1>10

\* A frame has been handled: of its own transfer there is more to come, or it is
\* delivered, or doomed; and then the state expects the next transfer, or owes one.
Settles(w, q, r, f, v, p, d) ==
  LET c == f.kind
      o == f.no
  IN /\ Tallied(v, p, d)' /\ w \subseteq v /\ r \subseteq d
     /\ \A a \in v : a \in w \/ a = <<c, o>>
     /\ \A a \in q : a \in p \/ \E m \in 1..(o - 1) : a = <<c, m>>
     /\ \/ <<c, o>> \in v
        \/ last(f) /\ <<c, o>> \in d
        \/ ~last(f) /\ Gathering(c, o, f.index)'
        \/ ~last(f) /\ Owing(p, c, o) /\ Failing(c, o, f.index)'
     /\ \/ ~last(f) /\ <<c, o>> \notin v
        \/ Expects(c, o + 1)' \/ Owing(p, c, o + 1)
     /\ <<c, o>> \in v => <<c, o>> \in p \/ last(f)

LEMMA FrameSettled ==
  ASSUME TransferTypes, Lines, NEW w, NEW q, NEW r, LossInv(w, q, r), TidsFit',
         ~call.busy, wire # <<>>, wire' = Tail(wire), UNCHANGED <<queue, sent>>,
         NEW f, f = Head(wire), Aside(f),
         NEW v, NEW p, NEW d, Settles(w, q, r, f, v, p, d)
  PROVE  Accounting'
<1> DEFINE c == f.kind
           o == f.no
           u == Underway
           u1 == Underway'
<1>13. /\ Tallied(v, p, d)' /\ w \subseteq v /\ r \subseteq d
       /\ \A a \in v : a \in w \/ a = <<c, o>>
       /\ \A a \in q : a \in p \/ \E m \in 1..(o - 1) : a = <<c, m>>
       /\ \/ <<c, o>> \in v
          \/ last(f) /\ <<c, o>> \in d
          \/ ~last(f) /\ Gathering(c, o, f.index)'
          \/ ~last(f) /\ Owing(p, c, o) /\ Failing(c, o, f.index)'
       /\ \/ ~last(f) /\ <<c, o>> \notin v
          \/ Expects(c, o + 1)' \/ Owing(p, c, o + 1)
       /\ <<c, o>> \in v => <<c, o>> \in p \/ last(f)
  BY DEF Settles
<1> USE <1>13
<1>1. /\ Foremost(u, f) /\ Valid(f) /\ u1 \subseteq u
      /\ Later(u1, c, o) /\ (last(f) => Later(u1, c, o + 1))
      /\ \A g \in u1 : Before(f, g)
      /\ \A g \in u : g = f \/ g \in u1
  BY FrameTaken
<1>2. /\ f \in u /\ f \in Frame /\ c \in Kinds /\ o \in Nat \ {0} /\ f.index \in Nat \ {0}
      /\ f.size \in Nat \ {0} /\ f.index <= f.size /\ o <= Len(sent[c]) /\ f.size = sent[c][o]
      /\ upto[c] < o
  <2>1. f \in u /\ f \in Frame
    BY <1>1 DEF Foremost
  <2>2. \A z \in Sizes : z \in Nat \ {0}
    BY TransferAssumption
  <2> QED BY <1>1, <2>1, <2>2 DEF Valid, Frame
<1>3. \A k \in Kinds : /\ Len(sent[k]) \in Nat /\ upto[k] \in Nat
                       /\ \A n \in 1..Len(sent[k]) : sent[k][n] \in Nat \ {0}
  BY Counts
<1>4. \A g \in u : g.kind \in Kinds /\ g.no \in Nat \ {0} /\ g.index \in Nat \ {0}
  BY DEF Lines, Valid, Frame
<1>5. \A g \in u : g.kind = c => o <= g.no
  BY <1>1 DEF Foremost
<1>6. ASSUME NEW k, NEW n, k # c \/ n # o
      PROVE  Ahead(u1, k, n) = Ahead(u, k, n)
  <2>1. \A g \in u : g.kind = k /\ g.no = n => g \in u1
    BY <1>1, <1>6
  <2> HIDE DEF u, u1
  <2> QED BY <1>1, <2>1 DEF Ahead
<1>7. ASSUME <<c, o>> \notin w
      PROVE  Ahead(u1, c, o) = (f.index + 1)..f.size
  BY <1>7, InTurn
<1>8. Accounted(v, p, d)'
  <2> SUFFICES ASSUME NEW k \in Kinds, NEW n \in 1..Len(sent[k]), <<k, n>> \notin v, <<k, n>> \notin d
               PROVE  \E i \in 0..(sent[k][n] - 1) : InHand(p, k, n, i)'
    BY DEF Accounted
  <2>1. CASE k = c /\ n = o
    <3>1. Ahead(u1, k, n) = (f.index + 1)..sent[k][n]
      BY <1>2, <1>7, <2>1
    <3>2. /\ ~last(f)
          /\ Gathering(k, n, f.index)' \/ (Owing(p, k, n) /\ Failing(k, n, f.index)')
      BY <2>1
    <3>3. Later(u1, k, n)
      BY <1>1, <2>1
    <3>4. InHand(p, k, n, f.index)'
      BY <3>1, <3>2, <3>3 DEF InHand, Owing
    <3>5. f.index \in 0..(sent[k][n] - 1)
      BY <1>2, <2>1, <3>2 DEF last
    <3> QED BY <3>4, <3>5
  <2>2. CASE ~(k = c /\ n = o)
    <3>1. PICK i \in 0..(sent[k][n] - 1) : InHand(q, k, n, i)
      BY DEF LossInv, Accounted
    <3>2. /\ Ahead(u1, k, n) = (i + 1)..sent[k][n]
          /\ i > 0 => /\ Later(u, k, n)
                      /\ Gathering(k, n, i) \/ (Owing(q, k, n) /\ Failing(k, n, i))
      BY <1>6, <2>2, <3>1 DEF InHand
    <3>3. ASSUME i > 0
          PROVE  Later(u1, k, n) /\ (Gathering(k, n, i)' \/ (Owing(p, k, n) /\ Failing(k, n, i)'))
      <4>1. k # c
        <5> SUFFICES ASSUME k = c
                     PROVE  FALSE
          OBVIOUS
        <5>1. sent[k][n] \in (i + 1)..sent[k][n]
          BY <1>3
        <5>2. PICK g \in u1 : g.kind = k /\ g.no = n
          BY <3>2, <5>1 DEF Ahead
        <5>3. o <= n
          BY <1>1, <1>5, <5>2
        <5>4. n <= o
          BY <1>2, <3>2, <3>3 DEF Later
        <5> QED BY <1>2, <2>2, <5>3, <5>4
      <4>2. Owing(q, k, n) => Owing(p, k, n)
        <5>1. \A a \in 1..(n - 1) : <<k, a>> \in q => <<k, a>> \in p
          BY <4>1
        <5> QED BY <5>1 DEF Owing
      <4>3. /\ Gathering(k, n, i) => Gathering(k, n, i)'
            /\ Failing(k, n, i) => Failing(k, n, i)'
        BY <4>1, OthersStay
      <4>4. Later(u1, k, n)
        BY <1>1, <3>2, <3>3 DEF Later
      <4> QED BY <3>2, <3>3, <4>2, <4>3, <4>4
    <3>4. InHand(p, k, n, i)'
      BY <3>2, <3>3 DEF InHand, Owing
    <3> QED BY <3>4
  <2> QED BY <2>1, <2>2
<1>9. ASSUME NEW n \in 1..(Len(sent[c]) + 1), n > o + 1
      PROVE  \/ Owing(p, c, n)
             \/ n > 1 /\ <<c, n - 1>> \notin v /\ Ahead(u1, c, n - 1) # {}
  <2> DEFINE m == n - 1
  <2>1. m \in 1..Len(sent[c]) /\ m > o /\ m \in 1..(n - 1) /\ n > 1
    BY <1>2, <1>3, <1>9
  <2> HIDE DEF m
  <2>2. CASE <<c, m>> \in w
    <3>1. <<c, m>> \in q
      BY <1>2, <2>1, <2>2 DEF LossInv, Owed
    <3>2. \A a \in 1..(o - 1) : <<c, m>> # <<c, a>>
      BY <1>2, <2>1
    <3>3. <<c, m>> \in p
      BY <3>1, <3>2
    <3> QED BY <2>1, <3>3 DEF Owing
  <2>3. CASE <<c, m>> \notin w
    <3>1. <<c, m>> \notin r
      BY <1>2, <1>3, <2>1 DEF LossInv, Tallied
    <3>2. PICK i \in 0..(sent[c][m] - 1) : InHand(q, c, m, i)
      BY <1>2, <2>1, <2>3, <3>1 DEF LossInv, Accounted
    <3>3. Ahead(u1, c, m) = (i + 1)..sent[c][m] /\ m # o
      BY <1>2, <1>6, <2>1, <3>2 DEF InHand
    <3>4. sent[c][m] \in (i + 1)..sent[c][m]
      BY <1>2, <1>3, <2>1
    <3>5. <<c, m>> \notin v
      BY <2>3, <3>3
    <3> QED BY <2>1, <3>3, <3>4, <3>5 DEF m
  <2> QED BY <2>2, <2>3
<1>10. Prepared(v, p)'
  <2> SUFFICES ASSUME NEW k \in Kinds, NEW n \in 1..(Len(sent[k]) + 1), Untouched(v, k, n)'
               PROVE  \/ Expects(k, n)' \/ Owing(p, k, n)
                      \/ n > 1 /\ <<k, n - 1>> \notin v /\ Ahead(u1, k, n - 1) # {}
    BY DEF Prepared, Owing
  <2>1. CASE k # c
    <3>1. \A a : <<k, a>> \in v <=> <<k, a>> \in w
      BY <2>1
    <3>2. Untouched(w, k, n)
      BY <1>6, <2>1, <3>1 DEF Untouched
    <3>3. \/ Expects(k, n) \/ Owing(q, k, n)
          \/ n > 1 /\ <<k, n - 1>> \notin w /\ Ahead(u, k, n - 1) # {}
      BY <3>2 DEF LossInv, Prepared
    <3>4. Owing(q, k, n) => Owing(p, k, n)
      <4>1. \A a \in 1..(n - 1) : <<k, a>> \in q => <<k, a>> \in p
        BY <2>1
      <4> QED BY <4>1 DEF Owing
    <3>5. Expects(k, n) => Expects(k, n)'
      BY <2>1, OthersStay
    <3> QED BY <1>6, <2>1, <3>1, <3>3, <3>4, <3>5
  <2>2. CASE k = c
    <3>1. n > o
      <4>1. CASE n = Len(sent[k]) + 1
        BY <1>2, <1>3, <2>2, <4>1
      <4>2. CASE 1 \in Ahead(u1, k, n)
        <5>1. PICK g \in u1 : g.kind = k /\ g.no = n /\ g.index = 1
          BY <4>2 DEF Ahead
        <5>2. Before(f, g) /\ g \in u
          BY <1>1, <5>1
        <5> QED BY <1>2, <2>2, <5>1, <5>2 DEF Before
      <4> QED BY <4>1, <4>2 DEF Untouched
    <3>2. CASE n = o + 1
      <4>1. n > 1 /\ n - 1 = o
        BY <1>2, <3>2
      <4>2. CASE ~last(f) /\ <<c, o>> \notin v
        <5>1. Ahead(u1, c, o) = (f.index + 1)..f.size
          BY <1>7, <4>2
        <5>2. f.size \in (f.index + 1)..f.size
          BY <1>2, <4>2 DEF last
        <5> QED BY <2>2, <4>1, <4>2, <5>1, <5>2
      <4>3. CASE Expects(c, o + 1)'
        BY <2>2, <3>2, <4>3
      <4>4. CASE Owing(p, c, o + 1)
        BY <2>2, <3>2, <4>4
      <4> QED BY <4>2, <4>3, <4>4
    <3>3. CASE n # o + 1
      <4>1. n > o + 1
        BY <1>2, <1>3, <3>1, <3>3
      <4> QED BY <1>9, <2>2, <4>1
    <3> QED BY <3>2, <3>3
  <2> QED BY <2>1, <2>2
<1>11. Owed(v, p)'
  <2> SUFFICES ASSUME NEW k, NEW n, <<k, n>> \in v, NEW g \in u1, g.kind = k, g.no <= n
               PROVE  <<k, n>> \in p
    BY DEF Owed
  <2>1. CASE <<k, n>> \in w
    <3>1. <<k, n>> \in q
      BY <1>1, <2>1 DEF LossInv, Owed
    <3>2. n \in Nat
      BY <1>3, <2>1 DEF LossInv, Tallied
    <3>3. k = c => o <= n
      <4>1. k = c => o <= g.no
        BY <1>1, <1>5
      <4> QED BY <1>1, <1>2, <1>4, <3>2, <4>1
    <3>4. \A a \in 1..(o - 1) : <<k, n>> # <<c, a>>
      BY <1>2, <3>2, <3>3
    <3> QED BY <3>1, <3>4
  <2>2. CASE <<k, n>> = <<c, o>>
    <3>1. last(f) => o + 1 <= g.no
      BY <1>1, <2>2 DEF Later
    <3>2. ~last(f)
      BY <1>1, <1>2, <1>4, <2>2, <3>1
    <3> QED BY <2>2, <3>2
  <2> QED BY <2>1, <2>2
<1>12. LossInv(v, p, d)'
  BY <1>8, <1>10, <1>11 DEF LossInv
<1> QED BY <1>12 DEF Accounting

\* What Keep leaves.
LEMMA KeptStates ==
  ASSUME NEW f, NEW s, NEW left, Keep(f, s, left)
  PROVE  /\ Known' = Known \union {f.kind} /\ states'[f.kind] = s
         /\ \A k \in Known : k # f.kind => states'[k] = states[k]
BY DEF Keep, Known

\* A frame, its transfer and what else is known when it is taken off the wire.
LEMMA Comes ==
  ASSUME TransferInv, ReceiveFrame, NEW f, f = Head(wire)
  PROVE  /\ ~call.busy /\ wire # <<>> /\ wire' = Tail(wire) /\ UNCHANGED <<queue, sent>>
         /\ canardHandleRxFrame(f) /\ Foremost(Underway, f) /\ Valid(f)
         /\ f \in Frame /\ f.kind \in Kinds /\ f.no \in Nat \ {0} /\ f.index \in Nat \ {0}
         /\ f.size \in Nat \ {0} /\ f.index <= f.size /\ f.size = sent[f.kind][f.no]
         /\ upto[f.kind] < f.no /\ f.no <= Len(sent[f.kind])
         /\ tid(f) = f.no % Tids /\ tid(f) \in 0..(Tids - 1)
         /\ (tid(f) + 1) % Tids = (f.no + 1) % Tids /\ (f.no + 1) % Tids \in 0..(Tids - 1)
         /\ Tids \in Nat /\ Tids > 2
<1>1. /\ ~call.busy /\ wire # <<>> /\ wire' = Tail(wire) /\ UNCHANGED <<queue, sent>>
      /\ canardHandleRxFrame(f)
  BY DEF ReceiveFrame, txVars
<1>2. Foremost(Underway, f) /\ Valid(f) /\ f \in Frame
  BY <1>1, FrameTaken DEF TransferInv, Foremost
<1>3. f.kind \in Kinds /\ f.no \in Nat \ {0} /\ f.index \in Nat \ {0} /\ f.size \in Nat \ {0}
  <2>1. \A z \in Sizes : z \in Nat \ {0}
    BY TransferAssumption
  <2> QED BY <1>2, <2>1 DEF Frame
<1>4. Tids \in Nat /\ Tids > 2 /\ Tids > 1
  <2>1. Tids \in Nat /\ Tids > 2
    BY TransferAssumption
  <2> QED BY <2>1
<1>5. /\ f.no % Tids \in 0..(Tids - 1) /\ ((f.no % Tids) + 1) % Tids = (f.no + 1) % Tids
      /\ (f.no + 1) % Tids \in 0..(Tids - 1)
  BY <1>3, <1>4, Neighbours
<1> QED BY <1>1, <1>2, <1>3, <1>4, <1>5 DEF Valid, tid

\* What a frame does to the rest and to what is counted.
LEMMA Counted ==
  ASSUME TransferInv, ReceiveFrame, NEW f, f = Head(wire), mishaps \in Nat
  PROVE  /\ Aside(f)
         /\ \/ UNCHANGED <<upto, received>>
            \/ upto' = [upto EXCEPT ![f.kind] = f.no] /\ received' = received + 1
         /\ mishaps' = mishaps \/ mishaps' = mishaps + 1
<1>1. /\ ~call.busy /\ canardHandleRxFrame(f)
  BY Comes
<1>2. Aside(f)
  <2>1. ASSUME NEW s, NEW left, Keep(f, s, left), call' = call \/ (call'.busy /\ call'.kind = f.kind)
        PROVE  Aside(f)
    BY <2>1, KeptStates DEF Aside
  <2>2. \A n, x, b : Deliver(f, n, x, b) => call'.busy /\ call'.kind = f.kind
    BY DEF Deliver
  <2>3. CASE Ignored(f)
    BY <2>3 DEF Ignored, Aside, Known
  <2>4. CASE Refused(f)
    <3>1. Keep(f, Started(f), Left(f)) /\ call' = call
      BY <2>4 DEF Refused
    <3> QED BY <2>1, <3>1
  <2>5. CASE SingleFrame(f)
    <3>1. \E s : Keep(f, s, Left(f))
      BY <2>5 DEF SingleFrame
    <3>2. Deliver(f, f.no, <<Piece(f)>>, 0)
      BY <2>5 DEF SingleFrame
    <3> QED BY <2>1, <2>2, <3>1, <3>2
  <2>6. CASE Gathered(f)
    <3>1. (\E s, left : Keep(f, s, left)) /\ call' = call
      BY <2>6 DEF Gathered
    <3> QED BY <2>1, <3>1
  <2>7. CASE Completed(f)
    <3>1. \E s, left : Keep(f, s, left) /\ (call' = call \/ \E n, x, b : Deliver(f, n, x, b))
      BY <2>7, Zenon DEF Completed
    <3> QED BY <2>1, <2>2, <3>1
  <2> QED BY <1>1, <2>3, <2>4, <2>5, <2>6, <2>7 DEF canardHandleRxFrame
<1>3. mishaps' = mishaps \/ mishaps' = mishaps + 1
  BY <1>1 DEF canardHandleRxFrame, Ignored, Refused, SingleFrame, Gathered, Completed, Deliver
<1>4. \/ UNCHANGED <<upto, received>>
      \/ upto' = [upto EXCEPT ![f.kind] = f.no] /\ received' = received + 1
  <2>1. CASE UNCHANGED <<upto, received>>
    BY <2>1
  <2>2. CASE \E n, x, b : Deliver(f, n, x, b)
    <3>1. call'.busy /\ received' = received + 1
      BY <2>2 DEF Deliver
    <3>2. upto' = [upto EXCEPT ![f.kind] = f.no]
      BY <1>1, <3>1, Delivered
    <3> QED BY <3>1, <3>2
  <2>3. SingleFrame(f) => \E n, x, b : Deliver(f, n, x, b)
    BY DEF SingleFrame
  <2>4. Completed(f) => UNCHANGED <<upto, received>> \/ \E n, x, b : Deliver(f, n, x, b)
    BY Zenon DEF Completed
  <2>5. Ignored(f) \/ Refused(f) \/ Gathered(f) => UNCHANGED <<upto, received>>
    BY DEF Ignored, Refused, Gathered
  <2> QED BY <1>1, <2>1, <2>2, <2>3, <2>4, <2>5 DEF canardHandleRxFrame
<1> QED BY <1>2, <1>3, <1>4

\* The state a frame is handled in is that of its kind or a new one for its transfer.
LEMMA StartsAs ==
  ASSUME TransferInv, ReceiveFrame, NEW f, f = Head(wire), TidsFit
  PROVE  LET s == Started(f)
             t == states[f.kind]
         IN  /\ s.tid \in 0..(Tids - 1)
             /\ first(f) =>
                  \/ s.tid = tid(f) /\ s.toggle = 0
                  \/ /\ f.kind \in Known /\ ~Expects(f.kind, f.no) /\ s.seen
                     /\ s.tid = t.tid /\ s.toggle = t.toggle
                     /\ ForwardDistance(s.tid, tid(f)) \in {0, 1}
             /\ ~first(f) /\ f.kind \in Known =>
                  IF ~t.seen \/ timedOut(t)
                  THEN needRestart(Opened(f), f) /\ Opened(f) = t
                  ELSE ~needRestart(Opened(f), f) /\ s = t
<1> DEFINE c == f.kind
           o == Opened(f)
           s == Started(f)
           t == states[c]
<1>1. /\ ~call.busy /\ tid(f) = f.no % Tids /\ tid(f) \in 0..(Tids - 1) /\ f.no \in Nat
      /\ (tid(f) + 1) % Tids \in 0..(Tids - 1) /\ Tids \in Nat /\ Tids > 2
  BY Comes
<1>2. /\ needRestart(o, f) => s.tid = IF first(f) THEN tid(f) ELSE (tid(f) + 1) % Tids
      /\ needRestart(o, f) /\ first(f) => s.toggle = 0
      /\ ~needRestart(o, f) => s = o
  <2>1. o = [tid |-> o.tid, toggle |-> o.toggle, payload |-> o.payload, calc |-> o.calc, crc |-> o.crc,
             blocks |-> o.blocks, age |-> o.age, seen |-> o.seen]
    <3>1. c \in Known => t = [tid |-> t.tid, toggle |-> t.toggle, payload |-> t.payload, calc |-> t.calc,
                              crc |-> t.crc, blocks |-> t.blocks, age |-> t.age, seen |-> t.seen]
      <4>1. c \in Known => t \in RxState
        BY DEF TransferInv, StatesFit
      <4> HIDE DEF t
      <4> QED BY <4>1 DEF RxState
    <3> QED BY <3>1 DEF Opened, Found, NoState
  <2> HIDE DEF o
  <2>2. CASE needRestart(o, f)
    <3>1. s = [Released(o) EXCEPT !.tid = IF first(f) THEN tid(f) ELSE (tid(f) + 1) % Tids, !.toggle = 0]
      BY <2>2 DEF Started, o
    <3> HIDE DEF s
    <3> QED BY <2>1, <2>2, <3>1 DEF Released
  <2>3. CASE ~needRestart(o, f)
    <3>1. s = o
      BY <2>3 DEF Started, o
    <3> QED BY <2>3, <3>1
  <2> QED BY <2>2, <2>3
<1>3. CASE c \notin Known
  <2>1. ~o.seen /\ o.tid = 0
    BY <1>3 DEF Opened, Found, NoState
  <2>2. needRestart(o, f)
    BY <2>1 DEF needRestart
  <2> HIDE DEF o, s, t
  <2> QED BY <1>1, <1>2, <1>3, <2>2 DEF c, s, t
<1>4. CASE c \in Known
  <2>1. t \in RxState /\ t.tid \in 0..(Tids - 1)
    BY <1>4 DEF TransferInv, StatesFit, TidsFit
  <2>2. Found(f) = t
    BY <1>4 DEF Found
  <2> HIDE DEF t
  <2>3. /\ o.tid = t.tid /\ o.toggle = t.toggle /\ o.blocks = t.blocks /\ o.age = t.age
        /\ o.seen = t.seen /\ (~first(f) => o = t)
    BY <2>1, <2>2 DEF Opened, RxState
  <2>4. t.blocks \in Nat
    BY <2>1 DEF RxState
  <2>5. timedOut(o) <=> timedOut(t)
    BY <2>3 DEF timedOut
  <2>6. needRestart(o, f) <=>
          \/ ~t.seen \/ timedOut(t)
          \/ first(f) /\ (ForwardDistance(t.tid, tid(f)) > 1 \/ t.blocks > 0)
    BY <2>3, <2>5 DEF needRestart
  <2>7. Expects(c, f.no) <=> Welcomes(t, f.no)
    BY <1>1, <1>4 DEF Expects, NextState, t
  <2>8. ForwardDistance(t.tid, tid(f)) \in 0..(Tids - 1)
    BY <1>1, <2>1, Distances
  <2> HIDE DEF o, s
  <2>9. ASSUME first(f), ~needRestart(o, f), ~(s.tid = tid(f) /\ s.toggle = 0)
        PROVE  /\ ~Expects(c, f.no) /\ s.seen /\ s.tid = t.tid /\ s.toggle = t.toggle
               /\ ForwardDistance(s.tid, tid(f)) \in {0, 1}
    <3>1. s = o
      BY <1>2, <2>9
    <3>2. ~Welcomes(t, f.no)
      BY <1>1, <2>3, <2>6, <2>9, <3>1 DEF Welcomes
    <3>3. ForwardDistance(t.tid, tid(f)) \in {0, 1}
      BY <1>1, <2>6, <2>8, <2>9
    <3> QED BY <2>3, <2>6, <2>7, <2>9, <3>1, <3>2, <3>3
  <2>10. s.tid \in 0..(Tids - 1)
    BY <1>1, <1>2, <2>1, <2>3
  <2>11. first(f) => \/ s.tid = tid(f) /\ s.toggle = 0
                     \/ /\ ~Expects(c, f.no) /\ s.seen
                        /\ s.tid = t.tid /\ s.toggle = t.toggle
                        /\ ForwardDistance(s.tid, tid(f)) \in {0, 1}
    BY <1>2, <2>9
  <2>12. ~first(f) => IF ~t.seen \/ timedOut(t) THEN needRestart(o, f) /\ o = t
                                               ELSE ~needRestart(o, f) /\ s = t
    BY <1>2, <2>3, <2>6
  <2> QED BY <1>4, <2>10, <2>11, <2>12 DEF o, s, t
<1> QED BY <1>3, <1>4

\* Numbers in the states stay below the limit.
LEMMA NextTids ==
  ASSUME NEW s, s.tid \in 0..(Tids - 1),
         s = [tid |-> s.tid, toggle |-> s.toggle, payload |-> s.payload, calc |-> s.calc, crc |-> s.crc,
              blocks |-> s.blocks, age |-> s.age, seen |-> s.seen]
  PROVE  LET t == prepareForNextTransfer(s)
         IN  /\ t.tid = (s.tid + 1) % Tids /\ t.tid \in 0..(Tids - 1) /\ t.toggle = 0
             /\ t.payload = <<>> /\ t.blocks = s.blocks /\ t.seen = s.seen /\ t.age = s.age
             /\ t.calc = s.calc
<1>1. Tids \in Nat /\ Tids > 1
  <2>1. Tids \in Nat /\ Tids > 2
    BY TransferAssumption
  <2> QED BY <2>1
<1>2. (s.tid + 1) % Tids \in 0..(Tids - 1)
  BY <1>1, Neighbours
<1> QED BY <1>2 DEF prepareForNextTransfer

\* A state, by its fields.
IsState(s) ==
  s = [tid |-> s.tid, toggle |-> s.toggle, payload |-> s.payload, calc |-> s.calc, crc |-> s.crc,
       blocks |-> s.blocks, age |-> s.age, seen |-> s.seen]

\* Every reception state is the record of its fields.
LEMMA StateFields == \A s \in RxState : IsState(s)
BY DEF RxState, IsState

\* A piece more.
LEMMA PiecesGrow ==
  ASSUME NEW s \in RxState, NEW f, f.no \in Nat, f.index \in Nat
  PROVE  Append(s.calc, Piece(f)) \in Pieces
<1> DEFINE e == Piece(f)
           q == s.calc
           S == Nat \X Nat
<1>1. q \in Seq(S) /\ e \in S
  BY DEF RxState, Pieces, Piece
<1> HIDE DEF q, e, S
<1>2. Append(q, e) \in Seq(S)
  BY <1>1
<1> QED BY <1>2 DEF q, e, S, Pieces

\* What is gathered with a frame.
Plus(f, s) ==
  [s EXCEPT !.payload = Append(@, Piece(f)), !.calc = Append(@, Piece(f)),
            !.crc = IF first(f) THEN <<f.no, f.size>> ELSE @,
            !.seen = TRUE, !.age = IF first(f) THEN 0 ELSE @,
            !.blocks = BlocksFor(Len(s.payload) + 1), !.toggle = 1 - @]

\* The fields of a state that has gathered a frame.
LEMMA PlusFields ==
  ASSUME NEW f, NEW s \in RxState
  PROVE  LET t == Plus(f, s)
         IN  /\ t.tid = s.tid /\ t.toggle = 1 - s.toggle /\ t.seen
             /\ t.payload = Append(s.payload, Piece(f)) /\ t.calc = Append(s.calc, Piece(f))
             /\ t.crc = IF first(f) THEN <<f.no, f.size>> ELSE s.crc
             /\ t.payload # <<>>
<1>1. IsState(s)
  BY StateFields
<1>2. Append(s.payload, Piece(f)) # <<>>
  <2> DEFINE e == Piece(f)
             q == s.payload
  <2>1. q \in Seq(Nat \X Nat)
    BY DEF RxState, Pieces
  <2> HIDE DEF e, q
  <2>2. Len(Append(q, e)) = Len(q) + 1 /\ Len(q) \in Nat
    BY <2>1
  <2>3. Append(q, e) # <<>>
    BY <2>2
  <2> QED BY <2>3 DEF e, q
<1>3. s.payload \in Pieces
  BY DEF RxState
<1> QED BY <1>1, <1>2 DEF Plus, IsState

\* What was summed up with a frame of it, when all before it was.
LEMMA ContentGrows ==
  ASSUME NEW n \in Nat, NEW i \in Nat
  PROVE  Append(Content(n, i), <<n, i + 1>>) = Content(n, i + 1)
<1>1. Content(n, i) \in Seq(Nat \X Nat) /\ Len(Content(n, i)) = i
  BY DEF Content
<1>2. Content(n, i + 1) \in Seq(Nat \X Nat) /\ Len(Content(n, i + 1)) = i + 1
  BY DEF Content
<1>3. \A j \in 1..(i + 1) : Append(Content(n, i), <<n, i + 1>>)[j] = Content(n, i + 1)[j]
  BY <1>1 DEF Content
<1>4. Append(Content(n, i), <<n, i + 1>>) \in Seq(Nat \X Nat)
      /\ Len(Append(Content(n, i), <<n, i + 1>>)) = i + 1
  BY <1>1
<1> QED BY <1>2, <1>3, <1>4, SeqEqual

\* What the checksum covers begins with the first piece or is no transfer.
LEMMA NoContent ==
  ASSUME NEW q \in Pieces, NEW e \in Nat \X Nat, e[2] # 1, q # <<>> => q[1][2] # 1,
         NEW n, NEW z \in Nat
  PROVE  Append(q, e) # Content(n, z)
<1> DEFINE t == Append(q, e)
<1>1. q \in Seq(Nat \X Nat)
  BY DEF Pieces
<1>2. Len(t) >= 1 /\ t[1][2] # 1 /\ Len(t) \in Nat
  BY <1>1
<1> HIDE DEF t
<1>3. Len(Content(n, z)) = z /\ (z >= 1 => Content(n, z)[1] = <<n, 1>>)
  BY DEF Content
<1>4. t # Content(n, z)
  BY <1>2, <1>3
<1> QED BY <1>4 DEF t

\* Toggles alternate.
LEMMA Alternates ==
  ASSUME NEW i \in Nat
  PROVE  i % 2 \in {0, 1} /\ 1 - (i % 2) = (i + 1) % 2
OBVIOUS

\* A first frame without a mishap: a transfer of one frame is delivered; of a longer one
\* the state holds the first piece, or fails it if it was not expected.
LEMMA Begins ==
  ASSUME TransferInv, ReceiveFrame, NEW f, f = Head(wire), TidsFit, first(f),
         mishaps \in Nat, mishaps' = mishaps
  PROVE  /\ last(f) => /\ received' = received + 1
                       /\ Expects(f.kind, f.no) => Expects(f.kind, f.no + 1)'
         /\ ~last(f) => /\ UNCHANGED received
                        /\ \/ Gathering(f.kind, f.no, 1)'
                           \/ ~Expects(f.kind, f.no) /\ Failing(f.kind, f.no, 1)'
<1> DEFINE c == f.kind
           s == Started(f)
<1>1. /\ ~call.busy /\ sent' = sent /\ canardHandleRxFrame(f) /\ Foremost(Underway, f)
      /\ f.no \in Nat /\ f.size = sent[c][f.no] /\ f.index = 1
      /\ tid(f) = f.no % Tids /\ tid(f) \in 0..(Tids - 1)
      /\ (tid(f) + 1) % Tids = (f.no + 1) % Tids
  BY Comes DEF first
<1>2. toggle(f) = 0
  BY <1>1 DEF toggle
<1>3. ~Ignored(f) /\ ~Completed(f) /\ Handled(f)
  <2>1. ~Ignored(f)
    BY DEF Ignored
  <2>2. ~Completed(f)
    BY DEF Completed
  <2>3. Refused(f) \/ SingleFrame(f) \/ Gathered(f) => Handled(f)
    BY DEF Refused, SingleFrame, Gathered
  <2> QED BY <1>1, <2>1, <2>2, <2>3 DEF canardHandleRxFrame
<1>4. s \in RxState /\ s.calc = <<>>
  BY <1>1, <1>3, Starting DEF TransferInv
<1>5. /\ s.tid \in 0..(Tids - 1)
      /\ \/ s.tid = tid(f) /\ s.toggle = 0
         \/ /\ c \in Known /\ ~Expects(c, f.no) /\ s.seen
            /\ ForwardDistance(s.tid, tid(f)) \in {0, 1}
  BY StartsAs
<1> HIDE DEF s
<1>6. CASE last(f)
  <2>1. SingleFrame(f)
    BY <1>1, <1>3, <1>6 DEF canardHandleRxFrame, Refused, Gathered
  <2> DEFINE t == [s EXCEPT !.seen = TRUE, !.age = 0]
  <2>2. Keep(f, t, Left(f)) /\ Deliver(f, f.no, <<Piece(f)>>, 0)
    BY <2>1 DEF SingleFrame, s
  <2>3. IsState(t) /\ t.tid = s.tid
    <3>1. t \in RxState /\ t.tid = s.tid
      BY <1>4 DEF RxState
    <3> QED BY <3>1, StateFields
  <2> HIDE DEF t
  <2>4. c \in Known' /\ states'[c] = t /\ call'.busy /\ call'.kind = c /\ received' = received + 1
    BY <2>2, KeptStates DEF Deliver
  <2>5. ASSUME Expects(c, f.no)
        PROVE  Expects(c, f.no + 1)'
    <3>1. t.tid = tid(f)
      BY <1>5, <2>3, <2>5
    <3> DEFINE x == prepareForNextTransfer(t)
    <3>2. x.tid = (f.no + 1) % Tids /\ x.toggle = 0
      BY <1>1, <1>5, <2>3, <3>1, NextTids DEF IsState
    <3>3. NextState(c)' = x
      BY <2>4 DEF NextState, prepareForNextTransfer
    <3> HIDE DEF x
    <3> QED BY <3>2, <3>3 DEF Expects, Welcomes
  <2> QED BY <1>6, <2>4, <2>5
<1>7. CASE ~last(f)
  <2>1. Refused(f) \/ Gathered(f)
    BY <1>1, <1>3, <1>7 DEF canardHandleRxFrame, SingleFrame
  <2>2. CASE Refused(f)
    <3>1. /\ Keep(f, s, Left(f)) /\ call' = call /\ received' = received
          /\ toggle(f) # s.toggle \/ tid(f) # s.tid
      BY <2>2 DEF Refused, s
    <3>2. c \in Known' /\ states'[c] = s /\ ~call'.busy
      BY <1>1, <3>1, KeptStates
    <3>3. ~Expects(c, f.no) /\ s.seen /\ ForwardDistance(s.tid, tid(f)) \in {0, 1}
      BY <1>2, <1>5, <3>1
    <3>4. ForwardDistance(s.tid, tid(f)) = 0 => s.tid = tid(f) /\ s.toggle = 1 % 2
      <4>1. ForwardDistance(s.tid, tid(f)) = 0 => s.tid = tid(f)
        BY <1>1, <1>5, Distances
      <4>2. s.tid = tid(f) => s.toggle = 1
        BY <1>2, <1>4, <3>1 DEF RxState
      <4> QED BY <4>1, <4>2
    <3>5. Failing(c, f.no, 1)'
      BY <1>1, <1>4, <3>2, <3>3, <3>4 DEF Failing
    <3> QED BY <1>7, <3>1, <3>3, <3>5
  <2>3. CASE Gathered(f)
    <3> DEFINE t == Plus(f, s)
    <3>1. /\ \E left : Keep(f, t, left)
          /\ call' = call /\ received' = received /\ toggle(f) = s.toggle /\ tid(f) = s.tid
      BY <2>3 DEF Gathered, Plus, s
    <3>2. c \in Known' /\ states'[c] = t /\ ~call'.busy
      BY <1>1, <3>1, KeptStates
    <3>3. /\ t.tid = s.tid /\ t.toggle = 1 - s.toggle /\ t.seen /\ t.payload # <<>>
          /\ t.calc = Append(s.calc, Piece(f)) /\ t.crc = <<f.no, f.size>>
      BY <1>4, PlusFields
    <3>4. t.calc = Content(f.no, 1)
      <4>1. <<>> = Content(f.no, 0)
        BY DEF Content
      <4>2. Append(Content(f.no, 0), <<f.no, 0 + 1>>) = Content(f.no, 0 + 1)
        BY <1>1, ContentGrows
      <4>3. Piece(f) = <<f.no, 0 + 1>>
        BY <1>1 DEF Piece
      <4> QED BY <1>4, <3>3, <4>1, <4>2, <4>3
    <3> HIDE DEF t
    <3>5. t.toggle = 1 % 2
      BY <1>2, <3>1, <3>3
    <3>6. Gathering(c, f.no, 1)'
      BY <1>1, <3>1, <3>2, <3>3, <3>4, <3>5 DEF Gathering
    <3> QED BY <1>7, <3>1, <3>6
  <2> QED BY <2>1, <2>2, <2>3
<1> QED BY <1>6, <1>7

\* The frames that follow, without a mishap, where all before them were gathered.
LEMMA GoesOn ==
  ASSUME TransferInv, ReceiveFrame, NEW f, f = Head(wire), TidsFit, ~first(f),
         mishaps \in Nat, mishaps' = mishaps, Gathering(f.kind, f.no, f.index - 1)
  PROVE  /\ last(f) => received' = received + 1 /\ Expects(f.kind, f.no + 1)'
         /\ ~last(f) => UNCHANGED received /\ Gathering(f.kind, f.no, f.index)'
<1> DEFINE c == f.kind
           i == f.index - 1
           s == states[c]
<1>1. /\ ~call.busy /\ sent' = sent /\ canardHandleRxFrame(f)
      /\ f.no \in Nat /\ f.size = sent[c][f.no] /\ f.size \in Nat \ {0} /\ f.index \in Nat /\ f.index > 1
      /\ tid(f) = f.no % Tids /\ tid(f) \in 0..(Tids - 1)
      /\ (tid(f) + 1) % Tids = (f.no + 1) % Tids
  <2>1. f.index \in Nat \ {0} /\ f.index # 1
    BY Comes DEF first
  <2>2. f.index \in Nat /\ f.index > 1
    BY <2>1
  <2> QED BY <2>2, Comes
<1>2. /\ c \in Known /\ s.seen /\ s.tid = f.no % Tids /\ s.toggle = i % 2
      /\ s.calc = Content(f.no, i) /\ s.crc = <<f.no, f.size>> /\ s \in RxState
      /\ s.tid \in 0..(Tids - 1)
  BY <1>1 DEF Gathering, TransferInv, StatesFit, TidsFit
<1>3. i \in Nat /\ f.index = i + 1
  BY <1>1
<1>4. ~needRestart(Opened(f), f) /\ Started(f) = s
  <2>1. CASE timedOut(s)
    <3>1. needRestart(Opened(f), f) /\ Opened(f) = s
      BY <1>2, <2>1, StartsAs
    <3>2. Refused(f)
      BY <1>1, <1>2, <3>1 DEF canardHandleRxFrame, Ignored, SingleFrame, Gathered, Completed
    <3>3. mishaps' = mishaps + 1
      BY <2>1, <3>1, <3>2 DEF Refused
    <3> QED BY <3>3
  <2>2. CASE ~timedOut(s)
    BY <1>2, <2>2, StartsAs
  <2> QED BY <2>1, <2>2
<1>5. toggle(f) = s.toggle /\ tid(f) = s.tid
  <2>1. toggle(f) = i % 2
    BY DEF toggle
  <2> QED BY <1>1, <1>2, <2>1
<1> HIDE DEF s, i
<1>6. Gathered(f) \/ Completed(f)
  BY <1>1, <1>2, <1>4, <1>5 DEF canardHandleRxFrame, Ignored, SingleFrame, Refused
<1>7. Append(s.calc, Piece(f)) = Content(f.no, f.index)
  BY <1>1, <1>2, <1>3, ContentGrows DEF Piece
<1>8. CASE last(f)
  <2> DEFINE t == [s EXCEPT !.calc = Append(s.calc, Piece(f)), !.blocks = 0]
             x == prepareForNextTransfer(t)
  <2>1. Completed(f)
    BY <1>6, <1>8 DEF Gathered
  <2>2. s.crc # <<>> /\ Append(s.calc, Piece(f)) = Content(s.crc[1], s.crc[2])
    BY <1>2, <1>7, <1>8 DEF last
  <2>3. Keep(f, t, rxFree) /\ Deliver(f, s.crc[1], Append(s.payload, Piece(f)), s.blocks)
    BY <1>4, <2>1, <2>2 DEF Completed
  <2>4. c \in Known' /\ states'[c] = t /\ call'.busy /\ call'.kind = c /\ received' = received + 1
    BY <2>3, KeptStates DEF Deliver
  <2>5. IsState(t) /\ t.tid = s.tid
    <3>1. t \in RxState /\ t.tid = s.tid
      <4>1. Append(s.calc, Piece(f)) \in Pieces
        BY <1>1, <1>2, PiecesGrow
      <4> QED BY <1>2, <4>1 DEF RxState
    <3> QED BY <3>1, StateFields
  <2>6. NextState(c)' = x
    BY <2>4 DEF NextState, prepareForNextTransfer
  <2> HIDE DEF t
  <2>7. x.tid = (f.no + 1) % Tids /\ x.toggle = 0
    BY <1>1, <1>2, <2>5, NextTids DEF IsState
  <2> HIDE DEF x
  <2>8. Expects(c, f.no + 1)'
    BY <2>6, <2>7 DEF Expects, Welcomes
  <2> QED BY <1>8, <2>4, <2>8
<1>9. CASE ~last(f)
  <2> DEFINE t == Plus(f, s)
  <2>1. Gathered(f)
    BY <1>6, <1>9 DEF Completed
  <2>2. (\E left : Keep(f, t, left)) /\ call' = call /\ received' = received
    <3>1. (\E left : Keep(f, Plus(f, Started(f)), left)) /\ call' = call /\ received' = received
      BY <2>1 DEF Gathered, Plus
    <3> QED BY <1>4, <3>1
  <2>3. c \in Known' /\ states'[c] = t /\ ~call'.busy
    BY <1>1, <2>2, KeptStates
  <2>4. /\ t.tid = s.tid /\ t.toggle = 1 - s.toggle /\ t.seen /\ t.payload # <<>>
        /\ t.calc = Append(s.calc, Piece(f)) /\ t.crc = s.crc
    BY <1>2, PlusFields
  <2> HIDE DEF t
  <2>5. t.toggle = f.index % 2
    BY <1>2, <1>3, <2>4, Alternates
  <2>6. Gathering(c, f.no, f.index)'
    BY <1>1, <1>2, <1>7, <2>3, <2>4, <2>5 DEF Gathering
  <2> QED BY <1>9, <2>2, <2>6
<1> QED BY <1>8, <1>9

\* The frames that follow, without a mishap, where the first one failed: the transfer is
\* not delivered, and its last frame leaves a state that expects the next.
LEMMA GoesWrong ==
  ASSUME TransferInv, ReceiveFrame, NEW f, f = Head(wire), TidsFit, ~first(f),
         mishaps \in Nat, mishaps' = mishaps, Failing(f.kind, f.no, f.index - 1)
  PROVE  /\ UNCHANGED received
         /\ last(f) => Expects(f.kind, f.no + 1)'
         /\ ~last(f) => Failing(f.kind, f.no, f.index)'
<1> DEFINE c == f.kind
           i == f.index - 1
           s == states[c]
<1>1. /\ ~call.busy /\ sent' = sent /\ canardHandleRxFrame(f) /\ f \in Frame
      /\ f.no \in Nat /\ f.index \in Nat /\ f.index > 1
      /\ tid(f) = f.no % Tids /\ tid(f) \in 0..(Tids - 1)
      /\ (tid(f) + 1) % Tids = (f.no + 1) % Tids
  <2>1. f.index \in Nat \ {0} /\ f.index # 1
    BY Comes DEF first
  <2>2. f.index \in Nat /\ f.index > 1
    BY <2>1
  <2> QED BY <2>2, Comes
<1>2. CASE c \notin Known
  <2>1. ~Handled(f)
    BY <1>2 DEF Handled
  <2>2. Ignored(f)
    BY <1>1, <2>1 DEF canardHandleRxFrame, Refused, SingleFrame, Gathered, Completed
  <2>3. received' = received /\ c \notin Known'
    BY <1>2, <2>2 DEF Ignored, Known
  <2> QED BY <2>3 DEF Expects, Failing
<1>3. CASE c \in Known
  <2>1. /\ s.seen /\ s \in RxState /\ s.tid \in 0..(Tids - 1)
        /\ \/ ForwardDistance(s.tid, tid(f)) = 1
           \/ s.tid = tid(f) /\ s.toggle = i % 2 /\ (s.calc # <<>> => s.calc[1][2] # 1)
    BY <1>1, <1>3 DEF Failing, TransferInv, StatesFit, TidsFit
  <2>2. i \in Nat /\ f.index = i + 1 /\ toggle(f) = i % 2
    BY <1>1 DEF toggle
  <2>3. ~needRestart(Opened(f), f) /\ Started(f) = s
    <3>1. CASE timedOut(s)
      <4>1. needRestart(Opened(f), f) /\ Opened(f) = s
        BY <1>3, <3>1, StartsAs
      <4>2. Refused(f)
        BY <1>1, <1>3, <4>1 DEF canardHandleRxFrame, Ignored, SingleFrame, Gathered, Completed
      <4>3. mishaps' = mishaps + 1
        BY <3>1, <4>1, <4>2 DEF Refused
      <4> QED BY <4>3
    <3>2. CASE ~timedOut(s)
      BY <1>3, <2>1, <3>2, StartsAs
    <3> QED BY <3>1, <3>2
  <2> HIDE DEF s, i
  <2>4. Refused(f) \/ Gathered(f) \/ Completed(f)
    BY <1>1, <1>3 DEF canardHandleRxFrame, Ignored, SingleFrame
  <2>5. CASE ForwardDistance(s.tid, tid(f)) = 1
    <3>1. s.tid # tid(f) /\ ForwardDistance(s.tid, (f.no + 1) % Tids) > 1
      <4> DEFINE a == s.tid
      <4>1. a \in 0..(Tids - 1) /\ f.no \in Nat /\ tid(f) = f.no % Tids
        BY <1>1, <2>1
      <4>2. ForwardDistance(a, f.no % Tids) = 1
        BY <2>5, <4>1
      <4> HIDE DEF a
      <4>3. /\ ForwardDistance(a, f.no % Tids) = 0 <=> a = f.no % Tids
            /\ ForwardDistance(a, f.no % Tids) = 1 => ForwardDistance(a, (f.no + 1) % Tids) > 1
        BY <4>1, Distances, Zenon
      <4>4. a # f.no % Tids /\ ForwardDistance(a, (f.no + 1) % Tids) > 1
        BY <4>2, <4>3
      <4> QED BY <4>1, <4>4 DEF a
    <3>2. Refused(f)
      BY <2>3, <2>4, <3>1 DEF Gathered, Completed
    <3>3. Keep(f, s, Left(f)) /\ call' = call /\ received' = received
      BY <2>3, <3>2 DEF Refused
    <3>4. c \in Known' /\ states'[c] = s /\ ~call'.busy
      BY <1>1, <3>3, KeptStates
    <3>5. Failing(c, f.no, f.index)'
      BY <1>1, <2>1, <2>5, <3>4 DEF Failing
    <3>6. NextState(c)' = s
      BY <3>4 DEF NextState
    <3>7. Expects(c, f.no + 1)'
      BY <3>1, <3>6 DEF Expects, Welcomes
    <3> QED BY <3>3, <3>5, <3>7
  <2>6. CASE s.tid = tid(f) /\ s.toggle = i % 2 /\ (s.calc # <<>> => s.calc[1][2] # 1)
    <3>1. ~Refused(f)
      BY <2>2, <2>3, <2>6 DEF Refused
    <3>2. /\ s.calc \in Pieces /\ Piece(f) \in Nat \X Nat /\ Piece(f)[2] # 1
          /\ s.crc \in {<<>>} \union (Nat \X Nat)
      BY <1>1, <2>1 DEF RxState, Piece
    <3>3. CASE Gathered(f)
      <4> DEFINE t == Plus(f, s)
      <4>1. (\E left : Keep(f, t, left)) /\ call' = call /\ received' = received /\ ~last(f)
        <5>1. /\ \E left : Keep(f, Plus(f, Started(f)), left)
              /\ call' = call /\ received' = received /\ ~last(f)
          BY <3>3 DEF Gathered, Plus
        <5> QED BY <2>3, <5>1
      <4>2. c \in Known' /\ states'[c] = t /\ ~call'.busy
        BY <1>1, <4>1, KeptStates
      <4>3. /\ t.tid = s.tid /\ t.toggle = 1 - s.toggle /\ t.seen
            /\ t.calc = Append(s.calc, Piece(f))
        BY <2>1, PlusFields
      <4> HIDE DEF t
      <4>4. t.toggle = f.index % 2
        BY <2>2, <2>6, <4>3, Alternates
      <4>5. t.calc[1][2] # 1
        <5> DEFINE q == s.calc
                   e == Piece(f)
        <5>1. q \in Seq(Nat \X Nat) /\ e[2] # 1 /\ (q # <<>> => q[1][2] # 1) /\ t.calc = Append(q, e)
          BY <2>6, <3>2, <4>3 DEF Pieces
        <5> HIDE DEF q, e
        <5>2. Append(q, e)[1] = IF q = <<>> THEN e ELSE q[1]
          BY <5>1
        <5> QED BY <5>1, <5>2
      <4>6. Failing(c, f.no, f.index)'
        BY <1>1, <2>6, <4>2, <4>3, <4>4, <4>5 DEF Failing
      <4> QED BY <4>1, <4>6
    <3>4. CASE Completed(f)
      <4> DEFINE t == [s EXCEPT !.calc = Append(s.calc, Piece(f)), !.blocks = 0]
                 x == prepareForNextTransfer(t)
      <4>1. ~(s.crc # <<>> /\ Append(s.calc, Piece(f)) = Content(s.crc[1], s.crc[2]))
        <5> SUFFICES ASSUME s.crc # <<>>
                     PROVE  Append(s.calc, Piece(f)) # Content(s.crc[1], s.crc[2])
          OBVIOUS
        <5>1. s.crc[2] \in Nat
          BY <3>2
        <5> QED BY <2>6, <3>2, <5>1, NoContent
      <4>2. Keep(f, x, rxFree + s.blocks) /\ call' = call /\ received' = received /\ last(f)
        BY <2>3, <3>4, <4>1 DEF Completed
      <4>3. c \in Known' /\ states'[c] = x /\ ~call'.busy
        BY <1>1, <4>2, KeptStates
      <4>4. IsState(t) /\ t.tid = s.tid
        <5>1. Append(s.calc, Piece(f)) \in Pieces
          BY <1>1, <2>1, PiecesGrow
        <5>2. t \in RxState /\ t.tid = s.tid
          BY <2>1, <5>1 DEF RxState
        <5> QED BY <5>2, StateFields
      <4> HIDE DEF t
      <4>5. x.tid = (f.no + 1) % Tids /\ x.toggle = 0
        BY <1>1, <2>1, <2>6, <4>4, NextTids DEF IsState
      <4> HIDE DEF x
      <4>6. NextState(c)' = x
        BY <4>3 DEF NextState
      <4>7. Expects(c, f.no + 1)'
        BY <4>5, <4>6 DEF Expects, Welcomes
      <4> QED BY <4>2, <4>7
    <3> QED BY <2>4, <3>1, <3>3, <3>4
  <2> QED BY <2>1, <2>5, <2>6
<1> QED BY <1>2, <1>3

\* A frame leaves numbers below the limit in the states.
LEMMA TidsKept ==
  ASSUME TransferInv, ReceiveFrame, TidsFit
  PROVE  TidsFit'
<1> DEFINE f == Head(wire)
           s == Started(f)
<1>1. canardHandleRxFrame(f) /\ f \in Frame
  BY Comes
<1>2. s.tid \in 0..(Tids - 1)
  BY StartsAs
<1>3. Handled(f) => s \in RxState
  BY Comes, Starting DEF TransferInv
<1>4. ASSUME NEW t, NEW left, Keep(f, t, left), t.tid \in 0..(Tids - 1)
      PROVE  TidsFit'
  <2> HIDE DEF f
  <2>1. /\ Known' = Known \union {f.kind} /\ states'[f.kind] = t
        /\ \A k \in Known : k # f.kind => states'[k] = states[k]
    BY <1>4, KeptStates
  <2> QED BY <1>4, <2>1 DEF TidsFit
<1> HIDE DEF f, s
<1>5. ASSUME NEW x \in 0..(Tids - 1)
      PROVE  (x + 1) % Tids \in 0..(Tids - 1)
  <2>1. Tids \in Nat /\ Tids > 2
    BY TransferAssumption
  <2>2. Tids > 1 /\ x \in Nat
    BY <2>1
  <2> QED BY <2>1, <2>2, Neighbours
<1>6. CASE Ignored(f)
  BY <1>6 DEF Ignored, TidsFit, Known
<1>7. CASE Refused(f)
  <2>1. Keep(f, s, Left(f))
    BY <1>7 DEF Refused, s
  <2> QED BY <1>2, <1>4, <2>1
<1>8. CASE SingleFrame(f)
  <2>1. Keep(f, [s EXCEPT !.seen = TRUE, !.age = 0], Left(f)) /\ Handled(f)
    BY <1>8 DEF SingleFrame, s
  <2>2. [s EXCEPT !.seen = TRUE, !.age = 0].tid = s.tid
    BY <1>3, <2>1 DEF RxState
  <2> QED BY <1>2, <1>4, <2>1, <2>2
<1>9. CASE Gathered(f)
  <2> DEFINE age == IF first(f) THEN 0 ELSE s.age
             t == [Released(s) EXCEPT !.seen = TRUE, !.age = age]
             x == prepareForNextTransfer([Released(s) EXCEPT
                          !.seen = TRUE, !.age = IF first(f) THEN 0 ELSE @])
  <2>1. /\ Handled(f)
        /\ (\E left : Keep(f, Plus(f, s), left)) \/ (\E left : Keep(f, x, left))
    BY <1>9 DEF Gathered, Plus, s
  <2>2. s \in RxState
    BY <1>3, <2>1
  <2>3. Plus(f, s).tid = s.tid
    BY <2>2, PlusFields
  <2>4. x.tid = (s.tid + 1) % Tids
    BY <2>2 DEF prepareForNextTransfer, Released, RxState
  <2> HIDE DEF x
  <2>5. x.tid \in 0..(Tids - 1) /\ Plus(f, s).tid \in 0..(Tids - 1)
    BY <1>2, <1>5, <2>3, <2>4
  <2> QED BY <1>4, <2>1, <2>5
<1>10. CASE Completed(f)
  <2> DEFINE t == [s EXCEPT !.calc = Append(s.calc, Piece(f)), !.blocks = 0]
             x == prepareForNextTransfer(t)
  <2>1. /\ Handled(f)
        /\ (\E left : Keep(f, t, left)) \/ (\E left : Keep(f, x, left))
    BY <1>10, Zenon DEF Completed, s
  <2>2. s \in RxState
    BY <1>3, <2>1
  <2>3. t.tid = s.tid
    BY <2>2 DEF RxState
  <2>4. x.tid = (s.tid + 1) % Tids
    BY <2>2 DEF prepareForNextTransfer, RxState
  <2> HIDE DEF x, t
  <2>5. x.tid \in 0..(Tids - 1) /\ t.tid \in 0..(Tids - 1)
    BY <1>2, <1>5, <2>3, <2>4
  <2> QED BY <1>4, <2>1, <2>5
<1> QED BY <1>1, <1>6, <1>7, <1>8, <1>9, <1>10 DEF canardHandleRxFrame

\* A frame that is taken off the wire keeps the account.
LEMMA ReceivesCount ==
  ASSUME TransferInv, NEW w, NEW q, NEW r, LossInv(w, q, r), ReceiveFrame,
         NEW f, f = Head(wire)
  PROVE  Accounting'
<1>1. LossInv(w, q, r)
  OBVIOUS
<1> DEFINE c == f.kind
           o == f.no
           P == <<c, o>>
<1>2. /\ ~call.busy /\ wire # <<>> /\ wire' = Tail(wire) /\ UNCHANGED <<queue, sent>>
      /\ Foremost(Underway, f) /\ Valid(f)
      /\ f \in Frame /\ c \in Kinds /\ o \in Nat \ {0} /\ f.index \in Nat \ {0}
      /\ f.size \in Nat \ {0} /\ f.index <= f.size /\ f.size = sent[c][o]
      /\ upto[c] < o /\ o <= Len(sent[c])
  BY Comes
<1>3. TransferTypes /\ Lines /\ TidsFit /\ Tallied(w, q, r) /\ Accounted(w, q, r) /\ Prepared(w, q)
      /\ Owed(w, q)
  BY <1>1 DEF TransferInv, LossInv
<1>4. /\ mishaps \in Nat /\ IsFiniteSet(w) /\ IsFiniteSet(q) /\ IsFiniteSet(r)
      /\ Cardinality(r) = received /\ Cardinality(w) + Cardinality(q) <= 2 * mishaps
      /\ Cardinality(w) \in Nat /\ Cardinality(q) \in Nat /\ received \in Nat
  <2>1. /\ mishaps \in Nat /\ IsFiniteSet(w) /\ IsFiniteSet(q) /\ IsFiniteSet(r)
        /\ Cardinality(r) = received /\ Cardinality(w) + Cardinality(q) <= 2 * mishaps
    BY <1>3 DEF Tallied
  <2> QED BY <2>1, FS_CardinalityType
<1>5. TidsFit'
  BY <1>3, TidsKept
<1>6. /\ Aside(f)
      /\ \/ UNCHANGED <<upto, received>>
         \/ upto' = [upto EXCEPT ![c] = o] /\ received' = received + 1
      /\ mishaps' = mishaps \/ mishaps' = mishaps + 1
  BY <1>4, Counted
<1>7. \A k \in Kinds : Len(sent[k]) \in Nat /\ upto[k] \in Nat
  BY <1>3, Counts
<1>8. PICK d : /\ IsFiniteSet(d) /\ Cardinality(d) = received' /\ r \subseteq d
               /\ received' = received + 1 => P \in d
               /\ \A k, n : <<k, n>> \in d => k \in Kinds /\ n \in 1..upto'[k]
  <2>1. \A k, n : <<k, n>> \in r => k \in Kinds /\ n \in 1..upto[k]
    BY <1>3 DEF Tallied
  <2>2. CASE UNCHANGED <<upto, received>>
    <3>1. /\ IsFiniteSet(r) /\ Cardinality(r) = received' /\ r \subseteq r
          /\ received' # received + 1
          /\ \A k, n : <<k, n>> \in r => k \in Kinds /\ n \in 1..upto'[k]
      BY <1>4, <2>1, <2>2
    <3> QED BY <3>1
  <2>3. CASE upto' = [upto EXCEPT ![c] = o] /\ received' = received + 1
    <3> DEFINE d == r \union {P}
    <3>2. P \notin r
      BY <1>2, <1>7, <2>1
    <3>3. IsFiniteSet(d) /\ Cardinality(d) = received + 1
      BY <1>4, <3>2, FS_AddElement
    <3>4. upto'[c] = o /\ \A k \in Kinds : k # c => upto'[k] = upto[k]
      BY <1>2, <1>3, <2>3 DEF TransferTypes
    <3>5. ASSUME NEW k, NEW n, <<k, n>> \in d
          PROVE  k \in Kinds /\ n \in 1..upto'[k]
      <4>1. CASE <<k, n>> \in r
        <5>1. k \in Kinds /\ n \in 1..upto[k] /\ upto[k] \in Nat
          BY <1>7, <2>1, <4>1
        <5>2. k = c => upto[k] < o
          BY <1>2
        <5> QED BY <1>2, <3>4, <5>1, <5>2
      <4>2. CASE <<k, n>> = P
        BY <1>2, <3>4, <4>2
      <4> QED BY <3>5, <4>1, <4>2
    <3>6. r \subseteq d /\ P \in d
      OBVIOUS
    <3> HIDE DEF d
    <3> QED BY <2>3, <3>3, <3>5, <3>6
  <2> QED BY <1>6, <2>2, <2>3
<1>9. \A k, n : <<k, n>> \in w => k \in Kinds /\ n \in 1..Len(sent[k])
  BY <1>3 DEF Tallied
<1>12. ASSUME NEW v, NEW p, Tallied(v, p, d)', w \subseteq v, P \in v,
              \A a \in v : a \in w \/ a = P,
              \A a \in q : a \in p \/ \E m \in 1..(o - 1) : a = <<c, m>>,
              Expects(c, o + 1)' \/ Owing(p, c, o + 1), P \in p \/ last(f)
       PROVE  Accounting'
  <2>1. Settles(w, q, r, f, v, p, d)
    BY <1>8, <1>12 DEF Settles
  <2> QED BY <1>1, <1>2, <1>3, <1>5, <1>6, <2>1, FrameSettled
<1>10. CASE P \in w \/ mishaps' = mishaps + 1
  <2>0. PICK h : /\ IsFiniteSet(h) /\ Cardinality(h) = mishaps' - mishaps /\ h \subseteq {P}
                 /\ mishaps' # mishaps => P \in h
    <3>1. CASE mishaps' = mishaps
      <4>1. IsFiniteSet({}) /\ Cardinality({}) = mishaps' - mishaps /\ {} \subseteq {P}
        BY <1>4, <3>1, FS_EmptySet
      <4> QED BY <3>1, <4>1
    <3>2. CASE mishaps' # mishaps
      <4>1. IsFiniteSet({P}) /\ Cardinality({P}) = 1
        BY FS_Singleton
      <4>2. mishaps' - mishaps = 1
        BY <1>4, <1>6, <3>2
      <4> QED BY <4>1, <4>2
    <3> QED BY <3>1, <3>2
  <2>12. PICK v : v = w \union h
    OBVIOUS
  <2>13. PICK p : p = q \union h
    OBVIOUS
  <2>1. P \in v /\ P \in p
    <3>1. CASE mishaps' = mishaps
      <4>1. P \in w
        BY <1>4, <1>10, <3>1
      <4>2. f \in Underway /\ o <= o
        BY <1>2 DEF Foremost
      <4> QED BY <1>3, <2>12, <2>13, <4>1, <4>2 DEF Owed
    <3>2. CASE mishaps' # mishaps
      BY <2>0, <2>12, <2>13, <3>2
    <3> QED BY <3>1, <3>2
  <2>2. Tallied(v, p, d)'
    <3>1. IsFiniteSet(h) /\ Cardinality(h) = mishaps' - mishaps
      BY <2>0
    <3> DEFINE j == Cardinality(w)
               l == Cardinality(q)
               e == Cardinality(h)
               g == Cardinality(v)
               t == Cardinality(p)
    <3>2. IsFiniteSet(v) /\ IsFiniteSet(p) /\ g <= j + e /\ t <= l + e
          /\ g \in Nat /\ t \in Nat /\ e \in Nat
      BY <1>4, <2>12, <2>13, <3>1, Joined
    <3>3. \A k, n : <<k, n>> \in v => k \in Kinds /\ n \in 1..Len(sent'[k])
      <4>1. c \in Kinds /\ o \in 1..Len(sent[c]) /\ sent' = sent
        BY <1>2, <1>7
      <4> QED BY <1>9, <2>0, <2>12, <4>1
    <3>4. j + l <= 2 * mishaps /\ j \in Nat /\ l \in Nat /\ e = mishaps' - mishaps
      BY <1>4, <3>1
    <3>5. mishaps' \in Nat /\ mishaps \in Nat
      BY <1>4, <1>6
    <3> HIDE DEF j, l, e, g, t
    <3>6. g + t <= 2 * mishaps'
      <4> DEFINE x == mishaps
                 y == mishaps'
      <4>1. y \in Nat /\ x \in Nat /\ j + l <= 2 * x /\ e = y - x
        BY <3>4, <3>5
      <4> HIDE DEF x, y
      <4>2. g + t <= 2 * y
        BY <3>2, <3>4, <4>1
      <4> QED BY <4>2 DEF y
    <3> QED BY <1>8, <3>2, <3>3, <3>5, <3>6 DEF Tallied, g, t
  <2>3. \A a \in v : a \in w \/ a = P
    BY <2>0, <2>12
  <2>4. Owing(p, c, o + 1)
    <3>1. o \in 1..((o + 1) - 1)
      BY <1>2
    <3> QED BY <2>1, <3>1 DEF Owing
  <2>5. w \subseteq v /\ \A a \in q : a \in p
    BY <2>12, <2>13
  <2> QED BY <1>12, <2>1, <2>2, <2>3, <2>4, <2>5
<1>11. CASE P \notin w /\ mishaps' = mishaps
  <2>1. PICK i \in Nat : f.index = i + 1 /\ InHand(q, c, o, i)
    BY <1>1, <1>2, <1>3, <1>11, InTurn
  <2>2. Tallied(w, q, d)'
    BY <1>2, <1>4, <1>8, <1>9, <1>11 DEF Tallied
  <2>3. ASSUME \/ last(f) /\ P \in d
               \/ ~last(f) /\ Gathering(c, o, f.index)'
               \/ ~last(f) /\ Owing(q, c, o) /\ Failing(c, o, f.index)',
               ~last(f) \/ Expects(c, o + 1)' \/ Owing(q, c, o + 1)
        PROVE  Accounting'
    <3>1. Settles(w, q, r, f, w, q, d)
      BY <1>8, <1>11, <2>2, <2>3 DEF Settles
    <3> QED BY <1>1, <1>2, <1>3, <1>5, <1>6, <3>1, FrameSettled
  <2>4. received' = received + 1 => P \in d
    BY <1>8
  <2>5. Owing(q, c, o) => Owing(q, c, o + 1)
    <3>1. 1..(o - 1) \subseteq 1..((o + 1) - 1)
      BY <1>2
    <3> QED BY <3>1 DEF Owing
  <2>6. CASE first(f)
    <3>1. Expects(c, o) \/ Owing(q, c, o)
      <4>1. o \in 1..(Len(sent[c]) + 1)
        BY <1>2, <1>7
      <4>2. 1 \in Ahead(Underway, c, o)
        BY <1>2, <2>6 DEF Ahead, Foremost, first
      <4>3. Ahead(Underway, c, o - 1) = {}
        <5>1. \A g \in Underway : g.kind = c => g.no # o - 1
          BY <1>2 DEF Foremost
        <5> QED BY <5>1 DEF Ahead
      <4> QED BY <1>2, <1>3, <1>11, <4>1, <4>2, <4>3 DEF Prepared, Untouched
    <3>2. /\ last(f) => /\ received' = received + 1
                        /\ Expects(c, o) => Expects(c, o + 1)'
          /\ ~last(f) => \/ Gathering(c, o, 1)'
                         \/ ~Expects(c, o) /\ Failing(c, o, 1)'
      BY <1>3, <1>4, <1>11, <2>6, Begins
    <3>3. f.index = 1
      BY <2>6 DEF first
    <3> QED BY <2>3, <2>4, <2>5, <3>1, <3>2, <3>3
  <2>7. CASE ~first(f)
    <3>1. i > 0 /\ i = f.index - 1
      BY <2>1, <2>7 DEF first
    <3>2. Gathering(c, o, i) \/ (Owing(q, c, o) /\ Failing(c, o, i))
      BY <2>1, <3>1 DEF InHand
    <3>3. CASE Gathering(c, o, i)
      <4>1. /\ last(f) => received' = received + 1 /\ Expects(c, o + 1)'
            /\ ~last(f) => Gathering(c, o, f.index)'
        BY <1>3, <1>4, <1>11, <2>7, <3>1, <3>3, GoesOn
      <4> QED BY <2>3, <2>4, <4>1
    <3>4. CASE Owing(q, c, o) /\ Failing(c, o, i)
      <4>1. /\ received' = received
            /\ last(f) => Expects(c, o + 1)'
            /\ ~last(f) => Failing(c, o, f.index)'
        BY <1>3, <1>4, <1>11, <2>7, <3>1, <3>4, GoesWrong
      <4>2. CASE ~last(f)
        BY <2>3, <3>4, <4>1, <4>2
      <4>3. CASE last(f)
        <5>1. PICK m \in 1..(o - 1) : <<c, m>> \in q
          BY <3>4 DEF Owing
        <5>4. PICK v : v = w \union {P}
          OBVIOUS
        <5>5. PICK p : p = q \ {<<c, m>>}
          OBVIOUS
        <5>2. Tallied(v, p, d)'
          <6>1. IsFiniteSet(v) /\ Cardinality(v) = Cardinality(w) + 1
            BY <1>4, <1>11, <5>4, FS_AddElement
          <6>2. IsFiniteSet(p) /\ Cardinality(p) = Cardinality(q) - 1
            BY <1>4, <5>1, <5>5, FS_RemoveElement
          <6>3. \A k, n : <<k, n>> \in v => k \in Kinds /\ n \in 1..Len(sent'[k])
            <7>1. c \in Kinds /\ o \in 1..Len(sent[c]) /\ sent' = sent
              BY <1>2, <1>7
            <7> QED BY <1>9, <5>4, <7>1
          <6>4. Cardinality(v) + Cardinality(p) <= 2 * mishaps'
            BY <1>4, <1>11, <6>1, <6>2
          <6> QED BY <1>4, <1>8, <1>11, <6>1, <6>2, <6>3, <6>4 DEF Tallied
        <5>3. /\ w \subseteq v /\ P \in v /\ \A a \in v : a \in w \/ a = P
              /\ \A a \in q : a \in p \/ \E j \in 1..(o - 1) : a = <<c, j>>
          BY <5>1, <5>4, <5>5
        <5> QED BY <1>12, <4>1, <4>3, <5>2, <5>3
      <4> QED BY <4>2, <4>3
    <3> QED BY <3>2, <3>3, <3>4
  <2> QED BY <2>6, <2>7
<1> QED BY <1>4, <1>6, <1>10, <1>11

\* What the states say of a transfer stays while they do.
LEMMA ReadingsSame ==
  ASSUME UNCHANGED <<states, call, sent>>, NEW k, NEW n, NEW i
  PROVE  /\ Expects(k, n)' <=> Expects(k, n)
         /\ Gathering(k, n, i)' <=> Gathering(k, n, i)
         /\ Failing(k, n, i)' <=> Failing(k, n, i)
<1>1. Known' = Known
  BY DEF Known
<1>2. Expects(k, n)' <=> Expects(k, n)
  BY <1>1 DEF Expects, NextState, Welcomes, timedOut
<1>3. Gathering(k, n, i)' <=> Gathering(k, n, i)
  BY <1>1 DEF Gathering
<1>4. Failing(k, n, i)' <=> Failing(k, n, i)
  BY <1>1 DEF Failing
<1> QED BY <1>2, <1>3, <1>4

\* Frames that are lost and nothing else.
LEMMA FramesLost ==
  ASSUME TransferInv, NEW w, NEW q, NEW r, LossInv(w, q, r),
         UNCHANGED <<states, call, sent, upto, received>>,
         NEW h, IsFiniteSet(h), mishaps' \in Nat, Cardinality(h) <= mishaps' - mishaps,
         Underway' \subseteq Underway,
         \A f \in Underway : f \in Underway' \/ <<f.kind, f.no>> \in h,
         \A a \in h : \E f \in Underway : a = <<f.kind, f.no>>
  PROVE  Accounting'
<1>1. TransferTypes /\ Lines /\ TidsFit
  BY DEF TransferInv, LossInv
<1>2. TidsFit'
  BY <1>1 DEF TidsFit, Known
<1>3. \A k, n : <<k, n>> \in h => k \in Kinds /\ n \in 1..Len(sent[k])
  <2> SUFFICES ASSUME NEW f \in Underway
               PROVE  f.kind \in Kinds /\ f.no \in 1..Len(sent[f.kind])
    OBVIOUS
  <2>1. Valid(f) /\ f.kind \in Kinds /\ f.no \in Nat \ {0}
    BY <1>1 DEF Lines, Valid, Frame
  <2>2. Len(sent[f.kind]) \in Nat
    BY <1>1, <2>1, Counts
  <2> QED BY <2>1, <2>2 DEF Valid
<1>4. \A k, n, i : /\ Expects(k, n) => Expects(k, n)'
                   /\ Gathering(k, n, i) => Gathering(k, n, i)'
                   /\ Failing(k, n, i) => Failing(k, n, i)'
  BY ReadingsSame
<1> QED BY <1>1, <1>2, <1>3, <1>4, LossKept

\* The bus loses a frame.
LEMMA LossesCount ==
  ASSUME TransferInv, NEW w, NEW q, NEW r, LossInv(w, q, r), FrameLost
  PROVE  Accounting'
<1>1. TransferTypes /\ mishaps \in Nat
  BY DEF TransferInv, LossInv, Tallied
<1>2. PICK i \in 1..Len(wire) : wire' = RemoveAt(wire, i)
  BY DEF FrameLost
<1>3. wire \in Seq(Frame) /\ Len(wire) \in Nat
  BY <1>1 DEF TransferTypes
<1>4. wire' \in Seq(Frame) /\ Without(wire', wire, i)
  BY <1>2, <1>3, Removed DEF RemoveAt
<1>5. PICK g \in Underway : g = wire[i]
  BY DEF Underway
<1>6. /\ UNCHANGED <<states, call, sent, upto, received, queue>>
      /\ mishaps' = mishaps + 1
  BY DEF FrameLost, txVars, rxVars, history
<1>7. ASSUME NEW j \in 1..Len(wire')
      PROVE  \E m \in 1..Len(wire) : wire'[j] = wire[m]
  <2>1. j \in 1..Len(wire) /\ j + 1 \in 1..Len(wire)
    BY <1>3, <1>4 DEF Without
  <2>2. wire'[j] = wire[j] \/ wire'[j] = wire[j + 1]
    BY <1>3, <1>4 DEF Without
  <2> QED BY <2>1, <2>2
<1>8. Underway' \subseteq Underway
  BY <1>6, <1>7 DEF Underway
<1>9. ASSUME NEW m \in 1..Len(wire), m # i
      PROVE  \E j \in 1..Len(wire') : wire'[j] = wire[m]
  <2>1. CASE m < i
    <3>1. m \in 1..(Len(wire) - 1) /\ m \in 1..Len(wire')
      BY <1>3, <1>4, <2>1 DEF Without
    <3> QED BY <1>4, <2>1, <3>1 DEF Without
  <2>2. CASE m > i
    <3>1. m - 1 \in 1..(Len(wire) - 1) /\ m - 1 \in 1..Len(wire') /\ ~(m - 1 < i) /\ (m - 1) + 1 = m
      BY <1>3, <1>4, <2>2 DEF Without
    <3>2. wire'[m - 1] = wire[m]
      BY <1>4, <3>1 DEF Without
    <3> QED BY <3>1, <3>2
  <2> QED BY <1>3, <1>9, <2>1, <2>2
<1>10. \A f \in Underway : f \in Underway' \/ f = g
  BY <1>5, <1>6, <1>9 DEF Underway
<1> DEFINE P == <<g.kind, g.no>>
<1>11. IsFiniteSet({P}) /\ Cardinality({P}) = 1
  BY FS_Singleton
<1>12. mishaps' \in Nat /\ Cardinality({P}) <= mishaps' - mishaps
  BY <1>1, <1>6, <1>11
<1>13. /\ \A f \in Underway : f \in Underway' \/ <<f.kind, f.no>> \in {P}
       /\ \A a \in {P} : \E f \in Underway : a = <<f.kind, f.no>>
  BY <1>10
<1> HIDE DEF P
<1> QED BY <1>6, <1>8, <1>11, <1>12, <1>13, FramesLost

\* What a function makes of some numbers is no more than they are.
LEMMA ImageBound ==
  ASSUME NEW a \in Nat, NEW b \in Nat, a <= b, NEW g
  PROVE  /\ IsFiniteSet({g[j] : j \in (a + 1)..b})
         /\ Cardinality({g[j] : j \in (a + 1)..b}) <= b - a
<1> DEFINE S == (a + 1)..b
           T == {g[j] : j \in S}
           F == [j \in S |-> g[j]]
<1>1. F \in Surjection(S, T)
  BY DEF Surjection, Range
<1>2. IsFiniteSet(S) /\ Cardinality(S) = b - a
  <2>1. a + 1 \in Int /\ b \in Int
    OBVIOUS
  <2>2. IsFiniteSet(S) /\ Cardinality(S) = IF a + 1 > b THEN 0 ELSE b - (a + 1) + 1
    BY <2>1, FS_Interval
  <2> QED BY <2>2
<1> HIDE DEF F, T
<1>3. IsFiniteSet(T) /\ Cardinality(T) <= Cardinality(S)
  BY <1>1, <1>2, FS_Surjection
<1> HIDE DEF S
<1>4. IsFiniteSet(T) /\ Cardinality(T) <= b - a
  BY <1>2, <1>3
<1> QED BY <1>4 DEF T, S

\* Frames go to the driver: those it has no room for are lost.
LEMMA PacketsCount ==
  ASSUME TransferInv, NEW w, NEW q, NEW r, LossInv(w, q, r), enqueuePackets
  PROVE  Accounting'
<1> DEFINE room == DriverSize - Len(wire)
           fit  == IF Len(queue) <= room THEN Len(queue) ELSE room
           sub == SubSeq(queue, 1, fit)
<1>1. TransferTypes /\ mishaps \in Nat
  BY DEF TransferInv, LossInv, Tallied
<1>2. /\ wire' = wire \o sub /\ queue' = <<>> /\ mishaps' = mishaps + Len(queue) - fit
      /\ UNCHANGED <<states, call, sent, upto, received>>
  BY DEF enqueuePackets, rxVars, history
<1>3. /\ wire \in Seq(Frame) /\ queue \in Seq(Frame) /\ Len(wire) \in Nat /\ Len(queue) \in Nat
      /\ fit \in Int /\ fit <= Len(queue)
  <2>1. wire \in Seq(Frame) /\ queue \in Seq(Frame)
    BY <1>1 DEF TransferTypes
  <2>2. DriverSize \in Nat
    BY TransferAssumption
  <2> QED BY <2>1, <2>2
<1> HIDE DEF fit
<1>4. /\ sub \in Seq(Frame) /\ Len(sub) \in Nat /\ Len(sub) <= Len(queue) /\ fit <= Len(sub)
      /\ \A j \in 1..Len(sub) : sub[j] = queue[j]
  <2>1. CASE fit >= 1
    BY <1>3, <2>1, SubSeqProperties
  <2>2. CASE ~(fit >= 1)
    <3>1. sub = <<>>
      BY <1>3, <2>2
    <3> HIDE DEF sub
    <3> QED BY <1>3, <2>2, <3>1
  <2> QED BY <2>1, <2>2
<1> HIDE DEF sub
<1>5. /\ wire' \in Seq(Frame) /\ Len(wire') = Len(wire) + Len(sub)
      /\ \A j \in 1..Len(wire') : wire'[j] = IF j <= Len(wire) THEN wire[j] ELSE sub[j - Len(wire)]
  BY <1>2, <1>3, <1>4
<1>6. ASSUME NEW j \in 1..Len(wire')
      PROVE  wire'[j] \in Underway
  <2>1. CASE j <= Len(wire)
    <3>1. j \in 1..Len(wire) /\ wire'[j] = wire[j]
      BY <1>3, <1>5, <2>1
    <3> QED BY <3>1 DEF Underway
  <2>2. CASE j > Len(wire)
    <3>1. j - Len(wire) \in 1..Len(sub) /\ wire'[j] = sub[j - Len(wire)]
      BY <1>3, <1>4, <1>5, <2>2
    <3>2. j - Len(wire) \in 1..Len(queue) /\ wire'[j] = queue[j - Len(wire)]
      BY <1>3, <1>4, <3>1
    <3> QED BY <3>2 DEF Underway
  <2> QED BY <1>3, <1>5, <2>1, <2>2
<1>7. Underway' \subseteq Underway
  <2>1. \A g \in Underway' : \E j \in 1..Len(wire') : g = wire'[j]
    BY <1>2 DEF Underway
  <2> QED BY <1>6, <2>1
<1>8. ASSUME NEW j \in 1..Len(wire)
      PROVE  \E m \in 1..Len(wire') : wire'[m] = wire[j]
  <2>1. j \in 1..Len(wire') /\ j <= Len(wire)
    BY <1>3, <1>4, <1>5
  <2> QED BY <1>5, <2>1
<1>9. ASSUME NEW j \in 1..Len(sub)
      PROVE  \E m \in 1..Len(wire') : wire'[m] = queue[j]
  <2> DEFINE m == Len(wire) + j
  <2>1. m \in 1..Len(wire') /\ ~(m <= Len(wire)) /\ m - Len(wire) = j
    BY <1>3, <1>4, <1>5
  <2> HIDE DEF m
  <2>2. wire'[m] = sub[j]
    BY <1>5, <2>1
  <2> QED BY <1>4, <2>1, <2>2
<1>10. PICK g : g = [j \in 1..Len(queue) |-> <<queue[j].kind, queue[j].no>>]
  OBVIOUS
<1>11. PICK a \in Nat, b \in Nat : a = Len(sub) /\ b = Len(queue)
  BY <1>3, <1>4
<1>12. PICK h : h = {g[j] : j \in (a + 1)..b}
  OBVIOUS
<1>13. IsFiniteSet(h) /\ Cardinality(h) <= b - a
  <2>1. a <= b
    BY <1>4, <1>11
  <2>2. /\ IsFiniteSet({g[j] : j \in (a + 1)..b})
        /\ Cardinality({g[j] : j \in (a + 1)..b}) <= b - a
    BY <2>1, ImageBound
  <2> QED BY <1>12, <2>2
<1>14. mishaps' \in Nat /\ Cardinality(h) <= mishaps' - mishaps
  <2>1. Cardinality(h) \in Nat
    BY <1>13, FS_CardinalityType
  <2>2. b - a <= b - fit
    BY <1>3, <1>4, <1>11
  <2> DEFINE c == Cardinality(h)
             x == mishaps
             y == mishaps'
  <2>3. c \in Nat /\ c <= b - a /\ x \in Nat /\ y = x + b - fit
    BY <1>1, <1>2, <1>11, <1>13, <2>1
  <2>4. fit \in Int /\ fit <= b
    BY <1>3, <1>11
  <2> HIDE DEF c, x, y
  <2>5. y \in Nat /\ c <= y - x
    BY <2>2, <2>3, <2>4
  <2> QED BY <2>5 DEF c, x, y
<1>15. \A f \in Underway : f \in Underway' \/ <<f.kind, f.no>> \in h
  <2>1. ASSUME NEW j \in 1..Len(wire)
        PROVE  wire[j] \in Underway'
    BY <1>8 DEF Underway
  <2>2. ASSUME NEW j \in 1..Len(queue)
        PROVE  queue[j] \in Underway' \/ <<queue[j].kind, queue[j].no>> \in h
    <3>1. CASE j <= Len(sub)
      <4>1. j \in 1..Len(sub)
        BY <1>3, <1>4, <3>1
      <4> QED BY <1>9, <4>1 DEF Underway
    <3>2. CASE ~(j <= Len(sub))
      <4>1. j \in (a + 1)..b
        BY <1>3, <1>4, <1>11, <3>2
      <4>2. g[j] = <<queue[j].kind, queue[j].no>>
        BY <1>10
      <4> QED BY <1>12, <4>1, <4>2
    <3> QED BY <3>1, <3>2
  <2> QED BY <2>1, <2>2 DEF Underway
<1>16. \A e \in h : \E f \in Underway : e = <<f.kind, f.no>>
  <2> SUFFICES ASSUME NEW j \in (a + 1)..b
               PROVE  \E f \in Underway : g[j] = <<f.kind, f.no>>
    BY <1>12
  <2>1. j \in 1..Len(queue)
    BY <1>11
  <2>2. g[j] = <<queue[j].kind, queue[j].no>> /\ queue[j] \in Underway
    BY <1>10, <2>1 DEF Underway
  <2> QED BY <2>2
<1> QED BY <1>2, <1>7, <1>13, <1>14, <1>15, <1>16, FramesLost

\* States only: what they say of transfers stays or they are thrown away.
LEMMA StatesCount ==
  ASSUME TransferInv, NEW w, NEW q, NEW r, LossInv(w, q, r), TidsFit',
         UNCHANGED <<wire, queue, sent, upto, received, mishaps>>,
         \A k \in Kinds, n \in Nat : Expects(k, n) => Expects(k, n)',
         \A k \in Kinds, n, i \in Nat : i > 0 =>
           /\ Gathering(k, n, i) => Gathering(k, n, i)'
           /\ Failing(k, n, i) => Failing(k, n, i)'
  PROVE  Accounting'
<1>1. TransferTypes /\ Lines /\ mishaps \in Nat
  BY DEF TransferInv, LossInv, Tallied
<1>2. Underway' = Underway
  BY DEF Underway
<1>3. IsFiniteSet({}) /\ Cardinality({}) <= mishaps' - mishaps /\ mishaps' \in Nat
  BY <1>1, FS_EmptySet
<1>4. PICK h : h = {}
  OBVIOUS
<1> QED BY <1>1, <1>2, <1>3, <1>4, LossKept

\* A frame of the receiver's own concerns no transfer.
LEMMA OwnFramesCount ==
  ASSUME TransferInv, NEW w, NEW q, NEW r, LossInv(w, q, r), OwnFrame
  PROVE  Accounting'
<1>1. UNCHANGED <<wire, queue, sent, upto, received, mishaps, states, call>>
  BY DEF OwnFrame, txVars, history
<1>2. TidsFit'
  BY <1>1 DEF LossInv, TidsFit, Known
<1> QED BY <1>1, <1>2, ReadingsSame, StatesCount

\* Nor does a step that changes nothing.
LEMMA NothingCounts ==
  ASSUME TransferInv, NEW w, NEW q, NEW r, LossInv(w, q, r), UNCHANGED transferVars
  PROVE  Accounting'
<1>1. UNCHANGED <<wire, queue, sent, upto, received, mishaps, states, call>>
  BY DEF transferVars, txVars, rxVars, history
<1>2. TidsFit'
  BY <1>1 DEF LossInv, TidsFit, Known
<1> QED BY <1>1, <1>2, ReadingsSame, StatesCount

\* The callback returns: what comes next has been read with that in mind.
LEMMA ReturnsCount ==
  ASSUME TransferInv, NEW w, NEW q, NEW r, LossInv(w, q, r), CallbackReturns
  PROVE  Accounting'
<1>1. TransferTypes /\ StatesFit /\ TidsFit
  BY DEF TransferInv, LossInv
<1>2. /\ call.busy /\ ~call'.busy
      /\ UNCHANGED <<wire, queue, sent, upto, received, mishaps>>
      /\ states' = IF call.kind \in Known
                   THEN [states EXCEPT ![call.kind] = prepareForNextTransfer(@)] ELSE states
  BY DEF CallbackReturns, Idle, txVars, history
<1>3. /\ Known' = Known
      /\ \A k \in Known : states'[k] = NextState(k)
  BY <1>1, <1>2 DEF Known, NextState, TransferTypes
<1>4. TidsFit'
  <2> SUFFICES ASSUME NEW k \in Known
               PROVE  NextState(k).tid \in 0..(Tids - 1)
    BY <1>3 DEF TidsFit
  <2>1. states[k].tid \in 0..(Tids - 1) /\ IsState(states[k])
    BY <1>1, StateFields DEF TidsFit, StatesFit
  <2>2. prepareForNextTransfer(states[k]).tid \in 0..(Tids - 1)
    BY <2>1, NextTids DEF IsState
  <2> QED BY <2>1, <2>2 DEF NextState
<1>5. \A k \in Kinds, n \in Nat : Expects(k, n) => Expects(k, n)'
  <2>1. \A k \in Known : NextState(k)' = NextState(k)
    BY <1>2, <1>3 DEF NextState
  <2> QED BY <1>3, <2>1 DEF Expects, Welcomes, timedOut
<1>6. ASSUME NEW k \in Kinds, NEW n \in Nat, NEW i \in Nat
      PROVE  /\ Gathering(k, n, i) => Gathering(k, n, i)'
             /\ Failing(k, n, i) => Failing(k, n, i)'
  <2>1. k \in Known /\ ~(call.busy /\ call.kind = k) => states'[k] = states[k]
    BY <1>3 DEF NextState
  <2>2. Gathering(k, n, i) => Gathering(k, n, i)'
    BY <1>2, <1>3, <2>1 DEF Gathering
  <2>3. Failing(k, n, i) => Failing(k, n, i)'
    BY <1>2, <1>3, <2>1 DEF Failing
  <2> QED BY <2>2, <2>3
<1> QED BY <1>2, <1>4, <1>5, <1>6, StatesCount

\* Nor does reading the clock.
LEMMA ClocksCount ==
  ASSUME TransferInv, NEW w, NEW q, NEW r, LossInv(w, q, r), ReadClock
  PROVE  Accounting'
<1>1. UNCHANGED <<wire, queue, sent, upto, received, mishaps, states, call>>
  BY DEF ReadClock, txVars, history
<1>2. TidsFit'
  BY <1>1 DEF LossInv, TidsFit, Known
<1> QED BY <1>1, <1>2, ReadingsSame, StatesCount

\* Time passes: states age, and what has timed out stays so.
LEMMA TicksCount ==
  ASSUME TransferInv, NEW w, NEW q, NEW r, LossInv(w, q, r), Tick
  PROVE  Accounting'
<1>1. TransferTypes /\ StatesFit /\ TidsFit
  BY DEF TransferInv, LossInv
<1>2. /\ UNCHANGED <<wire, queue, sent, upto, received, mishaps>>
      /\ states' = [k \in Known |-> [states[k] EXCEPT !.age = @ + 1]]
      /\ call' = call
  BY DEF Tick, txVars, history
<1>3. call'.busy = call.busy /\ call'.kind = call.kind
  BY <1>2
<1>4. Known' = Known
  BY <1>2 DEF Known
<1> DEFINE Aged(s, t) == /\ t.tid = s.tid /\ t.toggle = s.toggle /\ t.payload = s.payload
                         /\ t.calc = s.calc /\ t.crc = s.crc /\ t.blocks = s.blocks
                         /\ t.seen = s.seen /\ s.age \in Nat /\ t.age \in Nat /\ s.age <= t.age
<1>5. ASSUME NEW k \in Known
      PROVE  Aged(states[k], states'[k])
  <2> DEFINE s == states[k]
             age == s.age + 1
             d == states'
  <2>1. s \in RxState
    BY <1>1 DEF StatesFit
  <2>2. d[k] = [s EXCEPT !.age = age]
    BY <1>2
  <2> HIDE DEF s, d
  <2>3. age \in Nat /\ s.age \in Nat /\ s.age <= age
    BY <2>1 DEF RxState
  <2> HIDE DEF age
  <2>4. Aged(s, d[k])
    BY <2>1, <2>2, <2>3 DEF RxState
  <2> QED BY <2>4 DEF s, d
<1>6. TidsFit'
  BY <1>1, <1>4, <1>5 DEF TidsFit
<1>7. ASSUME NEW k \in Kinds, NEW n \in Nat, Expects(k, n)
      PROVE  Expects(k, n)'
  <2> SUFFICES ASSUME k \in Known
               PROVE  Welcomes(NextState(k), n)'
    BY <1>4 DEF Expects
  <2> DEFINE s == NextState(k)
             t == NextState(k)'
  <2>1. Welcomes(s, n)
    BY <1>7 DEF Expects
  <2>2. Aged(s, t)
    <3>1. Aged(states[k], states'[k])
      BY <1>5
    <3>2. CASE call.busy /\ call.kind = k
      <4>1. s = prepareForNextTransfer(states[k]) /\ t = prepareForNextTransfer(states'[k])
        BY <1>3, <3>2 DEF NextState, prepareForNextTransfer
      <4>2. states[k] \in RxState
        BY <1>1 DEF StatesFit
      <4>3. states'[k] \in RxState
        BY TicksKeep, <1>4 DEF TransferInv, StatesFit
      <4> QED BY <3>1, <4>1, <4>2, <4>3 DEF prepareForNextTransfer, RxState
    <3>3. CASE ~(call.busy /\ call.kind = k)
      BY <1>3, <3>1, <3>3 DEF NextState
    <3> QED BY <3>2, <3>3
  <2>3. Timeout \in Nat
    BY TransferAssumption
  <2>4. Welcomes(s, n) /\ Aged(s, t) => Welcomes(t, n)
    BY <2>3 DEF Welcomes, timedOut
  <2> QED BY <2>1, <2>2, <2>4 DEF Welcomes, timedOut
<1>8. ASSUME NEW k \in Kinds, NEW n \in Nat, NEW i \in Nat
      PROVE  /\ Gathering(k, n, i) => Gathering(k, n, i)'
             /\ Failing(k, n, i) => Failing(k, n, i)'
  <2>1. k \in Known => Aged(states[k], states'[k])
    BY <1>5
  <2>2. Gathering(k, n, i) => Gathering(k, n, i)'
    BY <1>2, <1>3, <1>4, <2>1 DEF Gathering
  <2>3. Failing(k, n, i) => Failing(k, n, i)'
    BY <1>3, <1>4, <2>1 DEF Failing
  <2> QED BY <2>2, <2>3
<1> QED BY <1>2, <1>6, <1>7, <1>8, StatesCount

\* States are thrown away: what they gathered is lost.
LEMMA CleanupsCount ==
  ASSUME TransferInv, NEW w, NEW q, NEW r, LossInv(w, q, r), CleanupStaleTransfers
  PROVE  Accounting'
<1>1. TransferTypes /\ Lines /\ StatesFit /\ TidsFit /\ mishaps \in Nat
  BY DEF TransferInv, LossInv, Tallied
<1> DEFINE L == {k \in Stale : states[k].payload # <<>>}
           no(k) == states[k].calc[1][1]
           M == {k \in L : no(k) \in 1..Len(sent[k])}
<1>2. /\ UNCHANGED <<wire, queue, sent, upto, received, call>>
      /\ states' = [k \in Known \ Stale |-> states[k]]
      /\ mishaps' = mishaps + Cardinality(L)
  <2>1. (Known \ Stale) \cap DOMAIN states = Known \ Stale
    BY DEF Known
  <2> QED BY <2>1 DEF CleanupStaleTransfers, txVars, Restrict
<1>3. /\ Known' = Known \ Stale /\ \A k \in Known' : states'[k] = states[k]
      /\ Stale \subseteq Known /\ Known \subseteq Kinds /\ IsFiniteSet(Known)
  BY <1>1, <1>2 DEF Known, Stale, TransferTypes
<1>4. PICK S : S = M
  OBVIOUS
<1>5. PICK g : g = [k \in S |-> <<k, no(k)>>]
  OBVIOUS
<1>6. PICK h : h = {g[k] : k \in S}
  OBVIOUS
<1>7. /\ IsFiniteSet(L) /\ Cardinality(L) \in Nat /\ IsFiniteSet(S)
      /\ Cardinality(S) <= Cardinality(L)
  <2>1. IsFiniteSet(L) /\ S \subseteq L
    <3>1. L \subseteq Known
      BY <1>3
    <3> QED BY <1>3, <1>4, <3>1, FS_Subset
  <2> HIDE DEF L
  <2> QED BY <2>1, FS_Subset, FS_CardinalityType
<1>8. IsFiniteSet(h) /\ Cardinality(h) <= Cardinality(S) /\ Cardinality(h) \in Nat
  <2>1. g \in Surjection(S, h)
    BY <1>5, <1>6 DEF Surjection, Range
  <2>2. IsFiniteSet(h) /\ Cardinality(h) <= Cardinality(S)
    BY <1>7, <2>1, FS_Surjection
  <2> QED BY <2>2, FS_CardinalityType
<1>9. mishaps' \in Nat /\ Cardinality(h) <= mishaps' - mishaps
  <2> DEFINE a == Cardinality(L)
             b == Cardinality(S)
             c == Cardinality(h)
             x == mishaps
             y == mishaps'
  <2>1. a \in Nat /\ b <= a /\ c <= b /\ c \in Nat /\ x \in Nat /\ y = x + a /\ b \in Nat
    BY <1>1, <1>2, <1>7, <1>8, FS_CardinalityType
  <2> HIDE DEF a, b, c, x, y
  <2>2. y \in Nat /\ c <= y - x
    BY <2>1
  <2> QED BY <2>2 DEF c, x, y
<1>10. \A k, n : <<k, n>> \in h => k \in Kinds /\ n \in 1..Len(sent[k])
  <2> SUFFICES ASSUME NEW k, NEW n, <<k, n>> \in h
               PROVE  k \in Kinds /\ n \in 1..Len(sent[k])
    OBVIOUS
  <2>1. PICK j \in S : <<k, n>> = g[j]
    BY <1>6
  <2>2. g[j] = <<j, no(j)>> /\ j \in L /\ no(j) \in 1..Len(sent[j])
    BY <1>4, <1>5
  <2>3. j = k /\ n = no(j)
    BY <2>1, <2>2
  <2> QED BY <1>3, <2>2, <2>3
<1>11. TidsFit'
  BY <1>1, <1>3 DEF TidsFit
<1>12. Underway' = Underway
  BY <1>2 DEF Underway
<1>13. ASSUME NEW k \in Kinds, NEW n \in Nat, Expects(k, n)
       PROVE  Expects(k, n)'
  <2> SUFFICES ASSUME k \in Known'
               PROVE  Welcomes(NextState(k), n)'
    BY DEF Expects
  <2>1. k \in Known /\ states'[k] = states[k] /\ call' = call
    BY <1>2, <1>3
  <2>2. NextState(k)' = NextState(k)
    BY <2>1 DEF NextState
  <2> QED BY <1>13, <2>1, <2>2 DEF Expects, Welcomes, timedOut
<1>14. ASSUME NEW k \in Kinds, NEW n \in 1..Len(sent[k]), NEW i \in Nat, <<k, n>> \notin h, i > 0
       PROVE  /\ Gathering(k, n, i) => Gathering(k, n, i)'
              /\ Failing(k, n, i) => Failing(k, n, i)'
  <2>1. k \in Known' => k \in Known /\ states'[k] = states[k]
    BY <1>3
  <2>2. Failing(k, n, i) => Failing(k, n, i)'
    BY <1>2, <2>1 DEF Failing
  <2>3. ASSUME Gathering(k, n, i)
        PROVE  k \notin Stale
    <3> SUFFICES ASSUME k \in Stale
                 PROVE  FALSE
      OBVIOUS
    <3>1. states[k].payload # <<>> /\ states[k].calc = Content(n, i)
      BY <2>3 DEF Gathering
    <3>2. Content(n, i)[1] = <<n, 1>>
      BY <1>14 DEF Content
    <3>3. no(k) = n
      BY <3>1, <3>2
    <3>4. k \in S /\ g[k] = <<k, n>>
      BY <1>4, <1>5, <3>1, <3>3
    <3> QED BY <1>6, <1>14, <3>4
  <2>4. Gathering(k, n, i) => Gathering(k, n, i)'
    <3> SUFFICES ASSUME Gathering(k, n, i)
                 PROVE  Gathering(k, n, i)'
      OBVIOUS
    <3>1. k \in Known'
      BY <1>3, <2>3 DEF Gathering
    <3> QED BY <1>2, <2>1, <3>1 DEF Gathering
  <2> QED BY <2>2, <2>4
<1> QED BY <1>1, <1>2, <1>8, <1>9, <1>10, <1>11, <1>12, <1>13, <1>14, LossKept

\* A transfer is sent: it can be delivered if the queue takes all of it.
LEMMA TransmitsCount ==
  ASSUME TransferInv, NEW w, NEW q, NEW r, LossInv(w, q, r),
         NEW k \in Kinds, NEW z \in Sizes, Transmit(k, z)
  PROVE  Accounting'
<1>1. TransferTypes /\ Lines /\ mishaps \in Nat /\ Tallied(w, q, r) /\ Accounted(w, q, r)
      /\ Prepared(w, q) /\ Owed(w, q) /\ TidsFit
  BY DEF TransferInv, LossInv, Tallied
<1>2. \A j \in Kinds : /\ sent[j] \in Seq(Sizes) /\ Len(sent[j]) \in Nat
                       /\ \A m \in 1..Len(sent[j]) : sent[j][m] \in Nat \ {0}
  <2>1. \A j \in Kinds : sent[j] \in Seq(Sizes)
    BY <1>1 DEF TransferTypes
  <2> QED BY <1>1, <2>1, Counts
<1>3. PICK n \in Nat \ {0} : n = Len(sent[k]) + 1
  BY <1>2
<1>4. z \in Nat \ {0} /\ txFree \in Nat
  BY <1>1, TransferAssumption DEF TransferTypes
<1>5. PICK fit \in 0..z : fit = IF z <= txFree THEN z ELSE txFree
  BY <1>4
<1>6. /\ sent' = [sent EXCEPT ![k] = Append(@, z)] /\ queue' = Queued(k, n, z)[fit]
      /\ mishaps' = IF fit < z THEN mishaps + 1 ELSE mishaps
      /\ UNCHANGED <<wire, states, call, upto, received>>
  BY <1>3, <1>5 DEF Transmit, enqueueTxFrames, rxVars, history
<1>7. LinedUp(queue', k, z, fit)
  BY <1>1, <1>3, <1>6, QueuedFrames
<1>8. /\ Len(sent'[k]) = n /\ sent'[k][n] = z
      /\ \A i \in 1..Len(sent[k]) : sent'[k][i] = sent[k][i]
      /\ \A j \in Kinds : j # k => sent'[j] = sent[j]
  <2> DEFINE s == Append(sent[k], z)
  <2>1. Len(s) = n /\ s[n] = z /\ \A i \in 1..Len(sent[k]) : s[i] = sent[k][i]
    BY <1>2, <1>3
  <2>2. sent' = [sent EXCEPT ![k] = s] /\ sent \in [Kinds -> Seq(Sizes)]
    BY <1>1, <1>6 DEF TransferTypes
  <2> HIDE DEF s
  <2> QED BY <2>1, <2>2
<1>9. /\ \A g \in Underway : g.kind \in Kinds /\ g.no \in Nat \ {0} /\ g.no <= Len(sent[g.kind])
      /\ Underway \subseteq Underway'
      /\ \A g \in Underway' : g \in Underway \/ Fresh(g, k, z, fit)
      /\ \A g : Fresh(g, k, z, fit) => g \in Underway'
  <2>1. \A g \in Underway : g.kind \in Kinds /\ g.no \in Nat \ {0} /\ g.no <= Len(sent[g.kind])
    BY <1>1 DEF Lines, Valid, Frame
  <2>2. /\ \A j \in 1..Len(queue') :
             (\E m \in 1..Len(queue) : queue'[j] = queue[m]) \/ Fresh(queue'[j], k, z, fit)
        /\ \A m \in 1..Len(queue) : \E j \in 1..Len(queue') : queue'[j] = queue[m]
        /\ \A g : Fresh(g, k, z, fit) => \E j \in 1..Len(queue') : queue'[j] = g
    BY <1>7 DEF LinedUp
  <2>3. \A g : Fresh(g, k, z, fit) => g \in Underway'
    BY <2>2 DEF Underway
  <2>4. \A g \in Underway' : g \in Underway \/ Fresh(g, k, z, fit)
    BY <1>6, <2>2 DEF Underway
  <2>5. Underway \subseteq Underway'
    BY <1>6, <2>2 DEF Underway
  <2> QED BY <2>1, <2>3, <2>4, <2>5
<1>10. ASSUME NEW j, NEW m, j # k \/ m # n
       PROVE  Ahead(Underway', j, m) = Ahead(Underway, j, m)
  <2>1. \A g \in Underway' : g.kind = j /\ g.no = m => g \in Underway
    BY <1>3, <1>9, <1>10 DEF Fresh
  <2> QED BY <1>9, <2>1 DEF Ahead
<1>11. Ahead(Underway', k, n) = 1..fit
  <2>1. ASSUME NEW i \in Ahead(Underway', k, n)
        PROVE  i \in 1..fit
    <3>1. PICK g \in Underway' : g.kind = k /\ g.no = n /\ g.index = i
      BY <2>1 DEF Ahead
    <3>2. g \notin Underway
      BY <1>2, <1>3, <1>9, <3>1
    <3> QED BY <1>9, <3>1, <3>2 DEF Fresh
  <2>2. ASSUME NEW i \in 1..fit
        PROVE  i \in Ahead(Underway', k, n)
    <3> DEFINE g == [kind |-> k, no |-> n, index |-> i, size |-> z]
    <3>1. g \in Frame /\ g.kind = k /\ g.no = n /\ g.index = i /\ g.size = z
      BY <1>3 DEF Frame
    <3> HIDE DEF g
    <3>2. Fresh(g, k, z, fit)
      BY <1>3, <3>1 DEF Fresh
    <3> QED BY <1>9, <3>1, <3>2 DEF Ahead
  <2> QED BY <2>1, <2>2
<1>12. ASSUME NEW j \in Kinds, NEW m, NEW i
       PROVE  /\ Expects(j, m)' <=> Expects(j, m)
              /\ Failing(j, m, i)' <=> Failing(j, m, i)
              /\ m \in 1..Len(sent[j]) => (Gathering(j, m, i)' <=> Gathering(j, m, i))
  <2>1. Known' = Known
    BY <1>6 DEF Known
  <2>2. Expects(j, m)' <=> Expects(j, m)
    BY <1>6, <2>1 DEF Expects, NextState, Welcomes, timedOut
  <2>3. Failing(j, m, i)' <=> Failing(j, m, i)
    BY <1>6, <2>1 DEF Failing
  <2>4. ASSUME m \in 1..Len(sent[j])
        PROVE  Gathering(j, m, i)' <=> Gathering(j, m, i)
    <3>1. sent'[j][m] = sent[j][m]
      BY <1>8, <2>4
    <3> QED BY <1>6, <2>1, <3>1 DEF Gathering
  <2> QED BY <2>2, <2>3, <2>4
<1>13. TidsFit'
  BY <1>1, <1>6 DEF TidsFit, Known
<1>14. \A j, m : <<j, m>> \in w => j \in Kinds /\ m \in 1..Len(sent[j])
  BY <1>1 DEF Tallied
<1>15. PICK h : /\ IsFiniteSet(h) /\ Cardinality(h) = mishaps' - mishaps /\ h \subseteq {<<k, n>>}
                /\ <<k, n>> \in h <=> fit < z
  <2>1. CASE fit < z
    <3>1. IsFiniteSet({<<k, n>>}) /\ Cardinality({<<k, n>>}) = 1
      BY FS_Singleton
    <3>2. mishaps' - mishaps = 1
      BY <1>1, <1>6, <2>1
    <3> QED BY <2>1, <3>1, <3>2
  <2>2. CASE ~(fit < z)
    <3>1. IsFiniteSet({}) /\ Cardinality({}) = 0
      BY FS_EmptySet
    <3>2. mishaps' - mishaps = 0
      BY <1>1, <1>6, <2>2
    <3> QED BY <2>2, <3>1, <3>2
  <2> QED BY <2>1, <2>2
<1>16. PICK v : v = w \union h
  OBVIOUS
<1>17. PICK p : p = q \union h
  OBVIOUS
<1>18. Tallied(v, p, r)'
  <2> DEFINE a == Cardinality(w)
             b == Cardinality(q)
             c == Cardinality(h)
             d == Cardinality(v)
             e == Cardinality(p)
             x == mishaps
             y == mishaps'
  <2>1. IsFiniteSet(w) /\ IsFiniteSet(q) /\ a + b <= 2 * x /\ x \in Nat
    BY <1>1 DEF Tallied
  <2>2. IsFiniteSet(v) /\ IsFiniteSet(p) /\ d <= a + c /\ e <= b + c
        /\ a \in Nat /\ b \in Nat /\ c \in Nat /\ d \in Nat /\ e \in Nat
    BY <1>15, <1>16, <1>17, <2>1, Joined
  <2>3. c = y - x /\ y \in Nat
    BY <1>1, <1>6, <1>15
  <2>4. \A j, m : <<j, m>> \in v => j \in Kinds /\ m \in 1..Len(sent'[j])
    <3> SUFFICES ASSUME NEW j, NEW m, <<j, m>> \in v
                 PROVE  j \in Kinds /\ m \in 1..Len(sent'[j])
      OBVIOUS
    <3>1. CASE <<j, m>> \in w
      BY <1>2, <1>3, <1>8, <1>14, <3>1
    <3>2. CASE <<j, m>> = <<k, n>>
      BY <1>3, <1>8, <3>2
    <3> QED BY <1>15, <1>16, <3>1, <3>2
  <2>5. /\ IsFiniteSet(r) /\ Cardinality(r) = received' /\ upto' = upto
        /\ \A j, m : <<j, m>> \in r => j \in Kinds /\ m \in 1..upto[j]
    BY <1>1, <1>6 DEF Tallied
  <2> HIDE DEF a, b, c, d, e, x, y
  <2>6. d + e <= 2 * y
    BY <2>1, <2>2, <2>3
  <2> QED BY <2>2, <2>3, <2>4, <2>5, <2>6 DEF Tallied, d, e, y
<1>19. \A j, m : Owing(q, j, m) => Owing(p, j, m)
  BY <1>17 DEF Owing
<1>20. Accounted(v, p, r)'
  <2> SUFFICES ASSUME NEW j \in Kinds, NEW m \in 1..Len(sent'[j]), <<j, m>> \notin v, <<j, m>> \notin r
               PROVE  \E i \in 0..(sent'[j][m] - 1) : InHand(p, j, m, i)'
    BY DEF Accounted
  <2>1. CASE j = k /\ m = n
    <3>1. fit = z
      BY <1>4, <1>5, <1>15, <1>16, <2>1
    <3>2. Ahead(Underway', j, m) = (0 + 1)..sent'[j][m]
      BY <1>8, <1>11, <2>1, <3>1
    <3>3. InHand(p, j, m, 0)'
      BY <3>2 DEF InHand
    <3>4. 0 \in 0..(sent'[j][m] - 1)
      BY <1>4, <1>8, <2>1
    <3> QED BY <3>3, <3>4
  <2>2. CASE ~(j = k /\ m = n)
    <3>1. m \in 1..Len(sent[j]) /\ sent'[j][m] = sent[j][m] /\ (j = k => m < n)
      BY <1>2, <1>3, <1>8, <2>2
    <3>2. PICK i \in 0..(sent[j][m] - 1) : InHand(q, j, m, i)
      BY <1>1, <1>16, <3>1 DEF Accounted
    <3>3. Ahead(Underway', j, m) = (i + 1)..sent'[j][m]
      BY <1>10, <2>2, <3>1, <3>2 DEF InHand
    <3>4. ASSUME i > 0
          PROVE  Later(Underway', j, m) /\ (Gathering(j, m, i)' \/ (Owing(p, j, m) /\ Failing(j, m, i)'))
      <4>1. Later(Underway, j, m) /\ (Gathering(j, m, i) \/ (Owing(q, j, m) /\ Failing(j, m, i)))
        BY <3>2, <3>4 DEF InHand
      <4>2. Later(Underway', j, m)
        <5> SUFFICES ASSUME NEW g \in Underway', g.kind = j
                     PROVE  m <= g.no
          BY DEF Later
        <5>1. CASE g \in Underway
          BY <4>1, <5>1 DEF Later
        <5>2. CASE Fresh(g, k, z, fit)
          BY <1>3, <3>1, <5>2 DEF Fresh
        <5> QED BY <1>9, <5>1, <5>2
      <4> QED BY <1>12, <1>19, <3>1, <4>1, <4>2
    <3>5. InHand(p, j, m, i)'
      BY <3>3, <3>4 DEF InHand, Owing
    <3> QED BY <3>1, <3>5
  <2> QED BY <2>1, <2>2
<1>21. Prepared(v, p)'
  <2> SUFFICES ASSUME NEW j \in Kinds, NEW m \in 1..(Len(sent'[j]) + 1), Untouched(v, j, m)'
               PROVE  \/ Expects(j, m)' \/ Owing(p, j, m)
                      \/ m > 1 /\ <<j, m - 1>> \notin v /\ Ahead(Underway', j, m - 1) # {}
    BY DEF Prepared, Owing
  <2>1. CASE j = k /\ m = n + 1
    <3>1. n \in 1..(m - 1) /\ m > 1 /\ m - 1 = n
      BY <2>1
    <3>2. CASE fit < z
      <4>1. <<j, n>> \in p
        BY <1>15, <1>17, <2>1, <3>2
      <4> QED BY <3>1, <4>1 DEF Owing
    <3>3. CASE ~(fit < z)
      <4>1. <<k, n>> \notin v
        BY <1>2, <1>3, <1>14, <1>15, <1>16, <3>3
      <4>2. 1 \in 1..fit
        BY <1>4, <1>5, <3>3
      <4> QED BY <1>11, <2>1, <3>1, <4>1, <4>2
    <3> QED BY <3>2, <3>3
  <2>2. CASE ~(j = k /\ m = n + 1)
    <3>1. m \in 1..(Len(sent[j]) + 1) /\ ~(j = k /\ m - 1 = n)
      BY <1>2, <1>3, <1>8, <2>2
    <3>2. Untouched(w, j, m)
      <4>1. CASE m = Len(sent[j]) + 1
        BY <4>1 DEF Untouched
      <4>2. CASE m # Len(sent[j]) + 1
        <5>1. ~(j = k /\ m = n) /\ m # Len(sent'[j]) + 1
          BY <1>2, <1>3, <1>8, <2>2, <4>2
        <5>2. <<j, m>> \notin v /\ 1 \in Ahead(Underway', j, m)
          BY <5>1 DEF Untouched
        <5> QED BY <1>10, <1>16, <5>1, <5>2 DEF Untouched
      <4> QED BY <4>1, <4>2
    <3>3. \/ Expects(j, m) \/ Owing(q, j, m)
          \/ m > 1 /\ <<j, m - 1>> \notin w /\ Ahead(Underway, j, m - 1) # {}
      BY <1>1, <3>1, <3>2 DEF Prepared
    <3>4. <<j, m - 1>> \notin w => <<j, m - 1>> \notin v
      BY <1>15, <1>16, <3>1
    <3>5. Ahead(Underway', j, m - 1) = Ahead(Underway, j, m - 1)
      BY <1>10, <3>1
    <3> QED BY <1>12, <1>19, <3>3, <3>4, <3>5
  <2> QED BY <2>1, <2>2
<1>22. Owed(v, p)'
  <2> SUFFICES ASSUME NEW j, NEW m, <<j, m>> \in v, NEW g \in Underway', g.kind = j, g.no <= m
               PROVE  <<j, m>> \in p
    BY DEF Owed
  <2>1. CASE <<j, m>> \in h
    BY <1>17, <2>1
  <2>2. CASE <<j, m>> \in w
    <3>1. g \in Underway
      <4>1. m \in 1..Len(sent[j])
        BY <1>14, <2>2
      <4>2. Fresh(g, k, z, fit) => g.no = n /\ g.kind = k
        BY <1>3 DEF Fresh
      <4> QED BY <1>2, <1>3, <1>9, <4>1, <4>2
    <3> QED BY <1>1, <1>17, <2>2, <3>1 DEF Owed
  <2> QED BY <1>16, <2>1, <2>2
<1>23. LossInv(v, p, r)'
  BY <1>13, <1>18, <1>20, <1>21, <1>22 DEF LossInv
<1> QED BY <1>23 DEF Accounting

\* Nothing has been sent at first.
LEMMA CountsInitially == TransferInit => Accounting
<1> SUFFICES ASSUME TransferInit
             PROVE  Accounting
  OBVIOUS
<1>1. /\ \A k \in Kinds : sent[k] = <<>>
      /\ queue = <<>> /\ wire = <<>> /\ states = <<>> /\ received = 0 /\ mishaps = 0
  BY DEF TransferInit
<1>2. Known = {} /\ Underway = {}
  BY <1>1 DEF Known, Underway
<1>3. IsFiniteSet({}) /\ Cardinality({}) = 0
  BY FS_EmptySet
<1>4. Tallied({}, {}, {})
  BY <1>1, <1>3 DEF Tallied
<1>5. Accounted({}, {}, {}) /\ Prepared({}, {}) /\ Owed({}, {}) /\ TidsFit
  <2>1. \A k \in Kinds : 1..Len(sent[k]) = {}
    BY <1>1
  <2> QED BY <1>2, <2>1 DEF Accounted, Prepared, Expects, Owed, TidsFit
<1> QED BY <1>4, <1>5 DEF Accounting, LossInv

\* Every step keeps the account.
LEMMA CountsKeep ==
  TransferInv /\ Accounting /\ [TransferNext]_transferVars => Accounting'
<1> SUFFICES ASSUME TransferInv, Accounting, [TransferNext]_transferVars
             PROVE  Accounting'
  OBVIOUS
<1>1. PICK w, q, r : LossInv(w, q, r)
  BY DEF Accounting
<1>2. CASE ReceiveFrame
  <2>1. PICK f : f = Head(wire)
    OBVIOUS
  <2> QED BY <1>1, <1>2, <2>1, ReceivesCount
<1>3. CASE \E k \in Kinds, z \in Sizes : Transmit(k, z)
  BY <1>1, <1>3, TransmitsCount
<1> QED BY <1>1, <1>2, <1>3, PacketsCount, LossesCount, ReturnsCount, CleanupsCount, OwnFramesCount,
           ClocksCount, TicksCount, NothingCounts DEF TransferNext

\* With nothing on the way, what was not doomed has been delivered.
LEMMA AccountsSettle == TransferInv /\ Accounting => LossIsLocal
<1> SUFFICES ASSUME TransferInv, Accounting, queue = <<>>, wire = <<>>
             PROVE  Transfers - received <= 2 * mishaps
  BY DEF LossIsLocal
<1>1. PICK w, q, r : LossInv(w, q, r)
  BY DEF Accounting
<1>2. TransferTypes
  BY DEF TransferInv
<1>3. Underway = {}
  BY DEF Underway
<1> DEFINE T == UNION {{k} \X (1..Len(sent[k])) : k \in Kinds}
<1>4. ASSUME NEW k \in Kinds, NEW n \in 1..Len(sent[k])
      PROVE  <<k, n>> \in w \union r
  <2>1. ASSUME NEW i \in 0..(sent[k][n] - 1), InHand(q, k, n, i)
        PROVE  FALSE
    <3>1. sent[k][n] \in Nat \ {0}
      BY <1>2, Counts
    <3>2. Ahead(Underway, k, n) = {}
      BY <1>3 DEF Ahead
    <3>3. sent[k][n] \in (i + 1)..sent[k][n]
      BY <3>1
    <3> QED BY <2>1, <3>2, <3>3 DEF InHand
  <2> QED BY <1>1, <2>1 DEF LossInv, Accounted
<1>5. T \subseteq w \union r
  BY <1>4
<1>6. /\ IsFiniteSet(w) /\ IsFiniteSet(q) /\ IsFiniteSet(r) /\ Cardinality(r) = received
      /\ mishaps \in Nat /\ Cardinality(w) + Cardinality(q) <= 2 * mishaps
  BY <1>1 DEF LossInv, Tallied
<1>7. /\ IsFiniteSet(w \union r)
      /\ Cardinality(w \union r) <= Cardinality(w) + Cardinality(r)
      /\ Cardinality(w \union r) \in Nat /\ Cardinality(w) \in Nat /\ Cardinality(r) \in Nat
      /\ Cardinality(q) \in Nat
  BY <1>6, Joined, FS_CardinalityType
<1> HIDE DEF T
<1>8. Cardinality(T) <= Cardinality(w \union r) /\ Cardinality(T) \in Nat
  BY <1>5, <1>7, FS_Subset, FS_CardinalityType
<1>9. Transfers = Cardinality(T)
  BY DEF Transfers, T
<1> DEFINE a == Cardinality(w)
           b == Cardinality(q)
           c == Cardinality(r)
           d == Cardinality(T)
           e == Cardinality(w \union r)
<1>10. a \in Nat /\ b \in Nat /\ c \in Nat /\ d \in Nat /\ e \in Nat /\ a + b <= 2 * mishaps
       /\ e <= a + c /\ d <= e /\ mishaps \in Nat
  BY <1>6, <1>7, <1>8
<1> HIDE DEF a, b, c, d, e
<1>11. d - c <= 2 * mishaps
  BY <1>10
<1> QED BY <1>6, <1>9, <1>11 DEF c, d

\* A lost frame, a frame without room and a transfer without a block cost the transfer they
\* belong to and at most one more, for every arena, timeout and size of transfer: the line
\* comes back by itself (canardHandleRxFrame: the restart on a first frame, the number and
\* the toggle expected next, the checksum).
THEOREM LossesLocal == TransferSpec => []LossIsLocal
<1>1. TransferInit => TransferInv /\ Accounting
  BY TransferInitially, CountsInitially
<1>2. TransferInv /\ Accounting /\ [TransferNext]_transferVars => TransferInv' /\ Accounting'
  BY TransferSteps, CountsKeep
<1>3. TransferInv /\ Accounting => LossIsLocal
  BY AccountsSettle
<1> QED BY <1>1, <1>2, <1>3, PTL DEF TransferSpec
=============================================================================
