-------------------------- MODULE RingQueueProofs --------------------------
(***************************************************************************)
(* The ring buffer implements the bounded FIFO for every capacity, every   *)
(* set of values and every length of the callers' buffers.  The inductive  *)
(* invariant is that the indices agree; under it the k-th held value sits  *)
(* k - 1 slots after head, and each call moves slots as the FIFO moves     *)
(* values.                                                                 *)
(***************************************************************************)
EXTENDS RingQueue, TLAPS

\* The type invariant and the agreement of the indices, together inductive.
Inv == QueueTypes /\ IndicesAgree

\* A buffer is a sequence of values no longer than MaxBuffer.
LEMMA BufferLemma ==
  ASSUME NEW buffer \in Buffers
  PROVE  /\ Len(buffer) \in 0..MaxBuffer
         /\ buffer \in [1..Len(buffer) -> Value]
<1>1. PICK n \in 0..MaxBuffer : buffer \in [1..n -> Value]
  BY DEF Buffers
<1>2. Len(buffer) = n
  BY <1>1, CapacityAssumption
<1>3. QED
  BY <1>1, <1>2

\* Moving an index twice is moving it once by the sum.
LEMMA WrapTwice ==
  ASSUME NEW i \in Slots, NEW m \in 0..Capacity, NEW j \in 0..Capacity, m + j <= Capacity
  PROVE  Wrap(Wrap(i + m) + j) = Wrap(i + m + j)
  BY CapacityAssumption DEF Slots, Wrap

\* Every call keeps the indices inside the array and in agreement.
LEMMA InvStep == Inv /\ [QueueNext]_queueVars => Inv'
<1> SUFFICES ASSUME Inv, [QueueNext]_queueVars PROVE Inv'
  OBVIOUS
<1> USE CapacityAssumption DEF Inv, QueueTypes, IndicesAgree, Slots, Wrap, Lesser
<1>1. ASSUME NEW v \in Value, Push(v) PROVE Inv'
  BY <1>1 DEF Push
<1>2. ASSUME NEW buffer \in Buffers, PushBuffer(buffer) PROVE Inv'
  <2> DEFINE n == Lesser(Len(buffer), Capacity - elements)
  <2>1. Len(buffer) \in Nat /\ buffer \in [1..Len(buffer) -> Value]
    BY BufferLemma
  <2>2. n \in 0..(Capacity - elements) /\ n <= Len(buffer)
    BY <2>1
  <2> HIDE DEF n
  <2>3. /\ elements' = elements + n /\ head' = head /\ tail' = Wrap(tail + n)
        /\ data' = [i \in Slots |->
             IF (IF i >= tail THEN i - tail ELSE i + Capacity - tail) < n
             THEN buffer[(IF i >= tail THEN i - tail ELSE i + Capacity - tail) + 1]
             ELSE data[i]]
    BY <1>2 DEF PushBuffer, n
  <2>4. elements' \in 0..Capacity /\ tail' \in Slots /\ tail' = Wrap(head' + elements')
    BY <2>2, <2>3
  <2>5. data' \in [Slots -> Value]
    <3> DEFINE offset(i) == IF i >= tail THEN i - tail ELSE i + Capacity - tail
    <3>1. ASSUME NEW i \in Slots, offset(i) < n PROVE offset(i) + 1 \in 1..Len(buffer)
      BY <3>1, <2>1, <2>2
    <3>2. ASSUME NEW i \in Slots PROVE data'[i] \in Value
      BY <3>1, <2>1, <2>3
    <3>3. QED
      BY <3>2, <2>3
  <2>6. QED
    BY <2>3, <2>4, <2>5
<1>3. CASE Pop
  BY <1>3 DEF Pop
<1>4. ASSUME NEW count \in 0..MaxBuffer, PopBuffer(count) PROVE Inv'
  BY <1>4 DEF PopBuffer
<1>5. CASE Clear
  BY <1>5 DEF Clear
<1>6. CASE UNCHANGED queueVars
  BY <1>6 DEF queueVars
<1>7. QED
  BY <1>1, <1>2, <1>3, <1>4, <1>5, <1>6 DEF QueueNext

\* The indices stay inside the array and agree with the element count
\* (Queue.hpp:52-56, 87-91).
THEOREM Invariance == QueueSpec => []Inv
<1>1. QueueInit => Inv
  BY CapacityAssumption DEF QueueInit, Inv, QueueTypes, IndicesAgree, Slots, Wrap
<1>2. QED
  BY <1>1, InvStep, PTL DEF QueueSpec

\* The same, for the property the model checker is given.
THEOREM IndexAgreement == QueueSpec => []IndicesAgree
<1>1. Inv => IndicesAgree
  BY DEF Inv
<1>2. QED
  BY Invariance, <1>1, PTL

-----------------------------------------------------------------------------

\* push(value) is a Put of a one-value buffer that fits.
LEMMA PushRefines ==
  ASSUME Inv, NEW v \in Value, Push(v)
  PROVE  Abstract!Put(<<v>>)
<1> USE CapacityAssumption DEF Inv, QueueTypes, IndicesAgree, Slots, Wrap
<1>1. Len(items) = elements /\ Len(<<v>>) = 1 /\ Abstract!Lesser(1, Capacity - elements) = 1
  BY DEF items, Push, Abstract!Lesser
<1>2. \A k \in 1..elements : data'[Wrap(head' + k - 1)] = data[Wrap(head + k - 1)]
  BY DEF Push
<1>3. data'[Wrap(head' + elements' - 1)] = v
  BY DEF Push
<1>4. items' = [k \in 1..(elements + 1) |-> IF k <= elements THEN items[k] ELSE <<v>>[k - elements]]
  BY <1>2, <1>3 DEF items, Push
<1>5. QED
  BY <1>1, <1>4 DEF Abstract!Put, Push

\* push(buffer, length) is a Put.
LEMMA PushBufferRefines ==
  ASSUME Inv, NEW buffer \in Buffers, PushBuffer(buffer)
  PROVE  Abstract!Put(buffer)
<1> USE CapacityAssumption DEF Inv, QueueTypes, IndicesAgree, Slots, Wrap
<1> DEFINE n == Lesser(Len(buffer), Capacity - elements)
<1>1. Len(buffer) \in Nat /\ buffer \in [1..Len(buffer) -> Value]
  BY BufferLemma
<1>2. n \in 0..(Capacity - elements) /\ n <= Len(buffer)
      /\ n = Abstract!Lesser(Len(buffer), Capacity - elements)
  BY <1>1 DEF Lesser, Abstract!Lesser
<1> HIDE DEF n
<1>3. /\ elements' = elements + n /\ head' = head /\ out' = <<>>
      /\ data' = [i \in Slots |->
           IF (IF i >= tail THEN i - tail ELSE i + Capacity - tail) < n
           THEN buffer[(IF i >= tail THEN i - tail ELSE i + Capacity - tail) + 1]
           ELSE data[i]]
  BY DEF PushBuffer, n
<1>4. \A k \in 1..elements : data'[Wrap(head + k - 1)] = data[Wrap(head + k - 1)]
  BY <1>2, <1>3
<1>5. \A k \in (elements + 1)..(elements + n) : data'[Wrap(head + k - 1)] = buffer[k - elements]
  BY <1>2, <1>3
<1>6. items' = [k \in 1..(elements + n) |-> IF k <= elements THEN items[k] ELSE buffer[k - elements]]
  <2>1. \A k \in 1..(elements + n) : data'[Wrap(head + k - 1)]
           = IF k <= elements THEN items[k] ELSE buffer[k - elements]
    <3> TAKE k \in 1..(elements + n)
    <3>1. CASE k <= elements
      <4>1. k \in 1..elements /\ items[k] = data[Wrap(head + k - 1)]
        BY <1>2, <3>1 DEF items
      <4> HIDE DEF Wrap
      <4>2. QED
        BY <1>4, <3>1, <4>1
    <3>2. CASE k > elements
      <4>1. k \in (elements + 1)..(elements + n) /\ ~(k <= elements)
        BY <1>2, <3>2
      <4> HIDE DEF Wrap
      <4>2. QED
        BY <1>5, <4>1
    <3>3. QED
      BY <1>2, <3>1, <3>2
  <2>2. items' = [k \in 1..(elements + n) |-> data'[Wrap(head + k - 1)]]
    BY <1>3 DEF items
  <2> HIDE DEF Wrap, Inv, QueueTypes, IndicesAgree, Slots
  <2>3. QED
    BY <2>1, <2>2, Zenon
<1>7. Len(items) = elements
  BY DEF items
<1>8. QED
  BY <1>2, <1>3, <1>6, <1>7 DEF Abstract!Put

\* pop() is a Take of one value.
LEMMA PopRefines ==
  ASSUME Inv, Pop
  PROVE  Abstract!Take(1)
<1> USE CapacityAssumption DEF Inv, QueueTypes, IndicesAgree, Slots, Wrap
<1>1. Len(items) = elements /\ Abstract!Lesser(1, elements) = 1
  BY DEF items, Pop, Abstract!Lesser
<1>2. out' = [k \in 1..1 |-> items[k]]
  BY DEF Pop, items
<1>3. \A k \in 1..(elements - 1) : data'[Wrap(head' + k - 1)] = items[k + 1]
  BY DEF Pop, items
<1>4. items' = [k \in 1..(elements - 1) |-> items[k + 1]]
  BY <1>3 DEF Pop, items
<1>5. QED
  BY <1>1, <1>2, <1>4 DEF Abstract!Take

\* pop(buffer, length) is a Take.
LEMMA PopBufferRefines ==
  ASSUME Inv, NEW count \in 0..MaxBuffer, PopBuffer(count)
  PROVE  Abstract!Take(count)
<1> USE CapacityAssumption DEF Inv, QueueTypes, IndicesAgree, Slots, Wrap
<1> DEFINE n == Lesser(count, elements)
<1>1. n \in 0..elements /\ n = Abstract!Lesser(count, elements)
  BY DEF Lesser, Abstract!Lesser
<1> HIDE DEF n
<1>2. /\ elements' = elements - n /\ head' = Wrap(head + n) /\ data' = data
      /\ out' = [k \in 1..n |-> data[Wrap(head + k - 1)]]
  BY DEF PopBuffer, n
<1>3. Len(items) = elements
  BY DEF items
<1>4. out' = [k \in 1..n |-> items[k]]
  BY <1>1, <1>2 DEF items
<1>5. \A k \in 1..(elements - n) : data'[Wrap(head' + k - 1)] = items[k + n]
  <2> SUFFICES ASSUME NEW k \in 1..(elements - n)
               PROVE  data'[Wrap(head' + k - 1)] = items[k + n]
    OBVIOUS
  <2>1. k + n \in 1..elements /\ n + k - 1 \in 0..(Capacity - 1)
    BY <1>1
  <2>2. Wrap(Wrap(head + n) + (k - 1)) = Wrap(head + n + (k - 1))
    <3>1. head \in Slots /\ n \in 0..Capacity /\ k - 1 \in 0..Capacity /\ n + (k - 1) <= Capacity
      BY <1>1, <2>1
    <3> HIDE DEF Wrap, Inv, QueueTypes, IndicesAgree, Slots
    <3>2. QED
      BY <3>1, WrapTwice
  <2>3. items[k + n] = data[Wrap(head + (k + n) - 1)]
    BY <2>1 DEF items
  <2>4. head + n + (k - 1) = head + (k + n) - 1 /\ Wrap(head + n) + (k - 1) = Wrap(head + n) + k - 1
    BY <1>1
  <2> HIDE DEF Wrap
  <2>5. QED
    BY <1>2, <2>2, <2>3, <2>4
<1>6. items' = [k \in 1..(elements - n) |-> items[k + n]]
  BY <1>2, <1>5 DEF items
<1>7. QED
  BY <1>1, <1>3, <1>4, <1>6 DEF Abstract!Take

\* The ring buffer implements the FIFO: values leave in the order they came,
\* through every call and every wrap (Queue.hpp:22-93).
THEOREM Refinement == QueueSpec => ImplementsFifo
<1>1. QueueInit => Abstract!Init
  BY DEF QueueInit, Abstract!Init, items
<1>2. Inv /\ [QueueNext]_queueVars => [Abstract!Next]_<<items, out>>
  <2> SUFFICES ASSUME Inv, [QueueNext]_queueVars PROVE [Abstract!Next]_<<items, out>>
    OBVIOUS
  <2>1. ASSUME NEW v \in Value, Push(v) PROVE Abstract!Next
    <3>1. <<v>> \in Abstract!Buffers
      BY CapacityAssumption, 1 \in 0..MaxBuffer, <<v>> \in [1..1 -> Value] DEF Abstract!Buffers
    <3>2. QED
      BY <2>1, <3>1, PushRefines DEF Abstract!Next
  <2>2. ASSUME NEW buffer \in Buffers, PushBuffer(buffer) PROVE Abstract!Next
    BY <2>2, PushBufferRefines DEF Abstract!Next, Buffers, Abstract!Buffers
  <2>3. CASE Pop
    BY <2>3, PopRefines, CapacityAssumption, 1 \in 0..MaxBuffer DEF Abstract!Next
  <2>4. ASSUME NEW count \in 0..MaxBuffer, PopBuffer(count) PROVE Abstract!Next
    BY <2>4, PopBufferRefines DEF Abstract!Next
  <2>5. CASE Clear
    BY <2>5 DEF Clear, items, Abstract!Next, Abstract!Clear
  <2>6. CASE UNCHANGED queueVars
    BY <2>6 DEF queueVars, items
  <2>7. QED
    BY <2>1, <2>2, <2>3, <2>4, <2>5, <2>6 DEF QueueNext
<1>3. QED
  BY <1>1, <1>2, Invariance, PTL DEF QueueSpec, ImplementsFifo, Abstract!Spec
=============================================================================
