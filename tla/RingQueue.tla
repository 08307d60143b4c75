----------------------------- MODULE RingQueue -----------------------------
(***************************************************************************)
(* The ring buffer every driver, pool and work queue of the library is     *)
(* built on (Queue.hpp).  Each action is one call; the caller makes calls  *)
(* one at a time (interrupts masked), so a call is one step.               *)
(***************************************************************************)
EXTENDS Integers, Sequences

CONSTANTS
  Value,      \* what the queue holds
  Capacity,   \* its size, a template parameter
  MaxBuffer   \* longest buffer a caller passes

ASSUME CapacityAssumption == Capacity \in Nat \ {0} /\ MaxBuffer \in Nat \ {0}

VARIABLES data, elements, head, tail, out

queueVars  == <<data, elements, head, tail, out>>
Slots == 0..(Capacity - 1)

Lesser(a, b) == IF a <= b THEN a ELSE b
Buffers == UNION {[1..n -> Value] : n \in 0..MaxBuffer}

\* An index that reached the end of the array starts over.
Wrap(i) == IF i >= Capacity THEN i - Capacity ELSE i

\* The array is not initialised; the indices are.
QueueInit ==
  /\ data \in [Slots -> Value]
  /\ elements = 0 /\ head = 0 /\ tail = 0
  /\ out = <<>>

Clear ==
  /\ elements' = 0 /\ head' = 0 /\ tail' = 0
  /\ out' = <<>>
  /\ UNCHANGED data

\* push(value): callers guarantee room (assert)
Push(v) ==
  /\ elements < Capacity
  /\ data' = [data EXCEPT ![tail] = v]
  /\ tail' = Wrap(tail + 1)
  /\ elements' = elements + 1
  /\ out' = <<>>
  /\ UNCHANGED head

\* Slip: the buffer is copied whether or not it fits.
PushAll(buffer) ==
  LET n == Lesser(Len(buffer), Capacity)
      offset(i) == IF i >= tail THEN i - tail ELSE i + Capacity - tail
  IN
  /\ data' = [i \in Slots |-> IF offset(i) < n THEN buffer[offset(i) + 1] ELSE data[i]]
  /\ tail' = Wrap(tail + n)
  /\ elements' = Lesser(elements + n, Capacity)
  /\ out' = <<>>
  /\ UNCHANGED head

\* push(buffer, length): pushes while there is room; the i-th slot from tail
\* gets the i-th value.
PushBuffer(buffer) ==
  LET n == Lesser(Len(buffer), Capacity - elements)
      offset(i) == IF i >= tail THEN i - tail ELSE i + Capacity - tail
  IN
  /\ data' = [i \in Slots |-> IF offset(i) < n THEN buffer[offset(i) + 1] ELSE data[i]]
  /\ tail' = Wrap(tail + n)
  /\ elements' = elements + n
  /\ out' = <<>>
  /\ UNCHANGED head

\* pop(): callers guarantee an element (assert)
Pop ==
  /\ elements > 0
  /\ out' = <<data[head]>>
  /\ head' = Wrap(head + 1)
  /\ elements' = elements - 1
  /\ UNCHANGED <<data, tail>>

\* Slip: the head moves over the whole requested length.
PopPast(count) ==
  LET n == Lesser(count, elements) IN
  /\ out' = [k \in 1..n |-> data[Wrap(head + k - 1)]]
  /\ head' = Wrap(head + Lesser(count, Capacity))
  /\ elements' = elements - n
  /\ UNCHANGED <<data, tail>>

\* pop(buffer, length): pops while there is an element
PopBuffer(count) ==
  LET n == Lesser(count, elements) IN
  /\ out' = [k \in 1..n |-> data[Wrap(head + k - 1)]]
  /\ head' = Wrap(head + n)
  /\ elements' = elements - n
  /\ UNCHANGED <<data, tail>>

QueueNext ==
  \/ \E v \in Value : Push(v)
  \/ \E buffer \in Buffers : PushBuffer(buffer)
  \/ Pop
  \/ \E count \in 0..MaxBuffer : PopBuffer(count)
  \/ Clear

QueueSpec == QueueInit /\ [][QueueNext]_queueVars

-----------------------------------------------------------------------------
(* Properties. *)

QueueTypes ==
  /\ data \in [Slots -> Value]
  /\ elements \in 0..Capacity /\ head \in Slots /\ tail \in Slots

\* The two indices and the element count, each kept by its own increments and
\* resets (Queue.hpp:52-56, 87-91), never disagree.
IndicesAgree == tail = Wrap(head + elements)

items == [k \in 1..elements |-> data[Wrap(head + k - 1)]]

Abstract == INSTANCE Fifo

\* The ring buffer is a bounded FIFO: nothing is lost, duplicated, reordered or
\* overwritten by any sequence of calls, across every wrap of the indices.
ImplementsFifo == Abstract!Spec
=============================================================================
