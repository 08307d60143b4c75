-------------------------------- MODULE Fifo --------------------------------
(***************************************************************************)
(* What a bounded queue promises: values leave in the order they came, at  *)
(* most Capacity of them are held, and a call on a buffer moves as many    *)
(* values as fit.  Abstract specification of Queue.hpp.                    *)
(***************************************************************************)
EXTENDS Integers, Sequences

CONSTANTS Value, Capacity, MaxBuffer

VARIABLES
  items,   \* the values held, oldest first
  out      \* what the last call handed back

Lesser(a, b) == IF a <= b THEN a ELSE b
Buffers == UNION {[1..n -> Value] : n \in 0..MaxBuffer}

Init == items = <<>> /\ out = <<>>

Put(buffer) ==
  LET n == Lesser(Len(buffer), Capacity - Len(items)) IN
  /\ items' = [k \in 1..(Len(items) + n) |->
                 IF k <= Len(items) THEN items[k] ELSE buffer[k - Len(items)]]
  /\ out' = <<>>

Take(count) ==
  LET n == Lesser(count, Len(items)) IN
  /\ out' = [k \in 1..n |-> items[k]]
  /\ items' = [k \in 1..(Len(items) - n) |-> items[k + n]]

Clear == items' = <<>> /\ out' = <<>>

Next ==
  \/ \E buffer \in Buffers : Put(buffer)
  \/ \E count \in 0..MaxBuffer : Take(count)
  \/ Clear

Spec == Init /\ [][Next]_<<items, out>>
=============================================================================
